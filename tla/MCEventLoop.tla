---------------------------- MODULE MCEventLoop ----------------------------
(* Small instances of EventLoop for TLC.                                   *)
EXTENDS EventLoop, TLC

CONSTANTS c1, c2, c3, a1, a2

OneCoro == {c1}
FirstTwo == {c1, c2}
ThreeCoros == {c1, c2, c3}
TwoAddrs == {a1, a2}
OneOrTwo == {1, 2}
JustOne == {1}
OpsEach == c1 :> 3 @@ c2 :> 2 @@ c3 :> 2
TwoOps == c1 :> 2
SentEach == c1 :> 2 @@ c2 :> 1 @@ c3 :> 0
TwoSent == c1 :> 2
None == {}
=============================================================================
