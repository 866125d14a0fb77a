------------------------------ MODULE MCLibrary -----------------------------
(* Small instances of Library for TLC.                                     *)
EXTENDS Library

Upto(S, n) == UNION {[1 .. k -> S] : k \in 0 .. n}

(* Texts of 'A', 'a', a comma and a blank, and what is searched in them.   *)
SmallTexts == Upto({65, 97, 44, 32}, 3) \cup Upto({97, 44}, 5)
SmallPatterns == {<<97>>, <<44>>, <<97, 97>>, <<97, 44>>, <<97, 44, 97>>, <<32, 32>>}
SmallLimits == {-1, 0, 1, 2}
SmallLetters == {65, 97, 44}
SmallNumbers == -20 .. 20 \cup {-1024, 255, 4095, 65536}

(* On both sides of each change in the length of an encoding.              *)
EdgePoints == {0, 65, 127, 128, 233, 2047, 2048, 4095, 4096, 20320, 55295, 65535,
               65536, 128512, 1114111}

(* Scalars; then two levels of arrays and dictionaries of them.            *)
SmallStrings == {<<"str", t>> : t \in {<<>>, <<97>>, <<44, 32>>, <<34>>, <<92>>, <<92, 34>>, <<93>>}}
Scalars == SmallStrings \cup {<<"null", 0>>, <<"bool", TRUE>>, <<"int", -10>>, <<"int", 7>>,
                              <<"float", 50000>>, <<"float", -1500000>>}
Few == {<<"str", <<44, 32>>>>, <<"bool", FALSE>>, <<"int", 0>>, <<"float", 1000000>>}

ArraysOf(S, n) == {<<"array", s>> : s \in Upto(S, n)}
DictsWith(keys, S) == {<<"dict", <<<<k, v>>>>>> : k \in keys, v \in S}
DictsOf(S) == {<<"dict", <<>>>>} \cup DictsWith({<<97>>, <<58>>, <<34>>}, S)
              \cup {<<"dict", <<<<<<97>>, v>>, <<<<>>, w>>>>>> : v, w \in S}
Nested == ArraysOf(Few, 2) \cup DictsOf(Few)
Deep == ArraysOf({<<"array", <<<<"array", <<>>>>>>>>, <<"array", <<>>>>}, 2)
        \cup {<<"dict", <<<<<<97>>, <<"array", <<<<"dict", <<>>>>>>>>>>>>>>}
JsonValues == Scalars \cup ArraysOf(Scalars, 2) \cup ArraysOf(Few, 3) \cup DictsOf(Scalars)
              \cup ArraysOf(Nested, 1) \cup DictsWith({<<97>>}, Nested) \cup Deep

Blanks == {<<>>, <<32, 10>>}
Behind == {<<>>, <<44>>, <<32, 125>>}

(* A part of a Uri is one character or missing.                            *)
Part(c) == {<<>>, <<c>>}
SmallUris ==
    [scheme : Part("http") \cup Part("ftp"), host : Part("h"), port : Part("8"),
     path : {<<>>, <<"/">>, <<"/", "p">>, <<"/", ":">>, <<"/", ":", "/", "/">>},
     queries : {<<>>, <<<<<<"k">>, <<"v">>>>>>, <<<<<<"k">>, <<"v", "=", "/">>>>>>,
                <<<<<<"k">>, <<>>>>, <<<<"l">>, <<"?">>>>>>},
     fragment : {<<>>, <<"f">>, <<"#", "?">>}, ok : {TRUE}]

SmallDocuments == {d \in Upto(Upto({"x"}, 5), 4) : Len(FlattenSeq(d)) <= 7}

SmallLiterals == {<<1>>, <<1, 2>>}

Symmetric == Permutations(Strings) \cup Permutations(Lists) \cup Permutations(Items)
=============================================================================
