------------------------------- MODULE Slices -------------------------------
(***************************************************************************)
(* The parts and the repetitions of a text: vslice() and operator* of      *)
(* ayr::CString (include/ayr/base/meta/CString.hpp) and ayr::Atring        *)
(* (base/Atring.hpp).  Positions are counted from 0.                       *)
(***************************************************************************)
EXTENDS Integers, SequencesExt

VSlice(s, start, end) == IF end > start THEN SubSeq(s, start + 1, end) ELSE <<>>

Repeat(s, n) == FlattenSeq([i \in 1 .. n |-> s])
=============================================================================
