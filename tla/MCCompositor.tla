------------------------------ MODULE MCCompositor ------------------------------
(***************************************************************************)
(* An instance of Compositor for TLC: two videos and an audio track come   *)
(* and go; a third video has the id of the first, published again, and the *)
(* audio track that of the second.                                         *)
(***************************************************************************)
EXTENDS Compositor, TLC

CONSTANTS v1, v2, v3, a1, i1, i2

IdOf == v1 :> i1 @@ v3 :> i1 @@ v2 :> i2 @@ a1 :> i2

GarbageValues == {-1, 0}

\* The two videos of one id are interchangeable.
Symmetry == Permutations({v1, v3})
===============================================================================
