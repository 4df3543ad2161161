--------------------------- MODULE MCCanonicalOrder ---------------------------
(* Two experts, blocks of one, which are never padded, and of two: full, padded
   and unused blocks, and a buffer that does not end with a block. *)
EXTENDS CanonicalOrder
MCExperts == {0, 1}
MCBlockSizes == {1, 2}
MCGarbage == {0, 3}
===============================================================================
