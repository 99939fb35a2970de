--------------------------- MODULE MCRunAdmission ---------------------------
(***************************************************************************)
(* Finite instances of RunAdmission for TLC.                               *)
(***************************************************************************)
EXTENDS RunAdmission, TLC

CONSTANTS i, j, k

\* i and j are one message under two ids.
MCKeyOf == [id \in Ids |-> IF id = k THEN k ELSE i]

\* Slots are interchangeable, and so are the two ids of one message.
RunSymmetry == Permutations(Slots) \cup Permutations({i, j})
=============================================================================
