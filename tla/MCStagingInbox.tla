--------------------------- MODULE MCStagingInbox ---------------------------
(***************************************************************************)
(* Finite instances of StagingInbox for TLC.                               *)
(***************************************************************************)
EXTENDS StagingInbox, TLC

PersonaSymmetry == Permutations(Personas)

=============================================================================
