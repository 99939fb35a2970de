------------------------------ MODULE MCD2DOutbox ------------------------------
(***************************************************************************)
(* Small instances of D2DOutbox: two answers to one query, which share an  *)
(* idempotency key, or an answer and a note.                               *)
(***************************************************************************)
EXTENDS D2DOutbox, TLC

CONSTANTS d1, d2, answer, again, note, query, talk

Keys == [c \in Calls |-> IF c = note THEN talk ELSE query]
=============================================================================
