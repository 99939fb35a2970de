---------------------------- MODULE ListingIndex ----------------------------
(***************************************************************************)
(* What the index of service records promises, however often and in        *)
(* whatever order the events of the stream reach it: for each record it    *)
(* takes events forward only, and shows what the newest one taken says.    *)
(***************************************************************************)
EXTENDS Naturals

CONSTANTS Records, Events

VARIABLES
    log,     \* the stream: which record each event is about, and whether it puts it
    top,     \* the newest event the index has taken of each record
    shown    \* the event whose content it shows; 0 for none

vars == <<log, top, shown>>

Init ==
    /\ log \in [Events -> [rec: Records, put: BOOLEAN]]
    /\ top = [r \in Records |-> 0]
    /\ shown = [r \in Records |-> 0]

Take(e) ==
    LET r == log[e].rec
    IN  /\ top[r] < e
        /\ top' = [top EXCEPT ![r] = e]
        /\ shown' = [shown EXCEPT ![r] = IF log[e].put THEN e ELSE 0]
        /\ UNCHANGED log

Next == \E e \in Events : Take(e)

Spec == Init /\ [][Next]_vars

=============================================================================
