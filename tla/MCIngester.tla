----------------------------- MODULE MCIngester -----------------------------
(***************************************************************************)
(* Finite instances of Ingester for TLC.                                   *)
(***************************************************************************)
EXTENDS Ingester

Put1(r) == [rec |-> r, put |-> TRUE]
Del1(r) == [rec |-> r, put |-> FALSE]

\* A listing that comes, goes and comes again; a node that announces itself,
\* lists, and withdraws both.
SomeStreams ==
    {s \in [1..N -> [rec: Listings \cup Presences, put: BOOLEAN]] :
       \E l \in Listings, o \in Presences :
          s \in {<<Put1(l), Del1(l), Put1(l)>>, <<Put1(o), Put1(l), Del1(o)>>}}

=============================================================================
