---------------------------- MODULE MCMsgBoxRelay ----------------------------
(***************************************************************************)
(* Small instances of MsgBoxRelay: a request with its cancel, a message    *)
(* without an expiry, and two or three sockets.                            *)
(***************************************************************************)
EXTENDS MsgBoxRelay, TLC

CONSTANTS c1, c2, request, message, cancel

NoCancel == [k \in {} |-> request]
OneCancel == cancel :> request
Acking == {TRUE}
Either == BOOLEAN
Sockets == Permutations(Conns)
=============================================================================
