----------------------------- MODULE MCGreeter -----------------------------
(* Two clients of the socket and two authentications, so that one is       *)
(* replaced by another while its prompts and its result are under way, and *)
(* two requests, of which one may fail to be sent.                         *)
EXTENDS GreeterWire, TLC

CONSTANTS c1, c2

MCClients == {c1, c2}
MCOneClient == {c1}
MCSymmetry == Permutations(MCClients)
============================================================================
