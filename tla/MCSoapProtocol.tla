--------------------------- MODULE MCSoapProtocol ---------------------------
(* One connection with two calls and one request of the client: a call can *)
(* race with another's reply, with the end record, with the response to    *)
(* the request, and can be made inside the request's handler.              *)
EXTENDS SoapProtocol, TLC

CONSTANTS k1, k2, r1

MCCall == {k1, k2}
MCOneCall == {k1}
MCRequest == {r1}

Symmetry == Permutations(MCCall)
=============================================================================
