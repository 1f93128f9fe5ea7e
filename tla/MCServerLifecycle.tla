------------------------- MODULE MCServerLifecycle -------------------------
(* A pool of two threads, of which the SOAP server may take both and the  *)
(* HTTP server one, and a SOAP queue of one as in the code: the pool can   *)
(* be full for either server, with threads of the first Start still bound  *)
(* to their peers when the second begins.                                  *)
EXTENDS ServerLifecycle, TLC

CONSTANTS s1, s2, m1, w1, w2

MCSoapConn == {s1, s2}
MCMexConn == {m1}
MCWorker == {w1, w2}
MCMaxThreads == [soap |-> 2, mex |-> 1]
MCMaxQueued == [soap |-> 1, mex |-> 2]
=============================================================================
