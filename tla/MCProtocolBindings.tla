------------------------- MODULE MCProtocolBindings -------------------------
(* Two connections that may share a name or send no preamble, and two      *)
(* calls: enough for a reconnect under an old name while one call is in    *)
(* flight from an application thread and another from a handler.           *)
EXTENDS ProtocolBindings, TLC

CONSTANTS c1, c2, k1, k2

MCConn == {c1, c2}
MCCall == {k1, k2}
MCName == 0..2
=============================================================================
