----------------------------- MODULE MCSoapWire -----------------------------
(* Three threads (the connection's and two application threads) send three *)
(* envelopes, a preamble ack and an end record over one connection.        *)
EXTENDS SoapWire

CONSTANTS conn, app1, app2, m1, m2, m3, ack, end

MCThread == {conn, app1, app2}
MCMsg == {m1, m2, m3}
MCControl == {ack, end}
=============================================================================
