--------------------------- MODULE MCSoapTcpFrame ---------------------------
(* A preamble, whose URL has two cells, a short and a long envelope and    *)
(* the end record, received through a buffer that holds just the preamble  *)
(* or both envelopes, but no more.                                         *)
(* Digits are of two bits, so the long envelope's size takes two of them;  *)
(* a word has one bit more than the two digits there is room for, where    *)
(* the code's has four bits more than its four digits.                     *)
EXTENDS SoapTcpFrame

CONSTANTS short, long

MCMsg == {short, long}
MCTextLen == [m \in MCMsg |-> IF m = short THEN 1 ELSE 4]
=============================================================================
