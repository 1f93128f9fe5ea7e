----------------------------- MODULE PackedInt -----------------------------
(***************************************************************************)
(* The packed integers that carry the lengths of records: the digits of a  *)
(* number to the base 2^7, the lowest first, one to a byte, the top bit of *)
(* a byte saying that another follows.  The code encodes and decodes them  *)
(* in place, in words of 32 bits.                                          *)
(***************************************************************************)
EXTENDS Sequences, Naturals

CONSTANTS Base,       \* the values of a digit (2^7)
          Word,       \* the numbers a size_t can hold, as a count (2^32)
          HeaderRoom  \* the bytes SendXml has for a size (4)

ASSUME PackedAssumption ==
    /\ Base \in Nat \ {0, 1} /\ HeaderRoom \in Nat \ {0}
    /\ Word \in Nat /\ Word >= Base

(* The place of a digit, 0 for the lowest: num << 7 * k is num * Place[k].  *)
Place[k \in Nat] == IF k = 0 THEN 1 ELSE Base * Place[k - 1]

EncodePackedIntOffByOne(num) ==
    LET bytes[n \in Nat] ==
            IF n <= Base THEN <<n>> ELSE <<Base + (n % Base)>> \o bytes[n \div Base]
    IN  bytes[num]

(* num > 0x7F sets the top bit, num >> 7 is what the next byte is for. *)
EncodePackedInt(num) ==
    LET bytes[n \in Nat] ==
            IF n < Base THEN <<n>> ELSE <<Base + (n % Base)>> \o bytes[n \div Base]
    IN  bytes[num]

Continues(byte) == byte >= Base

(* The digits are or-ed together, each shifted to its place in an int that *)
(* wraps; data is read up to the first byte no other follows.              *)
DecodePackedInt(data) ==
    LET count == CHOOSE k \in DOMAIN data :
                    ~Continues(data[k]) /\ \A i \in 1..(k - 1) : Continues(data[i])
        sum[k \in 0..count] ==
            IF k = 0 THEN 0
            ELSE (sum[k - 1] + (data[k] % Base) * Place[k - 1]) % Word
    IN  [value |-> sum[count], count |-> count]
=============================================================================
