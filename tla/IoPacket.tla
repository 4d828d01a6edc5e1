------------------------------ MODULE IoPacket ------------------------------
(***************************************************************************)
(* The 4-byte packets of the peripherals' interface                        *)
(* (src/yaAGC/agc_utilities.c):                                            *)
(*        00utpppp 01pppddd 10dddddd 11dddddd                              *)
(* The two high bits of a byte, its signature, are its place in a packet;  *)
(* u marks a mask, t a count of a counter.                                 *)
(***************************************************************************)
EXTENDS Integers

Byte == 0 .. 255
Packet == [1 .. 4 -> Byte]

\* The signature that byte number j of a packet has (j = 1 is the first).
Signature(byte) == byte \div 64
IsSignedPacket(p) == \A j \in 1 .. 4 : Signature(p[j]) = j - 1

\* Defined for 9-bit channels and 15-bit values; the code fails on the rest.
FormIoPacket(Channel, Value) ==
  << Channel \div 8, 64 + ((Channel % 8) * 8 + (Value \div 4096)),
     128 + ((Value \div 64) % 64), 192 + (Value % 64) >>

\* Defined only for packets with the right signatures.
ParseIoPacket(p) ==
  [ Channel |-> (p[1] % 32) * 8 + ((p[2] \div 8) % 8),
    Value   |-> (p[2] % 8) * 4096 + ((p[3] % 64) * 64 + (p[4] % 64)),
    uBit    |-> (p[1] \div 32) % 2 = 1 ]
=============================================================================
