------------------------------ MODULE PacketCodec ------------------------------
(***************************************************************************)
(* The bytes of a packet: what setHeader, encryption and decryption of     *)
(* class serializer do to them (serializer.h).                             *)
(*                                                                         *)
(* A packet is its size field, its randKey and its body: the checksum and  *)
(* the payload after it, which encryption changes in place.  The constant  *)
(* code byte is left out, and chars are numbers modulo ByteSize.           *)
(***************************************************************************)
EXTENDS Integers, Sequences

CONSTANTS
    ByteSize,    \* values of a char (256)
    Xor(_, _),   \* the operator ^ on chars
    staticKey    \* getStatickey()

Byte == 0 .. ByteSize - 1

ASSUME CodecAssumption ==
    /\ ByteSize \in Nat \ {0}
    /\ staticKey \in Byte
    /\ \A a, b \in Byte : Xor(a, b) \in Byte /\ Xor(Xor(a, b), b) = a

\* (char)n
Char(n) == n % ByteSize

payload(p) == Tail(p.body)

Total(s) ==
    LET sum[i \in 0 .. Len(s)] == IF i = 0 THEN 0 ELSE sum[i - 1] + s[i]
    IN  sum[Len(s)]
CheckSum(s) == Char(Total(s))

\* A serializer with a payload and no header yet.
Plain(s) == [size |-> 0, randKey |-> 0, body |-> <<0>> \o s]

\* The header is written from what the payload is now.
setHeader(p, key) ==
    [size |-> Len(payload(p)), randKey |-> key, body |-> <<CheckSum(payload(p))>> \o payload(p)]

encryption_NoChain(p) ==
    LET pP[i \in 0 .. p.size + 1] ==
            IF i = 0 THEN 0 ELSE Xor(p.body[i], Char(pP[i - 1] + p.randKey + i))
        pE[i \in 0 .. p.size + 1] ==
            IF i = 0 THEN 0 ELSE Xor(pP[i], Char(pP[i - 1] + staticKey + i))
    IN  [p EXCEPT !.body = [i \in 1 .. p.size + 1 |-> pE[i]]]

\* Byte i is mixed with the one before it, first in plain, then encrypted.
encryption(p) ==
    LET pP[i \in 0 .. p.size + 1] ==
            IF i = 0 THEN 0 ELSE Xor(p.body[i], Char(pP[i - 1] + p.randKey + i))
        pE[i \in 0 .. p.size + 1] ==
            IF i = 0 THEN 0 ELSE Xor(pP[i], Char(pE[i - 1] + staticKey + i))
    IN  [p EXCEPT !.body = [i \in 1 .. p.size + 1 |-> pE[i]]]

\* What decryption leaves, and whether the checksum is right.
decrypted(p) ==
    LET pE(i) == IF i = 0 THEN 0 ELSE p.body[i]
        pP(i) == IF i = 0 THEN 0 ELSE Xor(pE(i), Char(pE(i - 1) + staticKey + i))
    IN  [p EXCEPT !.body = [i \in 1 .. p.size + 1 |-> Xor(pP(i), Char(pP(i - 1) + p.randKey + i))]]

ChecksumHolds(p) == Char(p.body[1] - CheckSum(payload(p))) = 0
================================================================================
