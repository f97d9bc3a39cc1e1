------------------------------ MODULE Bech32m -------------------------------
(***************************************************************************)
(* Addresses as text.  Bech32m is written out, bit by bit, in              *)
(* address/__init__.py of the Python SDK and taken from a package by       *)
(* address/index.ts of the other.  A number is the set of the places of    *)
(* its ones, the lowest is 0: exclusive or is the difference of two sets,  *)
(* a shift moves the places, a mask keeps some of them.  A Bech32m text is *)
(* the characters before its last "1", as character codes, and the ones    *)
(* after it, as their places in CHARSET.  A hexadecimal text is its        *)
(* digits, without "0x".                                                   *)
(***************************************************************************)
EXTENDS Integers, Sequences, FiniteSets

CONSTANT AddressBytes       \* 20 in the code

ASSUME AddressBytesAssumption == AddressBytes \in Nat \ {0}

Byte == SUBSET (0 .. 7)
Quintet == SUBSET (0 .. 4)
Nibble == SUBSET (0 .. 3)

Xor(a, b) == (a \ b) \union (b \ a)

\* 0x2bc830a3
BECH32M_CONST == {0, 1, 5, 7, 12, 13, 19, 22, 23, 24, 25, 27, 29}

\* 0x3b6a57b2, 0x26508e6d, 0x1ea119fa, 0x3d4233dd and 0x2a1462b3
Generator ==
    << {1, 4, 5, 7, 8, 9, 10, 12, 14, 17, 19, 21, 22, 24, 25, 27, 28, 29},
       {0, 2, 3, 5, 6, 9, 10, 11, 15, 20, 22, 25, 26, 29},
       {1, 3, 4, 5, 6, 7, 8, 11, 12, 16, 21, 23, 25, 26, 27, 28},
       {0, 2, 3, 4, 6, 7, 8, 9, 12, 13, 17, 22, 24, 26, 27, 28, 29},
       {0, 1, 4, 5, 7, 9, 13, 14, 18, 20, 25, 27, 29} >>

\* "syn"
PREFIX == << {0, 1, 4, 5, 6}, {0, 3, 4, 5, 6}, {1, 2, 3, 5, 6} >>

Invalid == [ok |-> FALSE, data |-> <<>>]

\* What the five highest bits of the checksum feed back into it.
Feedback(top) ==
    LET Of(i) == IF i \in top THEN Generator[i + 1] ELSE {}
    IN Xor(Xor(Xor(Xor(Of(0), Of(1)), Of(2)), Of(3)), Of(4))

\* A mutant: the highest bit feeds nothing back.
PolymodStepShort(chk, value) ==
    Xor(Xor({b + 5 : b \in chk \intersect (0 .. 24)}, value),
        Feedback({i \in 0 .. 3 : i + 25 \in chk}))

PolymodStep(chk, value) ==
    Xor(Xor({b + 5 : b \in chk \intersect (0 .. 24)}, value),
        Feedback({i \in 0 .. 4 : i + 25 \in chk}))

\* The checksum after each of the values.
Checksums(values) ==
    LET chk[i \in 0 .. Len(values)] ==
          IF i = 0 THEN {0} ELSE PolymodStep(chk[i - 1], values[i])
    IN chk

Polymod(values) == Checksums(values)[Len(values)]

HrpExpand(hrp) ==
    [i \in 1 .. 2 * Len(hrp) + 1 |->
       IF i <= Len(hrp) THEN {b - 5 : b \in hrp[i] \intersect (5 .. 7)}
       ELSE IF i = Len(hrp) + 1 THEN {}
       ELSE hrp[i - Len(hrp) - 1] \intersect (0 .. 4)]

CreateChecksum(hrp, data) ==
    LET polymod == Xor(Polymod(HrpExpand(hrp) \o data \o [i \in 1 .. 6 |-> {}]), BECH32M_CONST)
    IN [i \in 1 .. 6 |-> {b \in 0 .. 4 : b + 5 * (6 - i) \in polymod}]

Encode(hrp, data) == [hrp |-> hrp, data |-> data \o CreateChecksum(hrp, data)]

VerifyChecksum(hrp, data) == Polymod(HrpExpand(hrp) \o data) = BECH32M_CONST

\* Text of the right alphabet, in one case, needs six characters of checksum.
Decode(text) ==
    IF Len(text.data) < 6 \/ ~VerifyChecksum(text.hrp, text.data)
    THEN Invalid
    ELSE [ok |-> TRUE, data |-> SubSeq(text.data, 1, Len(text.data) - 6)]

\* Regroup frombits-bit numbers as tobits-bit ones.  Here a place is counted
\* from the front of the data.  What is left over is padded, or must be less
\* than one input group and all zeros.
ConvertBits(data, frombits, tobits, pad) ==
    LET ones  == UNION {{frombits * i - 1 - b : b \in data[i]} : i \in DOMAIN data}
        total == frombits * Len(data)
        count == (IF pad THEN total + tobits - 1 ELSE total) \div tobits
    IN IF ~pad /\ (total % tobits >= frombits \/ \E p \in ones : p >= tobits * count)
       THEN Invalid
       ELSE [ok |-> TRUE,
             data |-> [k \in 1 .. count |-> {b \in 0 .. tobits - 1 : tobits * k - 1 - b \in ones}]]

ToBech32(address) == Encode(PREFIX, ConvertBits(address, 8, 5, TRUE).data)

FromBech32(text) ==
    LET decoded == Decode(text)
        bytes   == ConvertBits(decoded.data, 5, 8, FALSE)
    IN IF \/ ~decoded.ok
          \/ text.hrp # PREFIX
          \/ ~bytes.ok
          \/ Len(bytes.data) # AddressBytes
       THEN Invalid
       ELSE bytes

\* The TypeScript address asks for its prefix before it converts the words.
TsFromBech32(text) ==
    LET decoded == Decode(text)
    IN IF ~decoded.ok \/ text.hrp # PREFIX THEN Invalid
       ELSE LET bytes == ConvertBits(decoded.data, 5, 8, FALSE)
            IN IF bytes.ok /\ Len(bytes.data) = AddressBytes THEN bytes ELSE Invalid

-----------------------------------------------------------------------------
(* Hexadecimal text, with what may stand in it besides the digits.         *)

Space == {16}
Letter == {17}

HighHalf(byte) == {b \in 0 .. 3 : b + 4 \in byte}
LowHalf(byte) == byte \intersect (0 .. 3)
Joined(high, low) == {b + 4 : b \in high} \union low

ToHex(address) ==
    [p \in 1 .. 2 * Len(address) |->
       IF p % 2 = 1 THEN HighHalf(address[(p + 1) \div 2]) ELSE LowHalf(address[p \div 2])]

TsFromHex(digits) ==
    IF Len(digits) # 2 * AddressBytes \/ \E p \in DOMAIN digits : digits[p] \notin Nibble
    THEN Invalid
    ELSE [ok |-> TRUE,
          data |-> [k \in 1 .. AddressBytes |-> Joined(digits[2 * k - 1], digits[2 * k])]]

\* bytes.fromhex skips the spaces between two bytes; the address asks for
\* its length.
PyFromHex(digits) ==
    LET D         == {p \in DOMAIN digits : digits[p] # Space}
        Before(p) == Cardinality({q \in D : q < p})
        Place(n)  == CHOOSE p \in D : Before(p) = n
    IN IF /\ \A p \in D : digits[p] \in Nibble
          /\ \A p \in DOMAIN digits \ D : Before(p) % 2 = 0
          /\ Cardinality(D) = 2 * AddressBytes
       THEN [ok |-> TRUE,
             data |-> [k \in 1 .. AddressBytes |->
                         Joined(digits[Place(2 * k - 2)], digits[Place(2 * k - 1)])]]
       ELSE Invalid
=============================================================================
