-------------------------------- MODULE Wire --------------------------------
(***************************************************************************)
(* What the codecs of the two SDKs share: bytes, the integers they encode, *)
(* the values and transactions that travel, and results that may fail.     *)
(*                                                                         *)
(* A byte is a number below Base.  The real base is 256 and the real       *)
(* widths are 1, 2, 4, 8, 16 and 32 bytes; both are parameters, so that a  *)
(* small instance still has every width, every overflow and every sign.    *)
(***************************************************************************)
EXTENDS Integers, Sequences, SequencesExt

CONSTANTS
    Base,       \* number of values of a byte
    W8, W16, W32, W64, W128, W256,  \* width in bytes of the integer types
    AddrLen,    \* length of an address
    KeyLen,     \* length of a public key
    SigLen,     \* length of a signature
    IdLen,      \* length of a transaction id
    SelLen,     \* length of a function selector
    ExactInt,   \* integers up to here are exact as numbers of JavaScript, 2^53
    Signature(_),   \* the signature of some bytes under the key at hand
    Sha3(_),        \* the hash of some bytes
    TransferGas, DeployGas, CallGas, GasPrice   \* what the SDKs offer by themselves

ASSUME WireAssumption ==
    /\ Base \in Nat /\ Base >= 18 /\ Base % 2 = 0
    /\ {W8, W16, W32, W64, W128, W256, AddrLen, KeyLen, SigLen, IdLen, SelLen}
         \subseteq Nat \ {0}
    /\ {ExactInt, TransferGas, DeployGas, CallGas, GasPrice} \subseteq Nat

Half == Base \div 2

-----------------------------------------------------------------------------
(* Integers as bytes.  TLA+'s \div and % round towards minus infinity, as  *)
(* the masks and arithmetic shifts of the two languages do.                *)

LeBytes(n, w) == [i \in 1..w |-> (n \div Base^(i - 1)) % Base]

BeBytes(n, w) == Reverse(LeBytes(n, w))

LeNum(b) == FoldRight(LAMBDA digit, n : n * Base + digit, b, 0)

BeNum(b) == LeNum(Reverse(b))

\* Two's complement over the bytes at hand.
SignedNum(b) ==
    IF b # <<>> /\ Last(b) >= Half THEN LeNum(b) - Base^Len(b) ELSE LeNum(b)

Zeros(n) == [i \in 1..n |-> 0]

-----------------------------------------------------------------------------
(* A result carries a value and, for a reader, the bytes that are left.    *)

Fail == [ok |-> FALSE, value |-> <<>>, rest |-> <<>>]

Got(v, rest) == [ok |-> TRUE, value |-> v, rest |-> rest]

\* What a reader does next with what it has read.
Then(r, F(_, _)) == IF r.ok THEN F(r.value, r.rest) ELSE Fail

\* Every part written in order, or nothing when one of them is refused.
Cat(parts) ==
    IF \A i \in DOMAIN parts : parts[i].ok
    THEN Got(FlattenSeq([i \in DOMAIN parts |-> parts[i].value]), <<>>)
    ELSE Fail

Raw(b) == Got(b, <<>>)

\* The next n bytes, refused when there are not that many.
Take(b, n) ==
    IF Len(b) < n THEN Fail ELSE Got(SubSeq(b, 1, n), SubSeq(b, n + 1, Len(b)))

-----------------------------------------------------------------------------
(* The values of a contract call: a number, raw data, or nested values.    *)

UnsignedWidth ==
    [u8 |-> W8, u16 |-> W16, u32 |-> W32, u64 |-> W64, u128 |-> W128, u256 |-> W256]

SignedWidth == [i8 |-> W8, i16 |-> W16, i32 |-> W32, i64 |-> W64, i128 |-> W128]

Number(type, n) == [type |-> type, num |-> n, data |-> <<>>, items |-> <<>>]
Data(type, b)   == [type |-> type, num |-> 0, data |-> b, items |-> <<>>]
Items(type, vs) == [type |-> type, num |-> 0, data |-> <<>>, items |-> vs]

\* A number fits the width its type is written with.
InRange(v) ==
    CASE v.type \in DOMAIN UnsignedWidth ->
           v.num \in 0 .. Base^UnsignedWidth[v.type] - 1
      [] v.type \in DOMAIN SignedWidth ->
           LET half == Base^SignedWidth[v.type] \div 2 IN v.num \in -half .. half - 1
      [] OTHER -> TRUE

RECURSIVE WellFormed(_)
\* Every number of a value fits.
WellFormed(v) == InRange(v) /\ \A i \in DOMAIN v.items : WellFormed(v.items[i])

-----------------------------------------------------------------------------
(* The payloads of a transaction.  A contract is addressed as "to"; value  *)
(* is what a call attaches: a number in TypeScript, bytes in Python.       *)

Payload(type, to, amount, code, fn, args, value) ==
    [type |-> type, to |-> to, amount |-> amount, code |-> code, function |-> fn,
     args |-> args, value |-> value]

TransferPayload(to, amount, none) ==
    Payload("transfer", to, amount, <<>>, <<>>, <<>>, none)
DeployPayload(code, args, none) ==
    Payload("deploy", <<>>, 0, code, <<>>, args, none)
CallPayload(contract, fn, args, value) ==
    Payload("call", contract, 0, <<>>, fn, args, value)

-----------------------------------------------------------------------------
(* JSON.  A value is written as its type and a content: a number, its      *)
(* decimal digits, bytes as hexadecimal text or as a list, text, or other  *)
(* values.                                                                 *)

Json(v, form, num, data, items) ==
    [type |-> v.type, form |-> form, num |-> num, data |-> data, items |-> items]

\* A number beyond the exact ones is rounded to an even one, or further.
JsNumber(n) == IF n \in -ExactInt .. ExactInt THEN n ELSE n - (n % 2)

RECURSIVE JsParsed(_)
\* What JSON.parse makes of the text: only numbers are not exact.
JsParsed(j) ==
    [j EXCEPT !.num = IF j.form = "number" THEN JsNumber(@) ELSE @,
              !.items = [i \in DOMAIN @ |-> JsParsed(@[i])]]

-----------------------------------------------------------------------------
(* Text.  Characters below Half take one byte and the others two, so that  *)
(* a text is longer in bytes than in characters; a byte sequence that is   *)
(* no text decodes to the replacement character.                           *)

Lead == Base - 1
Replacement == Base

Utf8(text) ==
    FlattenSeq([i \in DOMAIN text |-> IF text[i] < Half THEN <<text[i]>> ELSE <<Lead, text[i]>>])

RECURSIVE DecodeUtf8(_)
DecodeUtf8(b) ==
    IF b = <<>> THEN <<>>
    ELSE IF Head(b) < Half THEN <<Head(b)>> \o DecodeUtf8(Tail(b))
    ELSE IF Len(b) > 1 /\ Head(b) = Lead /\ b[2] \in Half .. Lead - 1
    THEN <<b[2]>> \o DecodeUtf8(SubSeq(b, 3, Len(b)))
    ELSE <<Replacement>> \o DecodeUtf8(Tail(b))

-----------------------------------------------------------------------------
(* What is derived from a hash: its first bytes select a function, and its *)
(* last bytes are the address of a contract.                               *)

FromName(name) == SubSeq(Sha3(Utf8(name)), 1, SelLen)

ContractAddress(deployer, nonceBytes) ==
    LET hash == Sha3(deployer \o nonceBytes)
    IN SubSeq(hash, Len(hash) - AddrLen + 1, Len(hash))
=============================================================================
