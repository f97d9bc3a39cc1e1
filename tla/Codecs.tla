------------------------------- MODULE Codecs -------------------------------
(***************************************************************************)
(* The codecs of the two SDKs side by side.  A probe is one input of a     *)
(* codec: a value, or the state of a transaction builder that is about to  *)
(* sign; the properties relate what the encoders write, the decoders read, *)
(* and the two SDKs make of the same thing.                                *)
(***************************************************************************)
EXTENDS TsCodec, PyCodec

CONSTANTS
    Values,         \* call arguments
    JsArguments,    \* the same as a caller in JavaScript has them
    PyDrafts,       \* states of the Python TransactionBuilder
    TsDrafts,       \* states of the TypeScript one
    TsLiterals,     \* transactions put together by hand, for the wallet to sign
    Deployments     \* a deployer and a nonce

VARIABLE probe

Nothing == [kind |-> "nothing", input |-> <<>>]

CodecInit == probe = Nothing

Try(kind, inputs) ==
    /\ probe = Nothing
    /\ \E input \in inputs : probe' = [kind |-> kind, input |-> input]

CodecNext ==
    \/ Try("value", Values)
    \/ Try("argument", JsArguments)
    \/ Try("python", PyDrafts)
    \/ Try("typescript", TsDrafts)
    \/ Try("literal", TsLiterals)
    \/ Try("deployment", Deployments)

CodecSpec == CodecInit /\ [][CodecNext]_probe

-----------------------------------------------------------------------------
\* The key and the clock.
Key == [i \in 1..KeyLen |-> i + 1]
Now == 7

PySigned == {r \in {PySign(b, Now, Key) : b \in PyDrafts} : r.ok}
TsSignedAs(kind, input) ==
    IF kind = "typescript" THEN TsSign(input, Now, Key)
    ELSE TsSignTransaction(input, Key)
TsSigned == {r \in {TsSignedAs("typescript", b) : b \in TsDrafts}
                   \union {TsSignedAs("literal", t) : t \in TsLiterals} : r.ok}
IsTs == probe.kind \in {"typescript", "literal"}

\* The amount fits its width, as every other number of the drafts does.
Fits(tx) == tx.payload.amount \in 0 .. Base^W256 - 1

Unsigned(tx) == [tx EXCEPT !.signature = <<>>]

-----------------------------------------------------------------------------
RECURSIVE AsBytes(_)
\* A list of small numbers is sent as the bytes it could be.
AsBytes(x) ==
    IF IsByteList(x) THEN Data("bytes", [i \in DOMAIN x.items |-> x.items[i].num])
    ELSE [x EXCEPT !.items = [i \in DOMAIN @ |-> AsBytes(@[i])]]

(* A value whose numbers fit is encoded to the same bytes by both SDKs,    *)
(* alone or in call data, and each reads it back and leaves what follows   *)
(* it alone; behind a return value TypeScript allows nothing.  It comes    *)
(* back from JSON unchanged, in the two formats of TypeScript, where wide  *)
(* numbers would be rounded, and in that of Python.  Python refuses every  *)
(* other value, at any depth, in the wire format, and in JSON one of 256   *)
(* bits; TypeScript writes one, and what is read back is another value.    *)
ValuesAgree ==
    probe.kind = "value" =>
      LET v == probe.input
          bytes == TsSerializeValue(v)
          after == <<3, 0, 1>>
      IN IF WellFormed(v)
         THEN /\ PySerializeValue(v) = Raw(bytes)
              /\ TsDeserializeValue(bytes \o after) = Got(v, after)
              /\ PyDeserializeValue(bytes \o after) = Got(v, after)
              /\ PyEncodeCall(<<1>>, <<v, v>>) = Raw(ContractEncodeCall(<<1>>, <<v, v>>))
              /\ ContractDecodeReturn(bytes) = Raw(v)
              /\ ContractDecodeReturn(bytes \o after) = Fail
              /\ PyDecodeReturn(bytes \o after) = Raw(v)
              /\ TsJsonToValue(JsParsed(TsValueToJson(v))) = v
              /\ TsRpcToValue(JsParsed(TsValueToRpc(v))) = v
              /\ PyValueToDict(v).ok /\ PyDictToValue(PyValueToDict(v).value) = v
         ELSE /\ ~PySerializeValue(v).ok
              /\ TsDeserializeValue(bytes).ok /\ TsDeserializeValue(bytes).value # v
              /\ v.type = "u256" => ~PyValueToDict(v).ok

(* Different JavaScript arguments are different values, except that a list *)
(* of small numbers is sent as the bytes; a number is given a type it      *)
(* fits, but for those no type of its kind can hold.  A helper that is     *)
(* named for a type takes the numbers that are given no wider one; array() *)
(* keeps a list of small numbers a list, and bytes() cuts other numbers.   *)
ArgumentsFit ==
    probe.kind = "argument" =>
      LET x == probe.input
          widest == IF x.type = "number" THEN W64 ELSE W128
      IN /\ \A y \in JsArguments : ToValue(x) = ToValue(y) => AsBytes(x) = AsBytes(y)
         /\ x.type \in {"number", "bigint"} =>
              (WellFormed(ToValue(x)) <=>
                 x.num \in -(Base^widest \div 2) .. Base^widest - 1)
         /\ x.type = "number" => \A type \in {"u8", "u16", "u32"} :
              Typed(type, x).ok <=> /\ ToValue(x).type \in DOMAIN UnsignedWidth
                                    /\ UnsignedWidth[ToValue(x).type] <= UnsignedWidth[type]
         /\ x.type = "list" =>
              /\ (Typed("array", x).value = ToValue(x)) <=> ~IsByteList(x)
              /\ (\A i \in DOMAIN x.items : x.items[i].type = "number") =>
                   (Typed("bytes", x).value = ToValue(x) <=> IsByteList(x))

(* Both SDKs say the same of where a contract will be; Python refuses a    *)
(* nonce that does not fit, and TypeScript takes it for another.           *)
DeploymentsAgree ==
    probe.kind = "deployment" =>
      LET d == probe.input
          said == PyContractAddress(d.deployer, d.nonce)
      IN IF d.nonce < Base^W64
         THEN said = Raw(TsContractAddress(d.deployer, d.nonce))
         ELSE /\ ~said.ok
              /\ TsContractAddress(d.deployer, d.nonce)
                   = TsContractAddress(d.deployer, d.nonce % Base^W64)

(* What one SDK makes of a value, an argument or a deployment is what the  *)
(* other one does, and where they differ it is as said above.              *)
SdksAgreeOnValues ==
    /\ ValuesAgree
    /\ ArgumentsFit
    /\ DeploymentsAgree

(* A Python transaction is read back from its bytes as it was signed, and  *)
(* no prefix that ends before the chain id is read at all, although slices *)
(* and lengths are not checked where they are read.                        *)
PyTxComesBack ==
    probe.kind = "python" =>
      LET signed == PySign(probe.input, Now, Key)
          bytes  == PyBorshSerialize(signed.value).value
      IN signed.ok =>
           /\ PyBorshDeserialize(bytes) = Got(signed.value, <<>>)
           /\ \A n \in 0 .. Len(bytes) - W64 - 1 : ~PyBorshDeserialize(SubSeq(bytes, 1, n)).ok

(* Two transactions that differ in anything but the signature have         *)
(* different signing bytes, in either SDK, whatever the lengths of their   *)
(* parts; an amount that does not fit is refused by Python, and by no one  *)
(* in TypeScript, where it is signed as another amount.                    *)
SigningBytesBind ==
    /\ probe.kind = "python" =>
         LET mine == PySign(probe.input, Now, Key)
         IN mine.ok =>
              /\ Fits(mine.value)
              /\ \A other \in PySigned :
                   mine.rest = other.rest => Unsigned(mine.value) = Unsigned(other.value)
    /\ IsTs =>
         LET mine == TsSignedAs(probe.kind, probe.input)
         IN mine.ok =>
              \A other \in TsSigned :
                /\ Fits(mine.value) /\ Fits(other.value)
                /\ TsGetSigningBytes(mine.value) = TsGetSigningBytes(other.value)
                => Unsigned(mine.value) = Unsigned(other.value)

(* A TypeScript transaction that has been through JSON has the same        *)
(* signing bytes, and so the same identifier, if and only if it is of lane *)
(* 0, of chain 1, and attaches no value to a call.  Its payload goes       *)
(* through the wire format unchanged.                                      *)
TsJsonKeepsTheId ==
    IsTs =>
      LET signed == TsSignedAs(probe.kind, probe.input)
          tx     == signed.value
          back   == TsJsonDeserialize(TsJsonSerialize(tx))
      IN signed.ok =>
           /\ back.ok
           /\ (TsGetSigningBytes(back.value) = TsGetSigningBytes(tx)) <=>
                (tx.nonceKey = 0 /\ tx.chainId = 1 /\ tx.payload.value = 0)
           /\ Fits(tx) =>
                TsDeserializePayload(TsSerializePayload(tx.payload)) = Got(tx.payload, <<>>)

-----------------------------------------------------------------------------
(* What docs and tests say of whole transactions, and the code does not.   *)

\* "The signing bytes are the canonical bytes that get signed to produce the
\* transaction signature" (serialization/index.ts:1131-1132), of a call.
CallSignsCanonical(b) ==
    LET signed == TsSign(b, Now, Key)
    IN signed.ok /\ b.payload.type = "call" /\ TsGetSigningBytes(signed.value) = Raw(signed.rest)

\* borshDeserialize gives a transaction that was serialized
\* (serialization.test.ts:149-269, 374-409).
TsBorshComesBack(tx) == TsBorshDeserialize(TsBorshSerialize(tx).value).ok

\* So does json_deserialize (test_serialization.py:420-482 and
\* test_serialization_properties.py:334-348).
PyJsonComesBack(tx) ==
    LET dict == PyTxToDict(tx) IN dict.ok /\ PyDictToTx(dict.value).ok

\* "Truncated Borsh data SHALL be rejected" (:415 there).
PyTruncationsRefused(tx) ==
    LET bytes == PyBorshSerialize(tx).value
    IN \A n \in 0 .. Len(bytes) - 1 : ~PyBorshDeserialize(SubSeq(bytes, 1, n)).ok

(* Each of these is said of every transaction; this asks for one of them,  *)
(* of one transaction.  Violated: no call that the TypeScript builder      *)
(* signs is signed under the canonical bytes, no transaction comes back    *)
(* from TypeScript's Borsh, and there is a Python transaction that does    *)
(* not come back from JSON and of which less than all bytes are read.      *)
SomeClaimHolds ==
    probe.kind = "python" =>
      LET signed == PySign(probe.input, Now, Key)
      IN signed.ok => \/ \E b \in TsDrafts : CallSignsCanonical(b)
                      \/ \E other \in TsSigned : TsBorshComesBack(other.value)
                      \/ PyJsonComesBack(signed.value)
                      \/ PyTruncationsRefused(signed.value)
=============================================================================
