------------------------------ MODULE PyCodec -------------------------------
(***************************************************************************)
(* The Python SDK's wire format: serialization/__init__.py, and the        *)
(* TransactionBuilder of types/__init__.py.  struct.pack and to_bytes      *)
(* refuse a number that does not fit; struct.unpack_from refuses to read   *)
(* past the end, but a slice that reaches past it is silently shorter.     *)
(***************************************************************************)
EXTENDS Wire

PyTag ==
    [bool |-> 0, u8 |-> 1, u16 |-> 2, u32 |-> 3, u64 |-> 4, u128 |-> 5, u256 |-> 6,
     i8 |-> 7, i16 |-> 8, i32 |-> 9, i64 |-> 10, i128 |-> 11, address |-> 12,
     bytes |-> 13, string |-> 14, array |-> 15, option |-> 16, unit |-> 17]

PyVariant == [deploy |-> 0, call |-> 1, transfer |-> 2]

PyTypeOf(tag) == CHOOSE type \in DOMAIN PyTag : PyTag[type] = tag

\* A mutant: a number too large is cut to its width.
PyPackMasked(n, w) == Raw(LeBytes(n, w))

\* struct.pack of an unsigned format, or to_bytes
PyPack(n, w) == IF n \in 0 .. Base^w - 1 THEN Raw(LeBytes(n, w)) ELSE Fail

PyCount(s) == PyPack(Len(s), W32)

\* data[offset : offset + n]
PySlice(b, n) ==
    IF Len(b) < n THEN Got(b, <<>>) ELSE Got(SubSeq(b, 1, n), SubSeq(b, n + 1, Len(b)))

\* A mutant: a number is read from a slice, of what bytes there are.
PyUnpackShort(b, w) == Then(PySlice(b, w), LAMBDA d, rest : Got(LeNum(d), rest))

PyUnpack(b, w) == Then(Take(b, w), LAMBDA d, rest : Got(LeNum(d), rest))

\* Address(...) and FunctionSelector(...) check the length of what they get.
PySized(b, n) ==
    Then(PySlice(b, n), LAMBDA d, rest : IF Len(d) = n THEN Got(d, rest) ELSE Fail)

RECURSIVE PySerializeValue(_)
PySerializeValue(v) ==
    Cat(<< Raw(<<PyTag[v.type]>>),
      CASE v.type = "bool" -> Raw(<<IF v.num # 0 THEN 1 ELSE 0>>)
        [] v.type \in DOMAIN UnsignedWidth -> PyPack(v.num, UnsignedWidth[v.type])
        [] v.type \in DOMAIN SignedWidth ->
             IF InRange(v) THEN Raw(LeBytes(v.num, SignedWidth[v.type])) ELSE Fail
        [] v.type = "address" -> Raw(v.data)
        [] v.type = "bytes" -> Cat(<<PyCount(v.data), Raw(v.data)>>)
        [] v.type = "string" -> Cat(<<PyCount(Utf8(v.data)), Raw(Utf8(v.data))>>)
        [] v.type = "array" ->
             Cat(<<PyCount(v.items)>> \o
                 [i \in DOMAIN v.items |-> PySerializeValue(v.items[i])])
        [] v.type = "option" ->
             IF v.items = <<>> THEN Raw(<<0>>)
             ELSE Cat(<<Raw(<<1>>), PySerializeValue(v.items[1])>>)
        [] v.type = "unit" -> Raw(<<>>) >>)

PySerializeValues(vs) == Cat([i \in DOMAIN vs |-> PySerializeValue(vs[i])])

RECURSIVE PyDeserializeValue(_), PyDeserializeValues(_, _)
PyDeserializeValue(bytes) ==
    Then(Take(bytes, 1), LAMBDA tag, b :
      IF tag[1] \notin {PyTag[type] : type \in DOMAIN PyTag} THEN Fail
      ELSE LET type == PyTypeOf(tag[1])
           IN CASE type = "bool" ->
                     Then(Take(b, 1), LAMBDA d, rest :
                       Got(Number(type, IF d[1] # 0 THEN 1 ELSE 0), rest))
                [] type \in {"u8", "u16", "u32", "u64"} ->
                     Then(PyUnpack(b, UnsignedWidth[type]), LAMBDA n, rest :
                       Got(Number(type, n), rest))
                [] type \in {"u128", "u256"} ->
                     Then(PySlice(b, UnsignedWidth[type]), LAMBDA d, rest :
                       Got(Number(type, LeNum(d)), rest))
                [] type \in {"i8", "i16", "i32", "i64"} ->
                     Then(Take(b, SignedWidth[type]), LAMBDA d, rest :
                       Got(Number(type, SignedNum(d)), rest))
                [] type = "i128" ->
                     Then(PySlice(b, W128), LAMBDA d, rest :
                       Got(Number(type, SignedNum(d)), rest))
                [] type = "address" ->
                     Then(PySized(b, AddrLen), LAMBDA d, rest : Got(Data(type, d), rest))
                [] type = "bytes" ->
                     Then(PyUnpack(b, W32), LAMBDA n, rest :
                       Then(PySlice(rest, n), LAMBDA d, after : Got(Data(type, d), after)))
                [] type = "string" ->
                     Then(PyUnpack(b, W32), LAMBDA n, rest :
                       Then(PySlice(rest, n), LAMBDA d, after :
                         LET text == DecodeUtf8(d)
                         IN IF \E i \in DOMAIN text : text[i] = Replacement
                            THEN Fail ELSE Got(Data(type, text), after)))
                [] type = "array" ->
                     Then(PyUnpack(b, W32), LAMBDA n, rest :
                       Then(PyDeserializeValues(rest, n), LAMBDA vs, after :
                         Got(Items(type, vs), after)))
                [] type = "option" ->
                     Then(Take(b, 1), LAMBDA some, rest :
                       IF some[1] = 0 THEN Got(Items(type, <<>>), rest)
                       ELSE Then(PyDeserializeValue(rest), LAMBDA v, after :
                              Got(Items(type, <<v>>), after)))
                [] type = "unit" -> Got(Items(type, <<>>), b))

PyDeserializeValues(b, count) ==
    IF count = 0 THEN Got(<<>>, b)
    ELSE Then(PyDeserializeValue(b), LAMBDA v, rest :
           Then(PyDeserializeValues(rest, count - 1), LAMBDA vs, after :
             Got(<<v>> \o vs, after)))

\* The value of a call that is not 32 bytes long is written as zero.
PySerializePayload(p) ==
    CASE p.type = "deploy" ->
           Cat(<<Raw(<<PyVariant["deploy"]>>), PyCount(p.code), Raw(p.code),
                 PyCount(p.args), PySerializeValues(p.args)>>)
      [] p.type = "call" ->
           Cat(<<Raw(<<PyVariant["call"]>> \o p.to \o p.function),
                 PyCount(p.args), PySerializeValues(p.args),
                 Raw(IF Len(p.value) = W256 THEN p.value ELSE Zeros(W256))>>)
      [] p.type = "transfer" ->
           Cat(<<Raw(<<PyVariant["transfer"]>> \o p.to),
                 IF p.amount \in 0 .. Base^W256 - 1
                 THEN Raw(BeBytes(p.amount, W256)) ELSE Fail>>)

PyDeserializePayload(bytes) ==
    Then(Take(bytes, 1), LAMBDA variant, b :
      CASE variant[1] = PyVariant["deploy"] ->
             Then(PyUnpack(b, W32), LAMBDA n, b1 :
               Then(PySlice(b1, n), LAMBDA code, b2 :
                 Then(PyUnpack(b2, W32), LAMBDA m, b3 :
                   Then(PyDeserializeValues(b3, m), LAMBDA args, after :
                     Got(DeployPayload(code, args, <<>>), after)))))
        [] variant[1] = PyVariant["call"] ->
             Then(PySized(b, AddrLen), LAMBDA contract, b1 :
               Then(PySized(b1, SelLen), LAMBDA fn, b2 :
                 Then(PyUnpack(b2, W32), LAMBDA m, b3 :
                   Then(PyDeserializeValues(b3, m), LAMBDA args, b4 :
                     Then(PySlice(b4, W256), LAMBDA value, after :
                       Got(CallPayload(contract, fn, args, value), after))))))
        [] variant[1] = PyVariant["transfer"] ->
             Then(PySized(b, AddrLen), LAMBDA to, b1 :
               Then(PySlice(b1, W256), LAMBDA n, after :
                 Got(TransferPayload(to, BeNum(n), <<>>), after)))
        [] OTHER -> Fail)

\* What is signed ends with a shard hint, always zero, and the public key.
PyComputeSigningBytes(tx) ==
    Cat(<< PyPack(tx.nonce, W64), PyPack(tx.nonceKey, W64), Raw(tx.from),
           PySerializePayload(tx.payload),
           PyPack(tx.gasLimit, W64), PyPack(tx.gasPrice, W64),
           PyCount(tx.parents), Raw(FlattenSeq(tx.parents)),
           PyPack(tx.timestamp, W64), PyPack(tx.chainId, W64), PyPack(0, W32),
           Raw(IF Len(tx.publicKey) = KeyLen THEN tx.publicKey ELSE Zeros(KeyLen)) >>)

PyBorshSerialize(tx) ==
    Cat(<< PyPack(tx.nonce, W64), PyPack(tx.nonceKey, W64), Raw(tx.from),
           Raw(tx.publicKey), Raw(tx.signature), PySerializePayload(tx.payload),
           PyPack(tx.gasLimit, W64), PyPack(tx.gasPrice, W64),
           PyCount(tx.parents), Raw(FlattenSeq(tx.parents)),
           PyPack(tx.timestamp, W64), PyPack(tx.chainId, W64) >>)

RECURSIVE PySlices(_, _)
PySlices(b, count) ==
    IF count = 0 THEN Got(<<>>, b)
    ELSE Then(PySlice(b, IdLen), LAMBDA d, rest :
           Then(PySlices(rest, count - 1), LAMBDA ds, after : Got(<<d>> \o ds, after)))

\* A chain id that is not there in full is zero, and bytes left over at the
\* end are not looked at.
PyBorshDeserialize(bytes) ==
    Then(PyUnpack(bytes, W64), LAMBDA nonce, b1 :
    Then(PyUnpack(b1, W64), LAMBDA nonceKey, b2 :
    Then(PySized(b2, AddrLen), LAMBDA from, b3 :
    Then(PySlice(b3, KeyLen), LAMBDA publicKey, b4 :
    Then(PySlice(b4, SigLen), LAMBDA signature, b5 :
    Then(PyDeserializePayload(b5), LAMBDA payload, b6 :
    Then(PyUnpack(b6, W64), LAMBDA gasLimit, b7 :
    Then(PyUnpack(b7, W64), LAMBDA gasPrice, b8 :
    Then(PyUnpack(b8, W32), LAMBDA n, b9 :
    Then(PySlices(b9, n), LAMBDA parents, b10 :
    Then(PyUnpack(b10, W64), LAMBDA timestamp, b11 :
      LET chain == IF Len(b11) < W64 THEN Got(0, b11) ELSE PyUnpack(b11, W64)
      IN Got([nonce |-> nonce, nonceKey |-> nonceKey, from |-> from,
              publicKey |-> publicKey, signature |-> signature, payload |-> payload,
              gasLimit |-> gasLimit, gasPrice |-> gasPrice, parents |-> parents,
              timestamp |-> timestamp, chainId |-> chain.value], chain.rest))))))))))))

\* The contract helper: call data is the selector and the arguments without
\* a count; what follows a return value is not looked at.
PyEncodeCall(name, args) == Cat(<<Raw(FromName(name)), PySerializeValues(args)>>)

PyDecodeReturn(b) == Then(PyDeserializeValue(b), LAMBDA v, rest : Raw(v))

-----------------------------------------------------------------------------
(* JSON, in the format of the chain's serde.  Python's integers are exact  *)
(* in it; those of 128 bits are written as digits and those of 256 as the  *)
(* bytes of their width, which refuses one that does not fit.              *)

PyForm(type) ==
    CASE type \in {"u8", "u16", "u32", "u64", "i8", "i16", "i32", "i64"} -> "number"
      [] type \in {"u128", "i128"} -> "digits"
      [] type \in {"u256", "bytes"} -> "list"
      [] OTHER -> type

RECURSIVE PyValueToDict(_), PyDictToValue(_)
PyValueToDict(v) ==
    LET parts == [i \in DOMAIN v.items |-> PyValueToDict(v.items[i])]
    IN IF (\E i \in DOMAIN parts : ~parts[i].ok) \/ (v.type = "u256" /\ ~InRange(v))
       THEN Fail
       ELSE Raw(Json(v, PyForm(v.type),
                     IF v.type = "u256" THEN 0 ELSE v.num,
                     IF v.type = "u256" THEN LeBytes(v.num, W256) ELSE v.data,
                     [i \in DOMAIN parts |-> parts[i].value]))

PyDictToValue(j) ==
    [type |-> j.type,
     num |-> IF j.type = "u256" THEN LeNum(j.data) ELSE j.num,
     data |-> IF j.type = "u256" THEN <<>> ELSE j.data,
     items |-> [i \in DOMAIN j.items |-> PyDictToValue(j.items[i])]]

\* The dictionary of a transaction: its lane, its chain and its key are not
\* written, and a value of a call that is not 32 bytes long is zero.
PyTxToDict(tx) ==
    LET p    == tx.payload
        args == [i \in DOMAIN p.args |-> PyValueToDict(p.args[i])]
    IN IF \/ \E i \in DOMAIN args : ~args[i].ok
          \/ p.type = "transfer" /\ p.amount \notin 0 .. Base^W256 - 1
       THEN Fail
       ELSE Raw([nonce |-> tx.nonce, from |-> tx.from, signature |-> tx.signature,
                 payload |-> [p EXCEPT !.args = [i \in DOMAIN args |-> args[i].value],
                                       !.value = IF p.type = "call" /\ Len(@) # W256
                                                 THEN Zeros(W256) ELSE @],
                 gasLimit |-> tx.gasLimit, gasPrice |-> tx.gasPrice,
                 parents |-> tx.parents, timestamp |-> tx.timestamp])

\* The fields _dict_to_tx passes to Transaction(...).
PyDictFields ==
    {"nonce", "from", "signature", "payload", "gasLimit", "gasPrice", "parents",
     "timestamp", "txId"}

\* The fields Transaction(...) asks for: the others have a default.
PyRequiredFields ==
    {"nonce", "from", "publicKey", "signature", "payload", "gasLimit", "gasPrice"}

\* json_deserialize, when there is no key to give to the constructor.
PyDictToTx(dict) ==
    IF PyRequiredFields \subseteq PyDictFields THEN Raw(dict) ELSE Fail

-----------------------------------------------------------------------------
(* The builder.  A field that was never set is Unset.                      *)

Unset == -1

PyNewBuilder ==
    [nonce |-> Unset, nonceKey |-> Unset, from |-> <<>>, publicKey |-> <<>>,
     signature |-> <<>>, payload |-> [type |-> "none"], gasLimit |-> Unset,
     gasPrice |-> Unset, parents |-> <<>>, timestamp |-> Unset, chainId |-> Unset]

\* The setters: the last one called for a field wins.
PySet(b, settings) ==
    [field \in DOMAIN b |-> IF field \in DOMAIN settings THEN settings[field] ELSE b[field]]

\* The payloads that transfer(), deploy() and call() set: a value of 0.
PyTransfer(to, amount) == TransferPayload(to, amount, <<>>)
PyDeploy(code, args) == DeployPayload(code, args, <<>>)
PyCall(contract, name, args) == CallPayload(contract, FromName(name), args, Zeros(W256))

\* create_transfer: what it sets before it signs.
PyCreateTransfer(from, to, amount, nonce) ==
    PySet(PyNewBuilder, [from |-> from, nonce |-> nonce, gasLimit |-> TransferGas,
                         gasPrice |-> GasPrice,
                         payload |-> PyTransfer(to, amount)])

\* build() asks for a sender, a payload and both gas fields; a nonce, a
\* nonce key or a chain id that was never set is 0.
PyBuild(b, now) ==
    IF b.from = <<>> \/ b.payload.type = "none" \/ b.gasLimit = Unset \/ b.gasPrice = Unset
    THEN Fail
    ELSE Got([b EXCEPT !.nonce = IF @ = Unset THEN 0 ELSE @,
                       !.nonceKey = IF @ = Unset THEN 0 ELSE @,
                       !.chainId = IF @ = Unset THEN 0 ELSE @,
                       !.timestamp = IF @ = Unset THEN now ELSE @], <<>>)

\* sign() puts the key into the transaction before it takes the bytes to sign.
PySign(b, now, key) ==
    Then(PyBuild(b, now), LAMBDA tx, rest :
      LET prelim == [tx EXCEPT !.publicKey = key, !.signature = Zeros(SigLen)]
      IN Then(PyComputeSigningBytes(prelim), LAMBDA signed, none :
           Got([prelim EXCEPT !.signature = Signature(signed)], signed)))
\* The address a deployment is said to get; a nonce beyond its width raises.
PyContractAddress(deployer, nonce) ==
    IF nonce \in 0 .. Base^W64 - 1
    THEN Raw(ContractAddress(deployer, LeBytes(nonce, W64))) ELSE Fail
=============================================================================
