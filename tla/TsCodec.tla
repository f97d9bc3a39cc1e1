------------------------------ MODULE TsCodec -------------------------------
(***************************************************************************)
(* The TypeScript SDK's wire format: serialization/index.ts, and the       *)
(* TransactionBuilder of types/index.ts with its own copy of the writers.  *)
(* A writer of the builder never throws; a writer or a reader of the       *)
(* serialization module returns a result, refused where it throws.         *)
(***************************************************************************)
EXTENDS Wire

TsTag ==
    [bool |-> 0, u8 |-> 1, u16 |-> 2, u32 |-> 3, u64 |-> 4, u128 |-> 5, u256 |-> 6,
     i8 |-> 7, i16 |-> 8, i32 |-> 9, i64 |-> 10, i128 |-> 11, address |-> 12,
     bytes |-> 13, string |-> 14, array |-> 15, option |-> 16, unit |-> 17]

TsVariant == [transfer |-> 0, deploy |-> 1, call |-> 2]

TsTypeOf(tag) == CHOOSE type \in DOMAIN TsTag : TsTag[type] = tag

\* A length prefix.
TsCount(s) == LeBytes(Len(s), W32)

RECURSIVE TsSerializeValue(_)
\* Numbers are masked to their width, never refused.
TsSerializeValue(v) ==
    <<TsTag[v.type]>> \o
    CASE v.type = "bool" -> <<IF v.num # 0 THEN 1 ELSE 0>>
      [] v.type \in DOMAIN UnsignedWidth -> LeBytes(v.num, UnsignedWidth[v.type])
      [] v.type \in DOMAIN SignedWidth -> LeBytes(v.num, SignedWidth[v.type])
      [] v.type = "address" -> v.data
      [] v.type = "bytes" -> TsCount(v.data) \o v.data
      [] v.type = "string" -> TsCount(Utf8(v.data)) \o Utf8(v.data)
      [] v.type = "array" ->
           TsCount(v.items) \o
             FlattenSeq([i \in DOMAIN v.items |-> TsSerializeValue(v.items[i])])
      [] v.type = "option" ->
           IF v.items = <<>> THEN <<0>> ELSE <<1>> \o TsSerializeValue(v.items[1])
      [] v.type = "unit" -> <<>>

TsSerializeValues(vs) == FlattenSeq([i \in DOMAIN vs |-> TsSerializeValue(vs[i])])

TsReadNum(b, w) == Then(Take(b, w), LAMBDA n, rest : Got(LeNum(n), rest))

RECURSIVE TsDeserializeValue(_), TsDeserializeValues(_, _)
TsDeserializeValue(bytes) ==
    Then(Take(bytes, 1), LAMBDA tag, b :
      IF tag[1] \notin {TsTag[type] : type \in DOMAIN TsTag} THEN Fail
      ELSE LET type == TsTypeOf(tag[1])
               Counted(F(_)) ==
                 Then(TsReadNum(b, W32), LAMBDA n, rest :
                   Then(Take(rest, n), LAMBDA d, after : Got(Data(type, F(d)), after)))
           IN CASE type = "bool" ->
                     Then(Take(b, 1), LAMBDA d, rest :
                       Got(Number(type, IF d[1] # 0 THEN 1 ELSE 0), rest))
                [] type \in DOMAIN UnsignedWidth ->
                     Then(TsReadNum(b, UnsignedWidth[type]), LAMBDA n, rest :
                       Got(Number(type, n), rest))
                [] type \in DOMAIN SignedWidth ->
                     Then(Take(b, SignedWidth[type]), LAMBDA d, rest :
                       Got(Number(type, SignedNum(d)), rest))
                [] type = "address" ->
                     Then(Take(b, AddrLen), LAMBDA d, rest : Got(Data(type, d), rest))
                [] type = "bytes" -> Counted(LAMBDA d : d)
                [] type = "string" -> Counted(DecodeUtf8)
                [] type = "array" ->
                     Then(TsReadNum(b, W32), LAMBDA n, rest :
                       Then(TsDeserializeValues(rest, n), LAMBDA vs, after :
                         Got(Items(type, vs), after)))
                [] type = "option" ->
                     Then(Take(b, 1), LAMBDA some, rest :
                       IF some[1] = 0 THEN Got(Items(type, <<>>), rest)
                       ELSE Then(TsDeserializeValue(rest), LAMBDA v, after :
                              Got(Items(type, <<v>>), after)))
                [] type = "unit" -> Got(Items(type, <<>>), b))

TsDeserializeValues(b, count) ==
    IF count = 0 THEN Got(<<>>, b)
    ELSE Then(TsDeserializeValue(b), LAMBDA v, rest :
           Then(TsDeserializeValues(rest, count - 1), LAMBDA vs, after :
             Got(<<v>> \o vs, after)))

TsSerializePayload(p) ==
    <<TsVariant[p.type]>> \o
    CASE p.type = "transfer" -> p.to \o BeBytes(p.amount, W256)
      [] p.type = "deploy" ->
           TsCount(p.code) \o p.code \o TsCount(p.args) \o TsSerializeValues(p.args)
      [] p.type = "call" ->
           p.to \o p.function \o TsCount(p.args) \o TsSerializeValues(p.args)
             \o BeBytes(p.value, W256)

TsDeserializePayload(bytes) ==
    Then(Take(bytes, 1), LAMBDA variant, b :
      CASE variant[1] = TsVariant["transfer"] ->
             Then(Take(b, AddrLen), LAMBDA to, rest :
               Then(Take(rest, W256), LAMBDA n, after :
                 Got(TransferPayload(to, BeNum(n), 0), after)))
        [] variant[1] = TsVariant["deploy"] ->
             Then(TsReadNum(b, W32), LAMBDA n, b1 :
               Then(Take(b1, n), LAMBDA code, b2 :
                 Then(TsReadNum(b2, W32), LAMBDA m, b3 :
                   Then(TsDeserializeValues(b3, m), LAMBDA args, after :
                     Got(DeployPayload(code, args, 0), after)))))
        [] variant[1] = TsVariant["call"] ->
             Then(Take(b, AddrLen), LAMBDA contract, b1 :
               Then(Take(b1, SelLen), LAMBDA fn, b2 :
                 Then(TsReadNum(b2, W32), LAMBDA m, b3 :
                   Then(TsDeserializeValues(b3, m), LAMBDA args, b4 :
                     Then(Take(b4, W256), LAMBDA n, after :
                       Got(CallPayload(contract, fn, args, BeNum(n)), after))))))
        [] OTHER -> Fail)

TsSerializeParents(parents) ==
    IF \A i \in DOMAIN parents : Len(parents[i]) = IdLen
    THEN Raw(TsCount(parents) \o FlattenSeq(parents))
    ELSE Fail

\* A mutant: the chain id is not signed.
TsSigningBytesAnyChain(tx) ==
    Cat(<< Raw(LeBytes(tx.nonce, W64)), Raw(LeBytes(tx.nonceKey, W64)), Raw(tx.from),
           Raw(TsSerializePayload(tx.payload)),
           Raw(LeBytes(tx.gasLimit, W64)), Raw(LeBytes(tx.gasPrice, W64)),
           TsSerializeParents(tx.parents), Raw(LeBytes(tx.timestamp, W64)) >>)

\* What getSigningBytes covers: neither the public key nor a shard hint.
TsGetSigningBytes(tx) ==
    Cat(<< Raw(LeBytes(tx.nonce, W64)), Raw(LeBytes(tx.nonceKey, W64)), Raw(tx.from),
           Raw(TsSerializePayload(tx.payload)),
           Raw(LeBytes(tx.gasLimit, W64)), Raw(LeBytes(tx.gasPrice, W64)),
           TsSerializeParents(tx.parents),
           Raw(LeBytes(tx.timestamp, W64)), Raw(LeBytes(tx.chainId, W64)) >>)

\* The shard hint of a transaction is never set: it is written as zero.
TsBorshSerialize(tx) ==
    Cat(<< Raw(LeBytes(tx.nonce, W64)), Raw(LeBytes(tx.nonceKey, W64)), Raw(tx.from),
           IF Len(tx.publicKey) = KeyLen THEN Raw(tx.publicKey) ELSE Fail,
           IF Len(tx.signature) = SigLen THEN Raw(tx.signature) ELSE Fail,
           Raw(TsSerializePayload(tx.payload)),
           Raw(LeBytes(tx.gasLimit, W64)), Raw(LeBytes(tx.gasPrice, W64)),
           TsSerializeParents(tx.parents),
           Raw(LeBytes(tx.timestamp, W64)), Raw(LeBytes(tx.chainId, W64)),
           Raw(LeBytes(0, W32)) >>)

\* The methods the reader of the serialization module has.
ByteReader == {"readU8", "readU32", "readU64", "readBytes", "isAtEnd", "remaining"}

TsDeserializeParents(bytes) ==
    Then(TsReadNum(bytes, W32), LAMBDA n, b :
      Then(Take(b, n * IdLen), LAMBDA d, rest :
        Got([i \in 1..n |-> SubSeq(d, (i - 1) * IdLen + 1, i * IdLen)], rest)))

\* The chain id is read after canRead has been asked whether it is there.
TsReadChainId(b) ==
    IF "canRead" \notin ByteReader THEN Fail
    ELSE IF Len(b) < W64 THEN Got(1, b) ELSE TsReadNum(b, W64)

\* A caller gets the transaction, or an error for anything that is thrown.
TsBorshDeserialize(bytes) ==
    Then(TsReadNum(bytes, W64), LAMBDA nonce, b1 :
    Then(TsReadNum(b1, W64), LAMBDA nonceKey, b2 :
    Then(Take(b2, AddrLen), LAMBDA from, b3 :
    Then(Take(b3, KeyLen), LAMBDA publicKey, b4 :
    Then(Take(b4, SigLen), LAMBDA signature, b5 :
    Then(TsDeserializePayload(b5), LAMBDA payload, b6 :
    Then(TsReadNum(b6, W64), LAMBDA gasLimit, b7 :
    Then(TsReadNum(b7, W64), LAMBDA gasPrice, b8 :
    Then(TsDeserializeParents(b8), LAMBDA parents, b9 :
    Then(TsReadNum(b9, W64), LAMBDA timestamp, b10 :
    Then(TsReadChainId(b10), LAMBDA chainId, after :
      IF after # <<>> THEN Fail
      ELSE Raw([nonce |-> nonce, nonceKey |-> nonceKey, from |-> from,
                publicKey |-> publicKey, signature |-> signature, payload |-> payload,
                gasLimit |-> gasLimit, gasPrice |-> gasPrice, parents |-> parents,
                timestamp |-> timestamp, chainId |-> chainId]))))))))))))

-----------------------------------------------------------------------------
(* JSON.  Digits, hexadecimal and Bech32m texts are read back by their     *)
(* inverse; what matters is which fields are written, which numbers are    *)
(* written as numbers, and what stands in for a field that is not there.   *)

\* A mutant: integers of 64 bits are written as numbers.
TsFormWide(type) ==
    CASE type \in {"u8", "u16", "u32", "u64", "i8", "i16", "i32", "i64"} -> "number"
      [] type \in {"u128", "u256", "i128"} -> "digits"
      [] OTHER -> type

\* Numbers of up to 32 bits are numbers, wider ones are decimal texts.
TsForm(type) ==
    CASE type \in {"u8", "u16", "u32", "i8", "i16", "i32"} -> "number"
      [] type \in {"u64", "u128", "u256", "i64", "i128"} -> "digits"
      [] OTHER -> type

RECURSIVE TsValueToJson(_), TsJsonToValue(_)
TsValueToJson(v) ==
    Json(v, TsForm(v.type), v.num, v.data, [i \in DOMAIN v.items |-> TsValueToJson(v.items[i])])

TsJsonToValue(j) ==
    [type |-> j.type, num |-> j.num, data |-> j.data,
     items |-> [i \in DOMAIN j.items |-> TsJsonToValue(j.items[i])]]

\* The JSON-RPC client has its own copy of the two.
RECURSIVE TsValueToRpc(_), TsRpcToValue(_)
TsValueToRpc(v) ==
    Json(v, TsForm(v.type), v.num, v.data, [i \in DOMAIN v.items |-> TsValueToRpc(v.items[i])])

TsRpcToValue(j) ==
    [type |-> j.type, num |-> j.num, data |-> j.data,
     items |-> [i \in DOMAIN j.items |-> TsRpcToValue(j.items[i])]]

\* payloadToJson writes no value of a call.
TsPayloadToJson(p) ==
    [p EXCEPT !.value = 0, !.args = [i \in DOMAIN @ |-> JsParsed(TsValueToJson(@[i]))]]

TsJsonToPayload(json) ==
    [json EXCEPT !.args = [i \in DOMAIN @ |-> TsJsonToValue(@[i])]]

\* jsonSerialize writes neither the nonce key nor the public key.
TsJsonSerialize(tx) ==
    [nonce |-> tx.nonce, from |-> tx.from, signature |-> tx.signature,
     payload |-> TsPayloadToJson(tx.payload), gasLimit |-> tx.gasLimit,
     gasPrice |-> tx.gasPrice, parents |-> tx.parents, timestamp |-> tx.timestamp,
     chainId |-> tx.chainId]

\* jsonDeserialize leaves the chain id out, so that signing takes it for 1,
\* and puts the address where the public key belongs.
TsJsonDeserialize(json) ==
    IF /\ Len(json.signature) = SigLen
       /\ \A i \in DOMAIN json.parents : Len(json.parents[i]) = IdLen
    THEN Got([nonce |-> json.nonce, nonceKey |-> 0, from |-> json.from,
              publicKey |-> json.from, signature |-> json.signature,
              payload |-> TsJsonToPayload(json.payload), gasLimit |-> json.gasLimit,
              gasPrice |-> json.gasPrice, parents |-> json.parents,
              timestamp |-> json.timestamp, chainId |-> 1], <<>>)
    ELSE Fail

-----------------------------------------------------------------------------
(* The builder.  A field that was never set is NotSet.                     *)

NotSet == -1

NoPayload == [type |-> "none"]

TsNewBuilder ==
    [nonce |-> NotSet, nonceKey |-> 0, from |-> <<>>, publicKey |-> <<>>, signature |-> <<>>,
     payload |-> NoPayload, gasLimit |-> NotSet, gasPrice |-> NotSet, parents |-> <<>>,
     timestamp |-> NotSet, chainId |-> 1]

\* The setters: the last one called for a field wins.
TsSet(b, settings) ==
    [field \in DOMAIN b |-> IF field \in DOMAIN settings THEN settings[field] ELSE b[field]]

\* The payloads that transfer(), deploy() and call() set: no value attached.
TsTransfer(to, amount) == TransferPayload(to, amount, 0)
TsDeploy(code, args) == DeployPayload(code, args, 0)
TsCall(contract, name, args) == CallPayload(contract, FromName(name), args, 0)

\* build() refuses a transaction without its five required fields; the
\* nonce key and the chain id start at 0 and 1, the timestamp at the clock.
TsBuild(b, now) ==
    IF b.nonce = NotSet \/ b.gasLimit = NotSet \/ b.gasPrice = NotSet
         \/ b.from = <<>> \/ b.payload.type = "none"
    THEN Fail
    ELSE Got([b EXCEPT !.timestamp = IF @ = NotSet THEN now ELSE @], <<>>)

\* The builder's own serializeValue is the other one, case by case.
TsBuilderValues(vs) == TsSerializeValues(vs)

\* The builder's own serializePayload writes no value of a call.
TsBuilderPayload(p) ==
    <<TsVariant[p.type]>> \o
    CASE p.type = "transfer" -> p.to \o BeBytes(p.amount, W256)
      [] p.type = "deploy" ->
           TsCount(p.code) \o p.code \o TsCount(p.args) \o TsBuilderValues(p.args)
      [] p.type = "call" ->
           p.to \o p.function \o TsCount(p.args) \o TsBuilderValues(p.args)

\* The builder copies each parent to its slot without a check of its length.
TsBuilderParents(parents) == TsCount(parents) \o FlattenSeq(parents)

\* What sign() puts the signature under.
TsComputeSigningBytes(tx) ==
    LeBytes(tx.nonce, W64) \o LeBytes(tx.nonceKey, W64) \o tx.from
      \o TsBuilderPayload(tx.payload)
      \o LeBytes(tx.gasLimit, W64) \o LeBytes(tx.gasPrice, W64)
      \o TsBuilderParents(tx.parents)
      \o LeBytes(tx.timestamp, W64) \o LeBytes(tx.chainId, W64)

\* The builder's sign(), and signTransaction of the wallet: the first signs
\* the builder's own bytes, the second those of getSigningBytes.
TsSign(b, now, key) ==
    Then(TsBuild(b, now), LAMBDA tx, rest :
      Got([tx EXCEPT !.publicKey = key, !.signature = Signature(TsComputeSigningBytes(tx))],
          TsComputeSigningBytes(tx)))

TsSignTransaction(tx, key) ==
    Then(TsGetSigningBytes(tx), LAMBDA signed, rest :
      Got([tx EXCEPT !.publicKey = key, !.signature = Signature(signed)], signed))

\* What the wallet sets of a builder before it has it signed: the options it
\* is given, and for the others a nonce of 0 and the gas of the operation.
TsWalletDraft(from, payload, gas, options) ==
    TsSet(TsNewBuilder, options @@ [from |-> from, payload |-> payload, nonce |-> 0,
                                    gasLimit |-> gas, gasPrice |-> GasPrice])

TsWalletTransfer(from, to, amount, options) ==
    TsWalletDraft(from, TsTransfer(to, amount), TransferGas, options)
TsWalletDeploy(from, code, args, options) ==
    TsWalletDraft(from, TsDeploy(code, args), DeployGas, options)
TsWalletCall(from, contract, name, args, options) ==
    TsWalletDraft(from, TsCall(contract, name, args), CallGas, options)

\* The address a deployment is said to get.
TsContractAddress(deployer, nonce) == ContractAddress(deployer, LeBytes(nonce, W64))

-----------------------------------------------------------------------------
(* The contract helper, with a third copy of the value codec, and the      *)
(* conversion of JavaScript arguments in contract-params.ts.               *)

ContractEncodeValue(v) == TsSerializeValue(v)
ContractDecodeValue(b) == TsDeserializeValue(b)

\* Call data: the selector, and the arguments without a count.
ContractEncodeCall(name, args) ==
    FromName(name) \o FlattenSeq([i \in DOMAIN args |-> ContractEncodeValue(args[i])])

\* A return value with bytes left over is refused.
ContractDecodeReturn(b) ==
    Then(ContractDecodeValue(b), LAMBDA v, rest : IF rest = <<>> THEN Raw(v) ELSE Fail)

\* buildCall: from the zero address, for a wallet to sign.
ContractBuildCall(contract, name, args, now) ==
    TsBuild(TsWalletDraft(Zeros(AddrLen), TsCall(contract, name, args), CallGas, <<>>), now)

\* The narrowest type of a family, in its order, that holds n; or the widest.
Narrowest(n, family) ==
    LET holding == {i \in DOMAIN family : InRange(Number(family[i], n))}
    IN Number(IF holding = {} THEN Last(family) ELSE family[Min(holding)], n)

\* An argument is a number, a big integer, a truth value, a text (one that
\* begins with "syn1" is an address), bytes, a list or null.
IsByteList(x) ==
    x.type = "list" /\ \A i \in DOMAIN x.items :
                         x.items[i].type = "number" /\ x.items[i].num \in 0 .. Base - 1

RECURSIVE ToValue(_)
ToValue(x) ==
    CASE x.type = "null" -> Items("option", <<>>)
      [] x.type = "bool" -> x
      [] x.type = "number" ->
           IF x.num < 0 THEN Narrowest(x.num, <<"i8", "i16", "i32", "i64">>)
           ELSE Narrowest(x.num, <<"u8", "u16", "u32", "u64">>)
      [] x.type = "bigint" -> Number(IF x.num < 0 THEN "i128" ELSE "u128", x.num)
      [] x.type = "text" -> Data("string", x.data)
      [] x.type = "syn1 text" -> Data("address", x.data)
      [] x.type = "bytes" -> x
      [] IsByteList(x) -> Data("bytes", [i \in DOMAIN x.items |-> x.items[i].num])
      [] OTHER -> Items("array", [i \in DOMAIN x.items |-> ToValue(x.items[i])])

\* The helpers that are named for a type: u8(x), array(x) and so on.
Typed(type, x) ==
    CASE type \in {"u8", "u16", "u32"} ->
           IF InRange(Number(type, x.num)) THEN Raw(Number(type, x.num)) ELSE Fail
      [] type \in {"u64", "bool"} -> Raw(Number(type, x.num))
      [] type = "string" -> Raw(Data(type, x.data))
      [] type = "address" -> IF x.type = "syn1 text" THEN Raw(Data(type, x.data)) ELSE Fail
      [] type = "bytes" ->
           Raw(IF x.type = "bytes" THEN x
               ELSE Data(type, [i \in DOMAIN x.items |-> x.items[i].num % Base]))
      [] type = "array" -> Raw(Items(type, [i \in DOMAIN x.items |-> ToValue(x.items[i])]))
      [] type = "option" ->
           Raw(Items(type, IF x.type = "null" THEN <<>> ELSE <<ToValue(x)>>))
=============================================================================
