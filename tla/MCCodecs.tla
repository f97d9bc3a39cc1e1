------------------------------ MODULE MCCodecs ------------------------------
(***************************************************************************)
(* The codecs of the two SDKs for TLC, and what they are tried with.       *)
(***************************************************************************)
EXTENDS Codecs, TLC

(* The inputs of the codecs: every type, at and beyond the ends of its     *)
(* width, empty and nested, and texts of one-byte and two-byte characters. *)

Atoms ==
    {Number("bool", n) : n \in {0, 1}} \union
    UNION {{Number(t, n) : n \in {-1, 0, 1, Base^UnsignedWidth[t] - 1, Base^UnsignedWidth[t]}}
             : t \in DOMAIN UnsignedWidth} \union
    UNION {{Number(t, n) : n \in LET half == Base^SignedWidth[t] \div 2
                                 IN {-half - 1, -half, -1, 0, half - 1, half}}
             : t \in DOMAIN SignedWidth} \union
    {Data("address", <<3, 17>>), Items("unit", <<>>)} \union
    {Data("bytes", b) : b \in {<<>>, <<5>>, <<19, 0, 1>>}} \union
    {Data("string", s) : s \in {<<>>, <<1>>, <<12, 3>>, <<18, 10>>}}

Few == {Number("u8", Base - 1), Number("u8", Base), Number("i16", -1), Data("string", <<12>>),
        Data("bytes", <<1, 2>>), Items("unit", <<>>), Number("u256", Base)}

Options == {Items("option", <<>>)} \union {Items("option", <<v>>) : v \in Few}
Arrays == {Items("array", <<>>)} \union {Items("array", <<v>>) : v \in Few \union Options}
            \union {Items("array", <<v, w>>) : v \in Few, w \in Few}
MCValues == Atoms \union Options \union Arrays \union {Items("option", <<v>>) : v \in Arrays}

JsAtoms ==
    {Number("number", n) : n \in UNION {{Base^w - 1, Base^w, -(Base^w \div 2), -(Base^w \div 2) - 1}
                                          : w \in {W8, W16, W32, W64}} \union {-1, 0, 1, 12}} \union
    {Number("bigint", n) : n \in {-(Base^W128 \div 2) - 1, -1, 0, 1, Base^W128 - 1, Base^W128}} \union
    {Number("bool", 0), Number("bool", 1), Items("null", <<>>)} \union
    {Data(type, d) : type \in {"text", "syn1 text", "bytes"}, d \in {<<>>, <<1>>, <<1, 12>>}}
JsLists == {Items("list", <<>>)} \union {Items("list", <<x>>) : x \in JsAtoms} \union
    {Items("list", <<Number("number", 1), x>>) : x \in JsAtoms}
MCJsArguments == JsAtoms \union JsLists \union {Items("list", <<x>>) : x \in JsLists}

Args == {<<>>, <<Number("u16", 300)>>, <<Number("u64", Base^W64 - 1)>>, <<Data("bytes", <<1>>), Data("string", <<12>>)>>,
         <<Items("array", <<Number("i8", -1)>>)>>}

Payloads(Transfer(_, _), Deploy(_, _), Call(_, _, _)) ==
    {Transfer(<<1, 2>>, n) : n \in {0, 21, Base^W256}} \union
    {Deploy(code, args) : code \in {<<>>, <<9, 9>>}, args \in Args} \union
    {Call(<<1, 2>>, <<4>>, args) : args \in Args}

Basic(payload) ==
    [nonce |-> 3, from |-> <<5, 6>>, payload |-> payload, gasLimit |-> 400, gasPrice |-> 1]

\* What is set of a draft: all a signature needs; one of that missing or
\* other than it was; or one of the rest.
Settings(payload) ==
    LET basic == Basic(payload)
    IN {Restrict(basic, DOMAIN basic \ {field}) : field \in DOMAIN basic} \union
       {[basic EXCEPT !.nonce = n] : n \in {0, Base^W64 - 1}} \union
       {[basic EXCEPT !.from = <<6, 5>>], [basic EXCEPT !.gasLimit = 401],
        [basic EXCEPT !.gasPrice = 20]} \union
       {("nonceKey" :> lane) @@ basic : lane \in {1, 255}} \union
       {("parents" :> ps) @@ basic : ps \in {<< <<1, 2>> >>, << <<1, 2>>, <<3, 4>> >>}} \union
       {("timestamp" :> 8) @@ basic, ("chainId" :> 321) @@ basic}

MCPyDrafts ==
    {PySet(PyNewBuilder, Basic(p)) : p \in Payloads(PyTransfer, PyDeploy, PyCall)} \union
    {PySet(PyNewBuilder, s) :
       s \in Settings(PyTransfer(<<1, 2>>, 21))
               \union Settings(PyCall(<<1, 2>>, <<4>>, <<Number("u16", 300)>>))} \union
    {PyCreateTransfer(<<5, 6>>, <<1, 2>>, 21, 3)}
MCTsDrafts ==
    {TsSet(TsNewBuilder, Basic(p)) : p \in Payloads(TsTransfer, TsDeploy, TsCall)} \union
    {TsSet(TsNewBuilder, s) :
       s \in Settings(TsTransfer(<<1, 2>>, 21))
               \union Settings(TsCall(<<1, 2>>, <<4>>, <<Number("u16", 300)>>))} \union
    UNION {{TsWalletTransfer(<<5, 6>>, <<1, 2>>, 21, options),
            TsWalletDeploy(<<5, 6>>, <<9, 9>>, <<>>, options),
            TsWalletCall(<<5, 6>>, <<1, 2>>, <<4>>, <<>>, options)}
             : options \in {<<>>, [nonce |-> 1], [nonceKey |-> 1, gasPrice |-> 2], [gasLimit |-> 1]}}
MCTsLiterals ==
    {ContractBuildCall(<<1, 2>>, <<4>>, args, 6).value : args \in Args} \union
    {TsSet(TsNewBuilder, [timestamp |-> 5, chainId |-> chain, nonceKey |-> lane]
                           @@ Basic(CallPayload(<<1, 2>>, <<4>>, <<>>, n)))
       : n \in {0, 1, Base^W256 - 1}, chain \in {0, 1}, lane \in {0, 1}}

\* A signature that depends on every signed byte.
MCSignature(signed) ==
    LeBytes(FoldLeft(LAMBDA n, byte : (n * 3 + byte) % 5003, 1, signed), SigLen)

MCSha3(bytes) == LeBytes(FoldLeft(LAMBDA n, byte : (n * 7 + byte) % 7919, 5, bytes), 3)

MCDeployments == [deployer : {<<5, 6>>, <<6, 5>>}, nonce : {0, 1, 255, Base^W64 - 1, Base^W64}]
=============================================================================
