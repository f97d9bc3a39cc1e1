----------------------------- MODULE MCClients -----------------------------
(***************************************************************************)
(* The clients for TLC, one part of them per behaviour: the codecs of the  *)
(* SDKs, the texts, the lanes of a wallet, an agent, the parallel client,  *)
(* the session of a browser and the checkout page.                         *)
(***************************************************************************)
EXTENDS MCCodecs, Texts, LaneWallet, AgentRetry, Broadcast, WalletSession, Checkout

CONSTANTS a1, a2, e1, usdt, tron, main

VARIABLE part

clientVars == <<part, probe, sample, laneVars, agentVars, broadcastVars,
                sessionVars, checkoutVars>>

\* The parts that are not at work are in one of their initial states.  The
\* caching client is tried with lanes, and by one thread.
ClientsInit ==
    /\ part \in {"codecs", "texts", "lanes", "agent", "broadcast", "session", "checkout"}
    /\ CodecInit /\ TextInit /\ LaneInit /\ AgentInit /\ BroadcastInit
    /\ SessionInit /\ CheckoutInit
    /\ part # "lanes" => mode = "loop" /\ ~cachedClient /\ laneAware
    /\ cachedClient => mode # "threads" /\ laneAware
    /\ part # "agent" => sdk = "python" /\ ledger = 0
    /\ part # "broadcast" => lang = "python"
    /\ part # "checkout" => order.asset = SYN /\ paymentId = Null
                              /\ runs[CHOOSE i \in Ids : TRUE].pc = "asking"

ClientsNext ==
    /\ UNCHANGED part
    /\ \/ /\ part = "codecs" /\ CodecNext
          /\ UNCHANGED <<sample, laneVars, agentVars, broadcastVars, sessionVars, checkoutVars>>
       \/ /\ part = "texts" /\ TextNext
          /\ UNCHANGED <<probe, laneVars, agentVars, broadcastVars, sessionVars, checkoutVars>>
       \/ /\ part = "lanes" /\ LaneNext
          /\ UNCHANGED <<probe, sample, agentVars, broadcastVars, sessionVars, checkoutVars>>
       \/ /\ part = "agent" /\ AgentNext
          /\ UNCHANGED <<probe, sample, laneVars, broadcastVars, sessionVars, checkoutVars>>
       \/ /\ part = "broadcast" /\ BroadcastNext
          /\ UNCHANGED <<probe, sample, laneVars, agentVars, sessionVars, checkoutVars>>
       \/ /\ part = "session" /\ SessionNext
          /\ UNCHANGED <<probe, sample, laneVars, agentVars, broadcastVars, checkoutVars>>
       \/ /\ part = "checkout" /\ CheckoutNext
          /\ UNCHANGED <<probe, sample, laneVars, agentVars, broadcastVars, sessionVars>>

ClientsSpec == ClientsInit /\ [][ClientsNext]_clientVars

Symmetry == Permutations(Callers)

-----------------------------------------------------------------------------
\* Balances about the largest one, and of more digits than are kept.
MCBalances ==
    [decimals : 0 .. MaxDecimals,
     wei : {0, 1, 9, 10, 99, 100, 1000, 1230, 9999, 12340, 12345, 12355, 12356}
             \union {MAX_U256 + n : n \in {-1, 0, 1, 10, 9 * MAX_U256}}]

\* An address of mixed bytes.
MCAddresses ==
    {[i \in 1..AddressBytes |-> {b \in 0 .. 7 : ((i * 97 + 29) \div 2^b) % 2 = 1}]}

\* The wallet of an email, and wallets that come in an URL or a message, one
\* without the key of its kind.
MCDeriveKeypair == e1 :> a1

MCIncoming ==
    {[address |-> a2, connector |-> "synaptic", key |-> FALSE, email |-> Nobody],
     [address |-> a2, connector |-> "google", key |-> FALSE, email |-> e1]}

\* The native asset has one network, the other asset two.
MCNetworks == (SYN :> {main}) @@ (usdt :> {main, tron})

MCFirstNetwork == (SYN :> main) @@ (usdt :> tron)
=============================================================================
