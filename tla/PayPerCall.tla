------------------------------ MODULE PayPerCall ------------------------------
(***************************************************************************)
(* What an x402 gateway promises, stated over payments and calls alone:    *)
(* a call that reaches the upstream service spends a payment, and a        *)
(* payment is spent by at most one call.  Nothing is said of how the       *)
(* gateway learns of payments, what it remembers or when it forgets it.    *)
(*                                                                         *)
(* HostedGateway implements this specification; Gateway does when its      *)
(* only witness of a payment is the chain poller (MCGatewayPoll).          *)
(***************************************************************************)

CONSTANTS
  Calls,       \* the requests that may reach the upstream service
  Payments,    \* the transactions that may pay for one
  Unspent      \* no payment: the value of spent[c] before c reaches the upstream

VARIABLES
  paid,        \* the payments made so far
  spent        \* spent[c]: the payment that let call c through, or Unspent

vars == <<paid, spent>>

Init ==
  /\ paid = {}
  /\ spent = [c \in Calls |-> Unspent]

Pay(p) ==
  /\ p \notin paid
  /\ paid' = paid \union {p}
  /\ UNCHANGED spent

Serve(c, p) ==
  /\ spent[c] = Unspent
  /\ p \in paid
  /\ \A d \in Calls : spent[d] # p
  /\ spent' = [spent EXCEPT ![c] = p]
  /\ UNCHANGED paid

Next ==
  \/ \E p \in Payments : Pay(p)
  \/ \E c \in Calls, p \in Payments : Serve(c, p)

Spec == Init /\ [][Next]_vars
===============================================================================
