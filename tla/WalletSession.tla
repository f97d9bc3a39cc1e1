----------------------------- MODULE WalletSession -----------------------------
(***************************************************************************)
(* The identity of a browser on the dashboard: the wallet each tab shows   *)
(* (components/wallet-provider.tsx), its copies in sessionStorage and      *)
(* localStorage, the cookie synapse_session, and the requests that set the *)
(* cookie on the way (app/api/auth), in several tabs of one browser.       *)
(*                                                                         *)
(* A tab's script runs from one await to the next.  Nobody waits for the   *)
(* requests of connect and disconnect, which may arrive in another order   *)
(* or not at all.  Case and blanks of an address, notices and the reads of *)
(* balances are left out, and so is a storage that refuses a write.        *)
(***************************************************************************)
EXTENDS Naturals

CONSTANTS
  Tabs,
  Sessions,      \* sign-ins that wait for a wallet or for Google
  Addresses,
  Emails,
  deriveKeypair, \* lib/chain/crypto: the address of an email
  Incoming,      \* wallets that a redirect or a popup may name
  Nobody,        \* no wallet, no address, no email
  MaxRequests    \* bound of the model: equal requests under way

Connectors == {"synaptic", "burner", "google"}

\* key: a session key is held with it.
Wallet == [address : Addresses, connector : Connectors, key : BOOLEAN, email : Emails \union {Nobody}]

ASSUME SessionAssumption ==
  /\ deriveKeypair \in [Emails -> Addresses]
  /\ Incoming \subseteq {w \in Wallet : ~w.key}
  /\ Nobody \notin Wallet \union Addresses \union Emails
  /\ MaxRequests \in Nat

VARIABLES
  open,       \* the tabs with a page
  listening,  \* the tabs that hear a popup
  wallet,     \* wallet[t]: what tab t shows, or Nobody
  session,    \* session[t]: sessionStorage of t
  local,      \* localStorage
  cookie,
  requests,   \* requests[a]: POSTs of address a under way; requests[Nobody]: DELETEs
  signins,
  last,       \* history: the address last adopted in any tab, Nobody after a disconnect
  inStep,     \* history: the cookie must follow last, see CookieFollows
  left        \* history: the tabs that were disconnected for good, see ReloadAgrees

sessionVars == <<open, listening, wallet, session, local, cookie, requests, signins, last, inStep, left>>

Effects == Addresses \union {Nobody}

Idle == [pc |-> "idle", tab |-> Nobody, address |-> Nobody, email |-> Nobody]

\* Waiting for a wallet; for /api/auth/google and the body of its answer; for the rest of connect.
Signin ==
  {Idle} \union
  [pc : {"asking"}, tab : Tabs, address : {Nobody}, email : {Nobody}] \union
  [pc : {"google", "answered"}, tab : Tabs, address : Addresses, email : Emails] \union
  [pc : {"loading"}, tab : Tabs, address : Addresses, email : Emails \union {Nobody}]

SessionTypeOK ==
  /\ open \subseteq Tabs /\ listening \subseteq Tabs /\ left \subseteq Tabs
  /\ wallet \in [Tabs -> Wallet \union {Nobody}]
  /\ session \in [Tabs -> Wallet \union {Nobody}]
  /\ local \in Wallet \union {Nobody}
  /\ cookie \in [value : Effects, httpOnly : BOOLEAN]
  /\ requests \in [Effects -> Nat]
  /\ signins \in [Sessions -> Signin]
  /\ last \in Effects
  /\ inStep \in BOOLEAN

NoCookie == [value |-> Nobody, httpOnly |-> FALSE]

SessionInit ==
  /\ open = {} /\ listening = {} /\ left = {}
  /\ wallet = [t \in Tabs |-> Nobody]
  /\ session = [t \in Tabs |-> Nobody]
  /\ local = Nobody
  /\ cookie = NoCookie
  /\ requests = [e \in Effects |-> 0]
  /\ signins = [s \in Sessions |-> Idle]
  /\ last = Nobody
  /\ inStep = TRUE

-------------------------------------------------------------------------------
(* Storage and cookie. *)

\* The fields connect writes: a Web4 wallet keeps its key to itself.
Stored(w) == IF w.connector = "synaptic" THEN [w EXCEPT !.key = FALSE] ELSE w

\* A key is read, derived from the email, or missing.
Rehydrate(w) ==
  CASE w.connector = "synaptic" -> [w EXCEPT !.key = FALSE]
    [] w.connector # "synaptic" /\ w.key -> w
    [] w.connector # "synaptic" /\ ~w.key /\ w.email # Nobody ->
         [w EXCEPT !.address = deriveKeypair[w.email], !.key = TRUE]
    [] OTHER -> Nobody

\* Mutant: localStorage is looked at first.
readLocalFirst(t) ==
  LET raw == IF local # Nobody THEN local ELSE session[t]
  IN  IF raw = Nobody THEN Nobody ELSE Rehydrate(raw)

readSessionWallet(t) ==
  LET raw == IF session[t] # Nobody THEN session[t] ELSE local
  IN  IF raw = Nobody THEN Nobody ELSE Rehydrate(raw)

\* document.cookie = ...: a script neither replaces nor removes an httpOnly cookie.
ScriptCookie(e) == IF cookie.httpOnly THEN cookie ELSE [value |-> e, httpOnly |-> FALSE]

\* fetch('/api/auth/session'): whose answer will set the cookie to e.
Request(e) ==
  /\ requests[e] < MaxRequests
  /\ requests' = [requests EXCEPT ![e] = @ + 1]

\* Nothing under way has another effect.
Unopposed(e) == \A x \in Effects \ {e} : requests[x] = 0

\* The wallet of tab t becomes w, here and in every copy.
Adopt(t, w) ==
  /\ wallet' = [wallet EXCEPT ![t] = w]
  /\ session' = [session EXCEPT ![t] = Stored(w)]
  /\ local' = Stored(w)
  /\ last' = w.address
  /\ left' = {}

\* The same, with the cookie and the request for it.
AdoptAndSync(t, w) ==
  /\ Adopt(t, w)
  /\ cookie' = ScriptCookie(w.address)
  /\ Request(w.address)
  /\ inStep' = Unopposed(w.address)

-------------------------------------------------------------------------------
(* A page begins and ends. *)

\* The sign-ins of tab t that were going on are gone with its page.
Drop(t) == signins' = [s \in Sessions |-> IF signins[s].tab = t THEN Idle ELSE signins[s]]

\* Opened, reloaded or navigated to: restore the wallet of the session.
Mount(t) ==
  /\ open' = open \union {t}
  /\ listening' = listening \union {t}
  /\ Drop(t)
  /\ wallet' = [wallet EXCEPT ![t] = readSessionWallet(t)]
  /\ UNCHANGED <<session, local, left>>
  /\ LET w == readSessionWallet(t)
     IN  \/ /\ w = Nobody
            /\ UNCHANGED <<cookie, requests, last, inStep>>
         \/ /\ w # Nobody
            /\ cookie' = ScriptCookie(w.address)
            /\ Request(w.address)
            /\ last' = w.address
            /\ inStep' = Unopposed(w.address)

\* Back from the Matrix Wallet, with an address in the URL; the effect returns
\* before it listens for a popup.
Redirected(t, w) ==
  /\ open' = open \union {t}
  /\ listening' = listening \ {t}
  /\ Drop(t)
  /\ AdoptAndSync(t, w)

CloseTab(t) ==
  /\ t \in open
  /\ open' = open \ {t}
  /\ listening' = listening \ {t}
  /\ Drop(t)
  /\ wallet' = [wallet EXCEPT ![t] = Nobody]
  /\ session' = [session EXCEPT ![t] = Nobody]
  /\ left' = left \ {t}
  /\ UNCHANGED <<local, cookie, requests, last, inStep>>

-------------------------------------------------------------------------------
(* Connecting and disconnecting. *)

\* The popup's answer sets the cookie by script only.
handleMessage(t, w) ==
  /\ t \in listening
  /\ Adopt(t, w)
  /\ cookie' = ScriptCookie(w.address)
  /\ inStep' = (Unopposed(w.address) /\ ~cookie.httpOnly)
  /\ UNCHANGED <<open, listening, requests, signins>>

makeBurner(a) == [address |-> a, connector |-> "burner", key |-> TRUE, email |-> Nobody]

\* connect('burner'): the wallet of sessionStorage as it stands, or a new one.
ConnectBurner(t) ==
  /\ t \in open
  /\ \/ session[t] # Nobody /\ AdoptAndSync(t, session[t])
     \/ session[t] = Nobody /\ \E a \in Addresses : AdoptAndSync(t, makeBurner(a))
  /\ UNCHANGED <<open, listening, signins>>

\* A sign-in waits for the injected wallet or for the paired one.
Ask(s, t) ==
  /\ t \in open
  /\ signins[s].pc = "idle"
  /\ signins' = [signins EXCEPT ![s] = [pc |-> "asking", tab |-> t, address |-> Nobody, email |-> Nobody]]
  /\ UNCHANGED <<open, listening, wallet, session, local, cookie, requests, last, inStep, left>>

Refused(s) ==
  /\ signins[s].pc = "asking"
  /\ signins' = [signins EXCEPT ![s] = Idle]
  /\ UNCHANGED <<open, listening, wallet, session, local, cookie, requests, last, inStep, left>>

\* Or for /api/auth/google, whose answer sets the cookie by itself.
AskGoogle(s, t, e) ==
  /\ t \in open
  /\ signins[s].pc = "idle"
  /\ Request(deriveKeypair[e])
  /\ inStep' = (inStep /\ deriveKeypair[e] = last)
  /\ signins' = [signins EXCEPT ![s] =
                   [pc |-> "google", tab |-> t, address |-> deriveKeypair[e], email |-> e]]
  /\ UNCHANGED <<open, listening, wallet, session, local, cookie, last, left>>

GoogleAnswers(s) ==
  /\ signins[s].pc = "google"
  /\ requests[signins[s].address] > 0
  /\ requests' = [requests EXCEPT ![signins[s].address] = @ - 1]
  /\ \/ /\ cookie' = [value |-> signins[s].address, httpOnly |-> TRUE]
        /\ signins' = [signins EXCEPT ![s].pc = "answered"]
        /\ UNCHANGED inStep
     \/ /\ signins' = [signins EXCEPT ![s] = Idle]   \* no valid token
        /\ inStep' = FALSE
        /\ UNCHANGED cookie
  /\ UNCHANGED <<open, listening, wallet, session, local, last, left>>

\* The answer goes on with whatever has become of the tab meanwhile.
Resume(s, w) ==
  /\ AdoptAndSync(signins[s].tab, w)
  /\ signins' = [signins EXCEPT ![s].pc = "loading", ![s].address = w.address]
  /\ UNCHANGED <<open, listening>>

handleWeb4(s, a) ==
  /\ signins[s].pc = "asking"
  /\ Resume(s, [address |-> a, connector |-> "synaptic", key |-> FALSE, email |-> Nobody])

handleGoogle(s) ==
  /\ signins[s].pc = "answered"
  /\ Resume(s, [address |-> deriveKeypair[signins[s].email], connector |-> "google",
                key |-> TRUE, email |-> signins[s].email])

\* The login panel asks for the cookie once more, of the address it signed in.
PostAgain(s) ==
  /\ signins[s].pc = "loading"
  /\ Request(signins[s].address)
  /\ inStep' = (inStep /\ signins[s].address = last)
  /\ signins' = [signins EXCEPT ![s] = Idle]
  /\ UNCHANGED <<open, listening, wallet, session, local, cookie, last, left>>

Forget(t) ==
  /\ wallet' = [wallet EXCEPT ![t] = Nobody]
  /\ session' = [session EXCEPT ![t] = Nobody]
  /\ local' = Nobody

\* A sign-in that is asking is not called off, and will adopt its wallet.
disconnect(t) ==
  /\ t \in open
  /\ Forget(t)
  /\ cookie' = ScriptCookie(Nobody)
  /\ Request(Nobody)
  /\ last' = Nobody
  /\ inStep' = Unopposed(Nobody)
  /\ left' = IF \E s \in Sessions : signins[s].tab = t /\ signins[s].pc # "loading"
             THEN left ELSE left \union {t}
  /\ UNCHANGED <<open, listening, signins>>

-------------------------------------------------------------------------------
(* The requests arrive, in any order, and their answers set the cookie. *)

\* Mutant: the answer to a DELETE leaves the cookie.
NothingDeleted(e) == IF e = Nobody THEN cookie ELSE [value |-> e, httpOnly |-> TRUE]

SetCookie(e) == IF e = Nobody THEN NoCookie ELSE [value |-> e, httpOnly |-> TRUE]

SessionAnswer(e) ==
  /\ requests[e] > 0
  /\ requests' = [requests EXCEPT ![e] = @ - 1]
  /\ cookie' = SetCookie(e)
  /\ UNCHANGED <<open, listening, wallet, session, local, signins, last, inStep, left>>

RequestFails(e) ==
  /\ requests[e] > 0
  /\ requests' = [requests EXCEPT ![e] = @ - 1]
  /\ inStep' = FALSE
  /\ UNCHANGED <<open, listening, wallet, session, local, cookie, signins, last, left>>

SessionNext ==
  \/ \E t \in Tabs :
       \/ Mount(t) \/ CloseTab(t) \/ ConnectBurner(t) \/ disconnect(t)
       \/ \E w \in Incoming : Redirected(t, w) \/ handleMessage(t, w)
       \/ \E s \in Sessions : Ask(s, t) \/ \E e \in Emails : AskGoogle(s, t, e)
  \/ \E s \in Sessions :
       \/ Refused(s) \/ GoogleAnswers(s) \/ handleGoogle(s) \/ PostAgain(s)
       \/ \E a \in Addresses : handleWeb4(s, a)
  \/ \E e \in Effects : SessionAnswer(e) \/ RequestFails(e)

SessionSpec == SessionInit /\ [][SessionNext]_sessionVars

-------------------------------------------------------------------------------
(***************************************************************************)
(* Once nothing is under way, the cookie names the wallet that was adopted *)
(* last in any tab, or nobody after a disconnect, and the middleware sends *)
(* exactly the signed-in browser away from /login.  What excuses it: a     *)
(* request that was lost or refused, or that overlapped one with another   *)
(* effect; a sign-in that goes on after a later change; and a popup's      *)
(* answer, which a script writes and an httpOnly cookie withstands.        *)
(***************************************************************************)
middleware(path) ==
  CASE path = "/console" -> "/skills"
    [] path = "/login" /\ cookie.value # Nobody -> "/skills"
    [] OTHER -> path

CookieFollows ==
  inStep /\ (\A e \in Effects : requests[e] = 0) =>
    /\ cookie.value = last
    /\ middleware("/login") = "/login" <=> last = Nobody

(***************************************************************************)
(* A reload agrees with what the tab showed, whatever other tabs do.       *)
(* Each path that adopts a wallet writes its own copy, and all must agree  *)
(* with the one place that reads it back.  Excused are a wallet that came  *)
(* without the key of its kind ("burner/google wallets require one", line  *)
(* 87), and a tab that never adopted one itself and follows the browser.   *)
(* And a disconnect lasts: the tab shows no wallet and a reload restores   *)
(* none until it or another tab adopts one.  Excused is a sign-in that was *)
(* asking at the time and adopts its wallet later.                         *)
(***************************************************************************)
Keyless(w) == w.connector # "synaptic" /\ ~w.key

ReloadKeepsWallet ==
  \A t \in Tabs :
    wallet[t] # Nobody /\ session[t] # Nobody =>
      Keyless(wallet[t]) \/ readSessionWallet(t) = Stored(wallet[t])

LoggedOutStays == \A t \in left : wallet[t] = Nobody /\ readSessionWallet(t) = Nobody

ReloadAgrees == ReloadKeepsWallet /\ LoggedOutStays
===============================================================================
