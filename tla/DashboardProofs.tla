----------------------------- MODULE DashboardProofs -----------------------------
(***************************************************************************)
(* Proofs about the pages of the dashboard: the identity of a browser in   *)
(* its tabs (WalletSession) and the checkout page (Checkout).              *)
(***************************************************************************)
EXTENDS WalletSession, Checkout, TLAPS

-------------------------------------------------------------------------------
(***************************************************************************)
(* The identity of a browser.                                              *)
(***************************************************************************)

\* What is read back from storage is a wallet or nothing.
LEMMA RehydrateType ==
  ASSUME NEW w \in Wallet
  PROVE  Rehydrate(w) \in Wallet \union {Nobody} /\ Stored(w) \in Wallet
<1>1. Stored(w) \in Wallet
  BY DEF Stored, Wallet
<1>2. CASE w.connector = "synaptic"
  <2>1. Rehydrate(w) = [w EXCEPT !.key = FALSE]
    BY <1>2 DEF Rehydrate
  <2> QED BY <1>1, <2>1 DEF Wallet
<1>3. CASE w.connector # "synaptic" /\ w.key
  <2>1. Rehydrate(w) = w
    BY <1>3 DEF Rehydrate
  <2> QED BY <1>1, <2>1
<1>4. CASE w.connector # "synaptic" /\ ~w.key /\ w.email # Nobody
  <2>1. deriveKeypair[w.email] \in Addresses
    BY <1>4, SessionAssumption DEF Wallet
  <2>2. Rehydrate(w) = [w EXCEPT !.address = deriveKeypair[w.email], !.key = TRUE]
    BY <1>4 DEF Rehydrate
  <2> QED BY <1>1, <2>1, <2>2 DEF Wallet
<1>5. CASE w.connector # "synaptic" /\ ~w.key /\ w.email = Nobody
  BY <1>1, <1>5 DEF Rehydrate
<1> QED BY <1>1, <1>2, <1>3, <1>4, <1>5 DEF Wallet

\* A wallet with its key, or one that needs none, is read back as it was stored.
LEMMA RehydrateStored ==
  ASSUME NEW w \in Wallet, ~Keyless(w)
  PROVE  Rehydrate(Stored(w)) = Stored(w)
<1>1. CASE w.connector = "synaptic"
  BY <1>1 DEF Rehydrate, Stored, Wallet
<1>2. CASE w.connector # "synaptic"
  BY <1>2 DEF Rehydrate, Stored, Keyless, Wallet
<1> QED BY <1>1, <1>2

\* What has been read back once is read back the same again.
LEMMA RehydrateAgain ==
  ASSUME NEW w \in Wallet, Rehydrate(w) # Nobody
  PROVE  Stored(Rehydrate(w)) = Rehydrate(w)
<1>1. CASE w.connector = "synaptic"
  BY <1>1 DEF Rehydrate, Stored, Wallet
<1>2. CASE w.connector # "synaptic" /\ w.key
  BY <1>2 DEF Rehydrate, Stored
<1>3. CASE w.connector # "synaptic" /\ ~w.key /\ w.email # Nobody
  <2>1. Rehydrate(w) = [w EXCEPT !.address = deriveKeypair[w.email], !.key = TRUE]
    BY <1>3 DEF Rehydrate
  <2> QED BY <1>3, <2>1 DEF Stored, Wallet
<1>4. CASE w.connector # "synaptic" /\ ~w.key /\ w.email = Nobody
  BY <1>4 DEF Rehydrate
<1> QED BY <1>1, <1>2, <1>3, <1>4 DEF Wallet

\* The wallet a page restores has a type.
LEMMA ReadType ==
  ASSUME SessionTypeOK, NEW t \in Tabs
  PROVE  readSessionWallet(t) \in Wallet \union {Nobody}
  BY RehydrateType DEF SessionTypeOK, readSessionWallet

\* So have the cookie and the requests that go with an adoption.
LEMMA SyncTypes ==
  ASSUME SessionTypeOK, NEW x \in Effects
  PROVE  /\ ScriptCookie(x) \in [value : Effects, httpOnly : BOOLEAN]
         /\ Request(x) => requests' \in [Effects -> Nat]
         /\ Unopposed(x) \in BOOLEAN
  BY DEF SessionTypeOK, ScriptCookie, Request, Unopposed

LEMMA AdoptTypes ==
  ASSUME SessionTypeOK, NEW t \in Tabs, NEW w \in Wallet, Adopt(t, w)
  PROVE  /\ wallet' \in [Tabs -> Wallet \union {Nobody}]
         /\ session' \in [Tabs -> Wallet \union {Nobody}]
         /\ local' \in Wallet \union {Nobody}
         /\ last' \in Effects /\ w.address \in Effects
         /\ left' \subseteq Tabs
  BY RehydrateType DEF SessionTypeOK, Adopt, Wallet, Effects

LEMMA AdoptAndSyncTypes ==
  ASSUME SessionTypeOK, NEW t \in Tabs, NEW w \in Wallet, AdoptAndSync(t, w),
         open' \subseteq Tabs, listening' \subseteq Tabs, signins' \in [Sessions -> Signin]
  PROVE  SessionTypeOK'
<1>1. w.address \in Effects
  BY DEF Wallet, Effects
<1>2. /\ cookie' \in [value : Effects, httpOnly : BOOLEAN]
      /\ requests' \in [Effects -> Nat]
  BY <1>1, SyncTypes DEF AdoptAndSync
<1>3. inStep' \in BOOLEAN
  BY DEF AdoptAndSync, Unopposed
<1> QED BY <1>2, <1>3, AdoptTypes DEF AdoptAndSync, SessionTypeOK

LEMMA SessionTypeStep == SessionTypeOK /\ [SessionNext]_sessionVars => SessionTypeOK'
<1> SUFFICES ASSUME SessionTypeOK, [SessionNext]_sessionVars PROVE SessionTypeOK'
  OBVIOUS
<1>1. \A t : Drop(t) => signins' \in [Sessions -> Signin]
  BY DEF Drop, SessionTypeOK, Signin
<1>2. ASSUME NEW t \in Tabs, Mount(t) PROVE SessionTypeOK'
  <2>1. /\ open' \subseteq Tabs /\ listening' \subseteq Tabs /\ left' \subseteq Tabs
        /\ wallet' \in [Tabs -> Wallet \union {Nobody}]
        /\ session' \in [Tabs -> Wallet \union {Nobody}]
        /\ local' \in Wallet \union {Nobody}
        /\ signins' \in [Sessions -> Signin]
    BY <1>1, <1>2, ReadType DEF Mount, SessionTypeOK
  <2>2. CASE readSessionWallet(t) = Nobody
    BY <1>2, <2>1, <2>2 DEF Mount, SessionTypeOK
  <2>3. CASE readSessionWallet(t) # Nobody
    <3> DEFINE a == readSessionWallet(t).address
    <3>1. a \in Effects
      BY <2>3, ReadType DEF Wallet, Effects
    <3>2. cookie' = ScriptCookie(a) /\ Request(a) /\ last' = a /\ inStep' = Unopposed(a)
      BY <1>2, <2>3 DEF Mount
    <3>3. inStep' \in BOOLEAN
      BY <3>2 DEF Unopposed
    <3> HIDE DEF a
    <3> QED BY <2>1, <3>1, <3>2, <3>3, SyncTypes DEF SessionTypeOK
  <2> QED BY <2>2, <2>3
<1>3. ASSUME NEW t \in Tabs, NEW w \in Incoming, Redirected(t, w) PROVE SessionTypeOK'
  <2>1. w \in Wallet
    BY SessionAssumption
  <2>2. open' \subseteq Tabs /\ listening' \subseteq Tabs /\ signins' \in [Sessions -> Signin]
    BY <1>1, <1>3 DEF Redirected, SessionTypeOK
  <2> QED BY <1>3, <2>1, <2>2, AdoptAndSyncTypes DEF Redirected
<1>4. ASSUME NEW t \in Tabs, CloseTab(t) PROVE SessionTypeOK'
  BY <1>1, <1>4 DEF CloseTab, SessionTypeOK
<1>5. ASSUME NEW t \in Tabs, NEW w \in Incoming, handleMessage(t, w) PROVE SessionTypeOK'
  <2>1. w \in Wallet
    BY SessionAssumption
  <2>2. w.address \in Effects
    BY <2>1 DEF Wallet, Effects
  <2>3. inStep' \in BOOLEAN
    BY <1>5 DEF handleMessage, Unopposed
  <2> QED BY <1>5, <2>1, <2>2, <2>3, AdoptTypes, SyncTypes DEF handleMessage, SessionTypeOK
<1>6. ASSUME NEW t \in Tabs, ConnectBurner(t) PROVE SessionTypeOK'
  <2>1. PICK w \in Wallet : AdoptAndSync(t, w)
    <3>1. \A a \in Addresses : makeBurner(a) \in Wallet
      BY DEF makeBurner, Wallet, Connectors
    <3>2. session[t] # Nobody => session[t] \in Wallet
      BY DEF SessionTypeOK
    <3> QED BY <1>6, <3>1, <3>2 DEF ConnectBurner
  <2> QED BY <1>6, <2>1, AdoptAndSyncTypes DEF ConnectBurner, SessionTypeOK
<1>7. ASSUME NEW t \in Tabs, disconnect(t) PROVE SessionTypeOK'
  <2>1. Nobody \in Effects
    BY DEF Effects
  <2>2. inStep' \in BOOLEAN
    BY <1>7 DEF disconnect, Unopposed
  <2>3. left' \subseteq Tabs
    BY <1>7 DEF disconnect, SessionTypeOK
  <2> QED BY <1>7, <2>1, <2>2, <2>3, SyncTypes DEF disconnect, Forget, SessionTypeOK
<1>8. ASSUME NEW s \in Sessions, NEW t \in Tabs, Ask(s, t) PROVE SessionTypeOK'
  BY <1>8 DEF Ask, SessionTypeOK, Signin
<1>9. ASSUME NEW s \in Sessions, NEW t \in Tabs, NEW e \in Emails, AskGoogle(s, t, e) PROVE SessionTypeOK'
  <2>1. deriveKeypair[e] \in Addresses /\ deriveKeypair[e] \in Effects
    BY SessionAssumption DEF Effects
  <2>2. inStep' \in BOOLEAN
    BY <1>9 DEF AskGoogle
  <2>3. [pc |-> "google", tab |-> t, address |-> deriveKeypair[e], email |-> e] \in Signin
    BY <2>1 DEF Signin
  <2>4. signins' \in [Sessions -> Signin]
    BY <1>9, <2>3 DEF AskGoogle, SessionTypeOK
  <2> QED BY <1>9, <2>1, <2>2, <2>4, SyncTypes DEF AskGoogle, SessionTypeOK
<1>10. ASSUME NEW s \in Sessions, Refused(s) PROVE SessionTypeOK'
  BY <1>10 DEF Refused, SessionTypeOK, Signin
<1>11. ASSUME NEW s \in Sessions, GoogleAnswers(s) PROVE SessionTypeOK'
  <2>1. signins[s].pc = "google" /\ signins[s] \in Signin
    BY <1>11 DEF GoogleAnswers, SessionTypeOK
  <2>0. /\ signins[s].address \in Addresses
        /\ signins[s] \in [pc : {"google", "answered"}, tab : Tabs, address : Addresses, email : Emails]
    BY <2>1 DEF Signin, Idle
  <2>00. [signins[s] EXCEPT !.pc = "answered"]
           \in [pc : {"google", "answered"}, tab : Tabs, address : Addresses, email : Emails]
    BY <2>0
  <2>2. /\ signins[s].address \in Effects
        /\ [signins[s] EXCEPT !.pc = "answered"] \in Signin
        /\ Idle \in Signin
    BY <2>0, <2>00 DEF Signin, Effects
  <2>3. requests' \in [Effects -> Nat]
    BY <1>11, <2>2 DEF GoogleAnswers, SessionTypeOK
  <2>4. signins' \in [Sessions -> Signin]
    BY <1>11, <2>2 DEF GoogleAnswers, SessionTypeOK
  <2>5. cookie' \in [value : Effects, httpOnly : BOOLEAN]
    <3>1. cookie' = cookie \/ cookie' = [value |-> signins[s].address, httpOnly |-> TRUE]
      BY <1>11 DEF GoogleAnswers
    <3>2. [value |-> signins[s].address, httpOnly |-> TRUE] \in [value : Effects, httpOnly : BOOLEAN]
      BY <2>2
    <3> QED BY <3>1, <3>2 DEF SessionTypeOK
  <2>6. inStep' \in BOOLEAN
    BY <1>11 DEF GoogleAnswers, SessionTypeOK
  <2> QED BY <1>11, <2>3, <2>4, <2>5, <2>6 DEF GoogleAnswers, SessionTypeOK
<1>12. ASSUME NEW s \in Sessions, NEW w \in Wallet, signins[s].pc \in {"asking", "answered"}, Resume(s, w)
       PROVE  SessionTypeOK'
  <2>1. signins[s].tab \in Tabs
    BY <1>12 DEF SessionTypeOK, Signin, Idle
  <2>2. [signins[s] EXCEPT !.pc = "loading", !.address = w.address] \in Signin
    <3> DEFINE x == signins[s]
    <3>1. w.address \in Addresses
      BY DEF Wallet
    <3>2. \/ x \in [pc : {"asking"}, tab : Tabs, address : {Nobody}, email : {Nobody}]
          \/ x \in [pc : {"google", "answered"}, tab : Tabs, address : Addresses, email : Emails]
      BY <1>12 DEF SessionTypeOK, Signin, Idle
    <3> HIDE DEF x
    <3>3. [x EXCEPT !.pc = "loading", !.address = w.address]
            \in [pc : {"loading"}, tab : Tabs, address : Addresses, email : Emails \union {Nobody}]
      BY <3>1, <3>2
    <3> QED BY <3>3 DEF x, Signin
  <2>3. signins' \in [Sessions -> Signin]
    BY <1>12, <2>2 DEF Resume, SessionTypeOK
  <2> QED BY <1>12, <2>1, <2>3, AdoptAndSyncTypes DEF Resume, SessionTypeOK
<1>13. ASSUME NEW s \in Sessions, NEW a \in Addresses, handleWeb4(s, a) PROVE SessionTypeOK'
  <2>1. [address |-> a, connector |-> "synaptic", key |-> FALSE, email |-> Nobody] \in Wallet
    BY DEF Wallet, Connectors
  <2> QED BY <1>12, <1>13, <2>1 DEF handleWeb4
<1>14. ASSUME NEW s \in Sessions, handleGoogle(s) PROVE SessionTypeOK'
  <2>1. signins[s].email \in Emails
    BY <1>14 DEF handleGoogle, SessionTypeOK, Signin, Idle
  <2>2. [address |-> deriveKeypair[signins[s].email], connector |-> "google",
         key |-> TRUE, email |-> signins[s].email] \in Wallet
    BY <2>1, SessionAssumption DEF Wallet, Connectors
  <2> QED BY <1>12, <1>14, <2>2 DEF handleGoogle
<1>15. ASSUME NEW s \in Sessions, PostAgain(s) PROVE SessionTypeOK'
  <2>1. signins[s].address \in Effects
    BY DEF SessionTypeOK, Signin, Idle, Effects
  <2>2. inStep' \in BOOLEAN
    BY <1>15 DEF PostAgain
  <2>3. signins' \in [Sessions -> Signin]
    BY <1>15 DEF PostAgain, SessionTypeOK, Signin
  <2> QED BY <1>15, <2>1, <2>2, <2>3, SyncTypes DEF PostAgain, SessionTypeOK
<1>16. ASSUME NEW e \in Effects, SessionAnswer(e) \/ RequestFails(e) PROVE SessionTypeOK'
  <2>1. requests' \in [Effects -> Nat]
    BY <1>16 DEF SessionAnswer, RequestFails, SessionTypeOK
  <2>2. cookie' \in [value : Effects, httpOnly : BOOLEAN]
    <3>1. SetCookie(e) \in [value : Effects, httpOnly : BOOLEAN]
      BY DEF SetCookie, NoCookie, Effects
    <3> QED BY <1>16, <3>1 DEF SessionAnswer, RequestFails, SessionTypeOK
  <2> QED BY <1>16, <2>1, <2>2 DEF SessionAnswer, RequestFails, SessionTypeOK
<1>17. CASE UNCHANGED sessionVars
  BY <1>17 DEF sessionVars, SessionTypeOK
<1> QED
  BY <1>2, <1>3, <1>4, <1>5, <1>6, <1>7, <1>8, <1>9, <1>10, <1>11, <1>13, <1>14, <1>15, <1>16, <1>17
    DEF SessionNext

(***************************************************************************)
(* Every variable of the browser keeps its type.                           *)
(***************************************************************************)
THEOREM SessionTypes == SessionSpec => []SessionTypeOK
<1>1. SessionInit => SessionTypeOK
  BY DEF SessionInit, SessionTypeOK, NoCookie, Effects, Signin
<1> QED BY <1>1, SessionTypeStep, PTL DEF SessionSpec

\* A sign-in that goes on belongs to a tab, and adopts a wallet.
LEMMA ResumeAdopts ==
  ASSUME SessionTypeOK, NEW s \in Sessions,
         handleGoogle(s) \/ \E a \in Addresses : handleWeb4(s, a)
  PROVE  \E t \in Tabs, w \in Wallet : AdoptAndSync(t, w)
<1>1. CASE handleGoogle(s)
  <2>1. signins[s].tab \in Tabs /\ signins[s].email \in Emails
    BY <1>1 DEF handleGoogle, SessionTypeOK, Signin, Idle
  <2>2. [address |-> deriveKeypair[signins[s].email], connector |-> "google",
         key |-> TRUE, email |-> signins[s].email] \in Wallet
    BY <2>1, SessionAssumption DEF Wallet, Connectors
  <2> QED BY <1>1, <2>1, <2>2 DEF handleGoogle, Resume
<1>2. ASSUME NEW a \in Addresses, handleWeb4(s, a) PROVE \E t \in Tabs, w \in Wallet : AdoptAndSync(t, w)
  <2>1. signins[s].tab \in Tabs
    BY <1>2 DEF handleWeb4, SessionTypeOK, Signin, Idle
  <2>2. [address |-> a, connector |-> "synaptic", key |-> FALSE, email |-> Nobody] \in Wallet
    BY DEF Wallet, Connectors
  <2> QED BY <1>2, <2>1, <2>2 DEF handleWeb4, Resume
<1> QED BY <1>1, <1>2

\* The ways in which a step touches the wallets, their copies and the cookie.
LEMMA SessionSteps ==
  ASSUME SessionTypeOK, [SessionNext]_sessionVars
  PROVE  \/ \E t \in Tabs, w \in Wallet :
              \/ AdoptAndSync(t, w)
              \/ /\ Adopt(t, w)
                 /\ cookie' = ScriptCookie(w.address)
                 /\ inStep' = (Unopposed(w.address) /\ ~cookie.httpOnly)
                 /\ UNCHANGED requests
         \/ \E t \in Tabs : Mount(t) \/ CloseTab(t) \/ disconnect(t)
         \/ /\ UNCHANGED <<wallet, session, local, left, last>>
            /\ \/ \E s \in Sessions : GoogleAnswers(s) \/ PostAgain(s)
               \/ \E s \in Sessions, t \in Tabs, e \in Emails : AskGoogle(s, t, e)
               \/ \E e \in Effects : SessionAnswer(e) \/ RequestFails(e)
               \/ UNCHANGED <<cookie, requests, inStep>>
<1>1. ASSUME NEW t \in Tabs, NEW w \in Incoming, Redirected(t, w)
      PROVE  \E u \in Tabs, v \in Wallet : AdoptAndSync(u, v)
  BY <1>1, SessionAssumption DEF Redirected
<1>2. ASSUME NEW t \in Tabs, NEW w \in Incoming, handleMessage(t, w)
      PROVE  \E u \in Tabs, v \in Wallet :
               /\ Adopt(u, v)
               /\ cookie' = ScriptCookie(v.address)
               /\ inStep' = (Unopposed(v.address) /\ ~cookie.httpOnly)
               /\ UNCHANGED requests
  BY <1>2, SessionAssumption DEF handleMessage
<1>3. ASSUME NEW t \in Tabs, ConnectBurner(t)
      PROVE  \E u \in Tabs, v \in Wallet : AdoptAndSync(u, v)
  <2>1. \A a \in Addresses : makeBurner(a) \in Wallet
    BY DEF makeBurner, Wallet, Connectors
  <2>2. session[t] # Nobody => session[t] \in Wallet
    BY DEF SessionTypeOK
  <2> QED BY <1>3, <2>1, <2>2 DEF ConnectBurner
<1>4. ASSUME NEW t \in Tabs, NEW s \in Sessions, Ask(s, t)
      PROVE  UNCHANGED <<wallet, session, local, left, last, cookie, requests, inStep>>
  BY <1>4 DEF Ask
<1>5. ASSUME NEW s \in Sessions, Refused(s)
      PROVE  UNCHANGED <<wallet, session, local, left, last, cookie, requests, inStep>>
  BY <1>5 DEF Refused
<1>6. ASSUME NEW s \in Sessions, GoogleAnswers(s) \/ PostAgain(s)
      PROVE  UNCHANGED <<wallet, session, local, left, last>>
  BY <1>6 DEF GoogleAnswers, PostAgain
<1>7. ASSUME NEW s \in Sessions, NEW t \in Tabs, NEW e \in Emails, AskGoogle(s, t, e)
      PROVE  UNCHANGED <<wallet, session, local, left, last>>
  BY <1>7 DEF AskGoogle
<1>8. ASSUME NEW e \in Effects, SessionAnswer(e) \/ RequestFails(e)
      PROVE  UNCHANGED <<wallet, session, local, left, last>>
  BY <1>8 DEF SessionAnswer, RequestFails
<1>9. CASE UNCHANGED sessionVars
  BY <1>9 DEF sessionVars
<1> QED
  BY <1>1, <1>2, <1>3, <1>4, <1>5, <1>6, <1>7, <1>8, <1>9, ResumeAdopts DEF SessionNext

-------------------------------------------------------------------------------
(* The cookie follows the last change. *)

\* While every request under way is the last change's, either one is or the cookie is set.
CookieInv == inStep => Unopposed(last) /\ (requests[last] = 0 => cookie.value = last)

LEMMA CookieStep ==
  SessionTypeOK /\ CookieInv /\ [SessionNext]_sessionVars => CookieInv'
<1> SUFFICES ASSUME SessionTypeOK, CookieInv, [SessionNext]_sessionVars, inStep'
             PROVE  /\ \A x \in Effects \ {last'} : requests'[x] = 0
                    /\ requests'[last'] = 0 => cookie'.value = last'
  BY DEF CookieInv, Unopposed
<1>0. /\ requests \in [Effects -> Nat] /\ last \in Effects /\ Nobody \in Effects
      /\ \A w \in Wallet : w.address \in Effects
  BY DEF SessionTypeOK, Effects, Wallet
\* A change that asks for the cookie itself.
<1>1. ASSUME NEW e \in Effects, Request(e), last' = e, Unopposed(e)
      PROVE  /\ \A x \in Effects \ {last'} : requests'[x] = 0
             /\ requests'[last'] # 0
  BY <1>0, <1>1 DEF Request, Unopposed
\* One request more with the effect of the last change.
<1>2. ASSUME NEW e \in Effects, Request(e), last' = last, inStep, e = last
      PROVE  /\ \A x \in Effects \ {last'} : requests'[x] = 0
             /\ requests'[last'] # 0
  BY <1>0, <1>2 DEF Request, Unopposed, CookieInv
\* One request is answered.
<1>3. ASSUME NEW e \in Effects, requests[e] > 0, requests' = [requests EXCEPT ![e] = @ - 1],
             last' = last, inStep, cookie'.value = e
      PROVE  /\ \A x \in Effects \ {last'} : requests'[x] = 0
             /\ requests'[last'] = 0 => cookie'.value = last'
  <2>1. e = last
    BY <1>0, <1>3 DEF Unopposed, CookieInv
  <2> QED BY <1>0, <1>3, <2>1 DEF Unopposed, CookieInv
\* Nobody of them.
<1>4. ASSUME UNCHANGED <<requests, cookie, last, inStep>>
      PROVE  /\ \A x \in Effects \ {last'} : requests'[x] = 0
             /\ requests'[last'] = 0 => cookie'.value = last'
  BY <1>4 DEF Unopposed, CookieInv
<1>5. ASSUME NEW t \in Tabs, NEW w \in Wallet, AdoptAndSync(t, w)
      PROVE  /\ \A x \in Effects \ {last'} : requests'[x] = 0
             /\ requests'[last'] = 0 => cookie'.value = last'
  BY <1>0, <1>1, <1>5 DEF AdoptAndSync, Adopt
<1>6. ASSUME NEW w \in Wallet, cookie' = ScriptCookie(w.address), last' = w.address,
             inStep' = (Unopposed(w.address) /\ ~cookie.httpOnly), UNCHANGED requests
      PROVE  /\ \A x \in Effects \ {last'} : requests'[x] = 0
             /\ requests'[last'] = 0 => cookie'.value = last'
  BY <1>6 DEF ScriptCookie, Unopposed
<1>7. ASSUME NEW t \in Tabs, Mount(t)
      PROVE  /\ \A x \in Effects \ {last'} : requests'[x] = 0
             /\ requests'[last'] = 0 => cookie'.value = last'
  <2>1. CASE readSessionWallet(t) = Nobody
    BY <1>4, <1>7, <2>1 DEF Mount
  <2>2. CASE readSessionWallet(t) # Nobody
    <3>1. readSessionWallet(t).address \in Effects
      BY <1>0, <2>2, ReadType
    <3>2. /\ Request(readSessionWallet(t).address) /\ last' = readSessionWallet(t).address
          /\ Unopposed(readSessionWallet(t).address)
      BY <1>7, <2>2 DEF Mount
    <3> QED BY <1>1, <3>1, <3>2
  <2> QED BY <2>1, <2>2
<1>8. ASSUME NEW t \in Tabs, CloseTab(t) \/ disconnect(t)
      PROVE  /\ \A x \in Effects \ {last'} : requests'[x] = 0
             /\ requests'[last'] = 0 => cookie'.value = last'
  BY <1>0, <1>1, <1>4, <1>8 DEF CloseTab, disconnect
<1>9. ASSUME NEW s \in Sessions, GoogleAnswers(s)
      PROVE  /\ \A x \in Effects \ {last'} : requests'[x] = 0
             /\ requests'[last'] = 0 => cookie'.value = last'
  <2>1. signins[s].address \in Effects
    BY <1>9 DEF GoogleAnswers, SessionTypeOK, Signin, Idle, Effects
  <2>2. cookie' = [value |-> signins[s].address, httpOnly |-> TRUE] /\ inStep
    BY <1>9 DEF GoogleAnswers
  <2> QED BY <1>3, <1>9, <2>1, <2>2 DEF GoogleAnswers
<1>10. ASSUME NEW s \in Sessions, NEW t \in Tabs, NEW e \in Emails, AskGoogle(s, t, e)
       PROVE  /\ \A x \in Effects \ {last'} : requests'[x] = 0
              /\ requests'[last'] = 0 => cookie'.value = last'
  BY <1>0, <1>2, <1>10, SessionAssumption DEF AskGoogle
<1>11. ASSUME NEW s \in Sessions, PostAgain(s)
       PROVE  /\ \A x \in Effects \ {last'} : requests'[x] = 0
              /\ requests'[last'] = 0 => cookie'.value = last'
  BY <1>0, <1>2, <1>11 DEF PostAgain
<1>12. ASSUME NEW e \in Effects, SessionAnswer(e) \/ RequestFails(e)
       PROVE  /\ \A x \in Effects \ {last'} : requests'[x] = 0
              /\ requests'[last'] = 0 => cookie'.value = last'
  <2>1. SetCookie(e).value = e
    BY DEF SetCookie, NoCookie
  <2> QED BY <1>3, <1>12, <2>1 DEF SessionAnswer, RequestFails
<1> QED
  BY <1>4, <1>5, <1>6, <1>7, <1>8, <1>9, <1>10, <1>11, <1>12, SessionSteps DEF Adopt

(***************************************************************************)
(* Once nothing is under way, the cookie names the wallet adopted last in  *)
(* any tab, and the middleware keeps a signed-in browser away from /login: *)
(* for any number of tabs, sign-ins and requests that overtake each other. *)
(***************************************************************************)
THEOREM CookieFollowsAlways == SessionSpec => []CookieFollows
<1>1. SessionInit => CookieInv
  BY DEF SessionInit, CookieInv, Unopposed, NoCookie, Effects
<1>2. SessionInit => SessionTypeOK
  BY DEF SessionInit, SessionTypeOK, NoCookie, Effects, Signin
<1>3. SessionTypeOK /\ CookieInv => CookieFollows
  BY DEF SessionTypeOK, CookieInv, CookieFollows, middleware
<1> QED BY <1>1, <1>2, <1>3, SessionTypeStep, CookieStep, PTL DEF SessionSpec

-------------------------------------------------------------------------------
(* A disconnect lasts. *)

\* A tab that was left has no wallet, and neither copy is there to restore one from.
LeftInv == \A t \in left : wallet[t] = Nobody /\ session[t] = Nobody /\ local = Nobody

LEMMA LeftStep == SessionTypeOK /\ LeftInv /\ [SessionNext]_sessionVars => LeftInv'
<1> SUFFICES ASSUME SessionTypeOK, LeftInv, [SessionNext]_sessionVars PROVE LeftInv'
  OBVIOUS
<1>0. left \subseteq Tabs /\ wallet \in [Tabs -> Wallet \union {Nobody}] /\ session \in [Tabs -> Wallet \union {Nobody}]
  BY DEF SessionTypeOK
<1>1. ASSUME NEW t \in Tabs, NEW w \in Wallet, Adopt(t, w) PROVE LeftInv'
  BY <1>1 DEF Adopt, LeftInv
<1>2. ASSUME NEW t \in Tabs, Mount(t) PROVE LeftInv'
  <2>1. t \in left => readSessionWallet(t) = Nobody
    BY DEF LeftInv, readSessionWallet
  <2> QED BY <1>0, <1>2, <2>1 DEF Mount, LeftInv
<1>3. ASSUME NEW t \in Tabs, CloseTab(t) PROVE LeftInv'
  BY <1>0, <1>3 DEF CloseTab, LeftInv
<1>4. ASSUME NEW t \in Tabs, disconnect(t) PROVE LeftInv'
  <2>1. left' \subseteq left \union {t}
    BY <1>4 DEF disconnect
  <2> QED BY <1>0, <1>4, <2>1 DEF disconnect, Forget, LeftInv
<1>5. CASE UNCHANGED <<wallet, session, local, left, last>>
  BY <1>5 DEF LeftInv
<1> QED BY <1>1, <1>2, <1>3, <1>4, <1>5, SessionSteps DEF AdoptAndSync

-------------------------------------------------------------------------------
(* A reload shows the same wallet. *)

LEMMA ReloadStep ==
  SessionTypeOK /\ ReloadKeepsWallet /\ [SessionNext]_sessionVars => ReloadKeepsWallet'
<1> SUFFICES ASSUME SessionTypeOK, ReloadKeepsWallet, [SessionNext]_sessionVars,
                    NEW u \in Tabs, wallet'[u] # Nobody, session'[u] # Nobody
             PROVE  Keyless(wallet'[u]) \/ Rehydrate(session'[u]) = Stored(wallet'[u])
  BY DEF ReloadKeepsWallet, readSessionWallet
<1>0. wallet \in [Tabs -> Wallet \union {Nobody}] /\ session \in [Tabs -> Wallet \union {Nobody}]
  BY DEF SessionTypeOK
\* What the tab had before.
<1>1. CASE wallet'[u] = wallet[u] /\ session'[u] = session[u]
  BY <1>1 DEF ReloadKeepsWallet, readSessionWallet
<1>2. ASSUME NEW t \in Tabs, NEW w \in Wallet, Adopt(t, w)
      PROVE  Keyless(wallet'[u]) \/ Rehydrate(session'[u]) = Stored(wallet'[u])
  <2>1. CASE u = t
    <3>1. wallet'[u] = w /\ session'[u] = Stored(w)
      BY <1>0, <1>2, <2>1 DEF Adopt
    <3> QED BY <3>1, RehydrateStored
  <2>2. CASE u # t
    BY <1>0, <1>1, <1>2, <2>2 DEF Adopt
  <2> QED BY <2>1, <2>2
<1>3. ASSUME NEW t \in Tabs, Mount(t)
      PROVE  Keyless(wallet'[u]) \/ Rehydrate(session'[u]) = Stored(wallet'[u])
  <2>1. CASE u = t
    <3>1. session'[u] = session[u] /\ session[u] \in Wallet
      BY <1>0, <1>3 DEF Mount
    <3>2. wallet'[u] = Rehydrate(session[u])
      BY <1>0, <1>3, <2>1, <3>1 DEF Mount, readSessionWallet
    <3> QED BY <3>1, <3>2, RehydrateAgain
  <2>2. CASE u # t
    BY <1>0, <1>1, <1>3, <2>2 DEF Mount
  <2> QED BY <2>1, <2>2
<1>4. ASSUME NEW t \in Tabs, CloseTab(t) \/ disconnect(t)
      PROVE  Keyless(wallet'[u]) \/ Rehydrate(session'[u]) = Stored(wallet'[u])
  BY <1>0, <1>1, <1>4 DEF CloseTab, disconnect, Forget
<1>5. CASE UNCHANGED <<wallet, session, local, left, last>>
  BY <1>1, <1>5
<1> QED BY <1>2, <1>3, <1>4, <1>5, SessionSteps DEF AdoptAndSync

(***************************************************************************)
(* What a tab restores after a reload is the wallet it showed, however it  *)
(* came by it, and nothing after a disconnect, whatever other tabs write   *)
(* to localStorage and whatever arrives late.                              *)
(***************************************************************************)
THEOREM ReloadAgreesAlways == SessionSpec => []ReloadAgrees
<1>1. SessionInit => ReloadKeepsWallet /\ LeftInv /\ SessionTypeOK
  BY DEF SessionInit, ReloadKeepsWallet, LeftInv, SessionTypeOK, NoCookie, Effects, Signin
<1>2. ReloadKeepsWallet /\ LeftInv => ReloadAgrees
  BY DEF LeftInv, LoggedOutStays, ReloadAgrees, readSessionWallet
<1> QED BY <1>1, <1>2, SessionTypeStep, ReloadStep, LeftStep, PTL DEF SessionSpec

-------------------------------------------------------------------------------
(***************************************************************************)
(* The checkout page.                                                      *)
(***************************************************************************)

\* A change of the order keeps the types of what it writes.
LEMMA ReorderTypes ==
  ASSUME CheckoutTypeOK, NEW o \in Order, Reorder(o)
  PROVE  order' \in Order /\ runs' \in [Ids -> Run] /\ reordered' \in BOOLEAN
<1>1. Inactive \in [Ids -> Run]
  BY DEF Inactive, CheckoutTypeOK, Run
<1>2. [pc |-> "asking", active |-> TRUE, order |-> o] \in Run
  BY DEF Run
<1> QED BY <1>1, <1>2 DEF Reorder, CheckoutTypeOK

\* So does a lookup.
LEMMA LookupTypes ==
  ASSUME CheckoutTypeOK, NEW x \in Assets, NEW n \in Networks, fetchDepositAddr(x, n)
  PROVE  lookups' \in SUBSET Lookup /\ missed' \in BOOLEAN
<1>1. \A l \in lookups : [l EXCEPT !.mounted = FALSE] \in Lookup
  BY DEF CheckoutTypeOK, Lookup
<1>2. [asset |-> x, network |-> n, mounted |-> TRUE] \in Lookup
  BY DEF Lookup
<1> QED BY <1>1, <1>2 DEF fetchDepositAddr

LEMMA CheckoutTypeInit == CheckoutInit => CheckoutTypeOK
<1> SUFFICES ASSUME CheckoutInit PROVE CheckoutTypeOK
  OBVIOUS
<1>1. order \in Order /\ order.asset \in Assets /\ network \in Networks
  BY CheckoutAssumption DEF CheckoutInit, Order
<1>2. PICK i \in Ids :
        \/ /\ paymentId = i /\ reordered = TRUE
           /\ runs = [j \in Ids |-> IF j = i THEN [NoRun EXCEPT !.pc = "over"] ELSE NoRun]
           /\ \E o \in Order, st \in {"pending", "finished"} :
                records = [j \in Ids |-> IF j = i THEN [status |-> st, order |-> o]
                                                  ELSE [status |-> "none", order |-> Null]]
        \/ /\ paymentId = Null /\ reordered = FALSE
           /\ runs = [j \in Ids |->
                        IF j = i THEN [pc |-> "asking", active |-> TRUE, order |-> order] ELSE NoRun]
           /\ records = [j \in Ids |-> [status |-> "none", order |-> Null]]
  BY DEF CheckoutInit
<1>3. paymentId \in Ids \union {Null} /\ reordered \in BOOLEAN
  BY <1>2
<1>4. runs \in [Ids -> Run]
  <2>1. /\ NoRun \in Run /\ [NoRun EXCEPT !.pc = "over"] \in Run
        /\ [pc |-> "asking", active |-> TRUE, order |-> order] \in Run
    BY <1>1 DEF NoRun, Run
  <2> QED BY <1>2, <2>1
<1>5. records \in [Ids -> Invoice]
  BY <1>2 DEF Invoice
<1>6. lookups \in SUBSET Lookup
  BY <1>1 DEF CheckoutInit, Lookup
<1>7. payment \in Payment
  BY DEF CheckoutInit, NoPayment, Payment
<1> QED BY <1>1, <1>3, <1>4, <1>5, <1>6, <1>7 DEF CheckoutInit, CheckoutTypeOK

LEMMA CheckoutTypeStep == CheckoutTypeOK /\ [CheckoutNext]_checkoutVars => CheckoutTypeOK'
<1> SUFFICES ASSUME CheckoutTypeOK, [CheckoutNext]_checkoutVars PROVE CheckoutTypeOK'
  OBVIOUS
<1>0. order.asset \in Assets
  BY DEF CheckoutTypeOK, Order
<1>1. ASSUME NEW m \in Amounts, setAmountUsd(m) PROVE CheckoutTypeOK'
  <2>1. [order EXCEPT !.amount = m] \in Order
    BY DEF CheckoutTypeOK, Order
  <2>2. Reorder([order EXCEPT !.amount = m])
    BY <1>1 DEF setAmountUsd
  <2>3. order' \in Order /\ runs' \in [Ids -> Run] /\ reordered' \in BOOLEAN
    BY <2>1, <2>2, ReorderTypes
  <2> QED BY <1>1, <2>2, <2>3 DEF setAmountUsd, Reorder, CheckoutTypeOK
<1>2. ASSUME NEW x \in Assets, setSelectedAsset(x) PROVE CheckoutTypeOK'
  <2>1. [order EXCEPT !.asset = x] \in Order
    BY DEF CheckoutTypeOK, Order
  <2>2. Reorder([order EXCEPT !.asset = x])
    BY <1>2 DEF setSelectedAsset
  <2>3. order' \in Order /\ runs' \in [Ids -> Run] /\ reordered' \in BOOLEAN
    BY <2>1, <2>2, ReorderTypes
  <2>4. network' \in Networks
    BY <1>2, CheckoutAssumption DEF setSelectedAsset
  <2>5. lookups' \in SUBSET Lookup /\ missed' \in BOOLEAN
    BY <1>2, <2>4, LookupTypes DEF setSelectedAsset
  <2> QED BY <1>2, <2>2, <2>3, <2>4, <2>5 DEF setSelectedAsset, Reorder, CheckoutTypeOK
<1>3. ASSUME NEW n \in Networks, setSelectedNetwork(n) PROVE CheckoutTypeOK'
  <2>1. lookups' \in SUBSET Lookup /\ missed' \in BOOLEAN
    BY <1>0, <1>3, LookupTypes DEF setSelectedNetwork
  <2> QED BY <1>3, <2>1 DEF setSelectedNetwork, CheckoutTypeOK
<1>4. ASSUME NEW i \in Ids, TopupCreated(i) PROVE CheckoutTypeOK'
  <2>1. [status |-> "pending", order |-> runs[i].order] \in Invoice
    BY DEF CheckoutTypeOK, Run, Invoice
  <2> QED BY <1>4, <2>1 DEF TopupCreated, CheckoutTypeOK
<1>5. ASSUME NEW i \in Ids, InvoiceAnswered(i) PROVE CheckoutTypeOK'
  <2>1. Inactive \in [Ids -> Run]
    BY DEF Inactive, CheckoutTypeOK, Run
  <2>2. runs \in [Ids -> Run]
    BY DEF CheckoutTypeOK
  <2>3. \A r \in Run : [r EXCEPT !.pc = "over"] \in Run
    BY DEF Run
  <2>4. ASSUME Current(i) PROVE runs' \in [Ids -> Run]
    <3>1. runs' = [Inactive EXCEPT ![i] = [Inactive[i] EXCEPT !.pc = "over"]]
      BY <1>5, <2>4 DEF InvoiceAnswered
    <3>2. [Inactive[i] EXCEPT !.pc = "over"] \in Run
      BY <2>1, <2>3
    <3> QED BY <2>1, <3>1, <3>2
  <2>5. ASSUME ~Current(i) PROVE runs' \in [Ids -> Run]
    <3>1. runs' = [runs EXCEPT ![i] = [runs[i] EXCEPT !.pc = "over"]]
      BY <1>5, <2>5 DEF InvoiceAnswered
    <3>2. [runs[i] EXCEPT !.pc = "over"] \in Run
      BY <2>2, <2>3
    <3> QED BY <2>2, <3>1, <3>2
  <2>6. runs' \in [Ids -> Run]
    BY <2>4, <2>5
  <2>7. paymentId' \in Ids \union {Null} /\ reordered' \in BOOLEAN
    BY <1>5 DEF InvoiceAnswered, CheckoutTypeOK
  <2> QED BY <1>5, <2>6, <2>7 DEF InvoiceAnswered, CheckoutTypeOK
<1>6. ASSUME NEW i \in Ids, InvoiceFails(i) PROVE CheckoutTypeOK'
  BY <1>6 DEF InvoiceFails, CheckoutTypeOK, Run
<1>7. ASSUME NEW i \in Ids, FinishedElsewhere(i) PROVE CheckoutTypeOK'
  BY <1>7 DEF FinishedElsewhere, CheckoutTypeOK, Invoice
<1>8. ASSUME NEW l \in lookups, DepositAnswered(l) PROVE CheckoutTypeOK'
  <2>1. l.asset \in Assets
    BY DEF CheckoutTypeOK, Lookup
  <2>2. deposit' \in (Assets \X Networks) \union {Null}
    BY <1>8, <2>1 DEF DepositAnswered, CheckoutTypeOK
  <2> QED BY <1>8, <2>2 DEF DepositAnswered, CheckoutTypeOK
<1>9. ASSUME NEW l \in lookups, DepositMissing(l) PROVE CheckoutTypeOK'
  <2>1. missed' \in BOOLEAN
    BY <1>9 DEF DepositMissing, CheckoutTypeOK
  <2> QED BY <1>9, <2>1 DEF DepositMissing, CheckoutTypeOK
<1>10. ASSUME StreamTells \/ NewDeposit PROVE CheckoutTypeOK'
  BY <1>10 DEF StreamTells, NewDeposit, CheckoutTypeOK
<1>11. ASSUME processWeb4Payment PROVE CheckoutTypeOK'
  <2>1. [pc |-> "wallet", id |-> paymentId, order |-> order] \in Payment
    BY DEF CheckoutTypeOK, Payment
  <2> QED BY <1>11, <2>1 DEF processWeb4Payment, CheckoutTypeOK
<1>12. ASSUME NEW st \in {"success", "error"}, End(st) PROVE CheckoutTypeOK'
  <2>1. NoPayment \in Payment
    BY DEF NoPayment, Payment
  <2> QED BY <1>12, <2>1 DEF End, CheckoutTypeOK
<1>13. ASSUME WalletPays PROVE CheckoutTypeOK'
  BY <1>13 DEF WalletPays, CheckoutTypeOK, Payment
<1>14. ASSUME ConfirmHandled PROVE CheckoutTypeOK'
  <2>1. payment' \in Payment
    BY <1>14 DEF ConfirmHandled, CheckoutTypeOK, Payment
  <2>2. records' \in [Ids -> Invoice]
    <3>1. \A j \in Ids : [records[j] EXCEPT !.status = "finished"] \in Invoice
      BY DEF CheckoutTypeOK, Invoice
    <3> QED BY <1>14, <3>1 DEF ConfirmHandled, CheckoutTypeOK
  <2> QED BY <1>14, <2>1, <2>2 DEF ConfirmHandled, CheckoutTypeOK
<1>15. CASE UNCHANGED checkoutVars
  BY <1>15 DEF checkoutVars, CheckoutTypeOK
<1> QED
  BY <1>1, <1>2, <1>3, <1>4, <1>5, <1>6, <1>7, <1>8, <1>9, <1>10, <1>11, <1>12, <1>13, <1>14, <1>15
    DEF CheckoutNext, WalletRejects, ConfirmAnswered, ConfirmFails

(***************************************************************************)
(* Every variable of the checkout page keeps its type.                     *)
(***************************************************************************)
THEOREM CheckoutTypes == CheckoutSpec => []CheckoutTypeOK
  BY CheckoutTypeInit, CheckoutTypeStep, PTL DEF CheckoutSpec

-------------------------------------------------------------------------------
(* The deposit address belongs to the selected asset. *)

\* The lookup that is mounted is of the selected asset.
DepositInv ==
  /\ \A l \in lookups : l.mounted => l.asset = order.asset
  /\ DepositIsOfAsset

LEMMA DepositStep == CheckoutTypeOK /\ DepositInv /\ [CheckoutNext]_checkoutVars => DepositInv'
<1> SUFFICES ASSUME CheckoutTypeOK, DepositInv, [CheckoutNext]_checkoutVars PROVE DepositInv'
  OBVIOUS
\* A new lookup replaces the others.
<1>1. ASSUME NEW x \in Assets, NEW n \in Networks, fetchDepositAddr(x, n), order'.asset = x
      PROVE  DepositInv'
  <2>1. \A l \in lookups' : l.mounted => l.asset = x
    BY <1>1 DEF fetchDepositAddr, CheckoutTypeOK, Lookup
  <2>2. \E l \in lookups' : l.mounted
    <3>1. [asset |-> x, network |-> n, mounted |-> TRUE] \in lookups'
      BY <1>1 DEF fetchDepositAddr
    <3>2. [asset |-> x, network |-> n, mounted |-> TRUE].mounted
      OBVIOUS
    <3> QED BY <3>1, <3>2
  <2> QED BY <1>1, <2>1, <2>2 DEF DepositInv, DepositIsOfAsset
<1>2. ASSUME NEW x \in Assets, setSelectedAsset(x) PROVE DepositInv'
  <2>1. order'.asset = x
    BY <1>2 DEF setSelectedAsset, Reorder, CheckoutTypeOK, Order
  <2>2. network' \in Networks
    BY <1>2, CheckoutAssumption DEF setSelectedAsset
  <2> QED BY <1>1, <1>2, <2>1, <2>2 DEF setSelectedAsset
<1>3. ASSUME NEW n \in Networks, setSelectedNetwork(n) PROVE DepositInv'
  BY <1>1, <1>3 DEF setSelectedNetwork, CheckoutTypeOK, Order
<1>4. ASSUME NEW l \in lookups, DepositAnswered(l) PROVE DepositInv'
  <2>1. CASE l.mounted
    <3>1. PICK n \in Networks : deposit' = <<l.asset, n>>
      BY <1>4, <2>1 DEF DepositAnswered, Mounted
    <3>2. l.asset \in Assets
      BY DEF CheckoutTypeOK, Lookup
    <3>3. deposit' # Null /\ deposit'[1] = l.asset
      BY <3>1, <3>2, CheckoutAssumption
    <3> QED BY <1>4, <2>1, <3>3 DEF DepositAnswered, DepositInv, DepositIsOfAsset
  <2>2. CASE ~l.mounted
    BY <1>4, <2>2 DEF DepositAnswered, Mounted, DepositInv, DepositIsOfAsset
  <2> QED BY <2>1, <2>2
<1>5. ASSUME NEW l \in lookups, DepositMissing(l) PROVE DepositInv'
  BY <1>5 DEF DepositMissing, DepositInv, DepositIsOfAsset
<1>6. ASSUME order'.asset = order.asset, UNCHANGED <<lookups, deposit, missed>> PROVE DepositInv'
  BY <1>6 DEF DepositInv, DepositIsOfAsset
<1>7. ASSUME NEW m \in Amounts, setAmountUsd(m) PROVE DepositInv'
  <2>1. order'.asset = order.asset
    BY <1>7 DEF setAmountUsd, Reorder, CheckoutTypeOK, Order
  <2> QED BY <1>6, <1>7, <2>1 DEF setAmountUsd, Reorder
<1>8. ASSUME NEW i \in Ids, TopupCreated(i) \/ InvoiceAnswered(i) \/ InvoiceFails(i) \/ FinishedElsewhere(i)
      PROVE  DepositInv'
  BY <1>6, <1>8 DEF TopupCreated, InvoiceAnswered, InvoiceFails, FinishedElsewhere
<1>9. ASSUME \/ StreamTells \/ NewDeposit \/ processWeb4Payment
             \/ WalletRejects \/ WalletPays \/ ConfirmHandled \/ ConfirmAnswered \/ ConfirmFails
      PROVE  DepositInv'
  BY <1>6, <1>9 DEF StreamTells, NewDeposit, processWeb4Payment,
       WalletRejects, WalletPays, ConfirmHandled, ConfirmAnswered, ConfirmFails, End
<1>10. CASE UNCHANGED checkoutVars
  BY <1>6, <1>10 DEF checkoutVars
<1> QED BY <1>2, <1>3, <1>4, <1>5, <1>7, <1>8, <1>9, <1>10 DEF CheckoutNext

(***************************************************************************)
(* The deposit address on the page is one of the selected asset once its   *)
(* lookup is answered, in whatever order earlier lookups are.              *)
(***************************************************************************)
THEOREM DepositOfAssetAlways == CheckoutSpec => []DepositIsOfAsset
<1>1. CheckoutInit => DepositInv
  BY DEF CheckoutInit, DepositInv, DepositIsOfAsset
<1>2. DepositInv => DepositIsOfAsset
  BY DEF DepositInv
<1> QED BY <1>1, <1>2, CheckoutTypeInit, CheckoutTypeStep, DepositStep, PTL DEF CheckoutSpec

-------------------------------------------------------------------------------
(* The invoice belongs to the order, and success to a finished record. *)

\* Only the run of the order on the page is active, and only until there is an
\* invoice; a record is of its run's order; a payment is of the page's invoice.
InvoiceInv ==
  /\ \A i \in Ids :
       /\ runs[i].active => paymentId = Null /\ runs[i].pc # "idle" /\ runs[i].order = order
       /\ runs[i].pc = "idle" => records[i].status = "none"
       /\ runs[i].pc = "asking" /\ records[i].status # "none" => records[i].order = runs[i].order
       /\ paymentId = i => runs[i].pc = "over" /\ records[i].status # "none"
       /\ paymentId = i /\ ~reordered => records[i].order = order
  /\ payment.id # Null =>
       /\ payment.id = paymentId
       /\ ~reordered => payment.order = order

\* A confirmation that was granted has finished the record.
SuccessInv ==
  /\ payment.pc = "confirmed" => payment.id # Null /\ records[payment.id].status = "finished"
  /\ SuccessIsFinished

LEMMA InvoiceStep == CheckoutTypeOK /\ InvoiceInv /\ [CheckoutNext]_checkoutVars => InvoiceInv'
<1> SUFFICES ASSUME CheckoutTypeOK, InvoiceInv, [CheckoutNext]_checkoutVars PROVE InvoiceInv'
  OBVIOUS
<1>0. /\ runs \in [Ids -> Run] /\ records \in [Ids -> Invoice] /\ Null \notin Ids
      /\ \A j \in Ids : /\ Inactive[j].pc = runs[j].pc /\ Inactive[j].order = runs[j].order
                        /\ ~Inactive[j].active
      /\ Inactive \in [Ids -> Run]
  BY CheckoutAssumption DEF CheckoutTypeOK, Inactive, Run
<1>1. ASSUME NEW o \in Order, Reorder(o) PROVE InvoiceInv'
  <2>1. CASE paymentId = Null
    <3>1. PICK i \in Ids : /\ runs[i].pc = "idle"
                           /\ runs' = [Inactive EXCEPT ![i] = [pc |-> "asking", active |-> TRUE, order |-> o]]
      BY <1>1, <2>1 DEF Reorder
    <3>2. /\ runs'[i].pc = "asking" /\ runs'[i].active /\ runs'[i].order = o
          /\ \A j \in Ids \ {i} : runs'[j] = Inactive[j]
      BY <1>0, <3>1
    <3> QED BY <1>0, <1>1, <2>1, <3>1, <3>2 DEF Reorder, InvoiceInv
  <2>2. CASE paymentId # Null
    BY <1>0, <1>1, <2>2 DEF Reorder, InvoiceInv
  <2> QED BY <2>1, <2>2
<1>2. ASSUME NEW i \in Ids, TopupCreated(i) PROVE InvoiceInv'
  BY <1>0, <1>2 DEF TopupCreated, InvoiceInv
<1>3. ASSUME NEW i \in Ids, InvoiceAnswered(i) PROVE InvoiceInv'
  <2>1. CASE runs[i].active
    <3>1. /\ runs'[i].pc = "over" /\ ~runs'[i].active /\ runs'[i].order = runs[i].order
          /\ \A j \in Ids \ {i} : runs'[j] = Inactive[j]
      BY <1>0, <1>3, <2>1 DEF InvoiceAnswered, Current, Run
    <3>2. paymentId = Null /\ ~reordered' /\ paymentId' = i
      BY <1>3, <2>1 DEF InvoiceAnswered, Current, InvoiceInv
    <3> QED BY <1>0, <1>3, <2>1, <3>1, <3>2 DEF InvoiceAnswered, InvoiceInv
  <2>2. CASE ~runs[i].active
    <3>1. /\ runs'[i].pc = "over" /\ runs'[i].active = runs[i].active /\ runs'[i].order = runs[i].order
          /\ \A j \in Ids \ {i} : runs'[j] = runs[j]
      BY <1>0, <1>3, <2>2 DEF InvoiceAnswered, Current, Run
    <3> QED BY <1>0, <1>3, <2>2, <3>1 DEF InvoiceAnswered, Current, InvoiceInv
  <2> QED BY <2>1, <2>2
<1>4. ASSUME NEW i \in Ids, InvoiceFails(i) PROVE InvoiceInv'
  <2>1. /\ runs'[i].pc = "over" /\ runs'[i].active = runs[i].active /\ runs'[i].order = runs[i].order
        /\ \A j \in Ids \ {i} : runs'[j] = runs[j]
    BY <1>0, <1>4 DEF InvoiceFails, Run
  <2> QED BY <1>0, <1>4, <2>1 DEF InvoiceFails, InvoiceInv
<1>5. ASSUME NEW i \in Ids, FinishedElsewhere(i) PROVE InvoiceInv'
  <2>1. /\ records'[i].status = "finished" /\ records'[i].order = records[i].order
        /\ \A j \in Ids \ {i} : records'[j] = records[j]
    BY <1>0, <1>5 DEF FinishedElsewhere, Invoice
  <2> QED BY <1>0, <1>5, <2>1 DEF FinishedElsewhere, InvoiceInv
<1>6. ASSUME processWeb4Payment PROVE InvoiceInv'
  <2>1. CASE payment' = [pc |-> "wallet", id |-> paymentId, order |-> order]
    BY <1>6, <2>1 DEF processWeb4Payment, InvoiceInv
  <2>2. CASE UNCHANGED payment
    BY <1>6, <2>2 DEF processWeb4Payment, InvoiceInv
  <2> QED BY <1>6, <2>1, <2>2 DEF processWeb4Payment
<1>7. ASSUME NEW st, End(st) PROVE InvoiceInv'
  BY <1>7 DEF End, NoPayment, InvoiceInv
<1>8. ASSUME WalletPays PROVE InvoiceInv'
  BY <1>8 DEF WalletPays, InvoiceInv, CheckoutTypeOK, Payment
<1>9. ASSUME ConfirmHandled PROVE InvoiceInv'
  <2>1. payment'.id = payment.id /\ payment'.order = payment.order
    BY <1>9 DEF ConfirmHandled, CheckoutTypeOK, Payment
  <2>2. \A j \in Ids : /\ records'[j].order = records[j].order
                       /\ records'[j].status = records[j].status \/ (j = payment.id /\ records'[j].status = "finished")
    BY <1>0, <1>9 DEF ConfirmHandled, Invoice
  <2> QED BY <1>0, <1>9, <2>1, <2>2 DEF ConfirmHandled, InvoiceInv
<1>10. ASSUME UNCHANGED <<order, paymentId, runs, records, payment, reordered>> PROVE InvoiceInv'
  BY <1>10 DEF InvoiceInv
<1>11. ASSUME NEW m \in Amounts, setAmountUsd(m) PROVE InvoiceInv'
  BY <1>1, <1>11 DEF setAmountUsd, CheckoutTypeOK, Order
<1>12. ASSUME NEW x \in Assets, setSelectedAsset(x) PROVE InvoiceInv'
  BY <1>1, <1>12 DEF setSelectedAsset, CheckoutTypeOK, Order
<1>13. ASSUME NEW n \in Networks, setSelectedNetwork(n) PROVE InvoiceInv'
  BY <1>10, <1>13 DEF setSelectedNetwork
<1>14. ASSUME NEW l \in lookups, DepositAnswered(l) \/ DepositMissing(l) PROVE InvoiceInv'
  BY <1>10, <1>14 DEF DepositAnswered, DepositMissing
<1>15. ASSUME StreamTells \/ NewDeposit \/ UNCHANGED checkoutVars PROVE InvoiceInv'
  BY <1>10, <1>15 DEF StreamTells, NewDeposit, checkoutVars
<1> QED
  BY <1>2, <1>3, <1>4, <1>5, <1>6, <1>7, <1>8, <1>9, <1>11, <1>12, <1>13, <1>14, <1>15
    DEF CheckoutNext, WalletRejects, ConfirmAnswered, ConfirmFails

LEMMA SuccessStep ==
  CheckoutTypeOK /\ InvoiceInv /\ SuccessInv /\ [CheckoutNext]_checkoutVars => SuccessInv'
<1> SUFFICES ASSUME CheckoutTypeOK, InvoiceInv, SuccessInv, [CheckoutNext]_checkoutVars PROVE SuccessInv'
  OBVIOUS
<1>0. /\ records \in [Ids -> Invoice] /\ Null \notin Ids
      /\ paymentId \in Ids \union {Null} /\ payment \in Payment
  BY CheckoutAssumption DEF CheckoutTypeOK
\* A record that is finished stays so.
<1>1. \A j \in Ids : records[j].status = "finished" => records'[j].status = "finished"
  <2>1. ASSUME NEW i \in Ids, TopupCreated(i) \/ FinishedElsewhere(i), NEW j \in Ids,
               records[j].status = "finished"
        PROVE  records'[j].status = "finished"
    BY <1>0, <2>1 DEF TopupCreated, FinishedElsewhere, Invoice
  <2>2. ASSUME ConfirmHandled, NEW j \in Ids, records[j].status = "finished"
        PROVE  records'[j].status = "finished"
    BY <1>0, <2>2 DEF ConfirmHandled, Invoice
  <2> QED
    BY <2>1, <2>2 DEF CheckoutNext, checkoutVars, setAmountUsd, setSelectedAsset, setSelectedNetwork, Reorder,
         InvoiceAnswered, InvoiceFails, DepositAnswered, DepositMissing, StreamTells, NewDeposit,
         processWeb4Payment, WalletRejects, WalletPays, ConfirmAnswered, ConfirmFails, End
\* Once there is an invoice it stays.
<1>2. paymentId # Null => paymentId' = paymentId
  <2>1. ASSUME NEW i \in Ids, InvoiceAnswered(i), paymentId # Null PROVE paymentId' = paymentId
    BY <2>1 DEF InvoiceAnswered, Current, InvoiceInv
  <2> QED
    BY <2>1 DEF CheckoutNext, checkoutVars, setAmountUsd, setSelectedAsset, setSelectedNetwork, Reorder,
         TopupCreated, InvoiceFails, FinishedElsewhere, DepositAnswered, DepositMissing, StreamTells, NewDeposit,
         processWeb4Payment, WalletRejects, WalletPays, ConfirmHandled, ConfirmAnswered, ConfirmFails, End
<1>3. payment'.pc = "confirmed" => payment'.id # Null /\ records'[payment'.id].status = "finished"
  <2>1. CASE UNCHANGED payment
    BY <1>0, <1>1, <2>1 DEF SuccessInv, Payment
  <2>2. CASE payment'.pc # "confirmed"
    BY <2>2
  <2>3. ASSUME ConfirmHandled, payment'.pc = "confirmed"
        PROVE  payment'.id # Null /\ records'[payment'.id].status = "finished"
    <3>1. payment.id # Null /\ payment'.id = payment.id
      BY <1>0, <2>3 DEF ConfirmHandled, IdGiven, Payment
    <3>2. records' = [j \in Ids |-> IF j = payment.id
                                    THEN [records[j] EXCEPT !.status = "finished"] ELSE records[j]]
      BY <1>0, <2>3 DEF ConfirmHandled, Payment
    <3> QED BY <1>0, <3>1, <3>2 DEF Payment, Invoice
  <2>4. ASSUME NEW st, End(st) PROVE payment'.pc # "confirmed"
    BY <2>4 DEF End, NoPayment
  <2>5. ASSUME WalletPays PROVE payment'.pc # "confirmed"
    BY <1>0, <2>5 DEF WalletPays, Payment
  <2>6. ASSUME processWeb4Payment PROVE UNCHANGED payment \/ payment'.pc # "confirmed"
    BY <2>6 DEF processWeb4Payment
  <2> QED
    BY <2>1, <2>2, <2>3, <2>4, <2>5, <2>6
      DEF CheckoutNext, checkoutVars, setAmountUsd, setSelectedAsset, setSelectedNetwork, Reorder, TopupCreated,
          InvoiceAnswered, InvoiceFails, FinishedElsewhere, DepositAnswered, DepositMissing, StreamTells, NewDeposit,
          WalletRejects, ConfirmAnswered, ConfirmFails
\* What makes a success is a stream that tells a finished record, or a granted confirmation.
<1>4. status' = "success" =>
        \/ status = "success"
        \/ paymentId # Null /\ records[paymentId].status = "finished"
  <2>1. ASSUME StreamTells PROVE paymentId # Null /\ records[paymentId].status = "finished"
    BY <2>1 DEF StreamTells, Watched
  <2>2. ASSUME ConfirmAnswered PROVE paymentId # Null /\ records[paymentId].status = "finished"
    BY <2>2 DEF ConfirmAnswered, SuccessInv, InvoiceInv
  <2> QED
    BY <2>1, <2>2
      DEF CheckoutNext, checkoutVars, setAmountUsd, setSelectedAsset, setSelectedNetwork, Reorder, TopupCreated,
          InvoiceAnswered, InvoiceFails, FinishedElsewhere, DepositAnswered, DepositMissing, NewDeposit,
          processWeb4Payment, WalletRejects, WalletPays, ConfirmHandled, ConfirmFails, End
<1>5. SuccessIsFinished'
  BY <1>0, <1>1, <1>2, <1>4 DEF SuccessInv, SuccessIsFinished
<1> QED BY <1>3, <1>5 DEF SuccessInv

LEMMA InvoiceInit == CheckoutInit => InvoiceInv /\ SuccessInv
  BY CheckoutAssumption DEF CheckoutInit, NoRun, NoPayment, InvoiceInv, SuccessInv, SuccessIsFinished

(***************************************************************************)
(* The invoice on the page, and what the wallet is asked to pay for it, is *)
(* of the order on the page, for any number of invoices asked for.         *)
(***************************************************************************)
THEOREM InvoiceOfOrderAlways == CheckoutSpec => []InvoiceIsOfOrder
<1>1. CheckoutTypeOK /\ InvoiceInv => InvoiceIsOfOrder
  BY DEF CheckoutTypeOK, InvoiceInv, InvoiceIsOfOrder
<1> QED
  BY <1>1, CheckoutTypeInit, InvoiceInit, CheckoutTypeStep, InvoiceStep, PTL DEF CheckoutSpec

(***************************************************************************)
(* The page never says that a deposit has settled unless the record of the *)
(* invoice it shows was finished.                                          *)
(***************************************************************************)
THEOREM SuccessIsFinishedAlways == CheckoutSpec => []SuccessIsFinished
<1>1. SuccessInv => SuccessIsFinished
  BY DEF SuccessInv
<1> QED
  BY <1>1, CheckoutTypeInit, InvoiceInit, CheckoutTypeStep, InvoiceStep, SuccessStep, PTL DEF CheckoutSpec
================================================================================
