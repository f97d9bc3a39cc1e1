-------------------------------- MODULE Pairing --------------------------------
(***************************************************************************)
(* Pairing a browser with a wallet by a QR code (dashboard/app/api/pair,   *)
(* components/web4-connect-modal.tsx).                                     *)
(*                                                                         *)
(* The routes of one Node.js process share a JSON file of pairing records. *)
(* POST /api/pair/<code> loads the file, awaits the body of the request    *)
(* and saves what it loaded.  The browser polls GET /api/pair/<code>; its  *)
(* polls overlap and are answered in any order.                            *)
(***************************************************************************)
EXTENDS Naturals

CONSTANTS
  Codes,           \* pairing ids, each drawn by one browser
  Posts,           \* POST requests of wallets; each carries an address of its own, or none
  None,
  TTL,             \* TTL_MS
  MaxTime, MaxCrashes   \* bounds of the model

\* confirmedAt, the label and the keys are only shown.
Record == [status : {"pending", "confirmed"}, address : Posts \union {None}, createdAt : 0..MaxTime]

ASSUME PairingAssumption ==
  /\ None \notin Posts \union Codes \union Record
  /\ {TTL, MaxTime, MaxCrashes} \subseteq Nat

VARIABLES
  now,
  file,            \* the store: code -> record
  posts,
  modals,          \* the browser that drew a code
  crashes

vars == <<now, file, posts, modals, crashes>>

Store == [Codes -> Record \union {None}]
Empty == [c \in Codes |-> None]

\* copy and at: the store the handler loaded, and when.
Post ==
  [pc : {"idle", "waiting", "confirmed", "already", "404", "410", "500", "lost"},
   code : Codes \union {None}, address : Posts \union {None}, copy : Store, at : 0..MaxTime]

\* inflight: the addresses in the answers on their way to the browser.
Modal ==
  [pc : {"none", "polling", "adopted", "connected", "closed"}, address : Posts \union {None},
   inflight : SUBSET (Posts \union {None})]

TypeOK ==
  /\ now \in 0..MaxTime
  /\ file \in Store
  /\ posts \in [Posts -> Post]
  /\ modals \in [Codes -> Modal]
  /\ crashes \in 0..MaxCrashes

Init ==
  /\ now = 0
  /\ file = Empty
  /\ posts = [p \in Posts |-> [pc |-> "idle", code |-> None, address |-> None, copy |-> Empty, at |-> 0]]
  /\ modals = [c \in Codes |-> [pc |-> "none", address |-> None, inflight |-> {}]]
  /\ crashes = 0

-------------------------------------------------------------------------------
PendingRecord(t) == [status |-> "pending", address |-> None, createdAt |-> t]

\* POST /api/pair/init: the body has arrived; load, add, save.  The browser starts to poll.
PairInit(c) ==
  /\ modals[c].pc = "none"
  /\ file' = [file EXCEPT ![c] = PendingRecord(now)]
  /\ modals' = [modals EXCEPT ![c].pc = "polling"]
  /\ UNCHANGED <<now, posts, crashes>>

\* Mutant: a code that is not confirmed yet never expires.
ExpiredOnceConfirmed(record) == record.status = "confirmed" /\ now > record.createdAt + TTL

Expired(record) == now > record.createdAt + TTL

\* Mutant: a confirmed code is confirmed again.
NeverConfirmed(record) == FALSE

AlreadyConfirmed(record) == record.status = "confirmed"

(***************************************************************************)
(* POST /api/pair/<code>, directly or forwarded by the older confirm       *)
(* route: up to the wait for the body.                                     *)
(***************************************************************************)
PostLoad(p, c, address) ==
  LET next(pc, copy) ==
        posts' = [posts EXCEPT ![p] = [pc |-> pc, code |-> c, address |-> address, copy |-> copy, at |-> now]]
  IN
  /\ posts[p].pc = "idle"
  /\ modals[c].pc # "none"
  /\ \/ file[c] = None /\ next("404", Empty)
     \/ file[c] # None /\ Expired(file[c]) /\ next("410", Empty)
     \/ file[c] # None /\ ~Expired(file[c]) /\ AlreadyConfirmed(file[c]) /\ next("already", Empty)
     \/ file[c] # None /\ ~Expired(file[c]) /\ ~AlreadyConfirmed(file[c]) /\ next("waiting", file)
  /\ UNCHANGED <<now, file, modals, crashes>>

\* address ?? record.address
Confirmed(p) ==
  LET record == posts[p].copy[posts[p].code] IN
  [status |-> "confirmed",
   address |-> IF posts[p].address # None THEN posts[p].address ELSE record.address,
   createdAt |-> record.createdAt]

\* The body is here: change the record that was loaded, save what was loaded.
PostSave(p) ==
  /\ posts[p].pc = "waiting"
  /\ file' = [posts[p].copy EXCEPT ![posts[p].code] = Confirmed(p)]
  /\ posts' = [posts EXCEPT ![p] = [@ EXCEPT !.pc = "confirmed", !.copy = Empty]]
  /\ UNCHANGED <<now, modals, crashes>>

\* The body breaks off or is no JSON.
PostFails(p) ==
  /\ posts[p].pc = "waiting"
  /\ posts' = [posts EXCEPT ![p] = [@ EXCEPT !.pc = "500", !.copy = Empty]]
  /\ UNCHANGED <<now, file, modals, crashes>>

-------------------------------------------------------------------------------
(***************************************************************************)
(* The browser.  A poll that fails, or is answered 404, 410 or with a      *)
(* record that is not confirmed with an address, changes nothing.          *)
(***************************************************************************)

\* Mutant: a code that was confirmed expires too.
GoneLater(record) == Expired(record)

Gone(record) == Expired(record) /\ record.status # "confirmed"

\* Mutant: any record is good enough.
AnyRecord(record) == TRUE

Adoptable(record) == record.status = "confirmed" /\ record.address # None

\* GET /api/pair/<code>: the answer is on its way.
Poll(c) ==
  /\ modals[c].pc = "polling"
  /\ file[c] # None
  /\ ~Gone(file[c])
  /\ Adoptable(file[c])
  /\ modals' = [modals EXCEPT ![c].inflight = @ \union {file[c].address}]
  /\ UNCHANGED <<now, file, posts, crashes>>

\* Answers are taken until the effect is cleaned up, after the next render.
Answer(c) ==
  /\ modals[c].pc \in {"polling", "adopted"}
  /\ \E a \in modals[c].inflight :
       modals' = [modals EXCEPT ![c] = [pc |-> "adopted", address |-> a, inflight |-> @.inflight \ {a}]]
  /\ UNCHANGED <<now, file, posts, crashes>>

CleanUp(c) ==
  /\ modals[c].pc = "adopted"
  /\ modals' = [modals EXCEPT ![c] = [@ EXCEPT !.pc = "connected", !.inflight = {}]]
  /\ UNCHANGED <<now, file, posts, crashes>>

CloseModal(c) ==
  /\ modals[c].pc = "polling"
  /\ modals' = [modals EXCEPT ![c] = [@ EXCEPT !.pc = "closed", !.inflight = {}]]
  /\ UNCHANGED <<now, file, posts, crashes>>

-------------------------------------------------------------------------------
Tick ==
  /\ now < MaxTime
  /\ now' = now + 1
  /\ UNCHANGED <<file, posts, modals, crashes>>

\* The process loses its handlers and keeps the file.
Lose ==
  /\ crashes < MaxCrashes
  /\ crashes' = crashes + 1
  /\ posts' = [p \in Posts |->
                 IF posts[p].pc = "waiting" THEN [posts[p] EXCEPT !.pc = "lost", !.copy = Empty] ELSE posts[p]]
  /\ UNCHANGED <<now, modals>>

Crash == Lose /\ UNCHANGED file

\* Inside writeFileSync: the file does not parse and is read as an empty store.
CrashInSave ==
  /\ \/ \E p \in Posts : posts[p].pc = "waiting"
     \/ \E c \in Codes : modals[c].pc = "none"
  /\ Lose
  /\ file' = Empty

Next ==
  \/ \E c \in Codes :
       \/ PairInit(c) \/ Poll(c) \/ Answer(c) \/ CleanUp(c) \/ CloseModal(c)
       \/ \E p \in Posts : PostLoad(p, c, p) \/ PostLoad(p, c, None)
  \/ \E p \in Posts : PostSave(p) \/ PostFails(p)
  \/ Tick
  \/ Crash
  \/ CrashInSave

Spec == Init /\ [][Next]_vars

\* setInterval polls on, a poll is answered in the end, and React renders.
FairSpec == Spec /\ \A c \in Codes : WF_vars(Poll(c)) /\ WF_vars(Answer(c)) /\ WF_vars(CleanUp(c))

-------------------------------------------------------------------------------
(***************************************************************************)
(* A code is confirmed only by a wallet that found it pending and in time, *)
(* and with that wallet's address: through stale saves and lost files no   *)
(* record gets an address from another code or from a late wallet.         *)
(***************************************************************************)
InTime(p, record) == posts[p].at <= record.createdAt + TTL

ConfirmedBy(p, c, address) == posts[p].pc = "confirmed" /\ posts[p].code = c /\ posts[p].address = address

ConfirmedByWallet ==
  \A c \in Codes :
    file[c] # None /\ file[c].status = "confirmed" =>
      \E p \in Posts : ConfirmedBy(p, c, file[c].address) /\ InTime(p, file[c])

(***************************************************************************)
(* A browser connects only to an address that a wallet posted for its own  *)
(* code and whose post was answered as confirmed.                          *)
(***************************************************************************)
AdoptedFromWallet ==
  \A c \in Codes :
    modals[c].pc \in {"adopted", "connected"} =>
      \E p \in Posts : ConfirmedBy(p, c, modals[c].address) /\ modals[c].address = p

(***************************************************************************)
(* A confirmed record stays as it is.  What takes it back is a post that   *)
(* loaded the store before the confirmation, or a crash.                   *)
(***************************************************************************)
StaleSave(c) ==
  \E p \in Posts : posts[p].pc = "waiting" /\ posts'[p].pc = "confirmed" /\ posts[p].copy[c] # file[c]

ConfirmationsStay ==
  [][\A c \in Codes :
       file[c] # None /\ file[c].status = "confirmed" =>
         \/ file'[c] = file[c]
         \/ StaleSave(c)
         \/ crashes' # crashes]_vars

(***************************************************************************)
(* A browser that keeps polling a code that stays confirmed with an        *)
(* address connects, however late it asks.                                 *)
(***************************************************************************)
Settled(c) == file[c] # None /\ file[c].status = "confirmed" /\ file[c].address # None

BrowserConnects ==
  \A c \in Codes : <>[]Settled(c) => <>[](modals[c].pc \in {"connected", "closed"})
===============================================================================
