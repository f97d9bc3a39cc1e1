----------------------------- MODULE PairingProofs -----------------------------
(***************************************************************************)
(* Proofs about Pairing: types, whose address a record and a browser hold, *)
(* and that confirmations stay.                                            *)
(***************************************************************************)
EXTENDS Pairing, TLAPS

(***************************************************************************)
(* The inductive invariant.                                                *)
(***************************************************************************)

\* A wallet that found the code in time stands behind a confirmed record.
Backed(c, record) ==
  record # None /\ record.status = "confirmed" =>
    \E p \in Posts : ConfirmedBy(p, c, record.address) /\ InTime(p, record)

\* An unconfirmed record has no address.
Blank(record) == record # None /\ record.status = "pending" => record.address = None

FileBacked == \A c \in Codes : Backed(c, file[c]) /\ Blank(file[c])

CopyBacked == \A p \in Posts, c \in Codes : Backed(c, posts[p].copy[c]) /\ Blank(posts[p].copy[c])

\* A post that waits found its code pending and in time.
WaitingPost(p) ==
  posts[p].pc = "waiting" =>
    /\ posts[p].code \in Codes
    /\ posts[p].copy[posts[p].code] # None
    /\ posts[p].copy[posts[p].code].status = "pending"
    /\ InTime(p, posts[p].copy[posts[p].code])

\* A post carries its own address or none.
OwnAddress == \A p \in Posts : posts[p].address \in {p, None} /\ WaitingPost(p)

\* What is on its way to a browser, and what it adopted, a wallet posted for its code.
PostedFor(c, a) == \E p \in Posts : ConfirmedBy(p, c, a) /\ a = p

BrowserBacked ==
  \A c \in Codes : /\ \A a \in modals[c].inflight : PostedFor(c, a)
                   /\ modals[c].pc \in {"adopted", "connected"} => PostedFor(c, modals[c].address)

\* A code that is not drawn is nowhere.
Undrawn ==
  \A c \in Codes : modals[c].pc = "none" =>
    file[c] = None /\ modals[c].inflight = {} /\ \A p \in Posts : posts[p].copy[c] = None

IInv == TypeOK /\ FileBacked /\ CopyBacked /\ OwnAddress /\ BrowserBacked /\ Undrawn

-------------------------------------------------------------------------------
\* Every step keeps the types.
LEMMA TypeStep == IInv /\ [Next]_vars => TypeOK'
<1> SUFFICES ASSUME IInv, [Next]_vars PROVE TypeOK'
  OBVIOUS
<1>0. TypeOK
  BY DEF IInv
<1>1. MaxTime \in Nat /\ MaxCrashes \in Nat /\ TTL \in Nat /\ now \in 0..MaxTime /\ Empty \in Store
  BY <1>0, PairingAssumption DEF TypeOK, Store, Empty
<1>2. ASSUME NEW c \in Codes, PairInit(c) PROVE TypeOK'
  <2>1. PendingRecord(now) \in Record
    BY <1>1 DEF PendingRecord, Record
  <2>2. [modals[c] EXCEPT !.pc = "polling"] \in Modal
    BY <1>0 DEF TypeOK, Modal
  <2>3. modals' \in [Codes -> Modal]
    BY <1>0, <1>2, <2>2 DEF PairInit, TypeOK
  <2>4. file' \in Store
    BY <1>0, <1>2, <2>1 DEF PairInit, TypeOK, Store
  <2> QED BY <1>0, <1>2, <2>3, <2>4 DEF PairInit, TypeOK
<1>3. ASSUME NEW c \in Codes, NEW m \in Modal, modals' = [modals EXCEPT ![c] = m],
             UNCHANGED <<now, file, posts, crashes>>
      PROVE  TypeOK'
  BY <1>0, <1>3 DEF TypeOK
<1>4. ASSUME NEW c \in Codes, Poll(c) PROVE TypeOK'
  <2>1. file[c].address \in Posts
    BY <1>0, <1>4 DEF TypeOK, Store, Record, Poll, Adoptable
  <2> DEFINE m == [modals[c] EXCEPT !.inflight = @ \union {file[c].address}]
  <2>2. m \in Modal
    BY <1>0, <2>1 DEF TypeOK, Modal
  <2>3. modals' = [modals EXCEPT ![c] = m]
    BY <1>4 DEF Poll
  <2> HIDE DEF m
  <2> QED BY <1>3, <1>4, <2>2, <2>3 DEF Poll
<1>5. ASSUME NEW c \in Codes, Answer(c) PROVE TypeOK'
  <2>1. PICK a \in modals[c].inflight :
          modals' = [modals EXCEPT ![c] = [pc |-> "adopted", address |-> a, inflight |-> @.inflight \ {a}]]
    BY <1>5 DEF Answer
  <2>2. [pc |-> "adopted", address |-> a, inflight |-> modals[c].inflight \ {a}] \in Modal
    BY <1>0 DEF TypeOK, Modal
  <2> QED BY <1>3, <1>5, <2>1, <2>2 DEF Answer
<1>6. ASSUME NEW c \in Codes, CleanUp(c) \/ CloseModal(c) PROVE TypeOK'
  <2>1. \A pc \in {"connected", "closed"} : [modals[c] EXCEPT !.pc = pc, !.inflight = {}] \in Modal
    BY <1>0 DEF TypeOK, Modal
  <2> QED BY <1>3, <1>6, <2>1 DEF CleanUp, CloseModal
<1>7. ASSUME NEW p \in Posts, NEW q \in Post, posts' = [posts EXCEPT ![p] = q], file' \in Store,
             UNCHANGED <<now, modals, crashes>>
      PROVE  TypeOK'
  BY <1>0, <1>7 DEF TypeOK
<1>8. ASSUME NEW p \in Posts, NEW c \in Codes, NEW address \in Posts \union {None}, PostLoad(p, c, address)
      PROVE  TypeOK'
  <2>1. \A pc \in {"404", "410", "already", "waiting"}, copy \in Store :
          [pc |-> pc, code |-> c, address |-> address, copy |-> copy, at |-> now] \in Post
    BY <1>1 DEF Post
  <2>2. file \in Store
    BY <1>0 DEF TypeOK
  <2>3. PICK pc \in {"404", "410", "already", "waiting"}, copy \in Store :
          posts' = [posts EXCEPT ![p] = [pc |-> pc, code |-> c, address |-> address, copy |-> copy, at |-> now]]
    BY <1>1, <1>8, <2>2 DEF PostLoad
  <2> DEFINE q == [pc |-> pc, code |-> c, address |-> address, copy |-> copy, at |-> now]
  <2>4. q \in Post /\ posts' = [posts EXCEPT ![p] = q]
    BY <2>1, <2>3
  <2>5. file' \in Store /\ UNCHANGED <<now, modals, crashes>>
    BY <1>8, <2>2 DEF PostLoad
  <2> HIDE DEF q
  <2> QED BY <1>7, <2>4, <2>5
<1>9. ASSUME NEW p \in Posts, PostSave(p) PROVE TypeOK'
  <2>1. [posts[p] EXCEPT !.pc = "confirmed", !.copy = Empty] \in Post
    BY <1>0, <1>1 DEF TypeOK, Post
  <2>2. posts[p].copy \in Store /\ posts[p].code \in Codes /\ posts[p].copy[posts[p].code] \in Record
        /\ posts[p].address \in Posts \union {None}
    BY <1>0, <1>9 DEF TypeOK, Post, PostSave, IInv, OwnAddress, WaitingPost, Store
  <2>3. Confirmed(p) \in Record
    BY <2>2 DEF Confirmed, Record
  <2>4. file' \in Store
    BY <1>9, <2>2, <2>3 DEF PostSave, Store
  <2> QED BY <1>7, <1>9, <2>1, <2>4 DEF PostSave
<1>10. ASSUME NEW p \in Posts, PostFails(p) PROVE TypeOK'
  <2>1. [posts[p] EXCEPT !.pc = "500", !.copy = Empty] \in Post
    BY <1>0, <1>1 DEF TypeOK, Post
  <2> QED BY <1>0, <1>7, <1>10, <2>1 DEF PostFails, TypeOK
<1>11. CASE Tick
  BY <1>0, <1>1, <1>11 DEF Tick, TypeOK
<1>12. CASE Crash \/ CrashInSave
  <2>1. \A p \in Posts : [posts[p] EXCEPT !.pc = "lost", !.copy = Empty] \in Post
    BY <1>0, <1>1 DEF TypeOK, Post
  <2>2. posts' \in [Posts -> Post] /\ file' \in Store
    BY <1>0, <1>1, <1>12, <2>1 DEF TypeOK, Crash, CrashInSave, Lose
  <2>3. crashes' \in 0..MaxCrashes
    <3>1. crashes < MaxCrashes /\ crashes' = crashes + 1 /\ crashes \in 0..MaxCrashes
      BY <1>0, <1>12 DEF TypeOK, Crash, CrashInSave, Lose
    <3> QED BY <1>1, <3>1
  <2>4. modals' = modals /\ now' = now
    BY <1>12 DEF Crash, CrashInSave, Lose
  <2> QED BY <1>0, <2>2, <2>3, <2>4 DEF TypeOK
<1>13. CASE UNCHANGED vars
  BY <1>0, <1>13 DEF vars, TypeOK
<1> QED
  BY <1>2, <1>4, <1>5, <1>6, <1>8, <1>9, <1>10, <1>11, <1>12, <1>13 DEF Next

\* A step that keeps posts, but for some that wait or are idle, and the records.
LEMMA PostStep ==
  ASSUME IInv, TypeOK', NEW p \in Posts, NEW q \in Post, posts' = [posts EXCEPT ![p] = q],
         posts[p].pc \in {"idle", "waiting"}, q.address \in {p, None},
         q.copy \in {file, Empty}, q.pc = "waiting" => q.copy = file /\ q.code \in Codes
           /\ file[q.code] # None /\ file[q.code].status = "pending" /\ q.at <= file[q.code].createdAt + TTL,
         UNCHANGED <<file, modals>>
  PROVE  IInv'
<1>1. /\ posts'[p] = q
      /\ \A o \in Posts : o # p => posts'[o] = posts[o]
  BY DEF IInv, TypeOK
<1>2. \A o \in Posts : posts[o].pc = "confirmed" => posts'[o] = posts[o]
  BY <1>1
<1>3. \A c \in Codes : Empty[c] = None
  BY DEF Empty
<1>4. FileBacked'
  BY <1>2 DEF IInv, FileBacked, Backed, Blank, ConfirmedBy, InTime
<1>5. CopyBacked'
  <2> SUFFICES ASSUME NEW o \in Posts, NEW c \in Codes PROVE (Backed(c, posts[o].copy[c]) /\ Blank(posts[o].copy[c]))'
    BY DEF CopyBacked
  <2>1. posts'[o].copy[c] \in {posts[o].copy[c], file[c], None}
    BY <1>1, <1>3
  <2> QED BY <1>2, <2>1 DEF IInv, CopyBacked, FileBacked, Backed, Blank, ConfirmedBy, InTime
<1>6. OwnAddress'
  BY <1>1 DEF IInv, OwnAddress, WaitingPost, InTime
<1>7. BrowserBacked'
  BY <1>2 DEF IInv, BrowserBacked, PostedFor, ConfirmedBy
<1>8. Undrawn'
  BY <1>1, <1>3 DEF IInv, Undrawn
<1> QED BY <1>4, <1>5, <1>6, <1>7, <1>8 DEF IInv

\* A browser's step: its answers are of its code.
LEMMA BrowserStep ==
  ASSUME IInv, TypeOK', NEW c \in Codes, NEW m \in Modal, modals' = [modals EXCEPT ![c] = m],
         modals[c].pc # "none", m.pc # "none",
         \A a \in m.inflight : PostedFor(c, a),
         m.pc \in {"adopted", "connected"} => PostedFor(c, m.address),
         UNCHANGED <<file, posts>>
  PROVE  IInv'
<1>1. /\ modals'[c] = m
      /\ \A d \in Codes : d # c => modals'[d] = modals[d]
  BY DEF IInv, TypeOK
<1>2. BrowserBacked'
  BY <1>1 DEF IInv, BrowserBacked, PostedFor, ConfirmedBy
<1>3. Undrawn'
  BY <1>1 DEF IInv, Undrawn
<1>4. (FileBacked /\ CopyBacked /\ OwnAddress)'
  BY DEF IInv, FileBacked, CopyBacked, OwnAddress, WaitingPost, Backed, Blank, ConfirmedBy, InTime
<1> QED BY <1>2, <1>3, <1>4 DEF IInv

\* A new code.
LEMMA InitStep ==
  ASSUME IInv, TypeOK', NEW c \in Codes, PairInit(c)
  PROVE  IInv'
<1>1. /\ file' = [file EXCEPT ![c] = PendingRecord(now)]
      /\ modals[c].pc = "none" /\ posts' = posts
  BY DEF PairInit
<1>2. /\ \A d \in Codes : modals'[d].inflight = modals[d].inflight /\ modals'[d].address = modals[d].address
      /\ \A d \in Codes : modals'[d].pc = IF d = c THEN "polling" ELSE modals[d].pc
  BY DEF PairInit, IInv, TypeOK, Modal
<1>3. /\ \A d \in Codes : d # c => file'[d] = file[d]
      /\ file'[c].status = "pending" /\ file'[c].address = None
  BY <1>1 DEF PendingRecord, IInv, TypeOK, Store
<1>4. FileBacked'
  BY <1>1, <1>3 DEF IInv, FileBacked, Backed, Blank, ConfirmedBy, InTime
<1>5. (CopyBacked /\ OwnAddress)'
  BY <1>1 DEF IInv, CopyBacked, OwnAddress, WaitingPost, Backed, Blank, ConfirmedBy, InTime
<1>6. (BrowserBacked /\ Undrawn)'
  BY <1>1, <1>2, <1>3 DEF IInv, BrowserBacked, Undrawn, PostedFor, ConfirmedBy
<1> QED BY <1>4, <1>5, <1>6 DEF IInv

\* A confirmation: the record it saves is its own, the others are those it loaded.
LEMMA SaveStep ==
  ASSUME IInv, TypeOK', NEW p \in Posts, PostSave(p)
  PROVE  IInv'
<1> DEFINE c == posts[p].code
           r == Confirmed(p)
           q == [posts[p] EXCEPT !.pc = "confirmed", !.copy = Empty]
<1>1. /\ c \in Codes /\ posts[p].copy \in Store
      /\ posts[p].copy[c] # None /\ posts[p].copy[c].status = "pending"
      /\ InTime(p, posts[p].copy[c]) /\ posts[p].copy[c].address = None
      /\ posts[p].pc = "waiting" /\ posts[p] \in Post
  BY DEF PostSave, IInv, TypeOK, Post, OwnAddress, WaitingPost, CopyBacked, Blank
<1>2. /\ r.status = "confirmed" /\ r.address = posts[p].address
      /\ r.createdAt = posts[p].copy[c].createdAt
  BY <1>1 DEF Confirmed
<1>3. /\ q.pc = "confirmed" /\ q.copy = Empty /\ q.code = c
      /\ q.address = posts[p].address /\ q.at = posts[p].at
  BY <1>1 DEF Post
<1>4. /\ posts' = [posts EXCEPT ![p] = q]
      /\ file' = [posts[p].copy EXCEPT ![c] = r]
      /\ modals' = modals
  BY DEF PostSave
<1> HIDE DEF q, r
<1>5. /\ posts'[p] = q
      /\ \A o \in Posts : o # p => posts'[o] = posts[o]
  BY <1>4 DEF IInv, TypeOK
<1>6. /\ file'[c] = r
      /\ \A d \in Codes : d # c => file'[d] = posts[p].copy[d]
  BY <1>1, <1>4 DEF Store
<1>7. \A o \in Posts : posts[o].pc = "confirmed" => posts'[o] = posts[o]
  BY <1>1, <1>5
<1>8. \A d \in Codes : Empty[d] = None
  BY DEF Empty
<1>9. FileBacked'
  <2> SUFFICES ASSUME NEW d \in Codes PROVE (Backed(d, file[d]) /\ Blank(file[d]))'
    BY DEF FileBacked
  <2>1. CASE d = c
    <3>1. posts'[p].pc = "confirmed" /\ posts'[p].code = d /\ posts'[p].address = file'[d].address
          /\ posts'[p].at <= file'[d].createdAt + TTL
      BY <1>1, <1>2, <1>3, <1>5, <1>6, <2>1 DEF InTime
    <3> QED BY <1>2, <1>6, <2>1, <3>1 DEF Backed, Blank, ConfirmedBy, InTime
  <2>2. CASE d # c
    <3>1. file'[d] = posts[p].copy[d]
      BY <1>6, <2>2
    <3>2. Backed(d, posts[p].copy[d]) /\ Blank(posts[p].copy[d])
      BY DEF IInv, CopyBacked
    <3> QED BY <1>7, <3>1, <3>2 DEF Backed, Blank, ConfirmedBy, InTime
  <2> QED BY <2>1, <2>2
<1>10. CopyBacked'
  <2> SUFFICES ASSUME NEW o \in Posts, NEW d \in Codes PROVE (Backed(d, posts[o].copy[d]) /\ Blank(posts[o].copy[d]))'
    BY DEF CopyBacked
  <2>1. posts'[o].copy[d] \in {posts[o].copy[d], None}
    BY <1>3, <1>5, <1>8
  <2> QED BY <1>7, <2>1 DEF IInv, CopyBacked, Backed, Blank, ConfirmedBy, InTime
<1>11. OwnAddress'
  BY <1>3, <1>5 DEF IInv, OwnAddress, WaitingPost, InTime
<1>12. BrowserBacked'
  BY <1>4, <1>7 DEF IInv, BrowserBacked, PostedFor, ConfirmedBy
<1>13. Undrawn'
  BY <1>1, <1>3, <1>4, <1>5, <1>6, <1>8 DEF IInv, Undrawn
<1> QED BY <1>9, <1>10, <1>11, <1>12, <1>13 DEF IInv

\* A crash only forgets.
LEMMA CrashStep ==
  ASSUME IInv, TypeOK', Lose, file' \in {file, Empty}
  PROVE  IInv'
<1>1. /\ \A p \in Posts : posts'[p].pc # "waiting" /\ posts'[p].address = posts[p].address
      /\ \A p \in Posts : posts[p].pc = "confirmed" => posts'[p] = posts[p]
      /\ \A p \in Posts : posts'[p].copy \in {posts[p].copy, Empty}
      /\ modals' = modals
  BY DEF Lose, IInv, TypeOK, Post
<1>2. \A c \in Codes : Empty[c] = None
  BY DEF Empty
<1>3. FileBacked'
  <2> SUFFICES ASSUME NEW c \in Codes PROVE (Backed(c, file[c]) /\ Blank(file[c]))'
    BY DEF FileBacked
  <2>1. file'[c] = file[c] \/ file'[c] = None
    BY <1>2
  <2> QED BY <1>1, <2>1 DEF IInv, FileBacked, Backed, Blank, ConfirmedBy, InTime
<1>4. CopyBacked'
  <2> SUFFICES ASSUME NEW o \in Posts, NEW c \in Codes PROVE (Backed(c, posts[o].copy[c]) /\ Blank(posts[o].copy[c]))'
    BY DEF CopyBacked
  <2>1. posts'[o].copy[c] \in {posts[o].copy[c], None}
    BY <1>1, <1>2
  <2> QED BY <1>1, <2>1 DEF IInv, CopyBacked, Backed, Blank, ConfirmedBy, InTime
<1>5. (OwnAddress /\ BrowserBacked)'
  BY <1>1 DEF IInv, OwnAddress, WaitingPost, BrowserBacked, PostedFor, ConfirmedBy
<1>6. Undrawn'
  BY <1>1, <1>2 DEF IInv, Undrawn
<1> QED BY <1>3, <1>4, <1>5, <1>6 DEF IInv

\* The invariant is inductive.
LEMMA InvariantStep == IInv /\ [Next]_vars => IInv'
<1> SUFFICES ASSUME IInv, [Next]_vars PROVE IInv'
  OBVIOUS
<1>0. TypeOK /\ TypeOK' /\ None \notin Posts /\ None \notin Record /\ Empty \in Store
  BY TypeStep, PairingAssumption DEF IInv, Store, Empty
<1>1. ASSUME NEW c \in Codes, PairInit(c) PROVE IInv'
  BY <1>0, <1>1, InitStep
<1>2. ASSUME NEW c \in Codes, Poll(c) PROVE IInv'
  <2> DEFINE m == [modals[c] EXCEPT !.inflight = @ \union {file[c].address}]
  <2>1. file[c] # None /\ file[c].status = "confirmed" /\ file[c].address # None /\ modals[c].pc = "polling"
    BY <1>2 DEF Poll, Adoptable
  <2>2. file[c].address \in Posts
    BY <1>0, <2>1 DEF TypeOK, Store, Record
  <2>3. m \in Modal /\ m.pc = "polling" /\ m.inflight = modals[c].inflight \union {file[c].address}
    BY <1>0, <2>1, <2>2 DEF TypeOK, Modal
  <2>4. PostedFor(c, file[c].address)
    <3>1. PICK p \in Posts : ConfirmedBy(p, c, file[c].address)
      BY <2>1 DEF IInv, FileBacked, Backed
    <3>2. posts[p].address = p
      BY <2>1, <3>1 DEF ConfirmedBy, IInv, OwnAddress
    <3> QED BY <3>1, <3>2 DEF PostedFor, ConfirmedBy
  <2>5. modals' = [modals EXCEPT ![c] = m] /\ UNCHANGED <<file, posts>>
    BY <1>2 DEF Poll
  <2> HIDE DEF m
  <2>6. \A a \in m.inflight : PostedFor(c, a)
    BY <2>3, <2>4 DEF IInv, BrowserBacked
  <2> QED BY <1>0, <2>1, <2>3, <2>5, <2>6, BrowserStep
<1>3. ASSUME NEW c \in Codes, Answer(c) PROVE IInv'
  <2>1. PICK a \in modals[c].inflight :
          modals' = [modals EXCEPT ![c] = [pc |-> "adopted", address |-> a, inflight |-> @.inflight \ {a}]]
    BY <1>3 DEF Answer
  <2> DEFINE m == [pc |-> "adopted", address |-> a, inflight |-> modals[c].inflight \ {a}]
  <2>2. m \in Modal /\ m.pc = "adopted" /\ m.address = a /\ m.inflight \subseteq modals[c].inflight
    BY <1>0 DEF TypeOK, Modal
  <2>3. modals' = [modals EXCEPT ![c] = m] /\ UNCHANGED <<file, posts>> /\ modals[c].pc # "none"
    BY <1>3, <2>1 DEF Answer
  <2> HIDE DEF m
  <2>4. PostedFor(c, m.address) /\ \A b \in m.inflight : PostedFor(c, b)
    BY <2>2 DEF IInv, BrowserBacked
  <2> QED BY <1>0, <2>2, <2>3, <2>4, BrowserStep
<1>4. ASSUME NEW c \in Codes, NEW pc \in {"connected", "closed"},
             modals' = [modals EXCEPT ![c] = [@ EXCEPT !.pc = pc, !.inflight = {}]],
             modals[c].pc \in {"polling", "adopted"}, pc = "connected" => modals[c].pc = "adopted",
             UNCHANGED <<file, posts>>
      PROVE  IInv'
  <2> DEFINE m == [modals[c] EXCEPT !.pc = pc, !.inflight = {}]
  <2>1. m \in Modal /\ m.pc = pc /\ m.address = modals[c].address /\ m.inflight = {}
    <3>1. modals[c] \in Modal /\ pc \in {"connected", "closed"}
      BY <1>0 DEF TypeOK
    <3>2. m.pc = pc /\ m.address = modals[c].address /\ m.inflight = {}
      BY <3>1 DEF Modal
    <3> QED BY <3>1, <3>2 DEF Modal
  <2>2. modals' = [modals EXCEPT ![c] = m]
    BY <1>4
  <2> HIDE DEF m
  <2>3. m.pc \in {"adopted", "connected"} => PostedFor(c, m.address)
    BY <1>4, <2>1 DEF IInv, BrowserBacked
  <2>4. modals[c].pc # "none" /\ m.pc # "none"
    BY <1>4, <2>1
  <2> QED BY <1>0, <1>4, <2>1, <2>2, <2>3, <2>4, BrowserStep
<1>5. ASSUME NEW c \in Codes, CleanUp(c) \/ CloseModal(c) PROVE IInv'
  BY <1>4, <1>5 DEF CleanUp, CloseModal
<1>6. ASSUME NEW p \in Posts, NEW c \in Codes, NEW address \in {p, None}, PostLoad(p, c, address) PROVE IInv'
  <2>1. PICK pc \in {"404", "410", "already", "waiting"}, copy \in {file, Empty} :
          /\ posts' = [posts EXCEPT ![p] = [pc |-> pc, code |-> c, address |-> address, copy |-> copy, at |-> now]]
          /\ pc = "waiting" => copy = file /\ file[c] # None /\ ~Expired(file[c]) /\ ~AlreadyConfirmed(file[c])
    BY <1>6 DEF PostLoad
  <2> DEFINE q == [pc |-> pc, code |-> c, address |-> address, copy |-> copy, at |-> now]
  <2>2. q \in Post /\ q.pc = pc /\ q.code = c /\ q.address = address /\ q.copy = copy /\ q.at = now
    BY <1>0 DEF TypeOK, Post
  <2>3. posts' = [posts EXCEPT ![p] = q]
    BY <2>1
  <2> HIDE DEF q
  <2>4. ASSUME pc = "waiting"
        PROVE  copy = file /\ file[c] # None /\ file[c].status = "pending" /\ now <= file[c].createdAt + TTL
    <3>1. copy = file /\ file[c] # None /\ ~Expired(file[c]) /\ ~AlreadyConfirmed(file[c])
      BY <2>1, <2>4
    <3>2. file[c].status \in {"pending", "confirmed"} /\ file[c].createdAt \in Nat /\ now \in Nat /\ TTL \in Nat
      BY <1>0, <3>1, PairingAssumption DEF TypeOK, Store, Record
    <3>3. now <= file[c].createdAt + TTL
      BY <3>1, <3>2 DEF Expired
    <3> QED BY <3>1, <3>2, <3>3 DEF AlreadyConfirmed
  <2>5. posts[p].pc = "idle" /\ UNCHANGED <<file, modals>>
    BY <1>6 DEF PostLoad
  <2> QED BY <1>0, <2>2, <2>3, <2>4, <2>5, PostStep
<1>7. ASSUME NEW p \in Posts, PostFails(p) PROVE IInv'
  <2> DEFINE q == [posts[p] EXCEPT !.pc = "500", !.copy = Empty]
  <2>1. q \in Post /\ q.pc = "500" /\ q.copy = Empty /\ q.address = posts[p].address
    <3>1. posts[p] \in Post
      BY <1>0 DEF TypeOK
    <3>2. q.pc = "500" /\ q.copy = Empty /\ q.address = posts[p].address
      BY <3>1 DEF Post
    <3> QED BY <1>0, <3>1, <3>2 DEF Post
  <2>2. posts' = [posts EXCEPT ![p] = q] /\ UNCHANGED <<file, modals>> /\ posts[p].pc = "waiting"
    BY <1>7 DEF PostFails
  <2>3. posts[p].address \in {p, None}
    BY DEF IInv, OwnAddress
  <2> HIDE DEF q
  <2> QED BY <1>0, <2>1, <2>2, <2>3, PostStep
<1>8. ASSUME NEW p \in Posts, PostSave(p) PROVE IInv'
  BY <1>0, <1>8, SaveStep
<1>9. CASE Tick \/ UNCHANGED vars
  <2>1. file' = file /\ posts' = posts /\ modals' = modals
    BY <1>9 DEF Tick, vars
  <2> QED BY <1>0, <2>1 DEF IInv, FileBacked, CopyBacked, OwnAddress, WaitingPost, BrowserBacked, Undrawn,
            Backed, Blank, PostedFor, ConfirmedBy, InTime
<1>10. CASE Crash \/ CrashInSave
  BY <1>0, <1>10, CrashStep DEF Crash, CrashInSave
<1> QED BY <1>1, <1>2, <1>3, <1>5, <1>6, <1>7, <1>8, <1>9, <1>10 DEF Next

\* What the routes and the browser rest on, in every reachable state.
THEOREM Invariance == Spec => []IInv
<1>1. Init => IInv
  <2> SUFFICES ASSUME Init PROVE IInv
    OBVIOUS
  <2>1. TypeOK
    BY PairingAssumption DEF Init, TypeOK, Store, Empty, Post, Modal
  <2>2. \A c \in Codes : Empty[c] = None
    BY DEF Empty
  <2>3. FileBacked /\ CopyBacked /\ OwnAddress /\ BrowserBacked /\ Undrawn
    BY <2>2 DEF Init, FileBacked, CopyBacked, OwnAddress, WaitingPost, BrowserBacked, Undrawn, Backed, Blank
  <2> QED BY <2>1, <2>3 DEF IInv
<1> QED BY <1>1, InvariantStep, PTL DEF Spec

\* Every variable keeps its type: the file and the server's copy of it, the posts
\* in progress, the browsers of the modal and the clock.
THEOREM TypeCorrect == Spec => []TypeOK
<1>1. IInv => TypeOK
  BY DEF IInv
<1> QED BY <1>1, Invariance, PTL

(***************************************************************************)
(* A confirmed record was confirmed by a wallet that found its code        *)
(* pending and in time, and holds that wallet's address.                   *)
(***************************************************************************)
THEOREM RecordsAreWallets == Spec => []ConfirmedByWallet
<1>1. IInv => ConfirmedByWallet
  BY DEF IInv, FileBacked, Backed, ConfirmedByWallet
<1> QED BY <1>1, Invariance, PTL

(***************************************************************************)
(* A browser connects only to an address that a wallet posted for its code.*)
(***************************************************************************)
THEOREM BrowsersAreWallets == Spec => []AdoptedFromWallet
<1>1. IInv => AdoptedFromWallet
  BY DEF IInv, BrowserBacked, PostedFor, AdoptedFromWallet
<1> QED BY <1>1, Invariance, PTL

-------------------------------------------------------------------------------
\* A step that takes no confirmation back, or is excused.
Stays(c) ==
  file[c] # None /\ file[c].status = "confirmed" =>
    file'[c] = file[c] \/ StaleSave(c) \/ crashes' # crashes

(***************************************************************************)
(* Only a post that loaded the store before a confirmation, or a crash,    *)
(* takes the confirmation back.                                            *)
(***************************************************************************)
THEOREM ConfirmationStays == Spec => ConfirmationsStay
<1>1. ASSUME IInv, Next, NEW c \in Codes PROVE Stays(c)
  <2>1. ASSUME NEW d \in Codes, PairInit(d) PROVE Stays(c)
    <3>1. file[d] = None /\ file' = [file EXCEPT ![d] = PendingRecord(now)]
      BY <1>1, <2>1 DEF PairInit, IInv, Undrawn
    <3> QED BY <1>1, <3>1 DEF Stays, IInv, TypeOK, Store
  <2>2. ASSUME NEW p \in Posts, PostSave(p) PROVE Stays(c)
    <3>1. posts[p].pc = "waiting" /\ posts'[p].pc = "confirmed"
      BY <1>1, <2>2 DEF PostSave, IInv, TypeOK, Post
    <3>2. CASE posts[p].copy[c] # file[c]
      BY <3>1, <3>2 DEF Stays, StaleSave
    <3>3. CASE posts[p].copy[c] = file[c]
      <4>1. CASE c = posts[p].code
        BY <1>1, <3>1, <3>3, <4>1 DEF Stays, IInv, OwnAddress, WaitingPost
      <4>2. CASE c # posts[p].code
        <5>1. posts[p].copy \in Store
          BY <1>1 DEF IInv, TypeOK, Post
        <5>2. file'[c] = posts[p].copy[c]
          BY <2>2, <4>2, <5>1 DEF PostSave, Store
        <5> QED BY <3>3, <5>2 DEF Stays
      <4> QED BY <4>1, <4>2
    <3> QED BY <3>2, <3>3
  <2>3. CASE Crash \/ CrashInSave
    <3>1. crashes' # crashes
      <4>1. crashes' = crashes + 1 /\ crashes \in 0..MaxCrashes
        BY <1>1, <2>3 DEF Crash, CrashInSave, Lose, IInv, TypeOK
      <4> QED BY <4>1, PairingAssumption
    <3> QED BY <3>1 DEF Stays
  <2>4. CASE file' = file
    BY <2>4 DEF Stays
  <2>5. ASSUME NEW d \in Codes, Poll(d) \/ Answer(d) \/ CleanUp(d) \/ CloseModal(d) PROVE file' = file
    BY <2>5 DEF Poll, Answer, CleanUp, CloseModal
  <2>6. ASSUME NEW p \in Posts, NEW d \in Codes, PostLoad(p, d, p) \/ PostLoad(p, d, None) PROVE file' = file
    BY <2>6 DEF PostLoad
  <2>7. ASSUME NEW p \in Posts, PostFails(p) PROVE file' = file
    BY <2>7 DEF PostFails
  <2>8. CASE Tick
    BY <2>4, <2>8 DEF Tick
  <2> QED BY <1>1, <2>1, <2>2, <2>3, <2>4, <2>5, <2>6, <2>7, <2>8 DEF Next
<1>2. IInv /\ [Next]_vars =>
        [\A c \in Codes :
           file[c] # None /\ file[c].status = "confirmed" =>
             \/ file'[c] = file[c]
             \/ StaleSave(c)
             \/ crashes' # crashes]_vars
  BY <1>1 DEF Stays
<1> QED BY <1>2, Invariance, PTL DEF Spec, ConfirmationsStay
================================================================================
