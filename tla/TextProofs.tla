----------------------------- MODULE TextProofs ------------------------------
(***************************************************************************)
(* Proofs about Texts.  Every address is read back from each of its texts; *)
(* its Bech32m text is refused with any character replaced, or with any    *)
(* two neighbours swapped, and its hexadecimal text with a digit missing   *)
(* or a letter in it.  Every balance of every token is read back by        *)
(* TypeScript, and by Python as far as a Decimal holds it, otherwise as    *)
(* one that no other is nearer to.                                         *)
(***************************************************************************)
EXTENDS Texts, TLAPS, FiniteSetTheorems, SequenceTheorems, WellFoundedInduction

-----------------------------------------------------------------------------
(* A set of natural numbers that is not empty has a least member.          *)
LEMMA LeastNatural ==
  ASSUME NEW S \in SUBSET Nat, S # {}
  PROVE  \E n \in S : \A m \in S : n <= m
<1> DEFINE Below(n) == 0 .. n - 1
           T == {Below(n) : n \in S}
           Ord == StrictSubsetOrdering(Nat)
<1>1. IsWellFoundedOn(Ord, FiniteSubsetsOf(Nat))
    BY FS_StrictSubsetOrderingWellFounded
<1>2. ASSUME NEW n \in Nat PROVE Below(n) \in FiniteSubsetsOf(Nat)
    BY FS_Interval DEF FiniteSubsetsOf
<1>3. T \subseteq FiniteSubsetsOf(Nat) /\ T # {}
    BY <1>2
<1>4. PICK x \in T : \A y \in T : <<y, x>> \notin Ord
  <2> HIDE DEF T, Ord
  <2> QED BY <1>1, <1>3, WFMin
<1>5. PICK n \in S : x = Below(n)
    BY <1>4
<1>6. ASSUME NEW m \in S, m < n PROVE FALSE
  <2>1. m \in Below(n) /\ m \notin Below(m) /\ Below(m) \subseteq Below(n)
      BY <1>6
  <2>2. <<Below(m), Below(n)>> \in Ord
      BY <1>2, <2>1 DEF StrictSubsetOrdering, FiniteSubsetsOf
  <2> QED BY <1>4, <1>5, <2>2
<1> QED BY <1>6

(* A number is its quotient times the divisor and the remainder.           *)
LEMMA Division ==
  ASSUME NEW n \in Nat, NEW d \in Nat \ {0}
  PROVE  n \div d \in Nat /\ n % d \in Nat /\ (n \div d) * d + (n % d) = n
<1>1. n \div d \in Nat
    OBVIOUS
<1>2. n % d \in Nat
    OBVIOUS
<1>3. (n \div d) * d + (n % d) = n
    OBVIOUS
<1> QED BY <1>1, <1>2, <1>3

-----------------------------------------------------------------------------
(* The checksum is of thirty places. A step moves it up by five, to make   *)
(* room for a value, and feeds back the five that are pushed out at its    *)
(* top.                                                                    *)
Register == SUBSET (0 .. 29)
Shifted(chk) == {b + 5 : b \in chk \intersect (0 .. 24)}
Top(chk) == {i \in 0 .. 4 : i + 25 \in chk}

(* What is of one but not of both.                                         *)
LEMMA XorMember ==
  ASSUME NEW a, NEW b, NEW x
  PROVE  x \in Xor(a, b) <=> (x \in a) # (x \in b)
BY DEF Xor

(* Xor stays within the places it is of.                                   *)
LEMMA XorWithin ==
  ASSUME NEW a, NEW b, NEW S, a \subseteq S, b \subseteq S
  PROVE  Xor(a, b) \subseteq S
BY DEF Xor

(* Xor with the same can be undone.                                        *)
LEMMA XorCancels ==
  ASSUME NEW a, NEW b, NEW c, Xor(a, b) = Xor(a, c)
  PROVE  b = c
BY DEF Xor

(* The order does not matter to it.                                        *)
LEMMA XorCommutes ==
  ASSUME NEW a, NEW b
  PROVE  Xor(a, b) = Xor(b, a)
BY DEF Xor

(* Xor twice with the same is nothing.                                     *)
LEMMA XorUndone ==
  ASSUME NEW a, NEW b
  PROVE  Xor(a, Xor(a, b)) = b
BY DEF Xor

(* A step in its three parts: polymod of the two Bech32m modules.          *)
LEMMA StepIs ==
  ASSUME NEW chk, NEW value
  PROVE  PolymodStep(chk, value) = Xor(Xor(Shifted(chk), value), Feedback(Top(chk)))
BY DEF PolymodStep, Shifted, Top

(* What is fed back has thirty places.                                     *)
LEMMA FeedbackSet ==
  ASSUME NEW top
  PROVE  Feedback(top) \subseteq 0 .. 29
BY DEF Feedback, Xor, Generator

(* A step leads from a checksum to a checksum.                             *)
LEMMA StepRegister ==
  ASSUME NEW chk, NEW value \in Quintet
  PROVE  PolymodStep(chk, value) \in Register
<1>1. Shifted(chk) \subseteq 0 .. 29 /\ value \subseteq 0 .. 29
    BY DEF Shifted, Quintet
<1>2. Feedback(Top(chk)) \subseteq 0 .. 29
    BY FeedbackSet
<1>3. PolymodStep(chk, value) \subseteq 0 .. 29
  <2>1. Xor(Shifted(chk), value) \subseteq 0 .. 29
      BY <1>1, XorWithin
  <2>2. Xor(Xor(Shifted(chk), value), Feedback(Top(chk))) \subseteq 0 .. 29
      BY <1>2, <2>1, XorWithin
  <2> QED BY <2>2, StepIs
<1> QED BY <1>3 DEF Register

(* The five lowest bits of what is fed back.                               *)
LEMMA FeedbackLow ==
  ASSUME NEW top
  PROVE  /\ 0 \in Feedback(top) <=> ((1 \in top) # ((3 \in top) # (4 \in top)))
         /\ 1 \in Feedback(top) <=> ((0 \in top) # ((2 \in top) # (4 \in top)))
         /\ 2 \in Feedback(top) <=> ((1 \in top) # (3 \in top))
         /\ 3 \in Feedback(top) <=> ((1 \in top) # ((2 \in top) # (3 \in top)))
         /\ 4 \in Feedback(top) <=> (((0 \in top) # (2 \in top)) # ((3 \in top) # (4 \in top)))
<1>1. 0 \in Feedback(top) <=> ((1 \in top) # ((3 \in top) # (4 \in top)))
    BY DEF Feedback, Xor, Generator
<1>2. 1 \in Feedback(top) <=> ((0 \in top) # ((2 \in top) # (4 \in top)))
    BY DEF Feedback, Xor, Generator
<1>3. 2 \in Feedback(top) <=> ((1 \in top) # (3 \in top))
    BY DEF Feedback, Xor, Generator
<1>4. 3 \in Feedback(top) <=> ((1 \in top) # ((2 \in top) # (3 \in top)))
    BY DEF Feedback, Xor, Generator
<1>5. 4 \in Feedback(top) <=> (((0 \in top) # (2 \in top)) # ((3 \in top) # (4 \in top)))
    BY DEF Feedback, Xor, Generator
<1> QED BY <1>1, <1>2, <1>3, <1>4, <1>5

(* They are enough to tell what was pushed out: the map of five bits to    *)
(* five bits has an inverse.                                               *)
LEMMA FeedbackTells ==
  ASSUME NEW s \in Quintet, NEW t \in Quintet,
         \A x \in 0 .. 4 : x \in Feedback(s) <=> x \in Feedback(t)
  PROVE  s = t
<1>1. \A i \in {0, 1, 2, 3, 4} : i \in s <=> i \in t
    BY FeedbackLow, 0 \in 0 .. 4, 1 \in 0 .. 4, 2 \in 0 .. 4, 3 \in 0 .. 4, 4 \in 0 .. 4
<1>2. 0 .. 4 = {0, 1, 2, 3, 4}
    OBVIOUS
<1>3. s \subseteq {0, 1, 2, 3, 4} /\ t \subseteq {0, 1, 2, 3, 4}
    BY <1>2 DEF Quintet
<1>4. s \subseteq t
    BY <1>1, <1>3
<1>5. t \subseteq s
    BY <1>1, <1>3
<1> QED BY <1>4, <1>5

(* The five lowest bits after a step are those of the value and of what is *)
(* fed back.                                                               *)
LEMMA StepLow ==
  ASSUME NEW chk, NEW value \in Quintet, NEW x \in 0 .. 4
  PROVE  x \in PolymodStep(chk, value) <=> (x \in value) # (x \in Feedback(Top(chk)))
<1>1. x \notin Shifted(chk)
    BY DEF Shifted
<1> QED BY <1>1, StepIs DEF Xor

(* A step with the same value keeps two checksums apart.                   *)
LEMMA StepInjective ==
  ASSUME NEW c \in Register, NEW d \in Register, NEW value \in Quintet,
         PolymodStep(c, value) = PolymodStep(d, value)
  PROVE  c = d
<1>1. Top(c) = Top(d)
  <2>1. Top(c) \in Quintet /\ Top(d) \in Quintet
      BY DEF Top, Quintet
  <2>2. \A x \in 0 .. 4 : x \in Feedback(Top(c)) <=> x \in Feedback(Top(d))
      BY StepLow
  <2> QED BY <2>1, <2>2, FeedbackTells
<1>2. Shifted(c) = Shifted(d)
  <2>1. Xor(Xor(Shifted(c), value), Feedback(Top(c))) = Xor(Xor(Shifted(d), value), Feedback(Top(c)))
      BY <1>1, StepIs
  <2>2. Xor(value, Shifted(c)) = Xor(value, Shifted(d))
      BY <2>1, XorCommutes, XorCancels
  <2> QED BY <2>2, XorCancels
<1>3. ASSUME NEW b \in 0 .. 24 PROVE b \in c <=> b \in d
  <2>1. b \in c <=> b + 5 \in Shifted(c)
      BY DEF Shifted
  <2>2. b \in d <=> b + 5 \in Shifted(d)
      BY DEF Shifted
  <2> QED BY <1>2, <2>1, <2>2
<1>4. ASSUME NEW b \in 25 .. 29 PROVE b \in c <=> b \in d
  <2>1. b - 25 \in 0 .. 4 /\ (b - 25) + 25 = b
      OBVIOUS
  <2> QED BY <1>1, <2>1 DEF Top
<1>5. 0 .. 29 = (0 .. 24) \union (25 .. 29)
    OBVIOUS
<1> QED BY <1>3, <1>4, <1>5 DEF Register

(* A step with two values takes a checksum apart.                          *)
LEMMA StepValue ==
  ASSUME NEW chk, NEW v, NEW w, v # w
  PROVE  PolymodStep(chk, v) # PolymodStep(chk, w)
<1>1. ASSUME PolymodStep(chk, v) = PolymodStep(chk, w) PROVE Xor(Shifted(chk), v) = Xor(Shifted(chk), w)
    BY <1>1, StepIs, XorCommutes, XorCancels
<1> QED BY <1>1, XorCancels

(* So do two steps with two values, in the two orders.                     *)
LEMMA StepSwap ==
  ASSUME NEW chk, NEW v \in Quintet, NEW w \in Quintet, v # w
  PROVE  PolymodStep(PolymodStep(chk, v), w) # PolymodStep(PolymodStep(chk, w), v)
<1>1. Top(PolymodStep(chk, v)) = Top(PolymodStep(chk, w))
  <2>1. ASSUME NEW i \in 0 .. 4
        PROVE  i + 25 \in PolymodStep(chk, v) <=> i + 25 \in PolymodStep(chk, w)
    <3>1. i + 25 \notin v /\ i + 25 \notin w
        BY DEF Quintet
    <3> QED BY <3>1, StepIs DEF Xor
  <2> QED BY <2>1 DEF Top
<1>2. PICK x \in 0 .. 4 : (x \in v) # (x \in w)
    BY DEF Quintet
<1> QED BY <1>1, <1>2, StepLow

-----------------------------------------------------------------------------
(* A checksum for each number of values that has been read.                *)
Follows(values, chk, n) ==
    chk = [i \in 0 .. n |-> IF i = 0 THEN {0} ELSE PolymodStep(chk[i - 1], values[i])]

(* It can be continued by a value.                                         *)
LEMMA FollowsExtends ==
  ASSUME NEW values, NEW n \in Nat, NEW c, Follows(values, c, n)
  PROVE  \E d : Follows(values, d, n + 1)
<1> DEFINE d == [i \in 0 .. n + 1 |->
                   IF i = n + 1 THEN PolymodStep(c[n], values[n + 1]) ELSE c[i]]
<1>1. \A i \in 0 .. n : c[i] = IF i = 0 THEN {0} ELSE PolymodStep(c[i - 1], values[i])
    BY DEF Follows
<1>2. \A i \in 0 .. n : d[i] = c[i]
    OBVIOUS
<1>3. d[n + 1] = PolymodStep(c[n], values[n + 1])
    OBVIOUS
<1>4. DOMAIN d = 0 .. n + 1 /\ d = [i \in 0 .. n + 1 |-> d[i]]
    OBVIOUS
<1> HIDE DEF d
<1>5. ASSUME NEW i \in 0 .. n + 1
      PROVE  d[i] = IF i = 0 THEN {0} ELSE PolymodStep(d[i - 1], values[i])
  <2>1. CASE i = n + 1
      BY <1>2, <1>3, <2>1
  <2>2. CASE i \in 0 .. n
    <3>1. i # 0 => i - 1 \in 0 .. n
        BY <2>2
    <3> QED BY <1>1, <1>2, <2>2, <3>1
  <2> QED BY <2>1, <2>2
<1>6. Follows(values, d, n + 1)
    BY <1>4, <1>5 DEF Follows
<1> QED BY <1>6

(* Checksums is defined by such a function, and there is one.              *)
LEMMA ChecksumsFollow ==
  ASSUME NEW values, Len(values) \in Nat
  PROVE  Follows(values, Checksums(values), Len(values))
<1> DEFINE Without == {n \in Nat : ~\E c : Follows(values, c, n)}
<1>1. Without = {}
  <2> SUFFICES ASSUME Without # {} PROVE FALSE
      OBVIOUS
  <2>1. PICK n \in Without : \A m \in Without : n <= m
    <3>1. Without \in SUBSET Nat
        OBVIOUS
    <3> HIDE DEF Without
    <3> QED BY <3>1, LeastNatural
  <2>2. Follows(values, [i \in 0 .. 0 |-> {0}], 0)
      BY DEF Follows
  <2>3. n # 0
      BY <2>2
  <2>4. n - 1 \in Nat /\ n - 1 \notin Without /\ (n - 1) + 1 = n
      BY <2>1, <2>3
  <2>5. \E c : Follows(values, c, n)
      BY <2>4, FollowsExtends
  <2> QED BY <2>5
<1>2. \E c : Follows(values, c, Len(values))
    BY <1>1
<1>3. Checksums(values) = CHOOSE c : Follows(values, c, Len(values))
    BY DEF Checksums, Follows
<1> QED BY <1>2, <1>3

(* What Checksums computes, value after value.                             *)
LEMMA ChecksumsAre ==
  ASSUME NEW values \in Seq(Quintet)
  PROVE  /\ Checksums(values)[0] = {0}
         /\ \A i \in 1 .. Len(values) :
              Checksums(values)[i] = PolymodStep(Checksums(values)[i - 1], values[i])
         /\ \A i \in 0 .. Len(values) : Checksums(values)[i] \in Register
<1> DEFINE c == Checksums(values)
<1>1. Len(values) \in Nat /\ \A i \in 1 .. Len(values) : values[i] \in Quintet
    OBVIOUS
<1>2. Follows(values, c, Len(values))
    BY <1>1, ChecksumsFollow
<1> HIDE DEF c
<1>3. \A i \in 0 .. Len(values) :
        c[i] = IF i = 0 THEN {0} ELSE PolymodStep(c[i - 1], values[i])
    BY <1>2 DEF Follows
<1>4. c[0] = {0}
    BY <1>1, <1>3
<1>5. \A i \in 1 .. Len(values) : c[i] = PolymodStep(c[i - 1], values[i])
    BY <1>1, <1>3
<1>6. ASSUME NEW i \in 0 .. Len(values) PROVE c[i] \in Register
  <2>1. CASE i = 0
    <3>1. {0} \subseteq 0 .. 29
        OBVIOUS
    <3> QED BY <1>4, <2>1, <3>1 DEF Register
  <2>2. CASE i \in 1 .. Len(values)
      BY <1>1, <1>5, <2>2, StepRegister
  <2> QED BY <2>1, <2>2
<1> QED BY <1>4, <1>5, <1>6 DEF c

(* Values that are the same from some place on keep checksums apart.       *)
LEMMA StaysApart ==
  ASSUME NEW v \in Seq(Quintet), NEW w \in Seq(Quintet), Len(v) = Len(w),
         NEW k \in 0 .. Len(v), Checksums(v)[k] # Checksums(w)[k],
         \A i \in k + 1 .. Len(v) : v[i] = w[i]
  PROVE  Polymod(v) # Polymod(w)
<1> DEFINE Same == {i \in k .. Len(v) : Checksums(v)[i] = Checksums(w)[i]}
<1>0. Len(v) \in Nat
    OBVIOUS
<1>1. Same = {}
  <2> SUFFICES ASSUME Same # {} PROVE FALSE
      OBVIOUS
  <2>1. PICK i \in Same : \A j \in Same : i <= j
    <3>1. Same \in SUBSET Nat
        BY <1>0
    <3> HIDE DEF Same
    <3> QED BY <3>1, LeastNatural
  <2>2. i \in k + 1 .. Len(v) /\ i - 1 \in k .. Len(v) /\ i \in 1 .. Len(v) /\ i - 1 \in 0 .. Len(v)
      BY <1>0
  <2>3. Checksums(v)[i] = Checksums(w)[i] /\ Checksums(v)[i - 1] # Checksums(w)[i - 1]
      BY <2>1, <2>2
  <2>4. /\ Checksums(v)[i] = PolymodStep(Checksums(v)[i - 1], v[i])
        /\ Checksums(w)[i] = PolymodStep(Checksums(w)[i - 1], v[i])
        /\ Checksums(v)[i - 1] \in Register /\ Checksums(w)[i - 1] \in Register
        /\ v[i] \in Quintet
      BY <2>2, ChecksumsAre
  <2> QED BY <2>3, <2>4, StepInjective
<1> QED BY <1>0, <1>1 DEF Polymod

(* The same values lead to the same checksums.                             *)
LEMMA SamePrefix ==
  ASSUME NEW v \in Seq(Quintet), NEW w \in Seq(Quintet),
         NEW k \in Nat, k <= Len(v), k <= Len(w), \A i \in 1 .. k : v[i] = w[i]
  PROVE  Checksums(v)[k] = Checksums(w)[k]
<1> DEFINE Apart == {i \in 0 .. k : Checksums(v)[i] # Checksums(w)[i]}
<1>1. Apart = {}
  <2> SUFFICES ASSUME Apart # {} PROVE FALSE
      OBVIOUS
  <2>1. PICK i \in Apart : \A j \in Apart : i <= j
    <3>1. Apart \in SUBSET Nat
        OBVIOUS
    <3> HIDE DEF Apart
    <3> QED BY <3>1, LeastNatural
  <2>2. i # 0
      BY ChecksumsAre
  <2>3. i \in 1 .. k /\ i - 1 \in 0 .. k /\ i \in 1 .. Len(v) /\ i \in 1 .. Len(w)
      BY <2>2
  <2>4. Checksums(v)[i - 1] = Checksums(w)[i - 1]
      BY <2>1, <2>3
  <2>5. /\ Checksums(v)[i] = PolymodStep(Checksums(v)[i - 1], v[i])
        /\ Checksums(w)[i] = PolymodStep(Checksums(w)[i - 1], w[i])
      BY <2>3, ChecksumsAre
  <2> QED BY <2>3, <2>4, <2>5
<1> QED BY <1>1

(* One value in place of another is seen by the checksum.                  *)
LEMMA ReplacedApart ==
  ASSUME NEW v \in Seq(Quintet), NEW k \in 1 .. Len(v), NEW c \in Quintet, c # v[k]
  PROVE  Polymod([v EXCEPT ![k] = c]) # Polymod(v)
<1> DEFINE w == [v EXCEPT ![k] = c]
<1>1. w \in Seq(Quintet) /\ Len(w) = Len(v) /\ \A i \in 1 .. Len(v) : w[i] = IF i = k THEN c ELSE v[i]
    BY ExceptSeq
<1> HIDE DEF w
<1>2. Checksums(w)[k - 1] = Checksums(v)[k - 1]
  <2>1. k - 1 \in Nat /\ k - 1 <= Len(v) /\ \A i \in 1 .. k - 1 : i \in 1 .. Len(v) /\ i # k
      OBVIOUS
  <2> QED BY <1>1, <2>1, SamePrefix
<1>3. Checksums(w)[k] # Checksums(v)[k]
  <2>1. Checksums(w)[k] = PolymodStep(Checksums(w)[k - 1], c)
      BY <1>1, ChecksumsAre
  <2>2. Checksums(v)[k] = PolymodStep(Checksums(v)[k - 1], v[k])
      BY ChecksumsAre
  <2> QED BY <1>2, <2>1, <2>2, StepValue
<1>4. k \in 0 .. Len(w) /\ \A i \in k + 1 .. Len(w) : w[i] = v[i]
    BY <1>1
<1> QED BY <1>1, <1>3, <1>4, StaysApart DEF w

(* And so are two neighbours that changed places.                          *)
LEMMA SwappedApart ==
  ASSUME NEW v \in Seq(Quintet), NEW k \in 1 .. Len(v), k + 1 \in 1 .. Len(v), v[k] # v[k + 1]
  PROVE  Polymod([v EXCEPT ![k] = v[k + 1], ![k + 1] = v[k]]) # Polymod(v)
<1> DEFINE w == [v EXCEPT ![k] = v[k + 1], ![k + 1] = v[k]]
<1>1. /\ w \in Seq(Quintet) /\ Len(w) = Len(v)
      /\ \A i \in 1 .. Len(v) : w[i] = IF i = k THEN v[k + 1] ELSE IF i = k + 1 THEN v[k] ELSE v[i]
    OBVIOUS
<1> HIDE DEF w
<1>2. Checksums(w)[k - 1] = Checksums(v)[k - 1]
  <2>1. k - 1 \in Nat /\ k - 1 <= Len(v) /\ \A i \in 1 .. k - 1 : i \in 1 .. Len(v) /\ i # k /\ i # k + 1
      OBVIOUS
  <2> QED BY <1>1, <2>1, SamePrefix
<1>3. Checksums(w)[k + 1] # Checksums(v)[k + 1]
  <2> DEFINE c == Checksums(v)[k - 1]
  <2>1. Checksums(w)[k] = PolymodStep(c, v[k + 1]) /\ Checksums(v)[k] = PolymodStep(c, v[k])
      BY <1>1, <1>2, ChecksumsAre
  <2>2. (k + 1) - 1 = k
      OBVIOUS
  <2>3. /\ Checksums(w)[k + 1] = PolymodStep(Checksums(w)[k], v[k])
        /\ Checksums(v)[k + 1] = PolymodStep(Checksums(v)[k], v[k + 1])
      BY <1>1, <2>2, ChecksumsAre
  <2>4. v[k] \in Quintet /\ v[k + 1] \in Quintet
      OBVIOUS
  <2> QED BY <2>1, <2>3, <2>4, StepSwap
<1>4. k + 1 \in 0 .. Len(w) /\ \A i \in (k + 1) + 1 .. Len(w) : w[i] = v[i]
    BY <1>1
<1> QED BY <1>1, <1>3, <1>4, StaysApart DEF w

-----------------------------------------------------------------------------
(* Where the values of two sequences are once they are joined.             *)
LEMMA Joins ==
  ASSUME NEW s \in Seq(Quintet), NEW t \in Seq(Quintet)
  PROVE  /\ s \o t \in Seq(Quintet) /\ Len(s) \in Nat /\ Len(t) \in Nat /\ Len(s \o t) = Len(s) + Len(t)
         /\ \A i \in 1 .. Len(s) : (s \o t)[i] = s[i]
         /\ \A i \in 1 .. Len(t) : (s \o t)[Len(s) + i] = t[i]
OBVIOUS

(* It does not matter which of three are joined first.                     *)
LEMMA JoinsThree ==
  ASSUME NEW s \in Seq(Quintet), NEW t \in Seq(Quintet), NEW u \in Seq(Quintet)
  PROVE  s \o (t \o u) = (s \o t) \o u
BY ConcatAssociative

(* The expanded prefix is of values of five bits, whatever it is.          *)
LEMMA HrpQuintets ==
  ASSUME NEW S, NEW hrp \in Seq(S)
  PROVE  HrpExpand(hrp) \in Seq(Quintet) /\ Len(HrpExpand(hrp)) = 2 * Len(hrp) + 1
<1> DEFINE E(i) == IF i <= Len(hrp) THEN {b - 5 : b \in hrp[i] \intersect (5 .. 7)}
                   ELSE IF i = Len(hrp) + 1 THEN {}
                   ELSE hrp[i - Len(hrp) - 1] \intersect (0 .. 4)
<1>1. Len(hrp) \in Nat
    OBVIOUS
<1>2. \A i : E(i) \in Quintet
    BY DEF Quintet
<1>3. HrpExpand(hrp) = [i \in 1 .. 2 * Len(hrp) + 1 |-> E(i)]
    BY DEF HrpExpand
<1> HIDE DEF E
<1> QED BY <1>1, <1>2, <1>3

(* The places of what a step moves up.                                     *)
LEMMA ShiftedMember ==
  ASSUME NEW d \in SUBSET (0 .. 24), NEW x
  PROVE  x \in Shifted(d) <=> x \in Int /\ x - 5 \in d
<1>1. ASSUME x \in Shifted(d) PROVE x \in Int /\ x - 5 \in d
  <2>1. PICK b \in d \intersect (0 .. 24) : x = b + 5
      BY <1>1 DEF Shifted
  <2>2. x \in Int /\ x - 5 = b
      BY <2>1
  <2> QED BY <2>2
<1>2. ASSUME x \in Int, x - 5 \in d PROVE x \in Shifted(d)
  <2>1. x - 5 \in 0 .. 24 /\ x = (x - 5) + 5
      BY <1>2
  <2> QED BY <1>2, <2>1 DEF Shifted
<1> QED BY <1>1, <1>2

(* What is added to a checksum, and not pushed out, is moved up by a step. *)
LEMMA StepXor ==
  ASSUME NEW chk, NEW d \in SUBSET (0 .. 24), NEW value
  PROVE  PolymodStep(Xor(chk, d), value) = Xor(PolymodStep(chk, {}), Xor(Shifted(d), value))
<1>1. Top(Xor(chk, d)) = Top(chk)
    BY DEF Top, Xor
<1>2. Shifted(Xor(chk, d)) = Xor(Shifted(chk), Shifted(d))
  <2>1. ASSUME NEW x PROVE x \in Shifted(Xor(chk, d)) <=> x \in Xor(Shifted(chk), Shifted(d))
    <3>1. ASSUME NEW S PROVE x \in Shifted(S) <=> x - 5 \in S /\ x - 5 \in 0 .. 24 /\ x \in Int
        BY DEF Shifted
    <3>2. x - 5 \in Xor(chk, d) <=> (x - 5 \in chk) # (x - 5 \in d)
        BY XorMember
    <3> QED BY <3>1, <3>2, XorMember
  <2> QED BY <2>1
<1>3. \A s, t, f : Xor(Xor(Xor(s, t), value), f) = Xor(Xor(Xor(s, {}), f), Xor(t, value))
    BY DEF Xor
<1> QED BY <1>1, <1>2, <1>3, StepIs

(* What CreateChecksum appends makes a text that VerifyChecksum accepts:   *)
(* six steps over zeros leave thirty bits, and the six values that are     *)
(* appended add them up to the constant.                                   *)
LEMMA ChecksumVerifies ==
  ASSUME NEW S, NEW hrp \in Seq(S), NEW data \in Seq(Quintet)
  PROVE  /\ CreateChecksum(hrp, data) \in Seq(Quintet)
         /\ Len(CreateChecksum(hrp, data)) = 6
         /\ VerifyChecksum(hrp, data \o CreateChecksum(hrp, data))
<1> DEFINE h == HrpExpand(hrp) \o data
           n == Len(h)
           zeros == [i \in 1 .. 6 |-> {}]
           z == h \o zeros
           p == Xor(Polymod(z), BECH32M_CONST)
           cs == [i \in 1 .. 6 |-> {b \in 0 .. 4 : b + 5 * (6 - i) \in p}]
           v == h \o cs
           Carried(k) == {b \in 0 .. 5 * k - 1 : b + 5 * (6 - k) \in p}
           P(k) == Checksums(v)[n + k] = Xor(Checksums(z)[n + k], Carried(k))
<1>1. CreateChecksum(hrp, data) = cs
    BY DEF CreateChecksum
<1>2. cs \in Seq(Quintet) /\ Len(cs) = 6
    BY DEF Quintet
<1>3. h \in Seq(Quintet) /\ HrpExpand(hrp) \o (data \o cs) = v
  <2> DEFINE e == HrpExpand(hrp)
  <2>1. e \in Seq(Quintet)
      BY HrpQuintets
  <2> HIDE DEF cs, e
  <2>2. e \o data \in Seq(Quintet)
      BY <2>1, Joins
  <2>3. e \o (data \o cs) = (e \o data) \o cs
      BY <1>2, <2>1, JoinsThree
  <2> QED BY <2>2, <2>3 DEF e
<1>4. zeros \in Seq(Quintet) /\ Len(zeros) = 6
    BY DEF Quintet
<1>5. /\ z \in Seq(Quintet) /\ v \in Seq(Quintet) /\ Len(z) = n + 6 /\ Len(v) = n + 6 /\ n \in Nat
      /\ \A i \in 1 .. n : z[i] = h[i] /\ v[i] = h[i]
      /\ \A k \in 1 .. 6 : z[n + k] = {} /\ v[n + k] = cs[k]
  <2>1. \A k \in 1 .. 6 : zeros[k] = {}
      OBVIOUS
  <2>2. h \in Seq(Quintet)
      BY <1>3
  <2> HIDE DEF h, cs, zeros
  <2>3. h \o zeros \in Seq(Quintet) /\ Len(h) \in Nat /\ Len(h \o zeros) = Len(h) + Len(zeros)
      BY <1>4, <2>2, Joins
  <2>4. \A i \in 1 .. Len(h) : (h \o zeros)[i] = h[i]
      BY <1>4, <2>2, Joins
  <2>5. \A k \in 1 .. Len(zeros) : (h \o zeros)[Len(h) + k] = zeros[k]
      BY <1>4, <2>2, Joins
  <2>6. h \o cs \in Seq(Quintet) /\ Len(h \o cs) = Len(h) + Len(cs)
      BY <1>2, <2>2, Joins
  <2>7. \A i \in 1 .. Len(h) : (h \o cs)[i] = h[i]
      BY <1>2, <2>2, Joins
  <2>8. \A k \in 1 .. Len(cs) : (h \o cs)[Len(h) + k] = cs[k]
      BY <1>2, <2>2, Joins
  <2> HIDE DEF z, v
  <2>9. z = h \o zeros /\ v = h \o cs
      BY DEF z, v
  <2> QED BY <1>2, <1>4, <2>1, <2>3, <2>4, <2>5, <2>6, <2>7, <2>8, <2>9
<1>6. p \in Register
  <2>1. Polymod(z) \in Register
    <3> HIDE DEF z
    <3> QED BY <1>5, ChecksumsAre DEF Polymod
  <2>2. BECH32M_CONST \subseteq 0 .. 29
      BY DEF BECH32M_CONST
  <2> HIDE DEF z
  <2> QED BY <2>1, <2>2 DEF Register, Xor
<1> HIDE DEF h, z, v, p, zeros
<1>7. P(0)
  <2>1. Carried(0) = {}
      OBVIOUS
  <2>2. Checksums(v)[n] = Checksums(z)[n]
      BY <1>5, SamePrefix
  <2> HIDE DEF Carried
  <2> QED BY <1>5, <2>1, <2>2 DEF Xor
<1>8. ASSUME NEW k \in 0 .. 5, P(k) PROVE P(k + 1)
  <2>1. /\ Checksums(v)[n + (k + 1)] = PolymodStep(Checksums(v)[n + k], v[n + (k + 1)])
        /\ Checksums(z)[n + (k + 1)] = PolymodStep(Checksums(z)[n + k], z[n + (k + 1)])
    <3>1. n + (k + 1) \in 1 .. n + 6 /\ (n + (k + 1)) - 1 = n + k
        BY <1>5
    <3>2. v \in Seq(Quintet) /\ z \in Seq(Quintet) /\ Len(v) = n + 6 /\ Len(z) = n + 6
        BY <1>5
    <3>3. ASSUME NEW q \in Seq(Quintet), Len(q) = n + 6
          PROVE  Checksums(q)[n + (k + 1)] = PolymodStep(Checksums(q)[n + k], q[n + (k + 1)])
      <4>1. \A i \in 1 .. n + 6 : Checksums(q)[i] = PolymodStep(Checksums(q)[i - 1], q[i])
          BY <3>3, ChecksumsAre
      <4>2. Checksums(q)[n + (k + 1)]
              = PolymodStep(Checksums(q)[(n + (k + 1)) - 1], q[n + (k + 1)])
          BY <3>1, <4>1
      <4> QED BY <3>1, <4>2
    <3> HIDE DEF n, cs, Carried, P
    <3> QED BY <3>2, <3>3
  <2>2. v[n + (k + 1)] = cs[k + 1] /\ z[n + (k + 1)] = {}
    <3>1. k + 1 \in 1 .. 6
        OBVIOUS
    <3> HIDE DEF cs
    <3> QED BY <1>5, <3>1
  <2>3. Carried(k) \in SUBSET (0 .. 24)
    <3>1. \A b \in 0 .. 5 * k - 1 : b \in 0 .. 24
        OBVIOUS
    <3> QED BY <3>1
  <2>4. Xor(Shifted(Carried(k)), cs[k + 1]) = Carried(k + 1)
    <3>1. ASSUME NEW x PROVE x \in Shifted(Carried(k)) <=> x \in 5 .. 5 * (k + 1) - 1 /\ x + 5 * (6 - (k + 1)) \in p
      <4>1. x \in Int => ((x - 5) + 5 * (6 - k) = x + 5 * (6 - (k + 1)))
          OBVIOUS
      <4>2. x \in Shifted(Carried(k)) <=> x \in Int /\ x - 5 \in Carried(k)
        <5> HIDE DEF Carried
        <5> QED BY <2>3, ShiftedMember
      <4>3. x \in Int => (x - 5 \in 0 .. 5 * k - 1 <=> x \in 5 .. 5 * (k + 1) - 1)
          OBVIOUS
      <4>4. x \in 5 .. 5 * (k + 1) - 1 => x \in Int
          OBVIOUS
      <4>5. x - 5 \in Carried(k) <=> x - 5 \in 0 .. 5 * k - 1 /\ (x - 5) + 5 * (6 - k) \in p
          OBVIOUS
      <4> HIDE DEF Carried
      <4> QED BY <4>1, <4>2, <4>3, <4>4, <4>5
    <3>2. cs[k + 1] = {b \in 0 .. 4 : b + 5 * (6 - (k + 1)) \in p}
        OBVIOUS
    <3>3. ASSUME NEW x PROVE x \in Carried(k + 1) <=> x \in 0 .. 5 * (k + 1) - 1 /\ x + 5 * (6 - (k + 1)) \in p
        OBVIOUS
    <3>4. \A x : x \in 0 .. 5 * (k + 1) - 1 <=> (x \in 0 .. 4 \/ x \in 5 .. 5 * (k + 1) - 1)
        OBVIOUS
    <3>5. \A x : ~(x \in 0 .. 4 /\ x \in 5 .. 5 * (k + 1) - 1)
        OBVIOUS
    <3> HIDE DEF cs, Carried
    <3>6. ASSUME NEW x PROVE x \in Xor(Shifted(Carried(k)), cs[k + 1]) <=> x \in Carried(k + 1)
        BY <3>1, <3>2, <3>3, <3>4, <3>5, XorMember
    <3> QED BY <3>6
  <2> HIDE DEF Carried, cs
  <2>5. PolymodStep(Xor(Checksums(z)[n + k], Carried(k)), cs[k + 1])
           = Xor(PolymodStep(Checksums(z)[n + k], {}), Xor(Shifted(Carried(k)), cs[k + 1]))
      BY <2>3, StepXor
  <2> QED BY <1>8, <2>1, <2>2, <2>4, <2>5
<1>9. P(6)
  <2>1. P(0 + 1)
      BY <1>7, <1>8
  <2>2. P(1 + 1)
      BY <1>8, <2>1
  <2>3. P(2 + 1)
      BY <1>8, <2>2
  <2>4. P(3 + 1)
      BY <1>8, <2>3
  <2>5. P(4 + 1)
      BY <1>8, <2>4
  <2>6. P(5 + 1)
      BY <1>8, <2>5
  <2> QED BY <2>6
<1>10. Carried(6) = p
  <2>1. \A b \in 0 .. 29 : b \in 0 .. 5 * 6 - 1 /\ b + 5 * (6 - 6) = b
      OBVIOUS
  <2>2. \A b : b \in Carried(6) => b \in p
      OBVIOUS
  <2>3. \A b \in p : b \in Carried(6)
      BY <1>6, <2>1 DEF Register
  <2> HIDE DEF Carried
  <2> QED BY <2>2, <2>3
<1>11. Polymod(v) = Xor(Polymod(z), Xor(Polymod(z), BECH32M_CONST))
  <2> HIDE DEF Carried
  <2> QED BY <1>5, <1>9, <1>10 DEF Polymod, p
<1>12. VerifyChecksum(hrp, data \o cs)
  <2> HIDE DEF cs
  <2> QED BY <1>3, <1>11, XorUndone DEF VerifyChecksum
<1> HIDE DEF cs
<1> QED BY <1>1, <1>2, <1>12

-----------------------------------------------------------------------------
(* The ones of data as bits of one long number, counted from its end.      *)
Ones(data, frombits) == UNION {{frombits * i - 1 - b : b \in data[i]} : i \in DOMAIN data}

(* An address is a sequence of bytes.                                      *)
LEMMA AddressSeq ==
  ASSUME NEW address \in [1 .. AddressBytes -> Byte]
  PROVE  address \in Seq(Byte) /\ Len(address) = AddressBytes /\ DOMAIN address = 1 .. AddressBytes
BY AddressBytesAssumption

(* The words of an address, and the bytes of those words.                  *)
LEMMA BytesComeBack ==
  ASSUME NEW address \in [1 .. AddressBytes -> Byte]
  PROVE  LET words == ConvertBits(address, 8, 5, TRUE).data
         IN /\ words \in Seq(Quintet)
            /\ ConvertBits(words, 5, 8, FALSE) = [ok |-> TRUE, data |-> address]
<1> DEFINE words == ConvertBits(address, 8, 5, TRUE).data
           N == AddressBytes
           W == (8 * N + 4) \div 5
           ones == Ones(address, 8)
           back == Ones(words, 5)
<1>1. N \in Nat /\ W \in Nat /\ 8 * N <= 5 * W /\ 5 * W <= 8 * N + 4
    BY AddressBytesAssumption
<1>2. /\ Len(address) = N /\ DOMAIN address = 1 .. N
      /\ \A i \in 1 .. N : address[i] \subseteq 0 .. 7
    BY AddressSeq DEF Byte
<1>3. words = [k \in 1 .. W |-> {b \in 0 .. 4 : 5 * k - 1 - b \in ones}]
  <2>1. 8 * N + 5 - 1 = 8 * N + 4
      BY <1>1
  <2> HIDE DEF N
  <2> QED BY <1>2, <2>1 DEF ConvertBits, Ones
<1>4. words \in Seq(Quintet) /\ Len(words) = W /\ DOMAIN words = 1 .. W
  <2>1. \A k \in 1 .. W : {b \in 0 .. 4 : 5 * k - 1 - b \in ones} \in Quintet
      BY DEF Quintet
  <2>2. words \in [1 .. W -> Quintet]
    <3> HIDE DEF words, ones, W
    <3> QED BY <1>3, <2>1
  <2> HIDE DEF words, ones, W, N
  <2> QED BY <1>1, <2>2
<1> HIDE DEF words, W
<1>5. ASSUME NEW p PROVE p \in ones <=> \E i \in 1 .. N : \E b \in address[i] : p = 8 * i - 1 - b
    BY <1>2 DEF Ones
<1>6. ASSUME NEW p PROVE p \in back <=> \E k \in 1 .. W : \E b \in words[k] : p = 5 * k - 1 - b
    BY <1>4 DEF Ones
<1> HIDE DEF ones, back
<1>7. ones \subseteq 0 .. 8 * N - 1
  <2> SUFFICES ASSUME NEW p \in ones PROVE p \in 0 .. 8 * N - 1
      OBVIOUS
  <2>1. PICK i \in 1 .. N : \E b \in address[i] : p = 8 * i - 1 - b
      BY <1>5
  <2>2. PICK b \in address[i] : p = 8 * i - 1 - b
      BY <2>1
  <2>3. b \in 0 .. 7
      BY <1>2, <2>2
  <2> QED BY <1>1, <2>2, <2>3
<1>8. ASSUME NEW k \in 1 .. W, NEW b PROVE b \in words[k] <=> b \in 0 .. 4 /\ 5 * k - 1 - b \in ones
    BY <1>3
<1>9. back = ones
  <2>1. ASSUME NEW p \in back PROVE p \in ones
    <3>1. PICK k \in 1 .. W : \E b \in words[k] : p = 5 * k - 1 - b
        BY <1>6
    <3>2. PICK b \in words[k] : p = 5 * k - 1 - b
        BY <3>1
    <3> QED BY <1>8, <3>2
  <2>2. ASSUME NEW p \in ones PROVE p \in back
    <3> DEFINE k == p \div 5 + 1
               b == 4 - (p % 5)
    <3>1. p \in 0 .. 8 * N - 1
        BY <1>7
    <3>2. k \in 1 .. W /\ b \in 0 .. 4 /\ p = 5 * k - 1 - b
        BY <1>1, <3>1
    <3> HIDE DEF k, b
    <3>3. b \in words[k]
        BY <1>8, <3>2
    <3> QED BY <1>6, <3>2, <3>3
  <2> QED BY <2>1, <2>2
<1>10. (5 * W) \div 8 = N /\ (5 * W) % 8 < 5 /\ \A p \in ones : ~(p >= 8 * N)
  <2>1. (5 * W) \div 8 = N /\ (5 * W) % 8 < 5
      BY <1>1
  <2>2. \A p \in ones : ~(p >= 8 * N)
      BY <1>1, <1>7
  <2> QED BY <2>1, <2>2
<1>11. ConvertBits(words, 5, 8, FALSE)
         = [ok |-> TRUE, data |-> [k \in 1 .. N |-> {b \in 0 .. 7 : 8 * k - 1 - b \in ones}]]
  <2>1. Ones(words, 5) = ones
      BY <1>9 DEF back
  <2>2. ~((5 * W) % 8 >= 5)
      BY <1>1, <1>10
  <2>3. 8 - 1 = 7
      OBVIOUS
  <2> HIDE DEF N
  <2> QED BY <1>4, <1>10, <2>1, <2>2, <2>3 DEF ConvertBits, Ones
<1>12. ASSUME NEW k \in 1 .. N PROVE {b \in 0 .. 7 : 8 * k - 1 - b \in ones} = address[k]
  <2>1. ASSUME NEW b \in address[k] PROVE b \in 0 .. 7 /\ 8 * k - 1 - b \in ones
      BY <1>2, <1>5
  <2>2. ASSUME NEW b \in 0 .. 7, 8 * k - 1 - b \in ones PROVE b \in address[k]
    <3>1. PICK i \in 1 .. N : \E c \in address[i] : 8 * k - 1 - b = 8 * i - 1 - c
        BY <1>5, <2>2
    <3>2. PICK c \in address[i] : 8 * k - 1 - b = 8 * i - 1 - c
        BY <3>1
    <3>3. c \in 0 .. 7
        BY <1>2, <3>2
    <3>4. i = k /\ c = b
        BY <1>1, <3>2, <3>3
    <3> QED BY <3>2, <3>4
  <2> QED BY <2>1, <2>2
<1>13. [k \in 1 .. N |-> {b \in 0 .. 7 : 8 * k - 1 - b \in ones}] = address
    BY <1>2, <1>12
<1> QED BY <1>4, <1>11, <1>13 DEF words

(* The prefix of the chain has three characters.                           *)
LEMMA PrefixIs == PREFIX \in Seq(Byte) /\ Len(PREFIX) = 3 /\ DOMAIN PREFIX = 1 .. 3
BY DEF PREFIX, Byte

(* What ToBech32 writes.                                                   *)
LEMMA TextIs ==
  ASSUME NEW address \in [1 .. AddressBytes -> Byte]
  PROVE  LET text  == ToBech32(address)
             words == ConvertBits(address, 8, 5, TRUE).data
         IN /\ text = [hrp |-> PREFIX, data |-> text.data]
            /\ text.data \in Seq(Quintet) /\ Len(text.data) = Len(words) + 6
            /\ VerifyChecksum(PREFIX, text.data)
            /\ SubSeq(text.data, 1, Len(text.data) - 6) = words
<1> DEFINE words == ConvertBits(address, 8, 5, TRUE).data
           cs == CreateChecksum(PREFIX, words)
<1>1. words \in Seq(Quintet)
    BY BytesComeBack
<1>2. ToBech32(address) = [hrp |-> PREFIX, data |-> words \o cs]
    BY DEF ToBech32, Encode
<1> HIDE DEF words
<1>3. cs \in Seq(Quintet) /\ Len(cs) = 6 /\ VerifyChecksum(PREFIX, words \o cs)
    BY <1>1, PrefixIs, ChecksumVerifies
<1> HIDE DEF cs
<1>4. /\ words \o cs \in Seq(Quintet) /\ Len(words \o cs) = Len(words) + Len(cs) /\ Len(words) \in Nat
      /\ \A i \in 1 .. Len(words) : (words \o cs)[i] = words[i]
    BY <1>1, <1>3, Joins
<1>5. SubSeq(words \o cs, 1, Len(words)) = words
    BY <1>1, <1>4
<1>6. Len(words \o cs) - 6 = Len(words)
    BY <1>3, <1>4
<1> HIDE DEF words
<1>7. SubSeq(words \o cs, 1, Len(words \o cs) - 6) = words
    BY <1>5, <1>6
<1>8. Len(words \o cs) = Len(words) + 6
    BY <1>3, <1>4
<1> DEFINE text == ToBech32(address)
<1>9. text.data = words \o cs /\ text = [hrp |-> PREFIX, data |-> text.data]
    BY <1>2
<1> HIDE DEF text
<1>10. /\ text = [hrp |-> PREFIX, data |-> text.data]
       /\ text.data \in Seq(Quintet) /\ Len(text.data) = Len(words) + 6
       /\ VerifyChecksum(PREFIX, text.data)
       /\ SubSeq(text.data, 1, Len(text.data) - 6) = words
    BY <1>3, <1>4, <1>7, <1>8, <1>9
<1> QED BY <1>10 DEF words, text

(* Both SDKs read it back.                                                 *)
LEMMA Bech32ReadBack ==
  ASSUME NEW address \in [1 .. AddressBytes -> Byte]
  PROVE  /\ FromBech32(ToBech32(address)) = [ok |-> TRUE, data |-> address]
         /\ TsFromBech32(ToBech32(address)) = [ok |-> TRUE, data |-> address]
<1> DEFINE text == ToBech32(address)
           words == ConvertBits(address, 8, 5, TRUE).data
<1>1. /\ text.hrp = PREFIX /\ VerifyChecksum(text.hrp, text.data)
      /\ SubSeq(text.data, 1, Len(text.data) - 6) = words
  <2>1. text = [hrp |-> PREFIX, data |-> text.data]
      BY TextIs
  <2>2. VerifyChecksum(PREFIX, text.data) /\ SubSeq(text.data, 1, Len(text.data) - 6) = words
      BY TextIs
  <2> HIDE DEF text, words
  <2>3. text.hrp = PREFIX
      BY <2>1
  <2> QED BY <2>2, <2>3
<1>2. ~(Len(text.data) < 6)
  <2>1. Len(text.data) = Len(words) + 6 /\ words \in Seq(Quintet)
      BY TextIs, BytesComeBack
  <2> HIDE DEF text, words
  <2>2. Len(words) \in Nat
      BY <2>1
  <2> QED BY <2>1, <2>2
<1>3. ConvertBits(words, 5, 8, FALSE) = [ok |-> TRUE, data |-> address]
    BY BytesComeBack
<1>4. Len(address) = AddressBytes
    BY AddressSeq
<1> HIDE DEF text, words
<1>5. Decode(text) = [ok |-> TRUE, data |-> words]
    BY <1>1, <1>2 DEF Decode
<1> DEFINE decoded == Decode(text)
           bytes == ConvertBits(decoded.data, 5, 8, FALSE)
<1>6. decoded.ok /\ decoded.data = words
    BY <1>5
<1>7. bytes = [ok |-> TRUE, data |-> address]
  <2> HIDE DEF decoded
  <2> QED BY <1>3, <1>6
<1> HIDE DEF bytes
<1>8. bytes.ok /\ bytes.data = address
    BY <1>7
<1>9. Len(bytes.data) = AddressBytes
    BY <1>4, <1>8
<1> HIDE DEF decoded
<1>10. FromBech32(text) = bytes
  <2>1. FromBech32(text) = IF \/ ~decoded.ok
                             \/ text.hrp # PREFIX
                             \/ ~bytes.ok
                             \/ Len(bytes.data) # AddressBytes
                          THEN Invalid
                          ELSE bytes
      BY DEF FromBech32, decoded, bytes
  <2> QED BY <1>1, <1>6, <1>8, <1>9, <2>1
<1>11. TsFromBech32(text) = bytes
  <2>1. TsFromBech32(text) = IF ~decoded.ok \/ text.hrp # PREFIX THEN Invalid
                            ELSE IF bytes.ok /\ Len(bytes.data) = AddressBytes THEN bytes ELSE Invalid
      BY DEF TsFromBech32, decoded, bytes
  <2> QED BY <1>1, <1>6, <1>8, <1>9, <2>1
<1> QED BY <1>7, <1>10, <1>11 DEF text

(* A text is refused for its checksum, and for its prefix.                 *)
LEMMA MisreadRefused ==
  ASSUME NEW text, ~VerifyChecksum(text.hrp, text.data) \/ text.hrp # PREFIX
  PROVE  NotRead(text)
BY DEF NotRead, FromBech32, TsFromBech32, Decode, Invalid

(* A change of the second part is a change of the whole.                   *)
LEMMA JoinExcept ==
  ASSUME NEW h \in Seq(Quintet), NEW data \in Seq(Quintet), NEW i \in 1 .. Len(data), NEW c \in Quintet
  PROVE  h \o [data EXCEPT ![i] = c] = [h \o data EXCEPT ![Len(h) + i] = c]
<1> DEFINE w == [data EXCEPT ![i] = c]
           v == h \o data
           u == [v EXCEPT ![Len(h) + i] = c]
<1>1. /\ v \in Seq(Quintet) /\ Len(v) = Len(h) + Len(data) /\ Len(h) \in Nat /\ Len(data) \in Nat
      /\ \A k \in 1 .. Len(h) : v[k] = h[k]
      /\ \A k \in 1 .. Len(data) : v[Len(h) + k] = data[k]
    BY Joins
<1>2. w \in Seq(Quintet) /\ Len(w) = Len(data) /\ \A k \in 1 .. Len(data) : w[k] = IF k = i THEN c ELSE data[k]
    OBVIOUS
<1>3. PICK x \in Seq(Quintet) : x = w
    BY <1>2
<1>4. /\ h \o x \in Seq(Quintet) /\ Len(h \o x) = Len(h) + Len(x)
      /\ \A k \in 1 .. Len(h) : (h \o x)[k] = h[k]
      /\ \A k \in 1 .. Len(x) : (h \o x)[Len(h) + k] = x[k]
    BY Joins
<1> HIDE DEF w, v
<1>5. /\ u \in Seq(Quintet) /\ Len(u) = Len(v)
      /\ \A k \in 1 .. Len(v) : u[k] = IF k = Len(h) + i THEN c ELSE v[k]
    BY <1>1
<1> HIDE DEF u
<1>6. ASSUME NEW k \in 1 .. Len(h) + Len(data) PROVE (h \o w)[k] = u[k]
  <2>1. CASE k \in 1 .. Len(h)
      BY <1>1, <1>3, <1>4, <1>5, <2>1
  <2>2. CASE k \notin 1 .. Len(h)
    <3>1. k - Len(h) \in 1 .. Len(data) /\ Len(h) + (k - Len(h)) = k
        BY <1>1, <2>2
    <3>2. (h \o w)[k] = w[k - Len(h)] /\ v[k] = data[k - Len(h)]
        BY <1>1, <1>2, <1>3, <1>4, <3>1
    <3>3. k - Len(h) = i <=> k = Len(h) + i
        BY <1>1, <3>1
    <3> QED BY <1>1, <1>2, <1>5, <3>1, <3>2, <3>3
  <2> QED BY <2>1, <2>2
<1>7. h \o w \in Seq(Quintet) /\ Len(h \o w) = Len(h) + Len(data)
    BY <1>2, <1>3, <1>4
<1>8. h \o w = u
  <2>1. PICK y \in Seq(Quintet) : y = h \o w
      BY <1>7
  <2>2. PICK z \in Seq(Quintet) : z = u
      BY <1>5
  <2>3. Len(y) = Len(z) /\ \A k \in 1 .. Len(y) : y[k] = z[k]
      BY <1>1, <1>5, <1>6, <1>7, <2>1, <2>2
  <2>4. y = z
      BY <2>3
  <2> QED BY <2>1, <2>2, <2>4
<1> QED BY <1>8 DEF w, v, u

(* The mistakes in a Bech32m text.                                         *)
LEMMA BechMistakes ==
  ASSUME NEW address \in [1 .. AddressBytes -> Byte], NEW i
  PROVE  MistakeSeen(ToBech32(address), i)
<1> DEFINE text == ToBech32(address)
           data == text.data
           h == HrpExpand(PREFIX)
           v == h \o data
<1>1. text = [hrp |-> PREFIX, data |-> data] /\ data \in Seq(Quintet) /\ VerifyChecksum(PREFIX, data)
    BY TextIs
<1>2. h \in Seq(Quintet)
    BY PrefixIs, HrpQuintets
<1> HIDE DEF text, data
<1>3. text.hrp = PREFIX /\ text.data = data
    BY <1>1
<1>4. ASSUME NEW place \in DOMAIN text.hrp, NEW c \in Byte, c # text.hrp[place]
      PROVE  NotRead([text EXCEPT !.hrp[place] = c])
  <2> DEFINE wrong == [text EXCEPT !.hrp[place] = c]
  <2>1. wrong.hrp = [PREFIX EXCEPT ![place] = c]
      BY <1>1, <1>3
  <2>2. wrong.hrp[place] = c /\ c # PREFIX[place]
      BY <1>3, <1>4, <2>1
  <2>3. wrong.hrp # PREFIX
      BY <2>2
  <2> HIDE DEF wrong
  <2>4. NotRead(wrong)
      BY <2>3, MisreadRefused
  <2> QED BY <2>4 DEF wrong
<1>5. PICK d \in Seq(Quintet) : d = data
    BY <1>1
<1>6. PICK x \in Seq(Quintet) : x = h
    BY <1>2
<1>7. Polymod(x \o d) = BECH32M_CONST
    BY <1>1, <1>5, <1>6 DEF VerifyChecksum
<1>8. /\ x \o d \in Seq(Quintet) /\ Len(x) \in Nat /\ Len(d) \in Nat /\ Len(x \o d) = Len(x) + Len(d)
      /\ \A k \in 1 .. Len(d) : (x \o d)[Len(x) + k] = d[k]
    BY Joins
<1>9. DOMAIN data = 1 .. Len(d)
    BY <1>5
<1>10. ASSUME NEW c \in Quintet, i \in DOMAIN text.data, c # text.data[i]
       PROVE  NotRead(Replaced(text, i, c))
  <2>1. i \in 1 .. Len(d) /\ c # d[i]
      BY <1>3, <1>5, <1>9, <1>10
  <2>2. x \o [d EXCEPT ![i] = c] = [x \o d EXCEPT ![Len(x) + i] = c]
      BY <2>1, JoinExcept
  <2>3. Polymod([x \o d EXCEPT ![Len(x) + i] = c]) # Polymod(x \o d)
    <3>1. PICK y \in Seq(Quintet) : y = x \o d
        BY <1>8
    <3>2. Len(x) + i \in 1 .. Len(y) /\ c # y[Len(x) + i]
        BY <1>8, <2>1, <3>1
    <3>3. Polymod([y EXCEPT ![Len(x) + i] = c]) # Polymod(y)
        BY <3>2, ReplacedApart
    <3> QED BY <3>1, <3>3
  <2>4. Replaced(text, i, c).hrp = PREFIX /\ Replaced(text, i, c).data = [d EXCEPT ![i] = c]
      BY <1>1, <1>3, <1>5 DEF Replaced
  <2>5. ~VerifyChecksum(Replaced(text, i, c).hrp, Replaced(text, i, c).data)
      BY <1>6, <1>7, <2>2, <2>3, <2>4 DEF VerifyChecksum
  <2> QED BY <2>5, MisreadRefused
<1>11. ASSUME {i, i + 1} \subseteq DOMAIN text.data, text.data[i] # text.data[i + 1]
       PROVE  NotRead(Swapped(text, i))
  <2> DEFINE e == [d EXCEPT ![i] = d[i + 1]]
  <2>1. i \in 1 .. Len(d) /\ i + 1 \in 1 .. Len(d) /\ d[i] # d[i + 1] /\ d[i] \in Quintet /\ d[i + 1] \in Quintet
      BY <1>3, <1>5, <1>9, <1>11
  <2>2. e \in Seq(Quintet) /\ Len(e) = Len(d)
      BY <2>1
  <2>3. x \o e = [x \o d EXCEPT ![Len(x) + i] = d[i + 1]]
    <3>1. PICK c \in Quintet : c = d[i + 1]
        BY <2>1
    <3>2. x \o [d EXCEPT ![i] = c] = [x \o d EXCEPT ![Len(x) + i] = c]
        BY <2>1, JoinExcept
    <3> QED BY <3>1, <3>2
  <2>4. x \o [e EXCEPT ![i + 1] = d[i]] = [x \o e EXCEPT ![Len(x) + (i + 1)] = d[i]]
    <3> HIDE DEF e
    <3>1. PICK z \in Seq(Quintet) : z = e
        BY <2>2
    <3>2. i + 1 \in 1 .. Len(z)
        BY <2>1, <2>2, <3>1
    <3>3. PICK c \in Quintet : c = d[i]
        BY <2>1
    <3>4. PICK j \in 1 .. Len(z) : j = i + 1
        BY <3>2
    <3>5. x \o [z EXCEPT ![j] = c] = [x \o z EXCEPT ![Len(x) + j] = c]
        BY JoinExcept
    <3> QED BY <3>1, <3>3, <3>4, <3>5
  <2>5. Polymod(x \o [e EXCEPT ![i + 1] = d[i]]) # Polymod(x \o d)
    <3>1. PICK y \in Seq(Quintet) : y = x \o d
        BY <1>8
    <3> DEFINE k == Len(x) + i
    <3>2. Len(x) + (i + 1) = k + 1
        BY <1>8, <2>1
    <3>3. k \in 1 .. Len(y) /\ k + 1 \in 1 .. Len(y) /\ y[k] = d[i] /\ y[k + 1] = d[i + 1]
        BY <1>8, <2>1, <3>1, <3>2
    <3>4. x \o [e EXCEPT ![i + 1] = d[i]] = [y EXCEPT ![k] = y[k + 1], ![k + 1] = y[k]]
      <4> HIDE DEF e, k
      <4> QED BY <2>3, <2>4, <3>1, <3>2, <3>3 DEF k
    <3> HIDE DEF k, e
    <3>5. Polymod([y EXCEPT ![k] = y[k + 1], ![k + 1] = y[k]]) # Polymod(y)
        BY <2>1, <3>3, SwappedApart
    <3> QED BY <3>1, <3>4, <3>5
  <2>6. Swapped(text, i).hrp = PREFIX /\ Swapped(text, i).data = [e EXCEPT ![i + 1] = d[i]]
      BY <1>1, <1>3, <1>5 DEF Swapped
  <2>7. ~VerifyChecksum(Swapped(text, i).hrp, Swapped(text, i).data)
      BY <1>6, <1>7, <2>5, <2>6 DEF VerifyChecksum
  <2> QED BY <2>7, MisreadRefused
<1>12. MistakeSeen(text, i)
    BY <1>4, <1>10, <1>11 DEF MistakeSeen
<1> QED BY <1>12 DEF text

-----------------------------------------------------------------------------
(* A byte is put together of its halves.                                   *)
LEMMA HalvesJoin ==
  ASSUME NEW byte \in Byte
  PROVE  /\ HighHalf(byte) \in Nibble /\ LowHalf(byte) \in Nibble
         /\ Joined(HighHalf(byte), LowHalf(byte)) = byte
<1>1. HighHalf(byte) \in Nibble /\ LowHalf(byte) \in Nibble
    BY DEF HighHalf, LowHalf, Nibble
<1>2. ASSUME NEW b \in byte PROVE b \in Joined(HighHalf(byte), LowHalf(byte))
  <2>1. b \in 0 .. 7
      BY <1>2 DEF Byte
  <2>2. CASE b < 4
      BY <2>1, <2>2 DEF Joined, LowHalf
  <2>3. CASE b >= 4
    <3>1. b - 4 \in 0 .. 3 /\ (b - 4) + 4 = b
        BY <2>1, <2>3
    <3>2. b - 4 \in HighHalf(byte)
        BY <3>1 DEF HighHalf
    <3> QED BY <3>1, <3>2 DEF Joined
  <2> QED BY <2>1, <2>2, <2>3
<1>3. ASSUME NEW b \in Joined(HighHalf(byte), LowHalf(byte)) PROVE b \in byte
    BY <1>3 DEF Joined, HighHalf, LowHalf
<1> QED BY <1>1, <1>2, <1>3

(* A space and a letter are no digits.                                     *)
LEMMA NotDigits == Space \notin Nibble /\ Letter \notin Nibble /\ Letter # Space
<1>1. 16 \notin 0 .. 3 /\ 17 \notin 0 .. 3 /\ 16 # 17
    OBVIOUS
<1> QED BY <1>1 DEF Space, Letter, Nibble

(* How many of the other places are below a place.                         *)
LEMMA BelowPlace ==
  ASSUME NEW M \in Nat, NEW i \in Nat, NEW p \in 1 .. M + 1
  PROVE  Cardinality({q \in 1 .. M \ {i} : q < p}) = IF i \in 1 .. p - 1 THEN p - 2 ELSE p - 1
<1>1. {q \in 1 .. M \ {i} : q < p} = (1 .. p - 1) \ {i}
    OBVIOUS
<1>2. IsFiniteSet(1 .. p - 1) /\ Cardinality(1 .. p - 1) = p - 1
    BY FS_Interval
<1>3. Cardinality((1 .. p - 1) \ {i}) = IF i \in 1 .. p - 1 THEN (p - 1) - 1 ELSE p - 1
    BY <1>2, FS_RemoveElement
<1> QED BY <1>1, <1>3

(* What Python reads of digits with one space, at place i, or none.        *)
LEMMA PyReads ==
  ASSUME NEW S, NEW digits \in Seq(S), NEW i \in 0 .. Len(digits),
         \A p \in 1 .. Len(digits) : p = i <=> digits[p] = Space,
         \A p \in 1 .. Len(digits) : p # i => digits[p] \in Nibble
  PROVE  LET At(n) == IF i = 0 \/ n < i THEN n ELSE n + 1
             count == IF i = 0 THEN Len(digits) ELSE Len(digits) - 1
         IN PyFromHex(digits) =
              IF count = 2 * AddressBytes /\ (i = 0 \/ i % 2 = 1)
              THEN [ok |-> TRUE,
                    data |-> [k \in 1 .. AddressBytes |->
                                Joined(digits[At(2 * k - 1)], digits[At(2 * k)])]]
              ELSE Invalid
<1> DEFINE M == Len(digits)
           N == AddressBytes
           At(n) == IF i = 0 \/ n < i THEN n ELSE n + 1
           count == IF i = 0 THEN M ELSE M - 1
           D == {p \in DOMAIN digits : digits[p] # Space}
           Before(p) == Cardinality({q \in D : q < p})
           Place(n) == CHOOSE p \in D : Before(p) = n
<1>1. M \in Nat /\ N \in Nat \ {0} /\ DOMAIN digits = 1 .. M /\ i \in 0 .. M
    BY AddressBytesAssumption
<1>2. D = 1 .. M \ {i}
    BY <1>1
<1>3. ASSUME NEW p \in 1 .. M + 1 PROVE Before(p) = IF i \in 1 .. p - 1 THEN p - 2 ELSE p - 1
  <2> HIDE DEF D
  <2> QED BY <1>1, <1>2, BelowPlace
<1>4. Cardinality(D) = count
  <2>1. {q \in 1 .. M \ {i} : q < M + 1} = D
      BY <1>1, <1>2
  <2>2. i \in 1 .. (M + 1) - 1 <=> i # 0
      BY <1>1
  <2> HIDE DEF D, M
  <2> QED BY <1>1, <2>1, <2>2, BelowPlace
<1>5. (\A p \in DOMAIN digits \ D : Before(p) % 2 = 0) <=> (i = 0 \/ i % 2 = 1)
  <2>1. CASE i = 0
    <3>1. DOMAIN digits \ D = {}
        BY <1>1, <1>2, <2>1
    <3> QED BY <2>1, <3>1
  <2>2. CASE i # 0
    <3>1. DOMAIN digits \ D = {i} /\ i \in 1 .. M
        BY <1>1, <1>2, <2>2
    <3>2. Before(i) = i - 1
        BY <1>3, <3>1
    <3> HIDE DEF D, Before, M
    <3>3. (\A p \in DOMAIN digits \ D : Before(p) % 2 = 0) <=> (i - 1) % 2 = 0
        BY <3>1, <3>2
    <3>4. (i - 1) % 2 = 0 <=> i % 2 = 1
        BY <3>1
    <3> QED BY <2>2, <3>3, <3>4
  <2> QED BY <2>1, <2>2
<1>6. \A p \in D : digits[p] \in Nibble
    BY <1>1, <1>2
<1>7. ASSUME NEW n \in 0 .. count - 1 PROVE Place(n) = At(n + 1)
  <2>1. At(n + 1) \in 1 .. M \ {i}
      BY <1>1
  <2>2. Before(At(n + 1)) = n
    <3>1. Before(At(n + 1)) = IF i \in 1 .. At(n + 1) - 1 THEN At(n + 1) - 2 ELSE At(n + 1) - 1
        BY <1>1, <1>3, <2>1
    <3> HIDE DEF Before
    <3> QED BY <1>1, <3>1
  <2>3. ASSUME NEW p \in D, Before(p) = n PROVE p = At(n + 1)
    <3>1. p \in 1 .. M /\ p # i
        BY <1>2
    <3>2. n = IF i \in 1 .. p - 1 THEN p - 2 ELSE p - 1
        BY <1>1, <1>3, <2>3, <3>1
    <3> HIDE DEF Before, D
    <3> QED BY <1>1, <3>1, <3>2
  <2> HIDE DEF Before, D, At
  <2> QED BY <1>2, <2>1, <2>2, <2>3
<1>8. ASSUME count = 2 * N
      PROVE  [k \in 1 .. N |-> Joined(digits[Place(2 * k - 2)], digits[Place(2 * k - 1)])]
               = [k \in 1 .. N |-> Joined(digits[At(2 * k - 1)], digits[At(2 * k)])]
  <2>1. ASSUME NEW k \in 1 .. N PROVE Place(2 * k - 2) = At(2 * k - 1) /\ Place(2 * k - 1) = At(2 * k)
    <3>1. /\ 2 * k - 2 \in 0 .. count - 1 /\ 2 * k - 1 \in 0 .. count - 1
          /\ (2 * k - 2) + 1 = 2 * k - 1 /\ (2 * k - 1) + 1 = 2 * k
        BY <1>1, <1>8
    <3> HIDE DEF Place, At, count
    <3> QED BY <1>7, <3>1
  <2> HIDE DEF Place, At
  <2> QED BY <2>1
<1>9. PyFromHex(digits) =
        IF (\A p \in D : digits[p] \in Nibble)
           /\ (\A p \in DOMAIN digits \ D : Before(p) % 2 = 0)
           /\ Cardinality(D) = 2 * N
        THEN [ok |-> TRUE,
              data |-> [k \in 1 .. N |-> Joined(digits[Place(2 * k - 2)], digits[Place(2 * k - 1)])]]
        ELSE Invalid
    BY DEF PyFromHex
<1> HIDE DEF Place, Before, D, At, count
<1>10. PyFromHex(digits) =
         IF count = 2 * N /\ (i = 0 \/ i % 2 = 1)
         THEN [ok |-> TRUE,
               data |-> [k \in 1 .. N |-> Joined(digits[At(2 * k - 1)], digits[At(2 * k)])]]
         ELSE Invalid
    BY <1>4, <1>5, <1>6, <1>8, <1>9
<1> QED BY <1>10 DEF At, count

(* The digits of an address, two for each byte.                            *)
LEMMA HexIs ==
  ASSUME NEW address \in [1 .. AddressBytes -> Byte]
  PROVE  LET hex == ToHex(address)
         IN /\ hex \in Seq(Nibble) /\ Len(hex) = 2 * AddressBytes /\ DOMAIN hex = 1 .. 2 * AddressBytes
            /\ \A k \in 1 .. AddressBytes : Joined(hex[2 * k - 1], hex[2 * k]) = address[k]
<1> DEFINE hex == ToHex(address)
           N == AddressBytes
           E(p) == IF p % 2 = 1 THEN HighHalf(address[(p + 1) \div 2]) ELSE LowHalf(address[p \div 2])
<1>1. N \in Nat /\ Len(address) = N /\ \A k \in 1 .. N : address[k] \in Byte
    BY AddressSeq, AddressBytesAssumption
<1>2. hex = [p \in 1 .. 2 * N |-> E(p)]
    BY <1>1 DEF ToHex
<1>3. ASSUME NEW p \in 1 .. 2 * N PROVE E(p) \in Nibble
  <2>1. CASE p % 2 = 1
    <3>1. (p + 1) \div 2 \in 1 .. N
        BY <1>1, <2>1
    <3> QED BY <1>1, <2>1, <3>1, HalvesJoin
  <2>2. CASE p % 2 # 1
    <3>1. p \div 2 \in 1 .. N
        BY <1>1, <2>2
    <3> QED BY <1>1, <2>2, <3>1, HalvesJoin
  <2> QED BY <2>1, <2>2
<1>4. ASSUME NEW k \in 1 .. N PROVE Joined(hex[2 * k - 1], hex[2 * k]) = address[k]
  <2>1. /\ 2 * k - 1 \in 1 .. 2 * N /\ (2 * k - 1) % 2 = 1 /\ ((2 * k - 1) + 1) \div 2 = k
        /\ 2 * k \in 1 .. 2 * N /\ (2 * k) % 2 # 1 /\ (2 * k) \div 2 = k
      BY <1>1
  <2>2. hex[2 * k - 1] = HighHalf(address[k]) /\ hex[2 * k] = LowHalf(address[k])
    <3> HIDE DEF hex
    <3> QED BY <1>2, <2>1
  <2> QED BY <1>1, <2>2, HalvesJoin
<1> HIDE DEF E, hex
<1>5. hex \in Seq(Nibble) /\ Len(hex) = 2 * N /\ DOMAIN hex = 1 .. 2 * N
    BY <1>1, <1>2, <1>3
<1> QED BY <1>4, <1>5 DEF hex

(* What may be in a hexadecimal text.                                      *)
Digit == Nibble \union {Space, Letter}

(* A character too many moves down those behind it.                        *)
LEMMA Inserted ==
  ASSUME NEW hex \in Seq(Digit), NEW i \in 1 .. Len(hex), NEW c \in Digit
  PROVE  LET s == InsertAt(hex, i, c)
         IN /\ s \in Seq(Digit) /\ Len(s) = Len(hex) + 1
            /\ \A p \in 1 .. Len(hex) + 1 :
                 s[p] = IF p < i THEN hex[p] ELSE IF p = i THEN c ELSE hex[p - 1]
BY DEF InsertAt

(* One that is missing moves up those behind it.                           *)
LEMMA Removed ==
  ASSUME NEW hex \in Seq(Digit), NEW i \in 1 .. Len(hex)
  PROVE  LET s == RemoveAt(hex, i)
         IN /\ s \in Seq(Digit) /\ Len(s) = Len(hex) - 1
            /\ \A p \in 1 .. Len(hex) - 1 : s[p] = IF p < i THEN hex[p] ELSE hex[p + 1]
<1> DEFINE a == SubSeq(hex, 1, i - 1)
           b == SubSeq(hex, i + 1, Len(hex))
<1>1. a \in Seq(Digit) /\ Len(a) = i - 1 /\ \A p \in 1 .. i - 1 : a[p] = hex[p]
    OBVIOUS
<1>2. b \in Seq(Digit) /\ Len(b) = Len(hex) - i /\ \A p \in 1 .. Len(hex) - i : b[p] = hex[p + i]
    OBVIOUS
<1>3. RemoveAt(hex, i) = a \o b
    BY DEF RemoveAt
<1> HIDE DEF a, b
<1>4. a \o b \in Seq(Digit) /\ Len(a \o b) = Len(hex) - 1
  <2>1. \A x, y \in Seq(Digit) : x \o y \in Seq(Digit) /\ Len(x \o y) = Len(x) + Len(y)
      OBVIOUS
  <2>2. a \o b \in Seq(Digit) /\ Len(a \o b) = Len(a) + Len(b)
      BY <1>1, <1>2, <2>1
  <2> QED BY <1>1, <1>2, <2>2
<1>5. ASSUME NEW p \in 1 .. Len(hex) - 1 PROVE (a \o b)[p] = IF p < i THEN hex[p] ELSE hex[p + 1]
  <2>1. CASE p < i
      BY <1>1, <1>2, <2>1
  <2>2. CASE ~(p < i)
    <3>1. (a \o b)[p] = b[p - (i - 1)]
        BY <1>1, <1>2, <2>2
    <3>2. p - (i - 1) \in 1 .. Len(hex) - i /\ (p - (i - 1)) + i = p + 1
        BY <2>2
    <3> QED BY <1>2, <2>2, <3>1, <3>2
  <2> QED BY <2>1, <2>2
<1> QED BY <1>3, <1>4, <1>5

(* Both SDKs read the hexadecimal text of an address back.                 *)
LEMMA HexReadBack ==
  ASSUME NEW address \in [1 .. AddressBytes -> Byte]
  PROVE  /\ TsFromHex(ToHex(address)) = [ok |-> TRUE, data |-> address]
         /\ PyFromHex(ToHex(address)) = [ok |-> TRUE, data |-> address]
<1> DEFINE N == AddressBytes
           read == [k \in 1 .. N |-> Joined(ToHex(address)[2 * k - 1], ToHex(address)[2 * k])]
<1>1. PICK hex \in Seq(Nibble) : hex = ToHex(address)
    BY HexIs
<1>2. Len(hex) = 2 * N /\ DOMAIN hex = 1 .. 2 * N /\ \A p \in 1 .. 2 * N : hex[p] \in Nibble
    BY <1>1, HexIs
<1>3. read = address
    BY HexIs, AddressSeq
<1>4. TsFromHex(hex) = [ok |-> TRUE, data |-> read]
  <2> HIDE DEF N
  <2>1. read = [k \in 1 .. N |-> Joined(hex[2 * k - 1], hex[2 * k])]
      BY <1>1
  <2> HIDE DEF read
  <2> QED BY <1>2, <2>1 DEF TsFromHex, N
<1>5. PyFromHex(hex) = [ok |-> TRUE, data |-> read]
  <2>1. /\ 0 \in 0 .. Len(hex)
        /\ \A p \in 1 .. Len(hex) : p = 0 <=> hex[p] = Space
        /\ \A p \in 1 .. Len(hex) : p # 0 => hex[p] \in Nibble
      BY <1>2, NotDigits, AddressBytesAssumption
  <2>2. PyFromHex(hex) =
          IF Len(hex) = 2 * N
          THEN [ok |-> TRUE, data |-> [k \in 1 .. N |-> Joined(hex[2 * k - 1], hex[2 * k])]]
          ELSE Invalid
      BY <2>1, PyReads
  <2> QED BY <1>1, <1>2, <2>2
<1> HIDE DEF read
<1> QED BY <1>1, <1>3, <1>4, <1>5

(* The mistakes in a hexadecimal text.                                     *)
LEMMA HexMistakes ==
  ASSUME NEW address \in [1 .. AddressBytes -> Byte], NEW i
  PROVE  HexMistakeSeen(address, i)
<1> DEFINE N == AddressBytes
           hx == ToHex(address)
           read == [k \in 1 .. N |-> Joined(hx[2 * k - 1], hx[2 * k])]
<1> SUFFICES ASSUME i \in DOMAIN hx
             PROVE  /\ NotHex(RemoveAt(hx, i)) /\ NotHex([hx EXCEPT ![i] = Letter])
                    /\ TsFromHex(InsertAt(hx, i, Space)) = Invalid
                    /\ PyFromHex(InsertAt(hx, i, Space))
                         = IF i % 2 = 1 THEN [ok |-> TRUE, data |-> address] ELSE Invalid
    BY DEF HexMistakeSeen
<1>1. /\ N \in Nat \ {0} /\ Len(hx) = 2 * N /\ i \in 1 .. 2 * N
      /\ \A p \in 1 .. 2 * N : hx[p] \in Nibble
    BY HexIs, AddressBytesAssumption
<1>2. hx \in Seq(Digit)
    BY HexIs DEF Digit
<1>3. read = address
    BY HexIs, AddressSeq
<1> HIDE DEF hx
<1>4. PICK hex \in Seq(Digit) : hex = hx
    BY <1>2
<1> DEFINE L == Len(hex)
<1>a. L = 2 * N /\ L \in Nat /\ i \in 1 .. L /\ \A p \in 1 .. L : hex[p] \in Nibble
    BY <1>1, <1>4
<1>5. NotHex(RemoveAt(hex, i))
  <2> DEFINE s == RemoveAt(hex, i)
  <2>1. /\ s \in Seq(Digit) /\ Len(s) = Len(hex) - 1
        /\ \A p \in 1 .. Len(hex) - 1 : s[p] = IF p < i THEN hex[p] ELSE hex[p + 1]
      BY <1>a, Removed
  <2> HIDE DEF s
  <2>2. \A p \in 1 .. L - 1 : s[p] \in Nibble
    <3> HIDE DEF L
    <3>1. \A p \in 1 .. L - 1 : p \in 1 .. L /\ p + 1 \in 1 .. L
        BY <1>a
    <3> QED BY <1>a, <2>1, <3>1 DEF L
  <2>8. PICK t \in Seq(Digit) : t = s
      BY <2>1
  <2>3. Len(t) = 2 * N - 1 /\ \A p \in 1 .. Len(t) : t[p] \in Nibble
    <3>1. Len(t) = L - 1
        BY <2>1, <2>8
    <3> HIDE DEF L
    <3> QED BY <1>a, <2>2, <2>8, <3>1
  <2>4. TsFromHex(t) = Invalid
      BY <1>1, <2>3 DEF TsFromHex
  <2>5. /\ 0 \in 0 .. Len(t)
        /\ \A p \in 1 .. Len(t) : p = 0 <=> t[p] = Space
        /\ \A p \in 1 .. Len(t) : p # 0 => t[p] \in Nibble
      BY <1>1, <2>3, NotDigits
  <2>6. Len(t) # 2 * N
      BY <1>1, <2>3
  <2>7. PyFromHex(t) = Invalid
      BY <2>5, <2>6, PyReads
  <2> QED BY <2>4, <2>7, <2>8 DEF NotHex, s
<1>6. NotHex([hex EXCEPT ![i] = Letter])
  <2> DEFINE s == [hex EXCEPT ![i] = Letter]
  <2>1. DOMAIN s = 1 .. 2 * N /\ i \in DOMAIN s /\ s[i] = Letter
      BY <1>1, <1>4
  <2> HIDE DEF s
  <2>2. TsFromHex(s) = Invalid
      BY <2>1, NotDigits DEF TsFromHex
  <2>3. PyFromHex(s) = Invalid
    <3>1. i \in {p \in DOMAIN s : s[p] # Space} /\ s[i] \notin Nibble
        BY <2>1, NotDigits
    <3>2. ~\A p \in {p \in DOMAIN s : s[p] # Space} : s[p] \in Nibble
        BY <3>1
    <3> QED BY <3>2 DEF PyFromHex
  <2> QED BY <2>2, <2>3 DEF NotHex, s
<1> DEFINE s == InsertAt(hex, i, Space)
<1>7. /\ s \in Seq(Digit) /\ Len(s) = Len(hex) + 1
      /\ \A p \in 1 .. Len(hex) + 1 :
           s[p] = IF p < i THEN hex[p] ELSE IF p = i THEN Space ELSE hex[p - 1]
  <2>1. Space \in Digit
      BY DEF Digit
  <2>2. PICK c \in Digit : c = Space
      BY <2>1
  <2>3. PICK j \in 1 .. Len(hex) : j = i
      BY <1>a
  <2>4. /\ InsertAt(hex, j, c) \in Seq(Digit) /\ Len(InsertAt(hex, j, c)) = Len(hex) + 1
        /\ \A p \in 1 .. Len(hex) + 1 :
             InsertAt(hex, j, c)[p] = IF p < j THEN hex[p] ELSE IF p = j THEN c ELSE hex[p - 1]
      BY Inserted
  <2> QED BY <2>2, <2>3, <2>4
<1>8. PICK t \in Seq(Digit) : t = s
    BY <1>7
<1> HIDE DEF s
<1>9. /\ Len(t) = 2 * N + 1 /\ t[i] = Space
      /\ \A p \in 1 .. Len(t) : p # i => t[p] \in Nibble
      /\ \A p \in 1 .. 2 * N : t[IF p < i THEN p ELSE p + 1] = hex[p]
  <2>1. Len(t) = L + 1
      BY <1>7, <1>8
  <2>2. \A p \in 1 .. L + 1 :
          s[p] = IF p < i THEN hex[p] ELSE IF p = i THEN Space ELSE hex[p - 1]
      BY <1>7
  <2> HIDE DEF L
  <2>3. s[i] = Space
      BY <1>a, <2>2
  <2>4. ASSUME NEW p \in 1 .. L + 1, p # i PROVE s[p] \in Nibble
    <3>1. CASE p < i
        BY <1>a, <2>2, <3>1
    <3>2. CASE p > i
      <4>1. p - 1 \in 1 .. L
          BY <1>a, <3>2
      <4> QED BY <1>a, <2>2, <3>2, <4>1
    <3> QED BY <1>a, <2>4, <3>1, <3>2
  <2>5. ASSUME NEW p \in 1 .. L PROVE s[IF p < i THEN p ELSE p + 1] = hex[p]
    <3>1. CASE p < i
        BY <1>a, <2>2, <3>1
    <3>2. CASE ~(p < i)
      <4>1. p + 1 \in 1 .. L + 1 /\ (p + 1) - 1 = p /\ ~(p + 1 < i) /\ p + 1 # i
          BY <1>a, <3>2
      <4> QED BY <2>2, <3>2, <4>1
    <3> QED BY <3>1, <3>2
  <2> QED BY <1>8, <1>a, <2>1, <2>3, <2>4, <2>5
<1>10. TsFromHex(t) = Invalid
    BY <1>1, <1>9 DEF TsFromHex
<1>11. PyFromHex(t) = IF i % 2 = 1 THEN [ok |-> TRUE, data |-> address] ELSE Invalid
  <2> DEFINE At(n) == IF n < i THEN n ELSE n + 1
  <2>1. /\ i \in 0 .. Len(t) /\ i # 0 /\ Len(t) - 1 = 2 * N
        /\ \A p \in 1 .. Len(t) : p = i <=> t[p] = Space
        /\ \A p \in 1 .. Len(t) : p # i => t[p] \in Nibble
      BY <1>1, <1>9, NotDigits
  <2>2. PyFromHex(t) =
          IF i % 2 = 1
          THEN [ok |-> TRUE, data |-> [k \in 1 .. N |-> Joined(t[At(2 * k - 1)], t[At(2 * k)])]]
          ELSE Invalid
      BY <2>1, PyReads
  <2>3. ASSUME NEW k \in 1 .. N PROVE t[At(2 * k - 1)] = hx[2 * k - 1] /\ t[At(2 * k)] = hx[2 * k]
    <3>1. 2 * k - 1 \in 1 .. 2 * N /\ 2 * k \in 1 .. 2 * N
        BY <1>1
    <3> QED BY <1>4, <1>9, <3>1
  <2> HIDE DEF At
  <2>4. [k \in 1 .. N |-> Joined(t[At(2 * k - 1)], t[At(2 * k)])] = read
      BY <2>3
  <2> QED BY <1>3, <2>2, <2>4
<1> QED BY <1>4, <1>5, <1>6, <1>8, <1>10, <1>11 DEF s

(* Every address, of any number of bytes, is read back from each of its    *)
(* texts by both SDKs, and a mistake in one of them is noticed: to_bech32  *)
(* and from_bech32, toHex and fromHex.                                     *)
THEOREM AddressesReadBack ==
  ASSUME NEW address \in [1 .. AddressBytes -> Byte], NEW place
  PROVE  /\ AddressSurvives(address)
         /\ MistakeSeen(ToBech32(address), place)
         /\ HexMistakeSeen(address, place)
<1>1. AddressSurvives(address)
    BY Bech32ReadBack, HexReadBack DEF AddressSurvives
<1> QED BY <1>1, BechMistakes, HexMistakes

-----------------------------------------------------------------------------
(* The powers of ten up to a place.                                        *)
PowersUpTo(f, n) == f = [k \in 0 .. n |-> IF k = 0 THEN 1 ELSE 10 * f[k - 1]]

(* There are powers of ten for every exponent.                             *)
LEMMA PowersExist ==
  ASSUME NEW n \in Nat
  PROVE  \E f : PowersUpTo(f, n)
<1> DEFINE Without == {m \in Nat : ~\E f : PowersUpTo(f, m)}
<1> SUFFICES ASSUME Without # {} PROVE FALSE
    OBVIOUS
<1>1. PICK m \in Without : \A l \in Without : m <= l
  <2>1. Without \in SUBSET Nat
      OBVIOUS
  <2> HIDE DEF Without
  <2> QED BY <2>1, LeastNatural
<1>2. PowersUpTo([k \in 0 .. 0 |-> 1], 0)
    BY DEF PowersUpTo
<1>3. m # 0
    BY <1>2
<1>4. m - 1 \in Nat /\ m - 1 \notin Without
    BY <1>1, <1>3
<1>5. PICK f : PowersUpTo(f, m - 1)
    BY <1>4
<1> DEFINE g == [k \in 0 .. m |-> IF k = m THEN 10 * f[m - 1] ELSE f[k]]
<1>6. \A k \in 0 .. m - 1 : f[k] = IF k = 0 THEN 1 ELSE 10 * f[k - 1]
    BY <1>5 DEF PowersUpTo
<1>7. ASSUME NEW k \in 0 .. m PROVE g[k] = IF k = 0 THEN 1 ELSE 10 * g[k - 1]
  <2>1. CASE k = m
      BY <1>3, <2>1
  <2>2. CASE k \in 0 .. m - 1
    <3>1. k # 0 => k - 1 \in 0 .. m - 1
        BY <2>2
    <3> QED BY <1>6, <2>2, <3>1
  <2> QED BY <2>1, <2>2
<1>8. PowersUpTo(g, m)
    BY <1>7 DEF PowersUpTo
<1> QED BY <1>8

(* They do not depend on how far they go.                                  *)
LEMMA PowersAgree ==
  ASSUME NEW m \in Nat, NEW n \in Nat, NEW f, NEW g, PowersUpTo(f, m), PowersUpTo(g, n),
         NEW k \in Nat, k <= m, k <= n
  PROVE  f[k] = g[k]
<1> DEFINE Apart == {l \in 0 .. k : f[l] # g[l]}
<1>1. \A l \in 0 .. k : f[l] = IF l = 0 THEN 1 ELSE 10 * f[l - 1]
    BY DEF PowersUpTo
<1>2. \A l \in 0 .. k : g[l] = IF l = 0 THEN 1 ELSE 10 * g[l - 1]
    BY DEF PowersUpTo
<1>3. Apart = {}
  <2> SUFFICES ASSUME Apart # {} PROVE FALSE
      OBVIOUS
  <2>1. PICK l \in Apart : \A j \in Apart : l <= j
    <3>1. Apart \in SUBSET Nat
        OBVIOUS
    <3> HIDE DEF Apart
    <3> QED BY <3>1, LeastNatural
  <2>2. l # 0
      BY <1>1, <1>2
  <2>3. l - 1 \in 0 .. k /\ f[l - 1] = g[l - 1]
      BY <2>1, <2>2
  <2> QED BY <1>1, <1>2, <2>1, <2>2, <2>3
<1> QED BY <1>3

(* So the recursive function is what it says.                              *)
LEMMA PowerIs == Pow10[0] = 1 /\ \A k \in Nat : Pow10[k + 1] = 10 * Pow10[k]
<1> DEFINE Up(k) == CHOOSE f : PowersUpTo(f, k)
           F == [k \in Nat |-> Up(k)[k]]
<1>1. \A k \in Nat : PowersUpTo(Up(k), k)
    BY PowersExist
<1> HIDE DEF Up
<1>2. ASSUME NEW k \in Nat PROVE F[k] = IF k = 0 THEN 1 ELSE 10 * F[k - 1]
  <2>1. Up(k)[k] = IF k = 0 THEN 1 ELSE 10 * Up(k)[k - 1]
      BY <1>1 DEF PowersUpTo
  <2>2. CASE k # 0
    <3>1. k - 1 \in Nat /\ k - 1 <= k
        BY <2>2
    <3>2. Up(k)[k - 1] = Up(k - 1)[k - 1]
        BY <1>1, <3>1, PowersAgree
    <3> QED BY <2>1, <2>2, <3>1, <3>2
  <2> QED BY <2>1, <2>2
<1>3. F = [k \in Nat |-> IF k = 0 THEN 1 ELSE 10 * F[k - 1]]
    BY <1>2
<1>4. Pow10 = [k \in Nat |-> IF k = 0 THEN 1 ELSE 10 * Pow10[k - 1]]
  <2> HIDE DEF F
  <2> QED BY <1>3 DEF Pow10
<1> QED BY <1>4

(* A power of ten is a number, and larger than its exponent.               *)
LEMMA PowerType == \A k \in Nat : Pow10[k] \in Nat \ {0} /\ k < Pow10[k]
<1> DEFINE Bad == {k \in Nat : ~(Pow10[k] \in Nat \ {0} /\ k < Pow10[k])}
<1> SUFFICES ASSUME Bad # {} PROVE FALSE
    OBVIOUS
<1>1. PICK k \in Bad : \A j \in Bad : k <= j
  <2>1. Bad \in SUBSET Nat
      OBVIOUS
  <2> HIDE DEF Bad
  <2> QED BY <2>1, LeastNatural
<1>2. k # 0
    BY PowerIs
<1>3. k - 1 \in Nat /\ Pow10[k - 1] \in Nat \ {0} /\ k - 1 < Pow10[k - 1]
    BY <1>1, <1>2
<1>4. Pow10[k] = 10 * Pow10[k - 1]
    BY <1>3, PowerIs
<1> QED BY <1>1, <1>3, <1>4

(* The power of a sum is the product of the powers.                        *)
LEMMA PowerSum == \A j, k \in Nat : Pow10[j + k] = Pow10[j] * Pow10[k]
<1> SUFFICES ASSUME NEW j \in Nat PROVE \A k \in Nat : Pow10[j + k] = Pow10[j] * Pow10[k]
    OBVIOUS
<1> DEFINE Bad == {k \in Nat : Pow10[j + k] # Pow10[j] * Pow10[k]}
<1> SUFFICES ASSUME Bad # {} PROVE FALSE
    OBVIOUS
<1>1. PICK k \in Bad : \A l \in Bad : k <= l
  <2>1. Bad \in SUBSET Nat
      OBVIOUS
  <2> HIDE DEF Bad
  <2> QED BY <2>1, LeastNatural
<1>2. k # 0
    BY PowerIs, PowerType
<1>3. k - 1 \in Nat /\ Pow10[j + (k - 1)] = Pow10[j] * Pow10[k - 1]
    BY <1>1, <1>2
<1>4. Pow10[k] = 10 * Pow10[k - 1] /\ Pow10[j + k] = 10 * Pow10[j + (k - 1)]
  <2>1. (k - 1) + 1 = k /\ (j + (k - 1)) + 1 = j + k /\ j + (k - 1) \in Nat
      BY <1>3
  <2> QED BY <1>3, <2>1, PowerIs
<1>5. Pow10[j] \in Nat /\ Pow10[k - 1] \in Nat
    BY <1>3, PowerType
<1>6. 10 * (Pow10[j] * Pow10[k - 1]) = Pow10[j] * (10 * Pow10[k - 1])
    BY <1>5
<1> QED BY <1>1, <1>3, <1>4, <1>6

(* Facts about products.                                                   *)
LEMMA Products ==
  ASSUME NEW a \in Nat, NEW b \in Nat, NEW c \in Nat
  PROVE  /\ a * b \in Nat /\ a * b = b * a /\ a * (b * c) = (a * b) * c
         /\ a <= b => a * c <= b * c
         /\ a < b /\ c # 0 => a * c + c <= b * c
         /\ b # 0 => a <= a * b
OBVIOUS

(* The larger power is a multiple of the smaller one.                      *)
LEMMA PowerGrows ==
  ASSUME NEW j \in Nat, NEW k \in Nat, j <= k
  PROVE  /\ Pow10[k] = Pow10[k - j] * Pow10[j] /\ Pow10[k - j] \in Nat \ {0}
         /\ Pow10[j] <= Pow10[k]
<1>1. k - j \in Nat /\ (k - j) + j = k
    OBVIOUS
<1>2. Pow10[k] = Pow10[k - j] * Pow10[j] /\ Pow10[k - j] \in Nat \ {0} /\ Pow10[j] \in Nat
    BY <1>1, PowerSum, PowerType
<1> QED BY <1>2, Products

(* Quotient and remainder are what the division says.                      *)
LEMMA Divided ==
  ASSUME NEW q \in Nat, NEW d \in Nat \ {0}, NEW r \in 0 .. d - 1
  PROVE  (q * d + r) \div d = q /\ (q * d + r) % d = r
<1> DEFINE n == q * d + r
           p == n \div d
           s == n % d
<1>1. n \in Nat
    BY Products
<1>2. p \in Nat /\ s \in Nat /\ p * d + s = n /\ s < d
  <2> HIDE DEF n
  <2> QED BY <1>1, Division
<1> HIDE DEF p, s
<1>3. ~(p < q)
    BY <1>2, Products
<1>4. ~(q < p)
    BY <1>2, Products
<1>5. p = q
    BY <1>2, <1>3, <1>4
<1> QED BY <1>2, <1>5 DEF p, s

-----------------------------------------------------------------------------
(* The zeros that a Decimal has behind its digits when it is rounded to n. *)
Exponent(n) ==
    CHOOSE e \in 0 .. n : n < Pow10[Precision + e] /\ \A j \in 0 .. e - 1 : n >= Pow10[Precision + j]

(* The constants are numbers, and there is a digit at least.               *)
LEMMA PrecisionNat == Precision \in Nat /\ Precision >= 1 /\ MaxDecimals \in Nat /\ MAX_U256 \in Nat
BY UnitsAssumption

(* There is such a number of zeros, and it is the least one.               *)
LEMMA ExponentIs ==
  ASSUME NEW n \in Nat
  PROVE  /\ Exponent(n) \in 0 .. n /\ n < Pow10[Precision + Exponent(n)]
         /\ \A j \in 0 .. Exponent(n) - 1 : n >= Pow10[Precision + j]
<1> DEFINE Enough == {e \in 0 .. n : n < Pow10[Precision + e]}
<1>1. n \in Enough
  <2>1. Precision + n \in Nat /\ n <= Precision + n
      BY PrecisionNat
  <2>2. Precision + n < Pow10[Precision + n] /\ Pow10[Precision + n] \in Nat
      BY <2>1, PowerType
  <2> QED BY <2>1, <2>2
<1>2. PICK e \in Enough : \A j \in Enough : e <= j
  <2>1. Enough \in SUBSET Nat /\ Enough # {}
      BY <1>1
  <2> HIDE DEF Enough
  <2> QED BY <2>1, LeastNatural
<1>3. ASSUME NEW j \in 0 .. e - 1 PROVE n >= Pow10[Precision + j]
  <2>1. j \in 0 .. n /\ j \notin Enough /\ Precision + j \in Nat
      BY <1>2, PrecisionNat
  <2> QED BY <2>1, PowerType
<1> QED BY <1>2, <1>3 DEF Exponent

(* A number with so many digits has no more zeros.                         *)
LEMMA ExponentBelow ==
  ASSUME NEW n \in Nat, NEW e \in Nat, n < Pow10[Precision + e]
  PROVE  Exponent(n) <= e
<1>1. Exponent(n) \in Nat
    BY ExponentIs
<1>2. Pow10[Precision + e] \in Nat
    BY PrecisionNat, PowerType
<1> QED BY <1>1, <1>2, ExponentIs

(* And one with more digits has more.                                      *)
LEMMA ExponentAbove ==
  ASSUME NEW n \in Nat, NEW e \in Nat, n >= Pow10[Precision + e]
  PROVE  Exponent(n) > e
<1>1. Exponent(n) \in Nat /\ n < Pow10[Precision + Exponent(n)]
    BY ExponentIs
<1>2. Pow10[Precision + e] \in Nat /\ Pow10[Precision + Exponent(n)] \in Nat
    BY <1>1, PrecisionNat, PowerType
<1>3. Exponent(n) <= e => Pow10[Precision + Exponent(n)] <= Pow10[Precision + e]
    BY <1>1, PrecisionNat, PowerGrows
<1> QED BY <1>1, <1>2, <1>3

(* A number of so many digits and zeros behind them is a multiple of the   *)
(* unit it is rounded to.                                                  *)
LEMMA ShortIsMultiple ==
  ASSUME NEW q \in Nat, NEW k \in Nat, q < Pow10[Precision]
  PROVE  LET n == q * Pow10[k] IN n \in Nat /\ n % Pow10[Exponent(n)] = 0
<1> DEFINE n == q * Pow10[k]
           P == Pow10[Precision]
           K == Pow10[k]
<1>1. P \in Nat /\ K \in Nat \ {0} /\ n \in Nat /\ q < P
    BY PrecisionNat, PowerType, Products
<1>2. n < P * K
  <2> HIDE DEF P, K
  <2>1. q * K + K <= P * K /\ q * K \in Nat /\ P * K \in Nat
      BY <1>1, Products
  <2> QED BY <1>1, <2>1 DEF K
<1>3. n < Pow10[Precision + k]
    BY <1>2, PrecisionNat, PowerSum
<1> HIDE DEF n
<1>4. Exponent(n) \in Nat /\ Exponent(n) <= k
    BY <1>1, <1>3, ExponentIs, ExponentBelow
<1> DEFINE e == Exponent(n)
           U == Pow10[e]
           m == Pow10[k - e]
<1>5. K = m * U /\ m \in Nat /\ U \in Nat \ {0}
    BY <1>4, PowerGrows, PowerType
<1> HIDE DEF K, m, e, U, P
<1>6. n = (q * m) * U + 0 /\ q * m \in Nat /\ 0 \in 0 .. U - 1
    BY <1>1, <1>5, Products DEF n, K
<1>7. n % U = 0
    BY <1>5, <1>6, Divided
<1> QED BY <1>1, <1>7 DEF n, U, e

(* What rounding does, in units of the last digit that is kept.            *)
Up(q, over, unit) == 2 * over > unit \/ (2 * over = unit /\ q % 2 = 1)

(* Rounding in terms of quotient and remainder: one more if the remainder  *)
(* is more than half a unit, or half a unit and the quotient is odd.       *)
LEMMA RoundedIs ==
  ASSUME NEW n \in Nat
  PROVE  LET unit == Pow10[Exponent(n)]
             q == n \div unit
             over == n % unit
         IN /\ unit \in Nat \ {0} /\ q \in Nat /\ over \in 0 .. unit - 1 /\ n = q * unit + over
            /\ Rounded(n) = IF Up(q, over, unit) THEN q * unit + unit ELSE q * unit
<1> DEFINE unit == Pow10[Exponent(n)]
           q == n \div unit
           over == n % unit
<1>1. unit \in Nat \ {0}
    BY ExponentIs, PowerType
<1>2. Rounded(n) = IF 2 * over > unit \/ (2 * over = unit /\ ((n - over) \div unit) % 2 = 1)
                   THEN (n - over) + unit ELSE n - over
    BY DEF Rounded, Exponent
<1> HIDE DEF unit
<1>3. q \in Nat /\ over \in 0 .. unit - 1 /\ n = q * unit + over
    BY <1>1, Division
<1> HIDE DEF q, over
<1>4. q * unit \in Nat
    BY <1>1, <1>3, Products
<1>5. n - over = q * unit /\ (n - over) \div unit = q
  <2>1. n - over = q * unit
      BY <1>3, <1>4
  <2>2. (q * unit + 0) \div unit = q /\ q * unit + 0 = q * unit
      BY <1>1, <1>3, <1>4, Divided
  <2> QED BY <2>1, <2>2
<1>6. Rounded(n) = IF Up(q, over, unit) THEN q * unit + unit ELSE q * unit
    BY <1>2, <1>5 DEF Up
<1> QED BY <1>1, <1>3, <1>6 DEF unit, q, over

(* It is rounded to a number.                                              *)
LEMMA RoundedType ==
  ASSUME NEW n \in Nat
  PROVE  Rounded(n) \in Nat
<1> DEFINE unit == Pow10[Exponent(n)]
           q == n \div unit
           over == n % unit
<1>1. /\ unit \in Nat \ {0} /\ q \in Nat
      /\ Rounded(n) = IF Up(q, over, unit) THEN q * unit + unit ELSE q * unit
    BY RoundedIs
<1> HIDE DEF unit, q, over
<1> QED BY <1>1, Products

(* A number is rounded to itself when it is a multiple, and only then.     *)
LEMMA RoundedSame ==
  ASSUME NEW n \in Nat
  PROVE  Rounded(n) = n <=> n % Pow10[Exponent(n)] = 0
<1> DEFINE unit == Pow10[Exponent(n)]
           q == n \div unit
           over == n % unit
<1>1. /\ unit \in Nat \ {0} /\ q \in Nat /\ over \in 0 .. unit - 1 /\ n = q * unit + over
      /\ Rounded(n) = IF Up(q, over, unit) THEN q * unit + unit ELSE q * unit
    BY RoundedIs
<1> HIDE DEF unit, q, over
<1>2. q * unit \in Nat
    BY <1>1, Products
<1>3. over = 0 => ~Up(q, over, unit)
    BY <1>1 DEF Up
<1>4. Rounded(n) = n <=> over = 0
    BY <1>1, <1>2, <1>3
<1> QED BY <1>4 DEF over, unit

(* What is written with zeros behind it is rounded as it was without.      *)
LEMMA RoundedScales ==
  ASSUME NEW value \in Nat, NEW j \in Nat
  PROVE  Rounded(value * Pow10[j]) = Rounded(value) * Pow10[j]
<1> DEFINE J == Pow10[j]
           w == value * J
           e == Exponent(value)
<1>1. J \in Nat \ {0} /\ w \in Nat /\ e \in Nat
    BY PowerType, Products, ExponentIs
<1>2. CASE e = 0
  <2>1. value < Pow10[Precision]
    <3>1. Precision + 0 = Precision
        BY PrecisionNat
    <3> QED BY <1>2, <3>1, ExponentIs
  <2>2. w % Pow10[Exponent(w)] = 0
      BY <2>1, ShortIsMultiple
  <2>3. Rounded(w) = w
    <3> HIDE DEF w
    <3> QED BY <1>1, <2>2, RoundedSame
  <2>4. value % Pow10[Exponent(value)] = 0
      BY <1>2, PowerIs
  <2>5. Rounded(value) = value
      BY <2>4, RoundedSame
  <2> QED BY <2>3, <2>5
<1>3. CASE e # 0
  <2> DEFINE unit == Pow10[e]
             q == value \div unit
             over == value % unit
             U == Pow10[Exponent(w)]
  <2>1. /\ unit \in Nat \ {0} /\ q \in Nat /\ over \in 0 .. unit - 1 /\ value = q * unit + over
        /\ Rounded(value) = IF Up(q, over, unit) THEN q * unit + unit ELSE q * unit
      BY RoundedIs
  <2>2. Exponent(w) = e + j
    <3>1. /\ Precision + (e + j) = (Precision + e) + j /\ Precision + (e + j - 1) = (Precision + (e - 1)) + j
          /\ Precision + e \in Nat /\ Precision + (e - 1) \in Nat /\ e + j - 1 \in Nat /\ e - 1 \in 0 .. e - 1
        BY <1>1, <1>3, PrecisionNat
    <3> DEFINE A == Pow10[Precision + e]
               B == Pow10[Precision + (e - 1)]
    <3>2. /\ A \in Nat /\ B \in Nat
          /\ Pow10[Precision + (e + j)] = A * J /\ Pow10[Precision + (e + j - 1)] = B * J
        BY <3>1, PowerSum, PowerType
    <3>3. value < A /\ value >= B
        BY <3>1, ExponentIs
    <3> HIDE DEF A, B, J, e
    <3>4. w < A * J /\ w >= B * J
        BY <1>1, <3>2, <3>3, Products
    <3> HIDE DEF w
    <3>5. e + j \in Nat /\ e + j - 1 \in Nat /\ w < Pow10[Precision + (e + j)] /\ w >= Pow10[Precision + (e + j - 1)]
        BY <1>1, <3>1, <3>2, <3>4
    <3>6. Exponent(w) <= e + j /\ Exponent(w) > e + j - 1 /\ Exponent(w) \in Nat
        BY <1>1, <3>5, ExponentBelow, ExponentAbove, ExponentIs
    <3> QED BY <1>1, <3>5, <3>6
  <2>3. U = unit * J
      BY <1>1, <2>2, PowerSum
  <2> HIDE DEF J, e, unit, q, over
  <2>4. w = q * U + over * J /\ over * J \in 0 .. U - 1 /\ U \in Nat \ {0}
    <3>1. (q * unit + over) * J = q * (unit * J) + over * J
        BY <1>1, <2>1
    <3>2. over < unit /\ over \in Nat
        BY <2>1
    <3>3. over * J + J <= unit * J /\ over * J \in Nat /\ unit * J \in Nat
        BY <1>1, <2>1, <3>2, Products
    <3> HIDE DEF U
    <3> QED BY <1>1, <2>1, <2>3, <3>1, <3>3
  <2>5. w \div U = q /\ w % U = over * J
    <3> HIDE DEF U, w
    <3> QED BY <2>1, <2>4, Divided
  <2>6. Rounded(w) = IF Up(q, over * J, U) THEN q * U + U ELSE q * U
    <3> HIDE DEF w
    <3> QED BY <1>1, <2>5, RoundedIs
  <2>7. Up(q, over * J, U) <=> Up(q, over, unit)
    <3>1. 2 * (over * J) = (2 * over) * J /\ 2 * over \in Nat /\ unit \in Nat
        BY <1>1, <2>1
    <3>2. (2 * over > unit <=> (2 * over) * J > unit * J) /\ (2 * over = unit <=> (2 * over) * J = unit * J)
      <4> DEFINE t == 2 * over
      <4>1. t \in Nat /\ t * J \in Nat /\ unit * J \in Nat
          BY <1>1, <3>1, Products
      <4> HIDE DEF t
      <4>2. t < unit => t * J < unit * J
          BY <1>1, <3>1, <4>1, Products
      <4>3. unit < t => unit * J < t * J
          BY <1>1, <3>1, <4>1, Products
      <4>4. (t > unit <=> t * J > unit * J) /\ (t = unit <=> t * J = unit * J)
          BY <3>1, <4>1, <4>2, <4>3
      <4> QED BY <4>4 DEF t
    <3> HIDE DEF U
    <3> QED BY <2>3, <3>1, <3>2 DEF Up
  <2>8. (q * unit + unit) * J = q * (unit * J) + unit * J /\ (q * unit) * J = q * (unit * J)
      BY <1>1, <2>1
  <2> HIDE DEF U, w
  <2>9. Rounded(w) = Rounded(value) * J
      BY <2>1, <2>3, <2>6, <2>7, <2>8
  <2> QED BY <2>9 DEF w, J
<1> QED BY <1>2, <1>3

-----------------------------------------------------------------------------
(* A Decimal holds multiples of the unit a number is rounded to only.      *)
LEMMA HeldIsMultiple ==
  ASSUME NEW n \in Nat, Held(n)
  PROVE  n % Pow10[Exponent(n)] = 0
<1>1. PICK k \in 0 .. MaxDecimals + Precision : n % Pow10[k] = 0 /\ n \div Pow10[k] < Pow10[Precision]
    BY DEF Held
<1> DEFINE K == Pow10[k]
           q == n \div K
<1>2. k \in Nat /\ K \in Nat \ {0}
    BY PrecisionNat, PowerType
<1>3. q \in Nat /\ n = q * K + (n % K) /\ n % K = 0 /\ q < Pow10[Precision]
  <2> HIDE DEF K
  <2>1. q \in Nat /\ n = q * K + (n % K)
      BY <1>2, Division
  <2> QED BY <1>1, <2>1 DEF K
<1>4. n = q * Pow10[k]
  <2> HIDE DEF q
  <2>1. q * K \in Nat
      BY <1>2, <1>3, Products
  <2> HIDE DEF K
  <2>2. n = q * K
      BY <1>3, <2>1
  <2> QED BY <2>2 DEF K
<1> HIDE DEF q, K
<1> QED BY <1>2, <1>3, <1>4, ShortIsMultiple

(* The other direction, for numbers no larger than a Decimal of a token    *)
(* can be asked to hold.                                                   *)
LEMMA MultipleIsHeld ==
  ASSUME NEW n \in Nat, n < Pow10[MaxDecimals + Precision], n % Pow10[Exponent(n)] = 0
  PROVE  Held(n)
<1> DEFINE k == Exponent(n)
           K == Pow10[k]
           q == n \div K
           P == Pow10[Precision]
<1>1. k \in Nat /\ k <= MaxDecimals
  <2>1. Precision + MaxDecimals = MaxDecimals + Precision
      BY PrecisionNat
  <2> QED BY <2>1, PrecisionNat, ExponentIs, ExponentBelow
<1>2. k \in 0 .. MaxDecimals + Precision
    BY <1>1, PrecisionNat
<1>3. K \in Nat \ {0} /\ P \in Nat /\ n < P * K
  <2>1. n < Pow10[Precision + k] /\ Pow10[Precision + k] = P * K
      BY <1>1, PrecisionNat, ExponentIs, PowerSum
  <2> QED BY <1>1, <2>1, PrecisionNat, PowerType
<1> HIDE DEF K, P
<1>4. q \in Nat /\ n = q * K + (n % K) /\ n % K \in Nat
    BY <1>3, Division
<1> HIDE DEF q
<1>5. q < P
  <2>1. P <= q => P * K <= q * K
      BY <1>3, <1>4, Products
  <2>2. q * K \in Nat /\ P * K \in Nat
      BY <1>3, <1>4, Products
  <2> QED BY <1>3, <1>4, <2>1, <2>2
<1>6. n % Pow10[k] = 0 /\ n \div Pow10[k] < Pow10[Precision]
    BY <1>5 DEF q, K, P
<1> HIDE DEF k
<1> QED BY <1>2, <1>6 DEF Held

(* Nothing of so many digits is nearer than the rounded number.            *)
LEMMA RoundedNearest ==
  ASSUME NEW w \in Nat, NEW n \in Nat, n % Pow10[Exponent(n)] = 0
  PROVE  Off(Rounded(w), w) <= Off(n, w)
<1> DEFINE e == Exponent(w)
           unit == Pow10[e]
           q == w \div unit
           over == w % unit
           R == Rounded(w)
<1>1. /\ unit \in Nat \ {0} /\ q \in Nat /\ over \in 0 .. unit - 1 /\ w = q * unit + over
      /\ R = IF Up(q, over, unit) THEN q * unit + unit ELSE q * unit
    BY RoundedIs
<1>2. e \in Nat
    BY ExponentIs
<1>3. q * unit \in Nat
  <2> HIDE DEF unit, q
  <2> QED BY <1>1, Products
<1>4. Off(R, w) <= over /\ Off(R, w) <= unit - over
  <2> HIDE DEF unit, q, over, R
  <2> DEFINE b == q * unit
  <2>1. b \in Nat /\ w = b + over /\ R = IF Up(q, over, unit) THEN b + unit ELSE b
      BY <1>1, <1>3
  <2> HIDE DEF b
  <2> QED BY <1>1, <2>1 DEF Off, Up
<1>5. CASE n <= q * unit
  <2> HIDE DEF unit, q, over, R
  <2> DEFINE b == q * unit
  <2>1. b \in Nat /\ w = b + over /\ n <= b
      BY <1>1, <1>3, <1>5
  <2> HIDE DEF b
  <2>2. Off(n, w) >= over
      BY <1>1, <2>1 DEF Off
  <2>3. Off(R, w) \in Int /\ Off(n, w) \in Int
    <3>1. R \in Int
        BY <1>1, <1>3
    <3> QED BY <3>1 DEF Off
  <2> QED BY <1>1, <1>4, <2>2, <2>3 DEF R
<1>6. CASE q * unit < n
  <2>1. Exponent(n) >= e
    <3> SUFFICES ASSUME Exponent(n) < e PROVE FALSE
        BY <1>2, ExponentIs
    <3>1. /\ Exponent(n) \in Nat /\ e - 1 \in Nat /\ Exponent(n) <= e - 1 /\ n < Pow10[Precision + Exponent(n)]
          /\ e - 1 \in 0 .. e - 1
        BY <1>2, ExponentIs
    <3>2. w >= Pow10[Precision + (e - 1)]
        BY <3>1, ExponentIs
    <3> DEFINE L == Pow10[Precision + (e - 1)]
               M == Pow10[Precision - 1]
    <3>3. n < L /\ L \in Nat
      <4>1. Precision + Exponent(n) \in Nat /\ Precision + (e - 1) \in Nat /\ Precision + Exponent(n) <= Precision + (e - 1)
          BY <3>1, PrecisionNat
      <4> QED BY <3>1, <4>1, PowerGrows, PowerType
    <3>4. L = M * unit /\ M \in Nat
      <4>1. Precision - 1 \in Nat /\ (Precision - 1) + e = Precision + (e - 1)
          BY <1>2, PrecisionNat
      <4> QED BY <1>2, <4>1, PowerSum, PowerType
    <3> HIDE DEF L, M, unit, q, over, R, e
    <3>5. w >= M * unit
        BY <3>2, <3>4 DEF L
    <3>6. M <= q
      <4> SUFFICES ASSUME q < M PROVE FALSE
          BY <1>1, <3>4
      <4>1. q * unit + unit <= M * unit /\ M * unit \in Nat
          BY <1>1, <3>4, Products
      <4> QED BY <1>1, <1>3, <3>5, <4>1
    <3>7. M * unit <= q * unit
        BY <1>1, <3>4, <3>6, Products
    <3> QED BY <1>3, <1>6, <3>3, <3>4, <3>7
  <2> DEFINE E == Exponent(n)
             V == Pow10[E]
             p == n \div V
             x == Pow10[E - e]
  <2>2. V = x * unit /\ x \in Nat /\ V \in Nat \ {0} /\ n % V = 0
    <3>1. E \in Nat /\ n % V = 0
        BY ExponentIs
    <3> HIDE DEF E, e
    <3>2. e <= E
        BY <2>1 DEF E
    <3> QED BY <1>2, <3>1, <3>2, PowerGrows, PowerType
  <2> HIDE DEF V, x, unit, q, over, R
  <2>3. p \in Nat /\ n = p * V + (n % V)
      BY <2>2, Division
  <2> HIDE DEF p
  <2> DEFINE y == p * x
  <2>4. n = y * unit /\ y \in Nat
    <3>1. p * V = y * unit /\ y \in Nat /\ p * V \in Nat
        BY <1>1, <2>2, <2>3, Products
    <3> QED BY <2>2, <2>3, <3>1
  <2> HIDE DEF y
  <2>5. q < y
    <3> SUFFICES ASSUME y <= q PROVE FALSE
        BY <1>1, <2>4
    <3>1. y * unit <= q * unit
        BY <1>1, <2>4, Products
    <3> QED BY <1>3, <1>6, <2>4, <3>1
  <2>6. q * unit + unit <= n
      BY <1>1, <2>4, <2>5, Products
  <2>7. Off(n, w) >= unit - over
    <3> DEFINE b == q * unit
    <3>1. b \in Nat /\ w = b + over /\ b + unit <= n
        BY <1>1, <1>3, <2>6
    <3> HIDE DEF b
    <3> QED BY <1>1, <3>1 DEF Off
  <2>8. Off(R, w) \in Int /\ Off(n, w) \in Int
    <3>1. R \in Int
        BY <1>1, <1>3
    <3> QED BY <3>1 DEF Off
  <2> QED BY <1>1, <1>4, <2>7, <2>8 DEF R
<1>7. n <= q * unit \/ q * unit < n
  <2> HIDE DEF unit, q
  <2> QED BY <1>3
<1> QED BY <1>5, <1>6, <1>7

(* A balance is not rounded to one beyond the largest.                     *)
LEMMA RoundedFits ==
  ASSUME NEW w \in Nat, w <= MAX_U256
  PROVE  Rounded(w) <= MAX_U256
<1> DEFINE m == MAX_U256
           e == Exponent(w)
           f == Exponent(m)
           unit == Pow10[e]
           q == w \div unit
           over == w % unit
           R == Rounded(w)
<1>1. /\ unit \in Nat \ {0} /\ q \in Nat /\ over \in 0 .. unit - 1 /\ w = q * unit + over
      /\ R = IF Up(q, over, unit) THEN q * unit + unit ELSE q * unit
    BY RoundedIs
<1>2. m \in Nat /\ e \in Nat /\ f \in Nat
    BY PrecisionNat, ExponentIs
<1>3. q * unit \in Nat
  <2> HIDE DEF unit, q
  <2> QED BY <1>1, Products
<1>4. Rounded(m) <= m /\ Rounded(m) \in Nat
    BY BalanceAssumption, PrecisionNat, RoundedType
<1>5. e <= f
  <2>1. m < Pow10[Precision + f] /\ Pow10[Precision + f] \in Nat
      BY <1>2, PrecisionNat, ExponentIs, PowerType
  <2>2. w < Pow10[Precision + f]
      BY <1>2, <2>1
  <2> QED BY <1>2, <2>2, ExponentBelow
<1>6. CASE e < f
  <2> DEFINE P == Pow10[Precision]
  <2>1. w < P * unit /\ P \in Nat
    <3>1. w < Pow10[Precision + e] /\ Pow10[Precision + e] = P * unit
        BY <1>2, PrecisionNat, ExponentIs, PowerSum
    <3> QED BY <3>1, PrecisionNat, PowerType
  <2>2. m >= P * unit
    <3>1. e \in 0 .. f - 1
        BY <1>2, <1>6
    <3>2. m >= Pow10[Precision + e] /\ Pow10[Precision + e] = P * unit
        BY <1>2, <3>1, PrecisionNat, ExponentIs, PowerSum
    <3> QED BY <3>2
  <2> HIDE DEF P, unit, q, over, R, m
  <2>3. q < P
    <3> SUFFICES ASSUME P <= q PROVE FALSE
        BY <1>1, <2>1
    <3>1. P * unit <= q * unit /\ P * unit \in Nat
        BY <1>1, <2>1, Products
    <3> QED BY <1>1, <1>3, <2>1, <3>1
  <2>4. q * unit + unit <= P * unit /\ P * unit \in Nat
      BY <1>1, <2>1, <2>3, Products
  <2>5. R <= m
      BY <1>1, <1>2, <1>3, <2>2, <2>4
  <2> QED BY <2>5 DEF R, m
<1>7. CASE e = f
  <2> DEFINE Q == m \div unit
             past == m % unit
  <2>1. /\ Q \in Nat /\ past \in 0 .. unit - 1 /\ m = Q * unit + past
        /\ Rounded(m) = IF Up(Q, past, unit) THEN Q * unit + unit ELSE Q * unit
      BY <1>2, <1>7, RoundedIs
  <2> HIDE DEF unit, q, over, R, m, Q, past
  <2>2. Q * unit \in Nat
      BY <1>1, <2>1, Products
  <2>3. ~Up(Q, past, unit)
      BY <1>1, <1>4, <2>1, <2>2
  <2>4. CASE q < Q
    <3>1. q * unit + unit <= Q * unit
        BY <1>1, <2>1, <2>4, Products
    <3> QED BY <1>1, <1>3, <2>1, <2>2, <3>1 DEF R, m
  <2>5. CASE q = Q
    <3>1. over <= past
      <4>1. w <= m
          BY DEF m
      <4> QED BY <1>1, <1>3, <2>1, <2>5, <4>1
    <3>2. ~Up(q, over, unit)
        BY <1>1, <2>1, <2>3, <2>5, <3>1 DEF Up
    <3> QED BY <1>1, <1>3, <2>1, <2>2, <2>5, <3>2 DEF R, m
  <2>6. CASE Q < q
    <3>1. Q * unit + unit <= q * unit
        BY <1>1, <2>1, <2>6, Products
    <3>2. w <= m
        BY DEF m
    <3> QED BY <1>1, <1>3, <2>1, <2>2, <3>1, <3>2
  <2> QED BY <1>1, <2>1, <2>4, <2>5, <2>6
<1> QED BY <1>2, <1>5, <1>6, <1>7

-----------------------------------------------------------------------------
(* What is a multiple does not count in a remainder.                       *)
LEMMA Remainder ==
  ASSUME NEW a \in Nat, NEW b \in Nat, NEW m \in Nat \ {0}
  PROVE  (a * m + b) % m = b % m
<1> DEFINE q == b \div m
           r == b % m
           p == a + q
<1>1. q \in Nat /\ r \in 0 .. m - 1 /\ q * m + r = b
    BY Division
<1> HIDE DEF q, r
<1>2. p \in Nat /\ a * m + b = p * m + r
    BY <1>1
<1> HIDE DEF p
<1>3. (p * m + r) % m = r
    BY <1>1, <1>2, Divided
<1> QED BY <1>2, <1>3 DEF r

(* There is a number of places that loses nothing, and it is the least     *)
(* one.                                                                    *)
LEMMA PlacesFound ==
  ASSUME NEW f \in Nat, NEW decimals \in Nat
  PROVE  LET k == Places(f, decimals)
         IN /\ k \in 0 .. decimals /\ f % Pow10[decimals - k] = 0
            /\ \A j \in 0 .. k - 1 : f % Pow10[decimals - j] # 0
<1> DEFINE Enough == {k \in 0 .. decimals : f % Pow10[decimals - k] = 0}
<1>1. decimals \in Enough
  <2>1. decimals - decimals = 0 /\ f % 1 = 0
      OBVIOUS
  <2> QED BY <2>1, PowerIs
<1>2. PICK k \in Enough : \A j \in Enough : k <= j
  <2>1. Enough \in SUBSET Nat
      OBVIOUS
  <2> HIDE DEF Enough
  <2> QED BY <1>1, <2>1, LeastNatural
<1>3. \A j \in 0 .. k - 1 : f % Pow10[decimals - j] # 0
    BY <1>2
<1> QED BY <1>2, <1>3 DEF Places

(* The digits of the text, with zeros behind them, are the balance, and it *)
(* has as few places as can be.                                            *)
LEMMA FormatIs ==
  ASSUME NEW w \in Nat, NEW d \in Nat
  PROVE  LET text == formatBalance(w, d)
             k == text.places
             value == text.whole * Pow10[k] + text.fraction
         IN /\ k \in 0 .. d /\ text.whole \in Nat /\ text.fraction \in Nat
            /\ text = [whole |-> text.whole, places |-> k, fraction |-> text.fraction]
            /\ value \in Nat /\ w = value * Pow10[d - k]
            /\ w = text.whole * Pow10[d] + text.fraction * Pow10[d - k]
            /\ \A j \in 0 .. k - 1 : w % Pow10[d - j] # 0
            /\ k = 0 => text.fraction = 0
<1> DEFINE D == Pow10[d]
           f == w % D
           k == Places(f, d)
           K == Pow10[k]
           U == Pow10[d - k]
           whole == w \div D
           fraction == f \div U
           value == whole * K + fraction
<1>1. formatBalance(w, d) = [whole |-> whole, places |-> k, fraction |-> fraction]
    BY DEF formatBalance
<1>2. D \in Nat \ {0}
    BY PowerType
<1>3. whole \in Nat /\ f \in 0 .. D - 1 /\ w = whole * D + f
  <2> HIDE DEF D
  <2> QED BY <1>2, Division
<1>4. k \in 0 .. d /\ f % U = 0 /\ \A j \in 0 .. k - 1 : f % Pow10[d - j] # 0
  <2> HIDE DEF f
  <2> QED BY <1>3, PlacesFound
<1> HIDE DEF f, k, whole
<1>5. K \in Nat \ {0} /\ U \in Nat \ {0} /\ D = K * U
  <2>1. k \in Nat /\ k <= d
      BY <1>4
  <2>2. D = U * K /\ U \in Nat \ {0} /\ K \in Nat \ {0}
      BY <2>1, PowerGrows, PowerType
  <2> HIDE DEF U, K
  <2> QED BY <2>2, Products
<1>6. fraction \in Nat /\ f = fraction * U
  <2> HIDE DEF U
  <2>1. fraction \in Nat /\ f = fraction * U + (f % U)
      BY <1>3, <1>5, Division
  <2> HIDE DEF fraction
  <2>2. fraction * U \in Nat
      BY <1>5, <2>1, Products
  <2> QED BY <1>4, <2>1, <2>2 DEF U
<1>7. value \in Nat /\ w = value * U
  <2> HIDE DEF K, U, D, fraction
  <2>1. value \in Nat
      BY <1>3, <1>5, <1>6, Products
  <2>2. (whole * K + fraction) * U = whole * (K * U) + fraction * U
      BY <1>3, <1>5, <1>6
  <2> QED BY <1>3, <1>5, <1>6, <2>1, <2>2
<1>8. ASSUME NEW j \in 0 .. k - 1 PROVE w % Pow10[d - j] # 0
  <2> DEFINE V == Pow10[d - j]
             J == Pow10[j]
             a == whole * J
  <2>1. j \in Nat /\ j <= d
      BY <1>4
  <2>2. V \in Nat \ {0} /\ J \in Nat /\ D = V * J
      BY <2>1, PowerGrows, PowerType
  <2> HIDE DEF V, J, D
  <2>3. a \in Nat /\ w = a * V + f /\ f \in Nat
    <3>1. a \in Nat /\ J * V = V * J /\ whole * (J * V) = (whole * J) * V
        BY <1>3, <2>2, Products
    <3> QED BY <1>3, <2>2, <3>1
  <2> HIDE DEF a
  <2>4. w % V = f % V
      BY <2>2, <2>3, Remainder
  <2> QED BY <1>4, <2>4 DEF V
<1>9. k = 0 => fraction = 0
  <2> SUFFICES ASSUME k = 0, fraction # 0 PROVE FALSE
      BY <1>6
  <2>1. U = D
      BY <1>4 DEF U, D
  <2> HIDE DEF fraction, U, D
  <2>2. D <= fraction * D /\ fraction * D \in Nat
      BY <1>2, <1>6, Products
  <2> QED BY <1>2, <1>3, <1>6, <2>1, <2>2
<1> HIDE DEF fraction, K
<1>10. w = whole * D + fraction * U
    BY <1>3, <1>6
<1> QED BY <1>1, <1>3, <1>4, <1>6, <1>7, <1>8, <1>9, <1>10 DEF D, U, K

(* TypeScript reads what either SDK writes.                                *)
LEMMA TsReads ==
  ASSUME NEW w \in Nat, NEW d \in Nat
  PROVE  TsReadsBack(w, d)
<1> DEFINE text == formatBalance(w, d)
           k == text.places
           D == Pow10[d]
           U == Pow10[d - k]
<1>1. /\ k \in 0 .. d /\ text.whole \in Nat /\ text.fraction \in Nat
      /\ text = [whole |-> text.whole, places |-> k, fraction |-> text.fraction]
      /\ w = text.whole * D + text.fraction * U
      /\ k = 0 => text.fraction = 0
    BY FormatIs
<1>2. parseBalance(text, d) = IF w <= MAX_U256 THEN w ELSE Thrown
  <2> HIDE DEF text
  <2> QED BY <1>1, PrecisionNat DEF parseBalance
<1>3. format_balance(w, d) = IF d = 0 THEN Unwritten
                             ELSE IF k = 0 THEN [text EXCEPT !.places = 1] ELSE text
    BY DEF format_balance
<1> HIDE DEF text
<1>4. format_balance(w, d) = Unwritten <=> d = 0
  <2>1. Unwritten.whole \notin Nat
      BY DEF Unwritten, Thrown
  <2>2. CASE d = 0
      BY <1>3, <2>2
  <2>3. CASE d # 0
    <3>1. format_balance(w, d).whole = text.whole
        BY <1>1, <1>3, <2>3
    <3> QED BY <1>1, <2>1, <2>3, <3>1
  <2> QED BY <2>2, <2>3
<1>5. ASSUME d # 0 PROVE parseBalance(format_balance(w, d), d) = parseBalance(text, d)
  <2>1. CASE k # 0
      BY <1>3, <1>5, <2>1
  <2>2. CASE k = 0
    <3> DEFINE point == [text EXCEPT !.places = 1]
               V == Pow10[d - 1]
    <3>1. /\ format_balance(w, d) = point
          /\ point.whole = text.whole /\ point.places = 1 /\ point.fraction = 0
        BY <1>1, <1>3, <1>5, <2>2
    <3>2. U \in Nat /\ V \in Nat
      <4>1. d - k \in Nat /\ d - 1 \in Nat
          BY <1>1, <1>5
      <4> QED BY <4>1, PowerType
    <3>3. text.fraction * U = 0 /\ point.fraction * V = 0
      <4> HIDE DEF U, V, point
      <4> QED BY <1>1, <2>2, <3>1, <3>2
    <3>4. ~(point.places > d) /\ ~(text.places > d)
        BY <1>1, <1>5, <3>1
    <3> HIDE DEF point
    <3> QED BY <3>1, <3>3, <3>4 DEF parseBalance
  <2> QED BY <2>1, <2>2
<1> QED BY <1>2, <1>4, <1>5 DEF TsReadsBack, text

(* Python rounds the balance, and nothing else happens to it.              *)
LEMMA PyReadsRounded ==
  ASSUME NEW w \in Nat, NEW d \in Nat
  PROVE  parse_balance(formatBalance(w, d), d) = IF Rounded(w) > MAX_U256 THEN Thrown ELSE Rounded(w)
<1> DEFINE text == formatBalance(w, d)
           k == text.places
           K == Pow10[k]
           value == text.whole * K + text.fraction
           U == Pow10[d - k]
           R == Rounded(value)
<1>1. k \in 0 .. d /\ value \in Nat /\ w = value * U
    BY FormatIs
<1>2. K \in Nat \ {0} /\ U \in Nat \ {0} /\ Pow10[d] = U * K
  <2>1. d - k \in Nat /\ k \in Nat /\ (d - k) + k = d
      BY <1>1
  <2> HIDE DEF k
  <2> QED BY <2>1, PowerSum, PowerType
<1>3. Rounded(w) = R * U /\ R \in Nat
  <2>1. d - k \in Nat
      BY <1>1
  <2> HIDE DEF value, k
  <2> QED BY <1>1, <2>1, RoundedScales, RoundedType
<1>4. (R * Pow10[d]) \div K = R * U
  <2> DEFINE x == R * U
  <2> HIDE DEF R, K, U
  <2>1. x \in Nat /\ R * Pow10[d] = x * K + 0
      BY <1>2, <1>3, Products
  <2> HIDE DEF x
  <2>2. (x * K + 0) \div K = x
      BY <1>2, <2>1, Divided
  <2> QED BY <2>1, <2>2 DEF x
<1>5. parse_balance(text, d) = LET wei == (R * Pow10[d]) \div K IN IF wei > MAX_U256 THEN Thrown ELSE wei
    BY DEF parse_balance
<1> HIDE DEF R, K, U, text
<1> QED BY <1>3, <1>4, <1>5 DEF text

(* So Python reads a balance back if a Decimal holds it, and otherwise a   *)
(* nearest one.                                                            *)
LEMMA PyReadsTheNearest ==
  ASSUME NEW w \in Nat, NEW d \in Nat
  PROVE  PyReadsNearest(w, d)
<1> DEFINE read == parse_balance(formatBalance(w, d), d)
           Digits == Pow10[MaxDecimals + Precision]
<1> SUFFICES ASSUME w <= MAX_U256
             PROVE  /\ read = w <=> Held(w)
                    /\ \A n \in 0 .. MAX_U256 : Held(n) => Off(read, w) <= Off(n, w)
    BY DEF PyReadsNearest
<1>1. read = Rounded(w)
  <2>1. Rounded(w) <= MAX_U256 /\ Rounded(w) \in Nat
      BY RoundedFits, RoundedType
  <2> QED BY <2>1, PrecisionNat, PyReadsRounded
<1>2. MAX_U256 < Digits /\ Digits \in Nat /\ MAX_U256 \in Nat
    BY BalanceAssumption, PrecisionNat, PowerType
<1>3. w < Digits
  <2> HIDE DEF Digits
  <2> QED BY <1>2
<1> HIDE DEF read
<1>4. read = w <=> Held(w)
    BY <1>1, <1>3, RoundedSame, HeldIsMultiple, MultipleIsHeld
<1>5. ASSUME NEW n \in 0 .. MAX_U256, Held(n) PROVE Off(read, w) <= Off(n, w)
  <2>1. n \in Nat
      BY <1>2
  <2> QED BY <1>1, <1>5, <2>1, HeldIsMultiple, RoundedNearest
<1> QED BY <1>4, <1>5

(* A text with one place too many.                                         *)
LEMMA LongTextIsRead ==
  ASSUME NEW w \in Nat, NEW d \in Nat
  PROVE  LongTextRead(w, d)
<1> SUFFICES ASSUME w \div 10 <= MAX_U256
             PROVE  LET long == formatBalance(w, d + 1)
                    IN /\ parseBalance(long, d) = IF w % 10 = 0 THEN w \div 10 ELSE Thrown
                       /\ Held(w) => parse_balance(long, d) = w \div 10
    BY DEF LongTextRead
<1> DEFINE text == formatBalance(w, d + 1)
           k == text.places
           K == Pow10[k]
           D == Pow10[d]
           value == text.whole * K + text.fraction
           U == Pow10[d + 1 - k]
           R == Rounded(value)
<1>1. /\ k \in 0 .. d + 1 /\ text.whole \in Nat /\ text.fraction \in Nat /\ value \in Nat /\ w = value * U
      /\ \A j \in 0 .. k - 1 : w % Pow10[d + 1 - j] # 0
  <2> DEFINE e == d + 1
             t == formatBalance(w, e)
  <2>1. e \in Nat
      OBVIOUS
  <2> HIDE DEF e
  <2>2. /\ t.places \in 0 .. e /\ t.whole \in Nat /\ t.fraction \in Nat
        /\ t.whole * Pow10[t.places] + t.fraction \in Nat
        /\ w = (t.whole * Pow10[t.places] + t.fraction) * Pow10[e - t.places]
        /\ \A j \in 0 .. t.places - 1 : w % Pow10[e - j] # 0
      BY <2>1, FormatIs
  <2> QED BY <2>2 DEF e
<1>2. Pow10[1] = 10 /\ Pow10[0] = 1
  <2>1. Pow10[0 + 1] = 10 * Pow10[0]
      BY PowerIs
  <2> QED BY <2>1, PowerIs
<1>3. K \in Nat \ {0} /\ U \in Nat \ {0} /\ D \in Nat \ {0} /\ R \in Nat
  <2>1. d + 1 - k \in Nat /\ k \in Nat
      BY <1>1
  <2> HIDE DEF k, value
  <2> QED BY <1>1, <2>1, PowerType, RoundedType
<1>4. w \div 10 \in Nat /\ w % 10 \in Nat /\ w % 10 < 10 /\ w = (w \div 10) * 10 + (w % 10)
    OBVIOUS
<1>5. ASSUME Held(w) PROVE R = value
  <2>1. Rounded(w) = w
      BY <1>5, HeldIsMultiple, RoundedSame
  <2>2. d + 1 - k \in Nat
      BY <1>1
  <2> HIDE DEF value, k
  <2>3. R * U = value * U
      BY <1>1, <2>1, <2>2, RoundedScales
  <2> HIDE DEF R, U
  <2>4. (R < value => R * U + U <= value * U) /\ (value < R => value * U + U <= R * U) /\ value * U \in Nat
      BY <1>1, <1>3, Products
  <2> QED BY <1>1, <1>3, <2>3, <2>4
<1>6. parse_balance(text, d) = LET wei == (R * D) \div K IN IF wei > MAX_U256 THEN Thrown ELSE wei
    BY DEF parse_balance
<1>7. CASE k = d + 1
  <2>1. w % 10 # 0
    <3>1. d \in 0 .. k - 1 /\ d + 1 - d = 1
        BY <1>7
    <3> QED BY <1>1, <1>2, <3>1
  <2>2. parseBalance(text, d) = Thrown
      BY <1>7 DEF parseBalance
  <2>3. value = w
    <3>1. d + 1 - k = 0
        BY <1>7
    <3> HIDE DEF value, k
    <3> QED BY <1>1, <1>2, <3>1
  <2>4. K = 10 * D
      BY <1>7, PowerIs
  <2>5. (w * D) \div K = w \div 10
    <3> DEFINE a == w \div 10
               r == w % 10
               s == r * D
    <3> HIDE DEF K, D, a, r
    <3>1. a \in Nat /\ r \in Nat /\ r < 10 /\ w = a * 10 + r
        BY <1>4 DEF a, r
    <3>2. s + D <= 10 * D /\ s \in Nat
        BY <1>3, <3>1, Products
    <3>3. (a * 10 + r) * D = a * (10 * D) + s
        BY <1>3, <3>1
    <3> HIDE DEF s
    <3>4. w * D = a * K + s /\ s \in 0 .. K - 1
        BY <1>3, <2>4, <3>1, <3>2, <3>3
    <3>5. (a * K + s) \div K = a
        BY <1>3, <3>1, <3>4, Divided
    <3> QED BY <3>4, <3>5 DEF a
  <2>6. ASSUME Held(w) PROVE parse_balance(text, d) = w \div 10
    <3> HIDE DEF R, K, D, text, value
    <3> QED BY <1>4, <1>5, <1>6, <2>3, <2>5, <2>6, PrecisionNat
  <2> QED BY <2>1, <2>2, <2>6
<1>8. CASE k \in 0 .. d
  <2> DEFINE V == Pow10[d - k]
             x == value * V
  <2>1. V \in Nat \ {0} /\ U = 10 * V /\ D = V * K
    <3>1. d - k \in Nat /\ k \in Nat /\ (d - k) + 1 = d + 1 - k /\ (d - k) + k = d
        BY <1>8
    <3> HIDE DEF k
    <3> QED BY <3>1, PowerIs, PowerSum, PowerType
  <2> HIDE DEF K, D, U, V, R
  <2>2. x \in Nat /\ w = x * 10 + 0
    <3> HIDE DEF value
    <3>1. x \in Nat
        BY <1>1, <2>1, Products
    <3>2. value * (10 * V) = x * 10
        BY <1>1, <2>1
    <3> QED BY <1>1, <2>1, <3>1, <3>2
  <2>3. w % 10 = 0 /\ w \div 10 = x
    <3> HIDE DEF x
    <3> QED BY <2>2
  <2>4. parseBalance(text, d) = x
    <3>1. x = text.whole * D + text.fraction * V
      <4>1. (text.whole * K + text.fraction) * V = text.whole * (V * K) + text.fraction * V
        <5> HIDE DEF text
        <5> QED BY <1>1, <1>3, <2>1
      <4> QED BY <2>1, <4>1
    <3> HIDE DEF x
    <3>2. ~(k > d) /\ ~(x > MAX_U256)
        BY <1>8, <2>2, <2>3, PrecisionNat
    <3>3. parseBalance(text, d) = LET result == text.whole * D + text.fraction * V
                                  IN IF k > d \/ result > MAX_U256 THEN Thrown ELSE result
        BY DEF parseBalance, D, V
    <3> HIDE DEF text
    <3> QED BY <3>1, <3>2, <3>3
  <2>5. ASSUME Held(w) PROVE parse_balance(text, d) = x
    <3> HIDE DEF value, text
    <3>1. R * D = x * K + 0
        BY <1>1, <1>3, <1>5, <2>1, <2>5, Products
    <3> HIDE DEF x
    <3>2. (x * K + 0) \div K = x
        BY <1>3, <2>2, Divided
    <3> QED BY <1>6, <2>2, <2>3, <3>1, <3>2, PrecisionNat
  <2> HIDE DEF x, text
  <2> QED BY <2>3, <2>4, <2>5 DEF text
<1> QED BY <1>1, <1>7, <1>8

(* Every balance of every token is read back, by each SDK as far as it can *)
(* hold it: formatBalance and parseBalance, format_balance and             *)
(* parse_balance.                                                          *)
THEOREM BalancesReadBack ==
  ASSUME NEW w \in Nat, NEW d \in Nat
  PROVE  TsReadsBack(w, d) /\ PyReadsNearest(w, d) /\ LongTextRead(w, d)
BY TsReads, PyReadsTheNearest, LongTextIsRead

(* Whatever address or balance is written as text, and whatever mistake is *)
(* made in it, both SDKs read it as Texts says.                            *)
THEOREM TextsAreReadBack == TextSpec => []TextsReadBack
<1> DEFINE Taken == \/ sample = NoSample
                    \/ \E input \in [address : AddressSamples, place : 0 .. 2 * AddressBytes] :
                         sample = [kind |-> "typing", input |-> input]
                    \/ \E input \in Balances : sample = [kind |-> "balance", input |-> input]
<1>1. TextInit => Taken
    BY DEF TextInit
<1>2. Taken /\ [TextNext]_sample => Taken'
    BY DEF TextNext, Sample
<1>3. Taken => TextsReadBack
  <2> SUFFICES ASSUME Taken PROVE MistypedAddressRefused /\ BalancesComeBack
      BY DEF TextsReadBack
  <2>1. MistypedAddressRefused
    <3> SUFFICES ASSUME sample.kind = "typing"
                 PROVE  LET address == sample.input.address
                            i == sample.input.place
                        IN /\ AddressSurvives(address) /\ MistakeSeen(ToBech32(address), i)
                           /\ HexMistakeSeen(address, i)
        BY DEF MistypedAddressRefused
    <3>1. sample.input \in [address : AddressSamples, place : 0 .. 2 * AddressBytes]
        BY DEF NoSample
    <3>2. sample.input.address \in [1 .. AddressBytes -> Byte] /\ sample.input.place \in 0 .. 2 * AddressBytes
        BY <3>1, TextsAssumption
    <3> QED BY <3>2, AddressesReadBack
  <2>2. BalancesComeBack
    <3> SUFFICES ASSUME sample.kind = "balance"
                 PROVE  LET w == sample.input.wei
                            d == sample.input.decimals
                        IN TsReadsBack(w, d) /\ PyReadsNearest(w, d) /\ LongTextRead(w, d)
        BY DEF BalancesComeBack
    <3>1. sample.input \in Balances
        BY DEF NoSample
    <3>2. sample.input.wei \in Nat /\ sample.input.decimals \in Nat
        BY <3>1, TextsAssumption, PrecisionNat
    <3> QED BY <3>2, BalancesReadBack
  <2> QED BY <2>1, <2>2
<1> QED BY <1>1, <1>2, <1>3, PTL DEF TextSpec
=============================================================================
