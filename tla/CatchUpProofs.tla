---------------------------- MODULE CatchUpProofs ----------------------------
(***************************************************************************)
(* What holds of CatchUp for every schedule, cap and queue size: which     *)
(* instants missedFires lists, that no instant is lost silently, and that  *)
(* the cursor stops repeats.                                               *)
(***************************************************************************)
EXTENDS CatchUp, FiniteSetTheorems, WellFoundedInduction, TLAPS

USE ClockAssumption, CatchUpAssumption DEF Never

-----------------------------------------------------------------------------
(* The instants of the schedule. *)

\* Every non-empty set of naturals has a least member.
LEMMA LeastOf ==
  ASSUME NEW K \in SUBSET Nat, K # {}
  PROVE  \E lo \in K : \A s \in K : lo <= s
<1>1. PICK lo \in K : \A s \in K : ~(<<s, lo>> \in OpToRel(<, Nat))
  BY NatLessThanWellFounded, WFMin
<1>2. ASSUME NEW s \in K PROVE lo <= s
  <2>1. <<s, lo>> \in Nat \X Nat /\ <<s, lo>> \notin OpToRel(<, Nat)
    BY <1>1
  <2>2. ~(s < lo)
    BY <2>1 DEF OpToRel
  <2>3. QED
    BY <2>2
<1>3. QED
  BY <1>2

\* What holds at an instant once it holds at all later ones holds at all:
\* induction on the time that is left.
LEMMA Backwards ==
  ASSUME NEW Good,
         \A t \in 0..Never : (t + 1)..Never \subseteq Good => t \in Good
  PROVE  0..Never \subseteq Good
<1> DEFINE Left == {m \in Nat : \E t \in 0..Never : t \notin Good /\ m = Never - t}
<1>1. ASSUME Left # {} PROVE FALSE
  <2>1. PICK lo \in Left : \A m \in Left : lo <= m
    BY <1>1, LeastOf
  <2>2. PICK t \in 0..Never : t \notin Good /\ lo = Never - t
    BY <2>1
  <2>3. ASSUME NEW u \in (t + 1)..Never, u \notin Good PROVE FALSE
    <3>1. Never - u \in Left /\ Never - u < lo
      BY <2>2, <2>3
    <3>2. QED
      BY <2>1, <3>1
  <2>4. QED
    BY <2>2, <2>3
<1>2. ASSUME NEW t \in 0..Never, t \notin Good PROVE FALSE
  <2>1. Never - t \in Left
    BY <1>2
  <2>2. QED
    BY <1>1, <2>1
<1>3. QED
  BY <1>2

\* Of a spec that names instants, NextInstant is the first one after t, or Never.
LEMMA NextInstantIs ==
  ASSUME Due # {}, NEW t \in 0..MaxClock
  PROVE  /\ NextInstant(Due, t) \in Due \cup {Never}
         /\ NextInstant(Due, t) \in (t + 1)..Never
         /\ \A d \in Due : d > t => NextInstant(Due, t) <= d
<1> DEFINE later == {d \in Due : d > t}
<1>0. \A d \in Due : d \in Int /\ 1 <= d /\ d <= MaxClock
  OBVIOUS
<1>1. CASE later = {}
  <2>1. NextInstant(Due, t) = Never
    BY <1>1 DEF NextInstant
  <2>2. QED
    BY <2>1, <1>1
<1>2. CASE later # {}
  <2>1. later \in SUBSET Nat
    <3>1. \A d \in later : d \in Nat
      BY <1>0
    <3> HIDE DEF later
    <3>2. QED
      BY <3>1
  <2>2. \E d \in later : \A e \in later : d <= e
    BY <1>2, <2>1, LeastOf
  <2>3. NextInstant(Due, t) \in later /\ \A e \in later : NextInstant(Due, t) <= e
    BY <1>2, <2>2 DEF NextInstant
  <2>4. NextInstant(Due, t) \in Due /\ NextInstant(Due, t) > t
    BY <2>3
  <2>5. NextInstant(Due, t) \in Int /\ NextInstant(Due, t) <= MaxClock
    BY <2>4, <1>0
  <2>6. NextInstant(Due, t) \in (t + 1)..Never
    BY <2>4, <2>5
  <2>7. QED
    BY <2>3, <2>4, <2>6
<1>3. QED
  BY <1>1, <1>2

\* Of one that names none, it is the zero time.
LEMMA NextInstantOfNone ==
  ASSUME NEW t
  PROVE  NextInstant({}, t) = ZeroTime
BY DEF NextInstant

-----------------------------------------------------------------------------
(* The loop of missedFires. *)

\* One turn of the loop, with w for what the later turns give.
Turn(S, w, now, max, t) ==
  [n \in Nat |-> IF t > now THEN << >>
                 ELSE IF (max > 0 /\ n + 1 >= max) \/ NextInstant(S, t) <= t THEN <<t>>
                 ELSE <<t>> \o w[NextInstant(S, t)][n + 1]]

\* The recursion is well founded: from each instant on there is a function that
\* satisfies it.
LEMMA WalkExists ==
  ASSUME NEW S \in {Due, {}}, NEW now \in 1..MaxClock, NEW max \in Nat
  PROVE  \E w : w = [t \in 0..Never |-> Turn(S, w, now, max, t)]
<1> DEFINE Solves(w, t) == w = [u \in t..Never |-> Turn(S, w, now, max, u)]
           Good == {t \in 0..Never : \E w : Solves(w, t)}
<1>1. ASSUME NEW t \in 0..Never, (t + 1)..Never \subseteq Good
      PROVE  t \in Good
  <2>1. \E w : Solves(w, t + 1)
    <3>1. CASE t = Never
      <4>1. (t + 1)..Never = {}
        BY <3>1
      <4>2. Solves([u \in {} |-> Turn(S, {}, now, max, u)], t + 1)
        BY <4>1
      <4>3. QED
        BY <4>2
    <3>2. CASE t # Never
      BY <1>1, <3>2
    <3>3. QED
      BY <3>1, <3>2
  <2>2. PICK w : Solves(w, t + 1)
    BY <2>1
  <2> DEFINE v == [u \in t..Never |-> IF u = t THEN Turn(S, w, now, max, t) ELSE w[u]]
  <2>3. ASSUME NEW u \in t..Never
        PROVE  v[u] = Turn(S, v, now, max, u)
    <3>1. v[u] = Turn(S, w, now, max, u)
      <4>1. CASE u = t
        BY <4>1
      <4>2. CASE u # t
        <5>1. u \in (t + 1)..Never
          BY <4>2
        <5> DEFINE r == [x \in (t + 1)..Never |-> Turn(S, w, now, max, x)]
        <5>2. r[u] = Turn(S, w, now, max, u)
          BY <5>1
        <5>3. w = r
          BY <2>2
        <5> HIDE DEF r
        <5>4. QED
          BY <4>2, <5>2, <5>3
      <4>3. QED
        BY <4>1, <4>2
    <3>2. u <= now /\ ~(NextInstant(S, u) <= u) => w[NextInstant(S, u)] = v[NextInstant(S, u)]
      <4>1. SUFFICES ASSUME u <= now, ~(NextInstant(S, u) <= u)
                     PROVE  w[NextInstant(S, u)] = v[NextInstant(S, u)]
        OBVIOUS
      <4>2. u \in 0..MaxClock
        BY <4>1
      <4>3. S = Due /\ Due # {}
        <5>1. NextInstant({}, u) <= u
          BY <4>2, NextInstantOfNone DEF ZeroTime
        <5>2. S # {}
          BY <4>1, <5>1
        <5>3. QED
          BY <5>2
      <4>4. NextInstant(S, u) \in (u + 1)..Never
        BY <4>2, <4>3, NextInstantIs
      <4>5. QED
        BY <4>4
    <3>3. Turn(S, w, now, max, u) = Turn(S, v, now, max, u)
      <4> HIDE DEF v
      <4>1. QED
        BY <3>2 DEF Turn
    <3>4. QED
      BY <3>1, <3>3
  <2>4. Solves(v, t)
    <3>1. v = [u \in t..Never |-> v[u]]
      OBVIOUS
    <3> HIDE DEF v
    <3>2. QED
      BY <2>3, <3>1, Zenon
  <2>5. QED
    BY <2>4, Zenon
<1> HIDE DEF Solves
<1>2. 0..Never \subseteq Good
  BY <1>1, Backwards
<1>3. \E w : Solves(w, 0)
  BY <1>2
<1>4. QED
  BY <1>3, Zenon DEF Solves

\* So Walk satisfies it.
LEMMA WalkTurn ==
  ASSUME NEW S \in {Due, {}}, NEW now \in 1..MaxClock, NEW max \in Nat, NEW t \in 0..Never
  PROVE  Walk(S, now, max)[t] = Turn(S, Walk(S, now, max), now, max, t)
<1> DEFINE Solution(w) == w = [u \in 0..Never |-> Turn(S, w, now, max, u)]
<1>1. Walk(S, now, max) = CHOOSE w : w = [u \in 0..Never |-> Turn(S, w, now, max, u)]
  BY Zenon DEF Walk, Turn
<1>2. \E w : Solution(w)
  BY WalkExists
<1>3. Walk(S, now, max) = CHOOSE w : Solution(w)
  BY <1>1
<1> HIDE DEF Solution
<1>4. Solution(Walk(S, now, max))
  BY <1>2, <1>3, Zenon
<1> DEFINE r == [u \in 0..Never |-> Turn(S, Walk(S, now, max), now, max, u)]
<1>5. r[t] = Turn(S, Walk(S, now, max), now, max, t)
  OBVIOUS
<1>6. Walk(S, now, max) = r
  BY <1>4 DEF Solution
<1> HIDE DEF r
<1>7. QED
  BY <1>5, <1>6

-----------------------------------------------------------------------------
(* What the loop lists. *)

\* The instants from t to the present, and those of them that are taken when n
\* were taken before.
Instants(t, now) == {d \in Due : t <= d /\ d <= now}
Taken(t, n, now, max) ==
  {d \in Instants(t, now) : max = 0 \/ Cardinality(Instants(t, d)) + n <= max}

\* s names the members of S once each, in chronological order.
Increasing(s) == \A i, j \in 1..Len(s) : i < j => s[i] < s[j]
Lists(s, S) == s \in Seq(Due) /\ Range(s) = S /\ Len(s) = Cardinality(S) /\ Increasing(s)

LEMMA DueBounds == \A d \in Due : d \in Int /\ 1 <= d /\ d <= MaxClock
OBVIOUS

LEMMA FiniteInstants ==
  ASSUME NEW S \in SUBSET Due
  PROVE  IsFiniteSet(S) /\ Cardinality(S) \in Nat
<1>1. IsFiniteSet(1..MaxClock) /\ S \in SUBSET (1..MaxClock)
  BY FS_Interval
<1>2. QED
  BY <1>1, FS_Subset, FS_CardinalityType

\* The instants from t on are t and those from the next one on.
LEMMA InstantsStep ==
  ASSUME NEW t \in Due, NEW d \in Due, t <= d
  PROVE  /\ Instants(t, d) = Instants(NextInstant(Due, t), d) \cup {t}
         /\ t \notin Instants(NextInstant(Due, t), d)
         /\ Cardinality(Instants(t, d)) = Cardinality(Instants(NextInstant(Due, t), d)) + 1
<1> DEFINE next == NextInstant(Due, t)
<1>1. t \in 0..MaxClock
  BY DueBounds
<1>2. next \in (t + 1)..Never /\ \A e \in Due : e > t => next <= e
  BY <1>1, NextInstantIs
<1>3. next \in Int /\ next > t
  BY <1>1, <1>2
<1> HIDE DEF next
<1>4. t \notin Instants(next, d)
  BY <1>3, DueBounds DEF Instants
<1>5. ASSUME NEW e \in Due PROVE (t <= e /\ e <= d) <=> ((next <= e /\ e <= d) \/ e = t)
  BY <1>2, <1>3, DueBounds
<1>6. Instants(t, d) = Instants(next, d) \cup {t}
  BY <1>5 DEF Instants
<1>7. IsFiniteSet(Instants(next, d))
  BY FiniteInstants DEF Instants
<1>8. Cardinality(Instants(next, d) \cup {t}) = Cardinality(Instants(next, d)) + 1
  BY <1>4, <1>7, FS_AddElement
<1>9. QED
  BY <1>4, <1>6, <1>8 DEF next

\* The first turn takes t, and the later ones what is taken with one more before.
LEMMA TakenStep ==
  ASSUME NEW t \in Due, NEW n \in Nat, NEW now \in 1..MaxClock, NEW max \in Nat,
         t <= now, max = 0 \/ n < max
  PROVE  /\ max > 0 /\ n + 1 >= max => Taken(t, n, now, max) = {t}
         /\ ~(max > 0 /\ n + 1 >= max) =>
              Taken(t, n, now, max) = Taken(NextInstant(Due, t), n + 1, now, max) \cup {t}
         /\ \A d \in Taken(NextInstant(Due, t), n + 1, now, max) : t < d
<1> DEFINE next == NextInstant(Due, t)
<1>1. next \in Int /\ next > t /\ \A e \in Due : e > t => next <= e
  BY NextInstantIs, DueBounds
<1> HIDE DEF next
<1>0. t \in Int
  BY DueBounds
<1>2. Instants(next, t) = {} /\ Cardinality(Instants(next, t)) = 0
  <2>1. ASSUME NEW e \in Instants(next, t) PROVE FALSE
    <3>1. e \in Due /\ next <= e /\ e <= t
      BY DEF Instants
    <3>2. e \in Int
      BY <3>1, DueBounds
    <3>3. QED
      BY <1>0, <1>1, <3>1, <3>2
  <2>2. QED
    BY <2>1, FS_EmptySet
<1>3. ASSUME NEW d \in Due, t <= d
      PROVE  /\ Cardinality(Instants(next, d)) \in Nat
             /\ Cardinality(Instants(t, d)) = Cardinality(Instants(next, d)) + 1
             /\ d # t => Cardinality(Instants(next, d)) >= 1
  <2>1. Instants(next, d) \in SUBSET Due
    BY DEF Instants
  <2>2. IsFiniteSet(Instants(next, d)) /\ Cardinality(Instants(next, d)) \in Nat
    BY <2>1, FiniteInstants
  <2>3. d # t => d \in Instants(next, d)
    BY <1>1, <1>3, DueBounds DEF Instants
  <2>4. d # t => Cardinality(Instants(next, d)) # 0
    BY <2>2, <2>3, FS_EmptySet
  <2>5. Cardinality(Instants(t, d)) = Cardinality(Instants(next, d)) + 1
    BY <1>3, InstantsStep DEF next
  <2>6. QED
    BY <2>2, <2>4, <2>5
<1>4. Cardinality(Instants(t, t)) = 1
  <2>1. t <= t
    BY <1>0
  <2>2. QED
    BY <2>1, <1>2, <1>3
<1>5. t \in Taken(t, n, now, max)
  BY <1>4, DueBounds DEF Taken, Instants
<1>6. ASSUME max > 0, n + 1 >= max PROVE Taken(t, n, now, max) = {t}
  <2>1. ASSUME NEW d \in Taken(t, n, now, max), d # t PROVE FALSE
    <3>1. d \in Due /\ t <= d /\ Cardinality(Instants(t, d)) + n <= max
      BY <2>1, <1>6 DEF Taken, Instants
    <3>2. QED
      BY <2>1, <3>1, <1>3, <1>6
  <2>2. QED
    BY <2>1, <1>5
<1>7. ASSUME ~(max > 0 /\ n + 1 >= max)
      PROVE  Taken(t, n, now, max) = Taken(next, n + 1, now, max) \cup {t}
  <2>1. ASSUME NEW d \in Due, t < d
        PROVE  d \in Taken(t, n, now, max) <=> d \in Taken(next, n + 1, now, max)
    <3>1. next <= d /\ t <= d
      BY <1>1, <2>1, DueBounds
    <3>2. (Cardinality(Instants(t, d)) + n <= max) <=> (Cardinality(Instants(next, d)) + (n + 1) <= max)
      BY <1>3, <3>1
    <3>3. QED
      BY <3>1, <3>2 DEF Taken, Instants
  <2>2. \A d \in Taken(t, n, now, max) : d \in Due /\ t <= d
    BY DEF Taken, Instants
  <2>3. \A d \in Taken(next, n + 1, now, max) : d \in Due /\ t < d
    BY <1>1, DueBounds DEF Taken, Instants
  <2>4. \A d \in Due : t <= d <=> (t < d \/ d = t)
    BY <1>0, DueBounds
  <2>5. QED
    BY <1>5, <2>1, <2>2, <2>3, <2>4
<1>8. \A d \in Taken(next, n + 1, now, max) : t < d
  BY <1>1, DueBounds DEF Taken, Instants
<1>9. QED
  BY <1>6, <1>7, <1>8 DEF next

\* An earlier instant may be put before a list.
LEMMA ListsCons ==
  ASSUME NEW s, NEW S, Lists(s, S), NEW t \in Due, \A d \in S : t < d
  PROVE  Lists(<<t>> \o s, S \cup {t})
<1> DEFINE r == <<t>> \o s
<1>1. s \in Seq(Due) /\ Range(s) = S /\ Len(s) = Cardinality(S) /\ Increasing(s)
  BY DEF Lists
<1>2. /\ r \in Seq(Due) /\ Len(r) = Len(s) + 1 /\ Len(s) \in Nat
      /\ r[1] = t /\ \A i \in 1..Len(s) : r[i + 1] = s[i]
  BY <1>1
<1> HIDE DEF r
<1>3. DOMAIN s = 1..Len(s) /\ DOMAIN r = 1..(Len(s) + 1)
  BY <1>1, <1>2
<1>4. \A i \in 1..Len(s) : s[i] \in S
  BY <1>1, <1>3 DEF Range
<1>5. \A i \in 1..Len(r) : i = 1 \/ (i - 1 \in 1..Len(s) /\ r[i] = s[i - 1])
  BY <1>2
<1>6. Range(r) = S \cup {t}
  <2>1. \A i \in DOMAIN r : r[i] \in S \cup {t}
    BY <1>2, <1>3, <1>4, <1>5
  <2>2. ASSUME NEW d \in S PROVE \E i \in DOMAIN r : r[i] = d
    <3>1. PICK i \in 1..Len(s) : s[i] = d
      BY <1>1, <1>3 DEF Range
    <3>2. i + 1 \in DOMAIN r /\ r[i + 1] = d
      BY <3>1, <1>2, <1>3
    <3>3. QED
      BY <3>2
  <2>3. 1 \in DOMAIN r
    BY <1>2, <1>3
  <2>4. QED
    BY <2>1, <2>2, <2>3, <1>2 DEF Range
<1>7. Increasing(r)
  <2>1. ASSUME NEW i \in 1..Len(r), NEW j \in 1..Len(r), i < j PROVE r[i] < r[j]
    <3>1. j - 1 \in 1..Len(s) /\ r[j] = s[j - 1]
      BY <1>2, <1>5, <2>1
    <3>2. CASE i = 1
      BY <3>1, <3>2, <1>2, <1>4
    <3>3. CASE i # 1
      <4>1. i - 1 \in 1..Len(s) /\ r[i] = s[i - 1] /\ i - 1 < j - 1
        BY <1>5, <2>1, <3>3
      <4>2. QED
        BY <1>1, <3>1, <4>1 DEF Increasing
    <3>4. QED
      BY <3>2, <3>3
  <2>2. QED
    BY <2>1 DEF Increasing
<1>8. Cardinality(S \cup {t}) = Cardinality(S) + 1
  <2>1. S \in SUBSET Due
    BY <1>1 DEF Range
  <2>2. IsFiniteSet(S)
    BY <2>1, FiniteInstants
  <2>3. t \notin S
    BY DueBounds
  <2>4. QED
    BY <2>2, <2>3, FS_AddElement
<1>9. QED
  BY <1>1, <1>2, <1>6, <1>7, <1>8 DEF Lists, r

LEMMA ListsNothing == Lists(<< >>, {})
<1>1. Range(<< >>) = {} /\ Cardinality({}) = 0
  BY FS_EmptySet DEF Range
<1>2. QED
  BY <1>1 DEF Lists, Increasing

\* The loop from t on lists what is taken from t on.
LEMMA WalkLists ==
  ASSUME Due # {}, NEW now \in 1..MaxClock, NEW max \in Nat
  PROVE  \A t \in Due \cup {Never} : \A n \in Nat :
           max = 0 \/ n < max => Lists(Walk(Due, now, max)[t][n], Taken(t, n, now, max))
<1> DEFINE w == Walk(Due, now, max)
           Right(t, n) == Lists(w[t][n], Taken(t, n, now, max))
           Good == {t \in 0..Never : t \in Due \cup {Never} =>
                      \A n \in Nat : max = 0 \/ n < max => Right(t, n)}
<1>1. \A t \in Due \cup {Never} : t \in 0..Never
  BY DueBounds
<1>2. ASSUME NEW t \in 0..Never, (t + 1)..Never \subseteq Good
      PROVE  t \in Good
  <2>1. SUFFICES ASSUME t \in Due \cup {Never}, NEW n \in Nat, max = 0 \/ n < max
                 PROVE  Right(t, n)
    OBVIOUS
  <2> DEFINE next == NextInstant(Due, t)
             later == w[next][n + 1]
  <2>2. w[t][n] = IF t > now THEN << >>
                  ELSE IF max > 0 /\ n + 1 >= max THEN <<t>> ELSE <<t>> \o later
    <3>1. w[t] = Turn(Due, w, now, max, t)
      BY WalkTurn
    <3>2. ~(t > now) => ~(next <= t)
      BY <2>1, NextInstantIs
    <3> HIDE DEF w
    <3>3. QED
      BY <3>1, <3>2 DEF Turn
  <2> HIDE DEF w
  <2>3. CASE t > now
    <3>1. ASSUME NEW d \in Taken(t, n, now, max) PROVE FALSE
      <4>1. d \in Due /\ t <= d /\ d <= now
        BY DEF Taken, Instants
      <4>2. d \in Int /\ t \in Int
        BY <4>1, DueBounds
      <4>3. QED
        BY <2>3, <4>1, <4>2
    <3>2. QED
      BY <2>2, <2>3, <3>1, ListsNothing
  <2>4. CASE ~(t > now)
    <3>1. t \in Due /\ t <= now
      BY <2>1, <2>4
    <3>2. CASE max > 0 /\ n + 1 >= max
      <4>1. Taken(t, n, now, max) = {t}
        BY <2>1, <3>1, <3>2, TakenStep
      <4>2. w[t][n] = <<t>>
        BY <2>2, <2>4, <3>2
      <4>3. Lists(<<t>> \o << >>, {} \cup {t})
        BY <3>1, ListsNothing, ListsCons
      <4>4. <<t>> \o << >> = <<t>> /\ {} \cup {t} = {t}
        BY <3>1
      <4>5. QED
        BY <4>1, <4>2, <4>3, <4>4
    <3>3. CASE ~(max > 0 /\ n + 1 >= max)
      <4>1. /\ Taken(t, n, now, max) = Taken(next, n + 1, now, max) \cup {t}
            /\ \A d \in Taken(next, n + 1, now, max) : t < d
        BY <2>1, <3>1, <3>3, TakenStep
      <4>2. next \in Due \cup {Never} /\ next \in (t + 1)..Never
        BY <3>1, NextInstantIs, DueBounds
      <4>3. next \in Good
        BY <1>2, <4>2
      <4> HIDE DEF next
      <4>4. Right(next, n + 1)
        BY <4>2, <4>3, <3>3
      <4>5. Lists(<<t>> \o later, Taken(next, n + 1, now, max) \cup {t})
        BY <3>1, <4>1, <4>4, ListsCons
      <4>6. w[t][n] = <<t>> \o later
        BY <2>2, <2>4, <3>3
      <4>7. QED
        BY <4>1, <4>5, <4>6
    <3>4. QED
      BY <3>2, <3>3
  <2>5. QED
    BY <2>3, <2>4
<1> HIDE DEF Right
<1>3. 0..Never \subseteq Good
  BY <1>2, Backwards
<1>4. QED
  BY <1>1, <1>3 DEF Right

\* What missedFires promises: the instants after the cursor and up to now, or the
\* earliest max of them, in order; and one at least if there is one.
Missed(last, now) == {d \in Due : last # 0 /\ last < d /\ d <= now}
Earliest(S, max) == {d \in S : max = 0 \/ Cardinality({e \in S : e <= d}) <= max}

LEMMA MissedFiresIs ==
  ASSUME Due # {}, NEW last \in 0..MaxClock, NEW now \in 1..MaxClock, NEW max \in Nat
  PROVE  Lists(MissedFires(Due, last, now, max), Earliest(Missed(last, now), max))
<1>1. CASE last = 0 \/ last >= now
  <2>1. ASSUME NEW d \in Missed(last, now) PROVE FALSE
    <3>1. d \in Due /\ last # 0 /\ last < d /\ d <= now
      BY DEF Missed
    <3>2. QED
      BY <1>1, <3>1, DueBounds
  <2>2. Earliest(Missed(last, now), max) = {}
    BY <2>1 DEF Earliest
  <2>3. MissedFires(Due, last, now, max) = << >>
    BY <1>1 DEF MissedFires
  <2>4. QED
    BY <2>2, <2>3, ListsNothing
<1>2. CASE ~(last = 0 \/ last >= now)
  <2> DEFINE first == NextInstant(Due, last)
  <2>1. first \in Due \cup {Never} /\ first \in (last + 1)..Never /\ \A d \in Due : d > last => first <= d
    BY NextInstantIs
  <2>2. first \in Int /\ first > last
    BY <2>1
  <2>3. MissedFires(Due, last, now, max) = Walk(Due, now, max)[first][0]
    BY <1>2 DEF MissedFires
  <2> HIDE DEF first
  <2>4. Lists(MissedFires(Due, last, now, max), Taken(first, 0, now, max))
    <3>1. max = 0 \/ 0 < max
      OBVIOUS
    <3>2. QED
      BY <2>1, <2>3, <3>1, WalkLists
  <2>5. ASSUME NEW d \in Due PROVE last < d <=> first <= d
    BY <2>1, <2>2, DueBounds
  <2>6. Missed(last, now) = Instants(first, now)
    BY <1>2, <2>5 DEF Missed, Instants
  <2>7. ASSUME NEW d \in Instants(first, now)
        PROVE  {e \in Instants(first, now) : e <= d} = Instants(first, d)
    <3>1. d \in Due /\ d <= now
      BY <2>7 DEF Instants
    <3>2. \A e \in Due : e <= d => e <= now
      BY <3>1, DueBounds
    <3>3. QED
      BY <3>2 DEF Instants
  <2>8. ASSUME NEW d \in Due
        PROVE  Cardinality(Instants(first, d)) \in Nat
    BY FiniteInstants DEF Instants
  <2>9. Earliest(Missed(last, now), max) = Taken(first, 0, now, max)
    <3>1. ASSUME NEW d \in Instants(first, now)
          PROVE  Cardinality({e \in Instants(first, now) : e <= d}) = Cardinality(Instants(first, d)) + 0
      <4>1. d \in Due
        BY <3>1 DEF Instants
      <4>2. Cardinality({e \in Instants(first, now) : e <= d}) = Cardinality(Instants(first, d))
        BY <2>7, Zenon
      <4>3. QED
        BY <2>8, <4>1, <4>2
    <3>2. QED
      BY <2>6, <3>1 DEF Earliest, Taken
  <2>10. QED
    BY <2>4, <2>9
<1>3. QED
  BY <1>1, <1>2

\* The earliest is among them.
LEMMA EarliestExists ==
  ASSUME NEW S \in SUBSET Due, S # {}, NEW max \in Nat
  PROVE  Earliest(S, max) # {}
<1>1. S \in SUBSET Nat
  <2>1. \A d \in S : d \in Nat
    BY DueBounds
  <2>2. QED
    BY <2>1
<1>2. PICK d \in S : \A e \in S : d <= e
  BY <1>1, LeastOf
<1>3. {e \in S : e <= d} = {d}
  <2>1. \A e \in S : e <= d <=> e = d
    BY <1>1, <1>2
  <2>2. QED
    BY <2>1
<1>4. Cardinality({e \in S : e <= d}) = 1
  BY <1>3, FS_Singleton
<1>5. d \in Earliest(S, max)
  BY <1>4 DEF Earliest
<1>6. QED
  BY <1>5

\* Of a spec that names no instant it lists the zero time, when the cursor lies in
\* the past.
LEMMA MissedFiresOfNone ==
  ASSUME NEW last \in 0..MaxClock, NEW now \in 1..MaxClock, NEW max \in Nat
  PROVE  MissedFires({}, last, now, max) = (IF last = 0 \/ last >= now THEN << >> ELSE <<ZeroTime>>)
<1> DEFINE w == Walk({}, now, max)
<1>1. ZeroTime \in 0..Never /\ ~(ZeroTime > now) /\ 0 \in Nat
  BY DEF ZeroTime
<1>2. w[ZeroTime] = Turn({}, w, now, max, ZeroTime)
  BY <1>1, WalkTurn
<1>3. NextInstant({}, ZeroTime) <= ZeroTime
  BY NextInstantOfNone DEF ZeroTime
<1> HIDE DEF w
<1>4. w[ZeroTime][0] = <<ZeroTime>>
  BY <1>1, <1>2, <1>3 DEF Turn
<1>5. NextInstant({}, last) = ZeroTime
  BY NextInstantOfNone
<1>6. QED
  BY <1>4, <1>5 DEF MissedFires, w

\* What the policy selects.
LEMMA SelectedIs ==
  ASSUME policy \in {"skip", "run_once", "run_all"}, NEW missed, NEW S, Lists(missed, S)
  PROVE  /\ Selected(missed) \in Seq(Due) /\ Range(Selected(missed)) \subseteq S
         /\ policy = "run_all" => Selected(missed) = missed
         /\ policy = "run_once" => Len(Selected(missed)) = (IF S = {} THEN 0 ELSE 1)
         /\ Increasing(Selected(missed))
<1>1. /\ missed \in Seq(Due) /\ Range(missed) = S /\ Len(missed) = Cardinality(S)
      /\ Increasing(missed)
  BY DEF Lists
<1>2. Increasing(<< >>) /\ Range(<< >>) = {} /\ << >> \in Seq(Due) /\ Len(<< >>) = 0
  BY DEF Increasing, Range
<1>3. S = {} <=> missed = << >>
  <2>1. DOMAIN missed = 1..Len(missed) /\ Len(missed) \in Nat
    BY <1>1
  <2>2. missed # << >> => 1 \in DOMAIN missed
    BY <1>1, <2>1
  <2>3. QED
    BY <1>1, <1>2, <2>2 DEF Range
<1>4. CASE policy = "run_all"
  BY <1>1, <1>4 DEF Selected
<1>5. CASE policy = "run_once" /\ missed # << >>
  <2> DEFINE latest == missed[Len(missed)]
  <2>1. Selected(missed) = <<latest>>
    BY <1>5 DEF Selected
  <2>2. Len(missed) \in 1..Len(missed) /\ DOMAIN missed = 1..Len(missed)
    BY <1>1, <1>5
  <2>3. latest \in Due /\ latest \in S
    BY <1>1, <2>2 DEF Range
  <2> HIDE DEF latest
  <2>4. <<latest>> \in Seq(Due) /\ Len(<<latest>>) = 1 /\ Range(<<latest>>) = {latest}
    BY <2>3 DEF Range
  <2>5. Increasing(<<latest>>)
    BY <2>4 DEF Increasing
  <2>6. QED
    BY <1>3, <1>5, <2>1, <2>3, <2>4, <2>5
<1>6. CASE policy = "skip" \/ (policy = "run_once" /\ missed = << >>)
  <2>1. Selected(missed) = << >>
    BY <1>6 DEF Selected
  <2>2. QED
    BY <1>2, <1>3, <1>6, <2>1
<1>7. QED
  BY <1>4, <1>5, <1>6

-----------------------------------------------------------------------------
(* The inductive invariant. *)

\* What each state of the engine says of its goroutines: there are none while it
\* is down, and Start spawns the worker before the catch-up goroutine.
Control ==
  /\ up = "down" => armed = Never /\ queue = << >> /\ wpc = "off"
  /\ up \in {"down", "registered", "read"} => kpc = "off"
  /\ up \in {"down", "registered"} => prevTick = 0 /\ wpc = "off"
  /\ up = "stopping" => armed = Never
  /\ kpc \notin {"replay", "firing"} => replay = << >>

\* Start has read the cursor that is stored, until it advances it.
CursorRead == up = "read" => prevTick = lastTick

\* The cron entry is set for the next instant to come, or an earlier one; only a
\* spec without instants leaves it at the zero time.
ArmedInTime ==
  up \in {"registered", "read", "running"} =>
    /\ \A d \in sched : clock < d => armed <= d
    /\ sched # {} => armed # ZeroTime

\* What is dispatched, or will be, lies after the cursor, the one Start will read
\* or has read, unless it is the zero time.
Cursor == IF up = "registered" THEN lastTick ELSE prevTick
AfterCursor ==
  /\ armed # ZeroTime => Cursor < armed
  /\ \A d \in Range(queue) \cup Range(replay) : d # ZeroTime => Cursor < d

\* Where an instant is that has come and is neither fired nor settled: queued,
\* waiting for a late timer, to be replayed, or left to a later start.
UnderWay(d) ==
  \/ d \in Range(queue) \cup Range(replay)
  \/ up \in {"registered", "read", "running"} /\ armed <= d
  \/ up \in {"down", "stopping"} /\ lastTick < d
  \/ up = "registered" /\ lastTick # 0 /\ lastTick < d
  \/ (up = "read" \/ kpc = "begin") /\ prevTick # 0 /\ prevTick < d

Accounted(d) == Fired(d) \/ Settled(d) \/ UnderWay(d)
AllAccounted == \A d \in sched : d <= clock => Accounted(d)

Inv == TypeOK /\ Control /\ CursorRead /\ ArmedInTime /\ AfterCursor /\ AllAccounted

-----------------------------------------------------------------------------
(* Queues of instants. *)

LEMMA RangeOfQueue ==
  ASSUME NEW D, NEW q \in Seq(D)
  PROVE  /\ Range(q) = {q[i] : i \in 1..Len(q)} /\ Range(q) \subseteq D
         /\ Range(q) = {} <=> q = << >>
<1>1. DOMAIN q = 1..Len(q) /\ Len(q) \in Nat
  OBVIOUS
<1>2. Range(q) = {q[i] : i \in 1..Len(q)}
  BY <1>1 DEF Range
<1>3. \A i \in 1..Len(q) : q[i] \in D
  OBVIOUS
<1>4. q # << >> => 1 \in 1..Len(q)
  OBVIOUS
<1>5. q = << >> => Range(q) = {}
  BY DEF Range
<1>6. QED
  BY <1>2, <1>3, <1>4, <1>5

LEMMA RangeOfAppend ==
  ASSUME NEW D, NEW q \in Seq(D), NEW d \in D
  PROVE  Append(q, d) \in Seq(D) /\ Range(Append(q, d)) = Range(q) \cup {d}
<1> DEFINE r == Append(q, d)
<1>1. /\ r \in Seq(D) /\ Len(r) = Len(q) + 1 /\ Len(q) \in Nat
      /\ r[Len(q) + 1] = d /\ \A i \in 1..Len(q) : r[i] = q[i]
  OBVIOUS
<1> HIDE DEF r
<1>2. DOMAIN r = 1..(Len(q) + 1) /\ DOMAIN q = 1..Len(q)
  BY <1>1
<1>3. \A i \in DOMAIN r : i = Len(q) + 1 \/ i \in DOMAIN q
  BY <1>1, <1>2
<1>4. \A i \in DOMAIN q : i \in DOMAIN r /\ r[i] = q[i]
  BY <1>1, <1>2
<1>5. Len(q) + 1 \in DOMAIN r
  BY <1>1, <1>2
<1>6. Range(r) = Range(q) \cup {d}
  BY <1>1, <1>3, <1>4, <1>5 DEF Range
<1>7. QED
  BY <1>1, <1>6 DEF r

LEMMA RangeOfTail ==
  ASSUME NEW D, NEW q \in Seq(D), q # << >>
  PROVE  /\ Head(q) \in D /\ Tail(q) \in Seq(D) /\ Len(Tail(q)) <= Len(q)
         /\ Range(q) = Range(Tail(q)) \cup {Head(q)}
<1> DEFINE r == Tail(q)
<1>1. /\ r \in Seq(D) /\ Len(r) = Len(q) - 1 /\ Len(q) \in Nat \ {0}
      /\ Head(q) = q[1] /\ Head(q) \in D /\ \A i \in 1..Len(r) : r[i] = q[i + 1]
  OBVIOUS
<1> HIDE DEF r
<1>2. DOMAIN r = 1..Len(r) /\ DOMAIN q = 1..Len(q)
  BY <1>1
<1>3. \A i \in DOMAIN r : i + 1 \in DOMAIN q /\ r[i] = q[i + 1]
  BY <1>1, <1>2
<1>4. \A i \in DOMAIN q : i = 1 \/ (i - 1 \in DOMAIN r /\ q[i] = r[i - 1])
  BY <1>1, <1>2
<1>5. Range(r) \subseteq Range(q) /\ Head(q) \in Range(q)
  BY <1>1, <1>2, <1>3 DEF Range
<1>6. Range(q) \subseteq Range(r) \cup {Head(q)}
  BY <1>1, <1>4 DEF Range
<1>7. QED
  BY <1>1, <1>5, <1>6 DEF r

LEMMA RangeOfNone == << >> \in Seq(Due) /\ << >> \in Seq(Due \cup {ZeroTime}) /\ Range(<< >>) = {} /\ Len(<< >>) = 0
BY DEF Range

\* What the cron entry is set for.
LEMMA NextOfSched ==
  ASSUME TypeOK
  PROVE  /\ NextInstant(sched, clock) \in Due \cup {ZeroTime, Never}
         /\ NextInstant(sched, clock) \in Nat
         /\ NextInstant(sched, clock) # ZeroTime => NextInstant(sched, clock) > clock
         /\ sched # {} => NextInstant(sched, clock) # ZeroTime
         /\ \A d \in sched : clock < d => NextInstant(sched, clock) <= d
<1>1. clock \in 0..MaxClock /\ sched \in {Due, {}}
  BY DEF TypeOK
<1>2. CASE sched = {}
  <2>1. NextInstant({}, clock) = ZeroTime
    BY NextInstantOfNone
  <2>2. QED
    BY <1>2, <2>1 DEF ZeroTime
<1>3. CASE sched # {}
  <2>1. sched = Due /\ Due # {}
    BY <1>1, <1>3
  <2> DEFINE next == NextInstant(Due, clock)
  <2>2. /\ next \in Due \cup {Never} /\ next \in (clock + 1)..Never
        /\ \A d \in Due : d > clock => next <= d
    BY <1>1, <2>1, NextInstantIs
  <2> HIDE DEF next
  <2>3. next # ZeroTime /\ next \in Nat /\ next > clock /\ \A d \in Due : clock < d => next <= d
    BY <1>1, <2>2, DueBounds DEF ZeroTime
  <2>4. QED
    BY <2>1, <2>2, <2>3 DEF next
<1>4. QED
  BY <1>2, <1>3

\* What runCatchUp is about to replay: missed instants of a spec that has some, and
\* otherwise the zero time.
LEMMA ReplayIs ==
  ASSUME TypeOK
  PROVE  LET r == Selected(MissedFires(sched, prevTick, clock, MaxCatchUp))
         IN  /\ r \in Seq(Due \cup {ZeroTime})
             /\ Range(r) \subseteq Window \cup {ZeroTime}
<1> DEFINE missed == MissedFires(sched, prevTick, clock, MaxCatchUp)
           r == Selected(missed)
<1>1. /\ prevTick \in 0..MaxClock /\ clock \in 1..MaxClock /\ MaxCatchUp \in Nat
      /\ policy \in {"skip", "run_once", "run_all"} /\ sched \in {Due, {}}
  BY DEF TypeOK
<1>2. CASE sched # {}
  <2>1. sched = Due /\ Due # {}
    BY <1>1, <1>2
  <2>2. Lists(missed, Earliest(Missed(prevTick, clock), MaxCatchUp))
    BY <1>1, <2>1, MissedFiresIs
  <2>3. Window = Missed(prevTick, clock)
    BY <2>1 DEF Window, Missed
  <2>4. Earliest(Missed(prevTick, clock), MaxCatchUp) \subseteq Missed(prevTick, clock)
    BY DEF Earliest
  <2> HIDE DEF missed
  <2>5. r \in Seq(Due) /\ Range(r) \subseteq Earliest(Missed(prevTick, clock), MaxCatchUp)
    BY <1>1, <2>2, SelectedIs
  <2> HIDE DEF r
  <2>6. r \in Seq(Due \cup {ZeroTime})
    BY <2>5
  <2>7. QED
    BY <2>3, <2>4, <2>5, <2>6 DEF r, missed
<1>3. CASE sched = {}
  <2>1. missed = << >> \/ missed = <<ZeroTime>>
    <3>1. MissedFires({}, prevTick, clock, MaxCatchUp) \in {<< >>, <<ZeroTime>>}
      BY <1>1, MissedFiresOfNone
    <3>2. QED
      BY <1>3, <3>1
  <2> HIDE DEF missed
  <2>2. r = << >> \/ r = <<ZeroTime>>
    BY <1>1, <2>1 DEF Selected
  <2> HIDE DEF r
  <2>3. r \in Seq(Due \cup {ZeroTime}) /\ Range(r) \subseteq {ZeroTime}
    <3>1. <<ZeroTime>> \in Seq(Due \cup {ZeroTime}) /\ Range(<<ZeroTime>>) = {ZeroTime}
      BY DEF Range
    <3>2. QED
      BY <2>2, <3>1, RangeOfNone
  <2>4. QED
    BY <2>3 DEF r, missed
<1>4. QED
  BY <1>2, <1>3

-----------------------------------------------------------------------------
(* Every step keeps the invariant: one lemma for each of its parts. *)

Causes == {"fresh", "late", "queue_full", "concurrent_run", "policy", "crash", "replay"}

\* The types of what may have been settled.
LEMMA SettledType ==
  ASSUME NEW why \in Causes, NEW D \in SUBSET (Due \cup {ZeroTime}),
         settled \subseteq Causes \X (Due \cup {ZeroTime})
  PROVE  settled \cup ({why} \X D) \subseteq Causes \X (Due \cup {ZeroTime})
OBVIOUS

\* A fire that begins is counted.
LEMMA BeginType ==
  ASSUME fired \in [Due \cup {ZeroTime} -> Nat], NEW d \in Due \cup {ZeroTime}, Begin(d)
  PROVE  fired' \in [Due \cup {ZeroTime} -> Nat]
BY DEF Begin

LEMMA TypeStep ==
  ASSUME Inv, [Next]_vars
  PROVE  TypeOK'
<1> USE DEF cursorVars, engineVars
<1>0. TypeOK /\ Control
  BY DEF Inv
<1>1. CASE Tick
  BY <1>0, <1>1 DEF Tick, TypeOK
<1>2. CASE StartRegister
  <2>1. NextInstant(sched, clock) \in Due \cup {ZeroTime, Never}
    BY <1>0, NextOfSched
  <2>2. settled' \subseteq Causes \X (Due \cup {ZeroTime})
    BY <1>0, <1>2 DEF StartRegister, Settle, TypeOK, Causes
  <2>3. QED
    BY <1>0, <1>2, <2>1, <2>2 DEF StartRegister, TypeOK, Causes
<1>3. CASE StartReadCursor
  BY <1>0, <1>3 DEF StartReadCursor, TypeOK
<1>4. CASE StartAdvanceCursor
  BY <1>0, <1>4 DEF StartAdvanceCursor, TypeOK
<1>5. CASE AdvanceCursor
  BY <1>0, <1>5 DEF AdvanceCursor, TypeOK
<1>6. CASE CronFires
  <2>1. armed \in Due /\ NextInstant(sched, clock) \in Due \cup {ZeroTime, Never}
    BY <1>0, <1>6, NextOfSched DEF CronFires, TypeOK, ZeroTime
  <2>2. queue' \in Seq(Due) /\ Len(queue') <= QueueSize
    <3>1. Append(queue, armed) \in Seq(Due) /\ Len(Append(queue, armed)) = Len(queue) + 1 /\ Len(queue) \in Nat
      BY <1>0, <2>1 DEF TypeOK
    <3>2. CASE Len(queue) < QueueSize /\ queue' = Append(queue, armed)
      BY <3>1, <3>2
    <3>3. CASE queue' = queue
      BY <1>0, <3>3 DEF TypeOK
    <3>4. QED
      BY <1>6, <3>2, <3>3 DEF CronFires
  <2>3. settled' \subseteq Causes \X (Due \cup {ZeroTime})
    <3>1. {d \in sched : armed < d /\ d <= clock} \in SUBSET Due
      BY <1>0 DEF TypeOK
    <3>2. QED
      BY <1>0, <1>6, <2>1, <3>1 DEF CronFires, Settle, TypeOK, Causes
  <2>4. QED
    BY <1>0, <1>6, <2>1, <2>2, <2>3 DEF CronFires, TypeOK, Causes
<1>7. CASE WorkerFires
  <2>1. Head(queue) \in Due /\ Tail(queue) \in Seq(Due) /\ Len(Tail(queue)) <= QueueSize
    <3>1. Len(queue) \in Nat /\ Len(Tail(queue)) \in Nat
      BY <1>0, <1>7, RangeOfTail DEF WorkerFires, TypeOK
    <3>2. QED
      BY <1>0, <1>7, <3>1, RangeOfTail DEF WorkerFires, TypeOK
  <2>2. settled' \subseteq Causes \X (Due \cup {ZeroTime})
    BY <1>0, <1>7, <2>1 DEF WorkerFires, Settle, TypeOK, Causes
  <2>3. fired' \in [Due \cup {ZeroTime} -> Nat]
    BY <1>0, <1>7, <2>1, BeginType DEF WorkerFires, TypeOK
  <2>4. wpc' \in {"off", "idle", "firing"}
    BY <1>0, <1>7 DEF WorkerFires, TypeOK
  <2>5. QED
    BY <1>0, <1>7, <2>1, <2>2, <2>3, <2>4 DEF WorkerFires, TypeOK, Causes
<1>8. CASE WorkerFinishes
  BY <1>0, <1>8 DEF WorkerFinishes, TypeOK
<1>9. CASE CatchUpBegins
  <2>1. replay' \in Seq(Due \cup {ZeroTime})
    BY <1>0, <1>9, ReplayIs DEF CatchUpBegins
  <2>2. settled' \subseteq Causes \X (Due \cup {ZeroTime})
    <3>1. Window \ Range(replay') \in SUBSET Due
      BY <1>0 DEF Window, TypeOK
    <3>2. QED
      BY <1>0, <1>9, <3>1 DEF CatchUpBegins, Settle, TypeOK, Causes
  <2>3. QED
    BY <1>0, <1>9, <2>1, <2>2 DEF CatchUpBegins, TypeOK, Causes
<1>10. CASE CatchUpFires
  <2>1. Head(replay) \in Due \cup {ZeroTime} /\ Tail(replay) \in Seq(Due \cup {ZeroTime})
    BY <1>0, <1>10, RangeOfTail DEF CatchUpFires, TypeOK
  <2>2. settled' \subseteq Causes \X (Due \cup {ZeroTime})
    BY <1>0, <1>10, <2>1 DEF CatchUpFires, Settle, TypeOK, Causes
  <2>3. fired' \in [Due \cup {ZeroTime} -> Nat]
    BY <1>0, <1>10, <2>1, BeginType DEF CatchUpFires, TypeOK
  <2>4. kpc' \in {"off", "begin", "replay", "firing", "done"}
    BY <1>0, <1>10 DEF CatchUpFires, TypeOK
  <2>5. QED
    BY <1>0, <1>10, <2>1, <2>2, <2>3, <2>4 DEF CatchUpFires, TypeOK, Causes
<1>11. CASE CatchUpFinishesFire
  BY <1>0, <1>11 DEF CatchUpFinishesFire, TypeOK
<1>12. CASE CatchUpDone
  BY <1>0, <1>12 DEF CatchUpDone, TypeOK
<1>13. CASE Crash
  <2>1. Passed(PendingCron) \in SUBSET Due
    BY <1>0, RangeOfQueue DEF Passed, PendingCron, TypeOK
  <2>2. Passed(PendingReplay) \in SUBSET (Due \cup {ZeroTime})
    <3>1. Range(replay) \subseteq Due \cup {ZeroTime}
      BY <1>0, RangeOfQueue DEF TypeOK
    <3>2. Range(Selected(MissedFires(sched, prevTick, clock, MaxCatchUp))) \subseteq Due \cup {ZeroTime}
      BY <1>0, ReplayIs, RangeOfQueue
    <3>3. QED
      BY <3>1, <3>2 DEF Passed, PendingReplay
  <2>3. Passed(PendingDrop) \in SUBSET Due
    BY <1>0 DEF Passed, PendingDrop, Window, TypeOK
  <2>4. settled' \subseteq Causes \X (Due \cup {ZeroTime})
    BY <1>0, <1>13, <2>1, <2>2, <2>3 DEF Crash, TypeOK, Causes
  <2>5. QED
    BY <1>0, <1>13, <2>4, RangeOfNone DEF Crash, GoDown, TypeOK, Causes
<1>14. CASE Stop
  <2>1. settled' \subseteq Causes \X (Due \cup {ZeroTime})
    <3>1. Passed({d \in sched : armed <= d /\ d <= clock}) \in SUBSET Due
      BY <1>0 DEF Passed, TypeOK
    <3>2. QED
      BY <1>0, <1>14, <3>1 DEF Stop, Settle, TypeOK, Causes
  <2>2. QED
    BY <1>0, <1>14, <2>1 DEF Stop, TypeOK, Causes
<1>15. CASE StopReturns
  BY <1>0, <1>15, RangeOfNone DEF StopReturns, GoDown, TypeOK
<1>16. CASE UNCHANGED vars
  BY <1>0, <1>16 DEF vars, TypeOK
<1>17. QED
  BY <1>1, <1>2, <1>3, <1>4, <1>5, <1>6, <1>7, <1>8, <1>9, <1>10, <1>11, <1>12, <1>13,
     <1>14, <1>15, <1>16 DEF Next, Engine

LEMMA ControlStep ==
  ASSUME Inv, [Next]_vars
  PROVE  Control' /\ CursorRead'
<1> USE DEF cursorVars, engineVars, Control, CursorRead
<1>0. TypeOK /\ Control /\ CursorRead
  BY DEF Inv
<1>1. CASE Tick
  BY <1>0, <1>1 DEF Tick
<1>2. CASE StartRegister
  BY <1>0, <1>2 DEF StartRegister
<1>3. CASE StartReadCursor
  BY <1>0, <1>3 DEF StartReadCursor
<1>4. CASE StartAdvanceCursor
  BY <1>0, <1>4 DEF StartAdvanceCursor
<1>5. CASE AdvanceCursor
  BY <1>0, <1>5 DEF AdvanceCursor
<1>6. CASE CronFires
  BY <1>0, <1>6 DEF CronFires
<1>7. CASE WorkerFires
  BY <1>0, <1>7 DEF WorkerFires
<1>8. CASE WorkerFinishes
  BY <1>0, <1>8 DEF WorkerFinishes
<1>9. CASE CatchUpBegins
  BY <1>0, <1>9 DEF CatchUpBegins
<1>10. CASE CatchUpFires
  BY <1>0, <1>10 DEF CatchUpFires
<1>11. CASE CatchUpFinishesFire
  BY <1>0, <1>11 DEF CatchUpFinishesFire
<1>12. CASE CatchUpDone
  BY <1>0, <1>12 DEF CatchUpDone
<1>13. CASE Crash
  BY <1>0, <1>13 DEF Crash, GoDown
<1>14. CASE Stop
  BY <1>0, <1>14 DEF Stop
<1>15. CASE StopReturns
  BY <1>0, <1>15 DEF StopReturns, GoDown
<1>16. CASE UNCHANGED vars
  BY <1>0, <1>16 DEF vars
<1>17. QED
  BY <1>1, <1>2, <1>3, <1>4, <1>5, <1>6, <1>7, <1>8, <1>9, <1>10, <1>11, <1>12, <1>13,
     <1>14, <1>15, <1>16 DEF Next, Engine

\* The entry is set anew only to the next instant after the present.
LEMMA ArmedStep ==
  ASSUME Inv, [Next]_vars
  PROVE  ArmedInTime'
<1> USE DEF cursorVars, engineVars, ArmedInTime
<1>0. TypeOK /\ Control /\ ArmedInTime /\ clock \in 0..MaxClock
  BY DEF Inv, TypeOK
<1>1. CASE Tick
  <2>1. \A d \in sched : clock' < d => clock < d
    BY <1>0, <1>1, DueBounds DEF Tick, TypeOK
  <2>2. QED
    BY <1>0, <1>1, <2>1 DEF Tick
<1>2. CASE StartRegister \/ CronFires
  <2>1. armed' = NextInstant(sched, clock) /\ clock' = clock /\ sched' = sched
    BY <1>2 DEF StartRegister, CronFires
  <2>2. QED
    BY <1>0, <2>1, NextOfSched
<1>3. CASE clock' = clock /\ armed' = armed /\ sched' = sched
           /\ (up' \in {"registered", "read", "running"} => up \in {"registered", "read", "running"})
  BY <1>0, <1>3
<1>4. CASE Crash \/ Stop \/ StopReturns
  BY <1>4 DEF Crash, Stop, StopReturns, GoDown
<1>5. QED
  BY <1>1, <1>2, <1>3, <1>4 DEF Next, Engine, vars, StartReadCursor, StartAdvanceCursor,
     AdvanceCursor, WorkerFires, WorkerFinishes, CatchUpBegins, CatchUpFires,
     CatchUpFinishesFire, CatchUpDone

LEMMA AfterCursorStep ==
  ASSUME Inv, [Next]_vars
  PROVE  AfterCursor'
<1> USE DEF cursorVars, engineVars, AfterCursor, Cursor
<1> DEFINE Waiting == Range(queue) \cup Range(replay)
<1>0. /\ TypeOK /\ Control /\ CursorRead /\ AfterCursor
      /\ clock \in 0..MaxClock /\ lastTick \in 0..clock /\ prevTick \in 0..clock
      /\ queue \in Seq(Due) /\ replay \in Seq(Due \cup {ZeroTime})
  BY DEF Inv, TypeOK
<1>1. CASE Cursor' = Cursor /\ armed' = armed /\ Waiting' \subseteq Waiting
  BY <1>0, <1>1
<1>2. CASE StartRegister
  <2>1. armed' # ZeroTime => armed' \in Int /\ armed' > clock
    BY <1>0, <1>2, NextOfSched, DueBounds DEF StartRegister
  <2>2. Range(queue') = {} /\ Range(replay') = {}
    BY <1>0, <1>2, RangeOfNone DEF StartRegister, Control
  <2>3. QED
    BY <1>0, <1>2, <2>1, <2>2 DEF StartRegister
<1>3. CASE StartReadCursor
  BY <1>0, <1>3 DEF StartReadCursor
<1>4. CASE CronFires
  <2>1. armed \in Due /\ armed # ZeroTime /\ (armed' # ZeroTime => armed' \in Int /\ armed' > clock)
    BY <1>0, <1>4, NextOfSched, DueBounds DEF CronFires, TypeOK, ZeroTime
  <2>2. Range(queue') \subseteq Range(queue) \cup {armed}
    BY <1>0, <1>4, <2>1, RangeOfAppend DEF CronFires
  <2>3. Cursor' = Cursor /\ Cursor <= clock /\ replay' = replay
    BY <1>0, <1>4 DEF CronFires
  <2>4. QED
    BY <1>0, <2>1, <2>2, <2>3
<1>5. CASE WorkerFires
  <2>1. Range(queue') \subseteq Range(queue)
    BY <1>0, <1>5, RangeOfTail DEF WorkerFires
  <2>2. QED
    BY <1>1, <1>5, <2>1 DEF WorkerFires
<1>6. CASE CatchUpFires
  <2>1. Range(replay') \subseteq Range(replay)
    BY <1>0, <1>6, RangeOfTail DEF CatchUpFires
  <2>2. QED
    BY <1>1, <1>6, <2>1 DEF CatchUpFires
<1>7. CASE CatchUpBegins
  <2>1. Range(replay') \subseteq Window \cup {ZeroTime}
    BY <1>0, <1>7, ReplayIs DEF CatchUpBegins
  <2>2. \A d \in Range(replay') : d # ZeroTime => prevTick < d
    BY <2>1 DEF Window
  <2>3. up # "registered"
    BY <1>0, <1>7 DEF CatchUpBegins, Control
  <2>4. QED
    BY <1>0, <1>7, <2>2, <2>3 DEF CatchUpBegins
<1>8. CASE Crash \/ StopReturns
  BY <1>0, <1>8, RangeOfNone DEF Crash, StopReturns, GoDown
<1>9. CASE Stop
  BY <1>0, <1>9 DEF Stop
<1>10. CASE Tick \/ StartAdvanceCursor \/ AdvanceCursor \/ WorkerFinishes
            \/ CatchUpFinishesFire \/ CatchUpDone \/ UNCHANGED vars
  BY <1>1, <1>10 DEF Tick, StartAdvanceCursor, AdvanceCursor, WorkerFinishes,
     CatchUpFinishesFire, CatchUpDone, vars
<1>11. QED
  BY <1>2, <1>3, <1>4, <1>5, <1>6, <1>7, <1>8, <1>9, <1>10 DEF Next, Engine

\* No step loses an instant: what leaves a queue is fired or settled, what the
\* catch-up goroutine will not replay is settled when it decides so, and of what a
\* process takes along when it ends, a later start finds what is after the cursor.
LEMMA AccountedStep ==
  ASSUME Inv, [Next]_vars
  PROVE  AllAccounted'
<1> USE DEF cursorVars, engineVars
<1> DEFINE Alive == up \in {"registered", "read", "running"}
<1>0. /\ TypeOK /\ Control /\ CursorRead /\ ArmedInTime /\ AllAccounted
      /\ clock \in 1..MaxClock /\ lastTick \in 0..clock /\ prevTick \in 0..clock
      /\ queue \in Seq(Due) /\ replay \in Seq(Due \cup {ZeroTime})
      /\ fired \in [Due \cup {ZeroTime} -> Nat]
      /\ armed \in Due \cup {ZeroTime, Never}
  BY DEF Inv, TypeOK
<1>00. sched' = sched /\ sched \in SUBSET Due
  BY <1>0 DEF TypeOK, Next, Engine, Tick, StartRegister, StartReadCursor, StartAdvanceCursor,
     AdvanceCursor, CronFires, WorkerFires, WorkerFinishes, CatchUpBegins, CatchUpFires,
     CatchUpFinishesFire, CatchUpDone, Crash, Stop, StopReturns, GoDown, vars
<1>1. SUFFICES ASSUME NEW d \in sched, d <= clock'
               PROVE  Accounted(d)'
  BY <1>00 DEF AllAccounted
<1>2. d \in Due /\ d \in Int /\ 1 <= d /\ d <= MaxClock
  BY <1>00, DueBounds
<1>3. d <= clock => Accounted(d)
  BY <1>0 DEF AllAccounted
<1>4. Fired(d) => Fired(d)'
  <2>1. CASE fired' = fired
    BY <2>1 DEF Fired
  <2>2. CASE \E e \in Due \cup {ZeroTime} : Begin(e)
    BY <1>0, <1>2, <2>2 DEF Begin, Fired
  <2>3. fired' = fired \/ \E e \in Due \cup {ZeroTime} : Begin(e)
    BY <1>0, RangeOfTail DEF Next, Engine, Tick, StartRegister, StartReadCursor, StartAdvanceCursor,
       AdvanceCursor, CronFires, WorkerFires, WorkerFinishes, CatchUpBegins, CatchUpFires,
       CatchUpFinishesFire, CatchUpDone, Crash, Stop, StopReturns, GoDown, vars
  <2>4. QED
    BY <2>1, <2>2, <2>3
<1>5. settled \subseteq settled'
  BY DEF Next, Engine, Tick, StartRegister, StartReadCursor, StartAdvanceCursor, Settle,
     AdvanceCursor, CronFires, WorkerFires, WorkerFinishes, CatchUpBegins, CatchUpFires,
     CatchUpFinishesFire, CatchUpDone, Crash, Stop, StopReturns, GoDown, vars
<1>6. Settled(d) => Settled(d)'
  BY <1>5 DEF Settled
<1>7. ASSUME NEW why, <<why, d>> \in settled' PROVE Settled(d)'
  BY <1>7 DEF Settled
<1>8. d <= clock /\ (UnderWay(d) => Accounted(d)') => Accounted(d)'
  BY <1>3, <1>4, <1>6 DEF Accounted
<1>9. CASE Tick
  <2>1. CASE d <= clock
    <3>1. UnderWay(d) => UnderWay(d)'
      BY <1>9 DEF Tick, UnderWay
    <3>2. QED
      BY <1>8, <2>1, <3>1 DEF Accounted
  <2>2. CASE clock < d
    <3>1. Alive => armed' <= d /\ up' = up
      BY <1>0, <1>9, <2>2 DEF Tick, ArmedInTime
    <3>2. ~Alive => up \in {"down", "stopping"} /\ up' = up /\ lastTick' < d
      BY <1>0, <1>2, <1>9, <2>2 DEF Tick, TypeOK
    <3>3. UnderWay(d)'
      BY <3>1, <3>2 DEF UnderWay
    <3>4. QED
      BY <3>3 DEF Accounted
  <2>3. QED
    BY <1>0, <1>2, <2>1, <2>2
<1>10. ASSUME ~Tick PROVE d <= clock
  <2>1. clock' = clock
    BY <1>10 DEF Next, Engine, StartRegister, StartReadCursor, StartAdvanceCursor, Settle,
       AdvanceCursor, CronFires, WorkerFires, WorkerFinishes, CatchUpBegins, CatchUpFires,
       CatchUpFinishesFire, CatchUpDone, Crash, Stop, StopReturns, GoDown, vars
  <2>2. QED
    BY <1>1, <2>1
<1>11. SUFFICES ASSUME d <= clock, UnderWay(d) PROVE Accounted(d)'
  BY <1>8, <1>9, <1>10
<1>12. CASE StartRegister
  <2>1. d \notin Range(queue) \cup Range(replay) /\ up = "down" /\ kpc # "begin"
    BY <1>0, <1>12, RangeOfNone DEF StartRegister, Control
  <2>2. lastTick < d
    BY <1>11, <2>1 DEF UnderWay
  <2>3. CASE lastTick = 0
    <3>1. <<"fresh", d>> \in settled'
      BY <1>11, <1>12, <2>3 DEF StartRegister, Settle
    <3>2. QED
      BY <1>7, <3>1 DEF Accounted
  <2>4. CASE lastTick # 0
    BY <1>12, <2>2, <2>4 DEF StartRegister, Accounted, UnderWay
  <2>5. QED
    BY <2>3, <2>4
<1>13. CASE StartReadCursor
  <2>1. UnderWay(d)'
    BY <1>0, <1>11, <1>13 DEF StartReadCursor, Control, UnderWay
  <2>2. QED
    BY <2>1 DEF Accounted
<1>14. CASE StartAdvanceCursor
  <2>1. UnderWay(d)'
    BY <1>11, <1>14 DEF StartAdvanceCursor, UnderWay
  <2>2. QED
    BY <2>1 DEF Accounted
<1>15. CASE AdvanceCursor
  <2>1. UnderWay(d)'
    BY <1>11, <1>15 DEF AdvanceCursor, UnderWay
  <2>2. QED
    BY <2>1 DEF Accounted
<1>16. CASE CronFires
  <2>1. Alive /\ up' = up /\ armed \in Due /\ armed \in Int /\ armed <= clock
    BY <1>0, <1>16, DueBounds DEF CronFires, TypeOK, ZeroTime
  <2>2. Range(Append(queue, armed)) = Range(queue) \cup {armed}
    BY <1>0, <2>1, RangeOfAppend
  <2>3. CASE d = armed
    <3>1. d \in Range(queue') \/ <<"queue_full", d>> \in settled'
      BY <1>16, <2>1, <2>3, <2>2 DEF CronFires
    <3>2. QED
      BY <1>7, <3>1 DEF Accounted, UnderWay
  <2>4. CASE armed < d
    <3>1. <<"late", d>> \in settled'
      BY <1>11, <1>16, <2>4 DEF CronFires, Settle
    <3>2. QED
      BY <1>7, <3>1 DEF Accounted
  <2>5. CASE d < armed
    <3>1. Range(queue) \subseteq Range(queue')
      BY <1>16, <2>2 DEF CronFires
    <3>2. ~(armed <= d)
      BY <1>2, <2>1, <2>5
    <3>3. UnderWay(d)'
      BY <1>11, <1>16, <3>1, <3>2 DEF CronFires, UnderWay
    <3>4. QED
      BY <3>3 DEF Accounted
  <2>6. QED
    BY <1>2, <2>1, <2>3, <2>4, <2>5
<1>17. CASE WorkerFires
  <2>1. Head(queue) \in Due /\ Range(queue) = Range(queue') \cup {Head(queue)}
    BY <1>0, <1>17, RangeOfTail DEF WorkerFires
  <2>2. CASE d = Head(queue)
    <3>1. Begin(d) => Fired(d)'
      BY <1>0, <1>2 DEF Begin, Fired
    <3>2. Begin(d) \/ <<"concurrent_run", d>> \in settled'
      BY <1>17, <2>2 DEF WorkerFires, Settle
    <3>3. QED
      BY <1>7, <3>1, <3>2 DEF Accounted
  <2>3. CASE d # Head(queue)
    <3>1. UnderWay(d)'
      BY <1>11, <1>17, <2>1, <2>3 DEF WorkerFires, UnderWay
    <3>2. QED
      BY <3>1 DEF Accounted
  <2>4. QED
    BY <2>2, <2>3
<1>18. CASE CatchUpBegins
  <2>1. replay = << >> /\ Range(replay) = {}
    BY <1>0, <1>18, RangeOfNone DEF CatchUpBegins, Control
  <2>2. CASE d \in Window
    <3>1. d \in Range(replay') \/ <<"policy", d>> \in settled'
      BY <1>18, <2>2 DEF CatchUpBegins, Settle
    <3>2. QED
      BY <1>7, <3>1 DEF Accounted, UnderWay
  <2>3. CASE d \notin Window
    <3>1. ~(prevTick # 0 /\ prevTick < d)
      BY <1>11, <2>3 DEF Window
    <3>2. UnderWay(d)'
      BY <1>11, <1>18, <2>1, <3>1 DEF CatchUpBegins, UnderWay
    <3>3. QED
      BY <3>2 DEF Accounted
  <2>4. QED
    BY <2>2, <2>3
<1>19. CASE CatchUpFires
  <2>1. Head(replay) \in Due \cup {ZeroTime} /\ Range(replay) = Range(replay') \cup {Head(replay)}
    BY <1>0, <1>19, RangeOfTail DEF CatchUpFires
  <2>2. CASE d = Head(replay)
    <3>1. Begin(d) => Fired(d)'
      BY <1>0, <1>2 DEF Begin, Fired
    <3>2. Begin(d) \/ <<"concurrent_run", d>> \in settled'
      BY <1>19, <2>2 DEF CatchUpFires, Settle
    <3>3. QED
      BY <1>7, <3>1, <3>2 DEF Accounted
  <2>3. CASE d # Head(replay)
    <3>1. UnderWay(d)'
      BY <1>11, <1>19, <2>1, <2>3 DEF CatchUpFires, UnderWay
    <3>2. QED
      BY <3>1 DEF Accounted
  <2>4. QED
    BY <2>2, <2>3
<1>20. CASE Crash
  <2>1. up' = "down" /\ lastTick' = lastTick
    BY <1>20 DEF Crash, GoDown
  <2>2. CASE lastTick < d
    BY <2>1, <2>2 DEF Accounted, UnderWay
  <2>3. CASE d <= lastTick
    <3>1. d \in PendingCron \cup PendingReplay \cup PendingDrop
      <4>1. CASE d \in Range(queue)
        BY <4>1 DEF PendingCron
      <4>2. CASE d \in Range(replay)
        <5>1. kpc # "begin"
          BY <1>0, <4>2, RangeOfNone DEF Control
        <5>2. QED
          BY <4>2, <5>1 DEF PendingReplay
      <4>3. CASE Alive /\ armed <= d
        BY <1>11, <4>3 DEF PendingCron
      <4>4. CASE kpc = "begin" /\ prevTick # 0 /\ prevTick < d
        <5>1. d \in Window
          BY <1>11, <4>4 DEF Window
        <5>2. QED
          BY <4>4, <5>1 DEF PendingDrop
      <4>5. ~(lastTick < d)
        BY <1>0, <1>2, <2>3
      <4>6. ~(up = "read" /\ prevTick < d)
        BY <1>0, <4>5 DEF CursorRead
      <4>7. QED
        BY <1>11, <4>1, <4>2, <4>3, <4>4, <4>5, <4>6 DEF UnderWay
    <3>2. <<"crash", d>> \in settled' \/ <<"replay", d>> \in settled' \/ <<"policy", d>> \in settled'
      BY <1>20, <2>3, <3>1 DEF Crash, Passed
    <3>3. QED
      BY <1>7, <3>2 DEF Accounted
  <2>4. QED
    BY <1>0, <1>2, <2>2, <2>3
<1>21. CASE Stop
  <2>1. up' = "stopping" /\ lastTick' = lastTick /\ up = "running"
    BY <1>21 DEF Stop
  <2>2. CASE armed <= d
    <3>1. CASE lastTick < d
      BY <2>1, <3>1 DEF Accounted, UnderWay
    <3>2. CASE d <= lastTick
      <4>1. <<"crash", d>> \in settled'
        BY <1>11, <1>21, <2>2, <3>2 DEF Stop, Settle, Passed
      <4>2. QED
        BY <1>7, <4>1 DEF Accounted
    <3>3. QED
      BY <1>0, <1>2, <3>1, <3>2
  <2>3. CASE ~(armed <= d)
    <3>1. UnderWay(d)'
      BY <1>11, <1>21, <2>1, <2>3 DEF Stop, UnderWay
    <3>2. QED
      BY <3>1 DEF Accounted
  <2>4. QED
    BY <2>2, <2>3
<1>22. CASE StopReturns
  <2>1. up = "stopping" /\ kpc = "done" /\ Range(queue) = {} /\ Range(replay) = {}
    BY <1>0, <1>22, RangeOfNone DEF StopReturns, Control
  <2>2. lastTick < d
    BY <1>11, <2>1 DEF UnderWay
  <2>3. QED
    BY <1>22, <2>2 DEF StopReturns, GoDown, Accounted, UnderWay
<1>23. CASE WorkerFinishes \/ CatchUpFinishesFire \/ CatchUpDone \/ UNCHANGED vars
  <2>1. UnderWay(d)'
    <3>1. /\ up' = up /\ armed' = armed /\ lastTick' = lastTick /\ prevTick' = prevTick
          /\ queue' = queue /\ replay' = replay /\ (kpc = "begin" <=> kpc' = "begin")
      BY <1>23 DEF WorkerFinishes, CatchUpFinishesFire, CatchUpDone, vars
    <3>2. QED
      BY <1>11, <3>1 DEF UnderWay
  <2>2. QED
    BY <2>1 DEF Accounted
<1>24. QED
  BY <1>9, <1>12, <1>13, <1>14, <1>15, <1>16, <1>17, <1>18, <1>19, <1>20, <1>21, <1>22, <1>23
     DEF Next, Engine

-----------------------------------------------------------------------------
(* The theorems. *)

LEMMA InitInv == Init => Inv
<1> SUFFICES ASSUME Init PROVE Inv
  OBVIOUS
<1>1. TypeOK
  BY RangeOfNone DEF Init, TypeOK
<1>2. Control /\ CursorRead /\ ArmedInTime
  BY DEF Init, Control, CursorRead, ArmedInTime
<1>3. AfterCursor
  BY RangeOfNone DEF Init, AfterCursor, Cursor
<1>4. AllAccounted
  BY DueBounds DEF Init, AllAccounted, Accounted, UnderWay
<1>5. QED
  BY <1>1, <1>2, <1>3, <1>4 DEF Inv

\* The inductive invariant holds in every reachable state: cron timers, Start, the
\* catch-up goroutine, the worker, stops and crashes keep it.
THEOREM Invariance == Spec => []Inv
<1>1. Init => Inv
  BY InitInv
<1>2. Inv /\ [Next]_vars => Inv'
  BY TypeStep, ControlStep, ArmedStep, AfterCursorStep, AccountedStep DEF Inv
<1>3. QED
  BY <1>1, <1>2, PTL DEF Spec

\* No instant that has come is lost silently over timers that go off late, full
\* queues, policies, caps, crashes and stops (NoSilentLoss).
THEOREM NothingIsLost == Spec => []NoSilentLoss
<1>1. ASSUME Inv PROVE NoSilentLoss
  <2>1. SUFFICES ASSUME up = "running", kpc = "done", queue = << >>, armed \notin 1..clock,
                        NEW d \in sched, d <= clock
                 PROVE  Fired(d) \/ Settled(d)
    BY <1>1 DEF NoSilentLoss, Inv
  <2>2. Range(queue) = {} /\ Range(replay) = {}
    BY <1>1, <2>1, RangeOfNone DEF Inv, Control
  <2>3. ~(armed <= d)
    <3>1. armed \in Nat /\ clock \in Nat /\ d \in Nat /\ sched # {}
      BY <1>1, <2>1, DueBounds DEF Inv, TypeOK, ZeroTime
    <3>2. armed # ZeroTime
      BY <1>1, <2>1, <3>1 DEF Inv, ArmedInTime
    <3>3. QED
      BY <2>1, <3>1, <3>2 DEF ZeroTime
  <2>4. ~UnderWay(d)
    BY <2>1, <2>2, <2>3 DEF UnderWay
  <2>5. QED
    BY <1>1, <2>1, <2>4 DEF Inv, AllAccounted, Accounted
<1>2. QED
  BY <1>1, Invariance, PTL

\* The replay is that of missedFires and the policy, for every cap and every spec:
\* the missed instants of one that names some, the zero time of one that names none
\* (MissedFiresExact).
THEOREM ReplayIsExact == Spec => MissedFiresExact
<1>1. ASSUME Inv, CatchUpBegins, sched # {} PROVE ReplaysTheMissed
  <2> DEFINE cut == {d \in Window : MaxCatchUp = 0 \/ Cardinality({e \in Window : e <= d}) <= MaxCatchUp}
             missed == MissedFires(Due, prevTick, clock, MaxCatchUp)
  <2>1. /\ prevTick \in 0..MaxClock /\ clock \in 1..MaxClock /\ MaxCatchUp \in Nat
        /\ policy \in {"skip", "run_once", "run_all"} /\ sched \in {Due, {}}
    BY <1>1 DEF Inv, TypeOK
  <2>2. sched = Due /\ Due # {}
    BY <1>1, <2>1
  <2>3. Window = Missed(prevTick, clock) /\ Window \in SUBSET Due
    BY <2>2 DEF Window, Missed
  <2>4. cut = Earliest(Window, MaxCatchUp)
    BY DEF Earliest
  <2>5. Lists(missed, cut)
    BY <2>2, <2>1, <2>3, <2>4, MissedFiresIs
  <2>6. replay' = Selected(missed)
    BY <1>1, <2>2 DEF CatchUpBegins
  <2>7. Window = {} <=> cut = {}
    BY <2>1, <2>3, <2>4, EarliestExists DEF Earliest
  <2> HIDE DEF missed, cut
  <2>8. /\ Range(replay') \subseteq cut
        /\ policy = "run_all" => replay' = missed
        /\ policy = "run_once" => Len(replay') = (IF cut = {} THEN 0 ELSE 1)
        /\ Increasing(replay')
    BY <2>1, <2>5, <2>6, SelectedIs
  <2>9. Range(missed) = cut /\ Len(missed) = Cardinality(cut)
    BY <2>5 DEF Lists
  <2>10. QED
    BY <2>7, <2>8, <2>9 DEF Increasing, ReplaysTheMissed, cut
<1>2. ASSUME Inv, CatchUpBegins, sched = {} PROVE ReplaysTheZeroTime
  <2> DEFINE missed == MissedFires({}, prevTick, clock, MaxCatchUp)
  <2>1. /\ prevTick \in 0..MaxClock /\ clock \in 1..MaxClock /\ MaxCatchUp \in Nat
        /\ policy \in {"skip", "run_once", "run_all"}
    BY <1>2 DEF Inv, TypeOK
  <2>2. missed = (IF prevTick = 0 \/ prevTick >= clock THEN << >> ELSE <<ZeroTime>>)
    BY <2>1, MissedFiresOfNone
  <2>3. replay' = Selected(missed)
    BY <1>2 DEF CatchUpBegins
  <2> HIDE DEF missed
  <2>4. CASE prevTick = 0 \/ prevTick >= clock
    BY <2>1, <2>2, <2>3, <2>4 DEF Selected, ReplaysTheZeroTime
  <2>5. CASE prevTick # 0 /\ prevTick < clock
    <3>1. missed = <<ZeroTime>> /\ missed # << >> /\ missed[Len(missed)] = ZeroTime
      BY <2>1, <2>2, <2>5
    <3>2. replay' = IF policy = "skip" THEN << >> ELSE <<ZeroTime>>
      BY <2>1, <2>3, <3>1 DEF Selected
    <3>3. QED
      BY <2>5, <3>2 DEF ReplaysTheZeroTime
  <2>6. QED
    BY <2>1, <2>4, <2>5
<1> DEFINE Exact == IF sched # {} THEN ReplaysTheMissed ELSE ReplaysTheZeroTime
<1>3. MissedFiresExact <=> [][CatchUpBegins => Exact]_vars
  BY DEF MissedFiresExact
<1>4. Inv => [CatchUpBegins => Exact]_vars
  BY <1>1, <1>2
<1> HIDE DEF Exact
<1>5. QED
  BY <1>3, <1>4, Invariance, PTL DEF Spec

\* Nothing at or before the cursor that Start read is fired (CursorStopsRepeats).
THEOREM CursorHolds == Spec => CursorStopsRepeats
<1>1. ASSUME Inv, [Next]_vars, NEW d \in Due, fired'[d] > fired[d]
      PROVE  prevTick < d
  <2>1. /\ queue \in Seq(Due) /\ replay \in Seq(Due \cup {ZeroTime})
        /\ fired \in [Due \cup {ZeroTime} -> Nat] /\ Control /\ AfterCursor /\ d # ZeroTime
    BY <1>1, DueBounds DEF Inv, TypeOK, ZeroTime
  <2>2. ASSUME NEW e \in Due \cup {ZeroTime}, Begin(e) PROVE e = d
    BY <1>1, <2>1, <2>2 DEF Begin
  <2>3. CASE WorkerFires
    <3>1. Begin(Head(queue)) /\ queue # << >> /\ wpc = "idle"
      BY <1>1, <2>1, <2>3 DEF WorkerFires
    <3>2. Head(queue) \in Due /\ Head(queue) \in Range(queue)
      BY <2>1, <3>1, RangeOfTail
    <3>3. up # "registered"
      BY <2>1, <3>1 DEF Control
    <3>4. QED
      BY <2>1, <2>2, <3>1, <3>2, <3>3 DEF AfterCursor, Cursor
  <2>4. CASE CatchUpFires
    <3>1. Begin(Head(replay)) /\ replay # << >> /\ kpc = "replay"
      BY <1>1, <2>1, <2>4 DEF CatchUpFires
    <3>2. Head(replay) \in Due \cup {ZeroTime} /\ Head(replay) \in Range(replay)
      BY <2>1, <3>1, RangeOfTail
    <3>3. up # "registered"
      BY <2>1, <3>1 DEF Control
    <3>4. QED
      BY <2>1, <2>2, <3>1, <3>2, <3>3 DEF AfterCursor, Cursor
  <2>5. CASE fired' = fired
    BY <1>1, <2>1, <2>5
  <2>6. QED
    BY <1>1, <2>3, <2>4, <2>5 DEF Next, Engine, Tick, StartRegister, StartReadCursor,
       StartAdvanceCursor, AdvanceCursor, CronFires, WorkerFinishes, CatchUpBegins,
       CatchUpFinishesFire, CatchUpDone, Crash, Stop, StopReturns, GoDown, vars
<1> DEFINE Held == \A d \in Due : fired[d] > 0 /\ fired'[d] > fired[d] => prevTick < d
<1>2. Inv /\ [Next]_vars => [Held]_vars
  BY <1>1
<1>3. CursorStopsRepeats <=> [][Held]_vars
  BY DEF CursorStopsRepeats
<1> HIDE DEF Held
<1>4. QED
  BY <1>2, <1>3, Invariance, PTL DEF Spec

=============================================================================
