--------------------------- MODULE EventBusProofs ---------------------------
(***************************************************************************)
(* Proofs about EventBus for every capacity, retention limit and bound,    *)
(* and about EventStream for every number of clients and replay limit.     *)
(*                                                                         *)
(* The safety invariants are not inductive by themselves: that a channel   *)
(* is in order after a send depends on the number of the event being sent, *)
(* and that on how the events still in publishCh are numbered.  IndInv     *)
(* adds those links.                                                       *)
(*                                                                         *)
(* The stream's invariants need more.  That a follower's next event is not *)
(* older than its last one holds because its cursor cuts the bucket where  *)
(* the events it has received end (Placed), which is so because the bucket *)
(* is a run of keys in publication order (IndInv).  That what it skipped   *)
(* has a cause holds because everything later than what it has read is     *)
(* already excused, waits for it, or is the event in the bus's hands       *)
(* (Coming).  Each step of the stream has one of five effects on a client  *)
(* (Effects); each effect keeps these parts, whatever the action was.      *)
(***************************************************************************)
EXTENDS EventStream, FiniteSetTheorems, WellFoundedInduction, TLAPS

-----------------------------------------------------------------------------
(* The inductive invariant. *)

\* publishCh holds the last accepted events, in order, and the bus goroutine is
\* working on the one just before them.
Numbering ==
  /\ Taken >= 0
  /\ \A i \in 1..Len(publishCh) : publishCh[i].n = Taken + i
  /\ pc \in {"process", "snapshot", "fanout"} => cur \in Event /\ cur.n = Taken
  /\ pc \in {"process", "snapshot", "idle", "stopped", "new"} => pending = {}

\* The number of the last event AppendEvent has been called for.
Appended == IF pc = "process" THEN Taken - 1 ELSE Taken

\* No sequence number runs ahead of the events taken from publishCh.
LogNumbering ==
  /\ nextSeq <= Appended
  /\ \A s \in DOMAIN log : log[s].n <= Appended

\* Subscriber keys beyond the counter are untouched.
KeysFresh ==
  /\ subs \subseteq 1..subSeq
  /\ \A k \in SubKeys : k > subSeq => k \notin pending /\ ch[k] = << >> /\ ~overflowed[k]

\* The number of the last event fanOut has offered to subscriber k.
Sent(k) == IF k \in pending THEN Fanned - 1 ELSE Fanned

\* Nothing in a subscriber's channel is newer than what fanOut offered it.
ChannelNumbering ==
  \A k \in subs : /\ last[k] <= Sent(k)
                  /\ \A i \in 1..Len(ch[k]) : ch[k][i].n <= Sent(k)

IndInv ==
  /\ TypeOK /\ Numbering /\ LogNumbering /\ KeysFresh /\ ChannelNumbering
  /\ LogContiguous /\ LogInOrder /\ SubscriberInOrder /\ SubscriberGapFree

-----------------------------------------------------------------------------
(* Facts about the sequences that model channels. *)

\* A non-blocking send appends one element at the end of a channel.
LEMMA AppendFacts ==
  ASSUME NEW S, NEW q \in Seq(S), NEW e \in S
  PROVE  /\ Append(q, e) \in Seq(S)
         /\ Len(Append(q, e)) = Len(q) + 1
         /\ \A i \in 1..Len(q) : Append(q, e)[i] = q[i]
         /\ Append(q, e)[Len(q) + 1] = e
OBVIOUS

\* A receive removes the first element and shifts the others.
LEMMA HeadTailFacts ==
  ASSUME NEW S, NEW q \in Seq(S), q # << >>
  PROVE  /\ Len(q) \in Nat \ {0}
         /\ Head(q) = q[1] /\ Head(q) \in S
         /\ Tail(q) \in Seq(S)
         /\ Len(Tail(q)) = Len(q) - 1
         /\ \A i \in 1..Len(Tail(q)) : Tail(q)[i] = q[i + 1]
OBVIOUS

-----------------------------------------------------------------------------
(* Type correctness of a step. *)

\* An accepted event is well formed, and a full channel drops it unchanged.
LEMMA OfferType ==
  ASSUME TypeOK, NEW t \in 1..MaxClock, Offer(t)
  PROVE  PublishOK'
<1> USE BufferAssumption, BoundAssumption DEF TypeOK, PublishOK
<1>1. CASE Len(publishCh) < PublishBuf
  <2> DEFINE e == [n |-> accepted + 1, at |-> t, seq |-> 0]
  <2>1. accepted' = accepted + 1 /\ accepted < MaxEvents /\ publishCh' = Append(publishCh, e)
    BY <1>1 DEF Offer
  <2>2. e \in Event
    BY <2>1 DEF Event
  <2> HIDE DEF e
  <2>3. publishCh' \in Seq(Event) /\ Len(publishCh') = Len(publishCh) + 1
    BY <2>1, <2>2, AppendFacts
  <2>4. QED
    BY <2>1, <2>3, <1>1
<1>2. CASE ~(Len(publishCh) < PublishBuf)
  BY <1>2 DEF Offer
<1>3. QED
  BY <1>1, <1>2

\* Every step keeps every variable in its type and every channel within its
\* capacity.
LEMMA TypeStep ==
  ASSUME TypeOK, Numbering, LogNumbering, [Next]_busVars
  PROVE  TypeOK'
<1> USE BufferAssumption, RetentionAssumption, BoundAssumption
<1> USE DEF TypeOK, ProducersOK, PublishOK, LogOK, BusOK, SubsOK, ChannelsOK, RetentionOK
<1>1. CASE Start
  BY <1>1 DEF Start
<1>2. CASE Crash
  <2>1. ProducersOK' /\ PublishOK' /\ LogOK'
    BY <1>2 DEF Crash, NoEvent
  <2>2. BusOK' /\ RetentionOK'
    BY <1>2 DEF Crash
  <2>3. SubsOK' /\ ChannelsOK'
    BY <1>2 DEF Crash
  <2>4. QED
    BY <2>1, <2>2, <2>3
<1>3. CASE Tick
  BY <1>3 DEF Tick, NoEvent
<1>4. CASE Stop
  BY <1>4 DEF Stop
<1>5. ASSUME NEW p \in Producers, NewEvent(p) PROVE TypeOK'
  BY <1>5 DEF NewEvent, NoEvent, ZeroTime
<1>6. ASSUME NEW p \in Producers, Publish(p) PROVE TypeOK'
  <2>1. PublishOK'
    <3> DEFINE t == IF hand[p] = ZeroTime THEN clock ELSE hand[p]
    <3>1. t \in 1..MaxClock
      BY <1>6 DEF Publish, NoEvent, ZeroTime
    <3>2. Offer(t)
      BY <1>6 DEF Publish
    <3> HIDE DEF t
    <3>3. QED
      BY <3>1, <3>2, OfferType
  <2>2. QED
    BY <2>1, <1>6 DEF Publish, NoEvent
<1>7. CASE Take
  <2>1. Head(publishCh) \in Event /\ Tail(publishCh) \in Seq(Event)
          /\ Len(Tail(publishCh)) = Len(publishCh) - 1
    BY <1>7, HeadTailFacts DEF Take
  <2>2. QED
    BY <2>1, <1>7 DEF Take
<1>8. CASE BeginDrain
  BY <1>8 DEF BeginDrain
<1>9. CASE Exit
  BY <1>9 DEF Exit
<1>10. CASE AppendEvent
  <2>1. nextSeq + 1 \in 1..MaxEvents
    BY <1>10 DEF AppendEvent, Numbering, LogNumbering, Appended, Taken
  <2>2. cur' \in Event
    BY <2>1, <1>10 DEF AppendEvent, Numbering, Event
  <2>3. QED
    BY <2>1, <2>2, <1>10 DEF AppendEvent
<1>11. CASE AppendEventFails
  BY <1>11 DEF AppendEventFails
<1>12. CASE FanOut
  BY <1>12 DEF FanOut
<1>13. ASSUME NEW k \in SubKeys, Send(k) PROVE TypeOK'
  <2>1. cur \in Event
    BY <1>13 DEF Send, Numbering
  <2>2. Append(ch[k], cur) \in Seq(Event) /\ Len(Append(ch[k], cur)) = Len(ch[k]) + 1
    BY <2>1, AppendFacts
  <2>3. ChannelsOK'
    <3>1. CASE Len(ch[k]) < SubscriberBuf
      <4>1. ch' = [ch EXCEPT ![k] = Append(ch[k], cur)]
        BY <3>1, <1>13 DEF Send
      <4>2. QED
        BY <4>1, <3>1, <2>2
    <3>2. CASE ~(Len(ch[k]) < SubscriberBuf)
      BY <3>2, <1>13 DEF Send
    <3>3. QED
      BY <3>1, <3>2
  <2>4. SubsOK'
    BY <1>13 DEF Send
  <2>5. ProducersOK' /\ PublishOK' /\ LogOK' /\ BusOK' /\ RetentionOK'
    BY <1>13 DEF Send
  <2>6. QED
    BY <2>3, <2>4, <2>5
<1>14. CASE Subscribe
  <2>1. Fanned \in 0..MaxEvents
    BY <1>14 DEF Fanned, Taken, Numbering, Event
  <2>2. QED
    BY <2>1, <1>14 DEF Subscribe, SubKeys
<1>15. ASSUME NEW k \in SubKeys, Receive(k) PROVE TypeOK'
  <2>1. Head(ch[k]) \in Event /\ Tail(ch[k]) \in Seq(Event) /\ Len(Tail(ch[k])) = Len(ch[k]) - 1
    BY <1>15, HeadTailFacts DEF Receive
  <2>2. Head(ch[k]).n \in 0..MaxEvents
    BY <2>1 DEF Event
  <2>3. QED
    BY <2>1, <2>2, <1>15 DEF Receive
<1>16. ASSUME NEW k \in SubKeys, Cancel(k) PROVE TypeOK'
  BY <1>16 DEF Cancel
<1>17. CASE PruneEvents
  BY <1>17 DEF PruneEvents, Delete
<1>18. CASE SkipPruneEvents
  BY <1>18 DEF SkipPruneEvents
<1>19. CASE PruneEventsByAge
  BY <1>19 DEF PruneEventsByAge, Delete
<1>20. CASE SkipPruneEventsByAge
  BY <1>20 DEF SkipPruneEventsByAge
<1>21. CASE ReportSweep
  <2>1. PublishOK'
    BY <1>21, OfferType DEF ReportSweep
  <2>2. QED
    BY <2>1, <1>21 DEF ReportSweep
<1>22. CASE BeginSweep
  BY <1>22 DEF BeginSweep
<1>23. CASE UNCHANGED busVars
  BY <1>23 DEF busVars
<1>24. QED
  BY <1>1, <1>2, <1>3, <1>4, <1>5, <1>6, <1>7, <1>8, <1>9, <1>10, <1>11, <1>12, <1>13,
     <1>14, <1>15, <1>16, <1>17, <1>18, <1>19, <1>20, <1>21, <1>22, <1>23
     DEF Next, BusInternal, Sweep, Consume

-----------------------------------------------------------------------------
(* How events are numbered on their way through publishCh. *)

\* Publishing leaves the number of the event at the head of the channel alone.
LEMMA OfferNumbering ==
  ASSUME TypeOK, Numbering, NEW t, Offer(t)
  PROVE  /\ Taken' = Taken
         /\ \A i \in 1..Len(publishCh') : publishCh'[i].n = Taken + i
<1> USE DEF TypeOK, PublishOK, Numbering, Taken
<1>1. CASE Len(publishCh) < PublishBuf
  <2> DEFINE e == [n |-> accepted + 1, at |-> t, seq |-> 0]
  <2>1. accepted' = accepted + 1 /\ publishCh' = Append(publishCh, e) /\ e.n = accepted + 1
    BY <1>1 DEF Offer
  <2> HIDE DEF e
  <2>2. publishCh \in Seq(Event \cup {e})
    OBVIOUS
  <2>3. /\ Len(publishCh') = Len(publishCh) + 1
        /\ \A i \in 1..Len(publishCh) : publishCh'[i] = publishCh[i]
        /\ publishCh'[Len(publishCh) + 1] = e
    BY <2>1, <2>2, AppendFacts
  <2>4. QED
    BY <2>1, <2>3
<1>2. CASE ~(Len(publishCh) < PublishBuf)
  BY <1>2 DEF Offer
<1>3. QED
  BY <1>1, <1>2

\* Numbering survives every step: only Take, Publish and a sweep's report touch
\* publishCh, and only Take gives the bus goroutine another event.
LEMMA NumberingStep ==
  ASSUME TypeOK, TypeOK', Numbering, [Next]_busVars
  PROVE  Numbering'
<1> USE DEF TypeOK, PublishOK, BusOK
<1>1. CASE Start
  BY <1>1 DEF Start, Numbering, Taken
<1>2. CASE Crash
  BY <1>2 DEF Crash, Numbering, Taken
<1>3. ASSUME UNCHANGED <<publishCh, accepted, pc, cur, pending>> PROVE Numbering'
  BY <1>3 DEF Numbering, Taken
<1>4. ASSUME NEW p \in Producers, Publish(p) PROVE Numbering'
  BY <1>4, OfferNumbering DEF Publish, Numbering
<1>5. CASE ReportSweep
  <2>1. CASE pruned
    BY <2>1, <1>5, OfferNumbering DEF ReportSweep, Numbering
  <2>2. CASE ~pruned
    BY <2>2, <1>5, <1>3 DEF ReportSweep
  <2>3. QED
    BY <2>1, <2>2
<1>6. CASE Take
  <2>1. /\ Head(publishCh) = publishCh[1] /\ Head(publishCh) \in Event
        /\ Len(Tail(publishCh)) = Len(publishCh) - 1 /\ Len(publishCh) \in Nat \ {0}
        /\ \A i \in 1..Len(Tail(publishCh)) : Tail(publishCh)[i] = publishCh[i + 1]
    BY <1>6, HeadTailFacts DEF Take
  <2>2. Taken' = Taken + 1
    BY <2>1, <1>6 DEF Take, Taken
  <2>3. QED
    BY <2>1, <2>2, <1>6 DEF Take, Numbering, Taken
<1>7. CASE Exit
  BY <1>7 DEF Exit, Numbering, Taken
<1>8. CASE AppendEvent
  <2>1. cur'.n = cur.n /\ cur.n \in 1..MaxEvents
    BY <1>8 DEF AppendEvent, Numbering, Event
  <2>2. cur' \in Event
    BY <2>1 DEF NoCur
  <2>3. QED
    BY <2>1, <2>2, <1>8 DEF AppendEvent, Numbering, Taken
<1>9. CASE AppendEventFails
  BY <1>9 DEF AppendEventFails, Numbering, Taken
<1>10. CASE FanOut
  BY <1>10 DEF FanOut, Numbering, Taken
<1>11. ASSUME NEW k \in SubKeys, Send(k) PROVE Numbering'
  BY <1>11 DEF Send, Numbering, Taken
<1>12. QED
  BY <1>1, <1>2, <1>3, <1>4, <1>5, <1>6, <1>7, <1>8, <1>9, <1>10, <1>11
     DEF Next, BusInternal, Sweep, Consume, Tick, Stop, NewEvent, BeginDrain, Subscribe, Receive,
         Cancel, PruneEvents, SkipPruneEvents, PruneEventsByAge, SkipPruneEventsByAge,
         BeginSweep, busVars

-----------------------------------------------------------------------------
(* The events bucket. *)

\* The oldest k keys of a finite set are closed under "older than".
LEMMA OldestDownClosed ==
  ASSUME NEW S \in SUBSET Nat, IsFiniteSet(S), NEW k \in Int,
         NEW s \in Oldest(S, k), NEW t \in S, t < s
  PROVE  t \in Oldest(S, k)
<1> DEFINE Below(x) == {u \in S : u < x}
<1>0. s \in S
  BY DEF Oldest
<1>1. Below(s) \subseteq S /\ Below(t) \subseteq Below(s)
  <2>1. \A u \in S : u < t => u < s
    BY <1>0
  <2>2. QED
    BY <2>1
<1>2. IsFiniteSet(Below(s))
  BY <1>1, FS_Subset
<1>3. Cardinality(Below(t)) <= Cardinality(Below(s)) /\ IsFiniteSet(Below(t))
  BY <1>1, <1>2, FS_Subset
<1>4. Cardinality(Below(t)) \in Nat /\ Cardinality(Below(s)) \in Nat
  BY <1>2, <1>3, FS_CardinalityType
<1>5. Cardinality(Below(s)) < k
  BY DEF Oldest
<1>6. Cardinality(Below(t)) < k
  BY <1>3, <1>4, <1>5
<1>7. QED
  BY <1>6 DEF Oldest

\* A set of keys whose deletion leaves no survivor older than a victim.
DownClosed(K) == K \subseteq DOMAIN log /\ \A s \in K : \A t \in DOMAIN log : t < s => t \in K

\* Count pruning deletes a prefix of the bucket ...
LEMMA ExcessDownClosed ==
  ASSUME TypeOK
  PROVE  DownClosed(ExcessKeys)
<1> DEFINE D == DOMAIN log
           k == Cardinality(D) - MaxRecords
<1> USE RetentionAssumption
<1>1. D \in SUBSET Nat /\ IsFiniteSet(D)
  <2>1. IsFiniteSet(1..nextSeq) /\ D \subseteq 1..nextSeq
    BY FS_Interval DEF TypeOK, LogOK
  <2>2. QED
    BY <2>1, FS_Subset DEF TypeOK, LogOK
<1>2. k \in Int
  BY <1>1, FS_CardinalityType
<1> HIDE DEF k
<1>3. Oldest(D, k) \in SUBSET Nat /\ Oldest(D, k) \subseteq D /\ IsFiniteSet(Oldest(D, k))
  BY <1>1, FS_Subset DEF Oldest
<1>4. ExcessKeys = Oldest(Oldest(D, k), MaxPerSweep)
  BY DEF ExcessKeys, k
<1>5. ASSUME NEW s \in ExcessKeys, NEW t \in D, t < s PROVE t \in ExcessKeys
  <2>1. s \in Oldest(D, k)
    BY <1>4 DEF Oldest
  <2>2. t \in Oldest(D, k)
    BY <2>1, <1>1, <1>2, <1>5, OldestDownClosed
  <2>3. QED
    BY <2>2, <1>3, <1>4, <1>5, OldestDownClosed
<1>6. ExcessKeys \subseteq D
  BY <1>3, <1>4 DEF Oldest
<1>7. QED
  BY <1>5, <1>6 DEF DownClosed

\* ... and so does age pruning, because its walk stops at the first event that
\* is still young enough.
LEMMA StaleDownClosed ==
  ASSUME TypeOK
  PROVE  DownClosed(StaleKeys)
<1> DEFINE D == DOMAIN log
           P == StalePrefix(clock - MaxAge)
<1> USE RetentionAssumption
<1>1. D \in SUBSET Nat /\ IsFiniteSet(D)
  <2>1. IsFiniteSet(1..nextSeq) /\ D \subseteq 1..nextSeq
    BY FS_Interval DEF TypeOK, LogOK
  <2>2. QED
    BY <2>1, FS_Subset DEF TypeOK, LogOK
<1>2. P \subseteq D /\ P \in SUBSET Nat /\ IsFiniteSet(P)
  BY <1>1, FS_Subset DEF StalePrefix
<1>3. ASSUME NEW s \in StaleKeys, NEW t \in D, t < s PROVE t \in StaleKeys
  <2>1. s \in P
    BY DEF StaleKeys, Oldest
  <2>2. \A u \in D : u <= t => u <= s
    BY <1>1, <1>2, <1>3, <2>1
  <2>3. t \in P
    BY <2>1, <2>2, <1>3 DEF StalePrefix
  <2> HIDE DEF P
  <2>4. s \in Oldest(P, MaxPerSweep)
    BY DEF StaleKeys, P
  <2>5. t \in Oldest(P, MaxPerSweep)
    BY <2>3, <2>4, <1>2, <1>3, OldestDownClosed
  <2>6. QED
    BY <2>5 DEF StaleKeys, P
<1>4. StaleKeys \subseteq D
  BY <1>2 DEF StaleKeys, Oldest
<1>5. QED
  BY <1>3, <1>4 DEF DownClosed

LogInv == LogNumbering /\ LogContiguous /\ LogInOrder

\* Deleting a prefix keeps the bucket contiguous and in order.
LEMMA DeleteKeepsLogInv ==
  ASSUME TypeOK, LogInv, NEW K, DownClosed(K), Delete(K),
         UNCHANGED <<nextSeq, publishCh, accepted, pc>>
  PROVE  LogInv'
<1> USE DEF TypeOK, LogOK, LogInv
<1>1. /\ DOMAIN log' = DOMAIN log \ K
      /\ \A s \in DOMAIN log' : log'[s] = log[s]
  BY DEF Delete
<1>2. LogNumbering' /\ LogInOrder'
  BY <1>1 DEF LogNumbering, LogInOrder, Appended, Taken
<1>3. LogContiguous'
  <2>1. SUFFICES ASSUME NEW s \in DOMAIN log', NEW u \in s..nextSeq
                 PROVE  u \in DOMAIN log'
    BY DEF LogContiguous
  <2>2. s \in DOMAIN log /\ s \notin K /\ u \in DOMAIN log /\ u \in Nat /\ s \in Nat
    BY <2>1, <1>1 DEF LogContiguous
  <2>3. u \notin K
    BY <2>1, <2>2 DEF DownClosed
  <2>4. QED
    BY <2>2, <2>3, <1>1
<1>4. QED
  BY <1>2, <1>3

\* The invariants of the bucket survive every step.
LEMMA LogStep ==
  ASSUME TypeOK, TypeOK', Numbering, LogInv, [Next]_busVars
  PROVE  LogInv'
<1> USE DEF TypeOK, PublishOK, LogOK, BusOK, LogInv
<1>1. ASSUME UNCHANGED <<log, nextSeq>>, Appended' = Appended PROVE LogInv'
  BY <1>1 DEF LogNumbering, LogContiguous, LogInOrder
<1>2. CASE Crash
  <2>1. Appended <= Appended' /\ Appended \in Int /\ Appended' \in Int
    BY <1>2 DEF Crash, Appended, Taken, Numbering
  <2>2. LogNumbering'
    BY <2>1, <1>2 DEF Crash, LogNumbering, Event
  <2>3. QED
    BY <2>2, <1>2 DEF Crash, LogContiguous, LogInOrder
<1>3. ASSUME NEW p \in Producers, Publish(p) PROVE LogInv'
  BY <1>3, <1>1, OfferNumbering DEF Publish, Appended
<1>4. CASE ReportSweep
  <2>1. CASE pruned
    BY <2>1, <1>4, <1>1, OfferNumbering DEF ReportSweep, Appended
  <2>2. CASE ~pruned
    BY <2>2, <1>4, <1>1 DEF ReportSweep, Appended, Taken
  <2>3. QED
    BY <2>1, <2>2
<1>5. CASE Take
  <2>1. Len(Tail(publishCh)) = Len(publishCh) - 1
    BY <1>5, HeadTailFacts DEF Take
  <2>2. QED
    BY <2>1, <1>5, <1>1 DEF Take, Appended, Taken
<1>6. CASE AppendEvent
  <2>1. /\ nextSeq' = nextSeq + 1 /\ nextSeq \in Nat
        /\ DOMAIN log' = DOMAIN log \cup {nextSeq + 1}
        /\ \A s \in DOMAIN log : s \in 1..nextSeq /\ log'[s] = log[s]
        /\ log'[nextSeq + 1].n = cur.n
    BY <1>6 DEF AppendEvent
  <2>2. Appended = Taken - 1 /\ Appended' = Taken /\ cur.n = Taken /\ Taken \in Nat
    BY <1>6 DEF AppendEvent, Appended, Taken, Numbering
  <2>3. \A s \in DOMAIN log : log[s].n <= Taken - 1 /\ log[s].n \in Nat
    BY <2>2 DEF LogNumbering, Event
  <2>4. LogNumbering'
    BY <2>1, <2>2, <2>3 DEF LogNumbering
  <2>5. LogContiguous'
    BY <2>1 DEF LogContiguous
  <2>6. LogInOrder'
    BY <2>1, <2>2, <2>3 DEF LogInOrder
  <2>7. QED
    BY <2>4, <2>5, <2>6
<1>7. CASE AppendEventFails
  <2>1. UNCHANGED <<log, nextSeq>> /\ Appended <= Appended' /\ Appended \in Int /\ Appended' \in Int
    BY <1>7 DEF AppendEventFails, Appended, Taken
  <2>2. LogNumbering'
    BY <2>1 DEF LogNumbering, Event
  <2>3. QED
    BY <2>1, <2>2 DEF LogContiguous, LogInOrder
<1>8. CASE PruneEvents
  BY <1>8, ExcessDownClosed, DeleteKeepsLogInv DEF PruneEvents
<1>9. CASE PruneEventsByAge
  BY <1>9, StaleDownClosed, DeleteKeepsLogInv DEF PruneEventsByAge
<1>10. ASSUME Start \/ Exit \/ FanOut \/ \E k \in SubKeys : Send(k) PROVE LogInv'
  BY <1>10, <1>1 DEF Start, Exit, FanOut, Send, Appended, Taken
<1>11. ASSUME UNCHANGED <<log, nextSeq, publishCh, accepted, pc>> PROVE LogInv'
  BY <1>11, <1>1 DEF Appended, Taken
<1>12. QED
  BY <1>2, <1>3, <1>4, <1>5, <1>6, <1>7, <1>8, <1>9, <1>10, <1>11
     DEF Next, BusInternal, Sweep, Consume, Tick, Stop, NewEvent, BeginDrain, Subscribe, Receive,
         Cancel, SkipPruneEvents, SkipPruneEventsByAge, BeginSweep, busVars

-----------------------------------------------------------------------------
(* Subscribers. *)

\* Channel q holds events in order, all after lo and up to hi ...
InOrder(q, lo, hi) ==
  /\ lo <= hi
  /\ \A i \in 1..Len(q) : lo < q[i].n /\ q[i].n <= hi
  /\ \A i, j \in 1..Len(q) : i < j => q[i].n < q[j].n

\* ... and exactly those.
Gapless(q, lo, hi) ==
  /\ lo + Len(q) = hi
  /\ \A i \in 1..Len(q) : q[i].n = lo + i

\* What the invariants say about one subscriber.
SubInv(k) ==
  /\ InOrder(ch[k], last[k], Sent(k))
  /\ ~overflowed[k] => Gapless(ch[k], last[k], Sent(k))

\* Channels hold events.
LEMMA Elements ==
  ASSUME NEW q \in Seq(Event)
  PROVE  Len(q) \in Nat /\ \A i \in 1..Len(q) : q[i].n \in Int
<1>1. \A i \in 1..Len(q) : q[i] \in Event
  OBVIOUS
<1>2. QED
  BY <1>1, BoundAssumption DEF Event

\* A send of the next event extends the run.
LEMMA SendInOrder ==
  ASSUME NEW q \in Seq(Event), NEW e \in Event, NEW lo \in Int, NEW hi \in Int,
         InOrder(q, lo, hi), e.n = hi + 1
  PROVE  /\ InOrder(Append(q, e), lo, hi + 1)
         /\ Gapless(q, lo, hi) => Gapless(Append(q, e), lo, hi + 1)
<1> DEFINE a == Append(q, e)
<1>1. /\ Len(a) = Len(q) + 1 /\ Len(q) \in Nat
      /\ \A i \in 1..Len(q) : a[i] = q[i] /\ q[i].n \in Int
      /\ a[Len(q) + 1].n = hi + 1
  BY AppendFacts, Elements
<1> HIDE DEF a
<1>2. \A i \in 1..Len(a) : i \in 1..Len(q) \/ i = Len(q) + 1
  BY <1>1
<1>3. lo <= hi + 1 /\ \A i \in 1..Len(a) : lo < a[i].n /\ a[i].n <= hi + 1
  BY <1>1, <1>2 DEF InOrder
<1>4. \A i, j \in 1..Len(a) : i < j => a[i].n < a[j].n
  <2>1. SUFFICES ASSUME NEW i \in 1..Len(a), NEW j \in 1..Len(a), i < j PROVE a[i].n < a[j].n
    OBVIOUS
  <2>2. i \in 1..Len(q)
    BY <2>1, <1>1
  <2>3. CASE j \in 1..Len(q)
    BY <2>1, <2>2, <2>3, <1>1 DEF InOrder
  <2>4. CASE j = Len(q) + 1
    BY <2>2, <2>4, <1>1 DEF InOrder
  <2>5. QED
    BY <2>3, <2>4, <1>2
<1>5. Gapless(q, lo, hi) => Gapless(a, lo, hi + 1)
  <2>1. SUFFICES ASSUME Gapless(q, lo, hi) PROVE Gapless(a, lo, hi + 1)
    OBVIOUS
  <2>2. lo + Len(q) = hi /\ \A i \in 1..Len(q) : q[i].n = lo + i
    BY <2>1 DEF Gapless
  <2>3. lo + Len(a) = hi + 1 /\ a[Len(q) + 1].n = lo + (Len(q) + 1)
    BY <2>2, <1>1
  <2>4. QED
    BY <2>2, <2>3, <1>1, <1>2 DEF Gapless
<1>6. QED
  BY <1>3, <1>4, <1>5 DEF InOrder, a

\* A send that finds the channel full leaves it in order.
LEMMA DropInOrder ==
  ASSUME NEW q \in Seq(Event), NEW lo \in Int, NEW hi \in Int, InOrder(q, lo, hi)
  PROVE  InOrder(q, lo, hi + 1)
BY Elements DEF InOrder

\* A receive moves the lower end of the run to the event received.
LEMMA ReceiveInOrder ==
  ASSUME NEW q \in Seq(Event), q # << >>, NEW lo \in Int, NEW hi \in Int, InOrder(q, lo, hi)
  PROVE  /\ InOrder(Tail(q), Head(q).n, hi)
         /\ Gapless(q, lo, hi) => Gapless(Tail(q), Head(q).n, hi)
<1> DEFINE r == Tail(q)
<1>1. /\ Len(q) \in Nat \ {0} /\ Head(q) = q[1] /\ Len(r) = Len(q) - 1
      /\ \A i \in 1..Len(r) : r[i] = q[i + 1]
      /\ \A i \in 1..Len(q) : q[i].n \in Int
  BY HeadTailFacts, Elements
<1> HIDE DEF r
<1>2. 1 \in 1..Len(q) /\ \A i \in 1..Len(r) : i + 1 \in 1..Len(q) /\ 1 < i + 1
  BY <1>1
<1>3. q[1].n <= hi /\ \A i \in 1..Len(r) : q[1].n < r[i].n /\ r[i].n <= hi
  BY <1>1, <1>2 DEF InOrder
<1>4. \A i, j \in 1..Len(r) : i < j => r[i].n < r[j].n
  <2>1. SUFFICES ASSUME NEW i \in 1..Len(r), NEW j \in 1..Len(r), i < j PROVE r[i].n < r[j].n
    OBVIOUS
  <2>2. i + 1 < j + 1
    BY <2>1, <1>1
  <2>3. QED
    BY <2>2, <1>1, <1>2 DEF InOrder
<1>5. Gapless(q, lo, hi) => Gapless(r, q[1].n, hi)
  <2>1. SUFFICES ASSUME Gapless(q, lo, hi) PROVE Gapless(r, q[1].n, hi)
    OBVIOUS
  <2>2. q[1].n = lo + 1 /\ lo + Len(q) = hi
    BY <2>1, <1>2 DEF Gapless
  <2>3. \A i \in 1..Len(r) : r[i].n = lo + (i + 1)
    BY <2>1, <1>1, <1>2 DEF Gapless
  <2>4. QED
    BY <2>2, <2>3, <1>1 DEF Gapless
<1>6. QED
  BY <1>1, <1>3, <1>4, <1>5 DEF InOrder, r

\* What the channel invariant says of one subscriber.
LEMMA SubInvFacts ==
  ASSUME TypeOK
  PROVE  (\A k \in subs : SubInv(k))
           <=> (ChannelNumbering /\ SubscriberInOrder /\ SubscriberGapFree)
<1>1. \A k \in subs : Sent(k) = Fanned - (IF k \in pending THEN 1 ELSE 0)
  BY DEF Sent, Fanned, Taken, TypeOK, PublishOK
<1>2. QED
  BY <1>1 DEF SubInv, InOrder, Gapless, ChannelNumbering, SubscriberInOrder, SubscriberGapFree

\* A subscriber that a step neither sends to nor reads from keeps its invariant.
LEMMA SubInvStable ==
  ASSUME NEW k, SubInv(k), Sent(k)' = Sent(k),
         last'[k] = last[k], ch'[k] = ch[k], overflowed'[k] = overflowed[k]
  PROVE  SubInv(k)'
BY DEF SubInv

\* The channel invariants survive every step.
LEMMA SubscriberStep ==
  ASSUME TypeOK, TypeOK', Numbering, Numbering', KeysFresh, \A k \in subs : SubInv(k),
         [Next]_busVars
  PROVE  KeysFresh' /\ \A k \in subs' : SubInv(k)'
<1> USE DEF TypeOK, PublishOK, BusOK, SubsOK, ChannelsOK
<1>1. Taken \in Int /\ Taken' \in Int /\ Fanned \in Int /\ Fanned' \in Int
  BY DEF Taken, Fanned
<1>2. ASSUME Fanned' = Fanned, UNCHANGED <<pending, subs, subSeq, ch, last, overflowed>>
      PROVE  KeysFresh' /\ \A k \in subs' : SubInv(k)'
  <2>1. KeysFresh'
    BY <1>2 DEF KeysFresh
  <2>2. ASSUME NEW k \in subs' PROVE SubInv(k)'
    BY <1>2, SubInvStable DEF Sent
  <2>3. QED
    BY <2>1, <2>2
<1>3. CASE Crash
  BY <1>3 DEF Crash, KeysFresh
<1>4. ASSUME NEW p \in Producers, Publish(p) PROVE KeysFresh' /\ \A k \in subs' : SubInv(k)'
  BY <1>4, <1>2, OfferNumbering DEF Publish, Fanned
<1>5. CASE ReportSweep
  <2>1. CASE pruned
    BY <2>1, <1>5, <1>2, OfferNumbering DEF ReportSweep, Fanned
  <2>2. CASE ~pruned
    BY <2>2, <1>5, <1>2 DEF ReportSweep, Fanned, Taken
  <2>3. QED
    BY <2>1, <2>2
<1>6. CASE Take
  <2>1. Len(Tail(publishCh)) = Len(publishCh) - 1
    BY <1>6, HeadTailFacts DEF Take
  <2>2. QED
    BY <2>1, <1>6, <1>2 DEF Take, Fanned, Taken
<1>7. CASE FanOut
  <2>1. /\ Fanned' = Fanned + 1 /\ pending = {} /\ pending' = subs
        /\ UNCHANGED <<subs, subSeq, ch, last, overflowed>>
    BY <1>7 DEF FanOut, Fanned, Taken, Numbering
  <2>2. KeysFresh'
    BY <2>1 DEF KeysFresh, SubKeys
  <2>3. ASSUME NEW k \in subs' PROVE SubInv(k)'
    <3>1. Sent(k)' = Sent(k)
      BY <2>1, <1>1 DEF Sent
    <3>2. QED
      BY <3>1, <2>1, SubInvStable
  <2>4. QED
    BY <2>2, <2>3
<1>8. ASSUME NEW k \in SubKeys, Send(k) PROVE KeysFresh' /\ \A j \in subs' : SubInv(j)'
  <2>1. /\ Fanned' = Fanned /\ Fanned = Taken /\ cur.n = Taken /\ cur \in Event
        /\ k \in pending /\ pending' = pending \ {k}
        /\ UNCHANGED <<subs, subSeq, last>>
    BY <1>8 DEF Send, Fanned, Taken, Numbering
  <2>2. KeysFresh'
    BY <2>1, <1>8 DEF KeysFresh, Send
  <2>3. ASSUME NEW j \in subs', j # k PROVE SubInv(j)'
    <3>1. Sent(j)' = Sent(j) /\ ch'[j] = ch[j] /\ overflowed'[j] = overflowed[j]
      BY <2>1, <2>3, <1>8 DEF Sent, Send
    <3>2. QED
      BY <3>1, <2>1, SubInvStable
  <2>4. ASSUME k \in subs' PROVE SubInv(k)'
    <3>1. Sent(k) = Taken - 1 /\ Sent(k)' = Taken /\ SubInv(k) /\ last[k] \in Int
      BY <2>1, <2>4 DEF Sent
    <3>2. CASE Len(ch[k]) < SubscriberBuf
      <4>1. ch'[k] = Append(ch[k], cur) /\ overflowed'[k] = overflowed[k]
        BY <3>2, <1>8 DEF Send
      <4>2. Sent(k) \in Int /\ cur.n = Sent(k) + 1 /\ Sent(k) + 1 = Taken /\ ch[k] \in Seq(Event)
        BY <3>1, <2>1, <1>1
      <4>3. /\ InOrder(Append(ch[k], cur), last[k], Sent(k) + 1)
            /\ Gapless(ch[k], last[k], Sent(k)) => Gapless(Append(ch[k], cur), last[k], Sent(k) + 1)
        BY <4>2, <3>1, <2>1, SendInOrder DEF SubInv
      <4>4. QED
        BY <4>1, <4>2, <4>3, <3>1, <2>1 DEF SubInv
    <3>3. CASE ~(Len(ch[k]) < SubscriberBuf)
      <4>1. ch'[k] = ch[k] /\ overflowed'[k]
        BY <3>3, <1>8 DEF Send
      <4>2. InOrder(ch[k], last[k], Taken)
        BY <3>1, <1>1, DropInOrder, Taken - 1 + 1 = Taken DEF SubInv
      <4>3. QED
        BY <4>1, <4>2, <3>1, <2>1 DEF SubInv
    <3>4. QED
      BY <3>2, <3>3
  <2>5. QED
    BY <2>2, <2>3, <2>4
<1>9. CASE Subscribe
  <2>0. PICK m \in SubKeys : m = subSeq + 1
    BY <1>9, BoundAssumption DEF Subscribe, SubKeys
  <2>1. /\ m > subSeq
        /\ subSeq' = m /\ subs' = subs \cup {m} /\ last' = [last EXCEPT ![m] = Fanned]
        /\ Fanned' = Fanned /\ UNCHANGED <<pending, ch, overflowed>>
    BY <1>9, <2>0 DEF Subscribe, Fanned, Taken
  <2>2. m \notin subs /\ m \notin pending /\ ch[m] = << >> /\ ~overflowed[m]
    BY <2>1 DEF KeysFresh
  <2>3. KeysFresh'
    BY <2>0, <2>1 DEF KeysFresh, SubKeys
  <2>4. ASSUME NEW k \in subs PROVE SubInv(k)'
    <3>1. Sent(k)' = Sent(k) /\ last'[k] = last[k]
      BY <2>1, <2>2 DEF Sent
    <3>2. QED
      BY <3>1, <2>1, SubInvStable
  <2>5. SubInv(m)'
    <3>1. Sent(m)' = Fanned /\ last'[m] = Fanned /\ Len(ch'[m]) = 0
      BY <2>1, <2>2 DEF Sent
    <3>2. QED
      BY <3>1, <2>2, <1>1 DEF SubInv, InOrder, Gapless
  <2>6. QED
    BY <2>1, <2>3, <2>4, <2>5
<1>10. ASSUME NEW k \in SubKeys, Receive(k) PROVE KeysFresh' /\ \A j \in subs' : SubInv(j)'
  <2>1. /\ Fanned' = Fanned /\ k \in subs /\ ch[k] # << >>
        /\ ch' = [ch EXCEPT ![k] = Tail(ch[k])] /\ last' = [last EXCEPT ![k] = Head(ch[k]).n]
        /\ UNCHANGED <<pending, subs, subSeq, overflowed>>
    BY <1>10 DEF Receive, Fanned, Taken
  <2>2. KeysFresh'
    BY <2>1 DEF KeysFresh
  <2>3. \A j \in subs : Sent(j)' = Sent(j)
    BY <2>1 DEF Sent
  <2>4. ASSUME NEW j \in subs, j # k PROVE SubInv(j)'
    BY <2>1, <2>3, <2>4, SubInvStable
  <2>5. SubInv(k)'
    <3>1. SubInv(k) /\ last[k] \in Int /\ Sent(k) \in Int /\ ch[k] \in Seq(Event)
      BY <2>1, <1>1 DEF Sent
    <3>2. /\ InOrder(Tail(ch[k]), Head(ch[k]).n, Sent(k))
          /\ Gapless(ch[k], last[k], Sent(k)) => Gapless(Tail(ch[k]), Head(ch[k]).n, Sent(k))
      BY <3>1, <2>1, ReceiveInOrder DEF SubInv
    <3>3. /\ ch'[k] = Tail(ch[k]) /\ last'[k] = Head(ch[k]).n
          /\ overflowed'[k] = overflowed[k] /\ Sent(k)' = Sent(k)
      BY <2>1, <2>3
    <3>4. QED
      BY <3>1, <3>2, <3>3 DEF SubInv
  <2>6. QED
    BY <2>1, <2>2, <2>4, <2>5
<1>11. ASSUME NEW k \in SubKeys, Cancel(k) PROVE KeysFresh' /\ \A j \in subs' : SubInv(j)'
  <2>1. /\ Fanned' = Fanned /\ subs' = subs \ {k} /\ ch' = [ch EXCEPT ![k] = << >>]
        /\ UNCHANGED <<pending, subSeq, last, overflowed>>
    BY <1>11 DEF Cancel, Fanned, Taken
  <2>2. KeysFresh'
    BY <2>1 DEF KeysFresh
  <2>3. ASSUME NEW j \in subs' PROVE SubInv(j)'
    <3>1. Sent(j)' = Sent(j) /\ ch'[j] = ch[j] /\ j \in subs
      BY <2>1, <2>3 DEF Sent
    <3>2. QED
      BY <3>1, <2>1, SubInvStable
  <2>4. QED
    BY <2>2, <2>3
<1>12. ASSUME Start \/ Exit \/ AppendEvent \/ AppendEventFails
       PROVE  KeysFresh' /\ \A k \in subs' : SubInv(k)'
  BY <1>12, <1>2 DEF Start, Exit, AppendEvent, AppendEventFails, Fanned, Taken
<1>13. ASSUME UNCHANGED <<publishCh, accepted, pc, pending, subs, subSeq, ch, last, overflowed>>
       PROVE  KeysFresh' /\ \A k \in subs' : SubInv(k)'
  BY <1>13, <1>2 DEF Fanned, Taken
<1>14. QED
  BY <1>3, <1>4, <1>5, <1>6, <1>7, <1>8, <1>9, <1>10, <1>11, <1>12, <1>13
     DEF Next, BusInternal, Sweep, Consume, Tick, Stop, NewEvent, BeginDrain, PruneEvents,
         SkipPruneEvents, PruneEventsByAge, SkipPruneEventsByAge, BeginSweep, busVars

-----------------------------------------------------------------------------
(* The theorems. *)

\* New on an empty store satisfies the inductive invariant.
LEMMA InitIndInv == BusInit => IndInv
<1> SUFFICES ASSUME BusInit PROVE IndInv
  OBVIOUS
<1> USE BufferAssumption, RetentionAssumption, BoundAssumption DEF BusInit
<1>1. TypeOK
  <2>1. ProducersOK /\ PublishOK /\ LogOK
    BY DEF ProducersOK, PublishOK, LogOK, NoEvent
  <2>2. BusOK /\ RetentionOK
    BY DEF BusOK, RetentionOK
  <2>3. SubsOK
    BY DEF SubsOK
  <2>4. ChannelsOK
    BY DEF ChannelsOK
  <2>5. QED
    BY <2>1, <2>2, <2>3, <2>4 DEF TypeOK
<1>2. Numbering /\ LogNumbering /\ LogContiguous /\ LogInOrder
  BY DEF Numbering, LogNumbering, LogContiguous, LogInOrder, Taken, Appended
<1>3. KeysFresh /\ ChannelNumbering /\ SubscriberInOrder /\ SubscriberGapFree
  BY DEF KeysFresh, ChannelNumbering, SubscriberInOrder, SubscriberGapFree
<1>4. QED
  BY <1>1, <1>2, <1>3 DEF IndInv

\* Every step of the bus, its subscribers, retention and a crash preserves it.
LEMMA NextIndInv == IndInv /\ [Next]_busVars => IndInv'
<1> SUFFICES ASSUME IndInv, [Next]_busVars PROVE IndInv'
  OBVIOUS
<1>1. TypeOK /\ Numbering /\ LogNumbering /\ LogInv /\ KeysFresh /\ \A k \in subs : SubInv(k)
  BY SubInvFacts DEF IndInv, LogInv
<1>2. TypeOK'
  BY <1>1, TypeStep
<1>3. Numbering'
  BY <1>1, <1>2, NumberingStep
<1>4. LogInv'
  BY <1>1, <1>2, LogStep
<1>5. KeysFresh' /\ \A k \in subs' : SubInv(k)'
  BY <1>1, <1>2, <1>3, SubscriberStep
<1>6. (ChannelNumbering /\ SubscriberInOrder /\ SubscriberGapFree)'
  <2>1. (\A k \in subs : SubInv(k))'
    BY <1>5
  <2>2. TypeOK' => ((\A k \in subs : SubInv(k))
                      <=> (ChannelNumbering /\ SubscriberInOrder /\ SubscriberGapFree))'
    BY SubInvFacts, PTL
  <2>3. QED
    BY <2>1, <2>2, <1>2
<1>7. QED
  BY <1>2, <1>3, <1>4, <1>5, <1>6 DEF IndInv, LogInv

\* The inductive invariant holds in every reachable state of the bus; every theorem
\* below is read off it.
THEOREM Inductive == Spec => []IndInv
BY InitIndInv, NextIndInv, PTL DEF Spec

\* Type correctness, for every capacity and bound: in particular no channel
\* exceeds its capacity, whatever producers and subscribers do.
THEOREM TypeCorrect == Spec => []TypeOK
<1>1. IndInv => TypeOK
  BY DEF IndInv
<1>2. QED
  BY <1>1, Inductive, PTL

\* The events bucket is a contiguous run of sequence numbers that ends at the
\* last one assigned, in publication order, through persistence failures, both
\* prunes and any number of restarts (AppendEvent, Publish).
THEOREM BucketSound == Spec => []LogSound
<1>1. IndInv => LogSound
  BY DEF IndInv, LogSound
<1>2. QED
  BY <1>1, Inductive, PTL

\* Every subscriber reads events in publication order without a repeat.
THEOREM SubscribersInOrder == Spec => []SubscriberInOrder
<1>1. IndInv => SubscriberInOrder
  BY DEF IndInv
<1>2. QED
  BY <1>1, Inductive, PTL

\* A subscriber whose channel never filled misses nothing fanned out since it
\* joined.
THEOREM SubscribersGapFree == Spec => []SubscriberGapFree
<1>1. IndInv => SubscriberGapFree
  BY DEF IndInv
<1>2. QED
  BY <1>1, Inductive, PTL

-----------------------------------------------------------------------------
(* The stream: its inductive invariant. *)

Serving(c) == cst[c] \in {"replaying", "live"}
\* What c's handler has still to write.
Waiting(c) == IF cst[c] = "live" THEN ch[key[c]] ELSE replay[c]

\* A handler serves a client only while the bus runs, and is subscribed exactly
\* while it is live.
Attached(c) ==
  /\ Serving(c) => pc # "new"
  /\ cst[c] # "replaying" => replay[c] = << >>
  /\ IF cst[c] = "live" THEN key[c] \in subs ELSE key[c] = 0

\* No two handlers share a subscription.
OwnKeys == \A c, d \in Clients : key[c] = key[d] /\ key[c] # 0 => c = d

\* Only AppendEvent numbers an event, by its key.
Sequenced ==
  /\ \A i \in 1..Len(publishCh) : publishCh[i].seq = 0
  /\ pc = "process" => cur.seq = 0
  /\ \A s \in DOMAIN log : log[s].seq = s

\* The bucket's keys stand to s as its events to n: what a cursor relies on.
Placed(n, s) ==
  /\ n <= Appended
  /\ s > 0 => /\ s <= nextSeq
              /\ \A t \in DOMAIN log : (t > s => n < log[t].n) /\ (t <= s => log[t].n <= n)

\* So stands the event being fanned out, ...
CurPlaced == pc \in {"snapshot", "fanout"} => Placed(cur.n, cur.seq)

\* ... what c has received last, and what it will receive.
Cursor(c) ==
  /\ Placed(newest[c], lastID[c])
  /\ \A i \in 1..Len(Waiting(c)) : Placed(Waiting(c)[i].n, Waiting(c)[i].seq)

\* A client has a cursor from its first event on.
Begun(c) ==
  /\ lastID[c] = 0 <=> first[c] = 0
  /\ newest[c] = 0 <=> first[c] = 0
  /\ first[c] <= newest[c]
  /\ first[c] # 0 => newest[c] \in got[c]
  /\ first[c] = 0 => replay[c] = << >>

\* What waits is in order and not older than what was received; of a backlog,
\* newer.
Ahead(c) ==
  /\ \A i, j \in 1..Len(Waiting(c)) : i < j => Waiting(c)[i].n < Waiting(c)[j].n
  /\ \A i \in 1..Len(Waiting(c)) : newest[c] <= Waiting(c)[i].n
  /\ cst[c] = "replaying" => \A i \in 1..Len(Waiting(c)) : newest[c] < Waiting(c)[i].n

Excused(c) == ExcusedFor(c, {"slow", "window", "transient"})
\* cur is still to be offered to c.
InHand(c) == pc = "snapshot" \/ (pc = "fanout" /\ key[c] \in pending)
ToCome(c, n) == (\E i \in 1..Len(Waiting(c)) : n = Waiting(c)[i].n) \/ (n = cur.n /\ InHand(c))
Known(c, n) == n \in got[c] \/ n \in Excused(c)
\* Later than something c has received, or will receive next.
Due(c, n) == (first[c] # 0 /\ newest[c] < n) \/ (Waiting(c) # << >> /\ Waiting(c)[1].n < n)

Past(c) == \A s \in DOMAIN log : first[c] < log[s].n /\ log[s].n < newest[c] => Known(c, log[s].n)
Coming(c) == Serving(c) => \A s \in DOMAIN log : Due(c, log[s].n) => Known(c, log[s].n) \/ ToCome(c, log[s].n)

StreamTypes ==
  /\ cst \in [Clients -> {"off", "replaying", "live", "gone"}]
  /\ lastID \in [Clients -> {TransientID, NoID} \cup 1..MaxEvents]
  /\ replay \in [Clients -> Seq(Event)] /\ \A c \in Clients : Len(replay[c]) <= ReplayLimit
  /\ key \in [Clients -> {0} \cup SubKeys]
  /\ first \in [Clients -> 0..MaxEvents]
  /\ newest \in [Clients -> 0..MaxEvents]
  /\ got \in [Clients -> SUBSET (1..MaxEvents)]
  /\ excused \in [Clients -> SUBSET ({"slow", "window", "transient"} \X (1..MaxEvents))]

ClientInv(c) == Attached(c) /\ Cursor(c) /\ Begun(c) /\ Ahead(c) /\ Past(c) /\ Coming(c)

StreamInv ==
  /\ IndInv /\ StreamTypes /\ OwnKeys /\ Sequenced /\ CurPlaced
  /\ \A c \in Clients : ClientInv(c)

-----------------------------------------------------------------------------
(* The backlog. *)

\* A set of keys has a least one.
LEMMA LeastKey ==
  ASSUME NEW K \in SUBSET Nat, K # {}
  PROVE  \E lo \in K : \A s \in K : lo <= s
<1>1. PICK lo \in K : \A s \in K : ~(<<s, lo>> \in OpToRel(<, Nat))
  BY NatLessThanWellFounded, WFMin
<1>2. ASSUME NEW s \in K PROVE lo <= s
  <2>1. <<s, lo>> \in Nat \X Nat /\ <<s, lo>> \notin OpToRel(<, Nat)
    BY <1>1
  <2>2. ~(s < lo)
    BY <2>1 DEF OpToRel
  <2>3. QED
    BY <2>2
<1>3. QED
  BY <1>2

\* The i-th key of a run of keys.
LEMMA NthOfRun ==
  ASSUME NEW lo \in Nat, NEW hi \in Nat, NEW i \in 1..(hi - lo + 1)
  PROVE  NthKey(lo..hi, i) = lo + i - 1
<1> DEFINE Below(s) == {t \in lo..hi : t < s}
<1>1. \A s \in lo..hi : Below(s) = lo..(s - 1) /\ Cardinality(lo..(s - 1)) = s - lo
  BY FS_Interval
<1>2. \A s \in lo..hi : Cardinality(Below(s)) = s - lo
  BY <1>1
<1>3. lo + i - 1 \in lo..hi
  OBVIOUS
<1> HIDE DEF Below
<1>4. \A s \in lo..hi : Cardinality(Below(s)) = i - 1 <=> s = lo + i - 1
  BY <1>2
<1>5. QED
  BY <1>3, <1>4 DEF NthKey, Below

\* Because the bucket is a run of keys, the query returns a run of events, the
\* first ones after the cursor.
LEMMA BacklogIs ==
  ASSUME IndInv, Sequenced, NEW a \in Nat, NEW limit \in Nat
  PROVE  LET q == ListEventsAfterSeq(a, limit) IN
         \E lo \in Nat \ {0} :
            /\ q \in Seq(Event) /\ Len(q) <= limit
            /\ \A i \in 1..Len(q) : lo + i - 1 \in DOMAIN log /\ lo + i - 1 > a /\ q[i] = log[lo + i - 1]
            /\ Len(q) < limit => \A s \in DOMAIN log : s > a => s >= lo /\ s - lo + 1 <= Len(q)
<1> DEFINE K == {s \in DOMAIN log : s > a}
<1>1. nextSeq \in Nat /\ DOMAIN log \subseteq 1..nextSeq /\ \A s \in DOMAIN log : log[s] \in Event
  BY BoundAssumption DEF IndInv, TypeOK, LogOK
<1>2. PICK lo \in Nat \ {0} : lo <= nextSeq + 1 /\ K = lo..nextSeq
  <2>1. CASE K = {}
    <3>1. K = (nextSeq + 1)..nextSeq
      BY <1>1, <2>1
    <3>2. QED
      BY <1>1, <3>1
  <2>2. CASE K # {}
    <3>1. PICK lo \in K : \A s \in K : lo <= s
      <4>1. K \in SUBSET Nat
        BY <1>1
      <4>2. QED
        BY <2>2, <4>1, LeastKey
    <3>2. lo \in 1..nextSeq /\ K \subseteq lo..nextSeq
      BY <1>1, <3>1
    <3>3. lo..nextSeq \subseteq DOMAIN log
      BY <3>1 DEF IndInv, LogContiguous
    <3>4. lo..nextSeq \subseteq K
      BY <1>1, <3>1, <3>3
    <3>5. QED
      BY <1>1, <3>2, <3>4
  <2>3. QED
    BY <2>1, <2>2
<1>a. ListEventsAfterSeq(a, limit) = EventsOf(K, limit) /\ \A s \in K : s > a
  BY DEF ListEventsAfterSeq
<1>b. \A s \in DOMAIN log : s > a => s \in K
  OBVIOUS
<1>c. K \subseteq DOMAIN log
  OBVIOUS
<1> HIDE DEF K
<1>3. Cardinality(K) = nextSeq - lo + 1
  <2>1. Cardinality(lo..nextSeq) = nextSeq - lo + 1
    <3>1. lo \in Int /\ nextSeq \in Int /\ lo <= nextSeq + 1
      BY <1>1, <1>2
    <3>2. Cardinality(lo..nextSeq) = IF lo > nextSeq THEN 0 ELSE nextSeq - lo + 1
      BY <3>1, FS_Interval
    <3>3. QED
      BY <3>1, <3>2
  <2>2. QED
    BY <1>2, <2>1, Zenon
<1> DEFINE m == IF Cardinality(K) < limit THEN Cardinality(K) ELSE limit
<1>4. m \in Nat /\ m <= limit /\ m <= nextSeq - lo + 1 /\ (m < limit => m = nextSeq - lo + 1)
  BY <1>1, <1>2, <1>3
<1>5. ListEventsAfterSeq(a, limit) = [i \in 1..m |-> log[NthKey(K, i)]]
  BY <1>a DEF EventsOf
<1> HIDE DEF m
<1>6. \A i \in 1..m : NthKey(K, i) = lo + i - 1 /\ lo + i - 1 \in K
  <2>1. \A i \in 1..m : i \in 1..(nextSeq - lo + 1)
    BY <1>1, <1>4
  <2>2. QED
    BY <1>1, <1>2, <2>1, NthOfRun
<1>7. ListEventsAfterSeq(a, limit) = [i \in 1..m |-> log[lo + i - 1]]
  BY <1>5, <1>6
<1> DEFINE q == [i \in 1..m |-> log[lo + i - 1]]
<1>8. q \in Seq(Event) /\ Len(q) = m /\ \A i \in 1..m : q[i] = log[lo + i - 1]
  <2>1. \A i \in 1..m : log[lo + i - 1] \in Event
    BY <1>1, <1>6, <1>c
  <2>2. QED
    BY <1>4, <2>1
<1> HIDE DEF q
<1>9. \A s \in DOMAIN log : s > a => s >= lo /\ s <= nextSeq
  BY <1>1, <1>2, <1>b
<1>10. m < limit => \A s \in DOMAIN log : s > a => s >= lo /\ s - lo + 1 <= m
  BY <1>1, <1>4, <1>9
<1>11. QED
  BY <1>2, <1>4, <1>6, <1>7, <1>8, <1>10, <1>a, <1>c DEF q

\* What a handler reads to resume is a list of events.
LEMMA BacklogType ==
  ASSUME StreamInv, NEW c \in Clients
  PROVE  Backlog(c) \in Seq(Event)
<1>1. AfterSeq(lastID[c]) \in Nat /\ ReplayLimit + 1 \in Nat
  <2>1. lastID[c] \in {TransientID, NoID} \cup 1..MaxEvents
    BY DEF StreamInv, StreamTypes
  <2>2. lastID[c] \in Int
    BY <2>1, BoundAssumption DEF TransientID, NoID
  <2>3. QED
    BY <2>2, ReplayAssumption DEF AfterSeq
<1>2. ListEventsAfterSeq(AfterSeq(lastID[c]), ReplayLimit + 1) \in Seq(Event)
  BY <1>1, BacklogIs DEF StreamInv
<1>3. QED
  BY <1>2 DEF Backlog

-----------------------------------------------------------------------------
(* What a step of the bus does to the bucket. *)

\* A step of the stream is a step of the bus, or one it does not notice.
LEMMA StreamStepsAreBusSteps == IndInv /\ [StreamNext]_streamVars => [Next]_busVars
<1> SUFFICES ASSUME IndInv, [StreamNext]_streamVars PROVE [Next]_busVars
  OBVIOUS
<1>0. subs \subseteq SubKeys
  BY DEF IndInv, TypeOK, SubsOK
<1>1. CASE CrashAll \/ FanOutPastHandlers \/ OtherBusStep
  BY <1>1 DEF CrashAll, FanOutPastHandlers, OtherBusStep, Next
<1>2. ASSUME NEW k \in SubKeys, SendToHandler(k) PROVE [Next]_busVars
  BY <1>2 DEF SendToHandler, Next
<1>3. ASSUME NEW c \in Clients, Connect(c) \/ WriteReplayed(c) PROVE UNCHANGED busVars
  BY <1>3 DEF Connect, WriteReplayed
<1>4. ASSUME NEW c \in Clients, GoLive(c) PROVE Next
  BY <1>4 DEF GoLive, Next, Consume
<1>5. ASSUME NEW c \in Clients, Receive(key[c]) \/ Cancel(key[c]) PROVE Next
  <2>1. key[c] \in SubKeys
    BY <1>0, <1>5 DEF Receive, Cancel
  <2>2. QED
    BY <1>5, <2>1 DEF Next, Consume
<1>6. QED
  BY <1>1, <1>2, <1>3, <1>4, <1>5 DEF StreamNext, WriteLive, Disconnect, streamVars

\* Retention takes from it, and the rest leaves it alone.
LogKept ==
  /\ nextSeq' = nextSeq /\ Appended <= Appended'
  /\ DOMAIN log' \subseteq DOMAIN log /\ \A s \in DOMAIN log' : log'[s] = log[s]

LEMMA LogMoves ==
  ASSUME IndInv, IndInv', [Next]_busVars
  PROVE  LogKept \/ AppendEvent
<1>1. accepted \in Nat /\ Len(publishCh) \in Nat /\ Taken \in Int
  BY DEF IndInv, TypeOK, PublishOK, Taken
<1>2. ASSUME UNCHANGED <<log, nextSeq, publishCh, accepted>>, pc' # "process" \/ pc = "process" PROVE LogKept
  BY <1>1, <1>2 DEF LogKept, Appended, Taken
<1>3. ASSUME NEW t, Offer(t), UNCHANGED <<log, nextSeq, pc>> PROVE LogKept
  BY <1>1, <1>3, OfferNumbering DEF LogKept, Appended, IndInv
<1>4. ASSUME NEW p \in Producers, Publish(p) PROVE LogKept
  BY <1>3, <1>4 DEF Publish
<1>5. CASE ReportSweep
  BY <1>2, <1>3, <1>5 DEF ReportSweep
<1>6. CASE Take
  <2>1. Len(publishCh') = Len(publishCh) - 1
    BY <1>6, HeadTailFacts DEF Take, IndInv, TypeOK, PublishOK
  <2>2. QED
    BY <1>1, <1>6, <2>1 DEF Take, LogKept, Appended, Taken
<1>7. CASE Crash
  BY <1>1, <1>7 DEF Crash, LogKept, Appended, Taken
<1>8. ASSUME NEW keys, Delete(keys), UNCHANGED <<nextSeq, publishCh, accepted, pc>> PROVE LogKept
  BY <1>1, <1>8 DEF Delete, LogKept, Appended, Taken
<1>9. CASE PruneEvents \/ PruneEventsByAge
  BY <1>8, <1>9 DEF PruneEvents, PruneEventsByAge
<1>10. CASE FanOut \/ AppendEventFails \/ Start \/ Tick \/ Stop \/ BeginDrain \/ Exit \/ SkipPruneEvents
              \/ SkipPruneEventsByAge \/ BeginSweep \/ Subscribe \/ UNCHANGED busVars
  BY <1>2, <1>10 DEF FanOut, AppendEventFails, Start, Tick, Stop, BeginDrain, Exit, SkipPruneEvents,
       SkipPruneEventsByAge, BeginSweep, Subscribe, busVars
<1>11. ASSUME NEW p \in Producers, NewEvent(p) PROVE LogKept
  BY <1>2, <1>11 DEF NewEvent
<1>12. ASSUME NEW k \in SubKeys, Send(k) \/ Receive(k) \/ Cancel(k) PROVE LogKept
  BY <1>2, <1>12 DEF Send, Receive, Cancel
<1>13. QED
  BY <1>4, <1>5, <1>6, <1>7, <1>9, <1>10, <1>11, <1>12 DEF Next, BusInternal, Sweep, Consume

\* Numbers are given only by AppendEvent.
LEMMA SequencedStep ==
  ASSUME IndInv, IndInv', Sequenced, [Next]_busVars
  PROVE  Sequenced'
<1>1. publishCh \in Seq(Event)
  BY DEF IndInv, TypeOK, PublishOK
<1>2. ASSUME NEW t, Offer(t) PROVE \A i \in 1..Len(publishCh') : publishCh'[i].seq = 0
  <2>1. CASE Len(publishCh) < PublishBuf
    <3> DEFINE e == [n |-> accepted + 1, at |-> t, seq |-> 0]
    <3>1. publishCh' = Append(publishCh, e) /\ e.seq = 0
      BY <1>2, <2>1 DEF Offer
    <3> HIDE DEF e
    <3>2. publishCh \in Seq(Event \cup {e})
      BY <1>1
    <3>3. QED
      BY <3>1, <3>2, AppendFacts DEF Sequenced
  <2>2. CASE ~(Len(publishCh) < PublishBuf)
    BY <1>2, <2>2 DEF Offer, Sequenced
  <2>3. QED
    BY <2>1, <2>2
<1>3. ASSUME LogKept, UNCHANGED <<publishCh, cur>>, pc' # "process" \/ pc = "process" PROVE Sequenced'
  BY <1>3 DEF Sequenced, LogKept
<1>4. ASSUME NEW p \in Producers, Publish(p) PROVE Sequenced'
  BY <1>2, <1>4 DEF Publish, Sequenced
<1>5. CASE ReportSweep
  BY <1>2, <1>5 DEF ReportSweep, Sequenced
<1>6. CASE Take
  <2>1. Head(publishCh).seq = 0 /\ \A i \in 1..Len(Tail(publishCh)) : Tail(publishCh)[i].seq = 0
    BY <1>1, <1>6, HeadTailFacts DEF Take, Sequenced
  <2>2. QED
    BY <1>6, <2>1 DEF Take, Sequenced
<1>7. CASE AppendEvent
  <2>1. \A s \in DOMAIN log' : log'[s].seq = s
    BY <1>7 DEF AppendEvent, Sequenced
  <2>2. QED
    BY <1>7, <2>1 DEF AppendEvent, Sequenced
<1>8. CASE Crash
  BY <1>8 DEF Crash, Sequenced
<1>9. CASE FanOut
  BY <1>9 DEF FanOut, Sequenced
<1>10. ASSUME NEW k \in SubKeys, Send(k) PROVE Sequenced'
  BY <1>10 DEF Send, Sequenced
<1>11. CASE AppendEventFails \/ Start \/ Tick \/ Stop \/ BeginDrain \/ Exit \/ Sweep \/ Subscribe
              \/ UNCHANGED busVars
  <2>1. LogKept \/ AppendEvent
    BY LogMoves
  <2>2. QED
    BY <1>3, <1>5, <1>7, <1>11, <2>1 DEF AppendEventFails, Start, Tick, Stop, BeginDrain, Exit, Sweep, PruneEvents,
       SkipPruneEvents, PruneEventsByAge, SkipPruneEventsByAge, BeginSweep, Subscribe, busVars
<1>12. ASSUME NEW p \in Producers, NewEvent(p) PROVE Sequenced'
  BY <1>12 DEF NewEvent, Sequenced
<1>13. ASSUME NEW k \in SubKeys, Receive(k) \/ Cancel(k) PROVE Sequenced'
  BY <1>13 DEF Receive, Cancel, Sequenced
<1>14. QED
  BY <1>4, <1>6, <1>7, <1>8, <1>9, <1>10, <1>11, <1>12, <1>13 DEF Next, BusInternal, Consume

\* A cursor that stands right in the bucket goes on standing right.
LEMMA PlacedStep ==
  ASSUME IndInv, IndInv', [Next]_busVars, NEW n \in Int, NEW s \in Int, Placed(n, s)
  PROVE  Placed(n, s)'
<1>1. Taken \in Int /\ nextSeq \in Nat
  BY DEF IndInv, TypeOK, PublishOK, LogOK, Taken
<1>2. CASE LogKept
  <2>1. Appended' \in Int /\ Appended \in Int
    BY DEF IndInv, TypeOK, PublishOK, Appended, Taken
  <2>2. QED
    BY <1>2, <2>1 DEF LogKept, Placed
<1>3. CASE AppendEvent
  <2>1. Taken' = Taken /\ Appended' = Taken /\ Appended = Taken - 1 /\ cur.n = Taken
    BY <1>3 DEF AppendEvent, Appended, Taken, IndInv, Numbering
  <2>2. /\ DOMAIN log' = DOMAIN log \cup {nextSeq + 1} /\ nextSeq' = nextSeq + 1
        /\ \A t \in DOMAIN log' : log'[t] = IF t = nextSeq + 1 THEN cur' ELSE log[t]
        /\ cur'.n = cur.n
    BY <1>3 DEF AppendEvent
  <2>3. n <= Taken'
    BY <1>1, <2>1 DEF Placed
  <2>4. ASSUME s > 0, NEW t \in DOMAIN log' PROVE (t > s => n < log'[t].n) /\ (t <= s => log'[t].n <= n)
    BY <1>1, <2>1, <2>2, <2>4 DEF Placed
  <2>5. QED
    BY <1>1, <2>1, <2>2, <2>3, <2>4 DEF Placed
<1>4. QED
  BY <1>2, <1>3, LogMoves

\* Where the event being fanned out stands.
LEMMA CurPlacedStep ==
  ASSUME IndInv, IndInv', Sequenced, CurPlaced, [Next]_busVars
  PROVE  CurPlaced'
<1>0. Taken \in Int /\ nextSeq \in Nat
  BY DEF IndInv, TypeOK, PublishOK, LogOK, Taken
<1>1. CASE AppendEvent
  <2>1. Appended' = Taken /\ cur'.n = Taken /\ cur'.seq = nextSeq' /\ nextSeq' = nextSeq + 1
    BY <1>1 DEF AppendEvent, Appended, Taken, IndInv, Numbering
  <2>2. \A t \in DOMAIN log' : t <= nextSeq' /\ log'[t].n <= Taken
    BY <2>1 DEF IndInv, LogNumbering, TypeOK, LogOK
  <2>3. DOMAIN log' \subseteq Nat
    BY DEF IndInv, TypeOK, LogOK
  <2>4. QED
    BY <1>0, <2>1, <2>2, <2>3 DEF CurPlaced, Placed
<1>2. CASE AppendEventFails
  BY <1>0, <1>2 DEF AppendEventFails, CurPlaced, Placed, Sequenced, Appended, Taken, IndInv, Numbering
<1>3. ASSUME pc' \in {"snapshot", "fanout"} => pc \in {"snapshot", "fanout"} /\ cur' = cur PROVE CurPlaced'
  <2>1. SUFFICES ASSUME pc' \in {"snapshot", "fanout"} PROVE Placed(cur.n, cur.seq)'
    BY DEF CurPlaced
  <2>2. cur' = cur /\ Placed(cur.n, cur.seq)
    BY <1>3, <2>1 DEF CurPlaced
  <2>3. cur \in Event
    BY <1>3, <2>1 DEF IndInv, Numbering
  <2>4. PICK n \in Int, s \in Int : n = cur.n /\ s = cur.seq
    BY <2>3 DEF Event
  <2>5. Placed(n, s)'
    BY <2>2, <2>4, PlacedStep
  <2>6. QED
    BY <2>2, <2>4, <2>5
<1>4. QED
  BY <1>1, <1>2, <1>3 DEF Next, BusInternal, Sweep, Consume, Start, Crash, Tick, Stop, NewEvent, Publish, Take,
       BeginDrain, Exit, FanOut, Send, Subscribe, Receive, Cancel, PruneEvents, SkipPruneEvents,
       PruneEventsByAge, SkipPruneEventsByAge, ReportSweep, BeginSweep, busVars

\* An event in the bucket was there before, or is the one just appended.
LEMMA OldOrNew ==
  ASSUME IndInv, IndInv', [Next]_busVars, NEW s \in DOMAIN log'
  PROVE  \/ s \in DOMAIN log /\ log'[s] = log[s]
         \/ /\ pc = "process" /\ pc' = "snapshot"
            /\ log'[s].n = Taken /\ cur'.n = Taken
<1>1. CASE LogKept
  BY <1>1 DEF LogKept
<1>2. CASE AppendEvent
  BY <1>2 DEF AppendEvent, IndInv, Numbering
<1>3. QED
  BY <1>1, <1>2, LogMoves

-----------------------------------------------------------------------------
(* What a step does to one client. *)

\* The client has received nothing; events may have passed it by.
Kept(c) ==
  /\ lastID'[c] = lastID[c] /\ first'[c] = first[c] /\ newest'[c] = newest[c] /\ got'[c] = got[c]
  /\ excused[c] \subseteq excused'[c]

\* A step of the bus or of another client.
Watches(c) ==
  /\ Kept(c) /\ cst'[c] = cst[c] /\ key'[c] = key[c] /\ replay'[c] = replay[c]
  /\ Serving(c) => pc' # "new"
  /\ cst[c] = "live" => key[c] \in subs'
  /\ \/ Waiting(c)' = Waiting(c)
     \/ cst[c] = "live" /\ pc = "fanout" /\ Waiting(c)' = Append(Waiting(c), cur)
  /\ Serving(c) /\ InHand(c) =>
       \/ cur.n \in Excused(c)'
       \/ Waiting(c)' = Append(Waiting(c), cur)
       \/ InHand(c)' /\ cur'.n = cur.n

Leaves(c) == Kept(c) /\ cst'[c] \in {"off", "gone"} /\ replay'[c] = << >> /\ key'[c] = 0

Connects(c) ==
  /\ Kept(c) /\ cst[c] = "off" /\ cst'[c] = "replaying" /\ key'[c] = 0 /\ pc' # "new"
  /\ replay'[c] = Backlog(c) /\ Len(Backlog(c)) <= ReplayLimit /\ Blind(c) \subseteq excused'[c]
  /\ UNCHANGED busVars

Reads(c) ==
  LET h == Waiting(c)[1] IN
  /\ Serving(c) /\ Waiting(c) # << >> /\ cst'[c] = cst[c] /\ key'[c] = key[c]
  /\ Waiting(c)' = Tail(Waiting(c)) /\ (cst[c] # "replaying" => replay'[c] = replay[c])
  /\ lastID'[c] = FrameID(h) /\ first'[c] = (IF first[c] = 0 THEN h.n ELSE first[c])
  /\ newest'[c] = (IF h.n > newest[c] THEN h.n ELSE newest[c]) /\ got'[c] = got[c] \cup {h.n}
  /\ excused'[c] = excused[c]
  /\ UNCHANGED <<log, nextSeq, pc, cur, pending, subs>>

GoesLive(c) ==
  /\ Kept(c) /\ cst[c] = "replaying" /\ cst'[c] = "live" /\ key'[c] \in subs'
  /\ replay[c] = << >> /\ replay'[c] = << >> /\ Waiting(c)' = << >>
  /\ UNCHANGED <<log, nextSeq, pc, cur, pending>>

\* What a handler cannot notice of the bus.
LEMMA BusIsQuiet ==
  ASSUME BusInternal
  PROVE  /\ UNCHANGED <<subs, ch, pending>>
         /\ pc' = "new" => pc = "new"
         /\ pc \in {"snapshot", "fanout"} => pc' = pc /\ cur' = cur
BY DEF BusInternal, Sweep, Start, Tick, Stop, NewEvent, Publish, Take, BeginDrain, Exit, AppendEvent,
   AppendEventFails, PruneEvents, SkipPruneEvents, PruneEventsByAge, SkipPruneEventsByAge, ReportSweep, BeginSweep

\* Every step of the stream has one of these effects on every client.
LEMMA Effects ==
  ASSUME StreamInv, [StreamNext]_streamVars, NEW c \in Clients
  PROVE  Watches(c) \/ Leaves(c) \/ Connects(c) \/ Reads(c) \/ GoesLive(c)
<1>0. /\ subs \subseteq SubKeys /\ pending \subseteq SubKeys /\ ch \in [SubKeys -> Seq(Event)]
      /\ 0 \notin SubKeys /\ subSeq \in Nat
      /\ pc # "fanout" => pending = {}
      /\ pc \in {"snapshot", "fanout"} => cur \in Event
  BY DEF StreamInv, IndInv, TypeOK, SubsOK, ChannelsOK, Numbering, BusOK, SubKeys
<1>a. /\ cst \in [Clients -> {"off", "replaying", "live", "gone"}] /\ replay \in [Clients -> Seq(Event)]
      /\ key \in [Clients -> {0} \cup SubKeys] /\ DOMAIN lastID = Clients /\ DOMAIN first = Clients
      /\ DOMAIN newest = Clients /\ DOMAIN got = Clients /\ DOMAIN excused = Clients
  BY DEF StreamInv, StreamTypes
<1>b. /\ Serving(c) => pc # "new"
      /\ cst[c] # "replaying" => replay[c] = << >>
      /\ cst[c] = "live" => key[c] \in subs
      /\ cst[c] # "live" => key[c] = 0
  BY DEF StreamInv, ClientInv, Attached
<1>c. \A d \in Clients : cst[d] = "live" /\ d # c => key[d] \in subs /\ key[d] # key[c]
  BY <1>0 DEF StreamInv, ClientInv, Attached, OwnKeys
<1>1. ASSUME UNCHANGED connVars, Serving(c) => pc' # "new", cst[c] = "live" => key[c] \in subs' /\ ch'[key[c]] = ch[key[c]],
             InHand(c) => InHand(c)' /\ cur' = cur
      PROVE  Watches(c)
  BY <1>1 DEF Watches, Kept, Waiting, connVars
<1>2. CASE UNCHANGED streamVars
  BY <1>b, <1>1, <1>2 DEF streamVars, busVars, connVars, InHand
<1>3. CASE OtherBusStep
  BY <1>b, <1>1, <1>3, BusIsQuiet DEF OtherBusStep, InHand, connVars
<1>4. CASE CrashAll
  BY <1>a, <1>4 DEF CrashAll, Leaves, Kept
<1>5. CASE FanOutPastHandlers
  <2>1. /\ pc = "snapshot" /\ pending' = subs /\ UNCHANGED <<subs, ch>>
        /\ pc' = (IF subs = {} THEN "idle" ELSE "fanout") /\ cur' = (IF subs = {} THEN NoCur ELSE cur)
        /\ excused' = [d \in Clients |->
             IF cst[d] = "replaying" THEN excused[d] \cup {<<"window", cur.n>>} ELSE excused[d]]
        /\ UNCHANGED <<cst, lastID, replay, key, first, newest, got>>
    BY <1>5 DEF FanOutPastHandlers, FanOut
  <2>2. Kept(c) /\ Waiting(c)' = Waiting(c) /\ pc' # "new"
    BY <2>1 DEF Kept, Waiting
  <2>3. Serving(c) => cur.n \in Excused(c)' \/ (InHand(c)' /\ cur'.n = cur.n)
    <3>1. CASE cst[c] = "replaying"
      <4>1. <<"window", cur.n>> \in excused'[c]
        BY <2>1, <3>1
      <4>2. QED
        BY <4>1 DEF Excused, ExcusedFor
    <3>2. CASE cst[c] = "live"
      BY <1>b, <2>1, <3>2 DEF InHand
    <3>3. QED
      BY <3>1, <3>2 DEF Serving
  <2>4. QED
    BY <1>b, <2>1, <2>2, <2>3 DEF Watches
<1>6. ASSUME NEW k \in SubKeys, SendToHandler(k) PROVE Watches(c)
  <2>1. /\ pc = "fanout" /\ k \in pending /\ pending' = pending \ {k} /\ subs' = subs
        /\ pc' = (IF pending' = {} THEN "idle" ELSE "fanout") /\ cur' = (IF pending' = {} THEN NoCur ELSE cur)
        /\ excused' = [d \in Clients |->
             IF key[d] = k /\ Len(ch[k]) >= SubscriberBuf THEN excused[d] \cup {<<"slow", cur.n>>} ELSE excused[d]]
        /\ UNCHANGED <<cst, lastID, replay, key, first, newest, got>>
        /\ IF Len(ch[k]) < SubscriberBuf THEN ch' = [ch EXCEPT ![k] = Append(@, cur)] ELSE ch' = ch
    BY <1>6 DEF SendToHandler, Send
  <2>2. Kept(c) /\ pc' # "new"
    BY <2>1 DEF Kept
  <2>3. CASE key[c] = k /\ cst[c] = "live"
    <3>1. CASE Len(ch[k]) < SubscriberBuf
      <4>1. ch'[k] = Append(ch[k], cur)
        BY <1>0, <2>1, <3>1
      <4>2. Waiting(c)' = Append(Waiting(c), cur)
        BY <2>1, <2>3, <4>1 DEF Waiting
      <4>3. QED
        BY <1>b, <2>1, <2>2, <2>3, <4>2 DEF Watches
    <3>2. CASE ~(Len(ch[k]) < SubscriberBuf)
      <4>1. Waiting(c)' = Waiting(c)
        BY <2>1, <3>2 DEF Waiting
      <4>2. Len(ch[k]) >= SubscriberBuf
        BY <1>0, <3>2, BufferAssumption
      <4>3. <<"slow", cur.n>> \in excused'[c]
        BY <2>1, <2>3, <4>2
      <4>4. cur.n \in Excused(c)'
        BY <4>3 DEF Excused, ExcusedFor
      <4>5. QED
        BY <1>b, <2>1, <2>2, <4>1, <4>4 DEF Watches
    <3>3. QED
      BY <3>1, <3>2
  <2>4. CASE ~(key[c] = k /\ cst[c] = "live")
    <3>1. cst[c] = "live" => ch'[key[c]] = ch[key[c]]
      BY <1>0, <1>b, <2>1, <2>4
    <3>2. Waiting(c)' = Waiting(c)
      BY <2>1, <3>1 DEF Waiting
    <3>3. key[c] # k
      BY <1>0, <1>b, <2>4
    <3>4. InHand(c) => InHand(c)' /\ cur' = cur
      BY <2>1, <3>3 DEF InHand
    <3>5. QED
      BY <1>b, <2>1, <2>2, <3>2, <3>4 DEF Watches
  <2>5. QED
    BY <2>3, <2>4
<1>7. ASSUME NEW d \in Clients, d # c,
             cst'[c] = cst[c], lastID'[c] = lastID[c], replay'[c] = replay[c], key'[c] = key[c], first'[c] = first[c],
             newest'[c] = newest[c], got'[c] = got[c], excused'[c] = excused[c], UNCHANGED <<pc, cur, pending>>,
             cst[c] = "live" => key[c] \in subs' /\ ch'[key[c]] = ch[key[c]]
      PROVE  Watches(c)
  BY <1>b, <1>7 DEF Watches, Kept, Waiting, InHand
<1>8. ASSUME NEW d \in Clients, Connect(d) PROVE Watches(c) \/ Leaves(c) \/ Connects(c)
  <2>1. CASE d # c
    <3>1. /\ \E v : cst' = [cst EXCEPT ![d] = v]
          /\ replay' = replay \/ replay' = [replay EXCEPT ![d] = Backlog(d)]
          /\ excused' = excused \/ excused' = [excused EXCEPT ![d] = @ \cup Blind(d)]
          /\ UNCHANGED <<busVars, lastID, key, first, newest, got>>
      BY <1>8 DEF Connect
    <3>2. cst'[c] = cst[c] /\ replay'[c] = replay[c] /\ excused'[c] = excused[c]
      <4>1. cst'[c] = cst[c]
        BY <1>a, <2>1, <3>1
      <4>2. replay'[c] = replay[c]
        BY <1>a, <2>1, <3>1
      <4>3. excused'[c] = excused[c]
        BY <1>a, <2>1, <3>1
      <4>4. QED
        BY <4>1, <4>2, <4>3
    <3>3. QED
      BY <1>7, <1>b, <2>1, <3>1, <3>2 DEF busVars
  <2>2. CASE d = c
    <3>1. CASE Len(Backlog(c)) > ReplayLimit
      BY <1>8, <1>a, <1>b, <2>2, <3>1 DEF Connect, Leaves, Kept
    <3>2. CASE ~(Len(Backlog(c)) > ReplayLimit)
      <4>1. /\ cst[c] = "off" /\ pc # "new" /\ cst'[c] = "replaying" /\ replay'[c] = Backlog(c)
            /\ excused'[c] = excused[c] \cup Blind(c)
            /\ UNCHANGED <<busVars, lastID, key, first, newest, got>>
        BY <1>8, <1>a, <2>2, <3>2 DEF Connect
      <4>2. Len(Backlog(c)) <= ReplayLimit
        <5>1. Len(Backlog(c)) \in Nat
          BY BacklogType
        <5>2. QED
          BY <3>2, <5>1, ReplayAssumption
      <4>3. QED
        BY <1>b, <4>1, <4>2 DEF Connects, Kept, busVars
    <3>3. QED
      BY <3>1, <3>2
  <2>3. QED
    BY <2>1, <2>2
<1>9. ASSUME NEW d \in Clients, WriteReplayed(d) PROVE Watches(c) \/ Reads(c)
  <2>1. CASE d # c
    BY <1>7, <1>9, <1>b, <2>1 DEF WriteReplayed, Deliver, busVars
  <2>2. CASE d = c
    <3>1. /\ cst[c] = "replaying" /\ replay[c] # << >> /\ Deliver(c, Head(replay[c]))
          /\ replay'[c] = Tail(replay[c]) /\ UNCHANGED <<busVars, cst, key, excused>>
      BY <1>9, <1>a, <2>2 DEF WriteReplayed
    <3>2. Waiting(c) = replay[c] /\ Waiting(c)' = Tail(replay[c]) /\ Head(replay[c]) = replay[c][1]
      BY <1>a, <3>1 DEF Waiting
    <3>3. QED
      BY <1>a, <3>1, <3>2 DEF Reads, Deliver, Serving, busVars
  <2>3. QED
    BY <2>1, <2>2
<1>10. ASSUME NEW d \in Clients, WriteLive(d) PROVE Watches(c) \/ Reads(c)
  <2>1. CASE d # c
    <3>1. key[d] # key[c] /\ key[d] \in subs
      BY <1>10, <1>c, <2>1 DEF WriteLive
    <3>2. cst[c] = "live" => key[c] \in subs' /\ ch'[key[c]] = ch[key[c]]
      BY <1>0, <1>10, <1>b, <3>1 DEF WriteLive, Receive
    <3>3. QED
      BY <1>7, <1>10, <2>1, <3>2 DEF WriteLive, Deliver, Receive
  <2>2. CASE d = c
    <3>1. /\ cst[c] = "live" /\ Receive(key[c]) /\ Deliver(c, Head(ch[key[c]]))
          /\ UNCHANGED <<cst, replay, key, excused>>
      BY <1>10, <2>2 DEF WriteLive
    <3>2. /\ key[c] \in SubKeys /\ ch[key[c]] # << >> /\ ch'[key[c]] = Tail(ch[key[c]])
          /\ UNCHANGED <<log, nextSeq, pc, cur, pending, subs>>
      BY <1>0, <3>1 DEF Receive
    <3>3. Waiting(c) = ch[key[c]] /\ Waiting(c)' = Tail(ch[key[c]]) /\ Head(ch[key[c]]) = ch[key[c]][1]
      BY <1>0, <3>1, <3>2 DEF Waiting
    <3>4. QED
      BY <1>a, <3>1, <3>2, <3>3 DEF Reads, Deliver, Serving
  <2>3. QED
    BY <2>1, <2>2
<1>11. ASSUME NEW d \in Clients, GoLive(d) PROVE Watches(c) \/ GoesLive(c)
  <2>1. CASE d # c
    BY <1>7, <1>11, <1>b, <2>1 DEF GoLive, Subscribe
  <2>2. CASE d = c
    <3>1. /\ cst[c] = "replaying" /\ replay[c] = << >> /\ key'[c] = subSeq' /\ cst'[c] = "live"
          /\ subs' = subs \cup {subSeq'} /\ subSeq' = subSeq + 1 /\ subSeq < MaxSubs
          /\ UNCHANGED <<lastID, replay, first, newest, got, excused>>
          /\ UNCHANGED <<log, nextSeq, pc, cur, pending, ch>>
      BY <1>11, <1>a, <2>2 DEF GoLive, Subscribe
    <3>2. ch[subSeq'] = << >>
      <4>1. subSeq' \in SubKeys /\ subSeq' > subSeq
        BY <1>0, <3>1, BoundAssumption DEF SubKeys
      <4>2. \A k \in SubKeys : k > subSeq => ch[k] = << >>
        BY DEF StreamInv, IndInv, KeysFresh
      <4>3. PICK k \in SubKeys : k = subSeq'
        BY <4>1
      <4>4. QED
        BY <4>1, <4>2, <4>3
    <3>3. Waiting(c)' = << >>
      BY <3>1, <3>2 DEF Waiting
    <3>4. QED
      BY <3>1, <3>3 DEF GoesLive, Kept
  <2>3. QED
    BY <2>1, <2>2
<1>12. ASSUME NEW d \in Clients, Disconnect(d) PROVE Watches(c) \/ Leaves(c)
  <2>1. CASE d # c
    <3>1. cst[c] = "live" => key[c] \in subs' /\ ch'[key[c]] = ch[key[c]]
      <4>1. CASE cst[d] = "live"
        <5>1. key[d] # key[c]
          BY <1>c, <2>1, <4>1
        <5>2. QED
          BY <1>0, <1>12, <1>b, <4>1, <5>1 DEF Disconnect, Cancel
      <4>2. CASE cst[d] # "live"
        BY <1>12, <1>b, <4>2 DEF Disconnect, busVars
      <4>3. QED
        BY <4>1, <4>2
    <3>2. UNCHANGED <<pc, cur, pending>>
      BY <1>12 DEF Disconnect, Cancel, busVars
    <3>3. QED
      BY <1>7, <1>12, <2>1, <3>1, <3>2 DEF Disconnect
  <2>2. CASE d = c
    BY <1>12, <1>a, <2>2 DEF Disconnect, Leaves, Kept
  <2>3. QED
    BY <2>1, <2>2
<1>13. QED
  BY <1>2, <1>3, <1>4, <1>5, <1>6, <1>8, <1>9, <1>10, <1>11, <1>12 DEF StreamNext

\* Facts about a client that the next lemmas share.
LEMMA ClientFacts ==
  ASSUME StreamInv, NEW c \in Clients
  PROVE  /\ Waiting(c) \in Seq(Event) /\ \A i \in 1..Len(Waiting(c)) : Waiting(c)[i].n \in Nat \ {0} /\ Waiting(c)[i].seq \in Nat
         /\ lastID[c] \in Int /\ first[c] \in Nat /\ newest[c] \in Nat
         /\ \A s \in DOMAIN log : s \in Nat \ {0} /\ log[s].n \in Nat
         /\ Taken \in Int /\ nextSeq \in Nat /\ accepted \in Int
         /\ pc \in {"process", "snapshot", "fanout"} => cur \in Event /\ cur.n = Taken
<1>1. Waiting(c) \in Seq(Event)
  <2>1. cst[c] = "live" => key[c] \in SubKeys
    BY DEF StreamInv, ClientInv, Attached, IndInv, TypeOK, SubsOK
  <2>2. QED
    BY <2>1 DEF Waiting, StreamInv, StreamTypes, IndInv, TypeOK, ChannelsOK
<1> HIDE DEF Waiting
<1>2. \A i \in 1..Len(Waiting(c)) : Waiting(c)[i].n \in Nat \ {0} /\ Waiting(c)[i].seq \in Nat
  <2>1. SUFFICES ASSUME NEW i \in 1..Len(Waiting(c)) PROVE Waiting(c)[i].n \in Nat \ {0} /\ Waiting(c)[i].seq \in Nat
    OBVIOUS
  <2>2. Waiting(c)[i] \in Event
    BY <1>1
  <2>3. QED
    BY <2>2, BoundAssumption DEF Event
<1>3. lastID[c] \in Int
  <2>1. lastID[c] \in {TransientID, NoID} \cup 1..MaxEvents
    BY DEF StreamInv, StreamTypes
  <2>2. QED
    BY <2>1, BoundAssumption DEF TransientID, NoID
<1>4. first[c] \in Nat /\ newest[c] \in Nat
  BY BoundAssumption DEF StreamInv, StreamTypes
<1>5. Taken \in Int /\ nextSeq \in Nat /\ accepted \in Int /\ \A s \in DOMAIN log : s \in Nat \ {0} /\ log[s] \in Event
  BY BoundAssumption DEF StreamInv, IndInv, TypeOK, PublishOK, LogOK, Taken
<1>6. \A s \in DOMAIN log : log[s].n \in Nat
  BY <1>5, BoundAssumption DEF Event
<1>7. QED
  BY <1>1, <1>2, <1>3, <1>4, <1>5, <1>6 DEF StreamInv, IndInv, Numbering

\* What c has received stays what it was, and nothing newly appended is in its past.
LEMMA KeptPast ==
  ASSUME StreamInv, IndInv', [Next]_busVars, NEW c \in Clients, Kept(c)
  PROVE  Past(c)' /\ Placed(newest[c], lastID[c])' /\ (\A n : Known(c, n) => Known(c, n)')
<1>0. newest[c] \in Nat /\ lastID[c] \in Int /\ Taken \in Int /\ (\A s \in DOMAIN log : log[s].n \in Nat)
  BY ClientFacts
<1>1. Placed(newest[c], lastID[c])'
  <2>1. PICK n \in Int, s \in Int : n = newest[c] /\ s = lastID[c]
    BY <1>0
  <2>2. Placed(n, s)
    BY <2>1 DEF StreamInv, ClientInv, Cursor
  <2>3. Placed(n, s)'
    BY <2>2, PlacedStep DEF StreamInv
  <2>4. newest'[c] = n /\ lastID'[c] = s
    BY <2>1 DEF Kept
  <2>5. QED
    BY <2>3, <2>4
<1>2. \A n : Known(c, n) => Known(c, n)'
  BY DEF Kept, Known, Excused, ExcusedFor
<1>3. ASSUME NEW s \in DOMAIN log', first[c] < log'[s].n, log'[s].n < newest[c] PROVE Known(c, log[s].n)'
  <2>1. CASE s \in DOMAIN log /\ log'[s] = log[s]
    <3>1. Known(c, log[s].n)
      BY <1>3, <2>1 DEF StreamInv, ClientInv, Past
    <3>2. PICK n : n = log[s].n /\ n = log'[s].n
      BY <2>1
    <3>3. Known(c, n)'
      BY <1>2, <3>1, <3>2
    <3>4. QED
      BY <3>2, <3>3
  <2>2. CASE pc = "process" /\ log'[s].n = Taken
    <3>1. newest[c] <= Taken - 1
      BY <2>2 DEF StreamInv, ClientInv, Cursor, Placed, Appended
    <3>2. QED
      BY <1>0, <1>3, <2>2, <3>1
  <2>3. QED
    BY <1>3, <2>1, <2>2, OldOrNew DEF StreamInv
<1>4. Past(c)'
  BY <1>3 DEF Past, Kept
<1>5. QED
  BY <1>1, <1>2, <1>4

\* A client that a step cuts off, or that was not connected, keeps its invariant.
LEMMA LeavesKeeps ==
  ASSUME StreamInv, IndInv', [Next]_busVars, NEW c \in Clients, Leaves(c)
  PROVE  ClientInv(c)'
<1>1. Past(c)' /\ Placed(newest[c], lastID[c])'
  BY KeptPast DEF Leaves
<1>2. Waiting(c)' = << >> /\ ~Serving(c)'
  BY DEF Leaves, Waiting, Serving
<1>3. Attached(c)'
  BY DEF Leaves, Attached, Serving
<1>4. Begun(c)'
  BY DEF Leaves, Kept, Begun, StreamInv, ClientInv
<1>5. Ahead(c)' /\ Cursor(c)' /\ Coming(c)'
  <2>1. Len(Waiting(c)') = 0 /\ 1..0 = {}
    BY <1>2
  <2>2. cst'[c] # "replaying"
    BY DEF Leaves
  <2>3. QED
    BY <1>1, <1>2, <2>1, <2>2 DEF Ahead, Cursor, Coming
<1>6. QED
  BY <1>1, <1>3, <1>4, <1>5 DEF ClientInv

\* So does one whose handler subscribes: nothing waits, and all that is to come
\* is the event fanOut has not yet copied the subscribers for.
LEMMA GoesLiveKeeps ==
  ASSUME StreamInv, IndInv', [Next]_busVars, NEW c \in Clients, GoesLive(c)
  PROVE  ClientInv(c)'
<1>1. Past(c)' /\ Placed(newest[c], lastID[c])' /\ (\A n : Known(c, n) => Known(c, n)')
  BY KeptPast DEF GoesLive
<1>2. Waiting(c)' = << >> /\ Len(Waiting(c)') = 0 /\ Waiting(c) = << >>
  BY DEF GoesLive, Waiting
<1>3. Attached(c)'
  BY DEF GoesLive, Attached, Serving, StreamInv, ClientInv
<1>4. Begun(c)'
  BY DEF GoesLive, Kept, Begun, StreamInv, ClientInv
<1>5. Ahead(c)' /\ Cursor(c)'
  <2>1. cst'[c] # "replaying" /\ 1..0 = {}
    BY DEF GoesLive
  <2>2. QED
    BY <1>1, <1>2, <2>1 DEF Ahead, Cursor
<1>6. ASSUME NEW s \in DOMAIN log', Due(c, log[s].n)' PROVE (Known(c, log[s].n) \/ ToCome(c, log[s].n))'
  <2>1. s \in DOMAIN log /\ log' = log
    BY <1>6 DEF GoesLive
  <2>2. PICK n : n = log[s].n /\ n = log'[s].n
    BY <2>1
  <2>3. Due(c, n)
    BY <1>2, <1>6, <2>2 DEF Due, GoesLive, Kept
  <2>4. Known(c, n) \/ ToCome(c, n)
    BY <2>1, <2>2, <2>3 DEF StreamInv, ClientInv, Coming, GoesLive, Serving
  <2>5. ToCome(c, n) => ToCome(c, n)'
    <3>1. SUFFICES ASSUME ToCome(c, n) PROVE ToCome(c, n)'
      OBVIOUS
    <3>2. n = cur.n /\ InHand(c)
      BY <1>2, <3>1 DEF ToCome
    <3>3. key[c] = 0 /\ 0 \notin pending
      BY DEF GoesLive, StreamInv, ClientInv, Attached, IndInv, TypeOK, SubsOK, SubKeys
    <3>4. pc = "snapshot"
      BY <3>2, <3>3 DEF InHand
    <3>5. QED
      BY <3>2, <3>4 DEF GoesLive, ToCome, InHand
  <2>6. Known(c, n)' \/ ToCome(c, n)'
    BY <1>1, <2>4, <2>5
  <2>7. QED
    BY <2>2, <2>6
<1>7. Coming(c)'
  BY <1>6 DEF Coming
<1>8. QED
  BY <1>1, <1>3, <1>4, <1>5, <1>7 DEF ClientInv

\* A client that looks on: its channel may have grown by the event in hand.
LEMMA WatchesKeeps ==
  ASSUME StreamInv, IndInv', [Next]_busVars, NEW c \in Clients, Watches(c)
  PROVE  ClientInv(c)'
<1>1. Past(c)' /\ Placed(newest[c], lastID[c])' /\ (\A n : Known(c, n) => Known(c, n)')
  BY KeptPast DEF Watches
<1>2. Attached(c)'
  BY DEF Watches, Attached, Serving, StreamInv, ClientInv
<1>3. Begun(c)'
  BY DEF Watches, Kept, Begun, StreamInv, ClientInv
<1> DEFINE old == Waiting(c)
           Grown == cst[c] = "live" /\ pc = "fanout"
<1>4. /\ old \in Seq(Event) /\ newest[c] \in Nat /\ Taken \in Int
      /\ pc = "fanout" => cur \in Event /\ cur.n = Taken
      /\ \A s \in DOMAIN log : log[s].n \in Nat
  BY ClientFacts
<1>5. PICK new \in Seq(Event) : /\ new = Waiting(c)'
                                /\ new = old \/ (Grown /\ new = Append(old, cur))
  <2>1. Grown => Append(old, cur) \in Seq(Event)
    BY <1>4, AppendFacts
  <2>2. Waiting(c)' = old \/ (Grown /\ Waiting(c)' = Append(old, cur))
    BY DEF Watches
  <2> HIDE DEF old, Grown
  <2>3. QED
    BY <1>4, <2>1, <2>2
<1>6. /\ \A i \in 1..Len(old) : i \in 1..Len(new) /\ new[i] = old[i]
      /\ \A i \in 1..Len(new) : (i \in 1..Len(old) /\ new[i] = old[i]) \/ (Grown /\ new[i] = cur /\ i = Len(old) + 1)
      /\ new = Append(old, cur) /\ Grown => Len(old) + 1 \in 1..Len(new) /\ new[Len(old) + 1] = cur
  <2> HIDE DEF old
  <2>1. Len(old) \in Nat
    BY <1>4
  <2>2. CASE new = old
    <3>1. Len(Append(old, cur)) = Len(old) + 1 \/ ~Grown
      BY <1>4, AppendFacts
    <3>2. QED
      BY <2>1, <2>2, <3>1
  <2>3. CASE Grown /\ new = Append(old, cur)
    <3>1. Len(new) = Len(old) + 1 /\ (\A i \in 1..Len(old) : new[i] = old[i]) /\ new[Len(old) + 1] = cur
      BY <1>4, <2>3, AppendFacts
    <3>2. QED
      BY <2>1, <2>3, <3>1
  <2>4. QED
    BY <1>5, <2>2, <2>3
<1>7. newest[c] <= Taken /\ (\A s \in DOMAIN log : log[s].n <= Taken)
  BY <1>4 DEF StreamInv, ClientInv, Cursor, Placed, Appended, IndInv, LogNumbering
<1>8. Cursor(c)'
  <2>1. SUFFICES ASSUME NEW i \in 1..Len(new) PROVE Placed(new[i].n, new[i].seq)'
    BY <1>1, <1>5 DEF Cursor
  <2>2. new[i] \in Event /\ Placed(new[i].n, new[i].seq)
    BY <1>5, <1>6 DEF StreamInv, ClientInv, Cursor, CurPlaced
  <2>3. PICK n \in Int, s \in Int : n = new[i].n /\ s = new[i].seq
    BY <2>2 DEF Event
  <2>4. Placed(n, s)'
    BY <2>2, <2>3, PlacedStep DEF StreamInv
  <2>5. QED
    BY <2>3, <2>4
<1>9. Ahead(c)'
  <2>1. cst'[c] = cst[c] /\ newest'[c] = newest[c]
    BY DEF Watches, Kept
  <2>2. \A i, j \in 1..Len(new) : i < j => new[i].n < new[j].n
    <3>1. CASE cst[c] = "live"
      <4>1. key'[c] \in subs' /\ new = ch'[key'[c]]
        BY <1>5, <2>1, <3>1 DEF Watches, Waiting
      <4>2. QED
        BY <4>1 DEF IndInv, SubscriberInOrder
    <3>2. CASE cst[c] # "live"
      BY <1>5, <3>2 DEF StreamInv, ClientInv, Ahead
    <3>3. QED
      BY <3>1, <3>2
  <2>3. \A i \in 1..Len(new) : newest[c] <= new[i].n
    BY <1>4, <1>6, <1>7 DEF StreamInv, ClientInv, Ahead
  <2>4. cst[c] = "replaying" => \A i \in 1..Len(new) : newest[c] < new[i].n
    BY <1>6 DEF StreamInv, ClientInv, Ahead
  <2>5. QED
    BY <1>5, <2>1, <2>2, <2>3, <2>4 DEF Ahead
<1>10. ASSUME Serving(c)', NEW s \in DOMAIN log', Due(c, log[s].n)'
       PROVE  (Known(c, log[s].n) \/ ToCome(c, log[s].n))'
  <2>0. Serving(c)
    BY <1>10 DEF Serving, Watches
  <2>1. CASE pc' = "snapshot" /\ log'[s].n = Taken /\ cur'.n = Taken
    BY <2>1 DEF ToCome, InHand
  <2>2. CASE s \in DOMAIN log /\ log'[s] = log[s]
    <3>1. PICK n \in Nat : n = log[s].n /\ n = log'[s].n
      BY <1>4, <2>2
    <3>2. Due(c, n)
      <4>1. CASE first'[c] # 0 /\ newest'[c] < n
        BY <4>1 DEF Due, Watches, Kept
      <4>2. CASE new # << >> /\ new[1].n < n
        <5>1. CASE old = << >>
          <6>1. 1 \in 1..Len(new) /\ 1 \notin 1..Len(old)
            <7> HIDE DEF old
            <7>1. QED
              BY <4>2, <5>1
          <6>2. new[1] = cur /\ cur.n = Taken
            BY <1>4, <1>6, <6>1
          <6>3. n <= Taken
            BY <1>7, <2>2, <3>1
          <6>4. QED
            BY <1>4, <4>2, <6>2, <6>3
        <5>2. CASE old # << >>
          <6>1. 1 \in 1..Len(old)
            <7> HIDE DEF old
            <7>1. QED
              BY <1>4, <5>2
          <6>2. QED
            BY <1>6, <4>2, <5>2, <6>1 DEF Due
        <5>3. QED
          BY <5>1, <5>2
      <4>3. QED
        BY <1>5, <1>10, <3>1, <4>1, <4>2 DEF Due
    <3>3. Known(c, n) \/ ToCome(c, n)
      BY <2>0, <2>2, <3>1, <3>2 DEF StreamInv, ClientInv, Coming
    <3>4. ASSUME NEW i \in 1..Len(old), n = old[i].n PROVE ToCome(c, n)'
      BY <1>5, <1>6, <3>4 DEF ToCome
    <3>5. ASSUME n = cur.n, InHand(c) PROVE Known(c, n)' \/ ToCome(c, n)'
      <4>1. \/ cur.n \in Excused(c)' \/ new = Append(old, cur) \/ (InHand(c)' /\ cur'.n = cur.n)
        BY <1>5, <2>0, <3>5 DEF Watches
      <4>2. CASE cur.n \in Excused(c)'
        BY <3>5, <4>2 DEF Known
      <4>3. CASE InHand(c)' /\ cur'.n = cur.n
        BY <3>5, <4>3 DEF ToCome
      <4>4. CASE new = Append(old, cur)
        <5>1. Grown
          <6> HIDE DEF old, Grown
          <6>1. Append(old, cur) # old
            <7>1. cur \in Event
              BY <3>5 DEF StreamInv, IndInv, Numbering, InHand
            <7>2. Len(Append(old, cur)) = Len(old) + 1 /\ Len(old) \in Nat
              BY <1>4, <7>1, AppendFacts
            <7>3. QED
              BY <7>2
          <6>2. QED
            BY <1>5, <4>4, <6>1
        <5>2. QED
          BY <1>5, <1>6, <3>5, <4>4, <5>1 DEF ToCome
      <4>5. QED
        BY <4>1, <4>2, <4>3, <4>4
    <3>6. Known(c, n)' \/ ToCome(c, n)'
      BY <1>1, <3>3, <3>4, <3>5 DEF ToCome
    <3>7. QED
      BY <3>1, <3>6
  <2>3. QED
    BY <2>1, <2>2, OldOrNew DEF StreamInv
<1>11. Coming(c)'
  BY <1>10 DEF Coming
<1>12. QED
  BY <1>1, <1>2, <1>3, <1>8, <1>9, <1>11 DEF ClientInv

\* A client whose request is answered: the backlog is all that it lacks, unless its
\* cursor was transient and the events it lacks are excused.
LEMMA ConnectsKeeps ==
  ASSUME StreamInv, IndInv', [Next]_busVars, NEW c \in Clients, Connects(c)
  PROVE  ClientInv(c)'
<1>1. Past(c)' /\ Placed(newest[c], lastID[c])' /\ (\A n : Known(c, n) => Known(c, n)')
  BY KeptPast DEF Connects
<1>2. Attached(c)'
  BY DEF Connects, Attached, Serving, StreamInv, ClientInv
<1>3. /\ lastID[c] \in Int /\ newest[c] \in Nat /\ Taken \in Int /\ nextSeq \in Nat
      /\ \A s \in DOMAIN log : s \in Nat \ {0} /\ log[s].n \in Nat
  BY ClientFacts
<1>4. /\ (lastID[c] = 0 <=> first[c] = 0) /\ (newest[c] = 0 <=> first[c] = 0)
      /\ Placed(newest[c], lastID[c]) /\ Sequenced
      /\ \A s, t \in DOMAIN log : s < t => log[s].n < log[t].n
      /\ \A s \in DOMAIN log : log[s].n <= Appended /\ s <= nextSeq
  BY DEF StreamInv, ClientInv, Begun, Cursor, IndInv, LogInOrder, LogNumbering, TypeOK, LogOK
<1>5. Kept(c) /\ UNCHANGED busVars /\ cst'[c] = "replaying"
  BY DEF Connects
<1>6. CASE lastID[c] > 0
  <2>1. PICK q : q = ListEventsAfterSeq(lastID[c], ReplayLimit + 1) /\ Backlog(c) = q
    BY <1>6 DEF Backlog, AfterSeq
  <2>2. PICK lo \in Nat \ {0} :
            /\ q \in Seq(Event)
            /\ \A i \in 1..Len(q) : lo + i - 1 \in DOMAIN log /\ lo + i - 1 > lastID[c] /\ q[i] = log[lo + i - 1]
            /\ Len(q) < ReplayLimit + 1 => \A s \in DOMAIN log : s > lastID[c] => s >= lo /\ s - lo + 1 <= Len(q)
    <3>1. lastID[c] \in Nat /\ ReplayLimit + 1 \in Nat
      BY <1>3, <1>6, ReplayAssumption
    <3>2. QED
      BY <2>1, <3>1, BacklogIs DEF StreamInv
  <2>3. Waiting(c)' = q /\ replay'[c] = q /\ Len(q) <= ReplayLimit
    BY <2>1, <1>5 DEF Connects, Waiting
  <2>4. Len(q) \in Nat /\ \A s \in DOMAIN log : s > lastID[c] => s >= lo /\ s - lo + 1 <= Len(q)
    BY <2>2, <2>3, ReplayAssumption
  <2>5. \A s \in DOMAIN log : s > lastID[c] => newest[c] < log[s].n
    BY <1>4, <1>6 DEF Placed
  <2>6. \A i \in 1..Len(q) : newest[c] < q[i].n /\ q[i].n \in Nat
    BY <1>3, <2>2, <2>5
  <2>7. Begun(c)'
    BY <1>4, <1>5, <1>6 DEF Kept, Begun, StreamInv, ClientInv
  <2>8. Ahead(c)'
    <3>1. ASSUME NEW i \in 1..Len(q), NEW j \in 1..Len(q), i < j PROVE q[i].n < q[j].n
      <4>1. lo + i - 1 < lo + j - 1 /\ lo + i - 1 \in DOMAIN log /\ lo + j - 1 \in DOMAIN log
        BY <2>2, <3>1
      <4>2. log[lo + i - 1].n < log[lo + j - 1].n
        BY <1>4, <4>1
      <4>3. QED
        BY <2>2, <4>2
    <3>2. newest'[c] = newest[c]
      BY <1>5 DEF Kept
    <3>3. QED
      BY <1>3, <2>3, <2>6, <3>1, <3>2 DEF Ahead
  <2>9. Cursor(c)'
    <3>1. SUFFICES ASSUME NEW i \in 1..Len(q) PROVE Placed(q[i].n, q[i].seq)'
      BY <1>1, <1>5, <2>3 DEF Cursor, Kept
    <3>2. PICK s \in DOMAIN log : q[i] = log[s] /\ log[s].seq = s
      BY <1>4, <2>2 DEF Sequenced
    <3>3. \A t \in DOMAIN log : (t > s => log[s].n < log[t].n) /\ (t <= s => log[t].n <= log[s].n)
      BY <1>3, <1>4
    <3>4. PICK n \in Int, r \in Int : n = log[s].n /\ r = s
      BY <1>3
    <3>5. Placed(n, r)
      BY <1>4, <3>3, <3>4 DEF Placed
    <3>6. Placed(n, r)'
      BY <3>5, PlacedStep DEF StreamInv
    <3>7. q[i].n = n /\ q[i].seq = r
      BY <3>2, <3>4
    <3>8. QED
      BY <3>6, <3>7
  <2>10. ASSUME NEW s \in DOMAIN log', Due(c, log[s].n)' PROVE ToCome(c, log[s].n)'
    <3>1. s \in DOMAIN log /\ log' = log
      BY <1>5, <2>10 DEF busVars
    <3>2. newest[c] < log[s].n
      <4>1. CASE newest'[c] < log'[s].n
        BY <1>5, <3>1, <4>1 DEF Kept
      <4>2. CASE q # << >> /\ q[1].n < log'[s].n
        <5>1. 1 \in 1..Len(q)
          BY <2>2, <4>2
        <5>2. QED
          BY <1>3, <2>6, <3>1, <4>2, <5>1
      <4>3. QED
        BY <2>3, <2>10, <4>1, <4>2 DEF Due
    <3>3. s > lastID[c]
      BY <1>3, <1>4, <1>6, <3>1, <3>2 DEF Placed
    <3>4. PICK i \in 1..Len(q) : i = s - lo + 1
      BY <1>3, <2>4, <3>1, <3>3
    <3>5. q[i] = log[s]
      <4>1. lo + i - 1 = s
        BY <1>3, <3>1, <3>4
      <4>2. QED
        BY <2>2, <4>1
    <3>6. QED
      BY <2>3, <3>1, <3>5 DEF ToCome
  <2>11. Coming(c)'
    BY <2>10 DEF Coming
  <2>12. QED
    BY <1>1, <1>2, <2>7, <2>8, <2>9, <2>11 DEF ClientInv
<1>7. CASE ~(lastID[c] > 0)
  <2>1. Waiting(c)' = << >> /\ replay'[c] = << >> /\ Len(Waiting(c)') = 0 /\ 1..0 = {}
    BY <1>5, <1>7 DEF Connects, Backlog, AfterSeq, Waiting
  <2>2. Begun(c)'
    BY <1>5, <2>1 DEF Kept, Begun, StreamInv, ClientInv
  <2>3. Ahead(c)' /\ Cursor(c)'
    BY <1>1, <1>5, <2>1 DEF Ahead, Cursor, Kept
  <2>4. ASSUME NEW s \in DOMAIN log', Due(c, log[s].n)' PROVE Known(c, log[s].n)'
    <3>1. s \in DOMAIN log /\ log' = log
      BY <1>5, <2>4 DEF busVars
    <3>2. first[c] # 0 /\ newest[c] < log[s].n
      BY <1>5, <2>1, <2>4, <3>1 DEF Due, Kept
    <3>3. lastID[c] = TransientID
      <4>1. lastID[c] \in {TransientID, NoID} \cup 1..MaxEvents
        BY DEF StreamInv, StreamTypes
      <4>2. QED
        BY <1>4, <1>7, <3>2, <4>1, BoundAssumption DEF NoID
    <3>4. <<"transient", log[s].n>> \in Blind(c)
      BY <1>3, <3>1, <3>2, <3>3 DEF Blind
    <3>5. <<"transient", log'[s].n>> \in excused'[c]
      BY <3>1, <3>4 DEF Connects
    <3>6. QED
      BY <3>5 DEF Known, Excused, ExcusedFor
  <2>5. Coming(c)'
    BY <2>4 DEF Coming
  <2>6. QED
    BY <1>1, <1>2, <2>2, <2>3, <2>5 DEF ClientInv
<1>8. QED
  BY <1>6, <1>7

\* A client that reads a frame: what lies between it and the one before was known
\* or waits no more, because whatever was to come is not older than the frame.
LEMMA ReadsKeeps ==
  ASSUME StreamInv, IndInv', [Next]_busVars, NEW c \in Clients, Reads(c)
  PROVE  ClientInv(c)'
<1>1. /\ Waiting(c) \in Seq(Event) /\ \A i \in 1..Len(Waiting(c)) : Waiting(c)[i].n \in Nat \ {0} /\ Waiting(c)[i].seq \in Nat
      /\ lastID[c] \in Int /\ first[c] \in Nat /\ newest[c] \in Nat /\ Taken \in Int
      /\ \A s \in DOMAIN log : log[s].n \in Nat
      /\ pc \in {"process", "snapshot", "fanout"} => cur \in Event /\ cur.n = Taken
  BY ClientFacts
<1>2. Serving(c) /\ Waiting(c) # << >> /\ Waiting(c)' = Tail(Waiting(c))
  BY DEF Reads
<1>3. PICK w \in Seq(Event) : w = Waiting(c)
  BY <1>1
<1>4. PICK h \in Event : h = w[1] /\ h.n \in Nat \ {0} /\ h.seq \in Nat
  <2>1. 1 \in 1..Len(w) /\ w[1] \in Event
    BY <1>2, <1>3
  <2>2. QED
    BY <1>1, <1>3, <2>1
<1>5. PICK r \in Seq(Event) : r = Tail(w) /\ Len(r) = Len(w) - 1 /\ Len(w) \in Nat \ {0} /\ \A i \in 1..Len(r) : r[i] = w[i + 1]
  BY <1>2, <1>3, HeadTailFacts
<1>6. Waiting(c)' = r /\ \A i \in 1..Len(r) : i + 1 \in 1..Len(w) /\ 1 < i + 1
  BY <1>2, <1>3, <1>5
<1>7. /\ \A i \in 1..Len(w) : w[i].n \in Nat /\ newest[c] <= w[i].n
      /\ \A i, j \in 1..Len(w) : i < j => w[i].n < w[j].n
      /\ \A i \in 1..Len(w) : Placed(w[i].n, w[i].seq)
  BY <1>1, <1>3 DEF StreamInv, ClientInv, Ahead, Cursor
<1>8. /\ h.n = w[1].n /\ newest[c] <= h.n /\ Placed(h.n, h.seq) /\ 1 \in 1..Len(w)
      /\ \A i \in 1..Len(w) : i # 1 => h.n < w[i].n
  BY <1>4, <1>5, <1>7
<1>9. /\ lastID'[c] = FrameID(h) /\ first'[c] = (IF first[c] = 0 THEN h.n ELSE first[c]) /\ newest'[c] = h.n
      /\ got'[c] = got[c] \cup {h.n} /\ excused'[c] = excused[c] /\ cst'[c] = cst[c] /\ key'[c] = key[c]
      /\ UNCHANGED <<log, nextSeq, pc, cur, pending, subs>>
  BY <1>1, <1>3, <1>4, <1>8 DEF Reads
<1>10. \A n : Known(c, n) \/ n = h.n => Known(c, n)'
  BY <1>9 DEF Known, Excused, ExcusedFor
<1>11. Attached(c)'
  BY <1>9 DEF Reads, Attached, Serving, StreamInv, ClientInv
<1>12. Begun(c)'
  <2>1. FrameID(h) # 0
    BY <1>4 DEF FrameID, TransientID
  <2>2. first[c] <= newest[c]
    BY DEF StreamInv, ClientInv, Begun
  <2>3. QED
    BY <1>1, <1>4, <1>8, <1>9, <2>1, <2>2 DEF Begun
<1>13. Cursor(c)'
  <2>1. Placed(newest[c], lastID[c])'
    <3>1. PICK n \in Int, s \in Int : n = h.n /\ s = FrameID(h)
      BY <1>4 DEF FrameID, TransientID
    <3>2. Placed(n, s)
      BY <1>4, <1>8, <3>1 DEF Placed, FrameID, TransientID
    <3>3. Placed(n, s)'
      BY <3>2, PlacedStep DEF StreamInv
    <3>4. newest'[c] = n /\ lastID'[c] = s
      BY <1>9, <3>1
    <3>5. QED
      BY <3>3, <3>4
  <2>2. ASSUME NEW i \in 1..Len(r) PROVE Placed(r[i].n, r[i].seq)'
    <3>1. r[i] \in Event /\ Placed(r[i].n, r[i].seq)
      BY <1>5, <1>6, <1>7
    <3>2. PICK n \in Int, s \in Int : n = r[i].n /\ s = r[i].seq
      BY <3>1 DEF Event
    <3>3. Placed(n, s)'
      BY <3>1, <3>2, PlacedStep DEF StreamInv
    <3>4. QED
      BY <3>2, <3>3
  <2>3. QED
    BY <1>6, <2>1, <2>2 DEF Cursor
<1>14. Ahead(c)'
  <2>1. \A i, j \in 1..Len(r) : i < j => r[i].n < r[j].n
    BY <1>5, <1>6, <1>7
  <2>2. \A i \in 1..Len(r) : h.n < r[i].n /\ r[i].n \in Nat
    BY <1>5, <1>6, <1>7, <1>8
  <2>3. \A i \in 1..Len(r) : h.n <= r[i].n
    BY <1>4, <2>2
  <2>4. QED
    BY <1>6, <1>9, <2>1, <2>2, <2>3 DEF Ahead
\* Nothing to come is older than the frame.
<1>15. ASSUME NEW n \in Nat, ToCome(c, n) PROVE n >= h.n /\ (n = h.n \/ ToCome(c, n)')
  <2>1. ASSUME NEW i \in 1..Len(w), n = w[i].n PROVE n >= h.n /\ (n = h.n \/ ToCome(c, n)')
    <3>1. CASE i = 1
      BY <1>8, <2>1, <3>1
    <3>2. CASE i # 1
      <4>1. i - 1 \in 1..Len(r) /\ (i - 1) + 1 = i
        BY <1>5, <3>2
      <4>2. n = r[i - 1].n
        BY <1>5, <2>1, <4>1
      <4>3. n = (Waiting(c)')[i - 1].n /\ i - 1 \in 1..Len(Waiting(c)')
        BY <1>6, <4>1, <4>2
      <4>4. ToCome(c, n)'
        BY <4>3 DEF ToCome
      <4>5. n >= h.n
        BY <1>4, <1>8, <2>1, <3>2
      <4>6. QED
        BY <4>4, <4>5
    <3>3. QED
      BY <3>1, <3>2
  <2>2. ASSUME n = cur.n, InHand(c) PROVE n >= h.n /\ ToCome(c, n)'
    <3>1. h.n <= Taken /\ n = Taken
      BY <1>1, <1>8, <2>2 DEF Placed, Appended, InHand
    <3>2. ToCome(c, n)'
      BY <1>9, <2>2 DEF ToCome, InHand
    <3>3. QED
      BY <1>1, <1>4, <3>1, <3>2
  <2>3. QED
    BY <1>3, <1>15, <2>1, <2>2 DEF ToCome
<1>16. ASSUME NEW s \in DOMAIN log, NEW n \in Nat, n = log[s].n, (first[c] # 0 /\ newest[c] < n) \/ h.n < n
       PROVE  Known(c, n) \/ ToCome(c, n)
  <2>1. Due(c, n)
    BY <1>2, <1>3, <1>4, <1>16 DEF Due
  <2>2. QED
    BY <1>2, <1>16, <2>1 DEF StreamInv, ClientInv, Coming
<1>17. ASSUME NEW s \in DOMAIN log', first'[c] < log'[s].n, log'[s].n < newest'[c] PROVE Known(c, log[s].n)'
  <2>1. PICK n \in Nat : n = log[s].n /\ n = log'[s].n /\ s \in DOMAIN log
    BY <1>1, <1>9, <1>17
  <2>2. first'[c] < n /\ n < h.n
    BY <1>9, <1>17, <2>1
  <2>3. first[c] # 0 /\ first[c] < n
    BY <1>1, <1>4, <1>9, <2>2
  <2>4. CASE n < newest[c]
    BY <1>10, <2>1, <2>3, <2>4 DEF StreamInv, ClientInv, Past
  <2>5. CASE n = newest[c]
    BY <1>10, <2>1, <2>3, <2>5 DEF StreamInv, ClientInv, Begun, Known
  <2>6. CASE newest[c] < n
    <3>1. Known(c, n) \/ ToCome(c, n)
      BY <1>16, <2>1, <2>3, <2>6
    <3>2. ~ToCome(c, n)
      BY <1>4, <1>15, <2>2
    <3>3. QED
      BY <1>10, <2>1, <3>1, <3>2
  <2>7. QED
    BY <1>1, <2>4, <2>5, <2>6
<1>18. ASSUME NEW s \in DOMAIN log', Due(c, log[s].n)' PROVE (Known(c, log[s].n) \/ ToCome(c, log[s].n))'
  <2>1. PICK n \in Nat : n = log[s].n /\ n = log'[s].n /\ s \in DOMAIN log
    BY <1>1, <1>9, <1>18
  <2>2. h.n < n
    <3>1. CASE newest'[c] < n
      BY <1>9, <3>1
    <3>2. CASE r # << >> /\ r[1].n < n
      <4>1. 1 \in 1..Len(r)
        BY <3>2
      <4>2. h.n < r[1].n /\ r[1].n \in Nat
        BY <1>5, <1>6, <1>7, <1>8, <4>1
      <4>3. QED
        BY <1>4, <3>2, <4>2
    <3>3. QED
      BY <1>6, <1>18, <2>1, <3>1, <3>2 DEF Due
  <2>3. Known(c, n) \/ ToCome(c, n)
    BY <1>16, <2>1, <2>2
  <2>4. Known(c, n)' \/ ToCome(c, n)'
    BY <1>10, <1>15, <2>3
  <2>5. QED
    BY <2>1, <2>4
<1>19. Past(c)' /\ Coming(c)'
  BY <1>17, <1>18 DEF Past, Coming
<1>20. QED
  BY <1>11, <1>12, <1>13, <1>14, <1>19 DEF ClientInv

\* Reading a frame keeps the types of what a client remembers.
LEMMA DeliverTypes ==
  ASSUME StreamTypes, NEW c \in Clients, NEW e \in Event, Deliver(c, e)
  PROVE  /\ lastID' \in [Clients -> {TransientID, NoID} \cup 1..MaxEvents]
         /\ first' \in [Clients -> 0..MaxEvents] /\ newest' \in [Clients -> 0..MaxEvents]
         /\ got' \in [Clients -> SUBSET (1..MaxEvents)]
<1>1. e.n \in 1..MaxEvents /\ FrameID(e) \in {TransientID, NoID} \cup 1..MaxEvents
  BY BoundAssumption DEF Event, FrameID
<1>2. e.n \in 0..MaxEvents
  BY <1>1, BoundAssumption
<1>3. lastID' \in [Clients -> {TransientID, NoID} \cup 1..MaxEvents]
  BY <1>1 DEF Deliver, StreamTypes
<1>4. first' \in [Clients -> 0..MaxEvents] /\ newest' \in [Clients -> 0..MaxEvents]
  BY <1>2 DEF Deliver, StreamTypes
<1>5. got' \in [Clients -> SUBSET (1..MaxEvents)]
  BY <1>1 DEF Deliver, StreamTypes
<1>6. QED
  BY <1>3, <1>4, <1>5

\* Every step keeps the types, and a committed replay within its limit.
LEMMA StreamTypeStep ==
  ASSUME StreamInv, [StreamNext]_streamVars
  PROVE  StreamTypes'
<1> USE DEF StreamTypes
<1>0. StreamTypes
  BY DEF StreamInv
<1>1. CASE UNCHANGED connVars
  BY <1>0, <1>1 DEF connVars
<1>2. CASE CrashAll
  <2>1. << >> \in Seq(Event) /\ Len(<< >>) = 0
    OBVIOUS
  <2>2. cst' \in [Clients -> {"off", "replaying", "live", "gone"}]
    BY <1>0, <1>2 DEF CrashAll
  <2>3. replay' \in [Clients -> Seq(Event)] /\ \A c \in Clients : Len(replay'[c]) <= ReplayLimit
    BY <1>2, <2>1, ReplayAssumption DEF CrashAll
  <2>4. key' \in [Clients -> {0} \cup SubKeys]
    BY <1>2 DEF CrashAll
  <2>5. QED
    BY <1>0, <1>2, <2>2, <2>3, <2>4 DEF CrashAll
<1>3. ASSUME UNCHANGED <<cst, lastID, replay, key, first, newest, got>>,
             excused' \in [Clients -> SUBSET ({"slow", "window", "transient"} \X (1..MaxEvents))]
      PROVE  StreamTypes'
  BY <1>0, <1>3
<1>4. pc \in {"snapshot", "fanout"} => cur.n \in 1..MaxEvents
  BY DEF StreamInv, IndInv, Numbering, Event
<1>5. CASE FanOutPastHandlers
  <2>1. cur.n \in 1..MaxEvents
    BY <1>4, <1>5 DEF FanOutPastHandlers, FanOut
  <2>2. <<"window", cur.n>> \in {"slow", "window", "transient"} \X (1..MaxEvents)
    BY <2>1
  <2>3. QED
    BY <1>0, <1>3, <1>5, <2>2 DEF FanOutPastHandlers
<1>6. ASSUME NEW k \in SubKeys, SendToHandler(k) PROVE StreamTypes'
  <2>1. cur.n \in 1..MaxEvents
    BY <1>4, <1>6 DEF SendToHandler, Send
  <2>2. <<"slow", cur.n>> \in {"slow", "window", "transient"} \X (1..MaxEvents)
    BY <2>1
  <2>3. QED
    BY <1>0, <1>3, <1>6, <2>2 DEF SendToHandler
<1>7. ASSUME NEW c \in Clients, Connect(c) PROVE StreamTypes'
  <2>1. CASE Len(Backlog(c)) > ReplayLimit
    BY <1>0, <1>7, <2>1 DEF Connect
  <2>2. CASE ~(Len(Backlog(c)) > ReplayLimit)
    <3>1. /\ cst' = [cst EXCEPT ![c] = "replaying"] /\ replay' = [replay EXCEPT ![c] = Backlog(c)]
          /\ excused' = [excused EXCEPT ![c] = @ \cup Blind(c)] /\ UNCHANGED <<lastID, key, first, newest, got>>
      BY <1>7, <2>2 DEF Connect
    <3>2. PICK q \in Seq(Event) : q = Backlog(c)
      BY BacklogType
    <3>3. Len(q) <= ReplayLimit
      BY <2>2, <3>2, ReplayAssumption
    <3>4. \A s \in DOMAIN log : log[s].n \in 1..MaxEvents
      BY DEF StreamInv, IndInv, TypeOK, LogOK, Event
    <3>5. \A s \in DOMAIN log : <<"transient", log[s].n>> \in {"slow", "window", "transient"} \X (1..MaxEvents)
      BY <3>4
    <3>6. Blind(c) \subseteq {"slow", "window", "transient"} \X (1..MaxEvents)
      BY <3>5 DEF Blind
    <3>7. replay' \in [Clients -> Seq(Event)] /\ \A d \in Clients : Len(replay'[d]) <= ReplayLimit
      BY <1>0, <3>1, <3>2, <3>3
    <3>8. excused' \in [Clients -> SUBSET ({"slow", "window", "transient"} \X (1..MaxEvents))]
      BY <1>0, <3>1, <3>6
    <3>9. QED
      BY <1>0, <3>1, <3>7, <3>8
  <2>3. QED
    BY <2>1, <2>2
<1>8. ASSUME NEW c \in Clients, WriteReplayed(c) PROVE StreamTypes'
  <2>1. /\ replay[c] \in Seq(Event) /\ replay[c] # << >> /\ Deliver(c, Head(replay[c]))
        /\ replay' = [replay EXCEPT ![c] = Tail(replay[c])] /\ UNCHANGED <<cst, key, excused>>
    BY <1>0, <1>8 DEF WriteReplayed
  <2>2. /\ Head(replay[c]) \in Event /\ Tail(replay[c]) \in Seq(Event)
        /\ Len(Tail(replay[c])) = Len(replay[c]) - 1 /\ Len(replay[c]) \in Nat
    BY <2>1, HeadTailFacts
  <2>3. replay' \in [Clients -> Seq(Event)] /\ \A d \in Clients : Len(replay'[d]) <= ReplayLimit
    <3>1. Len(Tail(replay[c])) <= ReplayLimit
      BY <1>0, <2>2, ReplayAssumption
    <3>2. QED
      BY <1>0, <2>1, <2>2, <3>1
  <2>4. QED
    BY <1>0, <2>1, <2>2, <2>3, DeliverTypes
<1>9. ASSUME NEW c \in Clients, WriteLive(c) PROVE StreamTypes'
  <2>1. Head(ch[key[c]]) \in Event
    <3>1. key[c] \in SubKeys /\ ch[key[c]] \in Seq(Event) /\ ch[key[c]] # << >>
      BY <1>9 DEF WriteLive, Receive, StreamInv, IndInv, TypeOK, SubsOK, ChannelsOK
    <3>2. QED
      BY <3>1, HeadTailFacts
  <2>2. Deliver(c, Head(ch[key[c]])) /\ UNCHANGED <<cst, replay, key, excused>>
    BY <1>9 DEF WriteLive
  <2>3. QED
    BY <1>0, <2>1, <2>2, DeliverTypes
<1>10. ASSUME NEW c \in Clients, GoLive(c) PROVE StreamTypes'
  <2>1. subSeq' \in SubKeys
    BY <1>10, BoundAssumption DEF GoLive, Subscribe, StreamInv, IndInv, TypeOK, SubsOK, SubKeys
  <2>2. QED
    BY <1>0, <1>10, <2>1 DEF GoLive
<1>11. ASSUME NEW c \in Clients, Disconnect(c) PROVE StreamTypes'
  <2>1. /\ cst' = [cst EXCEPT ![c] = "off"] /\ replay' = [replay EXCEPT ![c] = << >>] /\ key' = [key EXCEPT ![c] = 0]
        /\ UNCHANGED <<lastID, first, newest, got, excused>>
    BY <1>11 DEF Disconnect
  <2>2. << >> \in Seq(Event) /\ Len(<< >>) <= ReplayLimit
    BY ReplayAssumption
  <2>3. replay' \in [Clients -> Seq(Event)] /\ \A d \in Clients : Len(replay'[d]) <= ReplayLimit
    BY <1>0, <2>1, <2>2
  <2>4. QED
    BY <1>0, <2>1, <2>3
<1>12. QED
  BY <1>1, <1>2, <1>5, <1>6, <1>7, <1>8, <1>9, <1>10, <1>11 DEF StreamNext, OtherBusStep, streamVars

\* Subscribe hands out a key that no handler holds.
LEMMA OwnKeysStep ==
  ASSUME StreamInv, [StreamNext]_streamVars
  PROVE  OwnKeys'
<1>0. OwnKeys /\ key \in [Clients -> {0} \cup SubKeys] /\ (\A c \in Clients : key[c] # 0 => key[c] \in subs)
  BY DEF StreamInv, ClientInv, Attached, StreamTypes
<1>1. CASE UNCHANGED key
  BY <1>0, <1>1 DEF OwnKeys
<1>2. CASE CrashAll
  BY <1>2 DEF CrashAll, OwnKeys
<1>3. ASSUME NEW c \in Clients, Disconnect(c) PROVE OwnKeys'
  BY <1>0, <1>3 DEF Disconnect, OwnKeys
<1>4. ASSUME NEW c \in Clients, GoLive(c) PROVE OwnKeys'
  <2>1. key' = [key EXCEPT ![c] = subSeq'] /\ subSeq' = subSeq + 1
    BY <1>4 DEF GoLive, Subscribe
  <2>2. subSeq' \notin subs
    BY <2>1 DEF StreamInv, IndInv, KeysFresh, TypeOK, SubsOK
  <2>3. \A d \in Clients : key[d] # 0 => key[d] # subSeq'
    BY <1>0, <2>2
  <2>4. QED
    BY <1>0, <2>1, <2>3 DEF OwnKeys
<1>5. QED
  BY <1>1, <1>2, <1>3, <1>4 DEF StreamNext, FanOutPastHandlers, OtherBusStep, SendToHandler, Connect, WriteReplayed,
       WriteLive, streamVars, connVars

\* A fresh daemon and clients that never connected satisfy the stream's invariant.
LEMMA StreamInitInv == StreamInit => StreamInv
<1> SUFFICES ASSUME StreamInit PROVE StreamInv
  OBVIOUS
<1> USE DEF StreamInit
<1>1. IndInv
  BY InitIndInv
<1>2. StreamTypes
  <2>1. << >> \in Seq(Event) /\ Len(<< >>) <= ReplayLimit
    BY ReplayAssumption
  <2>2. replay \in [Clients -> Seq(Event)] /\ \A c \in Clients : Len(replay[c]) <= ReplayLimit
    BY <2>1
  <2>3. QED
    BY <2>2, BoundAssumption DEF StreamTypes
<1>3. OwnKeys /\ Sequenced /\ CurPlaced
  BY DEF BusInit, OwnKeys, Sequenced, CurPlaced
<1>4. ASSUME NEW c \in Clients PROVE ClientInv(c)
  <2>1. /\ cst[c] = "off" /\ lastID[c] = 0 /\ replay[c] = << >> /\ key[c] = 0 /\ first[c] = 0 /\ newest[c] = 0
        /\ got[c] = {} /\ Waiting(c) = << >> /\ Len(Waiting(c)) = 0 /\ ~Serving(c)
    BY DEF Waiting, NoID, Serving
  <2>2. Attached(c) /\ Begun(c)
    BY <2>1 DEF Attached, Begun
  <2>3. Cursor(c)
    BY <2>1 DEF Cursor, Placed, Appended, Taken, BusInit
  <2>4. Ahead(c)
    BY <2>1 DEF Ahead
  <2>5. Past(c) /\ Coming(c)
    BY <2>1 DEF Past, Coming, BusInit
  <2>6. QED
    BY <2>2, <2>3, <2>4, <2>5 DEF ClientInv
<1>5. QED
  BY <1>1, <1>2, <1>3, <1>4 DEF StreamInv

\* Every step of the bus, the handlers and the clients preserves it.
LEMMA StreamNextInv == StreamInv /\ [StreamNext]_streamVars => StreamInv'
<1> SUFFICES ASSUME StreamInv, [StreamNext]_streamVars PROVE StreamInv'
  OBVIOUS
<1>1. IndInv /\ Sequenced /\ CurPlaced
  BY DEF StreamInv
<1>2. [Next]_busVars
  BY <1>1, StreamStepsAreBusSteps
<1>3. IndInv'
  BY <1>1, <1>2, NextIndInv
<1>4. Sequenced'
  BY <1>1, <1>2, <1>3, SequencedStep
<1>5. CurPlaced'
  BY <1>1, <1>2, <1>3, CurPlacedStep
<1>6. StreamTypes'
  BY StreamTypeStep
<1>7. OwnKeys'
  BY OwnKeysStep
<1>8. ASSUME NEW c \in Clients PROVE ClientInv(c)'
  <2>1. CASE Watches(c)
    BY <1>2, <1>3, <2>1, WatchesKeeps
  <2>2. CASE Leaves(c)
    BY <1>2, <1>3, <2>2, LeavesKeeps
  <2>3. CASE Connects(c)
    BY <1>2, <1>3, <2>3, ConnectsKeeps
  <2>4. CASE Reads(c)
    BY <1>2, <1>3, <2>4, ReadsKeeps
  <2>5. CASE GoesLive(c)
    BY <1>2, <1>3, <2>5, GoesLiveKeeps
  <2>6. QED
    BY <2>1, <2>2, <2>3, <2>4, <2>5, Effects
<1>9. QED
  BY <1>3, <1>4, <1>5, <1>6, <1>7, <1>8 DEF StreamInv

\* The stream's inductive invariant holds in every reachable state.
THEOREM StreamInductive == StreamSpec => []StreamInv
BY StreamInitInv, StreamNextInv, PTL DEF StreamSpec

\* Under the handlers the bus behaves as EventBus specifies it, so that all that is
\* proved of the bus holds of it there: StreamEvents only calls Subscribe, receives and
\* cancels.
THEOREM StreamRunsTheBus == StreamSpec => Spec
<1>1. StreamInit => BusInit
  BY DEF StreamInit
<1>2. StreamInv /\ [StreamNext]_streamVars => [Next]_busVars
  BY StreamStepsAreBusSteps DEF StreamInv
<1>3. QED
  BY <1>1, <1>2, StreamInductive, PTL DEF StreamSpec, Spec

\* A follower never reads an event older than what it has read, on any number of
\* connections; replay and live tail do not interleave (StreamEvents).
THEOREM FollowersReadInOrder == StreamSpec => []StreamInOrder
<1>1. StreamInv => StreamInOrder
  <2> SUFFICES ASSUME StreamInv PROVE StreamInOrder
    OBVIOUS
  <2>1. TypeOK /\ StreamTypes
    BY DEF StreamInv, IndInv
  <2>2. StreamTypeOK
    BY <2>1 DEF StreamTypes, StreamTypeOK
  <2>3. ASSUME NEW c \in Clients, replay[c] # << >> PROVE newest[c] < Head(replay[c]).n
    <3>1. cst[c] = "replaying" /\ Waiting(c) = replay[c]
      BY <2>3 DEF StreamInv, ClientInv, Attached, Waiting
    <3>2. Head(replay[c]) = replay[c][1] /\ 1 \in 1..Len(replay[c])
      BY <2>1, <2>3 DEF StreamTypes
    <3>3. QED
      BY <3>1, <3>2 DEF StreamInv, ClientInv, Ahead
  <2>4. ASSUME NEW c \in Clients, cst[c] = "live", ch[key[c]] # << >> PROVE newest[c] <= Head(ch[key[c]]).n
    <3>1. Waiting(c) = ch[key[c]] /\ Waiting(c) \in Seq(Event)
      BY <2>4, ClientFacts DEF Waiting
    <3>2. Head(ch[key[c]]) = ch[key[c]][1] /\ 1 \in 1..Len(ch[key[c]])
      BY <2>4, <3>1
    <3>3. QED
      BY <3>1, <3>2 DEF StreamInv, ClientInv, Ahead
  <2>5. QED
    BY <2>2, <2>3, <2>4 DEF StreamInOrder
<1>2. QED
  BY <1>1, StreamInductive, PTL

\* Whatever a follower skips over reconnects, crashes and prunes was lost to a full
\* channel, to the gap between backlog query and subscription, or to a transient cursor.
THEOREM EverySkipHasACause == StreamSpec => []SkipsAreExplained
<1>1. StreamInv => SkipsAreExplained
  <2> SUFFICES ASSUME StreamInv, NEW c \in Clients, NEW n \in Skipped(c) PROVE n \in Excused(c)
    BY DEF SkipsAreExplained, Excused
  <2>1. PICK s \in DOMAIN log : n = log[s].n /\ first[c] < n /\ n < newest[c] /\ n \notin got[c]
    BY DEF Skipped
  <2>2. QED
    BY <2>1 DEF StreamInv, ClientInv, Past, Known
<1>2. QED
  BY <1>1, StreamInductive, PTL


-----------------------------------------------------------------------------
(* The bus implements EventJournal. *)

JournalView == <<Fanned, Stage, nextSeq, Numbers, subs, last, Slow>>
JournalStep == [Journal!Next]_JournalView

\* The number of the last event offered is a number.
LEMMA FannedNat ==
  ASSUME IndInv PROVE Taken \in Nat /\ Fanned \in Nat
<1>1. Taken \in Int /\ Taken >= 0
  BY DEF IndInv, TypeOK, PublishOK, Taken, Numbering
<1>2. CASE pc \in {"process", "snapshot"}
  <2>1. cur \in Event /\ cur.n = Taken
    BY <1>2 DEF IndInv, Numbering
  <2>2. Taken >= 1
    BY <2>1, BoundAssumption DEF Event
  <2>3. QED
    BY <1>1, <1>2, <2>2 DEF Fanned
<1>3. CASE pc \notin {"process", "snapshot"}
  BY <1>1, <1>3 DEF Fanned
<1>4. QED
  BY <1>2, <1>3

\* A step that neither offers nor records, and leaves the bucket and the
\* subscribers alone, is not a step of the journal.
LEMMA JournalRests ==
  ASSUME UNCHANGED <<log, nextSeq, subs, last, overflowed>>, Fanned' = Fanned, Stage' = Stage
  PROVE  JournalStep
<1>1. Numbers' = Numbers /\ Slow' = Slow
  BY DEF Numbers, Slow
<1>2. QED
  BY <1>1 DEF JournalStep, JournalView

\* Publishing, taking from the channel, a failed append and all that has to do
\* with starting, stopping and the clock.
LEMMA JournalQuiet ==
  ASSUME IndInv, Sequenced, BusInternal, ~AppendEvent, ~PruneEvents, ~PruneEventsByAge
  PROVE  JournalStep
<1>1. accepted \in Nat /\ Len(publishCh) \in Nat /\ Taken \in Nat
  BY FannedNat DEF IndInv, TypeOK, PublishOK
<1>2. ASSUME UNCHANGED <<log, nextSeq, subs, last, overflowed, publishCh, accepted, cur>>,
             pc' = pc \/ {pc, pc'} \subseteq {"new", "idle", "stopped"}
      PROVE  JournalStep
  <2>1. Fanned' = Fanned /\ Stage' = Stage
    BY <1>2 DEF Fanned, Stage, Taken
  <2>2. QED
    BY <1>2, <2>1, JournalRests
<1>3. ASSUME NEW t, Offer(t), UNCHANGED <<log, nextSeq, subs, last, overflowed, pc, cur>> PROVE JournalStep
  <2>1. Taken' = Taken
    BY <1>3, OfferNumbering DEF IndInv
  <2>2. Fanned' = Fanned /\ Stage' = Stage
    BY <1>3, <2>1 DEF Fanned, Stage
  <2>3. QED
    BY <1>3, <2>2, JournalRests
<1>4. ASSUME NEW p \in Producers, Publish(p) PROVE JournalStep
  BY <1>3, <1>4 DEF Publish
<1>5. CASE ReportSweep
  BY <1>2, <1>3, <1>5 DEF ReportSweep
<1>6. CASE Take
  <2>1. Len(publishCh') = Len(publishCh) - 1 /\ accepted' = accepted
    BY <1>6, HeadTailFacts DEF Take, IndInv, TypeOK, PublishOK
  <2>2. Fanned' = Fanned /\ Stage' = Stage
    BY <1>1, <1>6, <2>1 DEF Take, Fanned, Stage, Taken
  <2>3. QED
    BY <1>6, <2>2, JournalRests DEF Take
<1>7. CASE AppendEventFails
  <2>1. Fanned' = Fanned /\ Stage' = Stage
    BY <1>7 DEF AppendEventFails, Fanned, Stage, Taken, Sequenced
  <2>2. QED
    BY <1>7, <2>1, JournalRests DEF AppendEventFails
<1>8. CASE Start \/ Tick \/ Stop \/ BeginDrain \/ Exit \/ SkipPruneEvents \/ SkipPruneEventsByAge \/ BeginSweep
  BY <1>2, <1>8 DEF Start, Tick, Stop, BeginDrain, Exit, SkipPruneEvents, SkipPruneEventsByAge, BeginSweep
<1>9. ASSUME NEW p \in Producers, NewEvent(p) PROVE JournalStep
  BY <1>2, <1>9 DEF NewEvent
<1>10. QED
  BY <1>4, <1>5, <1>6, <1>7, <1>8, <1>9 DEF BusInternal, Sweep

\* AppendEvent records the event that comes next.
LEMMA JournalRecords ==
  ASSUME IndInv, AppendEvent PROVE Journal!Record
<1>1. cur.n = Fanned + 1 /\ Fanned' = Fanned
  <2>1. cur.n = Taken /\ Fanned = Taken - 1 /\ Fanned' = Taken - 1
    BY DEF IndInv, Numbering, AppendEvent, Fanned, Taken
  <2>2. QED
    BY <2>1, FannedNat
<1>2. Stage = "open" /\ Stage' = "recorded"
  <2>1. cur'.seq = nextSeq + 1 /\ nextSeq \in Nat /\ pc = "process" /\ pc' = "snapshot"
    BY DEF AppendEvent, IndInv, TypeOK, LogOK
  <2>2. QED
    BY <2>1 DEF Stage
<1>3. Numbers' = [k \in DOMAIN Numbers \cup {nextSeq + 1} |->
                     IF k = nextSeq + 1 THEN Fanned + 1 ELSE Numbers[k]]
  <2>1. cur'.n = cur.n
    BY DEF AppendEvent
  <2>2. DOMAIN log' = DOMAIN log \cup {nextSeq + 1} /\ DOMAIN Numbers = DOMAIN log
    BY DEF AppendEvent, Numbers
  <2>3. \A k \in DOMAIN log' : log'[k].n = IF k = nextSeq + 1 THEN Fanned + 1 ELSE log[k].n
    BY <1>1, <2>1 DEF AppendEvent
  <2>4. QED
    BY <2>2, <2>3 DEF Numbers
<1>4. Slow' = Slow /\ nextSeq' = nextSeq + 1 /\ UNCHANGED <<subs, last>>
  BY DEF AppendEvent, Slow
<1>5. QED
  BY <1>1, <1>2, <1>3, <1>4 DEF Journal!Record

\* fanOut's copy of the subscriber map offers it.
LEMMA JournalOffers ==
  ASSUME IndInv, FanOut PROVE Journal!OfferNext
<1>1. Fanned' = Fanned + 1
  <2>1. Fanned = Taken - 1 /\ Fanned' = Taken
    BY DEF FanOut, Fanned, Taken
  <2>2. QED
    BY <2>1, FannedNat
<1>2. Stage' = "open"
  BY DEF FanOut, Stage
<1>3. UNCHANGED <<nextSeq, Numbers, subs, last, Slow>>
  BY DEF FanOut, Numbers, Slow
<1>4. QED
  BY <1>1, <1>2, <1>3 DEF Journal!OfferNext

\* Each prune transaction cuts the old end of the bucket.
LEMMA JournalTrims ==
  ASSUME IndInv, PruneEvents \/ PruneEventsByAge PROVE Journal!Trim
<1>1. PICK K : DownClosed(K) /\ Delete(K)
  BY ExcessDownClosed, StaleDownClosed DEF PruneEvents, PruneEventsByAge, IndInv
<1>2. UNCHANGED <<nextSeq, subs, last, overflowed, pc, cur, accepted, publishCh>>
  BY DEF PruneEvents, PruneEventsByAge
<1>3. UNCHANGED <<Fanned, Stage, Slow>>
  BY <1>2 DEF Fanned, Taken, Stage, Slow
<1> DEFINE S == DOMAIN log \ K
<1>4. S \in SUBSET DOMAIN Numbers /\ DOMAIN Numbers = DOMAIN log
  BY DEF Numbers
<1>5. ASSUME NEW s \in S, NEW t \in DOMAIN log, s < t PROVE t \in S
  BY <1>1, <1>5 DEF DownClosed
<1>6. Numbers' = [s \in S |-> Numbers[s]]
  BY <1>1 DEF Delete, Numbers
<1>7. QED
  BY <1>2, <1>3, <1>4, <1>5, <1>6 DEF Journal!Trim

\* A restart keeps the bucket and its counter.
LEMMA JournalRestarts ==
  ASSUME IndInv, Crash PROVE Journal!Restart
<1>1. Fanned' >= Fanned
  <2>1. accepted \in Nat /\ Len(publishCh) \in Nat
    BY DEF IndInv, TypeOK, PublishOK
  <2>2. Fanned' = accepted
    BY <2>1 DEF Crash, Fanned, Taken
  <2>3. Fanned <= accepted
    BY <2>1 DEF Fanned, Taken
  <2>4. QED
    BY <2>2, <2>3, <2>1, FannedNat
<1>2. Stage' = "open" /\ Slow' = {} /\ UNCHANGED <<nextSeq, Numbers>>
  BY DEF Crash, Stage, Slow, Numbers
<1>3. subs' = {} /\ last' = [k \in SubKeys |-> 0]
  BY DEF Crash
<1>4. QED
  BY <1>1, <1>2, <1>3 DEF Journal!Restart

\* A send to a full channel loses the event for that subscriber.
LEMMA JournalSends ==
  ASSUME IndInv, NEW k \in SubKeys, Send(k) PROVE JournalStep
<1>1. Fanned' = Fanned /\ Stage' = Stage /\ Numbers' = Numbers
  BY DEF Send, Fanned, Taken, Stage, Numbers
<1>2. UNCHANGED <<log, nextSeq, subs, last>>
  BY DEF Send
<1>3. CASE Len(ch[k]) < SubscriberBuf
  <2>1. UNCHANGED overflowed
    BY <1>3 DEF Send
  <2>2. QED
    BY <1>1, <1>2, <2>1, JournalRests
<1>4. CASE ~(Len(ch[k]) < SubscriberBuf)
  <2>1. overflowed' = [overflowed EXCEPT ![k] = TRUE] /\ overflowed \in [SubKeys -> BOOLEAN] /\ subs \subseteq SubKeys
    BY <1>4 DEF Send, IndInv, TypeOK, SubsOK
  <2>2. CASE k \in subs
    <3>1. Slow' = Slow \cup {k}
      BY <1>2, <2>1, <2>2 DEF Slow
    <3>2. Journal!Lose(k)
      BY <1>1, <1>2, <2>2, <3>1 DEF Journal!Lose
    <3>3. QED
      BY <3>2 DEF JournalStep, Journal!Next
  <2>3. CASE k \notin subs
    <3>1. Slow' = Slow
      BY <1>2, <2>1, <2>3 DEF Slow
    <3>2. QED
      BY <1>1, <1>2, <3>1 DEF JournalStep, JournalView
  <2>4. QED
    BY <2>2, <2>3
<1>5. QED
  BY <1>3, <1>4

\* Subscribing, receiving and cancelling.
LEMMA JournalConsumes ==
  ASSUME IndInv, Consume PROVE Journal!Next
<1>1. UNCHANGED <<Fanned, Stage, Numbers, nextSeq, overflowed>>
  BY DEF Consume, Subscribe, Receive, Cancel, Fanned, Taken, Stage, Numbers
<1>2. CASE Subscribe
  <2> DEFINE k == subSeq + 1
  <2>1. k \in SubKeys /\ k \notin subs /\ ~overflowed[k]
    BY <1>2, BoundAssumption DEF Subscribe, IndInv, TypeOK, SubsOK, KeysFresh, SubKeys
  <2>2. subs' = subs \cup {k} /\ last' = [last EXCEPT ![k] = Fanned]
    BY <1>2 DEF Subscribe
  <2>3. Slow' = Slow
    BY <1>1, <2>1, <2>2 DEF Slow
  <2>4. Journal!Join(k)
    BY <1>1, <2>1, <2>2, <2>3 DEF Journal!Join
  <2>5. QED
    BY <2>1, <2>4 DEF Journal!Next
<1>3. ASSUME NEW k \in SubKeys, Receive(k) PROVE Journal!Next
  <2> DEFINE n == Head(ch[k]).n
  <2>1. k \in subs /\ last' = [last EXCEPT ![k] = n] /\ UNCHANGED subs
    BY <1>3 DEF Receive
  <2>2. /\ Head(ch[k]) = ch[k][1] /\ 1 \in 1..Len(ch[k])
        /\ n \in Nat /\ last[k] \in Nat /\ Fanned \in Nat
    <3>1. ch[k] \in Seq(Event) /\ ch[k] # << >>
      BY <1>3 DEF Receive, IndInv, TypeOK, ChannelsOK
    <3>2. Len(ch[k]) \in Nat \ {0} /\ Head(ch[k]) = ch[k][1] /\ Head(ch[k]) \in Event
      BY <3>1, HeadTailFacts
    <3>3. QED
      BY <3>2, FannedNat, BoundAssumption DEF Event, IndInv, TypeOK, SubsOK
  <2>3. last[k] < n
    BY <2>1, <2>2 DEF IndInv, SubscriberInOrder
  <2>4. n <= Fanned
    <3>1. n <= Sent(k)
      BY <2>1, <2>2 DEF IndInv, ChannelNumbering
    <3>2. Sent(k) <= Fanned /\ Sent(k) \in Int
      BY <2>2 DEF Sent
    <3>3. QED
      BY <2>2, <3>1, <3>2
  <2>5. k \notin Slow => n = last[k] + 1
    BY <2>1, <2>2 DEF IndInv, SubscriberGapFree, Slow
  <2>6. n \in (last[k] + 1)..Fanned
    BY <2>2, <2>3, <2>4
  <2>7. Slow' = Slow
    BY <1>1, <2>1 DEF Slow
  <2> HIDE DEF n
  <2>8. Journal!Get(k)
    BY <1>1, <2>1, <2>5, <2>6, <2>7 DEF Journal!Get
  <2>9. QED
    BY <2>8 DEF Journal!Next
<1>4. ASSUME NEW k \in SubKeys, Cancel(k) PROVE Journal!Next
  <2>1. k \in subs /\ subs' = subs \ {k} /\ UNCHANGED last
    BY <1>4 DEF Cancel
  <2>2. Slow' = Slow \ {k}
    BY <1>1, <2>1 DEF Slow
  <2>3. Journal!Leave(k)
    BY <1>1, <2>1, <2>2 DEF Journal!Leave
  <2>4. QED
    BY <2>3 DEF Journal!Next
<1>5. QED
  BY <1>2, <1>3, <1>4 DEF Consume

\* The bus is a journal with subscribers: it persists before it offers, rewrites
\* nothing, deletes from the old end only, crashes included, and a subscriber
\* reads in order, at most once, and without a gap unless its channel filled
\* (Publish, process, fanOut, Subscribe, AppendEvent, both prunes).
THEOREM BusImplementsJournal == Spec => BusIsJournal
<1>1. BusInit => Journal!Init
  <2> SUFFICES ASSUME BusInit PROVE Journal!Init
    OBVIOUS
  <2>1. Fanned = 0 /\ Stage = "open"
    <3>1. pc = "new" /\ accepted = 0 /\ Len(publishCh) = 0
      BY DEF BusInit
    <3>2. QED
      BY <3>1 DEF Fanned, Taken, Stage
  <2>2. Slow = {} /\ nextSeq = 0 /\ subs = {} /\ last = [k \in SubKeys |-> 0]
    BY DEF BusInit, Slow
  <2>3. Numbers = << >>
    <3>1. log = << >> /\ DOMAIN log = {}
      BY DEF BusInit
    <3>2. Numbers = [s \in {} |-> log[s].n]
      BY <3>1 DEF Numbers
    <3>3. QED
      BY <3>2
  <2>4. QED
    BY <2>1, <2>2, <2>3 DEF Journal!Init
<1>2. BusInit => Sequenced
  BY DEF BusInit, Sequenced
<1>3. IndInv /\ IndInv' /\ Sequenced /\ [Next]_busVars => Sequenced'
  BY SequencedStep
<1>4. IndInv /\ Sequenced /\ [Next]_busVars => JournalStep
  <2> SUFFICES ASSUME IndInv, Sequenced, [Next]_busVars PROVE JournalStep
    OBVIOUS
  <2>1. CASE AppendEvent
    BY <2>1, JournalRecords DEF JournalStep, Journal!Next
  <2>2. CASE PruneEvents \/ PruneEventsByAge
    BY <2>2, JournalTrims DEF JournalStep, Journal!Next
  <2>3. CASE BusInternal
    BY <2>1, <2>2, <2>3, JournalQuiet
  <2>4. CASE FanOut
    BY <2>4, JournalOffers DEF JournalStep, Journal!Next
  <2>5. CASE Crash
    BY <2>5, JournalRestarts DEF JournalStep, Journal!Next
  <2>6. CASE \E k \in SubKeys : Send(k)
    BY <2>6, JournalSends
  <2>7. CASE Consume
    BY <2>7, JournalConsumes DEF JournalStep
  <2>8. CASE UNCHANGED busVars
    <3>1. Fanned' = Fanned /\ Stage' = Stage
      BY <2>8 DEF busVars, Fanned, Taken, Stage
    <3>2. QED
      BY <2>8, <3>1, JournalRests DEF busVars
  <2>9. QED
    BY <2>3, <2>4, <2>5, <2>6, <2>7, <2>8 DEF Next
<1>5. QED
  BY <1>1, <1>2, <1>3, <1>4, Inductive, PTL
     DEF Spec, BusIsJournal, Journal!Spec, JournalStep, JournalView, Journal!journalVars
=============================================================================
