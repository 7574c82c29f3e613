------------------------------ MODULE EventBus ------------------------------
(***************************************************************************)
(* The in-process event bus (internal/events/bus.go), the "events" bucket  *)
(* of the bbolt store it persists into (internal/store/bolt.go) and the    *)
(* retention goroutine that prunes that bucket (internal/events/           *)
(* retention.go), with daemon crashes and restarts.                        *)
(*                                                                         *)
(* Processes: producers (any goroutine that calls Publish), the bus        *)
(* goroutine (run/process/fanOut), subscribers, the retention goroutine,   *)
(* and whoever calls Stop.  A bbolt transaction is one atomic step; a      *)
(* non-blocking channel send is one atomic step; everything else that      *)
(* another goroutine can observe is a step of its own.                     *)
(*                                                                         *)
(* An event is [n, at, seq]: n numbers the events in the order publishCh   *)
(* accepted them (a history value the code does not keep), at is           *)
(* OccurredAt, and seq is the sequence number AppendEvent assigned, or 0   *)
(* while there is none (ID "transient-..." once process has run).          *)
(***************************************************************************)
EXTENDS Integers, Sequences, FiniteSets

CONSTANTS
  Producers,       \* goroutines that publish events
  PublishBuf,      \* capacity of publishCh (publishBufSize, 256)
  SubscriberBuf,   \* capacity of a subscriber's channel (subscriberBufSize, 64)
  MaxRecords,      \* daemon.events.max_records; 0 disables count pruning
  MaxAge,          \* daemon.events.max_age; 0 disables age pruning
  MaxPerSweep,     \* deletions per prune transaction (5000)
  MaxEvents,       \* bound: events ever accepted by publishCh
  MaxSubs,         \* bound: Subscribe calls per daemon lifetime
  MaxClock         \* bound: the wall clock

ASSUME BufferAssumption == PublishBuf \in Nat \ {0} /\ SubscriberBuf \in Nat \ {0}
ASSUME RetentionAssumption == MaxRecords \in Nat /\ MaxAge \in Nat /\ MaxPerSweep \in Nat \ {0}
ASSUME BoundAssumption == MaxEvents \in Nat /\ MaxSubs \in Nat /\ MaxClock \in Nat \ {0}

VARIABLES
  clock,      \* wall clock, starts at 1 so that 0 is time.Time's zero value
  hand,       \* hand[p]: OccurredAt of the event p built and has not published
  publishCh,  \* the bus's input channel
  accepted,   \* how many events publishCh has accepted (history)
  log,        \* the events bucket: sequence number -> event
  nextSeq,    \* the bucket's NextSequence counter, persisted by bbolt
  pc,         \* the bus goroutine's control state
  draining,   \* it has taken the stopCh branch of run's select
  stopCh,     \* stopCh is closed
  cur,        \* the event in process/fanOut
  pending,    \* the subscribers fanOut has still to send cur to
  subs,       \* registered subscriber keys (the subscribers map)
  subSeq,     \* the counter that makes subscriber keys unique
  ch,         \* ch[k]: the channel of subscriber k
  last,       \* last[k]: n of the last event k received, or had missed when it joined
  overflowed, \* overflowed[k]: fanOut found k's channel full at least once
  rpc,        \* the retention goroutine's control state
  pruned      \* its sweep has deleted something

busVars == <<clock, hand, publishCh, accepted, log, nextSeq, pc, draining, stopCh, cur,
             pending, subs, subSeq, ch, last, overflowed, rpc, pruned>>

NoEvent  == -1
ZeroTime == 0
SubKeys  == 1..MaxSubs
Event    == [n : 1..MaxEvents, at : 1..MaxClock, seq : 0..MaxEvents]
NoCur    == [n |-> 0, at |-> 0, seq |-> 0]

\* The number of the last event the bus goroutine received from publishCh.
Taken == accepted - Len(publishCh)

\* The number of the last event whose fanOut has copied the subscriber map.
Fanned == IF pc \in {"process", "snapshot"} THEN Taken - 1 ELSE Taken

-----------------------------------------------------------------------------
(* Daemon start and crash. *)

\* New, on an empty store.
BusInit ==
  /\ hand = [p \in Producers |-> NoEvent]
  /\ publishCh = << >>
  /\ pc = "new" /\ draining = FALSE /\ stopCh = FALSE
  /\ cur = NoCur /\ pending = {}
  /\ subs = {} /\ subSeq = 0
  /\ ch = [k \in SubKeys |-> << >>]
  /\ last = [k \in SubKeys |-> 0]
  /\ overflowed = [k \in SubKeys |-> FALSE]
  /\ rpc = "off" /\ pruned = FALSE
  /\ clock = 1 /\ accepted = 0 /\ nextSeq = 0
  /\ log = << >>

\* Start launches run; the daemon then starts the retention loop, which returns
\* at once when both limits are disabled and otherwise sweeps at once.
Start ==
  /\ pc = "new"
  /\ pc' = "idle"
  /\ rpc' = IF MaxRecords > 0 \/ MaxAge > 0 THEN "records" ELSE "off"
  /\ UNCHANGED <<clock, hand, publishCh, accepted, log, nextSeq, draining, stopCh, cur,
                 pending, subs, subSeq, ch, last, overflowed, pruned>>

\* The process dies, or exits after Stop, and a new one opens the same store.
Crash ==
  /\ pc # "new"
  /\ hand' = [p \in Producers |-> NoEvent]
  /\ publishCh' = << >>
  /\ pc' = "new" /\ draining' = FALSE /\ stopCh' = FALSE
  /\ cur' = NoCur /\ pending' = {}
  /\ subs' = {} /\ subSeq' = 0
  /\ ch' = [k \in SubKeys |-> << >>]
  /\ last' = [k \in SubKeys |-> 0]
  /\ overflowed' = [k \in SubKeys |-> FALSE]
  /\ rpc' = "off" /\ pruned' = FALSE
  /\ UNCHANGED <<clock, accepted, log, nextSeq>>

Tick ==
  /\ clock < MaxClock
  /\ clock' = clock + 1
  /\ UNCHANGED <<hand, publishCh, accepted, log, nextSeq, pc, draining, stopCh, cur,
                 pending, subs, subSeq, ch, last, overflowed, rpc, pruned>>

-----------------------------------------------------------------------------
(* Producers. *)

\* A non-blocking send of an event that occurred at t: dropped when the
\* channel is full.
Offer(t) ==
  IF Len(publishCh) < PublishBuf
  THEN /\ accepted < MaxEvents
       /\ accepted' = accepted + 1
       /\ publishCh' = Append(publishCh, [n |-> accepted + 1, at |-> t, seq |-> 0])
  ELSE UNCHANGED <<publishCh, accepted>>

\* NewAppEvent and NewSystemEvent stamp OccurredAt when the event is built; a
\* producer that fills in types.Event itself may leave it zero.
NewEvent(p) ==
  /\ hand[p] = NoEvent
  /\ pc # "new"
  /\ \E t \in {ZeroTime, clock} : hand' = [hand EXCEPT ![p] = t]
  /\ UNCHANGED <<clock, publishCh, accepted, log, nextSeq, pc, draining, stopCh, cur,
                 pending, subs, subSeq, ch, last, overflowed, rpc, pruned>>

Publish(p) ==
  /\ hand[p] # NoEvent
  /\ Offer(IF hand[p] = ZeroTime THEN clock ELSE hand[p])
  /\ hand' = [hand EXCEPT ![p] = NoEvent]
  /\ UNCHANGED <<clock, log, nextSeq, pc, draining, stopCh, cur,
                 pending, subs, subSeq, ch, last, overflowed, rpc, pruned>>

-----------------------------------------------------------------------------
(* The bus goroutine. *)

\* Either receive of run: the live select's or the drain loop's.
Take ==
  /\ pc = "idle" /\ publishCh # << >>
  /\ cur' = Head(publishCh)
  /\ publishCh' = Tail(publishCh)
  /\ pc' = "process"
  /\ UNCHANGED <<clock, hand, accepted, log, nextSeq, draining, stopCh,
                 pending, subs, subSeq, ch, last, overflowed, rpc, pruned>>

\* The stopCh branch of run's select; the select may prefer it to a waiting event.
BeginDrain ==
  /\ pc = "idle" /\ stopCh /\ ~draining
  /\ draining' = TRUE
  /\ UNCHANGED <<clock, hand, publishCh, accepted, log, nextSeq, pc, stopCh, cur,
                 pending, subs, subSeq, ch, last, overflowed, rpc, pruned>>

\* A defect to detect: run returns on stopCh without draining publishCh.
ExitWithoutDrain ==
  /\ pc = "idle" /\ draining
  /\ pc' = "stopped"
  /\ UNCHANGED <<clock, hand, publishCh, accepted, log, nextSeq, draining, stopCh, cur,
                 pending, subs, subSeq, ch, last, overflowed, rpc, pruned>>

\* The drain loop's default branch: run returns and closes stopped.
Exit ==
  /\ pc = "idle" /\ draining /\ publishCh = << >>
  /\ pc' = "stopped"
  /\ UNCHANGED <<clock, hand, publishCh, accepted, log, nextSeq, draining, stopCh, cur,
                 pending, subs, subSeq, ch, last, overflowed, rpc, pruned>>

\* process, persistence succeeded: one transaction takes the next sequence
\* number and writes the event under it.
AppendEvent ==
  /\ pc = "process"
  /\ nextSeq' = nextSeq + 1
  /\ cur' = [n |-> cur.n, at |-> cur.at, seq |-> nextSeq + 1]
  /\ log' = [s \in DOMAIN log \cup {nextSeq + 1} |-> IF s = nextSeq + 1 THEN cur' ELSE log[s]]
  /\ pc' = "snapshot"
  /\ UNCHANGED <<clock, hand, publishCh, accepted, draining, stopCh,
                 pending, subs, subSeq, ch, last, overflowed, rpc, pruned>>

\* A defect to detect: an event that could not be persisted is not fanned out.
AppendEventFailsDrops ==
  /\ pc = "process"
  /\ cur' = NoCur /\ pc' = "idle"
  /\ UNCHANGED <<clock, hand, publishCh, accepted, log, nextSeq, draining, stopCh,
                 pending, subs, subSeq, ch, last, overflowed, rpc, pruned>>

\* process, the transaction failed and rolled back: the event keeps no
\* sequence number and is fanned out all the same.
AppendEventFails ==
  /\ pc = "process"
  /\ pc' = "snapshot"
  /\ UNCHANGED <<clock, hand, publishCh, accepted, log, nextSeq, draining, stopCh, cur,
                 pending, subs, subSeq, ch, last, overflowed, rpc, pruned>>

\* fanOut copies the subscriber map under the read lock.
FanOut ==
  /\ pc = "snapshot"
  /\ pending' = subs
  /\ pc' = IF subs = {} THEN "idle" ELSE "fanout"
  /\ cur' = IF subs = {} THEN NoCur ELSE cur
  /\ UNCHANGED <<clock, hand, publishCh, accepted, log, nextSeq, draining, stopCh,
                 subs, subSeq, ch, last, overflowed, rpc, pruned>>

\* fanOut's non-blocking send to one subscriber, in the map's arbitrary order.
Send(k) ==
  /\ pc = "fanout" /\ k \in pending
  /\ IF Len(ch[k]) < SubscriberBuf
     THEN /\ ch' = [ch EXCEPT ![k] = Append(@, cur)]
          /\ UNCHANGED overflowed
     ELSE /\ overflowed' = [overflowed EXCEPT ![k] = TRUE]
          /\ UNCHANGED ch
  /\ pending' = pending \ {k}
  /\ pc' = IF pending' = {} THEN "idle" ELSE "fanout"
  /\ cur' = IF pending' = {} THEN NoCur ELSE cur
  /\ UNCHANGED <<clock, hand, publishCh, accepted, log, nextSeq, draining, stopCh,
                 subs, subSeq, last, rpc, pruned>>

\* Stop closes stopCh once; its caller then waits for pc = "stopped".
Stop ==
  /\ pc # "new" /\ ~stopCh
  /\ stopCh' = TRUE
  /\ UNCHANGED <<clock, hand, publishCh, accepted, log, nextSeq, pc, draining, cur,
                 pending, subs, subSeq, ch, last, overflowed, rpc, pruned>>

-----------------------------------------------------------------------------
(* Subscribers. *)

Subscribe ==
  /\ pc # "new" /\ subSeq < MaxSubs
  /\ subSeq' = subSeq + 1
  /\ subs' = subs \cup {subSeq'}
  /\ last' = [last EXCEPT ![subSeq'] = Fanned]
  /\ UNCHANGED <<clock, hand, publishCh, accepted, log, nextSeq, pc, draining, stopCh, cur,
                 pending, ch, overflowed, rpc, pruned>>

Receive(k) ==
  /\ k \in subs /\ ch[k] # << >>
  /\ ch' = [ch EXCEPT ![k] = Tail(@)]
  /\ last' = [last EXCEPT ![k] = Head(ch[k]).n]
  /\ UNCHANGED <<clock, hand, publishCh, accepted, log, nextSeq, pc, draining, stopCh, cur,
                 pending, subs, subSeq, overflowed, rpc, pruned>>

\* The cancel function: deregister, then drain the channel.  fanOut may still
\* hold k in its copy of the map and send to the abandoned channel.
Cancel(k) ==
  /\ k \in subs
  /\ subs' = subs \ {k}
  /\ ch' = [ch EXCEPT ![k] = << >>]
  /\ UNCHANGED <<clock, hand, publishCh, accepted, log, nextSeq, pc, draining, stopCh, cur,
                 pending, subSeq, last, overflowed, rpc, pruned>>

-----------------------------------------------------------------------------
(* The retention goroutine: one sweep is two transactions and a Publish. *)

\* A defect to detect: the cursor walks the bucket from its newest key.
Newest(S, k) == {s \in S : Cardinality({t \in S : t > s}) < k}

\* The k smallest members of S (the first k keys of a forward cursor walk).
Oldest(S, k) == {s \in S : Cardinality({t \in S : t < s}) < k}

\* A defect to detect: the walk skips over newer events instead of stopping.
StaleAnywhere(cutoff) == {s \in DOMAIN log : log[s].at <= cutoff}

\* The prefix of the bucket whose events all occurred no later than the cutoff:
\* the walk stops at the first event newer than it.
StalePrefix(cutoff) ==
  {s \in DOMAIN log : \A t \in DOMAIN log : t <= s => log[t].at <= cutoff}

\* The keys that PruneEvents and PruneEventsByAge delete.
ExcessKeys == Oldest(Oldest(DOMAIN log, Cardinality(DOMAIN log) - MaxRecords), MaxPerSweep)
StaleKeys  == Oldest(StalePrefix(clock - MaxAge), MaxPerSweep)

Delete(keys) ==
  /\ log' = [s \in DOMAIN log \ keys |-> log[s]]
  /\ pruned' = (pruned \/ keys # {})

PruneEvents ==
  /\ rpc = "records" /\ MaxRecords > 0
  /\ Delete(ExcessKeys)
  /\ rpc' = "age"
  /\ UNCHANGED <<clock, hand, publishCh, accepted, nextSeq, pc, draining, stopCh, cur,
                 pending, subs, subSeq, ch, last, overflowed>>

\* Count pruning is disabled, or its transaction failed.
SkipPruneEvents ==
  /\ rpc = "records"
  /\ rpc' = "age"
  /\ UNCHANGED <<clock, hand, publishCh, accepted, log, nextSeq, pc, draining, stopCh, cur,
                 pending, subs, subSeq, ch, last, overflowed, pruned>>

PruneEventsByAge ==
  /\ rpc = "age" /\ MaxAge > 0
  /\ Delete(StaleKeys)
  /\ rpc' = "report"
  /\ UNCHANGED <<clock, hand, publishCh, accepted, nextSeq, pc, draining, stopCh, cur,
                 pending, subs, subSeq, ch, last, overflowed>>

SkipPruneEventsByAge ==
  /\ rpc = "age"
  /\ rpc' = "report"
  /\ UNCHANGED <<clock, hand, publishCh, accepted, log, nextSeq, pc, draining, stopCh, cur,
                 pending, subs, subSeq, ch, last, overflowed, pruned>>

\* The end of sweep: publish events.retention_pruned if anything was deleted.
ReportSweep ==
  /\ rpc = "report"
  /\ IF pruned THEN Offer(clock) ELSE UNCHANGED <<publishCh, accepted>>
  /\ rpc' = "sleep" /\ pruned' = FALSE
  /\ UNCHANGED <<clock, hand, log, nextSeq, pc, draining, stopCh, cur,
                 pending, subs, subSeq, ch, last, overflowed>>

\* The ticker fires.
BeginSweep ==
  /\ rpc = "sleep"
  /\ rpc' = "records"
  /\ UNCHANGED <<clock, hand, publishCh, accepted, log, nextSeq, pc, draining, stopCh, cur,
                 pending, subs, subSeq, ch, last, overflowed, pruned>>

-----------------------------------------------------------------------------
(* The specification. *)

BusStep == Take \/ BeginDrain \/ Exit \/ AppendEvent \/ AppendEventFails \/ FanOut
             \/ \E k \in SubKeys : Send(k)

Sweep == PruneEvents \/ SkipPruneEvents \/ PruneEventsByAge \/ SkipPruneEventsByAge
             \/ ReportSweep \/ BeginSweep

\* The steps that no subscriber, present or absent, can notice.
BusInternal ==
  \/ Start \/ Tick \/ Stop
  \/ \E p \in Producers : NewEvent(p) \/ Publish(p)
  \/ Take \/ BeginDrain \/ Exit \/ AppendEvent \/ AppendEventFails
  \/ Sweep

Consume == Subscribe \/ \E k \in SubKeys : Receive(k) \/ Cancel(k)

Next == BusInternal \/ Crash \/ FanOut \/ (\E k \in SubKeys : Send(k)) \/ Consume

Spec == BusInit /\ [][Next]_busVars

\* The Go scheduler runs a runnable goroutine eventually: the bus goroutine
\* and the retention goroutine are never starved.  Crashes, producers,
\* subscribers and Stop are under no obligation.
Fairness == WF_busVars(BusStep) /\ WF_busVars(Sweep)

FairSpec == Spec /\ Fairness

-----------------------------------------------------------------------------
(* Properties. *)

\* Every variable has its type, no buffer exceeds its capacity, and every
\* sequence number on disk was handed out by the bucket's counter.
ProducersOK == clock \in 1..MaxClock /\ hand \in [Producers -> {NoEvent} \cup 0..MaxClock]
PublishOK   == publishCh \in Seq(Event) /\ Len(publishCh) <= PublishBuf /\ accepted \in 0..MaxEvents
LogOK       == /\ nextSeq \in 0..MaxEvents
               /\ DOMAIN log \subseteq 1..nextSeq
               /\ \A s \in DOMAIN log : log[s] \in Event
BusOK       == /\ pc \in {"new", "idle", "process", "snapshot", "fanout", "stopped"}
               /\ draining \in BOOLEAN /\ stopCh \in BOOLEAN
               /\ cur \in Event \cup {NoCur}
SubsOK      == /\ pending \subseteq SubKeys /\ subs \subseteq SubKeys /\ subSeq \in 0..MaxSubs
               /\ last \in [SubKeys -> 0..MaxEvents] /\ overflowed \in [SubKeys -> BOOLEAN]
ChannelsOK  == /\ ch \in [SubKeys -> Seq(Event)]
               /\ \A k \in SubKeys : Len(ch[k]) <= SubscriberBuf
RetentionOK == rpc \in {"off", "records", "age", "report", "sleep"} /\ pruned \in BOOLEAN
TypeOK      == /\ ProducersOK /\ PublishOK /\ LogOK /\ BusOK /\ SubsOK /\ ChannelsOK
               /\ RetentionOK

\* The events bucket is always a contiguous run of sequence numbers that ends
\* at the last one assigned: a failed AppendEvent burns no number, and neither
\* prune transaction deletes around a survivor.  ListEventsAfterSeq and the SSE
\* replay rely on it (a gap would be indistinguishable from lost events).
LogContiguous ==
  \A s \in DOMAIN log : s..nextSeq \subseteq DOMAIN log

\* Sequence order is publication order: a larger sequence number in the bucket
\* is an event publishCh accepted later, across prunes, persistence failures
\* and daemon restarts.
LogInOrder ==
  \A s, t \in DOMAIN log : s < t => log[s].n < log[t].n

\* What the replay of the stream relies on: no gap, and no event out of place.
LogSound == LogContiguous /\ LogInOrder

\* What a subscriber has received and what waits in its channel is in
\* publication order without a repeat, whatever it lost to a full channel.
SubscriberInOrder ==
  \A k \in subs :
    /\ \A i \in 1..Len(ch[k]) : last[k] < ch[k][i].n
    /\ \A i, j \in 1..Len(ch[k]) : i < j => ch[k][i].n < ch[k][j].n

\* A subscriber that never let its channel fill has received, or has waiting,
\* every event fanned out since it joined, persisted or not, up to the one
\* fanOut is about to send it.
SubscriberGapFree ==
  \A k \in subs : ~overflowed[k] =>
    /\ last[k] + Len(ch[k]) = Fanned - (IF k \in pending THEN 1 ELSE 0)
    /\ \A i \in 1..Len(ch[k]) : ch[k][i].n = last[k] + i

\* What the bus promises, as EventJournal states it: every event is persisted
\* before any subscriber can see it, or never; nothing in the bucket is
\* rewritten or deleted out of order, crashes included; a subscriber reads
\* events in order, at most once, and all of them unless its channel filled.
Stage == IF pc = "snapshot" /\ cur.seq # 0 THEN "recorded" ELSE "open"
Slow == {k \in subs : overflowed[k]}
Numbers == [s \in DOMAIN log |-> log[s].n]
Journal == INSTANCE EventJournal WITH
  Readers <- SubKeys, sent <- Fanned, stage <- Stage, top <- nextSeq, kept <- Numbers,
  members <- subs, pos <- last, lossy <- Slow
BusIsJournal == Journal!Spec

\* Stop's caller is not left waiting: once stopCh is closed the bus goroutine
\* exits (or the process dies), even with sends to slow subscribers pending.
StopReturns == stopCh ~> (pc = "stopped" \/ pc = "new")

\* An event that Publish got into the channel before Stop is not lost by Stop:
\* the bus goroutine takes it and fans it out, in the live loop or in the drain
\* loop, whichever its select enters, unless the process dies.
AcceptedIsFanned ==
  \A n \in 1..MaxEvents : (accepted >= n /\ ~stopCh) ~> (Fanned >= n \/ pc = "new")

\* The bus goroutine makes progress in both directions: it ends when told to,
\* and only after everything accepted before has gone out (run, process,
\* fanOut, Stop).
BusProgresses == StopReturns /\ AcceptedIsFanned

=============================================================================
