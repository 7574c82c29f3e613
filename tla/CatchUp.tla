------------------------------ MODULE CatchUp ------------------------------
(***************************************************************************)
(* Which instants of a schedule are fired across daemon restarts: the cron *)
(* entry, the persisted last_tick cursor, and the replay of missed fires   *)
(* (internal/scheduler/engine.go Start, tickLoop, runCatchUp; catchup.go   *)
(* missedFires).  One enabled schedule with max_concurrent 1 and one       *)
(* worker; what a fire does is the subject of Scheduler, here it only      *)
(* begins and ends.                                                        *)
(*                                                                         *)
(* The catch-up goroutine reads the clock when it first runs, some time    *)
(* after Start armed the crons and advanced the cursor: each is a step.    *)
(* The cron library is external: an entry remembers its next instant and,  *)
(* when its timer goes off, starts the job once and moves on to the first  *)
(* instant after the present.  A spec that names no instant at all, such   *)
(* as "0 0 0 30 2 *", makes cron's Next return time.Time's zero value: its *)
(* entry never goes off, and missedFires takes the zero value for a missed *)
(* instant.                                                                *)
(***************************************************************************)
EXTENDS Integers, Sequences, FiniteSets, Functions

CONSTANTS
  Due,          \* the instants a cron spec names
  MaxCatchUp,   \* max_catch_up; 0 means no cap
  QueueSize,    \* queue_size
  MaxClock,     \* bound: the wall clock
  MaxCrashes    \* bound: daemon exits

ASSUME ClockAssumption == MaxClock \in Nat \ {0} /\ Due \subseteq 1..MaxClock
ASSUME CatchUpAssumption == MaxCatchUp \in Nat /\ QueueSize \in Nat \ {0} /\ MaxCrashes \in Nat

VARIABLES
  clock,      \* wall clock, starts at 1
  policy,     \* catch_up_policy
  sched,      \* the parsed cron spec, as the set of the instants it names
  lastTick,   \* the persisted cursor; 0 when absent (time.Time's zero value)
  up,         \* the engine: "down", Start's control state, "running", "stopping"
  armed,      \* the cron entry's Next; Never without an entry
  prevTick,   \* Start's copy of the cursor
  kpc,        \* the catch-up goroutine
  replay,     \* the missed instants it has still to fire
  queue,      \* the job channel
  wpc,        \* the worker goroutine
  fired,      \* fired[d]: how many fires began for instant d (history)
  settled,    \* <<why, d>>: instants passed over, and why (history)
  crashes     \* daemon exits so far

cursorVars == <<clock, policy, sched, lastTick>>
engineVars == <<up, armed, prevTick, kpc, replay, queue, wpc, crashes>>
vars == <<cursorVars, engineVars, fired, settled>>

Never == MaxClock + 1

\* time.Time's zero value, as an instant.
ZeroTime == 0

\* cron.Schedule.Next: the first instant after t; the zero value when the search
\* of five years finds none.
NextInstant(S, t) ==
  LET later == {d \in S : d > t}
  IN IF S = {} THEN ZeroTime
     ELSE IF later = {} THEN Never
     ELSE CHOOSE d \in later : \A e \in later : d <= e

\* The loop of missedFires from the instant t on, when n instants are taken already:
\* up to now, until max are taken or the schedule does not advance.
Walk(S, now, max) ==
  LET walk[t \in 0..Never] == [n \in Nat |->
        IF t > now THEN << >>
        ELSE IF (max > 0 /\ n + 1 >= max) \/ NextInstant(S, t) <= t THEN <<t>>
        ELSE <<t>> \o walk[NextInstant(S, t)][n + 1]]
  IN walk

\* A defect to detect: the instant at now is left out.
MissedFiresBeforeNow(S, last, now, max) ==
  IF last = 0 \/ last >= now THEN << >> ELSE Walk(S, now - 1, max)[NextInstant(S, last)][0]

\* A defect to detect: the walk starts at the cursor itself.
MissedFiresFromCursor(S, last, now, max) ==
  IF last = 0 \/ last >= now THEN << >> ELSE Walk(S, now, max)[NextInstant(S, last - 1)][0]

\* missedFires: walk the schedule from lastTick.
MissedFires(S, last, now, max) ==
  IF last = 0 \/ last >= now THEN << >> ELSE Walk(S, now, max)[NextInstant(S, last)][0]

Settle(why, instants) == settled' = settled \cup ({why} \X instants)

Init ==
  /\ clock = 1 /\ lastTick = 0 /\ policy \in {"skip", "run_once", "run_all"}
  /\ sched \in {Due, {}}
  /\ up = "down" /\ armed = Never /\ prevTick = 0 /\ crashes = 0
  /\ kpc = "off" /\ replay = << >> /\ queue = << >> /\ wpc = "off"
  /\ fired = [d \in Due \cup {ZeroTime} |-> 0] /\ settled = {}

Tick ==
  /\ clock < MaxClock /\ clock' = clock + 1
  /\ UNCHANGED <<policy, sched, lastTick, engineVars, fired, settled>>

-----------------------------------------------------------------------------
(* Start. *)

\* Register: the cron of the schedule's timezone starts at once.  Without a cursor
\* the instants up to now are nobody's to replay.
StartRegister ==
  /\ up = "down"
  /\ up' = "registered" /\ armed' = NextInstant(sched, clock)
  /\ IF lastTick = 0 THEN Settle("fresh", {d \in sched : d <= clock}) ELSE UNCHANGED settled
  /\ UNCHANGED <<cursorVars, prevTick, kpc, replay, queue, wpc, crashes, fired>>

\* A defect to detect: the cursor is read after it was advanced.
StartReadAdvancedCursor ==
  /\ up = "registered"
  /\ up' = "read" /\ prevTick' = clock /\ wpc' = "idle"
  /\ UNCHANGED <<cursorVars, armed, kpc, replay, queue, crashes, fired, settled>>

\* Read the cursor, then spawn the worker.
StartReadCursor ==
  /\ up = "registered"
  /\ up' = "read" /\ prevTick' = lastTick /\ wpc' = "idle"
  /\ UNCHANGED <<cursorVars, armed, kpc, replay, queue, crashes, fired, settled>>

\* SetLastTick, whose error is ignored, then spawn tickLoop and catch-up.
StartAdvanceCursor ==
  /\ up = "read"
  /\ lastTick' \in {lastTick, clock}
  /\ up' = "running" /\ kpc' = "begin"
  /\ UNCHANGED <<clock, policy, sched, armed, prevTick, replay, queue, wpc, crashes, fired, settled>>

\* tickLoop's ticker goes off.
AdvanceCursor ==
  /\ up = "running" /\ lastTick' = clock /\ lastTick # clock
  /\ UNCHANGED <<clock, policy, sched, engineVars, fired, settled>>

-----------------------------------------------------------------------------
(* Cron and the worker. *)

\* A defect to detect: a full queue drops the job without a queue_full record.
CronFiresDropsSilently ==
  /\ up \notin {"down", "stopping"} /\ armed \in 1..clock
  /\ armed' = NextInstant(sched, clock)
  /\ queue' = IF Len(queue) < QueueSize THEN Append(queue, armed) ELSE queue
  /\ Settle("late", {d \in sched : armed < d /\ d <= clock})
  /\ UNCHANGED <<cursorVars, up, prevTick, kpc, replay, wpc, crashes, fired>>

\* The timer goes off, perhaps late, but never for the zero time: one job, for the instant it was set for; the
\* instants that passed meanwhile are merged into it.
CronFires ==
  /\ up \notin {"down", "stopping"} /\ armed \in 1..clock
  /\ armed' = NextInstant(sched, clock)
  /\ LET late == {d \in sched : armed < d /\ d <= clock} IN
     \/ /\ Len(queue) < QueueSize
        /\ queue' = Append(queue, armed)
        /\ Settle("late", late)
     \/ /\ Len(queue) >= QueueSize
        /\ settled' = settled \cup ({"late"} \X late) \cup {<<"queue_full", armed>>}
        /\ UNCHANGED queue
  /\ UNCHANGED <<cursorVars, up, prevTick, kpc, replay, wpc, crashes, fired>>

Begin(d) == fired' = [fired EXCEPT ![d] = @ + 1]

\* The worker takes a job; fire runs it, or records concurrent_run if the
\* catch-up goroutine holds the schedule's one slot.
WorkerFires ==
  /\ wpc = "idle" /\ queue # << >>
  /\ queue' = Tail(queue)
  /\ \/ kpc # "firing" /\ Begin(Head(queue)) /\ wpc' = "firing" /\ UNCHANGED settled
     \/ kpc = "firing" /\ Settle("concurrent_run", {Head(queue)}) /\ UNCHANGED <<fired, wpc>>
  /\ UNCHANGED <<cursorVars, up, armed, prevTick, kpc, replay, crashes>>

WorkerFinishes ==
  /\ wpc = "firing" /\ wpc' = "idle"
  /\ UNCHANGED <<cursorVars, up, armed, prevTick, kpc, replay, queue, crashes, fired, settled>>

-----------------------------------------------------------------------------
(* The catch-up goroutine. *)

\* The instants a policy replays out of those missed.
Selected(missed) ==
  CASE policy = "run_all" -> missed
    [] policy = "run_once" /\ missed # << >> -> <<missed[Len(missed)]>>
    [] OTHER -> << >>

\* The instants since the cursor Start read, once there was one.
Window == {d \in sched : prevTick # 0 /\ prevTick < d /\ d <= clock}

\* runCatchUp reads the clock and lists what it will replay.
CatchUpBegins ==
  /\ kpc = "begin"
  /\ kpc' = "replay"
  /\ replay' = Selected(MissedFires(sched, prevTick, clock, MaxCatchUp))
  /\ Settle("policy", Window \ Range(replay'))
  /\ UNCHANGED <<cursorVars, up, armed, prevTick, queue, wpc, crashes, fired>>

CatchUpFires ==
  /\ kpc = "replay" /\ replay # << >>
  /\ replay' = Tail(replay)
  /\ \/ wpc # "firing" /\ Begin(Head(replay)) /\ kpc' = "firing" /\ UNCHANGED settled
     \/ wpc = "firing" /\ Settle("concurrent_run", {Head(replay)}) /\ UNCHANGED <<fired, kpc>>
  /\ UNCHANGED <<cursorVars, up, armed, prevTick, queue, wpc, crashes>>

CatchUpFinishesFire ==
  /\ kpc = "firing" /\ kpc' = "replay"
  /\ UNCHANGED <<cursorVars, up, armed, prevTick, replay, queue, wpc, crashes, fired, settled>>

CatchUpDone ==
  /\ kpc = "replay" /\ replay = << >> /\ kpc' = "done"
  /\ UNCHANGED <<cursorVars, up, armed, prevTick, replay, queue, wpc, crashes, fired, settled>>

-----------------------------------------------------------------------------
(* Stop and crash. *)

\* Instants whose dispatch is pending: the timer's and the queue's, the replay's,
\* and those catch-up would have decided not to replay.
PendingCron   == {d \in sched : armed <= d /\ d <= clock} \cup Range(queue)
PendingReplay == IF kpc = "begin" THEN Range(Selected(MissedFires(sched, prevTick, clock, MaxCatchUp)))
                 ELSE Range(replay)
PendingDrop   == IF kpc = "begin" THEN Window \ PendingReplay ELSE {}

\* Of those, the ones no later catch-up will look at, since the cursor has passed
\* them, are lost when the process dies.
Passed(instants) == {d \in instants : d <= lastTick}

GoDown ==
  /\ up' = "down" /\ armed' = Never /\ prevTick' = 0 /\ crashes' = crashes + 1
  /\ kpc' = "off" /\ replay' = << >> /\ queue' = << >> /\ wpc' = "off"
  /\ UNCHANGED <<cursorVars, fired>>

Crash ==
  /\ up # "down" /\ crashes < MaxCrashes
  /\ GoDown
  /\ settled' = settled \cup ({"crash"} \X Passed(PendingCron))
                        \cup ({"replay"} \X Passed(PendingReplay))
                        \cup ({"policy"} \X Passed(PendingDrop))

\* Stop halts the crons and closes the queue; the worker drains it.  The cursor is
\* not written.
Stop ==
  /\ up = "running"
  /\ up' = "stopping" /\ armed' = Never
  /\ Settle("crash", Passed({d \in sched : armed <= d /\ d <= clock}))
  /\ UNCHANGED <<cursorVars, prevTick, kpc, replay, queue, wpc, crashes, fired>>

StopReturns ==
  /\ up = "stopping" /\ kpc = "done" /\ queue = << >> /\ wpc = "idle" /\ crashes < MaxCrashes
  /\ GoDown
  /\ UNCHANGED settled

-----------------------------------------------------------------------------
(* The specification. *)

Engine ==
  \/ StartReadCursor \/ StartAdvanceCursor
  \/ CronFires \/ WorkerFires \/ WorkerFinishes
  \/ CatchUpBegins \/ CatchUpFires \/ CatchUpFinishesFire \/ CatchUpDone

Next == Tick \/ StartRegister \/ AdvanceCursor \/ Engine \/ Crash \/ Stop \/ StopReturns

Spec == Init /\ [][Next]_vars

\* Each goroutine of a running engine keeps running and each fire ends.
Fairness ==
  /\ WF_vars(StartReadCursor \/ StartAdvanceCursor)
  /\ WF_vars(CronFires)
  /\ WF_vars(WorkerFires \/ WorkerFinishes)
  /\ WF_vars(CatchUpBegins \/ CatchUpFires \/ CatchUpFinishesFire \/ CatchUpDone)

FairSpec == Spec /\ Fairness

-----------------------------------------------------------------------------
(* Properties. *)

\* Every variable has its type; the queue stays within its capacity.
TypeOK ==
  /\ clock \in 1..MaxClock /\ lastTick \in 0..clock /\ prevTick \in 0..clock
  /\ policy \in {"skip", "run_once", "run_all"} /\ sched \in {Due, {}}
  /\ up \in {"down", "registered", "read", "running", "stopping"}
  /\ armed \in Due \cup {ZeroTime, Never} /\ crashes \in 0..MaxCrashes
  /\ kpc \in {"off", "begin", "replay", "firing", "done"} /\ wpc \in {"off", "idle", "firing"}
  /\ replay \in Seq(Due \cup {ZeroTime}) /\ queue \in Seq(Due) /\ Len(queue) <= QueueSize
  /\ fired \in [Due \cup {ZeroTime} -> Nat]
  /\ settled \subseteq {"fresh", "late", "queue_full", "concurrent_run", "policy", "crash", "replay"}
                         \X (Due \cup {ZeroTime})

\* Of a spec that names instants: those strictly after the cursor and at or before
\* now, in chronological order, the EARLIEST max of them when there are more;
\* run_all replays exactly those, and run_once one of them.
ReplaysTheMissed ==
  LET cut == {d \in Window : MaxCatchUp = 0 \/ Cardinality({e \in Window : e <= d}) <= MaxCatchUp}
  IN /\ policy = "run_all" => Range(replay') = cut /\ Len(replay') = Cardinality(cut)
     /\ policy = "run_once" => /\ Len(replay') = (IF Window = {} THEN 0 ELSE 1)
                               /\ Range(replay') \subseteq cut
     /\ \A i, j \in 1..Len(replay') : i < j => replay'[i] < replay'[j]

\* Of a spec that names none: the zero time, once, at every start that finds a
\* cursor in the past, though nothing was missed.
ReplaysTheZeroTime ==
  replay' = IF policy # "skip" /\ prevTick # 0 /\ prevTick < clock THEN <<ZeroTime>> ELSE << >>

\* What the replay fires (missedFires, runCatchUp), for either kind of spec.
MissedFiresExact ==
  [][CatchUpBegins => IF sched # {} THEN ReplaysTheMissed ELSE ReplaysTheZeroTime]_vars

Fired(d)   == fired[d] > 0
Settled(d) == \E x \in settled : x[2] = d

\* No instant is lost silently.  Whenever the engine has nothing pending, every
\* instant up to now has been fired or was passed over for a reason: it came
\* before the first start, the policy or the cap dropped it, a skip record was
\* written, a late timer merged it, or a crash lost what the cursor had passed.
\* (The types go with it.)
NoSilentLoss ==
  /\ TypeOK
  /\ (up = "running" /\ kpc = "done" /\ queue = << >> /\ wpc = "idle" /\ armed \notin 1..clock)
       => \A d \in sched : d <= clock => Fired(d) \/ Settled(d)

\* An instant that has come is settled or fired in the end while the engine keeps
\* running: the timer, the queue and the replay all make progress.
DueIsDispatched ==
  \A d \in Due : (d \in sched /\ up = "running" /\ clock >= d) ~> (Fired(d) \/ Settled(d) \/ up # "running")

\* The cursor protects against repeats: an instant at or before the cursor that
\* Start read is never fired again, neither by the replay nor by a cron entry
\* that starts late.  The zero time, which no cursor covers, is not an instant of
\* the schedule and repeats at every start.  (What was fired after the last cursor write is repeated:
\* tickLoop writes it once per interval and Stop not at all.)
CursorStopsRepeats ==
  [][\A d \in Due : fired[d] > 0 /\ fired'[d] > fired[d] => prevTick < d]_vars

=============================================================================
