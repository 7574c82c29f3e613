----------------------------- MODULE Scheduler -----------------------------
(***************************************************************************)
(* The scheduler engine (internal/scheduler/engine.go) and the REST        *)
(* handlers that reconfigure it while it runs (internal/api/               *)
(* handlers_schedule.go), over the schedules bucket of the store.          *)
(*                                                                         *)
(* Threads that execute fires: the worker pool, run-now requests, and the  *)
(* catch-up goroutine, all calling fire.  Handlers create, patch and       *)
(* delete schedules.  Cron timers enqueue jobs.  Every store call is one   *)
(* transaction and one step; what a critical section of Engine.mu does is  *)
(* one step.                                                               *)
(*                                                                         *)
(* A semaphore is an object: Register makes a new one, and a fire keeps a  *)
(* reference to the one it acquired.  A stored schedule is abstracted to   *)
(* the version of its configuration, max_concurrent, enabled and           *)
(* last_result.  The times a fire carries and the catch-up cursor are the  *)
(* subject of CatchUp.                                                     *)
(***************************************************************************)
EXTENDS Integers, Sequences, FiniteSets

CONSTANTS
  Schedules,    \* schedule IDs
  NoSchedule,   \* no ID, in the locals of an idle thread or handler
  Workers,      \* worker goroutines (worker_pool_size)
  Callers,      \* run-now requests in flight
  Catchers,     \* the catch-up goroutine: at most one
  Handlers,     \* create/patch/delete requests in flight
  QueueSize,    \* queue_size
  MaxRetries,   \* max_retries
  MaxTargets,   \* bound: VMs a fire resolves to
  MaxMissed,    \* bound: missed fires per schedule (max_catch_up)
  ConcValues,   \* bound: values of max_concurrent in requests
  MaxVer,       \* bound: PATCH requests
  MaxSems,      \* bound: semaphore objects ever made
  MaxFires      \* bound: cron fires and run-now requests

ASSUME SizeAssumption ==
  /\ QueueSize \in Nat \ {0} /\ MaxRetries \in Nat
  /\ ConcValues \subseteq Nat /\ ConcValues # {} /\ NoSchedule \notin Schedules
\* withDefaults makes at least one worker; every thread is a goroutine of its own.
ASSUME ThreadAssumption ==
  /\ IsFiniteSet(Schedules) /\ IsFiniteSet(Workers \cup Callers \cup Catchers)
  /\ Workers # {} /\ \A x, y \in Catchers : x = y
  /\ Workers \cap Callers = {} /\ Workers \cap Catchers = {} /\ Callers \cap Catchers = {}
ASSUME SchedulerBounds ==
  /\ MaxTargets \in Nat /\ MaxMissed \in Nat /\ MaxVer \in Nat
  /\ MaxSems \in Nat /\ MaxFires \in Nat

VARIABLES
  stored, rec,        \* the schedules bucket: IDs present, and their records
  runs,               \* schedules that have run records
  fresh,              \* IDs not created yet
  intended,           \* intended[s]: what the writes so far amount to (history) ...
  overlapped,         \* ... unless one was written back over another (history)
  entries,            \* schedules with a cron entry
  sems,               \* sems[s]: the current semaphore of s, 0 if none
  semCap, semTok,     \* capacity and tokens of each semaphore object ...
  nsems,              \* ... and how many exist
  jobs,               \* Engine.jobs refers to the channel ("set") or is "nil"
  queue, closed,      \* the job channel: its contents, and whether it is closed
  spawned,            \* cron goroutines that have not reached enqueue yet
  fires, nver,        \* cron fires and run-nows, and PATCHes, so far
  tpc, loc,           \* control state and fire's locals, per thread
  missed,             \* missed[s]: fires of s still to replay
  hpc, hloc,          \* control state and locals, per handler
  spc                 \* control state of the engine's owner: Start, Stop

historyVars == <<intended, overlapped>>
storeVars   == <<stored, rec, runs, fresh, historyVars>>
semVars     == <<sems, semCap, semTok, nsems>>
queueVars   == <<jobs, queue, closed, spawned>>
threadVars  == <<tpc, loc, missed, fires>>
handlerVars == <<hpc, hloc, nver>>
vars == <<storeVars, semVars, entries, queueVars, threadVars, handlerVars, spc>>

Threads == Workers \cup Callers \cup Catchers
Results == {"none", "success", "partial", "error", "no_targets", "vm_not_found"}
Statuses == {"success", "skipped", "error"}
Record  == [ver : 0..MaxVer, conc : ConcValues, on : BOOLEAN, last : Results]
NoCopy  == [ver |-> 0, conc |-> CHOOSE c \in ConcValues : TRUE, on |-> FALSE, last |-> "none"]
AnyID   == Schedules \cup {NoSchedule}

\* What fire and a handler keep on their stacks.
Locals   == [sched : AnyID, sem : 0..MaxSems, copy : Record, left : 0..MaxTargets,
             tries : 0..MaxRetries, seen : SUBSET Statuses, result : Results]
NoLocals == [sched |-> NoSchedule, sem |-> 0, copy |-> NoCopy, left |-> 0,
             tries |-> 0, seen |-> {}, result |-> "none"]
NoRequest == [sched |-> NoSchedule, copy |-> NoCopy]

\* Register's default for max_concurrent <= 0.
Capacity(conc) == IF conc <= 0 THEN 1 ELSE conc

\* The record of s, as a set: empty when there is none.
StoredRecord(s) == IF s \in stored THEN {rec[s]} ELSE {}

\* Who has read the record of s and not written it back yet.
FiresOpen(s)   == {t \in Threads : tpc[t] = "finalput" /\ loc[t].sched = s}
PatchesOpen(s) == {h \in Handlers : hpc[h] = "put" /\ hloc[h].sched = s}

\* History: a write to s that is to turn what was intended into `meant`.
\* Once a write went over one that it had not seen, s is not judged any more.
Writes(s, alone, meant) ==
  IF s \notin overlapped /\ alone
  THEN UNCHANGED overlapped /\ intended' = [intended EXCEPT ![s] = meant]
  ELSE overlapped' = overlapped \cup {s} /\ intended' = [intended EXCEPT ![s] = {}]

\* AppendRun for s, whose error every caller ignores.
AppendRun(s) == runs' \in {runs, runs \cup {s}}

-----------------------------------------------------------------------------
(* Start: one step, since the API server is not listening yet. *)

\* The daemon opens a store that holds any set of schedules.
Init ==
  /\ stored \in SUBSET Schedules
  /\ rec \in [Schedules -> [ver : {0}, conc : ConcValues, on : BOOLEAN, last : {"none"}]]
  /\ \A s \in Schedules \ stored : rec[s] = NoCopy
  /\ runs = {} /\ fresh = Schedules \ stored
  /\ intended = [s \in Schedules |-> StoredRecord(s)] /\ overlapped = {}
  /\ entries = {} /\ sems = [s \in Schedules |-> 0]
  /\ semCap = [i \in 1..MaxSems |-> 0] /\ semTok = [i \in 1..MaxSems |-> 0] /\ nsems = 0
  /\ jobs = "nil" /\ queue = << >> /\ closed = FALSE
  /\ spawned = [s \in Schedules |-> 0] /\ fires = 0 /\ nver = 0
  /\ tpc = [t \in Threads |-> "none"] /\ loc = [t \in Threads |-> NoLocals]
  /\ missed = [s \in Schedules |-> 0]
  /\ hpc = [h \in Handlers |-> "idle"] /\ hloc = [h \in Handlers |-> NoRequest]
  /\ spc = "new"

\* Register every stored schedule, in the order of ListSchedules, make the job
\* channel, spawn the workers and the catch-up goroutine, start the crons.
Start ==
  /\ spc = "new" /\ spc' = "running"
  /\ Cardinality(stored) <= MaxSems /\ nsems' = Cardinality(stored)
  /\ \E order \in [stored -> 1..Cardinality(stored)] :
       /\ \A s, t \in stored : s # t => order[s] # order[t]
       /\ sems' = [s \in Schedules |-> IF s \in stored THEN order[s] ELSE 0]
       /\ semCap' = [i \in 1..MaxSems |->
            IF \E s \in stored : order[s] = i
            THEN Capacity(rec[CHOOSE s \in stored : order[s] = i].conc) ELSE 0]
  /\ entries' = {s \in stored : rec[s].on}
  /\ jobs' = "set"
  /\ tpc' = [t \in Threads |-> IF t \in Workers THEN "born"
                               ELSE IF t \in Catchers THEN "catchup" ELSE "idle"]
  /\ missed' \in [Schedules -> 0..MaxMissed]
  /\ \A s \in Schedules : (s \notin entries' \/ Catchers = {}) => missed'[s] = 0
  /\ UNCHANGED <<storeVars, semTok, queue, closed, spawned, fires, loc, handlerVars>>

-----------------------------------------------------------------------------
(* Registration, under Engine.mu. *)

\* Register s with record r: drop the cron entry, always make a new semaphore,
\* schedule it again if enabled.
Register(s, r) ==
  /\ nsems < MaxSems /\ nsems' = nsems + 1
  /\ sems' = [sems EXCEPT ![s] = nsems + 1]
  /\ semCap' = [semCap EXCEPT ![nsems + 1] = Capacity(r.conc)]
  /\ entries' = IF r.on THEN entries \cup {s} ELSE entries \ {s}
  /\ UNCHANGED semTok

\* A defect to detect: the semaphore is dropped and the cron entry is not.
UnregisterKeepsEntry(s) ==
  /\ sems' = [sems EXCEPT ![s] = 0]
  /\ UNCHANGED <<entries, semCap, semTok, nsems>>

Unregister(s) ==
  /\ entries' = entries \ {s}
  /\ sems' = [sems EXCEPT ![s] = 0]
  /\ UNCHANGED <<semCap, semTok, nsems>>

-----------------------------------------------------------------------------
(* Cron timers and the job queue. *)

\* A cron instance starts the schedule's FuncJob in a goroutine of its own.
CronFire(s) ==
  /\ spc = "running" /\ s \in entries /\ fires < MaxFires
  /\ fires' = fires + 1
  /\ spawned' = [spawned EXCEPT ![s] = @ + 1]
  /\ UNCHANGED <<storeVars, semVars, entries, jobs, queue, closed, tpc, loc, missed, handlerVars, spc>>

\* enqueue: nothing once jobs is nil, a queue_full run record when the channel is
\* full.
Enqueue(s) ==
  /\ spawned[s] > 0
  /\ spawned' = [spawned EXCEPT ![s] = @ - 1]
  /\ \/ jobs = "nil" /\ UNCHANGED <<queue, runs>>
     \/ jobs = "set" /\ Len(queue) < QueueSize /\ queue' = Append(queue, s) /\ UNCHANGED runs
     \/ jobs = "set" /\ Len(queue) >= QueueSize /\ AppendRun(s) /\ UNCHANGED queue
  /\ UNCHANGED <<stored, rec, fresh, historyVars, semVars, entries, jobs, closed, threadVars, handlerVars, spc>>

-----------------------------------------------------------------------------
(* Threads: how a fire begins and ends. *)

Enter(t, s) ==
  /\ tpc' = [tpc EXCEPT ![t] = "load"]
  /\ loc' = [loc EXCEPT ![t] = [NoLocals EXCEPT !.sched = s]]

\* fire returns, to the catch-up loop or to the worker's or request's own code.
Leave(t) ==
  /\ tpc' = [tpc EXCEPT ![t] = IF t \in Catchers THEN "catchup" ELSE "idle"]
  /\ loc' = [loc EXCEPT ![t] = NoLocals]

\* The worker goroutine runs for the first time: range evaluates e.jobs, without
\* the lock.  A nil channel blocks it for ever.
WorkerStart(w) ==
  /\ tpc[w] = "born"
  /\ tpc' = [tpc EXCEPT ![w] = IF jobs = "set" THEN "idle" ELSE "stuck"]
  /\ UNCHANGED <<storeVars, semVars, entries, queueVars, loc, missed, fires, handlerVars, spc>>

WorkerTake(w) ==
  /\ tpc[w] = "idle" /\ queue # << >>
  /\ Enter(w, Head(queue))
  /\ queue' = Tail(queue)
  /\ UNCHANGED <<storeVars, semVars, entries, jobs, closed, spawned, missed, fires, handlerVars, spc>>

\* A defect to detect: a worker leaves as soon as the channel is closed.
WorkerExitEarly(w) ==
  /\ tpc[w] = "idle" /\ closed
  /\ tpc' = [tpc EXCEPT ![w] = "exited"]
  /\ UNCHANGED <<storeVars, semVars, entries, queueVars, loc, missed, fires, handlerVars, spc>>

\* range ends when the channel is closed and drained.
WorkerExit(w) ==
  /\ tpc[w] = "idle" /\ queue = << >> /\ closed
  /\ tpc' = [tpc EXCEPT ![w] = "exited"]
  /\ UNCHANGED <<storeVars, semVars, entries, queueVars, loc, missed, fires, handlerVars, spc>>

\* RunNow, for a schedule that exists.
RunNow(c, s) ==
  /\ tpc[c] = "idle" /\ s \in stored /\ fires < MaxFires
  /\ Enter(c, s)
  /\ fires' = fires + 1
  /\ UNCHANGED <<storeVars, semVars, entries, queueVars, missed, handlerVars, spc>>

\* runCatchUp replays a missed fire in its own goroutine.
CatchUpFire(t) ==
  /\ tpc[t] = "catchup"
  /\ \E s \in Schedules :
       missed[s] > 0 /\ Enter(t, s) /\ missed' = [missed EXCEPT ![s] = @ - 1]
  /\ UNCHANGED <<storeVars, semVars, entries, queueVars, fires, handlerVars, spc>>

CatchUpDone(t) ==
  /\ tpc[t] = "catchup" /\ \A s \in Schedules : missed[s] = 0
  /\ tpc' = [tpc EXCEPT ![t] = "exited"]
  /\ UNCHANGED <<storeVars, semVars, entries, queueVars, loc, missed, fires, handlerVars, spc>>

-----------------------------------------------------------------------------
(* fire. *)

\* GetSchedule; a schedule deleted since it was enqueued is not fired.
FireLoad(t) ==
  /\ tpc[t] = "load"
  /\ \/ loc[t].sched \in stored /\ tpc' = [tpc EXCEPT ![t] = "semaphore"] /\ UNCHANGED loc
     \/ loc[t].sched \notin stored /\ Leave(t)
  /\ UNCHANGED <<storeVars, semVars, entries, queueVars, missed, fires, handlerVars, spc>>

\* semaphore: the current one, or a new one of capacity 1.
FireSemaphore(t) ==
  /\ tpc[t] = "semaphore"
  /\ LET s == loc[t].sched IN
     \/ sems[s] # 0 /\ UNCHANGED semVars
     \/ /\ sems[s] = 0 /\ nsems < MaxSems
        /\ nsems' = nsems + 1
        /\ sems' = [sems EXCEPT ![s] = nsems + 1]
        /\ semCap' = [semCap EXCEPT ![nsems + 1] = 1]
        /\ UNCHANGED semTok
  /\ loc' = [loc EXCEPT ![t].sem = sems'[loc[t].sched]]
  /\ tpc' = [tpc EXCEPT ![t] = "acquire"]
  /\ UNCHANGED <<storeVars, entries, queueVars, missed, fires, handlerVars, spc>>

\* The non-blocking acquire.
FireAcquire(t) ==
  /\ tpc[t] = "acquire" /\ semTok[loc[t].sem] < semCap[loc[t].sem]
  /\ semTok' = [semTok EXCEPT ![loc[t].sem] = @ + 1]
  /\ tpc' = [tpc EXCEPT ![t] = "resolve"]
  /\ UNCHANGED <<storeVars, sems, semCap, nsems, entries, queueVars, loc, missed, fires, handlerVars, spc>>

\* The semaphore is full: a concurrent_run record, and fire returns.
FireSkip(t) ==
  /\ tpc[t] = "acquire" /\ semTok[loc[t].sem] >= semCap[loc[t].sem]
  /\ AppendRun(loc[t].sched)
  /\ Leave(t)
  /\ UNCHANGED <<stored, rec, fresh, historyVars, semVars, entries, queueVars, missed, fires, handlerVars, spc>>

\* resolveTargets finds n VMs; none is a result of its own.
FireResolve(t) ==
  /\ tpc[t] = "resolve"
  /\ \E n \in 0..MaxTargets :
       /\ loc' = [loc EXCEPT ![t].left = n, ![t].result = IF n = 0 THEN "no_targets" ELSE "none"]
       /\ tpc' = [tpc EXCEPT ![t] = IF n = 0 THEN "finalize" ELSE "run"]
  /\ UNCHANGED <<storeVars, semVars, entries, queueVars, missed, fires, handlerVars, spc>>

\* The schedule names one VM and it is gone: a vm_not_found record.
FireVMNotFound(t) ==
  /\ tpc[t] = "resolve"
  /\ AppendRun(loc[t].sched)
  /\ loc' = [loc EXCEPT ![t].result = "vm_not_found"]
  /\ tpc' = [tpc EXCEPT ![t] = "finalize"]
  /\ UNCHANGED <<stored, rec, fresh, historyVars, semVars, entries, queueVars, missed, fires, handlerVars, spc>>

\* The result of a fire whose targets ended with the statuses in seen.
Result(seen) ==
  CASE "error" \in seen /\ "success" \in seen -> "partial"
    [] "error" \in seen /\ "success" \notin seen -> "error"
    [] OTHER -> "success"

\* runOne for one target is over: AppendRun, then the next target or the result.
EndTarget(t, status) ==
  LET seen == loc[t].seen \cup {status}
      done == loc[t].left = 1
  IN /\ AppendRun(loc[t].sched)
     /\ loc' = [loc EXCEPT ![t].seen = IF done THEN {} ELSE seen, ![t].tries = 0, ![t].left = @ - 1,
                           ![t].result = IF done THEN Result(seen) ELSE "none"]
     /\ tpc' = [tpc EXCEPT ![t] = IF done THEN "finalize" ELSE "run"]

\* One attempt of the action on the current target: success, a skip error, or a
\* failure that is retried while attempts are left.
FireAttempt(t) ==
  /\ tpc[t] = "run"
  /\ \/ \E status \in {"success", "skipped"} : EndTarget(t, status)
     \/ /\ loc[t].tries < MaxRetries
        /\ loc' = [loc EXCEPT ![t].tries = @ + 1]
        /\ UNCHANGED <<runs, tpc>>
     \/ loc[t].tries = MaxRetries /\ EndTarget(t, "error")
  /\ UNCHANGED <<stored, rec, fresh, historyVars, semVars, entries, queueVars, missed, fires, handlerVars, spc>>

\* A defect to detect: fire returns without releasing when the schedule is gone.
FinalizeGetLeaksSlot(t) ==
  /\ tpc[t] = "finalize"
  /\ \/ /\ loc[t].sched \in stored
        /\ loc' = [loc EXCEPT ![t].copy = rec[loc[t].sched]]
        /\ tpc' = [tpc EXCEPT ![t] = "finalput"]
     \/ loc[t].sched \notin stored /\ Leave(t)
  /\ UNCHANGED <<storeVars, semVars, entries, queueVars, missed, fires, handlerVars, spc>>

\* finalize reads the record again ...
FinalizeGet(t) ==
  /\ tpc[t] = "finalize"
  /\ \/ /\ loc[t].sched \in stored
        /\ loc' = [loc EXCEPT ![t].copy = rec[loc[t].sched]]
        /\ tpc' = [tpc EXCEPT ![t] = "finalput"]
     \/ /\ loc[t].sched \notin stored
        /\ tpc' = [tpc EXCEPT ![t] = "release"]
        /\ UNCHANGED loc
  /\ UNCHANGED <<storeVars, semVars, entries, queueVars, missed, fires, handlerVars, spc>>

\* ... and writes the whole of it back in a second transaction, ignoring an error.
FinalizePut(t) ==
  /\ tpc[t] = "finalput"
  /\ \/ /\ rec' = [rec EXCEPT ![loc[t].sched] = [loc[t].copy EXCEPT !.last = loc[t].result]]
        /\ stored' = stored \cup {loc[t].sched}
        /\ LET s == loc[t].sched IN
             Writes(s, FiresOpen(s) = {t} /\ PatchesOpen(s) = {},
                    {[r EXCEPT !.last = loc[t].result] : r \in intended[s]})
     \/ UNCHANGED <<rec, stored, historyVars>>
  /\ tpc' = [tpc EXCEPT ![t] = "release"]
  /\ loc' = [loc EXCEPT ![t].copy = NoCopy]
  /\ UNCHANGED <<runs, fresh, semVars, entries, queueVars, missed, fires, handlerVars, spc>>

\* A defect to detect: the release looks the semaphore up again, and blocks when
\* the schedule's current one is not the one that was acquired.
FireReleaseCurrent(t) ==
  LET i == sems[loc[t].sched] IN
  /\ tpc[t] = "release" /\ i # 0 /\ semTok[i] > 0
  /\ semTok' = [semTok EXCEPT ![i] = @ - 1]
  /\ Leave(t)
  /\ UNCHANGED <<storeVars, sems, semCap, nsems, entries, queueVars, missed, fires, handlerVars, spc>>

\* The deferred receive gives the token back to the semaphore it came from.
FireRelease(t) ==
  /\ tpc[t] = "release"
  /\ semTok' = [semTok EXCEPT ![loc[t].sem] = @ - 1]
  /\ Leave(t)
  /\ UNCHANGED <<storeVars, sems, semCap, nsems, entries, queueVars, missed, fires, handlerVars, spc>>

-----------------------------------------------------------------------------
(* Handlers. *)

\* The handler answers; its stack is gone.
Answer(h) ==
  /\ hpc' = [hpc EXCEPT ![h] = "idle"]
  /\ hloc' = [hloc EXCEPT ![h] = NoRequest]

\* POST: PutSchedule, then Register.
CreateSchedule(h, s) ==
  /\ spc # "new" /\ hpc[h] = "idle" /\ s \in fresh
  /\ \E c \in ConcValues, on \in BOOLEAN :
       LET r == [ver |-> 0, conc |-> c, on |-> on, last |-> "none"] IN
       /\ rec' = [rec EXCEPT ![s] = r]
       /\ hloc' = [hloc EXCEPT ![h] = [sched |-> s, copy |-> r]]
       /\ intended' = [intended EXCEPT ![s] = {r}]
  /\ stored' = stored \cup {s} /\ fresh' = fresh \ {s}
  /\ hpc' = [hpc EXCEPT ![h] = "register"]
  /\ UNCHANGED <<runs, overlapped, semVars, entries, queueVars, threadVars, nver, spc>>

\* A defect to detect: PATCH starts from an empty record.
UpdateGetFromScratch(h, s) ==
  /\ spc # "new" /\ hpc[h] = "idle" /\ s \in stored /\ nver < MaxVer
  /\ nver' = nver + 1
  /\ \E c \in ConcValues, on \in BOOLEAN :
       hloc' = [hloc EXCEPT ![h] =
         [sched |-> s, copy |-> [ver |-> nver + 1, conc |-> c, on |-> on, last |-> "none"]]]
  /\ hpc' = [hpc EXCEPT ![h] = "put"]
  /\ UNCHANGED <<storeVars, semVars, entries, queueVars, threadVars, spc>>

\* PATCH: GetSchedule, then (after decoding and validating) PutSchedule of the
\* modified copy, then Register.
UpdateGet(h, s) ==
  /\ spc # "new" /\ hpc[h] = "idle" /\ s \in stored /\ nver < MaxVer
  /\ nver' = nver + 1
  /\ \E c \in ConcValues, on \in BOOLEAN :
       hloc' = [hloc EXCEPT ![h] =
         [sched |-> s, copy |-> [ver |-> nver + 1, conc |-> c, on |-> on, last |-> rec[s].last]]]
  /\ hpc' = [hpc EXCEPT ![h] = "put"]
  /\ UNCHANGED <<storeVars, semVars, entries, queueVars, threadVars, spc>>

UpdatePut(h) ==
  /\ hpc[h] = "put"
  /\ rec' = [rec EXCEPT ![hloc[h].sched] = hloc[h].copy]
  /\ stored' = stored \cup {hloc[h].sched}
  /\ LET s == hloc[h].sched IN
       Writes(s, FiresOpen(s) = {} /\ PatchesOpen(s) = {h},
              {[hloc[h].copy EXCEPT !.last = r.last] : r \in intended[s]})
  /\ hpc' = [hpc EXCEPT ![h] = "register"]
  /\ UNCHANGED <<runs, fresh, semVars, entries, queueVars, threadVars, hloc, nver, spc>>

RegisterStep(h) ==
  /\ hpc[h] = "register"
  /\ Register(hloc[h].sched, hloc[h].copy)
  /\ Answer(h)
  /\ UNCHANGED <<storeVars, queueVars, threadVars, nver, spc>>

\* DELETE: GetSchedule succeeded; one transaction removes the record and its
\* runs; then Unregister.
DeleteGet(h, s) ==
  /\ spc # "new" /\ hpc[h] = "idle" /\ s \in stored
  /\ hpc' = [hpc EXCEPT ![h] = "delete"]
  /\ hloc' = [hloc EXCEPT ![h].sched = s]
  /\ UNCHANGED <<storeVars, semVars, entries, queueVars, threadVars, nver, spc>>

DeleteTx(h) ==
  /\ hpc[h] = "delete"
  /\ stored' = stored \ {hloc[h].sched}
  /\ rec' = [rec EXCEPT ![hloc[h].sched] = NoCopy]
  /\ runs' = runs \ {hloc[h].sched}
  /\ LET s == hloc[h].sched IN Writes(s, FiresOpen(s) = {} /\ PatchesOpen(s) = {}, {})
  /\ hpc' = [hpc EXCEPT ![h] = "unregister"]
  /\ UNCHANGED <<fresh, semVars, entries, queueVars, threadVars, hloc, nver, spc>>

UnregisterStep(h) ==
  /\ hpc[h] = "unregister"
  /\ Unregister(hloc[h].sched)
  /\ Answer(h)
  /\ UNCHANGED <<storeVars, queueVars, threadVars, nver, spc>>

\* The request is rejected (400), or its transaction fails (500): nothing is
\* registered or unregistered.
HandlerFails(h) ==
  /\ hpc[h] \in {"put", "delete"}
  /\ Answer(h)
  /\ UNCHANGED <<storeVars, semVars, entries, queueVars, threadVars, nver, spc>>

-----------------------------------------------------------------------------
(* Stop. *)

\* Under the lock: stop the crons and take the channel away from enqueue.
StopBegin ==
  /\ spc = "running"
  /\ spc' = "closing" /\ jobs' = "nil"
  /\ UNCHANGED <<storeVars, semVars, entries, queue, closed, spawned, threadVars, handlerVars>>

StopClose ==
  /\ spc = "closing"
  /\ spc' = "waiting" /\ closed' = TRUE
  /\ UNCHANGED <<storeVars, semVars, entries, jobs, queue, spawned, threadVars, handlerVars>>

\* wg.Wait returns.  (tickLoop, in the same group, leaves as soon as stopCh closes.)
StopReturn ==
  /\ spc = "waiting"
  /\ \A t \in Workers \cup Catchers : tpc[t] = "exited"
  /\ spc' = "returned"
  /\ UNCHANGED <<storeVars, semVars, entries, queueVars, threadVars, handlerVars>>

-----------------------------------------------------------------------------
(* The specification. *)

FireStep(t) ==
  \/ FireLoad(t) \/ FireSemaphore(t) \/ FireAcquire(t) \/ FireSkip(t) \/ FireResolve(t)
  \/ FireVMNotFound(t) \/ FireAttempt(t) \/ FinalizeGet(t) \/ FinalizePut(t) \/ FireRelease(t)

WorkerStep(w)  == WorkerStart(w) \/ WorkerTake(w) \/ WorkerExit(w) \/ FireStep(w)
CatchUpStep(t) == CatchUpFire(t) \/ CatchUpDone(t) \/ FireStep(t)
HandlerStep(h) ==
  UpdatePut(h) \/ RegisterStep(h) \/ DeleteTx(h) \/ UnregisterStep(h) \/ HandlerFails(h)
StopStep       == StopClose \/ StopReturn

Next ==
  \/ Start
  \/ \E s \in Schedules : CronFire(s) \/ Enqueue(s)
  \/ \E w \in Workers : WorkerStep(w)
  \/ \E c \in Callers : FireStep(c) \/ \E s \in Schedules : RunNow(c, s)
  \/ \E t \in Catchers : CatchUpStep(t)
  \/ \E h \in Handlers : HandlerStep(h) \/ \E s \in Schedules :
       CreateSchedule(h, s) \/ UpdateGet(h, s) \/ DeleteGet(h, s)
  \/ StopBegin \/ StopStep

Spec == Init /\ [][Next]_vars

\* The Go scheduler runs every runnable goroutine eventually, and an attempt of an
\* action ends (it has a timeout, and retries are finite).
Fairness ==
  /\ \A w \in Workers : WF_vars(WorkerStep(w))
  /\ \A t \in Catchers : WF_vars(CatchUpStep(t))
  /\ \A c \in Callers : WF_vars(FireStep(c))
  /\ \A h \in Handlers : WF_vars(HandlerStep(h))
  /\ WF_vars(StopStep)

FairSpec == Spec /\ Fairness

-----------------------------------------------------------------------------
(* Properties. *)

\* Every variable has its type, and the job channel stays within its capacity.
StoreOK ==
  stored \subseteq Schedules /\ rec \in [Schedules -> Record] /\ runs \subseteq Schedules /\ fresh \subseteq Schedules
SemOK ==
  /\ entries \subseteq Schedules /\ sems \in [Schedules -> 0..MaxSems] /\ nsems \in 0..MaxSems
  /\ semCap \in [1..MaxSems -> Nat] /\ semTok \in [1..MaxSems -> Nat]
QueueOK ==
  /\ jobs \in {"nil", "set"} /\ queue \in Seq(Schedules) /\ Len(queue) <= QueueSize
  /\ closed \in BOOLEAN /\ spawned \in [Schedules -> 0..MaxFires] /\ fires \in 0..MaxFires
PcOK ==
  /\ tpc \in [Threads -> {"none", "born", "stuck", "idle", "catchup", "exited", "load", "semaphore",
                          "acquire", "resolve", "run", "finalize", "finalput", "release"}]
  /\ hpc \in [Handlers -> {"idle", "put", "register", "delete", "unregister"}]
  /\ spc \in {"new", "running", "closing", "waiting", "returned"}
LocalsOK ==
  /\ loc \in [Threads -> Locals] /\ missed \in [Schedules -> 0..MaxMissed]
  /\ hloc \in [Handlers -> [sched : AnyID, copy : Record]] /\ nver \in 0..MaxVer
TypeOK == StoreOK /\ SemOK /\ QueueOK /\ PcOK /\ LocalsOK

\* The threads between a successful acquire and the deferred release.
Holding(t) == tpc[t] \in {"resolve", "run", "finalize", "finalput", "release"}
Holders(i) == {t \in Threads : Holding(t) /\ loc[t].sem = i}

\* A semaphore object's tokens are exactly the fires that hold it, and never more
\* than its capacity, however often Register and Unregister replace the object
\* under the fires that hold the old one: no slot is leaked or given back twice.
\* (The types go with it.)
SemaphoreExact ==
  /\ TypeOK
  /\ \A i \in 1..MaxSems : semTok[i] = Cardinality(Holders(i)) /\ semTok[i] <= semCap[i]

\* When Stop returns, every job enqueue accepted has been dispatched, no worker or
\* catch-up goroutine is inside a fire, and nothing can be sent any more.
StopDrains ==
  spc = "returned" =>
    /\ queue = << >> /\ closed /\ jobs = "nil"
    /\ \A t \in Workers \cup Catchers : ~Holding(t)
    /\ \A s \in Schedules : missed[s] = 0

\* Schedules are isolated: no fire holds a slot of a semaphore that another
\* schedule uses, so a burst on one cannot use up the slots of the other, and a
\* schedule with a cron entry has a semaphore to acquire.
SchedulesIsolated ==
  /\ \A s \in entries : sems[s] # 0
  /\ \A s \in Schedules : sems[s] # 0 => \A t \in Holders(sems[s]) : loc[t].sched = s

\* A schedule is what its requests and fires made of it: a PATCH is not undone, a
\* result is not forgotten and a deleted schedule does not come back, unless a
\* record was written back that had been read before another write to it
\* (finalize and UpdateSchedule, each a read and a write of the whole record).
HistoryOK == intended \in [Schedules -> SUBSET Record] /\ overlapped \subseteq Schedules
LastWriteCounts ==
  /\ HistoryOK
  /\ \A s \in Schedules \ overlapped : intended[s] = StoredRecord(s)

\* A queued job is dispatched: the queue does not stay occupied, unless every
\* worker blocked for ever on a nil channel.
QueuedJobIsFired ==
  (queue # << >>) ~> (queue = << >> \/ \A w \in Workers : tpc[w] = "stuck")

\* A fire that acquired a slot gives it back: retries end, and the release happens
\* on every path, also when the schedule is deleted or replaced under the fire.
SlotComesBack == \A t \in Threads : Holding(t) ~> ~Holding(t)

\* No fire is stuck for ever, neither before its slot nor with it.
FiresProgress == QueuedJobIsFired /\ SlotComesBack

=============================================================================
