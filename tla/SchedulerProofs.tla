-------------------------- MODULE SchedulerProofs --------------------------
(***************************************************************************)
(* Proofs about Scheduler for every number of schedules, threads and       *)
(* requests, every queue size and every bound.                             *)
(*                                                                         *)
(* What the runs check is not inductive by itself.  That a semaphore's     *)
(* tokens are its holders survives a Register because no fire refers to    *)
(* the object that is about to be made; that it is a schedule's own        *)
(* survives because no two schedules refer to one object, not even one     *)
(* that was replaced; and that Stop finds the queue empty follows from     *)
(* what an exited worker saw.  Inv adds those links.  That no write to a   *)
(* schedule is lost rests on the copies of those who have read its record  *)
(* and not written it back: LastWrites, on top of Inv.                     *)
(***************************************************************************)
EXTENDS Scheduler, FiniteSetTheorems, TLAPS

USE DEF storeVars, historyVars, semVars, queueVars, threadVars, handlerVars

-----------------------------------------------------------------------------
(* The inductive invariant. *)

\* The threads inside fire, and those that refer to a semaphore.
InFire(t) == tpc[t] \in {"load", "semaphore"} \/ tpc[t] = "acquire" \/ Holding(t)
Refers(t) == tpc[t] = "acquire" \/ Holding(t)

\* A fire and a request that are under way are about a schedule; the loop over
\* the targets has one left; a cron goroutine was counted.
StackShape ==
  /\ \A t \in Threads : InFire(t) => loc[t].sched \in Schedules
  /\ \A t \in Threads : tpc[t] = "run" => loc[t].left >= 1
  /\ \A h \in Handlers : hpc[h] # "idle" => hloc[h].sched \in Schedules
  /\ \A s \in Schedules : spawned[s] <= fires

\* Semaphores are numbered as they are made: references are to those that exist,
\* and the others have given out no token.
References ==
  /\ \A t \in Threads : Refers(t) => loc[t].sem \in 1..nsems
  /\ \A s \in Schedules : sems[s] <= nsems
  /\ \A i \in 1..MaxSems : i > nsems => semTok[i] = 0

\* No object is current for two schedules, and a fire that refers to a current
\* one is a fire of that schedule.
Ownership ==
  /\ \A r, s \in Schedules : sems[r] = sems[s] /\ sems[s] # 0 => r = s
  /\ \A t \in Threads, s \in Schedules : Refers(t) /\ loc[t].sem = sems[s] => loc[t].sched = s
  /\ \A s \in entries : sems[s] # 0

\* Tokens are exactly the holders, within the capacity.
Tokens ==
  \A i \in 1..MaxSems : semTok[i] = Cardinality(Holders(i)) /\ semTok[i] <= semCap[i]

\* Nothing has happened before Start.
Pristine ==
  spc = "new" =>
    /\ queue = << >> /\ nsems = 0 /\ \A s \in Schedules : missed[s] = 0
    /\ \A t \in Threads : tpc[t] = "none"
    /\ \A h \in Handlers : hpc[h] = "idle"

\* The channel is there while the engine runs and is closed once Stop waits; a
\* worker leaves after the last job, and the catch-up goroutine after the last
\* missed fire.
Shutdown ==
  /\ jobs = "set" <=> spc = "running"
  /\ closed <=> spc \in {"waiting", "returned"}
  /\ \A w \in Workers : tpc[w] = "exited" => queue = << >> /\ closed
  /\ \A t \in Catchers : tpc[t] = "exited" => \A s \in Schedules : missed[s] = 0
  /\ Catchers = {} => \A s \in Schedules : missed[s] = 0
  /\ spc = "returned" => \A t \in Workers \cup Catchers : tpc[t] = "exited"

Inv == TypeOK /\ StackShape /\ References /\ Ownership /\ Tokens /\ Pristine /\ Shutdown

-----------------------------------------------------------------------------
(* Values. *)

\* The copy of a deleted record, and a capacity, are in their types.
LEMMA ValueTypes ==
  /\ NoCopy \in Record /\ NoLocals \in Locals /\ NoRequest \in [sched : AnyID, copy : Record]
  /\ \A c \in ConcValues : Capacity(c) \in Nat
  /\ \A seen : Result(seen) \in Results
<1>1. PICK c \in ConcValues : c = CHOOSE d \in ConcValues : TRUE
  BY SizeAssumption
<1>2. NoCopy \in Record
  BY <1>1, SchedulerBounds DEF NoCopy, Record, Results
<1>3. NoLocals \in Locals /\ NoRequest \in [sched : AnyID, copy : Record]
  BY <1>2, SchedulerBounds, SizeAssumption DEF NoLocals, NoRequest, Locals, AnyID, Results
<1>4. \A d \in ConcValues : Capacity(d) \in Nat
  BY SizeAssumption DEF Capacity
<1>5. \A seen : Result(seen) \in Results
  BY DEF Result, Results
<1>6. QED
  BY <1>2, <1>3, <1>4, <1>5

\* The job channel is a bounded sequence of schedules.
LEMMA QueueFacts ==
  ASSUME NEW q \in Seq(Schedules), NEW s \in Schedules
  PROVE  /\ Append(q, s) \in Seq(Schedules) /\ Len(Append(q, s)) = Len(q) + 1
         /\ q # << >> => Head(q) \in Schedules /\ Tail(q) \in Seq(Schedules) /\ Len(Tail(q)) = Len(q) - 1
OBVIOUS

\* Threads that hold one semaphore are finitely many.
LEMMA HoldersFinite ==
  ASSUME NEW i
  PROVE  IsFiniteSet(Holders(i))
<1>1. Holders(i) \in SUBSET Threads
  BY DEF Holders
<1>2. QED
  BY <1>1, ThreadAssumption, FS_Subset DEF Threads

\* The entry and the exit of fire keep the control state and the locals typed.
LEMMA EnterLeave ==
  ASSUME TypeOK, NEW t \in Threads
  PROVE  /\ \A s \in Schedules : Enter(t, s) => loc' \in [Threads -> Locals]
         /\ Leave(t) => loc' \in [Threads -> Locals]
<1>1. \A s \in Schedules : [NoLocals EXCEPT !.sched = s] \in Locals
  BY ValueTypes DEF Locals, NoLocals, AnyID
<1>2. QED
  BY <1>1, ValueTypes DEF Enter, Leave, TypeOK, LocalsOK
\* The fire that acquires or releases refers to a semaphore that exists.
LEMMA RefersExists ==
  ASSUME TypeOK, References, NEW t \in Threads, Refers(t)
  PROVE  loc[t].sem \in 1..MaxSems
BY SchedulerBounds DEF TypeOK, SemOK, References

\* Changing one field of a fire's locals keeps them typed.
LEMMA LocalsUpdates ==
  ASSUME NEW l \in Locals
  PROVE  /\ \A i \in 0..MaxSems : [l EXCEPT !.sem = i] \in Locals
         /\ \A r \in Record : [l EXCEPT !.copy = r] \in Locals
         /\ \A res \in Results : [l EXCEPT !.result = res] \in Locals
         /\ \A n \in 0..MaxTargets, res \in Results : [l EXCEPT !.left = n, !.result = res] \in Locals
         /\ \A k \in 0..MaxRetries : [l EXCEPT !.tries = k] \in Locals
         /\ \A n \in 0..MaxTargets, res \in Results, k \in 0..MaxRetries, seen \in SUBSET Statuses :
              [l EXCEPT !.seen = seen, !.tries = k, !.left = n, !.result = res] \in Locals
         /\ [l.copy EXCEPT !.last = l.result] \in Record
BY DEF Locals, Record

\* The end of a target moves its locals on within their type.
LEMMA EndTargetType ==
  ASSUME TypeOK, StackShape, NEW t \in Threads, tpc[t] = "run", NEW status \in Statuses,
         EndTarget(t, status)
  PROVE  loc' \in [Threads -> Locals] /\ runs' \subseteq Schedules
<1> DEFINE seen == loc[t].seen \cup {status}
           done == loc[t].left = 1
           final == IF done THEN {} ELSE seen
           res == IF done THEN Result(seen) ELSE "none"
           new == [loc[t] EXCEPT !.seen = final, !.tries = 0, !.left = loc[t].left - 1, !.result = res]
<1>1. loc \in [Threads -> Locals] /\ loc[t] \in Locals
  BY DEF TypeOK, LocalsOK
<1>2. loc[t].left - 1 \in 0..MaxTargets /\ 0 \in 0..MaxRetries
  BY <1>1, SchedulerBounds, SizeAssumption DEF StackShape, Locals
<1>3. res \in Results
  BY ValueTypes DEF Results
<1>4. final \in SUBSET Statuses
  BY <1>1 DEF Locals
<1>5. loc' = [loc EXCEPT ![t] = new]
  BY <1>1 DEF EndTarget
<1> HIDE DEF final, res
<1>6. new \in Locals
  BY <1>1, <1>2, <1>3, <1>4, LocalsUpdates
<1> HIDE DEF new
<1>7. loc' \in [Threads -> Locals]
  BY <1>1, <1>5, <1>6
<1>8. runs' \subseteq Schedules
  BY DEF EndTarget, AppendRun, TypeOK, StoreOK, StackShape, InFire, Holding
<1>9. QED
  BY <1>7, <1>8

\* Every step of a fire keeps the types.
LEMMA FireTypes ==
  ASSUME TypeOK, StackShape, References, Tokens, NEW t \in Threads, FireStep(t)
  PROVE  TypeOK'
<1> USE DEF TypeOK, StoreOK, SemOK, QueueOK, PcOK, LocalsOK
<1>0. loc[t] \in Locals /\ NoLocals \in Locals /\ NoCopy \in Record
  BY ValueTypes
<1>1. CASE FireLoad(t)
  BY <1>0, <1>1 DEF FireLoad, Leave
<1>2. CASE FireSemaphore(t)
  <2>1. sems' \in [Schedules -> 0..MaxSems] /\ nsems' \in 0..MaxSems /\ semCap' \in [1..MaxSems -> Nat]
    <3>1. CASE sems[loc[t].sched] # 0
      BY <1>2, <3>1 DEF FireSemaphore
    <3>2. CASE sems[loc[t].sched] = 0
      <4>1. nsems + 1 \in 1..MaxSems
        BY <1>2, <3>2, SchedulerBounds DEF FireSemaphore
      <4>2. /\ nsems' = nsems + 1 /\ sems' = [sems EXCEPT ![loc[t].sched] = nsems + 1]
            /\ semCap' = [semCap EXCEPT ![nsems + 1] = 1]
        BY <1>2, <3>2 DEF FireSemaphore
      <4>3. nsems + 1 \in 0..MaxSems
        BY <4>1, SchedulerBounds
      <4>4. QED
        BY <4>1, <4>2, <4>3
    <3>3. QED
      BY <3>1, <3>2
  <2>2. loc' = [loc EXCEPT ![t].sem = sems'[loc[t].sched]] /\ loc[t].sched \in Schedules
    BY <1>2 DEF FireSemaphore, StackShape, InFire
  <2>3. loc' \in [Threads -> Locals]
    BY <1>0, <2>1, <2>2, LocalsUpdates
  <2>4. QED
    BY <1>2, <2>1, <2>3 DEF FireSemaphore
<1>3. CASE FireAcquire(t)
  <2>1. loc[t].sem \in 1..MaxSems
    BY <1>3, RefersExists DEF FireAcquire, Refers
  <2>2. semTok' \in [1..MaxSems -> Nat]
    BY <1>3, <2>1 DEF FireAcquire
  <2>3. QED
    BY <1>3, <2>2 DEF FireAcquire
<1>4. CASE FireSkip(t)
  BY <1>0, <1>4 DEF FireSkip, Leave, AppendRun, StackShape, InFire
<1>5. CASE FireResolve(t)
  <2>1. loc' \in [Threads -> Locals]
    <3>1. PICK n \in 0..MaxTargets :
            loc' = [loc EXCEPT ![t].left = n, ![t].result = IF n = 0 THEN "no_targets" ELSE "none"]
      BY <1>5 DEF FireResolve
    <3>2. (IF n = 0 THEN "no_targets" ELSE "none") \in Results
      BY DEF Results
    <3>3. QED
      BY <1>0, <3>1, <3>2, LocalsUpdates
  <2>2. QED
    BY <1>5, <2>1 DEF FireResolve
<1>6. CASE FireVMNotFound(t)
  <2>1. loc[t].sched \in Schedules
    BY <1>6 DEF FireVMNotFound, StackShape, InFire, Holding
  <2>2. loc' \in [Threads -> Locals]
    BY <1>0, <1>6, LocalsUpdates DEF FireVMNotFound, Results
  <2>3. QED
    BY <1>6, <2>1, <2>2 DEF FireVMNotFound, AppendRun
<1>7. CASE FireAttempt(t)
  <2>1. CASE \E status \in Statuses : EndTarget(t, status)
    <3>1. loc' \in [Threads -> Locals] /\ runs' \subseteq Schedules
      BY <1>7, <2>1, EndTargetType DEF FireAttempt
    <3>2. QED
      BY <1>7, <2>1, <3>1 DEF FireAttempt, EndTarget
  <2>2. CASE ~\E status \in Statuses : EndTarget(t, status)
    <3>1. loc' = [loc EXCEPT ![t].tries = @ + 1] /\ loc[t].tries < MaxRetries /\ UNCHANGED <<runs, tpc>>
      BY <1>7, <2>2 DEF FireAttempt, Statuses
    <3>2. loc[t].tries + 1 \in 0..MaxRetries
      BY <1>0, <3>1, SizeAssumption DEF Locals
    <3>3. loc' \in [Threads -> Locals]
      BY <1>0, <3>1, <3>2, LocalsUpdates
    <3>4. QED
      BY <1>7, <3>1, <3>3 DEF FireAttempt
  <2>3. QED
    BY <2>1, <2>2
<1>8. CASE FinalizeGet(t)
  <2>1. loc' \in [Threads -> Locals]
    <3>1. rec[loc[t].sched] \in Record
      BY <1>8 DEF FinalizeGet, StackShape, InFire, Holding
    <3>2. [loc[t] EXCEPT !.copy = rec[loc[t].sched]] \in Locals
      BY <1>0, <3>1, LocalsUpdates
    <3>3. QED
      BY <1>8, <3>2 DEF FinalizeGet
  <2>2. QED
    BY <1>8, <2>1 DEF FinalizeGet
<1>9. CASE FinalizePut(t)
  <2>1. loc[t].sched \in Schedules /\ [loc[t].copy EXCEPT !.last = loc[t].result] \in Record
    BY <1>0, <1>9, LocalsUpdates DEF FinalizePut, StackShape, InFire, Holding
  <2>2. rec' \in [Schedules -> Record] /\ stored' \subseteq Schedules
    BY <1>9, <2>1 DEF FinalizePut
  <2>3. loc' \in [Threads -> Locals]
    BY <1>0, <1>9, LocalsUpdates DEF FinalizePut
  <2>4. QED
    BY <1>9, <2>2, <2>3 DEF FinalizePut
<1>10. CASE FireRelease(t)
  <2>1. loc[t].sem \in 1..MaxSems
    BY <1>10, RefersExists DEF FireRelease, Refers, Holding
  <2>2. t \in Holders(loc[t].sem)
    BY <1>10 DEF FireRelease, Holding, Holders
  <2>3. Cardinality(Holders(loc[t].sem)) # 0
    BY <2>2, HoldersFinite, FS_EmptySet
  <2>4. semTok[loc[t].sem] >= 1
    BY <2>1, <2>3 DEF Tokens
  <2>5. semTok' \in [1..MaxSems -> Nat]
    BY <1>10, <2>1, <2>4 DEF FireRelease
  <2>6. QED
    BY <1>0, <1>10, <2>5 DEF FireRelease, Leave
<1>11. QED
  BY <1>1, <1>2, <1>3, <1>4, <1>5, <1>6, <1>7, <1>8, <1>9, <1>10 DEF FireStep

\* What Start leaves in the types.
LEMMA StartTypes ==
  ASSUME TypeOK, Start
  PROVE  TypeOK'
<1> USE DEF TypeOK, StoreOK, SemOK, QueueOK, PcOK, LocalsOK
<1>1. Cardinality(stored) \in 0..MaxSems
  BY ThreadAssumption, SchedulerBounds, FS_Subset, FS_CardinalityType DEF Start
<1>2. PICK order \in [stored -> 1..Cardinality(stored)] :
        /\ sems' = [s \in Schedules |-> IF s \in stored THEN order[s] ELSE 0]
        /\ semCap' = [i \in 1..MaxSems |->
             IF \E s \in stored : order[s] = i
             THEN Capacity(rec[CHOOSE s \in stored : order[s] = i].conc) ELSE 0]
  BY DEF Start
<1>3. sems' \in [Schedules -> 0..MaxSems] /\ nsems' \in 0..MaxSems
  BY <1>1, <1>2, SchedulerBounds DEF Start
<1>4. ASSUME NEW i \in 1..MaxSems PROVE semCap'[i] \in Nat
  <2>1. CASE \E s \in stored : order[s] = i
    <3>1. PICK s \in stored : s = CHOOSE r \in stored : order[r] = i
      BY <2>1
    <3>2. rec[s].conc \in ConcValues
      BY DEF Record
    <3>3. QED
      BY <1>2, <2>1, <3>1, <3>2, ValueTypes
  <2>2. CASE ~\E s \in stored : order[s] = i
    BY <1>2, <2>2
  <2>3. QED
    BY <2>1, <2>2
<1>5. semCap' \in [1..MaxSems -> Nat]
  <2>1. semCap' = [i \in 1..MaxSems |-> semCap'[i]]
    BY <1>2
  <2>2. QED
    BY <1>4, <2>1
<1>6. StoreOK' /\ SemOK'
  BY <1>3, <1>5 DEF Start
<1>7. QueueOK' /\ PcOK'
  BY DEF Start
<1>8. LocalsOK'
  BY DEF Start
<1>9. QED
  BY <1>6, <1>7, <1>8

\* Every step of a handler keeps the types.
LEMMA HandlerTypes ==
  ASSUME TypeOK, StackShape, NEW h \in Handlers,
         HandlerStep(h) \/ \E s \in Schedules : CreateSchedule(h, s) \/ UpdateGet(h, s) \/ DeleteGet(h, s)
  PROVE  TypeOK'
<1> USE DEF TypeOK, StoreOK, SemOK, QueueOK, PcOK, LocalsOK
<1> DEFINE Request == [sched : AnyID, copy : Record]
<1>0. /\ NoRequest \in Request /\ NoCopy \in Record
      /\ hloc[h] \in Request /\ hloc[h].copy \in Record /\ (hpc[h] # "idle" => hloc[h].sched \in Schedules)
  BY ValueTypes DEF StackShape
<1>1. ASSUME NEW s \in Schedules, CreateSchedule(h, s) PROVE TypeOK'
  <2>1. PICK c \in ConcValues, on \in BOOLEAN :
          LET r == [ver |-> 0, conc |-> c, on |-> on, last |-> "none"] IN
          /\ rec' = [rec EXCEPT ![s] = r] /\ hloc' = [hloc EXCEPT ![h] = [sched |-> s, copy |-> r]]
    BY <1>1 DEF CreateSchedule
  <2>2. [ver |-> 0, conc |-> c, on |-> on, last |-> "none"] \in Record
    BY SchedulerBounds DEF Record, Results
  <2>3. rec' \in [Schedules -> Record] /\ hloc' \in [Handlers -> Request]
    BY <2>1, <2>2 DEF AnyID
  <2>4. QED
    BY <1>1, <2>3 DEF CreateSchedule
<1>2. ASSUME NEW s \in Schedules, UpdateGet(h, s) PROVE TypeOK'
  <2>1. PICK c \in ConcValues, on \in BOOLEAN :
          hloc' = [hloc EXCEPT ![h] =
            [sched |-> s, copy |-> [ver |-> nver + 1, conc |-> c, on |-> on, last |-> rec[s].last]]]
    BY <1>2 DEF UpdateGet
  <2>2. nver + 1 \in 0..MaxVer
    BY <1>2, SchedulerBounds DEF UpdateGet
  <2>3. [ver |-> nver + 1, conc |-> c, on |-> on, last |-> rec[s].last] \in Record
    BY <2>2 DEF Record
  <2>4. hloc' \in [Handlers -> Request]
    BY <2>1, <2>3 DEF AnyID
  <2>5. QED
    BY <1>2, <2>2, <2>4 DEF UpdateGet
<1>3. ASSUME NEW s \in Schedules, DeleteGet(h, s) PROVE TypeOK'
  <2>1. hloc' \in [Handlers -> Request]
    BY <1>0, <1>3 DEF DeleteGet, AnyID
  <2>2. QED
    BY <1>3, <2>1 DEF DeleteGet
<1>4. CASE UpdatePut(h)
  BY <1>0, <1>4 DEF UpdatePut
<1>5. CASE RegisterStep(h)
  <2>1. nsems + 1 \in 1..MaxSems /\ Capacity(hloc[h].copy.conc) \in Nat
    BY <1>0, <1>5, SchedulerBounds, ValueTypes DEF RegisterStep, Register, Record
  <2>2. SemOK'
    BY <1>0, <1>5, <2>1 DEF RegisterStep, Register
  <2>3. QED
    BY <1>0, <1>5, <2>2 DEF RegisterStep, Answer
<1>6. CASE DeleteTx(h)
  BY <1>0, <1>6 DEF DeleteTx
<1>7. CASE UnregisterStep(h)
  <2>1. SemOK'
    BY <1>0, <1>7, SchedulerBounds DEF UnregisterStep, Unregister
  <2>2. QED
    BY <1>0, <1>7, <2>1 DEF UnregisterStep, Answer
<1>8. CASE HandlerFails(h)
  BY <1>0, <1>8 DEF HandlerFails, Answer
<1>9. QED
  BY <1>1, <1>2, <1>3, <1>4, <1>5, <1>6, <1>7, <1>8 DEF HandlerStep

\* Every step keeps every variable in its type.
LEMMA TypeStep ==
  ASSUME TypeOK, StackShape, References, Tokens, [Next]_vars
  PROVE  TypeOK'
<1> USE DEF TypeOK, StoreOK, SemOK, QueueOK, PcOK, LocalsOK
<1>1. CASE Start
  BY <1>1, StartTypes
<1>2. ASSUME NEW s \in Schedules, CronFire(s) PROVE TypeOK'
  <2>1. spawned' \in [Schedules -> 0..MaxFires] /\ fires' \in 0..MaxFires
    BY <1>2, SchedulerBounds DEF CronFire, StackShape
  <2>2. QED
    BY <1>2, <2>1 DEF CronFire
<1>3. ASSUME NEW s \in Schedules, Enqueue(s) PROVE TypeOK'
  <2>1. spawned' \in [Schedules -> 0..MaxFires]
    BY <1>3, SchedulerBounds DEF Enqueue
  <2>2. queue' \in Seq(Schedules) /\ Len(queue') <= QueueSize
    <3>1. CASE Len(queue) < QueueSize /\ queue' = Append(queue, s)
      BY <3>1, QueueFacts, SizeAssumption
    <3>2. CASE queue' = queue
      BY <3>2
    <3>3. QED
      BY <1>3, <3>1, <3>2 DEF Enqueue
  <2>3. QED
    BY <1>3, <2>1, <2>2 DEF Enqueue, AppendRun
<1>4. ASSUME NEW w \in Workers, WorkerStart(w) PROVE TypeOK'
  BY <1>4 DEF WorkerStart, Threads
<1>5. ASSUME NEW w \in Workers, WorkerTake(w) PROVE TypeOK'
  <2>1. Head(queue) \in Schedules /\ queue' \in Seq(Schedules) /\ Len(queue') <= QueueSize
    BY <1>5, QueueFacts, SizeAssumption DEF WorkerTake
  <2>2. loc' \in [Threads -> Locals]
    BY <1>5, <2>1, EnterLeave DEF WorkerTake, Threads
  <2>3. QED
    BY <1>5, <2>1, <2>2 DEF WorkerTake, Enter, Threads
<1>6. ASSUME NEW w \in Workers, WorkerExit(w) PROVE TypeOK'
  BY <1>6 DEF WorkerExit, Threads
<1>7. ASSUME NEW c \in Callers, NEW s \in Schedules, RunNow(c, s) PROVE TypeOK'
  <2>1. loc' \in [Threads -> Locals]
    BY <1>7, EnterLeave DEF RunNow, Threads
  <2>2. fires' \in 0..MaxFires
    BY <1>7, SchedulerBounds DEF RunNow
  <2>3. QED
    BY <1>7, <2>1, <2>2 DEF RunNow, Enter, Threads
<1>8. ASSUME NEW t \in Catchers, CatchUpFire(t) PROVE TypeOK'
  <2>1. PICK s \in Schedules : missed[s] > 0 /\ Enter(t, s) /\ missed' = [missed EXCEPT ![s] = @ - 1]
    BY <1>8 DEF CatchUpFire
  <2>2. loc' \in [Threads -> Locals]
    BY <2>1, EnterLeave DEF Threads
  <2>3. missed' \in [Schedules -> 0..MaxMissed]
    BY <2>1, SchedulerBounds
  <2>4. QED
    BY <1>8, <2>1, <2>2, <2>3 DEF CatchUpFire, Enter, Threads
<1>9. ASSUME NEW t \in Catchers, CatchUpDone(t) PROVE TypeOK'
  BY <1>9 DEF CatchUpDone, Threads
<1>10. ASSUME NEW t \in Threads, FireStep(t) PROVE TypeOK'
  BY <1>10, FireTypes
<1>11. ASSUME NEW h \in Handlers,
              HandlerStep(h) \/ \E s \in Schedules : CreateSchedule(h, s) \/ UpdateGet(h, s) \/ DeleteGet(h, s)
       PROVE  TypeOK'
  BY <1>11, HandlerTypes
<1>12. CASE StopBegin
  BY <1>12 DEF StopBegin
<1>13. CASE StopClose
  BY <1>13 DEF StopClose
<1>14. CASE StopReturn
  BY <1>14 DEF StopReturn
<1>15. CASE UNCHANGED vars
  BY <1>15 DEF vars
<1> HIDE DEF TypeOK
<1>16. QED
  BY <1>1, <1>2, <1>3, <1>4, <1>5, <1>6, <1>7, <1>8, <1>9, <1>10, <1>11, <1>12, <1>13, <1>14, <1>15
     DEF Next, WorkerStep, CatchUpStep, StopStep, Threads

-----------------------------------------------------------------------------
(* What steps do to stacks. *)

\* An assignment to one field of the locals leaves the others alone.
LEMMA LocalsFields ==
  ASSUME NEW l \in Locals, NEW v
  PROVE  /\ [l EXCEPT !.sem = v].sched = l.sched /\ [l EXCEPT !.sem = v].sem = v
         /\ [l EXCEPT !.copy = v].sched = l.sched /\ [l EXCEPT !.copy = v].sem = l.sem
         /\ [l EXCEPT !.result = v].sched = l.sched /\ [l EXCEPT !.result = v].sem = l.sem
         /\ [l EXCEPT !.tries = v].sched = l.sched /\ [l EXCEPT !.tries = v].sem = l.sem
         /\ [l EXCEPT !.tries = v].left = l.left
         /\ \A r : /\ [l EXCEPT !.left = v, !.result = r].sched = l.sched
                   /\ [l EXCEPT !.left = v, !.result = r].sem = l.sem
                   /\ [l EXCEPT !.left = v, !.result = r].left = v
         /\ \A seen, r, k : LET m == [l EXCEPT !.seen = seen, !.tries = k, !.left = v, !.result = r] IN
                            m.sched = l.sched /\ m.sem = l.sem /\ m.left = v
BY DEF Locals

\* What the steps between the acquire and the release, and those before it, leave
\* alone: the fire stays about its schedule, refers to no other semaphore, and
\* neither begins nor stops to hold one.
KeepsSlot(t) ==
  /\ Holding(t)' <=> Holding(t)
  /\ Refers(t)' => Refers(t) /\ loc'[t].sem = loc[t].sem /\ loc'[t].sched = loc[t].sched

\* One step of a fire, seen from its stack.
LEMMA FireEffect ==
  ASSUME TypeOK, StackShape, NEW t \in Threads, FireStep(t)
  PROVE  /\ InFire(t)
         /\ \A u \in Threads : u # t => tpc'[u] = tpc[u] /\ loc'[u] = loc[u]
         /\ InFire(t)' => loc'[t].sched = loc[t].sched
         /\ tpc'[t] = "run" => loc'[t].left >= 1
         /\ tpc'[t] \notin {"none", "exited"}
         /\ UNCHANGED <<fresh, entries, queueVars, missed, fires, handlerVars, spc>>
         /\ FireSemaphore(t) \/ FireAcquire(t) \/ FireRelease(t) \/ (UNCHANGED semVars /\ KeepsSlot(t))
<1> USE DEF InFire, Holding, Refers, KeepsSlot
<1>0. /\ tpc = [u \in Threads |-> tpc[u]] /\ loc = [u \in Threads |-> loc[u]] /\ loc[t] \in Locals
      /\ loc[t].left \in 0..MaxTargets
  BY DEF TypeOK, PcOK, LocalsOK, Locals
<1>1. CASE FireLoad(t)
  BY <1>0, <1>1 DEF FireLoad, Leave
<1>2. CASE FireSemaphore(t)
  BY <1>0, <1>2, LocalsFields DEF FireSemaphore
<1>3. CASE FireAcquire(t)
  BY <1>0, <1>3 DEF FireAcquire
<1>4. CASE FireSkip(t)
  BY <1>0, <1>4 DEF FireSkip, Leave
<1>5. CASE FireResolve(t)
  <2>1. PICK n \in 0..MaxTargets, r \in {"no_targets", "none"} :
          /\ loc' = [loc EXCEPT ![t] = [loc[t] EXCEPT !.left = n, !.result = r]]
          /\ tpc' = [tpc EXCEPT ![t] = IF n = 0 THEN "finalize" ELSE "run"]
    BY <1>0, <1>5 DEF FireResolve
  <2>2. /\ loc'[t].sched = loc[t].sched /\ loc'[t].sem = loc[t].sem /\ loc'[t].left = n
        /\ \A u \in Threads : u # t => loc'[u] = loc[u]
    <3> DEFINE new == [loc[t] EXCEPT !.left = n, !.result = r]
    <3>1. new.sched = loc[t].sched /\ new.sem = loc[t].sem /\ new.left = n
      BY <1>0, LocalsFields
    <3>2. loc' = [loc EXCEPT ![t] = new]
      BY <2>1
    <3> HIDE DEF new
    <3>3. QED
      BY <1>0, <3>1, <3>2
  <2>3. n # 0 => n >= 1
    BY SchedulerBounds
  <2>4. QED
    BY <1>0, <1>5, <2>1, <2>2, <2>3 DEF FireResolve
<1>6. CASE FireVMNotFound(t)
  BY <1>0, <1>6, LocalsFields DEF FireVMNotFound
<1>7. CASE FireAttempt(t)
  <2>1. ASSUME NEW status, EndTarget(t, status) PROVE
          /\ loc'[t].sched = loc[t].sched /\ loc'[t].sem = loc[t].sem /\ loc'[t].left = loc[t].left - 1
          /\ tpc' = [tpc EXCEPT ![t] = IF loc[t].left = 1 THEN "finalize" ELSE "run"]
          /\ \A u \in Threads : u # t => loc'[u] = loc[u]
    <3>1. PICK seen, r : loc' = [loc EXCEPT ![t] =
                           [loc[t] EXCEPT !.seen = seen, !.tries = 0, !.left = loc[t].left - 1, !.result = r]]
      BY <1>0, <2>1 DEF EndTarget
    <3>2. QED
      BY <1>0, <2>1, <3>1, LocalsFields DEF EndTarget
  <2>2. CASE \E status : EndTarget(t, status)
    BY <1>0, <1>7, <2>1, <2>2, SchedulerBounds DEF FireAttempt, StackShape
  <2>3. CASE ~\E status : EndTarget(t, status)
    <3>1. loc' = [loc EXCEPT ![t] = [loc[t] EXCEPT !.tries = loc[t].tries + 1]] /\ UNCHANGED tpc
      BY <1>0, <1>7, <2>3 DEF FireAttempt
    <3>2. /\ loc'[t].sched = loc[t].sched /\ loc'[t].sem = loc[t].sem /\ loc'[t].left = loc[t].left
          /\ \A u \in Threads : u # t => loc'[u] = loc[u]
      BY <1>0, <3>1, LocalsFields
    <3>3. QED
      BY <1>0, <1>7, <3>1, <3>2 DEF FireAttempt, StackShape
  <2>4. QED
    BY <2>2, <2>3
<1>8. CASE FinalizeGet(t)
  <2>1. loc' = loc \/ loc' = [loc EXCEPT ![t] = [loc[t] EXCEPT !.copy = rec[loc[t].sched]]]
    BY <1>0, <1>8 DEF FinalizeGet
  <2>2. /\ loc'[t].sched = loc[t].sched /\ loc'[t].sem = loc[t].sem
        /\ \A u \in Threads : u # t => loc'[u] = loc[u]
    <3> DEFINE new == [loc[t] EXCEPT !.copy = rec[loc[t].sched]]
    <3>1. new.sched = loc[t].sched /\ new.sem = loc[t].sem
      BY <1>0, LocalsFields
    <3>2. loc' = loc \/ loc' = [loc EXCEPT ![t] = new]
      BY <2>1
    <3> HIDE DEF new
    <3>3. QED
      BY <1>0, <3>1, <3>2
  <2>3. QED
    BY <1>0, <1>8, <2>2 DEF FinalizeGet
<1>9. CASE FinalizePut(t)
  BY <1>0, <1>9, LocalsFields DEF FinalizePut
<1>10. CASE FireRelease(t)
  BY <1>0, <1>10 DEF FireRelease, Leave
<1>11. QED
  BY <1>1, <1>2, <1>3, <1>4, <1>5, <1>6, <1>7, <1>8, <1>9, <1>10 DEF FireStep

\* What the other steps of threads have in common: a thread that is in no fire
\* begins one, or moves on outside fires.
ThreadMoves(t) ==
  /\ ~InFire(t) /\ tpc[t] # "none" /\ tpc'[t] # "none"
  /\ \A u \in Threads : u # t => tpc'[u] = tpc[u] /\ loc'[u] = loc[u]
  /\ ~Refers(t)' /\ tpc'[t] # "run"
  /\ InFire(t)' => loc'[t].sched \in Schedules
  /\ UNCHANGED <<storeVars, semVars, entries, jobs, closed, spawned, handlerVars, spc>>

LEMMA ThreadEffect ==
  ASSUME TypeOK, NEW t \in Threads,
         \/ t \in Workers /\ (WorkerStart(t) \/ WorkerTake(t) \/ WorkerExit(t))
         \/ t \in Catchers /\ (CatchUpFire(t) \/ CatchUpDone(t))
         \/ \E s \in Schedules : RunNow(t, s)
  PROVE  ThreadMoves(t)
<1> USE DEF ThreadMoves, InFire, Holding, Refers
<1>0. tpc = [u \in Threads |-> tpc[u]] /\ loc = [u \in Threads |-> loc[u]]
  BY DEF TypeOK, PcOK, LocalsOK
<1>1. ASSUME NEW s \in Schedules, Enter(t, s), tpc[t] \in {"idle", "catchup"},
             UNCHANGED <<storeVars, semVars, entries, jobs, closed, spawned, handlerVars, spc>>
      PROVE  ThreadMoves(t)
  <2>1. [NoLocals EXCEPT !.sched = s].sched = s
    BY DEF NoLocals
  <2>2. QED
    BY <1>0, <1>1, <2>1 DEF Enter
<1>2. CASE WorkerTake(t)
  BY <1>1, <1>2, QueueFacts DEF WorkerTake, TypeOK, QueueOK
<1>3. CASE CatchUpFire(t) \/ \E s \in Schedules : RunNow(t, s)
  BY <1>1, <1>3 DEF CatchUpFire, RunNow
<1>4. CASE WorkerStart(t)
  BY <1>0, <1>4 DEF WorkerStart
<1>5. CASE WorkerExit(t) \/ CatchUpDone(t)
  BY <1>0, <1>5 DEF WorkerExit, CatchUpDone
<1>6. QED
  BY <1>2, <1>3, <1>4, <1>5

\* The handlers' steps that reach the scheduler's map, and those that only use
\* the store.
LEMMA HandlerEffect ==
  ASSUME TypeOK, StackShape, NEW h \in Handlers,
         HandlerStep(h) \/ \E s \in Schedules : CreateSchedule(h, s) \/ UpdateGet(h, s) \/ DeleteGet(h, s)
  PROVE  /\ hpc'[h] # "idle" => hloc'[h].sched \in Schedules
         /\ \A g \in Handlers : g # h => hpc'[g] = hpc[g] /\ hloc'[g] = hloc[g]
         /\ UNCHANGED <<queueVars, threadVars, spc>>
         /\ RegisterStep(h) \/ UnregisterStep(h) \/ UNCHANGED <<semVars, entries>>
<1> USE DEF StackShape
<1>0. hpc = [g \in Handlers |-> hpc[g]] /\ hloc = [g \in Handlers |-> hloc[g]] /\ DOMAIN hloc[h] = {"sched", "copy"}
  BY DEF TypeOK, PcOK, LocalsOK
<1>1. CASE UpdatePut(h)
  BY <1>0, <1>1 DEF UpdatePut
<1>2. CASE RegisterStep(h) \/ UnregisterStep(h) \/ HandlerFails(h)
  BY <1>0, <1>2 DEF RegisterStep, UnregisterStep, HandlerFails, Answer
<1>3. CASE DeleteTx(h)
  BY <1>0, <1>3 DEF DeleteTx
<1>4. ASSUME NEW s \in Schedules, CreateSchedule(h, s)
      PROVE  /\ hloc'[h].sched = s /\ \A g \in Handlers : g # h => hpc'[g] = hpc[g] /\ hloc'[g] = hloc[g]
             /\ UNCHANGED <<queueVars, threadVars, spc, semVars, entries>>
  BY <1>0, <1>4 DEF CreateSchedule
<1>5. ASSUME NEW s \in Schedules, UpdateGet(h, s)
      PROVE  /\ hloc'[h].sched = s /\ \A g \in Handlers : g # h => hpc'[g] = hpc[g] /\ hloc'[g] = hloc[g]
             /\ UNCHANGED <<queueVars, threadVars, spc, semVars, entries>>
  BY <1>0, <1>5 DEF UpdateGet
<1>6. ASSUME NEW s \in Schedules, DeleteGet(h, s)
      PROVE  /\ hloc'[h].sched = s /\ \A g \in Handlers : g # h => hpc'[g] = hpc[g] /\ hloc'[g] = hloc[g]
             /\ UNCHANGED <<queueVars, threadVars, spc, semVars, entries>>
  BY <1>0, <1>6 DEF DeleteGet
<1>7. QED
  BY <1>1, <1>2, <1>3, <1>4, <1>5, <1>6 DEF HandlerStep

-----------------------------------------------------------------------------
(* One lemma per part of the invariant. *)

\* Stacks, and the count of cron goroutines.
LEMMA StackStep ==
  ASSUME TypeOK, StackShape, [Next]_vars
  PROVE  StackShape'
<1>1. ASSUME NEW t \in Threads, FireStep(t) PROVE StackShape'
  <2>1. InFire(t) /\ loc[t].sched \in Schedules
    BY <1>1, FireEffect DEF StackShape
  <2>2. QED
    BY <1>1, <2>1, FireEffect DEF StackShape, InFire, Holding
<1>2. ASSUME NEW t \in Threads, ThreadMoves(t), fires' \in {fires, fires + 1} PROVE StackShape'
  BY <1>2 DEF ThreadMoves, StackShape, InFire, Holding, TypeOK, QueueOK
<1>3. ASSUME NEW s \in Schedules, CronFire(s) PROVE StackShape'
  BY <1>3 DEF CronFire, StackShape, InFire, Holding, TypeOK, QueueOK
<1>4. ASSUME NEW s \in Schedules, Enqueue(s) PROVE StackShape'
  BY <1>4 DEF Enqueue, StackShape, InFire, Holding, TypeOK, QueueOK
<1>5. ASSUME NEW h \in Handlers,
             HandlerStep(h) \/ \E s \in Schedules : CreateSchedule(h, s) \/ UpdateGet(h, s) \/ DeleteGet(h, s)
      PROVE  StackShape'
  BY <1>5, HandlerEffect DEF StackShape, InFire, Holding
<1>6. CASE Start
  BY <1>6 DEF Start, StackShape, InFire, Holding
<1>7. CASE StopBegin \/ StopClose \/ StopReturn \/ UNCHANGED vars
  BY <1>7 DEF StopBegin, StopClose, StopReturn, vars, StackShape, InFire, Holding
<1>8. ASSUME NEW t \in Threads,
             \/ t \in Workers /\ (WorkerStart(t) \/ WorkerTake(t) \/ WorkerExit(t))
             \/ t \in Catchers /\ (CatchUpFire(t) \/ CatchUpDone(t))
             \/ \E s \in Schedules : RunNow(t, s)
      PROVE  StackShape'
  BY <1>2, <1>8, ThreadEffect DEF WorkerStart, WorkerTake, WorkerExit, CatchUpFire, CatchUpDone, RunNow
<1>9. QED
  BY <1>1, <1>3, <1>4, <1>5, <1>6, <1>7, <1>8 DEF Next, WorkerStep, CatchUpStep, StopStep, Threads

\* A step that touches no semaphore and moves no fire to another.
SemaphoresAlone ==
  UNCHANGED <<semVars, entries>> /\ \A t \in Threads : KeepsSlot(t)

\* The steps that do more than that: the registrations, and the three of a fire.
LEMMA SemaphoreSteps ==
  ASSUME TypeOK, StackShape, [Next]_vars
  PROVE  \/ Start \/ SemaphoresAlone
         \/ \E t \in Threads : FireSemaphore(t) \/ FireAcquire(t) \/ FireRelease(t)
         \/ \E h \in Handlers : (RegisterStep(h) \/ UnregisterStep(h)) /\ hloc[h].sched \in Schedules
<1> USE DEF SemaphoresAlone, KeepsSlot, InFire, Refers, Holding
<1>1. ASSUME NEW t \in Threads, FireStep(t), ~FireSemaphore(t), ~FireAcquire(t), ~FireRelease(t)
      PROVE  SemaphoresAlone
  BY <1>1, FireEffect
<1>2. ASSUME NEW t \in Threads, ThreadMoves(t) PROVE SemaphoresAlone
  BY <1>2 DEF ThreadMoves
<1>3. ASSUME NEW s \in Schedules, CronFire(s) \/ Enqueue(s) PROVE SemaphoresAlone
  BY <1>3 DEF CronFire, Enqueue
<1>4. ASSUME NEW h \in Handlers,
             HandlerStep(h) \/ \E s \in Schedules : CreateSchedule(h, s) \/ UpdateGet(h, s) \/ DeleteGet(h, s)
      PROVE  SemaphoresAlone \/ ((RegisterStep(h) \/ UnregisterStep(h)) /\ hloc[h].sched \in Schedules)
  <2>1. RegisterStep(h) \/ UnregisterStep(h) => hloc[h].sched \in Schedules
    BY DEF RegisterStep, UnregisterStep, StackShape
  <2>2. QED
    BY <1>4, <2>1, HandlerEffect
<1>5. CASE StopBegin \/ StopClose \/ StopReturn \/ UNCHANGED vars
  BY <1>5 DEF StopBegin, StopClose, StopReturn, vars
<1>6. ASSUME NEW t \in Threads,
             \/ t \in Workers /\ (WorkerStart(t) \/ WorkerTake(t) \/ WorkerExit(t))
             \/ t \in Catchers /\ (CatchUpFire(t) \/ CatchUpDone(t))
             \/ \E s \in Schedules : RunNow(t, s)
      PROVE  SemaphoresAlone
  BY <1>2, <1>6, ThreadEffect
<1> HIDE DEF SemaphoresAlone
<1>7. QED
  BY <1>1, <1>3, <1>4, <1>5, <1>6 DEF Next, WorkerStep, CatchUpStep, StopStep, Threads

\* References to semaphores.
LEMMA ReferencesStep ==
  ASSUME TypeOK, StackShape, References, Pristine, [Next]_vars
  PROVE  References'
<1> USE SchedulerBounds DEF References
<1>0. sems \in [Schedules -> Nat] /\ nsems \in Nat /\ semTok = [i \in 1..MaxSems |-> semTok[i]]
  BY DEF TypeOK, SemOK
<1>1. CASE Start
  <2>1. \A t \in Threads : ~Refers(t)'
    BY <1>1 DEF Start, Refers, Holding
  <2>2. \A s \in Schedules : sems'[s] <= nsems'
    <3>1. Cardinality(stored) \in Nat
      BY ThreadAssumption, FS_Subset, FS_CardinalityType DEF TypeOK, StoreOK
    <3>2. QED
      BY <1>1, <3>1 DEF Start
  <2>3. \A i \in 1..MaxSems : i > nsems' => semTok'[i] = 0
    <3>1. \A i \in 1..MaxSems : semTok'[i] = 0
      BY <1>0, <1>1 DEF Start, Pristine
    <3>2. QED
      BY <3>1
  <2>4. QED
    BY <2>1, <2>2, <2>3
<1>2. CASE SemaphoresAlone
  BY <1>2 DEF SemaphoresAlone, KeepsSlot
<1>3. ASSUME NEW t \in Threads, FireSemaphore(t) PROVE References'
  <2>1. /\ loc[t].sched \in Schedules
        /\ \A u \in Threads : u # t => Refers(u)' = Refers(u) /\ loc'[u].sem = loc[u].sem
        /\ loc'[t].sem = sems'[loc[t].sched]
    BY <1>3, LocalsFields DEF FireSemaphore, StackShape, InFire, Refers, Holding, TypeOK, PcOK, LocalsOK
  <2>2. CASE sems[loc[t].sched] # 0
    BY <1>0, <1>3, <2>1, <2>2 DEF FireSemaphore
  <2>3. CASE sems[loc[t].sched] = 0
    <3>1. nsems' = nsems + 1 /\ sems' = [sems EXCEPT ![loc[t].sched] = nsems + 1] /\ semTok' = semTok
      BY <1>3, <2>3 DEF FireSemaphore
    <3>2. QED
      BY <1>0, <2>1, <3>1
  <2>4. QED
    BY <2>2, <2>3
<1>4. ASSUME NEW t \in Threads, FireAcquire(t) PROVE References'
  <2>1. Refers(t) /\ loc[t].sem \in 1..MaxSems
    BY <1>4, RefersExists DEF FireAcquire, Refers
  <2>2. /\ \A u \in Threads : Refers(u)' => Refers(u)
        /\ UNCHANGED <<loc, sems, nsems>> /\ semTok' = [semTok EXCEPT ![loc[t].sem] = @ + 1]
    BY <1>4, <2>1 DEF FireAcquire, Refers, Holding, TypeOK, PcOK
  <2>3. QED
    BY <1>0, <2>1, <2>2
<1>5. ASSUME NEW t \in Threads, FireRelease(t) PROVE References'
  <2>1. Refers(t) /\ loc[t].sem \in 1..MaxSems
    BY <1>5, RefersExists DEF FireRelease, Refers, Holding
  <2>2. /\ \A u \in Threads : Refers(u)' => Refers(u) /\ loc'[u] = loc[u]
        /\ UNCHANGED <<sems, nsems>> /\ semTok' = [semTok EXCEPT ![loc[t].sem] = @ - 1]
    BY <1>5, <2>1 DEF FireRelease, Leave, Refers, Holding, TypeOK, PcOK, LocalsOK
  <2>3. QED
    BY <1>0, <2>1, <2>2
<1>6. ASSUME NEW h \in Handlers, hloc[h].sched \in Schedules, RegisterStep(h) PROVE References'
  <2>1. /\ nsems' = nsems + 1 /\ sems' = [sems EXCEPT ![hloc[h].sched] = nsems + 1]
        /\ UNCHANGED <<semTok, tpc, loc>>
    BY <1>6 DEF RegisterStep, Register
  <2>2. QED
    BY <1>0, <2>1 DEF Refers, Holding
<1>7. ASSUME NEW h \in Handlers, hloc[h].sched \in Schedules, UnregisterStep(h) PROVE References'
  <2>1. sems' = [sems EXCEPT ![hloc[h].sched] = 0] /\ UNCHANGED <<nsems, semTok, tpc, loc>>
    BY <1>7 DEF UnregisterStep, Unregister
  <2>2. QED
    BY <1>0, <2>1 DEF Refers, Holding
<1> HIDE DEF References
<1>8. QED
  BY <1>1, <1>2, <1>3, <1>4, <1>5, <1>6, <1>7, SemaphoreSteps

\* Whose semaphore it is.  The object Register makes is current for no other
\* schedule and nothing refers to it; the one it replaces stays with its fires.
LEMMA OwnershipStep ==
  ASSUME TypeOK, StackShape, References, Ownership, Pristine, [Next]_vars
  PROVE  Ownership'
<1> USE SchedulerBounds DEF Ownership
<1>0. /\ sems \in [Schedules -> Nat] /\ nsems \in Nat /\ entries \subseteq Schedules
      /\ \A t \in Threads : Refers(t) => loc[t].sem \in 1..nsems
      /\ \A s \in Schedules : sems[s] <= nsems
  BY DEF TypeOK, SemOK, References
<1>1. CASE Start
  <2>1. \A t \in Threads : ~Refers(t)'
    BY <1>1 DEF Start, Refers, Holding
  <2>2. PICK order \in [stored -> 1..Cardinality(stored)] :
          /\ \A s, t \in stored : s # t => order[s] # order[t]
          /\ sems' = [s \in Schedules |-> IF s \in stored THEN order[s] ELSE 0]
    BY <1>1 DEF Start
  <2>3. Cardinality(stored) \in Nat /\ stored \subseteq Schedules
    BY ThreadAssumption, FS_Subset, FS_CardinalityType DEF TypeOK, StoreOK
  <2>4. \A s \in stored : order[s] # 0
    BY <2>3
  <2>5. \A s \in Schedules : sems'[s] # 0 => s \in stored /\ sems'[s] = order[s]
    BY <2>2
  <2>6. \A r, s \in Schedules : sems'[r] = sems'[s] /\ sems'[s] # 0 => r = s
    BY <2>2, <2>5
  <2>7. \A s \in entries' : sems'[s] # 0
    BY <1>1, <2>2, <2>3, <2>4 DEF Start
  <2>8. QED
    BY <2>1, <2>6, <2>7
<1>2. CASE SemaphoresAlone
  BY <1>2 DEF SemaphoresAlone, KeepsSlot
<1>3. ASSUME NEW t \in Threads, FireSemaphore(t) PROVE Ownership'
  <2>1. /\ loc[t].sched \in Schedules
        /\ \A u \in Threads : u # t => Refers(u)' = Refers(u) /\ loc'[u] = loc[u]
        /\ loc'[t].sem = sems'[loc[t].sched] /\ loc'[t].sched = loc[t].sched /\ entries' = entries
    BY <1>3, LocalsFields DEF FireSemaphore, StackShape, InFire, Refers, Holding, TypeOK, PcOK, LocalsOK
  <2>2. CASE sems[loc[t].sched] # 0
    BY <1>0, <1>3, <2>1, <2>2 DEF FireSemaphore
  <2>3. CASE sems[loc[t].sched] = 0
    <3>1. nsems' = nsems + 1 /\ sems' = [sems EXCEPT ![loc[t].sched] = nsems + 1]
      BY <1>3, <2>3 DEF FireSemaphore
    <3>2. \A u \in Threads : u # t /\ Refers(u) => loc[u].sem # nsems + 1
      BY <1>0
    <3>3. \A s \in Schedules : sems[s] # nsems + 1
      BY <1>0
    <3>4. QED
      BY <1>0, <2>1, <3>1, <3>2, <3>3
  <2>4. QED
    BY <2>2, <2>3
<1>4. ASSUME NEW t \in Threads, FireAcquire(t) \/ FireRelease(t) PROVE Ownership'
  <2>1. /\ \A u \in Threads : Refers(u)' => Refers(u) /\ loc'[u] = loc[u]
        /\ UNCHANGED <<sems, entries>>
    BY <1>4 DEF FireAcquire, FireRelease, Leave, Refers, Holding, TypeOK, PcOK, LocalsOK
  <2>2. QED
    BY <2>1
<1>5. ASSUME NEW h \in Handlers, hloc[h].sched \in Schedules, RegisterStep(h) PROVE Ownership'
  <2>1. /\ sems' = [sems EXCEPT ![hloc[h].sched] = nsems + 1]
        /\ entries' \subseteq entries \cup {hloc[h].sched} /\ UNCHANGED <<tpc, loc>>
    BY <1>5 DEF RegisterStep, Register
  <2>2. \A u \in Threads : Refers(u) => loc[u].sem # nsems + 1
    BY <1>0
  <2>3. \A s \in Schedules : sems[s] # nsems + 1
    BY <1>0
  <2>4. QED
    BY <1>0, <1>5, <2>1, <2>2, <2>3 DEF Refers, Holding
<1>6. ASSUME NEW h \in Handlers, hloc[h].sched \in Schedules, UnregisterStep(h) PROVE Ownership'
  <2>1. /\ sems' = [sems EXCEPT ![hloc[h].sched] = 0]
        /\ entries' = entries \ {hloc[h].sched} /\ UNCHANGED <<tpc, loc>>
    BY <1>6 DEF UnregisterStep, Unregister
  <2>2. \A u \in Threads : Refers(u) => loc[u].sem # 0
    BY <1>0
  <2>3. QED
    BY <1>0, <1>6, <2>1, <2>2 DEF Refers, Holding
<1> HIDE DEF Ownership
<1>7. QED
  BY <1>1, <1>2, <1>3, <1>4, <1>5, <1>6, SemaphoreSteps

\* The tokens.  Only the acquire and the release change a set of holders, each by
\* the one fire that takes the step.
LEMMA TokensStep ==
  ASSUME TypeOK, TypeOK', StackShape, References, Tokens, Pristine, [Next]_vars
  PROVE  Tokens'
<1> USE SchedulerBounds
<1>0. /\ semTok \in [1..MaxSems -> Nat] /\ semCap \in [1..MaxSems -> Nat] /\ nsems \in Nat
      /\ semCap' \in [1..MaxSems -> Nat]
      /\ \A i \in 1..MaxSems : i > nsems => semTok[i] = 0
  BY DEF TypeOK, SemOK, References
<1>1. CASE Start
  <2>1. \A i \in 1..MaxSems : semTok'[i] = 0
    BY <1>0, <1>1 DEF Start, Pristine
  <2>2. \A i : Holders(i)' = {}
    BY <1>1 DEF Start, Holders, Holding
  <2>3. Cardinality({}) = 0
    BY FS_EmptySet
  <2>4. ASSUME NEW i \in 1..MaxSems
        PROVE  semTok'[i] = Cardinality(Holders(i)') /\ semTok'[i] <= semCap'[i]
    <3>1. Cardinality(Holders(i)') = 0
      BY <2>2, <2>3, Zenon
    <3>2. semTok'[i] = 0 /\ semCap'[i] \in Nat
      BY <1>0, <2>1
    <3>3. QED
      BY <3>1, <3>2
  <2>5. QED
    BY <2>4 DEF Tokens
<1>2. CASE SemaphoresAlone
  <2>1. \A i : Holders(i)' = Holders(i)
    BY <1>2 DEF SemaphoresAlone, KeepsSlot, Holders, Refers
  <2>2. QED
    BY <1>2, <2>1 DEF SemaphoresAlone, Tokens
<1>3. ASSUME NEW t \in Threads, FireSemaphore(t) PROVE Tokens'
  <2>1. \A u \in Threads : Holding(u)' = Holding(u) /\ (Holding(u) => loc'[u] = loc[u])
    BY <1>3 DEF FireSemaphore, Holding, TypeOK, PcOK, LocalsOK
  <2>2. \A i : Holders(i)' = Holders(i)
    BY <2>1 DEF Holders
  <2>3. semTok' = semTok /\ \A i \in 1..MaxSems : i <= nsems => semCap'[i] = semCap[i]
    BY <1>0, <1>3 DEF FireSemaphore
  <2>4. QED
    BY <1>0, <2>2, <2>3 DEF Tokens
<1>4. ASSUME NEW t \in Threads, FireAcquire(t) PROVE Tokens'
  <2>0. PICK i \in 1..MaxSems : i = loc[t].sem
    BY <1>4, RefersExists DEF FireAcquire, Refers
  <2>1. ~Holding(t)
    BY <1>4 DEF FireAcquire, Holding
  <2>2. /\ semTok' = [semTok EXCEPT ![i] = @ + 1] /\ semTok[i] < semCap[i] /\ semCap' = semCap /\ loc' = loc
        /\ Holding(t)' /\ \A u \in Threads : u # t => Holding(u)' = Holding(u)
    BY <1>4, <2>0 DEF FireAcquire, Holding, TypeOK, PcOK
  <2>3. Holders(i)' = Holders(i) \cup {t} /\ t \notin Holders(i)
    BY <2>0, <2>1, <2>2 DEF Holders
  <2>4. \A j : j # i => Holders(j)' = Holders(j)
    BY <2>0, <2>1, <2>2 DEF Holders
  <2>5. Cardinality(Holders(i)') = Cardinality(Holders(i)) + 1
    BY <2>3, HoldersFinite, FS_AddElement
  <2>6. ASSUME NEW j \in 1..MaxSems
        PROVE  semTok'[j] = Cardinality(Holders(j)') /\ semTok'[j] <= semCap'[j]
    <3>1. semTok[j] = Cardinality(Holders(j)) /\ semTok[j] <= semCap[j]
      BY DEF Tokens
    <3>2. CASE j = i
      <4>1. Cardinality(Holders(j)') = Cardinality(Holders(j)) + 1
        BY <2>5, <3>2
      <4>2. semTok[j] \in Nat /\ semCap[j] \in Nat /\ semTok'[j] = semTok[j] + 1
        BY <1>0, <2>2, <3>2
      <4>3. QED
        BY <2>2, <3>1, <3>2, <4>1, <4>2
    <3>3. CASE j # i
      BY <1>0, <2>1, <2>2, <2>4, <3>1, <3>3
    <3>4. QED
      BY <3>2, <3>3
  <2>7. QED
    BY <2>6 DEF Tokens
<1>5. ASSUME NEW t \in Threads, FireRelease(t) PROVE Tokens'
  <2>0. PICK i \in 1..MaxSems : i = loc[t].sem
    BY <1>5, RefersExists DEF FireRelease, Refers, Holding
  <2>1. Holding(t)
    BY <1>5 DEF FireRelease, Holding
  <2>2. /\ semTok' = [semTok EXCEPT ![i] = @ - 1] /\ semCap' = semCap
        /\ ~Holding(t)' /\ \A u \in Threads : u # t => Holding(u)' = Holding(u) /\ loc'[u] = loc[u]
    BY <1>5, <2>0 DEF FireRelease, Leave, Holding, TypeOK, PcOK, LocalsOK
  <2>3. Holders(i)' = Holders(i) \ {t} /\ t \in Holders(i)
    BY <2>0, <2>1, <2>2 DEF Holders
  <2>4. ASSUME NEW j, j # i PROVE Holders(j)' = Holders(j)
    <3>1. \A u \in Threads : Holding(u)' /\ loc'[u].sem = j <=> Holding(u) /\ loc[u].sem = j
      BY <2>0, <2>1, <2>2, <2>4
    <3>2. QED
      BY <3>1, Zenon DEF Holders
  <2>5. Cardinality(Holders(i)') = Cardinality(Holders(i)) - 1
    BY <2>3, HoldersFinite, FS_RemoveElement
  <2>6. ASSUME NEW j \in 1..MaxSems
        PROVE  semTok'[j] = Cardinality(Holders(j)') /\ semTok'[j] <= semCap'[j]
    <3>1. semTok[j] = Cardinality(Holders(j)) /\ semTok[j] <= semCap[j]
      BY DEF Tokens
    <3>2. CASE j = i
      <4>1. Cardinality(Holders(j)') = Cardinality(Holders(j)) - 1
        BY <2>5, <3>2
      <4>2. semTok[j] \in Nat /\ semCap[j] \in Nat /\ semTok'[j] = semTok[j] - 1
        BY <1>0, <2>2, <3>2
      <4>3. QED
        BY <2>2, <3>1, <3>2, <4>1, <4>2
    <3>3. CASE j # i
      BY <1>0, <2>1, <2>2, <2>4, <3>1, <3>3
    <3>4. QED
      BY <3>2, <3>3
  <2>7. QED
    BY <2>6 DEF Tokens
<1>6. ASSUME NEW h \in Handlers, RegisterStep(h) \/ UnregisterStep(h) PROVE Tokens'
  <2>1. UNCHANGED <<semTok, tpc, loc>> /\ \A i \in 1..MaxSems : i <= nsems => semCap'[i] = semCap[i]
    <3>1. CASE RegisterStep(h)
      BY <1>0, <3>1 DEF RegisterStep, Register
    <3>2. CASE UnregisterStep(h)
      BY <1>0, <3>2 DEF UnregisterStep, Unregister
    <3>3. QED
      BY <1>6, <3>1, <3>2
  <2>2. \A i : Holders(i)' = Holders(i)
    BY <2>1 DEF Holders, Holding
  <2>3. QED
    BY <1>0, <2>1, <2>2 DEF Tokens
<1>7. QED
  BY <1>1, <1>2, <1>3, <1>4, <1>5, <1>6, SemaphoreSteps

\* Nothing moves before Start.
LEMMA PristineStep ==
  ASSUME TypeOK, StackShape, Pristine, Shutdown, [Next]_vars
  PROVE  Pristine'
<1> SUFFICES ASSUME spc' = "new" PROVE Pristine'
  BY DEF Pristine
<1>1. ASSUME NEW t \in Threads, FireStep(t) PROVE Pristine'
  BY <1>1, FireEffect DEF Pristine, InFire, Holding
<1>2. ASSUME NEW t \in Threads, ThreadMoves(t) PROVE Pristine'
  BY <1>2 DEF ThreadMoves, Pristine
<1>3. ASSUME NEW h \in Handlers,
             HandlerStep(h) \/ \E s \in Schedules : CreateSchedule(h, s) \/ UpdateGet(h, s) \/ DeleteGet(h, s)
      PROVE  Pristine'
  <2>1. spc = "new"
    BY <1>3, HandlerEffect
  <2>2. QED
    BY <1>3, <2>1 DEF Pristine, HandlerStep, UpdatePut, RegisterStep, DeleteTx, UnregisterStep, HandlerFails,
                      CreateSchedule, UpdateGet, DeleteGet
<1>4. ASSUME NEW s \in Schedules, CronFire(s) \/ Enqueue(s) PROVE Pristine'
  BY <1>4 DEF CronFire, Enqueue, Pristine, Shutdown
<1>5. CASE Start \/ StopBegin \/ StopClose \/ StopReturn
  BY <1>5 DEF Start, StopBegin, StopClose, StopReturn
<1>6. CASE UNCHANGED vars
  BY <1>6 DEF vars, Pristine
<1>7. ASSUME NEW t \in Threads,
             \/ t \in Workers /\ (WorkerStart(t) \/ WorkerTake(t) \/ WorkerExit(t))
             \/ t \in Catchers /\ (CatchUpFire(t) \/ CatchUpDone(t))
             \/ \E s \in Schedules : RunNow(t, s)
      PROVE  Pristine'
  BY <1>2, <1>7, ThreadEffect
<1>8. QED
  BY <1>1, <1>3, <1>4, <1>5, <1>6, <1>7 DEF Next, WorkerStep, CatchUpStep, StopStep, Threads

\* The channel, and what the threads that left have seen.
LEMMA ShutdownStep ==
  ASSUME TypeOK, StackShape, Pristine, Shutdown, [Next]_vars
  PROVE  Shutdown'
<1> USE DEF Shutdown
<1>0. tpc = [t \in Threads |-> tpc[t]] /\ closed \in BOOLEAN
  BY DEF TypeOK, PcOK, QueueOK
<1>1. CASE Start
  <2>1. \A t \in Threads : tpc'[t] # "exited"
    BY <1>1 DEF Start
  <2>2. Catchers = {} => \A s \in Schedules : missed'[s] = 0
    BY <1>1 DEF Start
  <2>3. QED
    BY <1>1, <2>1, <2>2 DEF Start, Threads
<1>2. ASSUME NEW s \in Schedules, CronFire(s) PROVE Shutdown'
  BY <1>2 DEF CronFire
<1>3. ASSUME NEW s \in Schedules, Enqueue(s) PROVE Shutdown'
  <2>1. queue' = queue \/ ~closed
    BY <1>3 DEF Enqueue
  <2>2. QED
    BY <1>3, <2>1 DEF Enqueue
<1>4. ASSUME NEW w \in Workers, WorkerStart(w) PROVE Shutdown'
  BY <1>0, <1>4, ThreadAssumption DEF WorkerStart, Threads
<1>5. ASSUME NEW w \in Workers, WorkerTake(w) PROVE Shutdown'
  BY <1>0, <1>5 DEF WorkerTake, Enter, Threads
<1>6. ASSUME NEW w \in Workers, WorkerExit(w) PROVE Shutdown'
  BY <1>0, <1>6, ThreadAssumption DEF WorkerExit, Threads
<1>7. ASSUME NEW c \in Callers, NEW s \in Schedules, RunNow(c, s) PROVE Shutdown'
  BY <1>0, <1>7 DEF RunNow, Enter, Threads
<1>8. ASSUME NEW t \in Catchers, CatchUpFire(t) PROVE Shutdown'
  <2>1. \A u \in Catchers : u = t
    BY ThreadAssumption
  <2>2. tpc'[t] = "load" /\ tpc[t] # "exited" /\ \A u \in Threads : u # t => tpc'[u] = tpc[u]
    BY <1>0, <1>8 DEF CatchUpFire, Enter, Threads
  <2>3. QED
    BY <1>8, <2>1, <2>2, ThreadAssumption DEF CatchUpFire, Threads
<1>9. ASSUME NEW t \in Catchers, CatchUpDone(t) PROVE Shutdown'
  BY <1>0, <1>9, ThreadAssumption DEF CatchUpDone, Threads
<1>10. ASSUME NEW t \in Threads, FireStep(t) PROVE Shutdown'
  <2>1. /\ tpc[t] # "exited" /\ tpc'[t] # "exited" /\ \A u \in Threads : u # t => tpc'[u] = tpc[u]
        /\ UNCHANGED <<jobs, queue, closed, missed, spc>>
    BY <1>10, FireEffect DEF InFire, Holding
  <2>2. QED
    BY <2>1 DEF Threads
<1>11. ASSUME NEW h \in Handlers,
              HandlerStep(h) \/ \E s \in Schedules : CreateSchedule(h, s) \/ UpdateGet(h, s) \/ DeleteGet(h, s)
       PROVE  Shutdown'
  <2>1. UNCHANGED <<jobs, queue, closed, missed, spc, tpc>>
    BY <1>11, HandlerEffect
  <2>2. QED
    BY <2>1
<1>12. CASE StopBegin
  BY <1>12 DEF StopBegin
<1>13. CASE StopClose
  BY <1>13 DEF StopClose
<1>14. CASE StopReturn
  BY <1>14 DEF StopReturn
<1>15. CASE UNCHANGED vars
  BY <1>15 DEF vars
<1> HIDE DEF Shutdown
<1>16. QED
  BY <1>1, <1>2, <1>3, <1>4, <1>5, <1>6, <1>7, <1>8, <1>9, <1>10, <1>11, <1>12, <1>13, <1>14, <1>15
     DEF Next, WorkerStep, CatchUpStep, StopStep, Threads

-----------------------------------------------------------------------------
(* The invariant, and the theorems. *)

\* The daemon opens a store and has started nothing.
LEMMA InvInit == Init => Inv
<1> SUFFICES ASSUME Init PROVE Inv
  OBVIOUS
<1>1. StoreOK
  <2>1. rec \in [Schedules -> Record]
    BY SchedulerBounds DEF Init, Record, Results
  <2>2. QED
    BY <2>1 DEF Init, StoreOK
<1>2. SemOK /\ PcOK
  BY SchedulerBounds DEF Init, SemOK, PcOK
<1>3. QueueOK
  <2>1. queue \in Seq(Schedules) /\ Len(queue) = 0
    BY DEF Init
  <2>2. jobs = "nil" /\ closed = FALSE /\ spawned = [s \in Schedules |-> 0] /\ fires = 0
    BY DEF Init
  <2>3. Len(queue) <= QueueSize
    BY <2>1, SizeAssumption
  <2>4. spawned \in [Schedules -> 0..MaxFires] /\ fires \in 0..MaxFires
    BY <2>2, SchedulerBounds
  <2>5. QED
    BY <2>1, <2>2, <2>3, <2>4 DEF QueueOK
<1>4. LocalsOK
  BY ValueTypes, SchedulerBounds DEF Init, LocalsOK
<1>5. \A i : Holders(i) = {}
  BY DEF Init, Holders, Holding
<1>6. \A i \in 1..MaxSems : Cardinality(Holders(i)) = 0
  BY <1>5, FS_EmptySet
<1>7. StackShape /\ References /\ Ownership
  BY SchedulerBounds DEF Init, StackShape, References, Ownership, InFire, Refers, Holding
<1>8. Tokens /\ Pristine /\ Shutdown
  BY <1>6, ThreadAssumption DEF Init, Tokens, Pristine, Shutdown, Threads
<1>9. QED
  BY <1>1, <1>2, <1>4, <1>7, <1>8, <1>3 DEF Inv, TypeOK

\* Every step keeps it.
LEMMA InvStep == Inv /\ [Next]_vars => Inv'
<1> SUFFICES ASSUME Inv, [Next]_vars PROVE Inv'
  OBVIOUS
<1>1. TypeOK'
  BY TypeStep DEF Inv
<1>2. QED
  BY <1>1, StackStep, ReferencesStep, OwnershipStep, TokensStep, PristineStep, ShutdownStep DEF Inv

LEMMA InvAlways == Spec => []Inv
BY InvInit, InvStep, PTL DEF Spec

\* For any number of threads that fire while requests register and unregister
\* schedules, a semaphore's tokens are the fires that hold it, within its capacity,
\* and every variable has its type (Register, semaphore, fire's deferred release).
THEOREM SlotsAreExact == Spec => []SemaphoreExact
<1>1. Inv => SemaphoreExact
  BY DEF Inv, Tokens, SemaphoreExact
<1>2. QED
  BY <1>1, InvAlways, PTL

\* A schedule that fires or is reconfigured does not touch the slots of another,
\* and a cron entry finds a semaphore (Register, Unregister, semaphore).
THEOREM SchedulesAreIsolated == Spec => []SchedulesIsolated
<1>1. Inv => SchedulesIsolated
  BY DEF Inv, Ownership, SchedulesIsolated, Holders, Refers
<1>2. QED
  BY <1>1, InvAlways, PTL

\* When Stop returns, every accepted job and every missed fire has been dispatched
\* and no worker is inside a fire (Stop, worker, runCatchUp, enqueue).
THEOREM StopIsADrain == Spec => []StopDrains
<1>1. Inv => StopDrains
  <2> SUFFICES ASSUME Inv, spc = "returned"
               PROVE  /\ queue = << >> /\ closed /\ jobs = "nil"
                      /\ \A t \in Workers \cup Catchers : ~Holding(t)
                      /\ \A s \in Schedules : missed[s] = 0
    BY DEF StopDrains
  <2>1. \A t \in Workers \cup Catchers : tpc[t] = "exited"
    BY DEF Inv, Shutdown
  <2>2. PICK w \in Workers : TRUE
    BY ThreadAssumption
  <2>3. queue = << >> /\ closed /\ jobs = "nil"
    BY <2>1, <2>2 DEF Inv, Shutdown, TypeOK, QueueOK
  <2>4. \A t \in Workers \cup Catchers : ~Holding(t)
    BY <2>1 DEF Holding
  <2>5. \A s \in Schedules : missed[s] = 0
    BY <2>1 DEF Inv, Shutdown
  <2>6. QED
    BY <2>3, <2>4, <2>5
<1>2. QED
  BY <1>1, InvAlways, PTL

-----------------------------------------------------------------------------
(* Read and write of a record. *)

\* What holds of a schedule while no write to it went over another: whoever has
\* read its record has a copy that is still what is stored (a PATCH, of the one
\* field it keeps), and an ID that is still to be created is not stored.
Kept(s) ==
  /\ intended[s] = StoredRecord(s)
  /\ \A t \in FiresOpen(s) : s \in stored /\ loc[t].copy = rec[s]
  /\ \A h \in PatchesOpen(s) : s \in stored /\ hloc[h].copy.last = rec[s].last
  /\ s \in fresh => s \notin stored
LastWrites == HistoryOK /\ \A s \in Schedules \ overlapped : Kept(s)

\* The threads and the handlers that have a record open: a step opens none, or
\* leaves the copies of those that stay as they are.
OpensNoFire  == \A t \in Threads : tpc'[t] = "finalput" => tpc[t] = "finalput" /\ loc'[t] = loc[t]
OpensNoPatch == \A h \in Handlers : hpc'[h] = "put" => hpc[h] = "put" /\ hloc'[h] = hloc[h]

\* A schedule whose record a step leaves alone, and that it does not open, is kept.
LEMMA KeptFrame ==
  ASSUME NEW s \in Schedules, Kept(s), OpensNoFire, OpensNoPatch,
         intended'[s] = intended[s], rec'[s] = rec[s], s \in stored' <=> s \in stored,
         s \in fresh' => s \in fresh
  PROVE  Kept(s)'
<1>1. \A t \in FiresOpen(s)' : t \in FiresOpen(s) /\ loc'[t] = loc[t]
  BY DEF FiresOpen, OpensNoFire
<1>2. \A h \in PatchesOpen(s)' : h \in PatchesOpen(s) /\ hloc'[h] = hloc[h]
  BY DEF PatchesOpen, OpensNoPatch
<1>3. StoredRecord(s)' = StoredRecord(s)
  BY DEF StoredRecord
<1>4. QED
  BY <1>1, <1>2, <1>3 DEF Kept

\* A step that leaves the store alone and opens no record keeps them all.
LEMMA StoreUntouched ==
  ASSUME LastWrites, OpensNoFire, OpensNoPatch, UNCHANGED <<stored, rec, fresh, historyVars>>
  PROVE  LastWrites'
<1>1. HistoryOK'
  BY DEF LastWrites, HistoryOK
<1>2. \A s \in Schedules \ overlapped' : Kept(s)'
  BY KeptFrame DEF LastWrites
<1>3. QED
  BY <1>1, <1>2 DEF LastWrites

\* What a write does to the history.
LEMMA WriteEffect ==
  ASSUME HistoryOK, NEW s \in Schedules, NEW alone \in BOOLEAN, NEW meant \in SUBSET Record,
         Writes(s, alone, meant)
  PROVE  /\ HistoryOK'
         /\ \A r \in Schedules : r # s => intended'[r] = intended[r]
         /\ \A r \in Schedules \ overlapped' : r \notin overlapped
         /\ s \notin overlapped' => alone /\ intended'[s] = meant
BY DEF Writes, HistoryOK

\* finalize writes back the record with its result: if no other write was under
\* way, that is what the schedule was, with the result.
LEMMA FinalizePutKeeps ==
  ASSUME TypeOK, StackShape, LastWrites, NEW t \in Threads, FinalizePut(t)
  PROVE  LastWrites'
<1>0. loc[t] \in Locals /\ loc[t].sched \in Schedules /\ HistoryOK
  BY DEF TypeOK, LocalsOK, FinalizePut, StackShape, InFire, Holding, LastWrites
<1>1. PICK s \in Schedules : s = loc[t].sched
  BY <1>0
<1> DEFINE alone == FiresOpen(s) = {t} /\ PatchesOpen(s) = {}
           meant == {[r EXCEPT !.last = loc[t].result] : r \in intended[s]}
           new == [loc[t].copy EXCEPT !.last = loc[t].result]
<1>2. /\ tpc[t] = "finalput" /\ tpc' = [tpc EXCEPT ![t] = "release"]
      /\ \A u \in Threads : u # t => tpc'[u] = tpc[u] /\ loc'[u] = loc[u]
      /\ tpc'[t] = "release"
  BY DEF FinalizePut, TypeOK, PcOK, LocalsOK
<1>3. OpensNoFire
  BY <1>2 DEF OpensNoFire
<1>4. OpensNoPatch
  BY DEF OpensNoPatch, FinalizePut
<1>5. CASE UNCHANGED <<rec, stored, historyVars>>
  BY <1>3, <1>4, <1>5, StoreUntouched DEF FinalizePut
<1>6. CASE ~UNCHANGED <<rec, stored, historyVars>>
  <2>1. /\ rec' = [rec EXCEPT ![s] = new] /\ stored' = stored \cup {s} /\ fresh' = fresh
        /\ Writes(s, alone, meant)
    BY <1>1, <1>6 DEF FinalizePut
  <2>2. meant \in SUBSET Record
    BY <1>0 DEF HistoryOK, Record, Locals
  <2>3. alone \in BOOLEAN
    OBVIOUS
  <2> HIDE DEF alone, meant
  <2>4. /\ HistoryOK'
        /\ \A r \in Schedules : r # s => intended'[r] = intended[r]
        /\ \A r \in Schedules \ overlapped' : r \notin overlapped
        /\ s \notin overlapped' => alone /\ intended'[s] = meant
    BY <1>0, <2>1, <2>2, <2>3, WriteEffect
  <2>5. ASSUME NEW r \in Schedules \ overlapped', r # s PROVE Kept(r)'
    <3>1. r \notin overlapped /\ Kept(r)
      BY <2>4, <2>5 DEF LastWrites
    <3>2. rec'[r] = rec[r] /\ (r \in stored' <=> r \in stored) /\ intended'[r] = intended[r]
      BY <1>1, <2>1, <2>4, <2>5 DEF TypeOK, StoreOK
    <3>3. QED
      BY <1>3, <1>4, <2>1, <3>1, <3>2, KeptFrame
  <2>6. ASSUME s \notin overlapped' PROVE Kept(s)'
    <3>1. Kept(s) /\ alone /\ intended'[s] = meant
      BY <1>1, <2>4, <2>6 DEF LastWrites
    <3>2. t \in FiresOpen(s)
      BY <1>1, <1>2 DEF FiresOpen
    <3>3. s \in stored /\ loc[t].copy = rec[s] /\ intended[s] = {rec[s]}
      BY <3>1, <3>2 DEF Kept, StoredRecord
    <3>4. rec'[s] = new /\ s \in stored'
      BY <1>1, <2>1 DEF TypeOK, StoreOK
    <3>5. meant = {new}
      BY <3>3 DEF meant
    <3>6. StoredRecord(s)' = {new}
      BY <3>4 DEF StoredRecord
    <3>7. FiresOpen(s)' = {}
      <4>1. \A u \in Threads : u # t /\ loc[u].sched = s => tpc[u] # "finalput"
        BY <3>1 DEF alone, FiresOpen
      <4>2. QED
        BY <1>2, <4>1 DEF FiresOpen
    <3>8. PatchesOpen(s)' = {}
      BY <3>1 DEF alone, PatchesOpen, FinalizePut
    <3>9. s \notin fresh'
      BY <2>1, <3>1, <3>3 DEF Kept
    <3> HIDE DEF new
    <3>10. QED
      BY <3>1, <3>5, <3>6, <3>7, <3>8, <3>9 DEF Kept
  <2>7. QED
    BY <2>4, <2>5, <2>6 DEF LastWrites
<1>7. QED
  BY <1>5, <1>6

\* PATCH writes back its copy: if no other write was under way, that is the
\* schedule with the new configuration and the result it had.
LEMMA UpdatePutKeeps ==
  ASSUME TypeOK, StackShape, LastWrites, NEW h \in Handlers, UpdatePut(h)
  PROVE  LastWrites'
<1>0. hloc[h].copy \in Record /\ hloc[h].sched \in Schedules /\ HistoryOK
  BY DEF TypeOK, LocalsOK, UpdatePut, StackShape, LastWrites
<1>1. PICK s \in Schedules : s = hloc[h].sched
  BY <1>0
<1> DEFINE alone == FiresOpen(s) = {} /\ PatchesOpen(s) = {h}
           new == hloc[h].copy
           meant == {[new EXCEPT !.last = r.last] : r \in intended[s]}
<1>2. /\ hpc[h] = "put" /\ hpc'[h] = "register" /\ hloc' = hloc
      /\ \A g \in Handlers : g # h => hpc'[g] = hpc[g]
  BY DEF UpdatePut, TypeOK, PcOK
<1>3. OpensNoFire /\ OpensNoPatch
  BY <1>2 DEF OpensNoFire, OpensNoPatch, UpdatePut
<1>4. /\ rec' = [rec EXCEPT ![s] = new] /\ stored' = stored \cup {s} /\ fresh' = fresh
      /\ Writes(s, alone, meant) /\ UNCHANGED <<tpc, loc>>
  BY <1>1 DEF UpdatePut
<1>5. meant \in SUBSET Record /\ alone \in BOOLEAN
  BY <1>0 DEF HistoryOK, Record
<1> HIDE DEF alone, meant
<1>6. /\ HistoryOK'
      /\ \A r \in Schedules : r # s => intended'[r] = intended[r]
      /\ \A r \in Schedules \ overlapped' : r \notin overlapped
      /\ s \notin overlapped' => alone /\ intended'[s] = meant
  BY <1>0, <1>4, <1>5, WriteEffect
<1>7. ASSUME NEW r \in Schedules \ overlapped', r # s PROVE Kept(r)'
  <2>1. r \notin overlapped /\ Kept(r)
    BY <1>6, <1>7 DEF LastWrites
  <2>2. rec'[r] = rec[r] /\ (r \in stored' <=> r \in stored) /\ intended'[r] = intended[r]
    BY <1>4, <1>6, <1>7 DEF TypeOK, StoreOK
  <2>3. QED
    BY <1>3, <1>4, <2>1, <2>2, KeptFrame
<1>8. ASSUME s \notin overlapped' PROVE Kept(s)'
  <2>1. Kept(s) /\ alone /\ intended'[s] = meant
    BY <1>6, <1>8 DEF LastWrites
  <2>2. h \in PatchesOpen(s)
    BY <1>1, <1>2 DEF PatchesOpen
  <2>3. s \in stored /\ new.last = rec[s].last /\ intended[s] = {rec[s]}
    BY <2>1, <2>2 DEF Kept, StoredRecord
  <2>4. [new EXCEPT !.last = rec[s].last] = new
    BY <1>0, <2>3 DEF Record
  <2>5. meant = {new}
    BY <2>3, <2>4 DEF meant
  <2>6. StoredRecord(s)' = {new}
    BY <1>4 DEF StoredRecord, TypeOK, StoreOK
  <2>7. FiresOpen(s)' = {}
    BY <1>4, <2>1 DEF alone, FiresOpen
  <2>8. PatchesOpen(s)' = {}
    <3>1. \A g \in Handlers : g # h /\ hloc[g].sched = s => hpc[g] # "put"
      BY <2>1 DEF alone, PatchesOpen
    <3>2. QED
      BY <1>2, <3>1 DEF PatchesOpen
  <2>9. s \notin fresh'
    BY <1>4, <2>1, <2>3 DEF Kept
  <2> HIDE DEF new
  <2>10. QED
    BY <2>1, <2>5, <2>6, <2>7, <2>8, <2>9 DEF Kept
<1>9. QED
  BY <1>6, <1>7, <1>8 DEF LastWrites

\* DELETE removes the record: if nobody had it open, nobody writes it back.
LEMMA DeleteTxKeeps ==
  ASSUME TypeOK, StackShape, LastWrites, NEW h \in Handlers, DeleteTx(h)
  PROVE  LastWrites'
<1>0. hloc[h].sched \in Schedules /\ HistoryOK
  BY DEF TypeOK, LocalsOK, DeleteTx, StackShape, LastWrites
<1>1. PICK s \in Schedules : s = hloc[h].sched
  BY <1>0
<1> DEFINE alone == FiresOpen(s) = {} /\ PatchesOpen(s) = {}
<1>2. /\ hpc'[h] = "unregister" /\ hloc' = hloc /\ \A g \in Handlers : g # h => hpc'[g] = hpc[g]
  BY DEF DeleteTx, TypeOK, PcOK
<1>3. OpensNoFire /\ OpensNoPatch
  BY <1>2 DEF OpensNoFire, OpensNoPatch, DeleteTx
<1>4. /\ rec' = [rec EXCEPT ![s] = NoCopy] /\ stored' = stored \ {s} /\ fresh' = fresh
      /\ Writes(s, alone, {}) /\ UNCHANGED <<tpc, loc>>
  BY <1>1 DEF DeleteTx
<1>5. alone \in BOOLEAN /\ {} \in SUBSET Record
  OBVIOUS
<1> HIDE DEF alone
<1>6. /\ HistoryOK'
      /\ \A r \in Schedules : r # s => intended'[r] = intended[r]
      /\ \A r \in Schedules \ overlapped' : r \notin overlapped
      /\ s \notin overlapped' => alone /\ intended'[s] = {}
  BY <1>0, <1>4, <1>5, WriteEffect
<1>7. ASSUME NEW r \in Schedules \ overlapped', r # s PROVE Kept(r)'
  <2>1. r \notin overlapped /\ Kept(r)
    BY <1>6, <1>7 DEF LastWrites
  <2>2. rec'[r] = rec[r] /\ (r \in stored' <=> r \in stored) /\ intended'[r] = intended[r]
    BY <1>4, <1>6, <1>7 DEF TypeOK, StoreOK
  <2>3. QED
    BY <1>3, <1>4, <2>1, <2>2, KeptFrame
<1>8. ASSUME s \notin overlapped' PROVE Kept(s)'
  <2>1. alone /\ intended'[s] = {}
    BY <1>6, <1>8
  <2>2. StoredRecord(s)' = {} /\ s \notin stored'
    BY <1>4 DEF StoredRecord
  <2>3. FiresOpen(s)' = {}
    BY <1>4, <2>1 DEF alone, FiresOpen
  <2>4. PatchesOpen(s)' = {}
    BY <1>2, <2>1 DEF alone, PatchesOpen
  <2>5. QED
    BY <2>1, <2>2, <2>3, <2>4 DEF Kept
<1>9. QED
  BY <1>6, <1>7, <1>8 DEF LastWrites

\* POST stores a record under an ID that nobody has read.
LEMMA CreateKeeps ==
  ASSUME TypeOK, StackShape, LastWrites, NEW h \in Handlers, NEW s \in Schedules, CreateSchedule(h, s)
  PROVE  LastWrites'
<1>1. PICK c \in ConcValues, on \in BOOLEAN :
        LET r == [ver |-> 0, conc |-> c, on |-> on, last |-> "none"] IN
        /\ rec' = [rec EXCEPT ![s] = r]
        /\ hloc' = [hloc EXCEPT ![h] = [sched |-> s, copy |-> r]]
        /\ intended' = [intended EXCEPT ![s] = {r}]
  BY DEF CreateSchedule
<1> DEFINE new == [ver |-> 0, conc |-> c, on |-> on, last |-> "none"]
<1>2. new \in Record
  BY SchedulerBounds DEF Record, Results
<1> HIDE DEF new
<1>3. /\ rec' = [rec EXCEPT ![s] = new] /\ intended' = [intended EXCEPT ![s] = {new}]
      /\ \A g \in Handlers : g # h => hpc'[g] = hpc[g] /\ hloc'[g] = hloc[g]
      /\ hpc'[h] = "register"
  BY <1>1 DEF new, CreateSchedule, TypeOK, PcOK, LocalsOK
<1>4. /\ stored' = stored \cup {s} /\ fresh' = fresh \ {s} /\ s \in fresh /\ hpc[h] = "idle"
      /\ UNCHANGED <<tpc, loc, overlapped>>
  BY DEF CreateSchedule
<1>5. OpensNoFire /\ OpensNoPatch
  BY <1>3, <1>4 DEF OpensNoFire, OpensNoPatch
<1>6. HistoryOK'
  BY <1>2, <1>3, <1>4 DEF LastWrites, HistoryOK
<1>7. ASSUME NEW r \in Schedules \ overlapped', r # s PROVE Kept(r)'
  <2>1. Kept(r)
    BY <1>4, <1>7 DEF LastWrites
  <2>2. /\ rec'[r] = rec[r] /\ (r \in stored' <=> r \in stored) /\ intended'[r] = intended[r]
        /\ (r \in fresh' => r \in fresh)
    BY <1>3, <1>4, <1>7 DEF TypeOK, StoreOK, LastWrites, HistoryOK
  <2>3. QED
    BY <1>5, <2>1, <2>2, KeptFrame
<1>8. ASSUME s \notin overlapped' PROVE Kept(s)'
  <2>1. Kept(s) /\ s \notin stored
    BY <1>4, <1>8 DEF LastWrites, Kept
  <2>2. FiresOpen(s) = {} /\ PatchesOpen(s) = {}
    BY <2>1 DEF Kept
  <2>3. FiresOpen(s)' = {}
    BY <1>4, <2>2 DEF FiresOpen
  <2>4. PatchesOpen(s)' = {}
    BY <1>3, <2>2 DEF PatchesOpen
  <2>5. intended'[s] = {new} /\ StoredRecord(s)' = {new}
    BY <1>3, <1>4 DEF StoredRecord, TypeOK, StoreOK, LastWrites, HistoryOK
  <2>6. QED
    BY <1>4, <2>3, <2>4, <2>5 DEF Kept
<1>9. QED
  BY <1>6, <1>7, <1>8 DEF LastWrites

\* finalize reads a record: the copy is what is stored.
LEMMA FinalizeGetKeeps ==
  ASSUME TypeOK, LastWrites, NEW t \in Threads, FinalizeGet(t)
  PROVE  LastWrites'
<1>1. /\ loc[t] \in Locals /\ \A u \in Threads : u # t => tpc'[u] = tpc[u] /\ loc'[u] = loc[u]
      /\ UNCHANGED <<stored, rec, fresh, historyVars, hpc, hloc>>
  BY DEF TypeOK, PcOK, LocalsOK, FinalizeGet
<1>2. tpc'[t] = "finalput" =>
        /\ loc[t].sched \in stored /\ loc'[t].sched = loc[t].sched
        /\ loc'[t].copy = rec[loc[t].sched]
  BY <1>1 DEF FinalizeGet, TypeOK, PcOK, LocalsOK, Locals
<1>3. HistoryOK'
  BY <1>1 DEF LastWrites, HistoryOK
<1>4. ASSUME NEW s \in Schedules \ overlapped' PROVE Kept(s)'
  <2>1. Kept(s)
    BY <1>1 DEF LastWrites
  <2>2. \A u \in FiresOpen(s)' : s \in stored /\ loc'[u].copy = rec[s]
    <3> SUFFICES ASSUME NEW u \in FiresOpen(s)' PROVE s \in stored /\ loc'[u].copy = rec[s]
      OBVIOUS
    <3>1. u \in Threads /\ tpc'[u] = "finalput" /\ loc'[u].sched = s
      BY DEF FiresOpen
    <3>2. CASE u = t
      BY <1>2, <3>1, <3>2
    <3>3. CASE u # t
      BY <1>1, <2>1, <3>1, <3>3 DEF FiresOpen, Kept
    <3>4. QED
      BY <3>2, <3>3
  <2>3. \A h \in PatchesOpen(s)' : s \in stored /\ hloc[h].copy.last = rec[s].last
    BY <1>1, <2>1 DEF PatchesOpen, Kept
  <2>4. StoredRecord(s)' = StoredRecord(s)
    BY <1>1 DEF StoredRecord
  <2>5. QED
    BY <1>1, <2>1, <2>2, <2>3, <2>4 DEF Kept
<1>5. QED
  BY <1>3, <1>4 DEF LastWrites

\* PATCH reads a record: it keeps the result that is stored.
LEMMA UpdateGetKeeps ==
  ASSUME TypeOK, LastWrites, NEW h \in Handlers, NEW r \in Schedules, UpdateGet(h, r)
  PROVE  LastWrites'
<1>1. /\ \A g \in Handlers : g # h => hpc'[g] = hpc[g] /\ hloc'[g] = hloc[g]
      /\ r \in stored /\ UNCHANGED <<stored, rec, fresh, historyVars, tpc, loc>>
  BY DEF TypeOK, PcOK, LocalsOK, UpdateGet
<1>2. hloc'[h].sched = r /\ hloc'[h].copy.last = rec[r].last
  BY DEF UpdateGet, TypeOK, LocalsOK
<1>3. HistoryOK'
  BY <1>1 DEF LastWrites, HistoryOK
<1>4. ASSUME NEW s \in Schedules \ overlapped' PROVE Kept(s)'
  <2>1. Kept(s)
    BY <1>1 DEF LastWrites
  <2>2. \A u \in FiresOpen(s)' : s \in stored /\ loc'[u].copy = rec[s]
    BY <1>1, <2>1 DEF FiresOpen, Kept
  <2>3. \A g \in PatchesOpen(s)' : s \in stored /\ hloc'[g].copy.last = rec[s].last
    <3> SUFFICES ASSUME NEW g \in PatchesOpen(s)' PROVE s \in stored /\ hloc'[g].copy.last = rec[s].last
      OBVIOUS
    <3>1. g \in Handlers /\ hpc'[g] = "put" /\ hloc'[g].sched = s
      BY DEF PatchesOpen
    <3>2. CASE g = h
      BY <1>1, <1>2, <3>1, <3>2
    <3>3. CASE g # h
      BY <1>1, <2>1, <3>1, <3>3 DEF PatchesOpen, Kept
    <3>4. QED
      BY <3>2, <3>3
  <2>4. StoredRecord(s)' = StoredRecord(s)
    BY <1>1 DEF StoredRecord
  <2>5. QED
    BY <1>1, <2>1, <2>2, <2>3, <2>4 DEF Kept
<1>5. QED
  BY <1>3, <1>4 DEF LastWrites

\* The other steps of a fire do not touch a record.
LEMMA FireKeeps ==
  ASSUME TypeOK, StackShape, LastWrites, NEW t \in Threads, FireStep(t)
  PROVE  LastWrites'
<1>1. CASE FinalizeGet(t)
  BY <1>1, FinalizeGetKeeps
<1>2. CASE FinalizePut(t)
  BY <1>2, FinalizePutKeeps
<1>3. CASE \/ FireLoad(t) \/ FireSemaphore(t) \/ FireAcquire(t) \/ FireSkip(t) \/ FireResolve(t)
           \/ FireVMNotFound(t) \/ FireAttempt(t) \/ FireRelease(t)
  <2>1. UNCHANGED <<stored, rec, fresh, historyVars, hpc, hloc>>
    BY <1>3 DEF FireLoad, FireSemaphore, FireAcquire, FireSkip, FireResolve, FireVMNotFound, FireAttempt,
                FireRelease
  <2>2. tpc'[t] # "finalput"
    BY <1>3 DEF FireLoad, FireSemaphore, FireAcquire, FireSkip, FireResolve, FireVMNotFound, FireAttempt,
                FireRelease, Leave, EndTarget, TypeOK, PcOK
  <2>3. \A u \in Threads : u # t => tpc'[u] = tpc[u] /\ loc'[u] = loc[u]
    BY FireEffect
  <2>4. OpensNoFire /\ OpensNoPatch
    BY <2>1, <2>2, <2>3 DEF OpensNoFire, OpensNoPatch
  <2>5. QED
    BY <2>1, <2>4, StoreUntouched
<1>4. QED
  BY <1>1, <1>2, <1>3 DEF FireStep

\* Every step of a handler.
LEMMA HandlerKeeps ==
  ASSUME TypeOK, StackShape, LastWrites, NEW h \in Handlers,
         HandlerStep(h) \/ \E s \in Schedules : CreateSchedule(h, s) \/ UpdateGet(h, s) \/ DeleteGet(h, s)
  PROVE  LastWrites'
<1>1. CASE \E s \in Schedules : CreateSchedule(h, s) \/ UpdateGet(h, s)
  BY <1>1, CreateKeeps, UpdateGetKeeps
<1>2. CASE UpdatePut(h)
  BY <1>2, UpdatePutKeeps
<1>3. CASE DeleteTx(h)
  BY <1>3, DeleteTxKeeps
<1>4. CASE RegisterStep(h) \/ UnregisterStep(h) \/ HandlerFails(h) \/ \E s \in Schedules : DeleteGet(h, s)
  <2>1. hpc'[h] # "put" /\ UNCHANGED <<stored, rec, fresh, historyVars, tpc, loc>>
    BY <1>4 DEF RegisterStep, UnregisterStep, HandlerFails, DeleteGet, Answer, TypeOK, PcOK
  <2>2. \A g \in Handlers : g # h => hpc'[g] = hpc[g] /\ hloc'[g] = hloc[g]
    BY HandlerEffect
  <2>3. OpensNoFire /\ OpensNoPatch
    BY <2>1, <2>2 DEF OpensNoFire, OpensNoPatch
  <2>4. QED
    BY <2>1, <2>3, StoreUntouched
<1>5. QED
  BY <1>1, <1>2, <1>3, <1>4 DEF HandlerStep

\* Every step keeps what was written.
LEMMA LastWritesStep ==
  ASSUME TypeOK, StackShape, LastWrites, [Next]_vars
  PROVE  LastWrites'
<1>1. CASE Start
  <2>1. OpensNoFire /\ OpensNoPatch /\ UNCHANGED <<stored, rec, fresh, historyVars>>
    BY <1>1 DEF Start, OpensNoFire, OpensNoPatch
  <2>2. QED
    BY <2>1, StoreUntouched
<1>2. ASSUME NEW s \in Schedules, CronFire(s) \/ Enqueue(s) PROVE LastWrites'
  <2>1. OpensNoFire /\ OpensNoPatch /\ UNCHANGED <<stored, rec, fresh, historyVars>>
    BY <1>2 DEF CronFire, Enqueue, OpensNoFire, OpensNoPatch
  <2>2. QED
    BY <2>1, StoreUntouched
<1>3. ASSUME NEW t \in Threads,
             \/ t \in Workers /\ (WorkerStart(t) \/ WorkerTake(t) \/ WorkerExit(t))
             \/ t \in Catchers /\ (CatchUpFire(t) \/ CatchUpDone(t))
             \/ \E s \in Schedules : RunNow(t, s)
      PROVE  LastWrites'
  <2>1. /\ tpc'[t] # "finalput" /\ UNCHANGED <<stored, rec, fresh, historyVars, hpc, hloc>>
        /\ \A u \in Threads : u # t => tpc'[u] = tpc[u] /\ loc'[u] = loc[u]
    BY <1>3 DEF WorkerStart, WorkerTake, WorkerExit, CatchUpFire, CatchUpDone, RunNow, Enter,
                TypeOK, PcOK, LocalsOK
  <2>2. OpensNoFire /\ OpensNoPatch
    BY <2>1 DEF OpensNoFire, OpensNoPatch
  <2>3. QED
    BY <2>1, <2>2, StoreUntouched
<1>4. ASSUME NEW t \in Threads, FireStep(t) PROVE LastWrites'
  BY <1>4, FireKeeps
<1>5. ASSUME NEW h \in Handlers,
             HandlerStep(h) \/ \E s \in Schedules : CreateSchedule(h, s) \/ UpdateGet(h, s) \/ DeleteGet(h, s)
      PROVE  LastWrites'
  BY <1>5, HandlerKeeps
<1>6. CASE StopBegin \/ StopClose \/ StopReturn \/ UNCHANGED vars
  <2>1. OpensNoFire /\ OpensNoPatch /\ UNCHANGED <<stored, rec, fresh, historyVars>>
    BY <1>6 DEF StopBegin, StopClose, StopReturn, vars, OpensNoFire, OpensNoPatch
  <2>2. QED
    BY <2>1, StoreUntouched
<1>7. QED
  BY <1>1, <1>2, <1>3, <1>4, <1>5, <1>6 DEF Next, WorkerStep, CatchUpStep, StopStep, Threads

\* The store that is opened is what was written.
LEMMA LastWritesInit == Init => LastWrites
<1> SUFFICES ASSUME Init PROVE LastWrites
  OBVIOUS
<1>1. \A s \in Schedules : FiresOpen(s) = {} /\ PatchesOpen(s) = {}
  BY DEF Init, FiresOpen, PatchesOpen
<1>2. rec \in [Schedules -> Record]
  BY InvInit DEF Inv, TypeOK, StoreOK
<1>3. HistoryOK
  BY <1>2 DEF Init, HistoryOK, StoredRecord
<1>4. \A s \in Schedules : Kept(s)
  BY <1>1 DEF Init, Kept
<1>5. QED
  BY <1>3, <1>4 DEF LastWrites

\* For any number of fires and requests that read a record in one transaction and
\* write it back in another, a schedule is what they made of it, except after a
\* write that went over one it had not seen (finalize, UpdateSchedule,
\* DeleteScheduleWithRuns).
THEOREM WritesAreKept == Spec => []LastWriteCounts
<1>1. Init => Inv /\ LastWrites
  BY InvInit, LastWritesInit
<1>2. Inv /\ LastWrites /\ [Next]_vars => (Inv /\ LastWrites)'
  BY InvStep, LastWritesStep DEF Inv
<1>3. LastWrites => LastWriteCounts
  BY DEF LastWrites, LastWriteCounts, Kept
<1>4. QED
  BY <1>1, <1>2, <1>3, PTL DEF Spec
=============================================================================
