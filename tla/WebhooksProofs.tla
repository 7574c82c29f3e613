--------------------------- MODULE WebhooksProofs ---------------------------
(***************************************************************************)
(* Webhooks, for any number of requests, workers and events.               *)
(*                                                                         *)
(* Three inductive invariants.  Inv: one worker is in charge and Stop is   *)
(* final, because a process that has not been started has not been told to *)
(* stop either.  RegInv: the worker in charge follows the record, which a  *)
(* request in flight is about to change or to register.  FlowInv: for each *)
(* worker what it acknowledged, has in hand, has queued and has on offer   *)
(* is one ascending line of events, and what it lost it reports; from this *)
(* follow that no event is dropped in silence and that each is taken once, *)
(* in order.                                                               *)
(***************************************************************************)
EXTENDS Webhooks, TLAPS

States == {"none", "idle", "send", "wait"}

Types == pc \in [Workers -> States] /\ stop \in [Workers -> BOOLEAN]
FreshIsNotStopped == ~running => stopped = "no" /\ ~cancelled

Inv == Types /\ FreshIsNotStopped /\ OneWorkerInCharge /\ NothingRunsAfterStop

\* A new worker finds a free place, and nobody else in charge.
LEMMA NewWorkerAlive ==
    ASSUME NEW STATE record, Types, startWorkerLocked(record)
    PROVE  /\ pc' \in [Workers -> States]
           /\ \A v \in Workers : pc'[v] # "none" => pc[v] # "none" \/ (inCharge = 0 /\ v = inCharge')
           /\ inCharge # 0 => inCharge' = inCharge
<1>1. CASE inCharge = 0
  <2>1. PICK w \in Workers :
           ~Alive(w) /\ inCharge' = w /\ pc' = [pc EXCEPT ![w] = "idle"]
    BY <1>1 DEF startWorkerLocked, newWorker
  <2>2. QED
    BY <1>1, <2>1 DEF Types, States
<1>2. CASE inCharge # 0
  BY <1>2 DEF startWorkerLocked, NoWorker, Types
<1>3. QED
  BY <1>1, <1>2

\* What the goroutines of a worker do neither revives a worker nor changes who
\* is in charge.
LEMMA WorkerStep ==
    ASSUME Inv, NEW w \in Workers, Producing(w) \/ Delivering(w), ~Exit(w)
    PROVE  Inv'
<1>1. /\ pc' \in [Workers -> States]
      /\ \A v \in Workers : pc'[v] # "none" => pc[v] # "none"
      /\ UNCHANGED <<stop, inCharge, running, cancelled, stopped>>
  BY DEF Inv, Types, States, Producing, Delivering, Enqueue, Discard, publishOverflow, Take, Failed, Retry,
         GiveUp, recordSuccess, recordFailure, Idle, Alive, managerVars
<1>2. QED
  BY <1>1 DEF Inv, Types, FreshIsNotStopped, OneWorkerInCharge, NothingRunsAfterStop, Alive, Told

\* A worker that returns leaves its place free.
LEMMA ExitStep ==
    ASSUME Inv, NEW w \in Workers, Exit(w)
    PROVE  Inv'
<1>1. /\ pc' = [pc EXCEPT ![w] = "none"] /\ stop' = [stop EXCEPT ![w] = FALSE]
      /\ inCharge' = IF inCharge = w THEN Gone ELSE inCharge
      /\ UNCHANGED <<running, cancelled, stopped>>
  BY DEF Exit
<1>2. QED
  BY <1>1 DEF Inv, Types, States, FreshIsNotStopped, OneWorkerInCharge, NothingRunsAfterStop, Alive, Told

\* Requests: only Unregister and Register touch the manager.
LEMMA RequestStep ==
    ASSUME Inv, NEW h \in Handlers, Request(h)
    PROVE  Inv'
<1>1. CASE Unregister(h)
  <2>1. /\ inCharge' = 0 /\ stop' = [w \in Workers |-> stop[w] \/ w = inCharge]
        /\ UNCHANGED <<running, cancelled, stopped, pc>>
    BY <1>1 DEF Unregister
  <2>2. QED
    BY <2>1 DEF Inv, Types, FreshIsNotStopped, OneWorkerInCharge, NothingRunsAfterStop, Alive, Told
<1>2. CASE Register(h)
  <2>1. UNCHANGED <<running, cancelled, stopped, stop>>
    BY <1>2 DEF Register
  <2>2. CASE loc[h].active /\ stopped = "no"
    <3>1. startWorkerLocked(loc[h])
      BY <1>2, <2>2 DEF Register
    <3>2. /\ pc' \in [Workers -> States]
          /\ \A v \in Workers : pc'[v] # "none" => pc[v] # "none" \/ (inCharge = 0 /\ v = inCharge')
          /\ inCharge # 0 => inCharge' = inCharge
      BY <3>1, NewWorkerAlive DEF Inv
    <3>3. QED
      BY <2>1, <2>2, <3>2
         DEF Inv, Types, FreshIsNotStopped, OneWorkerInCharge, NothingRunsAfterStop, Alive, Told, Workers
  <2>3. CASE ~(loc[h].active /\ stopped = "no")
    <3>1. UNCHANGED <<inCharge, pc>>
      BY <1>2, <2>3 DEF Register, NoWorker
    <3>2. QED
      BY <2>1, <3>1 DEF Inv, Types, FreshIsNotStopped, OneWorkerInCharge, NothingRunsAfterStop, Alive, Told
  <2>4. QED
    BY <2>2, <2>3
<1>3. CASE ~Unregister(h) /\ ~Register(h)
  <2>1. UNCHANGED <<running, cancelled, stopped, inCharge, stop, pc>>
    BY <1>3 DEF Request, CreateWebhook, GetWebhook, UpdateWebhook, DeleteWebhook, TestDeliver,
                managerVars, workerVars
  <2>2. QED
    BY <2>1 DEF Inv, Types, FreshIsNotStopped, OneWorkerInCharge, NothingRunsAfterStop, Alive, Told
<1>4. QED
  BY <1>1, <1>2, <1>3

\* The daemon starts the manager, which finds no worker alive or leaves alone
\* the one there is.
LEMMA StartStep ==
    ASSUME Inv, Start
    PROVE  Inv'
<1>1. ~running /\ running' = TRUE /\ UNCHANGED <<cancelled, stopped, stop>>
  BY DEF Start
<1>2. stopped = "no"
  BY <1>1 DEF Inv, FreshIsNotStopped
<1>3. CASE startWorkerLocked(hook)
  <2>1. /\ pc' \in [Workers -> States]
        /\ \A v \in Workers : pc'[v] # "none" => pc[v] # "none" \/ (inCharge = 0 /\ v = inCharge')
        /\ inCharge # 0 => inCharge' = inCharge
    BY <1>3, NewWorkerAlive DEF Inv
  <2>2. QED
    BY <1>1, <1>2, <2>1
       DEF Inv, Types, FreshIsNotStopped, OneWorkerInCharge, NothingRunsAfterStop, Alive, Told, Workers
<1>4. CASE NoWorker
  BY <1>1, <1>4
     DEF NoWorker, Inv, Types, FreshIsNotStopped, OneWorkerInCharge, NothingRunsAfterStop, Alive, Told
<1>5. QED
  BY <1>3, <1>4 DEF Start

\* The invariant holds before the daemon starts, when there is no worker.
LEMMA InvInit == Init => Inv
BY DEF Init, Inv, Types, States, FreshIsNotStopped, OneWorkerInCharge, NothingRunsAfterStop, Alive

\* Every step keeps it.
LEMMA InvStep == Inv /\ [Next]_vars => Inv'
<1> SUFFICES ASSUME Inv, [Next]_vars PROVE Inv'
  OBVIOUS
<1>1. CASE Start
  BY <1>1, StartStep
<1>2. CASE Signal
  BY <1>2 DEF Signal, workerVars, Inv, Types, FreshIsNotStopped, OneWorkerInCharge, NothingRunsAfterStop, Alive, Told
<1>3. CASE Stop
  <2>1. running
    BY <1>3 DEF Stop, Inv, FreshIsNotStopped
  <2>2. QED
    BY <1>3, <2>1 DEF Stop, workerVars, Inv, Types, FreshIsNotStopped, OneWorkerInCharge, NothingRunsAfterStop, Alive, Told
<1>4. CASE StopReturns
  BY <1>4 DEF StopReturns, workerVars, Inv, Types, FreshIsNotStopped, OneWorkerInCharge, NothingRunsAfterStop, Alive, Told
<1>5. CASE Crash
  BY <1>5 DEF Crash, Inv, Types, States, FreshIsNotStopped, OneWorkerInCharge, NothingRunsAfterStop, Alive
<1>6. CASE Publish
  BY <1>6 DEF Publish, managerVars, Inv, Types, FreshIsNotStopped, OneWorkerInCharge, NothingRunsAfterStop, Alive, Told
<1>7. ASSUME NEW w \in Workers, Producing(w) \/ Delivering(w) PROVE Inv'
  BY <1>7, WorkerStep, ExitStep
<1>8. ASSUME NEW h \in Handlers, Request(h) PROVE Inv'
  BY <1>8, RequestStep
<1>9. CASE UNCHANGED vars
  BY <1>9 DEF vars, managerVars, workerVars, Inv, Types, FreshIsNotStopped, OneWorkerInCharge, NothingRunsAfterStop,
              Alive, Told
<1>10. QED
  BY <1>1, <1>2, <1>3, <1>4, <1>5, <1>6, <1>7, <1>8, <1>9 DEF Next

\* So it always holds.
LEMMA InvAlways == Spec => []Inv
<1>1. QED
  BY InvInit, InvStep, PTL DEF Spec

\* For any number of interleaved requests, at most one worker of a webhook has
\* not been told to stop, and it is the one Unregister will find (Register,
\* Unregister, startWorkerLocked).
THEOREM OneWorker == Spec => []OneWorkerInCharge
<1>1. Inv => OneWorkerInCharge
  BY DEF Inv
<1>2. QED
  BY <1>1, InvAlways, PTL

\* When Stop has returned, no worker delivers, and no request makes another
\* (Stop, Register).
THEOREM StopIsFinal == Spec => []NothingRunsAfterStop
<1>1. Inv => NothingRunsAfterStop
  BY DEF Inv
<1>2. QED
  BY <1>1, InvAlways, PTL

----------------------------------------------------------------------------
(* The record and the worker that follows it. *)

RequestStates == {"idle", "test"} \cup Changing

RegTypes ==
    /\ pc \in [Workers -> States] /\ stop \in [Workers -> BOOLEAN] /\ inCharge \in 0..Gone
    /\ hook \in {NoHook} \cup Hooks /\ copy \in [Workers -> {NoHook} \cup Hooks]
    /\ hpc \in [Handlers -> RequestStates] /\ loc \in [Handlers -> {NoHook} \cup Hooks]
    /\ {born, running, cancelled, excused} \subseteq BOOLEAN

\* The map names a worker that runs and was not told to stop, and nothing runs
\* before the daemon does.
Charge ==
    /\ inCharge \in Workers => pc[inCharge] # "none" /\ ~stop[inCharge]
    /\ \A w \in Workers : pc[w] = "none" => ~stop[w]
    /\ ~running => inCharge = 0 /\ (\A w \in Workers : pc[w] = "none") /\ \A h \in Handlers : hpc[h] = "idle"
    /\ \A h \in Handlers : hpc[h] \in {"replace", "register"} => loc[h] \in Hooks
    /\ stopped # "no" => cancelled
    /\ ~born => hook = NoHook /\ (\A w \in Workers : pc[w] = "none") /\ \A h \in Handlers : hpc[h] = "idle"

\* Where the worker in charge stands to the record, at each point of the one
\* request that changes it.
Follows ==
    /\ \A g, h \in Handlers : hpc[g] \in Changing /\ hpc[h] \in Changing => g = h
    /\ \A h \in Handlers :
          /\ hpc[h] = "remove" => hook = NoHook
          /\ hpc[h] \in {"replace", "register"} => loc[h] = hook
          /\ hpc[h] = "register" => inCharge = 0
    /\ (\A h \in Handlers : hpc[h] \notin {"replace", "register", "remove"}) =>
          IF hook # NoHook /\ hook.active THEN inCharge \in Workers /\ copy[inCharge] = hook
          ELSE inCharge = 0

RegInv == RegTypes /\ Charge /\ (running /\ ~cancelled /\ ~excused => Follows)

\* A new worker has the settings it was made with and was not told to stop.
LEMMA NewWorkerFollows ==
    ASSUME RegTypes, Charge, NEW record \in Hooks, startWorkerLocked(record), UNCHANGED stop
    PROVE  /\ pc' \in [Workers -> States] /\ copy' \in [Workers -> {NoHook} \cup Hooks] /\ inCharge' \in 0..Gone
           /\ inCharge' \in Workers => pc'[inCharge'] # "none" /\ ~stop'[inCharge']
           /\ \A w \in Workers : pc'[w] = "none" => pc[w] = "none"
           /\ inCharge = 0 => inCharge' \in Workers /\ copy'[inCharge'] = record
<1>1. CASE inCharge = 0
  <2>1. PICK w \in Workers :
           pc[w] = "none" /\ inCharge' = w /\ copy' = [copy EXCEPT ![w] = record] /\ pc' = [pc EXCEPT ![w] = "idle"]
    BY <1>1 DEF startWorkerLocked, newWorker, Alive
  <2>2. w \in 0..Gone
    BY WebhooksAssumption DEF Workers, Gone
  <2>3. QED
    BY <1>1, <2>1, <2>2 DEF RegTypes, Charge, States
<1>2. CASE inCharge # 0
  BY <1>2 DEF startWorkerLocked, NoWorker, RegTypes, Charge
<1>3. QED
  BY <1>1, <1>2

\* The outcome of a delivery is written over the record it came from, or sets
\* the record apart.
LEMMA WriteBackKeeps ==
    ASSUME RegTypes, born, NEW record \in {NoHook} \cup Hooks, WriteBack(record)
    PROVE  /\ hook' \in {NoHook} \cup Hooks /\ {born', excused'} \subseteq BOOLEAN /\ born'
           /\ ~excused' => ~excused /\ hook' = hook
<1>1. CASE hook' = record /\ excused' = (excused \/ hook # record)
  <2>1. excused' \in BOOLEAN /\ (~excused' => ~excused /\ hook = record)
    BY <1>1 DEF RegTypes
  <2>2. QED
    BY <1>1, <2>1 DEF WriteBack, RegTypes
<1>2. CASE UNCHANGED <<hook, excused>>
  BY <1>2 DEF WriteBack, RegTypes
<1>3. QED
  BY <1>1, <1>2 DEF WriteBack

\* What the goroutines of a worker do leaves the worker in charge, and its
\* settings, as they are, unless it returns, which it does when told to.
LEMMA WorkerKeepsRegistry ==
    ASSUME RegInv, NEW w \in Workers, Producing(w) \/ Delivering(w)
    PROVE  RegInv'
<1> USE DEF RegInv
<1>1. CASE Enqueue(w) \/ Discard(w) \/ publishOverflow(w) \/ Take(w) \/ Failed(w) \/ Retry(w) \/ GiveUp(w)
  <2>1. UNCHANGED <<storeVars, managerVars, copy, stop, handlerVars>>
    BY <1>1 DEF Enqueue, Discard, publishOverflow, Take, Failed, Retry, GiveUp
  <2>2. pc' \in [Workers -> States] /\ \A v \in Workers : pc'[v] = "none" <=> pc[v] = "none"
    BY <1>1 DEF Enqueue, Discard, publishOverflow, Take, Failed, Retry, GiveUp, Idle, RegTypes, States
  <2>3. QED
    BY <2>1, <2>2 DEF storeVars, managerVars, handlerVars, RegTypes, Charge, Follows
<1>2. CASE recordSuccess(w) \/ recordFailure(w)
  <2>1. UNCHANGED <<managerVars, copy, stop, handlerVars>> /\ WriteBack(copy[w]) /\ pc[w] = "send"
    BY <1>2 DEF recordSuccess, recordFailure
  <2>2. pc' \in [Workers -> States] /\ \A v \in Workers : pc'[v] = "none" <=> pc[v] = "none"
    BY <1>2 DEF recordSuccess, recordFailure, Idle, RegTypes, States
  <2>3. copy[w] \in {NoHook} \cup Hooks /\ born
    BY <2>1 DEF RegTypes, Charge
  <2>4. /\ hook' \in {NoHook} \cup Hooks /\ {born', excused'} \subseteq BOOLEAN /\ born'
        /\ ~excused' => ~excused /\ hook' = hook
    BY <2>1, <2>3, WriteBackKeeps
  <2>5. RegTypes' /\ Charge'
    BY <2>1, <2>2, <2>4 DEF managerVars, handlerVars, RegTypes, Charge
  <2>6. running' /\ ~cancelled' /\ ~excused' => Follows'
    BY <2>1, <2>2, <2>4 DEF managerVars, handlerVars, Follows
  <2>7. QED
    BY <2>5, <2>6
<1>3. CASE Exit(w)
  <2>1. /\ pc' = [pc EXCEPT ![w] = "none"] /\ copy' = [copy EXCEPT ![w] = NoHook] /\ stop' = [stop EXCEPT ![w] = FALSE]
        /\ inCharge' = IF inCharge = w THEN Gone ELSE inCharge
        /\ UNCHANGED <<storeVars, running, cancelled, stopped, handlerVars>>
        /\ pc[w] = "idle" /\ (stop[w] \/ cancelled)
    BY <1>3 DEF Exit, Told
  <2>2. Gone \in 0..Gone /\ Gone \notin Workers /\ Gone # 0 /\ 0 \notin Workers
    BY WebhooksAssumption DEF Gone, Workers
  <2>3. RegTypes' /\ Charge'
    BY <2>1, <2>2 DEF storeVars, handlerVars, RegTypes, Charge, States
  <2>4. running' /\ ~cancelled' /\ ~excused' => Follows'
    BY <2>1, <2>2 DEF storeVars, handlerVars, RegTypes, Charge, Follows
  <2>5. QED
    BY <2>3, <2>4
<1>4. QED
  BY <1>1, <1>2, <1>3 DEF Producing, Delivering

\* A request overlaps with none, or says that it did.
LEMMA RequestKeepsRegistry ==
    ASSUME RegInv, NEW h \in Handlers, Request(h)
    PROVE  RegInv'
<1> USE DEF RegInv
<1>1. CASE CreateWebhook(h)
  <2>1. PICK conf \in {"vm", "all"} :
          hook' = [conf |-> conf, active |-> TRUE] /\ loc' = [loc EXCEPT ![h] = hook']
    BY <1>1 DEF CreateWebhook
  <2>2. /\ running /\ hpc[h] = "idle" /\ ~born /\ born' = TRUE /\ hpc' = [hpc EXCEPT ![h] = "register"]
        /\ excused' = (excused \/ \E g \in Handlers \ {h} : hpc[g] \in Changing)
        /\ UNCHANGED <<pc, stop, inCharge, copy, running, cancelled, stopped>>
    BY <1>1 DEF CreateWebhook, Overlap, managerVars, workerVars
  <2>3. hook' \in Hooks
    BY <2>1 DEF Hooks
  <2>4. hook = NoHook /\ inCharge \notin Workers
    BY <2>2 DEF Charge
  <2>5. RegTypes'
    BY <2>1, <2>2, <2>3 DEF RegTypes, RequestStates, Changing
  <2>6. Charge'
    BY <2>1, <2>2, <2>3 DEF RegTypes, Charge
  <2>7. running' /\ ~cancelled' /\ ~excused' => Follows'
    BY <2>1, <2>2, <2>3, <2>4, HookAssumption DEF RegTypes, Charge, Follows, Changing
  <2>8. QED
    BY <2>5, <2>6, <2>7
<1>2. CASE GetWebhook(h)
  <2>1. /\ running /\ hpc[h] = "idle" /\ hook # NoHook
        /\ UNCHANGED <<hook, born, pc, stop, inCharge, copy, running, cancelled, stopped>>
    BY <1>2 DEF GetWebhook, managerVars, workerVars
  <2>2. \/ /\ hpc' = [hpc EXCEPT ![h] = "update"] \/ hpc' = [hpc EXCEPT ![h] = "delete"]
           /\ excused' = (excused \/ \E g \in Handlers \ {h} : hpc[g] \in Changing) /\ loc' = loc
        \/ hpc' = [hpc EXCEPT ![h] = "test"] /\ loc' = [loc EXCEPT ![h] = hook] /\ excused' = excused
    BY <1>2 DEF GetWebhook, Overlap
  <2>3. RegTypes' /\ Charge'
    BY <2>1, <2>2 DEF RegTypes, RequestStates, Changing, Charge
  <2>4. running' /\ ~cancelled' /\ ~excused' => Follows'
    BY <2>1, <2>2 DEF RegTypes, Follows, Changing
  <2>5. QED
    BY <2>3, <2>4
<1>3. CASE UpdateWebhook(h)
  <2>1. /\ hpc[h] = "update" /\ UNCHANGED <<born, excused, pc, stop, inCharge, copy, running, cancelled, stopped>>
        /\ \/ hook' \in Hooks /\ loc' = [loc EXCEPT ![h] = hook'] /\ hpc' = [hpc EXCEPT ![h] = "replace"]
           \/ hook' = hook /\ hpc' = [hpc EXCEPT ![h] = "idle"] /\ loc' = [loc EXCEPT ![h] = NoHook]
    BY <1>3 DEF UpdateWebhook, Answer, managerVars, workerVars
  <2>2. RegTypes' /\ Charge'
    BY <2>1 DEF RegTypes, RequestStates, Changing, Charge
  <2>3. running' /\ ~cancelled' /\ ~excused' => Follows'
    BY <2>1 DEF RegTypes, Follows, Changing
  <2>4. QED
    BY <2>2, <2>3
<1>4. CASE DeleteWebhook(h)
  <2>1. /\ hpc[h] = "delete" /\ UNCHANGED <<born, excused, pc, stop, inCharge, copy, running, cancelled, stopped>>
        /\ \/ hook' = NoHook /\ loc' = loc /\ hpc' = [hpc EXCEPT ![h] = "remove"]
           \/ hook' = hook /\ hpc' = [hpc EXCEPT ![h] = "idle"] /\ loc' = [loc EXCEPT ![h] = NoHook]
    BY <1>4 DEF DeleteWebhook, Answer, managerVars, workerVars
  <2>2. RegTypes' /\ Charge'
    BY <2>1 DEF RegTypes, RequestStates, Changing, Charge
  <2>3. running' /\ ~cancelled' /\ ~excused' => Follows'
    BY <2>1 DEF RegTypes, Follows, Changing
  <2>4. QED
    BY <2>2, <2>3
<1>5. CASE Unregister(h)
  <2>1. /\ inCharge' = 0 /\ stop' = [w \in Workers |-> stop[w] \/ w = inCharge]
        /\ UNCHANGED <<hook, born, excused, running, cancelled, stopped, copy, pc>>
        /\ \/ hpc[h] = "remove" /\ hpc' = [hpc EXCEPT ![h] = "idle"] /\ loc' = [loc EXCEPT ![h] = NoHook]
           \/ hpc[h] = "replace" /\ hpc' = [hpc EXCEPT ![h] = "register"] /\ loc' = loc
    BY <1>5 DEF Unregister, Answer, storeVars
  <2>2. 0 \notin Workers /\ 0 \in 0..Gone
    BY WebhooksAssumption DEF Workers, Gone
  <2>3. RegTypes' /\ Charge'
    BY <2>1, <2>2 DEF RegTypes, RequestStates, Changing, Charge
  <2>4. running' /\ ~cancelled' /\ ~excused' => Follows'
    BY <2>1, <2>2 DEF RegTypes, Follows, Changing
  <2>5. QED
    BY <2>3, <2>4
<1>6. CASE Register(h)
  <2>1. /\ hpc[h] = "register" /\ hpc' = [hpc EXCEPT ![h] = "idle"] /\ loc' = [loc EXCEPT ![h] = NoHook]
        /\ UNCHANGED <<hook, born, excused, running, cancelled, stopped, stop>>
    BY <1>6 DEF Register, Answer, storeVars
  <2>2. CASE loc[h].active /\ stopped = "no"
    <3>1. startWorkerLocked(loc[h])
      BY <1>6, <2>2 DEF Register
    <3>2. /\ pc' \in [Workers -> States] /\ copy' \in [Workers -> {NoHook} \cup Hooks] /\ inCharge' \in 0..Gone
          /\ inCharge' \in Workers => pc'[inCharge'] # "none" /\ ~stop'[inCharge']
          /\ \A w \in Workers : pc'[w] = "none" => pc[w] = "none"
          /\ inCharge = 0 => inCharge' \in Workers /\ copy'[inCharge'] = loc[h]
      BY <2>1, <2>2, <3>1, NewWorkerFollows DEF Charge
    <3>3. running /\ born
      BY <2>1 DEF Charge
    <3>4. RegTypes' /\ Charge'
      BY <2>1, <3>2, <3>3 DEF RegTypes, RequestStates, Charge
    <3>5. ASSUME running', ~cancelled', ~excused' PROVE Follows'
      <4>1. Follows /\ loc[h] = hook /\ inCharge = 0
        BY <2>1, <3>5 DEF Follows
      <4>2. \A g \in Handlers : hpc'[g] \notin Changing
        BY <2>1, <4>1 DEF RegTypes, Follows, Changing
      <4>3. hook' = loc[h] /\ inCharge' \in Workers /\ copy'[inCharge'] = loc[h] /\ hook' # NoHook
        BY <2>1, <3>2, <4>1, HookAssumption DEF Charge
      <4>4. QED
        BY <2>2, <4>2, <4>3 DEF Follows, Changing
    <3>6. QED
      BY <3>4, <3>5
  <2>3. CASE ~(loc[h].active /\ stopped = "no")
    <3>1. UNCHANGED <<inCharge, copy, pc>>
      BY <1>6, <2>3 DEF Register, NoWorker
    <3>2. RegTypes' /\ Charge'
      BY <2>1, <3>1 DEF RegTypes, RequestStates, Charge
    <3>3. running' /\ ~cancelled' /\ ~excused' => Follows'
      BY <2>1, <2>3, <3>1 DEF RegTypes, Charge, Follows, Changing
    <3>4. QED
      BY <3>2, <3>3
  <2>4. QED
    BY <2>2, <2>3
<1>7. CASE TestDeliver(h)
  <2>1. /\ hpc[h] = "test" /\ hpc' = [hpc EXCEPT ![h] = "idle"] /\ loc' = [loc EXCEPT ![h] = NoHook]
        /\ WriteBack(loc[h])
        /\ UNCHANGED <<pc, stop, inCharge, copy, running, cancelled, stopped>>
    BY <1>7 DEF TestDeliver, Answer, managerVars, workerVars
  <2>2. loc[h] \in {NoHook} \cup Hooks /\ born
    BY <2>1 DEF RegTypes, Charge
  <2>3. /\ hook' \in {NoHook} \cup Hooks /\ {born', excused'} \subseteq BOOLEAN /\ born'
        /\ ~excused' => ~excused /\ hook' = hook
    BY <2>1, <2>2, WriteBackKeeps
  <2>4. RegTypes' /\ Charge'
    BY <2>1, <2>3 DEF RegTypes, RequestStates, Charge
  <2>5. running' /\ ~cancelled' /\ ~excused' => Follows'
    BY <2>1, <2>3 DEF RegTypes, Follows, Changing
  <2>6. QED
    BY <2>4, <2>5
<1>8. QED
  BY <1>1, <1>2, <1>3, <1>4, <1>5, <1>6, <1>7 DEF Request

LEMMA RegInit == Init => RegInv
<1> SUFFICES ASSUME Init PROVE RegInv
  OBVIOUS
<1>1. RegTypes
  <2>1. 0 \in 0..Gone
    BY WebhooksAssumption DEF Gone
  <2>2. QED
    BY <2>1 DEF Init, RegTypes, States, RequestStates
<1>2. Charge
  <2>1. 0 \notin Workers
    BY DEF Workers
  <2>2. QED
    BY <2>1 DEF Init, Charge
<1>3. QED
  BY <1>1, <1>2 DEF Init, RegInv

LEMMA RegStep == RegInv /\ [Next]_vars => RegInv'
<1> SUFFICES ASSUME RegInv, [Next]_vars PROVE RegInv'
  OBVIOUS
<1> USE DEF RegInv
<1>1. CASE Start
  <2>1. ~running /\ running' = TRUE /\ UNCHANGED <<hook, born, cancelled, stopped, stop, hpc, loc>>
    BY <1>1 DEF Start, handlerVars
  <2>2. inCharge = 0 /\ (\A w \in Workers : pc[w] = "none") /\ \A h \in Handlers : hpc[h] = "idle"
    BY <2>1 DEF Charge
  <2>3. CASE excused' = FALSE /\ hook \in [conf : {"vm", "all"}, active : {TRUE}] /\ startWorkerLocked(hook)
    <3>1. hook \in Hooks /\ hook # NoHook /\ hook.active
      BY <2>3, HookAssumption DEF Hooks
    <3>2. /\ pc' \in [Workers -> States] /\ copy' \in [Workers -> {NoHook} \cup Hooks] /\ inCharge' \in 0..Gone
          /\ inCharge' \in Workers => pc'[inCharge'] # "none" /\ ~stop'[inCharge']
          /\ \A w \in Workers : pc'[w] = "none" => pc[w] = "none"
          /\ inCharge = 0 => inCharge' \in Workers /\ copy'[inCharge'] = hook
      BY <2>1, <2>3, <3>1, NewWorkerFollows
    <3>3. RegTypes' /\ Charge'
      BY <2>1, <2>2, <2>3, <3>1, <3>2 DEF RegTypes, Charge
    <3>4. Follows'
      BY <2>1, <2>2, <3>1, <3>2 DEF Follows, Changing
    <3>5. QED
      BY <3>3, <3>4
  <2>4. CASE excused' \in BOOLEAN /\ NoWorker
             /\ (~excused' => hook \notin [conf : {"vm", "all"}, active : {TRUE}])
    <3>1. RegTypes' /\ Charge'
      BY <2>1, <2>2, <2>4 DEF NoWorker, RegTypes, Charge
    <3>2. ~excused' => (hook = NoHook \/ ~hook.active)
      BY <2>4 DEF RegTypes, Hooks
    <3>3. ~excused' => Follows'
      BY <2>1, <2>2, <2>4, <3>2 DEF NoWorker, Follows, Changing
    <3>4. QED
      BY <3>1, <3>3
  <2>5. QED
    BY <1>1, <2>3, <2>4 DEF Start
<1>2. CASE Signal \/ Stop \/ StopReturns
  <2>1. /\ UNCHANGED <<storeVars, running, inCharge, workerVars, handlerVars>>
        /\ cancelled' \in BOOLEAN /\ (stopped' # "no" => cancelled') /\ (~cancelled' => ~cancelled)
    BY <1>2 DEF Signal, Stop, StopReturns, RegTypes, Charge
  <2>2. RegTypes' /\ Charge'
    BY <2>1 DEF storeVars, workerVars, handlerVars, RegTypes, Charge
  <2>3. running' /\ ~cancelled' /\ ~excused' => Follows'
    BY <2>1 DEF storeVars, workerVars, handlerVars, Follows
  <2>4. QED
    BY <2>2, <2>3
<1>3. CASE Crash
  <2>1. 0 \in 0..Gone /\ 0 \notin Workers
    BY WebhooksAssumption DEF Gone, Workers
  <2>2. RegTypes'
    BY <1>3, <2>1 DEF Crash, storeVars, RegTypes, States, RequestStates
  <2>3. Charge'
    BY <1>3, <2>1 DEF Crash, storeVars, Charge
  <2>4. QED
    BY <1>3, <2>2, <2>3 DEF Crash
<1>4. CASE Publish \/ UNCHANGED vars
  <2>1. UNCHANGED <<hook, born, excused, running, cancelled, stopped, inCharge, copy, stop, pc, hpc, loc>>
    BY <1>4 DEF Publish, vars, storeVars, managerVars, workerVars, handlerVars
  <2>2. QED
    BY <2>1 DEF RegTypes, Charge, Follows
<1>5. ASSUME NEW w \in Workers, Producing(w) \/ Delivering(w) PROVE RegInv'
  BY <1>5, WorkerKeepsRegistry
<1>6. ASSUME NEW h \in Handlers, Request(h) PROVE RegInv'
  BY <1>6, RequestKeepsRegistry
<1>7. QED
  BY <1>1, <1>2, <1>3, <1>4, <1>5, <1>6 DEF Next

LEMMA RegAlways == Spec => []RegInv
BY RegInit, RegStep, PTL DEF Spec

\* With no change under way and nothing to excuse it, a worker runs exactly for
\* an active record and with that record's settings, for any number of
\* interleaved requests, workers and restarts (CreateWebhook, UpdateWebhook,
\* DeleteWebhook, Register, Unregister, Start).
THEOREM WorkerFollowsRecord == Spec => []RecordAndWorkerAgree
<1>1. RegInv => RecordAndWorkerAgree
  BY DEF RegInv, Follows, Changing, RecordAndWorkerAgree
<1>2. QED
  BY <1>1, RegAlways, PTL

----------------------------------------------------------------------------
(* The events of one worker: what it was acknowledged, holds, has queued   *)
(* and is offered is one ascending line, in this order.                    *)

Ascending(q) == \A i, j \in 1..Len(q) : i < j => q[i] < q[j]
Below(p, q) == \A i \in 1..Len(p) : \A j \in 1..Len(q) : p[i] < q[j]

InLine(a, c, q, s) ==
    /\ Ascending(a) /\ Ascending(q) /\ Ascending(s)
    /\ Below(a, q) /\ Below(a, s) /\ Below(q, s)
    /\ c # 0 => /\ \A i \in 1..Len(a) : a[i] < c
                /\ \A i \in 1..Len(q) : c < q[i]
                /\ \A i \in 1..Len(s) : c < s[i]

Within(q, n) == q \in Seq(Nat) /\ \A i \in 1..Len(q) : 1 <= q[i] /\ q[i] <= n

\* a, c, q, s as above; r, what was reported lost; n, the newest event.
Line(a, c, q, s, r, n) ==
    /\ n \in Nat /\ Within(a, n) /\ Within(q, n) /\ Within(s, n) /\ c \in 0..n
    /\ InLine(a, c, q, s)
    /\ r \subseteq 1..n /\ c \notin r
    /\ Elements(a) \cap r = {} /\ Elements(q) \cap r = {} /\ Elements(s) \cap r = {}

Held(a, c, q, s, r) == Elements(a) \cup {c} \cup Elements(q) \cup Elements(s) \cup r

LEMMA AppendOne ==
    ASSUME NEW q \in Seq(Nat), NEW e \in Nat
    PROVE  /\ Append(q, e) \in Seq(Nat) /\ Len(q) \in Nat /\ Len(Append(q, e)) = Len(q) + 1
           /\ \A i \in 1..Len(q) : Append(q, e)[i] = q[i]
           /\ Append(q, e)[Len(q) + 1] = e
           /\ Elements(Append(q, e)) = Elements(q) \cup {e}
<1>1. /\ Append(q, e) \in Seq(Nat) /\ Len(q) \in Nat /\ Len(Append(q, e)) = Len(q) + 1
      /\ \A i \in 1..Len(q) : Append(q, e)[i] = q[i]
      /\ Append(q, e)[Len(q) + 1] = e
  OBVIOUS
<1>2. \A i \in 1..Len(q) + 1 : i \in 1..Len(q) \/ i = Len(q) + 1
  BY <1>1
<1>3. 1..Len(q) \subseteq 1..Len(q) + 1 /\ Len(q) + 1 \in 1..Len(q) + 1
  BY <1>1
<1>4. Elements(Append(q, e)) = Elements(q) \cup {e}
  BY <1>1, <1>2, <1>3 DEF Elements
<1>5. QED
  BY <1>1, <1>4

LEMMA DropFirst ==
    ASSUME NEW q \in Seq(Nat), q # <<>>
    PROVE  /\ Tail(q) \in Seq(Nat) /\ Head(q) \in Nat /\ Head(q) = q[1] /\ 1 \in 1..Len(q)
           /\ Len(Tail(q)) = Len(q) - 1
           /\ \A i \in 1..Len(Tail(q)) : Tail(q)[i] = q[i + 1] /\ i + 1 \in 1..Len(q)
           /\ Elements(q) = Elements(Tail(q)) \cup {Head(q)}
<1>1. /\ Tail(q) \in Seq(Nat) /\ Head(q) \in Nat /\ Head(q) = q[1] /\ 1 \in 1..Len(q)
      /\ Len(Tail(q)) = Len(q) - 1 /\ Len(q) \in Nat
      /\ \A i \in 1..Len(Tail(q)) : Tail(q)[i] = q[i + 1] /\ i + 1 \in 1..Len(q)
  OBVIOUS
<1>2. \A i \in 1..Len(q) : i = 1 \/ (i - 1 \in 1..Len(Tail(q)) /\ (i - 1) + 1 = i)
  BY <1>1
<1>3. Elements(q) = Elements(Tail(q)) \cup {Head(q)}
  BY <1>1, <1>2 DEF Elements
<1>4. QED
  BY <1>1, <1>3

\* A subscription takes in the next event, or the bus goes on without it.
LEMMA LineGrows ==
    ASSUME NEW a, NEW c, NEW q, NEW s, NEW r, NEW n, Line(a, c, q, s, r, n)
    PROVE  /\ Line(a, c, q, s, r, n + 1)
           /\ Line(a, c, q, Append(s, n + 1), r, n + 1)
<1>1. Line(a, c, q, s, r, n + 1)
  <2>1. 1..n \subseteq 1..n + 1 /\ 0..n \subseteq 0..n + 1 /\ n + 1 \in Nat
    BY DEF Line
  <2>2. Within(a, n + 1) /\ Within(q, n + 1) /\ Within(s, n + 1)
    BY DEF Line, Within
  <2>3. QED
    BY <2>1, <2>2 DEF Line
<1>2. /\ Append(s, n + 1) \in Seq(Nat) /\ Len(s) \in Nat /\ Len(Append(s, n + 1)) = Len(s) + 1
      /\ \A i \in 1..Len(s) : Append(s, n + 1)[i] = s[i]
      /\ Append(s, n + 1)[Len(s) + 1] = n + 1
      /\ Elements(Append(s, n + 1)) = Elements(s) \cup {n + 1}
  BY AppendOne DEF Line, Within
<1>3. \A i \in 1..Len(Append(s, n + 1)) : i \in 1..Len(s) \/ i = Len(s) + 1
  BY <1>2
<1> DEFINE t == Append(s, n + 1)
<1> HIDE DEF t
<1>4. Within(t, n + 1)
  BY <1>1, <1>2, <1>3 DEF t, Line, Within
<1>5. InLine(a, c, q, t)
  <2>1. Ascending(t)
    BY <1>2, <1>3 DEF t, Line, Within, InLine, Ascending
  <2>2. Below(a, t) /\ Below(q, t)
    <3>1. \A j \in 1..Len(t) : (j \in 1..Len(s) /\ t[j] = s[j]) \/ t[j] = n + 1
      BY <1>2, <1>3 DEF t
    <3>2. (\A i \in 1..Len(a) : a[i] < n + 1) /\ (\A i \in 1..Len(q) : q[i] < n + 1)
      BY DEF Line, Within
    <3>3. Below(a, s) /\ Below(q, s)
      BY DEF Line, InLine
    <3>4. QED
      BY <3>1, <3>2, <3>3 DEF Below
  <2>3. c # 0 => \A i \in 1..Len(t) : c < t[i]
    BY <1>2, <1>3 DEF t, Line, Within, InLine
  <2>4. QED
    BY <2>1, <2>2, <2>3 DEF Line, InLine
<1>6. Elements(t) \cap r = {}
  <2>1. n + 1 \notin r
    BY DEF Line
  <2>2. QED
    BY <1>2, <2>1 DEF t, Line
<1>7. Line(a, c, q, t, r, n + 1)
  BY <1>1, <1>4, <1>5, <1>6 DEF Line
<1>8. QED
  BY <1>1, <1>7 DEF t

\* The first of the subscription is discarded, enqueued, or reported lost.
LEMMA LineMoves ==
    ASSUME NEW a, NEW c, NEW q, NEW s, NEW r, NEW n, Line(a, c, q, s, r, n), s # <<>>
    PROVE  /\ Line(a, c, q, Tail(s), r, n)
           /\ Line(a, c, Append(q, Head(s)), Tail(s), r, n)
           /\ Line(a, c, q, Tail(s), r \cup {Head(s)}, n)
<1>1. /\ Tail(s) \in Seq(Nat) /\ Head(s) \in Nat /\ Head(s) = s[1] /\ 1 \in 1..Len(s)
      /\ Len(Tail(s)) = Len(s) - 1
      /\ \A i \in 1..Len(Tail(s)) : Tail(s)[i] = s[i + 1] /\ i + 1 \in 1..Len(s)
      /\ Elements(s) = Elements(Tail(s)) \cup {Head(s)}
  BY DropFirst DEF Line, Within
<1>2. /\ Append(q, Head(s)) \in Seq(Nat) /\ Len(q) \in Nat /\ Len(Append(q, Head(s))) = Len(q) + 1
      /\ \A i \in 1..Len(q) : Append(q, Head(s))[i] = q[i]
      /\ Append(q, Head(s))[Len(q) + 1] = Head(s)
      /\ Elements(Append(q, Head(s))) = Elements(q) \cup {Head(s)}
  BY <1>1, AppendOne DEF Line, Within
<1>3. \A i \in 1..Len(Append(q, Head(s))) : i \in 1..Len(q) \/ i = Len(q) + 1
  BY <1>2
<1> DEFINE h == Head(s)
           t == Tail(s)
           b == Append(q, Head(s))
<1> HIDE DEF h, t, b
<1>4. \A i \in 1..Len(t) : h < t[i]
  BY <1>1 DEF h, t, Line, Within, InLine, Ascending
<1>5. Within(t, n) /\ h \in 1..n /\ Within(b, n)
  BY <1>1, <1>2, <1>3 DEF h, t, b, Line, Within
<1>6. InLine(a, c, q, t)
  <2>1. Ascending(t)
    BY <1>1 DEF t, Line, Within, InLine, Ascending
  <2>2. Below(a, t) /\ Below(q, t)
    BY <1>1 DEF t, Line, Within, InLine, Below
  <2>3. c # 0 => \A i \in 1..Len(t) : c < t[i]
    BY <1>1 DEF t, Line, Within, InLine
  <2>4. QED
    BY <2>1, <2>2, <2>3 DEF Line, InLine
<1>7. InLine(a, c, b, t)
  <2>1. Ascending(b) /\ Below(a, b)
    <3>1. Ascending(q) /\ Below(a, q) /\ Below(a, s) /\ Below(q, s)
      BY DEF Line, InLine
    <3>2. (\A i \in 1..Len(q) : q[i] < h) /\ (\A i \in 1..Len(a) : a[i] < h)
      BY <1>1, <3>1 DEF h, Below
    <3>3. \A j \in 1..Len(b) : (j \in 1..Len(q) /\ b[j] = q[j]) \/ (j = Len(q) + 1 /\ b[j] = h)
      <4>1. /\ Len(b) = Len(q) + 1 /\ b[Len(q) + 1] = h /\ Len(q) \in Nat
            /\ \A i \in 1..Len(q) : b[i] = q[i]
        BY <1>2 DEF h, b
      <4>2. QED
        BY <4>1
    <3>4. Below(a, b)
      BY <3>1, <3>2, <3>3 DEF Below
    <3>5. Ascending(b)
      BY <1>2, <3>1, <3>2, <3>3 DEF Ascending
    <3>6. QED
      BY <3>4, <3>5
  <2>2. Below(b, t)
    BY <1>1, <1>2, <1>3, <1>4, <1>6 DEF h, t, b, InLine, Below
  <2>3. c # 0 => \A i \in 1..Len(b) : c < b[i]
    BY <1>1, <1>2, <1>3 DEF h, b, Line, Within, InLine
  <2>4. QED
    BY <1>6, <2>1, <2>2, <2>3 DEF InLine
<1>8. h \notin Elements(a) /\ h \notin Elements(q) /\ h \notin Elements(t) /\ h # c
  <2>1. \A i \in 1..Len(a) : a[i] < h
    BY <1>1 DEF h, Line, InLine, Below
  <2>2. \A i \in 1..Len(q) : q[i] < h
    BY <1>1 DEF h, Line, InLine, Below
  <2>3. h # c
    BY <1>1, <1>5 DEF h, Line, InLine
  <2>4. QED
    BY <1>4, <1>5, <2>1, <2>2, <2>3 DEF Line, Within, Elements
<1>9. Line(a, c, q, t, r, n)
  BY <1>1, <1>5, <1>6 DEF h, t, Line
<1>10. Line(a, c, b, t, r, n)
  BY <1>1, <1>2, <1>5, <1>7 DEF h, t, b, Line
<1>11. Line(a, c, q, t, r \cup {h}, n)
  BY <1>1, <1>5, <1>6, <1>8 DEF h, t, Line
<1>12. QED
  BY <1>9, <1>10, <1>11 DEF h, t, b

\* The first of the queue is taken in hand.
LEMMA LineTakes ==
    ASSUME NEW a, NEW q, NEW s, NEW r, NEW n, Line(a, 0, q, s, r, n), q # <<>>
    PROVE  Line(a, Head(q), Tail(q), s, r, n) /\ Head(q) # 0
<1>1. /\ Tail(q) \in Seq(Nat) /\ Head(q) \in Nat /\ Head(q) = q[1] /\ 1 \in 1..Len(q)
      /\ Len(Tail(q)) = Len(q) - 1
      /\ \A i \in 1..Len(Tail(q)) : Tail(q)[i] = q[i + 1] /\ i + 1 \in 1..Len(q)
      /\ Elements(q) = Elements(Tail(q)) \cup {Head(q)}
  BY DropFirst DEF Line, Within
<1> DEFINE h == Head(q)
           t == Tail(q)
<1> HIDE DEF h, t
<1>2. Within(t, n) /\ h \in 1..n
  BY <1>1 DEF h, t, Line, Within
<1>3. InLine(a, h, t, s)
  <2>1. Ascending(t)
    BY <1>1 DEF t, Line, Within, InLine, Ascending
  <2>2. Below(a, t) /\ Below(t, s)
    BY <1>1 DEF t, Line, Within, InLine, Below
  <2>3. (\A i \in 1..Len(a) : a[i] < h) /\ \A i \in 1..Len(s) : h < s[i]
    BY <1>1 DEF h, Line, InLine, Below
  <2>4. \A i \in 1..Len(t) : h < t[i]
    BY <1>1 DEF h, t, Line, Within, InLine, Ascending
  <2>5. QED
    BY <2>1, <2>2, <2>3, <2>4 DEF Line, InLine
<1>4. h \notin r /\ Elements(t) \cap r = {}
  BY <1>1 DEF h, t, Line
<1>5. h \in 0..n /\ h # 0
  BY <1>2
<1>6. Line(a, h, t, s, r, n)
  BY <1>1, <1>2, <1>3, <1>4, <1>5 DEF h, t, Line
<1>7. QED
  BY <1>5, <1>6 DEF h, t

\* What is in hand is acknowledged, reported lost, or let go.
LEMMA LineEnds ==
    ASSUME NEW a, NEW c, NEW q, NEW s, NEW r, NEW n, Line(a, c, q, s, r, n), c # 0
    PROVE  /\ Line(Append(a, c), 0, q, s, r, n)
           /\ Line(a, 0, q, s, r \cup {c}, n)
           /\ Line(a, 0, q, s, r, n)
<1>1. /\ Append(a, c) \in Seq(Nat) /\ Len(a) \in Nat /\ Len(Append(a, c)) = Len(a) + 1
      /\ \A i \in 1..Len(a) : Append(a, c)[i] = a[i]
      /\ Append(a, c)[Len(a) + 1] = c
      /\ Elements(Append(a, c)) = Elements(a) \cup {c}
  BY AppendOne DEF Line, Within
<1>2. \A i \in 1..Len(Append(a, c)) : i \in 1..Len(a) \/ i = Len(a) + 1
  BY <1>1
<1> DEFINE b == Append(a, c)
<1> HIDE DEF b
<1>3. c \in 1..n /\ 0 \notin r /\ 0 \in 0..n /\ n \in Nat
  BY DEF Line
<1>4. Within(b, n)
  BY <1>1, <1>2, <1>3 DEF b, Line, Within
<1>5. InLine(b, 0, q, s)
  <2>1. Ascending(b)
    BY <1>1, <1>2 DEF b, Line, Within, InLine, Ascending
  <2>2. Below(b, q) /\ Below(b, s)
    BY <1>1, <1>2 DEF b, Line, InLine, Below
  <2>3. QED
    BY <2>1, <2>2 DEF Line, InLine
<1>6. InLine(a, 0, q, s)
  BY DEF Line, InLine
<1>7. c \notin Elements(a) /\ c \notin Elements(q) /\ c \notin Elements(s)
  BY <1>3 DEF Line, Within, InLine, Elements
<1>8. Line(b, 0, q, s, r, n)
  BY <1>1, <1>3, <1>4, <1>5 DEF b, Line
<1>9. Line(a, 0, q, s, r \cup {c}, n)
  BY <1>3, <1>6, <1>7 DEF Line
<1>10. Line(a, 0, q, s, r, n)
  BY <1>3, <1>6 DEF Line
<1>11. QED
  BY <1>8, <1>9, <1>10 DEF b

FlowTypes ==
    /\ events \in Seq({"vm", "webhook"}) /\ Len(events) <= MaxEvents
    /\ sub \in [Workers -> Seq(Nat)] /\ queue \in [Workers -> Seq(Nat)]
    /\ acked \in [Workers -> Seq(Nat)] /\ cur \in [Workers -> Nat] /\ attempt \in [Workers -> 0..Attempts]
    /\ offered \in [Workers -> SUBSET Nat] /\ reported \in [Workers -> SUBSET Nat]
    /\ \A w \in Workers : Len(sub[w]) <= SubscriberBuf /\ Len(queue[w]) <= QueueSize
    /\ ops \in 0..MaxOps /\ stopped \in {"no", "waiting", "done"}

Of(w) == Line(acked[w], cur[w], queue[w], sub[w], reported[w], Len(events))
InHands(w) == Held(acked[w], cur[w], queue[w], sub[w], reported[w])

WorkerFlow(w) ==
    /\ Of(w) /\ offered[w] \subseteq 1..Len(events)
    /\ cur[w] = 0 <=> pc[w] \in {"none", "idle"}
    /\ pc[w] \in {"none", "idle"} => attempt[w] = 0
    /\ pc[w] = "wait" => attempt[w] < Attempts
    /\ pc[w] = "none" => /\ sub[w] = <<>> /\ queue[w] = <<>> /\ acked[w] = <<>>
                         /\ offered[w] = {} /\ reported[w] = {}
    /\ pc[w] # "none" /\ ~Told(w) => Wanted(w) \subseteq InHands(w)

FlowInv == FlowTypes /\ \A w \in Workers : WorkerFlow(w)

\* What a step may do to the bus: nothing, or one event more, which each
\* subscription with room takes in after what it has, rest.
BusMay(rest) ==
    /\ events' \in Seq({"vm", "webhook"}) /\ Len(events') \in {Len(events), Len(events) + 1} /\ Len(events') <= MaxEvents
    /\ \A i \in 1..Len(events) : events'[i] = events[i]
    /\ sub' \in [Workers -> Seq(Nat)] /\ offered' \in [Workers -> SUBSET Nat]
    /\ \A w \in Workers :
          /\ Len(sub'[w]) <= SubscriberBuf
          /\ \/ sub'[w] = rest[w] /\ offered'[w] = offered[w]
             \/ /\ pc[w] # "none" /\ sub'[w] = Append(rest[w], Len(events) + 1) /\ Len(events') = Len(events) + 1
                /\ offered'[w] = offered[w] \cup {Len(events) + 1}

LEMMA Fans ==
    ASSUME FlowTypes, NEW type \in {"vm", "webhook"}, Len(events) < MaxEvents,
           NEW rest \in [Workers -> Seq(Nat)], Fan(type, rest),
           \A w \in Workers : Len(rest[w]) <= SubscriberBuf
    PROVE  BusMay(rest)
<1> USE WebhooksAssumption
<1>1. /\ events' \in Seq({"vm", "webhook"}) /\ Len(events') = Len(events) + 1 /\ Len(events') <= MaxEvents
      /\ \A i \in 1..Len(events) : events'[i] = events[i]
  BY DEF Fan, FlowTypes
<1>2. Len(events) + 1 \in Nat
  BY DEF FlowTypes
<1>3. ASSUME NEW w \in Workers
      PROVE  /\ Append(rest[w], Len(events) + 1) \in Seq(Nat)
             /\ Len(rest[w]) < SubscriberBuf => Len(Append(rest[w], Len(events) + 1)) <= SubscriberBuf
  BY <1>2, AppendOne
<1>4. sub' \in [Workers -> Seq(Nat)]
  BY <1>3 DEF Fan
<1>5. offered' \in [Workers -> SUBSET Nat]
  BY <1>2 DEF Fan, FlowTypes
<1>6. ASSUME NEW w \in Workers
      PROVE  /\ Len(sub'[w]) <= SubscriberBuf
             /\ \/ sub'[w] = rest[w] /\ offered'[w] = offered[w]
                \/ /\ pc[w] # "none" /\ sub'[w] = Append(rest[w], Len(events) + 1)
                   /\ offered'[w] = offered[w] \cup {Len(events) + 1}
  BY <1>3 DEF Fan, Alive
<1>7. QED
  BY <1>1, <1>4, <1>5, <1>6 DEF BusMay

LEMMA BusRests ==
    ASSUME FlowTypes, NEW rest \in [Workers -> Seq(Nat)], \A w \in Workers : Len(rest[w]) <= SubscriberBuf,
           sub' = rest, UNCHANGED <<events, offered>>
    PROVE  BusMay(rest)
BY DEF BusMay, FlowTypes

LEMMA Reports ==
    ASSUME FlowTypes, NEW w \in Workers, NEW n \in Nat,
           NEW rest \in [Workers -> Seq(Nat)], \A v \in Workers : Len(rest[v]) <= SubscriberBuf,
           Report(w, n, rest)
    PROVE  BusMay(rest) /\ reported' = [reported EXCEPT ![w] = @ \cup {n}] /\ reported' \in [Workers -> SUBSET Nat]
<1>1. BusMay(rest)
  BY Fans, BusRests DEF Report
<1>2. QED
  BY <1>1 DEF Report, FlowTypes

\* What is wanted of the old events stays so, and a new one is in hand.
LEMMA KeepsWanted ==
    ASSUME RegTypes, FlowTypes, NEW w \in Workers, WorkerFlow(w), pc[w] # "none", pc'[w] # "none",
           Told(w) => Told(w)', copy'[w] = copy[w],
           \A i \in 1..Len(events) : events'[i] = events[i],
           offered'[w] \subseteq offered[w] \cup InHands(w)',
           InHands(w) \cap Wanted(w) \subseteq InHands(w)'
    PROVE  ~Told(w)' => Wanted(w)' \subseteq InHands(w)'
<1>1. ASSUME NEW k \in offered[w] PROVE matchesType(w, k)' <=> matchesType(w, k)
  <2>1. k \in 1..Len(events)
    BY DEF WorkerFlow
  <2>2. QED
    BY <2>1 DEF matchesType
<1>2. SUFFICES ASSUME ~Told(w)', NEW k \in Wanted(w)' PROVE k \in InHands(w)'
  OBVIOUS
<1>3. k \in offered'[w] /\ matchesType(w, k)'
  BY <1>2 DEF Wanted
<1>4. CASE k \in offered[w]
  BY <1>1, <1>2, <1>3, <1>4 DEF WorkerFlow, Wanted
<1>5. CASE k \notin offered[w]
  BY <1>3, <1>5
<1>6. QED
  BY <1>4, <1>5

\* A worker that no step has touched but the bus.
LEMMA OthersFlow ==
    ASSUME RegTypes, FlowTypes, NEW w \in Workers, WorkerFlow(w),
           pc'[w] = pc[w], cur'[w] = cur[w], attempt'[w] = attempt[w], queue'[w] = queue[w], acked'[w] = acked[w],
           reported'[w] = reported[w], copy'[w] = copy[w], Told(w) => Told(w)',
           Len(events') \in {Len(events), Len(events) + 1},
           \A i \in 1..Len(events) : events'[i] = events[i],
           \/ sub'[w] = sub[w] /\ offered'[w] = offered[w]
           \/ /\ pc[w] # "none" /\ sub'[w] = Append(sub[w], Len(events) + 1) /\ Len(events') = Len(events) + 1
              /\ offered'[w] = offered[w] \cup {Len(events) + 1}
    PROVE  WorkerFlow(w)'
<1>1. Of(w)' /\ InHands(w) \subseteq InHands(w)' /\ offered'[w] \subseteq offered[w] \cup InHands(w)'
  <2>1. Of(w)
    BY DEF WorkerFlow
  <2>2. CASE sub'[w] = sub[w] /\ offered'[w] = offered[w] /\ Len(events') = Len(events)
    BY <2>1, <2>2 DEF Of, InHands
  <2>3. CASE sub'[w] = sub[w] /\ offered'[w] = offered[w] /\ Len(events') = Len(events) + 1
    <3>1. Line(acked[w], cur[w], queue[w], sub[w], reported[w], Len(events) + 1)
      BY <2>1, LineGrows DEF Of
    <3>2. QED
      BY <2>3, <3>1 DEF Of, InHands
  <2>4. CASE /\ sub'[w] = Append(sub[w], Len(events) + 1) /\ Len(events') = Len(events) + 1
             /\ offered'[w] = offered[w] \cup {Len(events) + 1}
    <3>1. Line(acked[w], cur[w], queue[w], Append(sub[w], Len(events) + 1), reported[w], Len(events) + 1)
      BY <2>1, LineGrows DEF Of
    <3>2. Held(acked[w], cur[w], queue[w], Append(sub[w], Len(events) + 1), reported[w]) =
            InHands(w) \cup {Len(events) + 1}
      <4>1. Elements(Append(sub[w], Len(events) + 1)) = Elements(sub[w]) \cup {Len(events) + 1}
        BY AppendOne DEF FlowTypes
      <4>2. QED
        BY <4>1 DEF InHands, Held
    <3>3. Of(w)'
      BY <2>4, <3>1 DEF Of
    <3>4. InHands(w)' = InHands(w) \cup {Len(events) + 1}
      BY <2>4, <3>2 DEF InHands
    <3>5. QED
      BY <2>4, <3>3, <3>4
  <2>5. QED
    BY <2>2, <2>3, <2>4
<1>2. offered'[w] \subseteq 1..Len(events')
  <2>1. offered[w] \subseteq 1..Len(events) /\ Len(events) \in Nat
    BY DEF WorkerFlow, FlowTypes
  <2>2. 1..Len(events) \subseteq 1..Len(events')
    BY <2>1
  <2>3. Len(events') = Len(events) + 1 => Len(events) + 1 \in 1..Len(events')
    BY <2>1
  <2>4. QED
    BY <2>1, <2>2, <2>3
<1>3. pc'[w] # "none" /\ ~Told(w)' => Wanted(w)' \subseteq InHands(w)'
  BY <1>1, KeepsWanted
<1>4. QED
  BY <1>1, <1>2, <1>3 DEF WorkerFlow

\* One worker moves its events along; the bus may fan out a report of it.
LEMMA WorkerMoves ==
    ASSUME RegTypes, FlowTypes, NEW w \in Workers, WorkerFlow(w), NEW rest, BusMay(rest),
           Line(acked'[w], cur'[w], queue'[w], rest[w], reported'[w], Len(events)),
           InHands(w) \cap Wanted(w) \subseteq Held(acked'[w], cur'[w], queue'[w], rest[w], reported'[w]),
           pc[w] # "none", pc'[w] # "none", copy'[w] = copy[w], Told(w) => Told(w)',
           cur'[w] = 0 <=> pc'[w] = "idle", pc'[w] = "idle" => attempt'[w] = 0,
           pc'[w] = "wait" => attempt'[w] < Attempts
    PROVE  WorkerFlow(w)'
<1> DEFINE a == acked'[w]
           c == cur'[w]
           q == queue'[w]
           r == reported'[w]
           n == Len(events)
<1>1. /\ Of(w)' /\ Held(a, c, q, rest[w], r) \subseteq InHands(w)'
      /\ offered'[w] \subseteq offered[w] \cup InHands(w)'
  <2>1. CASE sub'[w] = rest[w] /\ offered'[w] = offered[w] /\ Len(events') = n
    BY <2>1 DEF Of, InHands
  <2>2. CASE sub'[w] = rest[w] /\ offered'[w] = offered[w] /\ Len(events') = n + 1
    <3>1. Line(a, c, q, rest[w], r, n + 1)
      BY LineGrows
    <3>2. QED
      BY <2>2, <3>1 DEF Of, InHands
  <2>3. CASE /\ sub'[w] = Append(rest[w], n + 1) /\ Len(events') = n + 1
             /\ offered'[w] = offered[w] \cup {n + 1}
    <3>1. Line(a, c, q, Append(rest[w], n + 1), r, n + 1)
      BY LineGrows
    <3>2. rest[w] \in Seq(Nat) /\ n + 1 \in Nat
      BY DEF Line, Within
    <3>3. Elements(Append(rest[w], n + 1)) = Elements(rest[w]) \cup {n + 1}
      BY <3>2, AppendOne
    <3>4. Of(w)'
      BY <2>3, <3>1 DEF Of
    <3>5. InHands(w)' = Held(a, c, q, rest[w], r) \cup {n + 1}
      BY <2>3, <3>3 DEF InHands, Held
    <3>6. QED
      BY <2>3, <3>4, <3>5
  <2>4. QED
    BY <2>1, <2>2, <2>3 DEF BusMay
<1>2. offered'[w] \subseteq 1..Len(events')
  <2>1. offered[w] \subseteq 1..Len(events) /\ Len(events) \in Nat
    BY DEF WorkerFlow, FlowTypes
  <2>2. 1..Len(events) \subseteq 1..Len(events')
    BY <2>1 DEF BusMay
  <2>3. Len(events') = Len(events) + 1 => Len(events) + 1 \in 1..Len(events')
    BY <2>1
  <2>4. QED
    BY <2>1, <2>2, <2>3 DEF BusMay
<1>3. ~Told(w)' => Wanted(w)' \subseteq InHands(w)'
  <2>1. InHands(w) \cap Wanted(w) \subseteq InHands(w)'
    BY <1>1
  <2>2. \A i \in 1..Len(events) : events'[i] = events[i]
    BY DEF BusMay
  <2>3. QED
    BY <1>1, <2>1, <2>2, KeepsWanted
<1>4. QED
  BY <1>1, <1>2, <1>3 DEF WorkerFlow

\* All workers, when one of them moves its events along.
LEMMA FlowMoves ==
    ASSUME RegTypes, FlowInv, NEW w \in Workers, NEW rest, BusMay(rest),
           UNCHANGED <<copy, stop, cancelled>>,
           \A v \in Workers \ {w} :
              /\ rest[v] = sub[v] /\ pc'[v] = pc[v] /\ cur'[v] = cur[v] /\ attempt'[v] = attempt[v]
              /\ queue'[v] = queue[v] /\ acked'[v] = acked[v] /\ reported'[v] = reported[v],
           WorkerFlow(w)'
    PROVE  \A v \in Workers : WorkerFlow(v)'
<1>1. ASSUME NEW v \in Workers, v # w PROVE WorkerFlow(v)'
  <2>1. WorkerFlow(v) /\ FlowTypes
    BY DEF FlowInv
  <2>2. Told(v) => Told(v)'
    BY DEF Told
  <2>3. QED
    BY <1>1, <2>1, <2>2, OthersFlow DEF BusMay
<1>2. QED
  BY <1>1

\* The first of a subscription can go, and leaves a subscription.
LEMMA Heads ==
    ASSUME FlowInv, NEW w \in Workers, sub[w] # <<>>
    PROVE  LET rest == [sub EXCEPT ![w] = Tail(@)] IN
           /\ rest \in [Workers -> Seq(Nat)] /\ \A v \in Workers : Len(rest[v]) <= SubscriberBuf
           /\ rest[w] = Tail(sub[w]) /\ Head(sub[w]) \in Nat
<1>1. sub[w] \in Seq(Nat) /\ Len(sub[w]) <= SubscriberBuf /\ SubscriberBuf \in Nat
  BY WebhooksAssumption DEF FlowInv, FlowTypes
<1>2. Tail(sub[w]) \in Seq(Nat) /\ Head(sub[w]) \in Nat /\ Len(Tail(sub[w])) = Len(sub[w]) - 1 /\ Len(sub[w]) \in Nat
  BY <1>1, DropFirst
<1>3. Len(Tail(sub[w])) <= SubscriberBuf
  BY <1>1, <1>2
<1>4. QED
  BY <1>2, <1>3 DEF FlowInv, FlowTypes

\* What the goroutine that enqueues does.
LEMMA ProducingFlows ==
    ASSUME RegTypes, FlowInv, NEW w \in Workers, Producing(w)
    PROVE  FlowInv'
<1> DEFINE rest == [sub EXCEPT ![w] = Tail(@)]
<1>1. sub[w] # <<>> /\ pc[w] # "none" /\ matchesType(w, Head(sub[w])) \in BOOLEAN
  BY DEF Producing, Enqueue, Discard, publishOverflow, Alive, matchesType
<1>2. /\ rest \in [Workers -> Seq(Nat)] /\ \A v \in Workers : Len(rest[v]) <= SubscriberBuf
      /\ rest[w] = Tail(sub[w]) /\ Head(sub[w]) \in Nat
      /\ \A v \in Workers \ {w} : rest[v] = sub[v]
  BY <1>1, Heads
<1>3. /\ FlowTypes /\ WorkerFlow(w)
      /\ Line(acked[w], cur[w], queue[w], sub[w], reported[w], Len(events))
  BY DEF FlowInv, WorkerFlow, Of
<1> DEFINE A == acked[w]
           c == cur[w]
           Q == queue[w]
           S == sub[w]
           R == reported[w]
           n == Len(events)
<1> HIDE DEF rest, A, c, Q, S, R, n
<1>0. Line(A, c, Q, S, R, n) /\ S # <<>>
  BY <1>1, <1>3 DEF A, c, Q, S, R, n
<1>9. /\ Line(A, c, Q, Tail(S), R, n) /\ Held(A, c, Q, S, R) = Held(A, c, Q, Tail(S), R) \cup {Head(S)}
      /\ Line(A, c, Append(Q, Head(S)), Tail(S), R, n)
      /\ Held(A, c, Append(Q, Head(S)), Tail(S), R) = Held(A, c, Q, S, R)
      /\ Line(A, c, Q, Tail(S), R \cup {Head(S)}, n)
      /\ Held(A, c, Q, Tail(S), R \cup {Head(S)}) = Held(A, c, Q, S, R)
  <2>1. /\ Line(A, c, Q, Tail(S), R, n) /\ Line(A, c, Append(Q, Head(S)), Tail(S), R, n)
        /\ Line(A, c, Q, Tail(S), R \cup {Head(S)}, n)
    BY <1>0, LineMoves
  <2>2. S \in Seq(Nat) /\ Q \in Seq(Nat) /\ Head(S) \in Nat
    BY <1>0, DropFirst DEF Line, Within
  <2>3. /\ Elements(S) = Elements(Tail(S)) \cup {Head(S)}
        /\ Elements(Append(Q, Head(S))) = Elements(Q) \cup {Head(S)}
    BY <1>0, <2>2, DropFirst, AppendOne
  <2>4. QED
    BY <2>1, <2>3 DEF Held
<1> USE DEF A, c, Q, S, R, n
<1>4. CASE Enqueue(w)
  <2>1. /\ sub' = rest /\ queue' = [queue EXCEPT ![w] = Append(@, Head(sub[w]))] /\ Len(queue[w]) < QueueSize
        /\ UNCHANGED <<copy, stop, cancelled, stopped, pc, cur, attempt, events, offered, reported, ops, acked>>
    BY <1>4 DEF Enqueue, managerVars, busVars, rest
  <2>2. BusMay(rest)
    BY <1>2, <1>3, <2>1, BusRests
  <2>3. queue' \in [Workers -> Seq(Nat)] /\ \A v \in Workers : Len(queue'[v]) <= QueueSize
    <3>1. queue[w] \in Seq(Nat)
      BY <1>3 DEF FlowTypes
    <3>2. Append(queue[w], Head(sub[w])) \in Seq(Nat) /\ Len(Append(queue[w], Head(sub[w]))) = Len(queue[w]) + 1
          /\ Len(queue[w]) \in Nat
      BY <1>2, <3>1, AppendOne
    <3>3. Len(Append(queue[w], Head(sub[w]))) <= QueueSize
      BY <2>1, <3>2, WebhooksAssumption
    <3>4. QED
      BY <1>3, <2>1, <3>2, <3>3 DEF FlowTypes
  <2>4. queue'[w] = Append(queue[w], Head(sub[w]))
    BY <1>3, <2>1 DEF FlowTypes
  <2>5. /\ Line(acked'[w], cur'[w], queue'[w], rest[w], reported'[w], Len(events))
        /\ Held(acked'[w], cur'[w], queue'[w], rest[w], reported'[w]) = InHands(w)
    BY <1>2, <1>9, <2>1, <2>4 DEF InHands
  <2>6. WorkerFlow(w)'
    BY <1>1, <1>3, <2>1, <2>2, <2>5, WorkerMoves DEF WorkerFlow, Told
  <2>7. \A v \in Workers : WorkerFlow(v)'
    BY <1>2, <2>1, <2>2, <2>6, FlowMoves
  <2>8. FlowTypes'
    BY <1>3, <2>1, <2>2, <2>3 DEF FlowTypes, BusMay
  <2>9. QED
    BY <2>7, <2>8 DEF FlowInv
<1>5. CASE Discard(w)
  <2>1. /\ sub' = rest /\ ~matchesType(w, Head(sub[w]))
        /\ UNCHANGED <<copy, stop, cancelled, stopped, queue, pc, cur, attempt, events, offered, reported, ops, acked>>
    BY <1>5 DEF Discard, managerVars, busVars, rest
  <2>2. BusMay(rest)
    BY <1>2, <1>3, <2>1, BusRests
  <2>3. /\ Line(acked'[w], cur'[w], queue'[w], rest[w], reported'[w], Len(events))
        /\ InHands(w) = Held(acked'[w], cur'[w], queue'[w], rest[w], reported'[w]) \cup {Head(sub[w])}
    BY <1>2, <1>9, <2>1 DEF InHands
  <2>4. Head(sub[w]) \notin Wanted(w)
    BY <2>1 DEF Wanted
  <2>5. WorkerFlow(w)'
    BY <1>1, <1>3, <2>1, <2>2, <2>3, <2>4, WorkerMoves DEF WorkerFlow, Told
  <2>6. \A v \in Workers : WorkerFlow(v)'
    BY <1>2, <2>1, <2>2, <2>5, FlowMoves
  <2>7. FlowTypes'
    BY <1>3, <2>1, <2>2 DEF FlowTypes, BusMay
  <2>8. QED
    BY <2>6, <2>7 DEF FlowInv
<1>6. CASE publishOverflow(w)
  <2>1. /\ Report(w, Head(sub[w]), rest)
        /\ UNCHANGED <<copy, stop, cancelled, stopped, queue, pc, cur, attempt, ops, acked>>
    BY <1>6 DEF publishOverflow, managerVars, rest
  <2>2. /\ BusMay(rest) /\ reported' = [reported EXCEPT ![w] = @ \cup {Head(sub[w])}]
        /\ reported' \in [Workers -> SUBSET Nat]
    BY <1>2, <1>3, <2>1, Reports
  <2>3. reported'[w] = reported[w] \cup {Head(sub[w])}
    BY <1>3, <2>2 DEF FlowTypes
  <2>4. /\ Line(acked'[w], cur'[w], queue'[w], rest[w], reported'[w], Len(events))
        /\ Held(acked'[w], cur'[w], queue'[w], rest[w], reported'[w]) = InHands(w)
    BY <1>2, <1>9, <2>1, <2>3 DEF InHands
  <2>5. WorkerFlow(w)'
    BY <1>1, <1>3, <2>1, <2>2, <2>4, WorkerMoves DEF WorkerFlow, Told
  <2>6. \A v \in Workers : WorkerFlow(v)'
    BY <1>2, <2>1, <2>2, <2>5, FlowMoves DEF FlowInv, FlowTypes
  <2>7. FlowTypes'
    BY <1>3, <2>1, <2>2 DEF FlowTypes, BusMay
  <2>8. QED
    BY <2>6, <2>7 DEF FlowInv
<1>7. QED
  BY <1>4, <1>5, <1>6 DEF Producing

\* What the delivering goroutine does, short of returning.
LEMMA DeliveringFlows ==
    ASSUME RegTypes, FlowInv, NEW w \in Workers, Delivering(w), ~Exit(w)
    PROVE  FlowInv'
<1>1. /\ FlowTypes /\ WorkerFlow(w) /\ pc[w] # "none"
      /\ Line(acked[w], cur[w], queue[w], sub[w], reported[w], Len(events))
  BY DEF FlowInv, WorkerFlow, Of, Delivering, Take, Failed, Retry, GiveUp, recordSuccess, recordFailure
<1>2. /\ sub \in [Workers -> Seq(Nat)] /\ \A v \in Workers : Len(sub[v]) <= SubscriberBuf
  BY <1>1 DEF FlowTypes
<1>3. ASSUME UNCHANGED <<events, offered>>, sub' = sub PROVE BusMay(sub)
  BY <1>1, <1>2, <1>3, BusRests
<1>4. CASE Take(w)
  <2>1. /\ pc[w] = "idle" /\ queue[w] # <<>>
        /\ cur' = [cur EXCEPT ![w] = Head(queue[w])] /\ queue' = [queue EXCEPT ![w] = Tail(@)]
        /\ attempt' = [attempt EXCEPT ![w] = 1] /\ pc' = [pc EXCEPT ![w] = "send"]
        /\ UNCHANGED <<copy, stop, cancelled, stopped, sub, events, offered, reported, ops, acked>>
    BY <1>4 DEF Take, managerVars, busVars
  <2>2. cur[w] = 0 /\ queue[w] \in Seq(Nat)
    BY <1>1, <2>1 DEF WorkerFlow, FlowTypes
  <2>3. /\ Tail(queue[w]) \in Seq(Nat) /\ Head(queue[w]) \in Nat /\ Len(Tail(queue[w])) = Len(queue[w]) - 1
        /\ Elements(queue[w]) = Elements(Tail(queue[w])) \cup {Head(queue[w])}
    BY <2>1, <2>2, DropFirst
  <2>4. Line(acked[w], Head(queue[w]), Tail(queue[w]), sub[w], reported[w], Len(events)) /\ Head(queue[w]) # 0
    BY <1>1, <2>1, <2>2, LineTakes
  <2>5. cur'[w] = Head(queue[w]) /\ queue'[w] = Tail(queue[w]) /\ pc'[w] = "send"
    BY <1>1, <2>1 DEF FlowTypes, RegTypes
  <2>6. InHands(w) \cap Wanted(w) \subseteq Held(acked'[w], cur'[w], queue'[w], sub[w], reported'[w])
    <3>1. 0 \notin Wanted(w)
      BY <1>1 DEF WorkerFlow, Wanted, FlowTypes
    <3>2. QED
      BY <2>1, <2>2, <2>3, <2>5, <3>1 DEF InHands, Held
  <2>7. WorkerFlow(w)'
    BY <1>1, <1>3, <2>1, <2>4, <2>5, <2>6, WorkerMoves DEF Told
  <2>8. \A v \in Workers : WorkerFlow(v)'
    BY <1>3, <2>1, <2>7, FlowMoves
  <2>9. queue' \in [Workers -> Seq(Nat)] /\ \A v \in Workers : Len(queue'[v]) <= QueueSize
    <3>1. Len(queue[w]) <= QueueSize /\ Len(queue[w]) \in Nat
      BY <1>1, <2>2 DEF FlowTypes
    <3>2. Len(Tail(queue[w])) <= QueueSize
      BY <2>3, <3>1, WebhooksAssumption
    <3>3. QED
      BY <1>1, <2>1, <2>3, <3>2 DEF FlowTypes
  <2>10. cur' \in [Workers -> Nat] /\ attempt' \in [Workers -> 0..Attempts]
    <3>1. 1 \in 0..Attempts
      BY WebhooksAssumption
    <3>2. QED
      BY <1>1, <2>1, <2>3, <3>1 DEF FlowTypes
  <2>11. QED
    BY <1>1, <2>1, <2>8, <2>9, <2>10 DEF FlowInv, FlowTypes
<1>5. CASE Failed(w) \/ Retry(w)
  <2>1. /\ UNCHANGED <<copy, stop, cancelled, stopped, sub, queue, cur, events, offered, reported, ops, acked>>
        /\ \/ pc[w] = "send" /\ attempt[w] < Attempts /\ pc' = [pc EXCEPT ![w] = "wait"] /\ attempt' = attempt
           \/ pc[w] = "wait" /\ pc' = [pc EXCEPT ![w] = "send"] /\ attempt' = [attempt EXCEPT ![w] = @ + 1]
    BY <1>5 DEF Failed, Retry, managerVars, busVars
  <2>2. /\ pc'[w] \in {"send", "wait"} /\ cur[w] # 0 /\ (pc'[w] = "wait" => attempt'[w] < Attempts)
        /\ \A v \in Workers \ {w} : pc'[v] = pc[v] /\ attempt'[v] = attempt[v]
    BY <1>1, <2>1 DEF RegTypes, WorkerFlow, FlowTypes
  <2>3. attempt' \in [Workers -> 0..Attempts]
    <3>1. pc[w] = "wait" => attempt[w] + 1 \in 0..Attempts
      BY <1>1, WebhooksAssumption DEF WorkerFlow, FlowTypes
    <3>2. QED
      BY <1>1, <2>1, <3>1 DEF FlowTypes
  <2>4. WorkerFlow(w)'
    BY <1>1, <1>3, <2>1, <2>2, WorkerMoves DEF Told, InHands
  <2>5. \A v \in Workers : WorkerFlow(v)'
    BY <1>3, <2>1, <2>2, <2>4, FlowMoves
  <2>6. QED
    BY <1>1, <2>1, <2>3, <2>5 DEF FlowInv, FlowTypes
<1>6. CASE GiveUp(w)
  <2>1. /\ pc[w] = "wait" /\ Told(w) /\ pc' = [pc EXCEPT ![w] = "idle"] /\ cur' = [cur EXCEPT ![w] = 0]
        /\ attempt' = [attempt EXCEPT ![w] = 0]
        /\ UNCHANGED <<copy, stop, cancelled, stopped, sub, queue, events, offered, reported, ops, acked>>
    BY <1>6 DEF GiveUp, Idle, managerVars, busVars
  <2>2. cur[w] # 0 /\ Line(acked[w], 0, queue[w], sub[w], reported[w], Len(events))
    BY <1>1, <2>1, LineEnds DEF WorkerFlow
  <2>3. pc'[w] = "idle" /\ cur'[w] = 0 /\ attempt'[w] = 0
    BY <1>1, <2>1 DEF RegTypes, FlowTypes
  <2>4. WorkerFlow(w)'
    BY <1>1, <2>1, <2>2, <2>3 DEF WorkerFlow, Of, Told
  <2>5. \A v \in Workers : WorkerFlow(v)'
    BY <1>3, <2>1, <2>4, FlowMoves
  <2>6. QED
    BY <1>1, <2>1, <2>5, WebhooksAssumption DEF FlowInv, FlowTypes
<1>7. CASE recordSuccess(w)
  <2>1. /\ pc[w] = "send" /\ pc' = [pc EXCEPT ![w] = "idle"] /\ cur' = [cur EXCEPT ![w] = 0]
        /\ attempt' = [attempt EXCEPT ![w] = 0] /\ acked' = [acked EXCEPT ![w] = Append(@, cur[w])]
        /\ UNCHANGED <<copy, stop, cancelled, stopped, sub, queue, events, offered, reported, ops>>
    BY <1>7 DEF recordSuccess, Idle, managerVars, busVars
  <2>2. cur[w] # 0 /\ Line(Append(acked[w], cur[w]), 0, queue[w], sub[w], reported[w], Len(events))
    BY <1>1, <2>1, LineEnds DEF WorkerFlow
  <2>3. pc'[w] = "idle" /\ cur'[w] = 0 /\ attempt'[w] = 0 /\ acked'[w] = Append(acked[w], cur[w])
    BY <1>1, <2>1 DEF RegTypes, FlowTypes
  <2>4. Append(acked[w], cur[w]) \in Seq(Nat) /\ Elements(acked'[w]) = Elements(acked[w]) \cup {cur[w]}
    BY <1>1, <2>3, AppendOne DEF FlowTypes
  <2>5. InHands(w) \subseteq Held(acked'[w], cur'[w], queue'[w], sub[w], reported'[w])
    BY <2>1, <2>4 DEF InHands, Held
  <2>6. WorkerFlow(w)'
    BY <1>1, <1>3, <2>1, <2>2, <2>3, <2>5, WorkerMoves DEF Told
  <2>7. \A v \in Workers : WorkerFlow(v)'
    BY <1>3, <2>1, <2>6, FlowMoves
  <2>8. QED
    BY <1>1, <2>1, <2>4, <2>7, WebhooksAssumption DEF FlowInv, FlowTypes
<1>8. CASE recordFailure(w)
  <2>1. /\ pc[w] = "send" /\ pc' = [pc EXCEPT ![w] = "idle"] /\ cur' = [cur EXCEPT ![w] = 0]
        /\ attempt' = [attempt EXCEPT ![w] = 0] /\ Report(w, cur[w], sub)
        /\ UNCHANGED <<copy, stop, cancelled, stopped, queue, ops, acked>>
    BY <1>8 DEF recordFailure, Idle, managerVars
  <2>2. cur[w] # 0 /\ Line(acked[w], 0, queue[w], sub[w], reported[w] \cup {cur[w]}, Len(events))
    BY <1>1, <2>1, LineEnds DEF WorkerFlow
  <2>3. /\ BusMay(sub) /\ reported' = [reported EXCEPT ![w] = @ \cup {cur[w]}]
        /\ reported' \in [Workers -> SUBSET Nat]
    <3>1. cur[w] \in Nat
      BY <1>1 DEF FlowTypes
    <3>2. QED
      BY <1>1, <1>2, <2>1, <3>1, Reports
  <2>4. pc'[w] = "idle" /\ cur'[w] = 0 /\ attempt'[w] = 0 /\ reported'[w] = reported[w] \cup {cur[w]}
    BY <1>1, <2>1, <2>3 DEF RegTypes, FlowTypes
  <2>5. InHands(w) \subseteq Held(acked'[w], cur'[w], queue'[w], sub[w], reported'[w])
    BY <2>1, <2>4 DEF InHands, Held
  <2>6. WorkerFlow(w)'
    BY <1>1, <2>1, <2>2, <2>3, <2>4, <2>5, WorkerMoves DEF Told
  <2>7. \A v \in Workers : WorkerFlow(v)'
    <3>1. \A v \in Workers \ {w} : /\ pc'[v] = pc[v] /\ cur'[v] = cur[v] /\ attempt'[v] = attempt[v]
                                  /\ reported'[v] = reported[v]
      BY <2>1, <2>3
    <3>2. QED
      BY <2>1, <2>3, <2>6, <3>1, FlowMoves
  <2>8. QED
    BY <1>1, <2>1, <2>3, <2>7, WebhooksAssumption DEF FlowInv, FlowTypes, BusMay
<1>9. QED
  BY <1>4, <1>5, <1>6, <1>7, <1>8 DEF Delivering

\* A worker that the manager makes, or one that it no longer finds, has no
\* events yet, or the ones it had.
LEMMA ManagerFlows ==
    ASSUME RegTypes, FlowInv,
           UNCHANGED <<cancelled, sub, queue, cur, attempt, events, offered, reported, acked>>,
           ops' \in 0..MaxOps, stopped' \in {"no", "waiting", "done"},
           \A v \in Workers : \/ pc'[v] = pc[v] /\ copy'[v] = copy[v] /\ (stop[v] => stop'[v])
                              \/ pc[v] = "none" /\ pc'[v] = "idle"
    PROVE  FlowInv'
<1>1. ASSUME NEW v \in Workers PROVE WorkerFlow(v)'
  <2>1. WorkerFlow(v) /\ FlowTypes
    BY DEF FlowInv
  <2>2. CASE pc'[v] = pc[v] /\ copy'[v] = copy[v] /\ (stop[v] => stop'[v])
    <3>1. Told(v) => Told(v)'
      BY <2>2 DEF Told
    <3>2. sub'[v] = sub[v] /\ offered'[v] = offered[v] /\ Len(events') = Len(events)
          /\ cur'[v] = cur[v] /\ attempt'[v] = attempt[v] /\ queue'[v] = queue[v] /\ acked'[v] = acked[v]
          /\ reported'[v] = reported[v] /\ \A i \in 1..Len(events) : events'[i] = events[i]
      OBVIOUS
    <3>3. QED
      BY <2>1, <2>2, <3>1, <3>2, OthersFlow
  <2>3. CASE pc[v] = "none" /\ pc'[v] = "idle"
    <3>1. offered[v] = {} /\ cur[v] = 0 /\ attempt[v] = 0 /\ Of(v)
      BY <2>1, <2>3 DEF WorkerFlow
    <3>2. Of(v)' /\ Wanted(v)' = {}
      BY <3>1 DEF Of, Wanted
    <3>3. QED
      BY <2>1, <2>3, <3>1, <3>2 DEF WorkerFlow
  <2>4. QED
    BY <2>2, <2>3
<1>2. FlowTypes'
  BY DEF FlowInv, FlowTypes
<1>3. QED
  BY <1>1, <1>2 DEF FlowInv

LEMMA NewWorkerFlows ==
    ASSUME RegTypes, NEW record, startWorkerLocked(record) \/ NoWorker
    PROVE  \A v \in Workers : \/ pc'[v] = pc[v] /\ copy'[v] = copy[v]
                              \/ pc[v] = "none" /\ pc'[v] = "idle"
BY DEF startWorkerLocked, newWorker, NoWorker, Alive, RegTypes

LEMMA FlowInit == Init => FlowInv
<1> SUFFICES ASSUME Init PROVE FlowInv
  OBVIOUS
<1>1. FlowTypes
  BY WebhooksAssumption DEF Init, FlowTypes
<1>2. ASSUME NEW w \in Workers PROVE WorkerFlow(w)
  <2>1. /\ acked[w] = <<>> /\ queue[w] = <<>> /\ sub[w] = <<>> /\ cur[w] = 0 /\ reported[w] = {} /\ offered[w] = {}
        /\ attempt[w] = 0 /\ pc[w] = "none" /\ Len(events) = 0
    BY DEF Init
  <2>2. Of(w)
    BY <2>1 DEF Of, Line, Within, InLine, Ascending, Below, Elements
  <2>3. QED
    BY <2>1, <2>2 DEF WorkerFlow
<1>3. QED
  BY <1>1, <1>2 DEF FlowInv

LEMMA FlowStep == RegInv /\ FlowInv /\ [Next]_vars => FlowInv'
<1> SUFFICES ASSUME RegInv, FlowInv, [Next]_vars PROVE FlowInv'
  OBVIOUS
<1>0. RegTypes /\ FlowTypes /\ Charge
  BY DEF RegInv, FlowInv
<1>1. CASE Start
  <2>1. /\ UNCHANGED <<cancelled, stopped, stop, sub, queue, cur, attempt, events, offered, reported, acked>>
        /\ ops' = ops \/ Spend
    BY <1>1 DEF Start, busVars
  <2>2. ops' \in 0..MaxOps
    BY <1>0, <2>1, WebhooksAssumption DEF Spend, FlowTypes
  <2>3. startWorkerLocked(hook) \/ NoWorker
    BY <1>1 DEF Start
  <2>4. QED
    BY <1>0, <2>1, <2>2, <2>3, NewWorkerFlows, ManagerFlows DEF FlowTypes
<1>2. CASE Signal \/ Stop \/ StopReturns
  <2>1. /\ UNCHANGED <<workerVars, busVars, ops, acked>> /\ (cancelled => cancelled')
        /\ stopped' \in {"no", "waiting", "done"}
    BY <1>0, <1>2 DEF Signal, Stop, StopReturns, FlowTypes
  <2>2. ASSUME NEW v \in Workers PROVE WorkerFlow(v)'
    <3>1. WorkerFlow(v) /\ (Told(v) => Told(v)')
      BY <2>1 DEF FlowInv, Told, workerVars
    <3>2. QED
      BY <1>0, <2>1, <3>1, OthersFlow DEF workerVars, busVars
  <2>3. QED
    BY <1>0, <2>1, <2>2 DEF FlowInv, FlowTypes, workerVars, busVars
<1>3. CASE Crash
  <2>1. FlowTypes'
    BY <1>0, <1>3, WebhooksAssumption DEF Crash, Spend, FlowTypes
  <2>2. ASSUME NEW w \in Workers PROVE WorkerFlow(w)'
    <3>1. /\ acked'[w] = <<>> /\ queue'[w] = <<>> /\ sub'[w] = <<>> /\ cur'[w] = 0 /\ reported'[w] = {}
          /\ offered'[w] = {} /\ attempt'[w] = 0 /\ pc'[w] = "none" /\ Len(events') \in Nat
      BY <1>0, <1>3 DEF Crash, FlowTypes
    <3>2. Of(w)'
      BY <3>1 DEF Of, Line, Within, InLine, Ascending, Below, Elements
    <3>3. QED
      BY <3>1, <3>2 DEF WorkerFlow
  <2>3. QED
    BY <2>1, <2>2 DEF FlowInv
<1>4. CASE Publish
  <2>1. /\ Fan("vm", sub) /\ Len(events) < MaxEvents
        /\ UNCHANGED <<cancelled, stopped, copy, stop, queue, pc, cur, attempt, reported, ops, acked>>
    BY <1>4 DEF Publish, managerVars
  <2>2. BusMay(sub)
    BY <1>0, <2>1, Fans DEF FlowTypes
  <2>3. ASSUME NEW v \in Workers PROVE WorkerFlow(v)'
    <3>1. WorkerFlow(v) /\ (Told(v) => Told(v)')
      BY <2>1 DEF FlowInv, Told
    <3>2. QED
      BY <1>0, <2>1, <2>2, <3>1, OthersFlow DEF BusMay
  <2>4. QED
    BY <1>0, <2>1, <2>2, <2>3 DEF FlowInv, FlowTypes, BusMay
<1>5. ASSUME NEW w \in Workers, Producing(w) \/ Delivering(w) PROVE FlowInv'
  <2>1. CASE Exit(w)
    <3>1. /\ pc[w] = "idle" /\ pc' = [pc EXCEPT ![w] = "none"] /\ copy' = [copy EXCEPT ![w] = NoHook]
          /\ stop' = [stop EXCEPT ![w] = FALSE]
          /\ sub' = [sub EXCEPT ![w] = <<>>] /\ queue' = [queue EXCEPT ![w] = <<>>]
          /\ offered' = [offered EXCEPT ![w] = {}] /\ reported' = [reported EXCEPT ![w] = {}]
          /\ acked' = [acked EXCEPT ![w] = <<>>]
          /\ UNCHANGED <<cancelled, stopped, cur, attempt, events, ops>>
      BY <2>1 DEF Exit
    <3>2. FlowTypes'
      <4>1. <<>> \in Seq(Nat) /\ Len(<<>>) = 0 /\ 0 <= SubscriberBuf /\ 0 <= QueueSize
        BY WebhooksAssumption
      <4>2. \A v \in Workers : sub'[v] \in {<<>>, sub[v]} /\ queue'[v] \in {<<>>, queue[v]}
        BY <1>0, <3>1 DEF FlowTypes
      <4>3. \A v \in Workers : Len(sub'[v]) <= SubscriberBuf /\ Len(queue'[v]) <= QueueSize
        BY <1>0, <4>1, <4>2 DEF FlowTypes
      <4>4. QED
        BY <1>0, <3>1, <4>1, <4>3 DEF FlowTypes
    <3>3. WorkerFlow(w)'
      <4>1. cur[w] = 0 /\ attempt[w] = 0
        BY <3>1 DEF FlowInv, WorkerFlow
      <4>2. /\ acked'[w] = <<>> /\ queue'[w] = <<>> /\ sub'[w] = <<>> /\ cur'[w] = 0 /\ reported'[w] = {}
            /\ offered'[w] = {} /\ attempt'[w] = 0 /\ pc'[w] = "none" /\ Len(events') \in Nat
        BY <1>0, <3>1, <4>1 DEF FlowTypes, RegTypes
      <4>3. Of(w)'
        BY <4>2 DEF Of, Line, Within, InLine, Ascending, Below, Elements
      <4>4. QED
        BY <4>2, <4>3 DEF WorkerFlow
    <3>4. ASSUME NEW v \in Workers, v # w PROVE WorkerFlow(v)'
      <4>1. /\ pc'[v] = pc[v] /\ queue'[v] = queue[v] /\ acked'[v] = acked[v] /\ reported'[v] = reported[v]
            /\ copy'[v] = copy[v] /\ stop'[v] = stop[v] /\ sub'[v] = sub[v] /\ offered'[v] = offered[v]
        BY <1>0, <3>1, <3>4 DEF RegTypes, FlowTypes
      <4>2. WorkerFlow(v) /\ (Told(v) => Told(v)')
        BY <3>1, <4>1 DEF FlowInv, Told
      <4>3. QED
        BY <1>0, <3>1, <4>1, <4>2, OthersFlow
    <3>5. QED
      BY <3>2, <3>3, <3>4 DEF FlowInv
  <2>2. CASE ~Exit(w)
    BY <1>0, <1>5, <2>2, ProducingFlows, DeliveringFlows
  <2>3. QED
    BY <2>1, <2>2
<1>6. ASSUME NEW h \in Handlers, Request(h) PROVE FlowInv'
  <2>1. UNCHANGED <<cancelled, stopped, sub, queue, cur, attempt, events, offered, reported, acked>>
    BY <1>6 DEF Request, CreateWebhook, GetWebhook, UpdateWebhook, DeleteWebhook, Unregister, Register, TestDeliver,
                managerVars, workerVars, busVars
  <2>2. ops' \in 0..MaxOps
    <3>1. ops' = ops \/ Spend
      BY <1>6 DEF Request, CreateWebhook, GetWebhook, UpdateWebhook, DeleteWebhook, Unregister, Register, TestDeliver
    <3>2. QED
      BY <1>0, <3>1, WebhooksAssumption DEF Spend, FlowTypes
  <2>3. \A v \in Workers : \/ pc'[v] = pc[v] /\ copy'[v] = copy[v] /\ (stop[v] => stop'[v])
                           \/ pc[v] = "none" /\ pc'[v] = "idle"
    <3>1. CASE Register(h)
      <4>1. stop' = stop /\ (startWorkerLocked(loc[h]) \/ NoWorker)
        BY <3>1 DEF Register
      <4>2. QED
        BY <1>0, <4>1, NewWorkerFlows
    <3>2. CASE ~Register(h)
      BY <1>0, <1>6, <3>2 DEF Request, CreateWebhook, GetWebhook, UpdateWebhook, DeleteWebhook, Unregister,
          TestDeliver, workerVars, RegTypes
    <3>3. QED
      BY <3>1, <3>2
  <2>4. QED
    BY <1>0, <2>1, <2>2, <2>3, ManagerFlows DEF FlowTypes
<1>7. CASE UNCHANGED vars
  <2>1. UNCHANGED <<cancelled, stopped, copy, stop, sub, queue, pc, cur, attempt, events, offered, reported, ops, acked>>
    BY <1>7 DEF vars, managerVars, workerVars, busVars
  <2>2. QED
    BY <1>0, <2>1, ManagerFlows DEF FlowTypes
<1>8. QED
  BY <1>1, <1>2, <1>3, <1>4, <1>5, <1>6, <1>7 DEF Next

LEMMA FlowAlways == Spec => []FlowInv
BY RegAlways, FlowInit, FlowStep, PTL DEF Spec

\* While a worker has not been told to stop, every event its subscription took
\* in and its filter wants is in hand, was accepted, or was reported, for any
\* sizes of channel and queue and any number of attempts (run, deliver,
\* publishOverflow, recordFailure).
THEOREM NothingDroppedSilently == Spec => []NoSilentLoss
<1>1. FlowInv => NoSilentLoss
  BY DEF FlowInv, WorkerFlow, InHands, Held, NoSilentLoss, Alive, InHand
<1>2. QED
  BY <1>1, FlowAlways, PTL

\* A worker sees the receiver accept each event at most once and in the order of
\* the bus, and reports none of those as lost (deliver, run).
THEOREM AcceptedOnceInOrder == Spec => []TakenOnceInOrder
<1>1. RegInv /\ FlowInv => TakenOnceInOrder
  <2> SUFFICES ASSUME RegInv, FlowInv PROVE TakenOnceInOrder
    OBVIOUS
  <2>1. ASSUME NEW w \in Workers
        PROVE  /\ \A i, j \in 1..Len(acked[w]) : i < j => acked[w][i] < acked[w][j]
               /\ Elements(acked[w]) \cap reported[w] = {} /\ cur[w] \in 0..Len(events)
    BY DEF FlowInv, WorkerFlow, Of, Line, InLine, Ascending
  <2>2. TypeOK
    BY <2>1 DEF RegInv, RegTypes, States, FlowInv, FlowTypes, TypeOK
  <2>3. QED
    BY <2>1, <2>2 DEF TakenOnceInOrder
<1>2. QED
  BY <1>1, RegAlways, FlowAlways, PTL
=============================================================================
