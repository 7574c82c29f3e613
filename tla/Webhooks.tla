------------------------------ MODULE Webhooks ------------------------------
(***************************************************************************)
(* Webhook delivery: internal/webhooks/manager.go with the REST handlers   *)
(* of internal/api/handlers_webhook.go, for one webhook.                   *)
(*                                                                         *)
(* A worker is a subscription on the bus, a bounded queue, a goroutine     *)
(* that moves events from the one to the other, and a goroutine that       *)
(* delivers them, with retries, and writes the outcome back as a whole     *)
(* record: its own copy.  A PATCH replaces the worker by a new one without *)
(* waiting for the old, which may be in the middle of a request; a stop    *)
(* signal competes with pending events in a select, which takes either.    *)
(*                                                                         *)
(* The bus is external: a published event reaches the channels of the      *)
(* subscribers of the moment, and is lost to one whose channel is full (see *)
(* EventBus).  The receiver may answer with success or not at all.         *)
(***************************************************************************)
EXTENDS Naturals, Sequences, FiniteSets

CONSTANTS
    Handlers,       \* requests served at the same time
    MaxWorkers,     \* bound on the workers that have not returned
    SubscriberBuf,  \* subscriberBufSize
    QueueSize,      \* queueSize
    Attempts,       \* len(backoff) + 1
    MaxEvents,      \* bound on published events
    MaxOps,         \* bound on requests, crashes and failing starts
    NoHook

ASSUME WebhooksAssumption ==
    /\ {MaxWorkers, MaxEvents, MaxOps} \subseteq Nat
    /\ {SubscriberBuf, QueueSize, Attempts} \subseteq Nat \ {0}

\* A worker that returns leaves its number to a later one.
Workers == 1..MaxWorkers

Gone == MaxWorkers + 1

\* conf stands for URL, secret and event types, all of which a PATCH may
\* change: "vm" subscribes to the events of machines, "all" to every event.
Hooks == [conf : {"vm", "all"}, active : BOOLEAN]
ASSUME HookAssumption == NoHook \notin Hooks

VARIABLES
    hook,       \* the stored record, or NoHook
    born,       \* the id exists: it was created at some time
    running,    \* Start has run
    cancelled,  \* rootCtx is done
    stopped,    \* Stop: "no", "waiting" for the workers, or "done"
    inCharge,   \* m.workers[id], 0 for none, Gone for one that has returned
    copy,       \* copy[w]: w.hook
    stop,       \* stop[w]: w.stopped is closed
    sub,        \* sub[w]: w.sub
    queue,      \* queue[w]: w.queue
    pc,         \* pc[w]: where the delivering goroutine is
    cur,        \* cur[w]: the event it delivers
    attempt,    \* attempt[w]: which attempt that is
    hpc, loc,   \* hpc[h]: where request h is; loc[h]: the record it has read
    events,     \* what the bus has carried: "vm" for a machine's, "webhook" for a report
    ops,        \* what is left of MaxOps
    acked,      \* history: acked[w], events the receiver took from w, in order
    offered,    \* history: offered[w], events w's subscription took in
    reported,   \* history: reported[w], events w published a report about
    excused     \* history: something that may set record and worker apart has happened

storeVars == <<hook, born, excused>>
managerVars == <<running, cancelled, stopped, inCharge>>
workerVars == <<copy, stop, sub, queue, pc, cur, attempt>>
busVars == <<events, offered, reported>>
handlerVars == <<hpc, loc>>
vars == <<storeVars, managerVars, workerVars, busVars, handlerVars, ops, acked>>

Spend == ops > 0 /\ ops' = ops - 1

Alive(w) == pc[w] # "none"
Told(w) == stop[w] \/ cancelled

----------------------------------------------------------------------------
(* The bus *)

\* w's channel before the event, rest[w], takes it if it has room.
Fan(type, rest) ==
    /\ events' = Append(events, type)
    /\ sub' = [w \in Workers |->
          IF Alive(w) /\ Len(rest[w]) < SubscriberBuf THEN Append(rest[w], Len(events) + 1) ELSE rest[w]]
    /\ offered' = [w \in Workers |->
          IF Alive(w) /\ Len(rest[w]) < SubscriberBuf THEN offered[w] \cup {Len(events) + 1} ELSE offered[w]]

\* An event that no worker is subscribed to leaves no trace here.
Publish ==
    /\ Len(events) < MaxEvents /\ \E w \in Workers : Alive(w)
    /\ Fan("vm", sub)
    /\ UNCHANGED <<storeVars, managerVars, copy, stop, queue, pc, cur, attempt, handlerVars, reported, ops, acked>>

\* A report is an event like any other, and a bus that is full loses it.
Report(w, n, rest) ==
    /\ reported' = [reported EXCEPT ![w] = @ \cup {n}]
    /\ \/ Len(events) < MaxEvents /\ Fan("webhook", rest)
       \/ sub' = rest /\ UNCHANGED <<events, offered>>

----------------------------------------------------------------------------
(* Workers *)

matchesType(w, n) == copy[w].conf = "all" \/ events[n] = "vm"

\* The goroutine that filters and enqueues.  Told to stop, it may take another
\* event or return, and nothing else tells these apart: its return is no step.
Enqueue(w) ==
    LET n == Head(sub[w]) IN
    /\ Alive(w) /\ sub[w] # <<>> /\ matchesType(w, n) /\ Len(queue[w]) < QueueSize
    /\ sub' = [sub EXCEPT ![w] = Tail(@)]
    /\ queue' = [queue EXCEPT ![w] = Append(@, n)]
    /\ UNCHANGED <<storeVars, managerVars, copy, stop, pc, cur, attempt, busVars, handlerVars, ops, acked>>

Discard(w) ==
    /\ Alive(w) /\ sub[w] # <<>> /\ ~matchesType(w, Head(sub[w]))
    /\ sub' = [sub EXCEPT ![w] = Tail(@)]
    /\ UNCHANGED <<storeVars, managerVars, copy, stop, queue, pc, cur, attempt, busVars, handlerVars,
                   ops, acked>>

\* A defect to detect: an event that finds the queue full goes unreported.
OverflowSilently(w) ==
    /\ Alive(w) /\ sub[w] # <<>> /\ matchesType(w, Head(sub[w])) /\ Len(queue[w]) = QueueSize
    /\ sub' = [sub EXCEPT ![w] = Tail(@)]
    /\ UNCHANGED <<storeVars, managerVars, copy, stop, queue, pc, cur, attempt, busVars, handlerVars,
                   ops, acked>>
\* The queue is full.  The report may come back to this very subscription,
\* which has room again.
publishOverflow(w) ==
    /\ Alive(w) /\ sub[w] # <<>> /\ matchesType(w, Head(sub[w])) /\ Len(queue[w]) = QueueSize
    /\ Report(w, Head(sub[w]), [sub EXCEPT ![w] = Tail(@)])
    /\ UNCHANGED <<storeVars, managerVars, copy, stop, queue, pc, cur, attempt, handlerVars, ops, acked>>

----------------------------------------------------------------------------
(* The delivering goroutine *)

Idle(w) ==
    /\ pc' = [pc EXCEPT ![w] = "idle"]
    /\ cur' = [cur EXCEPT ![w] = 0]
    /\ attempt' = [attempt EXCEPT ![w] = 0]

\* Likewise, the loop may take another event although it was told to stop.
Take(w) ==
    /\ pc[w] = "idle" /\ queue[w] # <<>>
    /\ cur' = [cur EXCEPT ![w] = Head(queue[w])]
    /\ queue' = [queue EXCEPT ![w] = Tail(@)]
    /\ attempt' = [attempt EXCEPT ![w] = 1]
    /\ pc' = [pc EXCEPT ![w] = "send"]
    /\ UNCHANGED <<storeVars, managerVars, copy, stop, sub, busVars, handlerVars, ops, acked>>

\* An error, a timeout, a cancelled request, or another status.
Failed(w) ==
    /\ pc[w] = "send" /\ attempt[w] < Attempts
    /\ pc' = [pc EXCEPT ![w] = "wait"]
    /\ UNCHANGED <<storeVars, managerVars, copy, stop, sub, queue, cur, attempt, busVars, handlerVars, ops, acked>>

Retry(w) ==
    /\ pc[w] = "wait"
    /\ pc' = [pc EXCEPT ![w] = "send"]
    /\ attempt' = [attempt EXCEPT ![w] = @ + 1]
    /\ UNCHANGED <<storeVars, managerVars, copy, stop, sub, queue, cur, busVars, handlerVars, ops, acked>>

\* A stop during the pause ends the delivery without a word.
GiveUp(w) ==
    /\ pc[w] = "wait" /\ Told(w)
    /\ Idle(w)
    /\ UNCHANGED <<storeVars, managerVars, copy, stop, sub, queue, busVars, handlerVars, ops, acked>>

\* PutWebhook(&w.hook): the copy replaces the record, whatever it is by now.  A
\* store that fails is logged, no more.
WriteBack(record) ==
    /\ \/ hook' = record /\ excused' = (excused \/ hook # record)
       \/ UNCHANGED <<hook, excused>>
    /\ UNCHANGED born

\* A defect to detect: a success does not end the attempts.
SuccessIsRetried(w) ==
    /\ pc[w] = "send"
    /\ acked' = [acked EXCEPT ![w] = Append(@, cur[w])]
    /\ WriteBack(copy[w])
    /\ pc' = [pc EXCEPT ![w] = "wait"]
    /\ UNCHANGED <<managerVars, copy, stop, sub, queue, cur, attempt, busVars, handlerVars, ops>>
\* The receiver accepts.
recordSuccess(w) ==
    /\ pc[w] = "send"
    /\ acked' = [acked EXCEPT ![w] = Append(@, cur[w])]
    /\ WriteBack(copy[w])
    /\ Idle(w)
    /\ UNCHANGED <<managerVars, copy, stop, sub, queue, busVars, handlerVars, ops>>

\* The last attempt failed, or the target is not valid and is not tried at all.
recordFailure(w) ==
    /\ pc[w] = "send" /\ attempt[w] \in {1, Attempts}
    /\ WriteBack(copy[w])
    /\ Report(w, cur[w], sub)
    /\ Idle(w)
    /\ UNCHANGED <<managerVars, copy, stop, queue, handlerVars, ops, acked>>

\* run returns; the deferred cancelSub empties the channel.  What the history
\* says of this worker is closed with it.
Exit(w) ==
    /\ pc[w] = "idle" /\ Told(w)
    /\ pc' = [pc EXCEPT ![w] = "none"] /\ copy' = [copy EXCEPT ![w] = NoHook]
    /\ stop' = [stop EXCEPT ![w] = FALSE]
    /\ inCharge' = IF inCharge = w THEN Gone ELSE inCharge
    /\ sub' = [sub EXCEPT ![w] = <<>>] /\ queue' = [queue EXCEPT ![w] = <<>>]
    /\ offered' = [offered EXCEPT ![w] = {}] /\ reported' = [reported EXCEPT ![w] = {}]
    /\ acked' = [acked EXCEPT ![w] = <<>>]
    /\ UNCHANGED <<storeVars, running, cancelled, stopped, cur, attempt, events, handlerVars, ops>>

----------------------------------------------------------------------------
(* The manager *)

NoWorker == UNCHANGED <<inCharge, copy, pc>>
\* It subscribes before anyone knows of it.
newWorker(record) ==
    \E w \in Workers :
        /\ ~Alive(w) /\ \A v \in 1..w - 1 : Alive(v)
        /\ inCharge' = w
        /\ copy' = [copy EXCEPT ![w] = record]
        /\ pc' = [pc EXCEPT ![w] = "idle"]

\* A defect to detect: a worker beside the one there is.
StartSecondWorker(record) == newWorker(record)
startWorkerLocked(record) == IF inCharge = 0 THEN newWorker(record) ELSE NoWorker

\* One webhook, so one record in the list.  When the list cannot be read the
\* daemon goes on without workers.
Start ==
    /\ ~running /\ running' = TRUE
    /\ \/ /\ IF hook \in [conf : {"vm", "all"}, active : {TRUE}] THEN startWorkerLocked(hook) ELSE NoWorker
          /\ excused' = FALSE
          /\ UNCHANGED ops
       \/ Spend /\ excused' = TRUE /\ NoWorker
    /\ UNCHANGED <<hook, born, cancelled, stopped, stop, sub, queue, cur, attempt, busVars, handlerVars, acked>>

\* The daemon's context ends on a signal, some time before Stop is called.
Signal ==
    /\ running /\ ~cancelled
    /\ cancelled' = TRUE
    /\ UNCHANGED <<storeVars, running, stopped, inCharge, workerVars, busVars, handlerVars, ops, acked>>

Stop ==
    /\ cancelled /\ stopped = "no"
    /\ stopped' = "waiting"
    /\ UNCHANGED <<storeVars, running, cancelled, inCharge, workerVars, busVars, handlerVars, ops, acked>>

\* m.wg.Wait: the delivering goroutines, replaced ones included.  The ones
\* that enqueue are not counted.
StopReturns ==
    /\ stopped = "waiting" /\ \A w \in Workers : ~Alive(w)
    /\ stopped' = "done"
    /\ UNCHANGED <<storeVars, running, cancelled, inCharge, workerVars, busVars, handlerVars, ops, acked>>

\* The process ends, after Stop or in the middle of anything.  The record is
\* all that stays.
Crash ==
    /\ running /\ Spend
    /\ running' = FALSE /\ cancelled' = FALSE /\ stopped' = "no" /\ inCharge' = 0
    /\ pc' = [w \in Workers |-> "none"]
    /\ copy' = [w \in Workers |-> NoHook] /\ stop' = [w \in Workers |-> FALSE]
    /\ sub' = [w \in Workers |-> <<>>] /\ queue' = [w \in Workers |-> <<>>]
    /\ cur' = [w \in Workers |-> 0] /\ attempt' = [w \in Workers |-> 0]
    /\ hpc' = [h \in Handlers |-> "idle"] /\ loc' = [h \in Handlers |-> NoHook]
    /\ offered' = [w \in Workers |-> {}] /\ reported' = [w \in Workers |-> {}]
    /\ acked' = [w \in Workers |-> <<>>]
    /\ UNCHANGED <<storeVars, events>>

----------------------------------------------------------------------------
(* Requests *)

Changing == {"update", "replace", "register", "delete", "remove"}
Overlap(h) ==
    excused \/ \E g \in Handlers \ {h} : hpc[g] \in Changing

\* A new webhook is active.  (A store that fails leaves all as it was.)
CreateWebhook(h) ==
    /\ running /\ stopped = "no" /\ hpc[h] = "idle" /\ ~born /\ Spend
    /\ \E conf \in {"vm", "all"} :
          /\ hook' = [conf |-> conf, active |-> TRUE]
          /\ loc' = [loc EXCEPT ![h] = hook']
    /\ born' = TRUE
    /\ hpc' = [hpc EXCEPT ![h] = "register"]
    /\ excused' = Overlap(h)
    /\ UNCHANGED <<managerVars, workerVars, busVars, acked>>

\* PATCH, DELETE (one or in bulk) and POST .../test read the record first.  Any
\* record may come of a PATCH, so that what it read matters no more.
GetWebhook(h) ==
    /\ running /\ stopped = "no" /\ hpc[h] = "idle" /\ hook # NoHook /\ Spend
    /\ \/ hpc' = [hpc EXCEPT ![h] = "update"] /\ excused' = Overlap(h) /\ UNCHANGED loc
       \/ hpc' = [hpc EXCEPT ![h] = "delete"] /\ excused' = Overlap(h) /\ UNCHANGED loc
       \/ hpc' = [hpc EXCEPT ![h] = "test"] /\ loc' = [loc EXCEPT ![h] = hook] /\ UNCHANGED excused
    /\ UNCHANGED <<hook, born, managerVars, workerVars, busVars, acked>>

Answer(h) ==
    /\ hpc' = [hpc EXCEPT ![h] = "idle"]
    /\ loc' = [loc EXCEPT ![h] = NoHook]

\* A defect to detect: the running worker is left in place.
UpdateWithoutUnregister(h) ==
    /\ hpc[h] = "update"
    /\ \E record \in Hooks :
          /\ hook' = record
          /\ loc' = [loc EXCEPT ![h] = record]
    /\ hpc' = [hpc EXCEPT ![h] = "register"]
    /\ UNCHANGED <<born, excused, managerVars, workerVars, busVars, ops, acked>>
\* The record read, with the request's changes, replaces whatever is stored.
\* A new description or new tags change it too, and leave what is modelled.
UpdateWebhook(h) ==
    /\ hpc[h] = "update"
    /\ \/ /\ \E record \in Hooks :
                /\ hook' = record
                /\ loc' = [loc EXCEPT ![h] = record]
          /\ hpc' = [hpc EXCEPT ![h] = "replace"]
       \/ Answer(h) /\ UNCHANGED hook         \* invalid, nothing new, or not stored
    /\ UNCHANGED <<born, excused, managerVars, workerVars, busVars, ops, acked>>

DeleteWebhook(h) ==
    /\ hpc[h] = "delete"
    /\ \/ /\ hook' = NoHook
          /\ hpc' = [hpc EXCEPT ![h] = "remove"]
          /\ UNCHANGED loc
       \/ Answer(h) /\ UNCHANGED hook
    /\ UNCHANGED <<born, excused, managerVars, workerVars, busVars, ops, acked>>

Unregister(h) ==
    /\ hpc[h] \in {"replace", "remove"}
    /\ inCharge' = 0
    /\ stop' = [w \in Workers |-> stop[w] \/ w = inCharge]
    /\ \/ hpc[h] = "remove" /\ Answer(h)
       \/ hpc[h] = "replace" /\ hpc' = [hpc EXCEPT ![h] = "register"] /\ UNCHANGED loc
    /\ UNCHANGED <<storeVars, running, cancelled, stopped, copy, sub, queue, pc, cur, attempt,
                   busVars, ops, acked>>

\* A defect to detect: a stopped manager still registers.
RegisterAfterStop(h) ==
    /\ hpc[h] = "register"
    /\ Answer(h)
    /\ IF loc[h].active THEN startWorkerLocked(loc[h]) ELSE NoWorker
    /\ UNCHANGED <<storeVars, running, cancelled, stopped, stop, sub, queue, cur, attempt, busVars, ops, acked>>
Register(h) ==
    /\ hpc[h] = "register"
    /\ Answer(h)
    /\ IF loc[h].active /\ stopped = "no" THEN startWorkerLocked(loc[h]) ELSE NoWorker
    /\ UNCHANGED <<storeVars, running, cancelled, stopped, stop, sub, queue, cur, attempt, busVars, ops, acked>>

\* One attempt, outside any worker; its outcome is written to the record read.
TestDeliver(h) ==
    /\ hpc[h] = "test"
    /\ WriteBack(loc[h])
    /\ Answer(h)
    /\ UNCHANGED <<managerVars, workerVars, busVars, ops, acked>>

----------------------------------------------------------------------------
Init ==
    /\ hook \in {NoHook} \cup Hooks /\ born = (hook # NoHook)
    /\ running = FALSE /\ cancelled = FALSE /\ stopped = "no" /\ inCharge = 0
    /\ copy = [w \in Workers |-> NoHook]
    /\ stop = [w \in Workers |-> FALSE]
    /\ sub = [w \in Workers |-> <<>>] /\ queue = [w \in Workers |-> <<>>]
    /\ pc = [w \in Workers |-> "none"] /\ cur = [w \in Workers |-> 0] /\ attempt = [w \in Workers |-> 0]
    /\ hpc = [h \in Handlers |-> "idle"] /\ loc = [h \in Handlers |-> NoHook]
    /\ events = <<>> /\ ops = MaxOps
    /\ acked = [w \in Workers |-> <<>>]
    /\ offered = [w \in Workers |-> {}] /\ reported = [w \in Workers |-> {}]
    /\ excused = FALSE

Producing(w) == Enqueue(w) \/ Discard(w) \/ publishOverflow(w)
Delivering(w) ==
    \/ Take(w) \/ Failed(w) \/ Retry(w) \/ GiveUp(w)
    \/ recordSuccess(w) \/ recordFailure(w) \/ Exit(w)
Request(h) ==
    \/ CreateWebhook(h) \/ GetWebhook(h) \/ UpdateWebhook(h) \/ DeleteWebhook(h)
    \/ Unregister(h) \/ Register(h) \/ TestDeliver(h)

Next ==
    \/ Start \/ Signal \/ Stop \/ StopReturns \/ Crash \/ Publish
    \/ \E w \in Workers : Producing(w) \/ Delivering(w)
    \/ \E h \in Handlers : Request(h)

Spec == Init /\ [][Next]_vars

----------------------------------------------------------------------------
(* Properties *)

\* Every field has its type; above all, no delivery has more attempts than the
\* schedule of backoffs allows (deliver).
TypeOK ==
    /\ hook \in {NoHook} \cup Hooks /\ {born, running, cancelled, excused} \subseteq BOOLEAN
    /\ stopped \in {"no", "waiting", "done"} /\ inCharge \in 0..Gone
    /\ copy \in [Workers -> {NoHook} \cup Hooks]
    /\ stop \in [Workers -> BOOLEAN]
    /\ \A w \in Workers : Len(sub[w]) <= SubscriberBuf /\ Len(queue[w]) <= QueueSize
    /\ pc \in [Workers -> {"none", "idle", "send", "wait"}]
    /\ attempt \in [Workers -> 0..Attempts] /\ cur \in [Workers -> 0..Len(events)]
    /\ loc \in [Handlers -> {NoHook} \cup Hooks]
    /\ ops \in 0..MaxOps /\ Len(events) <= MaxEvents

Elements(s) == {s[i] : i \in 1..Len(s)}
InHand(w, n) == n = cur[w] \/ n \in Elements(sub[w]) \/ n \in Elements(queue[w])
Wanted(w) == {n \in offered[w] : matchesType(w, n)}

\* While a worker has not been told to stop, every event its subscription took
\* in and its filter wants is still in hand, was taken by the receiver, or was
\* handed to the bus as an overflow or a failure (run, deliver, publishOverflow,
\* recordFailure): nothing is dropped without a word.
NoSilentLoss ==
    \A w \in Workers : Alive(w) /\ ~Told(w) =>
        \A n \in Wanted(w) : InHand(w, n) \/ n \in Elements(acked[w]) \/ n \in reported[w]

\* A worker sees the receiver accept each event at most once, in the order of the
\* bus, and reports none of those as lost: no retry follows an accepted attempt,
\* and no retry overtakes a later event (deliver, run).  (The types go with it.)
TakenOnceInOrder ==
    /\ TypeOK
    /\ \A w \in Workers :
        /\ \A i, j \in 1..Len(acked[w]) : i < j => acked[w][i] < acked[w][j]
        /\ Elements(acked[w]) \cap reported[w] = {}

\* However requests interleave, at most one worker of the webhook has not been
\* told to stop, and it is the one in the manager's map, where Unregister will
\* find it (Unregister, Register, startWorkerLocked).
OneWorkerInCharge ==
    \A w \in Workers : Alive(w) /\ ~Told(w) => w = inCharge

\* With no change under way, a worker runs exactly for an active record and with
\* that record's settings, unless requests overlapped, a delivery result was
\* written over a change, or the records could not be read (CreateWebhook,
\* UpdateWebhook, DeleteWebhook, Start).
RecordAndWorkerAgree ==
    running /\ ~cancelled /\ ~excused /\ (\A h \in Handlers : hpc[h] \notin Changing) =>
        IF hook # NoHook /\ hook.active
        THEN inCharge \in Workers /\ copy[inCharge] = hook
        ELSE inCharge = 0

\* Once Stop has returned no worker delivers or writes to the store, which the
\* daemon closes next: not a replaced one, and none that a late request
\* registers (Stop, Register).
NothingRunsAfterStop == stopped = "done" => \A w \in Workers : ~Alive(w)
=============================================================================
