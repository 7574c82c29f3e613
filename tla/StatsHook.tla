----------------------------- MODULE StatsHook ------------------------------
(***************************************************************************)
(* useVMStats, the hook behind the metrics tab of a machine: a first fetch *)
(* of the history, then a stream of samples, then, after repeated failures *)
(* of the stream, a poll that runs until the hook is left.                 *)
(*                                                                         *)
(* The hook stays mounted when the page goes from one machine to another.  *)
(* Its effect then runs anew with the same refs: `cancelled` belongs to    *)
(* one run of the effect, closedRef to all of them, so an answer to a      *)
(* request of the run before finds closedRef false again.                  *)
(***************************************************************************)
EXTENDS Browser

CONSTANTS
    VMs,                 \* machines the page can show
    NoVM,
    StatsFallbackAfter,  \* FALLBACK_AFTER_FAILURES
    Fetches              \* bound on requests in flight: slots

ASSUME StatsHookAssumption ==
    NoVM \notin VMs /\ StatsFallbackAfter \in Nat \ {0} /\ Fetches \subseteq Nat /\ Fetches # {}

VARIABLES
    stVm,        \* vmId of the mounted hook, NoVM when it is unmounted
    stSource,    \* sourceRef: "none", "dialing", "open"
    stSourceVm,  \* the machine of its URL
    stTimer,     \* "none", "reconnect", "fallback"
    stFailures,  \* failureCountRef
    stStatus,
    stHistory,   \* the machines whose samples are in the history
    fetches,     \* fetches[f]: a request in flight
    stLate       \* history: machines whose answers came after the switch

stVars == <<stVm, stSource, stSourceVm, stTimer, stFailures, stStatus, stHistory, fetches, stLate>>

NoFetch == [st |-> "none", vm |-> NoVM, initial |-> FALSE, current |-> FALSE]
FreeFetch(f) == fetches[f].st = "none" /\ \A g \in Fetches : g < f => fetches[g].st # "none"
Initial(v) == [st |-> "sent", vm |-> v, initial |-> TRUE, current |-> TRUE]
Lowest == CHOOSE f \in Fetches : \A g \in Fetches : f <= g

\* The cleanup closes what the run before held; the new run starts empty.
Start(v) ==
    /\ stVm' = v /\ stStatus' = "loading"
    /\ stSource' = "none" /\ stSourceVm' = NoVM /\ stTimer' = "none" /\ stFailures' = 0
    /\ stHistory' = {} /\ stLate' = {}

StMount(v) == Start(v) /\ fetches' = [f \in Fetches |-> IF f = Lowest THEN Initial(v) ELSE NoFetch]

StUnmount ==
    /\ stVm' = NoVM /\ stStatus' = "closed"
    /\ stSource' = "none" /\ stSourceVm' = NoVM /\ stTimer' = "none" /\ stFailures' = 0
    /\ stHistory' = {} /\ stLate' = {}
    /\ fetches' = [f \in Fetches |-> NoFetch]

\* Another machine on the same page.  Bound: a slot is free.
StSwitch(v) ==
    /\ stVm # NoVM /\ v # stVm /\ Spend
    /\ \E f \in Fetches :
          /\ FreeFetch(f)
          /\ fetches' = [g \in Fetches |-> IF g = f THEN Initial(v) ELSE [fetches[g] EXCEPT !.current = FALSE]]
    /\ Start(v)

----------------------------------------------------------------------------
\* The poll that startFallback sends at once is the first StPoll.
startFallback ==
    /\ stTimer' = "fallback" /\ stStatus' = "fallback" /\ stSource' = "none" /\ stSourceVm' = NoVM

connectStats(v) ==
    IF ~sse THEN startFallback
    ELSE /\ stSource' = "dialing" /\ stSourceVm' = v /\ stTimer' = "none"
         /\ stStatus' = IF stFailures = 0 THEN "loading" ELSE "reconnecting"

\* A defect to detect: `cancelled` is not asked.
ThenConnectAlways(f) == connectStats(fetches[f].vm)
\* fetchInitial().then: only the run of the effect that sent it goes on.
ThenConnect(f) ==
    IF fetches[f].current THEN connectStats(fetches[f].vm)
    ELSE UNCHANGED <<stSource, stSourceVm, stTimer, stStatus>>

\* The answer replaces the history, whatever machine is shown by now.
FetchInitialDone(f) ==
    /\ fetches[f].st = "sent" /\ fetches[f].initial
    /\ fetches' = [fetches EXCEPT ![f] = NoFetch]
    /\ stHistory' = {fetches[f].vm}
    /\ stLate' = IF fetches[f].current THEN stLate ELSE stLate \cup {fetches[f].vm}
    /\ ThenConnect(f)
    /\ UNCHANGED <<stVm, stFailures, budget>>

\* A failed first fetch shows an error, then connects all the same; the
\* failure of an earlier run's fetch leaves its error on the later run.
FetchInitialFails(f) ==
    /\ fetches[f].st = "sent" /\ fetches[f].initial /\ Spend
    /\ fetches' = [fetches EXCEPT ![f] = NoFetch]
    /\ IF fetches[f].current THEN connectStats(fetches[f].vm)
       ELSE stStatus' = "error" /\ UNCHANGED <<stSource, stSourceVm, stTimer>>
    /\ UNCHANGED <<stVm, stFailures, stHistory, stLate>>

StOpen ==
    /\ stSource = "dialing"
    /\ stSource' = "open" /\ stFailures' = 0 /\ stStatus' = "live"
    /\ UNCHANGED <<stVm, stSourceVm, stTimer, stHistory, fetches, stLate, budget>>

\* ingestSample
StSample ==
    /\ stSource = "open" /\ stSourceVm \notin stHistory
    /\ stHistory' = stHistory \cup {stSourceVm}
    /\ UNCHANGED <<stVm, stSource, stSourceVm, stTimer, stFailures, stStatus, fetches, stLate, budget>>

StError ==
    /\ stSource # "none" /\ Spend
    /\ stFailures' = stFailures + 1
    /\ IF stFailures + 1 >= StatsFallbackAfter THEN startFallback
       ELSE /\ stSource' = "none" /\ stSourceVm' = NoVM
            /\ stTimer' = "reconnect" /\ stStatus' = "reconnecting"
    /\ UNCHANGED <<stVm, stHistory, fetches, stLate>>

StReconnect ==
    /\ stTimer = "reconnect"
    /\ connectStats(stVm)
    /\ UNCHANGED <<stVm, stFailures, stHistory, fetches, stLate, budget>>

\* A poll of the fallback; its interval never ends by itself.  Bound: one
\* poll of a machine in flight.
StPoll ==
    /\ stTimer = "fallback" /\ \A f \in Fetches : fetches[f].st = "none" \/ ~fetches[f].current
    /\ \E f \in Fetches :
          /\ FreeFetch(f)
          /\ fetches' = [fetches EXCEPT ![f] = [Initial(stVm) EXCEPT !.initial = FALSE]]
    /\ UNCHANGED <<stVm, stSource, stSourceVm, stTimer, stFailures, stStatus, stHistory, stLate, budget>>

StPollDone(f) ==
    /\ fetches[f].st = "sent" /\ ~fetches[f].initial
    /\ fetches' = [fetches EXCEPT ![f] = NoFetch]
    /\ stHistory' = stHistory \cup {fetches[f].vm}
    /\ stLate' = IF fetches[f].current THEN stLate ELSE stLate \cup {fetches[f].vm}
    /\ UNCHANGED <<stVm, stSource, stSourceVm, stTimer, stFailures, stStatus, budget>>

StPollFails(f) ==
    /\ fetches[f].st = "sent" /\ ~fetches[f].initial /\ Spend
    /\ fetches' = [fetches EXCEPT ![f] = NoFetch]
    /\ UNCHANGED <<stVm, stSource, stSourceVm, stTimer, stFailures, stStatus, stHistory, stLate>>

StSteps ==
    \/ \E v \in VMs : StSwitch(v)
    \/ StOpen \/ StSample \/ StError \/ StReconnect \/ StPoll
    \/ \E f \in Fetches : FetchInitialDone(f) \/ FetchInitialFails(f) \/ StPollDone(f) \/ StPollFails(f)

----------------------------------------------------------------------------
Fetching == \E f \in Fetches : fetches[f].st = "sent" /\ fetches[f].initial /\ fetches[f].current

StPhase ==
    CASE stVm = NoVM /\ stSource = "none" /\ stTimer = "none" -> "closed"
      [] stVm # NoVM /\ Fetching /\ stSource = "none" /\ stTimer = "none" -> "dialing"
      [] stVm # NoVM /\ ~Fetching /\ stSource = "dialing" /\ stTimer = "none" -> "dialing"
      [] stVm # NoVM /\ ~Fetching /\ stSource = "open" /\ stTimer = "none" -> "live"
      [] stVm # NoVM /\ ~Fetching /\ stSource = "none" /\ stTimer = "reconnect" -> "waiting"
      [] stVm # NoVM /\ ~Fetching /\ stSource = "none" /\ stTimer = "fallback" -> "polling"
      [] OTHER -> "stranded"

StFeed == INSTANCE LiveFeed WITH phase <- StPhase, label <- stStatus, Strays <- TRUE

StTypeOK ==
    /\ stVm \in VMs \cup {NoVM} /\ stSourceVm \in VMs \cup {NoVM} /\ stHistory \subseteq VMs
    /\ stSource \in {"none", "dialing", "open"} /\ stTimer \in {"none", "reconnect", "fallback"}
    /\ stFailures \in 0..StatsFallbackAfter

(* The stream of the metrics tab is the shown machine's, through every     *)
(* change of machine during a fetch, a reconnect or a fallback; samples of *)
(* another machine enter the history only by an answer that came after the *)
(* change.                                                                 *)
StatsOfShownVM ==
    /\ stSource # "none" => stSourceVm = stVm
    /\ stHistory \subseteq {stVm} \cup stLate
=============================================================================
