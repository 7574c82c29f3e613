-------------------------------- MODULE App ---------------------------------
(***************************************************************************)
(* The live parts of the web GUI composed: the auth gate around the        *)
(* router, and the one page mounted at a time with its hook or its console *)
(* clients.                                                                *)
(***************************************************************************)
EXTENDS EventHook, StatsHook, Console, Auth

VARIABLE view    \* the route: "list", "metrics", "console"

Views == {"list", "metrics", "console"}
vars == <<sse, budget, view, evVars, stVars, conVars, authVars>>

\* Mount the page of route v; gone: whatever was mounted is unmounted.
Enter(v) ==
    /\ IF v = "list" THEN EvMount ELSE EvUnmount
    /\ IF v = "metrics" THEN \E m \in VMs : StMount(m) ELSE StUnmount
    /\ IF v = "console" THEN ConMount(CHOOSE tab \in Tabs : TRUE) ELSE ConUnmount
Leave == EvUnmount /\ StUnmount /\ ConUnmount
Stay == UNCHANGED <<evVars, stVars, conVars>>

Navigate(v) ==
    /\ ~gate /\ v # view /\ Spend
    /\ view' = v
    /\ Enter(v)
    /\ UNCHANGED <<sse, newest, authVars>>

\* AuthGate renders either its children or the form: the pages follow it.
GateFollows ==
    IF gate = gate' THEN Stay
    ELSE UNCHANGED newest /\ (IF gate' THEN Leave ELSE Enter(view))

AuthSteps ==
    /\ \/ PageCall \/ Upload
       \/ \E c \in Calls : Judge(c) \/ CallFails(c) \/ Unauthorized(c) \/ Authorized(c)
       \/ \E k \in Keys : SignIn(k) \/ Rotate(k)
    /\ GateFollows
    /\ UNCHANGED <<sse, view>>

\* The user or an update (see Pwa) reloads the document: everything in it
\* is gone.
ReloadDocument ==
    /\ Spend
    /\ AuthReload
    /\ IF view = "list" THEN EvMount ELSE EvUnmount
    /\ IF view = "metrics" THEN \E m \in VMs : StMount(m) ELSE StUnmount
    /\ IF view = "console" THEN Effect([r \in Runs |-> NoRun], CHOOSE tab \in Tabs : TRUE)
       ELSE conTab' = NoTab /\ conStatus' = "none" /\ runs' = [r \in Runs |-> NoRun]
    /\ UNCHANGED <<sse, newest, view>>

\* The app is opened on the list, with a stored key or none.
Init ==
    /\ BrowserInit
    /\ view = "list"
    /\ daemonKey \in Keys /\ token \in Keys \cup {NoKey} /\ gate = FALSE /\ submitting = FALSE
    /\ calls = [c \in Calls |-> NoCall] /\ spared = NoKey
    /\ newest = 0 /\ evMounted = TRUE /\ evSince = 0 /\ evFailures = 0 /\ lastIdRef = 0 /\ shutdownRef = FALSE
    /\ evSource = IF sse THEN "dialing" ELSE "none"
    /\ evTimer = IF sse THEN "none" ELSE "fallback"
    /\ evStatus = IF sse THEN "connecting" ELSE "fallback"
    /\ polls = [p \in Polls |-> NoPoll] /\ seen = {}
    /\ stVm = NoVM /\ stSource = "none" /\ stSourceVm = NoVM /\ stTimer = "none" /\ stFailures = 0
    /\ stStatus = "closed" /\ stHistory = {} /\ fetches = [f \in Fetches |-> NoFetch] /\ stLate = {}
    /\ conTab = NoTab /\ conStatus = "none" /\ runs = [r \in Runs |-> NoRun]

\* A stream carries the key of its moment and opens only if the daemon
\* accepts it; the key does not change while a page is mounted.
Admitted == token = daemonKey
EventHookSteps ==
    /\ EvSteps /\ (evSource = "dialing" /\ evSource' = "open" => Admitted)
    /\ UNCHANGED <<sse, view, stVars, conVars, authVars>>
StatsHookSteps ==
    /\ StSteps /\ (stSource = "dialing" /\ stSource' = "open" => Admitted)
    /\ UNCHANGED <<sse, view, evVars, conVars, authVars>>
ConsoleSteps == ConSteps /\ UNCHANGED <<sse, view, evVars, stVars, authVars>>

Next ==
    \/ EventHookSteps
    \/ StatsHookSteps
    \/ ConsoleSteps
    \/ ReloadDocument
    \/ AuthSteps
    \/ \E v \in Views : Navigate(v)

\* The browser runs its timers and continuations and delivers what has
\* arrived; the daemon answers.  The list and the detail page poll, the
\* console page does not.
Fairness ==
    /\ WF_vars(EvOpen /\ EventHookSteps)
    /\ WF_vars(EvError /\ UNCHANGED budget /\ EventHookSteps)
    /\ WF_vars((EvReconnect \/ EvFallbackExit) /\ EventHookSteps)
    /\ WF_vars((StOpen \/ StReconnect) /\ StatsHookSteps)
    /\ \A f \in Fetches : WF_vars(FetchInitialDone(f) /\ StatsHookSteps)
    /\ \A r \in Runs : WF_vars((Ticket(r) \/ Closed(r)) /\ UNCHANGED budget /\ ConsoleSteps)
    /\ WF_vars(PageCall /\ view # "console" /\ AuthSteps)
    /\ \A c \in Calls : WF_vars((Judge(c) \/ Unauthorized(c) \/ Authorized(c)) /\ AuthSteps)

Spec == Init /\ [][Next]_vars /\ Fairness

----------------------------------------------------------------------------
(* Properties of the composition *)

(* Every part keeps its types: among them, the cursor of the event hook is *)
(* an event that exists, and neither hook counts more failures than it     *)
(* takes to fall back (dispatchEvent, onerror).                            *)
TypeOK == EvTypeOK /\ StTypeOK /\ ConTypeOK /\ AuthTypeOK

(* While the sign-in form shows, nothing of the pages is left behind it:   *)
(* no stream, no timer, no console client, whatever they were doing when   *)
(* the 401 came; no key is kept either, but for one that a 401 to an       *)
(* upload sent without a key has spared; and a page that shows has exactly *)
(* its own parts mounted.  (The types go with it.)                         *)
BehindGate ==
    /\ TypeOK
    /\ gate => token \in {NoKey, spared} /\ EvPhase = "closed" /\ StPhase = "closed" /\ conTab = NoTab
    /\ ~gate => (evMounted <=> view = "list") /\ (stVm # NoVM <=> view = "metrics")
                /\ (conTab # NoTab <=> view = "console")

(* A key the daemon does not accept does not stay: while it is set and a   *)
(* page that polls shows, a call comes back with 401 and the gate returns, *)
(* or the key is replaced, or the user goes to the console.                *)
BadKeyNoticed ==
    (~gate /\ token # daemonKey /\ view # "console") ~> (gate \/ token = daemonKey \/ view = "console")

(* And the sign-in form never hangs.                                       *)
AuthRecovers == BadKeyNoticed /\ SignInEnds

(* Both hooks implement a live feed (useEventStream: connect, error,       *)
(* reconnect, fallback and cleanup; useVMStats, also when the page changes *)
(* its machine: then a late failure of the machine before may mark it).    *)
HooksAreFeeds == EvFeed!Spec /\ StFeed!Spec

(* Neither hook dials for ever while its page is mounted (onerror,         *)
(* scheduleReconnect, startFallback), and when failures stop the event     *)
(* hook is on the stream.  That the stream or a poll brings anything new   *)
(* is not claimed: of the event hook it would be false.                    *)
LivePagesRecover == EvFeed!NeverStuck /\ StFeed!NeverStuck /\ EvReconnects
=============================================================================
