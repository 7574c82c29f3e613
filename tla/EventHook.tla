----------------------------- MODULE EventHook ------------------------------
(***************************************************************************)
(* useEventStream, the hook behind the live indicator of the dashboard and *)
(* of the machine list.  It holds an EventSource, reconnects with the last *)
(* id it dispatched, and after repeated failures polls for a while before  *)
(* it tries the stream again.                                              *)
(*                                                                         *)
(* The daemon names every frame after the event's type, and a browser      *)
(* hands named frames to listeners of that name only; the hook listens to  *)
(* `message` and `shutdown`.  So no event of the stream reaches onmessage: *)
(* the frames change nothing here and are not steps, and the cursor moves  *)
(* by the polls of the fallback alone.                                     *)
(*                                                                         *)
(* Two things make it delicate.  A poll looks at closedRef before its      *)
(* await and never after, so its answer may be dispatched when the stream  *)
(* is open again, or after that of a later poll, and then moves lastIdRef  *)
(* back.  And a cursor, once there, ages: the daemon answers 410 when more *)
(* than ReplayLimit events came after it, and a poll asks for what is      *)
(* before its successor.                                                   *)
(*                                                                         *)
(* External: event ids 1..newest.  new EventSource throws for no URL that  *)
(* buildStreamUrl makes, so connect's catch is left out.                   *)
(***************************************************************************)
EXTENDS Browser

CONSTANTS
    MaxEvents,       \* bound on the daemon's events
    ReplayLimit,     \* sseReplayLimit of the daemon
    FallbackAfter,   \* FALLBACK_AFTER_FAILURES
    PollPage,        \* per_page of a fallback poll
    Polls            \* bound on polls in flight: slots

ASSUME EventHookAssumption ==
    /\ MaxEvents \in Nat /\ ReplayLimit \in Nat /\ Polls \subseteq Nat
    /\ FallbackAfter \in Nat \ {0} /\ PollPage \in Nat \ {0}

VARIABLES
    newest,          \* the daemon's newest event
    evMounted,       \* ~closedRef
    evSource,        \* sourceRef: "none", "dialing", "open"
    evSince,         \* `since` of its URL
    evTimer,         \* "none", "reconnect", "fallback"
    evFailures,      \* failureCountRef
    evStatus,        \* the status returned to the page
    lastIdRef,       \* 0 for null
    shutdownRef,
    polls,           \* polls[p]: a fallback poll in flight
    seen             \* history: ids dispatched to the page since the mount

evVars == <<newest, evMounted, evSource, evSince, evTimer, evFailures, evStatus, lastIdRef,
            shutdownRef, polls, seen>>

NoPoll == [st |-> "none", after |-> 0, upto |-> 0]
FreePoll(p) == polls[p].st = "none" /\ \A q \in Polls : q < p => polls[q].st # "none"

----------------------------------------------------------------------------
\* connect: the URL carries the cursor of the moment.
connect(last, failures) ==
    /\ evSource' = "dialing" /\ evSince' = last /\ evTimer' = "none"
    /\ evStatus' = IF failures = 0 THEN "connecting" ELSE "reconnecting"
    /\ evFailures' = failures

\* One poll is sent at once and more by the interval.  Bound: not when all
\* slots are taken.
poll(last) ==
    polls' = [p \in Polls |-> IF FreePoll(p) THEN [st |-> "sent", after |-> last, upto |-> 0] ELSE polls[p]]

\* The effect on mount.  A browser without EventSource only ever polls.
EvMount ==
    /\ evMounted' = TRUE /\ shutdownRef' = FALSE /\ lastIdRef' = 0
    /\ seen' = {}
    /\ IF sse
       THEN connect(0, 0) /\ polls' = [p \in Polls |-> NoPoll]
       ELSE /\ evSource' = "none" /\ evSince' = 0 /\ evTimer' = "fallback"
            /\ evStatus' = "fallback" /\ evFailures' = 0
            /\ polls' = [p \in Polls |->
                  IF \A q \in Polls : p <= q THEN [NoPoll EXCEPT !.st = "sent"] ELSE NoPoll]

\* A defect to detect: the cleanup forgets a timer.
EvUnmountKeepsTimer ==
    /\ evMounted' = FALSE /\ evStatus' = "closed"
    /\ evSource' = "none" /\ evSince' = 0 /\ evTimer' = evTimer /\ evFailures' = 0
    /\ lastIdRef' = 0 /\ shutdownRef' = FALSE /\ polls' = [p \in Polls |-> NoPoll]
    /\ seen' = {}
\* The cleanup of the effect.  Refs go with the component; the answer of a
\* poll still in flight has nobody to be shown to.
EvUnmount ==
    /\ evMounted' = FALSE /\ evStatus' = "closed"
    /\ evSource' = "none" /\ evSince' = 0 /\ evTimer' = "none" /\ evFailures' = 0
    /\ lastIdRef' = 0 /\ shutdownRef' = FALSE /\ polls' = [p \in Polls |-> NoPoll]
    /\ seen' = {}

----------------------------------------------------------------------------
\* The daemon refuses a cursor it cannot replay from.
Gone(since) == since > 0 /\ newest > since + ReplayLimit

EvOpen ==
    /\ evSource = "dialing" /\ ~Gone(evSince)
    /\ evSource' = "open" /\ evFailures' = 0 /\ evStatus' = "live"
    /\ UNCHANGED <<newest, evMounted, evSince, evTimer, lastIdRef, shutdownRef, polls, seen, budget>>

\* The 'shutdown' frame ends the hook until it is mounted anew.
EvShutdown ==
    /\ evSource = "open" /\ Spend
    /\ shutdownRef' = TRUE /\ evFailures' = 0
    /\ evSource' = "none" /\ evSince' = 0 /\ evTimer' = "none" /\ evStatus' = "shutdown"
    /\ UNCHANGED <<newest, evMounted, lastIdRef, polls, seen>>

onerror ==
    /\ evSource' = "none" /\ evSince' = 0
    /\ IF evFailures + 1 >= FallbackAfter
       THEN evFailures' = FallbackAfter /\ evTimer' = "fallback" /\ evStatus' = "fallback" /\ poll(lastIdRef)
       ELSE /\ evFailures' = evFailures + 1 /\ evTimer' = "reconnect" /\ evStatus' = "reconnecting"
            /\ UNCHANGED polls

\* The network or the daemon breaks the connection, or refuses it.
EvError ==
    /\ evSource # "none"
    /\ IF evSource = "dialing" /\ Gone(evSince) THEN UNCHANGED budget ELSE Spend
    /\ onerror
    /\ UNCHANGED <<newest, evMounted, lastIdRef, shutdownRef, seen>>

EvReconnect ==
    /\ evTimer = "reconnect"
    /\ connect(lastIdRef, evFailures)
    /\ UNCHANGED <<newest, evMounted, lastIdRef, shutdownRef, polls, seen, budget>>

\* A defect to detect: the end of the window polls once more and stays.
FallbackForGood ==
    /\ sse /\ evTimer = "fallback"
    /\ poll(lastIdRef)
    /\ UNCHANGED <<newest, evMounted, evSource, evSince, evTimer, evFailures, evStatus, lastIdRef,
                   shutdownRef, seen, budget>>
\* FALLBACK_WINDOW_MS later.  A browser without EventSource has no such timer.
EvFallbackExit ==
    /\ sse /\ evTimer = "fallback"
    /\ connect(lastIdRef, 0)
    /\ UNCHANGED <<newest, evMounted, lastIdRef, shutdownRef, polls, seen, budget>>

EvPollTick ==
    /\ evTimer = "fallback" /\ \E p \in Polls : FreePoll(p)
    /\ poll(lastIdRef)
    /\ UNCHANGED <<newest, evMounted, evSource, evSince, evTimer, evFailures, evStatus, lastIdRef,
                   shutdownRef, seen, budget>>

\* The daemon's answer: the newest events before `until`, which is the
\* successor of the cursor.
EvPollAnswer(p) ==
    /\ polls[p].st = "sent"
    /\ polls' = [polls EXCEPT ![p].st = "answered",
                              ![p].upto = IF polls[p].after = 0 THEN newest ELSE polls[p].after]
    /\ UNCHANGED <<newest, evMounted, evSource, evSince, evTimer, evFailures, evStatus, lastIdRef,
                   shutdownRef, seen, budget>>

\* What the loop over an answer dispatches: the events of its page that are
\* after the cursor the poll was sent with.
New(p) == {i \in (polls[p].after + 1)..polls[p].upto : i + PollPage > polls[p].upto}

\* A defect to detect: the cursor is taken from the daemon, not from what
\* was dispatched.
DispatchSkips(p) ==
    /\ polls[p].st = "answered"
    /\ polls' = [polls EXCEPT ![p] = NoPoll]
    /\ lastIdRef' = IF New(p) = {} THEN lastIdRef ELSE newest
    /\ seen' = seen \cup New(p)
    /\ UNCHANGED <<newest, evMounted, evSource, evSince, evTimer, evFailures, evStatus, shutdownRef, budget>>
\* The continuation of a poll, whatever the hook is doing by then.
EvPollDispatch(p) ==
    /\ polls[p].st = "answered"
    /\ polls' = [polls EXCEPT ![p] = NoPoll]
    /\ lastIdRef' = IF New(p) = {} THEN lastIdRef ELSE polls[p].upto
    /\ seen' = seen \cup New(p)
    /\ UNCHANGED <<newest, evMounted, evSource, evSince, evTimer, evFailures, evStatus, shutdownRef, budget>>

EvPollFails(p) ==
    /\ polls[p].st = "sent" /\ Spend
    /\ polls' = [polls EXCEPT ![p] = NoPoll]
    /\ UNCHANGED <<newest, evMounted, evSource, evSince, evTimer, evFailures, evStatus, lastIdRef,
                   shutdownRef, seen>>

\* The daemon persists and fans out an event.
Publish ==
    /\ newest < MaxEvents
    /\ newest' = newest + 1
    /\ UNCHANGED <<evMounted, evSource, evSince, evTimer, evFailures, evStatus, lastIdRef, shutdownRef,
                   polls, seen, budget>>

EvSteps ==
    \/ EvOpen \/ EvShutdown \/ EvError \/ EvReconnect \/ EvFallbackExit \/ EvPollTick
    \/ \E p \in Polls : EvPollAnswer(p) \/ EvPollDispatch(p) \/ EvPollFails(p)
    \/ Publish

----------------------------------------------------------------------------
EvPhase ==
    CASE ~evMounted /\ evSource = "none" /\ evTimer = "none" -> "closed"
      [] evMounted /\ shutdownRef /\ evSource = "none" /\ evTimer = "none" -> "over"
      [] evMounted /\ ~shutdownRef /\ evSource = "open" /\ evTimer = "none" -> "live"
      [] evMounted /\ ~shutdownRef /\ evSource = "dialing" /\ evTimer = "none" -> "dialing"
      [] evMounted /\ ~shutdownRef /\ evSource = "none" /\ evTimer = "reconnect" -> "waiting"
      [] evMounted /\ ~shutdownRef /\ evSource = "none" /\ evTimer = "fallback" -> "polling"
      [] OTHER -> "stranded"

EvFeed == INSTANCE LiveFeed WITH phase <- EvPhase, label <- evStatus, Strays <- FALSE

EvTypeOK ==
    /\ newest \in 0..MaxEvents /\ evSince \in 0..MaxEvents /\ lastIdRef \in 0..MaxEvents
    /\ evFailures \in 0..FallbackAfter
    /\ seen \subseteq 1..MaxEvents

(* The hook never asks the daemon to go on from an event that the page was *)
(* not shown: the cursor it keeps, the one in the URL of its connection    *)
(* and the one each poll in flight carries are ids dispatched since the    *)
(* mount, or none, whatever late answers did to the order; and it has a    *)
(* cursor as soon as anything was dispatched.                              *)
CursorWasShown ==
    /\ lastIdRef = 0 <=> seen = {}
    /\ lastIdRef \in seen \cup {0}
    /\ evSource # "none" => evSince \in seen \cup {0}
    /\ \A p \in Polls : polls[p].st # "none" => polls[p].after \in seen \cup {0}

(* When failures stop, a mounted hook is on the stream, unless the daemon  *)
(* announced its shutdown or refuses the hook's cursor.                    *)
EvReconnects ==
    <>[](evMounted /\ sse /\ ~shutdownRef /\ ~Gone(lastIdRef) => evSource = "open")
=============================================================================
