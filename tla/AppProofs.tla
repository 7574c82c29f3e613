----------------------------- MODULE AppProofs ------------------------------
(***************************************************************************)
(* Proofs about App and its parts, for any number of machines, tabs, keys, *)
(* calls, requests in flight and faults, and any failure thresholds.       *)
(*                                                                         *)
(* Each part has an invariant of its own that its steps keep, whatever the *)
(* other parts do; mounting establishes it and so does leaving.  The       *)
(* invariant of a hook says which combinations of source, timer, status    *)
(* and request its phases are, which is what makes it a live feed; every   *)
(* cursor of the event hook, also one that a poll in flight carries, is an *)
(* event already dispatched, so that a poll which dispatches anything      *)
(* leaves one too.                                                         *)
(*                                                                         *)
(* The second half is about the service worker and its windows (Pwa),      *)
(* which shares no state with App: for any number of windows, builds and   *)
(* clicks, what is promised of the worker in charge is kept for those that *)
(* wait or install, and every reload is counted against an acceptance.     *)
(***************************************************************************)
EXTENDS App, Pwa, WellFoundedInduction, TLAPS

----------------------------------------------------------------------------
(* The inductive invariant. *)

Poll == [st : {"none", "sent", "answered"}, after : 0..MaxEvents, upto : 0..MaxEvents]

EvTypes ==
    /\ EvTypeOK /\ evMounted \in BOOLEAN /\ shutdownRef \in BOOLEAN /\ sse \in BOOLEAN
    /\ polls \in [Polls -> Poll]

EvShape ==
    \/ ~evMounted /\ evSource = "none" /\ evTimer = "none" /\ evStatus = "closed"
    \/ /\ evMounted /\ shutdownRef /\ evSource = "none" /\ evTimer = "none" /\ evStatus = "shutdown"
    \/ /\ evMounted /\ ~shutdownRef
       /\ \/ evSource = "open" /\ evTimer = "none" /\ evStatus = "live"
          \/ evSource = "dialing" /\ evTimer = "none" /\ evStatus \in {"connecting", "reconnecting"}
          \/ evSource = "none" /\ evTimer = "reconnect" /\ evStatus = "reconnecting"
          \/ evSource = "none" /\ evTimer = "fallback" /\ evStatus = "fallback"

\* Without EventSource a mounted hook polls.
EvPlain == ~sse /\ evMounted => evTimer = "fallback"

EvInv == EvTypes /\ CursorWasShown /\ EvShape /\ EvPlain

Fetch == [st : {"none", "sent"}, vm : VMs \cup {NoVM}, initial : BOOLEAN, current : BOOLEAN]

StTypes ==
    /\ StTypeOK /\ sse \in BOOLEAN /\ stLate \subseteq VMs /\ fetches \in [Fetches -> Fetch]
    /\ stTimer # "fallback" => stFailures < StatsFallbackAfter

\* A request belongs to a mounted hook; the one of the current run of the effect
\* is the only one, and asks for the machine shown.
StRequests ==
    /\ \A f \in Fetches : fetches[f].st = "sent" => fetches[f].vm \in VMs /\ stVm # NoVM
    /\ \A f \in Fetches : fetches[f].st = "sent" /\ fetches[f].current =>
         fetches[f].vm = stVm /\ \A g \in Fetches : fetches[g].st = "sent" /\ fetches[g].current => g = f

StShape ==
    \/ stVm = NoVM /\ ~Fetching /\ stSource = "none" /\ stTimer = "none" /\ stStatus = "closed"
    \/ stVm # NoVM /\ Fetching /\ stSource = "none" /\ stTimer = "none" /\ stStatus \in {"loading", "error"}
    \/ /\ stVm # NoVM /\ ~Fetching
       /\ \/ /\ stSource = "dialing" /\ stTimer = "none"
             /\ stStatus \in {"loading", "reconnecting", "error"}
          \/ stSource = "open" /\ stTimer = "none" /\ stStatus \in {"live", "error"}
          \/ stSource = "none" /\ stTimer = "reconnect" /\ stStatus \in {"reconnecting", "error"}
          \/ stSource = "none" /\ stTimer = "fallback" /\ stStatus \in {"fallback", "error"}

\* Without EventSource there is no stream to reconnect.
StPlain == ~sse => stSource = "none" /\ stTimer # "reconnect"

StInv == StTypes /\ StRequests /\ StShape /\ StPlain /\ StatsOfShownVM

Run == [st : {"none", "ticket", "dialing", "open", "closing", "ended"}, cancelled : BOOLEAN]

\* The cleanup leaves a ticket request or a closing client behind, nothing else;
\* one run is on display while the page is mounted, and the status is its own.
ConInv ==
    /\ conTab \in Tabs \cup {NoTab}
    /\ runs \in [Runs -> Run]
    /\ \A r \in Runs : /\ runs[r].cancelled => runs[r].st \in {"ticket", "closing"}
                       /\ runs[r].st = "closing" => runs[r].cancelled
    /\ \A q, r \in Runs : Active(q) /\ Active(r) => q = r
    /\ conTab = NoTab => \A r \in Runs : ~Active(r)
    /\ ConsoleStatusTrue

AuthInv ==
    /\ daemonKey \in Keys /\ token \in Keys \cup {NoKey} /\ gate \in BOOLEAN /\ submitting \in BOOLEAN
    /\ calls \in [Calls -> [st : {"none", "sent", "ok", "401"}, key : Keys \cup {NoKey}, kind : {"page", "login", "upload"}]]
    /\ spared \in Keys \cup {NoKey}
    /\ gate => token \in {NoKey, spared}

\* Who is mounted: nothing behind the gate, and the page of the route otherwise.
Mounted ==
    /\ view \in Views
    /\ gate => ~evMounted /\ stVm = NoVM /\ conTab = NoTab
    /\ ~gate => (evMounted <=> view = "list") /\ (stVm # NoVM <=> view = "metrics")
                /\ (conTab # NoTab <=> view = "console")

Inv == EvInv /\ StInv /\ ConInv /\ AuthInv /\ Mounted

----------------------------------------------------------------------------
(* The event hook. *)

\* A poll that is sent carries the cursor of the moment, in a free slot.
LEMMA PollSent ==
    ASSUME EvInv, poll(lastIdRef)
    PROVE  /\ polls' \in [Polls -> Poll]
           /\ \A p \in Polls : polls'[p].st # "none" => polls'[p].after \in seen \cup {0}
<1> DEFINE sent == [st |-> "sent", after |-> lastIdRef, upto |-> 0]
<1>1. sent \in Poll /\ sent.after \in seen \cup {0}
  BY EventHookAssumption DEF EvInv, EvTypes, EvTypeOK, Poll, CursorWasShown
<1>2. ASSUME NEW p \in Polls
      PROVE  polls'[p] \in Poll /\ (polls'[p].st # "none" => polls'[p].after \in seen \cup {0})
  BY <1>1 DEF poll, EvInv, EvTypes, CursorWasShown
<1>3. polls' \in [Polls -> Poll]
  BY <1>1 DEF poll, EvInv, EvTypes
<1>4. QED
  BY <1>2, <1>3

\* connect is the step out of a timer, with no cursor but the last one.
LEMMA Dials ==
    ASSUME EvInv, NEW n, n \in {0, evFailures}, evMounted, ~shutdownRef, sse,
           connect(lastIdRef, n),
           UNCHANGED <<sse, newest, evMounted, lastIdRef, shutdownRef, polls, seen>>
    PROVE  EvInv'
<1>1. EvTypes'
  BY EventHookAssumption DEF connect, EvInv, EvTypes, EvTypeOK
<1>2. CursorWasShown'
  BY DEF connect, EvInv, CursorWasShown
<1>3. EvShape' /\ EvPlain'
  BY DEF connect, EvInv, EvShape, EvPlain
<1>4. QED
  BY <1>1, <1>2, <1>3 DEF EvInv

\* The newest event of an answer is among those it dispatches, if any are.
LEMMA NewestIsNew ==
    ASSUME EvInv, NEW p \in Polls, New(p) # {}
    PROVE  polls[p].upto \in New(p)
<1>1. polls[p].after \in Nat /\ polls[p].upto \in Nat
  BY DEF EvInv, EvTypes, Poll
<1>2. PICK i \in (polls[p].after + 1)..polls[p].upto : TRUE
  BY DEF New
<1>3. QED
  BY <1>1, <1>2, EventHookAssumption DEF New

\* Every step of the hook keeps its invariant.
LEMMA EvStep ==
    ASSUME EvInv, UNCHANGED sse, EvSteps
    PROVE  EvInv'
<1> USE EventHookAssumption
<1>1. CASE EvOpen
  <2>1. EvTypes'
    BY <1>1 DEF EvOpen, EvInv, EvTypes, EvTypeOK
  <2>2. CursorWasShown'
    BY <1>1 DEF EvOpen, EvInv, CursorWasShown
  <2>3. EvShape' /\ EvPlain'
    BY <1>1 DEF EvOpen, EvInv, EvShape, EvPlain
  <2>4. QED
    BY <2>1, <2>2, <2>3 DEF EvInv
<1>3. CASE EvShutdown
  <2>1. EvTypes'
    BY <1>3 DEF EvShutdown, EvInv, EvTypes, EvTypeOK
  <2>2. CursorWasShown'
    BY <1>3 DEF EvShutdown, EvInv, CursorWasShown
  <2>3. EvShape' /\ EvPlain'
    BY <1>3 DEF EvShutdown, EvInv, EvShape, EvPlain
  <2>4. QED
    BY <2>1, <2>2, <2>3 DEF EvInv
<1>4. CASE EvError
  <2>1. /\ polls' \in [Polls -> Poll]
        /\ \A p \in Polls : polls'[p].st # "none" => polls'[p].after \in seen \cup {0}
    <3>1. CASE poll(lastIdRef)
      BY <3>1, PollSent
    <3>2. CASE UNCHANGED polls
      BY <3>2 DEF EvInv, EvTypes, CursorWasShown
    <3>3. QED
      BY <1>4, <3>1, <3>2 DEF EvError, onerror
  <2>2. EvTypes'
    BY <1>4, <2>1 DEF EvError, onerror, EvInv, EvTypes, EvTypeOK
  <2>3. CursorWasShown'
    BY <1>4, <2>1 DEF EvError, onerror, EvInv, CursorWasShown
  <2>4. EvShape' /\ EvPlain'
    BY <1>4 DEF EvError, onerror, EvInv, EvShape, EvPlain
  <2>5. QED
    BY <2>2, <2>3, <2>4 DEF EvInv
<1>5. CASE EvReconnect
  <2>1. evMounted /\ ~shutdownRef /\ sse
    BY <1>5 DEF EvReconnect, EvInv, EvShape, EvPlain
  <2>2. QED
    BY <1>5, <2>1, Dials DEF EvReconnect
<1>6. CASE EvFallbackExit
  <2>1. evMounted /\ ~shutdownRef
    BY <1>6 DEF EvFallbackExit, EvInv, EvShape
  <2>2. QED
    BY <1>6, <2>1, Dials DEF EvFallbackExit
<1>7. CASE EvPollTick
  <2>1. /\ polls' \in [Polls -> Poll]
        /\ \A p \in Polls : polls'[p].st # "none" => polls'[p].after \in seen \cup {0}
    BY <1>7, PollSent DEF EvPollTick
  <2>2. EvTypes' /\ CursorWasShown'
    BY <1>7, <2>1 DEF EvPollTick, EvInv, EvTypes, EvTypeOK, CursorWasShown
  <2>3. EvShape' /\ EvPlain'
    BY <1>7 DEF EvPollTick, EvInv, EvShape, EvPlain
  <2>4. QED
    BY <2>2, <2>3 DEF EvInv
<1>8. ASSUME NEW p \in Polls, EvPollAnswer(p) \/ EvPollFails(p) PROVE EvInv'
  <2>1. polls' \in [Polls -> Poll]
    BY <1>8 DEF EvPollAnswer, EvPollFails, NoPoll, Poll, EvInv, EvTypes, EvTypeOK
  <2>2. \A q \in Polls : polls'[q].st # "none" => polls'[q].after \in seen \cup {0}
    BY <1>8 DEF EvPollAnswer, EvPollFails, NoPoll, EvInv, EvTypes, Poll, CursorWasShown
  <2>3. EvTypes' /\ CursorWasShown'
    BY <1>8, <2>1, <2>2 DEF EvPollAnswer, EvPollFails, EvInv, EvTypes, EvTypeOK, CursorWasShown
  <2>4. EvShape' /\ EvPlain'
    BY <1>8 DEF EvPollAnswer, EvPollFails, EvInv, EvShape, EvPlain
  <2>5. QED
    BY <2>3, <2>4 DEF EvInv
<1>9. ASSUME NEW p \in Polls, EvPollDispatch(p) PROVE EvInv'
  <2>1. /\ lastIdRef' = IF New(p) = {} THEN lastIdRef ELSE polls[p].upto
        /\ seen' = seen \cup New(p)
        /\ polls' = [polls EXCEPT ![p] = NoPoll]
        /\ UNCHANGED <<newest, evMounted, evSource, evSince, evTimer, evFailures, evStatus, shutdownRef>>
    BY <1>9 DEF EvPollDispatch
  <2>2. New(p) \subseteq 1..MaxEvents
    BY DEF New, EvInv, EvTypes, Poll
  <2>3. polls' \in [Polls -> Poll]
    BY <2>1 DEF NoPoll, Poll, EvInv, EvTypes
  <2>4. \A q \in Polls : polls'[q].st # "none" => polls'[q].after \in seen \cup {0}
    BY <2>1 DEF NoPoll, EvInv, EvTypes, CursorWasShown
  <2>5. EvTypes'
    BY <2>1, <2>2, <2>3 DEF EvInv, EvTypes, EvTypeOK, Poll
  <2>6. CursorWasShown'
    <3>1. CASE New(p) = {}
      BY <2>1, <2>4, <3>1 DEF EvInv, CursorWasShown
    <3>2. CASE New(p) # {}
      <4>1. lastIdRef' \in seen' /\ lastIdRef' # 0 /\ seen' # {}
        BY <2>1, <2>2, <3>2, NewestIsNew
      <4>2. QED
        BY <2>1, <2>4, <4>1 DEF EvInv, CursorWasShown
    <3>3. QED
      BY <3>1, <3>2
  <2>7. EvShape' /\ EvPlain'
    BY <2>1 DEF EvInv, EvShape, EvPlain
  <2>8. QED
    BY <2>5, <2>6, <2>7 DEF EvInv
<1>10. CASE Publish
  <2>1. EvTypes' /\ CursorWasShown'
    BY <1>10 DEF Publish, EvInv, EvTypes, EvTypeOK, CursorWasShown
  <2>2. EvShape' /\ EvPlain'
    BY <1>10 DEF Publish, EvInv, EvShape, EvPlain
  <2>3. QED
    BY <2>1, <2>2 DEF EvInv
<1>11. QED
  BY <1>1, <1>3, <1>4, <1>5, <1>6, <1>7, <1>8, <1>9, <1>10 DEF EvSteps

\* Mounting and leaving establish it.
LEMMA EvMounts ==
    ASSUME EvInv, UNCHANGED <<sse, newest>>, EvMount \/ EvUnmount
    PROVE  EvInv' /\ (EvMount => evMounted') /\ (EvUnmount => ~evMounted')
<1> USE EventHookAssumption
<1>1. CASE EvMount
  <2>1. polls' \in [Polls -> Poll] /\ \A p \in Polls : polls'[p].after = 0
    BY <1>1 DEF EvMount, NoPoll, Poll
  <2>2. /\ evSince' = 0 /\ lastIdRef' = 0 /\ evFailures' = 0 /\ seen' = {}
        /\ evMounted' = TRUE /\ shutdownRef' = FALSE
    BY <1>1 DEF EvMount, connect
  <2>3. EvTypes'
    <3>1. /\ evSince' \in 0..MaxEvents /\ lastIdRef' \in 0..MaxEvents /\ evFailures' \in 0..FallbackAfter
          /\ seen' \subseteq 1..MaxEvents
      BY <2>2
    <3>2. QED
      BY <2>1, <2>2, <3>1 DEF EvInv, EvTypes, EvTypeOK
  <2>4. CursorWasShown'
    BY <2>1, <2>2 DEF CursorWasShown
  <2>5. EvShape' /\ EvPlain' /\ evMounted'
    BY <1>1 DEF EvMount, connect, EvInv, EvShape, EvPlain
  <2>6. QED
    BY <1>1, <2>3, <2>4, <2>5 DEF EvInv, EvMount, EvUnmount
<1>2. CASE EvUnmount
  <2>1. polls' \in [Polls -> Poll] /\ \A p \in Polls : polls'[p].after = 0
    BY <1>2 DEF EvUnmount, NoPoll, Poll
  <2>2. /\ evSince' = 0 /\ lastIdRef' = 0 /\ evFailures' = 0 /\ seen' = {}
        /\ evMounted' = FALSE /\ shutdownRef' = FALSE
    BY <1>2 DEF EvUnmount
  <2>3. EvTypes' /\ CursorWasShown'
    <3>1. /\ evSince' \in 0..MaxEvents /\ lastIdRef' \in 0..MaxEvents /\ evFailures' \in 0..FallbackAfter
          /\ seen' \subseteq 1..MaxEvents
      BY <2>2
    <3>2. EvTypes'
      BY <2>1, <2>2, <3>1 DEF EvInv, EvTypes, EvTypeOK
    <3>3. CursorWasShown'
      BY <2>1, <2>2 DEF CursorWasShown
    <3>4. QED
      BY <3>2, <3>3
  <2>4. EvShape' /\ EvPlain' /\ ~evMounted'
    BY <1>2 DEF EvUnmount, EvShape, EvPlain
  <2>5. QED
    BY <1>2, <2>3, <2>4 DEF EvInv, EvMount, EvUnmount
<1>3. QED
  BY <1>1, <1>2

----------------------------------------------------------------------------
(* The metrics hook. *)

\* The first slot exists.
LEMMA LowestIs == Lowest \in Fetches
<1>1. PICK f \in Fetches : \A g \in Fetches : ~(<<g, f>> \in OpToRel(<, Nat))
  BY StatsHookAssumption, NatLessThanWellFounded, WFMin
<1>2. ASSUME NEW g \in Fetches PROVE f <= g
  <2>1. f \in Nat /\ g \in Nat
    BY StatsHookAssumption
  <2>2. <<g, f>> \in Nat \X Nat /\ <<g, f>> \notin OpToRel(<, Nat)
    BY <1>1, <2>1
  <2>3. ~(g < f)
    BY <2>2 DEF OpToRel
  <2>4. QED
    BY <2>1, <2>3
<1>3. QED
  BY <1>2 DEF Lowest

\* A new run of the effect: its first fetch is the current one, and the only one.
LEMMA StStarts ==
    ASSUME sse \in BOOLEAN, UNCHANGED sse, NEW v \in VMs, Start(v), NEW f \in Fetches,
           fetches' \in [Fetches -> Fetch], fetches'[f] = Initial(v),
           \A g \in Fetches : g # f => ~fetches'[g].current /\ (fetches'[g].st = "sent" => fetches'[g].vm \in VMs)
    PROVE  StInv' /\ stVm' = v
<1>1. v # NoVM
  BY StatsHookAssumption
<1>2. StTypes'
  BY StatsHookAssumption DEF Start, StTypes, StTypeOK
<1>3. StRequests'
  BY <1>1 DEF Start, StRequests, Initial
<1>4. Fetching'
  BY DEF Fetching, Initial
<1>5. StShape' /\ StPlain' /\ StatsOfShownVM'
  BY <1>1, <1>4 DEF Start, StShape, StPlain, StatsOfShownVM
<1>6. QED
  BY <1>2, <1>3, <1>5 DEF StInv, Start

\* Mounting establishes the invariant, and so does leaving.
LEMMA StMounts ==
    ASSUME StInv, UNCHANGED sse, (\E v \in VMs : StMount(v)) \/ StUnmount
    PROVE  StInv' /\ (StUnmount => stVm' = NoVM) /\ (~StUnmount => stVm' \in VMs)
<1>1. ASSUME NEW v \in VMs, StMount(v) PROVE StInv' /\ stVm' = v
  <2>1. /\ fetches' = [f \in Fetches |-> IF f = Lowest THEN Initial(v) ELSE NoFetch]
        /\ Start(v)
    BY <1>1 DEF StMount
  <2>2. Initial(v) \in Fetch /\ NoFetch \in Fetch
    BY DEF Initial, NoFetch, Fetch
  <2>3. fetches' \in [Fetches -> Fetch] /\ fetches'[Lowest] = Initial(v)
    BY <2>1, <2>2, LowestIs
  <2>4. \A g \in Fetches : g # Lowest =>
            ~fetches'[g].current /\ (fetches'[g].st = "sent" => fetches'[g].vm \in VMs)
    BY <2>1 DEF NoFetch
  <2>5. QED
    BY <2>1, <2>3, <2>4, LowestIs, StStarts DEF StInv, StTypes
<1>2. CASE StUnmount
  <2>1. fetches' \in [Fetches -> Fetch] /\ \A f \in Fetches : fetches'[f].st = "none"
    BY <1>2 DEF StUnmount, NoFetch, Fetch
  <2>2. StTypes'
    BY <1>2, <2>1, StatsHookAssumption DEF StUnmount, StInv, StTypes, StTypeOK
  <2>3. StRequests' /\ ~Fetching'
    BY <2>1 DEF StRequests, Fetching
  <2>4. StShape' /\ StPlain' /\ StatsOfShownVM'
    BY <1>2, <2>3 DEF StUnmount, StShape, StPlain, StatsOfShownVM
  <2>5. QED
    BY <1>2, <2>2, <2>3, <2>4 DEF StInv, StUnmount
<1>3. QED
  BY <1>1, <1>2

\* The end of a request: its slot is free, and the first fetch of the current run
\* is over if it was that one.
LEMMA FetchEnds ==
    ASSUME StInv, NEW f \in Fetches, fetches[f].st = "sent",
           fetches' = [fetches EXCEPT ![f] = NoFetch], stVm' = stVm
    PROVE  /\ fetches' \in [Fetches -> Fetch] /\ StRequests'
           /\ Fetching' <=> Fetching /\ ~(fetches[f].initial /\ fetches[f].current)
<1>1. fetches' \in [Fetches -> Fetch]
  BY DEF NoFetch, Fetch, StInv, StTypes
<1>2. \A g \in Fetches : fetches'[g] = IF g = f THEN NoFetch ELSE fetches[g]
  BY DEF StInv, StTypes
<1>3. StRequests'
  BY <1>2 DEF StInv, StRequests, NoFetch
<1>4. Fetching' <=> Fetching /\ ~(fetches[f].initial /\ fetches[f].current)
  BY <1>2 DEF Fetching, StInv, StRequests, NoFetch
<1>5. QED
  BY <1>1, <1>3, <1>4

\* connectStats leaves the first fetch, or the reconnect timer, for the stream of
\* the machine shown, or for the poll.
LEMMA StDials ==
    ASSUME StInv, UNCHANGED <<sse, stVm, stFailures>>, stVm # NoVM, stTimer # "fallback",
           connectStats(stVm), fetches' \in [Fetches -> Fetch], StRequests', ~Fetching',
           stHistory' \subseteq {stVm} \cup stLate', stHistory' \subseteq VMs, stLate' \subseteq VMs
    PROVE  StInv'
<1>1. StTypes'
  BY DEF connectStats, startFallback, StInv, StTypes, StTypeOK
<1>2. StShape' /\ StPlain' /\ StatsOfShownVM'
  BY DEF connectStats, startFallback, StInv, StTypes, StShape, StPlain, StatsOfShownVM
<1>3. QED
  BY <1>1, <1>2 DEF StInv

\* Every step of the hook keeps its invariant.
LEMMA StStep ==
    ASSUME StInv, UNCHANGED sse, StSteps
    PROVE  StInv'
<1> USE StatsHookAssumption
<1>1. ASSUME NEW v \in VMs, StSwitch(v) PROVE StInv'
  <2>1. PICK f \in Fetches :
          fetches' = [g \in Fetches |-> IF g = f THEN Initial(v) ELSE [fetches[g] EXCEPT !.current = FALSE]]
    BY <1>1 DEF StSwitch
  <2>2. fetches' \in [Fetches -> Fetch] /\ fetches'[f] = Initial(v)
    BY <2>1 DEF Initial, Fetch, StInv, StTypes
  <2>3. \A g \in Fetches : g # f => ~fetches'[g].current /\ (fetches'[g].st = "sent" => fetches'[g].vm \in VMs)
    BY <2>1 DEF Fetch, StInv, StTypes, StRequests
  <2>4. QED
    BY <1>1, <2>2, <2>3, StStarts DEF StSwitch, StInv, StTypes
<1>2. ASSUME NEW f \in Fetches, FetchInitialDone(f) PROVE StInv'
  <2>1. /\ fetches' \in [Fetches -> Fetch] /\ StRequests'
        /\ Fetching' <=> Fetching /\ ~(fetches[f].initial /\ fetches[f].current)
    BY <1>2, FetchEnds DEF FetchInitialDone
  <2>2. fetches[f].vm \in VMs /\ stVm # NoVM /\ (fetches[f].current => fetches[f].vm = stVm)
    BY <1>2 DEF FetchInitialDone, StInv, StRequests
  <2>3. stHistory' \subseteq {stVm} \cup stLate' /\ stHistory' \subseteq VMs /\ stLate' \subseteq VMs
    BY <1>2, <2>2 DEF FetchInitialDone, StInv, StTypes
  <2>4. CASE fetches[f].current
    <3>1. Fetching /\ ~Fetching'
      BY <1>2, <2>1, <2>4 DEF FetchInitialDone, Fetching
    <3>2. connectStats(stVm) /\ stTimer # "fallback" /\ UNCHANGED <<stVm, stFailures>>
      BY <1>2, <2>2, <2>4, <3>1 DEF FetchInitialDone, ThenConnect, StInv, StShape
    <3>3. QED
      BY <2>1, <2>2, <2>3, <3>1, <3>2, StDials
  <2>5. CASE ~fetches[f].current
    <3>1. UNCHANGED <<stSource, stSourceVm, stTimer, stStatus, stVm, stFailures>> /\ (Fetching' <=> Fetching)
      BY <1>2, <2>1, <2>5 DEF FetchInitialDone, ThenConnect
    <3>2. StTypes'
      BY <2>1, <2>3, <3>1 DEF StInv, StTypes, StTypeOK
    <3>3. StShape' /\ StPlain' /\ StatsOfShownVM'
      BY <2>3, <3>1 DEF StInv, StShape, StPlain, StatsOfShownVM
    <3>4. QED
      BY <2>1, <3>2, <3>3 DEF StInv
  <2>6. QED
    BY <2>4, <2>5
<1>3. ASSUME NEW f \in Fetches, FetchInitialFails(f) PROVE StInv'
  <2>1. /\ fetches' \in [Fetches -> Fetch] /\ StRequests'
        /\ Fetching' <=> Fetching /\ ~(fetches[f].initial /\ fetches[f].current)
    BY <1>3, FetchEnds DEF FetchInitialFails
  <2>2. fetches[f].vm \in VMs /\ stVm # NoVM /\ (fetches[f].current => fetches[f].vm = stVm)
    BY <1>3 DEF FetchInitialFails, StInv, StRequests
  <2>3. UNCHANGED <<stVm, stFailures, stHistory, stLate>>
    BY <1>3 DEF FetchInitialFails
  <2>4. CASE fetches[f].current
    <3>1. Fetching /\ ~Fetching'
      BY <1>3, <2>1, <2>4 DEF FetchInitialFails, Fetching
    <3>2. connectStats(stVm) /\ stTimer # "fallback"
      BY <1>3, <2>2, <2>4, <3>1 DEF FetchInitialFails, StInv, StShape
    <3>3. QED
      BY <2>1, <2>2, <2>3, <3>1, <3>2, StDials DEF StInv, StTypes, StTypeOK, StatsOfShownVM
  <2>5. CASE ~fetches[f].current
    <3>1. UNCHANGED <<stSource, stSourceVm, stTimer>> /\ stStatus' = "error" /\ (Fetching' <=> Fetching)
      BY <1>3, <2>1, <2>5 DEF FetchInitialFails
    <3>2. StTypes'
      BY <2>1, <2>3, <3>1 DEF StInv, StTypes, StTypeOK
    <3>3. StShape' /\ StPlain' /\ StatsOfShownVM'
      BY <2>2, <2>3, <3>1 DEF StInv, StShape, StPlain, StatsOfShownVM
    <3>4. QED
      BY <2>1, <3>2, <3>3 DEF StInv
  <2>6. QED
    BY <2>4, <2>5
<1>4. CASE StOpen
  <2>1. StTypes'
    BY <1>4 DEF StOpen, StInv, StTypes, StTypeOK
  <2>2. StRequests' /\ (Fetching' <=> Fetching)
    BY <1>4 DEF StOpen, StInv, StRequests, Fetching
  <2>3. StShape' /\ StPlain' /\ StatsOfShownVM'
    BY <1>4, <2>2 DEF StOpen, StInv, StShape, StPlain, StatsOfShownVM
  <2>4. QED
    BY <2>1, <2>2, <2>3 DEF StInv
<1>5. CASE StSample
  <2>1. stSourceVm = stVm /\ stVm \in VMs
    BY <1>5 DEF StSample, StInv, StTypes, StTypeOK, StShape, StatsOfShownVM
  <2>2. StTypes'
    BY <1>5, <2>1 DEF StSample, StInv, StTypes, StTypeOK
  <2>3. StRequests' /\ (Fetching' <=> Fetching)
    BY <1>5 DEF StSample, StInv, StRequests, Fetching
  <2>4. StShape' /\ StPlain' /\ StatsOfShownVM'
    BY <1>5, <2>1, <2>3 DEF StSample, StInv, StShape, StPlain, StatsOfShownVM
  <2>5. QED
    BY <2>2, <2>3, <2>4 DEF StInv
<1>6. CASE StError
  <2>1. stFailures < StatsFallbackAfter /\ stFailures \in Nat
    BY <1>6 DEF StError, StInv, StTypes, StTypeOK, StShape
  <2>2. StTypes'
    BY <1>6, <2>1 DEF StError, startFallback, StInv, StTypes, StTypeOK
  <2>3. StRequests' /\ (Fetching' <=> Fetching)
    BY <1>6 DEF StError, StInv, StRequests, Fetching
  <2>4. StShape' /\ StPlain' /\ StatsOfShownVM'
    BY <1>6, <2>3 DEF StError, startFallback, StInv, StShape, StPlain, StatsOfShownVM
  <2>5. QED
    BY <2>2, <2>3, <2>4 DEF StInv
<1>7. CASE StReconnect
  <2>1. stVm # NoVM /\ ~Fetching
    BY <1>7 DEF StReconnect, StInv, StShape
  <2>2. StRequests' /\ ~Fetching' /\ fetches' \in [Fetches -> Fetch]
    BY <1>7, <2>1 DEF StReconnect, StInv, StTypes, StRequests, Fetching
  <2>3. QED
    BY <1>7, <2>1, <2>2, StDials DEF StReconnect, StInv, StTypes, StTypeOK, StatsOfShownVM
<1>8. CASE StPoll
  <2> DEFINE new == [Initial(stVm) EXCEPT !.initial = FALSE]
  <2>1. PICK f \in Fetches : fetches[f].st = "none" /\ fetches' = [fetches EXCEPT ![f] = new]
    BY <1>8 DEF StPoll, FreeFetch
  <2>2. new.st = "sent" /\ new.vm = stVm /\ new.initial = FALSE /\ new.current = TRUE /\ new \in Fetch
    BY DEF Initial, Fetch, StInv, StTypes, StTypeOK
  <2> HIDE DEF new
  <2>3. fetches' \in [Fetches -> Fetch] /\ \A g \in Fetches : fetches'[g] = IF g = f THEN new ELSE fetches[g]
    BY <2>1, <2>2 DEF StInv, StTypes
  <2>4. stVm \in VMs
    BY <1>8 DEF StPoll, StInv, StShape, StTypes, StTypeOK
  <2>5. \A g \in Fetches : fetches[g].st = "none" \/ ~fetches[g].current
    BY <1>8 DEF StPoll
  <2>6. StRequests'
    BY <1>8, <2>2, <2>3, <2>4, <2>5 DEF StPoll, StInv, StRequests
  <2>7. Fetching' <=> Fetching
    BY <2>1, <2>2, <2>3 DEF Fetching
  <2>8. StTypes'
    BY <1>8, <2>3 DEF StPoll, StInv, StTypes, StTypeOK
  <2>9. StShape' /\ StPlain' /\ StatsOfShownVM'
    BY <1>8, <2>7 DEF StPoll, StInv, StShape, StPlain, StatsOfShownVM
  <2>10. QED
    BY <2>6, <2>8, <2>9 DEF StInv
<1>9. ASSUME NEW f \in Fetches, StPollDone(f) \/ StPollFails(f) PROVE StInv'
  <2>1. /\ fetches' \in [Fetches -> Fetch] /\ StRequests' /\ (Fetching' <=> Fetching)
    BY <1>9, FetchEnds DEF StPollDone, StPollFails
  <2>2. fetches[f].vm \in VMs /\ (fetches[f].current => fetches[f].vm = stVm)
    BY <1>9 DEF StPollDone, StPollFails, StInv, StRequests
  <2>3. stHistory' \subseteq {stVm} \cup stLate' /\ stHistory' \subseteq VMs /\ stLate' \subseteq VMs
    BY <1>9, <2>2 DEF StPollDone, StPollFails, StInv, StTypes, StTypeOK, StatsOfShownVM
  <2>4. StTypes'
    BY <1>9, <2>1, <2>3 DEF StPollDone, StPollFails, StInv, StTypes, StTypeOK
  <2>5. StShape' /\ StPlain' /\ StatsOfShownVM'
    BY <1>9, <2>1, <2>3 DEF StPollDone, StPollFails, StInv, StShape, StPlain, StatsOfShownVM
  <2>6. QED
    BY <2>1, <2>4, <2>5 DEF StInv
<1>10. QED
  BY <1>1, <1>2, <1>3, <1>4, <1>5, <1>6, <1>7, <1>8, <1>9 DEF StSteps

----------------------------------------------------------------------------
(* The console page. *)

\* The cleanup leaves no run on display.
LEMMA CleanupFacts ==
    ASSUME ConInv
    PROVE  LET rs == Cleanup(runs) IN
           /\ rs \in [Runs -> Run]
           /\ \A r \in Runs : /\ rs[r].cancelled => rs[r].st \in {"ticket", "closing"}
                              /\ rs[r].st # "none" => rs[r].cancelled
<1> DEFINE rs == Cleanup(runs)
<1>1. ASSUME NEW r \in Runs
      PROVE  /\ rs[r] \in Run
             /\ rs[r].cancelled => rs[r].st \in {"ticket", "closing"}
             /\ rs[r].st # "none" => rs[r].cancelled
  <2>1. runs[r] \in Run
    BY DEF ConInv
  <2>2. CASE runs[r].st = "none" \/ runs[r].cancelled
    BY <2>1, <2>2 DEF Cleanup, ConInv, Run
  <2>3. CASE runs[r].st = "ticket" /\ ~runs[r].cancelled
    <3>1. rs[r] = [runs[r] EXCEPT !.cancelled = TRUE]
      BY <2>3 DEF Cleanup
    <3>2. QED
      BY <2>1, <2>3, <3>1 DEF Run
  <2>4. CASE runs[r].st \in {"dialing", "open"} /\ ~runs[r].cancelled
    <3>1. rs[r] = [st |-> "closing", cancelled |-> TRUE]
      BY <2>4 DEF Cleanup
    <3>2. QED
      BY <3>1 DEF Run
  <2>5. CASE runs[r].st \notin {"none", "ticket", "dialing", "open"} /\ ~runs[r].cancelled
    <3>1. rs[r] = NoRun
      BY <2>5 DEF Cleanup
    <3>2. QED
      BY <3>1 DEF NoRun, Run
  <2>6. QED
    BY <2>2, <2>3, <2>4, <2>5
<1>2. rs = [r \in Runs |-> rs[r]]
  BY DEF Cleanup
<1> HIDE DEF rs
<1>3. rs \in [Runs -> Run]
  BY <1>1, <1>2
<1>4. QED
  BY <1>1, <1>3 DEF rs

\* A run of the effect begins where no other is on display.
LEMMA EffectStarts ==
    ASSUME NEW rs \in [Runs -> Run], NEW tab \in Tabs, Effect(rs, tab),
           \A r \in Runs : /\ rs[r].cancelled => rs[r].st \in {"ticket", "closing"}
                           /\ rs[r].st # "none" => rs[r].cancelled
    PROVE  ConInv' /\ conTab' = tab
<1>1. PICK r \in Runs : rs[r].st = "none" /\ runs' = [rs EXCEPT ![r] = [st |-> "ticket", cancelled |-> FALSE]]
  BY DEF Effect
<1>2. runs' \in [Runs -> Run]
  BY <1>1 DEF Run
<1>3. \A q \in Runs : runs'[q] = IF q = r THEN [st |-> "ticket", cancelled |-> FALSE] ELSE rs[q]
  BY <1>1
<1>4. conTab' = tab /\ conTab' # NoTab /\ conStatus' = "connecting"
  BY ConsoleAssumption DEF Effect
<1>5. ConsoleStatusTrue'
  BY <1>3, <1>4 DEF ConsoleStatusTrue, Active
<1>6. QED
  BY <1>2, <1>3, <1>4, <1>5 DEF ConInv, Active

\* Opening the page, changing the tab and leaving.
LEMMA ConMounts ==
    ASSUME ConInv
    PROVE  /\ \A tab \in Tabs : Effect(Cleanup(runs), tab) => ConInv' /\ conTab' = tab
           /\ \A tab \in Tabs : Effect([r \in Runs |-> NoRun], tab) => ConInv' /\ conTab' = tab
           /\ ConUnmount => ConInv' /\ conTab' = NoTab
           /\ conTab' = NoTab /\ runs' = [r \in Runs |-> NoRun] => ConInv'
<1>1. ASSUME NEW tab \in Tabs, Effect(Cleanup(runs), tab) PROVE ConInv' /\ conTab' = tab
  BY <1>1, CleanupFacts, EffectStarts
<1>2. ASSUME NEW tab \in Tabs, Effect([r \in Runs |-> NoRun], tab) PROVE ConInv' /\ conTab' = tab
  <2>1. [r \in Runs |-> NoRun] \in [Runs -> Run] /\ NoRun.st = "none" /\ NoRun.cancelled = FALSE
    BY DEF NoRun, Run
  <2>2. QED
    BY <1>2, <2>1, EffectStarts
<1>3. ASSUME ConUnmount PROVE ConInv' /\ conTab' = NoTab
  <2>1. conTab' = NoTab /\ runs' = Cleanup(runs)
    BY <1>3 DEF ConUnmount
  <2>2. /\ runs' \in [Runs -> Run]
        /\ \A r \in Runs : /\ runs'[r].cancelled => runs'[r].st \in {"ticket", "closing"}
                           /\ runs'[r].st # "none" => runs'[r].cancelled
    BY <2>1, CleanupFacts
  <2>3. ConsoleStatusTrue'
    BY <2>1 DEF ConsoleStatusTrue
  <2>4. QED
    BY <2>1, <2>2, <2>3 DEF ConInv, Active
<1>4. ASSUME conTab' = NoTab, runs' = [r \in Runs |-> NoRun] PROVE ConInv'
  BY <1>4 DEF ConInv, ConsoleStatusTrue, Active, NoRun, Run
<1>5. QED
  BY <1>1, <1>2, <1>3, <1>4 DEF ConUnmount

\* A callback of a run that was cancelled only frees its slot.
LEMMA CancelledEnds ==
    ASSUME ConInv, NEW r \in Runs, runs[r].cancelled, runs' = [runs EXCEPT ![r] = NoRun],
           UNCHANGED <<conTab, conStatus>>
    PROVE  ConInv'
<1>1. runs' \in [Runs -> Run] /\ \A q \in Runs : runs'[q] = IF q = r THEN NoRun ELSE runs[q]
  BY DEF ConInv, Run, NoRun
<1>2. \A q \in Runs : Active(q)' <=> Active(q)
  BY <1>1 DEF Active, NoRun
<1>3. ConsoleStatusTrue'
  <2>1. CASE conTab = NoTab
    BY <2>1 DEF ConsoleStatusTrue
  <2>2. CASE conTab # NoTab
    <3>1. PICK q \in Runs : /\ Active(q)
                            /\ conStatus = "connected" <=> runs[q].st = "open"
                            /\ conStatus = "connecting" <=> runs[q].st \in {"ticket", "dialing"}
      BY <2>2 DEF ConInv, ConsoleStatusTrue
    <3>2. q # r
      BY <3>1 DEF Active
    <3>3. QED
      BY <1>1, <1>2, <3>1, <3>2 DEF ConsoleStatusTrue
  <2>3. QED
    BY <2>1, <2>2
<1>4. QED
  BY <1>1, <1>2, <1>3 DEF ConInv, NoRun

\* The run on display moves on, and the status with it.
LEMMA ShownMoves ==
    ASSUME ConInv, NEW r \in Runs, Active(r), NEW st \in {"dialing", "open", "ended"},
           runs' = [runs EXCEPT ![r].st = st], conTab' = conTab,
           conStatus' = "connected" <=> st = "open", conStatus' = "connecting" <=> st = "dialing"
    PROVE  ConInv'
<1>1. /\ runs' \in [Runs -> Run]
      /\ \A q \in Runs : runs'[q].st = (IF q = r THEN st ELSE runs[q].st) /\ runs'[q].cancelled = runs[q].cancelled
  BY DEF ConInv, Run
<1>2. \A q \in Runs : Active(q)' <=> Active(q)
  BY <1>1 DEF Active
<1>3. ConsoleStatusTrue'
  BY <1>1, <1>2 DEF ConsoleStatusTrue
<1>4. QED
  BY <1>1, <1>2, <1>3 DEF ConInv, Active

\* Every step of the page keeps its invariant.
LEMMA ConStep ==
    ASSUME ConInv, ConSteps
    PROVE  ConInv'
<1>0. \A r \in Runs : Active(r) => conStatus = "connected" <=> runs[r].st = "open"
  BY DEF ConInv, ConsoleStatusTrue
<1>1. ASSUME NEW tab \in Tabs, ConRestart(tab) PROVE ConInv'
  BY <1>1, ConMounts DEF ConRestart
<1>2. ASSUME NEW r \in Runs, Ticket(r) PROVE ConInv'
  <2>1. CASE runs[r].cancelled
    BY <1>2, <2>1, CancelledEnds DEF Ticket
  <2>2. CASE ~runs[r].cancelled
    <3>1. Active(r) /\ runs' = [runs EXCEPT ![r].st = "dialing"] /\ UNCHANGED <<conTab, conStatus>>
      BY <1>2, <2>2 DEF Ticket, Active
    <3>2. conStatus = "connecting" /\ conStatus # "connected"
      BY <1>2, <3>1 DEF Ticket, ConInv, ConsoleStatusTrue
    <3>3. QED
      BY <3>1, <3>2, ShownMoves
  <2>3. QED
    BY <2>1, <2>2
<1>3. ASSUME NEW r \in Runs, TicketRefused(r) PROVE ConInv'
  <2>1. CASE runs[r].cancelled
    BY <1>3, <2>1, CancelledEnds DEF TicketRefused
  <2>2. CASE ~runs[r].cancelled
    <3>1. Active(r) /\ runs' = [runs EXCEPT ![r].st = "ended"] /\ conTab' = conTab /\ conStatus' = "error"
      BY <1>3, <2>2 DEF TicketRefused, Active
    <3>2. QED
      BY <3>1, ShownMoves
  <2>3. QED
    BY <2>1, <2>2
<1>4. ASSUME NEW r \in Runs, Connected(r) PROVE ConInv'
  BY <1>4, ShownMoves DEF Connected, Active
<1>5. ASSUME NEW r \in Runs, Closed(r) PROVE ConInv'
  <2>1. CASE runs[r].cancelled
    BY <1>5, <2>1, CancelledEnds DEF Closed, Report
  <2>2. CASE ~runs[r].cancelled
    <3>1. /\ Active(r) /\ runs' = [runs EXCEPT ![r].st = "ended"] /\ conTab' = conTab
          /\ conStatus' \in {"disconnected", "error"}
      BY <1>5, <2>2 DEF Closed, Report, HasClient, Active, ConInv
    <3>2. QED
      BY <3>1, ShownMoves
  <2>3. QED
    BY <2>1, <2>2
<1>6. QED
  BY <1>1, <1>2, <1>3, <1>4, <1>5 DEF ConSteps

----------------------------------------------------------------------------
(* The gate. *)

ACall == [st : {"none", "sent", "ok", "401"}, key : Keys \cup {NoKey}, kind : {"page", "login", "upload"}]

\* A slot taken or freed is a slot.
LEMMA CallSlots ==
    ASSUME AuthInv
    PROVE  /\ \A k \in Keys \cup {NoKey} : \A kind \in {"page", "login", "upload"} :
                Call(k, kind) => calls' \in [Calls -> ACall]
           /\ \A c \in Calls : calls' = [calls EXCEPT ![c] = NoCall] => calls' \in [Calls -> ACall]
           /\ \A c \in Calls : Judge(c) => calls' \in [Calls -> ACall]
           /\ calls' = [c \in Calls |-> NoCall] => calls' \in [Calls -> ACall]
<1>1. calls \in [Calls -> ACall] /\ NoCall \in ACall
  BY DEF AuthInv, ACall, NoCall
<1>2. ASSUME NEW k \in Keys \cup {NoKey}, NEW kind \in {"page", "login", "upload"}, Call(k, kind)
      PROVE  calls' \in [Calls -> ACall]
  <2>1. [st |-> "sent", key |-> k, kind |-> kind] \in ACall
    BY DEF ACall
  <2>2. QED
    BY <1>1, <1>2, <2>1 DEF Call
<1>3. ASSUME NEW c \in Calls, Judge(c) PROVE calls' \in [Calls -> ACall]
  BY <1>1, <1>3 DEF Judge, ACall
<1>4. QED
  BY <1>1, <1>2, <1>3

\* Every step of the gate keeps its invariant: only signing in lowers it with a
\* key set, and a 401 raises it with none or with the one it spares.
LEMMA AuthStep ==
    ASSUME AuthInv, AuthSteps \/ AuthReload
    PROVE  AuthInv'
<1>1. CASE PageCall \/ Upload
  BY <1>1, CallSlots DEF PageCall, Upload, AuthInv, ACall
<1>2. ASSUME NEW c \in Calls, Judge(c) \/ CallFails(c) \/ Unauthorized(c) \/ Authorized(c)
      PROVE  AuthInv'
  <2>1. calls' \in [Calls -> ACall]
    BY <1>2, CallSlots DEF CallFails, Unauthorized, Authorized
  <2>2. IsLogin(c) \in BOOLEAN
    BY DEF IsLogin
  <2>3. /\ daemonKey' \in Keys /\ token' \in Keys \cup {NoKey} /\ spared' \in Keys \cup {NoKey}
        /\ gate' => token' \in {NoKey, spared'}
    BY <1>2 DEF Judge, CallFails, Unauthorized, Authorized, AuthInv
  <2>4. gate' \in BOOLEAN /\ submitting' \in BOOLEAN
    BY <1>2, <2>2 DEF Judge, CallFails, Unauthorized, Authorized, AuthInv
  <2>5. QED
    BY <2>1, <2>3, <2>4 DEF AuthInv, ACall
<1>3. ASSUME NEW k \in Keys, SignIn(k) PROVE AuthInv'
  BY <1>3, CallSlots DEF SignIn, AuthInv, ACall
<1>4. ASSUME NEW k \in Keys, Rotate(k) PROVE AuthInv'
  BY <1>4 DEF Rotate, AuthInv
<1>5. CASE AuthReload
  BY <1>5, CallSlots DEF AuthReload, AuthInv, ACall
<1>6. QED
  BY <1>1, <1>2, <1>3, <1>4, <1>5 DEF AuthSteps

----------------------------------------------------------------------------
(* The composition. *)

\* Each part's invariant is about its own variables.
LEMMA PartsRest ==
    /\ EvInv /\ UNCHANGED <<sse, evVars>> => EvInv'
    /\ StInv /\ UNCHANGED <<sse, stVars>> => StInv'
    /\ ConInv /\ UNCHANGED conVars => ConInv'
    /\ AuthInv /\ UNCHANGED authVars => AuthInv'
<1>1. ASSUME EvInv, UNCHANGED <<sse, evVars>> PROVE EvInv'
  BY <1>1 DEF evVars, EvInv, EvTypes, EvTypeOK, CursorWasShown, EvShape, EvPlain
<1>2. ASSUME StInv, UNCHANGED <<sse, stVars>> PROVE StInv'
  <2>1. Fetching' <=> Fetching
    BY <1>2 DEF stVars, Fetching
  <2>2. QED
    BY <1>2, <2>1 DEF stVars, StInv, StTypes, StTypeOK, StRequests, StShape, StPlain, StatsOfShownVM
<1>3. ASSUME ConInv, UNCHANGED conVars PROVE ConInv'
  BY <1>3 DEF conVars, ConInv, ConsoleStatusTrue, Active
<1>4. ASSUME AuthInv, UNCHANGED authVars PROVE AuthInv'
  BY <1>4 DEF authVars, AuthInv
<1>5. QED
  BY <1>1, <1>2, <1>3, <1>4

\* No step of a part mounts or unmounts it.
LEMMA StepsStay ==
    ASSUME StInv, ConInv
    PROVE  /\ EvSteps => evMounted' = evMounted
           /\ StSteps => (stVm' # NoVM <=> stVm # NoVM)
           /\ ConSteps => (conTab' # NoTab <=> conTab # NoTab)
<1>1. EvSteps => evMounted' = evMounted
  BY DEF EvSteps, EvOpen, EvShutdown, EvError, EvReconnect, EvFallbackExit, EvPollTick,
         EvPollAnswer, EvPollDispatch, EvPollFails, Publish
<1>2. ASSUME StSteps PROVE stVm' # NoVM <=> stVm # NoVM
  <2>1. ASSUME NEW v \in VMs, StSwitch(v) PROVE stVm' # NoVM /\ stVm # NoVM
    BY <2>1, StatsHookAssumption DEF StSwitch, Start
  <2>2. CASE UNCHANGED stVm
    BY <2>2
  <2>3. QED
    BY <1>2, <2>1, <2>2 DEF StSteps, StOpen, StSample, StError, StReconnect, StPoll,
        FetchInitialDone, FetchInitialFails, StPollDone, StPollFails
<1>3. ASSUME ConSteps PROVE conTab' # NoTab <=> conTab # NoTab
  <2>1. ASSUME NEW tab \in Tabs, ConRestart(tab) PROVE conTab' # NoTab /\ conTab # NoTab
    BY <2>1, ConsoleAssumption DEF ConRestart, Effect
  <2>2. QED
    BY <1>3, <2>1 DEF ConSteps, Ticket, TicketRefused, Connected, Closed
<1>4. QED
  BY <1>1, <1>2, <1>3

\* The page of a route mounts its own part and unmounts the others.
LEMMA Enters ==
    ASSUME EvInv, StInv, ConInv, NEW v \in Views, UNCHANGED <<sse, newest>>,
           IF v = "list" THEN EvMount ELSE EvUnmount,
           IF v = "metrics" THEN \E m \in VMs : StMount(m) ELSE StUnmount,
           \/ /\ v = "console"
              /\ \/ ConMount(CHOOSE tab \in Tabs : TRUE)
                 \/ Effect([r \in Runs |-> NoRun], CHOOSE tab \in Tabs : TRUE)
           \/ /\ v # "console"
              /\ ConUnmount \/ (conTab' = NoTab /\ runs' = [r \in Runs |-> NoRun])
    PROVE  /\ EvInv' /\ StInv' /\ ConInv'
           /\ evMounted' <=> v = "list"
           /\ stVm' # NoVM <=> v = "metrics"
           /\ conTab' # NoTab <=> v = "console"
<1>1. EvInv' /\ (evMounted' <=> v = "list")
  BY EvMounts
<1>2. StInv' /\ (stVm' # NoVM <=> v = "metrics")
  <2>1. ASSUME NEW m \in VMs, StMount(m) PROVE stVm' # NoVM
    BY <2>1, StatsHookAssumption DEF StMount, Start
  <2>2. QED
    BY <2>1, StMounts
<1>3. ConInv' /\ (conTab' # NoTab <=> v = "console")
  <2>1. (CHOOSE tab \in Tabs : TRUE) \in Tabs
    BY ConsoleAssumption
  <2>2. QED
    BY <2>1, ConMounts, ConsoleAssumption DEF ConMount
<1>4. QED
  BY <1>1, <1>2, <1>3

\* Every step of the composition keeps the invariant.
LEMMA InvNext ==
    ASSUME Inv, [Next]_vars
    PROVE  Inv'
<1> USE DEF Inv
<1>1. CASE EventHookSteps
  BY <1>1, EvStep, StepsStay, PartsRest DEF EventHookSteps, Mounted, stVars, conVars, authVars
<1>2. CASE StatsHookSteps
  BY <1>2, StStep, StepsStay, PartsRest DEF StatsHookSteps, Mounted, evVars, conVars, authVars
<1>3. CASE ConsoleSteps
  BY <1>3, ConStep, StepsStay, PartsRest DEF ConsoleSteps, Mounted, evVars, stVars, authVars
<1>4. CASE ReloadDocument
  <2>1. AuthInv' /\ ~gate' /\ view' = view
    BY <1>4, AuthStep DEF ReloadDocument, AuthReload
  <2>2. /\ EvInv' /\ StInv' /\ ConInv'
        /\ evMounted' <=> view = "list"
        /\ stVm' # NoVM <=> view = "metrics"
        /\ conTab' # NoTab <=> view = "console"
    BY <1>4, Enters DEF ReloadDocument, Mounted
  <2>3. QED
    BY <2>1, <2>2 DEF Mounted
<1>5. CASE AuthSteps
  <2>1. AuthInv' /\ UNCHANGED <<sse, view>> /\ gate \in BOOLEAN /\ gate' \in BOOLEAN
    BY <1>5, AuthStep DEF AuthSteps, AuthInv
  <2>2. CASE gate' = gate
    <3>1. UNCHANGED <<evVars, stVars, conVars>>
      BY <1>5, <2>2 DEF AuthSteps, GateFollows, Stay
    <3>2. EvInv' /\ StInv' /\ ConInv' /\ UNCHANGED <<evMounted, stVm, conTab>>
      BY <2>1, <3>1, PartsRest DEF evVars, stVars, conVars
    <3>3. QED
      BY <2>1, <2>2, <3>2 DEF Mounted
  <2>3. CASE gate' # gate /\ gate'
    <3>1. EvUnmount /\ StUnmount /\ ConUnmount /\ UNCHANGED newest
      BY <1>5, <2>3 DEF AuthSteps, GateFollows, Leave
    <3>2. EvInv' /\ StInv' /\ ConInv' /\ ~evMounted' /\ stVm' = NoVM /\ conTab' = NoTab
      BY <2>1, <3>1, EvMounts, StMounts, ConMounts
    <3>3. QED
      BY <2>1, <2>3, <3>2 DEF Mounted
  <2>4. CASE gate' # gate /\ ~gate'
    <3>1. Enter(view) /\ UNCHANGED newest
      BY <1>5, <2>4 DEF AuthSteps, GateFollows
    <3>2. /\ EvInv' /\ StInv' /\ ConInv'
          /\ evMounted' <=> view = "list"
          /\ stVm' # NoVM <=> view = "metrics"
          /\ conTab' # NoTab <=> view = "console"
      BY <2>1, <3>1, Enters DEF Enter, Mounted
    <3>3. QED
      BY <2>1, <2>4, <3>2 DEF Mounted
  <2>5. QED
    BY <2>2, <2>3, <2>4
<1>6. ASSUME NEW v \in Views, Navigate(v) PROVE Inv'
  <2>1. UNCHANGED <<sse, newest, authVars>> /\ view' = v /\ ~gate /\ Enter(v)
    BY <1>6 DEF Navigate
  <2>2. /\ EvInv' /\ StInv' /\ ConInv'
        /\ evMounted' <=> v = "list"
        /\ stVm' # NoVM <=> v = "metrics"
        /\ conTab' # NoTab <=> v = "console"
    BY <2>1, Enters DEF Enter
  <2>3. AuthInv' /\ ~gate'
    BY <2>1, PartsRest DEF authVars
  <2>4. QED
    BY <2>1, <2>2, <2>3 DEF Mounted
<1>7. CASE UNCHANGED vars
  <2>1. EvInv' /\ StInv' /\ ConInv' /\ AuthInv'
    BY <1>7, PartsRest DEF vars
  <2>2. Mounted'
    BY <1>7 DEF vars, evVars, stVars, conVars, authVars, Mounted
  <2>3. QED
    BY <2>1, <2>2
<1>8. QED
  BY <1>1, <1>2, <1>3, <1>4, <1>5, <1>6, <1>7 DEF Next

LEMMA InvInit == Init => Inv
<1> SUFFICES ASSUME Init PROVE Inv
  OBVIOUS
<1>1. EvInv
  <2>1. EvTypes
    <3>1. polls \in [Polls -> Poll]
      BY EventHookAssumption DEF Init, NoPoll, Poll
    <3>2. EvTypeOK
      BY EventHookAssumption DEF Init, EvTypeOK
    <3>3. evMounted \in BOOLEAN /\ shutdownRef \in BOOLEAN /\ sse \in BOOLEAN
      BY DEF Init, BrowserInit
    <3>4. QED
      BY <3>1, <3>2, <3>3 DEF EvTypes
  <2>2. CursorWasShown
    BY DEF Init, NoPoll, CursorWasShown
  <2>3. EvShape /\ EvPlain
    BY DEF Init, EvShape, EvPlain
  <2>4. QED
    BY <2>1, <2>2, <2>3 DEF EvInv
<1>2. StInv
  <2>1. fetches \in [Fetches -> Fetch] /\ \A f \in Fetches : fetches[f].st = "none"
    BY DEF Init, NoFetch, Fetch
  <2>2. StTypes
    BY <2>1, StatsHookAssumption DEF Init, BrowserInit, StTypes, StTypeOK
  <2>3. StRequests /\ ~Fetching
    BY <2>1 DEF StRequests, Fetching
  <2>4. StShape /\ StPlain /\ StatsOfShownVM
    BY <2>3 DEF Init, StShape, StPlain, StatsOfShownVM
  <2>5. QED
    BY <2>2, <2>3, <2>4 DEF StInv
<1>3. ConInv
  BY DEF Init, ConInv, ConsoleStatusTrue, Active, NoRun, Run
<1>4. AuthInv
  BY DEF Init, AuthInv, NoCall
<1>5. Mounted
  BY DEF Init, Mounted, Views
<1>6. QED
  BY <1>1, <1>2, <1>3, <1>4, <1>5 DEF Inv

LEMMA InvAlways == Spec => []Inv
<1>1. Init => Inv
  BY InvInit
<1>2. Inv /\ [Next]_vars => Inv'
  BY InvNext
<1>3. QED
  BY <1>1, <1>2, PTL DEF Spec

----------------------------------------------------------------------------
(* Both hooks are live feeds. *)

\* The steps of a feed, as pairs of phases.
Moves(p, q) ==
    \/ p = q
    \/ q = "dialing"
    \/ q = "closed"
    \/ p = "closed" /\ q = "polling"
    \/ p = "dialing" /\ q = "live"
    \/ p \in {"dialing", "live"} /\ q \in {"waiting", "polling"}
    \/ p = "live" /\ q = "over"

Phases == {"closed", "dialing", "live", "waiting", "polling", "over"}

\* What each phase is in the hook's own terms.
EvTable ==
    /\ EvPhase \in Phases
    /\ EvPhase = "closed" <=> ~evMounted
    /\ EvPhase = "over" <=> evMounted /\ shutdownRef
    /\ EvPhase = "live" <=> evSource = "open"
    /\ EvPhase = "dialing" <=> evSource = "dialing"
    /\ EvPhase = "waiting" <=> evTimer = "reconnect"
    /\ EvPhase = "polling" <=> evTimer = "fallback"
    /\ evStatus \in EvFeed!Labels(EvPhase)

LEMMA EvPhases == EvInv => EvTable
<1> SUFFICES ASSUME EvInv PROVE EvTable
  OBVIOUS
<1>1. CASE ~evMounted /\ evSource = "none" /\ evTimer = "none" /\ evStatus = "closed"
  BY <1>1 DEF EvTable, EvPhase, Phases, EvFeed!Labels
<1>2. CASE evMounted /\ shutdownRef /\ evSource = "none" /\ evTimer = "none" /\ evStatus = "shutdown"
  BY <1>2 DEF EvTable, EvPhase, Phases, EvFeed!Labels
<1>3. CASE evMounted /\ ~shutdownRef /\ evSource = "open" /\ evTimer = "none" /\ evStatus = "live"
  BY <1>3 DEF EvTable, EvPhase, Phases, EvFeed!Labels
<1>4. CASE /\ evMounted /\ ~shutdownRef /\ evSource = "dialing" /\ evTimer = "none"
           /\ evStatus \in {"connecting", "reconnecting"}
  BY <1>4 DEF EvTable, EvPhase, Phases, EvFeed!Labels
<1>5. CASE evMounted /\ ~shutdownRef /\ evSource = "none" /\ evTimer = "reconnect" /\ evStatus = "reconnecting"
  BY <1>5 DEF EvTable, EvPhase, Phases, EvFeed!Labels
<1>6. CASE evMounted /\ ~shutdownRef /\ evSource = "none" /\ evTimer = "fallback" /\ evStatus = "fallback"
  BY <1>6 DEF EvTable, EvPhase, Phases, EvFeed!Labels
<1>7. QED
  BY <1>1, <1>2, <1>3, <1>4, <1>5, <1>6 DEF EvInv, EvShape

\* A move between phases, with the labels of the table, is a step of the feed.
LEMMA EvMoves ==
    ASSUME EvTable, EvTable', Moves(EvPhase, EvPhase')
    PROVE  [EvFeed!Next]_<<EvPhase, evStatus>>
<1> USE DEF Moves, EvFeed!Next, EvFeed!Mount, EvFeed!Opens, EvFeed!Fails, EvFeed!Redials,
            EvFeed!ShutsDown, EvFeed!Switches, EvFeed!Unmount, EvFeed!Go, EvFeed!Mounted
<1>1. EvPhase \in Phases /\ evStatus \in EvFeed!Labels(EvPhase) /\ evStatus' \in EvFeed!Labels(EvPhase')
  BY DEF EvTable
<1>2. CASE EvPhase' = EvPhase /\ EvPhase # "dialing"
  BY <1>1, <1>2 DEF Phases, EvFeed!Labels
<1>3. CASE EvPhase' # EvPhase \/ EvPhase = "dialing"
  BY <1>1, <1>3 DEF Phases
<1>4. QED
  BY <1>2, <1>3

\* What a step of the composition is to the event hook.
LEMMA EvDoes ==
    ASSUME [Next]_vars
    PROVE  UNCHANGED sse /\ (EvSteps \/ EvMount \/ EvUnmount \/ UNCHANGED evVars)
BY DEF Next, EventHookSteps, StatsHookSteps, ConsoleSteps, ReloadDocument, AuthSteps, GateFollows,
       Navigate, Enter, Leave, Stay, vars

LEMMA EvFeedStep == Inv /\ Inv' /\ [Next]_vars => [EvFeed!Next]_<<EvPhase, evStatus>>
<1> SUFFICES ASSUME Inv, Inv', [Next]_vars PROVE [EvFeed!Next]_<<EvPhase, evStatus>>
  OBVIOUS
<1>1. EvInv /\ EvTable /\ EvTable'
  BY EvPhases, PTL DEF Inv
<1>2. Moves(EvPhase, EvPhase')
  <2>1. CASE UNCHANGED <<evMounted, evSource, evTimer, shutdownRef>>
    BY <2>1 DEF EvPhase, Moves
  <2>2. CASE EvOpen
    BY <1>1, <2>2 DEF EvOpen, EvTable, Moves
  <2>3. CASE EvShutdown
    BY <1>1, <2>3 DEF EvShutdown, EvTable, Moves
  <2>4. CASE EvError
    <3>1. evSource \in {"dialing", "open"} /\ evTimer' \in {"reconnect", "fallback"}
      BY <1>1, <2>4 DEF EvError, onerror, EvInv, EvShape
    <3>2. QED
      BY <1>1, <3>1 DEF EvTable, Moves
  <2>5. CASE EvReconnect \/ EvFallbackExit
    BY <1>1, <2>5 DEF EvReconnect, EvFallbackExit, connect, EvTable, Moves
  <2>6. CASE EvMount
    <3>1. CASE sse
      BY <1>1, <2>6, <3>1 DEF EvMount, connect, EvTable, Moves
    <3>2. CASE ~sse
      <4>1. evTimer' = "fallback" /\ (evMounted => evTimer = "fallback")
        BY <1>1, <2>6, <3>2 DEF EvMount, EvInv, EvPlain
      <4>2. QED
        BY <1>1, <4>1 DEF EvTable, Moves
    <3>3. QED
      BY <3>1, <3>2
  <2>7. CASE EvUnmount
    BY <1>1, <2>7 DEF EvUnmount, EvTable, Moves
  <2>8. QED
    BY EvDoes, <2>1, <2>2, <2>3, <2>4, <2>5, <2>6, <2>7
       DEF EvSteps, EvPollTick, EvPollAnswer, EvPollDispatch, EvPollFails, Publish, evVars
<1>3. QED
  BY <1>1, <1>2, EvMoves

\* The same for the metrics hook, whose label may also be a stray error.
StTable ==
    /\ StPhase \in Phases \ {"over"}
    /\ StPhase = "closed" <=> stVm = NoVM
    /\ StPhase = "live" <=> stSource = "open"
    /\ StPhase = "waiting" <=> stTimer = "reconnect"
    /\ StPhase = "polling" <=> stTimer = "fallback"
    /\ stSource = "dialing" \/ Fetching => StPhase = "dialing"
    /\ stStatus \in StFeed!Labels(StPhase) \cup {"error"}
    /\ StPhase = "closed" => stStatus = "closed"

LEMMA StPhases == StInv => StTable
<1> SUFFICES ASSUME StInv PROVE StTable
  OBVIOUS
<1>1. CASE stVm = NoVM /\ ~Fetching /\ stSource = "none" /\ stTimer = "none" /\ stStatus = "closed"
  <2>1. StPhase = "closed"
    BY <1>1 DEF StPhase
  <2>2. QED
    BY <1>1, <2>1 DEF StTable, Phases, StFeed!Labels
<1>2. CASE /\ stVm # NoVM /\ Fetching /\ stSource = "none" /\ stTimer = "none"
           /\ stStatus \in {"loading", "error"}
  <2>1. StPhase = "dialing"
    BY <1>2 DEF StPhase
  <2>2. QED
    BY <1>2, <2>1 DEF StTable, Phases, StFeed!Labels
<1>3. CASE /\ stVm # NoVM /\ ~Fetching /\ stSource = "dialing" /\ stTimer = "none"
           /\ stStatus \in {"loading", "reconnecting", "error"}
  <2>1. StPhase = "dialing"
    BY <1>3 DEF StPhase
  <2>2. QED
    BY <1>3, <2>1 DEF StTable, Phases, StFeed!Labels
<1>4. CASE /\ stVm # NoVM /\ ~Fetching /\ stSource = "open" /\ stTimer = "none"
           /\ stStatus \in {"live", "error"}
  <2>1. StPhase = "live"
    BY <1>4 DEF StPhase
  <2>2. QED
    BY <1>4, <2>1 DEF StTable, Phases, StFeed!Labels
<1>5. CASE /\ stVm # NoVM /\ ~Fetching /\ stSource = "none" /\ stTimer = "reconnect"
           /\ stStatus \in {"reconnecting", "error"}
  <2>1. StPhase = "waiting"
    BY <1>5 DEF StPhase
  <2>2. QED
    BY <1>5, <2>1 DEF StTable, Phases, StFeed!Labels
<1>6. CASE /\ stVm # NoVM /\ ~Fetching /\ stSource = "none" /\ stTimer = "fallback"
           /\ stStatus \in {"fallback", "error"}
  <2>1. StPhase = "polling"
    BY <1>6 DEF StPhase
  <2>2. QED
    BY <1>6, <2>1 DEF StTable, Phases, StFeed!Labels
<1>7. QED
  BY <1>1, <1>2, <1>3, <1>4, <1>5, <1>6 DEF StInv, StShape

\* How a step may change the label: with the phase, or by a stray error.
StMarks ==
    \/ StPhase' = StPhase /\ stStatus' = stStatus
    \/ StPhase' = StPhase /\ stVm # NoVM /\ stStatus' = "error"
    \/ stStatus' # "error" /\ (StPhase' # StPhase \/ StPhase' \in {"dialing", "closed"})

LEMMA StMoves ==
    ASSUME StTable, StTable', Moves(StPhase, StPhase'), StMarks
    PROVE  [StFeed!Next]_<<StPhase, stStatus>>
<1> USE DEF Moves, StFeed!Next, StFeed!Mount, StFeed!Opens, StFeed!Fails, StFeed!Redials,
            StFeed!ShutsDown, StFeed!Switches, StFeed!Unmount, StFeed!Go, StFeed!Mounted
<1>1. StPhase \in Phases \ {"over"} /\ StPhase' \in Phases \ {"over"}
  BY DEF StTable
<1>2. CASE StPhase' = StPhase /\ stStatus' = stStatus
  BY <1>2
<1>3. CASE StPhase' = StPhase /\ stVm # NoVM /\ stStatus' = "error"
  <2>1. StPhase # "closed"
    BY <1>3 DEF StTable
  <2>2. StFeed!StrayError
    BY <1>1, <1>3, <2>1 DEF StFeed!StrayError, Phases
  <2>3. QED
    BY <2>2
<1>4. CASE stStatus' # "error" /\ (StPhase' # StPhase \/ StPhase' \in {"dialing", "closed"})
  <2>1. stStatus' \in StFeed!Labels(StPhase')
    BY <1>4 DEF StTable
  <2>2. CASE StPhase' = "closed" /\ StPhase = "closed"
    BY <2>2 DEF StTable
  <2>3. CASE StPhase' # StPhase \/ StPhase' = "dialing"
    BY <1>1, <2>1, <2>3 DEF Phases
  <2>4. QED
    BY <1>4, <2>2, <2>3
<1>5. QED
  BY <1>2, <1>3, <1>4 DEF StMarks

LEMMA StDoes ==
    ASSUME [Next]_vars
    PROVE  UNCHANGED sse /\ (StSteps \/ (\E v \in VMs : StMount(v)) \/ StUnmount \/ UNCHANGED stVars)
BY DEF Next, EventHookSteps, StatsHookSteps, ConsoleSteps, ReloadDocument, AuthSteps, GateFollows,
       Navigate, Enter, Leave, Stay, vars

LEMMA StFeedStep == Inv /\ Inv' /\ [Next]_vars => [StFeed!Next]_<<StPhase, stStatus>>
<1> SUFFICES ASSUME Inv, Inv', [Next]_vars PROVE [StFeed!Next]_<<StPhase, stStatus>>
  OBVIOUS
<1>1. StInv /\ StTable /\ StTable'
  BY StPhases, PTL DEF Inv
<1>2. ASSUME NEW v \in VMs, Start(v) PROVE StPhase' = "dialing" /\ stStatus' # "error"
  BY <1>1, <1>2, StatsHookAssumption DEF Start, StTable, Phases
<1>3. Moves(StPhase, StPhase') /\ StMarks
  <2>1. ASSUME UNCHANGED <<stVm, stSource, stTimer>>, stStatus' = stStatus \/ (stVm # NoVM /\ stStatus' = "error")
        PROVE  Moves(StPhase, StPhase') /\ StMarks
    <3>1. StPhase' = StPhase
      BY <1>1, <2>1 DEF StTable, Phases
    <3>2. QED
      BY <2>1, <3>1 DEF Moves, StMarks
  <2>2. CASE (\E v \in VMs : StMount(v)) \/ (\E v \in VMs : StSwitch(v))
    BY <1>2, <2>2 DEF StMount, StSwitch, Moves, StMarks
  <2>3. CASE StUnmount
    BY <1>1, <2>3 DEF StUnmount, StTable, Moves, StMarks
  <2>4. CASE StOpen
    <3>1. StPhase = "dialing" /\ StPhase' = "live" /\ stStatus' # "error"
      BY <1>1, <2>4 DEF StOpen, StTable
    <3>2. QED
      BY <3>1 DEF Moves, StMarks
  <2>5. CASE StError
    <3>1. StPhase \in {"dialing", "live"}
      BY <1>1, <2>5 DEF StError, StTable, StInv, StTypes, StTypeOK
    <3>2. stTimer' \in {"reconnect", "fallback"} /\ stStatus' # "error"
      BY <2>5 DEF StError, startFallback
    <3>3. StPhase' \in {"waiting", "polling"}
      BY <1>1, <3>2 DEF StTable
    <3>4. QED
      BY <3>1, <3>2, <3>3 DEF Moves, StMarks
  <2>6. CASE StReconnect
    <3>1. connectStats(stVm) /\ sse /\ stTimer' # "reconnect" /\ stSource' = "dialing" /\ stStatus' # "error"
      BY <1>1, <2>6 DEF StReconnect, connectStats, StInv, StPlain
    <3>2. StPhase' = "dialing"
      BY <1>1, <3>1 DEF StTable
    <3>3. QED
      BY <3>1, <3>2 DEF Moves, StMarks
  <2>7. ASSUME NEW f \in Fetches, FetchInitialDone(f) \/ FetchInitialFails(f), fetches[f].current
        PROVE  Moves(StPhase, StPhase') /\ StMarks
    <3>1. Fetching /\ connectStats(fetches[f].vm) /\ stVm' = stVm
      BY <2>7 DEF FetchInitialDone, FetchInitialFails, ThenConnect, Fetching
    <3>2. StPhase = "dialing" /\ stSource = "none" /\ stTimer = "none" /\ stVm # NoVM
      BY <1>1, <3>1 DEF StTable, StInv, StShape
    <3>3. StPhase' \in {"dialing", "polling"} /\ stStatus' # "error"
      BY <1>1, <3>1, <3>2 DEF connectStats, startFallback, StTable, Phases
    <3>4. QED
      BY <3>2, <3>3 DEF Moves, StMarks
  <2>8. ASSUME NEW f \in Fetches, FetchInitialDone(f) \/ FetchInitialFails(f), ~fetches[f].current
        PROVE  Moves(StPhase, StPhase') /\ StMarks
    <3>1. UNCHANGED <<stVm, stSource, stTimer>> /\ (stStatus' = stStatus \/ stStatus' = "error")
      BY <2>8 DEF FetchInitialDone, FetchInitialFails, ThenConnect
    <3>2. stVm # NoVM
      BY <1>1, <2>8 DEF FetchInitialDone, FetchInitialFails, StInv, StRequests
    <3>3. QED
      BY <2>1, <3>1, <3>2
  <2>9. QED
    BY StDoes, <2>1, <2>2, <2>3, <2>4, <2>5, <2>6, <2>7, <2>8
       DEF StSteps, StSample, StPoll, StPollDone, StPollFails, stVars
<1>4. QED
  BY <1>1, <1>3, StMoves

----------------------------------------------------------------------------
(* The theorems. *)

(* Whatever the pages were doing when a 401 came, nothing of them is left  *)
(* behind the sign-in form, nor a key but one that an upload sent without  *)
(* a key has spared, and the page of a route has its own parts and no      *)
(* other (AuthGate, unwrap, uploadImageWithProgress, the cleanups of the   *)
(* hooks and of the console).                                              *)
THEOREM GateLeavesNothing == Spec => []BehindGate
<1>1. Inv => BehindGate
  <2> SUFFICES ASSUME Inv PROVE BehindGate
    OBVIOUS
  <2>1. TypeOK
    BY DEF Inv, TypeOK, EvInv, EvTypes, StInv, StTypes, ConInv, ConTypeOK, Run, AuthInv, AuthTypeOK
  <2>2. gate => token \in {NoKey, spared} /\ EvPhase = "closed" /\ StPhase = "closed" /\ conTab = NoTab
    BY EvPhases, StPhases DEF Inv, AuthInv, Mounted, EvTable, StTable
  <2>3. QED
    BY <2>1, <2>2 DEF BehindGate, Inv, Mounted
<1>2. QED
  BY <1>1, InvAlways, PTL

(* The event hook asks the daemon to go on from nothing but an event that  *)
(* this mount of the page was shown, for any number of polls in flight and *)
(* answers in any order (dispatchEvent, poll, connect).                    *)
THEOREM CursorsWereShown == Spec => []CursorWasShown
<1>1. Inv => CursorWasShown
  BY DEF Inv, EvInv
<1>2. QED
  BY <1>1, InvAlways, PTL

(* The stream of the metrics tab is that of the machine shown, for any     *)
(* number of requests left over from other machines; of their samples only *)
(* those of an answer that came after the switch are in the history, which *)
(* the code does not prevent (fetchInitial, connect).                      *)
THEOREM StatsAreTheShownVMs == Spec => []StatsOfShownVM
<1>1. Inv => StatsOfShownVM
  BY DEF Inv, StInv
<1>2. QED
  BY <1>1, InvAlways, PTL

(* One console client at most, the one of the tab shown, and the status is *)
(* its own, for any number of runs whose tickets and close events are      *)
(* still to come (the effects of the console tabs).                        *)
THEOREM ConsoleIsItsTabs == Spec => []ConsoleIsOfItsTab
<1>1. Inv => ConsoleIsOfItsTab
  <2> SUFFICES ASSUME Inv PROVE ConsoleIsOfItsTab
    OBVIOUS
  <2>1. \A r \in Runs : HasClient(r) => Active(r)
    BY DEF Inv, ConInv, HasClient, Active
  <2>2. OneConsoleClient
    BY <2>1 DEF Inv, ConInv, OneConsoleClient, Active
  <2>3. QED
    BY <2>2 DEF Inv, ConInv, ConsoleIsOfItsTab
<1>2. QED
  BY <1>1, InvAlways, PTL

(* Both hooks implement LiveFeed: the status each returns is that of the   *)
(* connection it has, or in useVMStats an error of the machine shown       *)
(* before, and every step of theirs, of the gate and of the router is a    *)
(* step of a feed (useEventStream, useVMStats).                            *)
THEOREM HooksImplementFeeds == Spec => HooksAreFeeds
<1>1. Init => EvFeed!Init /\ StFeed!Init
  <2> SUFFICES ASSUME Init PROVE EvFeed!Init /\ StFeed!Init
    OBVIOUS
  <2>1. EvTable /\ StTable
    BY InvInit, EvPhases, StPhases DEF Inv
  <2>2. EvPhase \in {"dialing", "polling"}
    BY <2>1 DEF Init, EvTable
  <2>3. StPhase = "closed"
    BY <2>1 DEF Init, StTable
  <2>4. QED
    BY <2>1, <2>2, <2>3 DEF EvTable, StTable, EvFeed!Init, StFeed!Init
<1>2. Inv /\ Inv' /\ [Next]_vars => [EvFeed!Next]_<<EvPhase, evStatus>> /\ [StFeed!Next]_<<StPhase, stStatus>>
  BY EvFeedStep, StFeedStep
<1>3. QED
  BY <1>1, <1>2, InvAlways, PTL DEF Spec, HooksAreFeeds, EvFeed!Spec, StFeed!Spec

----------------------------------------------------------------------------
(* Pwa: the service worker and the update offer, a system of its own whose *)
(* names start with Pwa where App has the same ones.  Its theorems hold    *)
(* for any number of windows, builds and clicks.                           *)

PwaTypes ==
    /\ deployed \in 1..MaxBuild /\ shells \subseteq 1..MaxBuild /\ raced \subseteq 1..MaxBuild
    /\ installing \in Nat /\ waiting \in Nat /\ active \in Nat
    /\ activating \in BOOLEAN /\ skip \in BOOLEAN
    /\ updateReady \cup controlled \cup changed \cup reloading \subseteq Windows
    /\ reloads \in [Windows -> Nat] /\ accepts \in Nat /\ runtime \subseteq Requests

(* Builds are installed, wait and take over in the order they were         *)
(* deployed, so no two of the three workers share a cache.                 *)
BuildsInOrder ==
    /\ installing <= deployed /\ waiting <= deployed /\ active <= deployed
    /\ installing # 0 => waiting < installing /\ active < installing
    /\ waiting # 0 => active < waiting
    /\ skip => waiting # 0
    /\ activating => active # 0

(* Each worker has its cache, or lost it to another's activation.          *)
ShellsKept == {installing, waiting, active} \subseteq {0} \cup shells \cup raced

(* Only a page with a controller hears of an update, and only a worker     *)
(* that has taken over controls a page.                                    *)
OffersControlled ==
    /\ updateReady \cup reloading \subseteq controlled
    /\ active = 0 => controlled = {}

(* An accepted update pays for one reload of each window: before it, the   *)
(* acceptance is still with the waiting worker, or the change-over is on   *)
(* its way to the window.                                                  *)
Owed(w) == IF w \in reloading \cup (changed \cap updateReady) THEN 1 ELSE 0
Pending == IF skip THEN 1 ELSE 0
ReloadsPaid == \A w \in Windows : reloads[w] + Owed(w) + Pending <= accepts

PwaInv == PwaTypes /\ BuildsInOrder /\ ShellsKept /\ OffersControlled /\ OfferIsReal /\ ReloadsPaid

----------------------------------------------------------------------------
(* Each part of PwaInv is preserved by every step. *)

USE DEF workerVars, pageVars, pwaVars

\* Every step keeps the variables within their types; the build that is
\* installed is one that was deployed.
LEMMA PwaTypesStep == ASSUME PwaTypes, BuildsInOrder, [PwaNext]_pwaVars PROVE PwaTypes'
<1>1. CASE Deploy
  BY <1>1, PwaAssumption DEF Deploy, PwaTypes, BuildsInOrder
<1>2. CASE Install
  BY <1>2, PwaAssumption DEF Install, PwaTypes, BuildsInOrder
<1>3. CASE InstallFails
  BY <1>3, PwaAssumption DEF InstallFails, PwaTypes, BuildsInOrder
<1>4. CASE Installed
  BY <1>4, PwaAssumption DEF Installed, PwaTypes, BuildsInOrder
<1>5. CASE Activate
  BY <1>5, PwaAssumption DEF Activate, PwaTypes, BuildsInOrder
<1>6. CASE Activated
  BY <1>6, PwaAssumption DEF Activated, staleCacheNames, PwaTypes, BuildsInOrder
<1>7. ASSUME NEW w \in Windows, applyUpdate(w) PROVE PwaTypes'
  BY <1>7, PwaAssumption DEF applyUpdate, PwaTypes, BuildsInOrder
<1>8. ASSUME NEW w \in Windows, dismissUpdate(w) PROVE PwaTypes'
  BY <1>8, PwaAssumption DEF dismissUpdate, PwaTypes, BuildsInOrder
<1>9. ASSUME NEW w \in Windows, controllerchange(w) PROVE PwaTypes'
  BY <1>9, PwaAssumption DEF controllerchange, PwaTypes, BuildsInOrder
<1>10. ASSUME NEW w \in Windows, UpdateReload(w) PROVE PwaTypes'
  BY <1>10, PwaAssumption DEF UpdateReload, PwaStart, With, PwaTypes, BuildsInOrder
<1>11. ASSUME NEW w \in Windows, UserReload(w) PROVE PwaTypes'
  BY <1>11, PwaAssumption DEF UserReload, PwaStart, With, PwaTypes, BuildsInOrder
<1>12. ASSUME NEW w \in Windows, NEW r \in Requests, PwaFetch(w, r) PROVE PwaTypes'
  BY <1>12, PwaAssumption DEF PwaFetch, PwaTypes, BuildsInOrder
<1>13. CASE UNCHANGED pwaVars
  BY <1>13, PwaAssumption DEF PwaTypes, BuildsInOrder
<1>14. QED
  BY <1>1, <1>2, <1>3, <1>4, <1>5, <1>6, <1>7, <1>8, <1>9, <1>10, <1>11, <1>12, <1>13 DEF PwaNext

\* A worker is installed only for a build newer than the other two workers'.
LEMMA BuildsInOrderStep == ASSUME PwaTypes, BuildsInOrder, [PwaNext]_pwaVars PROVE BuildsInOrder'
<1>1. CASE Deploy
  BY <1>1 DEF Deploy, PwaTypes, BuildsInOrder
<1>2. CASE Install
  BY <1>2 DEF Install, PwaTypes, BuildsInOrder
<1>3. CASE InstallFails
  BY <1>3 DEF InstallFails, PwaTypes, BuildsInOrder
<1>4. CASE Installed
  BY <1>4 DEF Installed, PwaTypes, BuildsInOrder
<1>5. CASE Activate
  BY <1>5 DEF Activate, PwaTypes, BuildsInOrder
<1>6. CASE Activated
  BY <1>6 DEF Activated, PwaTypes, BuildsInOrder
<1>7. ASSUME NEW w \in Windows, applyUpdate(w) PROVE BuildsInOrder'
  BY <1>7 DEF applyUpdate, PwaTypes, BuildsInOrder
<1>8. ASSUME NEW w \in Windows, dismissUpdate(w) PROVE BuildsInOrder'
  BY <1>8 DEF dismissUpdate, PwaTypes, BuildsInOrder
<1>9. ASSUME NEW w \in Windows, controllerchange(w) PROVE BuildsInOrder'
  BY <1>9 DEF controllerchange, PwaTypes, BuildsInOrder
<1>10. ASSUME NEW w \in Windows, UpdateReload(w) PROVE BuildsInOrder'
  BY <1>10 DEF UpdateReload, PwaTypes, BuildsInOrder
<1>11. ASSUME NEW w \in Windows, UserReload(w) PROVE BuildsInOrder'
  BY <1>11 DEF UserReload, PwaTypes, BuildsInOrder
<1>12. ASSUME NEW w \in Windows, NEW r \in Requests, PwaFetch(w, r) PROVE BuildsInOrder'
  BY <1>12 DEF PwaFetch, PwaTypes, BuildsInOrder
<1>13. CASE UNCHANGED pwaVars
  BY <1>13 DEF PwaTypes, BuildsInOrder
<1>14. QED
  BY <1>1, <1>2, <1>3, <1>4, <1>5, <1>6, <1>7, <1>8, <1>9, <1>10, <1>11, <1>12, <1>13 DEF PwaNext

\* A failed installation deletes no other worker's cache, and the clean-up of
\* an activation only that of a worker it records in raced.
LEMMA ShellsKeptStep == ASSUME PwaTypes, BuildsInOrder, ShellsKept, [PwaNext]_pwaVars PROVE ShellsKept'
<1>1. CASE Deploy
  BY <1>1 DEF Deploy, PwaTypes, BuildsInOrder, ShellsKept
<1>2. CASE Install
  BY <1>2 DEF Install, PwaTypes, BuildsInOrder, ShellsKept
<1>3. CASE InstallFails
  BY <1>3 DEF InstallFails, PwaTypes, BuildsInOrder, ShellsKept
<1>4. CASE Installed
  BY <1>4 DEF Installed, PwaTypes, BuildsInOrder, ShellsKept
<1>5. CASE Activate
  BY <1>5 DEF Activate, PwaTypes, BuildsInOrder, ShellsKept
<1>6. CASE Activated
  BY <1>6 DEF Activated, staleCacheNames, PwaTypes, BuildsInOrder, ShellsKept
<1>7. ASSUME NEW w \in Windows, applyUpdate(w) PROVE ShellsKept'
  BY <1>7 DEF applyUpdate, PwaTypes, BuildsInOrder, ShellsKept
<1>8. ASSUME NEW w \in Windows, dismissUpdate(w) PROVE ShellsKept'
  BY <1>8 DEF dismissUpdate, PwaTypes, BuildsInOrder, ShellsKept
<1>9. ASSUME NEW w \in Windows, controllerchange(w) PROVE ShellsKept'
  BY <1>9 DEF controllerchange, PwaTypes, BuildsInOrder, ShellsKept
<1>10. ASSUME NEW w \in Windows, UpdateReload(w) PROVE ShellsKept'
  BY <1>10 DEF UpdateReload, PwaTypes, BuildsInOrder, ShellsKept
<1>11. ASSUME NEW w \in Windows, UserReload(w) PROVE ShellsKept'
  BY <1>11 DEF UserReload, PwaTypes, BuildsInOrder, ShellsKept
<1>12. ASSUME NEW w \in Windows, NEW r \in Requests, PwaFetch(w, r) PROVE ShellsKept'
  BY <1>12 DEF PwaFetch, PwaTypes, BuildsInOrder, ShellsKept
<1>13. CASE UNCHANGED pwaVars
  BY <1>13 DEF PwaTypes, BuildsInOrder, ShellsKept
<1>14. QED
  BY <1>1, <1>2, <1>3, <1>4, <1>5, <1>6, <1>7, <1>8, <1>9, <1>10, <1>11, <1>12, <1>13 DEF PwaNext

\* A page becomes controlled when a worker is in charge, and is offered
\* updates only then.
LEMMA OffersControlledStep == ASSUME PwaTypes, BuildsInOrder, OffersControlled, [PwaNext]_pwaVars PROVE OffersControlled'
<1>1. CASE Deploy
  BY <1>1 DEF Deploy, PwaTypes, BuildsInOrder, OffersControlled
<1>2. CASE Install
  BY <1>2 DEF Install, PwaTypes, BuildsInOrder, OffersControlled
<1>3. CASE InstallFails
  BY <1>3 DEF InstallFails, PwaTypes, BuildsInOrder, OffersControlled
<1>4. CASE Installed
  BY <1>4 DEF Installed, PwaTypes, BuildsInOrder, OffersControlled
<1>5. CASE Activate
  BY <1>5 DEF Activate, PwaTypes, BuildsInOrder, OffersControlled
<1>6. CASE Activated
  BY <1>6 DEF Activated, PwaTypes, BuildsInOrder, OffersControlled
<1>7. ASSUME NEW w \in Windows, applyUpdate(w) PROVE OffersControlled'
  BY <1>7 DEF applyUpdate, PwaTypes, BuildsInOrder, OffersControlled
<1>8. ASSUME NEW w \in Windows, dismissUpdate(w) PROVE OffersControlled'
  BY <1>8 DEF dismissUpdate, PwaTypes, BuildsInOrder, OffersControlled
<1>9. ASSUME NEW w \in Windows, controllerchange(w) PROVE OffersControlled'
  BY <1>9 DEF controllerchange, PwaTypes, BuildsInOrder, OffersControlled
<1>10. ASSUME NEW w \in Windows, UpdateReload(w) PROVE OffersControlled'
  BY <1>10 DEF UpdateReload, PwaStart, With, PwaTypes, BuildsInOrder, OffersControlled
<1>11. ASSUME NEW w \in Windows, UserReload(w) PROVE OffersControlled'
  BY <1>11 DEF UserReload, PwaStart, With, PwaTypes, BuildsInOrder, OffersControlled
<1>12. ASSUME NEW w \in Windows, NEW r \in Requests, PwaFetch(w, r) PROVE OffersControlled'
  BY <1>12 DEF PwaFetch, PwaTypes, BuildsInOrder, OffersControlled
<1>13. CASE UNCHANGED pwaVars
  BY <1>13 DEF PwaTypes, BuildsInOrder, OffersControlled
<1>14. QED
  BY <1>1, <1>2, <1>3, <1>4, <1>5, <1>6, <1>7, <1>8, <1>9, <1>10, <1>11, <1>12, <1>13 DEF PwaNext

\* The waiting worker leaves only by taking over, which every offering page
\* is told.
LEMMA OfferIsRealStep == ASSUME PwaTypes, BuildsInOrder, OffersControlled, OfferIsReal, [PwaNext]_pwaVars PROVE OfferIsReal'
<1>1. CASE Deploy
  BY <1>1 DEF Deploy, PwaTypes, BuildsInOrder, OffersControlled, OfferIsReal
<1>2. CASE Install
  BY <1>2 DEF Install, PwaTypes, BuildsInOrder, OffersControlled, OfferIsReal
<1>3. CASE InstallFails
  BY <1>3 DEF InstallFails, PwaTypes, BuildsInOrder, OffersControlled, OfferIsReal
<1>4. CASE Installed
  BY <1>4 DEF Installed, PwaTypes, BuildsInOrder, OffersControlled, OfferIsReal
<1>5. CASE Activate
  BY <1>5 DEF Activate, PwaTypes, BuildsInOrder, OffersControlled, OfferIsReal
<1>6. CASE Activated
  BY <1>6 DEF Activated, PwaTypes, BuildsInOrder, OffersControlled, OfferIsReal
<1>7. ASSUME NEW w \in Windows, applyUpdate(w) PROVE OfferIsReal'
  BY <1>7 DEF applyUpdate, PwaTypes, BuildsInOrder, OffersControlled, OfferIsReal
<1>8. ASSUME NEW w \in Windows, dismissUpdate(w) PROVE OfferIsReal'
  BY <1>8 DEF dismissUpdate, PwaTypes, BuildsInOrder, OffersControlled, OfferIsReal
<1>9. ASSUME NEW w \in Windows, controllerchange(w) PROVE OfferIsReal'
  BY <1>9 DEF controllerchange, PwaTypes, BuildsInOrder, OffersControlled, OfferIsReal
<1>10. ASSUME NEW w \in Windows, UpdateReload(w) PROVE OfferIsReal'
  BY <1>10 DEF UpdateReload, PwaStart, With, PwaTypes, BuildsInOrder, OffersControlled, OfferIsReal
<1>11. ASSUME NEW w \in Windows, UserReload(w) PROVE OfferIsReal'
  BY <1>11 DEF UserReload, PwaStart, With, PwaTypes, BuildsInOrder, OffersControlled, OfferIsReal
<1>12. ASSUME NEW w \in Windows, NEW r \in Requests, PwaFetch(w, r) PROVE OfferIsReal'
  BY <1>12 DEF PwaFetch, PwaTypes, BuildsInOrder, OffersControlled, OfferIsReal
<1>13. CASE UNCHANGED pwaVars
  BY <1>13 DEF PwaTypes, BuildsInOrder, OffersControlled, OfferIsReal
<1>14. QED
  BY <1>1, <1>2, <1>3, <1>4, <1>5, <1>6, <1>7, <1>8, <1>9, <1>10, <1>11, <1>12, <1>13 DEF PwaNext

\* Acceptance, change-over and reload hand one reload on to each other.
LEMMA ReloadsPaidStep == ASSUME PwaTypes, BuildsInOrder, OffersControlled, ReloadsPaid, [PwaNext]_pwaVars PROVE ReloadsPaid'
<1>1. CASE Deploy
  BY <1>1 DEF Deploy, PwaTypes, BuildsInOrder, OffersControlled, ReloadsPaid, Owed, Pending
<1>2. CASE Install
  BY <1>2 DEF Install, PwaTypes, BuildsInOrder, OffersControlled, ReloadsPaid, Owed, Pending
<1>3. CASE InstallFails
  BY <1>3 DEF InstallFails, PwaTypes, BuildsInOrder, OffersControlled, ReloadsPaid, Owed, Pending
<1>4. CASE Installed
  BY <1>4 DEF Installed, PwaTypes, BuildsInOrder, OffersControlled, ReloadsPaid, Owed, Pending
<1>5. CASE Activate
  BY <1>5 DEF Activate, PwaTypes, BuildsInOrder, OffersControlled, ReloadsPaid, Owed, Pending
<1>6. CASE Activated
  BY <1>6 DEF Activated, PwaTypes, BuildsInOrder, OffersControlled, ReloadsPaid, Owed, Pending
<1>7. ASSUME NEW w \in Windows, applyUpdate(w) PROVE ReloadsPaid'
  BY <1>7 DEF applyUpdate, PwaTypes, BuildsInOrder, OffersControlled, ReloadsPaid, Owed, Pending
<1>8. ASSUME NEW w \in Windows, dismissUpdate(w) PROVE ReloadsPaid'
  BY <1>8 DEF dismissUpdate, PwaTypes, BuildsInOrder, OffersControlled, ReloadsPaid, Owed, Pending
<1>9. ASSUME NEW w \in Windows, controllerchange(w) PROVE ReloadsPaid'
  BY <1>9 DEF controllerchange, PwaTypes, BuildsInOrder, OffersControlled, ReloadsPaid, Owed, Pending
<1>10. ASSUME NEW w \in Windows, UpdateReload(w) PROVE ReloadsPaid'
  BY <1>10 DEF UpdateReload, PwaStart, With, PwaTypes, BuildsInOrder, OffersControlled, ReloadsPaid, Owed, Pending
<1>11. ASSUME NEW w \in Windows, UserReload(w) PROVE ReloadsPaid'
  BY <1>11 DEF UserReload, PwaStart, With, PwaTypes, BuildsInOrder, OffersControlled, ReloadsPaid, Owed, Pending
<1>12. ASSUME NEW w \in Windows, NEW r \in Requests, PwaFetch(w, r) PROVE ReloadsPaid'
  BY <1>12 DEF PwaFetch, PwaTypes, BuildsInOrder, OffersControlled, ReloadsPaid, Owed, Pending
<1>13. CASE UNCHANGED pwaVars
  BY <1>13 DEF PwaTypes, BuildsInOrder, OffersControlled, ReloadsPaid, Owed, Pending
<1>14. QED
  BY <1>1, <1>2, <1>3, <1>4, <1>5, <1>6, <1>7, <1>8, <1>9, <1>10, <1>11, <1>12, <1>13 DEF PwaNext

----------------------------------------------------------------------------

(* Nothing is installed, offered or cached at first.                       *)
LEMMA PwaInvInit == PwaInit => PwaInv
<1> SUFFICES ASSUME PwaInit PROVE PwaInv
  OBVIOUS
<1>1. ~skip /\ ~activating
  BY Zenon DEF PwaInit
<1>2. /\ deployed = 1 /\ installing = 0 /\ waiting = 0 /\ active = 0 /\ accepts = 0
      /\ shells = {} /\ raced = {} /\ runtime = {}
  BY Zenon DEF PwaInit
<1>3. /\ updateReady = {} /\ controlled = {} /\ changed = {} /\ reloading = {}
      /\ reloads = [w \in Windows |-> 0]
  BY Zenon DEF PwaInit
<1>4. activating \in BOOLEAN /\ skip \in BOOLEAN
  BY Zenon DEF PwaInit
<1>5. PwaTypes
  BY <1>2, <1>3, <1>4, PwaAssumption DEF PwaTypes
<1>6. BuildsInOrder /\ ShellsKept
  BY <1>1, <1>2 DEF BuildsInOrder, ShellsKept
<1>7. OffersControlled /\ OfferIsReal
  BY <1>3 DEF OffersControlled, OfferIsReal
<1>8. ReloadsPaid
  <2>1. Pending = 0
    BY <1>1 DEF Pending
  <2>2. \A w \in Windows : reloads[w] = 0 /\ Owed(w) = 0
    BY <1>3 DEF Owed
  <2>3. accepts = 0
    BY <1>2
  <2>4. ASSUME NEW w \in Windows PROVE reloads[w] + Owed(w) + Pending <= accepts
    BY <2>1, <2>2, <2>3
  <2>5. QED
    BY <2>4 DEF ReloadsPaid
<1>9. QED
  BY <1>5, <1>6, <1>7, <1>8 DEF PwaInv

(* Every step of workers, windows and the daemon keeps the invariant.      *)
LEMMA PwaInvStep == PwaInv /\ [PwaNext]_pwaVars => PwaInv'
BY PwaTypesStep, BuildsInOrderStep, ShellsKeptStep, OffersControlledStep, OfferIsRealStep,
   ReloadsPaidStep DEF PwaInv

(* So it always holds.                                                     *)
LEMMA PwaInvAlways == PwaSpec => []PwaInv
<1>1. PwaInit => PwaInv
  BY PwaInvInit
<1>2. PwaInv /\ [PwaNext]_pwaVars => PwaInv'
  BY PwaInvStep
<1>3. QED
  BY <1>1, <1>2, PTL DEF PwaSpec

(* The three workers of a registration are of builds in the order they     *)
(* were deployed: the one in charge is older than the one that waits, and  *)
(* both are older than the one being installed, so that no activation and  *)
(* no installation shares a cache with another; and a worker is told to    *)
(* skip waiting only while one waits (install, activate, applyUpdate).     *)
THEOREM WorkersInOrder == PwaSpec => [](PwaTypeOK /\ BuildsInOrder)
<1>1. PwaInv => PwaTypeOK /\ BuildsInOrder
  BY PwaAssumption DEF PwaInv, PwaTypes, BuildsInOrder, PwaTypeOK
<1>2. QED
  BY <1>1, PwaInvAlways, PTL

(* The worker in charge has the shell of its build in its cache, unless    *)
(* another worker's activation deleted it during the installation (the     *)
(* install and activate handlers of sw.js).                                *)
THEOREM ShellIsAvailable == PwaSpec => []ShellAvailable
<1>1. PwaInv => ShellAvailable
  BY DEF PwaInv, ShellsKept, ShellAvailable
<1>2. QED
  BY <1>1, PwaInvAlways, PTL

(* A window reloads at most once for each update somebody accepted, in any *)
(* number of windows (applyUpdate and the controllerchange listener).      *)
THEOREM ReloadsAreAccepted == PwaSpec => []ReloadsAccepted
<1>1. PwaInv => ReloadsAccepted
  <2>1. ASSUME PwaInv, NEW w \in Windows PROVE reloads[w] <= accepts
    BY <2>1 DEF PwaInv, PwaTypes, ReloadsPaid, Owed, Pending
  <2>2. QED
    BY <2>1 DEF ReloadsAccepted
<1>2. QED
  BY <1>1, PwaInvAlways, PTL

(* A window that offers an update can carry it out, or is being changed    *)
(* over (trackWaiting, applyUpdate, controllerchange).                     *)
THEOREM OffersAreReal == PwaSpec => []OfferIsReal
<1>1. PwaInv => OfferIsReal
  BY DEF PwaInv
<1>2. QED
  BY <1>1, PwaInvAlways, PTL
=============================================================================
