---------------------------- MODULE EventStream ----------------------------
(***************************************************************************)
(* The SSE endpoint GET /api/v1/events/stream (internal/api/               *)
(* handlers_events.go, StreamEvents) between the event bus and a client    *)
(* that follows it across reconnects with Last-Event-ID, as               *)
(* `vmsmith events follow` does (internal/cli/events.go).  It composes     *)
(* EventBus with one handler and one client per member of Clients: the     *)
(* handlers are the bus's subscribers.                                     *)
(*                                                                         *)
(* A handler reads the backlog from the store, writes it out, and only     *)
(* then subscribes; the three are separate steps.  Filters, heartbeats and *)
(* frame syntax are left out: a frame is the event it carries.             *)
(***************************************************************************)
EXTENDS EventBus

CONSTANTS
  Clients,      \* processes that follow the stream
  ReplayLimit   \* sseReplayLimit (1000)

ASSUME ReplayAssumption == ReplayLimit \in Nat \ {0}

VARIABLES
  cst,      \* cst[c]: "off", "replaying", "live", or "gone" after a 410
  lastID,   \* lastID[c]: the id of the last frame c received
  replay,   \* replay[c]: the backlog c's handler has still to write
  key,      \* key[c]: the subscription of c's handler, 0 without one
  first,    \* first[c]: n of the first event c received, 0 before that (history)
  newest,   \* newest[c]: the largest n c received (history)
  got,      \* got[c]: the numbers of the events c received (history)
  excused   \* excused[c]: <<why, n>> for each event that passed c by (history)

connVars   == <<cst, lastID, replay, key, first, newest, got, excused>>
streamVars == <<busVars, connVars>>

\* The id of a frame: the sequence number, or a "transient-..." string that
\* strconv.ParseUint rejects.
NoID        == 0
TransientID == -1
FrameID(e)  == IF e.seq = 0 THEN TransientID ELSE e.seq

StreamInit ==
  /\ BusInit
  /\ cst = [c \in Clients |-> "off"]
  /\ lastID = [c \in Clients |-> NoID]
  /\ replay = [c \in Clients |-> << >>]
  /\ key = [c \in Clients |-> 0]
  /\ first = [c \in Clients |-> 0]
  /\ newest = [c \in Clients |-> 0]
  /\ got = [c \in Clients |-> {}]
  /\ excused = [c \in Clients |-> {}]

-----------------------------------------------------------------------------
(* The handler. *)

\* A defect to detect: the cursor is moved past the event after the last one seen.
AfterNextSeq(id) == IF id > 0 THEN id + 1 ELSE 0

\* The replay cursor: an empty or unparsable Last-Event-ID is 0, "no replay".
AfterSeq(id) == IF id > 0 THEN id ELSE 0

\* The i-th key of a cursor walk over the keys in S.
NthKey(S, i) == CHOOSE s \in S : Cardinality({t \in S : t < s}) = i - 1

\* At most limit of the events with these keys, oldest first.
EventsOf(keys, limit) ==
  LET m == IF Cardinality(keys) < limit THEN Cardinality(keys) ELSE limit
  IN [i \in 1..m |-> log[NthKey(keys, i)]]

\* A defect to detect: the lower bound of the query is inclusive.
ListEventsFromSeq(a, limit) == EventsOf({s \in DOMAIN log : s >= a}, limit)

\* The events with a sequence number above a, oldest first, at most limit.
ListEventsAfterSeq(a, limit) == EventsOf({s \in DOMAIN log : s > a}, limit)

Backlog(c) ==
  IF AfterSeq(lastID[c]) > 0 THEN ListEventsAfterSeq(AfterSeq(lastID[c]), ReplayLimit + 1) ELSE << >>

\* The events persisted while c was away that a handler asked to resume after a
\* transient id does not look for.
Blind(c) ==
  IF lastID[c] = TransientID
  THEN {<<"transient", log[s].n>> : s \in {t \in DOMAIN log : log[t].n > newest[c]}}
  ELSE {}

\* A request arrives: read the backlog, answer 410 if it is too long (the
\* follower gives up), otherwise commit the response and start writing it.
Connect(c) ==
  /\ cst[c] = "off" /\ pc # "new"
  /\ IF Len(Backlog(c)) > ReplayLimit
     THEN /\ cst' = [cst EXCEPT ![c] = "gone"]
          /\ UNCHANGED <<replay, excused>>
     ELSE /\ cst' = [cst EXCEPT ![c] = "replaying"]
          /\ replay' = [replay EXCEPT ![c] = Backlog(c)]
          /\ excused' = [excused EXCEPT ![c] = @ \cup Blind(c)]
  /\ UNCHANGED <<busVars, lastID, key, first, newest, got>>

\* The client reads the frame that carries e and remembers its id.
Deliver(c, e) ==
  /\ lastID' = [lastID EXCEPT ![c] = FrameID(e)]
  /\ first' = [first EXCEPT ![c] = IF @ = 0 THEN e.n ELSE @]
  /\ newest' = [newest EXCEPT ![c] = IF e.n > @ THEN e.n ELSE @]
  /\ got' = [got EXCEPT ![c] = @ \cup {e.n}]

WriteReplayed(c) ==
  /\ cst[c] = "replaying" /\ replay[c] # << >>
  /\ Deliver(c, Head(replay[c]))
  /\ replay' = [replay EXCEPT ![c] = Tail(@)]
  /\ UNCHANGED <<busVars, cst, key, excused>>

\* The backlog is written: subscribe to the bus for the live tail.
GoLive(c) ==
  /\ cst[c] = "replaying" /\ replay[c] = << >>
  /\ Subscribe
  /\ key' = [key EXCEPT ![c] = subSeq']
  /\ cst' = [cst EXCEPT ![c] = "live"]
  /\ UNCHANGED <<lastID, replay, first, newest, got, excused>>

WriteLive(c) ==
  /\ cst[c] = "live"
  /\ Receive(key[c])
  /\ Deliver(c, Head(ch[key[c]]))
  /\ UNCHANGED <<cst, replay, key, excused>>

\* The connection breaks, or the server's shutdown notice ends it; the
\* deferred cancel deregisters the handler.
Disconnect(c) ==
  /\ cst[c] \in {"replaying", "live"}
  /\ IF cst[c] = "live" THEN Cancel(key[c]) ELSE UNCHANGED busVars
  /\ cst' = [cst EXCEPT ![c] = "off"]
  /\ replay' = [replay EXCEPT ![c] = << >>]
  /\ key' = [key EXCEPT ![c] = 0]
  /\ UNCHANGED <<lastID, first, newest, got, excused>>

-----------------------------------------------------------------------------
(* The bus under the handlers. *)

\* A daemon crash cuts every connection; the clients live on.
CrashAll ==
  /\ Crash
  /\ cst' = [c \in Clients |-> IF cst[c] = "gone" THEN "gone" ELSE "off"]
  /\ replay' = [c \in Clients |-> << >>]
  /\ key' = [c \in Clients |-> 0]
  /\ UNCHANGED <<lastID, first, newest, got, excused>>

\* fanOut of an event while a handler has its backlog but no subscription yet.
FanOutPastHandlers ==
  /\ FanOut
  /\ excused' = [c \in Clients |->
       IF cst[c] = "replaying" THEN excused[c] \cup {<<"window", cur.n>>} ELSE excused[c]]
  /\ UNCHANGED <<cst, lastID, replay, key, first, newest, got>>

SendToHandler(k) ==
  /\ Send(k)
  /\ excused' = [c \in Clients |->
       IF key[c] = k /\ Len(ch[k]) >= SubscriberBuf THEN excused[c] \cup {<<"slow", cur.n>>} ELSE excused[c]]
  /\ UNCHANGED <<cst, lastID, replay, key, first, newest, got>>

OtherBusStep == BusInternal /\ UNCHANGED connVars

StreamNext ==
  \/ CrashAll \/ FanOutPastHandlers \/ OtherBusStep
  \/ \E k \in SubKeys : SendToHandler(k)
  \/ \E c \in Clients : Connect(c) \/ WriteReplayed(c) \/ GoLive(c) \/ WriteLive(c) \/ Disconnect(c)

StreamSpec == StreamInit /\ [][StreamNext]_streamVars

-----------------------------------------------------------------------------
(* Properties. *)

\* Every variable has its type, and a committed replay is within sseReplayLimit.
StreamTypeOK ==
  /\ TypeOK
  /\ cst \in [Clients -> {"off", "replaying", "live", "gone"}]
  /\ lastID \in [Clients -> {TransientID, NoID} \cup 1..MaxEvents]
  /\ \A c \in Clients : Len(replay[c]) <= ReplayLimit /\ \A i \in 1..Len(replay[c]) : replay[c][i] \in Event
  /\ key \in [Clients -> {0} \cup SubKeys]
  /\ first \in [Clients -> 0..MaxEvents]
  /\ newest \in [Clients -> 0..MaxEvents]
  /\ got \in [Clients -> SUBSET (1..MaxEvents)]
  /\ excused \in [Clients -> SUBSET ({"slow", "window", "transient"} \X (1..MaxEvents))]

\* The events still in the bucket that c skipped: newer than the first event it
\* received and older than the newest.
Skipped(c) ==
  {log[s].n : s \in {t \in DOMAIN log : first[c] < log[t].n /\ log[t].n < newest[c]}} \ got[c]

ExcusedFor(c, why) == {x[2] : x \in {y \in excused[c] : y[1] \in why}}

\* The next thing a client reads is never older than what it has read, except
\* for the one event whose fan-out the handler's Subscribe caught after its
\* backlog query had already returned it: that event arrives twice.  Replay and
\* live tail cannot interleave out of order.  (The types go with it.)
StreamInOrder ==
  /\ StreamTypeOK
  /\ \A c \in Clients :
    /\ replay[c] # << >> => newest[c] < Head(replay[c]).n
    /\ (cst[c] = "live" /\ ch[key[c]] # << >>) => newest[c] <= Head(ch[key[c]]).n

\* Everything a follower ever skips, over any number of reconnects, crashes and
\* prunes, has one of three causes: its channel was full, the event was fanned
\* out between its backlog query and its subscription, or it reconnected with
\* the id of a transient event.
SkipsAreExplained ==
  \A c \in Clients : Skipped(c) \subseteq ExcusedFor(c, {"slow", "window", "transient"})

=============================================================================
