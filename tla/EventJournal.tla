---------------------------- MODULE EventJournal ----------------------------
(***************************************************************************)
(* What the event bus promises its readers, whatever goroutines, full      *)
(* channels, retention and restarts do: a journal with subscribers.        *)
(*                                                                         *)
(* Events are numbered in the order of publication.  One after the other,  *)
(* each is recorded in the journal, or not if that fails, and then offered *)
(* to the readers: none is recorded later than it is offered, and none     *)
(* twice.  The journal is cut only at its old end, and nothing in it is    *)
(* ever rewritten.  A reader gets what is offered after it joined, in      *)
(* order and at most once, and all of it unless it has been slow.          *)
(***************************************************************************)
EXTENDS Naturals

CONSTANT Readers

VARIABLES
    sent,      \* the number of the last event offered, or lost in a restart
    stage,     \* whether the next event is "recorded" or not ("open")
    top,       \* the journal's last key
    kept,      \* the journal: key -> event number
    members,   \* readers that have joined
    pos,       \* pos[r]: the last event r got, or that was offered when it joined
    lossy      \* members that have missed an event

journalVars == <<sent, stage, top, kept, members, pos, lossy>>

Init ==
    /\ sent = 0 /\ stage = "open" /\ top = 0 /\ kept = << >>
    /\ members = {} /\ pos = [r \in Readers |-> 0] /\ lossy = {}

Record ==
    /\ stage = "open" /\ stage' = "recorded"
    /\ top' = top + 1
    /\ kept' = [k \in DOMAIN kept \cup {top + 1} |-> IF k = top + 1 THEN sent + 1 ELSE kept[k]]
    /\ UNCHANGED <<sent, members, pos, lossy>>

OfferNext ==
    /\ sent' = sent + 1 /\ stage' = "open"
    /\ UNCHANGED <<top, kept, members, pos, lossy>>

\* Retention keeps an end piece of the journal.
Trim ==
    /\ \E S \in SUBSET DOMAIN kept :
          /\ \A s \in S : \A t \in DOMAIN kept : s < t => t \in S
          /\ kept' = [s \in S |-> kept[s]]
    /\ UNCHANGED <<sent, stage, top, members, pos, lossy>>

Join(r) ==
    /\ r \notin members /\ members' = members \cup {r}
    /\ pos' = [pos EXCEPT ![r] = sent]
    /\ UNCHANGED <<sent, stage, top, kept, lossy>>

Lose(r) ==
    /\ r \in members /\ lossy' = lossy \cup {r}
    /\ UNCHANGED <<sent, stage, top, kept, members, pos>>

Get(r) ==
    /\ r \in members
    /\ \E n \in (pos[r] + 1)..sent :
          /\ r \notin lossy => n = pos[r] + 1
          /\ pos' = [pos EXCEPT ![r] = n]
    /\ UNCHANGED <<sent, stage, top, kept, members, lossy>>

Leave(r) ==
    /\ r \in members /\ members' = members \ {r} /\ lossy' = lossy \ {r}
    /\ UNCHANGED <<sent, stage, top, kept, pos>>

\* The journal survives; the readers and what was not yet offered do not.
Restart ==
    /\ sent' >= sent /\ stage' = "open"
    /\ members' = {} /\ pos' = [r \in Readers |-> 0] /\ lossy' = {}
    /\ UNCHANGED <<top, kept>>

Next ==
    \/ Record \/ OfferNext \/ Trim \/ Restart
    \/ \E r \in Readers : Join(r) \/ Lose(r) \/ Get(r) \/ Leave(r)

Spec == Init /\ [][Next]_journalVars
=============================================================================
