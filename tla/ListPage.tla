------------------------------ MODULE ListPage ------------------------------
(***************************************************************************)
(* A list page of the web GUI against the daemon it lists.                 *)
(*                                                                         *)
(* The page keeps a query (a committed filter value, a page number, a page *)
(* size), and shows the answer that arrived LAST: useFetch numbers no      *)
(* request and cancels none, so answers overtake each other, an answer to  *)
(* a query the user has left may replace the right one, and a request sent *)
(* by a finished row operation repeats the query of the click.  The timer  *)
(* that repeats the current query is what corrects this.                   *)
(*                                                                         *)
(* One filter of the page is followed; which page and which filter is      *)
(* chosen in the initial state from the tables of GuiPages.  Items are     *)
(* numbers in the order the daemon lists them; the filter value "odd"      *)
(* keeps the odd ones, and "odd " is the same word typed with a space.     *)
(***************************************************************************)
EXTENDS GuiPages, Naturals, Sequences, FiniteSets

CONSTANTS
    PageNames,    \* pages to look at, a subset of DOMAIN Views
    Items,        \* what the daemon may hold, a set of numbers
    PerPages,     \* page sizes the pager offers
    DefaultPerPage,
    Slots,        \* bound on the requests in flight
    MaxEvents     \* bound on what the user, other clients and failures do

ASSUME ListPageAssumption ==
    /\ PageNames \subseteq DOMAIN Views
    /\ Items \subseteq Nat \ {0} /\ IsFiniteSet(Items)
    /\ PerPages \subseteq Nat \ {0} /\ DefaultPerPage \in PerPages
    /\ Slots \subseteq Nat
    /\ MaxEvents \in Nat

VARIABLES
    view,      \* [page, field]: the page and the class of the filter followed
    input,     \* what the filter's control shows
    filter,    \* the committed value
    timer,     \* the debounce timer is running
    page,      \* page number
    perPage,   \* page size
    paused,    \* the user paused the fetching (Logs)
    request,   \* request[s]: slot s of the requests in flight
    shown,     \* the answer on display: its query, its rows, the daemon's total
    selected,  \* ticked rows
    op,        \* the row or bulk operation under way
    alive,     \* what the daemon holds
    events     \* what is left of MaxEvents

pageVars == <<input, filter, timer, page, perPage, paused>>
vars == <<view, pageVars, request, shown, selected, op, alive, events>>

Values == {"", "odd", "odd "}
Trim(v) == IF v = "odd " THEN "odd" ELSE v

Largest(S) == CHOOSE n \in S : \A k \in S : k <= n
CeilDiv(a, b) == (a + b - 1) \div b
MaxPage == IF Items = {} THEN 1 ELSE Cardinality(Items)
Queries == [filter : Values, page : 1..MaxPage, perPage : PerPages]
Query == [filter |-> filter, page |-> page, perPage |-> perPage]

----------------------------------------------------------------------------
(* The daemon's answer to a query: the rows of the page, and the number of *)
(* all matching items.                                                     *)

Matching(f) == {i \in alive : Trim(f) = "odd" => i % 2 = 1}
Result(q) ==
    LET all == Matching(q.filter)
        rank(i) == Cardinality({j \in all : j <= i})
    IN [query |-> q,
        rows |-> {i \in all : (q.page - 1) * q.perPage < rank(i) /\ rank(i) <= q.page * q.perPage},
        total |-> Cardinality(all)]
Nothing == [query |-> [filter |-> "", page |-> 0, perPage |-> 0], rows |-> {}, total |-> 0]

Idle == [st |-> "free", answer |-> Nothing]
NoOp == [st |-> "idle", bulk |-> FALSE, targets |-> {}, query |-> Nothing.query]

----------------------------------------------------------------------------
(* load: requests are put into free slots.  While the page is paused       *)
(* fetchLogs returns before it asks for anything.                          *)

FreeSlots == {s \in Slots : request[s].st = "free"}
Sent(q) == [st |-> "sent", answer |-> [Nothing EXCEPT !.query = q]]
Send(queries) ==
    IF paused THEN UNCHANGED request
    ELSE /\ Len(queries) <= Cardinality(FreeSlots)
         /\ request' = [s \in Slots |->
                LET k == Cardinality({r \in FreeSlots : r <= s}) IN
                IF s \in FreeSlots /\ k <= Len(queries) THEN Sent(queries[k]) ELSE request[s]]
load(q) == Send(<<q>>)

\* A filter takes a new value: the render asks for the page that was open,
\* then the effect sets page 1 and the next render asks for that.
Commit(v) ==
    /\ filter' = v
    /\ page' = IF v = filter THEN page ELSE 1
    /\ IF v = filter THEN UNCHANGED request
       ELSE LET q == [Query EXCEPT !.filter = v]
            IN Send(IF page = 1 THEN <<q>> ELSE <<q, [q EXCEPT !.page = 1]>>)

\* The effect of an input's change: the timer starts anew.  Activity starts
\* none when the text is back at the committed value.
Debounce(v) == timer' = (view.page.trims \/ v # filter)

Event == events > 0 /\ events' = events - 1

Type(v) ==
    /\ view.field.debounced /\ v # input
    /\ Event
    /\ input' = v
    /\ Debounce(v)
    /\ UNCHANGED <<view, filter, page, perPage, paused, request, shown, selected, op, alive>>

\* 250 ms after the last keystroke.
DebounceFires ==
    /\ timer
    /\ timer' = FALSE
    /\ Commit(IF view.page.trims THEN Trim(input) ELSE input)
    /\ UNCHANGED <<view, input, perPage, paused, shown, selected, op, alive, events>>

Pick(v) ==
    /\ ~view.field.debounced /\ v \in {"", "odd"} \ {filter}
    /\ Event
    /\ input' = v
    /\ Commit(v)
    /\ UNCHANGED <<view, timer, perPage, paused, shown, selected, op, alive>>

\* "Clear all", offered while a filter is counted as active.
clearAllFilters ==
    /\ view.field.cleared /\ Trim(input) # ""
    /\ Event
    /\ input' = ""
    /\ IF view.field.debounced
       THEN /\ timer' = (view.page.trims \/ filter # "")
            /\ IF view.page.clearCommits THEN Commit("") ELSE UNCHANGED <<filter, page, request>>
       ELSE Commit("") /\ UNCHANGED timer
    /\ UNCHANGED <<view, perPage, paused, shown, selected, op, alive>>

----------------------------------------------------------------------------
(* PaginationControls works on the displayed total and the current page.   *)

PagerShown ==
    \/ view.page.pager = "rows" /\ shown.rows # {}
    \/ view.page.pager = "total" /\ shown.total > 0
TotalPages == Largest({1, CeilDiv(shown.total, perPage)})
PrevEnabled == PagerShown /\ page > 1
NextEnabled == PagerShown /\ page < TotalPages

GoTo(p) ==
    /\ Event
    /\ page' = p
    /\ load([Query EXCEPT !.page = p])
    /\ UNCHANGED <<view, input, filter, timer, perPage, paused, shown, selected, op, alive>>
Previous == PrevEnabled /\ GoTo(page - 1)
NextPage == NextEnabled /\ GoTo(page + 1)

SetPerPage(n) ==
    /\ PagerShown /\ n # perPage
    /\ Event
    /\ perPage' = n /\ page' = 1
    /\ load([Query EXCEPT !.page = 1, !.perPage = n])
    /\ UNCHANGED <<view, input, filter, timer, paused, shown, selected, op, alive>>

TogglePause ==
    /\ view.page.pausable
    /\ Event
    /\ paused' = ~paused
    /\ IF paused
       THEN \E s \in FreeSlots : (\A r \in FreeSlots : s <= r) /\ request' = [request EXCEPT ![s] = Sent(Query)]
       ELSE UNCHANGED request
    /\ UNCHANGED <<view, input, filter, timer, page, perPage, shown, selected, op, alive>>

----------------------------------------------------------------------------
(* The life of a request *)

\* A defect to detect: the timer keeps the page of the first render.
PollFirstPage ==
    /\ view.page.polls /\ ~paused /\ FreeSlots = Slots
    /\ load([Query EXCEPT !.page = 1])
    /\ UNCHANGED <<view, pageVars, shown, selected, op, alive, events>>

\* The interval of useFetch.  Bound: its request is sent while no other is
\* in flight, so that the slots are left to the user's requests.
Poll ==
    /\ view.page.polls /\ ~paused /\ FreeSlots = Slots
    /\ load(Query)
    /\ UNCHANGED <<view, pageVars, shown, selected, op, alive, events>>

\* The machine list also refreshes on every lifecycle event.
handleEvent ==
    /\ view.page.live
    /\ Event
    /\ load(Query)
    /\ UNCHANGED <<view, pageVars, shown, selected, op, alive>>

Answer(s) ==
    /\ request[s].st = "sent"
    /\ request' = [request EXCEPT ![s] = [st |-> "answered", answer |-> Result(@.answer.query)]]
    /\ UNCHANGED <<view, pageVars, shown, selected, op, alive, events>>

\* A defect to detect: only an empty answer unticks.
PruneOnlyOfEmpty(rows) == IF rows = {} THEN {} ELSE selected
\* Ticked rows that are no longer on display are unticked.
Prune(rows) == selected \cap rows

\* setData, whatever the current query is.
Deliver(s) ==
    /\ request[s].st = "answered"
    /\ request' = [request EXCEPT ![s] = Idle]
    /\ shown' = request[s].answer
    /\ selected' = Prune(request[s].answer.rows)
    /\ UNCHANGED <<view, pageVars, op, alive, events>>

\* The page keeps its rows and shows the error.
FailRequest(s) ==
    /\ request[s].st # "free"
    /\ Event
    /\ request' = [request EXCEPT ![s] = Idle]
    /\ UNCHANGED <<view, pageVars, shown, selected, op, alive>>

----------------------------------------------------------------------------
(* Selection, row operations and bulk operations *)

toggleOne(i) ==
    /\ view.page.bulk # "none" /\ i \in shown.rows
    /\ selected' = IF i \in selected THEN selected \ {i} ELSE selected \cup {i}
    /\ UNCHANGED <<view, pageVars, request, shown, op, alive, events>>
toggleAll ==
    /\ view.page.bulk # "none" /\ shown.rows # {}
    /\ selected' = IF selected = shown.rows THEN {} ELSE shown.rows
    /\ UNCHANGED <<view, pageVars, request, shown, op, alive, events>>

Begin(targets, bulk) ==
    /\ op.st = "idle"
    /\ Event
    /\ op' = [st |-> "running", bulk |-> bulk, targets |-> targets, query |-> Query]
    /\ UNCHANGED <<view, pageVars, request, shown, selected, alive>>

\* A row's button: an operation that leaves the row, or one that removes it.
RowOp(i) ==
    /\ i \in shown.rows
    /\ \/ view.page.ops.touch # {} /\ Begin({}, FALSE)
       \/ view.page.ops.remove # {} /\ Begin({i}, FALSE)

\* The bulk delete acts on what is ticked; another verb of the machine
\* list acts on the eligible part of it and removes nothing.
BulkDelete == view.page.bulk # "none" /\ selected # {} /\ Begin(selected, TRUE)
BulkVerb ==
    /\ view.page.bulk = "each" /\ selected # {}
    /\ \E verb \in DOMAIN VMListBulkOps : VMListBulkOps[verb] # "any"
    /\ Begin({}, TRUE)

\* The daemon carries out a part of the operation; of a bulk operation a
\* part may also fail alone.
OpStep(i) ==
    /\ op.st = "running" /\ i \in op.targets
    /\ op' = [op EXCEPT !.targets = @ \ {i}]
    /\ \/ alive' = alive \ {i} /\ events' = events
       \/ op.bulk /\ alive' = alive /\ Event
    /\ UNCHANGED <<view, pageVars, request, shown, selected>>

\* refresh is the one of the click: it repeats the query of that time.
OpDone ==
    /\ op.st = "running" /\ op.targets = {}
    /\ op' = NoOp
    /\ selected' = IF op.bulk THEN {} ELSE selected
    /\ load(op.query)
    /\ UNCHANGED <<view, pageVars, shown, alive, events>>

\* The request itself fails: nothing is refreshed and nothing unticked.
OpFails ==
    /\ op.st = "running" /\ Event /\ ~(op.bulk /\ view.page.bulk = "each")
    /\ op' = NoOp
    /\ UNCHANGED <<view, pageVars, request, shown, selected, alive>>

----------------------------------------------------------------------------
(* Another client changes what the daemon holds. *)

Change(i) ==
    /\ Event
    /\ alive' = IF i \in alive THEN alive \ {i} ELSE alive \cup {i}
    /\ UNCHANGED <<view, pageVars, request, shown, selected, op>>

(* The page is opened with filter v and page p of the URL.  Both renders   *)
(* of the first commit ask the daemon: the effect that resets the page     *)
(* runs on mount too, so p is asked for once and then left.                *)
Mounted(v, p, n) ==
    LET q == [filter |-> v, page |-> p, perPage |-> n] IN
    /\ input' = v /\ filter' = v /\ timer' = view.field.debounced /\ paused' = FALSE
    /\ page' = 1 /\ perPage' = n
    /\ request' = [s \in Slots |->
          IF \A t \in Slots : s <= t THEN Sent(q)
          ELSE IF p > 1 /\ Cardinality({t \in Slots : t <= s}) = 2 THEN Sent([q EXCEPT !.page = 1])
          ELSE Idle]
    /\ shown' = Nothing /\ selected' = {}

\* The browser reloads the page: requests and loops of the old document are
\* gone; of the operation under way the daemon may still see a part.
Reload ==
    /\ Event
    /\ Mounted(IF view.field.kept THEN filter ELSE "",
               IF view.page.urlPage THEN page ELSE 1,
               IF view.page.urlPage THEN perPage ELSE DefaultPerPage)
    /\ op' = NoOp
    /\ \E part \in SUBSET op.targets : alive' = alive \ part
    /\ UNCHANGED view

Init ==
    /\ view \in UNION {{[page |-> Views[n].page, field |-> c] : c \in Views[n].fields} : n \in PageNames}
    /\ input = "" /\ filter = "" /\ timer = view.field.debounced /\ paused = FALSE
    /\ page = 1 /\ perPage = DefaultPerPage
    /\ request = [s \in Slots |-> IF \A t \in Slots : s <= t THEN Sent(Query) ELSE Idle]
    /\ shown = Nothing /\ selected = {} /\ op = NoOp
    /\ alive = Items
    /\ events = MaxEvents

User ==
    \/ \E v \in Values : Type(v) \/ Pick(v)
    \/ clearAllFilters \/ Previous \/ NextPage \/ TogglePause \/ toggleAll \/ BulkDelete \/ BulkVerb \/ Reload
    \/ \E n \in PerPages : SetPerPage(n)
    \/ \E i \in Items : toggleOne(i) \/ RowOp(i)

Next ==
    \/ User
    \/ DebounceFires \/ Poll \/ handleEvent \/ OpDone \/ OpFails
    \/ \E s \in Slots : Answer(s) \/ Deliver(s) \/ FailRequest(s)
    \/ \E i \in Items : OpStep(i) \/ Change(i)

\* The browser runs its timers and its pending promises; the daemon answers
\* what it received.  Nothing is assumed of the user.  The two strong
\* conditions only undo the bound on the slots: neither a timer nor a
\* finished operation waits for other requests.
Fairness ==
    /\ SF_vars(DebounceFires) /\ SF_vars(OpDone) /\ WF_vars(Poll)
    /\ WF_vars(\E s \in Slots : Answer(s) \/ Deliver(s))
    /\ WF_vars(\E i \in Items : OpStep(i))

Spec == Init /\ [][Next]_vars
FairSpec == Spec /\ Fairness

----------------------------------------------------------------------------
(* Properties *)

(* Every variable has its type, and the page number stays between the first*)
(* and the last page there can be (the Previous and Next buttons of Pager).*)
TypeOK ==
    /\ input \in Values /\ filter \in Values /\ timer \in BOOLEAN /\ paused \in BOOLEAN
    /\ page \in 1..MaxPage /\ perPage \in PerPages
    /\ \A s \in Slots : /\ request[s].st \in {"free", "sent", "answered"}
                        /\ request[s].st = "free" \/ request[s].answer.query \in Queries
    /\ shown.rows \subseteq Items /\ shown.total \in 0..Cardinality(Items)
    /\ selected \subseteq Items /\ alive \subseteq Items
    /\ op.st \in {"idle", "running"} /\ op.targets \subseteq Items

(* Whatever answers arrive, and in whichever order, every ticked row is on *)
(* display: what a bulk delete is about to remove is what the user sees    *)
(* ticked.  (The types go with it.)                                        *)
SelectionVisible == TypeOK /\ selected \subseteq shown.rows

Fresh ==
    /\ filter = input \/ Trim(input) = filter
    /\ shown.query = Query
    /\ shown = Result(Query)

(* When the user, the other clients and the failures stop, every page that *)
(* polls comes to show the daemon's present answer to its present query    *)
(* and stays with it, whatever overtook whatever before; a paused log page *)
(* is exempt.  The run history of a schedule has no timer and is not       *)
(* covered.                                                                *)
Converges == <>[](view.page.polls /\ ~paused => Fresh)
=============================================================================
