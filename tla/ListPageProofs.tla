--------------------------- MODULE ListPageProofs ---------------------------
(***************************************************************************)
(* Proofs about ListPage, for every page of GuiPages, any finite set of    *)
(* items, any page sizes, any number of requests in flight and any number  *)
(* of things that users, other clients and failures do.                    *)
(*                                                                         *)
(* That what is ticked is on display is kept by the two places where the   *)
(* rows on display or the ticked rows change (Prune and the toggles).  The *)
(* page number is the harder part of the types: the pager computes its     *)
(* last page from the total of an answer that may be old, of another       *)
(* filter and of another page size, so the bound rests on what every       *)
(* request in flight carries.                                              *)
(***************************************************************************)
EXTENDS ListPage, FiniteSetTheorems, TLAPS

----------------------------------------------------------------------------
(* The inductive invariant. *)

Totals == 0..Cardinality(Items)
AnswerType == [query : Queries, rows : SUBSET Items, total : Totals]
RequestType == {Idle} \cup [st : {"sent", "answered"}, answer : AnswerType]
Operation == {NoOp} \cup [st : {"running"}, bulk : BOOLEAN, targets : SUBSET Items, query : Queries]

(* What the user controls; whether the filter is debounced is known.       *)
Controls ==
    /\ view.field.debounced \in BOOLEAN
    /\ input \in Values /\ filter \in Values /\ timer \in BOOLEAN /\ paused \in BOOLEAN
    /\ page \in 1..MaxPage /\ perPage \in PerPages

(* Every request asks for a page there can be, and no answer counts more   *)
(* than the daemon may hold.                                               *)
RequestsTyped == request \in [Slots -> RequestType]
DisplayTyped == shown.rows \in SUBSET Items /\ shown.total \in Totals
OperationTyped == op \in Operation
AliveTyped == alive \in SUBSET Items
Ticked == selected \subseteq shown.rows

Inv == Controls /\ RequestsTyped /\ DisplayTyped /\ OperationTyped /\ AliveTyped /\ Ticked

----------------------------------------------------------------------------
(* Counting: the pager and the daemon's answer. *)

(* A pager has no more pages than there are rows to page through.          *)
LEMMA FewPages == ASSUME NEW a \in Nat, NEW b \in Nat \ {0}
                  PROVE  CeilDiv(a, b) \in Nat /\ CeilDiv(a, b) <= a
<1> DEFINE q == (a + b - 1) \div b
<1>1. q \in Nat /\ b * q <= a + b - 1
  OBVIOUS
<1>2. ASSUME q > a PROVE FALSE
  <2>1. b * (a + 1) <= b * q
    BY <1>1, <1>2
  <2>2. b * (a + 1) = b * a + b
    OBVIOUS
  <2>3. b * a >= a
    OBVIOUS
  <2>4. QED
    BY <1>1, <2>1, <2>2, <2>3
<1>3. QED
  BY <1>1, <1>2 DEF CeilDiv

(* The larger of two numbers is one of them and not below the other.       *)
LEMMA LargestOfTwo == ASSUME NEW a \in Nat, NEW b \in Nat
                      PROVE  Largest({a, b}) \in {a, b} /\ a <= Largest({a, b}) /\ b <= Largest({a, b})
<1>1. \E n \in {a, b} : \A k \in {a, b} : k <= n
  <2>1. CASE a <= b
    BY <2>1
  <2>2. CASE b <= a
    BY <2>2
  <2>3. QED
    BY <2>1, <2>2
<1>2. QED
  BY <1>1 DEF Largest

(* What the daemon may hold is counted by a number.                        *)
LEMMA Counted == /\ Cardinality(Items) \in Nat
                 /\ \A S \in SUBSET Items : Cardinality(S) \in Totals
                 /\ MaxPage \in Nat \ {0}
                 /\ Cardinality(Items) <= MaxPage
<1>1. IsFiniteSet(Items)
  BY ListPageAssumption
<1>2. Cardinality(Items) \in Nat /\ (Items = {} <=> Cardinality(Items) = 0)
  BY <1>1, FS_CardinalityType, FS_EmptySet
<1>3. ASSUME NEW S \in SUBSET Items PROVE Cardinality(S) \in Totals
  <2>1. Cardinality(S) <= Cardinality(Items) /\ IsFiniteSet(S)
    BY <1>1, FS_Subset
  <2>2. Cardinality(S) \in Nat
    BY <2>1, FS_CardinalityType
  <2>3. QED
    BY <1>2, <2>1, <2>2 DEF Totals
<1>4. QED
  BY <1>2, <1>3 DEF MaxPage

(* The pager never offers a page that no list of the daemon could have,    *)
(* however old the total is that it counts with.                           *)
LEMMA PagerBounded == Controls /\ DisplayTyped => TotalPages \in 1..MaxPage
<1> SUFFICES ASSUME Controls, DisplayTyped PROVE TotalPages \in 1..MaxPage
  OBVIOUS
<1> DEFINE pages == CeilDiv(shown.total, perPage)
<1>1. shown.total \in Nat /\ shown.total <= Cardinality(Items)
  BY Counted DEF DisplayTyped, Totals
<1>2. perPage \in Nat \ {0}
  BY ListPageAssumption DEF Controls
<1>3. pages \in Nat /\ pages <= shown.total
  BY <1>1, <1>2, FewPages
<1>4. Largest({1, pages}) \in {1, pages} /\ 1 <= Largest({1, pages})
  BY <1>3, LargestOfTwo
<1>5. QED
  BY <1>1, <1>3, <1>4, Counted DEF TotalPages

(* The daemon's answer to a query is an answer.                            *)
LEMMA ResultTyped == ASSUME AliveTyped, NEW q \in Queries PROVE Result(q) \in AnswerType
<1>1. Matching(q.filter) \in SUBSET Items
  BY DEF AliveTyped, Matching
<1>2. Cardinality(Matching(q.filter)) \in Totals
  BY <1>1, Counted
<1>3. QED
  BY <1>1, <1>2 DEF Result, AnswerType

----------------------------------------------------------------------------
(* What is in flight. *)

(* A request that was sent carries its query and no answer.                *)
LEMMA SentTyped == ASSUME NEW q \in Queries PROVE Sent(q) \in RequestType
<1>1. {} \in SUBSET Items /\ 0 \in Totals
  BY Counted DEF Totals
<1>2. Sent(q).answer = [query |-> q, rows |-> {}, total |-> 0]
  BY DEF Sent, Nothing
<1>3. Sent(q) = [st |-> "sent", answer |-> Sent(q).answer]
  BY DEF Sent
<1>4. Sent(q).answer \in AnswerType
  BY <1>1, <1>2 DEF AnswerType
<1>5. QED
  BY <1>3, <1>4 DEF RequestType

(* The free slots are filled from the lowest, the first with query 1.      *)
LEMMA SlotRank == ASSUME NEW s \in FreeSlots
                  PROVE  Cardinality({r \in FreeSlots : r <= s}) \in Nat \ {0}
<1> DEFINE L == {r \in FreeSlots : r <= s}
<1>1. FreeSlots \subseteq Nat
  BY ListPageAssumption DEF FreeSlots
<1>2. L \subseteq 0..s /\ s \in L
  <2>1. s \in Nat
    BY <1>1
  <2>2. ASSUME NEW r \in L PROVE r \in Nat /\ r <= s
    BY <1>1
  <2>3. s \in FreeSlots /\ s <= s
    BY <2>1
  <2>4. s \in L
    BY <2>3
  <2>5. ASSUME NEW r \in L PROVE r \in 0..s
    <3>1. r \in Nat /\ r <= s
      BY <2>2
    <3>2. QED
      BY <2>1, <3>1
  <2>6. QED
    BY <2>4, <2>5
<1>3. IsFiniteSet(0..s)
  BY <1>1, FS_Interval
<1>4. IsFiniteSet(L)
  BY <1>2, <1>3, FS_Subset
<1>5. Cardinality(L) \in Nat /\ Cardinality(L) # 0
  BY <1>2, <1>4, FS_CardinalityType, FS_EmptySet
<1>6. QED
  BY <1>5

(* load puts well-formed queries into free slots and leaves the others.    *)
LEMMA SendTyped == ASSUME RequestsTyped, NEW qs \in Seq(Queries), Send(qs)
                   PROVE  RequestsTyped'
<1>1. CASE paused
  BY <1>1 DEF Send, RequestsTyped
<1>2. CASE ~paused
  <2> DEFINE rank(s) == Cardinality({r \in FreeSlots : r <= s})
             next(s) == IF s \in FreeSlots /\ rank(s) <= Len(qs) THEN Sent(qs[rank(s)]) ELSE request[s]
  <2>1. request' = [s \in Slots |-> next(s)]
    BY <1>2 DEF Send
  <2>2. ASSUME NEW s \in Slots PROVE next(s) \in RequestType
    <3>1. CASE s \in FreeSlots /\ rank(s) <= Len(qs)
      <4>1. rank(s) \in 1..Len(qs)
        BY <3>1, SlotRank
      <4>2. qs[rank(s)] \in Queries
        BY <4>1
      <4>3. Sent(qs[rank(s)]) \in RequestType
        BY <4>2, SentTyped
      <4>4. QED
        BY <3>1, <4>3
    <3>2. CASE ~(s \in FreeSlots /\ rank(s) <= Len(qs))
      <4>1. request[s] \in RequestType
        BY DEF RequestsTyped
      <4>2. next(s) = request[s]
        BY <3>2
      <4>3. QED
        BY <4>1, <4>2
    <3>3. QED
      BY <3>1, <3>2
  <2>3. QED
    BY <2>1, <2>2 DEF RequestsTyped
<1>3. QED
  BY <1>1, <1>2

LEMMA LoadTyped == ASSUME RequestsTyped, NEW q \in Queries, load(q) PROVE RequestsTyped'
<1>1. <<q>> \in Seq(Queries)
  OBVIOUS
<1>2. QED
  BY <1>1, SendTyped DEF load

(* The queries the page asks are queries.                                  *)
LEMMA QueryTyped == ASSUME Controls
                    PROVE  /\ Query \in Queries
                           /\ \A v \in Values : [Query EXCEPT !.filter = v] \in Queries
                           /\ \A p \in 1..MaxPage : [Query EXCEPT !.page = p] \in Queries
                           /\ \A n \in PerPages : [Query EXCEPT !.page = 1, !.perPage = n] \in Queries
<1>1. 1 \in 1..MaxPage
  BY Counted
<1>2. QED
  BY <1>1 DEF Controls, Query, Queries

(* A filter takes a new value.                                             *)
LEMMA CommitTyped == ASSUME Controls, RequestsTyped, NEW v \in Values, Commit(v)
                     PROVE  filter' \in Values /\ page' \in 1..MaxPage /\ RequestsTyped'
<1>1. 1 \in 1..MaxPage
  BY Counted
<1>2. filter' \in Values /\ page' \in 1..MaxPage
  BY <1>1 DEF Commit, Controls
<1>3. RequestsTyped'
  <2> DEFINE q == [Query EXCEPT !.filter = v]
             qs == IF page = 1 THEN <<q>> ELSE <<q, [q EXCEPT !.page = 1]>>
  <2>1. q \in Queries
    BY QueryTyped
  <2>2. [q EXCEPT !.page = 1] \in Queries
    BY <1>1, <2>1 DEF Queries
  <2>3. qs \in Seq(Queries)
    BY <2>1, <2>2
  <2>4. CASE v = filter
    BY <2>4 DEF Commit, RequestsTyped
  <2>5. CASE v # filter
    <3>1. Send(qs)
      BY <2>5 DEF Commit
    <3>2. QED
      BY <2>3, <3>1, SendTyped
  <2>6. QED
    BY <2>4, <2>5
<1>4. QED
  BY <1>2, <1>3

----------------------------------------------------------------------------
(* The initial states. *)

(* Of every filter of every page it is known whether it is debounced.      *)
LEMMA FieldsTyped == \A n \in DOMAIN Views : \A c \in Views[n].fields : c.debounced \in BOOLEAN
<1>1. ASSUME NEW A, NEW B, NEW C, NEW D, NEW c \in Classes(A, B, C, D) PROVE c.debounced \in BOOLEAN
  <2>1. PICK f \in A : c = [debounced |-> f \in B, kept |-> f \in C, cleared |-> f \in D]
    BY Zenon DEF Classes
  <2>2. c.debounced = (f \in B)
    BY <2>1, Zenon
  <2>3. (f \in B) \in BOOLEAN
    OBVIOUS
  <2>4. QED
    BY <2>2, <2>3, Zenon
<1>2. DOMAIN Views = {"vms", "images", "templates", "schedules", "runs", "webhooks", "activity",
                      "logs", "snapshots", "ports"}
  BY DEF Views
<1>3. ASSUME NEW n \in DOMAIN Views PROVE \E A, B, C, D : Views[n].fields = Classes(A, B, C, D)
  <2>1. CASE n \in {"vms", "images", "templates"}
    BY <2>1 DEF Views
  <2>2. CASE n \in {"schedules", "runs", "webhooks"}
    BY <2>2 DEF Views
  <2>3. CASE n \in {"activity", "logs", "snapshots", "ports"}
    BY <2>3 DEF Views
  <2>4. QED
    BY <1>2, <2>1, <2>2, <2>3
<1>4. ASSUME NEW n \in DOMAIN Views, NEW c \in Views[n].fields PROVE c.debounced \in BOOLEAN
  <2>1. PICK A, B, C, D : Views[n].fields = Classes(A, B, C, D)
    BY <1>3
  <2>2. QED
    BY <1>1, <2>1
<1>5. QED
  BY <1>4

LEMMA InvInit == Init => Inv
<1> SUFFICES ASSUME Init PROVE Inv
  OBVIOUS
<1>1. 1 \in 1..MaxPage /\ 0 \in Totals
  BY Counted DEF Totals
<1>2. view.field.debounced \in BOOLEAN
  <2>1. PICK n \in PageNames : \E c \in Views[n].fields : view = [page |-> Views[n].page, field |-> c]
    BY DEF Init
  <2>2. PICK c \in Views[n].fields : view = [page |-> Views[n].page, field |-> c]
    BY <2>1
  <2>3. c.debounced \in BOOLEAN
    BY FieldsTyped, ListPageAssumption
  <2>4. QED
    BY <2>2, <2>3
<1>3. Controls
  <2>1. timer = view.field.debounced /\ paused = FALSE
    BY Zenon DEF Init
  <2>2. timer \in BOOLEAN /\ paused \in BOOLEAN
    BY <1>2, <2>1, Zenon
  <2>3. input = "" /\ filter = "" /\ page = 1 /\ perPage = DefaultPerPage
    BY DEF Init
  <2>4. QED
    BY <1>1, <1>2, <2>2, <2>3, ListPageAssumption DEF Controls, Values
<1>4. Query \in Queries
  BY <1>3, QueryTyped
<1>5. RequestsTyped
  <2>1. Sent(Query) \in RequestType /\ Idle \in RequestType
    BY <1>4, SentTyped DEF RequestType
  <2>2. QED
    BY <2>1 DEF Init, RequestsTyped
<1>6. shown.rows = {} /\ shown.total = 0 /\ selected = {} /\ op = NoOp /\ alive = Items
  BY DEF Init, Nothing
<1>7. QED
  BY <1>1, <1>3, <1>5, <1>6 DEF Inv, DisplayTyped, OperationTyped, Operation, AliveTyped, Ticked

----------------------------------------------------------------------------
(* The filters. *)

LEMMA TypeKeeps == ASSUME Inv, NEW v \in Values, Type(v) PROVE Inv'
<1>1. timer' \in BOOLEAN
  BY DEF Type, Debounce
<1>2. Controls'
  BY <1>1 DEF Inv, Controls, Type, MaxPage
<1>3. QED
  BY <1>2 DEF Inv, Type, RequestsTyped, DisplayTyped, OperationTyped, AliveTyped, Ticked

LEMMA DebounceFiresKeeps == ASSUME Inv, DebounceFires PROVE Inv'
<1>1. PICK v \in Values : Commit(v)
  <2>1. Trim(input) \in Values /\ input \in Values
    BY DEF Inv, Controls, Trim, Values
  <2>2. QED
    BY <2>1 DEF DebounceFires
<1>2. filter' \in Values /\ page' \in 1..MaxPage /\ RequestsTyped'
  BY <1>1, CommitTyped DEF Inv
<1>3. Controls'
  BY <1>2 DEF Inv, Controls, DebounceFires
<1>4. QED
  BY <1>2, <1>3 DEF Inv, DebounceFires, DisplayTyped, OperationTyped, AliveTyped, Ticked

LEMMA PickKeeps == ASSUME Inv, NEW v \in Values, Pick(v) PROVE Inv'
<1>1. filter' \in Values /\ page' \in 1..MaxPage /\ RequestsTyped'
  BY CommitTyped DEF Inv, Pick
<1>2. Controls'
  BY <1>1 DEF Inv, Controls, Pick
<1>3. QED
  BY <1>1, <1>2 DEF Inv, Pick, DisplayTyped, OperationTyped, AliveTyped, Ticked

LEMMA ClearKeeps == ASSUME Inv, clearAllFilters PROVE Inv'
<1>1. "" \in Values
  BY DEF Values
<1>2. filter' \in Values /\ page' \in 1..MaxPage /\ RequestsTyped'
  <2>1. CASE Commit("")
    BY <1>1, <2>1, CommitTyped DEF Inv
  <2>2. CASE UNCHANGED <<filter, page, request>>
    BY <2>2 DEF Inv, Controls, RequestsTyped
  <2>3. QED
    BY <2>1, <2>2 DEF clearAllFilters
<1>3. timer' \in BOOLEAN
  BY DEF clearAllFilters, Inv, Controls
<1>4. Controls'
  BY <1>1, <1>2, <1>3 DEF Inv, Controls, clearAllFilters
<1>5. QED
  BY <1>2, <1>4 DEF Inv, clearAllFilters, DisplayTyped, OperationTyped, AliveTyped, Ticked

----------------------------------------------------------------------------
(* The pager and the pause. *)

LEMMA GoToKeeps == ASSUME Inv, NEW p \in 1..MaxPage, GoTo(p) PROVE Inv'
<1>1. RequestsTyped'
  BY QueryTyped, LoadTyped DEF Inv, GoTo
<1>2. Controls'
  BY DEF Inv, Controls, GoTo
<1>3. QED
  BY <1>1, <1>2 DEF Inv, GoTo, DisplayTyped, OperationTyped, AliveTyped, Ticked

LEMMA PreviousKeeps == ASSUME Inv, Previous PROVE Inv'
<1>1. page - 1 \in 1..MaxPage
  BY Counted DEF Inv, Controls, Previous, PrevEnabled
<1>2. QED
  BY <1>1, GoToKeeps DEF Previous

LEMMA NextPageKeeps == ASSUME Inv, NextPage PROVE Inv'
<1>1. TotalPages \in 1..MaxPage
  BY PagerBounded DEF Inv
<1>2. page + 1 \in 1..MaxPage
  BY <1>1, Counted DEF Inv, Controls, NextPage, NextEnabled
<1>3. QED
  BY <1>2, GoToKeeps DEF NextPage

LEMMA SetPerPageKeeps == ASSUME Inv, NEW n \in PerPages, SetPerPage(n) PROVE Inv'
<1>1. RequestsTyped'
  BY QueryTyped, LoadTyped DEF Inv, SetPerPage
<1>2. Controls'
  BY Counted DEF Inv, Controls, SetPerPage
<1>3. QED
  BY <1>1, <1>2 DEF Inv, SetPerPage, DisplayTyped, OperationTyped, AliveTyped, Ticked

LEMMA TogglePauseKeeps == ASSUME Inv, TogglePause PROVE Inv'
<1>1. RequestsTyped'
  <2>1. CASE UNCHANGED request
    BY <2>1 DEF Inv, RequestsTyped
  <2>2. CASE \E s \in FreeSlots : request' = [request EXCEPT ![s] = Sent(Query)]
    <3>1. Sent(Query) \in RequestType
      BY QueryTyped, SentTyped DEF Inv
    <3>2. QED
      BY <2>2, <3>1 DEF Inv, RequestsTyped, FreeSlots
  <2>3. QED
    BY <2>1, <2>2 DEF TogglePause
<1>2. Controls'
  BY DEF Inv, Controls, TogglePause
<1>3. QED
  BY <1>1, <1>2 DEF Inv, TogglePause, DisplayTyped, OperationTyped, AliveTyped, Ticked

----------------------------------------------------------------------------
(* The life of a request. *)

LEMMA PollKeeps == ASSUME Inv, Poll \/ handleEvent PROVE Inv'
<1>1. UNCHANGED <<view, pageVars, shown, selected, op, alive>> /\ load(Query)
  BY DEF Poll, handleEvent
<1>2. RequestsTyped'
  BY <1>1, QueryTyped, LoadTyped DEF Inv
<1>3. Controls'
  BY <1>1 DEF Inv, Controls, pageVars
<1>4. QED
  BY <1>1, <1>2, <1>3 DEF Inv, DisplayTyped, OperationTyped, AliveTyped, Ticked

(* A request that is not free carries a query and an answer.               *)
LEMMA InFlight == ASSUME RequestsTyped, NEW s \in Slots, request[s].st # "free"
                  PROVE  request[s].answer \in AnswerType
<1>1. request[s] \in RequestType
  BY DEF RequestsTyped
<1>2. Idle.st = "free"
  BY DEF Idle
<1>3. request[s] \in [st : {"sent", "answered"}, answer : AnswerType]
  BY <1>1, <1>2 DEF RequestType
<1>4. QED
  BY <1>3

LEMMA AnswerKeeps == ASSUME Inv, NEW s \in Slots, Answer(s) PROVE Inv'
<1>1. request[s].answer.query \in Queries
  BY InFlight DEF Inv, Answer, AnswerType
<1>2. Result(request[s].answer.query) \in AnswerType
  BY <1>1, ResultTyped DEF Inv
<1>3. [st |-> "answered", answer |-> Result(request[s].answer.query)] \in RequestType
  BY <1>2 DEF RequestType
<1>4. RequestsTyped'
  BY <1>3 DEF Inv, RequestsTyped, Answer
<1>5. Controls'
  BY DEF Inv, Controls, Answer, pageVars
<1>6. QED
  BY <1>4, <1>5 DEF Inv, Answer, DisplayTyped, OperationTyped, AliveTyped, Ticked

LEMMA SlotFreed == ASSUME RequestsTyped, NEW s \in Slots, request' = [request EXCEPT ![s] = Idle]
                   PROVE  RequestsTyped'
BY DEF RequestsTyped, RequestType

LEMMA DeliverKeeps == ASSUME Inv, NEW s \in Slots, Deliver(s) PROVE Inv'
<1>1. request[s].answer \in AnswerType
  BY InFlight DEF Inv, Deliver
<1>2. RequestsTyped'
  BY SlotFreed DEF Inv, Deliver
<1>3. DisplayTyped'
  BY <1>1 DEF Deliver, DisplayTyped, AnswerType
<1>4. Ticked'
  BY DEF Deliver, Prune, Ticked
<1>5. Controls'
  BY DEF Inv, Controls, Deliver, pageVars
<1>6. QED
  BY <1>2, <1>3, <1>4, <1>5 DEF Inv, Deliver, OperationTyped, AliveTyped

LEMMA FailRequestKeeps == ASSUME Inv, NEW s \in Slots, FailRequest(s) PROVE Inv'
<1>1. RequestsTyped'
  BY SlotFreed DEF Inv, FailRequest
<1>2. Controls'
  BY DEF Inv, Controls, FailRequest, pageVars
<1>3. QED
  BY <1>1, <1>2 DEF Inv, FailRequest, DisplayTyped, OperationTyped, AliveTyped, Ticked

----------------------------------------------------------------------------
(* Selection and operations. *)

LEMMA ToggleOneKeeps == ASSUME Inv, NEW i \in Items, toggleOne(i) PROVE Inv'
<1>1. Ticked'
  BY DEF Inv, Ticked, toggleOne
<1>2. Controls' /\ RequestsTyped'
  BY DEF Inv, Controls, RequestsTyped, toggleOne, pageVars
<1>3. QED
  BY <1>1, <1>2 DEF Inv, toggleOne, DisplayTyped, OperationTyped, AliveTyped

LEMMA ToggleAllKeeps == ASSUME Inv, toggleAll PROVE Inv'
<1>1. Ticked'
  BY DEF Inv, Ticked, toggleAll
<1>2. Controls' /\ RequestsTyped'
  BY DEF Inv, Controls, RequestsTyped, toggleAll, pageVars
<1>3. QED
  BY <1>1, <1>2 DEF Inv, toggleAll, DisplayTyped, OperationTyped, AliveTyped

LEMMA BeginKeeps == ASSUME Inv, NEW T \in SUBSET Items, NEW b \in BOOLEAN, Begin(T, b) PROVE Inv'
<1>1. [st |-> "running", bulk |-> b, targets |-> T, query |-> Query] \in Operation
  BY QueryTyped DEF Inv, Operation
<1>2. OperationTyped'
  BY <1>1 DEF Begin, OperationTyped
<1>3. Controls' /\ RequestsTyped'
  BY DEF Inv, Controls, RequestsTyped, Begin, pageVars
<1>4. QED
  BY <1>2, <1>3 DEF Inv, Begin, DisplayTyped, AliveTyped, Ticked

LEMMA BeginsKeep == ASSUME Inv, BulkDelete \/ BulkVerb \/ \E i \in Items : RowOp(i) PROVE Inv'
<1>1. PICK T \in SUBSET Items, b \in BOOLEAN : Begin(T, b)
  <2>1. CASE BulkDelete
    <3>1. selected \in SUBSET Items
      BY DEF Inv, Ticked, DisplayTyped
    <3>2. Begin(selected, TRUE)
      BY <2>1 DEF BulkDelete
    <3>3. QED
      BY <3>1, <3>2
  <2>2. CASE BulkVerb
    <3>1. Begin({}, TRUE)
      BY <2>2 DEF BulkVerb
    <3>2. QED
      BY <3>1
  <2>3. CASE \E i \in Items : RowOp(i)
    <3>1. PICK i \in Items : Begin({}, FALSE) \/ Begin({i}, FALSE)
      BY <2>3 DEF RowOp
    <3>2. {} \in SUBSET Items /\ {i} \in SUBSET Items
      OBVIOUS
    <3>3. QED
      BY <3>1, <3>2
  <2>4. QED
    BY <2>1, <2>2, <2>3
<1>2. QED
  BY <1>1, BeginKeeps

(* An operation under way has targets and the query of its click.          *)
LEMMA Running == ASSUME OperationTyped, op.st = "running"
                 PROVE  op \in [st : {"running"}, bulk : BOOLEAN, targets : SUBSET Items, query : Queries]
BY DEF OperationTyped, Operation, NoOp

LEMMA OpStepKeeps == ASSUME Inv, NEW i \in Items, OpStep(i) PROVE Inv'
<1>1. op \in [st : {"running"}, bulk : BOOLEAN, targets : SUBSET Items, query : Queries]
  BY Running DEF Inv, OpStep
<1>2. op' \in [st : {"running"}, bulk : BOOLEAN, targets : SUBSET Items, query : Queries]
  BY <1>1 DEF OpStep
<1>3. OperationTyped'
  BY <1>2 DEF OperationTyped, Operation
<1>4. AliveTyped'
  BY DEF Inv, AliveTyped, OpStep
<1>5. Controls' /\ RequestsTyped'
  BY DEF Inv, Controls, RequestsTyped, OpStep, pageVars
<1>6. QED
  BY <1>3, <1>4, <1>5 DEF Inv, OpStep, DisplayTyped, Ticked

LEMMA OpDoneKeeps == ASSUME Inv, OpDone PROVE Inv'
<1>1. op.query \in Queries
  BY Running DEF Inv, OpDone
<1>2. RequestsTyped'
  BY <1>1, LoadTyped DEF Inv, OpDone
<1>3. OperationTyped'
  BY DEF OpDone, OperationTyped, Operation
<1>4. Ticked'
  BY DEF Inv, Ticked, OpDone
<1>5. Controls'
  BY DEF Inv, Controls, OpDone, pageVars
<1>6. QED
  BY <1>2, <1>3, <1>4, <1>5 DEF Inv, OpDone, DisplayTyped, AliveTyped

LEMMA OpFailsKeeps == ASSUME Inv, OpFails PROVE Inv'
<1>1. OperationTyped'
  BY DEF OpFails, OperationTyped, Operation
<1>2. Controls' /\ RequestsTyped'
  BY DEF Inv, Controls, RequestsTyped, OpFails, pageVars
<1>3. QED
  BY <1>1, <1>2 DEF Inv, OpFails, DisplayTyped, AliveTyped, Ticked

LEMMA ChangeKeeps == ASSUME Inv, NEW i \in Items, Change(i) PROVE Inv'
<1>1. AliveTyped'
  BY DEF Inv, AliveTyped, Change
<1>2. Controls' /\ RequestsTyped'
  BY DEF Inv, Controls, RequestsTyped, Change, pageVars
<1>3. QED
  BY <1>1, <1>2 DEF Inv, Change, DisplayTyped, OperationTyped, Ticked

----------------------------------------------------------------------------
(* A reload, and all steps together. *)

LEMMA MountedKeeps == ASSUME NEW v \in Values, NEW p \in 1..MaxPage, NEW n \in PerPages, Mounted(v, p, n),
                             view.field.debounced \in BOOLEAN, UNCHANGED view
                      PROVE  Controls' /\ RequestsTyped' /\ DisplayTyped' /\ Ticked'
<1> DEFINE q == [filter |-> v, page |-> p, perPage |-> n]
<1>1. 1 \in 1..MaxPage /\ 0 \in Totals
  BY Counted DEF Totals
<1>2. q \in Queries /\ [q EXCEPT !.page = 1] \in Queries
  BY <1>1 DEF Queries
<1>3. timer' \in BOOLEAN /\ paused' \in BOOLEAN
  <2>1. timer' = view.field.debounced /\ paused' = FALSE
    BY Zenon DEF Mounted
  <2>2. QED
    BY <2>1, Zenon
<1>4. Controls'
  <2>1. input' = v /\ filter' = v /\ page' = 1 /\ perPage' = n
    BY DEF Mounted
  <2>2. QED
    BY <1>1, <1>3, <2>1 DEF Controls
<1>5. RequestsTyped'
  <2>1. Sent(q) \in RequestType /\ Sent([q EXCEPT !.page = 1]) \in RequestType /\ Idle \in RequestType
    BY <1>2, SentTyped DEF RequestType
  <2>2. QED
    BY <2>1 DEF Mounted, RequestsTyped
<1>6. shown'.rows = {} /\ shown'.total = 0 /\ selected' = {}
  BY DEF Mounted, Nothing
<1>7. QED
  BY <1>1, <1>4, <1>5, <1>6 DEF DisplayTyped, Ticked

LEMMA ReloadKeeps == ASSUME Inv, Reload PROVE Inv'
<1>1. 1 \in 1..MaxPage /\ "" \in Values /\ DefaultPerPage \in PerPages
  BY Counted, ListPageAssumption DEF Values
<1>2. PICK v \in Values, p \in 1..MaxPage, n \in PerPages : Mounted(v, p, n)
  <2> DEFINE v == IF view.field.kept THEN filter ELSE ""
             p == IF view.page.urlPage THEN page ELSE 1
             n == IF view.page.urlPage THEN perPage ELSE DefaultPerPage
  <2>1. v \in Values /\ p \in 1..MaxPage /\ n \in PerPages
    BY <1>1 DEF Inv, Controls
  <2>2. Mounted(v, p, n)
    BY DEF Reload
  <2>3. QED
    BY <2>1, <2>2
<1>3. Controls' /\ RequestsTyped' /\ DisplayTyped' /\ Ticked'
  BY <1>2, MountedKeeps DEF Inv, Controls, Reload
<1>4. OperationTyped' /\ AliveTyped'
  BY DEF Inv, Reload, OperationTyped, Operation, AliveTyped
<1>5. QED
  BY <1>3, <1>4 DEF Inv

(* Whatever the user, the daemon, the other clients and the timers do, the *)
(* invariant is kept.                                                      *)
LEMMA InvStep == Inv /\ [Next]_vars => Inv'
<1> SUFFICES ASSUME Inv, [Next]_vars PROVE Inv'
  OBVIOUS
<1>1. CASE User
  BY <1>1, TypeKeeps, PickKeeps, ClearKeeps, PreviousKeeps, NextPageKeeps, TogglePauseKeeps,
     ToggleAllKeeps, BeginsKeep, ReloadKeeps, SetPerPageKeeps, ToggleOneKeeps DEF User
<1>2. CASE DebounceFires \/ Poll \/ handleEvent \/ OpDone \/ OpFails
  BY <1>2, DebounceFiresKeeps, PollKeeps, OpDoneKeeps, OpFailsKeeps
<1>3. CASE \E s \in Slots : Answer(s) \/ Deliver(s) \/ FailRequest(s)
  BY <1>3, AnswerKeeps, DeliverKeeps, FailRequestKeeps
<1>4. CASE \E i \in Items : OpStep(i) \/ Change(i)
  BY <1>4, OpStepKeeps, ChangeKeeps
<1>5. CASE UNCHANGED vars
  BY <1>5 DEF vars, pageVars, Inv, Controls, RequestsTyped, DisplayTyped, OperationTyped, AliveTyped, Ticked
<1>6. QED
  BY <1>1, <1>2, <1>3, <1>4, <1>5 DEF Next

LEMMA InvAlways == Spec => []Inv
<1>1. QED
  BY InvInit, InvStep, PTL DEF Spec

(* Every ticked row is on display, whatever answers arrive in whichever    *)
(* order, on every page of the GUI; and no pager, however old its total,   *)
(* leads to a page that does not exist (toggleOne, toggleAll, the effect   *)
(* that prunes the selection, PaginationControls).                         *)
THEOREM TickedIsVisible == Spec => []SelectionVisible
<1>1. Inv => SelectionVisible
  <2> SUFFICES ASSUME Inv PROVE SelectionVisible
    OBVIOUS
  <2>1. ASSUME NEW s \in Slots
        PROVE  /\ request[s].st \in {"free", "sent", "answered"}
               /\ request[s].st = "free" \/ request[s].answer.query \in Queries
    <3>1. request[s] \in RequestType
      BY DEF Inv, RequestsTyped
    <3>2. QED
      BY <3>1 DEF RequestType, Idle, AnswerType
  <2>2. op.st \in {"idle", "running"} /\ op.targets \subseteq Items
    BY DEF Inv, OperationTyped, Operation, NoOp
  <2>3. TypeOK
    BY <2>1, <2>2 DEF Inv, Controls, DisplayTyped, Totals, AliveTyped, Ticked, TypeOK
  <2>4. QED
    BY <2>3 DEF Inv, Ticked, SelectionVisible
<1>2. QED
  BY <1>1, InvAlways, PTL

(* A bulk delete begins with rows that are on display at that moment and   *)
(* with no other: what it removes is what its user saw ticked              *)
(* (handleBulkDelete).                                                     *)
DeletesWhatIsShown == [][BulkDelete => op'.targets \subseteq shown.rows]_vars

(* Every bulk delete of every run of a list page is one of those           *)
(* (handleBulkDelete).                                                     *)
THEOREM BulkDeletesAreVisible == Spec => DeletesWhatIsShown
<1>1. Inv => (BulkDelete => op'.targets \subseteq shown.rows)
  BY DEF Inv, Ticked, BulkDelete, Begin
<1>2. Inv /\ [Next]_vars => [BulkDelete => op'.targets \subseteq shown.rows]_vars
  BY <1>1
<1>3. QED
  BY <1>2, InvAlways, PTL DEF Spec, DeletesWhatIsShown
=============================================================================
