---------------------------- MODULE DialogsProofs ----------------------------
(***************************************************************************)
(* Proofs about Dialogs, for every dialog of the table, any number of      *)
(* rows, submissions in flight and steps.                                  *)
(*                                                                         *)
(* What is sent follows from what the open form holds: it differs from the *)
(* captured object only where the user typed (Untouched), and holds what   *)
(* was typed last (Shown).  The button follows from whose submissions are  *)
(* in flight: one of the mounted component disables it (Busy), and it is   *)
(* disabled only while there is one (Waiting), whether the dialog is open  *)
(* or not, which is why the next opening may rely on it.                   *)
(***************************************************************************)
EXTENDS Dialogs, TLAPS

----------------------------------------------------------------------------
(* The inductive invariant. *)

Values == [Fields -> 0..2]
\* Values for some of the fields.
Partial == UNION {[D -> 0..2] : D \in SUBSET Fields}
Submission ==
    [st : {"none", "sent", "applied"}, object : Objects \cup {NoObject}, patch : Partial,
     typed : Partial, instance : Nat]

Shapes ==
    /\ kind \in DialogTable
    /\ server \in [Objects -> Values] /\ copy \in [Objects -> Values]
    /\ target \in Objects \cup {NoObject} /\ form \in Values /\ base \in Values
    /\ typed \in Partial /\ done \in BOOLEAN /\ saving \in BOOLEAN
Counts == instance \in Nat /\ steps \in Nat /\ instance + steps <= MaxSteps /\ streams \subseteq 0..instance
Subs ==
    /\ sub \in [Slots -> Submission]
    /\ \A s \in Slots : sub[s].instance <= instance
    /\ \A s \in Slots : InFlight(s) => sub[s].object \in Objects /\ DOMAIN sub[s].patch # {}
Types == Shapes /\ Counts /\ Subs

\* Only what was typed differs from the object the dialog was opened with.
Untouched ==
    kind.base = "captured" /\ target # NoObject => \A f \in Fields : form[f] # base[f] => f \in DOMAIN typed
\* The form shows what was typed last.
Shown == ~kind.polled => \A f \in DOMAIN typed : form[f] = typed[f]
\* A submission of the mounted component disables its button.
Busy == kind.flag = "kept" => \A s \in Slots : InFlight(s) /\ sub[s].instance = instance => saving
\* A disabled button has a submission, also in a dialog that is closed.
Waiting == saving => \E s \in Slots : InFlight(s) /\ (kind.flag # "reset" => sub[s].instance = instance)
Single ==
    kind.flag = "kept" => \A s, t \in Slots : InFlight(s) /\ InFlight(t) /\ s # t => sub[s].instance # sub[t].instance

DialogInv ==
    Types /\ Untouched /\ UntouchedNotSent /\ Shown /\ TypedIsSent /\ Busy /\ Single /\ Waiting /\ StreamsOwned

----------------------------------------------------------------------------
(* The table, and the values of a form. *)

\* What the rows of the table have in common.
Common(k) ==
    /\ k.sends \subseteq Fields
    /\ k.base = "captured" => k.onOpen = "base" /\ ~k.polled
    /\ k.detail \in BOOLEAN /\ k.progress \in BOOLEAN /\ k.stays \in BOOLEAN /\ k.polled \in BOOLEAN

LEMMA TableFacts ==
    ASSUME NEW k \in DialogTable
    PROVE  Common(k)
<1>1. ASSUME NEW b, NEW sends \in SUBSET Fields, NEW idle, NEW flag, NEW detail \in BOOLEAN
      PROVE  Common(Edit(b, sends, idle, flag, detail))
  BY DEF Common, Edit
<1>2. ASSUME NEW onOpen, NEW flag, NEW polled \in BOOLEAN, NEW detail \in BOOLEAN, NEW progress \in BOOLEAN
      PROVE  Common(Create(onOpen, flag, polled, detail, progress))
  BY DEF Common, Create
<1>3. Common(ExportImageModal)
  BY DEF Common, ExportImageModal, Create
<1>4. {} \in SUBSET Fields /\ {"f"} \in SUBSET Fields /\ Fields \in SUBSET Fields
  BY DEF Fields
<1>5. QED
  BY <1>1, <1>2, <1>3, <1>4
  DEF DialogTable, EditVMModal, EditSnapshotModal, EditPortModal, EditImageModal, EditTemplateModal,
      EditWebhookModal, EditScheduleModal, CreateVMModal, CreateTemplateModal, UploadImageModal,
      AddWebhookModal, AddScheduleModal, CreateSnapshotModal, AddPortModal, CloneVMModal, MoveDiskModal

LEMMA EmptyValues ==
    /\ Empty \in Values
    /\ <<>> \in Partial /\ DOMAIN <<>> = {}
    /\ NoSub \in Submission /\ NoSub.st = "none" /\ NoSub.instance = 0 /\ DOMAIN NoSub.patch = {}
<1>1. Empty \in Values
  BY DEF Empty, Values
<1>2. <<>> \in Partial /\ DOMAIN <<>> = {}
  <2>1. <<>> \in [{} -> 0..2] /\ DOMAIN <<>> = {} /\ {} \in SUBSET Fields
    OBVIOUS
  <2>2. QED
    BY <2>1 DEF Partial
<1>3. QED
  BY <1>1, <1>2 DEF NoSub, Submission

\* A value typed in is one more of the partial values.
LEMMA TypedValues ==
    ASSUME NEW t \in Partial, NEW f \in Fields
    PROVE  LET u == [g \in DOMAIN t \cup {f} |-> IF g = f THEN 2 ELSE t[g]] IN
           u \in Partial /\ DOMAIN u = DOMAIN t \cup {f} /\ DOMAIN t \subseteq Fields
<1>1. PICK D \in SUBSET Fields : t \in [D -> 0..2]
  BY DEF Partial
<1>2. DOMAIN t = D
  BY <1>1
<1>3. [g \in D \cup {f} |-> IF g = f THEN 2 ELSE t[g]] \in [D \cup {f} -> 0..2]
  BY <1>1
<1>4. QED
  BY <1>1, <1>2, <1>3 DEF Partial

\* A patch holds the form's values of the fields it is made of.
LEMMA PatchValues ==
    ASSUME Types
    PROVE  /\ Patch \in Partial
           /\ \A f \in DOMAIN Patch : Patch[f] = form[f]
           /\ kind.base = "captured" /\ kind.sends = {} => DOMAIN Patch = {f \in Fields : form[f] # base[f]}
<1>1. Difference \cup kind.sends \subseteq Fields
  BY TableFacts DEF Types, Shapes, Common, Difference
<1>2. Patch \in [Difference \cup kind.sends -> 0..2]
  BY <1>1 DEF Types, Shapes, Patch, Values
<1>3. kind.base = "captured" => Difference = {f \in Fields : form[f] # base[f]}
  BY DEF Difference
<1>4. QED
  BY <1>1, <1>2, <1>3 DEF Patch, Partial

----------------------------------------------------------------------------
(* Types. *)

LEMMA InitTypes == DialogInit => Types
<1> SUFFICES ASSUME DialogInit PROVE Types
  OBVIOUS
<1>1. Shapes
  BY EmptyValues, KindsAssumption DEF DialogInit, Shapes
<1>2. Counts
  BY DialogsAssumption DEF DialogInit, Counts
<1>3. Subs
  BY EmptyValues DEF DialogInit, Subs, InFlight
<1>4. QED
  BY <1>1, <1>2, <1>3 DEF Types

LEMMA SubsSame ==
    ASSUME Types, UNCHANGED sub, instance' \in Nat, instance <= instance'
    PROVE  Subs'
BY DEF Types, Subs, Counts, InFlight, Submission

\* One submission is replaced.
LEMMA SubsChange ==
    ASSUME Types, NEW s \in Slots, NEW w \in Submission, sub' = [sub EXCEPT ![s] = w], instance' = instance,
           w.instance <= instance, w.st # "none" => w.object \in Objects /\ DOMAIN w.patch # {}
    PROVE  Subs' /\ \A r \in Slots : sub'[r] = IF r = s THEN w ELSE sub[r]
<1>1. \A r \in Slots : sub'[r] = IF r = s THEN w ELSE sub[r]
  BY DEF Types, Subs
<1>2. QED
  BY <1>1 DEF Types, Subs, InFlight

\* The user or a failure uses up a step; a mounting takes one too.
LEMMA CountsKept ==
    ASSUME Types, (Step /\ instance' \in {instance, instance + 1}) \/ (UNCHANGED <<steps, instance>>),
           streams' \subseteq streams \cup {instance}
    PROVE  Counts' /\ instance' \in Nat /\ instance <= instance'
<1>1. streams' \subseteq 0..instance' /\ instance' \in Nat /\ instance <= instance'
  BY DEF Types, Counts
<1>2. steps' \in Nat /\ instance' + steps' <= MaxSteps
  BY DialogsAssumption DEF Types, Counts, Step
<1>3. QED
  BY <1>1, <1>2 DEF Counts

\* Keeps the object typed.
LEMMA Applied ==
    ASSUME NEW p \in Partial, NEW v \in Values
    PROVE  [f \in Fields |-> IF f \in DOMAIN p THEN p[f] ELSE v[f]] \in Values
<1>1. PICK D \in SUBSET Fields : p \in [D -> 0..2]
  BY DEF Partial
<1>2. QED
  BY <1>1 DEF Values

LEMMA NextTypes ==
    ASSUME Types, DialogNext
    PROVE  Types'
<1>1. Common(kind)
  BY TableFacts DEF Types, Shapes
<1>2. ASSUME NEW o \in Rows, Open(o) PROVE Types'
  <2>1. o \in Objects
    BY <1>2, DialogsAssumption DEF Rows
  <2>2. form' \in Values /\ typed' \in Partial /\ saving' \in BOOLEAN
    BY <1>2, <2>1, EmptyValues DEF Open, Fresh, Types, Shapes
  <2>3. Shapes'
    BY <1>2, <2>1, <2>2 DEF Open, Types, Shapes
  <2>4. Counts' /\ Subs'
    BY <1>2, CountsKept, SubsSame DEF Open
  <2>5. QED
    BY <2>3, <2>4 DEF Types
<1>3. ASSUME NEW f \in Fields, Type(f) PROVE Types'
  <2>1. typed' \in Partial
    BY <1>3, TypedValues DEF Type, Types, Shapes
  <2>2. form' \in Values
    BY <1>3 DEF Type, Types, Shapes, Values
  <2>3. Shapes'
    BY <1>3, <2>1, <2>2 DEF Type, Types, Shapes
  <2>4. Counts' /\ Subs'
    BY <1>3, CountsKept, SubsSame DEF Type
  <2>5. QED
    BY <2>3, <2>4 DEF Types
<1>4. CASE Close
  <2>1. Shapes'
    BY <1>4 DEF Close, Types, Shapes
  <2>2. Counts' /\ Subs'
    BY <1>4, CountsKept, SubsSame DEF Close
  <2>3. QED
    BY <2>1, <2>2 DEF Types
<1>5. CASE SubmitNothing
  <2>1. Shapes'
    BY <1>5 DEF SubmitNothing, Types, Shapes
  <2>2. Counts' /\ Subs'
    BY <1>5, CountsKept, SubsSame DEF SubmitNothing
  <2>3. QED
    BY <2>1, <2>2 DEF Types
<1>6. CASE Refresh
  <2>1. Shapes'
    BY <1>6, EmptyValues DEF Refresh, Types, Shapes
  <2>2. Counts' /\ Subs'
    BY <1>6, CountsKept, SubsSame DEF Refresh
  <2>3. QED
    BY <2>1, <2>2 DEF Types
<1>7. CASE PollFails
  <2>1. target' \in Objects \cup {NoObject}
    BY <1>7 DEF PollFails, Types, Shapes
  <2>2. form' \in Values
    BY <1>7, <2>1, EmptyValues DEF PollFails, Types, Shapes
  <2>3. Shapes'
    BY <1>7, <2>1, <2>2, EmptyValues DEF PollFails, Types, Shapes
  <2>4. Counts' /\ Subs'
    BY <1>7, CountsKept, SubsSame DEF PollFails
  <2>5. QED
    BY <2>3, <2>4 DEF Types
<1>8. ASSUME NEW s \in Slots, Submit(s) PROVE Types'
  <2> DEFINE w == [st |-> "sent", object |-> target, patch |-> Patch, typed |-> typed, instance |-> instance]
  <2>1. w \in Submission /\ w.instance = instance /\ w.object = target /\ w.patch = Patch
    BY PatchValues DEF Types, Shapes, Counts, Submission
  <2>2. sub' = [sub EXCEPT ![s] = w] /\ target \in Objects /\ DOMAIN Patch # {} /\ instance' = instance
    BY <1>8 DEF Submit, Types, Shapes
  <2> HIDE DEF w
  <2>3. Subs'
    <3>1. w.object \in Objects /\ DOMAIN w.patch # {}
      BY <2>1, <2>2, Zenon
    <3>2. w.instance <= instance
      BY <2>1 DEF Types, Counts
    <3>3. QED
      BY <2>1, <2>2, <3>1, <3>2, SubsChange
  <2>4. Shapes'
    BY <1>8 DEF Submit, Types, Shapes
  <2>5. Counts'
    BY <1>8, CountsKept DEF Submit
  <2>6. QED
    BY <2>3, <2>4, <2>5 DEF Types
<1>9. ASSUME NEW s \in Slots, Apply(s) PROVE Types'
  <2> DEFINE w == [sub[s] EXCEPT !.st = "applied"]
  <2>1. sub[s] \in Submission /\ sub[s].object \in Objects /\ DOMAIN sub[s].patch # {} /\ sub[s].instance <= instance
    BY <1>9 DEF Apply, Types, Subs, InFlight
  <2>2. w \in Submission /\ w.instance = sub[s].instance /\ w.object = sub[s].object /\ w.patch = sub[s].patch
    BY <2>1 DEF Submission
  <2>3. sub' = [sub EXCEPT ![s] = w] /\ instance' = instance
    BY <1>9 DEF Apply
  <2> HIDE DEF w
  <2>4. Subs'
    BY <2>1, <2>2, <2>3, SubsChange
  <2>5. server' \in [Objects -> Values]
    <3>1. sub[s].patch \in Partial /\ server[sub[s].object] \in Values
      BY <2>1 DEF Types, Shapes, Submission
    <3>2. [f \in Fields |-> IF f \in DOMAIN sub[s].patch THEN sub[s].patch[f] ELSE server[sub[s].object][f]] \in Values
      BY <3>1, Applied
    <3>3. QED
      BY <1>9, <2>1, <3>2 DEF Apply, Types, Shapes
  <2>6. Shapes'
    BY <1>9, <2>5 DEF Apply, Types, Shapes
  <2>7. Counts'
    BY <1>9, CountsKept DEF Apply
  <2>8. QED
    BY <2>4, <2>6, <2>7 DEF Types
<1>10. ASSUME NEW s \in Slots, Done(s) \/ Reject(s) PROVE Types'
  <2>1. Subs'
    BY <1>10, EmptyValues, SubsChange DEF Done, Reject, Types, Counts
  <2>2. saving' \in BOOLEAN /\ typed' \in Partial /\ form' \in Values /\ done' \in BOOLEAN
    BY <1>1, <1>10, EmptyValues DEF Done, Reject, Settle, Types, Shapes, Common
  <2>3. copy' \in [Objects -> Values] /\ target' \in Objects \cup {NoObject}
    BY <1>10 DEF Done, Reject, Types, Shapes
  <2>4. Shapes'
    BY <1>10, <2>2, <2>3 DEF Done, Reject, Types, Shapes
  <2>5. Counts'
    BY <1>10, CountsKept DEF Done, Reject
  <2>6. QED
    BY <2>1, <2>4, <2>5 DEF Types
<1>11. ASSUME NEW o \in Rows, NEW f \in Fields, OtherClient(o, f) PROVE Types'
  <2>1. o \in Objects
    BY <1>11, DialogsAssumption DEF Rows
  <2>2. [server[o] EXCEPT ![f] = 1] \in Values
    BY <2>1 DEF Types, Shapes, Values
  <2>3. server' = [server EXCEPT ![o] = [server[o] EXCEPT ![f] = 1]]
    BY <1>11 DEF OtherClient
  <2>4. Shapes'
    BY <1>11, <2>1, <2>2, <2>3 DEF OtherClient, Types, Shapes
  <2>5. Counts' /\ Subs'
    BY <1>11, CountsKept, SubsSame DEF OtherClient
  <2>6. QED
    BY <2>4, <2>5 DEF Types
<1>12. QED
  BY <1>2, <1>3, <1>4, <1>5, <1>6, <1>7, <1>8, <1>9, <1>10, <1>11 DEF DialogNext

----------------------------------------------------------------------------
(* What is sent. *)

\* What a step does to the submissions: one is put in place, carried out or
\* answered, and the others stay.
SubStep ==
    \/ UNCHANGED sub
    \/ \E s \in Slots :
          /\ \A r \in Slots \ {s} : sub'[r] = sub[r]
          /\ \/ InFlight(s) /\ sub'[s] = NoSub
             \/ InFlight(s) /\ InFlight(s)' /\ sub'[s].patch = sub[s].patch /\ sub'[s].typed = sub[s].typed
             \/ /\ ~InFlight(s) /\ InFlight(s)' /\ target # NoObject
                /\ sub'[s].patch = Patch /\ sub'[s].typed = typed

LEMMA SubSteps ==
    ASSUME Types, DialogNext
    PROVE  SubStep /\ UNCHANGED kind
<1>1. ASSUME NEW s \in Slots, Submit(s) PROVE SubStep /\ UNCHANGED kind
  BY <1>1 DEF Submit, SubStep, InFlight, Types, Subs
<1>2. ASSUME NEW s \in Slots, Apply(s) PROVE SubStep /\ UNCHANGED kind
  <2>1. sub[s] \in Submission
    BY DEF Types, Subs
  <2>2. sub'[s].st = "applied" /\ sub'[s].patch = sub[s].patch /\ sub'[s].typed = sub[s].typed
    BY <1>2, <2>1 DEF Apply, Types, Subs, Submission
  <2>3. InFlight(s) /\ InFlight(s)' /\ \A r \in Slots \ {s} : sub'[r] = sub[r]
    BY <1>2, <2>2 DEF Apply, InFlight, Types, Subs
  <2>4. QED
    BY <1>2, <2>2, <2>3 DEF Apply, SubStep
<1>3. ASSUME NEW s \in Slots, Done(s) \/ Reject(s) PROVE SubStep /\ UNCHANGED kind
  BY <1>3 DEF Done, Reject, SubStep, InFlight, Types, Subs
<1>4. QED
  BY <1>1, <1>2, <1>3 DEF DialogNext, Open, Type, Close, SubmitNothing, Refresh, PollFails, OtherClient, SubStep

LEMMA NextUntouched ==
    ASSUME Types, Untouched, DialogNext
    PROVE  Untouched'
<1> SUFFICES ASSUME kind.base = "captured", UNCHANGED kind PROVE Untouched'
  BY SubSteps DEF Untouched
<1>1. kind.onOpen = "base" /\ ~kind.polled
  BY TableFacts DEF Types, Shapes, Common
<1>2. ASSUME NEW o \in Rows, Open(o) PROVE Untouched'
  BY <1>1, <1>2 DEF Open, Fresh, Untouched
<1>3. ASSUME NEW f \in Fields, Type(f) PROVE Untouched'
  <2>1. DOMAIN typed' = DOMAIN typed \cup {f} /\ \A g \in Fields \ {f} : form'[g] = form[g]
    BY <1>3 DEF Type, Types, Shapes, Values
  <2>2. QED
    BY <1>3, <2>1 DEF Type, Untouched
<1>4. CASE Close \/ SubmitNothing \/ PollFails
  BY <1>4 DEF Close, SubmitNothing, PollFails, Untouched
<1>5. CASE Refresh
  BY <1>1, <1>5 DEF Refresh, Untouched
<1>6. ASSUME NEW s \in Slots, Submit(s) \/ Apply(s) \/ Done(s) \/ Reject(s) PROVE Untouched'
  BY <1>1, <1>6 DEF Submit, Apply, Done, Reject, Untouched
<1>7. ASSUME NEW o \in Rows, NEW f \in Fields, OtherClient(o, f) PROVE Untouched'
  BY <1>7 DEF OtherClient, Untouched
<1>8. QED
  BY <1>2, <1>3, <1>4, <1>5, <1>6, <1>7 DEF DialogNext

LEMMA NextUntouchedNotSent ==
    ASSUME Types, Untouched, UntouchedNotSent, DialogNext
    PROVE  UntouchedNotSent'
<1>1. SubStep /\ UNCHANGED kind
  BY SubSteps
<1>2. SUFFICES ASSUME kind.base = "captured", kind.sends = {}, NEW s \in Slots
               PROVE  DOMAIN sub'[s].patch \subseteq DOMAIN sub'[s].typed
  BY <1>1 DEF UntouchedNotSent
<1>3. DOMAIN sub[s].patch \subseteq DOMAIN sub[s].typed
  BY <1>2 DEF UntouchedNotSent
<1>4. target # NoObject => DOMAIN Patch \subseteq DOMAIN typed
  BY <1>2, PatchValues DEF Untouched
<1>5. DOMAIN NoSub.patch \subseteq DOMAIN NoSub.typed
  BY EmptyValues
<1>6. \/ sub'[s] = sub[s] \/ sub'[s] = NoSub
      \/ sub'[s].patch = sub[s].patch /\ sub'[s].typed = sub[s].typed
      \/ target # NoObject /\ sub'[s].patch = Patch /\ sub'[s].typed = typed
  BY <1>1 DEF SubStep
<1>7. QED
  BY <1>3, <1>4, <1>5, <1>6, Zenon

LEMMA NextShown ==
    ASSUME Types, Shown, DialogNext
    PROVE  Shown'
<1> SUFFICES ASSUME ~kind.polled, UNCHANGED kind PROVE Shown'
  BY SubSteps DEF Shown
<1>1. \A f \in DOMAIN typed : form[f] = typed[f]
  BY DEF Shown
<1>2. typed' = <<>> => Shown'
  BY EmptyValues DEF Shown
<1>3. UNCHANGED <<form, typed>> => Shown'
  BY <1>1 DEF Shown
<1>4. ASSUME NEW f \in Fields, Type(f) PROVE Shown'
  <2>1. DOMAIN typed' = DOMAIN typed \cup {f} /\ DOMAIN typed \subseteq Fields
    BY <1>4, TypedValues DEF Type, Types, Shapes
  <2>2. typed'[f] = 2 /\ form'[f] = 2
    BY <1>4 DEF Type, Types, Shapes, Values
  <2>3. \A g \in DOMAIN typed \ {f} : typed'[g] = typed[g] /\ form'[g] = form[g]
    BY <1>4, <2>1 DEF Type, Types, Shapes, Values
  <2>4. QED
    BY <1>1, <2>1, <2>2, <2>3 DEF Shown
<1>5. ASSUME DialogNext, \A f \in Fields : ~Type(f) PROVE typed' = <<>> \/ UNCHANGED <<form, typed>>
  BY <1>5 DEF DialogNext, Open, Close, SubmitNothing, Refresh, PollFails, OtherClient, Submit, Apply, Done, Reject
<1>6. QED
  BY <1>2, <1>3, <1>4, <1>5

LEMMA NextTypedIsSent ==
    ASSUME Types, Shown, TypedIsSent, DialogNext
    PROVE  TypedIsSent'
<1>1. SubStep /\ UNCHANGED kind
  BY SubSteps
<1>2. SUFFICES ASSUME ~kind.polled, NEW s \in Slots
               PROVE  \A f \in DOMAIN sub'[s].patch \cap DOMAIN sub'[s].typed : sub'[s].patch[f] = sub'[s].typed[f]
  BY <1>1 DEF TypedIsSent
<1>3. \A f \in DOMAIN sub[s].patch \cap DOMAIN sub[s].typed : sub[s].patch[f] = sub[s].typed[f]
  BY <1>2 DEF TypedIsSent
<1>4. \A f \in DOMAIN Patch \cap DOMAIN typed : Patch[f] = typed[f]
  BY <1>2, PatchValues DEF Shown
<1>5. DOMAIN NoSub.patch = {}
  BY EmptyValues
<1>6. \/ sub'[s] = sub[s] \/ sub'[s] = NoSub
      \/ sub'[s].patch = sub[s].patch /\ sub'[s].typed = sub[s].typed
      \/ target # NoObject /\ sub'[s].patch = Patch /\ sub'[s].typed = typed
  BY <1>1 DEF SubStep
<1>7. QED
  BY <1>3, <1>4, <1>5, <1>6, Zenon

----------------------------------------------------------------------------
(* The button and the streams. *)

\* What a step does to the mounted component: it is left alone or its flag
\* is cleared by an opening, another one is mounted, it submits, or one of
\* its or of an earlier component's submissions is answered.
Remains ==
    /\ UNCHANGED instance
    /\ \A r \in Slots : InFlight(r)' = InFlight(r) /\ sub'[r].instance = sub[r].instance
    /\ saving' = saving /\ streams' \subseteq streams
Mounts ==
    /\ instance' = instance + 1 /\ UNCHANGED sub
    /\ saving' = FALSE /\ streams' \subseteq streams
Opens == UNCHANGED <<instance, sub, streams>> /\ kind.flag # "kept" /\ saving' = FALSE
Submits(s) ==
    /\ UNCHANGED instance /\ ~saving /\ saving' = TRUE
    /\ ~InFlight(s) /\ InFlight(s)' /\ sub'[s].instance = instance
    /\ \A r \in Slots \ {s} : sub'[r] = sub[r]
    /\ streams' \subseteq streams \cup {instance}
Answers(s) ==
    /\ UNCHANGED instance /\ saving' = (saving /\ kind.flag # "reset" /\ sub[s].instance # instance)
    /\ InFlight(s) /\ ~InFlight(s)' /\ \A r \in Slots \ {s} : sub'[r] = sub[r]
    /\ streams' = streams \ {sub[s].instance}
FlagStep == Remains \/ Mounts \/ Opens \/ \E s \in Slots : Submits(s) \/ Answers(s)

LEMMA FlagSteps ==
    ASSUME Types, DialogNext
    PROVE  FlagStep
<1>1. ASSUME NEW o \in Rows, Open(o) PROVE FlagStep
  <2>1. CASE kind.flag = "own"
    BY <1>1, <2>1 DEF Open, FlagStep, Mounts, Types, Shapes
  <2>2. CASE kind.flag = "kept"
    BY <1>1, <2>2 DEF Open, FlagStep, Remains, InFlight, Types, Shapes
  <2>3. CASE kind.flag \notin {"own", "kept"}
    BY <1>1, <2>3 DEF Open, FlagStep, Opens, Types, Shapes
  <2>4. QED
    BY <2>1, <2>2, <2>3
<1>2. ASSUME \/ \E o \in Rows, f \in Fields : OtherClient(o, f)
             \/ \E f \in Fields : Type(f)
             \/ Close \/ SubmitNothing \/ Refresh
      PROVE  FlagStep
  BY <1>2 DEF OtherClient, Type, Close, SubmitNothing, Refresh, FlagStep, Remains, InFlight
<1>3. CASE PollFails
  BY <1>3 DEF PollFails, FlagStep, Mounts
<1>4. ASSUME NEW s \in Slots, Submit(s) PROVE FlagStep
  <2>1. Submits(s)
    BY <1>4 DEF Submit, Submits, InFlight, Types, Subs
  <2>2. QED
    BY <2>1 DEF FlagStep
<1>5. ASSUME NEW s \in Slots, Apply(s) PROVE FlagStep
  <2>1. sub' = [sub EXCEPT ![s] = [sub[s] EXCEPT !.st = "applied"]] /\ sub[s] \in Submission
    BY <1>5 DEF Apply, Types, Subs
  <2>2. \A r \in Slots : InFlight(r)' = InFlight(r) /\ sub'[r].instance = sub[r].instance
    BY <1>5, <2>1 DEF Apply, InFlight, Types, Subs, Submission
  <2>3. QED
    BY <1>5, <2>2 DEF Apply, FlagStep, Remains
<1>6. ASSUME NEW s \in Slots, Done(s) \/ Reject(s) PROVE FlagStep
  <2>1. Answers(s)
    BY <1>6, EmptyValues DEF Done, Reject, Settle, Answers, InFlight, Types, Subs
  <2>2. QED
    BY <2>1 DEF FlagStep
<1>7. QED
  BY <1>1, <1>2, <1>3, <1>4, <1>5, <1>6 DEF DialogNext

Older == \A s \in Slots : sub[s].instance <= instance /\ sub[s].instance \in Nat

LEMMA NextBusy ==
    ASSUME Types, Busy, Single, FlagStep, UNCHANGED kind
    PROVE  Busy' /\ Single'
<1> SUFFICES ASSUME kind.flag = "kept" PROVE Busy' /\ Single'
  BY DEF Busy, Single
<1>1. Older /\ instance \in Nat
  BY DEF Types, Subs, Counts, Older, Submission
<1>2. \A s, t \in Slots : InFlight(s) /\ InFlight(t) /\ s # t => sub[s].instance # sub[t].instance
  BY DEF Single
<1>3. \A s \in Slots : InFlight(s) /\ sub[s].instance = instance => saving
  BY DEF Busy
<1>4. CASE Remains
  BY <1>2, <1>3, <1>4 DEF Remains, Busy, Single
<1>5. CASE Mounts
  BY <1>1, <1>2, <1>5 DEF Mounts, Busy, Single, Older, InFlight
<1>6. ASSUME NEW s \in Slots, Submits(s) PROVE Busy' /\ Single'
  <2>1. \A r \in Slots \ {s} : InFlight(r)' => InFlight(r) /\ sub'[r].instance # instance
    BY <1>3, <1>6 DEF Submits, InFlight
  <2>2. Busy'
    BY <1>6 DEF Submits, Busy
  <2>3. Single'
    BY <1>2, <1>6, <2>1 DEF Submits, Single
  <2>4. QED
    BY <2>2, <2>3
<1>7. ASSUME NEW s \in Slots, Answers(s) PROVE Busy' /\ Single'
  <2>1. \A r \in Slots : InFlight(r)' => r # s /\ sub'[r] = sub[r] /\ InFlight(r)
    BY <1>7 DEF Answers, InFlight
  <2>2. Single'
    BY <1>2, <2>1 DEF Single
  <2>3. ASSUME NEW r \in Slots, InFlight(r)', sub'[r].instance = instance PROVE saving'
    <3>1. sub[s].instance # instance
      BY <1>2, <1>7, <2>1, <2>3 DEF Answers
    <3>2. QED
      BY <1>3, <1>7, <2>1, <2>3, <3>1, Zenon DEF Answers
  <2>4. QED
    BY <1>7, <2>2, <2>3 DEF Answers, Busy
<1>8. QED
  BY <1>4, <1>5, <1>6, <1>7 DEF FlagStep, Opens

LEMMA NextWaiting ==
    ASSUME Types, Waiting, FlagStep, UNCHANGED kind
    PROVE  Waiting'
<1> SUFFICES ASSUME saving' PROVE \E s \in Slots : InFlight(s)' /\ (kind.flag # "reset" => sub'[s].instance = instance')
  BY DEF Waiting
<1>1. CASE Remains
  BY <1>1 DEF Remains, Waiting
<1>2. ASSUME NEW s \in Slots, Submits(s) PROVE \E r \in Slots : InFlight(r)' /\ (kind.flag # "reset" => sub'[r].instance = instance')
  BY <1>2 DEF Submits
<1>3. ASSUME NEW s \in Slots, Answers(s) PROVE \E r \in Slots : InFlight(r)' /\ (kind.flag # "reset" => sub'[r].instance = instance')
  <2>1. saving /\ kind.flag # "reset" /\ sub[s].instance # instance /\ instance' = instance
    BY <1>3 DEF Answers
  <2>2. PICK r \in Slots : InFlight(r) /\ sub[r].instance = instance
    BY <2>1 DEF Waiting
  <2>3. sub'[r] = sub[r]
    BY <1>3, <2>1, <2>2 DEF Answers
  <2>4. QED
    BY <2>1, <2>2, <2>3 DEF InFlight
<1>4. QED
  BY <1>1, <1>2, <1>3 DEF FlagStep, Mounts, Opens

LEMMA NextStreams ==
    ASSUME Types, StreamsOwned, FlagStep
    PROVE  StreamsOwned'
<1>1. CASE Remains
  BY <1>1 DEF Remains, StreamsOwned
<1>2. CASE Mounts \/ Opens
  BY <1>2 DEF Mounts, Opens, StreamsOwned, InFlight
<1>3. ASSUME NEW s \in Slots, Submits(s) PROVE StreamsOwned'
  <2>1. \A r \in Slots : InFlight(r) => InFlight(r)' /\ sub'[r].instance = sub[r].instance
    BY <1>3 DEF Submits, InFlight
  <2>2. QED
    BY <1>3, <2>1 DEF Submits, StreamsOwned
<1>4. ASSUME NEW s \in Slots, Answers(s) PROVE StreamsOwned'
  <2> SUFFICES ASSUME NEW i \in streams' PROVE \E r \in Slots : InFlight(r)' /\ sub'[r].instance = i
    BY DEF StreamsOwned
  <2>1. i \in streams /\ i # sub[s].instance
    BY <1>4 DEF Answers
  <2>2. PICK r \in Slots : InFlight(r) /\ sub[r].instance = i
    BY <2>1 DEF StreamsOwned
  <2>3. sub'[r] = sub[r]
    BY <1>4, <2>1, <2>2 DEF Answers
  <2>4. QED
    BY <2>2, <2>3 DEF InFlight
<1>5. QED
  BY <1>1, <1>2, <1>3, <1>4 DEF FlagStep

----------------------------------------------------------------------------
(* The theorems. *)

LEMMA DialogInvariant == Spec => []DialogInv
<1>1. DialogInit => DialogInv
  <2> SUFFICES ASSUME DialogInit PROVE DialogInv
    OBVIOUS
  <2>1. Types /\ \A s \in Slots : ~InFlight(s) /\ DOMAIN sub[s].patch = {}
    BY InitTypes, EmptyValues DEF DialogInit, InFlight
  <2>2. DOMAIN typed = {} /\ target = NoObject /\ ~saving /\ streams = {}
    BY EmptyValues DEF DialogInit
  <2>3. QED
    BY <2>1, <2>2 DEF DialogInv, Untouched, UntouchedNotSent, Shown, TypedIsSent, Busy, Single, Waiting, StreamsOwned
<1>2. DialogInv /\ [DialogNext]_dialogVars => DialogInv'
  <2> SUFFICES ASSUME DialogInv, [DialogNext]_dialogVars PROVE DialogInv'
    OBVIOUS
  <2>1. CASE DialogNext
    <3>1. Types' /\ FlagStep /\ UNCHANGED kind
      BY <2>1, NextTypes, FlagSteps, SubSteps DEF DialogInv
    <3>2. Untouched' /\ UntouchedNotSent' /\ Shown' /\ TypedIsSent'
      BY <2>1, NextUntouched, NextUntouchedNotSent, NextShown, NextTypedIsSent DEF DialogInv
    <3>3. Busy' /\ Single' /\ Waiting' /\ StreamsOwned'
      BY <3>1, NextBusy, NextWaiting, NextStreams DEF DialogInv
    <3>4. QED
      BY <3>1, <3>2, <3>3 DEF DialogInv
  <2>2. CASE UNCHANGED dialogVars
    <3>1. Types'
      BY <2>2 DEF dialogVars, DialogInv, Types, Shapes, Counts, Subs, InFlight
    <3>2. Untouched' /\ UntouchedNotSent' /\ Shown' /\ TypedIsSent'
      BY <2>2 DEF dialogVars, DialogInv, Untouched, UntouchedNotSent, Shown, TypedIsSent
    <3>3. Busy' /\ Single' /\ Waiting' /\ StreamsOwned'
      BY <2>2 DEF dialogVars, DialogInv, Busy, Single, Waiting, StreamsOwned, InFlight
    <3>4. QED
      BY <3>1, <3>2, <3>3 DEF DialogInv
  <2>3. QED
    BY <2>1, <2>2
<1>3. QED
  BY <1>1, <1>2, PTL DEF Spec

\* The edit dialogs of images, templates, snapshots and webhooks send only
\* the fields the user typed in, whatever polls and other clients did since
\* the dialog was opened (the `if (x !== original)` of each handleSubmit).
THEOREM OnlyTypedIsSent == Spec => []UntouchedNotSent
<1>1. DialogInv => UntouchedNotSent
  BY DEF DialogInv
<1>2. QED
  BY <1>1, DialogInvariant, PTL

\* What is sent of a field the user typed in is what was typed last, in every
\* dialog but the clone dialog, whose effect depends on the polled machine.
THEOREM LastTypedIsSent == Spec => []TypedIsSent
<1>1. DialogInv => TypedIsSent
  BY DEF DialogInv
<1>2. QED
  BY <1>1, DialogInvariant, PTL

\* A dialog whose `saving` state outlives its closing has one submission under
\* way for each time it was mounted, and every variable has its type.
THEOREM OneAtATime == Spec => []OneSubmission
<1>1. DialogInv => OneSubmission
  <2> SUFFICES ASSUME DialogInv PROVE OneSubmission
    OBVIOUS
  <2>1. server \in [Objects -> [Fields -> 0..2]] /\ copy \in [Objects -> [Fields -> 0..2]]
    BY DEF DialogInv, Types, Shapes, Values
  <2>2. DOMAIN typed \subseteq Fields
    BY TypedValues DEF DialogInv, Types, Shapes, Fields
  <2>3. instance \in 0..MaxSteps
    BY DialogsAssumption DEF DialogInv, Types, Counts
  <2>4. \A s \in Slots : sub[s].st \in {"none", "sent", "applied"}
    BY DEF DialogInv, Types, Subs, Submission
  <2>5. TypeOK
    BY <2>1, <2>2, <2>3, <2>4 DEF DialogInv, Types, Shapes, Counts, Subs, Values, TypeOK
  <2>6. QED
    BY <2>5 DEF DialogInv, Single, OneSubmission
<1>2. QED
  BY <1>1, DialogInvariant, PTL

\* After any order of closing, reopening, failing and remounting, a disabled
\* button and an open progress stream belong to a submission under way (the
\* finally of each handleSubmit, and the cleanup of its progress stream).
THEOREM NothingIsLeftBehind == Spec => []NothingLeftBehind
<1>1. DialogInv => NothingLeftBehind
  BY DEF DialogInv, Waiting, NothingLeftBehind, DisabledMeansSaving
<1>2. QED
  BY <1>1, DialogInvariant, PTL
=============================================================================
