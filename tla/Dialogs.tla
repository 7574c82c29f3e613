------------------------------ MODULE Dialogs -------------------------------
(***************************************************************************)
(* The dialogs of the web GUI that write to the daemon: the edit dialogs   *)
(* of machines, snapshots, port forwards, images, templates, webhooks and  *)
(* schedules, and the dialogs that create or start something.              *)
(*                                                                         *)
(* Under every dialog the page keeps polling, other clients keep writing,  *)
(* and the cross of the frame closes the dialog even while its submission  *)
(* is on the way: the answer then arrives at a dialog that is closed, or   *)
(* open for another object.  The dialogs differ in what they start from,   *)
(* in what they send, and in where the "saving" flag lives; the table      *)
(* below has one record per dialog component, and a behaviour follows one  *)
(* of them.                                                                *)
(***************************************************************************)
EXTENDS Naturals, FiniteSets

CONSTANTS
    Kinds,       \* the dialogs to look at, a subset of DialogTable
    Objects,     \* rows of the page a dialog can be opened for
    NoObject,
    Slots,       \* bound on submissions in flight
    MaxSteps     \* bound on what the user, other clients and failures do

ASSUME DialogsAssumption ==
    Objects # {} /\ NoObject \notin Objects /\ Slots \subseteq Nat /\ MaxSteps \in Nat

\* Two fields stand for all of a form's.  0 is the first value, 1 is what
\* another client writes, 2 what the user types.
Fields == {"f", "g"}
Empty == [f \in Fields |-> 0]

----------------------------------------------------------------------------
(* The dialog components.                                                  *)
(*   base      the object a submission is compared with: "captured" (the   *)
(*             row the dialog was opened with), "latest" (the polled       *)
(*             object of the moment), "none" (nothing to compare)          *)
(*   sends     the fields sent whether they changed or not                 *)
(*   idle      what a submission without changes does                      *)
(*   flag      where "saving" lives: "kept" outlives the closing of the    *)
(*             dialog, "reset" is cleared when it opens, "own" belongs to  *)
(*             a form that is unmounted with the dialog                    *)
(*   onOpen    a new opening starts from the object ("base"), from an      *)
(*             empty form ("empty"), or from what was left in it ("draft") *)
(*   polled    a poll of the page writes the form again                    *)
(*   detail    a failed poll unmounts the dialog (VMDetail renders only    *)
(*             the error then), and a row's dialog closes with its table   *)
(*   progress  an operation-progress stream is open while it runs          *)
(*   stays     success is reported in the open dialog, until it is closed  *)

Edit(base, sends, idle, flag, detail) ==
    [base |-> base, sends |-> sends, idle |-> idle, flag |-> flag, onOpen |-> "base",
     polled |-> FALSE, detail |-> detail, progress |-> FALSE, stays |-> FALSE]
Create(onOpen, flag, polled, detail, progress) ==
    [base |-> "none", sends |-> Fields, idle |-> "send", flag |-> flag, onOpen |-> onOpen,
     polled |-> polled, detail |-> detail, progress |-> progress, stays |-> FALSE]

EditVMModal == Edit("latest", {}, "close", "kept", TRUE)
EditSnapshotModal == Edit("captured", {}, "close", "kept", TRUE)
EditPortModal == Edit("captured", {"f"}, "send", "kept", TRUE)
EditImageModal == Edit("captured", {}, "close", "kept", FALSE)
EditTemplateModal == Edit("captured", {}, "close", "kept", FALSE)
EditWebhookModal == Edit("captured", {}, "stay", "reset", FALSE)
EditScheduleModal == Edit("captured", Fields, "send", "own", FALSE)
CreateVMModal == Create("draft", "kept", FALSE, FALSE, FALSE)
CreateTemplateModal == Create("empty", "kept", FALSE, FALSE, FALSE)
UploadImageModal == Create("draft", "kept", FALSE, FALSE, FALSE)
AddWebhookModal == Create("empty", "reset", FALSE, FALSE, FALSE)
AddScheduleModal == Create("empty", "own", FALSE, FALSE, FALSE)
CreateSnapshotModal == Create("draft", "kept", FALSE, TRUE, FALSE)
AddPortModal == Create("draft", "kept", FALSE, TRUE, FALSE)
CloneVMModal == Create("empty", "kept", TRUE, TRUE, TRUE)
MoveDiskModal == Create("empty", "kept", FALSE, TRUE, TRUE)
ExportImageModal == [Create("empty", "kept", FALSE, TRUE, TRUE) EXCEPT !.stays = TRUE]

DialogTable ==
    {EditVMModal, EditSnapshotModal, EditPortModal, EditImageModal, EditTemplateModal,
     EditWebhookModal, EditScheduleModal, CreateVMModal, CreateTemplateModal, UploadImageModal,
     AddWebhookModal, AddScheduleModal, CreateSnapshotModal, AddPortModal, CloneVMModal,
     MoveDiskModal, ExportImageModal}

ASSUME KindsAssumption == Kinds \subseteq DialogTable

----------------------------------------------------------------------------
VARIABLES
    kind,      \* the dialog followed
    server,    \* server[o]: the object at the daemon
    copy,      \* copy[o]: the object as the page's last poll saw it
    target,    \* the object the dialog is open for, or NoObject
    base,      \* the object it was opened with
    form,      \* what its inputs show
    typed,     \* history: the last value the user typed, per field typed in
    done,      \* it reports success instead of showing its form
    saving,    \* its submit button is disabled
    instance,  \* number of the mounted component that owns `saving`
    sub,       \* sub[s]: submission s in flight
    streams,   \* instances holding an operation-progress stream open
    steps      \* what is left of MaxSteps

dialogVars == <<kind, server, copy, target, base, form, typed, done, saving, instance, sub, streams, steps>>

NoSub == [st |-> "none", object |-> NoObject, patch |-> <<>>, typed |-> <<>>, instance |-> 0]
InFlight(s) == sub[s].st # "none"
Step == steps > 0 /\ steps' = steps - 1
Rows == IF kind.base = "captured" THEN Objects ELSE {CHOOSE o \in Objects : TRUE}

\* The form of a fresh opening.
Fresh(o) == IF kind.onOpen = "base" THEN copy[o] ELSE Empty

Open(o) ==
    /\ target = NoObject
    /\ Step
    /\ target' = o /\ base' = copy[o]
    /\ IF kind.onOpen = "draft" THEN UNCHANGED <<form, typed>>
       ELSE form' = Fresh(o) /\ typed' = <<>>
    /\ saving' = (saving /\ kind.flag = "kept")
    /\ instance' = IF kind.flag = "own" THEN instance + 1 ELSE instance
    /\ UNCHANGED <<kind, done, server, copy, sub, streams>>

Type(f) ==
    /\ target # NoObject /\ ~done /\ form[f] # 2
    /\ Step
    /\ form' = [form EXCEPT ![f] = 2]
    /\ typed' = [g \in DOMAIN typed \cup {f} |-> IF g = f THEN 2 ELSE typed[g]]
    /\ UNCHANGED <<kind, done, server, copy, target, base, saving, instance, sub, streams>>

\* A defect to detect: closing enables the button of the next opening.
CloseResetsSaving ==
    /\ target # NoObject
    /\ target' = NoObject /\ done' = FALSE
    /\ saving' = FALSE
    /\ streams' = IF kind.progress THEN streams \ {instance} ELSE streams
    /\ UNCHANGED <<kind, server, copy, base, form, typed, instance, sub, steps>>
\* The cross of the frame, which asks nothing; Cancel is disabled while saving.
Close ==
    /\ target # NoObject
    /\ target' = NoObject /\ done' = FALSE
    /\ streams' = IF kind.progress THEN streams \ {instance} ELSE streams
    /\ UNCHANGED <<kind, server, copy, base, form, typed, saving, instance, sub, steps>>

----------------------------------------------------------------------------
(* Submit *)

\* A defect to detect: the form is compared with the polled object.
DifferenceWithLatest == {f \in Fields : form[f] # copy[target][f]}
\* The fields that differ from what the dialog compares with.
Difference ==
    CASE kind.base = "captured" -> {f \in Fields : form[f] # base[f]}
      [] kind.base = "latest"   -> {f \in Fields : form[f] # copy[target][f]}
      [] OTHER                  -> Fields
Patch == [f \in Difference \cup kind.sends |-> form[f]]

\* No field differs: most dialogs close, the webhook dialog says so and stays.
SubmitNothing ==
    /\ target # NoObject /\ ~saving /\ DOMAIN Patch = {} /\ kind.idle = "close"
    /\ target' = NoObject
    /\ UNCHANGED <<kind, done, server, copy, base, form, typed, saving, instance, sub, streams, steps>>

Submit(s) ==
    /\ target # NoObject /\ ~saving /\ ~done /\ DOMAIN Patch # {}
    /\ ~InFlight(s) /\ \A r \in Slots : r < s => InFlight(r)
    /\ Step
    /\ saving' = TRUE
    /\ sub' = [sub EXCEPT ![s] =
          [st |-> "sent", object |-> target, patch |-> Patch, typed |-> typed, instance |-> instance]]
    /\ streams' = IF kind.progress THEN streams \cup {instance} ELSE streams
    /\ UNCHANGED <<kind, done, server, copy, target, base, form, typed, instance>>

\* The daemon carries the patch out.
Apply(s) ==
    /\ sub[s].st = "sent"
    /\ sub' = [sub EXCEPT ![s].st = "applied"]
    /\ server' = [server EXCEPT ![sub[s].object] =
          [f \in Fields |-> IF f \in DOMAIN sub[s].patch THEN sub[s].patch[f] ELSE @[f]]]
    /\ UNCHANGED <<kind, done, copy, target, base, form, typed, saving, instance, streams, steps>>

\* A defect to detect: saving is not reset.
SettleNever(s) == saving' = saving
\* finally { setSaving(false) } of the component that submitted.  The flag
\* of a "reset" dialog is one for all its openings.
Settle(s) == saving' = (saving /\ kind.flag # "reset" /\ sub[s].instance # instance)

\* The answer: refresh, close whatever the dialog is open for by then, and
\* empty a create form.  A row's dialog on the detail page can only be
\* closed by its own table.
Done(s) ==
    LET mine == sub[s].instance = instance IN
    /\ sub[s].st = "applied"
    /\ sub' = [sub EXCEPT ![s] = NoSub]
    /\ copy' = IF kind.stays THEN copy ELSE server
    /\ done' = (done \/ (kind.stays /\ mine))
    /\ target' = IF kind.stays \/ (kind.detail /\ kind.base = "captured" /\ ~mine) THEN target ELSE NoObject
    /\ IF kind.onOpen = "draft" /\ mine THEN form' = Empty /\ typed' = <<>>
       ELSE UNCHANGED <<form, typed>>
    /\ Settle(s)
    /\ streams' = streams \ {sub[s].instance}
    /\ UNCHANGED <<kind, server, base, instance, steps>>

\* An error answer: the dialog stays as it is, with a message.
Reject(s) ==
    /\ sub[s].st = "sent"
    /\ Step
    /\ sub' = [sub EXCEPT ![s] = NoSub]
    /\ Settle(s)
    /\ streams' = streams \ {sub[s].instance}
    /\ UNCHANGED <<kind, done, server, copy, target, base, form, typed, instance>>

----------------------------------------------------------------------------
(* The page and the other clients *)

\* A defect to detect: a poll writes the form anew.
RefreshResetsForm ==
    /\ copy # server
    /\ copy' = server
    /\ IF target # NoObject /\ kind.onOpen = "base" THEN form' = server[target] ELSE UNCHANGED form
    /\ UNCHANGED <<kind, done, server, target, base, typed, saving, instance, sub, streams, steps>>
\* A poll.  The clone dialog's effect depends on the polled object and
\* writes the suggested name again.
Refresh ==
    /\ copy # server \/ (kind.polled /\ target # NoObject /\ form # Empty)
    /\ copy' = server
    /\ form' = IF kind.polled /\ target # NoObject THEN Empty ELSE form
    /\ UNCHANGED <<kind, done, server, target, base, typed, saving, instance, sub, streams, steps>>

\* A failed poll and the next good one: the dialogs of the detail page are
\* unmounted and mounted anew with fresh forms and flags, open as before
\* unless the row they were opened for was state of an unmounted table.
PollFails ==
    /\ kind.detail
    /\ Step
    /\ copy' = server
    /\ instance' = instance + 1
    /\ saving' = FALSE /\ done' = FALSE
    /\ target' = IF kind.base = "captured" THEN NoObject ELSE target
    /\ form' = IF target' # NoObject /\ kind.onOpen = "base" THEN server[target] ELSE Empty
    /\ typed' = <<>>
    /\ streams' = streams \ {instance}
    /\ UNCHANGED <<kind, server, base, sub>>

OtherClient(o, f) ==
    /\ server[o][f] # 1
    /\ Step
    /\ server' = [server EXCEPT ![o][f] = 1]
    /\ UNCHANGED <<kind, done, copy, target, base, form, typed, saving, instance, sub, streams>>

DialogInit ==
    /\ kind \in Kinds
    /\ server = [o \in Objects |-> Empty] /\ copy = server
    /\ target = NoObject /\ base = Empty /\ form = Empty /\ typed = <<>>
    /\ done = FALSE /\ saving = FALSE /\ instance = 0
    /\ sub = [s \in Slots |-> NoSub]
    /\ streams = {}
    /\ steps = MaxSteps

DialogNext ==
    \/ \E o \in Rows : Open(o) \/ \E f \in Fields : OtherClient(o, f)
    \/ \E f \in Fields : Type(f)
    \/ Close \/ SubmitNothing \/ Refresh \/ PollFails
    \/ \E s \in Slots : Submit(s) \/ Apply(s) \/ Done(s) \/ Reject(s)

Spec == DialogInit /\ [][DialogNext]_dialogVars

----------------------------------------------------------------------------
(* Properties *)

(* Every variable has its type, and a request under way names an object and*)
(* at least one field: a dialog in which nothing was typed sends nothing   *)
(* (the no-change test of each handleSubmit).                              *)
TypeOK ==
    /\ kind \in DialogTable
    /\ server \in [Objects -> [Fields -> 0..2]] /\ copy \in [Objects -> [Fields -> 0..2]]
    /\ target \in Objects \cup {NoObject} /\ form \in [Fields -> 0..2] /\ base \in [Fields -> 0..2]
    /\ DOMAIN typed \subseteq Fields
    /\ done \in BOOLEAN /\ saving \in BOOLEAN /\ instance \in 0..MaxSteps
    /\ streams \subseteq 0..instance
    /\ \A s \in Slots :
          /\ sub[s].st \in {"none", "sent", "applied"}
          /\ InFlight(s) => sub[s].object \in Objects /\ DOMAIN sub[s].patch # {}

(* The edit dialogs of images, templates, snapshots and webhooks send a    *)
(* field only if the user typed in it, whatever other clients wrote and    *)
(* whatever polls arrived since the dialog was opened: what somebody else  *)
(* changed meanwhile is not turned back.                                   *)
UntouchedNotSent ==
    kind.base = "captured" /\ kind.sends = {} =>
        \A s \in Slots : DOMAIN sub[s].patch \subseteq DOMAIN sub[s].typed

(* What the user typed last in a field is what is sent of it: no poll      *)
(* writes over a form that is being filled in (the clone dialog excepted,  *)
(* whose suggested name every poll restores).                              *)
TypedIsSent ==
    ~kind.polled =>
        \A s \in Slots : \A f \in DOMAIN sub[s].patch \cap DOMAIN sub[s].typed :
            sub[s].patch[f] = sub[s].typed[f]

(* A dialog whose submit button is disabled has a submission of its own    *)
(* under way: no order of closing, reopening, failing and remounting       *)
(* leaves the button dead.                                                 *)
DisabledMeansSaving ==
    target # NoObject /\ saving =>
        \E s \in Slots : InFlight(s) /\ (kind.flag # "reset" => sub[s].instance = instance)

(* A dialog whose flag outlives its closing never has two submissions      *)
(* under way, unless a failed poll remounted it: closing with the cross    *)
(* and reopening does not submit again.  (The types go with it.)           *)
OneSubmission ==
    /\ TypeOK
    /\ kind.flag = "kept" =>
        \A s, t \in Slots : InFlight(s) /\ InFlight(t) /\ s # t => sub[s].instance # sub[t].instance

(* An operation-progress stream is open only while an operation of the     *)
(* same component instance runs.                                           *)
StreamsOwned == \A i \in streams : \E s \in Slots : InFlight(s) /\ sub[s].instance = i

(* Nothing is left behind by a submission: no dead button, no open stream. *)
NothingLeftBehind == DisabledMeansSaving /\ StreamsOwned
=============================================================================
