-------------------------------- MODULE Auth --------------------------------
(***************************************************************************)
(* The API key of the web GUI: the auth store, the gate in front of the    *)
(* pages, and the place in the API client where a 401 ends.                *)
(*                                                                         *)
(* A 401 clears the key that is set when it ARRIVES, which need not be the *)
(* one it was sent with; the sign-in form sets its key, and lets the pages *)
(* in, before the daemon has accepted it.  The upload of an image goes its *)
(* own way: it asks whether there WAS a key when it was sent, and if not,  *)
(* its 401 closes the gate over a key that was set meanwhile.              *)
(***************************************************************************)
EXTENDS Browser

CONSTANTS Keys, NoKey, Calls    \* Calls: bound on API calls in flight, slots

ASSUME AuthAssumption == NoKey \notin Keys /\ Calls \subseteq Nat

VARIABLES
    daemonKey,   \* the key the daemon accepts
    token,       \* state.token, and the stored key
    gate,        \* state.authRequired
    submitting,  \* the sign-in form waits for its answer
    calls,       \* calls[c]: an API call in flight
    spared       \* history: the key that an upload's 401 left behind the gate

authVars == <<daemonKey, token, gate, submitting, calls, spared>>

NoCall == [st |-> "none", key |-> NoKey, kind |-> "page"]
FreeCall(c) == calls[c].st = "none" /\ \A d \in Calls : d < c => calls[d].st # "none"

Call(k, kind) == \E c \in Calls :
    /\ FreeCall(c)
    /\ calls' = [calls EXCEPT ![c] = [st |-> "sent", key |-> k, kind |-> kind]]
Idle(kind) == \A c \in Calls : calls[c].st = "none" \/ calls[c].kind # kind
IsLogin(c) == calls[c].kind = "login"

\* A page asks for something.  Bound: one such call at a time.
PageCall ==
    /\ ~gate /\ Idle("page")
    /\ Call(token, "page")
    /\ UNCHANGED <<daemonKey, token, gate, submitting, spared, budget>>

\* uploadImageWithProgress.  The request outlives the page and the gate.
\* Bound: one upload at a time.
Upload ==
    /\ ~gate /\ Idle("upload") /\ Spend
    /\ Call(token, "upload")
    /\ UNCHANGED <<daemonKey, token, gate, submitting, spared>>

\* The daemon judges the key a call carries.
Judge(c) ==
    /\ calls[c].st = "sent"
    /\ calls' = [calls EXCEPT ![c].st = IF calls[c].key = daemonKey THEN "ok" ELSE "401"]
    /\ UNCHANGED <<daemonKey, token, gate, submitting, spared, budget>>

\* A call ends in an error that is not a 401: the gate stays as it is.
CallFails(c) ==
    /\ calls[c].st = "sent" /\ Spend
    /\ submitting' = (submitting /\ ~IsLogin(c))
    /\ calls' = [calls EXCEPT ![c] = NoCall]
    /\ UNCHANGED <<daemonKey, token, gate, spared>>

\* handleSubmit of the gate, up to its await.
SignIn(k) ==
    /\ gate /\ ~submitting /\ Spend
    /\ token' = k /\ gate' = FALSE /\ submitting' = TRUE /\ spared' = NoKey
    /\ Call(k, "login")
    /\ UNCHANGED daemonKey

\* A defect to detect: the refused key stays.
UnauthorizedKeepsKey(c) ==
    /\ calls[c].st = "401"
    /\ gate' = TRUE
    /\ submitting' = (submitting /\ ~IsLogin(c))
    /\ calls' = [calls EXCEPT ![c] = NoCall]
    /\ UNCHANGED <<daemonKey, token, spared, budget>>
\* A defect to detect: a 401 is an error like any other.
UnauthorizedIgnored(c) ==
    /\ calls[c].st = "401"
    /\ submitting' = (submitting /\ ~IsLogin(c))
    /\ calls' = [calls EXCEPT ![c] = NoCall]
    /\ UNCHANGED <<daemonKey, token, gate, spared, budget>>
\* A 401: clearAuthToken, requireAuth.  unwrap looks at the key of the
\* moment, the upload at the one it captured: without one it clears nothing.
Unauthorized(c) ==
    /\ calls[c].st = "401"
    /\ gate' = TRUE
    /\ IF calls[c].kind = "upload" /\ calls[c].key = NoKey
       THEN spared' = token /\ UNCHANGED token
       ELSE token' = NoKey /\ UNCHANGED spared
    /\ submitting' = (submitting /\ ~IsLogin(c))
    /\ calls' = [calls EXCEPT ![c] = NoCall]
    /\ UNCHANGED <<daemonKey, budget>>

\* The sign-in's answer lifts the requirement, also one raised meanwhile.
Authorized(c) ==
    /\ calls[c].st = "ok"
    /\ gate' = (gate /\ ~IsLogin(c))
    /\ submitting' = (submitting /\ ~IsLogin(c))
    /\ calls' = [calls EXCEPT ![c] = NoCall]
    /\ UNCHANGED <<daemonKey, token, spared, budget>>

\* The operator gives the daemon another key.
Rotate(k) ==
    /\ k # daemonKey /\ Spend
    /\ daemonKey' = k
    /\ UNCHANGED <<token, gate, submitting, calls, spared>>

\* A new document: the key comes from local storage, the requirement is unset.
AuthReload ==
    /\ gate' = FALSE /\ submitting' = FALSE /\ spared' = NoKey
    /\ calls' = [c \in Calls |-> NoCall]
    /\ UNCHANGED <<daemonKey, token>>

AuthTypeOK ==
    /\ daemonKey \in Keys /\ token \in Keys \cup {NoKey} /\ gate \in BOOLEAN /\ submitting \in BOOLEAN
    /\ spared \in Keys \cup {NoKey}
    /\ \A c \in Calls : calls[c].st \in {"none", "sent", "ok", "401"}

(* The sign-in form is never left saying "Checking key": whatever becomes  *)
(* of its request, and of the gate while it is under way, the button is    *)
(* enabled again.                                                          *)
SignInEnds == submitting ~> ~submitting
=============================================================================
