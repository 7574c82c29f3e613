-------------------------------- MODULE Pwa ---------------------------------
(***************************************************************************)
(* The installable web app: the service worker with one cache per build,   *)
(* and, in every browser window, the controller that offers an update and  *)
(* reloads the page once the new worker has taken over.                    *)
(*                                                                         *)
(* All windows share one registration: the worker a user accepts in one    *)
(* window takes over all of them, and the clean-up of its activation       *)
(* deletes every cache but its own, the one of a build that is being       *)
(* installed at that moment included.                                      *)
(***************************************************************************)
EXTENDS Naturals

CONSTANTS
    Windows,
    MaxBuild,     \* bound on deployed builds
    MaxClicks     \* bound on deployments, clicks and failures

ASSUME PwaAssumption == MaxBuild \in Nat \ {0} /\ MaxClicks \in Nat

(* The requests a page makes, by what the service worker looks at.         *)
Requests ==
    {[method |-> "GET", own |-> TRUE, path |-> p, mode |-> "cors"] : p \in {"api", "sw", "assets", "other"}}
        \cup {[method |-> "GET", own |-> TRUE, path |-> p, mode |-> "navigate"] : p \in {"api", "other"}}
        \cup {[method |-> "POST", own |-> TRUE, path |-> "api", mode |-> "cors"],
              [method |-> "GET", own |-> FALSE, path |-> "other", mode |-> "cors"]}

VARIABLES
    deployed,    \* the build the daemon serves
    installing, waiting, active,    \* builds of the workers, 0 for none
    activating,  \* the activate handler of `active` has not finished
    skip,        \* the waiting worker was told to skip waiting
    shells,      \* builds whose shell cache is complete or being filled
    updateReady, \* windows whose page offers an update
    controlled,  \* windows whose page has a worker in charge
    changed,     \* ... and is about to hear that it is a new one
    reloading,   \* windows whose page has called location.reload()
    reloads,     \* reloads[w]: how often that took effect
    runtime,     \* requests whose responses are in the runtime cache
    clicks,      \* what is left of MaxClicks
    accepts,     \* history: accepted updates
    raced        \* history: builds whose cache another's activation deleted

pageVars == <<updateReady, controlled, changed, reloading, reloads>>
workerVars == <<deployed, installing, waiting, active, activating, skip, shells, raced>>
pwaVars == <<workerVars, pageVars, runtime, clicks, accepts>>

PwaSpend == clicks > 0 /\ clicks' = clicks - 1

With(S, w, in) == IF in THEN S \cup {w} ELSE S \ {w}

\* start of the controller in a new document of window w: `ready` if it finds
\* a waiting worker, `ctl` if a worker is in charge.
PwaStart(w, ready, ctl) ==
    /\ updateReady' = With(updateReady, w, ready) /\ controlled' = With(controlled, w, ctl)
    /\ changed' = changed \ {w} /\ reloading' = reloading \ {w}

PwaInit ==
    /\ deployed = 1 /\ installing = 0 /\ waiting = 0 /\ active = 0
    /\ activating = FALSE /\ skip = FALSE /\ shells = {}
    /\ updateReady = {} /\ controlled = {} /\ changed = {} /\ reloading = {}
    /\ reloads = [w \in Windows |-> 0]
    /\ runtime = {} /\ clicks = MaxClicks /\ accepts = 0 /\ raced = {}

Deploy ==
    /\ deployed < MaxBuild /\ PwaSpend
    /\ deployed' = deployed + 1
    /\ UNCHANGED <<installing, waiting, active, activating, skip, shells, raced, pageVars, runtime,
                   accepts>>

\* register, and the hourly registration.update: a new sw.js is installed.
Install ==
    /\ installing = 0 /\ deployed \notin {waiting, active}
    /\ installing' = deployed
    /\ shells' = shells \cup {deployed}
    /\ UNCHANGED <<deployed, waiting, active, activating, skip, raced, pageVars, runtime, accepts,
                   clicks>>

InstallFails ==
    /\ installing # 0 /\ PwaSpend
    /\ installing' = 0 /\ shells' = shells \ {installing}
    /\ UNCHANGED <<deployed, waiting, active, activating, skip, raced, pageVars, runtime, accepts>>

\* watchInstalling, trackWaiting: only a page with a controller is told.  A
\* page is told of the workers' changes in their order.
Installed ==
    /\ installing # 0 /\ changed = {}
    /\ waiting' = installing /\ installing' = 0 /\ skip' = FALSE
    /\ updateReady' = updateReady \cup controlled
    /\ UNCHANGED <<deployed, active, activating, shells, raced, controlled, changed, reloading,
                   reloads, runtime, accepts, clicks>>

applyUpdate(w) ==
    /\ w \in updateReady /\ waiting # 0 /\ ~skip /\ PwaSpend
    /\ skip' = TRUE /\ accepts' = accepts + 1
    /\ UNCHANGED <<deployed, installing, waiting, active, activating, shells, raced, pageVars,
                   runtime>>

dismissUpdate(w) ==
    /\ w \in updateReady /\ PwaSpend
    /\ updateReady' = updateReady \ {w}
    /\ UNCHANGED <<workerVars, controlled, changed, reloading, reloads, runtime, accepts>>

\* The browser activates the waiting worker: the first one at once, a later
\* one when it skips waiting.  Controlled pages change over.
Activate ==
    /\ waiting # 0 /\ ~activating /\ (skip \/ active = 0)
    /\ active' = waiting /\ waiting' = 0 /\ skip' = FALSE /\ activating' = TRUE
    /\ changed' = changed \cup controlled
    /\ UNCHANGED <<deployed, installing, shells, raced, updateReady, controlled, reloading, reloads,
                   runtime, accepts, clicks>>

\* A defect to detect: the own cache is not kept.
staleCacheNamesAll == shells
\* Every shell cache but the current build's.
staleCacheNames == shells \ {active}

\* The activate handler: delete the stale caches, then claim the pages.
Activated ==
    /\ activating
    /\ activating' = FALSE
    /\ shells' = shells \ staleCacheNames
    /\ raced' = raced \cup (({installing, waiting} \cap shells) \ {active})
    /\ controlled' = Windows /\ changed' = changed \cup (Windows \ controlled)
    /\ UNCHANGED <<deployed, installing, waiting, active, skip, updateReady, reloading, reloads,
                   runtime, accepts, clicks>>

\* A defect to detect: every change of controller reloads.
ControllerChangeAlwaysReloads(w) ==
    /\ w \in changed
    /\ changed' = changed \ {w}
    /\ reloading' = reloading \cup {w}
    /\ UNCHANGED <<workerVars, updateReady, controlled, reloads, runtime, accepts, clicks>>
\* A defect to detect: the reload after the change is forgotten.
ControllerChangeNeverReloads(w) ==
    /\ w \in changed
    /\ changed' = changed \ {w}
    /\ UNCHANGED <<workerVars, updateReady, controlled, reloading, reloads, runtime, accepts, clicks>>
\* The page of a window that shows the offer reloads, once.
controllerchange(w) ==
    /\ w \in changed
    /\ changed' = changed \ {w}
    /\ reloading' = IF w \in updateReady THEN reloading \cup {w} ELSE reloading
    /\ UNCHANGED <<workerVars, updateReady, controlled, reloads, runtime, accepts, clicks>>

\* A new document under the active worker, which looks for a waiting one:
\* location.reload() takes effect, ...
UpdateReload(w) ==
    /\ w \in reloading
    /\ PwaStart(w, waiting # 0, TRUE)
    /\ reloads' = [reloads EXCEPT ![w] = @ + 1]
    /\ UNCHANGED <<workerVars, runtime, accepts, clicks>>
\* ... or the user reloads.
UserReload(w) ==
    /\ PwaSpend
    /\ PwaStart(w, waiting # 0 /\ active # 0, active # 0)
    /\ UNCHANGED <<workerVars, reloads, runtime, accepts>>

----------------------------------------------------------------------------
(* Requests: the fetch handler of the worker in charge. *)

classifyRequest(r) ==
    IF r.method # "GET" \/ ~r.own \/ r.path \in {"api", "sw"} THEN "bypass"
    ELSE IF r.mode = "navigate" THEN "navigation"
    ELSE IF r.path = "assets" THEN "cache-first"
    ELSE "stale-while-revalidate"

\* The network answers 200 with a response of the own origin: cacheFirst and
\* staleWhileRevalidate keep it, a navigation and a bypassed request leave
\* no trace.
PwaFetch(w, r) ==
    /\ w \in controlled /\ ~activating
    /\ classifyRequest(r) \in {"cache-first", "stale-while-revalidate"}
    /\ runtime' = runtime \cup {r}
    /\ UNCHANGED <<workerVars, pageVars, accepts, clicks>>

PwaNext ==
    \/ Deploy \/ Install \/ InstallFails \/ Installed \/ Activate \/ Activated
    \/ \E w \in Windows :
          \/ applyUpdate(w) \/ dismissUpdate(w) \/ controllerchange(w) \/ UpdateReload(w) \/ UserReload(w)
          \/ \E r \in Requests : PwaFetch(w, r)

PwaSpec == PwaInit /\ [][PwaNext]_pwaVars

----------------------------------------------------------------------------
(* Properties *)

(* The variables keep their types, and skipWaiting is pending only while   *)
(* there is a worker to skip (the message listener of sw.js).              *)
PwaTypeOK ==
    /\ {deployed, installing, waiting, active} \subseteq 0..MaxBuild
    /\ shells \subseteq 1..MaxBuild /\ raced \subseteq 1..MaxBuild
    /\ updateReady \cup controlled \cup changed \cup reloading \subseteq Windows
    /\ skip => waiting # 0

(* A worker in charge has its shell, so that the app opens offline, unless *)
(* its build was being installed while the activation of the one before    *)
(* deleted the caches it did not know.                                     *)
ShellAvailable == active # 0 => active \in shells \cup raced

(* No window reloads without an update somebody accepted, and at most once *)
(* for each: neither the first installation nor a change of workers nobody *)
(* asked for interrupts a page.                                            *)
ReloadsAccepted == \A w \in Windows : reloads[w] <= accepts

(* The offered update is never a dead button: a window that shows it has a *)
(* waiting worker to activate, or the change-over is on its way to it.     *)
OfferIsReal ==
    waiting # 0 \/ updateReady \subseteq changed \cup reloading
=============================================================================
