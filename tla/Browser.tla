------------------------------ MODULE Browser -------------------------------
(***************************************************************************)
(* What the live parts of the web GUI share: the browser they run in and   *)
(* the bound on what users, networks and the daemon's operator do to them. *)
(***************************************************************************)
EXTENDS Naturals

CONSTANT MaxFaults    \* bound on clicks, failures and outside changes
ASSUME BrowserAssumption == MaxFaults \in Nat

VARIABLES
    sse,      \* the browser has window.EventSource
    budget    \* what is left of MaxFaults

Spend == budget > 0 /\ budget' = budget - 1

BrowserInit == sse \in BOOLEAN /\ budget = MaxFaults
=============================================================================
