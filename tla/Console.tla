------------------------------ MODULE Console -------------------------------
(***************************************************************************)
(* The console page: a VNC, a serial or an RDP tab, each of which asks the *)
(* daemon for a ticket and then opens a client with it.  Changing the tab, *)
(* "Reconnect" and leaving the page end one run of the tab's effect and    *)
(* may start the next while the ticket of the first is still on its way,   *)
(* and while the client it opened has not yet reported that it is closed.  *)
(***************************************************************************)
EXTENDS Browser

CONSTANTS Tabs, NoTab, Runs    \* Runs: bound on effect runs not yet over, slots

ASSUME ConsoleAssumption == NoTab \notin Tabs /\ Tabs # {} /\ Runs \subseteq Nat

VARIABLES
    conTab,     \* the tab shown, NoTab when the page is unmounted
    conStatus,  \* the status the tab shows
    runs        \* runs[r]: a run of the effect

conVars == <<conTab, conStatus, runs>>

NoRun == [st |-> "none", cancelled |-> FALSE]
Active(r) == runs[r].st # "none" /\ ~runs[r].cancelled
HasClient(r) == runs[r].st \in {"dialing", "open"}

\* The cleanup: cancelled is set and a client is closed; its close event,
\* like the answer to a ticket request, still comes.
Cleanup(rs) ==
    [r \in Runs |->
        IF rs[r].st = "none" \/ rs[r].cancelled THEN rs[r]
        ELSE CASE rs[r].st = "ticket" -> [rs[r] EXCEPT !.cancelled = TRUE]
               [] rs[r].st \in {"dialing", "open"} -> [st |-> "closing", cancelled |-> TRUE]
               [] OTHER -> NoRun]

Effect(rs, tab) ==
    /\ conTab' = tab /\ conStatus' = "connecting"
    /\ \E r \in Runs :
          /\ rs[r].st = "none" /\ \A q \in Runs : q < r => rs[q].st # "none"
          /\ runs' = [rs EXCEPT ![r] = [st |-> "ticket", cancelled |-> FALSE]]

\* The page opens on the VNC tab.
ConMount(tab) == Effect(Cleanup(runs), tab)
ConUnmount == conTab' = NoTab /\ conStatus' = "none" /\ runs' = Cleanup(runs)

\* setTab and Reconnect.
ConRestart(tab) ==
    /\ conTab # NoTab /\ Spend
    /\ Effect(Cleanup(runs), tab)

Ticket(r) ==
    /\ runs[r].st = "ticket"
    /\ runs' = [runs EXCEPT ![r] = IF runs[r].cancelled THEN NoRun ELSE [@ EXCEPT !.st = "dialing"]]
    /\ UNCHANGED <<conTab, conStatus, budget>>

TicketRefused(r) ==
    /\ runs[r].st = "ticket" /\ Spend
    /\ runs' = [runs EXCEPT ![r] = IF runs[r].cancelled THEN NoRun ELSE [@ EXCEPT !.st = "ended"]]
    /\ conStatus' = IF runs[r].cancelled THEN conStatus ELSE "error"
    /\ UNCHANGED conTab

Connected(r) ==
    /\ runs[r].st = "dialing" /\ ~runs[r].cancelled
    /\ runs' = [runs EXCEPT ![r].st = "open"]
    /\ conStatus' = "connected"
    /\ UNCHANGED <<conTab, budget>>

\* A defect to detect: a replaced client still reports.
ReportAlways(r, status) == conStatus' = status
\* Every callback of a client asks whether its run was cancelled.
Report(r, status) == conStatus' = IF runs[r].cancelled THEN conStatus ELSE status

\* The close event of a client that the cleanup closed, or of one that lost
\* its connection.
Closed(r) ==
    /\ \/ runs[r].st = "closing" /\ UNCHANGED budget
       \/ HasClient(r) /\ Spend
    /\ \/ Report(r, "disconnected")
       \/ Report(r, "error")
    /\ runs' = [runs EXCEPT ![r] = IF @.cancelled THEN NoRun ELSE [@ EXCEPT !.st = "ended"]]
    /\ UNCHANGED conTab

ConSteps ==
    \/ \E tab \in Tabs : ConRestart(tab)
    \/ \E r \in Runs : Ticket(r) \/ TicketRefused(r) \/ Connected(r) \/ Closed(r)

ConTypeOK ==
    /\ conTab \in Tabs \cup {NoTab}
    /\ \A r \in Runs : runs[r].st \in {"none", "ticket", "dialing", "open", "closing", "ended"}

(* There is never more than one console client, it belongs to the run of   *)
(* the effect on display, and there is none when the page has been left: a *)
(* ticket that arrives after a tab change, a reconnect or a departure      *)
(* opens nothing.                                                          *)
OneConsoleClient ==
    \A r \in Runs : HasClient(r) =>
        conTab # NoTab /\ ~runs[r].cancelled /\ \A q \in Runs : HasClient(q) => q = r

(* The status shown is that of the run on display: "connected" exactly     *)
(* when its client is open, and never the last word of a client that was   *)
(* replaced.                                                               *)
ConsoleStatusTrue ==
    conTab # NoTab =>
        \E r \in Runs :
            /\ Active(r)
            /\ conStatus = "connected" <=> runs[r].st = "open"
            /\ conStatus = "connecting" <=> runs[r].st \in {"ticket", "dialing"}

(* Both: what the page shows of the console is the tab's own.              *)
ConsoleIsOfItsTab == OneConsoleClient /\ ConsoleStatusTrue
=============================================================================
