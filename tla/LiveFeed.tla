------------------------------ MODULE LiveFeed ------------------------------
(***************************************************************************)
(* What a component with a live connection promises, whatever the          *)
(* connection does: it is always in exactly one of a few phases, it never  *)
(* has nothing under way while it is mounted, and the indicator it shows   *)
(* belongs to the phase it is in.  One exception: a component that may be  *)
(* given another object to show can be marked by an error of the object    *)
(* before, until its phase changes.                                        *)
(*                                                                         *)
(*   closed   unmounted: no connection, no timer                           *)
(*   dialing  a connection or the first fetch is being made                *)
(*   live     the stream is open                                           *)
(*   waiting  a reconnect timer runs                                       *)
(*   polling  the fallback poll runs                                       *)
(*   over     the daemon announced its shutdown                            *)
(***************************************************************************)
CONSTANT Strays    \* answers for an object shown before may still come

VARIABLES phase, label

Labels(p) ==
    CASE p = "closed"  -> {"closed"}
      [] p = "dialing" -> {"connecting", "loading", "reconnecting"}
      [] p = "live"    -> {"live"}
      [] p = "waiting" -> {"reconnecting"}
      [] p = "polling" -> {"fallback"}
      [] p = "over"    -> {"shutdown"}

Go(from, to) == phase \in from /\ phase' = to /\ label' \in Labels(to)

Mounted == {"dialing", "live", "waiting", "polling", "over"}

Mount == Go({"closed"}, "dialing") \/ Go({"closed"}, "polling")
Opens == Go({"dialing"}, "live")
Fails == Go({"dialing", "live"}, "waiting") \/ Go({"dialing", "live"}, "polling")
Redials == Go({"waiting", "polling"}, "dialing")
ShutsDown == Go({"live"}, "over")
\* The same component for another object: everything starts anew.
Switches == Go(Mounted, "dialing")
Unmount == Go(Mounted, "closed")
StrayError == Strays /\ phase \in Mounted /\ UNCHANGED phase /\ label' = "error"

Init == phase \in {"closed", "dialing", "polling"} /\ label \in Labels(phase)
Next == Mount \/ Opens \/ Fails \/ Redials \/ ShutsDown \/ Switches \/ Unmount \/ StrayError
Spec == Init /\ [][Next]_<<phase, label>>

\* The component does not dial for ever: again and again it is live, or
\* polling, or says that it has ended.  What a stream or a poll then brings
\* is another matter.
NeverStuck == []<>(phase \notin {"dialing", "waiting"})
=============================================================================
