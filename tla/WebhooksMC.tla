------------------------------ MODULE WebhooksMC ------------------------------
(* A small instance of Webhooks for TLC. *)
EXTENDS Webhooks, TLC

\* Requests are interchangeable; there is no liveness property here.
HandlerSymmetry == Permutations(Handlers)
===============================================================================
