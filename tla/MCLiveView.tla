----------------------------- MODULE MCLiveView -----------------------------
(* LiveView for TLC: a session that its agent closes, one with two requests  *)
(* at a time, and one that the worker settles beside a request.  Of the      *)
(* creation the log keeps the end, and the second BOND_OPENED of a sponsored *)
(* run.                                                                      *)
EXTENDS LiveView, TLC

CONSTANTS agent, other, worker, g1, job

MCHome == (agent :> g1) @@ (other :> g1) @@ (worker :> job)
MCBefore == <<"SESSION_ACTIVATED", "BOND_OPENED">>
MCScripts ==
  {(agent :> <<"BOND_REFUNDED", "SESSION_CLOSED">>) @@ (other :> <<>>) @@ (worker :> <<>>),
   (agent :> <<"REQUEST_ALLOWED">>) @@ (other :> <<"RESERVATION_RELEASED">>)
     @@ (worker :> <<>>),
   (agent :> <<>>) @@ (other :> <<"REQUEST_DENIED">>)
     @@ (worker :> <<"RESERVATION_EXPIRED", "PENALTY_SETTLED", "SESSION_CLOSED">>)}
=============================================================================
