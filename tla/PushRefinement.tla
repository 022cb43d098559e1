--------------------------- MODULE PushRefinement ---------------------------
(***************************************************************************)
(* StateMonitor keeps the promise of PushService to every sid. The debt is *)
(* spread over four places in the code: the handler between                *)
(* update_projection and mark_dirty, a posted _mark_dirty_on_loop, the     *)
(* dirty and pushed versions, and a log change whose notification is still *)
(* to come. The draft is the push task between its two critical sections   *)
(* and the emit.                                                           *)
(***************************************************************************)
EXTENDS StateMonitor

CONSTANTS MaxSpurious,
          me            \* the connection looked at, any of Sids

ASSUME RefinementAssumption == me \in Sids /\ MaxSpurious \in Nat

OwnLogUnnotified ==
    /\ proj[me].request.context \in Contexts
    /\ unnotified[proj[me].request.context] # "nobody"

Debt ==
    /\ Subscribed(proj[me])
    /\ \/ me \in unmarked
       \/ marks[me] > 0
       \/ proj[me].dirty > proj[me].pushed
       \/ OwnLogUnnotified

Draft ==
    IF task[me].phase \in {"read", "output", "built", "emit"}
    THEN [phase |-> task[me].phase, request |-> task[me].request,
          snap |-> task[me].snap, seq |-> task[me].seq, period |-> task[me].period]
    ELSE [phase |-> "none", request |-> NoRequest, snap |-> NoSnapshot,
          seq |-> 0, period |-> 0]

Service == INSTANCE PushService WITH
    link <- link[me],
    request <- proj[me].request,
    seq <- proj[me].seq,
    owed <- Debt,
    draft <- Draft,
    period <- period[me],
    last <- last[me]

\* Whatever the interleaving of the handlers' loop, the dispatcher loop and the
\* agents' threads, each connection sees the behaviour PushService allows: in
\* particular a debt is cleared only by a push that carries the whole log, and
\* a push is numbered and sent only for the request that is current.
ImplementsPushService == Service!Spec
=============================================================================
