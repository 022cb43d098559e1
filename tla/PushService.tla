---------------------------- MODULE PushService ----------------------------
(***************************************************************************)
(* What the state-sync channel promises one connection, whatever threads,  *)
(* timers and counters the StateMonitor uses to keep the promise:          *)
(*   - nothing is sent before a request was accepted;                      *)
(*   - while the log of the requested chat holds something the connection  *)
(*     was not given, the service owes it a push, and a push clears the    *)
(*     debt only if it carries everything the log holds;                   *)
(*   - pushes go out one at a time, numbered, each starting where the one  *)
(*     before it ended, and only for the request that is current.          *)
(* StateMonitor implements this for every sid (PushRefinement); StateSync  *)
(* composes it with the browser tab at the other end.                      *)
(***************************************************************************)
EXTENDS Integers

CONSTANTS
    Contexts,     \* chats
    NoContext,    \* the null context: the welcome screen
    NoRequest,
    LogFroms,     \* the cursors a client may ask from
    MaxUpdates,   \* bound: length of a log's update list
    MaxResets,    \* bound: resets of a log
    MaxRequests,  \* bound: requests accepted on the connection
    MaxSpurious   \* bound: beyond this seq, no push that is not due

ASSUME ServiceAssumption ==
    /\ MaxUpdates \in Nat /\ MaxResets \in Nat
    /\ MaxRequests \in Nat /\ MaxSpurious \in Nat
    /\ LogFroms \subseteq Nat
    /\ NoContext \notin Contexts
    /\ NoRequest \notin [context : Contexts \cup {NoContext}, log_from : Nat]

VARIABLES
    link,    \* the connection
    request, \* the accepted request, its log_from moving with every push
    seq,     \* the sequence number of the last push
    owed,    \* TRUE: a push is due
    draft,   \* the push under construction
    log,     \* context -> its log: identity and number of updates
    period,  \* history: number of requests accepted
    last     \* history: the last push handed to the socket

subVars == <<request, seq, owed>>
vars == <<link, subVars, draft, log, period, last>>

Request == [context : Contexts \cup {NoContext}, log_from : Nat]

\* of is a history field: the guid of the log the items were taken from.
NoSnapshot == [context |-> NoContext, of |-> 0, guid |-> 0, from |-> 0, upto |-> 0]
NoDraft == [phase |-> "none", request |-> NoRequest, snap |-> NoSnapshot,
            seq |-> 0, period |-> 0]
NoPush == [period |-> 0, seq |-> 0, snap |-> NoSnapshot]

LogEnd(c) == IF c \in Contexts THEN log[c].len ELSE 0
LogGuid(c) == IF c \in Contexts THEN log[c].guid ELSE 0

SeqBase == 1

Init ==
    /\ link = "new"
    /\ request = NoRequest /\ seq = 0 /\ owed = FALSE
    /\ draft = NoDraft
    /\ log = [c \in Contexts |-> [guid |-> 0, len |-> 0]]
    /\ period = 0 /\ last = NoPush

-----------------------------------------------------------------------------
(* The connection                                                          *)

Up ==
    /\ link = "new" /\ link' = "up"
    /\ UNCHANGED <<subVars, draft, log, period, last>>

Down ==
    /\ link = "up" /\ link' = "closing"
    /\ UNCHANGED <<subVars, draft, log, period, last>>

Gone ==
    /\ link = "closing" /\ link' = "gone"
    /\ request' = NoRequest /\ seq' = 0 /\ owed' = FALSE
    /\ draft' = NoDraft
    /\ UNCHANGED <<log, period, last>>

\* A new request starts a new period of the stream, even one that was routed
\* before the connection went away and is handled after.
Accept(r) ==
    /\ link # "new" /\ period < MaxRequests
    /\ request' = r /\ seq' = SeqBase /\ owed' = TRUE
    /\ period' = period + 1
    /\ UNCHANGED <<link, draft, log, last>>

-----------------------------------------------------------------------------
(* Logs                                                                    *)

Shows(c) == request # NoRequest /\ request.context = c

AppendUpdate(c) ==
    /\ log[c].len < MaxUpdates
    /\ log' = [log EXCEPT ![c].len = @ + 1]
    /\ owed' = (owed \/ Shows(c))
    /\ UNCHANGED <<link, request, seq, draft, period, last>>

ResetLog(c) ==
    /\ log[c].guid < MaxResets
    /\ log' = [log EXCEPT ![c] = [guid |-> @.guid + 1, len |-> 0]]
    /\ owed' = (owed \/ Shows(c))
    /\ UNCHANGED <<link, request, seq, draft, period, last>>

\* Another chat, a rename, a notification: any change of shared state may make a
\* push due.
Owe ==
    /\ request # NoRequest /\ seq < MaxSpurious
    /\ owed' = TRUE
    /\ UNCHANGED <<link, request, seq, draft, log, period, last>>

-----------------------------------------------------------------------------
(* A push                                                                  *)

Pick ==
    /\ draft.phase = "none"
    /\ request # NoRequest
    /\ owed \/ seq < MaxSpurious
    /\ draft' = [NoDraft EXCEPT !.phase = "read", !.request = request]
    /\ UNCHANGED <<link, subVars, log, period, last>>

Build ==
    /\ draft.phase = "read"
    /\ LET r == draft.request
       IN  draft' = [draft EXCEPT !.phase = "output",
                       !.snap = [NoSnapshot EXCEPT !.context = r.context, !.of = LogGuid(r.context),
                                   !.from = r.log_from, !.upto = LogEnd(r.context)]]
    /\ UNCHANGED <<link, subVars, log, period, last>>

\* The log is labelled with its guid after its items were read.
Label ==
    /\ draft.phase = "output"
    /\ draft' = [draft EXCEPT !.phase = "built",
                   !.snap.guid = LogGuid(draft.snap.context)]
    /\ UNCHANGED <<link, subVars, log, period, last>>

CarriesAll ==
    /\ draft.snap.upto = LogEnd(draft.snap.context)
    /\ draft.snap.of = LogGuid(draft.snap.context)

Commit ==
    /\ draft.phase = "built"
    /\ request = draft.request
    /\ request' = [request EXCEPT !.log_from = draft.snap.upto]
    /\ seq' = seq + 1
    /\ owed' \in BOOLEAN
    /\ IF owed' THEN ~CarriesAll \/ seq < MaxSpurious ELSE CarriesAll
    /\ draft' = [draft EXCEPT !.phase = "emit", !.seq = seq + 1, !.period = period]
    /\ UNCHANGED <<link, log, period, last>>

Discard ==
    /\ draft.phase = "built"
    /\ request # draft.request
    /\ draft' = NoDraft
    /\ UNCHANGED <<link, subVars, log, period, last>>

Emit ==
    /\ draft.phase = "emit"
    /\ last' = IF link = "up"
               THEN [period |-> draft.period, seq |-> draft.seq, snap |-> draft.snap]
               ELSE last
    /\ draft' = NoDraft
    /\ UNCHANGED <<link, subVars, log, period>>

Push == Pick \/ Build \/ Label \/ Commit \/ Discard \/ Emit

Next ==
    \/ Up \/ Down \/ Gone
    \/ \E c \in Contexts \cup {NoContext}, n \in LogFroms :
         Accept([context |-> c, log_from |-> n])
    \/ \E c \in Contexts : AppendUpdate(c) \/ ResetLog(c)
    \/ Owe
    \/ Push

Spec == Init /\ [][Next]_vars
=============================================================================
