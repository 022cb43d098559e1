---------------------------- MODULE StateMonitor ----------------------------
(***************************************************************************)
(* The push scheduler of the state-sync channel                            *)
(* (helpers/state_monitor.py), with the handler that feeds it              *)
(* (python/websocket_handlers/state_sync_handler.py), the log whose        *)
(* updates it pushes (helpers/log.py) and the snapshot it builds           *)
(* (helpers/state_snapshot.py).                                            *)
(*                                                                         *)
(* Three threads act on the same projections:                              *)
(*   - the dispatcher loop runs the call_soon_threadsafe callbacks, the    *)
(*     debounce timers and the push tasks; a push task only lets go of the *)
(*     loop when it awaits emit_to;                                        *)
(*   - the WebSocketHandlers loop runs on_connect, on_disconnect and       *)
(*     process_event;                                                      *)
(*   - agent and API threads append to, and reset, the logs.               *)
(* A step of this module is the code between two points where another      *)
(* thread can interfere: one critical section of the monitor's lock, one   *)
(* critical section of the log's lock, or one posted callback.             *)
(***************************************************************************)
EXTENDS Integers

CONSTANTS
    Sids,         \* Socket.IO connections; a sid is never reused
    Contexts,     \* chats
    NoContext,    \* the null context: the welcome screen
    NoRequest,    \* ConnectionProjection.request before any state_request
    LogFroms,     \* the cursors a client may ask from
    MaxUpdates,   \* bound: length of a log's update list
    MaxResets,    \* bound: resets of a log
    MaxRequests   \* bound: state_requests processed per sid

ASSUME BoundsAssumption ==
    /\ MaxUpdates \in Nat /\ MaxResets \in Nat /\ MaxRequests \in Nat
    /\ LogFroms \subseteq Nat

ASSUME ContextAssumption == NoContext \notin Contexts

ASSUME RequestAssumption ==
    NoRequest \notin [context : Contexts \cup {NoContext}, log_from : Nat]

VARIABLES
    link,        \* sid -> state of the socket as WebSocketManager sees it
    routed,      \* sid -> a state_request routed and not yet processed
    unmarked,    \* sids between update_projection and mark_dirty
    proj,        \* sid -> ConnectionProjection
    handle,      \* sids with a pending debounce timer
    marks,       \* sid -> posted _mark_dirty_on_loop callbacks
    scheds,      \* sid -> posted _schedule_debounce_on_loop callbacks
    task,        \* sid -> the push task
    log,         \* context -> its log: identity and number of updates
    unnotified,  \* context -> who the last log change is still to mark dirty
    period,      \* history: sid -> number of state_requests processed
    last         \* history: sid -> the last state_push handed to the socket

monitorVars == <<proj, handle, marks, scheds, task>>
handlerVars == <<link, routed, unmarked, period>>
logVars == <<log, unnotified>>
vars == <<monitorVars, handlerVars, logVars, last>>

-----------------------------------------------------------------------------
(* Types                                                                   *)

Request == [context : Contexts \cup {NoContext}, log_from : Nat]

Projection ==
    [registered : BOOLEAN, request : Request \cup {NoRequest},
     seq : Nat, seq_base : Nat, dirty : Nat, pushed : Nat]

\* of is a history field: the guid of the log the items were taken from.
Snapshot == [context : Contexts \cup {NoContext}, of : Nat, guid : Nat,
             from : Nat, upto : Nat]

\* A fresh ConnectionProjection, and what .get(identity) = None stands for.
NoProjection ==
    [registered |-> FALSE, request |-> NoRequest,
     seq |-> 0, seq_base |-> 0, dirty |-> 0, pushed |-> 0]

NoSnapshot == [context |-> NoContext, of |-> 0, guid |-> 0, from |-> 0, upto |-> 0]

Phases == {"none", "start", "read", "output", "built", "emit", "finish"}

Task == [phase : Phases, request : Request \cup {NoRequest}, base : Nat,
         snap : Snapshot, seq : Nat, period : Nat]

NoTask == [phase |-> "none", request |-> NoRequest, base |-> 0,
           snap |-> NoSnapshot, seq |-> 0, period |-> 0]

Push == [period : Nat, seq : Nat, snap : Snapshot]
NoPush == [period |-> 0, seq |-> 0, snap |-> NoSnapshot]

TypeOK ==
    /\ link \in [Sids -> {"new", "up", "closing", "gone"}]
    /\ routed \in [Sids -> Request \cup {NoRequest}]
    /\ unmarked \subseteq Sids
    /\ proj \in [Sids -> Projection]
    /\ handle \subseteq Sids
    /\ marks \in [Sids -> Nat]
    /\ scheds \in [Sids -> Nat]
    /\ task \in [Sids -> Task]
    /\ log \in [Contexts -> [guid : Nat, len : Nat]]
    /\ unnotified \in [Contexts -> {"nobody", "all", "context"}]
    /\ period \in [Sids -> Nat]
    /\ last \in [Sids -> Push]

Init ==
    /\ link = [s \in Sids |-> "new"]
    /\ routed = [s \in Sids |-> NoRequest]
    /\ unmarked = {}
    /\ proj = [s \in Sids |-> NoProjection]
    /\ handle = {}
    /\ marks = [s \in Sids |-> 0]
    /\ scheds = [s \in Sids |-> 0]
    /\ task = [s \in Sids |-> NoTask]
    /\ log = [c \in Contexts |-> [guid |-> 0, len |-> 0]]
    /\ unnotified = [c \in Contexts |-> "nobody"]
    /\ period = [s \in Sids |-> 0]
    /\ last = [s \in Sids |-> NoPush]

-----------------------------------------------------------------------------
(* The two loops: each runs one thing at a time                            *)

\* process_event has no await: nothing else runs on the handlers' loop between
\* its update_projection and its mark_dirty.
HandlerLoopFree == unmarked = {}

\* A push task holds the dispatcher loop from its first line to the await of
\* emit_to: build_snapshot_from_request awaits nothing.
DispatcherFree == \A s \in Sids : task[s].phase \notin {"read", "output", "built"}

SubscribedOnConnect(p) == p.registered
Subscribed(p) == p.registered /\ p.seq_base > 0

-----------------------------------------------------------------------------
(* Connections: WebSocketManager and StateSyncHandler                      *)

\* handle_connect, to the end of on_connect's register_sid.
Connect(s) ==
    /\ HandlerLoopFree
    /\ link[s] = "new"
    /\ link' = [link EXCEPT ![s] = "up"]
    /\ proj' = [proj EXCEPT ![s].registered = TRUE]
    /\ UNCHANGED <<routed, unmarked, handle, marks, scheds, task, logVars, period, last>>

\* handle_disconnect drops the connection first ...
CloseSocket(s) ==
    /\ link[s] = "up"
    /\ link' = [link EXCEPT ![s] = "closing"]
    /\ UNCHANGED <<routed, unmarked, monitorVars, logVars, period, last>>

\* ... and has on_disconnect run on the handlers' loop afterwards: unregister_sid
\* cancels the timer and the push task. The timer may already be running
\* _on_debounce_fire, waiting for the lock; its task then outlives the projection.
OnDisconnect(s) ==
    /\ HandlerLoopFree
    /\ link[s] = "closing"
    /\ link' = [link EXCEPT ![s] = "gone"]
    /\ \E firing \in BOOLEAN :
         task' = [task EXCEPT ![s] =
                    IF firing /\ s \in handle /\ DispatcherFree
                    THEN [NoTask EXCEPT !.phase = "start"] ELSE NoTask]
    /\ handle' = handle \ {s}
    /\ proj' = [proj EXCEPT ![s] = NoProjection]
    /\ UNCHANGED <<routed, unmarked, marks, scheds, logVars, period, last>>

\* A state_request reaches route_event, which looks up its handler and posts it
\* to the handlers' loop without asking whether the sid is still connected.
RouteRequest(s, r) ==
    /\ link[s] = "up"
    /\ routed[s] = NoRequest
    /\ period[s] < MaxRequests
    /\ routed' = [routed EXCEPT ![s] = r]
    /\ UNCHANGED <<link, unmarked, monitorVars, logVars, period, last>>

\* process_event up to and including update_projection. seq_base is always 1;
\* setdefault creates a projection when the sid has none any more.
SeqBaseUnset == -1
SeqBase == 1

UpdateProjection(s) ==
    /\ HandlerLoopFree
    /\ routed[s] # NoRequest
    /\ proj' = [proj EXCEPT ![s] =
                  [@ EXCEPT !.registered = TRUE, !.request = routed[s],
                            !.seq_base = SeqBase, !.seq = SeqBase]]
    /\ routed' = [routed EXCEPT ![s] = NoRequest]
    /\ unmarked' = unmarked \cup {s}
    /\ period' = [period EXCEPT ![s] = @ + 1]
    /\ UNCHANGED <<link, handle, marks, scheds, task, logVars, last>>

\* process_event's mark_dirty, posted to the dispatcher loop.
MarkRequestDirtyForgotten(s) ==
    /\ s \in unmarked
    /\ unmarked' = unmarked \ {s}
    /\ UNCHANGED <<link, routed, monitorVars, logVars, period, last>>

MarkRequestDirty(s) ==
    /\ s \in unmarked
    /\ unmarked' = unmarked \ {s}
    /\ marks' = [marks EXCEPT ![s] = @ + 1]
    /\ UNCHANGED <<link, routed, proj, handle, scheds, task, logVars, period, last>>

-----------------------------------------------------------------------------
(* Logs                                                                    *)

\* Log.log marks every sid dirty after its update is in the list; an update of
\* an existing item marks only the sids that show the context.
AppendUpdate(c) ==
    /\ unnotified[c] = "nobody"
    /\ log[c].len < MaxUpdates
    /\ log' = [log EXCEPT ![c].len = @ + 1]
    /\ \E whom \in {"all", "context"} : unnotified' = [unnotified EXCEPT ![c] = whom]
    /\ UNCHANGED <<monitorVars, handlerVars, last>>

\* Log.reset, called by chat_reset, which marks every sid dirty afterwards.
ResetLog(c) ==
    /\ unnotified[c] = "nobody"
    /\ log[c].guid < MaxResets
    /\ log' = [log EXCEPT ![c] = [guid |-> @.guid + 1, len |-> 0]]
    /\ unnotified' = [unnotified EXCEPT ![c] = "all"]
    /\ UNCHANGED <<monitorVars, handlerVars, last>>

\* mark_dirty_all and mark_dirty_for_context: the sids are read under the lock,
\* then one callback is posted to the dispatcher loop for each.
Targets(c, whom) ==
    {s \in Sids : /\ proj[s].registered
                  /\ whom = "context" => /\ proj[s].request # NoRequest
                                         /\ proj[s].request.context = c}

Notify(c) ==
    /\ unnotified[c] # "nobody"
    /\ marks' = [s \in Sids |-> IF s \in Targets(c, unnotified[c])
                                THEN marks[s] + 1 ELSE marks[s]]
    /\ unnotified' = [unnotified EXCEPT ![c] = "nobody"]
    /\ UNCHANGED <<handlerVars, proj, handle, scheds, task, log, last>>

-----------------------------------------------------------------------------
(* Callbacks and timers of the dispatcher loop                             *)

\* _schedule_debounce_on_loop: at most one timer, none while a push task runs,
\* and none before the handshake (INVARIANT.STATE.GATING).
Schedule(s) ==
    handle' = IF Subscribed(proj[s]) /\ task[s].phase = "none"
              THEN handle \cup {s} ELSE handle

\* A dirty counts even while a push is on its way out.
CountsWhenIdle(s) == proj[s].registered /\ task[s].phase = "none"
Counts(s) == proj[s].registered

RunMarkDirty(s) ==
    /\ DispatcherFree
    /\ marks[s] > 0
    /\ marks' = [marks EXCEPT ![s] = @ - 1]
    /\ proj' = IF Counts(s)
               THEN [proj EXCEPT ![s].dirty = @ + 1] ELSE proj
    /\ Schedule(s)
    /\ UNCHANGED <<handlerVars, scheds, task, logVars, last>>

RunSchedule(s) ==
    /\ DispatcherFree
    /\ scheds[s] > 0
    /\ scheds' = [scheds EXCEPT ![s] = @ - 1]
    /\ Schedule(s)
    /\ UNCHANGED <<handlerVars, proj, marks, task, logVars, last>>

\* _on_debounce_fire.
DebounceFire(s) ==
    /\ DispatcherFree
    /\ s \in handle
    /\ handle' = handle \ {s}
    /\ task' = IF task[s].phase = "none"
               THEN [task EXCEPT ![s] = [NoTask EXCEPT !.phase = "start"]] ELSE task
    /\ UNCHANGED <<handlerVars, proj, marks, scheds, logVars, last>>

-----------------------------------------------------------------------------
(* The push task: _flush_push                                              *)

Finish(s) == task' = [task EXCEPT ![s].phase = "finish"]

\* First critical section: the request and the dirty version to be pushed.
FlushRead(s) ==
    /\ DispatcherFree
    /\ task[s].phase = "start"
    /\ IF Subscribed(proj[s]) /\ proj[s].request # NoRequest
       THEN task' = [task EXCEPT ![s] =
                       [@ EXCEPT !.phase = "read", !.request = proj[s].request,
                                 !.base = proj[s].dirty]]
       ELSE Finish(s)
    /\ UNCHANGED <<handlerVars, proj, handle, marks, scheds, logVars, last>>

\* build_snapshot_from_request: log.output(start=log_from) under the log's lock ...
LogEnd(c) == IF c \in Contexts THEN log[c].len ELSE 0
LogGuid(c) == IF c \in Contexts THEN log[c].guid ELSE 0

FlushOutput(s) ==
    /\ task[s].phase = "read"
    /\ LET r == task[s].request
       IN  task' = [task EXCEPT ![s] =
                      [@ EXCEPT !.phase = "output",
                                !.snap = [NoSnapshot EXCEPT !.context = r.context, !.of = LogGuid(r.context),
                                            !.from = r.log_from, !.upto = LogEnd(r.context)]]]
    /\ UNCHANGED <<handlerVars, proj, handle, marks, scheds, logVars, last>>

\* ... and the log's guid, read later and without the lock.
FlushGuid(s) ==
    /\ task[s].phase = "output"
    /\ task' = [task EXCEPT ![s] =
                  [@ EXCEPT !.phase = "built", !.snap.guid = LogGuid(task[s].snap.context)]]
    /\ UNCHANGED <<handlerVars, proj, handle, marks, scheds, logVars, last>>

\* Second critical section: nothing is committed when the sid is gone or asked for
\* something else meanwhile; otherwise the sequence number, the cursors and the
\* pushed version advance. Dirties after the first section stay owed.
StillWanted(s) == proj[s].registered /\ proj[s].request = task[s].request

PushedUpTo(s) ==
    IF proj[s].pushed > task[s].base THEN proj[s].pushed ELSE task[s].base

\* advance_state_request_after_snapshot.
AdvancedToEnd(s) == [proj[s].request EXCEPT !.log_from = LogEnd(proj[s].request.context)]
Advanced(s) == [proj[s].request EXCEPT !.log_from = task[s].snap.upto]

FlushCommit(s) ==
    /\ task[s].phase = "built"
    /\ IF StillWanted(s)
       THEN /\ proj' = [proj EXCEPT ![s] =
                          [@ EXCEPT !.seq = proj[s].seq + 1,
                                    !.request = Advanced(s),
                                    !.pushed = PushedUpTo(s)]]
            /\ task' = [task EXCEPT ![s] =
                          [@ EXCEPT !.phase = "emit", !.seq = proj[s].seq + 1,
                                    !.period = period[s]]]
       ELSE Finish(s) /\ UNCHANGED proj
    /\ UNCHANGED <<handlerVars, handle, marks, scheds, logVars, last>>

\* await manager.emit_to: to the socket of a connected sid; a sid that was seen
\* before gets the push buffered for a reconnect that never comes.
FlushEmit(s) ==
    /\ DispatcherFree
    /\ task[s].phase = "emit"
    /\ last' = IF link[s] = "up"
               THEN [last EXCEPT ![s] = [period |-> task[s].period, seq |-> task[s].seq,
                                         snap |-> task[s].snap]]
               ELSE last
    /\ Finish(s)
    /\ UNCHANGED <<handlerVars, proj, handle, marks, scheds, logVars>>

\* The finally block, and the follow-up for dirties that arrived during the push.
NoFollowUp(s) == FALSE
FollowUp(s) == proj[s].registered /\ proj[s].dirty > proj[s].pushed

FlushFinish(s) ==
    /\ DispatcherFree
    /\ task[s].phase = "finish"
    /\ task' = [task EXCEPT ![s] = NoTask]
    /\ scheds' = IF FollowUp(s)
                 THEN [scheds EXCEPT ![s] = @ + 1] ELSE scheds
    /\ UNCHANGED <<handlerVars, proj, handle, marks, logVars, last>>

-----------------------------------------------------------------------------
(* The specification                                                       *)

DispatcherStep(s) ==
    \/ RunMarkDirty(s) \/ RunSchedule(s) \/ DebounceFire(s)
    \/ FlushRead(s) \/ FlushOutput(s) \/ FlushGuid(s) \/ FlushCommit(s)
    \/ FlushEmit(s) \/ FlushFinish(s)

Next ==
    \/ \E s \in Sids :
         \/ Connect(s) \/ CloseSocket(s) \/ OnDisconnect(s)
         \/ \E c \in Contexts \cup {NoContext}, n \in LogFroms :
              RouteRequest(s, [context |-> c, log_from |-> n])
         \/ UpdateProjection(s) \/ MarkRequestDirty(s)
         \/ DispatcherStep(s)
    \/ \E c \in Contexts : AppendUpdate(c) \/ ResetLog(c) \/ Notify(c)

Spec == Init /\ [][Next]_vars

\* Every posted callback is run, every timer fires, every started task goes on,
\* and a thread that appended to a log gets to its notification. Clients and
\* agents owe nothing: they may stop asking and logging at any time.
Fairness ==
    /\ \A s \in Sids :
         /\ WF_vars(RunMarkDirty(s)) /\ WF_vars(RunSchedule(s)) /\ WF_vars(DebounceFire(s))
         /\ WF_vars(FlushRead(s)) /\ WF_vars(FlushOutput(s)) /\ WF_vars(FlushGuid(s))
         /\ WF_vars(FlushCommit(s)) /\ WF_vars(FlushEmit(s)) /\ WF_vars(FlushFinish(s))
         /\ WF_vars(MarkRequestDirty(s))
    /\ \A c \in Contexts : WF_vars(Notify(c))

FairSpec == Spec /\ Fairness

-----------------------------------------------------------------------------
(* Properties                                                              *)

\* INVARIANT.STATE.GATING: a push is scheduled only for a sid whose state_request
\* was processed, whatever was marked dirty before it.
ScheduledOnlyAfterHandshake ==
    \A s \in handle : proj[s].registered /\ proj[s].request # NoRequest

\* No lost wake-up: when a subscribed sid is owed a push, something is under way
\* that will look at it again: a timer, a push task, a posted callback, or the
\* handler that is about to mark it dirty. _schedule_debounce_on_loop refuses to
\* schedule while a task runs, so this rests on the task's follow-up.
Owed(s) == Subscribed(proj[s]) /\ proj[s].dirty > proj[s].pushed

NoLostWakeup ==
    \A s \in Sids :
      Owed(s) => \/ s \in handle \/ s \in unmarked
                 \/ task[s].phase # "none"
                 \/ marks[s] > 0 \/ scheds[s] > 0

\* When nothing is owed and nothing is under way, the cursor of a subscribed sid
\* stands at the end of its context's log: no update was marked pushed that no
\* snapshot contained, although logs grow while snapshots are built.
Settled(s) ==
    /\ Subscribed(proj[s]) /\ proj[s].dirty = proj[s].pushed
    /\ marks[s] = 0 /\ s \notin unmarked
    /\ proj[s].request.context \in Contexts
         => unnotified[proj[s].request.context] = "nobody"

SettledMeansSynced ==
    \A s \in Sids :
      Settled(s) => proj[s].request.log_from = LogEnd(proj[s].request.context)

\* The pushes a socket sees form one gap-free stream per state_request
\* (INVARIANT.STATE.SEQ_MONOTONIC, SEQ_RESET_ON_REQUEST): consecutive sequence
\* numbers from seq_base + 1, each snapshot starting where the one before ended,
\* and no push of an earlier request after one of a later request.
Follows(b, a) ==
    \/ a.period > b.period /\ a.seq = SeqBase + 1
    \/ /\ a.period = b.period /\ a.seq = b.seq + 1
       /\ a.snap.context = b.snap.context /\ a.snap.from = b.snap.upto

StreamIsContiguous ==
    [][\A s \in Sids : last'[s] # last[s] => Follows(last[s], last'[s])]_vars

\* INVARIANT.STATE.INITIAL_SNAPSHOT: every state_request of a connection that stays
\* up is answered by a push of its own, unless another request replaces it.
EveryRequestIsAnswered ==
    \A s \in Sids : \A k \in 1..MaxRequests :
      (period[s] = k /\ link[s] = "up")
        ~> (last[s].period = k \/ period[s] # k \/ link[s] # "up")

\* Every update of a log is pushed to every connected sid that shows its context,
\* unless the log is reset or the sid asks for something else.
UpdatesReachSubscribers ==
    \A s \in Sids, c \in Contexts :
      \A n \in 1..MaxUpdates, k \in 1..MaxRequests, g \in 0..MaxResets :
        (/\ link[s] = "up" /\ period[s] = k /\ proj[s].request # NoRequest
         /\ proj[s].request.context = c /\ log[c] = [guid |-> g, len |-> n])
          ~> \/ last[s].period = k /\ last[s].snap.upto >= n
             \/ log[c].guid # g \/ period[s] # k \/ link[s] # "up"
=============================================================================
