------------------------- MODULE StateMonitorProofs -------------------------
(***************************************************************************)
(* Theorems about StateMonitor, for any number of connections and chats,   *)
(* any logs and any number of requests, and that it implements PushService *)
(* towards any one of them (the last section, the only one that uses       *)
(* PushRefinement and its assumption).                                     *)
(***************************************************************************)
EXTENDS PushRefinement, TLAPS

\* What the record updates of the monitor keep of a projection.
LEMMA ProjectionRegister ==
    ASSUME NEW p \in Projection PROVE [p EXCEPT !.registered = TRUE] \in Projection
BY DEF Projection

LEMMA ProjectionDirty ==
    ASSUME NEW p \in Projection PROVE [p EXCEPT !.dirty = @ + 1] \in Projection
BY DEF Projection

LEMMA ProjectionRequest ==
    ASSUME NEW p \in Projection, NEW r \in Request
    PROVE  [p EXCEPT !.registered = TRUE, !.request = r,
                     !.seq_base = SeqBase, !.seq = SeqBase] \in Projection
BY DEF Projection, SeqBase

LEMMA ProjectionCommit ==
    ASSUME NEW p \in Projection, NEW r \in Request, NEW m \in Nat, NEW n \in Nat
    PROVE  [p EXCEPT !.seq = m, !.request = r, !.pushed = n] \in Projection
BY DEF Projection

\* What the steps of a push task keep of the task.
LEMMA TaskPhase ==
    ASSUME NEW t \in Task, NEW ph \in Phases
    PROVE  /\ [t EXCEPT !.phase = ph] \in Task
           /\ [t EXCEPT !.phase = ph].phase = ph
BY DEF Task

LEMMA TaskRead ==
    ASSUME NEW t \in Task, NEW r \in Request \cup {NoRequest}, NEW n \in Nat
    PROVE  /\ [t EXCEPT !.phase = "read", !.request = r, !.base = n] \in Task
           /\ [t EXCEPT !.phase = "read", !.request = r, !.base = n].request = r
BY DEF Task, Phases

LEMMA TaskSnapshot ==
    ASSUME NEW t \in Task, NEW ph \in Phases, NEW sn \in Snapshot
    PROVE  /\ [t EXCEPT !.phase = ph, !.snap = sn] \in Task
           /\ [t EXCEPT !.phase = ph, !.snap = sn].request = t.request
BY DEF Task

LEMMA TaskCommit ==
    ASSUME NEW t \in Task, NEW n \in Nat, NEW k \in Nat
    PROVE  /\ [t EXCEPT !.phase = "emit", !.seq = n, !.period = k] \in Task
           /\ [t EXCEPT !.phase = "emit", !.seq = n, !.period = k].phase = "emit"
BY DEF Task, Phases

LEMMA InitialRecords ==
    /\ NoProjection \in Projection /\ NoTask \in Task /\ NoPush \in Push
    /\ NoSnapshot \in Snapshot /\ [NoTask EXCEPT !.phase = "start"] \in Task
BY DEF NoProjection, Projection, NoTask, Task, NoPush, Push, NoSnapshot, Snapshot, Phases

\* A push task that is building a snapshot knows the request it builds it for.
TaskHasRequest ==
    \A s \in Sids : task[s].phase \in {"read", "output", "built"} => task[s].request \in Request

TypeInv == TypeOK /\ TaskHasRequest

LEMMA TypeInvInit == Init => TypeInv
BY BoundsAssumption, InitialRecords DEF Init, TypeInv, TypeOK, TaskHasRequest, NoTask

LEMMA TypeInvStep == TypeInv /\ [Next]_vars => TypeInv'
<1> SUFFICES ASSUME TypeInv, [Next]_vars PROVE TypeInv'
  OBVIOUS
<1> USE DEF TypeInv
<1>1. ASSUME NEW s \in Sids, Connect(s) PROVE TypeInv'
  <2>1. [proj[s] EXCEPT !.registered = TRUE] \in Projection
    BY ProjectionRegister DEF TypeOK
  <2> QED
    BY <1>1, <2>1 DEF Connect, logVars, TypeOK, TaskHasRequest
<1>2. ASSUME NEW s \in Sids, CloseSocket(s) PROVE TypeInv'
  BY <1>2 DEF CloseSocket, monitorVars, logVars, TypeOK, TaskHasRequest
<1>3. ASSUME NEW s \in Sids, OnDisconnect(s) PROVE TypeInv'
  <2>1. PICK firing \in BOOLEAN :
          task' = [task EXCEPT ![s] = IF firing /\ s \in handle /\ DispatcherFree
                                      THEN [NoTask EXCEPT !.phase = "start"] ELSE NoTask]
    BY <1>3 DEF OnDisconnect
  <2>2. task' \in [Sids -> Task] /\ task'[s].phase \in {"start", "none"}
    BY <2>1, InitialRecords DEF TypeOK, NoTask
  <2>3. TaskHasRequest'
    BY <2>1, <2>2 DEF TaskHasRequest, TypeOK
  <2> QED
    BY <1>3, <2>2, <2>3, InitialRecords DEF OnDisconnect, logVars, TypeOK
<1>4. ASSUME NEW s \in Sids, NEW c \in Contexts \cup {NoContext}, NEW n \in LogFroms,
             RouteRequest(s, [context |-> c, log_from |-> n])
      PROVE TypeInv'
  <2>1. [context |-> c, log_from |-> n] \in Request
    BY BoundsAssumption DEF Request
  <2> QED
    BY <1>4, <2>1 DEF RouteRequest, monitorVars, logVars, TypeOK, TaskHasRequest
<1>5. ASSUME NEW s \in Sids, UpdateProjection(s) PROVE TypeInv'
  <2>1. routed[s] \in Request
    BY <1>5 DEF UpdateProjection, TypeOK
  <2>2. [proj[s] EXCEPT !.registered = TRUE, !.request = routed[s],
                        !.seq_base = SeqBase, !.seq = SeqBase] \in Projection
    BY <2>1, ProjectionRequest DEF TypeOK
  <2> QED
    BY <1>5, <2>2 DEF UpdateProjection, logVars, TypeOK, TaskHasRequest
<1>6. ASSUME NEW s \in Sids, MarkRequestDirty(s) PROVE TypeInv'
  BY <1>6 DEF MarkRequestDirty, logVars, TypeOK, TaskHasRequest
<1>7. ASSUME NEW s \in Sids, RunMarkDirty(s) PROVE TypeInv'
  <2>1. [proj[s] EXCEPT !.dirty = @ + 1] \in Projection
    BY ProjectionDirty DEF TypeOK
  <2> QED
    BY <1>7, <2>1 DEF RunMarkDirty, Counts, Schedule, handlerVars, logVars, TypeOK, TaskHasRequest
<1>8. ASSUME NEW s \in Sids, RunSchedule(s) PROVE TypeInv'
  BY <1>8 DEF RunSchedule, Schedule, handlerVars, logVars, TypeOK, TaskHasRequest
<1>9. ASSUME NEW s \in Sids, DebounceFire(s) PROVE TypeInv'
  <2>1. task' \in [Sids -> Task]
    BY <1>9, InitialRecords DEF DebounceFire, TypeOK
  <2>2. TaskHasRequest'
    BY <1>9 DEF DebounceFire, TypeOK, TaskHasRequest, NoTask
  <2> QED
    BY <1>9, <2>1, <2>2 DEF DebounceFire, handlerVars, logVars, TypeOK
<1>10. ASSUME NEW s \in Sids, FlushRead(s) PROVE TypeInv'
  <2>1. proj[s].request \in Request \cup {NoRequest} /\ proj[s].dirty \in Nat
    BY DEF TypeOK, Projection
  <2>2. /\ [task[s] EXCEPT !.phase = "finish"] \in Task
        /\ [task[s] EXCEPT !.phase = "read", !.request = proj[s].request,
                           !.base = proj[s].dirty] \in Task
    BY <2>1, TaskPhase, TaskRead DEF TypeOK, Phases
  <2>3. task' \in [Sids -> Task]
    BY <1>10, <2>2 DEF FlushRead, Finish, TypeOK
  <2>4. task'[s].phase = "finish" \/ task'[s].request \in Request
    <3>1. CASE Subscribed(proj[s]) /\ proj[s].request # NoRequest
      <4>1. task'[s] = [task[s] EXCEPT !.phase = "read", !.request = proj[s].request,
                                       !.base = proj[s].dirty]
        BY <1>10, <3>1 DEF FlushRead, TypeOK
      <4>2. task[s] \in Task
        BY DEF TypeOK
      <4>3. task'[s].request = proj[s].request
        BY <4>1, <4>2 DEF Task
      <4> QED
        BY <2>1, <3>1, <4>3
    <3>2. CASE ~(Subscribed(proj[s]) /\ proj[s].request # NoRequest)
      <4>1. task'[s] = [task[s] EXCEPT !.phase = "finish"]
        BY <1>10, <3>2 DEF FlushRead, Finish, TypeOK
      <4> QED
        BY <4>1, TaskPhase DEF TypeOK, Phases
    <3> QED
      BY <3>1, <3>2
  <2>5. \A x \in Sids \ {s} : task'[x] = task[x]
    BY <1>10 DEF FlushRead, Finish, TypeOK
  <2> QED
    BY <1>10, <2>3, <2>4, <2>5 DEF FlushRead, handlerVars, logVars, TypeOK, TaskHasRequest
<1>11. ASSUME NEW s \in Sids, FlushOutput(s) PROVE TypeInv'
  <2> DEFINE r == task[s].request
             sn == [NoSnapshot EXCEPT !.context = r.context, !.of = LogGuid(r.context),
                                      !.from = r.log_from, !.upto = LogEnd(r.context)]
             u == [task[s] EXCEPT !.phase = "output", !.snap = sn]
  <2>1. r \in Request
    BY <1>11 DEF FlushOutput, TaskHasRequest
  <2>2. LogEnd(r.context) \in Nat /\ LogGuid(r.context) \in Nat
    BY DEF LogEnd, LogGuid, TypeOK
  <2>3. sn \in Snapshot
    BY <2>1, <2>2 DEF Snapshot, NoSnapshot, Request
  <2>4. u \in Task /\ u.request = r
    BY <2>3, TaskSnapshot DEF TypeOK, Phases
  <2>5. task' = [task EXCEPT ![s] = u]
    BY <1>11 DEF FlushOutput
  <2> HIDE DEF u, r
  <2>6. task' \in [Sids -> Task] /\ TaskHasRequest'
    BY <2>1, <2>4, <2>5 DEF TypeOK, TaskHasRequest
  <2> QED
    BY <1>11, <2>6 DEF FlushOutput, handlerVars, logVars, TypeOK
<1>12. ASSUME NEW s \in Sids, FlushGuid(s) PROVE TypeInv'
  <2> DEFINE sn == [task[s].snap EXCEPT !.guid = LogGuid(task[s].snap.context)]
             u == [task[s] EXCEPT !.phase = "built", !.snap = sn]
  <2>1. LogGuid(task[s].snap.context) \in Nat
    BY DEF LogGuid, TypeOK
  <2>2. task[s].snap \in Snapshot
    BY DEF TypeOK, Task
  <2>3. sn \in Snapshot
    BY <2>1, <2>2 DEF Snapshot
  <2>4. u \in Task /\ u.request = task[s].request
    BY <2>3, TaskSnapshot DEF TypeOK, Phases
  <2>5. task' = [task EXCEPT ![s] = u] /\ task[s].request \in Request
    BY <1>12 DEF FlushGuid, TypeOK, TaskHasRequest, Task
  <2> HIDE DEF u
  <2>6. task' \in [Sids -> Task] /\ TaskHasRequest'
    BY <2>4, <2>5 DEF TypeOK, TaskHasRequest
  <2> QED
    BY <1>12, <2>6 DEF FlushGuid, handlerVars, logVars, TypeOK
<1>13. ASSUME NEW s \in Sids, FlushCommit(s) PROVE TypeInv'
  <2>1. /\ task[s].snap.upto \in Nat /\ PushedUpTo(s) \in Nat
        /\ proj[s].seq + 1 \in Nat /\ period[s] \in Nat
    BY DEF TypeOK, Task, Snapshot, PushedUpTo, Projection
  <2>2. StillWanted(s) => Advanced(s) \in Request
    BY <1>13, <2>1 DEF Advanced, FlushCommit, StillWanted, Request, TaskHasRequest
  <2>3. StillWanted(s) =>
          [proj[s] EXCEPT !.seq = proj[s].seq + 1,
             !.request = Advanced(s),
             !.pushed = PushedUpTo(s)] \in Projection
    <3>1. proj[s] \in Projection
      BY DEF TypeOK
    <3> QED
      BY <2>1, <2>2, <3>1, ProjectionCommit
  <2>4. proj' \in [Sids -> Projection]
    <3>1. CASE StillWanted(s)
      <4>1. proj' = [proj EXCEPT ![s] = [proj[s] EXCEPT !.seq = proj[s].seq + 1,
               !.request = Advanced(s),
               !.pushed = PushedUpTo(s)]]
        BY <1>13, <3>1 DEF FlushCommit
      <4> QED
        BY <2>3, <3>1, <4>1 DEF TypeOK
    <3>2. CASE ~StillWanted(s)
      BY <1>13, <3>2 DEF FlushCommit, TypeOK
    <3> QED
      BY <3>1, <3>2
  <2>5. /\ [task[s] EXCEPT !.phase = "finish"] \in Task
        /\ [task[s] EXCEPT !.phase = "emit", !.seq = proj[s].seq + 1, !.period = period[s]] \in Task
    BY <2>1, TaskPhase, TaskCommit DEF TypeOK, Phases
  <2>6. task' \in [Sids -> Task] /\ task'[s].phase \in {"emit", "finish"}
    <3>1. CASE StillWanted(s)
      <4>1. task' = [task EXCEPT ![s] = [task[s] EXCEPT !.phase = "emit", !.seq = proj[s].seq + 1,
                                                        !.period = period[s]]]
        BY <1>13, <3>1 DEF FlushCommit
      <4>2. LET u == [task[s] EXCEPT !.phase = "emit", !.seq = proj[s].seq + 1,
                                     !.period = period[s]]
            IN  u \in Task /\ u.phase = "emit"
        <5>1. task[s] \in Task
          BY DEF TypeOK
        <5> QED
          BY <2>1, <5>1, TaskCommit
      <4> QED
        BY <4>1, <4>2 DEF TypeOK
    <3>2. CASE ~StillWanted(s)
      <4>1. task' = [task EXCEPT ![s] = [task[s] EXCEPT !.phase = "finish"]]
        BY <1>13, <3>2 DEF FlushCommit, Finish
      <4> QED
        BY <4>1, TaskPhase DEF TypeOK, Phases
    <3> QED
      BY <3>1, <3>2
  <2>7. TaskHasRequest'
    BY <1>13, <2>6 DEF FlushCommit, Finish, TypeOK, TaskHasRequest
  <2> QED
    BY <1>13, <2>4, <2>6, <2>7 DEF FlushCommit, handlerVars, logVars, TypeOK
<1>14. ASSUME NEW s \in Sids, FlushEmit(s) PROVE TypeInv'
  <2>1. /\ [task[s] EXCEPT !.phase = "finish"] \in Task
        /\ [task[s] EXCEPT !.phase = "finish"].phase = "finish"
    BY TaskPhase DEF TypeOK, Phases
  <2>2. [period |-> task[s].period, seq |-> task[s].seq, snap |-> task[s].snap] \in Push
    BY DEF TypeOK, Task, Push
  <2>3. task' \in [Sids -> Task] /\ TaskHasRequest'
    BY <1>14, <2>1 DEF FlushEmit, Finish, TypeOK, TaskHasRequest
  <2> QED
    BY <1>14, <2>2, <2>3 DEF FlushEmit, handlerVars, logVars, TypeOK
<1>15. ASSUME NEW s \in Sids, FlushFinish(s) PROVE TypeInv'
  BY <1>15, InitialRecords DEF FlushFinish, handlerVars, logVars, TypeOK, TaskHasRequest, NoTask
<1>16. ASSUME NEW c \in Contexts, AppendUpdate(c) PROVE TypeInv'
  BY <1>16 DEF AppendUpdate, monitorVars, handlerVars, TypeOK, TaskHasRequest
<1>17. ASSUME NEW c \in Contexts, ResetLog(c) PROVE TypeInv'
  BY <1>17 DEF ResetLog, monitorVars, handlerVars, TypeOK, TaskHasRequest
<1>18. ASSUME NEW c \in Contexts, Notify(c) PROVE TypeInv'
  BY <1>18 DEF Notify, handlerVars, TypeOK, TaskHasRequest
<1>19. ASSUME UNCHANGED vars PROVE TypeInv'
  BY <1>19 DEF vars, monitorVars, handlerVars, logVars, TypeOK, TaskHasRequest
<1> QED
  BY <1>1, <1>2, <1>3, <1>4, <1>5, <1>6, <1>7, <1>8, <1>9, <1>10, <1>11, <1>12, <1>13,
     <1>14, <1>15, <1>16, <1>17, <1>18, <1>19 DEF Next, DispatcherStep

\* Every variable keeps its type: sequence numbers, versions and cursors stay
\* natural numbers and a push task is always in one of its phases.
THEOREM TypeCorrect == Spec => []TypeOK
<1>1. TypeInv => TypeOK
  BY DEF TypeInv
<1> QED
  BY <1>1, TypeInvInit, TypeInvStep, PTL DEF Spec

-----------------------------------------------------------------------------
(***************************************************************************)
(* No lost wake-up. The invariant says, besides, that timers exist only    *)
(* for subscribed sids, that a subscribed sid has a request, and that a    *)
(* sid without projection starts from a fresh one.                         *)
(***************************************************************************)
Gated ==
    /\ \A s \in handle : Subscribed(proj[s])
    /\ \A s \in Sids : Subscribed(proj[s]) => proj[s].request # NoRequest
    /\ \A s \in Sids : ~proj[s].registered => proj[s].seq_base = 0

WakeInv == TypeInv /\ Gated /\ NoLostWakeup

\* What FlushCommit makes of the request it advances.
LEMMA CommittedRequest ==
    ASSUME TypeInv, NEW s \in Sids, task[s].phase = "built", StillWanted(s)
    PROVE  /\ Advanced(s) \in Request
           /\ Advanced(s).log_from = task[s].snap.upto
           /\ Advanced(s).context = task[s].request.context
<1>1. task[s].request \in Request /\ proj[s].request = task[s].request
  BY DEF TypeInv, TaskHasRequest, StillWanted
<1>2. task[s].snap.upto \in Nat
  BY DEF TypeInv, TypeOK, Task, Snapshot
<1> QED
  BY <1>1, <1>2 DEF Advanced, Request

\* What the first and the second critical section of _flush_push do.
LEMMA ReadEffect ==
    ASSUME TypeInv, NEW s \in Sids, FlushRead(s)
    PROVE  /\ \A x \in Sids \ {s} : task'[x] = task[x]
           /\ \/ /\ Subscribed(proj[s]) /\ proj[s].request # NoRequest
                 /\ task'[s].phase = "read" /\ task'[s].request = proj[s].request
                 /\ task'[s].base = proj[s].dirty
              \/ task'[s].phase = "finish"
<1>1. task \in [Sids -> Task] /\ task[s] \in Task
  BY DEF TypeInv, TypeOK
<1>2. CASE Subscribed(proj[s]) /\ proj[s].request # NoRequest
  <2>1. task' = [task EXCEPT ![s] = [task[s] EXCEPT !.phase = "read", !.request = proj[s].request,
                                                    !.base = proj[s].dirty]]
    BY <1>2 DEF FlushRead
  <2> QED
    BY <1>1, <1>2, <2>1 DEF Task
<1>3. CASE ~(Subscribed(proj[s]) /\ proj[s].request # NoRequest)
  <2>1. task' = [task EXCEPT ![s] = [task[s] EXCEPT !.phase = "finish"]]
    BY <1>3 DEF FlushRead, Finish
  <2> QED
    BY <1>1, <2>1 DEF Task
<1> QED
  BY <1>2, <1>3

LEMMA CommitEffect ==
    ASSUME TypeInv, NEW s \in Sids, FlushCommit(s)
    PROVE  /\ \A x \in Sids \ {s} : task'[x] = task[x] /\ proj'[x] = proj[x]
           /\ \/ /\ StillWanted(s)
                 /\ task'[s].phase = "emit" /\ task'[s].seq = proj[s].seq + 1
                 /\ task'[s].period = period[s] /\ task'[s].snap = task[s].snap
                 /\ proj'[s].registered = proj[s].registered
                 /\ proj'[s].seq_base = proj[s].seq_base
                 /\ proj'[s].dirty = proj[s].dirty
                 /\ proj'[s].seq = proj[s].seq + 1
                 /\ proj'[s].pushed = PushedUpTo(s)
                 /\ proj'[s].request = Advanced(s)
              \/ ~StillWanted(s) /\ proj' = proj /\ task'[s].phase = "finish"
<1>1. /\ task \in [Sids -> Task] /\ task[s] \in Task
      /\ proj \in [Sids -> Projection] /\ proj[s] \in Projection
  BY DEF TypeInv, TypeOK
<1>2. CASE StillWanted(s)
  <2>1. task' = [task EXCEPT ![s] = [task[s] EXCEPT !.phase = "emit", !.seq = proj[s].seq + 1,
                                                    !.period = period[s]]]
    BY <1>2 DEF FlushCommit
  <2>2. proj' = [proj EXCEPT ![s] = [proj[s] EXCEPT !.seq = proj[s].seq + 1,
                                       !.request = Advanced(s), !.pushed = PushedUpTo(s)]]
    BY <1>2 DEF FlushCommit
  <2>3. /\ task'[s].phase = "emit" /\ task'[s].seq = proj[s].seq + 1
        /\ task'[s].period = period[s] /\ task'[s].snap = task[s].snap
    BY <1>1, <2>1 DEF Task
  <2>4. /\ proj'[s].registered = proj[s].registered
        /\ proj'[s].seq_base = proj[s].seq_base
        /\ proj'[s].dirty = proj[s].dirty
        /\ proj'[s].seq = proj[s].seq + 1
        /\ proj'[s].pushed = PushedUpTo(s)
        /\ proj'[s].request = Advanced(s)
    BY <1>1, <2>2 DEF Projection
  <2> QED
    BY <1>1, <1>2, <2>1, <2>2, <2>3, <2>4
<1>3. CASE ~StillWanted(s)
  <2>1. proj' = proj /\ task' = [task EXCEPT ![s] = [task[s] EXCEPT !.phase = "finish"]]
    BY <1>3 DEF FlushCommit, Finish
  <2> QED
    BY <1>1, <1>3, <2>1 DEF Task
<1> QED
  BY <1>2, <1>3

LEMMA WakeInvInit == Init => WakeInv
BY TypeInvInit DEF Init, WakeInv, Gated, NoLostWakeup, Owed, Subscribed, NoProjection

LEMMA WakeInvStep == WakeInv /\ [Next]_vars => WakeInv'
<1> SUFFICES ASSUME WakeInv, [Next]_vars PROVE (Gated /\ NoLostWakeup)'
  BY TypeInvStep DEF WakeInv
<1>0. TypeInv /\ TypeOK /\ TypeOK' /\ Gated /\ NoLostWakeup
  BY TypeInvStep DEF WakeInv, TypeInv
<1>13. ASSUME NEW s \in Sids, FlushCommit(s) PROVE (Gated /\ NoLostWakeup)'
  <2>1. /\ task'[s].phase # "none"
        /\ \A x \in Sids \ {s} : task'[x] = task[x] /\ proj'[x] = proj[x]
        /\ proj'[s].registered = proj[s].registered /\ proj'[s].seq_base = proj[s].seq_base
        /\ \/ proj'[s].request = proj[s].request
           \/ proj'[s].request = Advanced(s) /\ StillWanted(s)
    BY <1>0, <1>13, CommitEffect
  <2>2. StillWanted(s) => Advanced(s) # NoRequest
    BY <1>0, <1>13, CommittedRequest, RequestAssumption DEF FlushCommit, Request
  <2>3. handle' = handle /\ marks' = marks /\ scheds' = scheds /\ unmarked' = unmarked
    BY <1>13 DEF FlushCommit, handlerVars
  <2> QED
    BY <1>0, <2>1, <2>2, <2>3 DEF TypeOK, Gated, NoLostWakeup, Owed, Subscribed
<1> USE <1>0 DEF TypeOK, Gated, NoLostWakeup, Owed, Subscribed
<1>1. ASSUME NEW s \in Sids, Connect(s) PROVE (Gated /\ NoLostWakeup)'
  BY <1>1 DEF Connect, logVars, Projection
<1>2. ASSUME NEW s \in Sids, CloseSocket(s) PROVE (Gated /\ NoLostWakeup)'
  BY <1>2 DEF CloseSocket, monitorVars, logVars
<1>3. ASSUME NEW s \in Sids, OnDisconnect(s) PROVE (Gated /\ NoLostWakeup)'
  BY <1>3 DEF OnDisconnect, NoProjection, logVars
<1>4. ASSUME NEW s \in Sids, NEW c \in Contexts \cup {NoContext}, NEW n \in LogFroms,
             RouteRequest(s, [context |-> c, log_from |-> n])
      PROVE (Gated /\ NoLostWakeup)'
  BY <1>4 DEF RouteRequest, monitorVars, logVars
<1>5. ASSUME NEW s \in Sids, UpdateProjection(s) PROVE (Gated /\ NoLostWakeup)'
  BY <1>5 DEF UpdateProjection, SeqBase, logVars
<1>6. ASSUME NEW s \in Sids, MarkRequestDirty(s) PROVE (Gated /\ NoLostWakeup)'
  BY <1>6 DEF MarkRequestDirty, logVars
<1>7. ASSUME NEW s \in Sids, RunMarkDirty(s) PROVE (Gated /\ NoLostWakeup)'
  BY <1>7 DEF RunMarkDirty, Counts, Schedule, handlerVars, logVars
<1>8. ASSUME NEW s \in Sids, RunSchedule(s) PROVE (Gated /\ NoLostWakeup)'
  BY <1>8 DEF RunSchedule, Schedule, handlerVars, logVars
<1>9. ASSUME NEW s \in Sids, DebounceFire(s) PROVE (Gated /\ NoLostWakeup)'
  BY <1>9 DEF DebounceFire, NoTask, handlerVars, logVars
<1>10. ASSUME NEW s \in Sids, FlushRead(s) PROVE (Gated /\ NoLostWakeup)'
  <2>1. task'[s].phase # "none" /\ \A x \in Sids \ {s} : task'[x] = task[x]
    BY <1>10, ReadEffect
  <2> QED
    BY <1>10, <2>1 DEF FlushRead, handlerVars, logVars
<1>11. ASSUME NEW s \in Sids, FlushOutput(s) PROVE (Gated /\ NoLostWakeup)'
  BY <1>11 DEF FlushOutput, handlerVars, logVars
<1>12. ASSUME NEW s \in Sids, FlushGuid(s) PROVE (Gated /\ NoLostWakeup)'
  BY <1>12 DEF FlushGuid, handlerVars, logVars
<1>14. ASSUME NEW s \in Sids, FlushEmit(s) PROVE (Gated /\ NoLostWakeup)'
  BY <1>14 DEF FlushEmit, Finish, handlerVars, logVars
<1>15. ASSUME NEW s \in Sids, FlushFinish(s) PROVE (Gated /\ NoLostWakeup)'
  BY <1>15 DEF FlushFinish, FollowUp, NoTask, handlerVars, logVars
<1>16. ASSUME NEW c \in Contexts, AppendUpdate(c) PROVE (Gated /\ NoLostWakeup)'
  BY <1>16 DEF AppendUpdate, monitorVars, handlerVars
<1>17. ASSUME NEW c \in Contexts, ResetLog(c) PROVE (Gated /\ NoLostWakeup)'
  BY <1>17 DEF ResetLog, monitorVars, handlerVars
<1>18. ASSUME NEW c \in Contexts, Notify(c) PROVE (Gated /\ NoLostWakeup)'
  BY <1>18 DEF Notify, handlerVars
<1>19. ASSUME UNCHANGED vars PROVE (Gated /\ NoLostWakeup)'
  BY <1>19 DEF vars, monitorVars, handlerVars, logVars
<1> QED
  BY <1>1, <1>2, <1>3, <1>4, <1>5, <1>6, <1>7, <1>8, <1>9, <1>10, <1>11, <1>12, <1>13, <1>14, <1>15, <1>16, <1>17, <1>18, <1>19 DEF Next, DispatcherStep

\* A push is scheduled only for a sid whose state_request was processed.
THEOREM GatingHolds == Spec => []ScheduledOnlyAfterHandshake
<1>1. WakeInv => ScheduledOnlyAfterHandshake
  BY DEF WakeInv, TypeInv, TypeOK, Gated, ScheduledOnlyAfterHandshake, Subscribed
<1> QED
  BY <1>1, WakeInvInit, WakeInvStep, PTL DEF Spec

\* A subscribed sid that is owed a push always has something under way that will
\* look at it again.
THEOREM NoWakeupIsLost == Spec => []NoLostWakeup
<1>1. WakeInv => NoLostWakeup
  BY DEF WakeInv
<1> QED
  BY <1>1, WakeInvInit, WakeInvStep, PTL DEF Spec

-----------------------------------------------------------------------------
(* What the pushes carry                                                   *)


\* What each action makes of the projection and of the push task.
LEMMA Records ==
    ASSUME TypeInv, NEW s \in Sids
    PROVE  /\ proj \in [Sids -> Projection] /\ proj[s] \in Projection
           /\ task \in [Sids -> Task] /\ task[s] \in Task
           /\ proj[s].dirty \in Nat /\ proj[s].pushed \in Nat /\ proj[s].seq \in Nat
           /\ marks \in [Sids -> Nat] /\ marks[s] \in Nat
           /\ period[s] \in Nat /\ last[s].period \in Nat
<1>1. /\ proj \in [Sids -> Projection] /\ task \in [Sids -> Task] /\ marks \in [Sids -> Nat]
      /\ period \in [Sids -> Nat] /\ last \in [Sids -> Push]
  BY DEF TypeInv, TypeOK
<1>2. /\ proj[s] \in Projection /\ task[s] \in Task /\ marks[s] \in Nat
      /\ period[s] \in Nat /\ last[s] \in Push
  BY <1>1
<1>3. proj[s].dirty \in Nat /\ proj[s].pushed \in Nat /\ proj[s].seq \in Nat
  BY <1>2 DEF Projection
<1>4. last[s].period \in Nat
  BY <1>2 DEF Push
<1> QED
  BY <1>1, <1>2, <1>3, <1>4

LEMMA RegisterEffect ==
    ASSUME NEW p \in Projection
    PROVE  LET q == [p EXCEPT !.registered = TRUE]
           IN  /\ q.registered = TRUE /\ q.request = p.request /\ q.seq = p.seq
               /\ q.seq_base = p.seq_base /\ q.dirty = p.dirty /\ q.pushed = p.pushed
BY DEF Projection

LEMMA DirtyEffect ==
    ASSUME NEW p \in Projection
    PROVE  LET q == [p EXCEPT !.dirty = @ + 1]
           IN  /\ q.registered = p.registered /\ q.request = p.request /\ q.seq = p.seq
               /\ q.seq_base = p.seq_base /\ q.dirty = p.dirty + 1 /\ q.pushed = p.pushed
BY DEF Projection

LEMMA RequestEffect ==
    ASSUME NEW p \in Projection, NEW r
    PROVE  LET q == [p EXCEPT !.registered = TRUE, !.request = r,
                              !.seq_base = SeqBase, !.seq = SeqBase]
           IN  /\ q.registered = TRUE /\ q.request = r /\ q.seq = SeqBase
               /\ q.seq_base = SeqBase /\ q.dirty = p.dirty /\ q.pushed = p.pushed
BY DEF Projection

LEMMA OutputEffect ==
    ASSUME TypeInv, NEW s \in Sids, FlushOutput(s)
    PROVE  /\ \A x \in Sids \ {s} : task'[x] = task[x]
           /\ task'[s].phase = "output"
           /\ task'[s].request = task[s].request /\ task'[s].base = task[s].base
           /\ task'[s].snap.context = task[s].request.context
           /\ task'[s].snap.from = task[s].request.log_from
           /\ task'[s].snap.upto = LogEnd(task[s].request.context)
           /\ task'[s].snap.of = LogGuid(task[s].request.context)
<1> DEFINE r == task[s].request
           sn == [NoSnapshot EXCEPT !.context = r.context, !.of = LogGuid(r.context),
                                    !.from = r.log_from, !.upto = LogEnd(r.context)]
<1>1. task' = [task EXCEPT ![s] = [task[s] EXCEPT !.phase = "output", !.snap = sn]]
  BY DEF FlushOutput
<1>2. /\ sn.context = r.context /\ sn.from = r.log_from
      /\ sn.upto = LogEnd(r.context) /\ sn.of = LogGuid(r.context)
  BY DEF NoSnapshot
<1> HIDE DEF sn
<1>3. task \in [Sids -> Task] /\ task[s] \in Task
  BY Records
<1>4. /\ [task[s] EXCEPT !.phase = "output", !.snap = sn].phase = "output"
      /\ [task[s] EXCEPT !.phase = "output", !.snap = sn].request = task[s].request
      /\ [task[s] EXCEPT !.phase = "output", !.snap = sn].base = task[s].base
      /\ [task[s] EXCEPT !.phase = "output", !.snap = sn].snap = sn
  BY <1>3 DEF Task
<1> QED
  BY <1>1, <1>2, <1>3, <1>4

LEMMA GuidEffect ==
    ASSUME TypeInv, NEW s \in Sids, FlushGuid(s)
    PROVE  /\ \A x \in Sids \ {s} : task'[x] = task[x]
           /\ task'[s].phase = "built"
           /\ task'[s].request = task[s].request /\ task'[s].base = task[s].base
           /\ task'[s].snap.context = task[s].snap.context
           /\ task'[s].snap.from = task[s].snap.from
           /\ task'[s].snap.upto = task[s].snap.upto /\ task'[s].snap.of = task[s].snap.of
<1> DEFINE sn == [task[s].snap EXCEPT !.guid = LogGuid(task[s].snap.context)]
<1>1. task \in [Sids -> Task] /\ task[s] \in Task /\ task[s].snap \in Snapshot
  BY Records DEF Task
<1>2. task' = [task EXCEPT ![s] = [task[s] EXCEPT !.phase = "built", !.snap = sn]]
  BY <1>1 DEF FlushGuid, Task
<1>3. /\ sn.context = task[s].snap.context /\ sn.from = task[s].snap.from
      /\ sn.upto = task[s].snap.upto /\ sn.of = task[s].snap.of
  BY <1>1 DEF Snapshot
<1> HIDE DEF sn
<1>4. /\ [task[s] EXCEPT !.phase = "built", !.snap = sn].phase = "built"
      /\ [task[s] EXCEPT !.phase = "built", !.snap = sn].request = task[s].request
      /\ [task[s] EXCEPT !.phase = "built", !.snap = sn].base = task[s].base
      /\ [task[s] EXCEPT !.phase = "built", !.snap = sn].snap = sn
  BY <1>1 DEF Task
<1> QED
  BY <1>1, <1>2, <1>3, <1>4

\* Steps that only end, start or finish a task.
LEMMA TaskEffect ==
    ASSUME TypeInv, NEW s \in Sids,
           OnDisconnect(s) \/ DebounceFire(s) \/ FlushEmit(s) \/ FlushFinish(s)
    PROVE  /\ \A x \in Sids \ {s} : task'[x] = task[x]
           /\ task'[s] = task[s] \/ task'[s].phase \in {"none", "start", "finish"}
<1>1. task \in [Sids -> Task] /\ task[s] \in Task
  BY Records
<1>2. [task[s] EXCEPT !.phase = "finish"].phase = "finish"
  BY <1>1 DEF Task
<1>3. NoTask.phase = "none" /\ [NoTask EXCEPT !.phase = "start"].phase = "start"
  BY DEF NoTask
<1> QED
  BY <1>1, <1>2, <1>3 DEF OnDisconnect, DebounceFire, FlushEmit, Finish, FlushFinish

-----------------------------------------------------------------------------
(***************************************************************************)
(* Settled means synced. Dirties are counted by callbacks of the           *)
(* dispatcher loop, and a push task holds that loop while it builds: what  *)
(* it marks as pushed is all that was dirty, so the snapshot has to        *)
(* contain all that has been announced.                                    *)
(***************************************************************************)
Building == {"read", "output", "built"}

\* A change of the log of c will make s dirty again.
Told(s, c) == marks[s] > 0 \/ s \in unmarked \/ (c \in Contexts /\ unnotified[c] # "nobody")

AskedIfRequest(s) == ~proj[s].registered => proj[s].request = NoRequest

VersionsOrdered(s) == proj[s].pushed <= proj[s].dirty

BaseIsDirty(s) == task[s].phase \in Building => task[s].base = proj[s].dirty

SnapshotIsUpToDate(s) ==
    task[s].phase \in {"output", "built"} /\ StillWanted(s) =>
        \/ Told(s, task[s].request.context)
        \/ /\ task[s].snap.upto = LogEnd(task[s].request.context)
           /\ task[s].snap.of = LogGuid(task[s].request.context)

CursorIsUpToDate(s) ==
    Subscribed(proj[s]) =>
        \/ proj[s].dirty > proj[s].pushed \/ Told(s, proj[s].request.context)
        \/ proj[s].request.log_from = LogEnd(proj[s].request.context)

SyncedSid(s) ==
    /\ AskedIfRequest(s) /\ VersionsOrdered(s) /\ BaseIsDirty(s)
    /\ SnapshotIsUpToDate(s) /\ CursorIsUpToDate(s)

SyncInv == WakeInv /\ \A s \in Sids : SyncedSid(s)

LEMMA SyncInvInit == Init => SyncInv
BY WakeInvInit DEF Init, SyncInv, SyncedSid, AskedIfRequest, VersionsOrdered, BaseIsDirty, SnapshotIsUpToDate,
   CursorIsUpToDate, Subscribed, NoProjection, NoTask, Building

\* A sid that a step does not touch.
LEMMA SyncFrame ==
    ASSUME NEW s \in Sids, SyncedSid(s),
           proj'[s] = proj[s], task'[s] = task[s], marks'[s] = marks[s],
           s \in unmarked => s \in unmarked', UNCHANGED logVars
    PROVE  SyncedSid(s)'
BY DEF SyncedSid, AskedIfRequest, VersionsOrdered, BaseIsDirty, SnapshotIsUpToDate, CursorIsUpToDate, StillWanted,
       Told, LogEnd, LogGuid, logVars

\* A step by which s will become dirty again.
LEMMA SyncTold ==
    ASSUME NEW s \in Sids, SyncedSid(s),
           proj'[s].dirty = proj[s].dirty, proj'[s].pushed = proj[s].pushed,
           ~proj'[s].registered => proj'[s].request = NoRequest,
           task'[s] = task[s], marks'[s] > 0 \/ s \in unmarked'
    PROVE  SyncedSid(s)'
BY DEF SyncedSid, AskedIfRequest, VersionsOrdered, BaseIsDirty, SnapshotIsUpToDate, CursorIsUpToDate, Told

\* A step that ends, starts or finishes the task.
LEMMA SyncTask ==
    ASSUME NEW s \in Sids, SyncedSid(s),
           proj'[s] = proj[s], marks'[s] = marks[s], UNCHANGED <<unmarked, logVars>>,
           task'[s] = task[s] \/ task'[s].phase \in {"none", "start", "finish"}
    PROVE  SyncedSid(s)'
BY DEF SyncedSid, AskedIfRequest, VersionsOrdered, BaseIsDirty, SnapshotIsUpToDate, CursorIsUpToDate, StillWanted,
       Told, LogEnd, LogGuid, logVars, Building

\* A log changes, but nobody has been told yet.
LEMMA SyncLog ==
    ASSUME TypeInv, NEW s \in Sids, SyncedSid(s), NEW c \in Contexts,
           UNCHANGED <<proj, task, marks, unmarked>>,
           \A d \in Contexts \ {c} : log'[d] = log[d] /\ unnotified'[d] = unnotified[d],
           unnotified'[c] # "nobody"
    PROVE  SyncedSid(s)'
BY DEF SyncedSid, AskedIfRequest, VersionsOrdered, BaseIsDirty, SnapshotIsUpToDate, CursorIsUpToDate, StillWanted,
       Told, LogEnd, LogGuid

LEMMA SyncInvStep == SyncInv /\ [Next]_vars => SyncInv'
<1> SUFFICES ASSUME SyncInv, [Next]_vars, NEW x \in Sids PROVE SyncedSid(x)'
  BY WakeInvStep DEF SyncInv
<1>0. TypeInv /\ Gated /\ SyncedSid(x) /\ proj \in [Sids -> Projection] /\ proj[x] \in Projection
      /\ task \in [Sids -> Task] /\ marks \in [Sids -> Nat]
      /\ proj[x].dirty \in Nat /\ proj[x].pushed \in Nat
  BY Records DEF SyncInv, WakeInv
<1>1. ASSUME NEW s \in Sids, Connect(s) PROVE SyncedSid(x)'
  <2>1. UNCHANGED <<task, marks, unmarked, logVars>>
        /\ proj' = [proj EXCEPT ![s] = [proj[s] EXCEPT !.registered = TRUE]]
    BY <1>1 DEF Connect
  <2>2. CASE x # s
    BY <1>0, <2>1, <2>2, SyncFrame
  <2>3. CASE x = s
    <3>1. proj'[x] = [proj[x] EXCEPT !.registered = TRUE]
      BY <1>0, <2>1, <2>3
    <3>2. /\ proj'[x].request = proj[x].request /\ proj'[x].seq_base = proj[x].seq_base
          /\ proj'[x].dirty = proj[x].dirty /\ proj'[x].pushed = proj[x].pushed
          /\ proj'[x].registered = TRUE
      BY <1>0, <3>1, RegisterEffect
    <3>3. CASE proj[x].registered
      BY <1>0, <2>1, <3>2, <3>3
         DEF SyncedSid, AskedIfRequest, VersionsOrdered, BaseIsDirty, SnapshotIsUpToDate,
             CursorIsUpToDate, Subscribed, StillWanted, Told, LogEnd, LogGuid, logVars
    <3>4. CASE ~proj[x].registered
      <4>1. ~Subscribed(proj'[x])
        BY <1>0, <3>2, <3>4 DEF Gated, Subscribed
      <4>2. task[x].phase \in {"output", "built"} => task[x].request # NoRequest
        BY <1>0, RequestAssumption DEF TypeInv, TaskHasRequest, Request
      <4>3. proj'[x].request = NoRequest
        BY <1>0, <3>2, <3>4 DEF SyncedSid, AskedIfRequest
      <4>4. ~(task'[x].phase \in {"output", "built"} /\ StillWanted(x)')
        BY <2>1, <4>2, <4>3 DEF StillWanted
      <4> QED
        BY <1>0, <2>1, <3>2, <4>1, <4>4
           DEF SyncedSid, AskedIfRequest, VersionsOrdered, BaseIsDirty, SnapshotIsUpToDate, CursorIsUpToDate
    <3> QED
      BY <3>3, <3>4
  <2> QED
    BY <2>2, <2>3
<1>2. ASSUME NEW s \in Sids,
             CloseSocket(s) \/ (\E c \in Contexts \cup {NoContext}, n \in LogFroms :
                                   RouteRequest(s, [context |-> c, log_from |-> n]))
      PROVE  SyncedSid(x)'
  <2>1. UNCHANGED <<proj, task, marks, unmarked, logVars>>
    BY <1>2 DEF CloseSocket, RouteRequest, monitorVars
  <2> QED
    BY <1>0, <2>1, SyncFrame
<1>3. ASSUME NEW s \in Sids, OnDisconnect(s) PROVE SyncedSid(x)'
  <2>1. UNCHANGED <<marks, unmarked, logVars>> /\ proj' = [proj EXCEPT ![s] = NoProjection]
    BY <1>3 DEF OnDisconnect
  <2>2. /\ \A y \in Sids \ {s} : task'[y] = task[y]
        /\ task'[s].phase \in {"none", "start"}
    BY <1>0, <1>3 DEF OnDisconnect, NoTask
  <2>3. CASE x # s
    BY <1>0, <2>1, <2>2, <2>3, SyncFrame
  <2>4. CASE x = s
    <3>1. proj'[x] = NoProjection
      BY <1>0, <2>1, <2>4
    <3> QED
      BY <2>2, <2>4, <3>1
         DEF SyncedSid, AskedIfRequest, VersionsOrdered, BaseIsDirty, SnapshotIsUpToDate,
             CursorIsUpToDate, Subscribed, NoProjection, Building
  <2> QED
    BY <2>3, <2>4
<1>5. ASSUME NEW s \in Sids, UpdateProjection(s) PROVE SyncedSid(x)'
  <2>1. /\ UNCHANGED <<task, marks, logVars>> /\ unmarked' = unmarked \cup {s}
        /\ proj' = [proj EXCEPT ![s] = [proj[s] EXCEPT !.registered = TRUE, !.request = routed[s],
                                                       !.seq_base = SeqBase, !.seq = SeqBase]]
    BY <1>5 DEF UpdateProjection
  <2>2. CASE x # s
    BY <1>0, <2>1, <2>2, SyncFrame
  <2>3. CASE x = s
    <3>1. proj'[x] = [proj[x] EXCEPT !.registered = TRUE, !.request = routed[s],
                                     !.seq_base = SeqBase, !.seq = SeqBase]
      BY <1>0, <2>1, <2>3
    <3>2. proj'[x].registered = TRUE /\ proj'[x].dirty = proj[x].dirty /\ proj'[x].pushed = proj[x].pushed
      BY <1>0, <3>1, RequestEffect
    <3> QED
      BY <1>0, <2>1, <2>3, <3>2, SyncTold
  <2> QED
    BY <2>2, <2>3
<1>6. ASSUME NEW s \in Sids, MarkRequestDirty(s) PROVE SyncedSid(x)'
  <2>1. /\ UNCHANGED <<proj, task, logVars>> /\ unmarked' = unmarked \ {s}
        /\ marks' = [marks EXCEPT ![s] = @ + 1]
    BY <1>6 DEF MarkRequestDirty
  <2>2. CASE x # s
    BY <1>0, <2>1, <2>2, SyncFrame
  <2>3. CASE x = s
    <3>1. marks'[x] > 0
      BY <1>0, <2>1, <2>3
    <3> QED
      BY <1>0, <2>1, <3>1, SyncTold DEF SyncedSid, AskedIfRequest
  <2> QED
    BY <2>2, <2>3
<1>7. ASSUME NEW s \in Sids, RunMarkDirty(s) PROVE SyncedSid(x)'
  <2>1. /\ UNCHANGED <<task, unmarked, logVars>> /\ DispatcherFree
        /\ marks' = [marks EXCEPT ![s] = marks[s] - 1]
        /\ proj' = IF proj[s].registered
                   THEN [proj EXCEPT ![s] = [proj[s] EXCEPT !.dirty = @ + 1]] ELSE proj
    BY <1>0, <1>7 DEF RunMarkDirty, Counts, handlerVars, Projection
  <2>2. CASE x # s
    BY <1>0, <2>1, <2>2, SyncFrame
  <2>3. CASE x = s
    <3>1. task'[x].phase \notin Building
      BY <2>1 DEF DispatcherFree, Building
    <3>2. CASE proj[x].registered
      <4>1. proj'[x] = [proj[x] EXCEPT !.dirty = @ + 1]
        BY <1>0, <2>1, <2>3, <3>2
      <4>2. /\ proj'[x].registered = proj[x].registered /\ proj'[x].dirty = proj[x].dirty + 1
            /\ proj'[x].pushed = proj[x].pushed
        BY <1>0, <4>1, DirtyEffect
      <4>3. proj'[x].dirty > proj'[x].pushed
        BY <1>0, <4>2 DEF SyncedSid, VersionsOrdered
      <4>4. proj'[x].pushed <= proj'[x].dirty
        BY <1>0, <4>2 DEF SyncedSid, VersionsOrdered
      <4> QED
        BY <3>1, <3>2, <4>2, <4>3, <4>4
           DEF SyncedSid, AskedIfRequest, VersionsOrdered, BaseIsDirty, SnapshotIsUpToDate,
               CursorIsUpToDate, Building
    <3>3. CASE ~proj[x].registered
      <4>1. proj' = proj
        BY <2>1, <2>3, <3>3
      <4> QED
        BY <1>0, <3>1, <3>3, <4>1
           DEF SyncedSid, AskedIfRequest, VersionsOrdered, BaseIsDirty, SnapshotIsUpToDate,
               CursorIsUpToDate, Subscribed, Building
    <3> QED
      BY <3>2, <3>3
  <2> QED
    BY <2>2, <2>3
<1>8. ASSUME NEW s \in Sids, RunSchedule(s) PROVE SyncedSid(x)'
  BY <1>0, <1>8, SyncFrame DEF RunSchedule, handlerVars
<1>9. ASSUME NEW s \in Sids, DebounceFire(s) \/ FlushEmit(s) \/ FlushFinish(s) PROVE SyncedSid(x)'
  <2>1. UNCHANGED <<proj, marks, unmarked, logVars>>
    BY <1>9 DEF DebounceFire, FlushEmit, FlushFinish, handlerVars
  <2>2. /\ \A y \in Sids \ {s} : task'[y] = task[y]
        /\ task'[s] = task[s] \/ task'[s].phase \in {"none", "start", "finish"}
    BY <1>0, <1>9, TaskEffect
  <2> QED
    BY <1>0, <2>1, <2>2, SyncTask
<1>10. ASSUME NEW s \in Sids, FlushRead(s) PROVE SyncedSid(x)'
  <2>1. UNCHANGED <<proj, marks, unmarked, logVars>>
    BY <1>10 DEF FlushRead, handlerVars
  <2>2. /\ \A y \in Sids \ {s} : task'[y] = task[y]
        /\ \/ task'[s].phase = "read" /\ task'[s].base = proj[s].dirty
           \/ task'[s].phase = "finish"
    BY <1>0, <1>10, ReadEffect
  <2>3. CASE x # s
    BY <1>0, <2>1, <2>2, <2>3, SyncFrame
  <2>4. CASE x = s
    BY <1>0, <2>1, <2>2, <2>4
       DEF SyncedSid, AskedIfRequest, VersionsOrdered, BaseIsDirty, SnapshotIsUpToDate,
           CursorIsUpToDate, Told, LogEnd, LogGuid, logVars, Building
  <2> QED
    BY <2>3, <2>4
<1>11. ASSUME NEW s \in Sids, FlushOutput(s) PROVE SyncedSid(x)'
  <2>1. UNCHANGED <<proj, marks, unmarked, logVars>> /\ task[s].phase = "read"
    BY <1>11 DEF FlushOutput, handlerVars
  <2>2. /\ \A y \in Sids \ {s} : task'[y] = task[y]
        /\ task'[s].phase = "output"
        /\ task'[s].request = task[s].request /\ task'[s].base = task[s].base
        /\ task'[s].snap.upto = LogEnd(task[s].request.context)
        /\ task'[s].snap.of = LogGuid(task[s].request.context)
    BY <1>0, <1>11, OutputEffect
  <2>3. CASE x # s
    BY <1>0, <2>1, <2>2, <2>3, SyncFrame
  <2>4. CASE x = s
    BY <1>0, <2>1, <2>2, <2>4
       DEF SyncedSid, AskedIfRequest, VersionsOrdered, BaseIsDirty, SnapshotIsUpToDate,
           CursorIsUpToDate, Told, LogEnd, LogGuid, logVars, Building
  <2> QED
    BY <2>3, <2>4
<1>12. ASSUME NEW s \in Sids, FlushGuid(s) PROVE SyncedSid(x)'
  <2>1. UNCHANGED <<proj, marks, unmarked, logVars>> /\ task[s].phase = "output"
    BY <1>12 DEF FlushGuid, handlerVars
  <2>2. /\ \A y \in Sids \ {s} : task'[y] = task[y]
        /\ task'[s].phase = "built"
        /\ task'[s].request = task[s].request /\ task'[s].base = task[s].base
        /\ task'[s].snap.upto = task[s].snap.upto /\ task'[s].snap.of = task[s].snap.of
    BY <1>0, <1>12, GuidEffect
  <2>3. CASE x # s
    BY <1>0, <2>1, <2>2, <2>3, SyncFrame
  <2>4. CASE x = s
    BY <1>0, <2>1, <2>2, <2>4
       DEF SyncedSid, AskedIfRequest, VersionsOrdered, BaseIsDirty, SnapshotIsUpToDate,
           CursorIsUpToDate, StillWanted, Told, LogEnd, LogGuid, logVars, Building
  <2> QED
    BY <2>3, <2>4
<1>13. ASSUME NEW s \in Sids, FlushCommit(s) PROVE SyncedSid(x)'
  <2>1. UNCHANGED <<marks, unmarked, logVars>> /\ task[s].phase = "built"
    BY <1>13 DEF FlushCommit, handlerVars
  <2>2. /\ \A y \in Sids \ {s} : task'[y] = task[y] /\ proj'[y] = proj[y]
        /\ \/ /\ StillWanted(s) /\ task'[s].phase = "emit"
              /\ proj'[s].registered = proj[s].registered
              /\ proj'[s].dirty = proj[s].dirty
              /\ proj'[s].pushed = PushedUpTo(s)
              /\ proj'[s].request = Advanced(s)
           \/ ~StillWanted(s) /\ proj' = proj /\ task'[s].phase = "finish"
    BY <1>0, <1>13, CommitEffect
  <2>3. CASE x # s
    BY <1>0, <2>1, <2>2, <2>3, SyncFrame
  <2>4. CASE x = s /\ ~StillWanted(s)
    BY <1>0, <2>1, <2>2, <2>4
       DEF SyncedSid, AskedIfRequest, VersionsOrdered, BaseIsDirty, SnapshotIsUpToDate,
           CursorIsUpToDate, Told, LogEnd, LogGuid, logVars, Building
  <2>5. CASE x = s /\ StillWanted(s)
    <3>1. proj'[x].pushed = proj'[x].dirty /\ proj'[x].dirty \in Nat
      BY <1>0, <2>1, <2>2, <2>5 DEF SyncedSid, VersionsOrdered, BaseIsDirty, Building, PushedUpTo
    <3>2. proj'[x].registered = TRUE
      BY <1>0, <2>2, <2>5 DEF StillWanted, Projection
    <3>3. /\ proj'[x].request.log_from = task[x].snap.upto
          /\ proj'[x].request.context = task[x].request.context
      BY <1>0, <2>1, <2>2, <2>5, CommittedRequest
    <3>4. \/ Told(x, task[x].request.context)
          \/ task[x].snap.upto = LogEnd(task[x].request.context)
      BY <1>0, <2>1, <2>5 DEF SyncedSid, SnapshotIsUpToDate
    <3>5. CursorIsUpToDate(x)'
      BY <2>1, <3>3, <3>4 DEF CursorIsUpToDate, Told, LogEnd, LogGuid, logVars
    <3>6. task'[x].phase = "emit"
      BY <2>2, <2>5
    <3> QED
      BY <3>1, <3>2, <3>5, <3>6
         DEF SyncedSid, AskedIfRequest, VersionsOrdered, BaseIsDirty, SnapshotIsUpToDate, Building
  <2> QED
    BY <2>3, <2>4, <2>5
<1>16. ASSUME NEW c \in Contexts, AppendUpdate(c) \/ ResetLog(c) PROVE SyncedSid(x)'
  <2>1. UNCHANGED <<proj, task, marks, unmarked>>
    BY <1>16 DEF AppendUpdate, ResetLog, monitorVars, handlerVars
  <2>2. /\ \A d \in Contexts \ {c} : log'[d] = log[d] /\ unnotified'[d] = unnotified[d]
        /\ unnotified'[c] # "nobody"
    BY <1>0, <1>16 DEF AppendUpdate, ResetLog, TypeInv, TypeOK
  <2> QED
    BY <1>0, <2>1, <2>2, SyncLog
<1>18. ASSUME NEW c \in Contexts, Notify(c) PROVE SyncedSid(x)'
  <2>1. /\ UNCHANGED <<proj, task, log, unmarked>> /\ unnotified[c] # "nobody"
        /\ marks' = [y \in Sids |-> IF y \in Targets(c, unnotified[c]) THEN marks[y] + 1 ELSE marks[y]]
        /\ unnotified' = [unnotified EXCEPT ![c] = "nobody"]
    BY <1>18 DEF Notify, handlerVars
  <2>2. CASE x \in Targets(c, unnotified[c])
    <3>1. marks'[x] > 0
      BY <1>0, <2>1, <2>2
    <3> QED
      BY <1>0, <2>1, <3>1, SyncTold DEF SyncedSid, AskedIfRequest
  <2>3. CASE x \notin Targets(c, unnotified[c])
    <3>1. marks'[x] = marks[x]
      BY <2>1, <2>3
    <3>2. \A d \in Contexts \ {c} : unnotified'[d] = unnotified[d]
      BY <1>0, <2>1 DEF TypeInv, TypeOK
    <3>3. ~proj[x].registered \/ proj[x].request = NoRequest \/ proj[x].request.context # c
      BY <2>3 DEF Targets
    <3>4. SnapshotIsUpToDate(x)'
      <4>1. SUFFICES ASSUME task[x].phase \in {"output", "built"}, StillWanted(x)
            PROVE  \/ Told(x, task[x].request.context)'
                   \/ /\ task[x].snap.upto = LogEnd(task[x].request.context)
                      /\ task[x].snap.of = LogGuid(task[x].request.context)
        BY <2>1 DEF SnapshotIsUpToDate, StillWanted, LogEnd, LogGuid
      <4>2. task[x].request # NoRequest
        BY <1>0, <4>1, RequestAssumption DEF TypeInv, TaskHasRequest, Request
      <4>3. task[x].request.context # c
        BY <3>3, <4>1, <4>2 DEF StillWanted
      <4> QED
        BY <1>0, <2>1, <3>1, <3>2, <4>1, <4>3 DEF SyncedSid, SnapshotIsUpToDate, Told
    <3>5. CursorIsUpToDate(x)'
      <4>1. Subscribed(proj[x]) => proj[x].request.context # c
        BY <1>0, <3>3 DEF Gated, Subscribed
      <4> QED
        BY <1>0, <2>1, <3>1, <3>2, <4>1 DEF SyncedSid, CursorIsUpToDate, Told, LogEnd, LogGuid
    <3> QED
      BY <1>0, <2>1, <3>4, <3>5 DEF SyncedSid, AskedIfRequest, VersionsOrdered, BaseIsDirty
  <2> QED
    BY <2>2, <2>3
<1>19. ASSUME UNCHANGED vars PROVE SyncedSid(x)'
  BY <1>0, <1>19, SyncFrame DEF vars, monitorVars, handlerVars
<1> QED
  BY <1>1, <1>2, <1>3, <1>5, <1>6, <1>7, <1>8, <1>9, <1>10, <1>11, <1>12, <1>13, <1>16, <1>18, <1>19
     DEF Next, DispatcherStep

\* When nothing is owed and nothing under way, the cursor of a subscribed sid stands at
\* the end of its log: _flush_push never marks as pushed what no snapshot contained.
THEOREM SettledIsSynced == Spec => []SettledMeansSynced
<1>1. SyncInv => SettledMeansSynced
  <2> SUFFICES ASSUME SyncInv, NEW s \in Sids, Settled(s)
               PROVE  proj[s].request.log_from = LogEnd(proj[s].request.context)
    BY DEF SettledMeansSynced
  <2>1. TypeInv /\ CursorIsUpToDate(s)
    BY DEF SyncInv, SyncedSid, WakeInv
  <2>2. proj[s].dirty \in Nat /\ proj[s].dirty = proj[s].pushed /\ marks[s] = 0
    BY <2>1, Records DEF Settled
  <2> QED
    BY <2>1, <2>2 DEF CursorIsUpToDate, Settled, Told
<1> QED
  BY <1>1, SyncInvInit, SyncInvStep, PTL DEF Spec

-----------------------------------------------------------------------------
(***************************************************************************)
(* The stream of pushes. The projection goes on where the newest push      *)
(* ended: the one on its way out, or else the last one handed to the       *)
(* socket; or a later request has set it back to SeqBase.                  *)
(***************************************************************************)
SnapshotIsOfRequest(s) ==
    task[s].phase \in {"output", "built"} =>
        /\ task[s].snap.context = task[s].request.context
        /\ task[s].snap.from = task[s].request.log_from

NothingBeforeConnect(s) ==
    link[s] = "new" => /\ proj[s].request = NoRequest /\ routed[s] = NoRequest
                       /\ task[s].phase = "none"

PeriodsOrdered(s) ==
    /\ last[s].period <= period[s]
    /\ task[s].phase = "emit" => task[s].period <= period[s]

EmitFollows(s) == link[s] = "up" /\ task[s].phase = "emit" => Follows(last[s], task[s])

Continues(p, k, push) ==
    \/ push.period < k /\ p.seq = SeqBase
    \/ /\ push.period = k /\ p.seq = push.seq
       /\ p.request.context = push.snap.context /\ p.request.log_from = push.snap.upto

StreamGoesOn(s) ==
    link[s] = "up" /\ proj[s].request # NoRequest =>
        IF task[s].phase = "emit" THEN Continues(proj[s], period[s], task[s])
                                  ELSE Continues(proj[s], period[s], last[s])

StreamSid(s) ==
    /\ SnapshotIsOfRequest(s) /\ NothingBeforeConnect(s) /\ PeriodsOrdered(s)
    /\ EmitFollows(s) /\ StreamGoesOn(s)

StreamInv == WakeInv /\ \A s \in Sids : StreamSid(s)

LEMMA StreamInvInit == Init => StreamInv
BY WakeInvInit DEF Init, StreamInv, StreamSid, SnapshotIsOfRequest, NothingBeforeConnect, PeriodsOrdered,
   EmitFollows, StreamGoesOn, NoProjection, NoTask, NoPush

\* A sid of which a step changes nothing the stream depends on.
LEMMA StreamFrame ==
    ASSUME NEW s \in Sids, StreamSid(s),
           proj'[s].request = proj[s].request, proj'[s].seq = proj[s].seq,
           task'[s] = task[s], link'[s] = link[s],
           routed'[s] = routed[s] \/ link[s] # "new",
           period'[s] = period[s], last'[s] = last[s]
    PROVE  StreamSid(s)'
BY DEF StreamSid, SnapshotIsOfRequest, NothingBeforeConnect, PeriodsOrdered, EmitFollows, StreamGoesOn,
       Continues, Follows

\* A step of a task that has no push on its way out and no snapshot.
LEMMA StreamTask ==
    ASSUME NEW s \in Sids, StreamSid(s),
           proj'[s].request = proj[s].request, proj'[s].seq = proj[s].seq,
           link'[s] = link[s], routed'[s] = routed[s], link[s] # "new",
           period'[s] = period[s], last'[s] = last[s],
           task[s].phase # "emit", task'[s].phase # "emit", SnapshotIsOfRequest(s)'
    PROVE  StreamSid(s)'
BY DEF StreamSid, NothingBeforeConnect, PeriodsOrdered, EmitFollows, StreamGoesOn, Continues

\* The connection of s is on its way out.
LEMMA StreamClosed ==
    ASSUME NEW s \in Sids, StreamSid(s), link'[s] \notin {"new", "up"},
           task'[s] = task[s] \/ task'[s].phase \in {"none", "start"},
           period'[s] = period[s], last'[s] = last[s]
    PROVE  StreamSid(s)'
BY DEF StreamSid, SnapshotIsOfRequest, NothingBeforeConnect, PeriodsOrdered, EmitFollows, StreamGoesOn

LEMMA StreamInvStep == StreamInv /\ [Next]_vars => StreamInv'
<1> SUFFICES ASSUME StreamInv, [Next]_vars, NEW x \in Sids PROVE StreamSid(x)'
  BY WakeInvStep DEF StreamInv
<1>0. TypeInv /\ Gated /\ StreamSid(x) /\ proj \in [Sids -> Projection] /\ proj[x] \in Projection
      /\ task \in [Sids -> Task] /\ period[x] \in Nat /\ last[x].period \in Nat
      /\ task[x].period \in Nat /\ link \in [Sids -> {"new", "up", "closing", "gone"}]
      /\ routed \in [Sids -> Request \cup {NoRequest}] /\ period \in [Sids -> Nat] /\ last \in [Sids -> Push]
  BY Records DEF StreamInv, WakeInv, TypeInv, TypeOK, Task
<1>1. ASSUME NEW s \in Sids, Connect(s) PROVE StreamSid(x)'
  <2>1. /\ UNCHANGED <<task, routed, period, last>> /\ link[s] = "new" /\ link' = [link EXCEPT ![s] = "up"]
        /\ proj' = [proj EXCEPT ![s] = [proj[s] EXCEPT !.registered = TRUE]]
    BY <1>1 DEF Connect
  <2>2. CASE x # s
    BY <1>0, <2>1, <2>2, StreamFrame
  <2>3. CASE x = s
    <3>1. proj'[x] = [proj[x] EXCEPT !.registered = TRUE] /\ link'[x] = "up"
      BY <1>0, <2>1, <2>3
    <3>2. proj'[x].request = proj[x].request
      BY <1>0, <3>1, RegisterEffect
    <3> QED
      BY <1>0, <2>1, <2>3, <3>1, <3>2
         DEF StreamSid, SnapshotIsOfRequest, NothingBeforeConnect, PeriodsOrdered, EmitFollows, StreamGoesOn
  <2> QED
    BY <2>2, <2>3
<1>2. ASSUME NEW s \in Sids, CloseSocket(s) PROVE StreamSid(x)'
  <2>1. UNCHANGED <<proj, task, routed, period, last>> /\ link' = [link EXCEPT ![s] = "closing"]
    BY <1>2 DEF CloseSocket, monitorVars
  <2>2. link'[x] = link[x] \/ link'[x] = "closing"
    BY <1>0, <2>1
  <2> QED
    BY <1>0, <2>1, <2>2, StreamFrame, StreamClosed
<1>3. ASSUME NEW s \in Sids, OnDisconnect(s) PROVE StreamSid(x)'
  <2>1. /\ UNCHANGED <<routed, period, last>> /\ link' = [link EXCEPT ![s] = "gone"]
        /\ proj' = [proj EXCEPT ![s] = NoProjection]
    BY <1>3 DEF OnDisconnect
  <2>2. /\ \A y \in Sids \ {s} : task'[y] = task[y]
        /\ task'[s].phase \in {"none", "start"}
    BY <1>0, <1>3 DEF OnDisconnect, NoTask
  <2>3. CASE x # s
    BY <1>0, <2>1, <2>2, <2>3, StreamFrame
  <2>4. CASE x = s
    BY <1>0, <2>1, <2>2, <2>4, StreamClosed
  <2> QED
    BY <2>3, <2>4
<1>4. ASSUME NEW s \in Sids, NEW c \in Contexts \cup {NoContext}, NEW n \in LogFroms,
             RouteRequest(s, [context |-> c, log_from |-> n])
      PROVE StreamSid(x)'
  <2>1. /\ UNCHANGED <<link, proj, task, period, last>> /\ link[s] = "up"
        /\ \A y \in Sids \ {s} : routed'[y] = routed[y]
    BY <1>0, <1>4 DEF RouteRequest, monitorVars
  <2> QED
    BY <1>0, <2>1, StreamFrame
<1>5. ASSUME NEW s \in Sids, UpdateProjection(s) PROVE StreamSid(x)'
  <2>1. /\ UNCHANGED <<link, task, last>> /\ routed[s] # NoRequest
        /\ period' = [period EXCEPT ![s] = period[s] + 1] /\ routed' = [routed EXCEPT ![s] = NoRequest]
        /\ proj' = [proj EXCEPT ![s] = [proj[s] EXCEPT !.registered = TRUE, !.request = routed[s],
                                                       !.seq_base = SeqBase, !.seq = SeqBase]]
    BY <1>5 DEF UpdateProjection
  <2>2. CASE x # s
    BY <1>0, <2>1, <2>2, StreamFrame
  <2>3. CASE x = s
    <3>1. proj'[x] = [proj[x] EXCEPT !.registered = TRUE, !.request = routed[s],
                                     !.seq_base = SeqBase, !.seq = SeqBase]
      BY <1>0, <2>1, <2>3
    <3>2. proj'[x].seq = SeqBase
      BY <1>0, <3>1, RequestEffect
    <3>3. period'[x] = period[x] + 1 /\ link[x] # "new"
      BY <1>0, <2>1, <2>3 DEF StreamSid, NothingBeforeConnect
    <3>4. last[x].period < period'[x] /\ (task[x].phase = "emit" => task[x].period < period'[x])
      BY <1>0, <3>3 DEF StreamSid, PeriodsOrdered
    <3>5. PeriodsOrdered(x)'
      BY <1>0, <2>1, <3>3 DEF StreamSid, PeriodsOrdered
    <3>6. StreamGoesOn(x)'
      BY <2>1, <3>2, <3>4 DEF StreamGoesOn, Continues
    <3> QED
      BY <1>0, <2>1, <3>3, <3>5, <3>6 DEF StreamSid, SnapshotIsOfRequest, NothingBeforeConnect, EmitFollows
  <2> QED
    BY <2>2, <2>3
<1>6. ASSUME NEW s \in Sids, MarkRequestDirty(s) \/ RunSchedule(s) PROVE StreamSid(x)'
  BY <1>0, <1>6, StreamFrame DEF MarkRequestDirty, RunSchedule, handlerVars
<1>7. ASSUME NEW s \in Sids, RunMarkDirty(s) PROVE StreamSid(x)'
  <2>1. /\ UNCHANGED <<link, routed, task, period, last>>
        /\ proj' = proj \/ proj' = [proj EXCEPT ![s] = [proj[s] EXCEPT !.dirty = @ + 1]]
    BY <1>0, <1>7 DEF RunMarkDirty, Counts, handlerVars, Projection
  <2>2. proj'[x] = proj[x] \/ proj'[x] = [proj[x] EXCEPT !.dirty = @ + 1]
    BY <1>0, <2>1
  <2>3. proj'[x].request = proj[x].request /\ proj'[x].seq = proj[x].seq
    BY <1>0, <2>2, DirtyEffect
  <2> QED
    BY <1>0, <2>1, <2>3, StreamFrame
<1>9. ASSUME NEW s \in Sids, DebounceFire(s) PROVE StreamSid(x)'
  <2>1. UNCHANGED <<proj, link, routed, period, last>> /\ s \in handle
    BY <1>9 DEF DebounceFire, handlerVars
  <2>2. /\ \A y \in Sids \ {s} : task'[y] = task[y]
        /\ task'[s] = task[s] \/ (task[s].phase = "none" /\ task'[s].phase = "start")
    BY <1>0, <1>9 DEF DebounceFire, NoTask
  <2>3. x # s \/ task'[s] = task[s] => StreamSid(x)'
    BY <1>0, <2>1, <2>2, StreamFrame
  <2>4. x = s => link[x] # "new"
    BY <1>0, <2>1 DEF Gated, StreamSid, NothingBeforeConnect
  <2>5. x = s /\ task[s].phase = "none" /\ task'[s].phase = "start" => StreamSid(x)'
    BY <1>0, <2>1, <2>4, StreamTask DEF SnapshotIsOfRequest
  <2> QED
    BY <2>2, <2>3, <2>5
<1>10. ASSUME NEW s \in Sids, FlushRead(s) PROVE StreamSid(x)'
  <2>1. UNCHANGED <<proj, link, routed, period, last>> /\ task[s].phase = "start"
    BY <1>10 DEF FlushRead, handlerVars
  <2>2. /\ \A y \in Sids \ {s} : task'[y] = task[y]
        /\ task'[s].phase \in {"read", "finish"}
    BY <1>0, <1>10, ReadEffect
  <2>3. x = s => link[x] # "new"
    BY <1>0, <2>1 DEF StreamSid, NothingBeforeConnect
  <2> QED
    BY <1>0, <2>1, <2>2, <2>3, StreamFrame, StreamTask DEF SnapshotIsOfRequest
<1>11. ASSUME NEW s \in Sids, FlushOutput(s) \/ FlushGuid(s) PROVE StreamSid(x)'
  <2>1. /\ UNCHANGED <<proj, link, routed, period, last>> /\ task[s].phase \in {"read", "output"}
        /\ FlushGuid(s) => task[s].phase = "output"
    BY <1>11 DEF FlushOutput, FlushGuid, handlerVars
  <2>2. /\ \A y \in Sids \ {s} : task'[y] = task[y]
        /\ task'[s].phase \in {"output", "built"} /\ task'[s].request = task[s].request
        /\ \/ /\ task'[s].snap.context = task[s].request.context
              /\ task'[s].snap.from = task[s].request.log_from
           \/ /\ task[s].phase = "output" /\ task'[s].snap.context = task[s].snap.context
              /\ task'[s].snap.from = task[s].snap.from
    BY <1>0, <1>11, <2>1, OutputEffect, GuidEffect
  <2>3. x = s => link[x] # "new" /\ SnapshotIsOfRequest(x)'
    BY <1>0, <2>1, <2>2 DEF StreamSid, NothingBeforeConnect, SnapshotIsOfRequest
  <2> QED
    BY <1>0, <2>1, <2>2, <2>3, StreamFrame, StreamTask
<1>13. ASSUME NEW s \in Sids, FlushCommit(s) PROVE StreamSid(x)'
  <2>1. UNCHANGED <<link, routed, period, last>> /\ task[s].phase = "built"
    BY <1>13 DEF FlushCommit, handlerVars
  <2>2. /\ \A y \in Sids \ {s} : task'[y] = task[y] /\ proj'[y] = proj[y]
        /\ \/ /\ StillWanted(s)
              /\ task'[s].phase = "emit" /\ task'[s].seq = proj[s].seq + 1
              /\ task'[s].period = period[s] /\ task'[s].snap = task[s].snap
              /\ proj'[s].seq = proj[s].seq + 1 /\ proj'[s].request = Advanced(s)
           \/ ~StillWanted(s) /\ proj' = proj /\ task'[s].phase = "finish"
    BY <1>0, <1>13, CommitEffect
  <2>3. CASE x # s
    BY <1>0, <2>1, <2>2, <2>3, StreamFrame
  <2>4. CASE x = s
    <3>1. link[x] # "new"
      BY <1>0, <2>1, <2>4 DEF StreamSid, NothingBeforeConnect
    <3>2. CASE ~StillWanted(s)
      BY <1>0, <2>1, <2>2, <2>4, <3>1, <3>2, StreamTask DEF SnapshotIsOfRequest
    <3>3. CASE StillWanted(s)
      <4>1. /\ proj[x].request # NoRequest /\ proj[x].request = task[x].request
            /\ task[x].snap.context = proj[x].request.context
            /\ task[x].snap.from = proj[x].request.log_from
        BY <1>0, <2>1, <2>4, <3>3, RequestAssumption
           DEF TypeInv, TaskHasRequest, Request, StillWanted, StreamSid, SnapshotIsOfRequest
      <4>2. /\ proj'[x].request.log_from = task[x].snap.upto
            /\ proj'[x].request.context = task[x].request.context
        BY <1>0, <2>1, <2>2, <2>4, <3>3, CommittedRequest
      <4>3. link[x] = "up" => Continues(proj[x], period[x], last[x])
        BY <1>0, <2>1, <2>4, <4>1 DEF StreamSid, StreamGoesOn
      <4>4. EmitFollows(x)'
        BY <2>1, <2>2, <2>4, <3>3, <4>1, <4>3 DEF EmitFollows, Follows, Continues
      <4>5. StreamGoesOn(x)'
        BY <2>1, <2>2, <2>4, <3>3, <4>1, <4>2 DEF StreamGoesOn, Continues
      <4>6. PeriodsOrdered(x)'
        BY <1>0, <2>1, <2>2, <2>4, <3>3 DEF StreamSid, PeriodsOrdered
      <4> QED
        BY <2>1, <2>2, <2>4, <3>1, <3>3, <4>4, <4>5, <4>6
           DEF StreamSid, SnapshotIsOfRequest, NothingBeforeConnect
    <3> QED
      BY <3>2, <3>3
  <2> QED
    BY <2>3, <2>4
<1>14. ASSUME NEW s \in Sids, FlushEmit(s) PROVE StreamSid(x)'
  <2>1. UNCHANGED <<proj, link, routed, period>> /\ task[s].phase = "emit"
    BY <1>14 DEF FlushEmit, handlerVars
  <2>2. task'[s].phase = "finish" /\ \A y \in Sids \ {s} : task'[y] = task[y] /\ last'[y] = last[y]
    BY <1>0, <1>14, TaskPhase DEF FlushEmit, Finish, Phases
  <2>3. CASE x # s
    BY <1>0, <2>1, <2>2, <2>3, StreamFrame
  <2>4. CASE x = s
    <3>1. \/ /\ link[x] = "up" /\ last'[x].period = task[x].period
             /\ last'[x].seq = task[x].seq /\ last'[x].snap = task[x].snap
          \/ link[x] # "up" /\ last'[x] = last[x]
      BY <1>0, <1>14, <2>4 DEF FlushEmit
    <3>2. link[x] # "new"
      BY <1>0, <2>1, <2>4 DEF StreamSid, NothingBeforeConnect
    <3> QED
      BY <1>0, <2>1, <2>2, <2>4, <3>1, <3>2
         DEF StreamSid, SnapshotIsOfRequest, NothingBeforeConnect, PeriodsOrdered, EmitFollows,
             StreamGoesOn, Continues
  <2> QED
    BY <2>3, <2>4
<1>15. ASSUME NEW s \in Sids, FlushFinish(s) PROVE StreamSid(x)'
  <2>1. UNCHANGED <<proj, link, routed, period, last>> /\ task[s].phase = "finish"
    BY <1>15 DEF FlushFinish, handlerVars
  <2>2. task'[s].phase = "none" /\ \A y \in Sids \ {s} : task'[y] = task[y]
    BY <1>0, <1>15 DEF FlushFinish, NoTask
  <2>3. x = s => link[x] # "new"
    BY <1>0, <2>1 DEF StreamSid, NothingBeforeConnect
  <2> QED
    BY <1>0, <2>1, <2>2, <2>3, StreamFrame, StreamTask DEF SnapshotIsOfRequest
<1>16. ASSUME NEW c \in Contexts, AppendUpdate(c) \/ ResetLog(c) \/ Notify(c) PROVE StreamSid(x)'
  BY <1>0, <1>16, StreamFrame DEF AppendUpdate, ResetLog, Notify, monitorVars, handlerVars
<1>19. ASSUME UNCHANGED vars PROVE StreamSid(x)'
  BY <1>0, <1>19, StreamFrame DEF vars, monitorVars, handlerVars
<1> QED
  BY <1>1, <1>2, <1>3, <1>4, <1>5, <1>6, <1>7, <1>9, <1>10, <1>11, <1>13, <1>14, <1>15, <1>16, <1>19
     DEF Next, DispatcherStep

\* Only FlushEmit hands a push to a socket, and what it hands over follows the last one.
LEMMA PushFollows ==
    ASSUME StreamInv, [Next]_vars, NEW s \in Sids, last'[s] # last[s]
    PROVE  Follows(last[s], last'[s])
<1>1. \E y \in Sids : FlushEmit(y)
  <2>1. last' # last
    OBVIOUS
  <2> QED
    BY <2>1 DEF Next, DispatcherStep, vars, Connect, CloseSocket, OnDisconnect, RouteRequest, UpdateProjection,
       MarkRequestDirty, RunMarkDirty, RunSchedule, DebounceFire, FlushRead, FlushOutput, FlushGuid, FlushCommit,
       FlushFinish, AppendUpdate, ResetLog, Notify
<1>2. last \in [Sids -> Push]
  BY DEF StreamInv, WakeInv, TypeInv, TypeOK
<1>3. PICK y \in Sids : FlushEmit(y)
  BY <1>1
<1>4. y = s /\ link[s] = "up" /\ task[s].phase = "emit"
  BY <1>2, <1>3 DEF FlushEmit
<1>5. last'[s] = [period |-> task[s].period, seq |-> task[s].seq, snap |-> task[s].snap]
  BY <1>2, <1>3, <1>4 DEF FlushEmit
<1>6. Follows(last[s], task[s])
  BY <1>4 DEF StreamInv, StreamSid, EmitFollows
<1> QED
  BY <1>5, <1>6 DEF Follows

\* INVARIANT.STATE.SEQ_MONOTONIC for any number of requests and resets: per
\* state_request one gap-free stream, and none of an earlier request after one of a later.
THEOREM StreamHasNoGaps == Spec => StreamIsContiguous
<1>1. StreamInv /\ [Next]_vars =>
        [\A s \in Sids : last'[s] # last[s] => Follows(last[s], last'[s])]_vars
  BY PushFollows
<1> QED
  BY <1>1, StreamInvInit, StreamInvStep, PTL DEF Spec, StreamIsContiguous

-----------------------------------------------------------------------------
(* StateMonitor implements PushService: the initial states map to initial          *)
(* states, and under the invariants above every step of the monitor is a step or a  *)
(* stutter of the service. MaxSpurious only keeps the service's own state space     *)
(* finite; the theorem is about behaviours below it.                                *)

(* A request that is in the projection was processed, one that is routed may be     *)
(* processed, and a task starts from nothing.                                       *)
RequestIsSubscribed(s) == proj[s].request # NoRequest => Subscribed(proj[s])

RoutedIsAllowed(s) ==
    routed[s] # NoRequest =>
        /\ period[s] < MaxRequests
        /\ \E c \in Contexts \cup {NoContext}, n \in LogFroms :
              routed[s] = [context |-> c, log_from |-> n]

StartIsFresh(s) == task[s].phase = "start" => task[s] = [NoTask EXCEPT !.phase = "start"]

ServedSid(s) == RequestIsSubscribed(s) /\ RoutedIsAllowed(s) /\ StartIsFresh(s)

ServiceInv == SyncInv /\ StreamInv /\ \A s \in Sids : ServedSid(s)

LEMMA ServiceInvInit == Init => ServiceInv
BY SyncInvInit, StreamInvInit
   DEF Init, ServiceInv, ServedSid, RequestIsSubscribed, RoutedIsAllowed, StartIsFresh, NoProjection, NoTask

LEMMA ServedFrame ==
    ASSUME NEW s \in Sids, ServedSid(s), proj'[s].request = proj[s].request,
           Subscribed(proj[s]) => Subscribed(proj'[s]),
           routed'[s] = routed[s], period'[s] = period[s],
           task'[s] = task[s] \/ task'[s].phase # "start"
    PROVE  ServedSid(s)'
BY DEF ServedSid, RequestIsSubscribed, RoutedIsAllowed, StartIsFresh

LEMMA ServedStep == ServiceInv /\ [Next]_vars => ServiceInv'
<1> SUFFICES ASSUME ServiceInv, [Next]_vars, NEW x \in Sids PROVE ServedSid(x)'
  BY SyncInvStep, StreamInvStep DEF ServiceInv
<1>0. /\ TypeInv /\ Gated /\ ServedSid(x) /\ SyncedSid(x) /\ StreamSid(x)
      /\ proj \in [Sids -> Projection] /\ proj[x] \in Projection
      /\ task \in [Sids -> Task] /\ routed \in [Sids -> Request \cup {NoRequest}]
      /\ period \in [Sids -> Nat]
  BY Records DEF ServiceInv, SyncInv, StreamInv, WakeInv, TypeInv, TypeOK
<1>1. ASSUME NEW s \in Sids, Connect(s) PROVE ServedSid(x)'
  <2>1. /\ UNCHANGED <<task, routed, period>>
        /\ proj' = [proj EXCEPT ![s] = [proj[s] EXCEPT !.registered = TRUE]]
    BY <1>1 DEF Connect
  <2>2. x # s => proj'[x] = proj[x]
    BY <1>0, <2>1
  <2>3. x = s => /\ proj'[x].request = proj[x].request /\ proj'[x].registered = TRUE
                 /\ proj'[x].seq_base = proj[x].seq_base
    <3>1. x = s => proj'[x] = [proj[x] EXCEPT !.registered = TRUE]
      BY <1>0, <2>1
    <3> QED
      BY <1>0, <3>1, RegisterEffect
  <2> QED
    BY <1>0, <2>1, <2>2, <2>3, ServedFrame DEF Subscribed
<1>2. ASSUME NEW s \in Sids, CloseSocket(s) PROVE ServedSid(x)'
  BY <1>0, <1>2, ServedFrame DEF CloseSocket, monitorVars
<1>3. ASSUME NEW s \in Sids, OnDisconnect(s) PROVE ServedSid(x)'
  <2>1. /\ UNCHANGED <<routed, period>> /\ proj' = [proj EXCEPT ![s] = NoProjection]
        /\ \A y \in Sids \ {s} : task'[y] = task[y]
        /\ task'[s] = NoTask \/ task'[s] = [NoTask EXCEPT !.phase = "start"]
    BY <1>0, <1>3 DEF OnDisconnect
  <2>2. CASE x # s
    BY <1>0, <2>1, <2>2, ServedFrame
  <2>3. CASE x = s
    <3>1. proj'[x].request = NoRequest
      BY <1>0, <2>1, <2>3 DEF NoProjection
    <3> QED
      BY <1>0, <2>1, <2>3, <3>1
         DEF ServedSid, RequestIsSubscribed, RoutedIsAllowed, StartIsFresh, NoTask
  <2> QED
    BY <2>2, <2>3
<1>4. ASSUME NEW s \in Sids, NEW c \in Contexts \cup {NoContext}, NEW n \in LogFroms,
             RouteRequest(s, [context |-> c, log_from |-> n])
      PROVE ServedSid(x)'
  <2>1. /\ UNCHANGED <<proj, task, period>> /\ period[s] < MaxRequests
        /\ routed' = [routed EXCEPT ![s] = [context |-> c, log_from |-> n]]
    BY <1>4 DEF RouteRequest, monitorVars
  <2>2. CASE x # s
    BY <1>0, <2>1, <2>2, ServedFrame
  <2>3. CASE x = s
    <3>1. routed'[x] = [context |-> c, log_from |-> n]
      BY <1>0, <2>1, <2>3
    <3>2. RoutedIsAllowed(x)'
      BY <2>1, <2>3, <3>1 DEF RoutedIsAllowed
    <3> QED
      BY <1>0, <2>1, <3>2 DEF ServedSid, RequestIsSubscribed, StartIsFresh
  <2> QED
    BY <2>2, <2>3
<1>5. ASSUME NEW s \in Sids, UpdateProjection(s) PROVE ServedSid(x)'
  <2>1. /\ UNCHANGED task /\ routed' = [routed EXCEPT ![s] = NoRequest]
        /\ period' = [period EXCEPT ![s] = period[s] + 1]
        /\ proj' = [proj EXCEPT ![s] = [proj[s] EXCEPT !.registered = TRUE, !.request = routed[s],
                                                       !.seq_base = SeqBase, !.seq = SeqBase]]
    BY <1>5 DEF UpdateProjection
  <2>2. CASE x # s
    BY <1>0, <2>1, <2>2, ServedFrame
  <2>3. CASE x = s
    <3>1. proj'[x] = [proj[x] EXCEPT !.registered = TRUE, !.request = routed[s],
                                     !.seq_base = SeqBase, !.seq = SeqBase]
      BY <1>0, <2>1, <2>3
    <3>2. proj'[x].registered = TRUE /\ proj'[x].seq_base = SeqBase
      BY <1>0, <3>1, RequestEffect
    <3>3. Subscribed(proj'[x]) /\ routed'[x] = NoRequest
      BY <1>0, <2>1, <2>3, <3>2 DEF Subscribed, SeqBase
    <3> QED
      BY <1>0, <2>1, <3>3 DEF ServedSid, RequestIsSubscribed, RoutedIsAllowed, StartIsFresh
  <2> QED
    BY <2>2, <2>3
<1>6. ASSUME NEW s \in Sids, MarkRequestDirty(s) \/ RunSchedule(s) PROVE ServedSid(x)'
  BY <1>0, <1>6, ServedFrame DEF MarkRequestDirty, RunSchedule, handlerVars
<1>7. ASSUME NEW s \in Sids, RunMarkDirty(s) PROVE ServedSid(x)'
  <2>1. /\ UNCHANGED <<routed, task, period>>
        /\ proj' = proj \/ proj' = [proj EXCEPT ![s] = [proj[s] EXCEPT !.dirty = @ + 1]]
    BY <1>0, <1>7 DEF RunMarkDirty, Counts, handlerVars, Projection
  <2>2. proj'[x] = proj[x] \/ proj'[x] = [proj[x] EXCEPT !.dirty = @ + 1]
    BY <1>0, <2>1
  <2>3. /\ proj'[x].request = proj[x].request /\ proj'[x].registered = proj[x].registered
        /\ proj'[x].seq_base = proj[x].seq_base
    BY <1>0, <2>2, DirtyEffect
  <2> QED
    BY <1>0, <2>1, <2>3, ServedFrame DEF Subscribed
<1>8. ASSUME NEW s \in Sids, DebounceFire(s) PROVE ServedSid(x)'
  <2>1. /\ UNCHANGED <<proj, routed, period>> /\ \A y \in Sids \ {s} : task'[y] = task[y]
        /\ task'[s] = task[s] \/ task'[s] = [NoTask EXCEPT !.phase = "start"]
    BY <1>0, <1>8 DEF DebounceFire, handlerVars
  <2> QED
    BY <1>0, <2>1, ServedFrame DEF ServedSid, RequestIsSubscribed, RoutedIsAllowed, StartIsFresh
<1>9. ASSUME NEW s \in Sids,
             FlushRead(s) \/ FlushOutput(s) \/ FlushGuid(s) \/ FlushEmit(s) \/ FlushFinish(s)
      PROVE ServedSid(x)'
  <2>1. UNCHANGED <<proj, routed, period>>
    BY <1>9 DEF FlushRead, FlushOutput, FlushGuid, FlushEmit, FlushFinish, handlerVars
  <2>2. CASE FlushRead(s)
    <3>1. (\A y \in Sids \ {s} : task'[y] = task[y]) /\ task'[s].phase # "start"
      BY <1>0, <2>2, ReadEffect
    <3> QED
      BY <1>0, <2>1, <3>1, ServedFrame
  <2>3. CASE FlushOutput(s) \/ FlushGuid(s)
    <3>1. (\A y \in Sids \ {s} : task'[y] = task[y]) /\ task'[s].phase # "start"
      BY <1>0, <2>3, OutputEffect, GuidEffect
    <3> QED
      BY <1>0, <2>1, <3>1, ServedFrame
  <2>4. CASE FlushEmit(s) \/ FlushFinish(s)
    <3>1. \A y \in Sids \ {s} : task'[y] = task[y]
      BY <1>0, <2>4, TaskEffect
    <3>2. task'[s].phase # "start"
      <4>1. FlushEmit(s) => task'[s] = [task[s] EXCEPT !.phase = "finish"]
        BY <1>0 DEF FlushEmit, Finish
      <4>2. FlushFinish(s) => task'[s] = NoTask
        BY <1>0 DEF FlushFinish
      <4>3. [task[s] EXCEPT !.phase = "finish"].phase = "finish" /\ NoTask.phase = "none"
        BY <1>0, TaskPhase DEF Phases, NoTask
      <4>4. task'[s].phase = "finish" \/ task'[s].phase = "none"
        BY <2>4, <4>1, <4>2, <4>3
      <4> QED
        BY <4>4
    <3> QED
      BY <1>0, <2>1, <3>1, <3>2, ServedFrame
  <2> QED
    BY <1>9, <2>2, <2>3, <2>4
<1>13. ASSUME NEW s \in Sids, FlushCommit(s) PROVE ServedSid(x)'
  <2>1. UNCHANGED <<routed, period>> /\ task[s].phase = "built"
    BY <1>13 DEF FlushCommit, handlerVars
  <2>2. /\ \A y \in Sids \ {s} : task'[y] = task[y] /\ proj'[y] = proj[y]
        /\ task'[s].phase # "start"
        /\ proj'[s].registered = proj[s].registered /\ proj'[s].seq_base = proj[s].seq_base
        /\ StillWanted(s) \/ proj'[s].request = proj[s].request
    BY <1>0, <1>13, CommitEffect
  <2>3. StillWanted(s) => proj[s].request # NoRequest
    BY <1>0, <2>1, RequestAssumption DEF TypeInv, TaskHasRequest, Request, StillWanted
  <2> QED
    BY <1>0, <2>1, <2>2, <2>3, ServedFrame
       DEF ServedSid, RequestIsSubscribed, RoutedIsAllowed, StartIsFresh, Subscribed
<1>16. ASSUME NEW c \in Contexts, AppendUpdate(c) \/ ResetLog(c) \/ Notify(c) PROVE ServedSid(x)'
  BY <1>0, <1>16, ServedFrame DEF AppendUpdate, ResetLog, Notify, monitorVars, handlerVars
<1>19. ASSUME UNCHANGED vars PROVE ServedSid(x)'
  BY <1>0, <1>19, ServedFrame DEF vars, monitorVars, handlerVars
<1> QED
  BY <1>1, <1>2, <1>3, <1>4, <1>5, <1>6, <1>7, <1>8, <1>9, <1>13, <1>16, <1>19 DEF Next, DispatcherStep

-----------------------------------------------------------------------------
(***************************************************************************)
(* The mapped state.                                                       *)
(***************************************************************************)
Pushing == {"read", "output", "built", "emit"}

LEMMA DebtIsBoolean == Debt \in BOOLEAN /\ Debt' \in BOOLEAN
BY DEF Debt

LEMMA DebtFrame ==
    ASSUME proj'[me] = proj[me], marks'[me] = marks[me], me \in unmarked' <=> me \in unmarked,
           unnotified' = unnotified
    PROVE  Debt' <=> Debt
BY DEF Debt, OwnLogUnnotified

LEMMA NoDebt == ASSUME Gated, proj[me].request = NoRequest PROVE ~Debt
BY RefinementAssumption DEF Gated, Debt

LEMMA DraftFrame == ASSUME task'[me] = task[me] PROVE Draft' = Draft
BY DEF Draft

LEMMA DraftNone == ASSUME task[me].phase \notin Pushing PROVE Draft = Service!NoDraft
BY DEF Draft, Pushing, Service!NoDraft, Service!NoSnapshot, NoSnapshot

LEMMA DraftRecord ==
    ASSUME task[me].phase \in Pushing
    PROVE  Draft = [phase |-> task[me].phase, request |-> task[me].request, snap |-> task[me].snap,
                    seq |-> task[me].seq, period |-> task[me].period]
BY DEF Draft, Pushing

IsDraft(d) ==
    d = [phase |-> d.phase, request |-> d.request, snap |-> d.snap, seq |-> d.seq, period |-> d.period]

LEMMA DraftUpdates ==
    ASSUME NEW d, NEW e, IsDraft(d), IsDraft(e)
    PROVE  /\ e.snap = d.snap /\ e.seq = d.seq /\ e.period = d.period
                => e = [d EXCEPT !.phase = e.phase, !.request = e.request]
           /\ e.request = d.request /\ e.seq = d.seq /\ e.period = d.period
                => e = [d EXCEPT !.phase = e.phase, !.snap = e.snap]
           /\ e.request = d.request /\ e.snap = d.snap
                => e = [d EXCEPT !.phase = e.phase, !.seq = e.seq, !.period = e.period]
<1> DEFINE a == [d EXCEPT !.phase = e.phase]
<1>1. a = [phase |-> e.phase, request |-> d.request, snap |-> d.snap, seq |-> d.seq, period |-> d.period]
  BY DEF IsDraft
<1> HIDE DEF a
<1>2. [a EXCEPT !.request = e.request]
        = [phase |-> e.phase, request |-> e.request, snap |-> d.snap, seq |-> d.seq, period |-> d.period]
  BY <1>1
<1>3. [a EXCEPT !.snap = e.snap]
        = [phase |-> e.phase, request |-> d.request, snap |-> e.snap, seq |-> d.seq, period |-> d.period]
  BY <1>1
<1> DEFINE b == [a EXCEPT !.seq = e.seq]
<1>4. b = [phase |-> e.phase, request |-> d.request, snap |-> d.snap, seq |-> e.seq, period |-> d.period]
  BY <1>1
<1> HIDE DEF b
<1>5. [b EXCEPT !.period = e.period]
        = [phase |-> e.phase, request |-> d.request, snap |-> d.snap, seq |-> e.seq, period |-> e.period]
  BY <1>4
<1>6. /\ [d EXCEPT !.phase = e.phase, !.request = e.request] = [a EXCEPT !.request = e.request]
      /\ [d EXCEPT !.phase = e.phase, !.snap = e.snap] = [a EXCEPT !.snap = e.snap]
      /\ [d EXCEPT !.phase = e.phase, !.seq = e.seq, !.period = e.period] = [b EXCEPT !.period = e.period]
  BY DEF a, b
<1> QED
  BY <1>2, <1>3, <1>5, <1>6 DEF IsDraft

LEMMA Stutter ==
    ASSUME link'[me] = link[me], proj'[me].request = proj[me].request, proj'[me].seq = proj[me].seq,
           Debt' <=> Debt, Draft' = Draft, log' = log, period'[me] = period[me], last'[me] = last[me]
    PROVE  UNCHANGED Service!vars
<1>1. Debt' = Debt
  BY DebtIsBoolean
<1> QED
  BY <1>1 DEF Service!vars, Service!subVars

\* Nothing that belongs to me changes.
LEMMA Untouched ==
    ASSUME proj'[me] = proj[me], task'[me] = task[me], marks'[me] = marks[me],
           me \in unmarked' <=> me \in unmarked, UNCHANGED logVars,
           link'[me] = link[me], period'[me] = period[me], last'[me] = last[me]
    PROVE  UNCHANGED Service!vars
<1>1. Debt' <=> Debt
  BY DebtFrame DEF logVars
<1>2. Draft' = Draft
  BY DraftFrame
<1> QED
  BY <1>1, <1>2, Stutter DEF logVars

Allowed == Service!Next \/ UNCHANGED Service!vars

LEMMA InitIsInit == Init => Service!Init
<1> SUFFICES ASSUME Init PROVE Service!Init
  OBVIOUS
<1>1. me \in Sids
  BY RefinementAssumption
<1>2. proj[me] = NoProjection /\ task[me] = NoTask /\ link[me] = "new" /\ period[me] = 0 /\ last[me] = NoPush
  BY <1>1 DEF Init
<1>3. ~Debt
  BY <1>2 DEF Debt, Subscribed, NoProjection
<1>4. Debt = FALSE
  BY <1>3, DebtIsBoolean
<1>5. Draft = Service!NoDraft
  BY <1>2, DraftNone DEF NoTask, Pushing
<1>6. proj[me].request = NoRequest /\ proj[me].seq = 0
  BY <1>2 DEF NoProjection
<1>7. last[me] = Service!NoPush
  BY <1>2 DEF NoPush, NoSnapshot, Service!NoPush, Service!NoSnapshot
<1>8. log = [c \in Contexts |-> [guid |-> 0, len |-> 0]]
  BY DEF Init
<1> QED
  BY <1>2, <1>4, <1>5, <1>6, <1>7, <1>8 DEF Service!Init

-----------------------------------------------------------------------------
(***************************************************************************)
(* The steps of the push task.                                             *)
(***************************************************************************)
LEMMA ReadIsPick ==
    ASSUME ServiceInv, proj[me].seq < MaxSpurious, FlushRead(me) PROVE Allowed
<1>0. /\ me \in Sids /\ task \in [Sids -> Task] /\ task[me] \in Task
      /\ StartIsFresh(me) /\ task[me].phase = "start"
  BY RefinementAssumption, Records DEF ServiceInv, SyncInv, WakeInv, ServedSid, FlushRead
<1>1. /\ UNCHANGED <<link, period, unmarked, proj, marks, logVars, last>>
  BY DEF FlushRead, handlerVars
<1>2. Debt' <=> Debt
  BY <1>1, DebtFrame DEF logVars
<1>3. Debt' = Debt
  BY <1>2, DebtIsBoolean
<1>4. Draft = Service!NoDraft
  BY <1>0, DraftNone DEF Pushing
<1>5. CASE Subscribed(proj[me]) /\ proj[me].request # NoRequest
  <2> DEFINE u == [task[me] EXCEPT !.phase = "read", !.request = proj[me].request, !.base = proj[me].dirty]
  <2>1. task'[me] = u
    BY <1>0, <1>5 DEF FlushRead
  <2>2. task[me].snap = NoSnapshot /\ task[me].seq = 0 /\ task[me].period = 0
    BY <1>0 DEF StartIsFresh, NoTask
  <2>3. /\ u.phase = "read" /\ u.request = proj[me].request /\ u.snap = NoSnapshot
        /\ u.seq = 0 /\ u.period = 0
    BY <1>0, <2>2 DEF Task
  <2> HIDE DEF u
  <2>4. Draft' = [phase |-> "read", request |-> proj[me].request, snap |-> NoSnapshot, seq |-> 0, period |-> 0]
    BY <2>1, <2>3 DEF Draft
  <2>5. Draft' = [Service!NoDraft EXCEPT !.phase = "read", !.request = proj[me].request]
    <3>1. Service!NoDraft = [phase |-> "none", request |-> NoRequest, snap |-> NoSnapshot, seq |-> 0, period |-> 0]
      BY DEF Service!NoDraft, Service!NoSnapshot, NoSnapshot
    <3>2. IsDraft(Service!NoDraft) /\ IsDraft(Draft')
      BY <2>4, <3>1 DEF IsDraft
    <3>3. /\ Draft'.phase = "read" /\ Draft'.request = proj[me].request
          /\ Draft'.snap = Service!NoDraft.snap
          /\ Draft'.seq = Service!NoDraft.seq /\ Draft'.period = Service!NoDraft.period
      BY <2>4, <3>1
    <3>4. Draft' = [Service!NoDraft EXCEPT !.phase = Draft'.phase, !.request = Draft'.request]
      BY <3>2, <3>3, DraftUpdates
    <3>5. Draft'.phase = "read" /\ Draft'.request = proj[me].request
      BY <3>3
    <3> QED
      BY ONLY <3>4, <3>5
  <2>6. Service!NoDraft.phase = "none"
    BY DEF Service!NoDraft
  <2>7. Service!Pick
    BY <1>1, <1>3, <1>4, <1>5, <2>5, <2>6 DEF Service!Pick, Service!subVars, logVars
  <2> QED
    BY <2>7 DEF Allowed, Service!Next, Service!Push
<1>6. CASE ~(Subscribed(proj[me]) /\ proj[me].request # NoRequest)
  <2>1. task'[me].phase = "finish"
    <3>1. task' = [task EXCEPT ![me] = [task[me] EXCEPT !.phase = "finish"]]
      BY <1>6 DEF FlushRead, Finish
    <3> QED
      BY <1>0, <3>1, TaskPhase DEF Phases
  <2>2. Draft' = Draft
    BY <1>4, <2>1 DEF Draft, Service!NoDraft, Service!NoSnapshot, NoSnapshot
  <2> QED
    BY <1>1, <1>2, <2>2, Stutter DEF Allowed, logVars
<1> QED
  BY <1>5, <1>6

LEMMA OutputIsBuild == ASSUME ServiceInv, FlushOutput(me) PROVE Allowed
<1> DEFINE r == task[me].request
           sn == [NoSnapshot EXCEPT !.context = r.context, !.of = LogGuid(r.context),
                                    !.from = r.log_from, !.upto = LogEnd(r.context)]
           u == [task[me] EXCEPT !.phase = "output", !.snap = sn]
<1>0. me \in Sids /\ task \in [Sids -> Task] /\ task[me] \in Task /\ task[me].phase = "read"
  BY RefinementAssumption, Records DEF ServiceInv, SyncInv, WakeInv, FlushOutput
<1>1. UNCHANGED <<link, period, unmarked, proj, marks, logVars, last>>
  BY DEF FlushOutput, handlerVars
<1>2. Debt' = Debt
  BY <1>1, DebtFrame, DebtIsBoolean DEF logVars
<1>3. Draft = [phase |-> "read", request |-> r, snap |-> task[me].snap,
               seq |-> task[me].seq, period |-> task[me].period]
  BY <1>0, DraftRecord DEF Pushing
<1>4. task'[me] = u
  BY <1>0 DEF FlushOutput
<1>5. sn = [Service!NoSnapshot EXCEPT !.context = r.context, !.of = Service!LogGuid(r.context),
                                      !.from = r.log_from, !.upto = Service!LogEnd(r.context)]
  BY DEF NoSnapshot, Service!NoSnapshot, LogGuid, LogEnd, Service!LogGuid, Service!LogEnd
<1> HIDE DEF sn
<1>6. /\ u.phase = "output" /\ u.request = r /\ u.snap = sn
      /\ u.seq = task[me].seq /\ u.period = task[me].period
  BY <1>0 DEF Task
<1> HIDE DEF u
<1>7. Draft' = [phase |-> "output", request |-> r, snap |-> sn,
                seq |-> task[me].seq, period |-> task[me].period]
  BY <1>4, <1>6 DEF Draft
<1>8. Draft' = [Draft EXCEPT !.phase = "output", !.snap = sn]
  <2>1. IsDraft(Draft) /\ IsDraft(Draft')
    BY <1>3, <1>7 DEF IsDraft
  <2>2. /\ Draft'.phase = "output" /\ Draft'.snap = sn /\ Draft'.request = Draft.request
        /\ Draft'.seq = Draft.seq /\ Draft'.period = Draft.period
    BY <1>3, <1>7
  <2> QED
    BY <2>1, <2>2, DraftUpdates
<1>9. Draft.phase = "read" /\ Draft.request = r
  BY <1>3
<1>10. Service!Build
  BY <1>1, <1>2, <1>5, <1>8, <1>9 DEF Service!Build, Service!subVars, logVars
<1> QED
  BY <1>10 DEF Allowed, Service!Next, Service!Push

LEMMA GuidIsLabel == ASSUME ServiceInv, FlushGuid(me) PROVE Allowed
<1> DEFINE t == task[me]
           sn == [t.snap EXCEPT !.guid = LogGuid(t.snap.context)]
           u == [t EXCEPT !.phase = "built", !.snap = sn]
<1>0. me \in Sids /\ task \in [Sids -> Task] /\ t \in Task /\ t.phase = "output" /\ t.snap \in Snapshot
  BY RefinementAssumption, Records DEF ServiceInv, SyncInv, WakeInv, FlushGuid, Task
<1>1. UNCHANGED <<link, period, unmarked, proj, marks, logVars, last>>
  BY DEF FlushGuid, handlerVars
<1>2. Debt' = Debt
  BY <1>1, DebtFrame, DebtIsBoolean DEF logVars
<1>3. Draft = [phase |-> "output", request |-> t.request, snap |-> t.snap, seq |-> t.seq, period |-> t.period]
  BY <1>0, DraftRecord DEF Pushing
<1>4. task'[me] = u
  BY <1>0 DEF FlushGuid, Task
<1>5. sn = [t.snap EXCEPT !.guid = Service!LogGuid(t.snap.context)]
  BY DEF LogGuid, Service!LogGuid
<1> HIDE DEF sn
<1>6. u.phase = "built" /\ u.request = t.request /\ u.snap = sn /\ u.seq = t.seq /\ u.period = t.period
  BY <1>0 DEF Task
<1> HIDE DEF u
<1>7. Draft' = [phase |-> "built", request |-> t.request, snap |-> sn, seq |-> t.seq, period |-> t.period]
  BY <1>4, <1>6 DEF Draft
<1>8. Draft.phase = "output" /\ Draft.snap = t.snap
  BY <1>3
<1>9. Draft' = [Draft EXCEPT !.phase = "built", !.snap = sn]
  <2>1. IsDraft(Draft) /\ IsDraft(Draft')
    BY <1>3, <1>7 DEF IsDraft
  <2>2. /\ Draft'.phase = "built" /\ Draft'.snap = sn /\ Draft'.request = Draft.request
        /\ Draft'.seq = Draft.seq /\ Draft'.period = Draft.period
    BY <1>3, <1>7
  <2> QED
    BY <2>1, <2>2, DraftUpdates
<1>10. Draft' = [Draft EXCEPT !.phase = "built", !.snap.guid = Service!LogGuid(Draft.snap.context)]
  BY <1>5, <1>8, <1>9
<1>11. Service!Label
  BY <1>1, <1>2, <1>8, <1>10 DEF Service!Label, Service!subVars, logVars
<1> QED
  BY <1>11 DEF Allowed, Service!Next, Service!Push

\* A debt that a commit clears was one whose snapshot carries the whole log.
LEMMA CommitIsCommit ==
    ASSUME ServiceInv, proj[me].seq < MaxSpurious, FlushCommit(me) PROVE Allowed
<1> DEFINE t == task[me]
<1>0. /\ me \in Sids /\ TypeInv /\ Gated /\ task \in [Sids -> Task] /\ t \in Task
      /\ proj[me] \in Projection /\ t.phase = "built" /\ SyncedSid(me) /\ StreamSid(me) /\ ServedSid(me)
  BY RefinementAssumption, Records DEF ServiceInv, SyncInv, StreamInv, WakeInv, FlushCommit
<1>1. UNCHANGED <<link, period, unmarked, marks, logVars, last>>
  BY DEF FlushCommit, handlerVars
<1>2. /\ proj[me].seq \in Nat /\ t.request \in Request /\ t.request # NoRequest
  BY <1>0, Records, RequestAssumption DEF TypeInv, TaskHasRequest, Request
<1>3. /\ t.snap.context = t.request.context
      /\ Draft = [phase |-> "built", request |-> t.request, snap |-> t.snap, seq |-> t.seq, period |-> t.period]
  BY <1>0, DraftRecord DEF Pushing, StreamSid, SnapshotIsOfRequest
<1>4. CASE StillWanted(me)
  <2> DEFINE u == [t EXCEPT !.phase = "emit", !.seq = proj[me].seq + 1, !.period = period[me]]
  <2>1. /\ proj'[me].seq = proj[me].seq + 1 /\ proj'[me].request = Advanced(me)
        /\ proj'[me].pushed = PushedUpTo(me) /\ proj'[me].dirty = proj[me].dirty
        /\ proj'[me].registered = proj[me].registered /\ proj'[me].seq_base = proj[me].seq_base
    BY <1>0, <1>4, CommitEffect
  <2>2. task'[me] = u
    BY <1>0, <1>4 DEF FlushCommit
  <2>3. /\ u.phase = "emit" /\ u.request = t.request /\ u.snap = t.snap
        /\ u.seq = proj[me].seq + 1 /\ u.period = period[me]
    BY <1>0 DEF Task
  <2> HIDE DEF u
  <2>4. Draft' = [phase |-> "emit", request |-> t.request, snap |-> t.snap,
                  seq |-> proj[me].seq + 1, period |-> period[me]]
    BY <2>2, <2>3 DEF Draft
  <2>5. Draft' = [Draft EXCEPT !.phase = "emit", !.seq = proj[me].seq + 1, !.period = period[me]]
    <3>1. IsDraft(Draft) /\ IsDraft(Draft')
      BY <1>3, <2>4 DEF IsDraft
    <3>2. /\ Draft'.phase = "emit" /\ Draft'.seq = proj[me].seq + 1 /\ Draft'.period = period[me]
          /\ Draft'.request = Draft.request /\ Draft'.snap = Draft.snap
      BY <1>3, <2>4
    <3>3. Draft' = [Draft EXCEPT !.phase = Draft'.phase, !.seq = Draft'.seq, !.period = Draft'.period]
      BY <3>1, <3>2, DraftUpdates
    <3>4. /\ Draft'.phase = "emit" /\ Draft'.seq = proj[me].seq + 1 /\ Draft'.period = period[me]
      BY <3>2
    <3> QED
      BY ONLY <3>3, <3>4
  <2>6. /\ Draft.phase = "built" /\ Draft.request = proj[me].request /\ Draft.snap = t.snap
    BY <1>3, <1>4 DEF StillWanted
  <2>7. proj'[me].request = [proj[me].request EXCEPT !.log_from = Draft.snap.upto]
    BY <2>1, <2>6 DEF Advanced
  <2>8. ~Debt' => /\ t.snap.upto = Service!LogEnd(t.snap.context)
                  /\ t.snap.of = Service!LogGuid(t.snap.context)
    <3>1. Subscribed(proj[me])
      BY <1>0, <1>2, <1>4 DEF ServedSid, RequestIsSubscribed, StillWanted
    <3>2. Subscribed(proj'[me])
      BY <2>1, <3>1 DEF Subscribed
    <3>3. proj'[me].request.context = t.request.context
      BY <1>0, <1>4, <2>1, CommittedRequest
    <3>4. ASSUME ~Debt' PROVE ~Told(me, t.request.context)
      <4>1. marks[me] \in Nat
        BY <1>0, Records
      <4>2. me \notin unmarked /\ ~(marks[me] > 0)
        BY <1>1, <3>2, <3>4 DEF Debt
      <4>3. t.request.context \in Contexts => unnotified[t.request.context] = "nobody"
        BY <1>1, <3>2, <3>3, <3>4 DEF Debt, OwnLogUnnotified, logVars
      <4> QED
        BY <4>2, <4>3 DEF Told
    <3>5. ~Debt' => t.snap.upto = LogEnd(t.request.context) /\ t.snap.of = LogGuid(t.request.context)
      BY <1>0, <1>4, <3>4 DEF SyncedSid, SnapshotIsUpToDate
    <3> QED
      BY <1>3, <3>5 DEF LogEnd, LogGuid, Service!LogEnd, Service!LogGuid
  <2>9. IF Debt' THEN ~Service!CarriesAll \/ proj[me].seq < MaxSpurious ELSE Service!CarriesAll
    BY <2>6, <2>8 DEF Service!CarriesAll
  <2>10. Service!Commit
    BY <1>1, <2>1, <2>5, <2>6, <2>7, <2>9, DebtIsBoolean DEF Service!Commit, logVars
  <2> QED
    BY <2>10 DEF Allowed, Service!Next, Service!Push
<1>5. CASE ~StillWanted(me)
  <2>1. proj' = proj /\ task'[me].phase = "finish"
    BY <1>0, <1>5, CommitEffect
  <2>2. Debt' = Debt
    BY <1>1, <2>1, DebtFrame, DebtIsBoolean DEF logVars
  <2>3. Draft' = Service!NoDraft
    BY <2>1 DEF Draft, Service!NoDraft, Service!NoSnapshot, NoSnapshot
  <2>4. proj[me].request # t.request
    <3>1. ~proj[me].registered => proj[me].request = NoRequest
      BY <1>0 DEF SyncedSid, AskedIfRequest
    <3> QED
      BY <1>2, <1>5, <3>1 DEF StillWanted
  <2>5. Draft.phase = "built" /\ Draft.request = t.request
    BY <1>3
  <2>6. Service!Discard
    BY <1>1, <2>1, <2>2, <2>3, <2>4, <2>5 DEF Service!Discard, Service!subVars, logVars
  <2> QED
    BY <2>6 DEF Allowed, Service!Next, Service!Push
<1> QED
  BY <1>4, <1>5

LEMMA EmitIsEmit == ASSUME ServiceInv, FlushEmit(me) PROVE Allowed
<1> DEFINE t == task[me]
<1>0. /\ me \in Sids /\ task \in [Sids -> Task] /\ t \in Task /\ t.phase = "emit"
      /\ last \in [Sids -> Push]
  BY RefinementAssumption, Records DEF ServiceInv, SyncInv, WakeInv, TypeInv, TypeOK, FlushEmit
<1>1. UNCHANGED <<link, period, unmarked, proj, marks, logVars>>
  BY DEF FlushEmit, handlerVars
<1>2. Debt' = Debt
  BY <1>1, DebtFrame, DebtIsBoolean DEF logVars
<1>3. Draft = [phase |-> "emit", request |-> t.request, snap |-> t.snap, seq |-> t.seq, period |-> t.period]
  BY <1>0, DraftRecord DEF Pushing
<1>4. task'[me].phase = "finish"
  BY <1>0, TaskPhase DEF FlushEmit, Finish, Phases
<1>5. Draft' = Service!NoDraft
  BY <1>4 DEF Draft, Service!NoDraft, Service!NoSnapshot, NoSnapshot
<1>6. last'[me] = IF link[me] = "up" THEN [period |-> t.period, seq |-> t.seq, snap |-> t.snap] ELSE last[me]
  BY <1>0 DEF FlushEmit
<1>7. Draft.phase = "emit" /\ Draft.period = t.period /\ Draft.seq = t.seq /\ Draft.snap = t.snap
  BY <1>3
<1>8. Service!Emit
  BY <1>1, <1>2, <1>5, <1>6, <1>7 DEF Service!Emit, Service!subVars, logVars
<1> QED
  BY <1>8 DEF Allowed, Service!Next, Service!Push

-----------------------------------------------------------------------------
(***************************************************************************)
(* The other steps.                                                        *)
(***************************************************************************)
LEMMA Mine ==
    ASSUME ServiceInv
    PROVE  /\ me \in Sids /\ TypeInv /\ Gated /\ ServedSid(me) /\ SyncedSid(me) /\ StreamSid(me)
           /\ proj \in [Sids -> Projection] /\ proj[me] \in Projection
           /\ task \in [Sids -> Task] /\ task[me] \in Task
           /\ marks \in [Sids -> Nat] /\ link \in [Sids -> {"new", "up", "closing", "gone"}]
           /\ period \in [Sids -> Nat] /\ last \in [Sids -> Push]
           /\ routed \in [Sids -> Request \cup {NoRequest}]
<1>1. me \in Sids /\ TypeInv /\ Gated /\ ServedSid(me) /\ SyncedSid(me) /\ StreamSid(me)
  BY RefinementAssumption DEF ServiceInv, SyncInv, StreamInv, WakeInv
<1> QED
  BY <1>1, Records DEF TypeInv, TypeOK

\* A subscribed connection has a request, and the other way round.
LEMMA SubscribedHasRequest ==
    ASSUME ServiceInv PROVE Subscribed(proj[me]) <=> proj[me].request # NoRequest
BY Mine DEF Gated, ServedSid, RequestIsSubscribed

LEMMA OthersConnections ==
    ASSUME ServiceInv, NEW s \in Sids, s # me,
           \/ Connect(s) \/ CloseSocket(s) \/ OnDisconnect(s)
           \/ \E c \in Contexts \cup {NoContext}, n \in LogFroms :
                RouteRequest(s, [context |-> c, log_from |-> n])
           \/ UpdateProjection(s) \/ MarkRequestDirty(s)
    PROVE  Allowed
<1>1. CASE Connect(s)
  BY <1>1, Mine, Untouched DEF Connect, Allowed
<1>2. CASE CloseSocket(s)
  BY <1>2, Mine, Untouched DEF CloseSocket, monitorVars, Allowed
<1>3. CASE OnDisconnect(s)
  BY <1>3, Mine, Untouched DEF OnDisconnect, Allowed
<1>4. ASSUME NEW r, RouteRequest(s, r) PROVE Allowed
  BY <1>4, Mine, Untouched DEF RouteRequest, monitorVars, Allowed
<1>5. CASE UpdateProjection(s)
  BY <1>5, Mine, Untouched DEF UpdateProjection, Allowed
<1>6. CASE MarkRequestDirty(s)
  BY <1>6, Mine, Untouched DEF MarkRequestDirty, Allowed
<1> QED
  BY <1>1, <1>2, <1>3, <1>4, <1>5, <1>6

LEMMA OthersDispatcher ==
    ASSUME ServiceInv, NEW s \in Sids, s # me, DispatcherStep(s) PROVE Allowed
<1>1. UNCHANGED <<link, period, unmarked, logVars>>
  BY DEF DispatcherStep, RunMarkDirty, RunSchedule, DebounceFire, FlushRead, FlushOutput, FlushGuid,
         FlushCommit, FlushEmit, FlushFinish, handlerVars
<1>2. task'[me] = task[me]
  <2>1. RunMarkDirty(s) \/ RunSchedule(s) => task' = task
    BY DEF RunMarkDirty, RunSchedule
  <2>2. DebounceFire(s) \/ FlushEmit(s) \/ FlushFinish(s) => task'[me] = task[me]
    BY Mine, TaskEffect
  <2>3. FlushRead(s) => task'[me] = task[me]
    BY Mine, ReadEffect
  <2>4. FlushOutput(s) \/ FlushGuid(s) => task'[me] = task[me]
    BY Mine, OutputEffect, GuidEffect
  <2>5. FlushCommit(s) => task'[me] = task[me]
    BY Mine, CommitEffect
  <2> QED
    BY <2>1, <2>2, <2>3, <2>4, <2>5 DEF DispatcherStep
<1>3. proj'[me] = proj[me]
  <2>1. RunMarkDirty(s) => proj'[me] = proj[me]
    BY Mine DEF RunMarkDirty
  <2>2. FlushCommit(s) => proj'[me] = proj[me]
    BY Mine, CommitEffect
  <2>3. ~RunMarkDirty(s) /\ ~FlushCommit(s) => proj' = proj
    BY DEF DispatcherStep, RunSchedule, DebounceFire, FlushRead, FlushOutput, FlushGuid, FlushEmit, FlushFinish
  <2> QED
    BY <2>1, <2>2, <2>3
<1>4. marks'[me] = marks[me]
  BY Mine DEF DispatcherStep, RunMarkDirty, RunSchedule, DebounceFire, FlushRead, FlushOutput, FlushGuid,
              FlushCommit, FlushEmit, FlushFinish
<1>5. last'[me] = last[me]
  BY Mine DEF DispatcherStep, RunMarkDirty, RunSchedule, DebounceFire, FlushRead, FlushOutput, FlushGuid,
              FlushCommit, FlushEmit, FlushFinish
<1> QED
  BY <1>1, <1>2, <1>3, <1>4, <1>5, Untouched DEF Allowed

LEMMA ConnectIsUp == ASSUME ServiceInv, ServiceInv', Connect(me) PROVE Allowed
<1>1. /\ UNCHANGED <<routed, unmarked, marks, task, logVars, period, last>>
      /\ link[me] = "new" /\ link'[me] = "up"
      /\ proj' = [proj EXCEPT ![me] = [proj[me] EXCEPT !.registered = TRUE]]
  BY Mine DEF Connect
<1>2. proj'[me].request = proj[me].request /\ proj'[me].seq = proj[me].seq
  <2>1. proj'[me] = [proj[me] EXCEPT !.registered = TRUE]
    BY <1>1, Mine
  <2> QED
    BY <2>1, Mine, RegisterEffect
<1>3. proj[me].request = NoRequest
  BY <1>1, Mine DEF StreamSid, NothingBeforeConnect
<1>4. ~Debt
  BY <1>3, Mine, NoDebt
<1>5. ~Debt'
  <2>1. Gated'
    BY DEF ServiceInv, SyncInv, WakeInv
  <2> QED
    BY <1>2, <1>3, <2>1, RefinementAssumption DEF Gated, Debt
<1>6. Debt' = Debt
  BY <1>4, <1>5, DebtIsBoolean
<1>7. Draft' = Draft
  BY <1>1, DraftFrame
<1>8. Service!Up
  BY <1>1, <1>2, <1>6, <1>7 DEF Service!Up, Service!subVars, logVars
<1> QED
  BY <1>8 DEF Allowed, Service!Next

LEMMA CloseIsDown == ASSUME ServiceInv, CloseSocket(me) PROVE Allowed
<1>1. /\ UNCHANGED <<unmarked, proj, marks, task, logVars, period, last>>
      /\ link[me] = "up" /\ link'[me] = "closing"
  BY Mine DEF CloseSocket, monitorVars
<1>2. Debt' = Debt
  BY <1>1, DebtFrame, DebtIsBoolean DEF logVars
<1>3. Draft' = Draft
  BY <1>1, DraftFrame
<1>4. Service!Down
  BY <1>1, <1>2, <1>3 DEF Service!Down, Service!subVars, logVars
<1> QED
  BY <1>4 DEF Allowed, Service!Next

LEMMA DisconnectIsGone == ASSUME ServiceInv, OnDisconnect(me) PROVE Allowed
<1>1. /\ UNCHANGED <<logVars, period, last>>
      /\ link[me] = "closing" /\ link'[me] = "gone" /\ proj'[me] = NoProjection
  BY Mine DEF OnDisconnect
<1>2. task'[me].phase \notin Pushing
  <2>1. task'[me] = NoTask \/ task'[me] = [NoTask EXCEPT !.phase = "start"]
    BY Mine DEF OnDisconnect
  <2>2. NoTask.phase = "none" /\ [NoTask EXCEPT !.phase = "start"].phase = "start"
    BY DEF NoTask
  <2> QED
    BY <2>1, <2>2 DEF Pushing
<1>3. Draft' = Service!NoDraft
  BY <1>2 DEF Draft, Pushing, Service!NoDraft, Service!NoSnapshot, NoSnapshot
<1>4. ~Debt'
  BY <1>1 DEF Debt, Subscribed, NoProjection
<1>5. Debt' = FALSE
  BY <1>4, DebtIsBoolean
<1>6. proj'[me].request = NoRequest /\ proj'[me].seq = 0
  BY <1>1 DEF NoProjection
<1>7. Service!Gone
  BY <1>1, <1>3, <1>5, <1>6 DEF Service!Gone, logVars
<1> QED
  BY <1>7 DEF Allowed, Service!Next

LEMMA UpdateIsAccept == ASSUME ServiceInv, UpdateProjection(me) PROVE Allowed
<1> DEFINE p == [proj[me] EXCEPT !.registered = TRUE, !.request = routed[me],
                                 !.seq_base = SeqBase, !.seq = SeqBase]
<1>1. /\ UNCHANGED <<link, marks, task, logVars, last>> /\ routed[me] # NoRequest
      /\ proj'[me] = p /\ me \in unmarked' /\ period'[me] = period[me] + 1
  BY Mine DEF UpdateProjection
<1>2. /\ p.registered = TRUE /\ p.request = routed[me] /\ p.seq = SeqBase /\ p.seq_base = SeqBase
  BY Mine, RequestEffect
<1> HIDE DEF p
<1>3. Subscribed(proj'[me])
  BY <1>1, <1>2 DEF Subscribed, SeqBase
<1>4. Debt'
  BY <1>1, <1>3 DEF Debt
<1>5. Debt' = TRUE
  BY <1>4, DebtIsBoolean
<1>6. Draft' = Draft
  BY <1>1, DraftFrame
<1>7. PICK c \in Contexts \cup {NoContext}, n \in LogFroms : routed[me] = [context |-> c, log_from |-> n]
  BY <1>1, Mine DEF ServedSid, RoutedIsAllowed
<1>8. link[me] # "new" /\ period[me] < MaxRequests
  BY <1>1, Mine DEF ServedSid, RoutedIsAllowed, StreamSid, NothingBeforeConnect
<1>9. proj'[me].request = [context |-> c, log_from |-> n] /\ proj'[me].seq = Service!SeqBase
  BY <1>1, <1>2, <1>7 DEF SeqBase, Service!SeqBase
<1>10. Service!Accept([context |-> c, log_from |-> n])
  BY <1>1, <1>5, <1>6, <1>8, <1>9 DEF Service!Accept, logVars
<1> QED
  BY <1>10 DEF Allowed, Service!Next

LEMMA MarkedStutters == ASSUME ServiceInv, MarkRequestDirty(me) PROVE Allowed
<1>1. /\ UNCHANGED <<link, proj, task, logVars, period, last>>
      /\ me \in unmarked /\ marks'[me] = marks[me] + 1 /\ marks[me] \in Nat
  BY Mine DEF MarkRequestDirty
<1>2. marks'[me] > 0
  BY <1>1
<1>3. Debt' <=> Debt
  BY <1>1, <1>2 DEF Debt
<1>4. Draft' = Draft
  BY <1>1, DraftFrame
<1> QED
  BY <1>1, <1>3, <1>4, Stutter DEF Allowed, logVars

\* The posted callback counts the dirty it stands for: the debt stays.
LEMMA RunMarkDirtyStutters == ASSUME ServiceInv, RunMarkDirty(me) PROVE Allowed
<1>1. /\ UNCHANGED <<link, unmarked, task, logVars, period, last>> /\ marks[me] > 0
  BY DEF RunMarkDirty, handlerVars
<1>2. /\ proj'[me].request = proj[me].request /\ proj'[me].seq = proj[me].seq
      /\ proj'[me].registered = proj[me].registered /\ proj'[me].seq_base = proj[me].seq_base
      /\ proj[me].registered => proj'[me].dirty = proj[me].dirty + 1 /\ proj'[me].pushed = proj[me].pushed
  <2>1. /\ proj[me].registered => proj'[me] = [proj[me] EXCEPT !.dirty = @ + 1]
        /\ ~proj[me].registered => proj'[me] = proj[me]
    BY Mine DEF RunMarkDirty, Counts
  <2> QED
    BY <2>1, Mine, DirtyEffect
<1>3. Subscribed(proj'[me]) <=> Subscribed(proj[me])
  BY <1>2 DEF Subscribed
<1>4. Subscribed(proj[me]) => proj'[me].dirty > proj'[me].pushed
  <2>1. proj[me].dirty \in Nat /\ proj[me].pushed \in Nat /\ proj[me].pushed <= proj[me].dirty
    BY Mine, Records DEF SyncedSid, VersionsOrdered
  <2> QED
    BY <1>2, <2>1 DEF Subscribed
<1>5. Debt' <=> Debt
  BY <1>1, <1>3, <1>4 DEF Debt
<1>6. Draft' = Draft
  BY <1>1, DraftFrame
<1> QED
  BY <1>1, <1>2, <1>5, <1>6, Stutter DEF Allowed, logVars

LEMMA TimersStutter ==
    ASSUME ServiceInv, RunSchedule(me) \/ DebounceFire(me) \/ FlushFinish(me) PROVE Allowed
<1>1. UNCHANGED <<link, unmarked, proj, marks, logVars, period, last>>
  BY DEF RunSchedule, DebounceFire, FlushFinish, handlerVars
<1>2. Debt' <=> Debt
  BY <1>1, DebtFrame DEF logVars
<1>3. Draft' = Draft
  <2>1. CASE task'[me] = task[me]
    BY <2>1, DraftFrame
  <2>2. CASE task'[me] # task[me]
    <3>1. task[me].phase \notin Pushing /\ task'[me].phase \notin Pushing
      <4>1. NoTask.phase = "none" /\ [NoTask EXCEPT !.phase = "start"].phase = "start"
        BY DEF NoTask
      <4>2. /\ task[me].phase \in {"none", "finish"}
            /\ task'[me] = NoTask \/ task'[me] = [NoTask EXCEPT !.phase = "start"]
        BY <2>2, Mine DEF RunSchedule, DebounceFire, FlushFinish
      <4>3. task'[me].phase = "none" \/ task'[me].phase = "start"
        BY <4>1, <4>2
      <4> QED
        BY <4>2, <4>3 DEF Pushing
    <3> QED
      BY <3>1 DEF Draft, Pushing
  <2> QED
    BY <2>1, <2>2
<1> QED
  BY <1>1, <1>2, <1>3, Stutter DEF Allowed, logVars

\* A log changes: whoever shows it is owed a push.
LEMMA LogChangeOwes ==
    ASSUME ServiceInv, NEW c \in Contexts, UNCHANGED <<proj, marks, unmarked>>,
           \A d \in Contexts \ {c} : unnotified'[d] = unnotified[d],
           unnotified[c] = "nobody", unnotified'[c] # "nobody"
    PROVE  Debt' <=> (Debt \/ Service!Shows(c))
<1>1. CASE Service!Shows(c)
  BY <1>1, SubscribedHasRequest DEF Service!Shows, Debt, OwnLogUnnotified
<1>2. CASE ~Service!Shows(c)
  BY <1>2, SubscribedHasRequest DEF Service!Shows, Debt, OwnLogUnnotified
<1> QED
  BY <1>1, <1>2

LEMMA LogChanges ==
    ASSUME ServiceInv, NEW c \in Contexts, AppendUpdate(c) \/ ResetLog(c) PROVE Allowed
<1>1. UNCHANGED <<link, unmarked, proj, marks, task, period, last>> /\ unnotified[c] = "nobody"
  BY DEF AppendUpdate, ResetLog, monitorVars, handlerVars
<1>2. (\A d \in Contexts \ {c} : unnotified'[d] = unnotified[d]) /\ unnotified'[c] # "nobody"
  <2>1. unnotified \in [Contexts -> {"nobody", "all", "context"}]
    BY Mine DEF TypeInv, TypeOK
  <2>2. PICK w \in {"all", "context"} : unnotified' = [unnotified EXCEPT ![c] = w]
    BY DEF AppendUpdate, ResetLog
  <2> QED
    BY <2>1, <2>2
<1>3. Debt' <=> (Debt \/ Service!Shows(c))
  BY <1>1, <1>2, LogChangeOwes
<1>4. Debt' = (Debt \/ Service!Shows(c))
  BY <1>3, DebtIsBoolean
<1>5. Draft' = Draft
  BY <1>1, DraftFrame
<1>6. AppendUpdate(c) => Service!AppendUpdate(c)
  BY <1>1, <1>4, <1>5 DEF AppendUpdate, Service!AppendUpdate
<1>7. ResetLog(c) => Service!ResetLog(c)
  BY <1>1, <1>4, <1>5 DEF ResetLog, Service!ResetLog
<1> QED
  BY <1>6, <1>7 DEF Allowed, Service!Next

\* mark_dirty_all and mark_dirty_for_context reach the connection that shows the
\* changed log: what was owed because of the log stays owed.
LEMMA NotifyOwes ==
    ASSUME ServiceInv, proj[me].seq < MaxSpurious, NEW c \in Contexts, Notify(c) PROVE Allowed
<1>1. UNCHANGED <<link, unmarked, proj, task, log, period, last>>
  BY DEF Notify, handlerVars
<1>2. /\ unnotified[c] \in {"all", "context"}
      /\ \A d \in Contexts \ {c} : unnotified'[d] = unnotified[d]
  BY Mine DEF Notify, TypeInv, TypeOK
<1>3. /\ marks[me] \in Nat
      /\ marks'[me] = IF me \in Targets(c, unnotified[c]) THEN marks[me] + 1 ELSE marks[me]
  BY Mine DEF Notify
<1>4. marks[me] > 0 => marks'[me] > 0
  BY <1>3
<1>5. me \in Targets(c, unnotified[c]) => marks'[me] > 0
  BY <1>3
<1>6. Debt => Debt'
  <2>1. CASE Debt /\ OwnLogUnnotified /\ proj[me].request.context = c
    <3>1. proj[me].registered /\ proj[me].request # NoRequest
      BY <2>1, SubscribedHasRequest DEF Debt, Subscribed
    <3>2. me \in Targets(c, unnotified[c])
      BY <2>1, <3>1, Mine DEF Targets
    <3> QED
      BY <1>1, <1>5, <2>1, <3>2 DEF Debt
  <2>2. CASE Debt /\ OwnLogUnnotified /\ proj[me].request.context # c
    BY <1>1, <1>2, <2>2 DEF Debt, OwnLogUnnotified
  <2>3. CASE Debt /\ ~OwnLogUnnotified
    BY <1>1, <1>4, <2>3 DEF Debt
  <2> QED
    BY <2>1, <2>2, <2>3
<1>7. Debt' => proj[me].request # NoRequest
  BY <1>1, SubscribedHasRequest DEF Debt
<1>8. Draft' = Draft
  BY <1>1, DraftFrame
<1>9. CASE Debt' <=> Debt
  BY <1>1, <1>8, <1>9, Stutter DEF Allowed
<1>10. CASE Debt' /\ ~Debt
  <2>1. Debt' = TRUE
    BY <1>10, DebtIsBoolean
  <2>2. Service!Owe
    BY <1>1, <1>7, <1>8, <1>10, <2>1 DEF Service!Owe
  <2> QED
    BY <2>2 DEF Allowed, Service!Next
<1> QED
  BY <1>6, <1>9, <1>10

-----------------------------------------------------------------------------
(***************************************************************************)
(* The theorem.                                                            *)
(***************************************************************************)
LEMMA StepIsStep ==
    ASSUME ServiceInv, ServiceInv', proj[me].seq < MaxSpurious, [Next]_vars
    PROVE  [Service!Next]_(Service!vars)
<1> SUFFICES Allowed
  BY DEF Allowed
<1>1. CASE UNCHANGED vars
  BY <1>1, Untouched DEF vars, monitorVars, handlerVars, Allowed
<1>2. ASSUME NEW c \in Contexts, AppendUpdate(c) \/ ResetLog(c) \/ Notify(c) PROVE Allowed
  BY <1>2, LogChanges, NotifyOwes
<1>3. ASSUME NEW s \in Sids, s # me,
             \/ Connect(s) \/ CloseSocket(s) \/ OnDisconnect(s)
             \/ \E c \in Contexts \cup {NoContext}, n \in LogFroms :
                  RouteRequest(s, [context |-> c, log_from |-> n])
             \/ UpdateProjection(s) \/ MarkRequestDirty(s)
      PROVE  Allowed
  BY <1>3, OthersConnections
<1>4. ASSUME NEW s \in Sids, s # me, DispatcherStep(s) PROVE Allowed
  BY <1>4, OthersDispatcher
<1>5. CASE \/ Connect(me) \/ CloseSocket(me) \/ OnDisconnect(me)
           \/ UpdateProjection(me) \/ MarkRequestDirty(me)
  BY <1>5, ConnectIsUp, CloseIsDown, DisconnectIsGone, UpdateIsAccept, MarkedStutters
<1>6. ASSUME NEW r, RouteRequest(me, r) PROVE Allowed
  BY <1>6, Mine, Untouched DEF RouteRequest, monitorVars, Allowed
<1>7. CASE DispatcherStep(me)
  BY <1>7, RunMarkDirtyStutters, TimersStutter, ReadIsPick, OutputIsBuild, GuidIsLabel,
     CommitIsCommit, EmitIsEmit DEF DispatcherStep
<1> QED
  BY <1>1, <1>2, <1>3, <1>4, <1>5, <1>6, <1>7 DEF Next

\* The monitor keeps, towards any one connection, the promise of the service:
\* every behaviour of StateMonitor is a behaviour of PushService.
THEOREM MonitorImplementsService ==
    Spec /\ [](proj[me].seq < MaxSpurious) => ImplementsPushService
<1>1. Init => Service!Init
  BY InitIsInit
<1>2. Init => ServiceInv
  BY ServiceInvInit
<1>3. ServiceInv /\ [Next]_vars => ServiceInv'
  BY ServedStep
<1>4. ServiceInv /\ ServiceInv' /\ proj[me].seq < MaxSpurious /\ [Next]_vars
        => [Service!Next]_(Service!vars)
  BY StepIsStep
<1> QED
  BY <1>1, <1>2, <1>3, <1>4, PTL DEF Spec, ImplementsPushService, Service!Spec
=============================================================================
