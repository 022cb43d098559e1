------------------------ MODULE TaskSchedulerProofs ------------------------
(***************************************************************************)
(* Theorems about TaskScheduler, for any tasks, runs and planned times.    *)
(***************************************************************************)
EXTENDS TaskScheduler, WellFoundedInduction, TLAPS

\* TypeOK and the variables it leaves out, by who writes them.
Phases == Active \cup {"none", "ended", "stranded"}

ListTyped ==
    /\ state \in [Tasks -> {"idle", "running", "disabled", "error", "gone"}]
    /\ kept \in [Tasks -> Plan] /\ plan \in [Tasks -> Plan]
    /\ \A t \in Tasks : OnePlaceEach(kept[t]) /\ OnePlaceEach(plan[t])
    /\ live \subseteq Runs

RunsTyped ==
    /\ pc \in [Runs -> Phases]
    /\ of \in [Runs -> Tasks \cup {NoTask}]
    /\ \A r \in Runs : pc[r] # "none" => of[r] \in Tasks
    /\ copy \in [Runs -> Plan]
    /\ \A r \in Runs : OnePlaceEach(copy[r])
    /\ outcome \in [Runs -> {"idle", "error"}]
    /\ holder \in Runs \cup {NoRun}
    /\ registered \in [Tasks -> Runs \cup {NoRun}]

RequestTyped ==
    /\ request \in [phase : {"none", "start", "reset"}, task : Tasks \cup {NoTask}]
    /\ request.phase # "none" => request.task \in Tasks

EditorTyped ==
    /\ editor \in [task : Tasks \cup {NoTask}, plan : Plan]
    /\ OnePlaceEach(editor.plan)

StopTyped ==
    /\ stop \in [phase : {"none", "cancel", "drain", "join", "reset", "stopped"},
                 kind : StopKinds \cup {"none"}, task : Tasks \cup {NoTask},
                 runs : SUBSET Runs]
    /\ stop.phase # "none" => stop.task \in Tasks /\ stop.kind \in StopKinds

ClockTyped ==
    /\ due \subseteq Tasks /\ now \in 0..LastTime /\ acts \in Nat
    /\ launched \in [Tasks -> SUBSET Times]

Typed ==
    /\ ListTyped /\ RunsTyped /\ RequestTyped /\ EditorTyped /\ StopTyped /\ ClockTyped

\* A plan accounts for every time, when a run was started for the times in the set: what
\* it has done or is doing is among them, and the others are still to do.
Accounts(p, t, times) ==
    /\ p.done \subseteq times /\ p.doing \in times \cup {0}
    /\ t \in Planned => Times \subseteq p.todo \cup times

\* A run that has claimed its task has the plan of its task object.
Begun == Active \ {"queued", "checked"}

\* Whoever holds a plan that may be written back holds one that accounts for every time:
\* the file, the list, the runs and the editor.
PlansAccount ==
    /\ \A t \in Tasks : Accounts(kept[t], t, launched[t]) /\ Accounts(plan[t], t, launched[t])
    /\ \A r \in Runs : pc[r] \in Begun => Accounts(copy[r], of[r], launched[of[r]])
    /\ editor.task # NoTask => Accounts(editor.plan, editor.task, launched[editor.task])

\* What is registered for a task is a run of it.
RegisteredRun ==
    \A t \in Tasks : registered[t] # NoRun =>
        pc[registered[t]] # "none" /\ of[registered[t]] = t

\* A run has been cancelled and has not heard of it only while a stop is under way that
\* waits for it; until all coroutines are cancelled, it is a run of the task to be stopped.
CancelledIsStopped ==
    /\ stop.phase = "none" => stop.task = NoTask
    /\ \A r \in stop.runs : pc[r] # "none" /\ (stop.phase = "cancel" => of[r] = stop.task)
    /\ \A r \in Runs : pc[r] = "cancelled" =>
          \/ stop.phase = "drain" /\ of[r] = stop.task
          \/ stop.phase = "join" /\ r \in stop.runs

-----------------------------------------------------------------------------
(* The earliest time of a plan                                             *)

\* The order of the natural numbers, as a relation, is well founded.
LEMMA NatOrder ==
    \E R : IsWellFoundedOn(R, Nat) /\ \A x, y \in Nat : x < y => <<x, y>> \in R
<1>1. \A x, y \in Nat : x < y => <<x, y>> \in OpToRel(<, Nat)
  BY Zenon DEF OpToRel
<1> QED
  BY <1>1, NatLessThanWellFounded, Zenon

LEMMA NatMinimum ==
    ASSUME NEW S \in SUBSET Nat, S # {}
    PROVE  \E x \in S : \A y \in S : x <= y
<1>1. PICK R : IsWellFoundedOn(R, Nat) /\ \A x, y \in Nat : x < y => <<x, y>> \in R
  BY NatOrder
<1>2. PICK x \in S : \A y \in S : <<y, x>> \notin R
  <2>1. IsWellFoundedOn(R, Nat)
    BY <1>1
  <2> QED
    BY <2>1, WFMin
<1>3. \A y \in S : ~(y < x)
  BY <1>1, <1>2
<1> QED
  BY <1>3

LEMMA TimeFacts == Times \subseteq Nat /\ 0 \notin Times
BY SchedulerAssumption DEF Times

\* The time a run is started for is one that is still to do.
LEMMA LaunchTimeFacts ==
    ASSUME NEW p \in Plan
    PROVE  LaunchTime(p) \in p.todo \cup {0}
<1>1. CASE p.todo = {}
  BY <1>1 DEF LaunchTime
<1>2. CASE p.todo # {}
  <2>1. p.todo \in SUBSET Nat
    BY TimeFacts DEF Plan
  <2>2. Min(p.todo) \in p.todo
    BY <1>2, <2>1, NatMinimum DEF Min
  <2> QED
    BY <2>2 DEF LaunchTime
<1> QED
  BY <1>1, <1>2

-----------------------------------------------------------------------------
(* What the operations on a plan do                                        *)

LEMMA EmptyPlanFacts == EmptyPlan \in Plan /\ OnePlaceEach(EmptyPlan)
BY TimeFacts DEF EmptyPlan, Plan, OnePlaceEach

LEMMA SetInProgressFacts ==
    ASSUME NEW p \in Plan, OnePlaceEach(p), NEW x \in p.todo
    PROVE  /\ SetInProgress(p, x) \in Plan /\ OnePlaceEach(SetInProgress(p, x))
           /\ SetInProgress(p, x).todo = p.todo \ {x}
           /\ SetInProgress(p, x).doing = x
           /\ SetInProgress(p, x).done = p.done
BY DEF SetInProgress, Plan, OnePlaceEach

LEMMA SetDoneFacts ==
    ASSUME NEW p \in Plan, OnePlaceEach(p), p.doing # 0
    PROVE  /\ SetDone(p) \in Plan /\ OnePlaceEach(SetDone(p))
           /\ SetDone(p).todo = p.todo
           /\ SetDone(p).doing = 0
           /\ SetDone(p).done = p.done \cup {p.doing}
BY TimeFacts DEF SetDone, Plan, OnePlaceEach

-----------------------------------------------------------------------------
(* TypeOK: what the operations on the list and on a run do                 *)

LEMMA ReloadTyped ==
    ASSUME ListTyped, Reload, UNCHANGED kept,
           state' \in [Tasks -> {"idle", "running", "disabled", "error", "gone"}]
    PROVE  ListTyped'
BY DEF ListTyped, Reload

LEMMA SetStateTyped ==
    ASSUME ListTyped, NEW t \in Tasks, NEW s \in {"idle", "running", "disabled", "error"},
           SetState(t, s)
    PROVE  ListTyped'
<1>1. state' \in [Tasks -> {"idle", "running", "disabled", "error", "gone"}]
  BY DEF SetState, Update, ListTyped
<1> QED
  BY <1>1, ReloadTyped DEF SetState

LEMMA SetPlanTyped ==
    ASSUME ListTyped, NEW t \in Tasks, NEW p \in Plan, OnePlaceEach(p), SetPlan(t, p),
           state' \in [Tasks -> {"idle", "running", "disabled", "error", "gone"}]
    PROVE  ListTyped'
<1>1. kept' \in [Tasks -> Plan] /\ \A u \in Tasks : OnePlaceEach(kept'[u])
  BY DEF SetPlan, ListTyped
<1> QED
  BY <1>1 DEF SetPlan, ListTyped

LEMMA SpawnTyped ==
    ASSUME RunsTyped, NEW t \in Tasks, Spawn(t)
    PROVE  RunsTyped'
BY DEF Spawn, RunsTyped, Phases, Active, Claimed

\* A step of a run that keeps the plans and tasks of all runs.
LEMMA GoTyped ==
    ASSUME RunsTyped, NEW r \in Runs, NEW label \in Phases \ {"none"}, Go(r, label),
           pc[r] # "none",
           UNCHANGED of,
           copy' \in [Runs -> Plan], \A q \in Runs : OnePlaceEach(copy'[q]),
           outcome' \in [Runs -> {"idle", "error"}],
           holder' \in {r, NoRun},
           registered' = registered \/ Unregister(r)
    PROVE  RunsTyped'
<1>1. pc' \in [Runs -> Phases] /\ \A q \in Runs : pc'[q] # "none" => of'[q] \in Tasks
  BY DEF Go, RunsTyped
<1>2. registered' \in [Tasks -> Runs \cup {NoRun}]
  BY DEF Unregister, RunsTyped
<1> QED
  BY <1>1, <1>2 DEF RunsTyped

LEMMA InitTyped == Init => Typed
<1> SUFFICES ASSUME Init PROVE Typed
  OBVIOUS
<1>1. [EmptyPlan EXCEPT !.todo = Times] \in Plan /\ OnePlaceEach([EmptyPlan EXCEPT !.todo = Times])
  BY TimeFacts DEF EmptyPlan, Plan, OnePlaceEach
<1>2. ListTyped
  BY <1>1, EmptyPlanFacts DEF Init, ListTyped
<1>3. RunsTyped
  BY EmptyPlanFacts DEF Init, RunsTyped, Phases
<1>4. RequestTyped /\ EditorTyped /\ StopTyped
  BY EmptyPlanFacts DEF Init, RequestTyped, EditorTyped, StopTyped, Idle, NoStop
<1>5. ClockTyped
  BY SchedulerAssumption DEF Init, ClockTyped
<1> QED
  BY <1>2, <1>3, <1>4, <1>5 DEF Typed

-----------------------------------------------------------------------------
(* TypeOK: the ticks, the requests, the editor                             *)

LEMMA TicksTyped ==
    ASSUME Typed, TickBegins \/ TickStarts \/ TimePasses \/ ListTasks
    PROVE  Typed'
<1> USE DEF Typed
<1>1. CASE TickBegins
  <2>1. ListTyped'
    BY <1>1, ReloadTyped DEF TickBegins, ListTyped
  <2>2. ClockTyped'
    BY <1>1 DEF TickBegins, ClockTyped, userVars, runVars
  <2> QED
    BY <1>1, <2>1, <2>2 DEF TickBegins, runVars, userVars, RunsTyped, RequestTyped, EditorTyped, StopTyped
<1>2. CASE TickStarts
  <2>1. PICK t \in due : Spawn(t) /\ due' = due \ {t}
    BY <1>2 DEF TickStarts
  <2>2. RunsTyped'
    BY <2>1, SpawnTyped DEF ClockTyped
  <2>3. ClockTyped'
    BY <1>2, <2>1 DEF TickStarts, ClockTyped, userVars, Spawn
  <2> QED
    BY <1>2, <2>2, <2>3 DEF TickStarts, listVars, userVars, ListTyped, RequestTyped, EditorTyped, StopTyped
<1>3. CASE TimePasses
  <2>1. ClockTyped'
    BY <1>3, SchedulerAssumption DEF TimePasses, ClockTyped, runVars, userVars
  <2> QED
    BY <1>3, <2>1 DEF TimePasses, listVars, runVars, userVars, ListTyped, RunsTyped, RequestTyped,
                      EditorTyped, StopTyped
<1>4. CASE ListTasks
  <2>1. ListTyped'
    BY <1>4, ReloadTyped DEF ListTasks, ListTyped
  <2> QED
    BY <1>4, <2>1 DEF ListTasks, runVars, userVars, RunsTyped, RequestTyped, EditorTyped,
                      StopTyped, ClockTyped
<1> QED
  BY <1>1, <1>2, <1>3, <1>4

LEMMA RequestsTyped ==
    ASSUME Typed, (\E t \in Tasks : RequestRun(t)) \/ RequestResets \/ RequestStarts
    PROVE  Typed'
<1> USE DEF Typed
<1>1. ASSUME NEW t \in Tasks, RequestRun(t) PROVE Typed'
  <2>1. ListTyped'
    BY <1>1, ReloadTyped DEF RequestRun, ListTyped
  <2>2. RequestTyped'
    BY <1>1 DEF RequestRun, RequestTyped, Idle
  <2>3. ClockTyped'
    BY <1>1 DEF RequestRun, ClockTyped, Act, runVars
  <2> QED
    BY <1>1, <2>1, <2>2, <2>3 DEF RequestRun, runVars, RunsTyped, EditorTyped, StopTyped
<1>2. CASE RequestResets
  <2>1. request.task \in Tasks
    BY <1>2 DEF RequestResets, RequestTyped
  <2>2. ListTyped'
    BY <1>2, <2>1, SetStateTyped DEF RequestResets
  <2>3. RequestTyped'
    BY <1>2, <2>1 DEF RequestResets, RequestTyped, Idle
  <2> QED
    BY <1>2, <2>2, <2>3 DEF RequestResets, runVars, RunsTyped, EditorTyped, StopTyped, ClockTyped
<1>3. CASE RequestStarts
  <2>1. request.task \in Tasks
    BY <1>3 DEF RequestStarts, RequestTyped
  <2>2. RunsTyped'
    BY <1>3, <2>1, SpawnTyped DEF RequestStarts
  <2>3. RequestTyped'
    BY <1>3 DEF RequestStarts, RequestTyped, Idle
  <2> QED
    BY <1>3, <2>2, <2>3 DEF RequestStarts, Spawn, listVars, ListTyped, EditorTyped, StopTyped, ClockTyped
<1> QED
  BY <1>1, <1>2, <1>3

LEMMA EditsTyped ==
    ASSUME Typed, (\E t \in Tasks : EditorOpens(t)) \/ EditorSaves
    PROVE  Typed'
<1> USE DEF Typed
<1>1. ASSUME NEW t \in Tasks, EditorOpens(t) PROVE Typed'
  <2>1. ListTyped'
    BY <1>1, ReloadTyped DEF EditorOpens, ListTyped
  <2>2. EditorTyped'
    BY <1>1 DEF EditorOpens, EditorTyped, ListTyped
  <2>3. ClockTyped'
    BY <1>1 DEF EditorOpens, ClockTyped, Act, runVars
  <2> QED
    BY <1>1, <2>1, <2>2, <2>3 DEF EditorOpens, runVars, RunsTyped, RequestTyped, StopTyped
<1>2. CASE EditorSaves
  <2>1. editor.task \in Tasks /\ editor.plan \in Plan /\ OnePlaceEach(editor.plan)
    BY <1>2 DEF EditorSaves, EditorTyped
  <2>2. state' \in [Tasks -> {"idle", "running", "disabled", "error", "gone"}]
    <3>1. PICK s \in UserStates : state' = Update(editor.task, s)
      BY <1>2 DEF EditorSaves
    <3>2. s \in {"idle", "running", "disabled", "error"}
      BY SchedulerAssumption
    <3> QED
      BY <2>1, <3>1, <3>2 DEF Update, ListTyped
  <2>3. ListTyped'
    BY <1>2, <2>1, <2>2, SetPlanTyped DEF EditorSaves
  <2>4. EditorTyped'
    BY <1>2, EmptyPlanFacts DEF EditorSaves, EditorTyped
  <2> QED
    BY <1>2, <2>3, <2>4 DEF EditorSaves, runVars, RunsTyped, RequestTyped, StopTyped, ClockTyped
<1> QED
  BY <1>1, <1>2

-----------------------------------------------------------------------------
(* TypeOK: the wrapper                                                     *)

\* What no step of a run touches.
LEMMA RunFrame ==
    ASSUME NEW r, RunStep(r)
    PROVE  UNCHANGED <<of, due, userVars, now>>
BY DEF RunStep, Preflight, Claim, OnRun, Settle, Verify, Fix, Cancelled, OnFinish, FinalSave, Leave

LEMMA RunsTypedStep ==
    ASSUME Typed, NEW r \in Runs, RunStep(r)
    PROVE  Typed'
<1>1. UNCHANGED <<of, due, userVars, now>>
  BY RunFrame
<1>2. of[r] \in Tasks /\ pc[r] # "none"
  BY DEF Typed, RunsTyped, RunStep, Preflight, Claim, OnRun, Settle, Verify, Fix, Cancelled, OnFinish, FinalSave, Leave
<1>3. RequestTyped' /\ EditorTyped' /\ StopTyped'
  BY <1>1 DEF userVars, Typed, RequestTyped, EditorTyped, StopTyped
<1>4. SUFFICES ListTyped' /\ RunsTyped' /\ launched' \in [Tasks -> SUBSET Times]
  BY <1>1, <1>3 DEF Typed, ClockTyped, userVars
<1> USE <1>1, <1>2 DEF Typed
<1>5. CASE UNCHANGED <<listVars, copy, outcome, launched>> /\ \E label \in Phases \ {"none"} :
             Go(r, label) /\ (UNCHANGED registered \/ Unregister(r)) /\ (Keep(r) \/ Suspend)
  <2>1. RunsTyped'
    BY <1>5, GoTyped DEF Keep, Suspend, RunsTyped
  <2> QED
    BY <1>5, <2>1 DEF listVars, ListTyped, ClockTyped
<1>6. CASE Preflight(r)
  BY <1>5, <1>6 DEF Preflight, Phases, Active
<1>7. CASE Leave(r)
  BY <1>5, <1>7 DEF Leave, Phases
<1>8. CASE Claim(r)
  <2>1. CASE state[of[r]] \in {"gone", "running"}
    <3>1. ListTyped'
      BY <1>8, <2>1, ReloadTyped DEF Claim, ListTyped
    <3>2. RunsTyped'
      BY <1>8, <2>1, GoTyped DEF Claim, RunsTyped, Phases, Suspend
    <3> QED
      BY <1>8, <3>1, <3>2 DEF Claim, ClockTyped
  <2>2. CASE state[of[r]] \notin {"gone", "running"}
    <3>1. ListTyped'
      BY <1>8, <2>2 DEF Claim, ListTyped, Update
    <3>2. copy' \in [Runs -> Plan] /\ \A q \in Runs : OnePlaceEach(copy'[q])
      BY <1>8, <2>2 DEF Claim, ListTyped, RunsTyped
    <3>3. RunsTyped'
      BY <1>8, <2>2, <3>2, GoTyped DEF Claim, RunsTyped, Phases, Active, Claimed, Keep
    <3> QED
      BY <1>8, <3>1, <3>3 DEF Claim, ClockTyped
  <2> QED
    BY <2>1, <2>2
<1>9. CASE OnRun(r)
  <2> DEFINE x == LaunchTime(copy[r])
  <2>1. copy[r] \in Plan /\ OnePlaceEach(copy[r])
    BY DEF RunsTyped
  <2>2. x \in copy[r].todo \cup {0}
    BY <2>1, LaunchTimeFacts
  <2>3. CASE x = 0
    <3>1. UNCHANGED <<copy, plan, launched>>
      BY <1>9, <2>3 DEF OnRun
    <3>2. RunsTyped'
      BY <1>9, <3>1, GoTyped DEF OnRun, RunsTyped, Phases, Active, Claimed, Suspend
    <3> QED
      BY <1>9, <3>1, <3>2 DEF OnRun, ListTyped, ClockTyped
  <2>4. CASE x # 0
    <3>1. /\ copy' = [copy EXCEPT ![r] = SetInProgress(copy[r], x)]
          /\ plan' = IF r \in live THEN [plan EXCEPT ![of[r]] = copy'[r]] ELSE plan
          /\ launched' = [launched EXCEPT ![of[r]] = @ \cup {x}]
      BY <1>9, <2>4 DEF OnRun
    <3>2. x \in copy[r].todo /\ x \in Times
      BY <2>1, <2>2, <2>4 DEF Plan
    <3> HIDE DEF x
    <3>3. SetInProgress(copy[r], x) \in Plan /\ OnePlaceEach(SetInProgress(copy[r], x))
      BY <2>1, <3>2, SetInProgressFacts
    <3>4. copy' \in [Runs -> Plan] /\ \A q \in Runs : OnePlaceEach(copy'[q])
      BY <3>1, <3>3 DEF RunsTyped
    <3>5. plan' \in [Tasks -> Plan] /\ \A t \in Tasks : OnePlaceEach(plan'[t])
      BY <3>1, <3>4 DEF ListTyped
    <3>6. ListTyped'
      BY <1>9, <3>5 DEF OnRun, ListTyped
    <3>7. RunsTyped'
      BY <1>9, <3>4, GoTyped DEF OnRun, RunsTyped, Phases, Active, Claimed, Suspend
    <3> QED
      BY <3>1, <3>2, <3>6, <3>7 DEF ClockTyped
  <2> QED
    BY <2>3, <2>4
<1>10. CASE Settle(r)
  <2>1. PICK s \in {"idle", "error"} : outcome' = [outcome EXCEPT ![r] = s] /\ SetState(of[r], s)
    BY <1>10 DEF Settle
  <2>2. ListTyped'
    BY <2>1, SetStateTyped
  <2>3. RunsTyped'
    BY <1>10, <2>1, GoTyped DEF Settle, RunsTyped, Phases, Active, Claimed, Keep
  <2> QED
    BY <1>10, <2>2, <2>3 DEF Settle, ClockTyped
<1>11. CASE Verify(r)
  <2>1. ListTyped'
    BY <1>11, ReloadTyped DEF Verify, ListTyped
  <2>2. RunsTyped'
    BY <1>11, GoTyped DEF Verify, RunsTyped, Phases, Active, Claimed, Keep, Suspend
  <2> QED
    BY <1>11, <2>1, <2>2 DEF Verify, ClockTyped
<1>12. CASE Fix(r)
  <2>1. ListTyped'
    BY <1>12, SetStateTyped DEF Fix, RunsTyped
  <2>2. RunsTyped'
    BY <1>12, GoTyped DEF Fix, RunsTyped, Phases, Active, Suspend
  <2> QED
    BY <1>12, <2>1, <2>2 DEF Fix, ClockTyped
<1>13. CASE Cancelled(r)
  <2>1. ListTyped'
    BY <1>13, SetStateTyped DEF Cancelled
  <2>2. RunsTyped'
    BY <1>13, GoTyped DEF Cancelled, RunsTyped, Phases, Active, Suspend
  <2> QED
    BY <1>13, <2>1, <2>2 DEF Cancelled, ClockTyped
<1>14. CASE OnFinish(r)
  <2>1. copy[r] \in Plan /\ OnePlaceEach(copy[r])
    BY DEF RunsTyped
  <2>2. CASE copy[r].doing = 0
    <3>1. ListTyped'
      BY <1>14, <2>2, ReloadTyped DEF OnFinish, ListTyped
    <3>2. RunsTyped'
      BY <1>14, <2>2, GoTyped DEF OnFinish, RunsTyped, Phases, Active, Suspend
    <3> QED
      BY <1>14, <3>1, <3>2 DEF OnFinish, ClockTyped
  <2>3. CASE copy[r].doing # 0
    <3>1. copy' = [copy EXCEPT ![r] = SetDone(copy[r])] /\ SetPlan(of[r], copy'[r])
      BY <1>14, <2>3 DEF OnFinish
    <3>2. SetDone(copy[r]) \in Plan /\ OnePlaceEach(SetDone(copy[r]))
      BY <2>1, <2>3, SetDoneFacts
    <3>3. copy' \in [Runs -> Plan] /\ \A q \in Runs : OnePlaceEach(copy'[q])
      BY <3>1, <3>2 DEF RunsTyped
    <3>4. state' \in [Tasks -> {"idle", "running", "disabled", "error", "gone"}]
      BY <1>14 DEF OnFinish, ListTyped
    <3>5. ListTyped'
      BY <3>1, <3>3, <3>4, SetPlanTyped
    <3>6. RunsTyped'
      BY <1>14, <3>3, GoTyped DEF OnFinish, RunsTyped, Phases, Active, Suspend
    <3> QED
      BY <1>14, <3>5, <3>6 DEF OnFinish, ClockTyped
  <2> QED
    BY <2>2, <2>3
<1>15. CASE FinalSave(r)
  <2>1. ListTyped'
    BY <1>15 DEF FinalSave, Save, ListTyped
  <2>2. RunsTyped'
    BY <1>15, GoTyped DEF FinalSave, RunsTyped, Phases, Active, Suspend
  <2> QED
    BY <1>15, <2>1, <2>2 DEF FinalSave, ClockTyped
<1> QED
  BY <1>6, <1>7, <1>8, <1>9, <1>10, <1>11, <1>12, <1>13, <1>14, <1>15 DEF RunStep

-----------------------------------------------------------------------------
(* TypeOK: stopping                                                        *)

LEMMA StopsTyped ==
    ASSUME Typed,
           \/ \E t \in Tasks : \E kind \in StopKinds : StopBegins(kind, t)
           \/ CancelRun \/ Drain \/ Terminate \/ StopResets \/ StopEnds
    PROVE  Typed'
<1> USE DEF Typed
<1>1. ASSUME NEW t \in Tasks, NEW kind \in StopKinds, StopBegins(kind, t) PROVE Typed'
  <2>1. ListTyped'
    BY <1>1, ReloadTyped DEF StopBegins, ListTyped
  <2>2. StopTyped'
    BY <1>1 DEF StopBegins, StopTyped, RunsTyped
  <2>3. ClockTyped'
    BY <1>1 DEF StopBegins, ClockTyped, Act, runVars
  <2> QED
    BY <1>1, <2>1, <2>2, <2>3 DEF StopBegins, runVars, RunsTyped, RequestTyped, EditorTyped
<1>2. CASE CancelRun
  <2>1. RunsTyped'
    BY <1>2 DEF CancelRun, RunsTyped, Phases, Active, Claimed
  <2>2. StopTyped'
    BY <1>2 DEF CancelRun, StopTyped
  <2> QED
    BY <1>2, <2>1, <2>2 DEF CancelRun, listVars, ListTyped, RequestTyped, EditorTyped, ClockTyped
<1>3. CASE Drain
  <2>1. \A label \in Phases : Drained(label) \in Phases /\ (Drained(label) # "none" => label # "none")
    BY DEF Drained, Phases, Active, Claimed
  <2>2. RunsTyped'
    BY <1>3, <2>1 DEF Drain, RunsTyped
  <2>3. StopTyped'
    BY <1>3 DEF Drain, StopTyped
  <2> QED
    BY <1>3, <2>2, <2>3 DEF Drain, listVars, ListTyped, RequestTyped, EditorTyped, ClockTyped
<1>4. CASE Terminate
  <2>1. RunsTyped'
    BY <1>4 DEF Terminate, RunsTyped, Phases, Active, Claimed
  <2>2. StopTyped'
    BY <1>4 DEF Terminate, StopTyped
  <2> QED
    BY <1>4, <2>1, <2>2 DEF Terminate, listVars, ListTyped, RequestTyped, EditorTyped, ClockTyped
<1>5. CASE StopResets
  <2>1. stop.task \in Tasks /\ stop.kind \in {"delete", "remove", "reset"}
    BY <1>5, SchedulerAssumption DEF StopResets, StopTyped
  <2>2. \/ SetState(stop.task, "idle")
        \/ Reload /\ UNCHANGED <<state, kept>>
        \/ UNCHANGED listVars
    BY <1>5, <2>1 DEF StopResets
  <2>3. ListTyped'
    <3>1. CASE SetState(stop.task, "idle")
      BY <2>1, <3>1, SetStateTyped
    <3>2. CASE Reload /\ UNCHANGED <<state, kept>>
      BY <3>2, ReloadTyped DEF ListTyped
    <3>3. CASE UNCHANGED listVars
      BY <3>3 DEF listVars, ListTyped
    <3> QED
      BY <2>2, <3>1, <3>2, <3>3
  <2>4. StopTyped'
    BY <1>5 DEF StopResets, StopTyped
  <2> QED
    BY <1>5, <2>3, <2>4 DEF StopResets, runVars, RunsTyped, RequestTyped, EditorTyped, ClockTyped
<1>6. CASE StopEnds
  <2>1. ListTyped'
    BY <1>6 DEF StopEnds, Save, ListTyped
  <2>2. StopTyped'
    BY <1>6 DEF StopEnds, NoStop, StopTyped
  <2> QED
    BY <1>6, <2>1, <2>2 DEF StopEnds, runVars, RunsTyped, RequestTyped, EditorTyped, ClockTyped
<1> QED
  BY <1>1, <1>2, <1>3, <1>4, <1>5, <1>6

LEMMA StepTyped == Typed /\ [Next]_vars => Typed'
<1> SUFFICES ASSUME Typed, [Next]_vars PROVE Typed'
  OBVIOUS
<1>1. CASE UNCHANGED vars
  BY <1>1 DEF vars, listVars, runVars, userVars, Typed, ListTyped, RunsTyped, RequestTyped,
              EditorTyped, StopTyped, ClockTyped
<1>2. CASE Next
  BY <1>2, TicksTyped, RequestsTyped, EditsTyped, RunsTypedStep, StopsTyped DEF Next
<1> QED
  BY <1>1, <1>2

LEMMA AlwaysTyped == Spec => []Typed
BY InitTyped, StepTyped, PTL DEF Spec

\* Tasks, plans, runs and the handlers' own state are always of the types the code
\* gives them, and no plan, in the file or in the list, has a time in two places
\* (TaskPlan keeps todo, in_progress and done apart): runs, the editor and reloads
\* replace whole plans, and still none of them mixes two.
THEOREM TypeCorrect == Spec => []TypeOK
<1>1. Typed => TypeOK
  BY DEF Typed, ListTyped, RunsTyped, ClockTyped, Phases, TypeOK
<1> QED
  BY <1>1, AlwaysTyped, PTL

-----------------------------------------------------------------------------
(* Every plan accounts for every time                                      *)

\* A step that launches nothing and only moves plans between the file and the list, and
\* from there to the editor.
LEMMA PlansMoved ==
    ASSUME Typed, PlansAccount, UNCHANGED launched,
           \A t \in Tasks : kept'[t] \in {kept[t], plan[t]} /\ plan'[t] \in {kept[t], plan[t]},
           \A r \in Runs : pc'[r] \in Begun =>
               pc[r] \in Begun /\ of'[r] = of[r] /\ copy'[r] = copy[r],
           UNCHANGED editor \/ \E t \in Tasks : editor' = [task |-> t, plan |-> kept[t]]
    PROVE  PlansAccount'
<1>1. \A t \in Tasks : Accounts(kept'[t], t, launched'[t]) /\ Accounts(plan'[t], t, launched'[t])
  BY DEF PlansAccount
<1>2. \A r \in Runs : pc'[r] \in Begun => Accounts(copy'[r], of'[r], launched'[of'[r]])
  BY DEF PlansAccount
<1>3. editor'.task # NoTask => Accounts(editor'.plan, editor'.task, launched'[editor'.task])
  BY DEF PlansAccount
<1> QED
  BY <1>1, <1>2, <1>3 DEF PlansAccount

\* The runs of a step that starts one, or moves all of them along.
LEMMA SpawnBegins ==
    ASSUME Typed, NEW t \in Tasks, Spawn(t)
    PROVE  \A r \in Runs : pc'[r] \in Begun =>
               pc[r] \in Begun /\ of'[r] = of[r] /\ copy'[r] = copy[r]
BY DEF Spawn, Begun, Active, Claimed, Typed, RunsTyped

LEMMA GoBegins ==
    ASSUME Typed, NEW r \in Runs, NEW label, Go(r, label), UNCHANGED of,
           label \in Begun => pc[r] \in Begun
    PROVE  \A q \in Runs : pc'[q] \in Begun => pc[q] \in Begun /\ of'[q] = of[q]
BY DEF Go, Typed, RunsTyped

LEMMA AccountsInit == Init => PlansAccount
<1> SUFFICES ASSUME Init PROVE PlansAccount
  OBVIOUS
<1>1. \A t \in Tasks : Accounts(kept[t], t, launched[t])
  BY DEF Init, Accounts, EmptyPlan
<1>2. plan = kept /\ editor.task = NoTask /\ \A r \in Runs : pc[r] \notin Begun
  BY DEF Init, Begun, Active, Claimed
<1> QED
  BY <1>1, <1>2 DEF PlansAccount

LEMMA RunsAccount ==
    ASSUME Typed, PlansAccount, NEW r \in Runs, RunStep(r)
    PROVE  PlansAccount'
<1>1. UNCHANGED <<of, editor>>
  BY RunFrame DEF userVars
<1>2. of[r] \in Tasks
  BY DEF Typed, RunsTyped, RunStep, Preflight, Claim, OnRun, Settle, Verify, Fix, Cancelled, OnFinish, FinalSave, Leave
<1>3. ASSUME UNCHANGED <<copy, launched>>, NEW label \in Phases, Go(r, label),
             label \in Begun => pc[r] \in Begun,
             \A t \in Tasks : kept'[t] \in {kept[t], plan[t]} /\ plan'[t] \in {kept[t], plan[t]}
      PROVE  PlansAccount'
  BY <1>1, <1>3, GoBegins, PlansMoved
<1>4. CASE Preflight(r) \/ Leave(r) \/ FinalSave(r)
  BY <1>3, <1>4 DEF Preflight, Leave, FinalSave, Save, listVars, Begun, Phases, Active, Claimed
<1>5. CASE Settle(r) \/ Verify(r) \/ Fix(r) \/ Cancelled(r)
  BY <1>3, <1>5 DEF Settle, Verify, Fix, Cancelled, SetState, Reload, Begun, Phases, Active, Claimed
<1>6. CASE Claim(r)
  <2>1. CASE state[of[r]] \in {"gone", "running"}
    BY <1>3, <1>6, <2>1 DEF Claim, Reload, Begun, Phases, Active, Claimed
  <2>2. CASE state[of[r]] \notin {"gone", "running"}
    <3>1. /\ pc' = [pc EXCEPT ![r] = "claimed"] /\ plan' = kept /\ kept' = kept
          /\ copy' = [copy EXCEPT ![r] = kept[of[r]]] /\ launched' = launched
      BY <1>6, <2>2 DEF Claim, Go
    <3>2. \A q \in Runs : pc'[q] \in Begun => Accounts(copy'[q], of'[q], launched'[of'[q]])
      BY <1>1, <1>2, <3>1 DEF PlansAccount, Typed, RunsTyped
    <3> QED
      BY <1>1, <3>1, <3>2 DEF PlansAccount
  <2> QED
    BY <2>1, <2>2
<1>7. CASE OnRun(r)
  <2> DEFINE x == LaunchTime(copy[r])
  <2>1. copy[r] \in Plan /\ OnePlaceEach(copy[r])
    BY DEF Typed, RunsTyped
  <2>2. x \in copy[r].todo \cup {0}
    BY <2>1, LaunchTimeFacts
  <2>3. Go(r, "working") /\ kept' = kept /\ pc[r] \in Begun
    BY <1>7 DEF OnRun, Begun, Active, Claimed
  <2>4. CASE x = 0
    <3>1. UNCHANGED <<copy, plan, launched>>
      BY <1>7, <2>4 DEF OnRun
    <3> QED
      BY <1>3, <2>3, <3>1 DEF Phases, Active, Claimed
  <2>5. CASE x # 0
    <3>1. /\ copy' = [copy EXCEPT ![r] = SetInProgress(copy[r], x)]
          /\ plan' = IF r \in live THEN [plan EXCEPT ![of[r]] = copy'[r]] ELSE plan
          /\ launched' = [launched EXCEPT ![of[r]] = @ \cup {x}]
      BY <1>7, <2>5 DEF OnRun
    <3>2. x \in copy[r].todo
      BY <2>2, <2>5
    <3> HIDE DEF x
    <3>3. Accounts(copy[r], of[r], launched[of[r]])
      BY <2>3 DEF PlansAccount
    <3>4. \A t \in Tasks : launched[t] \subseteq launched'[t]
      BY <3>1 DEF Typed, ClockTyped
    <3>5. x \in launched'[of[r]]
      BY <1>2, <3>1 DEF Typed, ClockTyped
    <3>6. /\ copy'[r].todo = copy[r].todo \ {x} /\ copy'[r].doing = x
          /\ copy'[r].done = copy[r].done
      <4>1. copy'[r] = SetInProgress(copy[r], x)
        BY <3>1 DEF Typed, RunsTyped
      <4> QED
        BY <2>1, <3>2, <4>1, SetInProgressFacts
    <3>7. Accounts(copy'[r], of[r], launched'[of[r]])
      BY <1>2, <3>3, <3>4, <3>5, <3>6 DEF Accounts
    <3>8. ASSUME NEW p, NEW t \in Tasks, Accounts(p, t, launched[t])
          PROVE  Accounts(p, t, launched'[t])
      BY <3>4, <3>8 DEF Accounts
    <3>9. \A t \in Tasks : Accounts(kept'[t], t, launched'[t]) /\ Accounts(plan'[t], t, launched'[t])
      <4> SUFFICES ASSUME NEW t \in Tasks
                   PROVE  Accounts(kept'[t], t, launched'[t]) /\ Accounts(plan'[t], t, launched'[t])
        OBVIOUS
      <4>1. plan'[t] = plan[t] \/ (t = of[r] /\ plan'[t] = copy'[r])
        BY <3>1 DEF Typed, ListTyped
      <4>2. Accounts(kept[t], t, launched'[t]) /\ Accounts(plan[t], t, launched'[t])
        BY <3>8 DEF PlansAccount
      <4> QED
        BY <2>3, <3>7, <4>1, <4>2
    <3>10. \A q \in Runs : pc'[q] \in Begun => Accounts(copy'[q], of'[q], launched'[of'[q]])
      <4> SUFFICES ASSUME NEW q \in Runs, pc'[q] \in Begun, q # r
                   PROVE  Accounts(copy'[q], of'[q], launched'[of'[q]])
        BY <1>1, <3>7
      <4>1. pc[q] \in Begun /\ copy'[q] = copy[q]
        BY <2>3, <3>1 DEF Go, Typed, RunsTyped
      <4>2. Accounts(copy[q], of[q], launched[of[q]]) /\ of[q] \in Tasks
        BY <4>1 DEF PlansAccount, Typed, RunsTyped, Begun, Active, Claimed
      <4> QED
        BY <1>1, <3>8, <4>1, <4>2
    <3>11. editor'.task # NoTask => Accounts(editor'.plan, editor'.task, launched'[editor'.task])
      BY <1>1, <3>8 DEF PlansAccount, Typed, EditorTyped
    <3> QED
      BY <3>9, <3>10, <3>11 DEF PlansAccount
  <2> QED
    BY <2>4, <2>5
<1>8. CASE OnFinish(r)
  <2>1. copy[r] \in Plan /\ OnePlaceEach(copy[r])
    BY DEF Typed, RunsTyped
  <2>2. Go(r, "saving") /\ launched' = launched /\ pc[r] \in Begun
    BY <1>8 DEF OnFinish, Begun, Active, Claimed
  <2>3. CASE copy[r].doing = 0
    BY <1>3, <1>8, <2>2, <2>3 DEF OnFinish, Reload, Phases, Active, Claimed
  <2>4. CASE copy[r].doing # 0
    <3>1. copy' = [copy EXCEPT ![r] = SetDone(copy[r])] /\ SetPlan(of[r], copy'[r])
      BY <1>8, <2>4 DEF OnFinish
    <3>2. /\ copy'[r].todo = copy[r].todo /\ copy'[r].doing = 0
          /\ copy'[r].done = copy[r].done \cup {copy[r].doing}
      <4>1. copy'[r] = SetDone(copy[r])
        BY <3>1 DEF Typed, RunsTyped
      <4> QED
        BY <2>1, <2>4, <4>1, SetDoneFacts
    <3>3. Accounts(copy[r], of[r], launched[of[r]])
      BY <2>2 DEF PlansAccount
    <3>4. Accounts(copy'[r], of[r], launched[of[r]])
      BY <2>4, <3>2, <3>3 DEF Accounts
    <3>5. \A t \in Tasks : Accounts(kept'[t], t, launched'[t]) /\ Accounts(plan'[t], t, launched'[t])
      BY <2>2, <3>1, <3>4 DEF SetPlan, PlansAccount, Typed, ListTyped
    <3>6. \A q \in Runs : pc'[q] \in Begun => Accounts(copy'[q], of'[q], launched'[of'[q]])
      BY <1>1, <2>2, <3>1, <3>4 DEF Go, PlansAccount, Typed, RunsTyped
    <3> QED
      BY <1>1, <2>2, <3>5, <3>6 DEF PlansAccount
  <2> QED
    BY <2>3, <2>4
<1> QED
  BY <1>4, <1>5, <1>6, <1>7, <1>8 DEF RunStep

LEMMA OthersAccount ==
    ASSUME Typed, PlansAccount, Next, ~\E r \in Runs : RunStep(r)
    PROVE  PlansAccount'
<1>1. CASE TickBegins \/ ListTasks \/ (\E t \in Tasks : RequestRun(t))
  BY <1>1, PlansMoved DEF TickBegins, ListTasks, RequestRun, Reload, runVars, userVars
<1>2. CASE TickStarts \/ RequestStarts
  <2>1. PICK t \in Tasks : Spawn(t)
    BY <1>2 DEF TickStarts, RequestStarts, Typed, ClockTyped, RequestTyped
  <2>2. UNCHANGED <<listVars, launched, editor>>
    BY <1>2 DEF TickStarts, RequestStarts, Spawn, userVars
  <2> QED
    BY <2>1, <2>2, SpawnBegins, PlansMoved DEF listVars
<1>3. CASE RequestResets
  BY <1>3, PlansMoved DEF RequestResets, SetState, Reload, runVars
<1>4. CASE TimePasses
  BY <1>4, PlansMoved DEF TimePasses, listVars, runVars, userVars
<1>5. ASSUME NEW t \in Tasks, NEW kind \in StopKinds, StopBegins(kind, t) PROVE PlansAccount'
  BY <1>5, PlansMoved DEF StopBegins, Reload, runVars
<1>6. CASE CancelRun
  BY <1>6, PlansMoved DEF CancelRun, listVars, Begun, Active, Claimed
<1>7. CASE Drain
  <2>1. \A label \in Phases : Drained(label) \in Begun => label \in Begun
    BY DEF Drained, Begun, Active, Claimed, Phases
  <2>2. \A r \in Runs : pc'[r] \in Begun => pc[r] \in Begun
    BY <1>7, <2>1 DEF Drain, Typed, RunsTyped
  <2> QED
    BY <1>7, <2>2, PlansMoved DEF Drain, listVars
<1>8. CASE Terminate
  BY <1>8, PlansMoved DEF Terminate, listVars, Begun, Active, Claimed
<1>9. CASE StopResets
  <2>1. stop.kind \in {"delete", "remove", "reset"}
    BY <1>9, SchedulerAssumption DEF StopResets, Typed, StopTyped
  <2>2. (Reload /\ UNCHANGED kept) \/ UNCHANGED listVars
    BY <1>9, <2>1 DEF StopResets, SetState
  <2> QED
    BY <1>9, <2>2, PlansMoved DEF StopResets, Reload, listVars, runVars
<1>10. CASE StopEnds
  BY <1>10, PlansMoved DEF StopEnds, Save, runVars
<1>11. ASSUME NEW t \in Tasks, EditorOpens(t) PROVE PlansAccount'
  BY <1>11, PlansMoved DEF EditorOpens, Reload, runVars
<1>12. CASE EditorSaves
  <2>1. editor.task \in Tasks /\ Accounts(editor.plan, editor.task, launched[editor.task])
    BY <1>12 DEF EditorSaves, PlansAccount, Typed, EditorTyped
  <2>2. SetPlan(editor.task, editor.plan) /\ UNCHANGED runVars /\ editor'.task = NoTask
    BY <1>12 DEF EditorSaves
  <2>3. \A t \in Tasks : Accounts(kept'[t], t, launched'[t]) /\ Accounts(plan'[t], t, launched'[t])
    BY <2>1, <2>2 DEF SetPlan, runVars, PlansAccount, Typed, ListTyped
  <2> QED
    BY <2>2, <2>3 DEF runVars, PlansAccount
<1> QED
  BY <1>1, <1>2, <1>3, <1>4, <1>5, <1>6, <1>7, <1>8, <1>9, <1>10, <1>11, <1>12 DEF Next

LEMMA AccountsStep == Typed /\ PlansAccount /\ [Next]_vars => PlansAccount'
<1> SUFFICES ASSUME Typed, PlansAccount, [Next]_vars PROVE PlansAccount'
  OBVIOUS
<1>1. CASE UNCHANGED vars
  BY <1>1 DEF vars, listVars, runVars, userVars, PlansAccount
<1>2. CASE Next
  BY <1>2, RunsAccount, OthersAccount
<1> QED
  BY <1>1, <1>2

LEMMA AlwaysAccount == Spec => []PlansAccount
BY AccountsInit, AccountsStep, AlwaysTyped, PTL DEF Spec

\* No planned time is lost: however many runs, edits and deletions overlap, each of them
\* writing back a whole plan it read earlier, a time that no run was started for is still
\* in tasks.json.
THEOREM TimesAreKept == Spec => []NoTimeIsLost
<1>1. PlansAccount => NoTimeIsLost
  BY SchedulerAssumption DEF PlansAccount, Accounts, NoTimeIsLost, TimesOf
<1> QED
  BY <1>1, AlwaysAccount, PTL

\* A planned time is done only if a run was started for it, in every plan that is written
\* back to tasks.json.
THEOREM DoneIsDone == Spec => []DoneWasLaunched
<1>1. PlansAccount => DoneWasLaunched
  BY SchedulerAssumption DEF PlansAccount, Accounts, DoneWasLaunched
<1> QED
  BY <1>1, AlwaysAccount, PTL

-----------------------------------------------------------------------------
(* The states of the tasks                                                 *)

\* How a step changes the states: through Update, or a task is deleted.
LEMMA StateWritten ==
    ASSUME Typed, Next
    PROVE  \/ UNCHANGED state
           \/ \E r \in Runs : Claim(r) /\ state' = Update(of[r], "running")
           \/ \E r \in Runs : /\ pc[r] \in Claimed /\ of[r] \in Tasks
                              /\ \E s \in {"idle", "error"} : state' = Update(of[r], s)
                              /\ Settle(r) \/ Fix(r) \/ Cancelled(r)
           \/ RequestResets /\ state' = Update(request.task, "idle")
           \/ StopResets /\ state' = Update(stop.task, "idle")
           \/ StopEnds /\ state' = [state EXCEPT ![stop.task] = "gone"]
           \/ EditorSaves /\ \E s \in UserStates : state' = Update(editor.task, s)
<1>1. ASSUME NEW r \in Runs, RunStep(r)
      PROVE  \/ UNCHANGED state
             \/ Claim(r) /\ state' = Update(of[r], "running")
             \/ /\ pc[r] \in Claimed /\ of[r] \in Tasks
                /\ \E s \in {"idle", "error"} : state' = Update(of[r], s)
                /\ Settle(r) \/ Fix(r) \/ Cancelled(r)
  <2>1. CASE Preflight(r) \/ OnRun(r) \/ Verify(r) \/ OnFinish(r) \/ FinalSave(r) \/ Leave(r)
    BY <2>1 DEF Preflight, OnRun, Verify, OnFinish, FinalSave, Leave, listVars
  <2>2. CASE Claim(r)
    BY <2>2 DEF Claim
  <2>3. CASE Settle(r) \/ Fix(r) \/ Cancelled(r)
    <3>1. pc[r] \in Claimed /\ of[r] \in Tasks
      BY <2>3 DEF Settle, Fix, Cancelled, Claimed, Typed, RunsTyped
    <3>2. \E s \in {"idle", "error"} : state' = Update(of[r], s)
      BY <2>3 DEF Settle, Fix, Cancelled, SetState, Typed, RunsTyped
    <3> QED
      BY <2>3, <3>1, <3>2
  <2> QED
    BY <1>1, <2>1, <2>2, <2>3 DEF RunStep
<1>2. CASE StopResets
  <2>1. stop.kind \in {"delete", "remove", "reset"}
    BY <1>2, SchedulerAssumption DEF StopResets, Typed, StopTyped
  <2> QED
    BY <1>2, <2>1 DEF StopResets, SetState, listVars
<1>3. CASE StopEnds
  BY <1>3 DEF StopEnds
<1>4. CASE EditorSaves
  BY <1>4 DEF EditorSaves
<1>5. CASE RequestResets
  BY <1>5 DEF RequestResets, SetState
<1>6. CASE \/ TickBegins \/ TickStarts \/ RequestStarts \/ CancelRun \/ Drain \/ Terminate
           \/ ListTasks \/ TimePasses
           \/ \E t \in Tasks : RequestRun(t) \/ EditorOpens(t) \/ \E kind \in StopKinds : StopBegins(kind, t)
  BY <1>6 DEF TickBegins, TickStarts, RequestStarts, CancelRun, Drain, Terminate, ListTasks,
              TimePasses, RequestRun, EditorOpens, StopBegins, listVars
<1> QED
  BY <1>1, <1>2, <1>3, <1>4, <1>5, <1>6 DEF Next

\* A deleted task stays deleted: runs, requests, the editor and the handlers that were
\* under way when it was deleted write its state, and none of them brings it back.
THEOREM NoTaskReturns == Spec => DeletedStaysDeleted
<1>1. ASSUME Typed, [Next]_vars, NEW t \in Tasks, state[t] = "gone"
      PROVE  state'[t] = "gone"
  <2>1. CASE UNCHANGED vars
    BY <1>1, <2>1 DEF vars, listVars
  <2>2. CASE Next
    BY <1>1, <2>2, StateWritten DEF Update, Typed, ListTyped
  <2> QED
    BY <1>1, <2>1, <2>2
<1>2. Typed /\ [Next]_vars => [\A t \in Tasks : state[t] = "gone" => state'[t] = "gone"]_vars
  BY <1>1
<1> QED
  BY <1>2, AlwaysTyped, PTL DEF Spec, DeletedStaysDeleted

-----------------------------------------------------------------------------
(* A running task has a run                                                *)

\* A step of a run takes that run from one place to another.
LEMMA RunMoves ==
    ASSUME Typed, NEW r \in Runs, RunStep(r)
    PROVE  /\ \E label \in Phases \ {"none", "cancelled", "stranded", "queued"} : Go(r, label)
           /\ UNCHANGED registered \/ Unregister(r)
           /\ pc[r] # "none"
<1>1. CASE Preflight(r) \/ Claim(r) \/ OnRun(r) \/ Settle(r) \/ Verify(r)
  BY <1>1 DEF Preflight, Claim, OnRun, Settle, Verify, Phases, Active, Claimed
<1>2. CASE Fix(r) \/ Cancelled(r) \/ OnFinish(r) \/ FinalSave(r) \/ Leave(r)
  BY <1>2 DEF Fix, Cancelled, OnFinish, FinalSave, Leave, Phases, Active, Claimed
<1> QED
  BY <1>1, <1>2 DEF RunStep

LEMMA RegisteredStep ==
    ASSUME Typed, RegisteredRun, Next
    PROVE  RegisteredRun'
<1>1. ASSUME NEW t \in Tasks, Spawn(t) PROVE RegisteredRun'
  <2>1. PICK r \in Runs : /\ pc[r] = "none"
                          /\ pc' = [pc EXCEPT ![r] = "queued"] /\ of' = [of EXCEPT ![r] = t]
                          /\ registered' = [registered EXCEPT ![t] = r]
    BY <1>1 DEF Spawn
  <2>2. \A u \in Tasks : registered[u] # r
    BY <2>1, SchedulerAssumption DEF RegisteredRun, Typed, RunsTyped
  <2> QED
    BY <2>1, <2>2 DEF RegisteredRun, Typed, RunsTyped
<1>2. ASSUME NEW r \in Runs, RunStep(r) PROVE RegisteredRun'
  <2>1. PICK label \in Phases \ {"none", "cancelled", "stranded", "queued"} :
           pc' = [pc EXCEPT ![r] = label]
    BY <1>2, RunMoves DEF Go
  <2>2. \A q \in Runs : pc[q] # "none" => pc'[q] # "none"
    BY <2>1 DEF Typed, RunsTyped
  <2>3. \A t \in Tasks : registered'[t] \in {registered[t], NoRun}
    BY <1>2, RunMoves DEF Unregister, Typed, RunsTyped
  <2>4. of' = of
    BY <1>2, RunFrame
  <2> QED
    BY <2>2, <2>3, <2>4, SchedulerAssumption DEF RegisteredRun, Typed, RunsTyped
<1>3. ASSUME UNCHANGED <<of, registered>>, \A q \in Runs : pc[q] # "none" => pc'[q] # "none"
      PROVE  RegisteredRun'
  BY <1>3 DEF RegisteredRun, Typed, RunsTyped
<1>4. CASE CancelRun \/ Drain \/ Terminate
  <2>1. \A label \in Phases : label # "none" => Drained(label) # "none"
    BY DEF Drained
  <2>2. \A q \in Runs : pc[q] # "none" => pc'[q] # "none"
    BY <1>4, <2>1 DEF CancelRun, Drain, Terminate, Typed, RunsTyped
  <2> QED
    BY <1>3, <1>4, <2>2 DEF CancelRun, Drain, Terminate
<1>5. CASE TickStarts \/ RequestStarts
  BY <1>1, <1>5 DEF TickStarts, RequestStarts, Typed, ClockTyped, RequestTyped
<1>6. CASE \/ TickBegins \/ RequestResets \/ StopResets \/ StopEnds \/ EditorSaves
           \/ ListTasks \/ TimePasses
           \/ \E t \in Tasks : RequestRun(t) \/ EditorOpens(t) \/ \E kind \in StopKinds : StopBegins(kind, t)
  BY <1>3, <1>6 DEF TickBegins, RequestResets, StopResets, StopEnds, EditorSaves, ListTasks,
                    TimePasses, RequestRun, EditorOpens, StopBegins, runVars
<1> QED
  BY <1>2, <1>4, <1>5, <1>6 DEF Next

LEMMA CancelledStep ==
    ASSUME Typed, RegisteredRun, CancelledIsStopped, Next
    PROVE  CancelledIsStopped'
<1>1. ASSUME NEW t \in Tasks, Spawn(t), UNCHANGED stop PROVE CancelledIsStopped'
  <2>1. PICK r \in Runs : /\ pc[r] = "none"
                          /\ pc' = [pc EXCEPT ![r] = "queued"] /\ of' = [of EXCEPT ![r] = t]
    BY <1>1 DEF Spawn
  <2>2. r \notin stop.runs
    BY <2>1 DEF CancelledIsStopped
  <2> QED
    BY <1>1, <2>1, <2>2 DEF CancelledIsStopped, Typed, RunsTyped, StopTyped
<1>2. ASSUME NEW r \in Runs, RunStep(r) PROVE CancelledIsStopped'
  <2>1. PICK label \in Phases \ {"none", "cancelled", "stranded", "queued"} :
           pc' = [pc EXCEPT ![r] = label]
    BY <1>2, RunMoves DEF Go
  <2>2. UNCHANGED <<of, stop>>
    BY <1>2, RunFrame DEF userVars
  <2>3. \A q \in Runs : /\ pc'[q] = "cancelled" => pc[q] = "cancelled"
                        /\ pc[q] # "none" => pc'[q] # "none"
    BY <2>1 DEF Typed, RunsTyped
  <2> QED
    BY <2>2, <2>3 DEF CancelledIsStopped, Typed, StopTyped
<1>3. ASSUME UNCHANGED <<of, pc, stop>> PROVE CancelledIsStopped'
  BY <1>3 DEF CancelledIsStopped
<1>4. CASE TickStarts \/ RequestStarts
  BY <1>1, <1>4 DEF TickStarts, RequestStarts, userVars, Typed, ClockTyped, RequestTyped
<1>5. CASE \/ TickBegins \/ RequestResets \/ EditorSaves \/ ListTasks \/ TimePasses
           \/ \E t \in Tasks : RequestRun(t) \/ EditorOpens(t)
  BY <1>3, <1>5 DEF TickBegins, RequestResets, EditorSaves, ListTasks, TimePasses, RequestRun,
                    EditorOpens, runVars, userVars
<1>6. ASSUME NEW t \in Tasks, NEW kind \in StopKinds, StopBegins(kind, t)
      PROVE  CancelledIsStopped'
  <2>1. UNCHANGED <<pc, of>> /\ stop.phase = "none"
    BY <1>6 DEF StopBegins, runVars
  <2>2. stop'.task = t /\ stop'.phase \in {"stopped", "cancel", "reset"}
    BY <1>6 DEF StopBegins
  <2>3. stop'.runs \subseteq {registered[t]} \ {NoRun}
    BY <1>6 DEF StopBegins
  <2>4. \A r \in stop'.runs : pc[r] # "none" /\ of[r] = t
    BY <2>3 DEF RegisteredRun
  <2>5. \A r \in Runs : pc[r] # "cancelled"
    BY <2>1 DEF CancelledIsStopped
  <2> QED
    BY <2>1, <2>2, <2>4, <2>5 DEF CancelledIsStopped
<1>7. CASE CancelRun
  <2>1. UNCHANGED of /\ stop.phase = "cancel" /\ stop' = [stop EXCEPT !.phase = "drain"]
    BY <1>7 DEF CancelRun
  <2>2. stop'.phase = "drain" /\ stop'.runs = stop.runs /\ stop'.task = stop.task
    BY <2>1 DEF Typed, StopTyped
  <2>3. \A r \in Runs : /\ pc[r] # "none" => pc'[r] # "none"
                        /\ pc'[r] = "cancelled" => pc[r] = "cancelled" \/ r \in stop.runs
    BY <1>7 DEF CancelRun
  <2> QED
    BY <2>1, <2>2, <2>3 DEF CancelledIsStopped, Typed, StopTyped
<1>8. CASE Drain
  <2>1. UNCHANGED of /\ stop' = [stop EXCEPT !.phase = "join", !.runs = {r \in Runs : pc[r] \in Active}]
    BY <1>8 DEF Drain
  <2>2. /\ stop'.phase = "join" /\ stop'.task = stop.task
        /\ stop'.runs = {r \in Runs : pc[r] \in Active}
    BY <2>1 DEF Typed, StopTyped
  <2>3. \A label \in Phases : /\ Drained(label) = "cancelled" => label \in Active
                              /\ label \in Active => Drained(label) # "none"
    BY DEF Drained, Phases, Active, Claimed
  <2>4. \A r \in Runs : /\ pc'[r] = "cancelled" => pc[r] \in Active
                        /\ pc[r] \in Active => pc'[r] # "none"
    BY <1>8, <2>3 DEF Drain, Typed, RunsTyped
  <2> QED
    BY <2>2, <2>4 DEF CancelledIsStopped
<1>9. CASE Terminate
  <2>1. stop' = [stop EXCEPT !.phase = "reset", !.runs = {}]
    BY <1>9 DEF Terminate
  <2>2. stop'.phase = "reset" /\ stop'.runs = {}
    BY <2>1 DEF Typed, StopTyped
  <2>3. \A r \in Runs : pc'[r] # "cancelled"
    BY <1>9 DEF Terminate, Active, Claimed
  <2> QED
    BY <2>2, <2>3 DEF CancelledIsStopped
<1>10. CASE StopResets
  <2>1. stop.phase = "reset" /\ stop' = [stop EXCEPT !.phase = "stopped"] /\ UNCHANGED <<pc, of>>
    BY <1>10 DEF StopResets, runVars
  <2>2. stop'.phase = "stopped" /\ stop'.runs = stop.runs
    BY <2>1 DEF Typed, StopTyped
  <2> QED
    BY <2>1, <2>2 DEF CancelledIsStopped
<1>11. CASE StopEnds
  <2>1. stop.phase = "stopped" /\ stop' = NoStop /\ UNCHANGED <<pc, of>>
    BY <1>11 DEF StopEnds, runVars
  <2> QED
    BY <2>1 DEF CancelledIsStopped, NoStop
<1> QED
  BY <1>2, <1>4, <1>5, <1>6, <1>7, <1>8, <1>9, <1>10, <1>11 DEF Next

LEMMA AlwaysStopped == Spec => [](RegisteredRun /\ CancelledIsStopped)
<1>1. Init => RegisteredRun /\ CancelledIsStopped
  BY DEF Init, RegisteredRun, CancelledIsStopped, NoStop
<1>2. ASSUME Typed, RegisteredRun, CancelledIsStopped, [Next]_vars
      PROVE  RegisteredRun' /\ CancelledIsStopped'
  <2>1. CASE UNCHANGED vars
    BY <1>2, <2>1 DEF vars, runVars, userVars, RegisteredRun, CancelledIsStopped
  <2>2. CASE Next
    BY <1>2, <2>2, RegisteredStep, CancelledStep
  <2> QED
    BY <1>2, <2>1, <2>2
<1> QED
  BY <1>1, <1>2, AlwaysTyped, PTL DEF Spec

\* One step keeps RunningHasARun, if nobody picks "running" in the editor and no chat of a
\* task is reset.
LEMMA RunningStep ==
    ASSUME Typed, CancelledIsStopped, RunningHasARun, Next,
           "reset" \notin StopKinds, "running" \notin UserStates
    PROVE  RunningHasARun'
<1> DEFINE Held(t) == (\E r \in Runs : of[r] = t /\ pc[r] \in Claimed \cup {"stranded"}) \/ stop.task = t
<1>1. \A t \in Tasks : state[t] = "running" => Held(t)
  BY DEF RunningHasARun
<1>2. SUFFICES \A t \in Tasks : state'[t] = "running" => Held(t)'
  BY DEF RunningHasARun
\* Whoever holds a task goes on holding it, as long as its state stays "running".
<1>3. ASSUME NEW t \in Tasks, Held(t), state'[t] = "running", state[t] = "running" PROVE Held(t)'
  <2>1. ASSUME NEW r \in Runs, RunStep(r) PROVE Held(t)'
    <3>1. UNCHANGED <<of, stop>>
      BY <2>1, RunFrame DEF userVars
    <3>2. PICK label \in Phases : pc' = [pc EXCEPT ![r] = label]
      BY <2>1, RunMoves DEF Go
    <3>3. CASE stop.task = t
      BY <3>1, <3>3
    <3>4. ASSUME NEW q \in Runs, of[q] = t, pc[q] \in Claimed \cup {"stranded"}, q # r PROVE Held(t)'
      BY <3>1, <3>2, <3>4 DEF Typed, RunsTyped
    <3>5. CASE of[r] = t /\ pc[r] \in Claimed \cup {"stranded"}
      <4>1. CASE Preflight(r) \/ Claim(r) \/ OnFinish(r) \/ FinalSave(r) \/ Leave(r)
        BY <3>5, <4>1 DEF Preflight, Claim, OnFinish, FinalSave, Leave, Claimed
      <4>2. CASE OnRun(r)
        BY <3>1, <3>5, <4>2 DEF OnRun, Go, Claimed, Typed, RunsTyped
      <4>3. CASE Settle(r)
        BY <1>3, <3>5, <4>3 DEF Settle, SetState, Update, Typed, ListTyped
      <4>4. CASE Verify(r)
        <5>1. state[of[r]] \notin {outcome[r], "gone"}
          BY <1>3, <3>5 DEF Typed, RunsTyped
        <5>2. pc' = [pc EXCEPT ![r] = "fix"]
          BY <4>4, <5>1 DEF Verify, Go
        <5> QED
          BY <3>1, <3>5, <5>2 DEF Claimed, Typed, RunsTyped
      <4>5. CASE Fix(r)
        BY <1>3, <3>5, <4>5 DEF Fix, SetState, Update, Typed, ListTyped, RunsTyped
      <4>6. CASE Cancelled(r)
        BY <1>3, <3>5, <4>6 DEF Cancelled, SetState, Update, Typed, ListTyped
      <4> QED
        BY <2>1, <4>1, <4>2, <4>3, <4>4, <4>5, <4>6 DEF RunStep
    <3> QED
      BY <1>3, <3>3, <3>4, <3>5
  <2>2. ASSUME NEW u \in Tasks, Spawn(u), UNCHANGED stop PROVE Held(t)'
    <3>1. PICK r \in Runs : /\ pc[r] = "none"
                            /\ pc' = [pc EXCEPT ![r] = "queued"] /\ of' = [of EXCEPT ![r] = u]
      BY <2>2 DEF Spawn
    <3> QED
      BY <1>3, <2>2, <3>1 DEF Claimed, Typed, RunsTyped
  <2>3. CASE TickStarts \/ RequestStarts
    BY <2>2, <2>3 DEF TickStarts, RequestStarts, userVars, Typed, ClockTyped, RequestTyped
  <2>4. ASSUME UNCHANGED <<pc, of, stop>> PROVE Held(t)'
    BY <1>3, <2>4
  <2>5. CASE \/ TickBegins \/ RequestResets \/ EditorSaves \/ ListTasks \/ TimePasses
             \/ \E u \in Tasks : RequestRun(u) \/ EditorOpens(u)
    BY <2>4, <2>5 DEF TickBegins, RequestResets, EditorSaves, ListTasks, TimePasses, RequestRun,
                      EditorOpens, runVars, userVars
  <2>6. ASSUME NEW u \in Tasks, NEW kind \in StopKinds, StopBegins(kind, u) PROVE Held(t)'
    <3>1. UNCHANGED <<pc, of>> /\ stop.phase = "none"
      BY <2>6 DEF StopBegins, runVars
    <3>2. stop.task # t
      BY <3>1, SchedulerAssumption DEF CancelledIsStopped
    <3> QED
      BY <1>3, <3>1, <3>2
  <2>7. CASE CancelRun
    <3>1. UNCHANGED of /\ stop'.task = stop.task
      BY <2>7 DEF CancelRun, Typed, StopTyped
    <3>2. \A r \in Runs : pc[r] \in Claimed \cup {"stranded"} => pc'[r] \in Claimed \cup {"stranded"}
      BY <2>7 DEF CancelRun, Claimed
    <3> QED
      BY <1>3, <3>1, <3>2
  <2>8. CASE Drain
    <3>1. UNCHANGED of /\ stop'.task = stop.task /\ stop.phase \in {"cancel", "drain"}
      BY <2>8 DEF Drain, Typed, StopTyped
    <3>2. \A label \in Claimed \cup {"stranded"} :
             label = "cancelled" \/ Drained(label) \in Claimed \cup {"stranded"}
      BY DEF Drained, Claimed
    <3>3. \A r \in Runs : pc[r] \in Claimed \cup {"stranded"} =>
             pc[r] = "cancelled" \/ pc'[r] \in Claimed \cup {"stranded"}
      BY <2>8, <3>2 DEF Drain
    <3>4. \A r \in Runs : pc[r] = "cancelled" => of[r] = stop.task
      BY <3>1 DEF CancelledIsStopped
    <3> QED
      BY <1>3, <3>1, <3>3, <3>4
  <2>9. CASE Terminate
    <3>1. UNCHANGED of /\ stop'.task = stop.task
      BY <2>9 DEF Terminate, Typed, StopTyped
    <3>2. \A r \in Runs : pc[r] \in Claimed \cup {"stranded"} => pc'[r] = "stranded"
      BY <2>9 DEF Terminate, Active
    <3> QED
      BY <1>3, <3>1, <3>2
  <2>10. CASE StopResets
    BY <1>3, <2>10 DEF StopResets, runVars, Typed, StopTyped
  <2>11. CASE StopEnds
    <3>1. stop.kind # "reset" /\ stop.task \in Tasks
      BY <2>11 DEF StopEnds, Typed, StopTyped
    <3>2. UNCHANGED <<pc, of>> /\ state' = [state EXCEPT ![stop.task] = "gone"]
      BY <2>11, <3>1 DEF StopEnds, runVars
    <3>3. stop.task # t
      BY <1>3, <3>1, <3>2 DEF Typed, ListTyped
    <3> QED
      BY <1>3, <3>2, <3>3
  <2> QED
    BY <2>1, <2>3, <2>5, <2>6, <2>7, <2>8, <2>9, <2>10, <2>11 DEF Next
\* Only a run that claims its task sets it "running".
<1>4. ASSUME NEW t \in Tasks, state'[t] = "running", state[t] # "running" PROVE Held(t)'
  <2>1. PICK r \in Runs : Claim(r) /\ state' = Update(of[r], "running")
    BY <1>4, StateWritten DEF Update, Typed, ListTyped
  <2>2. of[r] = t
    BY <1>4, <2>1 DEF Update, Typed, ListTyped
  <2>3. state[of[r]] \notin {"gone", "running"}
    BY <1>4, <2>1, <2>2 DEF Update
  <2>4. pc' = [pc EXCEPT ![r] = "claimed"] /\ of' = of
    BY <2>1, <2>3 DEF Claim, Go
  <2> QED
    BY <2>2, <2>4 DEF Claimed, Typed, RunsTyped
<1> QED
  BY <1>1, <1>3, <1>4

\* A task shows "running" only while a run is responsible for it, it is being stopped, or
\* the loop was stopped under a run of it: cancellations that reach a run between any two
\* of its steps, or twice, leave nothing running for ever.  Two things the code allows are
\* left out, and TLC shows the property broken by each: the user picks "running" in the
\* editor, and a chat is reset while a task runs in it.
THEOREM RunningIsRun ==
    ASSUME "reset" \notin StopKinds, "running" \notin UserStates
    PROVE  Spec => []RunningHasARun
<1>1. Init => RunningHasARun
  BY DEF Init, RunningHasARun
<1>2. ASSUME Typed, CancelledIsStopped, RunningHasARun, [Next]_vars PROVE RunningHasARun'
  <2>1. CASE UNCHANGED vars
    BY <1>2, <2>1 DEF vars, listVars, runVars, userVars, RunningHasARun
  <2>2. CASE Next
    BY <1>2, <2>2, RunningStep
  <2> QED
    BY <1>2, <2>1, <2>2
<1> QED
  BY <1>1, <1>2, AlwaysTyped, AlwaysStopped, PTL DEF Spec
=============================================================================
