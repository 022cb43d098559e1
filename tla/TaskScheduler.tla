---------------------------- MODULE TaskScheduler ----------------------------
(***************************************************************************)
(* helpers/task_scheduler.py: the task list with its file tasks.json, the  *)
(* tick of the job loop, runs started by hand, the wrapper every run goes  *)
(* through, and the handlers that edit, stop and delete tasks.             *)
(*                                                                         *)
(* All wrappers run on one event loop, that of the thread "TaskScheduler": *)
(* a wrapper keeps the thread (holder) until it awaits something that      *)
(* suspends. The job loop, the API and the agents run on other threads and *)
(* interleave with it wherever the lock of the list is free.               *)
(*                                                                         *)
(* Every reload replaces the task objects of the list by what the file     *)
(* says. A run keeps the object it was given, so its plan is a copy; until *)
(* the next reload the copy and the list are the same object (live).       *)
(*                                                                         *)
(* Planned tasks have a plan, the others an empty one; when a cron         *)
(* schedule is due is left open. Prompts, results and times of day are     *)
(* left out, and so are the agent and its chat: AgentTasks models them.    *)
(***************************************************************************)
EXTENDS Naturals, FiniteSets, FiniteSetsExt

CONSTANTS
    Tasks,
    Planned,     \* the tasks of type "planned"
    Cron,        \* the tasks of type "scheduled"; the others are "adhoc"
    LastTime,    \* planned launch times are 1..LastTime
    Runs,        \* bound: wrappers started in all
    UserStates,  \* the states the user picks in the task editor
    StopKinds,   \* the ways to stop a task: "delete" it, "remove" or "reset" its chat
    MaxActs,     \* bound: runs requested, edits and stops of the user, in all
    NoTask, NoRun

ASSUME SchedulerAssumption ==
    /\ Planned \subseteq Tasks /\ Cron \subseteq Tasks /\ Planned \cap Cron = {}
    /\ NoTask \notin Tasks /\ NoRun \notin Runs
    /\ LastTime \in Nat /\ MaxActs \in Nat
    /\ UserStates \subseteq {"idle", "running", "disabled", "error"}
    /\ StopKinds \subseteq {"delete", "remove", "reset"}

VARIABLES
    state,       \* task -> its state, in tasks.json and in the list alike
    kept,        \* task -> its plan in tasks.json
    plan,        \* task -> the plan of its object in the list
    live,        \* the runs whose task object is still the one in the list
    pc, of, copy,   \* run -> where it is, its task, the plan of its task object
    outcome,     \* run -> the state it leaves its task in
    holder,      \* the run that has the TaskScheduler thread
    registered,  \* _running_deferred_tasks
    due,         \* what is left of the list of the current tick
    request,     \* a run_task_by_uuid call under way
    editor,      \* the task editor of the web UI
    stop,        \* a delete, chat reset or chat removal under way
    now,         \* the planned times up to now have passed
    acts,        \* what the user has done so far
    launched     \* history: the planned times a run was started for

listVars == <<state, kept, plan, live>>
runVars == <<pc, of, copy, outcome, holder, registered, launched>>
userVars == <<request, editor, stop, acts>>
vars == <<listVars, runVars, due, userVars, now>>

Times == 1..LastTime
Plan == [todo : SUBSET Times, doing : Times \cup {0}, done : SUBSET Times]
EmptyPlan == [todo |-> {}, doing |-> 0, done |-> {}]
Idle == [phase |-> "none", task |-> NoTask]
NoStop == [phase |-> "none", kind |-> "none", task |-> NoTask, runs |-> {}]

\* A run claims its task and is responsible for its state until it has settled it.
Claimed == {"claimed", "working", "settled", "cancelled", "fix"}
Active == Claimed \cup {"queued", "checked", "finishing", "saving", "leaving"}

TimesOf(p) == p.todo \cup {p.doing} \cup p.done
OnePlaceEach(p) == p.todo \cap p.done = {} /\ p.doing \notin p.todo \cup p.done

TypeOK ==
    /\ state \in [Tasks -> {"idle", "running", "disabled", "error", "gone"}]
    /\ kept \in [Tasks -> Plan] /\ plan \in [Tasks -> Plan] /\ copy \in [Runs -> Plan]
    /\ \A t \in Tasks : OnePlaceEach(kept[t]) /\ OnePlaceEach(plan[t])
    /\ live \subseteq Runs
    /\ pc \in [Runs -> Active \cup {"none", "ended", "stranded"}]
    /\ of \in [Runs -> Tasks \cup {NoTask}]
    /\ outcome \in [Runs -> {"idle", "error"}]
    /\ holder \in Runs \cup {NoRun}
    /\ registered \in [Tasks -> Runs \cup {NoRun}]
    /\ due \subseteq Tasks
    /\ now \in 0..LastTime

Init ==
    /\ state = [t \in Tasks |-> "idle"]
    /\ kept = [t \in Tasks |-> IF t \in Planned THEN [EmptyPlan EXCEPT !.todo = Times]
                               ELSE EmptyPlan]
    /\ plan = kept /\ live = {}
    /\ pc = [r \in Runs |-> "none"] /\ of = [r \in Runs |-> NoTask]
    /\ copy = [r \in Runs |-> EmptyPlan] /\ outcome = [r \in Runs |-> "idle"]
    /\ holder = NoRun
    /\ registered = [t \in Tasks |-> NoRun]
    /\ due = {}
    /\ request = Idle /\ editor = [task |-> NoTask, plan |-> EmptyPlan]
    /\ stop = NoStop
    /\ now = 0 /\ acts = 0
    /\ launched = [t \in Tasks |-> {}]

-----------------------------------------------------------------------------
(* The task list                                                           *)

Reload == plan' = kept /\ live' = {}

\* update_task_by_uuid: reload, change, save. A task that is gone stays so.
UpdateMissing(t, s) == [state EXCEPT ![t] = s]
Update(t, s) == IF state[t] = "gone" THEN state ELSE [state EXCEPT ![t] = s]

SetState(t, s) ==
    /\ Reload
    /\ state' = Update(t, s)
    /\ UNCHANGED kept

SetPlan(t, p) ==
    /\ kept' = IF state[t] = "gone" THEN kept ELSE [kept EXCEPT ![t] = p]
    /\ plan' = kept' /\ live' = {}

\* Saving without a reload also writes what a live run has done to its plan.
Save == kept' = plan

\* The user does something.
Act == acts < MaxActs /\ acts' = acts + 1

-----------------------------------------------------------------------------
(* Starting a run                                                          *)

\* _run_task: the DeferredTask is registered, whatever was registered before.
Spawn(t) ==
    \E r \in Runs :
        /\ pc[r] = "none"
        /\ pc' = [pc EXCEPT ![r] = "queued"] /\ of' = [of EXCEPT ![r] = t]
        /\ registered' = [registered EXCEPT ![t] = r]
        /\ UNCHANGED <<copy, outcome, holder, launched>>

\* TaskPlan.should_launch: the earliest time of the plan, once it has passed.
LaunchTime(p) == IF p.todo # {} /\ Min(p.todo) <= now THEN Min(p.todo) ELSE 0

\* get_due_tasks reloads; a cron schedule may be due at any tick.
TickBegins ==
    /\ due = {}
    /\ Reload
    /\ \E cron \in SUBSET Cron :
         due' = {t \in Tasks : /\ state[t] = "idle"
                               /\ t \in cron \/ LaunchTime(kept[t]) # 0}
    /\ UNCHANGED <<state, kept, runVars, userVars, now>>

TickStarts ==
    /\ \E t \in due : Spawn(t) /\ due' = due \ {t}
    /\ UNCHANGED <<listVars, userVars, now>>

\* run_task_by_uuid: a task in error is set idle, a running or disabled one refused.
RequestRun(t) ==
    /\ request = Idle /\ Act
    /\ Reload
    /\ request' = IF state[t] = "idle" THEN [phase |-> "start", task |-> t]
                  ELSE IF state[t] = "error" THEN [phase |-> "reset", task |-> t]
                  ELSE Idle
    /\ UNCHANGED <<state, kept, runVars, due, editor, stop, now>>

RequestResets ==
    /\ request.phase = "reset"
    /\ SetState(request.task, "idle")
    /\ request' = IF state[request.task] = "gone" THEN Idle
                  ELSE [request EXCEPT !.phase = "start"]
    /\ UNCHANGED <<runVars, due, editor, stop, acts, now>>

RequestStarts ==
    /\ request.phase = "start"
    /\ Spawn(request.task)
    /\ request' = Idle
    /\ UNCHANGED <<listVars, due, editor, stop, acts, now>>

-----------------------------------------------------------------------------
(* _run_task_wrapper                                                       *)

\* The thread is free, or r has kept it since its last suspension.
Runnable(r) == holder \in {NoRun, r}

Go(r, label) == pc' = [pc EXCEPT ![r] = label]
Keep(r) == holder' = r
Suspend == holder' = NoRun
Unregister(r) == registered' = [registered EXCEPT ![of[r]] = NoRun]

\* The first look at the task is a snapshot.
Preflight(r) ==
    /\ pc[r] = "queued" /\ Runnable(r)
    /\ IF state[of[r]] \in {"gone", "running"}
       THEN Go(r, "ended") /\ Unregister(r) /\ Suspend
       ELSE Go(r, "checked") /\ Keep(r) /\ UNCHANGED registered
    /\ UNCHANGED <<listVars, of, copy, outcome, launched, due, userVars, now>>

\* update_task_checked: the state becomes running unless it is so already.
Claim(r) ==
    /\ pc[r] = "checked" /\ Runnable(r)
    /\ IF state[of[r]] \in {"gone", "running"}
       THEN /\ Go(r, "ended") /\ Unregister(r) /\ Suspend /\ Reload
            /\ UNCHANGED <<state, copy>>
       ELSE /\ Go(r, "claimed") /\ Keep(r)
            /\ state' = Update(of[r], "running")
            /\ plan' = kept /\ live' = {r}
            /\ copy' = [copy EXCEPT ![r] = kept[of[r]]]
            /\ UNCHANGED registered
    /\ UNCHANGED <<kept, of, outcome, launched, due, userVars, now>>

\* PlannedTask.on_run changes the object the run was given, and nothing else.
SetInProgressDropsMissed(p, x) ==
    [p EXCEPT !.todo = {y \in @ : y > now}, !.doing = x]
SetInProgressKeepsTodo(p, x) == [p EXCEPT !.doing = x]
SetInProgress(p, x) == [p EXCEPT !.todo = @ \ {x}, !.doing = x]

OnRun(r) ==
    /\ pc[r] = "claimed" /\ Runnable(r)
    /\ LET x == LaunchTime(copy[r])
       IN  IF x = 0 THEN UNCHANGED <<copy, plan, launched>>
           ELSE /\ copy' = [copy EXCEPT ![r] = SetInProgress(@, x)]
                /\ plan' = IF r \in live THEN [plan EXCEPT ![of[r]] = copy'[r]] ELSE plan
                /\ launched' = [launched EXCEPT ![of[r]] = @ \cup {x}]
    /\ Go(r, "working") /\ Suspend
    /\ UNCHANGED <<state, kept, live, of, outcome, registered, due, userVars, now>>

\* The monologue ends well or with an exception: on_success or on_error.
Settle(r) ==
    /\ pc[r] = "working" /\ Runnable(r)
    /\ \E s \in {"idle", "error"} :
         outcome' = [outcome EXCEPT ![r] = s] /\ SetState(of[r], s)
    /\ Go(r, "settled") /\ Keep(r)
    /\ UNCHANGED <<of, copy, registered, launched, due, userVars, now>>

\* The code looks whether its state has been kept, and if not writes it again.
Verify(r) ==
    /\ pc[r] = "settled" /\ Runnable(r)
    /\ Reload
    /\ IF state[of[r]] \in {outcome[r], "gone"}
       THEN Go(r, "finishing") /\ Suspend
       ELSE Go(r, "fix") /\ Keep(r)
    /\ UNCHANGED <<state, kept, of, copy, outcome, registered, launched, due, userVars, now>>

Fix(r) ==
    /\ pc[r] = "fix" /\ Runnable(r)
    /\ SetState(of[r], outcome[r])
    /\ Go(r, "finishing") /\ Suspend
    /\ UNCHANGED <<of, copy, outcome, registered, launched, due, userVars, now>>

\* A cancelled run sets its task idle.
CancelledKeepsState(r) ==
    /\ pc[r] = "cancelled" /\ Runnable(r)
    /\ Go(r, "finishing") /\ Suspend
    /\ UNCHANGED <<listVars, of, copy, outcome, registered, launched, due, userVars, now>>
Cancelled(r) ==
    /\ pc[r] = "cancelled" /\ Runnable(r)
    /\ SetState(of[r], "idle")
    /\ Go(r, "finishing") /\ Suspend
    /\ UNCHANGED <<of, copy, outcome, registered, launched, due, userVars, now>>

\* on_finish: the run's plan, with the time in progress done, replaces the saved one.
SetDoneSkipsMissed(p) ==
    [todo |-> {x \in p.todo : x > now}, doing |-> 0,
     done |-> p.done \cup {p.doing} \cup {x \in p.todo : x <= now}]
SetDone(p) == [p EXCEPT !.doing = 0, !.done = @ \cup {p.doing}]

OnFinish(r) ==
    /\ pc[r] = "finishing" /\ Runnable(r)
    /\ IF copy[r].doing = 0
       THEN Reload /\ UNCHANGED <<kept, copy>>
       ELSE copy' = [copy EXCEPT ![r] = SetDone(@)] /\ SetPlan(of[r], copy'[r])
    /\ Go(r, "saving") /\ Suspend
    /\ UNCHANGED <<state, of, outcome, registered, launched, due, userVars, now>>

FinalSave(r) ==
    /\ pc[r] = "saving" /\ Runnable(r)
    /\ Save
    /\ Go(r, "leaving") /\ Suspend
    /\ UNCHANGED <<state, plan, live, of, copy, outcome, registered, launched, due,
                   userVars, now>>

Leave(r) ==
    /\ pc[r] = "leaving" /\ Runnable(r)
    /\ Unregister(r) /\ Go(r, "ended") /\ Suspend
    /\ UNCHANGED <<listVars, of, copy, outcome, launched, due, userVars, now>>

-----------------------------------------------------------------------------
(* Stopping: scheduler_task_delete, chat_reset and chat_remove             *)

\* A task that is deleted is stopped only if its state is running; the two chat
\* handlers stop whatever is registered for a task of the chat.
StopBegins(kind, t) ==
    /\ stop.phase = "none" /\ state[t] # "gone" /\ Act
    /\ LET r == registered[t]
           running == kind = "delete" => state[t] = "running"
           alive == r # NoRun /\ pc[r] \in Active
       IN  stop' = [phase |-> IF ~running THEN "stopped"
                              ELSE IF alive THEN "cancel" ELSE "reset",
                    kind |-> kind, task |-> t, runs |-> IF alive THEN {r} ELSE {}]
    /\ IF kind = "delete" THEN Reload ELSE UNCHANGED <<plan, live>>
    /\ UNCHANGED <<state, kept, runVars, due, request, editor, now>>

\* DeferredTask.kill first cancels the one run. One that has not begun never will; one
\* at work gets CancelledError where it waits; after that it waits only for shielded
\* parts, which are completed.
CancelRun ==
    /\ stop.phase = "cancel" /\ holder = NoRun
    /\ pc' = [r \in Runs |-> IF r \notin stop.runs THEN pc[r]
                             ELSE IF pc[r] = "working" THEN "cancelled"
                             ELSE IF pc[r] = "queued" THEN "ended" ELSE pc[r]]
    /\ stop' = [stop EXCEPT !.phase = "drain"]
    /\ UNCHANGED <<listVars, of, copy, outcome, holder, registered, launched, due,
                   request, editor, acts, now>>

\* Then, with terminate_thread, every coroutine of the loop is cancelled. A shielded
\* part is a coroutine of its own: one that has not begun never will.
Drained(label) ==
    CASE label = "working"   -> "cancelled"
      [] label = "queued"    -> "ended"
      [] label = "cancelled" -> "finishing"
      [] label = "finishing" -> "saving"
      [] label = "saving"    -> "leaving"
      [] OTHER               -> label

\* The two cancellations may also reach the run as one.
Drain ==
    /\ stop.phase \in {"cancel", "drain"} /\ holder = NoRun
    /\ pc' = [r \in Runs |-> Drained(pc[r])]
    /\ stop' = [stop EXCEPT !.phase = "join", !.runs = {r \in Runs : pc[r] \in Active}]
    /\ UNCHANGED <<listVars, of, copy, outcome, holder, registered, launched, due,
                   request, editor, acts, now>>

\* Once the coroutines it cancelled have ended, the loop is stopped: a run that was
\* started meanwhile stays where it is for ever.
Terminate ==
    /\ stop.phase = "join" /\ holder = NoRun
    /\ \A r \in stop.runs : pc[r] = "ended"
    /\ pc' = [r \in Runs |-> IF pc[r] \in Active THEN "stranded" ELSE pc[r]]
    /\ stop' = [stop EXCEPT !.phase = "reset", !.runs = {}]
    /\ UNCHANGED <<listVars, of, copy, outcome, holder, registered, launched, due,
                   request, editor, acts, now>>

\* A delete sets the task that was running idle; a removal reloads the list.
StopResets ==
    /\ stop.phase = "reset"
    /\ CASE stop.kind = "delete" -> SetState(stop.task, "idle")
         [] stop.kind = "remove" -> Reload /\ UNCHANGED <<state, kept>>
         [] stop.kind = "reset"  -> UNCHANGED listVars
    /\ stop' = [stop EXCEPT !.phase = "stopped"]
    /\ UNCHANGED <<runVars, due, request, editor, acts, now>>

\* The task is removed, unless its chat was only reset.
StopEnds ==
    /\ stop.phase = "stopped"
    /\ IF stop.kind = "reset" THEN UNCHANGED <<state, kept>>
       ELSE state' = [state EXCEPT ![stop.task] = "gone"] /\ Save
    /\ stop' = NoStop
    /\ UNCHANGED <<plan, live, runVars, due, request, editor, acts, now>>

-----------------------------------------------------------------------------
(* The user's editor, other readers of the list, and time                  *)

EditorOpens(t) ==
    /\ editor.task = NoTask /\ state[t] # "gone" /\ Act
    /\ Reload
    /\ editor' = [task |-> t, plan |-> kept[t]]
    /\ UNCHANGED <<state, kept, runVars, due, request, stop, now>>

\* The editor sends back the state and the plan it shows, as one update.
EditorSaves ==
    /\ editor.task # NoTask
    /\ \E s \in UserStates : state' = Update(editor.task, s)
    /\ SetPlan(editor.task, editor.plan)
    /\ editor' = [task |-> NoTask, plan |-> EmptyPlan]
    /\ UNCHANGED <<runVars, due, request, stop, acts, now>>

\* The tasks are listed.
ListTasks ==
    /\ live # {}
    /\ Reload
    /\ UNCHANGED <<state, kept, runVars, due, userVars, now>>

TimePasses ==
    /\ now < LastTime
    /\ now' = now + 1
    /\ UNCHANGED <<listVars, runVars, due, userVars>>

-----------------------------------------------------------------------------
(* The specification                                                       *)

RunStep(r) ==
    \/ Preflight(r) \/ Claim(r) \/ OnRun(r) \/ Settle(r) \/ Verify(r) \/ Fix(r)
    \/ Cancelled(r) \/ OnFinish(r) \/ FinalSave(r) \/ Leave(r)

Next ==
    \/ TickBegins \/ TickStarts
    \/ \E t \in Tasks : RequestRun(t)
    \/ RequestResets \/ RequestStarts
    \/ \E r \in Runs : RunStep(r)
    \/ \E t \in Tasks : \E kind \in StopKinds : StopBegins(kind, t)
    \/ CancelRun \/ Drain \/ Terminate \/ StopResets \/ StopEnds
    \/ \E t \in Tasks : EditorOpens(t)
    \/ EditorSaves \/ ListTasks \/ TimePasses

Spec == Init /\ [][Next]_vars

-----------------------------------------------------------------------------
(* Properties                                                              *)

\* A task shows "running" only while a run that claimed it has not settled its state,
\* while the task is being stopped, or because the loop was stopped under a run.
RunningHasARun ==
    \A t \in Tasks : state[t] = "running" =>
        \/ \E r \in Runs : of[r] = t /\ pc[r] \in Claimed \cup {"stranded"}
        \/ stop.task = t

\* No planned time gets lost: it is still in the saved plan, or a run was started for it.
NoTimeIsLost ==
    \A t \in Planned : Times \subseteq TimesOf(kept[t]) \cup launched[t]

\* A planned time is marked done only if a run was started for it.
DoneWasLaunched == \A t \in Planned : kept[t].done \subseteq launched[t]

\* A deleted task does not come back, although runs, the editor and requests still
\* hold copies of it and write them.
DeletedStaysDeleted == [][\A t \in Tasks : state[t] = "gone" => state'[t] = "gone"]_vars

\* A disabled task is not executed, even if it is due.
DisabledIsNotRun == [][\A t \in Tasks : state[t] = "disabled" => state'[t] # "running"]_vars

\* Two runs of a task are never at work at the same time.
OneRunAtATime ==
    \A r, s \in Runs : (r # s /\ pc[r] = "working" /\ pc[s] = "working") => of[r] # of[s]
=============================================================================
