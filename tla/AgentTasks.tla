----------------------------- MODULE AgentTasks -----------------------------
(***************************************************************************)
(* How a chat (AgentContext, agent.py) runs its agent: messages reach it   *)
(* from the threads of the web server, from the message queue and from     *)
(* nudges; each chat has one DeferredTask (helpers/defer.py) whose         *)
(* coroutines all run on the event loop of the thread "AgentContext"; a    *)
(* coroutine waits in the default thread pool of that loop for one of the  *)
(* MaxTasks permits of a BoundedSemaphore, works through its message loop  *)
(* and gives the permit back through the same pool.                        *)
(*                                                                         *)
(* A run of the coroutine is named by the message that started it.  The    *)
(* DeferredTask of a chat exists from the start, the agents of a chat are  *)
(* one agent, and a cancelled await ends at once.                          *)
(***************************************************************************)
EXTENDS Naturals, FiniteSets

CONSTANTS
  Chats,        \* the contexts
  Messages,     \* the messages that can be sent
  ToQueue,      \* those of them that go through the message queue
  Nudges,       \* those of them that a nudge sends
  To,           \* the chat each message is for
  NoMsg,
  MaxTasks,     \* _max_concurrent_tasks
  Workers,      \* threads of the pool of the loop
  ResetLimit,   \* bound: resets of a chat
  PauseLimit,   \* bound: uses of the pause button
  MayFail,      \* a model call or a tool may raise
  SerialSenders \* no two threads are inside communicate for one chat

ASSUME MessageAssumption == /\ IsFiniteSet(Messages)
                            /\ NoMsg \notin Messages
                            /\ To \in [Messages -> Chats]
                            /\ ToQueue \subseteq Messages
                            /\ Nudges \subseteq Messages \ ToQueue
ASSUME LimitAssumption == /\ MaxTasks \in Nat \ {0}
                          /\ Workers \in Nat \ {0}
                          /\ ResetLimit \in Nat
                          /\ PauseLimit \in Nat
                          /\ MayFail \in BOOLEAN
                          /\ SerialSenders \in BOOLEAN

VARIABLES
  stage,        \* how far the sending of a message has come
  args,         \* chat -> the message in DeferredTask.args
  current,      \* chat -> the run whose future is DeferredTask._future
  phase,        \* run -> where its coroutine stands
  msg,          \* run -> the message it works on
  cancelled,    \* runs whose future was cancelled
  cancelling,   \* those of them that have not been thrown the CancelledError
  delayed,      \* runs that left a coroutine to send the next queued message
  jobs,         \* work items of the pool that no thread has picked up
  busy,         \* work items in the hands of a thread
  permits,      \* value of the semaphore
  intervention, \* chat -> Agent.intervention
  paused,       \* chat -> AgentContext.paused
  heard,        \* message -> times it was added to the history
  answered,     \* messages that were in the history when the agent answered
  detached,     \* messages sent to an agent that a reset has replaced
  resets, pauses

vars == <<stage, args, current, phase, msg, cancelled, cancelling, delayed,
          jobs, busy, permits, intervention, paused, heard, answered, detached,
          resets, pauses>>
loop == <<phase, msg, cancelling, delayed>>
pool == <<jobs, busy, permits>>
chat == <<intervention, paused>>
record == <<heard, answered, detached>>
bounds == <<resets, pauses>>

Stages == {"new", "queued", "popped", "seenIdle", "seenBusy", "sent"}
Phases == {"none", "scheduled", "acquiring", "granted", "loop", "answering", "releasing",
           "ended"}

Job == [kind : {"acquire", "release"}, run : Messages]
Acquire(r) == [kind |-> "acquire", run |-> r]
Release(r) == [kind |-> "release", run |-> r]

TypeOK ==
  /\ stage \in [Messages -> Stages]
  /\ args \in [Chats -> Messages \cup {NoMsg}]
  /\ current \in [Chats -> Messages \cup {NoMsg}]
  /\ phase \in [Messages -> Phases]
  /\ msg \in [Messages -> Messages \cup {NoMsg}]
  /\ cancelled \in SUBSET Messages
  /\ cancelling \in SUBSET cancelled
  /\ delayed \in SUBSET Messages
  /\ jobs \in SUBSET Job
  /\ busy \in SUBSET Job
  /\ permits \in 0..MaxTasks
  /\ intervention \in [Chats -> Messages \cup {NoMsg}]
  /\ paused \in [Chats -> BOOLEAN]
  /\ heard \in [Messages -> Nat]
  /\ answered \in SUBSET Messages
  /\ detached \in SUBSET Messages
  /\ resets \in 0..ResetLimit
  /\ pauses \in 0..PauseLimit

Init ==
  /\ stage = [m \in Messages |-> "new"]
  /\ args = [c \in Chats |-> NoMsg]
  /\ current = [c \in Chats |-> NoMsg]
  /\ phase = [r \in Messages |-> "none"]
  /\ msg = [r \in Messages |-> NoMsg]
  /\ cancelled = {}
  /\ cancelling = {}
  /\ delayed = {}
  /\ jobs = {}
  /\ busy = {}
  /\ permits = MaxTasks
  /\ intervention = [c \in Chats |-> NoMsg]
  /\ paused = [c \in Chats |-> FALSE]
  /\ heard = [m \in Messages |-> 0]
  /\ answered = {}
  /\ detached = {}
  /\ resets = 0
  /\ pauses = 0

-----------------------------------------------------------------------------
(* What the threads see of a chat.                                         *)

\* A mutant: a task that waits for its permit does not count as running.
AliveOnceStarted(c) == LET r == current[c]
                       IN  r # NoMsg /\ r \notin cancelled
                           /\ phase[r] \notin {"scheduled", "acquiring", "granted", "ended"}

\* DeferredTask.is_alive: the future of the latest start is not done
Alive(c) == LET r == current[c]
            IN  r # NoMsg /\ r \notin cancelled /\ phase[r] # "ended"

\* DeferredTask.kill: the future is done at once, the coroutine hears of it
\* from its loop
Killed(c) == IF Alive(c) THEN {current[c]} ELSE {}

\* the message queue of the chat, without its order
Queued(c) == {m \in Messages : To[m] = c /\ stage[m] = "queued"}

Inside(c) == {m \in Messages : To[m] = c /\ stage[m] \in {"seenIdle", "seenBusy"}}

-----------------------------------------------------------------------------
(* The threads that send messages.                                         *)

\* communicate up to its test of the task; the message is new, or was taken
\* from the queue
See(m) ==
  LET c == To[m]
  IN  /\ \/ stage[m] = "new" /\ m \notin ToQueue \cup Nudges
         \/ stage[m] = "popped"
      /\ SerialSenders => Inside(c) = {}
      /\ paused' = [paused EXCEPT ![c] = FALSE]
      /\ stage' = [stage EXCEPT ![m] = IF Alive(c) THEN "seenBusy" ELSE "seenIdle"]
      /\ UNCHANGED <<args, current, loop, cancelled, pool, intervention, record, bounds>>

\* the task was alive: the message becomes the intervention of the agents
Intervene(m) ==
  /\ stage[m] = "seenBusy"
  /\ stage' = [stage EXCEPT ![m] = "sent"]
  /\ intervention' = IF m \in detached THEN intervention
                     ELSE [intervention EXCEPT ![To[m]] = m]
  /\ UNCHANGED <<args, current, loop, cancelled, pool, paused, record, bounds>>

\* the task was not alive: run_task, start_task
StartTask(m) ==
  LET c == To[m]
  IN  /\ stage[m] = "seenIdle"
      /\ stage' = [stage EXCEPT ![m] = "sent"]
      /\ args' = [args EXCEPT ![c] = m]
      /\ current' = [current EXCEPT ![c] = m]
      /\ phase' = [phase EXCEPT ![m] = "scheduled"]
      /\ UNCHANGED <<msg, cancelled, cancelling, delayed, pool, chat, record, bounds>>

\* nudge: kill, then communicate, which finds the task dead
Nudge(m) ==
  LET c == To[m]
  IN  /\ m \in Nudges /\ stage[m] = "new"
      /\ SerialSenders => Inside(c) = {}
      /\ stage' = [stage EXCEPT ![m] = "seenIdle"]
      /\ cancelled' = cancelled \cup Killed(c)
      /\ cancelling' = cancelling \cup Killed(c)
      /\ paused' = [paused EXCEPT ![c] = FALSE]
      /\ UNCHANGED <<args, current, phase, msg, delayed, pool, intervention, record, bounds>>

\* reset: kill, a new agent, not paused; the message queue stays
Reset(c) ==
  /\ resets < ResetLimit
  /\ resets' = resets + 1
  /\ cancelled' = cancelled \cup Killed(c)
  /\ cancelling' = cancelling \cup Killed(c)
  /\ intervention' = [intervention EXCEPT ![c] = NoMsg]
  /\ paused' = [paused EXCEPT ![c] = FALSE]
  /\ detached' = detached \cup {m \in Messages :
                     To[m] = c /\ stage[m] \in {"seenIdle", "seenBusy", "sent"}}
  /\ UNCHANGED <<stage, args, current, phase, msg, delayed, pool, heard, answered, pauses>>

Pause(c) ==
  /\ pauses < PauseLimit
  /\ pauses' = pauses + 1
  /\ paused' = [paused EXCEPT ![c] = ~paused[c]]
  /\ UNCHANGED <<stage, args, current, loop, cancelled, pool, intervention, record, resets>>

\* the user queues a message while the agent works
QueueAdd(m) ==
  /\ m \in ToQueue /\ stage[m] = "new" /\ Alive(To[m])
  /\ stage' = [stage EXCEPT ![m] = "queued"]
  /\ UNCHANGED <<args, current, loop, cancelled, pool, chat, record, bounds>>

\* the user sends a queued message now, whatever the agent does
QueueSend(m) ==
  /\ stage[m] = "queued"
  /\ stage' = [stage EXCEPT ![m] = "popped"]
  /\ UNCHANGED <<args, current, loop, cancelled, pool, chat, record, bounds>>

\* the coroutine a run left behind sees the chat idle and takes a message
DelayedSend(r) ==
  /\ r \in delayed /\ ~Alive(To[r])
  /\ delayed' = delayed \ {r}
  /\ \/ Queued(To[r]) = {} /\ UNCHANGED stage
     \/ \E m \in Queued(To[r]) : stage' = [stage EXCEPT ![m] = "popped"]
  /\ UNCHANGED <<args, current, phase, msg, cancelled, cancelling, pool, chat, record, bounds>>

\* or has waited a minute for it, which its own run does not take to end
DelayedGivesUp(r) ==
  /\ r \in delayed /\ Alive(To[r]) /\ current[To[r]] # r
  /\ delayed' = delayed \ {r}
  /\ UNCHANGED <<stage, args, current, phase, msg, cancelled, cancelling, pool, chat,
                 record, bounds>>

-----------------------------------------------------------------------------
(* The thread pool of the loop.  It takes its work items in order; here it *)
(* takes them in any order.                                                *)

WorkerTakes(j) ==
  /\ j \in jobs /\ Cardinality(busy) < Workers
  /\ busy' = busy \cup {j}
  /\ jobs' = jobs \ {j}
  /\ UNCHANGED <<stage, args, current, loop, cancelled, permits, chat, record, bounds>>

\* Semaphore.acquire returns; whether anyone still waits for it or not
WorkerAcquires(r) ==
  /\ Acquire(r) \in busy /\ permits > 0
  /\ busy' = busy \ {Acquire(r)}
  /\ permits' = permits - 1
  /\ phase' = IF phase[r] = "acquiring" THEN [phase EXCEPT ![r] = "granted"] ELSE phase
  /\ UNCHANGED <<stage, args, current, msg, cancelled, cancelling, delayed, jobs, chat,
                 record, bounds>>

WorkerReleases(r) ==
  /\ Release(r) \in busy
  /\ busy' = busy \ {Release(r)}
  /\ permits' = permits + 1
  /\ phase' = IF phase[r] = "releasing" THEN [phase EXCEPT ![r] = "ended"] ELSE phase
  /\ UNCHANGED <<stage, args, current, msg, cancelled, cancelling, delayed, jobs, chat,
                 record, bounds>>

-----------------------------------------------------------------------------
(* The coroutine of a run, on the loop.                                    *)

\* Its first step reads the arguments of the task and asks for a permit.  The
\* loop takes callbacks in order, so what was cancelled before has been told.
RunBegins(r) ==
  LET c == To[r]
  IN  /\ phase[r] = "scheduled"
      /\ \A q \in cancelling : To[q] # c
      /\ msg' = [msg EXCEPT ![r] = args[c]]
      /\ phase' = [phase EXCEPT ![r] = "acquiring"]
      /\ jobs' = jobs \cup {Acquire(r)}
      /\ UNCHANGED <<stage, args, current, cancelled, cancelling, delayed, busy, permits,
                     chat, record, bounds>>

\* The first step of a run that was cancelled before: the cancellation is the
\* next callback, and only a thread of the pool can be faster.
StillbornRun(r) ==
  /\ phase[r] = "scheduled" /\ r \in cancelling
  /\ phase' = [phase EXCEPT ![r] = "ended"]
  /\ cancelling' = cancelling \ {r}
  /\ \/ busy' = busy
     \/ Cardinality(busy) < Workers /\ busy' = busy \cup {Acquire(r)}
  /\ UNCHANGED <<stage, args, current, msg, cancelled, delayed, jobs, permits, chat,
                 record, bounds>>

\* A mutant: the acquire has a timeout, and what it returns is not looked at.
RunStartsAnyway(r) ==
  /\ phase[r] \in {"acquiring", "granted"}
  /\ phase' = [phase EXCEPT ![r] = "loop"]
  /\ heard' = [heard EXCEPT ![msg[r]] = @ + 1]
  /\ UNCHANGED <<stage, args, current, msg, cancelled, cancelling, delayed, pool, chat,
                 answered, detached, bounds>>

\* _guarded after the acquire, run_process_chain up to its message loop
RunStarts(r) ==
  /\ phase[r] = "granted"
  /\ phase' = [phase EXCEPT ![r] = "loop"]
  /\ heard' = [heard EXCEPT ![msg[r]] = @ + 1]
  /\ UNCHANGED <<stage, args, current, msg, cancelled, cancelling, delayed, pool, chat,
                 answered, detached, bounds>>

\* A mutant: the finally part without its release.
LeaveForgets(r) == /\ phase' = [phase EXCEPT ![r] = "ended"]
                   /\ jobs' = jobs

\* the coroutine leaves its try block: the finally part sends for the release
Leave(r) == /\ phase' = [phase EXCEPT ![r] = "releasing"]
            /\ jobs' = jobs \cup {Release(r)}

\* the intervention of the agent this run works with
Pending(r) == IF msg[r] \in detached THEN NoMsg ELSE intervention[To[r]]

\* A mutant: handle_intervention leaves the message where it is.
NotTaken(c) == [intervention EXCEPT ![c] = intervention[c]]

\* handle_intervention clears the intervention it takes
Taken(c) == [intervention EXCEPT ![c] = NoMsg]

\* handle_intervention with a message: it joins the history and an
\* InterventionException ends the chain
HandleIntervention(r) ==
  /\ phase[r] = "loop" /\ ~paused[To[r]]
  /\ Pending(r) # NoMsg
  /\ heard' = [heard EXCEPT ![Pending(r)] = @ + 1]
  /\ intervention' = Taken(To[r])
  /\ Leave(r)
  /\ UNCHANGED <<stage, args, current, msg, cancelled, cancelling, delayed, busy, permits,
                 paused, answered, detached, bounds>>

\* the last check before the answer; what comes after is not looked at
LastCheck(r) ==
  /\ phase[r] = "loop" /\ ~paused[To[r]]
  /\ Pending(r) = NoMsg
  /\ phase' = [phase EXCEPT ![r] = "answering"]
  /\ UNCHANGED <<stage, args, current, msg, cancelled, cancelling, delayed, pool, chat,
                 record, bounds>>

\* process_chain_end looks at the queue and may leave a delayed sender
Answer(r) ==
  /\ phase[r] = "answering"
  /\ answered' = answered \cup {m \in Messages : To[m] = To[r] /\ heard[m] > 0}
  /\ delayed' = IF Queued(To[r]) = {} THEN delayed ELSE delayed \cup {r}
  /\ Leave(r)
  /\ UNCHANGED <<stage, args, current, msg, cancelled, cancelling, busy, permits, chat,
                 heard, detached, bounds>>

\* an exception of a model call or a tool, or the timeout of the context
ChainFails(r) ==
  /\ MayFail /\ phase[r] = "loop"
  /\ Leave(r)
  /\ UNCHANGED <<stage, args, current, msg, cancelled, cancelling, delayed, busy, permits,
                 chat, record, bounds>>

\* A cancelled await takes its work item out of the pool if no thread has it.
Withdrawn(r) == jobs \ {Acquire(r), Release(r)}

\* CancelledError inside the try block: the permit is given back ...
CancelAtWork(r) == phase[r] \in {"loop", "answering"} /\ Leave(r)

\* A mutant: the acquire moved into the try block, which releases what it may
\* never have acquired.
CancelInPoolReleases(r) == /\ phase[r] \in {"acquiring", "granted", "releasing"}
                           /\ phase' = [phase EXCEPT ![r] = "releasing"]
                           /\ jobs' = Withdrawn(r) \cup {Release(r)}

\* ... and outside of it: in the acquire before the try, in the release in
\* the finally part
CancelInPool(r) == /\ phase[r] \in {"acquiring", "granted", "releasing"}
                   /\ phase' = [phase EXCEPT ![r] = "ended"]
                   /\ jobs' = Withdrawn(r)

CancelDelivered(r) ==
  /\ r \in cancelling
  /\ cancelling' = cancelling \ {r}
  /\ CancelAtWork(r) \/ CancelInPool(r)
  /\ UNCHANGED <<stage, args, current, msg, cancelled, delayed, busy, permits, chat,
                 record, bounds>>

\* the run ended before the cancellation reached it
CancelTooLate(r) ==
  /\ r \in cancelling /\ phase[r] = "ended"
  /\ cancelling' = cancelling \ {r}
  /\ UNCHANGED <<stage, args, current, phase, msg, cancelled, delayed, pool, chat, record,
                 bounds>>

-----------------------------------------------------------------------------
LoopStep(r) ==
  \/ RunBegins(r) \/ StillbornRun(r) \/ RunStarts(r)
  \/ HandleIntervention(r) \/ LastCheck(r) \/ Answer(r) \/ ChainFails(r)
  \/ CancelDelivered(r) \/ CancelTooLate(r)
  \/ DelayedSend(r) \/ DelayedGivesUp(r)

WorkerStep(r) ==
  \/ WorkerTakes(Acquire(r)) \/ WorkerTakes(Release(r))
  \/ WorkerAcquires(r) \/ WorkerReleases(r)

SenderStep(m) ==
  \/ See(m) \/ Intervene(m) \/ StartTask(m)
  \/ Nudge(m) \/ QueueAdd(m) \/ QueueSend(m)

Next ==
  \/ \E m \in Messages : SenderStep(m) \/ LoopStep(m) \/ WorkerStep(m)
  \/ \E c \in Chats : Reset(c) \/ Pause(c)

Spec == Init /\ [][Next]_vars

(* A thread that has begun to send goes on, the threads of the pool and    *)
(* the loop do what they have to do, and the agent comes to an answer.     *)
Fairness ==
  \A m \in Messages :
    /\ WF_vars(stage[m] = "popped" /\ See(m))
    /\ WF_vars(Intervene(m))
    /\ WF_vars(StartTask(m))
    /\ WF_vars(WorkerStep(m))
    /\ WF_vars(RunBegins(m) \/ StillbornRun(m) \/ RunStarts(m))
    /\ WF_vars(HandleIntervention(m) \/ LastCheck(m))
    /\ WF_vars(Answer(m))
    /\ WF_vars(CancelDelivered(m) \/ CancelTooLate(m))
    /\ WF_vars(DelayedSend(m))

FairSpec == Spec /\ Fairness

-----------------------------------------------------------------------------
(* Properties.                                                             *)

Working(r) == phase[r] \in {"loop", "answering"}

\* The semaphore does what it is for: however runs are started, answered,
\* failed and cancelled, never more than MaxTasks of them are at work.
AtMostMaxTasks == Cardinality({r \in Messages : Working(r)}) <= MaxTasks

\* One agent is never worked by two coroutines: a run that follows a killed
\* one starts only when the loop has stopped it.
OneChainPerChat ==
  \A q, r \in Messages : q # r /\ Working(q) /\ Working(r) => To[q] # To[r]

\* No message enters the history twice, as the start of a chain, as an
\* intervention or as both.
HeardOnce == \A m \in Messages : heard[m] <= 1

\* Nothing is under way.
Quiet == /\ \A m \in Messages : stage[m] \in {"new", "queued", "sent"}
         /\ \A r \in Messages : phase[r] \in {"none", "ended"} /\ r \notin delayed
         /\ jobs = {}

\* the user asked for it: the chat was reset, or the run of the message killed
Dismissed(m) == m \in detached \/ m \in cancelled

\* Every message that was sent has reached the agent.
EveryMessageIsHeard ==
  Quiet => \A m \in Messages : stage[m] = "sent" => heard[m] > 0 \/ Dismissed(m)

\* The agent answers after it has heard a message.
EveryMessageIsAnswered ==
  Quiet => \A m \in Messages : heard[m] > 0 => m \in answered \/ Dismissed(m)

\* A message queued while the agent works is sent when it has finished.
QueueIsEmptied == Quiet => \A c \in Chats : Queued(c) = {}

\* When no run is left, all permits are back: MaxTasks chats can work again.
PermitsComeBack == Quiet /\ busy = {} => permits = MaxTasks

\* Every run comes to an end, and gives way to the ones that wait.
EveryRunEnds == \A r \in Messages : phase[r] = "scheduled" ~> phase[r] = "ended"
=============================================================================
