-------------------------- MODULE AgentTasksProofs --------------------------
(***************************************************************************)
(* Theorems about AgentTasks, for any number of chats, messages, permits   *)
(* and threads.                                                            *)
(***************************************************************************)
EXTENDS AgentTasks, FiniteSetTheorems, TLAPS

LEMMA JobFacts ==
    /\ \A r \in Messages : Acquire(r) \in Job /\ Release(r) \in Job
    /\ \A q, r \in Messages : /\ Acquire(q) # Release(r)
                              /\ (Acquire(q) = Acquire(r) => q = r)
                              /\ (Release(q) = Release(r) => q = r)
BY DEF Job, Acquire, Release

LEMMA HeardOnceMore ==
    ASSUME NEW f \in [Messages -> Nat], NEW x
    PROVE  [f EXCEPT ![x] = @ + 1] \in [Messages -> Nat]
<1>1. CASE x \in Messages
  <2>1. f[x] + 1 \in Nat
    BY <1>1
  <2> QED
    BY <2>1
<1>2. CASE x \notin Messages
  BY <1>2
<1> QED
  BY <1>1, <1>2

\* A message that has not been sent has started nothing.
NothingBeforeSent ==
    \A m \in Messages : stage[m] # "sent" => phase[m] = "none"

\* The work items of the pool belong to runs that wait for them or have given
\* up waiting.
JobsMatch ==
    /\ jobs \cap busy = {}
    /\ \A r \in Messages :
         /\ Acquire(r) \in jobs \cup busy => phase[r] \in {"acquiring", "ended"}
         /\ Release(r) \in jobs \cup busy => phase[r] \in {"releasing", "ended"}

\* The runs that have a permit and will give it back.
Holders == {r \in Messages : \/ phase[r] \in {"granted", "loop", "answering"}
                             \/ Release(r) \in jobs \cup busy}

PermitsSuffice == permits + Cardinality(Holders) <= MaxTasks

\* TypeOK with a weaker bound on the permits
Typed ==
  /\ stage \in [Messages -> Stages]
  /\ args \in [Chats -> Messages \cup {NoMsg}]
  /\ current \in [Chats -> Messages \cup {NoMsg}]
  /\ phase \in [Messages -> Phases]
  /\ msg \in [Messages -> Messages \cup {NoMsg}]
  /\ cancelled \in SUBSET Messages
  /\ cancelling \in SUBSET cancelled
  /\ delayed \in SUBSET Messages
  /\ jobs \in SUBSET Job
  /\ busy \in SUBSET Job
  /\ permits \in Nat
  /\ intervention \in [Chats -> Messages \cup {NoMsg}]
  /\ paused \in [Chats -> BOOLEAN]
  /\ heard \in [Messages -> Nat]
  /\ answered \in SUBSET Messages
  /\ detached \in SUBSET Messages
  /\ resets \in 0..ResetLimit
  /\ pauses \in 0..PauseLimit

TaskInv == Typed /\ NothingBeforeSent /\ JobsMatch /\ PermitsSuffice

LEMMA HoldersFinite == /\ IsFiniteSet(Holders)
                       /\ Cardinality(Holders) \in Nat
BY MessageAssumption, FS_Subset, FS_CardinalityType DEF Holders

LEMMA HoldersFinitePrime == /\ IsFiniteSet(Holders')
                            /\ Cardinality(Holders') \in Nat
BY MessageAssumption, FS_Subset, FS_CardinalityType DEF Holders

\* A step that gives no run a permit and takes none back.
LEMMA FewerHolders ==
    ASSUME PermitsSuffice, Typed, permits' \in Nat, permits' <= permits, Holders' \subseteq Holders
    PROVE  PermitsSuffice'
<1>1. Cardinality(Holders') <= Cardinality(Holders)
  BY HoldersFinite, FS_Subset
<1> QED
  BY <1>1, HoldersFinite, HoldersFinitePrime, LimitAssumption DEF PermitsSuffice, Typed

\* A run takes one of the permits.
LEMMA OneMoreHolder ==
    ASSUME PermitsSuffice, Typed, NEW r \in Messages, permits > 0,
           permits' = permits - 1, Holders' \subseteq Holders \cup {r}
    PROVE  PermitsSuffice'
<1>1. /\ IsFiniteSet(Holders \cup {r})
      /\ Cardinality(Holders \cup {r}) <= Cardinality(Holders) + 1
  BY HoldersFinite, FS_AddElement
<1>2. Cardinality(Holders') <= Cardinality(Holders \cup {r})
  BY <1>1, FS_Subset
<1>3. Cardinality(Holders \cup {r}) \in Nat
  BY <1>1, FS_CardinalityType
<1> QED
  BY <1>1, <1>2, <1>3, HoldersFinite, HoldersFinitePrime, LimitAssumption
  DEF PermitsSuffice, Typed

\* A run gives its permit back.
LEMMA OneHolderLess ==
    ASSUME PermitsSuffice, Typed, NEW r \in Holders,
           permits' = permits + 1, Holders' \subseteq Holders \ {r}
    PROVE  PermitsSuffice'
<1>1. /\ IsFiniteSet(Holders \ {r})
      /\ Cardinality(Holders \ {r}) = Cardinality(Holders) - 1
  BY HoldersFinite, FS_RemoveElement
<1>2. Cardinality(Holders') <= Cardinality(Holders \ {r})
  BY <1>1, FS_Subset
<1> QED
  BY <1>1, <1>2, HoldersFinite, HoldersFinitePrime, LimitAssumption
  DEF PermitsSuffice, Typed

LEMMA TaskInvInit == Init => TaskInv
<1> SUFFICES ASSUME Init PROVE TaskInv
  OBVIOUS
<1>1. Holders = {}
  BY DEF Init, Holders
<1>2. PermitsSuffice
  BY <1>1, FS_EmptySet, LimitAssumption DEF Init, PermitsSuffice
<1> QED
  BY <1>2, LimitAssumption DEF Init, TaskInv, Typed, NothingBeforeSent, JobsMatch, Stages, Phases

\* The steps of the senders leave the pool alone.
LEMMA SenderKeeps ==
    ASSUME TaskInv, NEW m \in Messages, SenderStep(m) PROVE TaskInv'
<1> USE DEF TaskInv
<1>0. To[m] \in Chats
  BY MessageAssumption
<1>1. CASE See(m)
  <2>1. Typed' /\ NothingBeforeSent' /\ JobsMatch'
    BY <1>1, <1>0 DEF See, loop, pool, record, bounds, Typed, Stages, NothingBeforeSent, JobsMatch
  <2>2. Holders' = Holders
    BY <1>1 DEF See, loop, pool, Holders
  <2> QED
    BY <2>1, <2>2, <1>1, FewerHolders DEF See, pool, Typed
<1>2. CASE Intervene(m)
  <2>1. Typed' /\ NothingBeforeSent' /\ JobsMatch'
    BY <1>2, <1>0 DEF Intervene, loop, pool, record, bounds, Typed, Stages, NothingBeforeSent, JobsMatch
  <2>2. Holders' = Holders
    BY <1>2 DEF Intervene, loop, pool, Holders
  <2> QED
    BY <2>1, <2>2, <1>2, FewerHolders DEF Intervene, pool, Typed
<1>3. CASE StartTask(m)
  <2>1. Typed'
    BY <1>3, <1>0 DEF StartTask, chat, pool, record, bounds, Typed, Stages, Phases
  <2>2. NothingBeforeSent' /\ JobsMatch'
    BY <1>3, JobFacts DEF StartTask, pool, Typed, NothingBeforeSent, JobsMatch
  <2>3. Holders' \subseteq Holders
    BY <1>3 DEF StartTask, pool, Typed, Holders
  <2> QED
    BY <2>1, <2>2, <2>3, <1>3, FewerHolders DEF StartTask, pool, Typed
<1>4. CASE Nudge(m)
  <2>1. Killed(To[m]) \subseteq Messages
    BY <1>0 DEF Killed, Alive, Typed
  <2>2. Typed' /\ NothingBeforeSent' /\ JobsMatch'
    BY <1>4, <1>0, <2>1 DEF Nudge, pool, record, bounds, Typed, Stages, NothingBeforeSent, JobsMatch
  <2>3. Holders' = Holders
    BY <1>4 DEF Nudge, pool, Holders
  <2> QED
    BY <2>2, <2>3, <1>4, FewerHolders DEF Nudge, pool, Typed
<1>5. CASE QueueAdd(m)
  <2>1. Typed' /\ NothingBeforeSent' /\ JobsMatch'
    BY <1>5 DEF QueueAdd, loop, pool, chat, record, bounds, Typed, Stages, NothingBeforeSent, JobsMatch
  <2>2. Holders' = Holders
    BY <1>5 DEF QueueAdd, loop, pool, Holders
  <2> QED
    BY <2>1, <2>2, <1>5, FewerHolders DEF QueueAdd, pool, Typed
<1>6. CASE QueueSend(m)
  <2>1. Typed' /\ NothingBeforeSent' /\ JobsMatch'
    BY <1>6 DEF QueueSend, loop, pool, chat, record, bounds, Typed, Stages, NothingBeforeSent, JobsMatch
  <2>2. Holders' = Holders
    BY <1>6 DEF QueueSend, loop, pool, Holders
  <2> QED
    BY <2>1, <2>2, <1>6, FewerHolders DEF QueueSend, pool, Typed
<1> QED
  BY <1>1, <1>2, <1>3, <1>4, <1>5, <1>6 DEF SenderStep

\* The threads of the pool move permits.
LEMMA WorkerKeeps ==
    ASSUME TaskInv, NEW r \in Messages, WorkerStep(r) PROVE TaskInv'
<1> USE DEF TaskInv
<1>1. ASSUME NEW j \in Job, WorkerTakes(j) PROVE TaskInv'
  <2>1. Typed'
    BY <1>1 DEF WorkerTakes, loop, chat, record, bounds, Typed
  <2>2. NothingBeforeSent' /\ JobsMatch'
    BY <1>1 DEF WorkerTakes, loop, Typed, NothingBeforeSent, JobsMatch
  <2>3. Holders' \subseteq Holders
    BY <1>1 DEF WorkerTakes, loop, Holders
  <2> QED
    BY <2>1, <2>2, <2>3, <1>1, FewerHolders DEF WorkerTakes, Typed
<1>2. CASE WorkerAcquires(r)
  <2>1. Typed'
    BY <1>2 DEF WorkerAcquires, chat, record, bounds, Typed, Phases
  <2>2. NothingBeforeSent'
    BY <1>2 DEF WorkerAcquires, Typed, NothingBeforeSent
  <2>3. JobsMatch'
    BY <1>2, JobFacts DEF WorkerAcquires, Typed, JobsMatch
  <2>4. Holders' \subseteq Holders \cup {r}
    BY <1>2 DEF WorkerAcquires, Typed, Holders
  <2> QED
    BY <2>1, <2>2, <2>3, <2>4, <1>2, OneMoreHolder DEF WorkerAcquires
<1>3. CASE WorkerReleases(r)
  <2>1. Typed'
    BY <1>3 DEF WorkerReleases, chat, record, bounds, Typed, Phases
  <2>2. NothingBeforeSent'
    BY <1>3 DEF WorkerReleases, Typed, NothingBeforeSent
  <2>3. JobsMatch'
    BY <1>3, JobFacts DEF WorkerReleases, Typed, JobsMatch
  <2>4. r \in Holders
    BY <1>3 DEF WorkerReleases, Holders
  <2>5. Holders' \subseteq Holders \ {r}
    BY <1>3, JobFacts DEF WorkerReleases, Typed, JobsMatch, Holders
  <2> QED
    BY <2>1, <2>2, <2>3, <2>4, <2>5, <1>3, OneHolderLess DEF WorkerReleases
<1> QED
  BY <1>1, <1>2, <1>3, JobFacts DEF WorkerStep

\* A run that leaves its try block keeps its permit until the release.
LEMMA LeaveKeeps ==
    ASSUME TaskInv, NEW r \in Messages, phase[r] \in {"loop", "answering"}, Leave(r),
           busy' = busy, stage' = stage, permits' = permits
    PROVE  /\ phase' \in [Messages -> Phases] /\ jobs' \in SUBSET Job
           /\ NothingBeforeSent' /\ JobsMatch' /\ PermitsSuffice'
<1> USE DEF TaskInv
<1>1. phase' \in [Messages -> Phases] /\ jobs' \in SUBSET Job
  BY JobFacts DEF Leave, Typed, Phases
<1>2. NothingBeforeSent'
  BY DEF Leave, Typed, NothingBeforeSent
<1>3. JobsMatch'
  BY JobFacts DEF Leave, Typed, JobsMatch
<1>4. Holders' \subseteq Holders
  BY JobFacts DEF Leave, Typed, Holders
<1> QED
  BY <1>1, <1>2, <1>3, <1>4, FewerHolders DEF Typed

LEMMA LoopKeeps ==
    ASSUME TaskInv, NEW r \in Messages, LoopStep(r) PROVE TaskInv'
<1> USE DEF TaskInv
<1>0. To[r] \in Chats
  BY MessageAssumption
<1>1. CASE RunBegins(r)
  <2>1. Typed'
    BY <1>1, <1>0, JobFacts DEF RunBegins, chat, record, bounds, Typed, Phases
  <2>2. NothingBeforeSent'
    BY <1>1 DEF RunBegins, Typed, NothingBeforeSent
  <2>3. JobsMatch'
    BY <1>1, JobFacts DEF RunBegins, Typed, JobsMatch
  <2>4. Holders' \subseteq Holders
    BY <1>1, JobFacts DEF RunBegins, Typed, Holders
  <2> QED
    BY <2>1, <2>2, <2>3, <2>4, <1>1, FewerHolders DEF RunBegins, Typed
<1>2. CASE StillbornRun(r)
  <2>1. Typed'
    BY <1>2, JobFacts DEF StillbornRun, chat, record, bounds, Typed, Phases
  <2>2. NothingBeforeSent'
    BY <1>2 DEF StillbornRun, Typed, NothingBeforeSent
  <2>3. JobsMatch'
    BY <1>2, JobFacts DEF StillbornRun, Typed, JobsMatch
  <2>4. Holders' \subseteq Holders
    BY <1>2, JobFacts DEF StillbornRun, Typed, Holders
  <2> QED
    BY <2>1, <2>2, <2>3, <2>4, <1>2, FewerHolders DEF StillbornRun, Typed
<1>3. CASE RunStarts(r)
  <2>0. heard' \in [Messages -> Nat]
    BY <1>3, HeardOnceMore DEF RunStarts, Typed
  <2>1. Typed'
    BY <1>3, <2>0 DEF RunStarts, chat, pool, bounds, Typed, Phases
  <2>2. NothingBeforeSent' /\ JobsMatch'
    BY <1>3 DEF RunStarts, pool, Typed, NothingBeforeSent, JobsMatch
  <2>3. Holders' \subseteq Holders
    BY <1>3 DEF RunStarts, pool, Typed, Holders
  <2> QED
    BY <2>1, <2>2, <2>3, <1>3, FewerHolders DEF RunStarts, pool, Typed
<1>4. CASE HandleIntervention(r)
  <2>1. Typed'
    BY <1>4, <1>0, LeaveKeeps DEF HandleIntervention, Pending, Taken, bounds, Typed
  <2> QED
    BY <2>1, <1>4, LeaveKeeps DEF HandleIntervention
<1>5. CASE LastCheck(r)
  <2>1. Typed'
    BY <1>5 DEF LastCheck, chat, pool, record, bounds, Typed, Phases
  <2>2. NothingBeforeSent' /\ JobsMatch'
    BY <1>5 DEF LastCheck, pool, Typed, NothingBeforeSent, JobsMatch
  <2>3. Holders' \subseteq Holders
    BY <1>5 DEF LastCheck, pool, Typed, Holders
  <2> QED
    BY <2>1, <2>2, <2>3, <1>5, FewerHolders DEF LastCheck, pool, Typed
<1>6. CASE Answer(r)
  <2>1. Typed'
    BY <1>6, LeaveKeeps DEF Answer, chat, bounds, Typed
  <2> QED
    BY <2>1, <1>6, LeaveKeeps DEF Answer
<1>7. CASE ChainFails(r)
  <2>1. Typed'
    BY <1>7, LeaveKeeps DEF ChainFails, chat, record, bounds, Typed
  <2> QED
    BY <2>1, <1>7, LeaveKeeps DEF ChainFails
<1>8. CASE CancelDelivered(r)
  <2>1. CASE CancelAtWork(r)
    <3>1. Typed'
      BY <1>8, <2>1, LeaveKeeps DEF CancelDelivered, CancelAtWork, chat, record, bounds, Typed
    <3> QED
      BY <3>1, <1>8, <2>1, LeaveKeeps DEF CancelDelivered, CancelAtWork
  <2>2. CASE CancelInPool(r)
    <3>1. Typed'
      BY <1>8, <2>2 DEF CancelDelivered, CancelInPool, Withdrawn, chat, record, bounds, Typed, Phases
    <3>2. NothingBeforeSent'
      BY <1>8, <2>2 DEF CancelDelivered, CancelInPool, Typed, NothingBeforeSent
    <3>3. JobsMatch'
      BY <1>8, <2>2 DEF CancelDelivered, CancelInPool, Withdrawn, Typed, JobsMatch
    <3>4. Holders' \subseteq Holders
      BY <1>8, <2>2 DEF CancelDelivered, CancelInPool, Withdrawn, Typed, Holders
    <3> QED
      BY <3>1, <3>2, <3>3, <3>4, <1>8, FewerHolders DEF CancelDelivered, Typed
  <2> QED
    BY <1>8, <2>1, <2>2 DEF CancelDelivered
<1>9. CASE CancelTooLate(r)
  <2>1. Typed' /\ NothingBeforeSent' /\ JobsMatch'
    BY <1>9 DEF CancelTooLate, chat, pool, record, bounds, Typed, NothingBeforeSent, JobsMatch
  <2>2. Holders' = Holders
    BY <1>9 DEF CancelTooLate, pool, Holders
  <2> QED
    BY <2>1, <2>2, <1>9, FewerHolders DEF CancelTooLate, pool, Typed
<1>10. CASE DelayedSend(r)
  <2>1. Typed'
    BY <1>10 DEF DelayedSend, Queued, chat, pool, record, bounds, Typed, Stages
  <2>2. NothingBeforeSent' /\ JobsMatch'
    BY <1>10 DEF DelayedSend, Queued, pool, Typed, NothingBeforeSent, JobsMatch
  <2>3. Holders' = Holders
    BY <1>10 DEF DelayedSend, pool, Holders
  <2> QED
    BY <2>1, <2>2, <2>3, <1>10, FewerHolders DEF DelayedSend, pool, Typed
<1>11. CASE DelayedGivesUp(r)
  <2>1. Typed' /\ NothingBeforeSent' /\ JobsMatch'
    BY <1>11 DEF DelayedGivesUp, chat, pool, record, bounds, Typed, NothingBeforeSent, JobsMatch
  <2>2. Holders' = Holders
    BY <1>11 DEF DelayedGivesUp, pool, Holders
  <2> QED
    BY <2>1, <2>2, <1>11, FewerHolders DEF DelayedGivesUp, pool, Typed
<1> QED
  BY <1>1, <1>2, <1>3, <1>4, <1>5, <1>6, <1>7, <1>8, <1>9, <1>10, <1>11 DEF LoopStep

LEMMA ResetKeeps ==
    ASSUME TaskInv, NEW c \in Chats, Reset(c) PROVE TaskInv'
<1> USE DEF TaskInv
<1>1. Killed(c) \subseteq Messages
  BY DEF Killed, Alive, Typed
<1>2. Typed' /\ NothingBeforeSent' /\ JobsMatch'
  BY <1>1, LimitAssumption DEF Reset, pool, Typed, NothingBeforeSent, JobsMatch
<1>3. Holders' = Holders
  BY DEF Reset, pool, Holders
<1> QED
  BY <1>2, <1>3, FewerHolders DEF Reset, pool, Typed

LEMMA PauseKeeps ==
    ASSUME TaskInv, NEW c \in Chats, Pause(c) PROVE TaskInv'
<1> USE DEF TaskInv
<1>1. Typed' /\ NothingBeforeSent' /\ JobsMatch'
  BY LimitAssumption DEF Pause, loop, pool, record, Typed, NothingBeforeSent, JobsMatch
<1>2. Holders' = Holders
  BY DEF Pause, loop, pool, Holders
<1> QED
  BY <1>1, <1>2, FewerHolders DEF Pause, pool, Typed

LEMMA StutterKeeps ==
    ASSUME TaskInv, UNCHANGED vars PROVE TaskInv'
<1> USE DEF TaskInv
<1>1. Typed' /\ NothingBeforeSent' /\ JobsMatch'
  BY DEF vars, Typed, NothingBeforeSent, JobsMatch
<1>2. Holders' = Holders
  BY DEF vars, Holders
<1> QED
  BY <1>1, <1>2, FewerHolders DEF vars, Typed

LEMMA TaskInvStep == TaskInv /\ [Next]_vars => TaskInv'
BY SenderKeeps, LoopKeeps, WorkerKeeps, ResetKeeps, PauseKeeps, StutterKeeps DEF Next

THEOREM TaskInvariant == Spec => []TaskInv
BY TaskInvInit, TaskInvStep, PTL DEF Spec

\* The runs at work are among the holders of a permit.
LEMMA HoldersBoundWork == TaskInv => AtMostMaxTasks
<1> SUFFICES ASSUME TaskInv PROVE AtMostMaxTasks
  OBVIOUS
<1> DEFINE W == {r \in Messages : Working(r)}
<1>1. W \subseteq Holders
  BY DEF Working, Holders
<1>2. IsFiniteSet(W) /\ Cardinality(W) <= Cardinality(Holders)
  BY <1>1, HoldersFinite, FS_Subset
<1>3. Cardinality(W) \in Nat
  BY <1>2, FS_CardinalityType
<1> QED
  BY <1>2, <1>3, HoldersFinite, LimitAssumption
  DEF TaskInv, PermitsSuffice, Typed, AtMostMaxTasks

\* Every variable keeps its type; above all the semaphore is never released
\* more often than it was acquired, which a BoundedSemaphore answers with a
\* ValueError.
THEOREM TypeCorrect == Spec => []TypeOK
<1>1. TaskInv => TypeOK
  BY HoldersFinite, LimitAssumption DEF TaskInv, Typed, PermitsSuffice, TypeOK
<1> QED
  BY <1>1, TaskInvariant, PTL

\* However runs are started, answered, failed and cancelled, never more than
\* MaxTasks of them are at work.
THEOREM LimitHolds == Spec => []AtMostMaxTasks
BY HoldersBoundWork, TaskInvariant, PTL

-----------------------------------------------------------------------------
(* One chain per chat.                                                     *)

Begun(r) == phase[r] \in {"acquiring", "granted", "loop", "answering"}

\* What the runs of one chat know of each other.
OneBegun ==
    \A q, r \in Messages : q # r /\ To[q] = To[r] => ~(Begun(q) /\ Begun(r))

\* A run that is not cancelled is the one the DeferredTask knows.
OthersAreCancelled ==
    \A r \in Messages :
       phase[r] \notin {"none", "ended"} /\ r \notin cancelled => current[To[r]] = r

CurrentHasStarted ==
    \A c \in Chats : current[c] # NoMsg => To[current[c]] = c /\ phase[current[c]] # "none"

\* A cancelled run has been stopped or is about to be.
CancelReaches ==
    \A r \in cancelled : /\ phase[r] # "none"
                         /\ r \in cancelling \/ phase[r] \in {"releasing", "ended"}

\* One thread at a time is inside communicate, and what it saw stays true.
OneInside ==
    \A m, n \in Messages :
       /\ To[m] = To[n]
       /\ stage[m] \in {"seenIdle", "seenBusy"}
       /\ stage[n] \in {"seenIdle", "seenBusy"}
       => m = n

IdleStaysIdle == \A m \in Messages : stage[m] = "seenIdle" => ~Alive(To[m])

ChainInv == /\ OneBegun /\ OthersAreCancelled /\ CurrentHasStarted
            /\ CancelReaches /\ OneInside /\ IdleStaysIdle

LEMMA ChainInvInit == Init => ChainInv
BY DEF Init, ChainInv, OneBegun, Begun, OthersAreCancelled, CurrentHasStarted, CancelReaches,
       OneInside, IdleStaysIdle, Alive

LEMMA ChainSender ==
    ASSUME TaskInv, ChainInv, SerialSenders, NEW m \in Messages, SenderStep(m)
    PROVE  ChainInv'
<1> USE MessageAssumption DEF TaskInv, ChainInv
<1>0. To[m] \in Chats /\ m # NoMsg
  OBVIOUS
<1>1. CASE See(m)
  <2>1. OneBegun' /\ OthersAreCancelled' /\ CurrentHasStarted' /\ CancelReaches'
    BY <1>1 DEF See, loop, OneBegun, Begun, OthersAreCancelled, CurrentHasStarted, CancelReaches
  <2>2. OneInside'
    BY <1>1 DEF See, Inside, OneInside, Typed
  <2>3. IdleStaysIdle'
    BY <1>1 DEF See, loop, IdleStaysIdle, Alive, Typed
  <2> QED
    BY <2>1, <2>2, <2>3
<1>2. CASE Intervene(m)
  BY <1>2 DEF Intervene, loop, OneBegun, Begun, OthersAreCancelled, CurrentHasStarted,
              CancelReaches, OneInside, IdleStaysIdle, Alive, Typed
<1>3. CASE StartTask(m)
  <2>1. phase[m] = "none" /\ m \notin cancelled /\ ~Alive(To[m])
    BY <1>3 DEF StartTask, NothingBeforeSent, CancelReaches, IdleStaysIdle
  <2>2. OneBegun'
    BY <1>3, <2>1 DEF StartTask, OneBegun, Begun, Typed
  <2>3. OthersAreCancelled'
    BY <1>3, <2>1 DEF StartTask, OthersAreCancelled, Alive, Typed
  <2>4. CurrentHasStarted'
    BY <1>3, <2>1 DEF StartTask, CurrentHasStarted, Typed
  <2>5. CancelReaches'
    BY <1>3, <2>1 DEF StartTask, CancelReaches, Typed
  <2>6. OneInside'
    BY <1>3 DEF StartTask, OneInside, Typed
  <2>7. IdleStaysIdle'
    BY <1>3, <2>1 DEF StartTask, IdleStaysIdle, OneInside, Alive, Typed
  <2> QED
    BY <2>2, <2>3, <2>4, <2>5, <2>6, <2>7
<1>4. CASE Nudge(m)
  <2>1. OneBegun' /\ OthersAreCancelled' /\ CurrentHasStarted'
    BY <1>4 DEF Nudge, OneBegun, Begun, OthersAreCancelled, CurrentHasStarted
  <2>2. CancelReaches'
    BY <1>4, <1>0 DEF Nudge, Killed, Alive, CurrentHasStarted, CancelReaches
  <2>3. OneInside'
    BY <1>4 DEF Nudge, Inside, OneInside, Typed
  <2>4. IdleStaysIdle'
    BY <1>4 DEF Nudge, Killed, IdleStaysIdle, Alive, Typed
  <2> QED
    BY <2>1, <2>2, <2>3, <2>4
<1>5. CASE QueueAdd(m)
  BY <1>5 DEF QueueAdd, loop, OneBegun, Begun, OthersAreCancelled, CurrentHasStarted,
              CancelReaches, OneInside, IdleStaysIdle, Alive, Typed
<1>6. CASE QueueSend(m)
  BY <1>6 DEF QueueSend, loop, OneBegun, Begun, OthersAreCancelled, CurrentHasStarted,
              CancelReaches, OneInside, IdleStaysIdle, Alive, Typed
<1> QED
  BY <1>1, <1>2, <1>3, <1>4, <1>5, <1>6 DEF SenderStep

\* A step that moves one started run on, without beginning it.
LEMMA ChainProgress ==
    ASSUME TaskInv, ChainInv, NEW r \in Messages, NEW p \in Phases \ {"none"},
           phase[r] # "none",
           phase' = phase \/ (phase' = [phase EXCEPT ![r] = p] /\ phase[r] # "ended"),
           p \in {"acquiring", "granted", "loop", "answering"} => Begun(r),
           r \in cancelled /\ r \notin cancelling' /\ phase' # phase => p \in {"releasing", "ended"},
           cancelling' = cancelling \/ (cancelling' = cancelling \ {r}
                                        /\ phase'[r] \in {"releasing", "ended"}),
           UNCHANGED <<stage, current, cancelled>>
    PROVE  ChainInv'
<1> USE MessageAssumption DEF TaskInv, ChainInv
<1>1. OneBegun'
  BY DEF OneBegun, Begun, Typed
<1>2. OthersAreCancelled'
  BY DEF OthersAreCancelled, Typed
<1>3. CurrentHasStarted'
  BY DEF CurrentHasStarted, Typed
<1>4. CancelReaches'
  BY DEF CancelReaches, Typed
<1>5. OneInside'
  BY DEF OneInside
<1>6. IdleStaysIdle'
  BY DEF IdleStaysIdle, Alive, Typed
<1> QED
  BY <1>1, <1>2, <1>3, <1>4, <1>5, <1>6

LEMMA ChainUnmoved ==
    ASSUME ChainInv, UNCHANGED <<stage, current, cancelled, phase, cancelling>>
    PROVE  ChainInv'
BY DEF ChainInv, OneBegun, Begun, OthersAreCancelled, CurrentHasStarted, CancelReaches,
       OneInside, IdleStaysIdle, Alive

LEMMA ChainWorker ==
    ASSUME TaskInv, ChainInv, NEW r \in Messages, WorkerStep(r)
    PROVE  ChainInv'
<1>1. ASSUME NEW j, WorkerTakes(j) PROVE ChainInv'
  BY <1>1, ChainUnmoved DEF WorkerTakes, loop
<1>2. CASE WorkerAcquires(r)
  <2>1. phase[r] = "acquiring" => Begun(r) /\ (r \in cancelled => r \in cancelling)
    BY DEF ChainInv, CancelReaches, Begun
  <2>2. CASE phase[r] = "acquiring"
    BY <1>2, <2>1, <2>2, ChainProgress, "granted" \in Phases \ {"none"}
    DEF WorkerAcquires, Phases
  <2>3. CASE phase[r] # "acquiring"
    BY <1>2, <2>3, ChainUnmoved DEF WorkerAcquires
  <2> QED
    BY <2>2, <2>3
<1>3. CASE WorkerReleases(r)
  <2>1. CASE phase[r] = "releasing"
    BY <1>3, <2>1, ChainProgress, "ended" \in Phases \ {"none"} DEF WorkerReleases, Phases
  <2>2. CASE phase[r] # "releasing"
    BY <1>3, <2>2, ChainUnmoved DEF WorkerReleases
  <2> QED
    BY <2>1, <2>2
<1> QED
  BY <1>1, <1>2, <1>3 DEF WorkerStep

LEMMA ChainBegins ==
    ASSUME TaskInv, ChainInv, NEW r \in Messages, RunBegins(r)
    PROVE  ChainInv'
<1> USE MessageAssumption DEF TaskInv, ChainInv
<1>1. r \notin cancelled /\ current[To[r]] = r
  BY DEF RunBegins, CancelReaches, OthersAreCancelled
<1>2. \A q \in Messages : q # r /\ To[q] = To[r] => ~Begun(q)
  BY <1>1 DEF RunBegins, CancelReaches, OthersAreCancelled, Begun
<1>3. OneBegun'
  BY <1>2 DEF RunBegins, OneBegun, Begun, Typed
<1>4. OthersAreCancelled'
  BY DEF RunBegins, OthersAreCancelled, Typed
<1>5. CurrentHasStarted'
  BY DEF RunBegins, CurrentHasStarted, Typed
<1>6. CancelReaches'
  BY <1>1 DEF RunBegins, CancelReaches, Typed
<1>7. OneInside'
  BY DEF RunBegins, OneInside
<1>8. IdleStaysIdle'
  BY DEF RunBegins, IdleStaysIdle, Alive, Typed
<1> QED
  BY <1>3, <1>4, <1>5, <1>6, <1>7, <1>8

LEMMA ChainLoop ==
    ASSUME TaskInv, ChainInv, SerialSenders, NEW r \in Messages, LoopStep(r)
    PROVE  ChainInv'
<1>0. /\ {"loop", "answering", "releasing", "ended"} \subseteq Phases \ {"none"}
      /\ \A q \in cancelled : q \in cancelling \/ phase[q] \in {"releasing", "ended"}
  BY DEF Phases, ChainInv, CancelReaches
<1>1. CASE RunBegins(r)
  BY <1>1, ChainBegins
<1>2. CASE StillbornRun(r)
  BY <1>2, <1>0, ChainProgress DEF StillbornRun, TaskInv, Typed
<1>3. CASE RunStarts(r)
  BY <1>3, <1>0, ChainProgress DEF RunStarts, Begun
<1>4. CASE HandleIntervention(r)
  BY <1>4, <1>0, ChainProgress DEF HandleIntervention, Leave
<1>5. CASE LastCheck(r)
  BY <1>5, <1>0, ChainProgress DEF LastCheck, Begun
<1>6. CASE Answer(r)
  BY <1>6, <1>0, ChainProgress DEF Answer, Leave
<1>7. CASE ChainFails(r)
  BY <1>7, <1>0, ChainProgress DEF ChainFails, Leave
<1>8. CASE CancelDelivered(r)
  <2>1. CASE CancelAtWork(r)
    BY <1>8, <2>1, <1>0, ChainProgress DEF CancelDelivered, CancelAtWork, Leave, TaskInv, Typed
  <2>2. CASE CancelInPool(r)
    BY <1>8, <2>2, <1>0, ChainProgress DEF CancelDelivered, CancelInPool, TaskInv, Typed
  <2> QED
    BY <1>8, <2>1, <2>2 DEF CancelDelivered
<1>9. CASE CancelTooLate(r)
  BY <1>9, <1>0, ChainProgress DEF CancelTooLate
<1>10. CASE DelayedSend(r)
  BY <1>10 DEF DelayedSend, Queued, ChainInv, OneBegun, Begun, OthersAreCancelled,
               CurrentHasStarted, CancelReaches, OneInside, IdleStaysIdle, Alive, TaskInv, Typed
<1>11. CASE DelayedGivesUp(r)
  BY <1>11, ChainUnmoved DEF DelayedGivesUp
<1> QED
  BY <1>1, <1>2, <1>3, <1>4, <1>5, <1>6, <1>7, <1>8, <1>9, <1>10, <1>11 DEF LoopStep

LEMMA ChainReset ==
    ASSUME TaskInv, ChainInv, NEW c \in Chats, Reset(c)
    PROVE  ChainInv'
<1> USE MessageAssumption DEF TaskInv, ChainInv
<1>1. OneBegun' /\ OthersAreCancelled' /\ CurrentHasStarted' /\ OneInside'
  BY DEF Reset, OneBegun, Begun, OthersAreCancelled, CurrentHasStarted, OneInside
<1>2. CancelReaches'
  BY DEF Reset, Killed, Alive, CurrentHasStarted, CancelReaches
<1>3. IdleStaysIdle'
  BY DEF Reset, Killed, IdleStaysIdle, Alive
<1> QED
  BY <1>1, <1>2, <1>3

LEMMA ChainInvariant == ASSUME SerialSenders PROVE Spec => []ChainInv
<1>1. TaskInv /\ ChainInv /\ [Next]_vars => ChainInv'
  <2> SUFFICES ASSUME TaskInv, ChainInv, [Next]_vars PROVE ChainInv'
    OBVIOUS
  <2>1. ASSUME NEW c \in Chats, Pause(c) PROVE ChainInv'
    BY <2>1, ChainUnmoved DEF Pause, loop
  <2>2. CASE UNCHANGED vars
    BY <2>2, ChainUnmoved DEF vars
  <2> QED
    BY <2>1, <2>2, ChainSender, ChainLoop, ChainWorker, ChainReset DEF Next
<1> QED
  BY <1>1, ChainInvInit, TaskInvariant, PTL DEF Spec

\* As long as no two threads are inside communicate for one chat, its agent is
\* never worked by two coroutines at once, although a nudge starts the next
\* one while the killed one is still on the loop.
THEOREM OneChain == ASSUME SerialSenders PROVE Spec => []OneChainPerChat
<1>1. ChainInv => OneChainPerChat
  BY DEF ChainInv, OneBegun, Begun, OneChainPerChat, Working
<1> QED
  BY <1>1, ChainInvariant, PTL

-----------------------------------------------------------------------------
(* Every message is heard once at most.                                    *)

\* The arguments of a task are those of its latest start, so a run that begins
\* reads the message that started it.
ArgsAreCurrent == args = current
OwnMessage == \A r \in Messages : Begun(r) => msg[r] = r

\* Where a message can be before it is heard: with its sender, with a run that
\* has not started its chain, or as an intervention of its chat.
Unsent == \A m \in Messages : stage[m] # "sent" => heard[m] = 0
Waiting ==
    \A m \in Messages : phase[m] \in {"scheduled", "acquiring", "granted"} => heard[m] = 0
Intervening ==
    \A c \in Chats : intervention[c] # NoMsg =>
        LET m == intervention[c]
        IN  To[m] = c /\ stage[m] = "sent" /\ phase[m] = "none" /\ heard[m] = 0

HeardInv ==
    ArgsAreCurrent /\ OwnMessage /\ Unsent /\ Waiting /\ Intervening /\ HeardOnce

\* A step that adds nothing to the history, starts no run and sends no message.
LEMMA NothingHeard ==
    ASSUME TaskInv, HeardInv, UNCHANGED <<args, current, msg, heard>>,
           \A m \in Messages : stage'[m] = "sent" <=> stage[m] = "sent",
           \A m \in Messages :
               /\ phase'[m] = "none" <=> phase[m] = "none"
               /\ phase'[m] # "scheduled" \/ phase[m] = "scheduled"
               /\ phase'[m] \in {"acquiring", "granted"} => phase[m] \in {"acquiring", "granted"}
               /\ Begun(m)' => Begun(m),
           \A c \in Chats : intervention'[c] \in {intervention[c], NoMsg}
    PROVE  HeardInv'
<1> USE DEF HeardInv
<1>1. ArgsAreCurrent' /\ OwnMessage'
  BY DEF ArgsAreCurrent, OwnMessage
<1>2. Unsent' /\ Waiting' /\ HeardOnce'
  BY DEF Unsent, Waiting, HeardOnce
<1>3. Intervening'
  BY DEF Intervening, TaskInv, Typed
<1> QED
  BY <1>1, <1>2, <1>3

LEMMA HeardSender ==
    ASSUME TaskInv, HeardInv, NEW m \in Messages, SenderStep(m)
    PROVE  HeardInv'
<1>0. To[m] \in Chats /\ m # NoMsg
  BY MessageAssumption
<1>1. CASE See(m) \/ Nudge(m) \/ QueueAdd(m) \/ QueueSend(m)
  <2>1. \A x \in Messages : stage'[x] = "sent" <=> stage[x] = "sent"
    BY <1>1 DEF See, Nudge, QueueAdd, QueueSend, TaskInv, Typed
  <2>2. UNCHANGED <<args, current, msg, phase, heard, intervention>>
    BY <1>1 DEF See, Nudge, QueueAdd, QueueSend, loop, chat, record
  <2> QED
    BY <2>1, <2>2, NothingHeard DEF Begun
<1>2. CASE Intervene(m)
  <2>1. stage[m] # "sent" /\ phase[m] = "none" /\ heard[m] = 0
    BY <1>2 DEF Intervene, TaskInv, NothingBeforeSent, HeardInv, Unsent
  <2>2. /\ UNCHANGED <<args, current, msg, phase, heard>>
        /\ stage' = [stage EXCEPT ![m] = "sent"]
        /\ intervention' = intervention \/ intervention' = [intervention EXCEPT ![To[m]] = m]
    BY <1>2 DEF Intervene, loop, record
  <2>3. Unsent' /\ Waiting' /\ HeardOnce' /\ ArgsAreCurrent' /\ OwnMessage'
    BY <2>2 DEF HeardInv, Unsent, Waiting, HeardOnce, ArgsAreCurrent, OwnMessage, Begun, TaskInv, Typed
  <2>4. Intervening'
    BY <1>0, <2>1, <2>2 DEF HeardInv, Intervening, TaskInv, Typed
  <2> QED
    BY <2>3, <2>4 DEF HeardInv
<1>3. CASE StartTask(m)
  <2>1. stage[m] # "sent" /\ phase[m] = "none" /\ heard[m] = 0
    BY <1>3 DEF StartTask, TaskInv, NothingBeforeSent, HeardInv, Unsent
  <2>2. /\ UNCHANGED <<msg, heard, intervention>>
        /\ stage' = [stage EXCEPT ![m] = "sent"] /\ phase' = [phase EXCEPT ![m] = "scheduled"]
        /\ args' = [args EXCEPT ![To[m]] = m] /\ current' = [current EXCEPT ![To[m]] = m]
    BY <1>3 DEF StartTask, chat, record
  <2>3. ArgsAreCurrent' /\ OwnMessage'
    BY <2>2 DEF HeardInv, ArgsAreCurrent, OwnMessage, Begun, TaskInv, Typed
  <2>4. Unsent' /\ Waiting' /\ HeardOnce'
    BY <2>1, <2>2 DEF HeardInv, Unsent, Waiting, HeardOnce, TaskInv, Typed
  <2>5. Intervening'
    BY <2>1, <2>2 DEF HeardInv, Intervening, TaskInv, Typed
  <2> QED
    BY <2>3, <2>4, <2>5 DEF HeardInv
<1> QED
  BY <1>1, <1>2, <1>3 DEF SenderStep

\* A run begins with the message it was started with.
LEMMA HeardBegins ==
    ASSUME TaskInv, ChainInv, HeardInv, NEW r \in Messages, RunBegins(r)
    PROVE  HeardInv'
<1>1. r \notin cancelled /\ current[To[r]] = r
  BY MessageAssumption DEF RunBegins, ChainInv, CancelReaches, OthersAreCancelled
<1>2. args[To[r]] = r
  BY <1>1 DEF HeardInv, ArgsAreCurrent
<1>3. /\ UNCHANGED <<stage, args, current, heard, intervention>>
      /\ phase[r] = "scheduled" /\ phase' = [phase EXCEPT ![r] = "acquiring"]
      /\ msg' = [msg EXCEPT ![r] = r]
  BY <1>2 DEF RunBegins, chat, record
<1>4. ArgsAreCurrent' /\ Unsent' /\ HeardOnce'
  BY <1>3 DEF HeardInv, ArgsAreCurrent, Unsent, HeardOnce
<1>5. OwnMessage'
  BY <1>3 DEF HeardInv, OwnMessage, Begun, TaskInv, Typed
<1>6. Waiting'
  BY <1>3 DEF HeardInv, Waiting, TaskInv, Typed
<1>7. Intervening'
  BY <1>3 DEF HeardInv, Intervening, TaskInv, Typed
<1> QED
  BY <1>4, <1>5, <1>6, <1>7 DEF HeardInv

LEMMA HeardStarts ==
    ASSUME TaskInv, HeardInv, NEW r \in Messages, RunStarts(r)
    PROVE  HeardInv'
<1>1. phase[r] = "granted" /\ msg[r] = r /\ heard[r] = 0 /\ stage[r] = "sent"
  BY DEF RunStarts, HeardInv, OwnMessage, Begun, Waiting, TaskInv, NothingBeforeSent
<1>2. /\ UNCHANGED <<stage, args, current, msg, intervention>>
      /\ phase' = [phase EXCEPT ![r] = "loop"]
      /\ heard' = [heard EXCEPT ![r] = 1]
  <2>1. heard' = [heard EXCEPT ![r] = heard[r] + 1]
    BY <1>1 DEF RunStarts
  <2> QED
    BY <1>1, <2>1 DEF RunStarts, chat
<1>3. ArgsAreCurrent' /\ OwnMessage'
  BY <1>1, <1>2 DEF HeardInv, ArgsAreCurrent, OwnMessage, Begun, TaskInv, Typed
<1>4. Unsent' /\ Waiting'
  BY <1>1, <1>2 DEF HeardInv, Unsent, Waiting, TaskInv, Typed
<1>5. HeardOnce'
  BY <1>2 DEF HeardInv, HeardOnce, TaskInv, Typed
<1>6. Intervening'
  BY <1>1, <1>2 DEF HeardInv, Intervening, TaskInv, Typed
<1> QED
  BY <1>3, <1>4, <1>5, <1>6 DEF HeardInv

\* An intervention is taken by one run: no other chat has it, and no run was started with it.
LEMMA HeardTaken ==
    ASSUME TaskInv, HeardInv, NEW r \in Messages, HandleIntervention(r)
    PROVE  HeardInv'
<1> DEFINE c == To[r]
           m == intervention[c]
<1>0. c \in Chats
  BY MessageAssumption
<1>1. m # NoMsg /\ Pending(r) = m
  BY DEF HandleIntervention, Pending
<1>2. m \in Messages /\ To[m] = c /\ stage[m] = "sent" /\ phase[m] = "none" /\ heard[m] = 0
  BY <1>0, <1>1 DEF HeardInv, Intervening, TaskInv, Typed
<1>3. /\ UNCHANGED <<stage, args, current, msg>>
      /\ phase[r] = "loop" /\ phase' = [phase EXCEPT ![r] = "releasing"]
      /\ intervention' = [intervention EXCEPT ![c] = NoMsg]
      /\ heard' = [heard EXCEPT ![m] = 1]
  <2>1. heard' = [heard EXCEPT ![m] = heard[m] + 1]
    BY <1>1 DEF HandleIntervention
  <2>2. heard' = [heard EXCEPT ![m] = 1]
    BY <1>2, <2>1
  <2> QED
    BY <2>2 DEF HandleIntervention, Leave, Taken
<1> HIDE DEF m, c
<1>4. ArgsAreCurrent' /\ OwnMessage'
  BY <1>3 DEF HeardInv, ArgsAreCurrent, OwnMessage, Begun, TaskInv, Typed
<1>5. Unsent'
  BY <1>2, <1>3 DEF HeardInv, Unsent, TaskInv, Typed
<1>6. Waiting'
  BY <1>2, <1>3 DEF HeardInv, Waiting, TaskInv, Typed
<1>7. HeardOnce'
  BY <1>3 DEF HeardInv, HeardOnce, TaskInv, Typed
<1>8. Intervening'
  BY <1>0, <1>2, <1>3 DEF HeardInv, Intervening, TaskInv, Typed
<1> QED
  BY <1>4, <1>5, <1>6, <1>7, <1>8 DEF HeardInv

LEMMA HeardLoop ==
    ASSUME TaskInv, ChainInv, HeardInv, NEW r \in Messages, LoopStep(r)
    PROVE  HeardInv'
<1>1. CASE RunBegins(r) \/ RunStarts(r) \/ HandleIntervention(r)
  BY <1>1, HeardBegins, HeardStarts, HeardTaken
<1>2. ASSUME UNCHANGED <<stage, args, current, msg, heard, intervention>>,
             NEW p \in {"answering", "releasing", "ended"},
             UNCHANGED phase \/ phase' = [phase EXCEPT ![r] = p],
             phase[r] # "none", p = "answering" => Begun(r)
      PROVE  HeardInv'
  BY <1>2, NothingHeard DEF Begun, TaskInv, Typed
<1>3. CASE StillbornRun(r) \/ LastCheck(r) \/ Answer(r) \/ ChainFails(r)
  BY <1>2, <1>3 DEF StillbornRun, LastCheck, Answer, ChainFails, Leave, Begun, loop, chat, record
<1>4. CASE CancelDelivered(r)
  BY <1>2, <1>4 DEF CancelDelivered, CancelAtWork, CancelInPool, Leave, chat, record
<1>5. CASE CancelTooLate(r) \/ DelayedSend(r) \/ DelayedGivesUp(r)
  <2>1. \A m \in Messages : stage'[m] = "sent" <=> stage[m] = "sent"
    BY <1>5 DEF CancelTooLate, DelayedSend, DelayedGivesUp, Queued, TaskInv, Typed
  <2>2. UNCHANGED <<args, current, msg, phase, heard, intervention>>
    BY <1>5 DEF CancelTooLate, DelayedSend, DelayedGivesUp, chat, record
  <2> QED
    BY <2>1, <2>2, NothingHeard DEF Begun
<1> QED
  BY <1>1, <1>3, <1>4, <1>5 DEF LoopStep

LEMMA HeardWorker ==
    ASSUME TaskInv, HeardInv, NEW r \in Messages, WorkerStep(r)
    PROVE  HeardInv'
<1>1. UNCHANGED <<stage, args, current, msg, heard, intervention>>
  BY DEF WorkerStep, WorkerTakes, WorkerAcquires, WorkerReleases, loop, chat, record
<1>2. \/ UNCHANGED phase
      \/ phase[r] = "acquiring" /\ phase' = [phase EXCEPT ![r] = "granted"]
      \/ phase[r] = "releasing" /\ phase' = [phase EXCEPT ![r] = "ended"]
  BY DEF WorkerStep, WorkerTakes, WorkerAcquires, WorkerReleases, loop
<1> QED
  BY <1>1, <1>2, NothingHeard DEF Begun, TaskInv, Typed

\* No message enters the history twice: the message a run starts with is not also the
\* intervention of another, a run that was cancelled and the one that follows it do not
\* read the same arguments, and a queued message is handed over once.  Two threads inside
\* communicate for one chat break it (defer.py:110): TLC shows how.
THEOREM NoMessageTwice == ASSUME SerialSenders PROVE Spec => []HeardOnce
<1>1. Init => HeardInv
  BY DEF Init, HeardInv, ArgsAreCurrent, OwnMessage, Begun, Unsent, Waiting, Intervening, HeardOnce
<1>2. TaskInv /\ ChainInv /\ HeardInv /\ [Next]_vars => HeardInv'
  <2> SUFFICES ASSUME TaskInv, ChainInv, HeardInv, [Next]_vars PROVE HeardInv'
    OBVIOUS
  <2>1. ASSUME NEW c \in Chats, Reset(c) \/ Pause(c) PROVE HeardInv'
    <3>1. /\ UNCHANGED <<stage, args, current, phase, msg, heard>>
          /\ intervention' = intervention \/ intervention' = [intervention EXCEPT ![c] = NoMsg]
      BY <2>1 DEF Reset, Pause, loop, record
    <3> QED
      BY <3>1, NothingHeard DEF Begun, TaskInv, Typed
  <2>2. CASE UNCHANGED vars
    BY <2>2, NothingHeard DEF vars, Begun
  <2> QED
    BY <2>1, <2>2, HeardSender, HeardLoop, HeardWorker DEF Next
<1>3. HeardInv => HeardOnce
  BY DEF HeardInv
<1> QED
  BY <1>1, <1>2, <1>3, TaskInvariant, ChainInvariant, PTL DEF Spec
=============================================================================
