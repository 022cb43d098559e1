----------------------------- MODULE StateSync -----------------------------
(***************************************************************************)
(* One browser tab (webui/components/sync/sync-store.js and the sync part  *)
(* of webui/index.js) kept in step with the chat it shows by PushService,  *)
(* over a connection that may drop, with answers that may come too late    *)
(* and with /poll as the fallback.                                         *)
(*                                                                         *)
(* The tab is single-threaded; a step is the code between two awaits that  *)
(* wait for the outside. The awaits inside applySnapshot resolve in        *)
(* microtasks once extensions are loaded, so a snapshot is applied in one  *)
(* step. Socket.IO keeps the order of what one connection is sent; what a  *)
(* broken connection carried is lost, and a new connection is a new sid:   *)
(* PushService starts afresh, the logs stay.                               *)
(***************************************************************************)
EXTENDS PushService, Sequences

CONSTANTS
    Items,        \* message numbers of a chat
    AckFirst,     \* TRUE: a push never overtakes the answer to its state_request
    FailureLimit, \* _forceReconnectThreshold: 3
    MaxDrops, MaxTimeouts, MaxPolls, MaxSwitches   \* bounds of the environment

ASSUME SyncAssumption ==
    /\ AckFirst \in BOOLEAN /\ FailureLimit \in Nat \ {0}
    /\ MaxDrops \in Nat /\ MaxTimeouts \in Nat
    /\ MaxPolls \in Nat /\ MaxSwitches \in Nat

VARIABLES
    touched,   \* context -> the item each update of its log is about
    carried,   \* the contents of the draft's items
    wire,      \* to the tab: state_push events and answers, in order
    uplink,    \* to the server: state_requests
    answers,   \* answers of handled state_requests, not yet sent
    context,   \* the chat the tab shows
    cursor,    \* lastLogGuid and lastLogVersion
    shown,     \* item -> the log and the content on display
    mode, lastSeq, needsHandshake,
    failures,  \* _handshakeFailureCount
    retry,     \* _handshakeRetryTimer: "off", "request" or "reconnect"
    flight,    \* the state_request in flight
    queued,    \* _queuedPayload: {} or the context to ask for next
    poll,      \* the /poll request in flight
    calls,     \* state_requests sent so far
    spent      \* what the environment has done so far

serverVars == <<vars, touched, carried>>
channelVars == <<wire, uplink, answers>>
viewVars == <<context, cursor, shown>>
retryVars == <<needsHandshake, failures, retry>>
askVars == <<flight, queued, calls>>
tabVars == <<viewVars, mode, lastSeq, retryVars, askVars, poll>>
allVars == <<serverVars, channelVars, tabVars, spent>>

NoGuid == [context |-> NoContext, n |-> 0]    \* lastLogGuid = ""
Guid(c, n) == [context |-> c, n |-> n]
NoFlight == [id |-> 0, context |-> NoContext, sent |-> "no"]
NoPoll == [phase |-> "none", context |-> NoContext, from |-> 0,
           snap |-> NoSnapshot, items |-> [i \in Items |-> 0]]
Blank == [log |-> NoGuid, version |-> 0]
BlankPage == [i \in Items |-> Blank]

TypeOK ==
    /\ link \in {"new", "up"}
    /\ request = NoRequest \/ request \in Request
    /\ touched \in [Contexts -> Seq(Items)]
    /\ \A c \in Contexts : Len(touched[c]) = log[c].len
    /\ context \in Contexts \cup {NoContext}
    /\ mode \in {"DISCONNECTED", "HANDSHAKE_PENDING", "HEALTHY", "DEGRADED"}
    /\ lastSeq \in Nat /\ failures \in 0..(FailureLimit - 1)
    /\ retry \in {"off", "request", "reconnect"}
    /\ flight.sent \in {"no", "yes", "lost"}
    /\ queued = {} \/ \E c \in Contexts \cup {NoContext} : queued = {c}
    /\ poll.phase \in {"none", "asked", "output", "answered"}

SyncInit ==
    /\ Init
    /\ touched = [c \in Contexts |-> <<>>]
    /\ carried = [i \in Items |-> 0]
    /\ wire = <<>> /\ uplink = <<>> /\ answers = <<>>
    /\ context \in Contexts \cup {NoContext}
    /\ cursor = [guid |-> NoGuid, version |-> 0] /\ shown = BlankPage
    /\ mode = "DISCONNECTED" /\ lastSeq = 0
    /\ needsHandshake = FALSE /\ failures = 0 /\ retry = "off"
    /\ flight = NoFlight /\ queued = {} /\ calls = 0
    /\ poll = NoPoll
    /\ spent = [drops |-> 0, timeouts |-> 0, polls |-> 0, switches |-> 0]

Spend(what, max) ==
    /\ spent[what] < max
    /\ spent' = [spent EXCEPT ![what] = @ + 1]

-----------------------------------------------------------------------------
(* The server's side                                                       *)

\* The last update of item i among the first k updates of a log: its content.
Content(us, k, i) ==
    LET ks == {j \in 1..k : us[j] = i}
    IN  IF ks = {} THEN 0 ELSE CHOOSE j \in ks : \A l \in ks : l <= j

\* Log.output(start): the items the updates from start on are about, as they are now.
Output(c, from) ==
    [i \in Items |->
       IF c \in Contexts /\ \E j \in (from + 1)..LogEnd(c) : touched[c][j] = i
       THEN Content(touched[c], LogEnd(c), i) ELSE 0]

Write(c, i) ==
    /\ AppendUpdate(c)
    /\ touched' = [touched EXCEPT ![c] = @ \o <<i>>]
    /\ UNCHANGED <<carried, channelVars, tabVars, spent>>

Restart(c) ==
    /\ ResetLog(c)
    /\ touched' = [touched EXCEPT ![c] = <<>>]
    /\ UNCHANGED <<carried, channelVars, tabVars, spent>>

Construct ==
    /\ \/ Pick /\ UNCHANGED carried
       \/ Build /\ carried' = Output(draft.request.context, draft.request.log_from)
       \/ (Label \/ Commit \/ Discard) /\ UNCHANGED carried
    /\ UNCHANGED <<touched, channelVars, tabVars, spent>>

SendPush ==
    /\ AckFirst => answers = <<>>
    /\ Emit
    /\ wire' = wire \o <<[type |-> "push", seq |-> draft.seq, snap |-> draft.snap,
                          items |-> carried]>>
    /\ carried' = [i \in Items |-> 0]
    /\ UNCHANGED <<touched, uplink, answers, tabVars, spent>>

\* Every state_request asks for everything: all callers pass forceFull.
Handle ==
    /\ link = "up" /\ uplink # <<>>
    /\ Accept([context |-> Head(uplink).context, log_from |-> 0])
    /\ uplink' = Tail(uplink)
    /\ answers' = answers \o <<Head(uplink).id>>
    /\ UNCHANGED <<touched, carried, wire, tabVars, spent>>

SendAnswer ==
    /\ answers # <<>>
    /\ wire' = wire \o <<[type |-> "answer", id |-> Head(answers)]>>
    /\ answers' = Tail(answers)
    /\ UNCHANGED <<serverVars, uplink, tabVars, spent>>

-----------------------------------------------------------------------------
(* sendStateRequest: one request in flight, the latest other one queued    *)

Start(c) ==
    /\ calls' = calls + 1
    /\ flight' = [id |-> calls + 1, context |-> c, sent |-> "no"]
    /\ mode' = "HANDSHAKE_PENDING"

\* m is the mode the tab keeps when a request is in flight already. With forceFull
\* a request in flight for the same chat is as strong; another chat is queued.
QueueNothing(c) == queued
Queue(c) == IF c = flight.context THEN queued ELSE {c}

SendStateRequest(c, m) ==
    IF flight = NoFlight
    THEN Start(c) /\ UNCHANGED queued
    ELSE queued' = Queue(c) /\ mode' = m /\ UNCHANGED <<flight, calls>>

\* The finally block of a request that ended with mode m: the queued one starts.
EndRequest(m) ==
    /\ queued' = {}
    /\ IF queued = {}
       THEN flight' = NoFlight /\ mode' = m /\ UNCHANGED calls
       ELSE \E c \in queued : Start(c)

\* request() emits once connect() has resolved.
Transmit ==
    /\ link = "up" /\ flight # NoFlight /\ flight.sent = "no"
    /\ flight' = [flight EXCEPT !.sent = "yes"]
    /\ uplink' = uplink \o <<[id |-> flight.id, context |-> flight.context]>>
    /\ UNCHANGED <<serverVars, wire, answers, viewVars, mode, lastSeq, retryVars,
                   queued, calls, poll, spent>>

\* A request ends when its 2 s are over, also one whose connection broke under it.
WaitsForever == FALSE
BrokenRequestEnds == flight.sent = "lost"

\* Without an answer in time the tab is degraded and a retry is scheduled, every
\* FailureLimit-th one as a forced reconnect.
FailuresUnlimited == failures + 1
NextFailure == (failures + 1) % FailureLimit

HandshakeFails ==
    /\ flight # NoFlight
    /\ \/ BrokenRequestEnds /\ UNCHANGED spent
       \/ ~BrokenRequestEnds /\ Spend("timeouts", MaxTimeouts)
    /\ needsHandshake' = TRUE
    /\ failures' = NextFailure
    /\ retry' = IF retry = "off" /\ link = "up"
                THEN IF failures' = 0 THEN "reconnect" ELSE "request"
                ELSE retry
    /\ EndRequest(IF link = "up" THEN "DEGRADED" ELSE "DISCONNECTED")
    /\ UNCHANGED <<serverVars, channelVars, viewVars, lastSeq, poll>>

\* The socket goes away under the tab: onDisconnect, and a fresh sid on the other side.
Disconnect ==
    /\ link' = "new" /\ request' = NoRequest /\ seq' = 0 /\ owed' = FALSE
    /\ draft' = NoDraft /\ period' = 0 /\ last' = NoPush
    /\ carried' = [i \in Items |-> 0]
    /\ wire' = <<>> /\ uplink' = <<>> /\ answers' = <<>>
    /\ mode' = "DISCONNECTED" /\ needsHandshake' = TRUE /\ retry' = "off"
    /\ flight' = IF flight.sent = "yes" THEN [flight EXCEPT !.sent = "lost"] ELSE flight
    /\ UNCHANGED <<log, touched, viewVars, lastSeq, failures, queued, calls, poll>>

Drop ==
    /\ link = "up"
    /\ Spend("drops", MaxDrops)
    /\ Disconnect

RetryFires ==
    /\ retry # "off"
    /\ IF retry = "reconnect" /\ needsHandshake
       THEN Disconnect
       ELSE /\ retry' = "off"
            /\ IF needsHandshake THEN SendStateRequest(context, mode)
               ELSE UNCHANGED <<askVars, mode>>
            /\ UNCHANGED <<serverVars, channelVars, viewVars, lastSeq,
                           needsHandshake, failures, poll>>
    /\ UNCHANGED spent

\* onConnect always asks again, whatever the tab believes about its state.
OnConnectNoHandshake == mode' = mode /\ UNCHANGED askVars
OnConnect == SendStateRequest(context, mode)

Connect ==
    /\ Up
    /\ retry' = "off"
    /\ OnConnect
    /\ UNCHANGED <<touched, carried, channelVars, viewVars, lastSeq, needsHandshake,
                   failures, poll, spent>>

-----------------------------------------------------------------------------
(* applySnapshot                                                           *)

\* A snapshot of another chat is dropped; with no chat selected any is taken.
ForThisChat(snap) == snap.context = context \/ context = NoContext

SnapGuid(snap) == Guid(snap.context, snap.guid)

\* The log is another one than the one on display: it was reset.
WasReset(snap) == cursor.guid # NoGuid /\ cursor.guid # SnapGuid(snap)

SetMessages(snap, items) ==
    [i \in Items |-> IF items[i] = 0 THEN shown[i]
                     ELSE [log |-> Guid(snap.context, snap.of), version |-> items[i]]]

Apply(snap, items) ==
    LET known == IF cursor.guid = SnapGuid(snap) THEN cursor.version ELSE 0
    IN  /\ cursor' = [guid |-> SnapGuid(snap), version |-> snap.upto]
        /\ shown' = IF known # snap.upto THEN SetMessages(snap, items) ELSE shown

ClearForReset(snap) ==
    /\ cursor' = [guid |-> SnapGuid(snap), version |-> 0]
    /\ shown' = BlankPage

-----------------------------------------------------------------------------
(* What arrives from the server                                            *)

ReceiveAnswer ==
    /\ wire # <<>> /\ Head(wire).type = "answer"
    /\ wire' = Tail(wire)
    /\ IF flight # NoFlight /\ flight.id = Head(wire).id
       THEN /\ lastSeq' = SeqBase
            /\ needsHandshake' = FALSE /\ failures' = 0 /\ retry' = "off"
            /\ EndRequest("HEALTHY")
       ELSE UNCHANGED <<lastSeq, retryVars, askVars, mode>>
    /\ UNCHANGED <<serverVars, uplink, answers, viewVars, poll, spent>>

\* _handlePush. A gap in the sequence makes the tab ask for everything again.
AnySeq(n) == TRUE
InSequence(n) == lastSeq = 0 \/ n = lastSeq + 1

ReceivePush ==
    /\ wire # <<>> /\ Head(wire).type = "push"
    /\ wire' = Tail(wire)
    /\ LET m == Head(wire)
       IN  \/ /\ mode = "DEGRADED"
              /\ UNCHANGED <<lastSeq, cursor, shown, askVars, mode>>
           \/ /\ mode # "DEGRADED" /\ ~InSequence(m.seq)
              /\ SendStateRequest(context, "HANDSHAKE_PENDING")
              /\ UNCHANGED <<lastSeq, cursor, shown>>
           \/ /\ mode # "DEGRADED" /\ InSequence(m.seq)
              /\ lastSeq' = m.seq
              /\ \/ /\ ~ForThisChat(m.snap)
                    /\ mode' = "HEALTHY" /\ UNCHANGED <<cursor, shown, askVars>>
                 \/ /\ ForThisChat(m.snap) /\ WasReset(m.snap)
                    /\ ClearForReset(m.snap)
                    /\ SendStateRequest(context, "HEALTHY")
                 \/ /\ ForThisChat(m.snap) /\ ~WasReset(m.snap)
                    /\ Apply(m.snap, m.items)
                    /\ mode' = "HEALTHY" /\ UNCHANGED askVars
    /\ UNCHANGED <<serverVars, uplink, answers, context, retryVars, poll, spent>>

-----------------------------------------------------------------------------
(* The user, and the polling fallback                                      *)

\* setContext, also with null for deselectChat.
FreshCursor == [guid |-> NoGuid, version |-> 0]

SetContext(c) ==
    /\ c # context
    /\ Spend("switches", MaxSwitches)
    /\ context' = c /\ cursor' = FreshCursor /\ shown' = BlankPage
    /\ SendStateRequest(c, mode)
    /\ UNCHANGED <<serverVars, channelVars, lastSeq, retryVars, poll>>

AskPoll(from) == [NoPoll EXCEPT !.phase = "asked", !.context = context, !.from = from]

PollStart ==
    /\ mode = "DEGRADED" /\ poll = NoPoll
    /\ Spend("polls", MaxPolls)
    /\ poll' = AskPoll(cursor.version)
    /\ UNCHANGED <<serverVars, channelVars, viewVars, mode, lastSeq, retryVars, askVars>>

\* The Poll handler builds the snapshot as the push does: items, then the guid.
PollOutput ==
    /\ poll.phase = "asked"
    /\ poll' = [poll EXCEPT !.phase = "output",
                  !.items = Output(poll.context, poll.from),
                  !.snap = [NoSnapshot EXCEPT !.context = poll.context,
                              !.of = LogGuid(poll.context), !.from = poll.from,
                              !.upto = LogEnd(poll.context)]]
    /\ UNCHANGED <<serverVars, channelVars, viewVars, mode, lastSeq, retryVars, askVars, spent>>

PollLabel ==
    /\ poll.phase = "output"
    /\ poll' = [poll EXCEPT !.phase = "answered", !.snap.guid = LogGuid(poll.context)]
    /\ UNCHANGED <<serverVars, channelVars, viewVars, mode, lastSeq, retryVars, askVars, spent>>

\* poll() applies whatever comes back, whatever the mode has become meanwhile; a
\* success makes startPolling ask for a handshake unless it did so recently.
Kick ==
    \/ UNCHANGED <<askVars, mode>>
    \/ mode \in {"DEGRADED", "DISCONNECTED"} /\ SendStateRequest(context, mode)

PollAnswered ==
    /\ poll.phase = "answered"
    /\ \/ /\ ForThisChat(poll.snap) /\ WasReset(poll.snap)
          /\ ClearForReset(poll.snap)
          /\ poll' = AskPoll(0)
          /\ UNCHANGED <<askVars, mode>>
       \/ /\ ForThisChat(poll.snap) /\ ~WasReset(poll.snap)
          /\ Apply(poll.snap, poll.items)
          /\ poll' = NoPoll /\ Kick
       \/ /\ ~ForThisChat(poll.snap)
          /\ poll' = NoPoll /\ Kick /\ UNCHANGED <<cursor, shown>>
    /\ UNCHANGED <<serverVars, channelVars, context, lastSeq, retryVars, spent>>

\* The third failure in a row makes startPolling give up: it overwrites the mode.
PollFails ==
    /\ poll # NoPoll
    /\ poll' = NoPoll
    /\ mode' \in {mode, "DISCONNECTED"}
    /\ UNCHANGED <<serverVars, channelVars, viewVars, lastSeq, retryVars, askVars, spent>>

-----------------------------------------------------------------------------
(* The specification                                                       *)

ServerStep == Construct \/ SendPush \/ Handle \/ SendAnswer
TabStep ==
    \/ Transmit \/ RetryFires \/ Connect
    \/ ReceiveAnswer \/ ReceivePush \/ PollOutput \/ PollLabel \/ PollAnswered
    \/ BrokenRequestEnds /\ HandshakeFails

SyncNext ==
    \/ ServerStep \/ TabStep
    \/ \E c \in Contexts : Restart(c) \/ \E i \in Items : Write(c, i)
    \/ HandshakeFails \/ Drop
    \/ \E c \in Contexts \cup {NoContext} : SetContext(c)
    \/ PollStart \/ PollFails

SyncSpec == SyncInit /\ [][SyncNext]_allVars

\* The server and the tab do what is theirs to do; the network, the user and the
\* agents may stop at any time.
SyncFairSpec ==
    /\ SyncSpec
    /\ WF_allVars(Construct) /\ WF_allVars(SendPush)
    /\ WF_allVars(Handle) /\ WF_allVars(SendAnswer)
    /\ WF_allVars(Transmit) /\ WF_allVars(RetryFires) /\ WF_allVars(Connect)
    /\ WF_allVars(ReceiveAnswer) /\ WF_allVars(ReceivePush)
    /\ WF_allVars(PollOutput) /\ WF_allVars(PollLabel) /\ WF_allVars(PollAnswered)
    /\ WF_allVars(BrokenRequestEnds /\ HandshakeFails)

-----------------------------------------------------------------------------
(* Properties                                                              *)

\* The tab shows every message of its chat with its latest content, and nothing else.
Latest(i) ==
    IF context \in Contexts /\ Content(touched[context], log[context].len, i) # 0
    THEN [log |-> Guid(context, log[context].guid),
          version |-> Content(touched[context], log[context].len, i)]
    ELSE Blank

InSync == \A i \in Items : shown[i] = Latest(i)

\* Nothing is under way anywhere and no debt is left: nothing will change by itself.
Quiet ==
    /\ link = "up" /\ ~owed /\ draft = NoDraft
    /\ wire = <<>> /\ uplink = <<>> /\ answers = <<>>
    /\ flight = NoFlight /\ retry = "off" /\ poll = NoPoll

\* When everything has come to rest, the tab shows its chat exactly: no message is
\* missing or stale although requests, pushes, timeouts and reconnects interleave.
QuietMeansInSync == Quiet => InSync

\* When everything has come to rest, the server pushes the chat the tab shows: of
\* several switches during a handshake the last one wins.
QuietMeansSubscribed == Quiet => request # NoRequest /\ request.context = context

\* A message on display never falls back to an older content: only a push or a
\* poll answer that knows more replaces it.
NeverStale ==
    [][\A i \in Items :
         (shown'[i].log = shown[i].log /\ shown[i] # Blank)
           => shown'[i].version >= shown[i].version]_allVars

\* Once the environment leaves it alone, the tab ends up in step and stays there.
EventuallyInSync == <>[]InSync

\* No resync storm: gaps, resets, timeouts and forced reconnects answer each other
\* only so often, and everything comes to rest.
ComesToRest == <>[]Quiet
=============================================================================
