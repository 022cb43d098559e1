------------------------- MODULE StateSyncProofs -------------------------
(***************************************************************************)
(* What holds of the browser tab and the service it is connected to, for   *)
(* any chats, messages and bounds: the state is typed; with at most one    *)
(* chat switch the chat asked for last is the chat on display; and if the  *)
(* connection may break, but nothing else disturbs the tab, what has come  *)
(* to rest is in step. Each hypothesis of the last theorem is needed: TLC  *)
(* refutes it without any one of them.                                     *)
(***************************************************************************)
EXTENDS StateSync, WellFoundedInduction, TLAPS

-----------------------------------------------------------------------------
(* Types: everything a step may copy from one place to another             *)

Chats == Contexts \cup {NoContext}
Modes == {"DISCONNECTED", "HANDSHAKE_PENDING", "HEALTHY", "DEGRADED"}
Guids == [context : Chats, n : Nat]
Snapshot == [context : Chats, of : Nat, guid : Nat, from : Nat, upto : Nat]
Page == [Items -> Nat]
PushMsg == [type : {"push"}, seq : Nat, snap : Snapshot, items : Page]
AnswerMsg == [type : {"answer"}, id : Nat]
Ask == [id : Nat, context : Chats]
Flight == [id : Nat, context : Chats, sent : {"no", "yes", "lost"}]
Poll == [phase : {"none", "asked", "output", "answered"}, context : Chats, from : Nat,
         snap : Snapshot, items : Page]
Draft == [phase : {"none", "read", "output", "built", "emit"}, request : Request \cup {NoRequest},
          snap : Snapshot, seq : Nat, period : Nat]

LogTyped ==
    /\ log \in [Contexts -> [guid : Nat, len : Nat]]
    /\ touched \in [Contexts -> Seq(Items)]
    /\ \A c \in Contexts : Len(touched[c]) = log[c].len
ServerTyped ==
    /\ link \in {"new", "up"} /\ request \in Request \cup {NoRequest}
    /\ seq \in Nat /\ period \in Nat /\ owed \in BOOLEAN
    /\ draft \in Draft /\ carried \in Page
    /\ draft.phase # "none" => draft.request \in Request
    /\ draft.phase = "none" => draft = NoDraft
ChannelTyped == wire \in Seq(PushMsg \cup AnswerMsg) /\ uplink \in Seq(Ask) /\ answers \in Seq(Nat)
ViewTyped ==
    /\ context \in Chats /\ cursor \in [guid : Guids, version : Nat]
    /\ shown \in [Items -> [log : Guids, version : Nat]]
TabTyped ==
    /\ mode \in Modes /\ lastSeq \in Nat
    /\ needsHandshake \in BOOLEAN /\ failures \in 0..(FailureLimit - 1)
    /\ retry \in {"off", "request", "reconnect"}
AskTyped ==
    /\ flight \in Flight /\ calls \in Nat
    /\ queued = {} \/ \E c \in Chats : queued = {c}
PollTyped == poll \in Poll
SpentTyped == spent \in [{"drops", "timeouts", "polls", "switches"} -> Nat]

TypeInv ==
    /\ LogTyped /\ ServerTyped /\ ChannelTyped /\ ViewTyped
    /\ TabTyped /\ AskTyped /\ PollTyped /\ SpentTyped

-----------------------------------------------------------------------------
(* The last update of an item                                              *)

(* A set of naturals with a member has a least one.                                 *)
LEMMA NatMinimum ==
    ASSUME NEW S \in SUBSET Nat, S # {}
    PROVE  \E m \in S : \A n \in S : m <= n
<1>1. PICK m \in S : \A y \in Nat : <<y, m>> \in OpToRel(<, Nat) => y \notin S
  BY NatLessThanWellFounded, WFMin, Zenon
<1>2. ASSUME NEW y \in Nat, y < m PROVE y \notin S
  <2>1. <<y, m>> \in OpToRel(<, Nat)
    BY <1>2, Zenon DEF OpToRel
  <2> QED
    BY <1>1, <2>1
<1>3. \A n \in S : m <= n
  BY <1>2
<1> QED
  BY <1>3

LEMMA NotEmpty ==
    ASSUME NEW S, NEW q \in Seq(S), q # <<>>
    PROVE  /\ Len(q) \in Nat /\ Len(q) >= 1
           /\ Head(q) = q[1] /\ q[1] \in S /\ q[Len(q)] \in S
           /\ Tail(q) \in Seq(S) /\ Len(Tail(q)) = Len(q) - 1
           /\ \A j \in 1..(Len(q) - 1) : Tail(q)[j] = q[j + 1]
OBVIOUS

(* Content finds the last of the updates that are about the item.                   *)
LEMMA ContentIsLast ==
    ASSUME NEW us, NEW k \in Nat, NEW i,
           NEW j \in 1..k, us[j] = i
    PROVE  /\ Content(us, k, i) \in 1..k /\ us[Content(us, k, i)] = i
           /\ \A l \in 1..k : us[l] = i => l <= Content(us, k, i)
<1> DEFINE ks == {l \in 1..k : us[l] = i}
           above == {n \in Nat : \A l \in ks : l <= n}
<1>1. k \in above /\ above \in SUBSET Nat
  OBVIOUS
<1>2. PICK m \in above : \A n \in above : m <= n
  BY <1>1, NatMinimum
<1>3. m \in ks
  <2>1. m \in Nat /\ \A l \in ks : l <= m
    BY <1>2
  <2>2. SUFFICES ASSUME m \notin ks PROVE FALSE
    OBVIOUS
  <2>3. j \in ks /\ j <= m /\ m >= 1
    BY <2>1
  <2>4. \A l \in ks : l <= m - 1
    BY <2>1, <2>2
  <2>5. m - 1 \in above
    BY <2>3, <2>4
  <2> QED
    BY <1>2, <2>1, <2>5
<1>4. \A l \in ks : l <= m
  BY <1>2
<1>5. \E n \in ks : \A l \in ks : l <= n
  BY <1>3, <1>4
<1>6. ks # {} /\ Content(us, k, i) = CHOOSE n \in ks : \A l \in ks : l <= n
  BY <1>3 DEF Content
<1>7. /\ Content(us, k, i) \in ks
      /\ \A l \in ks : l <= Content(us, k, i)
  BY <1>5, <1>6
<1> QED
  BY <1>7

LEMMA NoContent ==
    ASSUME NEW us, NEW k \in Nat, NEW i, \A j \in 1..k : us[j] # i
    PROVE  Content(us, k, i) = 0
BY DEF Content

LEMMA ContentBound ==
    ASSUME NEW us, NEW k \in Nat, NEW i PROVE Content(us, k, i) \in 0..k
<1>1. CASE \E j \in 1..k : us[j] = i
  BY <1>1, ContentIsLast
<1>2. CASE \A j \in 1..k : us[j] # i
  BY <1>2, NoContent
<1> QED
  BY <1>1, <1>2

LEMMA SameUpdates ==
    ASSUME NEW us, NEW vs, NEW k, NEW u, NEW i,
           {j \in 1..k : us[j] = i} = {j \in 1..u : vs[j] = i}
    PROVE  Content(us, k, i) = Content(vs, u, i)
<1> DEFINE Last(ks) == IF ks = {} THEN 0 ELSE CHOOSE j \in ks : \A l \in ks : l <= j
<1>1. /\ Content(us, k, i) = Last({j \in 1..k : us[j] = i})
      /\ Content(vs, u, i) = Last({j \in 1..u : vs[j] = i})
  BY DEF Content
<1> HIDE DEF Last
<1> QED
  BY <1>1

(* An update that is appended changes nothing about those before it.                *)
LEMMA ContentAppend ==
    ASSUME NEW us \in Seq(Items), NEW x \in Items, NEW k \in 0..Len(us), NEW i
    PROVE  Content(us \o <<x>>, k, i) = Content(us, k, i)
<1> DEFINE vs == us \o <<x>>
<1>1. {j \in 1..k : vs[j] = i} = {j \in 1..k : us[j] = i}
  OBVIOUS
<1> HIDE DEF vs
<1>2. Content(vs, k, i) = Content(us, k, i)
  BY <1>1, SameUpdates
<1> QED
  BY <1>2 DEF vs

(* Updates that are not about the item leave its content alone.                     *)
LEMMA ContentKept ==
    ASSUME NEW us, NEW k \in Nat, NEW u \in Nat, k <= u, NEW i,
           \A j \in (k + 1)..u : us[j] # i
    PROVE  Content(us, u, i) = Content(us, k, i)
<1>1. {j \in 1..u : us[j] = i} = {j \in 1..k : us[j] = i}
  OBVIOUS
<1> QED
  BY <1>1, SameUpdates

LEMMA ContentMonotone ==
    ASSUME NEW us, NEW k \in Nat, NEW u \in Nat, k <= u, NEW i
    PROVE  Content(us, k, i) <= Content(us, u, i)
<1>1. Content(us, k, i) \in 0..k /\ Content(us, u, i) \in 0..u
  BY ContentBound
<1>2. CASE \E j \in 1..k : us[j] = i
  <2>1. Content(us, k, i) \in 1..k /\ us[Content(us, k, i)] = i
    BY <1>2, ContentIsLast
  <2>2. Content(us, k, i) \in 1..u
    BY <2>1
  <2> QED
    BY <2>1, <2>2, ContentIsLast
<1>3. CASE \A j \in 1..k : us[j] # i
  BY <1>1, <1>3, NoContent
<1> QED
  BY <1>2, <1>3

LEMMA OutputTyped ==
    ASSUME LogTyped, NEW c \in Chats, NEW from \in Nat
    PROVE  Output(c, from) \in Page
<1>1. ASSUME NEW i \in Items, c \in Contexts
      PROVE  LogEnd(c) \in Nat /\ Content(touched[c], LogEnd(c), i) \in Nat
  <2>1. LogEnd(c) \in Nat
    BY <1>1 DEF LogTyped, LogEnd
  <2> QED
    BY <2>1, ContentBound
<1> QED
  BY <1>1 DEF Output, Page

LEMMA LogNumbers ==
    ASSUME LogTyped, NEW c \in Chats PROVE LogEnd(c) \in Nat /\ LogGuid(c) \in Nat
BY DEF LogTyped, LogEnd, LogGuid

-----------------------------------------------------------------------------
(* The typed state                                                         *)

LEMMA EmptyTyped ==
    /\ NoSnapshot \in Snapshot /\ NoDraft \in Draft /\ NoPoll \in Poll /\ NoFlight \in Flight
    /\ Blank \in [log : Guids, version : Nat] /\ BlankPage \in [Items -> [log : Guids, version : Nat]]
    /\ NoGuid \in Guids /\ [i \in Items |-> 0] \in Page
    /\ \A c \in Chats, n \in Nat : Guid(c, n) \in Guids
<1>1. NoSnapshot \in Snapshot /\ NoGuid \in Guids /\ [i \in Items |-> 0] \in Page
  BY DEF NoSnapshot, Snapshot, NoGuid, Guids, Page, Chats
<1>2. NoDraft \in Draft /\ NoPoll \in Poll /\ NoFlight \in Flight
  BY <1>1 DEF NoDraft, Draft, NoPoll, Poll, NoFlight, Flight, Chats
<1>3. Blank \in [log : Guids, version : Nat]
  BY <1>1 DEF Blank
<1>4. BlankPage \in [Items -> [log : Guids, version : Nat]]
  BY <1>3 DEF BlankPage
<1> QED
  BY <1>1, <1>2, <1>3, <1>4 DEF Guid, Guids

LEMMA FailureLimitFacts ==
    /\ 0 \in 0..(FailureLimit - 1)
    /\ \A n \in Nat : (n + 1) % FailureLimit \in 0..(FailureLimit - 1)
BY SyncAssumption

LEMMA TypeInvInit == SyncInit => TypeInv
<1> SUFFICES ASSUME SyncInit PROVE TypeInv
  OBVIOUS
<1>1. /\ NoDraft \in Draft /\ NoDraft.phase = "none" /\ NoPoll \in Poll /\ NoFlight \in Flight
      /\ NoGuid \in Guids /\ BlankPage \in [Items -> [log : Guids, version : Nat]]
      /\ [i \in Items |-> 0] \in Page
  BY EmptyTyped DEF NoDraft
<1>2. LogTyped
  <2>1. log = [c \in Contexts |-> [guid |-> 0, len |-> 0]] /\ touched = [c \in Contexts |-> <<>>]
    BY DEF SyncInit, Init
  <2> QED
    BY <2>1 DEF LogTyped
<1>3. ServerTyped
  BY <1>1 DEF SyncInit, Init, ServerTyped
<1>4. ChannelTyped
  BY DEF SyncInit, ChannelTyped
<1>5. ViewTyped
  BY <1>1 DEF SyncInit, ViewTyped, Chats
<1>6. TabTyped
  BY FailureLimitFacts DEF SyncInit, TabTyped, Modes
<1>7. AskTyped /\ PollTyped
  BY <1>1 DEF SyncInit, AskTyped, PollTyped
<1>8. SpentTyped
  BY DEF SyncInit, SpentTyped
<1> QED
  BY <1>2, <1>3, <1>4, <1>5, <1>6, <1>7, <1>8 DEF TypeInv

LEMMA SendStateRequestTyped ==
    ASSUME AskTyped, NEW c \in Chats, NEW m \in Modes, SendStateRequest(c, m)
    PROVE  AskTyped' /\ mode' \in Modes
<1>1. CASE flight = NoFlight
  BY <1>1 DEF SendStateRequest, Start, AskTyped, Flight, Modes
<1>2. CASE flight # NoFlight
  BY <1>2 DEF SendStateRequest, Queue, AskTyped, Modes
<1> QED
  BY <1>1, <1>2

LEMMA EndRequestTyped ==
    ASSUME AskTyped, NEW m \in Modes, EndRequest(m)
    PROVE  AskTyped' /\ mode' \in Modes
<1>1. CASE queued = {}
  BY <1>1, EmptyTyped DEF EndRequest, AskTyped
<1>2. CASE queued # {}
  <2>1. PICK c \in queued : Start(c)
    BY <1>2 DEF EndRequest
  <2>2. c \in Chats
    BY <1>2 DEF AskTyped
  <2> QED
    BY <2>1, <2>2 DEF EndRequest, Start, AskTyped, Flight, Modes
<1> QED
  BY <1>1, <1>2

LEMMA SnapshotApplied ==
    ASSUME ViewTyped, NEW snap \in Snapshot, NEW items \in Page, UNCHANGED context,
           Apply(snap, items) \/ ClearForReset(snap)
    PROVE  ViewTyped'
<1> USE DEF ViewTyped
<1>1. SnapGuid(snap) \in Guids /\ snap.upto \in Nat /\ Guid(snap.context, snap.of) \in Guids
  BY EmptyTyped DEF SnapGuid, Snapshot
<1>2. CASE Apply(snap, items)
  <2>1. cursor' = [guid |-> SnapGuid(snap), version |-> snap.upto]
    BY <1>2 DEF Apply
  <2>2. SetMessages(snap, items) \in [Items -> [log : Guids, version : Nat]]
    BY <1>1 DEF SetMessages, Page
  <2>3. shown' = shown \/ shown' = SetMessages(snap, items)
    BY <1>2 DEF Apply
  <2> QED
    BY <1>1, <2>1, <2>2, <2>3
<1>3. CASE ClearForReset(snap)
  BY <1>1, <1>3, EmptyTyped DEF ClearForReset
<1> QED
  BY <1>2, <1>3

LEMMA DisconnectTyped ==
    ASSUME TypeInv, Disconnect
    PROVE  /\ LogTyped' /\ ServerTyped' /\ ChannelTyped' /\ ViewTyped'
           /\ TabTyped' /\ AskTyped' /\ PollTyped'
<1> USE DEF TypeInv, Disconnect
<1>1. LogTyped' /\ ViewTyped' /\ PollTyped'
  BY DEF LogTyped, ViewTyped, PollTyped, viewVars
<1>2. ServerTyped'
  BY EmptyTyped DEF ServerTyped, NoDraft
<1>3. ChannelTyped' /\ TabTyped'
  BY DEF ChannelTyped, TabTyped, Modes
<1>4. AskTyped'
  BY DEF AskTyped, Flight
<1> QED
  BY <1>1, <1>2, <1>3, <1>4

(* What an action leaves alone keeps its type.                                      *)
LEMMA TypedFrame ==
    /\ LogTyped /\ UNCHANGED <<log, touched>> => LogTyped'
    /\ ServerTyped /\ UNCHANGED <<link, request, seq, owed, draft, period, carried>> => ServerTyped'
    /\ ChannelTyped /\ UNCHANGED channelVars => ChannelTyped'
    /\ ViewTyped /\ UNCHANGED viewVars => ViewTyped'
    /\ TabTyped /\ UNCHANGED <<mode, lastSeq, retryVars>> => TabTyped'
    /\ AskTyped /\ UNCHANGED askVars => AskTyped'
    /\ PollTyped /\ UNCHANGED poll => PollTyped'
    /\ SpentTyped /\ UNCHANGED spent => SpentTyped'
<1>1. LogTyped /\ UNCHANGED <<log, touched>> => LogTyped'
  BY DEF LogTyped
<1>2. ServerTyped /\ UNCHANGED <<link, request, seq, owed, draft, period, carried>> => ServerTyped'
  BY DEF ServerTyped
<1>3. ChannelTyped /\ UNCHANGED channelVars => ChannelTyped'
  BY DEF ChannelTyped, channelVars
<1>4. ViewTyped /\ UNCHANGED viewVars => ViewTyped'
  BY DEF ViewTyped, viewVars
<1>5. TabTyped /\ UNCHANGED <<mode, lastSeq, retryVars>> => TabTyped'
  BY DEF TabTyped, retryVars
<1>6. AskTyped /\ UNCHANGED askVars => AskTyped'
  BY DEF AskTyped, askVars
<1>7. /\ PollTyped /\ UNCHANGED poll => PollTyped'
      /\ SpentTyped /\ UNCHANGED spent => SpentTyped'
  BY DEF PollTyped, SpentTyped
<1> QED
  BY <1>1, <1>2, <1>3, <1>4, <1>5, <1>6, <1>7

LEMMA SpendTyped ==
    ASSUME SpentTyped, NEW what \in {"drops", "timeouts", "polls", "switches"}, NEW max,
           Spend(what, max)
    PROVE  SpentTyped'
BY DEF Spend, SpentTyped

(* The server's side of a step.                                                     *)
LEMMA ServerTypeStep ==
    ASSUME TypeInv,
           ServerStep \/ \E c \in Contexts : Restart(c) \/ \E i \in Items : Write(c, i)
    PROVE  TypeInv'
<1> USE DEF TypeInv
<1>1. ASSUME NEW c \in Contexts, NEW i \in Items, Write(c, i) PROVE TypeInv'
  <2>1. /\ log' = [log EXCEPT ![c].len = @ + 1] /\ owed' = (owed \/ Shows(c))
        /\ UNCHANGED <<link, request, seq, draft, period>>
        /\ touched' = [touched EXCEPT ![c] = @ \o <<i>>]
        /\ UNCHANGED <<carried, channelVars, tabVars, spent>>
    BY <1>1 DEF Write, AppendUpdate
  <2>2. LogTyped'
    <3>1. log[c] \in [guid : Nat, len : Nat] /\ touched[c] \in Seq(Items) /\ Len(touched[c]) = log[c].len
      BY DEF LogTyped
    <3>2. /\ touched[c] \o <<i>> \in Seq(Items)
          /\ Len(touched[c] \o <<i>>) = log[c].len + 1
          /\ [log[c] EXCEPT !.len = @ + 1] \in [guid : Nat, len : Nat]
          /\ [log[c] EXCEPT !.len = @ + 1].len = log[c].len + 1
      BY <3>1
    <3>3. /\ log' = [log EXCEPT ![c] = [log[c] EXCEPT !.len = @ + 1]]
          /\ touched' = [touched EXCEPT ![c] = touched[c] \o <<i>>]
      BY <2>1
    <3> HIDE DEF TypeInv
    <3> QED
      BY <3>2, <3>3 DEF LogTyped, TypeInv
  <2>3. ServerTyped'
    BY <2>1 DEF ServerTyped, Shows
  <2> QED
    BY <2>1, <2>2, <2>3, TypedFrame DEF tabVars
<1>2. ASSUME NEW c \in Contexts, Restart(c) PROVE TypeInv'
  <2>1. /\ log' = [log EXCEPT ![c] = [guid |-> @.guid + 1, len |-> 0]] /\ owed' = (owed \/ Shows(c))
        /\ UNCHANGED <<link, request, seq, draft, period>>
        /\ touched' = [touched EXCEPT ![c] = <<>>]
        /\ UNCHANGED <<carried, channelVars, tabVars, spent>>
    BY <1>2 DEF Restart, ResetLog
  <2>2. LogTyped'
    <3>1. [guid |-> log[c].guid + 1, len |-> 0] \in [guid : Nat, len : Nat]
      BY DEF LogTyped
    <3>2. log' = [log EXCEPT ![c] = [guid |-> log[c].guid + 1, len |-> 0]]
      BY <2>1
    <3> QED
      BY <2>1, <3>1, <3>2 DEF LogTyped
  <2>3. ServerTyped'
    BY <2>1 DEF ServerTyped, Shows
  <2> QED
    BY <2>1, <2>2, <2>3, TypedFrame DEF tabVars
<1>3. ASSUME Construct PROVE TypeInv'
  <2>1. UNCHANGED <<touched, log, link, period, channelVars, tabVars, spent>>
    BY <1>3 DEF Construct, Pick, Build, Label, Commit, Discard
  <2>2. CASE Pick /\ UNCHANGED carried
    <3>1. draft' = [NoDraft EXCEPT !.phase = "read", !.request = request] /\ UNCHANGED <<subVars, carried>>
      BY <2>2 DEF Pick
    <3>2. request \in Request
      BY <2>2 DEF Pick, ServerTyped
    <3>3. draft' \in Draft /\ draft'.phase = "read" /\ draft'.request = request
      BY <3>1, <3>2, EmptyTyped DEF NoDraft, Draft
    <3>4. ServerTyped'
      BY <2>1, <3>1, <3>2, <3>3 DEF ServerTyped, subVars
    <3> QED
      BY <2>1, <3>4, TypedFrame DEF tabVars
  <2>3. CASE Build /\ carried' = Output(draft.request.context, draft.request.log_from)
    <3> DEFINE r == draft.request
    <3>1. /\ draft.phase = "read" /\ UNCHANGED subVars
          /\ draft' = [draft EXCEPT !.phase = "output",
                        !.snap = [NoSnapshot EXCEPT !.context = r.context, !.of = LogGuid(r.context),
                                    !.from = r.log_from, !.upto = LogEnd(r.context)]]
      BY <2>3 DEF Build
    <3>2. draft \in Draft /\ r \in Request /\ r.context \in Chats /\ r.log_from \in Nat
      BY <3>1 DEF ServerTyped, Request, Chats
    <3>3. carried' \in Page /\ LogGuid(r.context) \in Nat /\ LogEnd(r.context) \in Nat
      BY <2>3, <3>2, OutputTyped, LogNumbers
    <3>4. draft' \in Draft /\ draft'.phase = "output" /\ draft'.request = r
      BY <3>1, <3>2, <3>3 DEF NoSnapshot, Draft, Snapshot
    <3>5. ServerTyped'
      BY <2>1, <3>1, <3>2, <3>3, <3>4 DEF ServerTyped, subVars
    <3> QED
      BY <2>1, <3>5, TypedFrame DEF tabVars
  <2>4. CASE Label /\ UNCHANGED carried
    <3>1. /\ draft.phase = "output" /\ UNCHANGED <<subVars, carried>>
          /\ draft' = [draft EXCEPT !.phase = "built", !.snap.guid = LogGuid(draft.snap.context)]
      BY <2>4 DEF Label
    <3>2. draft \in Draft /\ draft.snap \in Snapshot /\ draft.snap.context \in Chats /\ draft.request \in Request
      BY <3>1 DEF ServerTyped, Draft, Snapshot
    <3>3. LogGuid(draft.snap.context) \in Nat
      BY <3>2, LogNumbers
    <3>4. draft' \in Draft /\ draft'.phase = "built" /\ draft'.request = draft.request
      BY <3>1, <3>2, <3>3 DEF Draft, Snapshot
    <3>5. ServerTyped'
      BY <2>1, <3>1, <3>2, <3>4 DEF ServerTyped, subVars
    <3> QED
      BY <2>1, <3>5, TypedFrame DEF tabVars
  <2>5. CASE Commit /\ UNCHANGED carried
    <3>1. /\ draft.phase = "built" /\ request = draft.request
          /\ request' = [request EXCEPT !.log_from = draft.snap.upto]
          /\ seq' = seq + 1 /\ owed' \in BOOLEAN
          /\ draft' = [draft EXCEPT !.phase = "emit", !.seq = seq + 1, !.period = period]
      BY <2>5 DEF Commit
    <3>2. draft \in Draft /\ draft.snap.upto \in Nat /\ request \in Request /\ seq \in Nat /\ period \in Nat
      BY <3>1 DEF ServerTyped, Draft, Snapshot
    <3>3. request' \in Request
      BY <3>1, <3>2 DEF Request
    <3>4. draft' \in Draft /\ draft'.phase = "emit" /\ draft'.request = draft.request
      <4>1. draft' = [draft EXCEPT !.phase = "emit", !.seq = seq + 1, !.period = period]
        BY <3>1
      <4>2. draft \in Draft /\ seq + 1 \in Nat /\ period \in Nat
        BY <3>2
      <4> HIDE DEF TypeInv
      <4> QED
        BY <4>1, <4>2 DEF Draft
    <3>5. ServerTyped'
      BY <2>1, <2>5, <3>1, <3>2, <3>3, <3>4 DEF ServerTyped
    <3> QED
      BY <2>1, <3>5, TypedFrame DEF tabVars
  <2>6. CASE Discard /\ UNCHANGED carried
    <3>1. ServerTyped'
      BY <2>1, <2>6, EmptyTyped DEF Discard, ServerTyped, subVars, NoDraft
    <3> QED
      BY <2>1, <3>1, TypedFrame DEF tabVars
  <2> QED
    BY <1>3, <2>2, <2>3, <2>4, <2>5, <2>6 DEF Construct
<1>4. ASSUME SendPush PROVE TypeInv'
  <2> DEFINE m == [type |-> "push", seq |-> draft.seq, snap |-> draft.snap, items |-> carried]
  <2>1. /\ draft' = NoDraft /\ wire' = wire \o <<m>> /\ carried' = [i \in Items |-> 0]
        /\ UNCHANGED <<link, subVars, log, period, touched, uplink, answers, tabVars, spent>>
    BY <1>4 DEF SendPush, Emit
  <2>2. m \in PushMsg
    BY DEF ServerTyped, Draft, PushMsg
  <2>3. ChannelTyped'
    BY <2>1, <2>2 DEF ChannelTyped
  <2>4. ServerTyped'
    BY <2>1, EmptyTyped DEF ServerTyped, subVars, NoDraft
  <2> QED
    BY <2>1, <2>3, <2>4, TypedFrame DEF tabVars
<1>5. ASSUME Handle PROVE TypeInv'
  <2>1. /\ uplink # <<>> /\ uplink' = Tail(uplink) /\ answers' = answers \o <<Head(uplink).id>>
        /\ request' = [context |-> Head(uplink).context, log_from |-> 0]
        /\ seq' = 1 /\ owed' = TRUE /\ period' = period + 1
        /\ UNCHANGED <<link, draft, log, touched, carried, wire, tabVars, spent>>
    BY <1>5 DEF Handle, Accept, SeqBase
  <2>2. Head(uplink) \in Ask
    BY <2>1 DEF ChannelTyped
  <2>3. ChannelTyped'
    BY <2>1, <2>2 DEF ChannelTyped, Ask
  <2>4. ServerTyped'
    BY <2>1, <2>2 DEF ServerTyped, Ask, Request, Chats
  <2> QED
    BY <2>1, <2>3, <2>4, TypedFrame DEF tabVars
<1>6. ASSUME SendAnswer PROVE TypeInv'
  <2>1. /\ answers # <<>> /\ wire' = wire \o <<[type |-> "answer", id |-> Head(answers)]>>
        /\ answers' = Tail(answers) /\ UNCHANGED <<serverVars, uplink, tabVars, spent>>
    BY <1>6 DEF SendAnswer
  <2>2. [type |-> "answer", id |-> Head(answers)] \in AnswerMsg
    BY <2>1 DEF ChannelTyped, AnswerMsg
  <2>3. ChannelTyped'
    BY <2>1, <2>2 DEF ChannelTyped
  <2> QED
    BY <2>1, <2>3, TypedFrame DEF tabVars, serverVars, vars, subVars
<1> QED
  BY <1>1, <1>2, <1>3, <1>4, <1>5, <1>6 DEF ServerStep

(* The tab's side of a step.                                                        *)
LEMMA ModesTyped == /\ "DISCONNECTED" \in Modes /\ "HANDSHAKE_PENDING" \in Modes
                    /\ "HEALTHY" \in Modes /\ "DEGRADED" \in Modes
BY DEF Modes

LEMMA AskStepTyped ==
    ASSUME TypeInv, SendStateRequest(context, mode) \/ UNCHANGED <<askVars, mode>>
    PROVE  AskTyped' /\ mode' \in Modes
<1>1. AskTyped /\ context \in Chats /\ mode \in Modes
  BY DEF TypeInv, ViewTyped, TabTyped
<1>2. CASE SendStateRequest(context, mode)
  BY <1>1, <1>2, SendStateRequestTyped
<1>3. CASE UNCHANGED <<askVars, mode>>
  BY <1>1, <1>3, TypedFrame
<1> QED
  BY <1>2, <1>3

LEMMA RequestTypeStep ==
    ASSUME TypeInv, Transmit \/ RetryFires \/ Connect \/ HandshakeFails \/ Drop
    PROVE  TypeInv'
<1> USE DEF TypeInv
<1>1. CASE Transmit
  <2>1. /\ flight' = [flight EXCEPT !.sent = "yes"] /\ UNCHANGED <<queued, calls>>
        /\ uplink' = uplink \o <<[id |-> flight.id, context |-> flight.context]>>
        /\ UNCHANGED <<serverVars, wire, answers, viewVars, mode, lastSeq, retryVars, poll, spent>>
    BY <1>1 DEF Transmit
  <2>2. AskTyped'
    BY <2>1 DEF AskTyped, Flight
  <2>3. ChannelTyped'
    BY <2>1 DEF ChannelTyped, AskTyped, Flight, Ask
  <2> QED
    BY <2>1, <2>2, <2>3, TypedFrame DEF serverVars, vars, subVars
<1>2. CASE RetryFires
  <2>1. CASE Disconnect
    BY <1>2, <2>1, DisconnectTyped, TypedFrame DEF RetryFires
  <2>2. CASE ~Disconnect
    <3>1. /\ retry' = "off" /\ UNCHANGED <<serverVars, channelVars, viewVars, lastSeq,
                                             needsHandshake, failures, poll, spent>>
          /\ SendStateRequest(context, mode) \/ UNCHANGED <<askVars, mode>>
      BY <1>2, <2>2 DEF RetryFires
    <3>2. AskTyped' /\ mode' \in Modes
      BY <3>1, AskStepTyped
    <3>3. TabTyped'
      BY <3>1, <3>2 DEF TabTyped
    <3> QED
      BY <3>1, <3>2, <3>3, TypedFrame DEF serverVars, vars, subVars
  <2> QED
    BY <2>1, <2>2
<1>3. CASE Connect
  <2>1. /\ link' = "up" /\ retry' = "off"
        /\ UNCHANGED <<subVars, draft, log, period>>
        /\ UNCHANGED <<touched, carried, channelVars, viewVars, lastSeq, needsHandshake,
                       failures, poll, spent>>
        /\ SendStateRequest(context, mode)
    BY <1>3 DEF Connect, Up, OnConnect
  <2>2. AskTyped' /\ mode' \in Modes
    BY <2>1, AskStepTyped
  <2>3. TabTyped'
    BY <2>1, <2>2 DEF TabTyped
  <2>4. ServerTyped'
    BY <2>1 DEF ServerTyped, subVars
  <2> QED
    BY <2>1, <2>2, <2>3, <2>4, TypedFrame
<1>4. CASE HandshakeFails
  <2> DEFINE m == IF link = "up" THEN "DEGRADED" ELSE "DISCONNECTED"
  <2>1. /\ needsHandshake' = TRUE /\ failures' = (failures + 1) % FailureLimit
        /\ retry' \in {retry, "reconnect", "request"} /\ EndRequest(m)
        /\ UNCHANGED <<serverVars, channelVars, viewVars, lastSeq, poll>>
    BY <1>4 DEF HandshakeFails, NextFailure
  <2>2. AskTyped' /\ mode' \in Modes
    BY <2>1, ModesTyped, EndRequestTyped
  <2>3. TabTyped'
    <3>1. failures' \in 0..(FailureLimit - 1)
      BY <2>1, FailureLimitFacts DEF TabTyped
    <3> QED
      BY <2>1, <2>2, <3>1 DEF TabTyped
  <2>4. SpentTyped'
    BY <1>4, SpendTyped, TypedFrame DEF HandshakeFails
  <2> QED
    BY <2>1, <2>2, <2>3, <2>4, TypedFrame DEF serverVars, vars, subVars
<1>5. CASE Drop
  BY <1>5, DisconnectTyped, SpendTyped DEF Drop
<1> QED
  BY <1>1, <1>2, <1>3, <1>4, <1>5

LEMMA ReceiveTypeStep ==
    ASSUME TypeInv, ReceiveAnswer \/ ReceivePush
    PROVE  TypeInv'
<1> USE DEF TypeInv
<1>1. CASE ReceiveAnswer
  <2>1. /\ wire # <<>> /\ wire' = Tail(wire)
        /\ UNCHANGED <<serverVars, uplink, answers, viewVars, poll, spent>>
        /\ \/ /\ lastSeq' = 1 /\ needsHandshake' = FALSE /\ failures' = 0 /\ retry' = "off"
              /\ EndRequest("HEALTHY")
           \/ UNCHANGED <<lastSeq, retryVars, askVars, mode>>
    BY <1>1 DEF ReceiveAnswer, SeqBase
  <2>2. ChannelTyped'
    BY <2>1 DEF ChannelTyped
  <2>3. AskTyped' /\ mode' \in Modes
    BY <2>1, ModesTyped, EndRequestTyped, TypedFrame DEF TabTyped
  <2>4. TabTyped'
    <3>1. CASE UNCHANGED <<lastSeq, retryVars, askVars, mode>>
      BY <3>1, TypedFrame
    <3>2. CASE lastSeq' = 1 /\ needsHandshake' = FALSE /\ failures' = 0 /\ retry' = "off"
      BY <2>3, <3>2, FailureLimitFacts DEF TabTyped
    <3> QED
      BY <2>1, <3>1, <3>2
  <2> QED
    BY <2>1, <2>2, <2>3, <2>4, TypedFrame DEF serverVars, vars, subVars
<1>2. CASE ReceivePush
  <2> DEFINE m == Head(wire)
  <2>1. /\ wire # <<>> /\ m.type = "push" /\ wire' = Tail(wire)
        /\ UNCHANGED <<serverVars, uplink, answers, context, retryVars, poll, spent>>
    BY <1>2 DEF ReceivePush
  <2>2. ChannelTyped'
    BY <2>1 DEF ChannelTyped
  <2>3. m \in PushMsg
    BY <2>1 DEF ChannelTyped, AnswerMsg
  <2>4. m.seq \in Nat /\ m.snap \in Snapshot /\ m.items \in Page
    BY <2>3 DEF PushMsg
  <2>5. /\ lastSeq' \in {lastSeq, m.seq}
        /\ \/ UNCHANGED <<cursor, shown>>
           \/ ClearForReset(m.snap) \/ Apply(m.snap, m.items)
        /\ \/ UNCHANGED <<askVars, mode>>
           \/ mode' = "HEALTHY" /\ UNCHANGED askVars
           \/ SendStateRequest(context, "HANDSHAKE_PENDING") \/ SendStateRequest(context, "HEALTHY")
    BY <1>2 DEF ReceivePush
  <2>6. AskTyped' /\ mode' \in Modes
    <3>1. context \in Chats /\ mode \in Modes /\ AskTyped
      BY DEF ViewTyped, TabTyped
    <3> QED
      BY <2>5, <3>1, ModesTyped, SendStateRequestTyped, TypedFrame
  <2>7. TabTyped'
    BY <2>1, <2>4, <2>5, <2>6 DEF TabTyped, retryVars
  <2>8. ViewTyped'
    <3>1. CASE UNCHANGED <<cursor, shown>>
      BY <2>1, <3>1, TypedFrame DEF viewVars
    <3>2. CASE ClearForReset(m.snap) \/ Apply(m.snap, m.items)
      BY <2>1, <2>4, <3>2, SnapshotApplied
    <3> QED
      BY <2>5, <3>1, <3>2
  <2> QED
    BY <2>1, <2>2, <2>6, <2>7, <2>8, TypedFrame DEF serverVars, vars, subVars
<1> QED
  BY <1>1, <1>2

LEMMA UserTypeStep ==
    ASSUME TypeInv,
           \/ \E c \in Contexts \cup {NoContext} : SetContext(c)
           \/ PollStart \/ PollOutput \/ PollLabel \/ PollAnswered \/ PollFails
    PROVE  TypeInv'
<1> USE DEF TypeInv
<1>0. \A n \in Nat : AskPoll(n) \in Poll
  BY EmptyTyped DEF AskPoll, NoPoll, Poll, ViewTyped
<1>1. ASSUME NEW c \in Contexts \cup {NoContext}, SetContext(c) PROVE TypeInv'
  <2>1. /\ Spend("switches", MaxSwitches)
        /\ context' = c /\ cursor' = [guid |-> NoGuid, version |-> 0] /\ shown' = BlankPage
        /\ SendStateRequest(c, mode)
        /\ UNCHANGED <<serverVars, channelVars, lastSeq, retryVars, poll>>
    BY <1>1 DEF SetContext, FreshCursor
  <2>2. c \in Chats /\ mode \in Modes
    BY DEF Chats, TabTyped
  <2>3. AskTyped' /\ mode' \in Modes
    BY <2>1, <2>2, SendStateRequestTyped
  <2>4. ViewTyped'
    BY <2>1, <2>2, EmptyTyped DEF ViewTyped
  <2>5. TabTyped'
    BY <2>1, <2>3 DEF TabTyped, retryVars
  <2>6. SpentTyped'
    BY <2>1, SpendTyped
  <2> QED
    BY <2>1, <2>3, <2>4, <2>5, <2>6, TypedFrame DEF serverVars, vars, subVars
<1>2. CASE PollStart
  <2>1. /\ Spend("polls", MaxPolls) /\ poll' = AskPoll(cursor.version)
        /\ UNCHANGED <<serverVars, channelVars, viewVars, mode, lastSeq, retryVars, askVars>>
    BY <1>2 DEF PollStart
  <2>2. PollTyped' /\ SpentTyped'
    BY <2>1, <1>0, SpendTyped DEF PollTyped, ViewTyped
  <2> QED
    BY <2>1, <2>2, TypedFrame DEF serverVars, vars, subVars
<1>3. CASE PollOutput
  <2>1. /\ poll' = [poll EXCEPT !.phase = "output",
                      !.items = Output(poll.context, poll.from),
                      !.snap = [NoSnapshot EXCEPT !.context = poll.context,
                                  !.of = LogGuid(poll.context), !.from = poll.from,
                                  !.upto = LogEnd(poll.context)]]
        /\ UNCHANGED <<serverVars, channelVars, viewVars, mode, lastSeq, retryVars, askVars, spent>>
    BY <1>3 DEF PollOutput
  <2>2. poll \in Poll /\ poll.context \in Chats /\ poll.from \in Nat
    BY DEF PollTyped, Poll
  <2>3. /\ Output(poll.context, poll.from) \in Page
        /\ LogGuid(poll.context) \in Nat /\ LogEnd(poll.context) \in Nat
    BY <2>2, OutputTyped, LogNumbers
  <2>4. PollTyped'
    BY <2>1, <2>2, <2>3 DEF PollTyped, Poll, NoSnapshot, Snapshot
  <2> QED
    BY <2>1, <2>4, TypedFrame DEF serverVars, vars, subVars
<1>4. CASE PollLabel
  <2>1. /\ poll' = [poll EXCEPT !.phase = "answered", !.snap.guid = LogGuid(poll.context)]
        /\ UNCHANGED <<serverVars, channelVars, viewVars, mode, lastSeq, retryVars, askVars, spent>>
    BY <1>4 DEF PollLabel
  <2>2. poll \in Poll /\ poll.context \in Chats
    BY DEF PollTyped, Poll
  <2>3. LogGuid(poll.context) \in Nat
    BY <2>2, LogNumbers
  <2>4. PollTyped'
    BY <2>1, <2>2, <2>3 DEF PollTyped, Poll, Snapshot
  <2> QED
    BY <2>1, <2>4, TypedFrame DEF serverVars, vars, subVars
<1>5. CASE PollAnswered
  <2>1. /\ \/ UNCHANGED <<cursor, shown>>
           \/ ClearForReset(poll.snap) \/ Apply(poll.snap, poll.items)
        /\ poll' \in {NoPoll, AskPoll(0)}
        /\ SendStateRequest(context, mode) \/ UNCHANGED <<askVars, mode>>
        /\ UNCHANGED <<serverVars, channelVars, context, lastSeq, retryVars, spent>>
    BY <1>5 DEF PollAnswered, Kick
  <2>2. AskTyped' /\ mode' \in Modes
    BY <2>1, AskStepTyped
  <2>3. TabTyped'
    BY <2>1, <2>2 DEF TabTyped, retryVars
  <2>4. poll.snap \in Snapshot /\ poll.items \in Page
    BY DEF PollTyped, Poll
  <2>5. ViewTyped'
    <3>1. CASE UNCHANGED <<cursor, shown>>
      BY <2>1, <3>1, TypedFrame DEF viewVars
    <3>2. CASE ClearForReset(poll.snap) \/ Apply(poll.snap, poll.items)
      BY <2>1, <2>4, <3>2, SnapshotApplied
    <3> QED
      BY <2>1, <3>1, <3>2
  <2>6. PollTyped'
    BY <2>1, <1>0, EmptyTyped DEF PollTyped
  <2> QED
    BY <2>1, <2>2, <2>3, <2>5, <2>6, TypedFrame DEF serverVars, vars, subVars
<1>6. CASE PollFails
  <2>1. /\ poll' = NoPoll /\ mode' \in {mode, "DISCONNECTED"}
        /\ UNCHANGED <<serverVars, channelVars, viewVars, lastSeq, retryVars, askVars, spent>>
    BY <1>6 DEF PollFails
  <2>2. TabTyped' /\ PollTyped'
    BY <2>1, ModesTyped, EmptyTyped DEF TabTyped, PollTyped, retryVars
  <2> QED
    BY <2>1, <2>2, TypedFrame DEF serverVars, vars, subVars
<1> QED
  BY <1>1, <1>2, <1>3, <1>4, <1>5, <1>6

LEMMA TypeInvStep == TypeInv /\ [SyncNext]_allVars => TypeInv'
<1> SUFFICES ASSUME TypeInv, [SyncNext]_allVars PROVE TypeInv'
  OBVIOUS
<1>1. CASE ServerStep \/ \E c \in Contexts : Restart(c) \/ \E i \in Items : Write(c, i)
  BY <1>1, ServerTypeStep
<1>2. CASE Transmit \/ RetryFires \/ Connect \/ HandshakeFails \/ Drop
  BY <1>2, RequestTypeStep
<1>3. CASE ReceiveAnswer \/ ReceivePush
  BY <1>3, ReceiveTypeStep
<1>4. CASE \/ \E c \in Contexts \cup {NoContext} : SetContext(c)
           \/ PollStart \/ PollOutput \/ PollLabel \/ PollAnswered \/ PollFails
  BY <1>4, UserTypeStep
<1>5. CASE UNCHANGED allVars
  BY <1>5, TypedFrame
     DEF TypeInv, allVars, serverVars, vars, subVars, tabVars
<1> QED
  BY <1>1, <1>2, <1>3, <1>4, <1>5 DEF SyncNext, TabStep

\* The state of the tab, the connection and the service is typed throughout: the
\* record of the items each update of a log is about has the log's length, and no
\* more than one request is queued.
THEOREM TypeCorrect == SyncSpec => []TypeOK
<1>1. TypeInv => TypeOK
  <2> SUFFICES ASSUME TypeInv PROVE TypeOK
    OBVIOUS
  <2> USE DEF TypeInv
  <2>1. link \in {"new", "up"} /\ (request = NoRequest \/ request \in Request)
    BY DEF ServerTyped
  <2>2. touched \in [Contexts -> Seq(Items)] /\ \A c \in Contexts : Len(touched[c]) = log[c].len
    BY DEF LogTyped
  <2>3. context \in Contexts \cup {NoContext}
    BY DEF ViewTyped, Chats
  <2>4. /\ mode \in {"DISCONNECTED", "HANDSHAKE_PENDING", "HEALTHY", "DEGRADED"}
        /\ lastSeq \in Nat /\ failures \in 0..(FailureLimit - 1)
        /\ retry \in {"off", "request", "reconnect"}
    BY DEF TabTyped, Modes
  <2>5. /\ flight.sent \in {"no", "yes", "lost"}
        /\ queued = {} \/ \E c \in Contexts \cup {NoContext} : queued = {c}
    BY DEF AskTyped, Flight, Chats
  <2>6. poll.phase \in {"none", "asked", "output", "answered"}
    BY DEF PollTyped, Poll
  <2> QED
    BY <2>1, <2>2, <2>3, <2>4, <2>5, <2>6 DEF TypeOK
<1> QED
  BY <1>1, TypeInvInit, TypeInvStep, PTL DEF SyncSpec

-----------------------------------------------------------------------------
(* The chat asked for last is the chat on display                          *)

(* A connection that is not there carries nothing.                                  *)
NothingOnTheWay == uplink = <<>> /\ answers = <<>> /\ wire = <<>>
DownIsEmpty == link # "up" => NothingOnTheWay /\ request = NoRequest /\ draft = NoDraft

(* The requests under way, from the tab to the server and back as answers, are      *)
(* none newer than call n.                                                          *)
UnderWayUpTo(n) ==
    /\ \A j \in 1..Len(uplink) : uplink[j].id <= n
    /\ \A j \in 1..Len(answers) : answers[j] <= n
    /\ \A j \in 1..Len(wire) : wire[j].type = "answer" => wire[j].id <= n

(* The request in flight is the latest call, and only once it was transmitted is it *)
(* under way.                                                                       *)
FlightIsLatest ==
    /\ flight # NoFlight => flight.id = calls /\ calls > 0
    /\ flight.sent = "yes" => link = "up"
    /\ UnderWayUpTo(calls)
    /\ flight # NoFlight /\ flight.sent # "yes" => UnderWayUpTo(calls - 1)

(* The chat to ask for next, or the one the request in flight is for, is on display.*)
QueuedIsShown ==
    /\ queued \in {{}, {context}}
    /\ spent.switches = 0 => queued = {}
    /\ flight = NoFlight => queued = {}
    /\ flight # NoFlight /\ queued = {} => flight.context = context

RetryAsks == retry # "off" => needsHandshake

(* The last request the server has seen or will see is for chat c.                  *)
AskedFor(c) ==
    IF uplink # <<>> THEN uplink[Len(uplink)].context = c
    ELSE request # NoRequest /\ request.context = c

LastAskIsKnown ==
    /\ flight.sent = "yes" => AskedFor(flight.context)
    /\ link = "up" /\ flight = NoFlight /\ retry = "off" => AskedFor(context)

SubscribedInv ==
    /\ DownIsEmpty /\ FlightIsLatest
    /\ QueuedIsShown /\ RetryAsks /\ LastAskIsKnown

LEMMA SubscribedInvInit == SyncInit => SubscribedInv
<1> SUFFICES ASSUME SyncInit PROVE SubscribedInv
  OBVIOUS
<1>1. /\ link = "new" /\ request = NoRequest /\ draft = NoDraft
      /\ wire = <<>> /\ uplink = <<>> /\ answers = <<>> /\ retry = "off"
      /\ flight = NoFlight /\ queued = {} /\ calls = 0
  BY DEF SyncInit, Init
<1>2. DownIsEmpty /\ RetryAsks
  BY <1>1 DEF DownIsEmpty, NothingOnTheWay, RetryAsks
<1>3. FlightIsLatest
  BY <1>1 DEF FlightIsLatest, UnderWayUpTo, NoFlight
<1>4. QueuedIsShown /\ LastAskIsKnown
  BY <1>1 DEF QueuedIsShown, LastAskIsKnown, NoFlight
<1> QED
  BY <1>2, <1>3, <1>4 DEF SubscribedInv

(* Moving on changes no id, and what the server takes from the uplink it remembers. *)
LEMMA UnderWayMoves ==
    ASSUME ChannelTyped, NEW n \in Int, UnderWayUpTo(n),
           \/ UNCHANGED channelVars
           \/ SendPush \/ Handle \/ SendAnswer
           \/ wire # <<>> /\ wire' = Tail(wire) /\ UNCHANGED <<uplink, answers>>
    PROVE  UnderWayUpTo(n)'
<1>0. wire \in Seq(PushMsg \cup AnswerMsg) /\ uplink \in Seq(Ask) /\ answers \in Seq(Nat)
  BY DEF ChannelTyped
<1>1. CASE UNCHANGED channelVars
  BY <1>1 DEF UnderWayUpTo, channelVars
<1>2. CASE SendPush
  <2> DEFINE m == [type |-> "push", seq |-> draft.seq, snap |-> draft.snap, items |-> carried]
  <2>1. wire' = wire \o <<m>> /\ m.type = "push" /\ UNCHANGED <<uplink, answers>>
    BY <1>2 DEF SendPush
  <2> HIDE DEF m
  <2> QED
    BY <1>0, <2>1 DEF UnderWayUpTo
<1>3. CASE Handle
  <2>1. /\ uplink # <<>> /\ uplink' = Tail(uplink) /\ answers' = answers \o <<Head(uplink).id>>
        /\ UNCHANGED wire
    BY <1>3 DEF Handle
  <2>2. Head(uplink).id <= n
    BY <1>0, <2>1 DEF UnderWayUpTo
  <2>3. \A j \in 1..Len(uplink') : uplink'[j].id <= n
    BY <1>0, <2>1 DEF UnderWayUpTo
  <2>4. \A j \in 1..Len(answers') : answers'[j] <= n
    <3> DEFINE a == Head(uplink).id
    <3> HIDE DEF a
    <3>1. answers' = answers \o <<a>> /\ a <= n
      BY <2>1, <2>2 DEF a
    <3> QED
      BY <1>0, <3>1 DEF UnderWayUpTo
  <2> QED
    BY <2>1, <2>3, <2>4 DEF UnderWayUpTo
<1>4. CASE SendAnswer
  <2> DEFINE m == [type |-> "answer", id |-> Head(answers)]
  <2>1. answers # <<>> /\ wire' = wire \o <<m>> /\ answers' = Tail(answers) /\ UNCHANGED uplink
    BY <1>4 DEF SendAnswer
  <2>2. m.id <= n
    BY <1>0, <2>1 DEF UnderWayUpTo
  <2>3. \A j \in 1..Len(answers') : answers'[j] <= n
    BY <1>0, <2>1 DEF UnderWayUpTo
  <2>4. \A j \in 1..Len(wire') : wire'[j].type = "answer" => wire'[j].id <= n
    <3> HIDE DEF m
    <3> QED
      BY <1>0, <2>1, <2>2 DEF UnderWayUpTo
  <2> QED
    BY <2>1, <2>3, <2>4 DEF UnderWayUpTo
<1>5. CASE wire # <<>> /\ wire' = Tail(wire) /\ UNCHANGED <<uplink, answers>>
  BY <1>0, <1>5 DEF UnderWayUpTo
<1> QED
  BY <1>1, <1>2, <1>3, <1>4, <1>5

LEMMA UnderWayMonotone ==
    ASSUME ChannelTyped, NEW m \in Int, NEW n \in Int, m <= n, UnderWayUpTo(m)
    PROVE  UnderWayUpTo(n)
<1>0. wire \in Seq(PushMsg \cup AnswerMsg) /\ uplink \in Seq(Ask) /\ answers \in Seq(Nat)
  BY DEF ChannelTyped
<1>1. \A j \in 1..Len(uplink) : uplink[j].id <= n
  <2> SUFFICES ASSUME NEW j \in 1..Len(uplink) PROVE uplink[j].id <= n
    OBVIOUS
  <2>1. uplink[j] \in Ask
    BY <1>0
  <2>2. uplink[j].id <= m
    BY DEF UnderWayUpTo
  <2>3. uplink[j].id \in Nat
    BY <2>1 DEF Ask
  <2> QED
    BY <2>2, <2>3
<1>2. \A j \in 1..Len(answers) : answers[j] <= n
  BY <1>0 DEF UnderWayUpTo
<1>3. \A j \in 1..Len(wire) : wire[j].type = "answer" => wire[j].id <= n
  <2> SUFFICES ASSUME NEW j \in 1..Len(wire), wire[j].type = "answer" PROVE wire[j].id <= n
    OBVIOUS
  <2>1. wire[j].id \in Nat
    BY <1>0 DEF PushMsg, AnswerMsg
  <2>2. wire[j].id <= m
    BY DEF UnderWayUpTo
  <2> QED
    BY <2>1, <2>2
<1> QED
  BY <1>1, <1>2, <1>3 DEF UnderWayUpTo

LEMMA StartIsFlight == \A c : \A n \in Nat : [id |-> n + 1, context |-> c, sent |-> "no"] # NoFlight
<1>1. \A n \in Nat : n + 1 # 0
  OBVIOUS
<1> QED
  BY <1>1 DEF NoFlight

(* A request starts, ends or goes on while those under way move on.                 *)
LEMMA FlightStep ==
    ASSUME TypeInv, FlightIsLatest, link = "up" => link' = "up",
           \/ UNCHANGED channelVars
           \/ SendPush \/ Handle \/ SendAnswer
           \/ wire # <<>> /\ wire' = Tail(wire) /\ UNCHANGED <<uplink, answers>>,
           \/ UNCHANGED <<flight, calls>>
           \/ flight' = NoFlight /\ UNCHANGED calls
           \/ /\ calls' = calls + 1
              /\ \E c \in Chats : flight' = [id |-> calls + 1, context |-> c, sent |-> "no"]
    PROVE  FlightIsLatest'
<1>0. calls \in Nat /\ calls' \in Nat /\ ChannelTyped
  BY DEF TypeInv, AskTyped
<1>1. ASSUME NEW m \in Int, NEW n \in Int, UnderWayUpTo(m), m <= n PROVE UnderWayUpTo(n)'
  <2>1. UnderWayUpTo(n)
    BY <1>0, <1>1, UnderWayMonotone
  <2> QED
    BY <1>0, <2>1, UnderWayMoves
<1>2. UnderWayUpTo(calls) /\ (flight # NoFlight /\ flight.sent # "yes" => UnderWayUpTo(calls - 1))
  BY DEF FlightIsLatest
<1>3. \A n \in Int : n >= calls => UnderWayUpTo(n)'
  BY <1>0, <1>1, <1>2
<1>4. UnderWayUpTo(calls)'
  <2>1. calls' \in Int /\ calls' >= calls
    BY <1>0
  <2>2. \A n \in Int : n = calls' => UnderWayUpTo(n)'
    BY <1>3, <2>1
  <2> QED
    BY <2>1, <2>2 DEF UnderWayUpTo
<1>5. CASE UNCHANGED <<flight, calls>>
  <2>1. flight # NoFlight /\ flight.sent # "yes" => UnderWayUpTo(calls - 1)'
    <3>1. \A n \in Int : flight # NoFlight /\ flight.sent # "yes" /\ n = calls - 1 => UnderWayUpTo(n)'
      BY <1>0, <1>1, <1>2
    <3>2. calls' - 1 \in Int /\ calls' - 1 = calls - 1
      BY <1>0, <1>5
    <3> QED
      BY <3>1, <3>2 DEF UnderWayUpTo
  <2> QED
    BY <1>4, <1>5, <2>1 DEF FlightIsLatest
<1>6. CASE flight' = NoFlight
  BY <1>4, <1>6 DEF FlightIsLatest, NoFlight
<1>7. CASE /\ calls' = calls + 1
           /\ \E c \in Chats : flight' = [id |-> calls + 1, context |-> c, sent |-> "no"]
  <2>1. UnderWayUpTo(calls - 1)'
    <3>1. calls' - 1 \in Int /\ calls' - 1 >= calls
      BY <1>0, <1>7
    <3>2. \A n \in Int : n = calls' - 1 => UnderWayUpTo(n)'
      BY <1>3, <3>1
    <3> QED
      BY <3>1, <3>2 DEF UnderWayUpTo
  <2>2. flight'.id = calls' /\ calls' > 0 /\ flight'.sent = "no"
    BY <1>0, <1>7
  <2> QED
    BY <1>4, <2>1, <2>2 DEF FlightIsLatest
<1> QED
  BY <1>5, <1>6, <1>7

(* What the server does moves requests on and keeps the chat asked for last.        *)
LEMMA SubscribedServerStep ==
    ASSUME TypeInv, SubscribedInv,
           ServerStep \/ \E c \in Contexts : Restart(c) \/ \E i \in Items : Write(c, i)
    PROVE  SubscribedInv'
<1>0. /\ DownIsEmpty /\ FlightIsLatest /\ QueuedIsShown /\ RetryAsks /\ LastAskIsKnown
      /\ ChannelTyped /\ ServerTyped
      /\ wire \in Seq(PushMsg \cup AnswerMsg) /\ uplink \in Seq(Ask) /\ answers \in Seq(Nat)
  BY DEF SubscribedInv, TypeInv, ChannelTyped
<1>1. UNCHANGED <<tabVars, spent, link>>
  BY DEF ServerStep, Construct, SendPush, Handle, SendAnswer, Restart, Write, Pick, Build, Label,
         Commit, Discard, Emit, Accept, ResetLog, AppendUpdate, serverVars, vars
<1>2. UNCHANGED channelVars \/ SendPush \/ Handle \/ SendAnswer
  BY DEF ServerStep, Construct, Restart, Write
<1>3. QueuedIsShown' /\ RetryAsks'
  BY <1>0, <1>1 DEF QueuedIsShown, RetryAsks, tabVars, askVars, viewVars, retryVars
<1>4. FlightIsLatest'
  BY <1>0, <1>1, <1>2, FlightStep DEF tabVars, askVars
<1>5. DownIsEmpty'
  <2>1. CASE link = "up"
    BY <1>1, <2>1 DEF DownIsEmpty
  <2>2. CASE link # "up"
    <3>1. request = NoRequest /\ draft = NoDraft /\ uplink = <<>> /\ answers = <<>> /\ wire = <<>>
      BY <1>0, <2>2 DEF DownIsEmpty, NothingOnTheWay
    <3>2. \E c \in Contexts : Restart(c) \/ \E i \in Items : Write(c, i)
      BY <3>1 DEF ServerStep, Construct, SendPush, Handle, SendAnswer, Pick, Build, Label, Commit,
                  Discard, Emit, NoDraft
    <3>3. UNCHANGED <<request, draft, channelVars>>
      BY <3>2 DEF Restart, Write, ResetLog, AppendUpdate
    <3> QED
      BY <1>0, <1>1, <3>3 DEF DownIsEmpty, NothingOnTheWay, channelVars
  <2> QED
    BY <2>1, <2>2
<1>6. ASSUME NEW c, AskedFor(c) PROVE AskedFor(c)'
  <2>1. CASE Handle
    <3>1. uplink # <<>> /\ uplink' = Tail(uplink)
          /\ request' = [context |-> Head(uplink).context, log_from |-> 0]
      BY <2>1 DEF Handle, Accept
    <3>2. uplink[Len(uplink)].context = c
      BY <1>6, <3>1 DEF AskedFor
    <3>3. CASE Len(uplink) = 1
      <4>1. uplink' = <<>> /\ request'.context = c
        BY <1>0, <3>1, <3>2, <3>3
      <4>2. request' # NoRequest
        <5>1. Head(uplink) \in Ask
          BY <1>0, <3>1
        <5>2. request' \in [context : Contexts \cup {NoContext}, log_from : Nat]
          BY <3>1, <5>1 DEF Ask, Chats
        <5> QED
          BY <5>2, ServiceAssumption
      <4> QED
        BY <4>1, <4>2 DEF AskedFor
    <3>4. CASE Len(uplink) # 1
      <4>1. uplink' # <<>> /\ uplink'[Len(uplink')] = uplink[Len(uplink)]
        <5>0. uplink \in Seq(Ask) /\ uplink # <<>>
          BY <1>0, <3>1
        <5>1. Len(uplink) \in Nat /\ Len(uplink) > 1
          <6>1. Len(uplink) \in Nat /\ Len(uplink) >= 1
            BY <5>0, NotEmpty
          <6> QED
            BY <3>4, <6>1
        <5>2. Len(Tail(uplink)) = Len(uplink) - 1
          BY <1>0, <3>1
        <5>3. Tail(uplink)[Len(uplink) - 1] = uplink[Len(uplink)]
          BY <1>0, <3>1, <5>1
        <5> QED
          BY <3>1, <5>1, <5>2, <5>3
      <4> QED
        BY <3>2, <4>1 DEF AskedFor
    <3> QED
      BY <3>3, <3>4
  <2>2. CASE ~Handle
    <3>1. uplink' = uplink
      BY <2>2 DEF ServerStep, Construct, SendPush, SendAnswer, Restart, Write, channelVars
    <3>2. \/ request' = request
          \/ draft.phase = "built" /\ request = draft.request
             /\ request' = [request EXCEPT !.log_from = draft.snap.upto]
      BY <2>2 DEF ServerStep, Construct, SendPush, SendAnswer, Restart, Write, Pick, Build, Label,
                  Commit, Discard, Emit, ResetLog, AppendUpdate, serverVars, vars, subVars
    <3>3. request # NoRequest => request' # NoRequest /\ request'.context = request.context
      <4>1. CASE request' = request
        BY <4>1
      <4>2. CASE /\ draft.phase = "built" /\ request = draft.request
                 /\ request' = [request EXCEPT !.log_from = draft.snap.upto]
        <5>1. request \in Request /\ draft.snap.upto \in Nat
          BY <1>0, <4>2 DEF ServerTyped, Draft, Snapshot
        <5>2. request' \in Request /\ request'.context = request.context
          BY <4>2, <5>1 DEF Request
        <5> QED
          BY <5>2, ServiceAssumption DEF Request
      <4> QED
        BY <3>2, <4>1, <4>2
    <3> QED
      BY <1>6, <3>1, <3>3 DEF AskedFor
  <2> QED
    BY <2>1, <2>2
<1>7. LastAskIsKnown'
  <2>1. \A c : AskedFor(c) => AskedFor(c)'
    BY <1>6
  <2>2. UNCHANGED <<flight, context, link, retry>>
    BY <1>1 DEF tabVars, askVars, viewVars, retryVars
  <2>3. \A c : flight.sent = "yes" /\ c = flight.context => AskedFor(c)'
    <3>1. \A c : flight.sent = "yes" /\ c = flight.context => AskedFor(c)
      BY <1>0 DEF LastAskIsKnown
    <3> QED
      BY <2>1, <3>1
  <2>4. \A c : link = "up" /\ flight = NoFlight /\ retry = "off" /\ c = context => AskedFor(c)'
    <3>1. \A c : link = "up" /\ flight = NoFlight /\ retry = "off" /\ c = context => AskedFor(c)
      BY <1>0 DEF LastAskIsKnown
    <3> QED
      BY <2>1, <3>1
  <2> QED
    BY <2>2, <2>3, <2>4 DEF LastAskIsKnown, AskedFor
<1> QED
  BY <1>3, <1>4, <1>5, <1>7 DEF SubscribedInv

(* The tab asks, or not, for the chat it shows, while the wire may move on.         *)
LEMMA SubscribedAsk ==
    ASSUME TypeInv, SubscribedInv, NEW m,
           SendStateRequest(context, m) \/ UNCHANGED askVars,
           UNCHANGED <<link, request, draft, uplink, answers, context>>,
           spent'.switches = spent.switches,
           wire' = wire \/ (wire # <<>> /\ wire' = Tail(wire)),
           \/ UNCHANGED <<retry, needsHandshake>>
           \/ retry' = "off" /\ SendStateRequest(context, m)
    PROVE  SubscribedInv'
<1>0. /\ DownIsEmpty /\ FlightIsLatest /\ QueuedIsShown /\ RetryAsks /\ LastAskIsKnown
      /\ ChannelTyped /\ calls \in Nat
  BY DEF SubscribedInv, TypeInv, AskTyped
<1>1. \/ /\ flight = NoFlight /\ flight' = [id |-> calls + 1, context |-> context, sent |-> "no"]
         /\ calls' = calls + 1 /\ queued' = queued
      \/ /\ flight # NoFlight /\ UNCHANGED <<flight, calls>>
         /\ queued' = IF context = flight.context THEN queued ELSE {context}
      \/ UNCHANGED <<flight, queued, calls, retry, needsHandshake>>
  BY DEF SendStateRequest, Start, Queue, askVars
<1>2. DownIsEmpty'
  BY <1>0 DEF DownIsEmpty, NothingOnTheWay
<1>3. RetryAsks'
  BY <1>0 DEF RetryAsks
<1>4. QueuedIsShown'
  BY <1>0, <1>1, StartIsFlight DEF QueuedIsShown
<1>5. FlightIsLatest'
  <2>1. UNCHANGED channelVars \/ (wire # <<>> /\ wire' = Tail(wire) /\ UNCHANGED <<uplink, answers>>)
    BY DEF channelVars
  <2>2. context \in Chats
    BY DEF TypeInv, ViewTyped
  <2> QED
    BY <1>0, <1>1, <2>1, <2>2, FlightStep
<1>6. LastAskIsKnown'
  <2>1. flight'.sent = "yes" => flight' = flight
    BY <1>1
  <2>2. SendStateRequest(context, m) => flight' # NoFlight
    BY <1>0, StartIsFlight DEF SendStateRequest, Start
  <2>3. flight' = NoFlight => flight = NoFlight /\ retry' = retry
    BY <2>2 DEF askVars
  <2> QED
    BY <1>0, <2>1, <2>3 DEF LastAskIsKnown, AskedFor
<1> QED
  BY <1>2, <1>3, <1>4, <1>5, <1>6 DEF SubscribedInv

(* A request ends, by an answer or without one, while the wire may move on.         *)
LEMMA SubscribedEnd ==
    ASSUME TypeInv, SubscribedInv, NEW m, flight # NoFlight, EndRequest(m),
           UNCHANGED <<link, request, draft, uplink, answers, context>>,
           spent'.switches = spent.switches,
           wire' = wire \/ (wire # <<>> /\ wire' = Tail(wire)),
           \/ needsHandshake' = TRUE /\ (link = "up" => retry' # "off")
           \/ flight.sent = "yes" /\ retry' = "off"
    PROVE  SubscribedInv'
<1>0. /\ DownIsEmpty /\ FlightIsLatest /\ QueuedIsShown /\ RetryAsks /\ LastAskIsKnown
      /\ calls \in Nat /\ context \in Chats
  BY DEF SubscribedInv, TypeInv, AskTyped, ViewTyped
<1>1. /\ queued' = {}
      /\ \/ queued = {} /\ flight' = NoFlight /\ UNCHANGED calls
         \/ /\ queued = {context} /\ calls' = calls + 1
            /\ flight' = [id |-> calls + 1, context |-> context, sent |-> "no"]
  BY <1>0 DEF EndRequest, Start, QueuedIsShown
<1>2. DownIsEmpty'
  BY <1>0 DEF DownIsEmpty, NothingOnTheWay
<1>3. RetryAsks'
  BY DEF RetryAsks
<1>4. QueuedIsShown'
  BY <1>1, StartIsFlight DEF QueuedIsShown
<1>5. FlightIsLatest'
  <2>1. UNCHANGED channelVars \/ (wire # <<>> /\ wire' = Tail(wire) /\ UNCHANGED <<uplink, answers>>)
    BY DEF channelVars
  <2> QED
    BY <1>0, <1>1, <2>1, FlightStep
<1>6. LastAskIsKnown'
  <2>1. flight'.sent = "no"
    BY <1>1 DEF NoFlight
  <2>2. flight' = NoFlight => queued = {}
    BY <1>0, <1>1, StartIsFlight
  <2>3. link = "up" /\ flight' = NoFlight /\ retry' = "off" => AskedFor(context)
    <3>1. queued = {} => flight.context = context
      BY <1>0 DEF QueuedIsShown
    <3>2. flight.sent = "yes" => AskedFor(flight.context)
      BY <1>0 DEF LastAskIsKnown
    <3> QED
      BY <2>2, <3>1, <3>2
  <2> QED
    BY <2>1, <2>3 DEF LastAskIsKnown, AskedFor
<1> QED
  BY <1>2, <1>3, <1>4, <1>5, <1>6 DEF SubscribedInv

LEMMA SubscribedDisconnect ==
    ASSUME TypeInv, SubscribedInv, Disconnect, spent'.switches = spent.switches
    PROVE  SubscribedInv'
<1>0. /\ FlightIsLatest /\ QueuedIsShown /\ calls \in Nat /\ flight \in Flight
  BY DEF SubscribedInv, TypeInv, AskTyped
<1>1. /\ link' = "new" /\ request' = NoRequest /\ draft' = NoDraft
      /\ wire' = <<>> /\ uplink' = <<>> /\ answers' = <<>>
      /\ needsHandshake' = TRUE /\ retry' = "off"
      /\ flight' = IF flight.sent = "yes" THEN [flight EXCEPT !.sent = "lost"] ELSE flight
      /\ UNCHANGED <<context, queued, calls>>
  BY DEF Disconnect, viewVars
<1>2. DownIsEmpty' /\ RetryAsks'
  BY <1>1 DEF DownIsEmpty, NothingOnTheWay, RetryAsks
<1>3. /\ flight' = NoFlight <=> flight = NoFlight
      /\ flight'.id = flight.id /\ flight'.context = flight.context /\ flight'.sent # "yes"
  BY <1>0, <1>1 DEF Flight, NoFlight
<1>4. FlightIsLatest'
  <2>1. UnderWayUpTo(calls)' /\ UnderWayUpTo(calls - 1)'
    BY <1>1 DEF UnderWayUpTo
  <2> QED
    BY <1>0, <1>1, <1>3, <2>1 DEF FlightIsLatest
<1>5. QueuedIsShown'
  BY <1>0, <1>1, <1>3 DEF QueuedIsShown
<1>6. LastAskIsKnown'
  BY <1>1, <1>3 DEF LastAskIsKnown
<1> QED
  BY <1>2, <1>4, <1>5, <1>6 DEF SubscribedInv

LEMMA SubscribedTransmit ==
    ASSUME TypeInv, SubscribedInv, Transmit
    PROVE  SubscribedInv'
<1> DEFINE r == [id |-> flight.id, context |-> flight.context]
<1>0. /\ DownIsEmpty /\ FlightIsLatest /\ QueuedIsShown /\ RetryAsks /\ LastAskIsKnown
      /\ calls \in Nat /\ flight \in Flight /\ uplink \in Seq(Ask)
  BY DEF SubscribedInv, TypeInv, AskTyped, ChannelTyped
<1>1. /\ link = "up" /\ flight # NoFlight /\ flight.sent = "no"
      /\ flight' = [flight EXCEPT !.sent = "yes"] /\ uplink' = uplink \o <<r>>
      /\ UNCHANGED <<wire, answers, queued, calls, spent, context, needsHandshake, retry>>
      /\ UNCHANGED <<link, request, draft>>
  BY DEF Transmit, viewVars, retryVars, serverVars, vars, subVars
<1>2. /\ flight'.id = flight.id /\ flight'.context = flight.context /\ flight'.sent = "yes"
      /\ flight' # NoFlight
  BY <1>0, <1>1 DEF Flight, NoFlight
<1>3. DownIsEmpty' /\ RetryAsks' /\ QueuedIsShown'
  BY <1>0, <1>1, <1>2 DEF DownIsEmpty, RetryAsks, QueuedIsShown
<1>4. r \in Ask /\ r.id = calls /\ r.context = flight.context
  BY <1>0, <1>1 DEF FlightIsLatest, Flight, Ask
<1>5. FlightIsLatest'
  <2>1. UnderWayUpTo(calls)
    BY <1>0 DEF FlightIsLatest
  <2>2. \A j \in 1..Len(uplink') : uplink'[j].id <= calls
    <3> HIDE DEF r
    <3> QED
      BY <1>0, <1>1, <1>4, <2>1 DEF UnderWayUpTo
  <2>3. UnderWayUpTo(calls)'
    BY <1>1, <2>1, <2>2 DEF UnderWayUpTo
  <2> QED
    BY <1>0, <1>1, <1>2, <2>3 DEF FlightIsLatest
<1>6. LastAskIsKnown'
  <2>1. uplink' # <<>> /\ uplink'[Len(uplink')] = r
    <3> HIDE DEF r
    <3> QED
      BY <1>0, <1>1, <1>4
  <2> QED
    BY <1>2, <1>4, <2>1 DEF LastAskIsKnown, AskedFor
<1> QED
  BY <1>3, <1>5, <1>6 DEF SubscribedInv

(* The one switch finds nothing queued: the request in flight is for the chat it    *)
(* leaves, and the one it needs is queued behind it.                                *)
LEMMA SubscribedSwitch ==
    ASSUME MaxSwitches <= 1, TypeInv, SubscribedInv, NEW c \in Chats, SetContext(c)
    PROVE  SubscribedInv'
<1>0. /\ DownIsEmpty /\ FlightIsLatest /\ QueuedIsShown /\ RetryAsks /\ LastAskIsKnown
      /\ calls \in Nat
      /\ spent \in [{"drops", "timeouts", "polls", "switches"} -> Nat]
  BY DEF SubscribedInv, TypeInv, AskTyped, SpentTyped
<1>1. /\ c # context /\ Spend("switches", MaxSwitches) /\ context' = c
      /\ SendStateRequest(c, mode)
      /\ UNCHANGED <<link, request, draft, wire, uplink, answers, needsHandshake, retry>>
  BY DEF SetContext, serverVars, vars, subVars, channelVars, retryVars
<1>2. spent.switches = 0 /\ spent'.switches = 1
  BY <1>0, <1>1, SyncAssumption DEF Spend
<1>3. \/ /\ flight = NoFlight /\ flight' = [id |-> calls + 1, context |-> c, sent |-> "no"]
         /\ calls' = calls + 1 /\ queued' = queued
      \/ /\ flight # NoFlight /\ UNCHANGED <<flight, calls>> /\ queued' = {c}
  BY <1>0, <1>1, <1>2 DEF SendStateRequest, Start, Queue, QueuedIsShown
<1>4. DownIsEmpty' /\ RetryAsks'
  BY <1>0, <1>1 DEF DownIsEmpty, NothingOnTheWay, RetryAsks
<1>5. FlightIsLatest'
  BY <1>0, <1>1, <1>3, FlightStep DEF channelVars
<1>6. QueuedIsShown'
  BY <1>0, <1>1, <1>2, <1>3, StartIsFlight DEF QueuedIsShown
<1>7. LastAskIsKnown'
  <2>1. flight' # NoFlight
    BY <1>0, <1>3, StartIsFlight
  <2>2. flight'.sent = "yes" => flight' = flight
    BY <1>3
  <2> QED
    BY <1>0, <1>1, <2>1, <2>2 DEF LastAskIsKnown, AskedFor
<1> QED
  BY <1>4, <1>5, <1>6, <1>7 DEF SubscribedInv

LEMMA SubscribedInvStep ==
    ASSUME MaxSwitches <= 1, TypeInv, SubscribedInv, [SyncNext]_allVars
    PROVE  SubscribedInv'
<1>0. /\ DownIsEmpty /\ FlightIsLatest /\ QueuedIsShown /\ RetryAsks /\ LastAskIsKnown
      /\ spent \in [{"drops", "timeouts", "polls", "switches"} -> Nat]
  BY DEF SubscribedInv, TypeInv, SpentTyped
<1>1. CASE ServerStep \/ \E c \in Contexts : Restart(c) \/ \E i \in Items : Write(c, i)
  BY <1>1, SubscribedServerStep
<1>2. CASE Transmit
  BY <1>2, SubscribedTransmit
<1>3. CASE RetryFires
  <2>1. CASE Disconnect
    BY <1>3, <2>1, SubscribedDisconnect DEF RetryFires
  <2>2. CASE ~Disconnect
    <3>1. /\ retry # "off" /\ retry' = "off" /\ (needsHandshake => SendStateRequest(context, mode))
          /\ UNCHANGED <<link, request, draft, wire, uplink, answers, context, spent>>
      BY <1>3, <2>2 DEF RetryFires, serverVars, vars, subVars, channelVars, viewVars
    <3>2. SendStateRequest(context, mode)
      BY <1>0, <3>1 DEF RetryAsks
    <3> QED
      BY <3>1, <3>2, SubscribedAsk
  <2> QED
    BY <2>1, <2>2
<1>4. CASE Connect
  <2>1. /\ link = "new" /\ link' = "up" /\ retry' = "off" /\ SendStateRequest(context, mode)
        /\ UNCHANGED <<request, draft, wire, uplink, answers, context, spent, needsHandshake>>
    BY <1>4 DEF Connect, Up, OnConnect, subVars, channelVars, viewVars
  <2>2. /\ calls \in Nat /\ context \in Chats
        /\ \/ /\ flight = NoFlight /\ calls' = calls + 1 /\ queued' = queued
              /\ flight' = [id |-> calls + 1, context |-> context, sent |-> "no"]
           \/ /\ flight # NoFlight /\ UNCHANGED <<flight, calls>>
              /\ queued' = IF context = flight.context THEN queued ELSE {context}
    BY <2>1 DEF TypeInv, AskTyped, ViewTyped, SendStateRequest, Start, Queue
  <2>3. DownIsEmpty' /\ RetryAsks'
    BY <2>1 DEF DownIsEmpty, RetryAsks
  <2>4. FlightIsLatest'
    BY <1>0, <2>1, <2>2, FlightStep DEF channelVars
  <2>5. QueuedIsShown'
    BY <1>0, <2>1, <2>2, StartIsFlight DEF QueuedIsShown
  <2>6. LastAskIsKnown'
    <3>1. flight' # NoFlight
      BY <2>2, StartIsFlight
    <3>2. flight.sent # "yes"
      BY <1>0, <2>1 DEF FlightIsLatest
    <3> QED
      BY <2>2, <3>1, <3>2 DEF LastAskIsKnown
  <2> QED
    BY <2>3, <2>4, <2>5, <2>6 DEF SubscribedInv
<1>5. CASE HandshakeFails
  <2> DEFINE m == IF link = "up" THEN "DEGRADED" ELSE "DISCONNECTED"
  <2>1. /\ flight # NoFlight /\ EndRequest(m) /\ needsHandshake' = TRUE
        /\ (link = "up" => retry' # "off")
        /\ UNCHANGED <<link, request, draft, wire, uplink, answers, context>>
    BY <1>5 DEF HandshakeFails, serverVars, vars, subVars, channelVars, viewVars
  <2>2. spent'.switches = spent.switches
    BY <1>0, <1>5 DEF HandshakeFails, Spend
  <2> QED
    BY <2>1, <2>2, SubscribedEnd
<1>6. CASE Drop
  <2>1. spent'.switches = spent.switches
    BY <1>0, <1>6 DEF Drop, Spend
  <2> QED
    BY <1>6, <2>1, SubscribedDisconnect DEF Drop
<1>7. CASE ReceiveAnswer
  <2>1. /\ wire # <<>> /\ Head(wire).type = "answer" /\ wire' = Tail(wire)
        /\ UNCHANGED <<link, request, draft, uplink, answers, context, spent>>
    BY <1>7 DEF ReceiveAnswer, serverVars, vars, subVars, viewVars
  <2>2. CASE flight # NoFlight /\ flight.id = Head(wire).id
    <3>1. retry' = "off" /\ EndRequest("HEALTHY")
      BY <1>7, <2>2 DEF ReceiveAnswer
    <3>2. flight.sent = "yes"
      <4>1. SUFFICES ASSUME flight.sent # "yes" PROVE FALSE
        OBVIOUS
      <4>2. /\ flight.id = calls /\ calls \in Nat
            /\ \A j \in 1..Len(wire) : wire[j].type = "answer" => wire[j].id <= calls - 1
        BY <1>0, <2>2, <4>1 DEF FlightIsLatest, UnderWayUpTo, TypeInv, AskTyped
      <4>3. wire[1] = Head(wire) /\ 1 \in 1..Len(wire)
        BY <2>1, NotEmpty DEF TypeInv, ChannelTyped
      <4> QED
        BY <2>1, <2>2, <4>2, <4>3
    <3> QED
      BY <2>1, <2>2, <3>1, <3>2, SubscribedEnd
  <2>3. CASE ~(flight # NoFlight /\ flight.id = Head(wire).id)
    BY <1>7, <2>1, <2>3, SubscribedAsk DEF ReceiveAnswer, retryVars
  <2> QED
    BY <2>2, <2>3
<1>8. CASE ReceivePush
  <2>1. /\ wire # <<>> /\ wire' = Tail(wire)
        /\ UNCHANGED <<link, request, draft, uplink, answers, context, spent, retry, needsHandshake>>
        /\ \/ UNCHANGED askVars
           \/ SendStateRequest(context, "HANDSHAKE_PENDING") \/ SendStateRequest(context, "HEALTHY")
    BY <1>8 DEF ReceivePush, serverVars, vars, subVars, retryVars
  <2> QED
    BY <2>1, SubscribedAsk
<1>9. CASE PollStart
  <2>1. spent'.switches = spent.switches
    BY <1>0, <1>9 DEF PollStart, Spend
  <2>2. UNCHANGED <<link, request, draft, wire, uplink, answers, context, retry, needsHandshake, askVars>>
    BY <1>9 DEF PollStart, serverVars, vars, subVars, channelVars, viewVars, retryVars
  <2> QED
    BY <2>1, <2>2, SubscribedAsk
<1>10. CASE PollOutput \/ PollLabel \/ PollFails
  <2>1. UNCHANGED <<link, request, draft, wire, uplink, answers, context, retry, needsHandshake, askVars, spent>>
    BY <1>10 DEF PollOutput, PollLabel, PollFails, serverVars, vars, subVars, channelVars, viewVars, retryVars
  <2> QED
    BY <2>1, SubscribedAsk
<1>11. CASE PollAnswered
  <2>1. UNCHANGED <<link, request, draft, wire, uplink, answers, context, retry, needsHandshake, spent>>
    BY <1>11 DEF PollAnswered, serverVars, vars, subVars, channelVars, retryVars
  <2>2. SendStateRequest(context, mode) \/ UNCHANGED askVars
    BY <1>11 DEF PollAnswered, Kick
  <2> QED
    BY <2>1, <2>2, SubscribedAsk
<1>12. ASSUME NEW c \in Contexts \cup {NoContext}, SetContext(c) PROVE SubscribedInv'
  BY <1>12, SubscribedSwitch DEF Chats
<1>13. CASE UNCHANGED allVars
  <2>1. UNCHANGED <<link, request, draft, wire, uplink, answers, context, retry, needsHandshake, askVars, spent>>
    BY <1>13 DEF allVars, serverVars, vars, subVars, channelVars, tabVars, viewVars, retryVars
  <2> QED
    BY <2>1, SubscribedAsk
<1> QED
  BY <1>1, <1>2, <1>3, <1>4, <1>5, <1>6, <1>7, <1>8, <1>9, <1>10, <1>11, <1>12, <1>13 DEF SyncNext, TabStep

\* However often the connection breaks, requests time out, pushes overtake answers and
\* polls come back: when all has come to rest, the server pushes the chat the tab shows,
\* if the user has switched chats at most once. (With two switches the tab's queue can
\* hold a chat it no longer shows.)
THEOREM LastAskWins ==
    ASSUME MaxSwitches <= 1
    PROVE  SyncSpec => []QuietMeansSubscribed
<1>1. SyncInit => TypeInv /\ SubscribedInv
  BY TypeInvInit, SubscribedInvInit
<1>2. TypeInv /\ SubscribedInv /\ [SyncNext]_allVars => (TypeInv /\ SubscribedInv)'
  BY TypeInvStep, SubscribedInvStep
<1>3. SubscribedInv => QuietMeansSubscribed
  BY DEF SubscribedInv, LastAskIsKnown, AskedFor, QuietMeansSubscribed, Quiet
<1> QED
  BY <1>1, <1>2, <1>3, PTL DEF SyncSpec

-----------------------------------------------------------------------------
(* Pages and streams                                                       *)

(* The updates of the chat on display: the welcome screen has none.                 *)
Updates == IF context \in Contexts THEN touched[context] ELSE <<>>

(* Item i of a page of chat c that holds the first k updates.                       *)
ItemAt(us, c, k, i) ==
    IF Content(us, k, i) = 0 THEN Blank
    ELSE [log |-> Guid(c, 0), version |-> Content(us, k, i)]

(* The page shows exactly the updates before its cursor.                            *)
Exact(us, c, cur, page) ==
    /\ cur.version <= Len(us)
    /\ cur.guid \in {NoGuid, Guid(c, 0)}
    /\ cur.guid = NoGuid => cur.version = 0
    /\ \A i \in Items : page[i] = ItemAt(us, c, cur.version, i)

(* The items the updates of a snapshot are about, as they were at its end.          *)
Delta(us, from, upto) ==
    [i \in Items |-> IF \E j \in (from + 1)..upto : us[j] = i THEN Content(us, upto, i) ELSE 0]

Carried(us, c, snap, items) ==
    /\ snap.context = c /\ snap.of = 0
    /\ snap.from <= snap.upto /\ snap.upto <= Len(us)
    /\ items = Delta(us, snap.from, snap.upto)

(* A stream for a page that knows k updates, after push s: its pushes are numbered  *)
(* on from s, and each starts no later than what is known by then and ends no       *)
(* earlier.                                                                         *)
Continues(snap, k) == snap.from <= k /\ k <= snap.upto

Known(w, k) == IF w = <<>> THEN k ELSE w[Len(w)].snap.upto

Stream(us, c, w, s, k) ==
    \A j \in 1..Len(w) :
       /\ w[j].type = "push" /\ w[j].seq = s + j /\ w[j].snap.guid = 0
       /\ Carried(us, c, w[j].snap, w[j].items)
       /\ Continues(w[j].snap, IF j = 1 THEN k ELSE w[j - 1].snap.upto)

(* The push the server works on, draft d, is the next of the stream w.              *)
GoesOn(d, n, from, w, s, k) ==
    /\ n = s + Len(w) + (IF d.phase = "emit" THEN 1 ELSE 0)
    /\ d.phase = "emit" => d.seq = n /\ from = d.snap.upto
    /\ d.phase # "emit" => from <= Known(w, k)
    /\ d.phase \in {"output", "built", "emit"} => Continues(d.snap, Known(w, k))

Message == PushMsg \cup AnswerMsg

LEMMA DeltaGrows ==
    ASSUME NEW us \in Seq(Items), NEW x \in Items, NEW from \in Nat, NEW upto \in 0..Len(us)
    PROVE  Delta(us \o <<x>>, from, upto) = Delta(us, from, upto)
<1> DEFINE vs == us \o <<x>>
<1>1. \A j \in (from + 1)..upto : vs[j] = us[j]
  OBVIOUS
<1>2. \A i \in Items : Content(vs, upto, i) = Content(us, upto, i)
  BY ContentAppend
<1> HIDE DEF vs
<1>3. Delta(vs, from, upto) = Delta(us, from, upto)
  BY <1>1, <1>2 DEF Delta
<1> QED
  BY <1>3 DEF vs

LEMMA CarriedGrows ==
    ASSUME NEW us \in Seq(Items), NEW x \in Items, NEW c, NEW snap \in Snapshot, NEW items,
           Carried(us, c, snap, items)
    PROVE  Carried(us \o <<x>>, c, snap, items)
<1> DEFINE vs == us \o <<x>>
<1>1. Len(vs) = Len(us) + 1 /\ Len(us) \in Nat
  OBVIOUS
<1>2. /\ snap.from \in Nat /\ snap.upto \in 0..Len(us)
      /\ snap.context = c /\ snap.of = 0 /\ snap.from <= snap.upto
      /\ items = Delta(us, snap.from, snap.upto)
  BY DEF Carried, Snapshot
<1>3. Delta(vs, snap.from, snap.upto) = Delta(us, snap.from, snap.upto)
  BY <1>2, DeltaGrows
<1> HIDE DEF vs
<1>4. Carried(vs, c, snap, items)
  BY <1>1, <1>2, <1>3 DEF Carried
<1> QED
  BY <1>4 DEF vs

LEMMA StreamGrows ==
    ASSUME NEW us \in Seq(Items), NEW x \in Items, NEW c, NEW w \in Seq(Message), NEW s, NEW k,
           Stream(us, c, w, s, k)
    PROVE  Stream(us \o <<x>>, c, w, s, k)
<1> DEFINE vs == us \o <<x>>
<1> SUFFICES ASSUME NEW j \in 1..Len(w)
             PROVE  /\ w[j].type = "push" /\ w[j].seq = s + j /\ w[j].snap.guid = 0
                    /\ Carried(vs, c, w[j].snap, w[j].items)
                    /\ Continues(w[j].snap, IF j = 1 THEN k ELSE w[j - 1].snap.upto)
  BY DEF Stream
<1>1. /\ w[j].type = "push" /\ w[j].seq = s + j /\ w[j].snap.guid = 0
      /\ Carried(us, c, w[j].snap, w[j].items)
      /\ Continues(w[j].snap, IF j = 1 THEN k ELSE w[j - 1].snap.upto)
  BY DEF Stream
<1>2. w[j].snap \in Snapshot
  BY <1>1 DEF Message, PushMsg, AnswerMsg
<1> QED
  BY <1>1, <1>2, CarriedGrows

LEMMA ExactGrows ==
    ASSUME NEW us \in Seq(Items), NEW x \in Items, NEW c, NEW page,
           NEW cur, cur.version \in Nat, Exact(us, c, cur, page)
    PROVE  Exact(us \o <<x>>, c, cur, page)
<1> DEFINE vs == us \o <<x>>
<1>1. Len(vs) = Len(us) + 1 /\ Len(us) \in Nat
  OBVIOUS
<1>2. cur.version \in 0..Len(us)
  BY <1>1 DEF Exact
<1>3. \A i \in Items : Content(vs, cur.version, i) = Content(us, cur.version, i)
  BY <1>2, ContentAppend
<1> HIDE DEF vs
<1>4. Exact(vs, c, cur, page)
  BY <1>1, <1>2, <1>3 DEF Exact, ItemAt
<1> QED
  BY <1>4 DEF vs

(* A delta that starts no later than what a page knows completes the page.          *)
LEMMA DeltaCompletes ==
    ASSUME NEW us \in Seq(Items), NEW c, NEW from \in Nat, NEW k \in Nat, NEW upto \in 0..Len(us),
           from <= k, k <= upto, NEW i \in Items
    PROVE  ItemAt(us, c, upto, i) = IF Delta(us, from, upto)[i] = 0 THEN ItemAt(us, c, k, i)
                                    ELSE [log |-> Guid(c, 0), version |-> Delta(us, from, upto)[i]]
<1>1. CASE \E j \in (from + 1)..upto : us[j] = i
  <2>1. PICK j \in (from + 1)..upto : us[j] = i
    BY <1>1
  <2>2. Content(us, upto, i) \in 1..upto
    <3>1. j \in 1..upto
      OBVIOUS
    <3> QED
      BY <2>1, <3>1, ContentIsLast
  <2>3. Delta(us, from, upto)[i] = Content(us, upto, i)
    BY <1>1 DEF Delta
  <2> QED
    BY <2>2, <2>3 DEF ItemAt
<1>2. CASE ~\E j \in (from + 1)..upto : us[j] = i
  <2>1. Delta(us, from, upto)[i] = 0
    BY <1>2 DEF Delta
  <2>2. Content(us, upto, i) = Content(us, k, i)
    <3>1. \A j \in (k + 1)..upto : us[j] # i
      BY <1>2
    <3> QED
      BY <3>1, ContentKept
  <2> QED
    BY <2>1, <2>2 DEF ItemAt
<1> QED
  BY <1>1, <1>2

LEMMA KnownBound ==
    ASSUME NEW us \in Seq(Items), NEW c, NEW w \in Seq(Message), NEW s, NEW k \in 0..Len(us),
           Stream(us, c, w, s, k)
    PROVE  Known(w, k) \in 0..Len(us)
<1>1. CASE w = <<>>
  BY <1>1 DEF Known
<1>2. CASE w # <<>>
  <2>1. Len(w) \in 1..Len(w) /\ w[Len(w)] \in Message
    BY <1>2, NotEmpty
  <2>2. w[Len(w)].type = "push" /\ w[Len(w)].snap.upto <= Len(us)
    BY <2>1 DEF Stream, Carried
  <2>3. w[Len(w)].snap.upto \in Nat
    BY <2>1, <2>2 DEF Message, PushMsg, AnswerMsg, Snapshot
  <2> QED
    BY <1>2, <2>2, <2>3 DEF Known
<1> QED
  BY <1>1, <1>2

LEMMA StreamAppend ==
    ASSUME NEW us, NEW c, NEW w \in Seq(Message), NEW s \in Nat, NEW k, NEW m \in PushMsg,
           Stream(us, c, w, s, k), m.seq = s + Len(w) + 1, m.snap.guid = 0,
           Carried(us, c, m.snap, m.items), Continues(m.snap, Known(w, k))
    PROVE  Stream(us, c, w \o <<m>>, s, k) /\ Known(w \o <<m>>, k) = m.snap.upto
<1> DEFINE v == w \o <<m>>
<1>1. /\ v # <<>> /\ Len(v) = Len(w) + 1 /\ v[Len(w) + 1] = m /\ Len(w) \in Nat
      /\ \A j \in 1..Len(w) : v[j] = w[j]
  OBVIOUS
<1>2. m.type = "push"
  BY DEF PushMsg
<1> HIDE DEF v
<1>3. Stream(us, c, v, s, k)
  <2> SUFFICES ASSUME NEW j \in 1..Len(v)
               PROVE  /\ v[j].type = "push" /\ v[j].seq = s + j /\ v[j].snap.guid = 0
                      /\ Carried(us, c, v[j].snap, v[j].items)
                      /\ Continues(v[j].snap, IF j = 1 THEN k ELSE v[j - 1].snap.upto)
    BY DEF Stream
  <2>1. CASE j \in 1..Len(w)
    <3>1. v[j] = w[j] /\ (j # 1 => v[j - 1] = w[j - 1])
      BY <1>1, <2>1
    <3> QED
      BY <2>1, <3>1 DEF Stream
  <2>2. CASE j = Len(w) + 1
    <3>1. (IF j = 1 THEN k ELSE v[j - 1].snap.upto) = Known(w, k)
      <4>1. CASE Len(w) = 0
        BY <1>1, <2>2, <4>1 DEF Known
      <4>2. CASE Len(w) # 0
        <5>1. w # <<>> /\ j # 1 /\ v[j - 1] = w[Len(w)]
          BY <1>1, <2>2, <4>2
        <5> QED
          BY <5>1 DEF Known
      <4> QED
        BY <4>1, <4>2
    <3> QED
      BY <1>1, <1>2, <2>2, <3>1
  <2> QED
    BY <1>1, <2>1, <2>2
<1>4. Known(v, k) = m.snap.upto
  BY <1>1 DEF Known
<1> QED
  BY <1>3, <1>4 DEF v

LEMMA StreamTail ==
    ASSUME NEW us, NEW c, NEW w \in Seq(Message), w # <<>>, NEW s \in Nat, NEW k,
           Stream(us, c, w, s, k)
    PROVE  /\ Stream(us, c, Tail(w), s + 1, w[1].snap.upto)
           /\ Known(Tail(w), w[1].snap.upto) = Known(w, k)
<1> DEFINE v == Tail(w)
<1>1. /\ Len(v) = Len(w) - 1 /\ Len(w) \in Nat /\ Len(w) >= 1 /\ v \in Seq(Message)
      /\ \A j \in 1..Len(v) : v[j] = w[j + 1]
  BY NotEmpty
<1> HIDE DEF v
<1>2. Stream(us, c, v, s + 1, w[1].snap.upto)
  <2> SUFFICES ASSUME NEW j \in 1..Len(v)
               PROVE  /\ v[j].type = "push" /\ v[j].seq = s + 1 + j /\ v[j].snap.guid = 0
                      /\ Carried(us, c, v[j].snap, v[j].items)
                      /\ Continues(v[j].snap, IF j = 1 THEN w[1].snap.upto ELSE v[j - 1].snap.upto)
    BY DEF Stream
  <2>1. j + 1 \in 1..Len(w) /\ j + 1 # 1 /\ (j + 1) - 1 = j /\ v[j] = w[j + 1]
    BY <1>1
  <2>2. /\ w[j + 1].type = "push" /\ w[j + 1].seq = s + (j + 1) /\ w[j + 1].snap.guid = 0
        /\ Carried(us, c, w[j + 1].snap, w[j + 1].items)
        /\ Continues(w[j + 1].snap, w[j].snap.upto)
    BY <2>1 DEF Stream
  <2>3. j # 1 => v[j - 1] = w[j]
    BY <1>1
  <2>4. s + (j + 1) = s + 1 + j
    OBVIOUS
  <2> QED
    BY <2>1, <2>2, <2>3, <2>4
<1>3. Known(v, w[1].snap.upto) = Known(w, k)
  <2>1. CASE v = <<>>
    <3>1. Len(w) = 1
      BY <1>1, <2>1
    <3> QED
      BY <2>1, <3>1 DEF Known
  <2>2. CASE v # <<>>
    <3>1. v[Len(v)] = w[Len(w)]
      <4>1. Len(v) \in 1..Len(v) /\ Len(v) + 1 = Len(w)
        BY <1>1, <2>2, NotEmpty
      <4> QED
        BY <1>1, <4>1
    <3> QED
      BY <2>2, <3>1 DEF Known
  <2> QED
    BY <2>1, <2>2
<1> QED
  BY <1>2, <1>3 DEF v

-----------------------------------------------------------------------------
(* What has come to rest is in step, if only connections break             *)

(* Each of these is needed: TLC finds a page out of step at rest without it.        *)
OnlyDrops ==
    /\ AckFirst
    /\ MaxResets = 0 /\ MaxTimeouts = 0 /\ MaxPolls = 0 /\ MaxSwitches = 0

Going(w, s, k) == Stream(Updates, context, w, s, k) /\ GoesOn(draft, seq, request.log_from, w, s, k)

DraftIsDelta ==
    /\ draft.phase # "none" => request # NoRequest
    /\ draft.phase \in {"read", "output", "built"} => draft.request = request
    /\ draft.phase \in {"output", "built", "emit"} => Carried(Updates, context, draft.snap, carried)
    /\ draft.phase \in {"built", "emit"} => draft.snap.guid = 0

(* The server knows its debt: without one, the request stands at the log's end.     *)
DebtIsKnown ==
    request # NoRequest =>
      /\ request.context = context /\ mode # "DEGRADED"
      /\ ~owed => request.log_from = Len(Updates)

(* A connection sees one handshake; these are its stages.                           *)
Unasked == request = NoRequest /\ NothingOnTheWay
Asked ==
    /\ request = NoRequest /\ answers = <<>> /\ wire = <<>>
    /\ uplink = <<[id |-> flight.id, context |-> context]>>
Accepted ==
    /\ request # NoRequest /\ uplink = <<>> /\ wire = <<>> /\ answers = <<flight.id>>
    /\ Going(<<>>, 1, cursor.version)
AnswerSent ==
    /\ request # NoRequest /\ uplink = <<>> /\ answers = <<>>
    /\ wire # <<>> /\ wire[1] = [type |-> "answer", id |-> flight.id]
    /\ Going(Tail(wire), 1, cursor.version)
Streaming ==
    /\ request # NoRequest /\ uplink = <<>> /\ answers = <<>>
    /\ Going(wire, lastSeq, cursor.version)

HandshakeStage ==
    /\ flight.sent = "yes" => Asked \/ Accepted \/ AnswerSent
    /\ flight # NoFlight /\ flight.sent # "yes" => Unasked
    /\ flight = NoFlight => Streaming \/ (Unasked /\ (link = "up" => retry # "off"))
    /\ flight # NoFlight => mode # "DEGRADED"
    /\ retry # "off" => flight = NoFlight /\ Unasked

Undisturbed ==
    /\ \A c \in Contexts : log[c].guid = 0
    /\ poll = NoPoll /\ spent.switches = 0

InSyncInv ==
    /\ Undisturbed /\ Exact(Updates, context, cursor, shown)
    /\ DraftIsDelta /\ DebtIsKnown /\ HandshakeStage

SyncedInv == TypeInv /\ SubscribedInv /\ InSyncInv

LEMMA UpdatesFacts ==
    ASSUME TypeInv, \A c \in Contexts : log[c].guid = 0
    PROVE  /\ Updates \in Seq(Items) /\ Len(Updates) = LogEnd(context) /\ LogGuid(context) = 0
           /\ \A from \in Nat : Output(context, from) = Delta(Updates, from, Len(Updates))
<1>1. /\ touched \in [Contexts -> Seq(Items)] /\ \A c \in Contexts : Len(touched[c]) = log[c].len
      /\ log \in [Contexts -> [guid : Nat, len : Nat]]
  BY DEF TypeInv, LogTyped
<1>2. /\ Updates \in Seq(Items) /\ Len(Updates) = LogEnd(context) /\ LogGuid(context) = 0
  BY <1>1 DEF Updates, LogEnd, LogGuid
<1>3. ASSUME NEW from \in Nat PROVE Output(context, from) = Delta(Updates, from, Len(Updates))
  <2>1. CASE context \in Contexts
    <3>1. Updates = touched[context]
      BY <2>1 DEF Updates
    <3> QED
      BY <1>2, <2>1, <3>1 DEF Output, Delta
  <2>2. CASE context \notin Contexts
    <3>1. Updates = <<>> /\ ~\E j \in (from + 1)..Len(Updates) : TRUE
      BY <2>2 DEF Updates
    <3> QED
      BY <2>2, <3>1 DEF Output, Delta
  <2> QED
    BY <2>1, <2>2
<1> QED
  BY <1>2, <1>3

LEMMA InSyncInvInit == SyncInit => InSyncInv
<1> SUFFICES ASSUME SyncInit PROVE InSyncInv
  OBVIOUS
<1>1. /\ log = [c \in Contexts |-> [guid |-> 0, len |-> 0]] /\ touched = [c \in Contexts |-> <<>>]
      /\ request = NoRequest /\ draft = NoDraft /\ link = "new" /\ poll = NoPoll
      /\ wire = <<>> /\ uplink = <<>> /\ answers = <<>> /\ retry = "off" /\ flight = NoFlight
      /\ spent.switches = 0 /\ cursor = [guid |-> NoGuid, version |-> 0] /\ shown = BlankPage
  BY DEF SyncInit, Init
<1>2. Undisturbed
  BY <1>1 DEF Undisturbed
<1>3. Updates = <<>>
  BY <1>1 DEF Updates
<1>4. Exact(Updates, context, cursor, shown)
  <2>1. \A i \in Items : Content(Updates, 0, i) = 0
    BY NoContent
  <2> QED
    BY <1>1, <1>3, <2>1 DEF Exact, ItemAt, BlankPage
<1>5. DraftIsDelta /\ DebtIsKnown
  BY <1>1 DEF DraftIsDelta, DebtIsKnown, NoDraft
<1>6. HandshakeStage
  BY <1>1 DEF HandshakeStage, Unasked, NothingOnTheWay, NoFlight
<1> QED
  BY <1>2, <1>4, <1>5, <1>6 DEF InSyncInv

(* What a stage rests on: an action that only moves the server on keeps it, if the  *)
(* stream it works for goes on.                                                     *)
LEMMA StageKept ==
    ASSUME HandshakeStage, TypeInv, cursor.version <= Len(Updates),
           UNCHANGED <<flight, retry, mode, link, channelVars, lastSeq, cursor, context>>,
           request = NoRequest <=> request' = NoRequest,
           \A w \in Seq(Message), s \in Nat, k \in 0..Len(Updates) :
              request # NoRequest /\ Going(w, s, k) =>
                 /\ Stream(Updates', context, w, s, k)
                 /\ GoesOn(draft', seq', request'.log_from, w, s, k)
    PROVE  HandshakeStage'
<1>0. /\ wire \in Seq(Message) /\ (Tail(wire) \in Seq(Message) \/ wire = <<>>)
      /\ <<>> \in Seq(Message) /\ lastSeq \in Nat /\ cursor.version \in 0..Len(Updates)
  <2>1. wire \in Seq(Message)
    BY DEF TypeInv, ChannelTyped, Message
  <2>2. Tail(wire) \in Seq(Message) \/ wire = <<>>
    BY <2>1, NotEmpty
  <2>3. cursor.version \in Nat /\ lastSeq \in Nat
    BY DEF TypeInv, ViewTyped, TabTyped
  <2> QED
    BY <2>1, <2>2, <2>3
<1>1. UNCHANGED <<wire, uplink, answers>>
  BY DEF channelVars
<1>2. Unasked => Unasked'
  BY <1>1 DEF Unasked, NothingOnTheWay
<1>3. Asked => Asked'
  BY <1>1 DEF Asked
<1>4. Accepted => Accepted'
  BY <1>0, <1>1 DEF Accepted, Going
<1>5. AnswerSent => AnswerSent'
  BY <1>0, <1>1 DEF AnswerSent, Going
<1>6. Streaming => Streaming'
  BY <1>0, <1>1 DEF Streaming, Going
<1> QED
  BY <1>2, <1>3, <1>4, <1>5, <1>6 DEF HandshakeStage

LEMMA SyncedFacts ==
    ASSUME SyncedInv
    PROVE  /\ DownIsEmpty /\ FlightIsLatest /\ QueuedIsShown /\ RetryAsks
           /\ Undisturbed /\ Exact(Updates, context, cursor, shown)
           /\ DraftIsDelta /\ DebtIsKnown /\ HandshakeStage
           /\ Updates \in Seq(Items) /\ Len(Updates) \in Nat /\ Len(Updates) = LogEnd(context)
           /\ cursor.version \in 0..Len(Updates) /\ queued = {}
           /\ wire \in Seq(Message) /\ draft \in Draft /\ request \in Request \cup {NoRequest}
           /\ seq \in Nat /\ lastSeq \in Nat /\ calls \in Nat
<1>1. /\ TypeInv /\ DownIsEmpty /\ FlightIsLatest /\ QueuedIsShown /\ RetryAsks
      /\ Undisturbed /\ Exact(Updates, context, cursor, shown)
      /\ DraftIsDelta /\ DebtIsKnown /\ HandshakeStage
  BY DEF SyncedInv, SubscribedInv, InSyncInv
<1>2. Updates \in Seq(Items) /\ Len(Updates) = LogEnd(context) /\ Len(Updates) \in Nat
  BY <1>1, UpdatesFacts DEF Undisturbed
<1>3. cursor.version \in 0..Len(Updates)
  BY <1>1, <1>2 DEF Exact, TypeInv, ViewTyped
<1>4. queued = {}
  BY <1>1 DEF QueuedIsShown, Undisturbed
<1>5. wire \in Seq(Message)
  BY <1>1 DEF TypeInv, ChannelTyped, Message
<1>6. /\ draft \in Draft /\ request \in Request \cup {NoRequest}
      /\ seq \in Nat /\ lastSeq \in Nat /\ calls \in Nat
  BY <1>1 DEF TypeInv, ServerTyped, TabTyped, AskTyped
<1> QED
  BY <1>1, <1>2, <1>3, <1>4, <1>5, <1>6

(* A log grows: what is on the way and on display was right and stays right.        *)
LEMMA SyncedWrite ==
    ASSUME SyncedInv, NEW c \in Contexts, NEW i \in Items, Write(c, i)
    PROVE  InSyncInv'
<1>0. /\ Undisturbed /\ Exact(Updates, context, cursor, shown)
      /\ DraftIsDelta /\ DebtIsKnown /\ HandshakeStage
      /\ Updates \in Seq(Items) /\ cursor.version \in 0..Len(Updates)
      /\ draft \in Draft /\ TypeInv
  BY SyncedFacts DEF SyncedInv
<1>1. /\ log' = [log EXCEPT ![c].len = @ + 1] /\ owed' = (owed \/ Shows(c))
      /\ touched' = [touched EXCEPT ![c] = @ \o <<i>>]
      /\ UNCHANGED <<link, request, seq, draft, carried, channelVars, viewVars, mode, lastSeq,
                     retry, flight, poll, spent>>
  BY DEF Write, AppendUpdate, tabVars, retryVars, askVars
<1>2. /\ log \in [Contexts -> [guid : Nat, len : Nat]] /\ touched \in [Contexts -> Seq(Items)]
      /\ UNCHANGED <<context, cursor, shown>>
  BY <1>0, <1>1 DEF TypeInv, LogTyped, viewVars
<1>3. Updates' = IF c = context THEN Updates \o <<i>> ELSE Updates
  BY <1>1, <1>2 DEF Updates
<1>4. Undisturbed'
  BY <1>0, <1>1, <1>2 DEF Undisturbed
<1>5. Exact(Updates, context, cursor, shown)'
  <2>1. Exact(Updates \o <<i>>, context, cursor, shown)
    BY <1>0, ExactGrows
  <2> QED
    BY <1>0, <1>2, <1>3, <2>1
<1>6. DraftIsDelta'
  <2>1. draft.phase \in {"output", "built", "emit"} => Carried(Updates', context, draft.snap, carried)
    <3>1. draft.snap \in Snapshot
      BY <1>0 DEF Draft
    <3>2. Carried(Updates, context, draft.snap, carried) =>
             Carried(Updates \o <<i>>, context, draft.snap, carried)
      BY <1>0, <3>1, CarriedGrows
    <3> QED
      BY <1>0, <1>3, <3>2 DEF DraftIsDelta
  <2> QED
    BY <1>0, <1>1, <1>2, <2>1 DEF DraftIsDelta
<1>7. DebtIsKnown'
  <2>1. c = context /\ request # NoRequest => owed'
    BY <1>0, <1>1 DEF DebtIsKnown, Shows
  <2>2. c # context => (owed' <=> owed) /\ Updates' = Updates
    BY <1>0, <1>1, <1>3, <2>1 DEF DebtIsKnown, Shows, TypeInv, ServerTyped
  <2> QED
    BY <1>0, <1>1, <1>2, <2>1, <2>2 DEF DebtIsKnown
<1>8. HandshakeStage'
  <2>1. ASSUME NEW w \in Seq(Message), NEW s, NEW k, Stream(Updates, context, w, s, k)
        PROVE  Stream(Updates', context, w, s, k)
    BY <1>0, <1>3, <2>1, StreamGrows
  <2>2. cursor.version <= Len(Updates)
    BY <1>0
  <2> QED
    BY <1>0, <1>1, <1>2, <2>1, <2>2, StageKept DEF Going
<1> QED
  BY <1>4, <1>5, <1>6, <1>7, <1>8 DEF InSyncInv

(* A push is made: it is the delta from where the request stands to the log's end.  *)
LEMMA SyncedConstruct ==
    ASSUME OnlyDrops, SyncedInv, Construct
    PROVE  InSyncInv'
<1>0. /\ Undisturbed /\ Exact(Updates, context, cursor, shown)
      /\ DraftIsDelta /\ DebtIsKnown /\ HandshakeStage
      /\ Updates \in Seq(Items) /\ Len(Updates) \in Nat /\ Len(Updates) = LogEnd(context)
      /\ cursor.version \in 0..Len(Updates)
      /\ draft \in Draft /\ request \in Request \cup {NoRequest} /\ seq \in Nat /\ TypeInv
      /\ \A from \in Nat : Output(context, from) = Delta(Updates, from, Len(Updates))
      /\ LogGuid(context) = 0
  BY SyncedFacts, UpdatesFacts DEF SyncedInv, Undisturbed
<1>1. UNCHANGED <<log, touched, link, channelVars, context, cursor, shown, mode, lastSeq, retry,
                  flight, poll, spent>>
  BY DEF Construct, Pick, Build, Label, Commit, Discard, tabVars, viewVars, retryVars, askVars
<1>2. Undisturbed' /\ Updates' = Updates /\ Exact(Updates, context, cursor, shown)'
  BY <1>0, <1>1 DEF Undisturbed, Updates
<1>3. cursor.version <= Len(Updates)
  BY <1>0
<1>4. CASE Pick /\ UNCHANGED carried
  <2>1. /\ draft.phase = "none" /\ request # NoRequest /\ UNCHANGED <<request, seq, owed>>
        /\ draft' = [NoDraft EXCEPT !.phase = "read", !.request = request]
    BY <1>4 DEF Pick, subVars
  <2>2. draft'.phase = "read" /\ draft'.request = request
    BY <2>1 DEF NoDraft
  <2>3. DraftIsDelta' /\ DebtIsKnown'
    BY <1>0, <1>1, <1>2, <2>1, <2>2 DEF DraftIsDelta, DebtIsKnown
  <2>4. HandshakeStage'
    BY <1>0, <1>1, <1>2, <1>3, <2>1, <2>2, StageKept DEF Going, GoesOn
  <2> QED
    BY <1>2, <2>3, <2>4 DEF InSyncInv
<1>5. CASE Build /\ carried' = Output(draft.request.context, draft.request.log_from)
  <2>1. /\ draft.phase = "read" /\ UNCHANGED <<request, seq, owed>>
        /\ draft' = [draft EXCEPT !.phase = "output",
                       !.snap = [NoSnapshot EXCEPT !.context = draft.request.context,
                                   !.of = LogGuid(draft.request.context),
                                   !.from = draft.request.log_from,
                                   !.upto = LogEnd(draft.request.context)]]
    BY <1>5 DEF Build, subVars
  <2>2. /\ request # NoRequest /\ request = draft.request /\ request.context = context
        /\ request.log_from \in Nat
    BY <1>0, <2>1 DEF DraftIsDelta, DebtIsKnown, Request
  <2>3. /\ draft'.phase = "output" /\ draft'.request = request
        /\ draft'.snap.context = context /\ draft'.snap.of = 0
        /\ draft'.snap.from = request.log_from /\ draft'.snap.upto = Len(Updates)
    BY <1>0, <2>1, <2>2 DEF Draft, NoSnapshot
  <2>4. \A w \in Seq(Message), s \in Nat, k \in 0..Len(Updates) :
           Going(w, s, k) => /\ request.log_from <= Known(w, k) /\ Known(w, k) \in 0..Len(Updates)
                             /\ seq = s + Len(w)
    <3> SUFFICES ASSUME NEW w \in Seq(Message), NEW s \in Nat, NEW k \in 0..Len(Updates), Going(w, s, k)
                 PROVE  /\ request.log_from <= Known(w, k) /\ Known(w, k) \in 0..Len(Updates)
                        /\ seq = s + Len(w)
      OBVIOUS
    <3>1. Known(w, k) \in 0..Len(Updates)
      BY <1>0, KnownBound DEF Going
    <3> QED
      BY <2>1, <3>1 DEF Going, GoesOn
  <2>5. HandshakeStage'
    <3>1. \A w \in Seq(Message), s \in Nat, k \in 0..Len(Updates) :
             Going(w, s, k) => GoesOn(draft', seq', request'.log_from, w, s, k)
      <4> SUFFICES ASSUME NEW w \in Seq(Message), NEW s \in Nat, NEW k \in 0..Len(Updates), Going(w, s, k)
                   PROVE  GoesOn(draft', seq', request'.log_from, w, s, k)
        OBVIOUS
      <4>1. /\ request.log_from <= Known(w, k) /\ Known(w, k) <= Len(Updates)
            /\ seq' = s + Len(w) /\ request' = request
        BY <1>0, <2>1, <2>4
      <4>2. Continues(draft'.snap, Known(w, k))
        BY <2>3, <4>1 DEF Continues
      <4> QED
        BY <2>3, <4>1, <4>2 DEF GoesOn
    <3>2. request = NoRequest <=> request' = NoRequest
      BY <2>1
    <3> QED
      BY <1>0, <1>1, <1>2, <1>3, <3>1, <3>2, StageKept DEF Going
  <2>6. request.log_from <= Len(Updates)
    <3>1. \/ Accepted \/ AnswerSent \/ Streaming
      BY <1>0, <2>2 DEF HandshakeStage, Unasked, Asked
    <3>2. \E w \in Seq(Message), s \in Nat, k \in 0..Len(Updates) : Going(w, s, k)
      <4>1. /\ wire \in Seq(Message) /\ lastSeq \in Nat /\ <<>> \in Seq(Message) /\ 1 \in Nat
            /\ (wire # <<>> => Tail(wire) \in Seq(Message))
        BY SyncedFacts, NotEmpty
      <4> QED
        BY <1>0, <3>1, <4>1 DEF Accepted, AnswerSent, Streaming
    <3> QED
      BY <1>0, <2>2, <2>4, <3>2
  <2>7. DraftIsDelta'
    <3>1. carried' = Delta(Updates, request.log_from, Len(Updates))
      BY <1>0, <1>5, <2>2
    <3>2. Carried(Updates, context, draft'.snap, carried')
      BY <1>0, <2>2, <2>3, <2>6, <3>1 DEF Carried
    <3> QED
      BY <1>1, <1>2, <2>1, <2>2, <2>3, <3>2 DEF DraftIsDelta
  <2>8. DebtIsKnown'
    BY <1>0, <1>1, <1>2, <2>1 DEF DebtIsKnown
  <2> QED
    BY <1>2, <2>5, <2>7, <2>8 DEF InSyncInv
<1>6. CASE Label /\ UNCHANGED carried
  <2>1. /\ draft.phase = "output" /\ UNCHANGED <<request, seq, owed, carried>>
        /\ draft' = [draft EXCEPT !.phase = "built", !.snap.guid = LogGuid(draft.snap.context)]
    BY <1>6 DEF Label, subVars
  <2>2. draft.snap \in Snapshot /\ draft.snap.context = context /\ request # NoRequest
        /\ draft.request = request /\ Carried(Updates, context, draft.snap, carried)
    BY <1>0, <2>1 DEF DraftIsDelta, Carried, Draft
  <2>3. /\ draft'.phase = "built" /\ draft'.request = request
        /\ draft'.snap = [draft.snap EXCEPT !.guid = 0]
    BY <1>0, <2>1, <2>2 DEF Draft
  <2>4. /\ draft'.snap.guid = 0 /\ draft'.snap.context = draft.snap.context
        /\ draft'.snap.of = draft.snap.of /\ draft'.snap.from = draft.snap.from
        /\ draft'.snap.upto = draft.snap.upto
    BY <2>2, <2>3 DEF Snapshot
  <2>5. DraftIsDelta' /\ DebtIsKnown'
    BY <1>0, <1>1, <1>2, <2>1, <2>2, <2>3, <2>4 DEF DraftIsDelta, DebtIsKnown, Carried
  <2>6. HandshakeStage'
    BY <1>0, <1>1, <1>2, <1>3, <2>1, <2>3, <2>4, StageKept DEF Going, GoesOn, Continues
  <2> QED
    BY <1>2, <2>5, <2>6 DEF InSyncInv
<1>7. CASE Commit /\ UNCHANGED carried
  <2>1. /\ draft.phase = "built" /\ request = draft.request
        /\ request' = [request EXCEPT !.log_from = draft.snap.upto]
        /\ seq' = seq + 1 /\ UNCHANGED carried
        /\ owed' \in BOOLEAN /\ (owed' \/ CarriesAll)
        /\ draft' = [draft EXCEPT !.phase = "emit", !.seq = seq + 1, !.period = period]
    BY <1>7 DEF Commit
  <2>2. /\ request # NoRequest /\ request \in Request /\ request.context = context
        /\ Carried(Updates, context, draft.snap, carried)
        /\ draft.snap.guid = 0 /\ draft.snap.context = context
    BY <1>0, <2>1 DEF DraftIsDelta, DebtIsKnown, Carried
  <2>3. /\ draft'.phase = "emit" /\ draft'.seq = seq + 1 /\ draft'.snap = draft.snap
        /\ draft.snap.upto \in Nat
    BY <1>0, <2>1 DEF Draft, Snapshot
  <2>4. request' # NoRequest /\ request'.context = context /\ request'.log_from = draft.snap.upto
    <3>1. request' \in Request /\ request'.context = context /\ request'.log_from = draft.snap.upto
      BY <2>1, <2>2, <2>3 DEF Request
    <3> QED
      BY <3>1, ServiceAssumption DEF Request
  <2>5. DraftIsDelta'
    BY <1>0, <1>1, <1>2, <2>1, <2>2, <2>3, <2>4 DEF DraftIsDelta
  <2>6. DebtIsKnown'
    <3>1. ~owed' => draft.snap.upto = Len(Updates)
      BY <1>0, <2>1, <2>2 DEF CarriesAll
    <3> QED
      BY <1>0, <1>1, <1>2, <2>2, <2>4, <3>1 DEF DebtIsKnown
  <2>7. HandshakeStage'
    <3>1. \A w \in Seq(Message), s \in Nat, k \in 0..Len(Updates) :
             Going(w, s, k) => GoesOn(draft', seq', request'.log_from, w, s, k)
      <4> SUFFICES ASSUME NEW w \in Seq(Message), NEW s \in Nat, NEW k \in 0..Len(Updates), Going(w, s, k)
                   PROVE  GoesOn(draft', seq', request'.log_from, w, s, k)
        OBVIOUS
      <4>1. seq = s + Len(w) + 0 /\ Continues(draft.snap, Known(w, k))
        BY <2>1 DEF Going, GoesOn
      <4>2. seq' = s + Len(w) + 1 /\ draft'.seq = seq'
        BY <2>1, <2>3, <4>1
      <4> QED
        BY <2>3, <2>4, <4>1, <4>2 DEF GoesOn
    <3> QED
      BY <1>0, <1>1, <1>2, <1>3, <2>2, <2>4, <3>1, StageKept DEF Going
  <2> QED
    BY <1>2, <2>5, <2>6, <2>7 DEF InSyncInv
<1>8. CASE Discard
  BY <1>0, <1>8 DEF Discard, DraftIsDelta
<1> QED
  BY <1>4, <1>5, <1>6, <1>7, <1>8 DEF Construct

(* A push goes out behind those that went before, and never before the answer.      *)
LEMMA SyncedSend ==
    ASSUME OnlyDrops, SyncedInv, SendPush
    PROVE  InSyncInv'
<1> DEFINE m == [type |-> "push", seq |-> draft.seq, snap |-> draft.snap, items |-> carried]
<1>0. /\ Undisturbed /\ Exact(Updates, context, cursor, shown)
      /\ DraftIsDelta /\ DebtIsKnown /\ HandshakeStage
      /\ wire \in Seq(Message) /\ draft \in Draft /\ carried \in Page /\ lastSeq \in Nat
  BY SyncedFacts DEF SyncedInv, TypeInv, ServerTyped
<1>1. /\ draft.phase = "emit" /\ draft' = NoDraft /\ wire' = wire \o <<m>> /\ answers = <<>>
      /\ UNCHANGED <<link, request, seq, owed, log, touched, uplink, answers,
                     context, cursor, shown, mode, lastSeq, retry, flight, poll, spent>>
  BY DEF SendPush, Emit, OnlyDrops, subVars, tabVars, viewVars, retryVars, askVars
<1>2. Undisturbed' /\ Updates' = Updates /\ Exact(Updates, context, cursor, shown)'
  BY <1>0, <1>1 DEF Undisturbed, Updates
<1>3. /\ request # NoRequest /\ Carried(Updates, context, m.snap, m.items)
      /\ m.snap.guid = 0 /\ m \in PushMsg /\ m.seq = draft.seq /\ m.snap = draft.snap
  BY <1>0, <1>1 DEF DraftIsDelta, PushMsg, Draft
<1>4. DraftIsDelta' /\ DebtIsKnown'
  BY <1>0, <1>1, <1>2 DEF DraftIsDelta, DebtIsKnown, NoDraft
<1> HIDE DEF m
<1>5. ASSUME NEW w \in Seq(Message), NEW s \in Nat, NEW k, Going(w, s, k)
      PROVE  /\ Stream(Updates, context, w \o <<m>>, s, k)
             /\ GoesOn(NoDraft, seq, request.log_from, w \o <<m>>, s, k)
  <2>1. /\ seq = s + Len(w) + 1 /\ draft.seq = seq /\ request.log_from = draft.snap.upto
        /\ Continues(draft.snap, Known(w, k)) /\ Stream(Updates, context, w, s, k)
    BY <1>1, <1>5 DEF Going, GoesOn
  <2>2. Stream(Updates, context, w \o <<m>>, s, k) /\ Known(w \o <<m>>, k) = m.snap.upto
    BY <1>3, <2>1, StreamAppend
  <2>3. Len(w \o <<m>>) = Len(w) + 1 /\ Len(w) \in Nat /\ m.snap.upto \in Nat
    <3>1. m.snap.upto \in Nat
      BY <1>3 DEF PushMsg, Snapshot
    <3> QED
      BY <3>1
  <2>4. request.log_from = m.snap.upto
    BY <1>3, <2>1
  <2> QED
    BY <2>1, <2>2, <2>3, <2>4 DEF GoesOn, NoDraft
<1>6. ~Unasked /\ ~Asked /\ ~Accepted
  BY <1>1, <1>3 DEF Unasked, Asked, Accepted
<1>7. AnswerSent => AnswerSent'
  <2> SUFFICES ASSUME AnswerSent PROVE AnswerSent'
    OBVIOUS
  <2>1. /\ wire # <<>> /\ wire[1] = [type |-> "answer", id |-> flight.id]
        /\ uplink = <<>> /\ Going(Tail(wire), 1, cursor.version)
    BY DEF AnswerSent
  <2>2. Tail(wire) \in Seq(Message) /\ Tail(wire') = Tail(wire) \o <<m>> /\ wire'[1] = wire[1] /\ wire' # <<>>
    <3>1. m \in Message
      BY <1>3 DEF Message
    <3> QED
      BY <1>0, <1>1, <2>1, <3>1
  <2>3. /\ Stream(Updates, context, Tail(wire'), 1, cursor.version)
        /\ GoesOn(NoDraft, seq, request.log_from, Tail(wire'), 1, cursor.version)
    BY <1>5, <2>1, <2>2
  <2> QED
    BY <1>1, <1>2, <1>3, <2>1, <2>2, <2>3 DEF AnswerSent, Going
<1>8. Streaming => Streaming'
  <2> SUFFICES ASSUME Streaming PROVE Streaming'
    OBVIOUS
  <2>1. Going(wire, lastSeq, cursor.version) /\ uplink = <<>>
    BY DEF Streaming
  <2>2. /\ Stream(Updates, context, wire', lastSeq, cursor.version)
        /\ GoesOn(NoDraft, seq, request.log_from, wire', lastSeq, cursor.version)
    BY <1>0, <1>1, <1>5, <2>1
  <2> QED
    BY <1>1, <1>2, <1>3, <2>1, <2>2 DEF Streaming, Going
<1>9. HandshakeStage'
  BY <1>0, <1>1, <1>6, <1>7, <1>8 DEF HandshakeStage
<1> QED
  BY <1>2, <1>4, <1>9 DEF InSyncInv

(* The handshake: the request is accepted, and its answer goes out.                 *)
LEMMA SyncedHandle ==
    ASSUME SyncedInv, Handle \/ SendAnswer
    PROVE  InSyncInv'
<1>0. /\ Undisturbed /\ Exact(Updates, context, cursor, shown)
      /\ DraftIsDelta /\ DebtIsKnown /\ HandshakeStage
      /\ cursor.version \in 0..Len(Updates) /\ Len(Updates) \in Nat /\ TypeInv
  BY SyncedFacts DEF SyncedInv
<1>1. CASE Handle
  <2>1. /\ uplink # <<>> /\ uplink' = Tail(uplink) /\ answers' = answers \o <<Head(uplink).id>>
        /\ request' = [context |-> Head(uplink).context, log_from |-> 0]
        /\ seq' = 1 /\ owed' = TRUE
        /\ UNCHANGED <<link, draft, log, touched, carried, wire, context, cursor, shown, mode,
                       lastSeq, retry, flight, poll, spent>>
    BY <1>1 DEF Handle, Accept, SeqBase, tabVars, viewVars, retryVars, askVars
  <2>2. flight.sent = "yes" /\ flight # NoFlight /\ retry = "off" /\ Asked
    <3>1. ~Unasked /\ ~Accepted /\ ~AnswerSent /\ ~Streaming
      BY <2>1 DEF Unasked, NothingOnTheWay, Accepted, AnswerSent, Streaming
    <3> QED
      BY <1>0, <3>1 DEF HandshakeStage
  <2>3. /\ uplink = <<[id |-> flight.id, context |-> context]>> /\ request = NoRequest
        /\ answers = <<>> /\ wire = <<>> /\ draft.phase = "none" /\ mode # "DEGRADED"
    BY <1>0, <2>2 DEF Asked, DraftIsDelta, HandshakeStage, TypeInv, ServerTyped, Draft
  <2>4. /\ uplink' = <<>> /\ answers' = <<flight.id>>
        /\ request' = [context |-> context, log_from |-> 0]
    BY <2>1, <2>3
  <2>5. request' # NoRequest /\ request'.context = context /\ request'.log_from = 0
    <3>1. request' \in Request /\ request'.context = context /\ request'.log_from = 0
      BY <1>0, <2>4 DEF TypeInv, ViewTyped, Request, Chats
    <3> QED
      BY <3>1, ServiceAssumption DEF Request
  <2>6. Undisturbed' /\ Updates' = Updates /\ Exact(Updates, context, cursor, shown)'
    BY <1>0, <2>1 DEF Undisturbed, Updates
  <2>7. DraftIsDelta' /\ DebtIsKnown'
    BY <2>1, <2>3, <2>5 DEF DraftIsDelta, DebtIsKnown
  <2>8. Accepted'
    <3>1. Stream(Updates, context, <<>>, 1, cursor.version)
      BY DEF Stream
    <3>2. GoesOn(draft, 1, 0, <<>>, 1, cursor.version)
      BY <1>0, <2>3 DEF GoesOn, Known
    <3> QED
      BY <2>1, <2>3, <2>4, <2>5, <2>6, <3>1, <3>2 DEF Accepted, Going
  <2>9. HandshakeStage'
    BY <2>1, <2>2, <2>3, <2>8 DEF HandshakeStage
  <2> QED
    BY <2>6, <2>7, <2>9 DEF InSyncInv
<1>2. CASE SendAnswer
  <2>1. /\ answers # <<>> /\ wire' = wire \o <<[type |-> "answer", id |-> Head(answers)]>>
        /\ answers' = Tail(answers)
        /\ UNCHANGED <<link, request, seq, owed, draft, log, touched, carried, uplink,
                       context, cursor, shown, mode, lastSeq, retry, flight, poll, spent>>
    BY <1>2 DEF SendAnswer, serverVars, vars, subVars, tabVars, viewVars, retryVars, askVars
  <2>2. flight.sent = "yes" /\ flight # NoFlight /\ retry = "off" /\ Accepted
    <3>1. ~Unasked /\ ~Asked /\ ~AnswerSent /\ ~Streaming
      BY <2>1 DEF Unasked, NothingOnTheWay, Asked, AnswerSent, Streaming
    <3> QED
      BY <1>0, <3>1 DEF HandshakeStage
  <2>3. /\ answers = <<flight.id>> /\ wire = <<>> /\ uplink = <<>> /\ request # NoRequest
        /\ Going(<<>>, 1, cursor.version) /\ mode # "DEGRADED"
    BY <1>0, <2>2 DEF Accepted, HandshakeStage
  <2>4. /\ answers' = <<>> /\ wire' = <<[type |-> "answer", id |-> flight.id]>>
    BY <2>1, <2>3
  <2>5. wire' # <<>> /\ wire'[1] = [type |-> "answer", id |-> flight.id] /\ Tail(wire') = <<>>
    BY <2>4
  <2>6. Undisturbed' /\ Updates' = Updates /\ Exact(Updates, context, cursor, shown)'
    BY <1>0, <2>1 DEF Undisturbed, Updates
  <2>7. DraftIsDelta' /\ DebtIsKnown'
    BY <1>0, <2>1, <2>6 DEF DraftIsDelta, DebtIsKnown
  <2>8. AnswerSent'
    BY <2>1, <2>3, <2>4, <2>5, <2>6 DEF AnswerSent, Going
  <2>9. HandshakeStage'
    BY <2>1, <2>2, <2>3, <2>8 DEF HandshakeStage
  <2> QED
    BY <2>6, <2>7, <2>9 DEF InSyncInv
<1> QED
  BY <1>1, <1>2

(* The tab's requests: there is one only while the connection has seen none.        *)
LEMMA SyncedRequest ==
    ASSUME OnlyDrops, SyncedInv, Transmit \/ RetryFires \/ Connect \/ HandshakeFails \/ Drop
    PROVE  InSyncInv'
<1>0. /\ Undisturbed /\ Exact(Updates, context, cursor, shown)
      /\ DraftIsDelta /\ DebtIsKnown /\ HandshakeStage /\ DownIsEmpty /\ RetryAsks
      /\ FlightIsLatest /\ QueuedIsShown /\ queued = {}
      /\ calls \in Nat /\ flight \in Flight /\ TypeInv
      /\ spent \in [{"drops", "timeouts", "polls", "switches"} -> Nat]
  BY SyncedFacts DEF SyncedInv, TypeInv, AskTyped, SpentTyped
<1>1. ASSUME UNCHANGED <<log, touched, context, cursor, shown, poll>>, spent'.switches = spent.switches
      PROVE  Undisturbed' /\ Updates' = Updates /\ Exact(Updates, context, cursor, shown)'
  BY <1>0, <1>1 DEF Undisturbed, Updates
<1>2. ASSUME Unasked, UNCHANGED <<request, draft>> PROVE DraftIsDelta' /\ DebtIsKnown'
  BY <1>0, <1>2 DEF Unasked, DraftIsDelta, DebtIsKnown
<1>3. CASE Transmit
  <2> DEFINE r == [id |-> flight.id, context |-> flight.context]
  <2>1. /\ flight # NoFlight /\ flight.sent = "no"
        /\ flight' = [flight EXCEPT !.sent = "yes"] /\ uplink' = uplink \o <<r>>
        /\ UNCHANGED <<link, request, draft, log, touched, wire, answers, context, cursor, shown,
                       mode, retry, poll, spent>>
    BY <1>3 DEF Transmit, viewVars, retryVars, serverVars, vars, subVars
  <2>2. Unasked /\ flight.context = context /\ retry = "off" /\ mode # "DEGRADED"
    BY <1>0, <2>1 DEF HandshakeStage, QueuedIsShown
  <2>3. flight'.id = flight.id /\ flight'.sent = "yes" /\ flight' # NoFlight
    BY <1>0, <2>1 DEF Flight, NoFlight
  <2>4. uplink' = <<[id |-> flight'.id, context |-> context]>>
    BY <2>1, <2>2, <2>3 DEF Unasked, NothingOnTheWay
  <2>5. HandshakeStage'
    BY <2>1, <2>2, <2>3, <2>4 DEF HandshakeStage, Unasked, NothingOnTheWay, Asked
  <2> QED
    BY <1>1, <1>2, <2>1, <2>2, <2>5 DEF InSyncInv
<1>4. ASSUME Disconnect, spent'.switches = spent.switches PROVE InSyncInv'
  <2>1. /\ link' = "new" /\ request' = NoRequest /\ draft' = NoDraft
        /\ wire' = <<>> /\ uplink' = <<>> /\ answers' = <<>>
        /\ mode' = "DISCONNECTED" /\ retry' = "off"
        /\ flight' = IF flight.sent = "yes" THEN [flight EXCEPT !.sent = "lost"] ELSE flight
        /\ UNCHANGED <<log, touched, context, cursor, shown, poll>>
    BY <1>4 DEF Disconnect, viewVars
  <2>2. Unasked' /\ flight'.sent # "yes"
    BY <1>0, <2>1 DEF Unasked, NothingOnTheWay, Flight
  <2>3. DraftIsDelta' /\ DebtIsKnown'
    BY <2>1 DEF DraftIsDelta, DebtIsKnown, NoDraft
  <2>4. HandshakeStage'
    BY <2>1, <2>2 DEF HandshakeStage
  <2> QED
    BY <1>1, <1>4, <2>1, <2>3, <2>4 DEF InSyncInv
<1>5. CASE Drop
  <2>1. spent'.switches = spent.switches
    BY <1>0, <1>5 DEF Drop, Spend
  <2> QED
    BY <1>4, <1>5, <2>1 DEF Drop
<1>6. CASE RetryFires
  <2>1. CASE Disconnect
    BY <1>4, <1>6, <2>1 DEF RetryFires
  <2>2. CASE ~Disconnect
    <3>1. /\ retry # "off" /\ retry' = "off" /\ (needsHandshake => SendStateRequest(context, mode))
          /\ UNCHANGED <<link, request, draft, log, touched, wire, uplink, answers,
                         context, cursor, shown, poll, spent>>
      BY <1>6, <2>2 DEF RetryFires, serverVars, vars, subVars, channelVars, viewVars
    <3>2. flight = NoFlight /\ Unasked /\ SendStateRequest(context, mode)
      BY <1>0, <3>1 DEF HandshakeStage, RetryAsks
    <3>3. flight' = [id |-> calls + 1, context |-> context, sent |-> "no"] /\ mode' = "HANDSHAKE_PENDING"
      BY <3>2 DEF SendStateRequest, Start
    <3>4. flight' # NoFlight /\ flight'.sent = "no" /\ Unasked'
      BY <1>0, <3>1, <3>2, <3>3, StartIsFlight DEF Unasked, NothingOnTheWay
    <3>5. HandshakeStage'
      BY <3>1, <3>3, <3>4 DEF HandshakeStage
    <3> QED
      BY <1>1, <1>2, <3>1, <3>2, <3>5 DEF InSyncInv
  <2> QED
    BY <2>1, <2>2
<1>7. CASE Connect
  <2>1. /\ link = "new" /\ link' = "up" /\ retry' = "off" /\ SendStateRequest(context, mode)
        /\ UNCHANGED <<request, draft, log, touched, wire, uplink, answers,
                       context, cursor, shown, poll, spent>>
    BY <1>7 DEF Connect, Up, OnConnect, subVars, channelVars, viewVars
  <2>2. Unasked /\ Unasked' /\ flight.sent # "yes"
    BY <1>0, <2>1 DEF DownIsEmpty, Unasked, NothingOnTheWay, FlightIsLatest
  <2>3. flight' # NoFlight /\ flight'.sent # "yes" /\ mode' # "DEGRADED"
    <3>1. CASE flight = NoFlight
      <4>1. /\ flight' = [id |-> calls + 1, context |-> context, sent |-> "no"]
            /\ mode' = "HANDSHAKE_PENDING"
        BY <2>1, <3>1 DEF SendStateRequest, Start
      <4> QED
        BY <1>0, <4>1, StartIsFlight
    <3>2. CASE flight # NoFlight
      BY <1>0, <2>1, <2>2, <3>2 DEF SendStateRequest, HandshakeStage
    <3> QED
      BY <3>1, <3>2
  <2>4. HandshakeStage'
    BY <2>1, <2>2, <2>3 DEF HandshakeStage
  <2> QED
    BY <1>1, <1>2, <2>1, <2>2, <2>4 DEF InSyncInv
<1>8. CASE HandshakeFails
  <2>1. BrokenRequestEnds /\ UNCHANGED spent
    BY <1>0, <1>8 DEF HandshakeFails, Spend, OnlyDrops
  <2>2. /\ flight # NoFlight /\ flight.sent = "lost" /\ EndRequest(IF link = "up" THEN "DEGRADED" ELSE "DISCONNECTED")
        /\ (link = "up" => retry' # "off")
        /\ UNCHANGED <<link, request, draft, log, touched, wire, uplink, answers,
                       context, cursor, shown, poll>>
    BY <1>8, <2>1 DEF HandshakeFails, BrokenRequestEnds, serverVars, vars, subVars, channelVars, viewVars
  <2>3. Unasked /\ Unasked' /\ flight' = NoFlight
    BY <1>0, <2>2 DEF HandshakeStage, Unasked, NothingOnTheWay, EndRequest
  <2>4. HandshakeStage'
    BY <2>2, <2>3 DEF HandshakeStage, NoFlight
  <2> QED
    BY <1>1, <1>2, <2>1, <2>2, <2>3, <2>4 DEF InSyncInv
<1> QED
  BY <1>3, <1>5, <1>6, <1>7, <1>8

(* The answer arrives before the first push, and opens the stream.                  *)
LEMMA SyncedAnswer ==
    ASSUME SyncedInv, ReceiveAnswer
    PROVE  InSyncInv'
<1>0. /\ Undisturbed /\ Exact(Updates, context, cursor, shown)
      /\ DraftIsDelta /\ DebtIsKnown /\ HandshakeStage /\ queued = {}
  BY SyncedFacts
<1>1. /\ wire # <<>> /\ Head(wire).type = "answer" /\ wire' = Tail(wire)
      /\ UNCHANGED <<link, request, seq, owed, draft, log, touched, carried, uplink, answers,
                     context, cursor, shown, poll, spent>>
  BY DEF ReceiveAnswer, serverVars, vars, subVars, viewVars
<1>2. Head(wire) = wire[1] /\ 1 \in 1..Len(wire)
  BY <1>1, SyncedFacts, NotEmpty
<1>3. AnswerSent /\ flight # NoFlight
  <2>1. ~Unasked /\ ~Asked /\ ~Accepted
    BY <1>1 DEF Unasked, NothingOnTheWay, Asked, Accepted
  <2>2. ~Streaming
    BY <1>1, <1>2 DEF Streaming, Going, Stream
  <2> QED
    BY <1>0, <2>1, <2>2 DEF HandshakeStage
<1>4. /\ request # NoRequest /\ uplink = <<>> /\ answers = <<>> /\ flight.id = Head(wire).id
      /\ Going(Tail(wire), 1, cursor.version)
  BY <1>2, <1>3 DEF AnswerSent
<1>5. lastSeq' = 1 /\ retry' = "off" /\ flight' = NoFlight /\ mode' = "HEALTHY"
  BY <1>0, <1>3, <1>4 DEF ReceiveAnswer, SeqBase, EndRequest
<1>6. Undisturbed' /\ Updates' = Updates /\ Exact(Updates, context, cursor, shown)'
  BY <1>0, <1>1 DEF Undisturbed, Updates
<1>7. DraftIsDelta' /\ DebtIsKnown'
  BY <1>0, <1>1, <1>5, <1>6 DEF DraftIsDelta, DebtIsKnown
<1>8. Streaming'
  BY <1>1, <1>4, <1>5, <1>6 DEF Streaming, Going
<1>9. HandshakeStage'
  BY <1>5, <1>8 DEF HandshakeStage, NoFlight
<1> QED
  BY <1>6, <1>7, <1>9 DEF InSyncInv

(* A push is the next of the stream, and completes the page up to its end.          *)
LEMMA SyncedPush ==
    ASSUME SyncedInv, ReceivePush
    PROVE  InSyncInv' /\ Updates' = Updates /\ cursor.version <= cursor'.version
<1> DEFINE m == Head(wire)
<1>0. /\ Undisturbed /\ Exact(Updates, context, cursor, shown)
      /\ DraftIsDelta /\ DebtIsKnown /\ HandshakeStage
      /\ Updates \in Seq(Items) /\ cursor.version \in 0..Len(Updates) /\ Len(Updates) \in Nat
      /\ wire \in Seq(Message) /\ lastSeq \in Nat /\ context \in Chats
      /\ shown \in [Items -> [log : Guids, version : Nat]]
  BY SyncedFacts DEF SyncedInv, TypeInv, ViewTyped
<1>1. /\ wire # <<>> /\ m.type = "push" /\ wire' = Tail(wire)
      /\ UNCHANGED <<link, request, seq, owed, draft, log, touched, carried, uplink, answers,
                     context, retry, poll, spent>>
  BY DEF ReceivePush, serverVars, vars, subVars, retryVars
<1>2. m = wire[1] /\ 1 \in 1..Len(wire) /\ Len(wire) \in Nat
  BY <1>0, <1>1, NotEmpty
<1>3. Streaming /\ flight = NoFlight /\ retry = "off"
  <2>1. ~Unasked /\ ~Asked /\ ~Accepted
    BY <1>1 DEF Unasked, NothingOnTheWay, Asked, Accepted
  <2>2. ~AnswerSent
    BY <1>1, <1>2 DEF AnswerSent
  <2> QED
    BY <1>0, <2>1, <2>2 DEF HandshakeStage
<1>4. /\ request # NoRequest /\ uplink = <<>> /\ answers = <<>> /\ mode # "DEGRADED"
      /\ Stream(Updates, context, wire, lastSeq, cursor.version)
      /\ GoesOn(draft, seq, request.log_from, wire, lastSeq, cursor.version)
  BY <1>0, <1>3 DEF Streaming, Going, DebtIsKnown
<1>5. /\ m.seq = lastSeq + 1 /\ m.snap.guid = 0
      /\ Carried(Updates, context, m.snap, m.items) /\ Continues(m.snap, cursor.version)
  BY <1>2, <1>4 DEF Stream
<1>6. m.snap \in Snapshot /\ m.items \in Page
  <2>1. m \in PushMsg
    BY <1>0, <1>1, <1>2 DEF Message, AnswerMsg
  <2> QED
    BY <2>1 DEF PushMsg
<1>7. /\ m.snap.context = context /\ m.snap.of = 0 /\ SnapGuid(m.snap) = Guid(context, 0)
      /\ m.snap.from \in Nat /\ m.snap.upto \in 0..Len(Updates)
      /\ m.snap.from <= cursor.version /\ cursor.version <= m.snap.upto
      /\ m.items = Delta(Updates, m.snap.from, m.snap.upto)
  BY <1>0, <1>5, <1>6 DEF Carried, Continues, SnapGuid, Snapshot
<1>8. ForThisChat(m.snap) /\ ~WasReset(m.snap) /\ InSequence(m.seq)
  BY <1>0, <1>5, <1>7 DEF ForThisChat, WasReset, InSequence, Exact
<1>9. /\ lastSeq' = m.seq /\ Apply(m.snap, m.items) /\ mode' = "HEALTHY" /\ UNCHANGED <<flight, queued, calls>>
  BY <1>4, <1>8 DEF ReceivePush, askVars
<1>10. /\ cursor' = [guid |-> Guid(context, 0), version |-> m.snap.upto]
       /\ shown' = IF cursor.version # m.snap.upto THEN SetMessages(m.snap, m.items) ELSE shown
  <2>1. (IF cursor.guid = SnapGuid(m.snap) THEN cursor.version ELSE 0) = cursor.version
    BY <1>0, <1>7 DEF Exact
  <2> QED
    BY <1>7, <1>9, <2>1 DEF Apply
<1>11. \A i \in Items : shown'[i] = ItemAt(Updates, context, m.snap.upto, i)
  <2> SUFFICES ASSUME NEW i \in Items PROVE shown'[i] = ItemAt(Updates, context, m.snap.upto, i)
    OBVIOUS
  <2>1. shown[i] = ItemAt(Updates, context, cursor.version, i)
    BY <1>0 DEF Exact
  <2>2. CASE cursor.version = m.snap.upto
    BY <1>10, <2>1, <2>2
  <2>3. CASE cursor.version # m.snap.upto
    <3>1. shown'[i] = IF m.items[i] = 0 THEN shown[i]
                      ELSE [log |-> Guid(context, 0), version |-> m.items[i]]
      BY <1>7, <1>10, <2>3 DEF SetMessages
    <3>2. ItemAt(Updates, context, m.snap.upto, i) =
             IF Delta(Updates, m.snap.from, m.snap.upto)[i] = 0
             THEN ItemAt(Updates, context, cursor.version, i)
             ELSE [log |-> Guid(context, 0), version |-> Delta(Updates, m.snap.from, m.snap.upto)[i]]
      BY <1>0, <1>7, DeltaCompletes
    <3> QED
      BY <1>7, <2>1, <3>1, <3>2
  <2> QED
    BY <2>2, <2>3
<1>12. Undisturbed' /\ Updates' = Updates
  BY <1>0, <1>1 DEF Undisturbed, Updates
<1>13. Exact(Updates, context, cursor, shown)'
  <2>1. /\ cursor'.version = m.snap.upto /\ cursor'.guid = Guid(context, 0)
        /\ Guid(context, 0) = NoGuid => m.snap.upto = 0
    <3>1. context = NoContext => Updates = <<>>
      BY ServiceAssumption DEF Updates
    <3>2. Guid(context, 0) = NoGuid => context = NoContext
      BY DEF Guid, NoGuid
    <3>3. context = NoContext => Len(Updates) = 0
      BY <3>1
    <3> QED
      BY <1>7, <1>10, <3>2, <3>3
  <2>2. Exact(Updates, context, cursor', shown')
    BY <1>7, <1>11, <2>1 DEF Exact
  <2> QED
    BY <1>1, <1>12, <2>2
<1>14. DraftIsDelta' /\ DebtIsKnown'
  BY <1>0, <1>1, <1>9, <1>12 DEF DraftIsDelta, DebtIsKnown
<1>15. Streaming'
  <2>1. /\ Stream(Updates, context, Tail(wire), lastSeq + 1, m.snap.upto)
        /\ Known(Tail(wire), m.snap.upto) = Known(wire, cursor.version)
    BY <1>0, <1>1, <1>2, <1>4, StreamTail
  <2>2. GoesOn(draft, seq, request.log_from, Tail(wire), lastSeq + 1, m.snap.upto)
    <3>1. Len(wire) = Len(Tail(wire)) + 1 /\ Len(Tail(wire)) \in Nat
      BY <1>0, <1>1, NotEmpty
    <3>2. lastSeq + Len(wire) = (lastSeq + 1) + Len(Tail(wire))
      <4> DEFINE n == Len(Tail(wire))
                 l == Len(wire)
      <4>1. l = n + 1 /\ n \in Nat /\ lastSeq \in Nat
        BY <1>0, <3>1
      <4> HIDE DEF n, l
      <4>2. lastSeq + l = (lastSeq + 1) + n
        BY <4>1
      <4> QED
        BY <4>2 DEF n, l
    <3> QED
      BY <1>4, <2>1, <3>2 DEF GoesOn
  <2>3. lastSeq' = lastSeq + 1 /\ cursor'.version = m.snap.upto
    BY <1>5, <1>9, <1>10
  <2> QED
    BY <1>1, <1>4, <1>12, <2>1, <2>2, <2>3 DEF Streaming, Going
<1>16. HandshakeStage'
  BY <1>1, <1>3, <1>9, <1>15 DEF HandshakeStage, NoFlight
<1> QED
  BY <1>7, <1>10, <1>12, <1>13, <1>14, <1>16 DEF InSyncInv

LEMMA SyncedInvStep ==
    ASSUME OnlyDrops, SyncedInv, [SyncNext]_allVars
    PROVE  SyncedInv'
<1>0. TypeInv' /\ SubscribedInv'
  <2>1. MaxSwitches <= 1
    BY DEF OnlyDrops
  <2> QED
    BY <2>1, TypeInvStep, SubscribedInvStep DEF SyncedInv
<1>1. /\ Undisturbed /\ TypeInv
      /\ spent \in [{"drops", "timeouts", "polls", "switches"} -> Nat]
  BY SyncedFacts DEF SyncedInv, TypeInv, SpentTyped
<1> SUFFICES InSyncInv'
  BY <1>0 DEF SyncedInv
<1>2. CASE Construct
  BY <1>2, SyncedConstruct
<1>3. CASE SendPush
  BY <1>3, SyncedSend
<1>4. CASE Handle \/ SendAnswer
  BY <1>4, SyncedHandle
<1>5. ASSUME NEW c \in Contexts, NEW i \in Items, Write(c, i) PROVE InSyncInv'
  BY <1>5, SyncedWrite
<1>6. ASSUME NEW c \in Contexts PROVE ~Restart(c)
  BY <1>1 DEF Restart, ResetLog, OnlyDrops, Undisturbed
<1>7. CASE Transmit \/ RetryFires \/ Connect \/ HandshakeFails \/ Drop
  BY <1>7, SyncedRequest
<1>8. CASE ReceiveAnswer
  BY <1>8, SyncedAnswer
<1>9. CASE ReceivePush
  BY <1>9, SyncedPush
<1>10. ~PollOutput /\ ~PollLabel /\ ~PollAnswered /\ ~PollFails
  BY <1>1 DEF PollOutput, PollLabel, PollAnswered, PollFails, Undisturbed, NoPoll
<1>11. ~PollStart /\ \A c \in Contexts \cup {NoContext} : ~SetContext(c)
  BY <1>1 DEF PollStart, SetContext, Spend, OnlyDrops
<1>12. CASE UNCHANGED allVars
  BY <1>12, SyncedFacts
     DEF SyncedInv, InSyncInv, allVars, serverVars, vars, subVars, channelVars, tabVars, viewVars,
         retryVars, askVars, Undisturbed, Updates, DraftIsDelta, DebtIsKnown, HandshakeStage,
         Unasked, NothingOnTheWay, Asked, Accepted, AnswerSent, Streaming, Going
<1> QED
  BY <1>2, <1>3, <1>4, <1>5, <1>6, <1>7, <1>8, <1>9, <1>10, <1>11, <1>12
     DEF SyncNext, ServerStep, TabStep

\* Whatever is written, and however often the connection breaks in the middle of it:
\* when all has come to rest, the tab shows every message of its chat with its latest
\* content, and nothing else. The invariant says why: what the page knows, what is on
\* the wire and what the server works on are consecutive pieces of the same log.
THEOREM DropsLoseNothing ==
    ASSUME OnlyDrops
    PROVE  SyncSpec => []QuietMeansInSync
<1>1. SyncInit => SyncedInv
  BY TypeInvInit, SubscribedInvInit, InSyncInvInit DEF SyncedInv
<1>2. SyncedInv /\ [SyncNext]_allVars => SyncedInv'
  BY SyncedInvStep
<1>3. SyncedInv => QuietMeansInSync
  <2> SUFFICES ASSUME SyncedInv, Quiet, NEW i \in Items PROVE shown[i] = Latest(i)
    BY DEF QuietMeansInSync, InSync
  <2>1. /\ Undisturbed /\ Exact(Updates, context, cursor, shown)
        /\ DraftIsDelta /\ DebtIsKnown /\ HandshakeStage
        /\ Len(Updates) \in Nat /\ Len(Updates) = LogEnd(context)
        /\ cursor.version \in 0..Len(Updates)
    BY SyncedFacts
  <2>2. Streaming
    BY <2>1 DEF Quiet, HandshakeStage
  <2>3. cursor.version = Len(Updates)
    <3>1. request # NoRequest /\ request.log_from <= cursor.version
      BY <2>2 DEF Quiet, Streaming, Going, GoesOn, Known, NoDraft
    <3>2. request.log_from = Len(Updates)
      BY <2>1, <3>1 DEF Quiet, DebtIsKnown
    <3> QED
      BY <2>1, <3>1, <3>2
  <2>4. shown[i] = ItemAt(Updates, context, LogEnd(context), i)
    BY <2>1, <2>3 DEF Exact
  <2>5. CASE context \in Contexts
    BY <2>1, <2>4, <2>5 DEF ItemAt, Latest, Updates, LogEnd, Undisturbed
  <2>6. CASE context \notin Contexts
    <3>1. LogEnd(context) = 0
      BY <2>6 DEF LogEnd
    <3>2. Content(Updates, 0, i) = 0
      BY NoContent
    <3> QED
      BY <2>4, <2>6, <3>1, <3>2 DEF ItemAt, Latest
  <2> QED
    BY <2>5, <2>6
<1> QED
  BY <1>1, <1>2, <1>3, PTL DEF SyncSpec

\* And on the way there no message on display ever falls back to an older content.
THEOREM DropsNeverRevert ==
    ASSUME OnlyDrops
    PROVE  SyncSpec => NeverStale
<1>1. SyncInit => SyncedInv
  BY TypeInvInit, SubscribedInvInit, InSyncInvInit DEF SyncedInv
<1>2. SyncedInv /\ [SyncNext]_allVars => SyncedInv'
  BY SyncedInvStep
<1> DEFINE Kept == \A i \in Items : shown'[i].log = shown[i].log /\ shown[i] # Blank
                                       => shown'[i].version >= shown[i].version
<1>3. SyncedInv /\ [SyncNext]_allVars => Kept
  <2> SUFFICES ASSUME SyncedInv, [SyncNext]_allVars, NEW i \in Items
               PROVE  shown'[i].version >= shown[i].version
    OBVIOUS
  <2>1. /\ Exact(Updates, context, cursor, shown) /\ Undisturbed
        /\ cursor.version \in 0..Len(Updates) /\ Len(Updates) \in Nat
        /\ shown \in [Items -> [log : Guids, version : Nat]]
    BY SyncedFacts DEF SyncedInv, TypeInv, ViewTyped
  <2>2. CASE ReceivePush
    <3>1. /\ Exact(Updates', context', cursor', shown') /\ Updates' = Updates
          /\ cursor.version <= cursor'.version /\ cursor'.version \in Nat
      BY <2>2, SyncedPush, SyncedInvStep DEF InSyncInv, SyncedInv, TypeInv, ViewTyped
    <3>2. /\ shown[i] = ItemAt(Updates, context, cursor.version, i)
          /\ shown'[i] = ItemAt(Updates, context', cursor'.version, i)
      BY <2>1, <3>1 DEF Exact
    <3>3. Content(Updates, cursor.version, i) <= Content(Updates, cursor'.version, i)
      BY <2>1, <3>1, ContentMonotone
    <3>4. shown[i].version = Content(Updates, cursor.version, i)
      BY <3>2 DEF ItemAt, Blank
    <3>5. shown'[i].version = Content(Updates, cursor'.version, i)
      BY <3>2 DEF ItemAt, Blank
    <3>6. Content(Updates, cursor.version, i) \in Nat /\ Content(Updates, cursor'.version, i) \in Nat
      BY <2>1, <3>1, ContentBound
    <3> QED
      BY <3>3, <3>4, <3>5, <3>6
  <2>3. CASE ~ReceivePush
    <3>1. /\ ~PollAnswered /\ \A c \in Contexts \cup {NoContext} : ~SetContext(c)
          /\ spent \in [{"drops", "timeouts", "polls", "switches"} -> Nat]
      BY <2>1 DEF PollAnswered, SetContext, Spend, OnlyDrops, Undisturbed, NoPoll, SyncedInv, TypeInv, SpentTyped
    <3>2. shown' = shown
      BY <2>3, <3>1 DEF SyncNext, ServerStep, TabStep, Construct, SendPush, Handle, SendAnswer, Restart, Write,
         Transmit, RetryFires, Disconnect, Connect, HandshakeFails, Drop, ReceiveAnswer, PollStart,
         PollOutput, PollLabel, PollFails, allVars, tabVars, viewVars
    <3> QED
      BY <2>1, <3>2
  <2> QED
    BY <2>2, <2>3
<1>4. SyncSpec => []SyncedInv
  BY <1>1, <1>2, PTL DEF SyncSpec
<1> QED
  BY <1>3, <1>4, PTL DEF SyncSpec, NeverStale

=============================================================================
