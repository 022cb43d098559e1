----------------------------- MODULE ChatQueue -----------------------------
(***************************************************************************)
(* The queue of messages of a chat: message-queue-store.js and sendMessage *)
(* of index.js in the browser, the handlers message_queue_*.py and the     *)
(* helpers/message_queue.py they share on the server, and the hook         *)
(* _50_process_queue.py that sends the next message when a run ends.       *)
(*                                                                         *)
(* Handlers run in threads of their own and the hook on the thread of the  *)
(* agents; helpers/message_queue.py holds no lock. An operation of it is a *)
(* sequence of steps: get the list, change it or a copy, set it, read it   *)
(* once more, publish it. Lists have an identity: two operations may hold  *)
(* the same one, or one that is no longer the queue.                       *)
(*                                                                         *)
(* One chat and one tab. A message is the number it was typed at; texts,   *)
(* attachments and their upload, and switching to another chat, are left   *)
(* out. What a message that was sent does to the agent is in AgentTasks.   *)
(* Nothing is claimed of what follows a race of two operations (raced),    *)
(* and it is not followed.                                                 *)
(***************************************************************************)
EXTENDS Naturals, FiniteSets, SequencesExt

CONSTANTS
    MaxItems,     \* bound: messages the user types
    MaxOps,       \* bound: operations under way on the server at a time
    MaxActs,      \* bound: clicks on the list (remove, clear, send one, send all) and
                  \*   requests that fail
    MaxSenders    \* bound: hooks that wait for the chat to be idle

ASSUME QueueAssumption ==
    /\ MaxItems \in Nat \ {0} /\ MaxOps \in Nat \ {0} /\ MaxSenders \in Nat \ {0}
    /\ MaxActs \in Nat

Items == 1..MaxItems
None == 0
Ops == 1..MaxOps
Lists == 1..(2 * MaxOps + 2)

VARIABLES
    heap, cell,   \* the lists; the one in context.data, None before the first
    output,       \* the queue as output_data has it
    ops,          \* operations under way
    running,      \* the chain of the chat: "no", "yes", or "ending" after its hooks
    senders,      \* tasks in _delayed_send
    accepted,     \* ghost: messages appended to a list of the queue
    sent,         \* ghost: how often a message was given to communicate
    removed,      \* ghost: messages an operation took off the queue
    raced,        \* ghost: an operation changed a list that was no longer the queue, or
                  \*   wrote back what another had changed
    typed,        \* messages typed
    direct,       \* messages sent without the queue, under way
    pending,      \* pendingItems
    chain,        \* adds that wait for the one before, _lastAddToQueuePromise
    adding,       \* the add under way
    givenUp,      \* messages whose request failed, or that were removed while pending
    shown, busy,  \* message_queue and running of the snapshot the tab shows
    acts

server == <<heap, cell, output, ops>>
agent == <<running, senders>>
ghosts == <<accepted, sent, removed, raced>>
tab == <<typed, direct, pending, chain, adding, givenUp, shown, busy>>
vars == <<server, agent, ghosts, tab, acts>>

NoOp == [kind |-> "none", item |-> None, at |-> "-", list |-> None, from |-> None,
         seen |-> <<>>, hand |-> <<>>]
Content(c) == IF c = None THEN <<>> ELSE heap[c]
Queue == Content(cell)

Init ==
    /\ heap = [l \in Lists |-> <<>>] /\ cell = None /\ output = <<>>
    /\ ops = [k \in Ops |-> NoOp]
    /\ running \in {"no", "yes"} /\ senders = 0
    /\ accepted = {} /\ sent = [i \in Items |-> 0] /\ removed = {} /\ raced = FALSE
    /\ typed = 0 /\ direct = {} /\ pending = {} /\ chain = <<>> /\ adding = None
    /\ givenUp = {} /\ shown = <<>> /\ busy = (running = "yes")
    /\ acts = 0

-----------------------------------------------------------------------------
(* The server, helpers/message_queue.py.                                   *)

\* A new list, and the lists nobody holds any more.
Held(c, os) == {c} \cup UNION {{os[k].list, os[k].from} : k \in Ops}
FreshList == CHOOSE l \in Lists : l \notin Held(cell, ops)
Write(h, c, os) ==
    /\ heap' = [l \in Lists |-> IF l \in Held(c, os) THEN h[l] ELSE <<>>]
    /\ cell' = c /\ ops' = os

Step(k, o) == Write(heap, cell, [ops EXCEPT ![k] = o])
End(k) == Step(k, NoOp)

FreeOp == CHOOSE k \in Ops : ops[k] = NoOp /\ \A j \in Ops : j < k => ops[j] # NoOp
Begin(kind, i) ==
    /\ ~raced /\ \E k \in Ops : ops[k] = NoOp
    /\ Step(FreeOp, [NoOp EXCEPT !.kind = kind, !.item = i,
                                 !.at = IF kind = "clear" THEN "set" ELSE "get"])

\* get_queue returns a new list when there is none or it is empty. remove copies the
\* rest: a list has a message once (TypeOK). To send, there must be something.
Get(k) ==
    LET o == ops[k]
        fresh == o.kind = "remove" \/ Queue = <<>>
        list == IF fresh THEN FreshList ELSE cell
        rest == IF o.kind = "remove" THEN RemoveFirst(Queue, o.item) ELSE Queue
        got == [o EXCEPT !.list = list, !.from = cell, !.seen = Queue,
                         !.at = IF o.kind = "remove" THEN "set" ELSE "change"]
    IN  /\ o.at = "get"
        /\ IF Queue = <<>> /\ o.kind \in {"next", "send", "all"}
           THEN IF o.hand = <<>> THEN End(k) ELSE Step(k, [o EXCEPT !.at = "send"])
           ELSE Write([heap EXCEPT ![list] = rest], cell, [ops EXCEPT ![k] = got])
        /\ UNCHANGED <<output, ghosts, running>>

\* Mutant: a message is read and not popped.
ChangeKeepsItem(k) ==
    LET o == ops[k]
        i == IF o.kind \in {"add", "send"} THEN o.item ELSE Head(heap[o.list])
    IN  /\ o.at = "change"
        /\ IF o.kind = "add"
           THEN /\ Write([heap EXCEPT ![o.list] = Append(heap[o.list], i)], cell,
                         [ops EXCEPT ![k].at = "set"])
                /\ accepted' = accepted \cup {i}
           ELSE IF heap[o.list] = <<>> \/ (o.kind = "send" /\ i \notin ToSet(heap[o.list]))
           THEN End(k) /\ UNCHANGED accepted
           ELSE /\ Step(k, [o EXCEPT !.at = "set", !.hand = Append(@, i)])
                /\ UNCHANGED accepted
        /\ UNCHANGED <<output, sent, removed, raced, running>>

\* append, pop(0), or pop of the message. A list that another one emptied makes pop(0)
\* raise, and what was popped before is gone.
Change(k) ==
    LET o == ops[k]
        list == heap[o.list]
        i == IF o.kind \in {"add", "send"} THEN o.item ELSE Head(list)
        gone == cell # o.from
        taken == [o EXCEPT !.at = "set", !.hand = Append(@, i)]
    IN  /\ o.at = "change"
        /\ IF o.kind = "add"
           THEN /\ Write([heap EXCEPT ![o.list] = Append(list, i)], cell,
                         [ops EXCEPT ![k].at = "set"])
                /\ accepted' = accepted \cup {i} /\ raced' = (raced \/ gone)
           ELSE IF list = <<>> \/ (o.kind = "send" /\ i \notin ToSet(list))
           THEN /\ End(k)
                /\ raced' = (raced \/ o.hand # <<>>) /\ UNCHANGED accepted
           ELSE /\ Write([heap EXCEPT ![o.list] = RemoveFirst(list, i)], cell,
                         [ops EXCEPT ![k] = taken])
                /\ raced' = (raced \/ gone) /\ UNCHANGED accepted
        /\ UNCHANGED <<output, sent, removed, running>>

\* Mutant: pop_first does not publish what is left.
SetUnpublished(k) ==
    LET o == ops[k]
        list == IF o.kind = "clear" THEN FreshList ELSE o.list
        stale == cell # o.from \/ (list # o.from /\ Queue # o.seen)
    IN  /\ o.at = "set"
        /\ Write(heap, list, [ops EXCEPT ![k].list = None, ![k].from = None, ![k].seen = <<>>,
                                         ![k].at = CASE o.kind = "clear" -> "publish"
                                                     [] o.kind = "next" -> "send"
                                                     [] OTHER -> "sync"])
        /\ raced' = (raced \/ (o.kind # "clear" /\ stale))
        /\ removed' = removed \cup CASE o.kind = "clear" -> ToSet(Queue)
                                     [] o.kind = "remove" -> {o.item} \cap ToSet(Queue)
                                     [] OTHER -> {}
        /\ UNCHANGED <<output, accepted, sent, running>>

\* context.set_data. clear sets an empty list whatever there was.
Set(k) ==
    LET o == ops[k]
        list == IF o.kind = "clear" THEN FreshList ELSE o.list
        stale == cell # o.from \/ (list # o.from /\ Queue # o.seen)
    IN  /\ o.at = "set"
        /\ Write(heap, list, [ops EXCEPT ![k].list = None, ![k].from = None, ![k].seen = <<>>,
                                         ![k].at = IF o.kind = "clear" THEN "publish" ELSE "sync"])
        /\ raced' = (raced \/ (o.kind # "clear" /\ stale))
        /\ removed' = removed \cup CASE o.kind = "clear" -> ToSet(Queue)
                                     [] o.kind = "remove" -> {o.item} \cap ToSet(Queue)
                                     [] OTHER -> {}
        /\ UNCHANGED <<output, accepted, sent, running>>

\* _sync_output reads the queue and publishes what it read.
Sync(k) ==
    /\ ops[k].at = "sync"
    /\ Step(k, [ops[k] EXCEPT !.at = "publish", !.seen = Queue])
    /\ UNCHANGED <<output, ghosts, running>>

Publish(k) ==
    LET o == ops[k]
        on == [o EXCEPT !.seen = <<>>, !.at = IF o.kind = "all" THEN "get" ELSE "send"]
    IN  /\ o.at = "publish"
        /\ output' = o.seen
        /\ raced' = (raced \/ o.seen # Queue)
        /\ IF o.kind \in {"add", "remove", "clear"} THEN End(k) ELSE Step(k, on)
        /\ UNCHANGED <<accepted, sent, removed, running>>

\* communicate starts a run, or tells the one there is.
Communicate(is) ==
    /\ sent' = [i \in Items |-> IF i \in is THEN sent[i] + 1 ELSE sent[i]]
    /\ running' = IF running = "no" THEN "yes" ELSE running

Send(k) ==
    /\ ops[k].at = "send"
    /\ Communicate(ToSet(ops[k].hand))
    /\ End(k)
    /\ UNCHANGED <<output, accepted, removed, raced>>

Operate ==
    /\ ~raced
    /\ \E k \in Ops : Get(k) \/ Change(k) \/ Set(k) \/ Sync(k) \/ Publish(k) \/ Send(k)
    /\ UNCHANGED <<senders, tab, acts>>

-----------------------------------------------------------------------------
(* The end of a run, _50_process_queue.py.                                 *)

ProcessQueue ==
    /\ ~raced /\ running = "yes" /\ running' = "ending"
    /\ IF Queue # <<>> THEN senders < MaxSenders /\ senders' = senders + 1 ELSE UNCHANGED senders
    /\ UNCHANGED <<server, ghosts, tab, acts>>

RunEnds ==
    /\ running = "ending" /\ running' = "no"
    /\ UNCHANGED <<server, senders, ghosts, tab, acts>>

\* The chat is idle: send_next.
DelayedSend ==
    /\ senders > 0 /\ running = "no"
    /\ senders' = senders - 1
    /\ Begin("next", None)
    /\ UNCHANGED <<output, running, ghosts, tab, acts>>

\* A minute has passed and the chat is busy.
DelayedSendGivesUp ==
    /\ senders > 0 /\ running # "no"
    /\ senders' = senders - 1
    /\ UNCHANGED <<server, running, ghosts, tab, acts>>

-----------------------------------------------------------------------------
(* The browser.                                                            *)

HasQueue == shown # <<>> \/ pending # {}

\* sendMessage: queued when the chat seems busy or has a queue, or else sent.
TypeMessage ==
    /\ ~raced /\ typed < MaxItems /\ typed' = typed + 1
    /\ IF busy \/ HasQueue
       THEN /\ pending' = pending \cup {typed + 1} /\ chain' = Append(chain, typed + 1)
            /\ UNCHANGED direct
       ELSE direct' = direct \cup {typed + 1} /\ UNCHANGED <<pending, chain>>
    /\ UNCHANGED <<server, agent, ghosts, adding, givenUp, shown, busy, acts>>

DirectArrives ==
    /\ \E i \in direct : direct' = direct \ {i} /\ Communicate({i})
    /\ UNCHANGED <<server, senders, accepted, removed, raced>>
    /\ UNCHANGED <<typed, pending, chain, adding, givenUp, shown, busy, acts>>

DirectFails ==
    /\ acts < MaxActs /\ acts' = acts + 1
    /\ \E i \in direct : direct' = direct \ {i} /\ givenUp' = givenUp \cup {i}
    /\ UNCHANGED <<server, agent, ghosts, typed, pending, chain, adding, shown, busy>>

\* Mutant: the message stays in the chain.
AddStartsAgain ==
    /\ adding = None /\ chain # <<>>
    /\ adding' = Head(chain) /\ Begin("add", Head(chain)) /\ UNCHANGED <<output, chain>>
    /\ UNCHANGED <<agent, ghosts, typed, direct, pending, givenUp, shown, busy, acts>>

\* Mutant: an add does not wait for the one before.
AddStartsAtOnce ==
    /\ chain # <<>> /\ chain' = Tail(chain)
    /\ IF Head(chain) \in givenUp
       THEN UNCHANGED <<server, adding>>
       ELSE adding' = Head(chain) /\ Begin("add", Head(chain)) /\ UNCHANGED output
    /\ UNCHANGED <<agent, ghosts, typed, direct, pending, givenUp, shown, busy, acts>>

\* addToQueue: one add after the other; one that was canceled is left out.
AddStarts ==
    /\ adding = None /\ chain # <<>>
    /\ chain' = Tail(chain)
    /\ IF Head(chain) \in givenUp
       THEN UNCHANGED <<server, adding>>
       ELSE adding' = Head(chain) /\ Begin("add", Head(chain)) /\ UNCHANGED output
    /\ UNCHANGED <<agent, ghosts, typed, direct, pending, givenUp, shown, busy, acts>>

AddOp(k, i) == ops[k].kind = "add" /\ ops[k].item = i

AddReturns ==
    /\ adding # None /\ \A k \in Ops : ~AddOp(k, adding)
    /\ adding' = None
    /\ UNCHANGED <<server, agent, ghosts, typed, direct, pending, chain, givenUp, shown, busy, acts>>

\* The tab gives up the add under way: the server has not begun with it, or goes on.
AddGivenUp ==
    /\ adding' = None /\ givenUp' = givenUp \cup {adding}
    /\ \/ \E k \in Ops : AddOp(k, adding) /\ ops[k].at = "get" /\ End(k)
       \/ UNCHANGED <<heap, cell, ops>>
    /\ UNCHANGED output

\* The finally of addToQueue: the message stays pending.
AddFails ==
    /\ adding # None
    /\ acts < MaxActs /\ acts' = acts + 1
    /\ AddGivenUp
    /\ UNCHANGED <<agent, ghosts, typed, direct, pending, chain, shown, busy>>

RemovePending ==
    /\ \E i \in pending :
          /\ pending' = pending \ {i}
          /\ IF adding = i THEN AddGivenUp
             ELSE givenUp' = givenUp \cup {i} /\ UNCHANGED <<server, adding>>
    /\ UNCHANGED <<agent, ghosts, typed, direct, chain, shown, busy>>

\* A pending message is removed here, another one by the server.
RemoveItem ==
    /\ acts < MaxActs /\ acts' = acts + 1
    /\ \/ RemovePending
       \/ /\ \E i \in ToSet(shown) \ pending : Begin("remove", i)
          /\ UNCHANGED <<output, agent, ghosts, tab>>

Click(kind, i) ==
    /\ acts < MaxActs /\ acts' = acts + 1
    /\ Begin(kind, i)
    /\ UNCHANGED <<output, agent, ghosts, tab>>

ClearQueue == HasQueue /\ Click("clear", None)

SendItem == \E i \in ToSet(shown) \cup pending : Click("send", i)

\* Nothing is sent while anything is pending.
SendAll == pending = {} /\ HasQueue /\ Click("all", None)

\* A snapshot is rendered; updateFromPoll drops what the server lists.
Snapshot ==
    /\ ~raced /\ shown' = output /\ busy' = (running # "no")
    /\ pending' = pending \ ToSet(output)
    /\ UNCHANGED <<server, agent, ghosts, typed, direct, chain, adding, givenUp, acts>>

Next ==
    \/ Operate
    \/ ProcessQueue \/ RunEnds \/ DelayedSend \/ DelayedSendGivesUp
    \/ TypeMessage \/ DirectArrives \/ DirectFails
    \/ AddStarts \/ AddReturns \/ AddFails
    \/ RemoveItem \/ ClearQueue \/ SendItem \/ SendAll \/ Snapshot

Spec == Init /\ [][Next]_vars

-----------------------------------------------------------------------------
TypeOK ==
    /\ \A l \in Lists : IsInjective(heap[l]) /\ ToSet(heap[l]) \subseteq Items
    /\ cell \in Lists \cup {None}
    /\ ToSet(output) \subseteq Items /\ ToSet(shown) \subseteq Items
    /\ \A k \in Ops :
          /\ ops[k].kind \in {"none", "add", "remove", "clear", "send", "all", "next"}
          /\ ops[k].at \in {"-", "get", "change", "set", "sync", "publish", "send"}
          /\ {ops[k].list, ops[k].from} \subseteq Lists \cup {None}
    /\ running \in {"no", "yes", "ending"} /\ senders \in 0..MaxSenders
    /\ accepted \subseteq Items /\ removed \subseteq Items /\ sent \in [Items -> Nat]
    /\ raced \in BOOLEAN /\ busy \in BOOLEAN
    /\ typed \in 0..MaxItems /\ adding \in Items \cup {None}
    /\ UNION {direct, pending, ToSet(chain), givenUp} \subseteq Items

\* Where a message that the server has taken is: a list that is the queue or is about to
\* be, the hands of an operation, the agent, or nowhere because it was removed.
Queued(i) ==
    \/ i \in ToSet(Queue)
    \/ \E k \in Ops : AddOp(k, i) /\ ops[k].at = "set" /\ ops[k].list # ops[k].from
InHand(i) == \E k \in Ops : i \in ToSet(ops[k].hand)
Places(i) ==
    {p \in {"queue", "hand", "agent", "removed"} :
        CASE p = "queue" -> Queued(i)
          [] p = "hand" -> InHand(i)
          [] p = "agent" -> sent[i] > 0
          [] p = "removed" -> i \in removed}

\* A message that was typed is neither lost nor doubled on its way through the tab, the
\* queue and the operations that send it or take it off, unless one of them wrote back
\* a list that another had changed in the meantime.
NothingIsLostOrDoubled ==
    ~raced =>
        \A i \in 1..typed :
            IF i \in accepted
            THEN Cardinality(Places(i)) = 1 /\ sent[i] <= 1
            ELSE sent[i] = 1 \/ i \in direct \cup pending \cup givenUp

\* The queue is in the order in which the messages were typed, but for adds the tab gave
\* up and the server went on with.
QueueIsInOrder ==
    ~raced =>
        \A m, n \in DOMAIN Queue :
            m < n /\ {Queue[m], Queue[n]} \cap givenUp = {} => Queue[m] < Queue[n]

\* When no operation is under way, the tab is shown the queue as it is.
QuietMeansPublished == ~raced /\ (\A k \in Ops : ops[k] = NoOp) => output = Queue

\* Not so: a pending message may have been sent, in the time between two snapshots.
PendingMeansUnsent == \A i \in pending : sent[i] = 0

\* Not so: a message queued after the hook of the run looked waits for the next one.
QueueIsServed == Queue # <<>> /\ running = "no" => senders > 0 \/ \E k \in Ops : ops[k] # NoOp
=============================================================================
