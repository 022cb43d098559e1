---------------------------- MODULE Notifications ----------------------------
(***************************************************************************)
(* Notifications, from the manager of the server (helpers/notification.py) *)
(* through the snapshots (helpers/state_snapshot.py) to the list and the   *)
(* toasts of a browser tab (notification-store.js).                        *)
(*                                                                         *)
(* The manager has a lock, but a snapshot visits it three times: for the   *)
(* items behind the cursor, for the guid, and for the length of the list   *)
(* of updates, which becomes the next cursor. Threads that raise, read or  *)
(* clear notifications get in between. The tab is single-threaded: one of  *)
(* its steps is the code up to the next await; its requests may fail.      *)
(*                                                                         *)
(* When a snapshot is taken is StateMonitor's concern; here one is owed    *)
(* after every change, as marking all connections dirty makes it, and it   *)
(* reaches the tab in order. An item is rendered when it is listed.        *)
(* Text, types and display times are left out: raising a notification      *)
(* gives it a new stamp.                                                   *)
(***************************************************************************)
EXTENDS Naturals, FiniteSets, SequencesExt

CONSTANTS
    Ids,        \* ids of notifications
    Repeats,    \* the ids that a caller may raise again
    Urgent,     \* the ids of priority HIGH
    Grouped,    \* the ids, toasts of the tab included, in the one group
    Local,      \* ids of toasts that only the tab knows
    Limit,      \* max_notifications, and maxNotifications of the tab
    MaxToasts,
    MaxRaises,  \* bound: notifications raised in all
    MaxActs     \* bound: how often the user dismisses, clicks, opens or
                \*   clears, toasts of the tab's own, and requests that fail

ASSUME NotificationsAssumption ==
    /\ Repeats \subseteq Ids /\ Urgent \subseteq Ids /\ Grouped \subseteq Ids \cup Local
    /\ Ids \cap Local = {}
    /\ Limit \in Nat \ {0} /\ MaxToasts \in Nat \ {0}
    /\ MaxRaises \in Nat /\ MaxActs \in Nat

VARIABLES
    items, updates, guid,   \* NotificationManager; an update is a place in items
    owed,      \* a change has been announced since the last snapshot began
    cursor,    \* notifications_from of the connection's request
    snap,      \* the snapshot under construction
    wire,      \* pushes on their way
    tab,       \* the store of the tab, and the requests it has sent
    modal,     \* the list is open
    used, raised, acts,   \* ids and numbers of what has been done so far
    touched,   \* history: the ids whose notification or toast the user acted on
    exposed,   \* history: ids updated where the cursor does not lead to them
    unsynced   \* history: what failed requests were about, until it is raised again

manager == <<items, updates, guid>>
stream == <<cursor, snap, wire>>
bounds == <<used, raised, acts>>
vars == <<manager, owed, stream, tab, modal, bounds, touched, exposed, unsynced>>

Item == [id : Ids, stamp : 1..MaxRaises, read : BOOLEAN]
Toast == [id : Ids \cup Local, timed : BOOLEAN]
Call == [op : {"read"}, ids : SUBSET Ids] \cup [op : {"all", "clear"}, ids : {Ids}]
Push == [items : Seq(Item), guid : 0..MaxActs, version : Nat]

NoSnap == [at |-> "idle", items |-> <<>>, guid |-> 0]

Init ==
    /\ items = <<>> /\ updates = <<>> /\ guid = 0
    /\ owed = FALSE /\ cursor = 0 /\ snap = NoSnap /\ wire = <<>>
    /\ tab = [list |-> <<>>, toasts |-> <<>>, stray |-> {}, guid |-> 0, unread |-> 0, sent |-> {}]
    /\ modal = FALSE /\ used = {} /\ raised = 0 /\ acts = 0
    /\ touched = {} /\ exposed = {} /\ unsynced = {}

IdsOf(s) == {s[k].id : k \in DOMAIN s}
Places(s, id) == {k \in DOMAIN s : s[k].id = id}

\* The numbers of S in order. It is SetToSortSeq(S, <) without its choice among
\* permutations, which the proofs would have to open.
Ordered(S) == [k \in 1..Cardinality(S) |-> CHOOSE x \in S : Cardinality({y \in S : y <= x}) = k]

\* The user, or a failure, does something.
Act ==
    /\ acts < MaxActs
    /\ acts' = acts + 1
    /\ UNCHANGED <<used, raised>>

-----------------------------------------------------------------------------
(* The manager. Whoever changes it holds its lock throughout, and marks    *)
(* all connections dirty afterwards.                                       *)

\* The last update of id, as a place in the list ups that speaks of its.
LastUpdate(its, ups, id) ==
    LET at == {k \in DOMAIN ups : ups[k] \in DOMAIN its /\ its[ups[k]].id = id}
    IN  IF at = {} THEN 0 ELSE CHOOSE k \in at : \A j \in at : j <= k

\* The cursor leads past the updates that come next, or some that have been made.
CursorAstray == cursor > Len(updates) \/ IdsOf(items) \ IdsOf(items') # {}

\* The ids in changed have been updated. Exposed are the updates that fall between
\* the reading of the items and that of the next cursor, and the ones that end
\* up before the cursor because the list of updates became shorter.
Announce(changed) ==
    /\ owed' = (owed \/ changed # {})
    /\ LET unsent == {id \in IdsOf(items) : LastUpdate(items, updates, id) > cursor}
           behind == {id \in changed \cup unsent : LastUpdate(items', updates', id) <= cursor}
           skipped == IF snap.at # "idle" THEN changed ELSE IF CursorAstray THEN behind ELSE {}
       IN  exposed' = (exposed \ changed) \cup skipped

Renumber(ups, n) ==
    LET kept == Ordered({k \in DOMAIN ups : ups[k] > n})
    IN  [k \in DOMAIN kept |-> ups[kept[k]] - n]

\* Mutant: the list of updates is not adjusted.
EnforceLimitKeepsUpdates(its, ups) ==
    LET n == IF Len(its) > Limit THEN Len(its) - Limit ELSE 0
    IN  /\ items' = SubSeq(its, n + 1, Len(its))
        /\ updates' = ups

\* The oldest notifications are dropped; their updates go with them.
EnforceLimit(its, ups) ==
    LET n == IF Len(its) > Limit THEN Len(its) - Limit ELSE 0
    IN  /\ items' = SubSeq(its, n + 1, Len(its))
        /\ updates' = Renumber(ups, n)

\* Mutant: raising a notification again is not an update.
AddNotificationQuietly(item) ==
    LET old == Places(items, item.id)
    IN  IF old # {}
        THEN /\ items' = [k \in DOMAIN items |-> IF k \in old THEN item ELSE items[k]]
             /\ updates' = updates
        ELSE EnforceLimit(Append(items, item), Append(updates, Len(items) + 1))

AddNotification(item) ==
    LET old == Places(items, item.id)
    IN  IF old # {}
        THEN /\ items' = [k \in DOMAIN items |-> IF k \in old THEN item ELSE items[k]]
             /\ updates' = updates \o SetToSeq(old)
        ELSE EnforceLimit(Append(items, item), Append(updates, Len(items) + 1))

Raise(id) ==
    /\ raised < MaxRaises /\ id \notin used \ Repeats
    /\ raised' = raised + 1 /\ used' = used \cup {id}
    /\ AddNotification([id |-> id, stamp |-> raised + 1, read |-> FALSE])
    /\ Announce({id})
    /\ unsynced' = {u \in unsynced : u[2] # id}
    /\ UNCHANGED <<guid, stream, tab, modal, acts, touched>>

MarkReadByIds(ids) ==
    LET changed == {k \in DOMAIN items : items[k].id \in ids /\ ~items[k].read}
    IN  /\ items' = [k \in DOMAIN items |-> IF k \in changed THEN [items[k] EXCEPT !.read = TRUE]
                                                            ELSE items[k]]
        /\ updates' = updates \o Ordered(changed)
        /\ Announce({items[k].id : k \in changed})
        /\ UNCHANGED guid

ClearAllNotifications ==
    /\ items' = <<>> /\ updates' = <<>>
    /\ guid' = guid + 1
    /\ owed' = TRUE
    /\ exposed' = {}

\* A request of the tab reaches its handler, or fails: the tab shows the same.
Handle(call) ==
    /\ call \in tab.sent
    /\ tab' = [tab EXCEPT !.sent = @ \ {call}]
    /\ IF call.op = "clear" THEN ClearAllNotifications ELSE MarkReadByIds(call.ids)
    /\ touched' = IF call.op = "all" THEN touched \cup IdsOf(items) ELSE touched
    /\ UNCHANGED <<stream, modal, bounds, unsynced>>

Fail(call) ==
    /\ call \in tab.sent
    /\ Act
    /\ tab' = [tab EXCEPT !.sent = @ \ {call}]
    /\ unsynced' = unsynced \cup {<<call.op, id>> : id \in call.ids}
    /\ UNCHANGED <<manager, owed, stream, modal, touched, exposed>>

-----------------------------------------------------------------------------
(* A snapshot and its push.                                                *)

\* output: each item behind the cursor once, at its first update there.
Output ==
    LET ups == SubSeq(updates, cursor + 1, Len(updates))
        first == {k \in DOMAIN ups : ups[k] \in DOMAIN items /\ \A j \in 1..(k - 1) : ups[j] # ups[k]}
        at == Ordered(first)
    IN  [k \in DOMAIN at |-> items[ups[at[k]]]]

SnapshotItems ==
    /\ owed /\ snap.at = "idle"
    /\ owed' = FALSE
    /\ snap' = [at |-> "guid", items |-> Output, guid |-> 0]
    /\ UNCHANGED <<manager, cursor, wire, tab, modal, bounds, touched, exposed, unsynced>>

SnapshotGuid ==
    /\ snap.at = "guid"
    /\ snap' = [snap EXCEPT !.at = "version", !.guid = guid]
    /\ UNCHANGED <<manager, owed, cursor, wire, tab, modal, bounds, touched, exposed, unsynced>>

\* The length of the list of updates completes the push and is the next cursor.
SnapshotVersion ==
    /\ snap.at = "version"
    /\ cursor' = Len(updates)
    /\ wire' = Append(wire, [items |-> snap.items, guid |-> snap.guid, version |-> cursor'])
    /\ snap' = NoSnap
    /\ UNCHANGED <<manager, owed, tab, modal, bounds, touched, exposed, unsynced>>

-----------------------------------------------------------------------------
(* The store of the tab: what each of its functions makes of it.           *)

UpdateUnreadCount(t) ==
    [t EXCEPT !.unread = Cardinality({k \in DOMAIN t.list : ~t.list[k].read})]

\* The store shows the notification as read at once and tells the server.
MarkAsRead(t, id) ==
    LET at == {k \in Places(t.list, id) : ~t.list[k].read}
    IN  IF at = {} THEN t
        ELSE UpdateUnreadCount(
               [t EXCEPT !.list = [k \in DOMAIN @ |-> IF k \in at THEN [@[k] EXCEPT !.read = TRUE] ELSE @[k]],
                         !.sent = @ \cup {[op |-> "read", ids |-> {id}]}])

\* Mutant: the priority is not looked at.
AfterAnyToastRemoved(t, id, byUser) == MarkAsRead(t, id)

AfterToastRemoved(t, id, byUser) ==
    IF byUser \/ id \notin Urgent THEN MarkAsRead(t, id) ELSE t

FirstToast(t, id) == CHOOSE k \in Places(t.toasts, id) : \A j \in Places(t.toasts, id) : k <= j

\* Of two toasts with one id the first is removed, with its timer.
RemoveFromToastStack(t, id, byUser) ==
    IF Places(t.toasts, id) = {} THEN t
    ELSE AfterToastRemoved([t EXCEPT !.toasts = RemoveAt(@, FirstToast(t, id))], id, byUser)

ReplaceGroup(t, id) ==
    LET same == {k \in DOMAIN t.toasts : t.toasts[k].id \in Grouped}
    IN  IF id \in Grouped /\ same # {}
        THEN RemoveFromToastStack(t, t.toasts[CHOOSE k \in same : \A j \in same : k <= j].id, FALSE)
        ELSE t

LimitToasts(t) ==
    IF Len(t.toasts) > MaxToasts THEN RemoveFromToastStack(t, Head(t.toasts).id, FALSE) ELSE t

RestartToastTimer(t, id) ==
    IF Places(t.toasts, id) = {} THEN t
    ELSE [t EXCEPT !.toasts[FirstToast(t, id)].timed = TRUE]

\* Mutant: the timer is started before the toast is on the stack.
AddToToastStackUntimed(t, id) ==
    LET room == ReplaceGroup(t, id)
        more == [room EXCEPT !.toasts = Append(@, [id |-> id, timed |-> FALSE])]
    IN  LimitToasts([more EXCEPT !.toasts = RestartToastTimer(room, id).toasts \o <<Last(@)>>])

AddToToastStack(t, id) ==
    LET room == ReplaceGroup(t, id)
        more == [room EXCEPT !.toasts = Append(@, [id |-> id, timed |-> FALSE])]
    IN  RestartToastTimer(LimitToasts(more), id)

AddOrUpdateNotification(t, n) ==
    LET old == Places(t.list, n.id)
        all == IF old = {} THEN <<n>> \o t.list
               ELSE [k \in DOMAIN t.list |-> IF k \in old THEN n ELSE t.list[k]]
    IN  [t EXCEPT !.list = SubSeq(all, 1, IF Len(all) > Limit THEN Limit ELSE Len(all))]

\* A notification is toasted if it is unread and new or changed.
Receive(t, n) ==
    LET known == \E k \in Places(t.list, n.id) : t.list[k].stamp = n.stamp
        there == AddOrUpdateNotification(t, n)
    IN  IF n.read \/ known THEN there ELSE AddToToastStack(there, n.id)

\* A new guid empties the list and the stack, but leaves the timers of the toasts.
Restarted(t, push) ==
    IF push.guid = t.guid THEN t
    ELSE [t EXCEPT !.list = <<>>, !.toasts = <<>>, !.guid = push.guid,
                   !.stray = @ \cup {t.toasts[k].id : k \in {j \in DOMAIN t.toasts : t.toasts[j].timed}}]

UpdateFromPoll(t, push) ==
    UpdateUnreadCount(FoldLeft(Receive, Restarted(t, push), push.items))

ClearToastStack(t) == [t EXCEPT !.toasts = <<>>]

MarkAllAsRead(t) ==
    IF \A k \in DOMAIN t.list : t.list[k].read THEN t
    ELSE UpdateUnreadCount(
           ClearToastStack([t EXCEPT !.list = [k \in DOMAIN @ |-> [@[k] EXCEPT !.read = TRUE]],
                                     !.sent = @ \cup {[op |-> "all", ids |-> Ids]}]))

ClearAll(t) ==
    ClearToastStack([t EXCEPT !.list = <<>>, !.unread = 0,
                              !.sent = @ \cup {[op |-> "clear", ids |-> Ids]}])

-----------------------------------------------------------------------------
(* What happens in the tab.                                                *)

Deliver ==
    /\ wire # <<>>
    /\ wire' = Tail(wire)
    /\ tab' = UpdateFromPoll(tab, Head(wire))
    /\ UNCHANGED <<manager, owed, cursor, snap, modal, bounds, touched, exposed, unsynced>>

ToastTimer(id) ==
    /\ Places(tab.toasts, id) # {} /\ tab.toasts[FirstToast(tab, id)].timed
    /\ tab' = RemoveFromToastStack(tab, id, FALSE)
    /\ UNCHANGED <<manager, owed, stream, modal, bounds, touched, exposed, unsynced>>

\* The timer of a toast that a new guid has removed: it goes by the id alone.
StrayTimer(id) ==
    /\ id \in tab.stray
    /\ tab' = RemoveFromToastStack([tab EXCEPT !.stray = @ \ {id}], id, FALSE)
    /\ UNCHANGED <<manager, owed, stream, modal, bounds, touched, exposed, unsynced>>

DismissToast(id) ==
    /\ Places(tab.toasts, id) # {}
    /\ Act
    /\ tab' = RemoveFromToastStack(tab, id, TRUE)
    /\ touched' = touched \cup {id}
    /\ UNCHANGED <<manager, owed, stream, modal, exposed, unsynced>>

\* A link on the toast, or the notification in the open list.
Click(id) ==
    /\ Places(tab.toasts, id) # {} \/ (modal /\ Places(tab.list, id) # {})
    /\ Act
    /\ tab' = MarkAsRead(tab, id)
    /\ touched' = touched \cup {id}
    /\ UNCHANGED <<manager, owed, stream, modal, exposed, unsynced>>

OpenModal ==
    /\ ~modal
    /\ Act
    /\ modal' = TRUE
    /\ tab' = ClearToastStack(tab)
    /\ UNCHANGED <<manager, owed, stream, touched, exposed, unsynced>>

CloseModal ==
    /\ modal
    /\ modal' = FALSE
    /\ tab' = MarkAllAsRead(tab)
    /\ touched' = touched \cup IdsOf(tab.list)
    /\ UNCHANGED <<manager, owed, stream, bounds, exposed, unsynced>>

ClearClicked ==
    /\ modal
    /\ Act
    /\ tab' = ClearAll(tab)
    /\ UNCHANGED <<manager, owed, stream, modal, touched, exposed, unsynced>>

LocalToast(id) ==
    /\ id \notin IdsOf(tab.toasts)
    /\ Act
    /\ LET same == {k \in DOMAIN tab.toasts : id \in Grouped /\ tab.toasts[k].id \in Grouped}
           rest == IF same = {} THEN tab.toasts
                   ELSE RemoveAt(tab.toasts, CHOOSE k \in same : \A j \in same : k <= j)
           all == Append(rest, [id |-> id, timed |-> TRUE])
       IN  tab' = [tab EXCEPT !.toasts = IF Len(all) > MaxToasts THEN Tail(all) ELSE all]
    /\ UNCHANGED <<manager, owed, stream, modal, touched, exposed, unsynced>>

Next ==
    \/ \E id \in Ids : Raise(id) \/ Click(id)
    \/ \E id \in Ids \cup Local : ToastTimer(id) \/ StrayTimer(id) \/ DismissToast(id)
    \/ \E id \in Local : LocalToast(id)
    \/ \E call \in tab.sent : Handle(call) \/ Fail(call)
    \/ SnapshotItems \/ SnapshotGuid \/ SnapshotVersion \/ Deliver
    \/ OpenModal \/ CloseModal \/ ClearClicked

Spec == Init /\ [][Next]_vars

-----------------------------------------------------------------------------
TypeOK ==
    /\ items \in Seq(Item) /\ Len(items) <= Limit
    /\ \A k \in DOMAIN updates : updates[k] \in DOMAIN items
    /\ guid \in 0..MaxActs /\ owed \in BOOLEAN /\ cursor \in Nat
    /\ snap \in [at : {"idle", "guid", "version"}, items : Seq(Item), guid : 0..MaxActs]
    /\ wire \in Seq(Push)
    /\ tab \in [list : Seq(Item), toasts : Seq(Toast), stray : SUBSET (Ids \cup Local),
                guid : 0..MaxActs, unread : 0..Limit, sent : SUBSET Call]
    /\ Len(tab.list) <= Limit /\ Len(tab.toasts) <= MaxToasts
    /\ modal \in BOOLEAN /\ used \subseteq Ids /\ raised \in 0..MaxRaises /\ acts \in 0..MaxActs
    /\ touched \subseteq Ids \cup Local /\ exposed \subseteq Ids
    /\ unsynced \subseteq {"read", "all", "clear"} \X Ids

AtRest == ~owed /\ snap.at = "idle" /\ wire = <<>> /\ tab.sent = {}

Failed(ops, id) == \E op \in ops : <<op, id>> \in unsynced

Shown(item) ==
    \/ Failed({"clear"}, item.id)
    \/ \E k \in DOMAIN tab.list :
          /\ tab.list[k].id = item.id /\ tab.list[k].stamp = item.stamp
          /\ (tab.list[k].read = item.read \/ Failed({"read", "all"}, item.id))

\* The tab drops the notification it met first, which is not the oldest one if it
\* had missed that before.
DroppedOther == Len(tab.list) = Limit /\ IdsOf(tab.list) \ IdsOf(items) # {}

\* When everything has been delivered and answered, the tab shows what the manager
\* has, with the same marks, whatever raced with what. What it can lack is only a
\* notification whose last update was exposed, one that it has dropped for another, or
\* what the server has not heard of because a request failed.
NothingElseIsMissed ==
    AtRest => \A k \in DOMAIN items :
                  items[k].id \in exposed \/ DroppedOther \/ Shown(items[k])

\* Every notification reaches the tab, as the manager has it. The code does not
\* keep this: an update between the reading of the items and of the cursor, or one
\* after the list of updates became shorter, is not sent.
NothingIsMissed == AtRest => \A k \in DOMAIN items : Shown(items[k])

\* A notification of high priority is marked read, in the tab or on the server, only
\* when the user has acted on it, or on all: no timer, full stack, replacement in a
\* group or race with another notification does it. "All" means what the server
\* has when it hears of it, which may be more than the user has seen.
UrgentStaysUnread ==
    \A id \in Urgent \ touched :
        /\ \A k \in Places(items, id) : ~items[k].read
        /\ \A k \in Places(tab.list, id) : ~tab.list[k].read

\* The toast of a notification that is raised once has a timer of its own, which will
\* take it away, whatever is replaced, dropped, restarted or cleared around it.
ToastsAreTimed ==
    \A k \in DOMAIN tab.toasts :
        tab.toasts[k].id \notin Repeats =>
            tab.toasts[k].timed /\ Places(tab.toasts, tab.toasts[k].id) = {k}

\* The same for all. The code does not keep this: a notification that is raised again
\* while its toast is up gets a second toast, the timer goes to the first of the
\* two, and when it has run out the second is left without one.
AllToastsAreTimed ==
    \A id \in IdsOf(tab.toasts) : \E k \in Places(tab.toasts, id) : tab.toasts[k].timed
=============================================================================
