----------------------------- MODULE Rendering -----------------------------
(***************************************************************************)
(* How webui/js/messages.js draws the log of a chat on the page.           *)
(*                                                                         *)
(* The page is a list of message groups; a group has a position and boxes; *)
(* a box is a message or a process group with steps and the responses of   *)
(* the agent. A process group is complete once it has a response or was    *)
(* completed by hand. An item finds the element it has drawn before by its *)
(* id; a new one looks at the end of the page for where it belongs.        *)
(*                                                                         *)
(* The server sends what changed since the last snapshot, each item once,  *)
(* or, when the tab asks for it, the whole log; either is drawn on the     *)
(* page as it is. Items are numbered in the order of their first update,   *)
(* which is the order of a snapshot of the whole log. Snapshots are drawn  *)
(* one at a time. Texts, badges, timers that collapse steps and scrolling  *)
(* are left out, and so is the message with attachments that the tab draws *)
(* before the server has logged it.                                        *)
(***************************************************************************)
EXTENDS Naturals, FiniteSets, SequencesExt

CONSTANTS
    Types,        \* the types of items, from AllTypes
    MaxItems,     \* bound: items in the log
    MaxUpdates,   \* bound: items that are changed after they were logged
    MaxFulls      \* bound: snapshots of the whole log

\* agent stands for every type that is always a step of a running group (tool, info,
\* progress, ...), error for the ones that always stand alone.
AllTypes == {"user", "agent", "util", "warning", "response", "error", "default"}

ASSUME RenderingAssumption ==
    /\ Types \subseteq AllTypes
    /\ MaxItems \in Nat /\ MaxUpdates \in Nat /\ MaxFulls \in Nat

Items == 1..MaxItems

VARIABLES
    log,       \* types of the items
    updates,   \* items to send, in the order they changed
    page,      \* the message groups of #chat-history
    drawn,     \* ghost: items drawn so far
    redrawn,   \* ghost: an item that is not a step or a response was drawn again
    changes, fulls

vars == <<log, updates, page, drawn, redrawn, changes, fulls>>

Init ==
    /\ log = <<>> /\ updates = <<>> /\ page = <<>>
    /\ drawn = 0 /\ redrawn = FALSE /\ changes = 0 /\ fulls = 0

-----------------------------------------------------------------------------
(* The page.                                                               *)

Message(i) == [kind |-> "message", id |-> i, steps |-> <<>>, answers |-> <<>>, closed |-> FALSE]
Process(i) == [kind |-> "process", id |-> i, steps |-> <<i>>, answers |-> <<>>, closed |-> FALSE]

\* isProcessGroupComplete
IsComplete(box) == box.closed \/ box.answers # <<>>

Boxes(p) == UNION {ToSet(p[g].boxes) : g \in DOMAIN p}
HasStep(p, i) == \E box \in Boxes(p) : i \in ToSet(box.steps)
HasMessage(p, i) ==
    \E box \in Boxes(p) : i \in ToSet(box.answers) \/ (box.kind = "message" /\ box.id = i)

\* getLastProcessGroup: the last one in the last message group, 0 if there is none or it
\* is complete and that is not allowed.
LastProcess(p, allowCompleted) ==
    IF p = <<>> THEN 0
    ELSE LET boxes == Last(p).boxes
             last == SelectLastInSeq(boxes, LAMBDA box : box.kind = "process")
         IN  IF last > 0 /\ ~allowCompleted /\ IsComplete(boxes[last]) THEN 0 ELSE last

\* A change of the last process group.
InLast(p, box, new) == [p EXCEPT ![Len(p)].boxes[box] = new]

\* completeLastProcessGroup
CompleteLast(p) ==
    LET b == LastProcess(p, FALSE)
    IN  IF b = 0 THEN p ELSE InLast(p, b, [Last(p).boxes[b] EXCEPT !.closed = TRUE])

\* Mutant: the position of the last message group is not looked at.
AppendBoxAnywhere(p, box, position, forceNewGroup) ==
    IF ~forceNewGroup /\ p # <<>>
    THEN [p EXCEPT ![Len(p)].boxes = Append(@, box)]
    ELSE Append(p, [position |-> position, boxes |-> <<box>>])

\* appendToMessageGroup
AppendBox(p, box, position, forceNewGroup) ==
    IF ~forceNewGroup /\ p # <<>> /\ Last(p).position = position
    THEN [p EXCEPT ![Len(p)].boxes = Append(@, box)]
    ELSE Append(p, [position |-> position, boxes |-> <<box>>])

\* Mutant: a step of a complete group is not looked up.
DrawProcessStepAnew(p, i, allowCompleted) ==
    LET b == LastProcess(p, allowCompleted)
    IN  IF b > 0 /\ i \in ToSet(Last(p).boxes[b].steps) THEN p
        ELSE IF b = 0 THEN AppendBox(p, Process(i), "left", FALSE)
        ELSE InLast(p, b, [Last(p).boxes[b] EXCEPT !.steps = Append(@, i)])

\* drawProcessStep: where it is, or in the last group, or in a new one.
DrawProcessStep(p, i, allowCompleted) ==
    LET b == LastProcess(p, allowCompleted)
    IN  IF HasStep(p, i) THEN p
        ELSE IF b = 0 THEN AppendBox(p, Process(i), "left", FALSE)
        ELSE InLast(p, b, [Last(p).boxes[b] EXCEPT !.steps = Append(@, i)])

\* drawStandaloneMessage, drawMessageUser
DrawStandaloneMessage(p, i, position, forceNewGroup) ==
    LET q == CompleteLast(p)
    IN  IF HasMessage(q, i) THEN q ELSE AppendBox(q, Message(i), position, forceNewGroup)

\* Mutant: a message of the user does not end the process group.
DrawMessageUserOnly(p, i) ==
    IF HasMessage(p, i) THEN p ELSE AppendBox(p, Message(i), "right", TRUE)

DrawMessageUser(p, i) == DrawStandaloneMessage(p, i, "right", TRUE)

\* Mutant: the response goes to the first process group.
DrawMessageResponseFirst(p, i) ==
    IF HasMessage(p, i) THEN p
    ELSE IF LastProcess(p, TRUE) = 0 THEN AppendBox(p, Message(i), "left", FALSE)
    ELSE LET g == CHOOSE g \in DOMAIN p :
                    /\ \E b \in DOMAIN p[g].boxes : p[g].boxes[b].kind = "process"
                    /\ \A h \in 1..(g - 1) : \A b \in DOMAIN p[h].boxes : p[h].boxes[b].kind # "process"
             b == SelectInSeq(p[g].boxes, LAMBDA box : box.kind = "process")
         IN  [p EXCEPT ![g].boxes[b].answers = Append(@, i)]

DrawMessageResponse(p, i) ==
    LET b == LastProcess(p, TRUE)
    IN  IF HasMessage(p, i) THEN p
        ELSE IF b = 0 THEN AppendBox(p, Message(i), "left", FALSE)
        ELSE InLast(p, b, [Last(p).boxes[b] EXCEPT !.answers = Append(@, i)])

\* A step of the group that runs, or else a message.
DrawMessageWarning(p, i) ==
    IF LastProcess(p, FALSE) > 0
    THEN DrawProcessStep(p, i, FALSE)
    ELSE DrawStandaloneMessage(p, i, "mid", FALSE)

\* getMessageHandler
SetMessage(p, i, type) ==
    CASE type = "user" -> DrawMessageUser(p, i)
      [] type = "agent" -> DrawProcessStep(p, i, FALSE)
      [] type = "util" -> DrawProcessStep(p, i, TRUE)
      [] type = "warning" -> DrawMessageWarning(p, i)
      [] type = "response" -> DrawMessageResponse(p, i)
      [] type = "error" -> DrawStandaloneMessage(p, i, "mid", FALSE)
      [] type = "default" -> DrawStandaloneMessage(p, i, "left", FALSE)

\* setMessages
SetMessages(p, items) == FoldLeft(LAMBDA q, i : SetMessage(q, i, log[i]), p, items)

-----------------------------------------------------------------------------
(* The log and its snapshots.                                              *)

\* The server logs an item.
LogItem ==
    /\ Len(log) < MaxItems
    /\ \E t \in Types : log' = Append(log, t)
    /\ updates' = Append(updates, Len(log) + 1)
    /\ UNCHANGED <<page, drawn, redrawn, changes, fulls>>

\* Mutant: a snapshot has an item where it last changed.
UpdateItemMoves ==
    /\ changes < MaxUpdates /\ changes' = changes + 1
    /\ \E i \in DOMAIN log : updates' = Append(SelectSeq(updates, LAMBDA j : j # i), i)
    /\ UNCHANGED <<log, page, drawn, redrawn, fulls>>

\* It changes one. A snapshot has an item where it first changed.
UpdateItem ==
    /\ changes < MaxUpdates /\ changes' = changes + 1
    /\ \E i \in DOMAIN log :
          updates' = IF i \in ToSet(updates) THEN updates ELSE Append(updates, i)
    /\ UNCHANGED <<log, page, drawn, redrawn, fulls>>

Render(items) ==
    /\ page' = SetMessages(page, items)
    /\ redrawn' = (redrawn \/ \E i \in ToSet(items) :
                                 i <= drawn /\ log[i] \notin {"agent", "util", "response"})
    /\ drawn' = Len(log)
    /\ updates' = <<>>
    /\ UNCHANGED log

\* What changed is drawn.
ApplyDelta ==
    /\ updates # <<>>
    /\ Render(updates)
    /\ UNCHANGED <<changes, fulls>>

Whole == [i \in DOMAIN log |-> i]

\* After a reconnect the whole log comes, for the page there is. It is left alone when
\* its version is the one that is shown.
ApplyFull ==
    /\ updates # <<>>
    /\ fulls < MaxFulls /\ fulls' = fulls + 1
    /\ Render(Whole)
    /\ UNCHANGED changes

\* The chat is selected again, or the page reloaded.
Reload ==
    /\ fulls < MaxFulls /\ fulls' = fulls + 1
    /\ page' = SetMessages(<<>>, Whole)
    /\ redrawn' = FALSE /\ drawn' = Len(log) /\ updates' = <<>>
    /\ UNCHANGED <<log, changes>>

Next == LogItem \/ UpdateItem \/ ApplyDelta \/ ApplyFull \/ Reload

Spec == Init /\ [][Next]_vars

-----------------------------------------------------------------------------
TypeOK ==
    /\ log \in Seq(Types) /\ Len(log) <= MaxItems
    /\ ToSet(updates) \subseteq DOMAIN log
    /\ drawn \in 0..Len(log) /\ redrawn \in BOOLEAN
    /\ \A g \in DOMAIN page :
          /\ page[g].position \in {"left", "mid", "right"} /\ page[g].boxes # <<>>
          /\ \A box \in ToSet(page[g].boxes) :
                /\ box.kind = "message" => box.steps = <<>> /\ box.answers = <<>> /\ ~box.closed
                /\ box.kind = "process" => page[g].position = "left" /\ box.steps # <<>>
    /\ changes \in 0..MaxUpdates /\ fulls \in 0..MaxFulls

\* The elements of an item: the message group, the box and the part it is in.
Places(i) ==
    {x \in UNION {{g} \X (DOMAIN page[g].boxes) \X {"message", "step", "answer"} : g \in DOMAIN page} :
        LET box == page[x[1]].boxes[x[2]]
        IN  CASE x[3] = "message" -> box.kind = "message" /\ box.id = i
              [] x[3] = "step" -> i \in ToSet(box.steps)
              [] x[3] = "answer" -> i \in ToSet(box.answers)}

\* What was drawn is on the page once, however often it is drawn again, and a warning at
\* most twice; what was not drawn is not on the page.
EachItemOnce ==
    /\ \A box \in Boxes(page) : IsInjective(box.steps) /\ IsInjective(box.answers)
    /\ \A i \in DOMAIN log :
          LET n == Cardinality(Places(i))
          IN  IF i > drawn THEN n = 0
              ELSE IF log[i] = "warning" THEN n \in {1, 2} ELSE n = 1

\* Not so: a warning that was a step of a group is drawn again as a message once the
\* group is complete.
EachWarningOnce == \A i \in 1..drawn : Cardinality(Places(i)) = 1

\* Only the last process group can be open, and it is in the last message group: new
\* steps never go to a group the page has gone past.
OpenGroupIsLast ==
    \A g \in DOMAIN page : \A b \in DOMAIN page[g].boxes :
        LET box == page[g].boxes[b]
        IN  box.kind = "process" /\ ~IsComplete(box) =>
                g = Len(page) /\ \A c \in (b + 1)..Len(page[g].boxes) : page[g].boxes[c].kind = "message"

\* Message groups are in the order of the log: an item is never in a group before the
\* one of an earlier item. (The second element of a warning is out of order.)
PageFollowsTheLog ==
    \A i, j \in 1..drawn :
        i < j /\ "warning" \notin {log[i], log[j]} =>
            \A x \in Places(i), y \in Places(j) : x[1] <= y[1]

\* What the deltas have built is what a reload would draw, unless an item that is not a
\* step or a response was drawn again.
PageIsTheLog == ~redrawn => page = SetMessages(<<>>, [i \in 1..drawn |-> i])

\* Not so: drawing an old message again completes the group that runs.
ReloadChangesNothing == page = SetMessages(<<>>, [i \in 1..drawn |-> i])
=============================================================================
