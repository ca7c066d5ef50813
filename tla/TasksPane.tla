------------------------------- MODULE TasksPane -------------------------------
(***************************************************************************)
(* The tasks of a calendar: the tree that is drawn from the list, the form *)
(* that moves a task below another one, deletion with all subtasks, and    *)
(* the field that adds tasks.  The server checks a move against the tree    *)
(* without locking it, and writes it in a later step; the parent of a task  *)
(* that is created it does not check at all.                                *)
(***************************************************************************)
EXTENDS WebRequests, FiniteSets

CONSTANTS Tasks, FirstTree,
          MovedByOthers,      \* the tasks that other programs may move
          CreatedByOthers,    \* and those they may create
          MaxTaskClicks

ASSUME TasksAssumption == /\ IsFiniteSet(Tasks) /\ MaxTaskClicks \in Nat
                          /\ MovedByOthers \subseteq Tasks /\ CreatedByOthers \subseteq Tasks
                          /\ FirstTree \in [Tasks -> Tasks \cup {"root", "gone"}]

VARIABLES parentOf,      \* the server: task -> parent, Root, or Gone when there is no such task
          otherMove,     \* the move another program has had checked
          added,         \* the server: the summaries of the tasks added
          taskList,      \* the page: what parentOf was
          taskForm,      \* task-modal
          saveBusy,      \* $('#task-form').data('busy')
          quick,         \* the field that adds tasks: its text and its busy flag
          overlapped,    \* history: a move was written between check and write of another
          stirred,       \* history: others have moved or created a task
          ringed,        \* history: a task was created below itself
          unseen,        \* history: summaries whose adding seemed to fail
          taskClicks

taskState == <<parentOf, otherMove, added, taskList, taskForm, saveBusy, quick, overlapped,
               stirred, ringed, unseen, taskClicks>>
tasksVars == <<web, taskState>>

Root == "root"
Gone == "gone"
Nobody == "nobody"
NoMove == <<Nobody, Nobody>>
ClosedTask == [open |-> FALSE, task |-> Nobody, offers |-> {}, parent |-> Root]
Listed(tree) == {t \in Tasks : tree[t] # Gone}

TasksInit == /\ parentOf = FirstTree
             /\ otherMove = NoMove /\ added = {} /\ taskList = parentOf
             /\ taskForm = ClosedTask /\ saveBusy = FALSE
             /\ quick = [text |-> 0, busy |-> FALSE]
             /\ overlapped = FALSE /\ stirred = FALSE /\ ringed = FALSE
             /\ unseen = {} /\ taskClicks = 0

---------------------------------------------------------------------------
(* descendantsOf: the task and all below it. *)
(* Mistake: only its own subtasks. *)
SubtasksOf(tree, t) == {t} \cup {x \in Tasks : tree[x] = t}
DescendantsOf(tree, t) ==
    LET level[k \in 0 .. Cardinality(Tasks)] ==
            IF k = 0 THEN {t} ELSE LET above == level[k - 1] IN {x \in Tasks : tree[x] \in above}
    IN UNION {level[k] : k \in DOMAIN level}

(* render: the rows without a parent among the rows, each followed by its   *)
(* children.                                                                *)
(* Mistake: it starts with the tasks that have no parent at all. *)
OutermostOf(tree, shown) == {t \in shown : tree[t] = Root}
RootsOf(tree, shown) == {t \in shown : tree[t] \notin shown}
Drawn(tree, shown) ==
    LET depth[k \in 0 .. Cardinality(Tasks)] ==
            IF k = 0 THEN RootsOf(tree, shown)
            ELSE LET above == depth[k - 1] IN {t \in shown : tree[t] \in above}
    IN UNION {depth[k] : k \in DOMAIN depth}

TaskRows == Request("tasks", <<>>)

---------------------------------------------------------------------------
(* The user *)

TaskClick == MaySend /\ taskClicks < MaxTaskClicks /\ taskClicks' = taskClicks + 1

(* openEditor, fillParentPicker.  A parent that is not in the list is offered. *)
OpenTask(t) ==
    /\ TaskClick /\ ~taskForm.open /\ t \in Listed(taskList)
    /\ taskForm' = [open |-> TRUE, task |-> t, parent |-> taskList[t],
                    offers |-> (Listed(taskList) \ DescendantsOf(taskList, t))
                               \cup {Root, taskList[t]}]
    /\ UNCHANGED <<web, parentOf, otherMove, added, taskList, saveBusy, quick, overlapped, stirred,
                   ringed, unseen>>

PickParent(p) == /\ UserMayAct /\ taskForm.open /\ p \in taskForm.offers \ {taskForm.parent}
                 /\ taskForm' = [taskForm EXCEPT !.parent = p, !.offers = {}]
                 /\ UNCHANGED <<web, parentOf, otherMove, added, taskList, saveBusy, quick,
                                overlapped, stirred, ringed, unseen, taskClicks>>

CloseTask == /\ UserMayAct /\ taskForm.open
             /\ taskForm' = ClosedTask
             /\ UNCHANGED <<web, parentOf, otherMove, added, taskList, saveBusy, quick, overlapped,
                            stirred, ringed, unseen, taskClicks>>

(* saveEditor returns nothing, and so nothing sets the busy flag back. *)
SaveTask == /\ TaskClick /\ taskForm.open /\ ~saveBusy
            /\ saveBusy' = TRUE
            /\ net' = Append(net, Request("move", <<taskForm.task, taskForm.parent>>))
            /\ UNCHANGED <<faults, popup, page, parentOf, otherMove, added, taskList, taskForm,
                           quick, overlapped, stirred, ringed, unseen>>

(* From its row, or from the form; confirmDialog has been answered. *)
DeleteTask(t) == /\ TaskClick
                 /\ t \in IF taskForm.open THEN {taskForm.task} ELSE Listed(taskList)
                 /\ net' = Append(net, Request("erase task", <<t, taskForm.open>>))
                 /\ UNCHANGED <<faults, popup, page, parentOf, otherMove, added, taskList, taskForm,
                                saveBusy, quick, overlapped, stirred, ringed, unseen>>

TypeSummary == /\ TaskClick /\ ~taskForm.open
               /\ quick' = [quick EXCEPT !.text = taskClicks']
               /\ UNCHANGED <<web, parentOf, otherMove, added, taskList, taskForm, saveBusy,
                              overlapped, stirred, ringed, unseen>>

(* Mistake: the field is sent whether or not it is busy. *)
QuickAlways == quick.text # 0
QuickFree == quick.text # 0 /\ ~quick.busy

QuickAdd == /\ TaskClick /\ ~taskForm.open /\ QuickFree
            /\ quick' = [quick EXCEPT !.busy = TRUE]
            /\ net' = Append(net, Request("add task", <<quick.text>>))
            /\ UNCHANGED <<faults, popup, page, parentOf, otherMove, added, taskList, taskForm,
                           saveBusy, overlapped, stirred, ringed, unseen>>

---------------------------------------------------------------------------
(* The server *)

(* reject_parent_cycle walks up from the parent: does it come to the task?    *)
WalkUp(p) == LET up[k \in 0 .. Cardinality(Tasks)] ==
                     IF k = 0 THEN p
                     ELSE LET q == up[k - 1] IN IF q \in Tasks THEN parentOf[q] ELSE q
             IN up
Cyclic(t, p) == LET up == WalkUp(p) IN \E k \in DOMAIN up : up[k] = t

(* A walk that has not ended after 64 steps is refused too: it is in a cycle, *)
(* no chain of the model is as long.                                         *)
ParentRefused(t, p) == Cyclic(t, p) \/ WalkUp(p)[Cardinality(Tasks)] \in Tasks

(* PATCH: a parent that is null leaves the parent as it is. *)
MoveTo(t, p) == [parentOf EXCEPT ![t] = IF p = Root THEN @ ELSE p]

(* SELECT ... FOR UPDATE: the task that is moved is locked, those above are not. *)
Locked(t) == otherMove[1] = t \/ \E n \in DOMAIN net : /\ net[n].op = "move" /\ net[n].at = "checked"
                                                      /\ net[n].arg[1] = t

CheckMove(n) ==
    /\ Arrived(n, "move") /\ ~Locked(net[n].arg[1])
    /\ LET t == net[n].arg[1]
           p == net[n].arg[2] IN
       net' = IF parentOf[t] = Gone \/ (p \notin {Root, parentOf[t]} /\ ParentRefused(t, p))
              THEN Reject(n) ELSE [net EXCEPT ![n].at = "checked"]
    /\ UNCHANGED <<faults, popup, page, taskState>>

WriteMove(n) ==
    /\ net[n].op = "move" /\ net[n].at = "checked"
    /\ parentOf' = MoveTo(net[n].arg[1], net[n].arg[2])
    /\ net' = Reply(n, <<>>)
    /\ overlapped' = (overlapped \/ otherMove # NoMove)
    /\ UNCHANGED <<faults, popup, page, otherMove, added, taskList, taskForm, saveBusy, quick,
                   stirred, ringed, unseen, taskClicks>>

(* Other programs do one thing: a move below another task, whenever it is     *)
(* checked and written, or a creation with a parent.                        *)
OthersCheckMove(t, p) ==
    /\ page = "open" /\ ~stirred /\ otherMove = NoMove /\ ~Locked(t)
    /\ parentOf[t] \notin {Gone, p} /\ parentOf[p] # Gone /\ ~ParentRefused(t, p)
    /\ otherMove' = <<t, p>>
    /\ stirred' = TRUE
    /\ UNCHANGED <<web, parentOf, added, taskList, taskForm, saveBusy, quick, overlapped, ringed,
                   unseen, taskClicks>>

OthersWriteMove ==
    /\ page = "open" /\ otherMove # NoMove
    /\ parentOf' = MoveTo(otherMove[1], otherMove[2])
    /\ otherMove' = NoMove
    /\ overlapped' = (overlapped \/ \E n \in DOMAIN net : net[n].at = "checked")
    /\ UNCHANGED <<web, added, taskList, taskForm, saveBusy, quick, stirred, ringed, unseen,
                   taskClicks>>

(* create_task, behind a PUT with RELATED-TO or a POST with parent_uid: the   *)
(* parent is stored as it comes, and there may be children already that name  *)
(* the task.                                                                *)
OthersCreate(t, p) ==
    /\ page = "open" /\ ~stirred /\ parentOf[t] = Gone
    /\ parentOf' = [parentOf EXCEPT ![t] = p]
    /\ stirred' = TRUE
    /\ ringed' = (ringed \/ Cyclic(t, p))
    /\ overlapped' = (overlapped \/ \E n \in DOMAIN net : net[n].at = "checked")
    /\ UNCHANGED <<web, otherMove, added, taskList, taskForm, saveBusy, quick, unseen, taskClicks>>

(* The whole tree below goes with it. *)
ServeErase(n) ==
    /\ Arrived(n, "erase task")
    /\ \A t \in DescendantsOf(parentOf, net[n].arg[1]) : ~Locked(t)
    /\ net' = IF parentOf[net[n].arg[1]] = Gone THEN Reject(n) ELSE Reply(n, <<>>)
    /\ LET erased == {t \in DescendantsOf(parentOf, net[n].arg[1]) : parentOf[net[n].arg[1]] # Gone} IN
       parentOf' = [t \in Tasks |-> IF t \in erased THEN Gone ELSE parentOf[t]]
    /\ UNCHANGED <<faults, popup, page, otherMove, added, taskList, taskForm, saveBusy, quick,
                   overlapped, stirred, ringed, unseen, taskClicks>>

ServeTasks(n) == /\ Arrived(n, "tasks")
                 /\ net' = Reply(n, parentOf)
                 /\ UNCHANGED <<faults, popup, page, taskState>>

(* A new task is one more outermost row, which nothing below depends on. *)
ServeAdd(n) == /\ Arrived(n, "add task")
               /\ net' = Reply(n, <<>>)
               /\ added' = added \cup {net[n].arg[1]}
               /\ UNCHANGED <<faults, popup, page, parentOf, otherMove, taskList, taskForm,
                              saveBusy, quick, overlapped, stirred, ringed, unseen, taskClicks>>

---------------------------------------------------------------------------
(* Answers *)

TasksShown(n) == /\ Answered(n, "tasks")
                 /\ taskList' = net[n].ans
                 /\ net' = Settle(n)
                 /\ UNCHANGED <<faults, popup, page, parentOf, otherMove, added, taskForm, saveBusy,
                                quick, overlapped, stirred, ringed, unseen, taskClicks>>

TaskWritten(n) == /\ \/ Answered(n, "move")
                     \/ Answered(n, "erase task") /\ net[n].arg[2]      \* from the form
                  /\ taskForm' = ClosedTask
                  /\ popup' = NoPopup
                  /\ net' = Append(Settle(n), TaskRows)
                  /\ UNCHANGED <<faults, page, parentOf, otherMove, added, taskList, saveBusy,
                                 quick, overlapped, stirred, ringed, unseen, taskClicks>>

RowErased(n) == /\ Answered(n, "erase task") /\ ~net[n].arg[2]
                /\ net' = Append(Settle(n), TaskRows)
                /\ UNCHANGED <<faults, popup, page, taskState>>

(* The field is emptied of whatever it holds by now. *)
TaskAdded(n) == /\ Answered(n, "add task")
                /\ quick' = [text |-> 0, busy |-> FALSE]
                /\ popup' = NoPopup
                /\ net' = Append(Settle(n), TaskRows)
                /\ UNCHANGED <<faults, page, parentOf, otherMove, added, taskList, taskForm,
                               saveBusy, overlapped, stirred, ringed, unseen, taskClicks>>

TasksFailed(n) == /\ ShowError(n)
                  /\ IF net[n].op = "add task"
                     THEN quick' = [quick EXCEPT !.busy = FALSE]
                          /\ unseen' = unseen \cup {net[n].arg[1]}
                     ELSE UNCHANGED <<quick, unseen>>
                  /\ UNCHANGED <<parentOf, otherMove, added, taskList, taskForm, saveBusy,
                                 overlapped, stirred, ringed, taskClicks>>

TaskAnswer(n) == TasksShown(n) \/ TaskWritten(n) \/ RowErased(n) \/ TaskAdded(n) \/ TasksFailed(n)
TaskService(n) == CheckMove(n) \/ WriteMove(n) \/ ServeErase(n) \/ ServeTasks(n) \/ ServeAdd(n)

TasksNext ==
    \/ \E t \in Tasks : OpenTask(t) \/ DeleteTask(t)
    \/ \E p \in Tasks \cup {Root} : PickParent(p)
    \/ CloseTask \/ SaveTask \/ TypeSummary \/ QuickAdd
    \/ \E t \in MovedByOthers, p \in Tasks : OthersCheckMove(t, p)
    \/ OthersWriteMove
    \/ \E t \in CreatedByOthers, p \in Tasks : OthersCreate(t, p)
    \/ \E n \in DOMAIN net :
         \/ TaskService(n) \/ TaskAnswer(n)
         \/ (Lose(n) \/ SessionExpired(n)) /\ UNCHANGED taskState
    \/ Dismiss /\ UNCHANGED taskState

TasksSpec == WebInit(<<>>) /\ TasksInit /\ [][TasksNext]_tasksVars

---------------------------------------------------------------------------
(* Whatever filter selects the rows, each of them is drawn, below its parent *)
(* or at the outside.  A row is lost only with a cycle of parents above it,    *)
(* and a cycle needs a task that other programs create below itself, which    *)
(* create_task does not check, or two changes of which one was written        *)
(* between check and write of the other.                                     *)
EveryTaskDrawn ==
    [][taskList' # taskList /\ ~overlapped' /\ ~ringed' =>
         \A shown \in SUBSET Listed(taskList)' : Drawn(taskList', shown) = shown]_tasksVars

(* A parent the form has offered closes no cycle: "none of them may become   *)
(* its parent".  The form has asked the list it was filled from, so what other *)
(* programs have done in the meantime, a move or a task created with a parent, *)
(* is outside what this covers.                                              *)
OffersAcyclic ==
    [][\A n \in DOMAIN net :
         Arrived(n, "move") /\ net[n].arg[2] # Root /\ parentOf[net[n].arg[1]] # Gone /\ ~stirred
             /\ Len(net') = Len(net) /\ net'[n].at # "sent" =>
           ~Cyclic(net[n].arg[1], net[n].arg[2])]_tasksVars

(* A summary is added once, unless its adding seemed to fail. *)
TaskAddedOnce ==
    [][\A n \in DOMAIN net :
         Arrived(n, "add task") /\ Accepted(n) => net[n].arg[1] \notin added \ unseen]_tasksVars
================================================================================
