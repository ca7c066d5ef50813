----------------------------- MODULE CalendarDialog -----------------------------
(***************************************************************************)
(* The dialog that creates and edits calendars.  A new calendar may be     *)
(* filled from a file, and when that import fails the calendar is deleted  *)
(* again with whatever it holds by then.  An edit sends every field as the *)
(* dialog was filled, without saying which calendar it has seen.           *)
(***************************************************************************)
EXTENDS WebRequests

CONSTANTS OldCalendars, NewCalendars,    \* there at first, and created later
          MaxDialogs   \* how often the user opens or submits the dialog, at last submits

ASSUME DialogAssumption == MaxDialogs \in Nat

Dialogs == OldCalendars \cup NewCalendars
Fields == {"name", "components"}         \* source_url is sent when changed only
Absent == [f \in Fields |-> 0]
Titles == [Fields -> {1, 2}]             \* the values of the fields

VARIABLES titled,        \* the server: calendar -> its fields
          events,        \* the server: calendar -> what it holds: "file", "part" of one, "others"
          sidebar,       \* state.calendars
          dialog,
          tainted,       \* history: edited by others or twice at a time, imported with a lost answer
          staleList,     \* history: a list was lost or overtaken, or the answer to an edit lost
          dialogs        \* how often the dialog was opened or submitted

dialogState == <<titled, events, sidebar, dialog, tainted, staleList, dialogs>>
dialogVars == <<web, dialogState>>

New == "new"
ClosedDialog == [open |-> FALSE, cal |-> New, fields |-> Absent, changed |-> {}, file |-> FALSE,
                 early |-> FALSE]

DialogInit == /\ titled = [c \in Dialogs |-> IF c \in OldCalendars THEN [f \in Fields |-> 1]
                                                                   ELSE Absent]
              /\ events = [c \in Dialogs |-> {}]
              /\ sidebar = titled /\ dialog = ClosedDialog
              /\ tainted = {} /\ staleList = FALSE /\ dialogs = 0

---------------------------------------------------------------------------
(* openCalendarModal; early: what fills the dialog is about to change. *)
OpenDialog(cal) ==
    /\ UserMayAct /\ ~dialog.open /\ dialogs + 1 < MaxDialogs
    /\ dialogs' = dialogs + 1
    /\ cal \in {New} \cup {c \in Dialogs : sidebar[c] # Absent}
    /\ dialog' = [ClosedDialog EXCEPT
                     !.open = TRUE, !.cal = cal, !.early = ~Quiet \/ staleList,
                     !.fields = IF cal = New THEN [f \in Fields |-> 1] ELSE sidebar[cal]]
    /\ UNCHANGED <<web, titled, events, sidebar, tainted, staleList>>

(* At most one field at a time; those of a new calendar are as good as any. *)
ChangeField(f) == /\ UserMayAct /\ dialog.open /\ dialog.changed = {} /\ dialog.cal # New
                  /\ dialog' = [dialog EXCEPT !.fields[f] = 3 - @, !.changed = {f}]
                  /\ UNCHANGED <<web, titled, events, sidebar, tainted, staleList, dialogs>>

ChooseFile == /\ UserMayAct /\ dialog.open /\ dialog.cal = New /\ ~dialog.file
              /\ dialog' = [dialog EXCEPT !.file = TRUE]
              /\ UNCHANGED <<web, titled, events, sidebar, tainted, staleList, dialogs>>

CloseDialog == /\ UserMayAct /\ dialog.open
               /\ dialog' = ClosedDialog
               /\ UNCHANGED <<web, titled, events, sidebar, tainted, staleList, dialogs>>

SubmitDialog == /\ MaySend /\ dialog.open /\ dialogs < MaxDialogs
                /\ dialogs' = dialogs + 1
                /\ net' = Append(net,
                     IF dialog.cal = New
                     THEN Request("create", [fields |-> dialog.fields, file |-> dialog.file])
                     ELSE Request("edit", dialog))
                /\ tainted' = tainted \cup {c \in {dialog.cal} \ {New} : Waiting({"edit"})}
                /\ UNCHANGED <<faults, popup, page, titled, events, sidebar, dialog, staleList>>

---------------------------------------------------------------------------
(* The server refuses a slug that is taken and a file it cannot read. *)
ServeCreate(n) == /\ Arrived(n, "create")
                  /\ \/ net' = Reject(n) /\ UNCHANGED titled
                     \/ \E c \in NewCalendars :
                          /\ titled[c] = Absent
                          /\ titled' = [titled EXCEPT ![c] = net[n].arg.fields]
                          /\ net' = Reply(n, c)
                  /\ UNCHANGED <<faults, popup, page, events, sidebar, dialog, tainted, staleList, dialogs>>

ServeTitle(n) == /\ Arrived(n, "edit")
                 /\ LET r == net[n].arg IN
                    IF titled[r.cal] # Absent
                    THEN titled' = [titled EXCEPT ![r.cal] = r.fields] /\ net' = Reply(n, r.cal)
                    ELSE net' = Reject(n) /\ UNCHANGED titled
                 /\ UNCHANGED <<faults, popup, page, events, sidebar, dialog, tainted, staleList, dialogs>>

(* Every series is stored in a transaction of its own: what fails between   *)
(* two of them leaves the part of the file before it.                       *)
ServeImport(n) == /\ Arrived(n, "import")
                  /\ \/ net' = Reject(n) /\ UNCHANGED events
                     \/ /\ titled[net[n].arg] # Absent
                        /\ \/ net' = Reply(n, {})
                              /\ events' = [events EXCEPT ![net[n].arg] = @ \cup {"file"}]
                           \/ net' = Reject(n)
                              /\ events' = [events EXCEPT ![net[n].arg] = @ \cup {"part"}]
                  /\ UNCHANGED <<faults, popup, page, titled, sidebar, dialog, tainted, staleList, dialogs>>

ServeCleanup(n) == /\ Arrived(n, "cleanup")
                   /\ IF titled[net[n].arg] # Absent THEN net' = Reply(n, {}) ELSE net' = Reject(n)
                   /\ titled' = [titled EXCEPT ![net[n].arg] = Absent]
                   /\ events' = [events EXCEPT ![net[n].arg] = {}]
                   /\ UNCHANGED <<faults, popup, page, sidebar, dialog, tainted, staleList, dialogs>>

ServeList(n) == /\ Arrived(n, "calendars")
                /\ net' = Reply(n, titled)
                /\ UNCHANGED <<faults, popup, page, dialogState>>

(* The user's other programs. *)
OthersFill(c) == /\ page = "open" /\ titled[c] # Absent /\ "others" \notin events[c]
                 /\ events' = [events EXCEPT ![c] = @ \cup {"others"}]
                 /\ UNCHANGED <<web, titled, sidebar, dialog, tainted, staleList, dialogs>>

OthersEdit(c) == /\ page = "open" /\ titled[c] # Absent /\ c \notin tainted
                 /\ titled' = [titled EXCEPT ![c]["name"] = 3 - @]
                 /\ tainted' = tainted \cup {c}
                 /\ UNCHANGED <<web, events, sidebar, dialog, staleList, dialogs>>

---------------------------------------------------------------------------
CalendarList == Request("calendars", {})

(* Mistake: the cleanup is done whatever the import came to. *)
AfterImportAlways(n) == Answered(n, "import") \/ (Failed(n) /\ net[n].op = "import")
AfterImport(n) == Failed(n) /\ net[n].op = "import"

(* Mistake: the sidebar is loaded again after a creation only. *)
EditedUnlisted(n) == net' = Settle(n)
Relist(n) == net' = Append(Settle(n), CalendarList)

(* The modal is hidden, the calendars are listed again, the file is sent. *)
Submitted(n) ==
    /\ Answered(n, "create") \/ Answered(n, "edit")
    /\ dialog' = ClosedDialog
    /\ popup' = NoPopup
    /\ IF net[n].op = "edit" THEN Relist(n)
       ELSE net' = Settle(n) \o <<CalendarList>>
                   \o IF net[n].arg.file THEN <<Request("import", net[n].ans)>> ELSE <<>>
    /\ UNCHANGED <<faults, page, titled, events, sidebar, tainted, staleList, dialogs>>

ImportFailed(n) == /\ AfterImport(n)
                   /\ net' = Append(Settle(n), Request("cleanup", net[n].arg))
                   /\ popup' = NoPopup
                   /\ UNCHANGED <<faults, page, dialogState>>

CalendarsListed(n) == /\ Answered(n, "calendars")
                      /\ sidebar' = net[n].ans
                      /\ staleList' = (staleList \/ Overtakes(n, {"calendars"}))
                      /\ net' = Settle(n)
                      /\ UNCHANGED <<faults, popup, page, titled, events, dialog, tainted, dialogs>>

Imported(n) == /\ Answered(n, "import")
               /\ net' = Settle(n) /\ popup' = NoPopup
               /\ UNCHANGED <<faults, page, dialogState>>

CleanedUp(n) == /\ Answered(n, "cleanup")
                /\ Relist(n)
                /\ UNCHANGED <<faults, popup, page, dialogState>>

DialogFailed(n) == /\ net[n].op # "import" /\ ShowError(n)
                   /\ staleList' = (staleList \/ net[n].op # "create")
                   /\ UNCHANGED <<titled, events, sidebar, dialog, tainted, dialogs>>

(* A lost answer: what it said has happened. *)
LoseDialogAnswer(n) ==
    /\ Lose(n)
    /\ tainted' = IF net[n].at = "answered" /\ net[n].op = "import"
                  THEN tainted \cup {net[n].arg} ELSE tainted
    /\ staleList' = (staleList \/ net[n].op \in {"calendars", "edit"})
    /\ UNCHANGED <<titled, events, sidebar, dialog, dialogs>>

DialogNext ==
    \/ \E cal \in Dialogs \cup {New} : OpenDialog(cal)
    \/ \E f \in Fields : ChangeField(f)
    \/ \E c \in OldCalendars : OthersEdit(c)
    \/ ChooseFile \/ CloseDialog \/ SubmitDialog
    \/ \E c \in NewCalendars : OthersFill(c)
    \/ \E n \in DOMAIN net :
         \/ ServeCreate(n) \/ ServeTitle(n) \/ ServeImport(n) \/ ServeCleanup(n) \/ ServeList(n)
         \/ Submitted(n) \/ ImportFailed(n) \/ CalendarsListed(n) \/ Imported(n) \/ CleanedUp(n)
         \/ DialogFailed(n) \/ LoseDialogAnswer(n)
         \/ SessionExpired(n) /\ UNCHANGED dialogState
    \/ Dismiss /\ UNCHANGED dialogState

DialogSpec == WebInit(<<>>) /\ DialogInit /\ [][DialogNext]_dialogVars

---------------------------------------------------------------------------
(* What the clean-up takes is the calendar of an import that failed, and     *)
(* never a file that is all in it, unless the answer that said so was lost;   *)
(* the part an import stored before it failed goes with it, and so does what  *)
(* other programs have put there by then, although the comment speaks of "an  *)
(* empty orphan".  And it takes every such calendar: when all is answered,     *)
(* and nothing was lost, no part of a file is left.                          *)
FailedImportsUndone ==
    [][/\ \A n \in DOMAIN net :
             Arrived(n, "cleanup") /\ Accepted(n) =>
                "file" \notin events[net[n].arg] \/ net[n].arg \in tainted
       /\ page' = "open" /\ net' = <<>> /\ faults' = 0 =>
             \A c \in Dialogs : "part" \notin events'[c]]_dialogVars

(* An edit of one field does not take another back to what it was, unless   *)
(* the dialog was filled while something was under way or after a loss, was *)
(* sent twice, or another program has edited the calendar.                  *)
OtherFieldsKept ==
    [][\A n \in DOMAIN net :
         Arrived(n, "edit") /\ Accepted(n) /\ ~net[n].arg.early
             /\ net[n].arg.cal \notin tainted =>
           \A f \in Fields \ net[n].arg.changed :
             titled'[net[n].arg.cal][f] = titled[net[n].arg.cal][f]]_dialogVars
================================================================================
