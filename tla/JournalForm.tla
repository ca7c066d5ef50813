------------------------------ MODULE JournalForm ------------------------------
(***************************************************************************)
(* The journals of a calendar: the list, and the form that writes entries.  *)
(* A busy flag keeps it from being sent twice at a time.                    *)
(***************************************************************************)
EXTENDS WebRequests

CONSTANTS Entries, MaxJournalClicks

ASSUME JournalAssumption == MaxJournalClicks \in Nat

VARIABLES entries,       \* the server: the journals there are
          journalRows,   \* the page: those it lists
          journalForm,   \* journal-modal; text tells apart what was typed
          journalBusy,   \* $('#journal-form').data('busy')
          noted,         \* history: the texts that have become a journal
          resent,        \* history: the texts whose creation seemed to fail
          journalLate,   \* history: a list came late or was lost
          journalClicks

journalState == <<entries, journalRows, journalForm, journalBusy, noted, resent, journalLate,
                  journalClicks>>
journalVars == <<web, journalState>>

NewEntry == "new entry"
ClosedJournal == [open |-> FALSE, entry |-> NewEntry, text |-> 0, overtaken |-> FALSE]
JournalWrites == {"write", "erase entry"}

JournalInit == /\ entries \in SUBSET Entries /\ journalRows = entries
               /\ journalForm = ClosedJournal /\ journalBusy = FALSE
               /\ noted = {} /\ resent = {} /\ journalLate = FALSE /\ journalClicks = 0

---------------------------------------------------------------------------
JournalClick == journalClicks < MaxJournalClicks /\ journalClicks' = journalClicks + 1

OpenJournal(j) == /\ UserMayAct /\ JournalClick /\ ~journalForm.open
                  /\ j \in journalRows \cup {NewEntry}
                  /\ journalForm' = [ClosedJournal EXCEPT !.open = TRUE, !.entry = j]
                  /\ UNCHANGED <<web, entries, journalRows, journalBusy, noted, resent, journalLate>>

TypeJournal == /\ UserMayAct /\ JournalClick /\ journalForm.open
               /\ journalForm' = [journalForm EXCEPT !.text = journalClicks',
                                                     !.overtaken = @ \/ Waiting(JournalWrites)]
               /\ UNCHANGED <<web, entries, journalRows, journalBusy, noted, resent, journalLate>>

(* Nothing asks whether what was typed may go. *)
CloseJournal == /\ UserMayAct /\ journalForm.open
                /\ journalForm' = ClosedJournal
                /\ UNCHANGED <<web, entries, journalRows, journalBusy, noted, resent, journalLate,
                               journalClicks>>

(* Mistake: a save does not ask whether another is under way. *)
NeverBusy == TRUE
NotBusy == ~journalBusy

SubmitJournal == /\ MaySend /\ JournalClick /\ journalForm.open /\ NotBusy
                 /\ journalForm.text # 0          \* the summary is required
                 /\ journalBusy' = TRUE
                 /\ net' = Append(net, Request("write", journalForm))
                 /\ UNCHANGED <<faults, popup, page, entries, journalRows, journalForm, noted,
                                resent, journalLate>>

Erasure(j) == /\ MaySend /\ JournalClick
              /\ j \in IF journalForm.open THEN {journalForm.entry} \ {NewEntry} ELSE journalRows
              /\ net' = Append(net, Request("erase entry", [journalForm EXCEPT !.entry = j]))
              /\ UNCHANGED <<faults, popup, page, entries, journalRows, journalBusy, noted, resent,
                             journalLate>>

(* Mistake: the form is closed before the deletion is known to succeed. *)
EraseAndClose(j) == Erasure(j) /\ journalForm' = ClosedJournal
(* From its row, or from the form; confirmDialog has been answered. *)
EraseJournal(j) == Erasure(j) /\ UNCHANGED journalForm

---------------------------------------------------------------------------
(* External: journals_api. *)
ServeJournals(n) ==
    /\ net[n].at = "sent"
    /\ \/ /\ net[n].op = "journals" /\ net' = Reply(n, entries)
          /\ UNCHANGED <<entries, noted>>
       \/ /\ net[n].op = "write" /\ net[n].arg.entry # NewEntry
          /\ net' = IF net[n].arg.entry \in entries THEN Reply(n, {}) ELSE Reject(n)
          /\ UNCHANGED <<entries, noted>>
       \/ /\ net[n].op = "write" /\ net[n].arg.entry = NewEntry
          /\ \E j \in Entries \ entries : entries' = entries \cup {j}
          /\ noted' = noted \cup {net[n].arg.text}
          /\ net' = Reply(n, {})
       \/ /\ net[n].op = "erase entry"
          /\ net' = IF net[n].arg.entry \in entries THEN Reply(n, {}) ELSE Reject(n)
          /\ entries' = entries \ {net[n].arg.entry}
          /\ UNCHANGED noted
    /\ UNCHANGED <<faults, popup, page, journalRows, journalForm, journalBusy, resent, journalLate,
                   journalClicks>>

---------------------------------------------------------------------------
JournalsShown(n) == /\ Answered(n, "journals")
                    /\ journalRows' = net[n].ans
                    /\ journalLate' = (journalLate \/ Overtakes(n, {"journals"}))
                    /\ net' = Settle(n)
                    /\ UNCHANGED <<faults, popup, page, entries, journalForm, journalBusy, noted,
                                   resent, journalClicks>>

(* The modal is hidden, whatever it holds by now; a deletion from a row does *)
(* not touch it.                                                            *)
JournalWritten(n) ==
    /\ Answered(n, "write") \/ Answered(n, "erase entry")
    /\ journalForm' = IF net[n].op = "write" \/ net[n].arg.open THEN ClosedJournal ELSE journalForm
    /\ journalBusy' = (journalBusy /\ net[n].op # "write")
    /\ popup' = IF net[n].op = "write" \/ net[n].arg.open THEN NoPopup ELSE popup
    /\ net' = Append(Settle(n), Request("journals", {}))
    /\ UNCHANGED <<faults, page, entries, journalRows, noted, resent, journalLate, journalClicks>>

JournalFailed(n) ==
    /\ ShowError(n)
    /\ journalBusy' = (journalBusy /\ net[n].op # "write")
    /\ resent' = IF net[n].op = "write" THEN resent \cup {net[n].arg.text} ELSE resent
    /\ journalLate' = TRUE
    /\ UNCHANGED <<entries, journalRows, journalForm, noted, journalClicks>>

JournalNext ==
    \/ \E j \in Entries \cup {NewEntry} : OpenJournal(j) \/ EraseJournal(j)
    \/ TypeJournal \/ CloseJournal \/ SubmitJournal
    \/ \E n \in DOMAIN net :
         \/ ServeJournals(n) \/ JournalsShown(n) \/ JournalWritten(n) \/ JournalFailed(n)
         \/ (Lose(n) \/ SessionExpired(n)) /\ UNCHANGED journalState
    \/ Dismiss /\ UNCHANGED journalState

JournalSpec == WebInit(<<>>) /\ JournalInit /\ [][JournalNext]_journalVars

---------------------------------------------------------------------------
(* What was typed becomes one journal, unless its creation seemed to fail. *)
NotedOnce ==
    [][\A n \in DOMAIN net :
         Arrived(n, "write") /\ Accepted(n) /\ net[n].arg.entry = NewEntry =>
            net[n].arg.text \notin noted \ resent]_journalVars

(* Text in the form goes only with the user's leave or into the journal, or  *)
(* with the journal: never because of a request that was refused.  Text that  *)
(* was typed while a save or a deletion was under way is not safe: its answer *)
(* hides the modal.                                                          *)
JournalTextKept ==
    [][journalForm.open /\ journalForm.text # 0 /\ ~journalForm.overtaken /\ net' # net =>
         \/ journalForm'.text = journalForm.text
         \/ \E n \in DOMAIN net : /\ Answered(n, "write") \/ Answered(n, "erase entry")
                                  /\ net[n].arg.text = journalForm.text]_journalVars
================================================================================
