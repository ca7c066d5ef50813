------------------------------ MODULE Attachments ------------------------------
(***************************************************************************)
(* The attachments in the event modal: the list is loaded when the modal   *)
(* opens and after each change, for whichever event the modal holds by then,*)
(* and is not cleared before.  A file is read before it is uploaded.        *)
(***************************************************************************)
EXTENDS WebRequests

CONSTANTS Holders,       \* the events
          MaxAttachClicks

ASSUME AttachAssumption == MaxAttachClicks \in Nat

VARIABLES attached,      \* the server: event -> its attachments, each with its owner
          holder,        \* state.editingEventId
          attachOpen,    \* the modal is open
          attachRows,    \* #ev-attachments
          reading,       \* the event whose file is being read, or NoHolder
          attachMisled,  \* history: a list came late, was lost, or was changed under way
          attachClicks

attachState == <<attached, holder, attachOpen, attachRows, reading, attachMisled, attachClicks>>
attachVars == <<web, attachState>>

NoHolder == "no event"

AttachInit == /\ attached = [e \in Holders |-> {<<e, "old">>}]
              /\ holder = NoHolder /\ attachOpen = FALSE /\ attachRows = {}
              /\ reading = NoHolder /\ attachMisled = FALSE /\ attachClicks = 0

---------------------------------------------------------------------------
AttachClick == attachClicks < MaxAttachClicks /\ attachClicks' = attachClicks + 1

(* Mistake: the list is loaded only when there is none. *)
LoadOnce(e, rest) == IF e = NoHolder \/ attachRows # {} THEN rest ELSE Append(rest, Request("attachments", e))
(* loadAttachments: nothing for a new event. *)
LoadAttachments(e, rest) == IF e = NoHolder THEN rest
                            ELSE Append(rest, Request("attachments", e))

OpenHolder(e) == /\ MaySend /\ AttachClick /\ ~attachOpen
                 /\ holder' = e /\ attachOpen' = TRUE
                 /\ net' = LoadAttachments(e, net)
                 /\ attachMisled' = (net # <<>>)
                 /\ UNCHANGED <<faults, popup, page, attached, attachRows, reading>>

CloseHolder == /\ UserMayAct /\ attachOpen
               /\ attachOpen' = FALSE
               /\ UNCHANGED <<web, attached, holder, attachRows, reading, attachMisled, attachClicks>>

ChooseUpload == /\ UserMayAct /\ AttachClick /\ attachOpen /\ holder # NoHolder
                /\ reading = NoHolder
                /\ reading' = holder
                /\ UNCHANGED <<web, attached, holder, attachOpen, attachRows, attachMisled>>

(* reader.onload: the file goes to the event that the modal holds by now. *)
FileRead == /\ page = "open" /\ reading # NoHolder
            /\ net' = Append(net, Request("upload", holder))
            /\ reading' = NoHolder
            /\ UNCHANGED <<faults, popup, page, attached, holder, attachOpen, attachRows,
                           attachMisled, attachClicks>>

(* confirmDialog has been answered.  The list of a new event is hidden. *)
EraseAttachment(a) ==
    /\ MaySend /\ AttachClick /\ attachOpen /\ holder # NoHolder /\ a \in attachRows
    /\ net' = Append(net, Request("erase", [row |-> a, event |-> holder,
                              sure |-> ~attachMisled /\ ~Waiting({"attachments"})]))
    /\ UNCHANGED <<faults, popup, page, attached, holder, attachOpen, attachRows, reading,
                   attachMisled>>

---------------------------------------------------------------------------
(* External: attachments_api. *)
ServeAttachments(n) ==
    /\ net[n].at = "sent"
    /\ \/ /\ net[n].op = "attachments"
          /\ net' = Reply(n, attached[net[n].arg]) /\ UNCHANGED attached
       \/ /\ net[n].op = "upload" /\ net[n].arg = NoHolder
          /\ net' = Reject(n) /\ UNCHANGED attached
       \/ /\ net[n].op = "upload" /\ net[n].arg # NoHolder
          /\ net' = Reply(n, {})
          /\ attached' = [attached EXCEPT ![net[n].arg] = @ \cup {<<net[n].arg, "new">>}]
       \/ /\ net[n].op = "erase"
          /\ net' = IF net[n].arg.row \in attached[net[n].arg.row[1]] THEN Reply(n, {})
                    ELSE Reject(n)
          /\ attached' = [attached EXCEPT ![net[n].arg.row[1]] = @ \ {net[n].arg.row}]
    /\ UNCHANGED <<faults, popup, page, holder, attachOpen, attachRows, reading, attachMisled,
                   attachClicks>>

---------------------------------------------------------------------------
AttachmentsShown(n) == /\ Answered(n, "attachments")
                       /\ attachRows' = net[n].ans
                       /\ attachMisled' = (attachMisled \/ Overtakes(n, {"attachments"}))
                       /\ net' = Settle(n)
                       /\ UNCHANGED <<faults, popup, page, attached, holder, attachOpen, reading,
                                      attachClicks>>

(* Mistake: an upload does not load the list again. *)
NotReloaded(e, rest) == rest
Reloaded(e, rest) == LoadAttachments(e, rest)

AttachmentsChanged(n) == /\ Answered(n, "upload") \/ Answered(n, "erase")
                         /\ popup' = NoPopup
                         /\ net' = Reloaded(holder, Settle(n))
                         /\ UNCHANGED <<faults, page, attachState>>

AttachFailed(n) == /\ ShowError(n)
                   /\ attachMisled' = TRUE
                   /\ UNCHANGED <<attached, holder, attachOpen, attachRows, reading, attachClicks>>

AttachNext ==
    \/ \E e \in Holders \cup {NoHolder} : OpenHolder(e)
    \/ CloseHolder \/ ChooseUpload \/ FileRead
    \/ \E a \in attachRows : EraseAttachment(a)
    \/ \E n \in DOMAIN net :
         \/ ServeAttachments(n) \/ AttachmentsShown(n) \/ AttachmentsChanged(n) \/ AttachFailed(n)
         \/ (Lose(n) \/ SessionExpired(n)) /\ UNCHANGED attachState
    \/ Dismiss /\ UNCHANGED attachState

AttachSpec == WebInit(<<>>) /\ AttachInit /\ [][AttachNext]_attachVars

---------------------------------------------------------------------------
(* When everything is answered, in order and without a loss, the list of the *)
(* modal is that of its event, whatever was opened, uploaded and deleted      *)
(* meanwhile.                                                               *)
AttachmentsOfHolder ==
    page = "open" /\ Quiet /\ attachOpen /\ holder # NoHolder /\ ~attachMisled =>
        attachRows = attached[holder]

(* Delete deletes an attachment of the event in the modal, unless its list    *)
(* was still awaited, came late or was lost: the rows of the event opened      *)
(* before are shown until then, and their buttons work.                       *)
ErasedFromHolder ==
    [][\A n \in DOMAIN net :
         Arrived(n, "erase") /\ Accepted(n) /\ net[n].arg.sure =>
            net[n].arg.row[1] = net[n].arg.event]_attachVars
================================================================================
