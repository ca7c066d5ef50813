--------------------------- MODULE IndexPageProofs ---------------------------
(***************************************************************************)
(* Theorems about the parts of the index page: its tabs, the attachments    *)
(* and the search boxes of the event modal, and the event form.  They hold  *)
(* for any number of requests under way, of lost ones and of clicks.        *)
(***************************************************************************)
EXTENDS WebClientProofs, CalendarTabs, Attachments, SearchBoxes, EventForm

---------------------------------------------------------------------------
(* Attachments *)

AttachMessage(m) ==
    /\ m.op \in {"attachments", "upload", "erase"}
    /\ m.op = "attachments" => /\ m.arg \in Holders
                               /\ m.at = "answered" => \A a \in m.ans : a[1] = m.arg
    /\ m.op = "upload" => m.arg \in Holders \cup {NoHolder}
    /\ m.op = "erase" => /\ m.arg.row[1] \in Holders
                         /\ m.arg.sure => m.arg.row[1] = m.arg.event

(* The list of the modal's event is right or will be asked for again; what   *)
(* is shown of it meanwhile is of that event.                                *)
ListOfHolder ==
    /\ Fresh(net, "attachments", holder, {"upload", "erase"}, attachRows, attached[holder])
    /\ \A k \in DOMAIN net : net[k].op = "attachments" => net[k].arg = holder
    /\ Waiting({"attachments"}) \/ \A a \in attachRows : a[1] = holder

AttachTypes == /\ attached \in [Holders -> SUBSET (Holders \X {"old", "new"})]
               /\ \A e \in Holders : \A a \in attached[e] : a[1] = e
               /\ holder \in Holders \cup {NoHolder}
               /\ \A a \in attachRows : a[1] \in Holders

AttachInv == /\ Posted(net) /\ \A k \in DOMAIN net : AttachMessage(net[k])
             /\ AttachTypes
             /\ page = "open" /\ ~attachMisled /\ holder # NoHolder => ListOfHolder

(* One of net is answered or refused, and the page does not know yet. *)
LEMMA AttachInPlace ==
    ASSUME AttachInv, NEW n \in DOMAIN net, DOMAIN net' = DOMAIN net, Posted(net'),
           net'[n].op = net[n].op, net'[n].arg = net[n].arg,
           \A k \in DOMAIN net \ {n} : net'[k] = net[k],
           AttachMessage(net'[n]), AttachTypes', UNCHANGED <<page, holder, attachRows, attachMisled>>,
           holder # NoHolder => attached'[holder] = attached[holder] \/ net[n].op \in {"upload", "erase"},
           net[n].op = "attachments" /\ net'[n].at = "answered" =>
                net'[n].ans = attached[net[n].arg]
    PROVE  AttachInv'
<1>1. \A k \in DOMAIN net' : AttachMessage(net'[k])
  BY DEF AttachInv
<1>2. ASSUME page = "open", ~attachMisled, holder # NoHolder PROVE ListOfHolder'
  <2>1. ListOfHolder
    BY <1>2 DEF AttachInv
  <2>2. Fresh(net', "attachments", holder, {"upload", "erase"}, attachRows, attached'[holder])
    <3>1. Fresh(net, "attachments", holder, {"upload", "erase"}, attachRows, attached[holder])
      BY <2>1 DEF ListOfHolder
    <3>2. attached'[holder] = attached[holder] \/ net[n].op \in {"upload", "erase"}
      BY <1>2
    <3>3. net[n].op = "attachments" /\ net'[n].at = "answered" /\ net'[n].arg = holder
              => net'[n].ans = attached'[holder]
      BY <3>2
    <3> QED
      BY <3>1, <3>2, <3>3, AnsweredInPlace
  <2>3. \A k \in DOMAIN net' : net'[k].op = net[k].op /\ net'[k].arg = net[k].arg
    OBVIOUS
  <2>4. Waiting({"attachments"}) => Waiting({"attachments"})'
    BY <2>3 DEF Waiting
  <2> QED
    BY <2>1, <2>2, <2>3, <2>4 DEF ListOfHolder
<1> QED
  BY <1>1, <1>2 DEF AttachInv

LEMMA ServeAttachmentsKeeps ==
    ASSUME AttachInv, NEW n \in DOMAIN net, ServeAttachments(n)
    PROVE  AttachInv'
<1>1. /\ UNCHANGED <<page, holder, attachRows, attachMisled>> /\ Posted(net) /\ AttachTypes
      /\ AttachMessage(net[n])
  BY DEF ServeAttachments, AttachInv
<1>2. ASSUME NEW answer, net' = Reply(n, answer), AttachTypes',
             holder # NoHolder =>
                attached'[holder] = attached[holder] \/ net[n].op \in {"upload", "erase"},
             net[n].op = "attachments" =>
                answer = attached[net[n].arg] /\ \A a \in answer : a[1] = net[n].arg
      PROVE  AttachInv'
  <2>1. /\ Posted(net') /\ DOMAIN net' = DOMAIN net
        /\ net'[n].op = net[n].op /\ net'[n].arg = net[n].arg
        /\ net'[n].ans = answer /\ \A k \in DOMAIN net \ {n} : net'[k] = net[k]
    BY <1>1, <1>2, ReplyTells
  <2>2. AttachMessage(net'[n])
    BY <1>1, <1>2, <2>1 DEF AttachMessage
  <2> QED
    BY <1>1, <1>2, <2>1, <2>2, AttachInPlace
<1>3. ASSUME net' = Reject(n), AttachTypes', net[n].op \in {"upload", "erase"}
      PROVE  AttachInv'
  <2>1. /\ Posted(net') /\ DOMAIN net' = DOMAIN net
        /\ net'[n].op = net[n].op /\ net'[n].arg = net[n].arg /\ net'[n].at = "failed"
        /\ \A k \in DOMAIN net \ {n} : net'[k] = net[k]
    BY <1>1, <1>3, RejectTells
  <2>2. AttachMessage(net'[n])
    BY <1>1, <2>1 DEF AttachMessage
  <2> QED
    BY <1>1, <1>3, <2>1, <2>2, AttachInPlace
<1>4. CASE net[n].op = "attachments"
  <2>1. net' = Reply(n, attached[net[n].arg]) /\ UNCHANGED attached /\ net[n].arg \in Holders
    BY <1>1, <1>4 DEF ServeAttachments, AttachMessage
  <2>2. AttachTypes' /\ \A a \in attached[net[n].arg] : a[1] = net[n].arg
    BY <1>1, <2>1 DEF AttachTypes
  <2> QED
    BY <1>2, <1>4, <2>1, <2>2
<1>5. CASE net[n].op = "upload" /\ net[n].arg = NoHolder
  <2>1. net' = Reject(n) /\ UNCHANGED attached
    BY <1>5 DEF ServeAttachments
  <2>2. AttachTypes'
    BY <1>1, <2>1 DEF AttachTypes
  <2> QED
    BY <1>3, <1>5, <2>1, <2>2
<1>6. CASE net[n].op = "upload" /\ net[n].arg # NoHolder
  <2>1. /\ net' = Reply(n, {}) /\ net[n].arg \in Holders
        /\ attached' = [attached EXCEPT ![net[n].arg] = @ \cup {<<net[n].arg, "new">>}]
    BY <1>1, <1>6 DEF ServeAttachments, AttachMessage
  <2>2. AttachTypes'
    BY <1>1, <2>1 DEF AttachTypes
  <2> QED
    BY <1>2, <1>6, <2>1, <2>2
<1>7. CASE net[n].op = "erase"
  <2>1. /\ net' \in {Reply(n, {}), Reject(n)} /\ net[n].arg.row[1] \in Holders
        /\ attached' = [attached EXCEPT ![net[n].arg.row[1]] = @ \ {net[n].arg.row}]
    BY <1>1, <1>7 DEF ServeAttachments, AttachMessage
  <2>2. AttachTypes'
    BY <1>1, <2>1 DEF AttachTypes
  <2> QED
    BY <1>2, <1>3, <1>7, <2>1, <2>2
<1> QED
  BY <1>1, <1>4, <1>5, <1>6, <1>7 DEF AttachMessage

(* The page sends one more message, about the modal's event. *)
LEMMA AttachSends ==
    ASSUME AttachInv, NEW op, NEW arg, Sends(net, net', op, arg),
           op \in {"attachments", "upload", "erase"}, op = "attachments" => arg = holder,
           AttachMessage(net'[Len(net')]),
           UNCHANGED <<page, attached, holder, attachRows, attachMisled>>
    PROVE  AttachInv'
<1>1. Posted(net') /\ \A k \in DOMAIN net' : AttachMessage(net'[k])
  BY DEF AttachInv, Sends
<1>2. AttachTypes'
  BY DEF AttachInv, AttachTypes
<1>3. ASSUME page = "open", ~attachMisled, holder # NoHolder PROVE ListOfHolder'
  <2>1. ListOfHolder /\ Posted(net)
    BY <1>3 DEF AttachInv
  <2>2. Fresh(net', "attachments", holder, {"upload", "erase"}, attachRows, attached[holder])
    BY <2>1, AskedAgain, AskedElse DEF ListOfHolder
  <2>3. \A k \in DOMAIN net' : net'[k].op = "attachments" => net'[k].arg = holder
    BY <2>1 DEF ListOfHolder, Sends
  <2>4. Waiting({"attachments"}) => Waiting({"attachments"})'
    BY DEF Waiting, Sends
  <2> QED
    BY <2>1, <2>2, <2>3, <2>4 DEF ListOfHolder
<1> QED
  BY <1>1, <1>2, <1>3 DEF AttachInv

LEMMA OpenHolderKeeps ==
    ASSUME AttachInv, NEW e \in Holders \cup {NoHolder}, OpenHolder(e)
    PROVE  AttachInv'
<1>1. /\ holder' = e /\ UNCHANGED <<page, attached, attachRows>> /\ attachMisled' = (net # <<>>)
      /\ net' = IF e = NoHolder THEN net ELSE Append(net, Request("attachments", e))
      /\ Posted(net) /\ AttachTypes'
  BY DEF OpenHolder, LoadAttachments, AttachInv, AttachTypes
<1>2. e # NoHolder => Sends(net, net', "attachments", e)
  BY <1>1, SendTells
<1>3. Posted(net') /\ \A k \in DOMAIN net' : AttachMessage(net'[k])
  <2>1. CASE e = NoHolder
    BY <1>1, <2>1 DEF AttachInv
  <2>2. CASE e # NoHolder
    BY <1>1, <1>2, <2>2 DEF AttachInv, Sends, AttachMessage
  <2> QED
    BY <2>1, <2>2
<1>4. ASSUME ~attachMisled', e # NoHolder PROVE ListOfHolder'
  <2>1. DOMAIN net = {}
    BY <1>1, <1>4, NothingPosted
  <2>2. Fresh(net', "attachments", e, {"upload", "erase"}, attachRows, attached[e])
    BY <1>1, <1>2, <1>4, AskedAgain
  <2>3. net'[Len(net')].arg = e /\ net'[Len(net')].op = "attachments" /\ DOMAIN net' = {Len(net')}
    BY <1>2, <1>4, <2>1 DEF Sends
  <2> QED
    BY <1>1, <2>2, <2>3 DEF ListOfHolder, Waiting
<1> QED
  BY <1>1, <1>3, <1>4 DEF AttachInv

(* What is left of net is what was there. *)
LEMMA AttachSettles ==
    ASSUME AttachInv, NEW n \in DOMAIN net, NEW r, r = Settle(n)
    PROVE  /\ Posted(r) /\ \A k \in DOMAIN r : AttachMessage(r[k])
           /\ \A k \in DOMAIN r : \E m \in DOMAIN net : r[k] = net[m]
BY SettleTells DEF AttachInv

LEMMA AttachmentsShownKeeps ==
    ASSUME AttachInv, NEW n \in DOMAIN net, AttachmentsShown(n)
    PROVE  AttachInv'
<1>1. /\ attachRows' = net[n].ans /\ net' = Settle(n) /\ UNCHANGED <<page, attached, holder>>
      /\ net[n].op = "attachments" /\ net[n].at = "answered"
      /\ attachMisled' = (attachMisled \/ Overtakes(n, {"attachments"}))
      /\ AttachMessage(net[n]) /\ Posted(net)
  BY DEF AttachmentsShown, Answered, AttachInv
<1>2. \A a \in attachRows' : a[1] = net[n].arg /\ a[1] \in Holders
  BY <1>1 DEF AttachMessage
<1>3. AttachTypes'
  BY <1>1, <1>2 DEF AttachInv, AttachTypes
<1>4. ASSUME page = "open", ~attachMisled', holder # NoHolder PROVE ListOfHolder'
  <2>1. ListOfHolder /\ ~Overtakes(n, {"attachments"})
    BY <1>1, <1>4 DEF AttachInv
  <2>2. Fresh(net, "attachments", holder, {"upload", "erase"}, attachRows, attached[holder])
    BY <2>1 DEF ListOfHolder
  <2>3. Fresh(net', "attachments", holder, {"upload", "erase"}, net[n].ans, attached[holder])
    BY <1>1, <2>1, <2>2, ShownInOrder
  <2>4. \A k \in DOMAIN net' : net'[k].op = "attachments" => net'[k].arg = holder
    BY <1>1, <2>1, AttachSettles DEF ListOfHolder
  <2>5. \A a \in attachRows' : a[1] = holder
    BY <1>1, <1>2, <2>1 DEF ListOfHolder
  <2> QED
    BY <1>1, <2>3, <2>4, <2>5 DEF ListOfHolder
<1> QED
  BY <1>1, <1>3, <1>4, AttachSettles DEF AttachInv

LEMMA AttachmentsChangedKeeps ==
    ASSUME AttachInv, NEW n \in DOMAIN net, AttachmentsChanged(n)
    PROVE  AttachInv'
<1> DEFINE r == Settle(n)
<1>1. /\ net' = IF holder = NoHolder THEN r ELSE Append(r, Request("attachments", holder))
      /\ UNCHANGED <<page, attached, holder, attachRows, attachMisled>>
      /\ holder \in Holders \cup {NoHolder}
  BY DEF AttachmentsChanged, Reloaded, LoadAttachments, attachState, AttachInv, AttachTypes
<1>2. /\ Posted(r) /\ \A k \in DOMAIN r : AttachMessage(r[k])
      /\ \A k \in DOMAIN r : \E m \in DOMAIN net : r[k] = net[m]
  BY AttachSettles
<1> HIDE DEF r
<1>3. AttachTypes'
  BY <1>1 DEF AttachInv, AttachTypes
<1>4. CASE holder = NoHolder
  BY <1>1, <1>2, <1>3, <1>4 DEF AttachInv
<1>5. CASE holder # NoHolder
  <2>1. Sends(r, net', "attachments", holder)
    BY <1>1, <1>2, <1>5, SendTells
  <2>2. /\ Posted(net') /\ DOMAIN net' = DOMAIN r \cup {Len(net')}
        /\ net'[Len(net')].op = "attachments" /\ net'[Len(net')].arg = holder
        /\ net'[Len(net')].at = "sent" /\ \A k \in DOMAIN r : net'[k] = r[k]
    BY <2>1 DEF Sends
  <2>3. \A k \in DOMAIN net' : AttachMessage(net'[k])
    BY <1>1, <1>2, <1>5, <2>2 DEF AttachMessage
  <2>4. ASSUME page = "open", ~attachMisled PROVE ListOfHolder'
    <3>1. ListOfHolder
      BY <1>5, <2>4 DEF AttachInv
    <3>2. Fresh(net', "attachments", holder, {"upload", "erase"}, attachRows, attached[holder])
      BY <1>2, <2>1, AskedAgain
    <3>3. \A k \in DOMAIN net' : net'[k].op = "attachments" => net'[k].arg = holder
      BY <1>2, <2>2, <3>1 DEF ListOfHolder
    <3>4. Waiting({"attachments"})'
      BY <2>2 DEF Waiting
    <3> QED
      BY <1>1, <3>2, <3>3, <3>4 DEF ListOfHolder
  <2> QED
    BY <1>1, <1>3, <2>2, <2>3, <2>4 DEF AttachInv
<1> QED
  BY <1>4, <1>5

LEMMA EraseAttachmentKeeps ==
    ASSUME AttachInv, NEW a \in attachRows, EraseAttachment(a)
    PROVE  AttachInv'
<1> DEFINE sure == ~attachMisled /\ ~Waiting({"attachments"})
           arg == [row |-> a, event |-> holder, sure |-> sure]
<1>1. /\ net' = Append(net, Request("erase", arg))
      /\ UNCHANGED <<page, attached, holder, attachRows, attachMisled>>
      /\ page = "open" /\ holder # NoHolder /\ Posted(net) /\ a[1] \in Holders
  BY DEF EraseAttachment, MaySend, UserMayAct, AttachInv, AttachTypes
<1>2. sure => a[1] = holder
  BY <1>1 DEF AttachInv, ListOfHolder
<1>3. arg.row = a /\ arg.event = holder /\ arg.sure = sure
  OBVIOUS
<1> HIDE DEF sure, arg
<1>4. Sends(net, net', "erase", arg)
  BY <1>1, SendTells
<1>5. AttachMessage(net'[Len(net')])
  BY <1>1, <1>2, <1>3, <1>4 DEF AttachMessage, Sends
<1> QED
  BY <1>1, <1>4, <1>5, AttachSends

LEMMA AttachNextKeeps ==
    ASSUME AttachInv, [AttachNext]_attachVars
    PROVE  AttachInv'
<1>1. CASE \E e \in Holders \cup {NoHolder} : OpenHolder(e)
  BY <1>1, OpenHolderKeeps
<1>2. CASE CloseHolder \/ ChooseUpload \/ UNCHANGED attachVars \/ (Dismiss /\ UNCHANGED attachState)
  <2>1. UNCHANGED <<net, page, attached, holder, attachRows, attachMisled>>
    BY <1>2 DEF CloseHolder, ChooseUpload, Dismiss, attachVars, attachState, web
  <2> QED
    BY <2>1 DEF AttachInv, AttachTypes, ListOfHolder, Waiting
<1>3. CASE FileRead
  <2>1. /\ net' = Append(net, Request("upload", holder)) /\ Posted(net)
        /\ UNCHANGED <<page, attached, holder, attachRows, attachMisled>>
        /\ holder \in Holders \cup {NoHolder}
    BY <1>3 DEF FileRead, AttachInv, AttachTypes
  <2>2. Sends(net, net', "upload", holder)
    BY <2>1, SendTells
  <2>3. AttachMessage(net'[Len(net')])
    BY <2>1, <2>2 DEF AttachMessage, Sends
  <2> QED
    BY <2>1, <2>2, <2>3, AttachSends
<1>4. CASE \E a \in attachRows : EraseAttachment(a)
  BY <1>4, EraseAttachmentKeeps
<1>5. ASSUME NEW n \in DOMAIN net, ServeAttachments(n)
      PROVE  AttachInv'
  BY <1>5, ServeAttachmentsKeeps
<1>6. ASSUME NEW n \in DOMAIN net, AttachmentsShown(n) \/ AttachmentsChanged(n)
      PROVE  AttachInv'
  BY <1>6, AttachmentsShownKeeps, AttachmentsChangedKeeps
<1>7. ASSUME NEW n \in DOMAIN net, AttachFailed(n)
      PROVE  AttachInv'
  <2>1. net' = Settle(n) /\ attachMisled' /\ UNCHANGED <<attached, holder, attachRows>>
    BY <1>7 DEF AttachFailed, ShowError
  <2>2. AttachTypes'
    BY <2>1 DEF AttachInv, AttachTypes
  <2> QED
    BY <2>1, <2>2, AttachSettles DEF AttachInv
<1>8. ASSUME NEW n \in DOMAIN net, Lose(n), UNCHANGED attachState
      PROVE  AttachInv'
  <2>1. /\ net' = Reject(n) /\ Posted(net) /\ AttachMessage(net[n])
        /\ UNCHANGED <<page, attached, holder, attachRows, attachMisled>>
    BY <1>8 DEF Lose, attachState, AttachInv
  <2>2. /\ Posted(net') /\ DOMAIN net' = DOMAIN net
        /\ net'[n].op = net[n].op /\ net'[n].arg = net[n].arg /\ net'[n].at = "failed"
        /\ \A k \in DOMAIN net \ {n} : net'[k] = net[k]
    BY <2>1, RejectTells
  <2>3. AttachMessage(net'[n])
    BY <2>1, <2>2 DEF AttachMessage
  <2>4. AttachTypes'
    BY <2>1 DEF AttachInv, AttachTypes
  <2> QED
    BY <2>1, <2>2, <2>3, <2>4, AttachInPlace
<1>9. ASSUME NEW n \in DOMAIN net, SessionExpired(n), UNCHANGED attachState
      PROVE  AttachInv'
  <2>1. net' = <<>> /\ page' = "login" /\ UNCHANGED <<attached, holder, attachRows>>
    BY <1>9 DEF SessionExpired, attachState
  <2>2. AttachTypes'
    BY <2>1 DEF AttachInv, AttachTypes
  <2> QED
    BY <2>1, <2>2, NothingPosted DEF AttachInv
<1> QED
  BY <1>1, <1>2, <1>3, <1>4, <1>5, <1>6, <1>7, <1>8, <1>9 DEF AttachNext

LEMMA AttachStarts == WebInit(<<>>) /\ AttachInit => AttachInv
<1> SUFFICES ASSUME WebInit(<<>>), AttachInit PROVE AttachInv
  OBVIOUS
<1>1. net = <<>> /\ holder = NoHolder /\ attachRows = {} /\ attached = [e \in Holders |-> {<<e, "old">>}]
  BY DEF WebInit, AttachInit
<1>2. AttachTypes
  BY <1>1 DEF AttachTypes
<1> QED
  BY <1>1, <1>2, NothingPosted DEF AttachInv

LEMMA AttachInvHolds == AttachSpec => []AttachInv
BY AttachStarts, AttachNextKeeps, PTL DEF AttachSpec

(* When everything is answered the list of the modal is that of its event,   *)
(* unless a list came late or was lost (loadAttachments does not ask which     *)
(* event is shown by then).                                                  *)
THEOREM AttachmentsAreOfHolder == AttachSpec => []AttachmentsOfHolder
<1>1. AttachInv => AttachmentsOfHolder
  BY NothingPosted DEF AttachInv, AttachmentsOfHolder, ListOfHolder, Fresh, Quiet
<1> QED
  BY <1>1, AttachInvHolds, PTL

(* Delete deletes an attachment of the modal's event, unless its list was     *)
(* awaited, late or lost.                                                    *)
THEOREM OnlyHoldersErased == AttachSpec => ErasedFromHolder
<1>1. AttachInv => \A n \in DOMAIN net :
                      net[n].op = "erase" /\ net[n].arg.sure =>
                          net[n].arg.row[1] = net[n].arg.event
  BY DEF AttachInv, AttachMessage
<1>2. AttachInv /\ [AttachNext]_attachVars =>
         [\A n \in DOMAIN net :
            Arrived(n, "erase") /\ Accepted(n) /\ net[n].arg.sure =>
               net[n].arg.row[1] = net[n].arg.event]_attachVars
  BY <1>1 DEF Arrived
<1> QED
  BY <1>2, AttachInvHolds, PTL DEF AttachSpec, ErasedFromHolder

---------------------------------------------------------------------------
(* The boxes that search *)

Offers == menu["attendee"].offers
IsAttendee(who) == \E i \in DOMAIN attendees : attendees[i] = who

(* The menu offers nobody who is an attendee. *)
AttendeesInv == /\ attendees \in Seq(Persons) /\ NoDuplicateAttendees
                /\ \A who \in Offers : ~IsAttendee(who)

(* What box b last asked for is its text, and its menu, once nothing is asked, *)
(* is for that text.                                                         *)
AskedForText(b, q, text, awaited, shown) ==
    IF awaited # NoText THEN awaited = text
    ELSE /\ \A k \in DOMAIN q : q[k].op = b => Followed(q, k, b) \/ q[k].arg = text
         /\ ~Awaited(q, {b}) => shown = NoMenu \/ shown.text = text

MenuAsked(b) == page = "open" /\ b \notin stray => AskedForText(b, net, typed[b], timer[b], menu[b])

(* The menu of the place is for its text, but for one filled after its text   *)
(* was typed over.                                                          *)
PlaceFound == page = "open" /\ "place" \notin stray /\ ~overtyped =>
                 menu["place"] = NoMenu \/ menu["place"].text = typed["place"]

MenusInv == (\A b \in Boxes : MenuAsked(b)) /\ PlaceFound

BoxesTypes == /\ Posted(net) /\ DOMAIN typed = Boxes /\ DOMAIN timer = Boxes /\ DOMAIN menu = Boxes

BoxesInv == BoxesTypes /\ AttendeesInv /\ MenusInv /\ PlaceMatchesText

(* Another request is sent, or one is answered or refused. *)
LEMMA AskedElsewhere ==
    ASSUME NEW b, NEW q, NEW op, op # b, NEW arg, NEW p, Sends(q, p, op, arg),
           NEW text, NEW awaited, NEW shown, AskedForText(b, q, text, awaited, shown)
    PROVE  AskedForText(b, p, text, awaited, shown)
<1>1. /\ DOMAIN p = DOMAIN q \cup {Len(p)} /\ \A k \in DOMAIN q : p[k] = q[k]
      /\ p[Len(p)].op = op
  BY DEF Sends
<1>2. \A k \in DOMAIN q : Followed(q, k, b) => Followed(p, k, b)
  BY <1>1 DEF Followed
<1>3. Awaited(q, {b}) => Awaited(p, {b})
  BY <1>1 DEF Awaited
<1>4. \A k \in DOMAIN p : p[k].op = b => k \in DOMAIN q /\ p[k] = q[k]
  BY <1>1
<1> QED
  BY <1>2, <1>3, <1>4 DEF AskedForText

LEMMA AskedInPlace ==
    ASSUME NEW b, NEW q, NEW p, NEW n \in DOMAIN q, DOMAIN p = DOMAIN q,
           p[n].op = q[n].op, p[n].arg = q[n].arg, \A k \in DOMAIN q \ {n} : p[k] = q[k],
           NEW text, NEW awaited, NEW shown, AskedForText(b, q, text, awaited, shown)
    PROVE  AskedForText(b, p, text, awaited, shown)
<1>1. \A k \in DOMAIN q : p[k].op = q[k].op /\ p[k].arg = q[k].arg
  OBVIOUS
<1>2. \A k \in DOMAIN q : Followed(q, k, b) => Followed(p, k, b)
  BY <1>1 DEF Followed
<1>3. Awaited(q, {b}) => Awaited(p, {b})
  BY <1>1 DEF Awaited
<1> QED
  BY <1>1, <1>2, <1>3 DEF AskedForText

(* The timer has fired: the search for the text follows all the others. *)
LEMMA AskedByTimer ==
    ASSUME NEW b, NEW q, Posted(q), NEW text, NEW p, Sends(q, p, b, text), NEW shown
    PROVE  AskedForText(b, p, text, NoText, shown)
<1>1. /\ DOMAIN p = DOMAIN q \cup {Len(p)} /\ \A k \in DOMAIN q : k < Len(p) /\ p[k] = q[k]
      /\ p[Len(p)].op = b /\ p[Len(p)].arg = text
  BY DEF Sends
<1>2. \A k \in DOMAIN q : Followed(p, k, b)
  BY <1>1 DEF Followed
<1>3. Awaited(p, {b})
  BY <1>1 DEF Awaited
<1> QED
  BY <1>1, <1>2, <1>3 DEF AskedForText

(* The request about something else leaves. *)
LEMMA AskedElseSettled ==
    ASSUME NEW b, Posted(net), NEW n \in DOMAIN net, NEW p, p = Settle(n), net[n].op # b,
           NEW text, NEW awaited, NEW shown, AskedForText(b, net, text, awaited, shown)
    PROVE  AskedForText(b, p, text, awaited, shown)
<1>1. \A k \in DOMAIN p : Was(k, n) \in DOMAIN net /\ p[k] = net[Was(k, n)]
  BY SettleTells
<1>2. \A k \in DOMAIN p : Followed(net, Was(k, n), b) => Followed(p, k, b)
  BY StillFollowed
<1>3. Awaited(net, {b}) => Awaited(p, {b})
  BY StillAwaited
<1> QED
  BY <1>1, <1>2, <1>3 DEF AskedForText

(* The answer that no earlier search is still to replace fills the menu. *)
LEMMA AskedShown ==
    ASSUME NEW b, Posted(net), NEW n \in DOMAIN net, NEW p, p = Settle(n),
           net[n].op = b, ~Overtakes(n, {b}),
           NEW text, NEW awaited, NEW shown, AskedForText(b, net, text, awaited, shown),
           NEW now, now = NoMenu \/ now.text = net[n].arg \/ now.text = text
    PROVE  AskedForText(b, p, text, awaited, now)
<1>1. \A k \in DOMAIN p : Was(k, n) \in DOMAIN net /\ p[k] = net[Was(k, n)]
  BY SettleTells
<1>2. CASE awaited # NoText
  BY <1>2 DEF AskedForText
<1>3. CASE awaited = NoText
  <2>1. ASSUME NEW k \in DOMAIN p, p[k].op = b
        PROVE  Followed(p, k, b) \/ p[k].arg = text
    <3>1. ~(Was(k, n) < n)
      BY <1>1, <2>1, OvertakenIs
    <3>2. Followed(net, Was(k, n), b) => Followed(p, k, b)
      BY <3>1, StillFollowed
    <3> QED
      BY <1>1, <1>3, <2>1, <3>2 DEF AskedForText
  <2>2. ASSUME ~Awaited(p, {b}) PROVE net[n].arg = text
    <3>1. ~Followed(net, n, b)
      <4>1. SUFFICES ASSUME NEW m \in DOMAIN net, m > n, net[m].op = b PROVE FALSE
        BY DEF Followed
      <4>2. m # n
        BY <4>1, PostedDomain
      <4>3. Now(m, n) \in DOMAIN p /\ p[Now(m, n)] = net[m]
        BY <4>1, <4>2, SettleTells
      <4> QED
        BY <2>2, <4>1, <4>3 DEF Awaited
    <3> QED
      BY <1>3, <3>1 DEF AskedForText
  <2> QED
    BY <1>3, <2>1, <2>2 DEF AskedForText
<1> QED
  BY <1>2, <1>3

LEMMA BoxesTypesKept ==
    ASSUME BoxesTypes, [BoxesNext]_boxesVars
    PROVE  BoxesTypes'
<1>1. /\ Posted(net) /\ DOMAIN typed = Boxes /\ DOMAIN timer = Boxes /\ DOMAIN menu = Boxes
  BY DEF BoxesTypes
<1>2. ASSUME NEW people, NEW p, FillForm(people, p) PROVE BoxesTypes'
  BY <1>1, <1>2 DEF FillForm, BoxesTypes, web
<1>3. ASSUME NEW b \in Boxes, NEW t, TypeText(b, t) PROVE BoxesTypes'
  BY <1>1, <1>3 DEF TypeText, HideMenu, BoxesTypes, web
<1>4. ASSUME NEW op, NEW arg, net' = Append(net, Request(op, arg)),
             DOMAIN typed' = Boxes, DOMAIN timer' = Boxes, DOMAIN menu' = Boxes
      PROVE  BoxesTypes'
  BY <1>1, <1>4, SendTells DEF Sends, BoxesTypes
<1>5. ASSUME NEW b \in Boxes, TimerFires(b) PROVE BoxesTypes'
  BY <1>1, <1>4, <1>5 DEF TimerFires
<1>6. ASSUME NEW who, PickAttendee(who) PROVE BoxesTypes'
  BY <1>1, <1>6 DEF PickAttendee, ResultsHidden, BoxesTypes, web
<1>7. ASSUME NEW p, PickPlace(p) PROVE BoxesTypes'
  BY <1>1, <1>4, <1>7 DEF PickPlace
<1>8. CASE RemoveAttendee
  BY <1>1, <1>8 DEF RemoveAttendee, BoxesTypes, web
<1>9. ASSUME NEW n \in DOMAIN net, ServeSearch(n) PROVE BoxesTypes'
  <2>1. (\E answer : net' = Reply(n, answer)) /\ UNCHANGED <<typed, timer, menu>>
    BY <1>9 DEF ServeSearch, boxes
  <2> QED
    BY <1>1, <2>1, ReplyTells DEF BoxesTypes
<1>10. ASSUME NEW n \in DOMAIN net,
              AttendeesFound(n) \/ PlacesFound(n) \/ PlaceDetails(n) \/ SearchFailed(n)
       PROVE  BoxesTypes'
  <2>1. net' = Settle(n)
    BY <1>10 DEF AttendeesFound, PlacesFound, PlaceDetails, SearchFailed, ShowError, Ignore
  <2>2. DOMAIN typed' = Boxes /\ DOMAIN timer' = Boxes
    BY <1>1, <1>10 DEF AttendeesFound, PlacesFound, PlaceDetails, SearchFailed
  <2>3. DOMAIN menu' = Boxes
    BY <1>1, <1>10 DEF AttendeesFound, PlacesFound, PlaceDetails, SearchFailed
  <2> QED
    BY <1>1, <2>1, <2>2, <2>3, SettledWere DEF BoxesTypes
<1>11. ASSUME NEW n \in DOMAIN net, Lose(n) \/ SessionExpired(n), UNCHANGED boxes
       PROVE  BoxesTypes'
  <2>1. net' \in {Reject(n), <<>>} /\ UNCHANGED <<typed, timer, menu>>
    BY <1>11 DEF Lose, SessionExpired, boxes
  <2> QED
    BY <1>1, <2>1, RejectTells, NothingPosted DEF BoxesTypes
<1>12. CASE UNCHANGED boxesVars \/ (Dismiss /\ UNCHANGED boxes)
  BY <1>1, <1>12 DEF Dismiss, boxesVars, boxes, web, BoxesTypes
<1> QED
  BY <1>2, <1>3, <1>5, <1>6, <1>7, <1>8, <1>9, <1>10, <1>11, <1>12 DEF BoxesNext

(* The place that is kept is the one its text shows. *)
LEMMA PlaceKeepsText ==
    ASSUME BoxesTypes, PlaceMatchesText, [BoxesNext]_boxesVars
    PROVE  PlaceMatchesText'
<1>1. DOMAIN typed = Boxes /\ "place" \in Boxes
  BY DEF BoxesTypes, Boxes
<1>2. ASSUME NEW people, NEW p, FillForm(people, p) PROVE PlaceMatchesText'
  <2>1. /\ typed' = [b \in Boxes |-> IF b = "place" /\ p # NoPlace THEN p ELSE Short]
        /\ place' = p
    BY <1>2 DEF FillForm
  <2>2. p # NoPlace => typed'["place"] = p
    BY <1>1, <2>1
  <2> QED
    BY <2>1, <2>2 DEF PlaceMatchesText
<1>3. ASSUME NEW b \in Boxes, NEW t, TypeText(b, t) PROVE PlaceMatchesText'
  <2>1. typed' = [typed EXCEPT ![b] = t]
    BY <1>3 DEF TypeText
  <2>2. CASE b = "place"
    <3>1. place' = (IF picked /\ t # place THEN NoPlace ELSE place)
          /\ edited' = (edited \/ (~picked /\ place # NoPlace))
      BY <1>3, <2>2 DEF TypeText, PlaceAfter
    <3>2. typed'["place"] = t
      BY <1>1, <2>1, <2>2
    <3> QED
      BY <3>1, <3>2 DEF PlaceMatchesText
  <2>3. CASE b # "place"
    <3>1. UNCHANGED <<place, edited>>
      BY <1>3, <2>3 DEF TypeText
    <3>2. typed'["place"] = typed["place"]
      BY <1>1, <2>1, <2>3
    <3> QED
      BY <3>1, <3>2 DEF PlaceMatchesText
  <2> QED
    BY <2>2, <2>3
<1>4. ASSUME NEW who, PickAttendee(who) PROVE PlaceMatchesText'
  <2>1. typed' = [typed EXCEPT !["attendee"] = Short] /\ UNCHANGED <<place, edited>>
    BY <1>4 DEF PickAttendee
  <2>2. typed'["place"] = typed["place"]
    BY <1>1, <2>1
  <2> QED
    BY <2>1, <2>2 DEF PlaceMatchesText
<1>5. ASSUME NEW n \in DOMAIN net, PlaceDetails(n) PROVE PlaceMatchesText'
  BY <1>1, <1>5 DEF PlaceDetails, PlaceMatchesText
<1>6. ASSUME UNCHANGED <<typed, place, edited>> PROVE PlaceMatchesText'
  BY <1>6 DEF PlaceMatchesText
<1>7. CASE \/ \E b \in Boxes : TimerFires(b)
           \/ \E p \in Places : PickPlace(p)
           \/ RemoveAttendee \/ UNCHANGED boxesVars \/ (Dismiss /\ UNCHANGED boxes)
  BY <1>6, <1>7 DEF TimerFires, PickPlace, RemoveAttendee, boxesVars, boxes
<1>8. ASSUME NEW n \in DOMAIN net,
             \/ ServeSearch(n) \/ AttendeesFound(n) \/ PlacesFound(n) \/ SearchFailed(n)
             \/ (Lose(n) \/ SessionExpired(n)) /\ UNCHANGED boxes
      PROVE  PlaceMatchesText'
  BY <1>6, <1>8 DEF ServeSearch, AttendeesFound, PlacesFound, SearchFailed, boxes
<1> QED
  BY <1>2, <1>3, <1>4, <1>5, <1>7, <1>8 DEF BoxesNext

(* Nobody who is an attendee is offered, so nobody is picked twice. *)
LEMMA AttendeesKeep ==
    ASSUME BoxesTypes, AttendeesInv, [BoxesNext]_boxesVars
    PROVE  AttendeesInv'
<1>1. /\ DOMAIN menu = Boxes /\ "attendee" \in Boxes /\ NoMenu.offers = {}
      /\ attendees \in Seq(Persons) /\ NoDuplicateAttendees
      /\ \A who \in Offers : ~IsAttendee(who)
  BY DEF BoxesTypes, AttendeesInv, Boxes, NoMenu
(* The menu of the attendees is as it was, or empty. *)
<1>2. ASSUME UNCHANGED attendees, menu'["attendee"] \in {menu["attendee"], NoMenu}
      PROVE  AttendeesInv'
  BY <1>1, <1>2 DEF AttendeesInv, NoDuplicateAttendees, Offers, IsAttendee
<1>3. ASSUME NEW people \in {<<>>} \cup {<<who>> : who \in Persons}, NEW p, FillForm(people, p)
      PROVE  AttendeesInv'
  <2>1. attendees' = people /\ menu' = [b \in Boxes |-> NoMenu]
    BY <1>3 DEF FillForm
  <2>2. people \in Seq(Persons) /\ \A i, j \in DOMAIN people : i = j
    <3>1. CASE people = <<>>
      BY <3>1, EmptySeq, NothingPosted
    <3>2. ASSUME NEW who \in Persons, people = <<who>> PROVE people \in Seq(Persons) /\ DOMAIN people = {1}
      BY <3>2
    <3> QED
      BY <1>3, <3>1, <3>2
  <2>3. menu'["attendee"].offers = {}
    BY <1>1, <2>1
  <2> QED
    BY <2>1, <2>2, <2>3 DEF AttendeesInv, NoDuplicateAttendees, Offers
<1>4. ASSUME NEW b \in Boxes, NEW t, TypeText(b, t) PROVE AttendeesInv'
  BY <1>1, <1>2, <1>4 DEF TypeText, HideMenu
<1>5. ASSUME NEW who \in Persons, PickAttendee(who) PROVE AttendeesInv'
  <2>1. /\ attendees' = Append(attendees, who) /\ who \in Offers
        /\ menu' = [menu EXCEPT !["attendee"] = NoMenu]
    BY <1>5 DEF PickAttendee, ResultsHidden, Offers
  <2>2. ~IsAttendee(who)
    BY <1>1, <2>1
  <2>3. /\ attendees' \in Seq(Persons) /\ Len(attendees') = Len(attendees) + 1
        /\ Len(attendees) \in Nat
        /\ attendees'[Len(attendees) + 1] = who
        /\ \A i \in 1 .. Len(attendees) : attendees'[i] = attendees[i]
    BY <1>1, <2>1, AppendProperties, LenProperties
  <2>4. DOMAIN attendees = 1 .. Len(attendees) /\ DOMAIN attendees' = 1 .. Len(attendees) + 1
    BY <1>1, <2>3, LenProperties
  <2>5. NoDuplicateAttendees'
    <3> SUFFICES ASSUME NEW i \in DOMAIN attendees', NEW j \in DOMAIN attendees',
                        attendees'[i] = attendees'[j]
                 PROVE  i = j
      BY DEF NoDuplicateAttendees
    <3>1. CASE i \in DOMAIN attendees /\ j \in DOMAIN attendees
      BY <1>1, <2>3, <2>4, <3>1 DEF NoDuplicateAttendees
    <3>2. CASE i \in DOMAIN attendees /\ j = Len(attendees) + 1
      BY <2>2, <2>3, <2>4, <3>2 DEF IsAttendee
    <3>3. CASE j \in DOMAIN attendees /\ i = Len(attendees) + 1
      BY <2>2, <2>3, <2>4, <3>3 DEF IsAttendee
    <3> QED
      BY <2>3, <2>4, <3>1, <3>2, <3>3
  <2>6. menu'["attendee"].offers = {}
    BY <1>1, <2>1
  <2> QED
    BY <2>3, <2>5, <2>6 DEF AttendeesInv, Offers
<1>6. CASE RemoveAttendee
  <2>1. /\ attendees # <<>> /\ attendees' = Tail(attendees)
        /\ menu' = [menu EXCEPT !["attendee"] = NoMenu]
    BY <1>6 DEF RemoveAttendee
  <2>2. /\ attendees' \in Seq(Persons) /\ Len(attendees') = Len(attendees) - 1
        /\ \A i \in 1 .. Len(attendees') : attendees'[i] = attendees[i + 1]
    BY <1>1, <2>1, HeadTailProperties
  <2>3. Len(attendees) \in Nat /\ DOMAIN attendees = 1 .. Len(attendees)
        /\ Len(attendees') \in Nat /\ DOMAIN attendees' = 1 .. Len(attendees')
    BY <1>1, <2>2, LenProperties
  <2>4. NoDuplicateAttendees'
    <3> SUFFICES ASSUME NEW i \in DOMAIN attendees', NEW j \in DOMAIN attendees',
                        attendees'[i] = attendees'[j]
                 PROVE  i = j
      BY DEF NoDuplicateAttendees
    <3>1. i + 1 \in DOMAIN attendees /\ j + 1 \in DOMAIN attendees /\ i \in Nat /\ j \in Nat
      BY <2>2, <2>3
    <3>2. attendees[i + 1] = attendees[j + 1]
      BY <2>2, <2>3
    <3>3. i + 1 = j + 1
      BY <1>1, <3>1, <3>2 DEF NoDuplicateAttendees
    <3> QED
      BY <3>1, <3>3
  <2>5. menu'["attendee"].offers = {}
    BY <1>1, <2>1
  <2> QED
    BY <2>2, <2>4, <2>5 DEF AttendeesInv, Offers
<1>7. ASSUME NEW n \in DOMAIN net, AttendeesFound(n) PROVE AttendeesInv'
  <2> DEFINE offers == net[n].ans \ {attendees[i] : i \in DOMAIN attendees}
             m == [text |-> net[n].arg, offers |-> offers]
  <2>1. /\ menu' = [menu EXCEPT !["attendee"] = IF net[n].ans = {} THEN NoMenu ELSE m]
        /\ UNCHANGED attendees
    BY <1>7 DEF AttendeesFound
  <2>2. \A who \in m.offers : ~IsAttendee(who)
    BY DEF IsAttendee
  <2> HIDE DEF m
  <2>3. menu'["attendee"] \in {NoMenu, m}
    BY <1>1, <2>1
  <2>4. CASE menu'["attendee"] = m
    BY <1>1, <2>1, <2>2, <2>4 DEF AttendeesInv, NoDuplicateAttendees, Offers, IsAttendee
  <2> QED
    BY <1>2, <2>1, <2>3, <2>4
<1>8. ASSUME NEW n \in DOMAIN net, PlacesFound(n) PROVE AttendeesInv'
  <2>1. UNCHANGED attendees /\ menu'["attendee"] = menu["attendee"]
    BY <1>1, <1>8 DEF PlacesFound
  <2> QED
    BY <1>2, <2>1
<1>9. ASSUME NEW p, PickPlace(p) PROVE AttendeesInv'
  BY <1>1, <1>2, <1>9 DEF PickPlace
<1>10. ASSUME UNCHANGED <<attendees, menu>> PROVE AttendeesInv'
  BY <1>2, <1>10
<1>11. CASE (\E b \in Boxes : TimerFires(b)) \/ UNCHANGED boxesVars \/ (Dismiss /\ UNCHANGED boxes)
  BY <1>10, <1>11 DEF TimerFires, boxesVars, boxes
<1>12. ASSUME NEW n \in DOMAIN net,
              \/ ServeSearch(n) \/ PlaceDetails(n) \/ SearchFailed(n)
              \/ (Lose(n) \/ SessionExpired(n)) /\ UNCHANGED boxes
       PROVE  AttendeesInv'
  BY <1>10, <1>12 DEF ServeSearch, PlaceDetails, SearchFailed, boxes
<1> QED
  BY <1>3, <1>4, <1>5, <1>6, <1>7, <1>8, <1>9, <1>11, <1>12 DEF BoxesNext

(* What a box asks for stays its text, and its menu what it asked for. *)
LEMMA AskedKeeps ==
    ASSUME BoxesTypes, MenusInv, [BoxesNext]_boxesVars, NEW b \in Boxes
    PROVE  MenuAsked(b)'
<1>1. /\ Posted(net) /\ DOMAIN typed = Boxes /\ DOMAIN timer = Boxes /\ DOMAIN menu = Boxes
      /\ Boxes = {"attendee", "place"}
      /\ page = "open" /\ b \notin stray => AskedForText(b, net, typed[b], timer[b], menu[b])
  BY DEF BoxesTypes, Boxes, MenusInv, MenuAsked
(* What changes nothing for a box but its requests. *)
<1>2. ASSUME page' = page, typed'[b] = typed[b], menu'[b] = menu[b], timer'[b] = timer[b],
             b \in stray => b \in stray',
             page = "open" /\ b \notin stray => AskedForText(b, net', typed[b], timer[b], menu[b])
      PROVE  MenuAsked(b)'
  BY <1>2 DEF MenuAsked
<1>3. ASSUME UNCHANGED <<net, page>>, typed'[b] = typed[b], menu'[b] = menu[b],
             timer'[b] = timer[b], b \in stray => b \in stray'
      PROVE  MenuAsked(b)'
  BY <1>1, <1>2, <1>3
(* A box that nothing is searched for any more, with no menu. *)
<1>4. ASSUME NEW text, ~Awaited(net, {b})
      PROVE  AskedForText(b, net, text, NoText, NoMenu)
  BY <1>4 DEF AskedForText, Awaited
<1>5. ASSUME UNCHANGED <<net, page>>, menu'[b] = NoMenu,
             b \notin stray' => timer'[b] = NoText /\ ~Awaited(net, {b})
      PROVE  MenuAsked(b)'
  BY <1>4, <1>5 DEF MenuAsked
(* A menu that closes. *)
<1>6. ASSUME NEW q, NEW text, NEW awaited, NEW shown, AskedForText(b, q, text, awaited, shown)
      PROVE  AskedForText(b, q, text, awaited, NoMenu)
  BY <1>6 DEF AskedForText
(* A request about something else is sent, or answered. *)
<1>7. ASSUME NEW op, op # b, NEW arg, net' = Append(net, Request(op, arg)),
             page = "open", b \notin stray
      PROVE  AskedForText(b, net', typed[b], timer[b], menu[b])
  <2>1. Sends(net, net', op, arg)
    BY <1>1, <1>7, SendTells
  <2>2. AskedForText(b, net, typed[b], timer[b], menu[b])
    BY <1>1, <1>7
  <2> QED
    BY <1>7, <2>1, <2>2, AskedElsewhere
<1>8. ASSUME NEW n \in DOMAIN net, net[n].op # b, net' = Settle(n), page = "open", b \notin stray
      PROVE  AskedForText(b, net', typed[b], timer[b], menu[b])
  <2>1. AskedForText(b, net, typed[b], timer[b], menu[b])
    BY <1>1, <1>8
  <2> QED
    BY <1>1, <1>8, <2>1, AskedElseSettled
<1>9. ASSUME NEW people, NEW p, FillForm(people, p) PROVE MenuAsked(b)'
  <2>1. /\ menu' = [c \in Boxes |-> NoMenu] /\ UNCHANGED <<net, page, timer>>
        /\ stray' = stray \cup {c \in Boxes : timer'[c] # NoText \/ Awaited(net, {c})}
    BY <1>9 DEF FillForm, Searching, Waiting, Awaited, web
  <2> QED
    BY <1>5, <2>1
<1>10. ASSUME NEW c \in Boxes, NEW t \in Typings \cup {Short}, TypeText(c, t) PROVE MenuAsked(b)'
  <2>1. UNCHANGED <<net, page>> /\ typed' = [typed EXCEPT ![c] = t]
    BY <1>10 DEF TypeText, web
  <2>2. CASE t = Short
    <3>1. /\ timer' = IF c = "place" THEN timer ELSE [timer EXCEPT ![c] = NoText]
          /\ menu' = [menu EXCEPT ![c] = NoMenu]
          /\ stray' = IF Searching(c) THEN stray \cup {c} ELSE stray
      BY <1>10, <2>2 DEF TypeText
    <3>2. CASE c = b
      <4>1. menu'[b] = NoMenu
        BY <1>1, <3>1, <3>2
      <4>2. b \notin stray' => timer'[b] = NoText /\ ~Awaited(net, {b})
        BY <3>1, <3>2 DEF Searching, Waiting, Awaited
      <4> QED
        BY <1>5, <2>1, <4>1, <4>2
    <3>3. CASE c # b
      <4>1. typed'[b] = typed[b] /\ menu'[b] = menu[b]
        BY <1>1, <2>1, <3>1, <3>3
      <4>2. timer'[b] = timer[b] /\ (b \in stray => b \in stray')
        BY <1>1, <3>1, <3>3
      <4> QED
        BY <1>3, <2>1, <4>1, <4>2
    <3> QED
      BY <3>2, <3>3
  <2>3. CASE t # Short
    <3>1. /\ timer' = [timer EXCEPT ![c] = t]
          /\ menu' \in {menu, [menu EXCEPT ![c] = NoMenu]} /\ stray' = stray \ {c}
      BY <1>10, <2>3 DEF TypeText, HideMenu
    <3>2. CASE c = b
      <4>1. timer'[b] = t /\ typed'[b] = t /\ t # NoText
        BY <1>1, <1>10, <2>1, <2>3, <3>1, <3>2, BoxesAssumption
      <4> QED
        BY <4>1 DEF MenuAsked, AskedForText
    <3>3. CASE c # b
      <4>1. typed'[b] = typed[b] /\ menu'[b] = menu[b]
        BY <1>1, <2>1, <3>1, <3>3
      <4>2. timer'[b] = timer[b] /\ (b \in stray => b \in stray')
        BY <1>1, <3>1, <3>3
      <4> QED
        BY <1>3, <2>1, <4>1, <4>2
    <3> QED
      BY <3>2, <3>3
  <2> QED
    BY <2>2, <2>3
<1>11. ASSUME NEW c \in Boxes, TimerFires(c) PROVE MenuAsked(b)'
  <2>1. /\ timer[c] # NoText /\ net' = Append(net, Request(c, timer[c]))
        /\ timer' = [timer EXCEPT ![c] = NoText] /\ UNCHANGED <<page, typed, menu, stray>>
    BY <1>11 DEF TimerFires
  <2>2. CASE c = b
    <3>1. timer'[b] = NoText
      BY <1>1, <2>1, <2>2
    <3>2. ASSUME page = "open", b \notin stray
          PROVE  AskedForText(b, net', typed[b], NoText, menu[b])
      <4>1. timer[b] = typed[b]
        BY <1>1, <2>1, <2>2, <3>2 DEF AskedForText
      <4>2. Sends(net, net', b, typed[b])
        BY <1>1, <2>1, <2>2, <4>1, SendTells
      <4> QED
        BY <1>1, <4>2, AskedByTimer
    <3> QED
      BY <2>1, <3>1, <3>2 DEF MenuAsked
  <2>3. CASE c # b
    <3>1. timer'[b] = timer[b]
      BY <1>1, <2>1, <2>3
    <3> QED
      BY <1>2, <1>7, <2>1, <2>3, <3>1
  <2> QED
    BY <2>2, <2>3
<1>12. ASSUME NEW who, PickAttendee(who) PROVE MenuAsked(b)'
  <2>1. /\ UNCHANGED <<net, page, timer>> /\ typed' = [typed EXCEPT !["attendee"] = Short]
        /\ menu' = [menu EXCEPT !["attendee"] = NoMenu]
        /\ stray' = IF Searching("attendee") THEN stray \cup {"attendee"} ELSE stray
    BY <1>12 DEF PickAttendee, ResultsHidden, web
  <2>2. CASE b = "attendee"
    <3>1. menu'[b] = NoMenu
      BY <1>1, <2>1, <2>2
    <3>2. b \notin stray' => timer'[b] = NoText /\ ~Awaited(net, {b})
      BY <2>1, <2>2 DEF Searching, Waiting, Awaited
    <3> QED
      BY <1>5, <2>1, <3>1, <3>2
  <2>3. CASE b = "place"
    <3>1. menu'[b] = menu[b] /\ typed'[b] = typed[b] /\ (b \in stray => b \in stray')
      BY <1>1, <2>1, <2>3
    <3> QED
      BY <1>3, <2>1, <3>1
  <2> QED
    BY <1>1, <2>2, <2>3
(* The menu of one box closes, and a request about something else is sent, if any. *)
<1>13. ASSUME UNCHANGED <<page, typed, timer, stray>>, menu'[b] \in {menu[b], NoMenu},
              page = "open" /\ b \notin stray =>
                 AskedForText(b, net', typed[b], timer[b], menu[b])
       PROVE  MenuAsked(b)'
  BY <1>6, <1>13 DEF MenuAsked
<1>14. ASSUME NEW p, PickPlace(p) PROVE MenuAsked(b)'
  <2>1. /\ menu' = [menu EXCEPT !["place"] = NoMenu] /\ net' = Append(net, Request("details", p))
        /\ UNCHANGED <<page, typed, timer, stray>>
    BY <1>14 DEF PickPlace
  <2>2. menu'[b] \in {menu[b], NoMenu} /\ "details" # b
    BY <1>1, <2>1
  <2>3. page = "open" /\ b \notin stray => AskedForText(b, net', typed[b], timer[b], menu[b])
    BY <1>7, <2>1, <2>2
  <2> QED
    BY <1>13, <2>1, <2>2, <2>3
<1>15. CASE RemoveAttendee
  <2>1. menu' = [menu EXCEPT !["attendee"] = NoMenu] /\ UNCHANGED <<net, page, typed, timer, stray>>
    BY <1>15 DEF RemoveAttendee, web
  <2>2. menu'[b] \in {menu[b], NoMenu}
    BY <1>1, <2>1
  <2> QED
    BY <1>1, <1>13, <2>1, <2>2
<1>16. ASSUME NEW n \in DOMAIN net, DOMAIN net' = DOMAIN net,
              net'[n].op = net[n].op, net'[n].arg = net[n].arg,
              \A k \in DOMAIN net \ {n} : net'[k] = net[k],
              UNCHANGED <<page, typed, timer, menu, stray>>
       PROVE  MenuAsked(b)'
  <2>1. ASSUME page = "open", b \notin stray
        PROVE  AskedForText(b, net', typed[b], timer[b], menu[b])
    <3>1. AskedForText(b, net, typed[b], timer[b], menu[b])
      BY <1>1, <2>1
    <3> QED
      BY <1>16, <3>1, AskedInPlace
  <2> QED
    BY <1>2, <1>16, <2>1
<1>17. ASSUME NEW n \in DOMAIN net, ServeSearch(n) PROVE MenuAsked(b)'
  <2>1. (\E answer : net' = Reply(n, answer)) /\ UNCHANGED <<page, typed, timer, menu, stray>>
    BY <1>17 DEF ServeSearch, boxes
  <2> QED
    BY <1>1, <1>16, <2>1, ReplyTells
<1>18. ASSUME NEW n \in DOMAIN net, Lose(n), UNCHANGED boxes PROVE MenuAsked(b)'
  <2>1. net' = Reject(n) /\ UNCHANGED <<page, typed, timer, menu, stray>>
    BY <1>18 DEF Lose, boxes
  <2> QED
    BY <1>1, <1>16, <2>1, RejectTells
(* An answer to box c, its menu then being one for what was searched, or as it was. *)
<1>19. ASSUME NEW n \in DOMAIN net, NEW c \in Boxes, net[n].op = c, net' = Settle(n),
              UNCHANGED <<page, typed, timer>>, b # c => menu'[b] = menu[b],
              b \in stray => b \in stray',
              b = c /\ b \notin stray' => /\ ~Overtakes(n, {b})
                                          /\ page = "open" => \/ menu'[b] = NoMenu
                                                              \/ menu'[b].text = net[n].arg
                                                              \/ menu'[b].text = typed[b]
       PROVE  MenuAsked(b)'
  <2>1. CASE b # c
    <3>1. page = "open" /\ b \notin stray => AskedForText(b, net', typed[b], timer[b], menu[b])
      BY <1>8, <1>19, <2>1
    <3> QED
      BY <1>2, <1>19, <2>1, <3>1
  <2>2. ASSUME b = c, page = "open", b \notin stray'
        PROVE  AskedForText(b, net', typed[b], timer[b], menu'[b])
    <3>1. AskedForText(b, net, typed[b], timer[b], menu[b])
      BY <1>1, <1>19, <2>2
    <3> QED
      BY <1>1, <1>19, <2>2, <3>1, AskedShown
  <2> QED
    BY <1>19, <2>1, <2>2 DEF MenuAsked
<1>20. ASSUME NEW n \in DOMAIN net, AttendeesFound(n) PROVE MenuAsked(b)'
  <2>1. /\ \E offers : menu' = [menu EXCEPT !["attendee"] = IF net[n].ans = {} THEN NoMenu
                                           ELSE [text |-> net[n].arg, offers |-> offers]]
        /\ stray' = IF Overtakes(n, {"attendee"}) THEN stray \cup {"attendee"} ELSE stray
        /\ net' = Settle(n) /\ net[n].op = "attendee" /\ UNCHANGED <<page, typed, timer>>
    BY <1>20 DEF AttendeesFound, Answered
  <2>2. /\ b # "attendee" => menu'[b] = menu[b]
        /\ b = "attendee" => menu'[b] = NoMenu \/ menu'[b].text = net[n].arg
    BY <1>1, <2>1
  <2>3. "attendee" \in Boxes /\ (b \in stray => b \in stray')
    BY <1>1, <2>1
  <2>4. b = "attendee" /\ b \notin stray' => ~Overtakes(n, {b})
    BY <2>1
  <2> QED
    BY <1>19, <2>1, <2>2, <2>3, <2>4
<1>21. ASSUME NEW n \in DOMAIN net, PlacesFound(n) PROVE MenuAsked(b)'
  <2>1. /\ menu' = IF net[n].ans = {} THEN menu
                   ELSE [menu EXCEPT !["place"] = [text |-> net[n].arg, offers |-> net[n].ans]]
        /\ stray' = IF Overtakes(n, {"place"}) \/ (net[n].ans = {} /\ overtyped)
                    THEN stray \cup {"place"} ELSE stray
        /\ net' = Settle(n) /\ net[n].op = "place" /\ UNCHANGED <<page, typed, timer>>
    BY <1>21 DEF PlacesFound, Answered
  <2>2. "place" \in Boxes /\ (b # "place" => menu'[b] = menu[b]) /\ (b \in stray => b \in stray')
    BY <1>1, <2>1
  <2>3. ASSUME b = "place", b \notin stray'
        PROVE  /\ ~Overtakes(n, {b})
               /\ page = "open" => \/ menu'[b] = NoMenu \/ menu'[b].text = net[n].arg
                                   \/ menu'[b].text = typed[b]
    <3>1. ~Overtakes(n, {b}) /\ b \notin stray
      BY <2>1, <2>3
    <3>2. CASE net[n].ans = {}
      <4>1. ~overtyped /\ menu' = menu
        BY <2>1, <2>3, <3>2
      <4> QED
        BY <2>3, <3>1, <4>1 DEF MenusInv, PlaceFound
    <3>3. CASE net[n].ans # {}
      <4>1. menu'[b].text = net[n].arg
        BY <1>1, <2>1, <2>3, <3>3
      <4> QED
        BY <3>1, <4>1
    <3> QED
      BY <3>2, <3>3
  <2> QED
    BY <1>19, <2>1, <2>2, <2>3
<1>22. ASSUME NEW n \in DOMAIN net, PlaceDetails(n) PROVE MenuAsked(b)'
  <2>1. /\ typed' = [typed EXCEPT !["place"] = net[n].arg]
        /\ stray' = IF Searching("place") \/ menu["place"] # NoMenu
                    THEN stray \cup {"place"} ELSE stray
        /\ net' = Settle(n) /\ net[n].op = "details" /\ UNCHANGED <<page, timer, menu>>
    BY <1>22 DEF PlaceDetails, Answered
  <2>2. CASE b = "attendee"
    <3>1. typed'[b] = typed[b] /\ (b \in stray => b \in stray')
      BY <1>1, <2>1, <2>2
    <3>2. page = "open" /\ b \notin stray => AskedForText(b, net', typed[b], timer[b], menu[b])
      BY <1>8, <2>1, <2>2
    <3> QED
      BY <1>2, <2>1, <3>1, <3>2
  <2>3. ASSUME b = "place", b \notin stray'
        PROVE  AskedForText(b, net', typed'[b], timer[b], menu[b])
    <3>1. timer[b] = NoText /\ menu[b] = NoMenu /\ ~Awaited(net, {b})
      BY <2>1, <2>3 DEF Searching, Waiting, Awaited
    <3>2. AskedForText(b, net, typed'[b], timer[b], menu[b])
      BY <1>4, <3>1
    <3> QED
      BY <1>1, <2>1, <2>3, <3>2, AskedElseSettled
  <2> QED
    BY <1>1, <2>1, <2>2, <2>3 DEF MenuAsked
<1>23. ASSUME NEW n \in DOMAIN net, SearchFailed(n) PROVE MenuAsked(b)'
  <2>1. /\ stray' = stray \cup ({net[n].op} \cap Boxes) /\ net' = Settle(n)
        /\ UNCHANGED <<page, typed, timer, menu>>
    BY <1>23 DEF SearchFailed, ShowError, Ignore
  <2>2. CASE net[n].op = b
    BY <2>1, <2>2 DEF MenuAsked
  <2>3. CASE net[n].op # b
    <3>1. page = "open" /\ b \notin stray => AskedForText(b, net', typed[b], timer[b], menu[b])
      BY <1>8, <2>1, <2>3
    <3> QED
      BY <1>2, <2>1, <3>1
  <2> QED
    BY <2>2, <2>3
<1>24. ASSUME NEW n \in DOMAIN net, SessionExpired(n) PROVE MenuAsked(b)'
  BY <1>24 DEF SessionExpired, MenuAsked
<1>25. CASE UNCHANGED boxesVars \/ (Dismiss /\ UNCHANGED boxes)
  <2>1. UNCHANGED <<net, page, typed, timer, menu, stray>>
    BY <1>25 DEF Dismiss, boxesVars, boxes, web
  <2> QED
    BY <1>3, <2>1
<1> QED
  BY <1>9, <1>10, <1>11, <1>12, <1>14, <1>15, <1>17, <1>18, <1>20, <1>21, <1>22, <1>23, <1>24,
     <1>25 DEF BoxesNext

(* The menu of the place is for its text, or was filled after it was typed over. *)
LEMMA PlaceFoundKeeps ==
    ASSUME BoxesTypes, PlaceFound, [BoxesNext]_boxesVars
    PROVE  PlaceFound'
<1>1. DOMAIN typed = Boxes /\ DOMAIN menu = Boxes /\ "place" \in Boxes /\ "attendee" \in Boxes
  BY DEF BoxesTypes, Boxes
<1>2. ASSUME page' = page, ~overtyped' => ~overtyped, typed'["place"] = typed["place"],
             menu'["place"] = menu["place"], "place" \in stray => "place" \in stray'
      PROVE  PlaceFound'
  BY <1>2 DEF PlaceFound
<1>3. ASSUME "place" \notin stray' => menu'["place"] = NoMenu PROVE PlaceFound'
  BY <1>3 DEF PlaceFound
<1>4. ASSUME NEW people, NEW p, FillForm(people, p) PROVE PlaceFound'
  BY <1>1, <1>3, <1>4 DEF FillForm
<1>5. ASSUME NEW t, TypeText("place", t) PROVE PlaceFound'
  BY <1>1, <1>3, <1>5 DEF TypeText, HideMenu
<1>6. ASSUME NEW t, TypeText("attendee", t) PROVE PlaceFound'
  <2>1. /\ page' = page /\ typed' = [typed EXCEPT !["attendee"] = t]
        /\ menu' \in {menu, [menu EXCEPT !["attendee"] = NoMenu]}
    BY <1>6 DEF TypeText, HideMenu, web
  <2>2. ~overtyped' => ~overtyped
    BY <1>6 DEF TypeText
  <2>3. stray' \in {stray, stray \ {"attendee"}, stray \cup {"attendee"}}
    BY <1>6 DEF TypeText
  <2> QED
    BY <1>1, <1>2, <2>1, <2>2, <2>3
<1>7. ASSUME NEW b \in Boxes, TimerFires(b) PROVE PlaceFound'
  BY <1>2, <1>7 DEF TimerFires
<1>8. ASSUME NEW who, PickAttendee(who) PROVE PlaceFound'
  BY <1>1, <1>2, <1>8 DEF PickAttendee, ResultsHidden, web
<1>9. ASSUME NEW p, PickPlace(p) PROVE PlaceFound'
  BY <1>1, <1>3, <1>9 DEF PickPlace
<1>10. CASE RemoveAttendee
  BY <1>1, <1>2, <1>10 DEF RemoveAttendee, web
<1>11. ASSUME NEW n \in DOMAIN net, AttendeesFound(n) PROVE PlaceFound'
  BY <1>1, <1>2, <1>11 DEF AttendeesFound
<1>12. ASSUME NEW n \in DOMAIN net, PlacesFound(n) PROVE PlaceFound'
  <2>1. UNCHANGED <<page, typed>> /\ ("place" \in stray => "place" \in stray')
    BY <1>12 DEF PlacesFound
  <2>2. CASE net[n].ans = {}
    BY <1>2, <1>12, <2>1, <2>2 DEF PlacesFound
  <2>3. CASE net[n].ans # {}
    <3>1. /\ overtyped' = (net[n].arg # typed["place"])
          /\ menu' = [menu EXCEPT !["place"] = [text |-> net[n].arg, offers |-> net[n].ans]]
      BY <1>12, <2>3 DEF PlacesFound
    <3>2. menu'["place"].text = net[n].arg
      BY <1>1, <3>1
    <3> QED
      BY <2>1, <3>1, <3>2 DEF PlaceFound
  <2> QED
    BY <2>2, <2>3
<1>13. ASSUME NEW n \in DOMAIN net, PlaceDetails(n) PROVE PlaceFound'
  <2>1. /\ stray' = IF Searching("place") \/ menu["place"] # NoMenu
                    THEN stray \cup {"place"} ELSE stray
        /\ menu' = menu
    BY <1>13 DEF PlaceDetails
  <2> QED
    BY <1>3, <2>1
<1>14. ASSUME NEW n \in DOMAIN net, SearchFailed(n) PROVE PlaceFound'
  BY <1>2, <1>14 DEF SearchFailed, ShowError, Ignore
<1>15. ASSUME NEW n \in DOMAIN net, ServeSearch(n) \/ (Lose(n) /\ UNCHANGED boxes) PROVE PlaceFound'
  BY <1>2, <1>15 DEF ServeSearch, Lose, boxes
<1>16. ASSUME NEW n \in DOMAIN net, SessionExpired(n) PROVE PlaceFound'
  BY <1>16 DEF SessionExpired, PlaceFound
<1>17. CASE UNCHANGED boxesVars \/ (Dismiss /\ UNCHANGED boxes)
  BY <1>2, <1>17 DEF Dismiss, boxesVars, boxes, web
<1>18. ASSUME NEW b \in Boxes, NEW t, TypeText(b, t) PROVE PlaceFound'
  BY <1>5, <1>6, <1>18 DEF Boxes
<1> QED
  BY <1>4, <1>7, <1>8, <1>9, <1>10, <1>11, <1>12, <1>13, <1>14, <1>15, <1>16, <1>17, <1>18
     DEF BoxesNext

(* A menu, once nothing is asked for any more, is for the text of its box.    *)
LEMMA MenusKeep ==
    ASSUME BoxesTypes, MenusInv, [BoxesNext]_boxesVars
    PROVE  MenusInv'
<1>1. \A b \in Boxes : MenuAsked(b)'
  BY AskedKeeps
<1>2. PlaceFound'
  BY PlaceFoundKeeps DEF MenusInv
<1> QED
  BY <1>1, <1>2 DEF MenusInv

LEMMA BoxesStart == WebInit(<<>>) /\ BoxesInit => BoxesInv
<1> SUFFICES ASSUME WebInit(<<>>), BoxesInit PROVE BoxesInv
  OBVIOUS
<1>1. /\ net = <<>> /\ attendees = <<>> /\ place = NoPlace
      /\ typed = [b \in Boxes |-> Short] /\ timer = [b \in Boxes |-> NoText]
      /\ menu = [b \in Boxes |-> NoMenu] /\ Boxes = {"attendee", "place"}
  BY DEF WebInit, BoxesInit, Boxes
<1>2. timer["attendee"] = NoText /\ menu["attendee"] = NoMenu /\ menu["place"] = NoMenu
  BY <1>1
<1>3. BoxesTypes /\ MenusInv
  BY <1>1, <1>2, NothingPosted DEF BoxesTypes, MenusInv, MenuAsked, PlaceFound, AskedForText
<1>4. AttendeesInv
  BY <1>1, <1>2, NothingPosted, EmptySeq DEF AttendeesInv, NoDuplicateAttendees, Offers, NoMenu
<1>5. PlaceMatchesText
  BY <1>1 DEF PlaceMatchesText
<1> QED
  BY <1>3, <1>4, <1>5 DEF BoxesInv

LEMMA BoxesNextKeeps == BoxesInv /\ [BoxesNext]_boxesVars => BoxesInv'
BY BoxesTypesKept, AttendeesKeep, MenusKeep, PlaceKeepsText DEF BoxesInv

LEMMA BoxesInvHolds == BoxesSpec => []BoxesInv
BY BoxesStart, BoxesNextKeeps, PTL DEF BoxesSpec

(* When nothing is searched for, a menu offers what matches the text of its   *)
(* box, unless, since that was last typed, answers came in another order or     *)
(* one was lost, or the box was emptied or filled by something else while a     *)
(* search for it was pending or its menu open; and unless the search for what   *)
(* the box of the place holds found nothing after an earlier one, typed over,   *)
(* had filled its menu.                                                        *)
THEOREM MenusMatchText == BoxesSpec => []MenuMatchesText
<1>1. BoxesInv => MenuMatchesText
  <2> SUFFICES ASSUME BoxesInv, page = "open", Quiet, NEW b \in Boxes,
                      menu[b] # NoMenu, timer[b] = NoText, b \notin stray
               PROVE  menu[b].text = typed[b]
    BY DEF MenuMatchesText
  <2>1. ~Awaited(net, {b})
    BY NothingPosted DEF Quiet, Awaited
  <2>2. AskedForText(b, net, typed[b], timer[b], menu[b])
    BY DEF BoxesInv, MenusInv, MenuAsked
  <2> QED
    BY <2>1, <2>2 DEF AskedForText
<1> QED
  BY <1>1, BoxesInvHolds, PTL

(* A structured place in the form is the one its text shows.                  *)
THEOREM PlaceIsItsText == BoxesSpec => []PlaceMatchesText
<1>1. BoxesInv => PlaceMatchesText
  BY DEF BoxesInv
<1> QED
  BY <1>1, BoxesInvHolds, PTL

(* Nobody is an attendee twice, however searches, picks, removals and other   *)
(* events interleave.                                                        *)
THEOREM AttendeesDistinct == BoxesSpec => []NoDuplicateAttendees
<1>1. BoxesInv => NoDuplicateAttendees
  BY DEF BoxesInv, AttendeesInv
<1> QED
  BY <1>1, BoxesInvHolds, PTL

---------------------------------------------------------------------------
(* Calendar tabs *)

(* r is q and a request of the calendar for each view of asked. *)
AsksFor(q, r, asked, cal) ==
    /\ Posted(r) /\ DOMAIN q \subseteq DOMAIN r /\ \A k \in DOMAIN q : r[k] = q[k]
    /\ \A k \in DOMAIN r \ DOMAIN q :
         /\ \A j \in DOMAIN q : j < k
         /\ r[k].op \in asked /\ r[k].arg = Scope(r[k].op, cal) /\ r[k].at = "sent"
    /\ \A p \in asked : \E k \in DOMAIN r \ DOMAIN q : r[k].op = p

LEMMA AskOne ==
    ASSUME NEW q, NEW r, NEW done, NEW cal, AsksFor(q, r, done, cal), Posted(q),
           NEW asked, NEW p, NEW s,
           s = r \o (IF p \in asked THEN <<Request(p, Scope(p, cal))>> ELSE <<>>)
    PROVE  AsksFor(q, s, done \cup (asked \cap {p}), cal)
<1> DEFINE m == Request(p, Scope(p, cal))
           S == {r[k] : k \in DOMAIN r} \cup {m}
<1>1. Posted(r)
  BY DEF AsksFor
<1>2. r \in Seq({r[k] : k \in DOMAIN r}) /\ {r[k] : k \in DOMAIN r} \subseteq S /\ m \in S
  BY <1>1 DEF Posted
<1>3. r \in Seq(S)
  BY <1>2, SeqDef
<1> HIDE DEF S
<1>4. CASE p \in asked
  <2>1. s = Append(r, m)
    BY <1>2, <1>3, <1>4, AppendIsConcat
  <2>2. Sends(r, s, p, Scope(p, cal))
    BY <1>1, <2>1, SendTells DEF m
  <2>3. /\ Posted(s) /\ DOMAIN s = DOMAIN r \cup {Len(s)} /\ Len(s) \notin DOMAIN r
        /\ \A k \in DOMAIN r : k < Len(s) /\ s[k] = r[k]
        /\ s[Len(s)].op = p /\ s[Len(s)].arg = Scope(p, cal) /\ s[Len(s)].at = "sent"
    BY <2>2 DEF Sends
  <2>4. asked \cap {p} = {p}
    BY <1>4
  <2> QED
    BY <2>3, <2>4 DEF AsksFor
<1>5. CASE p \notin asked
  <2>1. s = r /\ asked \cap {p} = {}
    BY <1>3, <1>5, ConcatEmptySeq
  <2> QED
    BY <2>1
<1> QED
  BY <1>4, <1>5

(* The rows of a view are those of cal, or the last request under way brings  *)
(* them.                                                                     *)
PaneDrawn(p, cal) == IF Accepts(p, cal) THEN cal ELSE Refused
PaneTrue(q, p, cal, shown) ==
    /\ \A k \in DOMAIN q : q[k].op = p => \/ Followed(q, k, p)
                                          \/ q[k].arg = cal /\ Accepts(p, cal)
    /\ (\A k \in DOMAIN q : q[k].op # p) => shown = PaneDrawn(p, cal)

LEMMA PaneInPlace ==
    ASSUME NEW q, NEW r, DOMAIN r = DOMAIN q,
           \A k \in DOMAIN q : r[k].op = q[k].op /\ r[k].arg = q[k].arg,
           NEW p, NEW cal, NEW shown, PaneTrue(q, p, cal, shown)
    PROVE  PaneTrue(r, p, cal, shown)
BY DEF PaneTrue, Followed

LEMMA PaneSent ==
    ASSUME NEW q, NEW op, NEW arg, NEW r, Sends(q, r, op, arg),
           NEW p, op # p, NEW cal, NEW shown, PaneTrue(q, p, cal, shown)
    PROVE  PaneTrue(r, p, cal, shown)
<1>1. /\ DOMAIN r = DOMAIN q \cup {Len(r)} /\ \A k \in DOMAIN q : r[k] = q[k]
      /\ r[Len(r)].op = op
  BY DEF Sends
<1> QED
  BY <1>1 DEF PaneTrue, Followed

LEMMA PaneSettled ==
    ASSUME Posted(net), NEW n \in DOMAIN net, NEW r, r = Settle(n),
           NEW p, net[n].op # p, NEW cal, NEW shown, PaneTrue(net, p, cal, shown)
    PROVE  PaneTrue(r, p, cal, shown)
<1>1. ASSUME NEW k \in DOMAIN r, r[k].op = p
      PROVE  Followed(r, k, p) \/ (r[k].arg = cal /\ Accepts(p, cal))
  <2>1. Was(k, n) \in DOMAIN net /\ r[k] = net[Was(k, n)]
    BY SettleTells
  <2> QED
    BY <1>1, <2>1, StillFollowed DEF PaneTrue
<1>2. ASSUME \A k \in DOMAIN r : r[k].op # p
      PROVE  \A m \in DOMAIN net : net[m].op # p
  BY <1>2, SettleTells
<1> QED
  BY <1>1, <1>2 DEF PaneTrue

LEMMA PaneShown ==
    ASSUME Posted(net), NEW n \in DOMAIN net, NEW r, r = Settle(n),
           NEW p, net[n].op = p, ~Overtakes(n, {p}),
           NEW cal, NEW shown, PaneTrue(net, p, cal, shown)
    PROVE  PaneTrue(r, p, cal, net[n].arg)
<1>1. ASSUME NEW k \in DOMAIN r, r[k].op = p
      PROVE  Followed(r, k, p) \/ (r[k].arg = cal /\ Accepts(p, cal))
  <2>1. Was(k, n) \in DOMAIN net /\ r[k] = net[Was(k, n)]
    BY SettleTells
  <2>2. ~(Was(k, n) < n)
    BY <1>1, <2>1, OvertakenIs
  <2> QED
    BY <1>1, <2>1, <2>2, StillFollowed DEF PaneTrue
<1>2. ASSUME \A k \in DOMAIN r : r[k].op # p
      PROVE  net[n].arg = PaneDrawn(p, cal)
  <2>1. ~Followed(net, n, p)
    <3>1. SUFFICES ASSUME NEW m \in DOMAIN net, m > n, net[m].op = p PROVE FALSE
      BY DEF Followed
    <3>2. m # n
      BY <3>1, PostedDomain
    <3> QED
      BY <1>2, <3>1, <3>2, SettleTells
  <2> QED
    BY <2>1 DEF PaneTrue, PaneDrawn
<1> QED
  BY <1>1, <1>2 DEF PaneTrue

LEMMA PaneAsked ==
    ASSUME NEW q, NEW r, NEW asked, NEW cal, AsksFor(q, r, asked, cal),
           NEW p \in asked, Accepts(p, Scope(p, cal)), NEW shown
    PROVE  PaneTrue(r, p, Scope(p, cal), shown)
<1>1. PICK m \in DOMAIN r \ DOMAIN q : r[m].op = p
  BY DEF AsksFor
<1>2. \A k \in DOMAIN q : Followed(r, k, p)
  BY <1>1 DEF AsksFor, Followed
<1> QED
  BY <1>1, <1>2 DEF AsksFor, PaneTrue

LEMMA PaneUnasked ==
    ASSUME NEW q, NEW r, NEW asked, NEW other, AsksFor(q, r, asked, other),
           NEW p, p \notin asked, NEW cal, NEW shown, PaneTrue(q, p, cal, shown)
    PROVE  PaneTrue(r, p, cal, shown)
BY DEF AsksFor, PaneTrue, Followed

(* Every pane that is not late shows the calendar it loaded last. *)
PanesTrue(q, of, shown, behind) ==
    \A p \in Panes : p \notin behind => PaneTrue(q, p, of[p], shown[p])

(* And the registry of the event modal is that of the selected calendar. *)
RegistryTrue(q, cal, shown, behind) ==
    cal # NoCalendar /\ ~ReadOnly(cal) /\ "registry" \notin behind =>
        PaneTrue(q, "registry", cal, shown["registry"])

(* The requests of LoadPanes, as it is called for the tabs shown. *)
LEMMA PanesAsk ==
    ASSUME NEW q, Posted(q), NEW cal, NEW visible, visible \subseteq Tabs \cup {"registry"},
           LoadPanes(cal, visible, q)
    PROVE  LET fresh == IF cal = NoCalendar THEN {} ELSE Unloaded(cal, visible)
               asked == {p \in fresh : Accepts(p, cal)} \cup (visible \cap {"registry"})
           IN  AsksFor(q, net', asked, cal)
<1> DEFINE fresh == IF cal = NoCalendar THEN {} ELSE Unloaded(cal, visible)
           refused == {p \in fresh : ~Accepts(p, cal)}
           asked == (fresh \ refused) \cup (visible \cap {"registry"})
           Asks(p) == IF p \in asked THEN <<Request(p, Scope(p, cal))>> ELSE <<>>
           r1 == q \o Asks("registry")
           r2 == r1 \o Asks("categories")
           r3 == r2 \o Asks("tasks")
           r4 == r3 \o Asks("rules")
           d1 == {} \cup (asked \cap {"registry"})
           d2 == d1 \cup (asked \cap {"categories"})
           d3 == d2 \cup (asked \cap {"tasks"})
           d4 == d3 \cup (asked \cap {"rules"})
<1>1. net' = r4
  BY DEF LoadPanes
<1>2. asked \subseteq Panes \cup {"registry"}
  BY DEF Unloaded
<1>3. d4 = asked
  BY <1>2 DEF Panes
<1>4. asked = {p \in fresh : Accepts(p, cal)} \cup (visible \cap {"registry"})
  OBVIOUS
<1> HIDE DEF asked, fresh, refused
<1>5. AsksFor(q, q, {}, cal)
  BY DEF AsksFor
<1>6. AsksFor(q, r1, d1, cal)
  BY <1>5, AskOne
<1> HIDE DEF r1, d1
<1>7. AsksFor(q, r2, d2, cal)
  BY <1>6, AskOne
<1> HIDE DEF r2, d2
<1>8. AsksFor(q, r3, d3, cal)
  BY <1>7, AskOne
<1> HIDE DEF r3, d3
<1>9. AsksFor(q, r4, d4, cal)
  BY <1>8, AskOne
<1> HIDE DEF r4, d4
<1>10. AsksFor(q, net', asked, cal)
  BY <1>1, <1>3, <1>9
<1> QED
  BY <1>4, <1>10 DEF fresh

LEMMA PanesLoad ==
    ASSUME NEW q, Posted(q), NEW cal, NEW visible, visible \subseteq Tabs \cup {"registry"},
           \A p \in Views : Waiting({p}) <=> \E k \in DOMAIN q : q[k].op = p,
           LoadPanes(cal, visible, q), PanesTrue(q, loaded, shows, late)
    PROVE  /\ \E asked \in SUBSET Views : AsksFor(q, net', asked, cal)
           /\ loaded' = [p \in Panes |-> loaded'[p]] /\ shows' = [p \in Views |-> shows'[p]]
           /\ PanesTrue(net', loaded', shows', late')
           /\ cal # NoCalendar => \A p \in visible \cap Panes : loaded'[p] = Scope(p, cal)
           /\ "registry" \in visible => RegistryTrue(net', cal, shows', late')
           /\ "registry" \notin visible /\ RegistryTrue(q, cal, shows, late)
                => RegistryTrue(net', cal, shows', late')
<1> DEFINE fresh == IF cal = NoCalendar THEN {} ELSE Unloaded(cal, visible)
           refused == {p \in fresh : ~Accepts(p, cal)}
           asked == {p \in fresh : Accepts(p, cal)} \cup (visible \cap {"registry"})
<1>1. AsksFor(q, net', asked, cal)
  BY PanesAsk
<1>2. fresh \subseteq Panes /\ (cal # NoCalendar => \A p \in fresh : p \in visible /\ loaded[p] # Scope(p, cal))
  BY DEF Unloaded
<1>3. cal # NoCalendar => \A p \in (visible \cap Panes) \ fresh : loaded[p] = Scope(p, cal)
  BY DEF Unloaded
<1>4. /\ loaded' = [p \in Panes |-> IF p \in fresh THEN Scope(p, cal) ELSE loaded[p]]
      /\ shows' = [p \in Views |-> CASE p \in refused -> Refused
                                     [] p = "registry" /\ ReadOnly(cal) -> NoCalendar
                                     [] OTHER -> shows[p]]
  BY DEF LoadPanes
<1>5. late' = (late \ {p \in ((fresh \ refused) \cup (visible \cap {"registry"})) \cup refused : ~Waiting({p})})
              \cup {p \in refused : Waiting({p})}
  BY DEF LoadPanes
<1>6. asked = (fresh \ refused) \cup (visible \cap {"registry"}) /\ refused \subseteq fresh
  OBVIOUS
<1>7. "registry" \notin Panes /\ Views = Panes \cup {"registry"} /\ NoCalendar # Refused
  BY DEF Panes, Views, NoCalendar, Refused
<1>8. \A p \in Panes : p \notin refused =>
         shows'[p] = shows[p] /\ (p \notin asked => (p \in late' <=> p \in late))
  BY <1>4, <1>5, <1>6, <1>7
<1>9. \A p \in fresh : loaded'[p] = Scope(p, cal)
  BY <1>2, <1>4
<1>10. \A p \in Panes \ fresh : loaded'[p] = loaded[p]
  BY <1>4
<1>11. \A p \in refused : shows'[p] = Refused /\ (p \notin late' => ~Waiting({p}))
  BY <1>2, <1>4, <1>5, <1>6, <1>7
<1>12. \A p \in refused : p = "tasks" /\ Scope(p, cal) = cal /\ p \notin asked /\ ~Accepts(p, cal)
  BY <1>2, <1>7 DEF Accepts, Scope
<1>13. \A p \in asked \cap Panes : p \in fresh /\ Accepts(p, Scope(p, cal))
  BY <1>7 DEF Accepts, Scope
<1>14. "registry" \notin refused /\ Accepts("registry", cal) /\ Scope("registry", cal) = cal
  BY <1>2, <1>7 DEF Accepts, Scope
<1>15. ~ReadOnly(cal) => shows'["registry"] = shows["registry"]
  BY <1>4, <1>7, <1>14
<1>16. "registry" \notin visible => ("registry" \in late' <=> "registry" \in late)
  BY <1>2, <1>5, <1>6, <1>7
<1>17. "registry" \in asked <=> "registry" \in visible
  BY <1>2, <1>7
<1>18. asked \in SUBSET Views
  BY <1>2, <1>7
<1> HIDE DEF asked, refused, fresh
<1>19. ASSUME NEW p \in Panes, p \notin late'
       PROVE  PaneTrue(net', p, loaded'[p], shows'[p])
  <2>1. CASE p \in asked
    BY <1>1, <1>9, <1>13, <2>1, PaneAsked
  <2>2. CASE p \in refused
    <3>1. \A k \in DOMAIN q : q[k].op # p
      BY <1>7, <1>11, <1>19, <2>2
    <3>2. \A k \in DOMAIN net' : net'[k].op # p
      BY <1>1, <1>12, <2>2, <3>1 DEF AsksFor
    <3>3. loaded'[p] = cal /\ shows'[p] = PaneDrawn(p, cal)
      BY <1>6, <1>9, <1>11, <1>12, <2>2 DEF PaneDrawn
    <3> QED
      BY <3>2, <3>3 DEF PaneTrue
  <2>3. CASE p \notin asked \cup refused
    <3>1. p \notin fresh
      BY <1>6, <2>3
    <3>2. PaneTrue(q, p, loaded[p], shows[p])
      BY <1>8, <1>19, <2>3 DEF PanesTrue
    <3>3. PaneTrue(net', p, loaded[p], shows[p])
      BY <1>1, <2>3, <3>2, PaneUnasked
    <3> QED
      BY <1>8, <1>10, <2>3, <3>1, <3>3
  <2> QED
    BY <2>1, <2>2, <2>3
<1>20. ASSUME "registry" \in visible PROVE RegistryTrue(net', cal, shows', late')
  <2>1. PaneTrue(net', "registry", cal, shows'["registry"])
    BY <1>1, <1>14, <1>17, <1>20, PaneAsked
  <2> QED
    BY <2>1 DEF RegistryTrue
<1>21. ASSUME "registry" \notin visible, RegistryTrue(q, cal, shows, late)
       PROVE  RegistryTrue(net', cal, shows', late')
  <2> SUFFICES ASSUME cal # NoCalendar, ~ReadOnly(cal), "registry" \notin late'
               PROVE  PaneTrue(net', "registry", cal, shows'["registry"])
    BY DEF RegistryTrue
  <2>1. PaneTrue(q, "registry", cal, shows["registry"])
    BY <1>16, <1>21 DEF RegistryTrue
  <2> QED
    BY <1>1, <1>15, <1>17, <1>21, <2>1, PaneUnasked
<1>22. PanesTrue(net', loaded', shows', late')
  BY <1>19 DEF PanesTrue
<1>23. loaded' = [p \in Panes |-> loaded'[p]] /\ shows' = [p \in Views |-> shows'[p]]
  BY <1>4
<1>24. cal # NoCalendar => \A p \in visible \cap Panes : loaded'[p] = Scope(p, cal)
  BY <1>3, <1>9, <1>10
<1> QED
  BY <1>1, <1>18, <1>20, <1>21, <1>22, <1>23, <1>24

TabsTypes ==
    /\ kept \subseteq Calendars \cup {Subscription} /\ listed \subseteq Calendars \cup {Subscription}
    /\ selected \in Calendars \cup {Subscription, All, NoCalendar}
    /\ {tab, want.tab, url.tab, restores.tab} \subseteq Tabs
    /\ loaded = [p \in Panes |-> loaded[p]] /\ shows = [p \in Views |-> shows[p]]
    /\ isAdmin \in BOOLEAN /\ userIsAdmin \in BOOLEAN /\ (userIsAdmin => isAdmin)

(* Tabs, address and open pane are those of the selected calendar. *)
TabsSelected ==
    selected # NoCalendar => /\ bar = Bar(selected, userIsAdmin)
                             /\ tab \in bar
                             /\ url = UrlOf(selected, tab)
                             /\ tab \in Panes => loaded[tab] = Scope(tab, selected)

(* While a reload has to restore something, nothing is removed; and what the  *)
(* list of calendars and the answer that tells an administrator will do then *)
(* restores it.                                                              *)
Restoring == restores.cal \in (kept \ {Subscription}) \cup {All}
RestoreTrue ==
    page = "open" /\ Restoring =>
        /\ \A k \in DOMAIN net :
             /\ net[k].op # "remove"
             /\ net[k].op = "calendars" /\ net[k].at = "answered" => net[k].ans = kept
        /\ Awaited(net, {"me"}) \/ userIsAdmin = isAdmin
        /\ ~Hidden(restores.tab, restores.cal, isAdmin)
        /\ IF chosen THEN selected = restores.cal /\ tab = restores.tab
                     ELSE /\ Awaited(net, {"calendars"}) /\ tab = "calendar"
                          /\ want = [cal |-> restores.cal, tab |-> restores.tab]

TabsInv == /\ Posted(net) /\ TabsTypes /\ TabsSelected
           /\ page = "open" => /\ PanesTrue(net, loaded, shows, late)
                               /\ RegistryTrue(net, selected, shows, late)
           /\ RestoreTrue

LEMMA NoUrlRestoresNothing ==
    ASSUME TabsAssumption, NEW there, there \subseteq Calendars \cup {Subscription}
    PROVE  NoUrl.cal \notin (there \ {Subscription}) \cup {All}
BY DEF NoUrl, TabsAssumption, NoCalendar, Subscription, All

LEMMA NothingRestored ==
    ASSUME TabsAssumption, kept' \subseteq Calendars \cup {Subscription}, restores' = NoUrl
    PROVE  RestoreTrue'
BY NoUrlRestoresNothing DEF RestoreTrue, Restoring

(* One of net is answered or refused, and the page does not know yet. *)
LEMMA TabsInPlace ==
    ASSUME TabsInv, NEW n \in DOMAIN net, DOMAIN net' = DOMAIN net, Posted(net'),
           \A k \in DOMAIN net : net'[k].op = net[k].op /\ net'[k].arg = net[k].arg,
           \A k \in DOMAIN net \ {n} : net'[k] = net[k],
           kept' = kept \/ (kept' \subseteq kept /\ net[n].op = "remove"),
           net[n].op = "calendars" /\ net'[n].at = "answered" =>
               net'[n].ans = kept' \/ net'[n] = net[n],
           UNCHANGED <<page, isAdmin, listed, userIsAdmin, selected, chosen, want, tab, url, bar,
                       loaded, shows, late, restores>>
    PROVE  TabsInv'
<1>1. TabsTypes' /\ TabsSelected'
  BY DEF TabsInv, TabsTypes, TabsSelected
<1>2. ASSUME page = "open"
      PROVE  PanesTrue(net', loaded, shows, late) /\ RegistryTrue(net', selected, shows, late)
  <2>1. PanesTrue(net, loaded, shows, late) /\ RegistryTrue(net, selected, shows, late)
    BY <1>2 DEF TabsInv
  <2> QED
    BY <2>1, PaneInPlace DEF PanesTrue, RegistryTrue
<1>3. RestoreTrue'
  <2> SUFFICES ASSUME page = "open", Restoring' PROVE RestoreTrue'
    BY DEF RestoreTrue
  <2>1. Restoring /\ RestoreTrue
    BY DEF Restoring, TabsInv
  <2>2. kept' = kept
    BY <2>1 DEF RestoreTrue
  <2>3. \A ops : Awaited(net, ops) => Awaited(net', ops)
    BY DEF Awaited
  <2>4. \A k \in DOMAIN net' : /\ net'[k].op # "remove"
                               /\ net'[k].op = "calendars" /\ net'[k].at = "answered"
                                    => net'[k].ans = kept'
    BY <2>1, <2>2 DEF RestoreTrue
  <2> QED
    BY <2>1, <2>3, <2>4 DEF RestoreTrue
<1> QED
  BY <1>1, <1>2, <1>3 DEF TabsInv

LEMMA ServeTabsKeeps ==
    ASSUME TabsInv, NEW n \in DOMAIN net, ServeTabs(n)
    PROVE  TabsInv'
<1>1. Posted(net)
  BY DEF TabsInv
<1>2. CASE net[n].op \in {"subscriptions", "calendars"} /\ net' = Reply(n, kept) /\ UNCHANGED kept
  <2>1. /\ Posted(net') /\ DOMAIN net' = DOMAIN net
        /\ net'[n].op = net[n].op /\ net'[n].arg = net[n].arg /\ net'[n].ans = kept'
        /\ \A k \in DOMAIN net \ {n} : net'[k] = net[k]
    BY <1>1, <1>2, ReplyTells
  <2>2. \A k \in DOMAIN net : net'[k].op = net[k].op /\ net'[k].arg = net[k].arg
    BY <2>1
  <2> QED
    BY <1>2, <2>1, <2>2, TabsInPlace DEF ServeTabs
<1>3. CASE net' = Reject(n) /\ kept' \subseteq kept /\ (kept' = kept \/ net[n].op = "remove")
  <2>1. /\ Posted(net') /\ DOMAIN net' = DOMAIN net
        /\ net'[n].op = net[n].op /\ net'[n].arg = net[n].arg /\ net'[n].at = "failed"
        /\ \A k \in DOMAIN net \ {n} : net'[k] = net[k]
    BY <1>1, <1>3, RejectTells
  <2>2. \A k \in DOMAIN net : net'[k].op = net[k].op /\ net'[k].arg = net[k].arg
    BY <2>1
  <2>3. net[n].op = "calendars" /\ net'[n].at = "answered" => net'[n].ans = kept' \/ net'[n] = net[n]
    BY <2>1
  <2> QED
    BY <1>3, <2>1, <2>2, <2>3, TabsInPlace DEF ServeTabs
<1>4. CASE net[n].op = "remove" /\ net' = Reply(n, {}) /\ kept' = kept \ {net[n].arg}
  <2>1. /\ Posted(net') /\ DOMAIN net' = DOMAIN net
        /\ net'[n].op = net[n].op /\ net'[n].arg = net[n].arg
        /\ \A k \in DOMAIN net \ {n} : net'[k] = net[k]
    BY <1>1, <1>4, ReplyTells
  <2>2. \A k \in DOMAIN net : net'[k].op = net[k].op /\ net'[k].arg = net[k].arg
    BY <2>1
  <2> QED
    BY <1>4, <2>1, <2>2, TabsInPlace DEF ServeTabs
<1>5. \/ net[n].op \in {"subscriptions", "calendars"} /\ net' = Reply(n, kept) /\ UNCHANGED kept
      \/ net' = Reject(n) /\ kept' \subseteq kept /\ (kept' = kept \/ net[n].op = "remove")
      \/ net[n].op = "remove" /\ net' = Reply(n, {}) /\ kept' = kept \ {net[n].arg}
  <2>1. CASE net[n].op = "remove"
    BY <2>1 DEF ServeTabs, Views, Panes
  <2>2. CASE net[n].op # "remove"
    BY <2>2 DEF ServeTabs
  <2> QED
    BY <2>1, <2>2
<1> QED
  BY <1>2, <1>3, <1>4, <1>5

LEMMA LoseTabKeeps ==
    ASSUME TabsInv, NEW n \in DOMAIN net, Lose(n), UNCHANGED tabs
    PROVE  TabsInv'
<1>1. /\ Posted(net') /\ DOMAIN net' = DOMAIN net
      /\ net'[n].op = net[n].op /\ net'[n].arg = net[n].arg /\ net'[n].at = "failed"
      /\ \A k \in DOMAIN net \ {n} : net'[k] = net[k]
  BY RejectTells DEF TabsInv, Lose
<1>2. \A k \in DOMAIN net : net'[k].op = net[k].op /\ net'[k].arg = net[k].arg
  BY <1>1
<1>3. net[n].op = "calendars" /\ net'[n].at = "answered" => net'[n].ans = kept' \/ net'[n] = net[n]
  BY <1>1
<1>4. /\ UNCHANGED <<page, isAdmin, listed, userIsAdmin, selected, chosen, want, tab, url, bar,
                     loaded, shows, late, restores>>
      /\ kept' = kept
  BY DEF Lose, tabs
<1> QED
  BY <1>1, <1>2, <1>3, <1>4, TabsInPlace

LEMMA TabsSessionKeeps ==
    ASSUME TabsInv, NEW n \in DOMAIN net, SessionExpired(n), UNCHANGED tabs
    PROVE  TabsInv'
<1>1. TabsTypes' /\ TabsSelected'
  BY DEF TabsInv, TabsTypes, TabsSelected, tabs
<1>2. page' = "login" /\ net' = <<>>
  BY DEF SessionExpired
<1> QED
  BY <1>1, <1>2, NothingPosted DEF TabsInv, RestoreTrue

(* A message of which the views know nothing is handled. *)
LEMMA PanesSettled ==
    ASSUME Posted(net), NEW n \in DOMAIN net, net[n].op \notin Views, NEW r, r = Settle(n),
           PanesTrue(net, loaded, shows, late), RegistryTrue(net, selected, shows, late)
    PROVE  /\ PanesTrue(r, loaded, shows, late) /\ RegistryTrue(r, selected, shows, late)
           /\ \A p \in Views : Waiting({p}) <=> \E k \in DOMAIN r : r[k].op = p
<1>1. \A p \in Views : net[n].op # p
  OBVIOUS
<1>2. \A p \in Views : Waiting({p}) <=> \E k \in DOMAIN r : r[k].op = p
  BY <1>1, SettleTells DEF Waiting
<1>3. PanesTrue(r, loaded, shows, late) /\ RegistryTrue(r, selected, shows, late)
  BY <1>1, PaneSettled DEF PanesTrue, RegistryTrue, Views
<1> QED
  BY <1>2, <1>3

(* What a reload restores stays so when an answer is handled that the page    *)
(* keeps no list of calendars or account of.                                  *)
LEMMA RestoreSettled ==
    ASSUME Posted(net), NEW n \in DOMAIN net, net' = Settle(n), RestoreTrue,
           ~chosen => net[n].op # "calendars",
           net[n].op = "me" => userIsAdmin' = isAdmin,
           net[n].op # "me" => userIsAdmin' = userIsAdmin,
           UNCHANGED <<page, kept, isAdmin, selected, chosen, want, tab, restores>>
    PROVE  RestoreTrue'
<1> SUFFICES ASSUME page = "open", Restoring PROVE RestoreTrue'
  BY DEF RestoreTrue, Restoring
<1>1. \A k \in DOMAIN net' : \E m \in DOMAIN net : net'[k] = net[m]
  BY SettledWere
<1>2. net[n].op # "me" => (Awaited(net, {"me"}) => Awaited(net', {"me"}))
  BY StillAwaited
<1>3. ~chosen => (Awaited(net, {"calendars"}) => Awaited(net', {"calendars"}))
  BY StillAwaited
<1>4. Awaited(net', {"me"}) \/ userIsAdmin' = isAdmin
  BY <1>2 DEF RestoreTrue
<1> QED
  BY <1>1, <1>3, <1>4 DEF RestoreTrue, Restoring

LEMMA IntroducedKeeps ==
    ASSUME TabsInv, NEW n \in DOMAIN net, Introduced(n)
    PROVE  TabsInv'
<1>1. net[n].op = "me" /\ net' = Settle(n) /\ Posted(net)
  BY DEF Introduced, Arrived, TabsInv
<1>2. Posted(net')
  BY <1>1, SettledWere
<1>3. TabsTypes'
  BY DEF TabsInv, TabsTypes, Introduced
<1>4. TabsSelected'
  BY DEF TabsInv, TabsTypes, TabsSelected, Introduced, Bar, Hidden
<1>5. page = "open" => PanesTrue(net', loaded, shows, late) /\ RegistryTrue(net', selected, shows, late)
  BY <1>1, PanesSettled DEF TabsInv, Views, Panes
<1>6. RestoreTrue'
  BY <1>1, RestoreSettled DEF TabsInv, Introduced
<1> QED
  BY <1>2, <1>3, <1>4, <1>5, <1>6 DEF TabsInv, Introduced

LEMMA ListMoreKeeps ==
    ASSUME TabsInv, NEW n \in DOMAIN net, ListMore(n)
    PROVE  TabsInv'
<1>1. /\ net[n].op \in {"calendars", "subscriptions"} /\ (net[n].op = "calendars" => chosen)
      /\ net' = Settle(n) /\ Posted(net)
  BY DEF ListMore, Answered, TabsInv
<1>2. Posted(net')
  BY <1>1, SettledWere
<1>3. TabsTypes'
  BY DEF TabsInv, TabsTypes, ListMore
<1>4. TabsSelected'
  BY DEF TabsInv, TabsSelected, ListMore
<1>5. page = "open" => PanesTrue(net', loaded, shows, late) /\ RegistryTrue(net', selected, shows, late)
  BY <1>1, PanesSettled DEF TabsInv, Views, Panes
<1>6. RestoreTrue'
  BY <1>1, RestoreSettled DEF TabsInv, ListMore
<1> QED
  BY <1>2, <1>3, <1>4, <1>5, <1>6 DEF TabsInv, ListMore

LEMMA ShowRowsKeeps ==
    ASSUME TabsInv, NEW n \in DOMAIN net, ShowRows(n)
    PROVE  TabsInv'
<1>1. PICK p \in Views : /\ net[n].op = p
                         /\ shows' = [shows EXCEPT ![p] = net[n].arg]
                         /\ late' = IF Overtakes(n, {p}) THEN late \cup {p} ELSE late
  BY DEF ShowRows, Arrived
<1>2. net' = Settle(n) /\ Posted(net)
  BY DEF ShowRows, TabsInv
<1>3. Posted(net')
  BY <1>2, SettledWere
<1>4. shows = [x \in Views |-> shows[x]]
  BY DEF TabsInv, TabsTypes
<1>5. shows' = [x \in Views |-> shows'[x]] /\ shows'[p] = net[n].arg /\ \A x \in Views \ {p} : shows'[x] = shows[x]
  BY <1>1, <1>4
<1>6. TabsTypes'
  BY <1>5 DEF TabsInv, TabsTypes, ShowRows
<1>7. TabsSelected'
  BY DEF TabsInv, TabsSelected, ShowRows
<1>8. ASSUME NEW x \in Views, x \notin late', NEW cal, PaneTrue(net, x, cal, shows[x])
      PROVE  PaneTrue(net', x, cal, shows'[x])
  <2>1. CASE x = p
    BY <1>1, <1>2, <1>5, <1>8, <2>1, PaneShown
  <2>2. CASE x # p
    BY <1>1, <1>2, <1>5, <1>8, <2>2, PaneSettled
  <2> QED
    BY <2>1, <2>2
<1>9. ASSUME page = "open"
      PROVE  PanesTrue(net', loaded, shows', late') /\ RegistryTrue(net', selected, shows', late')
  <2>1. PanesTrue(net, loaded, shows, late) /\ RegistryTrue(net, selected, shows, late)
    BY <1>9 DEF TabsInv
  <2>2. late \subseteq late' /\ "registry" \in Views /\ Panes \subseteq Views
    BY <1>1 DEF Views
  <2> QED
    BY <1>8, <2>1, <2>2 DEF PanesTrue, RegistryTrue
<1>10. RestoreTrue'
  <2>1. net[n].op \notin {"me", "calendars"}
    BY <1>1 DEF Views, Panes
  <2> QED
    BY <1>2, <2>1, RestoreSettled DEF TabsInv, ShowRows
<1> QED
  BY <1>3, <1>6, <1>7, <1>9, <1>10 DEF TabsInv, ShowRows

LEMMA CalendarRemovedKeeps ==
    ASSUME TabsInv, NEW n \in DOMAIN net, CalendarRemoved(n)
    PROVE  TabsInv'
<1> DEFINE q == Settle(n)
           list == IF net[n].arg = Subscription THEN "subscriptions" ELSE "calendars"
<1>1. net[n].op = "remove" /\ Posted(net) /\ page = "open"
  BY DEF CalendarRemoved, Answered, TabsInv
<1>2. net' = Append(q, Request(list, {}))
  BY DEF CalendarRemoved
<1>3. /\ Posted(q)
      /\ PanesTrue(q, loaded, shows, late) /\ RegistryTrue(q, selected, shows, late)
  BY <1>1, SettledWere, PanesSettled DEF TabsInv, Views, Panes
<1> HIDE DEF q
<1>4. Sends(q, net', list, {})
  BY <1>2, <1>3, SendTells
<1>5. Posted(net') /\ list \notin Views
  BY <1>4 DEF Sends, Views, Panes
<1> HIDE DEF list
<1>6. PanesTrue(net', loaded, shows, late)
  BY <1>3, <1>4, <1>5, PaneSent DEF PanesTrue, Views
<1>7. selected' \in {selected, NoCalendar}
  BY DEF CalendarRemoved
<1>8. RegistryTrue(net', selected', shows, late)
  BY <1>3, <1>4, <1>5, <1>7, PaneSent DEF RegistryTrue, Views
<1>9. TabsTypes'
  BY <1>7 DEF TabsInv, TabsTypes, CalendarRemoved
<1>10. TabsSelected'
  <2> SUFFICES ASSUME selected' # NoCalendar PROVE TabsSelected'
    BY DEF TabsSelected
  <2>1. selected' = selected /\ selected # net[n].arg
    BY DEF CalendarRemoved
  <2>2. bar' = bar
    BY <2>1 DEF CalendarRemoved
  <2> QED
    BY <2>1, <2>2 DEF TabsInv, TabsSelected, CalendarRemoved
<1>11. RestoreTrue'
  <2>1. ~Restoring
    BY <1>1 DEF TabsInv, RestoreTrue
  <2>2. ~Restoring'
    BY <2>1 DEF Restoring, CalendarRemoved
  <2> QED
    BY <2>2 DEF RestoreTrue
<1> QED
  BY <1>5, <1>6, <1>8, <1>9, <1>10, <1>11 DEF TabsInv, CalendarRemoved

LEMMA TabsFailedKeeps ==
    ASSUME TabsInv, TabsAssumption, NEW n \in DOMAIN net, TabsFailed(n)
    PROVE  TabsInv'
<1>1. net' = Settle(n) /\ Posted(net) /\ UNCHANGED page
  BY DEF TabsFailed, Ignore, ShowError, TabsInv
<1>2. Posted(net')
  BY <1>1, SettledWere
<1>3. TabsTypes'
  BY DEF TabsInv, TabsTypes, TabsFailed, NoUrl, Tabs
<1>4. TabsSelected'
  BY DEF TabsInv, TabsSelected, TabsFailed
<1>5. late' = late \cup ({net[n].op} \cap Views)
  BY DEF TabsFailed
<1>6. ASSUME NEW x \in Views, x \notin late', NEW cal, PaneTrue(net, x, cal, shows[x])
      PROVE  PaneTrue(net', x, cal, shows[x])
  BY <1>1, <1>5, <1>6, PaneSettled
<1>7. ASSUME page = "open"
      PROVE  PanesTrue(net', loaded, shows, late') /\ RegistryTrue(net', selected, shows, late')
  <2>1. PanesTrue(net, loaded, shows, late) /\ RegistryTrue(net, selected, shows, late)
    BY <1>7 DEF TabsInv
  <2>2. late \subseteq late' /\ "registry" \in Views /\ Panes \subseteq Views
    BY <1>5 DEF Views
  <2> QED
    BY <1>6, <2>1, <2>2 DEF PanesTrue, RegistryTrue
<1>8. RestoreTrue'
  <2>1. CASE net[n].op \in {"me", "calendars"}
    BY <1>3, <2>1, NothingRestored DEF TabsFailed, TabsTypes
  <2>2. CASE net[n].op \notin {"me", "calendars"}
    BY <1>1, <2>2, RestoreSettled DEF TabsInv, TabsFailed
  <2> QED
    BY <2>1, <2>2
<1> QED
  BY <1>1, <1>2, <1>3, <1>4, <1>7, <1>8 DEF TabsInv, TabsFailed

(* selectCalendar. *)
LEMMA SelectKeeps ==
    ASSUME TabsAssumption, TabsTypes,
           NEW q, Posted(q), \A p \in Views : Waiting({p}) <=> \E k \in DOMAIN q : q[k].op = p,
           PanesTrue(q, loaded, shows, late), UNCHANGED <<userIsAdmin, isAdmin>>,
           NEW cal \in Calendars \cup {Subscription, All}, NEW thenTab \in Tabs,
           Select(cal, thenTab, q)
    PROVE  /\ \E asked \in SUBSET Views : AsksFor(q, net', asked, cal)
           /\ loaded' = [p \in Panes |-> loaded'[p]] /\ shows' = [p \in Views |-> shows'[p]]
           /\ selected' = cal /\ tab' \in Tabs /\ url'.tab \in Tabs
           /\ tab' = IF thenTab = "calendar" THEN VisibleTab(tab, cal) ELSE VisibleTab(thenTab, cal)
           /\ TabsSelected'
           /\ PanesTrue(net', loaded', shows', late') /\ RegistryTrue(net', selected', shows', late')
<1> DEFINE t == VisibleTab(tab, cal)
           visible == {t, tab'} \cup IF ReadOnly(cal) THEN {} ELSE {"registry"}
<1>1. /\ selected' = cal /\ tab' = IF thenTab = "calendar" THEN t ELSE VisibleTab(thenTab, cal)
      /\ url' = UrlOf(cal, tab') /\ bar' = Bar(cal, userIsAdmin)
      /\ LoadPanes(cal, visible, q)
  BY DEF Select
<1>2. \A x \in Tabs : VisibleTab(x, cal) \in Tabs /\ ~Hidden(VisibleTab(x, cal), cal, userIsAdmin)
  BY DEF VisibleTab, Hidden, Tabs
<1>3. t \in Tabs /\ tab' \in Tabs /\ ~Hidden(tab', cal, userIsAdmin)
  BY <1>1, <1>2 DEF TabsTypes
<1>4. cal # NoCalendar
  BY DEF TabsAssumption, NoCalendar, Subscription, All
<1>5. visible \subseteq Tabs \cup {"registry"}
  BY <1>3
<1>6. tab' \in visible /\ (~ReadOnly(cal) => "registry" \in visible)
  OBVIOUS
<1> HIDE DEF visible
<1>7. /\ \E asked \in SUBSET Views : AsksFor(q, net', asked, cal)
      /\ loaded' = [p \in Panes |-> loaded'[p]] /\ shows' = [p \in Views |-> shows'[p]]
      /\ PanesTrue(net', loaded', shows', late')
      /\ \A p \in visible \cap Panes : loaded'[p] = Scope(p, cal)
      /\ "registry" \in visible => RegistryTrue(net', cal, shows', late')
  BY <1>1, <1>4, <1>5, PanesLoad
<1>8. RegistryTrue(net', cal, shows', late')
  BY <1>6, <1>7 DEF RegistryTrue
<1>9. tab' \in bar' /\ url'.tab \in Tabs
  BY <1>1, <1>3, <1>4 DEF Bar, UrlOf
<1>10. tab' \in Panes => loaded'[tab'] = Scope(tab', cal)
  BY <1>6, <1>7
<1> QED
  BY <1>1, <1>3, <1>7, <1>8, <1>9, <1>10 DEF TabsSelected

LEMMA NetWaits == \A p \in Views : Waiting({p}) <=> \E k \in DOMAIN net : net[k].op = p
BY DEF Waiting

LEMMA SelectCalendarKeeps ==
    ASSUME TabsInv, TabsAssumption, NEW cal \in Calendars \cup {Subscription, All},
           SelectCalendar(cal)
    PROVE  TabsInv'
<1>1. page = "open" /\ Posted(net) /\ TabsTypes /\ PanesTrue(net, loaded, shows, late)
  BY DEF SelectCalendar, MaySend, UserMayAct, TabsInv
<1>2. Select(cal, "calendar", net) /\ "calendar" \in Tabs /\ UNCHANGED <<userIsAdmin, isAdmin>>
  BY DEF SelectCalendar, Tabs
<1>3. /\ \E asked \in SUBSET Views : AsksFor(net, net', asked, cal)
      /\ loaded' = [p \in Panes |-> loaded'[p]] /\ shows' = [p \in Views |-> shows'[p]]
      /\ selected' = cal /\ tab' \in Tabs /\ url'.tab \in Tabs
      /\ TabsSelected'
      /\ PanesTrue(net', loaded', shows', late') /\ RegistryTrue(net', selected', shows', late')
  BY <1>1, <1>2, NetWaits, SelectKeeps
<1>4. Posted(net')
  BY <1>3 DEF AsksFor
<1>5. TabsTypes'
  BY <1>1, <1>3 DEF TabsTypes, SelectCalendar, NoUrl, Tabs
<1>6. RestoreTrue'
  BY <1>5, NothingRestored DEF TabsTypes, SelectCalendar
<1> QED
  BY <1>3, <1>4, <1>5, <1>6 DEF TabsInv

LEMMA ClickTabKeeps ==
    ASSUME TabsInv, TabsAssumption, NEW t \in Tabs, ClickTab(t)
    PROVE  TabsInv'
<1>1. /\ page = "open" /\ Posted(net) /\ TabsTypes /\ TabsSelected
      /\ PanesTrue(net, loaded, shows, late) /\ RegistryTrue(net, selected, shows, late)
  BY DEF ClickTab, MaySend, UserMayAct, TabsInv
<1>2. /\ LoadPanes(selected, {t}, net) /\ {t} \subseteq Tabs \cup {"registry"} /\ "registry" \notin {t}
      /\ tab' = t /\ t \in bar /\ url' = UrlOf(selected, t)
      /\ UNCHANGED <<selected, bar, userIsAdmin>>
  BY DEF ClickTab, Tabs, Panes
<1>3. /\ \E asked \in SUBSET Views : AsksFor(net, net', asked, selected)
      /\ loaded' = [p \in Panes |-> loaded'[p]] /\ shows' = [p \in Views |-> shows'[p]]
      /\ PanesTrue(net', loaded', shows', late')
      /\ selected # NoCalendar => \A p \in {t} \cap Panes : loaded'[p] = Scope(p, selected)
      /\ RegistryTrue(net', selected, shows', late')
  BY <1>1, <1>2, NetWaits, PanesLoad
<1>4. Posted(net')
  BY <1>3 DEF AsksFor
<1>5. TabsTypes'
  BY <1>1, <1>2, <1>3 DEF TabsTypes, ClickTab, NoUrl, Tabs, UrlOf
<1>6. TabsSelected'
  BY <1>1, <1>2, <1>3 DEF TabsSelected
<1>7. RestoreTrue'
  BY <1>5, NothingRestored DEF TabsTypes, ClickTab
<1> QED
  BY <1>2, <1>3, <1>4, <1>5, <1>6, <1>7 DEF TabsInv

LEMMA RemoveCalendarKeeps ==
    ASSUME TabsInv, TabsAssumption, NEW cal \in Calendars \cup {Subscription, All},
           RemoveCalendar(cal)
    PROVE  TabsInv'
<1>1. /\ page = "open" /\ Posted(net)
      /\ PanesTrue(net, loaded, shows, late) /\ RegistryTrue(net, selected, shows, late)
  BY DEF RemoveCalendar, MaySend, UserMayAct, TabsInv
<1>2. Sends(net, net', "remove", cal)
  BY <1>1, SendTells DEF RemoveCalendar
<1>3. Posted(net') /\ "remove" \notin Views
  BY <1>2 DEF Sends, Views, Panes
<1>4. PanesTrue(net', loaded, shows, late) /\ RegistryTrue(net', selected, shows, late)
  BY <1>1, <1>2, <1>3, PaneSent DEF PanesTrue, RegistryTrue, Views
<1>5. TabsTypes'
  BY DEF TabsInv, TabsTypes, RemoveCalendar, NoUrl, Tabs
<1>6. TabsSelected'
  BY DEF TabsInv, TabsSelected, RemoveCalendar
<1>7. RestoreTrue'
  BY <1>5, NothingRestored DEF TabsTypes, RemoveCalendar
<1> QED
  BY <1>3, <1>4, <1>5, <1>6, <1>7 DEF TabsInv, RemoveCalendar

(* The first list of calendars, for the calendar it selects, or none. *)
LEMMA FirstListKeeps ==
    ASSUME TabsInv, TabsAssumption, NEW n \in DOMAIN net, FirstList(n)
    PROVE  TabsInv'
<1> DEFINE own == net[n].ans \cap Calendars
           q == Settle(n)
<1>1. /\ page = "open" /\ net[n].op = "calendars" /\ net[n].at = "answered" /\ ~chosen
      /\ Posted(net) /\ TabsTypes /\ TabsSelected
      /\ PanesTrue(net, loaded, shows, late) /\ RegistryTrue(net, selected, shows, late)
  BY DEF FirstList, Answered, TabsInv
<1>2. /\ chosen' /\ want' = NoUrl /\ UNCHANGED <<page, kept, isAdmin, userIsAdmin>>
      /\ listed' = (listed \ Calendars) \cup own
      /\ restores' = IF restores.tab = "rules" /\ Waiting({"me"}) THEN NoUrl ELSE restores
  BY DEF FirstList
<1>3. /\ Posted(q) /\ PanesTrue(q, loaded, shows, late) /\ RegistryTrue(q, selected, shows, late)
      /\ \A p \in Views : Waiting({p}) <=> \E k \in DOMAIN q : q[k].op = p
  BY <1>1, SettledWere, PanesSettled DEF Views, Panes
<1>4. \/ \E cal \in Calendars \cup {All} :
            /\ Select(cal, want.tab, q)
            /\ want.cal \in own \cup {All} => cal = want.cal
      \/ /\ want.cal \notin own \cup {All}
         /\ tab' = IF want.tab = "calendar" THEN tab ELSE VisibleTab(want.tab, selected)
         /\ LoadPanes(selected, {tab'}, q)
         /\ url' = IF tab' = tab THEN url ELSE UrlOf(selected, tab')
         /\ UNCHANGED <<selected, bar>>
  BY DEF FirstList
<1>5. \A k \in DOMAIN q : \E m \in DOMAIN net : q[k] = net[m]
  BY <1>1, SettledWere
<1>6. Awaited(net, {"me"}) => Awaited(q, {"me"})
  BY <1>1, StillAwaited
<1> HIDE DEF q
<1>7. want.tab \in Tabs
  BY <1>1 DEF TabsTypes
<1>8. ASSUME NEW cal, NEW asked \in SUBSET Views, AsksFor(q, net', asked, cal),
             tab' \in Tabs, url'.tab \in Tabs, selected' \in Calendars \cup {Subscription, All, NoCalendar},
             loaded' = [p \in Panes |-> loaded'[p]] /\ shows' = [p \in Views |-> shows'[p]],
             TabsSelected', PanesTrue(net', loaded', shows', late'),
             RegistryTrue(net', selected', shows', late'),
             Restoring' /\ Restoring /\ want.cal \in own \cup {All} =>
                 selected' = restores.cal /\ tab' = restores.tab
      PROVE  TabsInv'
  <2>1. TabsTypes'
    BY <1>1, <1>2, <1>8 DEF TabsTypes, NoUrl, Tabs
  <2>2. Posted(net')
    BY <1>8 DEF AsksFor
  <2>3. RestoreTrue'
    <3> SUFFICES ASSUME Restoring' PROVE RestoreTrue'
      BY DEF RestoreTrue
    <3>1. restores' # NoUrl
      BY <1>1, <1>2, NoUrlRestoresNothing DEF Restoring, TabsTypes
    <3>2. restores' = restores /\ Restoring
      BY <1>2, <3>1 DEF Restoring
    <3>3. /\ \A k \in DOMAIN net : /\ net[k].op # "remove"
                                   /\ net[k].op = "calendars" /\ net[k].at = "answered"
                                        => net[k].ans = kept
          /\ Awaited(net, {"me"}) \/ userIsAdmin = isAdmin
          /\ ~Hidden(restores.tab, restores.cal, isAdmin)
          /\ want = [cal |-> restores.cal, tab |-> restores.tab]
      BY <1>1, <3>2 DEF TabsInv, RestoreTrue
    <3>4. want.cal \in own \cup {All}
      BY <1>1, <3>2, <3>3 DEF Restoring, TabsTypes
    <3>5. \A k \in DOMAIN net' : /\ net'[k].op # "remove"
                                 /\ net'[k].op = "calendars" /\ net'[k].at = "answered"
                                      => net'[k].ans = kept
      BY <1>5, <1>8, <3>3 DEF AsksFor, Views, Panes
    <3>6. Awaited(net', {"me"}) \/ userIsAdmin = isAdmin
      BY <1>6, <1>8, <3>3 DEF AsksFor, Awaited
    <3> QED
      BY <1>2, <1>8, <3>2, <3>3, <3>4, <3>5, <3>6 DEF RestoreTrue
  <2> QED
    BY <1>8, <2>1, <2>2, <2>3 DEF TabsInv
<1>9. ASSUME NEW cal \in Calendars \cup {All}, Select(cal, want.tab, q),
             want.cal \in own \cup {All} => cal = want.cal
      PROVE  TabsInv'
  <2>1. /\ \E asked \in SUBSET Views : AsksFor(q, net', asked, cal)
        /\ loaded' = [p \in Panes |-> loaded'[p]] /\ shows' = [p \in Views |-> shows'[p]]
        /\ selected' = cal /\ tab' \in Tabs /\ url'.tab \in Tabs
        /\ tab' = IF want.tab = "calendar" THEN VisibleTab(tab, cal) ELSE VisibleTab(want.tab, cal)
        /\ TabsSelected'
        /\ PanesTrue(net', loaded', shows', late') /\ RegistryTrue(net', selected', shows', late')
    BY <1>1, <1>2, <1>3, <1>7, <1>9, SelectKeeps
  <2>2. ASSUME Restoring', Restoring, want.cal \in own \cup {All}
        PROVE  selected' = restores.cal /\ tab' = restores.tab
    <3>1. /\ Awaited(net, {"me"}) \/ userIsAdmin = isAdmin
          /\ ~Hidden(restores.tab, restores.cal, isAdmin) /\ tab = "calendar"
          /\ want = [cal |-> restores.cal, tab |-> restores.tab]
      BY <1>1, <2>2 DEF TabsInv, RestoreTrue
    <3>2. restores' # NoUrl
      BY <1>1, <1>2, <2>2, NoUrlRestoresNothing DEF Restoring, TabsTypes
    <3>3. ~(restores.tab = "rules" /\ Awaited(net, {"me"}))
      BY <1>2, <3>2 DEF Waiting, Awaited
    <3>4. cal = restores.cal /\ want.tab = restores.tab
      BY <1>9, <2>2, <3>1
    <3>5. ~Hidden(restores.tab, cal, userIsAdmin)
      BY <3>1, <3>3, <3>4 DEF Hidden
    <3> QED
      BY <2>1, <3>1, <3>4, <3>5 DEF VisibleTab
  <2> QED
    BY <1>8, <2>1, <2>2
<1>10. ASSUME want.cal \notin own \cup {All},
              tab' = IF want.tab = "calendar" THEN tab ELSE VisibleTab(want.tab, selected),
              LoadPanes(selected, {tab'}, q),
              url' = IF tab' = tab THEN url ELSE UrlOf(selected, tab'),
              UNCHANGED <<selected, bar>>
       PROVE  TabsInv'
  <2>1. /\ tab' \in Tabs /\ {tab'} \subseteq Tabs \cup {"registry"} /\ "registry" \notin {tab'}
        /\ selected # NoCalendar => tab' \in bar
    BY <1>1, <1>7, <1>10 DEF TabsTypes, TabsSelected, VisibleTab, Tabs, Panes, Bar, Hidden
  <2>2. /\ \E asked \in SUBSET Views : AsksFor(q, net', asked, selected)
        /\ loaded' = [p \in Panes |-> loaded'[p]] /\ shows' = [p \in Views |-> shows'[p]]
        /\ PanesTrue(net', loaded', shows', late')
        /\ selected # NoCalendar => \A p \in {tab'} \cap Panes : loaded'[p] = Scope(p, selected)
        /\ RegistryTrue(net', selected, shows', late')
    BY <1>3, <1>10, <2>1, PanesLoad
  <2>3. TabsSelected'
    BY <1>1, <1>2, <1>10, <2>1, <2>2 DEF TabsSelected
  <2>4. url'.tab \in Tabs /\ selected' \in Calendars \cup {Subscription, All, NoCalendar}
    BY <1>1, <1>10, <2>1 DEF TabsTypes, UrlOf
  <2> QED
    BY <1>8, <1>10, <2>1, <2>2, <2>3, <2>4
<1> QED
  BY <1>4, <1>9, <1>10

(* A page that has just opened. *)
LEMMA FirstRequestsAre ==
    ASSUME NEW q, q = FirstRequests
    PROVE  /\ Posted(q) /\ Awaited(q, {"me"}) /\ Awaited(q, {"calendars"})
           /\ \A k \in DOMAIN q : q[k].at = "sent" /\ q[k].op \in {"me", "subscriptions", "calendars"}
<1> DEFINE a == Request("me", {})
           b == Request("subscriptions", {})
           c == Request("calendars", {})
<1>1. /\ a.op = "me" /\ b.op = "subscriptions" /\ c.op = "calendars"
      /\ \A m \in {a, b, c} : m.at = "sent" /\ {"op", "arg", "at"} \subseteq DOMAIN m
  BY DEF Request
<1>2. q = <<a, b, c>>
  BY DEF FirstRequests
<1> HIDE DEF a, b, c
<1>3. q \in Seq({a, b, c}) /\ DOMAIN q = {1, 2, 3} /\ q[1] = a /\ q[2] = b /\ q[3] = c
  BY <1>2
<1>4. Posted(q)
  BY <1>1, <1>3, PostedIs
<1> QED
  BY <1>1, <1>3, <1>4 DEF Awaited

LEMMA PageOpens ==
    ASSUME TabsAssumption, NEW q, q = FirstRequests, NEW of, of = [p \in Panes |-> NoCalendar],
           NEW shown, shown = [p \in Views |-> NoCalendar], NEW behind
    PROVE  PanesTrue(q, of, shown, behind) /\ RegistryTrue(q, NoCalendar, shown, behind)
<1>1. \A p \in Panes : PaneDrawn(p, NoCalendar) = NoCalendar
  BY DEF PaneDrawn, Accepts, TabsAssumption
<1>2. \A p \in Panes : of[p] = NoCalendar /\ shown[p] = NoCalendar
  BY DEF Views
<1> QED
  BY <1>1, <1>2, FirstRequestsAre DEF PanesTrue, PaneTrue, RegistryTrue, Panes

LEMMA ReloadKeeps ==
    ASSUME TabsInv, TabsAssumption, Reload
    PROVE  TabsInv'
<1>1. /\ net' = FirstRequests /\ page = "open" /\ selected' = NoCalendar /\ ~chosen'
      /\ loaded' = [p \in Panes |-> NoCalendar] /\ shows' = [p \in Views |-> NoCalendar]
      /\ want' = url /\ restores' = [cal |-> selected, tab |-> tab] /\ tab' = "calendar"
      /\ UNCHANGED <<kept, isAdmin>>
  BY DEF Reload
<1>2. /\ Posted(net') /\ Awaited(net', {"me"}) /\ Awaited(net', {"calendars"})
      /\ \A k \in DOMAIN net' : net'[k].at = "sent" /\ net'[k].op \in {"me", "subscriptions", "calendars"}
  BY <1>1, FirstRequestsAre
<1>3. PanesTrue(net', loaded', shows', late') /\ RegistryTrue(net', selected', shows', late')
  BY <1>1, PageOpens
<1>4. TabsTypes'
  <2>1. loaded' = [p \in Panes |-> loaded'[p]] /\ shows' = [p \in Views |-> shows'[p]]
    BY <1>1
  <2>2. {tab', want'.tab, url'.tab, restores'.tab} \subseteq Tabs
    BY <1>1 DEF TabsInv, TabsTypes, Reload, Tabs
  <2>3. listed' = {} /\ userIsAdmin' = FALSE
    BY DEF Reload
  <2> QED
    BY <1>1, <2>1, <2>2, <2>3 DEF TabsInv, TabsTypes
<1>5. TabsSelected'
  BY <1>1 DEF TabsSelected
<1>6. RestoreTrue'
  <2> SUFFICES ASSUME Restoring' PROVE RestoreTrue'
    BY DEF RestoreTrue
  <2>1. selected \notin {NoCalendar, Subscription} /\ restores'.cal = selected /\ restores'.tab = tab
    BY <1>1 DEF Restoring, TabsInv, TabsTypes, TabsAssumption, NoCalendar, Subscription, All
  <2>2. url = [cal |-> selected, tab |-> tab] /\ ~Hidden(tab, selected, userIsAdmin)
    BY <2>1 DEF TabsInv, TabsSelected, UrlOf, Bar
  <2>3. ~Hidden(tab, selected, isAdmin)
    BY <2>2 DEF TabsInv, TabsTypes, Hidden
  <2> QED
    BY <1>1, <1>2, <2>1, <2>2, <2>3 DEF RestoreTrue
<1> QED
  BY <1>2, <1>3, <1>4, <1>5, <1>6 DEF TabsInv

LEMMA TabsStart == TabsAssumption /\ WebInit(FirstRequests) /\ TabsInit => TabsInv
<1> SUFFICES ASSUME TabsAssumption, WebInit(FirstRequests), TabsInit PROVE TabsInv
  OBVIOUS
<1>1. net = FirstRequests /\ selected = NoCalendar /\ restores = NoUrl
  BY DEF WebInit, TabsInit
<1>2. PanesTrue(net, loaded, shows, late) /\ RegistryTrue(net, selected, shows, late)
  BY <1>1, PageOpens DEF TabsInit
<1>3. TabsTypes
  BY DEF TabsInit, TabsTypes, NoUrl, Tabs
<1>4. TabsSelected
  BY <1>1 DEF TabsSelected
<1>5. RestoreTrue
  BY <1>1, <1>3 DEF RestoreTrue, Restoring, TabsTypes, NoUrl, TabsAssumption, NoCalendar, Subscription, All
<1> QED
  BY <1>1, <1>2, <1>3, <1>4, <1>5, FirstRequestsAre DEF TabsInv

LEMMA TabsNextKeeps ==
    ASSUME TabsInv, TabsAssumption, [TabsNext]_tabsVars
    PROVE  TabsInv'
<1>1. CASE \E cal \in Calendars \cup {Subscription, All} : SelectCalendar(cal) \/ RemoveCalendar(cal)
  BY <1>1, SelectCalendarKeeps, RemoveCalendarKeeps
<1>2. CASE \E t \in Tabs : ClickTab(t)
  BY <1>2, ClickTabKeeps
<1>3. CASE Reload
  BY <1>3, ReloadKeeps
<1>4. CASE \E n \in DOMAIN net : ServeTabs(n) \/ Introduced(n) \/ ListMore(n) \/ FirstList(n)
  BY <1>4, ServeTabsKeeps, IntroducedKeeps, ListMoreKeeps, FirstListKeeps
<1>5. CASE \E n \in DOMAIN net : ShowRows(n) \/ CalendarRemoved(n) \/ TabsFailed(n)
  BY <1>5, ShowRowsKeeps, CalendarRemovedKeeps, TabsFailedKeeps
<1>6. CASE \E n \in DOMAIN net : (Lose(n) \/ SessionExpired(n)) /\ UNCHANGED tabs
  BY <1>6, LoseTabKeeps, TabsSessionKeeps
<1>7. CASE UNCHANGED tabsVars
  BY <1>7 DEF TabsInv, TabsTypes, TabsSelected, RestoreTrue, Restoring, tabsVars, tabs, web
<1> QED
  BY <1>1, <1>2, <1>3, <1>4, <1>5, <1>6, <1>7 DEF TabsNext

LEMMA TabsInvHolds == TabsSpec => []TabsInv
BY TabsStart, TabsNextKeeps, TabsAssumption, PTL DEF TabsSpec

(* When everything is answered the open view is one the selected calendar     *)
(* has and shows it, and so does the registry of the event modal, except      *)
(* where answers were lost or came in another order than asked for.           *)
THEOREM ViewsFollow == TabsSpec => []ViewFollowsSelection
<1>1. TabsInv /\ TabsAssumption => ViewFollowsSelection
  <2> SUFFICES ASSUME TabsInv, TabsAssumption, page = "open", Quiet, selected \in kept \cup {All}
               PROVE  /\ tab \in bar
                      /\ tab \in Panes \ late /\ ~(tab = "categories" /\ ReadOnly(selected)) =>
                            shows[tab] = IF Accepts(tab, selected) THEN Scope(tab, selected)
                                                                  ELSE Refused
                      /\ "registry" \notin late /\ ~ReadOnly(selected) =>
                            shows["registry"] = selected
    BY DEF ViewFollowsSelection
  <2>1. selected # NoCalendar
    BY DEF TabsInv, TabsTypes, TabsAssumption, NoCalendar, Subscription, All
  <2>2. DOMAIN net = {}
    BY NothingPosted DEF Quiet
  <2>3. tab \in bar /\ (tab \in Panes => loaded[tab] = Scope(tab, selected))
    BY <2>1 DEF TabsInv, TabsSelected
  <2>4. ASSUME tab \in Panes \ late
        PROVE  shows[tab] = IF Accepts(tab, selected) THEN Scope(tab, selected) ELSE Refused
    <3>1. shows[tab] = PaneDrawn(tab, Scope(tab, selected))
      BY <2>2, <2>3, <2>4 DEF TabsInv, PanesTrue, PaneTrue
    <3>2. tab = "tasks" => Scope(tab, selected) = selected
      BY DEF Scope
    <3> QED
      BY <3>1, <3>2 DEF PaneDrawn, Accepts
  <2>5. ASSUME "registry" \notin late, ~ReadOnly(selected) PROVE shows["registry"] = selected
    BY <2>1, <2>2, <2>5 DEF TabsInv, RegistryTrue, PaneTrue, PaneDrawn, Accepts
  <2> QED
    BY <2>3, <2>4, <2>5
<1> QED
  BY <1>1, TabsInvHolds, TabsAssumption, PTL

(* A reload comes back to the calendar and the view it replaced, unless it was *)
(* a subscription or the calendar is gone, or the view is that of the rules    *)
(* and the answer that tells an administrator came after the calendars.        *)
THEOREM ReloadsRestore == TabsSpec => []ReloadRestores
<1>1. TabsInv => ReloadRestores
  BY NothingPosted DEF TabsInv, ReloadRestores, RestoreTrue, Restoring, Awaited, Quiet
<1> QED
  BY <1>1, TabsInvHolds, PTL


---------------------------------------------------------------------------
(* The event form.  What the user meant is stored, but for the losses that    *)
(* Loses names, for any guests and venues and any openings and edits.        *)

Typed == {Blank, "hall", "room"} \cup Venues
Locations == {TextOnly(t) : t \in Typed} \cup {Picked(v) : v \in Typed}
Event == [details : {Blank, "details"}, rrule : Rules \cup {Blank}, location : Locations,
          guests : SUBSET Guests, span : {"timed", "all-day"}]
Draft == [open : {TRUE}, mode : {"create", "edit", "occurrence", "split"},
          details : {Blank, "details"}, repeat : PickerRules \cup {Blank},
          rruleUnknown : BOOLEAN, placeLocation : Typed, picked : BOOLEAN,
          text : Typed, guests : SUBSET Guests, span : {"timed", "all-day"}]

FormTypeOK == series \in Event /\ meant \in Event /\ draft \in Draft \cup {NoDraft}

(* The fields that hold what the user meant, whatever was edited before. *)
DetailsMeant == draft.details = meant.details /\ draft.span = meant.span

(* The rule shown is the one meant, unless the picker could not show it. *)
RuleMeant == CASE draft.mode = "occurrence" -> meant.rrule = Blank
               [] draft.mode # "occurrence" -> draft.rruleUnknown \/ draft.repeat = meant.rrule
RuleUnknown == draft.rruleUnknown => draft.mode # "create"

(* A place that was not picked since the opening is the one of the event,    *)
(* and goes with a text that was edited.                                     *)
PlaceOfEvent == ~draft.picked /\ draft.placeLocation # Blank =>
                    draft.mode # "create" /\ series.location = Picked(draft.placeLocation)
LocationMeant == \/ LocationSent = meant.location
                 \/ /\ draft.mode # "create" /\ Altered("location")
                    /\ series.location.venue # Blank /\ ~draft.picked

(* The list starts empty, which is right for an event without attendees. *)
GuestsMeant == draft.mode = "create" \/ series.guests = {} => draft.guests = meant.guests

DraftMeant == DetailsMeant /\ RuleMeant /\ RuleUnknown /\ PlaceOfEvent /\ LocationMeant /\ GuestsMeant

FormInv == FormTypeOK /\ (draft.open => DraftMeant)

---------------------------------------------------------------------------
(* The locations the form can hold and send. *)

LEMMA LocationTypes ==
    /\ \A t \in Typed : TextOnly(t) \in Locations
    /\ \A v \in Typed : Picked(v) \in Locations
    /\ Blank \in Typed /\ NoLocation \in Locations
    /\ \A l \in Locations : /\ l.venue \in Typed /\ l.text \in Typed
                            /\ l.venue # Blank => l = Picked(l.venue)
                            /\ l.venue = Blank => l = TextOnly(l.text)
<1>1. /\ \A t \in Typed : TextOnly(t) \in Locations
      /\ \A v \in Typed : Picked(v) \in Locations
  BY DEF Locations
<1>2. Blank \in Typed /\ NoLocation = TextOnly(Blank)
  BY DEF Typed, TextOnly, NoLocation
<1>3. ASSUME NEW l \in Locations
      PROVE  /\ l.venue \in Typed /\ l.text \in Typed
             /\ l.venue # Blank => l = Picked(l.venue)
             /\ l.venue = Blank => l = TextOnly(l.text)
  <2>1. CASE \E t \in Typed : l = TextOnly(t)
    BY <2>1, <1>2 DEF TextOnly
  <2>2. CASE \E v \in Typed : l = Picked(v)
    BY <2>2 DEF TextOnly, Picked
  <2>. QED
    BY <1>3, <2>1, <2>2 DEF Locations
<1>. QED
  BY <1>1, <1>2, <1>3

LEMMA SentTyped == draft \in Draft => LocationSent \in Locations
BY LocationTypes DEF Draft, LocationSent

LEMMA FieldsTyped == ASSUME FormTypeOK, draft.open
                     PROVE draft \in Draft /\ Body \in Event
<1>1. draft \in Draft
  BY DEF FormTypeOK, NoDraft
<1>. QED
  BY <1>1, SentTyped DEF Body, Event, Draft, Rules, Blank

LEMMA MergeTyped == ASSUME NEW b \in Event, NEW e \in Event
                    PROVE Merge(b, e) \in Event
BY DEF Merge, Or, Event

LEMMA StoredTyped == ASSUME FormTypeOK, draft.open
                     PROVE Stored(draft.mode) \in Event
<1>. draft \in Draft /\ Body \in Event /\ series \in Event
  BY FieldsTyped DEF FormTypeOK
<1>. Merge(Body, series) \in Event
  BY MergeTyped
<1>. draft.mode \in {"create", "edit", "occurrence", "split"}
  BY DEF Draft
<1>. QED
  BY DEF Stored, Event, Or

---------------------------------------------------------------------------
(* The invariant *)

LEMMA FormInit == DraftInit => FormInv
<1>. SUFFICES ASSUME DraftInit PROVE FormInv
  OBVIOUS
<1>1. series \in Event /\ meant \in Event
  BY LocationTypes DEF DraftInit, Contents, Event, Typed
<1>. QED
  BY <1>1 DEF DraftInit, FormInv, FormTypeOK, NoDraft

LEMMA OpenKeeps == ASSUME FormInv, NEW mode, OpenDraft(mode)
                   PROVE FormInv'
<1>1. PICK e \in {BlankEvent, Feed(series)} :
        /\ e = IF mode = "create" THEN BlankEvent ELSE Feed(series)
        /\ draft' = [open |-> TRUE, mode |-> mode, details |-> e.details,
                     repeat |-> PickerFor(mode, e.rrule), rruleUnknown |-> Unknown(mode, e.rrule),
                     placeLocation |-> e.location.venue, picked |-> FALSE,
                     text |-> e.location.text, guests |-> e.guests, span |-> e.span]
  BY DEF OpenDraft
<1>2. mode \in {"create", "edit", "occurrence", "split"} /\ series' = series /\ series \in Event
  BY DEF OpenDraft, ModesFor, FormInv, FormTypeOK
<1>3. BlankEvent \in Event /\ Feed(series) \in Event
  BY <1>2, LocationTypes DEF BlankEvent, Feed, Event
<1>4. e \in Event /\ e.location \in Locations
  BY <1>1, <1>3 DEF Event
<1>5. draft' \in Draft
  BY <1>1, <1>2, <1>4, LocationTypes DEF Draft, PickerFor, Unknown, Event
<1>6. meant' \in Event
  BY <1>2, <1>3 DEF OpenDraft, Event
<1>7. draft'.open /\ FormTypeOK'
  BY <1>1, <1>2, <1>5, <1>6 DEF FormTypeOK
<1>8. meant'.location = e.location /\ meant'.details = e.details /\ meant'.span = e.span
  BY <1>1, <1>2 DEF OpenDraft, Feed, Event
<1>9. DetailsMeant'
  BY <1>1, <1>8 DEF DetailsMeant
<1>10. RuleMeant' /\ RuleUnknown'
  <2>1. CASE mode = "occurrence"
    BY <1>1, <1>2, <2>1 DEF OpenDraft, RuleMeant, RuleUnknown, Unknown, Event
  <2>2. CASE mode # "occurrence"
    <3>1. meant'.rrule = e.rrule /\ e.rrule \in PickerRules \cup {"rich", Blank}
      BY <1>1, <1>2, <1>4, <2>2 DEF OpenDraft, Feed, Event, Rules
    <3>2. mode = "create" => e.rrule = Blank
      BY <1>1 DEF BlankEvent
    <3>. QED
      BY <1>1, <2>2, <3>1, <3>2 DEF RuleMeant, RuleUnknown, PickerFor, Unknown, Blank
  <2>. QED
    BY <2>1, <2>2
<1>11. PlaceOfEvent'
  BY <1>1, <1>2, <1>4, LocationTypes DEF PlaceOfEvent, Feed, Event, BlankEvent, NoLocation
<1>12. LocationMeant'
  BY <1>1, <1>4, <1>8, LocationTypes DEF LocationMeant, LocationSent
<1>13. GuestsMeant'
  BY <1>1, <1>2 DEF OpenDraft, GuestsMeant, Feed, Event, BlankEvent
<1>. QED
  BY <1>7, <1>9, <1>10, <1>11, <1>12, <1>13 DEF FormInv, DraftMeant

(* What every edit finds. *)
LEMMA Drafted == ASSUME FormInv, draft.open
                 PROVE draft \in Draft /\ series \in Event /\ meant \in Event /\ DraftMeant
BY DEF FormInv, FormTypeOK, NoDraft

LEMMA EditDetailsKeeps == ASSUME FormInv, NEW d \in {Blank, "details"}, EditDetails(d)
                          PROVE FormInv'
<1>1. draft \in Draft /\ series \in Event /\ meant \in Event /\ DraftMeant
  BY Drafted DEF EditDetails, DraftEdit
<1>2. /\ draft' = [draft EXCEPT !.details = d] /\ meant' = [meant EXCEPT !.details = d]
      /\ series' = series
  BY DEF EditDetails
<1>3. FormTypeOK'
  BY <1>1, <1>2 DEF FormTypeOK, Draft, Event
<1>4. DetailsMeant' /\ RuleMeant' /\ RuleUnknown' /\ GuestsMeant'
  BY <1>1, <1>2 DEF Draft, Event, DraftMeant, DetailsMeant, RuleMeant, RuleUnknown, GuestsMeant
<1>5. PlaceOfEvent' /\ LocationMeant'
  BY <1>1, <1>2 DEF Draft, Event, DraftMeant, PlaceOfEvent, LocationMeant, LocationSent, Altered
<1>. QED
  BY <1>3, <1>4, <1>5 DEF FormInv, DraftMeant

LEMMA PickRepeatKeeps == ASSUME FormInv, NEW r \in PickerRules \cup {Blank}, PickRepeat(r)
                         PROVE FormInv'
<1>1. draft \in Draft /\ series \in Event /\ meant \in Event /\ DraftMeant
  BY Drafted DEF PickRepeat, DraftEdit
<1>2. /\ draft' = [draft EXCEPT !.repeat = r] /\ meant' = [meant EXCEPT !.rrule = r]
      /\ series' = series /\ draft.mode # "occurrence"
  BY DEF PickRepeat
<1>3. FormTypeOK'
  BY <1>1, <1>2 DEF FormTypeOK, Draft, Event, Rules
<1>4. DetailsMeant' /\ RuleMeant' /\ RuleUnknown' /\ GuestsMeant'
  BY <1>1, <1>2 DEF Draft, Event, DraftMeant, DetailsMeant, RuleMeant, RuleUnknown, GuestsMeant
<1>5. PlaceOfEvent' /\ LocationMeant'
  BY <1>1, <1>2 DEF Draft, Event, DraftMeant, PlaceOfEvent, LocationMeant, LocationSent, Altered
<1>. QED
  BY <1>3, <1>4, <1>5 DEF FormInv, DraftMeant

(* The text of a place the event had is edited, and the place is sent: what   *)
(* is meant then differs from what the event has.                            *)
LEMMA EditLocationKeeps == ASSUME FormInv, NEW t \in {Blank, "hall", "room"}, EditLocation(t)
                           PROVE FormInv'
<1>1. draft \in Draft /\ series \in Event /\ meant \in Event /\ DraftMeant
  BY Drafted DEF EditLocation, DraftEdit
<1>2. /\ draft' = [draft EXCEPT !.text = t, !.picked = FALSE,
                                !.placeLocation = IF draft.picked THEN Blank ELSE @]
      /\ meant' = [meant EXCEPT !.location = TextOnly(t)]
      /\ series' = series /\ t \in Typed
  BY <1>1 DEF EditLocation, Typed, Draft
<1>3. FormTypeOK'
  BY <1>1, <1>2, LocationTypes DEF FormTypeOK, Draft, Event
<1>4. DetailsMeant' /\ RuleMeant' /\ RuleUnknown' /\ GuestsMeant'
  BY <1>1, <1>2 DEF Draft, Event, DraftMeant, DetailsMeant, RuleMeant, RuleUnknown, GuestsMeant
<1>5. PlaceOfEvent'
  BY <1>1, <1>2 DEF Draft, Event, DraftMeant, PlaceOfEvent
<1>6. /\ draft'.text = t /\ ~draft'.picked /\ meant'.location = TextOnly(t)
      /\ draft'.mode = draft.mode
  BY <1>1, <1>2 DEF Draft, Event
<1>7. LocationMeant'
  <2>1. CASE draft'.placeLocation = Blank
    BY <1>6, <2>1 DEF LocationMeant, LocationSent
  <2>2. CASE draft'.placeLocation # Blank
    <3>1. draft'.mode # "create" /\ series.location = Picked(draft'.placeLocation)
      BY <1>5, <1>6, <1>2, <2>2 DEF PlaceOfEvent
    <3>2. series.location.venue # Blank /\ meant'.location # series.location
      BY <3>1, <1>6, <2>2 DEF TextOnly, Picked
    <3>. QED
      BY <3>1, <3>2, <1>2, <1>6 DEF LocationMeant, Altered
  <2>. QED
    BY <2>1, <2>2
<1>. QED
  BY <1>3, <1>4, <1>5, <1>7 DEF FormInv, DraftMeant

LEMMA PickVenueKeeps == ASSUME FormInv, NEW v \in Venues, PickVenue(v)
                        PROVE FormInv'
<1>1. draft \in Draft /\ series \in Event /\ meant \in Event /\ DraftMeant
  BY Drafted DEF PickVenue, DraftEdit
<1>2. /\ draft' = [draft EXCEPT !.placeLocation = v, !.picked = TRUE, !.text = v]
      /\ meant' = [meant EXCEPT !.location = Picked(v)]
      /\ series' = series /\ v \in Typed
  BY DEF PickVenue, Typed
<1>3. FormTypeOK'
  BY <1>1, <1>2, LocationTypes DEF FormTypeOK, Draft, Event
<1>4. DetailsMeant' /\ RuleMeant' /\ RuleUnknown' /\ GuestsMeant'
  BY <1>1, <1>2 DEF Draft, Event, DraftMeant, DetailsMeant, RuleMeant, RuleUnknown, GuestsMeant
<1>5. PlaceOfEvent' /\ LocationMeant'
  BY <1>1, <1>2 DEF Draft, Event, PlaceOfEvent, LocationMeant, LocationSent, Picked, TextOnly
<1>. QED
  BY <1>3, <1>4, <1>5 DEF FormInv, DraftMeant

LEMMA GuestsKeep == ASSUME FormInv, NEW g \in Guests, AddGuest(g) \/ DropGuest(g)
                    PROVE FormInv'
<1>1. draft \in Draft /\ series \in Event /\ meant \in Event /\ DraftMeant
  BY Drafted DEF AddGuest, DropGuest, DraftEdit
<1>2. PICK guests \in SUBSET Guests, wanted \in SUBSET Guests :
        /\ draft' = [draft EXCEPT !.guests = guests]
        /\ meant' = [meant EXCEPT !.guests = wanted]
        /\ draft.guests = meant.guests => guests = wanted
        /\ series' = series
  <2>1. draft.guests \subseteq Guests /\ meant.guests \subseteq Guests
    BY <1>1 DEF Draft, Event
  <2>2. CASE AddGuest(g)
    BY <2>1, <2>2 DEF AddGuest
  <2>3. CASE DropGuest(g)
    BY <2>1, <2>3 DEF DropGuest
  <2>. QED
    BY <2>2, <2>3
<1>3. FormTypeOK'
  BY <1>1, <1>2 DEF FormTypeOK, Draft, Event
<1>4. DetailsMeant' /\ RuleMeant' /\ RuleUnknown' /\ GuestsMeant'
  BY <1>1, <1>2 DEF Draft, Event, DraftMeant, DetailsMeant, RuleMeant, RuleUnknown, GuestsMeant
<1>5. PlaceOfEvent' /\ LocationMeant'
  BY <1>1, <1>2 DEF Draft, Event, DraftMeant, PlaceOfEvent, LocationMeant, LocationSent, Altered
<1>. QED
  BY <1>3, <1>4, <1>5 DEF FormInv, DraftMeant

LEMMA EditSpanKeeps == ASSUME FormInv, EditSpan
                       PROVE FormInv'
<1>1. draft \in Draft /\ series \in Event /\ meant \in Event /\ DraftMeant
  BY Drafted DEF EditSpan, DraftEdit
<1>2. PICK s \in {"timed", "all-day"} : /\ draft' = [draft EXCEPT !.span = s]
                                       /\ meant' = [meant EXCEPT !.span = s]
                                       /\ series' = series
  BY DEF EditSpan
<1>3. FormTypeOK'
  BY <1>1, <1>2 DEF FormTypeOK, Draft, Event
<1>4. DetailsMeant' /\ RuleMeant' /\ RuleUnknown' /\ GuestsMeant'
  BY <1>1, <1>2 DEF Draft, Event, DraftMeant, DetailsMeant, RuleMeant, RuleUnknown, GuestsMeant
<1>5. PlaceOfEvent' /\ LocationMeant'
  BY <1>1, <1>2 DEF Draft, Event, DraftMeant, PlaceOfEvent, LocationMeant, LocationSent, Altered
<1>. QED
  BY <1>3, <1>4, <1>5 DEF FormInv, DraftMeant

LEMMA CloseKeeps == ASSUME FormInv, AbandonDraft \/ SaveDraft
                    PROVE FormInv'
<1>1. series \in Event /\ Stored(draft.mode) \in Event
  BY StoredTyped DEF FormInv, FormTypeOK, AbandonDraft, SaveDraft
<1>2. series' \in Event /\ meant' = series' /\ draft' = NoDraft
  BY <1>1 DEF AbandonDraft, SaveDraft
<1>. QED
  BY <1>2 DEF FormInv, FormTypeOK, NoDraft

LEMMA FormStep == FormInv /\ [FormNext]_formState => FormInv'
<1>. SUFFICES ASSUME FormInv, [FormNext]_formState PROVE FormInv'
  OBVIOUS
<1>1. CASE UNCHANGED formState
  BY <1>1 DEF formState, FormInv, FormTypeOK, DraftMeant, DetailsMeant, RuleMeant, RuleUnknown,
              PlaceOfEvent, LocationMeant, GuestsMeant, LocationSent, Altered
<1>2. CASE FormNext
  BY <1>2, OpenKeeps, EditDetailsKeeps, PickRepeatKeeps, EditLocationKeeps, PickVenueKeeps,
     GuestsKeep, EditSpanKeeps, CloseKeeps DEF FormNext
<1>. QED
  BY <1>1, <1>2

(* The inductive invariant: while the form is open, each of its fields is     *)
(* what the user meant, or one of the losses is certain.                     *)
THEOREM FormInvariant == FormSpec => []FormInv
<1>. QED
  BY FormInit, FormStep, PTL DEF FormSpec

---------------------------------------------------------------------------
(* What a save stores *)

LEMMA SavedField == ASSUME FormInv, SaveDraft, NEW f \in FormFields, ~Loses(f)
                    PROVE made'.what[f] = meant[f]
<1>. DEFINE saved == Stored(draft.mode)
<1>1. draft \in Draft /\ series \in Event /\ meant \in Event /\ DraftMeant
  BY Drafted DEF SaveDraft
<1>2. /\ Body \in Event /\ LocationSent \in Locations /\ made'.what = saved
      /\ draft.mode \in {"create", "edit", "occurrence", "split"}
  BY <1>1, FieldsTyped, SentTyped DEF SaveDraft, FormInv, Draft
<1>3. CASE draft.mode \in {"create", "occurrence"}
  <2>1. saved = Body
    BY <1>3 DEF Stored
  <2>2. Body.details = meant.details /\ Body.span = meant.span
    BY <1>1 DEF Body, DraftMeant, DetailsMeant
  <2>3. Body.rrule = meant.rrule
    BY <1>1, <1>3 DEF Body, DraftMeant, RuleMeant, RuleUnknown, Draft
  <2>4. f = "location" => Body.location = meant.location
    BY <1>1, <1>3 DEF Body, DraftMeant, LocationMeant, Loses
  <2>5. f = "guests" => Body.guests = meant.guests
    BY <1>1, <1>3 DEF Body, DraftMeant, GuestsMeant, Loses
  <2>. QED
    BY <1>2, <2>1, <2>2, <2>3, <2>4, <2>5 DEF FormFields
<1>4. CASE draft.mode \in {"edit", "split"}
  <2>1. /\ Merge(Body, series) \in Event
        /\ saved = [Merge(Body, series) EXCEPT !.rrule = saved.rrule]
    BY <1>1, <1>2, <1>4, MergeTyped DEF Stored, Event
  <2>2. /\ saved.details = Or(draft.details, series.details)
        /\ saved.location = IF LocationSent = NoLocation THEN series.location ELSE LocationSent
        /\ saved.guests = draft.guests /\ saved.span = draft.span
    <3> DEFINE m == Merge(Body, series)
    <3>1. /\ m.details = Or(draft.details, series.details)
          /\ m.location = IF LocationSent = NoLocation THEN series.location ELSE LocationSent
          /\ m.guests = draft.guests /\ m.span = draft.span
      BY DEF Merge, Body
    <3> HIDE DEF m
    <3>2. m \in Event /\ saved = [m EXCEPT !.rrule = saved.rrule]
      BY <2>1 DEF m
    <3> HIDE DEF saved
    <3>3. saved.details = m.details /\ saved.location = m.location /\ saved.guests = m.guests
          /\ saved.span = m.span
      BY <3>2 DEF Event
    <3> QED
      BY <3>1, <3>3
  <2>3. f = "details" => saved.details = meant.details
    BY <1>1, <1>4, <2>2 DEF Or, DraftMeant, DetailsMeant, Loses, Cleared, Altered
  <2>4. f = "location" => saved.location = meant.location
    BY <1>1, <1>4, <2>2 DEF DraftMeant, LocationMeant, Loses, Cleared, Altered
  <2>5. f = "guests" => saved.guests = meant.guests
    BY <1>1, <1>4, <2>2 DEF DraftMeant, GuestsMeant, Loses
  <2>6. saved.span = meant.span
    BY <1>1, <2>2 DEF DraftMeant, DetailsMeant
  <2>7. f = "rrule" => saved.rrule = meant.rrule
    <3>1. CASE draft.mode = "edit"
      BY <1>1, <2>1, <3>1 DEF Stored, Loses, Altered, Event
    <3>2. CASE draft.mode = "split"
      <4>1. saved.rrule = Or(IF draft.rruleUnknown THEN Blank ELSE draft.repeat, series.rrule)
        BY <1>2, <2>1, <3>2 DEF Stored, Merge, Body, Event
      <4>. QED
        BY <1>1, <3>2, <4>1 DEF Or, DraftMeant, RuleMeant, Loses, Altered
    <3>. QED
      BY <1>4, <3>1, <3>2
  <2>. QED
    BY <1>2, <2>3, <2>4, <2>5, <2>6, <2>7 DEF FormFields
<1>. QED
  BY <1>2, <1>3, <1>4

(* saveEvent and the handlers behind it: a save stores every field as the     *)
(* user meant it, but for the losses that Loses names, however the form was   *)
(* edited and for any attendees and places.                                  *)
THEOREM SavesHold == FormSpec => SavedButForLosses
<1>1. FormInv /\ [FormNext]_formState =>
          [made' # made => \A f \in FormFields : Loses(f) \/ made'.what[f] = meant[f]]_formState
  <2>. SUFFICES ASSUME FormInv, FormNext, made' # made
                PROVE  \A f \in FormFields : Loses(f) \/ made'.what[f] = meant[f]
    OBVIOUS
  <2>1. SaveDraft
    BY DEF FormNext, OpenDraft, EditDetails, PickRepeat, EditLocation, PickVenue, AddGuest,
           DropGuest, EditSpan, AbandonDraft
  <2>. QED
    BY <2>1, SavedField
<1>. QED
  BY <1>1, FormInvariant, PTL DEF FormSpec, SavedButForLosses

==============================================================================
