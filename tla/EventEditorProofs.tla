--------------------------- MODULE EventEditorProofs ---------------------------
(***************************************************************************)
(* Theorems of EventEditor, for every set of events and modal openings, any *)
(* number of requests under way and of lost ones: its types, that it         *)
(* implements EventEditing, that typed text is kept, that a form creates one *)
(* event, and that the widget catches up with what was done.                 *)
(***************************************************************************)
EXTENDS EventEditor, SequenceTheorems, TLAPS
LOCAL INSTANCE SequencesExt

Version == 0 .. MaxVersion
Via == {"button", "enter"}

(* What is sent, and what is kept of it once it is answered. *)
SaveArg == {a \in [session : Sessions, mode : Modes, event : Events \cup {None}, base : Version,
                   etag : Version, text : SUBSET Texts, via : Via] :
              /\ a.mode # "create" => a.event \in Events
              /\ a.mode = "edit" => a.etag = a.base}
SavedArg == [session : Sessions, text : SUBSET Texts, via : Via]
DeleteArg == {a \in [event : Events, base : Version, etag : Version,
                     session : Sessions \cup {None}] : a.etag = a.base}

Unanswered(op, args) == [op : {op}, arg : args, at : {"sent", "failed"}]
Answer(op, args, answers) ==
    [op : {op}, arg : args, at : {"answered", "failed"}, ans : answers]
Message == Unanswered("occurrences", {{}}) \cup Answer("occurrences", {{}}, [Events -> Version])
           \cup Unanswered("save", SaveArg) \cup Answer("save", SavedArg, {{}})
           \cup Unanswered("delete", DeleteArg) \cup Answer("delete", DeleteArg, {{}})
           \cup Unanswered("series", Events) \cup Answer("series", Events, {{}})

(* The form of an opened modal is about an event, but for a new one. *)
FormOfEvent == form.open => /\ form.session \in Sessions
                            /\ form.mode # "create" => form.event \in Events

EditorInv == EditorTypeOK /\ net \in Seq(Message) /\ FormOfEvent

LEMMA SettleTyped == ASSUME NEW S, net \in Seq(S), NEW n \in DOMAIN net
                     PROVE  /\ Settle(n) \in Seq(S)
                            /\ Len(Settle(n)) = Len(net) - 1
                            /\ \A k \in 1 .. n - 1 : Settle(n)[k] = net[k]
                            /\ \A k \in n .. Len(net) - 1 : Settle(n)[k] = net[k + 1]
<1>. DEFINE p == SubSeq(net, 1, n - 1)
            q == SubSeq(net, n + 1, Len(net))
<1>1. n \in 1 .. Len(net) /\ Len(net) \in Nat
  BY LenProperties
<1>2. /\ p \in Seq(S) /\ Len(p) = n - 1
      /\ \A k \in 1 .. n - 1 : p[k] = net[k]
  BY <1>1, SubSeqProperties
<1>3. /\ q \in Seq(S) /\ Len(q) = Len(net) - n
      /\ \A k \in 1 .. Len(net) - n : q[k] = net[n + k]
  BY <1>1, SubSeqProperties
<1>4. Settle(n) = p \o q
  BY DEF Settle, RemoveAt
<1>. HIDE DEF p, q
<1>5. /\ p \o q \in Seq(S) /\ Len(p \o q) = Len(p) + Len(q)
      /\ \A k \in 1 .. Len(p) + Len(q) :
            (p \o q)[k] = IF k <= Len(p) THEN p[k] ELSE q[k - Len(p)]
  BY <1>2, <1>3, ConcatProperties
<1>6. Len(p \o q) = Len(net) - 1
  BY <1>1, <1>2, <1>3, <1>5
<1>7. \A k \in 1 .. n - 1 : (p \o q)[k] = net[k]
  BY <1>1, <1>2, <1>3, <1>5
<1>8. \A k \in n .. Len(net) - 1 : (p \o q)[k] = net[k + 1]
  <2>. SUFFICES ASSUME NEW k \in n .. Len(net) - 1
                PROVE  (p \o q)[k] = net[k + 1]
    OBVIOUS
  <2>1. k \in Nat /\ n \in Nat /\ n <= k /\ k <= Len(net) - 1
    BY <1>1
  <2>2. Len(p) = n - 1 /\ Len(p) + Len(q) = Len(net) - 1
    BY <1>1, <1>2, <1>3, <2>1
  <2>3. k \in 1 .. Len(p) + Len(q) /\ ~(k <= Len(p))
    BY <1>1, <2>1, <2>2
  <2>4. (p \o q)[k] = q[k - Len(p)]
    BY <1>5, <2>3
  <2>5. k - Len(p) = k - n + 1 /\ k - n + 1 \in 1 .. Len(net) - n /\ n + (k - n + 1) = k + 1
    BY <1>1, <2>1, <2>2
  <2>6. q[k - n + 1] = net[n + (k - n + 1)]
    BY <1>3, <2>5
  <2>. QED
    BY <2>4, <2>5, <2>6
<1>. QED
  BY <1>4, <1>5, <1>6, <1>7, <1>8

---------------------------------------------------------------------------
(* Messages *)

LEMMA VersionIs == 0 \in Version /\ 1 \in Version /\ 2 \in Version
                   /\ (clock \in 1 .. MaxVersion /\ clock < MaxVersion =>
                          clock + 1 \in Version /\ clock + 1 \in 1 .. MaxVersion)
BY EditorAssumption DEF Version

LEMMA MessageIs ==
    ASSUME NEW m \in Message
    PROVE  /\ m.op \in {"occurrences", "save", "delete", "series"}
           /\ m.at \in {"sent", "answered", "failed"}
           /\ m.op = "occurrences" /\ m.at = "answered" => m.ans \in [Events -> Version]
           /\ m.op = "save" /\ m.at = "sent" => m.arg \in SaveArg
           /\ m.op = "save" /\ m.at # "sent" => m.arg.session \in Sessions
           /\ m.op = "save" /\ m.at = "answered" => m.arg \in SavedArg
           /\ m.op = "delete" => m.arg \in DeleteArg
           /\ m.op = "series" => m.arg \in Events
BY DEF Message, Unanswered, Answer, SaveArg, SavedArg, DeleteArg

(* On its way to the server, and able to replace or delete a whole event. *)
Live(m) == /\ m.at = "sent"
           /\ \/ m.op = "delete"
              \/ m.op = "save" /\ m.arg.mode = "edit"
Edited(m) == <<m.arg.event, m.arg.base>>
EditsOf(q) == {Edited(q[n]) : n \in {k \in DOMAIN q : Live(q[k])}}

LEMMA UnderwayIs == Underway = EditsOf(net) /\ Underway' = EditsOf(net')
BY DEF Underway, EditsOf, Live, Edited, Arrived

LEMMA FailedTyped ==
    ASSUME NEW m \in Message
    PROVE  [m EXCEPT !.at = "failed"] \in Message /\ ~Live([m EXCEPT !.at = "failed"])
<1>1. [m EXCEPT !.at = "failed"].at = "failed"
  BY DEF Message, Unanswered, Answer
<1>2. ASSUME NEW op, NEW args, m \in Unanswered(op, args)
      PROVE  [m EXCEPT !.at = "failed"] \in Unanswered(op, args)
  BY <1>2 DEF Unanswered
<1>3. ASSUME NEW op, NEW args, NEW answers, m \in Answer(op, args, answers)
      PROVE  [m EXCEPT !.at = "failed"] \in Answer(op, args, answers)
  BY <1>3 DEF Answer
<1>. QED
  BY <1>1, <1>2, <1>3 DEF Message, Live

(* What a step of the network does to the edits under way. *)
LEMMA Appended ==
    ASSUME NEW q \in Seq(Message), NEW m \in Message
    PROVE  /\ Append(q, m) \in Seq(Message)
           /\ ~Live(m) => EditsOf(Append(q, m)) = EditsOf(q)
           /\ Live(m) => EditsOf(Append(q, m)) = EditsOf(q) \cup {Edited(m)}
<1>. DEFINE r == Append(q, m)
<1>1. /\ r \in Seq(Message) /\ Len(r) = Len(q) + 1 /\ r[Len(q) + 1] = m
      /\ \A i \in 1 .. Len(q) : r[i] = q[i]
  BY AppendProperties
<1>2. Len(q) \in Nat /\ DOMAIN q = 1 .. Len(q) /\ DOMAIN r = 1 .. Len(q) + 1
  BY <1>1, LenProperties
<1>. HIDE DEF r
<1>3. DOMAIN r = DOMAIN q \cup {Len(q) + 1}
  BY <1>2
<1>. QED
  BY <1>1, <1>2, <1>3 DEF EditsOf, r

LEMMA Replaced ==
    ASSUME NEW q \in Seq(Message), NEW n \in DOMAIN q, NEW m \in Message, ~Live(m)
    PROVE  /\ [q EXCEPT ![n] = m] \in Seq(Message)
           /\ EditsOf([q EXCEPT ![n] = m]) \subseteq EditsOf(q)
           /\ EditsOf(q) \subseteq EditsOf([q EXCEPT ![n] = m]) \cup {Edited(q[n])}
           /\ ~Live(q[n]) => EditsOf([q EXCEPT ![n] = m]) = EditsOf(q)
<1>. DEFINE r == [q EXCEPT ![n] = m]
<1>1. n \in 1 .. Len(q) /\ DOMAIN q = 1 .. Len(q)
  BY LenProperties
<1>2. /\ r \in Seq(Message) /\ DOMAIN r = DOMAIN q
      /\ \A k \in DOMAIN q : r[k] = IF k = n THEN m ELSE q[k]
  BY <1>1, ExceptSeq
<1>. HIDE DEF r
<1>3. \A k \in DOMAIN r : Live(r[k]) => k # n /\ r[k] = q[k]
  BY <1>2
<1>4. \A k \in DOMAIN q : Live(q[k]) => k = n \/ (k \in DOMAIN r /\ r[k] = q[k])
  BY <1>2
<1>5. EditsOf(r) \subseteq EditsOf(q)
  BY <1>2, <1>3 DEF EditsOf
<1>6. EditsOf(q) \subseteq EditsOf(r) \cup {Edited(q[n])}
  BY <1>4 DEF EditsOf
<1>7. ~Live(q[n]) => EditsOf(q) \subseteq EditsOf(r)
  BY <1>4 DEF EditsOf
<1>. QED
  BY <1>2, <1>5, <1>6, <1>7 DEF r

LEMMA Settled ==
    ASSUME net \in Seq(Message), NEW n \in DOMAIN net, ~Live(net[n])
    PROVE  Settle(n) \in Seq(Message) /\ EditsOf(Settle(n)) = EditsOf(net)
<1>. DEFINE r == Settle(n)
<1>1. /\ r \in Seq(Message) /\ Len(r) = Len(net) - 1
      /\ \A k \in 1 .. n - 1 : r[k] = net[k]
      /\ \A k \in n .. Len(net) - 1 : r[k] = net[k + 1]
  BY SettleTyped
<1>2. /\ n \in 1 .. Len(net) /\ Len(net) \in Nat
      /\ DOMAIN net = 1 .. Len(net) /\ DOMAIN r = 1 .. Len(net) - 1
  BY <1>1, LenProperties
<1>. HIDE DEF r
<1>3. \A k \in DOMAIN r : \E l \in DOMAIN net : r[k] = net[l]
  <2>. SUFFICES ASSUME NEW k \in DOMAIN r PROVE \E l \in DOMAIN net : r[k] = net[l]
    OBVIOUS
  <2>1. CASE k < n
    BY <1>1, <1>2, <2>1
  <2>2. CASE ~(k < n)
    <3>1. k \in n .. Len(net) - 1 /\ k + 1 \in DOMAIN net
      BY <1>2, <2>2
    <3>. QED
      BY <1>1, <3>1
  <2>. QED
    BY <2>1, <2>2
<1>4. \A l \in DOMAIN net : l # n => \E k \in DOMAIN r : r[k] = net[l]
  <2>. SUFFICES ASSUME NEW l \in DOMAIN net, l # n PROVE \E k \in DOMAIN r : r[k] = net[l]
    OBVIOUS
  <2>1. CASE l < n
    BY <1>1, <1>2, <2>1
  <2>2. CASE l > n
    <3>1. l - 1 \in n .. Len(net) - 1 /\ l - 1 \in DOMAIN r /\ (l - 1) + 1 = l
      BY <1>2, <2>2
    <3>. QED
      BY <1>1, <3>1
  <2>. QED
    BY <1>2, <2>1, <2>2
<1>5. EditsOf(r) \subseteq EditsOf(net)
  BY <1>3 DEF EditsOf
<1>6. EditsOf(net) \subseteq EditsOf(r)
  BY <1>4 DEF EditsOf
<1>. QED
  BY <1>1, <1>5, <1>6 DEF r

---------------------------------------------------------------------------
(* The four kinds of steps, as EventEditing has them *)

Implemented == [Promise!Next]_(Promise!vars)

LEMMA NothingWritten ==
    ASSUME UNCHANGED <<stored, writer>>, EditsOf(net') \subseteq EditsOf(net)
    PROVE  Implemented
<1>. DEFINE gone == Underway \ Underway'
<1>1. gone \in SUBSET Underway /\ Underway' = Underway \ gone
  BY UnderwayIs
<1>2. Promise!GiveUp(gone)
  BY <1>1 DEF Promise!GiveUp
<1>. QED
  BY <1>1, <1>2 DEF Implemented, Promise!Next

LEMMA EditBegun ==
    ASSUME NEW e \in Events, NEW v \in Version, UNCHANGED <<stored, writer>>,
           EditsOf(net') = EditsOf(net) \cup {<<e, v>>}
    PROVE  Implemented
<1>1. Promise!EditStale(e, v)
  BY UnderwayIs DEF Promise!EditStale
<1>. QED
  BY <1>1 DEF Implemented, Promise!Next, Version

LEMMA EditApplied ==
    ASSUME NEW e \in Events, NEW v \in Version, <<e, stored[e]>> \in EditsOf(net),
           Write(e, v, "editor"), EditsOf(net') \subseteq EditsOf(net),
           EditsOf(net) \subseteq EditsOf(net') \cup {<<e, stored[e]>>}
    PROVE  Implemented
<1>1. Underway' \in {Underway, Underway \ {<<e, stored[e]>>}}
  BY UnderwayIs
<1>2. Promise!Apply(e, v)
  BY <1>1, UnderwayIs DEF Promise!Apply, Write
<1>. QED
  BY <1>2 DEF Implemented, Promise!Next, Version

LEMMA WrittenUnseen ==
    ASSUME NEW e \in Events, NEW v \in Version, NEW who \in {"series", "other"},
           Write(e, v, who), EditsOf(net') = EditsOf(net)
    PROVE  Implemented
<1>1. Promise!WriteUnseen(e, v)
  BY UnderwayIs DEF Promise!WriteUnseen, Write
<1>. QED
  BY <1>1 DEF Implemented, Promise!Next, Version

---------------------------------------------------------------------------
(* The steps of the editor *)

Kept == EditorInv' /\ Implemented

(* Nothing changes but messages, popup and page. *)
LEMMA EditorIdle ==
    ASSUME EditorInv, UNCHANGED editor, net' \in Seq(Message),
           EditsOf(net') \subseteq EditsOf(net)
    PROVE  Kept
<1>1. EditorInv'
  BY DEF EditorInv, EditorTypeOK, FormOfEvent, editor
<1>. QED
  BY <1>1, NothingWritten DEF Kept, editor

LEMMA OccurrencesTyped == Occurrences \in Message /\ ~Live(Occurrences)
BY DEF Occurrences, Request, Message, Unanswered, Live

LEMMA Refreshed == ASSUME NEW rest \in Seq(Message), Refresh(rest), late \in BOOLEAN
                   PROVE  /\ net' \in Seq(Message) /\ EditsOf(net') = EditsOf(rest)
                          /\ late' \in BOOLEAN
BY Appended, OccurrencesTyped DEF Refresh

LEMMA NavigateKeeps == EditorInv /\ Navigate => Kept
<1>. SUFFICES ASSUME EditorInv, Navigate PROVE Kept
  OBVIOUS
<1>1. net' \in Seq(Message) /\ EditsOf(net') = EditsOf(net) /\ late' \in BOOLEAN
  BY Refreshed DEF Navigate, EditorInv, EditorTypeOK
<1>2. EditorInv'
  BY <1>1 DEF Navigate, EditorInv, EditorTypeOK, FormOfEvent
<1>. QED
  BY <1>1, <1>2, NothingWritten DEF Kept, Navigate

(* Answers: a message of net is replaced by one that is no longer live. *)
LEMMA AnswerKeeps ==
    ASSUME EditorInv, UNCHANGED editor, NEW n \in DOMAIN net, NEW m \in Message, ~Live(m),
           net' = [net EXCEPT ![n] = m]
    PROVE  Kept
BY Replaced, EditorIdle DEF EditorInv

LEMMA ElementTyped == ASSUME net \in Seq(Message), NEW n \in DOMAIN net
                      PROVE  net[n] \in Message
BY ElementOfSeq, LenProperties

LEMMA ReplyTyped ==
    ASSUME net \in Seq(Message), NEW n \in DOMAIN net, NEW answer,
           \/ Arrived(n, "occurrences") /\ answer \in [Events -> Version]
           \/ Arrived(n, "delete") /\ answer = {}
           \/ Arrived(n, "series") /\ answer = {}
    PROVE  \E m \in Message : ~Live(m) /\ Reply(n, answer) = [net EXCEPT ![n] = m]
<1>. DEFINE m == [op |-> net[n].op, arg |-> net[n].arg, at |-> "answered", ans |-> answer]
<1>1. net[n] \in Message /\ net[n].at = "sent"
  BY ElementTyped DEF Arrived
<1>2. m \in Message
  <2>1. CASE Arrived(n, "occurrences") /\ answer \in [Events -> Version]
    <3>1. net[n].arg = {}
      BY <1>1, <2>1 DEF Message, Unanswered, Answer, Arrived
    <3>. QED
      BY <2>1, <3>1 DEF Message, Answer, Arrived
  <2>2. CASE Arrived(n, "delete") /\ answer = {}
    <3>1. net[n].arg \in DeleteArg
      BY <1>1, <2>2, MessageIs DEF Arrived
    <3>. QED
      BY <2>2, <3>1 DEF Message, Answer, Arrived
  <2>3. CASE Arrived(n, "series") /\ answer = {}
    <3>1. net[n].arg \in Events
      BY <1>1, <2>3, MessageIs DEF Arrived
    <3>. QED
      BY <2>3, <3>1 DEF Message, Answer, Arrived
  <2>. QED
    BY <2>1, <2>2, <2>3
<1>. QED
  BY <1>2 DEF Reply, Live

LEMMA ServeOccurrencesKeeps ==
    ASSUME EditorInv, NEW n \in DOMAIN net, ServeOccurrences(n)
    PROVE  Kept
<1>1. /\ net \in Seq(Message) /\ Arrived(n, "occurrences") /\ net' = Reply(n, stored)
      /\ UNCHANGED editor /\ stored \in [Events -> Version]
  BY DEF ServeOccurrences, EditorInv, EditorTypeOK, Version
<1>2. PICK m \in Message : ~Live(m) /\ net' = [net EXCEPT ![n] = m]
  BY <1>1, ReplyTyped
<1>. QED
  BY <1>1, <1>2, AnswerKeeps

LEMMA RejectKeeps ==
    ASSUME EditorInv, NEW n \in DOMAIN net, net' = Reject(n), UNCHANGED editor
    PROVE  Kept
<1>1. net[n] \in Message
  BY ElementTyped DEF EditorInv
<1>2. net' = [net EXCEPT ![n] = [net[n] EXCEPT !.at = "failed"]]
  BY DEF Reject
<1>. QED
  BY <1>1, <1>2, FailedTyped, AnswerKeeps

LEMMA ShowOccurrencesKeeps ==
    ASSUME EditorInv, NEW n \in DOMAIN net, ShowOccurrences(n)
    PROVE  Kept
<1>1. net[n] \in Message /\ net[n].op = "occurrences" /\ net[n].at = "answered"
  BY ElementTyped DEF EditorInv, ShowOccurrences, Answered
<1>2. net[n].ans \in [Events -> Version] /\ ~Live(net[n])
  BY <1>1, MessageIs DEF Live
<1>3. net' \in Seq(Message) /\ EditsOf(net') = EditsOf(net)
  BY <1>2, Settled DEF ShowOccurrences, EditorInv
<1>4. cache' \in [Events -> 0 .. MaxVersion] /\ grid' \subseteq Events /\ late' \in BOOLEAN
  BY <1>2 DEF ShowOccurrences, EditorInv, EditorTypeOK, Version, Overtakes
<1>5. EditorInv'
  BY <1>3, <1>4 DEF ShowOccurrences, EditorInv, EditorTypeOK, FormOfEvent
<1>. QED
  BY <1>3, <1>5, NothingWritten DEF Kept, ShowOccurrences

(* The modal, on its own. *)
LEMMA ModalKeeps ==
    ASSUME EditorInv, UNCHANGED <<net, stored, writer, clock, cache, grid, late>>,
           form' \in [open : BOOLEAN, mode : Modes, event : Events \cup {None},
                      etag : Version, dirty : BOOLEAN, text : SUBSET Texts, raced : BOOLEAN,
                      session : Sessions \cup {None}],
           FormOfEvent', created' \subseteq Sessions, doubled' \subseteq Sessions
    PROVE  Kept
<1>1. EditorInv'
  BY DEF EditorInv, EditorTypeOK, Version
<1>. QED
  BY <1>1, NothingWritten DEF Kept

LEMMA OpenKeeps ==
    ASSUME EditorInv, NEW mode \in Modes, NEW e \in Events \cup {None}, NEW v \in Version,
           mode # "create" => e \in Events, Open(mode, e, v),
           UNCHANGED <<web, stored, writer, clock, cache, grid, late>>
    PROVE  Kept
<1>1. PICK s \in Sessions :
        form' = [open |-> TRUE, mode |-> mode, event |-> e,
                 etag |-> IF mode = "edit" THEN v ELSE 0,
                 dirty |-> FALSE, text |-> {}, raced |-> FALSE, session |-> s]
  BY DEF Open
<1>2. created' \subseteq Sessions /\ doubled' \subseteq Sessions
  BY DEF Open, EditorInv, EditorTypeOK
<1>3. FormOfEvent'
  BY <1>1 DEF FormOfEvent
<1>. QED
  BY <1>1, <1>2, <1>3, ModalKeeps, VersionIs DEF web

LEMMA AddKeeps == EditorInv /\ Add => Kept
BY OpenKeeps, VersionIs DEF Add, Modes, Version

LEMMA EditKeeps == ASSUME EditorInv, NEW mode \in {"edit", "occurrence", "split"},
                          NEW e \in Events, Edit(mode, e)
                   PROVE  Kept
<1>1. Seen(e) \in Version
  BY DEF Seen, EditorInv, EditorTypeOK, Version
<1>. QED
  BY <1>1, OpenKeeps DEF Edit, Modes

LEMMA TypeKeeps == ASSUME EditorInv, NEW where \in Texts, Type(where)
                   PROVE  Kept
<1>1. Waiting(Writes) \in BOOLEAN
  BY DEF Waiting
<1>. QED
  BY <1>1, ModalKeeps DEF Type, EditorInv, EditorTypeOK, FormOfEvent, Version, web

LEMMA ClosedTyped ==
    /\ ClosedForm \in [open : BOOLEAN, mode : Modes, event : Events \cup {None},
                       etag : Version, dirty : BOOLEAN, text : SUBSET Texts, raced : BOOLEAN,
                       session : Sessions \cup {None}]
    /\ ~ClosedForm.open
BY VersionIs DEF ClosedForm, Modes

LEMMA CloseKeeps ==
    ASSUME EditorInv, Close \/ UNCHANGED form,
           UNCHANGED <<net, stored, writer, clock, cache, grid, late, created, doubled>>
    PROVE  Kept
<1>1. CASE Close
  BY <1>1, ModalKeeps, ClosedTyped DEF Close, EditorInv, EditorTypeOK, FormOfEvent
<1>2. CASE UNCHANGED form
  BY <1>2, ModalKeeps DEF EditorInv, EditorTypeOK, FormOfEvent, Version
<1>. QED
  BY <1>1, <1>2

LEMMA CancelKeeps == EditorInv /\ (Cancel \/ Discard) => Kept
BY CloseKeeps DEF Cancel, Discard

(* A whole event is edited with the version its form was filled from. *)
LEMMA SaveKeeps == ASSUME EditorInv, NEW via \in Via, Save(via)
                   PROVE  Kept
<1>. DEFINE arg == [session |-> form.session, mode |-> form.mode, event |-> form.event,
                    base |-> form.etag, etag |-> form.etag, text |-> form.text, via |-> via]
            m == Request("save", arg)
<1>1. /\ net \in Seq(Message) /\ net' = Append(net, m)
      /\ UNCHANGED <<stored, writer, clock, cache, grid, form, created, late>>
  BY DEF Save, EditorInv
<1>2. /\ form.session \in Sessions /\ form.mode \in Modes /\ form.event \in Events \cup {None}
      /\ form.etag \in Version /\ form.text \subseteq Texts
      /\ form.mode # "create" => form.event \in Events
  BY DEF Save, EditorInv, EditorTypeOK, FormOfEvent, Version
<1>3. arg \in SaveArg
  BY <1>2 DEF SaveArg
<1>. HIDE DEF arg
<1>4. m \in Message /\ (Live(m) <=> arg.mode = "edit")
  BY <1>3 DEF Message, Unanswered, Request, Live
<1>5. doubled' \subseteq Sessions
  BY <1>2 DEF Save, EditorInv, EditorTypeOK
<1>6. net' \in Seq(Message)
  BY <1>1, <1>4, Appended
<1>7. EditorInv'
  BY <1>1, <1>5, <1>6 DEF EditorInv, EditorTypeOK, FormOfEvent
<1>8. CASE form.mode = "edit"
  <2>1. Live(m) /\ Edited(m) = <<form.event, form.etag>> /\ form.event \in Events
    BY <1>2, <1>4, <1>8 DEF arg, Edited, Request
  <2>2. EditsOf(net') = EditsOf(net) \cup {<<form.event, form.etag>>}
    BY <1>1, <1>4, <2>1, Appended
  <2>. QED
    BY <1>1, <1>2, <1>7, <2>1, <2>2, EditBegun DEF Kept
<1>9. CASE form.mode # "edit"
  <2>1. EditsOf(net') = EditsOf(net)
    BY <1>1, <1>4, <1>9, Appended DEF arg
  <2>. QED
    BY <1>1, <1>7, <2>1, NothingWritten DEF Kept
<1>. QED
  BY <1>8, <1>9

LEMMA DeletionKeeps ==
    ASSUME EditorInv, NEW e \in Events, NEW v \in Version, NEW s \in Sessions \cup {None},
           net' = Deletion(e, v, s), UNCHANGED editor
    PROVE  Kept
<1>. DEFINE m == Request("delete", [event |-> e, base |-> v, etag |-> v, session |-> s])
<1>1. m \in Message /\ Live(m) /\ Edited(m) = <<e, v>>
  BY DEF Message, Unanswered, DeleteArg, Request, Live, Edited
<1>2. net' \in Seq(Message) /\ EditsOf(net') = EditsOf(net) \cup {<<e, v>>}
  BY <1>1, Appended DEF Deletion, EditorInv
<1>3. EditorInv'
  BY <1>2 DEF EditorInv, EditorTypeOK, FormOfEvent, editor
<1>. QED
  BY <1>2, <1>3, EditBegun DEF Kept, editor

LEMMA DeleteKeeps == EditorInv /\ Delete => Kept
<1>. SUFFICES ASSUME EditorInv, Delete PROVE Kept
  OBVIOUS
<1>1. CASE form.open /\ form.mode = "edit" /\ net' = Deletion(form.event, form.etag, form.session)
  BY <1>1, DeletionKeeps DEF Delete, EditorInv, EditorTypeOK, FormOfEvent, Version
<1>2. CASE \E e \in grid : net' = Deletion(e, Seen(e), None)
  <2>1. PICK e \in Events : net' = Deletion(e, Seen(e), None)
    BY <1>2 DEF EditorInv, EditorTypeOK
  <2>2. Seen(e) \in Version
    BY DEF Seen, EditorInv, EditorTypeOK, Version
  <2>. QED
    BY <2>1, <2>2, DeletionKeeps DEF Delete
<1>. QED
  BY <1>1, <1>2 DEF Delete

LEMMA DeletePartKeeps == ASSUME EditorInv, NEW e \in Events, DeletePart(e)
                         PROVE  Kept
<1>1. Request("series", e) \in Message /\ ~Live(Request("series", e))
  BY DEF Message, Unanswered, Request, Live
<1>2. net' \in Seq(Message) /\ EditsOf(net') = EditsOf(net)
  BY <1>1, Appended DEF DeletePart, EditorInv
<1>. QED
  BY <1>2, EditorIdle DEF DeletePart

---------------------------------------------------------------------------
(* The server *)

LEMMA ServedTyped ==
    ASSUME net \in Seq(Message), NEW n \in DOMAIN net, Arrived(n, "save"),
           NEW at \in {"answered", "failed"}
    PROVE  \E m \in Message : ~Live(m) /\ Served(n, at) = [net EXCEPT ![n] = m]
<1>. DEFINE m == [op |-> "save", at |-> at, ans |-> {},
                  arg |-> [session |-> net[n].arg.session, text |-> net[n].arg.text,
                           via |-> net[n].arg.via]]
<1>1. net[n].arg \in SaveArg
  BY ElementTyped, MessageIs DEF Arrived
<1>2. m \in Message
  BY <1>1 DEF Message, Answer, SaveArg, SavedArg
<1>. QED
  BY <1>2 DEF Served, Live

(* A write, whoever made it. *)
LEMMA WriteTyped ==
    ASSUME EditorInv, NEW e \in Events, NEW v \in Version,
           NEW who \in {"editor", "series", "other"}, Write(e, v, who), clock < MaxVersion,
           net' \in Seq(Message), created' \subseteq Sessions,
           UNCHANGED <<cache, grid, form, doubled, late>>
    PROVE  EditorInv'
<1>1. clock' \in 1 .. MaxVersion
  BY VersionIs DEF Write, EditorInv, EditorTypeOK
<1>2. stored' \in [Events -> 0 .. MaxVersion] /\ writer' \in [Events -> {"editor", "series", "other"}]
  BY DEF Write, EditorInv, EditorTypeOK, Version
<1>. QED
  BY <1>1, <1>2 DEF EditorInv, EditorTypeOK, FormOfEvent

LEMMA ApplySaveKeeps ==
    ASSUME EditorInv, NEW n \in DOMAIN net, ApplySave(n)
    PROVE  Kept
<1>. DEFINE r == net[n].arg
<1>1. /\ net \in Seq(Message) /\ net[n] \in Message /\ Arrived(n, "save")
      /\ clock < MaxVersion /\ clock \in 1 .. MaxVersion
  BY ElementTyped DEF ApplySave, EditorInv, EditorTypeOK
<1>2. r \in SaveArg /\ clock + 1 \in Version
  BY <1>1, MessageIs, VersionIs DEF Arrived
<1>3. PICK m \in Message : ~Live(m) /\ net' = [net EXCEPT ![n] = m]
  BY <1>1, ServedTyped DEF ApplySave
<1>4. /\ net' \in Seq(Message) /\ EditsOf(net') \subseteq EditsOf(net)
      /\ EditsOf(net) \subseteq EditsOf(net') \cup {Edited(net[n])}
      /\ ~Live(net[n]) => EditsOf(net') = EditsOf(net)
  BY <1>1, <1>3, Replaced
<1>5. r.session \in Sessions /\ UNCHANGED <<cache, grid, form, doubled, late>>
  BY <1>2 DEF ApplySave, SaveArg
<1>6. CASE r.mode = "create" /\ Create(r.session) /\ UNCHANGED <<stored, writer, clock>>
  <2>1. EditorInv'
    BY <1>4, <1>5, <1>6 DEF Create, EditorInv, EditorTypeOK, FormOfEvent
  <2>. QED
    BY <1>4, <1>6, <2>1, NothingWritten DEF Kept
<1>7. CASE r.mode = "edit" /\ Write(r.event, clock + 1, "editor") /\ UNCHANGED created
  <2>1. r.event \in Events /\ stored[r.event] = r.base
    BY <1>2, <1>7 DEF ApplySave, Accepts, SaveArg
  <2>2. Live(net[n]) /\ Edited(net[n]) = <<r.event, stored[r.event]>>
    BY <1>1, <1>7, <2>1 DEF Live, Edited, Arrived
  <2>3. <<r.event, stored[r.event]>> \in EditsOf(net)
    BY <2>2 DEF EditsOf
  <2>4. EditorInv'
    BY <1>1, <1>2, <1>4, <1>5, <1>7, <2>1, WriteTyped DEF EditorInv, EditorTypeOK
  <2>. QED
    BY <1>2, <1>4, <1>7, <2>1, <2>2, <2>3, <2>4, EditApplied DEF Kept
<1>8. CASE /\ r.mode \in {"occurrence", "split"} /\ Write(r.event, clock + 1, "series")
           /\ Create(r.session) \/ UNCHANGED created
  <2>1. r.event \in Events /\ ~Live(net[n])
    BY <1>1, <1>2, <1>8 DEF SaveArg, Live, Arrived
  <2>2. created' \subseteq Sessions
    BY <1>5, <1>8 DEF Create, EditorInv, EditorTypeOK
  <2>3. EditorInv'
    BY <1>1, <1>2, <1>4, <1>5, <1>8, <2>1, <2>2, WriteTyped
  <2>. QED
    BY <1>2, <1>4, <1>8, <2>1, <2>3, WrittenUnseen DEF Kept
<1>. QED
  BY <1>6, <1>7, <1>8 DEF ApplySave

LEMMA RefuseSaveKeeps ==
    ASSUME EditorInv, NEW n \in DOMAIN net, RefuseSave(n)
    PROVE  Kept
<1>1. PICK m \in Message : ~Live(m) /\ net' = [net EXCEPT ![n] = m]
  BY ServedTyped DEF RefuseSave, EditorInv
<1>. QED
  BY <1>1, AnswerKeeps DEF RefuseSave

(* If-Match: the version that goes is the one the user had. *)
LEMMA ServeDeleteKeeps ==
    ASSUME EditorInv, NEW n \in DOMAIN net, ServeDelete(n)
    PROVE  Kept
<1>. DEFINE r == net[n].arg
<1>1. /\ net \in Seq(Message) /\ net[n] \in Message /\ Arrived(n, "delete")
      /\ UNCHANGED <<faults, popup, page, cache, grid, form, created, doubled, late>>
  BY ElementTyped DEF ServeDelete, EditorInv
<1>2. r \in DeleteArg
  BY <1>1, MessageIs DEF Arrived
<1>3. CASE /\ stored[r.event] # 0 /\ stored[r.event] = r.etag
           /\ clock < MaxVersion /\ net' = Reply(n, {}) /\ Write(r.event, 0, "editor")
  <2>2. PICK m \in Message : ~Live(m) /\ net' = [net EXCEPT ![n] = m]
    BY <1>1, <1>3, ReplyTyped
  <2>3. /\ net' \in Seq(Message) /\ EditsOf(net') \subseteq EditsOf(net)
        /\ EditsOf(net) \subseteq EditsOf(net') \cup {Edited(net[n])}
    BY <1>1, <2>2, Replaced
  <2>4. r.event \in Events /\ Live(net[n]) /\ Edited(net[n]) = <<r.event, stored[r.event]>>
    BY <1>1, <1>2, <1>3 DEF Live, Edited, Arrived, DeleteArg
  <2>5. <<r.event, stored[r.event]>> \in EditsOf(net)
    BY <2>4 DEF EditsOf
  <2>6. EditorInv'
    BY <1>1, <1>3, <2>3, <2>4, VersionIs, WriteTyped DEF EditorInv, EditorTypeOK
  <2>. QED
    BY <1>3, <2>3, <2>4, <2>5, <2>6, VersionIs, EditApplied DEF Kept
<1>4. CASE net' = Reject(n) /\ UNCHANGED <<stored, writer, clock>>
  BY <1>1, <1>4, RejectKeeps DEF editor
<1>. QED
  BY <1>3, <1>4 DEF ServeDelete

LEMMA ServeSeriesKeeps ==
    ASSUME EditorInv, NEW n \in DOMAIN net, ServeSeries(n)
    PROVE  Kept
<1>. DEFINE e == net[n].arg
<1>1. /\ net \in Seq(Message) /\ net[n] \in Message /\ Arrived(n, "series")
      /\ UNCHANGED <<faults, popup, page, cache, grid, form, created, doubled, late>>
  BY ElementTyped DEF ServeSeries, EditorInv
<1>2. e \in Events
  BY <1>1, MessageIs DEF Arrived
<1>3. CASE clock < MaxVersion /\ net' = Reply(n, {}) /\ Write(e, clock + 1, "series")
  <2>2. PICK m \in Message : ~Live(m) /\ net' = [net EXCEPT ![n] = m]
    BY <1>1, <1>3, ReplyTyped
  <2>3. ~Live(net[n])
    BY <1>1 DEF Live, Arrived
  <2>4. net' \in Seq(Message) /\ EditsOf(net') = EditsOf(net)
    BY <1>1, <2>2, <2>3, Replaced
  <2>5. clock + 1 \in Version
    BY <1>3, VersionIs DEF EditorInv, EditorTypeOK
  <2>6. EditorInv'
    BY <1>1, <1>2, <1>3, <2>4, <2>5, WriteTyped DEF EditorInv, EditorTypeOK
  <2>. QED
    BY <1>2, <1>3, <2>4, <2>5, <2>6, WrittenUnseen DEF Kept
<1>4. CASE net' = Reject(n) /\ UNCHANGED <<stored, writer, clock>>
  BY <1>1, <1>4, RejectKeeps DEF editor
<1>. QED
  BY <1>3, <1>4 DEF ServeSeries

LEMMA OthersWriteKeeps == ASSUME EditorInv, NEW e \in Events, OthersWrite(e)
                          PROVE  Kept
<1>1. PICK v \in {0, clock + 1} : Write(e, v, "other")
  BY DEF OthersWrite
<1>2. v \in Version /\ net' = net
  BY VersionIs DEF OthersWrite, EditorInv, EditorTypeOK, web
<1>3. EditorInv'
  BY <1>1, <1>2, WriteTyped DEF OthersWrite, EditorInv, EditorTypeOK
<1>. QED
  BY <1>1, <1>2, <1>3, WrittenUnseen DEF Kept

---------------------------------------------------------------------------
(* Answers *)

LEMMA FinishKeeps ==
    ASSUME EditorInv, NEW n \in DOMAIN net, ~Live(net[n]), Finish(n)
    PROVE  Kept
<1>1. Settle(n) \in Seq(Message) /\ EditsOf(Settle(n)) = EditsOf(net)
  BY Settled DEF EditorInv
<1>2. net' \in Seq(Message) /\ EditsOf(net') = EditsOf(net) /\ late' \in BOOLEAN
  BY <1>1, Refreshed DEF Finish, EditorInv, EditorTypeOK
<1>3. EditorInv'
  BY <1>2, ClosedTyped DEF Finish, Close, EditorInv, EditorTypeOK, FormOfEvent, Version
<1>. QED
  BY <1>2, <1>3, NothingWritten DEF Kept, Finish

LEMMA PartDeletedKeeps ==
    ASSUME EditorInv, NEW n \in DOMAIN net, PartDeleted(n)
    PROVE  Kept
<1>1. Settle(n) \in Seq(Message) /\ EditsOf(Settle(n)) = EditsOf(net)
  BY Settled DEF PartDeleted, Answered, Live, EditorInv
<1>2. net' \in Seq(Message) /\ EditsOf(net') = EditsOf(net) /\ late' \in BOOLEAN
  BY <1>1, Refreshed DEF PartDeleted, EditorInv, EditorTypeOK
<1>3. EditorInv'
  BY <1>2 DEF PartDeleted, EditorInv, EditorTypeOK, FormOfEvent
<1>. QED
  BY <1>2, <1>3, NothingWritten DEF Kept, PartDeleted

LEMMA EditorFailedKeeps ==
    ASSUME EditorInv, NEW n \in DOMAIN net, EditorFailed(n)
    PROVE  Kept
<1>1. net' = Settle(n) /\ net[n].at = "failed" /\ UNCHANGED editor
  BY DEF EditorFailed, ShowError, Ignore, Failed
<1>2. net' \in Seq(Message) /\ EditsOf(net') = EditsOf(net)
  BY <1>1, Settled DEF Live, EditorInv
<1>. QED
  BY <1>1, <1>2, EditorIdle

LEMMA LoseKeeps ==
    ASSUME EditorInv, NEW n \in DOMAIN net, LoseEditorAnswer(n)
    PROVE  Kept
<1>1. /\ net[n] \in Message /\ net' = [net EXCEPT ![n] = [net[n] EXCEPT !.at = "failed"]]
      /\ UNCHANGED <<stored, writer, clock, cache, grid, form, created, late>>
  BY ElementTyped DEF LoseEditorAnswer, Lose, Reject, EditorInv
<1>2. net' \in Seq(Message) /\ EditsOf(net') \subseteq EditsOf(net)
  BY <1>1, FailedTyped, Replaced DEF EditorInv
<1>3. Answered(n, "save") => net[n].arg.session \in Sessions
  BY <1>1, MessageIs DEF Answered
<1>4. doubled' \subseteq Sessions
  BY <1>3 DEF LoseEditorAnswer, EditorInv, EditorTypeOK
<1>5. EditorInv'
  BY <1>1, <1>2, <1>4 DEF EditorInv, EditorTypeOK, FormOfEvent
<1>. QED
  BY <1>1, <1>2, <1>5, NothingWritten DEF Kept

LEMMA SessionExpiredKeeps ==
    ASSUME EditorInv, NEW n \in DOMAIN net, SessionExpired(n), UNCHANGED editor
    PROVE  Kept
<1>1. net' = <<>>
  BY DEF SessionExpired
<1>2. net' \in Seq(Message) /\ EditsOf(net') = {}
  BY <1>1, EmptySeq DEF EditsOf
<1>. QED
  BY <1>2, EditorIdle

---------------------------------------------------------------------------
LEMMA EditorStarts == EditorInit => EditorInv /\ Promise!Init
<1>. SUFFICES ASSUME EditorInit PROVE EditorInv /\ Promise!Init
  OBVIOUS
<1>1. net \in Seq(Message) /\ Underway = {}
  BY EmptySeq DEF EditorInit, WebInit, Underway
<1>2. stored \in [Events -> Version] /\ cache \in [Events -> Version] /\ clock \in 1 .. MaxVersion
  BY EditorAssumption, VersionIs DEF EditorInit, Version
<1>3. EditorInv
  BY <1>1, <1>2, ClosedTyped DEF EditorInit, EditorInv, EditorTypeOK, FormOfEvent, Version
<1>. QED
  BY <1>1, <1>2, <1>3 DEF Promise!Init, EditorInit, Version

LEMMA EditorStep == EditorInv /\ [EditorNext]_editorVars => Kept
<1>. SUFFICES ASSUME EditorInv, [EditorNext]_editorVars PROVE Kept
  OBVIOUS
<1>1. CASE UNCHANGED editorVars
  BY <1>1, EditorIdle DEF editorVars, web, EditorInv
<1>2. CASE Navigate \/ Add \/ Cancel \/ Discard \/ Delete
  BY <1>2, NavigateKeeps, AddKeeps, CancelKeeps, DeleteKeeps
<1>3. CASE \E e \in Events : DeletePart(e) \/ OthersWrite(e)
  BY <1>3, DeletePartKeeps, OthersWriteKeeps
<1>4. CASE \E mode \in {"edit", "occurrence", "split"}, e \in Events : Edit(mode, e)
  BY <1>4, EditKeeps
<1>5. CASE \E where \in Texts : Type(where)
  BY <1>5, TypeKeeps
<1>6. CASE \E via \in {"button", "enter"} : Save(via)
  BY <1>6, SaveKeeps DEF Via
<1>7. ASSUME NEW n \in DOMAIN net,
             \/ ServeOccurrences(n) \/ ApplySave(n) \/ RefuseSave(n) \/ ServeDelete(n)
             \/ ServeSeries(n)
      PROVE  Kept
  BY <1>7, ServeOccurrencesKeeps, ApplySaveKeeps, RefuseSaveKeeps, ServeDeleteKeeps,
     ServeSeriesKeeps
<1>8. ASSUME NEW n \in DOMAIN net,
             \/ ShowOccurrences(n) \/ Saved(n) \/ Deleted(n) \/ PartDeleted(n)
             \/ EditorFailed(n) \/ LoseEditorAnswer(n)
             \/ SessionExpired(n) /\ UNCHANGED editor
      PROVE  Kept
  <2>1. CASE Saved(n) \/ Deleted(n)
    BY <2>1, FinishKeeps DEF Saved, Deleted, Answered, Live
  <2>. QED
    BY <1>8, <2>1, ShowOccurrencesKeeps, PartDeletedKeeps, EditorFailedKeeps, LoseKeeps,
       SessionExpiredKeeps
<1>9. CASE Dismiss /\ UNCHANGED editor
  BY <1>9, EditorIdle DEF Dismiss, EditorInv
<1>. QED
  BY <1>1, <1>2, <1>3, <1>4, <1>5, <1>6, <1>7, <1>8, <1>9 DEF EditorNext

(* The inductive invariant: besides the types, what every message carries. *)
THEOREM EditorInvariant == EditorSpec => []EditorInv
<1>. QED
  BY EditorStarts, EditorStep, PTL DEF EditorSpec, Kept

(* app.js: the state of the modal, of the calendar widget and of its cache    *)
(* keep their types, for any events and any number of openings; every save    *)
(* and every creation belongs to an opening of the modal.                    *)
THEOREM EditorTypes == EditorSpec => []EditorTypeOK
<1>. QED
  BY EditorInvariant, PTL DEF EditorInv

(* If-Match of saveEvent and deleteEvent: for any events, any number of       *)
(* requests under way, lost answers and answers out of order, a save or a     *)
(* deletion of a whole event replaces the version the user had before his     *)
(* eyes.                                                                      *)
THEOREM EditorImplements == EditorSpec => ImplementsEventEditing
<1>. QED
  BY EditorInvariant, EditorStarts, EditorStep, PTL
     DEF EditorSpec, Kept, Implemented, ImplementsEventEditing, Promise!Spec

---------------------------------------------------------------------------
(* What is typed, created and shown: invariants that relate the modal, the    *)
(* calendar widget and the server to what is under way.                      *)

IsWrite(m) == m.op \in {"save", "delete"}

(* A form with text that nothing has overtaken: what is under way is about  *)
(* that form, with that text.                                               *)
OwnWrite(m) == /\ m.arg.session = form.session
               /\ m.op = "save" => m.arg.text = form.text
TextGuarded ==
    form.open /\ "fields" \in form.text =>
        /\ form.dirty
        /\ ~form.raced => \A n \in DOMAIN net : IsWrite(net[n]) => OwnWrite(net[n])

(* Of a form that was not submitted twice at most one save can still create *)
(* an event; when one has, none can, and the form that is still open waits   *)
(* for the answer.                                                          *)
SavePending(m, s) == m.op = "save" /\ m.at = "sent" /\ m.arg.session = s
SaveAnswered(m, s) == m.op = "save" /\ m.at = "answered" /\ m.arg.session = s
OnePending ==
    \A s \in Sessions \ doubled :
        \A n, m \in DOMAIN net : SavePending(net[n], s) /\ SavePending(net[m], s) => n = m
NonePending == \A s \in created \ doubled : \A n \in DOMAIN net : ~SavePending(net[n], s)
AnswerAwaited ==
    page = "open" /\ form.open /\ form.session \in created \ doubled =>
        \E n \in DOMAIN net : SaveAnswered(net[n], form.session)
Submissions == OnePending /\ NonePending /\ AnswerAwaited

(* What the widget shows of e, or is going to show when what is under way    *)
(* has been handled: after a write that was answered it will be refreshed,    *)
(* and the last refresh decides, whatever it is when late is set.            *)
Reloads(m) == m.op = "occurrences"
WillReload == \E n \in DOMAIN net : net[n].op \in Writes /\ net[n].at = "answered"
WillShow(e) ==
    \E n \in DOMAIN net :
       /\ Reloads(net[n])
       /\ \/ late
          \/ /\ \A m \in DOMAIN net : Reloads(net[m]) => m <= n
             /\ net[n].at = "answered" => net[n].ans[e] = stored[e]
Shown(e) == /\ e \in grid <=> stored[e] # 0
            /\ stored[e] # 0 => cache[e] = stored[e]
IsShown(e) == (\A n \in DOMAIN net : ~Reloads(net[n])) /\ (late \/ Shown(e))
NoneFailed == \A n \in DOMAIN net : Reloads(net[n]) => net[n].at # "failed"
UpToDate == \A e \in Events : writer[e] # "other" => WillReload \/ WillShow(e) \/ IsShown(e)
CatchesUp == faults \in Nat /\ (faults = 0 => NoneFailed /\ UpToDate)

---------------------------------------------------------------------------
(* Positions in net after a step *)

Shift(n, k) == IF k < n THEN k ELSE k + 1

LEMMA NetIs == net \in Seq(Message) => /\ Len(net) \in Nat /\ DOMAIN net = 1 .. Len(net)
                                       /\ \A n \in DOMAIN net : net[n] \in Message
BY LenProperties, ElementTyped

LEMMA AppendedAt ==
    ASSUME net \in Seq(Message), NEW m \in Message, net' = Append(net, m)
    PROVE  /\ DOMAIN net' = 1 .. Len(net) + 1
           /\ net'[Len(net) + 1] = m
           /\ \A k \in DOMAIN net : net'[k] = net[k]
<1>1. /\ net' \in Seq(Message) /\ Len(net') = Len(net) + 1 /\ net'[Len(net) + 1] = m
      /\ \A i \in 1 .. Len(net) : net'[i] = net[i]
  BY AppendProperties
<1>2. DOMAIN net' = 1 .. Len(net')
  BY <1>1, LenProperties
<1>. QED
  BY <1>1, <1>2, NetIs

LEMMA ReplacedAt ==
    ASSUME net \in Seq(Message), NEW n \in DOMAIN net, NEW m, net' = [net EXCEPT ![n] = m]
    PROVE  /\ DOMAIN net' = DOMAIN net
           /\ \A k \in DOMAIN net : net'[k] = IF k = n THEN m ELSE net[k]
BY NetIs

LEMMA SettledAt ==
    ASSUME net \in Seq(Message), NEW n \in DOMAIN net
    PROVE  /\ Settle(n) \in Seq(Message) /\ DOMAIN Settle(n) = 1 .. Len(net) - 1
           /\ Len(Settle(n)) = Len(net) - 1
           /\ \A k \in 1 .. Len(net) - 1 : /\ Shift(n, k) \in DOMAIN net \ {n}
                                           /\ Settle(n)[k] = net[Shift(n, k)]
           /\ \A l \in DOMAIN net \ {n} : \E k \in 1 .. Len(net) - 1 : l = Shift(n, k)
<1>1. /\ Settle(n) \in Seq(Message) /\ Len(Settle(n)) = Len(net) - 1
      /\ \A k \in 1 .. n - 1 : Settle(n)[k] = net[k]
      /\ \A k \in n .. Len(net) - 1 : Settle(n)[k] = net[k + 1]
  BY SettleTyped
<1>2. /\ DOMAIN Settle(n) = 1 .. Len(net) - 1 /\ Len(net) \in Nat /\ DOMAIN net = 1 .. Len(net)
  BY <1>1, LenProperties
<1>3. \A k \in 1 .. Len(net) - 1 : /\ Shift(n, k) \in DOMAIN net \ {n}
                                 /\ Settle(n)[k] = net[Shift(n, k)]
  <2>. SUFFICES ASSUME NEW k \in 1 .. Len(net) - 1
                PROVE  /\ Shift(n, k) \in DOMAIN net \ {n}
                       /\ Settle(n)[k] = net[Shift(n, k)]
    OBVIOUS
  <2>1. CASE k < n
    <3>1. k \in 1 .. n - 1 /\ k \in DOMAIN net \ {n}
      BY <1>2, <2>1
    <3>. QED
      BY <1>1, <2>1, <3>1 DEF Shift
  <2>2. CASE ~(k < n)
    <3>1. k \in n .. Len(net) - 1 /\ k + 1 \in DOMAIN net \ {n}
      BY <1>2, <2>2
    <3>. QED
      BY <1>1, <2>2, <3>1 DEF Shift
  <2>. QED
    BY <2>1, <2>2
<1>4. \A l \in DOMAIN net \ {n} : \E k \in 1 .. Len(net) - 1 : l = Shift(n, k)
  <2>. SUFFICES ASSUME NEW l \in DOMAIN net \ {n}
                PROVE  \E k \in 1 .. Len(net) - 1 : l = Shift(n, k)
    OBVIOUS
  <2>1. CASE l < n
    BY <1>2, <2>1 DEF Shift
  <2>2. CASE l > n
    <3>1. l - 1 \in 1 .. Len(net) - 1 /\ l = Shift(n, l - 1)
      BY <1>2, <2>2 DEF Shift
    <3>. QED
      BY <3>1
  <2>. QED
    BY <1>2, <2>1, <2>2
<1>. QED
  BY <1>1, <1>2, <1>3, <1>4

LEMMA SettledNet ==
    ASSUME net \in Seq(Message), NEW n \in DOMAIN net, net' = Settle(n)
    PROVE  /\ DOMAIN net' = 1 .. Len(net) - 1
           /\ \A k \in DOMAIN net' : Shift(n, k) \in DOMAIN net \ {n} /\ net'[k] = net[Shift(n, k)]
           /\ \A l \in DOMAIN net \ {n} : \E k \in DOMAIN net' : l = Shift(n, k)
           /\ \A j, k \in DOMAIN net' : Shift(n, j) <= Shift(n, k) => j <= k
<1>1. DOMAIN net' = 1 .. Len(net) - 1 /\ n \in Nat /\ Len(net) \in Nat
  <2>1. n \in Nat /\ Len(net) \in Nat
    BY NetIs
  <2>2. DOMAIN Settle(n) = 1 .. Len(net) - 1
    BY SettledAt
  <2>. QED
    BY <2>1, <2>2
<1>2. \A k \in 1 .. Len(net) - 1 : Shift(n, k) \in DOMAIN net \ {n} /\ net'[k] = net[Shift(n, k)]
  BY SettledAt
<1>3. \A l \in DOMAIN net \ {n} : \E k \in 1 .. Len(net) - 1 : l = Shift(n, k)
  BY SettledAt
<1>4. \A j, k \in DOMAIN net' : Shift(n, j) <= Shift(n, k) => j <= k
  BY <1>1 DEF Shift
<1>. QED
  BY <1>1, <1>2, <1>3, <1>4

(* The calendar widget loads its period again after an answer. *)
LEMMA RefreshedAt ==
    ASSUME net \in Seq(Message), NEW n \in DOMAIN net, Refresh(Settle(n))
    PROVE  /\ DOMAIN net' = DOMAIN net
           /\ net'[Len(net)] = Occurrences
           /\ \A k \in 1 .. Len(net) - 1 : /\ Shift(n, k) \in DOMAIN net \ {n}
                                           /\ net'[k] = net[Shift(n, k)]
           /\ \A l \in DOMAIN net \ {n} : \E k \in 1 .. Len(net) - 1 : l = Shift(n, k)
<1>1. net' = Append(Settle(n), Occurrences) /\ Len(net) \in Nat /\ DOMAIN net = 1 .. Len(net)
  BY NetIs DEF Refresh
<1>2. /\ Settle(n) \in Seq(Message) /\ Len(Settle(n)) = Len(net) - 1
  BY SettledAt
<1>3. /\ net' \in Seq(Message) /\ Len(net') = Len(net) /\ net'[Len(net)] = Occurrences
      /\ \A k \in 1 .. Len(net) - 1 : net'[k] = Settle(n)[k]
  <2>. DEFINE r == Settle(n)
  <2>1. r \in Seq(Message) /\ Len(r) = Len(net) - 1 /\ Len(r) + 1 = Len(net)
    BY <1>1, <1>2
  <2>2. net' = Append(r, Occurrences) /\ Occurrences \in Message
    BY <1>1, OccurrencesTyped
  <2>. HIDE DEF r
  <2>3. /\ net' \in Seq(Message) /\ Len(net') = Len(r) + 1 /\ net'[Len(r) + 1] = Occurrences
        /\ \A k \in 1 .. Len(r) : net'[k] = r[k]
    BY <2>1, <2>2, AppendProperties
  <2>. QED
    BY <2>1, <2>3 DEF r
<1>4. DOMAIN net' = 1 .. Len(net)
  BY <1>3, LenProperties
<1>. QED
  BY <1>1, <1>3, <1>4, SettledAt

---------------------------------------------------------------------------
(* Typed text *)

Inherits(m, l) == /\ m.op = l.op /\ m.arg.session = l.arg.session
                  /\ m.op = "save" => m.arg.text = l.arg.text

LEMMA TextFollows ==
    ASSUME TextGuarded, UNCHANGED form,
           \A k \in DOMAIN net' : IsWrite(net'[k]) =>
              OwnWrite(net'[k]) \/ \E l \in DOMAIN net : Inherits(net'[k], net[l])
    PROVE  TextGuarded'
<1>. SUFFICES ASSUME form.open, "fields" \in form.text, ~form.raced,
                     NEW k \in DOMAIN net', IsWrite(net'[k])
              PROVE  OwnWrite(net'[k])
  BY DEF TextGuarded, OwnWrite, IsWrite
<1>1. ASSUME NEW l \in DOMAIN net, Inherits(net'[k], net[l]) PROVE OwnWrite(net'[k])
  BY <1>1 DEF TextGuarded, Inherits, OwnWrite, IsWrite
<1>. QED
  BY <1>1

LEMMA TextGone == ASSUME ~form'.open PROVE TextGuarded'
BY DEF TextGuarded

LEMMA TextIdle == ASSUME TextGuarded, UNCHANGED <<net, form>> PROVE TextGuarded'
BY DEF TextGuarded, OwnWrite, IsWrite

LEMMA TextAppended ==
    ASSUME EditorInv, TextGuarded, UNCHANGED form, NEW m \in Message, net' = Append(net, m),
           IsWrite(m) => OwnWrite(m)
    PROVE  TextGuarded'
<1>1. \A k \in DOMAIN net' : net'[k] = m \/ (k \in DOMAIN net /\ net'[k] = net[k])
  BY AppendedAt, NetIs DEF EditorInv
<1>. QED
  BY <1>1, TextFollows DEF Inherits

LEMMA TextReplaced ==
    ASSUME EditorInv, TextGuarded, UNCHANGED form, NEW n \in DOMAIN net, NEW m,
           net' = [net EXCEPT ![n] = m], IsWrite(m) => Inherits(m, net[n])
    PROVE  TextGuarded'
<1>1. \A k \in DOMAIN net' : k \in DOMAIN net /\ net'[k] = IF k = n THEN m ELSE net[k]
  BY ReplacedAt DEF EditorInv
<1>. QED
  BY <1>1, TextFollows DEF Inherits

LEMMA TextSettled ==
    ASSUME EditorInv, TextGuarded, UNCHANGED form, NEW n \in DOMAIN net,
           net' = Settle(n) \/ Refresh(Settle(n))
    PROVE  TextGuarded'
<1>1. \A k \in DOMAIN net' : net'[k] = Occurrences \/ \E l \in DOMAIN net : net'[k] = net[l]
  <2>1. CASE net' = Settle(n)
    <3>1. \A k \in DOMAIN net' : k \in 1 .. Len(net) - 1
      BY <2>1, SettledAt DEF EditorInv
    <3>2. \A k \in DOMAIN net' : Shift(n, k) \in DOMAIN net /\ net'[k] = net[Shift(n, k)]
      BY <2>1, <3>1, SettledAt DEF EditorInv
    <3>. QED
      BY <3>2
  <2>2. CASE Refresh(Settle(n))
    <3>1. \A k \in DOMAIN net' : k = Len(net) \/ k \in 1 .. Len(net) - 1
      BY <2>2, RefreshedAt, NetIs DEF EditorInv
    <3>. QED
      BY <2>2, <3>1, RefreshedAt DEF EditorInv
  <2>. QED
    BY <2>1, <2>2
<1>2. ~IsWrite(Occurrences)
  BY DEF IsWrite, Occurrences, Request
<1>. QED
  BY <1>1, <1>2, TextFollows DEF Inherits

LEMMA TypeGuarded == ASSUME EditorInv, TextGuarded, NEW where \in Texts, Type(where)
                     PROVE  TextGuarded'
<1>1. /\ form.open /\ UNCHANGED net
      /\ form' = [form EXCEPT !.text = @ \cup {where}, !.dirty = @ \/ where = "fields",
                              !.raced = @ \/ Waiting(Writes)]
  BY DEF Type, web
<1>2. /\ form'.text = form.text \cup {where} /\ form'.open = form.open
      /\ form'.dirty = (form.dirty \/ where = "fields")
      /\ form'.raced = (form.raced \/ Waiting(Writes))
  BY <1>1 DEF EditorInv, EditorTypeOK
<1>3. "fields" \in form'.text => form'.dirty
  BY <1>1, <1>2 DEF TextGuarded
<1>4. ~form'.raced => \A n \in DOMAIN net' : ~IsWrite(net'[n])
  BY <1>1, <1>2 DEF Waiting, Writes, IsWrite
<1>. QED
  BY <1>3, <1>4 DEF TextGuarded

LEMMA SaveGuarded == ASSUME EditorInv, TextGuarded, NEW via \in Via, Save(via)
                     PROVE  TextGuarded'
<1>. DEFINE arg == [session |-> form.session, mode |-> form.mode, event |-> form.event,
                    base |-> form.etag, etag |-> form.etag, text |-> form.text, via |-> via]
            m == Request("save", arg)
<1>1. arg \in SaveArg
  BY DEF Save, EditorInv, EditorTypeOK, FormOfEvent, Version, SaveArg
<1>2. net' = Append(net, m) /\ UNCHANGED form
  BY DEF Save
<1>3. OwnWrite(m)
  BY DEF OwnWrite, Request
<1>. HIDE DEF arg
<1>4. m \in Message
  BY <1>1 DEF Message, Unanswered, Request
<1>. QED
  BY <1>2, <1>3, <1>4, TextAppended

LEMMA DeleteGuarded == ASSUME EditorInv, TextGuarded, Delete PROVE TextGuarded'
<1>1. CASE form.open /\ form.mode = "edit" /\ net' = Deletion(form.event, form.etag, form.session)
  <2>. DEFINE m == Request("delete", [event |-> form.event, base |-> form.etag,
                                      etag |-> form.etag, session |-> form.session])
  <2>1. m \in Message
    BY <1>1 DEF EditorInv, EditorTypeOK, FormOfEvent, Message, Unanswered, DeleteArg, Request,
                Version
  <2>2. OwnWrite(m)
    BY DEF OwnWrite, Request
  <2>3. net' = Append(net, m) /\ UNCHANGED form
    BY <1>1 DEF Deletion, Delete, editor
  <2>. QED
    BY <2>1, <2>2, <2>3, TextAppended
<1>2. CASE MayAct
  BY <1>2, TextGone DEF MayAct, Delete, editor
<1>. QED
  BY <1>1, <1>2 DEF Delete

(* A message of net is answered, refused or lost. *)
LEMMA ReplyInherits == ASSUME NEW n \in DOMAIN net, NEW answer
                       PROVE  \E m : Inherits(m, net[n]) /\ Reply(n, answer) = [net EXCEPT ![n] = m]
BY DEF Inherits, Reply

LEMMA RejectInherits == ASSUME net \in Seq(Message), NEW n \in DOMAIN net
                        PROVE  \E m : Inherits(m, net[n]) /\ Reject(n) = [net EXCEPT ![n] = m]
<1>. DEFINE m == [net[n] EXCEPT !.at = "failed"]
<1>1. net[n] \in Message
  BY NetIs
<1>2. m.op = net[n].op /\ m.arg = net[n].arg
  BY <1>1 DEF Message, Unanswered, Answer
<1>. QED
  BY <1>2 DEF Inherits, Reject

LEMMA ServedInherits == ASSUME NEW n \in DOMAIN net, Arrived(n, "save"), NEW at
                        PROVE  \E m : Inherits(m, net[n]) /\ Served(n, at) = [net EXCEPT ![n] = m]
BY DEF Inherits, Served, Arrived

LEMMA AnswerGuarded ==
    ASSUME EditorInv, TextGuarded, UNCHANGED form, NEW n \in DOMAIN net,
           \/ \E answer : net' = Reply(n, answer)
           \/ net' = Reject(n)
           \/ Arrived(n, "save") /\ \E at : net' = Served(n, at)
    PROVE  TextGuarded'
<1>1. PICK m : Inherits(m, net[n]) /\ net' = [net EXCEPT ![n] = m]
  BY ReplyInherits, RejectInherits, ServedInherits DEF EditorInv
<1>. QED
  BY <1>1, TextReplaced

LEMMA TextStep == EditorInv /\ TextGuarded /\ [EditorNext]_editorVars => TextGuarded'
<1>. SUFFICES ASSUME EditorInv, TextGuarded, [EditorNext]_editorVars PROVE TextGuarded'
  OBVIOUS
<1>1. CASE UNCHANGED editorVars
  BY <1>1, TextIdle DEF editorVars, web, editor
<1>2. CASE Navigate
  <2>1. ~IsWrite(Occurrences)
    BY DEF IsWrite, Occurrences, Request
  <2>. QED
    BY <1>2, <2>1, TextAppended, OccurrencesTyped DEF Navigate, Refresh
<1>3. CASE Add \/ \E mode \in {"edit", "occurrence", "split"}, e \in Events : Edit(mode, e)
  <2>1. \E s : form'.text = {}
    BY <1>3 DEF Add, Edit, Open
  <2>. QED
    BY <2>1 DEF TextGuarded
<1>4. CASE Cancel \/ Discard
  BY <1>4, TextIdle, TextGone, ClosedTyped DEF Cancel, Discard, Close
<1>5. CASE Delete
  BY <1>5, DeleteGuarded
<1>6. ASSUME NEW e \in Events, DeletePart(e) \/ OthersWrite(e) PROVE TextGuarded'
  <2>1. CASE DeletePart(e)
    BY <2>1, TextGone DEF DeletePart, MayAct, editor
  <2>2. CASE OthersWrite(e)
    BY <2>2, TextIdle DEF OthersWrite, web
  <2>. QED
    BY <1>6, <2>1, <2>2
<1>7. CASE \E where \in Texts : Type(where)
  BY <1>7, TypeGuarded
<1>8. CASE \E via \in {"button", "enter"} : Save(via)
  BY <1>8, SaveGuarded DEF Via
<1>9. ASSUME NEW n \in DOMAIN net,
             \/ ServeOccurrences(n) \/ ApplySave(n) \/ RefuseSave(n) \/ ServeDelete(n)
             \/ ServeSeries(n) \/ LoseEditorAnswer(n)
      PROVE  TextGuarded'
  <2>1. UNCHANGED form
    BY <1>9 DEF ServeOccurrences, ApplySave, RefuseSave, ServeDelete, ServeSeries,
                LoseEditorAnswer, editor
  <2>2. \/ \E answer : net' = Reply(n, answer)
        \/ net' = Reject(n)
        \/ Arrived(n, "save") /\ \E at : net' = Served(n, at)
    BY <1>9 DEF ServeOccurrences, ApplySave, RefuseSave, ServeDelete, ServeSeries,
                LoseEditorAnswer, Lose
  <2>. QED
    BY <2>1, <2>2, AnswerGuarded
<1>10. ASSUME NEW n \in DOMAIN net, ShowOccurrences(n) \/ PartDeleted(n) \/ EditorFailed(n)
       PROVE  TextGuarded'
  BY <1>10, TextSettled DEF ShowOccurrences, PartDeleted, EditorFailed, ShowError, Ignore, editor
<1>11. ASSUME NEW n \in DOMAIN net, Saved(n) \/ Deleted(n) PROVE TextGuarded'
  BY <1>11, TextGone, ClosedTyped DEF Saved, Deleted, Finish, Close
<1>12. ASSUME NEW n \in DOMAIN net, SessionExpired(n), UNCHANGED editor PROVE TextGuarded'
  <2>1. DOMAIN net' = {}
    BY <1>12 DEF SessionExpired
  <2>. QED
    BY <1>12, <2>1, TextFollows DEF editor
<1>13. CASE Dismiss /\ UNCHANGED editor
  BY <1>13, TextIdle DEF Dismiss, editor
<1>. QED
  BY <1>1, <1>2, <1>3, <1>4, <1>5, <1>6, <1>7, <1>8, <1>9, <1>10, <1>11, <1>12, <1>13
     DEF EditorNext

(* Who closes a modal with text: Cancel only when it is not dirty, Discard,   *)
(* and the answers.                                                         *)
LEMMA ClosedWithLeave ==
    EditorInv /\ TextGuarded /\ [EditorNext]_editorVars =>
        (form.open /\ "fields" \in form.text /\ ~form'.open =>
           popup.kind = "discard" \/ form.raced \/ \E n \in DOMAIN net : Carries(n))
<1>. SUFFICES ASSUME EditorInv, TextGuarded, [EditorNext]_editorVars, form.open,
                     "fields" \in form.text, ~form'.open, popup.kind # "discard", ~form.raced
              PROVE  \E n \in DOMAIN net : Carries(n)
  OBVIOUS
<1>1. form.dirty
  BY DEF TextGuarded
<1>2. form' # form /\ ~UNCHANGED editor /\ ~UNCHANGED editorVars
  BY DEF editor, editorVars
<1>3. ~Navigate /\ ~Add /\ ~Cancel /\ ~Discard /\ ~Delete
  BY <1>1, <1>2 DEF Navigate, Add, MayOpen, Cancel, Discard, Delete
<1>4. ASSUME NEW e \in Events PROVE ~(DeletePart(e) \/ OthersWrite(e))
  BY <1>2 DEF DeletePart, OthersWrite
<1>5. ASSUME NEW mode, NEW e \in Events PROVE ~Edit(mode, e)
  BY DEF Edit, MayOpen
<1>6. ASSUME NEW where \in Texts PROVE ~Type(where)
  BY DEF Type, EditorInv, EditorTypeOK
<1>7. ASSUME NEW via PROVE ~Save(via)
  BY <1>2 DEF Save
<1>8. ASSUME NEW n \in DOMAIN net
      PROVE  /\ ~ServeOccurrences(n) /\ ~ApplySave(n) /\ ~RefuseSave(n) /\ ~ServeDelete(n)
             /\ ~ServeSeries(n) /\ ~ShowOccurrences(n) /\ ~PartDeleted(n) /\ ~EditorFailed(n)
             /\ ~LoseEditorAnswer(n)
  BY <1>2 DEF ServeOccurrences, ApplySave, RefuseSave, ServeDelete, ServeSeries,
              ShowOccurrences, PartDeleted, EditorFailed, LoseEditorAnswer
<1>9. PICK n \in DOMAIN net : Saved(n) \/ Deleted(n)
  BY <1>2, <1>3, <1>4, <1>5, <1>6, <1>7, <1>8 DEF EditorNext
<1>10. (Answered(n, "save") \/ Answered(n, "delete")) /\ IsWrite(net[n])
  BY <1>9 DEF Saved, Deleted, Answered, IsWrite
<1>11. OwnWrite(net[n])
  BY <1>10 DEF TextGuarded
<1>. QED
  BY <1>10, <1>11 DEF Carries, OwnWrite

LEMMA TextStarts == EditorInit => TextGuarded
BY DEF EditorInit, TextGuarded, ClosedForm

(* app.js, hide.bs.modal and done(): whatever answers arrive in whatever      *)
(* order, the modal with text in its fields closes with the user's leave, with *)
(* the answer to the save of that very text or the deletion of its event, or   *)
(* when text was typed while a request was under way.                        *)
THEOREM TextIsKept == EditorSpec => TextKept
<1>. QED
  BY EditorInvariant, TextStarts, TextStep, ClosedWithLeave, PTL DEF EditorSpec, TextKept

---------------------------------------------------------------------------
(* Creations *)

(* The saves that can still create an event are among those there were. *)
PendingFollows ==
    \A s \in Sessions :
        /\ \A k \in DOMAIN net' : SavePending(net'[k], s) => \E l \in DOMAIN net : SavePending(net[l], s)
        /\ \A j, k \in DOMAIN net' :
              j # k /\ SavePending(net'[j], s) /\ SavePending(net'[k], s) =>
                 \E i, l \in DOMAIN net : i # l /\ SavePending(net[i], s) /\ SavePending(net[l], s)
AnswerFollows ==
    page' = "open" /\ form'.open /\ form'.session \in created' \ doubled' =>
        /\ page = "open" /\ UNCHANGED form
        /\ \A l \in DOMAIN net : SaveAnswered(net[l], form.session) =>
                                 \E k \in DOMAIN net' : SaveAnswered(net'[k], form.session)

LEMMA SubmissionsFollow ==
    ASSUME EditorInv, Submissions, UNCHANGED created, doubled \subseteq doubled',
           PendingFollows, AnswerFollows
    PROVE  Submissions'
<1>1. OnePending'
  BY DEF Submissions, OnePending, PendingFollows
<1>2. NonePending'
  BY DEF Submissions, NonePending, PendingFollows, EditorInv, EditorTypeOK
<1>3. AnswerAwaited'
  BY DEF Submissions, AnswerAwaited, AnswerFollows
<1>. QED
  BY <1>1, <1>2, <1>3 DEF Submissions

LEMMA SubmissionsIdle ==
    ASSUME EditorInv, Submissions, UNCHANGED <<net, page, created, doubled>>,
           \/ UNCHANGED form
           \/ ~form'.open
           \/ form.open /\ form'.open /\ form'.session = form.session
    PROVE  Submissions'
BY DEF Submissions, OnePending, NonePending, AnswerAwaited

LEMMA SubmissionsAppended ==
    ASSUME EditorInv, Submissions, NEW m \in Message, m.op # "save", net' = Append(net, m),
           UNCHANGED <<page, form, created, doubled>>
    PROVE  Submissions'
<1>1. \A k \in DOMAIN net' : net'[k] = m \/ (k \in DOMAIN net /\ net'[k] = net[k])
  BY AppendedAt, NetIs DEF EditorInv
<1>2. \A k \in DOMAIN net : k \in DOMAIN net' /\ net'[k] = net[k]
  BY AppendedAt, NetIs DEF EditorInv
<1>3. PendingFollows
  BY <1>1 DEF PendingFollows, SavePending
<1>4. AnswerFollows
  BY <1>2 DEF AnswerFollows
<1>. QED
  BY <1>3, <1>4, SubmissionsFollow

LEMMA SubmissionsReplaced ==
    ASSUME EditorInv, Submissions, NEW n \in DOMAIN net, NEW m, net' = [net EXCEPT ![n] = m],
           m.op = "save" => m.at # "sent",
           \A s : SaveAnswered(net[n], s) => s \in doubled',
           UNCHANGED <<page, form, created>>, doubled \subseteq doubled'
    PROVE  Submissions'
<1>1. /\ DOMAIN net' = DOMAIN net
      /\ \A k \in DOMAIN net : net'[k] = IF k = n THEN m ELSE net[k]
  BY ReplacedAt DEF EditorInv
<1>2. PendingFollows
  BY <1>1 DEF PendingFollows, SavePending
<1>3. AnswerFollows
  BY <1>1 DEF AnswerFollows
<1>. QED
  BY <1>2, <1>3, SubmissionsFollow

LEMMA SubmissionsSettled ==
    ASSUME EditorInv, Submissions, NEW n \in DOMAIN net,
           net' = Settle(n) \/ Refresh(Settle(n)),
           UNCHANGED <<page, created, doubled>>,
           ~form'.open \/ (UNCHANGED form /\ \A s : ~SaveAnswered(net[n], s))
    PROVE  Submissions'
<1>1. net \in Seq(Message) /\ n \in 1 .. Len(net) /\ Len(net) \in Nat
  BY NetIs DEF EditorInv
<1>2. \A k \in 1 .. Len(net) - 1 : /\ k \in DOMAIN net' /\ Shift(n, k) \in DOMAIN net \ {n}
                                 /\ net'[k] = net[Shift(n, k)]
  <2>1. CASE net' = Settle(n)
    BY <1>1, <2>1, SettledAt
  <2>2. CASE Refresh(Settle(n))
    <3>1. \A k \in 1 .. Len(net) - 1 : k \in DOMAIN net'
      BY <1>1, <2>2, RefreshedAt, NetIs
    <3>. QED
      BY <1>1, <2>2, <3>1, RefreshedAt
  <2>. QED
    BY <2>1, <2>2
<1>3. \A k \in DOMAIN net' : k \in 1 .. Len(net) - 1 \/ net'[k] = Occurrences
  <2>1. CASE net' = Settle(n)
    BY <1>1, <2>1, SettledAt
  <2>2. CASE Refresh(Settle(n))
    <3>1. \A k \in DOMAIN net' : k \in 1 .. Len(net) - 1 \/ k = Len(net)
      BY <1>1, <2>2, RefreshedAt, NetIs
    <3>. QED
      BY <1>1, <2>2, <3>1, RefreshedAt
  <2>. QED
    BY <2>1, <2>2
<1>4. \A l \in DOMAIN net \ {n} : \E k \in 1 .. Len(net) - 1 : l = Shift(n, k)
  BY <1>1, SettledAt
<1>5. \A j, k \in 1 .. Len(net) - 1 : j # k => Shift(n, j) # Shift(n, k)
  BY <1>1 DEF Shift
<1>6. \A s : ~SavePending(Occurrences, s)
  BY DEF SavePending, Occurrences, Request
<1>7. PendingFollows
  BY <1>2, <1>3, <1>5, <1>6 DEF PendingFollows
<1>8. AnswerFollows
  BY <1>2, <1>4 DEF AnswerFollows
<1>. QED
  BY <1>7, <1>8, SubmissionsFollow

LEMMA OpenSubmits ==
    ASSUME EditorInv, Submissions, NEW mode, NEW e, NEW v, Open(mode, e, v), UNCHANGED web
    PROVE  Submissions'
<1>1. PICK s \in Sessions \ InUse : form'.session = s
  BY DEF Open
<1>2. created' = created \cap InUse /\ doubled' = doubled \cap InUse /\ net' = net
  BY DEF Open, web
<1>4. \A r \in Sessions : \A n \in DOMAIN net : SavePending(net[n], r) => r \in InUse
  BY DEF SavePending, InUse
<1>5. OnePending'
  BY <1>2, <1>4 DEF Submissions, OnePending
<1>6. NonePending'
  BY <1>2 DEF Submissions, NonePending
<1>7. AnswerAwaited'
  BY <1>1, <1>2 DEF AnswerAwaited
<1>. QED
  BY <1>5, <1>6, <1>7 DEF Submissions

(* A form is submitted: it is the first save of its session, or counts as   *)
(* submitted twice.                                                         *)
LEMMA SaveSubmits == ASSUME EditorInv, Submissions, NEW via \in Via, Save(via)
                     PROVE  Submissions'
<1>. DEFINE arg == [session |-> form.session, mode |-> form.mode, event |-> form.event,
                    base |-> form.etag, etag |-> form.etag, text |-> form.text, via |-> via]
            m == Request("save", arg)
<1>1. arg \in SaveArg
  BY DEF Save, EditorInv, EditorTypeOK, FormOfEvent, Version, SaveArg
<1>2. /\ net' = Append(net, m) /\ UNCHANGED <<page, form, created>> /\ form.open /\ ~Disabled
      /\ doubled' = IF Resubmitted THEN doubled \cup {form.session} ELSE doubled
      /\ page = "open" /\ form.session \in Sessions
  BY DEF Save, MaySend, UserMayAct, EditorInv, FormOfEvent
<1>3. m.arg.session = form.session /\ m.op = "save"
  BY DEF Request
<1>. HIDE DEF arg
<1>4. m \in Message
  BY <1>1 DEF Message, Unanswered, Request
<1>. HIDE DEF m
<1>5. \A k \in DOMAIN net' : (k = Len(net) + 1 /\ net'[k] = m) \/ (k \in DOMAIN net /\ net'[k] = net[k])
  BY <1>2, <1>4, AppendedAt, NetIs DEF EditorInv
<1>6. \A k \in DOMAIN net : k \in DOMAIN net' /\ net'[k] = net[k]
  BY <1>2, <1>4, AppendedAt, NetIs DEF EditorInv
<1>7. ASSUME NEW n \in DOMAIN net, net[n].op = "save", net[n].at # "failed",
             net[n].arg.session = form.session
      PROVE  form.session \in doubled'
  <2>1. net[n].arg.via \in Via
    BY <1>7, NetIs DEF EditorInv, Message, Unanswered, Answer, SaveArg, SavedArg
  <2>2. net[n].arg.via = "enter"
    BY <1>2, <1>7, <2>1 DEF Disabled, Via
  <2>. QED
    BY <1>2, <1>7, <2>2 DEF Resubmitted
<1>8. \A s \in Sessions \ doubled' : s \notin doubled
  BY <1>2
<1>9. OnePending'
  <2>. SUFFICES ASSUME NEW s \in Sessions \ doubled', NEW j \in DOMAIN net', NEW k \in DOMAIN net',
                       SavePending(net'[j], s), SavePending(net'[k], s)
                PROVE  j = k
    BY DEF OnePending
  <2>1. CASE s = form.session
    <3>1. \A i \in DOMAIN net : ~SavePending(net[i], s)
      BY <1>7, <2>1 DEF SavePending
    <3>. QED
      BY <1>5, <3>1
  <2>2. CASE s # form.session
    <3>1. ~SavePending(m, s)
      BY <1>3, <2>2 DEF SavePending
    <3>. QED
      BY <1>5, <1>8, <3>1 DEF Submissions, OnePending
  <2>. QED
    BY <2>1, <2>2
<1>10. form.session \in created \ doubled => form.session \in doubled'
  <2>. SUFFICES ASSUME form.session \in created \ doubled PROVE form.session \in doubled'
    OBVIOUS
  <2>1. PICK n \in DOMAIN net : SaveAnswered(net[n], form.session)
    BY <1>2 DEF Submissions, AnswerAwaited
  <2>. QED
    BY <1>7, <2>1 DEF SaveAnswered
<1>11. NonePending'
  <2>. SUFFICES ASSUME NEW s \in created \ doubled', NEW k \in DOMAIN net',
                       SavePending(net'[k], s)
                PROVE  FALSE
    BY <1>2 DEF NonePending
  <2>1. s \notin doubled /\ s # form.session
    BY <1>2, <1>10
  <2>. QED
    BY <1>3, <1>5, <2>1 DEF Submissions, NonePending, SavePending
<1>12. AnswerAwaited'
  BY <1>2, <1>10 DEF AnswerAwaited
<1>. QED
  BY <1>9, <1>11, <1>12 DEF Submissions

(* The server creates the event of a form: no other save of it is left. *)
LEMMA ApplySubmits == ASSUME EditorInv, Submissions, NEW n \in DOMAIN net, ApplySave(n)
                      PROVE  Submissions'
<1>. DEFINE s == net[n].arg.session
            m == [op |-> "save", at |-> "answered", ans |-> {},
                  arg |-> [session |-> net[n].arg.session, text |-> net[n].arg.text,
                           via |-> net[n].arg.via]]
<1>1. /\ net' = [net EXCEPT ![n] = m] /\ UNCHANGED <<page, form, doubled>>
      /\ Arrived(n, "save") /\ (UNCHANGED created \/ created' = created \cup {s})
  BY DEF ApplySave, Served, Create
<1>2. s \in Sessions /\ SavePending(net[n], s) /\ SaveAnswered(m, s)
  BY <1>1, NetIs, MessageIs DEF Arrived, SavePending, SaveAnswered, SaveArg, EditorInv
<1>3. CASE UNCHANGED created
  BY <1>1, <1>3, SubmissionsReplaced DEF SaveAnswered, Arrived
<1>4. CASE created' = created \cup {s}
  <2>1. /\ DOMAIN net' = DOMAIN net
        /\ \A k \in DOMAIN net : net'[k] = IF k = n THEN m ELSE net[k]
    BY <1>1, ReplacedAt DEF EditorInv
  <2>2. \A r, k : k \in DOMAIN net' /\ SavePending(net'[k], r) =>
                    k # n /\ k \in DOMAIN net /\ SavePending(net[k], r)
    BY <2>1 DEF SavePending
  <2>3. OnePending'
    BY <1>1, <2>2 DEF Submissions, OnePending
  <2>4. ASSUME s \notin doubled, NEW k \in DOMAIN net', SavePending(net'[k], s) PROVE FALSE
    BY <1>2, <2>2, <2>4 DEF Submissions, OnePending
  <2>5. NonePending'
    BY <1>1, <1>4, <2>2, <2>4 DEF Submissions, NonePending
  <2>6. AnswerAwaited'
    <3>. SUFFICES ASSUME page = "open", form.open, form.session \in created' \ doubled
                  PROVE  \E k \in DOMAIN net : SaveAnswered(net'[k], form.session)
      BY <1>1, <2>1 DEF AnswerAwaited
    <3>1. CASE form.session = s
      BY <1>2, <2>1, <3>1
    <3>2. CASE form.session \in created
      <4>1. PICK k \in DOMAIN net : SaveAnswered(net[k], form.session)
        BY <3>2 DEF Submissions, AnswerAwaited
      <4>2. k # n
        BY <1>1, <4>1 DEF SaveAnswered, Arrived
      <4>. QED
        BY <2>1, <4>1, <4>2
    <3>. QED
      BY <1>4, <3>1, <3>2
  <2>. QED
    BY <2>3, <2>5, <2>6 DEF Submissions
<1>. QED
  BY <1>1, <1>3, <1>4

LEMMA AnswerSubmits ==
    ASSUME EditorInv, Submissions, NEW n \in DOMAIN net, net[n].at = "sent",
           \/ net[n].op # "save" /\ \E answer : net' = Reply(n, answer)
           \/ net[n].op # "save" /\ net' = Reject(n)
           \/ net' = Served(n, "failed"),
           UNCHANGED <<page, form, created, doubled>>
    PROVE  Submissions'
<1>1. \A s : ~SaveAnswered(net[n], s)
  BY DEF SaveAnswered
<1>2. \E m : net' = [net EXCEPT ![n] = m] /\ (m.op = "save" => m.at # "sent")
  <2>1. CASE net[n].op # "save" /\ \E answer : net' = Reply(n, answer)
    BY <2>1 DEF Reply
  <2>2. CASE net' = Served(n, "failed")
    <3>. DEFINE m == [op |-> "save", at |-> "failed", ans |-> {},
                      arg |-> [session |-> net[n].arg.session, text |-> net[n].arg.text,
                               via |-> net[n].arg.via]]
    <3>1. m.at = "failed" /\ net' = [net EXCEPT ![n] = m]
      BY <2>2 DEF Served
    <3>. HIDE DEF m
    <3>. QED
      BY <3>1
  <2>3. CASE net' = Reject(n)
    <3>1. net[n] \in Message
      BY NetIs DEF EditorInv
    <3>2. [net[n] EXCEPT !.at = "failed"].at = "failed"
      BY <3>1 DEF Message, Unanswered, Answer
    <3>. QED
      BY <2>3, <3>2 DEF Reject
  <2>. QED
    BY <2>1, <2>2, <2>3
<1>. QED
  BY <1>1, <1>2, SubmissionsReplaced

LEMMA LossSubmits == ASSUME EditorInv, Submissions, NEW n \in DOMAIN net, LoseEditorAnswer(n)
                     PROVE  Submissions'
<1>. DEFINE m == [net[n] EXCEPT !.at = "failed"]
<1>1. net[n] \in Message
  BY NetIs DEF EditorInv
<1>2. m.at = "failed" /\ net' = [net EXCEPT ![n] = m]
  BY <1>1 DEF Message, Unanswered, Answer, LoseEditorAnswer, Lose, Reject
<1>3. /\ UNCHANGED <<page, form, created>> /\ doubled \subseteq doubled'
      /\ \A s : SaveAnswered(net[n], s) => s \in doubled'
  BY DEF LoseEditorAnswer, Lose, Answered, SaveAnswered
<1>. HIDE DEF m
<1>. QED
  BY <1>2, <1>3, SubmissionsReplaced

LEMMA SubmissionsStep == EditorInv /\ Submissions /\ [EditorNext]_editorVars => Submissions'
<1>. SUFFICES ASSUME EditorInv, Submissions, [EditorNext]_editorVars PROVE Submissions'
  OBVIOUS
<1>1. CASE UNCHANGED editorVars \/ Cancel \/ Discard \/ (Dismiss /\ UNCHANGED editor)
  <2>1. UNCHANGED <<net, page, created, doubled>>
    BY <1>1 DEF editorVars, web, editor, Cancel, Discard, Dismiss
  <2>2. UNCHANGED form \/ ~form'.open
    BY <1>1, ClosedTyped DEF editorVars, editor, Cancel, Discard, Close
  <2>. QED
    BY <2>1, <2>2, SubmissionsIdle
<1>2. CASE Navigate
  <2>1. Occurrences.op # "save"
    BY DEF Occurrences, Request
  <2>. QED
    BY <1>2, <2>1, SubmissionsAppended, OccurrencesTyped DEF Navigate, Refresh
<1>3. CASE Add \/ \E mode \in {"edit", "occurrence", "split"}, e \in Events : Edit(mode, e)
  BY <1>3, OpenSubmits DEF Add, Edit
<1>4. ASSUME NEW e, NEW v, NEW who, net' = Deletion(e, v, who), EditorInv', UNCHANGED editor,
             UNCHANGED page
      PROVE  Submissions'
  <2>. DEFINE m == Request("delete", [event |-> e, base |-> v, etag |-> v, session |-> who])
  <2>1. net' = Append(net, m) /\ m.op # "save"
    BY <1>4 DEF Deletion, Request
  <2>2. m \in Message
    <3>1. /\ net' \in Seq(Message) /\ Len(net) + 1 \in DOMAIN net' /\ net'[Len(net) + 1] = m
      BY <1>4, <2>1, AppendProperties, LenProperties DEF EditorInv
    <3>. QED
      BY <3>1, ElementOfSeq, LenProperties
  <2>. QED
    BY <1>4, <2>1, <2>2, SubmissionsAppended DEF editor
<1>5. CASE Delete
  BY <1>4, <1>5, DeleteKeeps DEF Delete, Kept
<1>6. ASSUME NEW e \in Events, DeletePart(e) PROVE Submissions'
  <2>1. Request("series", e) \in Message /\ Request("series", e).op # "save"
    BY DEF Message, Unanswered, Request
  <2>. QED
    BY <1>6, <2>1, SubmissionsAppended DEF DeletePart, editor
<1>7. ASSUME NEW e \in Events, OthersWrite(e) PROVE Submissions'
  <2>1. UNCHANGED <<net, page, form, created, doubled>>
    BY <1>7 DEF OthersWrite, web
  <2>. QED
    BY <2>1, SubmissionsIdle
<1>8. ASSUME NEW where \in Texts, Type(where) PROVE Submissions'
  <2>1. form.open /\ form'.open /\ form'.session = form.session
    BY <1>8 DEF Type, EditorInv, EditorTypeOK
  <2>. QED
    BY <1>8, <2>1, SubmissionsIdle DEF Type, web
<1>9. CASE \E via \in {"button", "enter"} : Save(via)
  BY <1>9, SaveSubmits DEF Via
<1>10. ASSUME NEW n \in DOMAIN net,
              ServeOccurrences(n) \/ RefuseSave(n) \/ ServeDelete(n) \/ ServeSeries(n)
       PROVE  Submissions'
  <2>1. UNCHANGED <<page, form, created, doubled>>
    BY <1>10 DEF ServeOccurrences, RefuseSave, ServeDelete, ServeSeries, editor
  <2>2. /\ net[n].at = "sent"
        /\ \/ net[n].op # "save" /\ \E answer : net' = Reply(n, answer)
           \/ net[n].op # "save" /\ net' = Reject(n)
           \/ net' = Served(n, "failed")
    BY <1>10 DEF ServeOccurrences, RefuseSave, ServeDelete, ServeSeries, Arrived
  <2>. QED
    BY <2>1, <2>2, AnswerSubmits
<1>11. ASSUME NEW n \in DOMAIN net, ApplySave(n) \/ LoseEditorAnswer(n) PROVE Submissions'
  BY <1>11, ApplySubmits, LossSubmits
<1>12. ASSUME NEW n \in DOMAIN net, ShowOccurrences(n) \/ PartDeleted(n) \/ EditorFailed(n)
       PROVE  Submissions'
  <2>1. /\ net' = Settle(n) \/ Refresh(Settle(n))
        /\ UNCHANGED <<page, form, created, doubled>>
    BY <1>12 DEF ShowOccurrences, PartDeleted, EditorFailed, ShowError, Ignore, editor
  <2>2. \A s : ~SaveAnswered(net[n], s)
    BY <1>12 DEF ShowOccurrences, PartDeleted, EditorFailed, ShowError, Ignore, Failed, Answered,
                 SaveAnswered
  <2>. QED
    BY <2>1, <2>2, SubmissionsSettled
<1>13. ASSUME NEW n \in DOMAIN net, Saved(n) \/ Deleted(n) PROVE Submissions'
  BY <1>13, SubmissionsSettled, ClosedTyped DEF Saved, Deleted, Finish, Close
<1>14. ASSUME NEW n \in DOMAIN net, SessionExpired(n), UNCHANGED editor PROVE Submissions'
  <2>1. DOMAIN net' = {} /\ page' # "open"
    BY <1>14 DEF SessionExpired
  <2>. QED
    BY <1>14, <2>1 DEF Submissions, OnePending, NonePending, AnswerAwaited
<1>. QED
  BY <1>1, <1>2, <1>3, <1>5, <1>6, <1>7, <1>8, <1>9, <1>10, <1>11, <1>12, <1>13, <1>14
     DEF EditorNext

LEMMA CreatesFirst ==
    EditorInv /\ Submissions /\ [EditorNext]_editorVars =>
        \A n \in DOMAIN net : Creates(n) => net[n].arg.session \notin created \ doubled
BY DEF Submissions, NonePending, SavePending, Creates, Arrived

LEMMA SubmissionsStart == EditorInit => Submissions
BY EmptySeq DEF EditorInit, WebInit, Submissions, OnePending, NonePending, AnswerAwaited, ClosedForm

(* app.js, saveEvent and api(): for any number of openings of the modal and   *)
(* whatever is lost or late, a form creates one event, unless Enter or a      *)
(* success that was not seen let it be submitted again.                      *)
THEOREM FormsCreateOnce == EditorSpec => CreatedOnce
<1>. QED
  BY EditorInvariant, SubmissionsStart, SubmissionsStep, CreatesFirst, PTL
     DEF EditorSpec, CreatedOnce

---------------------------------------------------------------------------
(* The calendar widget *)

LEMMA RefreshShows ==
    ASSUME NEW rest \in Seq(Message), Refresh(rest), UNCHANGED faults, CatchesUp,
           \A k \in DOMAIN rest : Reloads(rest[k]) => \E l \in DOMAIN net : rest[k] = net[l]
    PROVE  CatchesUp'
<1>1. /\ net' \in Seq(Message) /\ Len(net') = Len(rest) + 1 /\ net'[Len(rest) + 1] = Occurrences
      /\ \A k \in 1 .. Len(rest) : net'[k] = rest[k]
  BY AppendProperties, OccurrencesTyped DEF Refresh
<1>2. DOMAIN net' = 1 .. Len(rest) + 1 /\ DOMAIN rest = 1 .. Len(rest) /\ Len(rest) \in Nat
  BY <1>1, LenProperties
<1>3. Reloads(Occurrences) /\ Occurrences.at = "sent"
  BY DEF Reloads, Occurrences, Request
<1>4. \A k \in DOMAIN net' : k <= Len(rest) + 1
  BY <1>2
<1>5. Len(rest) + 1 \in DOMAIN net'
  BY <1>2
<1>6. \A e : WillShow(e)'
  BY <1>1, <1>3, <1>4, <1>5 DEF WillShow
<1>7. \A k \in DOMAIN net' : net'[k] = Occurrences \/ (k \in DOMAIN rest /\ net'[k] = rest[k])
  BY <1>1, <1>2
<1>8. faults = 0 => NoneFailed'
  BY <1>3, <1>7 DEF NoneFailed, CatchesUp
<1>. QED
  BY <1>6, <1>8 DEF CatchesUp, UpToDate

(* Neither the network nor the server nor the widget changes. *)
LEMMA ShownIdle ==
    ASSUME CatchesUp, UNCHANGED <<net, faults, stored, writer, cache, grid, late>>
    PROVE  CatchesUp'
BY DEF CatchesUp, NoneFailed, UpToDate, WillReload, WillShow, IsShown, Shown

LEMMA ShownAppended ==
    ASSUME EditorInv, CatchesUp, NEW m \in Message, ~Reloads(m), net' = Append(net, m),
           UNCHANGED <<faults, stored, writer, cache, grid, late>>
    PROVE  CatchesUp'
<1>1. \A k \in DOMAIN net' : net'[k] = m \/ (k \in DOMAIN net /\ net'[k] = net[k])
  BY AppendedAt, NetIs DEF EditorInv
<1>2. \A k \in DOMAIN net : k \in DOMAIN net' /\ net'[k] = net[k]
  BY AppendedAt, NetIs DEF EditorInv
<1>3. NoneFailed => NoneFailed'
  BY <1>1 DEF NoneFailed
<1>4. WillReload => WillReload'
  BY <1>2 DEF WillReload
<1>5. ASSUME NEW e \in Events, WillShow(e) PROVE WillShow(e)'
  BY <1>1, <1>2, <1>5 DEF WillShow
<1>6. ASSUME NEW e \in Events, IsShown(e) PROVE IsShown(e)'
  BY <1>1, <1>6 DEF IsShown, Shown
<1>. QED
  BY <1>3, <1>4, <1>5, <1>6 DEF CatchesUp, UpToDate

(* A request is served.  When it wrote something, its answer will reload. *)
LEMMA ShownServed ==
    ASSUME EditorInv, CatchesUp, NEW n \in DOMAIN net, NEW m, net' = [net EXCEPT ![n] = m],
           net[n].at = "sent", m.op = net[n].op, UNCHANGED <<faults, cache, grid, late>>,
           \/ m.op \in Writes /\ m.at = "answered"
           \/ m.op \in Writes /\ UNCHANGED <<stored, writer>>
           \/ Reloads(m) /\ m.at = "answered" /\ m.ans = stored /\ UNCHANGED <<stored, writer>>
    PROVE  CatchesUp'
<1>1. /\ DOMAIN net' = DOMAIN net
      /\ \A k \in DOMAIN net : net'[k] = IF k = n THEN m ELSE net[k]
  BY ReplacedAt DEF EditorInv
<1>2. \A k \in DOMAIN net : Reloads(net'[k]) <=> Reloads(net[k])
  BY <1>1 DEF Reloads
<1>3. NoneFailed => NoneFailed'
  BY <1>1 DEF NoneFailed, Reloads, Writes
<1>4. CASE m.op \in Writes /\ m.at = "answered"
  <2>1. WillReload'
    BY <1>1, <1>4 DEF WillReload
  <2>. QED
    BY <1>3, <2>1 DEF CatchesUp, UpToDate
<1>5. CASE UNCHANGED <<stored, writer>> /\ (Reloads(m) => m.at = "answered" /\ m.ans = stored)
  <2>1. WillReload => WillReload'
    BY <1>1 DEF WillReload
  <2>2. ASSUME NEW e \in Events, WillShow(e) PROVE WillShow(e)'
    <3>1. PICK l \in DOMAIN net :
            /\ Reloads(net[l])
            /\ \/ late
               \/ /\ \A k \in DOMAIN net : Reloads(net[k]) => k <= l
                  /\ net[l].at = "answered" => net[l].ans[e] = stored[e]
      BY <2>2 DEF WillShow
    <3>2. Reloads(net'[l]) /\ l \in DOMAIN net'
      BY <1>1, <1>2, <3>1
    <3>3. (net[l].at = "answered" => net[l].ans[e] = stored[e]) =>
          (net'[l].at = "answered" => net'[l].ans[e] = stored[e])
      BY <1>1, <1>5, <3>2
    <3>. QED
      BY <1>1, <1>2, <1>5, <3>1, <3>2, <3>3 DEF WillShow
  <2>3. ASSUME NEW e \in Events, IsShown(e) PROVE IsShown(e)'
    BY <1>1, <1>2, <1>5, <2>3 DEF IsShown, Shown
  <2>. QED
    BY <1>3, <1>5, <2>1, <2>2, <2>3 DEF CatchesUp, UpToDate
<1>. QED
  BY <1>4, <1>5 DEF Reloads, Writes

(* A request that is no refresh of the widget is settled, none the wiser. *)
LEMMA ShownSettled ==
    ASSUME EditorInv, CatchesUp, NEW n \in DOMAIN net, net[n].at = "failed", net' = Settle(n),
           UNCHANGED <<faults, stored, writer, cache, grid, late>>
    PROVE  CatchesUp'
<1>1. net \in Seq(Message) /\ n \in 1 .. Len(net) /\ Len(net) \in Nat /\ DOMAIN net = 1 .. Len(net)
  BY NetIs DEF EditorInv
<1>2. /\ DOMAIN net' = 1 .. Len(net) - 1
      /\ \A k \in DOMAIN net' : Shift(n, k) \in DOMAIN net \ {n} /\ net'[k] = net[Shift(n, k)]
      /\ \A l \in DOMAIN net \ {n} : \E k \in DOMAIN net' : l = Shift(n, k)
      /\ \A j, k \in DOMAIN net' : Shift(n, j) <= Shift(n, k) => j <= k
  BY <1>1, SettledNet
<1>. SUFFICES ASSUME faults = 0 PROVE NoneFailed' /\ UpToDate'
  BY DEF CatchesUp
<1>4. NoneFailed' /\ ~Reloads(net[n])
  BY <1>2 DEF NoneFailed, CatchesUp
<1>5. WillReload => WillReload'
  <2>. SUFFICES ASSUME NEW l \in DOMAIN net, net[l].op \in Writes, net[l].at = "answered"
                PROVE  WillReload'
    BY DEF WillReload
  <2>1. PICK k \in DOMAIN net' : l = Shift(n, k)
    BY <1>2
  <2>. QED
    BY <1>2, <2>1 DEF WillReload
<1>6. ASSUME NEW e \in Events, WillShow(e) PROVE WillShow(e)'
  <2>1. PICK l \in DOMAIN net :
          /\ Reloads(net[l])
          /\ \/ late
             \/ /\ \A k \in DOMAIN net : Reloads(net[k]) => k <= l
                /\ net[l].at = "answered" => net[l].ans[e] = stored[e]
    BY <1>6 DEF WillShow
  <2>2. PICK i \in DOMAIN net' : l = Shift(n, i)
    BY <1>2, <1>4, <2>1
  <2>3. (\A k \in DOMAIN net : Reloads(net[k]) => k <= l) =>
        (\A k \in DOMAIN net' : Reloads(net'[k]) => k <= i)
    BY <1>2, <2>2
  <2>. QED
    BY <1>2, <2>1, <2>2, <2>3 DEF WillShow
<1>7. ASSUME NEW e \in Events, IsShown(e) PROVE IsShown(e)'
  BY <1>2, <1>7 DEF IsShown, Shown
<1>. QED
  BY <1>4, <1>5, <1>6, <1>7 DEF CatchesUp, UpToDate

(* The widget shows an answer: it is the last, or another one will come. *)
LEMMA ShowShows == ASSUME EditorInv, CatchesUp, NEW n \in DOMAIN net, ShowOccurrences(n)
                   PROVE  CatchesUp'
<1>1. net \in Seq(Message) /\ n \in 1 .. Len(net) /\ Len(net) \in Nat /\ DOMAIN net = 1 .. Len(net)
  BY NetIs DEF EditorInv
<1>2. /\ Reloads(net[n]) /\ net[n].at = "answered" /\ net' = Settle(n)
      /\ cache' = [e \in Events |-> IF net[n].ans[e] # 0 THEN net[n].ans[e] ELSE cache[e]]
      /\ grid' = {e \in Events : net[n].ans[e] # 0}
      /\ late' = (late \/ Overtakes(n, {"occurrences"}))
      /\ UNCHANGED <<faults, stored, writer>>
  BY DEF ShowOccurrences, Answered, Reloads
<1>3. /\ DOMAIN net' = 1 .. Len(net) - 1
      /\ \A k \in DOMAIN net' : Shift(n, k) \in DOMAIN net \ {n} /\ net'[k] = net[Shift(n, k)]
      /\ \A l \in DOMAIN net \ {n} : \E k \in DOMAIN net' : l = Shift(n, k)
      /\ \A j, k \in DOMAIN net' : Shift(n, j) <= Shift(n, k) => j <= k
  BY <1>1, <1>2, SettledNet
<1>5. NoneFailed => NoneFailed'
  BY <1>3 DEF NoneFailed
<1>6. WillReload => WillReload'
  <2>. SUFFICES ASSUME NEW l \in DOMAIN net, net[l].op \in Writes, net[l].at = "answered"
                PROVE  WillReload'
    BY DEF WillReload
  <2>1. l # n
    BY <1>2 DEF Reloads, Writes
  <2>2. PICK k \in DOMAIN net' : l = Shift(n, k)
    BY <1>3, <2>1
  <2>. QED
    BY <1>3, <2>2 DEF WillReload
<1>7. ASSUME NEW e \in Events, WillShow(e) PROVE WillShow(e)' \/ IsShown(e)'
  <2>1. PICK l \in DOMAIN net :
          /\ Reloads(net[l])
          /\ \/ late
             \/ /\ \A k \in DOMAIN net : Reloads(net[k]) => k <= l
                /\ net[l].at = "answered" => net[l].ans[e] = stored[e]
    BY <1>7 DEF WillShow
  <2>2. CASE l # n
    <3>1. PICK i \in DOMAIN net' : l = Shift(n, i)
      BY <1>3, <2>2
    <3>2. (\A k \in DOMAIN net : Reloads(net[k]) => k <= l) =>
          (\A k \in DOMAIN net' : Reloads(net'[k]) => k <= i)
      BY <1>3, <3>1
    <3>. QED
      BY <1>2, <1>3, <2>1, <3>1, <3>2 DEF WillShow
  <2>3. CASE l = n /\ \E k \in DOMAIN net' : Reloads(net'[k])
    <3>1. PICK k \in DOMAIN net' : Reloads(net'[k])
      BY <2>3
    <3>2. late'
      <4>1. CASE late
        BY <1>2, <4>1
      <4>2. CASE Shift(n, k) <= n
        <5>1. Shift(n, k) \in 1 .. n - 1 /\ net[Shift(n, k)].op = "occurrences"
          BY <1>1, <1>3, <3>1, <4>2 DEF Reloads
        <5>. QED
          BY <1>2, <5>1 DEF Overtakes
      <4>. QED
        BY <1>3, <2>1, <2>3, <3>1, <4>1, <4>2
    <3>. QED
      BY <3>1, <3>2 DEF WillShow
  <2>4. CASE l = n /\ \A k \in DOMAIN net' : ~Reloads(net'[k])
    <3>1. late \/ net[n].ans[e] = stored[e]
      BY <1>2, <2>1, <2>4
    <3>2. late' \/ Shown(e)'
      BY <1>2, <3>1 DEF Shown
    <3>. QED
      BY <2>4, <3>2 DEF IsShown
  <2>. QED
    BY <2>2, <2>3, <2>4
<1>8. \A e : ~IsShown(e)
  BY <1>2 DEF IsShown
<1>. QED
  BY <1>2, <1>5, <1>6, <1>7, <1>8 DEF CatchesUp, UpToDate

LEMMA ServeShows ==
    ASSUME EditorInv, CatchesUp, NEW n \in DOMAIN net,
           \/ ServeOccurrences(n) \/ ApplySave(n) \/ RefuseSave(n) \/ ServeDelete(n)
           \/ ServeSeries(n)
    PROVE  CatchesUp'
<1>1. UNCHANGED <<faults, cache, grid, late>> /\ net[n].at = "sent"
  BY DEF ServeOccurrences, ApplySave, RefuseSave, ServeDelete, ServeSeries, Arrived, editor
<1>2. CASE ServeOccurrences(n)
  <2>. DEFINE m == [op |-> net[n].op, arg |-> net[n].arg, at |-> "answered", ans |-> stored]
  <2>1. /\ net' = [net EXCEPT ![n] = m] /\ m.op = net[n].op /\ Reloads(m) /\ m.at = "answered"
        /\ m.ans = stored /\ UNCHANGED <<stored, writer>>
    BY <1>2 DEF ServeOccurrences, Reply, Arrived, Reloads, editor
  <2>. HIDE DEF m
  <2>. QED
    BY <1>1, <2>1, ShownServed
<1>3. CASE \/ net' = Reply(n, {}) /\ net[n].op \in Writes
           \/ net' = Reject(n) /\ net[n].op \in Writes /\ UNCHANGED <<stored, writer>>
  <2>1. CASE net' = Reply(n, {}) /\ net[n].op \in Writes
    <3>. DEFINE m == [op |-> net[n].op, arg |-> net[n].arg, at |-> "answered", ans |-> {}]
    <3>1. net' = [net EXCEPT ![n] = m] /\ m.op = net[n].op /\ m.op \in Writes /\ m.at = "answered"
      BY <2>1 DEF Reply
    <3>. HIDE DEF m
    <3>. QED
      BY <1>1, <3>1, ShownServed
  <2>2. CASE net' = Reject(n) /\ net[n].op \in Writes /\ UNCHANGED <<stored, writer>>
    <3>. DEFINE m == [net[n] EXCEPT !.at = "failed"]
    <3>1. net[n] \in Message
      BY NetIs DEF EditorInv
    <3>2. m.op = net[n].op
      BY <3>1 DEF Message, Unanswered, Answer
    <3>3. net' = [net EXCEPT ![n] = m]
      BY <2>2 DEF Reject
    <3>. HIDE DEF m
    <3>. QED
      BY <1>1, <2>2, <3>2, <3>3, ShownServed
  <2>. QED
    BY <1>3, <2>1, <2>2
<1>4. ASSUME NEW at \in {"answered", "failed"}, net' = Served(n, at), Arrived(n, "save"),
             at = "answered" \/ UNCHANGED <<stored, writer>>
      PROVE  CatchesUp'
  <2>. DEFINE m == [op |-> "save", at |-> at, ans |-> {},
                    arg |-> [session |-> net[n].arg.session, text |-> net[n].arg.text,
                             via |-> net[n].arg.via]]
  <2>1. /\ net' = [net EXCEPT ![n] = m] /\ m.op = net[n].op /\ m.op \in Writes
        /\ m.at = "answered" \/ UNCHANGED <<stored, writer>>
    BY <1>4 DEF Served, Arrived, Writes
  <2>. HIDE DEF m
  <2>. QED
    BY <1>1, <2>1, ShownServed
<1>5. CASE ApplySave(n) \/ RefuseSave(n)
  BY <1>4, <1>5 DEF ApplySave, RefuseSave, editor
<1>6. CASE ServeDelete(n) \/ ServeSeries(n)
  BY <1>3, <1>6 DEF ServeDelete, ServeSeries, Arrived, Writes
<1>. QED
  BY <1>2, <1>5, <1>6

LEMMA ShownStep == EditorInv /\ CatchesUp /\ [EditorNext]_editorVars => CatchesUp'
<1>. SUFFICES ASSUME EditorInv, CatchesUp, [EditorNext]_editorVars PROVE CatchesUp'
  OBVIOUS
<1>1. CASE \/ UNCHANGED editorVars \/ Cancel \/ Discard \/ (Dismiss /\ UNCHANGED editor) \/ Add
           \/ \E mode \in {"edit", "occurrence", "split"}, e \in Events : Edit(mode, e)
           \/ \E where \in Texts : Type(where)
  <2>1. UNCHANGED <<net, faults, stored, writer, cache, grid, late>>
    BY <1>1 DEF editorVars, web, editor, Cancel, Discard, Dismiss, Add, Edit, Type
  <2>. QED
    BY <2>1, ShownIdle
<1>2. CASE Navigate
  BY <1>2, RefreshShows DEF Navigate, EditorInv
<1>3. ASSUME NEW m \in Message, ~Reloads(m), net' = Append(net, m),
             UNCHANGED <<faults, stored, writer, cache, grid, late>>
      PROVE  CatchesUp'
  BY <1>3, ShownAppended
<1>4. CASE Delete
  <2>1. PICK e, v, who : net' = Deletion(e, v, who)
    BY <1>4 DEF Delete
  <2>. DEFINE m == Request("delete", [event |-> e, base |-> v, etag |-> v, session |-> who])
  <2>2. net' = Append(net, m) /\ ~Reloads(m)
    BY <2>1 DEF Deletion, Request, Reloads
  <2>3. net' \in Seq(Message)
    BY <1>4, DeleteKeeps DEF Kept, EditorInv
  <2>4. m \in Message
    <3>1. Len(net') \in Nat /\ Len(net) + 1 \in 1 .. Len(net') /\ net'[Len(net) + 1] = m
      BY <2>2, <2>3, AppendProperties, LenProperties DEF EditorInv
    <3>. QED
      BY <2>3, <3>1, ElementOfSeq
  <2>. QED
    BY <1>3, <1>4, <2>2, <2>4 DEF Delete, editor
<1>5. ASSUME NEW e \in Events, DeletePart(e) PROVE CatchesUp'
  <2>1. Request("series", e) \in Message /\ ~Reloads(Request("series", e))
    BY DEF Message, Unanswered, Request, Reloads
  <2>. QED
    BY <1>3, <1>5, <2>1 DEF DeletePart, editor
<1>6. ASSUME NEW e \in Events, OthersWrite(e) PROVE CatchesUp'
  <2>1. PICK version : Write(e, version, "other")
    BY <1>6 DEF OthersWrite
  <2>2. UNCHANGED <<net, faults, cache, grid, late>>
    BY <1>6 DEF OthersWrite, web
  <2>3. writer'[e] = "other" /\ \A f \in Events \ {e} : writer'[f] = writer[f] /\ stored'[f] = stored[f]
    BY <2>1 DEF Write, EditorInv, EditorTypeOK
  <2>4. ASSUME NEW f \in Events \ {e}, WillShow(f) PROVE WillShow(f)'
    BY <2>2, <2>3, <2>4 DEF WillShow
  <2>5. ASSUME NEW f \in Events \ {e}, IsShown(f) PROVE IsShown(f)'
    BY <2>2, <2>3, <2>5 DEF IsShown, Shown
  <2>. QED
    BY <2>2, <2>3, <2>4, <2>5 DEF CatchesUp, NoneFailed, UpToDate, WillReload
<1>7. CASE \E via \in {"button", "enter"} : Save(via)
  <2>1. PICK via \in Via : Save(via)
    BY <1>7 DEF Via
  <2>. DEFINE arg == [session |-> form.session, mode |-> form.mode, event |-> form.event,
                      base |-> form.etag, etag |-> form.etag, text |-> form.text, via |-> via]
              m == Request("save", arg)
  <2>2. arg \in SaveArg
    BY <2>1 DEF Save, EditorInv, EditorTypeOK, FormOfEvent, Version, SaveArg
  <2>3. net' = Append(net, m) /\ UNCHANGED <<faults, stored, writer, cache, grid, late>>
    BY <2>1 DEF Save
  <2>. HIDE DEF arg
  <2>4. m \in Message /\ ~Reloads(m)
    BY <2>2 DEF Message, Unanswered, Request, Reloads
  <2>. QED
    BY <1>3, <2>3, <2>4
<1>8. ASSUME NEW n \in DOMAIN net,
             \/ ServeOccurrences(n) \/ ApplySave(n) \/ RefuseSave(n) \/ ServeDelete(n)
             \/ ServeSeries(n)
      PROVE  CatchesUp'
  BY <1>8, ServeShows
<1>9. ASSUME NEW n \in DOMAIN net, Saved(n) \/ Deleted(n) \/ PartDeleted(n) PROVE CatchesUp'
  <2>1. Refresh(Settle(n)) /\ UNCHANGED faults
    BY <1>9 DEF Saved, Deleted, PartDeleted, Finish
  <2>2. Settle(n) \in Seq(Message) /\ \A k \in DOMAIN Settle(n) : \E l \in DOMAIN net : Settle(n)[k] = net[l]
    <3>1. /\ Settle(n) \in Seq(Message) /\ DOMAIN Settle(n) = 1 .. Len(net) - 1
          /\ \A k \in 1 .. Len(net) - 1 : Shift(n, k) \in DOMAIN net /\ Settle(n)[k] = net[Shift(n, k)]
      BY SettledAt DEF EditorInv
    <3>. QED
      BY <3>1
  <2>. QED
    BY <2>1, <2>2, RefreshShows
<1>10. ASSUME NEW n \in DOMAIN net, EditorFailed(n) PROVE CatchesUp'
  BY <1>10, ShownSettled DEF EditorFailed, ShowError, Ignore, Failed, editor
<1>11. ASSUME NEW n \in DOMAIN net, ShowOccurrences(n) PROVE CatchesUp'
  BY <1>11, ShowShows
<1>12. ASSUME NEW n \in DOMAIN net, LoseEditorAnswer(n) \/ SessionExpired(n) PROVE CatchesUp'
  BY <1>12 DEF LoseEditorAnswer, Lose, SessionExpired, CatchesUp
<1>. QED
  BY <1>1, <1>2, <1>4, <1>5, <1>6, <1>7, <1>8, <1>9, <1>10, <1>11, <1>12 DEF EditorNext

LEMMA ShownStarts == EditorInit => CatchesUp
BY EmptySeq DEF EditorInit, WebInit, CatchesUp, NoneFailed, UpToDate

LEMMA ShownInTheEnd == CatchesUp => GridCurrent
<1>1. Quiet => DOMAIN net = {}
  BY DEF Quiet
<1>. QED
  BY <1>1 DEF CatchesUp, UpToDate, WillReload, WillShow, IsShown, Shown, GridCurrent

(* app.js, refetch and eventCache: without a loss, and unless an answer has   *)
(* overtaken an earlier one since the widget was idle, the widget and the      *)
(* cache show what the saves and deletions of any number of events have done   *)
(* once everything is answered.                                             *)
THEOREM GridCatchesUp == EditorSpec => []GridCurrent
<1>. QED
  BY EditorInvariant, ShownStarts, ShownStep, ShownInTheEnd, PTL DEF EditorSpec

================================================================================
