------------------------------ MODULE EventEditor ------------------------------
(***************************************************************************)
(* The event modal of the index page and the events behind it: what the    *)
(* calendar widget shows, the cache its pills are looked up in, the modal  *)
(* with its four ways to save, deletion, and the guard against losing what *)
(* was typed.  Answers arrive in any order while the user goes on working. *)
(*                                                                         *)
(* An event is its version: a number that stands for its content and its   *)
(* etag.  What the fields of the form become is in EventForm.              *)
(***************************************************************************)
EXTENDS WebRequests

CONSTANTS Events, Sessions, MaxVersion,
          Texts                 \* what is edited: "fields", "description"

ASSUME EditorAssumption == /\ MaxVersion \in Nat \ {0, 1}
                           /\ Texts \subseteq {"fields", "description"}

VARIABLES stored,    \* Events -> version on the server, 0 when there is no event
          writer,    \* Events -> who wrote that version
          clock,     \* the last version handed out
          cache,     \* state.eventCache
          grid,      \* the events with a pill in the widget
          form,      \* the modal; its openings are told apart by a session
          created,   \* the sessions of the modal whose saves have created an event
          doubled,   \* those submitted again, before or after an unseen success
          late       \* since the widget last was idle, an answer overtook an earlier one

editor == <<stored, writer, clock, cache, grid, form, created, doubled, late>>
editorVars == <<web, editor>>

None == "none"
Modes == {"create", "edit", "occurrence", "split"}
ClosedForm == [open |-> FALSE, mode |-> "create", event |-> None, etag |-> 0,
               dirty |-> FALSE, text |-> {}, raced |-> FALSE, session |-> None]

EditorInit ==
    /\ WebInit(<<>>)
    /\ stored = [e \in Events |-> 2] /\ clock = 2
    /\ writer = [e \in Events |-> "other"]
    /\ cache \in [Events -> {1, 2}] /\ grid = Events
    /\ form = ClosedForm
    /\ created = {} /\ doubled = {} /\ late = FALSE

Writes == {"save", "delete", "series"}
Seen(e) == cache[e]

---------------------------------------------------------------------------
(* The calendar widget *)

Occurrences == Request("occurrences", {})

(* The widget loads the period it shows. *)
Refresh(rest) == /\ net' = Append(rest, Occurrences)
                 /\ late' = (late /\ Waiting({"occurrences"}))

(* Bound: the calendar itself is used with one request fewer under way.  *)
MayAct == UserMayAct /\ ~form.open /\ Len(net) + 1 < MaxRequests

Navigate == /\ MayAct
            /\ Refresh(net)
            /\ UNCHANGED <<faults, popup, page, stored, writer, clock, cache, grid, form,
                           created, doubled>>

ServeOccurrences(n) == /\ Arrived(n, "occurrences")
                       /\ net' = Reply(n, stored)
                       /\ UNCHANGED <<faults, popup, page, editor>>

ShowOccurrences(n) ==
    /\ Answered(n, "occurrences")
    /\ LET rows == net[n].ans IN
       /\ cache' = [e \in Events |-> IF rows[e] # 0 THEN rows[e] ELSE cache[e]]
       /\ grid' = {e \in Events : rows[e] # 0}
    /\ late' = (late \/ Overtakes(n, {"occurrences"}))
    /\ net' = Settle(n)
    /\ UNCHANGED <<faults, popup, page, stored, writer, clock, form, created, doubled>>

---------------------------------------------------------------------------
(* The modal *)

(* The sessions of saves under way. *)
InUse == {net[n].arg.session : n \in {m \in DOMAIN net : net[m].op = "save"}}
MayOpen == ~form.open /\ Sessions \ InUse # {}

Open(mode, e, version) ==
    /\ \E s \in Sessions \ InUse :
         form' = [open |-> TRUE, mode |-> mode, event |-> e,
                  etag |-> IF mode = "edit" THEN version ELSE 0,
                  dirty |-> FALSE, text |-> {}, raced |-> FALSE, session |-> s]
    /\ created' = created \cap InUse
    /\ doubled' = doubled \cap InUse

Add == /\ UserMayAct /\ MayOpen
       /\ Open("create", None, 0)
       /\ UNCHANGED <<web, stored, writer, clock, cache, grid, late>>

(* onEdit: a series asks which part of it is meant; an event that is none   *)
(* behaves like a series of which all is meant.  A question and its answer   *)
(* are one step: the dialog carries the event it was opened for, and is      *)
(* replaced when an answer of the server arrives meanwhile.                  *)
Edit(mode, e) == /\ UserMayAct /\ MayOpen /\ e \in grid
                 /\ Open(mode, e, Seen(e))
                 /\ UNCHANGED <<web, stored, writer, clock, cache, grid, late>>

(* Only inputs, selects and text areas report a change: the description is  *)
(* a contenteditable and the attendees are buttons.                         *)
Type(where) ==
    /\ UserMayAct /\ form.open
    /\ where \notin form.text
    /\ form' = [form EXCEPT !.text = @ \cup {where}, !.dirty = @ \/ where = "fields",
                            !.raced = @ \/ Waiting(Writes)]
    /\ UNCHANGED <<web, stored, writer, clock, cache, grid, created, doubled, late>>

Close == form' = ClosedForm

(* Mistake: the modal closes without asking. *)
CancelUnasked == /\ UserMayAct /\ form.open
                 /\ Close
                 /\ UNCHANGED <<web, stored, writer, clock, cache, grid, created, doubled, late>>

(* hide.bs.modal *)
Cancel == /\ UserMayAct /\ form.open
          /\ \/ form.dirty /\ popup' = [kind |-> "discard"] /\ UNCHANGED form
             \/ ~form.dirty /\ Close /\ UNCHANGED popup
          /\ UNCHANGED <<net, faults, page, stored, writer, clock, cache, grid, created,
                         doubled, late>>

Discard == /\ page = "open" /\ popup.kind = "discard"
           /\ Close
           /\ popup' = NoPopup
           /\ UNCHANGED <<net, faults, page, stored, writer, clock, cache, grid, created,
                          doubled, late>>

(* api() disables the element that has the focus: the Save button when it  *)
(* was clicked, nothing when Enter was pressed in a field.                 *)
(* Mistake: api() disables nothing. *)
NothingDisabled == FALSE
Disabled == \E n \in DOMAIN net : net[n].op = "save" /\ net[n].arg.via = "button"

(* The form is under way already, and Enter left the Save button enabled. *)
Resubmitted == \E n \in DOMAIN net : /\ net[n].op = "save" /\ net[n].arg.via = "enter"
                                     /\ net[n].arg.session = form.session

(* Mistake: the etag is looked up when the form is sent, not when it is filled. *)
SaveCachedEtag(via) ==
    /\ MaySend /\ form.open /\ ~Disabled
    /\ net' = Append(net, Request("save",
                 [session |-> form.session, mode |-> form.mode, event |-> form.event,
                  base |-> form.etag, text |-> form.text, via |-> via,
                  etag |-> IF form.mode = "edit" THEN cache[form.event] ELSE 0]))
    /\ doubled' = IF Resubmitted THEN doubled \cup {form.session} ELSE doubled
    /\ UNCHANGED <<faults, popup, page, stored, writer, clock, cache, grid, form, created,
                   late>>

Save(via) ==
    /\ MaySend /\ form.open /\ ~Disabled
    /\ net' = Append(net, Request("save",
                 [session |-> form.session, mode |-> form.mode, event |-> form.event,
                  base |-> form.etag, etag |-> form.etag, text |-> form.text, via |-> via]))
    /\ doubled' = IF Resubmitted THEN doubled \cup {form.session} ELSE doubled
    /\ UNCHANGED <<faults, popup, page, stored, writer, clock, cache, grid, form, created,
                   late>>

Deletion(e, version, session) ==
    Append(net, Request("delete", [event |-> e, base |-> version, etag |-> version,
                                   session |-> session]))

(* From the modal, or from a pill: onDelete. *)
Delete == /\ \/ MaySend /\ form.open /\ form.mode = "edit"
                /\ net' = Deletion(form.event, form.etag, form.session)
             \/ MayAct /\ \E e \in grid : net' = Deletion(e, Seen(e), None)
          /\ UNCHANGED <<faults, popup, page, editor>>

(* cancelOccurrence and truncateSeries send no etag. *)
DeletePart(e) == /\ MayAct /\ e \in grid
                 /\ net' = Append(net, Request("series", e))
                 /\ UNCHANGED <<faults, popup, page, editor>>

---------------------------------------------------------------------------
(* The server *)

Write(e, version, who) == /\ stored' = [stored EXCEPT ![e] = version]
                          /\ writer' = [writer EXCEPT ![e] = who]
                          /\ clock' = clock + 1
(* Mistake: the session of a creation is not noted. *)
CreateUnnoted(s) == created' = created \cup {None}
Create(s) == created' = created \cup {s}

Accepts(r) == CASE r.mode = "create" -> TRUE
                [] r.mode = "edit" -> stored[r.event] # 0 /\ stored[r.event] = r.etag
                [] r.mode \in {"occurrence", "split"} -> stored[r.event] # 0

(* All that an answer needs of its request. *)
Served(n, at) == [net EXCEPT ![n] = [op |-> "save", at |-> at, ans |-> {},
                                     arg |-> [session |-> net[n].arg.session,
                                              text |-> net[n].arg.text,
                                              via |-> net[n].arg.via]]]

ApplySave(n) ==
    /\ Arrived(n, "save") /\ clock < MaxVersion
    /\ LET r == net[n].arg IN
       /\ Accepts(r)
       /\ \/ r.mode = "create" /\ Create(r.session) /\ UNCHANGED <<stored, writer, clock>>
          \/ r.mode = "edit" /\ Write(r.event, clock + 1, "editor") /\ UNCHANGED created
          \/ r.mode = "occurrence" /\ Write(r.event, clock + 1, "series") /\ UNCHANGED created
          \/ r.mode = "split" /\ Write(r.event, clock + 1, "series") /\ Create(r.session)
    /\ net' = Served(n, "answered")
    /\ UNCHANGED <<faults, popup, page, cache, grid, form, doubled, late>>

(* An occurrence that has an override already is refused as well. *)
RefuseSave(n) == /\ Arrived(n, "save")
                 /\ ~Accepts(net[n].arg) \/ net[n].arg.mode = "occurrence"
                 /\ net' = Served(n, "failed")
                 /\ UNCHANGED <<faults, popup, page, editor>>

ServeDelete(n) ==
    /\ Arrived(n, "delete")
    /\ LET r == net[n].arg IN
       IF stored[r.event] # 0 /\ stored[r.event] = r.etag
       THEN clock < MaxVersion /\ net' = Reply(n, {}) /\ Write(r.event, 0, "editor")
       ELSE net' = Reject(n) /\ UNCHANGED <<stored, writer, clock>>
    /\ UNCHANGED <<faults, popup, page, cache, grid, form, created, doubled, late>>

ServeSeries(n) ==
    /\ Arrived(n, "series")
    /\ IF stored[net[n].arg] # 0
       THEN clock < MaxVersion /\ net' = Reply(n, {}) /\ Write(net[n].arg, clock + 1, "series")
       ELSE net' = Reject(n) /\ UNCHANGED <<stored, writer, clock>>
    /\ UNCHANGED <<faults, popup, page, cache, grid, form, created, doubled, late>>

OthersWrite(e) == /\ page = "open" /\ clock < MaxVersion /\ stored[e] # 0
                  /\ \E version \in {0, clock + 1} : Write(e, version, "other")
                  /\ UNCHANGED <<web, cache, grid, form, created, doubled, late>>

---------------------------------------------------------------------------
(* Answers *)

(* The modal is hidden, the toast takes the place of a popup, and the widget *)
(* loads its period again.                                                  *)
Finish(n) == /\ Close
             /\ popup' = NoPopup
             /\ Refresh(Settle(n))
             /\ UNCHANGED <<faults, page, stored, writer, clock, cache, grid, created,
                            doubled>>

Saved(n) == Answered(n, "save") /\ Finish(n)
Deleted(n) == Answered(n, "delete") /\ Finish(n)

(* Mistake: the widget is not refreshed after a part of a series went. *)
PartDeletedUnseen(n) == /\ Answered(n, "series")
                        /\ popup' = NoPopup
                        /\ net' = Settle(n)
                        /\ UNCHANGED <<faults, page, editor>>

PartDeleted(n) == /\ Answered(n, "series")
                  /\ popup' = NoPopup
                  /\ Refresh(Settle(n))
                  /\ UNCHANGED <<faults, page, stored, writer, clock, cache, grid, form,
                                 created, doubled>>

(* A save that failed is one the user will repeat; it may have succeeded. *)
EditorFailed(n) ==
    \/ net[n].op \in Writes /\ ShowError(n) /\ UNCHANGED editor
    \/ net[n].op = "occurrences" /\ Ignore(n) /\ UNCHANGED editor

LoseEditorAnswer(n) ==
    /\ Lose(n)
    /\ doubled' = IF Answered(n, "save") THEN doubled \cup {net[n].arg.session} ELSE doubled
    /\ UNCHANGED <<stored, writer, clock, cache, grid, form, created,
                   late>>

EditorNext ==
    \/ Navigate \/ Add \/ Cancel \/ Discard \/ Delete
    \/ \E e \in Events : DeletePart(e) \/ OthersWrite(e)
    \/ \E mode \in {"edit", "occurrence", "split"}, e \in Events : Edit(mode, e)
    \/ \E where \in Texts : Type(where)
    \/ \E via \in {"button", "enter"} : Save(via)
    \/ \E n \in DOMAIN net :
         \/ ServeOccurrences(n) \/ ApplySave(n) \/ RefuseSave(n) \/ ServeDelete(n) \/ ServeSeries(n)
         \/ ShowOccurrences(n) \/ Saved(n) \/ Deleted(n) \/ PartDeleted(n) \/ EditorFailed(n)
         \/ LoseEditorAnswer(n)
         \/ SessionExpired(n) /\ UNCHANGED editor
    \/ Dismiss /\ UNCHANGED editor

EditorSpec == EditorInit /\ [][EditorNext]_editorVars

---------------------------------------------------------------------------
EditorTypeOK ==
    /\ stored \in [Events -> 0 .. MaxVersion] /\ cache \in [Events -> 0 .. MaxVersion]
    /\ clock \in 1 .. MaxVersion
    /\ writer \in [Events -> {"editor", "series", "other"}]
    /\ grid \subseteq Events
    /\ form \in [open : BOOLEAN, mode : Modes, event : Events \cup {None},
                 etag : 0 .. MaxVersion, dirty : BOOLEAN,
                 text : SUBSET Texts, raced : BOOLEAN, session : Sessions \cup {None}]
    /\ created \subseteq Sessions /\ doubled \subseteq Sessions
    /\ late \in BOOLEAN

(* The saves and deletions of whole events that are on their way, as the    *)
(* event and the version the user had before his eyes.                      *)
Underway == {<<net[n].arg.event, net[n].arg.base>> :
               n \in {m \in DOMAIN net : \/ Arrived(m, "delete")
                                         \/ Arrived(m, "save") /\ net[m].arg.mode = "edit"}}

Promise == INSTANCE EventEditing WITH Event <- Events, Version <- 0 .. MaxVersion,
                                      stored <- stored, writer <- writer, pending <- Underway

(* Nobody's change of an event is overwritten or deleted unseen by a save   *)
(* or a deletion of the whole event, whatever is under way: If-Match of     *)
(* saveEvent and deleteEvent.                                               *)
ImplementsEventEditing == Promise!Spec

(* The modal with text in its fields is closed by the user, who was asked,  *)
(* by the deletion of its event, or by the answer to the save of that text: *)
(* done() hides whatever modal is open by then, so text typed while a save  *)
(* or a deletion was under way is lost.  The description has no such guard: *)
(* the dirty flag misses it.                                                *)
Carries(n) == /\ Answered(n, "save") \/ Answered(n, "delete")
              /\ net[n].arg.session = form.session
              /\ net[n].op = "save" => net[n].arg.text = form.text
TextKept ==
    [][form.open /\ "fields" \in form.text /\ ~form'.open =>
         popup.kind = "discard" \/ form.raced \/ \E n \in DOMAIN net : Carries(n)]_editorVars

(* One opened form creates one event, unless it was submitted again: with   *)
(* Enter, which disables no button, or after a success the browser did not   *)
(* see.                                                                     *)
Creates(n) == /\ Arrived(n, "save") /\ net[n].arg.mode \in {"create", "split"}
              /\ net' = Served(n, "answered")
CreatedOnce ==
    [][\A n \in DOMAIN net :
         Creates(n) => net[n].arg.session \notin created \ doubled]_editorVars

(* When everything is answered, in order and without a loss, the widget and  *)
(* the cache show what the user's own saves and deletions have done.         *)
GridCurrent ==
    Quiet /\ page = "open" /\ faults = 0 /\ ~late =>
        \A e \in Events : writer[e] # "other" =>
            /\ e \in grid <=> stored[e] # 0
            /\ stored[e] # 0 => cache[e] = stored[e]

================================================================================
