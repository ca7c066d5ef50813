------------------------------- MODULE EventForm -------------------------------
(***************************************************************************)
(* What becomes of the fields of an event on their way from the server       *)
(* through the event modal and back: openEventModal fills the form from an   *)
(* entry of the occurrences feed, the user edits some of the fields, and     *)
(* saveEvent sends them by one of four requests, each of which the server     *)
(* merges in its own way.  The modal and its races are in EventEditor; here   *)
(* a save is one step.                                                        *)
(*                                                                            *)
(* details  stands for the link, status, class, transparency and description  *)
(* rrule    "" for none; the picker knows a rule of frequency, interval, end  *)
(* location a text, or a place the picker returned                            *)
(* guests   the attendees; a set                                              *)
(* span     timed or all-day                                                  *)
(***************************************************************************)
EXTENDS Naturals

CONSTANTS Guests, Venues,
          MaxDrafts, MaxDraftEdits      \* bounds: openings of the modal, edits in all

ASSUME FormAssumption == MaxDrafts \in Nat /\ MaxDraftEdits \in Nat

VARIABLES series,        \* the event on the server
          draft,         \* the form: what its fields hold, and what it was opened for
          meant,          \* history: what the event is to become, by the user's edits
          made,          \* what the last save stored, and which draft it was of
          drafts, edits

formState == <<series, draft, meant, made, drafts, edits>>

Blank == ""
PickerRules == {"daily", "weekly"}
Rules == PickerRules \cup {"rich"}
NoLocation == [venue |-> Blank, text |-> Blank]
TextOnly(t) == [venue |-> Blank, text |-> t]
Picked(v) == [venue |-> v, text |-> v]

Contents == [details : {Blank, "details"}, rrule : Rules \cup {Blank},
             location : {NoLocation, TextOnly("hall")} \cup {Picked(v) : v \in Venues},
             guests : SUBSET Guests, span : {"timed", "all-day"}]
FormFields == {"details", "rrule", "location", "guests", "span"}
BlankEvent == [details |-> Blank, rrule |-> Blank, location |-> NoLocation,
               guests |-> {}, span |-> "timed"]

(* Only a series has occurrences to edit and a point to split it at. *)
ModesFor(event) == {"create", "edit"} \cup
                   (IF event.rrule # Blank THEN {"occurrence", "split"} ELSE {})

NoDraft == [open |-> FALSE]

DraftInit == /\ series \in Contents
             /\ draft = NoDraft
             /\ meant = series /\ made = [what |-> series, of |-> 0]
             /\ drafts = 0 /\ edits = 0

---------------------------------------------------------------------------
(* External: the occurrences endpoint, which leaves the attendees out. *)
Feed(event) == [event EXCEPT !.guests = {}]

(* applyRruleToForm: a rule the picker cannot show leaves it blank. *)
PickerFor(mode, rrule) == IF mode # "occurrence" /\ rrule \in PickerRules THEN rrule ELSE Blank
Unknown(mode, rrule) == mode # "occurrence" /\ rrule = "rich"

OpenDraft(mode) ==
    /\ ~draft.open /\ drafts < MaxDrafts /\ mode \in ModesFor(series)
    /\ LET e == IF mode = "create" THEN BlankEvent ELSE Feed(series) IN
       draft' = [open |-> TRUE, mode |-> mode, details |-> e.details,
                 repeat |-> PickerFor(mode, e.rrule), rruleUnknown |-> Unknown(mode, e.rrule),
                 placeLocation |-> e.location.venue, picked |-> FALSE,
                 text |-> e.location.text, guests |-> e.guests, span |-> e.span]
    /\ meant' = IF mode = "create" THEN BlankEvent
               ELSE IF mode = "occurrence" THEN [series EXCEPT !.rrule = Blank]
               ELSE series
    /\ drafts' = drafts + 1
    /\ UNCHANGED <<series, made, edits>>

DraftEdit == draft.open /\ edits < MaxDraftEdits /\ edits' = edits + 1

EditDetails(d) == /\ DraftEdit /\ d # draft.details
                  /\ draft' = [draft EXCEPT !.details = d]
                  /\ meant' = [meant EXCEPT !.details = d]
                  /\ UNCHANGED <<series, made, drafts>>

(* The picker is hidden while a single occurrence is edited. *)
PickRepeat(r) == /\ DraftEdit /\ r # draft.repeat /\ draft.mode # "occurrence"
                 /\ draft' = [draft EXCEPT !.repeat = r]
                 /\ meant' = [meant EXCEPT !.rrule = r]
                 /\ UNCHANGED <<series, made, drafts>>

(* Only a place picked since the modal was opened is dropped with its text. *)
EditLocation(t) ==
    /\ DraftEdit /\ t # draft.text
    /\ draft' = [draft EXCEPT !.text = t,
                              !.placeLocation = IF draft.picked THEN Blank ELSE @,
                              !.picked = FALSE]
    /\ meant' = [meant EXCEPT !.location = TextOnly(t)]
    /\ UNCHANGED <<series, made, drafts>>

PickVenue(v) == /\ DraftEdit
                /\ draft' = [draft EXCEPT !.placeLocation = v, !.picked = TRUE, !.text = v]
                /\ meant' = [meant EXCEPT !.location = Picked(v)]
                /\ UNCHANGED <<series, made, drafts>>

AddGuest(g) == /\ DraftEdit /\ g \notin draft.guests
               /\ draft' = [draft EXCEPT !.guests = @ \cup {g}]
               /\ meant' = [meant EXCEPT !.guests = @ \cup {g}]
               /\ UNCHANGED <<series, made, drafts>>

DropGuest(g) == /\ DraftEdit /\ g \in draft.guests
                /\ draft' = [draft EXCEPT !.guests = @ \ {g}]
                /\ meant' = [meant EXCEPT !.guests = @ \ {g}]
                /\ UNCHANGED <<series, made, drafts>>

EditSpan == /\ DraftEdit
            /\ LET s == IF draft.span = "timed" THEN "all-day" ELSE "timed" IN
               /\ draft' = [draft EXCEPT !.span = s]
               /\ meant' = [meant EXCEPT !.span = s]
            /\ UNCHANGED <<series, made, drafts>>

AbandonDraft == /\ draft.open
                /\ draft' = NoDraft /\ meant' = series
                /\ UNCHANGED <<series, made, drafts, edits>>

---------------------------------------------------------------------------
(* saveEvent: null for what is blank; no rule for an occurrence, and none for *)
(* a series whose rule the picker could not show.                             *)
(* Mistake: the place is sent without looking at the text. *)
LocationIgnoringText == IF draft.placeLocation # Blank THEN Picked(draft.placeLocation) ELSE NoLocation
LocationSent == IF draft.placeLocation # Blank THEN Picked(draft.placeLocation)
                ELSE TextOnly(draft.text)

Body == [details |-> draft.details, location |-> LocationSent, guests |-> draft.guests,
         rrule |-> IF draft.mode = "occurrence" \/ draft.rruleUnknown THEN Blank ELSE draft.repeat,
         span |-> draft.span]

(* External: what is null in the body keeps the value of the event. *)
Or(value, kept) == IF value = Blank THEN kept ELSE value
Merge(body, event) == [body EXCEPT !.details = Or(@, event.details),
                                   !.location = IF @ = NoLocation THEN event.location ELSE @]

(* create_event takes the body as it is; patch_event has no rule to patch;     *)
(* split_event_handler lets the continuation repeat as the series does.        *)
Stored(mode) == CASE mode \in {"create", "occurrence"} -> Body
                  [] mode = "edit" -> [Merge(Body, series) EXCEPT !.rrule = series.rrule]
                  [] mode = "split" -> [Merge(Body, series) EXCEPT !.rrule = Or(@, series.rrule)]

(* A continuation with a start and a start date violates a CHECK constraint. *)
SplitRefused == draft.mode = "split" /\ draft.span # series.span

(* After a save the modal closes; the next one is opened for what was stored, *)
(* or for the series that it was an occurrence of.                            *)
SaveDraft == /\ draft.open /\ ~SplitRefused
             /\ made' = [what |-> Stored(draft.mode), of |-> drafts]
             /\ series' = IF draft.mode = "occurrence" THEN series ELSE Stored(draft.mode)
             /\ draft' = NoDraft /\ meant' = series'
             /\ UNCHANGED <<drafts, edits>>

FormNext == \/ \E mode \in {"create", "edit", "occurrence", "split"} : OpenDraft(mode)
            \/ \E d \in {Blank, "details"} : EditDetails(d)
            \/ \E r \in PickerRules \cup {Blank} : PickRepeat(r)
            \/ \E t \in {Blank, "hall", "room"} : EditLocation(t)
            \/ \E v \in Venues : PickVenue(v)
            \/ \E g \in Guests : AddGuest(g) \/ DropGuest(g)
            \/ EditSpan \/ AbandonDraft \/ SaveDraft

FormSpec == DraftInit /\ [][FormNext]_formState

---------------------------------------------------------------------------
Altered(f) == meant[f] # series[f]
Cleared(f, none) == meant[f] = none /\ Altered(f)

(* What a save loses of the user's intentions, by the request that is sent. *)
Loses(f) ==
    CASE f = "details" -> draft.mode \in {"edit", "split"} /\ Cleared("details", Blank)
      [] f = "rrule" -> \/ draft.mode = "edit" /\ Altered("rrule")
                        \/ /\ draft.mode = "split" /\ Altered("rrule")
                           /\ meant.rrule = Blank \/ draft.rruleUnknown
      [] f = "location" -> \/ draft.mode \in {"edit", "split"} /\ Cleared("location", NoLocation)
                           \/ /\ draft.mode # "create" /\ Altered("location")
                              /\ series.location.venue # Blank /\ ~draft.picked
      [] f = "guests" -> draft.mode # "create" /\ series.guests # {}
      [] OTHER -> FALSE

(* A save stores what the user meant: every field that was edited as it was    *)
(* edited, and every other as the event had it.  The exceptions are named:     *)
(* clearing a detail or the location of an existing event, changing its rule,  *)
(* editing the text of a place, and the attendees the event had.               *)
SavedButForLosses ==
    [][made' # made => \A f \in FormFields : Loses(f) \/ made'.what[f] = meant[f]]_formState

(* lib.rs:1414, of the attendees of a patch: "Some(_) replaces the attendee    *)
(* set entirely; None leaves it untouched"; app.js:995 fills the list that is  *)
(* sent from the event.  So a save that does not touch the attendees keeps     *)
(* them.                                                                       *)
AttendeesKept ==
    [][made' # made /\ draft.mode = "edit" => meant.guests \subseteq made'.what.guests]_formState
================================================================================
