------------------------------ MODULE SearchBoxes ------------------------------
(***************************************************************************)
(* The boxes that search while the user types: attendees and the place in  *)
(* the event modal.  A search starts when typing has paused, its answer     *)
(* fills a menu, and a pick from the menu fills the form.  The box for the   *)
(* people of the sharing dialog works like that for attendees.              *)
(***************************************************************************)
EXTENDS WebRequests

CONSTANTS Typings,       \* texts long enough to be searched for
          Persons, Places,
          MaxStrokes     \* what the user does

NoText == "no text"

ASSUME BoxesAssumption == NoText \notin Typings /\ MaxStrokes \in Nat

VARIABLES typed,         \* the text of each box
          timer,         \* the text each box will search for, or NoText
          menu,          \* what each box offers
          attendees,     \* state.editingAttendees
          place,         \* state.placeLocation
          picked,        \* pickedPlace is set: the place was picked in this form
          edited,        \* history: the text of the place that came with the event was edited
          overtyped,     \* history: the menu of the place was filled for a text typed over
          stray,         \* history: boxes whose menu may stay so
          strokes

boxes == <<typed, timer, menu, attendees, place, picked, edited, overtyped, stray, strokes>>
boxesVars == <<web, boxes>>

Boxes == {"attendee", "place"}
Short == "short"         \* less than two characters
NoMenu == [text |-> NoText, offers |-> {}]
NoPlace == "no place"

BoxesInit == /\ typed = [b \in Boxes |-> Short] /\ timer = [b \in Boxes |-> NoText]
             /\ menu = [b \in Boxes |-> NoMenu]
             /\ attendees = <<>> /\ place = NoPlace /\ picked = FALSE
             /\ edited = FALSE /\ overtyped = FALSE /\ stray = {} /\ strokes = 0

---------------------------------------------------------------------------
Stroke == strokes < MaxStrokes /\ strokes' = strokes + 1
Searching(b) == timer'[b] # NoText \/ Waiting({b})

(* openEventModal for an event with these attendees and this place: a new   *)
(* form, the timers go on.                                                  *)
FillForm(people, p) ==
    /\ UserMayAct /\ Stroke
    /\ typed' = [b \in Boxes |-> IF b = "place" /\ p # NoPlace THEN p ELSE Short]
    /\ menu' = [b \in Boxes |-> NoMenu]        \* the click that opens it closes the other menu
    /\ attendees' = people /\ place' = p /\ picked' = FALSE /\ edited' = FALSE
    /\ timer' = timer /\ overtyped' = FALSE
    /\ stray' = stray \cup {b \in Boxes : Searching(b)}
    /\ UNCHANGED web

(* Mistake: typing leaves the menu of the place open. *)
HideNothing(b) == menu
HideMenu(b) == IF b = "place" THEN [menu EXCEPT ![b] = NoMenu] ELSE menu

(* Mistake: the structured place is kept whatever is typed. *)
PlaceKept(t) == place
PlaceAfter(t) == IF picked /\ t # place THEN NoPlace ELSE place

TypeText(b, t) ==
    /\ UserMayAct /\ Stroke /\ t # typed[b]
    /\ typed' = [typed EXCEPT ![b] = t]
    /\ IF b = "place"
       THEN /\ place' = PlaceAfter(t)
            /\ picked' = (picked /\ t = place)
            /\ edited' = (edited \/ (~picked /\ place # NoPlace))
       ELSE UNCHANGED <<place, picked, edited>>
    /\ IF t = Short                     \* the place returns before it clears its timer
       THEN /\ timer' = IF b = "place" THEN timer ELSE [timer EXCEPT ![b] = NoText]
            /\ menu' = [menu EXCEPT ![b] = NoMenu]
       ELSE /\ timer' = [timer EXCEPT ![b] = t]
            /\ menu' = HideMenu(b)
    /\ overtyped' = (overtyped /\ b # "place")
    /\ stray' = IF t # Short THEN stray \ {b}     \* what it holds will be searched for last
                ELSE IF Searching(b) THEN stray \cup {b} ELSE stray
    /\ UNCHANGED <<web, attendees>>

TimerFires(b) == /\ page = "open" /\ timer[b] # NoText
                 /\ net' = Append(net, Request(b, timer[b]))
                 /\ timer' = [timer EXCEPT ![b] = NoText]
                 /\ UNCHANGED <<faults, popup, page, typed, menu, attendees, place, picked, edited,
                                overtyped, stray, strokes>>

(* Mistake: a pick leaves the results open. *)
ResultsKept == menu
ResultsHidden == [menu EXCEPT !["attendee"] = NoMenu]

PickAttendee(who) ==
    /\ UserMayAct /\ Stroke /\ who \in menu["attendee"].offers
    /\ attendees' = Append(attendees, who)
    /\ typed' = [typed EXCEPT !["attendee"] = Short]
    /\ menu' = ResultsHidden
    /\ timer' = timer
    /\ stray' = IF Searching("attendee") THEN stray \cup {"attendee"} ELSE stray
    /\ UNCHANGED <<web, place, picked, edited, overtyped>>

PickPlace(p) == /\ UserMayAct /\ Stroke /\ p \in menu["place"].offers
                /\ menu' = [menu EXCEPT !["place"] = NoMenu]
                /\ net' = Append(net, Request("details", p))
                /\ overtyped' = FALSE
                /\ UNCHANGED <<faults, popup, page, typed, timer, attendees, place, picked, edited,
                               stray>>

(* A click elsewhere closes the menu of the attendees, one on Remove too. *)
RemoveAttendee == /\ UserMayAct /\ Stroke /\ attendees # <<>>
                  /\ attendees' = Tail(attendees)
                  /\ menu' = [menu EXCEPT !["attendee"] = NoMenu]
                  /\ UNCHANGED <<web, typed, timer, place, picked, edited, overtyped, stray>>

---------------------------------------------------------------------------
(* External: the contacts and the places that the server finds. *)
ServeSearch(n) == /\ net[n].at = "sent"
                  /\ \/ /\ net[n].op \in Boxes
                        /\ \E found \in SUBSET IF net[n].op = "place" THEN Places ELSE Persons :
                             net' = Reply(n, found)
                     \/ net[n].op = "details" /\ net' = Reply(n, {})
                  /\ UNCHANGED <<faults, popup, page, boxes>>

(* An attendee of the form already is not offered.                          *)
AttendeesFound(n) ==
    /\ Answered(n, "attendee")
    /\ LET offers == net[n].ans \ {attendees[i] : i \in DOMAIN attendees} IN
       menu' = [menu EXCEPT !["attendee"] = IF net[n].ans = {} THEN NoMenu
                                            ELSE [text |-> net[n].arg, offers |-> offers]]
    /\ stray' = IF Overtakes(n, {"attendee"}) THEN stray \cup {"attendee"} ELSE stray
    /\ net' = Settle(n)
    /\ UNCHANGED <<faults, popup, page, typed, timer, attendees, place, picked, edited, overtyped,
                   strokes>>

(* Nothing found leaves the menu as it is, be it one that an earlier search   *)
(* filled after its text was typed over.                                     *)
PlacesFound(n) ==
    /\ Answered(n, "place")
    /\ menu' = IF net[n].ans = {} THEN menu
               ELSE [menu EXCEPT !["place"] = [text |-> net[n].arg, offers |-> net[n].ans]]
    /\ overtyped' = IF net[n].ans = {} THEN overtyped ELSE net[n].arg # typed["place"]
    /\ stray' = IF Overtakes(n, {"place"}) \/ (net[n].ans = {} /\ overtyped)
                THEN stray \cup {"place"} ELSE stray
    /\ net' = Settle(n)
    /\ UNCHANGED <<faults, popup, page, typed, timer, attendees, place, picked, edited, strokes>>

(* Whatever was typed, and whichever event was opened, since the pick. *)
PlaceDetails(n) ==
    /\ Answered(n, "details")
    /\ place' = net[n].arg /\ picked' = TRUE /\ edited' = FALSE
    /\ typed' = [typed EXCEPT !["place"] = net[n].arg]
    /\ net' = Settle(n)
    /\ timer' = timer
    /\ stray' = IF Searching("place") \/ menu["place"] # NoMenu THEN stray \cup {"place"} ELSE stray
    /\ UNCHANGED <<faults, popup, page, menu, attendees, overtyped, strokes>>

SearchFailed(n) == /\ IF net[n].op = "attendee" THEN ShowError(n) ELSE Ignore(n)
                   /\ stray' = stray \cup ({net[n].op} \cap Boxes)
                   /\ UNCHANGED <<typed, timer, menu, attendees, place, picked, edited, overtyped,
                                  strokes>>

BoxesNext ==
    \/ \E people \in {<<>>} \cup {<<who>> : who \in Persons}, p \in {NoPlace} \cup Places :
         FillForm(people, p)
    \/ \E b \in Boxes : \/ TimerFires(b)
                        \/ \E t \in Typings \cup {Short} : TypeText(b, t)
    \/ \E who \in Persons : PickAttendee(who)
    \/ \E p \in Places : PickPlace(p)
    \/ RemoveAttendee
    \/ \E n \in DOMAIN net :
         \/ ServeSearch(n)
         \/ AttendeesFound(n) \/ PlacesFound(n) \/ PlaceDetails(n) \/ SearchFailed(n)
         \/ (Lose(n) \/ SessionExpired(n)) /\ UNCHANGED boxes
    \/ Dismiss /\ UNCHANGED boxes

BoxesSpec == WebInit(<<>>) /\ BoxesInit /\ [][BoxesNext]_boxesVars

---------------------------------------------------------------------------
(* When nothing is searched for, a menu offers what matches the text of its *)
(* box, unless, since that was last typed, answers came in another order or    *)
(* one was lost, the box was emptied while a search for it was pending, or it  *)
(* was filled by something else, another event or the details of a place,      *)
(* while a search was pending or its menu open: what it holds then is not      *)
(* searched for.  And unless, for the place, the search for what the box holds *)
(* found nothing after an earlier one had filled the menu, its text having     *)
(* been typed over: nothing found hides no menu.                              *)
MenuMatchesText ==
    page = "open" /\ Quiet =>
        \A b \in Boxes : menu[b] # NoMenu /\ timer[b] = NoText /\ b \notin stray =>
                            menu[b].text = typed[b]

(* A structured place in the form is the one its text shows ("typing        *)
(* anything else drops the structured place"), unless it came with the event  *)
(* and its text was edited: that place was not picked, and stays.             *)
PlaceMatchesText == place # NoPlace /\ ~edited => typed["place"] = place

(* Nobody is an attendee twice, however searches, picks, removals and other  *)
(* events interleave: that somebody is one already was asked when the menu    *)
(* was filled.                                                              *)
NoDuplicateAttendees ==
    \A i, j \in DOMAIN attendees : attendees[i] = attendees[j] => i = j
================================================================================
