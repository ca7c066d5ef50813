------------------------------ MODULE CalendarTabs ------------------------------
(***************************************************************************)
(* The index page around the event modal: the calendars and subscriptions  *)
(* of the sidebar, the one that is selected, the tabs of its views, what    *)
(* each view has loaded, and the address that a reload restores.           *)
(***************************************************************************)
EXTENDS WebRequests

CONSTANTS Calendars,     \* the calendars of the user at first
          NoTasks,       \* those whose content types leave out tasks
          MaxClicks      \* what the user does

Subscription == "subscription"
All == "all"
NoCalendar == "no calendar"

ASSUME TabsAssumption == /\ NoTasks \subseteq Calendars
                         /\ {Subscription, All, NoCalendar} \cap Calendars = {}
                         /\ MaxClicks \in Nat

VARIABLES kept,          \* the server: what there is of Calendars and the subscription
          isAdmin,       \* the server: whether the user is an administrator
          listed,        \* the sidebar: state.calendars and the subscriptions
          userIsAdmin, selected, chosen, want, tab, url,
          bar,           \* the tabs that can be clicked
          loaded,        \* the calendar each pane has loaded: _cal
          shows,         \* whose rows each pane and the registry of categories hold
          late,          \* those whose answers came in another order than asked for
          restores,      \* what the last reload replaced, until the user or an answer goes elsewhere
          clicks

tabs == <<kept, isAdmin, listed, userIsAdmin, selected, chosen, want, tab, url, bar, loaded,
          shows, late, restores, clicks>>
tabsVars == <<web, tabs>>

Refused == "refused"                \* "This calendar does not accept tasks."
ReadOnly(cal) == cal \in {Subscription, All}
Panes == {"categories", "tasks", "rules"}     \* journals are like tasks
Views == Panes \cup {"registry"}              \* loadCategoryRegistry
Tabs == Panes \cup {"calendar"}
NoUrl == [cal |-> NoCalendar, tab |-> "calendar"]

(* subscriptions and calendars are asked for when the page opens, auth/me before them. *)
FirstRequests == <<Request("me", {}), Request("subscriptions", {}), Request("calendars", {})>>

TabsInit ==
    /\ kept = Calendars \cup {Subscription}
    /\ isAdmin \in BOOLEAN
    /\ listed = {} /\ userIsAdmin = FALSE /\ selected = NoCalendar /\ chosen = FALSE
    /\ want = NoUrl /\ tab = "calendar" /\ url = NoUrl /\ bar = {}
    /\ loaded = [p \in Panes |-> NoCalendar] /\ shows = [p \in Views |-> NoCalendar]
    /\ late = {} /\ restores = NoUrl /\ clicks = 0

---------------------------------------------------------------------------
(* updateTabs: which tabs a calendar has, and setUrl. *)
Hidden(t, cal, admin) == \/ t = "tasks" /\ ReadOnly(cal)
                         \/ t = "rules" /\ (cal = NoCalendar \/ ReadOnly(cal) \/ ~admin)
                         \/ t = "categories" /\ cal = All
Bar(cal, admin) == IF cal = NoCalendar THEN {} ELSE {t \in Tabs : ~Hidden(t, cal, admin)}
(* Mistake: a tab stays shown for a calendar that has it not. *)
ShownTab(t, cal) == t
VisibleTab(t, cal) == IF Hidden(t, cal, userIsAdmin) THEN "calendar" ELSE t
(* Mistake: the address keeps the tab only. *)
UrlOfTab(cal, t) == [cal |-> NoCalendar, tab |-> t]
UrlOf(cal, t) == [cal |-> IF cal = Subscription THEN NoCalendar ELSE cal, tab |-> t]

(* The load functions of the panes: null scope stands for the tenant's rows. *)
Scope(pane, cal) == IF pane = "categories" /\ ReadOnly(cal) THEN NoCalendar ELSE cal
Accepts(pane, cal) == pane # "tasks" \/ cal \notin NoTasks
(* Mistake: a pane that has loaded a calendar loads no other. *)
UnloadedOnce(cal, shown) == {p \in shown \cap Panes : loaded[p] = NoCalendar}
Unloaded(cal, shown) == {p \in shown \cap Panes : loaded[p] # Scope(p, cal)}

(* refreshActivePane for the tabs shown one after the other, and the registry. *)
LoadPanes(cal, shown, requests) ==
    LET fresh == IF cal = NoCalendar THEN {} ELSE Unloaded(cal, shown)
        refused == {p \in fresh : ~Accepts(p, cal)}
        asked == (fresh \ refused) \cup (shown \cap {"registry"})
        Asks(p) == IF p \in asked THEN <<Request(p, Scope(p, cal))>> ELSE <<>>
    IN /\ net' = requests \o Asks("registry") \o Asks("categories") \o Asks("tasks")
                          \o Asks("rules")
       /\ loaded' = [p \in Panes |-> IF p \in fresh THEN Scope(p, cal) ELSE loaded[p]]
       /\ shows' = [p \in Views |-> CASE p \in refused -> Refused
                                      [] p = "registry" /\ ReadOnly(cal) -> NoCalendar
                                      [] OTHER -> shows[p]]
       /\ late' = (late \ {p \in asked \cup refused : ~Waiting({p})})
                  \cup {p \in refused : Waiting({p})}

(* selectCalendar, and the tab that may be shown after it. *)
Select(cal, thenTab, requests) ==
    LET t == VisibleTab(tab, cal) IN
    /\ selected' = cal
    /\ tab' = IF thenTab = "calendar" THEN t ELSE VisibleTab(thenTab, cal)
    /\ url' = UrlOf(cal, tab')
    /\ bar' = Bar(cal, userIsAdmin)
    /\ LoadPanes(cal, {t, tab'} \cup IF ReadOnly(cal) THEN {} ELSE {"registry"}, requests)

---------------------------------------------------------------------------
(* The user *)

Click == clicks < MaxClicks /\ clicks' = clicks + 1

SelectCalendar(cal) == /\ Click /\ MaySend /\ cal \in listed \cup {All}
                       /\ Select(cal, "calendar", net)
                       /\ restores' = NoUrl
                       /\ UNCHANGED <<faults, popup, page, kept, isAdmin, listed, userIsAdmin,
                                      chosen, want>>

(* shown.bs.tab follows at once: the tab buttons have no transition. *)
ClickTab(t) == /\ Click /\ MaySend /\ t \in bar \ {tab}
               /\ tab' = t
               /\ LoadPanes(selected, {t}, net)
               /\ url' = UrlOf(selected, t)
               /\ restores' = NoUrl
               /\ UNCHANGED <<faults, popup, page, kept, isAdmin, listed, userIsAdmin, selected,
                              chosen, want, bar>>

(* deleteCalendar and the button of a subscription. *)
RemoveCalendar(cal) == /\ Click /\ MaySend /\ cal \in listed
               /\ net' = Append(net, Request("remove", cal))
               /\ restores' = NoUrl
               /\ UNCHANGED <<faults, popup, page, kept, isAdmin, listed, userIsAdmin, selected,
                              chosen, want, tab, url, bar, loaded, shows, late>>

(* Bound: nothing is under way.  The page starts over from its address. *)
Reload == /\ Click /\ page = "open" /\ Quiet
          /\ net' = FirstRequests /\ popup' = NoPopup
          /\ want' = url /\ restores' = [cal |-> selected, tab |-> tab]
          /\ listed' = {} /\ userIsAdmin' = FALSE /\ selected' = NoCalendar /\ chosen' = FALSE
          /\ tab' = "calendar" /\ bar' = {}
          /\ loaded' = [p \in Panes |-> NoCalendar] /\ shows' = [p \in Views |-> NoCalendar]
          /\ late' = {}
          /\ UNCHANGED <<faults, page, kept, isAdmin, url>>

---------------------------------------------------------------------------
(* The server *)

(* The rows of a view are served in the step that shows them. *)
ServeTabs(n) == /\ net[n].at = "sent"
                /\ \/ /\ net[n].op \in {"subscriptions", "calendars"}
                      /\ net' = Reply(n, kept)
                      /\ UNCHANGED kept
                   \/ /\ net[n].op \in Views
                      /\ net[n].arg \notin kept \cup {NoCalendar}
                      /\ net' = Reject(n)
                      /\ UNCHANGED kept
                   \/ /\ net[n].op = "remove"
                      /\ net' = IF net[n].arg \in kept THEN Reply(n, {}) ELSE Reject(n)
                      /\ kept' = kept \ {net[n].arg}
                /\ UNCHANGED <<faults, popup, page, isAdmin, listed, userIsAdmin, selected, chosen,
                               want, tab, url, bar, loaded, shows, late, restores, clicks>>

---------------------------------------------------------------------------
(* Answers *)

Introduced(n) == /\ Arrived(n, "me")
                 /\ userIsAdmin' = isAdmin
                 /\ bar' = Bar(selected, isAdmin)
                 /\ net' = Settle(n)
                 /\ UNCHANGED <<faults, popup, page, kept, isAdmin, listed, selected, chosen, want,
                                tab, url, loaded, shows, late, restores, clicks>>

(* Later lists leave the selection alone. *)
ListMore(n) == /\ \/ Answered(n, "calendars") /\ chosen
                  \/ Answered(n, "subscriptions")
               /\ LET part == IF net[n].op = "calendars" THEN Calendars ELSE {Subscription} IN
                  listed' = (listed \ part) \cup (net[n].ans \cap part)
               /\ net' = Settle(n)
               /\ UNCHANGED <<faults, popup, page, kept, isAdmin, userIsAdmin, selected, chosen,
                              want, tab, url, bar, loaded, shows, late, restores, clicks>>

(* The first list selects a calendar, whatever the user has selected before *)
(* it came, and shows the tab of the address when that tab is there by now. *)
FirstList(n) ==
    /\ Answered(n, "calendars") /\ ~chosen
    /\ LET own == net[n].ans \cap Calendars IN
       /\ listed' = (listed \ Calendars) \cup own
       /\ \/ /\ want.cal \in own \cup {All}
             /\ Select(want.cal, want.tab, Settle(n))
          \/ /\ want.cal \notin own \cup {All}
             /\ \E cal \in own : Select(cal, want.tab, Settle(n))
          \/ /\ want.cal \notin own \cup {All} /\ own = {}
             /\ tab' = IF want.tab = "calendar" THEN tab ELSE VisibleTab(want.tab, selected)
             /\ LoadPanes(selected, {tab'}, Settle(n))
             /\ url' = IF tab' = tab THEN url ELSE UrlOf(selected, tab')
             /\ UNCHANGED <<selected, bar>>
    /\ chosen' = TRUE
    /\ want' = NoUrl
    /\ restores' = IF restores.tab = "rules" /\ Waiting({"me"}) THEN NoUrl ELSE restores
    /\ UNCHANGED <<faults, popup, page, kept, isAdmin, userIsAdmin, clicks>>

(* The categories of the registry come by $.getJSON. *)
ShowRows(n) == /\ \E p \in Views :
                    /\ Arrived(n, p) /\ net[n].arg \in kept \cup {NoCalendar}
                    /\ shows' = [shows EXCEPT ![p] = net[n].arg]
                    /\ late' = IF Overtakes(n, {p}) THEN late \cup {p} ELSE late
               /\ net' = Settle(n)
               /\ UNCHANGED <<faults, popup, page, kept, isAdmin, listed, userIsAdmin, selected,
                              chosen, want, tab, url, bar, loaded, restores, clicks>>

(* A deleted calendar is no longer selected, but its tabs stay; a            *)
(* subscription takes them along.                                            *)
CalendarRemoved(n) ==
    /\ Answered(n, "remove")
    /\ LET cal == net[n].arg
           list == IF cal = Subscription THEN "subscriptions" ELSE "calendars"
       IN /\ selected' = IF selected = cal THEN NoCalendar ELSE selected
          /\ bar' = IF selected = Subscription /\ cal = Subscription THEN {} ELSE bar
          /\ net' = Append(Settle(n), Request(list, {}))
    /\ popup' = NoPopup
    /\ UNCHANGED <<faults, page, kept, isAdmin, listed, userIsAdmin, chosen, want, tab, url,
                   loaded, shows, late, restores, clicks>>

TabsFailed(n) == /\ IF net[n].op = "registry" THEN Ignore(n) ELSE ShowError(n)
                 /\ late' = late \cup ({net[n].op} \cap Views)
                 /\ restores' = IF net[n].op \in {"me", "calendars"} THEN NoUrl ELSE restores
                 /\ UNCHANGED <<kept, isAdmin, listed, userIsAdmin, selected, chosen, want, tab, url,
                                bar, loaded, shows, clicks>>

TabsNext ==
    \/ \E cal \in Calendars \cup {Subscription, All} : SelectCalendar(cal) \/ RemoveCalendar(cal)
    \/ \E t \in Tabs : ClickTab(t)
    \/ Reload
    \/ \E n \in DOMAIN net :
         \/ ServeTabs(n)
         \/ Introduced(n) \/ ListMore(n) \/ FirstList(n) \/ ShowRows(n)
         \/ CalendarRemoved(n) \/ TabsFailed(n)
         \/ (Lose(n) \/ SessionExpired(n)) /\ UNCHANGED tabs

TabsSpec == WebInit(FirstRequests) /\ TabsInit /\ [][TabsNext]_tabsVars

---------------------------------------------------------------------------
(* When everything is answered, the open view is one the selected calendar   *)
(* has and shows that calendar, and so does the registry of the event modal, *)
(* except where answers were lost or came in another order than asked for.   *)
(* One view is never loaded: the categories of a subscription in a pane not  *)
(* used before, for their scope is null and so is that of an unused pane.    *)
ViewFollowsSelection ==
    page = "open" /\ Quiet /\ selected \in kept \cup {All} =>
        /\ tab \in bar
        /\ tab \in Panes \ late /\ ~(tab = "categories" /\ ReadOnly(selected)) =>
              shows[tab] = IF Accepts(tab, selected) THEN Scope(tab, selected) ELSE Refused
        /\ "registry" \notin late /\ ~ReadOnly(selected) => shows["registry"] = selected

(* A reload comes back to the calendar and the view it replaced, unless it  *)
(* was a subscription or the calendar is gone, or the view is that of the    *)
(* rules and the answer that tells an administrator came after the calendars. *)
ReloadRestores ==
    page = "open" /\ Quiet /\ restores.cal \in (kept \ {Subscription}) \cup {All} =>
        selected = restores.cal /\ tab = restores.tab
================================================================================
