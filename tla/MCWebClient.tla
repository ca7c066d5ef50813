----------------------------- MODULE MCWebClient -----------------------------
(***************************************************************************)
(* The parts of the web client, each on its own: a behaviour is one of the  *)
(* part that view names, and the other parts stay as they are at first.     *)
(* They share the network, the popup and the page of WebRequests.           *)
(***************************************************************************)
EXTENDS CalendarTabs, CalendarDialog, SharingDialog, SearchBoxes, Attachments,
        EventForm, TasksPane, JournalForm, RowSwitches,
        ContactsPage, CredentialsPage, ProvidersPage, AccountDialog

VARIABLE view

Parts == {"tabs", "calendar dialog", "sharing dialog", "search boxes", "attachments", "event form",
          "tasks", "journals", "switches", "contacts", "credentials", "providers", "account"}

StartUp(part) == CASE part = "tabs" -> FirstRequests
                   [] part = "contacts" -> FirstBooks
                   [] part = "credentials" -> load
                   [] part = "account" -> FirstAccount
                   [] OTHER -> <<>>

(* Of its initial states, a part that is not at work is in one. *)
WebClientInit == /\ view \in Parts
                 /\ WebInit(StartUp(view))
                 /\ TabsInit /\ (view = "tabs" \/ ~isAdmin)
                 /\ DialogInit
                 /\ SharingInit /\ acl["a"] = People
                 /\ BoxesInit
                 /\ AttachInit
                 /\ DraftInit /\ (view = "event form" \/ series = BlankEvent)
                 /\ TasksInit
                 /\ JournalInit /\ (view = "journals" \/ entries = {})
                 /\ SwitchInit
                 /\ \/ view = "switches"
                    \/ table = "users" /\ \A r \in Rows : flags[r] = "on"
                 /\ ContactsInit
                 /\ SecurityInit /\ (view = "credentials" \/ ~totp.on)
                 /\ ProvidersInit
                 /\ AccountInit /\ (view = "account" \/ notified = Channels)

WebClientNext ==
    /\ UNCHANGED view
    /\ \/ /\ view = "tabs" /\ TabsNext
          /\ UNCHANGED <<dialogState, sharing, boxes, attachState, formState,
                         taskState, journalState, switchState, contactState,
                         securityState, providerState, accountState>>
       \/ /\ view = "calendar dialog" /\ DialogNext
          /\ UNCHANGED <<tabs, sharing, boxes, attachState, formState, taskState,
                         journalState, switchState, contactState, securityState,
                         providerState, accountState>>
       \/ /\ view = "sharing dialog" /\ SharingNext
          /\ UNCHANGED <<tabs, dialogState, boxes, attachState, formState,
                         taskState, journalState, switchState, contactState,
                         securityState, providerState, accountState>>
       \/ /\ view = "search boxes" /\ BoxesNext
          /\ UNCHANGED <<tabs, dialogState, sharing, attachState, formState,
                         taskState, journalState, switchState, contactState,
                         securityState, providerState, accountState>>
       \/ /\ view = "attachments" /\ AttachNext
          /\ UNCHANGED <<tabs, dialogState, sharing, boxes, formState, taskState,
                         journalState, switchState, contactState, securityState,
                         providerState, accountState>>
       \/ /\ view = "event form" /\ FormNext
          /\ UNCHANGED <<web, tabs, dialogState, sharing, boxes, attachState,
                         taskState, journalState, switchState, contactState,
                         securityState, providerState, accountState>>
       \/ /\ view = "tasks" /\ TasksNext
          /\ UNCHANGED <<tabs, dialogState, sharing, boxes, attachState, formState,
                         journalState, switchState, contactState, securityState,
                         providerState, accountState>>
       \/ /\ view = "journals" /\ JournalNext
          /\ UNCHANGED <<tabs, dialogState, sharing, boxes, attachState, formState,
                         taskState, switchState, contactState, securityState,
                         providerState, accountState>>
       \/ /\ view = "switches" /\ SwitchNext
          /\ UNCHANGED <<tabs, dialogState, sharing, boxes, attachState, formState,
                         taskState, journalState, contactState, securityState,
                         providerState, accountState>>
       \/ /\ view = "contacts" /\ ContactsNext
          /\ UNCHANGED <<tabs, dialogState, sharing, boxes, attachState, formState,
                         taskState, journalState, switchState, securityState,
                         providerState, accountState>>
       \/ /\ view = "credentials" /\ SecurityNext
          /\ UNCHANGED <<tabs, dialogState, sharing, boxes, attachState, formState,
                         taskState, journalState, switchState, contactState,
                         providerState, accountState>>
       \/ /\ view = "providers" /\ ProvidersNext
          /\ UNCHANGED <<tabs, dialogState, sharing, boxes, attachState, formState,
                         taskState, journalState, switchState, contactState,
                         securityState, accountState>>
       \/ /\ view = "account" /\ AccountNext
          /\ UNCHANGED <<tabs, dialogState, sharing, boxes, attachState, formState,
                         taskState, journalState, switchState, contactState,
                         securityState, providerState>>

WebClientSpec ==
    WebClientInit /\ [][WebClientNext]_<<web, tabs, dialogState, sharing, boxes,
                                          attachState, formState, taskState,
                                          journalState, switchState, contactState,
                                          securityState, providerState,
                                          accountState, view>>

(* What distinguishes two states: the other parts are as they were at first. *)
Seen == <<view, web, CASE view = "tabs" -> tabs
                     [] view = "calendar dialog" -> dialogState
                     [] view = "sharing dialog" -> sharing
                     [] view = "search boxes" -> boxes
                     [] view = "attachments" -> attachState
                     [] view = "event form" -> formState
                     [] view = "tasks" -> taskState
                     [] view = "journals" -> journalState
                     [] view = "switches" -> switchState
                     [] view = "contacts" -> contactState
                     [] view = "credentials" -> securityState
                     [] view = "providers" -> providerState
                     [] view = "account" -> accountState>>

---------------------------------------------------------------------------
(* What the .cfg gives the constants. *)
MCCalendars == {"a", "b"}
MCNoTasks == {"b"}
MCOldCalendars == {"a"}
MCNewCalendars == {"b"}
MCPeople == {"p", "q"}
MCTypings == {"ab", "abc"}
MCPersons == {"ann"}
MCPlaces == {"hall"}
MCHolders == {"e1", "e2"}
MCVenues == {"station"}

(* t3 is below t2, t2 below t1, and t1 names t5, which is not there: others    *)
(* may create it, or move t4.                                                *)
MCTasks == {"t1", "t2", "t3", "t4", "t5"}
MCFirstTree == [t \in MCTasks |-> CASE t = "t1" -> "t5" [] t = "t2" -> "t1" [] t = "t3" -> "t2"
                                    [] t = "t4" -> "root" [] t = "t5" -> "gone"]
MCMovedByOthers == {"t4"}
MCCreatedByOthers == {"t5"}

MCEntries == {"j1", "j2"}
MCRows == {"r1", "r2"}
MCBooks == {"b1", "b2"}
MCProviders == {"sms", "push"}
MCKind == [p \in MCProviders |-> IF p = "sms" THEN "twilio" ELSE "webpush"]
MCChannels == {"email", "sms"}
================================================================================
