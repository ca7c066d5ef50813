----------------------------- MODULE ProvidersPage -----------------------------
(***************************************************************************)
(* The providers page: the form that adds a provider, the dialog that edits *)
(* one, which is filled and shown when the provider has been fetched, and    *)
(* the dialog that sends a test message and shows what came of it.           *)
(* A provider stands for its kind and name, which are unique on the server;  *)
(* of its configuration the keys it has are kept, not their values.          *)
(***************************************************************************)
EXTENDS WebRequests

CONSTANTS Providers,           \* there at first
          Kind,                \* the kind of each provider, which does not change
          MaxProviderClicks

ASSUME ProvidersAssumption == MaxProviderClicks \in Nat

VARIABLES configs,       \* the server: provider -> [of, has], or NoConfig
          provRows,      \* the table of providers
          providerForm,  \* provider-edit-modal: pe-id, editKind, and whose values the fields hold
          testForm,      \* provider-test-modal: pt-id, and the provider its result is of
          providerClicks

providerState == <<configs, provRows, providerForm, testForm, providerClicks>>
providerVars == <<web, providerState>>

NoProvider == "no provider"
NoConfig == [of |-> NoProvider, has |-> {}]

(* The fields of both forms by kind; the optional one of Postmark is left out. *)
FIELD_SPECS == [postmark |-> {"from", "token"}, smtp |-> {"server", "from", "token"},
                twilio |-> {"account_sid", "auth_token", "from"}, webpush |-> {"subject"}]
ConfigOf(kind) == FIELD_SPECS[kind] \cup (IF kind = "postmark" THEN {"server"} ELSE {})
VapidKeys(kind) == IF kind = "webpush" THEN {"vapid_private", "vapid_public"} ELSE {}
Complete(p) == [of |-> p, has |-> ConfigOf(Kind[p]) \cup VapidKeys(Kind[p])]

ProvidersInit ==
    /\ configs = [p \in Providers |-> Complete(p)]
    /\ provRows = Providers
    /\ providerForm = [open |-> FALSE, id |-> NoProvider, kind |-> NoProvider, of |-> NoProvider]
    /\ testForm = [open |-> FALSE, id |-> NoProvider, result |-> NoProvider]
    /\ providerClicks = 0

---------------------------------------------------------------------------
ProviderClick == providerClicks < MaxProviderClicks /\ providerClicks' = providerClicks + 1
OnPage == ~providerForm.open /\ ~testForm.open

(* provider-form: a provider of this kind and name may be there already. *)
AddProvider(p) == /\ MaySend /\ ProviderClick /\ OnPage
                  /\ net' = Append(net, Request("configure", Complete(p)))
                  /\ UNCHANGED <<faults, popup, page, configs, provRows, providerForm, testForm>>

(* openEdit: the rows stay usable until the answer shows the dialog. *)
EditProvider(p) == /\ MaySend /\ ProviderClick /\ OnPage /\ p \in provRows
                   /\ net' = Append(net, Request("provider", p))
                   /\ UNCHANGED <<faults, popup, page, configs, provRows, providerForm, testForm>>

SubmitProvider ==
    /\ MaySend /\ ProviderClick /\ providerForm.open
    /\ net' = Append(net, Request("reconfigure",
                                  [id |-> providerForm.id, of |-> providerForm.of,
                                   has |-> ConfigOf(providerForm.kind)]))
    /\ UNCHANGED <<faults, popup, page, configs, provRows, providerForm, testForm>>

AskDeleteProvider(p) == /\ UserMayAct /\ ProviderClick /\ OnPage /\ p \in provRows
                        /\ popup' = [kind |-> "delete provider", of |-> p]
                        /\ UNCHANGED <<net, faults, page, configs, provRows, providerForm,
                                       testForm>>

DeleteProvider == /\ MayConfirm("delete provider")
                  /\ net' = Append(net, Request("discard", popup.of))
                  /\ popup' = NoPopup
                  /\ UNCHANGED <<faults, page, providerState>>

OpenTest(p) == /\ UserMayAct /\ ProviderClick /\ OnPage /\ p \in provRows
               /\ testForm' = [open |-> TRUE, id |-> p, result |-> NoProvider]
               /\ UNCHANGED <<web, configs, provRows, providerForm>>

SendTest == /\ MaySend /\ ProviderClick /\ testForm.open
            /\ testForm' = [testForm EXCEPT !.result = NoProvider]      \* Sending...
            /\ net' = Append(net, Request("test", testForm.id))
            /\ UNCHANGED <<faults, popup, page, configs, provRows, providerForm>>

CloseProviders == /\ UserMayAct /\ ~OnPage
                  /\ providerForm' = [providerForm EXCEPT !.open = FALSE]
                  /\ testForm' = [testForm EXCEPT !.open = FALSE]
                  /\ UNCHANGED <<web, configs, provRows, providerClicks>>

---------------------------------------------------------------------------
(* External: rules_api.  The configuration sent replaces the stored one; only *)
(* POST makes keys for web push; a PATCH or DELETE of a provider that is gone  *)
(* is a success; a test that could not be sent is an answer too.               *)
ServeProviders(n) ==
    /\ net[n].at = "sent"
    /\ \/ /\ net[n].op = "providers"
          /\ net' = Reply(n, {p \in Providers : configs[p] # NoConfig})
          /\ UNCHANGED configs
       \/ /\ net[n].op \in {"provider", "test"}
          /\ net' = IF configs[net[n].arg] # NoConfig THEN Reply(n, {}) ELSE Reject(n)
          /\ UNCHANGED configs
       \/ /\ net[n].op = "configure" /\ net' = Reply(n, {})
          /\ configs' = [configs EXCEPT ![net[n].arg.of] = net[n].arg]
       \/ /\ net[n].op = "reconfigure" /\ net' = Reply(n, {})
          /\ LET f == net[n].arg IN
             configs' = [configs EXCEPT ![f.id] = IF @ = NoConfig THEN @
                                                  ELSE [of |-> f.of, has |-> f.has]]
       \/ /\ net[n].op = "discard" /\ net' = Reply(n, {})
          /\ configs' = [configs EXCEPT ![net[n].arg] = NoConfig]
    /\ UNCHANGED <<faults, popup, page, provRows, providerForm, testForm,
                   providerClicks>>

---------------------------------------------------------------------------
(* Mistake: the kind is remembered when the dialog is opened first. *)
KindOnce(p) == IF providerForm.kind = NoProvider THEN Kind[p] ELSE providerForm.kind
KindAnswered(p) == Kind[p]

(* The dialog is filled and shown, even when another provider is edited in it. *)
ProviderFetched(n) ==
    /\ Answered(n, "provider")
    /\ LET p == net[n].arg IN
       providerForm' = [open |-> TRUE, id |-> p, kind |-> KindAnswered(p), of |-> p]
    /\ net' = Settle(n)
    /\ UNCHANGED <<faults, popup, page, configs, provRows, testForm, providerClicks>>

ProvidersShown(n) == /\ Answered(n, "providers")
                     /\ provRows' = net[n].ans
                     /\ net' = Settle(n)
                     /\ UNCHANGED <<faults, popup, page, configs, providerForm, testForm, providerClicks>>

(* hide() closes the dialog, whichever provider it shows by now. *)
ProvidersChanged(n) ==
    /\ \/ /\ Answered(n, "configure") \/ Answered(n, "discard")
          /\ UNCHANGED providerForm
       \/ /\ Answered(n, "reconfigure")
          /\ providerForm' = [providerForm EXCEPT !.open = FALSE]
    /\ net' = Append(Settle(n), Request("providers", NoProvider))
    /\ popup' = NoPopup
    /\ UNCHANGED <<faults, page, configs, provRows, testForm, providerClicks>>

(* The result goes to the dialog, whichever provider it shows by now. *)
TestAnswered(n) == /\ Answered(n, "test")
                   /\ testForm' = [testForm EXCEPT !.result = net[n].arg]
                   /\ net' = Settle(n)
                   /\ UNCHANGED <<faults, popup, page, configs, provRows, providerForm, providerClicks>>

ProvidersFailed(n) ==
    /\ ShowError(n)
    /\ testForm' = IF net[n].op = "test" THEN [testForm EXCEPT !.result = net[n].arg] ELSE testForm
    /\ UNCHANGED <<configs, provRows, providerForm, providerClicks>>

ProvidersNext ==
    \/ \E p \in Providers : \/ AddProvider(p) \/ EditProvider(p) \/ AskDeleteProvider(p)
                            \/ OpenTest(p)
    \/ SubmitProvider \/ DeleteProvider \/ SendTest \/ CloseProviders
    \/ \E n \in DOMAIN net :
         \/ ServeProviders(n)
         \/ ProviderFetched(n) \/ ProvidersShown(n) \/ ProvidersChanged(n) \/ TestAnswered(n)
         \/ ProvidersFailed(n)
         \/ (Lose(n) \/ SessionExpired(n)) /\ UNCHANGED providerState
    \/ Dismiss /\ UNCHANGED providerState

ProvidersSpec == WebInit(<<>>) /\ ProvidersInit /\ [][ProvidersNext]_providerVars

---------------------------------------------------------------------------
(* What a provider is configured with was typed for that provider and has all *)
(* the fields of its kind, however the answers that fill the one dialog       *)
(* overtake each other.                                                       *)
FieldsOfProvider ==
    \A p \in Providers : configs[p] # NoConfig =>
        configs[p].of = p /\ ConfigOf(Kind[p]) \subseteq configs[p].has
================================================================================
