---------------------------- MODULE CredentialsPage ----------------------------
(***************************************************************************)
(* The credentials page: two-factor authentication, whose recovery codes     *)
(* the page gets to see once, and the lists of tokens, app passwords and     *)
(* passkeys, which load() asks for anew after every change.  The three lists *)
(* are handled alike: one stands for them.                                   *)
(***************************************************************************)
EXTENDS WebRequests

CONSTANT MaxSecurityClicks

ASSUME SecurityAssumption == MaxSecurityClicks \in Nat

VARIABLES totp,          \* the server: secret, whether it is confirmed, its recovery codes
          grants,        \* the server: the credentials
          totpShown,     \* the status, which decides between the buttons
          setupPanel,    \* the secret in totp-setup-panel, or NotShown
          codesPanel,    \* the codes in totp-recovery-panel, or NotShown
          grantRows,     \* the list of credentials
          totpLate,      \* history: changes or answers crossed, or were lost
          securityClicks \* also numbers the secrets, codes and credentials

securityState == <<totp, grants, totpShown, setupPanel, codesPanel, grantRows, totpLate, securityClicks>>
securityVars == <<web, securityState>>

NotShown == 0
Mistyped == 0
NoTotp == [secret |-> NotShown, on |-> FALSE, codes |-> NotShown]
TotpRequests == {"setup", "verify", "disable"}
load == <<Request("grants", 0), Request("totp", 0)>>

SecurityInit == /\ totp \in {NoTotp, [NoTotp EXCEPT !.on = TRUE]}
                /\ grants = {} /\ grantRows = {}
                /\ totpShown = "unknown" /\ setupPanel = NotShown /\ codesPanel = NotShown
                /\ totpLate = FALSE /\ securityClicks = 0

---------------------------------------------------------------------------
SecurityClick == securityClicks < MaxSecurityClicks /\ securityClicks' = securityClicks + 1

(* api() disables the button that was clicked until its request is answered. *)
SetUpTotp == /\ MaySend /\ SecurityClick /\ totpShown = "disabled" /\ ~Waiting({"setup"})
             /\ net' = Append(net, Request("setup", securityClicks'))
             /\ UNCHANGED <<faults, popup, page, totp, grants, totpShown, setupPanel, codesPanel,
                            grantRows, totpLate>>

VerifyTotp(code) ==
    /\ MaySend /\ SecurityClick /\ setupPanel # NotShown /\ ~Waiting({"verify"})
    /\ net' = Append(net, Request("verify", [code |-> code, codes |-> securityClicks']))
    /\ UNCHANGED <<faults, popup, page, totp, grants, totpShown, setupPanel, codesPanel,
                   grantRows, totpLate>>

AskDisableTotp == /\ UserMayAct /\ SecurityClick /\ totpShown = "enabled"
                  /\ popup' = [kind |-> "disable totp"]
                  /\ UNCHANGED <<net, faults, page, totp, grants, totpShown, setupPanel,
                                 codesPanel, grantRows, totpLate>>

DisableTotp == /\ MayConfirm("disable totp")
               /\ net' = Append(net, Request("disable", 0))
               /\ popup' = NoPopup
               /\ UNCHANGED <<faults, page, securityState>>

(* token-form and app-password-form; a passkey asks for a challenge first. *)
CreateGrant(op) == /\ MaySend /\ SecurityClick
                   /\ net' = Append(net, Request(op, securityClicks'))
                   /\ UNCHANGED <<faults, popup, page, totp, grants, totpShown, setupPanel,
                                  codesPanel, grantRows, totpLate>>

AskRevoke(g) == /\ UserMayAct /\ SecurityClick /\ g \in grantRows
                /\ popup' = [kind |-> "revoke grant", of |-> g]
                /\ UNCHANGED <<net, faults, page, totp, grants, totpShown, setupPanel,
                               codesPanel, grantRows, totpLate>>

Revoke == /\ MayConfirm("revoke grant")
          /\ net' = Append(net, Request("revoke", popup.of))
          /\ popup' = NoPopup
          /\ UNCHANGED <<faults, page, securityState>>

---------------------------------------------------------------------------
(* External: mfa.rs.  Setting up forgets that an earlier secret was confirmed; *)
(* a code without a secret is refused, a wrong one is a 401, which the browser *)
(* takes for a session that is over.                                          *)
ServeTotp(n) ==
    /\ net[n].at = "sent"
    /\ \/ /\ net[n].op = "totp" /\ net' = Reply(n, totp.on)
          /\ UNCHANGED <<totp, popup, page>>
       \/ /\ net[n].op = "setup" /\ net' = Reply(n, net[n].arg)
          /\ totp' = [totp EXCEPT !.secret = net[n].arg, !.on = FALSE]
          /\ UNCHANGED <<popup, page>>
       \/ /\ net[n].op = "verify" /\ totp = NoTotp /\ net' = Reject(n)
          /\ UNCHANGED <<totp, popup, page>>
       \/ /\ net[n].op = "verify" /\ totp # NoTotp /\ net[n].arg.code = totp.secret
          /\ totp' = [totp EXCEPT !.on = TRUE, !.codes = net[n].arg.codes]
          /\ net' = Reply(n, net[n].arg.codes)
          /\ UNCHANGED <<popup, page>>
       \/ /\ net[n].op = "verify" /\ totp # NoTotp /\ net[n].arg.code # totp.secret
          /\ page = "open" /\ page' = "login" /\ popup' = NoPopup /\ net' = <<>>
          /\ UNCHANGED totp
       \/ /\ net[n].op = "disable" /\ net' = Reply(n, 0)
          /\ totp' = NoTotp
          /\ UNCHANGED <<popup, page>>
    /\ UNCHANGED <<faults, grants, totpShown, setupPanel, codesPanel, grantRows, totpLate, securityClicks>>

ServeGrants(n) ==
    /\ net[n].at = "sent"
    /\ \/ net[n].op = "grants" /\ net' = Reply(n, grants) /\ UNCHANGED grants
       \/ net[n].op = "challenge" /\ net' = Reply(n, {}) /\ UNCHANGED grants
       \/ /\ net[n].op \in {"create", "register"} /\ net' = Reply(n, {})
          /\ grants' = grants \cup {net[n].arg}
       \/ /\ net[n].op = "revoke" /\ net' = Reply(n, {})
          /\ grants' = grants \ {net[n].arg}
    /\ UNCHANGED <<faults, popup, page, totp, totpShown, setupPanel, codesPanel, grantRows,
                   totpLate, securityClicks>>

---------------------------------------------------------------------------
(* A change handled while a status or another change is open, or a status   *)
(* handled while a change is, or before an older status.                     *)
TotpCrossed(n) == \/ Overtakes(n, {"totp"})
                  \/ \E m \in DOMAIN net \ {n} :
                        net[m].op \in TotpRequests \cup ({"totp"} \ {net[n].op})

(* Mistake: the panels are hidden whatever the status is. *)
CodesHidden(on) == NotShown
CodesAfter(on) == IF on THEN codesPanel ELSE NotShown

TotpShown(n) ==
    /\ Answered(n, "totp")
    /\ totpShown' = IF net[n].ans THEN "enabled" ELSE "disabled"
    /\ codesPanel' = CodesAfter(net[n].ans)
    /\ setupPanel' = IF net[n].ans THEN setupPanel ELSE NotShown
    /\ totpLate' = (totpLate \/ TotpCrossed(n))
    /\ net' = Settle(n)
    /\ UNCHANGED <<faults, popup, page, totp, grants, grantRows, securityClicks>>

SetupShown(n) == /\ Answered(n, "setup")
                 /\ setupPanel' = net[n].ans
                 /\ codesPanel' = NotShown
                 /\ totpLate' = (totpLate \/ TotpCrossed(n))
                 /\ net' = Settle(n)
                 /\ UNCHANGED <<faults, popup, page, totp, grants, totpShown, grantRows, securityClicks>>

(* Only these two load the status and say so with a toast. *)
TotpChanged(n) ==
    /\ \/ /\ Answered(n, "verify")
          /\ setupPanel' = NotShown /\ codesPanel' = net[n].ans
       \/ /\ Answered(n, "disable")
          /\ UNCHANGED <<setupPanel, codesPanel>>
    /\ popup' = NoPopup
    /\ net' = Append(Settle(n), Request("totp", 0))
    /\ totpLate' = (totpLate \/ TotpCrossed(n))
    /\ UNCHANGED <<faults, page, totp, grants, totpShown, grantRows, securityClicks>>

GrantsShown(n) == /\ Answered(n, "grants")
                  /\ grantRows' = net[n].ans
                  /\ net' = Settle(n)
                  /\ UNCHANGED <<faults, popup, page, totp, grants, totpShown, setupPanel,
                                 codesPanel, totpLate, securityClicks>>

GrantsChanged(n) ==
    /\ \/ (Answered(n, "create") \/ Answered(n, "register")) /\ UNCHANGED popup
       \/ Answered(n, "revoke") /\ popup' = NoPopup
    /\ net' = Settle(n) \o load
    /\ UNCHANGED <<faults, page, totp, grants, totpShown, setupPanel, codesPanel, grantRows,
                   totpLate, securityClicks>>

(* The user lets the browser create the passkey, or cancels: only a note then. *)
ChallengeAnswered(n) == /\ Answered(n, "challenge")
                        /\ \/ net' = Append(Settle(n), Request("register", net[n].arg))
                           \/ net' = Settle(n)
                        /\ UNCHANGED <<faults, popup, page, securityState>>

SecurityFailed(n) ==
    /\ \/ /\ net[n].op \in {"challenge", "register"} /\ Ignore(n)      \* silent: a note
       \/ /\ net[n].op \notin {"challenge", "register"} /\ ShowError(n)
    /\ totpLate' = TRUE
    /\ UNCHANGED <<totp, grants, totpShown, setupPanel, codesPanel, grantRows, securityClicks>>

SecurityNext ==
    \/ SetUpTotp \/ AskDisableTotp \/ DisableTotp \/ Revoke
    \/ \E code \in {setupPanel, Mistyped} : VerifyTotp(code)
    \/ \E op \in {"create", "challenge"} : CreateGrant(op)
    \/ \E g \in grantRows : AskRevoke(g)
    \/ \E n \in DOMAIN net :
         \/ ServeTotp(n) \/ ServeGrants(n)
         \/ TotpShown(n) \/ SetupShown(n) \/ TotpChanged(n)
         \/ GrantsShown(n) \/ GrantsChanged(n) \/ ChallengeAnswered(n) \/ SecurityFailed(n)
         \/ (Lose(n) \/ SessionExpired(n)) /\ UNCHANGED securityState
    \/ Dismiss /\ UNCHANGED securityState

SecuritySpec == WebInit(load) /\ SecurityInit /\ [][SecurityNext]_securityVars

---------------------------------------------------------------------------
(* The recovery codes that work are the ones the page shows, and its status    *)
(* and buttons are those of the server, whenever everything is answered and no *)
(* change crossed another or a status that was asked for before it: the codes  *)
(* are shown once, and every loadTotp() may hide them.                         *)
RecoveryCodesShown ==
    page = "open" /\ Quiet /\ ~totpLate /\ totpShown # "unknown" =>
        /\ codesPanel = totp.codes
        /\ totpShown = (IF totp.on THEN "enabled" ELSE "disabled")
================================================================================
