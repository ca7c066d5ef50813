----------------------------- MODULE AccountDialog -----------------------------
(***************************************************************************)
(* The account dialog: by which channels the user wants to be notified, push *)
(* notifications on this device, and the password.  What is chosen is kept    *)
(* in state.userPrefs, from which the dialog is filled whenever it is opened. *)
(***************************************************************************)
EXTENDS WebRequests

CONSTANTS Channels, MaxAccountClicks

ASSUME AccountAssumption == MaxAccountClicks \in Nat

VARIABLES notified,      \* the server: the channels by which it notifies the user
          pushDevice,    \* the server: it has the push subscription of this device
          userPrefs,     \* state.userPrefs
          accountOpen,
          checked,         \* the boxes that are checked
          notifyMsg,
          prefsLate,     \* history: boxes changed, or answers crossed or lost, during a save
          accountClicks

accountState == <<notified, pushDevice, userPrefs, accountOpen, checked, notifyMsg, prefsLate,
                  accountClicks>>
accountVars == <<web, accountState>>

(* Every channel is taken to be chosen until auth/me says otherwise. *)
AccountInit == /\ notified \in SUBSET Channels
               /\ pushDevice = FALSE
               /\ userPrefs = Channels
               /\ accountOpen = FALSE /\ checked = {} /\ notifyMsg = ""
               /\ prefsLate = FALSE /\ accountClicks = 0

FirstAccount == <<Request("me", {})>>

---------------------------------------------------------------------------
AccountClick == accountClicks < MaxAccountClicks /\ accountClicks' = accountClicks + 1

OpenAccount == /\ UserMayAct /\ AccountClick /\ ~accountOpen
               /\ accountOpen' = TRUE /\ checked' = userPrefs /\ notifyMsg' = ""
               /\ UNCHANGED <<web, notified, pushDevice, userPrefs, prefsLate>>

CloseAccount == /\ UserMayAct /\ accountOpen
                /\ accountOpen' = FALSE
                /\ UNCHANGED <<web, notified, pushDevice, userPrefs, checked, notifyMsg, prefsLate,
                               accountClicks>>

CheckBox(c) == /\ UserMayAct /\ AccountClick /\ accountOpen
               /\ checked' = IF c \in checked THEN checked \ {c} ELSE checked \cup {c}
               /\ UNCHANGED <<web, notified, pushDevice, userPrefs, accountOpen, notifyMsg, prefsLate>>

(* api() disables the button until the answer comes. *)
SavePrefs == /\ MaySend /\ AccountClick /\ accountOpen /\ ~Waiting({"prefs"})
             /\ net' = Append(net, Request("prefs", checked))
             /\ UNCHANGED <<faults, popup, page, notified, pushDevice, userPrefs, accountOpen,
                            checked, notifyMsg, prefsLate>>

EnablePush == /\ MaySend /\ AccountClick /\ accountOpen
              /\ notifyMsg' = ""
              /\ net' = Append(net, Request("public key", {}))
              /\ UNCHANGED <<faults, popup, page, notified, pushDevice, userPrefs, accountOpen,
                             checked, prefsLate>>

(* The new password is long enough and typed twice alike. *)
SavePassword == /\ MaySend /\ AccountClick /\ accountOpen /\ ~Waiting({"password"})
                /\ net' = Append(net, Request("password", {}))
                /\ UNCHANGED <<faults, popup, page, notified, pushDevice, userPrefs, accountOpen,
                               checked, notifyMsg, prefsLate>>

---------------------------------------------------------------------------
(* External: auth.rs, push_api.rs.  There need not be a key; the current      *)
(* password may be wrong.                                                     *)
ServeAccount(n) ==
    /\ net[n].at = "sent"
    /\ \/ net[n].op = "me" /\ net' = Reply(n, notified) /\ UNCHANGED <<notified, pushDevice>>
       \/ /\ net[n].op = "prefs" /\ net' = Reply(n, {})
          /\ notified' = net[n].arg
          /\ UNCHANGED pushDevice
       \/ /\ net[n].op = "public key"
          /\ \E key \in {"", "key"} : net' = Reply(n, key)
          /\ UNCHANGED <<notified, pushDevice>>
       \/ /\ net[n].op = "device" /\ net' = Reply(n, {})
          /\ pushDevice' = TRUE
          /\ UNCHANGED notified
       \/ /\ net[n].op = "password"
          /\ net' \in {Reply(n, {}), Reject(n)}
          /\ UNCHANGED <<notified, pushDevice>>
    /\ UNCHANGED <<faults, popup, page, userPrefs, accountOpen, checked, notifyMsg, prefsLate,
                   accountClicks>>

---------------------------------------------------------------------------
MeAnswered(n) == /\ Answered(n, "me")
                 /\ userPrefs' = net[n].ans
                 /\ net' = Settle(n)
                 /\ prefsLate' = (prefsLate \/ Waiting({"prefs"}))
                 /\ UNCHANGED <<faults, popup, page, notified, pushDevice, accountOpen, checked,
                                notifyMsg, accountClicks>>

(* Mistake: the dialog is filled from what auth/me said ever after. *)
PrefsAsLoaded == userPrefs
PrefsChosen == checked

(* The boxes as they are when the answer comes are taken for what was saved. *)
PrefsSaved(n) == /\ Answered(n, "prefs")
                 /\ userPrefs' = PrefsChosen
                 /\ notifyMsg' = "Saved."
                 /\ net' = Settle(n)
                 /\ prefsLate' = (checked # net[n].arg \/ Waiting({"me"}))
                 /\ UNCHANGED <<faults, popup, page, notified, pushDevice, accountOpen, checked,
                                accountClicks>>

(* The browser may refuse to subscribe; the device is registered otherwise. *)
KeyAnswered(n) == /\ Answered(n, "public key")
                  /\ \/ /\ net[n].ans # ""
                        /\ net' = Append(Settle(n), Request("device", {}))
                        /\ UNCHANGED notifyMsg
                     \/ /\ net' = Settle(n)
                        /\ notifyMsg' = "No push."
                  /\ UNCHANGED <<faults, popup, page, notified, pushDevice, userPrefs,
                                 accountOpen, checked, prefsLate, accountClicks>>

DeviceAnswered(n) == /\ Answered(n, "device")
                     /\ notifyMsg' = "Push enabled."
                     /\ net' = Settle(n)
                     /\ UNCHANGED <<faults, popup, page, notified, pushDevice, userPrefs,
                                    accountOpen, checked, prefsLate, accountClicks>>

PasswordChanged(n) == /\ Answered(n, "password")
                      /\ accountOpen' = FALSE
                      /\ popup' = [kind |-> "password changed"]
                      /\ net' = Settle(n)
                      /\ UNCHANGED <<faults, page, notified, pushDevice, userPrefs, checked,
                                     notifyMsg, prefsLate, accountClicks>>

AccountFailed(n) ==
    /\ ShowError(n)
    /\ prefsLate' = (prefsLate \/ net[n].op \in {"me", "prefs"})
    /\ notifyMsg' = IF net[n].op \in {"public key", "device"} THEN "No push." ELSE notifyMsg
    /\ UNCHANGED <<notified, pushDevice, userPrefs, accountOpen, checked, accountClicks>>

AccountNext ==
    \/ OpenAccount \/ CloseAccount \/ SavePrefs \/ EnablePush \/ SavePassword
    \/ \E c \in Channels : CheckBox(c)
    \/ \E n \in DOMAIN net :
         \/ ServeAccount(n)
         \/ MeAnswered(n) \/ PrefsSaved(n) \/ KeyAnswered(n) \/ DeviceAnswered(n)
         \/ PasswordChanged(n) \/ AccountFailed(n)
         \/ (Lose(n) \/ SessionExpired(n)) /\ UNCHANGED accountState
    \/ Dismiss /\ UNCHANGED accountState

AccountSpec == WebInit(FirstAccount) /\ AccountInit /\ [][AccountNext]_accountVars

---------------------------------------------------------------------------
(* What the dialog is filled from are the channels the server uses, when       *)
(* everything is answered, unless the last save was lost, overtaken by auth/me *)
(* or a box was changed, or the dialog opened again, while it was under way:    *)
(* the next save would send the difference unseen.                              *)
UserPrefsTrue == page = "open" /\ Quiet /\ ~prefsLate => userPrefs = notified
================================================================================
