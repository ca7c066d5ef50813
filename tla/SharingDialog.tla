----------------------------- MODULE SharingDialog -----------------------------
(***************************************************************************)
(* The sharing dialog: the access list of a calendar, which every change   *)
(* sends as a whole, and its share links, whose token is shown only once.  *)
(***************************************************************************)
EXTENDS WebRequests

CONSTANTS SharedCalendars, People, MaxShareClicks

Unsure == "unsure"

ASSUME SharingAssumption == MaxShareClicks \in Nat /\ Unsure \notin SharedCalendars

VARIABLES acl, links,    \* the server: calendar -> who has access, -> its live links
          shareCal,      \* state.currentCalendar
          shareOpen,     \* share-modal
          currentAcl, currentShares,
          doubled,       \* who is in currentAcl twice
          listOf,        \* history: the calendar whose list currentAcl is for certain
          raced,         \* history: calendars with two writers of a list at a time
          misled,        \* history: a list came late, or was lost, or changed under way
          shareClicks

sharing == <<acl, links, shareCal, shareOpen, currentAcl, currentShares, doubled, listOf, raced,
             misled, shareClicks>>
sharingVars == <<web, sharing>>

NewLink == [kind |-> "link"]

SharingInit == /\ \E c \in SharedCalendars : acl = [d \in SharedCalendars |-> IF d = c THEN People ELSE {}]
               /\ links = [c \in SharedCalendars |-> {"old"}]
               /\ shareCal = Unsure /\ shareOpen = FALSE
               /\ currentAcl = {} /\ currentShares = {} /\ doubled = {}
               /\ listOf = Unsure /\ raced = {} /\ misled = FALSE /\ shareClicks = 0

---------------------------------------------------------------------------
ShareClick == shareClicks < MaxShareClicks /\ shareClicks' = shareClicks + 1
LoadAcl == Request("acl", shareCal)
LoadShares == Request("shares", shareCal)

(* selectCalendar, and share-btn: both lists are asked for, none is cleared. *)
OpenSharing(c) == /\ MaySend /\ ShareClick /\ ~shareOpen
                  /\ shareCal' = c /\ shareOpen' = TRUE
                  /\ net' = net \o <<Request("acl", c), Request("shares", c)>>
                  /\ listOf' = Unsure
                  /\ misled' = ~Quiet
                  /\ UNCHANGED <<faults, popup, page, acl, links, currentAcl, currentShares, doubled,
                                 raced>>

CloseSharing == /\ UserMayAct /\ shareOpen
                /\ shareOpen' = FALSE
                /\ UNCHANGED <<web, acl, links, shareCal, currentAcl, currentShares, doubled, listOf,
                               raced, misled, shareClicks>>

(* Mistake: the list is sent as the change alone. *)
ChangeAlone(p, adding) == IF adding THEN {p} ELSE {}
Changed(p, adding) == IF adding THEN currentAcl \cup {p} ELSE currentAcl \ {p}

(* acl-add, and Remove in a row, for the calendar selected by now: saveAcl.  *)
(* Whoever is listed already can be added once more, and is removed with all   *)
(* his entries.  What currentAcl becomes stays when the list is refused.       *)
ChangeAccess(p, adding) ==
    /\ MaySend /\ ShareClick /\ shareOpen /\ (adding \/ p \in currentAcl)
    /\ doubled' = IF adding THEN doubled \cup ({p} \cap currentAcl) ELSE doubled \ {p}
    /\ net' = Append(net, Request("grant", [cal |-> shareCal, people |-> Changed(p, adding),
                                            twice |-> doubled', who |-> p, sure |-> listOf = shareCal]))
    /\ currentAcl' = Changed(p, adding)
    /\ raced' = IF Waiting({"grant"}) THEN raced \cup {shareCal} ELSE raced
    /\ misled' = (misled \/ Waiting({"acl"}))
    /\ UNCHANGED <<faults, popup, page, acl, links, shareCal, shareOpen, currentShares, listOf>>

(* createShare, and Revoke in a row. *)
CreateLink == /\ MaySend /\ ShareClick /\ shareOpen
              /\ net' = Append(net, Request("link", shareCal))
              /\ UNCHANGED <<faults, popup, page, acl, links, shareCal, shareOpen, currentAcl,
                             currentShares, doubled, listOf, raced, misled>>

RevokeLink == /\ MaySend /\ ShareClick /\ shareOpen /\ "old" \in currentShares
              /\ net' = Append(net, Request("revoke", shareCal))
              /\ UNCHANGED <<faults, popup, page, acl, links, shareCal, shareOpen, currentAcl,
                             currentShares, doubled, listOf, raced, misled>>

---------------------------------------------------------------------------
(* The server.  A list with somebody in it twice breaks the primary key, and  *)
(* none of it is stored.  A link that is gone is not found.                   *)
ServeSharing(n) ==
    /\ net[n].at = "sent"
    /\ \/ net[n].op = "acl" /\ net' = Reply(n, acl[net[n].arg]) /\ UNCHANGED <<acl, links>>
       \/ net[n].op = "shares" /\ net' = Reply(n, links[net[n].arg]) /\ UNCHANGED <<acl, links>>
       \/ /\ net[n].op = "grant" /\ net[n].arg.twice = {} /\ net' = Reply(n, {})
          /\ acl' = [acl EXCEPT ![net[n].arg.cal] = net[n].arg.people]
          /\ UNCHANGED links
       \/ /\ net[n].op = "grant" /\ net[n].arg.twice # {} /\ net' = Reject(n)
          /\ UNCHANGED <<acl, links>>
       \/ /\ net[n].op = "link" /\ net' = Reply(n, {})
          /\ links' = [links EXCEPT ![net[n].arg] = @ \cup {"new"}]
          /\ UNCHANGED acl
       \/ /\ net[n].op = "revoke"
          /\ net' = IF "old" \in links[net[n].arg] THEN Reply(n, {}) ELSE Reject(n)
          /\ links' = [links EXCEPT ![net[n].arg] = @ \ {"old"}]
          /\ UNCHANGED acl
    /\ UNCHANGED <<faults, popup, page, shareCal, shareOpen, currentAcl, currentShares, doubled,
                   listOf, raced, misled, shareClicks>>

OthersGrant(c, p) == /\ page = "open" /\ c \notin raced /\ c = shareCal
                     /\ p \notin acl[c]
                     /\ acl' = [acl EXCEPT ![c] = @ \cup {p}]
                     /\ raced' = raced \cup {c}
                     /\ UNCHANGED <<web, links, shareCal, shareOpen, currentAcl, currentShares,
                                    doubled, listOf, misled, shareClicks>>

---------------------------------------------------------------------------
(* Answers *)

(* The list of the calendar that was asked for, whichever is selected now. *)
AclLoaded(n) == /\ Answered(n, "acl")
                /\ currentAcl' = net[n].ans /\ doubled' = {}
                /\ misled' = (misled \/ Overtakes(n, {"acl"}))
                /\ listOf' = IF misled' \/ Waiting({"grant"}) THEN Unsure ELSE net[n].arg
                /\ net' = Settle(n)
                /\ UNCHANGED <<faults, popup, page, acl, links, shareCal, shareOpen, currentShares,
                               raced, shareClicks>>

SharesLoaded(n) == /\ Answered(n, "shares")
                   /\ currentShares' = net[n].ans
                   /\ misled' = (misled \/ Overtakes(n, {"shares"}))
                   /\ net' = Settle(n)
                   /\ UNCHANGED <<faults, popup, page, acl, links, shareCal, shareOpen, currentAcl,
                                  doubled, listOf, raced, shareClicks>>

(* The toast takes the place of a popup; the list is loaded again. *)
AccessChanged(n) == /\ Answered(n, "grant")
                    /\ popup' = NoPopup
                    /\ net' = Append(Settle(n), LoadAcl)
                    /\ UNCHANGED <<faults, page, sharing>>

Relisted(n) == Append(Settle(n), LoadShares)

LinkCreated(n) == /\ Answered(n, "link")
                  /\ popup' = NewLink
                  /\ net' = Relisted(n)
                  /\ UNCHANGED <<faults, page, sharing>>

(* Mistake: the new list of links comes with a toast. *)
LinkRevokedToast == NoPopup
PopupAfterRevoke == popup

LinkRevoked(n) == /\ Answered(n, "revoke")
                  /\ popup' = PopupAfterRevoke
                  /\ net' = Relisted(n)
                  /\ UNCHANGED <<faults, page, sharing>>

SharingFailed(n) == /\ ShowError(n)
                    /\ listOf' = IF net[n].op \in {"acl", "grant"} THEN Unsure ELSE listOf
                    /\ misled' = TRUE
                    /\ UNCHANGED <<acl, links, shareCal, shareOpen, currentAcl, currentShares,
                                   doubled, raced, shareClicks>>

SharingNext ==
    \/ \E c \in SharedCalendars : OpenSharing(c) \/ \E p \in People : OthersGrant(c, p)
    \/ \E p \in People, adding \in BOOLEAN : ChangeAccess(p, adding)
    \/ CreateLink \/ RevokeLink \/ CloseSharing
    \/ \E n \in DOMAIN net :
         \/ ServeSharing(n)
         \/ AclLoaded(n) \/ SharesLoaded(n) \/ AccessChanged(n) \/ LinkCreated(n) \/ LinkRevoked(n)
         \/ SharingFailed(n)
         \/ (Lose(n) \/ SessionExpired(n)) /\ UNCHANGED sharing
    \/ Dismiss /\ UNCHANGED sharing

SharingSpec == WebInit(<<>>) /\ SharingInit /\ [][SharingNext]_sharingVars

---------------------------------------------------------------------------
(* Adding or removing one person changes the access of nobody else, once    *)
(* the list of this calendar was there and unless somebody else changes it   *)
(* at the same time: a list sent before that is the list of the calendar     *)
(* shared before, and one sent after a failure has the refused change in it.  *)
AccessChangedAsAsked ==
    [][\A n \in DOMAIN net :
         Arrived(n, "grant") /\ Accepted(n) /\ net[n].arg.sure /\ net[n].arg.cal \notin raced =>
            LET r == net[n].arg IN acl'[r.cal] \ {r.who} = acl[r.cal] \ {r.who}]_sharingVars

(* The link that is shown only once is taken off the page by the user, or   *)
(* by the answer to what he had under way: a change of the access list, or a  *)
(* failure, which includes that of the list loaded right after the link.     *)
LinkShownOnce ==
    [][popup = NewLink /\ popup' # NewLink /\ net' # net /\ page' = "open" =>
         \E n \in DOMAIN net : Failed(n) \/ Answered(n, "grant")]_sharingVars
================================================================================
