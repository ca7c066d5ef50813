----------------------------- MODULE DialogProofs -----------------------------
(***************************************************************************)
(* Theorems about the sharing dialog and the calendar dialog of the index    *)
(* page: what a request that was composed some time ago does to what the     *)
(* server has by the time it arrives.  They hold for any number of requests  *)
(* under way, of lost ones and of clicks.                                    *)
(***************************************************************************)
EXTENDS WebClientProofs, SharingDialog, CalendarDialog

---------------------------------------------------------------------------
(* Sharing *)

Grant(m) == m.op = "grant"
NoGrants(q) == \A k \in DOMAIN q : ~Grant(q[k])

SharingTypes == /\ DOMAIN acl = SharedCalendars
                /\ shareCal \in SharedCalendars \cup {Unsure}
                /\ shareOpen => shareCal \in SharedCalendars
                /\ \A k \in DOMAIN net : Grant(net[k]) => net[k].arg.cal \in SharedCalendars

(* Two lists of one calendar under way: that is known as a race. *)
OneGrant == \A j, k \in DOMAIN net :
               j # k /\ Grant(net[j]) /\ Grant(net[k]) /\ net[j].arg.cal = net[k].arg.cal =>
                  net[j].arg.cal \in raced

GrantSure ==
    \A k \in DOMAIN net :
       Grant(net[k]) /\ net[k].at = "sent" /\ net[k].arg.sure /\ net[k].arg.cal \notin raced =>
          net[k].arg.people \ {net[k].arg.who} = acl[net[k].arg.cal] \ {net[k].arg.who}

(* Unless misled, the page waits for lists of the selected calendar only, and *)
(* never while it waits for a change of one.                                 *)
ListsOfSelected ==
    /\ \A k \in DOMAIN net : /\ net[k].op = "acl" => net[k].arg = shareCal
                             /\ Grant(net[k]) => net[k].arg.cal = shareCal
    /\ shareCal \notin raced =>
         /\ NoGrants(net) \/ \A k \in DOMAIN net : net[k].op # "acl"
         /\ \A k \in DOMAIN net : net[k].op = "acl" /\ net[k].at = "answered" =>
               net[k].ans = acl[shareCal]

(* The list on the page is that of the server, or what it is being changed to. *)
ListSure ==
    /\ listOf = shareCal
    /\ shareCal \notin raced =>
         /\ \A k \in DOMAIN net : Grant(net[k]) /\ net[k].arg.cal = shareCal =>
               /\ net[k].at = "sent" => net[k].arg.people = currentAcl
               /\ net[k].at = "answered" => currentAcl = acl[shareCal]
         /\ (\A k \in DOMAIN net : ~(Grant(net[k]) /\ net[k].arg.cal = shareCal)) =>
               currentAcl = acl[shareCal]

SharingInv == /\ Posted(net) /\ SharingTypes /\ OneGrant /\ GrantSure
              /\ ~misled => ListsOfSelected
              /\ page = "open" /\ listOf # Unsure => ListSure
              /\ page # "open" => DOMAIN net = {}

(* One of net is answered or refused, and no access list changes. *)
LEMMA SharingInPlace ==
    ASSUME SharingInv, NEW n \in DOMAIN net, DOMAIN net' = DOMAIN net, Posted(net'),
           net'[n].op = net[n].op, net'[n].arg = net[n].arg,
           \A k \in DOMAIN net \ {n} : net'[k] = net[k],
           Grant(net[n]) => net'[n].at \notin {"sent", "answered"},
           net[n].op = "acl" /\ net'[n].at = "answered" => net'[n].ans = acl[net[n].arg],
           UNCHANGED <<page, acl, shareCal, shareOpen, currentAcl, listOf, raced, misled>>
    PROVE  SharingInv'
<1>1. \A k \in DOMAIN net : net'[k].op = net[k].op /\ net'[k].arg = net[k].arg
  OBVIOUS
<1>2. SharingTypes' /\ OneGrant'
  BY <1>1 DEF SharingInv, SharingTypes, OneGrant, Grant
<1>3. GrantSure'
  BY <1>1 DEF SharingInv, GrantSure, Grant
<1>4. ASSUME ~misled PROVE ListsOfSelected'
  BY <1>1, <1>4 DEF SharingInv, ListsOfSelected, NoGrants, Grant
<1>5. ASSUME page = "open", listOf # Unsure PROVE ListSure'
  BY <1>1, <1>5 DEF SharingInv, ListSure, Grant
<1> QED
  BY <1>2, <1>3, <1>4, <1>5 DEF SharingInv

(* The server takes the list of a calendar. *)
LEMMA GrantedKeeps ==
    ASSUME SharingInv, NEW n \in DOMAIN net, Grant(net[n]), net[n].at = "sent",
           net' = Reply(n, {}), acl' = [acl EXCEPT ![net[n].arg.cal] = net[n].arg.people],
           UNCHANGED <<page, shareCal, shareOpen, currentAcl, listOf, raced, misled>>
    PROVE  SharingInv'
<1> DEFINE c == net[n].arg.cal
<1>1. /\ Posted(net') /\ DOMAIN net' = DOMAIN net /\ net'[n].op = net[n].op
      /\ net'[n].arg = net[n].arg /\ net'[n].at = "answered" /\ \A k \in DOMAIN net \ {n} : net'[k] = net[k]
  BY ReplyTells DEF SharingInv
<1>2. \A k \in DOMAIN net : net'[k].op = net[k].op /\ net'[k].arg = net[k].arg
  BY <1>1
<1>3. /\ c \in SharedCalendars /\ DOMAIN acl' = SharedCalendars /\ acl'[c] = net[n].arg.people
      /\ \A d \in SharedCalendars \ {c} : acl'[d] = acl[d]
  BY DEF SharingInv, SharingTypes
<1>4. SharingTypes' /\ OneGrant'
  BY <1>1, <1>2, <1>3 DEF SharingInv, SharingTypes, OneGrant, Grant
<1>5. \A k \in DOMAIN net : k # n /\ Grant(net[k]) /\ net[k].arg.cal \notin raced => net[k].arg.cal # c
  BY DEF SharingInv, OneGrant
<1>6. GrantSure'
  BY <1>1, <1>2, <1>3, <1>5 DEF SharingInv, SharingTypes, GrantSure, Grant
<1>7. ASSUME ~misled PROVE ListsOfSelected'
  <2>1. ListsOfSelected
    BY <1>7 DEF SharingInv
  <2>2. shareCal \notin raced => \A k \in DOMAIN net : net[k].op # "acl"
    BY <2>1 DEF ListsOfSelected, NoGrants
  <2> QED
    BY <1>1, <1>2, <2>1, <2>2 DEF ListsOfSelected, NoGrants, Grant
<1>8. ASSUME page = "open", listOf # Unsure PROVE ListSure'
  <2>1. ListSure
    BY <1>8 DEF SharingInv
  <2>2. CASE c = shareCal
    <3>1. ASSUME shareCal \notin raced PROVE currentAcl = acl'[shareCal]
      BY <1>3, <2>1, <2>2, <3>1 DEF ListSure
    <3> QED
      BY <1>1, <1>2, <1>5, <2>1, <2>2, <3>1 DEF ListSure, Grant
  <2>3. CASE c # shareCal
    <3>1. shareCal \in SharedCalendars
      BY <1>8, <2>1 DEF SharingInv, SharingTypes, ListSure
    <3> QED
      BY <1>1, <1>2, <1>3, <2>1, <2>3, <3>1 DEF ListSure, Grant
  <2> QED
    BY <2>2, <2>3
<1> QED
  BY <1>1, <1>4, <1>6, <1>7, <1>8 DEF SharingInv

LEMMA ServeSharingKeeps ==
    ASSUME SharingInv, NEW n \in DOMAIN net, ServeSharing(n)
    PROVE  SharingInv'
<1>1. UNCHANGED <<page, shareCal, shareOpen, currentAcl, listOf, raced, misled>>
  BY DEF ServeSharing
<1>2. CASE Grant(net[n]) /\ net[n].arg.twice = {}
  BY <1>1, <1>2, GrantedKeeps DEF ServeSharing, Grant
<1>3. CASE ~(Grant(net[n]) /\ net[n].arg.twice = {})
  <2>1. \/ net[n].op = "acl" /\ net' = Reply(n, acl[net[n].arg]) /\ acl' = acl
        \/ net[n].op # "acl" /\ (net' = Reject(n) \/ \E a : net' = Reply(n, a)) /\ acl' = acl
    BY <1>3 DEF ServeSharing, Grant
  <2>2. /\ Posted(net') /\ DOMAIN net' = DOMAIN net /\ net'[n].op = net[n].op
        /\ net'[n].arg = net[n].arg /\ \A k \in DOMAIN net \ {n} : net'[k] = net[k]
        /\ net[n].op = "acl" /\ net'[n].at = "answered" => net'[n].ans = acl[net[n].arg]
    BY <2>1, ReplyTells, RejectTells DEF SharingInv
  <2>3. Grant(net[n]) => net' = Reject(n)
    BY <1>3 DEF ServeSharing, Grant
  <2>4. Grant(net[n]) => net'[n].at = "failed"
    BY <2>3, RejectTells DEF SharingInv
  <2> QED
    BY <1>1, <2>1, <2>2, <2>4, SharingInPlace
<1> QED
  BY <1>2, <1>3

LEMMA LoseSharingKeeps ==
    ASSUME SharingInv, NEW n \in DOMAIN net, Lose(n), UNCHANGED sharing
    PROVE  SharingInv'
<1>1. /\ Posted(net') /\ DOMAIN net' = DOMAIN net /\ net'[n].op = net[n].op
      /\ net'[n].arg = net[n].arg /\ net'[n].at = "failed" /\ \A k \in DOMAIN net \ {n} : net'[k] = net[k]
  BY RejectTells DEF SharingInv, Lose
<1> QED
  BY <1>1, SharingInPlace DEF Lose, sharing

LEMMA OthersGrantKeeps ==
    ASSUME SharingInv, NEW c \in SharedCalendars, NEW p \in People, OthersGrant(c, p)
    PROVE  SharingInv'
<1>1. /\ c = shareCal /\ acl' = [acl EXCEPT ![c] = acl[c] \cup {p}] /\ raced' = raced \cup {c}
      /\ UNCHANGED <<net, page, shareCal, shareOpen, currentAcl, listOf, misled>>
  BY DEF OthersGrant, web
<1>2. /\ DOMAIN acl' = SharedCalendars
      /\ \A d \in SharedCalendars \ {c} : acl'[d] = acl[d]
  BY <1>1 DEF SharingInv, SharingTypes
<1>3. SharingTypes' /\ OneGrant'
  BY <1>1, <1>2 DEF SharingInv, SharingTypes, OneGrant
<1>4. GrantSure'
  BY <1>1, <1>2 DEF SharingInv, SharingTypes, GrantSure
<1>5. ~misled => ListsOfSelected'
  BY <1>1 DEF SharingInv, ListsOfSelected
<1>6. page = "open" /\ listOf # Unsure => ListSure'
  BY <1>1 DEF SharingInv, ListSure
<1> QED
  BY <1>1, <1>3, <1>4, <1>5, <1>6 DEF SharingInv

(* The page sends one more message that is no change of a list. *)
LEMMA SharingAsks ==
    ASSUME SharingInv, page = "open", NEW op, NEW arg, Sends(net, net', op, arg),
           op \notin {"grant", "acl"},
           UNCHANGED <<page, acl, shareCal, shareOpen, currentAcl, listOf, raced, misled>>
    PROVE  SharingInv'
<1>1. /\ Posted(net') /\ \A k \in DOMAIN net : k \in DOMAIN net' /\ net'[k] = net[k]
      /\ \A k \in DOMAIN net' : \/ k \in DOMAIN net /\ net'[k] = net[k]
                                \/ net'[k].op \notin {"grant", "acl"}
  BY DEF Sends
<1>2. SharingTypes' /\ OneGrant'
  BY <1>1 DEF SharingInv, SharingTypes, OneGrant, Grant
<1>3. GrantSure'
  BY <1>1 DEF SharingInv, GrantSure, Grant
<1>4. ~misled => ListsOfSelected'
  BY <1>1 DEF SharingInv, ListsOfSelected, NoGrants, Grant
<1>5. page = "open" /\ listOf # Unsure => ListSure'
  BY <1>1 DEF SharingInv, ListSure, Grant
<1> QED
  BY <1>1, <1>2, <1>3, <1>4, <1>5 DEF SharingInv

LEMMA OpenSharingKeeps ==
    ASSUME SharingInv, NEW c \in SharedCalendars, OpenSharing(c)
    PROVE  SharingInv'
<1> DEFINE p == Append(net, Request("acl", c))
<1>1. /\ page = "open" /\ shareCal' = c /\ shareOpen' = TRUE /\ listOf' = Unsure
      /\ misled' = (net # <<>>) /\ UNCHANGED <<page, acl, raced, currentAcl>>
  BY DEF OpenSharing, MaySend, UserMayAct, Quiet
<1>2. net' = Append(p, Request("shares", c)) /\ Posted(net)
  BY SendsTwo DEF OpenSharing, SharingInv
<1>3. Sends(net, p, "acl", c)
  BY <1>2, SendTells
<1> HIDE DEF p
<1>4. Sends(p, net', "shares", c)
  <2>1. Posted(p)
    BY <1>3 DEF Sends
  <2> QED
    BY <1>2, <2>1, SendTells
<1>5. /\ Posted(net') /\ \A k \in DOMAIN net : k \in DOMAIN net' /\ net'[k] = net[k]
      /\ \A k \in DOMAIN net' : \/ k \in DOMAIN net /\ net'[k] = net[k]
                                \/ net'[k].op = "acl" /\ net'[k].arg = c /\ net'[k].at = "sent"
                                \/ net'[k].op = "shares"
  BY <1>3, <1>4 DEF Sends
<1>6. \A k \in DOMAIN net' : Grant(net'[k]) => k \in DOMAIN net /\ net'[k] = net[k]
  BY <1>5 DEF Grant
<1>7. SharingTypes' /\ OneGrant'
  BY <1>1, <1>5, <1>6 DEF SharingInv, SharingTypes, OneGrant
<1>8. GrantSure'
  BY <1>1, <1>5, <1>6 DEF SharingInv, GrantSure
<1>9. ASSUME ~misled' PROVE ListsOfSelected'
  <2>1. DOMAIN net = {}
    BY <1>1, <1>9, NothingPosted
  <2> QED
    BY <1>1, <1>5, <1>6, <2>1 DEF ListsOfSelected, NoGrants
<1> QED
  BY <1>1, <1>5, <1>7, <1>8, <1>9 DEF SharingInv

LEMMA ChangeAccessKeeps ==
    ASSUME SharingInv, NEW p \in People, NEW adding \in BOOLEAN, ChangeAccess(p, adding)
    PROVE  SharingInv'
<1> DEFINE r == [cal |-> shareCal, people |-> Changed(p, adding), twice |-> doubled', who |-> p,
                 sure |-> listOf = shareCal]
           e == Len(net')
<1>1. /\ page = "open" /\ shareOpen /\ currentAcl' = Changed(p, adding)
      /\ raced' = IF Waiting({"grant"}) THEN raced \cup {shareCal} ELSE raced
      /\ misled' = (misled \/ Waiting({"acl"}))
      /\ UNCHANGED <<page, acl, shareCal, shareOpen, listOf>>
      /\ shareCal \in SharedCalendars /\ shareCal # Unsure
  BY SharingAssumption
     DEF ChangeAccess, MaySend, UserMayAct, SharingInv, SharingTypes
<1>2. Sends(net, net', "grant", r)
  BY SendTells DEF ChangeAccess, SharingInv
<1>3. r.cal = shareCal /\ r.people = currentAcl' /\ r.who = p /\ (r.sure <=> listOf = shareCal)
  BY <1>1
<1> HIDE DEF r
<1>4. /\ Posted(net') /\ DOMAIN net' = DOMAIN net \cup {e} /\ e \notin DOMAIN net
      /\ \A k \in DOMAIN net : net'[k] = net[k]
      /\ net'[e].op = "grant" /\ net'[e].arg = r /\ net'[e].at = "sent"
  BY <1>2 DEF Sends
<1> HIDE DEF e
<1>5. shareCal \notin raced' => shareCal \notin raced /\ NoGrants(net)
  BY <1>1 DEF NoGrants, Grant, Waiting
<1>6. raced \subseteq raced'
  BY <1>1
<1>7. SharingTypes'
  BY <1>1, <1>3, <1>4 DEF SharingInv, SharingTypes, Grant
<1>8. OneGrant'
  <2> SUFFICES ASSUME NEW j \in DOMAIN net', NEW k \in DOMAIN net', j # k,
                      Grant(net'[j]), Grant(net'[k]), net'[j].arg.cal = net'[k].arg.cal
               PROVE  net'[j].arg.cal \in raced'
    BY DEF OneGrant
  <2>1. CASE j \in DOMAIN net /\ k \in DOMAIN net
    BY <1>4, <1>6, <2>1 DEF SharingInv, OneGrant
  <2>2. CASE j = e \/ k = e
    <3>1. net'[j].arg.cal = shareCal
      BY <1>3, <1>4, <2>2
    <3>2. ~NoGrants(net)
      BY <1>4, <2>2 DEF NoGrants
    <3> QED
      BY <1>5, <3>1, <3>2
  <2> QED
    BY <1>4, <2>1, <2>2
<1>9. GrantSure'
  <2>1. ASSUME r.sure, shareCal \notin raced' PROVE currentAcl = acl[shareCal]
    <3>1. ListSure
      BY <1>1, <1>3, <2>1 DEF SharingInv
    <3> QED
      BY <1>5, <2>1, <3>1 DEF ListSure, NoGrants
  <2>2. ASSUME r.sure, shareCal \notin raced' PROVE r.people \ {p} = acl[shareCal] \ {p}
    BY <1>1, <1>3, <2>1, <2>2 DEF Changed
  <2>3. ASSUME NEW k \in DOMAIN net', Grant(net'[k]), net'[k].at = "sent", net'[k].arg.sure,
               net'[k].arg.cal \notin raced'
        PROVE  net'[k].arg.people \ {net'[k].arg.who} = acl'[net'[k].arg.cal] \ {net'[k].arg.who}
    <3>1. CASE k = e
      BY <1>1, <1>3, <1>4, <2>2, <2>3, <3>1
    <3>2. CASE k \in DOMAIN net
      BY <1>1, <1>4, <1>6, <2>3, <3>2 DEF SharingInv, GrantSure
    <3> QED
      BY <1>4, <3>1, <3>2
  <2> QED
    BY <2>3 DEF GrantSure
<1>10. ASSUME ~misled' PROVE ListsOfSelected'
  <2>1. ListsOfSelected /\ \A k \in DOMAIN net : net[k].op # "acl"
    BY <1>1, <1>10 DEF SharingInv, Waiting
  <2> QED
    BY <1>1, <1>3, <1>4, <1>5, <2>1 DEF ListsOfSelected, NoGrants, Grant
<1>11. ASSUME listOf # Unsure PROVE ListSure'
  <2>1. ListSure
    BY <1>1, <1>11 DEF SharingInv
  <2> QED
    BY <1>1, <1>3, <1>4, <1>5, <2>1 DEF ListSure, NoGrants, Grant
<1> QED
  BY <1>1, <1>4, <1>7, <1>8, <1>9, <1>10, <1>11 DEF SharingInv

(* A message leaves net, and nothing comes but a request for a list: for the  *)
(* list of the selected calendar when a change of it was answered.           *)
LEMMA SharingLeaves ==
    ASSUME SharingInv, page = "open", NEW n \in DOMAIN net, NEW op \in {"acl", "shares"},
           net' = Settle(n) \/ net' = Append(Settle(n), Request(op, shareCal)),
           op = "acl" => Grant(net[n]) /\ net[n].at = "answered",
           misled => misled',
           \/ listOf' = Unsure
           \/ /\ listOf' = listOf /\ currentAcl' = currentAcl
              /\ Grant(net[n]) => net[n].at = "answered"
           \/ /\ listOf' = shareCal /\ NoGrants(net)
              /\ currentAcl' = acl[shareCal] \/ shareCal \in raced,
           UNCHANGED <<page, acl, shareCal, shareOpen, raced>>
    PROVE  SharingInv'
<1>1. /\ Posted(net')
      /\ \A k \in DOMAIN net' :
            \/ net'[k].op = op /\ net'[k].arg = shareCal /\ net'[k].at = "sent"
            \/ \E m \in DOMAIN net : m # n /\ net'[k] = net[m]
      /\ \A j, k \in DOMAIN net' : j # k /\ net'[j].op # op /\ net'[k].op # op =>
            \E i, m \in DOMAIN net : /\ i # n /\ m # n /\ i # m
                                     /\ net'[j] = net[i] /\ net'[k] = net[m]
      /\ \A m \in DOMAIN net : m # n => \E k \in DOMAIN net' : net'[k] = net[m]
  <2>1. Left(net, net', n, op, shareCal)
    BY Leaves DEF SharingInv
  <2> QED
    BY <2>1 DEF Left
<1>2. ASSUME NEW k \in DOMAIN net', Grant(net'[k])
      PROVE  net'[k].op # op /\ \E m \in DOMAIN net : m # n /\ net'[k] = net[m]
  BY <1>1, <1>2 DEF Grant
<1>3. SharingTypes'
  BY <1>2 DEF SharingInv, SharingTypes
<1>4. OneGrant'
  <2> SUFFICES ASSUME NEW j \in DOMAIN net', NEW k \in DOMAIN net', j # k, Grant(net'[j]),
                      Grant(net'[k]), net'[j].arg.cal = net'[k].arg.cal
               PROVE  net'[j].arg.cal \in raced
    BY DEF OneGrant
  <2>1. net'[j].op # op /\ net'[k].op # op
    BY <1>2
  <2>2. PICK i \in DOMAIN net, m \in DOMAIN net : i # m /\ net'[j] = net[i] /\ net'[k] = net[m]
    BY <1>1, <2>1
  <2> QED
    BY <2>2 DEF SharingInv, OneGrant
<1>5. GrantSure'
  BY <1>2 DEF SharingInv, GrantSure
<1>6. ASSUME ~misled' PROVE ListsOfSelected'
  <2>1. ListsOfSelected
    BY <1>6 DEF SharingInv
  <2>2. ASSUME NEW k \in DOMAIN net'
        PROVE  /\ net'[k].op = "acl" => net'[k].arg = shareCal
               /\ Grant(net'[k]) => net'[k].arg.cal = shareCal
               /\ shareCal \notin raced /\ net'[k].op = "acl" /\ net'[k].at = "answered" =>
                     net'[k].ans = acl[shareCal]
    BY <1>1, <1>2, <2>1 DEF ListsOfSelected
  <2>3. ASSUME shareCal \notin raced PROVE NoGrants(net') \/ \A k \in DOMAIN net' : net'[k].op # "acl"
    <3>1. CASE Grant(net[n])
      <4>1. ASSUME NEW k \in DOMAIN net', Grant(net'[k]) PROVE FALSE
        <5>1. PICK m \in DOMAIN net : m # n /\ net'[k] = net[m]
          BY <1>2, <4>1
        <5>2. net[m].arg.cal = shareCal /\ net[n].arg.cal = shareCal /\ Grant(net[m])
          BY <2>1, <3>1, <4>1, <5>1 DEF ListsOfSelected
        <5> QED
          BY <2>3, <3>1, <5>1, <5>2 DEF SharingInv, OneGrant
      <4> QED
        BY <4>1 DEF NoGrants
    <3>2. CASE ~Grant(net[n])
      BY <1>1, <1>2, <2>1, <2>3, <3>2 DEF ListsOfSelected, NoGrants
    <3> QED
      BY <3>1, <3>2
  <2> QED
    BY <2>2, <2>3 DEF ListsOfSelected
<1>7. ASSUME listOf' # Unsure PROVE ListSure'
  <2>1. CASE listOf' = shareCal /\ NoGrants(net) /\ (currentAcl' = acl[shareCal] \/ shareCal \in raced)
    BY <1>2, <2>1 DEF ListSure, NoGrants
  <2>2. CASE listOf' = listOf /\ currentAcl' = currentAcl /\ (Grant(net[n]) => net[n].at = "answered")
    <3>1. ListSure
      BY <1>7, <2>2 DEF SharingInv
    <3>2. ASSUME shareCal \notin raced,
                 \A k \in DOMAIN net' : ~(Grant(net'[k]) /\ net'[k].arg.cal = shareCal)
          PROVE  currentAcl = acl[shareCal]
      <4>1. ASSUME NEW m \in DOMAIN net, m # n PROVE ~(Grant(net[m]) /\ net[m].arg.cal = shareCal)
        BY <1>1, <3>2, <4>1
      <4> QED
        BY <2>2, <3>1, <3>2, <4>1 DEF ListSure
    <3> QED
      BY <1>2, <2>2, <3>1, <3>2 DEF ListSure
  <2> QED
    BY <1>7, <2>1, <2>2
<1> QED
  BY <1>1, <1>3, <1>4, <1>5, <1>6, <1>7 DEF SharingInv

LEMMA SharingAnswersKeep ==
    ASSUME SharingInv, NEW n \in DOMAIN net,
           \/ AclLoaded(n) \/ SharesLoaded(n) \/ AccessChanged(n) \/ LinkCreated(n) \/ LinkRevoked(n)
           \/ SharingFailed(n)
    PROVE  SharingInv'
<1>1. CASE AclLoaded(n)
  <2>1. /\ page = "open" /\ net[n].op = "acl" /\ net[n].at = "answered" /\ net' = Settle(n)
        /\ currentAcl' = net[n].ans /\ misled' = (misled \/ Overtakes(n, {"acl"}))
        /\ listOf' = IF misled' \/ Waiting({"grant"}) THEN Unsure ELSE net[n].arg
        /\ UNCHANGED <<page, acl, shareCal, shareOpen, raced>>
    BY <1>1 DEF AclLoaded, Answered
  <2>2. ASSUME listOf' # Unsure
        PROVE  /\ listOf' = shareCal /\ NoGrants(net)
               /\ currentAcl' = acl[shareCal] \/ shareCal \in raced
    <3>1. ~misled /\ NoGrants(net) /\ listOf' = net[n].arg
      BY <2>1, <2>2 DEF Waiting, NoGrants, Grant
    <3> QED
      BY <2>1, <3>1 DEF SharingInv, ListsOfSelected
  <2> QED
    BY <2>1, <2>2, SharingLeaves DEF Grant
<1>2. CASE SharesLoaded(n)
  BY <1>2, SharingLeaves DEF SharesLoaded, Answered, Grant
<1>3. CASE AccessChanged(n)
  <2>1. /\ page = "open" /\ Grant(net[n]) /\ net[n].at = "answered"
        /\ net' = Append(Settle(n), Request("acl", shareCal))
        /\ UNCHANGED <<page, acl, shareCal, shareOpen, raced, misled, listOf, currentAcl>>
    BY <1>3 DEF AccessChanged, Answered, LoadAcl, Grant, sharing
  <2> QED
    BY <2>1, SharingLeaves
<1>4. CASE LinkCreated(n) \/ LinkRevoked(n)
  <2>1. /\ page = "open" /\ ~Grant(net[n])
        /\ net' = Append(Settle(n), Request("shares", shareCal))
        /\ UNCHANGED <<page, acl, shareCal, shareOpen, raced, misled, listOf, currentAcl>>
    BY <1>4 DEF LinkCreated, LinkRevoked, Answered, Relisted, LoadShares, Grant, sharing
  <2> QED
    BY <2>1, SharingLeaves
<1>5. CASE SharingFailed(n)
  <2>1. /\ page = "open" /\ net' = Settle(n) /\ misled'
        /\ listOf' = Unsure \/ (~Grant(net[n]) /\ listOf' = listOf)
        /\ UNCHANGED <<page, acl, shareCal, shareOpen, raced, currentAcl>>
    BY <1>5 DEF SharingFailed, ShowError, Failed, Grant
  <2> QED
    BY <2>1, SharingLeaves
<1> QED
  BY <1>1, <1>2, <1>3, <1>4, <1>5

LEMMA SharingStep ==
    ASSUME SharingInv, [SharingNext]_sharingVars
    PROVE  SharingInv'
<1>1. ASSUME UNCHANGED <<net, page, acl, shareCal, currentAcl, listOf, raced, misled>>,
             shareOpen' => shareOpen
      PROVE  SharingInv'
  BY <1>1 DEF SharingInv, SharingTypes, OneGrant, GrantSure, ListsOfSelected, ListSure, NoGrants, Grant
<1>2. CASE UNCHANGED sharingVars
  BY <1>1, <1>2 DEF sharingVars, web, sharing
<1>3. ASSUME NEW c \in SharedCalendars, OpenSharing(c) \/ \E p \in People : OthersGrant(c, p)
      PROVE  SharingInv'
  BY <1>3, OpenSharingKeeps, OthersGrantKeeps
<1>4. ASSUME NEW p \in People, NEW adding \in BOOLEAN, ChangeAccess(p, adding) PROVE SharingInv'
  BY <1>4, ChangeAccessKeeps
<1>5. CASE CreateLink
  <2>1. Sends(net, net', "link", shareCal)
    BY <1>5, SendTells DEF CreateLink, SharingInv
  <2> QED
    BY <1>5, <2>1, SharingAsks DEF CreateLink, MaySend, UserMayAct
<1>6. CASE RevokeLink
  <2>1. Sends(net, net', "revoke", shareCal)
    BY <1>6, SendTells DEF RevokeLink, SharingInv
  <2> QED
    BY <1>6, <2>1, SharingAsks DEF RevokeLink, MaySend, UserMayAct
<1>7. CASE CloseSharing
  BY <1>1, <1>7 DEF CloseSharing, web
<1>8. ASSUME NEW n \in DOMAIN net, ServeSharing(n) PROVE SharingInv'
  BY <1>8, ServeSharingKeeps
<1>9. ASSUME NEW n \in DOMAIN net,
             \/ AclLoaded(n) \/ SharesLoaded(n) \/ AccessChanged(n) \/ LinkCreated(n) \/ LinkRevoked(n)
             \/ SharingFailed(n)
      PROVE  SharingInv'
  BY <1>9, SharingAnswersKeep
<1>10. ASSUME NEW n \in DOMAIN net, Lose(n), UNCHANGED sharing PROVE SharingInv'
  BY <1>10, LoseSharingKeeps
<1>11. ASSUME NEW n \in DOMAIN net, SessionExpired(n), UNCHANGED sharing PROVE SharingInv'
  <2>1. /\ net' = <<>> /\ page' # "open"
        /\ UNCHANGED <<acl, shareCal, shareOpen, currentAcl, listOf, raced, misled>>
    BY <1>11 DEF SessionExpired, sharing
  <2>2. Posted(net') /\ DOMAIN net' = {}
    BY <2>1, NothingPosted
  <2> QED
    BY <2>1, <2>2 DEF SharingInv, SharingTypes, OneGrant, GrantSure, ListsOfSelected, NoGrants
<1>12. CASE Dismiss /\ UNCHANGED sharing
  BY <1>1, <1>12 DEF Dismiss, sharing
<1> QED
  BY <1>2, <1>3, <1>4, <1>5, <1>6, <1>7, <1>8, <1>9, <1>10, <1>11, <1>12 DEF SharingNext

LEMMA SharingStart == WebInit(<<>>) /\ SharingInit => SharingInv
<1> SUFFICES ASSUME WebInit(<<>>), SharingInit PROVE SharingInv
  OBVIOUS
<1>1. /\ net = <<>> /\ page = "open" /\ shareCal = Unsure /\ ~shareOpen /\ listOf = Unsure
      /\ DOMAIN acl = SharedCalendars /\ Posted(net) /\ DOMAIN net = {}
  BY NothingPosted DEF WebInit, SharingInit
<1> QED
  BY <1>1 DEF SharingInv, SharingTypes, OneGrant, GrantSure, ListsOfSelected, NoGrants

(* A change of one person's access, sent once the list of the calendar had    *)
(* come, leaves the others' access as the server has it by then, unless the   *)
(* list was changed by somebody else too (app.js: saveAcl sends it whole).   *)
THEOREM AccessAsAsked == SharingSpec => AccessChangedAsAsked
<1>1. SharingInv /\ [SharingNext]_sharingVars => SharingInv'
  BY SharingStep
<1>2. SharingSpec => []SharingInv
  BY <1>1, SharingStart, PTL DEF SharingSpec
<1> DEFINE Asked == \A n \in DOMAIN net :
              Arrived(n, "grant") /\ Accepted(n) /\ net[n].arg.sure /\ net[n].arg.cal \notin raced =>
                 LET r == net[n].arg IN acl'[r.cal] \ {r.who} = acl[r.cal] \ {r.who}
<1>3. ASSUME SharingInv, [SharingNext]_sharingVars PROVE Asked
  <2> SUFFICES ASSUME NEW n \in DOMAIN net, Arrived(n, "grant"), Accepted(n), net[n].arg.sure,
                      net[n].arg.cal \notin raced
               PROVE  acl'[net[n].arg.cal] \ {net[n].arg.who} = acl[net[n].arg.cal] \ {net[n].arg.who}
    OBVIOUS
  <2>1. net[n].op = "grant" /\ net[n].at = "sent" /\ net'[n].at = "answered"
    BY DEF Arrived, Accepted
  <2>2. CASE acl' = acl
    BY <2>2
  <2>3. ASSUME NEW c \in SharedCalendars, NEW p \in People, OthersGrant(c, p) PROVE FALSE
    BY <2>1, <2>3 DEF OthersGrant, web
  <2>4. ASSUME NEW m \in DOMAIN net, ServeSharing(m), acl' # acl
        PROVE  m = n /\ acl' = [acl EXCEPT ![net[n].arg.cal] = net[n].arg.people]
    <3>1. net[m].op = "grant" /\ net' = Reply(m, {})
          /\ acl' = [acl EXCEPT ![net[m].arg.cal] = net[m].arg.people]
      BY <2>4 DEF ServeSharing
    <3>2. \A k \in DOMAIN net \ {m} : net'[k] = net[k]
      BY <1>3, <3>1, ReplyTells DEF SharingInv
    <3> QED
      BY <2>1, <3>1, <3>2
  <2>5. ASSUME acl' = [acl EXCEPT ![net[n].arg.cal] = net[n].arg.people]
        PROVE  acl'[net[n].arg.cal] \ {net[n].arg.who} = acl[net[n].arg.cal] \ {net[n].arg.who}
    <3>1. acl'[net[n].arg.cal] = net[n].arg.people
      BY <1>3, <2>1, <2>5 DEF SharingInv, SharingTypes, Grant
    <3> QED
      BY <1>3, <2>1, <3>1 DEF SharingInv, GrantSure, Grant
  <2>6. \/ acl' = acl
        \/ \E c \in SharedCalendars, p \in People : OthersGrant(c, p)
        \/ \E m \in DOMAIN net : ServeSharing(m)
    BY <1>3 DEF SharingNext, sharingVars, sharing, OpenSharing, ChangeAccess, CreateLink, RevokeLink,
                CloseSharing, AclLoaded, SharesLoaded, AccessChanged, LinkCreated, LinkRevoked,
                SharingFailed
  <2> QED
    BY <2>2, <2>3, <2>4, <2>5, <2>6
<1>4. SharingInv /\ [SharingNext]_sharingVars => Asked
  BY <1>3
<1> HIDE DEF Asked
<1>5. SharingSpec => [][Asked]_sharingVars
  BY <1>2, <1>4, PTL DEF SharingSpec
<1> QED
  BY <1>5 DEF AccessChangedAsAsked, Asked

(* A new share link, whose token is shown only once, is taken off the page by *)
(* no answer but that to a change of the access list, or a failure (app.js:  *)
(* createShare, and the toasts that replace its popup).                      *)
THEOREM LinkStaysShown == SharingSpec => LinkShownOnce
<1> DEFINE Shown == popup = NewLink /\ popup' # NewLink /\ net' # net /\ page' = "open" =>
                       \E n \in DOMAIN net : Failed(n) \/ Answered(n, "grant")
<1>1. ASSUME [SharingNext]_sharingVars PROVE Shown
  <2>1. \/ popup' = popup \/ net' = net \/ popup' = NewLink
        \/ \E n \in DOMAIN net : AccessChanged(n) \/ SharingFailed(n) \/ SessionExpired(n)
    BY <1>1
       DEF SharingNext, sharingVars, sharing, web, OpenSharing, OthersGrant, ChangeAccess, CreateLink,
           RevokeLink, CloseSharing, ServeSharing, AclLoaded, SharesLoaded, LinkCreated, LinkRevoked,
           PopupAfterRevoke, Lose, Dismiss
  <2>2. ASSUME NEW n \in DOMAIN net, AccessChanged(n) \/ SharingFailed(n) \/ SessionExpired(n)
        PROVE  Failed(n) \/ Answered(n, "grant") \/ page' # "open"
    BY <2>2 DEF AccessChanged, SharingFailed, SessionExpired, ShowError
  <2> QED
    BY <2>1, <2>2
<1> HIDE DEF Shown
<1>2. SharingSpec => [][Shown]_sharingVars
  BY <1>1, PTL DEF SharingSpec
<1> QED
  BY <1>2 DEF LinkShownOnce, Shown

---------------------------------------------------------------------------
(* The calendar dialog *)

CalendarChange(m, c) == (m.op = "edit" /\ m.arg.cal = c) \/ (m.op = "cleanup" /\ m.arg = c)

(* What the sidebar shows of a calendar, as of a view of the server's data     *)
(* (Fresh): it may miss a new one, but not show what is no longer true.       *)
ListedTrue(q, c, shown, truth) ==
    \/ \E k \in DOMAIN q : CalendarChange(q[k], c)
    \/ /\ \A k \in DOMAIN q :
             q[k].op = "calendars" =>
                \/ Followed(q, k, "calendars")
                \/ q[k].at = "answered" => q[k].ans[c] \in {Absent, truth}
       /\ (\A k \in DOMAIN q : q[k].op # "calendars") => shown \in {Absent, truth}

LEMMA ListAsked ==
    ASSUME NEW q, Posted(q), NEW r, NEW arg, Sends(q, r, "calendars", arg),
           NEW c, NEW shown, NEW truth
    PROVE  ListedTrue(r, c, shown, truth)
<1>1. /\ DOMAIN r = DOMAIN q \cup {Len(r)} /\ \A k \in DOMAIN q : k < Len(r)
      /\ r[Len(r)].op = "calendars" /\ r[Len(r)].at = "sent"
      /\ Len(r) \in Nat /\ DOMAIN q \subseteq Nat
  BY PostedDomain DEF Sends
<1>2. \A k \in DOMAIN q : Followed(r, k, "calendars")
  BY <1>1 DEF Followed
<1> QED
  BY <1>1, <1>2 DEF ListedTrue

LEMMA ListedElse ==
    ASSUME NEW q, Posted(q), NEW op, NEW arg, NEW r, Sends(q, r, op, arg), op # "calendars",
           NEW c, NEW shown, NEW truth, ListedTrue(q, c, shown, truth)
    PROVE  ListedTrue(r, c, shown, truth)
<1>1. /\ DOMAIN r = DOMAIN q \cup {Len(r)} /\ \A k \in DOMAIN q : r[k] = q[k]
      /\ r[Len(r)].op = op
  BY DEF Sends
<1>2. \A k \in DOMAIN q : Followed(q, k, "calendars") => Followed(r, k, "calendars")
  BY <1>1 DEF Followed
<1> QED
  BY <1>1, <1>2 DEF ListedTrue

LEMMA ListedInPlace ==
    ASSUME NEW q, NEW r, NEW n \in DOMAIN q, DOMAIN r = DOMAIN q,
           r[n].op = q[n].op, r[n].arg = q[n].arg, \A k \in DOMAIN q \ {n} : r[k] = q[k],
           NEW c, NEW shown, NEW truth, NEW now, ListedTrue(q, c, shown, truth),
           now = truth \/ truth = Absent \/ CalendarChange(q[n], c),
           q[n].op = "calendars" /\ r[n].at = "answered" => r[n].ans[c] \in {Absent, now}
    PROVE  ListedTrue(r, c, shown, now)
<1>1. \A k \in DOMAIN q : r[k].op = q[k].op /\ r[k].arg = q[k].arg
  OBVIOUS
<1>2. CASE \E k \in DOMAIN q : CalendarChange(q[k], c)
  BY <1>1, <1>2 DEF ListedTrue, CalendarChange
<1>3. CASE ~\E k \in DOMAIN q : CalendarChange(q[k], c)
  <2>1. {Absent, truth} \subseteq {Absent, now}
    BY <1>3
  <2>2. \A k \in DOMAIN q : Followed(q, k, "calendars") => Followed(r, k, "calendars")
    BY <1>1 DEF Followed
  <2> QED
    BY <1>1, <1>3, <2>1, <2>2 DEF ListedTrue
<1> QED
  BY <1>2, <1>3

(* A message leaves that is no change; if it is a list, it is shown.           *)
LEMMA ListedSettled ==
    ASSUME Posted(net), NEW n \in DOMAIN net, NEW r, r = Settle(n), NEW c, NEW shown, NEW now, NEW truth,
           ListedTrue(net, c, shown, truth), ~CalendarChange(net[n], c),
           net[n].op # "calendars" => now = shown,
           net[n].op = "calendars" =>
              net[n].at = "answered" /\ now = net[n].ans[c] /\ ~Overtakes(n, {"calendars"})
    PROVE  ListedTrue(r, c, now, truth)
<1>1. CASE \E k \in DOMAIN net : CalendarChange(net[k], c)
  <2>1. PICK k \in DOMAIN net \ {n} : CalendarChange(net[k], c)
    BY <1>1
  <2> QED
    BY <2>1, SettleTells DEF ListedTrue
<1>2. CASE ~\E k \in DOMAIN net : CalendarChange(net[k], c)
  <2>1. ASSUME NEW k \in DOMAIN r, r[k].op = "calendars"
        PROVE  \/ Followed(r, k, "calendars")
               \/ r[k].at = "answered" => r[k].ans[c] \in {Absent, truth}
    <3>1. Was(k, n) \in DOMAIN net /\ r[k] = net[Was(k, n)]
      BY SettleTells
    <3>2. net[n].op = "calendars" => ~(Was(k, n) < n)
      BY <2>1, <3>1, OvertakenIs
    <3> QED
      BY <1>2, <2>1, <3>1, <3>2, StillFollowed DEF ListedTrue
  <2>2. ASSUME \A k \in DOMAIN r : r[k].op # "calendars"
        PROVE  now \in {Absent, truth}
    <3>1. ASSUME NEW m \in DOMAIN net, m # n PROVE net[m].op # "calendars"
      BY <2>2, <3>1, SettleTells
    <3>2. CASE net[n].op = "calendars"
      <4>1. ~Followed(net, n, "calendars")
        <5>1. DOMAIN net \subseteq Nat
          BY PostedDomain
        <5> QED
          BY <3>1, <5>1 DEF Followed
      <4> QED
        BY <1>2, <3>2, <4>1 DEF ListedTrue
    <3>3. CASE net[n].op # "calendars"
      BY <1>2, <3>1, <3>3 DEF ListedTrue
    <3> QED
      BY <3>2, <3>3
  <2> QED
    BY <2>1, <2>2 DEF ListedTrue
<1> QED
  BY <1>1, <1>2

(* Something the page does about a calendar it has just created.              *)
Fills(m, c) == \/ m.op = "create" /\ m.at = "answered" /\ m.ans = c
               \/ m.op = "import" /\ m.arg = c
               \/ m.op = "cleanup" /\ m.at = "sent" /\ m.arg = c

CalendarMessage(m) ==
    /\ m.op = "create" => /\ m.arg.fields \in Titles
                          /\ m.at = "answered" => m.ans \in Dialogs
    /\ m.op = "edit" => m.arg.cal \in Dialogs /\ m.arg.fields \in Titles
    /\ m.op \in {"import", "cleanup"} => m.arg \in Dialogs
    /\ m.op = "calendars" /\ m.at = "answered" => m.ans \in [Dialogs -> Titles \cup {Absent}]

DialogTypes ==
    /\ titled \in [Dialogs -> Titles \cup {Absent}]
    /\ sidebar \in [Dialogs -> Titles \cup {Absent}]
    /\ events \in [Dialogs -> SUBSET {"file", "part", "others"}]
    /\ dialog \in [open : BOOLEAN, cal : Dialogs \cup {New}, fields : Titles \cup {Absent},
                   changed : SUBSET Fields, file : BOOLEAN, early : BOOLEAN]
    /\ dialog.open => dialog.fields \in Titles

(* One thing at a time is done about a new calendar, while it exists; and     *)
(* once its file is in it there is only the answer to the import to come.    *)
FilledOnce ==
    /\ \A c \in Dialogs : \A j, k \in DOMAIN net : Fills(net[j], c) /\ Fills(net[k], c) => j = k
    /\ \A c \in Dialogs : titled[c] = Absent =>
          events[c] = {} /\ \A k \in DOMAIN net : ~Fills(net[k], c)
    /\ \A c \in Dialogs : "file" \in events[c] /\ c \notin tainted =>
          \A k \in DOMAIN net : Fills(net[k], c) => net[k].op = "import" /\ net[k].at = "answered"

(* r, or what it will change, is what the server has. *)
AgreesWith(r, changed, fields) == \A f \in Fields \ changed : r[f] = fields[f]

OneEdit == \A j, k \in DOMAIN net :
              /\ j # k /\ net[j].op = "edit" /\ net[k].op = "edit"
              /\ net[j].arg.cal = net[k].arg.cal
              => net[j].arg.cal \in tainted

EditsAgree ==
    \A k \in DOMAIN net :
       net[k].op = "edit" /\ net[k].at = "sent" /\ ~net[k].arg.early /\ net[k].arg.cal \notin tainted =>
          /\ titled[net[k].arg.cal] # Absent /\ \A j \in DOMAIN net : ~Fills(net[j], net[k].arg.cal)
          /\ AgreesWith(net[k].arg.fields, net[k].arg.changed, titled[net[k].arg.cal])

(* While a dialog is open that was filled with nothing under way, nothing but *)
(* what it has sent itself comes to be under way.                            *)
DialogAgrees ==
    dialog.open /\ ~dialog.early /\ dialog.cal # New =>
       /\ \A k \in DOMAIN net : /\ net[k].op = "edit" /\ net[k].arg.cal = dialog.cal
                                /\ AgreesWith(net[k].arg.fields, dialog.changed, dialog.fields)
       /\ dialog.cal \notin tainted =>
             /\ titled[dialog.cal] # Absent
             /\ AgreesWith(dialog.fields, dialog.changed, titled[dialog.cal])

SidebarTrue ==
    page = "open" /\ ~staleList =>
       \A c \in Dialogs \ tainted : ListedTrue(net, c, sidebar[c], titled[c])

DialogInv == /\ Posted(net) /\ \A k \in DOMAIN net : CalendarMessage(net[k])
             /\ DialogTypes /\ FilledOnce
             /\ OneEdit /\ EditsAgree /\ DialogAgrees /\ SidebarTrue
             /\ page # "open" => DOMAIN net = {}

LEMMA TitlesExist == Absent \notin Titles
<1>1. Absent["name"] = 0 /\ \A t \in Titles : t["name"] \in {1, 2}
  BY DEF Absent, Titles, Fields
<1> QED
  BY <1>1

(* A calendar that is there may get a part of its file. *)
PartAtMost == \/ events' = events
              \/ \E c \in Dialogs : /\ titled[c] # Absent
                                    /\ events' = [events EXCEPT ![c] = events[c] \cup {"part"}]

(* One of net is answered or lost, and at the server nothing changes but that *)
(* a part of a file may be stored; that the answer of an import was lost is   *)
(* noted, and that of a list.                                                *)
LEMMA DialogInPlace ==
    ASSUME DialogInv, NEW n \in DOMAIN net, DOMAIN net' = DOMAIN net, Posted(net'),
           net'[n].op = net[n].op, net'[n].arg = net[n].arg, net'[n].at # "sent",
           \A k \in DOMAIN net \ {n} : net'[k] = net[k],
           net'[n].at = "answered" =>
              net[n].op # "create" /\ (net[n].op = "calendars" => net'[n].ans = titled),
           net[n].op = "import" /\ net[n].at = "answered" => net[n].arg \in tainted',
           tainted \subseteq tainted', staleList => staleList',
           PartAtMost, UNCHANGED <<page, titled, sidebar, dialog>>
    PROVE  DialogInv'
<1>10. /\ events' \in [Dialogs -> SUBSET {"file", "part", "others"}]
       /\ \A d \in Dialogs : /\ "file" \in events'[d] => "file" \in events[d]
                             /\ titled[d] = Absent => events'[d] = events[d]
  BY DEF PartAtMost, DialogInv, DialogTypes
<1>1. \A k \in DOMAIN net : net'[k].op = net[k].op /\ net'[k].arg = net[k].arg
  OBVIOUS
<1>2. \A k \in DOMAIN net : k # n => net'[k] = net[k]
  OBVIOUS
<1>3. \A c \in Dialogs, k \in DOMAIN net : Fills(net'[k], c) => Fills(net[k], c)
  BY <1>1, <1>2 DEF Fills
<1>4. \A k \in DOMAIN net' : CalendarMessage(net'[k])
  <2>1. CalendarMessage(net'[n])
    BY <1>1 DEF DialogInv, CalendarMessage, DialogTypes
  <2> QED
    BY <1>2, <2>1 DEF DialogInv
<1>5. DialogTypes' /\ OneEdit'
  BY <1>1, <1>10 DEF DialogInv, DialogTypes, OneEdit
<1>6. FilledOnce'
  <2>1. FilledOnce
    BY DEF DialogInv
  <2>2. ASSUME NEW c \in Dialogs, "file" \in events'[c], c \notin tainted', NEW k \in DOMAIN net,
               Fills(net'[k], c)
        PROVE  net'[k].op = "import" /\ net'[k].at = "answered"
    <3>1. Fills(net[k], c) /\ net[k].op = "import" /\ net[k].at = "answered"
      BY <1>3, <1>10, <2>1, <2>2 DEF FilledOnce
    <3>2. net[k].arg = c
      BY <3>1 DEF Fills
    <3> QED
      BY <1>2, <2>2, <3>1, <3>2
  <2> QED
    BY <1>3, <1>10, <2>1, <2>2 DEF FilledOnce
<1>7. EditsAgree'
  <2> SUFFICES ASSUME NEW k \in DOMAIN net', net'[k].op = "edit", net'[k].at = "sent",
                      ~net'[k].arg.early, net'[k].arg.cal \notin tainted'
               PROVE  /\ titled[net'[k].arg.cal] # Absent
                      /\ \A j \in DOMAIN net : ~Fills(net'[j], net'[k].arg.cal)
                      /\ AgreesWith(net'[k].arg.fields, net'[k].arg.changed, titled[net'[k].arg.cal])
    BY DEF EditsAgree
  <2>1. k \in DOMAIN net /\ net'[k] = net[k] /\ net[k].arg.cal \in Dialogs
    BY <1>2 DEF DialogInv, CalendarMessage
  <2> QED
    BY <1>3, <2>1 DEF DialogInv, EditsAgree
<1>8. DialogAgrees'
  BY <1>1 DEF DialogInv, DialogAgrees
<1>9. SidebarTrue'
  <2> SUFFICES ASSUME page = "open", ~staleList', NEW c \in Dialogs \ tainted'
               PROVE  ListedTrue(net', c, sidebar[c], titled[c])
    BY DEF SidebarTrue
  <2>1. ListedTrue(net, c, sidebar[c], titled[c])
    BY DEF DialogInv, SidebarTrue
  <2>2. net[n].op = "calendars" /\ net'[n].at = "answered" => net'[n].ans[c] \in {Absent, titled[c]}
    OBVIOUS
  <2> QED
    BY <1>1, <1>2, <2>1, <2>2, ListedInPlace
<1> QED
  BY <1>4, <1>5, <1>6, <1>7, <1>8, <1>9 DEF DialogInv

LEMMA CreatedKeeps ==
    ASSUME DialogInv, NEW n \in DOMAIN net, net[n].op = "create", net[n].at = "sent",
           NEW c \in NewCalendars, titled[c] = Absent, net' = Reply(n, c),
           titled' = [titled EXCEPT ![c] = net[n].arg.fields],
           UNCHANGED <<page, events, sidebar, dialog, tainted, staleList>>
    PROVE  DialogInv'
<1>1. /\ Posted(net') /\ DOMAIN net' = DOMAIN net /\ net'[n].op = net[n].op
      /\ net'[n].arg = net[n].arg /\ net'[n].at = "answered" /\ net'[n].ans = c
      /\ \A k \in DOMAIN net \ {n} : net'[k] = net[k]
  BY ReplyTells DEF DialogInv
<1>2. \A k \in DOMAIN net : net'[k].op = net[k].op /\ net'[k].arg = net[k].arg
  BY <1>1
<1>3. /\ c \in Dialogs /\ net[n].arg.fields \in Titles /\ titled'[c] \in Titles /\ titled'[c] # Absent
      /\ titled' \in [Dialogs -> Titles \cup {Absent}]
      /\ \A d \in Dialogs \ {c} : titled'[d] = titled[d]
  BY TitlesExist DEF Dialogs, DialogInv, DialogTypes, CalendarMessage
<1>4. /\ events[c] = {} /\ \A k \in DOMAIN net : ~Fills(net[k], c)
      /\ \A d \in Dialogs, k \in DOMAIN net : k # n \/ d # c => (Fills(net'[k], d) => Fills(net[k], d))
      /\ \A d \in Dialogs : ~Fills(net[n], d)
  BY <1>1, <1>3 DEF DialogInv, FilledOnce, Fills
<1>5. \A k \in DOMAIN net' : CalendarMessage(net'[k])
  BY <1>1, <1>3 DEF DialogInv, CalendarMessage
<1>6. DialogTypes' /\ OneEdit'
  BY <1>1, <1>2, <1>3 DEF DialogInv, DialogTypes, OneEdit
<1>7. FilledOnce'
  BY <1>1, <1>3, <1>4 DEF DialogInv, FilledOnce
<1>8. EditsAgree'
  <2> SUFFICES ASSUME NEW k \in DOMAIN net', net'[k].op = "edit", net'[k].at = "sent",
                      ~net'[k].arg.early, net'[k].arg.cal \notin tainted
               PROVE  /\ titled'[net'[k].arg.cal] # Absent
                      /\ \A j \in DOMAIN net : ~Fills(net'[j], net'[k].arg.cal)
                      /\ AgreesWith(net'[k].arg.fields, net'[k].arg.changed, titled'[net'[k].arg.cal])
    BY <1>1 DEF EditsAgree
  <2>1. k \in DOMAIN net /\ net'[k] = net[k] /\ net[k].arg.cal \in Dialogs
    BY <1>1 DEF DialogInv, CalendarMessage
  <2>2. /\ titled[net[k].arg.cal] # Absent /\ \A j \in DOMAIN net : ~Fills(net[j], net[k].arg.cal)
        /\ AgreesWith(net[k].arg.fields, net[k].arg.changed, titled[net[k].arg.cal])
    BY <2>1 DEF DialogInv, EditsAgree
  <2>3. net[k].arg.cal # c
    BY <2>2
  <2> QED
    BY <1>3, <1>4, <2>1, <2>2, <2>3
<1>9. DialogAgrees'
  BY <1>2 DEF DialogInv, DialogAgrees
<1>10. SidebarTrue'
  <2> SUFFICES ASSUME page = "open", ~staleList, NEW d \in Dialogs \ tainted
               PROVE  ListedTrue(net', d, sidebar[d], titled'[d])
    BY DEF SidebarTrue
  <2>1. ListedTrue(net, d, sidebar[d], titled[d])
    BY DEF DialogInv, SidebarTrue
  <2>2. titled'[d] = titled[d] \/ titled[d] = Absent
    BY <1>3
  <2> QED
    BY <1>1, <2>1, <2>2, ListedInPlace
<1> QED
  BY <1>1, <1>5, <1>6, <1>7, <1>8, <1>9, <1>10 DEF DialogInv

LEMMA TitledKeeps ==
    ASSUME DialogInv, NEW n \in DOMAIN net, net[n].op = "edit", net[n].at = "sent",
           NEW c, c = net[n].arg.cal, titled[c] # Absent, net' = Reply(n, c),
           titled' = [titled EXCEPT ![c] = net[n].arg.fields],
           UNCHANGED <<page, events, sidebar, dialog, tainted, staleList>>
    PROVE  DialogInv'
<1>1. /\ Posted(net') /\ DOMAIN net' = DOMAIN net /\ net'[n].op = net[n].op
      /\ net'[n].arg = net[n].arg /\ net'[n].at = "answered"
      /\ \A k \in DOMAIN net \ {n} : net'[k] = net[k]
  BY ReplyTells DEF DialogInv
<1>2. \A k \in DOMAIN net : net'[k].op = net[k].op /\ net'[k].arg = net[k].arg
  BY <1>1
<1>3. /\ c \in Dialogs /\ net[n].arg.fields \in Titles /\ titled'[c] = net[n].arg.fields
      /\ titled'[c] # Absent /\ titled' \in [Dialogs -> Titles \cup {Absent}]
      /\ \A d \in Dialogs \ {c} : titled'[d] = titled[d]
  BY TitlesExist DEF DialogInv, DialogTypes, CalendarMessage
<1>4. \A d \in Dialogs, k \in DOMAIN net : Fills(net'[k], d) <=> Fills(net[k], d)
  BY <1>1 DEF Fills
<1>5. \A k \in DOMAIN net' : CalendarMessage(net'[k])
  BY <1>1 DEF DialogInv, CalendarMessage
<1>6. DialogTypes' /\ OneEdit'
  BY <1>1, <1>2, <1>3 DEF DialogInv, DialogTypes, OneEdit
<1>7. FilledOnce'
  <2>1. \A d \in Dialogs : titled'[d] = Absent => titled[d] = Absent
    BY <1>3
  <2>2. \A d \in Dialogs, k \in DOMAIN net : Fills(net'[k], d) =>
           net'[k].op = net[k].op /\ net'[k].at = net[k].at
    BY <1>1 DEF Fills
  <2> QED
    BY <1>1, <1>4, <2>1, <2>2 DEF DialogInv, FilledOnce
<1>8. EditsAgree'
  <2> SUFFICES ASSUME NEW k \in DOMAIN net', net'[k].op = "edit", net'[k].at = "sent",
                      ~net'[k].arg.early, net'[k].arg.cal \notin tainted
               PROVE  /\ titled'[net'[k].arg.cal] # Absent
                      /\ \A j \in DOMAIN net : ~Fills(net'[j], net'[k].arg.cal)
                      /\ AgreesWith(net'[k].arg.fields, net'[k].arg.changed, titled'[net'[k].arg.cal])
    BY <1>1 DEF EditsAgree
  <2>1. k \in DOMAIN net \ {n} /\ net'[k] = net[k] /\ net[k].arg.cal \in Dialogs
    BY <1>1 DEF DialogInv, CalendarMessage
  <2>2. /\ titled[net[k].arg.cal] # Absent /\ \A j \in DOMAIN net : ~Fills(net[j], net[k].arg.cal)
        /\ AgreesWith(net[k].arg.fields, net[k].arg.changed, titled[net[k].arg.cal])
    BY <2>1 DEF DialogInv, EditsAgree
  <2>3. net[k].arg.cal # c
    BY <2>1 DEF DialogInv, OneEdit
  <2> QED
    BY <1>3, <1>4, <2>1, <2>2, <2>3
<1>9. DialogAgrees'
  <2> SUFFICES ASSUME dialog.open, ~dialog.early, dialog.cal # New
               PROVE  /\ \A k \in DOMAIN net' :
                            /\ net'[k].op = "edit" /\ net'[k].arg.cal = dialog.cal
                            /\ AgreesWith(net'[k].arg.fields, dialog.changed, dialog.fields)
                      /\ dialog.cal \notin tainted =>
                            /\ titled'[dialog.cal] # Absent
                            /\ AgreesWith(dialog.fields, dialog.changed, titled'[dialog.cal])
    BY DEF DialogAgrees
  <2>1. /\ \A k \in DOMAIN net : /\ net[k].op = "edit" /\ net[k].arg.cal = dialog.cal
                                 /\ AgreesWith(net[k].arg.fields, dialog.changed, dialog.fields)
    BY DEF DialogInv, DialogAgrees
  <2>2. dialog.cal = c /\ AgreesWith(net[n].arg.fields, dialog.changed, dialog.fields)
    BY <2>1
  <2>3. AgreesWith(dialog.fields, dialog.changed, net[n].arg.fields)
    BY <2>2 DEF AgreesWith
  <2> QED
    BY <1>1, <1>2, <1>3, <2>1, <2>2, <2>3
<1>10. SidebarTrue'
  <2> SUFFICES ASSUME page = "open", ~staleList, NEW d \in Dialogs \ tainted
               PROVE  ListedTrue(net', d, sidebar[d], titled'[d])
    BY DEF SidebarTrue
  <2>1. ListedTrue(net, d, sidebar[d], titled[d])
    BY DEF DialogInv, SidebarTrue
  <2>2. titled'[d] = titled[d] \/ CalendarChange(net[n], d)
    BY <1>3 DEF CalendarChange
  <2> QED
    BY <1>1, <2>1, <2>2, ListedInPlace
<1> QED
  BY <1>1, <1>5, <1>6, <1>7, <1>8, <1>9, <1>10 DEF DialogInv

LEMMA OthersFillKeeps ==
    ASSUME DialogInv, NEW c \in Dialogs, OthersFill(c)
    PROVE  DialogInv'
<1>1. /\ titled[c] # Absent /\ events' = [events EXCEPT ![c] = events[c] \cup {"others"}]
      /\ UNCHANGED <<net, page, titled, sidebar, dialog, tainted, staleList>>
  BY DEF OthersFill, web
<1>2. /\ events' \in [Dialogs -> SUBSET {"file", "part", "others"}] /\ events'[c] = events[c] \cup {"others"}
      /\ \A d \in Dialogs \ {c} : events'[d] = events[d]
  BY <1>1 DEF DialogInv, DialogTypes
<1>3. DialogTypes'
  BY <1>1, <1>2 DEF DialogInv, DialogTypes
<1>4. FilledOnce'
  BY <1>1, <1>2 DEF DialogInv, FilledOnce
<1> QED
  BY <1>1, <1>3, <1>4 DEF DialogInv, OneEdit, EditsAgree, DialogAgrees, SidebarTrue

LEMMA ServeImportKeeps ==
    ASSUME DialogInv, NEW n \in DOMAIN net, ServeImport(n)
    PROVE  DialogInv'
<1> DEFINE c == net[n].arg
<1>1. /\ net[n].op = "import" /\ net[n].at = "sent" /\ c \in Dialogs
      /\ UNCHANGED <<page, titled, sidebar, dialog, tainted, staleList>>
  BY DEF ServeImport, Arrived, DialogInv, CalendarMessage
<1>2. CASE /\ net' = Reject(n)
           /\ \/ events' = events
              \/ titled[c] # Absent /\ events' = [events EXCEPT ![c] = events[c] \cup {"part"}]
  <2>1. PartAtMost
    BY <1>1, <1>2 DEF PartAtMost
  <2>2. /\ Posted(net') /\ DOMAIN net' = DOMAIN net /\ net'[n].op = net[n].op
        /\ net'[n].arg = net[n].arg /\ net'[n].at = "failed"
        /\ \A k \in DOMAIN net \ {n} : net'[k] = net[k]
    BY <1>2, RejectTells DEF DialogInv
  <2> QED
    BY <1>1, <2>1, <2>2, DialogInPlace
<1>3. CASE /\ titled[c] # Absent /\ net' = Reply(n, {})
           /\ events' = [events EXCEPT ![c] = events[c] \cup {"file"}]
  <2>1. /\ Posted(net') /\ DOMAIN net' = DOMAIN net /\ net'[n].op = net[n].op
        /\ net'[n].arg = net[n].arg /\ net'[n].at = "answered"
        /\ \A k \in DOMAIN net \ {n} : net'[k] = net[k]
    BY <1>3, ReplyTells DEF DialogInv
  <2>2. \A k \in DOMAIN net : net'[k].op = net[k].op /\ net'[k].arg = net[k].arg
    BY <2>1
  <2>3. /\ events' \in [Dialogs -> SUBSET {"file", "part", "others"}] /\ events'[c] = events[c] \cup {"file"}
        /\ \A d \in Dialogs \ {c} : events'[d] = events[d]
    BY <1>1, <1>3 DEF DialogInv, DialogTypes
  <2>4. /\ \A d \in Dialogs, k \in DOMAIN net : Fills(net'[k], d) <=> Fills(net[k], d)
        /\ Fills(net[n], c)
    BY <1>1, <2>1 DEF Fills
  <2>5. \A k \in DOMAIN net' : CalendarMessage(net'[k])
    BY <1>1, <2>1 DEF DialogInv, CalendarMessage
  <2>6. DialogTypes' /\ OneEdit'
    BY <1>1, <2>1, <2>2, <2>3 DEF DialogInv, DialogTypes, OneEdit
  <2>7. FilledOnce'
    <3>1. FilledOnce
      BY DEF DialogInv
    <3>2. \A k \in DOMAIN net : Fills(net[k], c) => k = n
      BY <1>1, <2>4, <3>1 DEF FilledOnce
    <3>3. ASSUME NEW d \in Dialogs, "file" \in events'[d], d \notin tainted, NEW k \in DOMAIN net,
                 Fills(net'[k], d)
          PROVE  net'[k].op = "import" /\ net'[k].at = "answered"
      <4>1. CASE d = c
        BY <1>1, <2>1, <2>4, <3>2, <3>3, <4>1
      <4>2. CASE d # c
        <5>1. Fills(net[k], d) /\ net[k].op = "import" /\ net[k].at = "answered"
          BY <2>3, <2>4, <3>1, <3>3, <4>2 DEF FilledOnce
        <5> QED
          BY <1>1, <2>1, <5>1
      <4> QED
        BY <4>1, <4>2
    <3>4. \A d \in Dialogs : titled[d] = Absent =>
             events'[d] = {} /\ \A k \in DOMAIN net : ~Fills(net'[k], d)
      BY <1>3, <2>3, <2>4, <3>1 DEF FilledOnce
    <3> QED
      BY <1>1, <2>1, <2>4, <3>1, <3>3, <3>4 DEF FilledOnce
  <2>8. EditsAgree'
    BY <1>1, <2>1, <2>2, <2>4 DEF DialogInv, EditsAgree, CalendarMessage
  <2>9. DialogAgrees'
    BY <1>1, <2>1, <2>2 DEF DialogInv, DialogAgrees
  <2>10. SidebarTrue'
    BY <1>1, <2>1, ListedInPlace DEF DialogInv, SidebarTrue
  <2> QED
    BY <1>1, <2>1, <2>5, <2>6, <2>7, <2>8, <2>9, <2>10 DEF DialogInv
<1> QED
  BY <1>2, <1>3 DEF ServeImport

LEMMA ServeCleanupKeeps ==
    ASSUME DialogInv, NEW n \in DOMAIN net, ServeCleanup(n)
    PROVE  DialogInv'
<1> DEFINE c == net[n].arg
<1>1. /\ net[n].op = "cleanup" /\ net[n].at = "sent" /\ c \in Dialogs /\ Fills(net[n], c)
      /\ titled' = [titled EXCEPT ![c] = Absent] /\ events' = [events EXCEPT ![c] = {}]
      /\ net' = Reject(n) \/ net' = Reply(n, {})
      /\ UNCHANGED <<page, sidebar, dialog, tainted, staleList>>
  BY DEF ServeCleanup, Arrived, DialogInv, CalendarMessage, Fills
<1>2. /\ Posted(net') /\ DOMAIN net' = DOMAIN net /\ net'[n].op = net[n].op
      /\ net'[n].arg = net[n].arg /\ net'[n].at # "sent"
      /\ \A k \in DOMAIN net \ {n} : net'[k] = net[k]
  BY <1>1, ReplyTells, RejectTells DEF DialogInv
<1>3. \A k \in DOMAIN net : net'[k].op = net[k].op /\ net'[k].arg = net[k].arg
  BY <1>2
<1>4. /\ titled' \in [Dialogs -> Titles \cup {Absent}] /\ titled'[c] = Absent
      /\ \A d \in Dialogs \ {c} : titled'[d] = titled[d]
      /\ events' \in [Dialogs -> SUBSET {"file", "part", "others"}] /\ events'[c] = {}
      /\ \A d \in Dialogs \ {c} : events'[d] = events[d]
  BY <1>1 DEF DialogInv, DialogTypes
<1>5. /\ \A d \in Dialogs, k \in DOMAIN net : Fills(net'[k], d) => Fills(net[k], d) /\ k # n
      /\ \A k \in DOMAIN net : ~Fills(net'[k], c)
  <2>1. ASSUME NEW d \in Dialogs, NEW k \in DOMAIN net, Fills(net'[k], d)
        PROVE  Fills(net[k], d) /\ k # n
    BY <1>1, <1>2, <2>1 DEF Fills
  <2>2. \A k \in DOMAIN net : Fills(net[k], c) => k = n
    BY <1>1 DEF DialogInv, FilledOnce
  <2> QED
    BY <1>1, <2>1, <2>2
<1>6. \A k \in DOMAIN net' : CalendarMessage(net'[k])
  BY <1>1, <1>2 DEF DialogInv, CalendarMessage
<1>7. DialogTypes' /\ OneEdit'
  BY <1>1, <1>2, <1>3, <1>4 DEF DialogInv, DialogTypes, OneEdit
<1>8. FilledOnce'
  <2>1. FilledOnce
    BY DEF DialogInv
  <2>2. \A d \in Dialogs : titled'[d] = Absent =>
           events'[d] = {} /\ \A k \in DOMAIN net : ~Fills(net'[k], d)
    BY <1>4, <1>5, <2>1 DEF FilledOnce
  <2>3. ASSUME NEW d \in Dialogs, "file" \in events'[d], d \notin tainted, NEW k \in DOMAIN net,
               Fills(net'[k], d)
        PROVE  net'[k].op = "import" /\ net'[k].at = "answered"
    BY <1>2, <1>4, <1>5, <2>1, <2>3 DEF FilledOnce
  <2> QED
    BY <1>1, <1>2, <1>5, <2>1, <2>2, <2>3 DEF FilledOnce
<1>9. EditsAgree'
  <2> SUFFICES ASSUME NEW k \in DOMAIN net', net'[k].op = "edit", net'[k].at = "sent",
                      ~net'[k].arg.early, net'[k].arg.cal \notin tainted
               PROVE  /\ titled'[net'[k].arg.cal] # Absent
                      /\ \A j \in DOMAIN net : ~Fills(net'[j], net'[k].arg.cal)
                      /\ AgreesWith(net'[k].arg.fields, net'[k].arg.changed, titled'[net'[k].arg.cal])
    BY <1>1, <1>2 DEF EditsAgree
  <2>1. k \in DOMAIN net \ {n} /\ net'[k] = net[k] /\ net[k].arg.cal \in Dialogs
    BY <1>1, <1>2 DEF DialogInv, CalendarMessage
  <2>2. /\ titled[net[k].arg.cal] # Absent /\ \A j \in DOMAIN net : ~Fills(net[j], net[k].arg.cal)
        /\ AgreesWith(net[k].arg.fields, net[k].arg.changed, titled[net[k].arg.cal])
    BY <2>1 DEF DialogInv, EditsAgree
  <2>3. net[k].arg.cal # c
    BY <1>1, <2>2
  <2> QED
    BY <1>4, <1>5, <2>1, <2>2, <2>3
<1>10. DialogAgrees'
  BY <1>1 DEF DialogInv, DialogAgrees
<1>11. SidebarTrue'
  <2> SUFFICES ASSUME page = "open", ~staleList, NEW d \in Dialogs \ tainted
               PROVE  ListedTrue(net', d, sidebar[d], titled'[d])
    BY <1>1 DEF SidebarTrue
  <2>1. ListedTrue(net, d, sidebar[d], titled[d])
    BY DEF DialogInv, SidebarTrue
  <2>2. titled'[d] = titled[d] \/ CalendarChange(net[n], d)
    BY <1>1, <1>4 DEF CalendarChange
  <2> QED
    BY <1>1, <1>2, <2>1, <2>2, ListedInPlace
<1> QED
  BY <1>1, <1>2, <1>6, <1>7, <1>8, <1>9, <1>10, <1>11 DEF DialogInv

LEMMA OthersEditKeeps ==
    ASSUME DialogInv, NEW c \in Dialogs, OthersEdit(c)
    PROVE  DialogInv'
<1>1. /\ titled[c] # Absent /\ tainted' = tainted \cup {c}
      /\ titled' = [titled EXCEPT ![c]["name"] = 3 - titled[c]["name"]]
      /\ UNCHANGED <<net, page, events, sidebar, dialog, staleList>>
  BY DEF OthersEdit, web
<1>2. /\ titled' \in [Dialogs -> Titles \cup {Absent}] /\ titled'[c] # Absent
      /\ \A d \in Dialogs \ {c} : titled'[d] = titled[d]
  <2>1. titled \in [Dialogs -> Titles \cup {Absent}] /\ titled[c] \in Titles
    BY <1>1 DEF DialogInv, DialogTypes
  <2> DEFINE t == [titled[c] EXCEPT !["name"] = 3 - titled[c]["name"]]
  <2>2. t \in Titles
    BY <2>1 DEF Titles, Fields
  <2>3. titled' = [titled EXCEPT ![c] = t]
    BY <1>1, <2>1
  <2> HIDE DEF t
  <2> QED
    BY <2>1, <2>2, <2>3, TitlesExist
<1>3. DialogTypes' /\ OneEdit'
  BY <1>1, <1>2 DEF DialogInv, DialogTypes, OneEdit
<1>4. FilledOnce'
  BY <1>1, <1>2 DEF DialogInv, FilledOnce
<1>5. EditsAgree'
  BY <1>1, <1>2 DEF DialogInv, EditsAgree, CalendarMessage
<1>6. DialogAgrees'
  <2>1. dialog.cal # New => dialog.cal \in Dialogs
    BY DEF DialogInv, DialogTypes
  <2> QED
    BY <1>1, <1>2, <2>1 DEF DialogInv, DialogAgrees
<1>7. SidebarTrue'
  BY <1>1, <1>2 DEF DialogInv, SidebarTrue
<1> QED
  BY <1>1, <1>3, <1>4, <1>5, <1>6, <1>7 DEF DialogInv

LEMMA ServeDialogKeeps ==
    ASSUME DialogInv, NEW n \in DOMAIN net,
           \/ ServeCreate(n) \/ ServeTitle(n) \/ ServeImport(n) \/ ServeCleanup(n) \/ ServeList(n)
           \/ LoseDialogAnswer(n)
    PROVE  DialogInv'
<1> DEFINE Kept == UNCHANGED <<page, titled, events, sidebar, dialog>>
           Turned == Posted(net') /\ DOMAIN net' = DOMAIN net /\ net'[n].op = net[n].op
                      /\ net'[n].arg = net[n].arg /\ net'[n].at = "failed"
                      /\ \A k \in DOMAIN net \ {n} : net'[k] = net[k]
<1>1. net' = Reject(n) => Turned
  BY RejectTells DEF DialogInv
<1>2. CASE ServeCreate(n)
  <2>1. CASE net' = Reject(n) /\ UNCHANGED titled
    <3>1. Turned /\ Kept /\ UNCHANGED <<tainted, staleList>> /\ net[n].op = "create"
      BY <1>1, <1>2, <2>1 DEF ServeCreate, Arrived
    <3> QED
      BY <3>1, DialogInPlace DEF PartAtMost
  <2>2. CASE ~(net' = Reject(n) /\ UNCHANGED titled)
    BY <1>2, <2>2, CreatedKeeps DEF ServeCreate, Arrived
  <2> QED
    BY <2>1, <2>2
<1>3. CASE ServeTitle(n)
  <2>1. CASE titled[net[n].arg.cal] = Absent
    <3>1. Turned /\ Kept /\ UNCHANGED <<tainted, staleList>> /\ net[n].op = "edit"
      BY <1>1, <1>3, <2>1 DEF ServeTitle, Arrived
    <3> QED
      BY <3>1, DialogInPlace DEF PartAtMost
  <2>2. CASE titled[net[n].arg.cal] # Absent
    BY <1>3, <2>2, TitledKeeps DEF ServeTitle, Arrived
  <2> QED
    BY <2>1, <2>2
<1>4. CASE ServeList(n)
  <2>1. /\ net[n].op = "calendars" /\ net' = Reply(n, titled) /\ Kept
        /\ UNCHANGED <<tainted, staleList>>
    BY <1>4 DEF ServeList, Arrived, dialogState
  <2>2. /\ Posted(net') /\ DOMAIN net' = DOMAIN net /\ net'[n].op = net[n].op
        /\ net'[n].arg = net[n].arg /\ net'[n].at = "answered" /\ net'[n].ans = titled
        /\ \A k \in DOMAIN net \ {n} : net'[k] = net[k]
    BY <2>1, ReplyTells DEF DialogInv
  <2> QED
    BY <2>1, <2>2, DialogInPlace DEF PartAtMost
<1>5. CASE LoseDialogAnswer(n)
  <2>1. /\ net' = Reject(n) /\ Kept /\ tainted \subseteq tainted' /\ (staleList => staleList')
        /\ net[n].op = "import" /\ net[n].at = "answered" => net[n].arg \in tainted'
    BY <1>5 DEF LoseDialogAnswer, Lose
  <2> QED
    BY <1>1, <2>1, DialogInPlace DEF PartAtMost
<1> QED
  BY <1>2, <1>3, <1>4, <1>5, ServeImportKeeps, ServeCleanupKeeps

---------------------------------------------------------------------------
(* The user at the dialog. *)
LEMMA DialogOnlyKeeps ==
    ASSUME DialogInv,
           dialog' \in [open : BOOLEAN, cal : Dialogs \cup {New}, fields : Titles \cup {Absent},
                        changed : SUBSET Fields, file : BOOLEAN, early : BOOLEAN],
           dialog'.open => dialog'.fields \in Titles, DialogAgrees',
           UNCHANGED <<web, titled, events, sidebar, tainted, staleList>>
    PROVE  DialogInv'
<1>1. UNCHANGED <<net, page, titled, events, sidebar, tainted, staleList>>
  BY DEF web
<1>2. DialogTypes'
  BY <1>1 DEF DialogInv, DialogTypes
<1> QED
  BY <1>1, <1>2 DEF DialogInv, FilledOnce, OneEdit, EditsAgree, SidebarTrue

LEMMA ClosedIs == /\ ~ClosedDialog.open
                  /\ ClosedDialog \in [open : BOOLEAN, cal : Dialogs \cup {New},
                                       fields : Titles \cup {Absent}, changed : SUBSET Fields,
                                       file : BOOLEAN, early : BOOLEAN]
<1>1. New \in Dialogs \cup {New} /\ Absent \in Titles \cup {Absent} /\ {} \in SUBSET Fields
      /\ FALSE \in BOOLEAN
  OBVIOUS
<1> QED
  BY <1>1 DEF ClosedDialog

LEMMA OpenDialogKeeps ==
    ASSUME DialogInv, NEW cal \in Dialogs \cup {New}, OpenDialog(cal)
    PROVE  DialogInv'
<1> DEFINE e == (net # <<>> \/ staleList)
           t == IF cal = New THEN [f \in Fields |-> 1] ELSE sidebar[cal]
<1>1. /\ page = "open"
      /\ cal = New \/ (cal \in Dialogs /\ sidebar[cal] # Absent)
      /\ UNCHANGED <<web, titled, events, sidebar, tainted, staleList>>
      /\ dialog' = [ClosedDialog EXCEPT !.open = TRUE, !.cal = cal, !.early = e, !.fields = t]
  BY DEF OpenDialog, UserMayAct, Quiet
<1>2. t \in Titles
  <2>1. CASE cal = New
    BY <2>1 DEF Titles
  <2>2. CASE cal # New
    BY <1>1, <2>2 DEF DialogInv, DialogTypes
  <2> QED
    BY <2>1, <2>2
<1>3. e \in BOOLEAN
  OBVIOUS
<1> HIDE DEF t
<1>4. /\ dialog'.open = TRUE /\ dialog'.cal = cal /\ dialog'.early = e /\ dialog'.fields = t
      /\ dialog'.changed = {}
      /\ dialog' \in [open : BOOLEAN, cal : Dialogs \cup {New}, fields : Titles \cup {Absent},
                      changed : SUBSET Fields, file : BOOLEAN, early : BOOLEAN]
  <2> HIDE DEF e
  <2>1. ClosedDialog \in [open : BOOLEAN, cal : Dialogs \cup {New}, fields : Titles \cup {Absent},
                          changed : SUBSET Fields, file : BOOLEAN, early : BOOLEAN]
        /\ ClosedDialog.changed = {}
    BY ClosedIs DEF ClosedDialog
  <2> QED
    BY <1>1, <1>2, <1>3, <2>1
<1>5. DialogAgrees'
  <2> SUFFICES ASSUME ~e, cal # New
               PROVE  /\ DOMAIN net = {}
                      /\ cal \notin tainted =>
                            titled[cal] # Absent /\ AgreesWith(t, {}, titled[cal])
    BY <1>1, <1>4 DEF DialogAgrees, web
  <2>1. net = <<>> /\ ~staleList /\ DOMAIN net = {} /\ cal \in Dialogs
    BY <1>1, NothingPosted
  <2>2. ASSUME cal \notin tainted PROVE sidebar[cal] = titled[cal] /\ sidebar[cal] # Absent
    <3>1. SidebarTrue
      BY DEF DialogInv
    <3>2. page = "open" /\ cal \in Dialogs \ tainted
      BY <1>1, <2>1, <2>2
    <3>3. ListedTrue(net, cal, sidebar[cal], titled[cal])
      BY <2>1, <3>1, <3>2 DEF SidebarTrue
    <3> QED
      BY <1>1, <2>1, <3>3 DEF ListedTrue
  <2>3. t = sidebar[cal]
    BY DEF t
  <2> QED
    BY <2>1, <2>2, <2>3 DEF AgreesWith
<1> QED
  BY <1>1, <1>2, <1>4, <1>5, DialogOnlyKeeps

LEMMA ChangeFieldKeeps ==
    ASSUME DialogInv, NEW f \in Fields, ChangeField(f)
    PROVE  DialogInv'
<1> DEFINE t == [dialog.fields EXCEPT ![f] = 3 - dialog.fields[f]]
<1>1. /\ dialog.open /\ dialog.changed = {}
      /\ UNCHANGED <<web, titled, events, sidebar, tainted, staleList>>
      /\ dialog \in [open : BOOLEAN, cal : Dialogs \cup {New}, fields : Titles \cup {Absent},
                     changed : SUBSET Fields, file : BOOLEAN, early : BOOLEAN]
      /\ dialog.fields \in Titles
  BY DEF ChangeField, DialogInv, DialogTypes
<1>2. t \in Titles /\ \A g \in Fields \ {f} : t[g] = dialog.fields[g]
  BY <1>1 DEF Titles
<1>3. dialog' = [dialog EXCEPT !.fields = t, !.changed = {f}]
  BY <1>1 DEF ChangeField
<1> HIDE DEF t
<1>4. /\ dialog'.open = dialog.open /\ dialog'.cal = dialog.cal /\ dialog'.early = dialog.early
      /\ dialog'.fields = t /\ dialog'.changed = {f}
      /\ dialog' \in [open : BOOLEAN, cal : Dialogs \cup {New}, fields : Titles \cup {Absent},
                      changed : SUBSET Fields, file : BOOLEAN, early : BOOLEAN]
  BY <1>1, <1>2, <1>3
<1>5. DialogAgrees'
  BY <1>1, <1>2, <1>4 DEF DialogInv, DialogAgrees, AgreesWith, web
<1> QED
  BY <1>1, <1>2, <1>4, <1>5, DialogOnlyKeeps

LEMMA SubmitDialogKeeps == ASSUME DialogInv, SubmitDialog PROVE DialogInv'
<1> DEFINE op == IF dialog.cal = New THEN "create" ELSE "edit"
           a == IF dialog.cal = New THEN [fields |-> dialog.fields, file |-> dialog.file] ELSE dialog
           e == Len(net')
<1>1. /\ page = "open" /\ dialog.open
      /\ tainted' = tainted \cup {c \in {dialog.cal} \ {New} : Waiting({"edit"})}
      /\ UNCHANGED <<page, titled, events, sidebar, dialog, staleList>>
      /\ dialog.cal \in Dialogs \cup {New} /\ dialog.fields \in Titles
  BY DEF SubmitDialog, MaySend, UserMayAct, DialogInv, DialogTypes
<1>2. net' = Append(net, Request(op, a))
  BY DEF SubmitDialog
<1>3. a.fields = dialog.fields /\ (dialog.cal # New => a = dialog)
  OBVIOUS
<1>4. op \in {"create", "edit"} /\ (op = "edit" <=> dialog.cal # New)
  OBVIOUS
<1> HIDE DEF op, a
<1>5. Sends(net, net', op, a)
  BY <1>2, SendTells DEF DialogInv
<1>6. /\ Posted(net') /\ DOMAIN net' = DOMAIN net \cup {e} /\ e \notin DOMAIN net
      /\ \A k \in DOMAIN net : net'[k] = net[k]
      /\ net'[e].op = op /\ net'[e].arg = a /\ net'[e].at = "sent"
  BY <1>5 DEF Sends
<1> HIDE DEF e
<1>7. /\ tainted \subseteq tainted'
      /\ dialog.cal # New /\ dialog.cal \notin tainted' => \A k \in DOMAIN net : net[k].op # "edit"
  BY <1>1 DEF Waiting
<1>8. \A c \in Dialogs : ~Fills(net'[e], c)
  BY <1>4, <1>6 DEF Fills
<1>9. \A k \in DOMAIN net' : CalendarMessage(net'[k])
  <2>1. CalendarMessage(net'[e])
    BY <1>1, <1>3, <1>4, <1>6 DEF CalendarMessage
  <2> QED
    BY <1>6, <2>1 DEF DialogInv
<1>10. DialogTypes'
  BY <1>1 DEF DialogInv, DialogTypes
<1>11. FilledOnce'
  BY <1>1, <1>6, <1>7, <1>8 DEF DialogInv, FilledOnce
<1>12. OneEdit'
  <2> SUFFICES ASSUME NEW j \in DOMAIN net', NEW k \in DOMAIN net', j # k, net'[j].op = "edit",
                      net'[k].op = "edit", net'[j].arg.cal = net'[k].arg.cal
               PROVE  net'[j].arg.cal \in tainted'
    BY DEF OneEdit
  <2>1. CASE j \in DOMAIN net /\ k \in DOMAIN net
    BY <1>6, <1>7, <2>1 DEF DialogInv, OneEdit
  <2>2. CASE j = e \/ k = e
    <3>1. net'[j].arg.cal = dialog.cal /\ dialog.cal # New
      BY <1>3, <1>4, <1>6, <2>2
    <3>2. \E m \in DOMAIN net : net[m].op = "edit"
      BY <1>6, <2>2
    <3> QED
      BY <1>7, <3>1, <3>2
  <2> QED
    BY <1>6, <2>1, <2>2
<1>13. EditsAgree'
  <2> SUFFICES ASSUME NEW k \in DOMAIN net', net'[k].op = "edit", net'[k].at = "sent",
                      ~net'[k].arg.early, net'[k].arg.cal \notin tainted'
               PROVE  /\ titled[net'[k].arg.cal] # Absent
                      /\ \A j \in DOMAIN net' : ~Fills(net'[j], net'[k].arg.cal)
                      /\ AgreesWith(net'[k].arg.fields, net'[k].arg.changed, titled[net'[k].arg.cal])
    BY <1>1 DEF EditsAgree
  <2>1. CASE k \in DOMAIN net
    <3>1. net'[k] = net[k] /\ net[k].arg.cal \in Dialogs
      BY <1>6, <2>1 DEF DialogInv, CalendarMessage
    <3>2. /\ titled[net[k].arg.cal] # Absent /\ \A j \in DOMAIN net : ~Fills(net[j], net[k].arg.cal)
          /\ AgreesWith(net[k].arg.fields, net[k].arg.changed, titled[net[k].arg.cal])
      BY <1>7, <2>1, <3>1 DEF DialogInv, EditsAgree
    <3> QED
      BY <1>6, <1>8, <3>1, <3>2
  <2>2. CASE k = e
    <3>1. dialog.cal # New /\ net'[k].arg = dialog /\ dialog.cal \in Dialogs
      BY <1>1, <1>3, <1>4, <1>6, <2>2
    <3>2. /\ \A j \in DOMAIN net : net[j].op = "edit"
          /\ titled[dialog.cal] # Absent
          /\ AgreesWith(dialog.fields, dialog.changed, titled[dialog.cal])
      BY <1>1, <1>7, <3>1 DEF DialogInv, DialogAgrees
    <3>3. \A j \in DOMAIN net : ~Fills(net[j], dialog.cal)
      BY <3>2 DEF Fills
    <3> QED
      BY <1>6, <1>8, <3>1, <3>2, <3>3
  <2> QED
    BY <1>6, <2>1, <2>2
<1>14. DialogAgrees'
  <2>1. AgreesWith(dialog.fields, dialog.changed, dialog.fields)
    BY DEF AgreesWith
  <2> QED
    BY <1>1, <1>3, <1>4, <1>6, <1>7, <2>1 DEF DialogInv, DialogAgrees
<1>15. SidebarTrue'
  BY <1>1, <1>4, <1>5, <1>7, ListedElse DEF DialogInv, SidebarTrue
<1> QED
  BY <1>1, <1>6, <1>9, <1>10, <1>11, <1>12, <1>13, <1>14, <1>15 DEF DialogInv

---------------------------------------------------------------------------
(* Answers at the page. *)

(* The n-th message is not in r; a request for the list may be, and, unless   *)
(* op is "nothing", one that carries on with a new calendar.                 *)
Continues(m, op, c) == op # "nothing" /\ m.op = op /\ m.arg = c /\ m.at = "sent"
Stays(m, n) == \E i \in DOMAIN net : i # n /\ m = net[i]
BothStay(m, o, n) == \E i, j \in DOMAIN net : i # n /\ j # n /\ i # j /\ m = net[i] /\ o = net[j]
Sequel(r, n, op, c) ==
    /\ Posted(r)
    /\ \A k \in DOMAIN r : \/ r[k].op = "calendars" /\ r[k].at = "sent"
                           \/ Continues(r[k], op, c)
                           \/ Stays(r[k], n)
    /\ \A j, k \in DOMAIN r :
          j # k => \/ r[j].op = "calendars" \/ r[k].op = "calendars"
                   \/ Continues(r[j], op, c) /\ Stays(r[k], n)
                   \/ Continues(r[k], op, c) /\ Stays(r[j], n)
                   \/ BothStay(r[j], r[k], n)

LEMMA SequelIs ==
    ASSUME Posted(net), NEW n \in DOMAIN net, NEW p, NEW r, NEW op, NEW c,
           p = Settle(n) \/ p = Append(Settle(n), CalendarList),
           r = p \/ (op # "nothing" /\ r = Append(p, Request(op, c)))
    PROVE  Sequel(r, n, op, c)
<1>1. Left(net, p, n, "calendars", {})
  BY Leaves DEF CalendarList
<1>2. /\ Posted(p)
      /\ \A k \in DOMAIN p : \/ p[k].op = "calendars" /\ p[k].at = "sent"
                             \/ Stays(p[k], n)
      /\ \A j, k \in DOMAIN p :
            j # k => \/ p[j].op = "calendars" \/ p[k].op = "calendars"
                     \/ BothStay(p[j], p[k], n)
  BY <1>1 DEF Left, Stays, BothStay
<1>3. CASE r = p
  BY <1>2, <1>3 DEF Sequel
<1>4. CASE op # "nothing" /\ r = Append(p, Request(op, c))
  <2>1. Sends(p, r, op, c)
    BY <1>2, <1>4, SendTells
  <2>2. /\ Posted(r) /\ DOMAIN r = DOMAIN p \cup {Len(r)} /\ Len(r) \notin DOMAIN p
        /\ \A k \in DOMAIN p : r[k] = p[k]
        /\ Continues(r[Len(r)], op, c)
    BY <2>1 DEF Sends, Continues
  <2> DEFINE e == Len(r)
  <2>3. DOMAIN r = DOMAIN p \cup {e} /\ Continues(r[e], op, c)
    BY <2>2
  <2> HIDE DEF e
  <2>4. /\ \A k \in DOMAIN p : \/ r[k].op = "calendars" /\ r[k].at = "sent"
                               \/ Stays(r[k], n)
        /\ \A j, k \in DOMAIN p :
              j # k => \/ r[j].op = "calendars" \/ r[k].op = "calendars"
                       \/ BothStay(r[j], r[k], n)
    BY <1>2, <2>2
  <2> QED
    BY <2>2, <2>3, <2>4 DEF Sequel
<1> QED
  BY <1>3, <1>4

LEMMA DialogLeaves ==
    ASSUME DialogInv, page = "open", NEW n \in DOMAIN net, NEW op, NEW c,
           Sequel(net', n, op, c),
           \/ op = "nothing"
           \/ /\ op \in {"import", "cleanup"} /\ c \in Dialogs /\ Fills(net[n], c)
              /\ ~(net[n].op = "import" /\ net[n].at = "answered"),
           sidebar' \in [Dialogs -> Titles \cup {Absent}],
           \/ dialog' = ClosedDialog
           \/ dialog' = dialog /\ (net[n].op = "edit" => net' = Settle(n)),
           UNCHANGED <<page, titled, events, tainted>>, SidebarTrue'
    PROVE  DialogInv'
<1>1. /\ Posted(net')
      /\ \A k \in DOMAIN net' : \/ net'[k].op = "calendars" /\ net'[k].at = "sent"
                                \/ Continues(net'[k], op, c)
                                \/ \E m \in DOMAIN net : m # n /\ net'[k] = net[m]
      /\ \A j, k \in DOMAIN net' :
          j # k => \/ net'[j].op = "calendars" \/ net'[k].op = "calendars"
                   \/ Continues(net'[j], op, c) /\ \E m \in DOMAIN net : m # n /\ net'[k] = net[m]
                   \/ Continues(net'[k], op, c) /\ \E m \in DOMAIN net : m # n /\ net'[j] = net[m]
                   \/ \E i, m \in DOMAIN net : /\ i # n /\ m # n /\ i # m
                                               /\ net'[j] = net[i] /\ net'[k] = net[m]
  BY DEF Sequel, Stays, BothStay
<1>2. ASSUME NEW k \in DOMAIN net', Continues(net'[k], op, c)
      PROVE  /\ op \in {"import", "cleanup"} /\ c \in Dialogs /\ Fills(net[n], c)
             /\ ~(net[n].op = "import" /\ net[n].at = "answered")
             /\ net'[k].op = op /\ net'[k].arg = c /\ net'[k].at = "sent"
  BY <1>2 DEF Continues
<1>3. ASSUME NEW d \in Dialogs, NEW k \in DOMAIN net', Fills(net'[k], d)
      PROVE  /\ net'[k].op # "calendars"
             /\ \/ Continues(net'[k], op, c) /\ d = c
                \/ \E m \in DOMAIN net : m # n /\ net'[k] = net[m] /\ Fills(net[m], d)
  <2>1. net'[k].op # "calendars"
    BY <1>3 DEF Fills
  <2>2. CASE Continues(net'[k], op, c)
    BY <1>2, <1>3, <2>1, <2>2 DEF Fills
  <2> QED
    BY <1>1, <1>3, <2>1, <2>2
<1>4. FilledOnce
  BY DEF DialogInv
<1>5. \A k \in DOMAIN net' : CalendarMessage(net'[k])
  <2> SUFFICES ASSUME NEW k \in DOMAIN net' PROVE CalendarMessage(net'[k])
    OBVIOUS
  <2>1. CASE Continues(net'[k], op, c)
    BY <1>2, <2>1 DEF CalendarMessage
  <2>2. CASE net'[k].op = "calendars" /\ net'[k].at = "sent"
    BY <2>2 DEF CalendarMessage
  <2>3. CASE \E m \in DOMAIN net : m # n /\ net'[k] = net[m]
    BY <2>3 DEF DialogInv
  <2> QED
    BY <1>1, <2>1, <2>2, <2>3
<1>6. DialogTypes'
  BY ClosedIs DEF DialogInv, DialogTypes
<1>7. FilledOnce'
  <2>1. ASSUME NEW d \in Dialogs, NEW j \in DOMAIN net', NEW k \in DOMAIN net', j # k,
               Fills(net'[j], d), Fills(net'[k], d)
        PROVE  FALSE
    <3>1. net'[j].op # "calendars" /\ net'[k].op # "calendars"
      BY <1>3, <2>1
    <3>2. \A i \in {j, k} : Continues(net'[i], op, c) =>
             d = c /\ Fills(net[n], c) /\ ~\E m \in DOMAIN net : m # n /\ Fills(net[m], d)
      <4> SUFFICES ASSUME NEW i \in {j, k}, Continues(net'[i], op, c)
                   PROVE  d = c /\ Fills(net[n], c) /\ ~\E m \in DOMAIN net : m # n /\ Fills(net[m], d)
        OBVIOUS
      <4>1. op # "create" /\ Fills(net[n], c) /\ c \in Dialogs /\ net'[i].op = op /\ net'[i].arg = c
        BY <1>2
      <4>2. d = c
        BY <1>2, <2>1, <4>1 DEF Fills
      <4> QED
        BY <1>4, <4>1, <4>2 DEF FilledOnce
    <3> QED
      BY <1>1, <1>4, <2>1, <3>1, <3>2 DEF FilledOnce
  <2>2. \A d \in Dialogs : titled[d] = Absent =>
           events[d] = {} /\ \A k \in DOMAIN net' : ~Fills(net'[k], d)
    BY <1>2, <1>3, <1>4 DEF FilledOnce
  <2>3. ASSUME NEW d \in Dialogs, "file" \in events[d], d \notin tainted, NEW k \in DOMAIN net',
               Fills(net'[k], d)
        PROVE  net'[k].op = "import" /\ net'[k].at = "answered"
    <3>1. CASE Continues(net'[k], op, c) /\ d = c
      BY <1>2, <1>4, <2>3, <3>1 DEF FilledOnce
    <3> QED
      BY <1>3, <1>4, <2>3, <3>1 DEF FilledOnce
  <2> QED
    BY <2>1, <2>2, <2>3 DEF FilledOnce
<1>8. ASSUME NEW k \in DOMAIN net', net'[k].op = "edit"
      PROVE  ~Continues(net'[k], op, c) /\ \E m \in DOMAIN net : m # n /\ net'[k] = net[m]
  BY <1>1, <1>2, <1>8
<1>9. OneEdit'
  <2> SUFFICES ASSUME NEW j \in DOMAIN net', NEW k \in DOMAIN net', j # k, net'[j].op = "edit",
                      net'[k].op = "edit", net'[j].arg.cal = net'[k].arg.cal
               PROVE  net'[j].arg.cal \in tainted
    BY DEF OneEdit
  <2>1. \E i, m \in DOMAIN net : i # n /\ m # n /\ i # m /\ net'[j] = net[i] /\ net'[k] = net[m]
    BY <1>1, <1>8
  <2> QED
    BY <2>1 DEF DialogInv, OneEdit
<1>10. EditsAgree'
  <2> SUFFICES ASSUME NEW k \in DOMAIN net', net'[k].op = "edit", net'[k].at = "sent",
                      ~net'[k].arg.early, net'[k].arg.cal \notin tainted
               PROVE  /\ titled[net'[k].arg.cal] # Absent
                      /\ \A j \in DOMAIN net' : ~Fills(net'[j], net'[k].arg.cal)
                      /\ AgreesWith(net'[k].arg.fields, net'[k].arg.changed, titled[net'[k].arg.cal])
    BY DEF EditsAgree
  <2>1. PICK m \in DOMAIN net : m # n /\ net'[k] = net[m]
    BY <1>8
  <2>2. /\ titled[net[m].arg.cal] # Absent /\ \A j \in DOMAIN net : ~Fills(net[j], net[m].arg.cal)
        /\ AgreesWith(net[m].arg.fields, net[m].arg.changed, titled[net[m].arg.cal])
        /\ net[m].arg.cal \in Dialogs
    BY <2>1 DEF DialogInv, EditsAgree, CalendarMessage
  <2> QED
    BY <1>2, <1>3, <2>1, <2>2
<1>11. DialogAgrees'
  <2>1. CASE dialog' = ClosedDialog
    BY <2>1, ClosedIs DEF DialogAgrees
  <2>2. CASE dialog' = dialog /\ (net[n].op = "edit" => net' = Settle(n))
    <3>1. net[n].op = "edit" => \A k \in DOMAIN net' : \E m \in DOMAIN net : net'[k] = net[m]
      BY <2>2, SettledWere DEF DialogInv
    <3> QED
      BY <2>2, <3>1 DEF DialogInv, DialogAgrees
  <2> QED
    BY <2>1, <2>2
<1> QED
  BY <1>1, <1>5, <1>6, <1>7, <1>9, <1>10, <1>11 DEF DialogInv

(* A message that is not about calendar d leaves, or the list is asked for:   *)
(* what the sidebar shows of d is as true as it was.                         *)
LEMMA SidebarLeft ==
    ASSUME DialogInv, page = "open", NEW n \in DOMAIN net, NEW r,
           net[n].op \notin {"edit", "cleanup", "calendars"},
           \/ r = Settle(n)
           \/ \E op, arg : op # "calendars" /\ r = Append(Settle(n), Request(op, arg)),
           ~staleList, NEW d \in Dialogs \ tainted
    PROVE  ListedTrue(r, d, sidebar[d], titled[d])
<1> DEFINE q == Settle(n)
<1>1. ListedTrue(net, d, sidebar[d], titled[d])
  BY DEF DialogInv, SidebarTrue
<1>2. ~CalendarChange(net[n], d)
  BY DEF CalendarChange
<1>3. ListedTrue(q, d, sidebar[d], titled[d])
  BY <1>1, <1>2, ListedSettled DEF DialogInv
<1>4. Posted(q)
  BY SettleTells DEF DialogInv
<1> HIDE DEF q
<1>5. ASSUME NEW op, NEW arg, op # "calendars", r = Append(q, Request(op, arg))
      PROVE  ListedTrue(r, d, sidebar[d], titled[d])
  <2>1. Sends(q, r, op, arg)
    BY <1>4, <1>5, SendTells
  <2> QED
    BY <1>3, <1>4, <1>5, <2>1, ListedElse
<1>6. r = q \/ \E op, arg : op # "calendars" /\ r = Append(q, Request(op, arg))
  BY DEF q
<1> QED
  BY <1>3, <1>5, <1>6

LEMMA ListAskedAfter ==
    ASSUME DialogInv, NEW n \in DOMAIN net, NEW c, NEW shown, NEW truth
    PROVE  /\ Posted(Append(Settle(n), CalendarList))
           /\ ListedTrue(Append(Settle(n), CalendarList), c, shown, truth)
<1> DEFINE q == Settle(n)
           r == Append(q, CalendarList)
<1>1. Posted(q)
  BY SettleTells DEF DialogInv
<1> HIDE DEF q
<1>2. Sends(q, r, "calendars", {})
  BY <1>1, SendTells DEF CalendarList
<1> HIDE DEF r
<1>3. ListedTrue(r, c, shown, truth)
  BY <1>1, <1>2, ListAsked
<1> QED
  BY <1>2, <1>3 DEF Sends, q, r

(* What a dialog that was answered sends. *)
LEMMA SubmittedSends ==
    ASSUME DialogInv, NEW n \in DOMAIN net, Submitted(n)
    PROVE  LET p == Append(Settle(n), CalendarList) IN
           \/ net' = p
           \/ net[n].op = "create" /\ net' = Append(p, Request("import", net[n].ans))
<1> DEFINE p == Append(Settle(n), CalendarList)
           c == net[n].ans
<1>3. Posted(p)
  <2>1. Left(net, p, n, "calendars", {})
    BY Leaves DEF CalendarList, DialogInv
  <2> QED
    BY <2>1 DEF Left
<1>4. net[n].op \in {"create", "edit"}
  BY DEF Submitted, Answered
<1>1. CASE net[n].op = "edit"
  BY <1>1 DEF Submitted, Relist
<1>2. CASE net[n].op # "edit"
  <2> DEFINE q == Settle(n)
             S == {q[k] : k \in DOMAIN q} \cup {CalendarList}
  <2>1. Posted(q)
    BY SettleTells DEF DialogInv
  <2>2. q \in Seq(S) /\ CalendarList \in S
    <3>1. q \in Seq({q[k] : k \in DOMAIN q}) /\ {q[k] : k \in DOMAIN q} \subseteq S
      BY <2>1 DEF Posted
    <3> QED
      BY <3>1, SeqDef
  <2>3. p \in Seq(S)
    BY <2>2, AppendProperties
  <2>4. net' = q \o <<CalendarList>>
                 \o IF net[n].arg.file THEN <<Request("import", c)>> ELSE <<>>
    BY <1>2 DEF Submitted
  <2> HIDE DEF q
  <2>5. p = q \o <<CalendarList>>
    BY <2>2, AppendIsConcat DEF q
  <2>6. net' = p \o IF net[n].arg.file THEN <<Request("import", c)>> ELSE <<>>
    BY <2>4, <2>5
  <2> HIDE DEF p
  <2>7. ASSUME net[n].arg.file PROVE net' = Append(p, Request("import", c))
    <3>1. net' = p \o <<Request("import", c)>>
      BY <2>6, <2>7
    <3> DEFINE m == Request("import", c)
               T == {p[k] : k \in DOMAIN p} \cup {m}
    <3>2. p \in Seq({p[k] : k \in DOMAIN p}) /\ {p[k] : k \in DOMAIN p} \subseteq T /\ m \in T
      BY <1>3 DEF Posted
    <3>3. p \in Seq(T)
      BY <3>2, SeqDef
    <3> HIDE DEF m
    <3>4. Append(p, m) = p \o <<m>>
      BY <3>2, <3>3, AppendIsConcat
    <3> QED
      BY <3>1, <3>4 DEF m
  <2>8. ASSUME ~net[n].arg.file PROVE net' = p
    <3>1. net' = p \o <<>>
      BY <2>6, <2>8
    <3> QED
      BY <2>3, <3>1, ConcatEmptySeq
  <2> QED
    BY <1>2, <1>4, <2>7, <2>8 DEF p
<1> QED
  BY <1>1, <1>2

LEMMA SubmittedKeeps ==
    ASSUME DialogInv, NEW n \in DOMAIN net, Submitted(n)
    PROVE  DialogInv'
<1> DEFINE p == Append(Settle(n), CalendarList)
           c == net[n].ans
<1>1. /\ page = "open" /\ dialog' = ClosedDialog
      /\ net[n].op \in {"create", "edit"} /\ net[n].at = "answered"
      /\ UNCHANGED <<page, titled, events, sidebar, tainted, staleList>>
      /\ sidebar \in [Dialogs -> Titles \cup {Absent}]
  BY DEF Submitted, Answered, DialogInv, DialogTypes
<1>2. Posted(p) /\ \A d \in Dialogs : ListedTrue(p, d, sidebar[d], titled[d])
  BY ListAskedAfter
<1>3. net' = p \/ (net[n].op = "create" /\ net' = Append(p, Request("import", c)))
  BY SubmittedSends
<1>4. CASE net' = p
  <2>1. SidebarTrue'
    BY <1>1, <1>2, <1>4 DEF SidebarTrue
  <2>2. Sequel(net', n, "nothing", c)
    BY <1>4, SequelIs DEF DialogInv
  <2> QED
    BY <1>1, <2>1, <2>2, DialogLeaves
<1>5. CASE net[n].op = "create" /\ net' = Append(p, Request("import", c))
  <2>1. c \in Dialogs /\ Fills(net[n], c)
    BY <1>1, <1>5 DEF DialogInv, CalendarMessage, Fills
  <2>2. Sequel(net', n, "import", c)
    BY <1>5, SequelIs DEF DialogInv
  <2> HIDE DEF p
  <2>3. Sends(p, net', "import", c)
    BY <1>2, <1>5, SendTells
  <2>4. \A d \in Dialogs : ListedTrue(net', d, sidebar[d], titled[d])
    BY <1>2, <2>3, ListedElse
  <2>5. SidebarTrue'
    BY <1>1, <2>4 DEF SidebarTrue
  <2> QED
    BY <1>1, <1>5, <2>1, <2>2, <2>5, DialogLeaves
<1> QED
  BY <1>3, <1>4, <1>5

LEMMA DialogAnswersKeep ==
    ASSUME DialogInv, NEW n \in DOMAIN net,
           ImportFailed(n) \/ CalendarsListed(n) \/ Imported(n) \/ CleanedUp(n) \/ DialogFailed(n)
    PROVE  DialogInv'
<1>1. sidebar \in [Dialogs -> Titles \cup {Absent}]
  BY DEF DialogInv, DialogTypes
<1>2. CASE ImportFailed(n)
  <2> DEFINE c == net[n].arg
  <2>1. /\ page = "open" /\ net[n].op = "import" /\ net[n].at = "failed"
        /\ net' = Append(Settle(n), Request("cleanup", c))
        /\ UNCHANGED <<page, titled, events, sidebar, dialog, tainted, staleList>>
    BY <1>2 DEF ImportFailed, AfterImport, Failed, dialogState
  <2>2. c \in Dialogs /\ Fills(net[n], c)
    BY <2>1 DEF DialogInv, CalendarMessage, Fills
  <2>3. Sequel(net', n, "cleanup", c)
    BY <2>1, SequelIs DEF DialogInv
  <2>4. SidebarTrue'
    <3> SUFFICES ASSUME ~staleList, NEW d \in Dialogs \ tainted
                 PROVE  ListedTrue(net', d, sidebar[d], titled[d])
      BY <2>1 DEF SidebarTrue
    <3>1. \E op, arg : op # "calendars" /\ net' = Append(Settle(n), Request(op, arg))
      BY <2>1
    <3> QED
      BY <2>1, <3>1, SidebarLeft
  <2> QED
    BY <1>1, <2>1, <2>2, <2>3, <2>4, DialogLeaves
<1>3. CASE CalendarsListed(n)
  <2>1. /\ page = "open" /\ net[n].op = "calendars" /\ net[n].at = "answered"
        /\ net' = Settle(n) /\ sidebar' = net[n].ans
        /\ staleList' = (staleList \/ Overtakes(n, {"calendars"}))
        /\ UNCHANGED <<page, titled, events, dialog, tainted>>
    BY <1>3 DEF CalendarsListed, Answered
  <2>2. sidebar' \in [Dialogs -> Titles \cup {Absent}]
    BY <2>1 DEF DialogInv, CalendarMessage
  <2>3. Sequel(net', n, "nothing", {})
    BY <2>1, SequelIs DEF DialogInv
  <2>4. SidebarTrue'
    <3> SUFFICES ASSUME ~staleList', NEW d \in Dialogs \ tainted
                 PROVE  ListedTrue(net', d, sidebar'[d], titled[d])
      BY <2>1 DEF SidebarTrue
    <3>1. ListedTrue(net, d, sidebar[d], titled[d]) /\ ~Overtakes(n, {"calendars"})
      BY <2>1 DEF DialogInv, SidebarTrue
    <3>2. ~CalendarChange(net[n], d)
      BY <2>1 DEF CalendarChange
    <3> QED
      BY <2>1, <3>1, <3>2, ListedSettled DEF DialogInv
  <2> QED
    BY <2>1, <2>2, <2>3, <2>4, DialogLeaves
<1>4. CASE Imported(n)
  <2>1. /\ page = "open" /\ net[n].op = "import" /\ net' = Settle(n)
        /\ UNCHANGED <<page, titled, events, sidebar, dialog, tainted, staleList>>
    BY <1>4 DEF Imported, Answered, dialogState
  <2>2. Sequel(net', n, "nothing", {})
    BY <2>1, SequelIs DEF DialogInv
  <2>3. SidebarTrue'
    BY <2>1, SidebarLeft DEF SidebarTrue
  <2> QED
    BY <1>1, <2>1, <2>2, <2>3, DialogLeaves
<1>5. CASE CleanedUp(n)
  <2>1. /\ page = "open" /\ net[n].op = "cleanup" /\ net' = Append(Settle(n), CalendarList)
        /\ UNCHANGED <<page, titled, events, sidebar, dialog, tainted, staleList>>
    BY <1>5 DEF CleanedUp, Relist, Answered, dialogState
  <2>2. Sequel(net', n, "nothing", {})
    BY <2>1, SequelIs DEF DialogInv
  <2>3. \A d \in Dialogs : ListedTrue(net', d, sidebar[d], titled[d])
    BY <2>1, ListAskedAfter
  <2>4. SidebarTrue'
    BY <2>1, <2>3 DEF SidebarTrue
  <2> QED
    BY <1>1, <2>1, <2>2, <2>4, DialogLeaves
<1>6. CASE DialogFailed(n)
  <2>1. /\ page = "open" /\ net[n].op # "import" /\ net' = Settle(n)
        /\ staleList' = (staleList \/ net[n].op # "create")
        /\ UNCHANGED <<page, titled, events, sidebar, dialog, tainted>>
    BY <1>6 DEF DialogFailed, ShowError, Failed
  <2>2. Sequel(net', n, "nothing", {})
    BY <2>1, SequelIs DEF DialogInv
  <2>3. SidebarTrue'
    BY <2>1, SidebarLeft DEF SidebarTrue
  <2> QED
    BY <1>1, <2>1, <2>2, <2>3, DialogLeaves
<1> QED
  BY <1>2, <1>3, <1>4, <1>5, <1>6

LEMMA DialogStep ==
    ASSUME DialogInv, [DialogNext]_dialogVars
    PROVE  DialogInv'
<1>1. OldCalendars \subseteq Dialogs /\ NewCalendars \subseteq Dialogs
  BY DEF Dialogs
<1>2. CASE UNCHANGED dialogVars \/ (Dismiss /\ UNCHANGED dialogState)
  <2>1. UNCHANGED <<net, page, titled, events, sidebar, dialog, tainted, staleList>>
    BY <1>2 DEF dialogVars, web, dialogState, Dismiss
  <2> QED
    BY <2>1 DEF DialogInv, DialogTypes, FilledOnce, OneEdit, EditsAgree, DialogAgrees, SidebarTrue
<1>3. ASSUME NEW cal \in Dialogs \cup {New}, OpenDialog(cal) PROVE DialogInv'
  BY <1>3, OpenDialogKeeps
<1>4. ASSUME NEW f \in Fields, ChangeField(f) PROVE DialogInv'
  BY <1>4, ChangeFieldKeeps
<1>5. ASSUME NEW c \in OldCalendars, OthersEdit(c) PROVE DialogInv'
  BY <1>1, <1>5, OthersEditKeeps
<1>6. ASSUME NEW c \in NewCalendars, OthersFill(c) PROVE DialogInv'
  BY <1>1, <1>6, OthersFillKeeps
<1>7. CASE ChooseFile
  <2>1. /\ dialog.cal = New /\ dialog' = [dialog EXCEPT !.file = TRUE]
        /\ UNCHANGED <<web, titled, events, sidebar, tainted, staleList>>
    BY <1>7 DEF ChooseFile
  <2>2. /\ dialog' \in [open : BOOLEAN, cal : Dialogs \cup {New}, fields : Titles \cup {Absent},
                        changed : SUBSET Fields, file : BOOLEAN, early : BOOLEAN]
        /\ dialog'.cal = New
        /\ dialog'.open => dialog'.fields \in Titles
    BY <2>1 DEF DialogInv, DialogTypes
  <2>3. DialogAgrees'
    BY <2>2 DEF DialogAgrees
  <2> QED
    BY <2>1, <2>2, <2>3, DialogOnlyKeeps
<1>8. CASE CloseDialog
  <2>1. dialog' = ClosedDialog /\ UNCHANGED <<web, titled, events, sidebar, tainted, staleList>>
    BY <1>8 DEF CloseDialog
  <2>2. DialogAgrees'
    BY <2>1, ClosedIs DEF DialogAgrees
  <2> QED
    BY <2>1, <2>2, ClosedIs, DialogOnlyKeeps
<1>9. CASE SubmitDialog
  BY <1>9, SubmitDialogKeeps
<1>10. ASSUME NEW n \in DOMAIN net,
              \/ ServeCreate(n) \/ ServeTitle(n) \/ ServeImport(n) \/ ServeCleanup(n) \/ ServeList(n)
              \/ LoseDialogAnswer(n)
       PROVE  DialogInv'
  BY <1>10, ServeDialogKeeps
<1>11. ASSUME NEW n \in DOMAIN net,
              \/ Submitted(n) \/ ImportFailed(n) \/ CalendarsListed(n) \/ Imported(n) \/ CleanedUp(n)
              \/ DialogFailed(n)
       PROVE  DialogInv'
  BY <1>11, SubmittedKeeps, DialogAnswersKeep
<1>12. ASSUME NEW n \in DOMAIN net, SessionExpired(n), UNCHANGED dialogState PROVE DialogInv'
  <2>1. /\ net' = <<>> /\ page' # "open"
        /\ UNCHANGED <<titled, events, sidebar, dialog, tainted, staleList>>
    BY <1>12 DEF SessionExpired, dialogState
  <2>2. Posted(net') /\ DOMAIN net' = {}
    BY <2>1, NothingPosted
  <2> QED
    BY <2>1, <2>2 DEF DialogInv, DialogTypes, FilledOnce, OneEdit, EditsAgree, DialogAgrees, SidebarTrue
<1> QED
  BY <1>2, <1>3, <1>4, <1>5, <1>6, <1>7, <1>8, <1>9, <1>10, <1>11, <1>12 DEF DialogNext

LEMMA DialogStart == WebInit(<<>>) /\ DialogInit => DialogInv
<1> SUFFICES ASSUME WebInit(<<>>), DialogInit PROVE DialogInv
  OBVIOUS
<1>1. /\ net = <<>> /\ page = "open" /\ sidebar = titled /\ tainted = {} /\ ~staleList
      /\ dialog = ClosedDialog /\ events = [c \in Dialogs |-> {}]
      /\ titled = [c \in Dialogs |-> IF c \in OldCalendars THEN [f \in Fields |-> 1] ELSE Absent]
  BY DEF WebInit, DialogInit
<1>2. Posted(net) /\ DOMAIN net = {}
  BY <1>1, NothingPosted
<1>3. titled \in [Dialogs -> Titles \cup {Absent}]
  <2> DEFINE one == [f \in Fields |-> 1]
  <2>1. one \in Titles
    BY DEF Titles
  <2>2. titled = [c \in Dialogs |-> IF c \in OldCalendars THEN one ELSE Absent]
    BY <1>1
  <2> HIDE DEF one
  <2> QED
    BY <2>1, <2>2
<1>4. DialogTypes
  BY <1>1, <1>3, ClosedIs DEF DialogTypes
<1>5. SidebarTrue
  BY <1>1, <1>2 DEF SidebarTrue, ListedTrue
<1>6. FilledOnce
  BY <1>1, <1>2 DEF FilledOnce
<1> QED
  BY <1>1, <1>2, <1>4, <1>5, <1>6, ClosedIs DEF DialogInv, OneEdit, EditsAgree, DialogAgrees

LEMMA DialogAlways == DialogSpec => []DialogInv
<1>1. DialogInv /\ [DialogNext]_dialogVars => DialogInv'
  BY DialogStep
<1> QED
  BY <1>1, DialogStart, PTL DEF DialogSpec

(* While nothing was lost, a calendar that holds a part of its file is one    *)
(* whose import the page knows to have failed, or will know, or one that it   *)
(* has asked to delete.                                                     *)
Undoes(m, c) == /\ m.arg = c
                /\ \/ m.op = "import" /\ m.at = "failed"
                   \/ m.op = "cleanup" /\ m.at = "sent"
PartUndone ==
    /\ faults \in Nat
    /\ page = "open" /\ faults = 0 =>
          \A c \in Dialogs : "part" \in events[c] => \E k \in DOMAIN net : Undoes(net[k], c)

(* Messages that undo an import stay, and no other part is stored. *)
LEMMA PartStays ==
    ASSUME PartUndone, faults' = faults, page' = page,
           \A c \in Dialogs : "part" \in events'[c] =>
              \/ \E k \in DOMAIN net' : Undoes(net'[k], c)
              \/ /\ "part" \in events[c]
                 /\ \A m \in DOMAIN net : Undoes(net[m], c) =>
                       \E k \in DOMAIN net' : Undoes(net'[k], c)
    PROVE  PartUndone'
  BY DEF PartUndone

(* One message is answered or refused that undoes nothing, or leaves.         *)
LEMMA PartServed ==
    ASSUME DialogInv, PartUndone, NEW n \in DOMAIN net,
           \/ ServeCreate(n) \/ ServeTitle(n) \/ ServeImport(n) \/ ServeCleanup(n) \/ ServeList(n)
    PROVE  PartUndone'
<1>1. /\ UNCHANGED <<faults, page>> /\ net[n].at = "sent"
      /\ net' = Reject(n) \/ \E a : net' = Reply(n, a)
  BY DEF ServeCreate, ServeTitle, ServeImport, ServeCleanup, ServeList, Arrived
<1>2. /\ DOMAIN net' = DOMAIN net /\ \A k \in DOMAIN net \ {n} : net'[k] = net[k]
      /\ net'[n].op = net[n].op /\ net'[n].arg = net[n].arg
      /\ net' = Reject(n) => net'[n].at = "failed"
  BY <1>1, ReplyTells, RejectTells DEF DialogInv
<1>3. events \in [Dialogs -> SUBSET {"file", "part", "others"}]
  BY DEF DialogInv, DialogTypes
<1>4. CASE ServeCleanup(n)
  <2>1. net[n].op = "cleanup" /\ events' = [events EXCEPT ![net[n].arg] = {}]
    BY <1>4 DEF ServeCleanup, Arrived
  <2>2. ASSUME NEW c \in Dialogs, "part" \in events'[c]
        PROVE  c # net[n].arg /\ "part" \in events[c]
    BY <1>3, <2>1, <2>2
  <2>3. \A m \in DOMAIN net, c \in Dialogs :
           c # net[n].arg /\ Undoes(net[m], c) => Undoes(net'[m], c)
    BY <1>2 DEF Undoes
  <2> QED
    BY <1>1, <1>2, <2>2, <2>3, PartStays
<1>5. CASE ServeImport(n)
  <2>1. /\ net[n].op = "import"
        /\ \/ events' = events
           \/ events' = [events EXCEPT ![net[n].arg] = events[net[n].arg] \cup {"file"}]
           \/ /\ net' = Reject(n)
              /\ events' = [events EXCEPT ![net[n].arg] = events[net[n].arg] \cup {"part"}]
    BY <1>5 DEF ServeImport, Arrived
  <2>2. ASSUME NEW c \in Dialogs, "part" \in events'[c]
        PROVE  "part" \in events[c] \/ (c = net[n].arg /\ net' = Reject(n))
    BY <1>3, <2>1, <2>2
  <2>3. \A m \in DOMAIN net, c \in Dialogs : Undoes(net[m], c) => Undoes(net'[m], c)
    BY <1>1, <1>2, <2>1 DEF Undoes
  <2>4. net' = Reject(n) => Undoes(net'[n], net[n].arg)
    BY <1>2, <2>1 DEF Undoes
  <2> QED
    BY <1>1, <1>2, <2>2, <2>3, <2>4, PartStays
<1>6. CASE ServeCreate(n) \/ ServeTitle(n) \/ ServeList(n)
  <2>1. events' = events /\ net[n].op \notin {"import", "cleanup"}
    BY <1>6 DEF ServeCreate, ServeTitle, ServeList, Arrived, dialogState
  <2>2. \A m \in DOMAIN net, c \in Dialogs : Undoes(net[m], c) => Undoes(net'[m], c)
    BY <1>2, <2>1 DEF Undoes
  <2> QED
    BY <1>1, <1>2, <2>1, <2>2, PartStays
<1> QED
  BY <1>4, <1>5, <1>6

LEMMA PartAnswered ==
    ASSUME DialogInv, PartUndone, NEW n \in DOMAIN net,
           \/ Submitted(n) \/ ImportFailed(n) \/ CalendarsListed(n) \/ Imported(n) \/ CleanedUp(n)
           \/ DialogFailed(n)
    PROVE  PartUndone'
<1>1. UNCHANGED <<faults, page, events>> /\ Posted(net)
  BY DEF Submitted, ImportFailed, CalendarsListed, Imported, CleanedUp, DialogFailed, ShowError,
         dialogState, DialogInv
<1> DEFINE Stay == \A m \in DOMAIN net \ {n} : \E k \in DOMAIN net' : net'[k] = net[m]
<1>2. ASSUME NEW op, NEW arg, net' = Settle(n) \/ net' = Append(Settle(n), Request(op, arg))
      PROVE  Stay
  <2>1. Left(net, net', n, op, arg)
    BY <1>1, <1>2, Leaves
  <2> QED
    BY <2>1 DEF Left
<1>3. CASE ImportFailed(n)
  <2>1. /\ net[n].op = "import"
        /\ net' = Append(Settle(n), Request("cleanup", net[n].arg))
    BY <1>3 DEF ImportFailed, AfterImport
  <2>2. Posted(Settle(n))
    BY <1>1, SettledWere
  <2>3. Sends(Settle(n), net', "cleanup", net[n].arg)
    BY <2>1, <2>2, SendTells
  <2>4. Len(net') \in DOMAIN net' /\ Undoes(net'[Len(net')], net[n].arg)
    BY <2>3 DEF Sends, Undoes
  <2>5. Stay
    BY <1>2, <2>1
  <2>6. \A c \in Dialogs, m \in DOMAIN net : Undoes(net[m], c) =>
           \E k \in DOMAIN net' : Undoes(net'[k], c)
    <3> SUFFICES ASSUME NEW c \in Dialogs, NEW m \in DOMAIN net, Undoes(net[m], c)
                 PROVE  \E k \in DOMAIN net' : Undoes(net'[k], c)
      OBVIOUS
    <3>1. CASE m = n
      BY <2>4, <3>1 DEF Undoes
    <3>2. CASE m # n
      BY <2>5, <3>2
    <3> QED
      BY <3>1, <3>2
  <2> QED
    BY <1>1, <2>6, PartStays
<1>4. CASE ~ImportFailed(n)
  <2>1. ~\E c \in Dialogs : Undoes(net[n], c)
    BY <1>4 DEF Submitted, CalendarsListed, Imported, CleanedUp, DialogFailed, ShowError, Answered,
                Failed, Undoes
  <2>2. Stay
    <3>1. CASE Submitted(n)
      <4> DEFINE p == Append(Settle(n), CalendarList)
      <4>1. Left(net, p, n, "calendars", {})
        BY <1>1, Leaves DEF CalendarList
      <4>2. Posted(p) /\ \A m \in DOMAIN net \ {n} : \E k \in DOMAIN p : p[k] = net[m]
        BY <4>1 DEF Left
      <4>3. net' = p \/ \E arg : net' = Append(p, Request("import", arg))
        BY <3>1, SubmittedSends
      <4> HIDE DEF p
      <4>4. ASSUME NEW arg, net' = Append(p, Request("import", arg)) PROVE Stay
        <5>1. Sends(p, net', "import", arg)
          BY <4>2, <4>4, SendTells
        <5>2. \A k \in DOMAIN p : k \in DOMAIN net' /\ net'[k] = p[k]
          BY <5>1 DEF Sends
        <5> QED
          BY <4>2, <5>2
      <4> QED
        BY <4>2, <4>3, <4>4
    <3>2. CASE ~Submitted(n)
      <4>1. net' = Settle(n) \/ net' = Append(Settle(n), Request("calendars", {}))
        BY <1>4, <3>2 DEF CalendarsListed, Imported, CleanedUp, DialogFailed, ShowError, Relist,
                          CalendarList
      <4> QED
        BY <1>2, <4>1
    <3> QED
      BY <3>1, <3>2
  <2>3. \A c \in Dialogs, m \in DOMAIN net : Undoes(net[m], c) =>
           \E k \in DOMAIN net' : Undoes(net'[k], c)
    BY <2>1, <2>2
  <2> QED
    BY <1>1, <2>3, PartStays
<1> QED
  BY <1>3, <1>4

LEMMA PartStep ==
    ASSUME DialogInv, PartUndone, [DialogNext]_dialogVars
    PROVE  PartUndone'
<1>1. ASSUME UNCHANGED <<net, faults, page, events>> PROVE PartUndone'
  BY <1>1 DEF PartUndone
<1>2. CASE UNCHANGED dialogVars \/ (Dismiss /\ UNCHANGED dialogState)
  BY <1>1, <1>2 DEF dialogVars, web, dialogState, Dismiss
<1>3. CASE \/ \E cal \in Dialogs \cup {New} : OpenDialog(cal)
           \/ \E f \in Fields : ChangeField(f)
           \/ \E c \in OldCalendars : OthersEdit(c)
           \/ ChooseFile \/ CloseDialog
  BY <1>1, <1>3 DEF OpenDialog, ChangeField, OthersEdit, ChooseFile, CloseDialog, web
<1>4. CASE SubmitDialog
  <2>1. /\ UNCHANGED <<faults, page, events>>
        /\ \E op, arg : net' = Append(net, Request(op, arg))
    <3>1. CASE dialog.cal = New
      BY <1>4, <3>1 DEF SubmitDialog
    <3>2. CASE dialog.cal # New
      BY <1>4, <3>2 DEF SubmitDialog
    <3> QED
      BY <3>1, <3>2
  <2>2. PICK op, arg : net' = Append(net, Request(op, arg))
    BY <2>1
  <2>3. Sends(net, net', op, arg)
    BY <2>2, SendTells DEF DialogInv
  <2>4. \A m \in DOMAIN net : m \in DOMAIN net' /\ net'[m] = net[m]
    BY <2>3 DEF Sends
  <2> QED
    BY <2>1, <2>4, PartStays
<1>5. ASSUME NEW c \in NewCalendars, OthersFill(c) PROVE PartUndone'
  <2>1. /\ UNCHANGED <<net, faults, page>>
        /\ events' = [events EXCEPT ![c] = events[c] \cup {"others"}]
    BY <1>5 DEF OthersFill, web
  <2>2. \A d \in Dialogs : "part" \in events'[d] => "part" \in events[d]
    BY <2>1 DEF DialogInv, DialogTypes
  <2> QED
    BY <2>1, <2>2, PartStays
<1>6. ASSUME NEW n \in DOMAIN net,
             LoseDialogAnswer(n) \/ (SessionExpired(n) /\ UNCHANGED dialogState)
      PROVE  PartUndone'
  <2>1. faults' = faults + 1 /\ faults \in Nat
    BY <1>6 DEF LoseDialogAnswer, Lose, SessionExpired, PartUndone
  <2>2. faults' \in Nat /\ faults' # 0
    BY <2>1
  <2> QED
    BY <2>2 DEF PartUndone
<1> QED
  BY <1>2, <1>3, <1>4, <1>5, <1>6, PartServed, PartAnswered DEF DialogNext

(* A failed import is undone: the page deletes no calendar that its file is    *)
(* all in, unless the answer of that import was lost, and when all is answered *)
(* and nothing was lost no part of a file is left (app.js: saveCalendar's      *)
(* clean-up, calendars_api.rs: import_ics, which stores series by series).     *)
THEOREM FailedImportsAreUndone == DialogSpec => FailedImportsUndone
<1> DEFINE WholeFilesStay == \A n \in DOMAIN net :
                                Arrived(n, "cleanup") /\ Accepted(n) =>
                                   "file" \notin events[net[n].arg] \/ net[n].arg \in tainted
           NoPartsLeft == page' = "open" /\ net' = <<>> /\ faults' = 0 =>
                             \A c \in Dialogs : "part" \notin events'[c]
<1>1. ASSUME DialogInv PROVE WholeFilesStay
  <2> SUFFICES ASSUME NEW n \in DOMAIN net, Arrived(n, "cleanup"), net[n].arg \notin tainted
               PROVE  "file" \notin events[net[n].arg]
    OBVIOUS
  <2>1. net[n].op = "cleanup" /\ net[n].arg \in Dialogs /\ Fills(net[n], net[n].arg)
    BY <1>1 DEF Arrived, DialogInv, CalendarMessage, Fills
  <2> QED
    BY <1>1, <2>1 DEF DialogInv, FilledOnce
<1>2. ASSUME PartUndone' PROVE NoPartsLeft
  <2>1. net' = <<>> => DOMAIN net' = {}
    BY NothingPosted
  <2> QED
    BY <1>2, <2>1 DEF PartUndone
<1>3. WebInit(<<>>) /\ DialogInit => PartUndone
  BY DEF WebInit, DialogInit, PartUndone
<1>4. DialogInv /\ PartUndone /\ [DialogNext]_dialogVars => PartUndone'
  BY PartStep
<1>5. DialogSpec => []PartUndone
  BY <1>3, <1>4, DialogAlways, PTL DEF DialogSpec
<1>6. DialogInv /\ PartUndone' =>
         [/\ \A n \in DOMAIN net :
               Arrived(n, "cleanup") /\ Accepted(n) =>
                  "file" \notin events[net[n].arg] \/ net[n].arg \in tainted
          /\ page' = "open" /\ net' = <<>> /\ faults' = 0 =>
               \A c \in Dialogs : "part" \notin events'[c]]_dialogVars
  BY <1>1, <1>2
<1> QED
  BY <1>5, <1>6, DialogAlways, PTL DEF FailedImportsUndone

(* An edit that was filled from a sidebar nothing was about to change takes   *)
(* no other field of the calendar back (app.js: openCalendarModal and        *)
(* saveCalendar, which sends every field).                                   *)
THEOREM OtherFieldsStay == DialogSpec => OtherFieldsKept
<1> DEFINE Stay == \A n \in DOMAIN net :
              Arrived(n, "edit") /\ Accepted(n) /\ ~net[n].arg.early
                  /\ net[n].arg.cal \notin tainted =>
                \A f \in Fields \ net[n].arg.changed :
                  titled'[net[n].arg.cal][f] = titled[net[n].arg.cal][f]
<1>1. ASSUME DialogInv, [DialogNext]_dialogVars PROVE Stay
  <2> SUFFICES ASSUME NEW n \in DOMAIN net, Arrived(n, "edit"), Accepted(n), ~net[n].arg.early,
                      net[n].arg.cal \notin tainted, NEW f \in Fields \ net[n].arg.changed
               PROVE  titled'[net[n].arg.cal][f] = titled[net[n].arg.cal][f]
    OBVIOUS
  <2>1. net[n].op = "edit" /\ net[n].at = "sent" /\ net'[n].at = "answered"
    BY DEF Arrived, Accepted
  <2>2. /\ net[n].arg.cal \in Dialogs /\ titled[net[n].arg.cal] # Absent
        /\ net[n].arg.fields[f] = titled[net[n].arg.cal][f]
        /\ titled \in [Dialogs -> Titles \cup {Absent}]
    BY <1>1, <2>1 DEF DialogInv, CalendarMessage, DialogTypes, EditsAgree, AgreesWith
  <2>3. CASE titled' = titled
    BY <2>3
  <2>4. ASSUME NEW c \in OldCalendars, OthersEdit(c) PROVE FALSE
    BY <2>1, <2>4 DEF OthersEdit, web
  <2>5. ASSUME NEW m \in DOMAIN net, ServeCreate(m), titled' # titled
        PROVE  titled'[net[n].arg.cal] = titled[net[n].arg.cal]
    BY <2>2, <2>5 DEF ServeCreate
  <2>6. ASSUME NEW m \in DOMAIN net, NEW answer, net' = Reply(m, answer) \/ net' = Reject(m)
        PROVE  m = n
    BY <1>1, <2>1, <2>6, ReplyTells, RejectTells DEF DialogInv
  <2>7. ASSUME NEW m \in DOMAIN net, ServeTitle(m), titled' # titled
        PROVE  titled'[net[n].arg.cal] = net[n].arg.fields
    <3>1. /\ net' = Reply(m, net[m].arg.cal)
          /\ titled' = [titled EXCEPT ![net[m].arg.cal] = net[m].arg.fields]
      BY <2>7 DEF ServeTitle
    <3> QED
      BY <2>2, <2>6, <3>1
  <2>8. ASSUME NEW m \in DOMAIN net, ServeCleanup(m) PROVE FALSE
    <3>1. net[m].op = "cleanup" /\ (net' = Reply(m, {}) \/ net' = Reject(m))
      BY <2>8 DEF ServeCleanup, Arrived
    <3> QED
      BY <2>1, <2>6, <3>1
  <2>9. \/ titled' = titled
        \/ \E c \in OldCalendars : OthersEdit(c)
        \/ \E m \in DOMAIN net : ServeCreate(m) \/ ServeTitle(m) \/ ServeCleanup(m)
    BY <1>1 DEF DialogNext, dialogVars, dialogState, OpenDialog, ChangeField, ChooseFile, CloseDialog,
                SubmitDialog, OthersFill, ServeImport, ServeList, Submitted, ImportFailed,
                CalendarsListed, Imported, CleanedUp, DialogFailed, LoseDialogAnswer
  <2> QED
    BY <2>2, <2>3, <2>4, <2>5, <2>7, <2>8, <2>9
<1>2. DialogInv /\ [DialogNext]_dialogVars => Stay
  BY <1>1
<1> HIDE DEF Stay
<1>3. DialogSpec => [][Stay]_dialogVars
  BY <1>2, DialogAlways, PTL DEF DialogSpec
<1> QED
  BY <1>3 DEF OtherFieldsKept, Stay
================================================================================
