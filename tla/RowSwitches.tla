------------------------------ MODULE RowSwitches ------------------------------
(***************************************************************************)
(* The tables that are changed row by row: categories and their colours,    *)
(* rules and whether they are enabled, the flags of users, and the ticks of  *)
(* tasks.  The control in a row changes at once, its request follows; the    *)
(* tables differ in what they do with the answer.                           *)
(***************************************************************************)
EXTENDS WebRequests

CONSTANTS Rows, MaxSwitchClicks

ASSUME SwitchAssumption == MaxSwitchClicks \in Nat

VARIABLES table,         \* which of the tables it is
          flags,         \* the server: row -> "on", "off" or "absent"
          switches,      \* the page: what its controls show
          crossed,       \* history: rows changed twice at a time, or while a list was awaited
          unsure,        \* history: rows whose change failed
          switchClicks

switchState == <<table, flags, switches, crossed, unsure, switchClicks>>
switchVars == <<web, switchState>>

Tables == {"categories", "rules", "users", "tasks"}
Flip(v) == IF v = "on" THEN "off" ELSE "on"

SwitchInit == /\ table \in Tables
              /\ flags \in [Rows -> {"on", "absent"}] /\ switches = flags
              /\ crossed = {} /\ unsure = {} /\ switchClicks = 0

---------------------------------------------------------------------------
SwitchClick == switchClicks < MaxSwitchClicks /\ switchClicks' = switchClicks + 1
RowList == Request("list", {})

(* Another change of this row, or a list, is under way: either may win. *)
Crossing(r) == \E n \in DOMAIN net : net[n].op = "list" \/ net[n].arg.row = r

(* $enabled, $admin, $color, $check: the control has changed already, and    *)
(* api() disables buttons only.                                             *)
ClickSwitch(r) ==
    /\ MaySend /\ SwitchClick /\ switches[r] # "absent"
    /\ switches' = [switches EXCEPT ![r] = Flip(@)]
    /\ net' = Append(net, Request("set", [row |-> r, to |-> Flip(switches[r])]))
    /\ crossed' = IF Crossing(r) THEN crossed \cup {r} ELSE crossed
    /\ UNCHANGED <<faults, popup, page, table, flags, unsure>>

(* The forms that add a row; users cannot be deleted, tasks have TasksPane. *)
AddRow(r) == /\ MaySend /\ SwitchClick /\ table # "tasks" /\ flags[r] = "absent"
             /\ net' = Append(net, Request("add", [row |-> r, to |-> "on"]))
             /\ UNCHANGED <<faults, popup, page, table, flags, switches, crossed, unsure>>

DeleteRow(r) == /\ MaySend /\ SwitchClick /\ table \in {"categories", "rules"}
                /\ switches[r] # "absent"
                /\ net' = Append(net, Request("add", [row |-> r, to |-> "absent"]))
                /\ crossed' = IF Crossing(r) THEN crossed \cup {r} ELSE crossed
                /\ UNCHANGED <<faults, popup, page, table, flags, switches, unsure>>

---------------------------------------------------------------------------
(* External: categories_api, rules_api, auth_api and tasks_api. *)
ServeSwitch(n) ==
    /\ net[n].at = "sent"
    /\ \/ net[n].op = "list" /\ net' = Reply(n, flags) /\ UNCHANGED flags
       \/ /\ net[n].op \in {"set", "add"}
          /\ LET r == net[n].arg IN
             \/ net' = Reject(n) /\ UNCHANGED flags
             \/ /\ (net[n].op = "set" \/ r.to = "absent") => flags[r.row] # "absent"
                /\ flags' = [flags EXCEPT ![r.row] = r.to]
                /\ net' = Reply(n, {})
    /\ UNCHANGED <<faults, popup, page, table, switches, crossed, unsure, switchClicks>>

---------------------------------------------------------------------------
(* Rules and users do nothing more when a flag was set; a row added or       *)
(* deleted is listed again everywhere.                                       *)
(* Mistake: rows are listed again only where flags are. *)
ListedLike(op) == table \in {"categories", "tasks"}
ListedAgain(op) == op = "add" \/ table \in {"categories", "tasks"}

SwitchDone(n) ==
    /\ Answered(n, "set") \/ Answered(n, "add")
    /\ net' = IF ListedAgain(net[n].op) THEN Append(Settle(n), RowList) ELSE Settle(n)
    /\ popup' = IF table \in {"rules", "tasks"} /\ net[n].op = "set" THEN popup ELSE NoPopup
    /\ crossed' = crossed \cup {r \in Rows : ListedAgain(net[n].op)
                       /\ \E m \in DOMAIN net \ {n} : net[m].op = "set" /\ net[m].arg.row = r}
    /\ UNCHANGED <<faults, page, table, flags, switches, unsure, switchClicks>>

RowsListed(n) == /\ Answered(n, "list")
                 /\ switches' = net[n].ans
                 /\ crossed' = IF Overtakes(n, {"list"}) THEN Rows ELSE crossed
                 /\ net' = Settle(n)
                 /\ UNCHANGED <<faults, popup, page, table, flags, unsure, switchClicks>>

(* The flags of users are turned back; whether the change was refused or its *)
(* answer lost is not known.                                                 *)
SwitchFailed(n) ==
    /\ ShowError(n)
    /\ LET back == {r \in Rows : net[n].op = "set" /\ net[n].arg.row = r /\ table = "users"} IN
       switches' = [r \in Rows |-> IF r \in back /\ switches[r] # "absent" THEN Flip(switches[r])
                                                                         ELSE switches[r]]
    /\ unsure' = CASE net[n].op = "list" -> Rows
                   [] net[n].op # "list" /\ table = "users" /\ net[n].op = "set" -> unsure
                   [] OTHER -> unsure \cup {net[n].arg.row}
    /\ UNCHANGED <<table, flags, crossed, switchClicks>>

LoseSwitch(n) == /\ Lose(n)
                 /\ unsure' = IF net[n].at = "answered" /\ net[n].op # "list"
                              THEN unsure \cup {net[n].arg.row} ELSE unsure
                 /\ UNCHANGED <<table, flags, switches, crossed, switchClicks>>

SwitchNext ==
    \/ \E r \in Rows : ClickSwitch(r) \/ AddRow(r) \/ DeleteRow(r)
    \/ \E n \in DOMAIN net :
         \/ ServeSwitch(n) \/ SwitchDone(n) \/ RowsListed(n) \/ SwitchFailed(n) \/ LoseSwitch(n)
         \/ SessionExpired(n) /\ UNCHANGED switchState
    \/ Dismiss /\ UNCHANGED switchState

SwitchSpec == WebInit(<<>>) /\ SwitchInit /\ [][SwitchNext]_switchVars

---------------------------------------------------------------------------
(* When everything is answered, a control shows what the server has, unless  *)
(* its row was changed twice at a time or while a list was on its way, or its  *)
(* change failed in a table that does not turn it back (all but that of the    *)
(* users), or the answer was lost.                                            *)
RowsTrue ==
    page = "open" /\ Quiet => \A r \in Rows \ (crossed \cup unsure) : switches[r] = flags[r]
================================================================================
