------------------------------ MODULE WebRequests ------------------------------
(***************************************************************************)
(* What every page of the web client shares: api() and the requests it has *)
(* sent, the one SweetAlert2 popup, and the redirect to /login.            *)
(*                                                                         *)
(* A request is sent, processed by the server in one step, and answered    *)
(* later: the browser keeps no order between requests or between answers,  *)
(* and none of its handlers asks whether its answer still is wanted.  A    *)
(* request or its answer may be lost, which the browser sees as a failure. *)
(***************************************************************************)
EXTENDS Naturals, Sequences
LOCAL INSTANCE SequencesExt

CONSTANTS MaxRequests,   \* the user starts a request only while fewer are open
          MaxFaults      \* lost requests, lost answers and expired sessions

ASSUME BoundsAssumption == MaxRequests \in Nat /\ MaxFaults \in Nat

VARIABLES net,           \* the requests not yet handled, in the order of sending
          faults,
          popup,         \* what SweetAlert2 asks; toasts and errors only replace it
          page           \* "open", or "login" after a 401

web == <<net, faults, popup, page>>

NoPopup == [kind |-> "none"]
Request(op, arg) == [op |-> op, arg |-> arg, at |-> "sent"]

(* A page opens with the requests of its start-up code. *)
WebInit(requests) == /\ net = requests
                     /\ faults = 0
                     /\ popup = NoPopup
                     /\ page = "open"

(* A popup covers the page: the user can only answer or dismiss it. *)
UserMayAct == page = "open" /\ popup = NoPopup
MaySend == UserMayAct /\ Len(net) < MaxRequests
MayConfirm(kind) == page = "open" /\ popup.kind = kind /\ Len(net) < MaxRequests

Arrived(n, op) == net[n].op = op /\ net[n].at = "sent"
Answered(n, op) == page = "open" /\ net[n].op = op /\ net[n].at = "answered"
Failed(n) == page = "open" /\ net[n].at = "failed"
Waiting(ops) == \E n \in DOMAIN net : net[n].op \in ops
Quiet == net = <<>>

(* The answer to n is handled although an earlier request of its kind has  *)
(* not been: what that one brings will replace what n brought.             *)
Overtakes(n, ops) == \E m \in 1 .. n - 1 : net[m].op \in ops

Reply(n, answer) == [net EXCEPT ![n] = [op |-> net[n].op, arg |-> net[n].arg,
                                        at |-> "answered", ans |-> answer]]
Reject(n) == [net EXCEPT ![n].at = "failed"]
Settle(n) == RemoveAt(net, n)

(* The step in which the server accepts n. *)
Accepted(n) == /\ [m \in DOMAIN net |-> net[m].op] = [m \in DOMAIN net' |-> net'[m].op]
               /\ net[n].at = "sent" /\ net'[n].at = "answered"

(* The request does not reach the server, or its answer not the browser. *)
Lose(n) == /\ faults < MaxFaults
           /\ page = "open"
           /\ net[n].at \in {"sent", "answered"}
           /\ net' = Reject(n)
           /\ faults' = faults + 1
           /\ UNCHANGED <<popup, page>>

(* 401: the server does nothing more for this page, and the browser leaves it. *)
SessionExpired(n) == /\ faults < MaxFaults
                     /\ page = "open"
                     /\ net[n].at = "sent"
                     /\ page' = "login"
                     /\ net' = <<>> /\ popup' = NoPopup
                     /\ faults' = faults + 1

(* errorDialog: it takes the place of whatever popup is open. *)
ShowError(n) == /\ Failed(n)
                /\ net' = Settle(n)
                /\ popup' = NoPopup
                /\ UNCHANGED <<faults, page>>

(* A failure that its caller swallows: $.getJSON, fetch, { silent: true }. *)
Ignore(n) == /\ Failed(n)
             /\ net' = Settle(n)
             /\ UNCHANGED <<faults, popup, page>>

Dismiss == /\ page = "open"
           /\ popup # NoPopup
           /\ popup' = NoPopup
           /\ UNCHANGED <<net, faults, page>>

Network == \E n \in DOMAIN net : Lose(n) \/ SessionExpired(n)
================================================================================
