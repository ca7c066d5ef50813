------------------------------ MODULE EventEditing ------------------------------
(***************************************************************************)
(* What the event editor promises the other users of a calendar: a save or *)
(* a deletion of an event replaces the version its form was filled from,   *)
(* and no other.  Only the operations on one occurrence of a series, and   *)
(* the other users, write an event without having seen it.                 *)
(*                                                                         *)
(* EventEditor implements this specification.                              *)
(***************************************************************************)
CONSTANTS Event, Version

VARIABLES stored,    \* the version of each event that the server has
          writer,    \* who wrote it: "editor", "series" or "other"
          pending    \* the edits under way: an event and the version edited

vars == <<stored, writer, pending>>

Init == /\ stored \in [Event -> Version]
        /\ writer \in [Event -> {"editor", "series", "other"}]
        /\ pending = {}

(* An edit begins with a version that the event had some time ago. *)
EditStale(e, v) == /\ pending' = pending \cup {<<e, v>>}
                   /\ UNCHANGED <<stored, writer>>

Apply(e, v) == /\ <<e, stored[e]>> \in pending
               /\ stored' = [stored EXCEPT ![e] = v]
               /\ writer' = [writer EXCEPT ![e] = "editor"]
               /\ pending' \in {pending, pending \ {<<e, stored[e]>>}}

GiveUp(edits) == pending' = pending \ edits /\ UNCHANGED <<stored, writer>>

WriteUnseen(e, v) == /\ stored' = [stored EXCEPT ![e] = v]
                     /\ \E w \in {"series", "other"} : writer' = [writer EXCEPT ![e] = w]
                     /\ UNCHANGED pending

Next == \/ \E e \in Event, v \in Version : \/ EditStale(e, v)
                                           \/ Apply(e, v)
                                           \/ WriteUnseen(e, v)
        \/ \E edits \in SUBSET pending : GiveUp(edits)

Spec == Init /\ [][Next]_vars
================================================================================
