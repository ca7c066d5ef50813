------------------------------ MODULE AtomicCalendar ------------------------------
(***************************************************************************)
(* What calendar-db promises of the events of a calendar, without          *)
(* transactions, locks or requests: the calendar changes one resource at a *)
(* time, and every change of a resource puts exactly one entry that names  *)
(* it in the change journal and counts once in the ctag.                   *)
(*                                                                         *)
(* CalendarStore implements this specification.                            *)
(***************************************************************************)
EXTENDS Naturals

CONSTANTS Id, NoId, NoHref, Stored, StoredLog

VARIABLES row, log, ctag
vars == <<row, log, ctag>>

Exists(r) == r.state \in {"live", "deleted"}
Live(r) == r.state = "live"
Name(i, r) == IF r.href = NoHref THEN i ELSE r.href

(* How the journal describes the change of a resource from r to s. *)
Transition(r, s) == CASE ~Live(r) /\ Live(s) -> "created"
                      [] Live(r) /\ ~Live(s) -> "deleted"
                      [] Live(r) <=> Live(s) -> "updated"

(* One row per filename, and one master (one override) per UID. *)
Unique(table) ==
    \A i, j \in Id :
        i # j /\ Exists(table[i]) /\ Exists(table[j]) =>
            /\ Name(i, table[i]) # Name(j, table[j])
            /\ (table[i].master = NoId <=> table[j].master = NoId)
                    => table[i].uid # table[j].uid

(* New content of a row that was there before comes with a larger sequence: *)
(* no etag is issued for two contents.                                      *)
NewValidator(r, s) ==
    Exists(r) /\ Live(s) => IF s.author = r.author THEN s.sequence = r.sequence
                            ELSE s.sequence > r.sequence

(* The resource of master i changes: its own row, or an override of it. *)
Change(i) ==
    /\ ctag' = ctag + 1
    /\ \E c \in log' :
        /\ c.id = i /\ c.op = Transition(row[i], row'[i])
        /\ \A d \in log : d.seq # c.seq
        /\ log' = log \cup {c}
    /\ \A j \in Id : row'[j] # row[j] => i \in {j, row[j].master, row'[j].master}
    /\ NewValidator(row[i], row'[i])
    /\ Unique(row')

(* Retention: what is soft-deleted goes for good, then its journal entries. *)
Purge ==
    /\ UNCHANGED <<log, ctag>>
    /\ \A j \in Id : row'[j] # row[j] =>
            /\ ~Exists(row'[j])
            /\ \/ row[j].state = "deleted"
               \/ row[j].master \in Id /\ row[row[j].master].state = "deleted"

Forget == log' \subseteq log /\ UNCHANGED <<row, ctag>>

Init == row = Stored /\ log = StoredLog /\ ctag = 0
Next == (\E i \in Id : Change(i)) \/ Purge \/ Forget
Spec == Init /\ [][Next]_vars

=============================================================================
