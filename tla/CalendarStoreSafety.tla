--------------------------- MODULE CalendarStoreSafety ---------------------------
(***************************************************************************)
(* Theorems of CalendarStore about its keys and its journal, for every     *)
(* calendar, every number of requests and every value of the bounds: no    *)
(* two rows share a filename or a UID, a PUT replaces the whole series,    *)
(* and the transactions of the store implement AtomicCalendar.             *)
(*                                                                         *)
(* CalendarStoreProofs has the types and the exclusion of row locks.       *)
(***************************************************************************)
EXTENDS CalendarStoreProofs

Writing == {"written", "replaced", "recorded"}

(* What a PUT has locked and left in its images once it has written the     *)
(* master i: the other row by_uid locked, the overrides it has deleted, and *)
(* the one it has inserted.                                                 *)
PutWork(t, i) ==
    /\ Live(img[t][i]) /\ img[t][i].master = NoId /\ img[t][i].author = t
    /\ Exists(row[i]) => row[i].master = NoId /\ img[t][i].sequence > row[i].sequence
    /\ \A j \in locks[t] \ {i} :
         \/ IsMaster(row[j]) /\ img[t][j] = row[j]
         \/ /\ pc[t] # "written" /\ Exists(row[j]) /\ row[j].master = i
            /\ img[t][j] = [row[j] EXCEPT !.state = "gone"]
         \/ /\ pc[t] # "written" /\ row[j].state = "free" /\ img[t][j].href = NoHref
            /\ Live(img[t][j]) /\ img[t][j].master = i /\ img[t][j].author = t

(* The same for the other writers: the row they edit or insert and, once    *)
(* the change is recorded, its master.                                      *)
EditWork(t, i) ==
    /\ IF req[t].op = "create"
         THEN /\ row[i].state = "free" /\ img[t][i].href = NoHref
              /\ Live(img[t][i]) /\ img[t][i].author = t
         ELSE Live(row[i]) /\ img[t][i] = Edited(t, row[i])
    /\ \A j \in locks[t] \ {i} :
            /\ pc[t] = "recorded" /\ j = img[t][i].master
            /\ Exists(row[j]) /\ img[t][j] = [row[j] EXCEPT !.updated_at = at[t]]

(* What each step of a transaction has locked and written so far.           *)
Work(t) ==
    /\ pc[t] \notin {"found", "decided"} \cup Writing => locks[t] = {}
    /\ pc[t] \in {"found", "decided"} =>
            \A j \in locks[t] : IsMaster(row[j]) /\ img[t][j] = row[j]
    /\ pc[t] \in Writing /\ req[t].op = "put" => PutWork(t, target[t])
    /\ pc[t] \in Writing /\ req[t].op # "put" => EditWork(t, target[t])

(* An override has a master that is there and is nobody's override; filenames *)
(* come from the stored rows and from requests.                             *)
Known == {NoHref} \cup {Stored[j].href : j \in Id} \cup {q.href : q \in Requests}

Table ==
    /\ \A i \in Id : Exists(row[i]) /\ row[i].master \in Id => IsMaster(row[row[i].master])
    /\ \A i \in Id : row[i].href \in Known

(* The same of what a transaction is going to commit, and of the master a   *)
(* request wants to add an override to.                                     *)
Parents(t) ==
    /\ \A i \in locks[t] : Exists(img[t][i]) /\ img[t][i].master \in Id =>
            \/ IsMaster(row[img[t][i].master])
            \/ req[t].op = "put" /\ img[t][i].master = target[t]
    /\ pc[t] \in {"opened", "begun"} /\ req[t].op = "create" /\ target[t] \in Id
            => row[target[t]].master = NoId /\ row[target[t]].state # "free"
    /\ \A i \in locks[t] : img[t][i].href \in Known

(* A PUT that has replaced the overrides holds all there are, and nobody    *)
(* commits an override without holding its master.                          *)
SeriesHeld(t) ==
    /\ pc[t] \in {"replaced", "recorded"} /\ req[t].op = "put" =>
            OverridesOf(target[t]) \subseteq locks[t]
    /\ pc[t] = "recorded" =>
            \A i \in locks[t] : Exists(img[t][i]) /\ img[t][i].master \in Id =>
                img[t][i].master \in locks[t]

(* A transaction has no part in the stored rows before it commits, and then *)
(* in those alone it has written.                                           *)
Authored(t) ==
    /\ pc[t] # "ok" => \A i \in Id : row[i].author # t
    /\ \A i \in locks[t] : img[t][i].author \in {t, row[i].author}

(* The entry a transaction has recorded says what its commit will do. *)
EntryTrue(t) ==
    pc[t] = "recorded" =>
        LET i == target[t]
        IN  IF img[t][i].master \in Id
              THEN entry[t].id = img[t][i].master /\ entry[t].op = "updated"
              ELSE entry[t].id = i /\ entry[t].op = Atomic!Transition(row[i], img[t][i])

Own(t) == Work(t) /\ Parents(t) /\ SeriesHeld(t) /\ Authored(t) /\ EntryTrue(t)

(* Journal numbers are handed out once. *)
SeqsUnique ==
    /\ \A c \in log : c.seq < nextSeq
    /\ \A t \in Txn : pc[t] = "recorded" =>
            /\ entry[t].seq < nextSeq
            /\ \A c \in log : c.seq # entry[t].seq
            /\ \A u \in Txn \ {t} : pc[u] = "recorded" => entry[u].seq # entry[t].seq

(* The rows that may stand at id i once exactly the transactions of S have  *)
(* committed (one row, since locks are exclusive).                          *)
Outcome(S, i) ==
    {img[t][i] : t \in {u \in S : i \in locks[u]}}
        \cup {r \in {row[i]} : \A t \in S : i \notin locks[t]}

Apart(i, r, j, s) == Exists(r) => ~Clash(Name(i, r), r, j, s)

(* Whichever of the running transactions commit, the keys stay unique.      *)
KeysReserved ==
    \A S \in SUBSET Txn : \A i, j \in Id : i # j =>
        \A r \in Outcome(S, i), s \in Outcome(S, j) : Apart(i, r, j, s)

SInv == IInv /\ Table /\ (\A t \in Txn : Own(t)) /\ SeqsUnique /\ KeysReserved

USE DEF Sent, Running, Ended

-----------------------------------------------------------------------------
(* Keys. *)

LEMMA OutcomeCases ==
    ASSUME NEW S \in SUBSET Txn, NEW i \in Id, NEW r
    PROVE  r \in Outcome(S, i) <=>
             \/ \E t \in S : i \in locks[t] /\ r = img[t][i]
             \/ r = row[i] /\ \A t \in S : i \notin locks[t]
BY DEF Outcome

LEMMA ApartSymmetric ==
    ASSUME NEW i \in Id, NEW j \in Id, NEW r \in Row, NEW s \in Row, Apart(i, r, j, s)
    PROVE  Apart(j, s, i, r)
<1>1. ASSUME Exists(s), Exists(r), NEW h, NEW k, h = Name(i, r), k = Name(j, s),
             Clash(k, s, i, r)
      PROVE  Clash(h, r, j, s)
  <2>1. k = h \/ ((s.master = NoId <=> r.master = NoId) /\ s.uid = r.uid)
    BY <1>1 DEF Clash
  <2>2. QED
    BY <1>1, <2>1 DEF Clash
<1>2. QED
  BY <1>1 DEF Apart, Clash

(* A row that keeps its filename, its UID and its kind clashes with nothing *)
(* its former self did not clash with.                                      *)
LEMMA SameKeysApart ==
    ASSUME NEW i \in Id, NEW j \in Id, NEW r \in Row, NEW r2 \in Row, NEW s \in Row,
           Exists(r2) => Exists(r), r2.href = r.href, r2.uid = r.uid, r2.master = r.master,
           Apart(i, r, j, s)
    PROVE  Apart(i, r2, j, s)
BY DEF Apart, Clash, Name

LEMMA OutcomeTyped ==
    ASSUME TypeOK, NEW S \in SUBSET Txn, NEW i \in Id, NEW r \in Outcome(S, i)
    PROVE  r \in Row
BY DEF TypeOK, Outcome

(* A statement that leaves image r of row i, when r is apart from whatever   *)
(* the other rows may become.                                               *)
LEMMA WriteKeepsKeys ==
    ASSUME TypeOK, KeysReserved, NEW t \in Txn, NEW i \in Id, NEW r \in Row,
           Write(t, i, r), Unlocked(i, t), UNCHANGED row,
           \A S \in SUBSET Txn : \A j \in Id \ {i} : \A s \in Outcome(S, j) : Apart(i, r, j, s)
    PROVE  KeysReserved'
<1>1. /\ locks'[t] = locks[t] \cup {i} /\ img'[t] = [img[t] EXCEPT ![i] = r]
      /\ \A u \in Txn \ {t} : locks'[u] = locks[u] /\ img'[u] = img[u] /\ i \notin locks[u]
      /\ img[t] \in [Id -> Row]
  BY WriteKeepsTypes DEF Unlocked, TypeOK
<1>2. ASSUME NEW S \in SUBSET Txn, NEW j \in Id, NEW s, s \in Outcome(S, j)'
      PROVE  (j = i /\ s = r) \/ s \in Outcome(S, j)
  BY <1>1, <1>2 DEF Outcome
<1>3. SUFFICES ASSUME NEW S \in SUBSET Txn, NEW j \in Id, NEW k \in Id, j # k,
                      NEW s \in Outcome(S, j)', NEW x \in Outcome(S, k)'
               PROVE  Apart(j, s, k, x)
  BY DEF KeysReserved
<1>4. CASE j = i /\ s = r /\ x \in Outcome(S, k)
  BY <1>3, <1>4
<1>5. CASE k = i /\ x = r /\ s \in Outcome(S, j)
  <2>1. Apart(i, r, j, s) /\ s \in Row
    BY <1>3, <1>5, OutcomeTyped
  <2>2. QED
    BY <1>5, <2>1, ApartSymmetric
<1>6. CASE s \in Outcome(S, j) /\ x \in Outcome(S, k)
  BY <1>3, <1>6 DEF KeysReserved
<1>7. QED
  BY <1>2, <1>3, <1>4, <1>5, <1>6

(* ... because r keeps the keys of the committed row. *)
LEMMA SameKeysAreFree ==
    ASSUME TypeOK, KeysReserved, NEW t \in Txn, NEW i \in Id, NEW r \in Row,
           Unlocked(i, t), i \in locks[t] => img[t][i] = row[i],
           Exists(r) => Exists(row[i]), r.href = row[i].href, r.uid = row[i].uid,
           r.master = row[i].master
    PROVE  \A S \in SUBSET Txn : \A j \in Id \ {i} : \A s \in Outcome(S, j) : Apart(i, r, j, s)
<1>1. SUFFICES ASSUME NEW S \in SUBSET Txn, NEW j \in Id \ {i}, NEW s \in Outcome(S, j)
               PROVE  Apart(i, r, j, s)
  OBVIOUS
<1>2. row[i] \in Outcome(S, i)
  BY OutcomeCases DEF Unlocked
<1>3. Apart(i, row[i], j, s) /\ row[i] \in Row /\ s \in Row
  BY <1>2, OutcomeTyped DEF KeysReserved, TypeOK
<1>4. QED
  BY <1>3, SameKeysApart

(* ... because both indexes have been asked, and no other transaction is    *)
(* about to write a row that clashes.                                       *)
LEMMA CheckedKeysAreFree ==
    ASSUME NEW t \in Txn, NEW i \in Id, NEW r \in Row, NEW others,
           \A j \in locks[t] \ {i} : img[t][j] = row[j],
           Id \ {i} \subseteq others,
           Pending(t, Name(i, r), r) = {}, ~Clashes(Name(i, r), r, others)
    PROVE  \A S \in SUBSET Txn : \A j \in Id \ {i} : \A s \in Outcome(S, j) : Apart(i, r, j, s)
<1>1. SUFFICES ASSUME NEW S \in SUBSET Txn, NEW j \in Id \ {i}, NEW s \in Outcome(S, j)
               PROVE  ~Clash(Name(i, r), r, j, s)
  BY DEF Apart
<1>2. ~Clash(Name(i, r), r, j, row[j])
  BY DEF Clashes
<1>3. CASE s # row[j]
  <2>1. PICK u \in S : j \in locks[u] /\ s = img[u][j]
    BY <1>3, OutcomeCases
  <2>2. u \in Txn \ {t}
    BY <1>3, <2>1
  <2>3. u \notin Pending(t, Name(i, r), r)
    OBVIOUS
  <2>4. QED
    BY <1>3, <2>1, <2>2, <2>3 DEF Pending
<1>4. QED
  BY <1>2, <1>3

-----------------------------------------------------------------------------
(* Steps of one transaction that leave the committed table alone. *)

Unmoved(u) == /\ pc'[u] = pc[u] /\ req'[u] = req[u] /\ at'[u] = at[u] /\ target'[u] = target[u]
              /\ locks'[u] = locks[u] /\ img'[u] = img[u] /\ entry'[u] = entry[u]

LEMMA BystanderOwn ==
    ASSUME UNCHANGED row, NEW u \in Txn, Own(u), Unmoved(u)
    PROVE  Own(u)'
<1>1. Work(u)'
  BY DEF Own, Work, PutWork, EditWork, Unmoved, Edited
<1>2. Parents(u)' /\ SeriesHeld(u)' /\ Authored(u)' /\ EntryTrue(u)'
  BY DEF Own, Parents, SeriesHeld, Authored, EntryTrue, Unmoved, OverridesOf
<1>3. QED
  BY <1>1, <1>2 DEF Own

LEMMA LocalStep ==
    ASSUME SInv, IInv', UNCHANGED row, NEW t \in Txn, \A u \in Txn \ {t} : Unmoved(u),
           Own(t)', SeqsUnique', KeysReserved'
    PROVE  SInv'
<1>1. \A u \in Txn \ {t} : Own(u)'
  BY BystanderOwn DEF SInv
<1>2. Table'
  BY DEF SInv, Table
<1>3. QED
  BY <1>1, <1>2 DEF SInv

LEMMA SeqsKept ==
    ASSUME SInv, log' \subseteq log, nextSeq' = nextSeq,
           \A u \in Txn : pc'[u] = "recorded" => pc[u] = "recorded" /\ entry'[u] = entry[u]
    PROVE  SeqsUnique'
BY DEF SInv, SeqsUnique

(* A transaction that has locked nothing keeps the keys as they are. *)
LEMMA UnlockedKeepsKeys ==
    ASSUME KeysReserved, UNCHANGED row, NEW t \in Txn, locks'[t] = {},
           \A u \in Txn \ {t} : locks'[u] = locks[u] /\ img'[u] = img[u]
    PROVE  KeysReserved'
<1>1. ASSUME NEW S \in SUBSET Txn, NEW i \in Id PROVE Outcome(S, i)' \subseteq Outcome(S \ {t}, i)
  BY DEF Outcome
<1>2. SUFFICES ASSUME NEW S \in SUBSET Txn, NEW i \in Id, NEW j \in Id, i # j,
                      NEW r \in Outcome(S, i)', NEW s \in Outcome(S, j)'
               PROVE  Apart(i, r, j, s)
  BY DEF KeysReserved
<1>3. r \in Outcome(S \ {t}, i) /\ s \in Outcome(S \ {t}, j) /\ S \ {t} \in SUBSET Txn
  BY <1>1
<1>4. QED
  BY <1>2, <1>3 DEF KeysReserved

LEMMA AbortSafe ==
    ASSUME SInv, NEW t \in Txn, NEW outcome \in {"conflict", "not_found", "failed"},
           Abort(t, outcome), pc[t] # "ok"
    PROVE  SInv'
<1>1. /\ pc'[t] = outcome /\ locks'[t] = {} /\ \A u \in Txn \ {t} : Unmoved(u)
      /\ UNCHANGED <<row, log, nextSeq>> /\ pc' \in [Txn -> {"idle"} \cup Sent \cup Running \cup Ended]
  BY DEF Abort, End, Unmoved, stored, SInv, IInv, TypeOK
<1>2. IInv'
  BY AbortStep DEF SInv
<1>3. Own(t)'
  <2>1. Work(t)'
    BY <1>1 DEF Work, Writing
  <2>2. Parents(t)' /\ SeriesHeld(t)' /\ EntryTrue(t)'
    BY <1>1 DEF Parents, SeriesHeld, EntryTrue
  <2>3. Authored(t)'
    BY <1>1 DEF Authored, SInv, Own
  <2>4. QED
    BY <2>1, <2>2, <2>3 DEF Own
<1>4. SeqsUnique'
  BY <1>1, SeqsKept DEF Unmoved
<1>5. KeysReserved'
  BY <1>1, UnlockedKeepsKeys DEF Unmoved, SInv
<1>6. QED
  BY <1>1, <1>2, <1>3, <1>4, <1>5, LocalStep

(* Before its first statement a transaction has only moved on. *)
LEMMA WaitingStep ==
    ASSUME SInv, IInv', NEW t \in Txn, NEW next \in Sent \cup {"begun"},
           pc[t] \in {"idle"} \cup Sent, Goto(t, next),
           UNCHANGED <<stored, nextSeq, locks, img, entry>>,
           \A u \in Txn \ {t} : req'[u] = req[u] /\ at'[u] = at[u] /\ target'[u] = target[u],
           next \in {"opened", "begun"} /\ req'[t].op = "create" /\ target'[t] \in Id =>
                row[target'[t]].master = NoId /\ row[target'[t]].state # "free"
    PROVE  SInv'
<1>1. /\ pc'[t] = next /\ locks'[t] = {} /\ \A u \in Txn \ {t} : Unmoved(u)
      /\ UNCHANGED <<row, log, nextSeq>>
  BY DEF Goto, Unmoved, stored, SInv, IInv, TypeOK, Own, Work, Writing
<1>2. Own(t)'
  <2>1. Work(t)'
    BY <1>1 DEF Work, Writing
  <2>2. Parents(t)' /\ SeriesHeld(t)' /\ EntryTrue(t)'
    BY <1>1 DEF Parents, SeriesHeld, EntryTrue
  <2>3. Authored(t)'
    BY <1>1 DEF Authored, SInv, Own
  <2>4. QED
    BY <2>1, <2>2, <2>3 DEF Own
<1>3. SeqsUnique'
  BY <1>1, SeqsKept DEF Unmoved
<1>4. KeysReserved'
  BY <1>1, UnlockedKeepsKeys DEF Unmoved, SInv
<1>5. QED
  BY <1>1, <1>2, <1>3, <1>4, LocalStep

LEMMA SendSafe == ASSUME SInv, NEW t \in Txn, Send(t) PROVE SInv'
<1>1. IInv'
  BY SendStep DEF SInv
<1>2. \A u \in Txn \ {t} : req'[u] = req[u]
  BY DEF Send, SInv, IInv, TypeOK
<1>3. QED
  BY <1>1, <1>2, WaitingStep DEF Send

LEMMA PrecheckSafe == ASSUME SInv, NEW t \in Txn, Precheck(t) PROVE SInv'
<1>1. CASE Abort(t, "conflict")
  BY <1>1, AbortSafe DEF Precheck
<1>2. CASE ~Abort(t, "conflict")
  <2>1. IInv'
    BY PrecheckStep DEF SInv
  <2>2. QED
    BY <1>2, <2>1, WaitingStep DEF Precheck, context
<1>3. QED
  BY <1>1, <1>2

LEMMA OpenSafe == ASSUME SInv, NEW t \in Txn, Open(t) PROVE SInv'
<1>1. CASE Abort(t, "conflict") \/ Abort(t, "not_found")
  BY <1>1, AbortSafe DEF Open
<1>2. CASE ~(Abort(t, "conflict") \/ Abort(t, "not_found"))
  <2>1. IInv'
    BY OpenStep DEF SInv
  <2>2. /\ pc[t] = "checked" /\ req[t].op = "put" /\ Goto(t, "opened")
        /\ UNCHANGED <<stored, nextSeq, clock, purged, req, seen, at, target, locks, img, entry>>
    BY <1>2 DEF Open
  <2>3. QED
    BY <2>1, <2>2, WaitingStep
<1>3. QED
  BY <1>1, <1>2

LEMMA RemoveFileSafe == ASSUME SInv, NEW t \in Txn, RemoveFile(t) PROVE SInv'
<1>1. CASE Abort(t, "not_found")
  BY <1>1, AbortSafe DEF RemoveFile
<1>2. CASE ~Abort(t, "not_found")
  <2>1. IInv'
    BY RemoveFileStep DEF SInv
  <2>2. PICK i \in ObjectAt(req[t].href) :
          /\ pc[t] = "checked" /\ req[t].op = "dav_delete"
          /\ target' = [target EXCEPT ![t] = i] /\ Goto(t, "opened")
          /\ UNCHANGED <<stored, nextSeq, clock, purged, context, at, locks, img, entry>>
    BY <1>2 DEF RemoveFile
  <2>3. QED
    BY <2>1, <2>2, WaitingStep DEF context, SInv, IInv, TypeOK
<1>3. QED
  BY <1>1, <1>2

(* get_event has found the master of the override to be.                    *)
LEMMA HandleSafe == ASSUME SInv, NEW t \in Txn, Handle(t) PROVE SInv'
<1>1. CASE Abort(t, "not_found")
  BY <1>1, AbortSafe DEF Handle
<1>2. CASE ~Abort(t, "not_found")
  <2>1. IInv'
    BY HandleStep DEF SInv
  <2>2. /\ pc[t] = "sent"
        /\ \/ req[t].id = NoId
           \/ Live(row[req[t].id]) /\ (req[t].op = "create" => row[req[t].id].master = NoId)
        /\ target' = [target EXCEPT ![t] = req[t].id] /\ Goto(t, "opened")
        /\ UNCHANGED <<stored, nextSeq, clock, purged, req, seen, at, locks, img, entry>>
    BY <1>2 DEF Handle
  <2>3. target'[t] = req[t].id /\ \A u \in Txn \ {t} : target'[u] = target[u]
    BY <2>2 DEF SInv, IInv, TypeOK
  <2>4. QED
    BY <2>1, <2>2, <2>3, SentinelAssumption, WaitingStep DEF Live
<1>3. QED
  BY <1>1, <1>2

LEMMA BeginSafe == ASSUME SInv, NEW t \in Txn, Begin(t) PROVE SInv'
<1>1. IInv'
  BY BeginStep DEF SInv
<1>2. \A u \in Txn \ {t} : at'[u] = at[u]
  BY DEF Begin, SInv, IInv, TypeOK
<1>3. req'[t].op = "create" /\ target'[t] \in Id =>
        row[target'[t]].master = NoId /\ row[target'[t]].state # "free"
  BY DEF Begin, context, SInv, Own, Parents
<1>4. QED
  BY <1>1, <1>2, <1>3, WaitingStep DEF Begin, context

-----------------------------------------------------------------------------
(* Statements.  Once the first row is written its keys are reserved.         *)

(* The facts a statement of t that leaves image r of row i has to establish. *)
LEMMA StatementStep ==
    ASSUME SInv, IInv', NEW t \in Txn, NEW i \in Id, NEW r \in Row, NEW i2 \in Id, NEW next,
           Write(t, i, r), Goto(t, next), target' = [target EXCEPT ![t] = i2],
           UNCHANGED <<stored, nextSeq, clock, purged, context, at, entry>>,
           next \in {"found", "decided", "written"}, pc[t] # "ok",
           Work(t)',
           Exists(r) /\ r.master \in Id => IsMaster(row[r.master]),
           \A j \in locks[t] : img[t][j] = row[j] /\ IsMaster(row[j]),
           r.href \in Known, r.author \in {t, row[i].author},
           Unlocked(i, t),
           \A S \in SUBSET Txn : \A j \in Id \ {i} : \A s \in Outcome(S, j) : Apart(i, r, j, s)
    PROVE  SInv'
<1>1. /\ pc'[t] = next /\ locks'[t] = locks[t] \cup {i} /\ img'[t] = [img[t] EXCEPT ![i] = r]
      /\ \A u \in Txn \ {t} : Unmoved(u)
      /\ UNCHANGED <<row, log, nextSeq>> /\ locks[t] \subseteq Id /\ img[t] \in [Id -> Row]
      /\ target'[t] = i2 /\ req' = req /\ entry' = entry
  BY WriteKeepsTypes DEF Goto, Unmoved, stored, context, SInv, IInv, TypeOK
<1>2. \A j \in locks'[t] : j # i => j \in locks[t] /\ img'[t][j] = row[j] /\ IsMaster(row[j])
  BY <1>1
<1>3. img'[t][i] = r
  BY <1>1
<1>4. Own(t)'
  <2>1. Parents(t)'
    <3>1. \A j \in locks'[t] : Exists(img'[t][j]) /\ img'[t][j].master \in Id =>
                IsMaster(row[img'[t][j].master])
      BY <1>2, <1>3, SentinelAssumption DEF IsMaster
    <3>2. \A j \in locks'[t] : img'[t][j].href \in Known
      BY <1>1, <1>2, <1>3 DEF SInv, Table
    <3>3. QED
      BY <1>1, <3>1, <3>2 DEF Parents, Known
  <2>2. SeriesHeld(t)' /\ EntryTrue(t)'
    BY <1>1 DEF SeriesHeld, EntryTrue
  <2>3. Authored(t)'
    <3>1. \A j \in locks'[t] : img'[t][j].author \in {t, row[j].author}
      BY <1>2, <1>3
    <3>2. \A j \in Id : row[j].author # t
      BY DEF SInv, Own, Authored
    <3>3. QED
      BY <1>1, <3>1, <3>2 DEF Authored
  <2>4. QED
    BY <2>1, <2>2, <2>3 DEF Own
<1>5. SeqsUnique'
  BY <1>1, SeqsKept DEF Unmoved
<1>6. KeysReserved'
  BY <1>1, WriteKeepsKeys DEF SInv, IInv
<1>7. QED
  BY <1>1, <1>4, <1>5, <1>6, LocalStep

LEMMA EditByIdSafe == ASSUME SInv, NEW t \in Txn, EditById(t) PROVE SInv'
<1> DEFINE i == target[t]
           r == Edited(t, row[i])
<1>1. CASE \E outcome \in {"conflict", "not_found", "failed"} : Abort(t, outcome)
  BY <1>1, AbortSafe DEF EditById
<1>2. CASE ~\E outcome \in {"conflict", "not_found", "failed"} : Abort(t, outcome)
  <2>1. /\ pc[t] = "begun" /\ req[t].op \in {"patch", "delete", "dav_delete"}
        /\ Live(row[i]) /\ Unlocked(i, t) /\ ~Overflows(t, row[i])
        /\ Write(t, i, r) /\ Goto(t, "written")
        /\ UNCHANGED <<stored, nextSeq, clock, purged, context, at, target, entry>>
    BY <1>2 DEF EditById
  <2>2. IInv'
    BY EditByIdStep DEF SInv
  <2>3. i \in Id /\ row[i] \in Row /\ target' = [target EXCEPT ![t] = i] /\ locks[t] = {}
    BY <2>1 DEF SInv, IInv, TypeOK, Targeted, Own, Work, Writing
  <2>4. /\ r \in Row /\ r.href = row[i].href /\ r.uid = row[i].uid
        /\ r.master = row[i].master /\ r.author = t
    <3>1. req[t].op = "patch" => row[i].sequence + 1 \in 0..IntMax
      BY <2>1, <2>3, BoundAssumption DEF Overflows, Row
    <3>2. at[t] \in 0..MaxClock
      BY DEF SInv, IInv, TypeOK
    <3>3. QED
      BY <2>3, <3>1, <3>2 DEF Edited, Row
  <2>5. Exists(row[i])
    BY <2>1 DEF Live, Exists
  <2>6. r.href \in Known /\ (r.master \in Id => IsMaster(row[r.master]))
    BY <2>3, <2>4, <2>5 DEF SInv, Table
  <2>7. \A S \in SUBSET Txn : \A j \in Id \ {i} : \A s \in Outcome(S, j) : Apart(i, r, j, s)
    <3> HIDE DEF r, i
    <3>1. QED
      BY <2>1, <2>3, <2>4, <2>5, SameKeysAreFree DEF SInv, IInv
  <2>8. Work(t)'
    <3>1. /\ locks'[t] = {i} /\ img'[t][i] = r /\ pc'[t] = "written" /\ req' = req
          /\ row' = row /\ at' = at /\ target' = target
      BY <2>1, <2>3, <2>4 DEF Write, Goto, SInv, IInv, TypeOK, context, stored
    <3>2. Edited(t, row[i])' = r
      BY <3>1 DEF Edited
    <3> HIDE DEF r
    <3>3. QED
      BY <2>1, <3>1, <3>2 DEF Work, Writing, EditWork
  <2> HIDE DEF r, i
  <2>9. QED
    BY <2>1, <2>2, <2>3, <2>4, <2>6, <2>7, <2>8, StatementStep
<1>3. QED
  BY <1>1, <1>2

LEMMA InsertSafe == ASSUME SInv, NEW t \in Txn, Insert(t) PROVE SInv'
<1> DEFINE m == target[t]
           r == [NoRow EXCEPT !.state = "live", !.master = m, !.uid = req[t].uid,
                              !.updated_at = at[t], !.author = t]
<1>1. CASE \E outcome \in {"conflict", "not_found", "failed"} : Abort(t, outcome)
  BY <1>1, AbortSafe DEF Insert
<1>2. CASE ~\E outcome \in {"conflict", "not_found", "failed"} : Abort(t, outcome)
  <2>1. PICK i \in FreshIds :
          /\ pc[t] = "begun" /\ req[t].op = "create"
          /\ Pending(t, i, r) = {} /\ ~Clashes(i, r, Id) /\ (m = NoId \/ Exists(row[m]))
          /\ Write(t, i, r) /\ target' = [target EXCEPT ![t] = i] /\ Goto(t, "written")
          /\ UNCHANGED <<stored, nextSeq, clock, purged, context, at, entry>>
    <3> HIDE DEF r, m
    <3>1. PICK i \in FreshIds :
            /\ pc[t] = "begun" /\ req[t].op = "create"
            /\ Pending(t, i, r) = {}
            /\ CASE Clashes(i, r, Id) -> Abort(t, "conflict")
                 [] ~Clashes(i, r, Id) /\ m # NoId /\ ~Exists(row[m]) -> Abort(t, "failed")
                 [] OTHER ->
                      /\ Write(t, i, r)
                      /\ target' = [target EXCEPT ![t] = i]
                      /\ Goto(t, "written")
                      /\ UNCHANGED <<stored, nextSeq, clock, purged, context, at, entry>>
      BY DEF Insert, r, m
    <3>2. CASE Clashes(i, r, Id)
      BY <1>2, <3>1, <3>2
    <3>3. CASE ~Clashes(i, r, Id)
      BY <1>2, <3>1, <3>3
    <3>4. QED
      BY <3>2, <3>3
  <2>2. IInv'
    BY InsertStep DEF SInv
  <2>3. req[t] \in Request /\ locks[t] = {} /\ m \in Id \cup {NoId}
    BY <2>1, RequestAssumption DEF SInv, IInv, Asked, TypeOK, Own, Work, Writing
  <2>4. /\ r \in Row /\ Live(r) /\ r.href = NoHref /\ r.master = m /\ r.author = t
    BY <2>3, BlankTyped DEF SInv, IInv, TypeOK, Row, Request, NoRow, Live
  <2>5. i \in Id /\ Unlocked(i, t) /\ row[i].state = "free"
    BY FreshUnlocked DEF Unlocked
  <2>6. r.master \in Id => IsMaster(row[r.master])
    BY <2>1, <2>4, SentinelAssumption DEF SInv, Own, Parents, IsMaster
  <2>7. r.href \in Known
    BY <2>4 DEF Known
  <2>8. \A S \in SUBSET Txn : \A j \in Id \ {i} : \A s \in Outcome(S, j) : Apart(i, r, j, s)
    <3> HIDE DEF r
    <3>1. Name(i, r) = i
      BY <2>4 DEF Name
    <3>2. QED
      BY <2>1, <2>3, <2>4, <2>5, <3>1, CheckedKeysAreFree
  <2>9. Work(t)'
    <3> HIDE DEF r
    <3>1. /\ locks'[t] = {i} /\ img'[t][i] = r /\ pc'[t] = "written" /\ req' = req
          /\ row' = row /\ target'[t] = i
      BY <2>1, <2>3, <2>5 DEF Write, Goto, SInv, IInv, TypeOK, context, stored
    <3>2. QED
      BY <2>1, <2>4, <2>5, <3>1 DEF Work, Writing, EditWork
  <2> HIDE DEF r, m
  <2>10. QED
    BY <2>1, <2>2, <2>3, <2>4, <2>5, <2>6, <2>7, <2>8, <2>9, StatementStep
<1>3. QED
  BY <1>1, <1>2

(* SELECT ... FOR UPDATE: a master is locked and left as it is.             *)
LEMMA LockStep ==
    ASSUME SInv, IInv', NEW t \in Txn, NEW i \in Id, NEW i2 \in Id, NEW next,
           Write(t, i, row[i]), Goto(t, next), target' = [target EXCEPT ![t] = i2],
           UNCHANGED <<stored, nextSeq, clock, purged, context, at, entry>>,
           next \in {"found", "decided"}, pc[t] \in {"begun", "found"}, IsMaster(row[i]),
           Unlocked(i, t)
    PROVE  SInv'
<1>1. \A j \in locks[t] : img[t][j] = row[j] /\ IsMaster(row[j])
  BY DEF SInv, Own, Work, Writing
<1>2. row[i] \in Row /\ row[i].href \in Known /\ row[i].master = NoId
  BY DEF SInv, IInv, TypeOK, Table, IsMaster
<1>3. \A S \in SUBSET Txn : \A j \in Id \ {i} : \A s \in Outcome(S, j) : Apart(i, row[i], j, s)
  BY <1>1, <1>2, SameKeysAreFree DEF SInv, IInv
<1>4. Work(t)'
  <2>1. /\ pc'[t] = next /\ row' = row /\ locks'[t] = locks[t] \cup {i} /\ img'[t][i] = row[i]
        /\ \A j \in locks[t] : j # i => img'[t][j] = img[t][j]
    BY DEF Write, Goto, SInv, IInv, TypeOK, stored
  <2>2. QED
    BY <1>1, <2>1 DEF Work, Writing
<1>5. QED
  BY <1>1, <1>2, <1>3, <1>4, SentinelAssumption, StatementStep

LEMMA NothingLockedStep ==
    ASSUME SInv, IInv', NEW t \in Txn, NEW next \in {"found", "decided"}, Goto(t, next),
           pc[t] \in {"begun", "found"},
           UNCHANGED <<stored, nextSeq, clock, purged, context, at, target, locks, img, entry>>
    PROVE  SInv'
<1>1. /\ pc'[t] = next /\ \A u \in Txn \ {t} : Unmoved(u)
      /\ UNCHANGED <<row, log, nextSeq, req, at, target, locks, img, entry>>
  BY DEF Goto, Unmoved, stored, context, SInv, IInv, TypeOK
<1>2. Own(t)'
  <2>1. Work(t)'
    BY <1>1 DEF Work, Writing, SInv, Own
  <2>2. Parents(t)' /\ SeriesHeld(t)' /\ EntryTrue(t)'
    BY <1>1 DEF Parents, SeriesHeld, EntryTrue, SInv, Own
  <2>3. Authored(t)'
    BY <1>1 DEF Authored, SInv, Own
  <2>4. QED
    BY <2>1, <2>2, <2>3 DEF Own
<1>3. SeqsUnique'
  BY <1>1, SeqsKept DEF Unmoved
<1>4. KeysReserved'
  BY <1>1 DEF KeysReserved, Outcome, SInv
<1>5. QED
  BY <1>1, <1>2, <1>3, <1>4, LocalStep

LEMMA AtHrefSafe == ASSUME SInv, NEW t \in Txn, AtHref(t) PROVE SInv'
<1>1. CASE Abort(t, "conflict")
  BY <1>1, AbortSafe DEF AtHref
<1>2. CASE ~Abort(t, "conflict")
  <2>0. IInv' /\ pc[t] = "begun"
    BY AtHrefStep DEF SInv, AtHref
  <2>1. CASE ResourceAt(req[t].href) = {}
    BY <1>2, <2>0, <2>1, NothingLockedStep DEF AtHref
  <2>2. CASE ResourceAt(req[t].href) # {}
    <3>1. PICK i \in ResourceAt(req[t].href) :
            /\ Unlocked(i, t)
            /\ Write(t, i, row[i]) /\ target' = [target EXCEPT ![t] = i] /\ Goto(t, "found")
            /\ UNCHANGED <<stored, nextSeq, clock, purged, context, at, entry>>
      BY <1>2, <2>2 DEF AtHref
    <3>2. i \in Id /\ IsMaster(row[i])
      BY DEF ResourceAt, LiveObjectAt, ObjectAt, IsMaster
    <3>3. QED
      BY <2>0, <3>1, <3>2, LockStep
  <2>3. QED
    BY <2>1, <2>2
<1>3. QED
  BY <1>1, <1>2

LEMMA ByUidSafe == ASSUME SInv, NEW t \in Txn, ByUid(t) PROVE SInv'
<1>1. CASE Abort(t, "conflict")
  BY <1>1, AbortSafe DEF ByUid
<1>2. CASE ~Abort(t, "conflict")
  <2>0. IInv' /\ pc[t] = "found"
    BY ByUidStep DEF SInv, ByUid
  <2>1. CASE WithUid(req[t].uid) = {}
    BY <1>2, <2>0, <2>1, NothingLockedStep DEF ByUid
  <2>2. CASE WithUid(req[t].uid) # {}
    <3> DEFINE tgt(j) == IF target[t] = NoId THEN j ELSE target[t]
    <3>1. PICK j \in WithUid(req[t].uid) :
            /\ Unlocked(j, t)
            /\ Write(t, j, row[j]) /\ target' = [target EXCEPT ![t] = tgt(j)]
            /\ Goto(t, "decided")
            /\ UNCHANGED <<stored, nextSeq, clock, purged, context, at, entry>>
      BY <1>2, <2>2 DEF ByUid
    <3>2. j \in Id /\ IsMaster(row[j]) /\ tgt(j) \in Id
      BY DEF SInv, IInv, TypeOK, WithUid
    <3> HIDE DEF tgt
    <3>3. QED
      BY <2>0, <3>1, <3>2, LockStep
  <2>3. QED
    BY <2>1, <2>2
<1>3. QED
  BY <1>1, <1>2

LEMMA UpdateMasterSafe == ASSUME SInv, NEW t \in Txn, UpdateMaster(t) PROVE SInv'
<1> DEFINE i == target[t]
           r == Replaced(t, row[i])
<1>1. CASE \E outcome \in {"conflict", "failed"} : Abort(t, outcome)
  BY <1>1, AbortSafe DEF UpdateMaster
<1>2. CASE ~\E outcome \in {"conflict", "failed"} : Abort(t, outcome)
  <2>1. /\ pc[t] = "decided" /\ i # NoId /\ r.sequence <= IntMax
        /\ Pending(t, Name(i, r), r) = {} /\ ~Clashes(Name(i, r), r, Id \ {i})
        /\ Write(t, i, r) /\ Goto(t, "written")
        /\ UNCHANGED <<stored, nextSeq, clock, purged, context, at, target, entry>>
    BY <1>2 DEF UpdateMaster
  <2>2. IInv'
    BY UpdateMasterStep DEF SInv
  <2>3. /\ i \in Id /\ row[i] \in Row /\ i \in locks[t] /\ target' = [target EXCEPT ![t] = i]
        /\ req[t] \in Requests /\ req[t] \in Request /\ req[t].op = "put"
    BY <2>1, RequestAssumption DEF SInv, IInv, TypeOK, Targeted, Asked
  <2>4. /\ \A j \in locks[t] : img[t][j] = row[j] /\ IsMaster(row[j])
        /\ row[i].master = NoId /\ Exists(row[i])
    BY <2>1, <2>3 DEF SInv, Own, Work, Writing, IsMaster
  <2>5. Unlocked(i, t)
    BY <2>3 DEF Unlocked, SInv, IInv, LocksExclusive
  <2>6. /\ r \in Row /\ Live(r) /\ r.master = NoId /\ r.author = t
        /\ r.href = req[t].href \/ r.href = row[i].href
        /\ r.sequence > row[i].sequence
    <3>1. /\ GreatestPlusOne(req[t].sequence, row[i].sequence) \in Nat
          /\ GreatestPlusOne(req[t].sequence, row[i].sequence) > row[i].sequence
      BY <2>3, BoundAssumption DEF GreatestPlusOne, Request, Row
    <3>2. at[t] \in 0..MaxClock /\ 0 \in 0..MaxClock
      BY BoundAssumption DEF SInv, IInv, TypeOK
    <3>3. r.sequence = GreatestPlusOne(req[t].sequence, row[i].sequence)
      BY <2>3 DEF Replaced, Row
    <3>4. r.sequence \in 0..IntMax
      BY <2>1, <3>1, <3>3, BoundAssumption
    <3>5. r \in Row /\ Live(r) /\ r.author = t /\ r.master = row[i].master
      BY <2>3, <3>2, <3>4 DEF Replaced, Row, Request, Live
    <3>6. r.href = req[t].href \/ r.href = row[i].href
      BY <2>3 DEF Replaced, Row
    <3>7. QED
      BY <2>4, <3>1, <3>3, <3>5, <3>6
  <2>7. r.href \in Known
    <3>1. row[i].href \in Known /\ req[t].href \in Known
      BY <2>3 DEF SInv, Table, Known
    <3>2. QED
      BY <2>6, <3>1
  <2>8. \A S \in SUBSET Txn : \A j \in Id \ {i} : \A s \in Outcome(S, j) : Apart(i, r, j, s)
    <3> HIDE DEF r, i
    <3>1. QED
      BY <2>1, <2>3, <2>4, <2>6, CheckedKeysAreFree
  <2>9. Work(t)'
    <3> HIDE DEF r
    <3>1. /\ locks'[t] = locks[t] /\ img'[t][i] = r /\ pc'[t] = "written" /\ req' = req
          /\ row' = row /\ target' = target /\ locks[t] \subseteq Id
          /\ \A j \in Id : j # i => img'[t][j] = img[t][j]
      BY <2>1, <2>3 DEF Write, Goto, SInv, IInv, TypeOK, context, stored
    <3>2. PutWork(t, i)'
      BY <2>4, <2>6, <3>1 DEF PutWork
    <3>3. QED
      BY <2>3, <3>1, <3>2 DEF Work, Writing
  <2>10. r.author \in {t, row[i].author} /\ ~(r.master \in Id)
    BY <2>6, SentinelAssumption
  <2> HIDE DEF r, i
  <2>11. QED
    BY <2>1, <2>2, <2>3, <2>4, <2>5, <2>6, <2>7, <2>8, <2>9, <2>10, StatementStep
<1>3. QED
  BY <1>1, <1>2

LEMMA InsertMasterSafe == ASSUME SInv, NEW t \in Txn, InsertMaster(t) PROVE SInv'
<1> DEFINE h == req[t].href
           canonical == h \in Id /\ ~Exists(row[h])
           r == [NoRow EXCEPT !.state = "live", !.uid = req[t].uid,
                              !.href = IF canonical THEN NoHref ELSE h,
                              !.updated_at = at[t], !.author = t]
<1>1. CASE Abort(t, "conflict")
  BY <1>1, AbortSafe DEF InsertMaster
<1>2. CASE ~Abort(t, "conflict")
  <2>1. PICK i \in IF canonical THEN {h} ELSE FreshIds \ {h} :
          /\ pc[t] = "decided" /\ target[t] = NoId
          /\ Pending(t, h, r) = {} /\ ~Clashes(h, r, Id)
          /\ Write(t, i, r) /\ target' = [target EXCEPT ![t] = i] /\ Goto(t, "written")
          /\ UNCHANGED <<stored, nextSeq, clock, purged, context, at, entry>>
    BY <1>2 DEF InsertMaster
  <2>2. IInv'
    BY InsertMasterStep DEF SInv
  <2>3. req[t] \in Requests /\ req[t] \in Request /\ req[t].op = "put" /\ h # NoHref
    BY <2>1, RequestAssumption DEF SInv, IInv, Asked
  <2>4. \A j \in locks[t] : img[t][j] = row[j] /\ IsMaster(row[j])
    BY <2>1 DEF SInv, Own, Work, Writing
  <2>5. /\ r \in Row /\ Live(r) /\ r.master = NoId /\ r.author = t
        /\ r.href = IF canonical THEN NoHref ELSE h
    BY <2>3, BlankTyped DEF SInv, IInv, TypeOK, Row, Request, NoRow, Live
  <2>6. i \in Id /\ Unlocked(i, t) /\ ~Exists(row[i]) /\ Name(i, r) = h
    <3> HIDE DEF r
    <3>1. CASE canonical
      <4>1. Unlocked(h, t)
        BY <2>1, <2>3, <3>1, CanonicalUnlocked DEF SInv
      <4>2. QED
        BY <2>1, <2>5, <3>1, <4>1 DEF Name
    <3>2. CASE ~canonical
      <4>1. i \in FreshIds
        BY <2>1, <3>2
      <4>2. QED
        BY <2>3, <2>5, <3>2, <4>1, FreshUnlocked DEF Unlocked, Name, Exists
    <3>3. QED
      BY <3>1, <3>2
  <2>7. r.href \in Known
    BY <2>3, <2>5 DEF Known
  <2> HIDE DEF h, canonical
  <2>8. \A S \in SUBSET Txn : \A j \in Id \ {i} : \A s \in Outcome(S, j) : Apart(i, r, j, s)
    <3> HIDE DEF r
    <3>1. QED
      BY <2>1, <2>4, <2>5, <2>6, CheckedKeysAreFree
  <2>9. Work(t)'
    <3> HIDE DEF r
    <3>1. /\ locks'[t] = locks[t] \cup {i} /\ img'[t][i] = r /\ pc'[t] = "written"
          /\ req' = req /\ row' = row /\ target'[t] = i /\ locks[t] \subseteq Id
          /\ \A j \in Id : j # i => img'[t][j] = img[t][j]
      BY <2>1, <2>6 DEF Write, Goto, SInv, IInv, TypeOK, context, stored
    <3>2. PutWork(t, i)'
      BY <2>4, <2>5, <2>6, <3>1 DEF PutWork
    <3>3. QED
      BY <2>3, <3>1, <3>2 DEF Work, Writing
  <2>10. r.author \in {t, row[i].author} /\ ~(r.master \in Id)
    BY <2>5, SentinelAssumption
  <2> HIDE DEF r
  <2>11. QED
    BY <2>1, <2>2, <2>4, <2>5, <2>6, <2>7, <2>8, <2>9, <2>10, StatementStep
<1>3. QED
  BY <1>1, <1>2

LEMMA GoneRow ==
    ASSUME NEW r \in Row
    PROVE  /\ ~Exists([r EXCEPT !.state = "gone"])
           /\ [r EXCEPT !.state = "gone"].href = r.href
           /\ [r EXCEPT !.state = "gone"].author = r.author
           /\ [r EXCEPT !.state = "gone"].master = r.master
           /\ [r EXCEPT !.state = "gone"].state = "gone"
BY DEF Row, Exists

(* An id the server has just drawn is nobody's filename. *)
LEMMA FreshUnnamed ==
    ASSUME SInv, NEW i \in FreshIds, NEW S \in SUBSET Txn, NEW j \in Id \ {i},
           NEW x \in Outcome(S, j)
    PROVE  Name(j, x) # i
<1>1. x.href \in Known
  BY OutcomeCases DEF SInv, Table, Own, Parents
<1>2. i \in Id /\ i # NoHref /\ (\A q \in Requests : q.href # i) /\ \A k \in Id : Stored[k].href # i
  BY SentinelAssumption DEF FreshIds, Unused
<1>3. x.href # i
  BY <1>1, <1>2 DEF Known
<1>4. QED
  BY <1>3 DEF Name

LEMMA ReplaceOverridesSafe == ASSUME SInv, NEW t \in Txn, ReplaceOverrides(t) PROVE SInv'
<1> DEFINE i == target[t]
           old == OverridesOf(i)
           new == NewOverride(t)
<1>1. CASE Abort(t, "conflict")
  BY <1>1, AbortSafe DEF ReplaceOverrides
<1>2. CASE ~Abort(t, "conflict")
  <2>1. PICK added \in SUBSET FreshIds :
          /\ pc[t] = "written" /\ req[t].op = "put" /\ \A j \in old : Unlocked(j, t)
          /\ added # {} => Pending(t, NoId, new) = {} /\ ~Clashes(NoId, new, Id \ old)
          /\ \A j \in added : \A k \in added : j = k
          /\ locks' = [locks EXCEPT ![t] = @ \cup old \cup added]
          /\ img' = [img EXCEPT ![t] = [j \in Id |-> CASE j \in added -> new
                                              [] j \in old -> [row[j] EXCEPT !.state = "gone"]
                                              [] OTHER -> img[t][j]]]
          /\ Goto(t, "replaced")
          /\ UNCHANGED <<stored, nextSeq, clock, purged, context, at, target, entry>>
    <3> DEFINE images(added) == [j \in Id |-> CASE j \in added -> new
                                                [] j \in old -> [row[j] EXCEPT !.state = "gone"]
                                                [] OTHER -> img[t][j]]
               Leave(added) == /\ locks' = [locks EXCEPT ![t] = @ \cup old \cup added]
                               /\ img' = [img EXCEPT ![t] = images(added)]
                               /\ Goto(t, "replaced")
                               /\ UNCHANGED <<stored, nextSeq, clock, purged, context, at,
                                              target, entry>>
    <3>1. /\ pc[t] = "written" /\ req[t].op = "put" /\ \A j \in old : Unlocked(j, t)
          /\ \/ Leave({})
             \/ /\ Pending(t, NoId, new) = {} /\ ~Clashes(NoId, new, Id \ old)
                /\ \E j \in FreshIds : Leave({j})
      BY <1>2 DEF ReplaceOverrides
    <3> HIDE DEF Leave
    <3>2. PICK added \in SUBSET FreshIds :
            /\ Leave(added)
            /\ added # {} => Pending(t, NoId, new) = {} /\ ~Clashes(NoId, new, Id \ old)
            /\ \A j \in added : \A k \in added : j = k
      <4>1. CASE Leave({})
        BY <4>1
      <4>2. CASE ~Leave({})
        <5>1. PICK j \in FreshIds : Leave({j})
          BY <3>1, <4>2
        <5>2. {j} \in SUBSET FreshIds
          OBVIOUS
        <5> HIDE DEF new, old
        <5>3. QED
          BY <3>1, <4>2, <5>1, <5>2
      <4>3. QED
        BY <4>1, <4>2
    <3>3. QED
      BY <3>1, <3>2 DEF Leave
  <2>2. IInv'
    BY ReplaceOverridesStep DEF SInv
  <2>3. /\ i \in locks[t] /\ i \in Id /\ locks[t] \subseteq Id /\ img[t] \in [Id -> Row]
        /\ req[t] \in Requests /\ req[t] \in Request
    BY <2>1, RequestAssumption DEF SInv, IInv, TypeOK, Targeted, Asked
  <2>4. /\ Live(img[t][i]) /\ img[t][i].master = NoId /\ img[t][i].author = t
        /\ Exists(row[i]) => row[i].master = NoId /\ img[t][i].sequence > row[i].sequence
        /\ \A j \in locks[t] \ {i} : IsMaster(row[j]) /\ img[t][j] = row[j]
    BY <2>1 DEF SInv, Own, Work, Writing, PutWork
  <2>5. /\ new \in Row /\ Live(new) /\ new.href = NoHref /\ new.master = i /\ new.author = t
    BY <2>3, BlankTyped DEF NewOverride, SInv, IInv, TypeOK, Row, Request, NoRow, Live
  <2>6. /\ old \subseteq Id /\ \A j \in old : Exists(row[j]) /\ row[j].master = i
        /\ added \subseteq Id /\ \A j \in added : row[j].state = "free"
        /\ \A j \in added : \A u \in Txn : j \notin locks[u]
    BY FreshUnlocked DEF OverridesOf
  <2>7. i \notin old /\ i \notin added /\ \A j \in added : j \notin old
    BY <2>3, <2>4, <2>6, SentinelAssumption DEF Exists
  <2>8. /\ locks'[t] = locks[t] \cup old \cup added /\ pc'[t] = "replaced"
        /\ \A u \in Txn \ {t} : Unmoved(u)
        /\ UNCHANGED <<row, log, nextSeq, req, at, target, entry>>
        /\ \A j \in added : img'[t][j] = new
        /\ \A j \in old : img'[t][j] = [row[j] EXCEPT !.state = "gone"]
        /\ \A j \in Id : j \notin old \cup added => img'[t][j] = img[t][j]
    <3> HIDE DEF new, old
    <3>1. /\ img' \in [Txn -> [Id -> Row]] /\ img \in [Txn -> [Id -> Row]]
          /\ locks \in [Txn -> SUBSET Id] /\ pc \in [Txn -> {"idle"} \cup Sent \cup Running \cup Ended]
      BY <2>2 DEF SInv, IInv, TypeOK
    <3>2. UNCHANGED <<row, log, nextSeq, req, at, target, entry>>
      BY <2>1 DEF stored, context
    <3>3. pc'[t] = "replaced" /\ locks'[t] = locks[t] \cup old \cup added
      BY <2>1, <3>1 DEF Goto
    <3>4. \A u \in Txn \ {t} : Unmoved(u)
      BY <2>1, <3>1, <3>2 DEF Goto, Unmoved
    <3>5. img'[t] = [j \in Id |-> CASE j \in added -> new
                                    [] j \in old -> [row[j] EXCEPT !.state = "gone"]
                                    [] OTHER -> img[t][j]]
      BY <2>1, <3>1
    <3>6. QED
      BY <2>6, <2>7, <3>2, <3>3, <3>4, <3>5
  <2> HIDE DEF new, old, i
  <2>9. \A j \in locks'[t] : j \in added \/ j \in old \/ (j \in locks[t] /\ j \notin old \cup added)
    BY <2>8
  <2>10. \A j \in old : /\ ~Exists(img'[t][j]) /\ img'[t][j].href = row[j].href
                       /\ img'[t][j].author = row[j].author
    <3>1. TAKE j \in old
    <3>2. row[j] \in Row
      BY <2>6 DEF SInv, IInv, TypeOK
    <3>3. img'[t][j] = [row[j] EXCEPT !.state = "gone"]
      BY <2>8
    <3>4. QED
      BY <3>2, <3>3, GoneRow
  <2>11. Own(t)'
    <3>1. Work(t)'
      <4>1. img'[t][i] = img[t][i] /\ row' = row /\ pc'[t] # "written" /\ i' = i
        BY <2>3, <2>7, <2>8 DEF i
      <4>2. \A j \in locks'[t] \ {i} :
              \/ IsMaster(row[j]) /\ img'[t][j] = row[j]
              \/ /\ Exists(row[j]) /\ row[j].master = i
                 /\ img'[t][j] = [row[j] EXCEPT !.state = "gone"]
              \/ /\ row[j].state = "free" /\ img'[t][j].href = NoHref
                 /\ Live(img'[t][j]) /\ img'[t][j].master = i /\ img'[t][j].author = t
        <5>1. TAKE j \in locks'[t] \ {i}
        <5>2. CASE j \in added
          BY <2>5, <2>6, <2>8, <5>2
        <5>3. CASE j \in old
          BY <2>6, <2>8, <5>3
        <5>4. CASE j \in locks[t] /\ j \notin old \cup added
          BY <2>3, <2>4, <2>8, <5>4
        <5>5. QED
          BY <2>9, <5>2, <5>3, <5>4
      <4>3. PutWork(t, i)'
        BY <2>4, <4>1, <4>2 DEF PutWork
      <4>4. QED
        BY <2>1, <2>8, <4>1, <4>3 DEF Work, Writing, i
    <3>2. Parents(t)'
      <4>1. \A j \in locks'[t] : Exists(img'[t][j]) /\ img'[t][j].master \in Id =>
                img'[t][j].master = i
        <5>1. \A j \in locks[t] : img[t][j].master = NoId
          BY <2>3, <2>4 DEF IsMaster
        <5>2. QED
          BY <2>3, <2>5, <2>8, <2>9, <2>10, <5>1, SentinelAssumption
      <4>2. \A j \in locks'[t] : img'[t][j].href \in Known
        <5>1. \A j \in Id : row[j].href \in Known
          BY DEF SInv, Table
        <5>2. \A j \in locks[t] : img[t][j].href \in Known
          BY DEF SInv, Own, Parents
        <5>3. QED
          BY <2>3, <2>5, <2>6, <2>8, <2>9, <2>10, <5>1, <5>2 DEF Known
      <4>3. QED
        BY <2>1, <2>8, <4>1, <4>2 DEF Parents, Known, i
    <3>3. SeriesHeld(t)' /\ EntryTrue(t)'
      BY <2>8 DEF SeriesHeld, EntryTrue, OverridesOf, old, i
    <3>4. Authored(t)'
      <4>1. /\ \A j \in Id : row[j].author # t
            /\ \A j \in locks[t] : img[t][j].author \in {t, row[j].author}
        BY <2>1 DEF SInv, Own, Authored
      <4>2. QED
        BY <2>3, <2>5, <2>8, <2>9, <2>10, <4>1 DEF Authored
    <3>5. QED
      BY <3>1, <3>2, <3>3, <3>4 DEF Own
  <2>12. SeqsUnique'
    BY <2>8, SeqsKept DEF Unmoved
  <2>13. ASSUME NEW S \in SUBSET Txn, NEW j \in Id, NEW x, x \in Outcome(S, j)'
         PROVE  \/ x \in Outcome(S, j) /\ (t \in S => j \notin old \cup added)
                \/ j \in old /\ t \in S /\ ~Exists(x)
                \/ j \in added /\ t \in S /\ x = new
    <3>1. CASE t \in S /\ j \in old
      <4>1. x = img'[t][j]
        BY <2>1, <2>8, <2>13, <3>1 DEF Outcome, Unlocked, Unmoved
      <4>2. row[j] \in Row
        BY DEF SInv, IInv, TypeOK
      <4>3. QED
        BY <2>8, <3>1, <4>1, <4>2 DEF Exists, Row
    <3>2. CASE t \in S /\ j \in added
      <4>1. x = img'[t][j]
        BY <2>6, <2>8, <2>13, <3>2 DEF Outcome, Unmoved
      <4>2. QED
        BY <2>8, <3>2, <4>1
    <3>3. CASE ~(t \in S /\ j \in old \cup added)
      BY <2>8, <2>13, <3>3 DEF Outcome, Unmoved
    <3>4. QED
      BY <3>1, <3>2, <3>3
  <2>14. ASSUME NEW S \in SUBSET Txn, t \in S, NEW k \in added, NEW j \in Id \ {k},
                j \notin old, NEW x \in Outcome(S, j)
         PROVE  Apart(k, new, j, x) /\ Apart(j, x, k, new)
    <3>1. Name(j, x) # k /\ Name(k, new) = k /\ k \in Id
      BY <2>5, <2>6, <2>14, FreshUnnamed DEF Name
    <3>2. ~(x.master # NoId /\ new.uid = x.uid /\ Exists(x))
      <4>1. ~Clash(NoId, new, j, row[j]) /\ Pending(t, NoId, new) = {}
        BY <2>1, <2>14 DEF Clashes
      <4>2. new.master # NoId
        BY <2>3, <2>5, SentinelAssumption
      <4>3. CASE x = row[j]
        BY <4>1, <4>2, <4>3 DEF Clash
      <4>4. CASE x # row[j]
        <5>1. PICK u \in S : j \in locks[u] /\ x = img[u][j]
          BY <4>4, OutcomeCases
        <5>2. CASE u = t
          BY <2>4, <4>4, <5>1, <5>2 DEF IsMaster
        <5>3. CASE u # t
          BY <4>1, <4>2, <4>4, <5>1, <5>3 DEF Pending, Clash
        <5>4. QED
          BY <5>2, <5>3
      <4>5. QED
        BY <4>3, <4>4
    <3>3. Apart(k, new, j, x)
      BY <2>3, <2>5, <3>1, <3>2, SentinelAssumption DEF Apart, Clash
    <3>4. x \in Row
      BY OutcomeTyped DEF SInv, IInv
    <3>5. QED
      BY <2>5, <3>1, <3>3, <3>4, ApartSymmetric
  <2>15. KeysReserved'
    <3>1. SUFFICES ASSUME NEW S \in SUBSET Txn, NEW j \in Id, NEW k \in Id, j # k,
                          NEW r, r \in Outcome(S, j)', NEW s, s \in Outcome(S, k)'
                   PROVE  Apart(j, r, k, s)
      BY DEF KeysReserved
    <3>2. CASE ~Exists(r) \/ ~Exists(s)
      BY <3>2 DEF Apart, Clash
    <3>3. CASE Exists(r) /\ Exists(s) /\ r \in Outcome(S, j) /\ s \in Outcome(S, k)
      BY <3>1, <3>3 DEF SInv, KeysReserved
    <3>4. CASE Exists(r) /\ Exists(s) /\ t \in S /\ j \in added /\ r = new
      <4>1. s \in Outcome(S, k) /\ k \notin old
        BY <2>1, <2>13, <3>1, <3>4
      <4>2. QED
        BY <2>14, <3>1, <3>4, <4>1
    <3>5. CASE Exists(r) /\ Exists(s) /\ t \in S /\ k \in added /\ s = new
      <4>1. r \in Outcome(S, j) /\ j \notin old
        BY <2>1, <2>13, <3>1, <3>5
      <4>2. QED
        BY <2>14, <3>1, <3>5, <4>1
    <3>6. QED
      BY <2>13, <3>1, <3>2, <3>3, <3>4, <3>5
  <2>16. QED
    BY <2>2, <2>8, <2>11, <2>12, <2>15, LocalStep
<1>3. QED
  BY <1>1, <1>2

-----------------------------------------------------------------------------
(* append_change: the master of the row is locked, and a number taken.       *)

(* What the row a transaction is about is to it when it records its change. *)
LEMMA TargetAtHand ==
    ASSUME SInv, NEW t \in Txn, pc[t] \in Writing
    PROVE  /\ target[t] \in Id /\ target[t] \in locks[t]
           /\ req[t] \in Requests /\ req[t] \in Request
           /\ locks[t] \subseteq Id /\ img[t] \in [Id -> Row] /\ row \in [Id -> Row]
           /\ req[t].op = "put" => PutWork(t, target[t])
           /\ req[t].op # "put" => EditWork(t, target[t])
BY RequestAssumption DEF SInv, IInv, TypeOK, Targeted, Asked, Own, Work, Writing

LEMMA EditedKeeps ==
    ASSUME NEW t, NEW r \in Row
    PROVE  /\ Edited(t, r).master = r.master /\ Edited(t, r).href = r.href
           /\ Edited(t, r).uid = r.uid
           /\ req[t].op = "patch" =>
                /\ Edited(t, r).state = r.state /\ Edited(t, r).author = t
                /\ Edited(t, r).sequence = r.sequence + 1
           /\ req[t].op # "patch" => Edited(t, r).state = "deleted"
BY DEF Edited, Row

LEMMA TargetExists ==
    ASSUME SInv, NEW t \in Txn, pc[t] \in Writing
    PROVE  Exists(img[t][target[t]])
<1>1. CASE req[t].op = "put"
  BY <1>1, TargetAtHand DEF PutWork, Live, Exists
<1>2. CASE req[t].op = "create"
  BY <1>2, TargetAtHand DEF EditWork, Live, Exists
<1>3. CASE req[t].op \notin {"put", "create"}
  BY <1>3, TargetAtHand, EditedKeeps DEF EditWork, Live, Exists
<1>4. QED
  BY <1>1, <1>2, <1>3

LEMMA AppendChangeSafe == ASSUME SInv, NEW t \in Txn, AppendChange(t) PROVE SInv'
<1> DEFINE i == target[t]
           masters == {m \in Id : m = img[t][i].master /\ Exists(row[m])}
           change(k, op) == [seq |-> nextSeq, id |-> k, op |-> op, at |-> at[t]]
<1>1. /\ pc[t] = "replaced" \/ (pc[t] = "written" /\ req[t].op # "put")
      /\ Goto(t, "recorded") /\ nextSeq' = nextSeq + 1
      /\ UNCHANGED <<stored, clock, purged, context, at, target>>
      /\ \/ /\ masters = {}
            /\ entry' = [entry EXCEPT ![t] = change(i, Operation(t))]
            /\ UNCHANGED <<locks, img>>
         \/ \E m \in masters :
              /\ Unlocked(m, t) /\ Write(t, m, [row[m] EXCEPT !.updated_at = at[t]])
              /\ entry' = [entry EXCEPT ![t] = change(m, "updated")]
  BY DEF AppendChange
<1>2. IInv'
  BY AppendChangeStep DEF SInv
<1>3. /\ i \in Id /\ i \in locks[t] /\ req[t] \in Request /\ locks[t] \subseteq Id
      /\ row \in [Id -> Row] /\ img[t] \in [Id -> Row]
      /\ req[t].op = "put" => PutWork(t, i)
      /\ req[t].op # "put" => EditWork(t, i) /\ locks[t] = {i}
  <2>1. pc[t] = "replaced" => req[t].op = "put"
    BY DEF SInv, IInv, Asked
  <2>2. req[t].op # "put" => locks[t] = {i}
    BY <1>1, <2>1, TargetAtHand DEF EditWork, Writing
  <2>3. QED
    BY <1>1, <2>2, TargetAtHand DEF Writing
<1>4. /\ pc'[t] = "recorded" /\ UNCHANGED <<row, log, req, at, target>> /\ i' = i
      /\ \A u \in Txn \ {t} : pc'[u] = pc[u]
  BY <1>1 DEF Goto, stored, context, SInv, IInv, TypeOK
<1>5. /\ entry'[t].seq = nextSeq /\ \A u \in Txn \ {t} : entry'[u] = entry[u]
      /\ nextSeq \in Nat /\ Exists(img[t][i])
  <2>1. \E k \in Id, op \in {"updated", Operation(t)} : entry' = [entry EXCEPT ![t] = change(k, op)]
    <3> HIDE DEF change
    <3>1. masters \subseteq Id
      OBVIOUS
    <3>2. QED
      BY <1>1, <1>3, <3>1
  <2>2. \A k, op : change(k, op).seq = nextSeq
    OBVIOUS
  <2> HIDE DEF change
  <2>3. entry'[t].seq = nextSeq /\ \A u \in Txn \ {t} : entry'[u] = entry[u]
    BY <2>1, <2>2 DEF SInv, IInv, TypeOK
  <2>4. QED
    BY <1>1, <2>3, TargetExists DEF SInv, IInv, TypeOK, Writing
<1>6. SeqsUnique'
  <2>1. log \subseteq Change /\ \A u \in Txn : entry[u] \in Change
    BY DEF SInv, IInv, TypeOK
  <2>2. /\ \A c \in log : c.seq \in Nat /\ c.seq < nextSeq
        /\ \A u \in Txn : entry[u].seq \in Nat
        /\ \A u \in Txn \ {t} : pc[u] = "recorded" => entry[u].seq < nextSeq
    BY <2>1 DEF SInv, SeqsUnique, Change
  <2> HIDE DEF change, masters, i
  <2>3. \A c \in log' : c.seq < nextSeq'
    BY <1>1, <1>4, <1>5, <2>2
  <2>4. ASSUME NEW u \in Txn, pc'[u] = "recorded"
        PROVE  /\ entry'[u].seq < nextSeq'
               /\ \A c \in log' : c.seq # entry'[u].seq
               /\ \A v \in Txn \ {u} : pc'[v] = "recorded" => entry'[v].seq # entry'[u].seq
    <3>1. CASE u = t
      BY <1>1, <1>4, <1>5, <2>2, <3>1
    <3>2. CASE u # t
      <4>1. pc[u] = "recorded" /\ entry'[u] = entry[u]
        BY <1>4, <1>5, <2>4, <3>2
      <4>2. \A v \in Txn \ {u} : pc'[v] = "recorded" => entry'[v].seq # entry'[u].seq
        BY <1>4, <1>5, <2>2, <3>2, <4>1 DEF SInv, SeqsUnique
      <4>3. entry[u].seq < nextSeq /\ (\A c \in log : c.seq # entry[u].seq)
        BY <4>1 DEF SInv, SeqsUnique
      <4>4. entry'[u].seq < nextSeq'
        BY <1>1, <1>5, <2>2, <4>1, <4>3
      <4>5. QED
        BY <1>4, <4>1, <4>2, <4>3, <4>4
    <3>3. QED
      BY <3>1, <3>2
  <2>5. QED
    BY <2>3, <2>4 DEF SeqsUnique
<1>7. CASE masters = {}
  <2>1. UNCHANGED <<locks, img>> /\ entry'[t] = change(i, Operation(t))
    BY <1>1, <1>7 DEF SInv, IInv, TypeOK
  <2>2. \A u \in Txn \ {t} : Unmoved(u)
    BY <1>4, <1>5, <2>1 DEF Unmoved
  <2>3. Own(t)
    BY DEF SInv
  <2>4. ~(img[t][i].master \in Id)
    BY <1>3, <1>5, <1>7, <2>3, SentinelAssumption DEF PutWork, Parents, IsMaster, Own
  <2> HIDE DEF masters
  <2>5. Work(t)'
    <3>1. PutWork(t, i) /\ req[t].op = "put" => PutWork(t, i)'
      BY <1>1, <1>4, <2>1 DEF PutWork
    <3>2. EditWork(t, i) /\ req[t].op # "put" => EditWork(t, i)'
      BY <1>3, <1>4, <2>1 DEF EditWork, Edited
    <3>3. QED
      BY <1>3, <1>4, <3>1, <3>2 DEF Work, Writing
  <2>6. Parents(t)' /\ Authored(t)'
    BY <1>1, <1>4, <2>1, <2>3 DEF Own, Parents, Authored
  <2>7. SeriesHeld(t)'
    <3>1. ASSUME NEW j \in locks[t], Exists(img[t][j]), img[t][j].master \in Id
          PROVE  img[t][j].master \in locks[t]
      <4>1. req[t].op = "put" /\ j # i
        BY <1>3, <2>4, <3>1
      <4>2. CASE img[t][j].master = i
        BY <1>3, <4>2
      <4>3. CASE IsMaster(row[j]) /\ img[t][j] = row[j]
        BY <3>1, <4>3, SentinelAssumption DEF IsMaster
      <4>4. CASE img[t][j] = [row[j] EXCEPT !.state = "gone"]
        BY <1>3, <3>1, <4>4, GoneRow
      <4>5. QED
        BY <1>3, <4>1, <4>2, <4>3, <4>4 DEF PutWork
    <3>2. (pc[t] = "replaced" /\ req[t].op = "put") \/ req[t].op # "put"
      BY <1>1
    <3>3. QED
      BY <1>4, <2>1, <2>3, <3>1, <3>2 DEF Own, SeriesHeld, OverridesOf
  <2>8. EntryTrue(t)'
    <3>1. Operation(t) = Atomic!Transition(row[i], img[t][i])
      <4>1. CASE req[t].op = "put"
        BY <1>3, <4>1 DEF Operation, PutOperation, PutWork, Atomic!Transition, Atomic!Live, Live
      <4>2. CASE req[t].op = "create"
        BY <1>3, <4>2 DEF Operation, EditWork, Atomic!Transition, Atomic!Live, Live
      <4>3. CASE req[t].op = "patch"
        BY <1>3, <4>3, EditedKeeps DEF Operation, EditWork, Atomic!Transition, Atomic!Live, Live
      <4>4. CASE req[t].op \in {"delete", "dav_delete"}
        BY <1>3, <4>4, EditedKeeps DEF Operation, EditWork, Atomic!Transition, Atomic!Live, Live
      <4>5. QED
        BY <1>3, <4>1, <4>2, <4>3, <4>4 DEF Request
    <3>2. entry'[t].id = i /\ entry'[t].op = Operation(t)
      BY <2>1
    <3>3. QED
      BY <1>4, <2>1, <2>4, <3>1, <3>2 DEF EntryTrue
  <2>9. KeysReserved'
    BY <1>4, <2>1 DEF KeysReserved, Outcome, SInv
  <2>10. Own(t)'
    BY <2>5, <2>6, <2>7, <2>8 DEF Own
  <2>11. QED
    BY <1>2, <1>4, <1>6, <2>2, <2>9, <2>10, LocalStep
<1>8. CASE masters # {}
  <2>1. PICK m \in Id :
          /\ m = img[t][i].master /\ Exists(row[m])
          /\ Unlocked(m, t) /\ Write(t, m, [row[m] EXCEPT !.updated_at = at[t]])
          /\ entry' = [entry EXCEPT ![t] = change(m, "updated")]
    BY <1>1, <1>8
  <2> DEFINE r == [row[m] EXCEPT !.updated_at = at[t]]
  <2>2. Own(t)
    BY DEF SInv
  <2>3. req[t].op # "put" /\ EditWork(t, i) /\ locks[t] = {i}
    BY <1>3, <2>1, SentinelAssumption DEF PutWork
  <2>4. IsMaster(row[m])
    BY <1>3, <1>5, <2>1, <2>2, <2>3 DEF Own, Parents
  <2>5. m # i
    <3>1. CASE req[t].op = "create"
      BY <2>1, <2>3, <3>1 DEF EditWork, Exists
    <3>2. CASE req[t].op # "create"
      <4>1. row[i] \in Row /\ img[t][i] = Edited(t, row[i])
        BY <1>3, <2>3, <3>2 DEF EditWork
      <4>2. img[t][i].master = row[i].master
        BY <4>1, EditedKeeps
      <4>3. m \in Id /\ row[i].master = m /\ row[m].master = NoId
        BY <2>1, <2>4, <4>2 DEF IsMaster
      <4>4. QED
        BY <4>3, SentinelAssumption
    <3>3. QED
      BY <3>1, <3>2
  <2>6. /\ r \in Row /\ Exists(r) /\ r.href = row[m].href /\ r.uid = row[m].uid
        /\ r.master = row[m].master /\ r.author = row[m].author
    <3>1. row[m] \in Row /\ at[t] \in 0..MaxClock
      BY <1>3 DEF SInv, IInv, TypeOK
    <3>2. QED
      BY <2>1, <3>1 DEF Row, Exists
  <2>7. Write(t, m, r)
    BY <2>1
  <2>8. r = [row[m] EXCEPT !.updated_at = at[t]]
    OBVIOUS
  <2> HIDE DEF r, masters
  <2>9. /\ locks'[t] = {i, m} /\ img'[t][m] = r /\ img'[t][i] = img[t][i]
        /\ \A u \in Txn \ {t} : Unmoved(u)
    <3>1. /\ locks'[t] = locks[t] \cup {m} /\ img'[t] = [img[t] EXCEPT ![m] = r]
          /\ \A u \in Txn \ {t} : locks'[u] = locks[u] /\ img'[u] = img[u]
      BY <2>6, <2>7, WriteKeepsTypes DEF SInv, IInv
    <3>2. locks'[t] = {i, m} /\ img'[t][m] = r /\ img'[t][i] = img[t][i]
      BY <1>3, <2>3, <2>5, <3>1
    <3>3. \A u \in Txn \ {t} : Unmoved(u)
      BY <1>4, <1>5, <3>1 DEF Unmoved
    <3>4. QED
      BY <3>2, <3>3
  <2>10. Work(t)'
    <3>1. EditWork(t, i)'
      BY <1>4, <2>1, <2>3, <2>8, <2>9 DEF EditWork, Edited
    <3>2. QED
      BY <1>4, <2>3, <3>1 DEF Work, Writing
  <2>11. Parents(t)'
    <3>1. row[m].href \in Known /\ img[t][i].href \in Known
      BY <1>3, <2>2 DEF SInv, Table, Own, Parents
    <3>2. ~(r.master \in Id)
      BY <2>4, <2>6, SentinelAssumption DEF IsMaster
    <3>3. QED
      BY <1>4, <2>1, <2>4, <2>6, <2>9, <3>1, <3>2 DEF Parents, Known
  <2>12. SeriesHeld(t)'
    BY <1>4, <2>1, <2>3, <2>4, <2>6, <2>9, SentinelAssumption DEF SeriesHeld, IsMaster
  <2>13. Authored(t)'
    <3>1. /\ \A j \in Id : row[j].author # t
          /\ img[t][i].author \in {t, row[i].author}
      BY <1>1, <1>3, <2>2 DEF Own, Authored
    <3>2. QED
      BY <1>4, <2>6, <2>9, <3>1 DEF Authored
  <2>14. EntryTrue(t)'
    <3>1. entry'[t].id = m /\ entry'[t].op = "updated"
      BY <2>1 DEF SInv, IInv, TypeOK
    <3>2. QED
      BY <1>4, <2>1, <2>9, <3>1 DEF EntryTrue
  <2>15. KeysReserved'
    <3>1. m \notin locks[t]
      BY <2>3, <2>5
    <3>2. \A S \in SUBSET Txn : \A j \in Id \ {m} : \A s \in Outcome(S, j) : Apart(m, r, j, s)
      BY <2>1, <2>6, <3>1, SameKeysAreFree DEF SInv, IInv
    <3>3. QED
      BY <1>4, <2>1, <2>6, <2>7, <3>2, WriteKeepsKeys DEF SInv, IInv
  <2>16. Own(t)'
    BY <2>10, <2>11, <2>12, <2>13, <2>14 DEF Own
  <2>17. QED
    BY <1>2, <1>4, <1>6, <2>9, <2>15, <2>16, LocalStep
<1>9. QED
  BY <1>7, <1>8

-----------------------------------------------------------------------------
(* The commit. *)

LEMMA StampedRow ==
    ASSUME NEW r \in Row, NEW n
    PROVE  /\ [r EXCEPT !.updated_at = n].master = r.master
           /\ [r EXCEPT !.updated_at = n].state = r.state
           /\ [r EXCEPT !.updated_at = n].sequence = r.sequence
           /\ [r EXCEPT !.updated_at = n].author = r.author
BY DEF Row

(* No commit turns a master into an override or takes it away. *)
LEMMA MasterKept ==
    ASSUME SInv, NEW t \in Txn, pc[t] = "recorded", NEW m \in locks[t],
           row[m].master = NoId, row[m].state # "free"
    PROVE  /\ img[t][m].master = NoId /\ img[t][m].state # "free"
           /\ Exists(row[m]) => Exists(img[t][m])
<1> DEFINE i == target[t]
<1>1. /\ i \in Id /\ m \in Id /\ row[m] \in Row
      /\ req[t].op = "put" => PutWork(t, i)
      /\ req[t].op # "put" => EditWork(t, i)
  BY TargetAtHand DEF Writing
<1> HIDE DEF i
<1>2. CASE req[t].op = "put" /\ m = i
  BY <1>1, <1>2 DEF PutWork, Live, Exists
<1>3. CASE req[t].op = "put" /\ m # i
  BY <1>1, <1>3, SentinelAssumption DEF PutWork, IsMaster, Exists
<1>4. CASE req[t].op # "put" /\ m = i
  <2>1. req[t].op # "create" /\ img[t][m] = Edited(t, row[m]) /\ Live(row[m])
    BY <1>1, <1>4 DEF EditWork
  <2>2. QED
    BY <1>1, <2>1, EditedKeeps DEF Live, Exists
<1>5. CASE req[t].op # "put" /\ m # i
  <2>1. img[t][m] = [row[m] EXCEPT !.updated_at = at[t]]
    BY <1>1, <1>5 DEF EditWork
  <2>2. QED
    BY <1>1, <2>1, StampedRow DEF Exists
<1>6. QED
  BY <1>2, <1>3, <1>4, <1>5

(* A commit of a row that is an override keeps its master, which the same   *)
(* transaction holds, a master.                                             *)
LEMMA CommittedSeries ==
    ASSUME SInv, NEW t \in Txn, pc[t] = "recorded", NEW i \in locks[t],
           Exists(img[t][i]), img[t][i].master \in Id
    PROVE  img[t][i].master \in locks[t] /\ IsMaster(img[t][img[t][i].master])
<1> DEFINE m == img[t][i].master
<1>1. m \in locks[t] /\ Parents(t)
  BY DEF SInv, Own, SeriesHeld
<1>2. CASE IsMaster(row[m])
  <2>1. row[m].master = NoId /\ row[m].state # "free" /\ Exists(row[m])
    BY <1>2 DEF IsMaster, Exists
  <2> HIDE DEF m
  <2>2. QED
    BY <1>1, <2>1, MasterKept DEF IsMaster, m
<1>3. CASE req[t].op = "put" /\ m = target[t]
  <2>1. PutWork(t, target[t])
    BY <1>3, TargetAtHand DEF Writing
  <2>2. Live(img[t][m]) /\ img[t][m].master = NoId
    BY <1>3, <2>1 DEF PutWork
  <2>3. QED
    BY <1>1, <2>2 DEF IsMaster, Live, Exists
<1>4. QED
  BY <1>1, <1>2, <1>3 DEF Parents

(* What a transaction has done depends on no row it has not locked. *)
LEMMA WorkFrame ==
    ASSUME NEW u \in Txn, Work(u), Unmoved(u), \A i \in locks[u] : row'[i] = row[i],
           pc[u] \in Writing => target[u] \in locks[u]
    PROVE  Work(u)'
<1>1. /\ pc'[u] = pc[u] /\ req'[u] = req[u] /\ at'[u] = at[u] /\ target'[u] = target[u]
      /\ locks'[u] = locks[u] /\ img'[u] = img[u]
  BY DEF Unmoved
<1>2. CASE pc[u] \notin Writing
  BY <1>1, <1>2 DEF Work, Writing
<1>3. CASE pc[u] \in Writing /\ req[u].op = "put"
  <2>1. PutWork(u, target[u]) /\ row'[target[u]] = row[target[u]]
    BY <1>3 DEF Work
  <2>2. PutWork(u, target[u])'
    BY <1>1, <2>1 DEF PutWork
  <2>3. QED
    BY <1>1, <1>3, <2>2 DEF Work, Writing
<1>4. CASE pc[u] \in Writing /\ req[u].op # "put"
  <2>1. EditWork(u, target[u]) /\ row'[target[u]] = row[target[u]]
    BY <1>4 DEF Work
  <2>2. EditWork(u, target[u])'
    BY <1>1, <2>1 DEF EditWork, Edited
  <2>3. QED
    BY <1>1, <1>4, <2>2 DEF Work, Writing
<1>5. QED
  BY <1>2, <1>3, <1>4

LEMMA CommitSafe == ASSUME SInv, NEW t \in Txn, Commit(t) PROVE SInv'
<1>1. /\ pc[t] = "recorded" /\ End(t, "ok")
      /\ row' = [i \in Id |-> IF i \in locks[t] THEN img[t][i] ELSE row[i]]
      /\ log' = log \cup {entry[t]} /\ nextSeq' = nextSeq
  BY DEF Commit
<1>2. IInv'
  BY CommitStep DEF SInv
<1>3. /\ pc'[t] = "ok" /\ locks'[t] = {} /\ \A u \in Txn \ {t} : Unmoved(u)
      /\ locks[t] \subseteq Id
  BY <1>1 DEF End, Unmoved, SInv, IInv, TypeOK
<1>4. /\ \A i \in locks[t] : row'[i] = img[t][i]
      /\ \A i \in Id : i \notin locks[t] => row'[i] = row[i]
      /\ \A u \in Txn \ {t} : \A i \in locks[u] : row'[i] = row[i] /\ i \in Id
  BY <1>1, <1>3 DEF SInv, IInv, TypeOK, LocksExclusive
<1>5. /\ Own(t) /\ Table
      /\ \A i \in locks[t] : img[t][i].href \in Known
      /\ \A i \in locks[t] : img[t][i].author \in {t, row[i].author}
  BY DEF SInv, Own, Parents, Authored
<1>6. \A m \in Id : row[m].master = NoId /\ row[m].state # "free" =>
        /\ row'[m].master = NoId /\ row'[m].state # "free"
        /\ Exists(row[m]) => Exists(row'[m])
  BY <1>1, <1>4, MasterKept
<1>7. \A m \in Id : IsMaster(row[m]) => IsMaster(row'[m])
  BY <1>6 DEF IsMaster, Exists
<1>8. Table'
  <2>1. ASSUME NEW i \in Id, Exists(row'[i]), row'[i].master \in Id
        PROVE  IsMaster(row'[row'[i].master])
    <3>1. CASE i \in locks[t]
      BY <1>1, <1>4, <2>1, <3>1, CommittedSeries
    <3>2. CASE i \notin locks[t]
      <4>1. row'[i] = row[i] /\ IsMaster(row[row[i].master])
        BY <1>4, <1>5, <2>1, <3>2 DEF Table
      <4>2. QED
        BY <1>7, <2>1, <4>1
    <3>3. QED
      BY <3>1, <3>2
  <2>2. \A i \in Id : row'[i].href \in Known
    BY <1>4, <1>5 DEF Table
  <2>3. QED
    BY <2>1, <2>2 DEF Table, Known
<1>9. \A u \in Txn : Own(u)'
  <2>1. Own(t)'
    <3>1. Work(t)' /\ Parents(t)' /\ SeriesHeld(t)' /\ Authored(t)' /\ EntryTrue(t)'
      BY <1>3 DEF Work, Writing, Parents, SeriesHeld, Authored, EntryTrue
    <3>2. QED
      BY <3>1 DEF Own
  <2>2. ASSUME NEW u \in Txn \ {t} PROVE Own(u)'
    <3>1. Unmoved(u) /\ Own(u) /\ \A i \in locks[u] : row'[i] = row[i] /\ i \in Id
      BY <1>3, <1>4 DEF SInv
    <3>2. pc[u] \in Writing => target[u] \in locks[u]
      BY TargetAtHand
    <3>3. Work(u)'
      BY <3>1, <3>2, WorkFrame DEF Own
    <3>4. Parents(u)'
      <4>1. \A i \in locks[u] : Exists(img[u][i]) /\ img[u][i].master \in Id =>
                \/ IsMaster(row'[img[u][i].master])
                \/ req[u].op = "put" /\ img[u][i].master = target[u]
        BY <1>7, <3>1 DEF Own, Parents
      <4>2. pc[u] \in {"opened", "begun"} /\ req[u].op = "create" /\ target[u] \in Id
                => row'[target[u]].master = NoId /\ row'[target[u]].state # "free"
        BY <1>6, <3>1 DEF Own, Parents
      <4>3. QED
        BY <3>1, <4>1, <4>2 DEF Own, Parents, Unmoved, Known
    <3>5. SeriesHeld(u)'
      <4>1. ASSUME pc[u] \in {"replaced", "recorded"}, req[u].op = "put",
                   NEW i \in Id, Exists(row'[i]), row'[i].master = target[u]
            PROVE  i \in locks[u]
        <5>1. target[u] \in locks[u] /\ target[u] \in Id
          BY <3>1, <3>2, <4>1 DEF Writing
        <5>2. CASE i \in locks[t]
          <6>1. target[u] \in locks[t]
            BY <1>1, <1>4, <4>1, <5>1, <5>2, CommittedSeries
          <6>2. QED
            BY <5>1, <6>1 DEF SInv, IInv, LocksExclusive
        <5>3. CASE i \notin locks[t]
          BY <1>4, <3>1, <4>1, <5>3 DEF Own, SeriesHeld, OverridesOf
        <5>4. QED
          BY <5>2, <5>3
      <4>2. QED
        BY <3>1, <4>1 DEF Own, SeriesHeld, OverridesOf, Unmoved
    <3>6. Authored(u)'
      <4>1. pc[u] # "ok" => \A i \in Id : row'[i].author # u
        BY <1>4, <1>5, <3>1 DEF Own, Authored
      <4>2. QED
        BY <3>1, <4>1 DEF Own, Authored, Unmoved
    <3>7. EntryTrue(u)'
      BY <3>1, <3>2 DEF Own, EntryTrue, Unmoved, Writing
    <3>8. QED
      BY <3>3, <3>4, <3>5, <3>6, <3>7 DEF Own
  <2>3. QED
    BY <2>1, <2>2
<1>10. SeqsUnique'
  <2>1. SeqsUnique
    BY DEF SInv
  <2>2. /\ entry[t].seq < nextSeq
        /\ \A u \in Txn \ {t} : pc[u] = "recorded" => entry[u].seq # entry[t].seq
    BY <1>1, <2>1 DEF SeqsUnique
  <2>3. \A u \in Txn : pc'[u] = "recorded" => u # t /\ pc[u] = "recorded" /\ entry'[u] = entry[u]
    BY <1>3 DEF Unmoved
  <2>4. QED
    BY <1>1, <2>1, <2>2, <2>3 DEF SeqsUnique
<1>11. KeysReserved'
  <2>1. ASSUME NEW S \in SUBSET Txn, NEW i \in Id
        PROVE  Outcome(S, i)' \subseteq Outcome(S \cup {t}, i)
    BY <1>3, <1>4 DEF Outcome, Unmoved
  <2>2. SUFFICES ASSUME NEW S \in SUBSET Txn, NEW i \in Id, NEW j \in Id, i # j,
                        NEW r \in Outcome(S, i)', NEW s \in Outcome(S, j)'
                 PROVE  Apart(i, r, j, s)
    BY DEF KeysReserved
  <2>3. r \in Outcome(S \cup {t}, i) /\ s \in Outcome(S \cup {t}, j) /\ S \cup {t} \in SUBSET Txn
    BY <2>1
  <2>4. QED
    BY <2>2, <2>3 DEF SInv, KeysReserved
<1>12. QED
  BY <1>2, <1>8, <1>9, <1>10, <1>11 DEF SInv

-----------------------------------------------------------------------------
(* Retention and time. *)

LEMMA PurgeRowsSafe == ASSUME SInv, PurgeRows PROVE SInv'
<1>1. PICK cut \in 2..clock :
        /\ \A t \in Txn : locks[t] \cap Cascade(Expired(cut)) = {}
        /\ \A t \in Txn : \A i \in locks[t] : img[t][i].master \notin Cascade(Expired(cut))
        /\ row' = [i \in Id |-> IF i \in Cascade(Expired(cut))
                                  THEN [row[i] EXCEPT !.state = "gone"] ELSE row[i]]
  BY DEF PurgeRows
<1> DEFINE gone == Cascade(Expired(cut))
<1>2. UNCHANGED <<log, nextSeq, session>> /\ \A t \in Txn : Unmoved(t)
  BY DEF PurgeRows, session, Unmoved
<1>3. IInv'
  BY PurgeRowsStep DEF SInv
<1>4. \A i \in Id : /\ i \notin gone => row'[i] = row[i]
                    /\ i \in gone => ~Exists(row'[i]) /\ row'[i].state = "gone"
                    /\ row'[i].master = row[i].master /\ row'[i].href = row[i].href
                    /\ row'[i].author = row[i].author
  <2>1. TAKE i \in Id
  <2>2. row[i] \in Row
    BY DEF SInv, IInv, TypeOK
  <2>3. CASE i \in gone
    <3>1. row'[i] = [row[i] EXCEPT !.state = "gone"]
      BY <1>1, <2>3
    <3>2. QED
      BY <2>2, <2>3, <3>1, GoneRow
  <2>4. CASE i \notin gone
    BY <1>1, <2>4
  <2>5. QED
    BY <2>3, <2>4
<1>5. \A m \in Id : IsMaster(row[m]) /\ m \notin gone => IsMaster(row'[m])
  BY <1>4
<1>6. \A t \in Txn : \A i \in locks[t] :
        i \in Id /\ row'[i] = row[i] /\ img[t][i].master \notin gone
  BY <1>1, <1>4 DEF SInv, IInv, TypeOK
<1>7. Table'
  <2>1. ASSUME NEW i \in Id, Exists(row'[i]), row'[i].master \in Id
        PROVE  IsMaster(row'[row'[i].master])
    <3>1. i \notin gone /\ row'[i] = row[i] /\ IsMaster(row[row[i].master])
      BY <1>4, <2>1 DEF SInv, Table
    <3>2. row[i].master \notin Expired(cut)
      BY <2>1, <3>1 DEF Cascade, OverridesOf
    <3>3. ASSUME NEW x \in Expired(cut) PROVE row[i].master \notin OverridesOf(x)
      BY <3>1, SentinelAssumption DEF OverridesOf, IsMaster, Expired
    <3>4. row[i].master \notin gone
      BY <3>2, <3>3 DEF Cascade
    <3> HIDE DEF gone
    <3>5. QED
      BY <1>5, <2>1, <3>1, <3>4
  <2>2. QED
    BY <1>4, <2>1 DEF SInv, Table, Known
<1> HIDE DEF gone
<1>8. \A t \in Txn : Own(t)'
  <2>1. TAKE t \in Txn
  <2>2. Own(t) /\ Unmoved(t)
    BY <1>2 DEF SInv
  <2>3. pc[t] \in Writing => target[t] \in locks[t]
    BY TargetAtHand
  <2>4. Work(t)'
    BY <1>6, <2>2, <2>3, WorkFrame DEF Own
  <2>5. Parents(t)'
    <3>1. \A i \in locks[t] : Exists(img[t][i]) /\ img[t][i].master \in Id =>
              \/ IsMaster(row'[img[t][i].master])
              \/ req[t].op = "put" /\ img[t][i].master = target[t]
      BY <1>5, <1>6, <2>2 DEF Own, Parents
    <3>2. pc[t] \in {"opened", "begun"} /\ req[t].op = "create" /\ target[t] \in Id
              => row'[target[t]].master = NoId /\ row'[target[t]].state # "free"
      <4>1. \A m \in Id : row[m].state # "free" => row'[m].state # "free"
        BY <1>4
      <4>2. QED
        BY <1>4, <2>2, <4>1 DEF Own, Parents
    <3>3. QED
      BY <2>2, <3>1, <3>2 DEF Own, Parents, Unmoved, Known
  <2>6. SeriesHeld(t)'
    <3>1. \A i \in Id : Exists(row'[i]) => row'[i] = row[i]
      BY <1>4
    <3>2. OverridesOf(target[t])' \subseteq OverridesOf(target[t])
      BY <2>2, <3>1 DEF OverridesOf, Unmoved
    <3>3. QED
      BY <2>2, <3>2 DEF Own, SeriesHeld, Unmoved
  <2>7. Authored(t)'
    BY <1>4, <1>6, <2>2 DEF Own, Authored, Unmoved
  <2>8. EntryTrue(t)'
    BY <1>6, <2>2, <2>3 DEF Own, EntryTrue, Unmoved, Writing
  <2>9. QED
    BY <2>4, <2>5, <2>6, <2>7, <2>8 DEF Own
<1>9. SeqsUnique'
  BY <1>2, SeqsKept DEF Unmoved
<1>10. KeysReserved'
  <2>1. ASSUME NEW S \in SUBSET Txn, NEW i \in Id, NEW r, r \in Outcome(S, i)'
        PROVE  r \in Outcome(S, i) \/ ~Exists(r)
    BY <1>2, <1>4, <2>1 DEF Outcome, Unmoved
  <2>2. SUFFICES ASSUME NEW S \in SUBSET Txn, NEW i \in Id, NEW j \in Id, i # j,
                        NEW r, r \in Outcome(S, i)', NEW s, s \in Outcome(S, j)'
                 PROVE  Apart(i, r, j, s)
    BY DEF KeysReserved
  <2>3. CASE r \in Outcome(S, i) /\ s \in Outcome(S, j)
    BY <2>2, <2>3 DEF SInv, KeysReserved
  <2>4. CASE ~Exists(r) \/ ~Exists(s)
    BY <2>4 DEF Apart, Clash
  <2>5. QED
    BY <2>1, <2>2, <2>3, <2>4
<1>11. QED
  BY <1>3, <1>7, <1>8, <1>9, <1>10 DEF SInv

LEMMA UntouchedSafe ==
    ASSUME SInv, IInv', UNCHANGED <<row, nextSeq, session>>, log' \subseteq log
    PROVE  SInv'
<1>1. \A t \in Txn : Unmoved(t)
  BY DEF session, Unmoved
<1>2. \A t \in Txn : Own(t)'
  BY <1>1, BystanderOwn DEF SInv
<1>3. SeqsUnique'
  BY <1>1, SeqsKept DEF Unmoved
<1>4. Table' /\ KeysReserved'
  BY DEF SInv, Table, KeysReserved, Outcome, session
<1>5. QED
  BY <1>2, <1>3, <1>4 DEF SInv

-----------------------------------------------------------------------------
(* The inductive invariant. *)

LEMMA InitSafe == Init => SInv
<1>1. SUFFICES ASSUME Init PROVE SInv
  OBVIOUS
<1>2. IInv
  BY <1>1, InitInvariant
<1>3. Table
  BY <1>1, StoredKeysAssumption DEF Init, Table, Known
<1>4. ASSUME NEW t \in Txn PROVE Own(t)
  <2>1. pc[t] = "idle" /\ locks[t] = {}
    BY <1>1 DEF Init
  <2>2. \A i \in Id : row[i].author # t
    BY <1>1, StoredAssumption, SentinelAssumption DEF Init
  <2>3. QED
    BY <2>1, <2>2 DEF Own, Work, Writing, Parents, SeriesHeld, Authored, EntryTrue
<1>5. SeqsUnique
  BY <1>1, StoredAssumption DEF Init, SeqsUnique
<1>6. KeysReserved
  <2>1. ASSUME NEW S \in SUBSET Txn, NEW i \in Id PROVE Outcome(S, i) = {Stored[i]}
    BY <1>1 DEF Init, Outcome
  <2>2. QED
    BY <2>1, StoredKeysAssumption DEF KeysReserved, Apart
<1>7. QED
  BY <1>2, <1>3, <1>4, <1>5, <1>6 DEF SInv

LEMMA ServeSafe == ASSUME SInv, NEW t \in Txn, Serve(t) PROVE SInv'
<1>1. CASE Precheck(t) \/ Open(t) \/ RemoveFile(t) \/ Handle(t) \/ Begin(t)
  BY <1>1, PrecheckSafe, OpenSafe, RemoveFileSafe, HandleSafe, BeginSafe
<1>2. CASE EditById(t) \/ Insert(t)
  BY <1>2, EditByIdSafe, InsertSafe
<1>3. CASE AtHref(t) \/ ByUid(t) \/ UpdateMaster(t) \/ InsertMaster(t) \/ ReplaceOverrides(t)
  BY <1>3, AtHrefSafe, ByUidSafe, UpdateMasterSafe, InsertMasterSafe, ReplaceOverridesSafe
<1>4. CASE AppendChange(t) \/ Commit(t)
  BY <1>4, AppendChangeSafe, CommitSafe
<1>5. QED
  BY <1>1, <1>2, <1>3, <1>4 DEF Serve

LEMMA NextSafe == SInv /\ [Next]_vars => SInv'
<1>1. SUFFICES ASSUME SInv, [Next]_vars PROVE SInv'
  OBVIOUS
<1>2. IInv'
  BY <1>1, NextInvariant DEF SInv
<1>3. CASE \E t \in Txn : Send(t) \/ Serve(t)
  BY <1>1, <1>3, SendSafe, ServeSafe
<1>4. CASE \E t \in Txn : BreakDeadlock(t) \/ Crash(t)
  <2>1. PICK t \in Txn : BreakDeadlock(t) \/ Crash(t)
    BY <1>4
  <2>2. pc[t] # "ok" /\ Abort(t, "failed")
    <3>1. CASE Crash(t)
      BY <3>1 DEF Crash
    <3>2. CASE BreakDeadlock(t)
      <4>1. PICK S \in SUBSET Txn : t \in S /\ Waiting(S) /\ Abort(t, "failed")
        BY <3>2 DEF BreakDeadlock, Deadlocked
      <4>2. WaitsFor(t) # {}
        BY <4>1 DEF Waiting
      <4>3. QED
        BY <4>1, <4>2 DEF WaitsFor
    <3>3. QED
      BY <2>1, <3>1, <3>2
  <2>3. QED
    BY <1>1, <2>2, AbortSafe
<1>5. CASE PurgeRows
  BY <1>1, <1>5, PurgeRowsSafe
<1>6. CASE PurgeLog \/ Tick \/ UNCHANGED vars
  BY <1>1, <1>2, <1>6, UntouchedSafe DEF PurgeLog, Tick, vars, stored, session
<1>7. QED
  BY <1>1, <1>3, <1>4, <1>5, <1>6 DEF Next

(* The invariant the theorems below rest on, in every reachable state. *)
THEOREM SafetyInvariant == Spec => []SInv
BY InitSafe, NextSafe, PTL DEF Spec

LEMMA SafeKeysUnique == SInv => KeysUnique
<1>1. SUFFICES ASSUME SInv, NEW i \in Id, NEW j \in Id, i # j
               PROVE  Apart(i, row[i], j, row[j])
  BY DEF KeysUnique, Apart
<1>2. row[i] \in Outcome({}, i) /\ row[j] \in Outcome({}, j)
  BY OutcomeCases
<1>3. QED
  BY <1>1, <1>2 DEF SInv, KeysReserved

(* No two rows share a filename and no two masters a UID, soft-deleted rows *)
(* included, however the transactions overlap: whoever writes a row has     *)
(* asked the index and has waited for every writer that could clash.        *)
THEOREM UniqueKeys == Spec => []KeysUnique
BY SafetyInvariant, SafeKeysUnique, PTL

LEMMA PutCommitReplaces ==
    ASSUME SInv, NEW t \in Txn, Commit(t), req[t].op = "put",
           NEW i \in Id, Exists(row'[i]), row'[i].master = target[t]
    PROVE  row'[i].author = t
<1>1. /\ pc[t] = "recorded"
      /\ row' = [j \in Id |-> IF j \in locks[t] THEN img[t][j] ELSE row[j]]
  BY DEF Commit
<1>2. PutWork(t, target[t]) /\ target[t] \in Id
  BY <1>1, TargetAtHand DEF Writing
<1>3. CASE i \in locks[t]
  <2>1. row'[i] = img[t][i] /\ row[i] \in Row
    BY <1>1, <1>3 DEF SInv, IInv, TypeOK
  <2>2. CASE i = target[t]
    BY <1>2, <2>1, <2>2 DEF PutWork
  <2>3. CASE i # target[t]
    <3>1. img[t][i] # [row[i] EXCEPT !.state = "gone"]
      BY <2>1, GoneRow
    <3>2. ~(IsMaster(row[i]) /\ img[t][i] = row[i])
      BY <1>2, <2>1, SentinelAssumption DEF IsMaster
    <3>3. QED
      BY <1>2, <1>3, <2>1, <2>3, <3>1, <3>2 DEF PutWork
  <2>4. QED
    BY <2>2, <2>3
<1>4. CASE i \notin locks[t]
  <2>1. i \in OverridesOf(target[t])
    BY <1>1, <1>4 DEF OverridesOf
  <2>2. QED
    BY <1>1, <1>4, <2>1 DEF SInv, Own, SeriesHeld
<1>5. QED
  BY <1>3, <1>4

(* What the committing step of a transaction is. *)
LEMMA OnlyCommitCommits ==
    ASSUME SInv, [Next]_vars, NEW t \in Txn, Committing(t)
    PROVE  Commit(t)
<1>1. pc[t] = "recorded" /\ pc'[t] = "ok" /\ pc' # pc
  BY DEF Committing
<1>2. CASE \E u \in Txn : Commit(u)
  BY <1>1, <1>2 DEF Commit, End, SInv, IInv, TypeOK
<1>3. ASSUME NEW u \in Txn, ~Commit(u), Send(u) \/ Serve(u) \/ BreakDeadlock(u) \/ Crash(u)
      PROVE  pc'[t] # "ok" \/ pc[t] = "ok"
  <2>1. \E next : pc' = [pc EXCEPT ![u] = next] /\ next # "ok"
    <3>1. CASE \E outcome \in {"conflict", "not_found", "failed"} : Abort(u, outcome)
      BY <3>1 DEF Abort, End
    <3>2. CASE ~\E outcome \in {"conflict", "not_found", "failed"} : Abort(u, outcome)
      <4>1. CASE Send(u) \/ Precheck(u) \/ Open(u) \/ RemoveFile(u) \/ Handle(u) \/ Begin(u)
        BY <3>2, <4>1 DEF Send, Precheck, Open, RemoveFile, Handle, Begin, Goto
      <4>2. CASE EditById(u) \/ AtHref(u) \/ ByUid(u) \/ UpdateMaster(u)
        BY <3>2, <4>2 DEF EditById, AtHref, ByUid, UpdateMaster, Goto
      <4>3. CASE Insert(u) \/ InsertMaster(u) \/ ReplaceOverrides(u)
        BY <3>2, <4>3 DEF Insert, InsertMaster, ReplaceOverrides, Goto
      <4>4. CASE AppendChange(u) \/ BreakDeadlock(u) \/ Crash(u)
        BY <3>2, <4>4 DEF AppendChange, BreakDeadlock, Crash, Goto
      <4>5. QED
        BY <1>3, <4>1, <4>2, <4>3, <4>4 DEF Serve
    <3>3. QED
      BY <3>1, <3>2
  <2>2. QED
    BY <1>1, <2>1 DEF SInv, IInv, TypeOK
<1>4. CASE PurgeRows \/ PurgeLog \/ Tick \/ UNCHANGED vars
  BY <1>1, <1>4 DEF PurgeRows, PurgeLog, Tick, session, vars
<1>5. QED
  BY <1>1, <1>2, <1>3, <1>4 DEF Next

(* A PUT replaces the whole series: at its commit every override of the     *)
(* master comes from its body.  Nobody adds one meanwhile, because it takes *)
(* the lock of the master to commit an override.                            *)
THEOREM SeriesReplaced == Spec => PutReplacesSeries
<1>1. SInv /\ [Next]_vars =>
        [\A t \in Txn : Committing(t) /\ req[t].op = "put" =>
            \A i \in Id : Exists(row'[i]) /\ row'[i].master = target[t]
                            => row'[i].author = t]_vars
  BY OnlyCommitCommits, PutCommitReplaces
<1>2. QED
  BY <1>1, SafetyInvariant, PTL DEF PutReplacesSeries, Spec

-----------------------------------------------------------------------------
(* Refinement: every commit is one change of one resource. *)

LEMMA CommitRefines == ASSUME SInv, SInv', NEW t \in Txn, Commit(t) PROVE Atomic!Next
<1> DEFINE e == entry[t]
           k == target[t]
           m == img[t][k].master
<1>1. /\ pc[t] = "recorded" /\ log' = log \cup {e} /\ ctag' = ctag + 1
      /\ row' = [j \in Id |-> IF j \in locks[t] THEN img[t][j] ELSE row[j]]
  BY DEF Commit
<1>2. /\ k \in Id /\ k \in locks[t] /\ locks[t] \subseteq Id /\ e \in Change /\ e.id \in Id
      /\ req[t] \in Request /\ \A j \in Id : row[j] \in Row
      /\ req[t].op = "put" => PutWork(t, k)
      /\ req[t].op # "put" => EditWork(t, k)
      /\ Exists(img[t][k])
  <2>1. e \in Change /\ \A j \in Id : row[j] \in Row
    BY DEF SInv, IInv, TypeOK
  <2>2. e.id \in Id
    BY <2>1 DEF Change
  <2>3. QED
    BY <1>1, <2>1, <2>2, TargetAtHand, TargetExists DEF Writing
<1>3. \A j \in locks[t] : row'[j] = img[t][j]
  BY <1>1, <1>2
<1>4. \A j \in Id : j \notin locks[t] => row'[j] = row[j]
  BY <1>1
<1>5. \A d \in log : d.seq # e.seq
  BY <1>1 DEF SInv, SeqsUnique
<1>6. \A j \in Id : row[j].author # t
  BY <1>1 DEF SInv, Own, Authored
<1>7. IF m \in Id THEN e.id = m /\ e.op = "updated"
      ELSE e.id = k /\ e.op = Atomic!Transition(row[k], img[t][k])
  BY <1>1 DEF SInv, Own, EntryTrue
<1>8. m \in Id => /\ m \in locks[t] /\ m # k /\ req[t].op # "put"
                  /\ img[t][m] = [row[m] EXCEPT !.updated_at = at[t]]
  <2>1. SUFFICES ASSUME m \in Id
                 PROVE  /\ m \in locks[t] /\ m # k /\ req[t].op # "put"
                        /\ img[t][m] = [row[m] EXCEPT !.updated_at = at[t]]
    OBVIOUS
  <2>2. m \in locks[t] /\ IsMaster(img[t][m])
    BY <1>1, <1>2, <2>1, CommittedSeries
  <2>3. m # k
    <3>1. img[t][m].master = NoId
      BY <2>2 DEF IsMaster
    <3>2. QED
      BY <2>1, <3>1, SentinelAssumption
  <2>4. req[t].op # "put"
    BY <1>2, <2>1, SentinelAssumption DEF PutWork
  <2>5. QED
    BY <1>2, <2>2, <2>3, <2>4 DEF EditWork
<1> HIDE DEF e, k, m
<1>9. e.op = Atomic!Transition(row[e.id], row'[e.id])
  <2>1. CASE m \in Id
    <3>1. row[m] \in Row /\ row'[m] = [row[m] EXCEPT !.updated_at = at[t]]
      BY <1>2, <1>3, <1>8, <2>1
    <3>2. row'[m].state = row[m].state
      BY <3>1, StampedRow
    <3>3. QED
      BY <1>7, <2>1, <3>2 DEF Atomic!Transition, Atomic!Live
  <2>2. CASE m \notin Id
    BY <1>2, <1>3, <1>7, <2>2
  <2>3. QED
    BY <2>1, <2>2
<1>10. ASSUME NEW j \in Id, row'[j] # row[j] PROVE e.id \in {j, row[j].master, row'[j].master}
  <2>1. j \in locks[t] /\ row'[j] = img[t][j]
    BY <1>3, <1>4, <1>10
  <2>2. CASE req[t].op = "put" /\ j # k
    <3>1. e.id = k
      BY <1>7, <1>8, <2>2
    <3>2. CASE IsMaster(row[j]) /\ img[t][j] = row[j]
      BY <1>10, <2>1, <3>2
    <3>3. CASE row[j].master = k \/ img[t][j].master = k
      BY <2>1, <3>1, <3>3
    <3>4. QED
      BY <1>2, <2>1, <2>2, <3>2, <3>3 DEF PutWork
  <2>3. CASE req[t].op # "put" /\ j # k
    <3>1. j = m
      BY <1>2, <2>1, <2>3 DEF EditWork, m
    <3>2. QED
      BY <1>7, <3>1
  <2>4. CASE j = k
    BY <1>7, <2>1, <2>4 DEF m
  <2>5. QED
    BY <2>2, <2>3, <2>4
<1>11. Atomic!NewValidator(row[e.id], row'[e.id])
  <2>1. CASE m \in Id
    <3>1. row[m] \in Row /\ row'[m] = [row[m] EXCEPT !.updated_at = at[t]]
      BY <1>2, <1>3, <1>8, <2>1
    <3>2. row'[m].sequence = row[m].sequence /\ row'[m].author = row[m].author
      BY <3>1, StampedRow
    <3>3. QED
      BY <1>7, <2>1, <3>2 DEF Atomic!NewValidator
  <2>2. CASE m \notin Id
    <3>1. e.id = k /\ row'[k] = img[t][k]
      BY <1>2, <1>3, <1>7, <2>2
    <3>2. ASSUME Exists(row[k]), Live(img[t][k])
          PROVE  img[t][k].author = t /\ img[t][k].sequence > row[k].sequence
      <4>1. CASE req[t].op = "put"
        BY <1>2, <3>2, <4>1 DEF PutWork
      <4>2. CASE req[t].op = "create"
        BY <1>2, <3>2, <4>2 DEF EditWork, Exists
      <4>3. CASE req[t].op \notin {"put", "create"}
        <5>1. img[t][k] = Edited(t, row[k]) /\ row[k] \in Row
          BY <1>2, <4>3 DEF EditWork
        <5>2. req[t].op = "patch"
          BY <3>2, <5>1, EditedKeeps DEF Live
        <5>3. img[t][k].author = t /\ img[t][k].sequence = row[k].sequence + 1
          BY <5>1, <5>2, EditedKeeps
        <5>4. row[k].sequence \in Int
          BY <5>1, BoundAssumption DEF Row
        <5>5. QED
          BY <5>3, <5>4
      <4>4. QED
        BY <4>1, <4>2, <4>3
    <3>3. row[k].author # t
      BY <1>2, <1>6
    <3>4. QED
      BY <3>1, <3>2, <3>3 DEF Atomic!NewValidator, Atomic!Exists, Atomic!Live, Exists, Live
  <2>3. QED
    BY <2>1, <2>2
<1>12. Atomic!Unique(row')
  <2>1. KeysUnique'
    BY SafeKeysUnique, PTL
  <2>2. QED
    BY <2>1 DEF KeysUnique, Clash, Name, Exists, Atomic!Unique, Atomic!Exists, Atomic!Name
<1>13. Atomic!Change(e.id)
  BY <1>1, <1>5, <1>9, <1>10, <1>11, <1>12 DEF Atomic!Change
<1>14. QED
  BY <1>2, <1>13 DEF Atomic!Next

LEMMA PurgeRefines == ASSUME SInv, PurgeRows PROVE Atomic!Purge
<1>1. PICK cut \in 2..clock :
        row' = [i \in Id |-> IF i \in Cascade(Expired(cut))
                               THEN [row[i] EXCEPT !.state = "gone"] ELSE row[i]]
  BY DEF PurgeRows
<1>2. UNCHANGED <<log, ctag>>
  BY DEF PurgeRows
<1>3. ASSUME NEW j \in Id, row'[j] # row[j]
      PROVE  /\ ~Exists(row'[j])
             /\ \/ row[j].state = "deleted"
                \/ row[j].master \in Id /\ row[row[j].master].state = "deleted"
  <2>1. j \in Cascade(Expired(cut)) /\ row'[j] = [row[j] EXCEPT !.state = "gone"]
    BY <1>1, <1>3
  <2>2. row[j] \in Row
    BY DEF SInv, IInv, TypeOK
  <2>3. ~Exists(row'[j])
    BY <2>1, <2>2, GoneRow
  <2>4. j \in Expired(cut) \/ \E x \in Expired(cut) : j \in OverridesOf(x)
    BY <2>1 DEF Cascade
  <2>5. QED
    BY <2>3, <2>4 DEF Expired, OverridesOf
<1>4. QED
  BY <1>2, <1>3 DEF Atomic!Purge, Atomic!Exists, Exists

LEMMA StepRefines == SInv /\ SInv' /\ [Next]_vars => [Atomic!Next]_(Atomic!vars)
<1>1. SUFFICES ASSUME SInv, SInv', [Next]_vars PROVE Atomic!Next \/ UNCHANGED <<row, log, ctag>>
  BY DEF Atomic!vars
<1>2. CASE \E t \in Txn : Commit(t)
  BY <1>1, <1>2, CommitRefines
<1>3. ASSUME NEW t \in Txn, ~Commit(t), Send(t) \/ Serve(t) \/ BreakDeadlock(t) \/ Crash(t)
      PROVE  UNCHANGED <<row, log, ctag>>
  <2>1. CASE \E outcome : Abort(t, outcome)
    BY <2>1 DEF Abort, stored
  <2>2. CASE ~\E outcome : Abort(t, outcome)
    <3>1. CASE Send(t) \/ Precheck(t) \/ Open(t) \/ RemoveFile(t) \/ Handle(t) \/ Begin(t)
      BY <2>2, <3>1 DEF Send, Precheck, Open, RemoveFile, Handle, Begin, stored
    <3>2. CASE EditById(t) \/ AtHref(t) \/ ByUid(t) \/ UpdateMaster(t)
      BY <2>2, <3>2 DEF EditById, AtHref, ByUid, UpdateMaster, stored
    <3>3. CASE Insert(t) \/ InsertMaster(t) \/ ReplaceOverrides(t)
      BY <2>2, <3>3 DEF Insert, InsertMaster, ReplaceOverrides, stored
    <3>4. CASE AppendChange(t) \/ BreakDeadlock(t) \/ Crash(t)
      BY <2>2, <3>4 DEF AppendChange, BreakDeadlock, Crash, stored
    <3>5. QED
      BY <1>3, <3>1, <3>2, <3>3, <3>4 DEF Serve
  <2>3. QED
    BY <2>1, <2>2
<1>4. CASE PurgeRows
  BY <1>1, <1>4, PurgeRefines DEF Atomic!Next
<1>5. CASE PurgeLog
  BY <1>5 DEF PurgeLog, Atomic!Next, Atomic!Forget
<1>6. CASE Tick \/ UNCHANGED vars
  BY <1>6 DEF Tick, vars, stored
<1>7. QED
  BY <1>1, <1>2, <1>3, <1>4, <1>5, <1>6 DEF Next

(* Every behaviour of the transactions is a behaviour of the calendar that  *)
(* handles one change at a time: one resource and its validator, one entry  *)
(* that says what happened to it, one count in the ctag.                    *)
THEOREM StoreImplementsAtomic == Spec => ImplementsAtomic
<1>1. Init => Atomic!Init
  BY DEF Init, Atomic!Init
<1>2. QED
  BY <1>1, StepRefines, SafetyInvariant, PTL DEF Spec, ImplementsAtomic, Atomic!Spec

=============================================================================
