---------------------------- MODULE CalendarSyncProofs ----------------------------
(***************************************************************************)
(* Theorems of CalendarSync, for every calendar, every number of writers,  *)
(* every limit and every stored journal: the types of what the client      *)
(* holds, and that the journal loses no change in any other way than those *)
(* CalendarSync lists.                                                      *)
(***************************************************************************)
EXTENDS CalendarSync, CalendarStoreSafety, FiniteSetTheorems

(* The last entry of its event. *)
Newest(c) == \A d \in log : d.id = c.id => d.seq <= c.seq

(* The journal: numbers are unique, entries are about events and not about  *)
(* overrides, and a transaction about to commit has a newer number than any *)
(* entry of the event it holds.                                             *)
Numbered ==
    /\ IsFiniteSet(log)
    /\ \A c \in log : c.seq \in 1..nextSeq - 1
    /\ \A c, d \in log : c.seq = d.seq => c = d

OfEvents ==
    \A c \in log : row[c.id].state # "free" /\ (Exists(row[c.id]) => row[c.id].master = NoId)

EntryNewer(t) ==
    pc[t] = "recorded" =>
        /\ entry[t].seq \in 1..nextSeq - 1
        /\ \A c \in log : c.id = entry[t].id => c.seq < entry[t].seq

(* An id that was hard-deleted comes back as its own filename only. *)
Reinserted(t) ==
    pc[t] \in Writing /\ req[t].op = "put" /\ row[target[t]].state = "gone"
        => img[t][target[t]].href = NoHref

Journal == Numbered /\ OfEvents /\ \A t \in Txn : EntryNewer(t) /\ Reinserted(t)

(* A deletion is the last entry of an event that is live only if the purge  *)
(* has taken a newer one.                                                   *)
DeletionsTrue ==
    \A c \in log : c.op = "deleted" /\ c.seq >= horizon /\ Newest(c) => ~Live(row[c.id])

SyncInv == SyncTypeOK /\ Journal /\ DeletionsTrue /\ NothingElseLost

USE DEF Sent, Running, Ended

-----------------------------------------------------------------------------
(* Largest numbers. *)

LEMMA MaxOfBounded ==
    ASSUME NEW n \in Nat, NEW S \in SUBSET (0..n), S # {}
    PROVE  Max(S) \in S /\ \A x \in S : Max(S) >= x
<1> DEFINE T == {n - x : x \in S}
<1>1. T \subseteq Nat /\ T # {}
  OBVIOUS
<1>2. PICK y \in T : \A z \in T : ~(<<z, y>> \in OpToRel(<, Nat))
  BY <1>1, NatLessThanWellFounded, WFMin
<1>3. \A z \in T : ~(z < y)
  BY <1>1, <1>2 DEF OpToRel
<1>4. PICK x \in S : y = n - x
  BY <1>2
<1>5. ASSUME NEW w \in S PROVE x >= w
  <2>1. n - w \in T
    OBVIOUS
  <2>2. ~(n - w < n - x)
    BY <1>3, <1>4, <2>1
  <2>3. n \in Int /\ w \in Int /\ x \in Int
    OBVIOUS
  <2>4. QED
    BY <2>2, <2>3
<1>6. \E m \in S : \A w \in S : m >= w
  BY <1>5
<1>7. QED
  BY <1>6 DEF Max

LEMMA LogTyped ==
    ASSUME TypeOK
    PROVE  /\ nextSeq \in Nat /\ \A c \in log : c \in Change /\ c.seq \in Nat /\ c.id \in Id
           /\ \A i \in Id : row[i] \in Row
           /\ \A t \in Txn : entry[t] \in Change /\ entry[t].seq \in Nat /\ entry[t].id \in Id
BY DEF TypeOK, Change

LEMMA CurrentIsLargest ==
    ASSUME Numbered, nextSeq \in Nat \ {0}
    PROVE  Current \in 0..nextSeq - 1 /\ \A c \in log : c.seq <= Current
<1>1. CASE log = {}
  BY <1>1 DEF Current
<1>2. CASE log # {}
  <2> DEFINE S == {c.seq : c \in log}
  <2>1. S \in SUBSET (0..nextSeq - 1) /\ S # {} /\ nextSeq - 1 \in Nat
    BY <1>2 DEF Numbered
  <2> HIDE DEF S
  <2>2. Max(S) \in S /\ \A x \in S : Max(S) >= x
    BY <2>1, MaxOfBounded
  <2>3. Current = Max(S)
    BY <1>2 DEF Current, S
  <2>4. \A c \in log : c.seq \in S
    BY DEF S
  <2>5. QED
    BY <2>1, <2>2, <2>3, <2>4
<1>3. QED
  BY <1>1, <1>2

LEMMA LargestEntry ==
    ASSUME Numbered, nextSeq \in Nat, NEW entries \in SUBSET log, entries # {}
    PROVE  \E m \in entries : \A d \in entries : d.seq <= m.seq
<1> DEFINE S == {c.seq : c \in entries}
<1>1. S \in SUBSET (0..nextSeq - 1) /\ S # {} /\ nextSeq - 1 \in Nat
  BY DEF Numbered
<1> HIDE DEF S
<1>2. Max(S) \in S /\ \A x \in S : Max(S) >= x
  BY <1>1, MaxOfBounded
<1>3. PICK m \in entries : m.seq = Max(S)
  BY <1>2 DEF S
<1>4. ASSUME NEW d \in entries PROVE d.seq <= m.seq
  <2>1. Max(S) >= d.seq
    BY <1>2 DEF S
  <2>2. d.seq \in Int /\ m.seq \in Int
    BY DEF Numbered
  <2>3. QED
    BY <1>3, <2>1, <2>2
<1>5. QED
  BY <1>4

(* Every event with an entry has a last one. *)
LEMMA NewestExists ==
    ASSUME Numbered, nextSeq \in Nat, NEW c \in log
    PROVE  \E m \in log : m.id = c.id /\ m.seq >= c.seq /\ Newest(m)
<1> DEFINE entries == {d \in log : d.id = c.id}
<1>1. entries \in SUBSET log /\ c \in entries
  OBVIOUS
<1> HIDE DEF entries
<1>2. PICK m \in entries : \A d \in entries : d.seq <= m.seq
  BY <1>1, LargestEntry
<1>3. m \in log /\ m.id = c.id /\ c.seq <= m.seq
  BY <1>1, <1>2 DEF entries
<1>4. c.seq \in Int /\ m.seq \in Int
  BY <1>3 DEF Numbered
<1>5. QED
  BY <1>2, <1>3, <1>4 DEF entries, Newest

LEMMA LatestIsNewest ==
    ASSUME NEW since
    PROVE  Latest(since) = {c \in log : c.seq > since /\ Newest(c)}
BY DEF Latest, Newest

-----------------------------------------------------------------------------
(* Steps of the writers. *)

(* What a transaction that does not commit can do to what is stored. *)
LEMMA WriterFrame ==
    ASSUME TypeOK, NEW t \in Txn, ~Commit(t),
           Send(t) \/ Serve(t) \/ BreakDeadlock(t) \/ Crash(t)
    PROVE  /\ UNCHANGED <<row, log>>
           /\ nextSeq' = nextSeq \/ nextSeq' = nextSeq + 1
           /\ \A u \in Txn \ {t} : Unmoved(u)
           /\ pc'[t] = "recorded" => AppendChange(t)
<1>1. CASE \E outcome \in Ended : Abort(t, outcome)
  BY <1>1 DEF Abort, End, stored, Unmoved, TypeOK
<1>2. CASE ~\E outcome \in Ended : Abort(t, outcome)
  <2>1. CASE Send(t) \/ Precheck(t)
    BY <1>2, <2>1 DEF Send, Precheck, Goto, stored, context, Unmoved, TypeOK
  <2>2. CASE Open(t) \/ RemoveFile(t)
    BY <1>2, <2>2 DEF Open, RemoveFile, Goto, stored, context, Unmoved, TypeOK
  <2>3. CASE Handle(t) \/ Begin(t)
    BY <1>2, <2>3 DEF Handle, Begin, Goto, stored, context, Unmoved, TypeOK
  <2>4. CASE EditById(t) \/ AtHref(t)
    BY <1>2, <2>4 DEF EditById, AtHref, Write, Goto, stored, context, Unmoved, TypeOK
  <2>5. CASE ByUid(t) \/ UpdateMaster(t)
    BY <1>2, <2>5 DEF ByUid, UpdateMaster, Write, Goto, stored, context, Unmoved, TypeOK
  <2>6. CASE Insert(t) \/ InsertMaster(t)
    BY <1>2, <2>6 DEF Insert, InsertMaster, Write, Goto, stored, context, Unmoved, TypeOK
  <2>7. CASE ReplaceOverrides(t)
    BY <1>2, <2>7 DEF ReplaceOverrides, Goto, stored, context, Unmoved, TypeOK
  <2>8. CASE AppendChange(t)
    BY <1>2, <2>8 DEF AppendChange, Write, Goto, stored, context, Unmoved, TypeOK
  <2>9. CASE BreakDeadlock(t) \/ Crash(t)
    BY <1>2, <2>9 DEF BreakDeadlock, Crash
  <2>10. QED
    BY <2>1, <2>2, <2>3, <2>4, <2>5, <2>6, <2>7, <2>8, <2>9 DEF Serve
<1>3. QED
  BY <1>1, <1>2

LEMMA ReinsertedStep ==
    ASSUME SInv, NEW t \in Txn, Reinserted(t), ~Commit(t),
           Send(t) \/ Serve(t) \/ BreakDeadlock(t) \/ Crash(t)
    PROVE  Reinserted(t)'
<1> TypeOK
  BY DEF SInv, IInv
<1> UNCHANGED row
  BY WriterFrame
<1>1. CASE \E outcome \in Ended : Abort(t, outcome)
  <2>1. pc'[t] \notin Writing
    BY <1>1 DEF Abort, End, TypeOK, Writing
  <2>2. QED
    BY <2>1 DEF Reinserted
<1>2. CASE ~\E outcome \in Ended : Abort(t, outcome)
  <2>1. CASE Send(t) \/ Precheck(t) \/ Open(t) \/ RemoveFile(t) \/ Handle(t) \/ Begin(t)
             \/ AtHref(t) \/ ByUid(t)
    <3>1. pc'[t] \notin Writing
      BY <1>2, <2>1 DEF Send, Precheck, Open, RemoveFile, Handle, Begin, AtHref, ByUid, Goto,
                        TypeOK, Writing
    <3>2. QED
      BY <3>1 DEF Reinserted
  <2>2. CASE EditById(t) \/ Insert(t)
    <3>1. req' = req /\ req[t].op # "put"
      BY <1>2, <2>2 DEF EditById, Insert, context
    <3>2. QED
      BY <3>1 DEF Reinserted
  <2>3. CASE UpdateMaster(t)
    <3>1. pc[t] = "decided" /\ target[t] # NoId /\ target' = target
      BY <1>2, <2>3 DEF UpdateMaster
    <3>2. Exists(row[target[t]])
      BY <3>1 DEF SInv, IInv, Targeted
    <3>3. QED
      BY <3>1, <3>2 DEF Reinserted, Exists
  <2>4. CASE InsertMaster(t)
    <3> DEFINE h == req[t].href
               canonical == h \in Id /\ ~Exists(row[h])
               r == [NoRow EXCEPT !.state = "live", !.uid = req[t].uid,
                                  !.href = IF canonical THEN NoHref ELSE h,
                                  !.updated_at = at[t], !.author = t]
    <3>1. PICK i \in IF canonical THEN {h} ELSE FreshIds \ {h} :
            Write(t, i, r) /\ target' = [target EXCEPT ![t] = i]
      BY <1>2, <2>4 DEF InsertMaster
    <3>2. r.href = IF canonical THEN NoHref ELSE h
      BY DEF NoRow
    <3> HIDE DEF r
    <3>3. ~canonical => row[i].state = "free"
      BY <3>1 DEF FreshIds, Unused
    <3>4. i \in Id
      BY <3>1 DEF FreshIds, Unused
    <3>5. target'[t] = i /\ img'[t][i] = r
      BY <3>1, <3>4 DEF Write, TypeOK
    <3>6. QED
      BY <3>2, <3>3, <3>5 DEF Reinserted
  <2>5. CASE ReplaceOverrides(t)
    <3> DEFINE images(added) ==
                 [j \in Id |-> CASE j \in added -> NewOverride(t)
                                 [] j \in OverridesOf(target[t]) -> [row[j] EXCEPT !.state = "gone"]
                                 [] OTHER -> img[t][j]]
               Leave(added) == img' = [img EXCEPT ![t] = images(added)]
    <3>1. PICK added \in SUBSET FreshIds : img' = [img EXCEPT ![t] = images(added)]
      <4>1. Leave({}) \/ \E j \in FreshIds : Leave({j})
        BY <1>2, <2>5 DEF ReplaceOverrides
      <4> HIDE DEF Leave
      <4>2. \A j \in FreshIds : {j} \in SUBSET FreshIds
        OBVIOUS
      <4>3. \E added \in SUBSET FreshIds : Leave(added)
        BY <4>1, <4>2
      <4>4. QED
        BY <4>3 DEF Leave
    <3>2. pc[t] \in Writing /\ target' = target /\ req' = req
      BY <1>2, <2>5 DEF ReplaceOverrides, context, Writing
    <3>3. target[t] \in Id
      BY <3>2, TargetAtHand
    <3>4. ASSUME row[target[t]].state = "gone" PROVE img'[t][target[t]] = img[t][target[t]]
      <4>1. target[t] \notin added /\ target[t] \notin OverridesOf(target[t])
        BY <3>1, <3>4 DEF FreshIds, Unused, OverridesOf, Exists
      <4>2. QED
        BY <3>1, <3>3, <4>1 DEF TypeOK
    <3>5. QED
      BY <3>2, <3>4 DEF Reinserted
  <2>6. CASE AppendChange(t)
    <3>1. pc[t] \in Writing /\ target' = target /\ req' = req
      BY <1>2, <2>6 DEF AppendChange, context, Writing
    <3>2. target[t] \in Id
      BY <3>1, TargetAtHand
    <3>3. img' = img \/ \E m \in Id : Exists(row[m])
                           /\ img' = [img EXCEPT ![t][m] = [row[m] EXCEPT !.updated_at = at[t]]]
      BY <1>2, <2>6 DEF AppendChange, Write
    <3>4. row[target[t]].state = "gone" => img'[t][target[t]] = img[t][target[t]]
      BY <3>2, <3>3 DEF TypeOK, Exists
    <3>5. QED
      BY <3>1, <3>4 DEF Reinserted
  <2>7. CASE BreakDeadlock(t) \/ Crash(t)
    BY <1>2, <2>7 DEF BreakDeadlock, Crash
  <2>8. QED
    BY <2>1, <2>2, <2>3, <2>4, <2>5, <2>6, <2>7 DEF Serve
<1>3. QED
  BY <1>1, <1>2

(* A transaction's number, taken with its entry, is the largest so far. *)
LEMMA EntryNewerStep ==
    ASSUME SInv, Numbered, NEW t \in Txn, EntryNewer(t), ~Commit(t), nextSeq \in Nat \ {0},
           Send(t) \/ Serve(t) \/ BreakDeadlock(t) \/ Crash(t)
    PROVE  EntryNewer(t)'
<1> TypeOK
  BY DEF SInv, IInv
<1>1. UNCHANGED log /\ (pc'[t] = "recorded" => AppendChange(t))
  BY WriterFrame
<1>2. CASE AppendChange(t)
  <2>1. /\ nextSeq' = nextSeq + 1
        /\ \E i, op : entry' = [entry EXCEPT ![t] =
                                  [seq |-> nextSeq, id |-> i, op |-> op, at |-> at[t]]]
    BY <1>2 DEF AppendChange
  <2>2. entry'[t].seq = nextSeq
    BY <2>1 DEF TypeOK
  <2>3. \A c \in log : c.seq < nextSeq
    BY DEF Numbered
  <2>4. QED
    BY <1>1, <2>1, <2>2, <2>3 DEF EntryNewer
<1>3. QED
  BY <1>1, <1>2 DEF EntryNewer

LEMMA WriterKeepsJournal ==
    ASSUME SInv, Journal, NEW t \in Txn, ~Commit(t), nextSeq \in Nat \ {0},
           Send(t) \/ Serve(t) \/ BreakDeadlock(t) \/ Crash(t)
    PROVE  Journal'
<1>1. /\ UNCHANGED <<row, log>> /\ nextSeq' \in Nat /\ nextSeq' >= nextSeq
      /\ \A u \in Txn \ {t} : Unmoved(u)
  BY WriterFrame DEF SInv, IInv
<1>2. Numbered' /\ OfEvents'
  BY <1>1 DEF Journal, Numbered, OfEvents
<1>3. ASSUME NEW u \in Txn PROVE EntryNewer(u)' /\ Reinserted(u)'
  <2>1. CASE u = t
    BY <2>1, EntryNewerStep, ReinsertedStep DEF Journal
  <2>2. CASE u # t
    BY <1>1, <2>2 DEF Journal, EntryNewer, Reinserted, Unmoved
  <2>3. QED
    BY <2>1, <2>2
<1>4. QED
  BY <1>2, <1>3 DEF Journal

(* What a commit changes: the event its entry is about and, of the other    *)
(* rows, overrides alone.                                                   *)
OverrideChanged(j) ==
    /\ ~IsMaster(row[j]) /\ ~IsMaster(row'[j]) /\ row'[j].state # "free"
    /\ row[j].state = "free" \/ (Exists(row[j]) /\ row[j].master # NoId)

LEMMA CommitChanges ==
    ASSUME SInv, NEW t \in Txn, Commit(t)
    PROVE  /\ entry[t].id \in Id /\ entry[t].id \in locks[t]
           /\ IsMaster(row'[entry[t].id])
           /\ entry[t].op = "deleted" => ~Live(row'[entry[t].id])
           /\ \A j \in Id \ {entry[t].id} : row'[j] = row[j] \/ OverrideChanged(j)
<1> DEFINE e == entry[t]
           k == target[t]
           m == img[t][k].master
<1>1. /\ pc[t] = "recorded"
      /\ row' = [j \in Id |-> IF j \in locks[t] THEN img[t][j] ELSE row[j]]
  BY DEF Commit
<1>2. /\ k \in Id /\ k \in locks[t] /\ locks[t] \subseteq Id /\ e.id \in Id
      /\ \A j \in Id : row[j] \in Row /\ img[t][j] \in Row
      /\ req[t].op = "put" => PutWork(t, k)
      /\ req[t].op # "put" => EditWork(t, k)
      /\ Exists(img[t][k])
  <2>1. e.id \in Id /\ \A j \in Id : row[j] \in Row
    BY LogTyped DEF SInv, IInv
  <2>2. QED
    BY <1>1, <2>1, TargetAtHand, TargetExists DEF Writing
<1>3. \A j \in locks[t] : row'[j] = img[t][j]
  BY <1>1, <1>2
<1>4. \A j \in Id : j \notin locks[t] => row'[j] = row[j]
  BY <1>1
<1>5. IF m \in Id THEN e.id = m /\ e.op = "updated"
      ELSE e.id = k /\ e.op = Atomic!Transition(row[k], img[t][k])
  BY <1>1 DEF SInv, Own, EntryTrue
<1>6. m \in Id \/ m = NoId
  BY <1>2 DEF Row
<1>7. m \in Id => m \in locks[t] /\ m # k /\ IsMaster(img[t][m])
  <2>1. SUFFICES ASSUME m \in Id PROVE m \in locks[t] /\ m # k /\ IsMaster(img[t][m])
    OBVIOUS
  <2>2. m \in locks[t] /\ IsMaster(img[t][m])
    BY <1>1, <1>2, <2>1, CommittedSeries
  <2>3. m # k
    <3>1. img[t][m].master = NoId
      BY <2>2 DEF IsMaster
    <3>2. QED
      BY <2>1, <3>1, SentinelAssumption
  <2>4. QED
    BY <2>2, <2>3
<1> HIDE DEF e, k
<1>8. e.id \in locks[t] /\ IsMaster(row'[e.id])
  <2>1. CASE m \in Id
    BY <1>3, <1>5, <1>7, <2>1
  <2>2. CASE m \notin Id
    BY <1>2, <1>3, <1>5, <1>6, <2>2 DEF IsMaster
  <2>3. QED
    BY <2>1, <2>2
<1>9. e.op = "deleted" => ~Live(row'[e.id])
  BY <1>2, <1>3, <1>5 DEF Atomic!Transition, Atomic!Live, Live
<1>10. ASSUME NEW j \in Id \ {e.id}, row'[j] # row[j] PROVE OverrideChanged(j)
  <2>1. j \in locks[t] /\ row'[j] = img[t][j]
    BY <1>3, <1>4, <1>10
  <2>2. CASE req[t].op = "put" /\ j # k
    <3>1. CASE IsMaster(row[j]) /\ img[t][j] = row[j]
      BY <1>10, <2>1, <3>1
    <3>2. CASE Exists(row[j]) /\ row[j].master = k /\ img[t][j] = [row[j] EXCEPT !.state = "gone"]
      <4>1. ~Exists(row'[j]) /\ row'[j].state = "gone"
        BY <1>2, <2>1, <3>2, GoneRow
      <4>2. QED
        BY <1>2, <3>2, <4>1, SentinelAssumption DEF OverrideChanged, IsMaster
    <3>3. CASE row[j].state = "free" /\ Live(img[t][j]) /\ img[t][j].master = k
      BY <1>2, <2>1, <3>3, SentinelAssumption DEF OverrideChanged, IsMaster, Exists, Live
    <3>4. QED
      BY <1>2, <2>1, <2>2, <3>1, <3>2, <3>3 DEF PutWork
  <2>3. CASE req[t].op # "put" /\ j # k
    <3>1. j = m
      BY <1>2, <2>1, <2>3 DEF EditWork
    <3>2. QED
      BY <1>5, <1>10, <3>1
  <2>4. CASE j = k
    <3>1. m \in Id /\ m # NoId
      BY <1>5, <1>10, <2>4, SentinelAssumption
    <3>2. req[t].op # "put"
      BY <1>2, <3>1 DEF PutWork
    <3>3. CASE req[t].op = "create"
      BY <1>2, <2>1, <2>4, <3>1, <3>2, <3>3 DEF EditWork, OverrideChanged, IsMaster, Exists, Live
    <3>4. CASE req[t].op # "create"
      <4>1. Live(row[k]) /\ img[t][k] = Edited(t, row[k]) /\ row[k] \in Row
        BY <1>2, <3>2, <3>4 DEF EditWork
      <4>2. row[k].master = m
        BY <4>1, EditedKeeps
      <4>3. QED
        BY <1>2, <2>1, <2>4, <3>1, <4>1, <4>2 DEF OverrideChanged, IsMaster, Exists, Live
    <3>5. QED
      BY <3>3, <3>4
  <2>5. QED
    BY <2>2, <2>3, <2>4
<1>11. QED
  BY <1>2, <1>8, <1>9, <1>10 DEF e

LEMMA EntryLocked ==
    ASSUME SInv, NEW t \in Txn, pc[t] = "recorded"
    PROVE  entry[t].id \in locks[t] /\ entry[t].id \in Id
<1>1. target[t] \in locks[t] /\ locks[t] \subseteq Id
  BY TargetAtHand DEF Writing
<1>2. CASE img[t][target[t]].master \in Id
  <2>1. img[t][target[t]].master \in locks[t]
    BY <1>1, <1>2, TargetExists, CommittedSeries DEF Writing
  <2>2. QED
    BY <1>1, <1>2, <2>1 DEF SInv, Own, EntryTrue
<1>3. CASE img[t][target[t]].master \notin Id
  BY <1>1, <1>3 DEF SInv, Own, EntryTrue
<1>4. QED
  BY <1>2, <1>3

LEMMA CommitKeepsJournal ==
    ASSUME SInv, Journal, NEW t \in Txn, Commit(t)
    PROVE  Journal'
<1> DEFINE e == entry[t]
<1>1. /\ pc[t] = "recorded" /\ pc'[t] = "ok" /\ log' = log \cup {e} /\ nextSeq' = nextSeq
      /\ \A u \in Txn \ {t} : Unmoved(u)
      /\ row' = [j \in Id |-> IF j \in locks[t] THEN img[t][j] ELSE row[j]]
  BY DEF Commit, End, Unmoved, SInv, IInv, TypeOK
<1>2. /\ e.id \in Id /\ e.id \in locks[t] /\ IsMaster(row'[e.id])
      /\ \A j \in Id \ {e.id} : row'[j] = row[j] \/ OverrideChanged(j)
  BY CommitChanges
<1>3. e.seq \in 1..nextSeq - 1 /\ \A c \in log : c.seq # e.seq
  BY <1>1 DEF Journal, EntryNewer, SInv, SeqsUnique
<1>4. Numbered'
  <2>1. IsFiniteSet(log \cup {e})
    BY FS_AddElement DEF Journal, Numbered
  <2>2. QED
    BY <1>1, <1>3, <2>1 DEF Journal, Numbered
<1>5. OfEvents'
  <2>1. SUFFICES ASSUME NEW c \in log'
                 PROVE  /\ row'[c.id].state # "free"
                        /\ Exists(row'[c.id]) => row'[c.id].master = NoId
    BY DEF OfEvents
  <2>2. CASE c.id = e.id
    BY <1>2, <2>2 DEF IsMaster, Exists
  <2>3. CASE c.id # e.id
    <3>1. c \in log /\ c.id \in Id
      BY <1>1, <2>1, <2>3, LogTyped DEF SInv, IInv
    <3>2. row[c.id].state # "free" /\ (Exists(row[c.id]) => row[c.id].master = NoId)
      BY <3>1 DEF Journal, OfEvents
    <3>3. row'[c.id] = row[c.id]
      BY <1>2, <2>3, <3>1, <3>2 DEF OverrideChanged
    <3>4. QED
      BY <3>2, <3>3
  <2>4. QED
    BY <2>2, <2>3
<1> HIDE DEF e
<1>6. ASSUME NEW u \in Txn \ {t} PROVE EntryNewer(u)' /\ Reinserted(u)'
  <2>1. locks[u] \cap locks[t] = {}
    BY DEF SInv, IInv, LocksExclusive
  <2>2. EntryNewer(u)'
    <3>1. SUFFICES ASSUME pc[u] = "recorded"
                   PROVE  \A c \in log' : c.id = entry[u].id => c.seq < entry[u].seq
      BY <1>1 DEF Journal, EntryNewer, Unmoved
    <3>2. entry[u].id # e.id
      BY <1>2, <2>1, <3>1, EntryLocked
    <3>3. QED
      BY <1>1, <3>1, <3>2 DEF Journal, EntryNewer
  <2>3. Reinserted(u)'
    <3>1. SUFFICES ASSUME pc[u] \in Writing PROVE row'[target[u]] = row[target[u]]
      BY <1>1 DEF Journal, Reinserted, Unmoved
    <3>2. target[u] \in locks[u] /\ target[u] \in Id
      BY <3>1, TargetAtHand
    <3>3. QED
      BY <1>1, <2>1, <3>2
  <2>4. QED
    BY <2>2, <2>3
<1>7. EntryNewer(t)' /\ Reinserted(t)'
  BY <1>1 DEF EntryNewer, Reinserted, Writing
<1>8. QED
  BY <1>4, <1>5, <1>6, <1>7 DEF Journal

(* The purge of the rows: live masters stay, and every row that changes is  *)
(* gone.                                                                    *)
LEMMA PurgeChanges ==
    ASSUME SInv, PurgeRows, NEW j \in Id, row'[j] # row[j]
    PROVE  /\ row'[j].state = "gone" /\ ~Exists(row'[j])
           /\ ~(Live(row[j]) /\ row[j].master = NoId)
           /\ Exists(row[j]) /\ \A t \in Txn : j \notin locks[t]
<1>1. PICK cut \in 2..clock :
        /\ row' = [i \in Id |-> IF i \in Cascade(Expired(cut))
                                  THEN [row[i] EXCEPT !.state = "gone"] ELSE row[i]]
        /\ \A t \in Txn : locks[t] \cap Cascade(Expired(cut)) = {}
  BY DEF PurgeRows
<1>2. j \in Cascade(Expired(cut)) /\ row'[j] = [row[j] EXCEPT !.state = "gone"]
  BY <1>1
<1>3. row[j] \in Row
  BY LogTyped DEF SInv, IInv
<1>4. row'[j].state = "gone" /\ ~Exists(row'[j])
  BY <1>2, <1>3, GoneRow
<1>5. j \in Expired(cut) \/ \E x \in Expired(cut) : j \in OverridesOf(x)
  BY <1>2 DEF Cascade
<1>6. ~(Live(row[j]) /\ row[j].master = NoId) /\ Exists(row[j])
  BY <1>5, SentinelAssumption DEF Expired, OverridesOf, Live, Exists
<1>7. QED
  BY <1>1, <1>2, <1>4, <1>6

LEMMA PurgeKeepsJournal ==
    ASSUME SInv, Journal, PurgeRows
    PROVE  Journal'
<1>1. UNCHANGED <<log, nextSeq, session>>
  BY DEF PurgeRows
<1>2. Numbered' /\ \A t \in Txn : EntryNewer(t)'
  BY <1>1 DEF Journal, Numbered, EntryNewer, session
<1>3. OfEvents'
  <2>1. \A c \in log : c.id \in Id
    BY LogTyped DEF SInv, IInv
  <2>2. QED
    BY <1>1, <2>1, PurgeChanges DEF Journal, OfEvents
<1>4. ASSUME NEW t \in Txn PROVE Reinserted(t)'
  <2>1. SUFFICES ASSUME pc[t] \in Writing PROVE row'[target[t]] = row[target[t]]
    BY <1>1 DEF Journal, Reinserted, session
  <2>2. target[t] \in locks[t] /\ target[t] \in Id
    BY <2>1, TargetAtHand
  <2>3. QED
    BY <2>2, PurgeChanges
<1>5. QED
  BY <1>2, <1>3, <1>4 DEF Journal

LEMMA ShorterJournal ==
    ASSUME Journal, log' \subseteq log, UNCHANGED <<row, nextSeq, session>>
    PROVE  Journal'
<1>1. IsFiniteSet(log')
  BY FS_Subset DEF Journal, Numbered
<1>2. QED
  BY <1>1 DEF Journal, Numbered, OfEvents, EntryNewer, Reinserted, session

-----------------------------------------------------------------------------
(* Types of what the client holds. *)

LEMMA NameTyped ==
    ASSUME NEW table, NEW i \in Id, table[i] \in Row
    PROVE  NameIn(table, i) \in Names
BY DEF NameIn, Name, Names, Row

LEMMA ReportedTyped ==
    ASSUME TypeOK, NEW c \in log
    PROVE  Reported(c) \in Version \cup {NoVersion}
<1>1. row[c.id] \in Row
  BY LogTyped
<1>2. VersionOf(row[c.id]) \in Version
  BY <1>1, VersionTyped
<1>3. NoEtag \in Version
  BY BoundAssumption DEF NoEtag, Version
<1>4. QED
  BY <1>2, <1>3 DEF Reported

LEMMA HorizonMoves ==
    ASSUME SyncTypeOK, Numbered, nextSeq \in Nat, Store
    PROVE  /\ horizon' \in 0..nextSeq - 1 /\ horizon' >= horizon
           /\ \A c \in log \ log' : c.seq <= horizon'
<1> DEFINE S == {horizon} \cup {c.seq : c \in log \ log'}
<1>1. S \in SUBSET (0..nextSeq - 1) /\ nextSeq - 1 \in Nat /\ horizon \in S
  BY DEF SyncTypeOK, Numbered
<1>2. horizon' = Max(S) /\ \A c \in log \ log' : c.seq \in S
  BY DEF Store
<1> HIDE DEF S
<1>3. Max(S) \in S /\ \A x \in S : Max(S) >= x
  BY <1>1, MaxOfBounded
<1>4. QED
  BY <1>1, <1>2, <1>3

LEMMA SelectedReported ==
    ASSUME NEW limit
    PROVE  Selected(Latest(token), limit) \subseteq Latest(token) /\ Latest(token) \subseteq log
BY DEF Selected, First, Latest

(* The first entries of a page: there are some, and whoever is left out has *)
(* a larger number than all of them.                                        *)
LEMMA FirstOfPage ==
    ASSUME Numbered, nextSeq \in Nat, NEW changes \in SUBSET log, NEW n \in Nat \ {0},
           changes # {}
    PROVE  /\ First(changes, n) # {}
           /\ \A c \in First(changes, n), d \in changes \ First(changes, n) : c.seq < d.seq
<1> DEFINE Before(c) == {d \in changes : d.seq < c.seq}
<1>1. IsFiniteSet(changes)
  BY FS_Subset DEF Numbered
<1>2. \A c \in changes : IsFiniteSet(Before(c)) /\ Cardinality(Before(c)) \in Nat
  BY <1>1, FS_Subset, FS_CardinalityType
<1>3. First(changes, n) # {}
  <2> DEFINE S == {nextSeq - c.seq : c \in changes}
  <2>1. S \in SUBSET (0..nextSeq) /\ S # {}
    BY DEF Numbered
  <2> HIDE DEF S
  <2>2. Max(S) \in S /\ \A x \in S : Max(S) >= x
    BY <2>1, MaxOfBounded
  <2>3. PICK c \in changes : Max(S) = nextSeq - c.seq
    BY <2>2 DEF S
  <2>4. \A d \in changes : ~(d.seq < c.seq)
    <3>1. SUFFICES ASSUME NEW d \in changes PROVE ~(d.seq < c.seq)
      OBVIOUS
    <3>2. nextSeq - d.seq \in S
      BY DEF S
    <3>3. nextSeq - c.seq >= nextSeq - d.seq
      BY <2>2, <2>3, <3>2
    <3>4. c.seq \in Int /\ d.seq \in Int
      BY DEF Numbered
    <3>5. QED
      BY <3>3, <3>4
  <2>5. Before(c) = {}
    BY <2>4
  <2>6. Cardinality(Before(c)) = 0
    BY <2>5, FS_EmptySet
  <2>7. QED
    BY <2>6 DEF First
<1>4. ASSUME NEW c \in First(changes, n), NEW d \in changes \ First(changes, n), d.seq <= c.seq
      PROVE  FALSE
  <2>1. c \in changes /\ Cardinality(Before(c)) < n /\ ~(Cardinality(Before(d)) < n)
    BY DEF First
  <2>2. Before(d) \in SUBSET Before(c)
    BY <1>4, <2>1 DEF Numbered
  <2>3. Cardinality(Before(d)) <= Cardinality(Before(c))
    BY <1>2, <2>1, <2>2, FS_Subset
  <2>4. Cardinality(Before(c)) \in Nat /\ Cardinality(Before(d)) \in Nat
    BY <1>2, <2>1
  <2> HIDE DEF Before
  <2>5. QED
    BY <2>1, <2>3, <2>4
<1>5. QED
  BY <1>3, <1>4 DEF Numbered, First

LEMMA NextTokenCovers ==
    ASSUME Numbered, nextSeq \in Nat \ {0}, NEW limit \in Limits
    PROVE  /\ NextToken(Latest(token), limit) \in 0..nextSeq - 1
           /\ \A c \in Latest(token) \ Selected(Latest(token), limit) :
                c.seq > NextToken(Latest(token), limit)
<1> DEFINE changes == Latest(token)
           first == First(changes, limit)
<1>1. CASE ~Truncated(changes, limit)
  BY <1>1, CurrentIsLargest DEF NextToken, Selected
<1>2. CASE Truncated(changes, limit)
  <2>1. limit \in Nat \ {0} /\ Cardinality(changes) > limit
    BY <1>2, LimitAssumption DEF Truncated
  <2>2. changes # {}
    BY <2>1, FS_EmptySet
  <2>3. changes \in SUBSET log
    BY DEF Latest
  <2>4. /\ first # {} /\ \A c \in first, d \in changes \ first : c.seq < d.seq
    BY <2>1, <2>2, <2>3, FirstOfPage
  <2>5. first \subseteq log
    BY <2>3 DEF First
  <2> DEFINE S == {c.seq : c \in first}
  <2>6. S \in SUBSET (0..nextSeq - 1) /\ S # {} /\ nextSeq - 1 \in Nat
    BY <2>4, <2>5 DEF Numbered
  <2>7. NextToken(changes, limit) = Max(S)
    BY <1>2 DEF NextToken
  <2>8. Selected(changes, limit) = first \cup {c \in changes : IsDelete(c)}
    BY <1>2 DEF Selected
  <2> HIDE DEF changes, first
  <2>9. \A d \in changes \ first : \A x \in S : x < d.seq
    BY <2>4
  <2> HIDE DEF S
  <2>10. Max(S) \in S
    BY <2>6, MaxOfBounded
  <2>11. \A c \in changes \ Selected(changes, limit) : c.seq > Max(S)
    <3>1. SUFFICES ASSUME NEW c \in changes \ Selected(changes, limit) PROVE c.seq > Max(S)
      OBVIOUS
    <3>2. Max(S) < c.seq /\ c \in log
      BY <2>3, <2>8, <2>9, <2>10
    <3>3. Max(S) \in 0..nextSeq - 1
      BY <2>6, <2>10
    <3>4. c.seq \in 1..nextSeq - 1
      BY <3>2 DEF Numbered
    <3>5. QED
      BY <3>2, <3>3, <3>4
  <2>12. QED
    BY <2>6, <2>7, <2>10, <2>11 DEF changes
<1>3. QED
  BY <1>1, <1>2

LEMMA AppliedEntry ==
    ASSUME Numbered, nextSeq \in Nat, NEW entries \in SUBSET log, NEW h \in Names
    PROVE  \/ \E c \in entries : HrefOf(c.id) = h /\ Apply(entries)[h] = Reported(c)
           \/ (~\E c \in entries : HrefOf(c.id) = h) /\ Apply(entries)[h] = mirror[h]
<1> DEFINE named == {c \in entries : HrefOf(c.id) = h}
           Last(c) == /\ HrefOf(c.id) = h
                      /\ \A d \in entries : HrefOf(d.id) = h => d.seq <= c.seq
<1>1. CASE named = {}
  BY <1>1 DEF Apply
<1>2. CASE named # {}
  <2>1. \E m \in named : \A d \in named : d.seq <= m.seq
    <3>1. named \in SUBSET log
      OBVIOUS
    <3> HIDE DEF named
    <3>2. QED
      BY <1>2, <3>1, LargestEntry
  <2>2. \E c \in entries : Last(c)
    BY <2>1
  <2>3. (CHOOSE c \in entries : Last(c)) \in entries /\ Last(CHOOSE c \in entries : Last(c))
    BY <2>2
  <2>4. Apply(entries)[h] = Reported(CHOOSE c \in entries : Last(c))
    BY <1>2 DEF Apply
  <2>5. QED
    BY <2>3, <2>4
<1>3. QED
  BY <1>1, <1>2

LEMMA ReportKeepsTypes ==
    ASSUME TypeOK, SyncTypeOK, Numbered, NEW limit \in Limits, Report(limit)
    PROVE  SyncTypeOK'
<1>1. nextSeq \in Nat \ {0} /\ UNCHANGED <<row, log, nextSeq, horizon>>
  BY DEF SyncTypeOK, TypeOK, Report, vars
<1>2. /\ \A c \in log : HrefOf(c.id) \in Names /\ Reported(c) \in Version \cup {NoVersion}
      /\ Unlisted \subseteq Names
  BY LogTyped, NameTyped, ReportedTyped DEF HrefOf, Unlisted
<1>3. CASE Refused
  <2>1. mirror' = [h \in Names |-> NoVersion] /\ token' = 0 /\ missed' = Unlisted
    BY <1>3 DEF Report
  <2>2. QED
    BY <1>1, <1>2, <2>1 DEF SyncTypeOK
<1>4. CASE ~Refused
  <2> DEFINE selected == Selected(Latest(token), limit)
             told(wrong) == {HrefOf(c.id) : c \in {d \in selected : Misleading(d) <=> wrong}}
  <2>1. /\ token' = NextToken(Latest(token), limit) /\ mirror' = Apply(selected)
        /\ missed' = (missed \ told(FALSE)) \cup told(TRUE)
    BY <1>4 DEF Report
  <2>2. selected \subseteq log
    BY SelectedReported
  <2>3. missed' \subseteq Names
    BY <1>2, <2>1, <2>2 DEF SyncTypeOK
  <2> HIDE DEF selected
  <2>4. token' \in 0..nextSeq - 1
    BY <1>1, <2>1, NextTokenCovers
  <2>5. mirror' \in [Names -> Version \cup {NoVersion}]
    <3>1. ASSUME NEW h \in Names
          PROVE  Apply(selected)[h] \in Version \cup {NoVersion}
      <4>1. CASE Apply(selected)[h] = mirror[h]
        BY <4>1 DEF SyncTypeOK
      <4>2. CASE Apply(selected)[h] # mirror[h]
        <5>1. \E c \in selected : Apply(selected)[h] = Reported(c)
          BY <1>1, <2>2, <4>2, AppliedEntry
        <5>2. QED
          BY <1>2, <2>2, <5>1
      <4>3. QED
        BY <4>1, <4>2
    <3>2. QED
      BY <2>1, <3>1 DEF Apply
  <2>6. QED
    BY <1>1, <2>3, <2>4, <2>5 DEF SyncTypeOK
<1>5. QED
  BY <1>3, <1>4


LEMMA StoreKeepsTypes ==
    ASSUME SInv, SInv', SyncTypeOK, Journal, Store
    PROVE  SyncTypeOK'
<1>1. /\ nextSeq \in Nat /\ nextSeq' \in Nat /\ TypeOK
      /\ \A i \in Id : row[i] \in Row /\ row'[i] \in Row
      /\ log \subseteq Change /\ entry \in [Txn -> Change]
  BY DEF SInv, IInv, TypeOK
<1>2. nextSeq' >= nextSeq
  <2>1. Next
    BY DEF Store
  <2>2. CASE \E t \in Txn : ~Commit(t) /\ (Send(t) \/ Serve(t) \/ BreakDeadlock(t) \/ Crash(t))
    BY <1>1, <2>2, WriterFrame
  <2>3. CASE (\E t \in Txn : Commit(t)) \/ PurgeRows \/ PurgeLog \/ Tick
    BY <1>1, <2>3 DEF Commit, PurgeRows, PurgeLog, Tick
  <2>4. QED
    BY <2>1, <2>2, <2>3 DEF Next
<1>3. token' \in 0..nextSeq' - 1 /\ horizon' \in 0..nextSeq' - 1
  <2>1. horizon' \in 0..nextSeq - 1
    BY <1>1, HorizonMoves DEF Journal
  <2>2. QED
    BY <1>1, <1>2, <2>1 DEF Store, client, SyncTypeOK
<1>4. missed' \subseteq Names
  <2>1. \A i \in Id : NameIn(row, i) \in Names /\ NameIn(row', i) \in Names /\ i \in Names
    BY <1>1, NameTyped DEF Names
  <2>2. ASSUME NEW t \in Txn
        PROVE  CommittedLate(t) \cup RenamedFrom(t) \subseteq Names
    <3>1. entry[t].id \in Id
      BY <1>1 DEF Change
    <3>2. QED
      BY <2>1, <3>1 DEF CommittedLate, RenamedFrom, HrefOf
  <2>3. PurgedUnseen \subseteq Names
    BY <2>1 DEF PurgedUnseen, HrefOf
  <2>4. ForgottenUnseen \subseteq Names
    <3>1. \A c \in log : c.id \in Id
      BY <1>1 DEF Change
    <3>2. QED
      BY <2>1, <3>1 DEF ForgottenUnseen, Latest, HrefOf
  <2>5. QED
    BY <2>2, <2>3, <2>4 DEF Store, Missing, SyncTypeOK
<1>5. QED
  BY <1>3, <1>4 DEF Store, client, SyncTypeOK

-----------------------------------------------------------------------------
(* What the journal says of an event is true, unless it is misleading. *)

LEMMA StoreCases ==
    ASSUME TypeOK, Next
    PROVE  (\E t \in Txn : Commit(t)) \/ PurgeRows \/ PurgeLog \/ UNCHANGED <<row, log>>
<1>1. CASE \E t \in Txn : ~Commit(t) /\ (Send(t) \/ Serve(t) \/ BreakDeadlock(t) \/ Crash(t))
  BY <1>1, WriterFrame
<1>2. CASE Tick
  BY <1>2 DEF Tick, stored
<1>3. QED
  BY <1>1, <1>2 DEF Next

LEMMA StoreKeepsDeletions ==
    ASSUME SInv, SyncTypeOK, Journal, DeletionsTrue, Store
    PROVE  DeletionsTrue'
<1>1. /\ horizon' >= horizon /\ \A c \in log \ log' : c.seq <= horizon'
      /\ horizon \in Int /\ horizon' \in Int /\ \A c \in log : c.seq \in Int /\ c.id \in Id
      /\ Next /\ TypeOK /\ nextSeq \in Nat
  <2>1. TypeOK /\ Numbered /\ Next
    BY DEF Journal, SInv, IInv, Store
  <2>2. nextSeq \in Nat /\ \A c \in log : c.seq \in Int /\ c.id \in Id
    BY <2>1, LogTyped
  <2>3. /\ horizon' \in 0..nextSeq - 1 /\ horizon' >= horizon
        /\ \A c \in log \ log' : c.seq <= horizon'
    BY <2>1, <2>2, HorizonMoves
  <2>4. horizon \in Int
    BY <2>2 DEF SyncTypeOK
  <2>5. QED
    BY <2>1, <2>2, <2>3, <2>4
<1>2. CASE UNCHANGED <<row, log>>
  BY <1>1, <1>2 DEF DeletionsTrue, Newest
<1>3. CASE \E t \in Txn : Commit(t)
  <2>1. PICK t \in Txn : Commit(t)
    BY <1>3
  <2>2. log' = log \cup {entry[t]} /\ pc[t] = "recorded"
    BY <2>1 DEF Commit
  <2>3. /\ entry[t].op = "deleted" => ~Live(row'[entry[t].id])
        /\ \A j \in Id \ {entry[t].id} : row'[j] = row[j] \/ OverrideChanged(j)
    BY <2>1, CommitChanges
  <2>4. \A c \in log : c.id = entry[t].id => c.seq < entry[t].seq
    BY <2>2 DEF Journal, EntryNewer
  <2>5. entry[t].seq \in Int
    BY <1>1, LogTyped
  <2>6. SUFFICES ASSUME NEW c \in log', c.op = "deleted", c.seq >= horizon', Newest(c)'
                 PROVE  ~Live(row'[c.id])
    BY DEF DeletionsTrue
  <2>7. CASE c = entry[t]
    BY <2>3, <2>6, <2>7
  <2>8. CASE c # entry[t]
    <3>1. c \in log /\ c.id # entry[t].id
      BY <1>1, <2>2, <2>4, <2>5, <2>6, <2>8 DEF Newest
    <3>2. row'[c.id] = row[c.id]
      BY <1>1, <2>3, <3>1 DEF OverrideChanged, Journal, OfEvents
    <3>3. Newest(c) /\ c.seq >= horizon
      BY <1>1, <2>2, <2>6, <3>1 DEF Newest
    <3>4. QED
      BY <2>6, <3>1, <3>2, <3>3 DEF DeletionsTrue
  <2>9. QED
    BY <2>7, <2>8
<1>4. CASE PurgeRows
  <2>1. log' = log
    BY <1>4 DEF PurgeRows
  <2>2. \A j \in Id : ~Live(row[j]) => ~Live(row'[j])
    BY <1>4, PurgeChanges DEF Live
  <2>3. QED
    BY <1>1, <2>1, <2>2 DEF DeletionsTrue, Newest
<1>5. CASE PurgeLog
  <2>1. log' \subseteq log /\ row' = row
    BY <1>5 DEF PurgeLog
  <2>2. SUFFICES ASSUME NEW c \in log', c.op = "deleted", c.seq >= horizon', Newest(c)'
                 PROVE  ~Live(row[c.id])
    BY <2>1 DEF DeletionsTrue
  <2>3. Newest(c)
    <3>1. ASSUME NEW d \in log, d.id = c.id, ~(d.seq <= c.seq) PROVE FALSE
      <4>1. d \in log \ log'
        BY <2>2, <3>1 DEF Newest
      <4>2. d.seq <= horizon'
        BY <1>1, <4>1
      <4>3. QED
        BY <1>1, <2>1, <2>2, <3>1, <4>2
    <3>2. QED
      BY <3>1 DEF Newest
  <2>4. QED
    BY <1>1, <2>1, <2>2, <2>3 DEF DeletionsTrue
<1>6. QED
  BY <1>1, <1>2, <1>3, <1>4, <1>5, StoreCases

LEMMA EntriesTell ==
    ASSUME SInv, OfEvents, DeletionsTrue, SyncTypeOK, NEW c \in Latest(token), ~Misleading(c)
    PROVE  IF AtName(HrefOf(c.id)) = {} THEN Reported(c) = NoVersion
           ELSE \A i \in AtName(HrefOf(c.id)) : Reported(c) = VersionOf(row[i])
<1> DEFINE k == c.id
           h == HrefOf(k)
<1>1. /\ c \in log /\ Newest(c) /\ k \in Id /\ c.seq \in Int /\ horizon \in Int
      /\ row[k] \in Row /\ KeysUnique
  BY LatestIsNewest, LogTyped, SafeKeysUnique DEF SInv, IInv, SyncTypeOK
<1>2. ASSUME NEW i \in AtName(h), Exists(row[k]) PROVE i = k
  <2>1. i \in Id /\ Exists(row[i]) /\ Name(i, row[i]) = h /\ Name(k, row[k]) = h
    BY <1>2 DEF AtName, IsMaster, HrefOf, NameIn
  <2>2. QED
    BY <1>1, <1>2, <2>1 DEF KeysUnique, Clash
<1>3. CASE IsDelete(c)
  <2>1. Reported(c) = NoVersion
    BY <1>3 DEF Reported
  <2>2. ASSUME NEW i \in AtName(h) PROVE FALSE
    <3>1. CASE Exists(row[k])
      <4>1. i = k /\ Live(row[k])
        BY <1>2, <2>2, <3>1 DEF AtName
      <4>2. c.op = "deleted"
        BY <1>3, <4>1 DEF IsDelete, Live
      <4>3. c.seq < horizon
        BY <1>1, <4>1, <4>2 DEF DeletionsTrue
      <4>4. QED
        BY <4>1, <4>2, <4>3 DEF Misleading
    <3>2. CASE ~Exists(row[k])
      BY <2>2, <3>2 DEF Misleading, HrefOf, NameIn
    <3>3. QED
      BY <3>1, <3>2
  <2>3. QED
    BY <2>1, <2>2
<1>4. CASE ~IsDelete(c)
  <2>1. Exists(row[k])
    BY <1>4 DEF Misleading
  <2>2. k \in AtName(h)
    BY <1>1, <1>4, <2>1 DEF AtName, IsDelete, IsMaster, Exists, Live, OfEvents, HrefOf, NameIn
  <2>3. Reported(c) = VersionOf(row[k])
    BY <1>4, <2>1 DEF Reported
  <2>4. QED
    BY <1>2, <2>1, <2>2, <2>3
<1>5. QED
  BY <1>3, <1>4

LEMMA ReportKeepsPromise ==
    ASSUME SInv, SyncInv, NEW limit \in Limits, Report(limit)
    PROVE  NothingElseLost'
<1>1. /\ UNCHANGED <<row, log>> /\ nextSeq \in Nat \ {0} /\ Numbered /\ OfEvents
      /\ \A c \in log : c.seq \in Nat /\ c.seq > 0
  BY DEF Report, vars, SyncInv, SyncTypeOK, Journal, Numbered, SInv, IInv, TypeOK
<1>2. SUFFICES ASSUME NEW h \in Names \ missed' PROVE Agrees(h)' \/ Announced(h)'
  BY DEF NothingElseLost
<1>3. /\ AtName(h)' = AtName(h) /\ \A i \in AtName(h) : VersionOf(row[i])' = VersionOf(row[i])
      /\ \A i \in Id : HrefOf(i)' = HrefOf(i)
  BY <1>1 DEF AtName, HrefOf, NameIn
<1>4. CASE Refused
  <2>1. mirror' = [g \in Names |-> NoVersion] /\ token' = 0 /\ missed' = Unlisted
    BY <1>4 DEF Report
  <2>2. CASE AtName(h) = {}
    BY <1>2, <1>3, <2>1, <2>2 DEF Agrees
  <2>3. CASE AtName(h) # {}
    <3>1. PICK c \in log : HrefOf(c.id) = h
      BY <1>2, <2>1, <2>3 DEF Unlisted
    <3>2. c.id \in Id
      BY LogTyped DEF SInv, IInv
    <3>3. QED
      BY <1>1, <1>3, <2>1, <3>1, <3>2 DEF Announced
  <2>4. QED
    BY <2>2, <2>3
<1>5. CASE ~Refused
  <2> DEFINE selected == Selected(Latest(token), limit)
             told(wrong) == {HrefOf(c.id) : c \in {d \in selected : Misleading(d) <=> wrong}}
  <2>1. /\ token' = NextToken(Latest(token), limit) /\ mirror' = Apply(selected)
        /\ missed' = (missed \ told(FALSE)) \cup told(TRUE)
    BY <1>5 DEF Report
  <2>2. selected \subseteq Latest(token) /\ Latest(token) \subseteq log
    BY SelectedReported
  <2>3. /\ \A c \in selected : HrefOf(c.id) = h => ~Misleading(c)
        /\ h \in missed => \E c \in selected : HrefOf(c.id) = h
    BY <1>2, <2>1
  <2>4. \A c \in Latest(token) \ selected : c.seq > token'
    BY <1>1, <2>1, NextTokenCovers
  <2> HIDE DEF selected
  <2>5. CASE \E c \in selected : HrefOf(c.id) = h
    <3>1. PICK c \in selected : HrefOf(c.id) = h /\ mirror'[h] = Reported(c)
      BY <1>1, <2>1, <2>2, <2>5, AppliedEntry
    <3>2. ~Misleading(c) /\ c \in Latest(token)
      BY <2>2, <2>3, <3>1
    <3>3. IF AtName(h) = {} THEN mirror'[h] = NoVersion
          ELSE \A i \in AtName(h) : mirror'[h] = VersionOf(row[i])
      BY <1>1, <3>1, <3>2, EntriesTell DEF SyncInv
    <3>4. QED
      BY <1>3, <3>3 DEF Agrees
  <2>6. CASE ~\E c \in selected : HrefOf(c.id) = h
    <3>1. mirror'[h] = mirror[h] /\ h \in Names \ missed
      BY <1>1, <1>2, <2>1, <2>2, <2>3, <2>6, AppliedEntry
    <3>2. CASE Agrees(h)
      BY <1>3, <3>1, <3>2 DEF Agrees
    <3>3. CASE Announced(h)
      <4>1. PICK c \in log : c.seq > token /\ HrefOf(c.id) = h
        BY <3>3 DEF Announced
      <4>2. PICK m \in log : m.id = c.id /\ m.seq >= c.seq /\ Newest(m)
        BY <1>1, NewestExists
      <4>3. m.seq > token
        BY <1>1, <4>1, <4>2 DEF SyncInv, SyncTypeOK
      <4>4. m \in Latest(token) \ selected
        BY <2>6, <4>1, <4>2, <4>3, LatestIsNewest
      <4>5. m.seq > token' /\ m.id \in Id
        BY <2>4, <4>4, <4>2, LogTyped DEF SInv, IInv
      <4>6. QED
        BY <1>1, <1>3, <4>1, <4>2, <4>5 DEF Announced
    <3>4. QED
      BY <3>1, <3>2, <3>3 DEF SyncInv, NothingElseLost
  <2>7. QED
    BY <2>5, <2>6
<1>6. QED
  BY <1>4, <1>5

-----------------------------------------------------------------------------
(* Steps of the store keep the promise. *)

LEMMA CommitKeepsPromise ==
    ASSUME SInv, SyncInv, NEW t \in Txn, Commit(t), UNCHANGED client,
           missed' = missed \cup CommittedLate(t) \cup RenamedFrom(t)
    PROVE  NothingElseLost'
<1> DEFINE e == entry[t]
           k == e.id
<1>1. /\ pc[t] = "recorded" /\ log' = log \cup {e} /\ token' = token /\ mirror' = mirror
      /\ row' = [j \in Id |-> IF j \in locks[t] THEN img[t][j] ELSE row[j]]
  BY DEF Commit, client
<1>2. /\ k \in Id /\ k \in locks[t] /\ IsMaster(row'[k])
      /\ \A j \in Id \ {k} : row'[j] = row[j] \/ OverrideChanged(j)
  BY CommitChanges
<1>3. /\ \A c \in log : c.id \in Id /\ e.seq \in Int /\ token \in Int /\ row[k] \in Row
      /\ e.seq \in Int /\ token \in Int
  BY <1>2, LogTyped DEF SInv, IInv, SyncInv, SyncTypeOK
<1>4. ASSUME NEW c \in log, c.id # k PROVE HrefOf(c.id)' = HrefOf(c.id)
  <2>1. row'[c.id] = row[c.id]
    BY <1>2, <1>3, <1>4 DEF OverrideChanged, SyncInv, Journal, OfEvents
  <2>2. QED
    BY <2>1 DEF HrefOf, NameIn
<1>5. ASSUME NEW h \in Names, k \notin AtName(h), k \notin AtName(h)'
      PROVE  Agrees(h) => Agrees(h)'
  <2>1. ASSUME NEW j \in Id \ {k}
        PROVE  /\ j \in AtName(h)' <=> j \in AtName(h)
               /\ j \in AtName(h) => row'[j] = row[j]
    BY <1>2 DEF AtName, OverrideChanged
  <2>2. AtName(h)' = AtName(h) /\ \A i \in AtName(h) : row'[i] = row[i]
    <3>1. AtName(h) \subseteq Id \ {k} /\ AtName(h)' \subseteq Id \ {k}
      BY <1>5 DEF AtName
    <3>2. QED
      BY <2>1, <3>1
  <2>3. QED
    BY <1>1, <2>2 DEF Agrees
<1>6. SUFFICES ASSUME NEW h \in Names \ missed' PROVE Agrees(h)' \/ Announced(h)'
  BY DEF NothingElseLost
<1>7. /\ h \notin missed /\ (Agrees(h) \/ Announced(h))
      /\ e.seq <= token => h # NameIn(row, k) /\ h # NameIn(row', k)
      /\ Exists(row[k]) /\ NameIn(row', k) # NameIn(row, k) => h # NameIn(row, k)
  BY <1>6 DEF SyncInv, NothingElseLost, CommittedLate, RenamedFrom, HrefOf
<1> HIDE DEF e
<1>8. CASE NameIn(row', k) = h
  <2>1. e.seq > token
    BY <1>3, <1>7, <1>8
  <2>2. PICK c \in log' : c = e
    BY <1>1
  <2>3. HrefOf(c.id)' = h
    BY <1>8, <2>2 DEF HrefOf
  <2>4. QED
    BY <1>1, <2>1, <2>2, <2>3 DEF Announced
<1>9. CASE NameIn(row', k) # h
  <2>1. k \notin AtName(h) /\ k \notin AtName(h)'
    <3>1. k \notin AtName(h)'
      BY <1>9 DEF AtName, IsMaster, NameIn
    <3>2. k \notin AtName(h)
      BY <1>7, <1>9 DEF AtName, IsMaster, NameIn
    <3>3. QED
      BY <3>1, <3>2
  <2>2. ASSUME NEW c \in log, c.seq > token, HrefOf(c.id) = h PROVE c.id # k
    <3>1. SUFFICES ASSUME c.id = k PROVE FALSE
      OBVIOUS
    <3>2. NameIn(row, k) = h
      BY <2>2, <3>1 DEF HrefOf
    <3>3. ~Exists(row[k]) /\ h = k
      BY <1>7, <1>9, <3>2 DEF NameIn
    <3>4. row[k].state = "gone"
      <4>1. row[k].state # "free"
        BY <3>1 DEF SyncInv, Journal, OfEvents
      <4>2. QED
        BY <1>3, <3>3, <4>1 DEF Row, Exists
    <3>5. /\ target[t] \in Id
          /\ req[t].op = "put" => PutWork(t, target[t])
          /\ req[t].op # "put" => EditWork(t, target[t])
      BY <1>1, TargetAtHand DEF Writing
    <3>6. k = target[t]
      <4>1. CASE req[t].op = "put"
        <5>1. img[t][target[t]].master \notin Id
          BY <3>5, <4>1, SentinelAssumption DEF PutWork
        <5>2. QED
          BY <1>1, <5>1 DEF SInv, Own, EntryTrue, e
      <4>2. CASE req[t].op # "put"
        BY <1>2, <3>3, <3>5, <4>2 DEF EditWork
      <4>3. QED
        BY <4>1, <4>2
    <3>7. req[t].op = "put"
      BY <3>4, <3>5, <3>6 DEF EditWork, Live
    <3>8. img[t][k].href = NoHref
      BY <1>1, <3>4, <3>6, <3>7 DEF SyncInv, Journal, Reinserted, Writing
    <3>9. row'[k].href = NoHref
      BY <1>1, <1>2, <3>8
    <3>10. NameIn(row', k) = k
      BY <3>9 DEF NameIn, Name
    <3>11. QED
      BY <1>9, <3>3, <3>10
  <2>3. CASE Agrees(h)
    BY <1>5, <2>1, <2>3
  <2>4. CASE Announced(h)
    <3>1. PICK c \in log : c.seq > token /\ HrefOf(c.id) = h
      BY <2>4 DEF Announced
    <3>2. HrefOf(c.id)' = h
      BY <1>4, <2>2, <3>1
    <3>3. QED
      BY <1>1, <3>1, <3>2 DEF Announced
  <2>5. QED
    BY <1>7, <2>3, <2>4
<1>10. QED
  BY <1>8, <1>9

LEMMA PurgeKeepsPromise ==
    ASSUME SInv, SyncInv, PurgeRows \/ PurgeLog, UNCHANGED client,
           missed' = missed \cup PurgedUnseen \cup ForgottenUnseen
    PROVE  NothingElseLost'
<1>1. /\ nextSeq \in Nat /\ Numbered /\ token \in Int /\ UNCHANGED <<token, mirror>>
      /\ \A c \in log : c.seq \in Int /\ c.id \in Id
  BY LogTyped DEF SInv, IInv, SyncInv, SyncTypeOK, Journal, client
<1>2. SUFFICES ASSUME NEW h \in Names \ missed' PROVE Agrees(h)' \/ Announced(h)'
  BY DEF NothingElseLost
<1>3. Agrees(h) \/ Announced(h)
  BY <1>2 DEF SyncInv, NothingElseLost
<1>4. ASSUME Announced(h)
      PROVE  \E m \in Latest(token) : m \in log /\ HrefOf(m.id) = h
  <2>1. PICK c \in log : c.seq > token /\ HrefOf(c.id) = h
    BY <1>4 DEF Announced
  <2>2. PICK m \in log : m.id = c.id /\ m.seq >= c.seq /\ Newest(m)
    BY <1>1, NewestExists
  <2>3. QED
    BY <1>1, <2>1, <2>2, LatestIsNewest
<1>5. CASE PurgeRows
  <2>1. log' = log
    BY <1>5 DEF PurgeRows
  <2>2. CASE Agrees(h)
    <3>1. \A j \in Id : /\ j \in AtName(h)' <=> j \in AtName(h)
                        /\ j \in AtName(h) => row'[j] = row[j]
      BY <1>5, PurgeChanges DEF AtName, IsMaster
    <3>2. AtName(h)' = AtName(h) /\ \A i \in AtName(h) : row'[i] = row[i]
      <4>1. AtName(h) \subseteq Id /\ AtName(h)' \subseteq Id
        BY DEF AtName
      <4>2. QED
        BY <3>1, <4>1
    <3>3. QED
      BY <1>1, <2>2, <3>2 DEF Agrees
  <2>3. CASE Announced(h)
    <3>1. PICK m \in Latest(token) : m \in log /\ HrefOf(m.id) = h
      BY <1>4, <2>3
    <3>2. ~(Exists(row[m.id]) /\ ~Exists(row'[m.id]))
      BY <1>1, <1>2, <3>1 DEF PurgedUnseen
    <3>3. row'[m.id] = row[m.id]
      BY <1>1, <1>5, <3>1, <3>2, PurgeChanges
    <3>4. HrefOf(m.id)' = h
      BY <3>1, <3>3 DEF HrefOf, NameIn
    <3>5. m.seq > token
      BY <3>1 DEF Latest
    <3>6. QED
      BY <1>1, <2>1, <3>1, <3>4, <3>5 DEF Announced
  <2>4. QED
    BY <1>3, <2>2, <2>3
<1>6. CASE PurgeLog
  <2>1. row' = row
    BY <1>6 DEF PurgeLog
  <2>2. CASE Agrees(h)
    BY <1>1, <2>1, <2>2 DEF Agrees, AtName
  <2>3. CASE Announced(h)
    <3>1. PICK m \in Latest(token) : m \in log /\ HrefOf(m.id) = h
      BY <1>4, <2>3
    <3>2. m \in log'
      BY <1>2, <3>1 DEF ForgottenUnseen
    <3>3. HrefOf(m.id)' = h /\ m.seq > token
      BY <2>1, <3>1 DEF HrefOf, NameIn, Latest
    <3>4. QED
      BY <1>1, <3>2, <3>3 DEF Announced
  <2>4. QED
    BY <1>3, <2>2, <2>3
<1>7. QED
  BY <1>5, <1>6

LEMMA StoreKeepsPromise ==
    ASSUME SInv, SyncInv, Store
    PROVE  NothingElseLost'
<1>1. Next /\ Missing /\ UNCHANGED client /\ TypeOK
  BY DEF Store, SInv, IInv
<1>2. CASE \E t \in Txn : Committing(t)
  <2> DEFINE Told(t) == missed' = missed \cup CommittedLate(t) \cup RenamedFrom(t)
  <2>1. PICK t \in Txn : Committing(t) /\ Told(t)
    <3>1. (\E t \in Txn : Committing(t) /\ Told(t)) \/ (\A t \in Txn : ~Committing(t))
      BY <1>1 DEF Missing
    <3> HIDE DEF Told
    <3>2. QED
      BY <1>2, <3>1
  <2>2. Commit(t)
    <3>1. [Next]_vars
      BY <1>1
    <3> HIDE DEF Told
    <3>2. QED
      BY <2>1, <3>1, OnlyCommitCommits
  <2>3. QED
    BY <1>1, <2>1, <2>2, CommitKeepsPromise
<1>3. CASE ~\E t \in Txn : Committing(t)
  <2>1. missed' = missed \cup PurgedUnseen \cup ForgottenUnseen
    BY <1>1, <1>3 DEF Missing
  <2>2. ~\E t \in Txn : Commit(t)
    BY <1>1, <1>3 DEF Commit, End, Committing, TypeOK
  <2>3. CASE PurgeRows \/ PurgeLog
    BY <1>1, <2>1, <2>3, PurgeKeepsPromise
  <2>4. CASE UNCHANGED <<row, log>>
    <3>1. UNCHANGED <<token, mirror>>
      BY <1>1 DEF client
    <3>2. SUFFICES ASSUME NEW h \in Names \ missed' PROVE Agrees(h)' \/ Announced(h)'
      BY DEF NothingElseLost
    <3>3. Agrees(h) \/ Announced(h)
      BY <2>1, <3>2 DEF SyncInv, NothingElseLost
    <3>4. QED
      BY <2>4, <3>1, <3>3 DEF Agrees, Announced, AtName, HrefOf, NameIn
  <2>5. QED
    BY <1>1, <2>2, <2>3, <2>4, StoreCases
<1>4. QED
  BY <1>2, <1>3

-----------------------------------------------------------------------------
(* The invariant, and the theorems. *)

LEMMA StoreKeepsJournal ==
    ASSUME SInv, Journal, nextSeq \in Nat \ {0}, Next
    PROVE  Journal'
<1>1. CASE \E t \in Txn : Commit(t)
  BY <1>1, CommitKeepsJournal
<1>2. CASE \E t \in Txn : ~Commit(t) /\ (Send(t) \/ Serve(t) \/ BreakDeadlock(t) \/ Crash(t))
  BY <1>2, WriterKeepsJournal
<1>3. CASE PurgeRows
  BY <1>3, PurgeKeepsJournal
<1>4. CASE PurgeLog \/ Tick
  <2>1. log' \subseteq log /\ UNCHANGED <<row, nextSeq, session>>
    BY <1>4 DEF PurgeLog, Tick, stored
  <2>2. QED
    BY <2>1, ShorterJournal
<1>5. QED
  BY <1>1, <1>2, <1>3, <1>4 DEF Next

LEMMA InitSync == SyncInit => SyncInv
<1>1. SUFFICES ASSUME SyncInit PROVE SyncInv
  OBVIOUS
<1>2. /\ Init /\ row = Stored /\ log = StoredLog /\ nextSeq = FirstSeq
      /\ \A t \in Txn : pc[t] = "idle"
  BY <1>1 DEF SyncInit, Init
<1>3. TypeOK
  BY <1>2, InitInvariant DEF IInv
<1>4. Journal
  BY <1>2, StoredAssumption, JournalAssumption
     DEF Journal, Numbered, OfEvents, EntryNewer, Reinserted, Writing
<1>5. DeletionsTrue
  BY <1>2, JournalAssumption DEF DeletionsTrue, Newest
<1>6. \A i \in Id : VersionOf(row[i]) \in Version
  BY <1>3, LogTyped, VersionTyped
<1>7. CASE Fresh
  <2>1. token = 0 /\ horizon = 0 /\ missed = Unlisted /\ mirror = [h \in Names |-> NoVersion]
    BY <1>1, <1>7 DEF SyncInit
  <2>2. SyncTypeOK
    BY <1>2, <2>1, StoredAssumption DEF SyncTypeOK, Unlisted
  <2>3. NothingElseLost
    <3>1. SUFFICES ASSUME NEW h \in Names \ missed, AtName(h) # {} PROVE Announced(h)
      BY <2>1 DEF NothingElseLost, Agrees
    <3>2. PICK c \in log : HrefOf(c.id) = h
      BY <2>1, <3>1 DEF Unlisted
    <3>3. c.seq > 0
      BY <1>2, <3>2, StoredAssumption
    <3>4. QED
      BY <2>1, <3>2, <3>3 DEF Announced
  <2>4. QED
    BY <1>4, <1>5, <2>2, <2>3 DEF SyncInv
<1>8. CASE ~Fresh
  <2>1. /\ token = FirstSeq - 1 /\ horizon = 0 /\ missed = {}
        /\ mirror = [h \in Names |-> IF AtName(h) = {} THEN NoVersion
                                     ELSE VersionOf(row[CHOOSE i \in AtName(h) : TRUE])]
    BY <1>1, <1>8 DEF SyncInit
  <2>2. \A h \in Names : AtName(h) # {} =>
            (CHOOSE i \in AtName(h) : TRUE) \in AtName(h) /\ AtName(h) \subseteq Id
    BY DEF AtName
  <2>3. mirror \in [Names -> Version \cup {NoVersion}]
    BY <1>6, <2>1, <2>2
  <2>4. SyncTypeOK
    BY <1>2, <2>1, <2>3, StoredAssumption DEF SyncTypeOK
  <2>5. NothingElseLost
    <3>1. SUFFICES ASSUME NEW h \in Names, NEW i \in AtName(h)
                   PROVE  mirror[h] = VersionOf(row[i])
      BY <2>1 DEF NothingElseLost, Agrees
    <3>2. ASSUME NEW j \in AtName(h) PROVE j = i
      <4>1. KeysUnique
        BY <1>2, InitSafe, SafeKeysUnique
      <4>2. QED
        BY <3>1, <3>2, <4>1 DEF KeysUnique, Clash, AtName, IsMaster
    <3>3. (CHOOSE j \in AtName(h) : TRUE) = i
      BY <2>2, <3>1, <3>2
    <3>4. QED
      BY <2>1, <3>1, <3>3
  <2>6. QED
    BY <1>4, <1>5, <2>4, <2>5 DEF SyncInv
<1>9. QED
  BY <1>7, <1>8

LEMMA NextSync == SInv /\ SInv' /\ SyncInv /\ [SyncNext]_syncVars => SyncInv'
<1>1. SUFFICES ASSUME SInv, SInv', SyncInv, [SyncNext]_syncVars PROVE SyncInv'
  OBVIOUS
<1>2. /\ TypeOK /\ SyncTypeOK /\ Journal /\ DeletionsTrue /\ Numbered
      /\ nextSeq \in Nat \ {0}
  BY <1>1 DEF SInv, IInv, SyncInv, Journal, SyncTypeOK, TypeOK
<1>3. CASE Store
  <2>1. Journal'
    BY <1>1, <1>2, <1>3, StoreKeepsJournal DEF Store
  <2>2. QED
    BY <1>1, <1>2, <1>3, <2>1, StoreKeepsTypes, StoreKeepsDeletions, StoreKeepsPromise DEF SyncInv
<1>4. CASE \E limit \in Limits : Report(limit)
  <2>1. PICK limit \in Limits : Report(limit)
    BY <1>4
  <2>2. UNCHANGED <<row, log, nextSeq, session, horizon>>
    BY <2>1 DEF Report, vars, session
  <2>3. Journal'
    BY <1>2, <2>2, ShorterJournal
  <2>4. DeletionsTrue'
    BY <1>2, <2>2 DEF DeletionsTrue, Newest
  <2>5. QED
    BY <1>1, <1>2, <2>1, <2>3, <2>4, ReportKeepsTypes, ReportKeepsPromise DEF SyncInv
<1>5. CASE UNCHANGED syncVars
  <2>1. UNCHANGED <<row, log, nextSeq, session, horizon, token, mirror, missed>>
    BY <1>5 DEF syncVars, vars, session, client
  <2>2. Journal'
    BY <1>2, <2>1, ShorterJournal
  <2>3. DeletionsTrue' /\ SyncTypeOK'
    BY <1>2, <2>1 DEF DeletionsTrue, Newest, SyncTypeOK
  <2>4. NothingElseLost'
    BY <1>1, <2>1 DEF SyncInv, NothingElseLost, Agrees, Announced, AtName, HrefOf, NameIn
  <2>5. QED
    BY <2>2, <2>3, <2>4 DEF SyncInv
<1>6. QED
  BY <1>1, <1>3, <1>4, <1>5 DEF SyncNext

(* The client only watches: the calendar behaves as it does without it. *)
LEMMA SyncSpecImpliesSpec == SyncSpec => Spec
<1>1. SyncInit => Init
  BY DEF SyncInit
<1>2. [SyncNext]_syncVars => [Next]_vars
  BY DEF SyncNext, Store, Report, syncVars
<1>3. QED
  BY <1>1, <1>2, PTL DEF SyncSpec, Spec

(* The invariant of the journal and the client, in every reachable state. *)
THEOREM SyncInvariant == SyncSpec => [](SInv /\ SyncInv)
<1>1. SyncSpec => []SInv
  BY SyncSpecImpliesSpec, SafetyInvariant, PTL
<1>2. QED
  BY <1>1, InitSync, NextSync, PTL DEF SyncSpec

(* A client's token never lies beyond what was numbered, and it holds       *)
(* versions of rows, whatever it asks for and whatever was purged.          *)
THEOREM SyncTypes == SyncSpec => []SyncTypeOK
<1>1. SyncInv => SyncTypeOK
  BY DEF SyncInv
<1>2. QED
  BY <1>1, SyncInvariant, PTL

(* Of a change that was not lost in one of the named ways the client knows, *)
(* or the journal holds an entry after its token that will tell it, for any *)
(* number of writers and any limits.                                        *)
THEOREM OnlyKnownLosses == SyncSpec => []NothingElseLost
<1>1. SyncInv => NothingElseLost
  BY DEF SyncInv
<1>2. QED
  BY <1>1, SyncInvariant, PTL

=============================================================================
