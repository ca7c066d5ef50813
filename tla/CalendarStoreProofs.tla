--------------------------- MODULE CalendarStoreProofs ---------------------------
(***************************************************************************)
(* Theorems of CalendarStore, for every calendar, every number of requests *)
(* and every value of the bounds: the types, the exclusion of row locks    *)
(* and the atomicity of the etag check.                                    *)
(***************************************************************************)
EXTENDS CalendarStore, TLAPS

(* What a request in each step of its life has and has not.                *)
Asked ==
    \A t \in Txn :
        /\ pc[t] \in Sent \cup Running => req[t] \in Requests
        /\ seen[t] # NoVersion => pc[t] \in Sent \cup Running /\ req[t].cond = "match"
        /\ pc[t] \in {"found", "decided", "replaced"} => req[t].op = "put"
        /\ pc[t] \in {"opened", "begun"} /\ req[t].op = "create" => held[t] = NoVersion

(* Where the row it is about is known, and from when on it is locked.       *)
Targeted ==
    \A t \in Txn :
        /\ pc[t] \in {"idle", "sent", "checked"} => target[t] = NoId
        /\ pc[t] \in {"opened", "begun"} /\ req[t].op = "put" => target[t] = NoId
        /\ pc[t] \in {"opened", "begun"} /\ req[t].op \in {"patch", "delete", "dav_delete"}
                => target[t] \in Id
        /\ pc[t] \in {"found", "decided"} /\ target[t] # NoId
                => target[t] \in locks[t] /\ Exists(row[target[t]])
        /\ pc[t] \in {"written", "replaced", "recorded"} => target[t] \in locks[t]

(* A row lock has one holder. *)
LocksExclusive == \A t, u \in Txn : t # u => locks[t] \cap locks[u] = {}

(* A lock on a row nobody can see yet belongs to its inserter, who uses an   *)
(* id that is the row's filename or that no client can name.                *)
InsertedByHolder ==
    \A t \in Txn : \A i \in locks[t] :
        ~Exists(row[i]) =>
            /\ Exists(img[t][i])
            /\ img[t][i].href = NoHref \/ \A q \in Requests : q.href # i

(* From the check of an etag to the commit, the checked row is locked and   *)
(* its committed version is the one that was matched.                       *)
StillMatched ==
    \A t \in Txn :
        pc[t] \in {"found", "decided", "written", "replaced", "recorded"} /\ held[t] # NoVersion
            => /\ target[t] \in locks[t]
               /\ Live(row[target[t]])
               /\ SameEtag(held[t], row[target[t]])

IInv == TypeOK /\ Asked /\ Targeted /\ LocksExclusive /\ InsertedByHolder /\ StillMatched

-----------------------------------------------------------------------------
(* Values that are used all over. *)

USE DEF Sent, Running, Ended

LEMMA BlankTyped ==
    /\ NoRow \in Row /\ Blank \in [Id -> Row] /\ NoChange \in Change
    /\ NoRow.state = "free"
<1>1. (CHOOSE u \in Uid : TRUE) \in Uid /\ (CHOOSE i \in Id : TRUE) \in Id
  BY NonemptyAssumption
<1>2. NoRow \in Row
  BY <1>1, BoundAssumption DEF NoRow, Row
<1>3. NoChange \in Change
  BY <1>1, BoundAssumption DEF NoChange, Change
<1>4. QED
  BY <1>2, <1>3 DEF Blank, NoRow

LEMMA VersionTyped ==
    ASSUME NEW r \in Row PROVE VersionOf(r) \in Version /\ VersionOf(r) # NoVersion
<1>1. VersionOf(r) \in Version
  BY DEF VersionOf, Row, Version
<1>2. QED
  BY <1>1, SentinelAssumption

-----------------------------------------------------------------------------
(* The end of a request. *)

LEMMA EndKeepsTypes ==
    ASSUME TypeOK, NEW t \in Txn, NEW outcome \in Ended, End(t, outcome)
    PROVE  /\ pc' \in [Txn -> {"idle"} \cup Sent \cup Running \cup Ended]
           /\ req' \in [Txn -> Request \cup {NoRequest}]
           /\ seen' \in [Txn -> Version \cup {NoVersion}]
           /\ held' \in [Txn -> Version \cup {NoVersion}]
           /\ at' \in [Txn -> 0..MaxClock]
           /\ target' \in [Txn -> Id \cup {NoId}]
           /\ locks' \in [Txn -> SUBSET Id]
           /\ img' \in [Txn -> [Id -> Row]]
           /\ entry' \in [Txn -> Change]
<1>1. 0 \in 0..MaxClock
  BY BoundAssumption
<1>2. QED
  BY <1>1, BlankTyped DEF End, TypeOK

LEMMA AbortStep ==
    ASSUME IInv, NEW t \in Txn, NEW outcome \in Ended, Abort(t, outcome)
    PROVE  IInv'
<1> USE DEF IInv
<1>1. TypeOK'
  BY EndKeepsTypes DEF Abort, TypeOK, stored
<1>2. Asked'
  BY DEF Abort, End, TypeOK, Asked
<1>3. Targeted'
  BY DEF Abort, End, TypeOK, Targeted, stored
<1>4. LocksExclusive'
  BY DEF Abort, End, TypeOK, LocksExclusive
<1>5. InsertedByHolder'
  BY DEF Abort, End, TypeOK, InsertedByHolder, stored
<1>6. StillMatched'
  BY DEF Abort, End, TypeOK, StillMatched, stored
<1>7. QED
  BY <1>1, <1>2, <1>3, <1>4, <1>5, <1>6

-----------------------------------------------------------------------------
(* Before the transaction: nothing stored and nothing locked changes. *)

LEMMA SendStep == ASSUME IInv, NEW t \in Txn, Send(t) PROVE IInv'
<1> USE DEF IInv
<1>1. PICK q \in Requests :
        /\ req' = [req EXCEPT ![t] = q]
        /\ IF q.cond = "match"
             THEN \E i \in Subject(q) : seen' = [seen EXCEPT ![t] = VersionOf(row[i])]
             ELSE seen' = seen
  BY DEF Send
<1>2. q \in Request
  BY RequestAssumption
<1>3. \A i \in Subject(q) : VersionOf(row[i]) \in Version
  BY VersionTyped DEF Subject, LiveObjectAt, ObjectAt, TypeOK
<1>4. seen' \in [Txn -> Version \cup {NoVersion}]
  BY <1>1, <1>3 DEF TypeOK
<1>5. TypeOK'
  BY <1>1, <1>2, <1>4 DEF Send, Goto, TypeOK, stored
<1>6. Asked'
  <2>1. seen[t] = NoVersion
    BY DEF Send, Asked
  <2>2. \A u \in Txn \ {t} : seen'[u] = seen[u] /\ req'[u] = req[u] /\ pc'[u] = pc[u]
    BY <1>1 DEF Send, Goto, TypeOK
  <2>3. pc'[t] = "sent" /\ req'[t] = q /\ (q.cond # "match" => seen'[t] = NoVersion)
    BY <1>1, <2>1 DEF Send, Goto, TypeOK
  <2>4. QED
    BY <2>2, <2>3 DEF Send, Asked
<1>7. Targeted'
  BY <1>1 DEF Send, Goto, TypeOK, Targeted, stored
<1>8. LocksExclusive' /\ InsertedByHolder' /\ StillMatched'
  BY DEF Send, Goto, TypeOK, LocksExclusive, InsertedByHolder, StillMatched, stored
<1>9. QED
  BY <1>5, <1>6, <1>7, <1>8

LEMMA PrecheckStep == ASSUME IInv, NEW t \in Txn, Precheck(t) PROVE IInv'
<1>1. CASE Abort(t, "conflict")
  BY <1>1, AbortStep
<1>2. CASE ~Abort(t, "conflict")
  <2> USE DEF IInv
  <2>1. /\ pc[t] = "sent" /\ pc' = [pc EXCEPT ![t] = "checked"]
        /\ UNCHANGED <<stored, nextSeq, clock, purged, context, at, target, locks, img, entry>>
    BY <1>2 DEF Precheck, Goto
  <2>2. TypeOK'
    BY <2>1 DEF TypeOK, stored, context
  <2>3. Asked' /\ Targeted'
    BY <2>1 DEF TypeOK, Asked, Targeted, stored, context
  <2>4. LocksExclusive' /\ InsertedByHolder' /\ StillMatched'
    BY <2>1 DEF TypeOK, LocksExclusive, InsertedByHolder, StillMatched, stored, context
  <2>5. QED
    BY <2>2, <2>3, <2>4
<1>3. QED
  BY <1>1, <1>2

LEMMA OpenStep == ASSUME IInv, NEW t \in Txn, Open(t) PROVE IInv'
<1>1. CASE Abort(t, "conflict") \/ Abort(t, "not_found")
  BY <1>1, AbortStep
<1>2. CASE ~(Abort(t, "conflict") \/ Abort(t, "not_found"))
  <2> USE DEF IInv
  <2> DEFINE existing == ObjectAt(req[t].href)
             found == VersionOf(row[CHOOSE i \in existing : TRUE])
  <2>1. /\ pc[t] = "checked" /\ req[t].op = "put" /\ pc' = [pc EXCEPT ![t] = "opened"]
        /\ held' = held \/ (existing # {} /\ held' = [held EXCEPT ![t] = found])
        /\ UNCHANGED <<stored, nextSeq, clock, purged, req, seen, at, target, locks, img, entry>>
    BY <1>2 DEF Open, Goto
  <2>2. existing # {} => found \in Version
    <3>1. existing # {} => (CHOOSE i \in existing : TRUE) \in Id
      BY DEF ObjectAt
    <3>2. QED
      BY <3>1, VersionTyped DEF TypeOK
  <2>3. TypeOK'
    BY <2>1, <2>2 DEF TypeOK, stored
  <2>4. Asked' /\ Targeted'
    BY <2>1 DEF TypeOK, Asked, Targeted, stored
  <2>5. LocksExclusive' /\ InsertedByHolder'
    BY <2>1 DEF TypeOK, LocksExclusive, InsertedByHolder, stored
  <2>6. StillMatched'
    BY <2>1 DEF TypeOK, StillMatched, stored
  <2>7. QED
    BY <2>3, <2>4, <2>5, <2>6
<1>3. QED
  BY <1>1, <1>2

LEMMA RemoveFileStep == ASSUME IInv, NEW t \in Txn, RemoveFile(t) PROVE IInv'
<1>1. CASE Abort(t, "not_found")
  BY <1>1, AbortStep
<1>2. CASE ~Abort(t, "not_found")
  <2> USE DEF IInv
  <2>1. PICK i \in ObjectAt(req[t].href) :
          /\ pc[t] = "checked" /\ req[t].op = "dav_delete"
          /\ target' = [target EXCEPT ![t] = i] /\ pc' = [pc EXCEPT ![t] = "opened"]
          /\ UNCHANGED <<stored, nextSeq, clock, purged, context, at, locks, img, entry>>
    BY <1>2 DEF RemoveFile, Goto
  <2>2. i \in Id
    BY DEF ObjectAt
  <2>3. TypeOK'
    BY <2>1, <2>2 DEF TypeOK, stored, context
  <2>4. Asked' /\ Targeted'
    BY <2>1, <2>2 DEF TypeOK, Asked, Targeted, stored, context
  <2>5. LocksExclusive' /\ InsertedByHolder' /\ StillMatched'
    BY <2>1 DEF TypeOK, LocksExclusive, InsertedByHolder, StillMatched, stored, context
  <2>6. QED
    BY <2>3, <2>4, <2>5
<1>3. QED
  BY <1>1, <1>2

LEMMA HandleStep == ASSUME IInv, NEW t \in Txn, Handle(t) PROVE IInv'
<1>1. CASE Abort(t, "not_found")
  BY <1>1, AbortStep
<1>2. CASE ~Abort(t, "not_found")
  <2> USE DEF IInv
  <2>1. /\ pc[t] = "sent" /\ req[t].op \in {"patch", "delete", "create"}
        /\ held' = [held EXCEPT ![t] = seen[t]]
        /\ target' = [target EXCEPT ![t] = req[t].id]
        /\ pc' = [pc EXCEPT ![t] = "opened"]
        /\ UNCHANGED <<stored, nextSeq, clock, purged, req, seen, at, locks, img, entry>>
    BY <1>2 DEF Handle, Goto
  <2>2. /\ req[t] \in Requests /\ req[t] \in Request
        /\ req[t].id \in Id \cup {NoId}
        /\ req[t].op \in {"patch", "delete"} => req[t].id \in Id
        /\ req[t].op = "create" => seen[t] = NoVersion
    BY <2>1, RequestAssumption DEF Asked, Request
  <2>3. TypeOK'
    BY <2>1, <2>2 DEF TypeOK, stored
  <2>4. Asked' /\ Targeted'
    BY <2>1, <2>2 DEF TypeOK, Asked, Targeted, stored
  <2>5. LocksExclusive' /\ InsertedByHolder' /\ StillMatched'
    BY <2>1 DEF TypeOK, LocksExclusive, InsertedByHolder, StillMatched, stored
  <2>6. QED
    BY <2>3, <2>4, <2>5
<1>3. QED
  BY <1>1, <1>2

LEMMA BeginStep == ASSUME IInv, NEW t \in Txn, Begin(t) PROVE IInv'
<1> USE DEF IInv
<1>1. TypeOK'
  BY DEF Begin, Goto, TypeOK, stored, context
<1>2. Asked' /\ Targeted'
  BY DEF Begin, Goto, TypeOK, Asked, Targeted, stored, context
<1>3. LocksExclusive' /\ InsertedByHolder' /\ StillMatched'
  BY DEF Begin, Goto, TypeOK, LocksExclusive, InsertedByHolder, StillMatched, stored, context
<1>4. QED
  BY <1>1, <1>2, <1>3

-----------------------------------------------------------------------------
(* Inside the transaction.  Writing a row that nobody else has locked keeps *)
(* the locks exclusive.                                                     *)

LEMMA WriteKeepsTypes ==
    ASSUME TypeOK, NEW t \in Txn, NEW i \in Id, NEW r \in Row, Write(t, i, r)
    PROVE  /\ locks' \in [Txn -> SUBSET Id] /\ img' \in [Txn -> [Id -> Row]]
           /\ locks'[t] = locks[t] \cup {i} /\ img'[t] = [img[t] EXCEPT ![i] = r]
           /\ \A u \in Txn \ {t} : locks'[u] = locks[u] /\ img'[u] = img[u]
BY DEF Write, TypeOK

LEMMA WriteKeepsExclusion ==
    ASSUME TypeOK, LocksExclusive, NEW t \in Txn, NEW i \in Id, NEW r \in Row,
           Write(t, i, r), Unlocked(i, t)
    PROVE  LocksExclusive'
<1>1. /\ locks'[t] = locks[t] \cup {i}
      /\ \A u \in Txn \ {t} : locks'[u] = locks[u] /\ i \notin locks[u]
  BY WriteKeepsTypes DEF Unlocked
<1>2. SUFFICES ASSUME NEW u \in Txn, NEW v \in Txn, u # v PROVE locks'[u] \cap locks'[v] = {}
  BY DEF LocksExclusive
<1>3. locks[u] \cap locks[v] = {}
  BY <1>2 DEF LocksExclusive
<1>4. CASE u = t
  BY <1>1, <1>2, <1>3, <1>4
<1>5. CASE v = t
  BY <1>1, <1>2, <1>3, <1>5
<1>6. CASE u # t /\ v # t
  BY <1>1, <1>3, <1>6
<1>7. QED
  BY <1>4, <1>5, <1>6

(* A row that exists, or the image of a new one under an id that is its     *)
(* filename or of no interest to any client.                                *)
LEMMA WriteKeepsInserted ==
    ASSUME TypeOK, InsertedByHolder, NEW t \in Txn, NEW i \in Id, NEW r \in Row,
           Write(t, i, r), UNCHANGED row,
           \/ Exists(row[i])
           \/ Exists(r) /\ (r.href = NoHref \/ \A q \in Requests : q.href # i)
    PROVE  InsertedByHolder'
<1>1. SUFFICES ASSUME NEW u \in Txn, NEW j \in locks'[u], ~Exists(row[j])
               PROVE  /\ Exists(img'[u][j])
                      /\ img'[u][j].href = NoHref \/ \A q \in Requests : q.href # j
  BY DEF InsertedByHolder
<1> USE <1>1
<1>2. /\ locks'[t] = locks[t] \cup {i} /\ img'[t] = [img[t] EXCEPT ![i] = r]
      /\ \A v \in Txn \ {t} : locks'[v] = locks[v] /\ img'[v] = img[v]
      /\ img[t] \in [Id -> Row] /\ locks[u] \subseteq Id /\ locks[t] \subseteq Id
  BY WriteKeepsTypes DEF TypeOK
<1>3. CASE u = t /\ j = i
  BY <1>2, <1>3
<1>4. CASE ~(u = t /\ j = i)
  <2>1. j \in locks[u] /\ img'[u][j] = img[u][j]
    BY <1>2, <1>4
  <2>2. QED
    BY <2>1 DEF InsertedByHolder
<1>5. QED
  BY <1>3, <1>4

(* Every statement that locks row i and makes or keeps i2 the target.       *)
LEMMA WriteStep ==
    ASSUME IInv, NEW t \in Txn, NEW i \in Id, NEW r \in Row, NEW i2 \in Id, NEW next,
           Write(t, i, r), Goto(t, next), target' = [target EXCEPT ![t] = i2],
           UNCHANGED <<stored, nextSeq, clock, purged, context, at, entry>>,
           pc[t] \in Running, next \in {"found", "decided", "written"},
           next # "written" => req[t].op = "put" /\ Exists(row[i2]),
           Unlocked(i, t), i2 \in locks[t] \cup {i},
           \/ Exists(row[i])
           \/ Exists(r) /\ (r.href = NoHref \/ \A q \in Requests : q.href # i),
           held[t] # NoVersion => Live(row[i2]) /\ SameEtag(held[t], row[i2])
    PROVE  IInv'
<1> USE DEF IInv
<1>1. /\ locks'[t] = locks[t] \cup {i} /\ \A u \in Txn \ {t} : locks'[u] = locks[u]
      /\ locks' \in [Txn -> SUBSET Id] /\ img' \in [Txn -> [Id -> Row]]
  BY WriteKeepsTypes
<1>2. TypeOK'
  BY <1>1 DEF Goto, TypeOK, stored, context
<1>3. Asked'
  BY DEF Goto, TypeOK, Asked, context
<1>4. Targeted'
  BY <1>1 DEF Goto, TypeOK, Targeted, stored, context
<1>5. LocksExclusive'
  BY WriteKeepsExclusion
<1>6. InsertedByHolder'
  BY WriteKeepsInserted DEF stored
<1>7. StillMatched'
  BY <1>1 DEF Goto, TypeOK, StillMatched, stored, context
<1>8. QED
  BY <1>2, <1>3, <1>4, <1>5, <1>6, <1>7

(* A statement that locks nothing. *)
LEMMA GotoStep ==
    ASSUME IInv, NEW t \in Txn, NEW next \in {"found", "decided"}, Goto(t, next),
           pc[t] \in {"begun", "found"}, req[t].op = "put",
           pc[t] = "begun" => held[t] = NoVersion,
           UNCHANGED <<stored, nextSeq, clock, purged, context, at, target, locks, img, entry>>
    PROVE  IInv'
<1> USE DEF IInv
<1>1. TypeOK'
  BY DEF Goto, TypeOK, stored, context
<1>2. Asked'
  BY DEF Goto, TypeOK, Asked, context
<1>3. Targeted'
  BY DEF Goto, TypeOK, Targeted, stored, context
<1>4. LocksExclusive' /\ InsertedByHolder'
  BY DEF LocksExclusive, InsertedByHolder, stored
<1>5. StillMatched'
  BY DEF Goto, TypeOK, StillMatched, stored, context
<1>6. QED
  BY <1>1, <1>2, <1>3, <1>4, <1>5

LEMMA EditByIdStep == ASSUME IInv, NEW t \in Txn, EditById(t) PROVE IInv'
<1> DEFINE i == target[t]
<1>1. CASE \E outcome \in Ended : Abort(t, outcome)
  BY <1>1, AbortStep
<1>2. CASE ~\E outcome \in Ended : Abort(t, outcome)
  <2>1. /\ pc[t] = "begun" /\ req[t].op \in {"patch", "delete", "dav_delete"}
        /\ Live(row[i]) /\ Unlocked(i, t) /\ ~Mismatch(t, row[i]) /\ ~Overflows(t, row[i])
        /\ Write(t, i, Edited(t, row[i])) /\ Goto(t, "written")
        /\ UNCHANGED <<stored, nextSeq, clock, purged, context, at, target, entry>>
    BY <1>2 DEF EditById
  <2>2. i \in Id /\ row[i] \in Row
    BY <2>1 DEF IInv, TypeOK, Targeted
  <2>3. Edited(t, row[i]) \in Row
    <3> DEFINE r == row[i]
    <3>1. r \in Row /\ r.sequence \in 0..IntMax /\ at[t] \in 0..MaxClock
      BY <2>2 DEF IInv, TypeOK, Row
    <3>2. req[t].op = "patch" => r.sequence + 1 \in 0..IntMax
      BY <2>1, <3>1, BoundAssumption DEF Overflows
    <3> HIDE DEF r
    <3>3. QED
      BY <3>1, <3>2 DEF Edited, Row, r
  <2>4. target' = [target EXCEPT ![t] = i]
    BY <2>1 DEF IInv, TypeOK
  <2>5. QED
    BY <2>1, <2>2, <2>3, <2>4, WriteStep DEF Mismatch, Live, Exists
<1>3. QED
  BY <1>1, <1>2

LEMMA FreshUnlocked ==
    ASSUME NEW i \in FreshIds
    PROVE  /\ i \in Id /\ row[i].state = "free"
           /\ \A u \in Txn : i \notin locks[u]
           /\ \A q \in Requests : q.href # i
BY DEF FreshIds, Unused

LEMMA InsertStep == ASSUME IInv, NEW t \in Txn, Insert(t) PROVE IInv'
<1> DEFINE r == [NoRow EXCEPT !.state = "live", !.master = target[t], !.uid = req[t].uid,
                              !.updated_at = at[t], !.author = t]
<1>1. CASE \E outcome \in Ended : Abort(t, outcome)
  BY <1>1, AbortStep
<1>2. CASE ~\E outcome \in Ended : Abort(t, outcome)
  <2>1. PICK i \in FreshIds :
          /\ pc[t] = "begun" /\ req[t].op = "create"
          /\ Write(t, i, r) /\ target' = [target EXCEPT ![t] = i] /\ Goto(t, "written")
          /\ UNCHANGED <<stored, nextSeq, clock, purged, context, at, entry>>
    BY <1>2 DEF Insert
  <2>2. req[t] \in Request /\ held[t] = NoVersion
    BY <2>1, RequestAssumption DEF IInv, Asked
  <2>3. r \in Row /\ Exists(r) /\ r.href = NoHref
    BY <2>2, BlankTyped DEF IInv, TypeOK, Row, Request, NoRow, Exists
  <2>4. i \in Id /\ Unlocked(i, t)
    BY FreshUnlocked DEF Unlocked
  <2> HIDE DEF r
  <2>5. QED
    BY <2>1, <2>2, <2>3, <2>4, WriteStep
<1>3. QED
  BY <1>1, <1>2

-----------------------------------------------------------------------------
(* put_series. *)

LEMMA AtHrefStep == ASSUME IInv, NEW t \in Txn, AtHref(t) PROVE IInv'
<1>1. CASE \E outcome \in Ended : Abort(t, outcome)
  BY <1>1, AbortStep
<1>2. CASE ~\E outcome \in Ended : Abort(t, outcome)
  <2>0. pc[t] = "begun" /\ req[t].op = "put"
    BY DEF AtHref
  <2>1. CASE ResourceAt(req[t].href) = {}
    <3>1. /\ held[t] = NoVersion /\ Goto(t, "found")
          /\ UNCHANGED <<stored, nextSeq, clock, purged, context, at, target, locks, img, entry>>
      BY <1>2, <2>1 DEF AtHref
    <3>2. QED
      BY <2>0, <3>1, GotoStep
  <2>2. CASE ResourceAt(req[t].href) # {}
    <3>1. PICK i \in ResourceAt(req[t].href) :
            /\ Unlocked(i, t) /\ ~Mismatch(t, row[i])
            /\ Write(t, i, row[i]) /\ target' = [target EXCEPT ![t] = i] /\ Goto(t, "found")
            /\ UNCHANGED <<stored, nextSeq, clock, purged, context, at, entry>>
      BY <1>2, <2>2 DEF AtHref
    <3>2. i \in Id /\ row[i] \in Row /\ Live(row[i]) /\ Exists(row[i])
      BY DEF IInv, TypeOK, ResourceAt, LiveObjectAt, ObjectAt
    <3>3. QED
      BY <2>0, <3>1, <3>2, WriteStep DEF Mismatch
  <2>3. QED
    BY <2>1, <2>2
<1>3. QED
  BY <1>1, <1>2

LEMMA ByUidStep == ASSUME IInv, NEW t \in Txn, ByUid(t) PROVE IInv'
<1>1. CASE \E outcome \in Ended : Abort(t, outcome)
  BY <1>1, AbortStep
<1>2. CASE ~\E outcome \in Ended : Abort(t, outcome)
  <2>0. pc[t] = "found" /\ req[t].op = "put"
    BY DEF ByUid, IInv, Asked
  <2>1. CASE WithUid(req[t].uid) = {}
    <3>1. /\ Goto(t, "decided")
          /\ UNCHANGED <<stored, nextSeq, clock, purged, context, at, target, locks, img, entry>>
      BY <1>2, <2>1 DEF ByUid
    <3>2. QED
      BY <2>0, <3>1, GotoStep
  <2>2. CASE WithUid(req[t].uid) # {}
    <3> DEFINE tgt(j) == IF target[t] = NoId THEN j ELSE target[t]
    <3>1. PICK j \in WithUid(req[t].uid) :
            /\ Unlocked(j, t)
            /\ Write(t, j, row[j]) /\ target' = [target EXCEPT ![t] = tgt(j)]
            /\ Goto(t, "decided")
            /\ UNCHANGED <<stored, nextSeq, clock, purged, context, at, entry>>
      BY <1>2, <2>2 DEF ByUid
    <3>2. j \in Id /\ row[j] \in Row /\ Exists(row[j])
      BY DEF IInv, TypeOK, WithUid, IsMaster
    <3>3. held[t] # NoVersion => target[t] \in locks[t]
      BY <2>0 DEF IInv, StillMatched
    <3>4. /\ tgt(j) \in Id /\ tgt(j) \in locks[t] \cup {j} /\ Exists(row[tgt(j)])
          /\ held[t] # NoVersion => tgt(j) = target[t]
      BY <2>0, <3>2, <3>3, SentinelAssumption DEF IInv, TypeOK, Targeted
    <3>5. held[t] # NoVersion => Live(row[tgt(j)]) /\ SameEtag(held[t], row[tgt(j)])
      BY <2>0, <3>4 DEF IInv, StillMatched
    <3> HIDE DEF tgt
    <3>6. QED
      BY <2>0, <3>1, <3>2, <3>4, <3>5, WriteStep
  <2>3. QED
    BY <2>1, <2>2
<1>3. QED
  BY <1>1, <1>2

LEMMA UpdateMasterStep == ASSUME IInv, NEW t \in Txn, UpdateMaster(t) PROVE IInv'
<1> DEFINE i == target[t]
           r == Replaced(t, row[i])
<1>1. CASE \E outcome \in Ended : Abort(t, outcome)
  BY <1>1, AbortStep
<1>2. CASE ~\E outcome \in Ended : Abort(t, outcome)
  <2>1. /\ pc[t] = "decided" /\ i # NoId /\ r.sequence <= IntMax
        /\ Write(t, i, r) /\ Goto(t, "written")
        /\ UNCHANGED <<stored, nextSeq, clock, purged, context, at, target, entry>>
    BY <1>2 DEF UpdateMaster
  <2>2. /\ i \in Id /\ row[i] \in Row /\ i \in locks[t] /\ Exists(row[i])
        /\ target' = [target EXCEPT ![t] = i]
    BY <2>1 DEF IInv, TypeOK, Targeted
  <2>3. Unlocked(i, t)
    BY <2>2 DEF Unlocked, IInv, LocksExclusive
  <2>4. r \in Row
    <3>1. req[t] \in Request
      BY <2>1, RequestAssumption DEF IInv, Asked
    <3>2. GreatestPlusOne(req[t].sequence, row[i].sequence) \in Nat
      BY <2>2, <3>1, BoundAssumption DEF GreatestPlusOne, Request, Row
    <3>3. at[t] \in 0..MaxClock /\ 0 \in 0..MaxClock
      BY BoundAssumption DEF IInv, TypeOK
    <3>4. r.sequence = GreatestPlusOne(req[t].sequence, row[i].sequence)
      BY <2>2 DEF Replaced, Row
    <3>5. r.sequence \in 0..IntMax
      BY <2>1, <3>2, <3>4, BoundAssumption
    <3>6. QED
      BY <2>2, <3>1, <3>3, <3>4, <3>5 DEF Replaced, Row, Request
  <2>5. held[t] # NoVersion => Live(row[i]) /\ SameEtag(held[t], row[i])
    BY <2>1 DEF IInv, StillMatched
  <2> HIDE DEF i, r
  <2>6. QED
    BY <2>1, <2>2, <2>3, <2>4, <2>5, WriteStep
<1>3. QED
  BY <1>1, <1>2

(* A canonical filename makes its uuid the id of the new row: whoever else  *)
(* is inserting that id is inserting that filename.                         *)
LEMMA CanonicalUnlocked ==
    ASSUME IInv, NEW t \in Txn, NEW h \in Id, NEW r,
           req[t] \in Requests, h = req[t].href, ~Exists(row[h]), Pending(t, h, r) = {}
    PROVE  Unlocked(h, t)
<1>1. SUFFICES ASSUME NEW u \in Txn \ {t}, h \in locks[u] PROVE FALSE
  BY DEF Unlocked
<1>2. Exists(img[u][h]) /\ img[u][h].href = NoHref
  BY <1>1 DEF IInv, InsertedByHolder
<1>3. img[u][h] # row[h] /\ Clash(h, r, h, img[u][h])
  BY <1>2 DEF Clash, Name
<1>4. u \in Pending(t, h, r)
  BY <1>1, <1>3 DEF Pending
<1>5. QED
  BY <1>4

LEMMA InsertMasterStep == ASSUME IInv, NEW t \in Txn, InsertMaster(t) PROVE IInv'
<1> DEFINE h == req[t].href
           canonical == h \in Id /\ ~Exists(row[h])
           r == [NoRow EXCEPT !.state = "live", !.uid = req[t].uid,
                              !.href = IF canonical THEN NoHref ELSE h,
                              !.updated_at = at[t], !.author = t]
<1>1. CASE \E outcome \in Ended : Abort(t, outcome)
  BY <1>1, AbortStep
<1>2. CASE ~\E outcome \in Ended : Abort(t, outcome)
  <2>1. PICK i \in IF canonical THEN {h} ELSE FreshIds \ {h} :
          /\ pc[t] = "decided" /\ target[t] = NoId /\ Pending(t, h, r) = {}
          /\ Write(t, i, r) /\ target' = [target EXCEPT ![t] = i] /\ Goto(t, "written")
          /\ UNCHANGED <<stored, nextSeq, clock, purged, context, at, entry>>
    BY <1>2 DEF InsertMaster
  <2>2. req[t] \in Requests /\ req[t] \in Request
    BY <2>1, RequestAssumption DEF IInv, Asked
  <2>3. held[t] = NoVersion
    BY <2>1, SentinelAssumption DEF IInv, StillMatched, TypeOK
  <2>4. r \in Row /\ Exists(r) /\ (canonical => r.href = NoHref)
    BY <2>2, BlankTyped DEF IInv, TypeOK, Row, Request, NoRow, Exists
  <2>5. /\ i \in Id /\ Unlocked(i, t)
        /\ r.href = NoHref \/ \A q \in Requests : q.href # i
    <3> HIDE DEF r
    <3>1. CASE canonical
      BY <2>1, <2>2, <2>4, <3>1, CanonicalUnlocked
    <3>2. CASE ~canonical
      BY <2>1, <3>2, FreshUnlocked DEF Unlocked
    <3>3. QED
      BY <3>1, <3>2
  <2> HIDE DEF r, h
  <2>6. QED
    BY <2>1, <2>3, <2>4, <2>5, WriteStep
<1>3. QED
  BY <1>1, <1>2

LEMMA ReplaceOverridesStep == ASSUME IInv, NEW t \in Txn, ReplaceOverrides(t) PROVE IInv'
<1> DEFINE old == OverridesOf(target[t])
           new == NewOverride(t)
           image(added, i) == IF i \in added THEN new
                              ELSE IF i \in old THEN [row[i] EXCEPT !.state = "gone"]
                              ELSE img[t][i]
<1>1. CASE \E outcome \in Ended : Abort(t, outcome)
  BY <1>1, AbortStep
<1>2. CASE ~\E outcome \in Ended : Abort(t, outcome)
  <2> USE DEF IInv
  <2>1. PICK added \in SUBSET FreshIds :
          /\ pc[t] = "written" /\ req[t].op = "put" /\ \A j \in old : Unlocked(j, t)
          /\ locks' = [locks EXCEPT ![t] = @ \cup old \cup added]
          /\ img' = [img EXCEPT ![t] = [i \in Id |-> image(added, i)]]
          /\ Goto(t, "replaced")
          /\ UNCHANGED <<stored, nextSeq, clock, purged, context, at, target, entry>>
    <3> DEFINE images(added) == [i \in Id |-> CASE i \in added -> new
                                                [] i \in old -> [row[i] EXCEPT !.state = "gone"]
                                                [] OTHER -> img[t][i]]
               Leave(added) == /\ locks' = [locks EXCEPT ![t] = @ \cup old \cup added]
                               /\ img' = [img EXCEPT ![t] = images(added)]
                               /\ Goto(t, "replaced")
                               /\ UNCHANGED <<stored, nextSeq, clock, purged, context, at,
                                              target, entry>>
    <3>1. /\ pc[t] = "written" /\ req[t].op = "put" /\ \A j \in old : Unlocked(j, t)
          /\ Leave({}) \/ \E i \in FreshIds : Leave({i})
      BY <1>2 DEF ReplaceOverrides
    <3> HIDE DEF Leave
    <3>2. PICK added \in SUBSET FreshIds : Leave(added)
      BY <3>1
    <3> USE DEF Leave
    <3>3. \A i \in added : i \notin old
      BY FreshUnlocked DEF OverridesOf, Exists
    <3>4. images(added) = [i \in Id |-> image(added, i)]
      BY <3>3
    <3> HIDE DEF images
    <3>5. QED
      BY <3>1, <3>2, <3>4
  <2>2. /\ old \subseteq Id /\ \A j \in old : Exists(row[j])
        /\ added \subseteq Id
        /\ \A i \in added : /\ \A q \in Requests : q.href # i
                            /\ \A u \in Txn : i \notin locks[u]
    BY FreshUnlocked DEF OverridesOf
  <2>3. req[t] \in Request
    BY <2>1, RequestAssumption DEF Asked
  <2>4. new \in Row /\ Exists(new) /\ new.href = NoHref
    BY <2>3, BlankTyped DEF NewOverride, TypeOK, Row, Request, NoRow, Exists
  <2>5. /\ locks'[t] = locks[t] \cup old \cup added
        /\ \A u \in Txn \ {t} : locks'[u] = locks[u] /\ img'[u] = img[u]
        /\ \A i \in Id : img'[t][i] = image(added, i)
    BY <2>1 DEF TypeOK
  <2>6. \A i \in Id : image(added, i) \in Row
    <3>1. \A i \in Id : row[i] \in Row /\ img[t][i] \in Row
      BY DEF TypeOK
    <3>2. \A s \in Row : [s EXCEPT !.state = "gone"] \in Row
      BY DEF Row
    <3> HIDE DEF new, old
    <3>3. QED
      BY <2>4, <3>1, <3>2
  <2>7. TypeOK'
    <3> HIDE DEF image, new, old
    <3>1. locks' \in [Txn -> SUBSET Id]
      BY <2>1, <2>2 DEF TypeOK
    <3>2. img' \in [Txn -> [Id -> Row]]
      BY <2>1, <2>6 DEF TypeOK
    <3>3. QED
      BY <2>1, <3>1, <3>2 DEF Goto, TypeOK, stored, context
  <2>8. Asked'
    BY <2>1 DEF Goto, TypeOK, Asked, context
  <2>9. Targeted'
    BY <2>1, <2>5 DEF Goto, TypeOK, Targeted, stored, context
  <2>10. LocksExclusive'
    <3>1. \A u \in Txn \ {t} : locks'[u] \cap locks'[t] = {}
      BY <2>1, <2>2, <2>5 DEF LocksExclusive, Unlocked
    <3>2. QED
      BY <2>5, <3>1 DEF LocksExclusive
  <2>11. InsertedByHolder'
    <3>1. SUFFICES ASSUME NEW u \in Txn, NEW i \in locks'[u], ~Exists(row[i])
                   PROVE  /\ Exists(img'[u][i])
                          /\ img'[u][i].href = NoHref \/ \A q \in Requests : q.href # i
      BY <2>1 DEF InsertedByHolder, stored
    <3>2. CASE u = t /\ i \in added
      BY <2>2, <2>4, <2>5, <3>2
    <3>3. CASE ~(u = t /\ i \in added)
      <4>1. i \in locks[u] /\ i \in Id
        BY <2>2, <2>5, <3>1, <3>3 DEF TypeOK
      <4>2. img'[u][i] = img[u][i]
        BY <2>2, <2>5, <3>1, <3>3, <4>1
      <4>3. QED
        BY <3>1, <4>1, <4>2 DEF InsertedByHolder
    <3>4. QED
      BY <3>2, <3>3
  <2>12. StillMatched'
    BY <2>1, <2>5 DEF Goto, TypeOK, StillMatched, stored, context
  <2>13. QED
    BY <2>7, <2>8, <2>9, <2>10, <2>11, <2>12
<1>3. QED
  BY <1>1, <1>2

-----------------------------------------------------------------------------
(* append_change and the commit. *)

LEMMA AppendChangeStep == ASSUME IInv, NEW t \in Txn, AppendChange(t) PROVE IInv'
<1> USE DEF IInv
<1> DEFINE change(i, op) == [seq |-> nextSeq, id |-> i, op |-> op, at |-> at[t]]
           masters == {m \in Id : m = img[t][target[t]].master /\ Exists(row[m])}
<1>1. /\ pc[t] \in {"written", "replaced"} /\ Goto(t, "recorded")
      /\ nextSeq' = nextSeq + 1
      /\ UNCHANGED <<stored, clock, purged, context, at, target>>
      /\ \/ /\ entry' = [entry EXCEPT ![t] = change(target[t], Operation(t))]
            /\ UNCHANGED <<locks, img>>
         \/ \E m \in masters :
              /\ Unlocked(m, t) /\ Write(t, m, [row[m] EXCEPT !.updated_at = at[t]])
              /\ entry' = [entry EXCEPT ![t] = change(m, "updated")]
  BY DEF AppendChange
<1>2. target[t] \in locks[t] /\ target[t] \in Id /\ req[t] \in Request
  BY <1>1, RequestAssumption DEF TypeOK, Targeted, Asked
<1>3. Operation(t) \in {"created", "updated", "deleted"}
  BY <1>2 DEF Operation, PutOperation, Request
<1>4. \A i \in Id, op \in {"created", "updated", "deleted"} : change(i, op) \in Change
  BY DEF TypeOK, Change
<1>5. Asked'
  BY <1>1 DEF Goto, TypeOK, Asked, context
<1>6. entry' \in [Txn -> Change] /\ nextSeq' \in Nat
  <2>1. \E i \in Id, op \in {"created", "updated", "deleted"} :
            entry' = [entry EXCEPT ![t] = change(i, op)]
    BY <1>1, <1>2, <1>3
  <2> HIDE DEF change
  <2>2. entry' \in [Txn -> Change]
    BY <1>4, <2>1 DEF TypeOK
  <2>3. QED
    BY <1>1, <2>2 DEF TypeOK
<1> HIDE DEF change
<1>7. CASE UNCHANGED <<locks, img>>
  <2>1. TypeOK'
    BY <1>1, <1>6, <1>7 DEF Goto, TypeOK, stored, context
  <2>2. Targeted' /\ StillMatched'
    BY <1>1, <1>7 DEF Goto, TypeOK, Targeted, StillMatched, stored, context
  <2>3. LocksExclusive' /\ InsertedByHolder'
    BY <1>1, <1>7 DEF LocksExclusive, InsertedByHolder, stored
  <2>4. QED
    BY <1>5, <2>1, <2>2, <2>3
<1>8. ASSUME NEW m \in masters, Unlocked(m, t), Write(t, m, [row[m] EXCEPT !.updated_at = at[t]])
      PROVE  IInv'
  <2> DEFINE r == [row[m] EXCEPT !.updated_at = at[t]]
  <2>1. m \in Id /\ Exists(row[m]) /\ r \in Row
    <3>1. m \in Id /\ Exists(row[m])
      OBVIOUS
    <3>2. row[m] \in Row /\ at[t] \in 0..MaxClock
      BY <3>1 DEF TypeOK
    <3>3. QED
      BY <3>1, <3>2 DEF Row
  <2> HIDE DEF r, masters
  <2>2. Write(t, m, r) /\ Unlocked(m, t)
    BY <1>8 DEF r
  <2>3. /\ locks'[t] = locks[t] \cup {m} /\ \A u \in Txn \ {t} : locks'[u] = locks[u]
        /\ locks' \in [Txn -> SUBSET Id] /\ img' \in [Txn -> [Id -> Row]]
    BY <2>1, <2>2, WriteKeepsTypes
  <2>4. TypeOK'
    BY <1>1, <1>6, <2>3 DEF Goto, TypeOK, stored, context
  <2>5. Targeted' /\ StillMatched'
    BY <1>1, <2>3 DEF Goto, TypeOK, Targeted, StillMatched, stored, context
  <2>6. LocksExclusive'
    BY <2>1, <2>2, WriteKeepsExclusion
  <2>7. InsertedByHolder'
    BY <1>1, <2>1, <2>2, WriteKeepsInserted DEF stored
  <2>8. QED
    BY <1>5, <2>4, <2>5, <2>6, <2>7
<1>9. QED
  BY <1>1, <1>7, <1>8

LEMMA CommitStep == ASSUME IInv, NEW t \in Txn, Commit(t) PROVE IInv'
<1> USE DEF IInv
<1>1. /\ pc[t] = "recorded" /\ End(t, "ok")
      /\ row' = [i \in Id |-> IF i \in locks[t] THEN img[t][i] ELSE row[i]]
      /\ log' = log \cup {entry[t]} /\ ctag' = ctag + 1
      /\ UNCHANGED <<nextSeq, clock, purged>>
  BY DEF Commit
<1>2. /\ pc' = [pc EXCEPT ![t] = "ok"] /\ locks' = [locks EXCEPT ![t] = {}]
      /\ \A u \in Txn \ {t} : /\ pc'[u] = pc[u] /\ req'[u] = req[u] /\ seen'[u] = seen[u]
                              /\ held'[u] = held[u] /\ target'[u] = target[u]
                              /\ locks'[u] = locks[u] /\ img'[u] = img[u]
      /\ pc'[t] = "ok" /\ locks'[t] = {} /\ seen'[t] = NoVersion
  BY <1>1 DEF End, TypeOK
<1>3. \A u \in Txn \ {t} : \A i \in locks[u] : row'[i] = row[i]
  BY <1>1 DEF TypeOK, LocksExclusive
<1>4. TypeOK'
  <2>1. row' \in [Id -> Row]
    BY <1>1 DEF TypeOK
  <2>2. log' \subseteq Change /\ ctag' \in Nat
    BY <1>1 DEF TypeOK
  <2>3. QED
    BY <1>1, <2>1, <2>2, EndKeepsTypes DEF TypeOK
<1>5. Asked'
  BY <1>2 DEF Asked
<1>6. Targeted'
  BY <1>2, <1>3 DEF Targeted
<1>7. LocksExclusive'
  BY <1>2 DEF LocksExclusive
<1>8. InsertedByHolder'
  BY <1>2, <1>3 DEF InsertedByHolder
<1>9. StillMatched'
  BY <1>2, <1>3 DEF StillMatched
<1>10. QED
  BY <1>4, <1>5, <1>6, <1>7, <1>8, <1>9

-----------------------------------------------------------------------------
(* Retention and time. *)

LEMMA PurgeRowsStep == ASSUME IInv, PurgeRows PROVE IInv'
<1> USE DEF IInv
<1>1. PICK cut \in 2..clock :
        /\ \A t \in Txn : locks[t] \cap Cascade(Expired(cut)) = {}
        /\ row' = [i \in Id |-> IF i \in Cascade(Expired(cut))
                                  THEN [row[i] EXCEPT !.state = "gone"] ELSE row[i]]
        /\ purged' = cut
  BY DEF PurgeRows
<1>2. UNCHANGED <<log, ctag, nextSeq, clock, session>>
  BY DEF PurgeRows
<1>3. \A t \in Txn : \A i \in locks[t] : row'[i] = row[i]
  BY <1>1 DEF TypeOK
<1>4. TypeOK'
  <2>1. \A s \in Row : [s EXCEPT !.state = "gone"] \in Row
    BY DEF Row
  <2>2. row' \in [Id -> Row]
    BY <1>1, <2>1 DEF TypeOK
  <2>3. purged' \in 0..MaxClock
    BY <1>1, BoundAssumption DEF TypeOK
  <2>4. QED
    BY <1>2, <2>2, <2>3 DEF TypeOK, session
<1>5. Asked' /\ LocksExclusive'
  BY <1>2 DEF Asked, LocksExclusive, session
<1>6. Targeted' /\ StillMatched'
  BY <1>2, <1>3 DEF Targeted, StillMatched, session
<1>7. InsertedByHolder'
  BY <1>2, <1>3 DEF InsertedByHolder, session
<1>8. QED
  BY <1>4, <1>5, <1>6, <1>7

LEMMA PurgeLogStep == ASSUME IInv, PurgeLog PROVE IInv'
<1> USE DEF IInv
<1>1. /\ log' \subseteq log /\ purged' = 0
      /\ UNCHANGED <<row, ctag, nextSeq, clock, session>>
  BY DEF PurgeLog
<1>2. TypeOK'
  BY <1>1, BoundAssumption DEF TypeOK, session
<1>3. QED
  BY <1>1, <1>2 DEF Asked, Targeted, LocksExclusive, InsertedByHolder, StillMatched, session

LEMMA TickStep == ASSUME IInv, Tick PROVE IInv'
<1> USE DEF IInv
<1>1. clock' \in 1..MaxClock /\ UNCHANGED <<stored, nextSeq, purged, session>>
  BY BoundAssumption DEF Tick, TypeOK
<1>2. TypeOK'
  BY <1>1 DEF TypeOK, stored, session
<1>3. QED
  BY <1>1, <1>2 DEF Asked, Targeted, LocksExclusive, InsertedByHolder, StillMatched,
                    stored, session

-----------------------------------------------------------------------------
(* The inductive invariant. *)

LEMMA InitInvariant == Init => IInv
<1>1. SUFFICES ASSUME Init PROVE IInv
  OBVIOUS
<1>2. TypeOK
  BY <1>1, BlankTyped, BoundAssumption, StoredAssumption DEF Init, TypeOK
<1>3. Asked /\ Targeted /\ LocksExclusive /\ InsertedByHolder /\ StillMatched
  BY <1>1 DEF Init, Asked, Targeted, LocksExclusive, InsertedByHolder, StillMatched
<1>4. QED
  BY <1>2, <1>3 DEF IInv

LEMMA ServeStep == ASSUME IInv, NEW t \in Txn, Serve(t) PROVE IInv'
<1>1. CASE Precheck(t) \/ Open(t) \/ RemoveFile(t) \/ Handle(t) \/ Begin(t)
  BY <1>1, PrecheckStep, OpenStep, RemoveFileStep, HandleStep, BeginStep
<1>2. CASE EditById(t) \/ Insert(t)
  BY <1>2, EditByIdStep, InsertStep
<1>3. CASE AtHref(t) \/ ByUid(t) \/ UpdateMaster(t) \/ InsertMaster(t) \/ ReplaceOverrides(t)
  BY <1>3, AtHrefStep, ByUidStep, UpdateMasterStep, InsertMasterStep, ReplaceOverridesStep
<1>4. CASE AppendChange(t) \/ Commit(t)
  BY <1>4, AppendChangeStep, CommitStep
<1>5. QED
  BY <1>1, <1>2, <1>3, <1>4 DEF Serve

LEMMA NextInvariant == IInv /\ [Next]_vars => IInv'
<1>1. SUFFICES ASSUME IInv, [Next]_vars PROVE IInv'
  OBVIOUS
<1>2. CASE \E t \in Txn : Send(t) \/ Serve(t)
  BY <1>1, <1>2, SendStep, ServeStep
<1>3. CASE \E t \in Txn : BreakDeadlock(t) \/ Crash(t)
  <2>1. PICK t \in Txn : Abort(t, "failed")
    BY <1>3 DEF BreakDeadlock, Crash
  <2>2. QED
    BY <1>1, <2>1, AbortStep
<1>4. CASE PurgeRows \/ PurgeLog \/ Tick
  BY <1>1, <1>4, PurgeRowsStep, PurgeLogStep, TickStep
<1>5. CASE UNCHANGED vars
  BY <1>1, <1>5 DEF IInv, vars, TypeOK, Asked, Targeted, LocksExclusive, InsertedByHolder,
                    StillMatched, stored, session
<1>6. QED
  BY <1>1, <1>2, <1>3, <1>4, <1>5 DEF Next

(* The invariant the theorems below rest on, in every reachable state. *)
THEOREM Invariant == Spec => []IInv
BY InitInvariant, NextInvariant, PTL DEF Spec

(* Every variable keeps its type; in particular no sequence of PATCHes and  *)
(* PUTs stores a sequence beyond the i32 column, because EditById and       *)
(* UpdateMaster fail instead.                                               *)
THEOREM TypeCorrect == Spec => []TypeOK
<1>1. IInv => TypeOK
  BY DEF IInv
<1>2. QED
  BY <1>1, Invariant, PTL

(* No two transactions hold the same row, the one a PUT is inserting under  *)
(* a client-chosen uuid included.                                           *)
THEOREM Exclusion == Spec => []LocksExclusive
<1>1. IInv => LocksExclusive
  BY DEF IInv
<1>2. QED
  BY <1>1, Invariant, PTL

(* update_event, delete_event and put_series: between the check of the etag *)
(* they were told to match and their commit, nobody else changes the row.   *)
THEOREM ConditionalWriteHolds == Spec => ConditionalWrite
<1>1. IInv => [\A t \in Txn : Committing(t) /\ held[t] # NoVersion =>
                    Live(row[target[t]]) /\ SameEtag(held[t], row[target[t]])]_vars
  BY DEF IInv, StillMatched, Committing
<1>2. QED
  BY <1>1, Invariant, PTL DEF ConditionalWrite

=============================================================================
