------------------------------ MODULE CalendarStore ------------------------------
(***************************************************************************)
(* The events of one calendar and its change journal, as the write         *)
(* transactions of calendar-db change them: put_series (CalDAV PUT),       *)
(* update_event and delete_event (JSON API, CalDAV DELETE) and             *)
(* create_event, each in one READ COMMITTED PostgreSQL transaction that    *)
(* ends in append_change, and the retention purge beside them.             *)
(*                                                                         *)
(* A transaction takes its row locks one step at a time and keeps its      *)
(* writes in img until Commit.  A statement that has to wait for another   *)
(* transaction is an action that is not enabled.  Each Txn serves one      *)
(* request: the counters of the system are unbounded, the runs are not.    *)
(***************************************************************************)
EXTENDS Integers

CONSTANTS
    Txn,        \* requests the server handles, each in a transaction of its own
    Id,         \* events.id
    Href,       \* filenames chosen by clients; "{id}.ics" is written as the Id
    Uid,        \* iCalendar UIDs
    Requests,   \* what clients may ask for
    Stored,     \* the rows the calendar starts with
    StoredLog,  \* the change_log rows it starts with
    FirstSeq,   \* the next value of the change_log identity at the start
    MaxClock,   \* bound on the clock
    IntMax,     \* largest value of the i32 column events.sequence
    NoId, NoHref, NoTxn, NoVersion, NoRequest

(* A row of table events.  "free" ids have never been used, "gone" ones     *)
(* were hard-deleted.  author is a history variable: the transaction that   *)
(* wrote the content of this row.                                           *)
Row == [state : {"free", "live", "deleted", "gone"}, master : Id \cup {NoId},
        href : Href \cup Id \cup {NoHref}, uid : Uid, sequence : 0..IntMax,
        updated_at : 0..MaxClock, deleted_at : 0..MaxClock, author : Txn \cup {NoTxn}]

(* One change_log row; at is changed_at. *)
Change == [seq : Nat, id : Id, op : {"created", "updated", "deleted"}, at : 0..MaxClock]

(* What an etag is computed from, and the author of that content. *)
Version == [sequence : 0..IntMax, updated_at : 0..MaxClock, author : Txn \cup {NoTxn}]

(* cond: no header, If-Match: <etag>, If-Match: * or If-None-Match: *.      *)
(* override says whether a PUT body carries a RECURRENCE-ID override;       *)
(* sequence is the SEQUENCE of its master VEVENT.                           *)
Request == [op : {"put", "dav_delete", "patch", "delete", "create"},
            id : Id \cup {NoId}, href : Href \cup Id \cup {NoHref}, uid : Uid,
            cond : {"none", "match", "exists", "absent"}, override : BOOLEAN,
            sequence : 0..IntMax]

ASSUME SentinelAssumption ==
    /\ NoId \notin Id /\ NoTxn \notin Txn /\ NoHref \notin Href \cup Id
    /\ NoVersion \notin Version /\ NoRequest \notin Request /\ Href \cap Id = {}
ASSUME NonemptyAssumption == Id # {} /\ Uid # {}
ASSUME BoundAssumption == MaxClock \in Nat /\ MaxClock >= 1 /\ IntMax \in Nat
ASSUME RequestAssumption ==
    /\ Requests \subseteq Request
    /\ \A q \in Requests : /\ q.op \in {"put", "dav_delete"} <=> q.href # NoHref
                           /\ q.op \in {"patch", "delete"} => q.id # NoId
                           /\ q.op = "create" => q.cond = "none"
ASSUME StoredAssumption ==
    /\ Stored \in [Id -> Row]
    /\ StoredLog \subseteq Change
    /\ FirstSeq \in Nat \ {0} /\ \A c \in StoredLog : c.seq \in 1..FirstSeq - 1
    /\ \A i \in Id : Stored[i].author = NoTxn /\ Stored[i].updated_at <= 1
                       /\ Stored[i].deleted_at <= 1

VARIABLES
    row,     \* committed table events
    log,     \* committed table change_log
    nextSeq, \* the IDENTITY of change_log.seq: taken at INSERT, never given back
    ctag,    \* calendars.ctag, counted from the start
    clock,   \* now(), in the resolution the etag keeps
    purged,  \* cut of the row purge whose journal purge is still due, or 0
    pc, req, \* where each request is, and what it asks
    seen,    \* the version whose etag the client sent
    held,    \* the version whose etag the database function was told to match
    at,      \* now() inside the transaction, 0 outside
    target,  \* the row the request is about
    locks,   \* rows locked or inserted by the transaction
    img,     \* the transaction's image of the rows in locks
    entry    \* the change_log row it has inserted

stored == <<row, log, ctag>>
context == <<req, seen, held>>
session == <<pc, req, seen, held, at, target, locks, img, entry>>
vars == <<row, log, nextSeq, ctag, clock, purged, pc, req, seen, held, at, target,
          locks, img, entry>>

Sent == {"sent", "checked", "opened"}
Running == {"begun", "found", "decided", "written", "replaced", "recorded"}
Ended == {"ok", "not_found", "conflict", "failed"}

NoRow == [state |-> "free", master |-> NoId, href |-> NoHref, uid |-> CHOOSE u \in Uid : TRUE,
          sequence |-> 0, updated_at |-> 0, deleted_at |-> 0, author |-> NoTxn]
Blank == [i \in Id |-> NoRow]
NoChange == [seq |-> 0, id |-> CHOOSE i \in Id : TRUE, op |-> "updated", at |-> 0]

-----------------------------------------------------------------------------
(* Reading the committed table. *)

Exists(r) == r.state \in {"live", "deleted"}
Live(r) == r.state = "live"
IsMaster(r) == Exists(r) /\ r.master = NoId

(* EventRow::resource_name, and COALESCE(href, id::text || '.ics') in SQL. *)
Name(i, r) == IF r.href = NoHref THEN i ELSE r.href

VersionOf(r) == [sequence |-> r.sequence, updated_at |-> r.updated_at, author |-> r.author]

(* etag_for hashes the calendar, the sequence and the timestamp: nothing else. *)
SameEtag(v, r) == v.sequence = r.sequence /\ v.updated_at = r.updated_at

(* object_at, through the view calendar_objects: overrides and soft-deleted rows too. *)
ObjectAt(h) == {i \in Id : Exists(row[i]) /\ Name(i, row[i]) = h}
LiveObjectAt(h) == {i \in ObjectAt(h) : Live(row[i])}

(* The live master served under h: get_event_by_href and at_href. *)
ResourceAt(h) == {i \in LiveObjectAt(h) : row[i].master = NoId}

(* by_uid: the master with this UID, soft-deleted or not. *)
WithUid(u) == {i \in Id : IsMaster(row[i]) /\ row[i].uid = u}

(* Mutant: overrides somebody is editing are skipped (SKIP LOCKED). *)
OverridesUnlocked(m) ==
    {i \in Id : Exists(row[i]) /\ row[i].master = m /\ \A t \in Txn : i \notin locks[t]}

OverridesOf(m) == {i \in Id : Exists(row[i]) /\ row[i].master = m}

(* What the request names, and the version of it a client can hold. *)
Subject(q) == IF q.op \in {"put", "dav_delete"} THEN LiveObjectAt(q.href)
              ELSE {i \in Id : i = q.id /\ Live(row[i])}

-----------------------------------------------------------------------------
(* Locks, uniqueness and waiting. *)

Unlocked(i, t) == \A u \in Txn \ {t} : i \notin locks[u]

(* No unique index lets row r, named h, stand beside row j with content s:  *)
(* events_href_idx, and events_uid_occurrence_idx, which has one entry per  *)
(* master and one per overridden occurrence (the model overrides a single   *)
(* one).  Soft-deleted rows are in both indexes.                            *)
Clash(h, r, j, s) ==
    /\ Exists(s)
    /\ \/ h = Name(j, s)
       \/ (r.master = NoId <=> s.master = NoId) /\ r.uid = s.uid

(* The stored rows obey both indexes and the foreign key master_event_id,   *)
(* and only a master has overrides (create_event on an override is 404).    *)
ASSUME StoredKeysAssumption ==
    /\ \A i, j \in Id : i # j /\ Exists(Stored[i]) =>
            ~Clash(Name(i, Stored[i]), Stored[i], j, Stored[j])
    /\ \A i \in Id : Exists(Stored[i]) /\ Stored[i].master \in Id =>
            IsMaster(Stored[Stored[i].master])

(* Mutant: partial indexes, WHERE deleted_at IS NULL. *)
LiveClashes(h, r, others) == \E j \in others : Live(row[j]) /\ Clash(h, r, j, row[j])

Clashes(h, r, others) == \E j \in others : Clash(h, r, j, row[j])

(* The transactions whose outcome decides whether r clashes: the index      *)
(* makes the later writer wait for them.                                    *)
Pending(t, h, r) ==
    {u \in Txn \ {t} : \E j \in locks[u] :
        /\ img[u][j] # row[j]
        /\ Clash(h, r, j, img[u][j]) \/ Clash(h, r, j, row[j])}

(* Uuid::new_v4(): an id never used before, and not in any URL a client     *)
(* sends or has sent.  Which one is of no consequence: one stands for all.  *)
Unused == {i \in Id : /\ row[i].state = "free" /\ \A u \in Txn : i \notin locks[u]
                      /\ \A q \in Requests : i # q.href
                      /\ \A j \in Id : i # Stored[j].href}
FreshIds == {i \in Unused : i = CHOOSE j \in Unused : TRUE}

-----------------------------------------------------------------------------
(* The end of a request.  Rolling back and committing both drop the locks. *)

End(t, outcome) ==
    /\ pc' = [pc EXCEPT ![t] = outcome]
    /\ req' = [req EXCEPT ![t] = NoRequest]
    /\ seen' = [seen EXCEPT ![t] = NoVersion]
    /\ held' = [held EXCEPT ![t] = NoVersion]
    /\ at' = [at EXCEPT ![t] = 0]
    /\ target' = [target EXCEPT ![t] = NoId]
    /\ locks' = [locks EXCEPT ![t] = {}]
    /\ img' = [img EXCEPT ![t] = Blank]
    /\ entry' = [entry EXCEPT ![t] = NoChange]

(* Mutant: the connection goes back to the pool without a rollback. *)
AbortKeepingLocks(t, outcome) ==
    /\ pc' = [pc EXCEPT ![t] = outcome]
    /\ UNCHANGED <<stored, nextSeq, clock, purged, context, at, target, locks, img, entry>>

(* A transaction that returns an error leaves the stored state alone. *)
Abort(t, outcome) == End(t, outcome) /\ UNCHANGED <<stored, nextSeq, clock, purged>>

(* A statement that locks row i and leaves image r of it. *)
Write(t, i, r) ==
    /\ locks' = [locks EXCEPT ![t] = @ \cup {i}]
    /\ img' = [img EXCEPT ![t][i] = r]

Goto(t, next) == pc' = [pc EXCEPT ![t] = next]

-----------------------------------------------------------------------------
(* Before the transaction. *)

(* A client sends a request; a conditional one carries the etag it has read. *)
Send(t) ==
    /\ pc[t] = "idle"
    /\ \E q \in Requests :
        /\ req' = [req EXCEPT ![t] = q]
        /\ IF q.cond = "match"
             THEN \E i \in Subject(q) : seen' = [seen EXCEPT ![t] = VersionOf(row[i])]
             ELSE seen' = seen
    /\ Goto(t, "sent")
    /\ UNCHANGED <<stored, nextSeq, clock, purged, held, at, target, locks, img, entry>>

(* dav-server evaluates If-Match and If-None-Match once, against metadata(). *)
Preconditions(t) ==
    LET found == LiveObjectAt(req[t].href)
    IN  CASE req[t].cond = "none" -> TRUE
          [] req[t].cond = "match" -> \E i \in found : SameEtag(seen[t], row[i])
          [] req[t].cond = "exists" -> found # {}
          [] req[t].cond = "absent" -> found = {}

Precheck(t) ==
    /\ pc[t] = "sent" /\ req[t].op \in {"put", "dav_delete"}
    /\ IF Preconditions(t)
         THEN /\ Goto(t, "checked")
              /\ UNCHANGED <<stored, nextSeq, clock, purged, context, at, target,
                             locks, img, entry>>
         ELSE Abort(t, "conflict")

(* PgDavFs::open for writing: looks the object up again and captures the    *)
(* precondition flush() will pass on.  object_at also returns a soft-deleted *)
(* row, whose etag is captured all the same.                                *)
Open(t) ==
    /\ pc[t] = "checked" /\ req[t].op = "put"
    /\ LET existing == ObjectAt(req[t].href)
           exists == \E i \in existing : Live(row[i])
       IN  \/ exists /\ req[t].cond = "absent" /\ Abort(t, "conflict")
           \/ ~exists /\ req[t].cond = "exists" /\ Abort(t, "not_found")
           \/ /\ ~(exists /\ req[t].cond = "absent")
              /\ ~(~exists /\ req[t].cond = "exists")
              /\ held' = IF req[t].cond = "absent" \/ existing = {} THEN held
                         ELSE [held EXCEPT ![t] = VersionOf(row[CHOOSE i \in existing : TRUE])]
              /\ Goto(t, "opened")
              /\ UNCHANGED <<stored, nextSeq, clock, purged, req, seen, at, target,
                             locks, img, entry>>

(* PgDavFs::remove_file: the object is looked up again, and delete_event is *)
(* called with its id and no etag.                                          *)
RemoveFile(t) ==
    /\ pc[t] = "checked" /\ req[t].op = "dav_delete"
    /\ \/ ObjectAt(req[t].href) = {} /\ Abort(t, "not_found")
       \/ \E i \in ObjectAt(req[t].href) :
            /\ target' = [target EXCEPT ![t] = i]
            /\ Goto(t, "opened")
            /\ UNCHANGED <<stored, nextSeq, clock, purged, context, at, locks, img, entry>>

(* The JSON API handlers: get_event on the event (for a new override, on    *)
(* what has to be its master), then the call with the If-Match header.      *)
Handle(t) ==
    /\ pc[t] = "sent" /\ req[t].op \in {"patch", "delete", "create"}
    /\ IF \/ req[t].id = NoId
          \/ Live(row[req[t].id]) /\ (req[t].op = "create" => row[req[t].id].master = NoId)
         THEN /\ held' = [held EXCEPT ![t] = seen[t]]
              /\ target' = [target EXCEPT ![t] = req[t].id]
              /\ Goto(t, "opened")
              /\ UNCHANGED <<stored, nextSeq, clock, purged, req, seen, at, locks, img, entry>>
         ELSE Abort(t, "not_found")

(* pool.begin(): now() is fixed from here on. *)
Begin(t) ==
    /\ pc[t] = "opened"
    /\ at' = [at EXCEPT ![t] = clock]
    /\ Goto(t, "begun")
    /\ UNCHANGED <<stored, nextSeq, clock, purged, context, target, locks, img, entry>>

-----------------------------------------------------------------------------
(* update_event and delete_event. *)

(* What the UPDATE leaves of the locked row. *)
Edited(t, r) ==
    IF req[t].op = "patch"
      THEN [r EXCEPT !.sequence = @ + 1, !.updated_at = at[t], !.author = t]
      ELSE [r EXCEPT !.state = "deleted", !.deleted_at = at[t], !.author = t]

(* Mutant: the etag is compared by its sequence alone. *)
SequenceMismatch(t, r) == held[t] # NoVersion /\ held[t].sequence # r.sequence

Mismatch(t, r) == held[t] # NoVersion /\ ~SameEtag(held[t], r)

(* Mutant: the column were wider than i32. *)
NeverOverflows(t, r) == FALSE

(* events.sequence is an integer: incrementing its largest value is an error. *)
Overflows(t, r) == req[t].op = "patch" /\ r.sequence = IntMax

(* SELECT ... AND deleted_at IS NULL FOR UPDATE, the etag check, the UPDATE. *)
EditById(t) ==
    /\ pc[t] = "begun" /\ req[t].op \in {"patch", "delete", "dav_delete"}
    /\ LET i == target[t]
           r == row[i]
       IN  \/ ~Live(r) /\ Abort(t, "not_found")
           \/ Live(r) /\ Unlocked(i, t) /\ Mismatch(t, r) /\ Abort(t, "conflict")
           \/ Live(r) /\ Unlocked(i, t) /\ ~Mismatch(t, r) /\ Overflows(t, r) /\ Abort(t, "failed")
           \/ /\ Live(r) /\ Unlocked(i, t) /\ ~Mismatch(t, r) /\ ~Overflows(t, r)
              /\ Write(t, i, Edited(t, r))
              /\ Goto(t, "written")
              /\ UNCHANGED <<stored, nextSeq, clock, purged, context, at, target, entry>>

(* insert_event_tx: a master, or an override of the master target[t].       *)
Insert(t) ==
    /\ pc[t] = "begun" /\ req[t].op = "create"
    /\ \E i \in FreshIds :
        LET m == target[t]
            r == [NoRow EXCEPT !.state = "live", !.master = m, !.uid = req[t].uid,
                               !.updated_at = at[t], !.author = t]
        IN  /\ Pending(t, i, r) = {}
            /\ CASE Clashes(i, r, Id) -> Abort(t, "conflict")
                 [] ~Clashes(i, r, Id) /\ m # NoId /\ ~Exists(row[m]) -> Abort(t, "failed")
                 [] OTHER ->
                      /\ Write(t, i, r)
                      /\ target' = [target EXCEPT ![t] = i]
                      /\ Goto(t, "written")
                      /\ UNCHANGED <<stored, nextSeq, clock, purged, context, at, entry>>

-----------------------------------------------------------------------------
(* put_series. *)

(* at_href FOR UPDATE and the precondition, checked under that lock. *)
AtHref(t) ==
    /\ pc[t] = "begun" /\ req[t].op = "put"
    /\ \/ /\ ResourceAt(req[t].href) = {}
          /\ IF held[t] # NoVersion
               THEN Abort(t, "conflict")
               ELSE /\ Goto(t, "found")
                    /\ UNCHANGED <<stored, nextSeq, clock, purged, context, at, target,
                                   locks, img, entry>>
       \/ \E i \in ResourceAt(req[t].href) :
            /\ Unlocked(i, t)
            /\ IF Mismatch(t, row[i]) \/ req[t].cond = "absent"
                 THEN Abort(t, "conflict")
                 ELSE /\ Write(t, i, row[i])
                      /\ target' = [target EXCEPT ![t] = i]
                      /\ Goto(t, "found")
                      /\ UNCHANGED <<stored, nextSeq, clock, purged, context, at, entry>>

(* by_uid FOR UPDATE, and which row the PUT is going to write: the resource *)
(* at the filename, else a soft-deleted master with the UID, else a new row. *)
ByUid(t) ==
    /\ pc[t] = "found"
    /\ \/ /\ WithUid(req[t].uid) = {}
          /\ Goto(t, "decided")
          /\ UNCHANGED <<stored, nextSeq, clock, purged, context, at, target,
                         locks, img, entry>>
       \/ \E j \in WithUid(req[t].uid) :
            /\ Unlocked(j, t)
            /\ IF target[t] = NoId /\ Live(row[j])
                 THEN Abort(t, "conflict")
                 ELSE /\ Write(t, j, row[j])
                      /\ target' = [target EXCEPT ![t] = IF @ = NoId THEN j ELSE @]
                      /\ Goto(t, "decided")
                      /\ UNCHANGED <<stored, nextSeq, clock, purged, context, at, entry>>

GreatestPlusOne(m, n) == (IF m > n THEN m ELSE n) + 1

(* update_master: the whole content is replaced; a soft-deleted row comes   *)
(* back under the filename of this PUT.                                     *)
Replaced(t, r) ==
    [r EXCEPT !.uid = req[t].uid, !.state = "live", !.deleted_at = 0,
              !.href = IF r.state = "deleted" THEN req[t].href ELSE @,
              !.sequence = GreatestPlusOne(req[t].sequence, @),
              !.updated_at = at[t], !.author = t]

UpdateMaster(t) ==
    /\ pc[t] = "decided" /\ target[t] # NoId
    /\ LET i == target[t]
           r == Replaced(t, row[i])
       IN  \/ r.sequence > IntMax /\ Abort(t, "failed")
           \/ /\ r.sequence <= IntMax /\ Pending(t, Name(i, r), r) = {}
              /\ IF Clashes(Name(i, r), r, Id \ {i})
                   THEN Abort(t, "conflict")
                   ELSE /\ Write(t, i, r)
                        /\ Goto(t, "written")
                        /\ UNCHANGED <<stored, nextSeq, clock, purged, context, at,
                                       target, entry>>

(* insert_row for a new master.  A canonical filename names the row after   *)
(* its uuid, unless a row with that id exists already: then the filename is *)
(* stored and the id is fresh.                                              *)
InsertMaster(t) ==
    /\ pc[t] = "decided" /\ target[t] = NoId
    /\ LET h == req[t].href
           canonical == h \in Id /\ ~Exists(row[h])
       IN  \E i \in IF canonical THEN {h} ELSE FreshIds \ {h} :
            LET r == [NoRow EXCEPT !.state = "live", !.uid = req[t].uid,
                                   !.href = IF canonical THEN NoHref ELSE h,
                                   !.updated_at = at[t], !.author = t]
            IN  /\ Pending(t, h, r) = {}
                /\ IF Clashes(h, r, Id)
                     THEN Abort(t, "conflict")
                     ELSE /\ Write(t, i, r)
                          /\ target' = [target EXCEPT ![t] = i]
                          /\ Goto(t, "written")
                          /\ UNCHANGED <<stored, nextSeq, clock, purged, context, at, entry>>

(* DELETE FROM events WHERE master_event_id = $1, then the override of the  *)
(* PUT body, if it has one, as a new row.                                   *)
NewOverride(t) ==
    [NoRow EXCEPT !.state = "live", !.master = target[t], !.uid = req[t].uid,
                  !.updated_at = at[t], !.author = t]

ReplaceOverrides(t) ==
    /\ pc[t] = "written" /\ req[t].op = "put"
    /\ LET old == OverridesOf(target[t])
           new == NewOverride(t)
           images(added) == [i \in Id |-> CASE i \in added -> new
                                            [] i \in old -> [row[i] EXCEPT !.state = "gone"]
                                            [] OTHER -> img[t][i]]
           Leave(added) == /\ locks' = [locks EXCEPT ![t] = @ \cup old \cup added]
                           /\ img' = [img EXCEPT ![t] = images(added)]
                           /\ Goto(t, "replaced")
                           /\ UNCHANGED <<stored, nextSeq, clock, purged, context, at,
                                          target, entry>>
       IN  /\ \A j \in old : Unlocked(j, t)
           /\ \/ ~req[t].override /\ Leave({})
              \/ /\ req[t].override /\ Pending(t, NoId, new) = {}
                 /\ IF Clashes(NoId, new, Id \ old)
                      THEN Abort(t, "conflict")
                      ELSE \E i \in FreshIds : Leave({i})

-----------------------------------------------------------------------------
(* append_change and the commit. *)

(* Mutant: "created" only when the PUT found no row to write. *)
PutOperationOfRow(t) == IF Exists(row[target[t]]) THEN "updated" ELSE "created"

(* A PUT reports "created" for a new row and for one brought back. *)
PutOperation(t) == IF Live(row[target[t]]) THEN "updated" ELSE "created"

(* The operation each caller passes to append_change. *)
Operation(t) ==
    CASE req[t].op = "patch" -> "updated"
      [] req[t].op \in {"delete", "dav_delete"} -> "deleted"
      [] req[t].op = "create" -> "created"
      [] req[t].op = "put" -> PutOperation(t)

(* A change to an override is reported as an update of its master, whose    *)
(* timestamp moves but not its sequence.  seq is taken here, before the     *)
(* calendar row is locked.                                                  *)
AppendChange(t) ==
    /\ pc[t] = "replaced" \/ (pc[t] = "written" /\ req[t].op # "put")
    /\ LET masters == {m \in Id : m = img[t][target[t]].master /\ Exists(row[m])}
           change(i, op) == [seq |-> nextSeq, id |-> i, op |-> op, at |-> at[t]]
       IN  \/ /\ masters = {}
              /\ entry' = [entry EXCEPT ![t] = change(target[t], Operation(t))]
              /\ UNCHANGED <<locks, img>>
           \/ \E m \in masters :
                /\ Unlocked(m, t)
                /\ Write(t, m, [row[m] EXCEPT !.updated_at = at[t]])
                /\ entry' = [entry EXCEPT ![t] = change(m, "updated")]
    /\ nextSeq' = nextSeq + 1
    /\ Goto(t, "recorded")
    /\ UNCHANGED <<stored, clock, purged, context, at, target>>

(* record_change ends with UPDATE calendars SET ctag = ctag + 1, whose row  *)
(* lock is held to the commit: the two are one step.                        *)
Commit(t) ==
    /\ pc[t] = "recorded"
    /\ row' = [i \in Id |-> IF i \in locks[t] THEN img[t][i] ELSE row[i]]
    /\ log' = log \cup {entry[t]}
    /\ ctag' = ctag + 1
    /\ End(t, "ok")
    /\ UNCHANGED <<nextSeq, clock, purged>>

-----------------------------------------------------------------------------
(* What may happen to a transaction: the connection or the server is lost,  *)
(* or PostgreSQL breaks a deadlock.                                         *)

Crash(t) == pc[t] \in Sent \cup Running /\ Abort(t, "failed")

(* The transactions t's next statement waits for: holders of the rows it    *)
(* wants to lock, and writers of keys it is about to use.  A transaction    *)
(* that holds nothing yet is left out: nobody can be waiting for it.        *)
WaitsFor(t) ==
    LET wanted == CASE pc[t] = "begun" /\ req[t].op = "put" -> ResourceAt(req[t].href)
                    [] pc[t] = "found" -> WithUid(req[t].uid)
                    [] pc[t] = "written" /\ req[t].op = "put" -> OverridesOf(target[t])
                    [] pc[t] = "written" /\ req[t].op # "put" -> {img[t][target[t]].master}
                    [] OTHER -> {}
        r == IF target[t] \in Id THEN Replaced(t, row[target[t]]) ELSE NoRow
    IN  {u \in Txn \ {t} : wanted \cap locks[u] # {}}
        \cup CASE pc[t] = "decided" /\ target[t] # NoId -> Pending(t, Name(target[t], r), r)
               [] pc[t] = "written" /\ req[t].op = "put" /\ req[t].override
                    -> Pending(t, NoId, NewOverride(t))
               [] OTHER -> {}

(* A smallest set in which everyone waits for someone in it is a cycle. *)
Waiting(S) == S # {} /\ \A t \in S : WaitsFor(t) \cap S # {}
Deadlocked(S) == Waiting(S) /\ \A Q \in SUBSET S : Q # S => ~Waiting(Q)

BreakDeadlock(t) ==
    /\ \E S \in SUBSET Txn : t \in S /\ Deadlocked(S)
    /\ Abort(t, "failed")

-----------------------------------------------------------------------------
(* retention_purge: first the soft-deleted rows, overrides with their       *)
(* master, then the journal.  Retention is counted in days: a cut never     *)
(* reaches a transaction that is still running.  Times start at 1, so a cut *)
(* of 1 would remove nothing.                                               *)

Expired(cut) == {i \in Id : row[i].state = "deleted" /\ row[i].deleted_at < cut}
Cascade(S) == S \cup UNION {OverridesOf(m) : m \in S}
OldEnough(cut) == \A t \in Txn : at[t] # 0 => cut <= at[t]

PurgeRows ==
    /\ purged = 0
    /\ \E cut \in 2..clock :
        LET gone == Cascade(Expired(cut))
        IN  /\ OldEnough(cut)
            /\ \A t \in Txn : locks[t] \cap gone = {}
            /\ \A t \in Txn : \A i \in locks[t] : img[t][i].master \notin gone
            /\ row' = [i \in Id |-> IF i \in gone THEN [row[i] EXCEPT !.state = "gone"]
                                    ELSE row[i]]
            /\ purged' = cut
    /\ UNCHANGED <<log, ctag, nextSeq, clock, session>>

PurgeLog ==
    /\ purged # 0
    /\ \E cut \in purged..clock :
        /\ OldEnough(cut)
        /\ log' = {c \in log : c.at >= cut}
    /\ purged' = 0
    /\ UNCHANGED <<row, ctag, nextSeq, clock, session>>

Tick == clock < MaxClock /\ clock' = clock + 1
        /\ UNCHANGED <<stored, nextSeq, purged, session>>

-----------------------------------------------------------------------------
Init ==
    /\ row = Stored /\ log = StoredLog
    /\ nextSeq = FirstSeq /\ ctag = 0 /\ clock = 1 /\ purged = 0
    /\ pc = [t \in Txn |-> "idle"]
    /\ req = [t \in Txn |-> NoRequest]
    /\ seen = [t \in Txn |-> NoVersion] /\ held = [t \in Txn |-> NoVersion]
    /\ at = [t \in Txn |-> 0] /\ target = [t \in Txn |-> NoId]
    /\ locks = [t \in Txn |-> {}] /\ img = [t \in Txn |-> Blank]
    /\ entry = [t \in Txn |-> NoChange]

(* What the server and PostgreSQL do for a request once it has been sent. *)
Serve(t) ==
    \/ Precheck(t) \/ Open(t) \/ RemoveFile(t) \/ Handle(t) \/ Begin(t)
    \/ EditById(t) \/ Insert(t)
    \/ AtHref(t) \/ ByUid(t) \/ UpdateMaster(t) \/ InsertMaster(t) \/ ReplaceOverrides(t)
    \/ AppendChange(t) \/ Commit(t)

Next ==
    \/ \E t \in Txn : Send(t) \/ Serve(t) \/ BreakDeadlock(t) \/ Crash(t)
    \/ PurgeRows \/ PurgeLog \/ Tick

(* The server works on a request it has; PostgreSQL's deadlock detector runs. *)
Fairness == \A t \in Txn : WF_vars(Serve(t)) /\ WF_vars(BreakDeadlock(t))

Spec == Init /\ [][Next]_vars

-----------------------------------------------------------------------------
(* Properties. *)

(* Every variable keeps its type.  The only part that could fail is the i32  *)
(* of events.sequence, which every PATCH and PUT increments.                *)
TypeOK ==
    /\ row \in [Id -> Row]
    /\ log \subseteq Change
    /\ nextSeq \in Nat /\ ctag \in Nat
    /\ clock \in 1..MaxClock /\ purged \in 0..MaxClock
    /\ pc \in [Txn -> {"idle"} \cup Sent \cup Running \cup Ended]
    /\ req \in [Txn -> Request \cup {NoRequest}]
    /\ seen \in [Txn -> Version \cup {NoVersion}]
    /\ held \in [Txn -> Version \cup {NoVersion}]
    /\ at \in [Txn -> 0..MaxClock]
    /\ target \in [Txn -> Id \cup {NoId}]
    /\ locks \in [Txn -> SUBSET Id]
    /\ img \in [Txn -> [Id -> Row]]
    /\ entry \in [Txn -> Change]

Committing(t) == pc[t] = "recorded" /\ pc'[t] = "ok"

(* Overlapping transactions never leave two rows under one filename or two  *)
(* masters with one UID, soft-deleted rows included: a PUT that found the   *)
(* key free still meets whoever took it before it committed.                *)
KeysUnique ==
    \A i, j \in Id : i # j /\ Exists(row[i]) => ~Clash(Name(i, row[i]), row[i], j, row[j])

(* The calendar behaves as if every request ran alone, at its commit: one   *)
(* resource changes, its validator changes with it, and exactly one journal *)
(* entry says what happened to it.                                          *)
Atomic == INSTANCE AtomicCalendar WITH row <- row, log <- log, ctag <- ctag
ImplementsAtomic == Atomic!Spec

(* A database function that was told to match an etag commits over a row    *)
(* that still has that etag, whatever other transactions commit between its *)
(* check and its own commit (update_event, delete_event, put_series).       *)
ConditionalWrite ==
    [][\A t \in Txn : Committing(t) /\ held[t] # NoVersion =>
            Live(row[target[t]]) /\ SameEtag(held[t], row[target[t]])]_vars

(* A PUT replaces the whole series: when it commits, every override of the  *)
(* master comes from its body, also when overrides are edited meanwhile.    *)
PutReplacesSeries ==
    [][\A t \in Txn : Committing(t) /\ req[t].op = "put" =>
            \A i \in Id : Exists(row'[i]) /\ row'[i].master = target[t]
                            => row'[i].author = t]_vars

(* Every request that is sent is answered: no schedule of lock waits leaves *)
(* transactions waiting for one another for ever.                           *)
Finishes == \A t \in Txn : pc[t] = "sent" ~> pc[t] \in Ended

(* docs/ARCHITECTURE.md: "Use ETags/If-Match semantics to prevent lost      *)
(* updates."  A request that sent If-Match with an etag overwrites nothing  *)
(* but the content the client had read.                                     *)
NoLostUpdate ==
    [][\A t \in Txn : Committing(t) /\ seen[t] # NoVersion =>
            row[target[t]].author = seen[t].author]_vars

(* The error of a refused PUT says "etag precondition failed: resource      *)
(* changed concurrently": then what stands at the filename is not what it   *)
(* was when the PUT opened it.                                              *)
RefusedOnlyIfChanged ==
    [][\A t \in Txn :
            pc[t] = "begun" /\ pc'[t] = "conflict" /\ req[t].op = "put" /\ held[t] # NoVersion =>
            \A i \in ObjectAt(req[t].href) : VersionOf(row[i]) # held[t]]_vars

=============================================================================
