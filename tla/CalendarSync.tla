------------------------------- MODULE CalendarSync -------------------------------
(***************************************************************************)
(* A CalDAV client that follows the calendar of CalendarStore with         *)
(* sync-collection reports (RFC 6578): it keeps an etag per filename and   *)
(* the sync token of its last report, the largest change_log.seq that      *)
(* report covered.                                                         *)
(*                                                                         *)
(* The report reads token and rows in one REPEATABLE READ snapshot, so it  *)
(* is one action.  What the client does with an answer is external: it     *)
(* applies the entries, and after a 409 starts again from nothing.         *)
(***************************************************************************)
EXTENDS CalendarStore, FiniteSetsExt

CONSTANTS
    Limits,    \* the DAV:limit values a client may send; NoLimit for none
    NoLimit,
    Fresh      \* whether the client starts with no state, or in sync

ASSUME LimitAssumption ==
    Limits \subseteq (Nat \ {0}) \cup {NoLimit} /\ NoLimit \notin Nat /\ Fresh \in BOOLEAN

(* The journal the calendar starts with is one append_change has written:   *)
(* a change of an override is an entry of its master, and the last entry of *)
(* an event is a deletion only if the event is deleted.                     *)
ASSUME JournalAssumption ==
    /\ IsFiniteSet(StoredLog)
    /\ \A c, d \in StoredLog : c.seq = d.seq => c = d
    /\ \A c \in StoredLog :
        /\ Stored[c.id].state # "free" /\ (Exists(Stored[c.id]) => Stored[c.id].master = NoId)
        /\ c.op = "deleted" /\ (\A d \in StoredLog : d.id = c.id => d.seq <= c.seq)
            => ~Live(Stored[c.id])

VARIABLES
    mirror,  \* what the client holds under each filename
    token,   \* its sync token
    horizon, \* history: the largest seq the retention purge has removed
    missed   \* history: filenames whose last change no report will show the client

client == <<mirror, token>>
syncVars == <<vars, client, horizon, missed>>

Names == Href \cup Id

-----------------------------------------------------------------------------
(* The report. *)

(* Mutant: the next value of the identity, not the largest seq there is. *)
CurrentOfIdentity == nextSeq

(* MAX(seq) of the snapshot. *)
Current == IF log = {} THEN 0 ELSE Max({c.seq : c \in log})

(* COALESCE(o.href, cl.resource_id::text || '.ics'). *)
NameIn(table, i) == IF Exists(table[i]) THEN Name(i, table[i]) ELSE i
HrefOf(i) == NameIn(row, i)

(* Mutant: off by one. *)
NotBehind == token >= Current

(* A token beyond the current sequence is answered 409 valid-sync-token. *)
Refused == token > Current

(* latest_changes: the newest entry per resource. *)
Latest(since) ==
    {c \in log : c.seq > since /\ \A d \in log : d.id = c.id => d.seq <= c.seq}

(* ChangeRow::is_delete. *)
IsDelete(c) == c.op = "deleted" \/ row[c.id].state = "deleted"

(* truncate_changes: the first n entries, and the deletions after them; the *)
(* token is the last of the n.                                              *)
First(changes, n) == {c \in changes : Cardinality({d \in changes : d.seq < c.seq}) < n}

Truncated(changes, limit) == limit # NoLimit /\ Cardinality(changes) > limit

Selected(changes, limit) ==
    IF Truncated(changes, limit)
      THEN First(changes, limit) \cup {c \in changes : IsDelete(c)}
      ELSE changes

(* Mutant: a page ends with the token of the snapshot. *)
NextTokenOfSnapshot(changes, limit) == Current

NextToken(changes, limit) ==
    IF Truncated(changes, limit) THEN Max({c.seq : c \in First(changes, limit)}) ELSE Current

(* What the answer says of a filename: the etag joined from the row; a row  *)
(* that is gone leaves an entry without one.                                *)
NoEtag == [sequence |-> 0, updated_at |-> 0, author |-> NoTxn]
Reported(c) == IF IsDelete(c) THEN NoVersion
               ELSE IF Exists(row[c.id]) THEN VersionOf(row[c.id]) ELSE NoEtag

-----------------------------------------------------------------------------
(* The client and the calendar. *)

AtName(h) == {i \in Id : IsMaster(row[i]) /\ Live(row[i]) /\ Name(i, row[i]) = h}

Agrees(h) == IF AtName(h) = {} THEN mirror[h] = NoVersion
             ELSE \A i \in AtName(h) : mirror[h] = VersionOf(row[i])

(* Some entry the next report will read is about h. *)
Announced(h) == \E c \in log : c.seq > token /\ HrefOf(c.id) = h

Apply(entries) ==
    [h \in Names |->
        IF \E c \in entries : HrefOf(c.id) = h
          THEN Reported(CHOOSE c \in entries :
                            /\ HrefOf(c.id) = h
                            /\ \A d \in entries : HrefOf(d.id) = h => d.seq <= c.seq)
          ELSE mirror[h]]

(* The names an initial sync cannot learn: live, and without an entry left. *)
Unlisted == {h \in Names : AtName(h) # {} /\ ~\E c \in log : HrefOf(c.id) = h}

(* What an entry says of its filename is wrong.  Once its row is gone it    *)
(* stands for "{id}.ics": that does not exist, or is another event.  And of *)
(* an event that came back after a deletion the purge may have left the     *)
(* deletion alone, because it goes by changed_at and not by seq.            *)
Misleading(c) ==
    \/ ~Exists(row[c.id]) /\ (IsDelete(c) => AtName(c.id) # {})
    \/ c.op = "deleted" /\ Live(row[c.id]) /\ c.seq < horizon

(* sync_collection with the client's token and a limit. *)
Report(limit) ==
    /\ UNCHANGED <<vars, horizon>>
    /\ IF Refused
         THEN /\ mirror' = [h \in Names |-> NoVersion] /\ token' = 0
              /\ missed' = Unlisted
         ELSE LET changes == Latest(token)
              IN  /\ token' = NextToken(changes, limit)
                  /\ mirror' = Apply(Selected(changes, limit))
                  /\ LET told(wrong) == {HrefOf(c.id) : c \in {d \in Selected(changes, limit) :
                                                                Misleading(d) <=> wrong}}
                     IN  missed' = (missed \ told(FALSE)) \cup told(TRUE)

-----------------------------------------------------------------------------
(* What the journal fails to tell the client, step by step of the store. *)

(* A transaction took its seq, a report went past it, then it commits.      *)
CommittedLate(t) ==
    IF entry[t].seq <= token
      THEN {NameIn(table, entry[t].id) : table \in {row, row'}}
      ELSE {}

(* A soft-deleted series comes back under another filename: the journal     *)
(* knows resources by id, so the old filename is never reported deleted.    *)
RenamedFrom(t) ==
    LET i == entry[t].id
    IN  IF Exists(row[i]) /\ NameIn(row', i) # HrefOf(i) THEN {HrefOf(i)} ELSE {}

(* Once its row is gone, a deletion is reported under "{id}.ics"; and a     *)
(* later edit of a leftover override under the same name, as an update.     *)
PurgedUnseen ==
    LET unseen == {i \in Id : \E c \in Latest(token) : c.id = i}
        gone == {i \in unseen : Exists(row[i]) /\ ~Exists(row'[i])}
    IN  {HrefOf(i) : i \in gone} \cup gone

(* The last entry of a resource goes before the client has seen it. *)
ForgottenUnseen == {HrefOf(c.id) : c \in Latest(token) \ log'}

Missing ==
    \/ \E t \in Txn : Committing(t) /\ missed' = missed \cup CommittedLate(t) \cup RenamedFrom(t)
    \/ /\ \A t \in Txn : ~Committing(t)
       /\ missed' = missed \cup PurgedUnseen \cup ForgottenUnseen

Store ==
    /\ Next
    /\ Missing
    /\ horizon' = Max({horizon} \cup {c.seq : c \in log \ log'})
    /\ UNCHANGED client

SyncInit ==
    /\ Init
    /\ horizon = 0
    /\ IF Fresh THEN token = 0 /\ missed = Unlisted /\ mirror = [h \in Names |-> NoVersion]
       ELSE /\ token = FirstSeq - 1 /\ missed = {}
            /\ mirror = [h \in Names |-> IF AtName(h) = {} THEN NoVersion
                                         ELSE VersionOf(row[CHOOSE i \in AtName(h) : TRUE])]

SyncNext == Store \/ \E limit \in Limits : Report(limit)

SyncSpec == SyncInit /\ [][SyncNext]_syncVars

(* A client polls: it goes on asking for reports.  The server and PostgreSQL *)
(* work on the requests they have.                                          *)
FairSyncSpec == SyncSpec /\ WF_syncVars(\E limit \in Limits : Report(limit)) /\ Fairness

-----------------------------------------------------------------------------
(* Properties. *)

(* The client's state and the history variables keep their types. *)
SyncTypeOK ==
    /\ mirror \in [Names -> Version \cup {NoVersion}]
    /\ token \in 0..nextSeq - 1 /\ horizon \in 0..nextSeq - 1
    /\ missed \subseteq Names

(* Late commits, renames on resurrection and purges are the only ways a     *)
(* report loses a change: under any other filename the client is right, or  *)
(* the journal still holds an entry after its token that will tell it,      *)
(* whatever limit its reports were truncated by.                            *)
NothingElseLost == \A h \in Names \ missed : Agrees(h) \/ Announced(h)

(* A polling client ends up right about every filename it has not missed a  *)
(* change of, once the calendar is at rest.                                 *)
Converges == <>[](\A h \in Names \ missed : Agrees(h))

(* dav.rs, of the snapshot: "Token and rows must come from one consistent   *)
(* snapshot: a change committed between the two reads would be reported     *)
(* with a token that claims to cover it, and the client would never see     *)
(* it."  So a client with the newest token there is holds what is there.    *)
CaughtUp == token = Current => \A h \in Names : Agrees(h)

(* jobs.rs, of the journal purge: "clients that page in past the purge      *)
(* point get a sync-token mismatch and must resync".                        *)
PurgedTokenRefused ==
    [][(token # 0 /\ token < horizon) => (client' = client \/ token' = 0)]_syncVars

(* A client that starts with no token, or that was told to start again,     *)
(* learns of everything there is: docs/ARCHITECTURE.md calls it a "full     *)
(* resynchronization", the interoperability tests check that the "initial   *)
(* sync lists" what is stored.                                              *)
InitialSyncComplete ==
    [][token = 0 /\ token' # 0 /\ token' = Current =>
            \A h \in Names : AtName(h) # {} => mirror'[h] # NoVersion]_syncVars

=============================================================================
