----------------------------- MODULE MCCalendarStore -----------------------------
(* CalendarStore for TLC: a series with an override, a soft-deleted series  *)
(* whose row still holds its UID and filename, and the requests of two or   *)
(* three clients on them.                                                   *)
EXTENDS CalendarStore, TLC

CONSTANTS t1, t2, t3, i1, i2, i3, i4, i5, i6, i7, a, b, u, v

MCStored ==
    LET Free == [state |-> "free", master |-> NoId, href |-> NoHref, uid |-> u, sequence |-> 0,
                 updated_at |-> 0, deleted_at |-> 0, author |-> NoTxn]
        Event == [Free EXCEPT !.state = "live", !.updated_at = 1]
    IN  [i \in Id |->
            CASE i = i1 -> [Event EXCEPT !.href = a]
              [] i = i2 -> [Event EXCEPT !.master = i1]
              [] i = i3 -> [Event EXCEPT !.state = "deleted", !.href = b, !.uid = v,
                                         !.deleted_at = 1]
              [] OTHER -> Free]

MCStoredLog ==
    {[seq |-> 1, id |-> i1, op |-> "created", at |-> 1],
     [seq |-> 2, id |-> i3, op |-> "created", at |-> 1],
     [seq |-> 3, id |-> i3, op |-> "deleted", at |-> 1]}

Ask(op, id, href, uid, cond, override, sequence) ==
    [op |-> op, id |-> id, href |-> href, uid |-> uid, cond |-> cond,
     override |-> override, sequence |-> sequence]
Put(href, uid, cond, override, sequence) == Ask("put", NoId, href, uid, cond, override, sequence)
Edit(op, id, cond) == Ask(op, id, NoHref, u, cond, FALSE, 0)

(* Every operation, conditional and not, on the series, its override and    *)
(* its filename, on the soft-deleted series, and on keys already taken.     *)
MCRequests ==
    {Put(a, u, "match", TRUE, 0), Put(a, v, "exists", FALSE, IntMax - 1),
     Put(i4, v, "absent", TRUE, 0),
     Ask("dav_delete", NoId, a, u, "match", FALSE, 0),
     Edit("patch", i1, "match"), Edit("patch", i2, "match"), Edit("delete", i1, "match"),
     Ask("create", NoId, NoHref, v, "none", FALSE, 0),
     Ask("create", i1, NoHref, u, "none", FALSE, 0)}

(* A conditional CalDAV DELETE, and a conditional CalDAV PUT, beside a PATCH *)
(* of the same event; a PUT without any condition to the filename of the    *)
(* soft-deleted series.                                                     *)
MCDavDelete == {Ask("dav_delete", NoId, a, u, "match", FALSE, 0), Edit("patch", i1, "none")}
MCDavPut == {Put(a, u, "match", FALSE, 0), Edit("patch", i1, "none")}
MCBarePut == {Put(b, v, "none", FALSE, 0)}

Requesters == Permutations(Txn)

=============================================================================
