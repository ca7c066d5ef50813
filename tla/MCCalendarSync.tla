----------------------------- MODULE MCCalendarSync -----------------------------
(* CalendarSync for TLC: the table of MCCalendarStore, two writers and a    *)
(* client that asks for a page of one entry or for everything.              *)
EXTENDS CalendarSync, TLC

CONSTANTS t1, t2, i1, i2, i3, i4, i5, i6, a, b, u, v

MCStored ==
    LET Free == [state |-> "free", master |-> NoId, href |-> NoHref, uid |-> u, sequence |-> 0,
                 updated_at |-> 0, deleted_at |-> 0, author |-> NoTxn]
        Event == [Free EXCEPT !.state = "live", !.updated_at = 1]
    IN  [i \in Id |->
            CASE i = i1 -> [Event EXCEPT !.href = a]
              [] i = i2 -> [Event EXCEPT !.master = i1]
              [] i = i3 -> [Event EXCEPT !.state = "deleted", !.href = b, !.uid = v,
                                         !.deleted_at = 1]
              [] OTHER -> Free]

MCStoredLog ==
    {[seq |-> 1, id |-> i1, op |-> "created", at |-> 1],
     [seq |-> 2, id |-> i3, op |-> "created", at |-> 1],
     [seq |-> 3, id |-> i3, op |-> "deleted", at |-> 1]}

Ask(op, id, href, uid, cond, override) ==
    [op |-> op, id |-> id, href |-> href, uid |-> uid, cond |-> cond,
     override |-> override, sequence |-> 0]

(* Changes of the series and its override, a deletion, the return of the     *)
(* soft-deleted series under its old filename, and PUTs of both series       *)
(* under a filename made of the id of the first.                             *)
MCRequests ==
    {Ask("put", NoId, a, u, "none", TRUE), Ask("dav_delete", NoId, a, u, "none", FALSE),
     Ask("put", NoId, b, v, "absent", FALSE), Ask("put", NoId, i1, v, "none", FALSE),
     Ask("put", NoId, i1, u, "none", FALSE), Ask("patch", i2, NoHref, u, "none", FALSE)}

(* Two changes of different events.                                          *)
MCOverlap == {Ask("patch", i1, NoHref, u, "none", FALSE),
              Ask("put", NoId, b, v, "absent", FALSE)}

=============================================================================
