SPECIFICATION FairSyncSpec
CONSTANTS
    t1 = t1
    t2 = t2
    i1 = i1
    i2 = i2
    i3 = i3
    i4 = i4
    i5 = i5
    i6 = i6
    a = a
    b = b
    u = u
    v = v
    NoId = NoId
    NoHref = NoHref
    NoTxn = NoTxn
    NoVersion = NoVersion
    NoRequest = NoRequest
    NoLimit = NoLimit
    Txn = {t1, t2}
    Id = {i1, i2, i3, i4, i5, i6}
    Href = {a, b}
    Uid = {u, v}
    Requests <- MCRequests
    Stored <- MCStored
    StoredLog <- MCStoredLog
    FirstSeq = 4
    MaxClock = 2
    IntMax = 4
    Limits = {1, NoLimit}
    Fresh = FALSE
INVARIANTS
    SyncTypeOK
    NothingElseLost
PROPERTIES
    Converges
    Finishes
CHECK_DEADLOCK FALSE
