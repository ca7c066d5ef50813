SPECIFICATION Spec
CONSTANTS
    t1 = t1
    t2 = t2
    t3 = t3
    i1 = i1
    i2 = i2
    i3 = i3
    i4 = i4
    i5 = i5
    i6 = i6
    i7 = i7
    a = a
    b = b
    u = u
    v = v
    NoId = NoId
    NoHref = NoHref
    NoTxn = NoTxn
    NoVersion = NoVersion
    NoRequest = NoRequest
    Txn = {t1}
    Id = {i1, i2, i3, i4, i5, i6, i7}
    Href = {a, b}
    Uid = {u, v}
    Requests <- MCBarePut
    Stored <- MCStored
    StoredLog <- MCStoredLog
    FirstSeq = 4
    MaxClock = 1
    IntMax = 4
PROPERTIES
    RefusedOnlyIfChanged
CHECK_DEADLOCK FALSE
