--------------------------- MODULE WebClientProofs ---------------------------
(***************************************************************************)
(* Theorems about the pages of the web client, each for any number of       *)
(* requests under way, of lost ones and of clicks: what a page shows, once  *)
(* its answers have come, is what the server has.                           *)
(*                                                                         *)
(* The parts differ in what they ask for and when they ask again; how a     *)
(* message comes into net, is answered and leaves it is the same for all.   *)
(* The parts of the index page follow in IndexPageProofs.                    *)
(***************************************************************************)
EXTENDS RowSwitches, ContactsPage, CredentialsPage, ProvidersPage, AccountDialog,
        JournalForm, TasksPane, SequenceTheorems, TLAPS
LOCAL INSTANCE SequencesExt

(* A sequence of messages. *)
Posted(q) == /\ q \in Seq({q[k] : k \in DOMAIN q})
             /\ \A k \in DOMAIN q : {"op", "arg", "at"} \subseteq DOMAIN q[k]

(* Where the k-th of the messages left by n was, and where the m-th is then. *)
Was(k, n) == IF k < n THEN k ELSE k + 1
Now(m, n) == IF m < n THEN m ELSE m - 1

(* A message of this kind comes after the k-th. *)
Followed(q, k, op) == \E j \in DOMAIN q : j > k /\ q[j].op = op

(* r is q with one more message at its end. *)
Sends(q, r, op, arg) ==
    /\ Posted(r)
    /\ DOMAIN r = DOMAIN q \cup {Len(r)} /\ Len(r) \notin DOMAIN q
    /\ Len(r) \in Nat /\ Len(q) \in Nat /\ Len(r) = Len(q) + 1
    /\ \A k \in DOMAIN q : k < Len(r) /\ r[k] = q[k]
    /\ r[Len(r)].op = op /\ r[Len(r)].arg = arg /\ r[Len(r)].at = "sent"

LEMMA PostedIs ==
    ASSUME NEW S, NEW q \in Seq(S),
           \A k \in DOMAIN q : {"op", "arg", "at"} \subseteq DOMAIN q[k]
    PROVE  Posted(q)
<1> DEFINE T == {q[k] : k \in DOMAIN q}
<1>1. Len(q) \in Nat /\ q \in [1 .. Len(q) -> S] /\ DOMAIN q = 1 .. Len(q)
  BY LenProperties
<1>2. \A k \in DOMAIN q : q[k] \in T
  OBVIOUS
<1> HIDE DEF T
<1>3. q \in [1 .. Len(q) -> T]
  BY <1>1, <1>2
<1>4. q \in Seq(T)
  BY <1>1, <1>3, SeqDef
<1> QED
  BY <1>4 DEF Posted, T

LEMMA PostedDomain ==
    ASSUME NEW q, Posted(q)
    PROVE  Len(q) \in Nat /\ DOMAIN q = 1 .. Len(q) /\ DOMAIN q \subseteq Nat
<1> DEFINE S == {q[k] : k \in DOMAIN q}
<1>1. q \in Seq(S)
  BY DEF Posted
<1> HIDE DEF S
<1> QED
  BY <1>1, LenProperties

LEMMA NothingPosted == Posted(<<>>) /\ DOMAIN <<>> = {}
<1>1. <<>> \in Seq({}) /\ DOMAIN <<>> = {}
  BY EmptySeq, LenProperties
<1> QED
  BY <1>1, PostedIs

LEMMA SendTells ==
    ASSUME NEW q, Posted(q), NEW op, NEW arg
    PROVE  Sends(q, Append(q, Request(op, arg)), op, arg)
<1> DEFINE m == Request(op, arg)
           r == Append(q, m)
           S == {q[k] : k \in DOMAIN q} \cup {m}
<1>1. q \in Seq({q[k] : k \in DOMAIN q}) /\ {q[k] : k \in DOMAIN q} \subseteq S /\ m \in S
  BY DEF Posted
<1>2. q \in Seq(S) /\ r = Append(q, m)
  BY <1>1, SeqDef
<1>3. m.op = op /\ m.arg = arg /\ m.at = "sent" /\ {"op", "arg", "at"} \subseteq DOMAIN m
  BY DEF Request
<1>4. \A k \in DOMAIN q : {"op", "arg", "at"} \subseteq DOMAIN q[k]
  BY DEF Posted
<1> HIDE DEF S, m, r
<1>5. /\ r \in Seq(S) /\ Len(r) = Len(q) + 1 /\ r[Len(q) + 1] = m
      /\ \A k \in 1 .. Len(q) : r[k] = q[k]
  BY <1>1, <1>2, AppendProperties
<1>6. Len(q) \in Nat /\ DOMAIN q = 1 .. Len(q) /\ DOMAIN r = 1 .. Len(q) + 1
  BY <1>2, <1>5, LenProperties
<1>7. DOMAIN r = DOMAIN q \cup {Len(r)} /\ Len(r) \notin DOMAIN q
  BY <1>5, <1>6
<1>8. \A k \in DOMAIN q : k < Len(r) /\ r[k] = q[k]
  BY <1>5, <1>6
<1>9. Posted(r)
  <2>1. \A k \in DOMAIN r : {"op", "arg", "at"} \subseteq DOMAIN r[k]
    BY <1>3, <1>4, <1>5, <1>7, <1>8
  <2> QED
    BY <1>5, <2>1, PostedIs
<1>10. Sends(q, r, op, arg)
  BY <1>3, <1>5, <1>6, <1>7, <1>8, <1>9 DEF Sends
<1> QED
  BY <1>10 DEF r, m

LEMMA ReplaceTells ==
    ASSUME Posted(net), NEW n \in DOMAIN net, NEW m, {"op", "arg", "at"} \subseteq DOMAIN m,
           NEW r, r = [net EXCEPT ![n] = m]
    PROVE  /\ Posted(r) /\ DOMAIN r = DOMAIN net /\ r[n] = m
           /\ \A k \in DOMAIN net \ {n} : r[k] = net[k]
<1> DEFINE S == {net[k] : k \in DOMAIN net} \cup {m}
<1>1. net \in Seq({net[k] : k \in DOMAIN net}) /\ {net[k] : k \in DOMAIN net} \subseteq S /\ m \in S
  BY DEF Posted
<1>2. net \in Seq(S)
  BY <1>1, SeqDef
<1>3. \A k \in DOMAIN net : {"op", "arg", "at"} \subseteq DOMAIN net[k]
  BY DEF Posted
<1> HIDE DEF S
<1>4. n \in 1 .. Len(net)
  BY <1>2, LenProperties
<1>5. r \in Seq(S)
  BY <1>1, <1>2, <1>4, ExceptSeq
<1>6. DOMAIN r = DOMAIN net /\ r[n] = m /\ \A k \in DOMAIN net \ {n} : r[k] = net[k]
  OBVIOUS
<1>7. Posted(r)
  BY <1>3, <1>5, <1>6, PostedIs
<1> QED
  BY <1>6, <1>7

LEMMA ReplyTells ==
    ASSUME Posted(net), NEW n \in DOMAIN net, NEW answer, NEW r, r = Reply(n, answer)
    PROVE  /\ Posted(r) /\ DOMAIN r = DOMAIN net
           /\ r[n].op = net[n].op /\ r[n].arg = net[n].arg
           /\ r[n].at = "answered" /\ r[n].ans = answer
           /\ \A k \in DOMAIN net \ {n} : r[k] = net[k]
<1> DEFINE m == [op |-> net[n].op, arg |-> net[n].arg, at |-> "answered", ans |-> answer]
<1>1. {"op", "arg", "at"} \subseteq DOMAIN m /\ r = [net EXCEPT ![n] = m]
  BY DEF Reply
<1>2. m.op = net[n].op /\ m.arg = net[n].arg /\ m.at = "answered" /\ m.ans = answer
  OBVIOUS
<1> HIDE DEF m
<1> QED
  BY <1>1, <1>2, ReplaceTells

LEMMA RejectTells ==
    ASSUME Posted(net), NEW n \in DOMAIN net, NEW r, r = Reject(n)
    PROVE  /\ Posted(r) /\ DOMAIN r = DOMAIN net
           /\ r[n].op = net[n].op /\ r[n].arg = net[n].arg /\ r[n].at = "failed"
           /\ \A k \in DOMAIN net \ {n} : r[k] = net[k]
<1> DEFINE m == [net[n] EXCEPT !.at = "failed"]
<1>1. {"op", "arg", "at"} \subseteq DOMAIN net[n]
  BY DEF Posted
<1>2. {"op", "arg", "at"} \subseteq DOMAIN m /\ r = [net EXCEPT ![n] = m]
  BY <1>1 DEF Reject
<1>3. m.op = net[n].op /\ m.arg = net[n].arg /\ m.at = "failed"
  BY <1>1
<1> HIDE DEF m
<1> QED
  BY <1>2, <1>3, ReplaceTells

LEMMA SettleTells ==
    ASSUME Posted(net), NEW n \in DOMAIN net, NEW r, r = Settle(n)
    PROVE  /\ Posted(r)
           /\ \A k \in DOMAIN r : Was(k, n) \in DOMAIN net \ {n} /\ r[k] = net[Was(k, n)]
           /\ \A m \in DOMAIN net \ {n} : Now(m, n) \in DOMAIN r /\ r[Now(m, n)] = net[m]
           /\ \A k \in DOMAIN r, m \in DOMAIN net \ {n} :
                /\ m > Was(k, n) => Now(m, n) > k
                /\ Was(Now(m, n), n) = m
<1> DEFINE S == {net[k] : k \in DOMAIN net}
           p == SubSeq(net, 1, n - 1)
           q == SubSeq(net, n + 1, Len(net))
<1>1. net \in Seq(S) /\ \A k \in DOMAIN net : {"op", "arg", "at"} \subseteq DOMAIN net[k]
  BY DEF Posted
<1>2. r = p \o q
  BY DEF Settle, RemoveAt
<1> HIDE DEF S
<1>3. n \in 1 .. Len(net) /\ Len(net) \in Nat /\ DOMAIN net = 1 .. Len(net)
  BY <1>1, LenProperties
<1>4. p \in Seq(S) /\ Len(p) = n - 1 /\ \A k \in 1 .. n - 1 : p[k] = net[k]
  BY <1>1, <1>3, SubSeqProperties, SMTT(30)
<1>5. q \in Seq(S) /\ Len(q) = Len(net) - n /\ \A k \in 1 .. Len(net) - n : q[k] = net[n + k]
  BY <1>1, <1>3, SubSeqProperties, SMTT(30)
<1> HIDE DEF p, q
<1>6. /\ r \in Seq(S) /\ Len(r) = Len(p) + Len(q)
      /\ \A k \in 1 .. Len(p) + Len(q) : r[k] = IF k <= Len(p) THEN p[k] ELSE q[k - Len(p)]
  BY <1>2, <1>4, <1>5, ConcatProperties, SMTT(30)
<1>7. Len(r) = Len(net) - 1 /\ DOMAIN r = 1 .. Len(net) - 1
  BY <1>3, <1>4, <1>5, <1>6, LenProperties
<1>8. ASSUME NEW k \in DOMAIN r
      PROVE  Was(k, n) \in DOMAIN net \ {n} /\ r[k] = net[Was(k, n)]
  <2>1. CASE k < n
    BY <1>3, <1>4, <1>5, <1>6, <1>7, <2>1 DEF Was
  <2>2. CASE ~(k < n)
    <3>1. k - Len(p) \in 1 .. Len(net) - n /\ k \in 1 .. Len(p) + Len(q) /\ ~(k <= Len(p))
      BY <1>3, <1>4, <1>5, <1>7, <2>2
    <3>2. r[k] = net[n + (k - Len(p))]
      BY <1>5, <1>6, <3>1
    <3>3. n + (k - Len(p)) = k + 1
      BY <1>3, <1>4, <1>7
    <3>4. Was(k, n) = k + 1 /\ k + 1 \in DOMAIN net \ {n}
      BY <1>3, <1>7, <2>2 DEF Was
    <3> QED
      BY <3>2, <3>3, <3>4
  <2> QED
    BY <2>1, <2>2
<1>9. ASSUME NEW m \in DOMAIN net \ {n}
      PROVE  Now(m, n) \in DOMAIN r /\ Was(Now(m, n), n) = m
  BY <1>3, <1>7, <1>9 DEF Was, Now
<1>10. ASSUME NEW k \in DOMAIN r, NEW m \in DOMAIN net \ {n}, m > Was(k, n)
       PROVE  Now(m, n) > k
  BY <1>3, <1>7, <1>10 DEF Was, Now
<1>11. Posted(r)
  BY <1>1, <1>6, <1>8, PostedIs
<1> QED
  BY <1>8, <1>9, <1>10, <1>11

---------------------------------------------------------------------------
(* A view of the server's data that is loaded with messages of kind op.      *)

(* Some change is under way whose answer will ask again; or every answer of  *)
(* the kind, if it is not followed by a newer one, is about who and brings   *)
(* the truth, and where nothing is under way the view holds it.              *)
Fresh(q, op, who, changes, shown, truth) ==
    \/ \E k \in DOMAIN q : q[k].op \in changes
    \/ /\ \A k \in DOMAIN q :
             q[k].op = op => \/ Followed(q, k, op)
                             \/ q[k].arg = who /\ (q[k].at = "answered" => q[k].ans = truth)
       /\ (\A k \in DOMAIN q : q[k].op # op) => shown = truth

LEMMA AskedAgain ==
    ASSUME NEW q, Posted(q), NEW op, NEW who, NEW r, Sends(q, r, op, who),
           NEW changes, NEW shown, NEW truth
    PROVE  Fresh(r, op, who, changes, shown, truth)
<1>1. /\ DOMAIN r = DOMAIN q \cup {Len(r)} /\ \A k \in DOMAIN q : k < Len(r)
      /\ r[Len(r)].op = op /\ r[Len(r)].arg = who /\ r[Len(r)].at = "sent"
      /\ Len(r) \in Nat /\ DOMAIN q \subseteq Nat
  BY PostedDomain DEF Sends
<1>2. \A k \in DOMAIN q : Followed(r, k, op)
  BY <1>1 DEF Followed
<1> QED
  BY <1>1, <1>2 DEF Fresh

LEMMA AskedElse ==
    ASSUME NEW q, Posted(q), NEW op, NEW arg, NEW r, Sends(q, r, op, arg),
           NEW kind, op # kind, NEW who, NEW changes, NEW shown, NEW truth,
           Fresh(q, kind, who, changes, shown, truth)
    PROVE  Fresh(r, kind, who, changes, shown, truth)
<1>1. /\ DOMAIN r = DOMAIN q \cup {Len(r)} /\ \A k \in DOMAIN q : r[k] = q[k]
      /\ r[Len(r)].op = op
  BY DEF Sends
<1>2. \A k \in DOMAIN q : Followed(q, k, kind) => Followed(r, k, kind)
  BY <1>1 DEF Followed
<1> QED
  BY <1>1, <1>2 DEF Fresh

(* A message is answered or refused in its place. *)
LEMMA AnsweredInPlace ==
    ASSUME NEW q, NEW r, NEW n \in DOMAIN q, DOMAIN r = DOMAIN q,
           r[n].op = q[n].op, r[n].arg = q[n].arg, \A k \in DOMAIN q \ {n} : r[k] = q[k],
           NEW op, NEW who, NEW changes, NEW shown, NEW truth, NEW now,
           Fresh(q, op, who, changes, shown, truth),
           now = truth \/ q[n].op \in changes,
           q[n].op = op /\ r[n].at = "answered" /\ r[n].arg = who => r[n].ans = now
    PROVE  Fresh(r, op, who, changes, shown, now)
<1>1. \A k \in DOMAIN q : r[k].op = q[k].op /\ r[k].arg = q[k].arg
  OBVIOUS
<1>2. CASE \E k \in DOMAIN q : q[k].op \in changes
  BY <1>1, <1>2 DEF Fresh
<1>3. CASE ~\E k \in DOMAIN q : q[k].op \in changes
  <2>1. now = truth
    BY <1>3
  <2>2. \A k \in DOMAIN q : Followed(q, k, op) => Followed(r, k, op)
    BY <1>1 DEF Followed
  <2> QED
    BY <1>1, <1>3, <2>1, <2>2 DEF Fresh
<1> QED
  BY <1>2, <1>3

(* What followed a message still follows it, but for the one that left. *)
LEMMA StillFollowed ==
    ASSUME Posted(net), NEW n \in DOMAIN net, NEW r, r = Settle(n), NEW op,
           NEW k \in DOMAIN r, Followed(net, Was(k, n), op)
    PROVE  Followed(r, k, op) \/ (net[n].op = op /\ Was(k, n) < n)
<1>1. PICK m \in DOMAIN net : m > Was(k, n) /\ net[m].op = op
  BY DEF Followed
<1>2. CASE m = n
  BY <1>1, <1>2, PostedDomain, SettleTells
<1>3. CASE m # n
  <2>1. Now(m, n) \in DOMAIN r /\ r[Now(m, n)] = net[m] /\ Now(m, n) > k
    BY <1>1, <1>3, SettleTells
  <2> QED
    BY <1>1, <2>1 DEF Followed
<1> QED
  BY <1>2, <1>3

LEMMA OvertakenIs ==
    ASSUME Posted(net), NEW n \in DOMAIN net, NEW m \in DOMAIN net, m < n, NEW op, net[m].op = op
    PROVE  Overtakes(n, {op})
BY PostedDomain DEF Overtakes

(* The answer is shown. *)
LEMMA ShownInOrder ==
    ASSUME Posted(net), NEW n \in DOMAIN net, NEW r, r = Settle(n),
           NEW op, net[n].op = op, net[n].at = "answered", ~Overtakes(n, {op}),
           NEW who, NEW changes, op \notin changes, NEW shown, NEW truth,
           Fresh(net, op, who, changes, shown, truth)
    PROVE  Fresh(r, op, who, changes, net[n].ans, truth)
<1>1. CASE \E k \in DOMAIN net : net[k].op \in changes
  <2>1. PICK k \in DOMAIN net \ {n} : net[k].op \in changes
    BY <1>1
  <2> QED
    BY <2>1, SettleTells DEF Fresh
<1>2. CASE ~\E k \in DOMAIN net : net[k].op \in changes
  <2>1. ASSUME NEW k \in DOMAIN r, r[k].op = op
        PROVE  \/ Followed(r, k, op)
               \/ r[k].arg = who /\ (r[k].at = "answered" => r[k].ans = truth)
    <3>1. Was(k, n) \in DOMAIN net /\ r[k] = net[Was(k, n)]
      BY SettleTells
    <3>2. ~(Was(k, n) < n)
      BY <2>1, <3>1, OvertakenIs
    <3> QED
      BY <1>2, <2>1, <3>1, <3>2, StillFollowed DEF Fresh
  <2>2. ASSUME \A k \in DOMAIN r : r[k].op # op
        PROVE  net[n].ans = truth
    <3>1. ~Followed(net, n, op)
      <4>1. SUFFICES ASSUME NEW m \in DOMAIN net, m > n, net[m].op = op PROVE FALSE
        BY DEF Followed
      <4>2. m # n
        BY <4>1, PostedDomain
      <4> QED
        BY <2>2, <4>1, <4>2, SettleTells
    <3> QED
      BY <1>2, <3>1 DEF Fresh
  <2> QED
    BY <2>1, <2>2 DEF Fresh
<1> QED
  BY <1>1, <1>2

(* A message that is neither of the kind nor a change leaves. *)
LEMMA OthersSettled ==
    ASSUME Posted(net), NEW n \in DOMAIN net, NEW r, r = Settle(n),
           NEW op, NEW changes, net[n].op \notin changes \cup {op}, NEW who, NEW shown, NEW truth,
           Fresh(net, op, who, changes, shown, truth)
    PROVE  Fresh(r, op, who, changes, shown, truth)
<1>1. CASE \E k \in DOMAIN net : net[k].op \in changes
  <2>1. PICK k \in DOMAIN net \ {n} : net[k].op \in changes
    BY <1>1
  <2> QED
    BY <2>1, SettleTells DEF Fresh
<1>2. CASE ~\E k \in DOMAIN net : net[k].op \in changes
  <2>1. ASSUME NEW k \in DOMAIN r, r[k].op = op
        PROVE  \/ Followed(r, k, op)
               \/ r[k].arg = who /\ (r[k].at = "answered" => r[k].ans = truth)
    <3>1. Was(k, n) \in DOMAIN net /\ r[k] = net[Was(k, n)]
      BY SettleTells
    <3> QED
      BY <1>2, <2>1, <3>1, StillFollowed DEF Fresh
  <2>2. ASSUME \A k \in DOMAIN r : r[k].op # op
        PROVE  shown = truth
    <3>1. ASSUME NEW m \in DOMAIN net PROVE net[m].op # op
      BY <2>2, SettleTells
    <3> QED
      BY <1>2, <3>1 DEF Fresh
  <2> QED
    BY <2>1, <2>2 DEF Fresh
<1> QED
  BY <1>1, <1>2

---------------------------------------------------------------------------
(* Messages that are awaited, whichever they are. *)
Awaited(q, ops) == \E k \in DOMAIN q : q[k].op \in ops

LEMMA StillAwaited ==
    ASSUME Posted(net), NEW n \in DOMAIN net, NEW r, r = Settle(n),
           NEW ops, net[n].op \notin ops, Awaited(net, ops)
    PROVE  Awaited(r, ops)
<1>1. PICK m \in DOMAIN net \ {n} : net[m].op \in ops
  BY DEF Awaited
<1> QED
  BY <1>1, SettleTells DEF Awaited

(* A message that waited already is one of those that wait now. *)
LEMMA SettledWere ==
    ASSUME Posted(net), NEW n \in DOMAIN net, NEW r, r = Settle(n)
    PROVE  Posted(r) /\ \A k \in DOMAIN r : \E m \in DOMAIN net : m # n /\ r[k] = net[m]
BY SettleTells

(* Two messages are sent one after the other. *)
LEMMA SendsTwo ==
    ASSUME NEW q, Posted(q), NEW x, NEW y
    PROVE  q \o <<x, y>> = Append(Append(q, x), y)
<1> DEFINE S == {q[k] : k \in DOMAIN q} \cup {x, y}
           p == Append(q, x)
           r == Append(p, y)
           t == <<x, y>>
           s == q \o t
<1>1. q \in Seq({q[k] : k \in DOMAIN q}) /\ {q[k] : k \in DOMAIN q} \subseteq S /\ x \in S /\ y \in S
  BY DEF Posted
<1>2. q \in Seq(S) /\ Len(q) \in Nat
  BY <1>1, SeqDef, PostedDomain
<1>3. t \in Seq(S) /\ Len(t) = 2 /\ t[1] = x /\ t[2] = y
  BY <1>1
<1> HIDE DEF S, t
<1>4. p \in Seq(S) /\ Len(p) = Len(q) + 1 /\ p[Len(q) + 1] = x /\ \A k \in 1 .. Len(q) : p[k] = q[k]
  BY <1>1, <1>2, AppendProperties
<1> HIDE DEF p
<1>5. r \in Seq(S) /\ Len(r) = Len(p) + 1 /\ r[Len(p) + 1] = y /\ \A k \in 1 .. Len(p) : r[k] = p[k]
  BY <1>1, <1>4, AppendProperties
<1>6. /\ s \in Seq(S) /\ Len(s) = Len(q) + Len(t)
      /\ \A k \in 1 .. Len(q) + Len(t) : s[k] = IF k <= Len(q) THEN q[k] ELSE t[k - Len(q)]
  BY <1>2, <1>3, ConcatProperties
<1> HIDE DEF r, s
<1>7. Len(r) = Len(s) /\ Len(s) = Len(q) + 2
  BY <1>2, <1>3, <1>4, <1>5, <1>6
<1>8. ASSUME NEW k \in 1 .. Len(s) PROVE s[k] = r[k]
  <2>1. CASE k <= Len(q)
    BY <1>2, <1>3, <1>4, <1>5, <1>6, <1>7, <2>1
  <2>2. CASE k = Len(q) + 1
    <3>1. s[k] = t[k - Len(q)] /\ k - Len(q) = 1
      BY <1>2, <1>3, <1>6, <1>7, <2>2
    <3>2. r[k] = p[k]
      BY <1>2, <1>4, <1>5, <2>2
    <3> QED
      BY <1>3, <1>4, <2>2, <3>1, <3>2
  <2>3. CASE k = Len(q) + 2
    <3>1. s[k] = t[k - Len(q)] /\ k - Len(q) = 2
      BY <1>2, <1>3, <1>6, <1>7, <2>3
    <3>2. Len(p) + 1 = k
      BY <1>2, <1>4, <2>3
    <3> QED
      BY <1>3, <1>5, <3>1, <3>2
  <2> QED
    BY <1>2, <1>7, <2>1, <2>2, <2>3
<1>9. s = r
  BY <1>5, <1>6, <1>7, <1>8, SeqEqual
<1> QED
  BY <1>9 DEF s, r, p, t

(* The n-th of q is not in r, but perhaps one more message is. *)
Left(q, r, n, op, arg) ==
    /\ Posted(r)
    /\ \A k \in DOMAIN r : \/ r[k].op = op /\ r[k].arg = arg /\ r[k].at = "sent"
                           \/ \E m \in DOMAIN q : m # n /\ r[k] = q[m]
    /\ \A j, k \in DOMAIN r :
          j # k => \/ r[j].op = op /\ r[j].arg = arg /\ r[j].at = "sent"
                   \/ r[k].op = op /\ r[k].arg = arg /\ r[k].at = "sent"
                   \/ \E i, m \in DOMAIN q : i # n /\ m # n /\ i # m /\ r[j] = q[i] /\ r[k] = q[m]
    /\ \A m \in DOMAIN q : m # n => \E k \in DOMAIN r : r[k] = q[m]

LEMMA Leaves ==
    ASSUME Posted(net), NEW n \in DOMAIN net, NEW op, NEW arg, NEW r,
           r = Settle(n) \/ r = Append(Settle(n), Request(op, arg))
    PROVE  Left(net, r, n, op, arg)
<1> DEFINE q == Settle(n)
<1>1. /\ Posted(q)
      /\ \A k \in DOMAIN q : Was(k, n) \in DOMAIN net \ {n} /\ q[k] = net[Was(k, n)]
      /\ \A m \in DOMAIN net \ {n} : Now(m, n) \in DOMAIN q /\ q[Now(m, n)] = net[m]
  BY SettleTells
<1>2. \A j, k \in DOMAIN q : j # k => Was(j, n) # Was(k, n)
  <2>1. n \in Nat /\ DOMAIN q \subseteq Nat
    BY <1>1, PostedDomain
  <2> QED
    BY <2>1 DEF Was
<1>3. r = q \/ r = Append(q, Request(op, arg))
  OBVIOUS
<1>4. ASSUME r # q
      PROVE  /\ Posted(r) /\ DOMAIN r = DOMAIN q \cup {Len(r)} /\ Len(r) \notin DOMAIN q
             /\ \A k \in DOMAIN q : r[k] = q[k]
             /\ r[Len(r)].op = op /\ r[Len(r)].arg = arg /\ r[Len(r)].at = "sent"
  <2> HIDE DEF q
  <2>1. Sends(q, r, op, arg)
    BY <1>1, <1>3, <1>4, SendTells
  <2> QED
    BY <2>1 DEF Sends
<1> HIDE DEF q
<1>5. /\ Posted(r)
      /\ \A k \in DOMAIN r : \/ r[k].op = op /\ r[k].arg = arg /\ r[k].at = "sent"
                             \/ k \in DOMAIN q /\ r[k] = q[k]
      /\ \A k \in DOMAIN q : k \in DOMAIN r /\ r[k] = q[k]
  <2>1. CASE r = q
    BY <1>1, <2>1
  <2>2. CASE r # q
    BY <1>4, <2>2
  <2> QED
    BY <2>1, <2>2
<1>6. ASSUME NEW j \in DOMAIN r, NEW k \in DOMAIN r, j # k
      PROVE  \/ r[j].op = op /\ r[j].arg = arg /\ r[j].at = "sent"
             \/ r[k].op = op /\ r[k].arg = arg /\ r[k].at = "sent"
             \/ \E i, m \in DOMAIN net : i # n /\ m # n /\ i # m /\ r[j] = net[i] /\ r[k] = net[m]
  <2>1. CASE j \in DOMAIN q /\ r[j] = q[j] /\ k \in DOMAIN q /\ r[k] = q[k]
    BY <1>1, <1>2, <1>6, <2>1
  <2> QED
    BY <1>5, <2>1
<1>7. \A k \in DOMAIN r : \/ r[k].op = op /\ r[k].arg = arg /\ r[k].at = "sent"
                          \/ \E m \in DOMAIN net : m # n /\ r[k] = net[m]
  BY <1>1, <1>5
<1>8. \A m \in DOMAIN net : m # n => \E k \in DOMAIN r : r[k] = net[m]
  BY <1>1, <1>5
<1> QED
  BY <1>5, <1>6, <1>7, <1>8 DEF Left

---------------------------------------------------------------------------
(* Contacts *)

(* Books are only deleted: an answer about them brings those that are left.  *)
KnownBy(q) == \A k \in DOMAIN q :
                 q[k].op = "books" /\ q[k].at = "answered" => Existing \subseteq q[k].ans

ContactsListed ==
    page = "open" /\ currentBook \in Existing /\ ~contactsLate =>
        Fresh(net, "contacts", currentBook, {"enter", "strike"}, contacts, books[currentBook])

BookMarked ==
    page = "open" /\ currentBook \in Existing /\ ~markLate =>
        Awaited(net, {"books"}) \/ active = currentBook

ContactsInv == /\ Posted(net) /\ DOMAIN books = Books
               /\ KnownBy(net) /\ ContactsListed /\ BookMarked

(* The page sends one more message that is no list of contacts, or this one. *)
LEMMA ContactsSends ==
    ASSUME NEW q, Posted(q), KnownBy(q), NEW op, NEW arg, Sends(q, net', op, arg),
           UNCHANGED <<books>>, DOMAIN books = Books,
           page = "open" /\ currentBook' \in Existing /\ ~contactsLate' =>
              \/ op = "contacts" /\ arg = currentBook'
              \/ /\ op # "contacts"
                 /\ Fresh(q, "contacts", currentBook', {"enter", "strike"}, contacts', books[currentBook']),
           UNCHANGED page,
           page = "open" /\ currentBook' \in Existing /\ ~markLate' =>
              op = "books" \/ Awaited(q, {"books"}) \/ active' = currentBook'
    PROVE  ContactsInv'
<1>1. /\ Posted(net') /\ DOMAIN net' = DOMAIN q \cup {Len(net')}
      /\ net'[Len(net')].op = op /\ net'[Len(net')].at = "sent"
      /\ \A k \in DOMAIN q : net'[k] = q[k]
  BY DEF Sends
<1>2. Existing' = Existing
  BY DEF Existing
<1>3. KnownBy(net)'
  BY <1>1, <1>2 DEF KnownBy
<1>4. ContactsListed'
  BY <1>2, AskedAgain, AskedElse DEF ContactsListed
<1>5. BookMarked'
  BY <1>1, <1>2 DEF BookMarked, Awaited
<1> QED
  BY <1>1, <1>3, <1>4, <1>5 DEF ContactsInv

(* A message is answered or refused, and the page does not know yet. *)
LEMMA ContactsInPlace ==
    ASSUME ContactsInv, NEW n \in DOMAIN net, DOMAIN net' = DOMAIN net, Posted(net'),
           net'[n].op = net[n].op, net'[n].arg = net[n].arg,
           \A k \in DOMAIN net \ {n} : net'[k] = net[k],
           UNCHANGED <<page, active, currentBook, contacts, contactsLate, markLate>>,
           DOMAIN books' = Books, Existing' \subseteq Existing,
           currentBook \in Existing' =>
              books'[currentBook] = books[currentBook] \/ net[n].op \in {"enter", "strike"},
           net'[n].op = "books" /\ net'[n].at = "answered" => Existing' \subseteq net'[n].ans,
           net[n].op = "contacts" /\ net'[n].at = "answered" /\ currentBook \in Existing'
                /\ net[n].arg = currentBook => net'[n].ans = books'[currentBook]
    PROVE  ContactsInv'
<1>1. KnownBy(net)'
  BY DEF ContactsInv, KnownBy
<1>2. ContactsListed'
  <2> SUFFICES ASSUME page = "open", currentBook \in Existing', ~contactsLate
               PROVE  Fresh(net', "contacts", currentBook, {"enter", "strike"}, contacts, books'[currentBook])
    BY DEF ContactsListed
  <2>1. Fresh(net, "contacts", currentBook, {"enter", "strike"}, contacts, books[currentBook])
    BY DEF ContactsInv, ContactsListed
  <2>2. net[n].op = "contacts" /\ net'[n].at = "answered" /\ net'[n].arg = currentBook
           => net'[n].ans = books'[currentBook]
    OBVIOUS
  <2> QED
    BY <2>1, <2>2, AnsweredInPlace
<1>3. BookMarked'
  <2>1. Awaited(net, {"books"}) => Awaited(net', {"books"})
    BY DEF Awaited
  <2> QED
    BY <2>1 DEF ContactsInv, BookMarked
<1> QED
  BY <1>1, <1>2, <1>3 DEF ContactsInv

LEMMA ServeContactsKeeps ==
    ASSUME ContactsInv, NEW n \in DOMAIN net, ServeContacts(n)
    PROVE  ContactsInv'
<1>1. /\ UNCHANGED <<page, active, currentBook, contacts, contactsLate, markLate>>
      /\ Posted(net) /\ DOMAIN books = Books
  BY DEF ServeContacts, ContactsInv
<1>2. ASSUME NEW answer, net' \in {Reply(n, answer), Reject(n)},
             DOMAIN books' = Books, Existing' \subseteq Existing,
             currentBook \in Existing' =>
                books'[currentBook] = books[currentBook] \/ net[n].op \in {"enter", "strike"},
             net[n].op = "books" => answer = Existing',
             net[n].op = "contacts" => answer = books'[net[n].arg]
      PROVE  ContactsInv'
  <2>1. CASE net' = Reply(n, answer)
    <3>1. /\ Posted(net') /\ DOMAIN net' = DOMAIN net
          /\ net'[n].op = net[n].op /\ net'[n].arg = net[n].arg
          /\ net'[n].ans = answer /\ \A k \in DOMAIN net \ {n} : net'[k] = net[k]
      BY <1>1, <2>1, ReplyTells
    <3> QED
      BY <1>1, <1>2, <3>1, ContactsInPlace
  <2>2. CASE net' = Reject(n)
    <3>1. /\ Posted(net') /\ DOMAIN net' = DOMAIN net
          /\ net'[n].op = net[n].op /\ net'[n].arg = net[n].arg /\ net'[n].at = "failed"
          /\ \A k \in DOMAIN net \ {n} : net'[k] = net[k]
      BY <1>1, <2>2, RejectTells
    <3> QED
      BY <1>1, <1>2, <3>1, ContactsInPlace
  <2> QED
    BY <1>2, <2>1, <2>2
<1>3. CASE net[n].op = "books" \/ net[n].op = "contacts"
  <2>1. UNCHANGED books /\ Existing' = Existing
    BY <1>3 DEF ServeContacts, Existing
  <2>2. CASE net[n].op = "books"
    <3>1. net' = Reply(n, Existing)
      BY <2>2 DEF ServeContacts
    <3> QED
      BY <1>1, <1>2, <2>1, <2>2, <3>1
  <2>3. CASE net[n].op = "contacts"
    <3>1. net' \in {Reply(n, books[net[n].arg]), Reject(n)}
      BY <2>3 DEF ServeContacts
    <3> QED
      BY <1>1, <1>2, <2>1, <2>3, <3>1
  <2> QED
    BY <1>3, <2>2, <2>3
<1>4. CASE net[n].op = "drop"
  <2>1. /\ net' \in {Reply(n, {}), Reject(n)}
        /\ books' = [books EXCEPT ![net[n].arg] = NoBook]
    BY <1>4 DEF ServeContacts
  <2>2. DOMAIN books' = Books /\ \A b \in Books : books'[b] \in {books[b], NoBook}
    BY <1>1, <2>1
  <2>3. Existing' \subseteq Existing /\ \A b \in Existing' : books'[b] = books[b]
    BY <2>2 DEF Existing
  <2> QED
    BY <1>2, <1>4, <2>1, <2>2, <2>3
<1>5. CASE net[n].op \in {"enter", "strike"}
  <2>1. /\ net' \in {Reply(n, {}), Reject(n)}
        /\ DOMAIN books' = Books
        /\ \A b \in Books : b \in Existing \/ books'[b] = books[b]
    <3> DEFINE b == net[n].arg[1]
               e == books[b] \cup {net[n].arg}
               d == books[b] \ {net[n].arg}
    <3>1. /\ net' \in {Reply(n, {}), Reject(n)}
          /\ \/ books' = books
             \/ b \in Existing /\ books' \in {[books EXCEPT ![b] = e], [books EXCEPT ![b] = d]}
      BY <1>5 DEF ServeContacts
    <3> HIDE DEF b, d, e
    <3> QED
      BY <1>1, <3>1
  <2>2. Existing' \subseteq Existing
    BY <2>1 DEF Existing
  <2> QED
    BY <1>2, <1>5, <2>1, <2>2
<1> QED
  BY <1>3, <1>4, <1>5 DEF ServeContacts

(* The n-th message is handled, and perhaps another one sent. *)
LEMMA ContactsSettles ==
    ASSUME ContactsInv, NEW n \in DOMAIN net, NEW r, r = Settle(n)
    PROVE  /\ Posted(r) /\ KnownBy(r)
           /\ page = "open" /\ currentBook \in Existing /\ ~contactsLate
                /\ net[n].op \notin {"contacts", "enter", "strike"}
              => Fresh(r, "contacts", currentBook, {"enter", "strike"}, contacts, books[currentBook])
           /\ net[n].op # "books" /\ Awaited(net, {"books"}) => Awaited(r, {"books"})
<1>1. Posted(net) /\ KnownBy(net)
  BY DEF ContactsInv
<1>2. Posted(r) /\ \A k \in DOMAIN r : \E m \in DOMAIN net : m # n /\ r[k] = net[m]
  BY <1>1, SettledWere
<1>3. KnownBy(r)
  BY <1>1, <1>2 DEF KnownBy
<1>4. ASSUME page = "open", currentBook \in Existing, ~contactsLate,
             net[n].op \notin {"contacts", "enter", "strike"}
      PROVE  Fresh(r, "contacts", currentBook, {"enter", "strike"}, contacts, books[currentBook])
  <2>1. Fresh(net, "contacts", currentBook, {"enter", "strike"}, contacts, books[currentBook])
    BY <1>4 DEF ContactsInv, ContactsListed
  <2> QED
    BY <1>1, <1>4, <2>1, OthersSettled
<1>5. net[n].op # "books" /\ Awaited(net, {"books"}) => Awaited(r, {"books"})
  BY <1>1, StillAwaited
<1> QED
  BY <1>2, <1>3, <1>4, <1>5

LEMMA SelectBookKeeps ==
    ASSUME ContactsInv, NEW b \in Books, SelectBook(b)
    PROVE  ContactsInv'
<1> DEFINE r == Append(net, Request("contacts", b))
<1>1. /\ currentBook' = b /\ UNCHANGED <<page, books, contacts>> /\ Posted(net) /\ KnownBy(net)
      /\ net' = Append(r, Request("books", b)) /\ DOMAIN books = Books
  BY SendsTwo DEF SelectBook, SelectLoads, ContactsOf, ContactsInv
<1>2. Sends(net, r, "contacts", b)
  BY <1>1, SendTells
<1> HIDE DEF r
<1>3. /\ Posted(r) /\ DOMAIN r = DOMAIN net \cup {Len(r)} /\ r[Len(r)].at = "sent"
      /\ \A k \in DOMAIN net : r[k] = net[k]
  BY <1>2 DEF Sends
<1>4. KnownBy(r)
  BY <1>1, <1>3 DEF KnownBy
<1>5. Fresh(r, "contacts", b, {"enter", "strike"}, contacts, books[b])
  BY <1>1, <1>2, AskedAgain
<1>6. Sends(r, net', "books", b)
  BY <1>1, <1>3, SendTells
<1> QED
  BY <1>1, <1>3, <1>4, <1>5, <1>6, ContactsSends

LEMMA BooksShownKeeps ==
    ASSUME ContactsInv, NEW n \in DOMAIN net, BooksShown(n)
    PROVE  ContactsInv'
<1> DEFINE r == Settle(n)
<1>1. /\ net[n].op = "books" /\ Existing \subseteq net[n].ans /\ DOMAIN books = Books
      /\ UNCHANGED <<page, books, contacts, contactsLate>>
      /\ active' = IF currentBook \in net[n].ans THEN currentBook ELSE NoneActive
      /\ markLate' = (markLate \/ Overtakes(n, {"books"}) \/ currentBook = NoneActive)
  BY DEF BooksShown, Answered, ContactsInv, KnownBy
<1>2. /\ Posted(r) /\ KnownBy(r)
      /\ page = "open" /\ currentBook \in Existing /\ ~contactsLate
         => Fresh(r, "contacts", currentBook, {"enter", "strike"}, contacts, books[currentBook])
  BY <1>1, ContactsSettles
<1>3. \/ net' = r /\ currentBook' = currentBook
      \/ /\ currentBook = NoneActive
         /\ \E b \in net[n].ans : currentBook' = b /\ net' = Append(r, Request("contacts", b))
  BY DEF BooksShown, ContactsOf
<1> HIDE DEF r
<1>4. CASE net' = r /\ currentBook' = currentBook
  <2>1. Existing' = Existing
    BY <1>1 DEF Existing
  <2>2. ContactsListed'
    BY <1>1, <1>2, <1>4, <2>1 DEF ContactsListed
  <2>3. BookMarked'
    BY <1>1, <1>4, <2>1 DEF BookMarked
  <2>4. KnownBy(net)'
    BY <1>2, <1>4, <2>1 DEF KnownBy
  <2> QED
    BY <1>1, <1>2, <1>4, <2>2, <2>3, <2>4 DEF ContactsInv
<1>5. ASSUME currentBook = NoneActive, NEW b \in net[n].ans, currentBook' = b,
             net' = Append(r, Request("contacts", b))
      PROVE  ContactsInv'
  <2>1. Sends(r, net', "contacts", b)
    BY <1>2, <1>5, SendTells
  <2>2. markLate'
    BY <1>1, <1>5
  <2> QED
    BY <1>1, <1>2, <1>5, <2>1, <2>2, ContactsSends
<1> QED
  BY <1>3, <1>4, <1>5

LEMMA ContactsShownKeeps ==
    ASSUME ContactsInv, NEW n \in DOMAIN net, ContactsShown(n)
    PROVE  ContactsInv'
<1>1. /\ net[n].op = "contacts" /\ net[n].at = "answered" /\ net' = Settle(n) /\ contacts' = net[n].ans
      /\ contactsLate' = (contactsLate \/ Overtakes(n, {"contacts"})) /\ Posted(net)
      /\ UNCHANGED <<page, books, active, currentBook, markLate>>
  BY DEF ContactsShown, Answered, ContactsInv
<1>2. Posted(net') /\ KnownBy(net') /\ (Awaited(net, {"books"}) => Awaited(net', {"books"}))
  BY <1>1, ContactsSettles
<1>3. Existing' = Existing
  BY <1>1 DEF Existing
<1>4. ASSUME page = "open", currentBook \in Existing, ~contactsLate'
      PROVE  Fresh(net', "contacts", currentBook, {"enter", "strike"}, net[n].ans, books[currentBook])
  <2>1. Fresh(net, "contacts", currentBook, {"enter", "strike"}, contacts, books[currentBook])
    BY <1>1, <1>4 DEF ContactsInv, ContactsListed
  <2> QED
    BY <1>1, <1>4, <2>1, ShownInOrder
<1>5. ContactsListed'
  BY <1>1, <1>3, <1>4 DEF ContactsListed
<1>6. BookMarked'
  BY <1>1, <1>2, <1>3 DEF ContactsInv, BookMarked
<1>7. KnownBy(net)' /\ DOMAIN books' = Books
  BY <1>1, <1>2, <1>3 DEF KnownBy, ContactsInv
<1> QED
  BY <1>2, <1>5, <1>6, <1>7 DEF ContactsInv

LEMMA ContactsChangedKeeps ==
    ASSUME ContactsInv, NEW n \in DOMAIN net, ContactsChanged(n)
    PROVE  ContactsInv'
<1> DEFINE r == Settle(n)
<1>1. /\ UNCHANGED <<page, books, active, currentBook, contacts, contactsLate, markLate>>
      /\ DOMAIN books = Books /\ BookMarked
      /\ \/ net[n].op = "drop" /\ net' = Append(r, Request("books", currentBook))
         \/ /\ net[n].op \in {"enter", "strike"}
            /\ net' = IF currentBook = NoneActive THEN r
                      ELSE Append(r, Request("contacts", currentBook))
  BY DEF ContactsChanged, contactState, ContactsOf, Answered, ContactsInv
<1>2. /\ Posted(r) /\ KnownBy(r)
      /\ page = "open" /\ currentBook \in Existing /\ ~contactsLate /\ net[n].op = "drop"
         => Fresh(r, "contacts", currentBook, {"enter", "strike"}, contacts, books[currentBook])
      /\ net[n].op # "books" /\ Awaited(net, {"books"}) => Awaited(r, {"books"})
  BY ContactsSettles
<1> HIDE DEF r
<1>3. Existing' = Existing
  BY <1>1 DEF Existing
<1>4. CASE net[n].op = "drop" /\ net' = Append(r, Request("books", currentBook))
  <2>1. Sends(r, net', "books", currentBook)
    BY <1>2, <1>4, SendTells
  <2> QED
    BY <1>1, <1>2, <1>3, <1>4, <2>1, ContactsSends
<1>5. CASE /\ net[n].op \in {"enter", "strike"} /\ currentBook # NoneActive
           /\ net' = Append(r, Request("contacts", currentBook))
  <2>1. Sends(r, net', "contacts", currentBook)
    BY <1>2, <1>5, SendTells
  <2>2. page = "open" /\ currentBook \in Existing /\ ~markLate
          => Awaited(r, {"books"}) \/ active = currentBook
    BY <1>1, <1>2, <1>5 DEF BookMarked
  <2> QED
    BY <1>1, <1>2, <1>3, <1>5, <2>1, <2>2, ContactsSends
<1>6. CASE net[n].op \in {"enter", "strike"} /\ currentBook = NoneActive /\ net' = r
  <2>1. currentBook \notin Existing
    BY <1>6, ContactsAssumption DEF Existing
  <2> QED
    BY <1>1, <1>2, <1>3, <1>6, <2>1 DEF ContactsInv, KnownBy, ContactsListed, BookMarked
<1> QED
  BY <1>1, <1>4, <1>5, <1>6

LEMMA ContactsNextKeeps ==
    ASSUME ContactsInv, [ContactsNext]_contactVars
    PROVE  ContactsInv'
<1>1. ASSUME NEW b \in Books, SelectBook(b) PROVE ContactsInv'
  BY <1>1, SelectBookKeeps
<1>2. ASSUME NEW op \in {"drop", "enter", "strike"}, NEW arg, net' = Append(net, Request(op, arg)),
             UNCHANGED <<page, books, active, currentBook, contacts, contactsLate, markLate>>
      PROVE  ContactsInv'
  <2>1. /\ Posted(net) /\ KnownBy(net) /\ DOMAIN books = Books /\ ContactsListed /\ BookMarked
        /\ Sends(net, net', op, arg)
    BY <1>2, SendTells DEF ContactsInv
  <2>2. Existing' = Existing
    BY <1>2 DEF Existing
  <2>3. /\ page = "open" /\ currentBook \in Existing /\ ~contactsLate =>
              Fresh(net, "contacts", currentBook, {"enter", "strike"}, contacts, books[currentBook])
        /\ page = "open" /\ currentBook \in Existing /\ ~markLate =>
              Awaited(net, {"books"}) \/ active = currentBook
    BY <2>1 DEF ContactsListed, BookMarked
  <2> QED
    BY <1>2, <2>1, <2>2, <2>3, ContactsSends
<1>3. CASE (\E b \in Books : DeleteBook(b)) \/ AddContact \/ \E c \in contacts : DeleteContact(c)
  BY <1>2, <1>3 DEF DeleteBook, AddContact, DeleteContact
<1>4. ASSUME NEW n \in DOMAIN net,
             ServeContacts(n) \/ BooksShown(n) \/ ContactsShown(n) \/ ContactsChanged(n)
      PROVE  ContactsInv'
  BY <1>4, ServeContactsKeeps, BooksShownKeeps, ContactsShownKeeps, ContactsChangedKeeps
<1>5. ASSUME NEW n \in DOMAIN net, ContactsFailed(n) PROVE ContactsInv'
  <2>1. net' = Settle(n) /\ contactsLate' /\ markLate' /\ UNCHANGED books
    BY <1>5 DEF ContactsFailed, ShowError
  <2>2. Posted(net') /\ KnownBy(net') /\ DOMAIN books = Books
    BY <2>1, ContactsSettles DEF ContactsInv
  <2> QED
    BY <2>1, <2>2 DEF ContactsInv, KnownBy, Existing, ContactsListed, BookMarked
<1>6. ASSUME NEW n \in DOMAIN net, Lose(n), UNCHANGED contactState PROVE ContactsInv'
  <2>1. /\ net' = Reject(n) /\ Posted(net) /\ DOMAIN books = Books
        /\ UNCHANGED <<page, books, active, currentBook, contacts, contactsLate, markLate>>
    BY <1>6 DEF Lose, contactState, ContactsInv
  <2>2. /\ Posted(net') /\ DOMAIN net' = DOMAIN net
        /\ net'[n].op = net[n].op /\ net'[n].arg = net[n].arg /\ net'[n].at = "failed"
        /\ \A k \in DOMAIN net \ {n} : net'[k] = net[k]
    BY <2>1, RejectTells
  <2>3. Existing' = Existing
    BY <2>1 DEF Existing
  <2> QED
    BY <2>1, <2>2, <2>3, ContactsInPlace
<1>7. ASSUME NEW n \in DOMAIN net, SessionExpired(n), UNCHANGED contactState PROVE ContactsInv'
  <2>1. net' = <<>> /\ page' = "login" /\ UNCHANGED books
    BY <1>7 DEF SessionExpired, contactState
  <2> QED
    BY <2>1, NothingPosted DEF ContactsInv, KnownBy, ContactsListed, BookMarked
<1>8. CASE UNCHANGED contactVars \/ (Dismiss /\ UNCHANGED contactState)
  <2>1. UNCHANGED <<net, page, books, active, currentBook, contacts, contactsLate, markLate>>
    BY <1>8 DEF Dismiss, contactVars, contactState, web
  <2> QED
    BY <2>1 DEF ContactsInv, KnownBy, Existing, ContactsListed, BookMarked
<1> QED
  BY <1>1, <1>3, <1>4, <1>5, <1>6, <1>7, <1>8 DEF ContactsNext

LEMMA ContactsStart == WebInit(FirstBooks) /\ ContactsInit => ContactsInv
<1> SUFFICES ASSUME WebInit(FirstBooks), ContactsInit PROVE ContactsInv
  OBVIOUS
<1> DEFINE m == Request("books", NoneActive)
<1>1. /\ net = <<m>> /\ currentBook = NoneActive /\ books = [b \in Books |-> {<<b, "old">>}]
  BY DEF WebInit, FirstBooks, ContactsInit
<1>2. m.at = "sent" /\ {"op", "arg", "at"} \subseteq DOMAIN m
  BY DEF Request
<1> HIDE DEF m
<1>3. net \in Seq({m}) /\ DOMAIN net = {1} /\ net[1] = m
  BY <1>1
<1>4. Posted(net)
  BY <1>2, <1>3, PostedIs
<1>5. currentBook \notin Existing
  BY <1>1, ContactsAssumption DEF Existing
<1> QED
  BY <1>1, <1>2, <1>3, <1>4, <1>5 DEF ContactsInv, KnownBy, ContactsListed, BookMarked

LEMMA ContactsInvHolds == ContactsSpec => []ContactsInv
BY ContactsStart, ContactsNextKeeps, PTL DEF ContactsSpec

(* When everything is answered the page shows the contacts of the selected    *)
(* book and marks that book, unless an answer overtook another or was lost     *)
(* (selectBook and loadBooks do not ask which book is selected by then).      *)
THEOREM ContactsAreOfBook == ContactsSpec => []ContactsOfBook
<1>1. ContactsInv => ContactsOfBook
  BY NothingPosted DEF ContactsInv, ContactsOfBook, ContactsListed, BookMarked, Fresh, Quiet, Awaited
<1> QED
  BY <1>1, ContactsInvHolds, PTL

---------------------------------------------------------------------------
(* Notification providers *)

(* Only what was typed for a provider is sent under its id.                  *)
ProviderMessage(m) ==
    /\ m.op = "provider" => m.arg \in Providers
    /\ m.op = "configure" => \E p \in Providers : m.arg = Complete(p)
    /\ m.op = "reconfigure" => /\ m.arg.id \in Providers /\ m.arg.of = m.arg.id
                               /\ m.arg.has = ConfigOf(Kind[m.arg.id])

ProvidersInv ==
    /\ Posted(net) /\ \A k \in DOMAIN net : ProviderMessage(net[k])
    /\ DOMAIN configs = Providers /\ FieldsOfProvider
    /\ "open" \in DOMAIN providerForm
    /\ providerForm.open => /\ providerForm.id \in Providers /\ providerForm.of = providerForm.id
                            /\ providerForm.kind = Kind[providerForm.id]

LEMMA ProvidersSends ==
    ASSUME NEW q, Posted(q), \A k \in DOMAIN q : ProviderMessage(q[k]),
           NEW op, NEW arg, Sends(q, net', op, arg), ProviderMessage(net'[Len(net')])
    PROVE  Posted(net') /\ \A k \in DOMAIN net' : ProviderMessage(net'[k])
BY DEF Sends

LEMMA ProvidersInPlace ==
    ASSUME \A k \in DOMAIN net : ProviderMessage(net[k]), NEW n \in DOMAIN net,
           DOMAIN net' = DOMAIN net, net'[n].op = net[n].op, net'[n].arg = net[n].arg,
           \A k \in DOMAIN net \ {n} : net'[k] = net[k]
    PROVE  \A k \in DOMAIN net' : ProviderMessage(net'[k])
BY DEF ProviderMessage

LEMMA ServeProvidersKeeps ==
    ASSUME ProvidersInv, NEW n \in DOMAIN net, ServeProviders(n)
    PROVE  ProvidersInv'
<1>1. /\ Posted(net) /\ \A k \in DOMAIN net : ProviderMessage(net[k])
      /\ DOMAIN configs = Providers /\ FieldsOfProvider /\ UNCHANGED providerForm
      /\ ProviderMessage(net[n])
  BY DEF ServeProviders, ProvidersInv
<1>2. ASSUME NEW answer, net' \in {Reply(n, answer), Reject(n)}
      PROVE  Posted(net') /\ \A k \in DOMAIN net' : ProviderMessage(net'[k])
  <2>1. /\ Posted(net') /\ DOMAIN net' = DOMAIN net
        /\ net'[n].op = net[n].op /\ net'[n].arg = net[n].arg
        /\ \A k \in DOMAIN net \ {n} : net'[k] = net[k]
    BY <1>1, <1>2, ReplyTells, RejectTells
  <2> QED
    BY <1>1, <2>1, ProvidersInPlace
<1>3. \E answer : net' \in {Reply(n, answer), Reject(n)}
  <2>1. CASE net[n].op = "providers"
    BY <2>1 DEF ServeProviders
  <2>2. CASE net[n].op # "providers"
    <3>1. net' \in {Reply(n, {}), Reject(n)}
      BY <2>2 DEF ServeProviders
    <3> QED
      BY <3>1
  <2> QED
    BY <2>1, <2>2
<1>4. DOMAIN configs' = Providers /\ FieldsOfProvider'
  <2>1. CASE net[n].op \in {"providers", "provider", "test"}
    <3>1. UNCHANGED configs
      BY <2>1 DEF ServeProviders
    <3> QED
      BY <1>1, <3>1 DEF FieldsOfProvider
  <2>2. CASE net[n].op = "configure"
    <3>1. PICK p \in Providers : net[n].arg = Complete(p)
      BY <1>1, <2>2 DEF ProviderMessage
    <3> DEFINE c == Complete(p)
    <3>2. c.of = p /\ ConfigOf(Kind[p]) \subseteq c.has
      BY DEF Complete
    <3>3. configs' = [configs EXCEPT ![net[n].arg.of] = net[n].arg] /\ net[n].arg = c
      BY <2>2, <3>1 DEF ServeProviders
    <3> HIDE DEF c
    <3>4. configs' = [configs EXCEPT ![p] = c]
      BY <3>2, <3>3
    <3> QED
      BY <1>1, <3>2, <3>4 DEF FieldsOfProvider
  <2>3. CASE net[n].op = "reconfigure"
    <3> DEFINE f == net[n].arg
               c == [of |-> f.of, has |-> f.has]
    <3>1. f.id \in Providers /\ c.of = f.id /\ c.has = ConfigOf(Kind[f.id])
      BY <1>1, <2>3 DEF ProviderMessage
    <3>2. configs' = [configs EXCEPT ![f.id] = IF @ = NoConfig THEN @ ELSE c]
      BY <2>3 DEF ServeProviders
    <3> HIDE DEF f, c
    <3>3. /\ DOMAIN configs' = Providers
          /\ \A p \in Providers : \/ configs'[p] = configs[p]
                                  \/ p = f.id /\ configs'[p] = c
      BY <1>1, <3>1, <3>2
    <3> QED
      BY <1>1, <3>1, <3>3 DEF FieldsOfProvider
  <2>4. CASE net[n].op = "discard"
    <3>1. configs' = [configs EXCEPT ![net[n].arg] = NoConfig]
      BY <2>4 DEF ServeProviders
    <3>2. DOMAIN configs' = Providers /\ \A p \in Providers : configs'[p] \in {configs[p], NoConfig}
      BY <1>1, <3>1
    <3> QED
      BY <1>1, <3>2 DEF FieldsOfProvider
  <2> QED
    BY <2>1, <2>2, <2>3, <2>4 DEF ServeProviders
<1> QED
  BY <1>1, <1>2, <1>3, <1>4 DEF ProvidersInv

LEMMA ProvidersNextKeeps ==
    ASSUME ProvidersInv, [ProvidersNext]_providerVars
    PROVE  ProvidersInv'
<1>1. /\ Posted(net) /\ \A k \in DOMAIN net : ProviderMessage(net[k])
      /\ DOMAIN configs = Providers /\ FieldsOfProvider /\ "open" \in DOMAIN providerForm
      /\ providerForm.open => /\ providerForm.id \in Providers /\ providerForm.of = providerForm.id
                              /\ providerForm.kind = Kind[providerForm.id]
  BY DEF ProvidersInv
<1>2. ASSUME NEW n \in DOMAIN net, ServeProviders(n) PROVE ProvidersInv'
  BY <1>2, ServeProvidersKeeps
(* The other steps leave the server alone; what they send is right, and the  *)
(* dialog stays as it is or shows one provider.                              *)
<1>3. ASSUME UNCHANGED configs, Posted(net'), \A k \in DOMAIN net' : ProviderMessage(net'[k]),
             \/ UNCHANGED providerForm
             \/ "open" \in DOMAIN providerForm' /\ ~providerForm'.open
             \/ \E p \in Providers : providerForm' = [open |-> TRUE, id |-> p, kind |-> Kind[p], of |-> p]
      PROVE  ProvidersInv'
  <2>1. FieldsOfProvider'
    BY <1>1, <1>3 DEF FieldsOfProvider
  <2>2. /\ "open" \in DOMAIN providerForm'
        /\ providerForm'.open => /\ providerForm'.id \in Providers /\ providerForm'.of = providerForm'.id
                                 /\ providerForm'.kind = Kind[providerForm'.id]
    BY <1>1, <1>3
  <2> QED
    BY <1>1, <1>3, <2>1, <2>2 DEF ProvidersInv
<1>4. ASSUME NEW op, NEW arg, net' = Append(net, Request(op, arg)), UNCHANGED <<configs, providerForm>>,
             op \notin {"provider", "configure", "reconfigure"}
               \/ \E p \in Providers :
                    \/ op = "provider" /\ arg = p
                    \/ op = "configure" /\ arg = Complete(p)
                    \/ op = "reconfigure" /\ arg.id = p /\ arg.of = p /\ arg.has = ConfigOf(Kind[p])
      PROVE  ProvidersInv'
  <2>1. Sends(net, net', op, arg)
    BY <1>1, <1>4, SendTells
  <2>2. ProviderMessage(net'[Len(net')])
    BY <1>4, <2>1 DEF Sends, ProviderMessage
  <2> QED
    BY <1>1, <1>3, <1>4, <2>1, <2>2, ProvidersSends
<1>5. ASSUME NEW p \in Providers, AddProvider(p) \/ EditProvider(p)
      PROVE  ProvidersInv'
  BY <1>4, <1>5 DEF AddProvider, EditProvider
<1>6. CASE SubmitProvider
  <2> DEFINE arg == [id |-> providerForm.id, of |-> providerForm.of,
                     has |-> ConfigOf(providerForm.kind)]
  <2>1. /\ net' = Append(net, Request("reconfigure", arg)) /\ UNCHANGED <<configs, providerForm>>
        /\ providerForm.open
    BY <1>6 DEF SubmitProvider
  <2>2. arg.id = providerForm.id /\ arg.of = providerForm.of /\ arg.has = ConfigOf(providerForm.kind)
    OBVIOUS
  <2> HIDE DEF arg
  <2>3. arg.id \in Providers /\ arg.of = arg.id /\ arg.has = ConfigOf(Kind[arg.id])
    BY <1>1, <2>1, <2>2
  <2> QED
    BY <1>4, <2>1, <2>3
<1>7. CASE DeleteProvider \/ SendTest
  BY <1>4, <1>7 DEF DeleteProvider, SendTest, providerState
<1>8. CASE \/ \E p \in Providers : AskDeleteProvider(p) \/ OpenTest(p)
           \/ CloseProviders \/ (Dismiss /\ UNCHANGED providerState) \/ UNCHANGED providerVars
  <2>1. /\ UNCHANGED <<net, configs>>
        /\ providerForm' \in {providerForm, [providerForm EXCEPT !.open = FALSE]}
    BY <1>8 DEF AskDeleteProvider, OpenTest, CloseProviders, Dismiss, providerState, providerVars, web
  <2>2. UNCHANGED providerForm \/ ("open" \in DOMAIN providerForm' /\ ~providerForm'.open)
    BY <1>1, <2>1
  <2> QED
    BY <1>1, <1>3, <2>1, <2>2
<1>9. ASSUME NEW n \in DOMAIN net
      PROVE  Posted(Settle(n)) /\ \A k \in DOMAIN Settle(n) : ProviderMessage(Settle(n)[k])
  BY <1>1, SettledWere
<1>10. ASSUME NEW n \in DOMAIN net,
              ProviderFetched(n) \/ ProvidersShown(n) \/ TestAnswered(n) \/ ProvidersFailed(n)
       PROVE  ProvidersInv'
  <2>1. net' = Settle(n) /\ UNCHANGED configs
    BY <1>10 DEF ProviderFetched, ProvidersShown, TestAnswered, ProvidersFailed, ShowError
  <2>2. \/ UNCHANGED providerForm
        \/ \E p \in Providers : providerForm' = [open |-> TRUE, id |-> p, kind |-> Kind[p], of |-> p]
    BY <1>1, <1>10 DEF ProviderFetched, ProvidersShown, TestAnswered, ProvidersFailed, Answered,
                       KindAnswered, ProviderMessage
  <2> QED
    BY <1>3, <1>9, <2>1, <2>2
<1>11. ASSUME NEW n \in DOMAIN net, ProvidersChanged(n) PROVE ProvidersInv'
  <2> DEFINE r == Settle(n)
  <2>1. /\ net' = Append(r, Request("providers", NoProvider)) /\ UNCHANGED configs
        /\ providerForm' \in {providerForm, [providerForm EXCEPT !.open = FALSE]}
    BY <1>11 DEF ProvidersChanged
  <2>2. Posted(r) /\ \A k \in DOMAIN r : ProviderMessage(r[k])
    BY <1>9
  <2> HIDE DEF r
  <2>3. Sends(r, net', "providers", NoProvider)
    BY <2>1, <2>2, SendTells
  <2>4. ProviderMessage(net'[Len(net')])
    BY <2>3 DEF Sends, ProviderMessage
  <2>5. UNCHANGED providerForm \/ ("open" \in DOMAIN providerForm' /\ ~providerForm'.open)
    BY <1>1, <2>1
  <2> QED
    BY <1>3, <2>1, <2>2, <2>3, <2>4, <2>5, ProvidersSends
<1>12. ASSUME NEW n \in DOMAIN net, Lose(n), UNCHANGED providerState PROVE ProvidersInv'
  <2>1. net' = Reject(n) /\ UNCHANGED <<configs, providerForm>>
    BY <1>12 DEF Lose, providerState
  <2>2. /\ Posted(net') /\ DOMAIN net' = DOMAIN net
        /\ net'[n].op = net[n].op /\ net'[n].arg = net[n].arg
        /\ \A k \in DOMAIN net \ {n} : net'[k] = net[k]
    BY <1>1, <2>1, RejectTells
  <2> QED
    BY <1>1, <1>3, <2>1, <2>2, ProvidersInPlace
<1>13. ASSUME NEW n \in DOMAIN net, SessionExpired(n), UNCHANGED providerState PROVE ProvidersInv'
  <2>1. net' = <<>> /\ UNCHANGED <<configs, providerForm>>
    BY <1>13 DEF SessionExpired, providerState
  <2> QED
    BY <1>3, <2>1, NothingPosted
<1> QED
  BY <1>2, <1>5, <1>6, <1>7, <1>8, <1>10, <1>11, <1>12, <1>13 DEF ProvidersNext

LEMMA ProvidersStart == WebInit(<<>>) /\ ProvidersInit => ProvidersInv
<1> SUFFICES ASSUME WebInit(<<>>), ProvidersInit PROVE ProvidersInv
  OBVIOUS
<1>1. /\ net = <<>> /\ configs = [p \in Providers |-> Complete(p)]
      /\ "open" \in DOMAIN providerForm /\ ~providerForm.open
  BY DEF WebInit, ProvidersInit
<1>2. FieldsOfProvider
  BY <1>1 DEF FieldsOfProvider, Complete
<1> QED
  BY <1>1, <1>2, NothingPosted DEF ProvidersInv

(* Whatever answers overtake each other in filling the one dialog, the fields *)
(* a provider is configured with were typed for it and are those of its kind.  *)
THEOREM FieldsAreOfProvider == ProvidersSpec => []FieldsOfProvider
<1>1. ProvidersInv => FieldsOfProvider
  BY DEF ProvidersInv
<1> QED
  BY <1>1, ProvidersStart, ProvidersNextKeeps, PTL DEF ProvidersSpec

---------------------------------------------------------------------------
(* The account dialog *)

(* One save of the channels at a time; the server uses what it answered last. *)
OneSave(q) ==
    /\ \A k, m \in DOMAIN q : q[k].op = "prefs" /\ q[m].op = "prefs" => k = m
    /\ \A k \in DOMAIN q : q[k].op = "prefs" /\ q[k].at = "answered" => q[k].arg = notified

(* While nothing is saved an answer of auth/me is still right, and once it    *)
(* has come so is what the page keeps.                                       *)
PrefsKnown(q) ==
    /\ ~Awaited(q, {"me", "prefs"}) => userPrefs = notified
    /\ ~Awaited(q, {"prefs"}) =>
          \A k \in DOMAIN q : q[k].op = "me" /\ q[k].at = "answered" => q[k].ans = notified

AccountInv == /\ Posted(net) /\ OneSave(net)
              /\ page = "open" /\ ~prefsLate => PrefsKnown(net)

LEMMA AccountSends ==
    ASSUME NEW q, Posted(q), OneSave(q), NEW op, NEW arg, Sends(q, net', op, arg),
           op \notin {"me", "prefs"} \/ (op = "prefs" /\ ~Awaited(q, {"prefs"})),
           UNCHANGED <<page, notified, userPrefs, prefsLate>>,
           page = "open" /\ ~prefsLate => PrefsKnown(q)
    PROVE  AccountInv'
<1>1. /\ Posted(net') /\ DOMAIN net' = DOMAIN q \cup {Len(net')} /\ Len(net') \notin DOMAIN q
      /\ net'[Len(net')].op = op /\ net'[Len(net')].at = "sent" /\ \A k \in DOMAIN q : net'[k] = q[k]
  BY DEF Sends
<1>2. OneSave(net)'
  BY <1>1 DEF OneSave, Awaited
<1>3. \A ops : Awaited(q, ops) => Awaited(net', ops)
  BY <1>1 DEF Awaited
<1>4. op = "prefs" => Awaited(net', {"prefs"}) /\ Awaited(net', {"me", "prefs"})
  BY <1>1 DEF Awaited
<1>5. ASSUME page = "open", ~prefsLate PROVE PrefsKnown(net)'
  BY <1>1, <1>3, <1>4, <1>5 DEF PrefsKnown
<1> QED
  BY <1>1, <1>2, <1>5 DEF AccountInv

LEMMA AccountInPlace ==
    ASSUME AccountInv, NEW n \in DOMAIN net, DOMAIN net' = DOMAIN net, Posted(net'),
           net'[n].op = net[n].op, net'[n].arg = net[n].arg,
           \A k \in DOMAIN net \ {n} : net'[k] = net[k],
           UNCHANGED <<page, userPrefs, prefsLate>>,
           notified' = IF net[n].op = "prefs" /\ net'[n].at = "answered" THEN net[n].arg ELSE notified,
           net[n].op = "me" /\ net'[n].at = "answered" => net'[n].ans = notified'
    PROVE  AccountInv'
<1>1. \A k \in DOMAIN net' : net'[k].op = net[k].op /\ net'[k].arg = net[k].arg
  OBVIOUS
<1>2. OneSave(net)'
  BY <1>1 DEF AccountInv, OneSave
<1>3. \A ops : Awaited(net', ops) <=> Awaited(net, ops)
  BY <1>1 DEF Awaited
<1>4. ~Awaited(net, {"prefs"}) \/ ~Awaited(net, {"me", "prefs"}) => UNCHANGED notified
  BY DEF Awaited
<1>5. ASSUME page = "open", ~prefsLate PROVE PrefsKnown(net)'
  BY <1>1, <1>3, <1>4, <1>5 DEF AccountInv, PrefsKnown
<1> QED
  BY <1>2, <1>5 DEF AccountInv

LEMMA AccountSettles ==
    ASSUME AccountInv, NEW n \in DOMAIN net, NEW r, r = Settle(n)
    PROVE  /\ Posted(r) /\ OneSave(r)
           /\ page = "open" /\ ~prefsLate /\ net[n].op \notin {"me", "prefs"} => PrefsKnown(r)
<1>1. Posted(net) /\ OneSave(net)
  BY DEF AccountInv
<1>2. /\ Posted(r) /\ \A k \in DOMAIN r : Was(k, n) \in DOMAIN net \ {n} /\ r[k] = net[Was(k, n)]
      /\ DOMAIN r \subseteq Nat /\ n \in Nat
  BY <1>1, SettleTells, PostedDomain
<1>3. \A k, m \in DOMAIN r : Was(k, n) = Was(m, n) => k = m
  BY <1>2 DEF Was
<1>4. OneSave(r)
  BY <1>1, <1>2, <1>3 DEF OneSave
<1>5. ASSUME page = "open", ~prefsLate, net[n].op \notin {"me", "prefs"} PROVE PrefsKnown(r)
  <2>1. \A ops \in {{"prefs"}, {"me", "prefs"}} : Awaited(net, ops) => Awaited(r, ops)
    BY <1>1, <1>5, StillAwaited
  <2> QED
    BY <1>2, <1>5, <2>1 DEF AccountInv, PrefsKnown
<1> QED
  BY <1>2, <1>4, <1>5

LEMMA ServeAccountKeeps ==
    ASSUME AccountInv, NEW n \in DOMAIN net, ServeAccount(n)
    PROVE  AccountInv'
<1>1. Posted(net) /\ UNCHANGED <<page, userPrefs, prefsLate>>
  BY DEF ServeAccount, AccountInv
<1>2. ASSUME NEW answer, net' = Reply(n, answer),
             notified' = IF net[n].op = "prefs" THEN net[n].arg ELSE notified,
             net[n].op = "me" => answer = notified'
      PROVE  AccountInv'
  <2>1. /\ Posted(net') /\ DOMAIN net' = DOMAIN net /\ net'[n].at = "answered"
        /\ net'[n].op = net[n].op /\ net'[n].arg = net[n].arg
        /\ net'[n].ans = answer /\ \A k \in DOMAIN net \ {n} : net'[k] = net[k]
    BY <1>1, <1>2, ReplyTells
  <2> QED
    BY <1>1, <1>2, <2>1, AccountInPlace
<1>3. CASE net[n].op = "me"
  BY <1>2, <1>3 DEF ServeAccount
<1>4. CASE net[n].op = "prefs"
  BY <1>2, <1>4 DEF ServeAccount
<1>5. CASE net[n].op = "public key"
  <2>1. UNCHANGED notified /\ \E key : net' = Reply(n, key)
    BY <1>5 DEF ServeAccount
  <2> QED
    BY <1>2, <1>5, <2>1
<1>6. CASE net[n].op = "device"
  BY <1>2, <1>6 DEF ServeAccount
<1>7. CASE net[n].op = "password"
  <2>1. UNCHANGED notified /\ net' \in {Reply(n, {}), Reject(n)}
    BY <1>7 DEF ServeAccount
  <2>2. CASE net' = Reject(n)
    <3>1. /\ Posted(net') /\ DOMAIN net' = DOMAIN net /\ net'[n].at = "failed"
          /\ net'[n].op = net[n].op /\ net'[n].arg = net[n].arg
          /\ \A k \in DOMAIN net \ {n} : net'[k] = net[k]
      BY <1>1, <2>2, RejectTells
    <3> QED
      BY <1>1, <2>1, <3>1, AccountInPlace
  <2> QED
    BY <1>2, <1>7, <2>1, <2>2
<1> QED
  BY <1>3, <1>4, <1>5, <1>6, <1>7 DEF ServeAccount

(* The page takes auth/me for what the server uses. *)
LEMMA MeAnsweredKeeps ==
    ASSUME AccountInv, NEW n \in DOMAIN net, MeAnswered(n)
    PROVE  AccountInv'
<1>1. /\ net[n].op = "me" /\ net[n].at = "answered" /\ net' = Settle(n) /\ userPrefs' = net[n].ans
      /\ prefsLate' = (prefsLate \/ Awaited(net, {"prefs"})) /\ UNCHANGED <<page, notified>>
      /\ Posted(net)
  BY DEF MeAnswered, Answered, Awaited, Waiting, AccountInv
<1>2. Posted(net') /\ OneSave(net')
  BY <1>1, AccountSettles
<1>3. ASSUME page = "open", ~prefsLate' PROVE PrefsKnown(net)'
  <2>1. \A k \in DOMAIN net : net[k].op = "me" /\ net[k].at = "answered" => net[k].ans = notified
    BY <1>1, <1>3 DEF AccountInv, PrefsKnown
  <2>2. \A k \in DOMAIN net' : \E m \in DOMAIN net : net'[k] = net[m]
    BY <1>1, SettledWere
  <2> QED
    BY <1>1, <2>1, <2>2 DEF PrefsKnown
<1> QED
  BY <1>1, <1>2, <1>3 DEF AccountInv, OneSave

(* The page takes the boxes that are checked for what was saved. *)
LEMMA PrefsSavedKeeps ==
    ASSUME AccountInv, NEW n \in DOMAIN net, PrefsSaved(n)
    PROVE  AccountInv'
<1>1. /\ net[n].op = "prefs" /\ net[n].at = "answered" /\ net' = Settle(n) /\ userPrefs' = checked
      /\ prefsLate' = (checked # net[n].arg \/ Awaited(net, {"me"})) /\ UNCHANGED <<page, notified>>
      /\ Posted(net) /\ net[n].arg = notified
  BY DEF PrefsSaved, PrefsChosen, Answered, Awaited, Waiting, AccountInv, OneSave
<1>2. Posted(net') /\ OneSave(net')
  BY <1>1, AccountSettles
<1>3. ASSUME ~prefsLate' PROVE PrefsKnown(net)'
  <2>1. ~Awaited(net, {"me"}) /\ checked = net[n].arg
    BY <1>1, <1>3
  <2>2. \A k \in DOMAIN net' : \E m \in DOMAIN net : net'[k] = net[m]
    BY <1>1, SettledWere
  <2>3. \A k \in DOMAIN net' : net'[k].op # "me"
    BY <2>1, <2>2 DEF Awaited
  <2> QED
    BY <1>1, <2>1, <2>3 DEF PrefsKnown
<1> QED
  BY <1>1, <1>2, <1>3 DEF AccountInv, OneSave

LEMMA AccountNextKeeps ==
    ASSUME AccountInv, [AccountNext]_accountVars
    PROVE  AccountInv'
<1>1. Posted(net) /\ OneSave(net) /\ (page = "open" /\ ~prefsLate => PrefsKnown(net))
  BY DEF AccountInv
<1>2. ASSUME NEW op, NEW arg, net' = Append(net, Request(op, arg)),
             op \notin {"me", "prefs"} \/ (op = "prefs" /\ ~Awaited(net, {"prefs"})),
             UNCHANGED <<page, notified, userPrefs, prefsLate>>
      PROVE  AccountInv'
  <2>1. Sends(net, net', op, arg)
    BY <1>1, <1>2, SendTells
  <2> QED
    BY <1>1, <1>2, <2>1, AccountSends
<1>3. CASE SavePrefs \/ EnablePush \/ SavePassword
  BY <1>2, <1>3 DEF SavePrefs, EnablePush, SavePassword, Awaited, Waiting
<1>4. CASE \/ OpenAccount \/ CloseAccount \/ \E c \in Channels : CheckBox(c)
           \/ (Dismiss /\ UNCHANGED accountState) \/ UNCHANGED accountVars
  <2>1. UNCHANGED <<net, page, notified, userPrefs, prefsLate>>
    BY <1>4 DEF OpenAccount, CloseAccount, CheckBox, Dismiss, accountState, accountVars, web
  <2> QED
    BY <2>1 DEF AccountInv, OneSave, PrefsKnown
<1>5. ASSUME NEW n \in DOMAIN net, ServeAccount(n) \/ MeAnswered(n) \/ PrefsSaved(n)
      PROVE  AccountInv'
  BY <1>5, ServeAccountKeeps, MeAnsweredKeeps, PrefsSavedKeeps
<1>6. ASSUME NEW n \in DOMAIN net, KeyAnswered(n) \/ DeviceAnswered(n) \/ PasswordChanged(n)
      PROVE  AccountInv'
  <2> DEFINE r == Settle(n)
  <2>1. /\ net[n].op \in {"public key", "device", "password"}
        /\ net' = r \/ net' = Append(r, Request("device", {}))
        /\ UNCHANGED <<page, notified, userPrefs, prefsLate>>
    BY <1>6 DEF KeyAnswered, DeviceAnswered, PasswordChanged, Answered
  <2>2. Posted(r) /\ OneSave(r) /\ (page = "open" /\ ~prefsLate => PrefsKnown(r))
    BY <2>1, AccountSettles
  <2> HIDE DEF r
  <2>3. CASE net' = r
    BY <2>1, <2>2, <2>3 DEF AccountInv, OneSave, PrefsKnown
  <2>4. CASE net' = Append(r, Request("device", {}))
    <3>1. Sends(r, net', "device", {})
      BY <2>2, <2>4, SendTells
    <3> QED
      BY <2>1, <2>2, <3>1, AccountSends
  <2> QED
    BY <2>1, <2>3, <2>4
<1>7. ASSUME NEW n \in DOMAIN net, AccountFailed(n) PROVE AccountInv'
  <2>1. /\ net' = Settle(n) /\ prefsLate' = (prefsLate \/ net[n].op \in {"me", "prefs"})
        /\ UNCHANGED <<page, notified, userPrefs>>
    BY <1>7 DEF AccountFailed, ShowError
  <2>2. /\ Posted(net') /\ OneSave(net')
        /\ page = "open" /\ ~prefsLate /\ net[n].op \notin {"me", "prefs"} => PrefsKnown(net')
    BY <2>1, AccountSettles
  <2> QED
    BY <2>1, <2>2 DEF AccountInv, OneSave, PrefsKnown
<1>8. ASSUME NEW n \in DOMAIN net, Lose(n), UNCHANGED accountState PROVE AccountInv'
  <2>1. net' = Reject(n) /\ UNCHANGED <<page, notified, userPrefs, prefsLate>>
    BY <1>8 DEF Lose, accountState
  <2>2. /\ Posted(net') /\ DOMAIN net' = DOMAIN net /\ net'[n].at = "failed"
        /\ net'[n].op = net[n].op /\ net'[n].arg = net[n].arg
        /\ \A k \in DOMAIN net \ {n} : net'[k] = net[k]
    BY <1>1, <2>1, RejectTells
  <2> QED
    BY <2>1, <2>2, AccountInPlace
<1>9. ASSUME NEW n \in DOMAIN net, SessionExpired(n), UNCHANGED accountState PROVE AccountInv'
  <2>1. net' = <<>> /\ page' = "login"
    BY <1>9 DEF SessionExpired
  <2> QED
    BY <2>1, NothingPosted DEF AccountInv, OneSave
<1> QED
  BY <1>3, <1>4, <1>5, <1>6, <1>7, <1>8, <1>9 DEF AccountNext

LEMMA AccountStarts == WebInit(FirstAccount) /\ AccountInit => AccountInv
<1> SUFFICES ASSUME WebInit(FirstAccount), AccountInit PROVE AccountInv
  OBVIOUS
<1> DEFINE m == Request("me", {})
<1>1. net = <<m>>
  BY DEF WebInit, FirstAccount
<1>2. m.op = "me" /\ m.at = "sent" /\ {"op", "arg", "at"} \subseteq DOMAIN m
  BY DEF Request
<1> HIDE DEF m
<1>3. net \in Seq({m}) /\ DOMAIN net = {1} /\ net[1] = m
  BY <1>1
<1>4. Posted(net)
  BY <1>2, <1>3, PostedIs
<1> QED
  BY <1>2, <1>3, <1>4 DEF AccountInv, OneSave, PrefsKnown, Awaited

(* When everything is answered the dialog is filled with the channels the     *)
(* server uses, unless auth/me or the last save was lost, or the two crossed,  *)
(* or a box was changed while it was saved.                                  *)
THEOREM PrefsAreNotified == AccountSpec => []UserPrefsTrue
<1>1. AccountInv => UserPrefsTrue
  BY NothingPosted DEF AccountInv, UserPrefsTrue, PrefsKnown, Awaited, Quiet
<1> QED
  BY <1>1, AccountStarts, AccountNextKeeps, PTL DEF AccountSpec

---------------------------------------------------------------------------
(* Tables with switches *)

Values == {"on", "off", "absent"}

RowMessage(m) ==
    /\ m.op \in {"list", "set", "add"}
    /\ m.op = "list" /\ m.at = "answered" => m.ans \in [Rows -> Values]
    /\ m.op # "list" => m.arg.row \in Rows /\ m.arg.to \in Values
    /\ m.op = "set" => m.arg.to # "absent"

About(m, op, row) == m.op = op /\ m.arg.row = row

(* The row is added or deleted: its answer will list the rows again. *)
RowAdded(q, row) == /\ \E k \in DOMAIN q : About(q[k], "add", row)
                    /\ \A k \in DOMAIN q : ~About(q[k], "set", row)

(* The control of the row has changed and its one request, which no list     *)
(* crosses, tells what the server has.                                       *)
RowSet(q, row, shown, flag) ==
    \E k \in DOMAIN q :
       /\ About(q[k], "set", row)
       /\ shown = q[k].arg.to
       /\ flag = IF q[k].at = "answered" THEN q[k].arg.to ELSE Flip(q[k].arg.to)
       /\ \A m \in DOMAIN q \ {k} : q[m].op # "list" /\ q[m].arg.row # row

(* The last list that is awaited brings what the server has, or none is      *)
(* awaited and the control shows it.                                         *)
RowListed(q, row, shown, flag) ==
    /\ \A k \in DOMAIN q : ~About(q[k], "set", row)
    /\ \A k \in DOMAIN q : q[k].op = "list" /\ q[k].at = "answered" =>
                               Followed(q, k, "list") \/ q[k].ans[row] = flag
    /\ ~Awaited(q, {"list"}) => shown = flag

RowKept(q, row, shown, flag) == \/ RowAdded(q, row) \/ RowSet(q, row, shown, flag)
                                \/ RowListed(q, row, shown, flag)

RowsInv == /\ Posted(net) /\ \A k \in DOMAIN net : RowMessage(net[k])
           /\ flags \in [Rows -> Values] /\ switches \in [Rows -> Values]
           /\ page = "open" => \A r \in Rows \ (crossed \cup unsure) :
                                  RowKept(net, r, switches[r], flags[r])

(* The rows are listed again, and nothing was awaited for this one. *)
LEMMA RowAskedAgain ==
    ASSUME NEW q, Posted(q), NEW arg, NEW p, Sends(q, p, "list", arg),
           NEW row, \A k \in DOMAIN q : ~About(q[k], "set", row), NEW shown, NEW flag
    PROVE  RowListed(p, row, shown, flag)
<1>1. /\ DOMAIN p = DOMAIN q \cup {Len(p)} /\ \A k \in DOMAIN q : k < Len(p) /\ p[k] = q[k]
      /\ p[Len(p)].op = "list" /\ p[Len(p)].at = "sent" /\ DOMAIN q \subseteq Nat /\ Len(p) \in Nat
  BY PostedDomain DEF Sends
<1>2. \A k \in DOMAIN q : Followed(p, k, "list")
  BY <1>1 DEF Followed
<1>3. Awaited(p, {"list"})
  BY <1>1 DEF Awaited
<1> QED
  BY <1>1, <1>2, <1>3 DEF RowListed, About

(* A change of another row is asked for. *)
LEMMA RowElse ==
    ASSUME NEW q, Posted(q), NEW op \in {"set", "add"}, NEW arg, NEW p, Sends(q, p, op, arg),
           NEW row, arg.row # row, NEW shown, NEW flag, RowKept(q, row, shown, flag)
    PROVE  RowKept(p, row, shown, flag)
<1>1. /\ DOMAIN p = DOMAIN q \cup {Len(p)} /\ \A k \in DOMAIN q : p[k] = q[k]
      /\ p[Len(p)].op = op /\ p[Len(p)].arg = arg
  BY DEF Sends
<1>2. CASE RowAdded(q, row)
  BY <1>1, <1>2 DEF RowKept, RowAdded, About
<1>3. CASE RowSet(q, row, shown, flag)
  <2>1. PICK k \in DOMAIN q :
            /\ About(q[k], "set", row) /\ shown = q[k].arg.to
            /\ flag = IF q[k].at = "answered" THEN q[k].arg.to ELSE Flip(q[k].arg.to)
            /\ \A m \in DOMAIN q \ {k} : q[m].op # "list" /\ q[m].arg.row # row
    BY <1>3 DEF RowSet
  <2>2. k \in DOMAIN p /\ p[k] = q[k] /\ \A m \in DOMAIN p \ {k} : p[m].op # "list" /\ p[m].arg.row # row
    BY <1>1, <2>1
  <2> QED
    BY <2>1, <2>2 DEF RowKept, RowSet
<1>4. CASE RowListed(q, row, shown, flag)
  <2>1. \A k \in DOMAIN q : Followed(q, k, "list") => Followed(p, k, "list")
    BY <1>1 DEF Followed
  <2>2. Awaited(q, {"list"}) => Awaited(p, {"list"})
    BY <1>1 DEF Awaited
  <2> QED
    BY <1>1, <1>4, <2>1, <2>2 DEF RowKept, RowListed, About
<1> QED
  BY <1>2, <1>3, <1>4 DEF RowKept

(* One message is answered or refused: what it did to the row, it tells. *)
LEMMA RowInPlace ==
    ASSUME NEW q, NEW p, NEW n \in DOMAIN q, DOMAIN p = DOMAIN q,
           p[n].op = q[n].op, p[n].arg = q[n].arg, \A k \in DOMAIN q \ {n} : p[k] = q[k],
           NEW row, NEW shown, NEW flag, NEW now, RowKept(q, row, shown, flag),
           q[n].op = "list" => now = flag /\ (p[n].at = "answered" => p[n].ans[row] = now),
           q[n].op \in {"list", "set", "add"},
           q[n].op # "list" /\ q[n].arg.row # row => now = flag,
           About(q[n], "set", row) =>
              IF p[n].at = "answered" THEN now = q[n].arg.to ELSE now = flag /\ q[n].at # "answered"
    PROVE  RowKept(p, row, shown, now)
<1>1. \A k \in DOMAIN q : p[k].op = q[k].op /\ p[k].arg = q[k].arg
  OBVIOUS
<1>2. CASE RowAdded(q, row)
  BY <1>1, <1>2 DEF RowKept, RowAdded, About
<1>3. CASE RowSet(q, row, shown, flag)
  <2>1. PICK k \in DOMAIN q :
            /\ About(q[k], "set", row) /\ shown = q[k].arg.to
            /\ flag = IF q[k].at = "answered" THEN q[k].arg.to ELSE Flip(q[k].arg.to)
            /\ \A m \in DOMAIN q \ {k} : q[m].op # "list" /\ q[m].arg.row # row
    BY <1>3 DEF RowSet
  <2>2. About(p[k], "set", row) /\ shown = p[k].arg.to
    BY <1>1, <2>1 DEF About
  <2>3. \A m \in DOMAIN p \ {k} : p[m].op # "list" /\ p[m].arg.row # row
    BY <1>1, <2>1
  <2>4. now = IF p[k].at = "answered" THEN p[k].arg.to ELSE Flip(p[k].arg.to)
    <3>1. CASE k = n
      BY <1>1, <2>1, <3>1
    <3>2. CASE k # n
      <4>1. q[n].op # "list" /\ q[n].arg.row # row
        BY <2>1, <3>2
      <4> QED
        BY <2>1, <3>2, <4>1
    <3> QED
      BY <3>1, <3>2
  <2> QED
    BY <2>2, <2>3, <2>4 DEF RowKept, RowSet
<1>4. CASE ~RowAdded(q, row) /\ RowListed(q, row, shown, flag)
  <2>1. ~About(q[n], "set", row) /\ ~About(q[n], "add", row)
    BY <1>4 DEF RowListed, RowAdded
  <2>2. now = flag
    BY <2>1 DEF About
  <2>3. \A k \in DOMAIN q : Followed(q, k, "list") => Followed(p, k, "list")
    BY <1>1 DEF Followed
  <2>4. Awaited(q, {"list"}) => Awaited(p, {"list"})
    BY <1>1 DEF Awaited
  <2>5. \A k \in DOMAIN p : ~About(p[k], "set", row)
    BY <1>1, <1>4 DEF RowListed, About
  <2>6. \A k \in DOMAIN p : p[k].op = "list" /\ p[k].at = "answered" =>
                               Followed(p, k, "list") \/ p[k].ans[row] = now
    BY <1>1, <1>4, <2>2, <2>3 DEF RowListed
  <2> QED
    BY <1>4, <2>2, <2>4, <2>5, <2>6 DEF RowKept, RowListed
<1> QED
  BY <1>2, <1>3, <1>4 DEF RowKept

(* A change of another row, or the adding of this one, has been handled. *)
LEMMA RowOthersSettled ==
    ASSUME Posted(net), NEW n \in DOMAIN net, NEW p, p = Settle(n), net[n].op # "list",
           NEW row, net[n].arg.row # row, NEW shown, NEW flag, RowKept(net, row, shown, flag)
    PROVE  RowKept(p, row, shown, flag)
<1>1. \A k \in DOMAIN p : Was(k, n) \in DOMAIN net \ {n} /\ p[k] = net[Was(k, n)]
  BY SettleTells
<1>2. \A m \in DOMAIN net \ {n} : Now(m, n) \in DOMAIN p /\ p[Now(m, n)] = net[m]
  BY SettleTells
<1>3. CASE RowAdded(net, row)
  <2>1. PICK k \in DOMAIN net \ {n} : About(net[k], "add", row)
    BY <1>3 DEF RowAdded, About
  <2> QED
    BY <1>1, <1>2, <1>3, <2>1 DEF RowKept, RowAdded
<1>4. CASE RowSet(net, row, shown, flag)
  <2>1. PICK k \in DOMAIN net :
            /\ About(net[k], "set", row) /\ shown = net[k].arg.to
            /\ flag = IF net[k].at = "answered" THEN net[k].arg.to ELSE Flip(net[k].arg.to)
            /\ \A m \in DOMAIN net \ {k} : net[m].op # "list" /\ net[m].arg.row # row
    BY <1>4 DEF RowSet
  <2>2. k # n
    BY <2>1 DEF About
  <2>3. Now(k, n) \in DOMAIN p /\ p[Now(k, n)] = net[k] /\ Was(Now(k, n), n) = k
    BY <2>2, SettleTells
  <2>4. \A j \in DOMAIN p \ {Now(k, n)} : Was(j, n) # k
    <3>1. \A j \in DOMAIN p : Now(Was(j, n), n) = j
      <4>1. DOMAIN p \subseteq Nat /\ n \in Nat
        BY <1>1, SettleTells, PostedDomain
      <4> QED
        BY <4>1 DEF Now, Was
    <3> QED
      BY <3>1
  <2>5. \A j \in DOMAIN p \ {Now(k, n)} : p[j].op # "list" /\ p[j].arg.row # row
    BY <1>1, <2>1, <2>4
  <2> QED
    BY <2>1, <2>3, <2>5 DEF RowKept, RowSet
<1>5. CASE RowListed(net, row, shown, flag)
  <2>1. \A k \in DOMAIN p : ~About(p[k], "set", row)
    BY <1>1, <1>5 DEF RowListed
  <2>2. \A k \in DOMAIN p : Followed(net, Was(k, n), "list") => Followed(p, k, "list")
    BY StillFollowed
  <2>3. \A k \in DOMAIN p : p[k].op = "list" /\ p[k].at = "answered" =>
                               Followed(p, k, "list") \/ p[k].ans[row] = flag
    BY <1>1, <1>5, <2>2 DEF RowListed
  <2>4. Awaited(net, {"list"}) => Awaited(p, {"list"})
    BY StillAwaited
  <2> QED
    BY <1>5, <2>1, <2>3, <2>4 DEF RowKept, RowListed
<1> QED
  BY <1>3, <1>4, <1>5 DEF RowKept

(* The change of this row has been handled: nothing else is awaited for it. *)
LEMMA RowOwnSettled ==
    ASSUME Posted(net), NEW n \in DOMAIN net, NEW p, p = Settle(n),
           NEW row, About(net[n], "set", row), NEW shown, NEW flag, RowKept(net, row, shown, flag)
    PROVE  /\ shown = net[n].arg.to
           /\ flag = IF net[n].at = "answered" THEN net[n].arg.to ELSE Flip(net[n].arg.to)
           /\ \A now : RowListed(p, row, now, now)
<1>1. RowSet(net, row, shown, flag)
  BY DEF RowKept, RowAdded, RowListed
<1>2. PICK k \in DOMAIN net :
            /\ About(net[k], "set", row) /\ shown = net[k].arg.to
            /\ flag = IF net[k].at = "answered" THEN net[k].arg.to ELSE Flip(net[k].arg.to)
            /\ \A m \in DOMAIN net \ {k} : net[m].op # "list" /\ net[m].arg.row # row
  BY <1>1 DEF RowSet
<1>3. k = n
  BY <1>2 DEF About
<1>4. \A j \in DOMAIN p : p[j].op # "list" /\ p[j].arg.row # row
  BY <1>2, <1>3, SettleTells
<1> QED
  BY <1>2, <1>3, <1>4 DEF RowListed, About, Awaited

(* A list is shown that no earlier one is still to replace. *)
LEMMA RowListShown ==
    ASSUME Posted(net), NEW n \in DOMAIN net, NEW p, p = Settle(n),
           net[n].op = "list", net[n].at = "answered", ~Overtakes(n, {"list"}),
           NEW row, NEW shown, NEW flag, RowKept(net, row, shown, flag)
    PROVE  RowKept(p, row, net[n].ans[row], flag)
<1>1. \A k \in DOMAIN p : Was(k, n) \in DOMAIN net \ {n} /\ p[k] = net[Was(k, n)]
  BY SettleTells
<1>2. CASE RowAdded(net, row)
  <2>1. PICK k \in DOMAIN net \ {n} : About(net[k], "add", row)
    BY <1>2 DEF RowAdded, About
  <2>2. Now(k, n) \in DOMAIN p /\ p[Now(k, n)] = net[k]
    BY <2>1, SettleTells
  <2> QED
    BY <1>1, <1>2, <2>1, <2>2 DEF RowKept, RowAdded
<1>3. CASE RowSet(net, row, shown, flag)
  <2>1. PICK k \in DOMAIN net : About(net[k], "set", row)
                                  /\ \A m \in DOMAIN net \ {k} : net[m].op # "list"
    BY <1>3 DEF RowSet
  <2> QED
    BY <2>1 DEF About
<1>4. CASE RowListed(net, row, shown, flag)
  <2>1. ASSUME NEW k \in DOMAIN p, p[k].op = "list", p[k].at = "answered"
        PROVE  Followed(p, k, "list") \/ p[k].ans[row] = flag
    <3>1. ~(Was(k, n) < n)
      BY <1>1, <2>1, OvertakenIs
    <3>2. Followed(net, Was(k, n), "list") => Followed(p, k, "list")
      BY <3>1, StillFollowed
    <3> QED
      BY <1>1, <1>4, <2>1, <3>2 DEF RowListed
  <2>2. ASSUME ~Awaited(p, {"list"}) PROVE net[n].ans[row] = flag
    <3>1. ~Followed(net, n, "list")
      <4>1. SUFFICES ASSUME NEW m \in DOMAIN net, m > n, net[m].op = "list" PROVE FALSE
        BY DEF Followed
      <4>2. m # n
        BY <4>1, PostedDomain
      <4>3. Now(m, n) \in DOMAIN p /\ p[Now(m, n)] = net[m]
        BY <4>1, <4>2, SettleTells
      <4> QED
        BY <2>2, <4>1, <4>3 DEF Awaited
    <3> QED
      BY <1>4, <3>1 DEF RowListed
  <2> QED
    BY <1>1, <1>4, <2>1, <2>2 DEF RowKept, RowListed
<1> QED
  BY <1>2, <1>3, <1>4 DEF RowKept

(* The page sends a change. *)
LEMMA RowsSend ==
    ASSUME RowsInv, NEW op \in {"set", "add"}, NEW arg, NEW r \in Rows, arg.row = r,
           arg.to \in Values, op = "set" => arg.to # "absent",
           net' = Append(net, Request(op, arg)), UNCHANGED <<page, flags, unsure>>,
           switches' \in [Rows -> Values], \A s \in Rows \ {r} : switches'[s] = switches[s],
           crossed \subseteq crossed',
           page = "open" /\ r \notin crossed' \cup unsure => RowKept(net', r, switches'[r], flags[r])
    PROVE  RowsInv'
<1>1. Posted(net) /\ (\A k \in DOMAIN net : RowMessage(net[k])) /\ flags \in [Rows -> Values]
  BY DEF RowsInv
<1>2. Sends(net, net', op, arg)
  BY <1>1, SendTells
<1>3. /\ Posted(net') /\ DOMAIN net' = DOMAIN net \cup {Len(net')} /\ \A k \in DOMAIN net : net'[k] = net[k]
      /\ net'[Len(net')].op = op /\ net'[Len(net')].arg = arg
  BY <1>2 DEF Sends
<1>4. \A k \in DOMAIN net' : RowMessage(net'[k])
  BY <1>1, <1>3 DEF RowMessage
<1>5. ASSUME page = "open", NEW s \in Rows \ (crossed' \cup unsure), s # r
      PROVE  RowKept(net', s, switches'[s], flags[s])
  <2>1. RowKept(net, s, switches[s], flags[s])
    BY <1>5 DEF RowsInv
  <2> QED
    BY <1>1, <1>2, <1>5, <2>1, RowElse
<1> QED
  BY <1>1, <1>3, <1>4, <1>5 DEF RowsInv

LEMMA ClickSwitchKeeps ==
    ASSUME RowsInv, NEW r \in Rows, ClickSwitch(r)
    PROVE  RowsInv'
<1> DEFINE to == Flip(switches[r])
           arg == [row |-> r, to |-> to]
<1>1. /\ switches' = [switches EXCEPT ![r] = to] /\ net' = Append(net, Request("set", arg))
      /\ UNCHANGED <<page, flags, unsure>> /\ switches[r] # "absent"
      /\ crossed' = IF Crossing(r) THEN crossed \cup {r} ELSE crossed
      /\ flags \in [Rows -> Values] /\ switches \in [Rows -> Values] /\ Posted(net)
      /\ \A k \in DOMAIN net : RowMessage(net[k])
  BY DEF ClickSwitch, RowsInv
<1>2. arg.row = r /\ arg.to = to /\ to \in {"on", "off"} /\ switches[r] = Flip(to)
  BY <1>1 DEF Flip, Values
<1> HIDE DEF to, arg
<1>3. /\ switches' \in [Rows -> Values] /\ \A s \in Rows \ {r} : switches'[s] = switches[s]
      /\ switches'[r] = to
  BY <1>1, <1>2 DEF Values
<1>4. ASSUME page = "open", r \notin crossed' \cup unsure
      PROVE  RowKept(net', r, to, flags[r])
  <2>1. ~Crossing(r) /\ RowKept(net, r, switches[r], flags[r])
    BY <1>1, <1>4 DEF RowsInv
  <2>2. \A k \in DOMAIN net : net[k].op # "list" /\ net[k].arg.row # r
    BY <2>1 DEF Crossing
  <2>3. flags[r] = Flip(to)
    BY <1>2, <2>1, <2>2 DEF RowKept, RowAdded, RowSet, RowListed, Awaited, About
  <2>4. Sends(net, net', "set", arg)
    BY <1>1, SendTells
  <2>5. /\ Len(net') \in DOMAIN net' /\ DOMAIN net' = DOMAIN net \cup {Len(net')}
        /\ net'[Len(net')].op = "set" /\ net'[Len(net')].arg = arg /\ net'[Len(net')].at = "sent"
        /\ \A k \in DOMAIN net : net'[k] = net[k]
    BY <2>4 DEF Sends
  <2>6. \A k \in DOMAIN net' \ {Len(net')} : net'[k].op # "list" /\ net'[k].arg.row # r
    BY <2>2, <2>5
  <2> QED
    BY <1>2, <2>3, <2>5, <2>6 DEF RowKept, RowSet, About
<1>5. crossed \subseteq crossed'
  BY <1>1
<1> QED
  BY <1>1, <1>2, <1>3, <1>4, <1>5, RowsSend DEF Values

(* A row is added or deleted: its control has no request under way. *)
LEMMA AddRowKeeps ==
    ASSUME RowsInv, NEW r \in Rows, AddRow(r) \/ DeleteRow(r)
    PROVE  RowsInv'
<1>1. PICK to \in {"on", "absent"} : net' = Append(net, Request("add", [row |-> r, to |-> to]))
  BY DEF AddRow, DeleteRow
<1> DEFINE arg == [row |-> r, to |-> to]
<1>2. /\ UNCHANGED <<page, flags, switches, unsure>> /\ crossed \subseteq crossed'
      /\ flags[r] = "absent" \/ crossed' = IF Crossing(r) THEN crossed \cup {r} ELSE crossed
      /\ switches \in [Rows -> Values] /\ Posted(net) /\ \A k \in DOMAIN net : RowMessage(net[k])
  BY DEF AddRow, DeleteRow, RowsInv
<1>3. arg.row = r /\ arg.to = to /\ net' = Append(net, Request("add", arg))
  BY <1>1
<1> HIDE DEF arg
<1>4. ASSUME page = "open", r \notin crossed' \cup unsure
      PROVE  RowKept(net', r, switches[r], flags[r])
  <2>1. RowKept(net, r, switches[r], flags[r])
    BY <1>2, <1>4 DEF RowsInv
  <2>2. \A k \in DOMAIN net : ~About(net[k], "set", r)
    <3>1. SUFFICES ASSUME NEW k \in DOMAIN net, About(net[k], "set", r) PROVE FALSE
      OBVIOUS
    <3>2. RowSet(net, r, switches[r], flags[r])
      BY <2>1, <3>1 DEF RowKept, RowAdded, RowListed
    <3>3. flags[r] # "absent"
      BY <1>2, <3>2 DEF RowSet, RowMessage, About, Flip
    <3> QED
      BY <1>2, <1>4, <3>1, <3>3 DEF Crossing, About
  <2>3. Sends(net, net', "add", arg)
    BY <1>2, <1>3, SendTells
  <2>4. /\ DOMAIN net' = DOMAIN net \cup {Len(net')} /\ net'[Len(net')].op = "add"
        /\ net'[Len(net')].arg = arg /\ \A k \in DOMAIN net : net'[k] = net[k]
    BY <2>3 DEF Sends
  <2> QED
    BY <1>3, <2>2, <2>4 DEF RowKept, RowAdded, About
<1> QED
  BY <1>2, <1>3, <1>4, RowsSend DEF Values

(* A message is answered or refused, and the page does not know yet. *)
LEMMA RowsInPlace ==
    ASSUME RowsInv, NEW n \in DOMAIN net, DOMAIN net' = DOMAIN net, Posted(net'),
           net'[n].op = net[n].op, net'[n].arg = net[n].arg,
           \A k \in DOMAIN net \ {n} : net'[k] = net[k],
           UNCHANGED <<page, switches, crossed>>, unsure \subseteq unsure',
           flags' \in [Rows -> Values],
           net[n].op = "list" => /\ UNCHANGED flags
                                 /\ net'[n].at = "answered" => net'[n].ans = flags,
           net[n].op # "list" => \A r \in Rows \ {net[n].arg.row} : flags'[r] = flags[r],
           net[n].op = "set" /\ net[n].arg.row \notin unsure' =>
              IF net'[n].at = "answered" THEN flags'[net[n].arg.row] = net[n].arg.to
              ELSE UNCHANGED flags /\ net[n].at # "answered"
    PROVE  RowsInv'
<1>1. /\ \A k \in DOMAIN net : RowMessage(net[k]) /\ flags \in [Rows -> Values]
      /\ switches \in [Rows -> Values]
  BY DEF RowsInv
<1>2. \A k \in DOMAIN net' : RowMessage(net'[k])
  BY <1>1 DEF RowMessage
<1>3. ASSUME page = "open", NEW r \in Rows \ (crossed \cup unsure')
      PROVE  RowKept(net', r, switches[r], flags'[r])
  <2>1. RowKept(net, r, switches[r], flags[r])
    BY <1>3 DEF RowsInv
  <2>2. RowMessage(net[n])
    BY <1>1
  <2>3. /\ net[n].op \in {"list", "set", "add"}
        /\ net[n].op = "list" =>
              flags'[r] = flags[r] /\ (net'[n].at = "answered" => net'[n].ans[r] = flags'[r])
        /\ net[n].op # "list" /\ net[n].arg.row # r => flags'[r] = flags[r]
        /\ About(net[n], "set", r) =>
              IF net'[n].at = "answered" THEN flags'[r] = net[n].arg.to
              ELSE flags'[r] = flags[r] /\ net[n].at # "answered"
    BY <1>3, <2>2 DEF RowMessage, About
  <2> QED
    BY <2>1, <2>3, RowInPlace
<1> QED
  BY <1>1, <1>2, <1>3 DEF RowsInv

LEMMA ServeSwitchKeeps ==
    ASSUME RowsInv, NEW n \in DOMAIN net, ServeSwitch(n)
    PROVE  RowsInv'
<1>1. /\ UNCHANGED <<page, switches, crossed, unsure>> /\ net[n].at = "sent"
      /\ Posted(net) /\ RowMessage(net[n]) /\ flags \in [Rows -> Values]
  BY DEF ServeSwitch, RowsInv
<1>2. CASE net' = Reject(n) /\ UNCHANGED flags
  <2>1. /\ Posted(net') /\ DOMAIN net' = DOMAIN net /\ net'[n].at = "failed"
        /\ net'[n].op = net[n].op /\ net'[n].arg = net[n].arg
        /\ \A k \in DOMAIN net \ {n} : net'[k] = net[k]
    BY <1>1, <1>2, RejectTells
  <2> QED
    BY <1>1, <1>2, <2>1, RowsInPlace
<1>3. CASE net[n].op = "list" /\ net' = Reply(n, flags) /\ UNCHANGED flags
  <2>1. /\ Posted(net') /\ DOMAIN net' = DOMAIN net /\ net'[n].ans = flags
        /\ net'[n].op = net[n].op /\ net'[n].arg = net[n].arg
        /\ \A k \in DOMAIN net \ {n} : net'[k] = net[k]
    BY <1>1, <1>3, ReplyTells
  <2> QED
    BY <1>1, <1>3, <2>1, RowsInPlace
<1>4. CASE /\ net[n].op \in {"set", "add"} /\ net' = Reply(n, {})
           /\ flags' = [flags EXCEPT ![net[n].arg.row] = net[n].arg.to]
  <2>1. /\ Posted(net') /\ DOMAIN net' = DOMAIN net /\ net'[n].at = "answered"
        /\ net'[n].op = net[n].op /\ net'[n].arg = net[n].arg
        /\ \A k \in DOMAIN net \ {n} : net'[k] = net[k]
    BY <1>1, <1>4, ReplyTells
  <2>2. net[n].arg.row \in Rows /\ net[n].arg.to \in Values
    BY <1>1, <1>4 DEF RowMessage
  <2>3. /\ flags' \in [Rows -> Values] /\ flags'[net[n].arg.row] = net[n].arg.to
        /\ \A r \in Rows \ {net[n].arg.row} : flags'[r] = flags[r]
    BY <1>1, <1>4, <2>2
  <2> QED
    BY <1>1, <1>4, <2>1, <2>3, RowsInPlace
<1> QED
  BY <1>2, <1>3, <1>4 DEF ServeSwitch

LEMMA LoseSwitchKeeps ==
    ASSUME RowsInv, NEW n \in DOMAIN net, LoseSwitch(n)
    PROVE  RowsInv'
<1>1. /\ net' = Reject(n) /\ UNCHANGED <<page, switches, crossed, flags>> /\ Posted(net)
      /\ unsure' = IF net[n].at = "answered" /\ net[n].op # "list"
                   THEN unsure \cup {net[n].arg.row} ELSE unsure
      /\ flags \in [Rows -> Values]
  BY DEF LoseSwitch, Lose, RowsInv
<1>2. /\ Posted(net') /\ DOMAIN net' = DOMAIN net /\ net'[n].at = "failed"
      /\ net'[n].op = net[n].op /\ net'[n].arg = net[n].arg
      /\ \A k \in DOMAIN net \ {n} : net'[k] = net[k]
  BY <1>1, RejectTells
<1>3. net[n].op = "set" /\ net[n].arg.row \notin unsure' => net[n].at # "answered"
  BY <1>1
<1>4. unsure \subseteq unsure'
  BY <1>1
<1> QED
  BY <1>1, <1>2, <1>3, <1>4, RowsInPlace

(* What the n-th message leaves behind. *)
LEMMA RowsSettle ==
    ASSUME RowsInv, NEW n \in DOMAIN net, NEW p, p = Settle(n)
    PROVE  /\ Posted(p) /\ \A k \in DOMAIN p : RowMessage(p[k])
           /\ \A k \in DOMAIN p : \E m \in DOMAIN net : m # n /\ p[k] = net[m]
BY SettledWere DEF RowsInv

LEMMA SwitchDoneKeeps ==
    ASSUME RowsInv, NEW n \in DOMAIN net, SwitchDone(n)
    PROVE  RowsInv'
<1> DEFINE p == Settle(n)
           again == ListedAgain(net[n].op)
<1>1. /\ net' = IF again THEN Append(p, Request("list", {})) ELSE p
      /\ UNCHANGED <<page, flags, switches, unsure>> /\ net[n].op \in {"set", "add"}
      /\ net[n].at = "answered" /\ Posted(net) /\ crossed \subseteq crossed'
      /\ \A r \in Rows, m \in DOMAIN net \ {n} :
            again /\ About(net[m], "set", r) => r \in crossed'
      /\ net[n].op = "add" => again
      /\ flags \in [Rows -> Values] /\ switches \in [Rows -> Values]
  BY DEF SwitchDone, Answered, RowList, ListedAgain, RowsInv, About
<1>2. /\ Posted(p) /\ \A k \in DOMAIN p : RowMessage(p[k])
      /\ \A k \in DOMAIN p : \E m \in DOMAIN net : m # n /\ p[k] = net[m]
  BY RowsSettle
<1>3. p = Settle(n)
  OBVIOUS
<1> HIDE DEF p, again
<1>4. again => Sends(p, net', "list", {})
  BY <1>1, <1>2, SendTells
<1>5. Posted(net') /\ \A k \in DOMAIN net' : RowMessage(net'[k])
  <2>1. CASE again
    BY <1>2, <1>4, <2>1 DEF Sends, RowMessage
  <2> QED
    BY <1>1, <1>2, <2>1
<1>6. ASSUME page = "open", NEW r \in Rows \ (crossed' \cup unsure)
      PROVE  RowKept(net', r, switches[r], flags[r])
  <2>1. RowKept(net, r, switches[r], flags[r])
    BY <1>1, <1>6 DEF RowsInv
  <2>2. CASE ~again
    <3>1. net[n].op = "set" /\ net' = p
      BY <1>1, <2>2
    <3>2. CASE net[n].arg.row # r
      BY <1>1, <1>3, <2>1, <3>1, <3>2, RowOthersSettled
    <3>3. CASE net[n].arg.row = r
      <4>1. About(net[n], "set", r)
        BY <3>1, <3>3 DEF About
      <4>2. switches[r] = flags[r] /\ RowListed(p, r, flags[r], flags[r])
        BY <1>1, <1>3, <2>1, <4>1, RowOwnSettled
      <4> QED
        BY <3>1, <4>2 DEF RowKept
    <3> QED
      BY <3>2, <3>3
  <2>3. CASE again
    <3>1. \A k \in DOMAIN p : ~About(p[k], "set", r)
      BY <1>1, <1>2, <1>6, <2>3
    <3>2. RowListed(net', r, switches[r], flags[r])
      BY <1>2, <1>4, <2>3, <3>1, RowAskedAgain
    <3> QED
      BY <3>2 DEF RowKept
  <2> QED
    BY <2>2, <2>3
<1> QED
  BY <1>1, <1>5, <1>6 DEF RowsInv

LEMMA RowsListedKeeps ==
    ASSUME RowsInv, NEW n \in DOMAIN net, RowsListed(n)
    PROVE  RowsInv'
<1>1. /\ net' = Settle(n) /\ switches' = net[n].ans /\ UNCHANGED <<page, flags, unsure>>
      /\ crossed' = (IF Overtakes(n, {"list"}) THEN Rows ELSE crossed)
      /\ net[n].op = "list" /\ net[n].at = "answered" /\ Posted(net) /\ RowMessage(net[n])
      /\ flags \in [Rows -> Values]
  BY DEF RowsListed, Answered, RowsInv
<1>2. Posted(net') /\ \A k \in DOMAIN net' : RowMessage(net'[k])
  BY <1>1, RowsSettle
<1>3. ASSUME page = "open", NEW r \in Rows \ (crossed' \cup unsure)
      PROVE  RowKept(net', r, switches'[r], flags[r])
  <2>1. ~Overtakes(n, {"list"}) /\ r \notin crossed
    BY <1>1, <1>3
  <2>2. RowKept(net, r, switches[r], flags[r])
    BY <1>3, <2>1 DEF RowsInv
  <2> QED
    BY <1>1, <2>1, <2>2, RowListShown
<1>4. switches' \in [Rows -> Values]
  BY <1>1 DEF RowMessage
<1> QED
  BY <1>1, <1>2, <1>3, <1>4 DEF RowsInv

(* The users' flags are turned back; the row of another change is unsure. *)
LEMMA SwitchFailedKeeps ==
    ASSUME RowsInv, NEW n \in DOMAIN net, SwitchFailed(n)
    PROVE  RowsInv'
<1> DEFINE back == {r \in Rows : net[n].op = "set" /\ net[n].arg.row = r /\ table = "users"}
<1>1. /\ net' = Settle(n) /\ UNCHANGED <<page, flags, crossed>>
      /\ switches' = [r \in Rows |-> IF r \in back /\ switches[r] # "absent"
                                     THEN Flip(switches[r]) ELSE switches[r]]
      /\ unsure' = CASE net[n].op = "list" -> Rows
                     [] net[n].op # "list" /\ table = "users" /\ net[n].op = "set" -> unsure
                     [] OTHER -> unsure \cup {net[n].arg.row}
      /\ net[n].at = "failed" /\ Posted(net) /\ RowMessage(net[n])
      /\ flags \in [Rows -> Values] /\ switches \in [Rows -> Values]
  BY DEF SwitchFailed, ShowError, Failed, RowsInv
<1>2. Posted(net') /\ \A k \in DOMAIN net' : RowMessage(net'[k])
  BY <1>1, RowsSettle
<1>3. \A r \in Rows : r \in back <=> net[n].op = "set" /\ net[n].arg.row = r /\ table = "users"
  OBVIOUS
<1> HIDE DEF back
<1>4. switches' \in [Rows -> Values]
  BY <1>1 DEF Flip, Values
<1>5. ASSUME page = "open", NEW r \in Rows \ (crossed \cup unsure')
      PROVE  RowKept(net', r, switches'[r], flags[r])
  <2>1. /\ net[n].op # "list" /\ r \notin unsure
        /\ net[n].arg.row = r => net[n].op = "set" /\ table = "users"
    BY <1>1, <1>5
  <2>2. RowKept(net, r, switches[r], flags[r])
    BY <1>5, <2>1 DEF RowsInv
  <2>3. CASE net[n].arg.row # r
    <3>1. r \notin back
      BY <1>3, <2>3
    <3>2. switches'[r] = switches[r]
      BY <1>1, <1>5, <3>1
    <3> QED
      BY <1>1, <2>1, <2>2, <2>3, <3>2, RowOthersSettled
  <2>4. CASE net[n].arg.row = r
    <3>1. About(net[n], "set", r) /\ r \in back
      BY <1>3, <2>1, <2>4 DEF About
    <3>2. /\ switches[r] = net[n].arg.to /\ flags[r] = Flip(net[n].arg.to)
          /\ RowListed(net', r, flags[r], flags[r])
      BY <1>1, <2>2, <3>1, RowOwnSettled
    <3>3. net[n].arg.to \in {"on", "off"}
      BY <1>1, <2>1, <2>4 DEF RowMessage, Values
    <3>4. switches[r] # "absent"
      BY <3>2, <3>3
    <3>5. switches'[r] = Flip(switches[r])
      BY <1>1, <1>5, <3>1, <3>4
    <3> QED
      BY <3>2, <3>5 DEF RowKept
  <2> QED
    BY <2>3, <2>4
<1> QED
  BY <1>1, <1>2, <1>4, <1>5 DEF RowsInv

LEMMA SwitchNextKeeps ==
    ASSUME RowsInv, [SwitchNext]_switchVars
    PROVE  RowsInv'
<1>1. ASSUME NEW r \in Rows, ClickSwitch(r) \/ AddRow(r) \/ DeleteRow(r)
      PROVE  RowsInv'
  BY <1>1, ClickSwitchKeeps, AddRowKeeps
<1>2. ASSUME NEW n \in DOMAIN net, ServeSwitch(n) \/ LoseSwitch(n) PROVE RowsInv'
  BY <1>2, ServeSwitchKeeps, LoseSwitchKeeps
<1>3. ASSUME NEW n \in DOMAIN net, SwitchDone(n) \/ RowsListed(n) \/ SwitchFailed(n)
      PROVE  RowsInv'
  BY <1>3, SwitchDoneKeeps, RowsListedKeeps, SwitchFailedKeeps
<1>4. ASSUME NEW n \in DOMAIN net, SessionExpired(n), UNCHANGED switchState PROVE RowsInv'
  <2>1. net' = <<>> /\ page' = "login" /\ UNCHANGED <<flags, switches>>
    BY <1>4 DEF SessionExpired, switchState
  <2> QED
    BY <2>1, NothingPosted DEF RowsInv
<1>5. CASE UNCHANGED switchVars \/ (Dismiss /\ UNCHANGED switchState)
  <2>1. UNCHANGED <<net, page, flags, switches, crossed, unsure>>
    BY <1>5 DEF Dismiss, switchVars, switchState, web
  <2> QED
    BY <2>1 DEF RowsInv
<1> QED
  BY <1>1, <1>2, <1>3, <1>4, <1>5 DEF SwitchNext

LEMMA SwitchStarts == WebInit(<<>>) /\ SwitchInit => RowsInv
<1> SUFFICES ASSUME WebInit(<<>>), SwitchInit PROVE RowsInv
  OBVIOUS
<1>1. /\ net = <<>> /\ flags \in [Rows -> {"on", "absent"}] /\ switches = flags
  BY DEF WebInit, SwitchInit
<1>2. flags \in [Rows -> Values] /\ switches \in [Rows -> Values]
  BY <1>1 DEF Values
<1>3. \A r \in Rows : RowListed(net, r, switches[r], flags[r])
  BY <1>1, NothingPosted DEF RowListed, About
<1> QED
  BY <1>1, <1>2, <1>3, NothingPosted DEF RowsInv, RowKept

(* When everything is answered a control shows what the server has, unless    *)
(* its row was changed twice at a time or while its list was on its way, or    *)
(* its change failed where it is not turned back, or its answer was lost.     *)
THEOREM ControlsTrue == SwitchSpec => []RowsTrue
<1>1. RowsInv => RowsTrue
  BY NothingPosted DEF RowsInv, RowsTrue, RowKept, RowAdded, RowSet, RowListed, Awaited, Quiet
<1> QED
  BY <1>1, SwitchStarts, SwitchNextKeeps, PTL DEF SwitchSpec

---------------------------------------------------------------------------
(* Two-factor authentication *)

AboutTotp == TotpRequests \cup {"totp"}
Status(on) == IF on THEN "enabled" ELSE "disabled"

(* Nothing is under way: the page shows the codes and the status.  t is what  *)
(* the server has, codes the panel and shown the status of the page.          *)
TotpSettled(q, t, codes, shown) ==
    /\ ~Awaited(q, AboutTotp)
    /\ codes = t.codes /\ shown \in {"unknown", Status(t.on)}
    /\ ~t.on => t.codes = NotShown

(* Only the status is awaited: it may still hide the codes, if there are none. *)
TotpAsked(q, t, codes) ==
    /\ Awaited(q, {"totp"}) /\ ~Awaited(q, TotpRequests)
    /\ \A k \in DOMAIN q : q[k].op = "totp" /\ q[k].at = "answered" => q[k].ans = t.on
    /\ IF t.on THEN codes = t.codes ELSE t.codes = NotShown

(* One change is under way, and nothing else.                                *)
TotpChanging(q, t, shown) ==
    \E c \in DOMAIN q :
       /\ q[c].op \in TotpRequests /\ \A m \in DOMAIN q \ {c} : q[m].op \notin AboutTotp
       /\ q[c].op = "setup" => ~t.on /\ t.codes = NotShown /\ shown = "disabled"
       /\ q[c].op = "verify" /\ q[c].at = "answered" => t.on /\ t.codes = q[c].ans
       /\ q[c].op = "disable" /\ q[c].at = "answered" => ~t.on /\ t.codes = NotShown

(* A change crosses another or a status: the next answer will be late.        *)
TotpCrossing(q) == \E c, m \in DOMAIN q : c # m /\ q[c].op \in TotpRequests /\ q[m].op \in AboutTotp

TotpKept(q, t, codes, shown) == \/ TotpSettled(q, t, codes, shown) \/ TotpAsked(q, t, codes)
                                \/ TotpChanging(q, t, shown) \/ TotpCrossing(q)

TotpType(t) == {"secret", "on", "codes"} \subseteq DOMAIN t /\ t.on \in BOOLEAN

SecurityInv == /\ Posted(net) /\ TotpType(totp)
               /\ page = "open" /\ ~totpLate => TotpKept(net, totp, codesPanel, totpShown)

(* A message is sent. *)
LEMMA TotpSends ==
    ASSUME NEW q, NEW op, NEW arg, NEW p, Sends(q, p, op, arg),
           NEW t, t.on \in BOOLEAN, NEW codes, NEW shown, TotpKept(q, t, codes, shown),
           op = "setup" => shown = "disabled"
    PROVE  TotpKept(p, t, codes, shown)
<1>1. /\ DOMAIN p = DOMAIN q \cup {Len(p)} /\ \A k \in DOMAIN q : p[k] = q[k]
      /\ Len(p) \notin DOMAIN q /\ p[Len(p)].op = op /\ p[Len(p)].at = "sent"
  BY DEF Sends
<1>2. CASE TotpSettled(q, t, codes, shown)
  <2>1. CASE op \notin AboutTotp
    BY <1>1, <1>2, <2>1 DEF TotpKept, TotpSettled, Awaited
  <2>2. CASE op = "totp"
    <3>1. \A k \in DOMAIN q : q[k].op \notin AboutTotp
      BY <1>2 DEF TotpSettled, Awaited
    <3>2. Awaited(p, {"totp"}) /\ ~Awaited(p, TotpRequests)
      BY <1>1, <2>2, <3>1 DEF Awaited, AboutTotp, TotpRequests
    <3>3. \A k \in DOMAIN p : p[k].op = "totp" => p[k].at = "sent"
      BY <1>1, <3>1 DEF AboutTotp
    <3> QED
      BY <1>2, <3>2, <3>3 DEF TotpKept, TotpAsked, TotpSettled
  <2>3. CASE op \in TotpRequests
    <3>1. \A m \in DOMAIN p \ {Len(p)} : p[m].op \notin AboutTotp
      BY <1>1, <1>2 DEF TotpSettled, Awaited
    <3>2. op = "setup" => ~t.on /\ t.codes = NotShown /\ shown = "disabled"
      BY <1>2 DEF TotpSettled, Status
    <3> QED
      BY <1>1, <2>3, <3>1, <3>2 DEF TotpKept, TotpChanging
  <2> QED
    BY <2>1, <2>2, <2>3 DEF AboutTotp
<1>3. CASE TotpAsked(q, t, codes)
  <2>1. CASE op \notin TotpRequests
    <3>1. Awaited(p, {"totp"}) /\ ~Awaited(p, TotpRequests)
      BY <1>1, <1>3, <2>1 DEF Awaited, TotpAsked
    <3>2. \A k \in DOMAIN p : p[k].op = "totp" /\ p[k].at = "answered" => p[k].ans = t.on
      BY <1>1, <1>3 DEF TotpAsked
    <3> QED
      BY <1>3, <3>1, <3>2 DEF TotpKept, TotpAsked
  <2>2. CASE op \in TotpRequests
    BY <1>1, <1>3, <2>2 DEF TotpKept, TotpAsked, TotpCrossing, Awaited, AboutTotp
  <2> QED
    BY <2>1, <2>2
<1>4. CASE TotpChanging(q, t, shown)
  <2>1. CASE op \notin AboutTotp
    <3>1. PICK c \in DOMAIN q :
            /\ q[c].op \in TotpRequests /\ \A m \in DOMAIN q \ {c} : q[m].op \notin AboutTotp
            /\ q[c].op = "setup" => ~t.on /\ t.codes = NotShown /\ shown = "disabled"
            /\ q[c].op = "verify" /\ q[c].at = "answered" => t.on /\ t.codes = q[c].ans
            /\ q[c].op = "disable" /\ q[c].at = "answered" => ~t.on /\ t.codes = NotShown
      BY <1>4 DEF TotpChanging
    <3>2. c \in DOMAIN p /\ p[c] = q[c] /\ \A m \in DOMAIN p \ {c} : p[m].op \notin AboutTotp
      BY <1>1, <2>1, <3>1
    <3> QED
      BY <3>1, <3>2 DEF TotpKept, TotpChanging
  <2>2. CASE op \in AboutTotp
    BY <1>1, <1>4, <2>2 DEF TotpKept, TotpChanging, TotpCrossing
  <2> QED
    BY <2>1, <2>2
<1>5. CASE TotpCrossing(q)
  BY <1>1, <1>5 DEF TotpKept, TotpCrossing
<1> QED
  BY <1>2, <1>3, <1>4, <1>5 DEF TotpKept

(* A message is answered or refused, and the page does not know yet. *)
LEMMA TotpInPlace ==
    ASSUME NEW q, NEW p, NEW n \in DOMAIN q, DOMAIN p = DOMAIN q,
           p[n].op = q[n].op, \A k \in DOMAIN q \ {n} : p[k] = q[k],
           NEW t, NEW u, NEW codes, NEW shown, TotpKept(q, t, codes, shown),
           q[n].op \notin TotpRequests => u = t,
           q[n].op = "totp" /\ p[n].at = "answered" => p[n].ans = u.on,
           q[n].op = "setup" => u = t \/ (~u.on /\ u.codes = t.codes),
           q[n].op = "verify" /\ p[n].at = "answered" => u.on /\ u.codes = p[n].ans,
           q[n].op = "disable" /\ p[n].at = "answered" => ~u.on /\ u.codes = NotShown
    PROVE  TotpKept(p, u, codes, shown)
<1>1. \A k \in DOMAIN q : p[k].op = q[k].op
  OBVIOUS
<1>2. \A ops : Awaited(p, ops) <=> Awaited(q, ops)
  BY <1>1 DEF Awaited
<1>3. CASE TotpSettled(q, t, codes, shown)
  <2>1. u = t
    BY <1>3 DEF TotpSettled, Awaited, AboutTotp
  <2> QED
    BY <1>2, <1>3, <2>1 DEF TotpKept, TotpSettled
<1>4. CASE TotpAsked(q, t, codes)
  <2>1. u = t
    BY <1>4 DEF TotpAsked, Awaited
  <2>2. \A k \in DOMAIN p : p[k].op = "totp" /\ p[k].at = "answered" => p[k].ans = u.on
    BY <1>1, <1>4, <2>1 DEF TotpAsked
  <2> QED
    BY <1>2, <1>4, <2>1, <2>2 DEF TotpKept, TotpAsked
<1>5. CASE TotpChanging(q, t, shown)
  <2>1. PICK c \in DOMAIN q :
          /\ q[c].op \in TotpRequests /\ \A m \in DOMAIN q \ {c} : q[m].op \notin AboutTotp
          /\ q[c].op = "setup" => ~t.on /\ t.codes = NotShown /\ shown = "disabled"
          /\ q[c].op = "verify" /\ q[c].at = "answered" => t.on /\ t.codes = q[c].ans
          /\ q[c].op = "disable" /\ q[c].at = "answered" => ~t.on /\ t.codes = NotShown
    BY <1>5 DEF TotpChanging
  <2>2. p[c].op \in TotpRequests /\ \A m \in DOMAIN p \ {c} : p[m].op \notin AboutTotp
    BY <1>1, <2>1
  <2>3. CASE c = n
    <3>1. /\ p[c].op = "setup" => ~u.on /\ u.codes = NotShown /\ shown = "disabled"
          /\ p[c].op = "verify" /\ p[c].at = "answered" => u.on /\ u.codes = p[c].ans
          /\ p[c].op = "disable" /\ p[c].at = "answered" => ~u.on /\ u.codes = NotShown
      BY <2>1, <2>3
    <3> QED
      BY <2>2, <3>1 DEF TotpKept, TotpChanging
  <2>4. CASE c # n
    <3>1. u = t /\ p[c] = q[c]
      BY <2>1, <2>4 DEF AboutTotp
    <3> QED
      BY <2>1, <2>2, <3>1 DEF TotpKept, TotpChanging
  <2> QED
    BY <2>3, <2>4
<1>6. CASE TotpCrossing(q)
  BY <1>1, <1>6 DEF TotpKept, TotpCrossing
<1> QED
  BY <1>3, <1>4, <1>5, <1>6 DEF TotpKept

(* A message about something else leaves. *)
LEMMA TotpOthersSettled ==
    ASSUME Posted(net), NEW n \in DOMAIN net, NEW p, p = Settle(n), net[n].op \notin AboutTotp,
           NEW t, NEW codes, NEW shown, TotpKept(net, t, codes, shown)
    PROVE  TotpKept(p, t, codes, shown)
<1>1. \A k \in DOMAIN p : Was(k, n) \in DOMAIN net \ {n} /\ p[k] = net[Was(k, n)]
  BY SettleTells
<1>2. \A m \in DOMAIN net \ {n} :
          Now(m, n) \in DOMAIN p /\ p[Now(m, n)] = net[m] /\ Was(Now(m, n), n) = m
  BY SettleTells
<1>3. \A ops : Awaited(p, ops) => Awaited(net, ops)
  BY <1>1 DEF Awaited
<1>4. CASE TotpSettled(net, t, codes, shown)
  BY <1>3, <1>4 DEF TotpKept, TotpSettled
<1>5. CASE TotpAsked(net, t, codes)
  <2>1. Awaited(p, {"totp"}) /\ ~Awaited(p, TotpRequests)
    BY <1>3, <1>5, StillAwaited DEF TotpAsked, AboutTotp
  <2>2. \A k \in DOMAIN p : p[k].op = "totp" /\ p[k].at = "answered" => p[k].ans = t.on
    BY <1>1, <1>5 DEF TotpAsked
  <2> QED
    BY <1>5, <2>1, <2>2 DEF TotpKept, TotpAsked
<1>6. CASE TotpChanging(net, t, shown)
  <2>1. PICK c \in DOMAIN net :
          /\ net[c].op \in TotpRequests /\ \A m \in DOMAIN net \ {c} : net[m].op \notin AboutTotp
          /\ net[c].op = "setup" => ~t.on /\ t.codes = NotShown /\ shown = "disabled"
          /\ net[c].op = "verify" /\ net[c].at = "answered" => t.on /\ t.codes = net[c].ans
          /\ net[c].op = "disable" /\ net[c].at = "answered" => ~t.on /\ t.codes = NotShown
    BY <1>6 DEF TotpChanging
  <2>2. c # n
    BY <2>1 DEF AboutTotp
  <2>3. Now(c, n) \in DOMAIN p /\ p[Now(c, n)] = net[c]
    BY <1>2, <2>2
  <2>4. \A j \in DOMAIN p \ {Now(c, n)} : Was(j, n) # c
    <3>1. \A j \in DOMAIN p : Now(Was(j, n), n) = j
      <4>1. DOMAIN p \subseteq Nat /\ n \in Nat
        BY SettleTells, PostedDomain
      <4> QED
        BY <4>1 DEF Now, Was
    <3> QED
      BY <3>1
  <2>5. \A j \in DOMAIN p \ {Now(c, n)} : p[j].op \notin AboutTotp
    BY <1>1, <2>1, <2>4
  <2> QED
    BY <2>1, <2>3, <2>5 DEF TotpKept, TotpChanging
<1>7. CASE TotpCrossing(net)
  <2>1. PICK c, m \in DOMAIN net : c # m /\ net[c].op \in TotpRequests /\ net[m].op \in AboutTotp
    BY <1>7 DEF TotpCrossing
  <2>2. c # n /\ m # n
    BY <2>1 DEF AboutTotp
  <2>3. Now(c, n) # Now(m, n)
    BY <1>2, <2>1, <2>2
  <2> QED
    BY <1>2, <2>1, <2>2, <2>3 DEF TotpKept, TotpCrossing
<1> QED
  BY <1>4, <1>5, <1>6, <1>7 DEF TotpKept

(* A change is handled, and crossed nothing: no other is under way. *)
LEMMA TotpChangeSettled ==
    ASSUME Posted(net), NEW n \in DOMAIN net, NEW p, p = Settle(n), net[n].op \in TotpRequests,
           ~TotpCrossed(n), NEW t, NEW codes, NEW shown, TotpKept(net, t, codes, shown)
    PROVE  /\ ~Awaited(p, AboutTotp)
           /\ net[n].op = "setup" => ~t.on /\ t.codes = NotShown /\ shown = "disabled"
           /\ net[n].op = "verify" /\ net[n].at = "answered" => t.on /\ t.codes = net[n].ans
           /\ net[n].op = "disable" /\ net[n].at = "answered" => ~t.on /\ t.codes = NotShown
<1>1. \A m \in DOMAIN net \ {n} : net[m].op \notin AboutTotp
  BY DEF TotpCrossed, AboutTotp, TotpRequests
<1>2. TotpChanging(net, t, shown)
  BY <1>1 DEF TotpKept, TotpSettled, TotpAsked, TotpCrossing, Awaited, AboutTotp
<1>3. ~Awaited(p, AboutTotp)
  BY <1>1, SettledWere DEF Awaited
<1> QED
  BY <1>1, <1>2, <1>3 DEF TotpChanging, AboutTotp

(* The status is handled, and crossed nothing: only other ones are awaited. *)
LEMMA TotpStatusSettled ==
    ASSUME Posted(net), NEW n \in DOMAIN net, NEW p, p = Settle(n),
           net[n].op = "totp", net[n].at = "answered", ~TotpCrossed(n),
           NEW t, t.on \in BOOLEAN, NEW codes, NEW shown, TotpKept(net, t, codes, shown)
    PROVE  TotpKept(p, t, IF net[n].ans THEN codes ELSE NotShown, Status(net[n].ans))
<1>1. \A m \in DOMAIN net \ {n} : net[m].op \notin TotpRequests
  BY DEF TotpCrossed
<1>2. net[n].op \notin TotpRequests
  BY DEF TotpRequests
<1>3. TotpAsked(net, t, codes)
  BY <1>1, <1>2 DEF TotpKept, TotpSettled, TotpChanging, TotpCrossing, Awaited, AboutTotp
<1>4. net[n].ans = t.on /\ ~Awaited(net, TotpRequests)
  BY <1>3 DEF TotpAsked
<1>5. \A k \in DOMAIN p : \E m \in DOMAIN net : p[k] = net[m]
  BY SettledWere
<1>6. ~Awaited(p, TotpRequests)
  BY <1>4, <1>5 DEF Awaited
<1> DEFINE now == IF net[n].ans THEN codes ELSE NotShown
<1>7. now = t.codes /\ (~t.on => t.codes = NotShown)
  BY <1>3, <1>4 DEF TotpAsked
<1> HIDE DEF now
<1>8. CASE Awaited(p, {"totp"})
  <2>1. \A k \in DOMAIN p : p[k].op = "totp" /\ p[k].at = "answered" => p[k].ans = t.on
    BY <1>3, <1>5 DEF TotpAsked
  <2> QED
    BY <1>6, <1>7, <1>8, <2>1 DEF TotpKept, TotpAsked, now
<1>9. CASE ~Awaited(p, {"totp"})
  <2>1. ~Awaited(p, AboutTotp)
    BY <1>6, <1>9 DEF Awaited, AboutTotp
  <2> QED
    BY <1>4, <1>7, <2>1 DEF TotpKept, TotpSettled, now
<1> QED
  BY <1>8, <1>9

(* The server takes the status, the changes and their codes as they come.     *)
LEMMA ServeTotpKeeps ==
    ASSUME SecurityInv, NEW n \in DOMAIN net, ServeTotp(n)
    PROVE  SecurityInv'
<1>1. /\ UNCHANGED <<totpShown, codesPanel, totpLate>>
      /\ Posted(net) /\ TotpType(totp) /\ net[n].at = "sent"
  BY DEF ServeTotp, SecurityInv
<1>2. ASSUME NEW answer, net' = Reply(n, answer), UNCHANGED page, TotpType(totp'),
             net[n].op \in AboutTotp,
             net[n].op = "totp" => UNCHANGED totp /\ answer = totp.on,
             net[n].op = "setup" => ~totp'.on /\ totp'.codes = totp.codes,
             net[n].op = "verify" => totp'.on /\ totp'.codes = answer,
             net[n].op = "disable" => ~totp'.on /\ totp'.codes = NotShown
      PROVE  SecurityInv'
  <2>1. /\ Posted(net') /\ DOMAIN net' = DOMAIN net /\ net'[n].at = "answered"
        /\ net'[n].op = net[n].op /\ net'[n].ans = answer
        /\ \A k \in DOMAIN net \ {n} : net'[k] = net[k]
    BY <1>1, <1>2, ReplyTells
  <2>2. net[n].op \notin TotpRequests => UNCHANGED totp
    BY <1>2 DEF AboutTotp
  <2>3. ASSUME page = "open", ~totpLate PROVE TotpKept(net', totp', codesPanel, totpShown)
    <3>1. TotpKept(net, totp, codesPanel, totpShown)
      BY <2>3 DEF SecurityInv
    <3> QED
      BY <1>2, <2>1, <2>2, <3>1, TotpInPlace
  <2> QED
    BY <1>1, <1>2, <2>1, <2>3 DEF SecurityInv
<1>3. CASE net[n].op = "totp"
  <2>1. net' = Reply(n, totp.on) /\ UNCHANGED <<totp, page>>
    BY <1>3 DEF ServeTotp
  <2> QED
    BY <1>1, <1>2, <1>3, <2>1 DEF AboutTotp
<1>4. CASE net[n].op = "setup"
  <2>1. /\ net' = Reply(n, net[n].arg) /\ UNCHANGED page
        /\ totp' = [totp EXCEPT !.secret = net[n].arg, !.on = FALSE]
    BY <1>4 DEF ServeTotp
  <2>2. DOMAIN totp' = DOMAIN totp /\ totp'.on = FALSE /\ totp'.codes = totp.codes
    BY <1>1, <2>1 DEF TotpType
  <2>3. TotpType(totp')
    BY <1>1, <2>2 DEF TotpType
  <2> QED
    BY <1>2, <1>4, <2>1, <2>2, <2>3 DEF AboutTotp, TotpRequests
<1>5. CASE net[n].op = "verify" /\ totp # NoTotp /\ net[n].arg.code = totp.secret
  <2>1. /\ net' = Reply(n, net[n].arg.codes) /\ UNCHANGED page
        /\ totp' = [totp EXCEPT !.on = TRUE, !.codes = net[n].arg.codes]
    BY <1>5 DEF ServeTotp
  <2>2. DOMAIN totp' = DOMAIN totp /\ totp'.on = TRUE /\ totp'.codes = net[n].arg.codes
    BY <1>1, <2>1 DEF TotpType
  <2>3. TotpType(totp')
    BY <1>1, <2>2 DEF TotpType
  <2> QED
    BY <1>2, <1>5, <2>1, <2>2, <2>3 DEF AboutTotp, TotpRequests
<1>6. CASE net[n].op = "verify" /\ totp # NoTotp /\ net[n].arg.code # totp.secret
  <2>1. page' = "login" /\ net' = <<>> /\ UNCHANGED totp
    BY <1>6 DEF ServeTotp
  <2> QED
    BY <1>1, <2>1, NothingPosted DEF SecurityInv
<1>7. CASE net[n].op = "disable"
  <2>1. net' = Reply(n, 0) /\ UNCHANGED page /\ totp' = NoTotp
    BY <1>7 DEF ServeTotp
  <2>2. TotpType(totp') /\ ~totp'.on /\ totp'.codes = NotShown
    BY <2>1 DEF TotpType, NoTotp
  <2> QED
    BY <1>2, <1>7, <2>1, <2>2 DEF AboutTotp, TotpRequests
<1>8. CASE net[n].op = "verify" /\ totp = NoTotp
  <2>1. net' = Reject(n) /\ UNCHANGED <<totp, page>>
    BY <1>8 DEF ServeTotp
  <2>2. /\ Posted(net') /\ DOMAIN net' = DOMAIN net /\ net'[n].at = "failed"
        /\ net'[n].op = net[n].op /\ \A k \in DOMAIN net \ {n} : net'[k] = net[k]
    BY <1>1, <2>1, RejectTells
  <2>3. ASSUME page = "open", ~totpLate PROVE TotpKept(net', totp, codesPanel, totpShown)
    <3>1. TotpKept(net, totp, codesPanel, totpShown)
      BY <2>3 DEF SecurityInv
    <3> QED
      BY <1>8, <2>2, <3>1, TotpInPlace
  <2> QED
    BY <1>1, <2>1, <2>2, <2>3 DEF SecurityInv
<1> QED
  BY <1>3, <1>4, <1>5, <1>6, <1>7, <1>8 DEF ServeTotp

LEMMA TotpShownKeeps ==
    ASSUME SecurityInv, NEW n \in DOMAIN net, TotpShown(n)
    PROVE  SecurityInv'
<1>1. /\ net[n].op = "totp" /\ net[n].at = "answered" /\ net' = Settle(n) /\ UNCHANGED <<page, totp>>
      /\ totpShown' = Status(net[n].ans) /\ codesPanel' = IF net[n].ans THEN codesPanel ELSE NotShown
      /\ totpLate' = (totpLate \/ TotpCrossed(n)) /\ Posted(net) /\ TotpType(totp)
  BY DEF TotpShown, Answered, CodesAfter, Status, SecurityInv
<1>2. ASSUME page = "open", ~totpLate' PROVE TotpKept(net', totp, codesPanel', totpShown')
  <2>1. ~TotpCrossed(n) /\ TotpKept(net, totp, codesPanel, totpShown) /\ totp.on \in BOOLEAN
    BY <1>1, <1>2 DEF SecurityInv, TotpType
  <2>2. TotpKept(net', totp, IF net[n].ans THEN codesPanel ELSE NotShown, Status(net[n].ans))
    BY <1>1, <2>1, TotpStatusSettled
  <2> QED
    BY <1>1, <2>2
<1> QED
  BY <1>1, <1>2, SettledWere DEF SecurityInv

(* The secret is shown, and the codes of the one before are hidden. *)
LEMMA SetupShownKeeps ==
    ASSUME SecurityInv, NEW n \in DOMAIN net, SetupShown(n)
    PROVE  SecurityInv'
<1>1. /\ net[n].op = "setup" /\ net' = Settle(n) /\ UNCHANGED <<page, totp, totpShown>>
      /\ codesPanel' = NotShown
      /\ totpLate' = (totpLate \/ TotpCrossed(n)) /\ Posted(net) /\ TotpType(totp)
  BY DEF SetupShown, Answered, SecurityInv
<1>2. ASSUME page = "open", ~totpLate' PROVE TotpKept(net', totp, NotShown, totpShown)
  <2>1. ~TotpCrossed(n) /\ TotpKept(net, totp, codesPanel, totpShown) /\ net[n].op \in TotpRequests
    BY <1>1, <1>2 DEF SecurityInv, TotpRequests
  <2>2. /\ ~Awaited(net', AboutTotp) /\ ~totp.on /\ totp.codes = NotShown
        /\ totpShown = "disabled"
    BY <1>1, <2>1, TotpChangeSettled
  <2> QED
    BY <2>2 DEF TotpKept, TotpSettled, Status
<1> QED
  BY <1>1, <1>2, SettledWere DEF SecurityInv

(* The codes are shown, or the secret was forgotten; the status is asked for. *)
LEMMA TotpChangedKeeps ==
    ASSUME SecurityInv, NEW n \in DOMAIN net, TotpChanged(n)
    PROVE  SecurityInv'
<1> DEFINE p == Settle(n)
<1>1. /\ \/ net[n].op = "verify" /\ codesPanel' = net[n].ans
         \/ net[n].op = "disable" /\ UNCHANGED codesPanel
      /\ net[n].at = "answered" /\ net' = Append(p, Request("totp", 0))
      /\ UNCHANGED <<page, totp, totpShown>>
      /\ totpLate' = (totpLate \/ TotpCrossed(n)) /\ Posted(net) /\ TotpType(totp)
  BY DEF TotpChanged, Answered, SecurityInv
<1>2. p = Settle(n) /\ Posted(p)
  BY <1>1, SettledWere
<1> HIDE DEF p
<1>3. Sends(p, net', "totp", 0)
  BY <1>1, <1>2, SendTells
<1>4. ASSUME page = "open", ~totpLate' PROVE TotpKept(net', totp, codesPanel', totpShown)
  <2>1. ~TotpCrossed(n) /\ TotpKept(net, totp, codesPanel, totpShown) /\ net[n].op \in TotpRequests
    BY <1>1, <1>4 DEF SecurityInv, TotpRequests
  <2>2. /\ ~Awaited(p, AboutTotp)
        /\ net[n].op = "verify" => totp.on /\ totp.codes = net[n].ans
        /\ net[n].op = "disable" => ~totp.on /\ totp.codes = NotShown
    BY <1>1, <1>2, <2>1, TotpChangeSettled
  <2>3. /\ DOMAIN net' = DOMAIN p \cup {Len(net')} /\ \A k \in DOMAIN p : net'[k] = p[k]
        /\ net'[Len(net')].op = "totp" /\ net'[Len(net')].at = "sent"
    BY <1>3 DEF Sends
  <2>4. Awaited(net', {"totp"})
    BY <2>3 DEF Awaited
  <2>5. ~Awaited(net', TotpRequests)
    BY <2>2, <2>3 DEF Awaited, AboutTotp, TotpRequests
  <2>6. \A k \in DOMAIN net' : net'[k].op = "totp" => net'[k].at = "sent"
    BY <2>2, <2>3 DEF Awaited, AboutTotp
  <2>7. IF totp.on THEN codesPanel' = totp.codes ELSE totp.codes = NotShown
    BY <1>1, <2>2
  <2> QED
    BY <2>4, <2>5, <2>6, <2>7 DEF TotpKept, TotpAsked
<1>5. Posted(net')
  BY <1>3 DEF Sends
<1> QED
  BY <1>1, <1>4, <1>5 DEF SecurityInv

(* One more message is sent, the page and the server being otherwise as they  *)
(* were.                                                                     *)
LEMMA SecuritySends ==
    ASSUME SecurityInv, NEW q, Posted(q), NEW op, NEW arg, Sends(q, net', op, arg),
           UNCHANGED <<page, totp, codesPanel, totpShown, totpLate>>,
           page = "open" /\ ~totpLate => TotpKept(q, totp, codesPanel, totpShown),
           op = "setup" => totpShown = "disabled"
    PROVE  SecurityInv'
<1>1. TotpType(totp) /\ totp.on \in BOOLEAN /\ Posted(net')
  BY DEF SecurityInv, TotpType, Sends
<1>2. ASSUME page = "open", ~totpLate PROVE TotpKept(net', totp, codesPanel, totpShown)
  BY <1>1, <1>2, TotpSends
<1> QED
  BY <1>1, <1>2 DEF SecurityInv

LEMMA SecuritySettles ==
    ASSUME SecurityInv, NEW n \in DOMAIN net, NEW p, p = Settle(n), net[n].op \notin AboutTotp
    PROVE  /\ Posted(p)
           /\ page = "open" /\ ~totpLate => TotpKept(p, totp, codesPanel, totpShown)
<1>1. Posted(net)
  BY DEF SecurityInv
<1>2. ASSUME page = "open", ~totpLate PROVE TotpKept(p, totp, codesPanel, totpShown)
  <2>1. TotpKept(net, totp, codesPanel, totpShown)
    BY <1>2 DEF SecurityInv
  <2> QED
    BY <1>1, <2>1, TotpOthersSettled
<1> QED
  BY <1>1, <1>2, SettledWere

LEMMA SecurityUserKeeps ==
    ASSUME SecurityInv,
           \/ SetUpTotp \/ AskDisableTotp \/ DisableTotp \/ Revoke
           \/ \E code \in {setupPanel, Mistyped} : VerifyTotp(code)
           \/ \E op \in {"create", "challenge"} : CreateGrant(op)
           \/ \E g \in grantRows : AskRevoke(g)
           \/ Dismiss /\ UNCHANGED securityState
           \/ UNCHANGED securityVars
    PROVE  SecurityInv'
<1>1. Posted(net) /\ (page = "open" /\ ~totpLate => TotpKept(net, totp, codesPanel, totpShown))
  BY DEF SecurityInv
<1>2. UNCHANGED <<page, totp, codesPanel, totpShown, totpLate>>
  BY DEF SetUpTotp, AskDisableTotp, DisableTotp, Revoke, VerifyTotp, CreateGrant, AskRevoke,
         Dismiss, MayConfirm, securityState, securityVars, web
<1>3. \/ UNCHANGED net
      \/ \E op, arg : /\ net' = Append(net, Request(op, arg))
                      /\ op = "setup" => totpShown = "disabled"
  <2>1. CASE SetUpTotp
    BY <2>1 DEF SetUpTotp
  <2>2. CASE DisableTotp \/ Revoke
    <3>1. \/ net' = Append(net, Request("disable", 0))
          \/ net' = Append(net, Request("revoke", popup.of))
      BY <2>2 DEF DisableTotp, Revoke
    <3> QED
      BY <3>1
  <2>3. CASE \E code \in {setupPanel, Mistyped} : VerifyTotp(code)
    BY <2>3 DEF VerifyTotp
  <2>4. CASE \E op \in {"create", "challenge"} : CreateGrant(op)
    BY <2>4 DEF CreateGrant
  <2>5. CASE \/ AskDisableTotp \/ \E g \in grantRows : AskRevoke(g)
             \/ Dismiss /\ UNCHANGED securityState
             \/ UNCHANGED securityVars
    BY <2>5 DEF AskDisableTotp, AskRevoke, Dismiss, securityVars, web
  <2> QED
    BY <2>1, <2>2, <2>3, <2>4, <2>5
<1>4. CASE UNCHANGED net
  BY <1>1, <1>2, <1>4 DEF SecurityInv
<1>5. ASSUME NEW op, NEW arg, net' = Append(net, Request(op, arg)),
             op = "setup" => totpShown = "disabled"
      PROVE  SecurityInv'
  <2>1. Sends(net, net', op, arg)
    BY <1>1, <1>5, SendTells
  <2> QED
    BY <1>1, <1>2, <1>5, <2>1, SecuritySends
<1> QED
  BY <1>3, <1>4, <1>5

(* What comes of the other credentials. *)
LEMMA GrantsKeep ==
    ASSUME SecurityInv, NEW n \in DOMAIN net,
           ServeGrants(n) \/ GrantsShown(n) \/ ChallengeAnswered(n) \/ GrantsChanged(n)
    PROVE  SecurityInv'
<1>1. UNCHANGED <<page, totp, codesPanel, totpShown, totpLate>> /\ Posted(net) /\ TotpType(totp)
  BY DEF ServeGrants, GrantsShown, ChallengeAnswered, GrantsChanged, securityState, SecurityInv
<1>2. net[n].op \notin AboutTotp
  BY DEF ServeGrants, GrantsShown, ChallengeAnswered, GrantsChanged, Answered, AboutTotp, TotpRequests
<1>3. CASE ServeGrants(n)
  <2>1. \E answer : net' = Reply(n, answer)
    BY <1>3 DEF ServeGrants
  <2>2. /\ Posted(net') /\ DOMAIN net' = DOMAIN net /\ net'[n].op = net[n].op
        /\ \A k \in DOMAIN net \ {n} : net'[k] = net[k]
    BY <1>1, <2>1, ReplyTells
  <2>3. ASSUME page = "open", ~totpLate PROVE TotpKept(net', totp, codesPanel, totpShown)
    <3>1. TotpKept(net, totp, codesPanel, totpShown)
      BY <2>3 DEF SecurityInv
    <3> QED
      BY <1>2, <2>2, <3>1, TotpInPlace DEF AboutTotp, TotpRequests
  <2> QED
    BY <1>1, <2>2, <2>3 DEF SecurityInv
<1> DEFINE p == Settle(n)
<1>4. Posted(p) /\ (page = "open" /\ ~totpLate => TotpKept(p, totp, codesPanel, totpShown))
  BY <1>2, SecuritySettles
<1>5. CASE GrantsShown(n) \/ (ChallengeAnswered(n) /\ net' = p)
  <2>1. net' = p
    BY <1>5 DEF GrantsShown
  <2> QED
    BY <1>1, <1>4, <2>1 DEF SecurityInv
<1>6. CASE ChallengeAnswered(n) /\ net' # p
  <2>1. net' = Append(p, Request("register", net[n].arg))
    BY <1>6 DEF ChallengeAnswered
  <2> HIDE DEF p
  <2>2. Sends(p, net', "register", net[n].arg)
    BY <1>4, <2>1, SendTells
  <2> QED
    BY <1>1, <1>4, <2>2, SecuritySends
<1>7. CASE GrantsChanged(n)
  <2>1. net' = p \o <<Request("grants", 0), Request("totp", 0)>>
    BY <1>7 DEF GrantsChanged, load
  <2> HIDE DEF p
  <2> DEFINE r == Append(p, Request("grants", 0))
  <2>2. net' = Append(r, Request("totp", 0))
    BY <1>4, <2>1, SendsTwo
  <2>3. Sends(p, r, "grants", 0)
    BY <1>4, SendTells
  <2> HIDE DEF r
  <2>4. Posted(r)
    BY <2>3 DEF Sends
  <2>5. Sends(r, net', "totp", 0)
    BY <2>2, <2>4, SendTells
  <2>6. page = "open" /\ ~totpLate => TotpKept(r, totp, codesPanel, totpShown)
    BY <1>1, <1>4, <2>3, TotpSends DEF TotpType
  <2> QED
    BY <1>1, <2>4, <2>5, <2>6, SecuritySends
<1> QED
  BY <1>3, <1>5, <1>6, <1>7

LEMMA SecurityNextKeeps ==
    ASSUME SecurityInv, [SecurityNext]_securityVars
    PROVE  SecurityInv'
<1>1. Posted(net) /\ TotpType(totp)
  BY DEF SecurityInv
<1>2. ASSUME NEW n \in DOMAIN net, SecurityFailed(n) PROVE SecurityInv'
  <2>1. net' = Settle(n) /\ totpLate' /\ UNCHANGED totp
    BY <1>2 DEF SecurityFailed, ShowError, Ignore
  <2> QED
    BY <1>1, <2>1, SettledWere DEF SecurityInv
<1>3. ASSUME NEW n \in DOMAIN net, Lose(n), UNCHANGED securityState PROVE SecurityInv'
  <2>1. net' = Reject(n) /\ UNCHANGED <<page, totp, codesPanel, totpShown, totpLate>>
    BY <1>3 DEF Lose, securityState
  <2>2. /\ Posted(net') /\ DOMAIN net' = DOMAIN net /\ net'[n].op = net[n].op /\ net'[n].at = "failed"
        /\ \A k \in DOMAIN net \ {n} : net'[k] = net[k]
    BY <1>1, <2>1, RejectTells
  <2>3. ASSUME page = "open", ~totpLate PROVE TotpKept(net', totp, codesPanel, totpShown)
    <3>1. TotpKept(net, totp, codesPanel, totpShown)
      BY <2>3 DEF SecurityInv
    <3> QED
      BY <2>2, <3>1, TotpInPlace
  <2> QED
    BY <1>1, <2>1, <2>2, <2>3 DEF SecurityInv
<1>4. ASSUME NEW n \in DOMAIN net, SessionExpired(n), UNCHANGED securityState PROVE SecurityInv'
  <2>1. net' = <<>> /\ page' = "login" /\ UNCHANGED totp
    BY <1>4 DEF SessionExpired, securityState
  <2> QED
    BY <1>1, <2>1, NothingPosted DEF SecurityInv
<1> QED
  BY <1>2, <1>3, <1>4, SecurityUserKeeps, ServeTotpKeeps, TotpShownKeeps, SetupShownKeeps,
     TotpChangedKeeps, GrantsKeep DEF SecurityNext

LEMMA SecurityStarts == WebInit(load) /\ SecurityInit => SecurityInv
<1> SUFFICES ASSUME WebInit(load), SecurityInit PROVE SecurityInv
  OBVIOUS
<1> DEFINE m == Request("grants", 0)
           l == Request("totp", 0)
<1>1. /\ net = <<m, l>> /\ totp \in {NoTotp, [NoTotp EXCEPT !.on = TRUE]}
      /\ codesPanel = NotShown /\ totpShown = "unknown"
  BY DEF WebInit, load, SecurityInit
<1>2. /\ m.op = "grants" /\ m.at = "sent" /\ {"op", "arg", "at"} \subseteq DOMAIN m
      /\ l.op = "totp" /\ l.at = "sent" /\ {"op", "arg", "at"} \subseteq DOMAIN l
  BY DEF Request
<1>3. totp.codes = NotShown /\ TotpType(totp)
  <2>1. CASE totp = NoTotp
    BY <2>1 DEF NoTotp, TotpType
  <2>2. CASE totp = [NoTotp EXCEPT !.on = TRUE]
    <3>1. totp = [secret |-> NotShown, on |-> TRUE, codes |-> NotShown]
      BY <2>2 DEF NoTotp
    <3> QED
      BY <3>1 DEF TotpType
  <2> QED
    BY <1>1, <2>1, <2>2
<1> HIDE DEF m, l
<1>4. net \in Seq({m, l}) /\ DOMAIN net = {1, 2} /\ net[1] = m /\ net[2] = l
  BY <1>1
<1>5. Posted(net)
  BY <1>2, <1>4, PostedIs
<1>6. TotpAsked(net, totp, codesPanel)
  BY <1>1, <1>2, <1>3, <1>4 DEF TotpAsked, Awaited, TotpRequests
<1> QED
  BY <1>3, <1>5, <1>6 DEF SecurityInv, TotpKept

(* The page shows the recovery codes that work and the status of the server    *)
(* whenever everything is answered, unless a change crossed another or a        *)
(* status, or was lost: a status asked for before the codes came hides them.    *)
THEOREM CodesAreShown == SecuritySpec => []RecoveryCodesShown
<1>1. SecurityInv => RecoveryCodesShown
  <2> SUFFICES ASSUME SecurityInv, page = "open", Quiet, ~totpLate, totpShown # "unknown"
               PROVE  codesPanel = totp.codes /\ totpShown = Status(totp.on)
    BY DEF RecoveryCodesShown, Status
  <2>1. TotpKept(net, totp, codesPanel, totpShown) /\ DOMAIN net = {}
    BY NothingPosted DEF SecurityInv, Quiet
  <2>2. TotpSettled(net, totp, codesPanel, totpShown)
    BY <2>1 DEF TotpKept, TotpAsked, TotpChanging, TotpCrossing, Awaited
  <2> QED
    BY <2>2 DEF TotpSettled
<1> QED
  BY <1>1, SecurityStarts, SecurityNextKeeps, PTL DEF SecuritySpec

---------------------------------------------------------------------------
(* Journals *)

JournalWrite(m) == m.op = "write"
Hides(m) == m.op = "write" \/ (m.op = "erase entry" /\ m.arg.open)

JournalTypes ==
    /\ journalClicks \in Nat
    /\ journalForm \in [open : BOOLEAN, entry : Entries \cup {NewEntry}, text : 0 .. journalClicks,
                        overtaken : BOOLEAN]
    /\ noted \subseteq 1 .. journalClicks
    /\ \A k \in DOMAIN net : JournalWrite(net[k]) => net[k].arg.text \in 1 .. journalClicks

(* One creation or change of an entry is under way at most. *)
OneWrite == /\ \A k \in DOMAIN net : JournalWrite(net[k]) => journalBusy
            /\ \A j, k \in DOMAIN net : JournalWrite(net[j]) /\ JournalWrite(net[k]) => j = k

(* A text that has become a journal is not sent again: it stays in the form   *)
(* only while the answer to its creation is awaited.                          *)
TextsFresh ==
    /\ \A k \in DOMAIN net : JournalWrite(net[k]) /\ net[k].at = "sent" =>
           net[k].arg.text \notin noted \ resent
    /\ journalForm.text \in noted \ resent =>
           \E k \in DOMAIN net : JournalWrite(net[k]) /\ net[k].arg.text = journalForm.text

(* An answer that hides the form is about the text in it, unless that was     *)
(* typed meanwhile.                                                          *)
TextGoes ==
    journalForm.open /\ journalForm.text # 0 /\ ~journalForm.overtaken =>
        \A k \in DOMAIN net : Hides(net[k]) => net[k].arg.text = journalForm.text

JournalInv == /\ Posted(net) /\ JournalTypes
              /\ page = "open" => OneWrite /\ TextsFresh /\ TextGoes
              /\ page # "open" => DOMAIN net = {}

(* The messages are those of net, in their places, answered or refused. *)
LEMMA JournalInPlace ==
    ASSUME JournalInv, NEW n \in DOMAIN net, DOMAIN net' = DOMAIN net, Posted(net'),
           net'[n].op = net[n].op, net'[n].arg = net[n].arg, net'[n].at # "sent",
           \A k \in DOMAIN net \ {n} : net'[k] = net[k],
           noted' = noted \/ (JournalWrite(net[n]) /\ noted' = noted \cup {net[n].arg.text}),
           UNCHANGED <<page, journalForm, journalBusy, resent, journalClicks>>
    PROVE  JournalInv'
<1>1. \A k \in DOMAIN net : /\ net'[k].op = net[k].op /\ net'[k].arg = net[k].arg
                            /\ net'[k].at = "sent" => net[k].at = "sent" /\ k # n
  OBVIOUS
<1>2. JournalTypes'
  BY <1>1 DEF JournalInv, JournalTypes, JournalWrite
<1>3. ASSUME page = "open" PROVE (OneWrite /\ TextsFresh /\ TextGoes)'
  <2>1. OneWrite /\ TextsFresh /\ TextGoes
    BY <1>3 DEF JournalInv
  <2>2. OneWrite'
    BY <1>1, <2>1 DEF OneWrite, JournalWrite
  <2>3. \A k \in DOMAIN net' : JournalWrite(net'[k]) /\ net'[k].at = "sent" => noted' = noted
    BY <1>1, <2>1 DEF OneWrite, JournalWrite
  <2>4. TextsFresh'
    BY <1>1, <2>1, <2>3 DEF TextsFresh, JournalWrite
  <2>5. TextGoes'
    BY <1>1, <2>1 DEF TextGoes, Hides
  <2> QED
    BY <2>2, <2>4, <2>5
<1> QED
  BY <1>2, <1>3 DEF JournalInv

LEMMA ServeJournalsKeeps ==
    ASSUME JournalInv, NEW n \in DOMAIN net, ServeJournals(n)
    PROVE  JournalInv'
<1>1. /\ \E a : net' = Reply(n, a) \/ net' = Reject(n)
      /\ UNCHANGED <<page, journalForm, journalBusy, resent, journalClicks>>
      /\ noted' = noted \/ (net[n].op = "write" /\ noted' = noted \cup {net[n].arg.text})
  BY DEF ServeJournals
<1>2. /\ Posted(net') /\ DOMAIN net' = DOMAIN net /\ net'[n].op = net[n].op
      /\ net'[n].arg = net[n].arg /\ net'[n].at # "sent" /\ \A k \in DOMAIN net \ {n} : net'[k] = net[k]
  BY <1>1, ReplyTells, RejectTells DEF JournalInv
<1> QED
  BY <1>1, <1>2, JournalInPlace DEF JournalWrite

LEMMA LoseJournalKeeps ==
    ASSUME JournalInv, NEW n \in DOMAIN net, Lose(n), UNCHANGED journalState
    PROVE  JournalInv'
<1>1. /\ Posted(net') /\ DOMAIN net' = DOMAIN net /\ net'[n].op = net[n].op
      /\ net'[n].arg = net[n].arg /\ net'[n].at # "sent" /\ \A k \in DOMAIN net \ {n} : net'[k] = net[k]
  BY RejectTells DEF JournalInv, Lose
<1> QED
  BY <1>1, JournalInPlace DEF Lose, journalState

(* A message leaves net, and nothing comes but a request for the list. *)
LEMMA JournalLeaves ==
    ASSUME JournalInv, page = "open", NEW n \in DOMAIN net,
           net' = Settle(n) \/ net' = Append(Settle(n), Request("journals", {})),
           UNCHANGED <<page, noted, journalClicks>>,
           journalForm' = journalForm \/ journalForm' = ClosedJournal,
           JournalWrite(net[n]) => resent' = resent \cup {net[n].arg.text} \/ journalForm' = ClosedJournal,
           ~JournalWrite(net[n]) => (journalBusy => journalBusy'),
           resent \subseteq resent'
    PROVE  JournalInv'
<1>1. Posted(Settle(n)) /\ \A k \in DOMAIN Settle(n) : \E m \in DOMAIN net : m # n /\ Settle(n)[k] = net[m]
  BY SettledWere DEF JournalInv
<1>2. /\ Posted(net')
      /\ \A k \in DOMAIN net' : net'[k].op = "journals" \/ \E m \in DOMAIN net : m # n /\ net'[k] = net[m]
      /\ \A k \in DOMAIN net' : net'[k].op = "journals" \/ (k \in DOMAIN Settle(n) /\ net'[k] = Settle(n)[k])
      /\ \A k \in DOMAIN Settle(n) : k \in DOMAIN net' /\ net'[k] = Settle(n)[k]
  <2> DEFINE q == Settle(n)
  <2>1. Posted(q) /\ \A k \in DOMAIN q : \E m \in DOMAIN net : m # n /\ q[k] = net[m]
    BY <1>1
  <2>2. net' = q \/ net' = Append(q, Request("journals", {}))
    OBVIOUS
  <2> HIDE DEF q
  <2>3. CASE net' = q
    BY <2>1, <2>3 DEF q
  <2>4. CASE net' = Append(q, Request("journals", {}))
    <3>1. Sends(q, net', "journals", {})
      BY <2>1, <2>4, SendTells
    <3> QED
      BY <2>1, <3>1 DEF Sends, q
  <2> QED
    BY <2>2, <2>3, <2>4
<1>3. \A k \in DOMAIN net' : JournalWrite(net'[k]) \/ Hides(net'[k]) => net'[k].op # "journals"
  BY DEF JournalWrite, Hides
<1>4. ClosedJournal.text = 0 /\ ~ClosedJournal.open /\ ClosedJournal \in
         [open : BOOLEAN, entry : Entries \cup {NewEntry}, text : 0 .. journalClicks, overtaken : BOOLEAN]
  BY DEF ClosedJournal, JournalInv, JournalTypes
<1>5. JournalTypes /\ OneWrite /\ TextsFresh /\ TextGoes
  BY DEF JournalInv
<1>6. JournalTypes'
  BY <1>2, <1>3, <1>4, <1>5 DEF JournalTypes
<1>7. OneWrite'
  <2>1. \A i, j \in DOMAIN Settle(n) : JournalWrite(Settle(n)[i]) /\ JournalWrite(Settle(n)[j]) => i = j
    <3> SUFFICES ASSUME NEW i \in DOMAIN Settle(n), NEW j \in DOMAIN Settle(n),
                        JournalWrite(Settle(n)[i]), JournalWrite(Settle(n)[j])
                 PROVE  i = j
      OBVIOUS
    <3>1. /\ Was(i, n) \in DOMAIN net \ {n} /\ Settle(n)[i] = net[Was(i, n)]
          /\ Was(j, n) \in DOMAIN net \ {n} /\ Settle(n)[j] = net[Was(j, n)]
      BY SettleTells DEF JournalInv
    <3>2. Was(i, n) = Was(j, n)
      BY <1>5, <3>1 DEF OneWrite
    <3>3. i \in Nat /\ j \in Nat /\ n \in Nat
      BY <1>1, PostedDomain DEF JournalInv
    <3> QED
      BY <3>2, <3>3 DEF Was
  <2>2. \A k \in DOMAIN net' : JournalWrite(net'[k]) => (journalBusy => journalBusy')
    BY <1>2, <1>3, <1>5 DEF OneWrite
  <2> QED
    BY <1>2, <1>3, <1>5, <2>1, <2>2 DEF OneWrite
<1>8. \A k \in DOMAIN net' : JournalWrite(net'[k]) /\ net'[k].at = "sent" =>
         net'[k].arg.text \notin noted' \ resent'
  BY <1>2, <1>3, <1>5 DEF TextsFresh
<1>9. ASSUME journalForm'.text \in noted' \ resent'
      PROVE  \E k \in DOMAIN net' : JournalWrite(net'[k]) /\ net'[k].arg.text = journalForm'.text
  <2>1. journalForm' = journalForm
    BY <1>4, <1>5, <1>9 DEF JournalTypes
  <2>2. PICK m \in DOMAIN net : JournalWrite(net[m]) /\ net[m].arg.text = journalForm.text
    BY <1>5, <1>9, <2>1 DEF TextsFresh
  <2>3. m # n
    BY <1>4, <1>5, <1>9, <2>1, <2>2 DEF JournalTypes
  <2>4. Now(m, n) \in DOMAIN Settle(n) /\ Settle(n)[Now(m, n)] = net[m]
    BY <2>3, SettleTells DEF JournalInv
  <2> QED
    BY <1>2, <2>1, <2>2, <2>4
<1>10. TextGoes'
  BY <1>2, <1>3, <1>4, <1>5 DEF TextGoes
<1> QED
  BY <1>2, <1>6, <1>7, <1>8, <1>9, <1>10 DEF JournalInv, TextsFresh

(* The messages stay, the form and the clicks may not: a click is a new text. *)
LEMMA JournalClicked ==
    ASSUME JournalInv, UserMayAct, JournalClick, NEW f,
           f \in [open : BOOLEAN, entry : Entries \cup {NewEntry}, text : 0 .. journalClicks + 1,
                  overtaken : BOOLEAN],
           journalForm' = f, f.text = 0 \/ f.text = journalClicks + 1,
           f.text # 0 /\ ~f.overtaken => ~Waiting(JournalWrites),
           UNCHANGED <<web, journalBusy, noted, resent>>
    PROVE  JournalInv'
<1>1. /\ Posted(net) /\ JournalTypes /\ OneWrite /\ TextsFresh /\ TextGoes
      /\ page = "open" /\ journalClicks' = journalClicks + 1
      /\ UNCHANGED <<net, page>>
  BY DEF JournalInv, UserMayAct, JournalClick, web
<1>2. JournalTypes'
  BY <1>1 DEF JournalTypes
<1>3. OneWrite'
  BY <1>1 DEF OneWrite
<1>4. f.text \notin noted
  BY <1>1 DEF JournalTypes
<1>5. TextsFresh'
  BY <1>1, <1>4 DEF TextsFresh
<1>6. TextGoes'
  <2>1. \A k \in DOMAIN net : Hides(net[k]) => Waiting(JournalWrites)
    BY DEF Hides, Waiting, JournalWrites
  <2> QED
    BY <1>1, <2>1 DEF TextGoes
<1> QED
  BY <1>1, <1>2, <1>3, <1>5, <1>6 DEF JournalInv

LEMMA OpenJournalKeeps ==
    ASSUME JournalInv, NEW j \in Entries \cup {NewEntry}, OpenJournal(j)
    PROVE  JournalInv'
<1> DEFINE f == [ClosedJournal EXCEPT !.open = TRUE, !.entry = j]
<1>1. f.text = 0
  BY DEF ClosedJournal
<1>2. journalClicks \in Nat
  BY DEF JournalInv, JournalTypes
<1>3. 0 \in 0 .. journalClicks + 1
  BY <1>2
<1>4. f \in [open : BOOLEAN, entry : Entries \cup {NewEntry}, text : 0 .. journalClicks + 1,
             overtaken : BOOLEAN]
  BY <1>3 DEF ClosedJournal
<1>5. /\ UserMayAct /\ JournalClick /\ journalForm' = f /\ f.text = 0
      /\ UNCHANGED <<web, journalBusy, noted, resent>>
  BY <1>1 DEF OpenJournal
<1> HIDE DEF f
<1> QED
  BY <1>4, <1>5, JournalClicked

LEMMA TypeJournalKeeps == ASSUME JournalInv, TypeJournal PROVE JournalInv'
<1> DEFINE f == [journalForm EXCEPT !.text = journalClicks',
                                    !.overtaken = @ \/ Waiting(JournalWrites)]
<1>1. /\ journalClicks \in Nat /\ journalClicks' = journalClicks + 1
      /\ journalForm \in [open : BOOLEAN, entry : Entries \cup {NewEntry}, text : 0 .. journalClicks,
                          overtaken : BOOLEAN]
  BY DEF JournalInv, JournalTypes, TypeJournal, JournalClick
<1>2. f.text = journalClicks + 1 /\ f.overtaken = (journalForm.overtaken \/ Waiting(JournalWrites))
  BY <1>1
<1>3. /\ journalForm.open \in BOOLEAN /\ journalForm.entry \in Entries \cup {NewEntry}
      /\ (journalForm.overtaken \/ Waiting(JournalWrites)) \in BOOLEAN
      /\ journalClicks + 1 \in 0 .. journalClicks + 1
  BY <1>1
<1>4. f \in [open : BOOLEAN, entry : Entries \cup {NewEntry}, text : 0 .. journalClicks + 1,
             overtaken : BOOLEAN]
  BY <1>1, <1>3
<1>5. /\ UserMayAct /\ JournalClick /\ journalForm' = f /\ f.text = journalClicks + 1
      /\ ~f.overtaken => ~Waiting(JournalWrites)
      /\ UNCHANGED <<web, journalBusy, noted, resent>>
  BY <1>2 DEF TypeJournal
<1> HIDE DEF f
<1> QED
  BY <1>4, <1>5, JournalClicked

LEMMA CloseJournalKeeps == ASSUME JournalInv, CloseJournal PROVE JournalInv'
<1>1. /\ Posted(net) /\ JournalTypes /\ OneWrite /\ TextsFresh /\ TextGoes
      /\ page = "open" /\ journalForm' = ClosedJournal
      /\ UNCHANGED <<net, page, journalBusy, noted, resent, journalClicks>>
  BY DEF JournalInv, CloseJournal, UserMayAct, web
<1>2. ~ClosedJournal.open /\ ClosedJournal.text = 0 /\ ClosedJournal \in
         [open : BOOLEAN, entry : Entries \cup {NewEntry}, text : 0 .. journalClicks, overtaken : BOOLEAN]
  BY <1>1 DEF ClosedJournal, JournalTypes
<1>3. JournalTypes' /\ OneWrite' /\ TextGoes'
  BY <1>1, <1>2 DEF JournalTypes, OneWrite, TextGoes
<1>4. TextsFresh'
  BY <1>1, <1>2 DEF TextsFresh, JournalTypes
<1> QED
  BY <1>1, <1>3, <1>4 DEF JournalInv

LEMMA SubmitJournalKeeps == ASSUME JournalInv, SubmitJournal PROVE JournalInv'
<1>1. /\ Posted(net) /\ JournalTypes /\ OneWrite /\ TextsFresh /\ TextGoes
      /\ page = "open" /\ journalClicks' = journalClicks + 1 /\ ~journalBusy /\ journalBusy' = TRUE
      /\ journalForm.open /\ journalForm.text # 0
      /\ UNCHANGED <<page, journalForm, noted, resent>>
      /\ journalClicks \in Nat
  BY DEF JournalInv, SubmitJournal, MaySend, UserMayAct, JournalClick, NotBusy, JournalTypes
<1>2. Sends(net, net', "write", journalForm)
  BY <1>1, SendTells DEF SubmitJournal
<1>3. /\ Posted(net') /\ DOMAIN net' = DOMAIN net \cup {Len(net')} /\ Len(net') \notin DOMAIN net
      /\ \A k \in DOMAIN net : net'[k] = net[k]
      /\ net'[Len(net')].op = "write" /\ net'[Len(net')].arg = journalForm
  BY <1>2 DEF Sends
<1>4. \A k \in DOMAIN net : ~JournalWrite(net[k])
  BY <1>1 DEF OneWrite
<1>5. \A k \in DOMAIN net' : JournalWrite(net'[k]) => k = Len(net') /\ net'[k].arg = journalForm
  BY <1>3, <1>4
<1>6. JournalTypes'
  BY <1>1, <1>5 DEF JournalTypes
<1>7. OneWrite'
  BY <1>1, <1>5 DEF OneWrite
<1>8. journalForm.text \notin noted \ resent
  BY <1>1, <1>4 DEF TextsFresh
<1>9. TextsFresh'
  BY <1>1, <1>5, <1>8 DEF TextsFresh
<1>10. TextGoes'
  BY <1>1, <1>3 DEF TextGoes
<1> QED
  BY <1>1, <1>3, <1>6, <1>7, <1>9, <1>10 DEF JournalInv

LEMMA EraseJournalKeeps ==
    ASSUME JournalInv, NEW j \in Entries \cup {NewEntry}, EraseJournal(j)
    PROVE  JournalInv'
<1> DEFINE a == [journalForm EXCEPT !.entry = j]
<1>1. /\ Posted(net) /\ JournalTypes /\ OneWrite /\ TextsFresh /\ TextGoes
      /\ page = "open" /\ journalClicks' = journalClicks + 1 /\ journalClicks \in Nat
      /\ UNCHANGED <<page, journalForm, noted, resent, journalBusy>>
  BY DEF JournalInv, EraseJournal, Erasure, MaySend, UserMayAct, JournalClick, JournalTypes
<1>2. Sends(net, net', "erase entry", a)
  BY <1>1, SendTells DEF EraseJournal, Erasure
<1>3. a.text = journalForm.text
  BY <1>1 DEF JournalTypes
<1> HIDE DEF a
<1>4. /\ Posted(net') /\ DOMAIN net' = DOMAIN net \cup {Len(net')}
      /\ \A k \in DOMAIN net : net'[k] = net[k]
      /\ net'[Len(net')].op = "erase entry" /\ net'[Len(net')].arg = a
  BY <1>2 DEF Sends
<1>5. \A k \in DOMAIN net' : JournalWrite(net'[k]) => k \in DOMAIN net /\ net'[k] = net[k]
  BY <1>4 DEF JournalWrite
<1>6. JournalTypes'
  BY <1>1, <1>5 DEF JournalTypes
<1>7. OneWrite'
  BY <1>1, <1>5 DEF OneWrite
<1>8. TextsFresh'
  BY <1>1, <1>4, <1>5 DEF TextsFresh
<1>9. TextGoes'
  BY <1>1, <1>3, <1>4 DEF TextGoes
<1> QED
  BY <1>1, <1>4, <1>6, <1>7, <1>8, <1>9 DEF JournalInv

LEMMA JournalHandledKeeps ==
    ASSUME JournalInv, NEW n \in DOMAIN net,
           JournalsShown(n) \/ JournalWritten(n) \/ JournalFailed(n)
    PROVE  JournalInv'
<1>1. CASE JournalsShown(n)
  BY <1>1, JournalLeaves DEF JournalsShown, Answered, JournalWrite
<1>2. CASE JournalWritten(n)
  <2>1. /\ page = "open" /\ net' = Append(Settle(n), Request("journals", {}))
        /\ UNCHANGED <<page, noted, resent, journalClicks>>
        /\ journalForm' = IF net[n].op = "write" \/ net[n].arg.open THEN ClosedJournal ELSE journalForm
        /\ net[n].op # "write" /\ journalBusy => journalBusy'
    BY <1>2 DEF JournalWritten, Answered
  <2>2. /\ journalForm' = journalForm \/ journalForm' = ClosedJournal
        /\ net[n].op = "write" => journalForm' = ClosedJournal
    BY <2>1
  <2> QED
    BY <2>1, <2>2, JournalLeaves DEF JournalWrite
<1>3. CASE JournalFailed(n)
  BY <1>3, JournalLeaves DEF JournalFailed, ShowError, Failed, JournalWrite, JournalInv, OneWrite, JournalTypes
<1> QED
  BY <1>1, <1>2, <1>3

LEMMA JournalInvInit == ASSUME WebInit(<<>>), JournalInit PROVE JournalInv
<1>1. /\ net = <<>> /\ page = "open" /\ journalForm = ClosedJournal /\ noted = {} /\ journalClicks = 0
      /\ Posted(net) /\ DOMAIN net = {}
  BY NothingPosted DEF WebInit, JournalInit
<1>2. ClosedJournal = [open |-> FALSE, entry |-> NewEntry, text |-> 0, overtaken |-> FALSE]
  BY DEF ClosedJournal
<1> QED
  BY <1>1, <1>2 DEF JournalInv, JournalTypes, OneWrite, TextsFresh, TextGoes

LEMMA JournalInvStep == ASSUME JournalInv, [JournalNext]_journalVars PROVE JournalInv'
<1>1. CASE UNCHANGED journalVars
  BY <1>1 DEF journalVars, web, journalState, JournalInv, JournalTypes, OneWrite, TextsFresh, TextGoes,
              JournalWrite, Hides
<1>2. ASSUME NEW j \in Entries \cup {NewEntry}, OpenJournal(j) \/ EraseJournal(j) PROVE JournalInv'
  BY <1>2, OpenJournalKeeps, EraseJournalKeeps
<1>3. CASE TypeJournal \/ CloseJournal \/ SubmitJournal
  BY <1>3, TypeJournalKeeps, CloseJournalKeeps, SubmitJournalKeeps
<1>4. ASSUME NEW n \in DOMAIN net,
             ServeJournals(n) \/ JournalsShown(n) \/ JournalWritten(n) \/ JournalFailed(n)
      PROVE  JournalInv'
  BY <1>4, ServeJournalsKeeps, JournalHandledKeeps
<1>5. ASSUME NEW n \in DOMAIN net, Lose(n), UNCHANGED journalState PROVE JournalInv'
  BY <1>5, LoseJournalKeeps
<1>6. ASSUME NEW n \in DOMAIN net, SessionExpired(n), UNCHANGED journalState PROVE JournalInv'
  <2>1. net' = <<>> /\ page' # "open" /\ UNCHANGED <<journalForm, journalClicks, noted>>
    BY <1>6 DEF SessionExpired, journalState
  <2>2. Posted(net') /\ DOMAIN net' = {}
    BY <2>1, NothingPosted
  <2> QED
    BY <2>1, <2>2 DEF JournalInv, JournalTypes
<1>7. CASE Dismiss /\ UNCHANGED journalState
  BY <1>7 DEF Dismiss, journalState, JournalInv, JournalTypes, OneWrite, TextsFresh, TextGoes,
              JournalWrite, Hides
<1> QED
  BY <1>1, <1>2, <1>3, <1>4, <1>5, <1>6, <1>7 DEF JournalNext

LEMMA JournalInvAlways == JournalSpec => []JournalInv
<1>1. WebInit(<<>>) /\ JournalInit => JournalInv
  BY JournalInvInit
<1>2. JournalInv /\ [JournalNext]_journalVars => JournalInv'
  BY JournalInvStep
<1> QED
  BY <1>1, <1>2, PTL DEF JournalSpec

(* What was typed as a new entry becomes one journal, unless the answer to    *)
(* its creation was lost (journals.js: saveForm and its busy flag).          *)
THEOREM WrittenOnce == JournalSpec => NotedOnce
<1>1. ASSUME JournalInv
      PROVE  \A n \in DOMAIN net :
                Arrived(n, "write") /\ Accepted(n) /\ net[n].arg.entry = NewEntry =>
                   net[n].arg.text \notin noted \ resent
  BY <1>1 DEF JournalInv, TextsFresh, JournalWrite, Arrived
<1> QED
  BY <1>1, JournalInvAlways, PTL DEF NotedOnce

(* The text in the form stays in it whatever a request does, but for the      *)
(* request that wrote it or deleted its entry (journals.js).                 *)
THEOREM TypedTextKept == JournalSpec => JournalTextKept
<1> DEFINE Kept == \/ journalForm'.text = journalForm.text
                   \/ \E n \in DOMAIN net : /\ Answered(n, "write") \/ Answered(n, "erase entry")
                                            /\ net[n].arg.text = journalForm.text
           Pre == journalForm.open /\ journalForm.text # 0 /\ ~journalForm.overtaken /\ net' # net
<1>1. ASSUME JournalInv, [JournalNext]_journalVars, Pre PROVE Kept
  <2>1. CASE UNCHANGED journalVars
    BY <1>1, <2>1 DEF journalVars, web
  <2>2. ASSUME NEW n \in DOMAIN net, JournalWritten(n) PROVE Kept
    <3>1. CASE Hides(net[n])
      <4>1. page = "open" /\ (Answered(n, "write") \/ Answered(n, "erase entry"))
        BY <2>2 DEF JournalWritten, Answered
      <4>2. net[n].arg.text = journalForm.text
        BY <1>1, <3>1, <4>1 DEF JournalInv, TextGoes
      <4> QED
        BY <4>1, <4>2
    <3>2. CASE ~Hides(net[n])
      BY <2>2, <3>2 DEF JournalWritten, Hides, Answered
    <3> QED
      BY <3>1, <3>2
  <2>3. ASSUME NEW n \in DOMAIN net, ServeJournals(n) \/ JournalsShown(n) \/ JournalFailed(n)
        PROVE  journalForm' = journalForm
    BY <2>3 DEF ServeJournals, JournalsShown, JournalFailed
  <2>4. ASSUME NEW j \in Entries \cup {NewEntry}, OpenJournal(j) \/ EraseJournal(j)
        PROVE  journalForm' = journalForm
    BY <1>1, <2>4 DEF OpenJournal, EraseJournal, web
  <2>5. ASSUME TypeJournal \/ CloseJournal \/ SubmitJournal PROVE journalForm' = journalForm
    BY <1>1, <2>5 DEF TypeJournal, CloseJournal, SubmitJournal, web
  <2>6. ASSUME UNCHANGED journalState PROVE journalForm' = journalForm
    BY <2>6 DEF journalState
  <2> QED
    BY <1>1, <2>1, <2>2, <2>3, <2>4, <2>5, <2>6 DEF JournalNext
<1>2. JournalInv /\ [JournalNext]_journalVars => (Pre => Kept)
  BY <1>1
<1> HIDE DEF Pre, Kept
<1>3. JournalSpec => [][Pre => Kept]_journalVars
  BY <1>2, JournalInvAlways, PTL DEF JournalSpec
<1> QED
  BY <1>3 DEF JournalTextKept, Pre, Kept

---------------------------------------------------------------------------
(* Tasks *)

Adding(m) == m.op = "add task"

AddTypes ==
    /\ taskClicks \in Nat
    /\ quick \in [text : 0 .. taskClicks, busy : BOOLEAN]
    /\ added \subseteq 1 .. taskClicks
    /\ \A k \in DOMAIN net : Adding(net[k]) => net[k].arg[1] \in 1 .. taskClicks

(* One task is being added at most. *)
OneAdding == /\ \A k \in DOMAIN net : Adding(net[k]) => quick.busy
             /\ \A j, k \in DOMAIN net : Adding(net[j]) /\ Adding(net[k]) => j = k

(* A summary that has been added is not sent again: it stays in the field     *)
(* only while the answer is awaited.                                         *)
SummaryFresh ==
    /\ \A k \in DOMAIN net : Adding(net[k]) /\ net[k].at = "sent" =>
           net[k].arg[1] \notin added \ unseen
    /\ quick.text \in added \ unseen =>
           \E k \in DOMAIN net : Adding(net[k]) /\ net[k].arg[1] = quick.text

AddInv == /\ Posted(net) /\ AddTypes
          /\ page = "open" => OneAdding /\ SummaryFresh
          /\ page # "open" => DOMAIN net = {}

LEMMA AddInPlace ==
    ASSUME AddInv, NEW n \in DOMAIN net, DOMAIN net' = DOMAIN net, Posted(net'),
           net'[n].op = net[n].op, net'[n].arg = net[n].arg, net'[n].at # "sent",
           \A k \in DOMAIN net \ {n} : net'[k] = net[k],
           added' = added \/ (Adding(net[n]) /\ added' = added \cup {net[n].arg[1]}),
           UNCHANGED <<page, quick, unseen, taskClicks>>
    PROVE  AddInv'
<1>1. \A k \in DOMAIN net : /\ net'[k].op = net[k].op /\ net'[k].arg = net[k].arg
                            /\ net'[k].at = "sent" => net[k].at = "sent" /\ k # n
  OBVIOUS
<1>2. AddTypes'
  BY <1>1 DEF AddInv, AddTypes, Adding
<1>3. ASSUME page = "open" PROVE (OneAdding /\ SummaryFresh)'
  <2>1. OneAdding /\ SummaryFresh
    BY <1>3 DEF AddInv
  <2>2. OneAdding'
    BY <1>1, <2>1 DEF OneAdding, Adding
  <2>3. \A k \in DOMAIN net' : Adding(net'[k]) /\ net'[k].at = "sent" => added' = added
    BY <1>1, <2>1 DEF OneAdding, Adding
  <2>4. SummaryFresh'
    BY <1>1, <2>1, <2>3 DEF SummaryFresh, Adding
  <2> QED
    BY <2>2, <2>4
<1> QED
  BY <1>2, <1>3 DEF AddInv

LEMMA ServeTaskKeeps ==
    ASSUME AddInv, NEW n \in DOMAIN net, TaskService(n)
    PROVE  AddInv'
<1> DEFINE Told == /\ Posted(net') /\ DOMAIN net' = DOMAIN net /\ net'[n].op = net[n].op
                   /\ net'[n].arg = net[n].arg /\ net'[n].at # "sent"
                   /\ \A k \in DOMAIN net \ {n} : net'[k] = net[k]
<1>1. ASSUME \/ \E a : net' = Reply(n, a)
             \/ net' = Reject(n)
             \/ net' = [net EXCEPT ![n].at = "checked"]
      PROVE  Told
  <2>1. CASE net' = Reject(n) \/ \E a : net' = Reply(n, a)
    BY <2>1, ReplyTells, RejectTells DEF AddInv
  <2>2. CASE net' = [net EXCEPT ![n].at = "checked"]
    <3> DEFINE m == [net[n] EXCEPT !.at = "checked"]
    <3>1. {"op", "arg", "at"} \subseteq DOMAIN net[n]
      BY DEF AddInv, Posted
    <3>2. /\ {"op", "arg", "at"} \subseteq DOMAIN m /\ m.op = net[n].op /\ m.arg = net[n].arg
          /\ m.at # "sent"
      BY <3>1
    <3>3. net' = [net EXCEPT ![n] = m]
      BY <2>2
    <3> HIDE DEF m
    <3> QED
      BY <3>2, <3>3, ReplaceTells DEF AddInv
  <2> QED
    BY <1>1, <2>1, <2>2
<1> HIDE DEF Told
<1>2. CASE CheckMove(n)
  <2>1. Told /\ UNCHANGED <<page, added, quick, unseen, taskClicks>>
    BY <1>1, <1>2 DEF CheckMove, taskState
  <2> QED
    BY <2>1, AddInPlace DEF Told
<1>3. CASE WriteMove(n)
  <2>1. Told /\ UNCHANGED <<page, added, quick, unseen, taskClicks>>
    BY <1>1, <1>3 DEF WriteMove
  <2> QED
    BY <2>1, AddInPlace DEF Told
<1>4. CASE ServeErase(n)
  <2>1. Told /\ UNCHANGED <<page, added, quick, unseen, taskClicks>>
    BY <1>1, <1>4 DEF ServeErase
  <2> QED
    BY <2>1, AddInPlace DEF Told
<1>5. CASE ServeTasks(n)
  <2>1. Told /\ UNCHANGED <<page, added, quick, unseen, taskClicks>>
    BY <1>1, <1>5 DEF ServeTasks, taskState
  <2> QED
    BY <2>1, AddInPlace DEF Told
<1>6. CASE ServeAdd(n)
  <2>1. /\ Told /\ UNCHANGED <<page, quick, unseen, taskClicks>>
        /\ Adding(net[n]) /\ added' = added \cup {net[n].arg[1]}
    BY <1>1, <1>6 DEF ServeAdd, Arrived, Adding
  <2> QED
    BY <2>1, AddInPlace DEF Told
<1> QED
  BY <1>2, <1>3, <1>4, <1>5, <1>6 DEF TaskService

LEMMA LoseTaskKeeps ==
    ASSUME AddInv, NEW n \in DOMAIN net, Lose(n), UNCHANGED taskState
    PROVE  AddInv'
<1>1. /\ Posted(net') /\ DOMAIN net' = DOMAIN net /\ net'[n].op = net[n].op
      /\ net'[n].arg = net[n].arg /\ net'[n].at # "sent" /\ \A k \in DOMAIN net \ {n} : net'[k] = net[k]
  BY RejectTells DEF AddInv, Lose
<1> QED
  BY <1>1, AddInPlace DEF Lose, taskState

(* A message leaves net, and nothing comes but a request for the list. *)
LEMMA TaskLeaves ==
    ASSUME AddInv, page = "open", NEW n \in DOMAIN net,
           net' = Settle(n) \/ net' = Append(Settle(n), TaskRows),
           UNCHANGED <<page, added, taskClicks>>,
           \/ ~Adding(net[n]) /\ quick' = quick
           \/ Adding(net[n]) /\ quick' = [text |-> 0, busy |-> FALSE]
           \/ Adding(net[n]) /\ quick' = [quick EXCEPT !.busy = FALSE]
                             /\ unseen' = unseen \cup {net[n].arg[1]},
           unseen \subseteq unseen'
    PROVE  AddInv'
<1>1. Posted(Settle(n)) /\ \A k \in DOMAIN Settle(n) : \E m \in DOMAIN net : m # n /\ Settle(n)[k] = net[m]
  BY SettledWere DEF AddInv
<1>2. /\ Posted(net')
      /\ \A k \in DOMAIN net' : net'[k].op = "tasks" \/ \E m \in DOMAIN net : m # n /\ net'[k] = net[m]
      /\ \A k \in DOMAIN net' : net'[k].op = "tasks" \/ (k \in DOMAIN Settle(n) /\ net'[k] = Settle(n)[k])
      /\ \A k \in DOMAIN Settle(n) : k \in DOMAIN net' /\ net'[k] = Settle(n)[k]
  <2> DEFINE q == Settle(n)
  <2>1. Posted(q) /\ \A k \in DOMAIN q : \E m \in DOMAIN net : m # n /\ q[k] = net[m]
    BY <1>1
  <2>2. net' = q \/ net' = Append(q, Request("tasks", <<>>))
    BY DEF TaskRows
  <2> HIDE DEF q
  <2>3. CASE net' = q
    BY <2>1, <2>3 DEF q
  <2>4. CASE net' = Append(q, Request("tasks", <<>>))
    <3>1. Sends(q, net', "tasks", <<>>)
      BY <2>1, <2>4, SendTells
    <3> QED
      BY <2>1, <3>1 DEF Sends, q
  <2> QED
    BY <2>2, <2>3, <2>4
<1>3. \A k \in DOMAIN net' : Adding(net'[k]) => net'[k].op # "tasks"
  BY DEF Adding
<1>4. AddTypes /\ OneAdding /\ SummaryFresh /\ taskClicks \in Nat
  BY DEF AddInv, AddTypes
<1>5. /\ quick' \in [text : 0 .. taskClicks, busy : BOOLEAN]
      /\ quick'.text = 0 \/ quick'.text = quick.text
      /\ ~Adding(net[n]) => quick'.busy = quick.busy
  <2>1. /\ quick \in [text : 0 .. taskClicks, busy : BOOLEAN] /\ 0 \in 0 .. taskClicks
        /\ FALSE \in BOOLEAN
    BY <1>4 DEF AddTypes
  <2>2. CASE quick' = quick /\ ~Adding(net[n])
    BY <2>1, <2>2
  <2>3. CASE quick' = [text |-> 0, busy |-> FALSE] /\ Adding(net[n])
    BY <2>1, <2>3
  <2>4. CASE quick' = [quick EXCEPT !.busy = FALSE] /\ Adding(net[n])
    BY <2>1, <2>4
  <2> QED
    BY <2>2, <2>3, <2>4
<1>6. AddTypes'
  BY <1>2, <1>3, <1>4, <1>5 DEF AddTypes
<1>7. OneAdding'
  <2>1. \A i, j \in DOMAIN Settle(n) : Adding(Settle(n)[i]) /\ Adding(Settle(n)[j]) => i = j
    <3> SUFFICES ASSUME NEW i \in DOMAIN Settle(n), NEW j \in DOMAIN Settle(n),
                        Adding(Settle(n)[i]), Adding(Settle(n)[j])
                 PROVE  i = j
      OBVIOUS
    <3>1. /\ Was(i, n) \in DOMAIN net \ {n} /\ Settle(n)[i] = net[Was(i, n)]
          /\ Was(j, n) \in DOMAIN net \ {n} /\ Settle(n)[j] = net[Was(j, n)]
      BY SettleTells DEF AddInv
    <3>2. Was(i, n) = Was(j, n)
      BY <1>4, <3>1 DEF OneAdding
    <3>3. i \in Nat /\ j \in Nat /\ n \in Nat
      BY <1>1, PostedDomain DEF AddInv
    <3> QED
      BY <3>2, <3>3 DEF Was
  <2>2. ASSUME NEW k \in DOMAIN net', Adding(net'[k]) PROVE quick'.busy
    <3>1. PICK m \in DOMAIN net : m # n /\ Adding(net[m])
      BY <1>2, <1>3, <2>2
    <3> QED
      BY <1>4, <1>5, <3>1 DEF OneAdding
  <2> QED
    BY <1>2, <1>3, <2>1, <2>2 DEF OneAdding
<1>8. \A k \in DOMAIN net' : Adding(net'[k]) /\ net'[k].at = "sent" =>
         net'[k].arg[1] \notin added' \ unseen'
  BY <1>2, <1>3, <1>4 DEF SummaryFresh
<1>9. ASSUME quick'.text \in added' \ unseen'
      PROVE  \E k \in DOMAIN net' : Adding(net'[k]) /\ net'[k].arg[1] = quick'.text
  <2>1. quick'.text = quick.text /\ quick.text # 0 /\ quick.text \in added \ unseen
    BY <1>4, <1>5, <1>9 DEF AddTypes
  <2>2. PICK m \in DOMAIN net : Adding(net[m]) /\ net[m].arg[1] = quick.text
    BY <1>4, <2>1 DEF SummaryFresh
  <2>3. m # n
    <3>1. CASE m = n
      <4>1. unseen' = unseen \cup {net[n].arg[1]}
        BY <2>1, <2>2, <3>1
      <4> QED
        BY <1>9, <2>1, <2>2, <3>1, <4>1
    <3> QED
      BY <3>1
  <2>4. Now(m, n) \in DOMAIN Settle(n) /\ Settle(n)[Now(m, n)] = net[m]
    BY <2>3, SettleTells DEF AddInv
  <2> QED
    BY <1>2, <2>1, <2>2, <2>4
<1> QED
  BY <1>2, <1>6, <1>7, <1>8, <1>9 DEF AddInv, SummaryFresh

LEMMA OneMoreClick ==
    ASSUME NEW c \in Nat
    PROVE  c + 1 \in Nat /\ 0 .. c \subseteq 0 .. c + 1 /\ 1 .. c \subseteq 1 .. c + 1
OBVIOUS

(* The field, the added tasks and what is being added stay as they are. *)
LEMMA ElseSent ==
    ASSUME AddInv, page = "open", UNCHANGED <<page, quick, added, unseen>>,
           taskClicks' \in {taskClicks, taskClicks + 1},
           net' = net \/ \E op, arg : op # "add task" /\ net' = Append(net, Request(op, arg))
    PROVE  AddInv'
<1>1. AddTypes /\ OneAdding /\ SummaryFresh /\ taskClicks \in Nat
  BY DEF AddInv, AddTypes
<1> DEFINE Kept == /\ Posted(net')
                   /\ \A k \in DOMAIN net' : Adding(net'[k]) => k \in DOMAIN net /\ net'[k] = net[k]
                   /\ \A k \in DOMAIN net : k \in DOMAIN net' /\ net'[k] = net[k]
<1>2. Kept
  <2>1. CASE net' = net
    BY <2>1 DEF AddInv
  <2>2. ASSUME NEW op, NEW arg, op # "add task", net' = Append(net, Request(op, arg))
        PROVE  Kept
    <3>1. Sends(net, net', op, arg)
      BY <2>2, SendTells DEF AddInv
    <3> QED
      BY <2>2, <3>1 DEF Sends, Adding
  <2> QED
    BY <2>1, <2>2
<1>3. AddTypes'
  <2>1. /\ taskClicks' \in Nat /\ 0 .. taskClicks \subseteq 0 .. taskClicks'
        /\ 1 .. taskClicks \subseteq 1 .. taskClicks'
    <3>1. taskClicks' = taskClicks \/ taskClicks' = taskClicks + 1
      OBVIOUS
    <3>2. CASE taskClicks' = taskClicks
      BY <1>1, <3>2
    <3>3. CASE taskClicks' = taskClicks + 1
      BY <1>1, <3>3, OneMoreClick
    <3> QED
      BY <3>1, <3>2, <3>3
  <2>2. quick' \in [text : 0 .. taskClicks', busy : BOOLEAN]
    BY <1>1, <2>1 DEF AddTypes
  <2> QED
    BY <1>1, <1>2, <2>1, <2>2 DEF AddTypes
<1>4. OneAdding'
  BY <1>1, <1>2 DEF OneAdding
<1>5. SummaryFresh'
  BY <1>1, <1>2 DEF SummaryFresh
<1> QED
  BY <1>2, <1>3, <1>4, <1>5 DEF AddInv

LEMMA TypeSummaryKeeps == ASSUME AddInv, TypeSummary PROVE AddInv'
<1>1. /\ Posted(net) /\ AddTypes /\ OneAdding /\ SummaryFresh /\ taskClicks \in Nat
      /\ page = "open" /\ taskClicks' = taskClicks + 1
      /\ quick' = [quick EXCEPT !.text = taskClicks + 1]
      /\ UNCHANGED <<net, page, added, unseen>>
  BY DEF AddInv, AddTypes, TypeSummary, TaskClick, MaySend, UserMayAct, web
<1>2. /\ taskClicks' \in Nat /\ taskClicks + 1 \in 0 .. taskClicks'
      /\ 1 .. taskClicks \subseteq 1 .. taskClicks' /\ taskClicks + 1 \notin 1 .. taskClicks
  BY <1>1
<1>3. /\ quick' \in [text : 0 .. taskClicks', busy : BOOLEAN]
      /\ quick'.text = taskClicks + 1 /\ quick'.busy = quick.busy
  BY <1>1, <1>2 DEF AddTypes
<1>4. AddTypes'
  BY <1>1, <1>2, <1>3 DEF AddTypes
<1>5. OneAdding'
  BY <1>1, <1>3 DEF OneAdding
<1>6. SummaryFresh'
  BY <1>1, <1>2, <1>3 DEF SummaryFresh, AddTypes
<1> QED
  BY <1>1, <1>4, <1>5, <1>6 DEF AddInv

LEMMA QuickAddKeeps == ASSUME AddInv, QuickAdd PROVE AddInv'
<1>1. /\ Posted(net) /\ AddTypes /\ OneAdding /\ SummaryFresh /\ taskClicks \in Nat
      /\ page = "open" /\ taskClicks' = taskClicks + 1
      /\ quick.text # 0 /\ ~quick.busy /\ quick' = [quick EXCEPT !.busy = TRUE]
      /\ UNCHANGED <<page, added, unseen>>
  BY DEF AddInv, AddTypes, QuickAdd, QuickFree, TaskClick, MaySend, UserMayAct
<1> DEFINE a == <<quick.text>>
<1>2. Sends(net, net', "add task", a)
  BY <1>1, SendTells DEF QuickAdd
<1>3. a[1] = quick.text
  OBVIOUS
<1> HIDE DEF a
<1>4. /\ Posted(net') /\ DOMAIN net' = DOMAIN net \cup {Len(net')} /\ Len(net') \notin DOMAIN net
      /\ \A k \in DOMAIN net : net'[k] = net[k]
      /\ net'[Len(net')].op = "add task" /\ net'[Len(net')].arg = a
  BY <1>2 DEF Sends
<1>5. \A k \in DOMAIN net : ~Adding(net[k])
  BY <1>1 DEF OneAdding
<1>6. \A k \in DOMAIN net' : Adding(net'[k]) => k = Len(net') /\ net'[k].arg[1] = quick.text
  BY <1>3, <1>4, <1>5
<1>7. /\ taskClicks' \in Nat /\ 0 .. taskClicks \subseteq 0 .. taskClicks'
      /\ 1 .. taskClicks \subseteq 1 .. taskClicks'
  BY <1>1
<1>8. /\ quick' \in [text : 0 .. taskClicks', busy : BOOLEAN] /\ quick.text \in 1 .. taskClicks
      /\ quick'.text = quick.text /\ quick'.busy
  <2>1. quick \in [text : 0 .. taskClicks, busy : BOOLEAN]
    BY <1>1 DEF AddTypes
  <2>2. quick' \in [text : 0 .. taskClicks', busy : BOOLEAN]
    BY <1>1, <1>7, <2>1
  <2>3. quick.text \in 1 .. taskClicks
    BY <1>1, <2>1
  <2> QED
    BY <1>1, <2>1, <2>2, <2>3
<1>9. AddTypes'
  BY <1>1, <1>6, <1>7, <1>8 DEF AddTypes
<1>10. OneAdding'
  BY <1>6, <1>8 DEF OneAdding
<1>11. quick.text \notin added \ unseen
  BY <1>1, <1>5 DEF SummaryFresh
<1>12. SummaryFresh'
  BY <1>1, <1>6, <1>8, <1>11 DEF SummaryFresh
<1> QED
  BY <1>1, <1>4, <1>9, <1>10, <1>12 DEF AddInv

LEMMA TaskHandledKeeps ==
    ASSUME AddInv, NEW n \in DOMAIN net, TaskAnswer(n)
    PROVE  AddInv'
<1>1. CASE TasksShown(n)
  BY <1>1, TaskLeaves DEF TasksShown, Answered, Adding
<1>2. CASE TaskWritten(n)
  BY <1>2, TaskLeaves DEF TaskWritten, Answered, Adding
<1>3. CASE TaskAdded(n)
  BY <1>3, TaskLeaves DEF TaskAdded, Answered, Adding
<1>4. CASE TasksFailed(n)
  <2>1. /\ page = "open" /\ net' = Settle(n) /\ UNCHANGED <<page, added, taskClicks>>
        /\ IF Adding(net[n])
           THEN quick' = [quick EXCEPT !.busy = FALSE] /\ unseen' = unseen \cup {net[n].arg[1]}
           ELSE quick' = quick /\ unseen' = unseen
    BY <1>4 DEF TasksFailed, ShowError, Failed, Adding
  <2> QED
    BY <2>1, TaskLeaves
<1>5. CASE RowErased(n)
  BY <1>5, TaskLeaves DEF RowErased, Answered, Adding, taskState
<1> QED
  BY <1>1, <1>2, <1>3, <1>4, <1>5 DEF TaskAnswer

LEMMA AddInvInit == ASSUME WebInit(<<>>), TasksInit PROVE AddInv
<1>1. /\ net = <<>> /\ page = "open" /\ added = {} /\ taskClicks = 0
      /\ quick = [text |-> 0, busy |-> FALSE] /\ Posted(net) /\ DOMAIN net = {}
  BY NothingPosted DEF WebInit, TasksInit
<1> QED
  BY <1>1 DEF AddInv, AddTypes, OneAdding, SummaryFresh

LEMMA AddInvStep == ASSUME AddInv, [TasksNext]_tasksVars PROVE AddInv'
<1> DEFINE Rest == UNCHANGED <<page, quick, added, unseen>>
           Else == \E op, arg : op # "add task" /\ net' = Append(net, Request(op, arg))
<1>1. ASSUME page = "open", Rest, taskClicks' \in {taskClicks, taskClicks + 1}, net' = net \/ Else
      PROVE  AddInv'
  BY <1>1, ElseSent
<1>2. ASSUME UNCHANGED <<net, page, quick, added, unseen, taskClicks>> PROVE AddInv'
  BY <1>2 DEF AddInv, AddTypes, OneAdding, SummaryFresh, Adding
<1>3. CASE UNCHANGED tasksVars
  BY <1>2, <1>3 DEF tasksVars, web, taskState
<1>4. ASSUME NEW t \in Tasks, OpenTask(t) PROVE AddInv'
  BY <1>1, <1>4 DEF OpenTask, TaskClick, MaySend, UserMayAct, web
<1>5. ASSUME NEW t \in Tasks, DeleteTask(t) PROVE AddInv'
  <2>1. Else
    <3>1. net' = Append(net, Request("erase task", <<t, taskForm.open>>))
      BY <1>5 DEF DeleteTask
    <3> QED
      BY <3>1
  <2> HIDE DEF Else
  <2> QED
    BY <1>1, <1>5, <2>1 DEF DeleteTask, TaskClick, MaySend, UserMayAct
<1>6. ASSUME NEW p \in Tasks \cup {Root}, PickParent(p) PROVE AddInv'
  BY <1>2, <1>6 DEF PickParent, web
<1>7. CASE CloseTask
  BY <1>2, <1>7 DEF CloseTask, web
<1>8. CASE SaveTask
  <2>1. Else
    BY <1>8 DEF SaveTask
  <2> HIDE DEF Else
  <2> QED
    BY <1>1, <1>8, <2>1 DEF SaveTask, TaskClick, MaySend, UserMayAct
<1>9. CASE TypeSummary \/ QuickAdd
  BY <1>9, TypeSummaryKeeps, QuickAddKeeps
<1>10. ASSUME NEW t \in MovedByOthers, NEW p \in Tasks, OthersCheckMove(t, p) PROVE AddInv'
  BY <1>2, <1>10 DEF OthersCheckMove, web
<1>11. CASE OthersWriteMove
  BY <1>2, <1>11 DEF OthersWriteMove, web
<1>12. ASSUME NEW n \in DOMAIN net, TaskService(n) \/ TaskAnswer(n) PROVE AddInv'
  BY <1>12, ServeTaskKeeps, TaskHandledKeeps
<1>13. ASSUME NEW n \in DOMAIN net, Lose(n), UNCHANGED taskState PROVE AddInv'
  BY <1>13, LoseTaskKeeps
<1>14. ASSUME NEW n \in DOMAIN net, SessionExpired(n), UNCHANGED taskState PROVE AddInv'
  <2>1. net' = <<>> /\ page' # "open" /\ UNCHANGED <<quick, taskClicks, added>>
    BY <1>14 DEF SessionExpired, taskState
  <2>2. Posted(net') /\ DOMAIN net' = {}
    BY <2>1, NothingPosted
  <2> QED
    BY <2>1, <2>2 DEF AddInv, AddTypes
<1>15. CASE Dismiss /\ UNCHANGED taskState
  BY <1>2, <1>15 DEF Dismiss, taskState
<1>16. ASSUME NEW t \in CreatedByOthers, NEW p \in Tasks, OthersCreate(t, p) PROVE AddInv'
  BY <1>2, <1>16 DEF OthersCreate, web
<1> QED
  BY <1>3, <1>4, <1>5, <1>6, <1>7, <1>8, <1>9, <1>10, <1>11, <1>12, <1>13, <1>14, <1>15, <1>16
     DEF TasksNext

(* A task typed into the field is added once, unless the answer that it was   *)
(* added was lost (tasks.js: quickAdd and its busy flag).                    *)
THEOREM AddedOnce == TasksSpec => TaskAddedOnce
<1>1. ASSUME AddInv
      PROVE  \A n \in DOMAIN net :
                Arrived(n, "add task") /\ Accepted(n) => net[n].arg[1] \notin added \ unseen
  BY <1>1 DEF AddInv, SummaryFresh, Adding, Arrived
<1>2. WebInit(<<>>) /\ TasksInit => AddInv
  BY AddInvInit
<1>3. AddInv /\ [TasksNext]_tasksVars => AddInv'
  BY AddInvStep
<1>4. TasksSpec => []AddInv
  BY <1>2, <1>3, PTL DEF TasksSpec
<1> QED
  BY <1>1, <1>4, PTL DEF TaskAddedOnce
==============================================================================
