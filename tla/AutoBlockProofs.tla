--------------------------- MODULE AutoBlockProofs ---------------------------
(* Theorems about automatic blocking: the enforced view, the kernel rules    *)
(* that mirror the list, and the file that carries it over a restart.        *)
EXTENDS AutoBlockState, FiniteSetTheorems, SequenceTheorems, TLAPS

-----------------------------------------------------------------------------
(* Definitions *)

\* A list whose flags are those of blocked addresses.
ListOK(l) == l \in ListType /\ UNION {l.dry, l.lapsed, l.fw} \subseteq l.blocked

WorkerAts == {"idle", "check", "unlock", "block", "flag"}

\* The worker holds one address, except at rest; a rule it installed is there,
\* and one that it is about to remove belongs to no block that relies on it.
WorkerOK ==
  /\ worker.at # "idle" => \E a \in Addrs : worker.ips = {a}
  /\ worker.at = "flag" => worker.ips \subseteq rules
  /\ worker.at = "unlock" => worker.ips \cap list.fw \cap Enforced(list) = {}

AddOp(a)    == [op |-> "add", ip |-> a]
RemoveOp(a) == [op |-> "remove", ip |-> a]

AddQueued(q, a) == \E i \in 1..Len(q) : q[i] = AddOp(a)

\* The queue holds a removal with no add behind it.
RemoveQueued(q, a) ==
  \E j \in 1..Len(q) : q[j] = RemoveOp(a) /\ \A i \in 1..Len(q) : i > j => q[i] # AddOp(a)

\* The address has a rule, or will have one.
Installing(a) ==
  \/ a \in rules \/ AddQueued(queue, a)
  \/ worker.at \in {"block", "flag"} /\ a \in worker.ips

\* Somebody still has to remove the rule, after the last add that is under way.
RemovalOwed(a) ==
  \/ \E p \in Actors : actor[p].at = "remove" /\ a \in actor[p].ips
  \/ ticker.at = "remove" /\ a \in ticker.ips
  \/ a \in fwPending \/ RemoveQueued(queue, a)
  \/ worker.at \in {"check", "unlock"} /\ a \in worker.ips /\ ~AddQueued(queue, a)

RemovalsOwed ==
  ~lost => \A a \in Addrs \ (list.blocked \cup raced) : Installing(a) => RemovalOwed(a)

\* The inductive invariant of the list in one process.
ListInv == TypeOK /\ ViewIsEnforced /\ WorkerOK /\ FlaggedBlockHasRule /\ RemovalsOwed

\* The file holds what the list has, and in the first process no other block.
Covers(file) ==
  /\ list.blocked \subseteq file.blocked /\ list.dry \subseteq file.dry
  /\ list.history \subseteq file.history
  /\ boots = 0 => file.blocked \subseteq list.blocked

\* A copy of the list has still to be made.
CopyOwed ==
  \/ \E p \in Actors : actor[p].at \in {"add", "remove", "save"}
  \/ ticker.at \in {"remove", "save"}
  \/ saveOnce \/ (dirty /\ saving = NoCopy)

FileOwed ==
  ~unsaved => \/ CopyOwed
              \/ saving # NoCopy /\ Covers(saving[1])
              \/ saving = NoCopy /\ ~dirty /\ Covers(disk)

FilesOK ==
  /\ ListOK(disk)
  /\ saving # NoCopy => ListOK(saving[1]) /\ dirty
  /\ saveOnce \in BOOLEAN /\ dirty \in BOOLEAN /\ unsaved \in BOOLEAN
  /\ boots \in 0..MaxBoots

\* The inductive invariant of the list with its file.
StateInv == ListInv /\ FilesOK /\ FileOwed
-----------------------------------------------------------------------------
(* The list *)

\* What a list that is well formed consists of.
LEMMA ListFields ==
  ASSUME NEW l, ListOK(l)
  PROVE  /\ l.blocked \subseteq Addrs /\ l.history \subseteq Addrs
         /\ l.dry \subseteq l.blocked /\ l.lapsed \subseteq l.blocked /\ l.fw \subseteq l.blocked
BY DEF ListOK, ListType

\* The empty list is well formed.
LEMMA EmptyListOK == ListOK(EmptyList)
<1>1. EmptyList \in ListType
  BY DEF EmptyList, ListType
<1>2. UNION {EmptyList.dry, EmptyList.lapsed, EmptyList.fw} = {}
  BY DEF EmptyList
<1> QED
  BY <1>1, <1>2 DEF ListOK

\* A record with fields in order is a well-formed list.
LEMMA ListOKIntro ==
  ASSUME NEW l \in ListType, l.dry \subseteq l.blocked, l.lapsed \subseteq l.blocked, l.fw \subseteq l.blocked
  PROVE  ListOK(l)
BY DEF ListOK

\* Another history in a list changes nothing else.
LEMMA HistoryReplaced ==
  ASSUME NEW l, ListOK(l), NEW h \in SUBSET Addrs
  PROVE  LET m == [l EXCEPT !.history = h]
         IN  /\ ListOK(m) /\ m.blocked = l.blocked /\ m.dry = l.dry /\ m.lapsed = l.lapsed
             /\ m.fw = l.fw /\ m.history = h
<1> DEFINE m == [l EXCEPT !.history = h]
<1>1. l \in ListType
  BY DEF ListOK
<1>2. /\ m \in ListType /\ m.blocked = l.blocked /\ m.dry = l.dry /\ m.lapsed = l.lapsed
      /\ m.fw = l.fw /\ m.history = h
  BY <1>1 DEF ListType
<1> HIDE DEF m
<1>3. ListOK(m)
  BY <1>2, ListFields, ListOKIntro
<1> QED
  BY <1>2, <1>3 DEF m

\* Entries deleted from a list.
LEMMA EntriesDeleted ==
  ASSUME NEW l, ListOK(l), NEW s
  PROVE  LET m == DelEntries(l, s)
         IN  /\ ListOK(m) /\ m.blocked = l.blocked \ s /\ m.dry = l.dry \ s /\ m.lapsed = l.lapsed \ s
             /\ m.fw = l.fw \ s /\ m.history = l.history
<1> DEFINE m == DelEntries(l, s)
<1>1. l \in ListType
  BY DEF ListOK
<1>2. /\ m \in ListType /\ m.blocked = l.blocked \ s /\ m.dry = l.dry \ s /\ m.lapsed = l.lapsed \ s
      /\ m.fw = l.fw \ s /\ m.history = l.history
  BY <1>1 DEF ListType, DelEntries
<1> HIDE DEF m
<1>3. ListOK(m)
  BY <1>2, ListFields, ListOKIntro
<1> QED
  BY <1>2, <1>3 DEF m

\* Entries deleted with their history.
LEMMA EntriesForgotten ==
  ASSUME NEW l, ListOK(l), NEW s
  PROVE  LET m == DelEntries([l EXCEPT !.history = @ \ s], s)
         IN  /\ ListOK(m) /\ m.blocked = l.blocked \ s /\ m.dry = l.dry \ s /\ m.lapsed = l.lapsed \ s
             /\ m.fw = l.fw \ s /\ m.history = l.history \ s
<1> DEFINE k == [l EXCEPT !.history = l.history \ s]
<1>1. l.history \ s \in SUBSET Addrs
  BY ListFields
<1>2. /\ ListOK(k) /\ k.blocked = l.blocked /\ k.dry = l.dry /\ k.lapsed = l.lapsed
      /\ k.fw = l.fw /\ k.history = l.history \ s
  BY <1>1, HistoryReplaced
<1>3. [l EXCEPT !.history = @ \ s] = k
  OBVIOUS
<1> HIDE DEF k
<1>4. LET m == DelEntries(k, s)
      IN  /\ ListOK(m) /\ m.blocked = k.blocked \ s /\ m.dry = k.dry \ s /\ m.lapsed = k.lapsed \ s
          /\ m.fw = k.fw \ s /\ m.history = k.history
  BY <1>2, EntriesDeleted
<1> QED
  BY <1>2, <1>3, <1>4

\* The critical section of apply and Block: the address is blocked, its rule is
\* not yet installed, and the view follows.
LEMMA Installed ==
  ASSUME ListOK(list), NEW a \in Addrs, NEW dry \in BOOLEAN, Install(a, dry)
  PROVE  /\ ListOK(list') /\ list'.blocked = list.blocked \cup {a} /\ list'.fw = list.fw \ {a}
         /\ dry => list'.dry = list.dry \cup {a} /\ view' = view \ {a}
         /\ ~dry => list'.dry = list.dry \ {a} /\ view' = view \cup {a}
<1> DEFINE h == list.history \cup {a}
           k == [list EXCEPT !.history = h]
           put == PutEntry(k, a, dry)
<1>1. h \in SUBSET Addrs
  BY ListFields
<1> HIDE DEF h
<1>2. /\ ListOK(k) /\ k.blocked = list.blocked /\ k.dry = list.dry /\ k.lapsed = list.lapsed
      /\ k.fw = list.fw /\ k.history = h
  BY <1>1, HistoryReplaced
<1>3. [list EXCEPT !.history = @ \cup {a}] = k
  BY DEF h
<1> HIDE DEF k
<1>4. k \in ListType /\ k.blocked \subseteq Addrs /\ k.dry \subseteq k.blocked /\ k.lapsed \subseteq k.blocked
      /\ k.fw \subseteq k.blocked
  BY <1>2, ListFields DEF ListOK
<1>5. /\ put \in ListType /\ put.blocked = k.blocked \cup {a} /\ put.lapsed = k.lapsed \ {a}
      /\ put.fw = k.fw \ {a} /\ put.dry = (IF dry THEN k.dry \cup {a} ELSE k.dry \ {a})
      /\ put.history = k.history
  BY <1>4 DEF PutEntry, ListType
<1>6. /\ \E g \in TrimHistory(put) : list' = [put EXCEPT !.history = g]
      /\ view' = IF dry THEN view \ {a} ELSE view \cup {a}
  BY <1>3 DEF Install
<1> HIDE DEF put
<1>7. ListOK(put)
  BY <1>4, <1>5, ListOKIntro
<1>8. PICK g \in TrimHistory(put) : list' = [put EXCEPT !.history = g]
  BY <1>6
<1>9. g \in SUBSET put.history
  BY <1>8 DEF TrimHistory
<1>10. g \in SUBSET Addrs
  BY <1>5, <1>9 DEF ListType
<1> QED
  BY <1>2, <1>5, <1>6, <1>7, <1>8, <1>10, HistoryReplaced
-----------------------------------------------------------------------------
(* The queue *)

\* Adds and removals are different operations, each about its own address.
LEMMA OpsDiffer ==
  ASSUME NEW a, NEW b
  PROVE  /\ AddOp(a) # RemoveOp(b) /\ (AddOp(a) = AddOp(b) => a = b)
         /\ (RemoveOp(a) = RemoveOp(b) => a = b)
<1>1. /\ AddOp(a).op = "add" /\ AddOp(a).ip = a /\ RemoveOp(b).op = "remove" /\ AddOp(b).ip = b
      /\ RemoveOp(a).ip = a /\ RemoveOp(b).ip = b
  BY DEF AddOp, RemoveOp
<1> QED
  BY <1>1

\* Every operation is the add or the removal of its address.
LEMMA OpForms ==
  ASSUME NEW x \in FwOps
  PROVE  (x.op = "add" /\ x = AddOp(x.ip)) \/ (x.op = "remove" /\ x = RemoveOp(x.ip))
BY DEF FwOps, AddOp, RemoveOp

\* An operation appended to the queue.
LEMMA OpAppended ==
  ASSUME NEW q \in Seq(FwOps), NEW x \in FwOps, NEW b \in Addrs
  PROVE  /\ x # AddOp(b) => (AddQueued(Append(q, x), b) => AddQueued(q, b))
         /\ x # AddOp(b) => (RemoveQueued(q, b) => RemoveQueued(Append(q, x), b))
         /\ x = RemoveOp(b) => RemoveQueued(Append(q, x), b)
<1> DEFINE r == Append(q, x)
<1>1. /\ Len(q) \in Nat /\ Len(r) = Len(q) + 1 /\ r[Len(q) + 1] = x
      /\ \A i \in 1..Len(q) : r[i] = q[i]
  OBVIOUS
<1> HIDE DEF r
<1>2. ASSUME x # AddOp(b), AddQueued(r, b) PROVE AddQueued(q, b)
  BY <1>1, <1>2 DEF AddQueued
<1>3. ASSUME x # AddOp(b), RemoveQueued(q, b) PROVE RemoveQueued(r, b)
  <2>1. PICK j \in 1..Len(q) : q[j] = RemoveOp(b) /\ \A i \in 1..Len(q) : i > j => q[i] # AddOp(b)
    BY <1>3 DEF RemoveQueued
  <2>2. j \in 1..Len(r) /\ r[j] = RemoveOp(b)
    BY <1>1, <2>1
  <2>3. \A i \in 1..Len(r) : i > j => r[i] # AddOp(b)
    BY <1>1, <1>3, <2>1
  <2> QED
    BY <2>2, <2>3 DEF RemoveQueued
<1>4. ASSUME x = RemoveOp(b) PROVE RemoveQueued(r, b)
  <2>1. Len(q) + 1 \in 1..Len(r) /\ r[Len(q) + 1] = RemoveOp(b)
    BY <1>1, <1>4
  <2>2. \A i \in 1..Len(r) : ~(i > Len(q) + 1)
    BY <1>1
  <2> QED
    BY <2>1, <2>2 DEF RemoveQueued
<1> QED
  BY <1>2, <1>3, <1>4 DEF r

\* Removals sent to the end of the queue.
LEMMA RemovalsSent ==
  ASSUME NEW q \in Seq(FwOps), NEW s \in Seq(FwOps), NEW b \in Addrs,
         \A i \in 1..Len(s) : s[i] # AddOp(b)
  PROVE  /\ q \o s \in Seq(FwOps) /\ Len(q \o s) = Len(q) + Len(s)
         /\ AddQueued(q \o s, b) => AddQueued(q, b)
         /\ RemoveQueued(q, b) => RemoveQueued(q \o s, b)
         /\ (\E i \in 1..Len(s) : s[i] = RemoveOp(b)) => RemoveQueued(q \o s, b)
<1> DEFINE r == q \o s
<1>1. /\ r \in Seq(FwOps) /\ Len(r) = Len(q) + Len(s) /\ Len(q) \in Nat /\ Len(s) \in Nat
      /\ \A i \in 1..Len(q) : r[i] = q[i]
      /\ \A i \in 1..Len(s) : r[Len(q) + i] = s[i]
  OBVIOUS
<1> HIDE DEF r
<1>2. \A i \in 1..Len(r) : i > Len(q) => r[i] # AddOp(b)
  <2> SUFFICES ASSUME NEW i \in 1..Len(r), i > Len(q) PROVE r[i] # AddOp(b)
    OBVIOUS
  <2>1. i - Len(q) \in 1..Len(s) /\ i = Len(q) + (i - Len(q))
    BY <1>1
  <2>2. r[i] = s[i - Len(q)]
    BY <1>1, <2>1
  <2> QED
    BY <2>1, <2>2
<1>3. AddQueued(r, b) => AddQueued(q, b)
  BY <1>1, <1>2 DEF AddQueued
<1>4. RemoveQueued(q, b) => RemoveQueued(r, b)
  <2> SUFFICES ASSUME RemoveQueued(q, b) PROVE RemoveQueued(r, b)
    OBVIOUS
  <2>1. PICK j \in 1..Len(q) : q[j] = RemoveOp(b) /\ \A i \in 1..Len(q) : i > j => q[i] # AddOp(b)
    BY DEF RemoveQueued
  <2>2. j \in 1..Len(r) /\ r[j] = RemoveOp(b)
    BY <1>1, <2>1
  <2>3. \A i \in 1..Len(r) : i > j => r[i] # AddOp(b)
    BY <1>1, <1>2, <2>1
  <2> QED
    BY <2>2, <2>3 DEF RemoveQueued
<1>5. ASSUME NEW k \in 1..Len(s), s[k] = RemoveOp(b) PROVE RemoveQueued(r, b)
  <2>1. Len(q) + k \in 1..Len(r) /\ r[Len(q) + k] = RemoveOp(b)
    BY <1>1, <1>5
  <2>2. \A i \in 1..Len(r) : i > Len(q) + k => r[i] # AddOp(b)
    <3> SUFFICES ASSUME NEW i \in 1..Len(r), i > Len(q) + k PROVE i > Len(q)
      BY <1>2
    <3> QED
      BY <1>1
  <2> QED
    BY <2>1, <2>2 DEF RemoveQueued
<1> QED
  BY <1>1, <1>3, <1>4, <1>5 DEF r

\* The head taken off the queue.
LEMMA HeadTaken ==
  ASSUME NEW q \in Seq(FwOps), q # <<>>, NEW b \in Addrs
  PROVE  /\ Tail(q) \in Seq(FwOps) /\ Len(Tail(q)) = Len(q) - 1 /\ Len(q) \in Nat \ {0} /\ Head(q) \in FwOps
         /\ AddQueued(Tail(q), b) => AddQueued(q, b)
         /\ AddQueued(q, b) => AddQueued(Tail(q), b) \/ Head(q) = AddOp(b)
         /\ RemoveQueued(q, b) =>
              RemoveQueued(Tail(q), b) \/ (Head(q) = RemoveOp(b) /\ ~AddQueued(Tail(q), b))
<1> DEFINE t == Tail(q)
<1>1. /\ t \in Seq(FwOps) /\ Len(t) = Len(q) - 1 /\ Len(q) \in Nat \ {0}
      /\ Head(q) \in FwOps /\ Head(q) = q[1] /\ \A i \in 1..Len(t) : t[i] = q[i + 1]
  OBVIOUS
<1> HIDE DEF t
<1>2. AddQueued(t, b) => AddQueued(q, b)
  <2> SUFFICES ASSUME NEW i \in 1..Len(t), t[i] = AddOp(b) PROVE AddQueued(q, b)
    BY DEF AddQueued
  <2>1. i + 1 \in 1..Len(q) /\ q[i + 1] = AddOp(b)
    BY <1>1
  <2> QED
    BY <2>1 DEF AddQueued
<1>3. AddQueued(q, b) => AddQueued(t, b) \/ Head(q) = AddOp(b)
  <2> SUFFICES ASSUME NEW i \in 1..Len(q), q[i] = AddOp(b), i # 1 PROVE AddQueued(t, b)
    BY <1>1 DEF AddQueued
  <2>1. i - 1 \in 1..Len(t) /\ t[i - 1] = q[(i - 1) + 1] /\ (i - 1) + 1 = i
    BY <1>1
  <2> QED
    BY <2>1 DEF AddQueued
<1>4. ASSUME RemoveQueued(q, b)
      PROVE  RemoveQueued(t, b) \/ (Head(q) = RemoveOp(b) /\ ~AddQueued(t, b))
  <2>1. PICK j \in 1..Len(q) : q[j] = RemoveOp(b) /\ \A i \in 1..Len(q) : i > j => q[i] # AddOp(b)
    BY <1>4 DEF RemoveQueued
  <2>2. \A i \in 1..Len(t) : i > j - 1 => t[i] # AddOp(b)
    <3> SUFFICES ASSUME NEW i \in 1..Len(t), i > j - 1 PROVE t[i] # AddOp(b)
      OBVIOUS
    <3>1. i + 1 \in 1..Len(q) /\ i + 1 > j /\ t[i] = q[i + 1]
      BY <1>1, <2>1
    <3> QED
      BY <2>1, <3>1
  <2>3. CASE j = 1
    BY <1>1, <2>1, <2>2, <2>3 DEF AddQueued
  <2>4. CASE j # 1
    <3>1. j - 1 \in 1..Len(t) /\ t[j - 1] = q[(j - 1) + 1] /\ (j - 1) + 1 = j
      BY <1>1, <2>1, <2>4
    <3> QED
      BY <2>1, <2>2, <3>1 DEF RemoveQueued
  <2> QED
    BY <2>3, <2>4
<1> QED
  BY <1>1, <1>2, <1>3, <1>4 DEF t

\* The orders of a finite set, as sequences: each lists the whole set.
LEMMA OrderListsSet ==
  ASSUME NEW S, IsFiniteSet(S), NEW f \in SetToSeqs(S)
  PROVE  /\ Cardinality(S) \in Nat /\ f \in [1..Cardinality(S) -> S]
         /\ \A x \in S : \E i \in 1..Cardinality(S) : f[i] = x
<1> DEFINE n == Cardinality(S)
<1>1. n \in Nat
  BY FS_CardinalityType
<1>2. f \in [1..n -> S] /\ \A i, j \in 1..n : i # j => f[i] # f[j]
  BY DEF SetToSeqs
<1>3. ASSUME NEW x \in S, \A i \in 1..n : f[i] # x PROVE FALSE
  <2>1. f \in [1..n -> S \ {x}]
    BY <1>2, <1>3
  <2>2. IsFiniteSet(S \ {x}) /\ Cardinality(S \ {x}) = n - 1
    BY FS_RemoveElement
  <2>3. IsFiniteSet(1..n) /\ Cardinality(1..n) = n
    <3>1. 1 \in Int /\ n \in Int /\ (IF 1 > n THEN 0 ELSE n - 1 + 1) = n
      BY <1>1
    <3> HIDE DEF n
    <3> QED
      BY <3>1, FS_Interval
  <2>4. Cardinality(S \ {x}) < Cardinality(1..n)
    BY <1>1, <2>2, <2>3
  <2>5. \E i, j \in 1..n : i # j /\ f[i] = f[j]
    <3> DEFINE D == 1..n
               T == S \ {x}
    <3>1. IsFiniteSet(D) /\ IsFiniteSet(T) /\ Cardinality(T) < Cardinality(D) /\ f \in [D -> T]
      BY <2>1, <2>2, <2>3, <2>4
    <3> HIDE DEF D, T
    <3>2. \E i, j \in D : i # j /\ f[i] = f[j]
      BY <3>1, FS_PigeonHole
    <3> QED
      BY <3>2 DEF D
  <2> QED
    BY <1>2, <2>5
<1> QED
  BY <1>1, <1>2, <1>3
-----------------------------------------------------------------------------
(* Steps of the list in one process *)

\* The types of the state, by the names used here.
LEMMA BlockTypes ==
  ASSUME ListInv
  PROVE  /\ ListOK(list) /\ view \subseteq Addrs /\ safe \subseteq Addrs
         /\ queue \in Seq(FwOps) /\ Len(queue) <= QueueCap /\ fwPending \subseteq Addrs /\ rules \subseteq Addrs
         /\ worker \in [at : WorkerAts, ips : SUBSET Addrs] /\ actor \in [Actors -> Tails] /\ ticker \in Tails
         /\ ops \in 0..MaxOps /\ raced \subseteq Addrs
         /\ \A p \in Actors : actor[p] \in Tails /\ actor[p].ips \subseteq Addrs
         /\ ticker.ips \subseteq Addrs /\ worker.ips \subseteq Addrs
BY DEF ListInv, TypeOK, ListOK, WorkerAts, Tails

\* The Boolean ones.
LEMMA BlockFlags == ASSUME ListInv PROVE fwOn \in BOOLEAN /\ dryRun \in BOOLEAN /\ lost \in BOOLEAN
BY DEF ListInv, TypeOK

\* A step of the list under the lock.  What is lifted is owed by the one that
\* lifted it, and nobody drops a removal he owes.
LEMMA ListChanged ==
  ASSUME ListInv, ListOK(list'), view' = Enforced(list'), UNCHANGED <<firewall, ghosts>>,
         \A a \in Addrs : a \in list'.fw /\ a \in Enforced(list') => a \in list.fw /\ a \in Enforced(list),
         safe' \subseteq Addrs, fwOn' \in BOOLEAN, dryRun' \in BOOLEAN, ops' \in 0..MaxOps,
         actor' \in [Actors -> Tails], ticker' \in Tails,
         \A p \in Actors : actor[p].at = "remove" => actor'[p] = actor[p],
         ticker.at = "remove" => ticker' = ticker,
         \A a \in list.blocked \ list'.blocked :
             \/ \E p \in Actors : actor'[p].at = "remove" /\ a \in actor'[p].ips
             \/ ticker'.at = "remove" /\ a \in ticker'.ips
  PROVE  ListInv'
<1>1. /\ UNCHANGED <<queue, fwPending, worker, rules, raced, lost>>
      /\ queue \in Seq(FwOps) /\ Len(queue) <= QueueCap /\ fwPending \subseteq Addrs /\ rules \subseteq Addrs
      /\ worker \in [at : WorkerAts, ips : SUBSET Addrs] /\ raced \subseteq Addrs /\ worker.ips \subseteq Addrs
  BY BlockTypes DEF firewall, ghosts
<1>2. lost \in BOOLEAN
  BY BlockFlags
<1>3. view' \subseteq Addrs
  BY ListFields DEF Enforced
<1>4. TypeOK'
  BY <1>1, <1>2, <1>3 DEF TypeOK, ListOK, WorkerAts
<1>5. ViewIsEnforced'
  BY DEF ViewIsEnforced, Enforced
<1>6. WorkerOK'
  <2>1. WorkerOK
    BY DEF ListInv
  <2>2. worker.at = "unlock" => worker.ips \cap list'.fw \cap Enforced(list') = {}
    BY <1>1, <2>1 DEF WorkerOK
  <2>3. Enforced(list)' = Enforced(list')
    BY DEF Enforced
  <2> QED
    BY <1>1, <2>1, <2>2, <2>3 DEF WorkerOK
<1>7. FlaggedBlockHasRule'
  <2>1. ~lost => list.fw \cap Enforced(list) \subseteq rules
    BY DEF ListInv, FlaggedBlockHasRule
  <2>2. list'.fw \subseteq Addrs /\ Enforced(list') = list'.blocked \ list'.dry
    BY ListFields DEF Enforced
  <2>3. ~lost => list'.fw \cap Enforced(list') \subseteq rules
    BY <2>1, <2>2
  <2> QED
    BY <1>1, <2>3 DEF FlaggedBlockHasRule, Enforced
<1>8. RemovalsOwed'
  <2> SUFFICES ASSUME ~lost, NEW a \in Addrs \ (list'.blocked \cup raced), Installing(a) PROVE RemovalOwed(a)'
    BY <1>1 DEF RemovalsOwed, Installing
  <2>1. CASE a \in list.blocked
    BY <2>1 DEF RemovalOwed
  <2>2. CASE a \notin list.blocked
    <3>1. RemovalOwed(a)
      BY <2>2 DEF ListInv, RemovalsOwed
    <3> QED
      BY <1>1, <3>1 DEF RemovalOwed
  <2> QED
    BY <2>1, <2>2
<1> QED
  BY <1>4, <1>5, <1>6, <1>7, <1>8 DEF ListInv

\* A step of the queue: no add is sent for a lifted block without being
\* remembered as a race, and no removal is forgotten.
LEMMA QueueChanged ==
  ASSUME ListInv, UNCHANGED <<guarded, worker, rules, lost, config, ops>>,
         queue' \in Seq(FwOps), Len(queue') <= QueueCap, fwPending' \subseteq Addrs,
         raced \subseteq raced', raced' \subseteq Addrs, actor' \in [Actors -> Tails], ticker' \in Tails,
         \A a \in Addrs \ (list.blocked \cup raced') :
             (AddQueued(queue', a) => AddQueued(queue, a)) /\ (RemovalOwed(a) => RemovalOwed(a)')
  PROVE  ListInv'
<1>1. /\ UNCHANGED <<list, view, safe, fwOn, dryRun>>
  BY DEF guarded, config
<1>2. TypeOK'
  BY <1>1 DEF TypeOK, ListInv
<1>3. ViewIsEnforced' /\ WorkerOK' /\ FlaggedBlockHasRule'
  BY <1>1 DEF ListInv, ViewIsEnforced, WorkerOK, FlaggedBlockHasRule, Enforced
<1>4. RemovalsOwed'
  <2> SUFFICES ASSUME ~lost, NEW a \in Addrs \ (list.blocked \cup raced'), Installing(a)' PROVE RemovalOwed(a)'
    BY <1>1 DEF RemovalsOwed
  <2>1. Installing(a)
    BY DEF Installing
  <2>2. RemovalOwed(a)
    BY <2>1 DEF ListInv, RemovalsOwed
  <2> QED
    BY <2>2
<1> QED
  BY <1>2, <1>3, <1>4 DEF ListInv

\* A removal queued, or parked: it is owed, and the others stay so.
LEMMA RemovalQueued ==
  ASSUME ListInv, NEW a \in Addrs, QueueRemove(a), NEW b \in Addrs
  PROVE  /\ queue' \in Seq(FwOps) /\ Len(queue') <= QueueCap /\ fwPending' \subseteq Addrs
         /\ fwPending \subseteq fwPending'
         /\ AddQueued(queue', b) => AddQueued(queue, b)
         /\ RemoveQueued(queue, b) => RemoveQueued(queue', b)
         /\ a \in fwPending' \/ RemoveQueued(queue', a)
<1>1. queue \in Seq(FwOps) /\ Len(queue) <= QueueCap /\ fwPending \subseteq Addrs /\ QueueCap \in Nat
      /\ Len(queue) \in Nat
  BY BlockTypes, BoundsAssumption
<1>2. RemoveOp(a) \in FwOps /\ RemoveOp(a) # AddOp(b)
  BY OpsDiffer DEF FwOps, RemoveOp
<1>3. CASE Len(queue) < QueueCap /\ queue' = Append(queue, RemoveOp(a)) /\ fwPending' = fwPending
  <2>1. queue' \in Seq(FwOps) /\ Len(queue') = Len(queue) + 1
    BY <1>1, <1>2, <1>3
  <2>2. Len(queue') <= QueueCap
    BY <1>1, <1>3, <2>1
  <2>3. /\ AddQueued(queue', b) => AddQueued(queue, b)
        /\ RemoveQueued(queue, b) => RemoveQueued(queue', b)
        /\ RemoveQueued(queue', a)
    BY <1>1, <1>2, <1>3, OpAppended
  <2> QED
    BY <1>1, <1>3, <2>1, <2>2, <2>3
<1>4. CASE queue' = queue /\ fwPending' = fwPending \cup {a}
  BY <1>1, <1>4
<1> QED
  BY <1>3, <1>4 DEF QueueRemove, RemoveOp
\* What one actor has to do is replaced.
LEMMA TailSet ==
  ASSUME ListInv, NEW p \in Actors, NEW x \in Tails, actor' = [actor EXCEPT ![p] = x]
  PROVE  actor' \in [Actors -> Tails] /\ actor'[p] = x /\ \A q \in Actors : q # p => actor'[q] = actor[q]
BY BlockTypes

\* An operation starts.
LEMMA Started ==
  ASSUME ListInv, NEW p \in Actors, NEW x \in Tails, Start(p, x)
  PROVE  /\ ops' \in 0..MaxOps /\ actor[p].at = "idle" /\ actor' \in [Actors -> Tails] /\ actor'[p] = x
         /\ \A q \in Actors : q # p => actor'[q] = actor[q]
<1>1. actor[p] = Idle /\ ops < MaxOps /\ ops' = ops + 1 /\ actor' = [actor EXCEPT ![p] = x]
  BY DEF Start
<1>2. ops' \in 0..MaxOps
  BY <1>1, BlockTypes, BoundsAssumption
<1>3. actor' \in [Actors -> Tails] /\ actor'[p] = x /\ \A q \in Actors : q # p => actor'[q] = actor[q]
  BY <1>1, TailSet
<1>4. actor[p].at = "idle"
  BY <1>1 DEF Idle
<1> QED
  BY <1>2, <1>3, <1>4

\* A step that leaves the list alone.
LEMMA ListUnchanged ==
  ASSUME ListInv, UNCHANGED guarded
  PROVE  /\ ListOK(list') /\ view' = Enforced(list') /\ list'.blocked = list.blocked
         /\ \A a \in Addrs : a \in list'.fw /\ a \in Enforced(list') => a \in list.fw /\ a \in Enforced(list)
BY BlockTypes DEF guarded, ListInv, ViewIsEnforced

\* The configuration has its types when a step leaves it alone.
LEMMA ConfigUnchanged ==
  ASSUME ListInv, UNCHANGED config
  PROVE  safe' \subseteq Addrs /\ fwOn' \in BOOLEAN /\ dryRun' \in BOOLEAN
<1>1. safe' \subseteq Addrs
  BY BlockTypes DEF config
<1>2. fwOn' = fwOn /\ dryRun' = dryRun /\ fwOn \in BOOLEAN /\ dryRun \in BOOLEAN
  BY BlockFlags DEF config
<1> QED
  BY <1>1, <1>2

\* Requests that leave the list alone: trip, a new whitelist, firewall_sync.
LEMMA QuietRequestInv ==
  ASSUME ListInv, NEW p \in Actors,
         \/ \E a \in Addrs : Trip(p, a)
         \/ \E nets \in SUBSET Addrs : SetWhitelist(p, nets)
         \/ \E on \in BOOLEAN : SetFirewallSync(p, on)
  PROVE  ListInv'
<1>1. PICK x \in Tails : Start(p, x) /\ UNCHANGED <<guarded, firewall, ticker, ghosts>>
                         /\ safe' \in SUBSET Addrs /\ fwOn' \in BOOLEAN /\ dryRun' \in BOOLEAN
  <2>1. CASE \E a \in Addrs : Trip(p, a)
    <3>1. PICK a \in Addrs : Trip(p, a)
      BY <2>1
    <3>2. [at |-> "apply", ips |-> {a}] \in Tails
      BY DEF Tails
    <3>3. UNCHANGED config
      BY <3>1 DEF Trip
    <3>4. safe' \subseteq Addrs /\ fwOn' \in BOOLEAN /\ dryRun' \in BOOLEAN
      BY <3>3, ConfigUnchanged
    <3>5. Start(p, [at |-> "apply", ips |-> {a}]) /\ UNCHANGED <<guarded, firewall, ticker, ghosts>>
      BY <3>1 DEF Trip
    <3> QED
      BY <3>2, <3>4, <3>5
  <2>2. CASE \E nets \in SUBSET Addrs : SetWhitelist(p, nets)
    <3>1. [at |-> "lift", ips |-> {}] \in Tails
      BY DEF Tails
    <3>2. fwOn' = fwOn /\ dryRun' = dryRun /\ safe' \in SUBSET Addrs
      BY <2>2 DEF SetWhitelist
    <3>3. Start(p, [at |-> "lift", ips |-> {}]) /\ UNCHANGED <<guarded, firewall, ticker, ghosts>>
      BY <2>2 DEF SetWhitelist
    <3> QED
      BY <3>1, <3>2, <3>3, BlockFlags
  <2>3. CASE \E on \in BOOLEAN : SetFirewallSync(p, on)
    <3>1. Idle \in Tails
      BY DEF Tails, Idle
    <3>2. fwOn' \in BOOLEAN /\ dryRun' = dryRun
      BY <2>3 DEF SetFirewallSync
    <3>3. safe' \in SUBSET Addrs
      BY <2>3, BlockTypes DEF SetFirewallSync
    <3>4. Start(p, Idle) /\ UNCHANGED <<guarded, firewall, ticker, ghosts>>
      BY <2>3 DEF SetFirewallSync
    <3> QED
      BY <3>1, <3>2, <3>3, <3>4, BlockFlags
  <2> QED
    BY <2>1, <2>2, <2>3
<1>2. /\ ops' \in 0..MaxOps /\ actor[p].at = "idle" /\ actor' \in [Actors -> Tails] /\ actor'[p] = x
      /\ \A q \in Actors : q # p => actor'[q] = actor[q]
  BY <1>1, Started
<1>3. ticker' = ticker /\ ticker' \in Tails /\ UNCHANGED <<firewall, ghosts>>
  BY <1>1, BlockTypes
<1>4. /\ ListOK(list') /\ view' = Enforced(list') /\ list'.blocked = list.blocked
      /\ \A a \in Addrs : a \in list'.fw /\ a \in Enforced(list') => a \in list.fw /\ a \in Enforced(list)
  BY <1>1, ListUnchanged
<1>5. \A q \in Actors : actor[q].at = "remove" => actor'[q] = actor[q]
  BY <1>2
<1> QED
  BY <1>1, <1>2, <1>3, <1>4, <1>5, ListChanged

\* The view after the critical section, and the flags that stay.
LEMMA InstallFacts ==
  ASSUME ListInv, NEW a \in Addrs, NEW dry \in BOOLEAN, Install(a, dry)
  PROVE  /\ ListOK(list') /\ view' = Enforced(list') /\ list.blocked \subseteq list'.blocked
         /\ \A b \in Addrs : b \in list'.fw /\ b \in Enforced(list') => b \in list.fw /\ b \in Enforced(list)
<1>1. ListOK(list) /\ view = list.blocked \ list.dry
  BY BlockTypes DEF ListInv, ViewIsEnforced, Enforced
<1>2. /\ ListOK(list') /\ list'.blocked = list.blocked \cup {a} /\ list'.fw = list.fw \ {a}
      /\ dry => list'.dry = list.dry \cup {a} /\ view' = view \ {a}
      /\ ~dry => list'.dry = list.dry \ {a} /\ view' = view \cup {a}
  BY <1>1, Installed
<1>3. view' = list'.blocked \ list'.dry
  BY <1>1, <1>2
<1>4. \A b \in Addrs : b \in list'.fw /\ b \in Enforced(list') => b \in list.fw /\ b \in Enforced(list)
  BY <1>2 DEF Enforced
<1> QED
  BY <1>2, <1>3, <1>4 DEF Enforced

\* Block.
LEMMA BlockInv == ASSUME ListInv, NEW p \in Actors, NEW a \in Addrs, Block(p, a) PROVE ListInv'
<1> DEFINE x == [at |-> "add", ips |-> {a}]
<1>1. x \in Tails /\ Start(p, x) /\ Install(a, FALSE) /\ UNCHANGED <<firewall, config, ticker, ghosts>>
  BY DEF Block, Tails
<1> HIDE DEF x
<1>2. /\ ops' \in 0..MaxOps /\ actor[p].at = "idle" /\ actor' \in [Actors -> Tails] /\ actor'[p] = x
      /\ \A q \in Actors : q # p => actor'[q] = actor[q]
  BY <1>1, Started
<1>3. /\ ListOK(list') /\ view' = Enforced(list') /\ list.blocked \subseteq list'.blocked
      /\ \A b \in Addrs : b \in list'.fw /\ b \in Enforced(list') => b \in list.fw /\ b \in Enforced(list)
  BY <1>1, InstallFacts
<1>4. safe' \subseteq Addrs /\ fwOn' \in BOOLEAN /\ dryRun' \in BOOLEAN
  BY <1>1, ConfigUnchanged
<1>5. ticker' = ticker /\ ticker' \in Tails /\ UNCHANGED <<firewall, ghosts>>
  BY <1>1, BlockTypes
<1>6. \A q \in Actors : actor[q].at = "remove" => actor'[q] = actor[q]
  BY <1>2
<1> QED
  BY <1>2, <1>3, <1>4, <1>5, <1>6, ListChanged

\* apply.
LEMMA ApplyInv == ASSUME ListInv, NEW p \in Actors, Apply(p) PROVE ListInv'
<1>1. PICK a \in actor[p].ips : /\ actor[p].at = "apply" /\ Install(a, dryRun)
                                /\ actor' = [actor EXCEPT ![p].at = IF dryRun THEN "save" ELSE "add"]
                                /\ UNCHANGED <<firewall, config, ticker, ops, ghosts>>
  BY DEF Apply
<1> DEFINE x == [actor[p] EXCEPT !.at = IF dryRun THEN "save" ELSE "add"]
<1>2. actor[p] \in Tails /\ actor \in [Actors -> Tails] /\ a \in Addrs
  BY <1>1, BlockTypes
<1>3. x \in Tails /\ actor' = [actor EXCEPT ![p] = x]
  BY <1>1, <1>2 DEF Tails
<1> HIDE DEF x
<1>4. actor' \in [Actors -> Tails] /\ \A q \in Actors : q # p => actor'[q] = actor[q]
  BY <1>3, TailSet
<1>5. dryRun \in BOOLEAN
  BY BlockFlags
<1>6. /\ ListOK(list') /\ view' = Enforced(list') /\ list.blocked \subseteq list'.blocked
      /\ \A b \in Addrs : b \in list'.fw /\ b \in Enforced(list') => b \in list.fw /\ b \in Enforced(list)
  BY <1>1, <1>2, <1>5, InstallFacts
<1>7. safe' \subseteq Addrs /\ fwOn' \in BOOLEAN /\ dryRun' \in BOOLEAN
  BY <1>1, ConfigUnchanged
<1>8. ticker' = ticker /\ ticker' \in Tails /\ UNCHANGED <<firewall, ghosts>> /\ ops' \in 0..MaxOps
  BY <1>1, BlockTypes
<1>9. \A q \in Actors : actor[q].at = "remove" => actor'[q] = actor[q]
  BY <1>1, <1>4
<1> QED
  BY <1>4, <1>6, <1>7, <1>8, <1>9, ListChanged
\* Entries lifted by an actor or by the expiry goroutine: the view follows.
LEMMA LiftFacts ==
  ASSUME ListInv, NEW s, ListOK(list'), list'.blocked = list.blocked \ s, list'.dry = list.dry \ s,
         list'.fw = list.fw \ s, view' = view \ s
  PROVE  /\ view' = Enforced(list') /\ list.blocked \ list'.blocked \subseteq s
         /\ \A b \in Addrs : b \in list'.fw /\ b \in Enforced(list') => b \in list.fw /\ b \in Enforced(list)
BY DEF ListInv, ViewIsEnforced, Enforced

\* Unblock.
LEMMA UnblockInv == ASSUME ListInv, NEW p \in Actors, NEW a \in Addrs, Unblock(p, a) PROVE ListInv'
<1> DEFINE x == IF a \in list.blocked THEN [at |-> "remove", ips |-> {a}] ELSE Idle
<1>1. /\ list' = DelEntries([list EXCEPT !.history = @ \ {a}], {a}) /\ view' = view \ {a}
      /\ Start(p, x) /\ UNCHANGED <<firewall, config, ticker, ghosts>>
  BY DEF Unblock
<1>2. x \in Tails /\ (a \in list.blocked => x.at = "remove" /\ x.ips = {a})
  BY DEF Tails, Idle
<1> HIDE DEF x
<1>3. /\ ops' \in 0..MaxOps /\ actor[p].at = "idle" /\ actor' \in [Actors -> Tails] /\ actor'[p] = x
      /\ \A q \in Actors : q # p => actor'[q] = actor[q]
  BY <1>1, <1>2, Started
<1>4. /\ ListOK(list') /\ list'.blocked = list.blocked \ {a} /\ list'.dry = list.dry \ {a}
      /\ list'.fw = list.fw \ {a}
  BY <1>1, BlockTypes, EntriesForgotten
<1>5. /\ view' = Enforced(list') /\ list.blocked \ list'.blocked \subseteq {a}
      /\ \A b \in Addrs : b \in list'.fw /\ b \in Enforced(list') => b \in list.fw /\ b \in Enforced(list)
  BY <1>1, <1>4, LiftFacts
<1>6. safe' \subseteq Addrs /\ fwOn' \in BOOLEAN /\ dryRun' \in BOOLEAN
  BY <1>1, ConfigUnchanged
<1>7. ticker' = ticker /\ ticker' \in Tails /\ UNCHANGED <<firewall, ghosts>>
  BY <1>1, BlockTypes
<1>8. \A q \in Actors : actor[q].at = "remove" => actor'[q] = actor[q]
  BY <1>3
<1>9. \A b \in list.blocked \ list'.blocked : \E q \in Actors : actor'[q].at = "remove" /\ b \in actor'[q].ips
  BY <1>2, <1>3, <1>5
<1> QED
  BY <1>3, <1>4, <1>5, <1>6, <1>7, <1>8, <1>9, ListChanged

\* The blocks inside a new whitelist are lifted.
LEMMA LiftSafeBlocksInv == ASSUME ListInv, NEW p \in Actors, LiftSafeBlocks(p) PROVE ListInv'
<1> DEFINE lifted == list.blocked \cap safe
           x == IF lifted = {} THEN Idle ELSE [at |-> "remove", ips |-> lifted]
<1>1. /\ actor[p].at = "lift" /\ list' = DelEntries([list EXCEPT !.history = @ \ lifted], lifted)
      /\ view' = view \ lifted /\ actor' = [actor EXCEPT ![p] = x]
      /\ UNCHANGED <<firewall, config, ticker, ops, ghosts>>
  BY DEF LiftSafeBlocks
<1>2. lifted \subseteq Addrs
  BY BlockTypes
<1> HIDE DEF lifted
<1>3. x \in Tails /\ (lifted # {} => x.at = "remove" /\ x.ips = lifted)
  BY <1>2 DEF Tails, Idle
<1> HIDE DEF x
<1>4. actor' \in [Actors -> Tails] /\ actor'[p] = x /\ \A q \in Actors : q # p => actor'[q] = actor[q]
  BY <1>1, <1>3, TailSet
<1>5. /\ ListOK(list') /\ list'.blocked = list.blocked \ lifted /\ list'.dry = list.dry \ lifted
      /\ list'.fw = list.fw \ lifted
  BY <1>1, BlockTypes, EntriesForgotten
<1>6. /\ view' = Enforced(list') /\ list.blocked \ list'.blocked \subseteq lifted
      /\ \A b \in Addrs : b \in list'.fw /\ b \in Enforced(list') => b \in list.fw /\ b \in Enforced(list)
  BY <1>1, <1>5, LiftFacts
<1>7. safe' \subseteq Addrs /\ fwOn' \in BOOLEAN /\ dryRun' \in BOOLEAN
  BY <1>1, ConfigUnchanged
<1>8. ticker' = ticker /\ ticker' \in Tails /\ UNCHANGED <<firewall, ghosts>> /\ ops' \in 0..MaxOps
  BY <1>1, BlockTypes
<1>9. \A q \in Actors : actor[q].at = "remove" => actor'[q] = actor[q]
  BY <1>1, <1>4
<1>10. \A b \in list.blocked \ list'.blocked : \E q \in Actors : actor'[q].at = "remove" /\ b \in actor'[q].ips
  BY <1>3, <1>4, <1>6
<1> QED
  BY <1>4, <1>5, <1>6, <1>7, <1>8, <1>9, <1>10, ListChanged

\* The actor's last step.
LEMMA RequestSaveInv == ASSUME ListInv, NEW p \in Actors, RequestSave(p) PROVE ListInv'
<1>1. /\ actor[p].at = "save" /\ actor' = [actor EXCEPT ![p] = Idle]
      /\ UNCHANGED <<guarded, firewall, config, ticker, ops, ghosts>> /\ Idle \in Tails
  BY DEF RequestSave, Tails, Idle
<1>2. actor' \in [Actors -> Tails] /\ \A q \in Actors : q # p => actor'[q] = actor[q]
  BY <1>1, TailSet
<1>3. /\ ListOK(list') /\ view' = Enforced(list') /\ list'.blocked = list.blocked
      /\ \A a \in Addrs : a \in list'.fw /\ a \in Enforced(list') => a \in list.fw /\ a \in Enforced(list)
  BY <1>1, ListUnchanged
<1>4. safe' \subseteq Addrs /\ fwOn' \in BOOLEAN /\ dryRun' \in BOOLEAN
  BY <1>1, ConfigUnchanged
<1>5. ticker' = ticker /\ ticker' \in Tails /\ UNCHANGED <<firewall, ghosts>> /\ ops' \in 0..MaxOps
  BY <1>1, BlockTypes
<1>6. \A q \in Actors : actor[q].at = "remove" => actor'[q] = actor[q]
  BY <1>1, <1>2
<1> QED
  BY <1>2, <1>3, <1>4, <1>5, <1>6, ListChanged

\* expire lifts what lapsed, and owes the removals.
LEMMA ExpireInv == ASSUME ListInv, Expire PROVE ListInv'
<1> DEFINE s == list.lapsed
           x == [at |-> IF s = {} THEN "retry" ELSE "remove", ips |-> s]
<1>1. /\ ticker = Idle /\ list' = DelEntries(list, s) /\ view' = view \ s /\ ticker' = x
      /\ UNCHANGED <<firewall, config, actor, ops, ghosts>>
  BY DEF Expire
<1>2. s \subseteq Addrs
  BY BlockTypes, ListFields
<1> HIDE DEF s
<1>3. x \in Tails /\ (s # {} => x.at = "remove" /\ x.ips = s)
  BY <1>2 DEF Tails
<1> HIDE DEF x
<1>4. /\ ListOK(list') /\ list'.blocked = list.blocked \ s /\ list'.dry = list.dry \ s
      /\ list'.fw = list.fw \ s
  BY <1>1, BlockTypes, EntriesDeleted
<1>5. /\ view' = Enforced(list') /\ list.blocked \ list'.blocked \subseteq s
      /\ \A b \in Addrs : b \in list'.fw /\ b \in Enforced(list') => b \in list.fw /\ b \in Enforced(list)
  BY <1>1, <1>4, LiftFacts
<1>6. safe' \subseteq Addrs /\ fwOn' \in BOOLEAN /\ dryRun' \in BOOLEAN
  BY <1>1, ConfigUnchanged
<1>7. actor' = actor /\ actor' \in [Actors -> Tails] /\ UNCHANGED <<firewall, ghosts>> /\ ops' \in 0..MaxOps
  BY <1>1, BlockTypes
<1>8. ticker.at # "remove"
  BY <1>1 DEF Idle
<1>9. \A b \in list.blocked \ list'.blocked : ticker'.at = "remove" /\ b \in ticker'.ips
  BY <1>1, <1>3, <1>5
<1>10. ticker' \in Tails
  BY <1>1, <1>3
<1> QED
  BY <1>4, <1>5, <1>6, <1>7, <1>8, <1>9, <1>10, ListChanged

\* A block lapses.
LEMMA LapseInv == ASSUME ListInv, NEW a \in Addrs, Lapse(a) PROVE ListInv'
<1> DEFINE x == [list EXCEPT !.lapsed = list.lapsed \cup {a}]
<1>1. /\ a \in list.blocked /\ list' = x /\ UNCHANGED <<view, firewall, config, actor, ticker, ops, ghosts>>
  BY DEF Lapse
<1>2. list \in ListType /\ ListOK(list)
  BY BlockTypes DEF ListOK
<1>3. /\ x \in ListType /\ x.blocked = list.blocked /\ x.dry = list.dry /\ x.fw = list.fw
      /\ x.lapsed = list.lapsed \cup {a} /\ x.history = list.history
  BY <1>2 DEF ListType
<1> HIDE DEF x
<1>4. ListOK(x)
  BY <1>1, <1>2, <1>3, ListFields, ListOKIntro
<1>5. /\ view' = Enforced(list')
      /\ \A b \in Addrs : b \in list'.fw /\ b \in Enforced(list') => b \in list.fw /\ b \in Enforced(list)
  BY <1>1, <1>3 DEF ListInv, ViewIsEnforced, Enforced
<1>6. safe' \subseteq Addrs /\ fwOn' \in BOOLEAN /\ dryRun' \in BOOLEAN
  BY <1>1, ConfigUnchanged
<1>7. /\ actor' = actor /\ actor' \in [Actors -> Tails] /\ UNCHANGED <<firewall, ghosts>> /\ ops' \in 0..MaxOps
      /\ ticker' = ticker /\ ticker' \in Tails
  BY <1>1, BlockTypes
<1> QED
  BY <1>1, <1>3, <1>4, <1>5, <1>6, <1>7, ListChanged
\* The add that follows a block, sent after the unlock.
LEMMA QueueAddInv == ASSUME ListInv, NEW p \in Actors, QueueAdd(p) PROVE ListInv'
<1>1. PICK a \in actor[p].ips :
        /\ actor[p].at = "add"
        /\ queue' = IF fwOn /\ Len(queue) < QueueCap THEN Append(queue, AddOp(a)) ELSE queue
        /\ raced' = IF a \in list.blocked THEN raced ELSE raced \cup {a}
        /\ actor' = [actor EXCEPT ![p].at = "save"]
        /\ UNCHANGED <<guarded, fwPending, worker, rules, config, ticker, ops, lost>>
  BY DEF QueueAdd, AddOp
<1> DEFINE x == [actor[p] EXCEPT !.at = "save"]
<1>2. /\ actor[p] \in Tails /\ a \in Addrs /\ queue \in Seq(FwOps) /\ Len(queue) <= QueueCap /\ QueueCap \in Nat
      /\ fwPending \subseteq Addrs /\ raced \subseteq Addrs /\ ticker \in Tails /\ Len(queue) \in Nat
  BY <1>1, BlockTypes, BoundsAssumption
<1>3. x \in Tails /\ actor' = [actor EXCEPT ![p] = x] /\ x.at = "save"
  BY <1>1, <1>2 DEF Tails
<1> HIDE DEF x
<1>4. actor' \in [Actors -> Tails] /\ actor'[p] = x /\ \A q \in Actors : q # p => actor'[q] = actor[q]
  BY <1>3, TailSet
<1>5. AddOp(a) \in FwOps
  BY <1>2 DEF FwOps, AddOp
<1>6. queue' = queue \/ (Len(queue) < QueueCap /\ queue' = Append(queue, AddOp(a)))
  BY <1>1
<1>7. queue' \in Seq(FwOps) /\ Len(queue') <= QueueCap
  BY <1>2, <1>5, <1>6
<1>8. raced \subseteq raced' /\ raced' \subseteq Addrs /\ (a \in list.blocked \/ a \in raced')
  BY <1>1, <1>2
<1>9. ASSUME NEW b \in Addrs \ (list.blocked \cup raced')
      PROVE  (AddQueued(queue', b) => AddQueued(queue, b)) /\ (RemovalOwed(b) => RemovalOwed(b)')
  <2>1. b # a /\ AddOp(a) # AddOp(b)
    BY <1>8, OpsDiffer
  <2>2. /\ AddQueued(queue', b) => AddQueued(queue, b)
        /\ RemoveQueued(queue, b) => RemoveQueued(queue', b)
    BY <1>2, <1>5, <1>6, <2>1, OpAppended
  <2>3. ASSUME NEW q \in Actors, actor[q].at = "remove", b \in actor[q].ips
        PROVE  actor'[q].at = "remove" /\ b \in actor'[q].ips
    BY <1>1, <1>4, <2>3
  <2> QED
    BY <1>1, <2>2, <2>3 DEF RemovalOwed
<1>10. fwPending' \subseteq Addrs /\ ticker' \in Tails /\ UNCHANGED <<guarded, worker, rules, lost, config, ops>>
  BY <1>1, <1>2
<1> QED
  BY <1>4, <1>7, <1>8, <1>9, <1>10, QueueChanged

\* A removal that an actor owes goes to the queue or is parked.
LEMMA ActorRemoveInv == ASSUME ListInv, NEW p \in Actors, ActorRemove(p) PROVE ListInv'
<1>1. PICK a \in actor[p].ips :
        /\ actor[p].at = "remove" /\ QueueRemove(a)
        /\ actor' = [actor EXCEPT ![p] = [at  |-> IF actor[p].ips = {a} THEN "save" ELSE "remove",
                                          ips |-> actor[p].ips \ {a}]]
        /\ UNCHANGED <<guarded, worker, rules, config, ticker, ops, ghosts>>
  BY BlockTypes DEF ActorRemove
<1> DEFINE x == [at |-> IF actor[p].ips = {a} THEN "save" ELSE "remove", ips |-> actor[p].ips \ {a}]
<1>2. /\ actor[p].ips \subseteq Addrs /\ a \in Addrs /\ raced \subseteq Addrs /\ ticker \in Tails
  BY <1>1, BlockTypes
<1>3. x \in Tails /\ x.ips = actor[p].ips \ {a} /\ (actor[p].ips # {a} => x.at = "remove")
  BY <1>2 DEF Tails
<1>4. actor' = [actor EXCEPT ![p] = x]
  BY <1>1
<1> HIDE DEF x
<1>5. actor' \in [Actors -> Tails] /\ actor'[p] = x /\ \A q \in Actors : q # p => actor'[q] = actor[q]
  BY <1>3, <1>4, TailSet
<1>6. ASSUME NEW b \in Addrs
      PROVE  (AddQueued(queue', b) => AddQueued(queue, b)) /\ (RemovalOwed(b) => RemovalOwed(b)')
  <2>1. /\ fwPending \subseteq fwPending'
        /\ AddQueued(queue', b) => AddQueued(queue, b)
        /\ RemoveQueued(queue, b) => RemoveQueued(queue', b)
        /\ a \in fwPending' \/ RemoveQueued(queue', a)
    BY <1>1, <1>2, RemovalQueued
  <2>2. CASE b = a
    BY <2>1, <2>2 DEF RemovalOwed
  <2>3. CASE b # a
    <3>1. ASSUME NEW q \in Actors, actor[q].at = "remove", b \in actor[q].ips
          PROVE  actor'[q].at = "remove" /\ b \in actor'[q].ips
      BY <1>3, <1>5, <2>3, <3>1
    <3> QED
      BY <1>1, <2>1, <3>1 DEF RemovalOwed
  <2> QED
    BY <2>1, <2>2, <2>3
<1>7. queue' \in Seq(FwOps) /\ Len(queue') <= QueueCap /\ fwPending' \subseteq Addrs
  BY <1>1, <1>2, RemovalQueued
<1>8. /\ raced \subseteq raced' /\ raced' \subseteq Addrs /\ ticker' \in Tails
      /\ UNCHANGED <<guarded, worker, rules, lost, config, ops>>
  BY <1>1, <1>2 DEF ghosts
<1> QED
  BY <1>5, <1>6, <1>7, <1>8, QueueChanged

\* The same for the expiry goroutine.
LEMMA ExpireRemoveInv == ASSUME ListInv, ExpireRemove PROVE ListInv'
<1>1. PICK a \in ticker.ips :
        /\ ticker.at = "remove" /\ QueueRemove(a)
        /\ ticker' = [at  |-> IF ticker.ips = {a} THEN "save" ELSE "remove", ips |-> ticker.ips \ {a}]
        /\ UNCHANGED <<guarded, worker, rules, config, actor, ops, ghosts>>
  BY DEF ExpireRemove
<1>2. /\ ticker.ips \subseteq Addrs /\ a \in Addrs /\ raced \subseteq Addrs /\ actor \in [Actors -> Tails]
  BY <1>1, BlockTypes
<1>3. ticker' \in Tails /\ ticker'.ips = ticker.ips \ {a} /\ (ticker.ips # {a} => ticker'.at = "remove")
  BY <1>1, <1>2 DEF Tails
<1>4. ASSUME NEW b \in Addrs
      PROVE  (AddQueued(queue', b) => AddQueued(queue, b)) /\ (RemovalOwed(b) => RemovalOwed(b)')
  <2>1. /\ fwPending \subseteq fwPending'
        /\ AddQueued(queue', b) => AddQueued(queue, b)
        /\ RemoveQueued(queue, b) => RemoveQueued(queue', b)
        /\ a \in fwPending' \/ RemoveQueued(queue', a)
    BY <1>1, <1>2, RemovalQueued
  <2>2. CASE b = a
    BY <2>1, <2>2 DEF RemovalOwed
  <2>3. CASE b # a
    BY <1>1, <1>3, <2>1, <2>3 DEF RemovalOwed
  <2> QED
    BY <2>1, <2>2, <2>3
<1>5. queue' \in Seq(FwOps) /\ Len(queue') <= QueueCap /\ fwPending' \subseteq Addrs
  BY <1>1, <1>2, RemovalQueued
<1>6. /\ raced \subseteq raced' /\ raced' \subseteq Addrs /\ actor' \in [Actors -> Tails]
      /\ UNCHANGED <<guarded, worker, rules, lost, config, ops>>
  BY <1>1, <1>2 DEF ghosts
<1> QED
  BY <1>3, <1>4, <1>5, <1>6, QueueChanged

\* The parked removals are sent, except those of addresses blocked again.
LEMMA ExpireRetryInv == ASSUME ListInv, ExpireRetry PROVE ListInv'
<1>1. /\ ticker.at \in {"retry", "save"} /\ RetryPendingRemoves /\ ticker' = Idle
      /\ UNCHANGED <<guarded, worker, rules, config, actor, ops, ghosts>>
  BY DEF ExpireRetry
<1>2. PICK visited \in SUBSET fwPending :
        /\ Cardinality(visited \ Enforced(list)) <= QueueCap - Len(queue)
        /\ \E order \in SetToSeqs(visited \ Enforced(list)) :
             queue' = queue \o [i \in DOMAIN order |-> RemoveOp(order[i])]
        /\ fwPending' = fwPending \ visited
  BY <1>1 DEF RetryPendingRemoves, RemoveOp
<1> DEFINE sent == visited \ Enforced(list)
<1>3. /\ queue \in Seq(FwOps) /\ Len(queue) \in Nat /\ QueueCap \in Nat /\ fwPending \subseteq Addrs
      /\ raced \subseteq Addrs /\ actor \in [Actors -> Tails] /\ IsFiniteSet(Addrs)
  BY BlockTypes, BoundsAssumption
<1>4. sent \subseteq Addrs
  BY <1>2, <1>3
<1>5. IsFiniteSet(sent)
  BY <1>3, <1>4, FS_Subset
<1>6. PICK order \in SetToSeqs(sent) : queue' = queue \o [i \in DOMAIN order |-> RemoveOp(order[i])]
  BY <1>2
<1>7. Cardinality(sent) <= QueueCap - Len(queue) /\ (\A b \in visited : b \in sent \/ b \in Enforced(list))
  BY <1>2
<1> HIDE DEF sent
<1> DEFINE n == Cardinality(sent)
<1>8. n \in Nat /\ order \in [1..n -> sent] /\ \A x \in sent : \E i \in 1..n : order[i] = x
  BY <1>5, <1>6, OrderListsSet
<1>9. order \in [1..n -> Addrs]
  BY <1>4, <1>8
<1> HIDE DEF n
<1> DEFINE s == [i \in DOMAIN order |-> RemoveOp(order[i])]
<1>10. ASSUME NEW b \in Addrs
       PROVE  /\ queue' \in Seq(FwOps) /\ Len(queue') = Len(queue) + n
              /\ AddQueued(queue', b) => AddQueued(queue, b)
              /\ RemoveQueued(queue, b) => RemoveQueued(queue', b)
              /\ (\E i \in 1..n : order[i] = b) => RemoveQueued(queue', b)
  <2>1. /\ s \in Seq(FwOps) /\ Len(s) = n /\ \A i \in 1..n : s[i] = RemoveOp(order[i])
    BY <1>8, <1>9 DEF FwOps, RemoveOp
  <2>2. queue' = queue \o s
    BY <1>6
  <2> HIDE DEF s
  <2>3. \A i \in 1..Len(s) : s[i] # AddOp(b)
    BY <2>1, OpsDiffer
  <2>4. /\ queue \o s \in Seq(FwOps) /\ Len(queue \o s) = Len(queue) + Len(s)
        /\ AddQueued(queue \o s, b) => AddQueued(queue, b)
        /\ RemoveQueued(queue, b) => RemoveQueued(queue \o s, b)
        /\ (\E i \in 1..Len(s) : s[i] = RemoveOp(b)) => RemoveQueued(queue \o s, b)
    BY <1>3, <2>1, <2>3, RemovalsSent
  <2> QED
    BY <2>1, <2>2, <2>4
<1>11. queue' \in Seq(FwOps) /\ Len(queue') <= QueueCap
  <2>1. CASE Addrs # {}
    <3>1. queue' \in Seq(FwOps) /\ Len(queue') = Len(queue) + n
      BY <1>10, <2>1
    <3> QED
      BY <1>3, <1>7, <1>8, <3>1 DEF n
  <2>2. CASE Addrs = {}
    <3>1. n = 0
      BY <1>4, <2>2, FS_EmptySet DEF n
    <3>2. order = <<>> /\ [i \in DOMAIN order |-> RemoveOp(order[i])] = <<>>
      BY <1>8, <3>1
    <3>3. queue' = queue
      BY <1>3, <1>6, <3>2
    <3> QED
      BY <3>3, BlockTypes
  <2> QED
    BY <2>1, <2>2
<1>12. ASSUME NEW b \in Addrs \ (list.blocked \cup raced')
       PROVE  (AddQueued(queue', b) => AddQueued(queue, b)) /\ (RemovalOwed(b) => RemovalOwed(b)')
  <2>1. /\ AddQueued(queue', b) => AddQueued(queue, b)
        /\ RemoveQueued(queue, b) => RemoveQueued(queue', b)
        /\ (\E i \in 1..n : order[i] = b) => RemoveQueued(queue', b)
    BY <1>10
  <2>2. b \in fwPending => b \in fwPending' \/ RemoveQueued(queue', b)
    <3>1. b \notin Enforced(list)
      BY DEF Enforced
    <3> QED
      BY <1>2, <1>7, <1>8, <2>1, <3>1
  <2> QED
    BY <1>1, <2>1, <2>2 DEF RemovalOwed
<1>13. fwPending' \subseteq Addrs /\ ticker' \in Tails
  BY <1>1, <1>2, <1>3 DEF Idle, Tails
<1>14. /\ raced \subseteq raced' /\ raced' \subseteq Addrs /\ actor' \in [Actors -> Tails]
       /\ UNCHANGED <<guarded, worker, rules, lost, config, ops>>
  BY <1>1, <1>3 DEF ghosts
<1> QED
  BY <1>11, <1>12, <1>13, <1>14, QueueChanged
\* A step of the firewall worker, which leaves the list or sets a flag in it.
LEMMA WorkerChanged ==
  ASSUME ListInv, UNCHANGED <<view, fwPending, config, actor, ticker, ops, raced>>,
         ListOK(list'), list'.blocked = list.blocked, list'.dry = list.dry,
         queue' \in Seq(FwOps), Len(queue') <= QueueCap, rules' \subseteq Addrs, lost' \in BOOLEAN,
         worker' \in [at : WorkerAts, ips : SUBSET Addrs],
         WorkerOK', FlaggedBlockHasRule', RemovalsOwed'
  PROVE  ListInv'
<1>1. TypeOK'
  <2>1. safe' \subseteq Addrs /\ fwOn' \in BOOLEAN /\ dryRun' \in BOOLEAN
    BY ConfigUnchanged
  <2>2. /\ view' \subseteq Addrs /\ fwPending' \subseteq Addrs /\ actor' \in [Actors -> Tails] /\ ticker' \in Tails
        /\ ops' \in 0..MaxOps /\ raced' \subseteq Addrs
    BY BlockTypes
  <2> QED
    BY <2>1, <2>2 DEF TypeOK, ListOK, WorkerAts
<1>2. ViewIsEnforced'
  BY DEF ListInv, ViewIsEnforced, Enforced
<1> QED
  BY <1>1, <1>2 DEF ListInv

\* The worker receives an operation: a removal, being the last word on its
\* address, is owed by the worker now.
LEMMA TakeOpInv == ASSUME ListInv, TakeOp PROVE ListInv'
<1> DEFINE h == Head(queue)
<1>1. /\ worker = Idle /\ queue # <<>>
      /\ worker' = [at  |-> IF h.op = "remove" THEN "check" ELSE "block", ips |-> {h.ip}]
      /\ queue' = Tail(queue)
      /\ UNCHANGED <<guarded, fwPending, rules, config, actor, ticker, ops, ghosts>>
  BY DEF TakeOp
<1>2. /\ queue \in Seq(FwOps) /\ Len(queue) <= QueueCap /\ QueueCap \in Nat /\ rules \subseteq Addrs
      /\ ListOK(list)
  BY BlockTypes, BoundsAssumption
<1>3. h \in FwOps /\ queue' \in Seq(FwOps) /\ Len(queue') = Len(queue) - 1 /\ Len(queue) \in Nat
  BY <1>1, <1>2
<1>4. h.ip \in Addrs
  BY <1>3 DEF FwOps
<1>5. /\ (h = AddOp(h.ip) /\ worker'.at = "block") \/ (h = RemoveOp(h.ip) /\ worker'.at = "check")
      /\ worker'.ips = {h.ip}
  BY <1>1, <1>3, OpForms
<1>6. worker' \in [at : WorkerAts, ips : SUBSET Addrs]
  BY <1>1, <1>4 DEF WorkerAts
<1>7. Len(queue') <= QueueCap
  BY <1>2, <1>3
<1>8. UNCHANGED <<view, list, fwPending, rules, config, actor, ticker, ops, raced, lost>>
  BY <1>1 DEF guarded, ghosts
<1>9. WorkerOK'
  BY <1>4, <1>5 DEF WorkerOK
<1>10. FlaggedBlockHasRule'
  BY <1>8 DEF ListInv, FlaggedBlockHasRule, Enforced
<1>11. RemovalsOwed'
  <2> SUFFICES ASSUME ~lost, NEW a \in Addrs \ (list.blocked \cup raced), Installing(a)' PROVE RemovalOwed(a)'
    BY <1>8 DEF RemovalsOwed
  <2>1. /\ AddQueued(queue', a) => AddQueued(queue, a)
        /\ AddQueued(queue, a) => AddQueued(queue', a) \/ h = AddOp(a)
        /\ RemoveQueued(queue, a) =>
             RemoveQueued(queue', a) \/ (h = RemoveOp(a) /\ ~AddQueued(queue', a))
    BY <1>1, <1>2, HeadTaken
  <2>2. AddOp(a).ip = a /\ RemoveOp(a).ip = a /\ AddOp(a) # RemoveOp(a)
    BY OpsDiffer DEF AddOp, RemoveOp
  <2>3. worker'.at = "block" /\ a \in worker'.ips => AddQueued(queue, a)
    <3> SUFFICES ASSUME worker'.at = "block", a \in worker'.ips PROVE AddQueued(queue, a)
      OBVIOUS
    <3>1. h = AddOp(a) /\ h = queue[1] /\ 1 \in 1..Len(queue)
      BY <1>1, <1>2, <1>5
    <3> QED
      BY <3>1 DEF AddQueued
  <2>4. Installing(a)
    BY <1>5, <1>8, <2>1, <2>3 DEF Installing
  <2>5. RemovalOwed(a)
    BY <2>4 DEF ListInv, RemovalsOwed
  <2>6. worker.at = "idle"
    BY <1>1 DEF Idle
  <2>7. h = RemoveOp(a) => worker'.at = "check" /\ a \in worker'.ips
    BY <1>5, <2>2, OpsDiffer
  <2> QED
    BY <1>8, <2>1, <2>5, <2>6, <2>7 DEF RemovalOwed
<1>12. lost' \in BOOLEAN
  BY <1>8, BlockFlags
<1> QED
  BY <1>2, <1>3, <1>6, <1>7, <1>8, <1>9, <1>10, <1>11, <1>12, WorkerChanged

\* The worker looks whether the address is blocked again.
LEMMA RuleWantedInv == ASSUME ListInv, RuleWanted PROVE ListInv'
<1>1. /\ worker.at = "check"
      /\ worker' = IF worker.ips \subseteq Enforced(list) THEN Idle ELSE [worker EXCEPT !.at = "unlock"]
      /\ UNCHANGED <<guarded, queue, fwPending, rules, config, actor, ticker, ops, ghosts>>
  BY DEF RuleWanted
<1>2. /\ queue \in Seq(FwOps) /\ Len(queue) <= QueueCap /\ rules \subseteq Addrs /\ ListOK(list)
      /\ worker \in [at : WorkerAts, ips : SUBSET Addrs]
  BY BlockTypes
<1>3. PICK a \in Addrs : worker.ips = {a}
  BY <1>1 DEF ListInv, WorkerOK
<1>4. /\ worker' \in [at : WorkerAts, ips : SUBSET Addrs]
      /\ \/ a \in Enforced(list) /\ worker'.at = "idle"
         \/ a \notin Enforced(list) /\ worker'.at = "unlock" /\ worker'.ips = {a}
  BY <1>1, <1>2, <1>3 DEF WorkerAts, Idle
<1>5. UNCHANGED <<view, list, queue, fwPending, rules, config, actor, ticker, ops, raced, lost>>
  BY <1>1 DEF guarded, ghosts
<1>6. WorkerOK'
  BY <1>4, <1>5 DEF WorkerOK, Enforced
<1>7. FlaggedBlockHasRule'
  BY <1>5 DEF ListInv, FlaggedBlockHasRule, Enforced
<1>8. RemovalsOwed'
  <2> SUFFICES ASSUME ~lost, NEW b \in Addrs \ (list.blocked \cup raced), Installing(b)' PROVE RemovalOwed(b)'
    BY <1>5 DEF RemovalsOwed
  <2>1. Installing(b)
    BY <1>4, <1>5 DEF Installing
  <2>2. RemovalOwed(b)
    BY <2>1 DEF ListInv, RemovalsOwed
  <2>3. b \notin Enforced(list)
    BY DEF Enforced
  <2>4. b \in worker.ips => worker'.at = "unlock" /\ b \in worker'.ips
    BY <1>3, <1>4, <2>3
  <2> QED
    BY <1>5, <2>2, <2>4 DEF RemovalOwed
<1>9. lost' \in BOOLEAN
  BY <1>5, BlockFlags
<1> QED
  BY <1>2, <1>4, <1>5, <1>6, <1>7, <1>8, <1>9, WorkerChanged

\* ufw removes the rule, or fails and the process has lost track of it.
LEMMA FwUnlockInv == ASSUME ListInv, NEW ok \in BOOLEAN, FwUnlock(ok) PROVE ListInv'
<1>1. /\ worker.at = "unlock" /\ worker' = Idle
      /\ ok => rules' = rules \ worker.ips
      /\ ~ok => rules' = rules
      /\ UNCHANGED <<guarded, queue, fwPending, config, actor, ticker, ops, raced>>
  BY DEF FwUnlock
<1>2. lost' \in BOOLEAN /\ (lost => lost') /\ (~lost' => ok)
  BY DEF FwUnlock
<1>3. /\ queue \in Seq(FwOps) /\ Len(queue) <= QueueCap /\ rules \subseteq Addrs /\ ListOK(list)
  BY BlockTypes
<1>4. rules' \subseteq Addrs /\ UNCHANGED <<view, list, queue, fwPending, config, actor, ticker, ops, raced>>
  BY <1>1, <1>3 DEF guarded
<1>5. worker' \in [at : WorkerAts, ips : SUBSET Addrs] /\ worker'.at = "idle"
  BY <1>1 DEF WorkerAts, Idle
<1>6. WorkerOK'
  BY <1>5 DEF WorkerOK
<1>7. FlaggedBlockHasRule'
  <2> SUFFICES ASSUME ~lost' PROVE list.fw \cap Enforced(list) \subseteq rules'
    BY <1>4 DEF FlaggedBlockHasRule, Enforced
  <2>1. ok /\ ~lost /\ rules' = rules \ worker.ips
    BY <1>1, <1>2
  <2>2. worker.ips \cap list.fw \cap Enforced(list) = {} /\ list.fw \cap Enforced(list) \subseteq rules
    BY <1>1, <2>1 DEF ListInv, WorkerOK, FlaggedBlockHasRule
  <2> QED
    BY <2>1, <2>2
<1>8. RemovalsOwed'
  <2> SUFFICES ASSUME ~lost', NEW b \in Addrs \ (list.blocked \cup raced), Installing(b)' PROVE RemovalOwed(b)'
    BY <1>4 DEF RemovalsOwed
  <2>1. ~lost /\ rules' = rules \ worker.ips
    BY <1>1, <1>2
  <2>2. Installing(b) /\ (b \notin worker.ips \/ AddQueued(queue, b))
    BY <1>4, <1>5, <2>1 DEF Installing
  <2>3. RemovalOwed(b)
    BY <2>1, <2>2 DEF ListInv, RemovalsOwed
  <2> QED
    BY <1>4, <2>2, <2>3 DEF RemovalOwed
<1> QED
  BY <1>2, <1>3, <1>4, <1>5, <1>6, <1>7, <1>8, WorkerChanged

\* ufw installs the rule, or fails and the block stays in memory only.
LEMMA FwBlockInv == ASSUME ListInv, NEW ok \in BOOLEAN, FwBlock(ok) PROVE ListInv'
<1>1. /\ worker.at = "block"
      /\ ok => rules' = rules \cup worker.ips /\ worker' = [worker EXCEPT !.at = "flag"]
      /\ ~ok => rules' = rules /\ worker' = Idle
      /\ UNCHANGED <<guarded, queue, fwPending, config, actor, ticker, ops, ghosts>>
  BY DEF FwBlock
<1>2. /\ queue \in Seq(FwOps) /\ Len(queue) <= QueueCap /\ rules \subseteq Addrs /\ ListOK(list)
      /\ worker \in [at : WorkerAts, ips : SUBSET Addrs]
  BY BlockTypes
<1>3. /\ rules \subseteq rules' /\ rules' \subseteq Addrs /\ rules' \subseteq rules \cup worker.ips
      /\ worker' \in [at : WorkerAts, ips : SUBSET Addrs]
      /\ worker'.at = "idle" \/ (worker'.at = "flag" /\ worker'.ips = worker.ips /\ worker.ips \subseteq rules')
  <2>1. CASE ok
    BY <1>1, <1>2, <2>1 DEF WorkerAts
  <2>2. CASE ~ok
    BY <1>1, <1>2, <2>2 DEF WorkerAts, Idle
  <2> QED
    BY <2>1, <2>2
<1>4. UNCHANGED <<view, list, queue, fwPending, config, actor, ticker, ops, raced, lost>>
  BY <1>1 DEF guarded, ghosts
<1>5. WorkerOK'
  BY <1>1, <1>3 DEF ListInv, WorkerOK
<1>6. FlaggedBlockHasRule'
  BY <1>3, <1>4 DEF ListInv, FlaggedBlockHasRule, Enforced
<1>7. RemovalsOwed'
  <2> SUFFICES ASSUME ~lost, NEW b \in Addrs \ (list.blocked \cup raced), Installing(b)' PROVE RemovalOwed(b)'
    BY <1>4 DEF RemovalsOwed
  <2>1. Installing(b)
    BY <1>1, <1>3, <1>4 DEF Installing
  <2>2. RemovalOwed(b)
    BY <2>1 DEF ListInv, RemovalsOwed
  <2> QED
    BY <1>1, <1>4, <2>2 DEF RemovalOwed
<1>8. lost' \in BOOLEAN
  BY <1>4, BlockFlags
<1> QED
  BY <1>2, <1>3, <1>4, <1>5, <1>6, <1>7, <1>8, WorkerChanged

\* The flag is set on whatever entry the address has by now.
LEMMA SetFirewallFlagInv == ASSUME ListInv, SetFirewallFlag PROVE ListInv'
<1> DEFINE x == [list EXCEPT !.fw = list.fw \cup (worker.ips \cap list.blocked)]
<1>1. /\ worker.at = "flag" /\ list' = x /\ worker' = Idle
      /\ UNCHANGED <<view, queue, fwPending, rules, config, actor, ticker, ops, ghosts>>
  BY DEF SetFirewallFlag
<1>2. /\ queue \in Seq(FwOps) /\ Len(queue) <= QueueCap /\ rules \subseteq Addrs /\ ListOK(list)
      /\ list \in ListType
  BY BlockTypes DEF ListOK
<1>3. /\ x \in ListType /\ x.blocked = list.blocked /\ x.dry = list.dry /\ x.lapsed = list.lapsed
      /\ x.fw = list.fw \cup (worker.ips \cap list.blocked)
  BY <1>2 DEF ListType
<1> HIDE DEF x
<1>4. ListOK(x)
  BY <1>2, <1>3, ListFields, ListOKIntro
<1>5. worker' \in [at : WorkerAts, ips : SUBSET Addrs] /\ worker'.at = "idle"
  BY <1>1 DEF WorkerAts, Idle
<1>6. UNCHANGED <<view, queue, fwPending, rules, config, actor, ticker, ops, raced, lost>>
  BY <1>1 DEF ghosts
<1>7. WorkerOK'
  BY <1>5 DEF WorkerOK
<1>8. FlaggedBlockHasRule'
  <2>1. worker.ips \subseteq rules /\ (~lost => list.fw \cap Enforced(list) \subseteq rules)
    BY <1>1 DEF ListInv, WorkerOK, FlaggedBlockHasRule
  <2>2. ~lost => x.fw \cap Enforced(x) \subseteq rules
    BY <1>3, <2>1 DEF Enforced
  <2> QED
    BY <1>1, <1>6, <2>2 DEF FlaggedBlockHasRule, Enforced
<1>9. RemovalsOwed'
  <2> SUFFICES ASSUME ~lost, NEW b \in Addrs \ (list.blocked \cup raced), Installing(b)' PROVE RemovalOwed(b)'
    BY <1>1, <1>3, <1>6 DEF RemovalsOwed
  <2>1. Installing(b)
    BY <1>5, <1>6 DEF Installing
  <2>2. RemovalOwed(b)
    BY <2>1 DEF ListInv, RemovalsOwed
  <2> QED
    BY <1>1, <1>6, <2>2 DEF RemovalOwed
<1>10. lost' \in BOOLEAN
  BY <1>6, BlockFlags
<1> QED
  BY <1>1, <1>2, <1>3, <1>4, <1>5, <1>6, <1>7, <1>8, <1>9, <1>10, WorkerChanged

-----------------------------------------------------------------------------
(* Theorems about the list in one process *)

\* Every step of the process keeps the invariant.
LEMMA ListStepInv == ListInv /\ [Next]_vars => ListInv'
<1> SUFFICES ASSUME ListInv, [Next]_vars PROVE ListInv'
  OBVIOUS
<1>1. CASE UNCHANGED vars
  <2>1. UNCHANGED <<list, view, queue, fwPending, worker, rules, safe, fwOn, dryRun, actor, ticker, ops, raced, lost>>
    BY <1>1 DEF vars, guarded, firewall, config, ghosts
  <2>2. TypeOK' /\ ViewIsEnforced' /\ WorkerOK' /\ FlaggedBlockHasRule'
    BY <2>1 DEF ListInv, TypeOK, ViewIsEnforced, WorkerOK, FlaggedBlockHasRule, Enforced
  <2>3. RemovalsOwed'
    BY <2>1 DEF ListInv, RemovalsOwed, Installing, RemovalOwed
  <2> QED
    BY <2>2, <2>3 DEF ListInv
<1>2. ASSUME NEW p \in Actors, Request(p) PROVE ListInv'
  BY <1>2, QuietRequestInv, BlockInv, UnblockInv DEF Request
<1>3. ASSUME NEW p \in Actors, ActorStep(p) PROVE ListInv'
  BY <1>3, ApplyInv, QueueAddInv, LiftSafeBlocksInv, ActorRemoveInv, RequestSaveInv DEF ActorStep
<1>4. CASE TickerStep
  BY <1>4, ExpireInv, ExpireRemoveInv, ExpireRetryInv DEF TickerStep
<1>5. CASE WorkerStep
  BY <1>5, TakeOpInv, RuleWantedInv, SetFirewallFlagInv, FwUnlockInv, FwBlockInv DEF WorkerStep
<1>6. ASSUME NEW a \in Addrs, Lapse(a) PROVE ListInv'
  BY <1>6, LapseInv
<1> QED
  BY <1>1, <1>2, <1>3, <1>4, <1>5, <1>6 DEF Next

\* A process without a file starts with nothing blocked.
LEMMA ListInitInv == Init => ListInv
<1> SUFFICES ASSUME Init PROVE ListInv
  OBVIOUS
<1>1. /\ list = EmptyList /\ view = {} /\ queue = <<>> /\ fwPending = {} /\ worker = Idle /\ rules = {}
      /\ actor = [p \in Actors |-> Idle] /\ ticker = Idle /\ ops = 0 /\ raced = {}
  BY DEF Init
<1>2. PICK c \in BootConfigs : safe = c.safe /\ fwOn = c.fwOn /\ dryRun = c.dryRun
  BY DEF Init
<1>3. c \in ConfigType
  BY BoundsAssumption
<1>4. safe \subseteq Addrs
  BY <1>2, <1>3 DEF ConfigType
<1>5. fwOn \in BOOLEAN /\ dryRun \in BOOLEAN /\ lost \in BOOLEAN
  BY <1>2, <1>3 DEF ConfigType, Init
<1>6. Idle \in Tails /\ Idle \in [at : WorkerAts, ips : SUBSET Addrs] /\ ListOK(list)
  BY <1>1, EmptyListOK DEF Idle, Tails, WorkerAts
<1>7. queue \in Seq(FwOps) /\ Len(queue) = 0 /\ QueueCap \in Nat /\ ops \in 0..MaxOps
  BY <1>1, BoundsAssumption
<1>8. TypeOK
  BY <1>1, <1>4, <1>5, <1>6, <1>7 DEF TypeOK, ListOK, WorkerAts
<1>9. EmptyList.blocked = {} /\ EmptyList.fw = {} /\ Idle.at = "idle"
  BY DEF EmptyList, Idle
<1>10. ViewIsEnforced /\ WorkerOK /\ FlaggedBlockHasRule
  BY <1>1, <1>9 DEF ViewIsEnforced, Enforced, WorkerOK, FlaggedBlockHasRule
<1>11. RemovalsOwed
  BY <1>1, <1>7, <1>9 DEF RemovalsOwed, Installing, AddQueued
<1> QED
  BY <1>8, <1>10, <1>11 DEF ListInv

\* The invariant of the block list holds throughout.
THEOREM ListInvariant == Spec => []ListInv
<1> QED
  BY ListInitInv, ListStepInv, PTL DEF Spec

\* What Accept refuses is the enforced part of the list.
THEOREM ViewExact == Spec => []ViewIsEnforced
<1>1. ListInv => ViewIsEnforced
  BY DEF ListInv
<1> QED
  BY <1>1, ListInvariant, PTL

\* A removal still queued never takes the rule from a block that relies on it.
THEOREM FlagsBacked == Spec => []FlaggedBlockHasRule
<1>1. ListInv => FlaggedBlockHasRule
  BY DEF ListInv
<1> QED
  BY <1>1, ListInvariant, PTL

\* When nothing is owed any more, the removals that the lifts promised are done.
LEMMA NothingOwed == ListInv => RuleOutlivesOnlyByRace
<1> SUFFICES ASSUME ListInv, Settled, ~lost, NEW a \in rules \ list.blocked, a \notin raced PROVE FALSE
  BY DEF RuleOutlivesOnlyByRace
<1>1. a \in Addrs /\ Installing(a)
  BY BlockTypes DEF Installing
<1>2. RemovalOwed(a)
  BY <1>1 DEF ListInv, RemovalsOwed
<1>3. /\ (\A p \in Actors : actor[p].at = "idle") /\ ticker.at = "idle" /\ worker.at = "idle"
      /\ fwPending = {} /\ Len(queue) = 0
  BY DEF Settled, Idle
<1>4. ~RemoveQueued(queue, a)
  BY <1>3 DEF RemoveQueued
<1> QED
  BY <1>2, <1>3, <1>4 DEF RemovalOwed

\* A rule outlives its block only by the race of an add with a lift.
THEOREM OnlyRacedRulesStay == Spec => []RuleOutlivesOnlyByRace
<1> QED
  BY NothingOwed, ListInvariant, PTL
-----------------------------------------------------------------------------
(* The state file *)

\* What a step does to the file's debt: a copy of the list is owed after it, or
\* the list lost no more than history and no debt was dropped.
DebtKept ==
  \/ CopyOwed'
  \/ /\ list'.blocked = list.blocked /\ list'.dry = list.dry /\ list'.history \subseteq list.history
     /\ CopyOwed => CopyOwed'

\* Steps that leave the list, or only its flags, and no actor in debt.
LEMMA DebtUntouched ==
  ASSUME list'.blocked = list.blocked, list'.dry = list.dry, list'.history \subseteq list.history,
         \A p \in Actors : actor[p].at \in {"add", "remove", "save"} =>
             actor'[p].at \in {"add", "remove", "save"} \/ saveOnce',
         ticker.at \in {"remove", "save"} => ticker'.at \in {"remove", "save"} \/ saveOnce',
         saveOnce => saveOnce', UNCHANGED <<dirty, saving>>
  PROVE  DebtKept
BY DEF DebtKept, CopyOwed

\* Requests: what they change in the list they owe.
LEMMA RequestDebt ==
  ASSUME ListInv, NEW p \in Actors, Request(p), saveOnce => saveOnce', UNCHANGED <<dirty, saving>>
  PROVE  DebtKept
<1>1. ASSUME NEW x \in Tails, Start(p, x), list' = list, ticker' = ticker PROVE DebtKept
  <2>1. /\ actor[p].at = "idle" /\ \A q \in Actors : q # p => actor'[q] = actor[q]
    BY <1>1, Started
  <2>2. \A q \in Actors : actor[q].at \in {"add", "remove", "save"} => actor'[q].at \in {"add", "remove", "save"}
    BY <2>1
  <2> QED
    BY <1>1, <2>2, DebtUntouched
<1>2. ASSUME NEW a \in Addrs, Trip(p, a) PROVE DebtKept
  <2>1. [at |-> "apply", ips |-> {a}] \in Tails
    BY DEF Tails
  <2>2. Start(p, [at |-> "apply", ips |-> {a}]) /\ list' = list /\ ticker' = ticker
    BY <1>2 DEF Trip, guarded
  <2> QED
    BY <1>1, <2>1, <2>2
<1>3. ASSUME NEW a \in Addrs, Block(p, a) PROVE DebtKept
  <2> DEFINE x == [at |-> "add", ips |-> {a}]
  <2>1. x \in Tails /\ Start(p, x) /\ x.at = "add"
    BY <1>3 DEF Block, Tails
  <2> HIDE DEF x
  <2>2. actor'[p].at = "add"
    BY <2>1, Started
  <2> QED
    BY <2>2 DEF DebtKept, CopyOwed
<1>4. ASSUME NEW a \in Addrs, Unblock(p, a) PROVE DebtKept
  <2>1. CASE a \in list.blocked
    <3> DEFINE x == [at |-> "remove", ips |-> {a}]
    <3>1. x \in Tails /\ Start(p, x) /\ x.at = "remove"
      BY <1>4, <2>1 DEF Unblock, Tails
    <3> HIDE DEF x
    <3>2. actor'[p].at = "remove"
      BY <3>1, Started
    <3> QED
      BY <3>2 DEF DebtKept, CopyOwed
  <2>2. CASE a \notin list.blocked
    <3>1. Idle \in Tails /\ Start(p, Idle) /\ ticker' = ticker
          /\ list' = DelEntries([list EXCEPT !.history = @ \ {a}], {a})
      BY <1>4, <2>2 DEF Unblock, Tails, Idle
    <3>2. /\ list'.blocked = list.blocked \ {a} /\ list'.dry = list.dry \ {a}
          /\ list'.history = list.history \ {a}
      BY <3>1, BlockTypes, EntriesForgotten
    <3>3. list.dry \subseteq list.blocked
      BY BlockTypes, ListFields
    <3>4. list'.blocked = list.blocked /\ list'.dry = list.dry /\ list'.history \subseteq list.history
      BY <2>2, <3>2, <3>3
    <3>5. /\ actor[p].at = "idle" /\ \A q \in Actors : q # p => actor'[q] = actor[q]
      BY <3>1, Started
    <3>6. \A q \in Actors : actor[q].at \in {"add", "remove", "save"} => actor'[q].at \in {"add", "remove", "save"}
      BY <3>5
    <3> QED
      BY <3>1, <3>4, <3>6, DebtUntouched
  <2> QED
    BY <2>1, <2>2
<1>5. ASSUME NEW nets \in SUBSET Addrs, SetWhitelist(p, nets) PROVE DebtKept
  <2>1. [at |-> "lift", ips |-> {}] \in Tails
    BY DEF Tails
  <2>2. Start(p, [at |-> "lift", ips |-> {}]) /\ list' = list /\ ticker' = ticker
    BY <1>5 DEF SetWhitelist, guarded
  <2> QED
    BY <1>1, <2>1, <2>2
<1>6. ASSUME NEW on \in BOOLEAN, SetFirewallSync(p, on) PROVE DebtKept
  <2>1. Idle \in Tails /\ Start(p, Idle) /\ list' = list /\ ticker' = ticker
    BY <1>6 DEF SetFirewallSync, guarded, Tails, Idle
  <2> QED
    BY <1>1, <2>1
<1> QED
  BY <1>2, <1>3, <1>4, <1>5, <1>6 DEF Request

\* An actor's later steps: the save is requested last.
LEMMA ActorDebt ==
  ASSUME ListInv, NEW p \in Actors, ActorStep(p), saveOnce' = (saveOnce \/ SaveRequested),
         UNCHANGED <<dirty, saving>>
  PROVE  DebtKept
<1>1. actor[p] \in Tails /\ actor \in [Actors -> Tails]
  BY BlockTypes
<1>2. CASE Apply(p)
  <2>1. actor'[p].at \in {"save", "add"}
    BY <1>1, <1>2 DEF Apply, Tails
  <2> QED
    BY <2>1 DEF DebtKept, CopyOwed
<1>3. CASE QueueAdd(p)
  <2>1. actor'[p].at = "save"
    BY <1>1, <1>3 DEF QueueAdd, Tails
  <2> QED
    BY <2>1 DEF DebtKept, CopyOwed
<1>4. CASE LiftSafeBlocks(p)
  <2> DEFINE lifted == list.blocked \cap safe
  <2>1. /\ actor[p].at = "lift" /\ list' = DelEntries([list EXCEPT !.history = @ \ lifted], lifted)
        /\ actor' = [actor EXCEPT ![p] = IF lifted = {} THEN Idle ELSE [at |-> "remove", ips |-> lifted]]
        /\ ticker' = ticker
    BY <1>4 DEF LiftSafeBlocks
  <2> HIDE DEF lifted
  <2>2. CASE lifted # {}
    <3>1. actor'[p].at = "remove"
      BY <1>1, <2>1, <2>2
    <3> QED
      BY <3>1 DEF DebtKept, CopyOwed
  <2>3. CASE lifted = {}
    <3>1. /\ list'.blocked = list.blocked \ lifted /\ list'.dry = list.dry \ lifted
          /\ list'.history = list.history \ lifted
      BY <2>1, BlockTypes, EntriesForgotten
    <3>2. list'.blocked = list.blocked /\ list'.dry = list.dry /\ list'.history \subseteq list.history
      BY <2>3, <3>1
    <3>3. \A q \in Actors : actor[q].at \in {"add", "remove", "save"} => actor'[q].at \in {"add", "remove", "save"}
      BY <1>1, <2>1
    <3> QED
      BY <2>1, <3>2, <3>3, DebtUntouched
  <2> QED
    BY <2>2, <2>3
<1>5. CASE ActorRemove(p)
  <2>1. actor'[p].at \in {"save", "remove"}
    BY <1>1, <1>5 DEF ActorRemove
  <2> QED
    BY <2>1 DEF DebtKept, CopyOwed
<1>6. CASE RequestSave(p)
  <2>1. actor[p].at = "save" /\ actor'[p] = Idle
    BY <1>1, <1>6 DEF RequestSave
  <2>2. saveOnce'
    BY <2>1 DEF SaveRequested
  <2> QED
    BY <2>2 DEF DebtKept, CopyOwed
<1> QED
  BY <1>2, <1>3, <1>4, <1>5, <1>6 DEF ActorStep

\* The expiry goroutine.
LEMMA TickerDebt ==
  ASSUME ListInv, TickerStep, saveOnce' = (saveOnce \/ SaveRequested), UNCHANGED <<dirty, saving>>
  PROVE  DebtKept
<1>1. CASE Expire
  <2> DEFINE s == list.lapsed
  <2>1. /\ ticker = Idle /\ list' = DelEntries(list, s) /\ actor' = actor
        /\ ticker' = [at |-> IF s = {} THEN "retry" ELSE "remove", ips |-> s]
    BY <1>1 DEF Expire
  <2>2. CASE s # {}
    BY <2>1, <2>2 DEF DebtKept, CopyOwed
  <2>3. CASE s = {}
    <3>1. list'.blocked = list.blocked \ s /\ list'.dry = list.dry \ s /\ list'.history = list.history
      BY <2>1, BlockTypes, EntriesDeleted
    <3>2. list'.blocked = list.blocked /\ list'.dry = list.dry /\ list'.history \subseteq list.history
      BY <2>3, <3>1
    <3>3. ticker.at = "idle"
      BY <2>1 DEF Idle
    <3>4. saveOnce => saveOnce'
      OBVIOUS
    <3> QED
      BY <2>1, <3>2, <3>3, <3>4, DebtUntouched
  <2> QED
    BY <2>2, <2>3
<1>2. CASE ExpireRemove
  <2>1. ticker'.at \in {"save", "remove"}
    BY <1>2 DEF ExpireRemove
  <2> QED
    BY <2>1 DEF DebtKept, CopyOwed
<1>3. CASE ExpireRetry
  <2>1. ticker.at \in {"retry", "save"} /\ ticker' = Idle /\ list' = list /\ actor' = actor
    BY <1>3 DEF ExpireRetry, guarded
  <2>2. CASE ticker.at = "save"
    <3>1. saveOnce'
      BY <2>1, <2>2 DEF SaveRequested
    <3> QED
      BY <3>1 DEF DebtKept, CopyOwed
  <2>3. CASE ticker.at = "retry"
    <3>1. saveOnce => saveOnce'
      OBVIOUS
    <3> QED
      BY <2>1, <2>3, <3>1, DebtUntouched
  <2> QED
    BY <2>1, <2>2, <2>3
<1> QED
  BY <1>1, <1>2, <1>3 DEF TickerStep

\* The firewall worker and the passing of time.
LEMMA WorkerDebt ==
  ASSUME ListInv, WorkerStep \/ (\E a \in Addrs : Lapse(a)), saveOnce => saveOnce', UNCHANGED <<dirty, saving>>
  PROVE  DebtKept
<1>1. list \in ListType
  BY BlockTypes DEF ListOK
<1>2. CASE list' = list /\ actor' = actor /\ ticker' = ticker
  BY <1>2, DebtUntouched
<1>3. CASE SetFirewallFlag \/ \E a \in Addrs : Lapse(a)
  <2>1. actor' = actor /\ ticker' = ticker
    BY <1>3 DEF SetFirewallFlag, Lapse
  <2>2. list'.blocked = list.blocked /\ list'.dry = list.dry /\ list'.history = list.history
    BY <1>1, <1>3 DEF SetFirewallFlag, Lapse, ListType
  <2> QED
    BY <2>1, <2>2, DebtUntouched
<1> QED
  BY <1>2, <1>3 DEF WorkerStep, TakeOp, RuleWanted, FwUnlock, FwBlock, guarded
\* A step of the list, with the requests it makes of the save worker.
LEMMA ListStepState == ASSUME StateInv, ListStep PROVE StateInv'
<1>1. /\ ListInv /\ Next /\ saveOnce' = (saveOnce \/ SaveRequested)
      /\ UNCHANGED <<dirty, saving, disk, boots, unsaved>>
  BY DEF StateInv, ListStep
<1>2. ListInv'
  BY <1>1, ListStepInv
<1>3. (saveOnce \/ SaveRequested) \in BOOLEAN /\ (saveOnce => saveOnce')
  BY <1>1
<1>4. FilesOK'
  BY <1>1, <1>3 DEF StateInv, FilesOK
<1>5. DebtKept
  BY <1>1, <1>3, RequestDebt, ActorDebt, TickerDebt, WorkerDebt DEF Next
<1>6. FileOwed'
  <2> SUFFICES ASSUME ~unsaved', ~CopyOwed' PROVE \/ saving' # NoCopy /\ Covers(saving[1])'
                                                  \/ saving' = NoCopy /\ ~dirty' /\ Covers(disk)'
    BY DEF FileOwed, NoCopy
  <2>1. /\ list'.blocked = list.blocked /\ list'.dry = list.dry /\ list'.history \subseteq list.history
        /\ ~CopyOwed /\ ~unsaved
    BY <1>1, <1>5 DEF DebtKept
  <2>2. \/ saving # NoCopy /\ Covers(saving[1])
        \/ saving = NoCopy /\ ~dirty /\ Covers(disk)
    BY <2>1 DEF StateInv, FileOwed
  <2> QED
    BY <1>1, <2>1, <2>2 DEF Covers
<1> QED
  BY <1>2, <1>4, <1>6 DEF StateInv

\* The steps of the save worker.
LEMMA SaveStepState ==
  ASSUME StateInv, SaveTake \/ SaveCopy \/ (\E ok \in BOOLEAN : SaveWrite(ok)) PROVE StateInv'
<1>1. ListInv /\ FilesOK /\ FileOwed /\ UNCHANGED vars
  BY DEF StateInv, SaveTake, SaveCopy, SaveWrite
<1>2. ListInv'
  BY <1>1, ListStepInv
<1>3. UNCHANGED <<list, actor, ticker, boots>>
  BY <1>1 DEF vars, guarded, SaveTake, SaveCopy, SaveWrite
<1>4. CASE SaveTake
  <2>1. /\ saving = NoCopy /\ saveOnce' = FALSE /\ dirty' = TRUE /\ UNCHANGED <<saving, disk, boots, unsaved>>
    BY <1>4 DEF SaveTake
  <2>2. FilesOK'
    BY <1>1, <2>1 DEF FilesOK
  <2>3. FileOwed'
    BY <2>1 DEF FileOwed, CopyOwed
  <2> QED
    BY <1>2, <2>2, <2>3 DEF StateInv
<1>5. CASE SaveCopy
  <2>1. /\ dirty /\ saving = NoCopy /\ saving' = <<list>> /\ UNCHANGED <<saveOnce, dirty, disk, boots, unsaved>>
    BY <1>5 DEF SaveCopy
  <2>2. saving' # NoCopy /\ saving'[1] = list /\ ListOK(list)
    BY <1>1, <2>1, BlockTypes DEF NoCopy
  <2>3. FilesOK'
    BY <1>1, <2>1, <2>2 DEF FilesOK
  <2>4. Covers(saving[1])'
    BY <1>3, <2>2 DEF Covers
  <2>5. FileOwed'
    BY <2>2, <2>4 DEF FileOwed, NoCopy
  <2> QED
    BY <1>2, <2>3, <2>5 DEF StateInv
<1>6. ASSUME NEW ok \in BOOLEAN, SaveWrite(ok) PROVE StateInv'
  <2>1. /\ saving # NoCopy /\ dirty' = FALSE /\ saving' = NoCopy /\ UNCHANGED <<saveOnce, boots>>
        /\ ok => disk' = saving[1]
        /\ ~ok => disk' = disk
    BY <1>6 DEF SaveWrite
  <2>2. unsaved' \in BOOLEAN /\ (~unsaved' => ok /\ ~unsaved)
    BY <1>6 DEF SaveWrite
  <2>3. ListOK(disk')
    BY <1>1, <2>1 DEF FilesOK
  <2>4. FilesOK'
    BY <1>1, <2>1, <2>2, <2>3 DEF FilesOK, NoCopy
  <2>5. FileOwed'
    <3> SUFFICES ASSUME ~unsaved', ~CopyOwed' PROVE Covers(disk)'
      BY <2>1 DEF FileOwed, NoCopy
    <3>1. ~unsaved /\ disk' = saving[1] /\ ~CopyOwed
      BY <1>3, <2>1, <2>2 DEF CopyOwed
    <3>2. Covers(saving[1])
      BY <1>1, <2>1, <3>1 DEF FileOwed
    <3> QED
      BY <1>3, <3>1, <3>2 DEF Covers
  <2> QED
    BY <1>2, <2>4, <2>5 DEF StateInv
<1> QED
  BY <1>4, <1>5, <1>6

\* The next process takes the file for its list.
LEMMA RestartState ==
  ASSUME StateInv, NEW file, ListOK(file), NEW repair \in BOOLEAN, RestartFrom(file, repair) PROVE StateInv'
<1>1. /\ ListInv /\ FilesOK /\ FileOwed
      /\ boots < MaxBoots /\ boots' = boots + 1
      /\ queue' = <<>> /\ worker' = Idle /\ saveOnce' = FALSE /\ dirty' = FALSE /\ saving' = NoCopy
      /\ actor' = [p \in Actors |-> Idle] /\ ticker' = Idle /\ UNCHANGED <<rules, ops, raced, unsaved>>
      /\ repair => disk' = list'
      /\ ~repair => disk' = file
  BY DEF StateInv, RestartFrom
<1>2. PICK c \in BootConfigs : safe' = c.safe /\ fwOn' = c.fwOn /\ dryRun' = c.dryRun
  BY DEF RestartFrom
<1>3. c \in ConfigType
  BY BoundsAssumption
<1>4. safe' \subseteq Addrs
  BY <1>2, <1>3 DEF ConfigType
<1>5. fwOn' \in BOOLEAN /\ dryRun' \in BOOLEAN /\ lost' \in BOOLEAN /\ lost'
  BY <1>2, <1>3 DEF ConfigType, RestartFrom
<1>6. PICK lapsed \in SUBSET file.blocked : Load(file, file.lapsed \cup lapsed \cup (file.blocked \cap safe'))
  BY DEF RestartFrom
<1> DEFINE gone == file.lapsed \cup lapsed \cup (file.blocked \cap safe')
<1>7. /\ list' = DelEntries(file, gone) /\ view' = Enforced(DelEntries(file, gone))
      /\ fwPending' = (gone \cap file.fw) \ file.dry
  BY <1>6 DEF Load
<1> HIDE DEF gone
<1>8. /\ ListOK(list') /\ list'.blocked = file.blocked \ gone /\ list'.dry = file.dry \ gone
      /\ list'.history = file.history
  BY <1>7, EntriesDeleted
<1>9. file.blocked \subseteq Addrs /\ file.fw \subseteq file.blocked
  BY ListFields
<1>10. view' = Enforced(list') /\ view' \subseteq Addrs /\ fwPending' \subseteq Addrs
  BY <1>7, <1>8, <1>9 DEF Enforced
<1>11. Idle \in Tails /\ Idle \in [at : WorkerAts, ips : SUBSET Addrs] /\ Idle.at = "idle"
  BY DEF Idle, Tails, WorkerAts
<1>12. queue' \in Seq(FwOps) /\ Len(queue') = 0 /\ QueueCap \in Nat
  BY <1>1, BoundsAssumption
<1>13. rules' \subseteq Addrs /\ ops' \in 0..MaxOps /\ raced' \subseteq Addrs
  BY <1>1, BlockTypes
<1>14. TypeOK'
  BY <1>1, <1>4, <1>5, <1>8, <1>10, <1>11, <1>12, <1>13 DEF TypeOK, ListOK, WorkerAts
<1>15. ViewIsEnforced'
  BY <1>10 DEF ViewIsEnforced, Enforced
<1>16. WorkerOK' /\ FlaggedBlockHasRule' /\ RemovalsOwed'
  BY <1>1, <1>5, <1>11 DEF WorkerOK, FlaggedBlockHasRule, RemovalsOwed
<1>17. ListInv'
  BY <1>14, <1>15, <1>16 DEF ListInv
<1>18. boots' \in 0..MaxBoots /\ boots' # 0
  BY <1>1, MaxBootsAssumption DEF FilesOK
<1>19. ListOK(disk')
  BY <1>1, <1>8
<1>20. FilesOK'
  BY <1>1, <1>18, <1>19 DEF FilesOK, NoCopy
<1>21. Covers(disk)'
  BY <1>1, <1>8, <1>18 DEF Covers
<1>22. FileOwed'
  BY <1>1, <1>21 DEF FileOwed, NoCopy
<1> QED
  BY <1>17, <1>20, <1>22 DEF StateInv

\* Every file that a process may find is a list.
LEMMA FilesAreLists ==
  ASSUME StateInv
  PROVE  ListOK(StoppedFile) /\ ListOK(CrashedFile) /\ \A file \in SalvagedFiles : ListOK(file)
<1>1. ListOK(list) /\ ListOK(disk) /\ (saving # NoCopy => ListOK(saving[1]))
  BY BlockTypes DEF StateInv, FilesOK
<1>2. ListOK(StoppedFile) /\ ListOK(CrashedFile)
  BY <1>1 DEF StoppedFile, CrashedFile
<1>3. ASSUME NEW s \in SUBSET disk.blocked PROVE ListOK([DelEntries(disk, s) EXCEPT !.history = {}])
  <2> DEFINE m == DelEntries(disk, s)
  <2>1. ListOK(m) /\ {} \in SUBSET Addrs
    BY <1>1, EntriesDeleted
  <2> HIDE DEF m
  <2>2. ListOK([m EXCEPT !.history = {}])
    BY <2>1, HistoryReplaced
  <2> QED
    BY <2>2 DEF m
<1>4. \A file \in SalvagedFiles : ListOK(file)
  BY <1>1, <1>3 DEF SalvagedFiles
<1> QED
  BY <1>2, <1>4

\* Every step of the process, its save worker and its restarts keeps the invariant.
LEMMA StateStepInv == StateInv /\ [StateNext]_allVars => StateInv'
<1> SUFFICES ASSUME StateInv, [StateNext]_allVars PROVE StateInv'
  OBVIOUS
<1>1. CASE UNCHANGED allVars
  <2>1. UNCHANGED vars /\ UNCHANGED <<saveOnce, dirty, saving, disk, boots, unsaved>>
    BY <1>1 DEF allVars, stateVars
  <2>2. ListInv'
    BY <2>1, ListStepInv DEF StateInv
  <2>3. UNCHANGED <<list, actor, ticker>>
    BY <2>1 DEF vars, guarded
  <2>4. FilesOK' /\ FileOwed'
    BY <2>1, <2>3 DEF StateInv, FilesOK, FileOwed, CopyOwed, Covers
  <2> QED
    BY <2>2, <2>4 DEF StateInv
<1>2. CASE Restart
  BY <1>2, FilesAreLists, RestartState DEF Restart
<1>3. CASE CrashAndRestart
  BY <1>3, FilesAreLists, RestartState DEF CrashAndRestart
<1>4. CASE SalvageAndRestart
  <2>1. PICK file \in SalvagedFiles : RestartFrom(file, file.blocked \cup file.history # {})
    BY <1>4 DEF SalvageAndRestart
  <2>2. (file.blocked \cup file.history # {}) \in BOOLEAN /\ ListOK(file)
    BY FilesAreLists
  <2> QED
    BY <2>1, <2>2, RestartState
<1> QED
  BY <1>1, <1>2, <1>3, <1>4, ListStepState, SaveStepState DEF StateNext

\* At first there is no file, and nothing to put in it.
LEMMA StateInitInv == StateInit => StateInv
<1> SUFFICES ASSUME StateInit PROVE StateInv
  OBVIOUS
<1>1. /\ Init /\ list = EmptyList /\ saveOnce = FALSE /\ dirty = FALSE /\ saving = NoCopy /\ disk = EmptyList
      /\ boots = 0 /\ unsaved = FALSE
  BY DEF StateInit, Init
<1>2. FilesOK
  <2>1. ListOK(disk)
    BY <1>1, EmptyListOK, Zenon
  <2>2. saveOnce \in BOOLEAN /\ dirty \in BOOLEAN /\ unsaved \in BOOLEAN
    BY <1>1, Zenon
  <2>3. boots \in 0..MaxBoots
    BY <1>1, MaxBootsAssumption
  <2> QED
    BY <1>1, <2>1, <2>2, <2>3, Zenon DEF FilesOK
<1>3. Covers(disk)
  BY <1>1 DEF Covers
<1>4. FileOwed
  BY <1>1, <1>3 DEF FileOwed
<1> QED
  BY <1>1, <1>2, <1>4, ListInitInv DEF StateInv

\* The invariant of the list and its file holds throughout, restarts included.
THEOREM StateInvariant == StateSpec => []StateInv
<1> QED
  BY StateInitInv, StateStepInv, PTL DEF StateSpec

\* Types and bounds of the list, the firewall, the goroutines and the file.
THEOREM StateTypes == StateSpec => []StateTypeOK
<1>1. StateInv => StateTypeOK
  BY DEF StateInv, ListInv, FilesOK, ListOK, StateTypeOK
<1> QED
  BY <1>1, StateInvariant, PTL

\* What Accept refuses is the enforced part of the list, after a restart too.
THEOREM RestoredViewExact == StateSpec => []RestoredViewIsEnforced
<1>1. StateInv => RestoredViewIsEnforced
  BY DEF StateInv, ListInv, RestoredViewIsEnforced
<1> QED
  BY <1>1, StateInvariant, PTL

\* The file catches up with the list, however save requests coalesce.
THEOREM FileComplete == StateSpec => []FileCatchesUp
<1>1. StateInv => FileCatchesUp
  <2> SUFFICES ASSUME StateInv, \A p \in Actors : actor[p] = Idle, ticker = Idle, ~saveOnce, ~dirty, ~unsaved
               PROVE  Covers(disk)
    BY DEF FileCatchesUp, Covers
  <2>1. ~CopyOwed
    BY DEF CopyOwed, Idle
  <2>2. saving = NoCopy
    BY DEF StateInv, FilesOK
  <2> QED
    BY <2>1, <2>2 DEF StateInv, FileOwed
<1> QED
  BY <1>1, StateInvariant, PTL

\* With restarts as without, the flags and the rules agree until a process ends
\* or ufw fails to remove a rule.
THEOREM FlagsBackedBeforeRestart == StateSpec => [](FlaggedBlockHasRule /\ RuleOutlivesOnlyByRace)
<1>1. StateInv => FlaggedBlockHasRule /\ RuleOutlivesOnlyByRace
  BY NothingOwed DEF StateInv, ListInv
<1> QED
  BY <1>1, StateInvariant, PTL
==============================================================================
