------------------------ MODULE AlertStore_proofs ------------------------
(***************************************************************************)
(* Proofs about the alert store, for any writers, incidents, retention and *)
(* bounds.                                                                 *)
(*                                                                         *)
(* Compactions follow each other, each with its own window and on a file   *)
(* that earlier ones shortened, so it is not enough that one of them keeps *)
(* what is shown.  The invariant says how a file may differ from the       *)
(* stream of all records ever written: its lines are some of the stream's  *)
(* in the stream's order, and what is gone is gone with everything older   *)
(* that could tell.                                                        *)
(***************************************************************************)
EXTENDS AlertStore, FiniteSetTheorems, SequenceTheorems, TLAPS

-----------------------------------------------------------------------------
(* What a file s that summarises a stream t is.  Line i of the file is     *)
(* record e[i] of the stream.                                              *)

\* The lines are records of the stream, each at most once, in the same order of stamps.
Embedding(e, s, t) ==
    /\ e \in [DOMAIN s -> DOMAIN t]
    /\ \A i \in DOMAIN s : s[i] = t[e[i]]
    /\ \A i, j \in DOMAIN s : i # j => e[i] # e[j]
    /\ \A i, j \in DOMAIN s : Before(s, i, j) <=> Before(t, e[i], e[j])

HasWindow(c, s, t, e) ==
    \A n \in DOMAIN t : t[n].ts >= c => \E i \in DOMAIN s : e[i] = n

\* With an alert of an incident, every later alert of it is there.
LaterAlertsKept(s, t, e) ==
    \A k \in Incidents : \A a \in Alerts(k, s), n \in Alerts(k, t) :
        Before(t, e[a], n) => \E i \in DOMAIN s : e[i] = n

\* An alert that was recovered from is there with a recovery from it.
RecoveredStays(s, t, e) ==
    \A k \in Incidents : \A a \in Alerts(k, s), n \in Recoveries(k, t) :
        Before(t, e[a], n) => \E r \in Recoveries(k, s) : Before(s, a, r)

\* An incident without an alert in the file is not to be shown.
ForgottenIsOver(c, s, t) ==
    \A k \in Incidents : Alerts(k, s) = {} =>
        /\ ~(k \in Managed /\ Open(k, t))
        /\ ~ClosedSince(c, k, t)

Summary(c, s, t, e) ==
    /\ Embedding(e, s, t)
    /\ HasWindow(c, s, t, e)
    /\ LaterAlertsKept(s, t, e)
    /\ RecoveredStays(s, t, e)
    /\ ForgottenIsOver(c, s, t)

Summarised(c, s, t) == \E e \in [DOMAIN s -> DOMAIN t] : Summary(c, s, t, e)

-----------------------------------------------------------------------------
(* What is true of the writers. *)

LockHeld ==
    \A w \in Writers : pc[w] \in {"hold", "write", "release", "unlink"} => lock = w

\* A record waits for the lock at most MaxWait, so it is appended within its window.
StampsFresh ==
    \A w \in Writers : op[w] \in Record => op[w].ts <= now /\ now <= op[w].ts + MaxWait

\* A compaction may have read with an earlier cutoff than its swap's.
CopyCurrent ==
    \A w \in Writers : pc[w] = "write" =>
        \/ op[w] \in Record /\ op[w].event = "recovery" /\ view[w] = store
        \/ op[w] = PruneOp /\ \E c \in Int : c <= Cutoff /\ view[w] = Kept(c, store)

Faithful == ~breached => LockHeld /\ CopyCurrent /\ Summarised(Cutoff, store, recorded)

StoreInv == TypeOK /\ StampsFresh /\ Faithful

-----------------------------------------------------------------------------
(* Files and the order of their stamps. *)

\* A line of a file is a record with a stamp.
LEMMA LineIsRecord ==
  ASSUME NEW s \in Seq(Record), NEW i \in DOMAIN s
  PROVE  s[i] \in Record /\ s[i].ts \in Int /\ i \in Int
  <1>1. s[i] \in Record /\ i \in Int
    OBVIOUS
  <1>2. s[i].ts \in 0 .. MaxClock
    BY <1>1 DEF Record
  <1> QED
    BY <1>1, <1>2, AlertAssumption

\* The order of the stamps is a strict linear order of the lines.
LEMMA BeforeIsLinear ==
  ASSUME NEW s \in Seq(Record), NEW i \in DOMAIN s, NEW j \in DOMAIN s, NEW k \in DOMAIN s
  PROVE  /\ ~Before(s, i, i)
         /\ Before(s, i, j) => ~Before(s, j, i)
         /\ Before(s, i, j) /\ Before(s, j, k) => Before(s, i, k)
         /\ i # j => Before(s, i, j) \/ Before(s, j, i)
         /\ s[i].ts < s[j].ts => Before(s, i, j)
         /\ Before(s, i, j) => s[i].ts <= s[j].ts
  <1>1. /\ s[i].ts \in Int /\ s[j].ts \in Int /\ s[k].ts \in Int
        /\ i \in Int /\ j \in Int /\ k \in Int
    BY LineIsRecord
  <1> QED
    BY <1>1 DEF Before

\* Lines have places 1, 2, ... without gaps, and an earlier line the smaller one.
LEMMA PlacesAreRanks ==
  ASSUME NEW s \in Seq(Record), NEW K \in SUBSET DOMAIN s
  PROVE  /\ IsFiniteSet(K) /\ Cardinality(K) \in Nat
         /\ \A i \in K : Place(s, K, i) \in 1 .. Cardinality(K)
         /\ \A i, j \in K : Before(s, i, j) => Place(s, K, i) < Place(s, K, j)
         /\ \A n \in 1 .. Cardinality(K) : \E i \in K : Place(s, K, i) = n
  <1> DEFINE Upto(i) == {j \in K : j = i \/ Before(s, j, i)}
  <1>1. IsFiniteSet(K) /\ Cardinality(K) \in Nat
    <2>1. DOMAIN s = 1 .. Len(s) /\ Len(s) \in Nat
      OBVIOUS
    <2>2. IsFiniteSet(DOMAIN s)
      BY <2>1, FS_Interval
    <2> QED
      BY <2>2, FS_Subset, FS_CardinalityType
  <1>2. ASSUME NEW i \in K
        PROVE  IsFiniteSet(Upto(i)) /\ Place(s, K, i) \in 1 .. Cardinality(K)
    <2>1. Upto(i) \in SUBSET K /\ i \in Upto(i) /\ Place(s, K, i) = Cardinality(Upto(i))
      BY DEF Place
    <2>2. /\ IsFiniteSet(Upto(i)) /\ Cardinality(Upto(i)) <= Cardinality(K)
      BY <1>1, <2>1, FS_Subset
    <2>3. Cardinality(Upto(i)) \in Nat /\ Cardinality(Upto(i)) # 0
      BY <2>1, <2>2, FS_CardinalityType, FS_EmptySet
    <2> QED
      BY <1>1, <2>1, <2>2, <2>3
  <1>3. ASSUME NEW i \in K, NEW j \in K, Before(s, i, j)
        PROVE  Place(s, K, i) < Place(s, K, j)
    <2>1. Upto(i) \in SUBSET Upto(j)
      <3> SUFFICES ASSUME NEW h \in K, h = i \/ Before(s, h, i)
                   PROVE  Before(s, h, j)
        OBVIOUS
      <3>1. h \in DOMAIN s /\ i \in DOMAIN s /\ j \in DOMAIN s
        OBVIOUS
      <3> QED
        BY <1>3, <3>1, BeforeIsLinear
    <2>2. j \in Upto(j) /\ j \notin Upto(i)
      <3>1. i \in DOMAIN s /\ j \in DOMAIN s
        OBVIOUS
      <3> QED
        BY <1>3, <3>1, BeforeIsLinear
    <2>3. IsFiniteSet(Upto(i)) /\ IsFiniteSet(Upto(j))
      BY <1>2
    <2>4. Upto(i) # Upto(j)
      BY <2>2
    <2>5. Cardinality(Upto(i)) <= Cardinality(Upto(j)) /\ Cardinality(Upto(i)) # Cardinality(Upto(j))
      BY <2>1, <2>3, <2>4, FS_Subset
    <2>6. Cardinality(Upto(i)) \in Nat /\ Cardinality(Upto(j)) \in Nat
      BY <2>3, FS_CardinalityType
    <2>7. Place(s, K, i) = Cardinality(Upto(i)) /\ Place(s, K, j) = Cardinality(Upto(j))
      BY DEF Place
    <2> QED
      BY <2>5, <2>6, <2>7
  <1>4. \A n \in 1 .. Cardinality(K) : \E i \in K : Place(s, K, i) = n
    <2> DEFINE T == 1 .. Cardinality(K)
               f == [i \in K |-> Place(s, K, i)]
    <2>1. f \in [K -> T]
      BY <1>2
    <2>6. \A i \in K : Place(s, K, i) \in Int
      <3> SUFFICES ASSUME NEW i \in K PROVE Place(s, K, i) \in Int
        OBVIOUS
      <3>1. Place(s, K, i) \in 1 .. Cardinality(K)
        BY <1>2
      <3> QED
        BY <1>1, <3>1
    <2>2. ASSUME NEW i \in K, NEW j \in K, f[i] = f[j] PROVE i = j
      <3>1. i \in DOMAIN s /\ j \in DOMAIN s /\ Place(s, K, i) = Place(s, K, j)
        BY <2>2
      <3>2. Place(s, K, i) \in Int /\ Place(s, K, j) \in Int
        BY <2>6
      <3>3. ~Before(s, i, j) /\ ~Before(s, j, i)
        BY <1>3, <3>1, <3>2
      <3> QED
        BY <3>1, <3>3, BeforeIsLinear
    <2>3. f \in Injection(K, T)
      BY <2>1, <2>2 DEF Injection, IsInjective
    <2>4. IsFiniteSet(T) /\ Cardinality(T) = Cardinality(K)
      BY <1>1, FS_Interval
    <2>5. f \in Surjection(K, T)
      BY <2>3, <2>4, FS_Injection
    <2> QED
      BY <2>5 DEF Surjection
  <1> QED
    BY <1>1, <1>2, <1>3, <1>4

\* A line among K that no other one follows.
LEMMA NewestExists ==
  ASSUME NEW s \in Seq(Record), NEW K \in SUBSET DOMAIN s, K # {}
  PROVE  \E i \in K : \A a \in K : a = i \/ Before(s, a, i)
  <1>1. Cardinality(K) \in Nat /\ Cardinality(K) # 0
    BY PlacesAreRanks, FS_EmptySet
  <1>2. PICK i \in K : Place(s, K, i) = Cardinality(K)
    BY <1>1, PlacesAreRanks
  <1>3. ASSUME NEW a \in K PROVE a = i \/ Before(s, a, i)
    <2>1. Place(s, K, a) <= Cardinality(K)
      BY <1>1, PlacesAreRanks
    <2>2. Place(s, K, a) \in Int
      BY <1>1, PlacesAreRanks
    <2>3. ~Before(s, i, a)
      BY <1>1, <1>2, <2>1, <2>2, PlacesAreRanks
    <2>4. a \in DOMAIN s /\ i \in DOMAIN s
      OBVIOUS
    <2> QED
      BY <2>3, <2>4, BeforeIsLinear
  <1> QED
    BY <1>3

\* Sorted gives the lines K, each once, in the order of their stamps.
LEMMA SortedIsEmbedded ==
  ASSUME NEW s \in Seq(Record), NEW K \in SUBSET DOMAIN s
  PROVE  /\ Sorted(s, K) \in Seq(Record)
         /\ \E f \in [DOMAIN Sorted(s, K) -> DOMAIN s] :
              /\ Embedding(f, Sorted(s, K), s)
              /\ \A n \in DOMAIN Sorted(s, K) : f[n] \in K
              /\ \A i \in K : \E n \in DOMAIN Sorted(s, K) : f[n] = i
  <1> DEFINE N == Cardinality(K)
             at(n) == CHOOSE i \in K : Place(s, K, i) = n
             f == [n \in 1 .. N |-> at(n)]
             u == Sorted(s, K)
  <1>1. /\ N \in Nat
        /\ \A i \in K : Place(s, K, i) \in 1 .. N
        /\ \A i, j \in K : Before(s, i, j) => Place(s, K, i) < Place(s, K, j)
        /\ \A n \in 1 .. N : \E i \in K : Place(s, K, i) = n
    BY PlacesAreRanks
  <1>2. \A n \in 1 .. N : at(n) \in K /\ Place(s, K, at(n)) = n
    BY <1>1
  <1>3. u = [n \in 1 .. N |-> s[at(n)]]
    BY DEF Sorted
  <1>4. \A n \in 1 .. N : s[at(n)] \in Record
    BY <1>2, LineIsRecord
  <1>5. u \in Seq(Record) /\ DOMAIN u = 1 .. N
    <2> HIDE DEF at
    <2> QED
      BY <1>1, <1>3, <1>4
  <1>6. /\ f \in [1 .. N -> DOMAIN s]
        /\ \A n \in 1 .. N : f[n] \in K /\ Place(s, K, f[n]) = n /\ u[n] = s[f[n]]
    <2> HIDE DEF at
    <2> QED
      BY <1>2, <1>3
  <1> HIDE DEF N, f, u
  <1>7. \A i, j \in 1 .. N : i # j => f[i] # f[j]
    BY <1>6
  <1>8. ASSUME NEW i \in 1 .. N, NEW j \in 1 .. N PROVE Before(s, f[i], f[j]) <=> i < j
    <2>1. i \in Int /\ j \in Int
      BY <1>1
    <2>2. Before(s, f[i], f[j]) => i < j
      BY <1>1, <1>6
    <2>3. Before(s, f[j], f[i]) => j < i
      BY <1>1, <1>6
    <2>4. i # j => Before(s, f[i], f[j]) \/ Before(s, f[j], f[i])
      BY <1>6, <1>7, BeforeIsLinear
    <2> QED
      BY <2>1, <2>2, <2>3, <2>4
  <1>9. ASSUME NEW i \in 1 .. N, NEW j \in 1 .. N PROVE Before(u, i, j) <=> Before(s, f[i], f[j])
    <2>1. f[i] \in DOMAIN s /\ f[j] \in DOMAIN s /\ u[i] = s[f[i]] /\ u[j] = s[f[j]]
      BY <1>6
    <2>2. /\ s[f[i]].ts \in Int /\ s[f[j]].ts \in Int
      BY <2>1, LineIsRecord
    <2>3. /\ s[f[i]].ts < s[f[j]].ts => Before(s, f[i], f[j])
          /\ Before(s, f[i], f[j]) => s[f[i]].ts <= s[f[j]].ts
      BY <2>1, BeforeIsLinear
    <2>4. Before(u, i, j) <=> s[f[i]].ts < s[f[j]].ts \/ (s[f[i]].ts = s[f[j]].ts /\ i < j)
      BY <2>1 DEF Before
    <2> QED
      BY <1>8, <2>2, <2>3, <2>4
  <1>10. f \in [DOMAIN u -> DOMAIN s] /\ Embedding(f, u, s)
    BY <1>5, <1>6, <1>7, <1>9 DEF Embedding
  <1>11. \A n \in DOMAIN u : f[n] \in K
    BY <1>5, <1>6
  <1>12. \A i \in K : \E n \in DOMAIN u : f[n] = i
    <2> SUFFICES ASSUME NEW i \in K PROVE \E n \in 1 .. N : f[n] = i
      BY <1>5
    <2>1. Place(s, K, i) \in 1 .. N
      BY <1>1
    <2> DEFINE n == Place(s, K, i)
    <2>2. f[n] \in K /\ Place(s, K, f[n]) = n
      BY <1>6, <2>1
    <2>3. n \in Int
      BY <1>1, <2>1
    <2>4. ~Before(s, f[n], i) /\ ~Before(s, i, f[n])
      BY <1>1, <2>2, <2>3
    <2>5. f[n] = i
      BY <2>2, <2>4, BeforeIsLinear
    <2> QED
      BY <2>1, <2>5
  <1> QED
    BY <1>5, <1>10, <1>11, <1>12 DEF u

\* The lines of an incident in a part of a file are its lines in the file.
LEMMA EmbeddedLines ==
  ASSUME NEW s \in Seq(Record), NEW t \in Seq(Record),
         NEW e \in [DOMAIN s -> DOMAIN t], Embedding(e, s, t),
         NEW k, NEW i \in DOMAIN s
  PROVE  /\ e[i] \in DOMAIN t /\ s[i].ts = t[e[i]].ts
         /\ i \in Alerts(k, s) <=> e[i] \in Alerts(k, t)
         /\ i \in Recoveries(k, s) <=> e[i] \in Recoveries(k, t)
  BY DEF Embedding, Alerts, Recoveries

LEMMA EmbeddingsCompose ==
  ASSUME NEW s \in Seq(Record), NEW t \in Seq(Record), NEW u \in Seq(Record),
         NEW e \in [DOMAIN s -> DOMAIN t], Embedding(e, s, t),
         NEW f \in [DOMAIN u -> DOMAIN s], Embedding(f, u, s),
         NEW g \in [DOMAIN u -> DOMAIN t], \A i \in DOMAIN u : g[i] = e[f[i]]
  PROVE  Embedding(g, u, t)
  <1>1. \A i \in DOMAIN u : f[i] \in DOMAIN s
    OBVIOUS
  <1>2. \A i \in DOMAIN u : u[i] = t[g[i]]
    BY <1>1 DEF Embedding
  <1>3. \A i, j \in DOMAIN u : i # j => g[i] # g[j]
    BY <1>1 DEF Embedding
  <1>4. \A i, j \in DOMAIN u : Before(u, i, j) <=> Before(t, g[i], g[j])
    BY <1>1 DEF Embedding
  <1> QED
    BY <1>2, <1>3, <1>4 DEF Embedding

\* A line at the end of a file.
LEMMA AppendedLine ==
  ASSUME NEW s \in Seq(Record), NEW r \in Record
  PROVE  LET a == Append(s, r)
             n == Len(s) + 1
         IN  /\ a \in Seq(Record)
             /\ DOMAIN a = DOMAIN s \cup {n} /\ n \notin DOMAIN s /\ n \in DOMAIN a
             /\ a[n] = r
             /\ \A i \in DOMAIN s : a[i] = s[i]
             /\ \A i, j \in DOMAIN s : Before(a, i, j) <=> Before(s, i, j)
             /\ \A i \in DOMAIN s : Before(a, i, n) <=> s[i].ts <= r.ts
             /\ \A i \in DOMAIN s : Before(a, n, i) <=> r.ts < s[i].ts
             /\ ~Before(a, n, n)
             /\ \A k : Alerts(k, a) = IF r.event = "alert" /\ r.incident = k
                                      THEN Alerts(k, s) \cup {n} ELSE Alerts(k, s)
             /\ \A k : Recoveries(k, a) = IF r.event = "recovery" /\ r.incident = k
                                          THEN Recoveries(k, s) \cup {n} ELSE Recoveries(k, s)
  <1> DEFINE a == Append(s, r)
             n == Len(s) + 1
  <1>1. /\ a \in Seq(Record)
        /\ DOMAIN a = DOMAIN s \cup {n} /\ n \notin DOMAIN s /\ n \in DOMAIN a
        /\ a[n] = r
        /\ \A i \in DOMAIN s : a[i] = s[i]
        /\ \A i \in DOMAIN s : i \in Int /\ i < n
        /\ n \in Int
    OBVIOUS
  <1>2. \A i \in DOMAIN s : s[i].ts \in Int
    BY LineIsRecord
  <1>3. r.ts \in Int
    BY <1>1, LineIsRecord
  <1> HIDE DEF a, n
  <1>4. \A i, j \in DOMAIN s : Before(a, i, j) <=> Before(s, i, j)
    BY <1>1 DEF Before
  <1>5. \A i \in DOMAIN s : Before(a, i, n) <=> s[i].ts <= r.ts
    BY <1>1, <1>2, <1>3 DEF Before
  <1>6. \A i \in DOMAIN s : Before(a, n, i) <=> r.ts < s[i].ts
    BY <1>1, <1>2, <1>3 DEF Before
  <1>7. ~Before(a, n, n)
    BY <1>1, <1>3 DEF Before
  <1>8. \A k : Alerts(k, a) = IF r.event = "alert" /\ r.incident = k
                              THEN Alerts(k, s) \cup {n} ELSE Alerts(k, s)
    BY <1>1 DEF Alerts
  <1>9. \A k : Recoveries(k, a) = IF r.event = "recovery" /\ r.incident = k
                                  THEN Recoveries(k, s) \cup {n} ELSE Recoveries(k, s)
    BY <1>1 DEF Recoveries
  <1> QED
    BY <1>1, <1>4, <1>5, <1>6, <1>7, <1>8, <1>9 DEF a, n

-----------------------------------------------------------------------------
(* A file that summarises the stream. *)

\* A file that summarises the stream says the same of what is open.
LEMMA SummaryOpen ==
  ASSUME NEW s \in Seq(Record), NEW t \in Seq(Record), NEW c \in Int,
         NEW e \in [DOMAIN s -> DOMAIN t], Summary(c, s, t, e),
         NEW k \in Incidents, Alerts(k, s) # {}
  PROVE  Open(k, s) <=> Open(k, t)
  <1> USE DEF Summary
  <1>1. ASSUME Open(k, s) PROVE Open(k, t)
    <2>1. PICK a \in Alerts(k, s) : \A r \in Recoveries(k, s) : Before(s, r, a)
      BY <1>1 DEF Open
    <2>2. a \in DOMAIN s /\ e[a] \in Alerts(k, t) /\ e[a] \in DOMAIN t
      <3>1. a \in DOMAIN s
        BY DEF Alerts
      <3> QED
        BY <3>1, EmbeddedLines
    <2>3. ASSUME NEW r \in Recoveries(k, t) PROVE Before(t, r, e[a])
      <3>1. r \in DOMAIN t /\ r # e[a]
        BY <2>2 DEF Alerts, Recoveries
      <3>2. ASSUME Before(t, e[a], r) PROVE FALSE
        <4>1. PICK q \in Recoveries(k, s) : Before(s, a, q)
          BY <3>2 DEF RecoveredStays
        <4>2. q \in DOMAIN s /\ Before(s, q, a)
          BY <2>1 DEF Recoveries
        <4> QED
          BY <2>2, <4>1, <4>2, BeforeIsLinear
      <3> QED
        BY <2>2, <3>1, <3>2, BeforeIsLinear
    <2> QED
      BY <2>2, <2>3 DEF Open
  <1>2. ASSUME Open(k, t) PROVE Open(k, s)
    <2>1. PICK m \in Alerts(k, t) : \A r \in Recoveries(k, t) : Before(t, r, m)
      BY <1>2 DEF Open
    <2>2. PICK i \in Alerts(k, s) : TRUE
      OBVIOUS
    <2>3. i \in DOMAIN s /\ e[i] \in DOMAIN t /\ m \in DOMAIN t
      BY DEF Alerts
    <2>4. \E a \in Alerts(k, s) : \A r \in Recoveries(k, t) : Before(t, r, e[a])
      <3>1. CASE Before(t, e[i], m)
        <4>1. PICK a \in DOMAIN s : e[a] = m
          BY <3>1 DEF LaterAlertsKept
        <4>2. a \in Alerts(k, s)
          BY <4>1, EmbeddedLines
        <4> QED
          BY <2>1, <4>1, <4>2
      <3>2. CASE ~Before(t, e[i], m)
        <4>1. m = e[i] \/ Before(t, m, e[i])
          BY <2>3, <3>2, BeforeIsLinear
        <4>2. ASSUME NEW r \in Recoveries(k, t) PROVE Before(t, r, e[i])
          <5>1. r \in DOMAIN t /\ Before(t, r, m)
            BY <2>1 DEF Recoveries
          <5> QED
            BY <2>3, <4>1, <5>1, BeforeIsLinear
        <4> QED
          BY <4>2
      <3> QED
        BY <3>1, <3>2
    <2>5. PICK a \in Alerts(k, s) : \A r \in Recoveries(k, t) : Before(t, r, e[a])
      BY <2>4
    <2>6. ASSUME NEW r \in Recoveries(k, s) PROVE Before(s, r, a)
      <3>1. r \in DOMAIN s /\ a \in DOMAIN s
        BY DEF Alerts, Recoveries
      <3>2. e[r] \in Recoveries(k, t)
        BY <3>1, EmbeddedLines
      <3> QED
        BY <2>5, <3>1, <3>2 DEF Embedding
    <2> QED
      BY <2>6 DEF Open
  <1> QED
    BY <1>1, <1>2

\* ... and of what was seen within the window.
LEMMA SummarySeen ==
  ASSUME NEW s \in Seq(Record), NEW t \in Seq(Record), NEW c \in Int,
         NEW e \in [DOMAIN s -> DOMAIN t], Summary(c, s, t, e), NEW k \in Incidents
  PROVE  SeenSince(c, k, s) <=> SeenSince(c, k, t)
  <1> USE DEF Summary
  <1>1. ASSUME NEW a \in Alerts(k, s), s[a].ts >= c PROVE SeenSince(c, k, t)
    <2>1. a \in DOMAIN s
      BY DEF Alerts
    <2>2. e[a] \in Alerts(k, t) /\ t[e[a]].ts >= c
      BY <1>1, <2>1, EmbeddedLines
    <2> QED
      BY <2>2 DEF SeenSince
  <1>2. ASSUME NEW m \in Alerts(k, t), t[m].ts >= c PROVE SeenSince(c, k, s)
    <2>1. m \in DOMAIN t
      BY DEF Alerts
    <2>2. PICK a \in DOMAIN s : e[a] = m
      BY <1>2, <2>1 DEF HasWindow
    <2>3. a \in Alerts(k, s) /\ s[a].ts >= c
      BY <1>2, <2>2, EmbeddedLines
    <2> QED
      BY <2>3 DEF SeenSince
  <1> QED
    BY <1>1, <1>2 DEF SeenSince

\* A recovery within the window closes its incident in the file too, unless a newer
\* alert is within the window.
LEMMA SummaryClosed ==
  ASSUME NEW s \in Seq(Record), NEW t \in Seq(Record), NEW c \in Int,
         NEW e \in [DOMAIN s -> DOMAIN t], Summary(c, s, t, e),
         NEW k \in Incidents, Alerts(k, s) # {}
  PROVE  /\ ClosedSince(c, k, s) => ClosedSince(c, k, t)
         /\ ClosedSince(c, k, t) => ClosedSince(c, k, s) \/ (Open(k, s) /\ SeenSince(c, k, s))
  <1> USE DEF Summary
  <1>1. ASSUME ClosedSince(c, k, s) PROVE ClosedSince(c, k, t)
    <2>1. PICK a \in Alerts(k, s), r \in Recoveries(k, s) : Before(s, a, r) /\ s[r].ts >= c
      BY <1>1 DEF ClosedSince
    <2>2. a \in DOMAIN s /\ r \in DOMAIN s
      BY DEF Alerts, Recoveries
    <2>3. e[a] \in Alerts(k, t) /\ e[r] \in Recoveries(k, t) /\ t[e[r]].ts >= c
      BY <2>1, <2>2, EmbeddedLines
    <2>4. Before(t, e[a], e[r])
      BY <2>1, <2>2 DEF Embedding
    <2> QED
      BY <2>3, <2>4 DEF ClosedSince
  <1>2. ASSUME ClosedSince(c, k, t), ~ClosedSince(c, k, s)
        PROVE  Open(k, s) /\ SeenSince(c, k, s)
    <2>1. PICK m \in Alerts(k, t), n \in Recoveries(k, t) : Before(t, m, n) /\ t[n].ts >= c
      BY <1>2 DEF ClosedSince
    <2>2. n \in DOMAIN t
      BY DEF Recoveries
    <2>3. PICK q \in DOMAIN s : e[q] = n
      BY <2>1, <2>2 DEF HasWindow
    <2>4. q \in Recoveries(k, s) /\ s[q].ts >= c
      BY <2>1, <2>3, EmbeddedLines
    <2>5. ASSUME NEW a \in Alerts(k, s) PROVE s[a].ts >= c
      <3>1. a \in DOMAIN s /\ a # q
        BY <2>4 DEF Alerts, Recoveries
      <3>2. ~Before(s, a, q)
        BY <1>2, <2>4 DEF ClosedSince
      <3>3. Before(s, q, a)
        BY <3>1, <3>2, BeforeIsLinear
      <3>4. s[q].ts <= s[a].ts
        BY <3>1, <3>3, BeforeIsLinear
      <3>5. s[q].ts \in Int /\ s[a].ts \in Int
        BY <3>1, LineIsRecord
      <3> QED
        BY <2>4, <3>4, <3>5
    <2>6. PICK a \in Alerts(k, s) : TRUE
      OBVIOUS
    <2>7. ASSUME NEW r \in Recoveries(k, s) PROVE Before(s, r, a)
      <3>1. a \in DOMAIN s /\ r \in DOMAIN s /\ a # r
        BY DEF Alerts, Recoveries
      <3>2. ASSUME Before(s, a, r) PROVE FALSE
        <4>1. s[a].ts <= s[r].ts /\ s[a].ts \in Int /\ s[r].ts \in Int /\ s[a].ts >= c
          BY <2>5, <3>1, <3>2, BeforeIsLinear, LineIsRecord
        <4>2. s[r].ts >= c
          BY <4>1
        <4> QED
          BY <1>2, <3>2, <4>2 DEF ClosedSince
      <3> QED
        BY <3>1, <3>2, BeforeIsLinear
    <2> QED
      BY <2>5, <2>6, <2>7 DEF Open, SeenSince
  <1> QED
    BY <1>1, <1>2

\* What a file shows is what the stream it summarises would.
LEMMA SummaryShows ==
  ASSUME NEW s \in Seq(Record), NEW t \in Seq(Record), NEW c \in Int,
         NEW e \in [DOMAIN s -> DOMAIN t], Summary(c, s, t, e), NEW k \in Incidents
  PROVE  ShownSince(c, k, s) = ShownSince(c, k, t)
  <1>1. CASE Alerts(k, s) = {}
    <2>1. ~Open(k, s) /\ ~ClosedSince(c, k, s) /\ ~SeenSince(c, k, s)
      BY <1>1 DEF Open, ClosedSince, SeenSince
    <2>2. ~ClosedSince(c, k, t) /\ ~(k \in Managed /\ Open(k, t))
      BY <1>1 DEF Summary, ForgottenIsOver
    <2>3. ~SeenSince(c, k, t)
      BY <2>1, SummarySeen
    <2> QED
      BY <2>1, <2>2, <2>3 DEF ShownSince
  <1>2. CASE Alerts(k, s) # {}
    <2>1. Open(k, s) <=> Open(k, t)
      BY <1>2, SummaryOpen
    <2>2. SeenSince(c, k, s) <=> SeenSince(c, k, t)
      BY SummarySeen
    <2>3. /\ ClosedSince(c, k, s) => ClosedSince(c, k, t)
          /\ ClosedSince(c, k, t) => ClosedSince(c, k, s) \/ (Open(k, s) /\ SeenSince(c, k, s))
      BY <1>2, SummaryClosed
    <2> QED
      BY <2>1, <2>2, <2>3 DEF ShownSince
  <1> QED
    BY <1>1, <1>2

\* The window only shrinks from below.
LEMMA SummaryLater ==
  ASSUME NEW s \in Seq(Record), NEW t \in Seq(Record), NEW c \in Int, NEW d \in Int, c <= d,
         NEW e \in [DOMAIN s -> DOMAIN t], Summary(c, s, t, e)
  PROVE  Summary(d, s, t, e)
  <1>1. \A n \in DOMAIN t : t[n].ts \in Int
    BY LineIsRecord
  <1>2. HasWindow(d, s, t, e)
    <2>1. \A n \in DOMAIN t : t[n].ts >= d => t[n].ts >= c
      BY <1>1
    <2>2. HasWindow(c, s, t, e)
      BY DEF Summary
    <2> QED
      BY <2>1, <2>2 DEF HasWindow
  <1>3. ASSUME NEW k \in Incidents, ClosedSince(d, k, t) PROVE ClosedSince(c, k, t)
    <2>1. \A r \in Recoveries(k, t) : r \in DOMAIN t
      BY DEF Recoveries
    <2> QED
      BY <1>1, <1>3, <2>1 DEF ClosedSince
  <1>4. ForgottenIsOver(d, s, t)
    BY <1>3 DEF Summary, ForgottenIsOver
  <1> QED
    BY <1>2, <1>4 DEF Summary

\* What compaction keeps is embedded in what it reads.
LEMMA KeptIsEmbedded ==
  ASSUME NEW s \in Seq(Record), NEW d
  PROVE  /\ Kept(d, s) \in Seq(Record)
         /\ \E f \in [DOMAIN Kept(d, s) -> DOMAIN s] :
              /\ Embedding(f, Kept(d, s), s)
              /\ \A n \in DOMAIN Kept(d, s) : f[n] \in KeptLines(d, s)
              /\ \A i \in KeptLines(d, s) : \E n \in DOMAIN Kept(d, s) : f[n] = i
  <1>1. KeptLines(d, s) \in SUBSET DOMAIN s
    BY DEF KeptLines
  <1> QED
    BY <1>1, SortedIsEmbedded DEF Kept

\* Compaction keeps a summary, with the window of its reader or with a later one.
LEMMA SummaryKept ==
  ASSUME NEW s \in Seq(Record), NEW t \in Seq(Record), NEW c \in Int, NEW d \in Int, d <= c,
         NEW e \in [DOMAIN s -> DOMAIN t], Summary(c, s, t, e)
  PROVE  Kept(d, s) \in Seq(Record) /\ Summarised(c, Kept(d, s), t)
  <1> DEFINE K == KeptLines(d, s)
             u == Kept(d, s)
  <1>2. /\ u \in Seq(Record)
        /\ \E f \in [DOMAIN u -> DOMAIN s] :
             /\ Embedding(f, u, s)
             /\ \A n \in DOMAIN u : f[n] \in K
             /\ \A i \in K : \E n \in DOMAIN u : f[n] = i
    BY KeptIsEmbedded
  <1> HIDE DEF K, u
  <1>3. PICK f \in [DOMAIN u -> DOMAIN s] :
             /\ Embedding(f, u, s)
             /\ \A n \in DOMAIN u : f[n] \in K
             /\ \A i \in K : \E n \in DOMAIN u : f[n] = i
    BY <1>2
  <1> DEFINE g == [i \in DOMAIN u |-> e[f[i]]]
  <1>4. g \in [DOMAIN u -> DOMAIN t] /\ \A i \in DOMAIN u : g[i] = e[f[i]] /\ f[i] \in DOMAIN s
    OBVIOUS
  <1> HIDE DEF g
  <1>5. Embedding(g, u, t)
    BY <1>2, <1>3, <1>4, EmbeddingsCompose DEF Summary
  <1>6. \A i \in DOMAIN s : s[i].ts \in Int /\ e[i] \in DOMAIN t /\ s[i].ts = t[e[i]].ts
    BY LineIsRecord DEF Summary, Embedding
  <1>7. ASSUME NEW i \in DOMAIN s, s[i].ts >= d PROVE i \in K
    BY <1>7 DEF K, KeptLines
  <1>8. ASSUME NEW k \in Incidents, NEW i \in Alerts(k, s), i \in K
        PROVE  i \in DOMAIN s /\ (s[i].ts >= d \/ Anchor(d, k, s, i))
    <2>1. i \in DOMAIN s /\ s[i].incident = k
      BY DEF Alerts
    <2>2. \A j \in Incidents : Anchor(d, j, s, i) => s[i].incident = j
      BY DEF Anchor, Alerts
    <2> QED
      BY <1>8, <2>1, <2>2 DEF K, KeptLines
  <1>9. HasWindow(c, u, t, g)
    <2> SUFFICES ASSUME NEW n \in DOMAIN t, t[n].ts >= c
                 PROVE  \E i \in DOMAIN u : g[i] = n
      BY DEF HasWindow
    <2>1. PICK i \in DOMAIN s : e[i] = n
      BY DEF Summary, HasWindow
    <2>2. s[i].ts >= d
      BY <1>6, <2>1
    <2>3. PICK j \in DOMAIN u : f[j] = i
      BY <1>3, <1>7, <2>2
    <2> QED
      BY <1>4, <2>1, <2>3
  <1>10. ASSUME NEW k \in Incidents, NEW x \in Alerts(k, u)
         PROVE  /\ x \in DOMAIN u /\ f[x] \in Alerts(k, s) /\ f[x] \in K
                /\ f[x] \in DOMAIN s /\ g[x] = e[f[x]]
    <2>1. x \in DOMAIN u
      BY DEF Alerts
    <2> QED
      BY <1>2, <1>3, <1>4, <2>1, EmbeddedLines
  <1>11. LaterAlertsKept(u, t, g)
    <2> SUFFICES ASSUME NEW k \in Incidents, NEW x \in Alerts(k, u), NEW n \in Alerts(k, t),
                        Before(t, g[x], n)
                 PROVE  \E i \in DOMAIN u : g[i] = n
      BY DEF LaterAlertsKept
    <2> DEFINE a == f[x]
    <2>1. a \in Alerts(k, s) /\ a \in K /\ a \in DOMAIN s /\ g[x] = e[a]
      BY <1>10
    <2>2. PICK i \in DOMAIN s : e[i] = n
      BY <2>1 DEF Summary, LaterAlertsKept
    <2>3. i \in Alerts(k, s) /\ Before(s, a, i)
      BY <2>1, <2>2, EmbeddedLines DEF Summary, Embedding
    <2>4. ~Anchor(d, k, s, a)
      <3>1. ~(i = a \/ Before(s, i, a))
        BY <2>1, <2>2, <2>3, BeforeIsLinear
      <3> QED
        BY <2>3, <3>1 DEF Anchor
    <2>5. s[a].ts >= d /\ s[a].ts <= s[i].ts
      BY <1>8, <2>1, <2>2, <2>3, <2>4, BeforeIsLinear
    <2>6. i \in K
      BY <1>6, <1>7, <2>1, <2>2, <2>5
    <2>7. PICK j \in DOMAIN u : f[j] = i
      BY <1>3, <2>6
    <2> QED
      BY <1>4, <2>2, <2>7
  <1>12. RecoveredStays(u, t, g)
    <2> SUFFICES ASSUME NEW k \in Incidents, NEW x \in Alerts(k, u), NEW n \in Recoveries(k, t),
                        Before(t, g[x], n)
                 PROVE  \E y \in Recoveries(k, u) : Before(u, x, y)
      BY DEF RecoveredStays
    <2> DEFINE a == f[x]
    <2>1. a \in Alerts(k, s) /\ a \in K /\ a \in DOMAIN s /\ g[x] = e[a] /\ x \in DOMAIN u
      BY <1>10
    <2>2. PICK r \in Recoveries(k, s) : Before(s, a, r)
      BY <2>1 DEF Summary, RecoveredStays
    <2>3. r \in DOMAIN s
      BY DEF Recoveries
    <2>4. \E q \in Recoveries(k, s) : Before(s, a, q) /\ s[q].ts >= d
      <3>1. CASE s[a].ts >= d
        <4>1. s[r].ts >= d
          BY <1>6, <2>1, <2>2, <2>3, <3>1, BeforeIsLinear
        <4> QED
          BY <2>2, <4>1
      <3>2. CASE ~(s[a].ts >= d)
        <4>1. Anchor(d, k, s, a)
          BY <1>8, <2>1, <3>2
        <4>2. ~Open(k, s)
          <5>1. ASSUME NEW m \in Alerts(k, s), \A q \in Recoveries(k, s) : Before(s, q, m)
                PROVE  FALSE
            <6>1. m \in DOMAIN s /\ Before(s, r, m)
              BY <5>1 DEF Alerts
            <6>2. m = a \/ Before(s, m, a)
              BY <4>1 DEF Anchor
            <6> QED
              BY <2>1, <2>2, <2>3, <6>1, <6>2, BeforeIsLinear
          <5> QED
            BY <5>1 DEF Open
        <4>3. PICK q \in Recoveries(k, s) : s[q].ts >= d
          BY <4>1, <4>2 DEF Anchor
        <4>4. q \in DOMAIN s
          BY DEF Recoveries
        <4>5. s[a].ts < s[q].ts
          BY <1>6, <2>1, <3>2, <4>3, <4>4
        <4>6. Before(s, a, q)
          BY <2>1, <4>4, <4>5, BeforeIsLinear
        <4> QED
          BY <4>3, <4>6
      <3> QED
        BY <3>1, <3>2
    <2>5. PICK q \in Recoveries(k, s) : Before(s, a, q) /\ s[q].ts >= d
      BY <2>4
    <2>6. q \in DOMAIN s
      BY DEF Recoveries
    <2>7. PICK y \in DOMAIN u : f[y] = q
      BY <1>3, <1>7, <2>5, <2>6
    <2>8. y \in Recoveries(k, u)
      BY <1>2, <1>3, <2>7, EmbeddedLines
    <2>9. Before(u, x, y)
      BY <1>3, <2>1, <2>5, <2>7 DEF Embedding
    <2> QED
      BY <2>8, <2>9
  <1>13. ForgottenIsOver(c, u, t)
    <2> SUFFICES ASSUME NEW k \in Incidents, Alerts(k, u) = {}
                 PROVE  ~(k \in Managed /\ Open(k, t)) /\ ~ClosedSince(c, k, t)
      BY DEF ForgottenIsOver
    <2>1. CASE Alerts(k, s) = {}
      BY <2>1 DEF Summary, ForgottenIsOver
    <2>2. CASE Alerts(k, s) # {}
      <3>1. PICK i \in Alerts(k, s) : \A a \in Alerts(k, s) : a = i \/ Before(s, a, i)
        <4>1. Alerts(k, s) \in SUBSET DOMAIN s
          BY DEF Alerts
        <4> QED
          BY <2>2, <4>1, NewestExists
      <3>2. i \in DOMAIN s
        BY DEF Alerts
      <3>3. i \notin K
        <4>1. ASSUME i \in K PROVE FALSE
          <5>1. PICK y \in DOMAIN u : f[y] = i
            BY <1>3, <4>1
          <5>2. y \in Alerts(k, u)
            BY <1>2, <1>3, <5>1, EmbeddedLines
          <5> QED
            BY <5>2
        <4> QED
          BY <4>1
      <3>4. ~Anchor(d, k, s, i)
        BY <3>2, <3>3 DEF K, KeptLines
      <3>5. ~(k \in Managed /\ Open(k, s))
        BY <3>1, <3>4 DEF Anchor
      <3>6. \A r \in Recoveries(k, s) : ~(s[r].ts >= d)
        BY <3>1, <3>4 DEF Anchor
      <3>7. Open(k, s) <=> Open(k, t)
        BY <2>2, SummaryOpen
      <3>8. ASSUME ClosedSince(c, k, t) PROVE FALSE
        <4>1. PICK n \in Recoveries(k, t) : t[n].ts >= c
          BY <3>8 DEF ClosedSince
        <4>2. n \in DOMAIN t
          BY DEF Recoveries
        <4>3. PICK q \in DOMAIN s : e[q] = n
          BY <4>1, <4>2 DEF Summary, HasWindow
        <4>4. q \in Recoveries(k, s)
          BY <4>3, EmbeddedLines DEF Summary
        <4>5. s[q].ts >= d
          BY <1>6, <4>1, <4>3
        <4> QED
          BY <3>6, <4>4, <4>5
      <3> QED
        BY <3>5, <3>7, <3>8
    <2> QED
      BY <2>1, <2>2
  <1>14. Summary(c, u, t, g)
    BY <1>5, <1>9, <1>11, <1>12, <1>13 DEF Summary
  <1> QED
    BY <1>2, <1>4, <1>14 DEF Summarised, u

\* A line within the window is appended to the stream and to its summary, a recovery
\* only beside an alert that it closes.
LEMMA SummaryAppend ==
  ASSUME NEW s \in Seq(Record), NEW t \in Seq(Record), NEW c \in Int,
         NEW e \in [DOMAIN s -> DOMAIN t], Summary(c, s, t, e),
         NEW r \in Record, r.ts >= c, r.event = "recovery" => Alerts(r.incident, s) # {}
  PROVE  Summarised(c, Append(s, r), Append(t, r))
  <1> DEFINE a == Append(s, r)
             b == Append(t, r)
             x == Len(s) + 1
             y == Len(t) + 1
             g == [i \in DOMAIN a |-> IF i = x THEN y ELSE e[i]]
  <1>1. /\ a \in Seq(Record)
        /\ DOMAIN a = DOMAIN s \cup {x} /\ x \notin DOMAIN s /\ x \in DOMAIN a
        /\ a[x] = r
        /\ \A i \in DOMAIN s : a[i] = s[i]
        /\ \A i, j \in DOMAIN s : Before(a, i, j) <=> Before(s, i, j)
        /\ \A i \in DOMAIN s : Before(a, i, x) <=> s[i].ts <= r.ts
        /\ \A i \in DOMAIN s : Before(a, x, i) <=> r.ts < s[i].ts
        /\ ~Before(a, x, x)
    BY AppendedLine
  <1>2. \A k : Alerts(k, a) = IF r.event = "alert" /\ r.incident = k
                              THEN Alerts(k, s) \cup {x} ELSE Alerts(k, s)
    BY AppendedLine
  <1>3. \A k : Recoveries(k, a) = IF r.event = "recovery" /\ r.incident = k
                                  THEN Recoveries(k, s) \cup {x} ELSE Recoveries(k, s)
    BY AppendedLine
  <1>4. /\ b \in Seq(Record)
        /\ DOMAIN b = DOMAIN t \cup {y} /\ y \notin DOMAIN t /\ y \in DOMAIN b
        /\ b[y] = r
        /\ \A i \in DOMAIN t : b[i] = t[i]
        /\ \A i, j \in DOMAIN t : Before(b, i, j) <=> Before(t, i, j)
        /\ \A i \in DOMAIN t : Before(b, i, y) <=> t[i].ts <= r.ts
        /\ \A i \in DOMAIN t : Before(b, y, i) <=> r.ts < t[i].ts
        /\ ~Before(b, y, y)
    BY AppendedLine
  <1>5. \A k : Alerts(k, b) = IF r.event = "alert" /\ r.incident = k
                              THEN Alerts(k, t) \cup {y} ELSE Alerts(k, t)
    BY AppendedLine
  <1>6. \A k : Recoveries(k, b) = IF r.event = "recovery" /\ r.incident = k
                                  THEN Recoveries(k, t) \cup {y} ELSE Recoveries(k, t)
    BY AppendedLine
  <1>7. /\ \A i \in DOMAIN s : e[i] \in DOMAIN t /\ s[i] = t[e[i]]
        /\ \A i, j \in DOMAIN s : i # j => e[i] # e[j]
        /\ \A i, j \in DOMAIN s : Before(s, i, j) <=> Before(t, e[i], e[j])
    BY DEF Summary, Embedding
  <1>8. r.ts \in Int /\ \A n \in DOMAIN t : t[n].ts \in Int
    BY <1>1, LineIsRecord
  <1> HIDE DEF a, b, x, y
  <1>9. g \in [DOMAIN a -> DOMAIN b] /\ g[x] = y /\ \A i \in DOMAIN s : g[i] = e[i]
    BY <1>1, <1>4, <1>7
  <1> HIDE DEF g
  <1>10. Embedding(g, a, b)
    <2>1. \A i \in DOMAIN a : a[i] = b[g[i]]
      BY <1>1, <1>4, <1>7, <1>9
    <2>2. \A i, j \in DOMAIN a : i # j => g[i] # g[j]
      BY <1>1, <1>4, <1>7, <1>9
    <2>3. \A i, j \in DOMAIN a : Before(a, i, j) <=> Before(b, g[i], g[j])
      <3> SUFFICES ASSUME NEW i \in DOMAIN a, NEW j \in DOMAIN a
                   PROVE  Before(a, i, j) <=> Before(b, g[i], g[j])
        OBVIOUS
      <3>1. CASE i \in DOMAIN s /\ j \in DOMAIN s
        BY <1>1, <1>4, <1>7, <1>9, <3>1
      <3>2. CASE i \in DOMAIN s /\ j = x
        BY <1>1, <1>4, <1>7, <1>9, <3>2
      <3>3. CASE i = x /\ j \in DOMAIN s
        BY <1>1, <1>4, <1>7, <1>9, <3>3
      <3>4. CASE i = x /\ j = x
        BY <1>1, <1>4, <1>9, <3>4
      <3> QED
        BY <1>1, <3>1, <3>2, <3>3, <3>4
    <2> QED
      BY <1>9, <2>1, <2>2, <2>3 DEF Embedding
  <1>11. ASSUME NEW n \in DOMAIN b, b[n].ts >= c PROVE \E i \in DOMAIN a : g[i] = n
    <2>1. CASE n = y
      BY <1>1, <1>9, <2>1
    <2>2. CASE n \in DOMAIN t
      <3>1. PICK i \in DOMAIN s : e[i] = n
        BY <1>4, <1>11, <2>2 DEF Summary, HasWindow
      <3> QED
        BY <1>1, <1>9, <3>1
    <2> QED
      BY <1>4, <2>1, <2>2
  <1>12. HasWindow(c, a, b, g)
    BY <1>11 DEF HasWindow
  <1>13. ASSUME NEW n \in DOMAIN b, Before(b, y, n) PROVE \E i \in DOMAIN a : g[i] = n
    <2>1. n \in DOMAIN t /\ r.ts < t[n].ts
      BY <1>4, <1>13
    <2>2. b[n].ts >= c
      BY <1>4, <1>8, <2>1
    <2> QED
      BY <1>11, <2>2
  <1>14. LaterAlertsKept(a, b, g)
    <2> SUFFICES ASSUME NEW k \in Incidents, NEW i \in Alerts(k, a), NEW n \in Alerts(k, b),
                        Before(b, g[i], n)
                 PROVE  \E j \in DOMAIN a : g[j] = n
      BY DEF LaterAlertsKept
    <2>1. i \in DOMAIN a /\ n \in DOMAIN b
      BY DEF Alerts
    <2>2. CASE i = x
      BY <1>9, <1>13, <2>1, <2>2
    <2>3. CASE n = y
      BY <1>1, <1>9, <2>3
    <2>4. CASE i # x /\ n # y
      <3>1. i \in Alerts(k, s) /\ n \in Alerts(k, t) /\ i \in DOMAIN s /\ n \in DOMAIN t
        BY <1>1, <1>2, <1>4, <1>5, <2>1, <2>4
      <3>2. Before(t, e[i], n)
        BY <1>4, <1>7, <1>9, <3>1
      <3>3. PICK j \in DOMAIN s : e[j] = n
        BY <3>1, <3>2 DEF Summary, LaterAlertsKept
      <3> QED
        BY <1>1, <1>9, <3>3
    <2> QED
      BY <2>2, <2>3, <2>4
  <1>15. RecoveredStays(a, b, g)
    <2> SUFFICES ASSUME NEW k \in Incidents, NEW i \in Alerts(k, a), NEW n \in Recoveries(k, b),
                        Before(b, g[i], n)
                 PROVE  \E q \in Recoveries(k, a) : Before(a, i, q)
      BY DEF RecoveredStays
    <2>1. i \in DOMAIN a /\ n \in DOMAIN b
      BY DEF Alerts, Recoveries
    <2>2. ASSUME NEW j \in DOMAIN a, g[j] = n PROVE j \in Recoveries(k, a) /\ Before(a, i, j)
      <3>1. j \in Recoveries(k, a)
        BY <1>1, <1>4, <1>9, <1>10, <2>2, EmbeddedLines
      <3>2. Before(a, i, j)
        BY <1>10, <2>1, <2>2 DEF Embedding
      <3> QED
        BY <3>1, <3>2
    <2>3. CASE i = x
      BY <1>9, <1>13, <2>1, <2>2, <2>3
    <2>4. CASE n = y
      BY <1>1, <1>9, <2>2, <2>4
    <2>5. CASE i # x /\ n # y
      <3>1. i \in Alerts(k, s) /\ n \in Recoveries(k, t) /\ i \in DOMAIN s /\ n \in DOMAIN t
        BY <1>1, <1>2, <1>4, <1>6, <2>1, <2>5
      <3>2. Before(t, e[i], n)
        BY <1>4, <1>7, <1>9, <3>1
      <3>3. PICK q \in Recoveries(k, s) : Before(s, i, q)
        BY <3>1, <3>2 DEF Summary, RecoveredStays
      <3>4. q \in DOMAIN s /\ q \in Recoveries(k, a)
        BY <1>3 DEF Recoveries
      <3> QED
        BY <1>1, <3>1, <3>3, <3>4
    <2> QED
      BY <2>3, <2>4, <2>5
  <1>16. ForgottenIsOver(c, a, b)
    <2> SUFFICES ASSUME NEW k \in Incidents, Alerts(k, a) = {}
                 PROVE  ~(k \in Managed /\ Open(k, b)) /\ ~ClosedSince(c, k, b)
      BY DEF ForgottenIsOver
    <2>1. Alerts(k, s) = {}
      BY <1>2
    <2>2. r.incident # k
      <3>1. r.event \in {"alert", "recovery"}
        BY DEF Record
      <3> QED
        BY <1>2, <2>1, <3>1
    <2>3. Alerts(k, b) = Alerts(k, t) /\ Recoveries(k, b) = Recoveries(k, t)
      BY <1>5, <1>6, <2>2
    <2>4. \A i \in Alerts(k, t) \cup Recoveries(k, t) : i \in DOMAIN t
      BY DEF Alerts, Recoveries
    <2>5. Open(k, b) => Open(k, t)
      BY <1>4, <2>3, <2>4 DEF Open
    <2>6. ClosedSince(c, k, b) => ClosedSince(c, k, t)
      BY <1>4, <2>3, <2>4 DEF ClosedSince
    <2> QED
      BY <2>1, <2>5, <2>6 DEF Summary, ForgottenIsOver
  <1>17. Summary(c, a, b, g)
    BY <1>10, <1>12, <1>14, <1>15, <1>16 DEF Summary
  <1> QED
    BY <1>9, <1>17 DEF Summarised, a, b

-----------------------------------------------------------------------------
(* The invariant. *)

\* What a writer is at: a record, a compaction or nothing.
LEMMA OpKinds ==
  ASSUME NEW o \in Record \cup {PruneOp, NoOp}
  PROVE  /\ o.event \in {"alert", "recovery", "prune", "none"}
         /\ o.event \in {"alert", "recovery"} <=> o \in Record
         /\ o.event = "prune" <=> o = PruneOp
         /\ o \in Record => o.ts \in Int /\ o.incident \in Incidents
  <1>1. o \in Record => o.event \in {"alert", "recovery"} /\ o.ts \in Int /\ o.incident \in Incidents
    BY AlertAssumption DEF Record
  <1>2. PruneOp.event = "prune" /\ NoOp.event = "none"
    BY DEF PruneOp, NoOp
  <1> QED
    BY <1>1, <1>2

LEMMA KeptIsFile ==
  ASSUME NEW s \in Seq(Record), NEW c
  PROVE  Kept(c, s) \in Seq(Record)
  <1>1. KeptLines(c, s) \in SUBSET DOMAIN s
    BY DEF KeptLines
  <1> QED
    BY <1>1, SortedIsEmbedded DEF Kept

LEMMA TypeInit == Init => TypeOK
  <1>1. 0 \in 0 .. MaxClock /\ 0 \in 0 .. MaxFaults
    BY AlertAssumption
  <1>2. <<>> \in Seq(Record)
    OBVIOUS
  <1> QED
    BY <1>1, <1>2 DEF Init, TypeOK, NoView

LEMMA TypeStep == TypeOK /\ [Next]_vars => TypeOK'
  <1> SUFFICES ASSUME TypeOK, [Next]_vars PROVE TypeOK'
    OBVIOUS
  <1> USE DEF TypeOK
  <1>1. <<>> \in Seq(Record) /\ NoOp \in Record \cup {PruneOp, NoOp}
    OBVIOUS
  <1>2. ASSUME NEW w \in Writers, BeginPrune(w) PROVE TypeOK'
    BY <1>2 DEF BeginPrune, Begin, Goto
  <1>3. ASSUME NEW w \in Writers, NEW event \in {"alert", "recovery"}, NEW k \in Incidents,
               Emit(w, event, k)
        PROVE  TypeOK'
    <2> DEFINE r == [event |-> event, incident |-> k, ts |-> now]
    <2>1. r \in Record
      BY DEF Record
    <2> HIDE DEF r
    <2> QED
      BY <1>3, <2>1 DEF Emit, Begin, Goto, r
  <1>4. ASSUME NEW w \in Writers, Acquire(w) \/ SeeStale(w) \/ Break(w) \/ GiveUp(w) PROVE TypeOK'
    BY <1>1, <1>4 DEF Acquire, SeeStale, Break, GiveUp, Goto
  <1>5. ASSUME NEW w \in Writers, op[w] \in Record
        PROVE  Append(store, op[w]) \in Seq(Record) /\ Append(recorded, op[w]) \in Seq(Record)
    BY <1>5
  <1>6. \A w \in Writers : op[w].event \in {"alert", "recovery"} => op[w] \in Record
    BY OpKinds
  <1>7. ASSUME NEW w \in Writers, RecordAlert(w) PROVE TypeOK'
    BY <1>1, <1>5, <1>6, <1>7 DEF RecordAlert, AppendLine, Done, Goto
  <1>8. ASSUME NEW w \in Writers, ReadFile(w) PROVE TypeOK'
    <2>1. Kept(Cutoff, store) \in Seq(Record)
      BY KeptIsFile
    <2> QED
      BY <1>8, <2>1 DEF ReadFile, Goto
  <1>9. ASSUME NEW w \in Writers, RecordRecoveryIfActive(w) PROVE TypeOK'
    BY <1>1, <1>5, <1>6, <1>9 DEF RecordRecoveryIfActive, AppendLine, Done, Goto, NoView
  <1>10. ASSUME NEW w \in Writers, ReplaceFile(w) PROVE TypeOK'
    BY <1>1, <1>10 DEF ReplaceFile, Done, Goto, NoView
  <1>11. ASSUME NEW w \in Writers, CheckToken(w) \/ Unlink(w) PROVE TypeOK'
    BY <1>1, <1>11 DEF CheckToken, Unlink, Goto
  <1>12. ASSUME NEW w \in Writers, Crash(w) PROVE TypeOK'
    <2>1. faults' \in 0 .. MaxFaults
      BY <1>12, AlertAssumption DEF Crash
    <2> QED
      BY <1>1, <1>12, <2>1 DEF Crash, Goto, NoView
  <1>13. CASE LockAges \/ Overstay
    <2>1. CASE LockAges
      BY <2>1 DEF LockAges
    <2>2. CASE Overstay
      <3>1. faults' \in 0 .. MaxFaults
        BY <2>2, AlertAssumption DEF Overstay
      <3> QED
        BY <2>2, <3>1 DEF Overstay
    <2> QED
      BY <1>13, <2>1, <2>2
  <1>14. CASE Tick
    <2>1. now' \in 0 .. MaxClock
      BY <1>14, AlertAssumption DEF Tick
    <2> QED
      BY <1>14, <2>1 DEF Tick
  <1>15. CASE UNCHANGED vars
    BY <1>15 DEF vars
  <1> QED
    BY <1>2, <1>3, <1>4, <1>7, <1>8, <1>9, <1>10, <1>11, <1>12, <1>13, <1>14, <1>15
       DEF Next, Request, Proceed

LEMMA StampsStep ==
  ASSUME TypeOK, StampsFresh, [Next]_vars
  PROVE  StampsFresh'
  <1> USE DEF TypeOK
  <1>1. now \in Int /\ MaxWait \in Nat
    BY AlertAssumption
  <1>2. \A w \in Writers : op[w] \in Record => op[w].ts \in Int /\ op[w].event \in {"alert", "recovery"}
    BY OpKinds
  <1>3. NoOp \notin Record /\ PruneOp \notin Record
    BY OpKinds DEF NoOp, PruneOp
  <1>4. ASSUME UNCHANGED <<op, now>> PROVE StampsFresh'
    BY <1>4 DEF StampsFresh
  <1>5. ASSUME NEW w \in Writers, NEW o \in {NoOp, PruneOp}, op' = [op EXCEPT ![w] = o], now' = now
        PROVE  StampsFresh'
    <2>1. \A v \in Writers : op'[v] = IF v = w THEN o ELSE op[v]
      BY <1>5
    <2>2. o \notin Record
      BY <1>3, <1>5
    <2> QED
      BY <1>5, <2>1, <2>2 DEF StampsFresh
  <1>6. ASSUME NEW w \in Writers, NEW event \in {"alert", "recovery"}, NEW k \in Incidents,
               Emit(w, event, k)
        PROVE  StampsFresh'
    <2> DEFINE r == [event |-> event, incident |-> k, ts |-> now]
    <2>1. r.ts = now
      OBVIOUS
    <2>2. op' = [op EXCEPT ![w] = r] /\ now' = now
      BY <1>6 DEF Emit, Begin
    <2> HIDE DEF r
    <2>3. \A v \in Writers : op'[v] = IF v = w THEN r ELSE op[v]
      BY <2>2
    <2> QED
      BY <1>1, <2>1, <2>2, <2>3 DEF StampsFresh
  <1>7. CASE Tick
    <2>1. op' = op /\ now' = now + 1
      BY <1>7 DEF Tick
    <2>2. \A w \in Writers : op[w] \in Record => now < op[w].ts + MaxWait
      BY <1>2, <1>7 DEF Tick
    <2> QED
      BY <1>1, <1>2, <2>1, <2>2 DEF StampsFresh
  <1>8. ASSUME NEW w \in Writers,
               \/ BeginPrune(w) \/ GiveUp(w) \/ Crash(w)
               \/ RecordAlert(w) \/ RecordRecoveryIfActive(w) \/ ReplaceFile(w)
        PROVE  StampsFresh'
    BY <1>5, <1>8 DEF BeginPrune, Begin, GiveUp, Crash,
                      RecordAlert, RecordRecoveryIfActive, ReplaceFile, Done
  <1>9. ASSUME NEW w \in Writers,
               Acquire(w) \/ SeeStale(w) \/ Break(w) \/ ReadFile(w) \/ CheckToken(w) \/ Unlink(w)
        PROVE  StampsFresh'
    BY <1>4, <1>9 DEF Acquire, SeeStale, Break, ReadFile, CheckToken, Unlink
  <1>10. CASE LockAges \/ Overstay \/ UNCHANGED vars
    BY <1>4, <1>10 DEF LockAges, Overstay, vars
  <1> QED
    BY <1>6, <1>7, <1>8, <1>9, <1>10 DEF Next, Request, Proceed

\* Until the lock file of a writer at work is removed, whoever is under the lock has it.
LEMMA LockStep ==
  ASSUME TypeOK, LockHeld, ~breached', [Next]_vars
  PROVE  LockHeld'
  <1> USE DEF TypeOK
  <1> DEFINE under == {"hold", "write", "release", "unlink"}
  <1>1. ASSUME NEW w \in Writers, NEW label, pc' = [pc EXCEPT ![w] = label], lock' = lock,
               label \in under => pc[w] \in under
        PROVE  LockHeld'
    BY <1>1 DEF LockHeld
  <1>2. ASSUME NEW w \in Writers, NEW event, NEW k, Emit(w, event, k) PROVE LockHeld'
    BY <1>1, <1>2 DEF Emit, Begin, Goto
  <1>3. ASSUME NEW w \in Writers, BeginPrune(w) \/ SeeStale(w) \/ GiveUp(w) PROVE LockHeld'
    BY <1>1, <1>3 DEF BeginPrune, Begin, SeeStale, GiveUp, Goto
  <1>4. ASSUME NEW w \in Writers,
               RecordAlert(w) \/ ReadFile(w) \/ RecordRecoveryIfActive(w) \/ ReplaceFile(w)
        PROVE  LockHeld'
    BY <1>1, <1>4 DEF RecordAlert, ReadFile, RecordRecoveryIfActive, ReplaceFile, Done, Goto
  <1>5. ASSUME NEW w \in Writers, CheckToken(w) PROVE LockHeld'
    BY <1>1, <1>5 DEF CheckToken, Goto
  <1>6. ASSUME NEW w \in Writers, Acquire(w) PROVE LockHeld'
    <2>1. pc' = [pc EXCEPT ![w] = "hold"] /\ lock = "none" /\ lock' = w
      BY <1>6 DEF Acquire, Goto
    <2>2. \A v \in Writers : v # "none"
      BY AlertAssumption
    <2> QED
      BY <2>1, <2>2 DEF LockHeld
  <1>7. ASSUME NEW w \in Writers, Break(w) PROVE LockHeld'
    <2>1. breached' = (breached \/ lock \in Writers)
      BY <1>7 DEF Break
    <2>2. lock \notin Writers
      BY <2>1, Zenon
    <2>3. pc' = [pc EXCEPT ![w] = "wait"]
      BY <1>7 DEF Break, Goto
    <2>4. \A v \in Writers : pc[v] \notin under
      BY <2>2 DEF LockHeld
    <2>5. \A v \in Writers : pc'[v] \notin under
      BY <2>3, <2>4
    <2> QED
      BY <2>5 DEF LockHeld
  <1>8. ASSUME NEW w \in Writers, Unlink(w) PROVE LockHeld'
    <2>1. pc[w] = "unlink" /\ pc' = [pc EXCEPT ![w] = "idle"] /\ lock = w
      BY <1>8 DEF Unlink, Goto, LockHeld
    <2> QED
      BY <2>1 DEF LockHeld
  <1>9. ASSUME NEW w \in Writers, Crash(w) PROVE LockHeld'
    BY <1>9 DEF Crash, Goto, LockHeld
  <1>10. CASE LockAges \/ Overstay
    BY <1>10 DEF LockAges, Overstay, LockHeld
  <1>11. CASE Tick \/ UNCHANGED vars
    BY <1>11 DEF Tick, vars, LockHeld
  <1> QED
    BY <1>2, <1>3, <1>4, <1>5, <1>6, <1>7, <1>8, <1>9, <1>10, <1>11 DEF Next, Request, Proceed

LEMMA CutoffType == TypeOK => Cutoff \in Int /\ now \in Int
  BY AlertAssumption DEF TypeOK, Cutoff

LEMMA CutoffRises ==
  ASSUME TypeOK, now' = now \/ now' = now + 1
  PROVE  Cutoff' \in Int /\ Cutoff <= Cutoff'
  <1>1. now \in Int /\ Retention \in Int
    BY AlertAssumption DEF TypeOK
  <1>2. CASE now' = now
    BY <1>1, <1>2 DEF Cutoff
  <1>3. CASE now' = now + 1
    <2>1. Cutoff' = (now + 1) - Retention
      BY <1>3 DEF Cutoff
    <2> QED
      BY <1>1, <2>1 DEF Cutoff
  <1> QED
    BY <1>2, <1>3

\* What a writer read under the lock stays what the file holds.
LEMMA CopyStep ==
  ASSUME TypeOK, LockHeld, CopyCurrent, [Next]_vars
  PROVE  CopyCurrent'
  <1> USE DEF TypeOK
  <1> DEFINE Copied(v) ==
        \/ op[v] \in Record /\ op[v].event = "recovery" /\ view[v] = store
        \/ op[v] = PruneOp /\ \E c \in Int : c <= Cutoff /\ view[v] = Kept(c, store)
  <1>1. Cutoff \in Int
    BY CutoffType
  <1>2. ASSUME NEW v \in Writers, pc[v] = "write", pc'[v] = "write",
               store' = store, op'[v] = op[v], view'[v] = view[v], now' = now \/ now' = now + 1
        PROVE  Copied(v)'
    <2>1. Copied(v)
      BY <1>2 DEF CopyCurrent
    <2>2. Cutoff' \in Int /\ Cutoff <= Cutoff'
      BY <1>2, CutoffRises
    <2>3. CASE op[v] \in Record
      BY <1>2, <2>1, <2>3, OpKinds DEF PruneOp
    <2>4. CASE op[v] \notin Record
      <3>1. PICK c \in Int : c <= Cutoff /\ view[v] = Kept(c, store)
        BY <2>1, <2>4
      <3>2. c <= Cutoff'
        BY <1>1, <2>2, <3>1
      <3>3. op'[v] = PruneOp /\ view'[v] = Kept(c, store')
        BY <1>2, <2>1, <2>4, <3>1
      <3> QED
        BY <3>2, <3>3
    <2> QED
      BY <2>3, <2>4
  <1>3. ASSUME \A v \in Writers : pc'[v] = "write" =>
                  /\ pc[v] = "write" /\ op'[v] = op[v] /\ view'[v] = view[v],
               store' = store, now' = now \/ now' = now + 1
        PROVE  CopyCurrent'
    BY <1>2, <1>3 DEF CopyCurrent
  <1>4. ASSUME NEW w \in Writers, NEW label, label # "write", pc' = [pc EXCEPT ![w] = label],
               \A v \in Writers \ {w} : op'[v] = op[v] /\ view'[v] = view[v],
               now' = now, pc[w] \in {"hold", "write"} \/ store' = store
        PROVE  CopyCurrent'
    <2>1. CASE store' = store
      BY <1>3, <1>4, <2>1
    <2>2. CASE pc[w] \in {"hold", "write"}
      <3>1. \A v \in Writers : pc'[v] # "write"
        BY <1>4, <2>2 DEF LockHeld
      <3> QED
        BY <3>1 DEF CopyCurrent
    <2> QED
      BY <1>4, <2>1, <2>2
  <1>5. ASSUME NEW w \in Writers, NEW event, NEW k, Emit(w, event, k) PROVE CopyCurrent'
    BY <1>4, <1>5 DEF Emit, Begin, Goto
  <1>6. ASSUME NEW w \in Writers, BeginPrune(w) \/ Acquire(w) \/ SeeStale(w) \/ Break(w) \/ GiveUp(w)
        PROVE  CopyCurrent'
    BY <1>4, <1>6 DEF BeginPrune, Begin, Acquire, SeeStale, Break, GiveUp, Goto
  <1>7. ASSUME NEW w \in Writers, RecordAlert(w) \/ RecordRecoveryIfActive(w) \/ ReplaceFile(w)
        PROVE  CopyCurrent'
    BY <1>4, <1>7 DEF RecordAlert, RecordRecoveryIfActive, ReplaceFile, Done, Goto
  <1>8. ASSUME NEW w \in Writers, CheckToken(w) \/ Unlink(w) \/ Crash(w) PROVE CopyCurrent'
    BY <1>4, <1>8 DEF CheckToken, Unlink, Crash, Goto
  <1>9. ASSUME NEW w \in Writers, ReadFile(w) PROVE CopyCurrent'
    <2>1. /\ pc[w] = "hold" /\ op[w].event \in {"recovery", "prune"}
          /\ pc' = [pc EXCEPT ![w] = "write"]
          /\ view' = [view EXCEPT ![w] = IF op[w].event = "prune" THEN Kept(Cutoff, store) ELSE store]
          /\ op' = op /\ store' = store /\ now' = now
      BY <1>9 DEF ReadFile, Goto
    <2>2. Copied(w)'
      <3>1. Cutoff' = Cutoff
        BY <2>1 DEF Cutoff
      <3>2. CASE op[w].event = "prune"
        <4>1. op'[w] = PruneOp /\ view'[w] = Kept(Cutoff, store')
          BY <2>1, <3>2, OpKinds
        <4> QED
          BY <1>1, <3>1, <4>1
      <3>3. CASE op[w].event = "recovery"
        <4>1. op[w] \in Record
          BY <3>3, OpKinds
        <4> QED
          BY <2>1, <3>3, <4>1
      <3> QED
        BY <2>1, <3>2, <3>3
    <2>3. ASSUME NEW v \in Writers, v # w PROVE pc'[v] # "write"
      BY <2>1, <2>3 DEF LockHeld
    <2> QED
      BY <2>2, <2>3 DEF CopyCurrent
  <1>10. CASE LockAges \/ Overstay \/ Tick \/ UNCHANGED vars
    BY <1>3, <1>10 DEF LockAges, Overstay, Tick, vars
  <1> QED
    BY <1>5, <1>6, <1>7, <1>8, <1>9, <1>10 DEF Next, Request, Proceed

\* A record is appended within its window.
LEMMA FreshRecord ==
  ASSUME TypeOK, StampsFresh, NEW w \in Writers, op[w] \in Record
  PROVE  op[w].ts >= Cutoff
  <1>1. op[w].ts \in Int /\ now \in Int /\ MaxWait \in Int /\ Retention \in Int /\ MaxWait < Retention
    BY OpKinds, AlertAssumption DEF TypeOK
  <1>2. now <= op[w].ts + MaxWait
    BY DEF StampsFresh
  <1> QED
    BY <1>1, <1>2 DEF Cutoff

LEMMA SummaryStep ==
  ASSUME TypeOK, StampsFresh, CopyCurrent, Summarised(Cutoff, store, recorded), [Next]_vars
  PROVE  Summarised(Cutoff, store, recorded)'
  <1>1. store \in Seq(Record) /\ recorded \in Seq(Record) /\ op \in [Writers -> Record \cup {PruneOp, NoOp}]
    BY DEF TypeOK
  <1>2. Cutoff \in Int
    BY CutoffType
  <1>3. PICK e \in [DOMAIN store -> DOMAIN recorded] : Summary(Cutoff, store, recorded, e)
    BY DEF Summarised
  <1>4. ASSUME UNCHANGED <<store, recorded>>, now' = now \/ now' = now + 1
        PROVE  Summarised(Cutoff, store, recorded)'
    <2>1. Cutoff' \in Int /\ Cutoff <= Cutoff'
      BY <1>4, CutoffRises
    <2>2. Summary(Cutoff', store, recorded, e)
      BY <1>1, <1>2, <1>3, <2>1, SummaryLater
    <2>3. Summarised(Cutoff', store, recorded)
      BY <2>2 DEF Summarised
    <2> QED
      BY <1>4, <2>3
  <1>5. ASSUME NEW w \in Writers, op[w] \in Record, AppendLine(op[w]), now' = now,
               op[w].event = "recovery" => Alerts(op[w].incident, store) # {}
        PROVE  Summarised(Cutoff, store, recorded)'
    <2>1. op[w].ts >= Cutoff
      BY <1>5, FreshRecord
    <2>2. Summarised(Cutoff, Append(store, op[w]), Append(recorded, op[w]))
      BY <1>1, <1>2, <1>3, <1>5, <2>1, SummaryAppend
    <2>3. Cutoff' = Cutoff
      BY <1>5 DEF Cutoff
    <2> QED
      BY <1>5, <2>2, <2>3 DEF AppendLine
  <1>6. ASSUME NEW w \in Writers, RecordAlert(w) PROVE Summarised(Cutoff, store, recorded)'
    <2>1. op[w].event = "alert" /\ AppendLine(op[w]) /\ now' = now
      BY <1>6 DEF RecordAlert
    <2>2. op[w] \in Record
      BY <1>1, <2>1, OpKinds
    <2> QED
      BY <1>5, <2>1, <2>2
  <1>7. ASSUME NEW w \in Writers, RecordRecoveryIfActive(w)
        PROVE  Summarised(Cutoff, store, recorded)'
    <2>1. pc[w] = "write" /\ op[w].event = "recovery" /\ now' = now
      BY <1>7 DEF RecordRecoveryIfActive
    <2>2. op[w] \in Record /\ op[w] # PruneOp
      BY <1>1, <2>1, OpKinds
    <2>3. view[w] = store
      BY <2>1, <2>2 DEF CopyCurrent
    <2>4. CASE Active(op[w].incident, store)
      <3>1. AppendLine(op[w])
        BY <1>7, <2>3, <2>4 DEF RecordRecoveryIfActive
      <3>2. Alerts(op[w].incident, store) # {}
        BY <2>4 DEF Active
      <3> QED
        BY <1>5, <2>1, <2>2, <3>1, <3>2
    <2>5. CASE ~Active(op[w].incident, store)
      BY <1>4, <1>7, <2>1, <2>3, <2>5 DEF RecordRecoveryIfActive
    <2> QED
      BY <2>4, <2>5
  <1>8. ASSUME NEW w \in Writers, ReplaceFile(w) PROVE Summarised(Cutoff, store, recorded)'
    <2>1. /\ pc[w] = "write" /\ op[w].event = "prune"
          /\ store' = view[w] /\ recorded' = recorded /\ now' = now
      BY <1>8 DEF ReplaceFile
    <2>2. op[w] = PruneOp /\ op[w] \notin Record
      BY <1>1, <2>1, OpKinds
    <2>3. PICK c \in Int : c <= Cutoff /\ view[w] = Kept(c, store)
      BY <2>1, <2>2 DEF CopyCurrent
    <2>4. Summarised(Cutoff, Kept(c, store), recorded)
      BY <1>1, <1>2, <1>3, <2>3, SummaryKept
    <2>5. Cutoff' = Cutoff
      BY <2>1 DEF Cutoff
    <2> QED
      BY <2>1, <2>3, <2>4, <2>5
  <1>9. ASSUME NEW w \in Writers, NEW event, NEW k, Emit(w, event, k)
        PROVE  Summarised(Cutoff, store, recorded)'
    BY <1>4, <1>9 DEF Emit, Begin
  <1>10. ASSUME NEW w \in Writers,
                \/ BeginPrune(w) \/ Acquire(w) \/ SeeStale(w) \/ Break(w) \/ GiveUp(w)
                \/ ReadFile(w) \/ CheckToken(w) \/ Unlink(w) \/ Crash(w)
         PROVE  Summarised(Cutoff, store, recorded)'
    BY <1>4, <1>10 DEF BeginPrune, Begin, Acquire, SeeStale, Break, GiveUp, ReadFile,
                       CheckToken, Unlink, Crash
  <1>11. CASE LockAges \/ Overstay \/ Tick \/ UNCHANGED vars
    BY <1>4, <1>11 DEF LockAges, Overstay, Tick, vars
  <1> QED
    BY <1>6, <1>7, <1>8, <1>9, <1>10, <1>11 DEF Next, Request, Proceed

LEMMA BreachIsForever == TypeOK /\ [Next]_vars /\ ~breached' => ~breached
  <1> SUFFICES ASSUME TypeOK, [Next]_vars, ~breached' PROVE ~breached
    OBVIOUS
  <1>1. breached' = breached \/ \E w \in Writers : Break(w)
    BY DEF Next, Request, Proceed, Emit, BeginPrune, Begin, Acquire, SeeStale, GiveUp, RecordAlert,
           ReadFile, RecordRecoveryIfActive, ReplaceFile, CheckToken, Unlink, Crash, LockAges,
           Overstay, Tick, vars
  <1>2. ASSUME NEW w \in Writers, Break(w) PROVE ~breached
    BY <1>2, Zenon DEF Break
  <1> QED
    BY <1>1, <1>2, Zenon

LEMMA InvInit == Init => StoreInv
  <1> SUFFICES ASSUME Init PROVE StoreInv
    OBVIOUS
  <1>1. TypeOK
    BY TypeInit
  <1>2. StampsFresh
    <2>1. \A w \in Writers : op[w] = NoOp
      BY DEF Init
    <2>2. NoOp \notin Record
      BY OpKinds DEF NoOp
    <2> QED
      BY <2>1, <2>2 DEF StampsFresh
  <1>3. LockHeld /\ CopyCurrent
    BY DEF Init, LockHeld, CopyCurrent
  <1>4. Summarised(Cutoff, store, recorded)
    <2> DEFINE e == [i \in {} |-> i]
    <2>1. store = <<>> /\ recorded = <<>> /\ DOMAIN store = {} /\ DOMAIN recorded = {}
      BY DEF Init
    <2>2. e \in [DOMAIN store -> DOMAIN recorded]
      BY <2>1
    <2> HIDE DEF e
    <2>3. \A k : Alerts(k, store) = {} /\ Alerts(k, recorded) = {}
      BY <2>1 DEF Alerts
    <2>4. Embedding(e, store, recorded)
      BY <2>1, <2>2 DEF Embedding
    <2>5. HasWindow(Cutoff, store, recorded, e)
      BY <2>1 DEF HasWindow
    <2>6. LaterAlertsKept(store, recorded, e) /\ RecoveredStays(store, recorded, e)
      BY <2>3 DEF LaterAlertsKept, RecoveredStays
    <2>7. ForgottenIsOver(Cutoff, store, recorded)
      BY <2>3 DEF ForgottenIsOver, Open, ClosedSince
    <2> QED
      BY <2>2, <2>4, <2>5, <2>6, <2>7 DEF Summarised, Summary
  <1> QED
    BY <1>1, <1>2, <1>3, <1>4 DEF StoreInv, Faithful

LEMMA InvStep == StoreInv /\ [Next]_vars => StoreInv'
  <1> SUFFICES ASSUME StoreInv, [Next]_vars PROVE StoreInv'
    OBVIOUS
  <1>1. TypeOK' /\ StampsFresh'
    BY TypeStep, StampsStep DEF StoreInv
  <1>2. ASSUME ~breached' PROVE LockHeld' /\ CopyCurrent' /\ Summarised(Cutoff, store, recorded)'
    <2>1. ~breached
      BY <1>2, BreachIsForever DEF StoreInv
    <2>2. LockHeld /\ CopyCurrent /\ Summarised(Cutoff, store, recorded)
      BY <2>1 DEF StoreInv, Faithful
    <2> QED
      BY <1>2, <2>2, LockStep, CopyStep, SummaryStep DEF StoreInv
  <1> QED
    BY <1>1, <1>2 DEF StoreInv, Faithful

-----------------------------------------------------------------------------
(* The theorems. *)

\* The file and its writers are as Init starts them and the operations leave them: a
\* lock file is a writer's or a dead one's, and what is written is a record.
THEOREM TypeCorrect == Spec => []TypeOK
  <1>1. TypeOK /\ [Next]_vars => TypeOK'
    BY TypeStep
  <1> QED
    BY TypeInit, <1>1, PTL DEF Spec

\* The invariant: until some waiter has removed the lock file of a writer at work (one
\* held for over thirty seconds, or one that came after the stale file the waiter saw),
\* a writer under the lock has it, what it read is what the file holds, and the file
\* summarises the stream of all records (the lock of prune_alert_store, record_alert
\* and record_recovery_if_active).
THEOREM StoreSummarises == Spec => []StoreInv
  BY InvInit, InvStep, PTL DEF Spec

\* Two writers are under the lock together only after a waiter has removed the lock file
\* of a writer at work: dead writers, and lock files that grow old, never suffice alone
\* (_cross_process_lock).
THEOREM OneWriterUnderLock ==
  Spec => [](~breached => \A v, w \in Writers :
               /\ pc[v] \in {"hold", "write", "release", "unlink"}
               /\ pc[w] \in {"hold", "write", "release", "unlink"}
               => v = w)
  <1>1. StoreInv => (~breached => \A v, w \in Writers :
               /\ pc[v] \in {"hold", "write", "release", "unlink"}
               /\ pc[w] \in {"hold", "write", "release", "unlink"}
               => v = w)
    BY DEF StoreInv, Faithful, LockHeld
  <1> QED
    BY <1>1, StoreSummarises, PTL

\* Until then no record within the retention window is lost to a compaction, whatever is
\* logged between its copy and its swap, and whoever dies (prune_alert_store).
THEOREM WindowSurvives == Spec => []LockedAppendsSurvive
  <1>1. ASSUME StoreInv PROVE LockedAppendsSurvive
    <2> SUFFICES ASSUME ~breached, NEW i \in DOMAIN recorded, recorded[i].ts >= Cutoff
                 PROVE  \E j \in DOMAIN store : store[j] = recorded[i]
      BY DEF LockedAppendsSurvive, AppendsSurvive
    <2>1. PICK e \in [DOMAIN store -> DOMAIN recorded] : Summary(Cutoff, store, recorded, e)
      BY <1>1 DEF StoreInv, Faithful, Summarised
    <2>2. PICK j \in DOMAIN store : e[j] = i
      BY <2>1 DEF Summary, HasWindow
    <2>3. store[j] = recorded[i]
      BY <2>1, <2>2 DEF Summary, Embedding
    <2> QED
      BY <2>3
  <1> QED
    BY <1>1, StoreSummarises, PTL

\* Until then the dashboard reads of the file what it would of the whole stream: no
\* open incident is silently resolved, none comes back, and no recovery loses the alert
\* it closes (prune_alert_store and load_alert_incidents).
THEOREM CompactionInvisible == Spec => []CompactionIsInvisible
  <1>1. ASSUME StoreInv PROVE CompactionIsInvisible
    <2> SUFFICES ASSUME ~breached, NEW k \in Incidents
                 PROVE  Shown(k, store) = Shown(k, recorded)
      BY DEF CompactionIsInvisible
    <2>1. PICK e \in [DOMAIN store -> DOMAIN recorded] : Summary(Cutoff, store, recorded, e)
      BY <1>1 DEF StoreInv, Faithful, Summarised
    <2>2. store \in Seq(Record) /\ recorded \in Seq(Record)
      BY <1>1 DEF StoreInv, TypeOK
    <2>3. Cutoff \in Int
      BY <1>1, CutoffType DEF StoreInv
    <2> QED
      BY <2>1, <2>2, <2>3, SummaryShows DEF Shown
  <1> QED
    BY <1>1, StoreSummarises, PTL

\* In a file whose lines are in the order of their stamps, a health check that is newer
\* than all of them leaves its incident closed, with or without a line of its own.
LEMMA ProbeStep ==
  ASSUME StoreInv, [Next]_vars, NEW w \in Writers,
         pc[w] = "write", op[w].event = "recovery", pc'[w] = "release", ~breached,
         InOrder(store), \A i \in DOMAIN store : store[i].ts < op[w].ts
  PROVE  Shown(op[w].incident, store') # "active"
  <1> DEFINE k == op[w].incident
             r == op[w]
  <1>1. store \in Seq(Record) /\ r \in Record /\ r # PruneOp /\ r.ts \in Int
    BY OpKinds DEF StoreInv, TypeOK
  <1>2. view[w] = store
    BY <1>1 DEF StoreInv, Faithful, CopyCurrent
  <1>3. pc \in [Writers -> {"idle", "wait", "break", "hold", "write", "release", "unlink"}]
    BY DEF StoreInv, TypeOK
  <1>4. RecordRecoveryIfActive(w)
    <2>1. ASSUME NEW v \in Writers, NEW label, pc' = [pc EXCEPT ![v] = label], v # w \/ label # "release"
          PROVE  FALSE
      BY <1>3, <2>1
    <2>2. ASSUME pc' = pc PROVE FALSE
      BY <2>2
    <2>3. \A v \in Writers :
            /\ Request(v) => \E label \in {"wait"} : pc' = [pc EXCEPT ![v] = label]
            /\ Acquire(v) \/ SeeStale(v) \/ Break(v) \/ ReadFile(v) \/ CheckToken(v) \/ Unlink(v)
                 \/ GiveUp(v) \/ Crash(v)
                 => \E label \in {"hold", "break", "wait", "write", "unlink", "idle"} :
                      pc' = [pc EXCEPT ![v] = label]
            /\ RecordAlert(v) => pc[v] = "hold" /\ pc' = [pc EXCEPT ![v] = "release"]
            /\ RecordRecoveryIfActive(v) => pc' = [pc EXCEPT ![v] = "release"]
            /\ ReplaceFile(v) => op[v].event = "prune" /\ pc' = [pc EXCEPT ![v] = "release"]
      BY DEF Request, Emit, BeginPrune, Begin, Acquire, SeeStale, Break, ReadFile, CheckToken,
             Unlink, GiveUp, Crash, RecordAlert, RecordRecoveryIfActive, ReplaceFile, Done, Goto
    <2>4. LockAges \/ Overstay \/ Tick \/ UNCHANGED vars => pc' = pc
      BY DEF LockAges, Overstay, Tick, vars
    <2>5. ~(LockAges \/ Overstay \/ Tick \/ UNCHANGED vars)
      BY <2>2, <2>4
    <2>6. PICK v \in Writers : Request(v) \/ Proceed(v) \/ GiveUp(v) \/ Crash(v)
      BY <2>5 DEF Next
    <2>7. ~Request(v)
      BY <2>1, <2>3
    <2>8. ~(Acquire(v) \/ SeeStale(v) \/ Break(v) \/ ReadFile(v) \/ CheckToken(v) \/ Unlink(v)
             \/ GiveUp(v) \/ Crash(v))
      BY <2>1, <2>3
    <2>9. ~RecordAlert(v) /\ ~ReplaceFile(v)
      BY <2>1, <2>3
    <2>10. RecordRecoveryIfActive(v)
      BY <2>6, <2>7, <2>8, <2>9 DEF Proceed
    <2> QED
      BY <2>1, <2>3, <2>10
  <1>5. ~Open(k, store')
    <2>1. CASE Active(k, store)
      <3>1. store' = Append(store, r)
        BY <1>2, <1>4, <2>1 DEF RecordRecoveryIfActive, AppendLine
      <3> DEFINE a == Append(store, r)
                 n == Len(store) + 1
      <3>2. /\ Alerts(k, a) = Alerts(k, store)
            /\ Recoveries(k, a) = Recoveries(k, store) \cup {n}
            /\ \A i \in DOMAIN store : Before(a, n, i) <=> r.ts < store[i].ts
        BY <1>1, AppendedLine
      <3> HIDE DEF a, n
      <3>3. ASSUME NEW i \in Alerts(k, store) PROVE ~Before(a, n, i)
        <4>1. i \in DOMAIN store /\ store[i].ts < r.ts
          BY DEF Alerts
        <4>2. store[i].ts \in Int
          BY <1>1, <4>1, LineIsRecord
        <4> QED
          BY <1>1, <3>2, <4>1, <4>2
      <3>4. ~Open(k, a)
        BY <3>2, <3>3 DEF Open
      <3> QED
        BY <3>1, <3>4 DEF a
    <2>2. CASE ~Active(k, store)
      <3>1. store' = store
        BY <1>2, <1>4, <2>2 DEF RecordRecoveryIfActive
      <3>2. ASSUME NEW i \in Alerts(k, store), \A q \in Recoveries(k, store) : Before(store, q, i)
            PROVE  FALSE
        <4>1. ASSUME NEW q \in Recoveries(k, store) PROVE q < i
          <5>1. q \in DOMAIN store /\ i \in DOMAIN store /\ Before(store, q, i)
            BY <3>2 DEF Alerts, Recoveries
          <5>2. q \in Int /\ i \in Int /\ store[q].ts \in Int /\ store[i].ts \in Int
            BY <1>1, <5>1, LineIsRecord
          <5>3. i < q => store[i].ts <= store[q].ts
            BY <5>1 DEF InOrder
          <5> QED
            BY <5>1, <5>2, <5>3 DEF Before
        <4> QED
          BY <2>2, <4>1 DEF Active
      <3> QED
        BY <3>1, <3>2 DEF Open
    <2> QED
      BY <2>1, <2>2
  <1> QED
    BY <1>5 DEF Shown, ShownSince

\* A health check logged after every record of an ordered file closes its incident
\* until a writer at work loses its lock file (record_recovery_if_active).
THEOREM ProbeClosesIncident == Spec => ProbeCloses
  <1>1. StoreInv /\ [Next]_vars =>
          [\A w \in Writers :
             (/\ pc[w] = "write" /\ op[w].event = "recovery" /\ pc'[w] = "release"
              /\ ~breached
              /\ InOrder(store)
              /\ \A i \in DOMAIN store : store[i].ts < op[w].ts)
             => Shown(op[w].incident, store') # "active"]_vars
    BY ProbeStep
  <1> QED
    BY <1>1, StoreSummarises, PTL DEF Spec, ProbeCloses
=============================================================================
