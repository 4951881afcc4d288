---------------------------- MODULE DeliveryProofs ----------------------------
(***************************************************************************)
(* Proofs about the two components that hand on what happens elsewhere:     *)
(* the log records of a command to those who watch it (StatusCatalog), and  *)
(* the news of a profile to its client (Notifyd).                          *)
(***************************************************************************)
EXTENDS StatusCatalog, Notifyd, SequenceTheorems, FiniteSetTheorems, TLAPS

-----------------------------------------------------------------------------
(* The request status catalog: the bounded list of debug records, and what   *)
(* the watchers are handed, for any number of requests, watchers and         *)
(* records, and any limit.                                                  *)

\* The positions in the fifo are those of the debug records, the oldest
\* first, and what was dropped is older than all of them.
Bounded(recs, fifo) ==
    /\ recs \in Seq(Levels \cup {Dropped})
    /\ fifo \in Seq(Nat)
    /\ \A k \in 1 .. Len(fifo) : fifo[k] \in 1 .. Len(recs)
    /\ \A k, m \in 1 .. Len(fifo) : k < m => fifo[k] < fifo[m]
    /\ \A i \in 1 .. Len(recs) :
            recs[i] = "debug" => \E k \in 1 .. Len(fifo) : fifo[k] = i
    /\ \A i \in 1 .. Len(recs), k \in 1 .. Len(fifo) :
            recs[i] = Dropped => i < fifo[k]

IInv ==
    /\ worker \in [Requests -> {"idle", "running", "done"} \cup Levels]
    /\ records \in [Requests -> Seq(Levels \cup {Dropped})]
    /\ debugFifo \in [Requests -> Seq(Nat)]
    /\ \A r \in Requests : Bounded(records[r], debugFifo[r])

-----------------------------------------------------------------------------
LEMMA AppendBounded ==
    ASSUME NEW recs, NEW fifo, Bounded(recs, fifo), NEW level \in Levels
    PROVE  LET new == Append(recs, level)
           IN  Bounded(new, IF level = "debug" THEN Append(fifo, Len(new)) ELSE fifo)
<1> DEFINE new  == Append(recs, level)
           n    == Len(recs)
           last == IF level = "debug" THEN Append(fifo, Len(new)) ELSE fifo
<1>1. /\ n \in Nat /\ Len(new) = n + 1 /\ new \in Seq(Levels \cup {Dropped})
      /\ new[n + 1] = level /\ \A i \in 1 .. n : new[i] = recs[i]
  BY AppendProperties, LenProperties DEF Bounded
<1>2. level # Dropped
  BY DEF Levels, Dropped
<1>3. CASE level = "debug"
  <2>1. /\ Len(fifo) \in Nat /\ last \in Seq(Nat) /\ Len(last) = Len(fifo) + 1
        /\ last[Len(fifo) + 1] = n + 1
        /\ \A k \in 1 .. Len(fifo) : last[k] = fifo[k]
    BY <1>1, <1>3, AppendProperties, LenProperties DEF Bounded
  <2>2. \A k \in 1 .. Len(fifo) : fifo[k] \in 1 .. n
    BY DEF Bounded
  <2>3. \A k \in 1 .. Len(last) : last[k] \in 1 .. n + 1
    BY <1>1, <2>1, <2>2
  <2>4. \A k, m \in 1 .. Len(last) : k < m => last[k] < last[m]
    BY <1>1, <2>1, <2>2 DEF Bounded
  <2>5. ASSUME NEW i \in 1 .. Len(new), new[i] = "debug"
        PROVE  \E k \in 1 .. Len(last) : last[k] = i
    <3>1. CASE i = n + 1
      <4>1. Len(fifo) + 1 \in 1 .. Len(last)
        BY <2>1
      <4> QED
        BY <2>1, <3>1, <4>1
    <3>2. CASE i # n + 1
      <4>1. i \in 1 .. n /\ recs[i] = "debug"
        BY <1>1, <2>5, <3>2
      <4>2. PICK k \in 1 .. Len(fifo) : fifo[k] = i
        BY <4>1 DEF Bounded
      <4> QED
        BY <2>1, <4>2
    <3> QED
      BY <3>1, <3>2
  <2>6. \A i \in 1 .. Len(new), k \in 1 .. Len(last) : new[i] = Dropped => i < last[k]
    BY <1>1, <1>2, <2>1, <2>2 DEF Bounded
  <2>7. Bounded(new, last)
    <3> HIDE DEF last, new
    <3> QED
      BY <1>1, <2>1, <2>3, <2>4, <2>5, <2>6 DEF Bounded
  <2> QED
    BY <2>7
<1>4. CASE level # "debug"
  <2>1. Bounded(new, fifo)
    <3> HIDE DEF new
    <3>1. \A i \in 1 .. Len(new) : i \in 1 .. n \/ new[i] = level
      BY <1>1
    <3>2. \A i \in 1 .. Len(new) : new[i] \in {"debug", Dropped} => i \in 1 .. n
      BY <1>2, <1>4, <3>1
    <3>3. \A k \in 1 .. Len(fifo) : fifo[k] \in 1 .. Len(new)
      BY <1>1 DEF Bounded
    <3> QED
      BY <1>1, <3>2, <3>3 DEF Bounded
  <2> QED
    BY <1>4, <2>1
<1> QED
  BY <1>3, <1>4

LEMMA ConstrainedBounded ==
    ASSUME NEW recs, NEW fifo, Bounded(recs, fifo)
    PROVE  Bounded(Constrained(recs, fifo).recs, Constrained(recs, fifo).fifo)
<1>1. CASE Len(fifo) <= MaxDebug
  BY <1>1, StatusAssumption, LenProperties DEF Constrained, Bounded
<1>2. CASE Len(fifo) > MaxDebug
  <2> DEFINE old  == Head(fifo)
             new  == [recs EXCEPT ![old] = Dropped]
             rest == Tail(fifo)
  <2>1. fifo # << >> /\ Len(fifo) \in Nat \ {0} /\ old = fifo[1]
    BY <1>2, StatusAssumption, EmptySeq, LenProperties DEF Bounded
  <2>2. /\ rest \in Seq(Nat) /\ Len(rest) = Len(fifo) - 1
        /\ \A k \in 1 .. Len(rest) : rest[k] = fifo[k + 1]
    BY <2>1, HeadTailProperties DEF Bounded
  <2>3. old \in 1 .. Len(recs) /\ \A k \in 1 .. Len(rest) : old < rest[k]
    BY <2>1, <2>2 DEF Bounded
  <2>4. /\ new \in Seq(Levels \cup {Dropped}) /\ Len(new) = Len(recs)
        /\ \A i \in 1 .. Len(recs) : new[i] = IF i = old THEN Dropped ELSE recs[i]
    BY <2>3, ExceptSeq DEF Bounded
  <2>5. \A k \in 1 .. Len(rest) : rest[k] \in 1 .. Len(new)
    BY <2>1, <2>2, <2>4 DEF Bounded
  <2>6. \A k, m \in 1 .. Len(rest) : k < m => rest[k] < rest[m]
    BY <2>1, <2>2 DEF Bounded
  <2>7. ASSUME NEW i \in 1 .. Len(new), new[i] = "debug"
        PROVE  \E k \in 1 .. Len(rest) : rest[k] = i
    <3>1. i # old /\ recs[i] = "debug" /\ i \in 1 .. Len(recs)
      BY <2>4, <2>7 DEF Dropped
    <3>2. PICK k \in 1 .. Len(fifo) : fifo[k] = i
      BY <3>1 DEF Bounded
    <3>3. k - 1 \in 1 .. Len(rest) /\ rest[k - 1] = i
      BY <2>1, <2>2, <3>1, <3>2
    <3> QED
      BY <3>3
  <2>8. \A i \in 1 .. Len(new), k \in 1 .. Len(rest) : new[i] = Dropped => i < rest[k]
    BY <2>1, <2>2, <2>3, <2>4 DEF Bounded
  <2>9. Bounded(new, rest)
    <3> HIDE DEF new, rest, old
    <3> QED
      BY <2>2, <2>4, <2>5, <2>6, <2>7, <2>8 DEF Bounded
  <2> QED
    BY <1>2, <2>9 DEF Constrained
<1>3. Len(fifo) \in Nat /\ MaxDebug \in Nat
  BY StatusAssumption, LenProperties DEF Bounded
<1> QED
  BY <1>1, <1>2, <1>3

LEMMA PublishKeeps ==
    ASSUME IInv, NEW r \in Requests, NEW level \in Levels, Publish(r, level),
           worker' \in [Requests -> {"idle", "running", "done"} \cup Levels]
    PROVE  IInv'
<1> DEFINE new == Appended(r, level)
<1>1. Bounded(new.recs, new.fifo)
  BY AppendBounded, ConstrainedBounded DEF IInv, Appended
<1>2. /\ records' = [records EXCEPT ![r] = new.recs]
      /\ debugFifo' = [debugFifo EXCEPT ![r] = new.fifo]
  BY DEF Publish
<1>3. new.recs \in Seq(Levels \cup {Dropped}) /\ new.fifo \in Seq(Nat)
  BY <1>1 DEF Bounded
<1> HIDE DEF new
<1> QED
  BY <1>1, <1>2, <1>3 DEF IInv

LEMMA InitInv == Init => IInv
<1> SUFFICES ASSUME Init PROVE IInv
  OBVIOUS
<1>1. Bounded(<< >>, << >>)
  BY EmptySeq DEF Bounded
<1> QED
  BY <1>1, EmptySeq DEF Init, IInv

LEMMA NextInv == IInv /\ [Next]_vars => IInv'
<1> SUFFICES ASSUME IInv, [Next]_vars PROVE IInv'
  OBVIOUS
<1>1. ASSUME NEW r \in Requests, Finish(r) \/ Disconnect(r) PROVE IInv'
  <2>1. Publish(r, "debug") /\ worker' = worker
    BY <1>1 DEF Finish, Disconnect, Cleanup
  <2> QED
    BY <2>1, PublishKeeps DEF IInv, Levels
<1>2. ASSUME NEW r \in Requests, PublishRecord(r) PROVE IInv'
  <2>1. worker[r] \in Levels /\ Publish(r, worker[r])
    BY <1>2 DEF PublishRecord
  <2>2. worker' \in [Requests -> {"idle", "running", "done"} \cup Levels]
    BY <1>2 DEF PublishRecord, IInv
  <2> QED
    BY <2>1, <2>2, PublishKeeps
<1>3. ASSUME NEW r \in Requests,
             Open(r) \/ Dispatch(r) \/ Forget(r) \/ Emit(r) \/ Return(r)
      PROVE  IInv'
  BY <1>3 DEF Open, Dispatch, Forget, Emit, Return, IInv
<1>4. ASSUME NEW w \in Watchers, ShowRequest(w) \/ LoseWatcher(w) PROVE IInv'
  BY <1>4 DEF ShowRequest, LoseWatcher, IInv
<1>5. CASE UNCHANGED vars
  BY <1>5 DEF vars, IInv
<1> QED
  BY <1>1, <1>2, <1>3, <1>4, <1>5 DEF Next

-----------------------------------------------------------------------------
(* What a watcher is handed                                                 *)

Increasing(s) == \A i, j \in 1 .. Len(s) : i < j => s[i] < s[j]

Handed(s) == {s[i] : i \in 1 .. Len(s)}

LEMMA AscendingOrder ==
    ASSUME NEW n \in Nat, NEW S \in SUBSET (1 .. n)
    PROVE  /\ Ascending(S) \in Seq(Nat) /\ Increasing(Ascending(S))
           /\ Handed(Ascending(S)) = S
<1> DEFINE upto(i) == {j \in S : j <= i}
           c == Cardinality(S)
           D == 1 .. c
           rank == [i \in S |-> Cardinality(upto(i))]
<1>0. \A i \in S : i \in Nat
  OBVIOUS
<1>1. IsFiniteSet(S) /\ c \in Nat
  <2>1. 1 \in Int /\ n \in Int
    OBVIOUS
  <2> QED
    BY <2>1, FS_Interval, FS_Subset, FS_CardinalityType
<1>2. ASSUME NEW i \in S
      PROVE  rank[i] \in D
  <2>1. IsFiniteSet(upto(i)) /\ Cardinality(upto(i)) <= c /\ Cardinality(upto(i)) \in Nat
    BY <1>1, FS_Subset, FS_CardinalityType
  <2>2. i \in upto(i)
    OBVIOUS
  <2>3. Cardinality(upto(i)) # 0
    BY <2>1, <2>2, FS_EmptySet
  <2> QED
    BY <1>1, <2>1, <2>3
<1>3. ASSUME NEW i \in S, NEW j \in S, i < j
      PROVE  rank[i] < rank[j]
  <2>1. /\ IsFiniteSet(upto(j)) /\ Cardinality(upto(j)) \in Nat
        /\ IsFiniteSet(upto(i)) /\ Cardinality(upto(i)) \in Nat
    BY <1>1, FS_Subset, FS_CardinalityType
  <2>2. upto(i) \in SUBSET upto(j) /\ j \in upto(j) /\ j \notin upto(i)
    <3>1. i \in Nat /\ j \in Nat
      BY <1>0
    <3>2. ASSUME NEW x \in S, x <= i
          PROVE  x <= j
      <4>1. x \in Nat
        BY <1>0
      <4> QED
        BY <1>3, <3>1, <3>2, <4>1
    <3>3. upto(i) \in SUBSET upto(j)
      BY <3>2
    <3>4. j <= j /\ ~(j <= i)
      BY <1>3, <3>1
    <3>5. j \in upto(j)
      BY <3>4
    <3>6. j \notin upto(i)
      BY <3>4
    <3> QED
      BY <3>3, <3>5, <3>6
  <2>3. Cardinality(upto(i)) <= Cardinality(upto(j)) /\ Cardinality(upto(i)) # Cardinality(upto(j))
    <3> HIDE DEF upto
    <3> QED
      BY <2>1, <2>2, FS_Subset
  <2> QED
    BY <2>1, <2>3
<1>4. \A i, j \in S : i # j => rank[i] # rank[j]
  <2>1. \A i, j \in S : i # j => i < j \/ j < i
    OBVIOUS
  <2>2. \A i \in S : rank[i] \in Nat
    BY <1>1, <1>2
  <2> HIDE DEF rank
  <2> QED
    BY <1>3, <2>1, <2>2
<1>5. rank \in Injection(S, D)
  <2>1. rank \in [S -> D]
    BY <1>2
  <2> HIDE DEF rank
  <2> QED
    BY <1>4, <2>1 DEF Injection, IsInjective
<1>6. IsFiniteSet(D) /\ Cardinality(D) = c
  <2>1. 1 \in Int /\ c \in Int /\ (IF 1 > c THEN 0 ELSE c - 1 + 1) = c
    BY <1>1
  <2> HIDE DEF c
  <2> QED
    BY <2>1, FS_Interval
<1>7. rank \in Surjection(S, D)
  <2> HIDE DEF rank, D
  <2> QED
    BY <1>5, <1>6, FS_Injection
<1>8. \A k \in D : \E i \in S : rank[i] = k
  <2> HIDE DEF rank, D
  <2> QED
    BY <1>7 DEF Surjection
<1>9. Ascending(S) = [k \in D |-> CHOOSE i \in S : rank[i] = k]
  BY DEF Ascending
<1> DEFINE a == Ascending(S)
<1>10. \A k \in D : a[k] \in S /\ rank[a[k]] = k
  <2> HIDE DEF rank, D
  <2> QED
    BY <1>8, <1>9
<1>11. a \in Seq(Nat) /\ Len(a) = c
  <2>1. \A k \in D : a[k] \in Nat
    <3> HIDE DEF a, rank
    <3> QED
      BY <1>0, <1>10
  <2>3. a \in [1 .. c -> Nat]
    <3>1. a = [k \in D |-> a[k]]
      BY <1>9
    <3> HIDE DEF a
    <3> QED
      BY <2>1, <3>1
  <2> HIDE DEF a, c
  <2> QED
    BY <1>1, <2>3
<1> HIDE DEF a
<1>12. Increasing(a)
  <2> SUFFICES ASSUME NEW k \in D, NEW m \in D, k < m
               PROVE  a[k] < a[m]
    BY <1>11 DEF Increasing
  <2>1. a[k] \in S /\ a[m] \in S /\ rank[a[k]] = k /\ rank[a[m]] = m
    BY <1>10
  <2> HIDE DEF rank
  <2>2. k \in Nat /\ m \in Nat /\ a[k] \in Nat /\ a[m] \in Nat
    <3>1. a[k] \in Nat /\ a[m] \in Nat
      BY <1>0, <2>1
    <3>2. k \in Nat /\ m \in Nat
      <4> HIDE DEF c
      <4> QED
        BY <1>1
    <3> QED
      BY <3>1, <3>2
  <2>3. ~(a[m] < a[k]) /\ a[m] # a[k]
    BY <1>3, <2>1, <2>2
  <2> QED
    BY <2>2, <2>3
<1>13. Handed(a) = S
  <2>1. \A i \in S : rank[i] \in D /\ a[rank[i]] = i
    <3> HIDE DEF rank
    <3> QED
      BY <1>2, <1>4, <1>10
  <2>2. Handed(a) = {a[k] : k \in D}
    BY <1>11 DEF Handed
  <2> HIDE DEF rank, D
  <2>3. \A k \in D : a[k] \in S
    BY <1>10
  <2>4. \A i \in S : \E k \in D : a[k] = i
    BY <2>1
  <2> QED
    BY <2>2, <2>3, <2>4
<1> QED
  BY <1>11, <1>12, <1>13 DEF a

\* The sequence of positions s is in order, and ends at n.
InOrder(s, n) == s \in Seq(Nat) /\ Increasing(s) /\ \A k \in 1 .. Len(s) : s[k] <= n

\* From g to h, what v wants of the records after the first n was handed.
Caught(g, h, v, recs, n) ==
    /\ Handed(g) \subseteq Handed(h)
    /\ \A i \in n + 1 .. Len(recs) : Wanted(v, recs[i]) => i \in Handed(h)

\* A watcher that was handed positions up to processed is handed the rest.
LEMMA NotifiedAdds ==
    ASSUME NEW v, NEW recs, Len(recs) \in Nat, NEW processed \in Nat,
           processed <= Len(recs), NEW g, InOrder(g, processed)
    PROVE  LET h == g \o Notified(v, recs, processed)
           IN  InOrder(h, Len(recs)) /\ Caught(g, h, v, recs, processed)
<1> USE DEF InOrder
<1> DEFINE h == g \o Notified(v, recs, processed)
<1> DEFINE S == {i \in processed + 1 .. Len(recs) : Wanted(v, recs[i])}
           b == Ascending(S)
<1>1. S \in SUBSET (1 .. Len(recs)) /\ \A i \in S : processed < i
  OBVIOUS
<1>2. h = g \o b
  BY DEF Notified
<1> HIDE DEF S, h
<1>3. b \in Seq(Nat) /\ Increasing(b) /\ Handed(b) = S
  BY <1>1, AscendingOrder
<1> HIDE DEF b
<1>4. /\ h \in Seq(Nat) /\ Len(h) = Len(g) + Len(b)
      /\ \A i \in 1 .. Len(g) + Len(b) : h[i] = IF i <= Len(g) THEN g[i] ELSE b[i - Len(g)]
  BY <1>2, <1>3, ConcatProperties
<1>5. /\ Len(g) \in Nat /\ Len(b) \in Nat
      /\ \A i \in 1 .. Len(g) : g[i] \in Nat
      /\ \A i \in 1 .. Len(b) : b[i] \in Nat /\ b[i] \in S
  BY <1>3, LenProperties, ElementOfSeq DEF Handed
<1>6. \A i \in 1 .. Len(g) : i \in 1 .. Len(h) /\ h[i] = g[i]
  BY <1>4, <1>5
<1>7. ASSUME NEW i \in 1 .. Len(b)
      PROVE  Len(g) + i \in 1 .. Len(h) /\ h[Len(g) + i] = b[i]
  <2> DEFINE m == Len(g)
             k == Len(b)
             x == m + i
  <2>1. x \in 1 .. m + k /\ ~(x <= m) /\ x - m = i
    <3>1. m \in Nat /\ k \in Nat /\ i \in 1 .. k
      BY <1>5
    <3> HIDE DEF m, k
    <3> QED
      BY <3>1
  <2> HIDE DEF x
  <2>2. h[x] = b[x - m]
    BY <1>4, <2>1
  <2> QED
    BY <1>4, <2>1, <2>2 DEF x
<1>8. \A i \in 1 .. Len(h) :
        \/ i \in 1 .. Len(g) /\ h[i] = g[i]
        \/ i - Len(g) \in 1 .. Len(b) /\ h[i] = b[i - Len(g)]
  BY <1>4, <1>5
<1>9. Handed(h) = Handed(g) \cup S
  <2>1. Handed(h) \subseteq Handed(g) \cup Handed(b)
    BY <1>8 DEF Handed
  <2>2. Handed(g) \subseteq Handed(h)
    BY <1>6 DEF Handed
  <2>3. Handed(b) \subseteq Handed(h)
    BY <1>7 DEF Handed
  <2> QED
    BY <1>3, <2>1, <2>2, <2>3
<1>10. Increasing(h)
  <2> SUFFICES ASSUME NEW i \in 1 .. Len(h), NEW j \in 1 .. Len(h), i < j
               PROVE  h[i] < h[j]
    BY DEF Increasing
  <2>1. CASE i \in 1 .. Len(g) /\ j \in 1 .. Len(g)
    BY <1>6, <2>1 DEF Increasing
  <2>2. CASE i \in 1 .. Len(g) /\ j \notin 1 .. Len(g)
    <3>1. h[i] = g[i] /\ g[i] <= processed /\ g[i] \in Nat
      BY <1>5, <1>6, <2>2
    <3>2. h[j] \in S
      BY <1>5, <1>8, <2>2
    <3> DEFINE y == h[j]
    <3>3. y \in S /\ processed \in Nat
      BY <3>2
    <3>4. processed < y /\ y \in Nat
      <4> HIDE DEF y
      <4> QED
        BY <1>1, <3>3
    <3> QED
      BY <3>1, <3>3, <3>4
  <2>3. CASE i \notin 1 .. Len(g)
    <3>1. /\ i - Len(g) \in 1 .. Len(b) /\ j - Len(g) \in 1 .. Len(b)
          /\ i - Len(g) < j - Len(g)
          /\ h[i] = b[i - Len(g)] /\ h[j] = b[j - Len(g)]
      BY <1>4, <1>5, <2>3
    <3> QED
      BY <1>3, <3>1 DEF Increasing
  <2> QED
    BY <2>1, <2>2, <2>3
<1>11. \A k \in 1 .. Len(h) : h[k] <= Len(recs)
  <2>1. \A k \in 1 .. Len(g) : g[k] <= Len(recs)
    BY <1>5
  <2>2. \A k \in 1 .. Len(b) : b[k] <= Len(recs)
    BY <1>1, <1>5
  <2> QED
    BY <1>8, <2>1, <2>2
<1> QED
  BY <1>4, <1>9, <1>10, <1>11 DEF S, h, Caught

-----------------------------------------------------------------------------
(* The watchers                                                             *)

States == {"idle", "pending", "done", "notfound"}
Watch  == [request : Requests \cup {Nobody}, debug : BOOLEAN, state : States, lost : BOOLEAN]

\* w has been handed the records it wants among the first n of r.
Served(w, r, n) == \A i \in 1 .. n : Wanted(watch[w], records[r][i]) => i \in Handed(got[w])

\* What w was handed is in order, and of the request it watches.
Ordered(w) ==
    /\ got[w] \in Seq(Nat) /\ Increasing(got[w])
    /\ got[w] # << >> =>
        /\ watch[w].request \in Requests
        /\ \A k \in 1 .. Len(got[w]) : got[w][k] <= Len(records[watch[w].request])

\* A subscriber has been handed all there is.
Subscribed(r, w) ==
    /\ w \in Watchers /\ watch[w].state = "pending" /\ watch[w].request = r
    /\ subscribers[r][w] = Len(records[r]) /\ Served(w, r, Len(records[r]))

\* Who waits for the request id has been handed nothing, and does not subscribe.
Waits(r, w) ==
    /\ w \in Watchers /\ watch[w].state = "pending" /\ watch[w].request = r
    /\ w \notin DOMAIN subscribers[r] /\ got[w] = << >>

SInv ==
    /\ watch \in [Watchers -> Watch]
    /\ got = [w \in Watchers |-> got[w]]
    /\ subscribers = [r \in Requests |-> subscribers[r]]
    /\ waitFor = [r \in Requests |-> waitFor[r]]
    /\ isFinished \in [Requests -> BOOLEAN]
    /\ phase \in [Requests -> {"absent", "open", "dispatched", "closed", "forgotten"}]
    /\ closedAt \in [Requests -> Nat]
    /\ \A r \in Requests :
        /\ isFinished[r] <=> phase[r] \in {"closed", "forgotten"}
        /\ isFinished[r] => DOMAIN subscribers[r] = {}
        /\ closedAt[r] <= Len(records[r])
        /\ \A w \in DOMAIN subscribers[r] : Subscribed(r, w)
        /\ waitFor[r] # Nobody => Waits(r, waitFor[r])
    /\ \A w \in Watchers :
        /\ Ordered(w)
        /\ watch[w].state = "idle" => got[w] = << >>
        /\ watch[w].state = "done" =>
            /\ watch[w].request \in Requests /\ isFinished[watch[w].request]
            /\ Served(w, watch[w].request, closedAt[watch[w].request])

\* A record that is added; an older one may be dropped.
Grown(recs, new) ==
    /\ Len(new) = Len(recs) + 1
    /\ \A i \in 1 .. Len(recs) : new[i] \in {recs[i], Dropped}

LEMMA DroppedUnwanted ==
    ASSUME NEW v
    PROVE  ~Wanted(v, Dropped)
BY DEF Wanted, Levels, Dropped

LEMMA AppendedGrows ==
    ASSUME IInv, NEW r \in Requests, NEW level \in Levels
    PROVE  Grown(records[r], Appended(r, level).recs)
<1> DEFINE recs == records[r]
           new  == Append(recs, level)
           fifo == IF level = "debug" THEN Append(debugFifo[r], Len(new)) ELSE debugFifo[r]
<1>1. /\ Len(recs) \in Nat /\ Len(new) = Len(recs) + 1
      /\ \A i \in 1 .. Len(recs) : new[i] = recs[i]
  BY AppendProperties, LenProperties DEF IInv
<1>2. Bounded(new, fifo)
  BY AppendBounded DEF IInv
<1>3. Appended(r, level) = Constrained(new, fifo)
  BY DEF Appended
<1> HIDE DEF recs, new, fifo
<1>4. CASE Len(fifo) > MaxDebug
  <2> DEFINE x == Head(fifo)
             z == [new EXCEPT ![x] = Dropped]
  <2>1. Appended(r, level).recs = z
    BY <1>3, <1>4 DEF Constrained
  <2>2. new \in Seq(Levels \cup {Dropped})
    BY <1>2 DEF Bounded
  <2>3. Len(z) = Len(new) /\ \A i \in 1 .. Len(new) : z[i] \in {new[i], Dropped}
    <3> DEFINE T == Levels \cup {Dropped}
    <3>1. x \in 1 .. Len(new)
      <4>1. fifo # << >> /\ Len(fifo) \in Nat \ {0} /\ x = fifo[1]
        BY <1>2, <1>4, StatusAssumption, EmptySeq, LenProperties DEF Bounded
      <4> QED
        BY <1>2, <4>1 DEF Bounded
    <3>2. new \in Seq(T) /\ Dropped \in T
      BY <2>2
    <3> HIDE DEF T, x
    <3> QED
      BY <3>1, <3>2, ExceptSeq
  <2> HIDE DEF z
  <2> QED
    BY <1>1, <2>1, <2>3 DEF Grown, recs
<1>5. CASE ~(Len(fifo) > MaxDebug)
  BY <1>1, <1>3, <1>5 DEF Constrained, Grown, recs
<1> QED
  BY <1>4, <1>5

\* What publish does to the watchers: each subscriber is served.
LEMMA PublishServes ==
    ASSUME IInv, SInv, NEW r \in Requests, NEW level \in Levels, Publish(r, level)
    PROVE  /\ Grown(records[r], records'[r])
           /\ \A q \in Requests : q # r => records'[q] = records[q]
           /\ got' = [w \in Watchers |-> got'[w]]
           /\ \A w \in Watchers :
                /\ w \notin DOMAIN subscribers[r] => got'[w] = got[w]
                /\ w \in DOMAIN subscribers[r] =>
                    /\ got'[w] \in Seq(Nat) /\ Increasing(got'[w])
                    /\ \A k \in 1 .. Len(got'[w]) : got'[w][k] <= Len(records'[r])
                    /\ \A i \in 1 .. Len(records'[r]) :
                        Wanted(watch[w], records'[r][i]) => i \in Handed(got'[w])
<1> DEFINE new == Appended(r, level).recs
<1>1. Grown(records[r], new)
  BY AppendedGrows
<1>2. /\ records'[r] = new /\ \A q \in Requests : q # r => records'[q] = records[q]
      /\ \A w \in Watchers : got'[w] =
            IF w \in DOMAIN subscribers[r]
            THEN got[w] \o Notified(watch[w], new, subscribers[r][w]) ELSE got[w]
      /\ got' = [w \in Watchers |-> got'[w]]
  BY DEF Publish, IInv
<1> HIDE DEF new
<1>3. ASSUME NEW w \in Watchers, w \in DOMAIN subscribers[r]
      PROVE  /\ got'[w] \in Seq(Nat) /\ Increasing(got'[w])
             /\ \A k \in 1 .. Len(got'[w]) : got'[w][k] <= Len(new)
             /\ \A i \in 1 .. Len(new) :
                    Wanted(watch[w], new[i]) => i \in Handed(got'[w])
  <2> DEFINE n == Len(records[r])
             g == got[w]
             h == got'[w]
             v == watch[w]
  <2>1. Subscribed(r, w) /\ Ordered(w)
    BY <1>3 DEF SInv
  <2>2. n \in Nat /\ Len(new) = n + 1
    BY <1>1, LenProperties DEF IInv, Grown
  <2>3. h = g \o Notified(v, new, n)
    BY <1>2, <1>3, <2>1 DEF Subscribed
  <2>4. InOrder(g, n)
    <3>1. g = << >> \/ \A k \in 1 .. Len(g) : g[k] <= n
      BY <2>1 DEF Ordered, Subscribed
    <3> QED
      BY <2>1, <3>1, EmptySeq DEF Ordered, InOrder
  <2>5. \A i \in 1 .. n : Wanted(v, records[r][i]) => i \in Handed(g)
    BY <2>1 DEF Subscribed, Served
  <2>6. \A i \in 1 .. n : new[i] \in {records[r][i], Dropped}
    BY <1>1 DEF Grown
  <2> HIDE DEF n, g, h, v
  <2>7. Len(new) \in Nat /\ n \in Nat /\ n <= Len(new)
    BY <2>2
  <2>8. InOrder(h, Len(new)) /\ Caught(g, h, v, new, n)
    BY <2>3, <2>4, <2>7, NotifiedAdds
  <2>9. ASSUME NEW i \in 1 .. Len(new), Wanted(v, new[i])
        PROVE  i \in Handed(h)
    <3>1. CASE i \in 1 .. n
      BY <2>5, <2>6, <2>8, <2>9, <3>1, DroppedUnwanted DEF Caught
    <3>2. CASE i \notin 1 .. n
      <4>1. i \in n + 1 .. Len(new)
        BY <2>2, <3>2
      <4> QED
        BY <2>8, <2>9, <4>1 DEF Caught
    <3> QED
      BY <3>1, <3>2
  <2> QED
    BY <2>8, <2>9 DEF h, v, InOrder
<1> QED
  BY <1>1, <1>2, <1>3

-----------------------------------------------------------------------------
(* The steps                                                                *)

\* A watcher that has been handed nothing is handed all there is, and then
\* subscribes, or is done if the request is.
LEMMA AddServes ==
    ASSUME IInv, SInv, NEW r \in Requests, NEW w \in Watchers, NEW v \in Watch,
           got[w] = << >>, AddSubscriber(r, w, v)
    PROVE  /\ InOrder(got'[w], Len(records[r]))
           /\ \A i \in 1 .. Len(records[r]) :
                    Wanted(v, records[r][i]) => i \in Handed(got'[w])
           /\ \A u \in Watchers : u # w => got'[u] = got[u] /\ watch'[u] = watch[u]
           /\ got' = [u \in Watchers |-> got'[u]] /\ watch' \in [Watchers -> Watch]
           /\ watch'[w] = IF isFinished[r] THEN [v EXCEPT !.state = "done"] ELSE v
           /\ subscribers' = [q \in Requests |-> subscribers'[q]]
           /\ \A q \in Requests : q # r \/ isFinished[r] => subscribers'[q] = subscribers[q]
           /\ ~isFinished[r] =>
                /\ DOMAIN subscribers'[r] = {w} \cup DOMAIN subscribers[r]
                /\ subscribers'[r][w] = Len(records[r])
                /\ \A u \in DOMAIN subscribers[r] :
                        u # w => subscribers'[r][u] = subscribers[r][u]
<1>1. Len(records[r]) \in Nat /\ 0 <= Len(records[r]) /\ 0 \in Nat
  BY LenProperties DEF IInv
<1>2. InOrder(<< >>, 0)
  BY EmptySeq DEF InOrder, Increasing
<1>3. got' = [got EXCEPT ![w] = << >> \o Notified(v, records[r], 0)]
  BY DEF AddSubscriber
<1>4. got'[w] = << >> \o Notified(v, records[r], 0)
  BY <1>3 DEF SInv
<1>5. /\ InOrder(got'[w], Len(records[r]))
      /\ Caught(<< >>, got'[w], v, records[r], 0)
  BY <1>1, <1>2, <1>4, NotifiedAdds
<1>6. \A i \in 1 .. Len(records[r]) : Wanted(v, records[r][i]) => i \in Handed(got'[w])
  <2>1. 0 + 1 = 1
    OBVIOUS
  <2> QED
    BY <1>5, <2>1 DEF Caught
<1>7. \A u \in Watchers : u # w => got'[u] = got[u]
  BY <1>3 DEF SInv
<1>8. got' = [u \in Watchers |-> got'[u]]
  BY <1>3 DEF SInv
<1>9. [v EXCEPT !.state = "done"] \in Watch
  BY DEF Watch, States
<1>10. /\ watch' \in [Watchers -> Watch]
       /\ watch'[w] = IF isFinished[r] THEN [v EXCEPT !.state = "done"] ELSE v
       /\ \A u \in Watchers : u # w => watch'[u] = watch[u]
  BY <1>9 DEF SInv, AddSubscriber
<1>11. CASE isFinished[r]
  BY <1>5, <1>6, <1>7, <1>8, <1>10, <1>11 DEF SInv, AddSubscriber
<1>12. CASE ~isFinished[r]
  <2> DEFINE f == [u \in {w} \cup DOMAIN subscribers[r] |->
                    IF u = w THEN Len(records[r]) ELSE subscribers[r][u]]
  <2>1. /\ DOMAIN f = {w} \cup DOMAIN subscribers[r] /\ f[w] = Len(records[r])
        /\ \A u \in DOMAIN subscribers[r] : u # w => f[u] = subscribers[r][u]
    OBVIOUS
  <2>2. subscribers' = [subscribers EXCEPT ![r] = f]
    BY <1>12 DEF AddSubscriber
  <2> HIDE DEF f
  <2>3. subscribers'[r] = f /\ \A q \in Requests : q # r => subscribers'[q] = subscribers[q]
    BY <2>2 DEF SInv
  <2>4. subscribers' = [q \in Requests |-> subscribers'[q]]
    BY <2>2 DEF SInv
  <2> QED
    BY <1>5, <1>6, <1>7, <1>8, <1>10, <1>12, <2>1, <2>3, <2>4
<1> QED
  BY <1>11, <1>12

LEMMA AddKeeps ==
    ASSUME IInv, SInv, NEW r \in Requests, NEW w \in Watchers, NEW v \in Watch,
           v.request = r, v.state = "pending", got[w] = << >>,
           \A q \in Requests : w \notin DOMAIN subscribers[q],
           AddSubscriber(r, w, v),
           records' = records, isFinished' = isFinished, closedAt' = closedAt,
           phase' \in [Requests -> {"absent", "open", "dispatched", "closed", "forgotten"}],
           \A q \in Requests : isFinished[q] <=> phase'[q] \in {"closed", "forgotten"},
           waitFor' = [q \in Requests |-> waitFor'[q]],
           \A q \in Requests :
                waitFor'[q] # Nobody => waitFor'[q] = waitFor[q] /\ waitFor[q] # w
    PROVE  SInv'
<1>1. /\ InOrder(got'[w], Len(records[r]))
      /\ \A i \in 1 .. Len(records[r]) :
                    Wanted(v, records[r][i]) => i \in Handed(got'[w])
      /\ \A u \in Watchers : u # w => got'[u] = got[u] /\ watch'[u] = watch[u]
      /\ got' = [u \in Watchers |-> got'[u]] /\ watch' \in [Watchers -> Watch]
      /\ watch'[w] = IF isFinished[r] THEN [v EXCEPT !.state = "done"] ELSE v
      /\ subscribers' = [q \in Requests |-> subscribers'[q]]
      /\ \A q \in Requests : q # r \/ isFinished[r] => subscribers'[q] = subscribers[q]
      /\ ~isFinished[r] =>
                /\ DOMAIN subscribers'[r] = {w} \cup DOMAIN subscribers[r]
                /\ subscribers'[r][w] = Len(records[r])
                /\ \A u \in DOMAIN subscribers[r] :
                        u # w => subscribers'[r][u] = subscribers[r][u]
  BY AddServes
<1>2. ASSUME NEW q \in Requests, NEW u \in DOMAIN subscribers'[q]
      PROVE  Subscribed(q, u)'
  <2>1. CASE u = w
    <3>1. q = r /\ ~isFinished[r]
      BY <1>1, <1>2, <2>1
    <3>2. watch'[w] = v /\ subscribers'[r][w] = Len(records[r])
      BY <1>1, <3>1
    <3> QED
      BY <1>1, <2>1, <3>1, <3>2 DEF Subscribed, Served
  <2>2. CASE u # w
    <3>1. u \in DOMAIN subscribers[q] /\ subscribers'[q][u] = subscribers[q][u]
      BY <1>1, <1>2, <2>2
    <3>2. Subscribed(q, u)
      BY <3>1 DEF SInv
    <3> QED
      BY <1>1, <2>2, <3>1, <3>2 DEF Subscribed, Served
  <2> QED
    BY <2>1, <2>2
<1>3. ASSUME NEW q \in Requests, waitFor'[q] # Nobody
      PROVE  Waits(q, waitFor[q])' /\ waitFor'[q] = waitFor[q]
  <2> DEFINE u == waitFor[q]
  <2>1. waitFor'[q] = u /\ u # w /\ Waits(q, u)
    BY <1>3 DEF SInv
  <2>2. u \notin DOMAIN subscribers'[q]
    BY <1>1, <2>1 DEF Waits
  <2>3. u \in Watchers /\ got'[u] = got[u] /\ watch'[u] = watch[u]
    BY <1>1, <2>1 DEF Waits
  <2> QED
    BY <2>1, <2>2, <2>3 DEF Waits
<1>4. ASSUME NEW q \in Requests
      PROVE  /\ isFinished'[q] <=> phase'[q] \in {"closed", "forgotten"}
             /\ isFinished'[q] => DOMAIN subscribers'[q] = {}
             /\ closedAt'[q] <= Len(records'[q])
  BY <1>1 DEF SInv
<1>5. ASSUME NEW u \in Watchers
      PROVE  /\ Ordered(u)'
             /\ watch'[u].state = "idle" => got'[u] = << >>
             /\ watch'[u].state = "done" =>
                /\ watch'[u].request \in Requests /\ isFinished'[watch'[u].request]
                /\ Served(u, watch[u].request, closedAt[watch[u].request])'
  <2>1. CASE u # w
    <3>1. got'[u] = got[u] /\ watch'[u] = watch[u]
      BY <1>1, <2>1
    <3> QED
      BY <3>1 DEF SInv, Ordered, Served
  <2>2. CASE u = w /\ isFinished[r]
    <3>1. /\ watch'[w].state = "done" /\ watch'[w].request = r
          /\ \A record : Wanted(watch'[w], record) => Wanted(v, record)
      BY <1>1, <2>2 DEF Watch, Wanted
    <3>2. Ordered(w)'
      BY <1>1, <3>1 DEF Ordered, InOrder
    <3>3. closedAt[r] <= Len(records[r]) /\ closedAt[r] \in Nat /\ Len(records[r]) \in Nat
      BY LenProperties DEF SInv, IInv
    <3>4. \A i \in 1 .. closedAt[r] : i \in 1 .. Len(records[r])
      BY <3>3
    <3> QED
      BY <1>1, <2>2, <3>1, <3>2, <3>4 DEF Served
  <2>3. CASE u = w /\ ~isFinished[r]
    <3>1. watch'[w] = v
      BY <1>1, <2>3
    <3>2. Ordered(w)'
      BY <1>1, <3>1 DEF Ordered, InOrder
    <3> QED
      BY <2>3, <3>1, <3>2
  <2> QED
    BY <2>1, <2>2, <2>3
<1>6. isFinished' \in [Requests -> BOOLEAN] /\ closedAt' \in [Requests -> Nat]
  BY DEF SInv
<1> QED
  BY <1>1, <1>2, <1>3, <1>4, <1>5, <1>6 DEF SInv

\* A watcher that does not subscribe is not touched by publish.
LEMMA PublishLeaves ==
    ASSUME IInv, SInv, NEW r \in Requests, NEW level \in Levels, Publish(r, level),
           NEW w \in Watchers, w \notin DOMAIN subscribers[r], watch'[w] = watch[w]
    PROVE  /\ got'[w] = got[w] /\ Ordered(w)'
           /\ \A q \in Requests : \A n \in 0 .. Len(records[q]) :
                    Served(w, q, n) => Served(w, q, n)'
<1>1. /\ Grown(records[r], records'[r]) /\ got'[w] = got[w]
      /\ \A q \in Requests : q # r => records'[q] = records[q]
  BY PublishServes
<1>2. \A q \in Requests : Len(records[q]) \in Nat
  BY LenProperties DEF IInv
<1>3. \A q \in Requests : Len(records'[q]) \in Nat /\ Len(records[q]) <= Len(records'[q])
  BY <1>1, <1>2 DEF Grown
<1>4. Ordered(w)'
  <2>1. Ordered(w)
    BY DEF SInv
  <2>2. \A k \in 1 .. Len(got[w]) : got[w][k] \in Nat
    BY <2>1, ElementOfSeq DEF Ordered
  <2>3. ASSUME got[w] # << >>, NEW k \in 1 .. Len(got[w])
        PROVE  got[w][k] <= Len(records'[watch[w].request])
    <3> DEFINE q == watch[w].request
               m == got[w][k]
    <3>1. q \in Requests /\ m <= Len(records[q]) /\ m \in Nat
      BY <2>1, <2>2, <2>3 DEF Ordered
    <3>2. Len(records[q]) \in Nat /\ Len(records'[q]) \in Nat
          /\ Len(records[q]) <= Len(records'[q])
      BY <1>2, <1>3, <3>1
    <3> HIDE DEF q, m
    <3>3. m <= Len(records'[q])
      BY <3>1, <3>2
    <3> QED
      BY <3>3 DEF q, m
  <2> QED
    BY <1>1, <2>1, <2>3 DEF Ordered
<1>5. ASSUME NEW q \in Requests, NEW n \in 0 .. Len(records[q]), Served(w, q, n)
      PROVE  Served(w, q, n)'
  <2>1. \A i \in 1 .. n : records'[q][i] \in {records[q][i], Dropped}
    BY <1>1, <1>2 DEF Grown
  <2> QED
    BY <1>1, <1>5, <2>1, DroppedUnwanted DEF Served
<1> QED
  BY <1>1, <1>4, <1>5

LEMMA PublishRecordKeeps ==
    ASSUME IInv, SInv, NEW r \in Requests, PublishRecord(r)
    PROVE  SInv'
<1>1. /\ worker[r] \in Levels /\ Publish(r, worker[r]) /\ watch' = watch
      /\ isFinished' = isFinished /\ phase' = phase /\ closedAt' = closedAt
      /\ waitFor' = waitFor
      /\ subscribers' = [subscribers EXCEPT ![r] = [w \in DOMAIN @ |-> Len(records[r]) + 1]]
  BY DEF PublishRecord, WorkerUnchanged
<1>2. /\ Grown(records[r], records'[r]) /\ got' = [w \in Watchers |-> got'[w]]
      /\ \A q \in Requests : q # r => records'[q] = records[q]
      /\ \A w \in Watchers : w \in DOMAIN subscribers[r] =>
            /\ got'[w] \in Seq(Nat) /\ Increasing(got'[w])
            /\ \A k \in 1 .. Len(got'[w]) : got'[w][k] <= Len(records'[r])
            /\ \A i \in 1 .. Len(records'[r]) :
                    Wanted(watch[w], records'[r][i]) => i \in Handed(got'[w])
  BY <1>1, PublishServes
<1>3. /\ subscribers' = [q \in Requests |-> subscribers'[q]]
      /\ \A q \in Requests : DOMAIN subscribers'[q] = DOMAIN subscribers[q]
      /\ \A q \in Requests : q # r => subscribers'[q] = subscribers[q]
      /\ \A w \in DOMAIN subscribers[r] : subscribers'[r][w] = Len(records[r]) + 1
  BY <1>1 DEF SInv
<1>4. \A q \in Requests : Len(records[q]) \in Nat /\ Len(records'[q]) \in Nat
                          /\ Len(records[q]) <= Len(records'[q])
  <2>1. \A q \in Requests : Len(records[q]) \in Nat
    BY LenProperties DEF IInv
  <2> QED
    BY <1>2, <2>1 DEF Grown
<1>5. ASSUME NEW w \in Watchers, w \notin DOMAIN subscribers[r]
      PROVE  /\ got'[w] = got[w] /\ Ordered(w)'
             /\ \A q \in Requests : \A n \in 0 .. Len(records[q]) :
                    Served(w, q, n) => Served(w, q, n)'
  BY <1>1, <1>5, PublishLeaves
<1>6. ASSUME NEW q \in Requests, NEW w \in DOMAIN subscribers'[q]
      PROVE  Subscribed(q, w)'
  <2>1. w \in DOMAIN subscribers[q] /\ Subscribed(q, w)
    BY <1>3, <1>6 DEF SInv
  <2>2. CASE q = r
    BY <1>1, <1>2, <1>3, <2>1, <2>2 DEF Subscribed, Served, Grown
  <2>3. CASE q # r
    <3>1. w \notin DOMAIN subscribers[r]
      BY <2>1, <2>3 DEF SInv, Subscribed
    <3>2. \A n \in 0 .. Len(records[q]) : Served(w, q, n) => Served(w, q, n)'
      BY <1>5, <2>1, <3>1 DEF Subscribed
    <3>3. Len(records[q]) \in 0 .. Len(records[q])
      BY <1>4
    <3>4. records'[q] = records[q] /\ subscribers'[q] = subscribers[q]
      BY <1>2, <1>3, <2>3
    <3>5. \A n : n = Len(records[q]) => Served(w, q, n)'
      BY <2>1, <3>2, <3>3 DEF Subscribed
    <3> QED
      BY <1>1, <2>1, <3>4, <3>5 DEF Subscribed
  <2> QED
    BY <2>2, <2>3
<1>7. ASSUME NEW q \in Requests
      PROVE  /\ isFinished'[q] <=> phase'[q] \in {"closed", "forgotten"}
             /\ isFinished'[q] => DOMAIN subscribers'[q] = {}
             /\ closedAt'[q] <= Len(records'[q])
  <2>1. /\ isFinished'[q] <=> phase'[q] \in {"closed", "forgotten"}
        /\ isFinished'[q] => DOMAIN subscribers'[q] = {}
    BY <1>1, <1>3 DEF SInv
  <2>2. closedAt'[q] = closedAt[q] /\ closedAt[q] \in Nat /\ closedAt[q] <= Len(records[q])
    BY <1>1 DEF SInv
  <2> QED
    BY <1>4, <2>1, <2>2
<1>8. ASSUME NEW q \in Requests, waitFor'[q] # Nobody
      PROVE  Waits(q, waitFor[q])' /\ waitFor'[q] = waitFor[q]
  <2> DEFINE u == waitFor[q]
  <2>1. waitFor'[q] = u /\ Waits(q, u)
    BY <1>1, <1>8 DEF SInv
  <2>2. u \notin DOMAIN subscribers[r]
    BY <2>1 DEF Waits, SInv, Subscribed
  <2> QED
    BY <1>1, <1>3, <1>5, <2>1, <2>2 DEF Waits
<1>9. ASSUME NEW w \in Watchers
      PROVE  /\ Ordered(w)'
             /\ watch'[w].state = "idle" => got'[w] = << >>
             /\ watch'[w].state = "done" =>
                /\ watch'[w].request \in Requests /\ isFinished'[watch'[w].request]
                /\ Served(w, watch[w].request, closedAt[watch[w].request])'
  <2>1. CASE w \in DOMAIN subscribers[r]
    <3>1. watch[w].state = "pending" /\ watch[w].request = r
      BY <2>1 DEF SInv, Subscribed
    <3> QED
      BY <1>1, <1>2, <2>1, <3>1 DEF Ordered
  <2>2. CASE w \notin DOMAIN subscribers[r]
    <3>1. ASSUME watch[w].state = "done"
          PROVE  Served(w, watch[w].request, closedAt[watch[w].request])'
      <4> DEFINE q == watch[w].request
                 n == closedAt[q]
      <4>1. q \in Requests /\ n \in 0 .. Len(records[q]) /\ Served(w, q, n)
        BY <1>4, <3>1 DEF SInv
      <4>2. q' = q /\ n' = n
        BY <1>1
      <4> HIDE DEF q, n
      <4>3. \A p \in Requests : \A m \in 0 .. Len(records[p]) :
                    Served(w, p, m) => Served(w, p, m)'
        BY <1>5, <2>2
      <4>4. \A p, m : p = q /\ m = n => Served(w, p, m)'
        BY <4>1, <4>3
      <4>5. Served(w, q, n)'
        BY <4>2, <4>4
      <4> QED
        BY <4>5 DEF q, n
    <3> QED
      BY <1>1, <1>5, <2>2, <3>1 DEF SInv
  <2> QED
    BY <2>1, <2>2
<1> QED
  BY <1>1, <1>2, <1>3, <1>6, <1>7, <1>8, <1>9 DEF SInv

LEMMA CleanupKeeps ==
    ASSUME IInv, SInv, NEW r \in Requests, Cleanup(r), ~isFinished[r]
    PROVE  SInv'
<1>1. /\ Publish(r, "debug") /\ "debug" \in Levels
      /\ phase' = [phase EXCEPT ![r] = "closed"]
      /\ isFinished' = [isFinished EXCEPT ![r] = TRUE]
      /\ closedAt' = [closedAt EXCEPT ![r] = Len(records[r]) + 1]
      /\ subscribers' = [subscribers EXCEPT ![r] = << >>]
      /\ watch' = [w \in Watchers |->
            IF w \in DOMAIN subscribers[r] THEN [watch[w] EXCEPT !.state = "done"]
                                           ELSE watch[w]]
      /\ \A q \in Requests : waitFor'[q] # Nobody => waitFor'[q] = waitFor[q]
      /\ waitFor' = [q \in Requests |-> waitFor'[q]]
  BY DEF Cleanup, Levels, RemoveWaiters
<1>2. /\ Grown(records[r], records'[r]) /\ got' = [w \in Watchers |-> got'[w]]
      /\ \A q \in Requests : q # r => records'[q] = records[q]
      /\ \A w \in Watchers : w \in DOMAIN subscribers[r] =>
            /\ got'[w] \in Seq(Nat) /\ Increasing(got'[w])
            /\ \A k \in 1 .. Len(got'[w]) : got'[w][k] <= Len(records'[r])
            /\ \A i \in 1 .. Len(records'[r]) :
                    Wanted(watch[w], records'[r][i]) => i \in Handed(got'[w])
  BY <1>1, PublishServes
<1>3. /\ subscribers' = [q \in Requests |-> subscribers'[q]]
      /\ DOMAIN subscribers'[r] = {}
      /\ \A q \in Requests : q # r => subscribers'[q] = subscribers[q]
  <2>1. DOMAIN << >> = {}
    OBVIOUS
  <2>2. subscribers'[r] = << >> /\ \A q \in Requests : q # r => subscribers'[q] = subscribers[q]
    BY <1>1 DEF SInv
  <2>3. subscribers' = [q \in Requests |-> subscribers'[q]]
    BY <1>1 DEF SInv
  <2> QED
    BY <2>1, <2>2, <2>3
<1>4. \A q \in Requests : Len(records[q]) \in Nat /\ Len(records'[q]) \in Nat
                          /\ Len(records[q]) <= Len(records'[q])
  <2>1. \A q \in Requests : Len(records[q]) \in Nat
    BY LenProperties DEF IInv
  <2> QED
    BY <1>2, <2>1 DEF Grown
<1>5. ASSUME NEW w \in Watchers, w \notin DOMAIN subscribers[r]
      PROVE  /\ got'[w] = got[w] /\ watch'[w] = watch[w] /\ Ordered(w)'
             /\ \A q \in Requests : \A n \in 0 .. Len(records[q]) :
                    Served(w, q, n) => Served(w, q, n)'
  BY <1>1, <1>5, PublishLeaves
<1>6. ASSUME NEW q \in Requests, NEW w \in DOMAIN subscribers'[q]
      PROVE  Subscribed(q, w)'
  <2>1. q # r /\ w \in DOMAIN subscribers[q] /\ Subscribed(q, w)
    BY <1>3, <1>6 DEF SInv
  <2>2. w \notin DOMAIN subscribers[r]
    BY <2>1 DEF SInv, Subscribed
  <2>3. records'[q] = records[q] /\ subscribers'[q] = subscribers[q]
        /\ watch'[w] = watch[w] /\ got'[w] = got[w]
    BY <1>2, <1>3, <1>5, <2>1, <2>2 DEF Subscribed
  <2> QED
    BY <2>1, <2>3 DEF Subscribed, Served
<1>7. /\ isFinished'[r] = TRUE /\ phase'[r] = "closed" /\ closedAt'[r] = Len(records'[r])
      /\ \A q \in Requests : q # r =>
            /\ isFinished'[q] = isFinished[q] /\ phase'[q] = phase[q]
            /\ closedAt'[q] = closedAt[q]
  BY <1>1, <1>2 DEF SInv, Grown
<1>8. ASSUME NEW q \in Requests
      PROVE  /\ isFinished'[q] <=> phase'[q] \in {"closed", "forgotten"}
             /\ isFinished'[q] => DOMAIN subscribers'[q] = {}
             /\ closedAt'[q] <= Len(records'[q])
  <2>1. CASE q = r
    BY <1>3, <1>4, <1>7, <2>1
  <2>2. CASE q # r
    BY <1>2, <1>3, <1>7, <2>2 DEF SInv
  <2> QED
    BY <2>1, <2>2
<1>9. ASSUME NEW q \in Requests, waitFor'[q] # Nobody
      PROVE  Waits(q, waitFor[q])' /\ waitFor'[q] = waitFor[q]
  <2> DEFINE u == waitFor[q]
  <2>1. waitFor'[q] = u /\ Waits(q, u)
    BY <1>1, <1>9 DEF SInv
  <2>2. u \notin DOMAIN subscribers[r]
    <3>1. u \in DOMAIN subscribers[r] => Subscribed(r, u)
      BY DEF SInv
    <3> QED
      BY <2>1, <3>1 DEF Waits, Subscribed
  <2>3. u \notin DOMAIN subscribers'[q]
    BY <1>3, <2>1 DEF Waits
  <2> QED
    BY <1>5, <2>1, <2>2, <2>3 DEF Waits
<1>10. /\ isFinished' \in [Requests -> BOOLEAN] /\ closedAt' \in [Requests -> Nat]
       /\ phase' \in [Requests -> {"absent", "open", "dispatched", "closed", "forgotten"}]
  BY <1>1, <1>4 DEF SInv
<1>11. \A w \in Watchers : [watch[w] EXCEPT !.state = "done"] \in Watch
  <2> SUFFICES ASSUME NEW w \in Watchers
               PROVE  [watch[w] EXCEPT !.state = "done"] \in Watch
    OBVIOUS
  <2>1. watch[w] \in Watch
    BY DEF SInv
  <2> QED
    BY <2>1 DEF Watch, States
<1>12. watch' \in [Watchers -> Watch]
  BY <1>1, <1>11 DEF SInv
<1>13. ASSUME NEW w \in Watchers
       PROVE  /\ Ordered(w)'
              /\ watch'[w].state = "idle" => got'[w] = << >>
              /\ watch'[w].state = "done" =>
                /\ watch'[w].request \in Requests /\ isFinished'[watch'[w].request]
                /\ Served(w, watch[w].request, closedAt[watch[w].request])'
  <2>1. CASE w \in DOMAIN subscribers[r]
    <3>1. watch[w].state = "pending" /\ watch[w].request = r /\ watch[w] \in Watch
      BY <2>1 DEF SInv, Subscribed
    <3>2. /\ watch'[w].state = "done" /\ watch'[w].request = r
          /\ \A record : Wanted(watch'[w], record) => Wanted(watch[w], record)
      BY <1>1, <2>1, <3>1 DEF Watch, Wanted
    <3>3. Ordered(w)'
      BY <1>2, <2>1, <3>2 DEF Ordered
    <3>4. Served(w, watch[w].request, closedAt[watch[w].request])'
      BY <1>2, <1>7, <2>1, <3>2 DEF Served
    <3> QED
      BY <1>7, <3>2, <3>3, <3>4
  <2>2. CASE w \notin DOMAIN subscribers[r]
    <3>1. ASSUME watch[w].state = "done"
          PROVE  /\ watch[w].request \in Requests /\ isFinished'[watch[w].request]
                 /\ Served(w, watch[w].request, closedAt[watch[w].request])'
      <4> DEFINE q == watch[w].request
                 n == closedAt[q]
      <4>1. q \in Requests /\ n \in 0 .. Len(records[q]) /\ Served(w, q, n) /\ isFinished[q]
        BY <1>4, <3>1 DEF SInv
      <4>2. q # r
        BY <4>1
      <4>3. q' = q
        BY <1>5, <2>2
      <4>4. n' = n
        BY <1>7, <4>1, <4>2, <4>3
      <4>5. isFinished'[q]
        BY <1>7, <4>1, <4>2
      <4> HIDE DEF q, n
      <4>6. \A p \in Requests : \A m \in 0 .. Len(records[p]) :
                    Served(w, p, m) => Served(w, p, m)'
        BY <1>5, <2>2
      <4>7. \A p, m : p = q /\ m = n => Served(w, p, m)'
        BY <4>1, <4>6
      <4>8. Served(w, q, n)'
        BY <4>3, <4>4, <4>7
      <4> QED
        BY <4>1, <4>5, <4>8 DEF q, n
    <3> QED
      BY <1>5, <2>2, <3>1 DEF SInv
  <2> QED
    BY <2>1, <2>2
<1> QED
  BY <1>1, <1>2, <1>3, <1>6, <1>8, <1>9, <1>10, <1>12, <1>13 DEF SInv

\* A step that leaves the records and the subscribers.  A watch may begin to
\* wait or find nothing, and its client may go away.
LEMMA RestKeeps ==
    ASSUME SInv, records' = records, got' = got, subscribers' = subscribers,
           isFinished' = isFinished, closedAt' = closedAt,
           phase' \in [Requests -> {"absent", "open", "dispatched", "closed", "forgotten"}],
           \A q \in Requests : isFinished[q] <=> phase'[q] \in {"closed", "forgotten"},
           watch' \in [Watchers -> Watch],
           \A w \in Watchers :
                \/ /\ watch'[w].request = watch[w].request
                   /\ watch'[w].state = watch[w].state
                   /\ \A record : Wanted(watch'[w], record) => Wanted(watch[w], record)
                \/ watch[w].state = "idle" /\ watch'[w].state \in {"pending", "notfound"},
           \A q \in Requests :
                \/ waitFor'[q] \in {waitFor[q], Nobody}
                \/ /\ waitFor'[q] \in Watchers /\ watch[waitFor'[q]].state = "idle"
                   /\ watch'[waitFor'[q]].state = "pending"
                   /\ watch'[waitFor'[q]].request = q,
           waitFor' = [q \in Requests |-> waitFor'[q]]
    PROVE  SInv'
<1>1. ASSUME NEW q \in Requests, NEW w \in DOMAIN subscribers'[q]
      PROVE  Subscribed(q, w)'
  <2>1. Subscribed(q, w)
    BY <1>1 DEF SInv
  <2>2. /\ watch'[w].request = watch[w].request /\ watch'[w].state = watch[w].state
        /\ \A record : Wanted(watch'[w], record) => Wanted(watch[w], record)
    BY <2>1 DEF Subscribed
  <2> QED
    BY <2>1, <2>2 DEF Subscribed, Served
<1>2. ASSUME NEW q \in Requests, waitFor'[q] # Nobody
      PROVE  Waits(q, waitFor[q])'
  <2>1. CASE waitFor'[q] = waitFor[q]
    <3> DEFINE u == waitFor[q]
    <3>1. Waits(q, u)
      BY <1>2, <2>1 DEF SInv
    <3>2. /\ u \in Watchers /\ u \notin DOMAIN subscribers'[q] /\ got'[u] = << >>
          /\ watch'[u].request = q /\ watch'[u].state = "pending"
      BY <3>1 DEF Waits
    <3> QED
      BY <2>1, <3>2 DEF Waits
  <2>2. CASE waitFor'[q] # waitFor[q]
    BY <1>2, <2>2 DEF SInv, Waits, Subscribed
  <2> QED
    BY <2>1, <2>2
<1>3. ASSUME NEW w \in Watchers
      PROVE  /\ Ordered(w)'
             /\ watch'[w].state = "idle" => got'[w] = << >>
             /\ watch'[w].state = "done" =>
                /\ watch'[w].request \in Requests /\ isFinished'[watch'[w].request]
                /\ Served(w, watch[w].request, closedAt[watch[w].request])'
  <2>1. CASE /\ watch'[w].request = watch[w].request
             /\ watch'[w].state = watch[w].state
             /\ \A record : Wanted(watch'[w], record) => Wanted(watch[w], record)
    BY <2>1 DEF SInv, Ordered, Served
  <2>2. CASE watch[w].state = "idle" /\ watch'[w].state \in {"pending", "notfound"}
    BY <2>2 DEF SInv, Ordered
  <2> QED
    BY <2>1, <2>2
<1>4. /\ got' = [w \in Watchers |-> got'[w]]
      /\ subscribers' = [q \in Requests |-> subscribers'[q]]
      /\ isFinished' \in [Requests -> BOOLEAN] /\ closedAt' \in [Requests -> Nat]
      /\ \A q \in Requests : /\ isFinished'[q] => DOMAIN subscribers'[q] = {}
                             /\ closedAt'[q] <= Len(records'[q])
  BY DEF SInv
<1> QED
  BY <1>1, <1>2, <1>3, <1>4 DEF SInv

LEMMA DispatchKeeps ==
    ASSUME IInv, SInv, NEW r \in Requests, Dispatch(r)
    PROVE  SInv'
<1>1. /\ records' = records /\ isFinished' = isFinished /\ closedAt' = closedAt
      /\ phase' = [phase EXCEPT ![r] = "dispatched"] /\ phase[r] = "open"
  BY DEF Dispatch
<1>2. /\ phase' \in [Requests -> {"absent", "open", "dispatched", "closed", "forgotten"}]
      /\ \A q \in Requests : isFinished[q] <=> phase'[q] \in {"closed", "forgotten"}
  BY <1>1 DEF SInv
<1>3. CASE waitFor[r] = Nobody
  <2>1. /\ waitFor' = waitFor /\ watch' = watch /\ got' = got
        /\ subscribers' = subscribers /\ watch' \in [Watchers -> Watch]
    BY <1>3 DEF Dispatch, SInv
  <2> QED
    BY <1>1, <1>2, <2>1, RestKeeps DEF SInv
<1>4. CASE waitFor[r] # Nobody
  <2>1. PICK w : w = waitFor[r]
    OBVIOUS
  <2>2. Waits(r, w)
    BY <1>4, <2>1 DEF SInv
  <2>3. /\ AddSubscriber(r, w, watch[w]) /\ waitFor' = [waitFor EXCEPT ![r] = Nobody]
    BY <1>4, <2>1 DEF Dispatch
  <2>4. PICK v : v = watch[w]
    OBVIOUS
  <2>5. /\ w \in Watchers /\ v \in Watch /\ v.request = r /\ v.state = "pending"
        /\ got[w] = << >>
    BY <2>2, <2>4 DEF Waits, SInv
  <2>6. \A q \in Requests : w \notin DOMAIN subscribers[q]
    BY <2>2 DEF Waits, SInv, Subscribed
  <2>7. \A q \in Requests : waitFor'[q] # Nobody => waitFor'[q] = waitFor[q] /\ waitFor[q] # w
    <3>1. ASSUME NEW q \in Requests, q # r, waitFor[q] = w
          PROVE  waitFor[q] = Nobody
      <4>1. waitFor[q] # Nobody => Waits(q, waitFor[q])
        BY DEF SInv
      <4> QED
        BY <2>2, <3>1, <4>1 DEF Waits
    <3>2. /\ waitFor'[r] = Nobody
          /\ \A q \in Requests : q # r => waitFor'[q] = waitFor[q]
      BY <2>3 DEF SInv
    <3> QED
      BY <3>1, <3>2
  <2>9. waitFor' = [q \in Requests |-> waitFor'[q]]
    BY <2>3 DEF SInv
  <2>8. AddSubscriber(r, w, v)
    BY <2>3, <2>4
  <2> QED
    BY <1>1, <1>2, <2>5, <2>6, <2>7, <2>8, <2>9, AddKeeps
<1> QED
  BY <1>3, <1>4

LEMMA ShowRequestKeeps ==
    ASSUME IInv, SInv, NEW w \in Watchers, ShowRequest(w)
    PROVE  SInv'
<1>1. PICK r \in Requests, debug \in BOOLEAN :
        LET v == [request |-> r, debug |-> debug, state |-> "pending", lost |-> FALSE]
        IN  WatchRequestid(w, r, v) \/ WatchAuditid(w, r, v)
  BY DEF ShowRequest
<1> DEFINE v == [request |-> r, debug |-> debug, state |-> "pending", lost |-> FALSE]
<1>2. /\ watch[w].state = "idle" /\ records' = records /\ isFinished' = isFinished
      /\ closedAt' = closedAt /\ phase' = phase
  BY DEF ShowRequest
<1>3. /\ phase' \in [Requests -> {"absent", "open", "dispatched", "closed", "forgotten"}]
      /\ \A q \in Requests : isFinished[q] <=> phase'[q] \in {"closed", "forgotten"}
  BY <1>2 DEF SInv
<1>4. v \in Watch /\ [v EXCEPT !.state = "notfound"] \in Watch
  BY DEF Watch, States
<1>5. /\ v.request = r /\ v.state = "pending" /\ [v EXCEPT !.state = "notfound"].state = "notfound"
  OBVIOUS
<1>6. /\ got[w] = << >> /\ \A q \in Requests : w \notin DOMAIN subscribers[q]
      /\ \A q \in Requests : waitFor[q] # Nobody => waitFor[q] # w
  BY <1>2 DEF SInv, Subscribed, Waits
<1>7. WatchRequestid(w, r, v) \/ WatchAuditid(w, r, v)
  BY <1>1
<1> HIDE DEF v
<1>8. CASE AddSubscriber(r, w, v) /\ waitFor' = waitFor
  <2>1. waitFor' = [q \in Requests |-> waitFor'[q]]
    BY <1>8 DEF SInv
  <2>2. \A q \in Requests : waitFor'[q] # Nobody => waitFor'[q] = waitFor[q] /\ waitFor[q] # w
    BY <1>6, <1>8
  <2> QED
    BY <1>2, <1>3, <1>4, <1>5, <1>6, <1>8, <2>1, <2>2, AddKeeps
<1>9. CASE /\ watch' = [watch EXCEPT ![w] = [v EXCEPT !.state = "notfound"]]
           /\ got' = got /\ subscribers' = subscribers /\ waitFor' = waitFor
  <2>1. /\ watch' \in [Watchers -> Watch] /\ watch'[w].state = "notfound"
        /\ \A u \in Watchers : u # w => watch'[u] = watch[u]
    BY <1>4, <1>5, <1>9 DEF SInv
  <2>2. \A u \in Watchers :
                \/ /\ watch'[u].request = watch[u].request
                   /\ watch'[u].state = watch[u].state
                   /\ \A record : Wanted(watch'[u], record) => Wanted(watch[u], record)
                \/ watch[u].state = "idle" /\ watch'[u].state \in {"pending", "notfound"}
    BY <1>2, <2>1
  <2> QED
    BY <1>2, <1>3, <1>9, <2>1, <2>2, RestKeeps DEF SInv
<1>10. CASE /\ watch' = [watch EXCEPT ![w] = v] /\ waitFor' = [waitFor EXCEPT ![r] = w]
            /\ got' = got /\ subscribers' = subscribers
  <2>1. /\ watch' \in [Watchers -> Watch] /\ watch'[w].state = "pending"
        /\ watch'[w].request = r
        /\ \A u \in Watchers : u # w => watch'[u] = watch[u]
    BY <1>4, <1>5, <1>10 DEF SInv
  <2>2. \A u \in Watchers :
                \/ /\ watch'[u].request = watch[u].request
                   /\ watch'[u].state = watch[u].state
                   /\ \A record : Wanted(watch'[u], record) => Wanted(watch[u], record)
                \/ watch[u].state = "idle" /\ watch'[u].state \in {"pending", "notfound"}
    BY <1>2, <2>1
  <2>3. \A q \in Requests :
                \/ waitFor'[q] \in {waitFor[q], Nobody}
                \/ /\ waitFor'[q] \in Watchers /\ watch[waitFor'[q]].state = "idle"
                   /\ watch'[waitFor'[q]].state = "pending"
                   /\ watch'[waitFor'[q]].request = q
    BY <1>2, <1>10, <2>1 DEF SInv
  <2> QED
    <3>1. waitFor' = [q \in Requests |-> waitFor'[q]]
      BY <1>10 DEF SInv
    <3> QED
      BY <1>2, <1>3, <1>10, <2>1, <2>2, <2>3, <3>1, RestKeeps
<1> QED
  BY <1>7, <1>8, <1>9, <1>10 DEF WatchRequestid, WatchAuditid

LEMMA SteadyKeeps ==
    ASSUME SInv, UNCHANGED <<records, got, subscribers, isFinished, closedAt, watch, waitFor>>,
           \/ phase' = phase
           \/ \E r \in Requests :
                \/ phase[r] = "absent" /\ phase' = [phase EXCEPT ![r] = "open"]
                \/ phase[r] = "closed" /\ phase' = [phase EXCEPT ![r] = "forgotten"]
    PROVE  SInv'
<1>1. /\ phase' \in [Requests -> {"absent", "open", "dispatched", "closed", "forgotten"}]
      /\ \A q \in Requests : isFinished[q] <=> phase'[q] \in {"closed", "forgotten"}
  BY DEF SInv
<1>2. watch' \in [Watchers -> Watch] /\ waitFor' = [q \in Requests |-> waitFor'[q]]
  BY DEF SInv
<1> QED
  BY <1>1, <1>2, RestKeeps

LEMMA LoseKeeps ==
    ASSUME SInv, NEW w \in Watchers, LoseWatcher(w)
    PROVE  SInv'
<1>1. /\ watch' = [watch EXCEPT ![w].lost = TRUE] /\ phase' = phase /\ waitFor' = waitFor
      /\ UNCHANGED <<records, got, subscribers, isFinished, closedAt>>
  BY DEF LoseWatcher
<1>2. /\ phase' \in [Requests -> {"absent", "open", "dispatched", "closed", "forgotten"}]
      /\ \A q \in Requests : isFinished[q] <=> phase'[q] \in {"closed", "forgotten"}
      /\ waitFor' = [q \in Requests |-> waitFor'[q]]
  BY <1>1 DEF SInv
<1>3. watch[w] \in Watch /\ watch \in [Watchers -> Watch]
  BY DEF SInv
<1> DEFINE v == [watch[w] EXCEPT !.lost = TRUE]
<1>4. v \in Watch /\ v.request = watch[w].request /\ v.state = watch[w].state /\ v.lost = TRUE
  BY <1>3 DEF Watch
<1>5. watch' = [watch EXCEPT ![w] = v]
  BY <1>1
<1> HIDE DEF v
<1>6. /\ watch' \in [Watchers -> Watch] /\ watch'[w] = v
      /\ \A u \in Watchers : u # w => watch'[u] = watch[u]
  BY <1>3, <1>4, <1>5
<1>7. \A record : ~Wanted(v, record)
  BY <1>4 DEF Wanted
<1>8. \A u \in Watchers :
        /\ watch'[u].request = watch[u].request
        /\ watch'[u].state = watch[u].state
        /\ \A record : Wanted(watch'[u], record) => Wanted(watch[u], record)
  BY <1>4, <1>6, <1>7
<1>9. \A q \in Requests : waitFor'[q] \in {waitFor[q], Nobody}
  BY <1>1
<1> QED
  BY <1>1, <1>2, <1>6, <1>8, <1>9, RestKeeps

LEMMA NextServes ==
    ASSUME IInv, SInv, [Next]_vars
    PROVE  SInv'
<1>1. ASSUME NEW r \in Requests, Finish(r) \/ Disconnect(r) PROVE SInv'
  BY <1>1, CleanupKeeps DEF Finish, Disconnect, SInv
<1>2. ASSUME NEW r \in Requests, PublishRecord(r) PROVE SInv'
  BY <1>2, PublishRecordKeeps
<1>3. ASSUME NEW r \in Requests, Dispatch(r) PROVE SInv'
  BY <1>3, DispatchKeeps
<1>4. ASSUME NEW r \in Requests, Open(r) \/ Forget(r) PROVE SInv'
  BY <1>4, SteadyKeeps DEF Open, Forget
<1>5. ASSUME NEW r \in Requests, Emit(r) \/ Return(r) PROVE SInv'
  BY <1>5, SteadyKeeps DEF Emit, Return, WorkerUnchanged
<1>6. ASSUME NEW w \in Watchers, ShowRequest(w) PROVE SInv'
  BY <1>6, ShowRequestKeeps
<1>7. ASSUME NEW w \in Watchers, LoseWatcher(w) PROVE SInv'
  BY <1>7, LoseKeeps
<1>8. CASE UNCHANGED vars
  BY <1>8, SteadyKeeps DEF vars
<1> QED
  BY <1>1, <1>2, <1>3, <1>4, <1>5, <1>6, <1>7, <1>8 DEF Next

LEMMA InitServes == Init => SInv
<1> SUFFICES ASSUME Init PROVE SInv
  OBVIOUS
<1>1. DOMAIN << >> = {} /\ << >> \in Seq(Nat) /\ Increasing(<< >>) /\ Len(<< >>) = 0
  BY EmptySeq DEF Increasing
<1>2. Idle \in Watch /\ Idle.state = "idle"
  BY DEF Idle, Watch, States
<1>3. \A w \in Watchers : watch[w] = Idle /\ got[w] = << >> /\ Ordered(w)
  BY <1>1 DEF Init, Ordered
<1> HIDE DEF Idle
<1>4. \A r \in Requests : /\ DOMAIN subscribers[r] = {} /\ closedAt[r] = 0 /\ Len(records[r]) = 0
                          /\ waitFor[r] = Nobody /\ isFinished[r] = FALSE
                          /\ phase[r] = "absent"
  BY <1>1 DEF Init
<1>5. /\ watch \in [Watchers -> Watch]
      /\ got = [w \in Watchers |-> got[w]]
      /\ subscribers = [r \in Requests |-> subscribers[r]]
      /\ waitFor = [r \in Requests |-> waitFor[r]]
      /\ isFinished \in [Requests -> BOOLEAN]
      /\ phase \in [Requests -> {"absent", "open", "dispatched", "closed", "forgotten"}]
      /\ closedAt \in [Requests -> Nat]
  BY <1>2 DEF Init
<1> QED
  BY <1>2, <1>3, <1>4, <1>5 DEF SInv

-----------------------------------------------------------------------------

(* However many records a command logs and in whatever order, a debug       *)
(* record that was replaced is older than every one that is kept            *)
(* (messages.py:128).                                                        *)
THEOREM NewestKept == Spec => []NewestDebugKept
<1>1. IInv => NewestDebugKept
  <2> SUFFICES ASSUME IInv, NEW r \in Requests, NEW i \in DOMAIN records[r],
                      NEW j \in DOMAIN records[r],
                      records[r][i] = Dropped, records[r][j] = "debug"
               PROVE  i < j
    BY DEF NewestDebugKept
  <2>1. Bounded(records[r], debugFifo[r]) /\ DOMAIN records[r] = 1 .. Len(records[r])
    BY LenProperties DEF IInv, Bounded
  <2>2. PICK k \in 1 .. Len(debugFifo[r]) : debugFifo[r][k] = j
    BY <2>1 DEF Bounded
  <2> QED
    BY <2>1, <2>2 DEF Bounded
<1> QED
  BY <1>1, InitInv, NextInv, PTL DEF Spec

(* Whenever a watcher comes and whichever callbacks and records interleave, *)
(* it is handed what it asked for, in order and once: a subscriber has been *)
(* handed all that was published, a watcher that waits nothing, and who is  *)
(* done all that finish() found (messages.py:120-175).                      *)
THEOREM DeliversExactly == Spec => []DeliveredExactly
<1>1. SInv => DeliveredExactly
  <2> SUFFICES ASSUME SInv, NEW w \in Watchers
               PROVE  /\ \A i, j \in DOMAIN got[w] : i < j => got[w][i] < got[w][j]
                      /\ (watch[w].state = "done" /\ ~watch[w].lost) =>
                            \A i \in 1 .. closedAt[watch[w].request] :
                                Wanted(watch[w], records[watch[w].request][i])
                                    => i \in ToSet(got[w])
    BY DEF DeliveredExactly, InOrderOnce, NothingSkipped
  <2>1. Ordered(w)
    BY DEF SInv
  <2>2. DOMAIN got[w] = 1 .. Len(got[w]) /\ Increasing(got[w])
    BY <2>1, LenProperties DEF Ordered
  <2>3. ToSet(got[w]) = Handed(got[w])
    BY <2>2 DEF ToSet, Handed
  <2> QED
    BY <2>2, <2>3 DEF SInv, Served, Increasing
<1>2. Init => IInv /\ SInv
  BY InitInv, InitServes
<1>3. IInv /\ SInv /\ [Next]_vars => IInv' /\ SInv'
  BY NextInv, NextServes
<1> QED
  BY <1>1, <1>2, <1>3, PTL DEF Spec

-----------------------------------------------------------------------------
(* The notification daemon, for any objects, clock and number of faults: a   *)
(* client that is behind is never forgotten, and the newest profile of an    *)
(* object is never removed as stale.                                        *)
(*                                                                         *)
(* Both rest on the modification times.  A compile sleeps with the key     *)
(* held until the second of its profile is over, so that whatever an index *)
(* or a file has recorded of an object is older than the next profile      *)
(* (Ages).  That profile is therefore the newest one and newer than the    *)
(* index (Kept), which is what a build looks for (Missed).                 *)


Working == [step : {"panc", "sleep", "trigger"}, since : Nat]

Types ==
    /\ clock \in Nat
    /\ broker \in [Objects -> {NoCompile} \cup Working]
    /\ format \in [Objects -> Suffix]
    /\ file \in [Files -> Nat]
    /\ index \in [Objects -> Nat]
    /\ build \in [todo : SUBSET Files, objects : [Objects -> Nat],
                  modified : SUBSET Objects, cleanup : SUBSET Files]
    /\ content \in [Objects -> Nat] /\ told \in [Objects -> Nat]

\* The time all that is known of o is older than
Horizon(o) ==
    IF broker[o].step = "panc" THEN broker[o].since
    ELSE IF broker[o].step = "sleep" THEN broker[o].since + 1 ELSE clock

Ages ==
    \A o \in Objects :
        /\ Horizon(o) <= clock + 1
        /\ broker[o].step = "panc" => Horizon(o) <= clock
        /\ Newest(o) < Horizon(o)
        /\ index[o] < Horizon(o)
        /\ build.objects[o] < Horizon(o)

\* The newest profile is in the format of the last compile.
Kept ==
    /\ \A o \in Objects :
        /\ Newest(o) # 0 => index[o] <= Newest(o) /\ build.objects[o] <= Newest(o)
        /\ format[o] = "xml" => file[<<o, "json">>] = 0
        /\ file[<<o, "json">>] # 0 => file[<<o, "xml">>] < file[<<o, "json">>]
    /\ \A o \in Objects : <<o, "json">> \notin build.cleanup
    /\ \A o \in Objects : <<o, "xml">> \in build.cleanup =>
        /\ format[o] = "json"
        /\ file[<<o, "xml">>] # 0 => file[<<o, "json">>] # 0

Missed ==
    /\ NothingMissed
    /\ pc = "walk" => \A o \in Objects : (content[o] # told[o] /\ Newest(o) # 0) =>
            Newest(o) > build.objects[o] \/ o \in build.modified \/ o \in dropped

NotifydInv == Types /\ Ages /\ Kept /\ Missed

-----------------------------------------------------------------------------
(* The newest of the two files an object may have.                          *)

LEMMA MaxOfTwo ==
    ASSUME NEW a \in Nat, NEW b \in Nat
    PROVE  Max({a, b}) = IF a >= b THEN a ELSE b
<1>1. \E m \in {a, b} : \A y \in {a, b} : m >= y
  OBVIOUS
<1> QED
  BY <1>1 DEF Max

LEMMA NewestOfTwo ==
    ASSUME NEW g \in [Files -> Nat], NEW o \in Objects
    PROVE  Max({g[<<o, s>>] : s \in Suffix})
             = IF g[<<o, "xml">>] >= g[<<o, "json">>] THEN g[<<o, "xml">>] ELSE g[<<o, "json">>]
<1>1. {g[<<o, s>>] : s \in Suffix} = {g[<<o, "xml">>], g[<<o, "json">>]}
  BY DEF Suffix
<1>2. g[<<o, "xml">>] \in Nat /\ g[<<o, "json">>] \in Nat
  BY DEF Files, Suffix
<1> QED
  BY <1>1, <1>2, MaxOfTwo

LEMMA NewestIs ==
    ASSUME file \in [Files -> Nat], NEW o \in Objects
    PROVE  Newest(o) = IF file[<<o, "xml">>] >= file[<<o, "json">>]
                       THEN file[<<o, "xml">>] ELSE file[<<o, "json">>]
BY NewestOfTwo DEF Newest

LEMMA NewestNat ==
    ASSUME file \in [Files -> Nat], NEW o \in Objects
    PROVE  Newest(o) \in Nat
<1>1. file[<<o, "xml">>] \in Nat /\ file[<<o, "json">>] \in Nat
  BY DEF Files, Suffix
<1> QED
  BY <1>1, NewestIs

LEMMA NotifydInitInv == NotifydInit => NotifydInv
<1> SUFFICES ASSUME NotifydInit PROVE NotifydInv
  OBVIOUS
<1>1. Types
  BY DEF NotifydInit, Types, NoBuild, Suffix
<1>2. \A o \in Objects : Newest(o) = 0
  BY <1>1, NewestIs DEF NotifydInit, Types, Files, Suffix
<1>3. Ages
  BY <1>2 DEF NotifydInit, Ages, Horizon, NoCompile, NoBuild
<1>4. Kept
  BY <1>2 DEF NotifydInit, Kept, NoBuild, Files, Suffix
<1>5. Missed
  BY <1>2 DEF NotifydInit, Missed, NothingMissed
<1> QED
  BY <1>1, <1>3, <1>4, <1>5 DEF NotifydInv

-----------------------------------------------------------------------------
(* The steps that leave the files and the index alone.                      *)

\* The broker's commands and the clock: an object's horizon never falls.
LEMMA BrokerMoves ==
    ASSUME NotifydInv, Types',
           UNCHANGED <<file, index, build, pc, content, told, dropped>>,
           \A o \in Objects :
               /\ Horizon(o) <= Horizon(o)'
               /\ Horizon(o)' <= clock' + 1
               /\ broker'[o].step = "panc" => Horizon(o)' <= clock'
               /\ format'[o] = format[o] \/ format'[o] = "json"
    PROVE  NotifydInv'
<1>1. \A o \in Objects : Newest(o)' = Newest(o) /\ Newest(o) \in Nat
  <2>1. \A o \in Objects : Newest(o)' = Newest(o)
    BY DEF Newest
  <2> QED
    BY <2>1, NewestNat DEF NotifydInv, Types
<1>2. \A o \in Objects : Horizon(o) \in Nat /\ Horizon(o)' \in Nat
  BY DEF Horizon, NotifydInv, Types, Working, NoCompile
<1>3. Ages'
  BY <1>1, <1>2 DEF NotifydInv, Ages, Types
<1>4. Kept'
  BY <1>1 DEF NotifydInv, Kept
<1>5. Missed'
  BY <1>1 DEF NotifydInv, Missed, NothingMissed, Unsent
<1> QED
  BY <1>3, <1>4, <1>5 DEF NotifydInv

\* The daemon: what was to be sent is sent, or given up, and a walk begins
\* with nothing seen.
LEMMA DaemonMoves ==
    ASSUME NotifydInv, Types',
           UNCHANGED <<clock, broker, format, file, index, content>>,
           build'.cleanup \subseteq build.cleanup,
           \A o \in Objects :
               /\ build'.objects[o] \in {build.objects[o], 0}
               /\ told'[o] \in {told[o], content[o]}
               /\ o \in Unsent \cup dropped =>
                      o \in Unsent' \cup dropped' \/ told'[o] = content[o],
           pc' = "walk" => \/ pc = "walk" /\ UNCHANGED <<build, dropped>>
                           \/ \A o \in Objects : build'.objects[o] = 0
    PROVE  NotifydInv'
<1>1. \A o \in Objects : /\ Newest(o)' = Newest(o) /\ Newest(o) \in Nat
                         /\ Horizon(o)' = Horizon(o)
  <2>1. \A o \in Objects : Newest(o)' = Newest(o) /\ Horizon(o)' = Horizon(o)
    BY DEF Newest, Horizon
  <2> QED
    BY <2>1, NewestNat DEF NotifydInv, Types
<1>2. Ages'
  <2>1. \A o \in Objects : 0 < Horizon(o) /\ Horizon(o)' = Horizon(o)
    BY <1>1 DEF NotifydInv, Ages, Types, Horizon, Working, NoCompile
  <2> QED
    BY <1>1, <2>1 DEF NotifydInv, Ages
<1>3. Kept'
  BY <1>1 DEF NotifydInv, Kept
<1>4. NothingMissed'
  BY <1>1 DEF NotifydInv, Missed, NothingMissed
<1>5. Missed'
  BY <1>1, <1>4 DEF NotifydInv, Missed
<1> QED
  BY <1>2, <1>3, <1>5 DEF NotifydInv

LEMMA BrokerInv ==
    ASSUME NotifydInv, NEW o \in Objects,
           StartCompile(o) \/ CompileFails(o) \/ ChangeFormat(o) \/ Sleep(o) \/ Trigger(o)
    PROVE  NotifydInv'
<1>1. Types
  BY DEF NotifydInv
<1>2. UNCHANGED <<clock, file, index, build, pc, content, told, dropped>>
  BY DEF StartCompile, CompileFails, ChangeFormat, Sleep, Trigger, daemon, aux
<1>3. \/ broker' = broker
      \/ \E b \in {NoCompile} \cup Working : broker' = [broker EXCEPT ![o] = b]
  BY <1>1 DEF Types, Working, StartCompile, CompileFails, ChangeFormat, Sleep, Trigger
<1>4. Types'
  BY <1>1, <1>2, <1>3 DEF Types, Suffix, StartCompile, CompileFails, ChangeFormat, Sleep,
     Trigger
<1>5. \A p \in Objects : p # o => broker'[p] = broker[p]
  BY <1>1, <1>3 DEF Types
<1>6. /\ Horizon(o) <= Horizon(o)'
      /\ Horizon(o)' <= clock' + 1
      /\ broker'[o].step = "panc" => Horizon(o)' <= clock'
  BY <1>1, <1>2 DEF NotifydInv, Ages, Types, Working, NoCompile, Horizon,
     StartCompile, CompileFails, ChangeFormat, Sleep, Trigger
<1>7. \A p \in Objects : p # o => Horizon(p)' = Horizon(p)
  BY <1>2, <1>5 DEF Horizon
<1>8. \A p \in Objects : /\ Horizon(p) <= Horizon(p)'
                         /\ Horizon(p)' <= clock' + 1
                         /\ broker'[p].step = "panc" => Horizon(p)' <= clock'
  <2>1. \A p \in Objects : Horizon(p) \in Nat
    BY <1>1 DEF Horizon, Types, Working, NoCompile
  <2> QED
    BY <1>2, <1>5, <1>6, <1>7, <2>1 DEF NotifydInv, Ages
<1>9. \A p \in Objects : format'[p] = format[p] \/ format'[p] = "json"
  BY <1>1 DEF Types, StartCompile, CompileFails, ChangeFormat, Sleep, Trigger
<1> QED
  BY <1>2, <1>4, <1>8, <1>9, BrokerMoves

LEMMA TickInv ==
    ASSUME NotifydInv, Tick
    PROVE  NotifydInv'
<1>1. Types
  BY DEF NotifydInv
<1>2. Types' /\ clock' = clock + 1
      /\ UNCHANGED <<broker, format, file, index, build, pc, content, told, dropped>>
  BY <1>1 DEF Tick, Types, daemon, aux
<1>3. \A o \in Objects : /\ Horizon(o) <= Horizon(o)'
                         /\ Horizon(o)' <= clock' + 1
                         /\ broker'[o].step = "panc" => Horizon(o)' <= clock'
  BY <1>1, <1>2 DEF Types, NotifydInv, Ages, Horizon, Working, NoCompile
<1> QED
  BY <1>2, <1>3, BrokerMoves

LEMMA UpdaterWaitsInv ==
    ASSUME NotifydInv, LineReceived \/ StopWorker \/ Loop \/ Woken \/ TimedOut \/ BindSocket \/ Restart
    PROVE  NotifydInv'
<1>1. Types
  BY DEF NotifydInv
<1>2. UNCHANGED <<clock, broker, format, file, index, build, content, told, dropped>>
  BY DEF LineReceived, StopWorker, Loop, Woken, TimedOut, BindSocket, Restart,
     command, aux, flags
<1>3. Types'
  BY <1>1, <1>2 DEF Types
<1>4. pc' = pc \/ (pc = "socket" /\ pc' = "send")
      \/ (pc \in {"loop", "wait", "stopped"} /\ pc' \in {"loop", "wait", "build", "stopped"})
  BY DEF LineReceived, StopWorker, Loop, Woken, TimedOut, Resume, BindSocket, Restart
<1>5. Unsent' = Unsent /\ (pc' = "walk" => pc = "walk")
  BY <1>2, <1>4 DEF Unsent
<1>6. build'.cleanup \subseteq build.cleanup
  BY <1>2
<1>7. \A o \in Objects : build'.objects[o] = build.objects[o] /\ told'[o] = told[o]
  BY <1>2
<1> QED
  BY <1>2, <1>3, <1>5, <1>6, <1>7, DaemonMoves

LEMMA BuildEndsInv ==
    ASSUME NotifydInv, StartWalk \/ BuildDone \/ BuildFails \/ BindFails \/ Crash
    PROVE  NotifydInv'
<1>1. Types
  BY DEF NotifydInv
<1>2. UNCHANGED <<clock, broker, format, file, index, content, told>>
  BY DEF StartWalk, BuildDone, BuildFails, BindFails, Crash, command, aux
<1>3. /\ build' \in [todo : SUBSET Files, objects : [Objects -> Nat],
                     modified : SUBSET Objects, cleanup : SUBSET Files]
      /\ build'.cleanup = {}
      /\ \A o \in Objects : build'.objects[o] = 0
  BY DEF StartWalk, BuildDone, BuildFails, BindFails, Crash, NoBuild
<1>4. Types'
  BY <1>1, <1>2, <1>3 DEF Types
<1>5. Unsent \cup dropped \subseteq dropped'
  BY DEF StartWalk, BuildDone, BuildFails, BindFails, Crash, Unsent, aux
<1> QED
  BY <1>2, <1>3, <1>4, <1>5, DaemonMoves

LEMMA NotifyInv ==
    ASSUME NotifydInv, NEW o \in Objects, SendNotification(o) \/ NotificationLost(o)
    PROVE  NotifydInv'
<1>1. Types
  BY DEF NotifydInv
<1>2. /\ UNCHANGED <<clock, broker, format, file, index, content, pc>>
      /\ pc = "send"
      /\ build' = [build EXCEPT !.modified = @ \ {o}]
  BY DEF SendNotification, NotificationLost, command
<1>3. build'.cleanup = build.cleanup /\ build'.objects = build.objects
      /\ build'.modified = build.modified \ {o}
  BY <1>1, <1>2 DEF Types
<1>4. told' \in [Objects -> Nat] /\ \A p \in Objects : told'[p] \in {told[p], content[p]}
  BY <1>1 DEF Types, SendNotification, NotificationLost
<1>5. Types'
  BY <1>1, <1>2, <1>4 DEF Types
<1>6. Unsent = build.modified /\ Unsent' = build.modified \ {o}
  BY <1>2, <1>3 DEF Unsent
<1>7. \A p \in Objects : p \in Unsent \cup dropped =>
            p \in Unsent' \cup dropped' \/ told'[p] = content[p]
  BY <1>1, <1>6 DEF Types, SendNotification, NotificationLost
<1> QED
  BY <1>2, <1>3, <1>4, <1>5, <1>7, DaemonMoves

-----------------------------------------------------------------------------
(* The steps that change the files or the index.                            *)

\* A file is at most as new as the newest.
LEMMA NewestBounds ==
    ASSUME file \in [Files -> Nat], NEW f \in Files
    PROVE  f[1] \in Objects /\ f[2] \in Suffix /\ f = <<f[1], f[2]>> /\ file[f] <= Newest(f[1])
<1>1. f[1] \in Objects /\ f[2] \in {"xml", "json"} /\ f = <<f[1], f[2]>>
  BY DEF Files, Suffix
<1>2. file[<<f[1], "xml">>] \in Nat /\ file[<<f[1], "json">>] \in Nat
  BY <1>1 DEF Files, Suffix
<1>3. file[<<f[1], f[2]>>] <= Newest(f[1])
  BY <1>1, <1>2, NewestIs
<1> QED
  BY <1>1, <1>3 DEF Suffix

LEMMA ServeInv ==
    ASSUME NotifydInv, NEW o \in Objects, ServeProfile(o)
    PROVE  NotifydInv'
<1>1. Types
  BY DEF NotifydInv
<1>2. /\ broker[o] \in Working /\ broker[o].step = "panc"
      /\ broker' = [broker EXCEPT ![o] = [step |-> "sleep", since |-> clock]]
      /\ UNCHANGED <<clock, format, index, build, pc, told, dropped>>
  BY <1>1 DEF ServeProfile, Types, daemon
<1>3. /\ broker'[o].step = "sleep" /\ broker'[o].since = clock
      /\ \A p \in Objects : p # o => broker'[p] = broker[p]
  BY <1>1, <1>2 DEF Types
<1>4. /\ Horizon(o) = broker[o].since /\ Horizon(o) \in Nat /\ Horizon(o) <= clock
      /\ Horizon(o)' = clock + 1
      /\ \A p \in Objects : p # o => Horizon(p)' = Horizon(p)
  BY <1>1, <1>2, <1>3 DEF Horizon, NotifydInv, Ages, Types, Working
<1>5. CASE UNCHANGED <<file, content>>
  <2>1. Types'
    BY <1>1, <1>2, <1>5 DEF Types, Working
  <2>2. \A p \in Objects : Horizon(p) \in Nat
    BY <1>1 DEF Horizon, Types, Working, NoCompile
  <2>3. \A p \in Objects :
          /\ Horizon(p) <= Horizon(p)' /\ Horizon(p)' <= clock' + 1
          /\ broker'[p].step = "panc" => Horizon(p)' <= clock'
    BY <1>1, <1>2, <1>3, <1>4, <2>2 DEF NotifydInv, Ages, Types
  <2> QED
    BY <1>2, <1>5, <2>1, <2>3, BrokerMoves
<1>6. ASSUME NEW mtime \in broker[o].since .. clock,
             file' = [file EXCEPT ![<<o, format[o]>>] = Max({@, mtime})],
             content' = [content EXCEPT ![o] = @ + 1]
      PROVE  NotifydInv'
  <2>1. <<o, format[o]>> \in Files /\ format[o] \in {"xml", "json"} /\ mtime \in Nat
    BY <1>1, <1>2 DEF Types, Files, Suffix, Working
  <2>2. file[<<o, format[o]>>] \in Nat /\ file[<<o, format[o]>>] < mtime
    BY <1>1, <1>2, <1>4, <1>6, <2>1, NewestBounds, NewestNat DEF NotifydInv, Ages, Types
  <2>3. file' = [file EXCEPT ![<<o, format[o]>>] = mtime]
    <3>1. Max({file[<<o, format[o]>>], mtime}) = mtime
      BY <2>1, <2>2, MaxOfTwo
    <3> QED
      BY <1>6, <3>1
  <2>4. Types'
    BY <1>1, <1>2, <1>6, <2>1, <2>3 DEF Types, Working
  <2>5. /\ file'[<<o, format[o]>>] = mtime
        /\ \A p \in Objects, t \in Suffix :
              (p # o \/ t # format[o]) => file'[<<p, t>>] = file[<<p, t>>]
    BY <1>1, <2>1, <2>3 DEF Types, Files
  <2>6. \A p \in Objects : p # o => Newest(p)' = Newest(p)
    BY <2>5 DEF Newest
  <2>7. \A t \in Suffix : file[<<o, t>>] \in Nat /\ file[<<o, t>>] < mtime
    BY <1>1, <1>2, <1>4, <1>6, <2>1, NewestBounds, NewestNat DEF NotifydInv, Ages, Types, Files
  <2>8. Newest(o)' = mtime
    <3>1. file' \in [Files -> Nat]
      BY <2>4 DEF Types
    <3>2. Newest(o)' = IF file'[<<o, "xml">>] >= file'[<<o, "json">>]
                       THEN file'[<<o, "xml">>] ELSE file'[<<o, "json">>]
      BY <3>1, NewestOfTwo DEF Newest
    <3> QED
      BY <2>1, <2>5, <2>7, <3>2 DEF Suffix
  <2>9. index[o] < mtime /\ build.objects[o] < mtime /\ mtime <= clock
    BY <1>1, <1>2, <1>4, <1>6, <2>1 DEF NotifydInv, Ages, Types, Working
  <2>10. Ages'
    BY <1>1, <1>2, <1>3, <1>4, <2>1, <2>6, <2>8, <2>9 DEF NotifydInv, Ages, Types
  <2>11. Kept'
    <3>1. \A p \in Objects : Newest(p)' # 0 =>
              index'[p] <= Newest(p)' /\ build'.objects[p] <= Newest(p)'
      <4>1. /\ index[o] \in Nat /\ index'[o] = index[o] /\ index'[o] <= Newest(o)'
            /\ build'.objects[o] \in Nat /\ build'.objects[o] <= Newest(o)'
        BY <1>1, <1>2, <2>1, <2>8, <2>9 DEF Types
      <4>2. \A p \in Objects : p # o => (Newest(p)' # 0 =>
                index'[p] <= Newest(p)' /\ build'.objects[p] <= Newest(p)')
        BY <1>2, <2>6 DEF NotifydInv, Kept
      <4> QED
        BY <4>1, <4>2
    <3>2. \A p \in Objects :
            /\ format'[p] = "xml" => file'[<<p, "json">>] = 0
            /\ file'[<<p, "json">>] # 0 => file'[<<p, "xml">>] < file'[<<p, "json">>]
      BY <1>2, <2>1, <2>5, <2>7 DEF NotifydInv, Kept, Suffix
    <3>3. \A p \in Objects : <<p, "xml">> \in build'.cleanup =>
            /\ format'[p] = "json"
            /\ file'[<<p, "xml">>] # 0 => file'[<<p, "json">>] # 0
      BY <1>2, <2>1, <2>2, <2>5 DEF NotifydInv, Kept, Suffix
    <3> QED
      BY <1>2, <3>1, <3>2, <3>3 DEF NotifydInv, Kept
  <2>12. \A p \in Objects : p # o => content'[p] = content[p]
    BY <1>1, <1>6 DEF Types
  <2>13. Missed'
    BY <1>1, <1>2, <2>6, <2>8, <2>9, <2>12 DEF NotifydInv, Missed, NothingMissed, Unsent, Types
  <2> QED
    BY <2>4, <2>10, <2>11, <2>13 DEF NotifydInv
<1> QED
  BY <1>5, <1>6 DEF ServeProfile

LEMMA RemoveInv ==
    ASSUME NotifydInv, NEW o \in Objects, RemoveProfile(o)
    PROVE  NotifydInv'
<1>1. Types
  BY DEF NotifydInv
<1>2. /\ broker[o].step = "idle"
      /\ broker' = [broker EXCEPT ![o] = [step |-> "trigger", since |-> clock]]
      /\ file' = [f \in Files |-> IF f[1] = o THEN 0 ELSE file[f]]
      /\ UNCHANGED <<clock, format, index, build, pc, content, told, dropped>>
  BY DEF RemoveProfile, daemon, aux, NoCompile
<1>3. Types'
  BY <1>1, <1>2 DEF Types, Working
<1>4. \A p \in Objects, t \in Suffix :
          file'[<<p, t>>] = IF p = o THEN 0 ELSE file[<<p, t>>]
  BY <1>2 DEF Files
<1>5. \A p \in Objects : p # o => Newest(p)' = Newest(p)
  BY <1>4 DEF Newest
<1>6. Newest(o)' = 0
  <2>1. file' \in [Files -> Nat]
    BY <1>3 DEF Types
  <2>2. Newest(o)' = IF file'[<<o, "xml">>] >= file'[<<o, "json">>]
                     THEN file'[<<o, "xml">>] ELSE file'[<<o, "json">>]
    BY <2>1, NewestOfTwo DEF Newest
  <2> QED
    BY <1>4, <2>2 DEF Suffix
<1>7. \A p \in Objects :
        Horizon(p)' = Horizon(p) /\ (broker'[p].step = "panc" => broker[p].step = "panc")
  BY <1>1, <1>2 DEF Horizon, Types
<1>8. 0 < Horizon(o)
  BY <1>1 DEF NotifydInv, Ages, Types, Horizon, Working, NoCompile
<1>9. Ages'
  BY <1>2, <1>5, <1>6, <1>7, <1>8 DEF NotifydInv, Ages
<1>10. Kept'
  BY <1>2, <1>4, <1>5, <1>6 DEF NotifydInv, Kept, Suffix
<1>11. Missed'
  BY <1>2, <1>5, <1>6 DEF NotifydInv, Missed, NothingMissed, Unsent
<1> QED
  BY <1>3, <1>9, <1>10, <1>11 DEF NotifydInv

LEMMA VisitInv ==
    ASSUME NotifydInv, NEW f \in Files, Visit(f)
    PROVE  NotifydInv'
<1> DEFINE o == f[1]
           mtime == file[f]
<1>1. Types
  BY DEF NotifydInv
<1>2. UNCHANGED <<clock, broker, format, file, index, content, dropped, pc>> /\ pc = "walk"
  BY DEF Visit, command
<1>3. o \in Objects /\ mtime \in Nat /\ mtime <= Newest(o) /\ f = <<o, f[2]>> /\ f[2] \in Suffix
  BY <1>1, NewestBounds DEF Types
<1>4. Max({build.objects[o], mtime}) = IF build.objects[o] >= mtime THEN build.objects[o] ELSE mtime
  BY <1>1, <1>3, MaxOfTwo DEF Types
<1>5. build' = [build EXCEPT
            !.todo = @ \ {f},
            !.objects[o] = Max({@, mtime}),
            !.modified = IF index[o] # 0 /\ mtime > index[o] THEN @ \cup {o} ELSE @,
            !.cleanup = IF Stale(f) THEN @ \cup {f} ELSE @]
  BY DEF Visit
<1>6. /\ build'.objects = [build.objects EXCEPT ![o] = Max({@, mtime})]
      /\ build'.modified = IF index[o] # 0 /\ mtime > index[o]
                           THEN build.modified \cup {o} ELSE build.modified
      /\ build'.cleanup = IF Stale(f) THEN build.cleanup \cup {f} ELSE build.cleanup
      /\ build'.todo = build.todo \ {f}
      /\ DOMAIN build' = DOMAIN build
  BY <1>1, <1>5 DEF Types
<1>7. /\ build'.objects[o] = IF build.objects[o] >= mtime THEN build.objects[o] ELSE mtime
      /\ \A p \in Objects : p # o => build'.objects[p] = build.objects[p]
      /\ build'.objects \in [Objects -> Nat]
  <2>1. build.objects \in [Objects -> Nat]
    BY <1>1 DEF Types
  <2>2. build'.objects =
          [build.objects EXCEPT ![o] = IF build.objects[o] >= mtime THEN build.objects[o] ELSE mtime]
    BY <1>4, <1>6
  <2> QED
    BY <1>3, <2>1, <2>2
<1>8. told' = [told EXCEPT ![o] = IF index[o] = 0 /\ mtime # 0 THEN content[o] ELSE @]
  BY DEF Visit
<1>9. /\ told' \in [Objects -> Nat]
      /\ told'[o] = IF index[o] = 0 /\ mtime # 0 THEN content[o] ELSE told[o]
      /\ \A p \in Objects : p # o => told'[p] = told[p]
  BY <1>1, <1>3, <1>8 DEF Types
<1> HIDE DEF o, mtime
<1>10. Types'
  <2>1. build' \in [todo : SUBSET Files, objects : [Objects -> Nat],
                    modified : SUBSET Objects, cleanup : SUBSET Files]
    BY <1>1, <1>3, <1>4, <1>5 DEF Types
  <2> QED
    BY <1>1, <1>2, <1>9, <2>1 DEF Types
<1>11. \A p \in Objects : /\ Newest(p)' = Newest(p) /\ Newest(p) \in Nat
                          /\ Horizon(p)' = Horizon(p) /\ Horizon(p) \in Nat
  <2>1. \A p \in Objects : Newest(p)' = Newest(p) /\ Horizon(p)' = Horizon(p)
    BY <1>2 DEF Newest, Horizon
  <2>2. \A p \in Objects : Horizon(p) \in Nat
    BY <1>1 DEF Horizon, Types, Working, NoCompile
  <2> QED
    BY <1>1, <2>1, <2>2, NewestNat DEF Types
<1>12. Ages'
  <2>1. build'.objects[o] < Horizon(o)
    BY <1>1, <1>3, <1>7, <1>11 DEF NotifydInv, Ages, Types
  <2> QED
    BY <1>2, <1>7, <1>11, <2>1 DEF NotifydInv, Ages
<1>13. Stale(f) => /\ f[2] = "xml" /\ format[o] = "json" /\ file[<<o, "json">>] # 0
  <2> SUFFICES ASSUME Stale(f)
               PROVE  f[2] = "xml" /\ format[o] = "json" /\ file[<<o, "json">>] # 0
    OBVIOUS
  <2>1. mtime # 0 /\ mtime < index[o] /\ index[o] \in Nat
    BY <1>1, <1>3 DEF Stale, o, mtime, Types
  <2>2. index[o] <= Newest(o)
    <3>1. Newest(o) # 0
      BY <1>3, <1>11, <2>1
    <3> QED
      BY <1>3, <3>1 DEF NotifydInv, Kept
  <2>3. Newest(o) = IF file[<<o, "xml">>] >= file[<<o, "json">>]
                    THEN file[<<o, "xml">>] ELSE file[<<o, "json">>]
    BY <1>1, <1>3, NewestIs DEF Types
  <2>4. /\ file[<<o, "xml">>] \in Nat /\ file[<<o, "json">>] \in Nat
        /\ mtime = file[<<o, f[2]>>]
    BY <1>1, <1>3 DEF Types, Files, Suffix, mtime
  <2>5. file[<<o, "json">>] # 0 => file[<<o, "xml">>] < file[<<o, "json">>]
    BY <1>3 DEF NotifydInv, Kept
  <2>6. f[2] = "xml" /\ file[<<o, "json">>] # 0
    BY <1>3, <2>1, <2>2, <2>3, <2>4, <2>5 DEF Suffix
  <2> QED
    BY <1>1, <1>3, <2>6 DEF NotifydInv, Kept, Types, Suffix
<1>14. Kept'
  <2>1. \A p \in Objects : Newest(p)' # 0 =>
            index'[p] <= Newest(p)' /\ build'.objects[p] <= Newest(p)'
    BY <1>2, <1>3, <1>7, <1>11 DEF NotifydInv, Kept
  <2>2. \A p \in Objects, t \in Suffix : <<p, t>> \in build'.cleanup =>
            <<p, t>> \in build.cleanup \/ (Stale(f) /\ p = o /\ t = f[2])
    BY <1>3, <1>6
  <2> QED
    BY <1>2, <1>13, <2>1, <2>2 DEF NotifydInv, Kept, Suffix
<1>15. NothingMissed'
  BY <1>2, <1>9, <1>11 DEF NotifydInv, Missed, NothingMissed, Unsent
<1>16. (content[o] # told'[o] /\ Newest(o) # 0) =>
           Newest(o) > build'.objects[o] \/ o \in build'.modified \/ o \in dropped
  <2> SUFFICES ASSUME content[o] # told'[o], Newest(o) # 0, o \notin dropped,
                      ~ (Newest(o) > build'.objects[o])
               PROVE  o \in build'.modified
    OBVIOUS
  <2>1. told'[o] = told[o] /\ ~ (index[o] = 0 /\ mtime # 0)
    BY <1>9
  <2>2. CASE build.objects[o] >= mtime
    BY <1>2, <1>3, <1>6, <1>7, <2>1, <2>2 DEF NotifydInv, Missed
  <2>3. CASE mtime > build.objects[o]
    <3>1. mtime >= Newest(o)
      BY <1>1, <1>3, <1>7, <1>11, <2>3 DEF Types
    <3>2. Newest(o) > index[o] /\ index[o] \in Nat
      BY <1>1, <1>2, <1>3, <2>1 DEF NotifydInv, Missed, NothingMissed, Unsent, Types
    <3> QED
      BY <1>3, <1>6, <1>11, <2>1, <3>1, <3>2
  <2> QED
    BY <1>1, <1>3, <2>2, <2>3 DEF Types
<1>17. Missed'
  <2>1. \A p \in Objects : p # o => (p \in build.modified => p \in build'.modified)
    BY <1>6
  <2> QED
    BY <1>2, <1>7, <1>9, <1>11, <1>15, <1>16, <2>1 DEF NotifydInv, Missed
<1> QED
  BY <1>10, <1>12, <1>14, <1>17 DEF NotifydInv

LEMMA WriteIndexInv ==
    ASSUME NotifydInv, WriteIndex
    PROVE  NotifydInv'
<1>1. Types
  BY DEF NotifydInv
<1>2. /\ UNCHANGED <<clock, broker, format, file, build, content, told, dropped>>
      /\ index' = build.objects /\ pc = "walk" /\ pc' = "clean"
  BY DEF WriteIndex, command, aux
<1>3. Types'
  BY <1>1, <1>2 DEF Types
<1>4. \A o \in Objects : Newest(o)' = Newest(o) /\ Horizon(o)' = Horizon(o)
  BY <1>2 DEF Newest, Horizon
<1>5. Ages'
  BY <1>2, <1>4 DEF NotifydInv, Ages
<1>6. Kept'
  BY <1>2, <1>4 DEF NotifydInv, Kept
<1>7. Missed'
  BY <1>2, <1>4 DEF NotifydInv, Missed, NothingMissed, Unsent
<1> QED
  BY <1>3, <1>5, <1>6, <1>7 DEF NotifydInv

\* A stale file that is removed leaves a newer one.
LEMMA CleanUpKeeps ==
    ASSUME NotifydInv, CleanUp
    PROVE  /\ file' \in [Files -> Nat]
           /\ \A o \in Objects : file'[<<o, "json">>] = file[<<o, "json">>]
           /\ \A o \in Objects : file'[<<o, "xml">>] =
                  IF <<o, "xml">> \in build.cleanup THEN 0 ELSE file[<<o, "xml">>]
           /\ \A o \in Objects : Newest(o)' = Newest(o)
<1>1. Types /\ Kept
  BY DEF NotifydInv
<1>2. file' = [f \in Files |-> IF f \in build.cleanup THEN 0 ELSE file[f]]
  BY DEF CleanUp
<1>3. file' \in [Files -> Nat]
  BY <1>1, <1>2 DEF Types
<1>4. \A o \in Objects :
        /\ file'[<<o, "json">>] = file[<<o, "json">>]
        /\ file'[<<o, "xml">>] =
               IF <<o, "xml">> \in build.cleanup THEN 0 ELSE file[<<o, "xml">>]
  BY <1>1, <1>2 DEF Kept, Files, Suffix
<1>5. ASSUME NEW o \in Objects
      PROVE  Newest(o)' = Newest(o)
  <2>1. Newest(o) = IF file[<<o, "xml">>] >= file[<<o, "json">>]
                    THEN file[<<o, "xml">>] ELSE file[<<o, "json">>]
    BY <1>1, NewestIs DEF Types
  <2>2. Newest(o)' = IF file'[<<o, "xml">>] >= file'[<<o, "json">>]
                     THEN file'[<<o, "xml">>] ELSE file'[<<o, "json">>]
    BY <1>3, NewestOfTwo DEF Newest
  <2>3. file[<<o, "xml">>] \in Nat /\ file[<<o, "json">>] \in Nat
    BY <1>1 DEF Types, Files, Suffix
  <2> QED
    BY <1>1, <1>4, <2>1, <2>2, <2>3 DEF Kept
<1> QED
  BY <1>3, <1>4, <1>5

LEMMA CleanUpInv ==
    ASSUME NotifydInv, CleanUp
    PROVE  NotifydInv'
<1>1. Types
  BY DEF NotifydInv
<1>2. /\ UNCHANGED <<clock, broker, format, index, build, content, told, dropped>>
      /\ pc = "clean" /\ pc' = "socket"
  BY DEF CleanUp, command, aux
<1>3. Types'
  BY <1>1, <1>2, CleanUpKeeps DEF Types
<1>4. \A o \in Objects : Horizon(o)' = Horizon(o)
  BY <1>2 DEF Horizon
<1>5. Ages'
  BY <1>2, <1>4, CleanUpKeeps DEF NotifydInv, Ages
<1>6. Kept'
  <2>1. \A o \in Objects : file[<<o, "json">>] # 0 => 0 < file[<<o, "json">>]
    BY <1>1 DEF Types, Files, Suffix
  <2> QED
    BY <1>2, <2>1, CleanUpKeeps DEF NotifydInv, Kept
<1>7. Missed'
  BY <1>2, CleanUpKeeps DEF NotifydInv, Missed, NothingMissed, Unsent
<1> QED
  BY <1>3, <1>5, <1>6, <1>7 DEF NotifydInv

-----------------------------------------------------------------------------

LEMMA NotifydNextInv == NotifydInv /\ [NotifydNext]_notifydVars => NotifydInv'
<1> SUFFICES ASSUME NotifydInv, [NotifydNext]_notifydVars
             PROVE  NotifydInv'
  OBVIOUS
<1>1. ASSUME NEW o \in Objects, BrokerStep(o)
      PROVE  NotifydInv'
  BY <1>1, BrokerInv, ServeInv, RemoveInv DEF BrokerStep
<1>2. CASE Updater
  BY <1>2, UpdaterWaitsInv, BuildEndsInv, NotifyInv, VisitInv, WriteIndexInv, CleanUpInv
     DEF Updater
<1>3. CASE Tick \/ LineReceived \/ StopWorker \/ TimedOut \/ Restart
  BY <1>3, TickInv, UpdaterWaitsInv
<1>4. CASE BuildFails \/ BindFails \/ Crash \/ \E o \in Objects : NotificationLost(o)
  BY <1>4, BuildEndsInv, NotifyInv
<1>5. CASE UNCHANGED notifydVars
  <2>1. UNCHANGED <<clock, broker, format, file, index, build, pc, content, told, dropped>>
    BY <1>5 DEF notifydVars, command, daemon, aux
  <2>2. Types'
    BY <2>1 DEF NotifydInv, Types
  <2>3. \A o \in Objects : Horizon(o)' = Horizon(o) /\ Horizon(o) \in Nat
    BY <2>1 DEF Horizon, NotifydInv, Types, Working, NoCompile
  <2> QED
    BY <2>1, <2>2, <2>3, BrokerMoves DEF NotifydInv, Ages, Types
<1> QED
  BY <1>1, <1>2, <1>3, <1>4, <1>5 DEF NotifydNext

\* A client that is behind the profile on disk is always told of in the next
\* build, on the list of this one, or its notification is known to have failed
\* (index.py:60-240), however builds, compiles, deletions, crashes and lost
\* datagrams interleave.
THEOREM NothingMissedHolds == NotifydSpec => []NothingMissed
<1>1. NotifydInit => NotifydInv
  BY NotifydInitInv
<1>2. NotifydInv /\ [NotifydNext]_notifydVars => NotifydInv'
  BY NotifydNextInv
<1>3. NotifydInv => NothingMissed
  BY DEF NotifydInv, Missed
<1> QED
  BY <1>1, <1>2, <1>3, PTL DEF NotifydSpec

\* The clean-up of stale profiles (index.py:156) leaves every object its newest,
\* although the list was made before files were replaced.
THEOREM CleanupHolds == NotifydSpec => CleanupKeepsNewest
<1>1. NotifydSpec => []NotifydInv
  BY NotifydInitInv, NotifydNextInv, PTL DEF NotifydSpec
<1>2. NotifydInv /\ [NotifydNext]_notifydVars => [CleanUp => \A o \in Objects :
          Newest(o) = Max({file'[<<o, s>>] : s \in Suffix})]_notifydVars
  BY CleanUpKeeps DEF Newest
<1> QED
  BY <1>1, <1>2, PTL DEF NotifydSpec, CleanupKeepsNewest

=============================================================================
