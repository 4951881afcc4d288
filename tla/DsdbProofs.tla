----------------------------- MODULE DsdbProofs -----------------------------
(***************************************************************************)
(* Proofs about DsdbRunner for any change: any number of entries before and  *)
(* after, with or without a swap, planned in any order, and whatever of it   *)
(* DSDB lacked.                                                             *)
(*                                                                         *)
(* 1. Folds.  A fold over a list is a list of partial results (PlanUnrolls,  *)
(*    OnlyUnrolls), by a well-founded order on the numbers (Counting).       *)
(* 2. The planner lists each action the change asks for once, in stages      *)
(*    (UpdateMachineStaged): the swapped address is parked; what hangs goes, *)
(*    then the primaries; addresses change; names change; primaries come,    *)
(*    then what hangs on them; the swap is completed.                        *)
(* 3. A picture is what DSDB should hold at some point: a slot for each      *)
(*    entry, and what the entry is now.  Each action moves from one picture  *)
(*    to the next and its rollback back (DeleteMoves, ..., SwapMoves); every *)
(*    picture is sound, that is, no two slots have a name or an address in   *)
(*    common (PictureSound).  What an entry hangs on is there as well, if no *)
(*    primary entry is replaced under one that stays (PictureRooted).  If    *)
(*    one is, DSDB, which keeps its own rules, lets the plan through only    *)
(*    when it lacked what hangs there (LastOrphan) or kept the old primary.  *)
(* 4. So every plan is a route through sound pictures (PlanIsRoute).  DSDB   *)
(*    holds the picture of place k without what it lacked (Forth), on the    *)
(*    way back perhaps with it (Restored), or, after a timeout, all but one  *)
(*    slot and at most one entry more (Near).                                *)
(* 5. Beside that it holds the entries whose deletion was swallowed (Beside). *)
(*    No command is about one of them (LeftNotTarget), none that would take   *)
(*    its name or its address takes effect (ApartAfter), and on the way back *)
(*    it is there until its own deletion is undone, which DSDB refuses        *)
(*    (LeftBack); so a rollback that reports no failure had none.             *)
(***************************************************************************)
EXTENDS DsdbRunner, FiniteSetTheorems, SequenceTheorems, WellFoundedInduction, TLAPS

-----------------------------------------------------------------------------
(* Folds.  Every set of numbers that holds 0 and with a number the next one *)
(* holds all of them; so a fold over a list is a list of partial results.   *)

LEMMA Counting ==
  ASSUME NEW n \in Nat, NEW N, 0 \in N, \A i \in N : i \in Nat /\ i < n => i + 1 \in N
  PROVE  \A i \in 0..n : i \in N
<1> SUFFICES ASSUME NEW k \in 0..n, k \notin N PROVE FALSE
  OBVIOUS
<1> DEFINE out == {i \in Nat : i <= n /\ i \notin N}
           less == OpToRel(<, Nat)
<1>1. \A i, j \in Nat : <<i, j>> \in less <=> i < j
  BY DEF OpToRel
<1>2. IsWellFoundedOn(less, Nat)
  BY NatLessThanWellFounded
<1>3. k \in out /\ out \subseteq Nat /\ out # {}
  OBVIOUS
<1> HIDE DEF less
<1>4. PICK i \in out : \A j \in out : <<j, i>> \notin less
  BY <1>2, <1>3, WFMin
<1>5. i \in Nat /\ i <= n /\ i \notin N /\ i # 0
  OBVIOUS
<1>6. i - 1 \in Nat /\ i - 1 < i /\ i - 1 < n
  BY <1>5
<1>7. i - 1 \notin out
  BY <1>1, <1>4, <1>5, <1>6
<1>8. i - 1 \in N
  BY <1>6, <1>7
<1>9. (i - 1) + 1 \in N
  BY <1>6, <1>8
<1> QED
  BY <1>5, <1>9

LEMMA MaxOfUpTo ==
  ASSUME NEW m \in Nat, NEW t \in SUBSET (1..(m + 1)), m + 1 \in t
  PROVE  Max(t) = m + 1
<1>1. \A y \in t : m + 1 >= y
  OBVIOUS
<1>2. \A x \in t : (\A y \in t : x >= y) => x = m + 1
  OBVIOUS
<1> QED
  BY <1>1, <1>2 DEF Max

PlanIter(f, m, s, base) ==
  f = [t \in SUBSET (1..m) |->
         IF t = {} THEN base ELSE PlanFor(f[t \ {Max(t)}], s[Max(t)])]

LEMMA PlanIterExists ==
  ASSUME NEW s, NEW base, NEW n \in Nat
  PROVE  \E f : PlanIter(f, n, s, base)
<1> DEFINE N == {m \in Nat : \E f : PlanIter(f, m, s, base)}
<1>1. 0 \in N
  <2> DEFINE f == [t \in SUBSET (1..0) |-> base]
  <2>1. \A t \in SUBSET (1..0) : t = {}
    OBVIOUS
  <2>2. f = [t \in SUBSET (1..0) |->
               IF t = {} THEN base ELSE PlanFor(f[t \ {Max(t)}], s[Max(t)])]
    BY <2>1
  <2> QED
    BY <2>2 DEF PlanIter
<1>2. ASSUME NEW m \in N PROVE m + 1 \in N
  <2>1. m \in Nat
    OBVIOUS
  <2>2. PICK f : PlanIter(f, m, s, base)
    OBVIOUS
  <2> DEFINE g == [t \in SUBSET (1..(m + 1)) |->
                     IF m + 1 \notin t THEN f[t] ELSE PlanFor(f[t \ {m + 1}], s[m + 1])]
             h == [t \in SUBSET (1..(m + 1)) |->
                     IF t = {} THEN base ELSE PlanFor(g[t \ {Max(t)}], s[Max(t)])]
  <2>3. ASSUME NEW t \in SUBSET (1..(m + 1)), m + 1 \notin t
        PROVE  t \in SUBSET (1..m) /\ g[t] = f[t]
    BY <2>1, <2>3
  <2>4. \A t \in SUBSET (1..m) :
          f[t] = IF t = {} THEN base ELSE PlanFor(f[t \ {Max(t)}], s[Max(t)])
    BY <2>2 DEF PlanIter
  <2>5. ASSUME NEW t \in SUBSET (1..(m + 1)) PROVE g[t] = h[t]
    <3>1. CASE m + 1 \notin t
      <4>1. t \ {Max(t)} \in SUBSET (1..(m + 1)) /\ m + 1 \notin t \ {Max(t)}
        BY <3>1
      <4>2. g[t] = f[t] /\ g[t \ {Max(t)}] = f[t \ {Max(t)}] /\ t \in SUBSET (1..m)
        BY <2>3, <3>1, <4>1
      <4> QED
        BY <2>4, <4>2
    <3>2. CASE m + 1 \in t
      <4>1. Max(t) = m + 1
        BY <2>1, <3>2, MaxOfUpTo
      <4>2. t \ {m + 1} \in SUBSET (1..(m + 1)) /\ m + 1 \notin t \ {m + 1}
        OBVIOUS
      <4>3. g[t \ {m + 1}] = f[t \ {m + 1}]
        BY <2>3, <4>2
      <4> QED
        BY <3>2, <4>1, <4>3
    <3> QED
      BY <3>1, <3>2
  <2>6. g = h
    <3>1. g = [t \in SUBSET (1..(m + 1)) |-> g[t]] /\ h = [t \in SUBSET (1..(m + 1)) |-> h[t]]
      OBVIOUS
    <3> HIDE DEF g, h
    <3> QED
      BY <2>5, <3>1, Zenon
  <2>7. PlanIter(g, m + 1, s, base)
    BY <2>6 DEF PlanIter
  <2> QED
    BY <2>1, <2>7
<1> HIDE DEF N
<1>3. n \in N
  BY <1>1, <1>2, Counting
<1> QED
  BY <1>3 DEF N

PlanRun(h, s, base, n) ==
  /\ h[0] = base
  /\ \A k \in 0..(n - 1) : h[k + 1] = PlanFor(h[k], s[k + 1])
  /\ FoldLeft(PlanFor, base, s) = h[n]

LEMMA PlanUnrolls ==
  ASSUME NEW s, NEW base, NEW n \in Nat, DOMAIN s = 1..n
  PROVE  \E h : PlanRun(h, s, base, n)
<1> DEFINE f == CHOOSE f : PlanIter(f, n, s, base)
           h == [k \in 0..n |-> f[1..k]]
<1>1. PlanIter(f, n, s, base)
  BY PlanIterExists
<1>2. FoldLeft(PlanFor, base, s) = f[DOMAIN s]
  BY DEF FoldLeft, MapThenFoldSet, PlanIter
<1> HIDE DEF f
<1>3. \A t \in SUBSET (1..n) :
        f[t] = IF t = {} THEN base ELSE PlanFor(f[t \ {Max(t)}], s[Max(t)])
  BY <1>1 DEF PlanIter
<1>4. h[0] = base
  <2>1. 1..0 = {} /\ 0 \in 0..n
    OBVIOUS
  <2>2. f[{}] = base
    BY <1>3
  <2> QED
    BY <2>1, <2>2
<1>5. ASSUME NEW k \in 0..(n - 1) PROVE h[k + 1] = PlanFor(h[k], s[k + 1])
  <2>1. k \in Nat /\ 1..(k + 1) \in SUBSET (1..n) /\ k + 1 \in 1..(k + 1)
        /\ 1..(k + 1) # {} /\ k \in 0..n /\ k + 1 \in 0..n
    OBVIOUS
  <2>2. Max(1..(k + 1)) = k + 1
    BY <2>1, MaxOfUpTo
  <2>3. (1..(k + 1)) \ {k + 1} = 1..k
    BY <2>1
  <2>4. f[1..(k + 1)] = PlanFor(f[1..k], s[k + 1])
    BY <1>3, <2>1, <2>2, <2>3
  <2> QED
    BY <2>1, <2>4
<1>6. h[n] = f[DOMAIN s]
  OBVIOUS
<1> HIDE DEF h
<1> QED
  BY <1>2, <1>4, <1>5, <1>6 DEF PlanRun

OnlyIter(f, m, s, S) ==
  f = [t \in SUBSET (1..m) |->
         IF t = {} THEN << >>
         ELSE IF s[Max(t)] \in S THEN Append(f[t \ {Max(t)}], s[Max(t)])
              ELSE f[t \ {Max(t)}]]

LEMMA OnlyIterExists ==
  ASSUME NEW s, NEW S, NEW n \in Nat
  PROVE  \E f : OnlyIter(f, n, s, S)
<1> DEFINE N == {m \in Nat : \E f : OnlyIter(f, m, s, S)}
<1>1. 0 \in N
  <2> DEFINE f == [t \in SUBSET (1..0) |-> << >>]
  <2>1. \A t \in SUBSET (1..0) : t = {}
    OBVIOUS
  <2>2. f = [t \in SUBSET (1..0) |->
               IF t = {} THEN << >>
               ELSE IF s[Max(t)] \in S THEN Append(f[t \ {Max(t)}], s[Max(t)])
                    ELSE f[t \ {Max(t)}]]
    BY <2>1, Zenon
  <2> QED
    BY <2>2 DEF OnlyIter
<1>2. ASSUME NEW m \in N PROVE m + 1 \in N
  <2>1. m \in Nat
    OBVIOUS
  <2>2. PICK f : OnlyIter(f, m, s, S)
    OBVIOUS
  <2> DEFINE g == [t \in SUBSET (1..(m + 1)) |->
                     IF m + 1 \notin t THEN f[t]
                     ELSE IF s[m + 1] \in S THEN Append(f[t \ {m + 1}], s[m + 1])
                          ELSE f[t \ {m + 1}]]
             h == [t \in SUBSET (1..(m + 1)) |->
                     IF t = {} THEN << >>
                     ELSE IF s[Max(t)] \in S THEN Append(g[t \ {Max(t)}], s[Max(t)])
                          ELSE g[t \ {Max(t)}]]
  <2>3. ASSUME NEW t \in SUBSET (1..(m + 1)), m + 1 \notin t
        PROVE  t \in SUBSET (1..m) /\ g[t] = f[t]
    BY <2>1, <2>3
  <2>4. \A t \in SUBSET (1..m) :
          f[t] = IF t = {} THEN << >>
                 ELSE IF s[Max(t)] \in S THEN Append(f[t \ {Max(t)}], s[Max(t)])
                      ELSE f[t \ {Max(t)}]
    BY <2>2, Zenon DEF OnlyIter
  <2>5. ASSUME NEW t \in SUBSET (1..(m + 1)) PROVE g[t] = h[t]
    <3>1. CASE m + 1 \notin t
      <4>1. t \ {Max(t)} \in SUBSET (1..(m + 1)) /\ m + 1 \notin t \ {Max(t)}
        BY <3>1
      <4>2. g[t] = f[t] /\ g[t \ {Max(t)}] = f[t \ {Max(t)}] /\ t \in SUBSET (1..m)
        BY <2>3, <3>1, <4>1
      <4> HIDE DEF g
      <4> QED
        BY <2>4, <4>2, Zenon
    <3>2. CASE m + 1 \in t
      <4>1. Max(t) = m + 1
        BY <2>1, <3>2, MaxOfUpTo
      <4>2. t \ {m + 1} \in SUBSET (1..(m + 1)) /\ m + 1 \notin t \ {m + 1}
        OBVIOUS
      <4>3. g[t \ {m + 1}] = f[t \ {m + 1}]
        BY <2>3, <4>2
      <4>4. g[t] = IF s[m + 1] \in S THEN Append(f[t \ {m + 1}], s[m + 1])
                   ELSE f[t \ {m + 1}]
        BY <3>2, Zenon
      <4>5. t # {}
        BY <3>2
      <4> HIDE DEF g
      <4> QED
        BY <4>1, <4>3, <4>4, <4>5, Zenon
    <3> QED
      BY <3>1, <3>2
  <2>6. g = h
    <3>1. g = [t \in SUBSET (1..(m + 1)) |-> g[t]] /\ h = [t \in SUBSET (1..(m + 1)) |-> h[t]]
      BY Zenon
    <3> HIDE DEF g, h
    <3> QED
      BY <2>5, <3>1, Zenon
  <2>7. OnlyIter(g, m + 1, s, S)
    <3> HIDE DEF g
    <3> QED
      BY <2>6 DEF OnlyIter
  <2> QED
    BY <2>1, <2>7
<1> HIDE DEF N
<1>3. n \in N
  BY <1>1, <1>2, Counting
<1> QED
  BY <1>3 DEF N

OnlyRun(h, s, S, n) ==
  /\ h[0] = << >>
  /\ \A k \in 0..(n - 1) :
       h[k + 1] = IF s[k + 1] \in S THEN Append(h[k], s[k + 1]) ELSE h[k]
  /\ Only(s, S) = h[n]

LEMMA OnlyUnrolls ==
  ASSUME NEW s, NEW S, NEW n \in Nat, DOMAIN s = 1..n
  PROVE  \E h : OnlyRun(h, s, S, n)
<1> DEFINE f == CHOOSE f : OnlyIter(f, n, s, S)
           h == [k \in 0..n |-> f[1..k]]
<1>1. OnlyIter(f, n, s, S)
  BY OnlyIterExists
<1>2. Only(s, S) = f[DOMAIN s]
  BY Zenon DEF Only, FoldLeft, MapThenFoldSet, OnlyIter
<1> HIDE DEF f
<1>3. \A t \in SUBSET (1..n) :
        f[t] = IF t = {} THEN << >>
               ELSE IF s[Max(t)] \in S THEN Append(f[t \ {Max(t)}], s[Max(t)])
                    ELSE f[t \ {Max(t)}]
  BY <1>1, Zenon DEF OnlyIter
<1>4. h[0] = << >>
  <2>1. 1..0 = {} /\ 0 \in 0..n
    OBVIOUS
  <2>2. f[{}] = << >>
    BY <1>3
  <2> QED
    BY <2>1, <2>2
<1>5. ASSUME NEW k \in 0..(n - 1)
      PROVE  h[k + 1] = IF s[k + 1] \in S THEN Append(h[k], s[k + 1]) ELSE h[k]
  <2>1. k \in Nat /\ 1..(k + 1) \in SUBSET (1..n) /\ k + 1 \in 1..(k + 1)
        /\ 1..(k + 1) # {} /\ k \in 0..n /\ k + 1 \in 0..n
    OBVIOUS
  <2>2. Max(1..(k + 1)) = k + 1
    BY <2>1, MaxOfUpTo
  <2>3. (1..(k + 1)) \ {k + 1} = 1..k
    BY <2>1
  <2>4. f[1..(k + 1)] = IF s[k + 1] \in S THEN Append(f[1..k], s[k + 1]) ELSE f[1..k]
    BY <1>3, <2>1, <2>2, <2>3, Zenon
  <2>5. h[k + 1] = f[1..(k + 1)] /\ h[k] = f[1..k]
    BY <2>1
  <2> HIDE DEF h
  <2> QED
    BY <2>4, <2>5, Zenon
<1>6. h[n] = f[DOMAIN s]
  OBVIOUS
<1> HIDE DEF h
<1> QED
  BY <1>2, <1>4, <1>5, <1>6 DEF OnlyRun

-----------------------------------------------------------------------------
(* Lists of the members of a set, each once.                                *)

Lists(s, A) == /\ s \in Seq(A)
               /\ \A i, j \in 1..Len(s) : s[i] = s[j] => i = j
               /\ \A x \in A : \E i \in 1..Len(s) : s[i] = x

LEMMA EmptyLists == Lists(<< >>, {})
  BY EmptySeq DEF Lists

LEMMA ListsAppend ==
  ASSUME NEW s, NEW A, Lists(s, A), NEW x, x \notin A
  PROVE  Lists(Append(s, x), A \cup {x})
<1> DEFINE r == Append(s, x)
<1>1. s \in Seq(A \cup {x}) /\ Len(s) \in Nat
  BY SeqMonotonic, LenProperties DEF Lists
<1>2. /\ r \in Seq(A \cup {x}) /\ Len(r) = Len(s) + 1
      /\ \A i \in 1..Len(s) : r[i] = s[i]
      /\ r[Len(s) + 1] = x
  BY <1>1, AppendProperties
<1>3. \A i \in 1..Len(s) : s[i] \in A
  BY ElementOfSeq DEF Lists
<1> HIDE DEF r
<1>4. ASSUME NEW i \in 1..Len(r), NEW j \in 1..Len(r), r[i] = r[j] PROVE i = j
  <2>1. CASE i \in 1..Len(s) /\ j \in 1..Len(s)
    BY <1>2, <1>4, <2>1 DEF Lists
  <2>2. CASE i \in 1..Len(s) /\ j \notin 1..Len(s)
    BY <1>1, <1>2, <1>3, <1>4, <2>2
  <2>3. CASE i \notin 1..Len(s) /\ j \in 1..Len(s)
    BY <1>1, <1>2, <1>3, <1>4, <2>3
  <2>4. CASE i \notin 1..Len(s) /\ j \notin 1..Len(s)
    BY <1>1, <1>2, <2>4
  <2> QED
    BY <2>1, <2>2, <2>3, <2>4
<1>5. ASSUME NEW y \in A \cup {x} PROVE \E i \in 1..Len(r) : r[i] = y
  <2>1. CASE y = x
    BY <1>1, <1>2, <2>1
  <2>2. CASE y \in A
    <3>1. PICK i \in 1..Len(s) : s[i] = y
      BY <2>2 DEF Lists
    <3>2. i \in 1..Len(r) /\ r[i] = y
      BY <1>1, <1>2, <3>1
    <3> QED
      BY <3>2
  <2> QED
    BY <2>1, <2>2
<1> QED
  BY <1>2, <1>4, <1>5 DEF Lists, r

LEMMA ListsConcat ==
  ASSUME NEW s, NEW A, Lists(s, A), NEW t, NEW B, Lists(t, B), A \cap B = {}
  PROVE  /\ Lists(s \o t, A \cup B)
         /\ Len(s) \in Nat /\ Len(t) \in Nat /\ Len(s \o t) = Len(s) + Len(t)
         /\ \A i \in 1..Len(s) : (s \o t)[i] = s[i] /\ s[i] \in A
         /\ \A i \in (Len(s) + 1)..(Len(s) + Len(t)) :
              (s \o t)[i] = t[i - Len(s)] /\ t[i - Len(s)] \in B
<1> DEFINE r == s \o t
<1>1. s \in Seq(A \cup B) /\ t \in Seq(A \cup B) /\ Len(s) \in Nat /\ Len(t) \in Nat
  BY SeqMonotonic, LenProperties DEF Lists
<1>2. /\ r \in Seq(A \cup B) /\ Len(r) = Len(s) + Len(t)
      /\ \A i \in 1..(Len(s) + Len(t)) : r[i] = IF i <= Len(s) THEN s[i] ELSE t[i - Len(s)]
  BY <1>1, ConcatProperties
<1>3. (\A i \in 1..Len(s) : s[i] \in A) /\ (\A i \in 1..Len(t) : t[i] \in B)
  BY ElementOfSeq DEF Lists
<1> HIDE DEF r
<1>4. \A i \in 1..Len(s) : r[i] = s[i] /\ s[i] \in A
  BY <1>1, <1>2, <1>3
<1>5. ASSUME NEW i \in (Len(s) + 1)..(Len(s) + Len(t))
      PROVE  r[i] = t[i - Len(s)] /\ t[i - Len(s)] \in B /\ i - Len(s) \in 1..Len(t)
  BY <1>1, <1>2, <1>3
<1>6. ASSUME NEW i \in 1..Len(r), NEW j \in 1..Len(r), r[i] = r[j] PROVE i = j
  <2>0. \A k \in 1..Len(r) : k \in 1..Len(s) \/ k \in (Len(s) + 1)..(Len(s) + Len(t))
    BY <1>1, <1>2
  <2>1. CASE i \in 1..Len(s) /\ j \in 1..Len(s)
    BY <1>4, <1>6, <2>1 DEF Lists
  <2>2. CASE i \in (Len(s) + 1)..(Len(s) + Len(t)) /\ j \in (Len(s) + 1)..(Len(s) + Len(t))
    <3>0. /\ i - Len(s) \in 1..Len(t) /\ j - Len(s) \in 1..Len(t)
          /\ t[i - Len(s)] = t[j - Len(s)]
      BY <1>5, <1>6, <2>2
    <3>1. i - Len(s) = j - Len(s)
      BY <3>0 DEF Lists
    <3> QED
      BY <1>1, <2>2, <3>1
  <2>3. CASE i \in 1..Len(s) /\ j \in (Len(s) + 1)..(Len(s) + Len(t))
    BY <1>4, <1>5, <1>6, <2>3
  <2>4. CASE j \in 1..Len(s) /\ i \in (Len(s) + 1)..(Len(s) + Len(t))
    BY <1>4, <1>5, <1>6, <2>4
  <2> QED
    BY <2>0, <2>1, <2>2, <2>3, <2>4
<1>7. ASSUME NEW y \in A \cup B PROVE \E i \in 1..Len(r) : r[i] = y
  <2>1. CASE y \in A
    <3>1. PICK i \in 1..Len(s) : s[i] = y
      BY <2>1 DEF Lists
    <3>2. i \in 1..Len(r) /\ r[i] = y
      BY <1>1, <1>2, <1>4, <3>1
    <3> QED
      BY <3>2
  <2>2. CASE y \in B
    <3>1. PICK i \in 1..Len(t) : t[i] = y
      BY <2>2 DEF Lists
    <3>2. Len(s) + i \in 1..Len(r) /\ Len(s) + i \in (Len(s) + 1)..(Len(s) + Len(t))
          /\ (Len(s) + i) - Len(s) = i
      BY <1>1, <1>2, <3>1
    <3>3. r[Len(s) + i] = y
      BY <1>5, <3>1, <3>2
    <3> QED
      BY <3>2, <3>3
  <2> QED
    BY <2>1, <2>2
<1>8. Lists(r, A \cup B)
  BY <1>2, <1>6, <1>7 DEF Lists
<1> QED
  BY <1>1, <1>2, <1>4, <1>5, <1>8 DEF r

LEMMA ListsOnly ==
  ASSUME NEW s, NEW A, Lists(s, A), NEW S
  PROVE  Lists(Only(s, S), A \cap S)
<1> DEFINE n == Len(s)
           Seen(k) == {s[i] : i \in 1..k} \cap S
<1>1. n \in Nat /\ DOMAIN s = 1..n /\ \A i \in 1..n : s[i] \in A
  BY LenProperties, ElementOfSeq DEF Lists
<1>2. PICK h : OnlyRun(h, s, S, n)
  <2> HIDE DEF n
  <2> QED
    BY <1>1, OnlyUnrolls
<1> DEFINE N == {k \in Nat : Lists(h[k], Seen(k))}
<1>3. 0 \in N
  <2>1. Seen(0) = {}
    OBVIOUS
  <2>2. Lists(h[0], Seen(0))
    BY <1>2, <2>1, EmptyLists, Zenon DEF OnlyRun
  <2> QED
    BY <2>2
<1>4. ASSUME NEW k \in N, k < n PROVE k + 1 \in N
  <2>1. k \in 0..(n - 1) /\ k + 1 \in 1..n /\ k \in Nat
    BY <1>1, <1>4
  <2>2. Seen(k + 1) = IF s[k + 1] \in S THEN Seen(k) \cup {s[k + 1]} ELSE Seen(k)
    BY <2>1
  <2>3. s[k + 1] \notin Seen(k)
    <3> SUFFICES ASSUME NEW i \in 1..k, s[i] = s[k + 1] PROVE FALSE
      OBVIOUS
    <3>1. i \in 1..n /\ i # k + 1
      BY <2>1
    <3> QED
      BY <2>1, <3>1 DEF Lists
  <2>4. Lists(h[k], Seen(k))
    OBVIOUS
  <2> HIDE DEF Seen
  <2>5. Lists(h[k + 1], Seen(k + 1))
    <3>1. CASE s[k + 1] \in S
      <4>1. h[k + 1] = Append(h[k], s[k + 1]) /\ Seen(k + 1) = Seen(k) \cup {s[k + 1]}
        BY <1>2, <2>1, <2>2, <3>1 DEF OnlyRun
      <4> QED
        BY <2>3, <2>4, <4>1, ListsAppend
    <3>2. CASE s[k + 1] \notin S
      <4>1. h[k + 1] = h[k] /\ Seen(k + 1) = Seen(k)
        BY <1>2, <2>1, <2>2, <3>2 DEF OnlyRun
      <4> QED
        BY <2>4, <4>1
    <3> QED
      BY <3>1, <3>2
  <2> QED
    BY <2>1, <2>5
<1>5. n \in N
  <2> HIDE DEF N
  <2>1. \A k \in N : k \in Nat /\ k < n => k + 1 \in N
    BY <1>4
  <2> QED
    BY <1>1, <1>3, <2>1, Counting
<1>6. Seen(n) = A \cap S
  BY <1>1 DEF Lists
<1> QED
  BY <1>2, <1>5, <1>6 DEF OnlyRun

\* The entries in the order the addresses came in
LEMMA OrderLists ==
  ASSUME NEW A, IsFiniteSet(A), NEW s \in SetToSeqs(A)
  PROVE  Lists(s, A)
<1> DEFINE n == Cardinality(A)
<1>1. n \in Nat /\ s \in [1..n -> A] /\ \A i, j \in 1..n : i # j => s[i] # s[j]
  BY FS_CardinalityType DEF SetToSeqs
<1>2. s \in Seq(A) /\ Len(s) = n
  BY <1>1, IsASeq
<1>3. ASSUME NEW p \in A, \A i \in 1..n : s[i] # p PROVE FALSE
  <2> DEFINE Rest == A \ {p}
             D    == 1..n
  <2>1. s \in [D -> Rest]
    BY <1>1, <1>3
  <2>2. IsFiniteSet(Rest) /\ Cardinality(Rest) = n - 1
    BY FS_RemoveElement
  <2>3. IsFiniteSet(D) /\ Cardinality(D) = n
    <3>1. 1 \in Int /\ n \in Int /\ (IF 1 > n THEN 0 ELSE n - 1 + 1) = n
      BY <1>1
    <3> QED
      BY <3>1, FS_Interval
  <2>4. Cardinality(Rest) < Cardinality(D)
    BY <2>2, <2>3, <1>1
  <2> HIDE DEF Rest, D
  <2>5. \E i, j \in D : i # j /\ s[i] = s[j]
    BY ONLY <2>1, <2>2, <2>3, <2>4, FS_PigeonHole
  <2> QED
    BY <2>5, <1>1 DEF D
<1> QED
  BY <1>1, <1>2, <1>3 DEF Lists

-----------------------------------------------------------------------------
(* What a change asks for.  The new entry for an old one, the entries that   *)
(* stay, those that go and those that are new, and the actions in the order  *)
(* of their stages.                                                         *)

Partner(c, e) == {n \in c.new : Same(e, n) /\ (n.primary = None) = (e.primary = None)}

Twin(c, e) == CHOOSE n \in Partner(c, e) : TRUE

Kept(c)  == {e \in c.old : Partner(c, e) # {}}
Gone(c)  == {e \in c.old : Partner(c, e) = {}}
Fresh(c) == {n \in c.new : \A e \in c.old : n \notin Partner(c, e)}

Addr(c, e) == UpdateHostDetails(e, Twin(c, e))
Name(c, e) == UpdateHostIfaceName(e, Twin(c, e))

Moving(c) == {e \in Kept(c) : <<e.ip, e.mac>> # <<Twin(c, e).ip, Twin(c, e).mac>>}
Naming(c) == {e \in Kept(c) : <<e.fqdn, e.iface>> # <<Twin(c, e).fqdn, Twin(c, e).iface>>}

Deletions(A) == {DeleteHostDetails(e) : e \in A}
Additions(A) == {AddHostDetails(e) : e \in A}
AddrOf(c, A) == {Addr(c, e) : e \in A}
NameOf(c, A) == {Name(c, e) : e \in A}

Stage(c, t) ==
  CASE t = 0 -> (IF c.swap = None THEN {} ELSE {Park(c)})
    [] t = 1 -> Deletions(Gone(c) \cap HasPrimary)
    [] t = 2 -> Deletions(Gone(c) \cap HasNone)
    [] t = 3 -> AddrOf(c, Moving(c))
    [] t = 4 -> NameOf(c, Naming(c))
    [] t = 5 -> Additions(Fresh(c) \cap HasNone)
    [] t = 6 -> Additions(Fresh(c) \cap HasPrimary)
    [] t = 7 -> (IF c.swap = None THEN {} ELSE {Unpark(c)})

Stages(c, lo, hi) == UNION {Stage(c, t) : t \in lo..hi}

Staged(c, q, lo, hi) ==
  /\ Lists(q, Stages(c, lo, hi))
  /\ \A i, j \in 1..Len(q) : \A s, t \in 0..7 :
       i < j /\ q[i] \in Stage(c, s) /\ q[j] \in Stage(c, t) => s <= t

LEMMA ChangeFacts ==
  ASSUME NEW c \in Change
  PROVE  /\ IsSnapshot(c.old) /\ IsSnapshot(c.new) /\ IsUpdate(c.old, c.new)
         /\ c.swap # None => IsSwap(c)
         /\ c.old \subseteq Entry /\ c.new \subseteq Entry
  BY ChangeAssumption DEF IsSnapshot

LEMMA TwinFacts ==
  ASSUME NEW c \in Change, NEW e \in Kept(c)
  PROVE  /\ e \in c.old /\ e \in Entry
         /\ Twin(c, e) \in c.new /\ Twin(c, e) \in Entry
         /\ Partner(c, e) = {Twin(c, e)}
         /\ Same(e, Twin(c, e))
         /\ (Twin(c, e).primary = None) = (e.primary = None)
         /\ \A n \in c.new : Same(e, n) => n = Twin(c, e)
         /\ \A o \in c.old : Same(o, Twin(c, e)) => o = e
<1>1. e \in c.old /\ Partner(c, e) # {}
  BY DEF Kept
<1>2. Twin(c, e) \in Partner(c, e)
  BY <1>1 DEF Twin
<1>3. /\ Twin(c, e) \in c.new /\ Same(e, Twin(c, e))
      /\ (Twin(c, e).primary = None) = (e.primary = None)
  BY <1>2 DEF Partner
<1>4. /\ \A n \in c.new : Same(e, n) => n = Twin(c, e)
      /\ \A o \in c.old : Same(o, Twin(c, e)) => o = e
  BY <1>1, <1>3, ChangeFacts DEF IsUpdate
<1>5. Partner(c, e) = {Twin(c, e)}
  BY <1>2, <1>4 DEF Partner
<1> QED
  BY <1>1, <1>3, <1>4, <1>5, ChangeFacts

LEMMA FreshFacts ==
  ASSUME NEW c \in Change, NEW n \in Fresh(c)
  PROVE  /\ n \in c.new /\ n \in Entry
         /\ \A o \in Kept(c) : ~ Same(o, n)
<1>1. n \in c.new /\ \A e \in c.old : n \notin Partner(c, e)
  BY DEF Fresh
<1>2. ASSUME NEW o \in Kept(c), Same(o, n) PROVE FALSE
  <2>1. n = Twin(c, o) /\ Partner(c, o) = {Twin(c, o)} /\ o \in c.old
    BY <1>1, <1>2, TwinFacts
  <2> QED
    BY <1>1, <2>1
<1> QED
  BY <1>1, <1>2, ChangeFacts

\* What hangs on an entry before and after hangs on one that stays.
LEMMA TwinPrimary ==
  ASSUME NEW c \in Change, PrimaryStays(c), NEW e \in Kept(c), e.primary # None
  PROVE  \E p \in Kept(c) : /\ p.fqdn = e.primary /\ p.primary = None
                            /\ Twin(c, p).fqdn = Twin(c, e).primary
<1>1. /\ e \in c.old /\ Twin(c, e) \in c.new /\ Same(e, Twin(c, e))
      /\ Twin(c, e).primary # None
  BY TwinFacts
<1>2. PICK p \in c.old, q \in c.new :
        Same(p, q) /\ p.fqdn = e.primary /\ q.fqdn = Twin(c, e).primary
  <2>1. PICK p \in c.old, q \in c.new : Same(p, q) /\ p.fqdn = e.primary
    BY <1>1 DEF PrimaryStays
  <2>2. q.fqdn = Twin(c, e).primary
    BY <1>1, <2>1, ChangeFacts DEF IsUpdate
  <2> QED
    BY <2>1, <2>2
<1>3. p.primary = None
  BY <1>1, <1>2, ChangeFacts DEF IsSnapshot
<1>4. q.primary = None
  BY <1>1, <1>2, ChangeFacts DEF IsSnapshot
<1>5. q \in Partner(c, p)
  BY <1>2, <1>3, <1>4 DEF Partner
<1>6. p \in Kept(c)
  BY <1>2, <1>5 DEF Kept
<1>7. q = Twin(c, p)
  BY <1>2, <1>6, TwinFacts
<1> QED
  BY <1>2, <1>3, <1>6, <1>7

-----------------------------------------------------------------------------
(* The planner: how far the loop over the old entries has come.             *)

Partly(c, plan, S) ==
  /\ plan = [left |-> plan.left, deletes |-> plan.deletes,
             addr_updates |-> plan.addr_updates, name_updates |-> plan.name_updates]
  /\ plan.left = c.new \ {Twin(c, e) : e \in Kept(c) \cap S}
  /\ Lists(plan.deletes, Gone(c) \cap S)
  /\ Lists(plan.addr_updates, AddrOf(c, Moving(c) \cap S))
  /\ Lists(plan.name_updates, NameOf(c, Naming(c) \cap S))

LEMMA NewForIsPartner ==
  ASSUME NEW c \in Change, NEW e \in c.old, NEW left \in SUBSET c.new,
         e \in Kept(c) => Twin(c, e) \in left
  PROVE  NewFor(e, left) = Partner(c, e)
<1>1. CASE e \in Kept(c)
  <2>1. /\ Twin(c, e) \in left /\ Same(e, Twin(c, e)) /\ Partner(c, e) = {Twin(c, e)}
        /\ (Twin(c, e).primary = None) = (e.primary = None)
        /\ \A n \in left : Same(e, n) => n = Twin(c, e)
    BY <1>1, TwinFacts
  <2>2. CASE Twin(c, e).fqdn = e.fqdn
    <3>1. {n \in left : n.fqdn = e.fqdn} = {Twin(c, e)}
      BY <2>1, <2>2 DEF Same
    <3> QED
      BY <2>1, <3>1 DEF NewFor
  <2>3. CASE Twin(c, e).fqdn # e.fqdn
    <3>1. {n \in left : n.fqdn = e.fqdn} = {} /\ {n \in left : n.ip = e.ip} = {Twin(c, e)}
      BY <2>1, <2>3 DEF Same
    <3> QED
      BY <2>1, <3>1 DEF NewFor
  <2> QED
    BY <2>2, <2>3
<1>2. CASE e \notin Kept(c)
  <2>1. Partner(c, e) = {}
    BY <1>2 DEF Kept
  <2>2. NewFor(e, left) \subseteq Partner(c, e)
    BY DEF NewFor, Partner, Same
  <2> QED
    BY <2>1, <2>2
<1> QED
  BY <1>1, <1>2

\* The entry an action is about can be read off it.
LEMMA ActionsDiffer ==
  /\ \A e, f : DeleteHostDetails(e) = DeleteHostDetails(f) => e = f
  /\ \A e, f : AddHostDetails(e) = AddHostDetails(f) => e = f
  /\ \A c \in Change : \A e, f \in Kept(c) : Addr(c, e) = Addr(c, f) => e = f
  /\ \A c \in Change : \A e, f \in Kept(c) : Name(c, e) = Name(c, f) => e = f
<1>1. ASSUME NEW e, NEW f, DeleteHostDetails(e) = DeleteHostDetails(f) PROVE e = f
  <2>1. DeleteHostDetails(e).rollback.entry = e /\ DeleteHostDetails(f).rollback.entry = f
    BY DEF DeleteHostDetails, Action, AddHost
  <2> QED
    BY <1>1, <2>1
<1>2. ASSUME NEW e, NEW f, AddHostDetails(e) = AddHostDetails(f) PROVE e = f
  <2>1. AddHostDetails(e).command.entry = e /\ AddHostDetails(f).command.entry = f
    BY DEF AddHostDetails, Action, AddHost
  <2> QED
    BY <1>2, <2>1
<1>3. ASSUME NEW c \in Change, NEW e \in Kept(c), NEW f \in Kept(c), e.fqdn = f.fqdn
      PROVE  e = f
  BY <1>3, TwinFacts, ChangeFacts DEF IsSnapshot
<1>4. ASSUME NEW c \in Change, NEW e \in Kept(c), NEW f \in Kept(c), Addr(c, e) = Addr(c, f)
      PROVE  e = f
  <2>1. Addr(c, e).command.fqdn = e.fqdn /\ Addr(c, f).command.fqdn = f.fqdn
    BY DEF Addr, UpdateHostDetails, Action, UpdateHost
  <2> QED
    BY <1>3, <1>4, <2>1
<1>5. ASSUME NEW c \in Change, NEW e \in Kept(c), NEW f \in Kept(c), Name(c, e) = Name(c, f)
      PROVE  e = f
  <2>1. Name(c, e).command.fqdn = e.fqdn /\ Name(c, f).command.fqdn = f.fqdn
    BY DEF Name, UpdateHostIfaceName, Action, RenameHost
  <2> QED
    BY <1>3, <1>5, <2>1
<1> QED
  BY <1>1, <1>2, <1>4, <1>5

LEMMA PlanForStep ==
  ASSUME NEW c \in Change, NEW e \in c.old, NEW S, e \notin S,
         NEW plan, Partly(c, plan, S)
  PROVE  Partly(c, PlanFor(plan, e), S \cup {e})
<1> DEFINE r == PlanFor(plan, e)
           T == S \cup {e}
<1>1. /\ plan.left = c.new \ {Twin(c, o) : o \in Kept(c) \cap S}
      /\ Lists(plan.deletes, Gone(c) \cap S)
      /\ Lists(plan.addr_updates, AddrOf(c, Moving(c) \cap S))
      /\ Lists(plan.name_updates, NameOf(c, Naming(c) \cap S))
  BY DEF Partly
<1>2. NewFor(e, plan.left) = Partner(c, e)
  <2>1. ASSUME e \in Kept(c) PROVE Twin(c, e) \in plan.left
    <3>1. ASSUME NEW o \in Kept(c) \cap S, Twin(c, o) = Twin(c, e) PROVE FALSE
      BY <2>1, <3>1, TwinFacts
    <3>2. Twin(c, e) \in c.new
      BY <2>1, TwinFacts
    <3> QED
      BY <1>1, <3>1, <3>2
  <2>2. plan.left \in SUBSET c.new
    BY <1>1
  <2> QED
    BY <2>1, <2>2, NewForIsPartner
<1>3. CASE e \in Gone(c)
  <2>1. Partner(c, e) = {} /\ e \notin Kept(c) /\ e \notin Moving(c) /\ e \notin Naming(c)
    BY <1>3 DEF Gone, Kept, Moving, Naming
  <2>2. r = [plan EXCEPT !.deletes = Append(@, e)]
    BY <1>2, <2>1 DEF PlanFor
  <2>3. /\ r.left = plan.left /\ r.deletes = Append(plan.deletes, e)
        /\ r.addr_updates = plan.addr_updates /\ r.name_updates = plan.name_updates
        /\ r = [left |-> r.left, deletes |-> r.deletes,
                addr_updates |-> r.addr_updates, name_updates |-> r.name_updates]
    BY <2>2 DEF Partly
  <2>4. /\ Kept(c) \cap T = Kept(c) \cap S /\ Moving(c) \cap T = Moving(c) \cap S
        /\ Naming(c) \cap T = Naming(c) \cap S /\ Gone(c) \cap T = (Gone(c) \cap S) \cup {e}
    BY <1>3, <2>1
  <2>5. Lists(r.deletes, Gone(c) \cap T)
    BY <1>1, <2>3, <2>4, ListsAppend
  <2> HIDE DEF r, T
  <2> QED
    BY <1>1, <2>3, <2>4, <2>5 DEF Partly, r, T
<1>4. CASE e \in Kept(c)
  <2>1. Partner(c, e) = {Twin(c, e)} /\ e \notin Gone(c)
    BY <1>4, TwinFacts DEF Gone, Kept
  <2>2. r = [plan EXCEPT
               !.left = @ \ {Twin(c, e)},
               !.addr_updates = IF e \in Moving(c) THEN Append(@, Addr(c, e)) ELSE @,
               !.name_updates = IF e \in Naming(c) THEN Append(@, Name(c, e)) ELSE @]
    <3>1. (CHOOSE n \in NewFor(e, plan.left) : TRUE) = Twin(c, e)
      BY <1>2 DEF Twin
    <3>2. NewFor(e, plan.left) # {}
      BY <1>2, <2>1
    <3>3. (<<e.ip, e.mac>> # <<Twin(c, e).ip, Twin(c, e).mac>>) = (e \in Moving(c))
      BY <1>4 DEF Moving
    <3>4. (<<e.fqdn, e.iface>> # <<Twin(c, e).fqdn, Twin(c, e).iface>>) = (e \in Naming(c))
      BY <1>4 DEF Naming
    <3> QED
      BY <3>1, <3>2, <3>3, <3>4 DEF PlanFor, Addr, Name
  <2>3. /\ r.left = plan.left \ {Twin(c, e)} /\ r.deletes = plan.deletes
        /\ r.addr_updates = IF e \in Moving(c) THEN Append(plan.addr_updates, Addr(c, e))
                            ELSE plan.addr_updates
        /\ r.name_updates = IF e \in Naming(c) THEN Append(plan.name_updates, Name(c, e))
                            ELSE plan.name_updates
        /\ r = [left |-> r.left, deletes |-> r.deletes,
                addr_updates |-> r.addr_updates, name_updates |-> r.name_updates]
    BY <2>2 DEF Partly
  <2> HIDE DEF r
  <2>4. r.left = c.new \ {Twin(c, o) : o \in Kept(c) \cap T}
    BY <1>1, <1>4, <2>3
  <2>5. Gone(c) \cap T = Gone(c) \cap S
    BY <2>1
  <2>6. Lists(r.addr_updates, AddrOf(c, Moving(c) \cap T))
    <3>1. CASE e \in Moving(c)
      <4>1. Addr(c, e) \notin AddrOf(c, Moving(c) \cap S)
        BY <3>1, ActionsDiffer DEF AddrOf, Moving
      <4>2. AddrOf(c, Moving(c) \cap T) = AddrOf(c, Moving(c) \cap S) \cup {Addr(c, e)}
        BY <3>1 DEF AddrOf
      <4>3. r.addr_updates = Append(plan.addr_updates, Addr(c, e))
        BY <2>3, <3>1
      <4>4. Lists(r.addr_updates, AddrOf(c, Moving(c) \cap S) \cup {Addr(c, e)})
        <5> DEFINE A == AddrOf(c, Moving(c) \cap S)
                   x == Addr(c, e)
        <5>1. Lists(plan.addr_updates, A) /\ x \notin A /\ r.addr_updates = Append(plan.addr_updates, x)
          BY <1>1, <4>1, <4>3
        <5> HIDE DEF A, x
        <5>2. Lists(r.addr_updates, A \cup {x})
          BY <5>1, ListsAppend
        <5> QED
          BY <5>2 DEF A, x
      <4> QED
        BY <4>2, <4>4
    <3>2. CASE e \notin Moving(c)
      <4>1. Moving(c) \cap T = Moving(c) \cap S
        BY <3>2
      <4> QED
        BY <1>1, <2>3, <3>2, <4>1
    <3> QED
      BY <3>1, <3>2
  <2>7. Lists(r.name_updates, NameOf(c, Naming(c) \cap T))
    <3>1. CASE e \in Naming(c)
      <4>1. Name(c, e) \notin NameOf(c, Naming(c) \cap S)
        BY <3>1, ActionsDiffer DEF NameOf, Naming
      <4>2. NameOf(c, Naming(c) \cap T) = NameOf(c, Naming(c) \cap S) \cup {Name(c, e)}
        BY <3>1 DEF NameOf
      <4>3. r.name_updates = Append(plan.name_updates, Name(c, e))
        BY <2>3, <3>1
      <4>4. Lists(r.name_updates, NameOf(c, Naming(c) \cap S) \cup {Name(c, e)})
        <5> DEFINE A == NameOf(c, Naming(c) \cap S)
                   x == Name(c, e)
        <5>1. Lists(plan.name_updates, A) /\ x \notin A /\ r.name_updates = Append(plan.name_updates, x)
          BY <1>1, <4>1, <4>3
        <5> HIDE DEF A, x
        <5>2. Lists(r.name_updates, A \cup {x})
          BY <5>1, ListsAppend
        <5> QED
          BY <5>2 DEF A, x
      <4> QED
        BY <4>2, <4>4
    <3>2. CASE e \notin Naming(c)
      <4>1. Naming(c) \cap T = Naming(c) \cap S
        BY <3>2
      <4> QED
        BY <1>1, <2>3, <3>2, <4>1
    <3> QED
      BY <3>1, <3>2
  <2> HIDE DEF T
  <2> QED
    BY <1>1, <2>3, <2>4, <2>5, <2>6, <2>7 DEF Partly, r, T
<1>5. e \in Gone(c) \/ e \in Kept(c)
  BY DEF Gone, Kept
<1> QED
  BY <1>3, <1>4, <1>5

LEMMA LoopDone ==
  ASSUME NEW c \in Change, NEW s, Lists(s, c.old)
  PROVE  Partly(c, FoldLeft(PlanFor, NoPlan(c.new), s), c.old)
<1> DEFINE n == Len(s)
           Seen(k) == {s[i] : i \in 1..k}
           base == NoPlan(c.new)
<1>1. n \in Nat /\ DOMAIN s = 1..n /\ \A i \in 1..n : s[i] \in c.old
  BY LenProperties, ElementOfSeq DEF Lists
<1>2. PICK h : PlanRun(h, s, base, n)
  <2> HIDE DEF n, base
  <2> QED
    BY <1>1, PlanUnrolls
<1> DEFINE N == {k \in Nat : Partly(c, h[k], Seen(k))}
<1>3. 0 \in N
  <2>1. Seen(0) = {} /\ h[0] = base
    BY <1>2 DEF PlanRun
  <2>2. /\ Kept(c) \cap {} = {} /\ Gone(c) \cap {} = {} /\ AddrOf(c, Moving(c) \cap {}) = {}
        /\ NameOf(c, Naming(c) \cap {}) = {} /\ {Twin(c, e) : e \in Kept(c) \cap {}} = {}
    BY DEF AddrOf, NameOf
  <2>3. Partly(c, base, {})
    BY <2>2, EmptyLists DEF Partly, NoPlan
  <2> QED
    BY <2>1, <2>3
<1>4. ASSUME NEW k \in N, k < n PROVE k + 1 \in N
  <2>1. k \in 0..(n - 1) /\ k + 1 \in 1..n /\ k \in Nat
    BY <1>1, <1>4
  <2>2. Seen(k + 1) = Seen(k) \cup {s[k + 1]}
    BY <2>1
  <2>3. s[k + 1] \notin Seen(k)
    <3> SUFFICES ASSUME NEW i \in 1..k, s[i] = s[k + 1] PROVE FALSE
      OBVIOUS
    <3>1. i \in 1..n /\ i # k + 1
      BY <2>1
    <3> QED
      BY <2>1, <3>1 DEF Lists
  <2>4. h[k + 1] = PlanFor(h[k], s[k + 1])
    BY <1>2, <2>1 DEF PlanRun
  <2>5. s[k + 1] \in c.old /\ Partly(c, h[k], Seen(k))
    BY <1>1, <2>1
  <2> HIDE DEF Seen
  <2>6. Partly(c, h[k + 1], Seen(k + 1))
    BY <2>2, <2>3, <2>4, <2>5, PlanForStep
  <2> QED
    BY <2>1, <2>6
<1>5. n \in N
  <2> HIDE DEF N
  <2>1. \A k \in N : k \in Nat /\ k < n => k + 1 \in N
    BY <1>4
  <2> QED
    BY <1>1, <1>3, <2>1, Counting
<1>6. Seen(n) = c.old
  BY <1>1 DEF Lists
<1> QED
  BY <1>2, <1>5, <1>6 DEF PlanRun

-----------------------------------------------------------------------------
(* The plan lists what the change asks for, stage by stage.                 *)

LEMMA StageIs ==
  ASSUME NEW c
  PROVE  /\ Stage(c, 0) = (IF c.swap = None THEN {} ELSE {Park(c)})
         /\ Stage(c, 1) = Deletions(Gone(c) \cap HasPrimary)
         /\ Stage(c, 2) = Deletions(Gone(c) \cap HasNone)
         /\ Stage(c, 3) = AddrOf(c, Moving(c))
         /\ Stage(c, 4) = NameOf(c, Naming(c))
         /\ Stage(c, 5) = Additions(Fresh(c) \cap HasNone)
         /\ Stage(c, 6) = Additions(Fresh(c) \cap HasPrimary)
         /\ Stage(c, 7) = (IF c.swap = None THEN {} ELSE {Unpark(c)})
  BY DEF Stage

LEMMA SwapActions ==
  ASSUME NEW c \in Change, c.swap # None
  PROVE  /\ Park(c).command = [op |-> "update_aqd_host", fqdn |-> c.swap.fqdn, iface |-> None,
                               ip |-> c.temp, mac |-> None]
         /\ Park(c).rollback = [op |-> "update_aqd_host", fqdn |-> c.swap.fqdn, iface |-> None,
                                ip |-> c.swap.ip, mac |-> None]
         /\ Unpark(c).command = [op |-> "update_aqd_host", fqdn |-> c.swap.fqdn, iface |-> None,
                                 ip |-> c.old_ip, mac |-> None]
         /\ Unpark(c).rollback = [op |-> "update_aqd_host", fqdn |-> c.swap.fqdn,
                                  iface |-> None, ip |-> c.temp, mac |-> None]
         /\ Park(c).ignorable = FALSE /\ Unpark(c).ignorable = FALSE
<1> DEFINE parked == [c.swap EXCEPT !.ip = c.temp]
           done   == [c.swap EXCEPT !.ip = c.old_ip]
<1>1. /\ c.swap \in Entry /\ c.swap.iface = None
      /\ c.temp # c.swap.ip /\ c.temp # c.old_ip
  BY ChangeFacts DEF IsSwap
<1>2. /\ parked.ip = c.temp /\ parked.mac = c.swap.mac /\ parked.fqdn = c.swap.fqdn
      /\ parked.iface = None
      /\ done.ip = c.old_ip /\ done.mac = c.swap.mac
  BY <1>1 DEF Entry
<1>3. Park(c) = UpdateHostDetails(c.swap, parked) /\ Unpark(c) = UpdateHostDetails(parked, done)
  BY DEF Park, Unpark
<1> HIDE DEF parked, done
<1>4. Park(c) = Action(UpdateHost(c.swap, c.temp, None), UpdateHost(c.swap, c.swap.ip, None), FALSE)
  BY <1>1, <1>2, <1>3 DEF UpdateHostDetails
<1>5. Unpark(c) = Action(UpdateHost(parked, c.old_ip, None), UpdateHost(parked, c.temp, None), FALSE)
  BY <1>1, <1>2, <1>3 DEF UpdateHostDetails
<1> QED
  BY <1>1, <1>2, <1>4, <1>5 DEF Action, UpdateHost

LEMMA StageShape ==
  ASSUME NEW c \in Change, NEW t \in 0..7, NEW a \in Stage(c, t)
  PROVE  /\ t \in {0, 3, 7} => a.command.op = "update_aqd_host"
         /\ t \in {1, 2} => a.command.op = "delete_host"
         /\ t = 4 => a.command.op = "rename"
         /\ t \in {5, 6} => a.command.op = "add_host"
         /\ t = 1 => a.rollback.entry.primary # None
         /\ t = 2 => a.rollback.entry.primary = None
         /\ t = 5 => a.command.entry.primary = None
         /\ t = 6 => a.command.entry.primary # None
         /\ t \in {0, 7} => c.swap # None /\ a.command.fqdn = c.swap.fqdn
         /\ t = 0 => a.command.ip = c.temp /\ a.command.ip # c.old_ip
         /\ t = 7 => a.command.ip = c.old_ip
         /\ t = 3 /\ c.swap # None => a.command.fqdn # c.swap.fqdn
<1>0. t = 0 \/ t = 1 \/ t = 2 \/ t = 3 \/ t = 4 \/ t = 5 \/ t = 6 \/ t = 7
  OBVIOUS
<1>1. CASE t = 0
  <2>1. c.swap # None /\ a = Park(c)
    <3>1. a \in IF c.swap = None THEN {} ELSE {Park(c)}
      BY <1>1, StageIs
    <3> QED
      BY <3>1
  <2>2. c.temp # c.old_ip
    BY <2>1, ChangeFacts DEF IsSwap
  <2>3. Park(c).command = [op |-> "update_aqd_host", fqdn |-> c.swap.fqdn, iface |-> None,
                           ip |-> c.temp, mac |-> None]
    BY <2>1, SwapActions
  <2>4. /\ a.command.op = "update_aqd_host" /\ a.command.fqdn = c.swap.fqdn
        /\ a.command.ip = c.temp
    BY <2>1, <2>3
  <2> QED
    BY <1>1, <2>1, <2>2, <2>4
<1>7. CASE t = 7
  <2>1. c.swap # None /\ a = Unpark(c)
    <3>1. a \in IF c.swap = None THEN {} ELSE {Unpark(c)}
      BY <1>7, StageIs
    <3> QED
      BY <3>1
  <2>3. Unpark(c).command = [op |-> "update_aqd_host", fqdn |-> c.swap.fqdn, iface |-> None,
                             ip |-> c.old_ip, mac |-> None]
    BY <2>1, SwapActions
  <2>4. /\ a.command.op = "update_aqd_host" /\ a.command.fqdn = c.swap.fqdn
        /\ a.command.ip = c.old_ip
    BY <2>1, <2>3
  <2> QED
    BY <1>7, <2>1, <2>4
<1>2. CASE t = 1 \/ t = 2
  <2>1. PICK e \in Gone(c) : a = DeleteHostDetails(e)
                             /\ (t = 1 => e \in HasPrimary) /\ (t = 2 => e \in HasNone)
    <3>1. CASE t = 1
      <4>1. a \in Deletions(Gone(c) \cap HasPrimary)
        BY <3>1, StageIs
      <4> QED
        BY <3>1, <4>1 DEF Deletions
    <3>2. CASE t = 2
      <4>1. a \in Deletions(Gone(c) \cap HasNone)
        BY <3>2, StageIs
      <4> QED
        BY <3>2, <4>1 DEF Deletions
    <3> QED
      BY <1>2, <3>1, <3>2
  <2>2. a.command.op = "delete_host" /\ a.rollback.entry = e
    BY <2>1 DEF DeleteHostDetails, Action, DeleteHost, AddHost
  <2> QED
    BY <1>2, <2>1, <2>2 DEF HasPrimary, HasNone
<1>3. CASE t = 3
  <2>1. PICK e \in Kept(c) : a = Addr(c, e)
    BY <1>3, StageIs DEF AddrOf, Moving
  <2>2. a.command.op = "update_aqd_host" /\ a.command.fqdn = e.fqdn
    BY <2>1 DEF Addr, UpdateHostDetails, Action, UpdateHost
  <2>3. c.swap # None => e.fqdn # c.swap.fqdn
    BY TwinFacts, ChangeFacts DEF IsSwap
  <2> QED
    BY <1>3, <2>2, <2>3
<1>4. CASE t = 4
  <2>1. PICK e \in Kept(c) : a = Name(c, e)
    BY <1>4, StageIs DEF NameOf, Naming
  <2>2. a.command.op = "rename"
    BY <2>1 DEF Name, UpdateHostIfaceName, Action, RenameHost
  <2> QED
    BY <1>4, <2>2
<1>5. CASE t = 5 \/ t = 6
  <2>1. PICK e \in Fresh(c) : a = AddHostDetails(e)
                              /\ (t = 5 => e \in HasNone) /\ (t = 6 => e \in HasPrimary)
    <3>1. CASE t = 5
      <4>1. a \in Additions(Fresh(c) \cap HasNone)
        BY <3>1, StageIs
      <4> QED
        BY <3>1, <4>1 DEF Additions
    <3>2. CASE t = 6
      <4>1. a \in Additions(Fresh(c) \cap HasPrimary)
        BY <3>2, StageIs
      <4> QED
        BY <3>2, <4>1 DEF Additions
    <3> QED
      BY <1>5, <3>1, <3>2
  <2>2. a.command.op = "add_host" /\ a.command.entry = e
    BY <2>1 DEF AddHostDetails, Action, AddHost
  <2> QED
    BY <1>5, <2>1, <2>2 DEF HasPrimary, HasNone
<1> QED
  BY <1>0, <1>1, <1>2, <1>3, <1>4, <1>5, <1>7

LEMMA StagesApart ==
  ASSUME NEW c \in Change, NEW t \in 0..7, NEW u \in 0..7,
         NEW a, a \in Stage(c, t), a \in Stage(c, u)
  PROVE  t = u
<1>1. \A s \in 0..7 : s \in {0, 3, 7} \/ s \in {1, 2} \/ s = 4 \/ s \in {5, 6}
  OBVIOUS
<1> DEFINE op == a.command.op
<1>2. (t \in {0, 3, 7} <=> u \in {0, 3, 7}) /\ (t \in {1, 2} <=> u \in {1, 2})
      /\ (t = 4 <=> u = 4) /\ (t \in {5, 6} <=> u \in {5, 6})
  <2>1. /\ t \in {0, 3, 7} => op = "update_aqd_host"
        /\ t \in {1, 2} => op = "delete_host"
        /\ t = 4 => op = "rename"
        /\ t \in {5, 6} => op = "add_host"
    BY StageShape
  <2>2. /\ u \in {0, 3, 7} => op = "update_aqd_host"
        /\ u \in {1, 2} => op = "delete_host"
        /\ u = 4 => op = "rename"
        /\ u \in {5, 6} => op = "add_host"
    BY StageShape
  <2> HIDE DEF op
  <2> QED
    BY <1>1, <2>1, <2>2
<1>3. CASE t \in {1, 2}
  BY <1>2, <1>3, StageShape
<1>4. CASE t \in {5, 6}
  BY <1>2, <1>4, StageShape
<1>5. CASE t \in {0, 3, 7}
  BY <1>2, <1>5, StageShape
<1> QED
  BY <1>1, <1>2, <1>3, <1>4, <1>5

LEMMA StagesJoin ==
  ASSUME NEW c \in Change, NEW lo \in 0..7, NEW mid \in lo..7, NEW hi \in (mid + 1)..7
  PROVE  /\ Stages(c, lo, lo) = Stage(c, lo)
         /\ Stages(c, lo, mid) \cup Stages(c, mid + 1, hi) = Stages(c, lo, hi)
         /\ Stages(c, lo, mid) \cap Stages(c, mid + 1, hi) = {}
<1>1. lo..lo = {lo} /\ lo..hi = (lo..mid) \cup ((mid + 1)..hi)
  OBVIOUS
<1>2. ASSUME NEW a \in Stages(c, lo, mid), a \in Stages(c, mid + 1, hi) PROVE FALSE
  <2>1. PICK t \in lo..mid : a \in Stage(c, t)
    BY DEF Stages
  <2>2. PICK u \in (mid + 1)..hi : a \in Stage(c, u)
    BY <1>2 DEF Stages
  <2>3. t \in 0..7 /\ u \in 0..7 /\ t # u
    OBVIOUS
  <2> QED
    BY <2>1, <2>2, <2>3, StagesApart
<1>3. Stages(c, lo, lo) = Stage(c, lo)
  BY <1>1 DEF Stages
<1>4. Stages(c, lo, mid) \cup Stages(c, mid + 1, hi) = Stages(c, lo, hi)
  BY <1>1 DEF Stages
<1> QED
  BY <1>2, <1>3, <1>4

LEMMA OneStage ==
  ASSUME NEW c \in Change, NEW t \in 0..7, NEW q, Lists(q, Stage(c, t))
  PROVE  Staged(c, q, t, t)
<1>1. Stages(c, t, t) = Stage(c, t)
  <2>1. t..t = {t}
    OBVIOUS
  <2> QED
    BY <2>1 DEF Stages
<1>2. \A i \in 1..Len(q) : q[i] \in Stage(c, t)
  BY ElementOfSeq DEF Lists
<1>3. \A i \in 1..Len(q) : \A s \in 0..7 : q[i] \in Stage(c, s) => s = t
  BY <1>2, StagesApart
<1>4. \A i, j \in 1..Len(q) : \A r, s \in 0..7 :
        i < j /\ q[i] \in Stage(c, r) /\ q[j] \in Stage(c, s) => r <= s
  BY <1>3
<1> QED
  BY <1>1, <1>4 DEF Staged

LEMMA StagedConcat ==
  ASSUME NEW c \in Change, NEW lo \in 0..7, NEW mid \in lo..7, NEW hi \in (mid + 1)..7,
         NEW q, Staged(c, q, lo, mid), NEW r, Staged(c, r, mid + 1, hi)
  PROVE  Staged(c, q \o r, lo, hi)
<1> DEFINE A == Stages(c, lo, mid)
           B == Stages(c, mid + 1, hi)
           w == q \o r
<1>1. Lists(q, A) /\ Lists(r, B)
  BY DEF Staged
<1>2. A \cup B = Stages(c, lo, hi) /\ A \cap B = {}
  BY StagesJoin
<1> HIDE DEF A, B
<1>3. /\ Lists(w, A \cup B)
      /\ Len(q) \in Nat /\ Len(r) \in Nat /\ Len(w) = Len(q) + Len(r)
      /\ \A i \in 1..Len(q) : w[i] = q[i] /\ q[i] \in A
      /\ \A i \in (Len(q) + 1)..(Len(q) + Len(r)) :
           w[i] = r[i - Len(q)] /\ r[i - Len(q)] \in B
  BY <1>1, <1>2, ListsConcat
<1> HIDE DEF w
<1>4. ASSUME NEW a \in A, NEW s \in 0..7, a \in Stage(c, s) PROVE s \in lo..mid
  <2>1. PICK t \in lo..mid : a \in Stage(c, t)
    BY DEF A, Stages
  <2>2. t \in 0..7
    OBVIOUS
  <2>3. s = t
    BY <1>4, <2>1, <2>2, StagesApart
  <2> QED
    BY <2>3
<1>5. ASSUME NEW a \in B, NEW s \in 0..7, a \in Stage(c, s) PROVE s \in (mid + 1)..hi
  <2>1. PICK t \in (mid + 1)..hi : a \in Stage(c, t)
    BY DEF B, Stages
  <2>2. t \in 0..7
    OBVIOUS
  <2>3. s = t
    BY <1>5, <2>1, <2>2, StagesApart
  <2> QED
    BY <2>3
<1>6. ASSUME NEW i \in 1..Len(w), NEW j \in 1..Len(w), NEW s \in 0..7, NEW t \in 0..7,
             i < j, w[i] \in Stage(c, s), w[j] \in Stage(c, t)
      PROVE  s <= t
  <2>1. CASE j \in 1..Len(q)
    <3>1. i \in 1..Len(q)
      BY <1>3, <1>6, <2>1
    <3>2. q[i] \in Stage(c, s) /\ q[j] \in Stage(c, t)
      BY <1>3, <1>6, <2>1, <3>1
    <3> QED
      BY <1>6, <2>1, <3>1, <3>2 DEF Staged
  <2>2. CASE i \in 1..Len(q) /\ j \in (Len(q) + 1)..(Len(q) + Len(r))
    <3>1. w[i] \in A /\ w[j] \in B
      BY <1>3, <2>2
    <3>2. s \in lo..mid /\ t \in (mid + 1)..hi
      BY <1>4, <1>5, <1>6, <3>1
    <3> QED
      BY <3>2
  <2>3. CASE i \in (Len(q) + 1)..(Len(q) + Len(r)) /\ j \in (Len(q) + 1)..(Len(q) + Len(r))
    <3> DEFINE ii == i - Len(q)
               jj == j - Len(q)
    <3>1. ii \in 1..Len(r) /\ jj \in 1..Len(r) /\ ii < jj
      BY <1>3, <1>6, <2>3
    <3>2. r[ii] \in Stage(c, s) /\ r[jj] \in Stage(c, t)
      BY <1>3, <1>6, <2>3
    <3> HIDE DEF ii, jj
    <3> QED
      BY <3>1, <3>2 DEF Staged
  <2> QED
    BY <1>3, <1>6, <2>1, <2>2, <2>3
<1> QED
  BY <1>2, <1>3, <1>6 DEF Staged, w

LEMMA MapDeletes ==
  ASSUME NEW d, NEW A, Lists(d, A)
  PROVE  Lists([i \in DOMAIN d |-> DeleteHostDetails(d[i])], Deletions(A))
<1> DEFINE q == [i \in DOMAIN d |-> DeleteHostDetails(d[i])]
           n == Len(d)
<1>1. n \in Nat /\ DOMAIN d = 1..n /\ \A i \in 1..n : d[i] \in A
  BY LenProperties, ElementOfSeq DEF Lists
<1>2. q \in [1..n -> Deletions(A)]
  BY <1>1 DEF Deletions
<1>3. q \in Seq(Deletions(A)) /\ Len(q) = n
  BY <1>1, <1>2
<1>4. \A i \in 1..n : q[i] = DeleteHostDetails(d[i])
  BY <1>1
<1>5. ASSUME NEW i \in 1..n, NEW j \in 1..n, q[i] = q[j] PROVE i = j
  <2>1. d[i] = d[j]
    BY <1>4, <1>5, ActionsDiffer
  <2> QED
    BY <2>1 DEF Lists
<1>6. ASSUME NEW x \in Deletions(A) PROVE \E i \in 1..n : q[i] = x
  <2>1. PICK e \in A : x = DeleteHostDetails(e)
    BY DEF Deletions
  <2>2. PICK i \in 1..n : d[i] = e
    BY DEF Lists
  <2> QED
    BY <1>4, <2>1, <2>2
<1> HIDE DEF q, n
<1> QED
  BY <1>3, <1>5, <1>6 DEF Lists, q

LEMMA MapAdds ==
  ASSUME NEW d, NEW A, Lists(d, A)
  PROVE  Lists([i \in DOMAIN d |-> AddHostDetails(d[i])], Additions(A))
<1> DEFINE q == [i \in DOMAIN d |-> AddHostDetails(d[i])]
           n == Len(d)
<1>1. n \in Nat /\ DOMAIN d = 1..n /\ \A i \in 1..n : d[i] \in A
  BY LenProperties, ElementOfSeq DEF Lists
<1>2. q \in [1..n -> Additions(A)]
  BY <1>1 DEF Additions
<1>3. q \in Seq(Additions(A)) /\ Len(q) = n
  BY <1>1, <1>2
<1>4. \A i \in 1..n : q[i] = AddHostDetails(d[i])
  BY <1>1
<1>5. ASSUME NEW i \in 1..n, NEW j \in 1..n, q[i] = q[j] PROVE i = j
  <2>1. d[i] = d[j]
    BY <1>4, <1>5, ActionsDiffer
  <2> QED
    BY <2>1 DEF Lists
<1>6. ASSUME NEW x \in Additions(A) PROVE \E i \in 1..n : q[i] = x
  <2>1. PICK e \in A : x = AddHostDetails(e)
    BY DEF Additions
  <2>2. PICK i \in 1..n : d[i] = e
    BY DEF Lists
  <2> QED
    BY <1>4, <2>1, <2>2
<1> HIDE DEF q, n
<1> QED
  BY <1>3, <1>5, <1>6 DEF Lists, q

LEMMA TwoStages ==
  ASSUME NEW c \in Change, NEW t \in 0..6, NEW q, NEW m \in Nat,
         Lists(q, Stage(c, t) \cup Stage(c, t + 1)),
         \A i \in 1..Len(q) : /\ i <= m => q[i] \in Stage(c, t)
                              /\ i > m => q[i] \in Stage(c, t + 1)
  PROVE  Staged(c, q, t, t + 1)
<1>1. t \in 0..7 /\ t + 1 \in 0..7 /\ t \in t..7 /\ t + 1 \in (t + 1)..7
  OBVIOUS
<1>2. /\ Stages(c, t, t) = Stage(c, t) /\ Stages(c, t + 1, t + 1) = Stage(c, t + 1)
      /\ Stages(c, t, t) \cup Stages(c, t + 1, t + 1) = Stages(c, t, t + 1)
  <2>1. t..t = {t} /\ (t + 1)..(t + 1) = {t + 1} /\ t..(t + 1) = {t, t + 1}
    OBVIOUS
  <2> QED
    BY <2>1 DEF Stages
<1>3. ASSUME NEW i \in 1..Len(q), NEW j \in 1..Len(q), NEW r \in 0..7, NEW s \in 0..7,
             i < j, q[i] \in Stage(c, r), q[j] \in Stage(c, s)
      PROVE  r <= s
  <2>1. (i <= m => r = t) /\ (i > m => r = t + 1)
    BY <1>1, <1>3, StagesApart
  <2>2. (j <= m => s = t) /\ (j > m => s = t + 1)
    BY <1>1, <1>3, StagesApart
  <2> QED
    BY <1>3, <2>1, <2>2
<1> QED
  BY <1>2, <1>3 DEF Staged

\* The deletions of an update in their order, and the additions in theirs.
LEMMA DeletesStaged ==
  ASSUME NEW c \in Change, NEW s, Lists(s, Gone(c))
  PROVE  Staged(c, [i \in DOMAIN PrimaryLast(s) |-> DeleteHostDetails(PrimaryLast(s)[i])], 1, 2)
<1> DEFINE x == Only(s, HasPrimary)
           y == Only(s, HasNone)
           d == PrimaryLast(s)
           q == [i \in DOMAIN d |-> DeleteHostDetails(d[i])]
           A == Gone(c) \cap HasPrimary
           B == Gone(c) \cap HasNone
<1>1. Lists(x, A) /\ Lists(y, B)
  BY ListsOnly
<1>2. A \cap B = {} /\ A \cup B = Gone(c)
  <2>1. Gone(c) \subseteq Entry
    BY ChangeFacts DEF Gone
  <2> QED
    BY <2>1 DEF HasPrimary, HasNone
<1>3. d = x \o y
  BY DEF PrimaryLast
<1> HIDE DEF x, y, A, B, d
<1>4. /\ Lists(d, A \cup B)
      /\ Len(x) \in Nat /\ Len(y) \in Nat /\ Len(d) = Len(x) + Len(y)
      /\ \A i \in 1..Len(x) : d[i] \in A
      /\ \A i \in (Len(x) + 1)..(Len(x) + Len(y)) : d[i] \in B
  <2>1. /\ Lists(x \o y, A \cup B)
        /\ Len(x) \in Nat /\ Len(y) \in Nat /\ Len(x \o y) = Len(x) + Len(y)
        /\ \A i \in 1..Len(x) : (x \o y)[i] = x[i] /\ x[i] \in A
        /\ \A i \in (Len(x) + 1)..(Len(x) + Len(y)) :
             (x \o y)[i] = y[i - Len(x)] /\ y[i - Len(x)] \in B
    BY <1>1, <1>2, ListsConcat
  <2>2. \A i \in 1..Len(x) : (x \o y)[i] \in A
    BY <2>1
  <2>3. \A i \in (Len(x) + 1)..(Len(x) + Len(y)) : (x \o y)[i] \in B
    BY <2>1
  <2> QED
    BY <1>3, <2>1, <2>2, <2>3
<1>5. Lists(q, Deletions(Gone(c)))
  BY <1>2, <1>4, MapDeletes
<1>6. Len(d) \in Nat /\ DOMAIN d = 1..Len(d)
  BY <1>4, LenProperties DEF Lists
<1>7. q = [i \in 1..Len(d) |-> DeleteHostDetails(d[i])] /\ Len(q) = Len(d)
  BY <1>6
<1>8. \A i \in 1..Len(q) : q[i] = DeleteHostDetails(d[i])
  BY <1>7
<1> HIDE DEF q
<1>9. Stage(c, 1) = Deletions(A) /\ Stage(c, 2) = Deletions(B)
  BY StageIs DEF A, B
<1>10. Deletions(Gone(c)) = Stage(c, 1) \cup Stage(c, 2)
  BY <1>2, <1>9 DEF Deletions
<1>11. \A i \in 1..Len(q) : /\ i <= Len(x) => q[i] \in Stage(c, 1)
                            /\ i > Len(x) => q[i] \in Stage(c, 2)
  BY <1>4, <1>7, <1>8, <1>9 DEF Deletions
<1>12. Lists(q, Stage(c, 1) \cup Stage(c, 1 + 1))
  BY <1>5, <1>10
<1>13. 1 \in 0..6 /\ 1 + 1 = 2
  OBVIOUS
<1>14. Staged(c, q, 1, 1 + 1)
  BY <1>4, <1>11, <1>12, <1>13, TwoStages
<1> QED
  BY <1>13, <1>14 DEF q, d

LEMMA AddsStaged ==
  ASSUME NEW c \in Change, NEW s, Lists(s, Fresh(c))
  PROVE  Staged(c, [i \in DOMAIN PrimaryFirst(s) |-> AddHostDetails(PrimaryFirst(s)[i])], 5, 6)
<1> DEFINE x == Only(s, HasNone)
           y == Only(s, HasPrimary)
           d == PrimaryFirst(s)
           q == [i \in DOMAIN d |-> AddHostDetails(d[i])]
           A == Fresh(c) \cap HasNone
           B == Fresh(c) \cap HasPrimary
<1>1. Lists(x, A) /\ Lists(y, B)
  BY ListsOnly
<1>2. A \cap B = {} /\ A \cup B = Fresh(c)
  <2>1. Fresh(c) \subseteq Entry
    BY ChangeFacts DEF Fresh
  <2> QED
    BY <2>1 DEF HasPrimary, HasNone
<1>3. d = x \o y
  BY DEF PrimaryFirst
<1> HIDE DEF x, y, A, B, d
<1>4. /\ Lists(d, A \cup B)
      /\ Len(x) \in Nat /\ Len(y) \in Nat /\ Len(d) = Len(x) + Len(y)
      /\ \A i \in 1..Len(x) : d[i] \in A
      /\ \A i \in (Len(x) + 1)..(Len(x) + Len(y)) : d[i] \in B
  <2>1. /\ Lists(x \o y, A \cup B)
        /\ Len(x) \in Nat /\ Len(y) \in Nat /\ Len(x \o y) = Len(x) + Len(y)
        /\ \A i \in 1..Len(x) : (x \o y)[i] = x[i] /\ x[i] \in A
        /\ \A i \in (Len(x) + 1)..(Len(x) + Len(y)) :
             (x \o y)[i] = y[i - Len(x)] /\ y[i - Len(x)] \in B
    BY <1>1, <1>2, ListsConcat
  <2>2. \A i \in 1..Len(x) : (x \o y)[i] \in A
    BY <2>1
  <2>3. \A i \in (Len(x) + 1)..(Len(x) + Len(y)) : (x \o y)[i] \in B
    BY <2>1
  <2> QED
    BY <1>3, <2>1, <2>2, <2>3
<1>5. Lists(q, Additions(Fresh(c)))
  BY <1>2, <1>4, MapAdds
<1>6. Len(d) \in Nat /\ DOMAIN d = 1..Len(d)
  BY <1>4, LenProperties DEF Lists
<1>7. q = [i \in 1..Len(d) |-> AddHostDetails(d[i])] /\ Len(q) = Len(d)
  BY <1>6
<1>8. \A i \in 1..Len(q) : q[i] = AddHostDetails(d[i])
  BY <1>7
<1> HIDE DEF q
<1>9. Stage(c, 5) = Additions(A) /\ Stage(c, 6) = Additions(B)
  BY StageIs DEF A, B
<1>10. Additions(Fresh(c)) = Stage(c, 5) \cup Stage(c, 6)
  BY <1>2, <1>9 DEF Additions
<1>11. \A i \in 1..Len(q) : /\ i <= Len(x) => q[i] \in Stage(c, 5)
                            /\ i > Len(x) => q[i] \in Stage(c, 6)
  BY <1>4, <1>7, <1>8, <1>9 DEF Additions
<1>12. Lists(q, Stage(c, 5) \cup Stage(c, 5 + 1))
  BY <1>5, <1>10
<1>13. 5 \in 0..6 /\ 5 + 1 = 6
  OBVIOUS
<1>14. Staged(c, q, 5, 5 + 1)
  BY <1>4, <1>11, <1>12, <1>13, TwoStages
<1> QED
  BY <1>13, <1>14 DEF q, d

LEMMA PlanStaged ==
  ASSUME NEW c \in Change, NEW old \in SetToSeqs(c.old), NEW added \in SetToSeqs(c.new)
  PROVE  Staged(c, Plan(old, added, c.new), 1, 6)
<1> DEFINE plan == FoldLeft(PlanFor, NoPlan(c.new), old)
           dels == [i \in DOMAIN PrimaryLast(plan.deletes) |->
                      DeleteHostDetails(PrimaryLast(plan.deletes)[i])]
           left == Only(added, plan.left)
           adds == [i \in DOMAIN PrimaryFirst(left) |-> AddHostDetails(PrimaryFirst(left)[i])]
<1>1. Lists(old, c.old) /\ Lists(added, c.new)
  BY OrderLists, ChangeFacts DEF IsSnapshot
<1>2. Partly(c, plan, c.old)
  BY <1>1, LoopDone
<1>3. Plan(old, added, c.new) = ((dels \o plan.addr_updates) \o plan.name_updates) \o adds
  BY Zenon DEF Plan
<1> HIDE DEF plan
<1>4. /\ Lists(plan.deletes, Gone(c)) /\ Lists(plan.addr_updates, Stage(c, 3))
      /\ Lists(plan.name_updates, Stage(c, 4))
  <2>1. /\ Gone(c) \cap c.old = Gone(c) /\ Moving(c) \cap c.old = Moving(c)
        /\ Naming(c) \cap c.old = Naming(c)
    BY DEF Gone, Moving, Naming, Kept
  <2> QED
    BY <1>2, <2>1, StageIs DEF Partly
<1>5. plan.left = Fresh(c)
  <2>1. plan.left = c.new \ {Twin(c, e) : e \in Kept(c) \cap c.old}
    BY <1>2 DEF Partly
  <2>2. ASSUME NEW n \in c.new
        PROVE  n \in Fresh(c) <=> n \notin {Twin(c, e) : e \in Kept(c) \cap c.old}
    <3>1. \A e \in Kept(c) : e \in c.old /\ Partner(c, e) = {Twin(c, e)}
      BY TwinFacts
    <3>2. \A e \in c.old : n \in Partner(c, e) => e \in Kept(c)
      BY DEF Kept
    <3> QED
      BY <3>1, <3>2 DEF Fresh
  <2>3. Fresh(c) \subseteq c.new
    BY DEF Fresh
  <2> QED
    BY <2>1, <2>2, <2>3
<1>6. Lists(left, Fresh(c))
  <2>1. Lists(left, c.new \cap plan.left)
    BY <1>1, ListsOnly
  <2>2. c.new \cap Fresh(c) = Fresh(c)
    BY DEF Fresh
  <2> QED
    BY <1>5, <2>1, <2>2
<1>7. Staged(c, dels, 1, 2)
  BY <1>4, DeletesStaged
<1>8. Staged(c, adds, 5, 6)
  <2> HIDE DEF left
  <2> QED
    BY <1>6, AddsStaged
<1>9. Staged(c, plan.addr_updates, 3, 3) /\ Staged(c, plan.name_updates, 4, 4)
  BY <1>4, OneStage
<1> HIDE DEF dels, adds, left
<1>10. /\ 1 \in 0..7 /\ 2 \in 1..7 /\ 2 + 1 = 3 /\ 3 \in (2 + 1)..7 /\ 3 \in 1..7
       /\ 3 + 1 = 4 /\ 4 \in (3 + 1)..7 /\ 4 \in 1..7 /\ 4 + 1 = 5 /\ 6 \in (4 + 1)..7
  OBVIOUS
<1>11. Staged(c, dels \o plan.addr_updates, 1, 3)
  BY <1>7, <1>9, <1>10, StagedConcat
<1>12. Staged(c, (dels \o plan.addr_updates) \o plan.name_updates, 1, 4)
  BY <1>9, <1>10, <1>11, StagedConcat
<1>13. Staged(c, ((dels \o plan.addr_updates) \o plan.name_updates) \o adds, 1, 6)
  BY <1>8, <1>10, <1>12, StagedConcat
<1> QED
  BY <1>3, <1>13

LEMMA UpdateMachineStaged ==
  ASSUME NEW c \in Change, NEW old \in SetToSeqs(c.old), NEW added \in SetToSeqs(c.new),
         NEW q, q = IF c.swap = None THEN Plan(old, added, c.new)
                    ELSE << Park(c) >> \o Plan(old, added, c.new) \o << Unpark(c) >>
  PROVE  Staged(c, q, 0, 7)
<1> DEFINE p == Plan(old, added, c.new)
<1>1. Staged(c, p, 1, 6)
  BY PlanStaged
<1> HIDE DEF p
<1>2. CASE c.swap = None
  <2>1. q = p
    BY <1>2 DEF p
  <2>2. Stage(c, 0) = {} /\ Stage(c, 7) = {}
    BY <1>2, StageIs
  <2>3. Stages(c, 0, 7) = Stages(c, 1, 6)
    <3>1. \A t \in 0..7 : t = 0 \/ t = 7 \/ t \in 1..6
      OBVIOUS
    <3>2. 1..6 \subseteq 0..7
      OBVIOUS
    <3> QED
      BY <2>2, <3>1, <3>2 DEF Stages
  <2> QED
    BY <1>1, <2>1, <2>3 DEF Staged
<1>3. CASE c.swap # None
  <2>1. q = (<< Park(c) >> \o p) \o << Unpark(c) >>
    BY <1>3 DEF p
  <2>2. \A x : Lists(<< x >>, {x})
    <3> SUFFICES ASSUME NEW x PROVE Lists(<< x >>, {x})
      OBVIOUS
    <3>1. << x >> = Append(<< >>, x)
      OBVIOUS
    <3>2. Lists(Append(<< >>, x), {} \cup {x})
      BY EmptyLists, ListsAppend
    <3>3. {} \cup {x} = {x}
      OBVIOUS
    <3> QED
      BY <3>1, <3>2, <3>3
  <2>3. Stage(c, 0) = {Park(c)} /\ Stage(c, 7) = {Unpark(c)}
    BY <1>3, StageIs
  <2>4. Lists(<< Park(c) >>, Stage(c, 0)) /\ Lists(<< Unpark(c) >>, Stage(c, 7))
    BY <2>2, <2>3
  <2>5. Staged(c, << Park(c) >>, 0, 0) /\ Staged(c, << Unpark(c) >>, 7, 7)
    BY <2>4, OneStage
  <2>6. /\ 0 \in 0..7 /\ 0 + 1 = 1 /\ 6 \in (0 + 1)..7 /\ 6 \in 0..7 /\ 6 + 1 = 7
        /\ 7 \in (6 + 1)..7
    OBVIOUS
  <2>7. Staged(c, << Park(c) >> \o p, 0, 6)
    BY <1>1, <2>5, <2>6, StagedConcat
  <2>8. Staged(c, (<< Park(c) >> \o p) \o << Unpark(c) >>, 0, 7)
    BY <2>5, <2>6, <2>7, StagedConcat
  <2> QED
    BY <2>1, <2>8
<1> QED
  BY <1>2, <1>3

-----------------------------------------------------------------------------
(* DSDB apart from the planner.  A picture is what DSDB should hold at some  *)
(* point: slots, each with its entry.  A command moves from one picture to   *)
(* another if it does to every entry what the second one shows.             *)

Held(r, Y) == {r.now[x] : x \in Y}

Sound(r) ==
  /\ \A x \in r.slots : r.now[x] \in Entry
  /\ \A x, y \in r.slots : Same(r.now[x], r.now[y]) => x = y

\* What y hangs on is not there.
Orphan(r, y) == /\ r.now[y].primary # None
                /\ \A z \in r.slots : r.now[z].fqdn # r.now[y].primary

Rooted(r) == \A y \in r.slots : ~ Orphan(r, y)

\* The slots of s, when r had those of Y.
Across(r, s, Y) == (Y \cap s.slots) \cup (s.slots \ r.slots)

Addressed(e, c) == [e EXCEPT !.ip = IF c.ip = None THEN @ ELSE c.ip,
                             !.mac = IF c.mac = None THEN @ ELSE c.mac]

Renaming(e, c) == [e EXCEPT !.fqdn = c.new_fqdn, !.iface = c.new_iface]

Hung(e, c) == [e EXCEPT !.primary = IF @ = c.fqdn THEN c.new_fqdn ELSE @]

Finds(r, c, x) == /\ x \in r.slots /\ c.fqdn = r.now[x].fqdn
                  /\ c.iface \in {None, r.now[x].iface}

Drops(r, c, s, x) ==
  /\ c.op = "delete_host" /\ x \in r.slots /\ c.ip = r.now[x].ip
  /\ s.slots = r.slots \ {x}
  /\ \A y \in s.slots : s.now[y] = r.now[y]

Joins(r, c, s, x) ==
  /\ c.op = "add_host" /\ x \notin r.slots
  /\ s.slots = r.slots \cup {x} /\ c.entry = s.now[x]
  /\ \A y \in r.slots : s.now[y] = r.now[y]

Edits(r, c, s, x) ==
  /\ c.op = "update_aqd_host" /\ Finds(r, c, x) /\ s.slots = r.slots
  /\ c.mac # TextNone => s.now[x] = Addressed(r.now[x], c)
  /\ \A y \in r.slots \ {x} : s.now[y] = r.now[y]

Renames(r, c, s, x) ==
  /\ c.op = "rename" /\ Finds(r, c, x) /\ s.slots = r.slots
  /\ s.now[x] = Hung(Renaming(r.now[x], c), c)
  /\ \A y \in r.slots \ {x} : s.now[y] = Hung(r.now[y], c)

Moves(r, c, s, x) ==
  Drops(r, c, s, x) \/ Joins(r, c, s, x) \/ Edits(r, c, s, x) \/ Renames(r, c, s, x)

Told(c) == ~ (c.op = "update_aqd_host" /\ c.mac = TextNone)

\* Whom a command is about.
LEMMA TargetIs ==
  ASSUME NEW r, Sound(r), NEW Y \in SUBSET r.slots, NEW c, NEW x \in r.slots,
         \/ c.op = "delete_host" /\ c.ip = r.now[x].ip
         \/ c.op \in {"update_aqd_host", "rename"} /\ Finds(r, c, x)
  PROVE  /\ x \in Y => Target(Held(r, Y), c) = {r.now[x]}
         /\ x \notin Y => Target(Held(r, Y), c) = {}
<1>1. \A y \in Y : y \in r.slots /\ (Same(r.now[x], r.now[y]) => x = y)
  BY DEF Sound
<1>2. CASE c.op = "delete_host" /\ c.ip = r.now[x].ip
  <2>1. Target(Held(r, Y), c) = {e \in Held(r, Y) : e.ip = r.now[x].ip}
    BY <1>2 DEF Target
  <2>2. \A y \in Y : r.now[y].ip = r.now[x].ip => x = y
    BY <1>1 DEF Same
  <2> QED
    BY <2>1, <2>2 DEF Held
<1>3. CASE c.op \in {"update_aqd_host", "rename"} /\ Finds(r, c, x)
  <2>1. Target(Held(r, Y), c)
          = {e \in Held(r, Y) : e.fqdn = r.now[x].fqdn /\ c.iface \in {None, e.iface}}
    BY <1>3 DEF Target, Finds
  <2>2. \A y \in Y : r.now[y].fqdn = r.now[x].fqdn => x = y
    BY <1>1 DEF Same
  <2>3. c.iface \in {None, r.now[x].iface}
    BY <1>3 DEF Finds
  <2> QED
    BY <2>1, <2>2, <2>3 DEF Held
<1> QED
  BY <1>2, <1>3

LEMMA MoveIsDefined ==
  ASSUME NEW r, Sound(r), NEW s, NEW c, NEW x, Moves(r, c, s, x), NEW Y \in SUBSET r.slots
  PROVE  /\ c.op # "add_host" => x \in r.slots /\ (NotDefined(Held(r, Y), c) <=> x \notin Y)
         /\ c.op = "add_host" => x \notin r.slots /\ ~ NotDefined(Held(r, Y), c)
<1>1. CASE Joins(r, c, s, x)
  BY <1>1 DEF Joins, NotDefined
<1>2. CASE Drops(r, c, s, x) \/ Edits(r, c, s, x) \/ Renames(r, c, s, x)
  <2>1. /\ x \in r.slots /\ c.op # "add_host"
        /\ \/ c.op = "delete_host" /\ c.ip = r.now[x].ip
           \/ c.op \in {"update_aqd_host", "rename"} /\ Finds(r, c, x)
    BY <1>2 DEF Drops, Edits, Renames, Finds
  <2>2. /\ x \in Y => Target(Held(r, Y), c) = {r.now[x]}
        /\ x \notin Y => Target(Held(r, Y), c) = {}
    BY <2>1, TargetIs
  <2> QED
    BY <2>1, <2>2 DEF NotDefined
<1> QED
  BY <1>1, <1>2 DEF Moves

\* What a command that finds its entry makes of DSDB.
LEMMA MoveAfter ==
  ASSUME NEW r, Sound(r), NEW s, NEW c, NEW x, Moves(r, c, s, x), NEW Y \in SUBSET r.slots,
         ~ NotDefined(Held(r, Y), c), Told(c)
  PROVE  After(Held(r, Y), c) = Held(s, Across(r, s, Y))
<1> DEFINE d == Held(r, Y)
           Z == Across(r, s, Y)
<1>0. ASSUME NEW y \in Y, NEW z \in Y, r.now[y] = r.now[z] PROVE y = z
  BY <1>0 DEF Sound, Same
<1>1. CASE Joins(r, c, s, x)
  <2>1. After(d, c) = d \cup {c.entry}
    BY <1>1 DEF After, Joins
  <2>2. Z = Y \cup {x}
    BY <1>1 DEF Joins, Across
  <2>3. \A y \in Y : s.now[y] = r.now[y]
    BY <1>1 DEF Joins
  <2> HIDE DEF Z
  <2>4. c.entry = s.now[x]
    BY <1>1 DEF Joins
  <2>5. Held(s, Z) = d \cup {s.now[x]}
    BY <2>2, <2>3 DEF Held
  <2> QED
    BY <2>1, <2>4, <2>5 DEF Z
<1>2. CASE Drops(r, c, s, x)
  <2>1. x \in Y /\ Target(d, c) = {r.now[x]}
    BY <1>2, MoveIsDefined, TargetIs DEF Drops
  <2>2. After(d, c) = d \ {r.now[x]}
    BY <1>2, <2>1 DEF After, Drops
  <2>3. Z = Y \ {x}
    BY <1>2 DEF Drops, Across
  <2>4. \A y \in Z : s.now[y] = r.now[y]
    BY <1>2, <2>3 DEF Drops
  <2> HIDE DEF Z
  <2>5. d \ {r.now[x]} = {r.now[y] : y \in Y \ {x}}
    BY <1>0, <2>1 DEF Held
  <2>6. Held(s, Z) = {r.now[y] : y \in Y \ {x}}
    BY <2>3, <2>4 DEF Held
  <2> QED
    BY <2>2, <2>5, <2>6 DEF Z
<1>3. CASE Edits(r, c, s, x)
  <2>1. x \in Y /\ Target(d, c) = {r.now[x]}
    BY <1>3, MoveIsDefined, TargetIs DEF Edits, Finds
  <2>2. After(d, c) = (d \ {r.now[x]}) \cup {Addressed(e, c) : e \in {r.now[x]}}
    BY <1>3, <2>1 DEF After, Edits, Addressed
  <2>3. Z = Y
    BY <1>3 DEF Edits, Across
  <2>4. s.now[x] = Addressed(r.now[x], c) /\ \A y \in Y \ {x} : s.now[y] = r.now[y]
    BY <1>3 DEF Edits, Told
  <2> HIDE DEF Z
  <2>5. d \ {r.now[x]} = {r.now[y] : y \in Y \ {x}}
    BY <1>0, <2>1 DEF Held
  <2>6. After(d, c) = {r.now[y] : y \in Y \ {x}} \cup {s.now[x]}
    BY <2>2, <2>4, <2>5
  <2>7. Held(s, Z) = {r.now[y] : y \in Y \ {x}} \cup {s.now[x]}
    BY <2>1, <2>3, <2>4 DEF Held
  <2> QED
    BY <2>6, <2>7 DEF Z
<1>4. CASE Renames(r, c, s, x)
  <2>1. x \in Y /\ Target(d, c) = {r.now[x]}
    BY <1>4, MoveIsDefined, TargetIs DEF Renames, Finds
  <2>2. After(d, c) = {Hung(e, c) : e \in (d \ {r.now[x]})
                                            \cup {Renaming(e, c) : e \in {r.now[x]}}}
    BY <1>4, <2>1 DEF After, Renames, Renamed, Hung, Renaming
  <2>3. Z = Y
    BY <1>4 DEF Renames, Across
  <2>4. /\ s.now[x] = Hung(Renaming(r.now[x], c), c)
        /\ \A y \in Y \ {x} : s.now[y] = Hung(r.now[y], c)
    BY <1>4 DEF Renames
  <2> HIDE DEF Z
  <2>5. d \ {r.now[x]} = {r.now[y] : y \in Y \ {x}}
    BY <1>0, <2>1 DEF Held
  <2>6. After(d, c) = {Hung(r.now[y], c) : y \in Y \ {x}} \cup {s.now[x]}
    BY <2>2, <2>4, <2>5
  <2>7. Held(s, Z) = {Hung(r.now[y], c) : y \in Y \ {x}} \cup {s.now[x]}
    BY <2>1, <2>3, <2>4 DEF Held
  <2> QED
    BY <2>6, <2>7 DEF Z
<1> QED
  BY <1>1, <1>2, <1>3, <1>4 DEF Moves

\* A command between sound pictures is not refused by a DSDB that is in step, if
\* what hangs on an entry has it there afterwards.
LEMMA MoveAccepted ==
  ASSUME NEW r, Sound(r), NEW s, Sound(s), Rooted(s), NEW c, NEW x, Moves(r, c, s, x), Told(c)
  PROVE  /\ ~ Refused(Held(r, r.slots), c)
         /\ Across(r, s, r.slots) = s.slots
<1> DEFINE d == Held(r, r.slots)
<1>1. Across(r, s, r.slots) = s.slots
  BY DEF Across
<1>2. ~ NotDefined(d, c)
  BY MoveIsDefined
<1>3. After(d, c) = Held(s, s.slots)
  BY <1>1, <1>2, MoveAfter
<1>4. Consistent(Held(s, s.slots))
  BY DEF Consistent, Held, Sound, Rooted, Orphan, Same
<1>5. ASSUME c.op = "add_host" PROVE c.entry \notin d
  <2>1. Joins(r, c, s, x)
    BY <1>5 DEF Moves, Drops, Edits, Renames
  <2>2. x \in s.slots /\ c.entry = s.now[x] /\ x \notin r.slots
        /\ \A y \in r.slots : y \in s.slots /\ s.now[y] = r.now[y]
    BY <2>1 DEF Joins
  <2>3. \A y \in r.slots : s.now[y] # s.now[x]
    BY <2>2 DEF Sound, Same
  <2> QED
    BY <2>2, <2>3 DEF Held
<1> HIDE DEF d
<1> QED
  BY <1>1, <1>2, <1>3, <1>4, <1>5 DEF Refused, Told, d

-----------------------------------------------------------------------------
(* An entry whose deletion was swallowed.  No command is about it, and none  *)
(* that would get in its way takes effect.                                  *)

LEMMA LeftIs ==
  ASSUME NEW w \in Entry
  PROVE  /\ IsLeft(w, w)
         /\ \A e : IsLeft(e, w) => e.fqdn = w.fqdn /\ e.ip = w.ip
         /\ \A e, c : IsLeft(e, w) => IsLeft(Hung(e, c), w)
<1>1. IsLeft(w, w)
  BY DEF IsLeft, Entry
<1>2. ASSUME NEW e, IsLeft(e, w) PROVE e.fqdn = w.fqdn /\ e.ip = w.ip
  <2> DEFINE p == e.primary
             f == [w EXCEPT !.primary = p]
  <2>1. e = f
    BY <1>2 DEF IsLeft
  <2> HIDE DEF p
  <2>2. f.fqdn = w.fqdn /\ f.ip = w.ip
    BY DEF Entry
  <2> HIDE DEF f
  <2> QED
    BY <2>1, <2>2
<1>3. ASSUME NEW e, NEW c, IsLeft(e, w) PROVE IsLeft(Hung(e, c), w)
  <2> DEFINE p == e.primary
             h == IF p = c.fqdn THEN c.new_fqdn ELSE p
             f == [w EXCEPT !.primary = p]
             g == [w EXCEPT !.primary = h]
  <2>1. e = f
    BY <1>3 DEF IsLeft
  <2>2. Hung(e, c) = [e EXCEPT !.primary = h]
    BY DEF Hung
  <2> HIDE DEF p, h
  <2>3. [f EXCEPT !.primary = h] = g /\ g.primary = h
    BY DEF Entry
  <2>4. Hung(e, c) = g
    BY <2>1, <2>2, <2>3
  <2> HIDE DEF f, g
  <2>5. Hung(e, c) = g /\ g = [w EXCEPT !.primary = g.primary]
    BY <2>3, <2>4 DEF g
  <2> QED
    BY <2>5 DEF IsLeft
<1> QED
  BY <1>1, <1>2, <1>3

\* Nothing in a picture has its name or its address.
Apart(r, w) == \A y \in r.slots : ~ Same(r.now[y], w)

LEMMA LeftNotTarget ==
  ASSUME NEW r, NEW s, NEW c, NEW x, Moves(r, c, s, x), NEW w \in Entry, Apart(r, w),
         NEW e, IsLeft(e, w), NEW d
  PROVE  e \notin Target(d, c)
<1>1. e.fqdn = w.fqdn /\ e.ip = w.ip
  BY LeftIs
<1> QED
  BY <1>1 DEF Moves, Drops, Joins, Edits, Renames, Finds, Target, Apart, Same

LEMMA LeftStays ==
  ASSUME NEW r, NEW s, NEW c, NEW x, Moves(r, c, s, x), NEW w \in Entry, Apart(r, w),
         NEW d, NEW e \in d, IsLeft(e, w)
  PROVE  \E f \in After(d, c) : IsLeft(f, w)
<1>1. e \notin Target(d, c)
  BY LeftNotTarget
<1>2. CASE c.op = "rename"
  <2>1. After(d, c) = {Hung(f, c) : f \in (d \ Target(d, c))
                                            \cup {Renaming(f, c) : f \in Target(d, c)}}
    BY <1>2 DEF After, Renamed, Hung, Renaming
  <2>2. Hung(e, c) \in After(d, c)
    BY <1>1, <2>1
  <2> QED
    BY <2>2, LeftIs
<1>3. CASE c.op \in {"add_host", "delete_host", "update_aqd_host"}
  <2>1. e \in After(d, c)
    BY <1>1, <1>3 DEF After
  <2> QED
    BY <2>1
<1> QED
  BY <1>2, <1>3 DEF Moves, Drops, Joins, Edits, Renames

\* DSDB is h and what was left of W.
Beside(d, h, W) == \E L : /\ d = h \cup L
                          /\ \A e \in L : \E w \in W : IsLeft(e, w)
                          /\ \A w \in W : \E e \in L : IsLeft(e, w)

LEMMA BesideNone == \A d, h : Beside(d, h, {}) <=> d = h
<1>1. ASSUME NEW d PROVE Beside(d, d, {})
  <2> DEFINE L == {}
  <2>1. d = d \cup L /\ L = {}
    OBVIOUS
  <2> HIDE DEF L
  <2>2. /\ \A e \in L : \E w \in {} : IsLeft(e, w)
        /\ \A w \in {} : \E e \in L : IsLeft(e, w)
    BY <2>1
  <2> QED
    BY <2>1, <2>2 DEF Beside
<1>2. ASSUME NEW d, NEW h, Beside(d, h, {}) PROVE d = h
  BY <1>2 DEF Beside
<1> QED
  BY <1>1, <1>2

LEMMA BesideAfter ==
  ASSUME NEW r, NEW s, NEW c, NEW x, Moves(r, c, s, x),
         NEW W \in SUBSET Entry, \A w \in W : Apart(r, w),
         NEW d, NEW h, Beside(d, h, W)
  PROVE  /\ Target(d, c) = Target(h, c)
         /\ NotDefined(d, c) <=> NotDefined(h, c)
         /\ Beside(After(d, c), After(h, c), W)
<1>1. PICK L : /\ d = h \cup L
               /\ \A e \in L : \E w \in W : IsLeft(e, w)
               /\ \A w \in W : \E e \in L : IsLeft(e, w)
  BY DEF Beside
<1>2. \A e \in L : e \notin Target(d, c)
  BY <1>1, LeftNotTarget
<1>3. Target(d, c) = Target(h, c)
  BY <1>1, <1>2 DEF Target, Moves, Drops, Joins, Edits, Renames
<1>4. NotDefined(d, c) <=> NotDefined(h, c)
  BY <1>3 DEF NotDefined
<1>5. L \cap Target(h, c) = {}
  BY <1>2, <1>3
<1>6. CASE c.op = "rename"
  <2> DEFINE K == {Hung(e, c) : e \in L}
             B == (h \ Target(h, c)) \cup {Renaming(f, c) : f \in Target(h, c)}
             A == (d \ Target(d, c)) \cup {Renaming(f, c) : f \in Target(d, c)}
  <2>1. After(d, c) = {Hung(f, c) : f \in A} /\ After(h, c) = {Hung(f, c) : f \in B}
    BY <1>6 DEF After, Renamed, Hung, Renaming
  <2>2. A = B \cup L
    BY <1>1, <1>3, <1>5
  <2> HIDE DEF A, B
  <2>3. After(d, c) = After(h, c) \cup K
    BY <2>1, <2>2
  <2>4. \A e \in K : \E w \in W : IsLeft(e, w)
    BY <1>1, LeftIs
  <2>5. \A w \in W : \E e \in K : IsLeft(e, w)
    BY <1>1, LeftIs
  <2> HIDE DEF K
  <2>6. Beside(After(d, c), After(h, c), W)
    BY <2>3, <2>4, <2>5 DEF Beside
  <2> QED
    BY <1>3, <1>4, <2>6
<1>7. CASE c.op \in {"add_host", "delete_host", "update_aqd_host"}
  <2>1. After(d, c) = After(h, c) \cup L
    BY <1>1, <1>3, <1>5, <1>7 DEF After
  <2>2. Beside(After(d, c), After(h, c), W)
    BY <1>1, <2>1 DEF Beside
  <2> QED
    BY <1>3, <1>4, <2>2
<1> QED
  BY <1>6, <1>7 DEF Moves, Drops, Joins, Edits, Renames

\* A command that takes effect keeps the pictures apart from what was left.
LEMMA ApartAfter ==
  ASSUME NEW r, Sound(r), NEW s, Sound(s), NEW c, NEW x, Moves(r, c, s, x),
         NEW Y \in SUBSET r.slots,
         NEW W \in SUBSET Entry, \A w \in W : Apart(r, w),
         NEW d, Beside(d, Held(r, Y), W), ~ Refused(d, c)
  PROVE  \A w \in W : Apart(s, w)
<1> DEFINE h == Held(r, Y)
           Z == Across(r, s, Y)
<1>1. Told(c) /\ ~ NotDefined(d, c) /\ Consistent(After(d, c))
  BY DEF Refused, Told
<1>2. ~ NotDefined(h, c) /\ Beside(After(d, c), After(h, c), W)
  BY <1>1, BesideAfter
<1>3. After(h, c) = Held(s, Z)
  BY <1>1, <1>2, MoveAfter
<1> HIDE DEF h
<1> SUFFICES ASSUME NEW w \in W, NEW y \in s.slots, Same(s.now[y], w) PROVE FALSE
  BY DEF Apart
<1>4. w \in Entry /\ Apart(r, w)
  OBVIOUS
<1>5. PICK e \in After(d, c) : IsLeft(e, w)
  BY <1>2 DEF Beside
<1>6. Same(s.now[y], e) /\ e.fqdn = w.fqdn /\ e.ip = w.ip
  BY <1>4, <1>5, LeftIs DEF Same
<1>7. s.now[x] \in After(d, c) => (y = x => s.now[x] = e)
  BY <1>1, <1>5, <1>6 DEF Consistent, Same
<1>8. y # x => /\ y \in r.slots /\ r.now[y] \in Entry
               /\ s.now[y] = r.now[y] \/ s.now[y] = Hung(r.now[y], c)
  BY DEF Moves, Drops, Joins, Edits, Renames, Sound
<1>9. \A f \in Entry : Hung(f, c).fqdn = f.fqdn /\ Hung(f, c).ip = f.ip
  BY DEF Hung, Entry
<1>10. y = x
  <2> SUFFICES ASSUME y # x PROVE FALSE
    OBVIOUS
  <2>1. Same(r.now[y], w) /\ y \in r.slots
    BY <1>8, <1>9 DEF Same
  <2> QED
    BY <1>4, <2>1 DEF Apart
<1>11. ~ Drops(r, c, s, x)
  BY <1>10 DEF Drops
<1>12. CASE Joins(r, c, s, x)
  <2>1. c.entry = s.now[x] /\ c.op = "add_host"
    BY <1>12 DEF Joins
  <2>2. PICK f \in d : IsLeft(f, w)
    BY DEF Beside
  <2>3. After(d, c) = d \cup {c.entry}
    BY <2>1 DEF After
  <2>4. Same(c.entry, f)
    BY <1>4, <1>10, <2>1, <2>2, LeftIs DEF Same
  <2>5. c.entry = f
    BY <1>1, <2>2, <2>3, <2>4 DEF Consistent, Same
  <2> QED
    BY <2>1, <2>2, <2>5 DEF Refused
<1>13. CASE Edits(r, c, s, x) \/ Renames(r, c, s, x)
  <2>1. x \in r.slots /\ x \in Y
    <3>1. c.op # "add_host"
      BY <1>13 DEF Edits, Renames
    <3> QED
      BY <1>2, <3>1, MoveIsDefined DEF h
  <2>2. s.now[x] \in Held(s, Z)
    BY <1>10, <2>1 DEF Held, Across
  <2>3. s.now[x] = e
    BY <1>2, <1>3, <1>7, <1>10, <2>2 DEF Beside
  <2>4. r.now[x] \in Entry /\ ~ Same(r.now[x], w)
    BY <1>4, <2>1 DEF Apart, Sound
  <2>5. CASE Edits(r, c, s, x)
    <3>1. s.now[x] = Addressed(r.now[x], c)
      BY <1>1, <2>5 DEF Edits, Told
    <3>2. s.now[x].fqdn = r.now[x].fqdn
      BY <2>4, <3>1 DEF Addressed, Entry
    <3> QED
      BY <1>6, <2>3, <2>4, <3>2 DEF Same
  <2>6. CASE Renames(r, c, s, x)
    <3>1. s.now[x] = Hung(Renaming(r.now[x], c), c)
      BY <2>6 DEF Renames
    <3>2. s.now[x].ip = r.now[x].ip
      BY <2>4, <3>1 DEF Hung, Renaming, Entry
    <3> QED
      BY <1>6, <2>3, <2>4, <3>2 DEF Same
  <2> QED
    BY <1>13, <2>5, <2>6
<1> QED
  BY <1>11, <1>12, <1>13 DEF Moves

-----------------------------------------------------------------------------
(* DSDB after a command whose effect was not noticed: but for primary names  *)
(* it is off by one entry in each direction, and stays so while other        *)
(* commands are undone.                                                     *)

Bare(e) == [e EXCEPT !.primary = None]

Bares(d) == {Bare(e) : e \in d}

Unique(d) == \A x, y \in d : Same(x, y) => x = y

\* lost is missing, and extra too many.
Off(d, r, missing, lost, extra) ==
  /\ \A y \in r.slots \ missing : Bare(r.now[y]) \in {lost} \cup Bares(d)
  /\ \A z \in d : Bare(z) \in {extra} \cup {Bare(r.now[y]) : y \in r.slots}

Near(d, r, missing) == /\ d \subseteq Entry /\ Unique(d)
                       /\ \E lost, extra : Off(d, r, missing, lost, extra)

Turn(e, c) == IF c.op = "update_aqd_host" THEN Addressed(e, c) ELSE Renaming(e, c)

LEMMA BareFacts ==
  /\ \A a, b \in Entry : Bare(a) = Bare(b) => a.fqdn = b.fqdn /\ a.ip = b.ip
                                              /\ a.iface = b.iface /\ a.mac = b.mac
  /\ \A a \in Entry : Bare(a).fqdn = a.fqdn /\ Bare(a).ip = a.ip
  /\ \A a, b \in Entry : \A c : Bare(a) = Bare(b) => Bare(Turn(a, c)) = Bare(Turn(b, c))
  /\ \A a : \A c : Bare(Hung(a, c)) = Bare(a)
<1>1. ASSUME NEW a \in Entry
      PROVE  /\ Bare(a) = [fqdn |-> a.fqdn, ip |-> a.ip, iface |-> a.iface, mac |-> a.mac,
                           primary |-> None]
             /\ a = [fqdn |-> a.fqdn, ip |-> a.ip, iface |-> a.iface, mac |-> a.mac,
                     primary |-> a.primary]
  BY DEF Entry, Bare
<1>2. ASSUME NEW a \in Entry, NEW b \in Entry, Bare(a) = Bare(b)
      PROVE  a.fqdn = b.fqdn /\ a.ip = b.ip /\ a.iface = b.iface /\ a.mac = b.mac
  <2>1. [fqdn |-> a.fqdn, ip |-> a.ip, iface |-> a.iface, mac |-> a.mac, primary |-> None]
          = [fqdn |-> b.fqdn, ip |-> b.ip, iface |-> b.iface, mac |-> b.mac, primary |-> None]
    BY <1>1, <1>2
  <2> QED
    BY <2>1
<1>3. ASSUME NEW a \in Entry, NEW b \in Entry, NEW c, Bare(a) = Bare(b)
      PROVE  Bare(Turn(a, c)) = Bare(Turn(b, c))
  <2>1. a.fqdn = b.fqdn /\ a.ip = b.ip /\ a.iface = b.iface /\ a.mac = b.mac
    BY <1>2, <1>3
  <2>2. /\ DOMAIN a = {"fqdn", "ip", "iface", "mac", "primary"}
        /\ DOMAIN b = {"fqdn", "ip", "iface", "mac", "primary"}
    BY DEF Entry
  <2>3. CASE c.op = "update_aqd_host"
    BY <1>1, <2>1, <2>2, <2>3 DEF Turn, Bare, Addressed
  <2>4. CASE c.op # "update_aqd_host"
    BY <1>1, <2>1, <2>2, <2>4 DEF Turn, Bare, Renaming
  <2> QED
    BY <2>3, <2>4
<1>4. ASSUME NEW a, NEW c PROVE Bare(Hung(a, c)) = Bare(a)
  BY DEF Bare, Hung
<1>5. \A a \in Entry : Bare(a).fqdn = a.fqdn /\ Bare(a).ip = a.ip
  BY DEF Bare, Entry
<1> QED
  BY <1>2, <1>3, <1>4, <1>5

LEMMA AfterTyped ==
  ASSUME NEW r, Sound(r), NEW s, Sound(s), NEW c, NEW x, Moves(r, c, s, x), Told(c),
         NEW d \in SUBSET Entry
  PROVE  After(d, c) \subseteq Entry
<1>0. Target(d, c) \subseteq d
  BY DEF Moves, Drops, Joins, Edits, Renames, Target
<1>1. CASE Joins(r, c, s, x)
  BY <1>1 DEF Joins, After, Sound
<1>2. CASE Drops(r, c, s, x)
  BY <1>2 DEF Drops, After
<1>3. CASE Edits(r, c, s, x)
  <2>1. r.now[x] \in Entry /\ s.now[x] \in Entry /\ s.now[x] = Addressed(r.now[x], c)
    BY <1>3 DEF Edits, Finds, Sound, Told
  <2>2. (c.ip = None \/ c.ip \in Ip) /\ (c.mac = None \/ c.mac \in Mac \cup {None})
    BY <2>1 DEF Addressed, Entry
  <2>3. \A e \in Entry : Addressed(e, c) \in Entry
    BY <2>2 DEF Addressed, Entry
  <2>4. After(d, c) = (d \ Target(d, c)) \cup {Addressed(e, c) : e \in Target(d, c)}
    BY <1>3 DEF After, Edits, Addressed
  <2> QED
    BY <1>0, <2>3, <2>4
<1>4. CASE Renames(r, c, s, x)
  <2>1. /\ r.now[x] \in Entry /\ s.now[x] \in Entry
        /\ s.now[x] = Hung(Renaming(r.now[x], c), c)
    BY <1>4 DEF Renames, Finds, Sound
  <2>2. c.new_fqdn \in Fqdn /\ c.new_iface \in Iface \cup {None}
    <3>1. s.now[x].fqdn = c.new_fqdn /\ s.now[x].iface = c.new_iface
      BY <2>1 DEF Hung, Renaming, Entry
    <3> QED
      BY <2>1, <3>1 DEF Entry
  <2>3. \A e \in Entry : Renaming(e, c) \in Entry
    BY <2>2 DEF Renaming, Entry
  <2>4. \A e \in Entry : Hung(e, c) \in Entry
    BY <2>2 DEF Hung, Entry
  <2>5. After(d, c) = {Hung(e, c) : e \in (d \ Target(d, c))
                                            \cup {Renaming(e, c) : e \in Target(d, c)}}
    BY <1>4 DEF After, Renames, Renamed, Hung, Renaming
  <2> QED
    BY <1>0, <2>3, <2>4, <2>5
<1> QED
  BY <1>1, <1>2, <1>3, <1>4 DEF Moves

\* A command changes one entry, primary names apart.
LEMMA TurnsOne ==
  ASSUME NEW r, Sound(r), NEW s, Sound(s), NEW c, NEW x,
         Edits(r, c, s, x) \/ Renames(r, c, s, x), Told(c),
         NEW d \in SUBSET Entry, Unique(d), ~ NotDefined(d, c)
  PROVE  \E z \in d : /\ z.fqdn = r.now[x].fqdn
                      /\ Bares(After(d, c)) = Bares(d \ {z}) \cup {Bare(Turn(z, c))}
<1>1. /\ c.op \in {"update_aqd_host", "rename"} /\ c.fqdn = r.now[x].fqdn
      /\ Target(d, c) = {e \in d : e.fqdn = c.fqdn /\ c.iface \in {None, e.iface}}
  BY DEF Edits, Renames, Finds, Target
<1>2. PICK z \in d : z \in Target(d, c) /\ z.fqdn = c.fqdn
  BY <1>1 DEF NotDefined
<1>3. Target(d, c) = {z}
  BY <1>1, <1>2 DEF Unique, Same
<1>4. CASE Edits(r, c, s, x)
  <2>1. After(d, c) = (d \ {z}) \cup {Addressed(e, c) : e \in {z}}
    BY <1>3, <1>4 DEF After, Edits, Addressed
  <2>2. Turn(z, c) = Addressed(z, c)
    BY <1>4 DEF Turn, Edits
  <2>3. After(d, c) = (d \ {z}) \cup {Turn(z, c)}
    BY <2>1, <2>2
  <2>4. Bares(After(d, c)) = Bares(d \ {z}) \cup {Bare(Turn(z, c))}
    BY <2>3 DEF Bares
  <2> QED
    BY <1>1, <1>2, <2>4
<1>5. CASE Renames(r, c, s, x)
  <2>1. After(d, c) = {Hung(e, c) : e \in (d \ {z}) \cup {Renaming(e, c) : e \in {z}}}
    BY <1>3, <1>5 DEF After, Renames, Renamed, Hung, Renaming
  <2>2. Turn(z, c) = Renaming(z, c)
    BY <1>5 DEF Turn, Renames
  <2>3. After(d, c) = {Hung(e, c) : e \in (d \ {z}) \cup {Turn(z, c)}}
    BY <2>1, <2>2
  <2>4. Bares(After(d, c)) = {Bare(Hung(e, c)) : e \in (d \ {z}) \cup {Turn(z, c)}}
    BY <2>3 DEF Bares
  <2>5. Bares(After(d, c)) = {Bare(e) : e \in (d \ {z}) \cup {Turn(z, c)}}
    BY <2>4, BareFacts
  <2>6. Bares(After(d, c)) = Bares(d \ {z}) \cup {Bare(Turn(z, c))}
    BY <2>5 DEF Bares
  <2> QED
    BY <1>1, <1>2, <2>6
<1> QED
  BY <1>4, <1>5

LEMMA TurnedSlots ==
  ASSUME NEW r, Sound(r), NEW s, Sound(s), NEW c, NEW x,
         Edits(r, c, s, x) \/ Renames(r, c, s, x), Told(c)
  PROVE  /\ x \in r.slots /\ s.slots = r.slots
         /\ Bare(s.now[x]) = Bare(Turn(r.now[x], c))
         /\ \A y \in r.slots \ {x} : Bare(s.now[y]) = Bare(r.now[y])
<1>1. CASE Edits(r, c, s, x)
  BY <1>1 DEF Edits, Finds, Told, Turn
<1>2. CASE Renames(r, c, s, x)
  <2>1. Turn(r.now[x], c) = Renaming(r.now[x], c)
    BY <1>2 DEF Renames, Turn
  <2>2. /\ x \in r.slots /\ s.slots = r.slots
        /\ s.now[x] = Hung(Turn(r.now[x], c), c)
        /\ \A y \in r.slots \ {x} : s.now[y] = Hung(r.now[y], c)
    BY <1>2, <2>1 DEF Renames, Finds
  <2> QED
    BY <2>2, BareFacts
<1> QED
  BY <1>1, <1>2

LEMMA OtherSlots ==
  ASSUME NEW r, Sound(r), NEW s, Sound(s), NEW c, NEW x, Moves(r, c, s, x), Told(c)
  PROVE  /\ r.slots \ {x} = s.slots \ {x}
         /\ \A y \in r.slots \ {x} : Bare(s.now[y]) = Bare(r.now[y])
<1>1. CASE Joins(r, c, s, x)
  BY <1>1 DEF Joins
<1>2. CASE Drops(r, c, s, x)
  BY <1>2 DEF Drops
<1>3. CASE Edits(r, c, s, x) \/ Renames(r, c, s, x)
  BY <1>3, TurnedSlots
<1> QED
  BY <1>1, <1>2, <1>3 DEF Moves

\* The effect that was not noticed ...
LEMMA NearFirst ==
  ASSUME NEW r, Sound(r), NEW s, Sound(s), NEW c, NEW x, Moves(r, c, s, x),
         NEW missing, ~ Refused(Held(r, r.slots \ missing), c)
  PROVE  Near(After(Held(r, r.slots \ missing), c), r, missing)
<1> DEFINE Y == r.slots \ missing
           Z == Across(r, s, Y)
           d == After(Held(r, Y), c)
<1>1. Told(c) /\ ~ NotDefined(Held(r, Y), c) /\ Consistent(d)
  BY DEF Refused, Told
<1>2. d = Held(s, Z)
  <2>1. Y \in SUBSET r.slots
    OBVIOUS
  <2> HIDE DEF Y
  <2> QED
    BY <1>1, <2>1, MoveAfter
<1>3. /\ r.slots \ {x} = s.slots \ {x}
      /\ \A y \in r.slots \ {x} : Bare(s.now[y]) = Bare(r.now[y])
  BY <1>1, OtherSlots
<1>4. Z \subseteq s.slots /\ Y \ {x} \subseteq Z
  BY <1>3 DEF Across
<1>5. d \subseteq Entry
  BY <1>2, <1>4 DEF Held, Sound
<1>6. Unique(d)
  BY <1>1 DEF Unique, Consistent, Same
<1>7. Off(d, r, missing, Bare(r.now[x]), Bare(s.now[x]))
  <2>1. ASSUME NEW y \in r.slots \ missing, y # x PROVE Bare(r.now[y]) \in Bares(d)
    <3>1. y \in Z /\ Bare(s.now[y]) = Bare(r.now[y])
      BY <1>3, <1>4, <2>1
    <3> QED
      BY <1>2, <3>1 DEF Bares, Held
  <2>2. ASSUME NEW z \in d, Bare(z) # Bare(s.now[x])
        PROVE  Bare(z) \in {Bare(r.now[y]) : y \in r.slots}
    <3>1. PICK y \in Z : z = s.now[y]
      BY <1>2 DEF Held
    <3>2. y \in r.slots \ {x} /\ Bare(s.now[y]) = Bare(r.now[y])
      BY <1>3, <1>4, <2>2, <3>1
    <3> QED
      BY <3>1, <3>2
  <2> QED
    BY <2>1, <2>2 DEF Off
<1> HIDE DEF d
<1>8. Near(d, r, missing)
  BY <1>5, <1>6, <1>7 DEF Near
<1> QED
  BY <1>8 DEF d

LEMMA NearDrop ==
  ASSUME NEW r, Sound(r), NEW s, NEW c, NEW x, Drops(r, c, s, x),
         NEW d, d \subseteq Entry, Unique(d), ~ NotDefined(d, c),
         NEW missing, NEW lost, NEW extra, Off(d, r, missing, lost, extra)
  PROVE  Off(After(d, c), s, missing, lost, extra)
<1>1. /\ c.op = "delete_host" /\ x \in r.slots /\ r.now[x] \in Entry
      /\ Target(d, c) = {e \in d : e.ip = r.now[x].ip}
      /\ s.slots = r.slots \ {x}
      /\ \A y \in s.slots : s.now[y] = r.now[y]
  BY DEF Drops, Target, Sound
<1>2. PICK z \in d : z \in Target(d, c)
  BY <1>1 DEF NotDefined
<1>3. z \in Entry /\ z.ip = r.now[x].ip /\ Target(d, c) = {z}
  BY <1>1, <1>2 DEF Unique, Same
<1>4. After(d, c) = d \ {z}
  BY <1>1, <1>3 DEF After
<1>5. ASSUME NEW y \in s.slots, Bare(r.now[y]) = Bare(z) PROVE FALSE
  <2>1. r.now[y] \in Entry /\ y \in r.slots /\ y # x
    BY <1>1 DEF Sound
  <2>2. r.now[y].ip = r.now[x].ip
    BY <1>3, <1>5, <2>1, BareFacts
  <2> QED
    BY <1>1, <2>1, <2>2 DEF Sound, Same
<1>6. ASSUME NEW w \in d \ {z}, Bare(w) = Bare(r.now[x]) PROVE FALSE
  <2>1. w \in Entry /\ w.ip = z.ip
    BY <1>1, <1>3, <1>6, BareFacts
  <2> QED
    BY <2>1 DEF Unique, Same
<1>7. \A y \in s.slots \ missing : Bare(s.now[y]) \in {lost} \cup Bares(d \ {z})
  <2> SUFFICES ASSUME NEW y \in s.slots \ missing, Bare(s.now[y]) # lost
               PROVE  Bare(s.now[y]) \in Bares(d \ {z})
    OBVIOUS
  <2>1. y \in r.slots \ missing /\ s.now[y] = r.now[y] /\ Bare(r.now[y]) # Bare(z)
    BY <1>1, <1>5
  <2>2. Bare(r.now[y]) \in Bares(d)
    BY <2>1 DEF Off
  <2> QED
    BY <2>1, <2>2 DEF Bares
<1>8. \A w \in d \ {z} : Bare(w) \in {extra} \cup {Bare(s.now[y]) : y \in s.slots}
  <2> SUFFICES ASSUME NEW w \in d \ {z}, Bare(w) # extra
               PROVE  Bare(w) \in {Bare(s.now[y]) : y \in s.slots}
    OBVIOUS
  <2>1. PICK y \in r.slots : Bare(w) = Bare(r.now[y])
    BY DEF Off
  <2>2. y # x
    BY <1>6, <2>1
  <2> QED
    BY <1>1, <2>1, <2>2
<1> QED
  BY <1>4, <1>7, <1>8 DEF Off

LEMMA NearTurn ==
  ASSUME NEW r, Sound(r), NEW s, Sound(s), NEW c, NEW x,
         Edits(r, c, s, x) \/ Renames(r, c, s, x), Told(c),
         NEW d \in SUBSET Entry, Unique(d), ~ NotDefined(d, c),
         NEW missing, NEW lost, NEW extra, Off(d, r, missing, lost, extra)
  PROVE  \E l, e : Off(After(d, c), s, missing, l, e)
<1> DEFINE a == After(d, c)
<1>1. PICK z \in d : /\ z.fqdn = r.now[x].fqdn
                     /\ Bares(a) = Bares(d \ {z}) \cup {Bare(Turn(z, c))}
  BY TurnsOne
<1> HIDE DEF a
<1>2. /\ x \in r.slots /\ s.slots = r.slots
      /\ Bare(s.now[x]) = Bare(Turn(r.now[x], c))
      /\ \A y \in r.slots \ {x} : Bare(s.now[y]) = Bare(r.now[y])
  BY TurnedSlots
<1>3. z \in Entry /\ \A y \in r.slots : r.now[y] \in Entry
  BY DEF Sound
<1>4. ASSUME NEW y \in r.slots, y # x, Bare(r.now[y]) = Bare(z) PROVE FALSE
  <2>1. r.now[y].fqdn = r.now[x].fqdn
    BY <1>1, <1>3, <1>4, BareFacts
  <2> QED
    BY <1>2, <1>4, <2>1 DEF Sound, Same
<1>5. ASSUME NEW w \in d, w # z, Bare(w) = Bare(r.now[x]) PROVE FALSE
  <2>1. w \in Entry /\ w.fqdn = z.fqdn
    BY <1>1, <1>2, <1>3, <1>5, BareFacts
  <2> QED
    BY <1>5, <2>1 DEF Unique, Same
<1>6. ASSUME NEW y \in r.slots \ missing, y # x, Bare(r.now[y]) # lost
      PROVE  Bare(s.now[y]) \in Bares(a)
  <2>1. Bare(r.now[y]) \in Bares(d) /\ Bare(r.now[y]) # Bare(z)
    BY <1>4, <1>6 DEF Off
  <2>2. Bare(r.now[y]) \in Bares(d \ {z})
    BY <2>1 DEF Bares
  <2> QED
    BY <1>1, <1>2, <1>6, <2>2
<1>7. ASSUME NEW w \in d, w # z, Bare(w) # extra
      PROVE  Bare(w) \in {Bare(s.now[y]) : y \in s.slots}
  <2>1. PICK y \in r.slots : Bare(w) = Bare(r.now[y])
    BY <1>7 DEF Off
  <2>2. y # x
    BY <1>5, <1>7, <2>1
  <2> QED
    BY <1>2, <2>1, <2>2
<1>8. ASSUME NEW v \in a PROVE Bare(v) = Bare(Turn(z, c)) \/ \E w \in d : w # z /\ Bare(v) = Bare(w)
  <2>1. Bare(v) \in Bares(a)
    BY DEF Bares
  <2>2. Bare(v) \in Bares(d \ {z}) \cup {Bare(Turn(z, c))}
    BY <1>1, <2>1
  <2> QED
    BY <2>2 DEF Bares
<1>9. CASE Bare(z) = Bare(r.now[x])
  <2>1. Bare(Turn(z, c)) = Bare(s.now[x])
    BY <1>2, <1>3, <1>9, BareFacts
  <2>2. Bare(s.now[x]) \in Bares(a)
    BY <1>1, <2>1
  <2>3. ASSUME NEW y \in s.slots \ missing PROVE Bare(s.now[y]) \in {lost} \cup Bares(a)
    <3>1. y = x \/ y \in r.slots \ {x}
      BY <1>2
    <3> QED
      BY <1>2, <1>6, <2>2, <2>3, <3>1
  <2>4. ASSUME NEW v \in a PROVE Bare(v) \in {extra} \cup {Bare(s.now[y]) : y \in s.slots}
    BY <1>2, <1>7, <1>8, <2>1
  <2>5. Off(a, s, missing, lost, extra)
    BY <2>3, <2>4 DEF Off
  <2> QED
    BY <2>5 DEF a
<1>10. CASE Bare(z) # Bare(r.now[x])
  <2>1. Bare(z) = extra
    <3>1. \A y \in r.slots : Bare(z) # Bare(r.now[y])
      BY <1>4, <1>10
    <3> QED
      BY <3>1 DEF Off
  <2>2. ASSUME NEW w \in d, w # z PROVE Bare(w) # extra
    <3>1. ASSUME Bare(w) = Bare(z) PROVE FALSE
      BY <1>3, <2>2, <3>1, BareFacts DEF Unique, Same
    <3> QED
      BY <2>1, <3>1
  <2>3. ASSUME NEW v \in a
        PROVE  Bare(v) \in {Bare(Turn(z, c))} \cup {Bare(s.now[y]) : y \in s.slots}
    BY <1>7, <1>8, <2>2
  <2>4. CASE x \in missing
    <3>1. ASSUME NEW y \in s.slots \ missing PROVE Bare(s.now[y]) \in {lost} \cup Bares(a)
      <4>1. y # x /\ y \in r.slots \ missing
        BY <1>2, <2>4
      <4> QED
        BY <1>2, <1>6, <4>1
    <3>2. Off(a, s, missing, lost, Bare(Turn(z, c)))
      BY <2>3, <3>1 DEF Off
    <3> QED
      BY <3>2 DEF a
  <2>5. CASE x \notin missing
    <3>1. Bare(r.now[x]) \notin Bares(d)
      BY <1>5, <1>10 DEF Bares
    <3>2. lost = Bare(r.now[x])
      BY <1>2, <2>5, <3>1 DEF Off
    <3>3. ASSUME NEW y \in r.slots, y # x PROVE Bare(r.now[y]) # lost
      <4>1. ASSUME Bare(r.now[y]) = Bare(r.now[x]) PROVE FALSE
        <5>1. r.now[y].fqdn = r.now[x].fqdn
          BY <1>2, <1>3, <4>1, BareFacts
        <5> QED
          BY <1>2, <3>3, <5>1 DEF Sound, Same
      <4> QED
        BY <3>2, <4>1
    <3>4. ASSUME NEW y \in s.slots \ missing
          PROVE  Bare(s.now[y]) \in {Bare(s.now[x])} \cup Bares(a)
      BY <1>2, <1>6, <3>3
    <3>5. Off(a, s, missing, Bare(s.now[x]), Bare(Turn(z, c)))
      BY <2>3, <3>4 DEF Off
    <3> QED
      BY <3>5 DEF a
  <2> QED
    BY <2>4, <2>5
<1> QED
  BY <1>9, <1>10

\* ... stays the only difference.
LEMMA NearBack ==
  ASSUME NEW r, Sound(r), NEW s, Sound(s), NEW c, NEW x, Moves(r, c, s, x),
         NEW missing, NEW d, Near(d, r, missing), ~ Refused(d, c)
  PROVE  Near(After(d, c), s, missing)
<1>1. d \in SUBSET Entry /\ Unique(d)
  BY DEF Near
<1>2. PICK lost, extra : Off(d, r, missing, lost, extra)
  BY DEF Near
<1>3. Told(c) /\ ~ NotDefined(d, c) /\ Consistent(After(d, c))
  BY DEF Refused, Told
<1>4. After(d, c) \subseteq Entry
  BY <1>1, <1>3, AfterTyped
<1>5. Unique(After(d, c))
  BY <1>3 DEF Unique, Consistent, Same
<1>6. \E l, e : Off(After(d, c), s, missing, l, e)
  <2>1. CASE Joins(r, c, s, x)
    <3>1. After(d, c) = d \cup {c.entry} /\ c.entry = s.now[x]
          /\ s.slots = r.slots \cup {x} /\ \A y \in r.slots : s.now[y] = r.now[y]
      BY <2>1 DEF Joins, After
    <3>2. Bares(After(d, c)) = Bares(d) \cup {Bare(s.now[x])}
      BY <3>1 DEF Bares
    <3>3. ASSUME NEW y \in s.slots \ missing
          PROVE  Bare(s.now[y]) \in {lost} \cup Bares(After(d, c))
      BY <1>2, <3>1, <3>2 DEF Off
    <3>4. ASSUME NEW v \in After(d, c)
          PROVE  Bare(v) \in {extra} \cup {Bare(s.now[y]) : y \in s.slots}
      BY <1>2, <3>1 DEF Off
    <3>5. Off(After(d, c), s, missing, lost, extra)
      BY <3>3, <3>4 DEF Off
    <3> QED
      BY <3>5
  <2>2. CASE Drops(r, c, s, x)
    <3>1. Off(After(d, c), s, missing, lost, extra)
      BY <1>1, <1>2, <1>3, <2>2, NearDrop
    <3> QED
      BY <3>1
  <2>3. CASE Edits(r, c, s, x) \/ Renames(r, c, s, x)
    BY <1>1, <1>2, <1>3, <2>3, NearTurn
  <2> QED
    BY <2>1, <2>2, <2>3 DEF Moves
<1> QED
  BY <1>4, <1>5, <1>6 DEF Near

LEMMA AtMostOne ==
  ASSUME NEW S, NEW x, S \subseteq {x}
  PROVE  Cardinality(S) <= 1
<1>1. S = {} \/ S = {x}
  OBVIOUS
<1>2. Cardinality({}) = 0 /\ Cardinality({x}) = 1
  BY FS_EmptySet, FS_Singleton
<1> QED
  BY <1>1, <1>2

-----------------------------------------------------------------------------
(* The executor, for any list of actions that has pictures: a route.  V[k]   *)
(* is what DSDB should hold when the first k actions are in effect.          *)

Missing(c, st) == Full(c) \ st

\* But for what it hangs on.
Nearly(e, n) == Tells([e EXCEPT !.primary = n.primary], n)

\* What an executed plan leaves is what is wanted, but for entries that hang on
\* nothing any more.
Shows(r, y, n) == \/ Tells(r.now[y], n)
                  \/ Orphan(r, y) /\ Nearly(r.now[y], n)

Tell(r, c) == /\ \A y \in r.slots : \E n \in Wanted(c) : Shows(r, y, n)
              /\ \A n \in Wanted(c) : \E y \in r.slots : Shows(r, y, n)

\* An entry that goes at k is there, and as it was, before.
Until(c, V, k) ==
  \A x \in V[k - 1].slots \ V[k].slots :
    x \in Full(c) /\ \A j \in 0..(k - 1) : x \in V[j].slots /\ V[j].now[x] = x

Route(c, P, V) ==
  /\ P \in Seq(Stages(c, 0, 7))
  /\ \A k \in 0..Len(P) : Sound(V[k])
  /\ PrimaryStays(c) => \A k \in 0..Len(P) : Rooted(V[k])
  /\ V[0].slots = Full(c) /\ \A y \in Full(c) : V[0].now[y] = y
  /\ \A k \in 1..Len(P) :
       /\ \E x : /\ Moves(V[k - 1], P[k].command, V[k], x)
                 /\ Moves(V[k], P[k].rollback, V[k - 1], x)
                 /\ P[k].command.op = "add_host" => x \notin Full(c)
       /\ Told(P[k].command)
       /\ P[k].ignorable \in BOOLEAN
       /\ P[k].ignorable => P[k].command.op = "delete_host"
  /\ \A k \in 1..Len(P) : P[k].command.op = "delete_host" => Until(c, V, k)
  /\ Tell(V[Len(P)], c)

Undos(P) == {P[i].rollback : i \in 1..Len(P)}

\* Committing: the first k actions are done.
Forth(c, st, d, acts, undo, P, V, k) ==
  /\ k \in 0..Len(P)
  /\ acts \in Seq(Stages(c, 0, 7)) /\ Len(acts) = Len(P) - k
  /\ \A i \in 1..Len(acts) : acts[i] = P[k + i]
  /\ undo \in Seq(Undos(P)) /\ Len(undo) = k
  /\ \A i \in 1..k : undo[i] = P[i].rollback
  /\ d = Held(V[k], V[k].slots \ Missing(c, st))
  /\ \A y \in V[k].slots \cap Missing(c, st) :
       V[k].now[y].fqdn = y.fqdn /\ V[k].now[y].ip = y.ip

\* Rolling back: the first k are still to be undone.
Back(c, st, d, undo, P, V, k) ==
  /\ k \in 0..Len(P)
  /\ undo \in Seq(Undos(P)) /\ Len(undo) = k
  /\ \A i \in 1..k : undo[i] = P[(k + 1) - i].rollback

Restored(c, st, d, V, k) ==
  \E Y \in SUBSET V[k].slots : V[k].slots \ Missing(c, st) \subseteq Y /\ d = Held(V[k], Y)

LEMMA RouteFacts ==
  ASSUME NEW c, NEW P, NEW V, Route(c, P, V)
  PROVE  /\ Len(P) \in Nat /\ P \in Seq(Stages(c, 0, 7))
         /\ \A k \in 0..Len(P) : Sound(V[k])
         /\ \A k \in 1..Len(P) : P[k] \in Stages(c, 0, 7) /\ P[k].rollback \in Undos(P)
  BY ElementOfSeq, LenProperties DEF Route, Undos

LEMMA ForthFacts ==
  ASSUME NEW c, NEW st, NEW d, NEW acts, NEW undo, NEW P, NEW V, NEW k, Route(c, P, V),
         Forth(c, st, d, acts, undo, P, V, k), acts # << >>
  PROVE  /\ k + 1 \in 1..Len(P) /\ k \in 0..Len(P) /\ (k + 1) - 1 = k
         /\ Head(acts) = P[k + 1]
         /\ Sound(V[k]) /\ Sound(V[k + 1])
         /\ \E x : /\ Moves(V[k], P[k + 1].command, V[k + 1], x)
                   /\ P[k + 1].command.op = "add_host" => x \notin Full(c)
         /\ Told(P[k + 1].command)
         /\ P[k + 1].ignorable => P[k + 1].command.op = "delete_host"
<1>1. Len(P) \in Nat /\ Len(acts) \in Nat /\ acts \in Seq(Stages(c, 0, 7)) /\ k \in 0..Len(P)
      /\ Len(acts) = Len(P) - k
  BY RouteFacts, LenProperties DEF Forth
<1>2. Len(acts) # 0 /\ Head(acts) = acts[1]
  BY <1>1, EmptySeq, HeadTailProperties
<1>3. k + 1 \in 1..Len(P) /\ (k + 1) - 1 = k /\ 1 \in 1..Len(acts)
  BY <1>1, <1>2
<1>4. Head(acts) = P[k + 1]
  BY <1>2, <1>3 DEF Forth
<1>5. Sound(V[k]) /\ Sound(V[k + 1])
  BY <1>1, <1>3, RouteFacts
<1> QED
  BY <1>1, <1>3, <1>4, <1>5 DEF Route

\* What remains when one more is done.
OneMore(c, acts, undo, P, k) ==
  /\ k + 1 \in 0..Len(P)
  /\ Tail(acts) \in Seq(Stages(c, 0, 7)) /\ Len(Tail(acts)) = Len(P) - (k + 1)
  /\ \A i \in 1..Len(Tail(acts)) : Tail(acts)[i] = P[(k + 1) + i]
  /\ Append(undo, Head(acts).rollback) \in Seq(Undos(P))
  /\ Len(Append(undo, Head(acts).rollback)) = k + 1
  /\ \A i \in 1..(k + 1) : Append(undo, Head(acts).rollback)[i] = P[i].rollback

LEMMA ForthLists ==
  ASSUME NEW c, NEW st, NEW d, NEW acts, NEW undo, NEW P, NEW V, NEW k, Route(c, P, V),
         Forth(c, st, d, acts, undo, P, V, k), acts # << >>
  PROVE  OneMore(c, acts, undo, P, k)
<1>1. /\ Len(P) \in Nat /\ acts \in Seq(Stages(c, 0, 7)) /\ Len(acts) \in Nat
      /\ k \in 0..Len(P) /\ Len(acts) = Len(P) - k
      /\ \A i \in 1..Len(acts) : acts[i] = P[k + i]
      /\ undo \in Seq(Undos(P)) /\ Len(undo) = k
      /\ \A i \in 1..k : undo[i] = P[i].rollback
  BY RouteFacts, LenProperties DEF Forth
<1>2. k + 1 \in 1..Len(P) /\ Head(acts) = P[k + 1]
  BY ForthFacts
<1>3. /\ Tail(acts) \in Seq(Stages(c, 0, 7)) /\ Len(Tail(acts)) = Len(acts) - 1
      /\ \A i \in 1..Len(Tail(acts)) : Tail(acts)[i] = acts[i + 1]
  BY <1>1, HeadTailProperties
<1>4. \A i \in 1..Len(Tail(acts)) : Tail(acts)[i] = P[(k + 1) + i]
  <2> SUFFICES ASSUME NEW i \in 1..Len(Tail(acts)) PROVE acts[i + 1] = P[(k + 1) + i]
    BY <1>3
  <2>1. i + 1 \in 1..Len(acts) /\ k + (i + 1) = (k + 1) + i
    BY <1>1, <1>3
  <2> QED
    BY <1>1, <2>1
<1>5. P[k + 1].rollback \in Undos(P)
  BY <1>2, RouteFacts
<1> DEFINE u == P[k + 1].rollback
           r == Append(undo, u)
<1> HIDE DEF u
<1>6. /\ r \in Seq(Undos(P)) /\ Len(r) = Len(undo) + 1
      /\ \A i \in 1..Len(undo) : r[i] = undo[i]
      /\ r[Len(undo) + 1] = u
  BY <1>1, <1>5, AppendProperties DEF u
<1> HIDE DEF r
<1>7. \A i \in 1..(k + 1) : r[i] = P[i].rollback
  BY <1>1, <1>6 DEF u
<1> QED
  BY <1>1, <1>2, <1>3, <1>4, <1>6, <1>7 DEF OneMore, r, u

LEMMA ForthRun ==
  ASSUME NEW c, NEW st, NEW d, NEW acts, NEW undo, NEW P, NEW V, NEW k, Route(c, P, V),
         Forth(c, st, d, acts, undo, P, V, k), acts # << >>,
         ~ NotDefined(d, Head(acts).command)
  PROVE  Forth(c, st, After(d, Head(acts).command), Tail(acts),
               Append(undo, Head(acts).rollback), P, V, k + 1)
<1>a. OneMore(c, acts, undo, P, k)
  BY ForthLists
<1>0. /\ k + 1 \in 0..Len(P)
      /\ Tail(acts) \in Seq(Stages(c, 0, 7)) /\ Len(Tail(acts)) = Len(P) - (k + 1)
      /\ \A i \in 1..Len(Tail(acts)) : Tail(acts)[i] = P[(k + 1) + i]
      /\ Append(undo, Head(acts).rollback) \in Seq(Undos(P))
      /\ Len(Append(undo, Head(acts).rollback)) = k + 1
      /\ \A i \in 1..(k + 1) : Append(undo, Head(acts).rollback)[i] = P[i].rollback
  BY <1>a DEF OneMore
<1> DEFINE cmd == P[k + 1].command
           r == V[k]
           s == V[k + 1]
           M == Missing(c, st)
           Y == r.slots \ M
<1>1. /\ k + 1 \in 1..Len(P) /\ Head(acts) = P[k + 1] /\ Sound(r) /\ Sound(s)
      /\ \E x : Moves(r, cmd, s, x) /\ (cmd.op = "add_host" => x \notin Full(c))
      /\ Told(cmd)
  BY ForthFacts
<1>2. PICK x : Moves(r, cmd, s, x) /\ (cmd.op = "add_host" => x \notin Full(c))
  BY <1>1
<1>3. /\ d = Held(r, Y) /\ ~ NotDefined(d, cmd)
      /\ \A y \in r.slots \cap M : r.now[y].fqdn = y.fqdn /\ r.now[y].ip = y.ip
  BY <1>1 DEF Forth
<1>4. Y \in SUBSET r.slots
  OBVIOUS
<1> HIDE DEF cmd, r, s
<1>5. ~ NotDefined(Held(r, Y), cmd)
  BY <1>3
<1>6. /\ cmd.op # "add_host" => x \in r.slots /\ x \in Y
      /\ cmd.op = "add_host" => x \notin r.slots
  <2> HIDE DEF Y
  <2> QED
    BY <1>1, <1>2, <1>4, <1>5, MoveIsDefined
<1>7. After(Held(r, Y), cmd) = Held(s, Across(r, s, Y))
  <2> HIDE DEF Y
  <2> QED
    BY <1>1, <1>2, <1>4, <1>5, MoveAfter
<1>8. CASE cmd.op # "add_host"
  <2>1. /\ s.slots \subseteq r.slots /\ r.slots \ {x} \subseteq s.slots /\ x \notin M
        /\ \A y \in s.slots \ {x} :
             s.now[y].fqdn = r.now[y].fqdn /\ s.now[y].ip = r.now[y].ip
    <3>1. \A y \in r.slots : r.now[y] \in Entry
      BY <1>1 DEF Sound
    <3>2. \A e \in Entry : Hung(e, cmd).fqdn = e.fqdn /\ Hung(e, cmd).ip = e.ip
      BY DEF Entry, Hung
    <3>3. /\ s.slots \subseteq r.slots /\ r.slots \ {x} \subseteq s.slots
          /\ \A y \in s.slots \ {x} : s.now[y] = r.now[y] \/ s.now[y] = Hung(r.now[y], cmd)
      BY <1>2, <1>8 DEF Moves, Drops, Joins, Edits, Renames
    <3> QED
      BY <1>6, <1>8, <3>1, <3>2, <3>3
  <2>2. Across(r, s, Y) = s.slots \ M
    BY <2>1 DEF Across
  <2>3. \A y \in s.slots \cap M : s.now[y].fqdn = y.fqdn /\ s.now[y].ip = y.ip
    BY <1>3, <2>1
  <2> QED
    BY <1>0, <1>1, <1>3, <1>7, <2>2, <2>3 DEF Forth, s, M, cmd
<1>9. CASE cmd.op = "add_host"
  <2>1. s.slots = r.slots \cup {x} /\ \A y \in r.slots : s.now[y] = r.now[y]
    BY <1>2, <1>9 DEF Moves, Drops, Joins, Edits, Renames
  <2>2. x \notin M /\ x \notin r.slots
    BY <1>2, <1>6, <1>9 DEF M, Missing
  <2>3. Across(r, s, Y) = s.slots \ M
    BY <2>1, <2>2 DEF Across
  <2>4. \A y \in s.slots \cap M : s.now[y].fqdn = y.fqdn /\ s.now[y].ip = y.ip
    BY <1>3, <2>1, <2>2
  <2> QED
    BY <1>0, <1>1, <1>3, <1>7, <2>3, <2>4 DEF Forth, s, M, cmd
<1> QED
  BY <1>8, <1>9

\* A deletion that passes for done, whether its entry is there or not.
LEMMA ForthPassed ==
  ASSUME NEW c, NEW st, NEW d, NEW acts, NEW undo, NEW P, NEW V, NEW k, Route(c, P, V),
         Forth(c, st, d, acts, undo, P, V, k), acts # << >>, Head(acts).ignorable
  PROVE  /\ Forth(c, st, Held(V[k + 1], V[k + 1].slots \ Missing(c, st)), Tail(acts),
                  Append(undo, Head(acts).rollback), P, V, k + 1)
         /\ \E x : Drops(V[k], Head(acts).command, V[k + 1], x)
<1>a. OneMore(c, acts, undo, P, k)
  BY ForthLists
<1>0. /\ k + 1 \in 0..Len(P)
      /\ Tail(acts) \in Seq(Stages(c, 0, 7)) /\ Len(Tail(acts)) = Len(P) - (k + 1)
      /\ \A i \in 1..Len(Tail(acts)) : Tail(acts)[i] = P[(k + 1) + i]
      /\ Append(undo, Head(acts).rollback) \in Seq(Undos(P))
      /\ Len(Append(undo, Head(acts).rollback)) = k + 1
      /\ \A i \in 1..(k + 1) : Append(undo, Head(acts).rollback)[i] = P[i].rollback
  BY <1>a DEF OneMore
<1> DEFINE cmd == P[k + 1].command
           r == V[k]
           s == V[k + 1]
           M == Missing(c, st)
<1>1. /\ Head(acts) = P[k + 1] /\ \E x : Moves(r, cmd, s, x)
      /\ P[k + 1].ignorable => cmd.op = "delete_host"
  BY ForthFacts
<1>2. PICK x : Moves(r, cmd, s, x)
  BY <1>1
<1>3. /\ cmd.op = "delete_host"
      /\ \A y \in r.slots \cap M : r.now[y].fqdn = y.fqdn /\ r.now[y].ip = y.ip
  BY <1>1 DEF Forth
<1> HIDE DEF cmd, r, s
<1>6. Drops(r, cmd, s, x) /\ s.slots = r.slots \ {x} /\ \A y \in s.slots : s.now[y] = r.now[y]
  BY <1>2, <1>3 DEF Moves, Drops, Joins, Edits, Renames
<1>9. \A y \in s.slots \cap M : s.now[y].fqdn = y.fqdn /\ s.now[y].ip = y.ip
  BY <1>3, <1>6
<1> QED
  BY <1>0, <1>1, <1>6, <1>9 DEF Forth, r, s, M, cmd

LEMMA ForthIgnored ==
  ASSUME NEW c, NEW st, NEW d, NEW acts, NEW undo, NEW P, NEW V, NEW k, Route(c, P, V),
         Forth(c, st, d, acts, undo, P, V, k), acts # << >>,
         Head(acts).ignorable, NotDefined(d, Head(acts).command)
  PROVE  Forth(c, st, d, Tail(acts), Append(undo, Head(acts).rollback), P, V, k + 1)
<1> DEFINE cmd == Head(acts).command
           r == V[k]
           s == V[k + 1]
           M == Missing(c, st)
           Y == r.slots \ M
<1>1. PICK x : Drops(r, cmd, s, x)
  BY ForthPassed
<1>2. Sound(r) /\ Moves(r, cmd, s, x) /\ cmd.op # "add_host"
  BY <1>1, ForthFacts DEF Moves, Drops
<1>3. d = Held(r, Y) /\ NotDefined(d, cmd) /\ Y \in SUBSET r.slots
  BY DEF Forth
<1> HIDE DEF cmd, r, s
<1>5. x \notin Y
  <2> HIDE DEF Y
  <2> QED
    BY <1>2, <1>3, MoveIsDefined
<1>6. s.slots = r.slots \ {x} /\ \A y \in s.slots : s.now[y] = r.now[y]
  BY <1>1 DEF Drops
<1>7. s.slots \ M = Y
  BY <1>5, <1>6
<1>8. d = Held(s, s.slots \ M)
  BY <1>3, <1>6, <1>7 DEF Held
<1> QED
  BY <1>8, ForthPassed DEF s, M

LEMMA ForthTurns ==
  ASSUME NEW c, NEW st, NEW d, NEW acts, NEW undo, NEW P, NEW V, NEW k, Route(c, P, V),
         Forth(c, st, d, acts, undo, P, V, k)
  PROVE  /\ \A e : Back(c, st, e, Reverse(undo), P, V, k)
         /\ Restored(c, st, d, V, k)
<1>1. undo \in Seq(Undos(P)) /\ Len(undo) = k /\ k \in 0..Len(P) /\ Len(P) \in Nat
      /\ \A i \in 1..k : undo[i] = P[i].rollback /\ undo[i] \in Undos(P)
  BY RouteFacts, ElementOfSeq DEF Forth
<1> DEFINE q == Reverse(undo)
<1>2. q = [i \in 1..k |-> undo[(k - i) + 1]]
  BY <1>1 DEF Reverse
<1> HIDE DEF q
<1>3. \A i \in 1..k : (k - i) + 1 \in 1..k /\ (k - i) + 1 = (k + 1) - i
  BY <1>1
<1>4. /\ q \in [1..k -> Undos(P)]
      /\ \A i \in 1..k : q[i] = P[(k + 1) - i].rollback
  BY <1>1, <1>2, <1>3
<1>5. q \in Seq(Undos(P)) /\ Len(q) = k
  <2>1. k \in Nat
    BY <1>1
  <2> QED
    BY <1>4, <2>1
<1>6. \A e : Back(c, st, e, q, P, V, k)
  BY <1>1, <1>4, <1>5 DEF Back
<1>7. Restored(c, st, d, V, k)
  BY DEF Forth, Restored
<1> QED
  BY <1>6, <1>7 DEF q

LEMMA ForthDoubt ==
  ASSUME NEW c, NEW st, NEW d, NEW acts, NEW undo, NEW P, NEW V, NEW k, Route(c, P, V),
         Forth(c, st, d, acts, undo, P, V, k), acts # << >>,
         ~ Refused(d, Head(acts).command)
  PROVE  Near(After(d, Head(acts).command), V[k], Missing(c, st))
<1>1. /\ Head(acts) = P[k + 1] /\ Sound(V[k]) /\ Sound(V[k + 1])
      /\ \E x : Moves(V[k], P[k + 1].command, V[k + 1], x)
  BY ForthFacts
<1>2. d = Held(V[k], V[k].slots \ Missing(c, st))
  BY DEF Forth
<1> QED
  BY <1>1, <1>2, NearFirst

LEMMA BackFacts ==
  ASSUME NEW c, NEW st, NEW d, NEW undo, NEW P, NEW V, NEW k, Route(c, P, V),
         Back(c, st, d, undo, P, V, k), undo # << >>
  PROVE  /\ k - 1 \in 0..Len(P)
         /\ Head(undo) = P[k].rollback
         /\ Sound(V[k]) /\ Sound(V[k - 1])
         /\ \E x : Moves(V[k], P[k].rollback, V[k - 1], x)
         /\ \A e : Back(c, st, e, Tail(undo), P, V, k - 1)
<1>1. /\ Len(P) \in Nat /\ k \in 0..Len(P)
      /\ undo \in Seq(Undos(P)) /\ Len(undo) = k
      /\ \A i \in 1..k : undo[i] = P[(k + 1) - i].rollback
  BY RouteFacts DEF Back
<1>2. /\ k # 0 /\ Head(undo) = undo[1]
      /\ Tail(undo) \in Seq(Undos(P)) /\ Len(Tail(undo)) = k - 1
      /\ \A i \in 1..(k - 1) : Tail(undo)[i] = undo[i + 1]
  BY <1>1, EmptySeq, HeadTailProperties
<1>3. k \in 1..Len(P) /\ k - 1 \in 0..Len(P) /\ 1 \in 1..k /\ (k + 1) - 1 = k
  BY <1>1, <1>2
<1>4. Head(undo) = P[k].rollback
  BY <1>1, <1>2, <1>3
<1>5. \A i \in 1..(k - 1) : Tail(undo)[i] = P[((k - 1) + 1) - i].rollback
  <2> SUFFICES ASSUME NEW i \in 1..(k - 1) PROVE undo[i + 1] = P[((k - 1) + 1) - i].rollback
    BY <1>2
  <2>1. i + 1 \in 1..k /\ (k + 1) - (i + 1) = ((k - 1) + 1) - i
    BY <1>1
  <2> QED
    BY <1>1, <2>1
<1>6. \A e : Back(c, st, e, Tail(undo), P, V, k - 1)
  BY <1>2, <1>3, <1>5 DEF Back
<1>7. Sound(V[k]) /\ Sound(V[k - 1])
  BY <1>1, <1>3, RouteFacts
<1> QED
  BY <1>3, <1>4, <1>6, <1>7 DEF Route

LEMMA BackRestored ==
  ASSUME NEW c, NEW st, NEW d, NEW undo, NEW P, NEW V, NEW k, Route(c, P, V),
         Back(c, st, d, undo, P, V, k), undo # << >>,
         Restored(c, st, d, V, k), ~ Refused(d, Head(undo))
  PROVE  Restored(c, st, After(d, Head(undo)), V, k - 1)
<1> DEFINE cmd == P[k].rollback
           r == V[k]
           s == V[k - 1]
           M == Missing(c, st)
<1>1. Head(undo) = cmd /\ Sound(r) /\ Sound(s) /\ \E x : Moves(r, cmd, s, x)
  BY BackFacts
<1>2. PICK x : Moves(r, cmd, s, x)
  BY <1>1
<1>3. PICK Y \in SUBSET r.slots : r.slots \ M \subseteq Y /\ d = Held(r, Y)
  BY DEF Restored
<1>4. Told(cmd) /\ ~ NotDefined(Held(r, Y), cmd)
  BY <1>1, <1>3 DEF Refused, Told
<1> HIDE DEF cmd, r, s, M
<1>5. After(d, cmd) = Held(s, Across(r, s, Y))
  BY <1>1, <1>2, <1>3, <1>4, MoveAfter
<1>6. Across(r, s, Y) \in SUBSET s.slots /\ s.slots \ M \subseteq Across(r, s, Y)
  BY <1>3 DEF Across
<1> QED
  BY <1>1, <1>5, <1>6 DEF Restored, s, M

LEMMA BackNear ==
  ASSUME NEW c, NEW st, NEW d, NEW undo, NEW P, NEW V, NEW k, Route(c, P, V),
         Back(c, st, d, undo, P, V, k), undo # << >>,
         Near(d, V[k], Missing(c, st)), ~ Refused(d, Head(undo))
  PROVE  Near(After(d, Head(undo)), V[k - 1], Missing(c, st))
<1>1. /\ Head(undo) = P[k].rollback /\ Sound(V[k]) /\ Sound(V[k - 1])
      /\ \E x : Moves(V[k], P[k].rollback, V[k - 1], x)
  BY BackFacts
<1> QED
  BY <1>1, NearBack

\* Whatever DSDB holds, entries stay entries.
LEMMA RouteTyped ==
  ASSUME NEW c, NEW P, NEW V, Route(c, P, V), NEW k \in 1..Len(P), NEW d \in SUBSET Entry,
         NEW cmd \in {P[k].command, P[k].rollback}, ~ Refused(d, cmd)
  PROVE  After(d, cmd) \subseteq Entry
<1>1. Len(P) \in Nat
  BY RouteFacts
<1>2. k - 1 \in 0..Len(P) /\ k \in 0..Len(P)
  BY <1>1
<1>3. Sound(V[k]) /\ Sound(V[k - 1])
  BY <1>2, RouteFacts
<1>4. PICK x : Moves(V[k - 1], P[k].command, V[k], x) /\ Moves(V[k], P[k].rollback, V[k - 1], x)
  BY DEF Route
<1>5. Told(cmd)
  BY DEF Refused, Told
<1> QED
  BY <1>3, <1>4, <1>5, AfterTyped

-----------------------------------------------------------------------------
(* What a swallowed deletion leaves, along a route.                          *)

\* w is an old entry that has no slot any more, and no slot ever had its name or
\* its address but its own.
Swept(c, V, k, w) ==
  /\ w \in Full(c) /\ w \notin V[k].slots
  /\ \A j \in 0..k : /\ w \in V[j].slots => V[j].now[w] = w
                     /\ \A y \in V[j].slots : Same(V[j].now[y], w) => y = w

LEMMA SweptApart ==
  ASSUME NEW c, NEW V, NEW k \in Nat, NEW w, Swept(c, V, k, w)
  PROVE  Apart(V[k], w)
<1>1. k \in 0..k
  OBVIOUS
<1> QED
  BY <1>1 DEF Swept, Apart

LEMMA SweptMore ==
  ASSUME NEW c, NEW V, NEW k \in Nat, NEW w, Swept(c, V, k, w), Apart(V[k + 1], w),
         w \notin V[k + 1].slots
  PROVE  Swept(c, V, k + 1, w)
<1>1. \A j \in 0..(k + 1) : j \in 0..k \/ j = k + 1
  OBVIOUS
<1> QED
  BY <1>1 DEF Swept, Apart

\* A command that takes effect.
LEMMA LeftRun ==
  ASSUME NEW c, NEW st, NEW h, NEW acts, NEW undo, NEW P, NEW V, NEW k, Route(c, P, V),
         Forth(c, st, h, acts, undo, P, V, k), acts # << >>,
         NEW W \in SUBSET Entry, \A w \in W : Swept(c, V, k, w),
         NEW d, Beside(d, h, W), ~ Refused(d, Head(acts).command)
  PROVE  /\ Forth(c, st, After(h, Head(acts).command), Tail(acts),
                  Append(undo, Head(acts).rollback), P, V, k + 1)
         /\ Beside(After(d, Head(acts).command), After(h, Head(acts).command), W)
         /\ \A w \in W : Swept(c, V, k + 1, w)
<1> DEFINE cmd == Head(acts).command
           r == V[k]
           s == V[k + 1]
           Y == r.slots \ Missing(c, st)
<1>1. /\ Sound(r) /\ Sound(s) /\ k \in Nat
      /\ \E x : Moves(r, cmd, s, x) /\ (cmd.op = "add_host" => x \notin Full(c))
  <2>1. k \in 0..Len(P) /\ Len(P) \in Nat
    BY RouteFacts DEF Forth
  <2>2. /\ Sound(r) /\ Sound(s) /\ Head(acts) = P[k + 1]
        /\ \E x : /\ Moves(r, P[k + 1].command, s, x)
                  /\ P[k + 1].command.op = "add_host" => x \notin Full(c)
    BY ForthFacts
  <2> HIDE DEF r, s
  <2> QED
    BY <2>1, <2>2
<1>2. PICK x : Moves(r, cmd, s, x) /\ (cmd.op = "add_host" => x \notin Full(c))
  BY <1>1
<1>3. h = Held(r, Y) /\ Y \in SUBSET r.slots
  BY DEF Forth
<1>4. \A w \in W : Apart(r, w)
  BY <1>1, SweptApart
<1>5. ~ Refused(d, cmd)
  OBVIOUS
<1> HIDE DEF cmd, r, s, Y
<1>6. ~ NotDefined(d, cmd)
  BY <1>5 DEF Refused
<1>7. ~ NotDefined(h, cmd) /\ Beside(After(d, cmd), After(h, cmd), W)
  BY <1>2, <1>4, <1>6, BesideAfter
<1>8. \A w \in W : Apart(s, w)
  BY <1>1, <1>2, <1>3, <1>4, <1>5, ApartAfter
<1>9. ASSUME NEW w \in W PROVE Swept(c, V, k + 1, w)
  <2>1. w \in Full(c) /\ w \notin r.slots
    BY DEF Swept, r
  <2>2. w \notin s.slots
    BY <1>2, <2>1 DEF Moves, Drops, Joins, Edits, Renames
  <2> QED
    BY <1>1, <1>8, <2>2, SweptMore DEF s
<1>10. Forth(c, st, After(h, cmd), Tail(acts), Append(undo, Head(acts).rollback), P, V, k + 1)
  BY <1>7, ForthRun DEF cmd
<1> QED
  BY <1>7, <1>9, <1>10 DEF cmd

\* A deletion that does not run and passes for done.
LEMMA LeftSwallowed ==
  ASSUME NEW c, NEW st, NEW h, NEW acts, NEW undo, NEW P, NEW V, NEW k, Route(c, P, V),
         Forth(c, st, h, acts, undo, P, V, k), acts # << >>, Head(acts).ignorable,
         NEW W \in SUBSET Entry, \A w \in W : Swept(c, V, k, w),
         NEW d \in SUBSET Entry, Beside(d, h, W)
  PROVE  LET X == W \cup Target(d, Head(acts).command)
         IN  /\ X \subseteq Entry
             /\ \A w \in X : Swept(c, V, k + 1, w)
             /\ \E g : /\ Forth(c, st, g, Tail(acts), Append(undo, Head(acts).rollback),
                                P, V, k + 1)
                       /\ Beside(d, g, X)
<1> DEFINE cmd == Head(acts).command
           r == V[k]
           s == V[k + 1]
           M == Missing(c, st)
           Y == r.slots \ M
           g == Held(s, s.slots \ M)
<1>1. /\ Sound(r) /\ Sound(s) /\ k \in Nat /\ k + 1 \in 1..Len(P) /\ (k + 1) - 1 = k
      /\ Head(acts) = P[k + 1]
  <2>1. k \in 0..Len(P) /\ Len(P) \in Nat
    BY RouteFacts DEF Forth
  <2> QED
    BY <2>1, ForthFacts
<1>2. PICK x : Drops(r, cmd, s, x)
  BY ForthPassed
<1>3. Forth(c, st, g, Tail(acts), Append(undo, Head(acts).rollback), P, V, k + 1)
  BY ForthPassed
<1>4. h = Held(r, Y) /\ Y \in SUBSET r.slots
  BY DEF Forth
<1>5. \A w \in W : Apart(r, w)
  BY <1>1, SweptApart
<1>6. /\ x \in r.slots /\ x \notin s.slots
      /\ x \in Full(c) /\ \A j \in 0..k : x \in V[j].slots /\ V[j].now[x] = x
  <2>1. cmd.op = "delete_host" /\ x \in r.slots /\ s.slots = r.slots \ {x}
    BY <1>2 DEF Drops
  <2>2. Until(c, V, k + 1)
    BY <1>1, <2>1 DEF Route
  <2> QED
    BY <1>1, <2>1, <2>2 DEF Until
<1>7. r.now[x] = x /\ x \in Entry
  <2>1. k \in 0..k
    BY <1>1
  <2> QED
    BY <1>1, <1>6, <2>1 DEF Sound
<1>8. \A j \in 0..k : j \in 0..Len(P)
  <2>1. Len(P) \in Nat
    BY RouteFacts
  <2> QED
    BY <1>1, <2>1
<1>9. ASSUME NEW j \in 0..k, NEW y \in V[j].slots, Same(V[j].now[y], x) PROVE y = x
  <2>1. Sound(V[j])
    BY <1>8, RouteFacts
  <2>2. x \in V[j].slots /\ V[j].now[x] = x
    BY <1>6
  <2> QED
    BY <1>9, <2>1, <2>2 DEF Sound
<1>10. s.slots = r.slots \ {x} /\ \A y \in s.slots : s.now[y] = r.now[y]
  BY <1>2 DEF Drops
<1>11. k \in 0..k /\ \A j \in 0..(k + 1) : j \in 0..k \/ j = k + 1
  BY <1>1
<1>12. Swept(c, V, k + 1, x)
  <2>1. \A y \in s.slots : Same(s.now[y], x) => y = x
    BY <1>9, <1>10, <1>11
  <2> QED
    BY <1>6, <1>9, <1>11, <2>1 DEF Swept
<1>13. ASSUME NEW w \in W PROVE Swept(c, V, k + 1, w)
  <2>1. Apart(s, w)
    BY <1>5, <1>10 DEF Apart
  <2>2. w \notin s.slots
    BY <1>10 DEF Swept
  <2> QED
    BY <1>1, <2>1, <2>2, SweptMore
<1>14. Target(d, cmd) = Target(h, cmd)
  <2>1. Moves(r, cmd, s, x)
    BY <1>2 DEF Moves
  <2> HIDE DEF cmd, r, s, Y
  <2> QED
    BY <1>5, <2>1, BesideAfter
<1>15. PICK L : /\ d = h \cup L
                /\ \A e \in L : \E w \in W : IsLeft(e, w)
                /\ \A w \in W : \E e \in L : IsLeft(e, w)
  BY DEF Beside
<1> HIDE DEF cmd
<1>16. IsLeft(x, x)
  BY <1>7, LeftIs
<1>17. cmd.op = "delete_host" /\ cmd.ip = r.now[x].ip
  BY <1>2 DEF Drops
<1>18. CASE x \in Y
  <2>1. Target(h, cmd) = {x}
    <3> HIDE DEF Y, r
    <3> QED
      BY <1>1, <1>4, <1>6, <1>7, <1>17, <1>18, TargetIs
  <2>2. Y = (s.slots \ M) \cup {x}
    BY <1>10, <1>18
  <2>3. h = g \cup {x}
    BY <1>4, <1>7, <1>10, <2>2 DEF Held
  <2>4. d = g \cup (L \cup {x})
    BY <1>15, <2>3
  <2> HIDE DEF g
  <2>5. Beside(d, g, W \cup {x})
    <3> DEFINE K == L \cup {x}
               X == W \cup {x}
    <3>1. \A e \in K : \E w \in X : IsLeft(e, w)
      BY <1>15, <1>16
    <3>2. \A w \in X : \E e \in K : IsLeft(e, w)
      BY <1>15, <1>16
    <3>3. d = g \cup K
      BY <2>4
    <3> HIDE DEF K, X
    <3>4. Beside(d, g, X)
      BY <3>1, <3>2, <3>3 DEF Beside
    <3> QED
      BY <3>4 DEF X
  <2> QED
    BY <1>3, <1>7, <1>12, <1>13, <1>14, <2>1, <2>5 DEF cmd
<1>19. CASE x \notin Y
  <2>1. Target(h, cmd) = {}
    <3> HIDE DEF Y, r
    <3> QED
      BY <1>1, <1>4, <1>6, <1>17, <1>19, TargetIs
  <2>2. Y = s.slots \ M
    BY <1>10, <1>19
  <2>3. h = g
    BY <1>4, <1>10, <2>2 DEF Held
  <2> HIDE DEF g
  <2> QED
    BY <1>3, <1>13, <1>14, <2>1, <2>3 DEF cmd
<1> QED
  BY <1>18, <1>19

\* It is still there when a deletion was undone, so that its own cannot be.
LEMMA LeftBack ==
  ASSUME NEW c, NEW st, NEW d, NEW undo, NEW P, NEW V, NEW k, Route(c, P, V),
         Back(c, st, d, undo, P, V, k), undo # << >>, ~ Refused(d, Head(undo)),
         NEW w \in Entry, Swept(c, V, k, w), NEW e \in d, IsLeft(e, w)
  PROVE  /\ Swept(c, V, k - 1, w)
         /\ \E f \in After(d, Head(undo)) : IsLeft(f, w)
<1> DEFINE cmd == Head(undo)
           r == V[k]
           s == V[k - 1]
<1>1. \E x : Moves(r, cmd, s, x)
  BY BackFacts
<1>2. k \in Nat /\ k - 1 \in Nat
  <2>1. k - 1 \in 0..Len(P) /\ k \in 0..Len(P) /\ Len(P) \in Nat
    BY BackFacts, RouteFacts DEF Back
  <2> QED
    BY <2>1
<1>3. PICK x : Moves(r, cmd, s, x)
  BY <1>1
<1>4. Apart(r, w)
  BY <1>2, SweptApart
<1>5. k - 1 \in 0..k /\ \A j \in 0..(k - 1) : j \in 0..k
  BY <1>2
<1>6. ~ Refused(d, cmd)
  OBVIOUS
<1>7. w \notin r.slots /\ (w \in s.slots => s.now[w] = w)
  BY <1>5 DEF Swept
<1> HIDE DEF cmd, r, s
<1>8. ASSUME w \in s.slots PROVE FALSE
  <2>1. Joins(r, cmd, s, x) /\ x = w
    BY <1>3, <1>7, <1>8 DEF Moves, Drops, Joins, Edits, Renames
  <2>2. cmd.op = "add_host" /\ cmd.entry = w
    BY <1>7, <1>8, <2>1 DEF Joins
  <2>3. After(d, cmd) = d \cup {w} /\ Consistent(After(d, cmd))
    BY <1>6, <2>2 DEF After, Refused
  <2>4. e = w
    BY <2>3, LeftIs DEF Consistent
  <2> QED
    BY <1>6, <2>2, <2>4 DEF Refused
<1>9. \E f \in After(d, cmd) : IsLeft(f, w)
  BY <1>3, <1>4, LeftStays
<1>10. Swept(c, V, k - 1, w)
  BY <1>5, <1>8 DEF Swept, s
<1> QED
  BY <1>9, <1>10 DEF cmd

-----------------------------------------------------------------------------
(* The pictures of an update.  A view says which old entries are deleted,     *)
(* have their new address, have their new name, which new ones were added,   *)
(* and where the swapped address is: 0 in its place, 1 parked, 2 exchanged.  *)

Extra(c) == IF c.swap = None THEN {} ELSE {c.swap}

Live(c, v) == ((c.old \ v.gone) \cup v.added) \cup Extra(c)

SwapIp(c, v) == IF v.swap = 0 THEN c.swap.ip ELSE IF v.swap = 1 THEN c.temp ELSE c.old_ip

NowFqdn(c, v, x) == IF x \in v.named THEN Twin(c, x).fqdn ELSE x.fqdn

NowIp(c, v, x) == IF x \in v.moved THEN Twin(c, x).ip
                  ELSE IF x \in Extra(c) THEN SwapIp(c, v) ELSE x.ip

NowMac(c, v, x) == IF x \in v.moved /\ Twin(c, x).mac # None THEN Twin(c, x).mac ELSE x.mac

NowPrimary(c, v, x) ==
  LET p == CHOOSE p \in v.named : p.fqdn = x.primary
  IN  IF x \in c.old /\ \E q \in v.named : q.fqdn = x.primary THEN Twin(c, p).fqdn
      ELSE x.primary

Now(c, v, x) ==
  [fqdn |-> NowFqdn(c, v, x), ip |-> NowIp(c, v, x),
   iface |-> IF x \in v.named THEN Twin(c, x).iface ELSE x.iface,
   mac |-> NowMac(c, v, x), primary |-> NowPrimary(c, v, x)]

Picture(c, v) == [slots |-> Live(c, v), now |-> [x \in Live(c, v) |-> Now(c, v, x)]]

\* The order of the stages.
Legal(c, v) ==
  /\ v.gone \subseteq Gone(c) /\ v.moved \subseteq Moving(c)
  /\ v.named \subseteq Naming(c) /\ v.added \subseteq Fresh(c)
  /\ v.swap \in 0..2
  /\ v.gone \cap HasNone # {} => Gone(c) \cap HasPrimary \subseteq v.gone
  /\ v.moved # {} \/ v.named # {} \/ v.added # {} => v.gone = Gone(c)
  /\ v.named # {} \/ v.added # {} => v.moved = Moving(c)
  /\ v.added # {} => v.named = Naming(c)
  /\ v.added \cap HasPrimary # {} => Fresh(c) \cap HasNone \subseteq v.added
  /\ c.swap # None /\ v.swap = 0 =>
       v.gone = {} /\ v.moved = {} /\ v.named = {} /\ v.added = {}
  /\ c.swap # None /\ v.swap = 2 =>
       v.gone = Gone(c) /\ v.moved = Moving(c) /\ v.named = Naming(c) /\ v.added = Fresh(c)

LEMMA SlotFacts ==
  ASSUME NEW c \in Change
  PROVE  /\ c.old \cap Fresh(c) = {} /\ Extra(c) \cap (c.old \cup c.new) = {}
         /\ Fresh(c) \subseteq c.new /\ Gone(c) \subseteq c.old
         /\ Moving(c) \subseteq Kept(c) /\ Naming(c) \subseteq Kept(c)
         /\ Kept(c) \subseteq c.old /\ Kept(c) \cap Gone(c) = {}
         /\ c.old = Kept(c) \cup Gone(c)
         /\ Extra(c) \subseteq Entry /\ c.old \subseteq Entry /\ c.new \subseteq Entry
         /\ \A x \in Extra(c) : c.swap # None /\ x = c.swap /\ x.primary = None
<1>1. ASSUME NEW e \in c.old, e \in Fresh(c) PROVE FALSE
  <2>1. e \in Partner(c, e)
    BY <1>1 DEF Fresh, Partner, Same
  <2> QED
    BY <1>1, <2>1 DEF Fresh
<1>2. \A x \in Extra(c) : c.swap # None /\ x = c.swap
  BY DEF Extra
<1>3. c.swap # None => /\ c.swap \in Entry /\ c.swap.primary = None
                       /\ \A e \in c.old \cup c.new : e.fqdn # c.swap.fqdn
  BY ChangeFacts DEF IsSwap
<1>4. /\ Fresh(c) \subseteq c.new /\ Gone(c) \subseteq c.old
      /\ Moving(c) \subseteq Kept(c) /\ Naming(c) \subseteq Kept(c)
      /\ Kept(c) \subseteq c.old /\ Kept(c) \cap Gone(c) = {} /\ c.old = Kept(c) \cup Gone(c)
  BY DEF Fresh, Gone, Moving, Naming, Kept
<1>5. Extra(c) \cap (c.old \cup c.new) = {}
  BY <1>2, <1>3
<1>6. Extra(c) \subseteq Entry
  BY <1>2, <1>3
<1> QED
  BY <1>1, <1>2, <1>3, <1>4, <1>5, <1>6, ChangeFacts

LEMMA TwinNames ==
  ASSUME NEW c \in Change
  PROVE  /\ \A x, y \in c.old : Same(x, y) => x = y
         /\ \A x, y \in Kept(c) : Same(Twin(c, x), Twin(c, y)) => x = y
         /\ \A x \in Kept(c) : \A y \in c.old : Same(Twin(c, x), y) \/ Same(y, Twin(c, x)) => x = y
         /\ \A x \in Kept(c) : \A n \in Fresh(c) : ~ Same(Twin(c, x), n)
         /\ \A x, y \in Fresh(c) : Same(x, y) => x = y
<1>1. IsSnapshot(c.old) /\ IsSnapshot(c.new)
  BY ChangeFacts
<1>2. \A x, y \in c.old : Same(x, y) => x = y
  BY <1>1 DEF IsSnapshot, Same
<1>3. \A x, y \in c.new : Same(x, y) => x = y
  BY <1>1 DEF IsSnapshot, Same
<1>4. ASSUME NEW x \in Kept(c)
      PROVE  /\ x \in c.old /\ Twin(c, x) \in c.new /\ Same(x, Twin(c, x))
             /\ \A o \in c.old : Same(o, Twin(c, x)) => o = x
             /\ Partner(c, x) = {Twin(c, x)}
  BY TwinFacts
<1>5. ASSUME NEW x \in Kept(c), NEW y \in Kept(c), Same(Twin(c, x), Twin(c, y)) PROVE x = y
  BY <1>3, <1>4, <1>5
<1>6. ASSUME NEW x \in Kept(c), NEW n \in Fresh(c), Same(Twin(c, x), n) PROVE FALSE
  <2>1. n \in c.new
    BY DEF Fresh
  <2>2. Twin(c, x) = n
    BY <1>3, <1>4, <1>6, <2>1
  <2> QED
    BY <1>4, <2>2 DEF Fresh
<1>7. \A a, b : Same(a, b) => Same(b, a)
  BY DEF Same
<1>8. \A x, y \in Fresh(c) : Same(x, y) => x = y
  BY <1>3 DEF Fresh
<1> QED
  BY <1>2, <1>4, <1>5, <1>6, <1>7, <1>8

LEMMA PrimaryIs ==
  ASSUME NEW c \in Change, NEW v, Legal(c, v), NEW x
  PROVE  /\ \A p \in v.named : x \in c.old /\ p.fqdn = x.primary
              => NowPrimary(c, v, x) = Twin(c, p).fqdn
         /\ (x \notin c.old \/ \A p \in v.named : p.fqdn # x.primary)
              => NowPrimary(c, v, x) = x.primary
<1>1. v.named \subseteq c.old
  BY SlotFacts DEF Legal
<1>2. \A p, q \in v.named : p.fqdn = q.fqdn => p = q
  BY <1>1, TwinNames DEF Same
<1>3. ASSUME NEW p \in v.named, x \in c.old, p.fqdn = x.primary
      PROVE  NowPrimary(c, v, x) = Twin(c, p).fqdn
  <2>1. (CHOOSE q \in v.named : q.fqdn = x.primary) = p
    BY <1>2, <1>3
  <2> QED
    BY <1>3, <2>1 DEF NowPrimary
<1>4. ASSUME x \notin c.old \/ \A p \in v.named : p.fqdn # x.primary
      PROVE  NowPrimary(c, v, x) = x.primary
  BY <1>4 DEF NowPrimary
<1> QED
  BY <1>3, <1>4

\* A live slot is an old entry, a new one or the swapped one.
LEMMA LiveKinds ==
  ASSUME NEW c \in Change, NEW v, Legal(c, v), NEW x \in Live(c, v)
  PROVE  /\ x \in Entry
         /\ \/ x \in Kept(c) \cup (Gone(c) \ v.gone)
            \/ x \in v.added
            \/ x \in Extra(c)
         /\ x \in v.named \/ x \in v.moved => x \in Kept(c)
         /\ x \in v.added => x \in Fresh(c) /\ x \notin v.named /\ x \notin v.moved
                             /\ x \notin Extra(c) /\ x \notin c.old
         /\ x \in Extra(c) => x \notin v.named /\ x \notin v.moved /\ x \notin c.old
         /\ x \in c.old => x \notin Extra(c)
<1>1. /\ v.gone \subseteq Gone(c) /\ v.moved \subseteq Kept(c) /\ v.named \subseteq Kept(c)
      /\ v.added \subseteq Fresh(c)
  BY SlotFacts DEF Legal
<1> QED
  BY <1>1, SlotFacts DEF Live

LEMMA NowTyped ==
  ASSUME NEW c \in Change, NEW v, Legal(c, v), NEW x \in Live(c, v)
  PROVE  Now(c, v, x) \in Entry
<1>1. x \in Entry /\ (x \in v.named \/ x \in v.moved => x \in Kept(c))
  BY LiveKinds
<1>2. x \in v.named \/ x \in v.moved => Twin(c, x) \in Entry
  BY <1>1, TwinFacts
<1>3. x \in Extra(c) => SwapIp(c, v) \in Ip
  <2>1. c.swap # None => c.swap.ip \in Ip /\ c.temp \in Ip /\ c.old_ip \in Ip
    BY ChangeFacts DEF IsSwap, Entry
  <2> QED
    BY <2>1, SlotFacts DEF SwapIp
<1>4. NowFqdn(c, v, x) \in Fqdn
  BY <1>1, <1>2 DEF NowFqdn, Entry
<1>5. NowIp(c, v, x) \in Ip
  BY <1>1, <1>2, <1>3 DEF NowIp, Entry
<1>6. NowMac(c, v, x) \in Mac \cup {None}
  BY <1>1, <1>2 DEF NowMac, Entry
<1>7. NowPrimary(c, v, x) \in Fqdn \cup {None}
  <2>1. CASE x \in c.old /\ \E p \in v.named : p.fqdn = x.primary
    <3>1. PICK p \in v.named : p.fqdn = x.primary
      BY <2>1
    <3>2. p \in Kept(c)
      BY SlotFacts DEF Legal
    <3>3. Twin(c, p) \in Entry
      BY <3>2, TwinFacts
    <3>4. NowPrimary(c, v, x) = Twin(c, p).fqdn
      BY <2>1, <3>1, PrimaryIs
    <3> QED
      BY <3>3, <3>4 DEF Entry
  <2>2. CASE ~ (x \in c.old /\ \E p \in v.named : p.fqdn = x.primary)
    <3>1. NowPrimary(c, v, x) = x.primary
      BY <2>2, PrimaryIs
    <3> QED
      BY <1>1, <3>1 DEF Entry
  <2> QED
    BY <2>1, <2>2
<1>8. (IF x \in v.named THEN Twin(c, x).iface ELSE x.iface) \in Iface \cup {None}
  BY <1>1, <1>2 DEF Entry
<1> QED
  BY <1>4, <1>5, <1>6, <1>7, <1>8 DEF Now, Entry

\* Once something is added, what stays has its new name and address.
LEMMA Settled ==
  ASSUME NEW c \in Change, NEW v, Legal(c, v), v.added # {}, NEW x \in Live(c, v), x \in c.old
  PROVE  /\ x \in Kept(c)
         /\ NowFqdn(c, v, x) = Twin(c, x).fqdn /\ NowIp(c, v, x) = Twin(c, x).ip
<1>1. v.gone = Gone(c) /\ v.moved = Moving(c) /\ v.named = Naming(c)
  BY DEF Legal
<1>2. x \in Kept(c) /\ x \notin Extra(c)
  BY <1>1, LiveKinds
<1>3. NowFqdn(c, v, x) = Twin(c, x).fqdn
  BY <1>1, <1>2 DEF NowFqdn, Naming
<1>4. NowIp(c, v, x) = Twin(c, x).ip
  BY <1>1, <1>2 DEF NowIp, Moving
<1> QED
  BY <1>2, <1>3, <1>4

LEMMA NamesApart ==
  ASSUME NEW c \in Change, NEW v, Legal(c, v), NEW x \in Live(c, v), NEW y \in Live(c, v),
         NowFqdn(c, v, x) = NowFqdn(c, v, y)
  PROVE  x = y
<1>1. \A z \in Live(c, v) : z \in c.old \/ z \in v.added \/ z \in Extra(c)
  BY LiveKinds, SlotFacts
<1>2. ASSUME NEW z \in Live(c, v), z \in Extra(c)
      PROVE  NowFqdn(c, v, z) = c.swap.fqdn /\ c.swap # None
  BY <1>2, LiveKinds, SlotFacts DEF NowFqdn
<1>3. ASSUME NEW z \in Live(c, v), z \notin Extra(c), c.swap # None
      PROVE  NowFqdn(c, v, z) # c.swap.fqdn
  <2>1. \A e \in c.old \cup c.new : e.fqdn # c.swap.fqdn
    BY <1>3, ChangeFacts DEF IsSwap
  <2>2. z \in c.old \cup c.new
    BY <1>1, <1>3, LiveKinds, SlotFacts
  <2>3. z \in v.named => Twin(c, z) \in c.new
    BY <1>3, LiveKinds, TwinFacts
  <2> QED
    BY <2>1, <2>2, <2>3 DEF NowFqdn
<1>4. ASSUME NEW a \in Live(c, v), a \in c.old, NEW b \in Live(c, v), b \in c.old,
             NowFqdn(c, v, a) = NowFqdn(c, v, b)
      PROVE  a = b
  <2>1. (a \in v.named => a \in Kept(c)) /\ (b \in v.named => b \in Kept(c))
    BY LiveKinds
  <2>2. CASE a \in v.named /\ b \in v.named
    BY <1>4, <2>1, <2>2, TwinNames DEF NowFqdn, Same
  <2>3. CASE a \in v.named /\ b \notin v.named
    BY <1>4, <2>1, <2>3, TwinNames DEF NowFqdn, Same
  <2>4. CASE a \notin v.named /\ b \in v.named
    BY <1>4, <2>1, <2>4, TwinNames DEF NowFqdn, Same
  <2>5. CASE a \notin v.named /\ b \notin v.named
    BY <1>4, <2>1, <2>5, TwinNames DEF NowFqdn, Same
  <2> QED
    BY <2>2, <2>3, <2>4, <2>5
<1>5. ASSUME NEW a \in Live(c, v), a \in c.old, NEW b \in Live(c, v), b \in v.added,
             NowFqdn(c, v, a) = NowFqdn(c, v, b)
      PROVE  FALSE
  <2>1. a \in Kept(c) /\ NowFqdn(c, v, a) = Twin(c, a).fqdn
    BY <1>5, Settled
  <2>2. b \in Fresh(c) /\ NowFqdn(c, v, b) = b.fqdn
    BY <1>5, LiveKinds DEF NowFqdn
  <2> QED
    BY <1>5, <2>1, <2>2, TwinNames DEF Same
<1>6. ASSUME NEW a \in Live(c, v), a \in v.added, NEW b \in Live(c, v), b \in v.added,
             NowFqdn(c, v, a) = NowFqdn(c, v, b)
      PROVE  a = b
  <2>1. /\ a \in Fresh(c) /\ NowFqdn(c, v, a) = a.fqdn
        /\ b \in Fresh(c) /\ NowFqdn(c, v, b) = b.fqdn
    BY <1>6, LiveKinds DEF NowFqdn
  <2> QED
    BY <1>6, <2>1, TwinNames DEF Same
<1>7. CASE x \in Extra(c) /\ y \in Extra(c)
  BY <1>7, SlotFacts
<1>8. CASE x \in Extra(c) /\ y \notin Extra(c)
  BY <1>2, <1>3, <1>8
<1>9. CASE x \notin Extra(c) /\ y \in Extra(c)
  BY <1>2, <1>3, <1>9
<1>10. CASE x \notin Extra(c) /\ y \notin Extra(c)
  <2>1. (x \in c.old \/ x \in v.added) /\ (y \in c.old \/ y \in v.added)
    BY <1>1, <1>10
  <2> QED
    BY <1>4, <1>5, <1>6, <2>1
<1> QED
  BY <1>7, <1>8, <1>9, <1>10

LEMMA AddressesApart ==
  ASSUME NEW c \in Change, NEW v, Legal(c, v), NEW x \in Live(c, v), NEW y \in Live(c, v),
         NowIp(c, v, x) = NowIp(c, v, y)
  PROVE  x = y
<1>1. \A z \in Live(c, v) : z \in c.old \/ z \in v.added \/ z \in Extra(c)
  BY LiveKinds, SlotFacts
<1>2. ASSUME NEW z \in Live(c, v), z \in Extra(c)
      PROVE  NowIp(c, v, z) = SwapIp(c, v) /\ c.swap # None
  BY <1>2, LiveKinds, SlotFacts DEF NowIp
<1>3. ASSUME NEW z \in Live(c, v), z \notin Extra(c), c.swap # None
      PROVE  NowIp(c, v, z) # SwapIp(c, v)
  <2>1. /\ \A e \in c.old \cup c.new : e.ip # c.temp
        /\ \A e \in c.old : e.ip # c.swap.ip
        /\ \A e \in c.new : e.ip # c.old_ip
    BY <1>3, ChangeFacts DEF IsSwap
  <2>2. z \in c.old \cup c.new
    BY <1>1, <1>3, LiveKinds, SlotFacts
  <2>3. z \in v.moved => Twin(c, z) \in c.new
    BY <1>3, LiveKinds, TwinFacts
  <2>4. v.swap = 0 \/ v.swap = 1 \/ v.swap = 2
    BY DEF Legal
  <2>5. CASE v.swap = 0
    <3>1. v.moved = {} /\ v.added = {}
      BY <1>3, <2>5 DEF Legal
    <3>2. z \in c.old /\ NowIp(c, v, z) = z.ip
      BY <1>1, <1>3, <3>1 DEF NowIp
    <3> QED
      BY <2>1, <2>5, <3>2 DEF SwapIp
  <2>6. CASE v.swap = 1
    <3>1. SwapIp(c, v) = c.temp
      BY <2>6 DEF SwapIp
    <3> QED
      BY <1>3, <2>1, <2>2, <2>3, <3>1 DEF NowIp
  <2>7. CASE v.swap = 2
    <3>1. SwapIp(c, v) = c.old_ip
      BY <2>7 DEF SwapIp
    <3>2. v.gone = Gone(c) /\ v.moved = Moving(c)
      BY <1>3, <2>7 DEF Legal
    <3>3. z \in Kept(c) \/ z \in v.added
      BY <1>3, <3>2, LiveKinds
    <3>4. CASE z \in Kept(c)
      <4>1. NowIp(c, v, z) = Twin(c, z).ip /\ Twin(c, z) \in c.new
        BY <1>3, <3>2, <3>4, TwinFacts DEF NowIp, Moving
      <4> QED
        BY <2>1, <3>1, <4>1
    <3>5. CASE z \in v.added
      <4>1. z \in c.new /\ NowIp(c, v, z) = z.ip
        BY <3>5, LiveKinds, SlotFacts DEF NowIp
      <4> QED
        BY <2>1, <3>1, <4>1
    <3> QED
      BY <3>3, <3>4, <3>5
  <2> QED
    BY <2>4, <2>5, <2>6, <2>7
<1>4. ASSUME NEW a \in Live(c, v), a \in c.old, NEW b \in Live(c, v), b \in c.old,
             NowIp(c, v, a) = NowIp(c, v, b)
      PROVE  a = b
  <2>1. /\ (a \in v.moved => a \in Kept(c)) /\ (b \in v.moved => b \in Kept(c))
        /\ a \notin Extra(c) /\ b \notin Extra(c)
    BY <1>4, LiveKinds
  <2>2. CASE a \in v.moved /\ b \in v.moved
    BY <1>4, <2>1, <2>2, TwinNames DEF NowIp, Same
  <2>3. CASE a \in v.moved /\ b \notin v.moved
    BY <1>4, <2>1, <2>3, TwinNames DEF NowIp, Same
  <2>4. CASE a \notin v.moved /\ b \in v.moved
    BY <1>4, <2>1, <2>4, TwinNames DEF NowIp, Same
  <2>5. CASE a \notin v.moved /\ b \notin v.moved
    BY <1>4, <2>1, <2>5, TwinNames DEF NowIp, Same
  <2> QED
    BY <2>2, <2>3, <2>4, <2>5
<1>5. ASSUME NEW a \in Live(c, v), a \in c.old, NEW b \in Live(c, v), b \in v.added,
             NowIp(c, v, a) = NowIp(c, v, b)
      PROVE  FALSE
  <2>1. a \in Kept(c) /\ NowIp(c, v, a) = Twin(c, a).ip
    BY <1>5, Settled
  <2>2. b \in Fresh(c) /\ NowIp(c, v, b) = b.ip
    BY <1>5, LiveKinds DEF NowIp
  <2> QED
    BY <1>5, <2>1, <2>2, TwinNames DEF Same
<1>6. ASSUME NEW a \in Live(c, v), a \in v.added, NEW b \in Live(c, v), b \in v.added,
             NowIp(c, v, a) = NowIp(c, v, b)
      PROVE  a = b
  <2>1. /\ a \in Fresh(c) /\ NowIp(c, v, a) = a.ip
        /\ b \in Fresh(c) /\ NowIp(c, v, b) = b.ip
    BY <1>6, LiveKinds DEF NowIp
  <2> QED
    BY <1>6, <2>1, TwinNames DEF Same
<1>7. CASE x \in Extra(c) /\ y \in Extra(c)
  BY <1>7, SlotFacts
<1>8. CASE x \in Extra(c) /\ y \notin Extra(c)
  BY <1>2, <1>3, <1>8
<1>9. CASE x \notin Extra(c) /\ y \in Extra(c)
  BY <1>2, <1>3, <1>9
<1>10. CASE x \notin Extra(c) /\ y \notin Extra(c)
  <2>1. (x \in c.old \/ x \in v.added) /\ (y \in c.old \/ y \in v.added)
    BY <1>1, <1>10
  <2> QED
    BY <1>4, <1>5, <1>6, <2>1
<1> QED
  BY <1>7, <1>8, <1>9, <1>10

\* What an entry hangs on is there.
LEMMA PrimaryThere ==
  ASSUME NEW c \in Change, PrimaryStays(c), NEW v, Legal(c, v), NEW x \in Live(c, v),
         NowPrimary(c, v, x) # None
  PROVE  \E y \in Live(c, v) : NowFqdn(c, v, y) = NowPrimary(c, v, x)
<1>1. x \in c.old \/ x \in v.added \/ x \in Extra(c)
  BY LiveKinds, SlotFacts
<1>2. CASE x \in Extra(c)
  BY <1>2, LiveKinds, SlotFacts, PrimaryIs
<1>3. CASE x \in c.old
  <2>0. x.primary # None
    <3>1. SUFFICES ASSUME x.primary = None PROVE FALSE
      OBVIOUS
    <3>2. \A p \in v.named : p \in Entry
      BY SlotFacts DEF Legal
    <3>3. \A p \in v.named : p.fqdn # x.primary
      BY <3>1, <3>2, ChangeAssumption DEF Entry
    <3> QED
      BY <3>1, <3>3, PrimaryIs
  <2>1. PICK p \in c.old : p.fqdn = x.primary /\ p.primary = None
    BY <1>3, <2>0, ChangeFacts DEF IsSnapshot
  <2>2. p \in Live(c, v)
    <3>1. SUFFICES ASSUME p \in v.gone PROVE FALSE
      BY <2>1 DEF Live
    <3>2. p \in HasNone /\ p \in Gone(c)
      BY <2>1, <3>1, SlotFacts DEF HasNone, Legal
    <3>3. Gone(c) \cap HasPrimary \subseteq v.gone
      BY <3>1, <3>2 DEF Legal
    <3>4. x \notin v.gone
      BY <1>3, LiveKinds, SlotFacts DEF Legal
    <3>5. x \in HasPrimary
      BY <1>3, <2>0, SlotFacts DEF HasPrimary
    <3>6. x \in Kept(c)
      BY <1>3, <3>3, <3>4, <3>5, SlotFacts
    <3>7. PICK q \in Kept(c) : q.fqdn = x.primary
      BY <2>0, <3>6, TwinPrimary
    <3>8. q = p
      BY <2>1, <3>7, SlotFacts, TwinNames DEF Same
    <3> QED
      BY <3>2, <3>7, <3>8, SlotFacts
  <2>3. NowFqdn(c, v, p) = NowPrimary(c, v, x)
    <3>1. CASE p \in v.named
      BY <1>3, <2>1, <3>1, PrimaryIs DEF NowFqdn
    <3>2. CASE p \notin v.named
      <4>1. \A q \in v.named : q.fqdn # x.primary
        <5>1. SUFFICES ASSUME NEW q \in v.named, q.fqdn = x.primary PROVE FALSE
          OBVIOUS
        <5>2. q \in c.old
          BY SlotFacts DEF Legal
        <5> QED
          BY <2>1, <3>2, <5>1, <5>2, TwinNames DEF Same
      <4> QED
        BY <2>1, <3>2, <4>1, PrimaryIs DEF NowFqdn
    <3> QED
      BY <3>1, <3>2
  <2> QED
    BY <2>2, <2>3
<1>4. CASE x \in v.added
  <2>0. x \in c.new /\ x \in Fresh(c) /\ x \notin c.old
    BY <1>4, LiveKinds, SlotFacts
  <2>1. NowPrimary(c, v, x) = x.primary /\ x.primary # None
    BY <2>0, PrimaryIs
  <2>2. PICK q \in c.new : q.fqdn = x.primary /\ q.primary = None
    BY <2>0, <2>1, ChangeFacts DEF IsSnapshot
  <2>3. CASE q \in Fresh(c)
    <3>1. q \in HasNone /\ x \in HasPrimary
      BY <2>0, <2>1, <2>2, SlotFacts DEF HasNone, HasPrimary
    <3>2. q \in v.added
      BY <1>4, <2>3, <3>1 DEF Legal
    <3>3. q \in Live(c, v) /\ NowFqdn(c, v, q) = q.fqdn
      <4>1. q \in Live(c, v)
        BY <3>2 DEF Live
      <4>2. q \notin v.named
        BY <3>2, <4>1, LiveKinds
      <4> QED
        BY <4>1, <4>2 DEF NowFqdn
    <3> QED
      BY <2>1, <2>2, <3>3
  <2>4. CASE q \notin Fresh(c)
    <3>1. PICK e \in c.old : q \in Partner(c, e)
      BY <2>2, <2>4 DEF Fresh
    <3>2. e \in Kept(c)
      BY <3>1 DEF Kept
    <3>3. q = Twin(c, e)
      BY <3>1, <3>2, TwinFacts
    <3>4. e \in Live(c, v)
      BY <3>1, <3>2, SlotFacts DEF Live, Legal
    <3>5. NowFqdn(c, v, e) = Twin(c, e).fqdn
      BY <1>4, <3>1, <3>4, Settled
    <3> QED
      BY <2>1, <2>2, <3>3, <3>4, <3>5
  <2> QED
    BY <2>3, <2>4
<1> QED
  BY <1>1, <1>2, <1>3, <1>4

LEMMA PictureSound ==
  ASSUME NEW c \in Change, NEW v, Legal(c, v)
  PROVE  Sound(Picture(c, v))
<1> DEFINE r == Picture(c, v)
<1>1. r.slots = Live(c, v) /\ \A x \in Live(c, v) : r.now[x] = Now(c, v, x)
  BY DEF Picture
<1>2. \A x : /\ Now(c, v, x).fqdn = NowFqdn(c, v, x) /\ Now(c, v, x).ip = NowIp(c, v, x)
             /\ Now(c, v, x).primary = NowPrimary(c, v, x)
  BY DEF Now
<1> HIDE DEF r
<1>3. \A x \in r.slots : r.now[x] \in Entry
  BY <1>1, NowTyped
<1>4. \A x, y \in r.slots : Same(r.now[x], r.now[y]) => x = y
  BY <1>1, <1>2, NamesApart, AddressesApart DEF Same
<1> QED
  BY <1>3, <1>4 DEF Sound, r

LEMMA PictureRooted ==
  ASSUME NEW c \in Change, PrimaryStays(c), NEW v, Legal(c, v)
  PROVE  Rooted(Picture(c, v))
<1> DEFINE r == Picture(c, v)
<1>1. r.slots = Live(c, v) /\ \A x \in Live(c, v) : r.now[x] = Now(c, v, x)
  BY DEF Picture
<1>2. \A x : /\ Now(c, v, x).fqdn = NowFqdn(c, v, x)
             /\ Now(c, v, x).primary = NowPrimary(c, v, x)
  BY DEF Now
<1> HIDE DEF r
<1> SUFFICES ASSUME NEW x \in r.slots, Orphan(r, x) PROVE FALSE
  BY DEF Rooted, r
<1>3. x \in Live(c, v) /\ NowPrimary(c, v, x) # None
  BY <1>1, <1>2 DEF Orphan
<1>4. PICK y \in Live(c, v) : NowFqdn(c, v, y) = NowPrimary(c, v, x)
  BY <1>3, PrimaryThere
<1> QED
  BY <1>1, <1>2, <1>3, <1>4 DEF Orphan

-----------------------------------------------------------------------------
(* Each action moves between the pictures before and after it, and its       *)
(* rollback back.                                                           *)

LEMMA PictureIs ==
  ASSUME NEW c, NEW v
  PROVE  /\ Picture(c, v).slots = Live(c, v)
         /\ \A x \in Live(c, v) : Picture(c, v).now[x] = Now(c, v, x)
         /\ \A x : /\ Now(c, v, x).fqdn = NowFqdn(c, v, x)
                   /\ Now(c, v, x).ip = NowIp(c, v, x)
                   /\ Now(c, v, x).iface = (IF x \in v.named THEN Twin(c, x).iface ELSE x.iface)
                   /\ Now(c, v, x).mac = NowMac(c, v, x)
                   /\ Now(c, v, x).primary = NowPrimary(c, v, x)
  BY DEF Picture, Now

LEMMA EntryIs ==
  \A e \in Entry : e = [fqdn |-> e.fqdn, ip |-> e.ip, iface |-> e.iface, mac |-> e.mac,
                        primary |-> e.primary]
  BY DEF Entry

LEMMA AddressedIs ==
  ASSUME NEW f, NEW i, NEW j, NEW m, NEW p, NEW cmd
  PROVE  Addressed([fqdn |-> f, ip |-> i, iface |-> j, mac |-> m, primary |-> p], cmd)
           = [fqdn |-> f, ip |-> IF cmd.ip = None THEN i ELSE cmd.ip, iface |-> j,
              mac |-> IF cmd.mac = None THEN m ELSE cmd.mac, primary |-> p]
<1> DEFINE e == [fqdn |-> f, ip |-> i, iface |-> j, mac |-> m, primary |-> p]
           a == IF cmd.ip = None THEN i ELSE cmd.ip
           b == IF cmd.mac = None THEN m ELSE cmd.mac
           r == [e EXCEPT !.ip = a, !.mac = b]
           q == [fqdn |-> f, ip |-> a, iface |-> j, mac |-> b, primary |-> p]
           D == {"fqdn", "ip", "iface", "mac", "primary"}
<1>1. Addressed(e, cmd) = r
  BY Zenon DEF Addressed
<1> HIDE DEF a, b
<1>2. DOMAIN r = D /\ r = [x \in DOMAIN r |-> r[x]]
      /\ r.fqdn = f /\ r.ip = a /\ r.iface = j /\ r.mac = b /\ r.primary = p
  OBVIOUS
<1>3. DOMAIN q = D /\ q = [x \in DOMAIN q |-> q[x]]
      /\ q.fqdn = f /\ q.ip = a /\ q.iface = j /\ q.mac = b /\ q.primary = p
  OBVIOUS
<1> HIDE DEF r, q, e
<1>4. \A x \in D : r[x] = q[x]
  BY <1>2, <1>3
<1>5. r = q
  BY <1>2, <1>3, <1>4, Zenon
<1> QED
  BY <1>1, <1>5 DEF a, b, e, q

LEMMA RenamingIs ==
  ASSUME NEW f, NEW i, NEW j, NEW m, NEW p, NEW cmd
  PROVE  Hung(Renaming([fqdn |-> f, ip |-> i, iface |-> j, mac |-> m, primary |-> p], cmd), cmd)
           = [fqdn |-> cmd.new_fqdn, ip |-> i, iface |-> cmd.new_iface, mac |-> m,
              primary |-> IF p = cmd.fqdn THEN cmd.new_fqdn ELSE p]
<1> DEFINE e == [fqdn |-> f, ip |-> i, iface |-> j, mac |-> m, primary |-> p]
           a == cmd.new_fqdn
           b == cmd.new_iface
           h == IF p = cmd.fqdn THEN cmd.new_fqdn ELSE p
           r == [[e EXCEPT !.fqdn = a, !.iface = b] EXCEPT !.primary = h]
           q == [fqdn |-> a, ip |-> i, iface |-> b, mac |-> m, primary |-> h]
           D == {"fqdn", "ip", "iface", "mac", "primary"}
<1>1. Renaming(e, cmd) = [e EXCEPT !.fqdn = a, !.iface = b]
  BY Zenon DEF Renaming
<1>2. Renaming(e, cmd).primary = p
  BY <1>1
<1>3. Hung(Renaming(e, cmd), cmd) = [Renaming(e, cmd) EXCEPT !.primary = h]
  BY <1>2 DEF Hung
<1>4. Hung(Renaming(e, cmd), cmd) = r
  BY <1>1, <1>3, Zenon
<1> HIDE DEF a, b, h
<1>5. DOMAIN r = D /\ r = [x \in DOMAIN r |-> r[x]]
      /\ r.fqdn = a /\ r.ip = i /\ r.iface = b /\ r.mac = m /\ r.primary = h
  OBVIOUS
<1>6. DOMAIN q = D /\ q = [x \in DOMAIN q |-> q[x]]
      /\ q.fqdn = a /\ q.ip = i /\ q.iface = b /\ q.mac = m /\ q.primary = h
  OBVIOUS
<1> HIDE DEF r, q, e
<1>7. \A x \in D : r[x] = q[x]
  BY <1>5, <1>6
<1>8. r = q
  BY <1>5, <1>6, <1>7, Zenon
<1> QED
  BY <1>4, <1>8 DEF a, b, h, e, q

LEMMA HungIs ==
  ASSUME NEW f, NEW i, NEW j, NEW m, NEW p, NEW cmd
  PROVE  Hung([fqdn |-> f, ip |-> i, iface |-> j, mac |-> m, primary |-> p], cmd)
           = [fqdn |-> f, ip |-> i, iface |-> j, mac |-> m,
              primary |-> IF p = cmd.fqdn THEN cmd.new_fqdn ELSE p]
<1> DEFINE e == [fqdn |-> f, ip |-> i, iface |-> j, mac |-> m, primary |-> p]
           h == IF p = cmd.fqdn THEN cmd.new_fqdn ELSE p
<1>1. Hung(e, cmd) = [e EXCEPT !.primary = h]
  BY Zenon DEF Hung
<1> HIDE DEF h
<1>2. [e EXCEPT !.primary = h] = [fqdn |-> f, ip |-> i, iface |-> j, mac |-> m, primary |-> h]
  OBVIOUS
<1> QED
  BY <1>1, <1>2, Zenon DEF h

\* How the view changes with an action of each kind.
Deletes(c, v, w, e) ==
  /\ e \in Gone(c) \ v.gone /\ w.gone = v.gone \cup {e}
  /\ w.moved = v.moved /\ w.named = v.named /\ w.added = v.added /\ w.swap = v.swap

Addresses(c, v, w, e) ==
  /\ e \in Moving(c) \ v.moved /\ w.moved = v.moved \cup {e}
  /\ w.gone = v.gone /\ w.named = v.named /\ w.added = v.added /\ w.swap = v.swap

Names(c, v, w, e) ==
  /\ e \in Naming(c) \ v.named /\ w.named = v.named \cup {e}
  /\ w.gone = v.gone /\ w.moved = v.moved /\ w.added = v.added /\ w.swap = v.swap

Adds(c, v, w, n) ==
  /\ n \in Fresh(c) \ v.added /\ w.added = v.added \cup {n}
  /\ w.gone = v.gone /\ w.moved = v.moved /\ w.named = v.named /\ w.swap = v.swap

LEMMA DeleteMoves ==
  ASSUME NEW c \in Change, NEW v, Legal(c, v), NEW w, Legal(c, w), NEW e, Deletes(c, v, w, e)
  PROVE  /\ Moves(Picture(c, v), DeleteHostDetails(e).command, Picture(c, w), e)
         /\ Moves(Picture(c, w), DeleteHostDetails(e).rollback, Picture(c, v), e)
         /\ Told(DeleteHostDetails(e).command)
         /\ DeleteHostDetails(e).ignorable = TRUE
         /\ DeleteHostDetails(e).command.op = "delete_host"
<1> USE DEF Deletes
<1>1. v.moved = {} /\ v.named = {} /\ v.added = {}
  BY DEF Legal
<1>2. e \in c.old /\ e \in Entry /\ e \notin Extra(c)
  BY SlotFacts
<1>3. e \in Live(c, v) /\ e \notin Live(c, w) /\ Live(c, w) = Live(c, v) \ {e}
  BY <1>1, <1>2 DEF Live
<1>4. Now(c, v, e) = e
  <2>1. /\ NowFqdn(c, v, e) = e.fqdn /\ NowIp(c, v, e) = e.ip /\ NowMac(c, v, e) = e.mac
        /\ NowPrimary(c, v, e) = e.primary
    BY <1>1, <1>2 DEF NowFqdn, NowIp, NowMac, NowPrimary
  <2> QED
    BY <1>1, <1>2, <2>1, EntryIs DEF Now
<1>5. \A y : Now(c, w, y) = Now(c, v, y)
  BY Zenon DEF Now, NowFqdn, NowIp, NowMac, NowPrimary, SwapIp
<1>6. /\ DeleteHostDetails(e).command = [op |-> "delete_host", ip |-> e.ip]
      /\ DeleteHostDetails(e).rollback = [op |-> "add_host", entry |-> e]
      /\ DeleteHostDetails(e).ignorable = TRUE
  BY DEF DeleteHostDetails, Action, DeleteHost, AddHost
<1>7. Drops(Picture(c, v), DeleteHostDetails(e).command, Picture(c, w), e)
  BY <1>3, <1>4, <1>5, <1>6, PictureIs DEF Drops
<1>8. Joins(Picture(c, w), DeleteHostDetails(e).rollback, Picture(c, v), e)
  BY <1>3, <1>4, <1>5, <1>6, PictureIs DEF Joins
<1> QED
  BY <1>6, <1>7, <1>8 DEF Moves, Told

LEMMA AddMoves ==
  ASSUME NEW c \in Change, NEW v, Legal(c, v), NEW w, Legal(c, w), NEW n, Adds(c, v, w, n)
  PROVE  /\ Moves(Picture(c, v), AddHostDetails(n).command, Picture(c, w), n)
         /\ Moves(Picture(c, w), AddHostDetails(n).rollback, Picture(c, v), n)
         /\ Told(AddHostDetails(n).command)
         /\ AddHostDetails(n).ignorable = FALSE
         /\ n \notin Full(c)
<1> USE DEF Adds
<1>1. n \notin c.old /\ n \in Entry /\ n \notin Extra(c)
  BY SlotFacts
<1>2. n \notin Live(c, v) /\ n \in Live(c, w) /\ Live(c, w) = Live(c, v) \cup {n}
  BY <1>1 DEF Live
<1>3. Now(c, w, n) = n
  <2>1. n \notin w.named /\ n \notin w.moved
    BY <1>1, SlotFacts DEF Legal
  <2>2. /\ NowFqdn(c, w, n) = n.fqdn /\ NowIp(c, w, n) = n.ip /\ NowMac(c, w, n) = n.mac
        /\ NowPrimary(c, w, n) = n.primary
    BY <1>1, <2>1 DEF NowFqdn, NowIp, NowMac, NowPrimary
  <2> QED
    BY <1>1, <2>1, <2>2, EntryIs DEF Now
<1>4. \A y : Now(c, w, y) = Now(c, v, y)
  BY Zenon DEF Now, NowFqdn, NowIp, NowMac, NowPrimary, SwapIp
<1>5. /\ AddHostDetails(n).command = [op |-> "add_host", entry |-> n]
      /\ AddHostDetails(n).rollback = [op |-> "delete_host", ip |-> n.ip]
      /\ AddHostDetails(n).ignorable = FALSE
  BY DEF AddHostDetails, Action, DeleteHost, AddHost
<1>6. Joins(Picture(c, v), AddHostDetails(n).command, Picture(c, w), n)
  BY <1>2, <1>3, <1>4, <1>5, PictureIs DEF Joins
<1>7. Drops(Picture(c, w), AddHostDetails(n).rollback, Picture(c, v), n)
  BY <1>2, <1>3, <1>4, <1>5, PictureIs DEF Drops
<1>8. n \notin Full(c)
  BY <1>1 DEF Full, Extra
<1> QED
  BY <1>5, <1>6, <1>7, <1>8 DEF Moves, Told

\* A change of an entry that is not its name.
LEMMA AddrParts ==
  ASSUME NEW c \in Change, NEW e \in Kept(c)
  PROVE  LET n == Twin(c, e)
             remac == n.mac \notin {None, e.mac}
             cmd == Addr(c, e).command
             rb == Addr(c, e).rollback
         IN  /\ cmd.op = "update_aqd_host" /\ cmd.fqdn = e.fqdn /\ cmd.iface = e.iface
             /\ cmd.ip = (IF n.ip # e.ip THEN n.ip ELSE None)
             /\ cmd.mac = (IF remac THEN n.mac ELSE None)
             /\ rb.op = "update_aqd_host" /\ rb.fqdn = e.fqdn /\ rb.iface = e.iface
             /\ rb.ip = (IF n.ip # e.ip THEN e.ip ELSE None)
             /\ rb.mac = (IF ~ remac THEN None ELSE IF e.mac = None THEN TextNone ELSE e.mac)
             /\ Addr(c, e).ignorable = FALSE
  BY DEF Addr, UpdateHostDetails, UpdateHost, Action

LEMMA AddrMoves ==
  ASSUME NEW c \in Change, NEW v, Legal(c, v), NEW w, Legal(c, w), NEW e, Addresses(c, v, w, e)
  PROVE  /\ Moves(Picture(c, v), Addr(c, e).command, Picture(c, w), e)
         /\ Moves(Picture(c, w), Addr(c, e).rollback, Picture(c, v), e)
         /\ Told(Addr(c, e).command)
         /\ Addr(c, e).ignorable = FALSE
         /\ Addr(c, e).command.op = "update_aqd_host"
<1> USE DEF Addresses
<1> DEFINE n == Twin(c, e)
           cmd == Addr(c, e).command
           rb == Addr(c, e).rollback
<1>1. v.named = {} /\ w.named = {}
  BY DEF Legal
<1>2. e \in Kept(c) /\ e \in c.old /\ e \in Entry /\ e \notin Extra(c) /\ n \in Entry
  BY SlotFacts, TwinFacts
<1>3. Live(c, w) = Live(c, v) /\ e \in Live(c, v)
  BY <1>2, SlotFacts DEF Live, Legal
<1>4. /\ NowFqdn(c, v, e) = e.fqdn /\ NowIp(c, v, e) = e.ip /\ NowMac(c, v, e) = e.mac
      /\ NowFqdn(c, w, e) = e.fqdn /\ NowIp(c, w, e) = n.ip
      /\ NowMac(c, w, e) = (IF n.mac # None THEN n.mac ELSE e.mac)
      /\ NowPrimary(c, v, e) = e.primary /\ NowPrimary(c, w, e) = e.primary
  BY <1>1, <1>2 DEF NowFqdn, NowIp, NowMac, NowPrimary
<1>5. /\ Now(c, v, e) = [fqdn |-> e.fqdn, ip |-> e.ip, iface |-> e.iface, mac |-> e.mac,
                         primary |-> e.primary]
      /\ Now(c, w, e) = [fqdn |-> e.fqdn, ip |-> n.ip, iface |-> e.iface,
                         mac |-> IF n.mac # None THEN n.mac ELSE e.mac,
                         primary |-> e.primary]
  BY <1>1, <1>4 DEF Now
<1>6. ASSUME NEW y \in Live(c, v) \ {e} PROVE Now(c, w, y) = Now(c, v, y)
  <2>1. y \in w.moved <=> y \in v.moved
    OBVIOUS
  <2>2. NowFqdn(c, w, y) = NowFqdn(c, v, y) /\ NowPrimary(c, w, y) = NowPrimary(c, v, y)
    BY DEF NowFqdn, NowPrimary
  <2>3. NowIp(c, w, y) = NowIp(c, v, y) /\ NowMac(c, w, y) = NowMac(c, v, y)
    BY <2>1 DEF NowIp, NowMac, SwapIp
  <2> QED
    BY <2>2, <2>3 DEF Now
<1>7. /\ cmd.op = "update_aqd_host" /\ cmd.fqdn = e.fqdn /\ cmd.iface = e.iface
      /\ cmd.ip = (IF n.ip # e.ip THEN n.ip ELSE None)
      /\ cmd.mac = (IF n.mac \notin {None, e.mac} THEN n.mac ELSE None)
      /\ rb.op = "update_aqd_host" /\ rb.fqdn = e.fqdn /\ rb.iface = e.iface
      /\ rb.ip = (IF n.ip # e.ip THEN e.ip ELSE None)
      /\ rb.mac = (IF ~ n.mac \notin {None, e.mac} THEN None
                   ELSE IF e.mac = None THEN TextNone ELSE e.mac)
      /\ Addr(c, e).ignorable = FALSE
  BY <1>2, AddrParts
<1>8. /\ n.ip \in Ip /\ e.ip \in Ip /\ None \notin Ip
      /\ n.mac \in Mac \cup {None} /\ e.mac \in Mac \cup {None} /\ None \notin Mac
      /\ TextNone \notin Mac /\ TextNone # None
  BY <1>2, ChangeAssumption DEF Entry
<1> HIDE DEF n, cmd, rb
<1>9. Told(cmd)
  BY <1>7, <1>8 DEF Told
<1>10. Now(c, w, e) = Addressed(Now(c, v, e), cmd)
  <2>1. /\ (IF cmd.ip = None THEN e.ip ELSE cmd.ip) = n.ip
        /\ (IF cmd.mac = None THEN e.mac ELSE cmd.mac)
             = (IF n.mac # None THEN n.mac ELSE e.mac)
    BY <1>7, <1>8
  <2> QED
    BY <1>5, <2>1, AddressedIs
<1>11. rb.mac # TextNone => Now(c, v, e) = Addressed(Now(c, w, e), rb)
  <2> SUFFICES ASSUME rb.mac # TextNone PROVE Now(c, v, e) = Addressed(Now(c, w, e), rb)
    OBVIOUS
  <2>1. (IF rb.ip = None THEN n.ip ELSE rb.ip) = e.ip
    BY <1>7, <1>8
  <2>2. (IF rb.mac = None THEN (IF n.mac # None THEN n.mac ELSE e.mac) ELSE rb.mac) = e.mac
    BY <1>7, <1>8
  <2> QED
    BY <1>5, <2>1, <2>2, AddressedIs
<1>12. Edits(Picture(c, v), cmd, Picture(c, w), e)
  <2>1. Finds(Picture(c, v), cmd, e)
    BY <1>3, <1>5, <1>7, PictureIs DEF Finds
  <2> QED
    BY <1>3, <1>6, <1>7, <1>10, <2>1, PictureIs DEF Edits
<1>13. Edits(Picture(c, w), rb, Picture(c, v), e)
  <2>1. Finds(Picture(c, w), rb, e)
    BY <1>3, <1>5, <1>7, PictureIs DEF Finds
  <2> QED
    BY <1>3, <1>6, <1>7, <1>11, <2>1, PictureIs DEF Edits
<1> QED
  BY <1>7, <1>9, <1>12, <1>13 DEF Moves, cmd, rb

LEMMA NamePrimary ==
  ASSUME NEW c \in Change, NEW v, Legal(c, v), NEW w, Legal(c, w), NEW e \in Naming(c) \ v.named,
         w.named = v.named \cup {e}, NEW y \in c.old \cup Extra(c)
  PROVE  LET n == Twin(c, e)
             p == NowPrimary(c, v, y)
             q == NowPrimary(c, w, y)
         IN  q = (IF p = e.fqdn THEN n.fqdn ELSE p) /\ p = (IF q = n.fqdn THEN e.fqdn ELSE q)
<1> DEFINE n == Twin(c, e)
           p == NowPrimary(c, v, y)
           q == NowPrimary(c, w, y)
<1>1. e \in Kept(c) /\ e \in c.old /\ e \in Entry /\ n \in Entry
  BY SlotFacts, TwinFacts
<1>2. e.fqdn # None /\ n.fqdn # None
  BY <1>1, ChangeAssumption DEF Entry
<1>3. v.named \subseteq Kept(c) /\ w.named \subseteq Kept(c) /\ Kept(c) \subseteq c.old
  BY SlotFacts DEF Legal
<1>4. CASE y \in Extra(c)
  <2>1. y.primary = None /\ y \notin c.old
    BY <1>4, SlotFacts
  <2>2. p = None /\ q = None
    BY <2>1, PrimaryIs
  <2> QED
    BY <1>2, <2>2
<1>5. CASE y \in c.old /\ y.primary = e.fqdn
  <2>1. \A o \in v.named : o.fqdn # e.fqdn
    BY <1>1, <1>3, TwinNames DEF Same
  <2>2. p = e.fqdn
    BY <1>5, <2>1, PrimaryIs
  <2>3. q = n.fqdn
    BY <1>5, PrimaryIs
  <2> QED
    BY <2>2, <2>3
<1>6. CASE y \in c.old /\ y.primary # e.fqdn
  <2>1. CASE \E o \in v.named : o.fqdn = y.primary
    <3>1. PICK o \in v.named : o.fqdn = y.primary
      BY <2>1
    <3>2. p = Twin(c, o).fqdn /\ q = Twin(c, o).fqdn
      BY <1>6, <3>1, PrimaryIs
    <3>3. o \in Kept(c) /\ o # e
      BY <1>3
    <3>4. Twin(c, o).fqdn # e.fqdn
      BY <1>1, <3>3, TwinNames DEF Same
    <3>5. Twin(c, o).fqdn # n.fqdn
      BY <1>1, <3>3, TwinNames DEF Same
    <3> QED
      BY <3>2, <3>4, <3>5
  <2>2. CASE \A o \in v.named : o.fqdn # y.primary
    <3>1. \A o \in w.named : o.fqdn # y.primary
      BY <1>6, <2>2
    <3>2. p = y.primary /\ q = y.primary
      BY <2>2, <3>1, PrimaryIs
    <3>3. y.primary # n.fqdn
      <4>1. SUFFICES ASSUME y.primary = n.fqdn PROVE FALSE
        OBVIOUS
      <4>2. PICK o \in c.old : o.fqdn = y.primary
        BY <1>2, <1>6, <4>1, ChangeFacts DEF IsSnapshot
      <4>3. o = e
        BY <1>1, <4>1, <4>2, TwinNames DEF Same
      <4> QED
        BY <1>6, <4>2, <4>3
    <3> QED
      BY <1>6, <3>2, <3>3
  <2> QED
    BY <2>1, <2>2
<1> QED
  BY <1>4, <1>5, <1>6

LEMMA NameMoves ==
  ASSUME NEW c \in Change, NEW v, Legal(c, v), NEW w, Legal(c, w), NEW e, Names(c, v, w, e)
  PROVE  /\ Moves(Picture(c, v), Name(c, e).command, Picture(c, w), e)
         /\ Moves(Picture(c, w), Name(c, e).rollback, Picture(c, v), e)
         /\ Told(Name(c, e).command)
         /\ Name(c, e).ignorable = FALSE
         /\ Name(c, e).command.op = "rename"
<1> USE DEF Names
<1> DEFINE n == Twin(c, e)
           cmd == Name(c, e).command
           rb == Name(c, e).rollback
           V == Live(c, v)
<1>1. v.added = {} /\ w.added = {}
  BY DEF Legal
<1>2. e \in Kept(c) /\ e \in c.old /\ e \in Entry /\ e \notin Extra(c) /\ n \in Entry
  BY SlotFacts, TwinFacts
<1>3. Live(c, w) = V /\ e \in V /\ V \subseteq c.old \cup Extra(c)
  BY <1>1, <1>2, SlotFacts DEF Live, Legal
<1>4. /\ cmd.op = "rename" /\ cmd.fqdn = e.fqdn /\ cmd.iface = e.iface
      /\ cmd.new_fqdn = n.fqdn /\ cmd.new_iface = n.iface
      /\ rb.op = "rename" /\ rb.fqdn = n.fqdn /\ rb.iface = n.iface
      /\ rb.new_fqdn = e.fqdn /\ rb.new_iface = e.iface
      /\ Name(c, e).ignorable = FALSE
  BY DEF Name, UpdateHostIfaceName, RenameHost, Action
<1>5. ASSUME NEW y \in V
      PROVE  LET p == NowPrimary(c, v, y)
                 q == NowPrimary(c, w, y)
             IN  q = (IF p = e.fqdn THEN n.fqdn ELSE p) /\ p = (IF q = n.fqdn THEN e.fqdn ELSE q)
  <2>1. y \in c.old \cup Extra(c)
    BY <1>3
  <2> QED
    BY <2>1, NamePrimary
<1>6. ASSUME NEW y \in V
      PROVE  /\ NowIp(c, w, y) = NowIp(c, v, y) /\ NowMac(c, w, y) = NowMac(c, v, y)
             /\ y # e => NowFqdn(c, w, y) = NowFqdn(c, v, y) /\ (y \in w.named) = (y \in v.named)
  BY DEF NowIp, NowMac, NowFqdn, SwapIp
<1>7. NowFqdn(c, v, e) = e.fqdn /\ NowFqdn(c, w, e) = n.fqdn
  BY DEF NowFqdn
<1> HIDE DEF n, cmd, rb, V
<1>8. ASSUME NEW y \in V \ {e}
      PROVE  Now(c, w, y) = Hung(Now(c, v, y), cmd) /\ Now(c, v, y) = Hung(Now(c, w, y), rb)
  <2> DEFINE f == NowFqdn(c, v, y)
             i == NowIp(c, v, y)
             j == IF y \in v.named THEN Twin(c, y).iface ELSE y.iface
             m == NowMac(c, v, y)
             p == NowPrimary(c, v, y)
             q == NowPrimary(c, w, y)
  <2>1. /\ Now(c, v, y) = [fqdn |-> f, ip |-> i, iface |-> j, mac |-> m, primary |-> p]
        /\ Now(c, w, y) = [fqdn |-> f, ip |-> i, iface |-> j, mac |-> m, primary |-> q]
    BY <1>6 DEF Now
  <2>2. /\ q = (IF p = cmd.fqdn THEN cmd.new_fqdn ELSE p)
        /\ p = (IF q = rb.fqdn THEN rb.new_fqdn ELSE q)
    BY <1>4, <1>5
  <2> HIDE DEF f, i, j, m, p, q
  <2> QED
    BY <2>1, <2>2, HungIs
<1>9. /\ Now(c, w, e) = Hung(Renaming(Now(c, v, e), cmd), cmd)
      /\ Now(c, v, e) = Hung(Renaming(Now(c, w, e), rb), rb)
  <2> DEFINE i == NowIp(c, v, e)
             m == NowMac(c, v, e)
             p == NowPrimary(c, v, e)
             q == NowPrimary(c, w, e)
  <2>1. /\ Now(c, v, e) = [fqdn |-> e.fqdn, ip |-> i, iface |-> e.iface, mac |-> m, primary |-> p]
        /\ Now(c, w, e) = [fqdn |-> n.fqdn, ip |-> i, iface |-> n.iface, mac |-> m, primary |-> q]
    BY <1>3, <1>6, <1>7 DEF Now, n
  <2>2. /\ q = (IF p = cmd.fqdn THEN cmd.new_fqdn ELSE p)
        /\ p = (IF q = rb.fqdn THEN rb.new_fqdn ELSE q)
    BY <1>3, <1>4, <1>5
  <2> HIDE DEF i, m, p, q
  <2>3. Hung(Renaming(Now(c, v, e), cmd), cmd)
          = [fqdn |-> cmd.new_fqdn, ip |-> i, iface |-> cmd.new_iface, mac |-> m,
             primary |-> IF p = cmd.fqdn THEN cmd.new_fqdn ELSE p]
    BY <2>1, RenamingIs
  <2>4. Hung(Renaming(Now(c, w, e), rb), rb)
          = [fqdn |-> rb.new_fqdn, ip |-> i, iface |-> rb.new_iface, mac |-> m,
             primary |-> IF q = rb.fqdn THEN rb.new_fqdn ELSE q]
    BY <2>1, RenamingIs
  <2> QED
    BY <1>4, <2>1, <2>2, <2>3, <2>4
<1>10. /\ Picture(c, v).slots = V /\ Picture(c, w).slots = V
       /\ \A y \in V : Picture(c, v).now[y] = Now(c, v, y) /\ Picture(c, w).now[y] = Now(c, w, y)
  BY <1>3, PictureIs DEF V
<1>11. /\ Now(c, v, e).fqdn = e.fqdn /\ Now(c, v, e).iface = e.iface
       /\ Now(c, w, e).fqdn = n.fqdn /\ Now(c, w, e).iface = n.iface
  <2>1. e \notin v.named /\ e \in w.named
    OBVIOUS
  <2>2. Now(c, v, e).iface = e.iface /\ Now(c, w, e).iface = n.iface
    BY <2>1 DEF Now, n
  <2>3. Now(c, v, e).fqdn = NowFqdn(c, v, e) /\ Now(c, w, e).fqdn = NowFqdn(c, w, e)
    BY DEF Now
  <2> QED
    BY <1>7, <2>2, <2>3
<1> DEFINE r == Picture(c, v)
           s == Picture(c, w)
<1> HIDE DEF r, s
<1>12. /\ r.slots = V /\ s.slots = V
       /\ r.now[e] = Now(c, v, e) /\ s.now[e] = Now(c, w, e)
       /\ \A y \in V \ {e} : s.now[y] = Hung(r.now[y], cmd) /\ r.now[y] = Hung(s.now[y], rb)
  BY <1>3, <1>8, <1>10 DEF r, s
<1>13. Renames(r, cmd, s, e)
  <2>1. Finds(r, cmd, e)
    BY <1>3, <1>4, <1>11, <1>12 DEF Finds
  <2> QED
    BY <1>4, <1>9, <1>12, <2>1 DEF Renames
<1>14. Renames(s, rb, r, e)
  <2>1. Finds(s, rb, e)
    BY <1>3, <1>4, <1>11, <1>12 DEF Finds
  <2> QED
    BY <1>4, <1>9, <1>12, <2>1 DEF Renames
<1> QED
  BY <1>4, <1>13, <1>14 DEF Moves, Told, cmd, rb, r, s

LEMMA SwapMoves ==
  ASSUME NEW c \in Change, c.swap # None, NEW v, Legal(c, v), NEW w, Legal(c, w),
         w.gone = v.gone, w.moved = v.moved, w.named = v.named, w.added = v.added,
         NEW a, \/ v.swap = 0 /\ w.swap = 1 /\ a = Park(c)
                \/ v.swap = 1 /\ w.swap = 2 /\ a = Unpark(c)
  PROVE  /\ Moves(Picture(c, v), a.command, Picture(c, w), c.swap)
         /\ Moves(Picture(c, w), a.rollback, Picture(c, v), c.swap)
         /\ Told(a.command)
         /\ a.ignorable = FALSE
         /\ a.command.op = "update_aqd_host"
<1> DEFINE x == c.swap
           cmd == a.command
           rb == a.rollback
           V == Live(c, v)
<1>1. x \in Extra(c) /\ Live(c, w) = V /\ x \in V
  BY DEF Live, Extra
<1>2. /\ x \notin v.named /\ x \notin v.moved /\ x \notin c.old /\ x.iface = None
      /\ None \notin Ip /\ TextNone # None
      /\ SwapIp(c, v) \in Ip /\ SwapIp(c, w) \in Ip
  <2>1. x \notin v.named /\ x \notin v.moved /\ x \notin c.old
    BY <1>1, LiveKinds
  <2>2. x.iface = None /\ x.ip \in Ip /\ c.temp \in Ip /\ c.old_ip \in Ip
    BY ChangeFacts DEF IsSwap, Entry
  <2> QED
    BY <2>1, <2>2, ChangeAssumption DEF SwapIp
<1>3. /\ cmd.op = "update_aqd_host" /\ cmd.fqdn = x.fqdn /\ cmd.iface = None
      /\ cmd.ip = SwapIp(c, w) /\ cmd.mac = None
      /\ rb.op = "update_aqd_host" /\ rb.fqdn = x.fqdn /\ rb.iface = None
      /\ rb.ip = SwapIp(c, v) /\ rb.mac = None
      /\ a.ignorable = FALSE
  <2>1. CASE v.swap = 0 /\ w.swap = 1 /\ a = Park(c)
    <3>1. SwapIp(c, v) = c.swap.ip /\ SwapIp(c, w) = c.temp
      BY <2>1 DEF SwapIp
    <3>2. /\ Park(c).command = [op |-> "update_aqd_host", fqdn |-> c.swap.fqdn, iface |-> None,
                               ip |-> c.temp, mac |-> None]
          /\ Park(c).rollback = [op |-> "update_aqd_host", fqdn |-> c.swap.fqdn, iface |-> None,
                                 ip |-> c.swap.ip, mac |-> None]
          /\ Park(c).ignorable = FALSE
      BY SwapActions
    <3> QED
      BY <2>1, <3>1, <3>2
  <2>2. CASE v.swap = 1 /\ w.swap = 2 /\ a = Unpark(c)
    <3>1. SwapIp(c, v) = c.temp /\ SwapIp(c, w) = c.old_ip
      BY <2>2 DEF SwapIp
    <3>2. /\ Unpark(c).command = [op |-> "update_aqd_host", fqdn |-> c.swap.fqdn, iface |-> None,
                                 ip |-> c.old_ip, mac |-> None]
          /\ Unpark(c).rollback = [op |-> "update_aqd_host", fqdn |-> c.swap.fqdn,
                                   iface |-> None, ip |-> c.temp, mac |-> None]
          /\ Unpark(c).ignorable = FALSE
      BY SwapActions
    <3> QED
      BY <2>2, <3>1, <3>2
  <2> QED
    BY <2>1, <2>2
<1>4. /\ Now(c, v, x) = [fqdn |-> x.fqdn, ip |-> SwapIp(c, v), iface |-> x.iface, mac |-> x.mac,
                         primary |-> x.primary]
      /\ Now(c, w, x) = [fqdn |-> x.fqdn, ip |-> SwapIp(c, w), iface |-> x.iface, mac |-> x.mac,
                         primary |-> x.primary]
  BY <1>1, <1>2 DEF Now, NowFqdn, NowIp, NowMac, NowPrimary
<1>5. ASSUME NEW y \in V \ {x} PROVE Now(c, w, y) = Now(c, v, y)
  <2>1. y \notin Extra(c)
    BY DEF Extra
  <2>2. NowFqdn(c, w, y) = NowFqdn(c, v, y) /\ NowPrimary(c, w, y) = NowPrimary(c, v, y)
    BY DEF NowFqdn, NowPrimary
  <2>3. NowIp(c, w, y) = NowIp(c, v, y) /\ NowMac(c, w, y) = NowMac(c, v, y)
    BY <2>1 DEF NowIp, NowMac
  <2> QED
    BY <2>2, <2>3 DEF Now
<1> HIDE DEF x, cmd, rb, V
<1>6. Now(c, w, x) = Addressed(Now(c, v, x), cmd) /\ Now(c, v, x) = Addressed(Now(c, w, x), rb)
  <2>1. /\ (IF cmd.ip = None THEN SwapIp(c, v) ELSE cmd.ip) = SwapIp(c, w)
        /\ (IF rb.ip = None THEN SwapIp(c, w) ELSE rb.ip) = SwapIp(c, v)
        /\ (IF cmd.mac = None THEN x.mac ELSE cmd.mac) = x.mac
        /\ (IF rb.mac = None THEN x.mac ELSE rb.mac) = x.mac
    BY <1>2, <1>3
  <2> QED
    BY <1>4, <2>1, AddressedIs
<1>7. /\ Picture(c, v).slots = V /\ Picture(c, w).slots = V
      /\ \A y \in V : Picture(c, v).now[y] = Now(c, v, y) /\ Picture(c, w).now[y] = Now(c, w, y)
  BY <1>1, PictureIs DEF V
<1>8. Now(c, v, x).fqdn = x.fqdn /\ Now(c, w, x).fqdn = x.fqdn
  BY <1>4
<1> DEFINE r == Picture(c, v)
           s == Picture(c, w)
<1> HIDE DEF r, s
<1>12. /\ r.slots = V /\ s.slots = V /\ x \in V
       /\ r.now[x] = Now(c, v, x) /\ s.now[x] = Now(c, w, x)
       /\ \A y \in V \ {x} : s.now[y] = r.now[y]
  BY <1>1, <1>5, <1>7 DEF r, s, x
<1>13. Finds(r, cmd, x) /\ Finds(s, rb, x)
  BY <1>3, <1>8, <1>12 DEF Finds
<1>9. Edits(r, cmd, s, x)
  BY <1>3, <1>6, <1>12, <1>13 DEF Edits
<1>10. Edits(s, rb, r, x)
  BY <1>3, <1>6, <1>12, <1>13 DEF Edits
<1>11. Told(cmd)
  BY <1>2, <1>3 DEF Told
<1> QED
  BY <1>3, <1>9, <1>10, <1>11 DEF Moves, x, cmd, rb, r, s

-----------------------------------------------------------------------------
(* The view that belongs to a set of actions in effect, and the route of a   *)
(* plan.                                                                    *)

ViewOf(c, E) ==
  [gone  |-> {e \in Gone(c) : DeleteHostDetails(e) \in E},
   moved |-> {e \in Moving(c) : Addr(c, e) \in E},
   named |-> {e \in Naming(c) : Name(c, e) \in E},
   added |-> {n \in Fresh(c) : AddHostDetails(n) \in E},
   swap  |-> IF c.swap # None /\ Unpark(c) \in E THEN 2
             ELSE IF c.swap # None /\ Park(c) \in E THEN 1 ELSE 0]

\* No action is in effect before those of the stages before it.
InOrder(c, E) ==
  \A s, t \in 0..7 : s < t /\ Stage(c, t) \cap E # {} => Stage(c, s) \subseteq E

LEMMA ViewIs ==
  ASSUME NEW c, NEW E
  PROVE  /\ ViewOf(c, E).gone = {e \in Gone(c) : DeleteHostDetails(e) \in E}
         /\ ViewOf(c, E).moved = {e \in Moving(c) : Addr(c, e) \in E}
         /\ ViewOf(c, E).named = {e \in Naming(c) : Name(c, e) \in E}
         /\ ViewOf(c, E).added = {n \in Fresh(c) : AddHostDetails(n) \in E}
         /\ ViewOf(c, E).swap = (IF c.swap # None /\ Unpark(c) \in E THEN 2
                                 ELSE IF c.swap # None /\ Park(c) \in E THEN 1 ELSE 0)
  BY DEF ViewOf

LEMMA StageOf ==
  ASSUME NEW c \in Change
  PROVE  /\ \A e \in Gone(c) : /\ e \in HasPrimary => DeleteHostDetails(e) \in Stage(c, 1)
                               /\ e \in HasNone => DeleteHostDetails(e) \in Stage(c, 2)
                               /\ e \in HasPrimary \/ e \in HasNone
         /\ \A e \in Moving(c) : Addr(c, e) \in Stage(c, 3)
         /\ \A e \in Naming(c) : Name(c, e) \in Stage(c, 4)
         /\ \A n \in Fresh(c) : /\ n \in HasNone => AddHostDetails(n) \in Stage(c, 5)
                                /\ n \in HasPrimary => AddHostDetails(n) \in Stage(c, 6)
                                /\ n \in HasPrimary \/ n \in HasNone
         /\ c.swap # None => Stage(c, 0) = {Park(c)} /\ Stage(c, 7) = {Unpark(c)}
         /\ c.swap = None => Stage(c, 0) = {} /\ Stage(c, 7) = {}
<1>1. Gone(c) \subseteq Entry /\ Fresh(c) \subseteq Entry
  BY SlotFacts
<1>2. \A e \in Entry : e \in HasPrimary \/ e \in HasNone
  BY DEF HasPrimary, HasNone
<1>3. \A e \in Gone(c) : /\ e \in HasPrimary => DeleteHostDetails(e) \in Stage(c, 1)
                         /\ e \in HasNone => DeleteHostDetails(e) \in Stage(c, 2)
  <2> DEFINE A == Gone(c) \cap HasPrimary
             B == Gone(c) \cap HasNone
  <2>1. Stage(c, 1) = Deletions(A) /\ Stage(c, 2) = Deletions(B)
    BY StageIs
  <2>2. \A e \in Gone(c) : (e \in HasPrimary => e \in A) /\ (e \in HasNone => e \in B)
    OBVIOUS
  <2> HIDE DEF A, B
  <2> QED
    BY <2>1, <2>2 DEF Deletions
<1>4. \A e \in Moving(c) : Addr(c, e) \in Stage(c, 3)
  BY StageIs DEF AddrOf
<1>5. \A e \in Naming(c) : Name(c, e) \in Stage(c, 4)
  BY StageIs DEF NameOf
<1>6. \A n \in Fresh(c) : /\ n \in HasNone => AddHostDetails(n) \in Stage(c, 5)
                          /\ n \in HasPrimary => AddHostDetails(n) \in Stage(c, 6)
  <2> DEFINE A == Fresh(c) \cap HasPrimary
             B == Fresh(c) \cap HasNone
  <2>1. Stage(c, 5) = Additions(B) /\ Stage(c, 6) = Additions(A)
    BY StageIs
  <2>2. \A n \in Fresh(c) : (n \in HasPrimary => n \in A) /\ (n \in HasNone => n \in B)
    OBVIOUS
  <2> HIDE DEF A, B
  <2> QED
    BY <2>1, <2>2 DEF Additions
<1>7. /\ c.swap # None => Stage(c, 0) = {Park(c)} /\ Stage(c, 7) = {Unpark(c)}
      /\ c.swap = None => Stage(c, 0) = {} /\ Stage(c, 7) = {}
  BY StageIs
<1> QED
  BY <1>1, <1>2, <1>3, <1>4, <1>5, <1>6, <1>7

LEMMA PlanInOrder ==
  ASSUME NEW c \in Change, NEW P, Staged(c, P, 0, 7), NEW k \in 0..Len(P)
  PROVE  InOrder(c, {P[i] : i \in 1..k})
<1> DEFINE E == {P[i] : i \in 1..k}
<1>1. Len(P) \in Nat /\ \A a \in Stages(c, 0, 7) : \E i \in 1..Len(P) : P[i] = a
  BY LenProperties DEF Staged, Lists
<1>2. ASSUME NEW s \in 0..7, NEW t \in 0..7, s < t, NEW a \in Stage(c, t), a \in E,
             NEW b \in Stage(c, s)
      PROVE  b \in E
  <2>1. PICK i \in 1..k : a = P[i]
    BY <1>2
  <2>2. b \in Stages(c, 0, 7)
    BY DEF Stages
  <2>3. PICK j \in 1..Len(P) : P[j] = b
    BY <1>1, <2>2
  <2>4. i \in 1..Len(P)
    BY <1>1
  <2>5. ~ (i < j)
    BY <1>2, <2>1, <2>3, <2>4 DEF Staged
  <2>6. j \in 1..k
    BY <2>4, <2>5
  <2> QED
    BY <2>3, <2>6
<1> HIDE DEF E
<1> QED
  BY <1>2 DEF InOrder, E

LEMMA ViewLegal ==
  ASSUME NEW c \in Change, NEW E, InOrder(c, E)
  PROVE  Legal(c, ViewOf(c, E))
<1> DEFINE v == ViewOf(c, E)
<1>1. /\ v.gone = {e \in Gone(c) : DeleteHostDetails(e) \in E}
      /\ v.moved = {e \in Moving(c) : Addr(c, e) \in E}
      /\ v.named = {e \in Naming(c) : Name(c, e) \in E}
      /\ v.added = {n \in Fresh(c) : AddHostDetails(n) \in E}
  BY ViewIs
<1>2. v.swap = (IF c.swap # None /\ Unpark(c) \in E THEN 2
                ELSE IF c.swap # None /\ Park(c) \in E THEN 1 ELSE 0)
  BY ViewIs
<1> HIDE DEF v
<1>3. \A s, t \in 0..7 : s < t /\ Stage(c, t) \cap E # {} => Stage(c, s) \subseteq E
  BY DEF InOrder
<1>4. /\ Stage(c, 1) \subseteq E => Gone(c) \cap HasPrimary \subseteq v.gone
      /\ Stage(c, 1) \subseteq E /\ Stage(c, 2) \subseteq E => v.gone = Gone(c)
      /\ Stage(c, 3) \subseteq E => v.moved = Moving(c)
      /\ Stage(c, 4) \subseteq E => v.named = Naming(c)
      /\ Stage(c, 5) \subseteq E => Fresh(c) \cap HasNone \subseteq v.added
      /\ Stage(c, 5) \subseteq E /\ Stage(c, 6) \subseteq E => v.added = Fresh(c)
  BY <1>1, StageOf
<1>5. /\ v.gone \cap HasNone # {} => Stage(c, 2) \cap E # {}
      /\ v.gone # {} => Stage(c, 1) \cap E # {} \/ Stage(c, 2) \cap E # {}
      /\ v.moved # {} => Stage(c, 3) \cap E # {}
      /\ v.named # {} => Stage(c, 4) \cap E # {}
      /\ v.added # {} => Stage(c, 5) \cap E # {} \/ Stage(c, 6) \cap E # {}
      /\ v.added \cap HasPrimary # {} => Stage(c, 6) \cap E # {}
  BY <1>1, StageOf
<1>6. Stage(c, 2) \cap E # {} => Stage(c, 1) \subseteq E
  BY <1>3
<1>7. \A t \in 3..7 : Stage(c, t) \cap E # {} => Stage(c, 1) \subseteq E /\ Stage(c, 2) \subseteq E
  BY <1>3
<1>8. \A t \in 4..7 : Stage(c, t) \cap E # {} => Stage(c, 3) \subseteq E
  BY <1>3
<1>9. \A t \in 5..7 : Stage(c, t) \cap E # {} => Stage(c, 4) \subseteq E
  BY <1>3
<1>10. \A t \in 6..7 : Stage(c, t) \cap E # {} => Stage(c, 5) \subseteq E
  BY <1>3
<1>11. ASSUME c.swap # None, v.swap = 0
       PROVE  v.gone = {} /\ v.moved = {} /\ v.named = {} /\ v.added = {}
  <2>1. ~ (Stage(c, 0) \subseteq E)
    BY <1>2, <1>11, StageOf
  <2>2. \A t \in 1..7 : Stage(c, t) \cap E = {}
    BY <1>3, <2>1
  <2> QED
    BY <1>5, <2>2
<1>12. ASSUME c.swap # None, v.swap = 2
       PROVE  v.gone = Gone(c) /\ v.moved = Moving(c) /\ v.named = Naming(c) /\ v.added = Fresh(c)
  <2>1. Stage(c, 7) \cap E # {}
    BY <1>2, <1>12, StageOf
  <2>2. \A s \in 1..6 : Stage(c, s) \subseteq E
    BY <1>3, <2>1
  <2> QED
    BY <1>4, <2>2
<1>13. v.swap \in 0..2
  BY <1>2
<1>14. v.gone \cap HasNone # {} => Gone(c) \cap HasPrimary \subseteq v.gone
  BY <1>4, <1>5, <1>6
<1>15. v.moved # {} \/ v.named # {} \/ v.added # {} => v.gone = Gone(c)
  BY <1>4, <1>5, <1>7
<1>16. v.named # {} \/ v.added # {} => v.moved = Moving(c)
  BY <1>4, <1>5, <1>8
<1>17. v.added # {} => v.named = Naming(c)
  BY <1>4, <1>5, <1>9
<1>18. v.added \cap HasPrimary # {} => Fresh(c) \cap HasNone \subseteq v.added
  BY <1>4, <1>5, <1>10
<1> QED
  BY <1>1, <1>11, <1>12, <1>13, <1>14, <1>15, <1>16, <1>17, <1>18 DEF Legal, v

\* One action more.
Step(c, r, a, s) ==
  /\ \E x : /\ Moves(r, a.command, s, x) /\ Moves(s, a.rollback, r, x)
            /\ a.command.op = "add_host" => x \notin Full(c)
  /\ Told(a.command)
  /\ a.ignorable \in BOOLEAN
  /\ a.ignorable => a.command.op = "delete_host"

LEMMA ViewStep ==
  ASSUME NEW c \in Change, NEW E, InOrder(c, E), NEW a \in Stages(c, 0, 7), a \notin E,
         InOrder(c, E \cup {a})
  PROVE  Step(c, Picture(c, ViewOf(c, E)), a, Picture(c, ViewOf(c, E \cup {a})))
<1> DEFINE F == E \cup {a}
           v == ViewOf(c, E)
           w == ViewOf(c, F)
<1>1. PICK t \in 0..7 : a \in Stage(c, t)
  BY DEF Stages
<1>2. \A u \in 0..7 : u # t => a \notin Stage(c, u)
  BY <1>1, StagesApart
<1>3. Legal(c, v) /\ Legal(c, w)
  BY ViewLegal
<1>4. /\ v.gone = {e \in Gone(c) : DeleteHostDetails(e) \in E}
      /\ v.moved = {e \in Moving(c) : Addr(c, e) \in E}
      /\ v.named = {e \in Naming(c) : Name(c, e) \in E}
      /\ v.added = {n \in Fresh(c) : AddHostDetails(n) \in E}
      /\ v.swap = (IF c.swap # None /\ Unpark(c) \in E THEN 2
                   ELSE IF c.swap # None /\ Park(c) \in E THEN 1 ELSE 0)
  BY ViewIs
<1>5. /\ w.gone = {e \in Gone(c) : DeleteHostDetails(e) \in F}
      /\ w.moved = {e \in Moving(c) : Addr(c, e) \in F}
      /\ w.named = {e \in Naming(c) : Name(c, e) \in F}
      /\ w.added = {n \in Fresh(c) : AddHostDetails(n) \in F}
      /\ w.swap = (IF c.swap # None /\ Unpark(c) \in F THEN 2
                   ELSE IF c.swap # None /\ Park(c) \in F THEN 1 ELSE 0)
  BY ViewIs
<1> HIDE DEF v, w
<1>6. t \notin {1, 2} => w.gone = v.gone
  <2>1. ASSUME t \notin {1, 2}, NEW e \in Gone(c) PROVE DeleteHostDetails(e) # a
    BY <1>2, <2>1, StageOf
  <2> QED
    BY <1>4, <1>5, <2>1
<1>7. t # 3 => w.moved = v.moved
  <2>1. ASSUME t # 3, NEW e \in Moving(c) PROVE Addr(c, e) # a
    BY <1>2, <2>1, StageOf
  <2> QED
    BY <1>4, <1>5, <2>1
<1>8. t # 4 => w.named = v.named
  <2>1. ASSUME t # 4, NEW e \in Naming(c) PROVE Name(c, e) # a
    BY <1>2, <2>1, StageOf
  <2> QED
    BY <1>4, <1>5, <2>1
<1>9. t \notin {5, 6} => w.added = v.added
  <2>1. ASSUME t \notin {5, 6}, NEW e \in Fresh(c) PROVE AddHostDetails(e) # a
    BY <1>2, <2>1, StageOf
  <2> QED
    BY <1>4, <1>5, <2>1
<1>10. t \notin {0, 7} => w.swap = v.swap
  <2>1. ASSUME t \notin {0, 7}, c.swap # None PROVE Park(c) # a /\ Unpark(c) # a
    BY <1>2, <2>1, StageOf
  <2> QED
    BY <1>4, <1>5, <2>1
<1>11. CASE t \in {1, 2}
  <2>1. PICK e \in Gone(c) : a = DeleteHostDetails(e)
    <3>1. a \in Deletions(Gone(c) \cap HasPrimary) \/ a \in Deletions(Gone(c) \cap HasNone)
      BY <1>1, <1>11, StageIs
    <3> QED
      BY <3>1 DEF Deletions
  <2>2. e \in Gone(c) \ v.gone
    BY <1>4, <2>1
  <2>3. w.gone = v.gone \cup {e}
    BY <1>4, <1>5, <2>1, ActionsDiffer
  <2>4. w.moved = v.moved /\ w.named = v.named /\ w.added = v.added /\ w.swap = v.swap
    BY <1>7, <1>8, <1>9, <1>10, <1>11
  <2>6. Deletes(c, v, w, e)
    BY <2>2, <2>3, <2>4 DEF Deletes
  <2>5. /\ Moves(Picture(c, v), a.command, Picture(c, w), e)
        /\ Moves(Picture(c, w), a.rollback, Picture(c, v), e)
        /\ Told(a.command) /\ a.ignorable = TRUE /\ a.command.op = "delete_host"
    <3>1. /\ Moves(Picture(c, v), DeleteHostDetails(e).command, Picture(c, w), e)
          /\ Moves(Picture(c, w), DeleteHostDetails(e).rollback, Picture(c, v), e)
          /\ Told(DeleteHostDetails(e).command) /\ DeleteHostDetails(e).ignorable = TRUE /\ DeleteHostDetails(e).command.op = "delete_host"
      BY <1>3, <2>6, DeleteMoves, Zenon
    <3> QED
      BY <2>1, <3>1
  <2> QED
    BY <2>5 DEF Step, v, w
<1>12. CASE t = 3
  <2>1. PICK e \in Moving(c) : a = Addr(c, e)
    <3>1. a \in AddrOf(c, Moving(c))
      BY <1>1, <1>12, StageIs
    <3> QED
      BY <3>1 DEF AddrOf
  <2>2. e \in Moving(c) \ v.moved
    BY <1>4, <2>1
  <2>3. w.moved = v.moved \cup {e}
    <3>1. \A o \in Moving(c) : Addr(c, o) = Addr(c, e) => o = e
      BY ActionsDiffer, SlotFacts
    <3> QED
      BY <1>4, <1>5, <2>1, <3>1
  <2>4. w.gone = v.gone /\ w.named = v.named /\ w.added = v.added /\ w.swap = v.swap
    BY <1>6, <1>8, <1>9, <1>10, <1>12
  <2>6. Addresses(c, v, w, e)
    BY <2>2, <2>3, <2>4 DEF Addresses
  <2>5. /\ Moves(Picture(c, v), a.command, Picture(c, w), e)
        /\ Moves(Picture(c, w), a.rollback, Picture(c, v), e)
        /\ Told(a.command) /\ a.ignorable = FALSE /\ a.command.op = "update_aqd_host"
    <3>1. /\ Moves(Picture(c, v), Addr(c, e).command, Picture(c, w), e)
          /\ Moves(Picture(c, w), Addr(c, e).rollback, Picture(c, v), e)
          /\ Told(Addr(c, e).command) /\ Addr(c, e).ignorable = FALSE /\ Addr(c, e).command.op = "update_aqd_host"
      BY <1>3, <2>6, AddrMoves, Zenon
    <3> QED
      BY <2>1, <3>1
  <2> QED
    BY <2>5 DEF Step, v, w
<1>13. CASE t = 4
  <2>1. PICK e \in Naming(c) : a = Name(c, e)
    <3>1. a \in NameOf(c, Naming(c))
      BY <1>1, <1>13, StageIs
    <3> QED
      BY <3>1 DEF NameOf
  <2>2. e \in Naming(c) \ v.named
    BY <1>4, <2>1
  <2>3. w.named = v.named \cup {e}
    <3>1. \A o \in Naming(c) : Name(c, o) = Name(c, e) => o = e
      BY ActionsDiffer, SlotFacts
    <3> QED
      BY <1>4, <1>5, <2>1, <3>1
  <2>4. w.gone = v.gone /\ w.moved = v.moved /\ w.added = v.added /\ w.swap = v.swap
    BY <1>6, <1>7, <1>9, <1>10, <1>13
  <2>6. Names(c, v, w, e)
    BY <2>2, <2>3, <2>4 DEF Names
  <2>5. /\ Moves(Picture(c, v), a.command, Picture(c, w), e)
        /\ Moves(Picture(c, w), a.rollback, Picture(c, v), e)
        /\ Told(a.command) /\ a.ignorable = FALSE /\ a.command.op = "rename"
    <3>1. /\ Moves(Picture(c, v), Name(c, e).command, Picture(c, w), e)
          /\ Moves(Picture(c, w), Name(c, e).rollback, Picture(c, v), e)
          /\ Told(Name(c, e).command) /\ Name(c, e).ignorable = FALSE /\ Name(c, e).command.op = "rename"
      BY <1>3, <2>6, NameMoves, Zenon
    <3> QED
      BY <2>1, <3>1
  <2> QED
    BY <2>5 DEF Step, v, w
<1>14. CASE t \in {5, 6}
  <2>1. PICK e \in Fresh(c) : a = AddHostDetails(e)
    <3>1. a \in Additions(Fresh(c) \cap HasPrimary) \/ a \in Additions(Fresh(c) \cap HasNone)
      BY <1>1, <1>14, StageIs
    <3> QED
      BY <3>1 DEF Additions
  <2>2. e \in Fresh(c) \ v.added
    BY <1>4, <2>1
  <2>3. w.added = v.added \cup {e}
    BY <1>4, <1>5, <2>1, ActionsDiffer
  <2>4. w.gone = v.gone /\ w.moved = v.moved /\ w.named = v.named /\ w.swap = v.swap
    BY <1>6, <1>7, <1>8, <1>10, <1>14
  <2>6. Adds(c, v, w, e)
    BY <2>2, <2>3, <2>4 DEF Adds
  <2>5. /\ Moves(Picture(c, v), a.command, Picture(c, w), e)
        /\ Moves(Picture(c, w), a.rollback, Picture(c, v), e)
        /\ Told(a.command) /\ a.ignorable = FALSE /\ e \notin Full(c)
    BY <1>3, <2>1, <2>6, AddMoves, Zenon
  <2> QED
    BY <2>5 DEF Step, v, w
<1>15. CASE t \in {0, 7}
  <2>1. c.swap # None /\ Stage(c, 0) = {Park(c)} /\ Stage(c, 7) = {Unpark(c)}
    BY <1>1, <1>15, StageOf
  <2>2. w.gone = v.gone /\ w.moved = v.moved /\ w.named = v.named /\ w.added = v.added
    BY <1>6, <1>7, <1>8, <1>9, <1>15
  <2>3. 0 \in 0..7 /\ 7 \in 0..7 /\ 0 < 7
    OBVIOUS
  <2>4. /\ Stage(c, 7) \cap E # {} => Stage(c, 0) \subseteq E
        /\ Stage(c, 7) \cap F # {} => Stage(c, 0) \subseteq F
    BY <2>3 DEF InOrder
  <2>5. Park(c) # Unpark(c)
    BY <2>1, <2>3, StagesApart
  <2>6. \/ v.swap = 0 /\ w.swap = 1 /\ a = Park(c)
        \/ v.swap = 1 /\ w.swap = 2 /\ a = Unpark(c)
    BY <1>1, <1>4, <1>5, <1>15, <2>1, <2>4, <2>5
  <2>7. /\ Moves(Picture(c, v), a.command, Picture(c, w), c.swap)
        /\ Moves(Picture(c, w), a.rollback, Picture(c, v), c.swap)
        /\ Told(a.command) /\ a.ignorable = FALSE /\ a.command.op = "update_aqd_host"
    BY <1>3, <2>1, <2>2, <2>6, SwapMoves
  <2> QED
    BY <2>7 DEF Step, v, w
<1>16. t \in {1, 2} \/ t = 3 \/ t = 4 \/ t \in {5, 6} \/ t \in {0, 7}
  OBVIOUS
<1> QED
  BY <1>11, <1>12, <1>13, <1>14, <1>15, <1>16

LEMMA FirstPicture ==
  ASSUME NEW c \in Change
  PROVE  /\ Picture(c, ViewOf(c, {})).slots = Full(c)
         /\ \A y \in Full(c) : Picture(c, ViewOf(c, {})).now[y] = y
<1> DEFINE v == ViewOf(c, {})
<1>1. v.gone = {} /\ v.moved = {} /\ v.named = {} /\ v.added = {} /\ v.swap = 0
  BY ViewIs
<1> HIDE DEF v
<1>2. Live(c, v) = Full(c)
  BY <1>1 DEF Live, Full, Extra
<1>3. ASSUME NEW y \in Full(c) PROVE Now(c, v, y) = y
  <2>1. y \in Entry /\ (y \in Extra(c) => y = c.swap)
    BY SlotFacts DEF Full, Extra
  <2>2. NowFqdn(c, v, y) = y.fqdn /\ NowMac(c, v, y) = y.mac
    BY <1>1 DEF NowFqdn, NowMac
  <2>3. NowIp(c, v, y) = y.ip
    BY <1>1, <2>1 DEF NowIp, SwapIp
  <2>4. NowPrimary(c, v, y) = y.primary
    BY <1>1 DEF NowPrimary
  <2> QED
    BY <1>1, <2>1, <2>2, <2>3, <2>4, EntryIs DEF Now
<1> QED
  BY <1>2, <1>3, PictureIs DEF v

\* All actions in effect: the view has everything.
AtTheEnd(c, v) ==
  /\ v.gone = Gone(c) /\ v.moved = Moving(c) /\ v.named = Naming(c) /\ v.added = Fresh(c)
  /\ v.swap = (IF c.swap = None THEN 0 ELSE 2)

LEMMA TellsIf ==
  ASSUME NEW e \in Entry, NEW n \in Entry, e.fqdn = n.fqdn, e.ip = n.ip, e.iface = n.iface,
         n.mac # None => e.mac = n.mac, e.primary = n.primary
  PROVE  Tells(e, n)
<1> DEFINE m == IF n.mac = None THEN e.mac ELSE n.mac
           r == [n EXCEPT !.mac = m]
<1>1. m = e.mac
  OBVIOUS
<1>2. r = [n EXCEPT !.mac = IF @ = None THEN e.mac ELSE @]
  OBVIOUS
<1> HIDE DEF m
<1>3. r = [fqdn |-> n.fqdn, ip |-> n.ip, iface |-> n.iface, mac |-> m, primary |-> n.primary]
  BY DEF Entry
<1> HIDE DEF r
<1>4. e = r
  BY <1>1, <1>3, EntryIs
<1> QED
  BY <1>2, <1>4 DEF Tells

LEMMA LastPrimary ==
  ASSUME NEW c \in Change, NEW v, Legal(c, v), AtTheEnd(c, v), NEW y \in Kept(c),
         y.primary = None \/ \E p \in Kept(c) : p.fqdn = y.primary
  PROVE  NowPrimary(c, v, y) = Twin(c, y).primary
<1>1. /\ y \in c.old /\ Twin(c, y) \in c.new /\ Same(y, Twin(c, y))
      /\ (Twin(c, y).primary = None) = (y.primary = None)
  BY TwinFacts
<1>2. \A p \in v.named : p \in Kept(c) /\ p \in c.old /\ p \in Entry /\ p.fqdn # None
  <2>1. v.named \subseteq Kept(c) /\ Kept(c) \subseteq c.old /\ c.old \subseteq Entry
    BY SlotFacts DEF AtTheEnd
  <2> QED
    BY <2>1, ChangeAssumption DEF Entry
<1>3. CASE y.primary = None
  <2>1. NowPrimary(c, v, y) = y.primary
    BY <1>2, <1>3, PrimaryIs
  <2> QED
    BY <1>1, <1>3, <2>1
<1>4. CASE y.primary # None
  <2>1. PICK p \in Kept(c) : p.fqdn = y.primary
    BY <1>4
  <2>2. Twin(c, p).fqdn = Twin(c, y).primary
    <3>1. p \in c.old /\ Twin(c, p) \in c.new /\ Same(p, Twin(c, p))
      BY TwinFacts
    <3> QED
      BY <1>1, <1>4, <2>1, <3>1, ChangeFacts DEF IsUpdate
  <2>3. CASE p \in Naming(c)
    <3>1. p \in v.named
      BY <2>3 DEF AtTheEnd
    <3> QED
      BY <1>1, <2>1, <2>2, <3>1, PrimaryIs
  <2>4. CASE p \notin Naming(c)
    <3>1. p.fqdn = Twin(c, p).fqdn
      BY <2>4 DEF Naming
    <3>2. \A q \in v.named : q.fqdn # y.primary
      <4>1. SUFFICES ASSUME NEW q \in v.named, q.fqdn = y.primary PROVE FALSE
        OBVIOUS
      <4>2. q = p
        BY <1>2, <2>1, <4>1, SlotFacts, TwinNames DEF Same
      <4> QED
        BY <2>4, <4>1, <4>2 DEF AtTheEnd
    <3>3. NowPrimary(c, v, y) = y.primary
      BY <3>2, PrimaryIs
    <3> QED
      BY <2>1, <2>2, <3>1, <3>3
  <2> QED
    BY <2>3, <2>4
<1> QED
  BY <1>3, <1>4

\* A primary entry that was replaced is missed in the end.
LEMMA LastOrphan ==
  ASSUME NEW c \in Change, NEW v, Legal(c, v), AtTheEnd(c, v), NEW y \in Kept(c),
         y.primary # None, \A p \in Kept(c) : p.fqdn # y.primary
  PROVE  Orphan(Picture(c, v), y)
<1>1. /\ y \in c.old /\ Twin(c, y) \in c.new /\ Same(y, Twin(c, y))
      /\ Twin(c, y).primary # None
  BY TwinFacts
<1>2. Live(c, v) = (Kept(c) \cup Fresh(c)) \cup Extra(c)
  BY SlotFacts DEF AtTheEnd, Live
<1>3. v.named = Naming(c) /\ Naming(c) \subseteq Kept(c)
  BY SlotFacts DEF AtTheEnd
<1>4. NowPrimary(c, v, y) = y.primary
  BY <1>3, PrimaryIs
<1>5. PICK p \in c.old : p.fqdn = y.primary /\ p.primary = None
  BY <1>1, ChangeFacts DEF IsSnapshot
<1>6. p \notin Kept(c)
  BY <1>5
<1>7. ASSUME NEW z \in Live(c, v), NowFqdn(c, v, z) = y.primary PROVE FALSE
  <2>1. CASE z \in Kept(c)
    <3>1. NowFqdn(c, v, z) = Twin(c, z).fqdn
      BY <1>3, <2>1 DEF NowFqdn, Naming
    <3>2. z = p
      BY <1>5, <1>7, <2>1, <3>1, TwinNames DEF Same
    <3> QED
      BY <1>6, <2>1, <3>2
  <2>2. CASE z \in Fresh(c)
    <3>1. z \in c.new /\ z \notin c.old
      BY <2>2, SlotFacts
    <3>2. NowFqdn(c, v, z) = z.fqdn
      BY <1>3, <3>1, SlotFacts DEF NowFqdn
    <3>3. Same(p, z)
      BY <1>5, <1>7, <3>2 DEF Same
    <3>4. z.fqdn = Twin(c, y).primary
      BY <1>1, <1>5, <3>1, <3>3, ChangeFacts DEF IsUpdate
    <3>5. z.primary = None
      BY <1>1, <3>1, <3>4, ChangeFacts DEF IsSnapshot
    <3>6. z \in Partner(c, p)
      BY <1>5, <3>1, <3>3, <3>5 DEF Partner
    <3> QED
      BY <1>6, <3>6 DEF Kept
  <2>3. CASE z \in Extra(c)
    <3>1. z \notin v.named /\ c.swap # None /\ z = c.swap
      BY <1>3, <2>3, SlotFacts
    <3>2. NowFqdn(c, v, z) = c.swap.fqdn
      BY <3>1 DEF NowFqdn
    <3>3. p.fqdn # c.swap.fqdn
      BY <3>1, ChangeFacts DEF IsSwap
    <3> QED
      BY <1>5, <1>7, <3>2, <3>3
  <2> QED
    BY <1>2, <2>1, <2>2, <2>3
<1>8. Now(c, v, y).primary = y.primary /\ \A z : Now(c, v, z).fqdn = NowFqdn(c, v, z)
  BY <1>4 DEF Now
<1> QED
  BY <1>2, <1>7, <1>8, PictureIs DEF Orphan

\* The last picture is what the broker's database holds.
LEMMA LastPicture ==
  ASSUME NEW c \in Change, NEW v, Legal(c, v), AtTheEnd(c, v)
  PROVE  /\ Live(c, v) = (Kept(c) \cup Fresh(c)) \cup Extra(c)
         /\ \A y \in Kept(c) : /\ Now(c, v, y).fqdn = Twin(c, y).fqdn
                               /\ Now(c, v, y).ip = Twin(c, y).ip
                               /\ ~ Orphan(Picture(c, v), y) => Tells(Now(c, v, y), Twin(c, y))
                               /\ Nearly(Now(c, v, y), Twin(c, y))
         /\ \A y \in Fresh(c) : Tells(Now(c, v, y), y)
         /\ \A y \in Extra(c) : Tells(Now(c, v, y), [c.swap EXCEPT !.ip = c.old_ip])
<1>1. Live(c, v) = (Kept(c) \cup Fresh(c)) \cup Extra(c)
  BY SlotFacts DEF AtTheEnd, Live
<1>2. \A y \in Live(c, v) : Now(c, v, y) \in Entry
  BY NowTyped
<1>3. ASSUME NEW y \in Kept(c)
      PROVE  /\ Now(c, v, y).fqdn = Twin(c, y).fqdn /\ Now(c, v, y).ip = Twin(c, y).ip
             /\ ~ Orphan(Picture(c, v), y) => Tells(Now(c, v, y), Twin(c, y))
             /\ Nearly(Now(c, v, y), Twin(c, y))
  <2>1. y \notin Extra(c) /\ y \in Entry /\ Twin(c, y) \in Entry
    BY SlotFacts, TwinFacts
  <2>2. NowFqdn(c, v, y) = Twin(c, y).fqdn
        /\ (IF y \in v.named THEN Twin(c, y).iface ELSE y.iface) = Twin(c, y).iface
    BY DEF NowFqdn, AtTheEnd, Naming
  <2>3. NowIp(c, v, y) = Twin(c, y).ip
        /\ (Twin(c, y).mac # None => NowMac(c, v, y) = Twin(c, y).mac)
    BY <2>1 DEF NowIp, NowMac, AtTheEnd, Moving
  <2>4. ~ Orphan(Picture(c, v), y) => NowPrimary(c, v, y) = Twin(c, y).primary
    BY LastPrimary, LastOrphan
  <2>5. Now(c, v, y) \in Entry
    BY <1>1, <1>2
  <2>6. /\ Now(c, v, y).fqdn = Twin(c, y).fqdn /\ Now(c, v, y).ip = Twin(c, y).ip
        /\ Now(c, v, y).iface = Twin(c, y).iface
        /\ Twin(c, y).mac # None => Now(c, v, y).mac = Twin(c, y).mac
        /\ Now(c, v, y).primary = NowPrimary(c, v, y)
    BY <2>2, <2>3 DEF Now
  <2>7. Nearly(Now(c, v, y), Twin(c, y))
    <3> DEFINE e == Now(c, v, y)
               n == Twin(c, y)
               f == [e EXCEPT !.primary = n.primary]
    <3> HIDE DEF e, n
    <3>1. e \in Entry /\ n \in Entry
      BY <2>1, <2>5 DEF e, n
    <3>2. /\ f \in Entry /\ f.fqdn = e.fqdn /\ f.ip = e.ip /\ f.iface = e.iface
          /\ f.mac = e.mac /\ f.primary = n.primary
      BY <3>1 DEF Entry
    <3> HIDE DEF f
    <3>3. Tells(f, n)
      BY <2>6, <3>1, <3>2, TellsIf DEF e, n
    <3> QED
      BY <3>3 DEF Nearly, e, n, f
  <2> QED
    BY <2>1, <2>4, <2>5, <2>6, <2>7, TellsIf
<1>4. ASSUME NEW y \in Fresh(c) PROVE Tells(Now(c, v, y), y)
  <2>1. y \notin Extra(c) /\ y \in Entry /\ y \notin c.old /\ y \notin Kept(c)
    BY SlotFacts
  <2>2. y \notin v.named /\ y \notin v.moved
    BY <2>1 DEF AtTheEnd, Naming, Moving
  <2>3. NowPrimary(c, v, y) = y.primary
    BY <2>1, PrimaryIs
  <2>4. NowFqdn(c, v, y) = y.fqdn /\ NowIp(c, v, y) = y.ip /\ NowMac(c, v, y) = y.mac
    BY <2>1, <2>2 DEF NowFqdn, NowIp, NowMac
  <2>5. Now(c, v, y) \in Entry
    BY <1>1, <1>2
  <2>6. /\ Now(c, v, y).fqdn = y.fqdn /\ Now(c, v, y).ip = y.ip
        /\ Now(c, v, y).iface = y.iface /\ Now(c, v, y).mac = y.mac
        /\ Now(c, v, y).primary = y.primary
    BY <2>2, <2>3, <2>4 DEF Now
  <2> QED
    BY <2>1, <2>5, <2>6, TellsIf
<1>5. ASSUME NEW y \in Extra(c) PROVE Tells(Now(c, v, y), [c.swap EXCEPT !.ip = c.old_ip])
  <2> DEFINE n == [c.swap EXCEPT !.ip = c.old_ip]
  <2>1. c.swap # None /\ y = c.swap /\ y \in Entry /\ y \notin c.old /\ c.old_ip \in Ip
    BY SlotFacts, ChangeFacts DEF IsSwap
  <2>2. y \notin v.named /\ y \notin v.moved
    BY SlotFacts DEF AtTheEnd, Naming, Moving
  <2>3. NowPrimary(c, v, y) = y.primary
    BY <2>1, PrimaryIs
  <2>4. NowFqdn(c, v, y) = y.fqdn /\ NowIp(c, v, y) = c.old_ip /\ NowMac(c, v, y) = y.mac
    BY <2>1, <2>2 DEF NowFqdn, NowIp, NowMac, SwapIp, AtTheEnd
  <2>5. Now(c, v, y) \in Entry
    BY <1>1, <1>2
  <2>6. /\ Now(c, v, y).fqdn = y.fqdn /\ Now(c, v, y).ip = c.old_ip
        /\ Now(c, v, y).iface = y.iface /\ Now(c, v, y).mac = y.mac
        /\ Now(c, v, y).primary = y.primary
    BY <2>2, <2>3, <2>4 DEF Now
  <2>7. /\ n \in Entry /\ n.fqdn = y.fqdn /\ n.ip = c.old_ip /\ n.iface = y.iface
        /\ n.mac = y.mac /\ n.primary = y.primary
    BY <2>1 DEF Entry
  <2> HIDE DEF n
  <2>8. Tells(Now(c, v, y), n)
    BY <2>5, <2>6, <2>7, TellsIf
  <2> QED
    BY <2>8 DEF n
<1> QED
  BY <1>1, <1>3, <1>4, <1>5

LEMMA LastView ==
  ASSUME NEW c \in Change
  PROVE  AtTheEnd(c, ViewOf(c, Stages(c, 0, 7)))
<1> DEFINE E == Stages(c, 0, 7)
           v == ViewOf(c, E)
<1>1. \A t \in 0..7 : Stage(c, t) \subseteq E
  BY DEF Stages
<1>2. /\ v.gone = {e \in Gone(c) : DeleteHostDetails(e) \in E}
      /\ v.moved = {e \in Moving(c) : Addr(c, e) \in E}
      /\ v.named = {e \in Naming(c) : Name(c, e) \in E}
      /\ v.added = {n \in Fresh(c) : AddHostDetails(n) \in E}
      /\ v.swap = (IF c.swap # None /\ Unpark(c) \in E THEN 2
                   ELSE IF c.swap # None /\ Park(c) \in E THEN 1 ELSE 0)
  BY ViewIs
<1> HIDE DEF E, v
<1>3. /\ \A e \in Gone(c) : DeleteHostDetails(e) \in E
      /\ \A e \in Moving(c) : Addr(c, e) \in E
      /\ \A e \in Naming(c) : Name(c, e) \in E
      /\ \A n \in Fresh(c) : AddHostDetails(n) \in E
      /\ c.swap # None => Unpark(c) \in E
  BY <1>1, StageOf
<1>4. v.swap = (IF c.swap = None THEN 0 ELSE 2)
  BY <1>2, <1>3
<1>5. v.gone = Gone(c) /\ v.moved = Moving(c) /\ v.named = Naming(c) /\ v.added = Fresh(c)
  BY <1>2, <1>3
<1> QED
  BY <1>4, <1>5 DEF AtTheEnd, v, E

LEMMA LastTells ==
  ASSUME NEW c \in Change, NEW v, Legal(c, v), AtTheEnd(c, v)
  PROVE  Tell(Picture(c, v), c)
<1> DEFINE r == Picture(c, v)
           x == [c.swap EXCEPT !.ip = c.old_ip]
<1>1. /\ r.slots = (Kept(c) \cup Fresh(c)) \cup Extra(c)
      /\ \A y \in r.slots : r.now[y] = Now(c, v, y)
  <2>1. r.slots = Live(c, v) /\ \A y \in Live(c, v) : r.now[y] = Now(c, v, y)
    BY PictureIs, Zenon
  <2> HIDE DEF r
  <2> QED
    BY <2>1, LastPicture
<1>2. /\ \A y \in Kept(c) : /\ Twin(c, y) \in c.new
                            /\ \/ Tells(Now(c, v, y), Twin(c, y))
                               \/ Orphan(r, y) /\ Nearly(Now(c, v, y), Twin(c, y))
      /\ \A y \in Fresh(c) : Tells(Now(c, v, y), y) /\ y \in c.new
      /\ \A y \in Extra(c) : Tells(Now(c, v, y), x) /\ c.swap # None
  BY LastPicture, TwinFacts, SlotFacts
<1>3. Wanted(c) = c.new \cup (IF c.swap = None THEN {} ELSE {x})
  BY DEF Wanted
<1> HIDE DEF r, x
<1>6. /\ \A y \in Kept(c) : Twin(c, y) \in c.new /\ Shows(r, y, Twin(c, y))
      /\ \A y \in Fresh(c) : y \in c.new /\ Shows(r, y, y)
      /\ \A y \in Extra(c) : Shows(r, y, x) /\ c.swap # None
  <2>1. ASSUME NEW y \in Kept(c) PROVE Twin(c, y) \in c.new /\ Shows(r, y, Twin(c, y))
    <3>1. r.now[y] = Now(c, v, y)
      BY <1>1
    <3> QED
      BY <1>2, <3>1 DEF Shows
  <2>2. ASSUME NEW y \in Fresh(c) PROVE y \in c.new /\ Shows(r, y, y)
    <3>1. r.now[y] = Now(c, v, y)
      BY <1>1
    <3> QED
      BY <1>2, <3>1 DEF Shows
  <2>3. ASSUME NEW y \in Extra(c) PROVE Shows(r, y, x) /\ c.swap # None
    <3>1. r.now[y] = Now(c, v, y)
      BY <1>1
    <3> QED
      BY <1>2, <3>1 DEF Shows
  <2> QED
    BY <2>1, <2>2, <2>3
<1>4. \A y \in r.slots : \E n \in Wanted(c) : Shows(r, y, n)
  BY <1>1, <1>3, <1>6
<1>5. ASSUME NEW n \in Wanted(c) PROVE \E y \in r.slots : Shows(r, y, n)
  <2>1. CASE n \in Fresh(c)
    BY <1>1, <1>6, <2>1
  <2>2. CASE n \in c.new /\ n \notin Fresh(c)
    <3>1. PICK e \in c.old : n \in Partner(c, e)
      BY <2>2 DEF Fresh
    <3>2. e \in Kept(c)
      BY <3>1 DEF Kept
    <3>3. n = Twin(c, e)
      BY <3>1, <3>2, TwinFacts
    <3> QED
      BY <1>1, <1>6, <3>2, <3>3
  <2>3. CASE n \notin c.new
    <3>1. c.swap # None /\ n = x
      BY <1>3, <2>3
    <3>2. c.swap \in Extra(c)
      BY <3>1 DEF Extra
    <3> QED
      BY <1>1, <1>6, <3>1, <3>2
  <2> QED
    BY <2>1, <2>2, <2>3
<1> QED
  BY <1>4, <1>5 DEF r, Tell

\* An entry whose deletion is not in effect is as it was.
LEMMA StillThere ==
  ASSUME NEW c \in Change, NEW E, InOrder(c, E), NEW x \in Gone(c),
         DeleteHostDetails(x) \notin E
  PROVE  /\ x \in Picture(c, ViewOf(c, E)).slots
         /\ Picture(c, ViewOf(c, E)).now[x] = x
<1> DEFINE v == ViewOf(c, E)
<1>1. Legal(c, v) /\ x \notin v.gone
  BY ViewLegal, ViewIs
<1> HIDE DEF v
<1>2. v.moved = {} /\ v.named = {} /\ v.added = {}
  BY <1>1 DEF Legal
<1>3. x \in c.old /\ x \in Entry /\ x \notin Extra(c)
  BY SlotFacts
<1>4. x \in Live(c, v)
  BY <1>1, <1>3 DEF Live
<1>5. Now(c, v, x) = x
  <2>1. /\ NowFqdn(c, v, x) = x.fqdn /\ NowIp(c, v, x) = x.ip /\ NowMac(c, v, x) = x.mac
        /\ NowPrimary(c, v, x) = x.primary
    BY <1>2, <1>3 DEF NowFqdn, NowIp, NowMac, NowPrimary
  <2> QED
    BY <1>2, <1>3, <2>1, EntryIs DEF Now
<1> QED
  BY <1>4, <1>5, PictureIs DEF v

\* A slot that goes is that of a deleted entry.
LEMMA GoesByDeletion ==
  ASSUME NEW c \in Change, NEW E, NEW a,
         NEW x \in Picture(c, ViewOf(c, E)).slots, x \notin Picture(c, ViewOf(c, E \cup {a})).slots
  PROVE  x \in Gone(c) /\ DeleteHostDetails(x) = a
<1> DEFINE v == ViewOf(c, E)
           w == ViewOf(c, E \cup {a})
<1>1. /\ v.gone = {e \in Gone(c) : DeleteHostDetails(e) \in E}
      /\ w.gone = {e \in Gone(c) : DeleteHostDetails(e) \in E \cup {a}}
      /\ v.added = {n \in Fresh(c) : AddHostDetails(n) \in E}
      /\ w.added = {n \in Fresh(c) : AddHostDetails(n) \in E \cup {a}}
  BY ViewIs
<1>2. x \in Live(c, v) /\ x \notin Live(c, w)
  BY PictureIs
<1> HIDE DEF v, w
<1>3. x \in w.gone /\ x \notin v.gone
  BY <1>1, <1>2 DEF Live
<1> QED
  BY <1>1, <1>3

\* Every plan in order has its pictures.
LEMMA PlanIsRoute ==
  ASSUME NEW c \in Change, NEW P, Staged(c, P, 0, 7)
  PROVE  \E V : Route(c, P, V)
<1> DEFINE n == Len(P)
           E(k) == {P[i] : i \in 1..k}
           V == [k \in 0..n |-> Picture(c, ViewOf(c, E(k)))]
<1>1. /\ P \in Seq(Stages(c, 0, 7)) /\ n \in Nat
      /\ \A i \in 1..n : P[i] \in Stages(c, 0, 7)
      /\ \A i, j \in 1..n : P[i] = P[j] => i = j
      /\ \A a \in Stages(c, 0, 7) : \E i \in 1..n : P[i] = a
  BY LenProperties, ElementOfSeq DEF Staged, Lists
<1>2. \A k \in 0..n : InOrder(c, E(k))
  BY PlanInOrder
<1>3. E(0) = {} /\ E(n) = Stages(c, 0, 7)
  <2>1. 1..0 = {}
    OBVIOUS
  <2>2. E(0) = {}
    BY <2>1
  <2>3. \A a \in Stages(c, 0, 7) : a \in E(n)
    BY <1>1
  <2>4. \A a \in E(n) : a \in Stages(c, 0, 7)
    BY <1>1
  <2> HIDE DEF E
  <2> QED
    BY <2>2, <2>3, <2>4, Zenon
<1>4. \A k \in 1..n : E(k) = E(k - 1) \cup {P[k]} /\ P[k] \notin E(k - 1)
  <2> SUFFICES ASSUME NEW k \in 1..n PROVE E(k) = E(k - 1) \cup {P[k]} /\ P[k] \notin E(k - 1)
    OBVIOUS
  <2>1. 1..k = (1..(k - 1)) \cup {k} /\ k \notin 1..(k - 1) /\ 1..(k - 1) \subseteq 1..n
    BY <1>1
  <2>2. E(k) = E(k - 1) \cup {P[k]}
    BY <2>1
  <2>3. \A i \in 1..(k - 1) : P[i] # P[k]
    BY <1>1, <2>1
  <2>4. P[k] \notin E(k - 1)
    BY <2>3
  <2> QED
    BY <2>2, <2>4
<1>5. \A k \in 0..n : V[k] = Picture(c, ViewOf(c, E(k))) /\ Legal(c, ViewOf(c, E(k)))
  BY <1>2, ViewLegal
<1>6. 0 \in 0..n /\ n \in 0..n
  BY <1>1
<1>7. /\ \A k \in 0..n : Sound(V[k])
      /\ PrimaryStays(c) => \A k \in 0..n : Rooted(V[k])
  BY <1>5, PictureSound, PictureRooted
<1>8. V[0].slots = Full(c) /\ \A y \in Full(c) : V[0].now[y] = y
  BY <1>3, <1>5, <1>6, FirstPicture
<1>9. Tell(V[n], c)
  <2>1. V[n] = Picture(c, ViewOf(c, Stages(c, 0, 7))) /\ Legal(c, ViewOf(c, Stages(c, 0, 7)))
    BY <1>3, <1>5, <1>6
  <2> QED
    BY <2>1, LastView, LastTells
<1>10. ASSUME NEW k \in 1..n PROVE Step(c, V[k - 1], P[k], V[k])
  <2>1. k \in 0..n /\ k - 1 \in 0..n
    BY <1>1
  <2>2. E(k) = E(k - 1) \cup {P[k]} /\ P[k] \notin E(k - 1) /\ P[k] \in Stages(c, 0, 7)
    BY <1>1, <1>4
  <2>3. InOrder(c, E(k - 1)) /\ InOrder(c, E(k))
    BY <1>2, <2>1
  <2>4. V[k - 1] = Picture(c, ViewOf(c, E(k - 1))) /\ V[k] = Picture(c, ViewOf(c, E(k)))
    BY <1>5, <2>1
  <2> HIDE DEF V
  <2>5. Step(c, Picture(c, ViewOf(c, E(k - 1))), P[k],
             Picture(c, ViewOf(c, E(k - 1) \cup {P[k]})))
    <3> HIDE DEF E
    <3>1. InOrder(c, E(k - 1) \cup {P[k]})
      BY <2>2, <2>3
    <3> QED
      BY <2>2, <2>3, <3>1, ViewStep
  <2> HIDE DEF E
  <2> QED
    BY <2>2, <2>4, <2>5
<1>12. ASSUME NEW k \in 1..n PROVE Until(c, V, k)
  <2>1. k \in 0..n /\ k - 1 \in 0..n /\ \A j \in 0..(k - 1) : j \in 0..n /\ E(j) \subseteq E(k - 1)
    BY <1>1
  <2>2. E(k) = E(k - 1) \cup {P[k]} /\ P[k] \notin E(k - 1)
    BY <1>4
  <2>3. \A j \in 0..n : V[j] = Picture(c, ViewOf(c, E(j)))
    BY <1>5
  <2> HIDE DEF V, E
  <2> SUFFICES ASSUME NEW x \in V[k - 1].slots \ V[k].slots
               PROVE  x \in Full(c) /\ \A j \in 0..(k - 1) : x \in V[j].slots /\ V[j].now[x] = x
    BY DEF Until
  <2>4. x \in Gone(c) /\ DeleteHostDetails(x) = P[k]
    <3> DEFINE F == E(k - 1)
               a == P[k]
    <3>1. V[k - 1] = Picture(c, ViewOf(c, F)) /\ V[k] = Picture(c, ViewOf(c, F \cup {a}))
      BY <2>1, <2>2, <2>3
    <3> HIDE DEF F, a
    <3>2. x \in Gone(c) /\ DeleteHostDetails(x) = a
      BY <3>1, GoesByDeletion
    <3> QED
      BY <3>2 DEF a
  <2>5. x \in Full(c)
    BY <2>4, SlotFacts DEF Full
  <2>6. ASSUME NEW j \in 0..(k - 1) PROVE x \in V[j].slots /\ V[j].now[x] = x
    <3>1. InOrder(c, E(j)) /\ DeleteHostDetails(x) \notin E(j) /\ V[j] = Picture(c, ViewOf(c, E(j)))
      BY <1>2, <2>1, <2>2, <2>3, <2>4
    <3> QED
      BY <2>4, <3>1, StillThere
  <2> QED
    BY <2>5, <2>6
<1> HIDE DEF V, E
<1>11. Route(c, P, V)
  BY <1>1, <1>7, <1>8, <1>9, <1>10, <1>12 DEF Route, Step, n
<1> QED
  BY <1>11

-----------------------------------------------------------------------------
(* The invariant.  A plan and its pictures are fixed when the commands are   *)
(* queued; from then on the program is at some place k along them.           *)

Going(P, V, k) ==
  /\ ~ failures /\ ~ doubtful
  /\ \A w \in swallowed : Swept(change, V, k, w)
  /\ \E h : /\ Forth(change, start, h, actions, rollback_list, P, V, k)
            /\ Beside(dsdb, h, swallowed)

\* An entry that was left stays until its deletion is undone, which fails.
Undoing(P, V, k) ==
  /\ Back(change, start, dsdb, rollback_list, P, V, k)
  /\ ~ failures =>
       \A w \in swallowed : Swept(change, V, k, w) /\ \E e \in dsdb : IsLeft(e, w)
  /\ ~ failures /\ swallowed = {} =>
       /\ ~ doubtful => Restored(change, start, dsdb, V, k)
       /\ doubtful => Near(dsdb, V[k], Missing(change, start))

Along(P, V, k) ==
  /\ Route(change, P, V)
  /\ pc \in {"commit", "committed"} => Going(P, V, k)
  /\ pc = "committed" => k = Len(P)
  /\ pc \in {"rollback", "failed", "inconsistent"} => Undoing(P, V, k)
  /\ pc \in {"failed", "inconsistent"} => k = 0

IInv ==
  /\ TypeOK
  /\ Consistent(dsdb)
  /\ pc = "update" => /\ dsdb = start /\ actions = << >> /\ rollback_list = << >>
                      /\ ~ failures /\ ~ doubtful /\ swallowed = {}
  /\ pc = "failed" => ~ failures
  /\ pc # "update" => \E P, V, k : Along(P, V, k)

LEMMA FullTyped ==
  ASSUME NEW c \in Change
  PROVE  Full(c) \subseteq Entry
  BY SlotFacts DEF Full, Extra

LEMMA InitInv == Init => IInv
<1> SUFFICES ASSUME Init PROVE IInv
  OBVIOUS
<1>1. /\ change \in Change /\ start \subseteq Full(change) /\ dsdb = start
      /\ Consistent(dsdb)
  BY DEF Init
<1>2. dsdb \subseteq Entry
  BY <1>1, FullTyped
<1>3. /\ pc = "update" /\ actions = << >> /\ rollback_list = << >>
      /\ failures = FALSE /\ doubtful = FALSE /\ swallowed = {}
  BY DEF Init
<1>4. \A i \in DOMAIN actions : actions[i].ignorable \in BOOLEAN
  BY <1>3
<1> QED
  BY <1>1, <1>2, <1>3, <1>4 DEF IInv, TypeOK, PC

\* The commands that are left are the route's.
LEMMA ForthTyped ==
  ASSUME NEW c, NEW st, NEW d, NEW acts, NEW undo, NEW P, NEW V, NEW k, Route(c, P, V),
         Forth(c, st, d, acts, undo, P, V, k)
  PROVE  \A i \in DOMAIN acts : acts[i].ignorable \in BOOLEAN
<1>1. /\ Len(P) \in Nat /\ acts \in Seq(Stages(c, 0, 7)) /\ Len(acts) \in Nat
      /\ DOMAIN acts = 1..Len(acts) /\ Len(acts) = Len(P) - k /\ k \in 0..Len(P)
      /\ \A i \in 1..Len(acts) : acts[i] = P[k + i]
  BY RouteFacts, LenProperties DEF Forth
<1>2. \A i \in 1..Len(acts) : k + i \in 1..Len(P)
  BY <1>1
<1>3. \A j \in 1..Len(P) : P[j].ignorable \in BOOLEAN
  BY DEF Route
<1> QED
  BY <1>1, <1>2, <1>3

LEMMA ForthStarts ==
  ASSUME NEW c \in Change, NEW st \in SUBSET Full(c), NEW P, NEW V, Route(c, P, V)
  PROVE  Forth(c, st, st, P, << >>, P, V, 0)
<1>1. /\ Len(P) \in Nat /\ P \in Seq(Stages(c, 0, 7))
      /\ V[0].slots = Full(c) /\ \A y \in Full(c) : V[0].now[y] = y
  BY RouteFacts DEF Route
<1>2. Full(c) \ Missing(c, st) = st
  BY DEF Missing
<1>3. st = Held(V[0], V[0].slots \ Missing(c, st))
  BY <1>1, <1>2 DEF Held
<1>4. << >> \in Seq(Undos(P)) /\ Len(<< >>) = 0
  BY EmptySeq
<1>5. \A i \in 1..0 : << >>[i] = P[i].rollback
  OBVIOUS
<1>6. 0 \in 0..Len(P) /\ Len(P) = Len(P) - 0 /\ \A i \in 1..Len(P) : P[i] = P[0 + i]
  BY <1>1
<1>7. \A y \in V[0].slots \cap Missing(c, st) : V[0].now[y].fqdn = y.fqdn /\ V[0].now[y].ip = y.ip
  BY <1>1
<1> QED
  BY <1>1, <1>3, <1>4, <1>5, <1>6, <1>7 DEF Forth

\* No command that breaks DSDB's rules takes effect.
LEMMA NextConsistent == IInv /\ [Next]_vars => Consistent(dsdb')
<1> SUFFICES ASSUME IInv, [Next]_vars PROVE Consistent(dsdb')
  OBVIOUS
<1>1. \/ dsdb' = dsdb
      \/ \E c : ~ Refused(dsdb, c) /\ dsdb' = After(dsdb, c)
  BY DEF Next, vars, UpdateMachine, Run, RunIgnored, RunSwallowed, RunFails, RunTimesOut, CommitDone,
     CallerFails, Rollback, RollbackFails, RollbackDone
<1> QED
  BY <1>1 DEF IInv, Refused

LEMMA UpdateMachineInv == IInv /\ UpdateMachine => IInv'
<1> SUFFICES ASSUME IInv, UpdateMachine PROVE IInv'
  OBVIOUS
<1>1. /\ pc = "update" /\ pc' = "commit"
      /\ UNCHANGED <<change, start, dsdb, rollback_list, failures, doubtful, swallowed>>
  BY DEF UpdateMachine
<1>2. /\ change \in Change /\ start \in SUBSET Full(change) /\ dsdb \subseteq Entry
      /\ dsdb = start /\ rollback_list = << >>
      /\ failures = FALSE /\ doubtful = FALSE /\ swallowed = {}
  BY <1>1 DEF IInv, TypeOK
<1>3. PICK old \in SetToSeqs(change.old), new \in SetToSeqs(change.new) :
        actions' = IF change.swap = None THEN Plan(old, new, change.new)
                   ELSE << Park(change) >> \o Plan(old, new, change.new)
                        \o << Unpark(change) >>
  BY DEF UpdateMachine
<1>4. Staged(change, actions', 0, 7)
  BY <1>2, <1>3, UpdateMachineStaged
<1>5. PICK V : Route(change, actions', V)
  BY <1>2, <1>4, PlanIsRoute
<1>6. Forth(change, start, start, actions', << >>, actions', V, 0)
  BY <1>2, <1>5, ForthStarts
<1>7. \A i \in DOMAIN actions' : actions'[i].ignorable \in BOOLEAN
  BY <1>5, <1>6, ForthTyped
<1>10. Beside(start, start, {})
  BY BesideNone
<1>8. Along(actions, V, 0)'
  BY <1>1, <1>2, <1>5, <1>6, <1>10 DEF Along, Going
<1>9. TypeOK'
  BY <1>1, <1>2, <1>7 DEF TypeOK, PC
<1>20. Consistent(dsdb')
  BY NextConsistent DEF Next
<1> QED
  BY <1>20, <1>1, <1>8, <1>9 DEF IInv

LEMMA RunInv == IInv /\ (Run \/ RunIgnored \/ RunSwallowed) => IInv'
<1> SUFFICES ASSUME IInv, Run \/ RunIgnored \/ RunSwallowed PROVE IInv'
  OBVIOUS
<1>1. /\ pc = "commit" /\ actions # << >> /\ actions' = Tail(actions)
      /\ rollback_list' = Append(rollback_list, Head(actions).rollback)
      /\ UNCHANGED <<change, start, pc, failures, doubtful>>
  BY DEF Run, RunIgnored, RunSwallowed, Remember
<1>2. PICK P, V, k : Along(P, V, k)
  BY <1>1 DEF IInv
<1>3. /\ Route(change, P, V) /\ ~ failures /\ ~ doubtful
      /\ \A w \in swallowed : Swept(change, V, k, w)
  BY <1>1, <1>2 DEF Along, Going
<1>30. PICK h : /\ Forth(change, start, h, actions, rollback_list, P, V, k)
                /\ Beside(dsdb, h, swallowed)
  BY <1>1, <1>2 DEF Along, Going
<1>4. /\ change \in Change /\ start \subseteq Full(change) /\ dsdb \in SUBSET Entry
      /\ failures \in BOOLEAN /\ doubtful \in BOOLEAN /\ swallowed \in SUBSET Entry
  BY DEF IInv, TypeOK
<1>5. /\ \A w \in swallowed' : Swept(change, V, k + 1, w)
      /\ \E g : /\ Forth(change, start, g, actions', rollback_list', P, V, k + 1)
                /\ Beside(dsdb', g, swallowed')
      /\ dsdb' \subseteq Entry /\ swallowed' \subseteq Entry
  <2> DEFINE cmd == Head(actions).command
  <2>1. CASE Run
    <3>1. ~ Refused(dsdb, cmd) /\ dsdb' = After(dsdb, cmd) /\ swallowed' = swallowed
      BY <2>1 DEF Run, Command
    <3>2. /\ Forth(change, start, After(h, cmd), actions', rollback_list', P, V, k + 1)
          /\ Beside(dsdb', After(h, cmd), swallowed')
          /\ \A w \in swallowed' : Swept(change, V, k + 1, w)
      <4> HIDE DEF cmd
      <4>1. /\ Forth(change, start, After(h, Head(actions).command), Tail(actions),
                     Append(rollback_list, Head(actions).rollback), P, V, k + 1)
            /\ Beside(After(dsdb, Head(actions).command), After(h, Head(actions).command),
                      swallowed)
            /\ \A w \in swallowed : Swept(change, V, k + 1, w)
        BY <1>1, <1>3, <1>4, <1>30, <3>1, LeftRun DEF cmd
      <4> QED
        BY <1>1, <3>1, <4>1 DEF cmd
    <3>3. k + 1 \in 1..Len(P) /\ Head(actions) = P[k + 1]
      BY <1>1, <1>3, <1>30, ForthFacts
    <3>4. dsdb' \subseteq Entry
      BY <1>3, <1>4, <3>1, <3>3, RouteTyped
    <3> QED
      BY <1>4, <3>1, <3>2, <3>4
  <2>2. CASE RunIgnored \/ RunSwallowed
    <3>1. /\ Head(actions).ignorable /\ dsdb' = dsdb
          /\ swallowed' = swallowed \cup Target(dsdb, cmd)
      <4>1. CASE RunIgnored
        <5>1. NotDefined(dsdb, cmd) /\ swallowed' = swallowed
          BY <4>1 DEF RunIgnored, Command
        <5>2. Target(dsdb, cmd) = {}
          BY <5>1 DEF NotDefined
        <5> QED
          BY <4>1, <5>1, <5>2 DEF RunIgnored
      <4>2. CASE RunSwallowed
        BY <4>2 DEF RunSwallowed, Command
      <4> QED
        BY <2>2, <4>1, <4>2
    <3>2. /\ swallowed' \subseteq Entry
          /\ \A w \in swallowed' : Swept(change, V, k + 1, w)
          /\ \E g : /\ Forth(change, start, g, actions', rollback_list', P, V, k + 1)
                    /\ Beside(dsdb, g, swallowed')
      <4> DEFINE X == swallowed \cup Target(dsdb, Head(actions).command)
      <4>1. /\ X \subseteq Entry
            /\ \A w \in X : Swept(change, V, k + 1, w)
            /\ \E g : /\ Forth(change, start, g, Tail(actions),
                               Append(rollback_list, Head(actions).rollback), P, V, k + 1)
                      /\ Beside(dsdb, g, X)
        BY <1>1, <1>3, <1>4, <1>30, <3>1, LeftSwallowed
      <4>2. swallowed' = X
        BY <3>1
      <4> HIDE DEF X
      <4> QED
        BY <1>1, <4>1, <4>2
    <3> QED
      BY <1>4, <3>1, <3>2
  <2> QED
    BY <2>1, <2>2
<1>6. \A i \in DOMAIN actions' : actions'[i].ignorable \in BOOLEAN
  BY <1>3, <1>5, ForthTyped
<1>7. Along(P, V, k + 1)'
  BY <1>1, <1>3, <1>5 DEF Along, Going
<1>8. TypeOK'
  BY <1>1, <1>4, <1>5, <1>6 DEF TypeOK, PC
<1>20. Consistent(dsdb')
  BY NextConsistent DEF Next
<1> QED
  BY <1>20, <1>1, <1>7, <1>8 DEF IInv

LEMMA RollbackStartsInv == IInv /\ (RunFails \/ RunTimesOut \/ CallerFails) => IInv'
<1> SUFFICES ASSUME IInv, RunFails \/ RunTimesOut \/ CallerFails PROVE IInv'
  OBVIOUS
<1>1. /\ pc \in {"commit", "committed"} /\ pc' = "rollback"
      /\ rollback_list' = Reverse(rollback_list)
      /\ UNCHANGED <<change, start, actions, failures, swallowed>>
  BY DEF RunFails, RunTimesOut, CallerFails, StartRollback
<1>2. PICK P, V, k : Along(P, V, k)
  BY <1>1 DEF IInv
<1>3. /\ Route(change, P, V) /\ ~ failures /\ ~ doubtful
      /\ \A w \in swallowed : Swept(change, V, k, w)
  BY <1>1, <1>2 DEF Along, Going
<1>30. PICK h : /\ Forth(change, start, h, actions, rollback_list, P, V, k)
                /\ Beside(dsdb, h, swallowed)
  BY <1>1, <1>2 DEF Along, Going
<1>4. /\ change \in Change /\ start \subseteq Full(change) /\ dsdb \in SUBSET Entry
      /\ failures \in BOOLEAN /\ doubtful \in BOOLEAN /\ swallowed \in SUBSET Entry
      /\ \A i \in DOMAIN actions : actions[i].ignorable \in BOOLEAN
  BY DEF IInv, TypeOK
<1>5. /\ Back(change, start, dsdb', rollback_list', P, V, k)
      /\ Restored(change, start, h, V, k)
  BY <1>1, <1>3, <1>30, ForthTurns
<1>6. /\ dsdb' \subseteq Entry /\ doubtful' \in BOOLEAN
      /\ \A w \in swallowed : \E e \in dsdb' : IsLeft(e, w)
      /\ swallowed = {} => \/ dsdb' = h /\ doubtful' = doubtful
                           \/ doubtful' = TRUE /\ Near(dsdb', V[k], Missing(change, start))
  <2>1. CASE RunFails \/ CallerFails
    <3>1. dsdb' = dsdb /\ doubtful' = doubtful
      BY <2>1 DEF RunFails, CallerFails
    <3>2. swallowed = {} => dsdb = h
      BY <1>30, BesideNone
    <3>3. \A w \in swallowed : \E e \in dsdb : IsLeft(e, w)
      BY <1>30 DEF Beside
    <3> QED
      BY <1>4, <3>1, <3>2, <3>3
  <2>2. CASE RunTimesOut
    <3> DEFINE cmd == Head(actions).command
    <3>1. /\ actions # << >> /\ doubtful' = TRUE
          /\ ~ Refused(dsdb, cmd) /\ dsdb' = After(dsdb, cmd)
      BY <2>2 DEF RunTimesOut, Command
    <3>2. swallowed = {} => Near(dsdb', V[k], Missing(change, start))
      <4> SUFFICES ASSUME swallowed = {} PROVE Near(dsdb', V[k], Missing(change, start))
        OBVIOUS
      <4>1. dsdb = h
        BY <1>30, BesideNone
      <4> QED
        BY <1>3, <1>30, <3>1, <4>1, ForthDoubt
    <3>3. \A w \in swallowed : \E e \in dsdb' : IsLeft(e, w)
      <4>1. Beside(After(dsdb, Head(actions).command), After(h, Head(actions).command), swallowed)
        BY <1>3, <1>4, <1>30, <3>1, LeftRun
      <4> QED
        BY <3>1, <4>1 DEF Beside
    <3>4. k + 1 \in 1..Len(P) /\ Head(actions) = P[k + 1]
      BY <1>3, <1>30, <3>1, ForthFacts
    <3>5. dsdb' \subseteq Entry
      BY <1>3, <1>4, <3>1, <3>4, RouteTyped
    <3> QED
      BY <3>1, <3>2, <3>3, <3>5
  <2> QED
    BY <2>1, <2>2
<1>7. Undoing(P, V, k)'
  BY <1>1, <1>3, <1>5, <1>6 DEF Undoing
<1>8. Along(P, V, k)'
  BY <1>1, <1>3, <1>7 DEF Along
<1>9. TypeOK'
  BY <1>1, <1>4, <1>6 DEF TypeOK, PC
<1>20. Consistent(dsdb')
  BY NextConsistent DEF Next
<1> QED
  BY <1>20, <1>1, <1>8, <1>9 DEF IInv

LEMMA CommitDoneInv == IInv /\ CommitDone => IInv'
<1> SUFFICES ASSUME IInv, CommitDone PROVE IInv'
  OBVIOUS
<1>1. /\ pc = "commit" /\ actions = << >> /\ pc' = "committed"
      /\ UNCHANGED <<change, start, dsdb, actions, rollback_list, failures, doubtful,
                   swallowed>>
  BY DEF CommitDone
<1>2. PICK P, V, k : Along(P, V, k)
  BY <1>1 DEF IInv
<1>3. Route(change, P, V) /\ Going(P, V, k)
  BY <1>1, <1>2 DEF Along
<1>30. PICK h : Forth(change, start, h, actions, rollback_list, P, V, k)
  BY <1>3 DEF Going
<1>4. k = Len(P)
  <2>1. Len(P) \in Nat /\ Len(actions) = Len(P) - k /\ k \in 0..Len(P)
    BY <1>3, <1>30, RouteFacts DEF Forth
  <2>2. Len(actions) = 0
    BY <1>1
  <2> QED
    BY <2>1, <2>2
<1>5. Along(P, V, k)'
  BY <1>1, <1>3, <1>4 DEF Along, Going
<1>6. TypeOK'
  BY <1>1 DEF IInv, TypeOK, PC
<1>20. Consistent(dsdb')
  BY NextConsistent DEF Next
<1> QED
  BY <1>20, <1>1, <1>5, <1>6 DEF IInv

LEMMA RollbackInv == IInv /\ (Rollback \/ RollbackFails) => IInv'
<1> SUFFICES ASSUME IInv, Rollback \/ RollbackFails PROVE IInv'
  OBVIOUS
<1>1. /\ pc = "rollback" /\ rollback_list # << >> /\ rollback_list' = Tail(rollback_list)
      /\ UNCHANGED <<change, start, actions, pc, doubtful, swallowed>>
  BY DEF Rollback, RollbackFails, Undone
<1>2. PICK P, V, k : Along(P, V, k)
  BY <1>1 DEF IInv
<1>3. Route(change, P, V) /\ Undoing(P, V, k)
      /\ Back(change, start, dsdb, rollback_list, P, V, k)
  BY <1>1, <1>2 DEF Along, Undoing
<1>4. /\ change \in Change /\ start \subseteq Full(change) /\ dsdb \in SUBSET Entry
      /\ failures \in BOOLEAN /\ doubtful \in BOOLEAN /\ swallowed \in SUBSET Entry
      /\ \A i \in DOMAIN actions : actions[i].ignorable \in BOOLEAN
  BY DEF IInv, TypeOK
<1>5. /\ Back(change, start, dsdb', rollback_list', P, V, k - 1)
      /\ Head(rollback_list) = P[k].rollback /\ k \in 1..Len(P)
  <2>1. k - 1 \in 0..Len(P) /\ Head(rollback_list) = P[k].rollback
        /\ Back(change, start, dsdb', rollback_list', P, V, k - 1)
    BY <1>1, <1>3, BackFacts
  <2>2. Len(P) \in Nat /\ k \in 0..Len(P)
    BY <1>3, RouteFacts DEF Back
  <2> QED
    BY <2>1, <2>2
<1>6. \/ failures' = TRUE /\ dsdb' = dsdb
      \/ /\ failures' = failures /\ dsdb' \subseteq Entry
         /\ ~ failures => \A w \in swallowed : /\ Swept(change, V, k - 1, w)
                                               /\ \E e \in dsdb' : IsLeft(e, w)
         /\ ~ failures /\ swallowed = {} =>
              /\ ~ doubtful => Restored(change, start, dsdb', V, k - 1)
              /\ doubtful => Near(dsdb', V[k - 1], Missing(change, start))
  <2>1. CASE RollbackFails
    BY <2>1 DEF RollbackFails
  <2>2. CASE Rollback
    <3>1. /\ ~ Refused(dsdb, Head(rollback_list)) /\ failures' = failures
          /\ dsdb' = After(dsdb, Head(rollback_list))
      BY <2>2 DEF Rollback
    <3>2. dsdb' \subseteq Entry
      BY <1>3, <1>4, <1>5, <3>1, RouteTyped
    <3>3. ~ failures /\ swallowed = {} /\ ~ doubtful => Restored(change, start, dsdb', V, k - 1)
      BY <1>1, <1>3, <3>1, BackRestored DEF Undoing
    <3>4. ~ failures /\ swallowed = {} /\ doubtful => Near(dsdb', V[k - 1], Missing(change, start))
      BY <1>1, <1>3, <3>1, BackNear DEF Undoing
    <3>5. ASSUME ~ failures, NEW w \in swallowed
          PROVE  Swept(change, V, k - 1, w) /\ \E e \in dsdb' : IsLeft(e, w)
      <4>1. PICK e \in dsdb : IsLeft(e, w)
        BY <1>3, <3>5 DEF Undoing
      <4>2. Swept(change, V, k, w) /\ w \in Entry
        BY <1>3, <1>4, <3>5 DEF Undoing
      <4>3. /\ Swept(change, V, k - 1, w)
            /\ \E f \in After(dsdb, Head(rollback_list)) : IsLeft(f, w)
        BY <1>1, <1>3, <3>1, <4>1, <4>2, LeftBack
      <4> QED
        BY <3>1, <4>3
    <3> QED
      BY <3>1, <3>2, <3>3, <3>4, <3>5
  <2> QED
    BY <2>1, <2>2
<1>7. Undoing(P, V, k - 1)'
  BY <1>1, <1>5, <1>6 DEF Undoing
<1>8. Along(P, V, k - 1)'
  BY <1>1, <1>3, <1>7 DEF Along
<1>9. TypeOK'
  BY <1>1, <1>4, <1>6 DEF TypeOK, PC
<1>20. Consistent(dsdb')
  BY NextConsistent DEF Next
<1> QED
  BY <1>20, <1>1, <1>8, <1>9 DEF IInv

LEMMA RollbackDoneInv == IInv /\ RollbackDone => IInv'
<1> SUFFICES ASSUME IInv, RollbackDone PROVE IInv'
  OBVIOUS
<1>1. /\ pc = "rollback" /\ rollback_list = << >>
      /\ pc' = (IF failures THEN "inconsistent" ELSE "failed")
      /\ UNCHANGED <<change, start, dsdb, actions, rollback_list, failures, doubtful,
                   swallowed>>
  BY DEF RollbackDone
<1>2. PICK P, V, k : Along(P, V, k)
  BY <1>1 DEF IInv
<1>3. Route(change, P, V) /\ Undoing(P, V, k)
  BY <1>1, <1>2 DEF Along
<1>4. k = 0
  <2>1. Len(rollback_list) = 0
    BY <1>1
  <2> QED
    BY <1>3, <2>1 DEF Undoing, Back
<1>5. Undoing(P, V, k)'
  BY <1>1, <1>3 DEF Undoing
<1>6. Along(P, V, k)'
  BY <1>1, <1>3, <1>4, <1>5 DEF Along
<1>7. TypeOK'
  BY <1>1 DEF IInv, TypeOK, PC
<1>8. pc' = "failed" => ~ failures'
  BY <1>1
<1>9. pc' # "update"
  BY <1>1
<1>20. Consistent(dsdb')
  BY NextConsistent DEF Next
<1> QED
  BY <1>20, <1>6, <1>7, <1>8, <1>9 DEF IInv

LEMMA StutterInv == IInv /\ UNCHANGED vars => IInv'
<1> SUFFICES ASSUME IInv, UNCHANGED vars PROVE IInv'
  OBVIOUS
<1>1. UNCHANGED <<change, start, dsdb, actions, rollback_list, pc, failures, doubtful,
                 swallowed>>
  BY DEF vars
<1>2. TypeOK'
  BY <1>1 DEF IInv, TypeOK
<1>3. ASSUME NEW P, NEW V, NEW k, Along(P, V, k) PROVE Along(P, V, k)'
  BY <1>1, <1>3 DEF Along, Going, Undoing
<1>20. Consistent(dsdb')
  BY NextConsistent DEF Next
<1> QED
  BY <1>20, <1>1, <1>2, <1>3 DEF IInv

\* The invariant holds of every change, whatever DSDB lacked before.
THEOREM InvHolds == Spec => []IInv
<1>1. ASSUME IInv, [Next]_vars PROVE IInv'
  BY <1>1, UpdateMachineInv, RunInv, RollbackStartsInv, CommitDoneInv, RollbackInv,
     RollbackDoneInv, StutterInv DEF Next
<1> QED
  BY <1>1, InitInv, PTL DEF Spec

\* The commands, DSDB's entries and the flags are what they should be.
THEOREM TypeOKHolds == Spec => []TypeOK
<1>1. IInv => TypeOK
  BY DEF IInv
<1> QED
  BY <1>1, InvHolds, PTL

\* A DSDB in step refuses nothing, forth or back, but to forget a MAC address.
THEOREM NeverRefusedHolds == Spec => []NeverRefused
<1>1. IInv => NeverRefused
  <2> SUFFICES ASSUME IInv, start = Full(change), PrimaryStays(change), swallowed = {},
                      ~ doubtful, ~ failures
               PROVE  /\ pc = "commit" /\ actions # << >> => ~ Refused(dsdb, Command)
                      /\ pc = "rollback" /\ rollback_list # << >> =>
                           (Refused(dsdb, Head(rollback_list))
                              => Head(rollback_list).mac = TextNone)
    BY DEF NeverRefused
  <2>0. Missing(change, start) = {}
    BY DEF Missing
  <2>1. ASSUME pc = "commit", actions # << >> PROVE ~ Refused(dsdb, Command)
    <3>1. PICK P, V, k : Along(P, V, k)
      BY <2>1 DEF IInv
    <3>2. /\ Route(change, P, V)
          /\ Forth(change, start, dsdb, actions, rollback_list, P, V, k)
      <4>1. Route(change, P, V) /\ Going(P, V, k)
        BY <2>1, <3>1 DEF Along
      <4> QED
        BY <4>1, BesideNone DEF Going
    <3>3. /\ Head(actions) = P[k + 1] /\ Sound(V[k]) /\ Sound(V[k + 1])
          /\ \E x : Moves(V[k], P[k + 1].command, V[k + 1], x)
          /\ Told(P[k + 1].command) /\ k + 1 \in 0..Len(P)
      <4>1. OneMore(change, actions, rollback_list, P, k)
        BY <2>1, <3>2, ForthLists
      <4> QED
        BY <2>1, <3>2, <4>1, ForthFacts DEF OneMore
    <3>10. Rooted(V[k + 1])
      BY <3>2, <3>3 DEF Route
    <3>4. dsdb = Held(V[k], V[k].slots \ {})
      BY <2>0, <3>2 DEF Forth
    <3>5. dsdb = Held(V[k], V[k].slots)
      BY <3>4 DEF Held
    <3>6. ~ Refused(Held(V[k], V[k].slots), P[k + 1].command)
      BY <3>3, <3>10, MoveAccepted
    <3> QED
      BY <3>3, <3>5, <3>6 DEF Command
  <2>2. ASSUME pc = "rollback", rollback_list # << >>, Refused(dsdb, Head(rollback_list))
        PROVE  Head(rollback_list).mac = TextNone
    <3>1. PICK P, V, k : Along(P, V, k)
      BY <2>2 DEF IInv
    <3>2. /\ Route(change, P, V)
          /\ Back(change, start, dsdb, rollback_list, P, V, k)
          /\ Restored(change, start, dsdb, V, k)
      BY <2>2, <3>1 DEF Along, Undoing
    <3>3. /\ Head(rollback_list) = P[k].rollback /\ Sound(V[k]) /\ Sound(V[k - 1])
          /\ \E x : Moves(V[k], P[k].rollback, V[k - 1], x)
          /\ k - 1 \in 0..Len(P)
      BY <2>2, <3>2, BackFacts
    <3>10. Rooted(V[k - 1])
      BY <3>2, <3>3 DEF Route
    <3>4. PICK Y \in SUBSET V[k].slots : V[k].slots \ {} \subseteq Y /\ dsdb = Held(V[k], Y)
      BY <2>0, <3>2 DEF Restored
    <3>5. Y = V[k].slots
      BY <3>4
    <3>6. dsdb = Held(V[k], V[k].slots)
      BY <3>4, <3>5
    <3>7. Told(P[k].rollback) => ~ Refused(Held(V[k], V[k].slots), P[k].rollback)
      BY <3>3, <3>10, MoveAccepted
    <3>8. ~ Told(P[k].rollback)
      BY <2>2, <3>3, <3>6, <3>7
    <3> QED
      BY <3>3, <3>8 DEF Told
  <2> QED
    BY <2>1, <2>2
<1> QED
  BY <1>1, InvHolds, PTL

LEMMA WantedTyped ==
  ASSUME NEW c \in Change
  PROVE  Wanted(c) \subseteq Entry
<1>1. c.new \subseteq Entry
  BY ChangeFacts
<1>2. c.swap # None => [c.swap EXCEPT !.ip = c.old_ip] \in Entry
  BY ChangeFacts DEF IsSwap, Entry
<1> QED
  BY <1>1, <1>2 DEF Wanted

LEMMA TellsNames ==
  ASSUME NEW e, NEW n \in Entry, Tells(e, n)
  PROVE  e.fqdn = n.fqdn /\ e.ip = n.ip
<1> DEFINE m == IF n.mac = None THEN e.mac ELSE n.mac
<1>1. e = [n EXCEPT !.mac = m]
  BY DEF Tells
<1> HIDE DEF m
<1> QED
  BY <1>1 DEF Entry

LEMMA NearlyNames ==
  ASSUME NEW e \in Entry, NEW n \in Entry, Nearly(e, n)
  PROVE  e.fqdn = n.fqdn /\ e.ip = n.ip
<1> DEFINE f == [e EXCEPT !.primary = n.primary]
<1>1. f.fqdn = e.fqdn /\ f.ip = e.ip
  BY DEF Entry
<1> HIDE DEF f
<1>2. Tells(f, n)
  BY DEF Nearly, f
<1> QED
  BY <1>1, <1>2, TellsNames

\* Nothing was left when every deletion was undone.
LEMMA FailedHasNoneLeft == IInv /\ pc = "failed" => swallowed = {}
<1> SUFFICES ASSUME IInv, pc = "failed", NEW w \in swallowed PROVE FALSE
  OBVIOUS
<1>1. PICK P, V, k : Along(P, V, k)
  BY DEF IInv
<1>2. Route(change, P, V) /\ k = 0 /\ Swept(change, V, 0, w)
  BY <1>1 DEF IInv, Along, Undoing
<1> QED
  BY <1>2 DEF Route, Swept

\* What the runner reports is what DSDB shows: the new entries after a commit,
\* with those whose deletion was swallowed, and the old ones after a rollback.
THEOREM DsdbMatchesOutcomeHolds == Spec => []DsdbMatchesOutcome
<1>1. ASSUME IInv, pc = "committed" PROVE CommittedIsNew
  <2>0. change \in Change /\ swallowed \in SUBSET Entry
    BY <1>1 DEF IInv, TypeOK
  <2>1. PICK P, V, k : Along(P, V, k)
    BY <1>1 DEF IInv
  <2> DEFINE n == Len(P)
             r == V[n]
             M == Missing(change, start)
  <2>2. Route(change, P, V) /\ Going(P, V, n)
    BY <1>1, <2>1 DEF Along
  <2>20. PICK h : /\ Forth(change, start, h, actions, rollback_list, P, V, n)
                  /\ Beside(dsdb, h, swallowed)
    BY <2>2 DEF Going
  <2>21. PICK L : /\ dsdb = h \cup L
                  /\ \A e \in L : \E w \in swallowed : IsLeft(e, w)
    BY <2>20 DEF Beside
  <2>3. /\ h = Held(r, r.slots \ M)
        /\ \A y \in r.slots \cap M : r.now[y].fqdn = y.fqdn /\ r.now[y].ip = y.ip
    BY <2>20 DEF Forth
  <2>4. Tell(r, change)
    BY <2>2 DEF Route
  <2>6. \A y \in r.slots : r.now[y] \in Entry
    <3>1. n \in 0..n
      BY <2>2, RouteFacts
    <3> QED
      BY <2>2, <3>1, RouteFacts DEF Sound
  <2> HIDE DEF r
  <2>10. ASSUME NEW y \in r.slots \ M, Orphan(r, y)
         PROVE  \E x \in swallowed : r.now[y].primary = x.fqdn
    <3>1. r.now[y] \in dsdb /\ r.now[y].primary # None
      BY <2>3, <2>10, <2>21 DEF Held, Orphan
    <3>2. PICK e \in dsdb : e.fqdn = r.now[y].primary
      BY <1>1, <3>1 DEF IInv, Consistent
    <3>3. e \notin h
      BY <2>3, <2>10, <3>2 DEF Orphan, Held
    <3>4. PICK x \in swallowed : IsLeft(e, x)
      BY <2>21, <3>3
    <3>5. e.fqdn = x.fqdn
      BY <2>0, <3>4, LeftIs
    <3> QED
      BY <3>2, <3>5
  <2>11. ASSUME NEW y \in r.slots \ M, NEW w, Shows(r, y, w) PROVE TellsOrHangs(r.now[y], w)
    BY <2>10, <2>11 DEF Shows, Nearly, TellsOrHangs
  <2>5. ASSUME NEW e \in dsdb
        PROVE  \/ \E w \in Wanted(change) : TellsOrHangs(e, w)
               \/ \E x \in swallowed : IsLeft(e, x)
    <3>1. CASE e \in L
      BY <2>21, <3>1
    <3>2. CASE e \in h
      BY <2>3, <2>4, <2>11, <3>2 DEF Held, Tell
    <3> QED
      BY <2>21, <3>1, <3>2
  <2>7. ASSUME NEW w \in Wanted(change)
        PROVE  \/ \E e \in dsdb : TellsOrHangs(e, w)
               \/ \E e \in Full(change) \ start : e.fqdn = w.fqdn /\ e.ip = w.ip
    <3>1. PICK y \in r.slots : Shows(r, y, w)
      BY <2>4 DEF Tell
    <3>2. CASE y \notin M
      <4>1. r.now[y] \in dsdb
        BY <2>3, <2>21, <3>2 DEF Held
      <4> QED
        BY <2>11, <3>1, <3>2, <4>1
    <3>3. CASE y \in M
      <4>1. r.now[y].fqdn = w.fqdn /\ r.now[y].ip = w.ip
        BY <2>0, <2>6, <3>1, TellsNames, NearlyNames, WantedTyped DEF Shows
      <4> QED
        BY <2>3, <3>3, <4>1 DEF Missing
    <3> QED
      BY <3>2, <3>3
  <2> QED
    BY <2>5, <2>7 DEF CommittedIsNew
<1>2. ASSUME IInv, pc = "failed", ~ doubtful PROVE start \subseteq dsdb /\ dsdb \subseteq Full(change)
  <2>1. PICK P, V, k : Along(P, V, k)
    BY <1>2 DEF IInv
  <2>2. /\ Route(change, P, V) /\ ~ failures /\ k = 0
        /\ Restored(change, start, dsdb, V, 0)
    BY <1>2, <2>1, FailedHasNoneLeft DEF IInv, Along, Undoing
  <2>3. V[0].slots = Full(change) /\ \A y \in Full(change) : V[0].now[y] = y
    BY <2>2 DEF Route
  <2>4. PICK Y \in SUBSET Full(change) :
          Full(change) \ Missing(change, start) \subseteq Y /\ dsdb = Held(V[0], Y)
    BY <2>2, <2>3 DEF Restored
  <2>5. dsdb = Y
    BY <2>3, <2>4 DEF Held
  <2>6. Full(change) \ Missing(change, start) = start
    BY <1>2 DEF IInv, TypeOK, Missing
  <2> QED
    BY <2>4, <2>5, <2>6
<1>3. IInv => DsdbMatchesOutcome
  BY <1>1, <1>2, FailedHasNoneLeft DEF DsdbMatchesOutcome, CommittedIsNew, RolledBackIsOld
<1> QED
  BY <1>3, InvHolds, PTL

\* A command that took effect though it was reported to fail leaves one entry too
\* few and one too many at most.
THEOREM DoubtIsLocalHolds == Spec => []DoubtIsLocal
<1>1. ASSUME IInv, pc = "failed", doubtful
      PROVE  /\ Cardinality(Bares(start) \ Bares(dsdb)) <= 1
             /\ Cardinality(Bares(dsdb) \ Bares(Full(change))) <= 1
  <2>1. PICK P, V, k : Along(P, V, k)
    BY <1>1 DEF IInv
  <2>2. /\ Route(change, P, V) /\ ~ failures /\ k = 0
        /\ Near(dsdb, V[0], Missing(change, start))
    BY <1>1, <2>1, FailedHasNoneLeft DEF IInv, Along, Undoing
  <2>3. V[0].slots = Full(change) /\ \A y \in Full(change) : V[0].now[y] = y
    BY <2>2 DEF Route
  <2>4. PICK lost, extra : Off(dsdb, V[0], Missing(change, start), lost, extra)
    BY <2>2 DEF Near
  <2>5. start \subseteq Full(change) /\ start = Full(change) \ Missing(change, start)
    BY <1>1 DEF IInv, TypeOK, Missing
  <2>6. \A y \in start : Bare(y) \in {lost} \cup Bares(dsdb)
    BY <2>3, <2>4, <2>5 DEF Off
  <2>7. \A z \in dsdb : Bare(z) \in {extra} \cup Bares(Full(change))
    BY <2>3, <2>4 DEF Off, Bares
  <2>8. Bares(start) \ Bares(dsdb) \subseteq {lost}
    BY <2>6 DEF Bares
  <2>9. Bares(dsdb) \ Bares(Full(change)) \subseteq {extra}
    BY <2>7 DEF Bares
  <2> QED
    BY <2>8, <2>9, AtMostOne
<1>2. IInv => DoubtIsLocal
  BY <1>1, Zenon DEF DoubtIsLocal, Bares, Bare
<1> QED
  BY <1>2, InvHolds, PTL

=============================================================================
