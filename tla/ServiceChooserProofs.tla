------------------------ MODULE ServiceChooserProofs ------------------------
(***************************************************************************)
(* One binding per object, members bound as their cluster, and no instance *)
(* overbooked by one command, for any number of hosts, instances, commands *)
(* and threads.                                                            *)
(***************************************************************************)
EXTENDS ServiceChooser, FiniteSetTheorems, SequenceTheorems, TLAPS

Fields == {"kind", "objects", "only", "single", "instance", "force", "wants", "joins",
           "read", "add", "del", "maps", "count", "loaded", "held", "alone",
           "miscounted", "moved"}

NoRepeat(s) == \A i, j \in 1..Len(s) : i # j => s[i] # s[j]

One(S) == \A i, j \in S : i = j

\* The command adds a binding of o.
Adds(r, o) == \E i \in Instances : <<o, i>> \in r.add

\* A command, as far as its objects and its locks go.  It has changed nothing
\* of the objects it still has to work on, and adds only to locked ones.
WellFormed(r) ==
    /\ DOMAIN r = Fields
    /\ r.objects \in Seq(Objects) /\ NoRepeat(r.objects)
    /\ r.joins \subseteq Hosts
    /\ \A o \in Listed(r.objects) : ~Adds(r, o)
    /\ \A o \in Objects : Adds(r, o) => o \in r.held

Types ==
    /\ thread = [t \in Threads |-> thread[t]]
    /\ bound \in [Objects -> SUBSET Instances]
    /\ member \subseteq Hosts
    /\ \A t \in Running : WellFormed(thread[t])

\* A row has one holder, and commands that overlap are known to.
Apart ==
    /\ \A t, u \in Running : t # u => thread[t].held \cap thread[u].held = {}
    /\ \A t, u \in Running : t # u => thread[t].kind \in overlapped

\* Only a list has loaded bindings early, and they hold while it is alone.
Loaded ==
    \A t \in Running :
        /\ thread[t].kind # "list" => thread[t].read = None
        /\ (thread[t].kind = "list" /\ thread[t].objects # << >> /\ "list" \notin overlapped)
            => thread[t].read = bound

\* What the session of r sees of o where bnd is committed
View(bnd, r, o) == {i \in Instances : <<o, i>> \in r.add \/ (i \in bnd[o] /\ <<o, i>> \notin r.del)}

\* Nobody sees two bindings of an object.
Single ==
    "list" \notin overlapped =>
        \A o \in Objects :
            One(bound[o]) /\ \A t \in Running : One(View(bound, thread[t], o))

IInv == Types /\ Apart /\ Loaded /\ Single

-----------------------------------------------------------------------------
(* Lists of objects                                                         *)

LEMMA HeadGone ==
    ASSUME NEW s \in Seq(Objects), s # << >>, NoRepeat(s)
    PROVE  /\ Head(s) \in Objects /\ Head(s) \in Listed(s)
           /\ Tail(s) \in Seq(Objects) /\ NoRepeat(Tail(s))
           /\ Listed(Tail(s)) = Listed(s) \ {Head(s)}
<1>1. /\ Head(s) \in Objects /\ Tail(s) \in Seq(Objects)
      /\ Len(Tail(s)) = Len(s) - 1
      /\ \A i \in 1..Len(Tail(s)) : Tail(s)[i] = s[i + 1]
  BY HeadTailProperties
<1>2. Len(s) \in Nat \ {0} /\ Head(s) = s[1]
  BY EmptySeq
<1>3. NoRepeat(Tail(s))
  BY <1>1, <1>2 DEF NoRepeat
<1>4. ASSUME NEW i \in 1..Len(Tail(s))
      PROVE  Tail(s)[i] \in Listed(s) \ {Head(s)}
  <2>1. i + 1 \in 1..Len(s) /\ i + 1 # 1 /\ Tail(s)[i] = s[i + 1] /\ 1 \in 1..Len(s)
    BY <1>1, <1>2
  <2> QED
    BY <1>2, <2>1 DEF Listed, NoRepeat
<1>5. Head(s) \in Listed(s)
  BY <1>2 DEF Listed
<1>6. ASSUME NEW i \in 1..Len(s), s[i] # Head(s)
      PROVE  s[i] \in Listed(Tail(s))
  <2>1. i - 1 \in 1..Len(Tail(s)) /\ Tail(s)[i - 1] = s[i]
    BY <1>1, <1>2, <1>6
  <2> QED
    BY <2>1 DEF Listed
<1>7. Listed(Tail(s)) = Listed(s) \ {Head(s)}
  <2>1. Listed(Tail(s)) \subseteq Listed(s) \ {Head(s)}
    BY <1>4 DEF Listed
  <2>2. \A x \in Listed(s) : x # Head(s) => x \in Listed(Tail(s))
    BY <1>6 DEF Listed
  <2> QED
    BY <2>1, <2>2
<1> QED
  BY <1>1, <1>3, <1>5, <1>7

LEMMA OrdersOnce ==
    ASSUME NEW S \in SUBSET Hosts, NEW s \in Orders(S)
    PROVE  s \in Seq(Objects) /\ NoRepeat(s) /\ Listed(s) = S
<1> DEFINE n == Cardinality(S)
<1>1. IsFiniteSet(S) /\ n \in Nat
  BY ChooserAssumption, FS_Subset, FS_CardinalityType
<1>2. s \in [1..n -> S] /\ Listed(s) = S
  BY DEF Orders
<1>3. s \in Seq(Objects) /\ Len(s) = n
  <2>1. s \in [1..n -> Objects]
    BY <1>2 DEF Objects
  <2> QED
    BY <1>1, <2>1, IsASeq
<1>4. IsFiniteSet(1..n) /\ Cardinality(1..n) = n
  <2>1. 1 \in Int /\ n \in Int /\ (IF 1 > n THEN 0 ELSE n - 1 + 1) = n
    BY <1>1
  <2> QED
    BY <2>1, FS_Interval
<1>5. s \in Surjection(1..n, S)
  BY <1>2, <1>3 DEF Surjection, Listed
<1>6. s \in Injection(1..n, S)
  <2> DEFINE D == 1..n
  <2>1. IsFiniteSet(D) /\ Cardinality(D) = Cardinality(S) /\ s \in Surjection(D, S)
    BY <1>4, <1>5
  <2> HIDE DEF D
  <2>2. s \in Injection(D, S)
    BY <2>1, FS_SurjSameCardinalityImpliesInj
  <2> QED
    BY <2>2 DEF D
<1> QED
  BY <1>2, <1>3, <1>6 DEF Injection, IsInjective, NoRepeat

LEMMA ClusterFirst ==
    ASSUME NEW S \in SUBSET Hosts, NEW s \in Orders(S)
    PROVE  /\ <<Cluster>> \o s \in Seq(Objects) /\ NoRepeat(<<Cluster>> \o s)
           /\ Head(<<Cluster>> \o s) = Cluster
           /\ Listed(<<Cluster>> \o s) = {Cluster} \cup S
<1> DEFINE c == <<Cluster>>
           a == c \o s
<1>1. s \in Seq(Objects) /\ NoRepeat(s) /\ Listed(s) = S
  BY OrdersOnce
<1>2. c \in Seq(Objects) /\ Len(c) = 1 /\ c[1] = Cluster
  BY DEF Objects
<1>3. /\ a \in Seq(Objects) /\ Len(a) = 1 + Len(s)
      /\ \A i \in 1..1 + Len(s) : a[i] = IF i <= 1 THEN c[i] ELSE s[i - 1]
  BY <1>1, <1>2, ConcatProperties
<1>4. Len(s) \in Nat /\ \A i \in 1..Len(s) : s[i] # Cluster
  BY <1>1, LenProperties, ChooserAssumption DEF Listed
<1>5. NoRepeat(a)
  BY <1>1, <1>2, <1>3, <1>4 DEF NoRepeat
<1> HIDE DEF a, c
<1>6. a[1] = Cluster /\ Head(a) = Cluster
  BY <1>2, <1>3, <1>4, EmptySeq, HeadTailProperties
<1>7. Listed(a) = {Cluster} \cup S
  <2>1. ASSUME NEW i \in 1..Len(a)
        PROVE  a[i] \in {Cluster} \cup S
    BY <1>1, <1>2, <1>3, <1>4, <2>1 DEF Listed
  <2>2. ASSUME NEW j \in 1..Len(s)
        PROVE  s[j] \in Listed(a)
    <3>1. j + 1 \in 1..Len(a) /\ a[j + 1] = s[j]
      BY <1>3, <1>4
    <3> QED
      BY <3>1 DEF Listed
  <2>3. Cluster \in Listed(a)
    BY <1>3, <1>4, <1>6 DEF Listed
  <2>4. S \subseteq Listed(a)
    BY <1>1, <2>2 DEF Listed
  <2>5. Listed(a) \subseteq {Cluster} \cup S
    BY <2>1 DEF Listed
  <2> QED
    BY <2>3, <2>4, <2>5
<1> QED
  BY <1>3, <1>5, <1>6, <1>7 DEF a, c
-----------------------------------------------------------------------------
(* Client counts                                                            *)

LEMMA ClientsNat ==
    ASSUME NEW bnd, NEW mem, NEW x
    PROVE  Clients(bnd, mem, x) \in Nat
<1> DEFINE hosts == {h \in Hosts : x \in bnd[h]}
<1>1. IsFiniteSet(hosts) /\ IsFiniteSet(hosts \ mem)
  BY ChooserAssumption, FS_Subset
<1>2. Cardinality(hosts) \in Nat /\ Cardinality(hosts \ mem) \in Nat
  BY <1>1, FS_CardinalityType
<1> QED
  BY <1>2, ChooserAssumption DEF Clients

-----------------------------------------------------------------------------
(* What working on one object makes of a command                            *)

\* The parts of a record that only its beginning and its end change
Kept(r, s) ==
    /\ DOMAIN s = Fields
    /\ s.objects = r.objects /\ s.joins = r.joins /\ s.held = r.held
    /\ s.kind = r.kind /\ s.read = r.read /\ s.wants = r.wants

\* A command that has done nothing
Blank(r, kind, objects) ==
    /\ DOMAIN r = Fields /\ r.kind = kind /\ r.objects = objects /\ r.add = {}
    /\ r.alone = TRUE => Running = {}
    /\ r.miscounted = FALSE /\ r.count = [i \in Instances |-> None]

LEMMA StartShape ==
    ASSUME NEW kind, NEW objects
    PROVE  LET r == Start(kind, objects)
           IN  /\ Blank(r, kind, objects)
               /\ r.joins = {} /\ r.read = None /\ r.del = {} /\ r.held = {}
               /\ r.wants = None /\ r.loaded = [i \in Instances |-> None]
<1> DEFINE count == [i \in Instances |-> None]
           maps == [k \in Keys |-> None]
           alone == Running = {}
           r == [kind |-> kind, objects |-> objects, only |-> FALSE, single |-> FALSE,
                 instance |-> None, force |-> FALSE, wants |-> None, joins |-> {},
                 read |-> None, add |-> {}, del |-> {}, maps |-> maps, count |-> count,
                 loaded |-> count, held |-> {}, alone |-> alone, miscounted |-> FALSE,
                 moved |-> {}]
<1>1. Start(kind, objects) = r
  BY DEF Start
<1>2. alone = TRUE => Running = {}
  OBVIOUS
<1> HIDE DEF count, maps, alone
<1>3. /\ DOMAIN r = Fields /\ r.kind = kind /\ r.objects = objects /\ r.add = {}
      /\ r.alone = alone /\ r.miscounted = FALSE /\ r.count = count
      /\ r.joins = {} /\ r.read = None /\ r.del = {} /\ r.held = {}
      /\ r.wants = None /\ r.loaded = count
  BY DEF Fields
<1> HIDE DEF r
<1> QED
  BY <1>1, <1>2, <1>3 DEF Blank, count

LEMMA CountedShape ==
    ASSUME NEW r, DOMAIN r = Fields, NEW candidates
    PROVE  LET s == Counted(r, candidates)
           IN  Kept(r, s) /\ s.add = r.add /\ s.del = r.del
  BY DEF Counted, Kept, Fields

\* The object o loses orig and is bound to c.
Changed(r, s, o, orig, c) ==
    /\ Kept(r, s)
    /\ s.add = IF c = None THEN r.add ELSE r.add \cup {<<o, c>>}
    /\ s.del = IF orig = None THEN r.del ELSE r.del \cup {<<o, orig>>}

LEMMA AppliedShape ==
    ASSUME NEW r, DOMAIN r = Fields, NEW o, NEW orig, NEW new
    PROVE  Changed(r, Applied(r, o, orig, new), o, orig, new)
<1> DEFINE gone == IF orig = None THEN r ELSE [r EXCEPT !.del = @ \cup {<<o, orig>>}]
<1>1. /\ Kept(r, gone) /\ gone.add = r.add
      /\ gone.del = IF orig = None THEN r.del ELSE r.del \cup {<<o, orig>>}
  BY DEF Kept, Fields
<1>2. ASSUME NEW m, NEW k, NEW a
      PROVE  LET s == [gone EXCEPT !.add = a, !.miscounted = m, !.count = k]
             IN  Kept(r, s) /\ s.add = a /\ s.del = gone.del
  <2> HIDE DEF gone
  <2> QED
    BY <1>1 DEF Kept, Fields
<1>3. PICK m, k, a :
        /\ Applied(r, o, orig, new) = [gone EXCEPT !.add = a, !.miscounted = m, !.count = k]
        /\ a = IF new = None THEN r.add ELSE r.add \cup {<<o, new>>}
  <2>1. gone.add = r.add
    BY <1>1
  <2> QED
    BY <2>1 DEF Applied
<1> QED
  BY <1>1, <1>2, <1>3 DEF Kept, Changed

\* One object is bound anew, loses its binding, or stays as it is.
Worked(r, s, o, orig) ==
    \/ Kept(r, s) /\ s.add = r.add /\ s.del = r.del
    \/ \E c : Changed(r, s, o, orig, c)

\* c is chosen for an object bound to orig.
Rebinds(r, s, o, orig, c) ==
    IF c = orig THEN Kept(r, s) /\ s.add = r.add /\ s.del = r.del
    ELSE Changed(r, s, o, orig, c)

LEMMA ReboundShape ==
    ASSUME NEW r, DOMAIN r = Fields, NEW o, NEW orig, NEW candidates, NEW c
    PROVE  Rebinds(r, Rebound(r, o, orig, candidates, c), o, orig, c)
<1> DEFINE base == Counted(r, candidates)
           next == Looked(r, o, orig, candidates)
<1>1. Kept(r, base) /\ base.add = r.add /\ base.del = r.del
  BY CountedShape
<1>2. PICK maps : next = [base EXCEPT !.maps = maps]
  BY <1>1 DEF Looked
<1>3. Kept(r, next) /\ next.add = r.add /\ next.del = r.del
  <2> HIDE DEF base, next
  <2> QED
    BY <1>1, <1>2 DEF Kept, Fields
<1> HIDE DEF next
<1>4. CASE c = orig
  BY <1>3, <1>4 DEF Rebound, Rebinds, next
<1>5. CASE c # orig
  <2> DEFINE applied == Applied(next, o, orig, c)
  <2>0. DOMAIN next = Fields
    BY <1>3 DEF Kept
  <2>1. Changed(next, applied, o, orig, c)
    BY <2>0, AppliedShape
  <2>2. PICK moved : Rebound(r, o, orig, candidates, c) = [applied EXCEPT !.moved = moved]
    BY <1>5 DEF Rebound, next
  <2> HIDE DEF applied
  <2>3. ASSUME NEW s, s = [applied EXCEPT !.moved = moved]
        PROVE  Changed(r, s, o, orig, c)
    BY <1>3, <2>1, <2>3 DEF Kept, Changed, Fields
  <2> QED
    BY <1>5, <2>2, <2>3 DEF Rebinds
<1> QED
  BY <1>4, <1>5

LEMMA ChosenShape ==
    ASSUME NEW r, DOMAIN r = Fields, NEW o, NEW orig, NEW s \in Chosen(r, o, orig)
    PROVE  Worked(r, s, o, orig)
<1>1. CASE ~r.single /\ ~Required(r, o)
  <2>1. s = IF r.only /\ orig # None THEN Applied(r, o, orig, None) ELSE r
    BY <1>1 DEF Chosen
  <2>2. CASE r.only /\ orig # None
    <3>1. Changed(r, Applied(r, o, orig, None), o, orig, None)
      BY AppliedShape
    <3> QED
      BY <2>1, <2>2, <3>1 DEF Worked
  <2>3. CASE ~(r.only /\ orig # None)
    BY <2>1, <2>3 DEF Worked, Kept
  <2> QED
    BY <2>2, <2>3
<1>2. CASE ~(~r.single /\ ~Required(r, o))
  <2> DEFINE m == MapsRead(r, o)
  <2>1. Kept(r, m) /\ m.add = r.add /\ m.del = r.del
    <3>1. CASE requires[Cluster]
      BY <3>1 DEF MapsRead, Kept
    <3>2. CASE ~requires[Cluster]
      <4>1. PICK loaded : m = [r EXCEPT !.loaded = loaded]
        BY <3>2 DEF MapsRead
      <4> HIDE DEF m
      <4> QED
        BY <4>1 DEF Kept, Fields
    <3> QED
      BY <3>1, <3>2
  <2>2. PICK candidates, c : s = Rebound(m, o, orig, candidates, c)
    BY <1>2 DEF Chosen
  <2> HIDE DEF m
  <2>3. Worked(m, s, o, orig)
    BY <2>1, <2>2, ReboundShape DEF Kept, Rebinds, Worked
  <2> QED
    BY <2>1, <2>3 DEF Worked, Changed, Kept
<1> QED
  BY <1>1, <1>2

\* What is left of a command when it has locked its object and worked on it
LockedDone(s, o) == Done([s EXCEPT !.held = @ \cup {o}])

LEMMA DoneShape ==
    ASSUME NEW s, DOMAIN s = Fields, NEW o, NEW d, d = LockedDone(s, o)
    PROVE  /\ DOMAIN d = Fields /\ d.objects = Tail(s.objects)
           /\ d.joins = s.joins /\ d.held = s.held \cup {o} /\ d.kind = s.kind
           /\ d.add = s.add /\ d.del = s.del
           /\ d.read = None \/ d.read = s.read
           /\ d.objects # << >> => d.read = s.read
           /\ d.wants = s.wants
<1> DEFINE h == [s EXCEPT !.held = @ \cup {o}]
           b == Start(h.kind, << >>)
<1>1. /\ DOMAIN h = Fields /\ h.objects = s.objects /\ h.joins = s.joins
      /\ h.held = s.held \cup {o} /\ h.kind = s.kind /\ h.read = s.read
      /\ h.add = s.add /\ h.del = s.del /\ h.wants = s.wants
  BY DEF Fields
<1>2. DOMAIN b = Fields /\ b.kind = h.kind /\ b.objects = << >> /\ b.read = None
  <2>1. Blank(b, h.kind, << >>) /\ b.read = None
    BY StartShape
  <2> HIDE DEF b, h
  <2> QED
    BY <2>1 DEF Blank
<1>3. d = Done(h)
  BY DEF LockedDone
<1> HIDE DEF h
<1>4. CASE Tail(h.objects) # << >>
  BY <1>1, <1>3, <1>4 DEF Done, Fields
<1>5. CASE Tail(h.objects) = << >>
  <2>1. d = [b EXCEPT
            !.wants = h.wants, !.joins = h.joins, !.add = h.add, !.del = h.del,
            !.held = h.held, !.alone = h.alone, !.miscounted = h.miscounted,
            !.moved = h.moved]
    BY <1>3, <1>5 DEF Done
  <2> HIDE DEF b
  <2>2. /\ DOMAIN d = Fields /\ d.objects = b.objects /\ d.kind = b.kind /\ d.read = b.read
        /\ d.joins = h.joins /\ d.held = h.held /\ d.add = h.add /\ d.del = h.del
        /\ d.wants = h.wants
    BY <1>2, <2>1 DEF Fields
  <2> QED
    BY <1>1, <1>2, <1>5, <2>2
<1> QED
  BY <1>4, <1>5

-----------------------------------------------------------------------------
(* The beginning of a command                                               *)

LEMMA StartTyped ==
    ASSUME NEW kind \in {"host", "cluster", "list", "unlocked"}, NEW objects \in Seq(Objects)
    PROVE  Start(kind, objects) \in Job
<1> DEFINE alone == Running = {}
           seq == Seq(Objects)
<1>1. alone \in BOOLEAN
  OBVIOUS
<1> HIDE DEF alone, seq
<1>2. ASSUME objects \in seq
      PROVE  [kind |-> kind, objects |-> objects, only |-> FALSE, single |-> FALSE,
              instance |-> None, force |-> FALSE, wants |-> None, joins |-> {},
              read |-> None, add |-> {}, del |-> {}, maps |-> [k \in Keys |-> None],
              count |-> [i \in Instances |-> None], loaded |-> [i \in Instances |-> None],
              held |-> {}, alone |-> alone, miscounted |-> FALSE, moved |-> {}] \in Job
  BY <1>1, <1>2 DEF Job, seq
<1> QED
  BY <1>2 DEF Start, alone, seq


\* A command that begins: its locks and the hosts it adds to the cluster are
\* among its objects, the cluster comes before its members, and a member that
\* is left out does not require the service.
Starts(r) ==
    /\ r \in Job /\ Blank(r, r.kind, r.objects)
    /\ r.objects \in Seq(Objects) /\ NoRepeat(r.objects)
    /\ r.wants \in BOOLEAN \cup {None}
    /\ \A u \in Running : r.held \cap thread[u].held = {}
    /\ r.joins \subseteq Hosts
    /\ r.joins \subseteq Listed(r.objects) /\ r.held \subseteq Listed(r.objects)
    /\ r.read = IF r.kind = "list" THEN bound ELSE None
    /\ r.kind = "host" => r.joins = {} /\ Cluster \notin Listed(r.objects)
    /\ Cluster \in Listed(r.objects) =>
        /\ Head(r.objects) = Cluster /\ r.held = {} /\ r.joins = {}
        /\ \A h \in member \ Listed(r.objects) : requires[h] # TRUE
    /\ r.del # {} =>
        /\ r.kind = "unlocked" /\ r.objects = << >>
        /\ \E o, i : /\ o \in Objects /\ requires[o] # TRUE /\ i \in bound[o]
                     /\ r.del = {<<o, i>>}
    /\ \A i \in Instances : r.loaded[i] # None =>
            requires[Cluster] # TRUE /\ r.loaded[i] = Clients(bound, member, i)

LEMMA Alone ==
    ASSUME NEW h \in Hosts
    PROVE  /\ <<h>> \in Seq(Objects) /\ NoRepeat(<<h>>)
           /\ Listed(<<h>>) = {h} /\ Cluster \notin Listed(<<h>>)
BY ChooserAssumption DEF NoRepeat, Listed, Objects

\* Commands that begin with one host, and perhaps its lock
LEMMA HostStarts ==
    ASSUME NEW r \in Job, NEW h \in Hosts, Blank(r, r.kind, <<h>>), r.kind \in {"host", "cluster"},
           r.wants \in BOOLEAN \cup {None}, r.held \subseteq {h}, r.joins \subseteq {h},
           r.kind = "host" => r.joins = {},
           h \in r.held => Free(h),
           r.read = None, r.del = {}, r.loaded = [i \in Instances |-> None]
    PROVE  Starts(r)
<1>1. r.objects = <<h>>
  BY DEF Blank
<1>2. \A u \in Running : r.held \cap thread[u].held = {}
  BY DEF Free
<1> QED
  BY <1>1, <1>2, Alone DEF Starts

\* Commands that begin with the cluster
LEMMA ClusterStarts ==
    ASSUME NEW r \in Job, NEW S \in SUBSET Hosts, NEW s \in Orders(S),
           Blank(r, "cluster", <<Cluster>> \o s),
           \A h \in member \ S : requires[h] # TRUE,
           r.wants = None, r.held = {}, r.joins = {},
           r.read = None, r.del = {}, r.loaded = [i \in Instances |-> None]
    PROVE  Starts(r)
<1> DEFINE c == <<Cluster>> \o s
<1>1. r.objects = c /\ r.kind = "cluster"
  BY DEF Blank
<1>2. c \in Seq(Objects) /\ NoRepeat(c) /\ Head(c) = Cluster /\ S \subseteq Listed(c)
  BY ClusterFirst
<1>3. Blank(r, "cluster", c)
  OBVIOUS
<1> HIDE DEF c
<1>4. \A i \in Instances : r.loaded[i] = None
  OBVIOUS
<1>5. \A h \in member \ Listed(c) : requires[h] # TRUE
  BY <1>2
<1> QED
  BY <1>1, <1>2, <1>3, <1>4, <1>5 DEF Starts

LEMMA CommandBegins ==
    ASSUME Types, NEW t \in Threads, Commands(t)
    PROVE  \E r : Starts(r) /\ Begin(t, r)
<1>1. ASSUME NEW keep \in BOOLEAN, NEW wants \in BOOLEAN \cup {None}, Reconfigure(t, keep, wants)
      PROVE  \E r : Starts(r) /\ Begin(t, r)
  <2> DEFINE loaded == [i \in Instances |->
                IF ~requires[Cluster] /\ \E h \in Hosts : i \in bound[h]
                THEN Clients(bound, member, i) ELSE None]
  <2>1. PICK s :
            /\ s \in Orders(Hosts)
            /\ wants # None => \A h \in Hosts : Free(h)
            /\ Begin(t, [Start("list", s) EXCEPT
                   !.only = ~keep, !.wants = wants, !.read = bound,
                   !.held = IF wants = None THEN {} ELSE Hosts, !.loaded = loaded])
    BY <1>1 DEF Reconfigure
  <2> DEFINE b == Start("list", s)
             lax == ~keep
             locks == IF wants = None THEN {} ELSE Hosts
             r == [b EXCEPT !.only = lax, !.wants = wants, !.read = bound,
                            !.held = locks, !.loaded = loaded]
  <2>2. Blank(b, "list", s) /\ b.joins = {} /\ b.del = {}
    BY StartShape
  <2>3. s \in Seq(Objects) /\ NoRepeat(s) /\ Listed(s) = Hosts
    BY <2>1, OrdersOnce
  <2>4. Begin(t, r)
    BY <2>1
  <2>7. \A i \in Instances : loaded[i] # None =>
            requires[Cluster] # TRUE /\ loaded[i] = Clients(bound, member, i)
    OBVIOUS
  <2>9. b \in Job
    BY <2>3, StartTyped
  <2>10. loaded \in [Instances -> Int \cup {None}]
    BY ClientsNat DEF Types
  <2>12. lax \in BOOLEAN /\ locks \in SUBSET Objects
    BY DEF Objects
  <2> HIDE DEF b, loaded, lax, locks
  <2>11. r \in Job
    BY <2>9, <2>10, <2>12 DEF Job, Types
  <2>5. /\ Blank(r, "list", s) /\ r.joins = {} /\ r.del = {} /\ r.loaded = loaded
        /\ r.read = bound /\ r.held = (IF wants = None THEN {} ELSE Hosts) /\ r.wants = wants
    BY <2>2 DEF Fields, Blank, locks
  <2> HIDE DEF r
  <2>6. \A u \in Running : r.held \cap thread[u].held = {}
    BY <2>1, <2>5 DEF Free
  <2>8. r.objects = s /\ r.kind = "list"
    BY <2>5 DEF Blank
  <2> QED
    BY <2>3, <2>4, <2>5, <2>6, <2>7, <2>8, <2>11, ChooserAssumption DEF Starts
<1>2. ASSUME NEW h \in Hosts, NEW keep \in BOOLEAN, NEW wants \in BOOLEAN \cup {None},
             Make(t, h, keep, wants)
      PROVE  \E r : Starts(r) /\ Begin(t, r)
  <2> DEFINE b == Start("host", <<h>>)
             lax == ~keep
             locks == IF wants = None THEN {} ELSE {h}
             r == [b EXCEPT !.only = lax, !.wants = wants, !.held = locks]
  <2>1. /\ Blank(b, "host", <<h>>) /\ b.joins = {} /\ b.read = None /\ b.del = {}
        /\ b.loaded = [i \in Instances |-> None]
    BY StartShape
  <2>2. Begin(t, r) /\ (wants # None => Free(h))
    BY <1>2 DEF Make
  <2>4. b \in Job
    BY Alone, StartTyped
  <2>6. lax \in BOOLEAN /\ locks \in SUBSET Objects
    BY DEF Objects
  <2> HIDE DEF b, lax, locks
  <2>5. r \in Job
    BY <2>4, <2>6 DEF Job
  <2>3. /\ Blank(r, "host", <<h>>) /\ r.joins = {} /\ r.read = None /\ r.del = {}
        /\ r.loaded = b.loaded /\ r.wants = wants
        /\ r.held = (IF wants = None THEN {} ELSE {h}) /\ r.kind = "host"
    BY <2>1 DEF Fields, Blank, locks
  <2> HIDE DEF r
  <2> QED
    BY <2>1, <2>2, <2>3, <2>5, HostStarts
<1>3. ASSUME NEW keep \in BOOLEAN, MakeCluster(t, keep)
      PROVE  \E r : Starts(r) /\ Begin(t, r)
  <2>1. PICK s \in Orders(member) :
            Begin(t, [Start("cluster", <<Cluster>> \o s) EXCEPT !.only = ~keep])
    BY <1>3 DEF MakeCluster
  <2> DEFINE c == <<Cluster>> \o s
             b == Start("cluster", c)
             r == [b EXCEPT !.only = ~keep]
  <2>3. Begin(t, r) /\ member \in SUBSET Hosts
    BY <2>1 DEF Types
  <2>6. b \in Job
    BY <2>3, ClusterFirst, StartTyped
  <2> HIDE DEF c
  <2>4. /\ Blank(b, "cluster", c) /\ b.joins = {} /\ b.read = None /\ b.del = {}
        /\ b.loaded = [i \in Instances |-> None] /\ b.wants = None /\ b.held = {}
    BY StartShape
  <2> HIDE DEF b
  <2>7. r \in Job
    BY <2>6 DEF Job
  <2>5. /\ Blank(r, "cluster", c) /\ r.joins = {} /\ r.read = None /\ r.del = {}
        /\ r.loaded = [i \in Instances |-> None] /\ r.wants = None /\ r.held = {}
    BY <2>4 DEF Fields, Blank
  <2> HIDE DEF r
  <2> QED
    BY <2>3, <2>5, <2>7, ClusterStarts DEF c
<1>4. ASSUME NEW h \in Hosts, Join(t, h)
      PROVE  \E r : Starts(r) /\ Begin(t, r)
  <2> DEFINE b == Start("cluster", <<h>>)
             r == [b EXCEPT !.joins = {h}]
  <2>1. /\ Blank(b, "cluster", <<h>>) /\ b.read = None /\ b.del = {} /\ b.held = {}
        /\ b.loaded = [i \in Instances |-> None] /\ b.wants = None
    BY StartShape
  <2>2. Begin(t, r)
    BY <1>4 DEF Join
  <2>4. b \in Job
    BY Alone, StartTyped
  <2> HIDE DEF b
  <2>5. r \in Job
    BY <2>4 DEF Job
  <2>3. /\ Blank(r, "cluster", <<h>>) /\ r.joins = {h} /\ r.read = None /\ r.del = {}
        /\ r.loaded = b.loaded /\ r.wants = None /\ r.held = {} /\ r.kind = "cluster"
    BY <2>1 DEF Fields, Blank
  <2> HIDE DEF r
  <2> QED
    BY <2>1, <2>2, <2>3, <2>5, HostStarts
<1>5. ASSUME NEW instance \in Instances \cup {None}, NEW force \in BOOLEAN,
             BindCluster(t, instance, force)
      PROVE  \E r : Starts(r) /\ Begin(t, r)
  <2> DEFINE S == {h \in member : requires[h]}
  <2>1. PICK s \in Orders(S) :
            Begin(t, [Start("cluster", <<Cluster>> \o s) EXCEPT
                !.single = TRUE, !.instance = instance, !.force = force])
    BY <1>5 DEF BindCluster
  <2> DEFINE c == <<Cluster>> \o s
             b == Start("cluster", c)
             r == [b EXCEPT !.single = TRUE, !.instance = instance, !.force = force]
  <2>2. S \in SUBSET Hosts /\ \A h \in member \ S : requires[h] # TRUE
    BY DEF Types
  <2>3. Begin(t, r)
    BY <2>1
  <2>6. b \in Job
    BY <2>2, ClusterFirst, StartTyped
  <2> HIDE DEF c, S
  <2>4. /\ Blank(b, "cluster", c) /\ b.joins = {} /\ b.read = None /\ b.del = {}
        /\ b.loaded = [i \in Instances |-> None] /\ b.wants = None /\ b.held = {}
    BY StartShape
  <2> HIDE DEF b
  <2>7. r \in Job
    BY <2>6 DEF Job
  <2>5. /\ Blank(r, "cluster", c) /\ r.joins = {} /\ r.read = None /\ r.del = {}
        /\ r.loaded = [i \in Instances |-> None] /\ r.wants = None /\ r.held = {}
    BY <2>4 DEF Fields, Blank
  <2> HIDE DEF r
  <2> QED
    BY <2>2, <2>3, <2>5, <2>7, ClusterStarts DEF c
<1>6. ASSUME NEW h \in Hosts, NEW instance \in Instances \cup {None},
             NEW force \in BOOLEAN, BindHost(t, h, instance, force)
      PROVE  \E r : Starts(r) /\ Begin(t, r)
  <2> DEFINE b == Start("host", <<h>>)
             r == [b EXCEPT !.single = TRUE, !.instance = instance, !.force = force]
  <2>1. /\ Blank(b, "host", <<h>>) /\ b.joins = {} /\ b.read = None /\ b.del = {}
        /\ b.loaded = [i \in Instances |-> None] /\ b.wants = None /\ b.held = {}
    BY StartShape
  <2>2. Begin(t, r)
    BY <1>6 DEF BindHost
  <2>4. b \in Job
    BY Alone, StartTyped
  <2> HIDE DEF b
  <2>5. r \in Job
    BY <2>4 DEF Job
  <2>3. /\ Blank(r, "host", <<h>>) /\ r.joins = {} /\ r.read = None /\ r.del = {}
        /\ r.loaded = b.loaded /\ r.wants = None /\ r.held = {} /\ r.kind = "host"
    BY <2>1 DEF Fields, Blank
  <2> HIDE DEF r
  <2> QED
    BY <2>1, <2>2, <2>3, <2>5, HostStarts
<1>7. ASSUME NEW o \in Objects, Unbind(t, o)
      PROVE  \E r : Starts(r) /\ Begin(t, r)
  <2>1. PICK i : /\ i \in bound[o] /\ requires[o] # TRUE
                 /\ Begin(t, [Start("unlocked", << >>) EXCEPT !.del = {<<o, i>>}])
    BY <1>7 DEF Unbind
  <2> DEFINE b == Start("unlocked", << >>)
             r == [b EXCEPT !.del = {<<o, i>>}]
  <2>2. /\ Blank(b, "unlocked", << >>) /\ b.joins = {} /\ b.read = None /\ b.held = {}
        /\ b.loaded = [x \in Instances |-> None] /\ b.wants = None
    BY StartShape
  <2>3. Begin(t, r)
    BY <2>1
  <2>8. b \in Job
    <3>1. << >> \in Seq(Objects)
      OBVIOUS
    <3> QED
      BY <3>1, StartTyped
  <2> HIDE DEF b
  <2>9. <<o, i>> \in Objects \X Instances
    BY <2>1 DEF Types
  <2>10. r \in Job
    BY <2>8, <2>9 DEF Job
  <2>4. /\ Blank(r, "unlocked", << >>) /\ r.joins = {} /\ r.read = None /\ r.held = {}
        /\ r.del = {<<o, i>>} /\ r.loaded = [x \in Instances |-> None] /\ r.wants = None
    BY <2>2 DEF Fields, Blank
  <2> HIDE DEF r
  <2>5. << >> \in Seq(Objects) /\ NoRepeat(<< >>) /\ Listed(<< >>) = {}
    BY DEF NoRepeat, Listed
  <2>6. r.objects = << >> /\ r.kind = "unlocked"
    BY <2>4 DEF Blank
  <2>7. Starts(r)
    BY <2>1, <2>4, <2>5, <2>6, <2>10 DEF Starts
  <2> QED
    BY <2>3, <2>7
<1> QED
  BY <1>1, <1>2, <1>3, <1>4, <1>5, <1>6, <1>7 DEF Commands

\* It holds no lock of another, and adds nothing.
LEMMA StartsFresh ==
    ASSUME NEW r, Starts(r)
    PROVE  /\ WellFormed(r) /\ \A o \in Objects : ~Adds(r, o)
           /\ \A u \in Running : r.held \cap thread[u].held = {}
           /\ r.read = IF r.kind = "list" THEN bound ELSE None
BY DEF Starts, Blank, WellFormed, Adds

-----------------------------------------------------------------------------
(* The steps                                                                *)

\* All that the invariant knows of a record
Same(r, s) == Kept(r, s) /\ s.add = r.add /\ s.del = r.del

LEMMA SameIsWellFormed ==
    ASSUME NEW r, NEW s, WellFormed(r), Same(r, s)
    PROVE  WellFormed(s)
BY DEF WellFormed, Same, Kept, Adds

\* The threads that go on are as they were, and the bindings too.
LEMMA Untouched ==
    ASSUME IInv, bound' = bound, member' \in SUBSET Hosts,
           thread' = [u \in Threads |-> thread'[u]],
           \A u \in Running' : u \in Running /\ Same(thread[u], thread'[u]),
           overlapped \subseteq overlapped'
    PROVE  IInv'
<1> USE DEF IInv
<1>1. Types'
  BY SameIsWellFormed DEF Types
<1>2. Apart'
  BY DEF Apart, Same, Kept
<1>3. Loaded'
  BY DEF Loaded, Same, Kept
<1>4. Single'
  BY DEF Single, View, Same
<1> QED
  BY <1>1, <1>2, <1>3, <1>4

LEMMA BeginInv ==
    ASSUME IInv, NEW t \in Threads, NEW r, Starts(r), Begin(t, r)
    PROVE  IInv'
<1>0. /\ WellFormed(r) /\ \A o \in Objects : ~Adds(r, o)
      /\ \A u \in Running : r.held \cap thread[u].held = {}
      /\ r.read = IF r.kind = "list" THEN bound ELSE None
  BY StartsFresh
<1>1. /\ thread' = [u \in Threads |-> thread'[u]]
      /\ thread'[t] = r /\ t \notin Running /\ bound' = bound /\ member' = member
  BY DEF Begin, Running
<1>2. ASSUME NEW u \in Running'
      PROVE  u = t \/ (u \in Running /\ u # t /\ Same(thread[u], thread'[u]))
  <2>1. CASE u = t
    BY <2>1
  <2>2. CASE u # t
    <3>1. u \in Running /\ thread'[u] = [thread[u] EXCEPT !.alone = FALSE]
      BY <2>2 DEF Begin, Running
    <3>2. DOMAIN thread[u] = Fields
      BY <3>1 DEF IInv, Types, WellFormed
    <3> QED
      BY <2>2, <3>1, <3>2 DEF Same, Kept, Fields
  <2> QED
    BY <2>1, <2>2
<1>3. /\ overlapped \subseteq overlapped'
      /\ Running # {} =>
            r.kind \in overlapped' /\ \A u \in Running : thread[u].kind \in overlapped'
  BY DEF Begin
<1>4. Types'
  BY <1>0, <1>1, <1>2, SameIsWellFormed DEF IInv, Types
<1>5. Apart'
  BY <1>0, <1>1, <1>2, <1>3 DEF IInv, Apart, Same, Kept
<1>6. Loaded'
  BY <1>0, <1>1, <1>2, <1>3 DEF IInv, Loaded, Same, Kept
<1>7. Single'
  <2>1. ASSUME "list" \notin overlapped', NEW o \in Objects, NEW u \in Running'
        PROVE  One(View(bound', thread'[u], o))
    <3>1. CASE u = t
      BY <1>0, <1>1, <1>3, <2>1, <3>1 DEF IInv, Single, View, Adds, One
    <3>2. CASE u # t
      BY <1>1, <1>2, <1>3, <2>1, <3>2 DEF IInv, Single, Same, View
    <3> QED
      BY <3>1, <3>2
  <2> QED
    BY <1>1, <1>3, <2>1 DEF IInv, Single
<1> QED
  BY <1>4, <1>5, <1>6, <1>7 DEF IInv

\* What a command sees of the object it has worked on: what it has chosen, or
\* a part of what there was.
LEMMA OneChosen ==
    ASSUME NEW r, NEW s, NEW o \in Objects, NEW orig \in Originals(r, o), ~Adds(r, o),
           r.read = None \/ r.read = bound, One(bound[o]), One(View(bound, r, o)),
           Worked(r, s, o, orig)
    PROVE  One(View(bound, s, o))
<1>1. CASE s.add = r.add /\ s.del = r.del
  BY <1>1 DEF View
<1>2. ASSUME NEW c, Changed(r, s, o, orig, c)
      PROVE  One(View(bound, s, o))
  <2>1. ASSUME NEW i \in Instances, <<o, i>> \in s.add
        PROVE  i = c
    BY <1>2, <2>1 DEF Changed, Adds
  <2>2. ASSUME NEW i \in Instances, i \in bound[o], <<o, i>> \notin s.del
        PROVE  FALSE
    <3>1. r.del \subseteq s.del /\ (orig # None => <<o, orig>> \in s.del)
      BY <1>2 DEF Changed
    <3>2. i \in View(bound, r, o) /\ i \in Seen(r)[o]
      BY <2>2, <3>1 DEF View, Seen
    <3>3. orig \in bound[o]
      BY <2>2, <3>2 DEF Originals, Seen, Adds
    <3> QED
      BY <2>2, <3>1, <3>3, ChooserAssumption DEF One
  <2> QED
    BY <2>1, <2>2 DEF One, View
<1> QED
  BY <1>1, <1>2 DEF Worked


LEMMA ProcessInv ==
    ASSUME IInv, NEW t \in Threads, Process(t)
    PROVE  IInv'
<1> DEFINE r == thread[t]
<1>1. PICK o : /\ o = Head(r.objects)
               /\ \A u \in Running \ {t} : o \notin thread[u].held
               /\ \E orig \in Originals(r, o) : \E s \in Chosen(r, o, orig) :
                    thread' = [thread EXCEPT ![t] = Done([s EXCEPT !.held = @ \cup {o}])]
  BY DEF Process
<1>2. PICK orig, s, d :
            /\ orig \in Originals(r, o) /\ s \in Chosen(r, o, orig)
            /\ d = Done([s EXCEPT !.held = @ \cup {o}])
            /\ thread' = [thread EXCEPT ![t] = d]
  BY <1>1
<1>3. t \in Running /\ r.objects # << >> /\ WellFormed(r)
  BY DEF Process, Running, IInv, Types
<1>4. /\ o \in Objects /\ o \in Listed(r.objects)
      /\ Tail(r.objects) \in Seq(Objects) /\ NoRepeat(Tail(r.objects))
      /\ Listed(Tail(r.objects)) = Listed(r.objects) \ {o}
  BY <1>1, <1>3, HeadGone DEF WellFormed
<1>5. Worked(r, s, o, orig)
  BY <1>2, <1>3, ChosenShape DEF WellFormed
<1> HIDE DEF r
<1>6. /\ Kept(r, s)
      /\ \A p, i : p # o =>
            /\ <<p, i>> \in s.add <=> <<p, i>> \in r.add
            /\ <<p, i>> \in s.del <=> <<p, i>> \in r.del
  <2>1. ASSUME NEW c, Changed(r, s, o, orig, c), NEW p, NEW i, p # o
        PROVE  /\ <<p, i>> \in s.add <=> <<p, i>> \in r.add
               /\ <<p, i>> \in s.del <=> <<p, i>> \in r.del
    BY <2>1 DEF Changed
  <2> QED
    BY <1>5, <2>1 DEF Worked, Changed
<1>7. /\ DOMAIN d = Fields /\ d.objects = Tail(r.objects)
      /\ d.joins = r.joins /\ d.held = r.held \cup {o} /\ d.kind = r.kind
      /\ d.add = s.add /\ d.del = s.del
      /\ d.read = None \/ d.read = r.read
      /\ d.objects # << >> => d.read = r.read
  <2>1. DOMAIN s = Fields /\ s.objects = r.objects /\ s.joins = r.joins
        /\ s.held = r.held /\ s.kind = r.kind /\ s.read = r.read
    BY <1>6 DEF Kept
  <2>2. /\ DOMAIN d = Fields /\ d.objects = Tail(s.objects)
        /\ d.joins = s.joins /\ d.held = s.held \cup {o} /\ d.kind = s.kind
        /\ d.add = s.add /\ d.del = s.del
        /\ d.read = None \/ d.read = s.read
        /\ d.objects # << >> => d.read = s.read
    <3>1. d = LockedDone(s, o)
      BY <1>2 DEF LockedDone
    <3> QED
      BY <2>1, <3>1, DoneShape
  <2> QED
    BY <2>1, <2>2
<1>8. /\ thread' = [u \in Threads |-> thread'[u]] /\ thread'[t] = d
      /\ \A u \in Running' : u # t => u \in Running /\ thread'[u] = thread[u]
      /\ bound' = bound /\ member' = member /\ overlapped' = overlapped
  BY <1>2 DEF Process, Running, IInv, Types, r
<1>9. ~Adds(r, o)
  BY <1>3, <1>4 DEF WellFormed
<1>10. WellFormed(d)
  BY <1>3, <1>4, <1>6, <1>7 DEF WellFormed, Adds
<1>11. Types'
  BY <1>8, <1>10 DEF IInv, Types
<1>12. Apart'
  <2>1. ASSUME NEW u \in Running', u # t
        PROVE  /\ thread'[u] = thread[u] /\ o \notin thread[u].held
               /\ r.held \cap thread[u].held = {}
               /\ thread[u].kind \in overlapped /\ r.kind \in overlapped
    <3>1. u \in Running /\ t \in Running /\ thread'[u] = thread[u]
      BY <1>3, <1>8, <2>1
    <3> QED
      BY <1>1, <2>1, <3>1 DEF IInv, Apart, r
  <2>2. ASSUME NEW u \in Running', NEW v \in Running', u # v
        PROVE  /\ thread'[u].held \cap thread'[v].held = {}
               /\ thread'[u].kind \in overlapped'
    <3>1. CASE u # t /\ v # t
      BY <1>8, <2>2, <3>1 DEF IInv, Apart
    <3>2. CASE u = t
      BY <1>7, <1>8, <2>1, <2>2, <3>2
    <3>3. CASE v = t
      BY <1>7, <1>8, <2>1, <2>2, <3>3
    <3> QED
      BY <3>1, <3>2, <3>3
  <2> QED
    BY <2>2 DEF Apart
<1>13. Loaded'
  <2>1. r.kind # "list" => r.read = None
    BY <1>3 DEF IInv, Loaded, r
  <2>2. r.kind = "list" /\ "list" \notin overlapped => r.read = bound
    BY <1>3 DEF IInv, Loaded, r
  <2>3. ASSUME NEW u \in Running', u # t
        PROVE  u \in Running /\ thread'[u] = thread[u]
    BY <1>8, <2>3
  <2> QED
    BY <1>7, <1>8, <2>1, <2>2, <2>3 DEF IInv, Loaded
<1>14. Single'
  <2>1. ASSUME "list" \notin overlapped', NEW p \in Objects, NEW u \in Running'
        PROVE  One(View(bound', thread'[u], p))
    <3>1. CASE u # t
      BY <1>8, <2>1, <3>1 DEF IInv, Single
    <3>2. CASE u = t /\ p # o
      <4>1. One(View(bound, r, p))
        BY <1>3, <1>8, <2>1 DEF IInv, Single, r
      <4> QED
        BY <1>6, <1>7, <1>8, <3>2, <4>1 DEF View
    <3>3. CASE u = t /\ p = o
      <4>1. One(bound[o]) /\ One(View(bound, r, o))
        BY <1>3, <1>4, <1>8, <2>1 DEF IInv, Single, r
      <4>2. r.read = None \/ r.read = bound
        BY <1>3, <1>8, <2>1 DEF IInv, Loaded, r
      <4>3. One(View(bound, s, o))
        BY <1>2, <1>4, <1>5, <1>9, <4>1, <4>2, OneChosen
      <4> QED
        BY <1>7, <1>8, <3>3, <4>3 DEF View
    <3> QED
      BY <3>1, <3>2, <3>3
  <2> QED
    BY <1>8, <2>1 DEF IInv, Single
<1> QED
  BY <1>11, <1>12, <1>13, <1>14 DEF IInv

LEMMA CommitInv ==
    ASSUME IInv, NEW t \in Threads, Commit(t)
    PROVE  IInv'
<1> DEFINE r == thread[t]
<1>1. /\ t \in Running /\ WellFormed(r)
      /\ thread' = [u \in Threads |-> thread'[u]] /\ overlapped' = overlapped
      /\ \A u \in Running' : u # t /\ u \in Running /\ thread'[u] = thread[u]
  BY DEF Commit, Running, IInv, Types
<1>2. /\ bound' = bound \/ bound' = Seen(r)
      /\ member' = member \/ member' = InCluster(r)
  BY DEF Commit
<1>3. bound' = bound \/ \A o \in Objects : bound'[o] = View(bound, r, o)
  BY <1>2 DEF Seen, View
<1>4. bound' \in [Objects -> SUBSET Instances] /\ member' \subseteq Hosts
  BY <1>1, <1>2 DEF Seen, InCluster, WellFormed, IInv, Types
<1> HIDE DEF r
<1>5. Types'
  BY <1>1, <1>4 DEF IInv, Types
<1>6. Apart'
  BY <1>1 DEF IInv, Apart
<1>7. Loaded'
  BY <1>1 DEF IInv, Loaded, Apart
<1>8. ASSUME "list" \notin overlapped', NEW o \in Objects
      PROVE  One(bound'[o]) /\ \A u \in Running' : One(View(bound', thread'[u], o))
  <2>1. One(bound[o]) /\ One(View(bound, r, o))
    BY <1>1, <1>8 DEF IInv, Single, r
  <2>2. One(bound'[o])
    BY <1>3, <2>1
  <2>3. ASSUME NEW u \in Running'
        PROVE  One(View(bound', thread'[u], o))
    <3>1. u # t /\ u \in Running /\ thread'[u] = thread[u]
      BY <1>1, <2>3
    <3>2. CASE ~Adds(thread[u], o)
      BY <2>2, <3>1, <3>2 DEF View, Adds, One
    <3>3. CASE Adds(thread[u], o)
      <4>1. o \in thread[u].held /\ o \notin r.held
        BY <1>1, <3>1, <3>3 DEF IInv, Types, Apart, WellFormed, r
      <4>2. ~Adds(r, o)
        BY <1>1, <4>1 DEF WellFormed
      <4>3. bound'[o] \subseteq bound[o]
        BY <1>3, <4>2 DEF View, Adds
      <4>4. One(View(bound, thread[u], o))
        BY <1>1, <1>8, <3>1 DEF IInv, Single
      <4> QED
        BY <3>1, <4>3, <4>4 DEF View, One
    <3> QED
      BY <3>2, <3>3
  <2> QED
    BY <2>2, <2>3
<1>9. Single'
  BY <1>8 DEF Single
<1> QED
  BY <1>5, <1>6, <1>7, <1>9 DEF IInv

LEMMA UnclusterInv ==
    ASSUME IInv, NEW h \in Hosts, Uncluster(h)
    PROVE  IInv'
<1>1. /\ bound' = bound /\ member' \in SUBSET Hosts /\ overlapped \subseteq overlapped'
      /\ thread' = [u \in Threads |-> thread'[u]]
  BY DEF Uncluster, IInv, Types
<1>2. ASSUME NEW u \in Running'
      PROVE  u \in Running /\ Same(thread[u], thread'[u])
  <2>1. u \in Running /\ thread'[u] = [thread[u] EXCEPT !.alone = FALSE]
    BY DEF Uncluster, Running
  <2>2. DOMAIN thread[u] = Fields
    BY <2>1 DEF IInv, Types, WellFormed
  <2> QED
    BY <2>1, <2>2 DEF Same, Kept, Fields
<1> QED
  BY <1>1, <1>2, Untouched

\* A step that leaves the bindings and the commands, or gives one of them up
LEMMA RestInv ==
    ASSUME IInv, bound' = bound, member' = member, overlapped' = overlapped,
           thread' = thread \/ \E t \in Threads : thread' = [thread EXCEPT ![t] = None]
    PROVE  IInv'
<1>1. member' \in SUBSET Hosts /\ thread' = [u \in Threads |-> thread'[u]]
  BY DEF IInv, Types
<1>2. ASSUME NEW u \in Running'
      PROVE  u \in Running /\ Same(thread[u], thread'[u])
  <2>1. u \in Running /\ thread'[u] = thread[u]
    BY DEF Running, IInv, Types
  <2>2. DOMAIN thread[u] = Fields
    BY <2>1 DEF IInv, Types, WellFormed
  <2> QED
    BY <2>1, <2>2 DEF Same, Kept
<1> QED
  BY <1>1, <1>2, Untouched

LEMMA InitInv ==
    ASSUME Init
    PROVE  IInv
BY DEF Init, IInv, Types, Apart, Loaded, Single, Running, One

LEMMA NextInv ==
    ASSUME IInv, [Next]_vars
    PROVE  IInv'
<1>1. ASSUME NEW t \in Threads, Commands(t)
      PROVE  IInv'
  BY <1>1, CommandBegins, BeginInv DEF IInv
<1>2. ASSUME NEW t \in Threads, Process(t)
      PROVE  IInv'
  BY <1>2, ProcessInv
<1>3. ASSUME NEW t \in Threads, Commit(t)
      PROVE  IInv'
  BY <1>3, CommitInv
<1>4. ASSUME NEW t \in Threads, Fail(t)
      PROVE  IInv'
  BY <1>4, RestInv DEF Fail
<1>5. ASSUME NEW h \in Hosts, Uncluster(h)
      PROVE  IInv'
  BY <1>5, UnclusterInv
<1>6. ASSUME NEW i, NEW max, SetLimit(i, max)
      PROVE  IInv'
  BY <1>6, RestInv DEF SetLimit
<1>7. ASSUME NEW k, NEW instances, MapService(k, instances)
      PROVE  IInv'
  BY <1>7, RestInv DEF MapService
<1>8. ASSUME UNCHANGED vars
      PROVE  IInv'
  BY <1>8, RestInv DEF vars
<1> QED
  BY <1>1, <1>2, <1>3, <1>4, <1>5, <1>6, <1>7, <1>8 DEF Next

(* No object is ever bound to two instances of the service, whichever       *)
(* commands overlap, as long as none of them is reconfigure --list: each    *)
(* works on an object under the lock of its row (services.py:77) and        *)
(* removes the binding it found before it adds another.                     *)
THEOREM OneBindingHolds == Spec => []OneBinding
<1>1. ASSUME IInv
      PROVE  OneBinding
  <2>1. ASSUME "list" \notin overlapped, NEW o \in Objects
        PROVE  Cardinality(bound[o]) <= 1
    <3>1. One(bound[o])
      BY <1>1, <2>1 DEF IInv, Single
    <3>2. CASE bound[o] = {}
      BY <3>2, FS_EmptySet
    <3>3. CASE bound[o] # {}
      <4>1. PICK i : bound[o] = {i}
        BY <3>1, <3>3 DEF One
      <4>2. Cardinality({i}) = 1
        BY FS_Singleton
      <4> QED
        BY <4>1, <4>2
    <3> QED
      BY <3>2, <3>3
  <2> QED
    BY <2>1 DEF OneBinding
<1>2. Init => IInv
  BY InitInv
<1>3. IInv /\ [Next]_vars => IInv'
  BY NextInv
<1> QED
  BY <1>1, <1>2, <1>3, PTL DEF Spec

-----------------------------------------------------------------------------
(* The members of the cluster                                               *)

\* The command removes a binding of o.
Dels(r, o) == \E i \in Instances : <<o, i>> \in r.del

\* What it changes of an object it has locked, and of none it has yet to work
\* on; Unbind locks nothing.  A command of one host leaves the cluster alone,
\* and one of the cluster begins there.
Orderly(r) ==
    /\ r.kind # "unlocked" => \A o \in Objects : Dels(r, o) => o \in r.held
    /\ \A o \in Listed(r.objects) : ~Dels(r, o)
    /\ r.kind = "host" =>
        r.joins = {} /\ Cluster \notin r.held /\ Cluster \notin Listed(r.objects)
    /\ Cluster \in Listed(r.objects) =>
        Head(r.objects) = Cluster /\ r.held = {} /\ r.joins = {}

\* What a host requires when r has committed, where req is required
After(req, r, h) == IF h \in r.held /\ r.wants # None THEN r.wants ELSE req[h]

\* The members among hosts that require the service are bound as the cluster.
Settled(bnd, mem, req) ==
    bnd[Cluster] # {} => \A h \in mem : req[h] = TRUE => bnd[h] = bnd[Cluster]

\* They will be when r, which has those in objects still to work on, commits.
Fits(bnd, mem, req, r) ==
    \A h \in (mem \cup r.joins) \ Listed(r.objects) : After(req, r, h) = TRUE =>
        /\ Cluster \notin Listed(r.objects)
        /\ View(bnd, r, Cluster) # {} => View(bnd, r, h) = View(bnd, r, Cluster)

AInv ==
    /\ \A t \in Running : Orderly(thread[t])
    /\ overlapped \subseteq {"host"} =>
        /\ Settled(bound, member, requires)
        /\ \A t \in Running : Fits(bound, member, requires, thread[t])

\* A command sees what is committed of an object it does not change.
LEMMA ViewPlain ==
    ASSUME NEW bnd \in [Objects -> SUBSET Instances], NEW r, NEW o \in Objects,
           ~Adds(r, o), ~Dels(r, o)
    PROVE  View(bnd, r, o) = bnd[o]
BY DEF View, Adds, Dels

LEMMA SameFits ==
    ASSUME NEW bnd, NEW mem, NEW req, NEW r, NEW s, Same(r, s)
    PROVE  /\ Fits(bnd, mem, req, r) => Fits(bnd, mem, req, s)
           /\ Orderly(r) => Orderly(s)
BY DEF Same, Kept, Fits, View, After, Orderly, Dels

\* What a Chooser that has to choose makes of a command, before and after
LEMMA ChosenRebinds ==
    ASSUME NEW r, DOMAIN r = Fields, NEW o, NEW orig, NEW s \in Chosen(r, o, orig),
           r.single \/ Required(r, o)
    PROVE  \E m, candidates, c :
            /\ Kept(r, m) /\ m.add = r.add /\ m.del = r.del
            /\ candidates \in Aligned(m, o, Candidates(m, o))
            /\ c \in Allowed(m, o, orig, candidates)
            /\ Rebinds(m, s, o, orig, c)
<1> DEFINE m == MapsRead(r, o)
<1>1. Kept(r, m) /\ m.add = r.add /\ m.del = r.del
  <2>1. CASE requires[Cluster]
    BY <2>1 DEF MapsRead, Kept
  <2>2. CASE ~requires[Cluster]
    <3>1. PICK loaded : m = [r EXCEPT !.loaded = loaded]
      BY <2>2 DEF MapsRead
    <3> HIDE DEF m
    <3> QED
      BY <3>1 DEF Kept, Fields
  <2> QED
    BY <2>1, <2>2
<1>2. PICK candidates, c :
            /\ candidates \in Aligned(m, o, Candidates(m, o))
            /\ c \in Allowed(m, o, orig, candidates)
            /\ s = Rebound(m, o, orig, candidates, c)
  BY DEF Chosen
<1> HIDE DEF m
<1>3. Rebinds(m, s, o, orig, c)
  BY <1>1, <1>2, ReboundShape DEF Kept
<1> QED
  BY <1>1, <1>2, <1>3

\* A member that requires the service is bound to what the cluster is.
LEMMA ChosenAligned ==
    ASSUME NEW r, DOMAIN r = Fields, NEW o \in Hosts, o \in InCluster(r), Required(r, o) = TRUE,
           bound \in [Objects -> SUBSET Instances],
           r.read = None \/ r.read = bound, NEW orig \in Originals(r, o),
           ~Adds(r, o), ~Dels(r, o), One(bound[o]),
           One(View(bound, r, Cluster)), View(bound, r, Cluster) # {},
           NEW s \in Chosen(r, o, orig)
    PROVE  View(bound, s, o) = View(bound, r, Cluster)
<1>1. PICK m, candidates, c :
            /\ Kept(r, m) /\ m.add = r.add /\ m.del = r.del
            /\ candidates \in Aligned(m, o, Candidates(m, o))
            /\ c \in Allowed(m, o, orig, candidates)
            /\ Rebinds(m, s, o, orig, c)
  BY ChosenRebinds
<1>2. /\ Seen(m)[Cluster] = View(bound, r, Cluster)
      /\ Seen(r)[o] = bound[o]
      /\ View(bound, r, Cluster) \subseteq Instances
  BY <1>1, ViewPlain DEF Seen, View, Objects
<1>3. Parents(m, o) # {}
  BY <1>1 DEF Parents, InCluster, Kept
<1>4. PICK i : i \in View(bound, r, Cluster) /\ candidates = {i}
  BY <1>1, <1>2, <1>3 DEF Aligned
<1>5. View(bound, r, Cluster) = {i} /\ i \in Instances /\ i # None
  BY <1>2, <1>4, ChooserAssumption DEF One
<1>6. c = i
  BY <1>1, <1>4 DEF Allowed, PastUse, Room
<1>7. \/ orig = None /\ bound[o] = {}
      \/ orig # None /\ bound[o] = {orig}
  <2>1. bound[o] \subseteq Instances /\ o \in Objects
    BY DEF Objects
  <2>2. (bound[o] = {} /\ orig = None) \/ orig \in bound[o]
    BY <1>2 DEF Originals
  <2> QED
    BY <2>1, <2>2, ChooserAssumption DEF One
<1>8. CASE c = orig
  <2>1. s.add = r.add /\ s.del = r.del
    BY <1>1, <1>8 DEF Rebinds
  <2>2. View(bound, s, o) = View(bound, r, o) /\ View(bound, r, o) = bound[o]
    <3>1. View(bound, s, o) = View(bound, r, o)
      BY <2>1 DEF View
    <3>2. View(bound, r, o) = bound[o]
      BY ViewPlain DEF Objects
    <3> QED
      BY <3>1, <3>2
  <2> QED
    BY <1>5, <1>6, <1>7, <1>8, <2>2
<1>9. CASE c # orig
  <2>1. /\ s.add = r.add \cup {<<o, i>>}
        /\ s.del = IF orig = None THEN r.del ELSE r.del \cup {<<o, orig>>}
    BY <1>1, <1>5, <1>6, <1>9 DEF Rebinds, Changed
  <2>2. \A x \in Instances : x \in View(bound, s, o) <=> x = i
    BY <1>5, <1>7, <2>1 DEF View, Adds
  <2> QED
    BY <1>5, <2>2 DEF View
<1> QED
  BY <1>8, <1>9

-----------------------------------------------------------------------------

LEMMA BeginAligns ==
    ASSUME IInv, AInv, NEW t \in Threads, NEW r, Starts(r), Begin(t, r)
    PROVE  AInv'
<1>1. /\ bound' = bound /\ member' = member /\ requires' = requires
      /\ overlapped \subseteq overlapped'
  BY DEF Begin
<1>2. ASSUME NEW u \in Running', u # t
      PROVE  u \in Running /\ Same(thread[u], thread'[u])
  <2>1. u \in Running /\ thread'[u] = [thread[u] EXCEPT !.alone = FALSE]
    BY <1>2 DEF Begin, Running
  <2>2. DOMAIN thread[u] = Fields
    BY <2>1 DEF IInv, Types, WellFormed
  <2> QED
    BY <2>1, <2>2 DEF Same, Kept, Fields
<1>3. thread'[t] = r
  BY DEF Begin
<1>4. \A o \in Objects : ~Adds(r, o)
  BY StartsFresh
<1>5. bound \in [Objects -> SUBSET Instances] /\ member \subseteq Hosts
  BY DEF IInv, Types
<1>5a. ASSUME r.del # {}
       PROVE  /\ r.kind = "unlocked" /\ r.objects = << >> /\ Listed(r.objects) = {}
              /\ \E o, i : /\ o \in Objects /\ requires[o] # TRUE /\ i \in bound[o]
                         /\ r.del = {<<o, i>>}
  <2>1. /\ r.kind = "unlocked" /\ r.objects = << >>
        /\ \E o, i : /\ o \in Objects /\ requires[o] # TRUE /\ i \in bound[o]
                   /\ r.del = {<<o, i>>}
    BY <1>5a DEF Starts
  <2>2. Listed(<< >>) = {}
    BY DEF Listed
  <2> QED
    BY <2>1, <2>2
<1>6. Orderly(r)
  <2>1. r.del = {} => \A o \in Objects : ~Dels(r, o)
    BY DEF Dels
  <2>2. r.objects \in Seq(Objects) /\ Listed(r.objects) \subseteq Objects
    BY ElementOfSeq DEF Starts, Listed
  <2>3. r.del # {} => r.kind = "unlocked" /\ Listed(r.objects) = {}
    BY <1>5a
  <2>4. r.held \subseteq Listed(r.objects)
    BY DEF Starts
  <2> QED
    BY <2>1, <2>2, <2>3, <2>4 DEF Starts, Orderly
<1>7. ASSUME "list" \notin overlapped, Settled(bound, member, requires),
             NEW h \in (member \cup r.joins) \ Listed(r.objects), After(requires, r, h) = TRUE
      PROVE  /\ Cluster \notin Listed(r.objects)
             /\ View(bound, r, Cluster) # {} => View(bound, r, h) = View(bound, r, Cluster)
  <2>1. h \in member /\ h \in Objects /\ h # Cluster /\ requires[h] = TRUE
    BY <1>5, <1>7, ChooserAssumption DEF Starts, After, Objects
  <2>2. Cluster \notin Listed(r.objects)
    BY <1>7, <2>1 DEF Starts
  <2>3. ~Dels(r, h) /\ View(bound, r, h) = bound[h]
    <3>1. ~Dels(r, h)
      <4>1. ASSUME NEW i \in Instances, <<h, i>> \in r.del
            PROVE  FALSE
        <5>1. PICK o, j : requires[o] # TRUE /\ r.del = {<<o, j>>}
          BY <1>5a, <4>1
        <5> QED
          BY <2>1, <4>1, <5>1
      <4> QED
        BY <4>1 DEF Dels
    <3> QED
      BY <1>4, <1>5, <2>1, <3>1, ViewPlain
  <2>4. View(bound, r, Cluster) = {} \/ View(bound, r, Cluster) = bound[Cluster]
    <3>1. CASE ~Dels(r, Cluster)
      BY <1>4, <1>5, <3>1, ViewPlain DEF Objects
    <3>2. CASE Dels(r, Cluster)
      <4>1. PICK i : r.del = {<<Cluster, i>>} /\ i \in bound[Cluster]
        <5>1. PICK j \in Instances : <<Cluster, j>> \in r.del
          BY <3>2 DEF Dels
        <5>2. PICK o, i : i \in bound[o] /\ r.del = {<<o, i>>}
          BY <1>5a, <5>1
        <5> QED
          BY <5>1, <5>2
      <4>2. One(bound[Cluster])
        BY <1>7 DEF IInv, Single, Objects
      <4> QED
        BY <1>4, <4>1, <4>2 DEF View, Adds, One, Objects
    <3> QED
      BY <3>1, <3>2
  <2> QED
    BY <1>7, <2>1, <2>2, <2>3, <2>4 DEF Settled
<1>8. ASSUME overlapped' \subseteq {"host"}
      PROVE  /\ Settled(bound, member, requires)
             /\ \A u \in Running' : Fits(bound, member, requires, thread'[u])
  <2>1. /\ Settled(bound, member, requires)
        /\ \A u \in Running : Fits(bound, member, requires, thread[u])
    BY <1>1, <1>8 DEF AInv
  <2>2. Fits(bound, member, requires, r)
    BY <1>1, <1>7, <1>8, <2>1 DEF Fits
  <2> QED
    BY <1>2, <1>3, <2>1, <2>2, SameFits
<1>9. \A u \in Running' : Orderly(thread'[u])
  BY <1>2, <1>3, <1>6, SameFits DEF AInv
<1> QED
  BY <1>1, <1>8, <1>9 DEF AInv

LEMMA ProcessAligns ==
    ASSUME IInv, AInv, NEW t \in Threads, Process(t)
    PROVE  AInv'
<1> DEFINE r == thread[t]
<1>1. PICK o : /\ o = Head(r.objects)
               /\ \E orig \in Originals(r, o) : \E s \in Chosen(r, o, orig) :
                    thread' = [thread EXCEPT ![t] = Done([s EXCEPT !.held = @ \cup {o}])]
  BY DEF Process
<1>2. PICK orig, s, d :
            /\ orig \in Originals(r, o) /\ s \in Chosen(r, o, orig)
            /\ d = LockedDone(s, o)
            /\ thread' = [thread EXCEPT ![t] = d]
  BY <1>1 DEF LockedDone
<1>3. t \in Running /\ r.objects # << >> /\ WellFormed(r) /\ Orderly(r)
  BY DEF Process, Running, IInv, Types, AInv
<1>4. /\ o \in Objects /\ o \in Listed(r.objects)
      /\ Listed(Tail(r.objects)) = Listed(r.objects) \ {o}
  BY <1>1, <1>3, HeadGone DEF WellFormed
<1>5. Worked(r, s, o, orig)
  BY <1>2, <1>3, ChosenShape DEF WellFormed
<1>6. /\ Kept(r, s)
      /\ \A p, i : p # o =>
            /\ <<p, i>> \in s.add <=> <<p, i>> \in r.add
            /\ <<p, i>> \in s.del <=> <<p, i>> \in r.del
  <2> HIDE DEF r
  <2>1. ASSUME NEW c, Changed(r, s, o, orig, c), NEW p, NEW i, p # o
        PROVE  /\ <<p, i>> \in s.add <=> <<p, i>> \in r.add
               /\ <<p, i>> \in s.del <=> <<p, i>> \in r.del
    BY <2>1 DEF Changed
  <2> QED
    BY <1>5, <2>1 DEF Worked, Changed
<1>7. /\ d.objects = Tail(r.objects) /\ d.joins = r.joins /\ d.held = r.held \cup {o}
      /\ d.kind = r.kind /\ d.add = s.add /\ d.del = s.del /\ d.wants = r.wants
  <2>1. /\ DOMAIN s = Fields /\ s.objects = r.objects /\ s.joins = r.joins
        /\ s.held = r.held /\ s.kind = r.kind /\ s.wants = r.wants
    BY <1>6 DEF Kept
  <2>2. /\ d.objects = Tail(s.objects) /\ d.joins = s.joins /\ d.held = s.held \cup {o}
        /\ d.kind = s.kind /\ d.add = s.add /\ d.del = s.del /\ d.wants = s.wants
    BY <1>2, <2>1, DoneShape
  <2> QED
    BY <2>1, <2>2
<1>8. /\ thread'[t] = d /\ \A u \in Running' : u # t => u \in Running /\ thread'[u] = thread[u]
      /\ bound' = bound /\ member' = member /\ requires' = requires
      /\ overlapped' = overlapped
  BY <1>2 DEF Process, Running, IInv, Types
<1>9. ~Adds(r, o) /\ ~Dels(r, o)
  BY <1>3, <1>4 DEF WellFormed, Orderly
<1>10. Cluster \notin Listed(d.objects)
  BY <1>1, <1>3, <1>4, <1>7 DEF Orderly
<1>11. \A p \in Objects \ {o} :
            (Dels(d, p) <=> Dels(r, p)) /\ View(bound, d, p) = View(bound, r, p)
  BY <1>6, <1>7 DEF Dels, View
<1>12. Orderly(d)
  <2>1. /\ Listed(d.objects) = Listed(r.objects) \ {o} /\ Listed(r.objects) \subseteq Objects
        /\ d.held = r.held \cup {o} /\ d.kind = r.kind /\ d.joins = r.joins
    <3>1. r.objects \in Seq(Objects)
      BY <1>3 DEF WellFormed
    <3>2. Listed(r.objects) \subseteq Objects
      BY <3>1, ElementOfSeq DEF Listed
    <3> QED
      BY <1>4, <1>7, <3>2
  <2>2. /\ r.kind # "unlocked" => \A p \in Objects : Dels(r, p) => p \in r.held
        /\ \A p \in Listed(r.objects) : ~Dels(r, p)
        /\ r.kind = "host" =>
            r.joins = {} /\ Cluster \notin r.held /\ Cluster \notin Listed(r.objects)
    BY <1>3 DEF Orderly
  <2>3. d.kind # "unlocked" => \A p \in Objects : Dels(d, p) => p \in d.held
    BY <1>11, <2>1, <2>2
  <2>4. \A p \in Listed(d.objects) : ~Dels(d, p)
    BY <1>11, <2>1, <2>2
  <2>5. d.kind = "host" => d.joins = {} /\ Cluster \notin d.held
    BY <1>4, <2>1, <2>2
  <2> QED
    BY <1>10, <2>3, <2>4, <2>5 DEF Orderly
<1>13. ASSUME overlapped \subseteq {"host"}, NEW h \in (member \cup r.joins) \ Listed(d.objects),
              After(requires, d, h) = TRUE, View(bound, d, Cluster) # {}
       PROVE  View(bound, d, h) = View(bound, d, Cluster)
  <2>1. h \in Hosts /\ h \in Objects /\ h # Cluster /\ Cluster \in Objects
    BY <1>3, ChooserAssumption DEF IInv, Types, WellFormed, Objects
  <2>2. Fits(bound, member, requires, r)
    BY <1>3, <1>13 DEF AInv
  <2>3. CASE h # o
    <3>1. h \in (member \cup r.joins) \ Listed(r.objects) /\ After(requires, r, h) = TRUE
      BY <1>4, <1>7, <1>13, <2>3 DEF After
    <3>2. /\ Cluster \notin Listed(r.objects)
          /\ View(bound, r, Cluster) # {} => View(bound, r, h) = View(bound, r, Cluster)
      BY <2>2, <3>1 DEF Fits
    <3> QED
      BY <1>4, <1>11, <1>13, <2>1, <2>3, <3>2
  <2>4. CASE h = o
    <3>1. View(bound, d, Cluster) = View(bound, r, Cluster)
      BY <1>11, <2>1, <2>4
    <3>2. Required(r, o) = TRUE /\ o \in InCluster(r)
      BY <1>7, <1>13, <2>1, <2>4 DEF After, Required, InCluster
    <3>3. r.read = None \/ r.read = bound
      BY <1>3, <1>13 DEF IInv, Loaded
    <3>4. One(bound[o]) /\ One(View(bound, r, Cluster))
      BY <1>3, <1>4, <1>13, <2>1 DEF IInv, Single
    <3>5. bound \in [Objects -> SUBSET Instances] /\ DOMAIN r = Fields
      BY <1>3 DEF IInv, Types, WellFormed
    <3>6. View(bound, s, o) = View(bound, r, Cluster)
      <4> HIDE DEF r
      <4> QED
        BY <1>2, <1>9, <1>13, <2>1, <2>4, <3>1, <3>2, <3>3, <3>4, <3>5, ChosenAligned
    <3> QED
      BY <1>7, <2>4, <3>1, <3>6 DEF View
  <2> QED
    BY <2>3, <2>4
<1>14. overlapped \subseteq {"host"} => Fits(bound, member, requires, d)
  BY <1>7, <1>10, <1>13 DEF Fits
<1> QED
  BY <1>8, <1>12, <1>14 DEF AInv

LEMMA CommitAligns ==
    ASSUME IInv, AInv, NEW t \in Threads, Commit(t)
    PROVE  AInv'
<1> DEFINE r == thread[t]
<1>1. /\ t \in Running /\ WellFormed(r) /\ Orderly(r) /\ Listed(r.objects) = {}
      /\ overlapped' = overlapped
      /\ \A u \in Running' : u # t /\ u \in Running /\ thread'[u] = thread[u]
  BY DEF Commit, Running, IInv, Types, AInv, Listed
<1>2. \A u \in Running' : Orderly(thread'[u])
  BY <1>1 DEF AInv
<1>3. CASE UNCHANGED <<bound, requires, member>>
  BY <1>1, <1>2, <1>3 DEF AInv
<1>4. CASE /\ bound' = Seen(r) /\ member' = InCluster(r)
           /\ requires' = [o \in Objects |->
                    IF o \in Hosts \cap r.held THEN Required(r, o) ELSE requires[o]]
  <2>1. /\ \A o \in Objects : bound'[o] = View(bound, r, o)
        /\ \A h \in Hosts : requires'[h] = After(requires, r, h)
        /\ member' = member \cup r.joins /\ member' \subseteq Hosts
        /\ bound \in [Objects -> SUBSET Instances] /\ bound' \in [Objects -> SUBSET Instances]
    BY <1>1, <1>4 DEF Seen, View, After, Required, InCluster, Objects, IInv, Types, WellFormed
  <2> HIDE DEF r
  <2>2. ASSUME overlapped' \subseteq {"host"}
        PROVE  Settled(bound', member', requires')
    <3>1. Fits(bound, member, requires, r)
      BY <1>1, <2>2 DEF AInv, r
    <3>2. Cluster \in Objects /\ Hosts \subseteq Objects
      BY DEF Objects
    <3>3. ASSUME NEW h \in member', requires'[h] = TRUE, bound'[Cluster] # {}
          PROVE  bound'[h] = bound'[Cluster]
      BY <1>1, <2>1, <3>1, <3>2, <3>3 DEF Fits
    <3> QED
      BY <3>3 DEF Settled
  <2>3. ASSUME overlapped' \subseteq {"host"}, NEW u \in Running'
        PROVE  Fits(bound', member', requires', thread'[u])
    <3> DEFINE q == thread[u]
    <3>1. /\ u # t /\ u \in Running /\ thread'[u] = q /\ WellFormed(q) /\ Orderly(q)
          /\ Fits(bound, member, requires, q)
      BY <1>1, <2>3 DEF IInv, Types, AInv
    <3>2. r.kind = "host" /\ q.kind = "host" /\ r.held \cap q.held = {}
      BY <1>1, <2>3, <3>1 DEF IInv, Apart, r
    <3>3. /\ r.joins = {} /\ q.joins = {} /\ Cluster \notin r.held /\ Cluster \notin q.held
          /\ Cluster \notin Listed(q.objects)
      BY <1>1, <3>1, <3>2 DEF Orderly
    <3> HIDE DEF q
    <3>4. ASSUME NEW o \in Objects, o \notin r.held
          PROVE  bound'[o] = bound[o]
      <4>1. ~Adds(r, o) /\ ~Dels(r, o)
        BY <1>1, <3>2, <3>4 DEF WellFormed, Orderly
      <4> QED
        BY <2>1, <4>1, ViewPlain
    <3>5. ASSUME NEW o \in Objects, o \notin q.held
          PROVE  View(bound', q, o) = bound'[o] /\ View(bound, q, o) = bound[o]
      <4>1. ~Adds(q, o) /\ ~Dels(q, o)
        BY <3>1, <3>2, <3>5 DEF WellFormed, Orderly
      <4> QED
        BY <2>1, <4>1, ViewPlain
    <3>6. ASSUME NEW h \in member' \ Listed(q.objects), After(requires', q, h) = TRUE,
                 View(bound', q, Cluster) # {}
          PROVE  View(bound', q, h) = View(bound', q, Cluster)
      <4>1. /\ h \in Hosts /\ h \in Objects /\ Cluster \in Objects /\ h \in member
            /\ View(bound', q, Cluster) = bound'[Cluster]
            /\ View(bound, q, Cluster) = bound[Cluster] /\ bound'[Cluster] = bound[Cluster]
        BY <2>1, <3>3, <3>4, <3>5, <3>6 DEF Objects
      <4>2. CASE h \in q.held
        <5>1. bound'[h] = bound[h] /\ requires'[h] = requires[h]
          BY <2>1, <3>2, <3>4, <4>1, <4>2 DEF After
        <5>2. View(bound, q, h) = View(bound, q, Cluster)
          BY <3>1, <3>6, <4>1, <5>1 DEF Fits, After
        <5> QED
          BY <4>1, <5>1, <5>2 DEF View
      <4>3. CASE h \notin q.held
        <5>1. requires'[h] = TRUE /\ View(bound', q, h) = bound'[h]
          BY <3>5, <3>6, <4>1, <4>3 DEF After
        <5> QED
          BY <2>2, <2>3, <3>6, <4>1, <5>1 DEF Settled
      <4> QED
        BY <4>2, <4>3
    <3> QED
      BY <3>1, <3>3, <3>6 DEF Fits
  <2> QED
    BY <1>2, <2>2, <2>3 DEF AInv
<1> QED
  BY <1>3, <1>4 DEF Commit

LEMMA UnclusterAligns ==
    ASSUME IInv, AInv, NEW h \in Hosts, Uncluster(h)
    PROVE  AInv'
<1>1. /\ bound' = bound /\ member' \subseteq member /\ requires' = requires
      /\ overlapped \subseteq overlapped'
      /\ overlapped' \subseteq {"host"} => Running = {}
  BY DEF Uncluster
<1>2. ASSUME NEW u \in Running'
      PROVE  u \in Running /\ Same(thread[u], thread'[u])
  <2>1. u \in Running /\ thread'[u] = [thread[u] EXCEPT !.alone = FALSE]
    BY DEF Uncluster, Running
  <2>2. DOMAIN thread[u] = Fields
    BY <2>1 DEF IInv, Types, WellFormed
  <2> QED
    BY <2>1, <2>2 DEF Same, Kept, Fields
<1>3. \A u \in Running' : Orderly(thread'[u])
  BY <1>2, SameFits DEF AInv
<1>4. overlapped' \subseteq {"host"} => Settled(bound', member', requires')
  BY <1>1 DEF AInv, Settled
<1> QED
  BY <1>1, <1>2, <1>3, <1>4 DEF AInv

LEMMA RestAligns ==
    ASSUME IInv, AInv, bound' = bound, member' = member, overlapped' = overlapped,
           requires' = requires,
           thread' = thread \/ \E t \in Threads : thread' = [thread EXCEPT ![t] = None]
    PROVE  AInv'
<1>1. ASSUME NEW u \in Running'
      PROVE  u \in Running /\ thread'[u] = thread[u]
  BY DEF Running, IInv, Types
<1> QED
  BY <1>1 DEF AInv

LEMMA NextAligns ==
    ASSUME IInv, AInv, [Next]_vars
    PROVE  AInv'
<1>1. ASSUME NEW t \in Threads, Commands(t)
      PROVE  AInv'
  BY <1>1, CommandBegins, BeginAligns DEF IInv
<1>2. ASSUME NEW t \in Threads, Process(t)
      PROVE  AInv'
  BY <1>2, ProcessAligns
<1>3. ASSUME NEW t \in Threads, Commit(t)
      PROVE  AInv'
  BY <1>3, CommitAligns
<1>4. ASSUME NEW t \in Threads, Fail(t)
      PROVE  AInv'
  BY <1>4, RestAligns DEF Fail
<1>5. ASSUME NEW h \in Hosts, Uncluster(h)
      PROVE  AInv'
  BY <1>5, UnclusterAligns
<1>6. ASSUME NEW i, NEW max, SetLimit(i, max)
      PROVE  AInv'
  BY <1>6, RestAligns DEF SetLimit
<1>7. ASSUME NEW k, NEW instances, MapService(k, instances)
      PROVE  AInv'
  BY <1>7, RestAligns DEF MapService
<1>8. ASSUME UNCHANGED vars
      PROVE  AInv'
  BY <1>8, RestAligns DEF vars
<1> QED
  BY <1>1, <1>2, <1>3, <1>4, <1>5, <1>6, <1>7, <1>8 DEF Next

(* While only commands of one host overlap, a member that requires the      *)
(* service is bound to what its cluster is bound to and to nothing else:    *)
(* choose_aligned leaves one candidate (services.py:286-305), an object is  *)
(* bound to one instance, and a command of the cluster goes on to all the   *)
(* members that require it (make_cluster, bind_client --cluster).           *)
THEOREM AlignedMembersHolds == Spec => []AlignedMembers
<1>1. Init => IInv /\ AInv
  BY InitInv DEF Init, AInv, Settled, Running, Objects
<1>2. IInv /\ AInv /\ [Next]_vars => IInv' /\ AInv'
  BY NextInv, NextAligns
<1>3. IInv /\ AInv => AlignedMembers
  BY DEF AInv, Settled, AlignedMembers
<1> QED
  BY <1>1, <1>2, <1>3, PTL DEF Spec

-----------------------------------------------------------------------------
(* How the number of clients follows the bindings                           *)

\* What an object counts for
Weight(o) == IF o # Cluster THEN 1 ELSE IF requires[Cluster] THEN MaxHosts ELSE 0

LEMMA WeightIsFootprint ==
    ASSUME NEW r, NEW o
    PROVE  Footprint(r, o) = Weight(o) /\ Weight(o) \in Nat
BY ChooserAssumption DEF Footprint, Required, Weight

LEMMA HostsFinite ==
    ASSUME NEW S \in SUBSET Hosts
    PROVE  IsFiniteSet(S) /\ Cardinality(S) \in Nat
BY ChooserAssumption, FS_Subset, FS_CardinalityType

LEMMA OneMore ==
    ASSUME NEW S \in SUBSET Hosts, NEW T \in SUBSET Hosts, NEW h, T \subseteq S \cup {h}
    PROVE  Cardinality(T) <= Cardinality(S) + 1
<1>1. /\ IsFiniteSet(S) /\ Cardinality(S) \in Nat /\ Cardinality(T) \in Nat
  BY HostsFinite
<1>2. /\ IsFiniteSet(S \cup {h})
      /\ Cardinality(S \cup {h}) = IF h \in S THEN Cardinality(S) ELSE Cardinality(S) + 1
  BY <1>1, FS_AddElement
<1>3. Cardinality(T) <= Cardinality(S \cup {h})
  BY <1>2, FS_Subset
<1> QED
  BY <1>1, <1>2, <1>3

LEMMA OneLess ==
    ASSUME NEW S \in SUBSET Hosts, NEW T \in SUBSET Hosts, NEW h \in S, T \subseteq S \ {h}
    PROVE  Cardinality(T) <= Cardinality(S) - 1
<1>1. /\ IsFiniteSet(S) /\ Cardinality(S) \in Nat /\ Cardinality(T) \in Nat
  BY HostsFinite
<1>2. /\ IsFiniteSet(S \ {h})
      /\ Cardinality(S \ {h}) = Cardinality(S) - 1
  BY <1>1, FS_RemoveElement
<1>3. Cardinality(T) <= Cardinality(S \ {h})
  BY <1>2, FS_Subset
<1> QED
  BY <1>1, <1>2, <1>3

\* The hosts that are bound to x
BoundHosts(bnd, x) == {h \in Hosts : x \in bnd[h]}

LEMMA ClientsAre ==
    ASSUME NEW bnd, NEW mem, NEW x
    PROVE  Clients(bnd, mem, x) =
            IF requires[Cluster]
            THEN Cardinality(BoundHosts(bnd, x) \ mem)
                    + (IF x \in bnd[Cluster] THEN MaxHosts ELSE 0)
            ELSE Cardinality(BoundHosts(bnd, x))
BY DEF Clients, BoundHosts

\* Fewer bindings and more members are fewer clients.
LEMMA ClientsFewer ==
    ASSUME NEW bnd, NEW bnd2, NEW mem, NEW mem2, NEW x, mem \subseteq mem2,
           \A p \in Objects : x \in bnd2[p] => x \in bnd[p]
    PROVE  Clients(bnd2, mem2, x) <= Clients(bnd, mem, x)
<1> DEFINE A == BoundHosts(bnd, x)
           B == BoundHosts(bnd2, x)
<1>1. B \subseteq A /\ B \ mem2 \subseteq A \ mem /\ A \subseteq Hosts
  BY DEF BoundHosts, Objects
<1>2. x \in bnd2[Cluster] => x \in bnd[Cluster]
  BY DEF Objects
<1>3. /\ Clients(bnd, mem, x) = IF requires[Cluster]
            THEN Cardinality(A \ mem) + (IF x \in bnd[Cluster] THEN MaxHosts ELSE 0)
            ELSE Cardinality(A)
      /\ Clients(bnd2, mem2, x) = IF requires[Cluster]
            THEN Cardinality(B \ mem2) + (IF x \in bnd2[Cluster] THEN MaxHosts ELSE 0)
            ELSE Cardinality(B)
  BY ClientsAre
<1> HIDE DEF A, B
<1>4. /\ IsFiniteSet(A) /\ IsFiniteSet(A \ mem) /\ Cardinality(A) \in Nat
      /\ Cardinality(A \ mem) \in Nat /\ Cardinality(B) \in Nat
      /\ Cardinality(B \ mem2) \in Nat
  BY <1>1, HostsFinite
<1>5. Cardinality(B) <= Cardinality(A) /\ Cardinality(B \ mem2) <= Cardinality(A \ mem)
  BY <1>1, <1>4, FS_Subset
<1> QED
  BY <1>2, <1>3, <1>4, <1>5, ChooserAssumption

\* One object more counts for its weight at most.
LEMMA ClientsGain ==
    ASSUME NEW bnd, NEW bnd2, NEW mem, NEW x, NEW o \in Objects,
           \A p \in Objects : p # o => (x \in bnd2[p] => x \in bnd[p])
    PROVE  Clients(bnd2, mem, x) <= Clients(bnd, mem, x) + Weight(o)
<1> DEFINE A == BoundHosts(bnd, x)
           B == BoundHosts(bnd2, x)
<1>1. A \subseteq Hosts /\ B \subseteq Hosts /\ B \subseteq A \cup {o}
      /\ (o = Cluster => B \subseteq A)
  BY ChooserAssumption DEF BoundHosts, Objects
<1>2. o # Cluster => (x \in bnd2[Cluster] => x \in bnd[Cluster])
  BY DEF Objects
<1>3. /\ Clients(bnd, mem, x) = IF requires[Cluster]
            THEN Cardinality(A \ mem) + (IF x \in bnd[Cluster] THEN MaxHosts ELSE 0)
            ELSE Cardinality(A)
      /\ Clients(bnd2, mem, x) = IF requires[Cluster]
            THEN Cardinality(B \ mem) + (IF x \in bnd2[Cluster] THEN MaxHosts ELSE 0)
            ELSE Cardinality(B)
  BY ClientsAre
<1> HIDE DEF A, B
<1>4. /\ IsFiniteSet(A) /\ IsFiniteSet(A \ mem) /\ Cardinality(A) \in Nat
      /\ Cardinality(A \ mem) \in Nat /\ Cardinality(B) \in Nat
      /\ Cardinality(B \ mem) \in Nat
  BY <1>1, HostsFinite
<1>5. CASE o = Cluster
  <2>1. Cardinality(B) <= Cardinality(A) /\ Cardinality(B \ mem) <= Cardinality(A \ mem)
    <3>1. B \ mem \subseteq A \ mem /\ B \subseteq A
      BY <1>1, <1>5
    <3> QED
      BY <1>4, <3>1, FS_Subset
  <2> QED
    BY <1>3, <1>4, <1>5, <2>1, ChooserAssumption DEF Weight
<1>6. CASE o # Cluster
  <2>1. Cardinality(B) <= Cardinality(A) + 1
    BY <1>1, OneMore
  <2>2. Cardinality(B \ mem) <= Cardinality(A \ mem) + 1
    <3>1. /\ A \ mem \in SUBSET Hosts /\ B \ mem \in SUBSET Hosts
          /\ B \ mem \subseteq (A \ mem) \cup {o}
      BY <1>1
    <3> QED
      BY <3>1, OneMore
  <2> QED
    BY <1>2, <1>3, <1>4, <1>6, <2>1, <2>2, ChooserAssumption DEF Weight
<1> QED
  BY <1>5, <1>6

\* An object that is unbound and was counted takes its weight with it.
LEMMA ClientsLoss ==
    ASSUME NEW bnd, NEW bnd2, NEW mem, NEW x, NEW o \in Objects,
           \A p \in Objects : x \in bnd2[p] => x \in bnd[p],
           x \in bnd[o], x \notin bnd2[o],
           requires[Cluster] => o \notin mem
    PROVE  Clients(bnd2, mem, x) <= Clients(bnd, mem, x) - Weight(o)
<1> DEFINE A == BoundHosts(bnd, x)
           B == BoundHosts(bnd2, x)
<1>1. A \subseteq Hosts /\ B \subseteq A
  BY DEF BoundHosts, Objects
<1>2. /\ x \in bnd2[Cluster] => x \in bnd[Cluster]
      /\ o = Cluster => x \in bnd[Cluster] /\ x \notin bnd2[Cluster]
      /\ o # Cluster => o \in A /\ B \subseteq A \ {o}
  BY DEF Objects, BoundHosts
<1>3. /\ Clients(bnd, mem, x) = IF requires[Cluster]
            THEN Cardinality(A \ mem) + (IF x \in bnd[Cluster] THEN MaxHosts ELSE 0)
            ELSE Cardinality(A)
      /\ Clients(bnd2, mem, x) = IF requires[Cluster]
            THEN Cardinality(B \ mem) + (IF x \in bnd2[Cluster] THEN MaxHosts ELSE 0)
            ELSE Cardinality(B)
  BY ClientsAre
<1> HIDE DEF A, B
<1>4. /\ IsFiniteSet(A) /\ IsFiniteSet(A \ mem) /\ Cardinality(A) \in Nat
      /\ Cardinality(A \ mem) \in Nat /\ Cardinality(B) \in Nat
      /\ Cardinality(B \ mem) \in Nat
  BY <1>1, HostsFinite
<1>5. Cardinality(B) <= Cardinality(A) /\ Cardinality(B \ mem) <= Cardinality(A \ mem)
  <2>1. B \ mem \subseteq A \ mem
    BY <1>1
  <2> QED
    BY <1>1, <1>4, <2>1, FS_Subset
<1>6. CASE o = Cluster
  BY <1>2, <1>3, <1>4, <1>5, <1>6, ChooserAssumption DEF Weight
<1>7. CASE o # Cluster
  <2>1. Cardinality(B) <= Cardinality(A) - 1
    BY <1>1, <1>2, <1>7, OneLess
  <2>2. requires[Cluster] => Cardinality(B \ mem) <= Cardinality(A \ mem) - 1
    <3>1. ASSUME requires[Cluster]
          PROVE  /\ A \ mem \in SUBSET Hosts /\ B \ mem \in SUBSET Hosts
                 /\ o \in A \ mem /\ B \ mem \subseteq (A \ mem) \ {o}
      BY <1>1, <1>2, <1>7, <3>1
    <3> QED
      BY <3>1, OneLess
  <2> QED
    BY <1>2, <1>3, <1>4, <1>7, <2>1, <2>2, ChooserAssumption DEF Weight
<1> QED
  BY <1>6, <1>7

-----------------------------------------------------------------------------
(* The counts of a command                                                  *)

\* The clients of x when r has committed
LoadOf(r, x) == Clients(Seen(r), InCluster(r), x)

\* What the cache has counted is at least what there will be; what it has not
\* counted the command has not changed, and a count that has been loaded holds.
Tallies(r) ==
    \A x \in Instances :
        /\ r.count[x] # None => r.count[x] \in Int /\ LoadOf(r, x) <= r.count[x]
        /\ r.count[x] = None => \A o \in Objects : x \in Seen(r)[o] <=> x \in bound[o]
        /\ r.count[x] = None =>
            (r.loaded[x] # None => (requires[Cluster] \/ r.loaded[x] = LoadOf(r, x)))

\* Nothing will be over its maximum that is not already.
Within(r) ==
    \A x \in Instances : limit[x] # None =>
        LoadOf(r, x) <= limit[x] \/ LoadOf(r, x) <= Load(x)

Books(r) == Tallies(r) /\ Within(r)

\* The parts of a record that the work on an object leaves, besides Kept
Carries(r, s) ==
    /\ Kept(r, s) /\ s.alone = r.alone
    /\ s.single = r.single /\ s.instance = r.instance /\ s.only = r.only

LEMMA JobFields ==
    ASSUME NEW r \in Job
    PROVE  DOMAIN r = Fields
BY DEF Job, Fields

LEMMA SeenTyped ==
    ASSUME TypeOK, NEW r \in Job
    PROVE  Seen(r) \in [Objects -> SUBSET Instances] /\ InCluster(r) \in SUBSET Hosts
<1>1. r.joins \in SUBSET Hosts
  BY DEF Job
<1> QED
  BY <1>1 DEF Seen, InCluster, TypeOK

LEMMA LoadOfSame ==
    ASSUME NEW r, NEW s, s.add = r.add, s.del = r.del, s.joins = r.joins
    PROVE  Seen(s) = Seen(r) /\ InCluster(s) = InCluster(r) /\ \A x : LoadOf(s, x) = LoadOf(r, x)
BY DEF LoadOf, Seen, InCluster

\* The counts and the changes are all that matters.
LEMMA BooksSame ==
    ASSUME NEW r, NEW s, s.add = r.add, s.del = r.del, s.joins = r.joins,
           s.count = r.count, s.loaded = r.loaded, Books(r)
    PROVE  Books(s)
<1>1. Seen(s) = Seen(r) /\ \A x : LoadOf(s, x) = LoadOf(r, x)
  BY LoadOfSame
<1> QED
  BY <1>1 DEF Books, Tallies, Within

LEMMA CachedCountTyped ==
    ASSUME NEW r \in Job, NEW x \in Instances
    PROVE  /\ ClientCount(r, x) \in Int /\ CachedCount(r, x) \in Int
           /\ CachedCount(r, x) # None
<1>1. Clients(Seen(r), InCluster(r), x) \in Nat
  BY ClientsNat
<1>2. r.loaded[x] \in Int \cup {None} /\ r.count[x] \in Int \cup {None}
  BY DEF Job
<1>3. ClientCount(r, x) \in Int /\ CachedCount(r, x) \in Int
  BY <1>1, <1>2 DEF ClientCount, CachedCount
<1> QED
  BY <1>3, ChooserAssumption

\* The cache is never below what there will be.
LEMMA CachedCountCovers ==
    ASSUME NEW r \in Job, NEW x \in Instances, Tallies(r)
    PROVE  LoadOf(r, x) <= CachedCount(r, x)
<1>1. LoadOf(r, x) \in Nat
  BY ClientsNat DEF LoadOf
<1>2. CASE r.count[x] # None
  BY <1>2 DEF Tallies, CachedCount
<1>3. CASE r.count[x] = None
  <2>1. ClientCount(r, x) = LoadOf(r, x)
    BY <1>3 DEF Tallies, ClientCount, LoadOf
  <2> QED
    BY <1>1, <1>3, <2>1 DEF CachedCount
<1> QED
  BY <1>2, <1>3

LEMMA KeyTyped ==
    ASSUME NEW o
    PROVE  Key(o) \in Keys
BY DEF Key, Keys

LEMMA CachedMapTyped ==
    ASSUME TypeOK, NEW r \in Job, NEW o
    PROVE  CachedMap(r, o) \in SUBSET Instances /\ Candidates(r, o) \in SUBSET Instances
<1>1. r.maps[Key(o)] \in {None} \cup SUBSET Instances
  BY KeyTyped DEF Job
<1>2. mapped[Key(o)] \in SUBSET Instances
  BY KeyTyped DEF TypeOK
<1>3. r.instance \in Instances \cup {None}
  BY DEF Job
<1> QED
  BY <1>1, <1>2, <1>3 DEF CachedMap, Candidates, Named

LEMMA MapsReadBooks ==
    ASSUME TypeOK, NEW r \in Job, NEW o, NEW m, m = MapsRead(r, o)
    PROVE  /\ m \in Job /\ Carries(r, m) /\ m.add = r.add /\ m.del = r.del
           /\ m.count = r.count /\ m.miscounted = r.miscounted
           /\ Books(r) => Books(m)
<1> DEFINE loaded == [i \in Instances |->
            IF r.loaded[i] = None /\ ~Named(r) /\ i \in mapped[Key(o)] /\ r.maps[Key(o)] = None
            THEN LoadOf(r, i) ELSE r.loaded[i]]
           n == [r EXCEPT !.loaded = loaded]
<1>1. CASE requires[Cluster]
  <2>1. m = r
    BY <1>1 DEF MapsRead
  <2> QED
    BY <2>1, JobFields DEF Carries, Kept
<1>2. CASE ~requires[Cluster]
  <2>1. r.loaded \in [Instances -> Int \cup {None}]
    BY DEF Job
  <2>2. m = n
    BY <1>2, <2>1 DEF MapsRead, LoadOf
  <2>3. loaded \in [Instances -> Int \cup {None}]
    <3>1. \A i \in Instances : LoadOf(r, i) \in Int
      BY ClientsNat DEF LoadOf
    <3> QED
      BY <2>1, <3>1
  <2>4. \A i \in Instances : loaded[i] = r.loaded[i] \/ loaded[i] = LoadOf(r, i)
    OBVIOUS
  <2> HIDE DEF loaded
  <2>5. DOMAIN r = Fields
    BY JobFields
  <2>6. n \in Job
    BY <2>3 DEF Job
  <2>7. /\ Carries(r, n) /\ n.add = r.add /\ n.del = r.del /\ n.joins = r.joins
        /\ n.count = r.count /\ n.miscounted = r.miscounted /\ n.loaded = loaded
    BY <2>5 DEF Carries, Kept, Fields
  <2> HIDE DEF n
  <2>8. ASSUME Books(r)
        PROVE  Books(n)
    <3>1. Seen(n) = Seen(r) /\ \A x : LoadOf(n, x) = LoadOf(r, x)
      BY <2>7, LoadOfSame
    <3>2. \A x \in Instances : n.count[x] = None =>
            (n.loaded[x] # None => (requires[Cluster] \/ n.loaded[x] = LoadOf(n, x)))
      BY <2>4, <2>7, <2>8, <3>1 DEF Books, Tallies
    <3> QED
      BY <2>7, <2>8, <3>1, <3>2 DEF Books, Tallies, Within
  <2> QED
    BY <2>2, <2>6, <2>7, <2>8
<1> QED
  BY <1>1, <1>2

LEMMA LookedBooks ==
    ASSUME TypeOK, NEW r \in Job, NEW o, NEW orig, NEW candidates \in SUBSET Instances,
           NEW n, n = Looked(r, o, orig, candidates)
    PROVE  /\ n \in Job /\ Carries(r, n) /\ n.add = r.add /\ n.del = r.del
           /\ n.miscounted = r.miscounted
           /\ \A x \in candidates : n.count[x] = CachedCount(r, x)
           /\ Books(r) => Books(n)
<1> DEFINE count == [i \in Instances |-> IF i \in candidates THEN CachedCount(r, i)
                                                             ELSE r.count[i]]
           b == [r EXCEPT !.count = count]
           list == IF Named(r) THEN r.maps[Key(o)]
                   ELSE IF candidates = Candidates(r, o)
                   THEN Room(r, o, orig, candidates) ELSE Candidates(r, o)
           maps == [r.maps EXCEPT ![Key(o)] = list]
<1>1. /\ r.count \in [Instances -> Int \cup {None}]
      /\ r.maps \in [Keys -> {None} \cup SUBSET Instances]
  BY DEF Job
<1>2. DOMAIN r = Fields
  BY JobFields
<1>3. Counted(r, candidates) = b
  BY <1>1 DEF Counted
<1>4. list \in {None} \cup SUBSET Instances
  BY <1>1, CachedMapTyped, KeyTyped DEF Room
<1>5. maps \in [Keys -> {None} \cup SUBSET Instances]
  BY <1>1, <1>4
<1>6. count \in [Instances -> Int \cup {None}]
  BY <1>1, CachedCountTyped
<1>7. \A x \in Instances : count[x] = IF x \in candidates THEN CachedCount(r, x) ELSE r.count[x]
  OBVIOUS
<1> HIDE DEF list, count
<1>8. b.maps = r.maps
  BY <1>2 DEF Fields
<1>9. n = [b EXCEPT !.maps = maps]
  BY <1>3, <1>8 DEF Looked, list
<1> HIDE DEF maps
<1>10. b \in Job
  BY <1>6 DEF Job
<1>11. [b EXCEPT !.maps = maps] \in Job
  <2> HIDE DEF b
  <2> QED
    BY <1>5, <1>10 DEF Job
<1>12. /\ Carries(r, n) /\ n.add = r.add /\ n.del = r.del /\ n.joins = r.joins
       /\ n.miscounted = r.miscounted /\ n.count = count /\ n.loaded = r.loaded
  <2>1. /\ Carries(r, b) /\ b.add = r.add /\ b.del = r.del /\ b.joins = r.joins
        /\ b.miscounted = r.miscounted /\ b.count = count /\ b.loaded = r.loaded
    BY <1>2 DEF Carries, Kept, Fields
  <2> HIDE DEF b
  <2> QED
    BY <1>9, <2>1 DEF Carries, Kept, Fields
<1> HIDE DEF b
<1>13. ASSUME Books(r)
       PROVE  Books(n)
  <2>1. Seen(n) = Seen(r) /\ \A x : LoadOf(n, x) = LoadOf(r, x)
    BY <1>12, LoadOfSame
  <2>2. ASSUME NEW x \in candidates
        PROVE  n.count[x] \in Int /\ n.count[x] # None /\ LoadOf(n, x) <= n.count[x]
    BY <1>7, <1>12, <1>13, <2>1, CachedCountTyped, CachedCountCovers DEF Books
  <2>3. ASSUME NEW x \in Instances \ candidates
        PROVE  n.count[x] = r.count[x]
    BY <1>7, <1>12
  <2>4. Tallies(n)
    BY <1>12, <1>13, <2>1, <2>2, <2>3 DEF Books, Tallies
  <2> QED
    BY <1>13, <2>1, <2>4 DEF Books, Within
<1> QED
  BY <1>7, <1>9, <1>11, <1>12, <1>13

\* apply_changes in the record: orig is taken off and new is counted.
Applies(r, s, o, orig, new) ==
    /\ s \in Job /\ Changed(r, s, o, orig, new) /\ Carries(r, s)
    /\ s.loaded = r.loaded
    /\ s.miscounted # TRUE =>
            /\ s.miscounted = FALSE /\ r.miscounted = FALSE
            /\ orig = None \/ (r.count[orig] # None /\ ~Uncounted(r, o))
    /\ \A x \in Instances : x # orig =>
            s.count[x] = IF x = new THEN r.count[x] + Weight(o) ELSE r.count[x]
    /\ (orig # None /\ r.count[orig] # None) => s.count[orig] = r.count[orig] - Weight(o)

LEMMA AppliedCounts ==
    ASSUME TypeOK, NEW r \in Job, NEW o \in Objects, NEW orig \in Instances \cup {None},
           NEW new \in Instances \cup {None}, new # None => r.count[new] # None
    PROVE  Applies(r, Applied(r, o, orig, new), o, orig, new)
<1> DEFINE s == Applied(r, o, orig, new)
           foot == Footprint(r, o)
           gone == IF orig = None THEN r ELSE [r EXCEPT !.del = @ \cup {<<o, orig>>}]
           queries == requires[Cluster] \/ \A i \in Instances : r.count[i] = None
           lost == IF orig = None THEN 0
                   ELSE IF r.count[orig] # None THEN r.count[orig]
                   ELSE ClientCount(IF queries THEN gone ELSE r, orig)
           add == IF new = None THEN r.add ELSE r.add \cup {<<o, new>>}
           wrong == orig # None /\ (r.count[orig] = None \/ Uncounted(r, o))
           mis == r.miscounted \/ wrong
           count == [i \in Instances |->
                IF i = orig THEN lost - foot
                ELSE IF i = new THEN r.count[i] + foot ELSE r.count[i]]
           a == [gone EXCEPT !.add = add, !.miscounted = mis, !.count = count]
<1>1. foot = Weight(o) /\ Weight(o) \in Nat
  BY WeightIsFootprint
<1>2. DOMAIN r = Fields /\ r.miscounted \in BOOLEAN /\ r.count \in [Instances -> Int \cup {None}]
      /\ r.add \in SUBSET (Objects \X Instances) /\ r.del \in SUBSET (Objects \X Instances)
  BY JobFields DEF Job
<1>3. gone \in Job
  <2>1. CASE orig = None
    BY <2>1
  <2>2. CASE orig # None
    <3> DEFINE del == r.del \cup {<<o, orig>>}
               g == [r EXCEPT !.del = del]
    <3>1. del \in SUBSET (Objects \X Instances)
      BY <1>2, <2>2
    <3> HIDE DEF del
    <3>2. g \in Job
      BY <3>1 DEF Job
    <3>3. gone = g
      BY <2>2 DEF del
    <3> QED
      BY <3>2, <3>3
  <2> QED
    BY <2>1, <2>2
<1>4. /\ Carries(r, gone) /\ gone.add = r.add /\ gone.loaded = r.loaded
      /\ gone.count = r.count /\ gone.miscounted = r.miscounted
      /\ gone.del = IF orig = None THEN r.del ELSE r.del \cup {<<o, orig>>}
  BY <1>2 DEF Carries, Kept, Fields
<1>5. lost \in Int
  <2>1. CASE orig = None
    BY <2>1
  <2>2. CASE orig # None /\ r.count[orig] # None
    BY <1>2, <2>2
  <2>3. CASE orig # None /\ r.count[orig] = None
    <3>1. ClientCount(gone, orig) \in Int /\ ClientCount(r, orig) \in Int
      BY <1>3, <2>3, CachedCountTyped
    <3> HIDE DEF gone
    <3> QED
      BY <2>3, <3>1
  <2> QED
    BY <2>1, <2>2, <2>3
<1>6. (orig # None /\ r.count[orig] # None) => lost = r.count[orig]
  OBVIOUS
<1> HIDE DEF lost
<1>7. count \in [Instances -> Int \cup {None}]
  <2>1. ASSUME NEW i \in Instances
        PROVE  count[i] \in Int \cup {None}
    <3>1. foot \in Int /\ r.count[i] \in Int \cup {None} /\ i # None
      BY <1>1, <1>2, ChooserAssumption
    <3> HIDE DEF foot
    <3>2. CASE i = orig
      BY <1>5, <3>1, <3>2
    <3>3. CASE i # orig /\ i = new
      BY <3>1, <3>3
    <3>4. CASE i # orig /\ i # new
      BY <3>1, <3>4
    <3> QED
      BY <3>2, <3>3, <3>4
  <2> QED
    BY <2>1
<1>8. /\ \A x \in Instances : x # orig =>
            count[x] = IF x = new THEN r.count[x] + foot ELSE r.count[x]
      /\ (orig # None /\ r.count[orig] # None) => count[orig] = r.count[orig] - foot
  BY <1>6
<1>9. add \in SUBSET (Objects \X Instances)
  BY <1>2
<1>10. mis \in BOOLEAN
  OBVIOUS
<1>11. mis = TRUE \/ (mis = FALSE /\ r.miscounted = FALSE /\ ~wrong)
  BY <1>2
<1>12. s = a
  BY <1>4 DEF Applied, lost
<1>13. Changed(r, s, o, orig, new)
  BY <1>2, AppliedShape
<1> HIDE DEF count, add, mis, gone, foot, s
<1>14. a \in Job
  <2> DEFINE g == [gone EXCEPT !.add = add]
             h == [g EXCEPT !.miscounted = mis]
             k == [h EXCEPT !.count = count]
  <2>1. g \in Job
    BY <1>3, <1>9 DEF Job
  <2>2. a = k
    BY <1>3 DEF Job
  <2> HIDE DEF g
  <2>3. h \in Job
    BY <1>10, <2>1 DEF Job
  <2> HIDE DEF h
  <2>4. k \in Job
    BY <1>7, <2>3 DEF Job
  <2> QED
    BY <2>2, <2>4
<1> HIDE DEF wrong
<1>15. DOMAIN gone = Fields
  BY <1>4 DEF Carries, Kept
<1>16. /\ Carries(gone, a) /\ a.loaded = gone.loaded /\ a.count = count /\ a.miscounted = mis
  BY <1>15 DEF Carries, Kept, Fields
<1> HIDE DEF a
<1>17. Carries(r, s) /\ s.loaded = r.loaded
  BY <1>4, <1>12, <1>16 DEF Carries, Kept
<1> QED
  <2>1. s.miscounted # TRUE =>
            /\ s.miscounted = FALSE /\ r.miscounted = FALSE
            /\ orig = None \/ (r.count[orig] # None /\ ~Uncounted(r, o))
    BY <1>11, <1>12, <1>16 DEF wrong
  <2>2. s.count = count /\ s \in Job
    BY <1>12, <1>14, <1>16
  <2>3. Applies(r, s, o, orig, new)
    BY <1>1, <1>8, <1>13, <1>17, <2>1, <2>2 DEF Applies
  <2> QED
    BY <2>3 DEF s

\* The bindings of o that a command changes, in what it sees
LEMMA ChangedSeen ==
    ASSUME NEW r, NEW s, NEW o \in Objects, NEW orig, NEW new, Changed(r, s, o, orig, new),
           ~Adds(r, o), new # orig
    PROVE  /\ \A p \in Objects, x \in Instances : (p # o \/ (x # orig /\ x # new)) =>
                (x \in Seen(s)[p] <=> x \in Seen(r)[p])
           /\ orig \in Instances /\ orig # None => orig \notin Seen(s)[o]
           /\ InCluster(s) = InCluster(r)
<1>1. /\ s.add = IF new = None THEN r.add ELSE r.add \cup {<<o, new>>}
      /\ s.del = IF orig = None THEN r.del ELSE r.del \cup {<<o, orig>>}
      /\ s.joins = r.joins
  BY DEF Changed, Kept
<1>2. ASSUME NEW p \in Objects, NEW x \in Instances, p # o \/ (x # orig /\ x # new)
      PROVE  x \in Seen(s)[p] <=> x \in Seen(r)[p]
  <2>1. <<p, x>> # <<o, new>> /\ <<p, x>> # <<o, orig>>
    BY <1>2
  <2>2. (<<p, x>> \in s.add <=> <<p, x>> \in r.add) /\ (<<p, x>> \in s.del <=> <<p, x>> \in r.del)
    BY <1>1, <2>1
  <2> QED
    BY <2>2 DEF Seen
<1>3. ASSUME orig \in Instances, orig # None
      PROVE  orig \notin Seen(s)[o]
  <2>1. <<o, orig>> \in s.del
    BY <1>1, <1>3
  <2>2. <<o, orig>> \notin s.add
    BY <1>1, <1>3 DEF Adds
  <2> QED
    BY <2>1, <2>2 DEF Seen
<1> QED
  BY <1>1, <1>2, <1>3 DEF InCluster

\* The counts cover what there will be after the change too, unless the
\* command has counted something that was not counted.
LEMMA AppliedBooks ==
    ASSUME TypeOK, NEW r \in Job, NEW o \in Objects, NEW orig \in Instances \cup {None},
           NEW new \in Instances \cup {None}, new # orig, ~Adds(r, o),
           orig # None => orig \in Seen(r)[o],
           new # None =>
                /\ r.count[new] # None
                /\ limit[new] # None => r.count[new] + Weight(o) <= limit[new],
           Books(r), NEW s, s = Applied(r, o, orig, new), s.miscounted = FALSE
    PROVE  Books(s)
<1>1. /\ s \in Job /\ Changed(r, s, o, orig, new) /\ s.loaded = r.loaded
      /\ orig = None \/ (r.count[orig] # None /\ ~Uncounted(r, o))
      /\ \A x \in Instances : x # orig =>
            s.count[x] = IF x = new THEN r.count[x] + Weight(o) ELSE r.count[x]
      /\ orig # None => s.count[orig] = r.count[orig] - Weight(o)
  <2>1. Applies(r, s, o, orig, new)
    BY AppliedCounts
  <2> QED
    BY <2>1 DEF Applies
<1>2. /\ \A p \in Objects, x \in Instances : (p # o \/ (x # orig /\ x # new)) =>
            (x \in Seen(s)[p] <=> x \in Seen(r)[p])
      /\ orig # None => orig \notin Seen(s)[o]
      /\ InCluster(s) = InCluster(r)
  BY <1>1, ChangedSeen
<1>3. Weight(o) \in Nat /\ \A x : LoadOf(r, x) \in Nat /\ LoadOf(s, x) \in Nat /\ Load(x) \in Nat
  BY WeightIsFootprint, ClientsNat DEF LoadOf, Load
<1>4. \A x \in Instances : limit[x] \in Nat \cup {None}
  BY DEF TypeOK
<1>5. ASSUME NEW x \in Instances, x # orig, x # new
      PROVE  LoadOf(s, x) = LoadOf(r, x) /\ \A p \in Objects : x \in Seen(s)[p] <=> x \in Seen(r)[p]
  <2>1. \A p \in Objects : x \in Seen(s)[p] <=> x \in Seen(r)[p]
    BY <1>2, <1>5
  <2>2. LoadOf(s, x) <= LoadOf(r, x) /\ LoadOf(r, x) <= LoadOf(s, x)
    BY <1>2, <2>1, ClientsFewer DEF LoadOf
  <2> QED
    BY <1>3, <2>1, <2>2
<1>6. ASSUME new # None
      PROVE  /\ s.count[new] \in Int /\ s.count[new] # None
             /\ LoadOf(s, new) <= s.count[new]
             /\ limit[new] # None => LoadOf(s, new) <= limit[new]
  <2>1. r.count[new] \in Int /\ LoadOf(r, new) <= r.count[new]
    BY <1>6 DEF Books, Tallies
  <2>2. LoadOf(s, new) <= LoadOf(r, new) + Weight(o)
    <3>1. \A p \in Objects : p # o => (new \in Seen(s)[p] => new \in Seen(r)[p])
      BY <1>2, <1>6
    <3> QED
      BY <1>2, <3>1, ClientsGain DEF LoadOf
  <2>3. s.count[new] = r.count[new] + Weight(o)
    BY <1>1, <1>6
  <2> QED
    BY <1>3, <1>4, <1>6, <2>1, <2>2, <2>3, ChooserAssumption
<1>7. ASSUME orig # None
      PROVE  /\ s.count[orig] \in Int /\ s.count[orig] # None
             /\ LoadOf(s, orig) <= s.count[orig] /\ LoadOf(s, orig) <= LoadOf(r, orig)
  <2>1. r.count[orig] \in Int /\ LoadOf(r, orig) <= r.count[orig]
    BY <1>1, <1>7 DEF Books, Tallies
  <2>2. LoadOf(s, orig) <= LoadOf(r, orig) - Weight(o)
    <3>1. \A p \in Objects : orig \in Seen(s)[p] => orig \in Seen(r)[p]
      BY <1>2, <1>7
    <3>2. requires[Cluster] => o \notin InCluster(r)
      BY <1>1, <1>7 DEF Uncounted, Parents
    <3> QED
      BY <1>2, <1>7, <3>1, <3>2, ClientsLoss DEF LoadOf
  <2> QED
    BY <1>1, <1>3, <1>7, <2>1, <2>2, ChooserAssumption
<1>8. Tallies(s)
  <2>1. ASSUME NEW x \in Instances
        PROVE  /\ s.count[x] # None => s.count[x] \in Int /\ LoadOf(s, x) <= s.count[x]
               /\ s.count[x] = None => \A p \in Objects : x \in Seen(s)[p] <=> x \in bound[p]
               /\ s.count[x] = None =>
                    (s.loaded[x] # None => (requires[Cluster] \/ s.loaded[x] = LoadOf(s, x)))
    <3>1. CASE x # orig /\ x # new
      <4>1. s.count[x] = r.count[x] /\ s.loaded[x] = r.loaded[x] /\ LoadOf(s, x) = LoadOf(r, x)
        BY <1>1, <1>5, <3>1
      <4> QED
        BY <1>5, <3>1, <4>1 DEF Books, Tallies
    <3>2. CASE x = new
      BY <1>6, <3>2, ChooserAssumption
    <3>3. CASE x = orig
      BY <1>7, <3>3, ChooserAssumption
    <3> QED
      BY <3>1, <3>2, <3>3
  <2> QED
    BY <2>1 DEF Tallies
<1>9. Within(s)
  <2>1. ASSUME NEW x \in Instances, limit[x] # None
        PROVE  LoadOf(s, x) <= limit[x] \/ LoadOf(s, x) <= Load(x)
    <3>1. LoadOf(r, x) <= limit[x] \/ LoadOf(r, x) <= Load(x)
      BY <2>1 DEF Books, Within
    <3>2. CASE x # orig /\ x # new
      BY <1>5, <3>1, <3>2
    <3>3. CASE x = new
      BY <1>6, <2>1, <3>3, ChooserAssumption
    <3>4. CASE x = orig
      <4>1. LoadOf(s, x) <= LoadOf(r, x) /\ limit[x] \in Nat
        BY <1>4, <1>7, <2>1, <3>4, ChooserAssumption
      <4> QED
        BY <1>3, <3>1, <4>1
    <3> QED
      BY <3>2, <3>3, <3>4
  <2> QED
    BY <2>1 DEF Within
<1> QED
  BY <1>8, <1>9 DEF Books

\* The work on an object keeps the counts, unless it miscounts.
Counts(r, s, o, orig) ==
    /\ s \in Job /\ Kept(r, s) /\ s.alone = r.alone
    /\ s.miscounted # TRUE => r.miscounted = FALSE
    /\ (/\ s.miscounted # TRUE /\ Books(r) /\ ~Adds(r, o)
        /\ orig # None => orig \in Seen(r)[o]) => Books(s)

LEMMA ReboundBooks ==
    ASSUME TypeOK, NEW r \in Job, NEW o \in Objects, NEW orig \in Instances \cup {None},
           NEW candidates \in SUBSET Instances, NEW c \in Allowed(r, o, orig, candidates)
    PROVE  Counts(r, Rebound(r, o, orig, candidates, c), o, orig)
<1> DEFINE s == Rebound(r, o, orig, candidates, c)
           n == Looked(r, o, orig, candidates)
<1>1. /\ n \in Job /\ Carries(r, n) /\ n.add = r.add /\ n.del = r.del
      /\ n.miscounted = r.miscounted
      /\ \A x \in candidates : n.count[x] = CachedCount(r, x)
      /\ Books(r) => Books(n)
  BY LookedBooks
<1>2. r.miscounted \in BOOLEAN
  BY DEF Job
<1>3. CASE c = orig
  <2>1. s = n
    BY <1>3 DEF Rebound
  <2> HIDE DEF s, n
  <2>2. Counts(r, n, o, orig)
    BY <1>1, <1>2 DEF Counts, Carries
  <2> QED
    BY <2>1, <2>2 DEF s
<1>4. CASE c # orig
  <2> DEFINE a == Applied(n, o, orig, c)
             moved == IF Moved(r, o, orig, c, candidates) THEN a.moved \cup {o} ELSE a.moved
             b == [a EXCEPT !.moved = moved]
  <2>1. s = b
    BY <1>4 DEF Rebound
  <2>2. c \in candidates /\ ~InstanceFull(r, o, orig, c)
    BY <1>4 DEF Allowed, PastUse, Room
  <2>3. c \in Instances /\ c # None /\ n.count[c] = CachedCount(r, c) /\ n.count[c] # None
    BY <1>1, <2>2, CachedCountTyped, ChooserAssumption
  <2>4. limit[c] # None => n.count[c] + Weight(o) <= limit[c]
    <3>1. Footprint(r, o) = Weight(o) /\ Weight(o) \in Nat /\ CachedCount(r, c) \in Int
      BY <2>3, WeightIsFootprint, CachedCountTyped
    <3>2. limit[c] \in Nat \cup {None}
      BY <2>3 DEF TypeOK
    <3> QED
      BY <1>4, <2>2, <2>3, <3>1, <3>2 DEF InstanceFull
  <2> HIDE DEF n
  <2>5. Applies(n, a, o, orig, c)
    BY <1>1, <2>3, AppliedCounts
  <2>6. a \in Job /\ moved \in SUBSET Objects
    <3>1. a \in Job
      BY <2>5 DEF Applies
    <3>2. a.moved \in SUBSET Objects
      BY <3>1 DEF Job
    <3> QED
      BY <3>1, <3>2
  <2>7. /\ Kept(n, a) /\ a.alone = n.alone /\ a.miscounted \in BOOLEAN
        /\ a.miscounted # TRUE => n.miscounted = FALSE
    <3>1. a.miscounted \in BOOLEAN
      BY <2>6 DEF Job
    <3> QED
      BY <2>5, <3>1 DEF Applies, Carries
  <2>8. ASSUME a.miscounted # TRUE, Books(r), ~Adds(r, o), orig # None => orig \in Seen(r)[o]
        PROVE  Books(a)
    <3>1. Seen(n) = Seen(r) /\ ~Adds(n, o) /\ Books(n)
      BY <1>1, <2>8 DEF Seen, Adds
    <3>2. a.miscounted = FALSE
      BY <2>7, <2>8
    <3> QED
      BY <1>1, <1>4, <2>3, <2>4, <2>8, <3>1, <3>2, AppliedBooks
  <2>9. DOMAIN a = Fields
    BY <2>6, JobFields
  <2> HIDE DEF a, moved
  <2>10. b \in Job
    BY <2>6 DEF Job
  <2>11. /\ Kept(a, b) /\ b.alone = a.alone /\ b.miscounted = a.miscounted
         /\ b.add = a.add /\ b.del = a.del /\ b.joins = a.joins
         /\ b.count = a.count /\ b.loaded = a.loaded
    BY <2>9 DEF Kept, Fields
  <2> HIDE DEF b
  <2>12. Books(a) => Books(b)
    BY <2>11, BooksSame
  <2>13. Kept(r, b) /\ b.alone = r.alone
    BY <1>1, <2>7, <2>11 DEF Kept, Carries
  <2>14. Counts(r, b, o, orig)
    BY <1>1, <2>7, <2>8, <2>10, <2>11, <2>12, <2>13 DEF Counts
  <2> QED
    BY <2>1, <2>14
<1> QED
  BY <1>3, <1>4

LEMMA OriginalsTyped ==
    ASSUME TypeOK, NEW r \in Job, NEW o \in Objects, NEW orig \in Originals(r, o)
    PROVE  orig \in Instances \cup {None}
<1>1. Seen(r)[o] \in SUBSET Instances
  BY SeenTyped
<1>2. r.read \in {None} \cup [Objects -> SUBSET Instances]
  BY DEF Job
<1> QED
  BY <1>1, <1>2 DEF Originals

LEMMA ChosenBooks ==
    ASSUME TypeOK, NEW r \in Job, NEW o \in Objects, NEW orig \in Instances \cup {None},
           NEW s \in Chosen(r, o, orig)
    PROVE  Counts(r, s, o, orig)
<1>1. r.miscounted \in BOOLEAN /\ DOMAIN r = Fields
  BY JobFields DEF Job
<1>2. CASE ~r.single /\ ~Required(r, o)
  <2>1. s = IF r.only /\ orig # None THEN Applied(r, o, orig, None) ELSE r
    BY <1>2 DEF Chosen
  <2>2. CASE r.only /\ orig # None
    <3> DEFINE a == Applied(r, o, orig, None)
    <3>1. Applies(r, a, o, orig, None)
      BY AppliedCounts
    <3>2. a \in Job
      BY <3>1 DEF Applies
    <3>3. a.miscounted \in BOOLEAN
      BY <3>2 DEF Job
    <3>4. ASSUME a.miscounted # TRUE, Books(r), ~Adds(r, o), orig # None => orig \in Seen(r)[o]
          PROVE  Books(a)
      <4>1. a.miscounted = FALSE
        BY <3>3, <3>4
      <4> QED
        BY <2>2, <3>4, <4>1, AppliedBooks
    <3> HIDE DEF a
    <3>5. Counts(r, a, o, orig)
      BY <3>1, <3>2, <3>4 DEF Counts, Applies, Carries
    <3> QED
      BY <2>1, <2>2, <3>5 DEF a
  <2>3. CASE ~(r.only /\ orig # None)
    <3>1. s = r
      BY <2>1, <2>3
    <3> QED
      BY <1>1, <3>1 DEF Counts, Kept
  <2> QED
    BY <2>2, <2>3
<1>3. CASE ~(~r.single /\ ~Required(r, o))
  <2> DEFINE m == MapsRead(r, o)
  <2>1. /\ m \in Job /\ Carries(r, m) /\ m.add = r.add /\ m.del = r.del
        /\ m.miscounted = r.miscounted
        /\ Books(r) => Books(m)
    BY MapsReadBooks
  <2>2. PICK candidates, c :
            /\ candidates \in Aligned(m, o, Candidates(m, o))
            /\ c \in Allowed(m, o, orig, candidates)
            /\ s = Rebound(m, o, orig, candidates, c)
    BY <1>3 DEF Chosen
  <2> HIDE DEF m
  <2>3. candidates \in SUBSET Instances
    <3>1. Candidates(m, o) \in SUBSET Instances
      BY <2>1, CachedMapTyped
    <3> QED
      BY <2>2, <3>1 DEF Aligned
  <2>4. Counts(m, s, o, orig)
    BY <2>1, <2>2, <2>3, ReboundBooks
  <2>5. Seen(m) = Seen(r) /\ (Adds(m, o) <=> Adds(r, o))
    BY <2>1 DEF Seen, Adds
  <2> QED
    BY <1>1, <2>1, <2>4, <2>5 DEF Counts, Carries, Kept
<1> QED
  BY <1>2, <1>3

LEMMA DoneBooks ==
    ASSUME NEW s \in Job, s.objects # << >>, NEW o \in Objects, NEW d, d = LockedDone(s, o)
    PROVE  /\ d \in Job /\ d.alone = s.alone /\ d.miscounted = s.miscounted
           /\ Books(s) => Within(d) /\ (d.objects # << >> => Tallies(d))
<1> DEFINE locks == s.held \cup {o}
           h == [s EXCEPT !.held = locks]
           b == Start(h.kind, << >>)
           left == Tail(h.objects)
<1>1. locks \in SUBSET Objects /\ s.objects \in Seq(Objects) /\ DOMAIN s = Fields
  BY JobFields DEF Job
<1>2. d = Done(h)
  BY DEF LockedDone
<1> HIDE DEF locks
<1>3. h \in Job
  BY <1>1 DEF Job
<1>4. /\ h.objects = s.objects /\ h.joins = s.joins /\ h.add = s.add /\ h.del = s.del
      /\ h.count = s.count /\ h.loaded = s.loaded /\ h.alone = s.alone
      /\ h.miscounted = s.miscounted
  BY <1>1 DEF Fields
<1> HIDE DEF h
<1>5. left \in Seq(Objects)
  BY <1>1, <1>4, HeadTailProperties
<1>6. CASE left # << >>
  <2> DEFINE e == [h EXCEPT !.objects = left]
             seq == Seq(Objects)
  <2>1. d = e
    BY <1>2, <1>6 DEF Done
  <2>5. left \in seq
    BY <1>5
  <2> HIDE DEF left
  <2>2. e \in Job
    BY <1>3, <2>5 DEF Job, seq
  <2>3. /\ e.joins = s.joins /\ e.add = s.add /\ e.del = s.del /\ e.count = s.count
        /\ e.loaded = s.loaded /\ e.alone = s.alone /\ e.miscounted = s.miscounted
    BY <1>3, <1>4, JobFields DEF Fields
  <2> HIDE DEF e
  <2>4. Books(s) => Books(e)
    BY <2>3, BooksSame
  <2> QED
    BY <2>1, <2>2, <2>3, <2>4 DEF Books
<1>7. CASE left = << >>
  <2> DEFINE e == [b EXCEPT
            !.wants = h.wants, !.joins = h.joins, !.add = h.add, !.del = h.del,
            !.held = h.held, !.alone = h.alone, !.miscounted = h.miscounted,
            !.moved = h.moved]
  <2>1. d = e
    BY <1>2, <1>7 DEF Done
  <2>2. b \in Job
    <3>1. h.kind \in {"host", "cluster", "list", "unlocked"} /\ << >> \in Seq(Objects)
      BY <1>3 DEF Job
    <3> QED
      BY <3>1, StartTyped
  <2>9. Blank(b, h.kind, << >>)
    BY StartShape
  <2> HIDE DEF b
  <2>7. b.objects = << >>
    BY <2>9 DEF Blank
  <2>3. e \in Job
    <3> DEFINE e1 == [b EXCEPT !.wants = h.wants, !.joins = h.joins, !.add = h.add]
               e2 == [e1 EXCEPT !.del = h.del, !.held = h.held, !.alone = h.alone]
               e3 == [e2 EXCEPT !.miscounted = h.miscounted, !.moved = h.moved]
    <3>1. e = e3
      OBVIOUS
    <3>2. e1 \in Job
      BY <1>3, <2>2 DEF Job
    <3> HIDE DEF e1
    <3>3. e2 \in Job
      BY <1>3, <3>2 DEF Job
    <3> HIDE DEF e2
    <3>4. e3 \in Job
      BY <1>3, <3>3 DEF Job
    <3> HIDE DEF e, e3
    <3> QED
      BY <3>1, <3>4
  <2>8. DOMAIN b = Fields
    BY <2>2, JobFields
  <2>4. /\ e.joins = s.joins /\ e.add = s.add /\ e.del = s.del
        /\ e.alone = s.alone /\ e.miscounted = s.miscounted /\ e.objects = << >>
    BY <1>4, <2>7, <2>8 DEF Fields
  <2> HIDE DEF e
  <2>5. \A x : LoadOf(e, x) = LoadOf(s, x)
    BY <2>4, LoadOfSame
  <2>6. Books(s) => Within(e)
    BY <2>5 DEF Books, Within
  <2> QED
    BY <2>1, <2>3, <2>4, <2>6
<1> QED
  BY <1>6, <1>7

-----------------------------------------------------------------------------
(* Steps that count                                                         *)

\* While nobody overlaps a command, its early reads and its counts hold.
Lonely(r) ==
    (r.alone = TRUE /\ r.miscounted # TRUE) =>
        /\ Within(r)
        /\ r.objects # << >> => Tallies(r) /\ (r.read = None \/ r.read = bound)

LInv ==
    /\ TypeOK
    /\ \A t \in Running : thread[t].alone = TRUE => Running = {t}
    /\ \A t \in Running : Lonely(thread[t])

\* A command that is left becomes one of several.
LEMMA AloneNoMore ==
    ASSUME NEW r \in Job
    PROVE  LET s == [r EXCEPT !.alone = FALSE] IN s \in Job /\ s.alone = FALSE /\ s # None
<1> DEFINE s == [r EXCEPT !.alone = FALSE]
<1>1. s \in Job
  BY DEF Job
<1>2. s.alone = FALSE
  BY JobFields DEF Fields
<1> QED
  BY <1>1, <1>2, ChooserAssumption

LEMMA BeginCounts ==
    ASSUME LInv, NEW t \in Threads, NEW r, Starts(r), Begin(t, r)
    PROVE  LInv'
<1>1. r \in Job /\ Blank(r, r.kind, r.objects)
  BY DEF Starts
<1>2. /\ bound' = bound /\ member' = member /\ requires' = requires /\ limit' = limit
      /\ mapped' = mapped /\ started' = started + 1
  BY DEF Begin
<1>3. \A u \in Threads : thread[u] # None => thread[u] \in Job
  BY DEF LInv, TypeOK
<1>4. /\ thread' = [u \in Threads |->
            IF u = t THEN r
            ELSE IF thread[u] = None THEN None ELSE [thread[u] EXCEPT !.alone = FALSE]]
      /\ thread[t] = None
  BY DEF Begin
<1>5. thread' \in [Threads -> Job \cup {None}]
  <2>1. ASSUME NEW u \in Threads
        PROVE  thread'[u] \in Job \cup {None}
    BY <1>1, <1>3, <1>4, AloneNoMore
  <2> QED
    BY <1>4, <2>1
<1>6. overlapped' \subseteq {"host", "cluster", "list", "unlocked"}
  <2> DEFINE K == {"host", "cluster", "list", "unlocked"}
  <2>1. \A u \in Running : thread[u].kind \in K
    BY <1>3 DEF Running, Job
  <2>2. r.kind \in K
    BY <1>1 DEF Job
  <2>3. \/ overlapped' = overlapped
        \/ overlapped' = overlapped \cup {r.kind} \cup {thread[u].kind : u \in Running}
    BY DEF Begin
  <2>4. overlapped \subseteq K
    BY DEF LInv, TypeOK
  <2> HIDE DEF K
  <2>5. overlapped' \subseteq K
    BY <2>1, <2>2, <2>3, <2>4
  <2> QED
    BY <2>5 DEF K
<1>7. TypeOK'
  BY <1>2, <1>5, <1>6 DEF LInv, TypeOK
<1>8. ASSUME NEW u \in Running', u # t
      PROVE  thread'[u].alone = FALSE /\ u \in Running
  BY <1>3, <1>4, <1>8, AloneNoMore DEF Running
<1>9. r.alone = TRUE => Running' = {t}
  <2>1. r.alone = TRUE => Running = {}
    BY <1>1 DEF Blank
  <2>2. r # None
    BY <1>1, ChooserAssumption
  <2> QED
    BY <1>4, <1>8, <2>1, <2>2 DEF Running
<1>10. Lonely(r)'
  <2>1. r.add = {} /\ r.count = [i \in Instances |-> None]
    BY <1>1 DEF Blank
  <2>2. \A o \in Objects : Seen(r)[o] = {i \in Instances : i \in bound[o] /\ <<o, i>> \notin r.del}
    BY <2>1 DEF Seen
  <2>3. ASSUME NEW x \in Instances
        PROVE  LoadOf(r, x) <= Load(x)
    <3>1. \A p \in Objects : x \in Seen(r)[p] => x \in bound[p]
      BY <2>2
    <3>2. member \subseteq InCluster(r)
      BY DEF InCluster
    <3> QED
      BY <3>1, <3>2, ClientsFewer DEF LoadOf, Load
  <2>4. Within(r)
    BY <2>3 DEF Within
  <2>5. ASSUME r.objects # << >>, NEW x \in Instances
        PROVE  /\ \A o \in Objects : x \in Seen(r)[o] <=> x \in bound[o]
               /\ r.loaded[x] # None => r.loaded[x] = LoadOf(r, x)
    <3>1. r.del = {}
      BY <2>5 DEF Starts
    <3>2. \A o \in Objects : x \in Seen(r)[o] <=> x \in bound[o]
      BY <2>2, <2>5, <3>1
    <3>3. ASSUME r.loaded[x] # None
          PROVE  r.loaded[x] = LoadOf(r, x)
      <4>1. requires[Cluster] # TRUE /\ r.loaded[x] = Clients(bound, member, x)
        BY <2>5, <3>3 DEF Starts
      <4>2. BoundHosts(Seen(r), x) = BoundHosts(bound, x)
        BY <3>2 DEF BoundHosts, Objects
      <4>3. Clients(Seen(r), InCluster(r), x) = Clients(bound, member, x)
        BY <4>1, <4>2, ClientsAre
      <4> QED
        BY <4>1, <4>3 DEF LoadOf
    <3> QED
      BY <3>2, <3>3
  <2>6. r.objects # << >> => Tallies(r)
    BY <2>1, <2>5 DEF Tallies
  <2>7. r.read = None \/ r.read = bound
    BY DEF Starts
  <2>8. (Within(r) <=> Within(r)') /\ (Tallies(r) <=> Tallies(r)')
    BY <1>2 DEF Within, Tallies, LoadOf, Load, Seen, InCluster, Clients
  <2> QED
    BY <1>2, <2>4, <2>6, <2>7, <2>8 DEF Lonely
<1>11. thread'[t] = r
  BY <1>4
<1> QED
  BY <1>7, <1>8, <1>9, <1>10, <1>11 DEF LInv, Lonely

LEMMA ProcessCounts ==
    ASSUME IInv, AInv, LInv, NEW t \in Threads, Process(t)
    PROVE  LInv'
<1> DEFINE r == thread[t]
<1>1. PICK o : /\ o = Head(r.objects)
               /\ \E orig \in Originals(r, o) : \E s \in Chosen(r, o, orig) :
                    thread' = [thread EXCEPT ![t] = Done([s EXCEPT !.held = @ \cup {o}])]
  BY DEF Process
<1>2. PICK orig, s, d :
            /\ orig \in Originals(r, o) /\ s \in Chosen(r, o, orig)
            /\ d = LockedDone(s, o)
            /\ thread' = [thread EXCEPT ![t] = d]
  BY <1>1 DEF LockedDone
<1>3. t \in Running /\ r.objects # << >> /\ WellFormed(r) /\ Orderly(r) /\ r \in Job
  BY DEF Process, Running, IInv, Types, AInv, LInv, TypeOK
<1>4. o \in Objects /\ o \in Listed(r.objects)
  BY <1>1, <1>3, HeadGone DEF WellFormed
<1>5. ~Adds(r, o) /\ ~Dels(r, o)
  BY <1>3, <1>4 DEF WellFormed, Orderly
<1>6. TypeOK /\ orig \in Instances \cup {None}
  BY <1>2, <1>3, <1>4, OriginalsTyped DEF LInv
<1>7. /\ bound' = bound /\ member' = member /\ requires' = requires /\ limit' = limit
      /\ mapped' = mapped /\ started' = started /\ overlapped' = overlapped
  BY DEF Process
<1>8. Lonely(r) /\ (r.alone = TRUE => Running = {t})
  BY <1>3 DEF LInv
<1> HIDE DEF r
<1>9. Counts(r, s, o, orig)
  BY <1>2, <1>3, <1>4, <1>6, ChosenBooks
<1>10. /\ d \in Job /\ d.alone = r.alone /\ d.miscounted = s.miscounted
       /\ d.objects = Tail(r.objects) /\ (d.objects # << >> => d.read = r.read)
       /\ Books(s) => Within(d) /\ (d.objects # << >> => Tallies(d))
  <2>1. s \in Job /\ s.objects = r.objects /\ s.alone = r.alone /\ s.read = r.read
    BY <1>9 DEF Counts, Kept
  <2>2. /\ d \in Job /\ d.alone = s.alone /\ d.miscounted = s.miscounted
        /\ Books(s) => Within(d) /\ (d.objects # << >> => Tallies(d))
    BY <1>2, <1>3, <1>4, <2>1, DoneBooks
  <2>3. d.objects = Tail(s.objects) /\ (d.objects # << >> => d.read = s.read)
    BY <1>2, <2>1, JobFields, DoneShape
  <2> QED
    BY <2>1, <2>2, <2>3
<1>11. Lonely(d)
  <2>1. ASSUME d.alone = TRUE, d.miscounted # TRUE
        PROVE  /\ Within(d)
               /\ d.objects # << >> => Tallies(d) /\ (d.read = None \/ d.read = bound)
    <3>1. /\ r.alone = TRUE /\ r.miscounted # TRUE /\ s.miscounted # TRUE
      BY <1>9, <1>10, <2>1 DEF Counts
    <3>2. Books(r) /\ (r.read = None \/ r.read = bound)
      BY <1>3, <1>8, <3>1 DEF Lonely, Books
    <3>3. orig # None => orig \in Seen(r)[o]
      <4>1. Seen(r)[o] = bound[o]
        <5>1. bound \in [Objects -> SUBSET Instances]
          BY <1>6 DEF TypeOK
        <5>2. View(bound, r, o) = bound[o]
          BY <1>4, <1>5, <5>1, ViewPlain
        <5> QED
          BY <1>4, <5>2 DEF Seen, View
      <4> QED
        BY <1>2, <3>2, <4>1 DEF Originals
    <3>4. Books(s)
      BY <1>5, <1>9, <3>1, <3>2, <3>3 DEF Counts
    <3> QED
      BY <1>10, <3>2, <3>4
  <2> QED
    BY <2>1 DEF Lonely
<1>12. thread \in [Threads -> Job \cup {None}]
  BY <1>6 DEF TypeOK
<1>13. thread' \in [Threads -> Job \cup {None}] /\ thread'[t] = d
       /\ \A u \in Threads : u # t => thread'[u] = thread[u]
  BY <1>2, <1>10, <1>12
<1>14. TypeOK'
  BY <1>6, <1>7, <1>13 DEF TypeOK
<1>15. d # None
  BY <1>10, ChooserAssumption
<1>16. Running' = Running
  BY <1>3, <1>13, <1>15 DEF Running
<1>17. Lonely(d)'
  <2>1. (Within(d) <=> Within(d)') /\ (Tallies(d) <=> Tallies(d)')
    BY <1>7 DEF Within, Tallies, LoadOf, Load, Seen, InCluster, Clients
  <2> QED
    BY <1>7, <1>11, <2>1 DEF Lonely
<1>18. ASSUME NEW u \in Running', u # t
       PROVE  thread'[u] = thread[u] /\ thread[u].alone # TRUE
  <2>1. u \in Running /\ t \in Running /\ u \in Threads
    BY <1>3, <1>16, <1>18 DEF Running
  <2>2. thread[u].alone = TRUE => Running = {u}
    BY <2>1 DEF LInv
  <2> QED
    BY <1>13, <1>18, <2>1, <2>2
<1>19. ASSUME NEW u \in Running'
       PROVE  Lonely(thread[u])' /\ (thread'[u].alone = TRUE => Running' = {u})
  <2>1. CASE u = t
    BY <1>8, <1>10, <1>13, <1>16, <1>17, <2>1
  <2>2. CASE u # t
    BY <1>18, <1>19, <2>2 DEF Lonely
  <2> QED
    BY <2>1, <2>2
<1> QED
  BY <1>14, <1>19 DEF LInv

\* A command that is gone, with or without its changes: no other was alone.
LEMMA EndCounts ==
    ASSUME LInv, NEW t \in Running, thread' = [thread EXCEPT ![t] = None], TypeOK'
    PROVE  LInv'
<1>1. \A u \in Running' : u # t /\ u \in Running /\ thread'[u] = thread[u]
  BY DEF Running, LInv, TypeOK
<1>2. \A u \in Running' : thread'[u].alone # TRUE
  BY <1>1 DEF LInv
<1> QED
  BY <1>2 DEF LInv, Lonely

LEMMA CommitTyped ==
    ASSUME TypeOK, NEW t \in Threads, Commit(t)
    PROVE  TypeOK'
<1> DEFINE r == thread[t]
<1>1. r \in Job /\ thread' \in [Threads -> Job \cup {None}]
  BY DEF Commit, TypeOK
<1>2. bound' \in [Objects -> SUBSET Instances] /\ member' \in SUBSET Hosts
  BY <1>1, SeenTyped DEF Commit, TypeOK
<1>3. requires' \in [Objects -> BOOLEAN]
  <2>1. \A o \in Objects : Required(r, o) \in BOOLEAN
    <3>1. r.wants \in BOOLEAN \cup {None} /\ requires \in [Objects -> BOOLEAN]
      BY <1>1 DEF Job, TypeOK
    <3> QED
      BY <3>1 DEF Required
  <2> HIDE DEF r
  <2>2. requires \in [Objects -> BOOLEAN]
    BY DEF TypeOK
  <2>3. \/ requires' = requires
        \/ requires' = [o \in Objects |->
                    IF o \in Hosts \cap r.held THEN Required(r, o) ELSE requires[o]]
    BY DEF Commit, r
  <2> QED
    BY <2>1, <2>2, <2>3
<1> QED
  BY <1>1, <1>2, <1>3 DEF Commit, TypeOK

LEMMA UnclusterCounts ==
    ASSUME LInv, NEW h \in Hosts, Uncluster(h)
    PROVE  LInv'
<1>1. \A u \in Threads : thread[u] # None => thread[u] \in Job
  BY DEF LInv, TypeOK
<1>2. /\ thread' = [u \in Threads |->
            IF thread[u] = None THEN None ELSE [thread[u] EXCEPT !.alone = FALSE]]
      /\ requires' = requires /\ bound' = bound /\ limit' = limit /\ mapped' = mapped
      /\ member' = member \ {h} /\ started' = started + 1
  BY DEF Uncluster
<1>3. \A u \in Threads : thread'[u] \in Job \cup {None}
  BY <1>1, <1>2, AloneNoMore
<1>4. thread' \in [Threads -> Job \cup {None}]
  BY <1>2, <1>3
<1>5. overlapped' \subseteq {"host", "cluster", "list", "unlocked"}
  <2> DEFINE K == {"host", "cluster", "list", "unlocked"}
  <2>1. \A u \in Running : thread[u].kind \in K
    BY <1>1 DEF Running, Job
  <2>2. "unlocked" \in K
    OBVIOUS
  <2>3. \/ overlapped' = overlapped
        \/ overlapped' = overlapped \cup {"unlocked"} \cup {thread[u].kind : u \in Running}
    BY DEF Uncluster
  <2>4. overlapped \subseteq K
    BY DEF LInv, TypeOK
  <2> HIDE DEF K
  <2>5. overlapped' \subseteq K
    BY <2>1, <2>2, <2>3, <2>4
  <2> QED
    BY <2>5 DEF K
<1>6. TypeOK'
  BY <1>2, <1>4, <1>5 DEF LInv, TypeOK
<1>7. \A u \in Running' : thread'[u].alone = FALSE
  BY <1>1, <1>2, AloneNoMore DEF Running
<1> QED
  BY <1>6, <1>7 DEF LInv, Lonely

LEMMA QuietCounts ==
    ASSUME LInv, Running = {}, thread' = thread, TypeOK'
    PROVE  LInv'
BY DEF LInv, Running

LEMMA NextCounts ==
    ASSUME IInv, AInv, LInv, [Next]_vars
    PROVE  LInv'
<1>0. TypeOK
  BY DEF LInv
<1>1. ASSUME NEW t \in Threads, Commands(t)
      PROVE  LInv'
  BY <1>1, CommandBegins, BeginCounts DEF IInv
<1>2. ASSUME NEW t \in Threads, Process(t)
      PROVE  LInv'
  BY <1>2, ProcessCounts
<1>3. ASSUME NEW t \in Threads, Commit(t)
      PROVE  LInv'
  BY <1>0, <1>3, CommitTyped, EndCounts DEF Commit, Running
<1>4. ASSUME NEW t \in Threads, Fail(t)
      PROVE  LInv'
  <2>1. TypeOK'
    BY <1>0, <1>4 DEF Fail, TypeOK
  <2> QED
    BY <1>4, <2>1, EndCounts DEF Fail, Running
<1>5. ASSUME NEW h \in Hosts, Uncluster(h)
      PROVE  LInv'
  BY <1>5, UnclusterCounts
<1>6. ASSUME NEW i \in Instances, NEW max \in Limits, SetLimit(i, max)
      PROVE  LInv'
  <2>1. TypeOK'
    BY <1>0, <1>6, ChooserAssumption DEF SetLimit, TypeOK
  <2> QED
    BY <1>6, <2>1, QuietCounts DEF SetLimit
<1>7. ASSUME NEW k \in Keys, NEW instances \in SUBSET Instances, MapService(k, instances)
      PROVE  LInv'
  <2>1. TypeOK'
    BY <1>0, <1>7 DEF MapService, TypeOK
  <2> QED
    BY <1>7, <2>1, QuietCounts DEF MapService
<1>8. ASSUME UNCHANGED vars
      PROVE  LInv'
  <2>1. TypeOK' /\ Running' = Running
    BY <1>0, <1>8 DEF TypeOK, vars, Running
  <2>2. ASSUME NEW t \in Running
        PROVE  Lonely(thread[t])'
    <3>1. PICK r : r = thread[t]
      OBVIOUS
    <3>2. Lonely(r) /\ thread'[t] = r
      BY <1>8, <3>1 DEF LInv, vars
    <3>3. (Within(r) <=> Within(r)') /\ (Tallies(r) <=> Tallies(r)') /\ bound' = bound
      BY <1>8 DEF vars, Within, Tallies, LoadOf, Load, Seen, InCluster, Clients
    <3> QED
      BY <3>2, <3>3 DEF Lonely
  <2> QED
    BY <1>8, <2>1, <2>2 DEF LInv, vars
<1> QED
  BY <1>1, <1>2, <1>3, <1>4, <1>5, <1>6, <1>7, <1>8 DEF Next


\* What a command that ends leaves on an instance
EndsWithin(t) ==
    (t \in Running /\ thread'[t] = None /\ thread[t].alone /\ ~thread[t].miscounted)
        => \A x \in Instances : limit[x] # None =>
                Load(x)' <= limit[x] \/ Load(x)' <= Load(x)

\* The bindings, the members and what the cluster requires are as before.
LEMMA SameLoad ==
    ASSUME UNCHANGED <<bound, member, requires>>, NEW t
    PROVE  EndsWithin(t)
<1>1. \A x : Load(x)' = Load(x) /\ Load(x) \in Nat
  BY ClientsNat DEF Load, Clients
<1> QED
  BY <1>1 DEF EndsWithin

LEMMA CommitWithin ==
    ASSUME LInv, NEW t \in Threads, Commit(t)
    PROVE  \A u : EndsWithin(u)
<1> DEFINE r == thread[t]
<1>1. CASE UNCHANGED <<bound, requires, member>>
  BY <1>1, SameLoad
<1>2. CASE /\ bound' = Seen(r) /\ member' = InCluster(r)
           /\ requires' = [o \in Objects |->
                    IF o \in Hosts \cap r.held THEN Required(r, o) ELSE requires[o]]
  <2>1. t \in Running /\ Lonely(r) /\ (r.alone = TRUE => Running = {t})
    BY DEF Commit, Running, LInv
  <2>2. requires'[Cluster] = requires[Cluster]
    BY <1>2, ChooserAssumption DEF Objects
  <2>3. \A x : Load(x)' = LoadOf(r, x)
    BY <1>2, <2>2 DEF Load, LoadOf, Clients
  <2>4. ASSUME NEW u, u \in Running, thread'[u] = None, thread[u].alone, ~thread[u].miscounted,
               NEW x \in Instances, limit[x] # None
        PROVE  Load(x)' <= limit[x] \/ Load(x)' <= Load(x)
    <3>1. u = t
      BY <2>1, <2>4 DEF LInv
    <3>2. Within(r)
      BY <2>1, <2>4, <3>1 DEF Lonely
    <3> QED
      BY <2>3, <2>4, <3>2 DEF Within
  <2> QED
    BY <2>4 DEF EndsWithin
<1> QED
  BY <1>1, <1>2 DEF Commit

LEMMA UnclusterWithin ==
    ASSUME LInv, NEW h, Uncluster(h)
    PROVE  \A u : EndsWithin(u)
<1>1. ASSUME NEW u \in Running
      PROVE  thread'[u] # None
  <2>1. thread[u] \in Job /\ thread'[u] = [thread[u] EXCEPT !.alone = FALSE]
    BY DEF Running, LInv, TypeOK, Uncluster
  <2> QED
    BY <2>1, AloneNoMore
<1> QED
  BY <1>1 DEF EndsWithin

LEMMA NextWithin ==
    ASSUME IInv, LInv, [Next]_vars
    PROVE  \A u : EndsWithin(u)
<1>1. ASSUME NEW t \in Threads, Commands(t)
      PROVE  UNCHANGED <<bound, member, requires>>
  BY <1>1, CommandBegins DEF IInv, Begin
<1>2. ASSUME NEW t \in Threads, Commit(t)
      PROVE  \A u : EndsWithin(u)
  BY <1>2, CommitWithin
<1>3. ASSUME NEW h \in Hosts, Uncluster(h)
      PROVE  \A u : EndsWithin(u)
  BY <1>3, UnclusterWithin
<1>4. ASSUME NEW t \in Threads, Process(t) \/ Fail(t)
      PROVE  UNCHANGED <<bound, member, requires>>
  BY <1>4 DEF Process, Fail
<1>5. ASSUME NEW i, NEW max, SetLimit(i, max)
      PROVE  UNCHANGED <<bound, member, requires>>
  BY <1>5 DEF SetLimit
<1>6. ASSUME NEW k, NEW instances, MapService(k, instances)
      PROVE  UNCHANGED <<bound, member, requires>>
  BY <1>6 DEF MapService
<1>7. ASSUME UNCHANGED vars
      PROVE  UNCHANGED <<bound, member, requires>>
  BY <1>7 DEF vars
<1> QED
  BY <1>1, <1>2, <1>3, <1>4, <1>5, <1>6, <1>7, SameLoad DEF Next

LEMMA InitCounts ==
    ASSUME Init
    PROVE  LInv
<1>1. TypeOK
  BY DEF Init, TypeOK
<1> QED
  BY <1>1 DEF Init, LInv, Running

(* Every command is a session of the declared shape (Job), and the database *)
(* has the types of its columns, whatever overlaps.                         *)
THEOREM AlwaysTyped == Spec => []TypeOK
<1>1. Init => IInv /\ AInv /\ LInv
  BY InitInv, InitCounts DEF Init, AInv, Settled, Running, Objects
<1>2. IInv /\ AInv /\ LInv /\ [Next]_vars => IInv' /\ AInv' /\ LInv'
  BY NextInv, NextAligns, NextCounts
<1>3. IInv /\ AInv /\ LInv => TypeOK
  BY DEF LInv
<1> QED
  BY <1>1, <1>2, <1>3, PTL DEF Spec

(* A command that no other overlaps leaves no instance above its maximum    *)
(* that it has given a client, however many objects it works on: a count of *)
(* the ChooserCache is never below what there will be (services.py:44-61,   *)
(* service_instance.py:76-105), so the check against the maximum            *)
(* (services.py:325-348) refuses too early, perhaps, and never too late.    *)
THEOREM BooksWithinLimits == Spec => NeverOverbooksAlone
<1>1. Init => IInv /\ AInv /\ LInv
  BY InitInv, InitCounts DEF Init, AInv, Settled, Running, Objects
<1>2. IInv /\ AInv /\ LInv /\ [Next]_vars => IInv' /\ AInv' /\ LInv'
  BY NextInv, NextAligns, NextCounts
<1>3. IInv /\ AInv /\ LInv /\ [Next]_vars => [\A u : EndsWithin(u)]_vars
  BY NextWithin
<1>4. Spec => [][\A u : EndsWithin(u)]_vars
  BY <1>1, <1>2, <1>3, PTL DEF Spec
<1>5. [\A u : EndsWithin(u)]_vars =>
        [\A t \in Running : (thread'[t] = None /\ thread[t].alone /\ ~thread[t].miscounted)
            => \A x \in Instances : limit[x] # None =>
                \/ Load(x)' <= limit[x] \/ Load(x)' <= Load(x)]_vars
  BY DEF EndsWithin
<1> QED
  BY <1>4, <1>5, PTL DEF NeverOverbooksAlone

=============================================================================
