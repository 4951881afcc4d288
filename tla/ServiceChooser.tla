--------------------------- MODULE ServiceChooser ---------------------------
(***************************************************************************)
(* Which instance of a service the hosts and clusters are bound to:        *)
(* Chooser and ChooserCache of worker/services.py as make, make_cluster,   *)
(* reconfigure, cluster, uncluster, bind_client, rebind_client and         *)
(* unbind_client run them, with the client counts of                       *)
(* aqdb/model/service_instance.py.                                         *)
(*                                                                         *)
(* One service; what an object requires is its personality.  A command     *)
(* works on its objects one after the other, locks the row of each until   *)
(* it commits, and sees its own changes and what others have committed.    *)
(* The work on one object is one step.  Servers (affinity) are left out,   *)
(* so that any instance which remains may be chosen; so are metaclusters,   *)
(* and the commands that change what a personality requires without        *)
(* rebinding anybody (add_required_service, del_required_service).         *)
(*                                                                         *)
(* Bounds: MaxCommands commands; limits and maps change between commands.  *)
(***************************************************************************)
EXTENDS Integers, FiniteSets, Sequences

CONSTANTS Hosts, Cluster, Instances, Threads, None,
          MaxHosts,           \* max_hosts of the cluster
          Limits,             \* the values of max_clients; None is no limit
          MaxCommands

Objects == Hosts \cup {Cluster}
Keys    == {"host", "cluster"}

\* What a command is: a session with its Chooser (see Start).
Job ==
    [kind : {"host", "cluster", "list", "unlocked"}, objects : Seq(Objects),
     only : BOOLEAN, single : BOOLEAN, instance : Instances \cup {None},
     force : BOOLEAN, wants : BOOLEAN \cup {None}, joins : SUBSET Hosts,
     read : {None} \cup [Objects -> SUBSET Instances],
     add : SUBSET (Objects \X Instances), del : SUBSET (Objects \X Instances),
     maps : [Keys -> {None} \cup SUBSET Instances],
     count : [Instances -> Int \cup {None}], loaded : [Instances -> Int \cup {None}],
     held : SUBSET Objects, alone : BOOLEAN, miscounted : BOOLEAN,
     moved : SUBSET Objects]

ASSUME ChooserAssumption ==
    /\ IsFiniteSet(Hosts) /\ Cluster \notin Hosts
    /\ None \notin Instances \cup Int /\ None \notin Job
    /\ MaxHosts \in Nat /\ MaxCommands \in Nat
    /\ Limits \subseteq Nat \cup {None}

Key(o)  == IF o = Cluster THEN "cluster" ELSE "host"

VARIABLES
    requires,  \* requires[o]: the personality of o requires the service
    member,    \* the hosts in the cluster
    bound,     \* bound[o]: the instances o is bound to (services_used)
    limit,     \* limit[i]: enforced_max_clients
    mapped,    \* mapped[k]: the closest instances for a key of the maps
    thread,    \* thread[t]: the command a thread runs, or None
    started,   \* auxiliary: commands begun
    overlapped \* auxiliary: the kinds of the commands that overlapped another

TypeOK ==
    /\ requires \in [Objects -> BOOLEAN] /\ member \in SUBSET Hosts
    /\ bound \in [Objects -> SUBSET Instances]
    /\ limit \in [Instances -> Nat \cup {None}]
    /\ mapped \in [Keys -> SUBSET Instances]
    /\ thread \in [Threads -> Job \cup {None}]
    /\ started \in Nat /\ overlapped \subseteq {"host", "cluster", "list", "unlocked"}

vars == <<requires, member, bound, limit, mapped, thread, started, overlapped>>

Init ==
    /\ requires \in [Objects -> BOOLEAN]
    /\ member \in SUBSET Hosts
    /\ bound = [o \in Objects |-> {}]
    /\ limit = [i \in Instances |-> None]
    /\ mapped = [k \in Keys |-> Instances]
    /\ thread = [t \in Threads |-> None]
    /\ started = 0 /\ overlapped = {}

Running == {t \in Threads : thread[t] # None}

-----------------------------------------------------------------------------
(* The number of clients of x where bnd is who is bound.  If the cluster's  *)
(* personality requires the service, a cluster counts with all the hosts it *)
(* may have, and its members do not count.                                  *)
Clients(bnd, mem, x) ==
    LET hosts == {h \in Hosts : x \in bnd[h]} IN
    IF requires[Cluster]
    THEN Cardinality(hosts \ mem) + (IF x \in bnd[Cluster] THEN MaxHosts ELSE 0)
    ELSE Cardinality(hosts)

(* A command's record r.  objects: those it still has to work on; only:     *)
(* required_only; single: bind_client, with the instance it names; wants:   *)
(* the personality it gives to its hosts; joins: the host that joins the    *)
(* cluster; read: services_used where it was loaded before the row lock;    *)
(* add, del: its changes; maps, count: the ChooserCache; loaded: the counts *)
(* SQLAlchemy has loaded; held: its row locks.  Auxiliary: alone, since no  *)
(* command overlaps it; miscounted; moved, the objects that lost an         *)
(* instance which had room for them.                                        *)

Start(kind, objects) ==
    [kind |-> kind, objects |-> objects, only |-> FALSE, single |-> FALSE,
     instance |-> None, force |-> FALSE, wants |-> None, joins |-> {},
     read |-> None, add |-> {}, del |-> {}, maps |-> [k \in Keys |-> None],
     count |-> [i \in Instances |-> None], loaded |-> [i \in Instances |-> None],
     held |-> {}, alone |-> Running = {}, miscounted |-> FALSE, moved |-> {}]

Listed(s) == {s[n] : n \in 1..Len(s)}

Free(o) == \A t \in Running : o \notin thread[t].held

Begin(t, r) ==
    /\ thread[t] = None /\ started < MaxCommands
    /\ started' = started + 1
    /\ thread' = [u \in Threads |->
            IF u = t THEN r
            ELSE IF thread[u] = None THEN None ELSE [thread[u] EXCEPT !.alone = FALSE]]
    /\ overlapped' = IF Running = {} THEN overlapped
                     ELSE overlapped \cup {r.kind} \cup {thread[u].kind : u \in Running}
    /\ UNCHANGED <<requires, member, bound, limit, mapped>>

\* What the command's session sees
Seen(r) == [o \in Objects |->
    {i \in Instances : <<o, i>> \in r.add \/ (i \in bound[o] /\ <<o, i>> \notin r.del)}]
InCluster(r)    == member \cup r.joins
Required(r, o)  == IF o \in Hosts /\ r.wants # None THEN r.wants ELSE requires[o]

\* client_count: _client_count stays as it was loaded, the other query is fresh.
ClientCount(r, x) ==
    IF requires[Cluster] \/ r.loaded[x] = None THEN Clients(Seen(r), InCluster(r), x)
    ELSE r.loaded[x]

\* ChooserCache.client_count
CachedCount(r, x) == IF r.count[x] = None THEN ClientCount(r, x) ELSE r.count[x]

-----------------------------------------------------------------------------
(* The work of a Chooser on the object o, whose binding was orig.           *)

CachedMap(r, o) == IF r.maps[Key(o)] = None THEN mapped[Key(o)] ELSE r.maps[Key(o)]

Footprint(r, o) ==
    IF o # Cluster THEN 1 ELSE IF Required(r, o) THEN MaxHosts ELSE 0

Parents(r, o) == IF o \in InCluster(r) THEN {Cluster} ELSE {}

\* mutant: the cluster is not looked at
AlignedToNone(r, o, candidates) == {candidates}

\* The alternatives after choose_aligned; none if that is an error.
Aligned(r, o, candidates) ==
    IF Parents(r, o) = {} \/ (Seen(r)[Cluster] = {} /\ ~requires[Cluster])
    THEN {candidates}
    ELSE {{i} : i \in Seen(r)[Cluster] \cap candidates}

\* mutant: the footprint is forgotten
FullAlready(r, o, orig, x) ==
    limit[x] # None /\ CachedCount(r, x) > limit[x]

InstanceFull(r, o, orig, x) ==
    /\ limit[x] # None
    /\ CachedCount(r, x) + (IF x = orig THEN 0 ELSE Footprint(r, o)) > limit[x]

\* The candidates that have room.  Where they are the cached list itself,
\* the list loses the others.
Room(r, o, orig, candidates) == {x \in candidates : ~InstanceFull(r, o, orig, x)}

PastUse(orig, candidates) == IF orig \in candidates THEN {orig} ELSE candidates

\* Every instance that was looked at is in the cache from then on.
Counted(r, candidates) ==
    [r EXCEPT !.count = [i \in Instances |->
                IF i \in candidates THEN CachedCount(r, i) ELSE @[i]]]

\* Auxiliary: a member is not counted where its cluster is.
Uncounted(r, o) == requires[Cluster] /\ Parents(r, o) # {}

\* apply_changes.  An instance that has not been counted before is counted
\* when it is unbound: its removal has been flushed if that takes a query.
Applied(r, o, orig, new) ==
    LET foot == Footprint(r, o)
        gone == IF orig = None THEN r ELSE [r EXCEPT !.del = @ \cup {<<o, orig>>}]
        queries == requires[Cluster] \/ \A i \in Instances : r.count[i] = None
        lost == IF orig = None THEN 0
                ELSE IF r.count[orig] # None THEN r.count[orig]
                ELSE ClientCount(IF queries THEN gone ELSE r, orig)
    IN  [gone EXCEPT
            !.add = IF new = None THEN @ ELSE @ \cup {<<o, new>>},
            !.miscounted =
                @ \/ (orig # None /\ (r.count[orig] = None \/ Uncounted(r, o))),
            !.count = [i \in Instances |->
                IF i = orig THEN lost - foot
                ELSE IF i = new THEN @[i] + foot ELSE @[i]]]

\* Auxiliary: the object has lost an instance it could have kept.
Moved(r, o, orig, c, candidates) ==
    /\ orig # None /\ c # orig /\ ~r.single /\ orig \in mapped[Key(o)]
    /\ candidates \subseteq CachedMap(r, o) /\ Parents(r, o) = {}
    /\ limit[orig] # None => Clients(Seen(r), InCluster(r), orig) <= limit[orig]

Named(r) == r.single /\ r.instance # None

Candidates(r, o) == IF Named(r) THEN {r.instance} ELSE CachedMap(r, o)

\* Reading the maps loads the counts of what is mapped.
MapsRead(r, o) ==
    IF requires[Cluster] THEN r
    ELSE [r EXCEPT !.loaded = [i \in Instances |->
            IF @[i] = None /\ ~Named(r) /\ i \in mapped[Key(o)] /\ r.maps[Key(o)] = None
            THEN Clients(Seen(r), InCluster(r), i) ELSE @[i]]]

\* The caches once the candidates have been looked at
Looked(r, o, orig, candidates) ==
    [Counted(r, candidates) EXCEPT
        !.maps[Key(o)] = IF Named(r) THEN @
                         ELSE IF candidates = Candidates(r, o)
                         THEN Room(r, o, orig, candidates) ELSE Candidates(r, o)]

\* c is chosen among the candidates, and the changes are applied.
Rebound(r, o, orig, candidates, c) ==
    LET next == Looked(r, o, orig, candidates) IN
    IF c = orig THEN next
    ELSE [Applied(next, o, orig, c) EXCEPT
            !.moved = IF Moved(r, o, orig, c, candidates) THEN @ \cup {o} ELSE @]

Allowed(r, o, orig, candidates) ==
    {c \in PastUse(orig, Room(r, o, orig, candidates)) :
        ~r.single \/ r.force \/ orig \in {None, c}}

\* What set_required and set_single make of r for o; the empty set is an error.
Chosen(r, o, orig) ==
    IF ~r.single /\ ~Required(r, o)
    THEN {IF r.only /\ orig # None THEN Applied(r, o, orig, None) ELSE r}
    ELSE LET m == MapsRead(r, o)
         IN  UNION {{Rebound(m, o, orig, candidates, c) :
                        c \in Allowed(m, o, orig, candidates)}
                    : candidates \in Aligned(m, o, Candidates(m, o))}

\* services_used as the Chooser finds it: one of them, should there be two
Originals(r, o) ==
    LET used == IF r.read = None THEN Seen(r)[o] ELSE r.read[o] IN
    IF used = {} THEN {None} ELSE used

\* What is left of a command when one more object is done; at the end, its
\* changes.
Done(r) ==
    LET left == Tail(r.objects) IN
    IF left # <<>> THEN [r EXCEPT !.objects = left]
    ELSE [Start(r.kind, <<>>) EXCEPT
            !.wants = r.wants, !.joins = r.joins, !.add = r.add, !.del = r.del,
            !.held = r.held, !.alone = r.alone, !.miscounted = r.miscounted,
            !.moved = r.moved]

\* mutant: the row is not locked
ProcessUnlocked(t) ==
    /\ thread[t] # None /\ thread[t].objects # <<>>
    /\ LET r == thread[t]  o == Head(r.objects) IN
        \E orig \in Originals(r, o) :
        \E s \in Chosen(r, o, orig) :
            thread' = [thread EXCEPT ![t] = Done(s)]
    /\ UNCHANGED <<requires, member, bound, limit, mapped, started, overlapped>>

Process(t) ==
    /\ thread[t] # None /\ thread[t].objects # <<>>
    /\ LET r == thread[t]  o == Head(r.objects) IN
        /\ \A u \in Running \ {t} : o \notin thread[u].held
        /\ \E orig \in Originals(r, o) :
           \E s \in Chosen(r, o, orig) :
            thread' = [thread EXCEPT ![t] = Done([s EXCEPT !.held = @ \cup {o}])]
    /\ UNCHANGED <<requires, member, bound, limit, mapped, started, overlapped>>

-----------------------------------------------------------------------------
(* The commands.                                                            *)

Orders(S) == {s \in [1..Cardinality(S) -> S] : Listed(s) = S}

Make(t, h, keep, wants) ==
    /\ wants # None => Free(h)
    /\ Begin(t, [Start("host", <<h>>) EXCEPT
            !.only = ~keep, !.wants = wants, !.held = IF wants = None THEN {} ELSE {h}])

\* The cluster, then its hosts
MakeCluster(t, keep) == \E s \in Orders(member) :
    Begin(t, [Start("cluster", <<Cluster>> \o s) EXCEPT !.only = ~keep])

\* reconfigure --list: the bindings and counts are loaded with the hosts.
Reconfigure(t, keep, wants) == \E s \in Orders(Hosts) :
    /\ wants # None => \A h \in Hosts : Free(h)
    /\ Begin(t, [Start("list", s) EXCEPT
            !.only = ~keep, !.wants = wants, !.read = bound,
            !.held = IF wants = None THEN {} ELSE Hosts,
            !.loaded = [i \in Instances |->
                IF ~requires[Cluster] /\ \E h \in Hosts : i \in bound[h]
                THEN Clients(bound, member, i) ELSE None]])

\* aq cluster
Join(t, h) ==
    /\ h \notin member /\ Cardinality(member) < MaxHosts
    /\ Begin(t, [Start("cluster", <<h>>) EXCEPT !.joins = {h}])

\* bind_client --hostname; rebind_client is the same with force.
BindHost(t, h, instance, force) ==
    Begin(t, [Start("host", <<h>>) EXCEPT
        !.single = TRUE, !.instance = instance, !.force = force])

\* The cluster, then the members that require the service
BindCluster(t, instance, force) ==
    \E s \in Orders({h \in member : requires[h]}) :
        Begin(t, [Start("cluster", <<Cluster>> \o s) EXCEPT
            !.single = TRUE, !.instance = instance, !.force = force])

\* No row is locked.
Unbind(t, o) ==
    /\ ~requires[o]
    /\ \E i \in bound[o] :
        Begin(t, [Start("unlocked", <<>>) EXCEPT !.del = {<<o, i>>}])

Uncluster(h) ==
    /\ h \in member /\ started < MaxCommands
    /\ member' = member \ {h} /\ started' = started + 1
    /\ overlapped' = IF Running = {} THEN overlapped
                     ELSE overlapped \cup {"unlocked"} \cup {thread[u].kind : u \in Running}
    /\ thread' = [u \in Threads |->
            IF thread[u] = None THEN None ELSE [thread[u] EXCEPT !.alone = FALSE]]
    /\ UNCHANGED <<requires, bound, limit, mapped>>

\* update_service_instance --max_clients, map_service and unmap_service
SetLimit(i, max) ==
    /\ Running = {} /\ started < MaxCommands
    /\ limit' = [limit EXCEPT ![i] = max] /\ started' = started + 1
    /\ UNCHANGED <<requires, member, bound, mapped, thread, overlapped>>

MapService(k, instances) ==
    /\ Running = {} /\ started < MaxCommands
    /\ mapped' = [mapped EXCEPT ![k] = instances] /\ started' = started + 1
    /\ UNCHANGED <<requires, member, bound, limit, thread, overlapped>>

-----------------------------------------------------------------------------
\* A DELETE that finds no row and an INSERT of a row that is there are refused.
Commit(t) ==
    /\ thread[t] # None /\ thread[t].objects = <<>>
    /\ LET r == thread[t] IN
        IF /\ \A p \in r.del : p[2] \in bound[p[1]]
           /\ \A p \in r.add : p[2] \notin bound[p[1]]
        THEN /\ bound' = Seen(r)
             /\ requires' = [o \in Objects |->
                    IF o \in Hosts \cap r.held THEN Required(r, o) ELSE requires[o]]
             /\ member' = InCluster(r)
        ELSE UNCHANGED <<bound, requires, member>>
    /\ thread' = [thread EXCEPT ![t] = None]
    /\ UNCHANGED <<limit, mapped, started, overlapped>>

\* An error of the chooser, of the compile, or a deadlock of row locks
Fail(t) ==
    /\ thread[t] # None
    /\ thread' = [thread EXCEPT ![t] = None]
    /\ UNCHANGED <<requires, member, bound, limit, mapped, started, overlapped>>

Commands(t) ==
    \/ \E keep \in BOOLEAN, wants \in BOOLEAN \cup {None} :
        Reconfigure(t, keep, wants) \/ \E h \in Hosts : Make(t, h, keep, wants)
    \/ \E keep \in BOOLEAN : MakeCluster(t, keep)
    \/ \E h \in Hosts : Join(t, h)
    \/ \E instance \in Instances \cup {None}, force \in BOOLEAN :
        BindCluster(t, instance, force) \/ \E h \in Hosts : BindHost(t, h, instance, force)
    \/ \E o \in Objects : Unbind(t, o)

Next ==
    \/ \E t \in Threads : Commands(t) \/ Process(t) \/ Commit(t) \/ Fail(t)
    \/ \E h \in Hosts : Uncluster(h)
    \/ \E i \in Instances, max \in Limits : SetLimit(i, max)
    \/ \E k \in Keys, instances \in SUBSET Instances : MapService(k, instances)

Spec == Init /\ [][Next]_vars

-----------------------------------------------------------------------------
Load(x) == Clients(bound, member, x)

(* A command that no other overlaps gives an instance a new client only if  *)
(* that leaves it within its maximum, however many objects it works on      *)
(* (services.py:325-348 with the counts of the cache, services.py:44-61).   *)
(* Not if it has unbound an instance it had not counted: that is counted    *)
(* after the removal and once less (services.py:57-61).  Nor if it has      *)
(* unbound a member of a cluster that is counted with all the hosts it may  *)
(* have: the member did not count, and is taken off (services.py:160-171).  *)
NeverOverbooksAlone ==
    [][\A t \in Running : (thread'[t] = None /\ thread[t].alone /\ ~thread[t].miscounted)
        => \A x \in Instances : limit[x] # None =>
            \/ Load(x)' <= limit[x] \/ Load(x)' <= Load(x)]_vars

(* A member that requires the service is bound to what its cluster is bound *)
(* to, and to nothing else (services.py:286-305), as long as commands on    *)
(* the cluster, on lists and without a lock run by themselves: the cluster  *)
(* is read without locking it.                                              *)
AlignedMembers ==
    (overlapped \subseteq {"host"} /\ bound[Cluster] # {})
        => \A h \in member : requires[h] => bound[h] = bound[Cluster]

(* An object is bound to one instance of a service at most, in whatever way *)
(* commands overlap: the row lock (services.py:77).  reconfigure --list has *)
(* loaded the bindings before it takes the lock.                            *)
OneBinding ==
    "list" \notin overlapped => \A o \in Objects : Cardinality(bound[o]) <= 1

(* An object whose instance is mapped and not over its limit keeps it       *)
(* (choose_past_use, services.py:350-364; doc/commands/update_service.xml). *)
PastUseKept == \A t \in Running : thread[t].alone => thread[t].moved = {}

=============================================================================
