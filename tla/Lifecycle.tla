----------------------------- MODULE Lifecycle -----------------------------
(***************************************************************************)
(* The build status of hosts and clusters, cluster membership and the      *)
(* placement of virtual machines, one broker command at a time.            *)
(*                                                                         *)
(* A command is an operator that maps the database it finds to the SET of  *)
(* databases it can leave; it has no outcome where the code raises an      *)
(* error, because the session is then rolled back.  LifecycleSessions      *)
(* takes the same operators apart into the read and the commit of          *)
(* concurrent sessions.                                                    *)
(*                                                                         *)
(* Abstracted: change management, personalities, locations and branches    *)
(* (they only refuse commands), service bindings, and the plenaries and    *)
(* the compile each command ends with (PlenaryTransaction models those).   *)
(***************************************************************************)
EXTENDS Naturals, FiniteSets, FiniteSetsExt

CONSTANTS
    Hosts,              \* machines that may carry a host
    Clusters,           \* ESX clusters
    VMs,                \* virtual machines
    HostRequests,       \* values of --buildstatus given for a host
    NewHostStatus,      \* values of --buildstatus given to add_host
    DelHostStatus,      \* statuses in which del_host is permitted
    MaxHosts,           \* max_hosts of every cluster
    DownHosts,          \* down_hosts_threshold of every cluster
    AllowCascadedDeco,  \* the archetype's allow_cascaded_deco
    NoCluster

\* HostLifecycle.transitions
HostTransitions ==
    [ blind          |-> {"build", "failed", "decommissioned"},
      build          |-> {"almostready", "ready", "failed", "decommissioned"},
      install        |-> {"build", "reinstall", "failed", "decommissioned"},
      almostready    |-> {"ready", "rebuild", "reinstall", "failed",
                          "decommissioned"},
      ready          |-> {"almostready", "rebuild", "reinstall", "failed",
                          "decommissioned"},
      reinstall      |-> {"rebuild", "failed", "decommissioned"},
      rebuild        |-> {"almostready", "ready", "reinstall", "failed",
                          "decommissioned"},
      failed         |-> {"rebuild", "reinstall", "decommissioned"},
      decommissioned |-> {"build", "install", "rebuild", "reinstall"} ]

\* ClusterLifecycle.transitions
ClusterTransitions ==
    [ build          |-> {"ready", "decommissioned"},
      ready          |-> {"rebuild", "decommissioned"},
      rebuild        |-> {"ready", "decommissioned"},
      decommissioned |-> {"rebuild"} ]

HostStatus    == DOMAIN HostTransitions
ClusterStatus == DOMAIN ClusterTransitions
Absent        == "absent"   \* no such row

ASSUME LifecycleAssumption ==
    /\ IsFiniteSet(Hosts)
    /\ NoCluster \notin Clusters
    /\ HostRequests \subseteq HostStatus
    /\ NewHostStatus \subseteq HostStatus
    /\ DelHostStatus \subseteq HostStatus
    /\ MaxHosts \in Nat
    /\ DownHosts \in Nat
    /\ AllowCascadedDeco \in BOOLEAN

VARIABLE db     \* the committed rows, see TypeOK

TypeOK ==
    db \in [ host      : [Hosts -> HostStatus \cup {Absent}],
             advertise : [Hosts -> BOOLEAN],
             member    : [Hosts -> Clusters \cup {NoCluster}],
             index     : [Hosts -> Nat],
             cluster   : [Clusters -> ClusterStatus \cup {Absent}],
             vm        : [VMs -> Clusters \cup {NoCluster}] ]

HostsIn(d)    == {h \in Hosts : d.host[h] # Absent}
ClustersIn(d) == {c \in Clusters : d.cluster[c] # Absent}
Members(d, c) == {h \in Hosts : d.member[h] = c}
VMsOf(d, c)   == {v \in VMs : d.vm[v] = c}

-----------------------------------------------------------------------------
(* The state engine.                                                        *)

\* Is a host outside the barrier of its cluster (Ready.onEnter)?
Barred(d, h) ==
    d.member[h] # NoCluster /\ d.cluster[d.member[h]] # "ready"

\* mutant: the direction of the transition table is not checked
CanTransitionUnchecked(d, h, s) ==
    s = "decommissioned" =>
        (d.member[h] # NoCluster => d.cluster[d.member[h]] = "decommissioned")

\* StateEngine.transition raises no error for host h and target s
CanTransition(d, h, s) ==
    \/ s = d.host[h]
    \/ /\ s \in HostTransitions[d.host[h]]
       /\ s = "decommissioned" =>
            (d.member[h] # NoCluster =>
                d.cluster[d.member[h]] = "decommissioned")

\* Its effect: entering ready while the cluster is not ready goes on to
\* almostready, otherwise the host is advertised.  A transition to the
\* current state changes nothing.
Transition(d, h, s) ==
    IF s = "ready" /\ s # d.host[h]
    THEN IF Barred(d, h)
         THEN [d EXCEPT !.host[h] = "almostready"]
         ELSE [d EXCEPT !.host[h] = s, !.advertise[h] = TRUE]
    ELSE [d EXCEPT !.host[h] = s]

CanClusterTransition(d, c, s) ==
    /\ s \in ClusterTransitions[d.cluster[c]]
    /\ s = "decommissioned" =>
        /\ Members(d, c) # {} => AllowCascadedDeco
        /\ VMsOf(d, c) = {}

\* mutant: leaving ready does not demote the members
NobodyDemoted(d, c, s) == {}

\* Ready.onLeave: the members a cluster that ceases to be ready demotes
Demoted(d, c, s) ==
    IF d.cluster[c] = "ready" THEN {h \in Members(d, c) : d.host[h] = "ready"}
                              ELSE {}

\* Ready.onEnter: the members it promotes
Promoted(d, c, s) ==
    IF s = "ready" THEN {h \in Members(d, c) : d.host[h] = "almostready"}
                   ELSE {}

\* Decommissioned.onEnter: the members that follow
Cascaded(d, c, s) == IF s = "decommissioned" THEN Members(d, c) ELSE {}

\* The status these leave host h in
HostStatusAfter(d, c, s, h) ==
    IF h \in Cascaded(d, c, s)      THEN "decommissioned"
    ELSE IF h \in Promoted(d, c, s) THEN "ready"
    ELSE IF h \in Demoted(d, c, s)  THEN "almostready"
    ELSE d.host[h]

ClusterTransition(d, c, s) ==
    [d EXCEPT
        !.cluster[c] = s,
        !.host = [h \in Hosts |-> HostStatusAfter(d, c, s, h)],
        !.advertise = [h \in Hosts |->
                        d.advertise[h] \/ h \in Promoted(d, c, s)]]

-----------------------------------------------------------------------------
(* Cluster limits.                                                          *)

\* Cluster.validate and EsxCluster.validate raise no error
Valid(d, c) ==
    /\ Cardinality(Members(d, c)) <= MaxHosts
    /\ VMsOf(d, c) # {} => Cardinality(Members(d, c)) > DownHosts

\* mutant: the index after the last member, used or not
NextIndex(d, c) == Cardinality(Members(d, c))

\* The smallest node index no member of the cluster uses
FreeIndex(d, c) ==
    Min((0 .. Cardinality(Members(d, c))) \ {d.index[h] : h \in Members(d, c)})

Unlinked(d, h)  == [d EXCEPT !.member[h] = NoCluster, !.index[h] = 0]
Linked(d, h, c) == [d EXCEPT !.member[h] = c, !.index[h] = FreeIndex(d, c)]

-----------------------------------------------------------------------------
(* The commands, as the sets of databases each can leave.                   *)

\* change_status --hostname
ChangeStatusResults(d) ==
    {Transition(d, r[1], r[2]) :
        r \in {q \in HostsIn(d) \X HostRequests : CanTransition(d, q[1], q[2])}}

\* make: the build status is optional
MakeResults(d) == {d} \cup ChangeStatusResults(d)

\* change_status --cluster; nothing happens in the current state
ChangeClusterStatusResults(d) ==
    {ClusterTransition(d, r[1], r[2]) :
        r \in {q \in ClustersIn(d) \X ClusterStatus :
                  CanClusterTransition(d, q[1], q[2])}}

\* mutant: a reset is not refused for ready hosts
ResetAnyHost(d) ==
    {[d EXCEPT !.advertise = [h \in Hosts |-> @[h] /\ h \notin H]] :
        H \in SUBSET HostsIn(d)}

\* reset_advertised_status --hostname and --list
ResetAdvertisedResults(d) ==
    {[d EXCEPT !.advertise = [h \in Hosts |-> @[h] /\ h \notin H]] :
        H \in SUBSET {h \in HostsIn(d) : d.host[h] # "ready"}}

\* add_host: the status is set without a transition, so a host created
\* ready is not advertised
AddHostResults(d) ==
    {[d EXCEPT !.host[r[1]] = r[2], !.advertise[r[1]] = FALSE] :
        r \in (Hosts \ HostsIn(d)) \X NewHostStatus}

\* del_host: refused for a member of a cluster
DelHostResults(d) ==
    {[d EXCEPT !.host[h] = Absent, !.advertise[h] = FALSE] :
        h \in {g \in HostsIn(d) : /\ d.host[g] \in DelHostStatus
                                 /\ d.member[g] = NoCluster}}

AddClusterResults(d) ==
    {[d EXCEPT !.cluster[r[1]] = r[2]] :
        r \in (Clusters \ ClustersIn(d)) \X ClusterStatus}

DelClusterResults(d) ==
    {[d EXCEPT !.cluster[c] = Absent] :
        c \in {b \in ClustersIn(d) : Members(d, b) = {} /\ VMsOf(d, b) = {}}}

\* The status a host gets on joining a cluster
Adjusted(d, h) ==
    IF d.host[h] = "ready" /\ Barred(d, h) THEN Transition(d, h, "almostready")
    ELSE IF d.host[h] = "almostready" /\ ~Barred(d, h)
         THEN Transition(d, h, "ready") ELSE d

\* mutant: the cluster the host leaves is not validated
JoinWithoutOld(d, h, c) ==
    LET new == Adjusted(Linked(Unlinked(d, h), h, c), h)
    IN  IF d.member[h] = c THEN {d} ELSE {e \in {new} : Valid(e, c)}

\* cluster: leave the old cluster if there is one, take the smallest free
\* node index of the new one and adjust the status
Join(d, h, c) ==
    LET left == Unlinked(d, h)
        new  == Adjusted(Linked(left, h, c), h)
    IN  IF d.member[h] = c
        THEN {d}
        ELSE {e \in {new} : /\ d.member[h] # NoCluster => Valid(left, d.member[h])
                            /\ Valid(e, c)}

ClusterResults(d) ==
    UNION {Join(d, h, c) : h \in HostsIn(d),
                           c \in {b \in ClustersIn(d) :
                                    d.cluster[b] # "decommissioned"}}

\* uncluster
UnclusterResults(d) ==
    {Unlinked(d, h) :
        h \in {g \in HostsIn(d) : /\ d.member[g] # NoCluster
                                 /\ Valid(Unlinked(d, g), d.member[g])}}

\* The clusters that could hold VM v after the command
Placements(d, v, allowed) ==
    {e \in {[d EXCEPT !.vm[v] = c] : c \in allowed} : Valid(e, e.vm[v])}

\* add_machine --cluster
AddMachineResults(d) ==
    UNION {Placements(d, v, {c \in ClustersIn(d) :
                                d.cluster[c] # "decommissioned"}) :
            v \in VMsOf(d, NoCluster)}

\* update_machine --cluster: the status of the target is not looked at
UpdateMachineResults(d) ==
    UNION {Placements(d, v, ClustersIn(d)) : v \in VMs \ VMsOf(d, NoCluster)}

DelMachineResults(d) ==
    {[d EXCEPT !.vm[v] = NoCluster] : v \in VMs \ VMsOf(d, NoCluster)}

-----------------------------------------------------------------------------
(* The serial machine: every command runs alone.                            *)

Init ==
    db = [ host      |-> [h \in Hosts |-> Absent],
           advertise |-> [h \in Hosts |-> FALSE],
           member    |-> [h \in Hosts |-> NoCluster],
           index     |-> [h \in Hosts |-> 0],
           cluster   |-> [c \in Clusters |-> Absent],
           vm        |-> [v \in VMs |-> NoCluster] ]

ChangeStatus        == db' \in ChangeStatusResults(db)
Make                == db' \in MakeResults(db)
ChangeClusterStatus == db' \in ChangeClusterStatusResults(db)
ResetAdvertised     == db' \in ResetAdvertisedResults(db)
AddHost             == db' \in AddHostResults(db)
DelHost             == db' \in DelHostResults(db)
AddCluster          == db' \in AddClusterResults(db)
DelCluster          == db' \in DelClusterResults(db)
Cluster             == db' \in ClusterResults(db)
Uncluster           == db' \in UnclusterResults(db)
AddMachine          == db' \in AddMachineResults(db)
UpdateMachine       == db' \in UpdateMachineResults(db)
DelMachine          == db' \in DelMachineResults(db)

Next ==
    \/ ChangeStatus \/ Make \/ ChangeClusterStatus \/ ResetAdvertised
    \/ AddHost \/ DelHost \/ AddCluster \/ DelCluster
    \/ Cluster \/ Uncluster
    \/ AddMachine \/ UpdateMachine \/ DelMachine

Spec == Init /\ [][Next]_db

-----------------------------------------------------------------------------
(* Properties.                                                              *)

\* The barrier: no host is ready in a cluster that is not, whichever side
\* changed last and however the host got there (Ready.onEnter of the host,
\* Ready.onEnter and onLeave of the cluster, the adjustment on joining).
Barrier == \A h \in HostsIn(db) : db.host[h] = "ready" => ~Barred(db, h)

\* Capacity: a cluster with virtual machines keeps more hosts than may be
\* down, and no cluster exceeds max_hosts, whichever command moved a host
\* or a VM in or out.
Capacity == \A c \in ClustersIn(db) : Valid(db, c)

\* No two members of a cluster have the same node index, over any sequence
\* of joins, moves and removals.
NodeIndexUnique ==
    \A g, h \in Hosts :
        (g # h /\ db.member[g] = db.member[h] /\ db.member[h] # NoCluster)
            => db.index[g] # db.index[h]

\* No command that runs alone deletes a row that another refers to: the
\* checks of del_host and del_cluster cover every way a host or a VM can have
\* come into a cluster, and decommissioning one does not let go of them
\* (del_host.py:115, del_cluster.py:31-40; the schema would cascade silently).
NoDanglingRows ==
    /\ \A h \in Hosts : db.member[h] # NoCluster =>
            h \in HostsIn(db) /\ db.member[h] \in ClustersIn(db)
    /\ \A v \in VMs : db.vm[v] # NoCluster => db.vm[v] \in ClustersIn(db)

\* A host that exists before and after a command has moved along an edge of
\* the transition table, also where a cluster's change demotes, promotes or
\* decommissions it on the way.
LegalHostSteps ==
    [][\A h \in HostsIn(db) :
         db'.host[h] \notin {db.host[h], Absent} =>
            db'.host[h] \in HostTransitions[db.host[h]]]_db

\* A host that turns ready is advertised, and stays so while it is ready.
ReadyKeepsAdvertised ==
    [][\A h \in HostsIn(db) :
         (db'.host[h] = "ready" /\ (db.host[h] # "ready" \/ db.advertise[h]))
            => db'.advertise[h]]_db

=============================================================================
