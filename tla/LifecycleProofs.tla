-------------------------- MODULE LifecycleProofs --------------------------
(***************************************************************************)
(* Proofs about Lifecycle and LifecycleSessions: the barrier between hosts *)
(* and their cluster, the integrity of memberships and placements, the     *)
(* transition table, the limits of clusters, the node indexes of their     *)
(* members, the advertised status, and concurrent sessions.                *)
(*                                                                         *)
(* A command is an operator from a database to the databases it can leave, *)
(* so a proof is one lemma per command: from a good database it leaves     *)
(* only good ones.  The barrier is not inductive alone: it needs that a    *)
(* member's cluster exists, because a host without one is never barred and *)
(* add_cluster creates clusters that are not ready; that in turn needs     *)
(* that nothing deletes a host or a cluster still referred to.             *)
(*                                                                         *)
(* The limits are inductive for every cluster, whether its row exists or   *)
(* not.  A node index is free when it is given because a cluster of n      *)
(* members cannot use all of 0..n (a surjection from its members).         *)
(*                                                                         *)
(* A session sends the columns in which the database it computed differs   *)
(* from the one it read: sent to that same database they make up what it   *)
(* computed.                                                               *)
(***************************************************************************)
EXTENDS LifecycleSessions, FiniteSetTheorems, WellFoundedInduction, TLAPS

\* What is needed of the types: the fields of the rows, and the values of the
\* references.
Rows(d) ==
    /\ d = [host |-> d.host, advertise |-> d.advertise, member |-> d.member,
            index |-> d.index, cluster |-> d.cluster, vm |-> d.vm]
    /\ d.host = [h \in Hosts |-> d.host[h]]
    /\ d.member \in [Hosts -> Clusters \cup {NoCluster}]
    /\ d.cluster = [c \in Clusters |-> d.cluster[c]]
    /\ d.vm \in [VMs -> Clusters \cup {NoCluster}]

\* Hosts have statuses of the transition table.
Statuses(d) == \A h \in Hosts : d.host[h] \in HostStatus \cup {Absent}

\* Memberships and placements refer to rows that exist.
References(d) ==
    /\ \A h \in Hosts : d.member[h] # NoCluster =>
            d.host[h] # Absent /\ d.cluster[d.member[h]] # Absent
    /\ \A v \in VMs : d.vm[v] # NoCluster => d.cluster[d.vm[v]] # Absent

\* No host is ready in a cluster that is not.
Guarded(d) == \A h \in Hosts : d.host[h] = "ready" => ~Barred(d, h)

Good(d) == Rows(d) /\ Statuses(d) /\ References(d) /\ Guarded(d)

\* The statuses the code names, as against no row
LEMMA StatusNames ==
    /\ {"ready", "almostready", "decommissioned"} \subseteq HostStatus
    /\ Absent \notin HostStatus
BY DEF HostStatus, HostTransitions, Absent

\* A host's transition: entering ready stops at almostready when barred.
LEMMA TransitionGood ==
    ASSUME NEW d, Good(d), NEW h \in HostsIn(d), NEW s \in HostRequests
    PROVE  Good(Transition(d, h, s))
<1> DEFINE e == Transition(d, h, s)
<1>0. s \in HostStatus /\ s # Absent /\ h \in Hosts /\ d.host[h] # Absent
  BY LifecycleAssumption DEF HostStatus, HostTransitions, Absent, HostsIn
<1>1. CASE s = "ready" /\ s # d.host[h] /\ Barred(d, h)
  <2>1. e = [d EXCEPT !.host[h] = "almostready"]
    BY <1>1 DEF Transition
  <2>2. Rows(e)
    BY <2>1 DEF Rows, Good
  <2> QED
    BY StatusNames, <2>1, <2>2, <1>0
       DEF Good, Rows, Statuses, References, Guarded, Barred, Absent
<1>2. CASE s = "ready" /\ s # d.host[h] /\ ~Barred(d, h)
  <2>1. e = [d EXCEPT !.host[h] = s, !.advertise[h] = TRUE]
    BY <1>2 DEF Transition
  <2>2. Rows(e)
    BY <2>1 DEF Rows, Good
  <2> QED
    BY StatusNames, <2>1, <2>2, <1>0, <1>2
       DEF Good, Rows, Statuses, References, Guarded, Barred, Absent
<1>3. CASE ~(s = "ready" /\ s # d.host[h])
  <2>1. e = [d EXCEPT !.host[h] = s]
    BY <1>3 DEF Transition
  <2>2. Rows(e)
    BY <2>1 DEF Rows, Good
  <2> QED
    BY StatusNames, <2>1, <2>2, <1>0, <1>3
       DEF Good, Rows, Statuses, References, Guarded, Barred, Absent
<1> QED BY <1>1, <1>2, <1>3

\* A cluster's transition: who is ready afterwards was promoted with it, or is
\* a member of another cluster, since a cluster that was not ready had no ready
\* member and one that was ready has demoted its own.
LEMMA ClusterTransitionGood ==
    ASSUME NEW d, Good(d), NEW c \in ClustersIn(d), NEW s \in ClusterStatus,
           CanClusterTransition(d, c, s)
    PROVE  Good(ClusterTransition(d, c, s))
<1> DEFINE e == ClusterTransition(d, c, s)
           status(h) == HostStatusAfter(d, c, s, h)
<1>1. /\ e.host = [h \in Hosts |-> status(h)]
      /\ e.member = d.member /\ e.vm = d.vm
      /\ e.cluster = [d.cluster EXCEPT ![c] = s]
  <2>1. e.host = [h \in Hosts |-> status(h)]
    BY DEF ClusterTransition, Good, Rows
  <2>2. e.member = d.member
    BY DEF ClusterTransition, Good, Rows
  <2>3. e.vm = d.vm
    BY DEF ClusterTransition, Good, Rows
  <2>4. e.cluster = [d.cluster EXCEPT ![c] = s]
    BY DEF ClusterTransition, Good, Rows
  <2> QED
    BY <2>1, <2>2, <2>3, <2>4
<1>2. Rows(e)
  <2> DEFINE ad == [h \in Hosts |-> d.advertise[h] \/ h \in Promoted(d, c, s)]
             ho == [h \in Hosts |-> status(h)]
             cl == [d.cluster EXCEPT ![c] = s]
  <2>1. e = [[[d EXCEPT !.cluster = cl] EXCEPT !.host = ho] EXCEPT !.advertise = ad]
    BY DEF ClusterTransition, Good, Rows
  <2> HIDE DEF ad, ho, cl, e
  <2>2. /\ e = [host |-> e.host, advertise |-> e.advertise, member |-> e.member,
                index |-> e.index, cluster |-> e.cluster, vm |-> e.vm]
    BY <2>1 DEF Good, Rows
  <2> QED
    BY <1>1, <2>2 DEF Good, Rows
<1>3. s # Absent /\ c \in Clusters
  BY DEF ClusterStatus, ClusterTransitions, Absent, ClustersIn
<1>4. \A h \in Hosts : status(h) = Absent => d.host[h] = Absent
  BY DEF Absent, HostStatusAfter
<1>5. \A h \in Hosts : e.host[h] = status(h)
  BY <1>1
<1>6. References(e)
  BY <1>1, <1>3, <1>4, <1>5 DEF Good, Rows, Statuses, References
<1>7. ASSUME NEW h \in Hosts, e.host[h] = "ready", d.member[h] = c
      PROVE  s = "ready"
  <2>1. d.cluster[c] # s
    BY <1>3
       DEF CanClusterTransition, ClusterTransitions, ClustersIn, ClusterStatus
  <2>2. CASE h \in Promoted(d, c, s)
    BY <2>2 DEF Promoted
  <2>3. CASE d.cluster[c] = "ready" /\ h \notin Promoted(d, c, s)
    <3>1. s # "ready"
      BY <2>1, <2>3
    <3>2. d.host[h] = "ready" => h \in Demoted(d, c, s)
      BY <1>7, <2>3 DEF Demoted, Members
    <3> QED
      BY <1>5, <1>7, <3>1, <3>2, <2>3 DEF Promoted, HostStatusAfter
  <2>4. CASE d.cluster[c] # "ready" /\ h \notin Promoted(d, c, s)
    <3>1. d.host[h] # "ready" /\ h \notin Demoted(d, c, s)
      BY LifecycleAssumption, <1>3, <1>7, <2>4
         DEF Good, Guarded, Barred, Demoted
    <3> QED
      BY <1>5, <1>7, <3>1, <2>4 DEF HostStatusAfter
  <2> QED
    BY <2>2, <2>3, <2>4
<1>8. ASSUME NEW h \in Hosts, e.host[h] = "ready", d.member[h] # c
      PROVE  d.host[h] = "ready"
  BY <1>5, <1>8 DEF HostStatusAfter, Promoted, Members, Demoted, Cascaded
<1>9. Guarded(e)
  <2> SUFFICES ASSUME NEW h \in Hosts, e.host[h] = "ready", d.member[h] # NoCluster
               PROVE  e.cluster[d.member[h]] = "ready"
    BY <1>1 DEF Guarded, Barred
  <2>1. d.member[h] \in Clusters
    BY DEF Good, Rows
  <2>2. CASE d.member[h] = c
    BY <1>1, <1>3, <1>7, <2>2 DEF Good, Rows
  <2>3. CASE d.member[h] # c
    BY <1>1, <1>8, <2>1, <2>3 DEF Good, Rows, Guarded, Barred
  <2> QED
    BY <2>2, <2>3
<1>10. Statuses(e)
  BY <1>5, StatusNames DEF Good, Statuses, HostStatusAfter
<1> QED
  BY <1>2, <1>6, <1>9, <1>10 DEF Good

\* change_status --hostname and make
LEMMA StatusGood ==
    ASSUME NEW d, Good(d), NEW e \in ChangeStatusResults(d)
    PROVE  Good(e)
BY TransitionGood DEF ChangeStatusResults

\* change_status --cluster
LEMMA ClusterStatusGood ==
    ASSUME NEW d, Good(d), NEW e \in ChangeClusterStatusResults(d)
    PROVE  Good(e)
BY ClusterTransitionGood DEF ChangeClusterStatusResults

\* reset_advertised_status
LEMMA ResetGood ==
    ASSUME NEW d, Good(d), NEW e \in ResetAdvertisedResults(d)
    PROVE  Good(e)
<1> PICK H : e = [d EXCEPT !.advertise = [h \in Hosts |-> d.advertise[h] /\ h \notin H]]
  BY DEF ResetAdvertisedResults
<1> DEFINE ad == [h \in Hosts |-> d.advertise[h] /\ h \notin H]
<1>1. e = [d EXCEPT !.advertise = ad]
  OBVIOUS
<1> HIDE DEF ad
<1> QED
  BY <1>1 DEF Good, Rows, Statuses, References, Guarded, Barred

\* add_host: a host that did not exist was a member of nothing.
LEMMA AddHostGood ==
    ASSUME NEW d, Good(d), NEW e \in AddHostResults(d)
    PROVE  Good(e)
<1> PICK h \in Hosts, s \in NewHostStatus :
        /\ d.host[h] = Absent
        /\ e = [d EXCEPT !.host[h] = s, !.advertise[h] = FALSE]
  BY DEF AddHostResults, HostsIn
<1>1. s # Absent
  BY LifecycleAssumption DEF HostStatus, HostTransitions, Absent
<1>2. Rows(e)
  BY DEF Good, Rows
<1> QED
  BY StatusNames, LifecycleAssumption, <1>1, <1>2
     DEF Good, Rows, Statuses, References, Guarded, Barred

\* del_host
LEMMA DelHostGood ==
    ASSUME NEW d, Good(d), NEW e \in DelHostResults(d)
    PROVE  Good(e)
<1> PICK h \in Hosts :
        /\ d.member[h] = NoCluster
        /\ e = [d EXCEPT !.host[h] = Absent, !.advertise[h] = FALSE]
  BY DEF DelHostResults, HostsIn
<1>1. Rows(e)
  BY DEF Good, Rows
<1> QED
  BY <1>1 DEF Good, Rows, Statuses, References, Guarded, Barred, Absent

\* add_cluster: nobody refers to a cluster that did not exist.
LEMMA AddClusterGood ==
    ASSUME NEW d, Good(d), NEW e \in AddClusterResults(d)
    PROVE  Good(e)
<1> PICK c \in Clusters, s \in ClusterStatus :
        d.cluster[c] = Absent /\ e = [d EXCEPT !.cluster[c] = s]
  BY DEF AddClusterResults, ClustersIn
<1>1. s # Absent
  BY DEF ClusterStatus, ClusterTransitions, Absent
<1>2. Rows(e)
  BY DEF Good, Rows
<1> QED
  BY StatusNames, LifecycleAssumption, <1>1, <1>2
     DEF Good, Rows, Statuses, References, Guarded, Barred

\* del_cluster
LEMMA DelClusterGood ==
    ASSUME NEW d, Good(d), NEW e \in DelClusterResults(d)
    PROVE  Good(e)
<1> PICK c \in Clusters :
        /\ Members(d, c) = {} /\ VMsOf(d, c) = {}
        /\ e = [d EXCEPT !.cluster[c] = Absent]
  BY DEF DelClusterResults, ClustersIn
<1>1. Rows(e)
  BY DEF Good, Rows
<1>2. \A h \in Hosts : d.member[h] # c
  BY DEF Members
<1>3. \A v \in VMs : d.vm[v] # c
  BY DEF VMsOf
<1> QED
  BY <1>1, <1>2, <1>3 DEF Good, Rows, Statuses, References, Guarded, Barred

\* Leaving a cluster
LEMMA UnlinkedGood ==
    ASSUME NEW d, Good(d), NEW h \in Hosts
    PROVE  Good(Unlinked(d, h))
<1> DEFINE e  == Unlinked(d, h)
           ix == [d.index EXCEPT ![h] = 0]
<1>1. e = [[d EXCEPT !.member[h] = NoCluster] EXCEPT !.index = ix]
  BY DEF Good, Rows, Unlinked
<1> HIDE DEF ix, e
<1>2. Rows(e)
  BY <1>1 DEF Good, Rows
<1>3. Statuses(e) /\ References(e) /\ Guarded(e)
  BY <1>1 DEF Good, Rows, Statuses, References, Guarded, Barred
<1> QED
  BY <1>2, <1>3 DEF Good, e

\* Joining a cluster may bar the host itself, and the adjustment repairs it.
LEMMA AdjustedGood ==
    ASSUME NEW d, NEW h \in HostsIn(d), Rows(d), Statuses(d), References(d),
           \A g \in Hosts \ {h} : d.host[g] = "ready" => ~Barred(d, g)
    PROVE  Good(Adjusted(d, h))
<1> DEFINE e == Adjusted(d, h)
<1>0. h \in Hosts /\ d.host[h] # Absent
  BY DEF HostsIn
<1>1. CASE d.host[h] = "ready" /\ Barred(d, h)
  <2>1. e = [d EXCEPT !.host[h] = "almostready"]
    BY <1>1 DEF Adjusted, Transition
  <2>2. Rows(e)
    BY <2>1 DEF Rows
  <2> QED
    BY StatusNames, <2>1, <2>2, <1>0
       DEF Good, Rows, Statuses, References, Guarded, Barred, Absent
<1>2. CASE d.host[h] = "almostready" /\ ~Barred(d, h)
  <2>1. e = [d EXCEPT !.host[h] = "ready", !.advertise[h] = TRUE]
    BY <1>2 DEF Adjusted, Transition
  <2>2. Rows(e)
    BY <2>1 DEF Rows
  <2> QED
    BY StatusNames, <2>1, <2>2, <1>0, <1>2
       DEF Good, Rows, Statuses, References, Guarded, Barred, Absent
<1>3. CASE /\ ~(d.host[h] = "ready" /\ Barred(d, h))
           /\ ~(d.host[h] = "almostready" /\ ~Barred(d, h))
  <2>1. e = d
    BY <1>3 DEF Adjusted
  <2> QED
    BY <2>1, <1>3 DEF Good, Guarded
<1> QED
  BY <1>1, <1>2, <1>3

\* cluster, from any cluster or none
LEMMA JoinGood ==
    ASSUME NEW d, Good(d), NEW h \in HostsIn(d), NEW c \in ClustersIn(d),
           NEW e \in Join(d, h, c)
    PROVE  Good(e)
<1> DEFINE left == Unlinked(d, h)
           new  == Linked(left, h, c)
<1>1. CASE d.member[h] = c
  BY <1>1 DEF Join
<1>2. CASE d.member[h] # c
  <2>1. e = Adjusted(new, h)
    BY <1>2 DEF Join
  <2>2. Good(left) /\ h \in Hosts /\ c \in Clusters /\ c # NoCluster
    BY UnlinkedGood, LifecycleAssumption DEF HostsIn, ClustersIn
  <2>3. /\ d.host[h] # Absent /\ d.cluster[c] # Absent
        /\ left.host = d.host /\ left.cluster = d.cluster
    BY DEF HostsIn, ClustersIn, Unlinked, Good, Rows
  <2> DEFINE free == FreeIndex(left, c)
  <2>4. new = [left EXCEPT !.member[h] = c, !.index[h] = free]
    BY DEF Linked
  <2> HIDE DEF free, left, new
  <2>5. Rows(new)
    BY <2>2, <2>4 DEF Good, Rows
  <2>6. /\ new.host = left.host /\ new.cluster = left.cluster /\ new.vm = left.vm
        /\ new.member = [left.member EXCEPT ![h] = c]
    BY <2>4, <2>2 DEF Good, Rows
  <2>7. References(new)
    BY <2>2, <2>3, <2>6 DEF Good, Rows, Statuses, References
  <2>8. \A g \in Hosts \ {h} : new.host[g] = "ready" => ~Barred(new, g)
    BY <2>2, <2>6 DEF Good, Rows, Guarded, Barred
  <2>9. h \in HostsIn(new)
    BY <2>2, <2>3, <2>6 DEF HostsIn
  <2>10. Statuses(new)
    BY <2>2, <2>6 DEF Good, Statuses
  <2> QED
    BY <2>1, <2>5, <2>7, <2>8, <2>9, <2>10, AdjustedGood
<1> QED
  BY <1>1, <1>2

\* cluster, for every host and cluster
LEMMA ClusterGood ==
    ASSUME NEW d, Good(d), NEW e \in ClusterResults(d)
    PROVE  Good(e)
<1> PICK h \in HostsIn(d), c \in ClustersIn(d) : e \in Join(d, h, c)
  BY DEF ClusterResults
<1> QED
  BY JoinGood

\* uncluster
LEMMA UnclusterGood ==
    ASSUME NEW d, Good(d), NEW e \in UnclusterResults(d)
    PROVE  Good(e)
BY UnlinkedGood DEF UnclusterResults, HostsIn

\* A VM may move to any cluster that exists.
LEMMA PlacedGood ==
    ASSUME NEW d, Good(d), NEW v \in VMs, NEW c \in ClustersIn(d) \cup {NoCluster}
    PROVE  Good([d EXCEPT !.vm[v] = c])
<1> DEFINE e == [d EXCEPT !.vm[v] = c]
<1>1. Rows(e)
  BY DEF Good, Rows, ClustersIn
<1> QED
  BY <1>1 DEF Good, Rows, Statuses, References, Guarded, Barred, ClustersIn

\* add_machine, update_machine and del_machine
LEMMA MachineGood ==
    ASSUME NEW d, Good(d),
           NEW e \in AddMachineResults(d) \cup UpdateMachineResults(d)
                        \cup DelMachineResults(d)
    PROVE  Good(e)
<1> PICK v \in VMs, c \in ClustersIn(d) \cup {NoCluster} : e = [d EXCEPT !.vm[v] = c]
  <2>1. CASE e \in AddMachineResults(d)
    BY <2>1 DEF AddMachineResults, Placements, VMsOf
  <2>2. CASE e \in UpdateMachineResults(d)
    BY <2>2 DEF UpdateMachineResults, Placements
  <2>3. CASE e \in DelMachineResults(d)
    BY <2>3 DEF DelMachineResults
  <2> QED
    BY <2>1, <2>2, <2>3
<1> QED
  BY PlacedGood

-----------------------------------------------------------------------------
\* The inductive invariant
IInv == Good(db)

\* The empty database is good.
LEMMA InitGood == Init => IInv
<1> SUFFICES ASSUME Init PROVE IInv
  OBVIOUS
<1> QED
  BY DEF IInv, Init, Good, Rows, Statuses, References, Guarded, Barred, Absent

\* Every command keeps the database good.
LEMMA NextGood == IInv /\ [Next]_db => IInv'
<1> SUFFICES ASSUME Good(db), [Next]_db PROVE Good(db')
  BY DEF IInv
<1>1. CASE ChangeStatus
  BY <1>1, StatusGood DEF ChangeStatus
<1>2. CASE Make
  BY <1>2, StatusGood DEF Make, MakeResults
<1>3. CASE ChangeClusterStatus
  BY <1>3, ClusterStatusGood DEF ChangeClusterStatus
<1>4. CASE ResetAdvertised
  BY <1>4, ResetGood DEF ResetAdvertised
<1>5. CASE AddHost
  BY <1>5, AddHostGood DEF AddHost
<1>6. CASE DelHost
  BY <1>6, DelHostGood DEF DelHost
<1>7. CASE AddCluster
  BY <1>7, AddClusterGood DEF AddCluster
<1>8. CASE DelCluster
  BY <1>8, DelClusterGood DEF DelCluster
<1>9. CASE Cluster
  BY <1>9, ClusterGood DEF Cluster
<1>10. CASE Uncluster
  BY <1>10, UnclusterGood DEF Uncluster
<1>11. CASE AddMachine \/ UpdateMachine \/ DelMachine
  BY <1>11, MachineGood DEF AddMachine, UpdateMachine, DelMachine
<1>12. CASE UNCHANGED db
  BY <1>12
<1> QED
  BY <1>1, <1>2, <1>3, <1>4, <1>5, <1>6, <1>7, <1>8, <1>9, <1>10, <1>11, <1>12
     DEF Next

\* A step of the hosts along the transition table
Legal(d, e) ==
    \A h \in HostsIn(d) :
        e.host[h] \notin {d.host[h], Absent} => e.host[h] \in HostTransitions[d.host[h]]

\* What the code relies on in the table: where a host may become ready it may
\* become almostready instead, and every host may be decommissioned.
LEMMA TableFacts ==
    /\ \A s \in HostStatus :
        /\ "ready" \in HostTransitions[s]
            => s = "almostready" \/ "almostready" \in HostTransitions[s]
        /\ s = "decommissioned" \/ "decommissioned" \in HostTransitions[s]
    /\ "ready" \in HostTransitions["almostready"]
    /\ "almostready" \in HostTransitions["ready"]
BY DEF HostStatus, HostTransitions

\* change_status --hostname and make: the barrier may stop the host one step
\* before ready.
LEMMA StatusLegal ==
    ASSUME NEW d, Good(d), NEW e \in ChangeStatusResults(d)
    PROVE  Legal(d, e)
<1> PICK h \in HostsIn(d), s \in HostRequests :
        CanTransition(d, h, s) /\ e = Transition(d, h, s)
  BY DEF ChangeStatusResults
<1>1. s = d.host[h] \/ s \in HostTransitions[d.host[h]]
  BY DEF CanTransition
<1>2. d.host[h] \in HostStatus /\ h \in Hosts
  BY DEF Good, Statuses, HostsIn
<1>3. e.host = [d.host EXCEPT ![h] = IF s = "ready" /\ s # d.host[h] /\ Barred(d, h)
                                     THEN "almostready" ELSE s]
  BY DEF Transition, Good, Rows
<1> QED
  BY <1>1, <1>2, <1>3, TableFacts DEF Legal, HostsIn, Good, Rows

\* change_status --cluster: promotions, demotions and decommissions
LEMMA ClusterStatusLegal ==
    ASSUME NEW d, Good(d), NEW e \in ChangeClusterStatusResults(d)
    PROVE  Legal(d, e)
<1> PICK c \in ClustersIn(d), s \in ClusterStatus : e = ClusterTransition(d, c, s)
  BY DEF ChangeClusterStatusResults
<1>1. e.host = [h \in Hosts |-> HostStatusAfter(d, c, s, h)]
  BY DEF ClusterTransition, Good, Rows
<1>2. \A h \in HostsIn(d) : h \in Hosts /\ d.host[h] \in HostStatus
  BY DEF Good, Statuses, HostsIn
<1>3. \A h \in Hosts : h \in Promoted(d, c, s) => d.host[h] = "almostready"
  BY DEF Promoted
<1>4. \A h \in Hosts : h \in Demoted(d, c, s) => d.host[h] = "ready"
  BY DEF Demoted
<1> QED
  BY <1>1, <1>2, <1>3, <1>4, TableFacts DEF Legal, HostStatusAfter

\* cluster: the adjustment of the host that joins
LEMMA ClusterLegal ==
    ASSUME NEW d, Good(d), NEW e \in ClusterResults(d)
    PROVE  Legal(d, e)
<1> PICK h \in HostsIn(d), c \in ClustersIn(d) : e \in Join(d, h, c)
  BY DEF ClusterResults
<1>1. CASE e = d
  BY <1>1 DEF Legal
<1>2. CASE e # d
  <2> DEFINE left == Unlinked(d, h)
             new  == Linked(left, h, c)
  <2>1. e = Adjusted(new, h)
    BY <1>2 DEF Join
  <2>2. Good(left) /\ h \in Hosts /\ left.host = d.host
    <3>1. h \in Hosts
      BY DEF HostsIn
    <3>2. left.host = d.host
      BY DEF Unlinked, Good, Rows
    <3> QED
      BY <3>1, <3>2, UnlinkedGood
  <2> DEFINE free == FreeIndex(left, c)
  <2>3. new = [left EXCEPT !.member[h] = c, !.index[h] = free]
    BY DEF Linked
  <2> HIDE DEF free, left, new
  <2>4. new.host = d.host /\ Rows(new)
    <3>1. Rows(left)
      BY <2>2 DEF Good
    <3>2. c \in Clusters
      BY DEF ClustersIn
    <3> QED
      BY <2>2, <2>3, <3>1, <3>2 DEF Rows
  <2>5. \/ e.host = new.host
        \/ d.host[h] = "ready" /\ e.host = [new.host EXCEPT ![h] = "almostready"]
        \/ d.host[h] = "almostready" /\ e.host = [new.host EXCEPT ![h] = "ready"]
    BY <2>1, <2>4 DEF Adjusted, Transition, Rows
  <2> QED
    BY <2>2, <2>4, <2>5, TableFacts DEF Legal, HostsIn, Rows
<1> QED
  BY <1>1, <1>2

\* Every command moves the hosts it finds along the table.
LEMMA NextLegal == IInv /\ Next => Legal(db, db')
<1> SUFFICES ASSUME Good(db), Next PROVE Legal(db, db')
  BY DEF IInv
<1> DEFINE same == db'.host = db.host
<1>0. same => Legal(db, db')
  BY DEF Legal
<1>1. CASE ChangeStatus
  BY <1>1, StatusLegal DEF ChangeStatus
<1>2. CASE Make
  BY <1>0, <1>2, StatusLegal DEF Make, MakeResults
<1>3. CASE ChangeClusterStatus
  BY <1>3, ClusterStatusLegal DEF ChangeClusterStatus
<1>4. CASE ResetAdvertised
  <2> PICK H : db' = [db EXCEPT !.advertise = [h \in Hosts |-> db.advertise[h] /\ h \notin H]]
    BY <1>4 DEF ResetAdvertised, ResetAdvertisedResults
  <2> DEFINE ad == [h \in Hosts |-> db.advertise[h] /\ h \notin H]
  <2>1. db' = [db EXCEPT !.advertise = ad]
    OBVIOUS
  <2> HIDE DEF ad
  <2> QED
    BY <1>0, <2>1 DEF Good, Rows
<1>5. CASE AddHost
  <2> PICK g \in Hosts, s \in NewHostStatus :
        db.host[g] = Absent /\ db' = [db EXCEPT !.host[g] = s, !.advertise[g] = FALSE]
    BY <1>5 DEF AddHost, AddHostResults, HostsIn
  <2> QED
    BY DEF Legal, HostsIn, Good, Rows
<1>6. CASE DelHost
  <2> PICK g \in Hosts : db' = [db EXCEPT !.host[g] = Absent, !.advertise[g] = FALSE]
    BY <1>6 DEF DelHost, DelHostResults, HostsIn
  <2> QED
    BY DEF Legal, HostsIn, Good, Rows
<1>7. CASE AddCluster \/ DelCluster
  <2> PICK c \in Clusters, s \in ClusterStatus \cup {Absent} : db' = [db EXCEPT !.cluster[c] = s]
    BY <1>7
       DEF AddCluster, AddClusterResults, DelCluster, DelClusterResults, ClustersIn
  <2> QED
    BY <1>0 DEF Good, Rows
<1>8. CASE Cluster
  BY <1>8, ClusterLegal DEF Cluster
<1>9. CASE Uncluster
  <2> PICK g \in Hosts : db' = Unlinked(db, g)
    BY <1>9 DEF Uncluster, UnclusterResults, HostsIn
  <2> QED
    BY <1>0 DEF Unlinked, Good, Rows
<1>10. CASE AddMachine \/ UpdateMachine \/ DelMachine
  <2> PICK v \in VMs, c \in Clusters \cup {NoCluster} : db' = [db EXCEPT !.vm[v] = c]
    <3>1. CASE AddMachine
      BY <3>1 DEF AddMachine, AddMachineResults, Placements, VMsOf, ClustersIn
    <3>2. CASE UpdateMachine
      BY <3>2 DEF UpdateMachine, UpdateMachineResults, Placements, ClustersIn
    <3>3. CASE DelMachine
      BY <3>3 DEF DelMachine, DelMachineResults
    <3> QED
      BY <1>10, <3>1, <3>2, <3>3
  <2> QED
    BY <1>0 DEF Good, Rows
<1> QED
  BY <1>1, <1>2, <1>3, <1>4, <1>5, <1>6, <1>7, <1>8, <1>9, <1>10 DEF Next

\* The committed rows are good in every reachable state.
THEOREM AlwaysGood == Spec => []IInv
BY InitGood, NextGood, PTL DEF Spec

\* Barrier: whatever commands run one after the other (change_status of hosts
\* and clusters, make, cluster, uncluster, add and del), no host is ready in a
\* cluster that is not.
THEOREM BarrierHolds == Spec => []Barrier
<1>1. IInv => Barrier
  BY DEF IInv, Good, Guarded, Barrier, HostsIn
<1> QED
  BY <1>1, AlwaysGood, PTL

\* Referential integrity: del_host, del_cluster and the moves never leave a
\* membership or a placement that refers to a row that is gone.
THEOREM NoDanglingRowsHolds == Spec => []NoDanglingRows
<1>1. IInv => NoDanglingRows
  BY LifecycleAssumption
     DEF IInv, Good, Rows, Statuses, References, NoDanglingRows, HostsIn, ClustersIn
<1> QED
  BY <1>1, AlwaysGood, PTL

\* Whatever command runs, and whether it is about the host, its cluster or its
\* membership, every host that stays moves along an edge of the transition
\* table or not at all.
THEOREM LegalStepsHold == Spec => LegalHostSteps
<1>1. IInv /\ [Next]_db => [Legal(db, db')]_db
  BY NextLegal
<1> QED
  BY <1>1, AlwaysGood, PTL DEF Spec, LegalHostSteps, Legal

-----------------------------------------------------------------------------
(* The limits of clusters and the node indexes.                             *)

Unique(d) ==
    \A g, h \in Hosts : (g # h /\ d.member[g] = d.member[h] /\ d.member[h] # NoCluster)
                            => d.index[g] # d.index[h]

Limited(d) ==
    /\ d.index \in [Hosts -> Nat]
    /\ \A c \in Clusters : Valid(d, c)
    /\ Unique(d)

\* Limits and indexes depend on three columns only.
LEMMA SameColumns ==
    ASSUME NEW d, NEW e, Limited(d),
           e.member = d.member, e.index = d.index, e.vm = d.vm
    PROVE  Limited(e)
<1>1. \A c \in Clusters : Members(e, c) = Members(d, c) /\ VMsOf(e, c) = VMsOf(d, c)
  BY DEF Members, VMsOf
<1> QED
  BY <1>1 DEF Limited, Unique, Valid

LEMMA LeastNumber ==
    ASSUME NEW S \in SUBSET Nat, S # {}
    PROVE  Min(S) \in S
<1> DEFINE less == OpToRel(<, Nat)
<1>1. \A i, j \in Nat : <<i, j>> \in less <=> i < j
  BY DEF OpToRel
<1>2. IsWellFoundedOn(less, Nat)
  BY NatLessThanWellFounded
<1> HIDE DEF less
<1>3. PICK i \in S : \A j \in S : <<j, i>> \notin less
  BY <1>2, WFMin
<1>4. ASSUME NEW j \in S
      PROVE  i <= j
  <2>1. i \in Nat /\ j \in Nat
    OBVIOUS
  <2>2. ~(j < i)
    BY <1>1, <1>3, <2>1
  <2> QED
    BY <2>1, <2>2
<1> QED
  BY <1>4 DEF Min

\* The smallest free index is one that no member uses.
LEMMA FreeIndexIsFree ==
    ASSUME NEW d, d.index \in [Hosts -> Nat], NEW c
    PROVE  /\ FreeIndex(d, c) \in Nat
           /\ \A h \in Members(d, c) : d.index[h] # FreeIndex(d, c)
<1> DEFINE M == Members(d, c)
           n == Cardinality(M)
           used == {d.index[h] : h \in M}
           free == (0 .. n) \ used
<1>1. M \subseteq Hosts /\ IsFiniteSet(M) /\ n \in Nat
  <2>1. M \subseteq Hosts
    BY DEF Members
  <2>2. IsFiniteSet(M)
    BY <2>1, LifecycleAssumption, FS_Subset
  <2> QED
    BY <2>1, <2>2, FS_CardinalityType
<1>2. IsFiniteSet(used) /\ Cardinality(used) <= n
  <2> DEFINE f == [h \in M |-> d.index[h]]
  <2>1. f \in Surjection(M, used)
    BY DEF Surjection
  <2> QED
    BY <1>1, <2>1, FS_Surjection
<1> HIDE DEF M, n, used
<1>3. free # {}
  <2> SUFFICES ASSUME 0 .. n \subseteq used
               PROVE  FALSE
    OBVIOUS
  <2>1. IsFiniteSet(0 .. n) /\ Cardinality(0 .. n) = n + 1
    BY <1>1, FS_Interval
  <2>2. Cardinality(0 .. n) <= Cardinality(used)
    BY <1>2, FS_Subset
  <2>3. Cardinality(used) \in Nat
    BY <1>2, FS_CardinalityType
  <2> QED
    BY <1>1, <1>2, <2>1, <2>2, <2>3
<1>4. free \subseteq Nat
  BY <1>1
<1>5. Min(free) \in free
  BY <1>3, <1>4, LeastNumber
<1>6. FreeIndex(d, c) = Min(free)
  BY DEF FreeIndex, M, n, used
<1> QED
  BY <1>4, <1>5, <1>6 DEF M, used

\* A transition of a host leaves memberships alone.
LEMMA TransitionColumns ==
    ASSUME NEW d, Rows(d), NEW h, NEW s
    PROVE  /\ Transition(d, h, s).member = d.member
           /\ Transition(d, h, s).index = d.index
           /\ Transition(d, h, s).vm = d.vm
BY DEF Transition, Rows

LEMMA AdjustedColumns ==
    ASSUME NEW d, Rows(d), NEW h
    PROVE  /\ Adjusted(d, h).member = d.member
           /\ Adjusted(d, h).index = d.index
           /\ Adjusted(d, h).vm = d.vm
BY TransitionColumns DEF Adjusted

\* Leaving a cluster: the only limits that change are those of that cluster.
LEMMA UnlinkedColumns ==
    ASSUME NEW d, Rows(d), d.index \in [Hosts -> Nat], NEW h \in Hosts
    PROVE  /\ Unlinked(d, h).member = [d.member EXCEPT ![h] = NoCluster]
           /\ Unlinked(d, h).index = [d.index EXCEPT ![h] = 0]
           /\ Unlinked(d, h).vm = d.vm
           /\ \A c \in Clusters : c # d.member[h] =>
                Members(Unlinked(d, h), c) = Members(d, c)
<1> DEFINE e == Unlinked(d, h)
<1>1. /\ e.member = [d.member EXCEPT ![h] = NoCluster]
      /\ e.index = [d.index EXCEPT ![h] = 0]
      /\ e.vm = d.vm
  BY DEF Unlinked, Rows
<1>2. \A c \in Clusters : c # NoCluster
  BY LifecycleAssumption
<1> HIDE DEF e
<1>3. \A c \in Clusters : c # d.member[h] => Members(e, c) = Members(d, c)
  BY <1>1, <1>2 DEF Members, Rows
<1> QED
  BY <1>1, <1>3 DEF e

LEMMA UnlinkedLimited ==
    ASSUME NEW d, Rows(d), Limited(d), NEW h \in Hosts,
           d.member[h] # NoCluster => Valid(Unlinked(d, h), d.member[h])
    PROVE  Limited(Unlinked(d, h))
<1> DEFINE e == Unlinked(d, h)
<1>1. /\ e.member = [d.member EXCEPT ![h] = NoCluster]
      /\ e.index = [d.index EXCEPT ![h] = 0]
      /\ e.vm = d.vm
      /\ \A c \in Clusters : c # d.member[h] => Members(e, c) = Members(d, c)
  BY UnlinkedColumns DEF Limited
<1>2. ASSUME NEW c \in Clusters
      PROVE  Valid(e, c)
  <2>1. CASE c = d.member[h]
    BY <2>1, LifecycleAssumption
  <2>2. CASE c # d.member[h]
    <3>1. Members(e, c) = Members(d, c) /\ VMsOf(e, c) = VMsOf(d, c)
      BY <1>1, <2>2 DEF VMsOf
    <3> QED
      BY <3>1 DEF Limited, Valid
  <2> QED
    BY <2>1, <2>2
<1> HIDE DEF e
<1>3. e.index \in [Hosts -> Nat] /\ Unique(e)
  BY <1>1 DEF Limited, Unique, Rows
<1> QED
  BY <1>2, <1>3 DEF Limited, e

\* Joining one: the free index keeps the members apart.
LEMMA JoinLimited ==
    ASSUME NEW d, Good(d), Limited(d), NEW h \in HostsIn(d), NEW c \in ClustersIn(d),
           NEW e \in Join(d, h, c)
    PROVE  Limited(e)
<1> DEFINE left == Unlinked(d, h)
           new  == Linked(left, h, c)
           free == FreeIndex(left, c)
<1>0. h \in Hosts /\ c \in Clusters /\ c # NoCluster /\ Rows(d)
  BY LifecycleAssumption DEF HostsIn, ClustersIn, Good
<1>1. CASE d.member[h] = c
  BY <1>1 DEF Join
<1>2. CASE d.member[h] # c
  <2>1. e = Adjusted(new, h) /\ Valid(e, c)
        /\ (d.member[h] # NoCluster => Valid(left, d.member[h]))
    BY <1>2 DEF Join
  <2>2. Limited(left) /\ Good(left)
    BY <1>0, <2>1, UnlinkedLimited, UnlinkedGood
  <2>3. left.member = [d.member EXCEPT ![h] = NoCluster]
    BY <1>0, UnlinkedColumns DEF Limited
  <2>4. free \in Nat /\ \A g \in Members(left, c) : left.index[g] # free
    BY <2>2, FreeIndexIsFree DEF Limited
  <2>5. new = [left EXCEPT !.member[h] = c, !.index[h] = free]
    BY DEF Linked
  <2> HIDE DEF left, new, free
  <2>6. /\ new.member = [left.member EXCEPT ![h] = c]
        /\ new.index = [left.index EXCEPT ![h] = free]
        /\ new.vm = left.vm
        /\ Rows(new)
    BY <1>0, <2>2, <2>5 DEF Good, Rows
  <2>7. e.member = new.member /\ e.index = new.index /\ e.vm = new.vm
    BY <2>1, <2>6, AdjustedColumns
  <2>8. left.member \in [Hosts -> Clusters \cup {NoCluster}] /\ left.index \in [Hosts -> Nat]
    BY <2>2 DEF Good, Rows, Limited
  <2>9. ASSUME NEW b \in Clusters
        PROVE  Valid(e, b)
    <3>1. CASE b = c
      BY <2>1, <3>1
    <3>2. CASE b # c
      <4>1. Members(e, b) = Members(left, b)
        BY <1>0, <2>3, <2>6, <2>7, <2>8, <3>2, LifecycleAssumption DEF Members, Good, Rows
      <4>2. VMsOf(e, b) = VMsOf(left, b)
        BY <2>6, <2>7 DEF VMsOf
      <4> QED
        BY <2>2, <4>1, <4>2 DEF Limited, Valid
    <3> QED
      BY <3>1, <3>2
  <2>10. e.index \in [Hosts -> Nat]
    BY <1>0, <2>4, <2>6, <2>7, <2>8
  <2>11. Unique(e)
    BY <1>0, <2>2, <2>4, <2>6, <2>7, <2>8 DEF Limited, Unique, Members
  <2> QED
    BY <2>9, <2>10, <2>11 DEF Limited
<1> QED
  BY <1>1, <1>2

\* A machine leaves its cluster, or enters one that stays valid.
LEMMA MachineLimited ==
    ASSUME NEW d, Good(d), Limited(d), NEW v \in VMs, NEW c \in Clusters \cup {NoCluster},
           c # NoCluster => Valid([d EXCEPT !.vm[v] = c], c)
    PROVE  Limited([d EXCEPT !.vm[v] = c])
<1> DEFINE e == [d EXCEPT !.vm[v] = c]
<1>1. e.member = d.member /\ e.index = d.index /\ e.vm = [d.vm EXCEPT ![v] = c]
  BY DEF Good, Rows
<1>2. ASSUME NEW b \in Clusters
      PROVE  Valid(e, b)
  <2>1. CASE b = c
    BY <2>1, LifecycleAssumption
  <2>2. CASE b # c
    <3> HIDE DEF e
    <3>1. Members(e, b) = Members(d, b)
      BY <1>1 DEF Members
    <3>2. VMsOf(e, b) \subseteq VMsOf(d, b)
      BY <1>1, <2>2 DEF VMsOf, Good, Rows
    <3> QED
      BY <3>1, <3>2 DEF Limited, Valid
  <2> QED
    BY <2>1, <2>2
<1> HIDE DEF e
<1>3. e.index \in [Hosts -> Nat] /\ Unique(e)
  BY <1>1 DEF Limited, Unique
<1> QED
  BY <1>2, <1>3 DEF Limited, e

-----------------------------------------------------------------------------
LimitInv == Good(db) /\ Limited(db)

LEMMA InitLimited == Init => LimitInv
<1> SUFFICES ASSUME Init PROVE LimitInv
  OBVIOUS
<1>1. Good(db)
  BY InitGood DEF IInv
<1>2. \A c \in Clusters : Members(db, c) = {} /\ VMsOf(db, c) = {}
  BY LifecycleAssumption DEF Init, Members, VMsOf
<1>3. \A c \in Clusters : Valid(db, c)
  BY <1>2, LifecycleAssumption, FS_EmptySet DEF Valid
<1> QED
  BY <1>1, <1>3 DEF Init, LimitInv, Limited, Unique

\* The commands that touch neither memberships, indexes nor placements
LEMMA OtherLimited ==
    ASSUME NEW d, Good(d), Limited(d),
           NEW e \in MakeResults(d) \cup ChangeClusterStatusResults(d)
                        \cup ResetAdvertisedResults(d) \cup AddHostResults(d)
                        \cup DelHostResults(d) \cup AddClusterResults(d)
                        \cup DelClusterResults(d)
    PROVE  Limited(e)
<1>0. Rows(d)
  BY DEF Good
<1>1. e.member = d.member /\ e.index = d.index /\ e.vm = d.vm
  <2>1. CASE e \in MakeResults(d)
    BY <1>0, <2>1, TransitionColumns DEF MakeResults, ChangeStatusResults
  <2>2. CASE e \in ChangeClusterStatusResults(d)
    <3> PICK c, s : e = ClusterTransition(d, c, s)
      BY <2>2 DEF ChangeClusterStatusResults
    <3> DEFINE ad == [h \in Hosts |-> d.advertise[h] \/ h \in Promoted(d, c, s)]
               ho == [h \in Hosts |-> HostStatusAfter(d, c, s, h)]
               cl == [d.cluster EXCEPT ![c] = s]
    <3>1. e = [[[d EXCEPT !.cluster = cl] EXCEPT !.host = ho] EXCEPT !.advertise = ad]
      BY <1>0 DEF ClusterTransition, Rows
    <3> HIDE DEF ad, ho, cl
    <3> QED
      BY <1>0, <3>1 DEF Rows
  <2>3. CASE e \in ResetAdvertisedResults(d)
    <3> PICK H : e = [d EXCEPT !.advertise = [h \in Hosts |-> d.advertise[h] /\ h \notin H]]
      BY <2>3 DEF ResetAdvertisedResults
    <3> DEFINE ad == [h \in Hosts |-> d.advertise[h] /\ h \notin H]
    <3>1. e = [d EXCEPT !.advertise = ad]
      OBVIOUS
    <3> HIDE DEF ad
    <3> QED
      BY <1>0, <3>1 DEF Rows
  <2>4. CASE e \in AddHostResults(d)
    BY <1>0, <2>4 DEF AddHostResults, Rows
  <2>5. CASE e \in DelHostResults(d)
    BY <1>0, <2>5 DEF DelHostResults, Rows
  <2>6. CASE e \in AddClusterResults(d) \cup DelClusterResults(d)
    BY <1>0, <2>6 DEF AddClusterResults, DelClusterResults, Rows
  <2> QED
    BY <2>1, <2>2, <2>3, <2>4, <2>5, <2>6
<1> QED
  BY <1>1, SameColumns

LEMMA NextLimited == LimitInv /\ [Next]_db => LimitInv'
<1> SUFFICES ASSUME Good(db), Limited(db), [Next]_db PROVE LimitInv'
  BY DEF LimitInv
<1>1. Good(db')
  BY NextGood DEF IInv
<1>2. CASE \/ Make \/ ChangeStatus \/ ChangeClusterStatus \/ ResetAdvertised
           \/ AddHost \/ DelHost \/ AddCluster \/ DelCluster
  <2>1. Limited(db')
    BY <1>2, OtherLimited DEF Make, MakeResults, ChangeStatus, ChangeClusterStatus,
       ResetAdvertised, AddHost, DelHost, AddCluster, DelCluster
  <2> QED
    BY <1>1, <2>1 DEF LimitInv
<1>3. CASE Cluster
  <2>1. Limited(db')
    BY <1>3, JoinLimited DEF Cluster, ClusterResults
  <2> QED
    BY <1>1, <2>1 DEF LimitInv
<1>4. CASE Uncluster
  <2> PICK h \in Hosts : Valid(Unlinked(db, h), db.member[h]) /\ db' = Unlinked(db, h)
    BY <1>4 DEF Uncluster, UnclusterResults, HostsIn
  <2>1. Limited(db')
    BY UnlinkedLimited DEF Good
  <2> QED
    BY <1>1, <2>1 DEF LimitInv
<1>5. CASE AddMachine \/ UpdateMachine \/ DelMachine
  <2>1. PICK v \in VMs, c \in Clusters \cup {NoCluster} :
          db' = [db EXCEPT !.vm[v] = c] /\ (c # NoCluster => Valid(db', db'.vm[v]))
    <3>1. CASE AddMachine
      BY <3>1 DEF AddMachine, AddMachineResults, Placements, VMsOf, ClustersIn
    <3>2. CASE UpdateMachine
      BY <3>2 DEF UpdateMachine, UpdateMachineResults, Placements, ClustersIn
    <3>3. CASE DelMachine
      BY <3>3 DEF DelMachine, DelMachineResults
    <3> QED
      BY <1>5, <3>1, <3>2, <3>3
  <2>2. db'.vm[v] = c
    BY <2>1 DEF Good, Rows
  <2>3. Limited(db')
    BY <2>1, <2>2, MachineLimited
  <2> QED
    BY <1>1, <2>3 DEF LimitInv
<1>6. CASE UNCHANGED db
  BY <1>6 DEF LimitInv
<1> QED
  BY <1>2, <1>3, <1>4, <1>5, <1>6 DEF Next

LEMMA AlwaysLimited == Spec => []LimitInv
BY InitLimited, NextLimited, PTL DEF Spec

\* Whatever hosts and machines move between clusters, no cluster has more hosts
\* than max_hosts, and one with virtual machines keeps more than may be down
\* (cluster.py, Cluster.validate and EsxCluster.validate).
THEOREM CapacityHolds == Spec => []Capacity
<1>1. LimitInv => Capacity
  BY DEF LimitInv, Limited, Capacity, ClustersIn
<1> QED
  BY <1>1, AlwaysLimited, PTL

\* Over any sequence of joins, moves and removals no two members of a cluster
\* share a node index, for clusters of any size.
THEOREM NodeIndexHolds == Spec => []NodeIndexUnique
<1>1. LimitInv => NodeIndexUnique
  BY DEF LimitInv, Limited, Unique, NodeIndexUnique
<1> QED
  BY <1>1, AlwaysLimited, PTL

-----------------------------------------------------------------------------
(* The advertised status.                                                   *)

Flags(d) == d.advertise = [h \in Hosts |-> d.advertise[h]]

\* Who is ready after a step, and was not or was advertised, is advertised.
Shown(d, e) ==
    \A h \in HostsIn(d) :
        (e.host[h] = "ready" /\ (d.host[h] # "ready" \/ d.advertise[h])) => e.advertise[h]

Keeps(d, e) == Flags(e) /\ Shown(d, e)

LEMMA SameFlags ==
    ASSUME NEW d, NEW e, Flags(d), e.host = d.host, e.advertise = d.advertise
    PROVE  Keeps(d, e)
BY DEF Flags, Shown, Keeps

\* A transition that makes a host ready advertises it.
LEMMA TransitionKeeps ==
    ASSUME NEW d, Rows(d), Flags(d), NEW h \in Hosts, NEW s
    PROVE  Keeps(d, Transition(d, h, s))
<1> DEFINE e == Transition(d, h, s)
<1>1. CASE s = "ready" /\ s # d.host[h] /\ ~Barred(d, h)
  <2>1. e.advertise = [d.advertise EXCEPT ![h] = TRUE] /\ e.host = [d.host EXCEPT ![h] = s]
    BY <1>1 DEF Transition, Rows
  <2> HIDE DEF e
  <2>2. e.advertise[h] = TRUE /\ \A g \in Hosts : g # h => e.advertise[g] = d.advertise[g]
    BY <2>1 DEF Flags
  <2>3. Flags(e)
    BY <2>1 DEF Flags
  <2>4. \A g \in Hosts : g # h => e.host[g] = d.host[g]
    BY <2>1 DEF Rows
  <2>5. Shown(d, e)
    BY <2>2, <2>4 DEF Shown, HostsIn
  <2> QED
    BY <2>3, <2>5 DEF Keeps, e
<1>2. CASE ~(s = "ready" /\ s # d.host[h] /\ ~Barred(d, h))
  <2> DEFINE t == IF s = "ready" /\ s # d.host[h] THEN "almostready" ELSE s
  <2>0. e = [d EXCEPT !.host[h] = t]
    BY <1>2 DEF Transition
  <2>1. /\ e.host = [d.host EXCEPT ![h] = t]
        /\ e.advertise = d.advertise
        /\ t = "ready" => d.host[h] = "ready"
    BY <2>0 DEF Rows
  <2> HIDE DEF e, t
  <2>2. \A g \in Hosts : e.host[g] = IF g = h THEN t ELSE d.host[g]
    BY <2>1 DEF Rows
  <2>3. Shown(d, e)
    BY <2>1, <2>2 DEF Shown, HostsIn
  <2> QED
    BY <2>1, <2>3 DEF Keeps, Flags, e
<1> QED
  BY <1>1, <1>2

LEMMA ClusterTransitionKeeps ==
    ASSUME NEW d, Rows(d), Flags(d), NEW c, NEW s
    PROVE  Keeps(d, ClusterTransition(d, c, s))
<1> DEFINE e == ClusterTransition(d, c, s)
           ad == [h \in Hosts |-> d.advertise[h] \/ h \in Promoted(d, c, s)]
           ho == [h \in Hosts |-> HostStatusAfter(d, c, s, h)]
           cl == [d.cluster EXCEPT ![c] = s]
<1>1. e = [[[d EXCEPT !.cluster = cl] EXCEPT !.host = ho] EXCEPT !.advertise = ad]
  BY DEF ClusterTransition, Rows
<1>2. \A h \in Hosts : ho[h] = HostStatusAfter(d, c, s, h)
  OBVIOUS
<1>3. \A h \in Hosts : (d.advertise[h] \/ h \in Promoted(d, c, s)) => ad[h]
  OBVIOUS
<1>4. ad = [h \in Hosts |-> ad[h]]
  OBVIOUS
<1> HIDE DEF ad, ho, cl, e
<1>5. e.host = ho /\ e.advertise = ad
  BY <1>1 DEF Rows
<1>6. \A h \in Hosts : (HostStatusAfter(d, c, s, h) = "ready" /\ h \notin Promoted(d, c, s))
                           => d.host[h] = "ready"
  BY DEF HostStatusAfter, Demoted
<1>7. Shown(d, e)
  BY <1>2, <1>3, <1>5, <1>6 DEF Shown, HostsIn
<1> QED
  BY <1>4, <1>5, <1>7 DEF Keeps, Flags, e

LEMMA ResetKeeps ==
    ASSUME NEW d, Rows(d), Flags(d), NEW e \in ResetAdvertisedResults(d)
    PROVE  Keeps(d, e)
<1> PICK H \in SUBSET {h \in HostsIn(d) : d.host[h] # "ready"} :
        e = [d EXCEPT !.advertise = [h \in Hosts |-> d.advertise[h] /\ h \notin H]]
  BY DEF ResetAdvertisedResults
<1> DEFINE ad == [h \in Hosts |-> d.advertise[h] /\ h \notin H]
<1>1. e = [d EXCEPT !.advertise = ad]
  OBVIOUS
<1>2. \A h \in Hosts : (d.advertise[h] /\ h \notin H) => ad[h]
  OBVIOUS
<1>3. ad = [h \in Hosts |-> ad[h]]
  OBVIOUS
<1> HIDE DEF ad
<1>4. e.host = d.host /\ e.advertise = ad
  BY <1>1 DEF Rows
<1> QED
  BY <1>2, <1>3, <1>4 DEF Keeps, Flags, Shown, HostsIn

\* add_host and del_host: the host that changes was not there, or is gone.
LEMMA HostKeeps ==
    ASSUME NEW d, Rows(d), Flags(d), NEW e \in AddHostResults(d) \cup DelHostResults(d)
    PROVE  Keeps(d, e)
<1> PICK h, s :
        /\ h \in Hosts
        /\ e = [d EXCEPT !.host[h] = s, !.advertise[h] = FALSE]
        /\ d.host[h] = Absent \/ s = Absent
  BY DEF AddHostResults, DelHostResults, HostsIn
<1>1. e.host = [d.host EXCEPT ![h] = s] /\ e.advertise = [d.advertise EXCEPT ![h] = FALSE]
  BY DEF Rows
<1>2. \A g \in Hosts : g # h => e.host[g] = d.host[g] /\ e.advertise[g] = d.advertise[g]
  BY <1>1 DEF Rows, Flags
<1>3. e.host[h] = s
  BY <1>1 DEF Rows
<1>4. Flags(e)
  BY <1>1 DEF Flags
<1>5. Shown(d, e)
  BY <1>2, <1>3 DEF Shown, HostsIn, Absent
<1> QED
  BY <1>4, <1>5 DEF Keeps

\* cluster: the adjustment is a transition.
LEMMA JoinKeeps ==
    ASSUME NEW d, Good(d), Flags(d), NEW h \in HostsIn(d), NEW c \in ClustersIn(d),
           NEW e \in Join(d, h, c)
    PROVE  Keeps(d, e)
<1> DEFINE left == Unlinked(d, h)
           new  == Linked(left, h, c)
           free == FreeIndex(left, c)
<1>0. h \in Hosts /\ c \in Clusters /\ Rows(d)
  BY DEF HostsIn, ClustersIn, Good
<1>1. CASE d.member[h] = c
  BY <1>1, SameFlags DEF Join
<1>2. CASE d.member[h] # c
  <2>1. e = Adjusted(new, h)
    BY <1>2 DEF Join
  <2>2. Rows(left)
    BY <1>0, UnlinkedGood DEF Good
  <2>3. left.host = d.host /\ left.advertise = d.advertise
    BY <1>0 DEF Unlinked, Rows
  <2>4. new = [left EXCEPT !.member[h] = c, !.index[h] = free]
    BY DEF Linked
  <2> HIDE DEF left, new, free
  <2>5. Rows(new) /\ new.host = d.host /\ new.advertise = d.advertise
    BY <1>0, <2>2, <2>3, <2>4 DEF Rows
  <2>6. Flags(new)
    BY <2>5 DEF Flags
  <2>7. Keeps(new, e)
    BY <1>0, <2>1, <2>5, <2>6, TransitionKeeps, SameFlags DEF Adjusted
  <2> QED
    BY <2>5, <2>7 DEF Keeps, Shown, HostsIn
<1> QED
  BY <1>1, <1>2

FlagInv == Good(db) /\ Flags(db)

LEMMA NextKeeps == FlagInv /\ Next => Keeps(db, db')
<1> SUFFICES ASSUME Good(db), Flags(db), Next PROVE Keeps(db, db')
  BY DEF FlagInv
<1>0. Rows(db)
  BY DEF Good
<1>1. CASE ChangeStatus \/ Make
  BY <1>0, <1>1, TransitionKeeps, SameFlags
     DEF ChangeStatus, Make, MakeResults, ChangeStatusResults, HostsIn
<1>2. CASE ChangeClusterStatus
  BY <1>0, <1>2, ClusterTransitionKeeps DEF ChangeClusterStatus, ChangeClusterStatusResults
<1>3. CASE ResetAdvertised
  BY <1>0, <1>3, ResetKeeps DEF ResetAdvertised
<1>4. CASE AddHost \/ DelHost
  BY <1>0, <1>4, HostKeeps DEF AddHost, DelHost
<1>5. CASE Cluster
  BY <1>5, JoinKeeps DEF Cluster, ClusterResults
<1>6. CASE AddCluster \/ DelCluster \/ Uncluster \/ AddMachine \/ UpdateMachine \/ DelMachine
  <2>1. db'.host = db.host /\ db'.advertise = db.advertise
    <3>1. CASE AddCluster \/ DelCluster
      BY <1>0, <3>1 DEF AddCluster, AddClusterResults, DelCluster, DelClusterResults, Rows
    <3>2. CASE Uncluster
      BY <1>0, <3>2 DEF Uncluster, UnclusterResults, Unlinked, Rows
    <3>3. CASE AddMachine \/ UpdateMachine
      BY <1>0, <3>3 DEF AddMachine, AddMachineResults, UpdateMachine, UpdateMachineResults,
         Placements, Rows
    <3>4. CASE DelMachine
      BY <1>0, <3>4 DEF DelMachine, DelMachineResults, Rows
    <3> QED
      BY <1>6, <3>1, <3>2, <3>3, <3>4
  <2> QED
    BY <2>1, SameFlags
<1> QED
  BY <1>1, <1>2, <1>3, <1>4, <1>5, <1>6 DEF Next

\* A host that turns ready is advertised and stays so while it is ready, whether
\* its own command, its cluster's or a reset comes next (hostlifecycle.py,
\* Ready.onEnter; reset_advertised_status).
THEOREM AdvertisedHolds == Spec => ReadyKeepsAdvertised
<1>1. Init => FlagInv
  BY InitGood DEF Init, FlagInv, Flags, IInv
<1>2. FlagInv /\ [Next]_db => FlagInv'
  <2> SUFFICES ASSUME FlagInv, [Next]_db PROVE FlagInv'
    OBVIOUS
  <2>1. Good(db)'
    BY NextGood DEF FlagInv, IInv
  <2>2. Flags(db)'
    BY NextKeeps DEF FlagInv, Keeps
  <2> QED
    BY <2>1, <2>2 DEF FlagInv
<1>3. FlagInv /\ [Next]_db => [Shown(db, db')]_db
  BY NextKeeps DEF Keeps
<1> QED
  BY <1>1, <1>2, <1>3, PTL DEF Spec, ReadyKeepsAdvertised, Shown

-----------------------------------------------------------------------------
(* Concurrent sessions.                                                     *)

\* The rows of the database; sessions place no machines.
Typed(d) ==
    /\ d \in [ host      : [Hosts -> HostStatus \cup {Absent}],
               advertise : [Hosts -> BOOLEAN],
               member    : [Hosts -> Clusters \cup {NoCluster}],
               index     : [Hosts -> Nat],
               cluster   : [Clusters -> ClusterStatus \cup {Absent}],
               vm        : [VMs -> Clusters \cup {NoCluster}] ]
    /\ \A v \in VMs : d.vm[v] = NoCluster

\* What the schema sees to with or without the barrier: members exist, and rows
\* that are gone have left nothing behind.
Tidy(d) ==
    /\ Typed(d)
    /\ \A h \in Hosts : d.member[h] # NoCluster =>
            d.host[h] # Absent /\ d.cluster[d.member[h]] # Absent
    /\ \A h \in Hosts : d.host[h] = Absent => d.advertise[h] = FALSE
    /\ \A h \in Hosts : d.member[h] = NoCluster => d.index[h] = 0

\* A node index changes only with the membership, and no machine moves.
Related(d, e) ==
    /\ e.vm = d.vm
    /\ \A h \in Hosts : e.member[h] = d.member[h] => e.index[h] = d.index[h]

\* What a session may send
Sendable(s) ==
    /\ s \in [ host      : [Hosts -> HostStatus \cup {Absent, Keep}],
               advertise : [Hosts -> BOOLEAN \cup {Keep}],
               member    : [Hosts -> Clusters \cup {NoCluster, Keep}],
               index     : [Hosts -> Nat \cup {Keep}],
               was       : [Hosts -> Clusters \cup {NoCluster, Keep}],
               cluster   : [Clusters -> ClusterStatus \cup {Absent, Keep}],
               inserts   : SUBSET (Hosts \cup Clusters),
               gone      : SUBSET Clusters,
               stale     : BOOLEAN ]
    /\ \A h \in Hosts :
        /\ s.member[h] = NoCluster => s.index[h] = 0
        /\ s.member[h] \in Clusters => s.index[h] \in Nat

\* Columns that are sent to the rows they were computed from
LEMMA AppliedChanges ==
    ASSUME NEW S, NEW T, NEW f \in [S -> T], NEW g \in [S -> T], Keep \notin T
    PROVE  /\ Applied(f, Changed(f, g)) = g
           /\ Changed(f, g) \in [S -> T \cup {Keep}]
<1> DEFINE w == Changed(f, g)
<1>1. w = [x \in S |-> IF g[x] = f[x] THEN Keep ELSE g[x]]
  BY DEF Changed
<1>2. Applied(f, w) = [x \in S |-> IF w[x] = Keep THEN f[x] ELSE w[x]]
  BY DEF Applied
<1>3. \A x \in S : g[x] \in T
  OBVIOUS
<1> HIDE DEF w
<1>4. \A x \in S : (IF w[x] = Keep THEN f[x] ELSE w[x]) = g[x]
  BY <1>1, <1>3
<1>5. g = [x \in S |-> g[x]]
  OBVIOUS
<1>6. Applied(f, w) = g
  BY <1>2, <1>4, <1>5
<1>7. w \in [S -> T \cup {Keep}]
  BY <1>1, <1>3
<1> QED
  BY <1>6, <1>7 DEF w

\* Columns that are sent to any other rows stay in their type.
LEMMA AppliedTyped ==
    ASSUME NEW S, NEW T, NEW f \in [S -> T], NEW w \in [S -> T \cup {Keep}]
    PROVE  Applied(f, w) \in [S -> T]
BY DEF Applied

\* Keep is no value of a column.
LEMMA KeepNames ==
    /\ Keep \notin HostStatus \cup {Absent}
    /\ Keep \notin ClusterStatus \cup {Absent}
    /\ Keep \notin Clusters \cup {NoCluster}
    /\ Keep \notin BOOLEAN
BY SessionsAssumption

\* What a command computes can be sent.
LEMMA WritesSendable ==
    ASSUME NEW d, NEW e, Tidy(d), Tidy(e)
    PROVE  /\ Sendable(Writes(d, e))
           /\ Writes(d, e).stale = FALSE
<1> DEFINE s == Writes(d, e)
           moved == {h \in Hosts : e.member[h] # d.member[h]}
<1>1. /\ s.host = Changed(d.host, e.host) /\ s.advertise = Changed(d.advertise, e.advertise)
      /\ s.member = Changed(d.member, e.member)
      /\ s.cluster = Changed(d.cluster, e.cluster)
      /\ s.index = [h \in Hosts |-> IF h \in moved THEN e.index[h] ELSE Keep]
      /\ s.was = [h \in Hosts |-> IF h \in moved THEN d.member[h] ELSE Keep]
      /\ s.inserts = (HostsIn(e) \ HostsIn(d)) \cup (ClustersIn(e) \ ClustersIn(d))
      /\ s.gone = {} /\ s.stale = FALSE
  BY DEF Writes
<1>2. s.host \in [Hosts -> HostStatus \cup {Absent, Keep}]
  <2> DEFINE T == HostStatus \cup {Absent}
  <2>1. d.host \in [Hosts -> T] /\ e.host \in [Hosts -> T] /\ Keep \notin T
    BY KeepNames DEF Tidy, Typed
  <2> HIDE DEF T
  <2>2. s.host \in [Hosts -> T \cup {Keep}]
    BY <1>1, <2>1, AppliedChanges
  <2> QED
    BY <2>2 DEF T
<1>3. s.advertise \in [Hosts -> BOOLEAN \cup {Keep}]
  BY <1>1, AppliedChanges, KeepNames DEF Tidy, Typed
<1>4. s.member \in [Hosts -> Clusters \cup {NoCluster, Keep}]
  <2> DEFINE T == Clusters \cup {NoCluster}
  <2>1. d.member \in [Hosts -> T] /\ e.member \in [Hosts -> T] /\ Keep \notin T
    BY KeepNames DEF Tidy, Typed
  <2> HIDE DEF T
  <2>2. s.member \in [Hosts -> T \cup {Keep}]
    BY <1>1, <2>1, AppliedChanges
  <2> QED
    BY <2>2 DEF T
<1>5. s.cluster \in [Clusters -> ClusterStatus \cup {Absent, Keep}]
  <2> DEFINE T == ClusterStatus \cup {Absent}
  <2>1. d.cluster \in [Clusters -> T] /\ e.cluster \in [Clusters -> T] /\ Keep \notin T
    BY KeepNames DEF Tidy, Typed
  <2> HIDE DEF T
  <2>2. s.cluster \in [Clusters -> T \cup {Keep}]
    BY <1>1, <2>1, AppliedChanges
  <2> QED
    BY <2>2 DEF T
<1>6. s.index \in [Hosts -> Nat \cup {Keep}] /\ s.was \in [Hosts -> Clusters \cup {NoCluster, Keep}]
  BY <1>1 DEF Tidy, Typed
<1>7. s.inserts \in SUBSET (Hosts \cup Clusters)
  BY <1>1 DEF HostsIn, ClustersIn
<1>8. \A h \in Hosts : s.member[h] # Keep => h \in moved /\ s.member[h] = e.member[h]
  BY <1>1 DEF Changed, Tidy, Typed
<1>9. \A h \in Hosts :
        /\ s.member[h] = NoCluster => s.index[h] = 0
        /\ s.member[h] \in Clusters => s.index[h] \in Nat
  BY <1>1, <1>8, KeepNames DEF Tidy, Typed
<1>10. s = [host |-> s.host, advertise |-> s.advertise, member |-> s.member,
            index |-> s.index, was |-> s.was, cluster |-> s.cluster,
            inserts |-> s.inserts, gone |-> s.gone, stale |-> s.stale]
  BY DEF Writes
<1> HIDE DEF s, moved
<1>11. s \in [ host      : [Hosts -> HostStatus \cup {Absent, Keep}],
               advertise : [Hosts -> BOOLEAN \cup {Keep}],
               member    : [Hosts -> Clusters \cup {NoCluster, Keep}],
               index     : [Hosts -> Nat \cup {Keep}],
               was       : [Hosts -> Clusters \cup {NoCluster, Keep}],
               cluster   : [Clusters -> ClusterStatus \cup {Absent, Keep}],
               inserts   : SUBSET (Hosts \cup Clusters),
               gone      : SUBSET Clusters,
               stale     : BOOLEAN ]
  <2>1. s.gone \in SUBSET Clusters /\ s.stale \in BOOLEAN
    BY <1>1
  <2> QED
    BY <1>2, <1>3, <1>4, <1>5, <1>6, <1>7, <1>10, <2>1
<1> QED
  BY <1>1, <1>9, <1>11 DEF Sendable, s

\* The rows before cascading
Sends(d, s) == {h \in Hosts : \/ s.member[h] \in Clusters
                              \/ s.member[h] = NoCluster /\ LinkStands(d, s, h)}

Raw(d, s) ==
    [d EXCEPT
            !.host = Applied(d.host, s.host),
            !.advertise = Applied(d.advertise, s.advertise),
            !.member = [h \in Hosts |-> IF h \in Sends(d, s) THEN s.member[h] ELSE d.member[h]],
            !.index = [h \in Hosts |-> IF h \in Sends(d, s) THEN s.index[h] ELSE d.index[h]],
            !.cluster = Applied(d.cluster, s.cluster)]

\* The columns of the rows before cascading
LEMMA RawColumns ==
    ASSUME NEW d, NEW s, Typed(d)
    PROVE  /\ Merged(d, s) = Cascade(Raw(d, s))
           /\ Raw(d, s) =
                [host |-> Applied(d.host, s.host),
                 advertise |-> Applied(d.advertise, s.advertise),
                 member |-> [h \in Hosts |-> IF h \in Sends(d, s) THEN s.member[h] ELSE d.member[h]],
                 index |-> [h \in Hosts |-> IF h \in Sends(d, s) THEN s.index[h] ELSE d.index[h]],
                 cluster |-> Applied(d.cluster, s.cluster),
                 vm |-> d.vm]
<1>1. Merged(d, s) = Cascade(Raw(d, s))
  BY DEF Merged, Raw, Sends
<1> DEFINE ho == Applied(d.host, s.host)
           ad == Applied(d.advertise, s.advertise)
           me == [h \in Hosts |-> IF h \in Sends(d, s) THEN s.member[h] ELSE d.member[h]]
           ix == [h \in Hosts |-> IF h \in Sends(d, s) THEN s.index[h] ELSE d.index[h]]
           cl == Applied(d.cluster, s.cluster)
<1>2. Raw(d, s) = [d EXCEPT !.host = ho, !.advertise = ad, !.member = me,
                            !.index = ix, !.cluster = cl]
  BY DEF Raw
<1> HIDE DEF ho, ad, me, ix, cl
<1>3. Raw(d, s) = [host |-> ho, advertise |-> ad, member |-> me, index |-> ix,
                   cluster |-> cl, vm |-> d.vm]
  BY <1>2 DEF Typed
<1> QED
  BY <1>1, <1>3 DEF ho, ad, me, ix, cl

\* The rows that go with others
Out(d) == {h \in Hosts : \/ d.host[h] = Absent
                         \/ d.member[h] # NoCluster /\ d.cluster[d.member[h]] = Absent}

\* The columns of the rows after cascading
LEMMA CascadeColumns ==
    ASSUME NEW d, Typed(d)
    PROVE  Cascade(d) =
            [host |-> d.host,
             advertise |-> [h \in Hosts |-> d.advertise[h] /\ d.host[h] # Absent],
             member |-> [h \in Hosts |-> IF h \in Out(d) THEN NoCluster ELSE d.member[h]],
             index |-> [h \in Hosts |-> IF h \in Out(d) THEN 0 ELSE d.index[h]],
             cluster |-> d.cluster,
             vm |-> d.vm]
<1> DEFINE ad == [h \in Hosts |-> d.advertise[h] /\ d.host[h] # Absent]
           me == [h \in Hosts |-> IF h \in Out(d) THEN NoCluster ELSE d.member[h]]
           ix == [h \in Hosts |-> IF h \in Out(d) THEN 0 ELSE d.index[h]]
<1>1. Cascade(d) = [d EXCEPT !.advertise = ad, !.member = me, !.index = ix]
  BY DEF Cascade, Out
<1> HIDE DEF ad, me, ix
<1>2. Cascade(d) = [host |-> d.host, advertise |-> ad, member |-> me, index |-> ix,
                    cluster |-> d.cluster, vm |-> d.vm]
  BY <1>1 DEF Typed
<1> QED
  BY <1>2 DEF ad, me, ix

\* Whatever is sent to whatever rows, ON DELETE CASCADE leaves no loose end.
LEMMA CascadeTidy ==
    ASSUME NEW d, Typed(d), \A h \in Hosts : d.member[h] = NoCluster => d.index[h] = 0
    PROVE  Tidy(Cascade(d))
<1> DEFINE e == Cascade(d)
<1>1. e = [host |-> d.host,
             advertise |-> [h \in Hosts |-> d.advertise[h] /\ d.host[h] # Absent],
             member |-> [h \in Hosts |-> IF h \in Out(d) THEN NoCluster ELSE d.member[h]],
             index |-> [h \in Hosts |-> IF h \in Out(d) THEN 0 ELSE d.index[h]],
             cluster |-> d.cluster,
             vm |-> d.vm]
  BY CascadeColumns
<1> HIDE DEF e
<1>2. Typed(e)
  BY <1>1 DEF Typed
<1>3. \A h \in Hosts : e.member[h] # NoCluster =>
            e.host[h] # Absent /\ e.cluster[e.member[h]] # Absent
  BY <1>1 DEF Out
<1>4. \A h \in Hosts : e.host[h] = Absent => e.advertise[h] = FALSE
  BY <1>1
<1>5. \A h \in Hosts : e.member[h] = NoCluster => e.index[h] = 0
  BY <1>1
<1> QED
  BY <1>2, <1>3, <1>4, <1>5 DEF Tidy, e

\* The rows before cascading have the types of rows.
LEMMA RawTyped ==
    ASSUME NEW d, NEW s, Tidy(d), Sendable(s)
    PROVE  Typed(Raw(d, s))
<1> DEFINE e == Raw(d, s)
<1>1. e = [host |-> Applied(d.host, s.host),
           advertise |-> Applied(d.advertise, s.advertise),
           member |-> [h \in Hosts |-> IF h \in Sends(d, s) THEN s.member[h] ELSE d.member[h]],
           index |-> [h \in Hosts |-> IF h \in Sends(d, s) THEN s.index[h] ELSE d.index[h]],
           cluster |-> Applied(d.cluster, s.cluster),
           vm |-> d.vm]
  BY RawColumns DEF Tidy
<1>2. Applied(d.host, s.host) \in [Hosts -> HostStatus \cup {Absent}]
  <2>1. s.host \in [Hosts -> (HostStatus \cup {Absent}) \cup {Keep}]
    BY DEF Sendable
  <2> QED
    BY <2>1, AppliedTyped DEF Tidy, Typed
<1>3. Applied(d.advertise, s.advertise) \in [Hosts -> BOOLEAN]
  BY AppliedTyped DEF Tidy, Typed, Sendable
<1>4. Applied(d.cluster, s.cluster) \in [Clusters -> ClusterStatus \cup {Absent}]
  <2>1. s.cluster \in [Clusters -> (ClusterStatus \cup {Absent}) \cup {Keep}]
    BY DEF Sendable
  <2> QED
    BY <2>1, AppliedTyped DEF Tidy, Typed
<1>5. \A h \in Sends(d, s) : s.member[h] \in Clusters \cup {NoCluster} /\ s.index[h] \in Nat
  BY DEF Sends, Sendable
<1> HIDE DEF e
<1>6. e.member \in [Hosts -> Clusters \cup {NoCluster}] /\ e.index \in [Hosts -> Nat]
  BY <1>1, <1>5 DEF Tidy, Typed
<1>7. Typed(e)
  BY <1>1, <1>2, <1>3, <1>4, <1>6 DEF Tidy, Typed
<1> QED
  BY <1>7 DEF e

\* Whatever a session sends, on rows however much changed, leaves tidy rows.
LEMMA MergedTidy ==
    ASSUME NEW d, NEW s, Tidy(d), Sendable(s)
    PROVE  Tidy(Merged(d, s))
<1> DEFINE e == Raw(d, s)
<1>1. e = [host |-> Applied(d.host, s.host),
           advertise |-> Applied(d.advertise, s.advertise),
           member |-> [h \in Hosts |-> IF h \in Sends(d, s) THEN s.member[h] ELSE d.member[h]],
           index |-> [h \in Hosts |-> IF h \in Sends(d, s) THEN s.index[h] ELSE d.index[h]],
           cluster |-> Applied(d.cluster, s.cluster),
           vm |-> d.vm]
  BY RawColumns DEF Tidy
<1>7. Typed(e)
  BY RawTyped
<1> HIDE DEF e
<1>8. \A h \in Hosts : e.member[h] = NoCluster => e.index[h] = 0
  BY <1>1 DEF Tidy, Sendable
<1>9. Tidy(Cascade(e))
  BY <1>7, <1>8, CascadeTidy
<1> QED
  BY <1>9, RawColumns DEF Tidy, e

\* Sent to the rows it was computed from, a session's work is what it computed.
LEMMA MergedFresh ==
    ASSUME NEW d, NEW e, Tidy(d), Tidy(e), Related(d, e)
    PROVE  Merged(d, Writes(d, e)) = e
<1> DEFINE s == Writes(d, e)
           moved == {h \in Hosts : e.member[h] # d.member[h]}
<1>1. /\ s.host = Changed(d.host, e.host) /\ s.advertise = Changed(d.advertise, e.advertise)
      /\ s.member = Changed(d.member, e.member)
      /\ s.cluster = Changed(d.cluster, e.cluster)
      /\ s.index = [h \in Hosts |-> IF h \in moved THEN e.index[h] ELSE Keep]
      /\ s.was = [h \in Hosts |-> IF h \in moved THEN d.member[h] ELSE Keep]
      /\ s.gone = {}
  BY DEF Writes
<1> HIDE DEF s
<1>2. Sends(d, s) = moved
  BY <1>1, KeepNames DEF Sends, LinkStands, Changed, Tidy, Typed
<1>3. Applied(d.host, s.host) = e.host
  <2> DEFINE T == HostStatus \cup {Absent}
  <2>1. d.host \in [Hosts -> T] /\ e.host \in [Hosts -> T] /\ Keep \notin T
    BY KeepNames DEF Tidy, Typed
  <2> HIDE DEF T
  <2> QED
    BY <1>1, <2>1, AppliedChanges
<1>4. Applied(d.advertise, s.advertise) = e.advertise
  BY <1>1, AppliedChanges, KeepNames DEF Tidy, Typed
<1>5. Applied(d.cluster, s.cluster) = e.cluster
  <2> DEFINE T == ClusterStatus \cup {Absent}
  <2>1. d.cluster \in [Clusters -> T] /\ e.cluster \in [Clusters -> T] /\ Keep \notin T
    BY KeepNames DEF Tidy, Typed
  <2> HIDE DEF T
  <2> QED
    BY <1>1, <2>1, AppliedChanges
<1>6. [h \in Hosts |-> IF h \in Sends(d, s) THEN s.member[h] ELSE d.member[h]] = e.member
  BY <1>1, <1>2 DEF Changed, Tidy, Typed
<1>7. [h \in Hosts |-> IF h \in Sends(d, s) THEN s.index[h] ELSE d.index[h]] = e.index
  <2>1. \A h \in Hosts : (IF h \in moved THEN s.index[h] ELSE d.index[h]) = e.index[h]
    BY <1>1 DEF Related
  <2>2. e.index = [h \in Hosts |-> e.index[h]]
    BY DEF Tidy, Typed
  <2> QED
    BY <1>2, <2>1, <2>2
<1>8. e = [host |-> e.host, advertise |-> e.advertise, member |-> e.member,
           index |-> e.index, cluster |-> e.cluster, vm |-> d.vm]
  BY DEF Tidy, Typed, Related
<1>9. Raw(d, s) = e
  BY <1>3, <1>4, <1>5, <1>6, <1>7, <1>8, RawColumns DEF Tidy
<1>10. Cascade(e) = e
  <2>1. \A h \in Hosts : e.host[h] # Absent => (e.advertise[h] /\ e.host[h] # Absent) = e.advertise[h]
    BY Zenon DEF Tidy, Typed
  <2> DEFINE ad == [h \in Hosts |-> e.advertise[h] /\ e.host[h] # Absent]
  <2>2. \A h \in Hosts : ad[h] = e.advertise[h]
    BY DEF Tidy, Typed
  <2>3. ad = e.advertise
    <3>1. ad = [h \in Hosts |-> ad[h]] /\ e.advertise = [h \in Hosts |-> e.advertise[h]]
      BY DEF Tidy, Typed
    <3> HIDE DEF ad
    <3> QED
      BY <2>2, <3>1
  <2>4. \A h \in Out(e) : e.member[h] = NoCluster /\ e.index[h] = 0
    BY DEF Out, Tidy
  <2>5. [h \in Hosts |-> IF h \in Out(e) THEN NoCluster ELSE e.member[h]] = e.member
    BY <2>4 DEF Tidy, Typed
  <2>6. [h \in Hosts |-> IF h \in Out(e) THEN 0 ELSE e.index[h]] = e.index
    BY <2>4 DEF Tidy, Typed
  <2>7. e = [host |-> e.host, advertise |-> e.advertise, member |-> e.member,
             index |-> e.index, cluster |-> e.cluster, vm |-> e.vm]
    BY DEF Tidy, Typed
  <2> QED
    BY <2>3, <2>5, <2>6, <2>7, CascadeColumns DEF Tidy
<1> QED
  BY <1>9, <1>10, RawColumns DEF s, Tidy
\* A command leaves tidy rows, and touches indexes only with memberships.
Fine(d, e) == Tidy(e) /\ Related(d, e)

\* Only the status or the advertised status of hosts that exist changes.
LEMMA StatusFine ==
    ASSUME NEW d, NEW ho, NEW ad, NEW cl, Tidy(d),
           ho \in [Hosts -> HostStatus \cup {Absent}], ad \in [Hosts -> BOOLEAN],
           cl \in [Clusters -> ClusterStatus \cup {Absent}],
           \A h \in Hosts : ho[h] = Absent => ad[h] = FALSE,
           \A h \in Hosts : d.member[h] # NoCluster =>
                ho[h] # Absent /\ cl[d.member[h]] # Absent
    PROVE  Fine(d, [host |-> ho, advertise |-> ad, member |-> d.member,
                    index |-> d.index, cluster |-> cl, vm |-> d.vm])
BY DEF Fine, Related, Tidy, Typed

\* change_status --hostname and make
LEMMA TransitionFine ==
    ASSUME NEW d, Tidy(d), NEW h \in HostsIn(d), NEW s \in HostRequests
    PROVE  Fine(d, Transition(d, h, s))
<1> DEFINE e == Transition(d, h, s)
<1>1. s \in HostStatus /\ h \in Hosts /\ d.host[h] # Absent
  BY LifecycleAssumption DEF HostsIn
<1>2. PICK r \in HostStatus, a \in BOOLEAN :
        e = [host |-> [d.host EXCEPT ![h] = r], advertise |-> [d.advertise EXCEPT ![h] = a],
             member |-> d.member, index |-> d.index, cluster |-> d.cluster, vm |-> d.vm]
  <2>1. d.advertise = [d.advertise EXCEPT ![h] = d.advertise[h]] /\ d.advertise[h] \in BOOLEAN
    BY <1>1 DEF Tidy, Typed
  <2>2. CASE s = "ready" /\ s # d.host[h] /\ ~Barred(d, h)
    <3>1. e = [host |-> [d.host EXCEPT ![h] = s], advertise |-> [d.advertise EXCEPT ![h] = TRUE],
             member |-> d.member, index |-> d.index, cluster |-> d.cluster, vm |-> d.vm]
      BY <2>2 DEF Transition, Tidy, Typed
    <3> QED
      BY <1>1, <3>1
  <2>3. CASE ~(s = "ready" /\ s # d.host[h] /\ ~Barred(d, h))
    <3>1. PICK r \in HostStatus : e = [d EXCEPT !.host[h] = r]
      BY <1>1, <2>3, StatusNames DEF Transition
    <3>2. e = [host |-> [d.host EXCEPT ![h] = r], advertise |-> d.advertise,
             member |-> d.member, index |-> d.index, cluster |-> d.cluster, vm |-> d.vm]
      BY <3>1 DEF Tidy, Typed
    <3> QED
      BY <2>1, <3>2
  <2> QED
    BY <2>2, <2>3
<1> DEFINE ho == [d.host EXCEPT ![h] = r]
           ad == [d.advertise EXCEPT ![h] = a]
<1>3. ho \in [Hosts -> HostStatus \cup {Absent}] /\ ad \in [Hosts -> BOOLEAN]
  BY DEF Tidy, Typed
<1>4. \A g \in Hosts : ho[g] = Absent => d.host[g] = Absent /\ g # h
  BY <1>1, StatusNames DEF Tidy, Typed
<1>5. \A g \in Hosts : ho[g] = Absent => ad[g] = FALSE
  BY <1>4 DEF Tidy, Typed
<1>6. d.cluster \in [Clusters -> ClusterStatus \cup {Absent}]
  BY DEF Tidy, Typed
<1>7. \A g \in Hosts : d.member[g] # NoCluster => ho[g] # Absent /\ d.cluster[d.member[g]] # Absent
  BY <1>4 DEF Tidy
<1>8. e = [host |-> ho, advertise |-> ad, member |-> d.member, index |-> d.index,
           cluster |-> d.cluster, vm |-> d.vm]
  BY <1>2
<1> HIDE DEF ho, ad, e
<1>9. Fine(d, e)
  BY <1>3, <1>5, <1>6, <1>7, <1>8, StatusFine
<1> QED
  BY <1>9 DEF e

\* change_status --cluster
LEMMA ClusterStatusFine ==
    ASSUME NEW d, Tidy(d), NEW c \in ClustersIn(d), NEW s \in ClusterStatus
    PROVE  Fine(d, ClusterTransition(d, c, s))
<1> DEFINE ad == [h \in Hosts |-> d.advertise[h] \/ h \in Promoted(d, c, s)]
           ho == [h \in Hosts |-> HostStatusAfter(d, c, s, h)]
           cl == [d.cluster EXCEPT ![c] = s]
           e  == ClusterTransition(d, c, s)
<1>0. c \in Clusters /\ d.cluster[c] # Absent /\ s # Absent /\ c # NoCluster
  BY LifecycleAssumption DEF ClustersIn, ClusterStatus, ClusterTransitions, Absent
<1>1. ho \in [Hosts -> HostStatus \cup {Absent}]
  BY StatusNames DEF HostStatusAfter, Tidy, Typed
<1>2. ad \in [Hosts -> BOOLEAN] /\ cl \in [Clusters -> ClusterStatus \cup {Absent}]
  BY DEF Tidy, Typed
<1>3. \A h \in Hosts : ho[h] = Absent => d.host[h] = Absent /\ h \notin Promoted(d, c, s)
  BY StatusNames DEF HostStatusAfter, Promoted, Absent
<1>4. \A h \in Hosts : ho[h] = Absent => ad[h] = FALSE
  BY <1>3 DEF Tidy
<1>5. \A h \in Hosts : d.member[h] # NoCluster => ho[h] # Absent /\ cl[d.member[h]] # Absent
  BY <1>0, <1>3 DEF Tidy, Typed
<1>6. e = [[[d EXCEPT !.cluster = cl] EXCEPT !.host = ho] EXCEPT !.advertise = ad]
  BY DEF ClusterTransition, Tidy, Typed
<1> HIDE DEF ad, ho, cl, e
<1>7. e = [host |-> ho, advertise |-> ad, member |-> d.member, index |-> d.index,
           cluster |-> cl, vm |-> d.vm]
  BY <1>6 DEF Tidy, Typed
<1>8. Fine(d, e)
  BY <1>1, <1>2, <1>4, <1>5, <1>7, StatusFine
<1> QED
  BY <1>8 DEF e

\* reset_advertised_status
LEMMA ResetFine ==
    ASSUME NEW d, Tidy(d), NEW e \in ResetAdvertisedResults(d)
    PROVE  Fine(d, e)
<1> PICK H : e = [d EXCEPT !.advertise = [h \in Hosts |-> d.advertise[h] /\ h \notin H]]
  BY DEF ResetAdvertisedResults
<1> DEFINE ad == [h \in Hosts |-> d.advertise[h] /\ h \notin H]
<1>1. e = [d EXCEPT !.advertise = ad]
  OBVIOUS
<1>2. ad \in [Hosts -> BOOLEAN]
  OBVIOUS
<1>3. \A h \in Hosts : d.host[h] = Absent => ad[h] = FALSE
  BY DEF Tidy
<1> HIDE DEF ad
<1>4. e = [host |-> d.host, advertise |-> ad, member |-> d.member, index |-> d.index,
           cluster |-> d.cluster, vm |-> d.vm]
  BY <1>1 DEF Tidy, Typed
<1>5. /\ d.host \in [Hosts -> HostStatus \cup {Absent}]
      /\ d.cluster \in [Clusters -> ClusterStatus \cup {Absent}]
  BY DEF Tidy, Typed
<1>6. \A h \in Hosts : d.member[h] # NoCluster => d.host[h] # Absent /\ d.cluster[d.member[h]] # Absent
  BY DEF Tidy
<1> DEFINE ho == d.host
           cl == d.cluster
<1>7. /\ ho \in [Hosts -> HostStatus \cup {Absent}]
      /\ cl \in [Clusters -> ClusterStatus \cup {Absent}]
      /\ \A h \in Hosts : ho[h] = Absent => ad[h] = FALSE
      /\ \A h \in Hosts : d.member[h] # NoCluster => ho[h] # Absent /\ cl[d.member[h]] # Absent
      /\ e = [host |-> ho, advertise |-> ad, member |-> d.member, index |-> d.index,
              cluster |-> cl, vm |-> d.vm]
  BY <1>3, <1>4, <1>5, <1>6
<1> HIDE DEF ho, cl, ad
<1>8. Fine(d, [host |-> ho, advertise |-> ad, member |-> d.member, index |-> d.index,
               cluster |-> cl, vm |-> d.vm])
  BY <1>2, <1>7, StatusFine
<1> QED
  BY <1>7, <1>8

\* add_host and del_host: a host that is not there was a member of nothing, and
\* a member is not deleted.
LEMMA HostFine ==
    ASSUME NEW d, Tidy(d), NEW e \in AddHostResults(d) \cup DelHostResults(d)
    PROVE  Fine(d, e)
<1>1. PICK h, s :
        /\ h \in Hosts /\ s \in HostStatus \cup {Absent}
        /\ d.member[h] = NoCluster
        /\ e = [d EXCEPT !.host[h] = s, !.advertise[h] = FALSE]
  <2>1. CASE e \in AddHostResults(d)
    <3>1. PICK h \in Hosts, s \in NewHostStatus : d.host[h] = Absent
                /\ e = [d EXCEPT !.host[h] = s, !.advertise[h] = FALSE]
      BY <2>1 DEF AddHostResults, HostsIn
    <3> QED
      BY <3>1, LifecycleAssumption DEF Tidy
  <2>2. CASE e \in DelHostResults(d)
    BY <2>2 DEF DelHostResults, HostsIn
  <2> QED
    BY <2>1, <2>2
<1> DEFINE ho == [d.host EXCEPT ![h] = s]
           ad == [d.advertise EXCEPT ![h] = FALSE]
<1>2. e = [host |-> ho, advertise |-> ad, member |-> d.member, index |-> d.index,
           cluster |-> d.cluster, vm |-> d.vm]
  BY <1>1 DEF Tidy, Typed
<1>3. ho \in [Hosts -> HostStatus \cup {Absent}] /\ ad \in [Hosts -> BOOLEAN]
  BY <1>1 DEF Tidy, Typed
<1>4. \A g \in Hosts : ho[g] = Absent => ad[g] = FALSE
  BY <1>1 DEF Tidy, Typed
<1>5. d.cluster \in [Clusters -> ClusterStatus \cup {Absent}]
  BY DEF Tidy, Typed
<1>6. \A g \in Hosts : d.member[g] # NoCluster => ho[g] # Absent /\ d.cluster[d.member[g]] # Absent
  BY <1>1 DEF Tidy, Typed
<1> HIDE DEF ho, ad
<1> QED
  BY <1>2, <1>3, <1>4, <1>5, <1>6, StatusFine

\* add_cluster and del_cluster: no member refers to the cluster.
LEMMA RowOfClusterFine ==
    ASSUME NEW d, Tidy(d), NEW e \in AddClusterResults(d) \cup DelClusterResults(d)
    PROVE  Fine(d, e)
<1>1. PICK c, s :
        /\ c \in Clusters /\ s \in ClusterStatus \cup {Absent}
        /\ \A h \in Hosts : d.member[h] # c
        /\ e = [d EXCEPT !.cluster[c] = s]
  <2>1. CASE e \in AddClusterResults(d)
    <3>1. PICK c \in Clusters, s \in ClusterStatus :
                d.cluster[c] = Absent /\ e = [d EXCEPT !.cluster[c] = s]
      BY <2>1 DEF AddClusterResults, ClustersIn
    <3> QED
      BY <3>1, LifecycleAssumption DEF Tidy
  <2>2. CASE e \in DelClusterResults(d)
    BY <2>2 DEF DelClusterResults, ClustersIn, Members
  <2> QED
    BY <2>1, <2>2
<1> DEFINE cl == [d.cluster EXCEPT ![c] = s]
<1>2. e = [host |-> d.host, advertise |-> d.advertise, member |-> d.member, index |-> d.index,
           cluster |-> cl, vm |-> d.vm]
  BY <1>1 DEF Tidy, Typed
<1>3. cl \in [Clusters -> ClusterStatus \cup {Absent}]
  BY <1>1 DEF Tidy, Typed
<1>4. \A h \in Hosts : d.member[h] # NoCluster => d.host[h] # Absent /\ cl[d.member[h]] # Absent
  BY <1>1 DEF Tidy, Typed
<1>5. d.host \in [Hosts -> HostStatus \cup {Absent}] /\ d.advertise \in [Hosts -> BOOLEAN]
  BY DEF Tidy, Typed
<1>6. \A h \in Hosts : d.host[h] = Absent => d.advertise[h] = FALSE
  BY DEF Tidy
<1> HIDE DEF cl
<1> QED
  BY <1>2, <1>3, <1>4, <1>5, <1>6, StatusFine

\* Leaving a cluster gives the node index back.
LEMMA UnlinkedFine ==
    ASSUME NEW d, Tidy(d), NEW h \in Hosts
    PROVE  /\ Tidy(Unlinked(d, h))
           /\ Unlinked(d, h).vm = d.vm /\ Unlinked(d, h).host = d.host
           /\ Unlinked(d, h).cluster = d.cluster
           /\ Unlinked(d, h).member = [d.member EXCEPT ![h] = NoCluster]
           /\ Unlinked(d, h).index = [d.index EXCEPT ![h] = 0]
<1> DEFINE e == Unlinked(d, h)
<1>1. e = [host |-> d.host, advertise |-> d.advertise,
           member |-> [d.member EXCEPT ![h] = NoCluster],
           index |-> [d.index EXCEPT ![h] = 0], cluster |-> d.cluster, vm |-> d.vm]
  <2> DEFINE me == [d.member EXCEPT ![h] = NoCluster]
             ix == [d.index EXCEPT ![h] = 0]
  <2>1. e = [d EXCEPT !.member = me, !.index = ix]
    BY DEF Unlinked, Tidy, Typed
  <2> HIDE DEF me, ix, e
  <2>2. e = [host |-> d.host, advertise |-> d.advertise, member |-> me, index |-> ix,
             cluster |-> d.cluster, vm |-> d.vm]
    BY <2>1 DEF Tidy, Typed
  <2> QED
    BY <2>2 DEF me, ix
<1> HIDE DEF e
<1>2. Typed(e)
  BY <1>1 DEF Tidy, Typed
<1>3. Tidy(e)
  BY <1>1, <1>2 DEF Tidy, Typed
<1> QED
  BY <1>1, <1>3 DEF e

\* cluster: a host that stays where it is stays as it is.
LEMMA JoinFine ==
    ASSUME NEW d, Tidy(d), NEW h \in HostsIn(d), NEW c \in ClustersIn(d),
           NEW e \in Join(d, h, c)
    PROVE  Fine(d, e)
<1> DEFINE left == Unlinked(d, h)
           new  == Linked(left, h, c)
           free == FreeIndex(left, c)
<1>0. h \in Hosts /\ c \in Clusters /\ c # NoCluster /\ d.host[h] # Absent /\ d.cluster[c] # Absent
  BY LifecycleAssumption DEF HostsIn, ClustersIn
<1>1. CASE d.member[h] = c
  <2>1. e = d
    BY <1>1 DEF Join
  <2> QED
    BY <2>1 DEF Fine, Related
<1>2. CASE d.member[h] # c
  <2>1. e = Adjusted(new, h)
    BY <1>2 DEF Join
  <2>2. /\ Tidy(left) /\ left.vm = d.vm /\ left.host = d.host /\ left.cluster = d.cluster
        /\ left.member = [d.member EXCEPT ![h] = NoCluster]
        /\ left.index = [d.index EXCEPT ![h] = 0]
    BY <1>0, UnlinkedFine
  <2> HIDE DEF left
  <2>3. free \in Nat
    BY <2>2, FreeIndexIsFree DEF Tidy, Typed
  <2>4. new = [left EXCEPT !.member[h] = c, !.index[h] = free]
    BY DEF Linked
  <2> HIDE DEF free, new
  <2>5. new = [host |-> d.host, advertise |-> left.advertise,
               member |-> [d.member EXCEPT ![h] = c],
               index |-> [d.index EXCEPT ![h] = free], cluster |-> d.cluster, vm |-> d.vm]
    BY <1>0, <2>2, <2>4 DEF Tidy, Typed
  <2>6. Typed(new)
    BY <1>0, <2>2, <2>3, <2>5 DEF Tidy, Typed
  <2>7. \A g \in Hosts : new.member[g] # NoCluster =>
            new.host[g] # Absent /\ new.cluster[new.member[g]] # Absent
    BY <1>0, <2>5 DEF Tidy, Typed
  <2>8. \A g \in Hosts : new.host[g] = Absent => new.advertise[g] = FALSE
    BY <2>2, <2>5 DEF Tidy
  <2>9. \A g \in Hosts : new.member[g] = NoCluster => new.index[g] = 0
    BY <1>0, <2>5 DEF Tidy, Typed
  <2>10. Tidy(new)
    BY <2>6, <2>7, <2>8, <2>9 DEF Tidy
  <2>11. Related(d, new)
    BY <1>0, <1>2, <2>5 DEF Related, Tidy, Typed
  <2>12. PICK r \in {"almostready", "ready"} : e = new \/ e = Transition(new, h, r)
    BY <2>1 DEF Adjusted
  <2>13. CASE e = new
    BY <2>10, <2>11, <2>13 DEF Fine
  <2>14. CASE e # new
    <3>1. PICK st \in HostStatus, a \in BOOLEAN :
        e = [host |-> [new.host EXCEPT ![h] = st], advertise |-> [new.advertise EXCEPT ![h] = a],
             member |-> new.member, index |-> new.index, cluster |-> new.cluster, vm |-> new.vm]
      <4>1. new.advertise = [new.advertise EXCEPT ![h] = new.advertise[h]]
                /\ new.advertise[h] \in BOOLEAN
        BY <1>0, <2>6 DEF Typed
      <4>2. CASE r = "ready" /\ r # new.host[h] /\ ~Barred(new, h)
        <5>1. e = [host |-> [new.host EXCEPT ![h] = r],
                   advertise |-> [new.advertise EXCEPT ![h] = TRUE],
                   member |-> new.member, index |-> new.index, cluster |-> new.cluster,
                   vm |-> new.vm]
          BY <2>6, <2>12, <2>14, <4>2 DEF Transition, Typed
        <5> QED
          BY <5>1, StatusNames
      <4>3. CASE ~(r = "ready" /\ r # new.host[h] /\ ~Barred(new, h))
        <5>1. PICK st \in HostStatus : e = [new EXCEPT !.host[h] = st]
          BY <2>12, <2>14, <4>3, StatusNames DEF Transition
        <5>2. e = [host |-> [new.host EXCEPT ![h] = st], advertise |-> new.advertise,
                   member |-> new.member, index |-> new.index, cluster |-> new.cluster,
                   vm |-> new.vm]
          BY <5>1, <2>6 DEF Typed
        <5> QED
          BY <4>1, <5>2
      <4> QED
        BY <4>2, <4>3
    <3>2. Typed(e)
      BY <2>6, <3>1 DEF Typed
    <3>3. \A g \in Hosts : e.host[g] = Absent => new.host[g] = Absent /\ g # h
      BY <2>6, <3>1, <1>0, StatusNames DEF Typed
    <3>4. Tidy(e)
      BY <2>10, <3>1, <3>2, <3>3 DEF Tidy, Typed
    <3> QED
      BY <2>11, <3>1, <3>4 DEF Fine, Related
  <2> QED
    BY <2>13, <2>14
<1> QED
  BY <1>1, <1>2

\* Every command a session may run
LEMMA ResultsFine ==
    ASSUME NEW d, Tidy(d), NEW e \in Results(d)
    PROVE  Fine(d, e)
<1>0. Fine(d, d)
  BY DEF Fine, Related
<1>1. CASE e \in ChangeStatusResults(d) \cup MakeResults(d)
  BY <1>0, <1>1, TransitionFine DEF ChangeStatusResults, MakeResults
<1>2. CASE e \in ChangeClusterStatusResults(d)
  BY <1>2, ClusterStatusFine DEF ChangeClusterStatusResults
<1>3. CASE e \in ResetAdvertisedResults(d)
  BY <1>3, ResetFine
<1>4. CASE e \in AddHostResults(d) \cup DelHostResults(d)
  BY <1>4, HostFine
<1>5. CASE e \in AddClusterResults(d) \cup DelClusterResults(d)
  BY <1>5, RowOfClusterFine
<1>6. CASE e \in ClusterResults(d)
  BY <1>6, JoinFine DEF ClusterResults
<1>7. CASE e \in UnclusterResults(d)
  <2>1. PICK h \in Hosts : d.member[h] # NoCluster /\ e = Unlinked(d, h)
    BY <1>7 DEF UnclusterResults, HostsIn
  <2>2. /\ Tidy(e) /\ e.vm = d.vm /\ e.member = [d.member EXCEPT ![h] = NoCluster]
        /\ e.index = [d.index EXCEPT ![h] = 0]
    BY <2>1, UnlinkedFine
  <2> QED
    BY <2>1, <2>2 DEF Fine, Related, Tidy, Typed
<1> QED
  BY <1>1, <1>2, <1>3, <1>4, <1>5, <1>6, <1>7 DEF Results

\* A step that leaves one of the commands' results is one of the serial machine.
LEMMA ResultsNext ==
    ASSUME db' \in Results(db)
    PROVE  Next
BY DEF Results, Next, ChangeStatus, Make, ChangeClusterStatus, ResetAdvertised, AddHost,
       DelHost, AddCluster, DelCluster, Cluster, Uncluster

\* A session nothing was committed under holds the work of a command on the
\* rows that are there.
Current(d, s) == s.stale = FALSE => \E e \in Results(d) : s = Writes(d, e)

Orderly(d, s) == s # Idle => Sendable(s) /\ Current(d, s)

SessionInv ==
    /\ Tidy(db)
    /\ session = [t \in Threads |-> session[t]]
    /\ \A t \in Threads : Orderly(db, session[t])

\* No rows and no sessions
LEMMA SessionInit == SessionsInit => SessionInv
<1> SUFFICES ASSUME SessionsInit PROVE SessionInv
  OBVIOUS
<1>1. Tidy(db)
  BY LifecycleAssumption DEF SessionsInit, Init, Tidy, Typed
<1>2. session = [t \in Threads |-> Idle]
  BY DEF SessionsInit
<1> QED
  BY <1>1, <1>2 DEF SessionInv, Orderly

\* What a step does to the database, and that its sessions stay in order
LEMMA SessionStep ==
    ASSUME SessionInv, [SessionsNext]_sessionVars
    PROVE  /\ SessionInv'
           /\ \/ UNCHANGED db
              \/ Next
              \/ \E t \in Threads : session[t] # Idle /\ session'[t] = Idle /\ session[t].stale
<1>1. ASSUME NEW t \in Threads, Read(t)
      PROVE  UNCHANGED db /\ SessionInv'
  <2>1. PICK e \in Results(db) : session' = [session EXCEPT ![t] = Writes(db, e)]
    BY <1>1 DEF Read
  <2>2. db' = db
    BY <1>1 DEF Read
  <2>3. Tidy(e)
    BY ResultsFine DEF SessionInv, Fine
  <2>4. Sendable(Writes(db, e))
    BY <2>3, WritesSendable DEF SessionInv
  <2>5. session' = [u \in Threads |-> session'[u]]
    BY <2>1 DEF SessionInv
  <2>6. ASSUME NEW u \in Threads, session'[u] # Idle
        PROVE  Orderly(db', session'[u])
    <3>1. CASE u = t
      BY <2>1, <2>2, <2>4, <3>1 DEF SessionInv, Orderly, Current
    <3>2. CASE u # t
      <4>1. session'[u] = session[u]
        BY <2>1, <3>2 DEF SessionInv
      <4>2. Orderly(db, session[u])
        BY <2>6, <4>1 DEF SessionInv
      <4> QED
        BY <2>2, <4>1, <4>2 DEF Orderly, Current
    <3> QED
      BY <3>1, <3>2
  <2>7. \A u \in Threads : Orderly(db', session'[u])
    BY <2>6 DEF Orderly
  <2> QED
    BY <2>2, <2>5, <2>7 DEF SessionInv
<1>2. ASSUME NEW t \in Threads, session[t] # Idle, UNCHANGED db,
             session' = [session EXCEPT ![t] = Idle]
      PROVE  SessionInv'
  <2>1. ASSUME NEW u \in Threads, session'[u] # Idle
        PROVE  Orderly(db', session'[u])
    <3>1. session'[u] = session[u]
      BY <1>2, <2>1 DEF SessionInv
    <3>2. Orderly(db, session[u])
      BY <2>1, <3>1 DEF SessionInv
    <3> QED
      BY <1>2, <3>1, <3>2 DEF Orderly, Current
  <2>2. session' = [u \in Threads |-> session'[u]]
    BY <1>2 DEF SessionInv
  <2>3. \A u \in Threads : Orderly(db', session'[u])
    BY <2>1 DEF Orderly
  <2> QED
    BY <1>2, <2>2, <2>3 DEF SessionInv
<1>3. ASSUME NEW t \in Threads, Commit(t), Accepts(db, session[t])
      PROVE  /\ SessionInv'
             /\ Next \/ (session[t] # Idle /\ session'[t] = Idle /\ session[t].stale)
  <2>1. /\ session[t] # Idle
        /\ db' = Merged(db, session[t])
        /\ session' = [u \in Threads |->
                IF u = t \/ session[u] = Idle THEN Idle
                ELSE [session[u] EXCEPT !.gone = @ \cup Deleted(db, session[t]), !.stale = TRUE]]
    BY <1>3 DEF Commit
  <2>2. Sendable(session[t]) /\ Current(db, session[t]) /\ Tidy(db)
    BY <2>1 DEF SessionInv, Orderly
  <2>3. Tidy(db')
    BY <2>1, <2>2, MergedTidy
  <2>4. Deleted(db, session[t]) \subseteq Clusters
    BY DEF Deleted, ClustersIn
  <2>5. ASSUME NEW u \in Threads, session'[u] # Idle
        PROVE  Orderly(db', session'[u])
    <3>1. /\ session[u] # Idle
          /\ session'[u] = [session[u] EXCEPT !.gone = @ \cup Deleted(db, session[t]),
                                              !.stale = TRUE]
      BY <2>1, <2>5
    <3>2. Sendable(session[u])
      BY <3>1 DEF SessionInv, Orderly
    <3>3. Sendable(session'[u]) /\ session'[u].stale = TRUE
      BY <2>4, <3>1, <3>2 DEF Sendable
    <3> QED
      BY <3>3 DEF Orderly, Current
  <2>6. session' = [u \in Threads |-> session'[u]]
    BY <2>1
  <2>11. \A u \in Threads : Orderly(db', session'[u])
    BY <2>5 DEF Orderly
  <2>7. SessionInv'
    BY <2>3, <2>6, <2>11 DEF SessionInv
  <2>8. session'[t] = Idle
    BY <2>1
  <2>9. ASSUME session[t].stale = FALSE
        PROVE  Next
    <3>1. PICK e \in Results(db) : session[t] = Writes(db, e)
      BY <2>2, <2>9 DEF Current
    <3>2. Tidy(e) /\ Related(db, e)
      BY <2>2, ResultsFine DEF Fine
    <3>3. db' = e
      BY <2>1, <2>2, <3>1, <3>2, MergedFresh
    <3> QED
      BY <3>3, ResultsNext
  <2>10. session[t].stale \in BOOLEAN
    BY <2>2 DEF Sendable
  <2> QED
    BY <2>1, <2>7, <2>8, <2>9, <2>10
<1>4. CASE UNCHANGED sessionVars
  BY <1>4 DEF sessionVars, SessionInv, Current
<1>5. ASSUME NEW t \in Threads, Commit(t), ~Accepts(db, session[t])
      PROVE  UNCHANGED db /\ SessionInv'
  BY <1>2, <1>5 DEF Commit
<1>6. ASSUME NEW t \in Threads, Rollback(t)
      PROVE  UNCHANGED db /\ SessionInv'
  BY <1>2, <1>6 DEF Rollback
<1>7. CASE UNCHANGED sessionVars
  BY <1>4, <1>7 DEF sessionVars
<1> QED
  BY <1>1, <1>3, <1>4, <1>5, <1>6, <1>7 DEF SessionsNext, sessionVars

\* Committed rows and sessions stay in order, with any number of threads.
THEOREM AlwaysSessions == SessionsSpec => []SessionInv
<1>1. SessionInv /\ [SessionsNext]_sessionVars => SessionInv'
  BY SessionStep
<1> QED
  BY <1>1, SessionInit, PTL DEF SessionsSpec

\* SerialUnlessStale, as a relation of two states
Serial ==
    (\A t \in Threads : (session[t] # Idle /\ session'[t] = Idle) => ~session[t].stale)
        => Next \/ UNCHANGED db

\* A session that commits before any other has committed does to the database
\* what its command does alone, whatever else is under way (broker.py:229-302).
THEOREM SerialHolds == SessionsSpec => SerialUnlessStale
<1>1. SessionInv /\ [SessionsNext]_sessionVars => [Serial]_sessionVars
  BY SessionStep DEF Serial
<1> QED
  BY <1>1, AlwaysSessions, PTL DEF SessionsSpec, SerialUnlessStale, Serial

\* The memberships that change where nothing is taken along
Ends(h) == /\ db.member[h] # NoCluster /\ db'.member[h] # db.member[h]
           /\ db'.host[h] # Absent /\ db'.cluster[db.member[h]] # Absent

\* The session that ends them found the row that is there.
LEMMA CommitFoundIt ==
    ASSUME SessionInv, NEW t \in Threads, Commit(t), NEW h \in Hosts, Ends(h)
    PROVE  /\ session[t] # Idle /\ session'[t] = Idle
           /\ session[t].was[h] = db.member[h]
           /\ db.member[h] \notin session[t].gone
<1> DEFINE s == session[t]
           e == Raw(db, s)
<1>1. Accepts(db, s) /\ db' = Merged(db, s) /\ s # Idle
  BY DEF Commit, Ends
<1>2. session'[t] = Idle
  BY <1>1 DEF Commit
<1>3. Tidy(db) /\ Typed(db) /\ Sendable(s)
  BY <1>1 DEF SessionInv, Orderly, Tidy
<1>4. LinksMatch(db, s)
  BY <1>1 DEF Accepts
<1> HIDE DEF s
<1>5. /\ db' = Cascade(e)
      /\ e = [host |-> Applied(db.host, s.host),
              advertise |-> Applied(db.advertise, s.advertise),
              member |-> [g \in Hosts |-> IF g \in Sends(db, s) THEN s.member[g]
                                                              ELSE db.member[g]],
              index |-> [g \in Hosts |-> IF g \in Sends(db, s) THEN s.index[g]
                                                             ELSE db.index[g]],
              cluster |-> Applied(db.cluster, s.cluster),
              vm |-> db.vm]
  BY <1>1, <1>3, RawColumns
<1>6. Typed(e)
  BY <1>3, RawTyped
<1> HIDE DEF e
<1>7. /\ db'.host = e.host /\ db'.cluster = e.cluster
      /\ db'.member = [g \in Hosts |-> IF g \in Out(e) THEN NoCluster ELSE e.member[g]]
  BY <1>5, <1>6, CascadeColumns
<1>8. h \in Sends(db, s)
  <2>1. SUFFICES ASSUME h \notin Sends(db, s) PROVE FALSE
    OBVIOUS
  <2>2. e.member[h] = db.member[h]
    BY <1>5, <2>1
  <2>3. h \notin Out(e)
    BY <1>7, <2>2 DEF Out, Ends
  <2> QED
    BY <1>7, <2>2, <2>3 DEF Ends
<1>9. LinkStands(db, s, h)
  BY <1>4, <1>8 DEF Sends, LinksMatch, Ends
<1> QED
  BY <1>1, <1>2, <1>9 DEF LinkStands, s

\* NoMembershipOverwritten, as a relation of two states
FoundBefore ==
    \A h \in Hosts :
         (/\ db.member[h] # NoCluster /\ db'.member[h] # db.member[h]
          /\ db'.host[h] # Absent /\ db'.cluster[db.member[h]] # Absent)
            => \E t \in Threads :
                /\ session[t] # Idle /\ session'[t] = Idle
                /\ session[t].was[h] = db.member[h]
                /\ db.member[h] \notin session[t].gone

\* However stale what a session read, it ends no membership it has not found
\* (cluster.py:347-351, host_id is unique; a row is deleted by its own key).
THEOREM MembershipHolds == SessionsSpec => NoMembershipOverwritten
<1>1. SessionInv /\ [SessionsNext]_sessionVars => [FoundBefore]_sessionVars
  <2>1. SUFFICES ASSUME SessionInv, SessionsNext, NEW h \in Hosts, Ends(h)
                 PROVE  \E t \in Threads : /\ session[t] # Idle /\ session'[t] = Idle
                                           /\ session[t].was[h] = db.member[h]
                                           /\ db.member[h] \notin session[t].gone
    BY DEF FoundBefore, Ends
  <2>2. PICK t \in Threads : Read(t) \/ Commit(t) \/ Rollback(t)
    BY <2>1 DEF SessionsNext
  <2>3. Commit(t)
    BY <2>1, <2>2 DEF Read, Rollback, Ends
  <2> QED
    BY <2>1, <2>3, CommitFoundIt
<1> QED
  BY <1>1, AlwaysSessions, PTL DEF SessionsSpec, NoMembershipOverwritten, FoundBefore

=============================================================================
