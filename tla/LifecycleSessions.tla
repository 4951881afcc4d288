------------------------- MODULE LifecycleSessions -------------------------
(***************************************************************************)
(* The commands of Lifecycle run by concurrent broker threads, each in a   *)
(* database session of its own.                                            *)
(*                                                                         *)
(* A session reads the committed rows it needs (READ COMMITTED, and no row *)
(* of a host or a cluster is locked before it is written), computes in     *)
(* memory, and sends only the columns it has CHANGED.  They become visible *)
(* when the broker commits after the command.  A command that fails after  *)
(* its read, say in the compile, is rolled back.  Two sessions that write  *)
(* the same row are ordered by the row lock the first holds until it       *)
(* commits, so a session's writes and its commit are one step here, and    *)
(* the reads of one command are one step too: both leave out behaviours    *)
(* and add none.  Virtual machines are left to the serial machine.         *)
(***************************************************************************)
EXTENDS Lifecycle

CONSTANTS Threads,
          Idle,     \* a thread without a session
          Keep      \* a column the session does not write

ASSUME SessionsAssumption ==
    /\ Keep \notin HostStatus \cup ClusterStatus \cup {Absent}
    /\ Keep \notin Clusters \cup {NoCluster}
    /\ Keep \notin BOOLEAN /\ Keep \notin Nat

VARIABLE session    \* Idle, or the writes a thread is about to send

sessionVars == <<db, session>>

SessionsTypeOK ==
    /\ TypeOK
    /\ \A t \in Threads : session[t] # Idle =>
        /\ session[t].host \in [Hosts -> HostStatus \cup {Absent, Keep}]
        /\ session[t].advertise \in [Hosts -> BOOLEAN \cup {Keep}]
        /\ session[t].member \in [Hosts -> Clusters \cup {NoCluster, Keep}]
        /\ session[t].was \in [Hosts -> Clusters \cup {NoCluster, Keep}]
        /\ session[t].cluster \in [Clusters -> ClusterStatus \cup {Absent, Keep}]
        /\ session[t].inserts \subseteq Hosts \cup Clusters
        /\ session[t].gone \subseteq Clusters /\ session[t].stale \in BOOLEAN

-----------------------------------------------------------------------------
(* What a session sends: the columns in which e differs from what was read. *)

Changed(f, g) == [x \in DOMAIN f |-> IF g[x] = f[x] THEN Keep ELSE g[x]]

\* mutant: the membership a session changes is not sent
WritesStatusOnly(d, e) ==
    [ host      |-> Changed(d.host, e.host),
      advertise |-> Changed(d.advertise, e.advertise),
      member    |-> [h \in Hosts |-> Keep],
      index     |-> [h \in Hosts |-> Keep],
      was       |-> [h \in Hosts |-> Keep],
      cluster   |-> Changed(d.cluster, e.cluster),
      inserts   |-> (HostsIn(e) \ HostsIn(d)) \cup (ClustersIn(e) \ ClustersIn(d)),
      gone      |-> {},
      stale     |-> FALSE ]

Writes(d, e) ==
    LET moved == {h \in Hosts : e.member[h] # d.member[h]}
    IN  [ host      |-> Changed(d.host, e.host),
          advertise |-> Changed(d.advertise, e.advertise),
          member    |-> Changed(d.member, e.member),
          index     |-> [h \in Hosts |-> IF h \in moved THEN e.index[h] ELSE Keep],
          was       |-> [h \in Hosts |-> IF h \in moved THEN d.member[h] ELSE Keep],
          cluster   |-> Changed(d.cluster, e.cluster),
          inserts   |-> (HostsIn(e) \ HostsIn(d))
                            \cup (ClustersIn(e) \ ClustersIn(d)),
          gone      |-> {},        \* clusters others deleted in the meantime
          stale     |-> FALSE ]    \* has another session committed since?

\* mutant: a membership row is deleted by its host, whichever row it is
LinkOfHost(d, s, h) == s.was[h] # NoCluster

\* Is the membership row the session read still there?
LinkStands(d, s, h) == s.was[h] = d.member[h] /\ s.was[h] \notin s.gone

\* Rows that vanish with their host or cluster (ON DELETE CASCADE)
Cascade(d) ==
    LET out == {h \in Hosts : \/ d.host[h] = Absent
                              \/ /\ d.member[h] # NoCluster
                                 /\ d.cluster[d.member[h]] = Absent}
    IN  [d EXCEPT
            !.advertise = [h \in Hosts |-> @[h] /\ d.host[h] # Absent],
            !.member = [h \in Hosts |-> IF h \in out THEN NoCluster ELSE @[h]],
            !.index = [h \in Hosts |-> IF h \in out THEN 0 ELSE @[h]]]

\* The columns a session sends over those it does not
Applied(f, w) == [x \in DOMAIN f |-> IF w[x] = Keep THEN f[x] ELSE w[x]]

\* The database after the session's statements.  Deleting a membership row
\* that is no longer there matches nothing and is no error.
Merged(d, s) ==
    LET sent == {h \in Hosts : \/ s.member[h] \in Clusters
                               \/ s.member[h] = NoCluster /\ LinkStands(d, s, h)}
    IN  Cascade([d EXCEPT
            !.host = Applied(@, s.host),
            !.advertise = Applied(@, s.advertise),
            !.member = [h \in Hosts |-> IF h \in sent THEN s.member[h] ELSE @[h]],
            !.index = [h \in Hosts |-> IF h \in sent THEN s.index[h] ELSE @[h]],
            !.cluster = Applied(@, s.cluster)])

-----------------------------------------------------------------------------
(* What the schema and the ORM refuse.                                      *)

\* A row that is updated still exists; one that is inserted does not.
RowsMatch(d, s) ==
    /\ \A h \in Hosts :
        /\ h \in s.inserts => d.host[h] = Absent
        /\ (s.host[h] \notin {Keep, Absent} \/ s.advertise[h] # Keep)
            => \/ h \in s.inserts
               \/ d.host[h] # Absent
               \/ s.host[h] = Absent
    /\ \A c \in Clusters :
        /\ c \in s.inserts => d.cluster[c] = Absent
        /\ (s.cluster[c] \notin {Keep, Absent} /\ c \notin s.inserts)
            => d.cluster[c] # Absent /\ c \notin s.gone

\* A new membership refers to existing rows, and the host has no other one
\* (host_id is unique).
LinksMatch(d, s) ==
    \A h \in Hosts : s.member[h] \in Clusters =>
        /\ d.host[h] # Absent
        /\ d.cluster[s.member[h]] # Absent /\ s.member[h] \notin s.gone
        /\ d.member[h] = NoCluster \/ LinkStands(d, s, h)

\* The unique constraint on cluster and node index
IndexConstraint(d) ==
    \A g, h \in Hosts :
        (g # h /\ d.member[g] = d.member[h] /\ d.member[h] # NoCluster)
            => d.index[g] # d.index[h]

Accepts(d, s) ==
    RowsMatch(d, s) /\ LinksMatch(d, s) /\ IndexConstraint(Merged(d, s))

-----------------------------------------------------------------------------
SessionsInit == Init /\ session = [t \in Threads |-> Idle]

\* Any command, on the rows it finds
Results(d) ==
    UNION {ChangeStatusResults(d), MakeResults(d), ChangeClusterStatusResults(d),
           ResetAdvertisedResults(d), AddHostResults(d), DelHostResults(d),
           AddClusterResults(d), DelClusterResults(d), ClusterResults(d),
           UnclusterResults(d)}

Read(t) ==
    /\ session[t] = Idle
    /\ \E e \in Results(db) \ {db} :
        session' = [session EXCEPT ![t] = Writes(db, e)]
    /\ UNCHANGED db

Deleted(d, s) == {c \in ClustersIn(d) : s.cluster[c] = Absent /\ c \notin s.gone}

\* The session commits, or its flush is refused and rolled back
Commit(t) ==
    /\ session[t] # Idle
    /\ LET s == session[t] IN
        IF Accepts(db, s)
        THEN /\ db' = Merged(db, s)
             /\ session' = [u \in Threads |->
                    IF u = t \/ session[u] = Idle THEN Idle
                    ELSE [session[u] EXCEPT !.gone = @ \cup Deleted(db, s),
                                            !.stale = TRUE]]
        ELSE /\ session' = [session EXCEPT ![t] = Idle]
             /\ UNCHANGED db

\* The command fails after its read: the compile fails, or the broker stops
Rollback(t) ==
    /\ session[t] # Idle
    /\ session' = [session EXCEPT ![t] = Idle]
    /\ UNCHANGED db

SessionsNext == \E t \in Threads : Read(t) \/ Commit(t) \/ Rollback(t)

SessionsSpec == SessionsInit /\ [][SessionsNext]_sessionVars

-----------------------------------------------------------------------------
(* Reading, sending the changed columns and committing does what the        *)
(* command does at once, as long as nothing was committed in between: a     *)
(* step of the database is then a step of the serial machine, whose         *)
(* invariants it keeps.  Any other command may be under way: only what      *)
(* commits between a command's read and its own commit can disturb it       *)
(* (change_status.py:41-60, SQLAlchemy's flush).                            *)
SerialUnlessStale ==
    [][(\A t \in Threads :
            (session[t] # Idle /\ session'[t] = Idle) => ~session[t].stale)
        => Next \/ UNCHANGED db]_sessionVars

(* A membership is not overwritten by a session that has not read it,       *)
(* however stale what it read: as long as the host and the cluster stay, a  *)
(* membership row ends only by the commit of a command that found that very *)
(* row, not one of a cluster deleted and created again since.  (Deleting    *)
(* the host or the cluster takes along whatever has joined meanwhile,       *)
(* del_host.py:115: the schema cascades and nothing is refused.)            *)
NoMembershipOverwritten ==
    [][\A h \in Hosts :
         (/\ db.member[h] # NoCluster /\ db'.member[h] # db.member[h]
          /\ db'.host[h] # Absent /\ db'.cluster[db.member[h]] # Absent)
            => \E t \in Threads :
                /\ session[t] # Idle /\ session'[t] = Idle
                /\ session[t].was[h] = db.member[h]
                /\ db.member[h] \notin session[t].gone]_sessionVars

=============================================================================
