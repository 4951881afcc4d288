---------------------------- MODULE MCDsdbRunner ----------------------------
(***************************************************************************)
(* A machine with a primary address and perhaps another, before and after a  *)
(* command: entries appear, go, move to another address, are renamed, become *)
(* or stop being independent of the primary one, which may be replaced.     *)
(***************************************************************************)
EXTENDS DsdbRunner

CONSTANTS f1, f2, f3, i1, i2, i3, i4, e0, e1, e2, m1, m2

Fqdns == {f1, f2, f3}
Ips == {i1, i2, i3, i4}
Ifaces == {e0, e1, e2}
Macs == {m1, m2}

Primary == {[fqdn |-> f, ip |-> i, iface |-> e0, mac |-> m, primary |-> None] :
              f \in {f1, f2}, i \in {i1, i2}, m \in {None, m1}}

Secondary(p) == {[fqdn |-> f, ip |-> i, iface |-> e, mac |-> m2, primary |-> q] :
                   f \in {f2, f3}, i \in {i2, i3}, e \in {e1, e2},
                   q \in {None, p.fqdn}}

Snapshots == {{}} \cup {{p} : p \in Primary}
             \cup {s \in UNION {{{p, q} : q \in Secondary(p)} : p \in Primary} :
                     IsSnapshot(s) /\ Cardinality(s) = 2}

Updates == {c \in [old : Snapshots, new : Snapshots, swap : {None}] : IsUpdate(c.old, c.new)}

Swaps == {c \in [old : Snapshots, new : Snapshots,
                 swap : [fqdn : {f3}, ip : {i3}, iface : {None}, mac : {None},
                         primary : {None}],
                 temp : {i4}, old_ip : {i1}] :
            /\ IsUpdate(c.old, c.new) /\ IsSwap(c)
            /\ \E p \in c.old \cap Primary :
                 p.ip = i1 /\ c.new = (c.old \ {p}) \cup {[p EXCEPT !.ip = i3]}}

Changes == Updates \cup Swaps
=============================================================================
