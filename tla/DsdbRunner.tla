----------------------------- MODULE DsdbRunner -----------------------------
(***************************************************************************)
(* Keeping DSDB, the external host database, in step with the broker's own: *)
(* DSDBRunner of lib/aquilon/worker/processes.py.  update_host compares two  *)
(* snapshots of a machine's addresses and queues commands, each with the     *)
(* command that undoes it; commit runs the queue; rollback undoes what was   *)
(* run.  "update machine --swap_ip" queues two more around them.            *)
(*                                                                         *)
(* DSDB itself is external: a set of entries with unique names and          *)
(* addresses, in which an entry may hang on a primary one, and which refuses *)
(* what would break that.  A command may also fail for reasons of its own,   *)
(* before or after it took effect (the timeout of run_command).             *)
(***************************************************************************)
EXTENDS Naturals, FiniteSets, SequencesExt

CONSTANTS Fqdn, Ip, Iface, Mac,
          None,
          Change     \* what a command did to a machine's addresses

Entry == [fqdn : Fqdn, ip : Ip, iface : Iface \cup {None}, mac : Mac \cup {None},
          primary : Fqdn \cup {None}]

(* "by-fqdn" and "by-ip" of one snapshot hold the same entries; those that   *)
(* have a primary have the same, the machine's name, which has an entry too. *)
IsSnapshot(s) == /\ s \subseteq Entry /\ IsFiniteSet(s)
                 /\ \A x, y \in s : x.fqdn = y.fqdn \/ x.ip = y.ip => x = y
                 /\ \A x, y \in s : x.primary # None /\ y.primary # None
                                      => x.primary = y.primary
                 /\ \A x \in s : x.primary # None
                                    => \E y \in s : y.fqdn = x.primary /\ y.primary = None

(* An entry that stays keeps its name or its address ...                    *)
Same(o, n) == o.fqdn = n.fqdn \/ o.ip = n.ip

(* ... and no command gives it those of another one.  The machine's name goes *)
(* with the entry that has it, as long as that one stays.                   *)
IsUpdate(old, new) ==
  /\ \A o, p \in old, n \in new : Same(o, n) /\ Same(p, n) => o = p
  /\ \A o \in old, n, p \in new : Same(o, n) /\ Same(o, p) => n = p
  /\ \A o, p \in old, n, q \in new :
       Same(o, n) /\ None \notin {o.primary, n.primary} /\ Same(p, q) /\ p.fqdn = o.primary
         => q.fqdn = n.primary

(* swap is the entry of the name that gets the machine's address, old_ip; it *)
(* was added by add_address, and nothing hangs on it.  temp, where it is     *)
(* parked meanwhile, is free (next_ip).                                     *)
IsSwap(c) ==
  LET entries == c.old \cup c.new
  IN  /\ c.swap \in Entry /\ c.swap.iface = None /\ c.swap.primary = None
      /\ c.old_ip \in Ip /\ c.temp \in Ip
      /\ \A e \in entries : e.fqdn # c.swap.fqdn /\ e.ip # c.temp
      /\ \A e \in c.old : e.ip # c.swap.ip
      /\ \A e \in c.new : e.ip # c.old_ip
      /\ c.temp \notin {c.swap.ip, c.old_ip}

(* str(None), which is what an old MAC address that was not there becomes. *)
TextNone == "None"

ASSUME ChangeAssumption ==
  /\ \A c \in Change : /\ IsSnapshot(c.old) /\ IsSnapshot(c.new)
                       /\ IsUpdate(c.old, c.new)
                       /\ c.swap # None => IsSwap(c)
  /\ None \notin Fqdn \cup Ip \cup Iface \cup Mac
  /\ TextNone \notin Mac \cup {None}

VARIABLES change,
          start,          \* what DSDB held before the command
          dsdb,           \* what it holds
          actions,
          rollback_list,
          pc,
          failures,       \* rollback_failures
          doubtful,       \* a command's failure was reported too late
          swallowed       \* the entries whose deletion did not run and passed for done

vars == <<change, start, dsdb, actions, rollback_list, pc, failures, doubtful, swallowed>>

PC == {"update", "commit", "committed", "rollback", "failed", "inconsistent"}

-----------------------------------------------------------------------------
(* The commands, as rollback_args gives them back. *)
AddHost(e) == [op |-> "add_host", entry |-> e]

DeleteHost(e) == [op |-> "delete_host", ip |-> e.ip]

(* None for what the command line leaves out. *)
UpdateHost(e, ip, mac) ==
  [op |-> "update_aqd_host", fqdn |-> e.fqdn, iface |-> e.iface, ip |-> ip, mac |-> mac]

RenameHost(from, to) ==
  [op |-> "rename", fqdn |-> from.fqdn, iface |-> from.iface,
   new_fqdn |-> to.fqdn, new_iface |-> to.iface]

Action(command, rollback, ignorable) ==
  [command |-> command, rollback |-> rollback, ignorable |-> ignorable]

AddHostDetails(e) == Action(AddHost(e), DeleteHost(e), FALSE)

(* error_filter: "DSDB did not have a host with this IP address". *)
DeleteHostDetails(e) == Action(DeleteHost(e), AddHost(e), TRUE)

(* mutant: the rollback repeats the new address. *)
UpdateHostDetailsForward(old, new) ==
  LET ip == IF new.ip # old.ip THEN new.ip ELSE None
      mac == IF new.mac \notin {None, old.mac} THEN new.mac ELSE None
  IN  Action(UpdateHost(old, ip, mac), UpdateHost(old, ip, mac), FALSE)

(* A MAC address that was taken away is not told. *)
UpdateHostDetails(old, new) ==
  LET moved == new.ip # old.ip
      remac == new.mac \notin {None, old.mac}
  IN  Action(UpdateHost(old, IF moved THEN new.ip ELSE None,
                        IF remac THEN new.mac ELSE None),
             UpdateHost(old, IF moved THEN old.ip ELSE None,
                        IF ~ remac THEN None
                        ELSE IF old.mac = None THEN TextNone ELSE old.mac),
             FALSE)

UpdateHostIfaceName(old, new) == Action(RenameHost(old, new), RenameHost(new, old), FALSE)

-----------------------------------------------------------------------------
(* update_host, first loop: the new entry for an old one, by name and else   *)
(* by address, among those not matched yet; none if only one of the two has *)
(* a primary.                                                               *)
NewFor(e, left) ==
  LET named == {n \in left : n.fqdn = e.fqdn}
      found == IF named # {} THEN named ELSE {n \in left : n.ip = e.ip}
  IN  {n \in found : (n.primary = None) = (e.primary = None)}

NoPlan(new) == [left |-> new, deletes |-> << >>, addr_updates |-> << >>,
                name_updates |-> << >>]

PlanFor(plan, e) ==
  LET found == NewFor(e, plan.left)
      n == CHOOSE n \in found : TRUE
  IN  IF found = {} THEN [plan EXCEPT !.deletes = Append(@, e)]
      ELSE [plan EXCEPT
              !.left = @ \ {n},
              !.addr_updates =
                IF <<e.ip, e.mac>> # <<n.ip, n.mac>>
                  THEN Append(@, UpdateHostDetails(e, n)) ELSE @,
              !.name_updates =
                IF <<e.fqdn, e.iface>> # <<n.fqdn, n.iface>>
                  THEN Append(@, UpdateHostIfaceName(e, n)) ELSE @]

HasPrimary == {e \in Entry : e.primary # None}

HasNone == {e \in Entry : e.primary = None}

(* Those of a list that are in a set, in their order. *)
Only(entries, S) ==
  FoldLeft(LAMBDA kept, e : IF e \in S THEN Append(kept, e) ELSE kept, << >>, entries)

(* mutant: additions come in the order of the snapshot. *)
PrimaryFirstUnsorted(entries) == entries

(* "Add the primary address first, and delete it last." *)
PrimaryFirst(entries) == Only(entries, HasNone) \o Only(entries, HasPrimary)

PrimaryLast(entries) == Only(entries, HasPrimary) \o Only(entries, HasNone)

(* The commands for the old entries in one order and the additions in one. *)
Plan(old, added, new) ==
  LET plan == FoldLeft(PlanFor, NoPlan(new), old)
      deletes == PrimaryLast(plan.deletes)
      adds == PrimaryFirst(Only(added, plan.left))
  IN  [i \in DOMAIN deletes |-> DeleteHostDetails(deletes[i])]
      \o plan.addr_updates \o plan.name_updates
      \o [i \in DOMAIN adds |-> AddHostDetails(adds[i])]

Park(c) == UpdateHostDetails(c.swap, [c.swap EXCEPT !.ip = c.temp])

Unpark(c) == UpdateHostDetails([c.swap EXCEPT !.ip = c.temp],
                               [c.swap EXCEPT !.ip = c.old_ip])

(* The two dictionaries keep the order the addresses came in. *)
UpdateMachine ==
  /\ pc = "update"
  /\ \E old \in SetToSeqs(change.old), new \in SetToSeqs(change.new) :
       actions' = IF change.swap = None THEN Plan(old, new, change.new)
                  ELSE << Park(change) >> \o Plan(old, new, change.new)
                       \o << Unpark(change) >>
  /\ pc' = "commit"
  /\ UNCHANGED <<change, start, dsdb, rollback_list, failures, doubtful, swallowed>>

-----------------------------------------------------------------------------
(* DSDB.  The entries of d a command is about, what it makes of d, and when  *)
(* it is refused.                                                           *)
Target(d, c) == CASE c.op = "add_host" -> {}
                  [] c.op = "delete_host" -> {e \in d : e.ip = c.ip}
                  [] OTHER -> {e \in d : e.fqdn = c.fqdn /\ c.iface \in {None, e.iface}}

Renamed(entries, c) ==
  {[e EXCEPT !.primary = IF @ = c.fqdn THEN c.new_fqdn ELSE @] : e \in entries}

After(d, c) ==
  LET others == d \ Target(d, c)
  IN  CASE c.op = "add_host" -> d \cup {c.entry}
        [] c.op = "delete_host" -> others
        [] c.op = "update_aqd_host" ->
             others \cup {[e EXCEPT !.ip = IF c.ip = None THEN @ ELSE c.ip,
                                    !.mac = IF c.mac = None THEN @ ELSE c.mac] :
                            e \in Target(d, c)}
        [] c.op = "rename" ->
             Renamed(others \cup {[e EXCEPT !.fqdn = c.new_fqdn, !.iface = c.new_iface] :
                                    e \in Target(d, c)}, c)

NotDefined(d, c) == c.op # "add_host" /\ Target(d, c) = {}

Consistent(d) == /\ \A x, y \in d : x.fqdn = y.fqdn \/ x.ip = y.ip => x = y
                 /\ \A x \in d : x.primary # None => \E y \in d : y.fqdn = x.primary

Refused(d, c) == \/ NotDefined(d, c)
                 \/ ~ Consistent(After(d, c))
                 \/ c.op = "add_host" /\ c.entry \in d
                 \/ c.op = "update_aqd_host" /\ c.mac = TextNone

-----------------------------------------------------------------------------
Full(c) == c.old \cup (IF c.swap = None THEN {} ELSE {c.swap})

(* DSDB may lack some of the entries the broker thinks it has. *)
Init == /\ change \in Change
        /\ start \in SUBSET Full(change) /\ Consistent(start)
        /\ dsdb = start
        /\ actions = << >>
        /\ rollback_list = << >>
        /\ pc = "update"
        /\ failures = FALSE
        /\ doubtful = FALSE
        /\ swallowed = {}

Command == Head(actions).command

(* commit runs the next action and, when it succeeds, remembers its rollback. *)
Remember == /\ rollback_list' = Append(rollback_list, Head(actions).rollback)
            /\ actions' = Tail(actions)
            /\ UNCHANGED <<change, start, pc, failures, doubtful>>

Run == /\ pc = "commit" /\ actions # << >>
       /\ ~ Refused(dsdb, Command)
       /\ dsdb' = After(dsdb, Command)
       /\ UNCHANGED swallowed
       /\ Remember

(* The error matches the filter: as good as done. *)
RunIgnored == /\ pc = "commit" /\ actions # << >>
              /\ Head(actions).ignorable
              /\ NotDefined(dsdb, Command)
              /\ UNCHANGED <<dsdb, swallowed>>
              /\ Remember

(* Any exception that is not a ProcessException passes for done when the      *)
(* action has a filter, whatever the filter says: the process could not be   *)
(* started, its output not be decoded.  (If the command took effect all the   *)
(* same, this is Run.)                                                      *)
RunSwallowed == /\ pc = "commit" /\ actions # << >>
                /\ Head(actions).ignorable
                /\ swallowed' = swallowed \cup Target(dsdb, Command)
                /\ UNCHANGED dsdb
                /\ Remember

(* mutant: the action that failed is taken for the last one done. *)
StartRollbackShort == /\ pc' = "rollback"
                      /\ rollback_list' = IF rollback_list = << >> THEN << >>
                                          ELSE Tail(Reverse(rollback_list))
                      /\ UNCHANGED <<change, start, actions, failures, swallowed>>

(* commit_or_rollback, and the callers whose later steps fail. *)
StartRollback == /\ pc' = "rollback"
                 /\ rollback_list' = Reverse(rollback_list)
                 /\ UNCHANGED <<change, start, actions, failures, swallowed>>

RunFails == /\ pc = "commit" /\ actions # << >>
            /\ ~ (Head(actions).ignorable /\ NotDefined(dsdb, Command))
            /\ UNCHANGED <<dsdb, doubtful>>
            /\ StartRollback

(* The command took effect but was killed before it said so. *)
RunTimesOut == /\ pc = "commit" /\ actions # << >>
               /\ ~ Refused(dsdb, Command)
               /\ dsdb' = After(dsdb, Command)
               /\ doubtful' = TRUE
               /\ StartRollback

CommitDone == /\ pc = "commit" /\ actions = << >>
              /\ pc' = "committed"
              /\ UNCHANGED <<change, start, dsdb, actions, rollback_list, failures,
                             doubtful, swallowed>>

(* Infoblox fails, or the plenary templates cannot be compiled. *)
CallerFails == /\ pc = "committed"
               /\ UNCHANGED <<dsdb, doubtful>>
               /\ StartRollback

Undone == /\ rollback_list' = Tail(rollback_list)
          /\ UNCHANGED <<change, start, actions, pc, doubtful, swallowed>>

Rollback == /\ pc = "rollback" /\ rollback_list # << >>
            /\ ~ Refused(dsdb, Head(rollback_list))
            /\ dsdb' = After(dsdb, Head(rollback_list))
            /\ UNCHANGED failures
            /\ Undone

(* An error is collected and the next action undone all the same. *)
RollbackFails == /\ pc = "rollback" /\ rollback_list # << >>
                 /\ failures' = TRUE
                 /\ UNCHANGED dsdb
                 /\ Undone

RollbackDone == /\ pc = "rollback" /\ rollback_list = << >>
                /\ pc' = IF failures THEN "inconsistent" ELSE "failed"
                /\ UNCHANGED <<change, start, dsdb, actions, rollback_list, failures,
                               doubtful, swallowed>>

Next == \/ UpdateMachine
        \/ Run \/ RunIgnored \/ RunSwallowed \/ RunFails \/ RunTimesOut \/ CommitDone
        \/ CallerFails
        \/ Rollback \/ RollbackFails \/ RollbackDone

Spec == Init /\ [][Next]_vars
-----------------------------------------------------------------------------
Wanted(c) == c.new \cup (IF c.swap = None THEN {}
                         ELSE {[c.swap EXCEPT !.ip = c.old_ip]})

TypeOK == /\ change \in Change
          /\ start \subseteq Full(change)
          /\ dsdb \subseteq Entry
          /\ pc \in PC
          /\ failures \in BOOLEAN /\ doubtful \in BOOLEAN
          /\ swallowed \subseteq Entry
          /\ \A i \in DOMAIN actions : actions[i].ignorable \in BOOLEAN

(* What hangs on an entry before and after hangs on one that stays.  It does  *)
(* not when "update network device" changes both the address and the name.   *)
PrimaryStays(c) ==
  \A o \in c.old, n \in c.new :
    Same(o, n) /\ None \notin {o.primary, n.primary}
      => \E p \in c.old, q \in c.new : Same(p, q) /\ p.fqdn = o.primary

(* With DSDB in step, it refuses nothing the broker asks for while it does    *)
(* the update or undoes it: names and addresses are free when they are       *)
(* taken, and a primary entry is there before and after what hangs on it.    *)
(* The exceptions are a primary entry that is replaced under one that stays, *)
(* which update_host deletes all the same, undoing a first MAC address, and   *)
(* what comes after a deletion whose failure was swallowed.                  *)
NeverRefused ==
  start = Full(change) /\ PrimaryStays(change) /\ swallowed = {} /\ ~ doubtful /\ ~ failures =>
    /\ pc = "commit" /\ actions # << >> => ~ Refused(dsdb, Command)
    /\ pc = "rollback" /\ rollback_list # << >> =>
         (Refused(dsdb, Head(rollback_list)) => Head(rollback_list).mac = TextNone)

(* A MAC address that went away is not told to DSDB. *)
Tells(e, n) == e = [n EXCEPT !.mac = IF @ = None THEN e.mac ELSE @]

(* But for the primary it hangs on, which may be renamed. *)
IsLeft(e, x) == e = [x EXCEPT !.primary = e.primary]

TellsOrHangs(e, n) ==
  \/ Tells(e, n)
  \/ \E x \in swallowed : e.primary = x.fqdn /\ Tells([e EXCEPT !.primary = n.primary], n)

(* After a successful commit DSDB holds what the broker's database does,      *)
(* whatever combination of names, addresses and primary entries changed, and *)
(* even if an entry to delete was missing; a missing entry whose name and     *)
(* address stay is not noticed.  What is there besides are entries whose      *)
(* deletion failed with an exception that commit swallowed, and no others:   *)
(* nothing the broker wants to add gives way to them.  An entry that stays    *)
(* may still hang on such a primary one.                                    *)
CommittedIsNew ==
  pc = "committed" =>
    /\ \A e \in dsdb : \/ \E n \in Wanted(change) : TellsOrHangs(e, n)
                       \/ \E x \in swallowed : IsLeft(e, x)
    /\ \A n \in Wanted(change) :
         \/ \E e \in dsdb : TellsOrHangs(e, n)
         \/ \E e \in Full(change) \ start : e.fqdn = n.fqdn /\ e.ip = n.ip

(* After a rollback that reports no failure DSDB holds what it did before,    *)
(* except that an entry it was missing may be back.  There is none after a    *)
(* deletion that was swallowed: DSDB refuses to add again what is still there. *)
RolledBackIsOld ==
  pc = "failed" => /\ swallowed = {}
                   /\ ~ doubtful => start \subseteq dsdb /\ dsdb \subseteq Full(change)

(* The outcome the runner reports is the one DSDB shows (processes.py:475-545):*)
(* the failures it swallows included, whose entries stay.                    *)
DsdbMatchesOutcome == CommittedIsNew /\ RolledBackIsOld

(* A command that timed out after it took effect is not undone, but leaves    *)
(* behind no more than its own doing: one entry, and the name of the primary *)
(* one in others.                                                           *)
DoubtIsLocal ==
  LET Bare(entries) == {[e EXCEPT !.primary = None] : e \in entries}
  IN  pc = "failed" /\ doubtful =>
        /\ Cardinality(Bare(start) \ Bare(dsdb)) <= 1
        /\ Cardinality(Bare(dsdb) \ Bare(Full(change))) <= 1
=============================================================================
