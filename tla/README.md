# A verification model of the Aquilon broker

TLA+ modules, TLC instances and machine-checked proofs for the broker `aqd` and
the notification daemon `aq_notifyd` (`src/lib/aquilon`, `src/sbin`). Every
definition is translated from the code; `PROJECT.json` names, for each
definition, the lines it stands for. Paths below are relative to
`src/lib/aquilon/` unless they start with `src/`.

    tlc -workers 2 -config MCLifecycle.cfg MCLifecycle.tla     # one run
    tlapm LifecycleProofs.tla                                  # one set of proofs

## 1. The system

`aqd` is one Twisted process. HTTP requests arrive in the reactor thread; each
`aq` command is run by a worker thread (`deferToThread`). A command reads and
changes the aqdb database through SQLAlchemy, writes Pan templates ("plenaries")
to disk under in-process locks, may compile them with panc, calls external
programs (DSDB, git, Infoblox, event exporters), and is committed by the code
around it when it has returned. `aq_notifyd` is a process of its own: the broker
sends it a line when profiles have changed, it rebuilds the index of all
profiles and notifies the clients.

| component | state | operations | talks to |
|---|---|---|---|
| Lock queue (`locks.py`, `worker/locks.py`) | one queue of keys, one condition variable | `acquire`, `release`, `merge` | every command that writes templates, compiles or syncs |
| Plenaries (`worker/templates/`) | template files, their mtimes, panc's outputs, the served profiles | `stash`, `write`, `remove`, `restore_stash`, `transaction`, `compile`, `flush` | lock queue, panc, commands |
| DSDB runner (`worker/processes.py`) | a list of actions, a list of undo actions | `update_host`, `commit`, `rollback`, one method per DSDB command | the `dsdb` program |
| Host and cluster lifecycle (`aqdb/model/*lifecycle.py`, commands) | status, advertise flag, membership, node index, VM placement | `change_status`, `make`, `cluster`, `uncluster`, `add/del_host`, `add/del_cluster`, machines | plenaries, the database |
| Broker command dispatch (`worker/broker.py`, `resources.py`, `aqdb/model/xtn.py`) | threads, connection pools, sessions, audit rows | `invoke_render`, `start_xtn`, `end_xtn`, `Exporter.publish` | all of the above |
| Request status catalog (`worker/messages.py`, `show_request`) | records per request, subscribers, waiters | `publish`, `add_subscriber`, `finish`, `remove_by_*` | worker threads and the reactor |
| Branches (`dbwrappers/branch.py`, `sync`, `publish`, `deploy`, ...) | rows, references of template-king, checkouts, reviews | one per command, each a sequence of git steps | git, lock queue, database |
| Service chooser (`worker/services.py`) | bindings, client counts, the caches of one command | `make`, `reconfigure`, `cluster`, `bind_client` | database, plenaries |
| Notification daemon (`src/sbin/aq_notifyd.py`, `notify/`) | a pending flag, a lock, the profile index | trigger, `build_index`, clean-up, `send_notification` | broker, clients |
| DNS and networks (`dbwrappers/dns.py`, `interface.py`) | records, addresses | `grab_address`, `delete_dns_record` | DSDB, database |
| Others | see `PROJECT.json` `components` | | |

The remaining components (parameters and features, resources, Infoblox,
authorization, formatters, the schema, the client, the command-line parser, the
consistency checker, mail and event transports) are listed there with the
reason each is not modelled.

### What is hard

* *Two kinds of mutual exclusion that do not nest.* Template writers hold an
  in-process key; rows are protected only by what the database locks when it
  is written to. The key is released before the session commits.
* *Three stores, no common transaction.* Templates, DSDB and the database are
  changed in turn. Files and DSDB are undone by hand-written code. Branches add
  two more: the bare repository and the checkouts.
* *Read, decide, write.* A command decides on rows it read at its start, and
  sends only the columns it changed, so a stale decision is not noticed.
* *Caches within one command.* The service chooser keeps counts and candidate
  lists from the first object it works on to the last.
* *Reactor and workers share objects.* The status catalog is called from both;
  the daemon's reactor and its updater share a re-entrant lock.
* *Time.* panc and the indexer compare modification times in whole seconds;
  external commands have timeouts and may have taken effect.
* *Resources.* A waiter for a lock keeps its thread and its connection.

`PROJECT.json` `hazards` lists each such place with its line and the properties
that would catch it going wrong, or the reason why none does.

### What makes each component correct

* Lock queue: conflicting keys are never held together; nobody overtakes a
  conflicting earlier request; nobody sleeps without cause; everybody is served.
* Plenaries: a command that fails before its commit leaves every template as it was
  (the profile served for a host whose deletion is undone comes back with the next
  compile only), a successful one leaves what the database says, and so does a flush
  after anything worse; what a later compile serves is what the database says.
* DSDB runner: with DSDB in step, no request is refused whatever changed, one
  command apart; a failure leaves what was there.
* Lifecycle: no host is ready in a cluster that is not; capacities; statuses move
  along the table; node indexes are unique; nobody ends a membership it has not seen.
* Dispatch: the audit trail is complete and truthful, unless the database fails while
  it is written; events are of committed changes, and lost only where a handler or the
  making of an event fails; the stores agree; a lock-free command that has a thread
  does not wait for locks.
* Catalog: a watcher is given every record, once, in order, and is let go unless
  another takes its place.
* Branches: row, reference and checkout of a branch agree at rest; no deployment
  is lost; a rollback stands; an approval is of the commit under review.
* Chooser: one instance per service; members follow their cluster; a command
  does not overbook by what it does itself.
* Notification daemon: no change escapes both the index and the notifications;
  the clean-up never removes what is newest; the daemon catches up and stops.

## 2. Modules

| module | models | uses |
|---|---|---|
| `LockKeys` | `LockKey.blocks`, `merge`, the key classes | |
| `LockQueue` | `LockQueue` and the threads that call it | `LockKeys` |
| `FairKeyedLock` | abstract: each request waits for the conflicting ones pending when it was made | |
| `LockQueueRefinement` | the mapping from the queue to `FairKeyedLock` | both |
| `LockQueueProofs` | theorems of the queue | |
| `PlenaryTransaction` | one collection of templates through stash, write, the caller's work, restore, the session's commit; crash, flush object by object, a later compile | |
| `PlenaryProofs` | theorems of the templates | `PlenaryTransaction` |
| `DsdbRunner` | the planner of `update_host`, the executor, its rollback, DSDB as a set of entries | |
| `DsdbProofs` | theorems of the runner | `DsdbRunner` |
| `Lifecycle` | the serial machine of status, membership and placement commands | |
| `LifecycleSessions` | the same commands split into read and commit, in concurrent sessions; a session that is not stale takes a step of the serial machine | `Lifecycle` |
| `LifecycleProofs` | theorems of the serial machine and of the sessions | `Lifecycle`, `LifecycleSessions` |
| `StatusCatalog` | reactor callbacks, worker threads and watchers of one request | |
| `BrokerCommand` | `invoke_render` around concurrent commands that flush a row, write its template, tell DSDB and commit | the outcomes of the lock, the template and the DSDB modules, each as one step |
| `BrokerCommandProofs` | theorems of the dispatch | `BrokerCommand` |
| `Branches` | every command that changes a branch, its review or its repository, git step by git step | |
| `BranchesProofs` | theorems of the branches | `Branches` |
| `ServiceChooser` | the candidates, caches and row locks of concurrent binding commands | |
| `ServiceChooserProofs` | theorems of the row locks, of alignment and of capacity | `ServiceChooser` |
| `Notifyd` | the daemon's reactor and updater, the index, the compile and trigger on the broker's side, the second-wide clock | |
| `DeliveryProofs` | theorems of what is delivered: the records of a request to its watchers, the changes of profiles to clients | `StatusCatalog`, `Notifyd` |

`MC*` modules give the constants of the TLC instances.

How states and actions correspond:

* `LockQueue`: `queue` is `LockQueue.queue`; `phase[k]` is the program counter of
  the thread that owns key `k`; what the code does while it holds the condition
  variable is one action, each `transition()` outside it another. `Enqueue`,
  `Recheck` and `Dequeue` are the critical sections of `acquire`, the return of
  `wait()`, and `release`.
* `PlenaryTransaction`: `disk`, `built` and `profile` map a path to a content and
  a time in seconds. `Stash`, `Write` and `Restore` take one template of the
  loop each. A template's kind says what the session has made of its object
  (new, deleted, incomplete, moved, changed). `write()` and `transaction()` are
  the two entries. `Commit` and `CommitFails` come after the files are done and
  the lock is free. `FlushObject` is one object of `aq flush`, which keeps, writes,
  removes or skips its template, and `FlushObjectFails` one it reports.
* `DsdbRunner`: `actions` and `rollback_list` are the fields of that name; `Run`
  is one command of `commit`, with the variants of an ignored failure, a
  failure and a timeout after the effect, and `RunSwallowed` that of an exception of
  another kind, which an action with an error filter swallows; `Rollback` is one of
  `rollback`.
* `Lifecycle`: a command is an operator from a database to the set of databases
  it may leave, and has no outcome where the code raises. `LifecycleSessions`
  reuses them: `Read` computes a result and keeps the columns that differ,
  `Commit` applies them to what is committed by then.
* `StatusCatalog`: one action per reactor callback; a record is two steps,
  because the logger picks its handlers before `publish` takes the lock.
* `BrokerCommand`: `pc[c]` walks through `invoke_render`; `seen` is the row as
  the session of the command has it, `file` the template, `dsdb` the entry,
  `db` the committed row. `published` and `unheard` are the commands whose events the
  handlers sent, or failed to send.
* `Branches`: `row`, `review` and `host` are what is committed, `king` and `work`
  the references of template-king and the checkouts, `thread[t]` the command a
  thread runs with its next step. A commit is the set of changes it contains: an
  ancestor is a subset, a merge a union, and a push without force is accepted
  if it loses nothing. Each push, clone or merge is a step of its own; the fetch and
  the reset of a checkout are one, because whoever moves a reference checks it out
  afterwards. A command's columns are sent in its last step, those that differ from
  what it has read.
* `ServiceChooser`: `bound`, `member`, `limit`, `mapped` and `requires` are the
  database, `thread[t]` the command with its objects still to do, its own
  changes, its row locks and its `ChooserCache`. The work on one object is one
  step, so a command on several objects can be interleaved with another.
* `Notifyd`: `lock` counts how often the re-entrant lock is held; the steps of
  `updateFromQueue` and of `build_index` are actions of the updater. Files and
  index map an object to a time in seconds.

## 3. Runs

| run | instance | what it shows |
|---|---|---|
| `lock_queue` | 3 threads; 6 key shapes: global compile, domain compile, host update with a shared personality, exclusive personality, sync, no lock | exclusion, order, no lost wake-up, no duplicate, every request granted, implements `FairKeyedLock` |
| `plenary_transaction` | 2 templates of 11 kinds, both entries, both orders; failure at every step, the commit included, crash, flushes that fail for any object, compile; 6 seconds of clock, steps that end in their second or the next | `DiskMatchesOutcome`: all or nothing, and done is what the database says; flush repairs what it does not report; a later compile serves the database; a profile that went comes back |
| `dsdb_runner` | every change of one or two addresses over 3 names, 4 addresses, 3 interfaces, 2 MACs, and the swap; DSDB in step or lacking any entries | no refusal unless the primary entry is replaced; `DsdbMatchesOutcome`: committed is new, rolled back is old, but for what a swallowed exception left; a doubtful timeout stays local |
| `lifecycle` | 2 hosts, 2 clusters, 1 VM, capacity 2; symmetric | barrier, capacity, node indexes, legal steps, advertising |
| `lifecycle_sessions` | 2 sessions, 2 hosts, 1 cluster; symmetric | `SerialUnlessStale`: a commit whose reads are still current is a step of the serial machine, so implements `Lifecycle`; `NoMembershipOverwritten`: a stale one ends no membership it has not found |
| `status_catalog` | 2 watchers by either id, 1 request, 3 records, 1 kept debug record | `DeliveredExactly`: what each watcher has been handed is, in order and once, what it has to be; the newest debug record is kept; watchers return unless they are replaced |
| `broker_command` | 2 changes of one row, 1 flush, 1 lock-free command; 3 threads, pools of 2; failure at every step | the audit trail, what the caller and the event listeners are told, the three stores after serial commands, lock-free commands return unless every thread waits for a lock |
| `broker_flush` | 1 change, 1 flush | violated: `FlushRefreshes` |
| `notifyd` | 1 object, 3 seconds, 1 fault, the lock held at most twice | no change is missed, the clean-up keeps what is newest, the next build catches up, the daemon stops |
| `branches` | 2 domains, 1 sandbox, 2 changes, 3 commands, 2 at a time, 1 fault; symmetric | places agree at rest, deployments survive, tracking domains are behind, rollbacks stand, approvals are current, a deployment brings only its own |
| `service_chooser` | 2 hosts, 1 cluster of 2, 2 instances, limits none, 1 and 2, 3 commands, 2 at a time; symmetric | members are aligned, one binding, no command overbooks by itself |
| `chooser_past_use` | the same, one thread | violated: `PastUseKept` |

The largest runs have 1 143 392 (`lifecycle_sessions`), 894 732 (`service_chooser`)
and 761 528 (`branches`) distinct states. Every property has a mutant of a
definition, listed in `PROJECT.json`, that violates it.

The type invariants (`TypeOK`, `Typing`) are kept as definitions and are no
property of a run: they are conjuncts of the invariants that the proofs carry
where a module has proofs, and were checked by TLC with each module.

### Bounds, and why they are enough

* Three keys of six shapes have every kind of conflict (shared against
  exclusive both ways, exclusive against exclusive, none, merged), and a
  request that is blocked by one and passes another. More keys are covered by the
  proofs.
* Two templates: one that succeeds before one that fails, and the two orders in
  which `self.plenaries` may hold them. `MaxTime` is reached only by the longest
  behaviours. A step ends in the second it begins in or in the next: the whole-second
  comparisons see both.
* Two addresses: a primary one and one that hangs on it. This is what ordering
  constraints of DSDB are about. The proofs cover any number of addresses.
* Two hosts and two clusters: moves, swaps of node indexes, promotion of one of
  two members. `max_hosts` 2 is reached; `down_hosts_threshold` 0 means that a
  cluster with a VM must keep a host. Three of the nine host statuses (`blind`,
  `install`, `reinstall`) are not requested in the run: no code mentions them
  outside the table.
* One request with three records and one slot for debug records: the slot is
  replaced while a watcher is between two positions. `MaxRecords` caps the
  worker's loop. Both watchers may wait for the same request id. Requests share no
  state but the two dicts they are keys of.
* Two pools of two connections and three locking commands: the pool of the locking
  commands is exhausted while one of them waits. Three threads for four commands:
  the locking ones can keep all of them, or leave one.
* One object of the daemon: objects share only the lock and the flag. Three
  seconds hold two compiles in different seconds with a build between or
  across them; `MaxHeld` 2 is a leaked wait and the acquire after it. The
  proofs cover any number of objects and any bounds.
* Three commands on branches: one that prepares (a publish, a rollback, a
  deployment) and two that race. Two changes tell a lost push from a kept one.
  The initial states have every tracking relation of one level.
* Three binding commands: two that fill an instance and one that is chosen
  under it. Limits and maps change between commands. A cluster of two counts twice.

`CHECK_DEADLOCK FALSE` is given where a run ends: a transaction, an update, a set of
commands or a request that is done.

### Fairness

* `LockQueue`: a thread that is awake runs, and the work under a lock ends. The
  second is what callers arrange (compiles and DSDB calls end or time out), and
  nothing obliges a thread to call `acquire`. `EveryRequestGranted` needs both;
  no other property does.
* `StatusCatalog`: the reactor runs a callback that is due, a worker's command
  ends and its connection is closed. Clients come and go freely: no fairness.
* `BrokerCommand`: steps that touch only the database and the reactor are taken;
  the steps under a lock have no fairness at all, so `LockFreeReturns` does not
  rely on lock holders. A step may take its failing branch instead of its
  successful one.
* `Notifyd`: the updater runs when it can (weak), its timed wait ends (weak), and
  a line that has arrived is handled (strong: the reactor's attempt at the lock
  is enabled again and again between two builds, not continuously). Nothing
  obliges the broker to compile, nor an operator to stop or restart the daemon.

### Disagreements with the documentation or the comments

Two runs end in a counterexample, and `findings` quotes the line each refutes:

* `FlushRefreshes`: the plenary lock is released before the commit, so a flush
  may restore the old content of a template, and nothing writes it again.
* `PastUseKept`: in one `reconfigure --list`, a host for which an instance is full
  shortens the cached list of candidates, and the next host, which was using
  that instance within its limit, loses it.

The following were met too. No run keeps them; where it says so, a change of the
instance shows them:

* `Barrier` under concurrency: "hosts will only be promoted when the cluster as a
  whole is marked ready" (`src/doc/commands/cluster.xml:79`). Two sessions that
  decide on what they read, one about the host and one about the cluster, break
  it (check `Barrier` with `MCLifecycleSessions`); run one after the other, they
  cannot (run `lifecycle`, theorem `BarrierHolds`).
* `restore_stash` leaves the restored template with a new time so that it will be
  recompiled (`worker/templates/base.py:302`), but within the second of the
  failed compile that time is not newer (`worker/templates/domain.py:262`).
  `NextCompileServesDatabase` excepts the templates this has happened to
  (`SameSecond`); without the exception TLC finds them in `MCPlenaryTransaction`.
* `del_host` removes the profile a host is served before it tells DSDB
  (`worker/commands/del_host.py:136`); if DSDB refuses, the templates are put back and the
  profile is not. `ProfileComesBack` says that only such a deletion loses the
  profile of a host that stays, and that the next compile serves it again.
* When the session's commit fails after the files are done (`worker/broker.py:302`),
  nothing puts the templates back; a flush does. A flush passes over a host that is not
  compileable, and leaves a template of it that should not be there.
* "regexp of error messages in the output of dsdb that should be ignored"
  (`worker/processes.py:554`): an action with such a filter swallows any other exception
  as well, whatever its message (`worker/processes.py:493`), counts as done and is
  undone in a rollback. An entry that should have gone stays although the
  command succeeds. `DsdbMatchesOutcome` excepts what hangs on such an entry.
* The failure of an event handler is logged and the command reports success
  (`worker/exporter.py:186`): nobody outside learns of the change.
  `EventsOfCommitted` excepts it (`unheard`).
* "Any command with this flag set [...] should not have to wait on commands that are
  potentially all blocking on the same lock" (`worker/broker.py:135`): each waiter keeps
  its thread, and with as many of them as threads (`twisted_thread_pool_size`,
  `src/etc/aqd.conf.defaults:162`) a lock-free command that is still queued waits for
  the lock as well. `LockFreeReturns` excepts it (`ThreadsTaken`); without the exception
  TLC finds it in `MCBrokerCommand`.
* A host that joins a cluster between the check of `del_host`
  (`worker/commands/del_host.py:115`) and its commit loses the new membership
  silently: the schema deletes the row with the host.
* "Add the primary address first, and delete it last"
  (`worker/processes.py:1016`) is not enough for
  `update_network_device --ip --rename_to`
  (`worker/commands/update_network_device.py:122`): the primary entry has
  neither its name nor its address any more, so it is deleted and another one
  added, while the device's other addresses stay and hang on the old one. A DSDB that
  minds refuses the deletion, and the command fails with everything as it was.
  `NeverRefused` excepts this change (`PrimaryStays`); without the exception
  TLC finds it in `MCDsdbRunner`. It came up in the proof, where an earlier
  assumption that no command does this could not be justified.
* `wait_for_requestid` keeps one watcher per request id: a second one replaces the
  first (`worker/messages.py:201`), which is never let go, against
  `worker/messages.py:179`. `PendingReturns` excepts it (`Replaced`); without the
  exception TLC finds it in `MCStatusCatalog`.
* `show_request` for a request that ended more than a minute ago does not return;
  `src/doc/commands/show_request.xml:52` expects that it does.
* A virtual machine can be moved into a decommissioned cluster by
  `update_machine --cluster` (`move_vm`, `worker/commands/update_machine.py:195`)
  although `add_machine` refuses it (`worker/commands/add_machine.py:72`).
* `reset_advertised_status` racing a change to ready leaves a ready host that is
  not advertised, because an unchanged column is not sent.
* The chooser counts an instance that is unbound before it was looked at after
  the removal, and then takes it off once more (`worker/services.py:57`). Of a
  member of a cluster that is counted with all the hosts it may have, it takes
  off a client that did not count (`worker/services.py:160` against
  `aqdb/model/service_instance.py:76`), so that a later object of the command may
  find room that is not there. `NeverOverbooksAlone` excepts commands that have
  done either. It reads client counts
  without a lock, so that two commands may fill the last place; a host of an
  aligned cluster is counted although the cluster's footprint holds its place,
  which refuses more than it must. `reconfigure --list` reads the bindings
  before it has the row lock: `OneBinding` excepts lists that overlapped.
  `AlignedMembers` excepts cluster commands that overlapped, because the cluster of a
  host is read without a lock.
* Overlapping branch commands can give an approval to a newer commit (a publish
  that has read the review before it was approved), and a deployment may pass
  the check of an archived domain that another command is archiving.
  `ApprovalIsCurrent` and `RollbackStands` are about commands that do not
  overlap. Two syncs of a domain leave, as the commit to roll back to, the one the
  first has just set (`worker/dbwrappers/branch.py:365`).
* A domain whose format changes has two outputs of an object until the next
  build. If the outputs of one compile fell into two seconds, that build would
  keep the later one only (`notify/index.py:156`); the model writes one
  format per compile.

## 4. Proofs

Proved with TLAPS, for all values of the constants that satisfy the named
assumptions:

* `LockQueueProofs`, from `ShapeAssumption`: `Typing`, `QueueIntegrity`, `InOrder`,
  `WakeupsNotLost`, `Exclusion` and `Refinement` (the queue implements
  `FairKeyedLock`). Mutual exclusion is not inductive, because a grant looks only
  at the keys ahead in the queue. The invariant adds that the queue holds
  exactly the pending keys, each once (`NotQueuedTwice`), and that a holder has
  no conflicting key ahead (`GrantedInOrder`); of two conflicting holders one
  would be ahead of the other, and conflicts are symmetric. The refinement maps
  `waitsFor[k]` to the conflicting keys ahead of `k`.
* `LifecycleProofs`, from `LifecycleAssumption`: `BarrierHolds`,
  `LegalStepsHold` and, for the references they need, `NoDanglingRowsHolds` for the
  serial machine, with any number of hosts, clusters and VMs and any limits. One lemma per command says that from a good
  database it leaves only good ones. The barrier alone is not inductive: a
  host whose cluster does not exist, or a host that does not exist but has a
  membership, would break it at the next `add_cluster` or `add_host`; so the
  invariant carries the references along. In `ClusterTransitionGood` the point is
  that a cluster that was not ready had no ready member, and one that was has
  demoted its own before it changes. `LegalStepsHold` is an action property from
  the same invariant: the steps no request names (a promotion, a demotion, a
  cascaded decommission, the stop at almostready, the adjustment on joining) are
  edges of the table because of the facts in `TableFacts`.
  `CapacityHolds`, `NodeIndexHolds` and `AdvertisedHolds` are from an invariant of
  their own: `LimitInv` says of every cluster that its members fit and of every two
  members that their indexes differ. That the smallest free index of `FreeIndex`
  exists at all is a pigeonhole: the indexes taken are the image of a finite set of
  members. `FlagInv` says that a host that is ready is advertised, which the commands
  keep one by one.
  For the sessions: `SerialHolds` (a commit whose reads are still current is a step of
  the serial machine) and `MembershipHolds` (one whose reads are stale ends only
  memberships it found: an insert is refused where there is another row, and a deletion
  matches the row by its key). `SessionInv` says that a
  session nothing was committed under holds the work of a command on the rows
  that are there (`Current`), and that whatever is sent is of the types of the
  columns, a host that leaves its cluster without an index and one that joins with
  one (`Sendable`).
* `BrokerCommandProofs`, from `BrokerAssumption`, for any set of commands and any
  pools: `AuditHolds`, `ToldHolds` and `SerialHolds`. The invariant relates the
  program counter of a command to its traces: what its audit record says
  (`Recorded`), what has been told outside (`Told`), that commands which have not
  overlapped hold the row one at a time (`OneByOne`), and which of row, template
  and entry have its value by then (`Agreed`), so that failures leave what was
  there; `Queued` says that who waits for a thread or a connection has done nothing.
  `ToldHolds` has the lost events as its exception, not as an assumption.
* `DeliveryProofs`, for the daemon from `NotifydAssumption`, for any set of objects and any clock:
  `NothingMissedHolds` and `CleanupHolds`. What is newer than the index is pending,
  in the daemon's hands or about to be triggered (`Missed`). This needs that
  a build which has looked at an object does so at least a second after its
  last compile started (`Ages`): the one-second sleep of the trigger is what makes
  equal times mean equal profiles. `Kept` says that what the clean-up is to remove
  is older than what is there.
* `PlenaryProofs`, from `KindAssumption` and `CollectionAssumption`, for any finite
  collection of templates of any kinds and any times: `OutcomeHolds`,
  `FlushRepairsHolds`, `ProfileComesBackHolds` and `CompileServesHolds`. How far a loop
  has come is read off what it still has to do (`Progress`): what is not in `todo` any
  more has been stashed, written or restored, and the rest is as the loop found it.
  `Stashed` says that a stash is what the file was before the command, so that
  restoring it is undoing. A flush starts from any state a crash may have left, so its
  invariant is about what it has done: what is neither in `left` nor in `failed` is as
  wanted (`Flushing`), and no object of it disturbs the template of another.
  `Missing` says of an object that stays and has lost its profile that a deletion took
  it and took the output as well, so that the next compile must build it.
  `CompileServesHolds` assumes nothing about how long a step takes. An output is older
  than its template or of the same content until templates are put back, and may
  have the template's second after that (`Fresh`): this is the exception
  `SameSecond` of the property, and the proof shows that it is the only one.
* `BranchesProofs`, from `BranchesAssumption`, for any branches, changes, threads and
  commands: `DeploymentsStay`, `DeploymentsBringTheirOwn`, `RollbacksStand`,
  `ApprovalsAreCurrent`, `TrackersStayBehind` and `PlacesAlwaysAgree`. The
  invariants are layers, each of them proved on top of the ones before it:
  + `Base`: a command is at a step of its own kind (`Shape`), and what it has read of
    the rows stays true until it ends (`Rooted`), because nothing else runs
    while a branch is deleted (`Alone`), nothing else adds the branch it adds
    (`Adders`), and what is tracked exists and does not track (`Roots`). No
    property is inductive without it: a command is several steps away from its reads.
  + `Keeping`: a domain that is going to be deleted is in the trash; for
    `DeploymentsStay`.
  + `Vets` and `Sures`: the review a command is going to write is the one it has
    read, and the domains it has to sync it found to be valid, while no command
    overlaps; for approvals and rollbacks.
  + `Own`: the checkout of a domain that does not track is never ahead of its
    reference, so what the check finds in the one is in the other by the push.
  + `Bounds`: a tracking domain, its checkout, the commit it can be rolled back to,
    and what a command is about to write there are all within the tracked reference.
  + `Agree`: where row, reference and checkout differ, a command is between two
    of its steps. The proof does not need the domain's compile lock: whoever
    moves a reference checks it out afterwards, and the last one to do so is right.
* `DeliveryProofs`, for the catalog from `StatusAssumption`: `NewestKept` and `DeliversExactly`.
  The positions in the queue of debug records are ascending and are exactly those
  of the debug records that are still there (`Bounded`), so the one that is dropped
  is the oldest. A subscriber has been handed all records it wants so far
  (`Subscribed`), in ascending order (`Ordered`), and who waits for the request id
  nothing (`Waits`); an ascending list is determined by the set of its members.
* `ServiceChooserProofs`, from `ChooserAssumption`, for any hosts, instances and
  threads: `OneBindingHolds`, `AlignedMembersHolds` and `BooksWithinLimits`. Single
  bindings in the database are not inductive: the invariant says it of what every
  session sees (`Single`), which needs that a command adds only to rows it has
  locked (`WellFormed`), that a row has one holder (`Apart`), and that bindings read
  before the lock are still those of the database when no command overlaps
  (`Loaded`). Alignment adds that a command removes only from rows it has
  locked (`Orderly`), and that the members will be bound as their cluster when a
  command commits, those it still has to work on apart (`Fits`).
  `BooksWithinLimits` follows the counts of the cache: what has been counted is at
  least the number of clients there will be after the commit, and what has not been
  counted the command has not touched (`Tallies`); no instance will be above its
  maximum that is not so already (`Within`). The lemmas `ClientsGain` and
  `ClientsLoss` say that an object changes a count by its footprint at most and
  at least: the second is false for a member of a cluster that is counted as a whole,
  which is how the exception of `NeverOverbooksAlone` was found.

* `DsdbProofs`, from `ChangeAssumption`, for any snapshots, in any order of their
  entries, with or without the swap, and whatever DSDB lacked: `NeverRefusedHolds`,
  `DsdbMatchesOutcomeHolds` and `DoubtIsLocalHolds`. Nothing in a state says how far
  the plan has come, so the invariant carries a route: the plan, a picture of
  DSDB after each of its actions, and the place `k` where the runner is (`Along`).
  + The planner is two folds over lists. `PlanUnrolls` and `OnlyUnrolls` turn them
    into lists of partial results; the loop keeps that what it has planned is
    what the entries seen so far ask for (`Partly`). So the plan has every action the
    change asks for once, in eight stages (`UpdateMachineStaged`).
  + A picture follows from the actions in effect (`ViewOf`). Each action moves one
    picture to the next and its rollback moves it back (`ViewStep`, with a lemma per
    kind of action), and in no picture do two entries share a name or an address
    (`PictureSound`): that a parked address, a new name and an added entry are
    free at that point is decided there, from the order of the stages.
  + On the way forth DSDB is the picture without what it lacked (`Forth`); on the way
    back it may have got some of that (`Restored`), because the rollback of an ignored
    deletion adds; after a timeout it is off by one entry in each direction
    (`Near`), which undoing other actions does not make worse (`NearBack`).
  + An exception that is swallowed leaves the entry of a deletion behind. It stays
    beside the picture (`Beside`): no later action of the plan is about it, none adds
    its name or its address, and none removes what hangs on it (`Swept`, `Apart`,
    `LeftRun`). On the way back the addition that would undo such a deletion is
    refused, because the entry is still there (`LeftBack`), so that a rollback which
    reports no failure has had none to undo.

Where an argument is by induction on a length or a bound, it is made with the smallest
counterexample (`Counting` in `DsdbProofs`: the numbers up to a bound are well-founded),
since the library's induction theorems take an operator and cannot be used.

Only model-checked:

* Liveness and what needs ENABLED: `EveryRequestGranted`, `LockFreeReturns`, the
  catalog's watchers, the daemon's next build and stop. They are outside the
  prover's reach.
* The two disagreements are counterexamples of a run, and nothing is proved of them.

## 5. Assumptions about what is outside the code

* DSDB keeps names and addresses unique and refuses to remove a primary entry others
  hang on, as the order of the planner implies (`worker/processes.py:1016`).
* What commands do to a machine's addresses (`IsUpdate`, `IsSwap`): an entry does not
  get the name or the address another one gives up in the same command. A name or an
  address that is taken must be unused (`dbwrappers/hardware_entity.py:208`, `:317`),
  and `update_host` relies on it (`worker/processes.py:936`). The name of the machine stays
  with the entry that has it, because a rename changes that name in place.
  The address `next_ip` gives for the swap is free
  (`worker/commands/update_machine.py:477`).
* A machine whose addresses hang on its name has that name in the snapshot
  (`IsSnapshot`). It has not when the primary address is on a network that is not
  internal (`worker/processes.py:847`); such a machine is not covered.
* panc recompiles a template when it is newer, in whole seconds, than its output
  (`worker/templates/domain.py:265`).
* The database is READ COMMITTED, locks a row from its update to the end of the
  transaction, and enforces the declared constraints at the flush; SQLAlchemy
  sends the columns that changed, and finds out when an updated row is gone.
* Twisted gives queued work to threads in order; SQLAlchemy's pool with an empty
  `pool_timeout` waits without limit (`src/etc/aqd.conf.defaults:55`).
* A session's reads are one step and its writes and commit another: behaviours
  are left out, none is added.
* git: a push without `--force` is refused unless it is a fast-forward; a fetch
  and `reset --hard` make the checkout what the reference is. Merges succeed or
  the command fails; a merge has the changes of both sides.
* Within one object, the chooser's reads and writes are one step: the row lock it
  takes first keeps other commands that lock the same row out.

## 6. Not modelled, and why

* *DNS and address assignment, networks, interfaces* (`dbwrappers/dns.py`,
  `interface.py`, `ib_services.py`): address pools and the lifetime of DNS
  records depend on the whole schema of networks, of which a small faithful part
  was not found. Infoblox is called beside DSDB as one step that may fail;
  `update_machine` calls it after its transaction
  (`worker/commands/update_machine.py:544`), which undoes DSDB but leaves the
  templates.
* *Change management, authorization, entitlements*: stateless checks on external
  data that refuse a command; `BrokerCommand` has the refusal.
* *Formatters, template content, the parser, the clients, the consistency checker,
  the schema*: text, or tables without control of their own. They are most of
  the code: the map covers the concurrent and stateful core, a few thousand lines of
  83 000.
* *The other commands*: about five hundred that check arguments and change rows in
  one session. `BrokerCommand` is their common shape.
* *Nested locks*: commands that take a second key while they hold one.
* *`add_required_service`, `del_required_service`*: they change what is required
  without binding anything; in `ServiceChooser` only a command that binds a host changes
  what it requires.
* *Objects whose profile is not of a name in `ms.com`*: the daemon never notifies
  them (`notify/index.py:257`); the objects of `Notifyd` are those it does.
* Undefined by the libraries, not modelled: `request.write` from worker threads
  (`worker/commands/show_request.py:51`), records logged after `finish`
  (`logger.py:72`), `removedirs` of one thread against `makedirs` of another
  (`utils.py:368`).

## 7. Plan

Done: lock queue, templates, DSDB, lifecycle (serial and sessions), catalog,
dispatch, daemon, branches, chooser; proofs of the safety properties of the queue, the
templates, the lifecycle (serial and sessions), the dispatch, the daemon, the catalog,
the branches, the chooser and the DSDB runner. Next, in this order:

1. Machines whose primary address is not told to DSDB, in `DsdbRunner`.
2. `AddressBook`: DNS records and address assignment (`grab_address`, aliases,
   `delete_dns_record`).
3. `BrokerCommand` with `update_machine`'s Infoblox step outside the transaction.
4. Nested locks: commands that take a sync key and then a compile key.

Runs are kept few: a component gets one run for what holds, and one more only
for a disagreement.
