------------------------------ MODULE Branches ------------------------------
(***************************************************************************)
(* Template branches: the rows of aqdb (aqdb/model/branch.py, review.py),  *)
(* the references of template-king, and the checkouts of the domains, as   *)
(* the commands of worker/commands change them (sync, publish, deploy,     *)
(* rollback, validate, add_domain, del_domain, add_sandbox, del_sandbox,   *)
(* update_domain, update_sandbox, request_review, update_review,           *)
(* del_review, manage), with worker/dbwrappers/branch.py and GitRepo in    *)
(* worker/processes.py.                                                    *)
(*                                                                         *)
(* A command runs in a thread of the broker.  It reads rows at its start,  *)
(* runs git commands one after the other, and its columns are committed    *)
(* when it has returned; nothing but the checkout of a domain is locked    *)
(* (CompileKey), so the steps of two commands interleave.  A commit is the *)
(* set of changes it contains: an ancestor is a subset, a merge a union,   *)
(* and a push without force is accepted if it loses nothing.               *)
(*                                                                         *)
(* Bounds: MaxCommands commands, MaxFaults failures of git or the database.*)
(***************************************************************************)
EXTENDS Naturals, FiniteSets

CONSTANTS Domains, Sandboxes, Changes, Threads,
          None,               \* no row, no reference, no directory, no commit
          Trunk,              \* the domain everything is deployed to
          MaxCommands, MaxFaults

Branch  == Domains \cup Sandboxes
Commits == SUBSET Changes

Row == [tracked : Branch \cup {None}, valid : BOOLEAN, autosync : BOOLEAN,
        rollback : Commits \cup {None}, archived : BOOLEAN, allow : BOOLEAN,
        base : Commits]

Review == [source : Sandboxes, commit : Commits,
           approved : {"unset", "yes", "no"}]

\* A column of a row that a command is going to write
Cell == [branch : Branch, name : {"valid", "autosync", "archived", "allow"},
         value : BOOLEAN]
        \cup [branch : Branch, name : {"rollback"}, value : Commits \cup {None}]

\* What it is going to write of the review
Edit == [new : BOOLEAN, source : Sandboxes, commit : Commits \cup {None},
         approved : {"unset", "yes", "no", "keep"}]

\* A command in its thread: what it is and its next step (op, at), the branch
\* it is about and the other one it names, the commit it works with, the domains
\* it has still to sync, and what it is going to write.
Job == [op : {"sync", "publish", "deploy", "rollback", "validate", "add",
              "del_domain", "del_sandbox", "update", "manage", "request",
              "review", "del_review"},
        at : {"sync", "checkout", "clone", "push", "target", "force", "branch",
              "checkout1", "insert", "trash", "delete", "reference", "remove",
              "review", "commit"},
        branch : Branch, other : Branch \cup {None},
        commit : Commits \cup {None}, todo : SUBSET Domains, set : SUBSET Cell,
        change : Edit \cup {None}, flag : BOOLEAN]

ASSUME BranchesAssumption ==
    /\ Trunk \in Domains /\ Domains \cap Sandboxes = {}
    /\ MaxCommands \in Nat /\ MaxFaults \in Nat
    /\ \A c \in Commits : c # None
    /\ None \notin Branch \cup Row \cup Review \cup Edit \cup Job

VARIABLES
    row,       \* row[b]: the committed row of a branch, or None
    review,    \* the review of a sandbox for Trunk, or None
    host,      \* the branch of a host
    king,      \* king[b]: the reference in template-king, or None
    trash,     \* the trash branch
    work,      \* work[d]: the checkout of a domain, or None
    thread     \* thread[t]: the command a thread runs, or None

\* auxiliary: the bounds, and what has happened
VARIABLES
    started,   \* commands begun
    faults,
    overlap,   \* "no", "yes", or "deletion" if one of the commands deletes
    vetted     \* the commit the last approval was about

database == <<row, review, host>>
git      == <<king, trash, work>>
aux      == <<started, faults, overlap, vetted>>
vars     == <<database, git, thread, aux>>

Deleting == {"del_domain", "del_sandbox"}

TypeOK ==
    /\ row \in [Branch -> Row \cup {None}]
    /\ review \in Review \cup {None}
    /\ host \in Branch
    /\ king \in [Branch -> Commits \cup {None}]
    /\ trash \in Commits
    /\ work \in [Domains -> Commits \cup {None}]
    /\ thread \in [Threads -> Job \cup {None}]
    /\ faults \in Nat
    /\ overlap \in {"no", "yes", "deletion"}

Exists(b)   == row[b] # None
Trackers(b) == {d \in Domains : Exists(d) /\ row[d].tracked = b}

NewRow(tracked, base) ==
    [tracked |-> tracked, valid |-> TRUE, autosync |-> TRUE, rollback |-> None,
     archived |-> FALSE, allow |-> TRUE, base |-> base]

\* Every branch exists.  A domain that tracks nothing may have had a change of
\* its own deployed to it, and a sandbox that is tracked one published to it,
\* with --nosync.
Init ==
    /\ \E tracks \in [Domains \ {Trunk} -> {None, Trunk} \cup Sandboxes],
          own \in [Branch \ {Trunk} -> {{}} \cup {{x} : x \in Changes}] :
        /\ \A d \in DOMAIN tracks : tracks[d] # None => own[d] = {}
        /\ \A s \in Sandboxes :
            own[s] # {} => \E d \in DOMAIN tracks : tracks[d] = s
        /\ row = [b \in Branch |->
            NewRow(IF b \in DOMAIN tracks THEN tracks[b] ELSE None, {})]
        /\ king = [b \in Branch |-> IF b \in DOMAIN own THEN own[b] ELSE {}]
        /\ work = [d \in Domains |-> king[d]]
    /\ review = None /\ host = Trunk /\ trash = {}
    /\ thread = [t \in Threads |-> None]
    /\ started = 0 /\ faults = 0 /\ overlap = "no" /\ vetted = None

-----------------------------------------------------------------------------
(* The life of a command.                                                   *)

Start(op, at, b) ==
    [op |-> op, at |-> at, branch |-> b, other |-> None, commit |-> None,
     todo |-> {}, set |-> {}, change |-> None, flag |-> FALSE]

Met(op) ==
    LET ops == {op} \cup {thread[u].op : u \in {v \in Threads : thread[v] # None}}
    IN  IF \A u \in Threads : thread[u] = None THEN overlap
        ELSE IF ops \cap Deleting # {} \/ overlap = "deletion" THEN "deletion"
        ELSE "yes"

Begin(t, command) ==
    /\ thread[t] = None /\ started < MaxCommands
    /\ thread' = [thread EXCEPT ![t] = command]
    /\ started' = started + 1
    /\ overlap' = Met(command.op)
    /\ UNCHANGED <<database, git, faults, vetted>>

At(t, step) == thread[t] # None /\ thread[t].at = step
Op(t)       == thread[t].op
GoTo(t, record) == thread' = [thread EXCEPT ![t] = record]

\* The command raises, or has returned: its session ends.  git stays as it is.
Ends(t) == thread' = [thread EXCEPT ![t] = None]

\* A column is sent only if it differs from what the command has read.
Column(b, name, value) ==
    IF row[b][name] = value THEN {}
    ELSE {[branch |-> b, name |-> name, value |-> value]}

Sent(set) ==
    [b \in Branch |->
        IF \A s \in set : s.branch # b THEN row[b]
        ELSE [name \in DOMAIN row[b] |->
                IF \E s \in set : s.branch = b /\ s.name = name
                THEN (CHOOSE s \in set : s.branch = b /\ s.name = name).value
                ELSE row[b][name]]]

-----------------------------------------------------------------------------
(* sync_domain and sync_all_trackers.                                       *)

\* Only rollback holds a domain's CompileKey from one step to the next.
KeyFree(t, d) == \A u \in Threads \ {t} :
    ~(At(u, "checkout") /\ Op(u) = "rollback" /\ thread[u].branch = d)

\* A non-forced push; it creates a reference that is not there.
Accepts(b, c) == c # None /\ (king[b] = None \/ king[b] \subseteq c)

\* One domain is done: the next one, or what the command does after syncing
Synced(r, d) ==
    LET left == r.todo \ {d} IN
    [r EXCEPT !.todo = left,
              !.at = IF left # {} THEN "sync"
                     ELSE IF r.op = "publish" THEN "review" ELSE "commit"]

\* An error ends aq sync; publish and deploy log it and go on.
SyncError(t, d) ==
    IF Op(t) = "sync" THEN Ends(t) ELSE GoTo(t, Synced(thread[t], d))

\* "push . tracked:domain" in template-king
SyncPush(t, d) ==
    /\ At(t, "sync") /\ d \in thread[t].todo
    /\ LET c == IF Exists(d) /\ row[d].tracked # None THEN king[row[d].tracked]
                ELSE None
       IN IF Accepts(d, c)
          THEN /\ king' = [king EXCEPT ![d] = c]
               /\ GoTo(t, [thread[t] EXCEPT !.at = "checkout", !.other = d])
          ELSE SyncError(t, d) /\ UNCHANGED king
    /\ UNCHANGED <<database, trash, work, aux>>

\* With the key: fetch, remember HEAD, reset --hard.  The three are one step,
\* which reads the reference once: whoever moves it in between checks out later.
SyncCheckout(t) ==
    /\ At(t, "checkout") /\ Op(t) # "rollback"
    /\ LET d == thread[t].other IN
        /\ KeyFree(t, d)
        /\ IF work[d] # None /\ king[d] # None
           THEN /\ work' = [work EXCEPT ![d] = king[d]]
                /\ GoTo(t, [Synced(thread[t], d) EXCEPT
                    !.set = @ \cup {[branch |-> d, name |-> "rollback",
                                     value |-> work[d]]}])
           ELSE SyncError(t, d) /\ UNCHANGED work
    /\ UNCHANGED <<database, king, trash, aux>>

\* trackers whose autosync is off are skipped
AutoTrackers(b) == {d \in Trackers(b) : row[d].autosync}

StartSync(r, b) ==
    LET d == IF b \in Branch /\ Exists(b) /\ row[b].autosync THEN AutoTrackers(b)
             ELSE {}
    IN  Synced([r EXCEPT !.todo = d], None)

\* mutant: is_sync_valid is not looked at
SyncAny(t, d) ==
    /\ Exists(d) /\ row[d].tracked # None
    /\ Begin(t, [Start("sync", "sync", d) EXCEPT !.todo = {d}])

Sync(t, d) ==
    /\ Exists(d) /\ row[d].tracked # None /\ row[row[d].tracked].valid
    /\ Begin(t, [Start("sync", "sync", d) EXCEPT !.todo = {d}])

-----------------------------------------------------------------------------
(* publish and deploy work in a temporary clone and push its result.        *)

\* mutant: a sandbox with trackers may be rebased
PublishAny(t, b, rebase) ==
    /\ Exists(b)
    /\ Begin(t, [Start("publish", "clone", b) EXCEPT
            !.flag = rebase, !.set = Column(b, "valid", TRUE)])

Publish(t, b, rebase) ==
    /\ Exists(b)
    /\ rebase => Trackers(b) = {}
    /\ Begin(t, [Start("publish", "clone", b) EXCEPT
            !.flag = rebase, !.set = Column(b, "valid", TRUE)])

\* The bundle adds a change to the branch or, with --rebase, replaces it by
\* anything that contains the commit the sandbox began with.
PublishClone(t) ==
    /\ At(t, "clone") /\ Op(t) = "publish"
    /\ LET b == thread[t].branch IN
        /\ king[b] # None
        /\ \E c \in Commits :
            /\ IF thread[t].flag THEN Exists(b) /\ row[b].base \subseteq c
               ELSE \E x \in Changes : c = king[b] \cup {x}
            /\ GoTo(t, [thread[t] EXCEPT !.at = "push", !.commit = c])
    /\ UNCHANGED <<database, git, aux>>

\* mutant: deploy pushes with force
AcceptsAny(t) == TRUE

PushAccepted(t) ==
    \/ Op(t) = "publish" /\ thread[t].flag
    \/ Accepts(thread[t].branch, thread[t].commit)

\* push_origin; then publish syncs the trackers, deploy the target first
PushOrigin(t) ==
    /\ At(t, "push")
    /\ LET r == thread[t] IN
        IF PushAccepted(t)
        THEN /\ king' = [king EXCEPT ![r.branch] = r.commit]
             /\ IF r.op = "deploy" THEN GoTo(t, [r EXCEPT !.at = "target"])
                ELSE \E sync \in BOOLEAN :
                    GoTo(t, StartSync(r, IF sync THEN r.branch ELSE None))
        ELSE Ends(t) /\ UNCHANGED king
    /\ UNCHANGED <<database, trash, work, aux>>

\* deploy to a domain whose trackers would be synced asks for its validation
Deployable(d, sync) ==
    /\ ~row[d].archived
    /\ sync => row[d].valid \/ Trackers(d) = {}

\* The target of a deployment to a tracking domain is the domain it tracks,
\* if that is going to be synced; otherwise there is none.
Target(d, sync) ==
    LET up == row[d].tracked IN
    IF sync /\ up \in Domains /\ row[up].autosync /\ row[d].autosync THEN up
    ELSE IF up # None THEN None ELSE d

Denied(source, target) ==
    /\ review # None /\ review.source = source /\ target = Trunk
    /\ review.approved = "no"

\* mutant: what the sandbox was branched from is not looked at
AnyHistory(source, d) == TRUE

\* The checkout of the domain contains the commit the sandbox began with.
SharesHistory(source, d) ==
    source \in Sandboxes => work[d] # None /\ row[source].base \subseteq work[d]

Deploy(t, source, named, sync) ==
    /\ Exists(source) /\ Exists(named)
    /\ LET d == Target(named, sync) IN
        /\ d # None /\ d # source
        /\ Deployable(d, sync)
        /\ ~Denied(source, d)
        /\ SharesHistory(source, d)
        /\ Begin(t, [Start("deploy", "clone", d) EXCEPT
                !.other = source, !.flag = sync])

DeployClone(t) ==
    /\ At(t, "clone") /\ Op(t) = "deploy"
    /\ LET d == thread[t].branch  source == thread[t].other IN
        IF king[d] # None /\ king[source] # None
        THEN GoTo(t, [thread[t] EXCEPT !.at = "push",
                                       !.commit = king[d] \cup king[source]])
        ELSE Ends(t)
    /\ UNCHANGED <<database, git, aux>>

\* mutant: a target without autosync is not checked out
DeployTargetAuto(t) ==
    /\ At(t, "target")
    /\ LET d == thread[t].branch IN
        /\ KeyFree(t, d)
        /\ work' = IF work[d] = None \/ king[d] = None \/ ~row[d].autosync THEN work
                   ELSE [work EXCEPT ![d] = king[d]]
        /\ GoTo(t, StartSync(thread[t], IF thread[t].flag THEN d ELSE None))
    /\ UNCHANGED <<database, king, trash, aux>>

\* sync_domain of the target, whose failure is only logged
DeployTarget(t) ==
    /\ At(t, "target")
    /\ LET d == thread[t].branch IN
        /\ KeyFree(t, d)
        /\ work' = IF work[d] = None \/ king[d] = None THEN work
                   ELSE [work EXCEPT ![d] = king[d]]
        /\ GoTo(t, StartSync(thread[t], IF thread[t].flag THEN d ELSE None))
    /\ UNCHANGED <<database, king, trash, aux>>

-----------------------------------------------------------------------------
(* rollback, validate.                                                      *)

\* To the commit before the last sync, or to one that is named
Rollback(t, d, c) ==
    /\ Exists(d) /\ row[d].tracked # None /\ c # None
    /\ king[row[d].tracked] # None /\ c \subseteq king[row[d].tracked]
    /\ Begin(t, [Start("rollback", "force", d) EXCEPT
            !.commit = c,
            !.set = Column(row[d].tracked, "valid", FALSE)
                        \cup Column(d, "rollback", None)])

\* With the key from here to the checkout
RollbackForce(t) ==
    /\ At(t, "force")
    /\ KeyFree(t, thread[t].branch)
    /\ king' = [king EXCEPT ![thread[t].branch] = thread[t].commit]
    /\ GoTo(t, [thread[t] EXCEPT !.at = "checkout"])
    /\ UNCHANGED <<database, trash, work, aux>>

\* Fetch and reset --hard, under the same key
RollbackCheckout(t) ==
    /\ At(t, "checkout") /\ Op(t) = "rollback"
    /\ LET d == thread[t].branch IN
        IF work[d] # None /\ king[d] # None
        THEN /\ work' = [work EXCEPT ![d] = king[d]]
             /\ GoTo(t, [thread[t] EXCEPT !.at = "commit"])
        ELSE Ends(t) /\ UNCHANGED work
    /\ UNCHANGED <<database, king, trash, aux>>

Validate(t, b) ==
    /\ Exists(b)
    /\ Begin(t, [Start("validate", "commit", b) EXCEPT
            !.set = Column(b, "valid", TRUE)])

-----------------------------------------------------------------------------
(* Adding and deleting branches.                                            *)

\* add_branch's flush makes a second command that adds the name wait.
Adding(b) == \E t \in Threads :
    thread[t] # None /\ Op(t) = "add" /\ thread[t].branch = b

AddDomain(t, d, start, track) ==
    /\ ~Exists(d) /\ ~Adding(d) /\ Exists(start)
    /\ track => row[start].tracked = None
    /\ work[d] = None
    /\ Begin(t, [Start("add", "branch", d) EXCEPT !.other = start, !.flag = track])

AddSandbox(t, b, start) ==
    /\ ~Exists(b) /\ ~Adding(b) /\ Exists(start) /\ king[start] # None
    /\ Begin(t, [Start("add", "branch", b) EXCEPT
            !.other = start, !.commit = king[start]])

\* "git branch"; an error ends the command
AddBranch(t) ==
    /\ At(t, "branch")
    /\ LET r == thread[t] IN
        IF king[r.branch] = None /\ king[r.other] # None
        THEN /\ king' = [king EXCEPT ![r.branch] = king[r.other]]
             /\ GoTo(t, [r EXCEPT !.at = IF r.branch \in Domains THEN "checkout1"
                                         ELSE "insert"])
        ELSE Ends(t) /\ UNCHANGED king
    /\ UNCHANGED <<database, trash, work, aux>>

AddClone(t) ==
    /\ At(t, "checkout1")
    /\ LET d == thread[t].branch IN
        /\ king[d] # None
        /\ work' = [work EXCEPT ![d] = king[d]]
    /\ GoTo(t, [thread[t] EXCEPT !.at = "insert"])
    /\ UNCHANGED <<database, king, trash, aux>>

\* A clone that fails is cleaned up: the directory, then the reference.
AddCloneFails(t) ==
    /\ At(t, "checkout1")
    /\ king' = [king EXCEPT ![thread[t].branch] = None]
    /\ Ends(t)
    /\ UNCHANGED <<database, trash, work, aux>>

Insert(t) ==
    /\ At(t, "insert")
    /\ LET r == thread[t] IN
        row' = [row EXCEPT ![r.branch] =
                    NewRow(IF r.flag THEN r.other ELSE None,
                           IF r.commit = None THEN {} ELSE r.commit)]
    /\ Ends(t)
    /\ UNCHANGED <<review, host, git, aux>>

\* get_branch_dependencies: objects and trackers
Unused(b) == host # b /\ Trackers(b) = {}

\* A domain that does not track must have been archived; its history is
\* merged into the trash before the dependencies are looked at.
Delete(t, b) ==
    /\ Exists(b)
    /\ b \in Domains /\ row[b].tracked = None => row[b].archived
    /\ Begin(t, Start(
            IF b \in Domains THEN "del_domain" ELSE "del_sandbox",
            IF b \in Domains /\ row[b].tracked = None THEN "trash" ELSE "delete", b))

DeleteTrash(t) ==
    /\ At(t, "trash")
    /\ trash' = IF king[thread[t].branch] = None THEN trash
                ELSE trash \cup king[thread[t].branch]
    /\ GoTo(t, [thread[t] EXCEPT !.at = "delete"])
    /\ UNCHANGED <<database, king, work, aux>>

DeleteDirectories(t) ==
    /\ At(t, "delete")
    /\ LET b == thread[t].branch IN
        IF Unused(b)
        THEN /\ KeyFree(t, b)
             /\ work' = [d \in Domains |-> IF d = b THEN None ELSE work[d]]
             /\ GoTo(t, [thread[t] EXCEPT !.at = "reference"])
        ELSE Ends(t) /\ UNCHANGED work
    /\ UNCHANGED <<database, king, trash, aux>>

DeleteReference(t) ==
    /\ At(t, "reference")
    /\ king' = [king EXCEPT ![thread[t].branch] = None]
    /\ GoTo(t, [thread[t] EXCEPT !.at = "remove"])
    /\ UNCHANGED <<database, trash, work, aux>>

\* The DELETE is sent at the end.  It waits for inserts that refer to the row,
\* and foreign keys refuse it; reviews go with their branches.
Remove(t) ==
    /\ At(t, "remove")
    /\ LET b == thread[t].branch IN
        /\ \A u \in Threads : ~(thread[u] # None /\ Op(u) = "add"
                                /\ thread[u].flag /\ thread[u].other = b)
        /\ IF Unused(b)
           THEN /\ row' = [row EXCEPT ![b] = None]
                /\ review' = IF review # None /\ (review.source = b \/ b = Trunk)
                             THEN None ELSE review
           ELSE UNCHANGED <<row, review>>
    /\ Ends(t)
    /\ UNCHANGED <<host, git, aux>>

-----------------------------------------------------------------------------
(* update_domain, update_sandbox, manage.                                   *)

Autosync(t, b) ==
    /\ Exists(b)
    /\ Begin(t, [Start("update", "commit", b) EXCEPT
            !.set = Column(b, "autosync", ~row[b].autosync)])

Archived(d, on) ==
    Column(d, "archived", on) \cup (IF on THEN Column(d, "allow", FALSE) ELSE {})

Archive(t, d, on) ==
    /\ Exists(d) /\ (on => row[d].tracked = None)
    /\ Begin(t, [Start("update", "commit", d) EXCEPT !.set = Archived(d, on)])

AllowManage(t, d, on) ==
    /\ Exists(d) /\ (on => ~row[d].archived)
    /\ Begin(t, [Start("update", "commit", d) EXCEPT !.set = Column(d, "allow", on)])

\* The files of a branch: a domain's checkout, a sandbox as it was published
Files(b) == IF b \in Domains THEN work[b] ELSE king[b]

\* validate_branch_commits, unless --force
LeavesNothing(from, to) ==
    /\ Files(from) # None /\ Files(to) # None
    /\ king[from] = Files(from)
    /\ Files(from) \subseteq Files(to)

Manage(t, b, force) ==
    /\ Exists(b) /\ b # host /\ row[b].allow
    /\ force \/ LeavesNothing(host, b)
    /\ Begin(t, Start("manage", "commit", b))

-----------------------------------------------------------------------------
(* Reviews of a sandbox for Trunk.  change: what the command writes.        *)

Reviewed(b) == review # None /\ review.source = b

Change(new, source, commit, approved) ==
    [new |-> new, source |-> source, commit |-> commit, approved |-> approved]

\* mutant: an approval survives a new commit
StaleReview(b) ==
    Change(review = None, b, king[b], IF review = None THEN "unset" ELSE "keep")

\* A new head takes back an approval but not a denial.
Renewed(b) ==
    Change(review = None, b, king[b],
           IF review = None \/ review.approved = "yes" THEN "unset" ELSE "keep")

\* The end of publish
PublishReview(t) ==
    /\ At(t, "review")
    /\ LET b == thread[t].branch IN
        IF king[b] = None \/ ~Exists(Trunk) THEN Ends(t)
        ELSE \E asked \in BOOLEAN :
            GoTo(t, IF Reviewed(b) \/ (asked /\ review = None)
                    THEN [thread[t] EXCEPT !.at = "commit", !.change = Renewed(b)]
                    ELSE [thread[t] EXCEPT !.at = "commit"])
    /\ UNCHANGED <<database, git, aux>>

RequestReview(t, b) ==
    /\ Exists(b) /\ Exists(Trunk) /\ king[b] # None /\ work[Trunk] # None
    /\ row[b].base \subseteq work[Trunk]
    /\ review # None => review.source = b
    /\ Begin(t, [Start("request", "commit", b) EXCEPT !.change = Renewed(b)])

\* A tool or a person who has looked at the commit under review
UpdateReview(t, approved) ==
    /\ review # None
    /\ Begin(t, [Start("review", "commit", review.source) EXCEPT
            !.commit = review.commit,
            !.change = Change(FALSE, review.source, None,
                IF approved = review.approved THEN "keep" ELSE approved)])

DelReview(t) ==
    /\ review # None
    /\ Begin(t, Start("del_review", "commit", review.source))

\* What the review is after a command's writes, if they are accepted
Written(r) ==
    IF r.op = "del_review" THEN None
    ELSE IF r.change = None THEN review
    ELSE IF r.change.new
    THEN [source |-> r.change.source, commit |-> r.change.commit,
          approved |-> r.change.approved]
    ELSE [review EXCEPT
            !.commit = IF r.change.commit = None THEN @ ELSE r.change.commit,
            !.approved = IF r.change.approved = "keep" THEN @ ELSE r.change.approved]

\* A row that is written is still there, and one that is inserted is not.
Writable(r) ==
    /\ \A s \in r.set : Exists(s.branch)
    /\ r.change # None => (r.change.new <=> review = None)
    /\ r.op = "manage" => Exists(r.branch)

\* The broker commits what the command wrote
Commit(t) ==
    /\ At(t, "commit")
    /\ LET r == thread[t] IN
        IF Writable(r)
        THEN /\ row' = Sent(r.set)
             /\ review' = Written(r)
             /\ host' = IF r.op = "manage" THEN r.branch ELSE host
             /\ vetted' = IF r.op = "review" THEN r.commit ELSE vetted
        ELSE UNCHANGED <<database, vetted>>
    /\ Ends(t)
    /\ UNCHANGED <<git, started, faults, overlap>>

-----------------------------------------------------------------------------
(* Failures: a git command that cannot be run, a commit the database        *)
(* refuses.  Publish and deploy go on after a failed sync, a deletion after *)
(* a failed "git branch -D".                                                *)

CommandFails(t) ==
    /\ faults < MaxFaults /\ faults' = faults + 1
    /\ \/ \E d \in Domains : At(t, "sync") /\ d \in thread[t].todo /\ SyncError(t, d)
       \/ At(t, "checkout") /\ Op(t) # "rollback" /\ SyncError(t, thread[t].other)
       \/ At(t, "target")
            /\ GoTo(t, StartSync(thread[t],
                            IF thread[t].flag THEN thread[t].branch ELSE None))
       \/ At(t, "reference") /\ GoTo(t, [thread[t] EXCEPT !.at = "remove"])
       \/ thread[t] # None /\ thread[t].at \notin {"sync", "target", "reference"}
            /\ (At(t, "checkout") => Op(t) = "rollback") /\ Ends(t)
    /\ UNCHANGED <<database, git, started, overlap, vetted>>

-----------------------------------------------------------------------------
Commands(t) ==
    \/ \E b \in Branch :
        \/ Validate(t, b) \/ Autosync(t, b) \/ Delete(t, b)
        \/ \E force \in BOOLEAN : Manage(t, b, force)
        \/ \E d \in Domains, flag \in BOOLEAN :
            Deploy(t, b, d, flag) \/ AddDomain(t, d, b, flag)
        \/ \E s \in Sandboxes : AddSandbox(t, s, b)
    \/ \E d \in Domains :
        \/ Sync(t, d)
        \/ \E c \in {king[b] : b \in Branch} \cup
                    {IF Exists(d) THEN row[d].rollback ELSE None} : Rollback(t, d, c)
        \/ \E on \in BOOLEAN : Archive(t, d, on) \/ AllowManage(t, d, on)
    \/ \E s \in Sandboxes :
        RequestReview(t, s) \/ \E rebase \in BOOLEAN : Publish(t, s, rebase)
    \/ \E a \in {"unset", "yes", "no"} : UpdateReview(t, a)
    \/ DelReview(t)

Steps(t) ==
    \/ \E d \in Domains : SyncPush(t, d)
    \/ SyncCheckout(t) \/ PublishClone(t) \/ DeployClone(t) \/ PushOrigin(t)
    \/ DeployTarget(t) \/ RollbackForce(t) \/ RollbackCheckout(t)
    \/ AddBranch(t) \/ AddClone(t) \/ AddCloneFails(t) \/ Insert(t)
    \/ DeleteTrash(t) \/ DeleteDirectories(t) \/ DeleteReference(t) \/ Remove(t)
    \/ PublishReview(t) \/ Commit(t) \/ CommandFails(t)

Next == \E t \in Threads : Commands(t) \/ Steps(t)

Spec == Init /\ [][Next]_vars

-----------------------------------------------------------------------------
Quiet == \A t \in Threads : thread[t] = None

(* What is checked out is what template-king has, once the commands are     *)
(* done, however they were interleaved (branch.py:356-369, rollback.py:68). *)
CheckoutFollowsKing ==
    (Quiet /\ faults = 0 /\ overlap # "deletion")
        => \A d \in Domains : Exists(d) => work[d] = king[d]

(* A row has its reference, a domain its checkout, and there is no other    *)
(* reference, even if a clone fails (add_domain.py:81, branch.py:203-227).   *)
RowsHaveReferences ==
    (Quiet /\ faults = 0 /\ overlap # "deletion")
        => /\ \A b \in Branch : Exists(b) <=> king[b] # None
           /\ \A d \in Domains : Exists(d) <=> work[d] # None

(* Database, template-king and checkouts agree whenever no command runs,    *)
(* unless a call of git has failed or commands overlapped with a deletion.  *)
PlacesAgree == CheckoutFollowsKing /\ RowsHaveReferences

(* A change that was deployed to a domain that tracks nothing stays there,  *)
(* or goes to the trash with it: deployments that overlap do not overwrite  *)
(* one another (deploy.py:127-173).                                         *)
DeployedStays ==
    [][\A d \in Domains :
        (Exists(d) /\ row[d].tracked = None /\ king[d] # None /\ overlap' # "deletion")
            => \/ king'[d] # None /\ king[d] \subseteq king'[d]
               \/ king'[d] = None /\ king[d] \subseteq trash]_vars

(* A tracking domain has nothing that the tracked branch does not have, nor *)
(* has its rollback commit: otherwise no later sync would be accepted       *)
(* (branch.py:352).  publish --rebase rewrites a sandbox, having looked for *)
(* trackers before, so that this is about commands that do not overlap.     *)
TrackersBehind ==
    \A d \in Domains :
        (Exists(d) /\ row[d].tracked # None /\ king[d] # None
           /\ king[row[d].tracked] # None
           /\ (row[d].tracked \in Sandboxes => overlap = "no")
           /\ overlap # "deletion")
        => /\ king[d] \subseteq king[row[d].tracked]
           /\ row[d].rollback # None
                => row[d].rollback \subseteq king[row[d].tracked]

(* A domain that was rolled back stays there until its tracked branch is    *)
(* validated or published: neither sync nor deploy moves it (sync.py:34,    *)
(* deploy.py:76).  A command that has looked at is_sync_valid before the    *)
(* rollback committed still does.                                           *)
RollbackStands ==
    [][\A d \in Domains :
        (Exists(d) /\ row[d].tracked # None /\ ~row[row[d].tracked].valid
           /\ overlap' = "no" /\ king'[d] # king[d])
        => \E t \in Threads : thread[t] # None
            /\ Op(t) \in {"rollback", "publish", "del_domain"}]_vars

(* An approval is about the commit in the review (publish.py:113-121,       *)
(* request_review.py:68).  A publish that has read the review before it is  *)
(* approved does not take the approval back.                                *)
ApprovalIsCurrent ==
    (overlap = "no" /\ review # None /\ review.approved = "yes")
        => review.commit = vetted

(* Deploying a sandbox brings the changes published to it, never what it was *)
(* branched from: the target has that already (deploy.py:103-109), though    *)
(* the checkout that was looked at may be older than the reference.          *)
DeployBringsOwn ==
    [][\A t \in Threads :
        (At(t, "push") /\ Op(t) = "deploy" /\ thread[t].other \in Sandboxes
           /\ Exists(thread[t].other) /\ king' # king /\ overlap # "deletion"
           /\ thread'[t] # thread[t])
        => LET d == thread[t].branch IN
            (king'[d] \ king[d]) \cap row[thread[t].other].base = {}]_vars

=============================================================================
