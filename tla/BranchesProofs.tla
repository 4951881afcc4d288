---------------------------- MODULE BranchesProofs ----------------------------
(***************************************************************************)
(* Theorems about Branches, for any domains, sandboxes, changes, threads,  *)
(* commands and failures.                                                  *)
(*                                                                         *)
(* Every proof rests on Base: a command is at a step of its own kind       *)
(* (Shape), what it has read of the rows still holds (Rooted), because     *)
(* nothing else runs while a branch is deleted (Alone) and nothing else    *)
(* adds the branch it adds (Adders), and what is tracked exists and does   *)
(* not track (Roots).  Each property has a layer of its own on top of it:  *)
(* what the commands in flight have read, or are going to write, that the  *)
(* property depends on.                                                    *)
(*   Keeping  a domain that is going to be deleted is in the trash         *)
(*   Vets     the review a command is going to write is the one it read    *)
(*   Sures    the domains a command has to sync, it found to be valid      *)
(*   Own      a checkout is not ahead of its reference                     *)
(*   Bounds   what is in flight to a domain, its tracked branch has        *)
(*   Agree    who is between the steps that change row, reference, checkout*)
(* A lemma XSteps, or XOn and XFrame, shows that a step keeps layer X: On  *)
(* for the command that takes it, Frame for the others.                    *)
(***************************************************************************)
EXTENDS Branches, TLAPS

Live      == overlap # "deletion"
Runs(t)   == thread[t] # None

-----------------------------------------------------------------------------
(* Types: the rows, references and checkouts have the types TypeOK gives,   *)
(* and a command is at a step of its own.                                   *)

Shape(r) ==
    /\ r.at = "sync" => r.op \in {"sync", "publish", "deploy"}
    /\ r.at = "checkout" => r.op \in {"sync", "publish", "deploy", "rollback"}
    /\ r.at = "checkout" /\ r.op # "rollback" => r.other \in Domains
    /\ r.at \in {"clone", "push"} => r.op \in {"publish", "deploy"}
    /\ r.at = "target" => r.op = "deploy"
    /\ r.at = "force" => r.op = "rollback"
    /\ r.at \in {"branch", "checkout1", "insert"} <=> r.op = "add"
    /\ r.at \in {"trash", "delete", "reference", "remove"} <=> r.op \in Deleting
    /\ r.at = "review" => r.op = "publish"
    /\ r.at = "checkout1" => r.branch \in Domains
    /\ r.op = "publish" => r.branch \in Sandboxes
    /\ r.op \in {"deploy", "rollback", "del_domain"} => r.branch \in Domains
    /\ r.op = "del_sandbox" => r.branch \in Sandboxes
    /\ r.op = "rollback" => r.commit # None
    /\ r.op = "rollback" => r.at \in {"force", "checkout", "commit"}
    /\ r.op = "add" \/ (r.op = "deploy" /\ r.at = "clone") => r.other \in Branch
    /\ r.op = "add" /\ r.branch \in Sandboxes => ~r.flag
    /\ r.at = "push" => r.commit # None
    /\ r.change # None /\ r.change.new
        => r.change.commit # None /\ r.change.approved # "keep"

TypeInv == TypeOK /\ \A t \in Threads : Runs(t) => Shape(thread[t])

LEMMA Apart ==
    /\ None \notin Branch /\ None \notin Commits /\ None \notin Row
    /\ None \notin Review /\ None \notin Edit /\ None \notin Job
    /\ Trunk \in Branch /\ Domains \subseteq Branch /\ Sandboxes \subseteq Branch
    /\ \A d \in Domains : d \notin Sandboxes
BY BranchesAssumption DEF Branch

LEMMA Jobs ==
    ASSUME TypeOK, NEW t \in Threads, Runs(t)
    PROVE  thread[t] \in Job
BY DEF TypeOK, Runs

LEMMA Rows ==
    ASSUME TypeOK, NEW b \in Branch, Exists(b)
    PROVE  row[b] \in Row
BY DEF TypeOK, Exists

\* A step that only moves a thread on
LEMMA Moves ==
    ASSUME TypeInv, NEW t \in Threads, NEW r \in Job, Shape(r), GoTo(t, r)
    PROVE  /\ thread' \in [Threads -> Job \cup {None}]
           /\ \A u \in Threads : thread'[u] # None => Shape(thread'[u])
BY DEF TypeInv, TypeOK, GoTo, Runs

LEMMA Halts ==
    ASSUME TypeInv, NEW t \in Threads, Ends(t)
    PROVE  /\ thread' \in [Threads -> Job \cup {None}]
           /\ \A u \in Threads : thread'[u] # None => Shape(thread'[u])
BY DEF TypeInv, TypeOK, Ends, Runs

LEMMA MetType ==
    ASSUME overlap \in {"no", "yes", "deletion"}, NEW op
    PROVE  Met(op) \in {"no", "yes", "deletion"}
BY DEF Met

LEMMA BeginType ==
    ASSUME TypeInv, NEW t \in Threads, NEW r \in Job, Shape(r), Begin(t, r)
    PROVE  TypeInv' /\ thread'[t] \in Job
<1>1. GoTo(t, r)
    BY DEF Begin, GoTo
<1>2. overlap' \in {"no", "yes", "deletion"}
    BY MetType DEF Begin, TypeInv, TypeOK
<1>3. UNCHANGED <<row, review, host, king, trash, work, faults>>
    BY DEF Begin, database, git
<1>4. thread'[t] = r
    BY DEF Begin, TypeInv, TypeOK
<1> QED
    BY <1>1, <1>2, <1>3, <1>4, Moves DEF TypeInv, TypeOK, Runs

LEMMA ColumnType ==
    ASSUME NEW b \in Branch, NEW n, NEW v,
           \/ n \in {"valid", "autosync", "archived", "allow"} /\ v \in BOOLEAN
           \/ n = "rollback" /\ v \in Commits \cup {None}
    PROVE  /\ Column(b, n, v) \subseteq Cell
           /\ \A s \in Column(b, n, v) : s.branch = b /\ s.name = n /\ s.value = v
<1>1. [branch |-> b, name |-> n, value |-> v] \in Cell
    BY DEF Cell
<1> QED
    BY <1>1 DEF Column

LEMMA StartType ==
    ASSUME NEW b \in Branch,
           NEW op \in {"sync", "publish", "deploy", "rollback", "validate", "add",
              "del_domain", "del_sandbox", "update", "manage", "request",
              "review", "del_review"},
           NEW at \in {"sync", "checkout", "clone", "push", "target", "force", "branch",
              "checkout1", "insert", "trash", "delete", "reference", "remove",
              "review", "commit"}
    PROVE  Start(op, at, b) \in Job
BY DEF Start, Job

LEMMA CommandsType ==
    ASSUME TypeInv, NEW t \in Threads, Commands(t)
    PROVE  TypeInv' /\ thread'[t] \in Job
<1> USE Apart
<1>1. ASSUME NEW b \in Branch, Validate(t, b)
      PROVE  TypeInv' /\ thread'[t] \in Job
    <2> DEFINE r == [Start("validate", "commit", b) EXCEPT !.set = Column(b, "valid", TRUE)]
    <2>1. r \in Job
        BY ColumnType DEF Job, Start
    <2>2. Shape(r)
        BY DEF Shape, Start, Deleting
    <2> QED
        BY <1>1, <2>1, <2>2, BeginType DEF Validate
<1>2. ASSUME NEW b \in Branch, Autosync(t, b)
      PROVE  TypeInv' /\ thread'[t] \in Job
    <2> DEFINE r == [Start("update", "commit", b) EXCEPT
                        !.set = Column(b, "autosync", ~row[b].autosync)]
    <2>1. r \in Job
        BY ColumnType DEF Job, Start
    <2>2. Shape(r)
        BY DEF Shape, Start, Deleting
    <2> QED
        BY <1>2, <2>1, <2>2, BeginType DEF Autosync
<1>3. ASSUME NEW b \in Branch, Delete(t, b)
      PROVE  TypeInv' /\ thread'[t] \in Job
    <2> DEFINE r == Start(IF b \in Domains THEN "del_domain" ELSE "del_sandbox",
            IF b \in Domains /\ row[b].tracked = None THEN "trash" ELSE "delete", b)
    <2>1. r \in Job
        BY StartType
    <2>2. Shape(r)
        BY DEF Shape, Start, Deleting, Branch
    <2> QED
        BY <1>3, <2>1, <2>2, BeginType DEF Delete
<1>4. ASSUME NEW b \in Branch, NEW force \in BOOLEAN, Manage(t, b, force)
      PROVE  TypeInv' /\ thread'[t] \in Job
    <2> DEFINE r == Start("manage", "commit", b)
    <2>1. r \in Job
        BY StartType
    <2>2. Shape(r)
        BY DEF Shape, Start, Deleting
    <2> QED
        BY <1>4, <2>1, <2>2, BeginType DEF Manage
<1>5. ASSUME NEW b \in Branch, NEW n \in Domains, NEW sync \in BOOLEAN, Deploy(t, b, n, sync)
      PROVE  TypeInv' /\ thread'[t] \in Job
    <2> DEFINE d == Target(n, sync)
               r == [Start("deploy", "clone", d) EXCEPT !.other = b, !.flag = sync]
    <2>1. d \in Domains
        BY <1>5 DEF Deploy, Target
    <2>2. r \in Job
        BY <2>1 DEF Job, Start
    <2>3. Shape(r)
        BY <2>1 DEF Shape, Start, Deleting
    <2> QED
        BY <1>5, <2>2, <2>3, BeginType DEF Deploy
<1>6. ASSUME NEW b \in Branch, NEW d \in Domains, NEW track \in BOOLEAN,
             AddDomain(t, d, b, track)
      PROVE  TypeInv' /\ thread'[t] \in Job
    <2> DEFINE r == [Start("add", "branch", d) EXCEPT !.other = b, !.flag = track]
    <2>1. r \in Job
        BY DEF Job, Start
    <2>2. Shape(r)
        BY DEF Shape, Start, Deleting
    <2> QED
        BY <1>6, <2>1, <2>2, BeginType DEF AddDomain
<1>7. ASSUME NEW b \in Branch, NEW s \in Sandboxes, AddSandbox(t, s, b)
      PROVE  TypeInv' /\ thread'[t] \in Job
    <2> DEFINE r == [Start("add", "branch", s) EXCEPT !.other = b, !.commit = king[b]]
    <2>1. r \in Job
        BY DEF Job, Start, TypeInv, TypeOK
    <2>2. Shape(r)
        BY DEF Shape, Start, Deleting
    <2> QED
        BY <1>7, <2>1, <2>2, BeginType DEF AddSandbox
<1>8. ASSUME NEW d \in Domains, Sync(t, d)
      PROVE  TypeInv' /\ thread'[t] \in Job
    <2> DEFINE r == [Start("sync", "sync", d) EXCEPT !.todo = {d}]
    <2>1. r \in Job
        BY DEF Job, Start
    <2>2. Shape(r)
        BY DEF Shape, Start, Deleting
    <2> QED
        BY <1>8, <2>1, <2>2, BeginType DEF Sync
<1>9. ASSUME NEW d \in Domains, NEW c, Rollback(t, d, c)
      PROVE  TypeInv' /\ thread'[t] \in Job
    <2> DEFINE r == [Start("rollback", "force", d) EXCEPT
            !.commit = c,
            !.set = Column(row[d].tracked, "valid", FALSE) \cup Column(d, "rollback", None)]
    <2>1. row[d].tracked \in Branch /\ c \in Commits
        BY <1>9 DEF Rollback, TypeInv, TypeOK, Exists, Row, Commits
    <2>2. Column(row[d].tracked, "valid", FALSE) \subseteq Cell
            /\ Column(d, "rollback", None) \subseteq Cell
        BY <2>1, ColumnType
    <2>3. r \in Job
        BY <2>1, <2>2 DEF Job, Start
    <2>4. Shape(r)
        BY <2>1 DEF Shape, Start, Deleting
    <2> QED
        BY <1>9, <2>3, <2>4, BeginType DEF Rollback
<1>10. ASSUME NEW d \in Domains, NEW on \in BOOLEAN, Archive(t, d, on)
      PROVE  TypeInv' /\ thread'[t] \in Job
    <2> DEFINE r == [Start("update", "commit", d) EXCEPT !.set = Archived(d, on)]
    <2>1. Archived(d, on) \subseteq Cell
        BY ColumnType DEF Archived
    <2>2. r \in Job
        BY <2>1 DEF Job, Start
    <2>3. Shape(r)
        BY DEF Shape, Start, Deleting
    <2> QED
        BY <1>10, <2>2, <2>3, BeginType DEF Archive
<1>11. ASSUME NEW d \in Domains, NEW on \in BOOLEAN, AllowManage(t, d, on)
      PROVE  TypeInv' /\ thread'[t] \in Job
    <2> DEFINE r == [Start("update", "commit", d) EXCEPT !.set = Column(d, "allow", on)]
    <2>1. r \in Job
        BY ColumnType DEF Job, Start
    <2>2. Shape(r)
        BY DEF Shape, Start, Deleting
    <2> QED
        BY <1>11, <2>1, <2>2, BeginType DEF AllowManage
<1>12. ASSUME NEW s \in Sandboxes, RequestReview(t, s)
      PROVE  TypeInv' /\ thread'[t] \in Job
    <2> DEFINE r == [Start("request", "commit", s) EXCEPT !.change = Renewed(s)]
    <2>1. Renewed(s) \in Edit
        BY DEF Renewed, Change, Edit, TypeInv, TypeOK
    <2>2. r \in Job
        BY <2>1 DEF Job, Start
    <2>3. Shape(r)
        BY <1>12 DEF Shape, Start, Deleting, Renewed, Change, RequestReview
    <2> QED
        BY <1>12, <2>2, <2>3, BeginType DEF RequestReview
<1>13. ASSUME NEW s \in Sandboxes, NEW rebase \in BOOLEAN, Publish(t, s, rebase)
      PROVE  TypeInv' /\ thread'[t] \in Job
    <2> DEFINE r == [Start("publish", "clone", s) EXCEPT
                        !.flag = rebase, !.set = Column(s, "valid", TRUE)]
    <2>1. r \in Job
        BY ColumnType DEF Job, Start
    <2>2. Shape(r)
        BY DEF Shape, Start, Deleting
    <2> QED
        BY <1>13, <2>1, <2>2, BeginType DEF Publish
<1>14. ASSUME NEW a \in {"unset", "yes", "no"}, UpdateReview(t, a)
      PROVE  TypeInv' /\ thread'[t] \in Job
    <2> DEFINE r == [Start("review", "commit", review.source) EXCEPT
            !.commit = review.commit,
            !.change = Change(FALSE, review.source, None,
                IF a = review.approved THEN "keep" ELSE a)]
    <2>1. review.source \in Sandboxes /\ review.commit \in Commits
        BY <1>14 DEF UpdateReview, TypeInv, TypeOK, Review
    <2>2. r.change \in Edit
        BY <2>1 DEF Change, Edit, Start
    <2>3. r \in Job
        BY <2>1, <2>2 DEF Job, Start
    <2>4. Shape(r)
        BY <2>1 DEF Shape, Start, Deleting, Change
    <2> QED
        BY <1>14, <2>3, <2>4, BeginType DEF UpdateReview
<1>15. ASSUME DelReview(t)
      PROVE  TypeInv' /\ thread'[t] \in Job
    <2> DEFINE r == Start("del_review", "commit", review.source)
    <2>1. review.source \in Branch
        BY <1>15 DEF DelReview, TypeInv, TypeOK, Review
    <2>2. r \in Job
        BY <2>1, StartType
    <2>3. Shape(r)
        BY <2>1 DEF Shape, Start, Deleting
    <2> QED
        BY <1>15, <2>2, <2>3, BeginType DEF DelReview
<1> QED
    BY <1>1, <1>2, <1>3, <1>4, <1>5, <1>6, <1>7, <1>8, <1>9, <1>10, <1>11, <1>12, <1>13,
       <1>14, <1>15 DEF Commands

LEMMA SyncedType ==
    ASSUME NEW r \in Job, Shape(r), r.op \in {"sync", "publish", "deploy"}, NEW d
    PROVE  Synced(r, d) \in Job /\ Shape(Synced(r, d))
<1> DEFINE left == r.todo \ {d}
           at == IF left # {} THEN "sync"
                 ELSE IF r.op = "publish" THEN "review" ELSE "commit"
<1>1. Synced(r, d) = [r EXCEPT !.todo = left, !.at = at]
    BY DEF Synced
<1>2. left \subseteq Domains /\ at \in {"sync", "review", "commit"}
    BY DEF Job
<1>3. [r EXCEPT !.todo = left, !.at = at] \in Job
    BY <1>2 DEF Job
<1>4. Shape([r EXCEPT !.todo = left, !.at = at])
    BY DEF Shape, Job, Deleting
<1> QED
    BY <1>1, <1>3, <1>4

LEMMA StartSyncType ==
    ASSUME NEW r \in Job, Shape(r), r.op \in {"publish", "deploy"}, NEW b
    PROVE  StartSync(r, b) \in Job /\ Shape(StartSync(r, b))
<1> DEFINE todo == IF b \in Branch /\ Exists(b) /\ row[b].autosync THEN AutoTrackers(b) ELSE {}
           q == [r EXCEPT !.todo = todo]
<1>1. todo \subseteq Domains
    BY DEF AutoTrackers, Trackers
<1>2. StartSync(r, b) = Synced(q, None)
    BY DEF StartSync
<1>3. q \in Job
    BY <1>1 DEF Job
<1>4. Shape(q) /\ q.op = r.op
    BY DEF Shape, Job
<1> HIDE DEF q
<1> QED
    BY <1>2, <1>3, <1>4, SyncedType

LEMMA SyncErrorType ==
    ASSUME TypeInv, NEW t \in Threads, Runs(t), Op(t) \in {"sync", "publish", "deploy"},
           NEW d, SyncError(t, d)
    PROVE  /\ thread' \in [Threads -> Job \cup {None}]
           /\ \A u \in Threads : thread'[u] # None => Shape(thread'[u])
<1>1. thread[t] \in Job /\ Shape(thread[t])
    BY Jobs DEF TypeInv
<1>2. Synced(thread[t], d) \in Job /\ Shape(Synced(thread[t], d))
    BY <1>1, SyncedType DEF Op
<1> QED
    BY <1>2, Moves, Halts DEF SyncError

\* What is written to a row
LEMMA SentType ==
    ASSUME TypeOK, NEW set \in SUBSET Cell, \A s \in set : Exists(s.branch)
    PROVE  /\ Sent(set) \in [Branch -> Row \cup {None}]
           /\ \A b \in Branch : Sent(set)[b] # None <=> Exists(b)
           /\ \A b \in Branch : Exists(b) => Sent(set)[b].tracked = row[b].tracked
                                             /\ Sent(set)[b].base = row[b].base
<1> USE Apart
<1>1. ASSUME NEW b \in Branch, \A s \in set : s.branch # b
      PROVE  Sent(set)[b] = row[b]
    BY <1>1 DEF Sent
<1>2. ASSUME NEW b \in Branch, NEW c \in set, c.branch = b
      PROVE  /\ Sent(set)[b] \in Row
             /\ Sent(set)[b].tracked = row[b].tracked
             /\ Sent(set)[b].base = row[b].base
    <2>1. row[b] \in Row
        BY <1>2, Rows
    <2> DEFINE New(n) == IF \E s \in set : s.branch = b /\ s.name = n
                         THEN (CHOOSE s \in set : s.branch = b /\ s.name = n).value
                         ELSE row[b][n]
    <2>2. Sent(set)[b] = [n \in DOMAIN row[b] |-> New(n)]
        BY <1>2 DEF Sent
    <2>3. \A n : (\E s \in set : s.branch = b /\ s.name = n)
                => \E s \in set : s.name = n /\ s.value = New(n)
        OBVIOUS
    <2>4. \A n \in {"valid", "autosync", "archived", "allow"} : New(n) \in BOOLEAN
        BY <2>1, <2>3 DEF Cell, Row
    <2>5. New("rollback") \in Commits \cup {None}
        BY <2>1, <2>3 DEF Cell, Row
    <2>6. New("tracked") = row[b].tracked /\ New("base") = row[b].base
        BY <2>3 DEF Cell
    <2>7. DOMAIN row[b] = {"tracked", "valid", "autosync", "rollback", "archived", "allow", "base"}
        BY <2>1 DEF Row
    <2> HIDE DEF New
    <2>8. [n \in DOMAIN row[b] |-> New(n)] \in Row
        BY <2>1, <2>4, <2>5, <2>6, <2>7 DEF Row
    <2> QED
        BY <2>2, <2>6, <2>7, <2>8
<1>3. ASSUME NEW b \in Branch
      PROVE  /\ Sent(set)[b] \in Row \cup {None}
             /\ Sent(set)[b] # None <=> Exists(b)
             /\ Exists(b) => Sent(set)[b].tracked = row[b].tracked
                               /\ Sent(set)[b].base = row[b].base
    <2>1. CASE \A s \in set : s.branch # b
        BY <2>1, <1>1 DEF TypeOK, Exists
    <2>2. CASE \E s \in set : s.branch = b
        BY <2>2, <1>2
    <2> QED
        BY <2>1, <2>2
<1>4. Sent(set) = [b \in Branch |-> Sent(set)[b]]
    BY DEF Sent
<1> QED
    BY <1>3, <1>4

LEMMA StepsType ==
    ASSUME TypeInv, NEW t \in Threads, Steps(t)
    PROVE  TypeInv'
<1> USE Apart
<1> DEFINE r == thread[t]
           Threaded == /\ thread' \in [Threads -> Job \cup {None}]
                       /\ \A u \in Threads : thread'[u] # None => Shape(thread'[u])
           Rest == /\ row' \in [Branch -> Row \cup {None}]
                   /\ review' \in Review \cup {None} /\ host' \in Branch
                   /\ king' \in [Branch -> Commits \cup {None}]
                   /\ trash' \in Commits
                   /\ work' \in [Domains -> Commits \cup {None}]
                   /\ faults' \in Nat /\ overlap' \in {"no", "yes", "deletion"}
<1>0. SUFFICES Threaded /\ Rest
    BY DEF TypeInv, TypeOK, Runs
<1>t. ASSUME Runs(t) PROVE r \in Job /\ Shape(r)
    BY <1>t, Jobs DEF TypeInv
<1>e. Ends(t) => Threaded
    BY Halts
<1>g. ASSUME NEW q \in Job, Shape(q), GoTo(t, q) PROVE Threaded
    BY <1>g, Moves
<1>u. UNCHANGED <<row, review, host, king, trash, work, faults, overlap>> => Rest
    BY DEF TypeInv, TypeOK
<1>1. ASSUME NEW d \in Domains, SyncPush(t, d) PROVE Threaded /\ Rest
    <2>1. r \in Job /\ Shape(r) /\ r.at = "sync" /\ Runs(t)
        BY <1>1, <1>t DEF SyncPush, At, Runs
    <2>2. r.op \in {"sync", "publish", "deploy"}
        BY <2>1 DEF Shape
    <2> DEFINE c == IF Exists(d) /\ row[d].tracked # None THEN king[row[d].tracked] ELSE None
    <2>3. CASE Accepts(d, c)
        <3>1. c \in Commits
            BY <2>3, Rows DEF TypeInv, TypeOK, Row, Exists, Accepts
        <3>2. king' = [king EXCEPT ![d] = c] /\ GoTo(t, [r EXCEPT !.at = "checkout", !.other = d])
            BY <1>1, <2>3 DEF SyncPush
        <3>3. [r EXCEPT !.at = "checkout", !.other = d] \in Job
            BY <2>1 DEF Job
        <3>4. Shape([r EXCEPT !.at = "checkout", !.other = d])
            BY <2>1, <2>2 DEF Shape, Job, Deleting
        <3>5. Rest
            BY <3>1, <3>2, <1>1 DEF SyncPush, TypeInv, TypeOK, database, aux
        <3> QED
            BY <3>2, <3>3, <3>4, <3>5, <1>g
    <2>4. CASE ~Accepts(d, c)
        BY <1>1, <2>1, <2>2, <2>4, <1>u, SyncErrorType DEF SyncPush, Op, database, aux
    <2> QED
        BY <2>3, <2>4
<1>2. ASSUME SyncCheckout(t) PROVE Threaded /\ Rest
    <2>1. r \in Job /\ Shape(r) /\ r.at = "checkout" /\ r.op # "rollback" /\ Runs(t)
        BY <1>2, <1>t DEF SyncCheckout, At, Runs, Op
    <2>2. r.op \in {"sync", "publish", "deploy"} /\ r.other \in Domains
        BY <2>1 DEF Shape
    <2> DEFINE d == r.other
               c == {[branch |-> d, name |-> "rollback", value |-> work[d]]}
               q == Synced(r, d)
               p == [q EXCEPT !.set = @ \cup c]
    <2>3. CASE work[d] # None /\ king[d] # None
        <3>1. work' = [work EXCEPT ![d] = king[d]] /\ GoTo(t, p)
            BY <1>2, <2>3 DEF SyncCheckout
        <3>2. c \subseteq Cell
            BY <2>2, <2>3 DEF Cell, TypeInv, TypeOK
        <3>3. q \in Job /\ Shape(q)
            BY <2>1, <2>2, SyncedType
        <3> HIDE DEF q, c
        <3>4. p \in Job
            BY <3>2, <3>3 DEF Job
        <3>5. Shape(p)
            BY <3>3 DEF Shape, Job
        <3>6. Rest
            BY <1>2, <2>2, <3>1 DEF SyncCheckout, TypeInv, TypeOK, database, aux
        <3> QED
            BY <3>1, <3>4, <3>5, <3>6, <1>g
    <2>4. CASE ~(work[d] # None /\ king[d] # None)
        BY <1>2, <2>1, <2>2, <2>4, <1>u, SyncErrorType DEF SyncCheckout, Op, database, aux
    <2> QED
        BY <2>3, <2>4
<1>3. ASSUME PublishClone(t) PROVE Threaded /\ Rest
    <2>1. r \in Job /\ Shape(r) /\ r.at = "clone" /\ r.op = "publish"
        BY <1>3, <1>t DEF PublishClone, At, Runs, Op
    <2>2. PICK c \in Commits : GoTo(t, [r EXCEPT !.at = "push", !.commit = c])
        BY <1>3 DEF PublishClone
    <2>3. [r EXCEPT !.at = "push", !.commit = c] \in Job
        BY <2>1 DEF Job
    <2>4. Shape([r EXCEPT !.at = "push", !.commit = c])
        BY <2>1 DEF Shape, Job, Deleting
    <2>5. Rest
        BY <1>3, <1>u DEF PublishClone, database, git, aux
    <2> QED
        BY <2>2, <2>3, <2>4, <2>5, <1>g
<1>4. ASSUME DeployClone(t) PROVE Threaded /\ Rest
    <2>1. r \in Job /\ Shape(r) /\ r.at = "clone" /\ r.op = "deploy"
        BY <1>4, <1>t DEF DeployClone, At, Runs, Op
    <2>2. Rest
        BY <1>4, <1>u DEF DeployClone, database, git, aux
    <2> DEFINE c == king[r.branch] \cup king[r.other]
    <2>3. CASE king[r.branch] # None /\ king[r.other] # None
        <3>1. GoTo(t, [r EXCEPT !.at = "push", !.commit = c])
            BY <1>4, <2>3 DEF DeployClone
        <3>2. r.branch \in Branch
            BY <2>1 DEF Job
        <3>3. c \in Commits
            BY <2>3, <3>2, <2>1 DEF TypeInv, TypeOK, Commits, Shape
        <3>4. [r EXCEPT !.at = "push", !.commit = c] \in Job
            BY <2>1, <3>3 DEF Job
        <3>5. Shape([r EXCEPT !.at = "push", !.commit = c])
            BY <2>1, <3>3 DEF Shape, Job, Deleting
        <3> QED
            BY <3>1, <3>4, <3>5, <2>2, <1>g
    <2>4. CASE ~(king[r.branch] # None /\ king[r.other] # None)
        BY <1>4, <2>2, <2>4, <1>e DEF DeployClone
    <2> QED
        BY <2>3, <2>4
<1>5. ASSUME PushOrigin(t) PROVE Threaded /\ Rest
    <2>1. r \in Job /\ Shape(r) /\ r.at = "push"
        BY <1>5, <1>t DEF PushOrigin, At, Runs
    <2>2. r.op \in {"publish", "deploy"} /\ r.branch \in Branch /\ r.commit \in Commits
        BY <2>1 DEF Shape, Job
    <2>3. Rest
        BY <1>5, <2>2 DEF PushOrigin, TypeInv, TypeOK, database, aux
    <2>4. CASE PushAccepted(t) /\ r.op = "deploy"
        <3>1. GoTo(t, [r EXCEPT !.at = "target"])
            BY <1>5, <2>4 DEF PushOrigin
        <3>2. [r EXCEPT !.at = "target"] \in Job
            BY <2>1 DEF Job
        <3>3. Shape([r EXCEPT !.at = "target"])
            BY <2>1, <2>4 DEF Shape, Job, Deleting
        <3> QED
            BY <3>1, <3>2, <3>3, <2>3, <1>g
    <2>5. CASE PushAccepted(t) /\ r.op # "deploy"
        <3>1. PICK sync \in BOOLEAN : GoTo(t, StartSync(r, IF sync THEN r.branch ELSE None))
            BY <1>5, <2>5 DEF PushOrigin
        <3> QED
            BY <3>1, <2>1, <2>2, <2>3, <1>g, StartSyncType
    <2>6. CASE ~PushAccepted(t)
        BY <1>5, <2>6, <2>3, <1>e DEF PushOrigin
    <2> QED
        BY <2>4, <2>5, <2>6
<1>6. ASSUME DeployTarget(t) PROVE Threaded /\ Rest
    <2>1. r \in Job /\ Shape(r) /\ r.at = "target"
        BY <1>6, <1>t DEF DeployTarget, At, Runs
    <2>2. r.op = "deploy" /\ r.branch \in Domains
        BY <2>1 DEF Shape
    <2>3. GoTo(t, StartSync(r, IF r.flag THEN r.branch ELSE None))
        BY <1>6 DEF DeployTarget
    <2>4. Threaded
        BY <2>1, <2>2, <2>3, <1>g, StartSyncType
    <2>5. Rest
        BY <1>6, <2>2 DEF DeployTarget, TypeInv, TypeOK, database, aux
    <2> QED
        BY <2>4, <2>5
<1>7. ASSUME RollbackForce(t) PROVE Threaded /\ Rest
    <2>1. r \in Job /\ Shape(r) /\ r.at = "force"
        BY <1>7, <1>t DEF RollbackForce, At, Runs
    <2>2. r.op = "rollback" /\ r.branch \in Branch /\ r.commit \in Commits
        BY <2>1 DEF Shape, Job
    <2>3. GoTo(t, [r EXCEPT !.at = "checkout"])
        BY <1>7 DEF RollbackForce
    <2>4. [r EXCEPT !.at = "checkout"] \in Job
        BY <2>1 DEF Job
    <2>5. Shape([r EXCEPT !.at = "checkout"])
        BY <2>1, <2>2 DEF Shape, Job, Deleting
    <2>6. Rest
        BY <1>7, <2>2 DEF RollbackForce, TypeInv, TypeOK, database, aux
    <2> QED
        BY <2>3, <2>4, <2>5, <2>6, <1>g
<1>8. ASSUME RollbackCheckout(t) PROVE Threaded /\ Rest
    <2>1. r \in Job /\ Shape(r) /\ r.at = "checkout" /\ r.op = "rollback"
        BY <1>8, <1>t DEF RollbackCheckout, At, Runs, Op
    <2>2. r.branch \in Domains
        BY <2>1 DEF Shape
    <2>3. Rest
        BY <1>8, <2>2 DEF RollbackCheckout, TypeInv, TypeOK, database, aux
    <2>4. [r EXCEPT !.at = "commit"] \in Job
        BY <2>1 DEF Job
    <2>5. Shape([r EXCEPT !.at = "commit"])
        BY <2>1 DEF Shape, Job, Deleting
    <2>6. Ends(t) \/ GoTo(t, [r EXCEPT !.at = "commit"])
        BY <1>8 DEF RollbackCheckout
    <2> QED
        BY <2>3, <2>4, <2>5, <2>6, <1>e, <1>g
<1>9. ASSUME AddBranch(t) PROVE Threaded /\ Rest
    <2>1. r \in Job /\ Shape(r) /\ r.at = "branch"
        BY <1>9, <1>t DEF AddBranch, At, Runs
    <2>2. r.op = "add" /\ r.branch \in Branch /\ r.other \in Branch
        BY <2>1 DEF Shape, Job
    <2> DEFINE at == IF r.branch \in Domains THEN "checkout1" ELSE "insert"
    <2>3. Rest
        BY <1>9, <2>2 DEF AddBranch, TypeInv, TypeOK, database, aux
    <2>4. [r EXCEPT !.at = at] \in Job
        BY <2>1 DEF Job
    <2>5. Shape([r EXCEPT !.at = at])
        BY <2>1, <2>2 DEF Shape, Job, Deleting
    <2>6. Ends(t) \/ GoTo(t, [r EXCEPT !.at = at])
        BY <1>9 DEF AddBranch
    <2> QED
        BY <2>3, <2>4, <2>5, <2>6, <1>e, <1>g
<1>10. ASSUME AddClone(t) PROVE Threaded /\ Rest
    <2>1. r \in Job /\ Shape(r) /\ r.at = "checkout1"
        BY <1>10, <1>t DEF AddClone, At, Runs
    <2>2. r.op = "add" /\ r.branch \in Domains
        BY <2>1 DEF Shape
    <2>3. Rest
        BY <1>10, <2>2 DEF AddClone, TypeInv, TypeOK, database, aux
    <2>4. [r EXCEPT !.at = "insert"] \in Job
        BY <2>1 DEF Job
    <2>5. Shape([r EXCEPT !.at = "insert"])
        BY <2>1, <2>2 DEF Shape, Job, Deleting
    <2>6. GoTo(t, [r EXCEPT !.at = "insert"])
        BY <1>10 DEF AddClone
    <2> QED
        BY <2>3, <2>4, <2>5, <2>6, <1>g
<1>11. ASSUME AddCloneFails(t) PROVE Threaded /\ Rest
    BY <1>11, <1>e DEF AddCloneFails, TypeInv, TypeOK, database, aux
<1>12. ASSUME Insert(t) PROVE Threaded /\ Rest
    <2>1. r \in Job /\ Shape(r) /\ r.at = "insert"
        BY <1>12, <1>t DEF Insert, At, Runs
    <2>2. r.op = "add" /\ r.other \in Branch /\ r.commit \in Commits \cup {None}
        BY <2>1 DEF Shape, Job
    <2> DEFINE new == NewRow(IF r.flag THEN r.other ELSE None,
                             IF r.commit = None THEN {} ELSE r.commit)
    <2>3. new \in Row
        BY <2>2 DEF NewRow, Row, Commits
    <2> HIDE DEF new
    <2>4. row' = [row EXCEPT ![r.branch] = new] /\ Ends(t)
        BY <1>12 DEF Insert, new
    <2>6. row' \in [Branch -> Row \cup {None}]
        BY <2>3, <2>4 DEF TypeInv, TypeOK
    <2>7. UNCHANGED <<review, host, king, trash, work, faults, overlap>>
        BY <1>12 DEF Insert, git, aux
    <2>5. Rest
        BY <2>6, <2>7 DEF TypeInv, TypeOK
    <2> QED
        BY <2>4, <2>5, <1>e
<1>13. ASSUME DeleteTrash(t) PROVE Threaded /\ Rest
    <2>1. r \in Job /\ Shape(r) /\ r.at = "trash"
        BY <1>13, <1>t DEF DeleteTrash, At, Runs
    <2>2. r.branch \in Branch
        BY <2>1 DEF Job
    <2>3. Rest
        BY <1>13, <2>2 DEF DeleteTrash, TypeInv, TypeOK, database, aux, Commits
    <2>4. [r EXCEPT !.at = "delete"] \in Job
        BY <2>1 DEF Job
    <2>5. Shape([r EXCEPT !.at = "delete"])
        BY <2>1, <2>2 DEF Shape, Job, Deleting
    <2>6. GoTo(t, [r EXCEPT !.at = "delete"])
        BY <1>13 DEF DeleteTrash
    <2> QED
        BY <2>3, <2>4, <2>5, <2>6, <1>g
<1>14. ASSUME DeleteDirectories(t) PROVE Threaded /\ Rest
    <2>1. r \in Job /\ Shape(r) /\ r.at = "delete"
        BY <1>14, <1>t DEF DeleteDirectories, At, Runs
    <2>3. Rest
        BY <1>14 DEF DeleteDirectories, TypeInv, TypeOK, database, aux
    <2>4. [r EXCEPT !.at = "reference"] \in Job
        BY <2>1 DEF Job
    <2>5. Shape([r EXCEPT !.at = "reference"])
        BY <2>1 DEF Shape, Job, Deleting
    <2>6. Ends(t) \/ GoTo(t, [r EXCEPT !.at = "reference"])
        BY <1>14 DEF DeleteDirectories
    <2> QED
        BY <2>3, <2>4, <2>5, <2>6, <1>e, <1>g
<1>r. ASSUME Runs(t), r.at = "reference", GoTo(t, [r EXCEPT !.at = "remove"])
      PROVE  Threaded
    <2>1. r \in Job /\ Shape(r)
        BY <1>r, <1>t
    <2>4. [r EXCEPT !.at = "remove"] \in Job
        BY <2>1 DEF Job
    <2>5. Shape([r EXCEPT !.at = "remove"])
        BY <1>r, <2>1 DEF Shape, Job, Deleting
    <2> QED
        BY <1>r, <2>4, <2>5, <1>g
<1>15. ASSUME DeleteReference(t) PROVE Threaded /\ Rest
    BY <1>15, <1>r DEF DeleteReference, TypeInv, TypeOK, database, aux, At, Runs
<1>16. ASSUME Remove(t) PROVE Threaded /\ Rest
    BY <1>16, <1>e DEF Remove, TypeInv, TypeOK, git, aux
<1>17. ASSUME PublishReview(t) PROVE Threaded /\ Rest
    <2>1. r \in Job /\ Shape(r) /\ r.at = "review"
        BY <1>17, <1>t DEF PublishReview, At, Runs
    <2>2. r.op = "publish" /\ r.branch \in Sandboxes
        BY <2>1 DEF Shape
    <2>3. Rest
        BY <1>17, <1>u DEF PublishReview, database, git, aux
    <2> DEFINE b == r.branch
               p == [r EXCEPT !.at = "commit", !.change = Renewed(b)]
    <2>4. CASE king[b] # None
        <3>1. \/ Ends(t) \/ GoTo(t, p) \/ GoTo(t, [r EXCEPT !.at = "commit"])
            BY <1>17 DEF PublishReview
        <3>2. Renewed(b) \in Edit
            BY <2>2 DEF Renewed, Change, Edit, TypeInv, TypeOK
        <3>3. Renewed(b).new => Renewed(b).commit # None /\ Renewed(b).approved # "keep"
            BY <2>4 DEF Renewed, Change
        <3>4. p \in Job /\ [r EXCEPT !.at = "commit"] \in Job
            BY <2>1, <3>2 DEF Job
        <3>5. Shape(p)
            BY <2>1, <2>2, <3>3 DEF Shape, Job, Deleting
        <3>6. Shape([r EXCEPT !.at = "commit"])
            BY <2>1, <2>2 DEF Shape, Job, Deleting
        <3> QED
            BY <3>1, <3>4, <3>5, <3>6, <2>3, <1>e, <1>g
    <2>5. CASE king[b] = None
        BY <1>17, <2>3, <2>5, <1>e DEF PublishReview
    <2> QED
        BY <2>4, <2>5
<1>18. ASSUME Commit(t) PROVE Threaded /\ Rest
    <2>1. r \in Job /\ Shape(r) /\ Ends(t)
        BY <1>18, <1>t DEF Commit, At, Runs
    <2>2. CASE Writable(r)
        <3>1. r.set \in SUBSET Cell /\ r.branch \in Branch /\ r.change \in Edit \cup {None}
            BY <2>1 DEF Job
        <3>2. row' = Sent(r.set) /\ review' = Written(r) /\ host' \in {host, r.branch}
            BY <1>18, <2>2 DEF Commit
        <3>3. row' \in [Branch -> Row \cup {None}]
            BY <2>2, <3>1, <3>2, SentType DEF Writable, TypeInv
        <3>4. review' \in Review \cup {None}
            BY <2>1, <2>2, <3>1, <3>2
            DEF Writable, Written, Shape, Edit, Review, TypeInv, TypeOK
        <3> QED
            BY <1>18, <2>1, <3>1, <3>2, <3>3, <3>4, <1>e DEF Commit, TypeInv, TypeOK, git
    <2>3. CASE ~Writable(r)
        BY <1>18, <2>3, <1>e, <1>u DEF Commit, database, git
    <2> QED
        BY <2>2, <2>3
<1>19. ASSUME CommandFails(t) PROVE Threaded /\ Rest
    <2>1. Rest
        BY <1>19 DEF CommandFails, TypeInv, TypeOK, database, git
    <2>2. ASSUME NEW d \in Domains, At(t, "sync"), SyncError(t, d) PROVE Threaded
        BY <2>2, <1>t, SyncErrorType DEF At, Runs, Shape, Op
    <2>3. ASSUME At(t, "checkout"), Op(t) # "rollback", SyncError(t, r.other) PROVE Threaded
        BY <2>3, <1>t, SyncErrorType DEF At, Runs, Shape, Op
    <2>4. ASSUME At(t, "target"), GoTo(t, StartSync(r, IF r.flag THEN r.branch ELSE None))
          PROVE  Threaded
        BY <2>4, <1>t, <1>g, StartSyncType DEF At, Runs, Shape
    <2>5. ASSUME At(t, "reference"), GoTo(t, [r EXCEPT !.at = "remove"]) PROVE Threaded
        BY <2>5, <1>r DEF At, Runs
    <2> QED
        BY <1>19, <2>1, <2>2, <2>3, <2>4, <2>5, <1>e DEF CommandFails
<1> QED
    BY <1>1, <1>2, <1>3, <1>4, <1>5, <1>6, <1>7, <1>8, <1>9, <1>10, <1>11, <1>12, <1>13,
       <1>14, <1>15, <1>16, <1>17, <1>18, <1>19 DEF Steps

LEMMA TypeInit ==
    ASSUME Init
    PROVE  TypeInv
<1>1. PICK tracks \in [Domains \ {Trunk} -> {None, Trunk} \cup Sandboxes],
           own \in [Branch \ {Trunk} -> {{}} \cup {{x} : x \in Changes}] :
        /\ row = [b \in Branch |->
                    NewRow(IF b \in DOMAIN tracks THEN tracks[b] ELSE None, {})]
        /\ king = [b \in Branch |-> IF b \in DOMAIN own THEN own[b] ELSE {}]
        /\ work = [d \in Domains |-> king[d]]
    BY DEF Init
<1>2. ASSUME NEW b \in Branch
      PROVE  NewRow(IF b \in DOMAIN tracks THEN tracks[b] ELSE None, {}) \in Row
    BY Apart DEF NewRow, Row, Commits
<1>3. row \in [Branch -> Row \cup {None}]
    BY <1>1, <1>2
<1>4. king \in [Branch -> Commits \cup {None}]
    BY <1>1 DEF Commits
<1>5. work \in [Domains -> Commits \cup {None}]
    BY <1>1, <1>4, Apart
<1> QED
    BY <1>3, <1>4, <1>5, Apart DEF Init, TypeInv, TypeOK, Runs, Commits

LEMMA TypeStutter ==
    ASSUME TypeInv, UNCHANGED vars
    PROVE  TypeInv'
BY DEF TypeInv, TypeOK, vars, database, git, aux, Runs

(* Whatever the commands do and however their steps interleave, rows,       *)
(* references and checkouts are of their types, a column that is written is *)
(* of the type of that column, and a command is at one of its own steps.    *)
THEOREM AlwaysTyped == Spec => []TypeOK
<1>1. TypeInv /\ [Next]_vars => TypeInv'
    BY CommandsType, StepsType, TypeStutter DEF Next
<1>2. TypeInv => TypeOK
    BY DEF TypeInv
<1> QED
    BY TypeInit, <1>1, <1>2, PTL DEF Spec

-----------------------------------------------------------------------------
(* What commands know of the rows.  Unless one of the overlapping commands  *)
(* deletes, a row stays, with the branch it tracks and the commit it began  *)
(* with, so that what a command has read of them still holds.               *)

There(w, b)    == w[b] # None
Tracking(w, d) == w[d] # None /\ w[d].tracked # None

\* Alone: without an overlap one command runs, a deletion without any other.
Alone ==
    /\ overlap = "no" => \A t, u \in Threads : Runs(t) /\ Runs(u) => t = u
    /\ Live => \A t, u \in Threads :
                  Runs(t) /\ Runs(u) /\ Op(t) \in Deleting => t = u

\* Two commands do not add the same branch.
Adders == \A t, u \in Threads :
    (Runs(t) /\ Runs(u) /\ Op(t) = "add" /\ Op(u) = "add"
        /\ thread[t].branch = thread[u].branch) => t = u

\* Domains track, and what they track is there and does not track.
Roots(w) == \A d \in Branch : Tracking(w, d) =>
    d \in Domains /\ There(w, w[d].tracked) /\ w[w[d].tracked].tracked = None

Rooted(w, r) ==
    /\ r.op \in {"sync", "publish", "deploy", "rollback"} \cup Deleting
        => There(w, r.branch)
    /\ \A d \in r.todo : Tracking(w, d)
    /\ r.at = "checkout" /\ r.op # "rollback" => Tracking(w, r.other)
    /\ r.op = "rollback" => Tracking(w, r.branch)
    /\ r.op = "deploy" => w[r.branch].tracked = None
    /\ r.op = "add" => ~There(w, r.branch)
    /\ r.op = "add" /\ r.flag => There(w, r.other) /\ w[r.other].tracked = None

Base == /\ TypeInv /\ Alone /\ Adders
        /\ Live => Roots(row) /\ \A t \in Threads : Runs(t) => Rooted(row, thread[t])

\* A command at its next step: what does not change, and what it has to sync
Onward(r, q) ==
    /\ q.op = r.op /\ q.branch = r.branch /\ q.flag = r.flag
    /\ r.op = "add" => q.other = r.other
    /\ \A d \in q.todo : d \in r.todo \/ d \in Trackers(r.branch)
    /\ q.at = "checkout" /\ q.op # "rollback" => q.other \in r.todo

LEMMA SyncedFields ==
    ASSUME NEW r \in Job, NEW d
    PROVE  /\ Synced(r, d).op = r.op /\ Synced(r, d).branch = r.branch
           /\ Synced(r, d).other = r.other /\ Synced(r, d).commit = r.commit
           /\ Synced(r, d).todo = r.todo \ {d} /\ Synced(r, d).set = r.set
           /\ Synced(r, d).change = r.change /\ Synced(r, d).flag = r.flag
           /\ Synced(r, d).at \in {"sync", "review", "commit"}
BY DEF Synced, Job

LEMMA StartSyncFields ==
    ASSUME NEW r \in Job, NEW b
    PROVE  /\ StartSync(r, b).op = r.op /\ StartSync(r, b).branch = r.branch
           /\ StartSync(r, b).other = r.other /\ StartSync(r, b).commit = r.commit
           /\ StartSync(r, b).set = r.set
           /\ StartSync(r, b).change = r.change /\ StartSync(r, b).flag = r.flag
           /\ StartSync(r, b).at \in {"sync", "review", "commit"}
           /\ \A d \in StartSync(r, b).todo : b \in Branch /\ d \in Trackers(b)
<1> DEFINE todo == IF b \in Branch /\ Exists(b) /\ row[b].autosync THEN AutoTrackers(b) ELSE {}
           q == [r EXCEPT !.todo = todo]
<1>1. StartSync(r, b) = Synced(q, None)
    BY DEF StartSync
<1>2. todo \subseteq Domains
    BY DEF AutoTrackers, Trackers
<1>3. q \in Job /\ q.todo = todo
    BY <1>2 DEF Job
<1>4. /\ q.op = r.op /\ q.branch = r.branch /\ q.other = r.other /\ q.commit = r.commit
      /\ q.set = r.set /\ q.change = r.change /\ q.flag = r.flag
    BY DEF Job
<1>5. \A d \in todo : b \in Branch /\ d \in Trackers(b)
    BY DEF AutoTrackers
<1> HIDE DEF q, todo
<1> QED
    BY <1>1, <1>3, <1>4, <1>5, SyncedFields

\* Every step moves its own thread on, or ends it.
LEMMA StepOn ==
    ASSUME TypeInv, NEW t \in Threads, Steps(t)
    PROVE  /\ overlap' = overlap /\ Runs(t)
           /\ thread'[t] # None => Onward(thread[t], thread'[t])
           /\ \A u \in Threads \ {t} : thread'[u] = thread[u]
<1> DEFINE r == thread[t]
           Moved == /\ thread'[t] # None => Onward(r, thread'[t])
                    /\ \A u \in Threads \ {t} : thread'[u] = thread[u]
<1>d. t \in DOMAIN thread
    BY DEF TypeInv, TypeOK
<1>e. Ends(t) => Moved
    BY <1>d DEF Ends
<1>g. ASSUME NEW q, Onward(r, q), GoTo(t, q) PROVE Moved
    BY <1>d, <1>g DEF GoTo
<1>a. ASSUME NEW q, NEW a, Runs(t), q = [r EXCEPT !.at = a], a # "checkout" \/ r.op = "rollback"
      PROVE  Onward(r, q)
    BY <1>a, Jobs DEF TypeInv, Onward, Job
<1>b. ASSUME NEW q, NEW a, NEW c, Runs(t), q = [r EXCEPT !.at = a, !.commit = c], a # "checkout"
      PROVE  Onward(r, q)
    BY <1>b, Jobs DEF TypeInv, Onward, Job
<1>y. ASSUME NEW d, Runs(t) PROVE Onward(r, Synced(r, d))
    BY <1>y, Jobs, SyncedFields DEF TypeInv, Onward
<1>z. ASSUME NEW b, Runs(t), b \in {None, r.branch} PROVE Onward(r, StartSync(r, b))
    BY <1>z, Jobs, StartSyncFields, Apart DEF TypeInv, Onward
<1>s. ASSUME NEW d, Runs(t), SyncError(t, d) PROVE Moved
    BY <1>s, <1>e, <1>g, <1>y DEF SyncError
<1>1. ASSUME NEW d \in Domains, SyncPush(t, d) PROVE overlap' = overlap /\ Runs(t) /\ Moved
    <2>1. overlap' = overlap /\ Runs(t) /\ r.op # "add"
        BY <1>1 DEF SyncPush, aux, At, Runs, TypeInv, Shape
    <2>2. Onward(r, [r EXCEPT !.at = "checkout", !.other = d])
        BY <2>1, <1>1, Jobs DEF SyncPush, Onward, Job, TypeInv
    <2> QED
        BY <1>1, <2>1, <2>2, <1>g, <1>s DEF SyncPush
<1>2. ASSUME SyncCheckout(t) PROVE overlap' = overlap /\ Runs(t) /\ Moved
    <2>1. overlap' = overlap /\ Runs(t)
        BY <1>2 DEF SyncCheckout, aux, At, Runs
    <2> DEFINE c == {[branch |-> r.other, name |-> "rollback", value |-> work[r.other]]}
               q == Synced(r, r.other)
    <2>2. r.op \in {"sync", "publish", "deploy"}
        BY <1>2 DEF SyncCheckout, At, Op, TypeInv, Runs, Shape
    <2>3. q \in Job /\ Onward(r, q)
        BY <2>1, <2>2, <1>y, Jobs, SyncedType DEF TypeInv
    <2> HIDE DEF q
    <2>4. Onward(r, [q EXCEPT !.set = @ \cup c])
        BY <2>3 DEF Onward, Job
    <2>5. SyncError(t, r.other) \/ GoTo(t, [q EXCEPT !.set = @ \cup c])
        BY <1>2 DEF SyncCheckout, q
    <2> QED
        BY <2>1, <2>4, <2>5, <1>g, <1>s
<1>3. ASSUME PublishClone(t) PROVE overlap' = overlap /\ Runs(t) /\ Moved
    <2>1. overlap' = overlap /\ Runs(t)
        BY <1>3 DEF PublishClone, aux, At, Runs
    <2>2. PICK c : GoTo(t, [r EXCEPT !.at = "push", !.commit = c])
        BY <1>3 DEF PublishClone
    <2> QED
        BY <2>1, <2>2, <1>b, <1>g
<1>4. ASSUME DeployClone(t) PROVE overlap' = overlap /\ Runs(t) /\ Moved
    <2>1. overlap' = overlap /\ Runs(t)
        BY <1>4 DEF DeployClone, aux, At, Runs
    <2> DEFINE c == king[r.branch] \cup king[r.other]
    <2>2. Ends(t) \/ GoTo(t, [r EXCEPT !.at = "push", !.commit = c])
        BY <1>4 DEF DeployClone
    <2> QED
        BY <2>1, <2>2, <1>b, <1>e, <1>g
<1>5. ASSUME PushOrigin(t) PROVE overlap' = overlap /\ Runs(t) /\ Moved
    <2>1. overlap' = overlap /\ Runs(t)
        BY <1>5 DEF PushOrigin, aux, At, Runs
    <2>2. \/ Ends(t) \/ GoTo(t, [r EXCEPT !.at = "target"])
          \/ \E b \in {None, r.branch} : GoTo(t, StartSync(r, b))
        BY <1>5 DEF PushOrigin
    <2> QED
        BY <2>1, <2>2, <1>a, <1>e, <1>g, <1>z
<1>6. ASSUME DeployTarget(t) PROVE overlap' = overlap /\ Runs(t) /\ Moved
    <2>1. overlap' = overlap /\ Runs(t)
        BY <1>6 DEF DeployTarget, aux, At, Runs
    <2>2. \E b \in {None, r.branch} : GoTo(t, StartSync(r, b))
        BY <1>6 DEF DeployTarget
    <2> QED
        BY <2>1, <2>2, <1>g, <1>z
<1>7. ASSUME RollbackForce(t) PROVE overlap' = overlap /\ Runs(t) /\ Moved
    <2>1. overlap' = overlap /\ Runs(t) /\ r.op = "rollback"
        BY <1>7 DEF RollbackForce, aux, At, Runs, TypeInv, Shape
    <2> QED
        BY <1>7, <2>1, <1>a, <1>g DEF RollbackForce
<1>8. ASSUME RollbackCheckout(t) PROVE overlap' = overlap /\ Runs(t) /\ Moved
    BY <1>8, <1>a, <1>e, <1>g DEF RollbackCheckout, aux, At, Runs
<1>9. ASSUME AddBranch(t) PROVE overlap' = overlap /\ Runs(t) /\ Moved
    <2>1. overlap' = overlap /\ Runs(t)
        BY <1>9 DEF AddBranch, aux, At, Runs
    <2>2. Ends(t) \/ \E a \in {"checkout1", "insert"} : GoTo(t, [r EXCEPT !.at = a])
        BY <1>9 DEF AddBranch
    <2> QED
        BY <2>1, <2>2, <1>a, <1>e, <1>g
<1>10. ASSUME AddClone(t) PROVE overlap' = overlap /\ Runs(t) /\ Moved
    BY <1>10, <1>a, <1>g DEF AddClone, aux, At, Runs
<1>11. ASSUME AddCloneFails(t) PROVE overlap' = overlap /\ Runs(t) /\ Moved
    BY <1>11, <1>e DEF AddCloneFails, aux, At, Runs
<1>12. ASSUME Insert(t) PROVE overlap' = overlap /\ Runs(t) /\ Moved
    BY <1>12, <1>e DEF Insert, aux, At, Runs
<1>13. ASSUME DeleteTrash(t) PROVE overlap' = overlap /\ Runs(t) /\ Moved
    BY <1>13, <1>a, <1>g DEF DeleteTrash, aux, At, Runs
<1>14. ASSUME DeleteDirectories(t) PROVE overlap' = overlap /\ Runs(t) /\ Moved
    <2>1. overlap' = overlap /\ Runs(t)
        BY <1>14 DEF DeleteDirectories, aux, At, Runs
    <2>2. Ends(t) \/ GoTo(t, [r EXCEPT !.at = "reference"])
        BY <1>14 DEF DeleteDirectories
    <2> QED
        BY <2>1, <2>2, <1>a, <1>e, <1>g
<1>15. ASSUME DeleteReference(t) PROVE overlap' = overlap /\ Runs(t) /\ Moved
    BY <1>15, <1>a, <1>g DEF DeleteReference, aux, At, Runs
<1>16. ASSUME Remove(t) PROVE overlap' = overlap /\ Runs(t) /\ Moved
    BY <1>16, <1>e DEF Remove, aux, At, Runs
<1>17. ASSUME PublishReview(t) PROVE overlap' = overlap /\ Runs(t) /\ Moved
    <2>1. overlap' = overlap /\ Runs(t)
        BY <1>17 DEF PublishReview, aux, At, Runs
    <2> DEFINE c == Renewed(r.branch)
    <2>2. \/ Ends(t) \/ GoTo(t, [r EXCEPT !.at = "commit"])
          \/ GoTo(t, [r EXCEPT !.at = "commit", !.change = c])
        BY <1>17 DEF PublishReview
    <2>3. Onward(r, [r EXCEPT !.at = "commit", !.change = c])
        BY <2>1, Jobs DEF TypeInv, Onward, Job
    <2> QED
        BY <2>1, <2>2, <2>3, <1>a, <1>e, <1>g
<1>18. ASSUME Commit(t) PROVE overlap' = overlap /\ Runs(t) /\ Moved
    BY <1>18, <1>e DEF Commit, At, Runs
<1>19. ASSUME CommandFails(t) PROVE overlap' = overlap /\ Runs(t) /\ Moved
    <2>1. overlap' = overlap /\ Runs(t)
        BY <1>19 DEF CommandFails, At, Runs
    <2>2. \/ \E d : SyncError(t, d)
          \/ \E b \in {None, r.branch} : GoTo(t, StartSync(r, b))
          \/ GoTo(t, [r EXCEPT !.at = "remove"])
          \/ Ends(t)
        BY <1>19 DEF CommandFails
    <2> QED
        BY <2>1, <2>2, <1>a, <1>e, <1>g, <1>s, <1>z
<1> QED
    BY <1>1, <1>2, <1>3, <1>4, <1>5, <1>6, <1>7, <1>8, <1>9, <1>10, <1>11, <1>12, <1>13,
       <1>14, <1>15, <1>16, <1>17, <1>18, <1>19 DEF Steps

\* Rows stay, with what does not change in them.
Holds(w, v) == \A b \in Branch : There(w, b) =>
    There(v, b) /\ v[b].tracked = w[b].tracked /\ v[b].base = w[b].base

LEMMA RowSteps ==
    ASSUME Base, Live, NEW t \in Threads, Steps(t)
    PROVE  /\ Op(t) \notin Deleting => Holds(row, row')
           /\ \A b \in Branch : ~There(row, b) /\ There(row', b) =>
                /\ thread[t].at = "insert" /\ b = thread[t].branch /\ thread'[t] = None
                /\ row'[b].tracked = IF thread[t].flag THEN thread[t].other ELSE None
           /\ Op(t) \in Deleting => \A b \in Branch : b # thread[t].branch => row'[b] = row[b]
           /\ Op(t) \in Deleting /\ row' # row =>
                /\ thread[t].at = "remove" /\ Unused(thread[t].branch)
                /\ row'[thread[t].branch] = None /\ thread'[t] = None
<1> DEFINE r == thread[t]
           Goal == /\ Op(t) \notin Deleting => Holds(row, row')
                   /\ \A b \in Branch : ~There(row, b) /\ There(row', b) =>
                        /\ r.at = "insert" /\ b = r.branch /\ thread'[t] = None
                        /\ row'[b].tracked = IF r.flag THEN r.other ELSE None
                   /\ Op(t) \in Deleting => \A b \in Branch : b # r.branch => row'[b] = row[b]
                   /\ Op(t) \in Deleting /\ row' # row =>
                        /\ r.at = "remove" /\ Unused(r.branch)
                        /\ row'[r.branch] = None /\ thread'[t] = None
<1>1. Runs(t) /\ r \in Job /\ Shape(r) /\ Rooted(row, r) /\ t \in DOMAIN thread
    BY StepOn, Jobs DEF Base, TypeInv, TypeOK
<1>2. CASE row' = row
    BY <1>2 DEF Holds, There
<1>3. ASSUME Insert(t) PROVE Goal
    <2> DEFINE new == NewRow(IF r.flag THEN r.other ELSE None,
                             IF r.commit = None THEN {} ELSE r.commit)
    <2>1. r.at = "insert" /\ r.op = "add" /\ ~There(row, r.branch)
        BY <1>1, <1>3 DEF Insert, At, Shape, Rooted
    <2>2. row' = [row EXCEPT ![r.branch] = new] /\ thread'[t] = None
        BY <1>1, <1>3 DEF Insert, Ends
    <2>3. new.tracked = IF r.flag THEN r.other ELSE None
        BY DEF NewRow
    <2> HIDE DEF new
    <2>4. \A b \in Branch : b # r.branch => row'[b] = row[b]
        BY <2>2 DEF Base, TypeInv, TypeOK
    <2>5. row'[r.branch] = new
        BY <2>2, <1>1 DEF Base, TypeInv, TypeOK, Job
    <2> QED
        BY <2>1, <2>2, <2>3, <2>4, <2>5 DEF Holds, There, Op, Deleting
<1>4. ASSUME Remove(t) PROVE Goal
    <2>1. r.at = "remove" /\ r.op \in Deleting
        BY <1>1, <1>4 DEF Remove, At, Shape
    <2>2. thread'[t] = None
        BY <1>1, <1>4 DEF Remove, Ends
    <2>3. CASE Unused(r.branch)
        <3>1. row' = [row EXCEPT ![r.branch] = None]
            BY <1>4, <2>3 DEF Remove
        <3>2. \A b \in Branch : row'[b] = IF b = r.branch THEN None ELSE row[b]
            BY <3>1 DEF Base, TypeInv, TypeOK
        <3>3. row'[r.branch] = None
            BY <3>2, <1>1 DEF Job
        <3> QED
            BY <2>1, <2>2, <2>3, <3>2, <3>3 DEF There, Op
    <2>4. CASE ~Unused(r.branch)
        BY <1>4, <2>4, <1>2 DEF Remove
    <2> QED
        BY <2>3, <2>4
<1>5. ASSUME Commit(t) PROVE Goal
    <2>1. r.op \notin Deleting
        BY <1>1, <1>5 DEF Commit, At, Shape
    <2>2. CASE Writable(r)
        <3>1. row' = Sent(r.set) /\ r.set \in SUBSET Cell
            BY <1>1, <1>5, <2>2 DEF Commit, Job
        <3>2. /\ \A b \in Branch : row'[b] # None <=> Exists(b)
              /\ \A b \in Branch : Exists(b) => row'[b].tracked = row[b].tracked
                                                 /\ row'[b].base = row[b].base
            BY <2>2, <3>1, SentType DEF Writable, Base, TypeInv
        <3> QED
            BY <2>1, <3>2 DEF Holds, There, Exists, Op
    <2>3. CASE ~Writable(r)
        BY <1>5, <2>3, <1>2 DEF Commit, database
    <2> QED
        BY <2>2, <2>3
<1>6. Insert(t) \/ Remove(t) \/ Commit(t) \/ row' = row
    BY DEF Steps, SyncPush, SyncCheckout, PublishClone, DeployClone, PushOrigin, DeployTarget,
       RollbackForce, RollbackCheckout, AddBranch, AddClone, AddCloneFails, DeleteTrash,
       DeleteDirectories, DeleteReference, PublishReview, CommandFails, database
<1> QED
    BY <1>2, <1>3, <1>4, <1>5, <1>6

LEMMA RootedFrame ==
    ASSUME NEW w, NEW v, Holds(w, v), NEW r \in Job, Shape(r), Rooted(w, r),
           r.op = "add" => ~There(v, r.branch)
    PROVE  Rooted(v, r)
<1>1. \A d \in Branch : Tracking(w, d) => Tracking(v, d)
    BY DEF Holds, Tracking, There
<1>2. r.branch \in Branch /\ \A d \in r.todo : d \in Branch
    BY Apart DEF Job
<1>3. r.at = "checkout" /\ r.op # "rollback" => r.other \in Branch
    BY Apart DEF Shape
<1>4. r.op = "add" => r.other \in Branch
    BY DEF Shape
<1>5. r.op = "deploy" => There(w, r.branch)
    BY DEF Rooted
<1>6. /\ r.op \in {"sync", "publish", "deploy", "rollback"} \cup Deleting => There(v, r.branch)
      /\ r.op = "deploy" => v[r.branch].tracked = None
    BY <1>2, <1>5 DEF Rooted, Holds
<1>7. /\ \A d \in r.todo : Tracking(v, d)
      /\ r.at = "checkout" /\ r.op # "rollback" => Tracking(v, r.other)
      /\ r.op = "rollback" => Tracking(v, r.branch)
    BY <1>1, <1>2, <1>3 DEF Rooted
<1>8. r.op = "add" /\ r.flag => There(v, r.other) /\ v[r.other].tracked = None
    BY <1>4 DEF Rooted, Holds
<1> QED
    BY <1>6, <1>7, <1>8 DEF Rooted

\* A command at its next step knows as much of the rows as before.
LEMMA RootedOn ==
    ASSUME Base, NEW r \in Job, Shape(r), Rooted(row, r), NEW q \in Job, Onward(r, q)
    PROVE  Rooted(row, q)
<1>1. \A d \in q.todo : Tracking(row, d)
    BY Apart DEF Onward, Rooted, Trackers, Tracking, Exists, Job
<1>2. q.at = "checkout" /\ q.op # "rollback" => Tracking(row, q.other)
    BY DEF Onward, Rooted
<1> QED
    BY <1>1, <1>2 DEF Onward, Rooted

LEMMA RootsOn ==
    ASSUME NEW w, NEW v, Roots(w), Holds(w, v),
           \A d \in Branch : ~There(w, d) /\ Tracking(v, d) =>
                /\ d \in Domains /\ v[d].tracked \in Branch /\ There(w, v[d].tracked)
                /\ w[v[d].tracked].tracked = None,
           \A d \in Branch : Tracking(w, d) => w[d].tracked \in Branch
    PROVE  Roots(v)
<1> SUFFICES ASSUME NEW d \in Branch, Tracking(v, d)
             PROVE  d \in Domains /\ There(v, v[d].tracked) /\ v[v[d].tracked].tracked = None
    BY DEF Roots
<1>1. CASE There(w, d)
    <2>1. v[d].tracked = w[d].tracked /\ Tracking(w, d)
        BY <1>1 DEF Holds, Tracking, There
    <2> QED
        BY <2>1 DEF Roots, Holds
<1>2. CASE ~There(w, d)
    BY <1>2 DEF Holds
<1> QED
    BY <1>1, <1>2

LEMMA TrackedBranch ==
    ASSUME TypeOK, NEW d \in Branch, Tracking(row, d)
    PROVE  row[d].tracked \in Branch
BY Rows DEF Tracking, Exists, Row

LEMMA BaseSteps ==
    ASSUME Base, NEW t \in Threads, Steps(t)
    PROVE  Base'
<1> DEFINE r == thread[t]
<1>1. /\ overlap' = overlap /\ Runs(t) /\ TypeInv'
      /\ \A u \in Threads \ {t} : thread'[u] = thread[u]
      /\ thread'[t] # None => Onward(r, thread'[t])
    BY StepOn, StepsType DEF Base
<1>2. \A u \in Threads : thread'[u] # None =>
        Runs(u) /\ thread'[u].op = thread[u].op /\ thread'[u].branch = thread[u].branch
    BY <1>1 DEF Onward, Runs
<1>3. Alone'
    BY <1>1, <1>2 DEF Alone, Base, Runs, Live, Op
<1>4. Adders'
    BY <1>1, <1>2 DEF Adders, Base, Runs, Op
<1>5. ASSUME Live
      PROVE  Roots(row') /\ \A u \in Threads : thread'[u] # None => Rooted(row', thread'[u])
    <2>1. \A u \in Threads : Runs(u) => thread[u] \in Job /\ Shape(thread[u])
                                          /\ Rooted(row, thread[u])
        BY <1>5, Jobs DEF Base, TypeInv
    <2>2. Roots(row) /\ \A d \in Branch : Tracking(row, d) => row[d].tracked \in Branch
        BY <1>5, TrackedBranch DEF Base, TypeInv
    <2>3. CASE Op(t) \in Deleting
        <3>1. \A u \in Threads : thread'[u] # None => u = t
            BY <1>2, <1>1, <1>5, <2>3 DEF Base, Alone, Runs
        <3>2. CASE row' = row
            BY <3>1, <3>2, <1>1, <2>1, <2>2, Jobs, RootedOn DEF Base, TypeInv, TypeOK
        <3>3. CASE row' # row
            <4>1. /\ Unused(r.branch) /\ row'[r.branch] = None /\ thread'[t] = None
                  /\ \A b \in Branch : b # r.branch => row'[b] = row[b]
                BY <1>1, <1>5, <2>3, <3>3, RowSteps
            <4>2. \A d \in Domains : Tracking(row, d) => row[d].tracked # r.branch
                BY <4>1 DEF Unused, Trackers, Tracking, Exists
            <4>3. Roots(row')
                BY <4>1, <4>2, <2>2 DEF Roots, Tracking, There
            <4> QED
                BY <3>1, <4>1, <4>3
        <3> QED
            BY <3>2, <3>3
    <2>4. CASE Op(t) \notin Deleting
        <3>1. Holds(row, row')
            BY <1>5, <2>4, RowSteps
        <3>2. \A b \in Branch : ~There(row, b) /\ There(row', b) =>
                /\ r.at = "insert" /\ b = r.branch /\ thread'[t] = None
                /\ row'[b].tracked = IF r.flag THEN r.other ELSE None
            BY <1>5, RowSteps
        <3>3. r.at = "insert" => r.op = "add" /\ r.other \in Branch
            BY <1>1, <2>1 DEF Shape
        <3>4. Roots(row')
            <4>1. ASSUME NEW d \in Branch, ~There(row, d), Tracking(row', d)
                  PROVE  /\ d \in Domains /\ row'[d].tracked \in Branch
                         /\ There(row, row'[d].tracked) /\ row[row'[d].tracked].tracked = None
                <5>1. /\ d = r.branch /\ r.op = "add" /\ r.flag /\ row'[d].tracked = r.other
                      /\ r.other \in Branch
                    BY <4>1, <3>2, <3>3 DEF Tracking, There
                <5>2. d \in Domains
                    BY <5>1, <1>1, <2>1 DEF Shape, Branch
                <5> QED
                    BY <5>1, <5>2, <1>1, <2>1 DEF Rooted
            <4> QED
                BY <4>1, <2>2, <3>1, RootsOn
        <3>5. ASSUME NEW u \in Threads \ {t}, thread'[u] # None PROVE Rooted(row', thread'[u])
            <4>1. thread'[u] = thread[u] /\ Runs(u)
                BY <1>1, <3>5 DEF Runs
            <4>2. thread[u].op = "add" => ~There(row', thread[u].branch)
                <5>1. thread[u].op = "add" =>
                        ~There(row, thread[u].branch) /\ thread[u].branch \in Branch
                    BY <4>1, <2>1 DEF Rooted, Job
                <5>2. thread[u].op = "add" /\ r.op = "add" => thread[u].branch # r.branch
                    BY <1>1, <4>1 DEF Base, Adders, Op
                <5> QED
                    BY <5>1, <5>2, <3>2, <3>3
            <4> QED
                BY <4>1, <4>2, <2>1, <3>1, RootedFrame
        <3>6. ASSUME thread'[t] # None PROVE Rooted(row', thread'[t])
            <4>1. thread'[t] \in Job /\ Shape(thread'[t]) /\ Onward(r, thread'[t])
                BY <3>6, <1>1 DEF TypeInv, TypeOK, Runs
            <4>2. Rooted(row, thread'[t])
                BY <4>1, <1>1, <2>1, RootedOn
            <4>3. thread'[t].op = "add" => ~There(row', thread'[t].branch)
                BY <4>1, <4>2, <3>2, <3>6 DEF Rooted, Job
            <4> QED
                BY <4>1, <4>2, <4>3, <3>1, RootedFrame
        <3> QED
            BY <3>4, <3>5, <3>6
    <2> QED
        BY <2>3, <2>4
<1> QED
    BY <1>1, <1>3, <1>4, <1>5 DEF Base, Live, Runs

\* A command that begins
LEMMA BeginBase ==
    ASSUME Base, NEW t \in Threads, NEW r, Begin(t, r), TypeInv',
           Live' => Rooted(row, r),
           r.op = "add" => ~Adding(r.branch)
    PROVE  Base'
<1>1. /\ thread[t] = None /\ thread'[t] = r /\ overlap' = Met(r.op) /\ row' = row
      /\ \A u \in Threads \ {t} : thread'[u] = thread[u]
    BY DEF Begin, database, Base, TypeInv, TypeOK
<1>2. overlap' = "no" => overlap = "no" /\ \A u \in Threads : thread[u] = None
    BY <1>1 DEF Met
<1>3. Live' => Live /\ \/ \A u \in Threads : thread[u] = None
                       \/ \A u \in Threads : thread'[u] # None => thread'[u].op \notin Deleting
    <2>1. ASSUME Live', NEW v \in Threads, thread[v] # None
          PROVE  Live /\ r.op \notin Deleting
                      /\ \A u \in Threads : thread[u] # None => thread[u].op \notin Deleting
        BY <2>1, <1>1 DEF Met, Live
    <2>2. ASSUME Live', \A u \in Threads : thread[u] = None PROVE Live
        BY <2>2, <1>1 DEF Met, Live
    <2> QED
        BY <2>1, <2>2, <1>1
<1>4. Alone'
    BY <1>1, <1>2, <1>3 DEF Alone, Runs, Op
<1>5. Adders'
    BY <1>1 DEF Adders, Adding, Runs, Op, Base
<1>6. Live' => \A u \in Threads : thread'[u] # None => Rooted(row, thread'[u])
    BY <1>1, <1>3 DEF Base, Runs
<1> QED
    BY <1>1, <1>3, <1>4, <1>5, <1>6 DEF Base, Runs

LEMMA LiveBefore ==
    ASSUME NEW t \in Threads, NEW r, Begin(t, r), Live'
    PROVE  Live
BY DEF Begin, Met, Live

LEMMA CommandsBase ==
    ASSUME Base, NEW t \in Threads, Commands(t)
    PROVE  Base'
<1>0. TypeInv'
    BY CommandsType DEF Base
<1>p. ASSUME NEW r, Begin(t, r), r.todo = {}, r.at = "commit",
             r.op \in {"validate", "update", "manage", "request", "review", "del_review"}
      PROVE  Base'
    <2>1. Rooted(row, r)
        BY <1>p DEF Rooted, Deleting
    <2> QED
        BY <1>0, <1>p, <2>1, BeginBase
<1>1. ASSUME NEW b \in Branch, Validate(t, b) PROVE Base'
    BY <1>1, <1>p DEF Validate, Start
<1>2. ASSUME NEW b \in Branch, Autosync(t, b) PROVE Base'
    BY <1>2, <1>p DEF Autosync, Start
<1>3. ASSUME NEW b \in Branch, Delete(t, b) PROVE Base'
    <2> DEFINE r == Start(IF b \in Domains THEN "del_domain" ELSE "del_sandbox",
            IF b \in Domains /\ row[b].tracked = None THEN "trash" ELSE "delete", b)
    <2>1. Rooted(row, r)
        BY <1>3 DEF Delete, Rooted, Start, Deleting, There, Exists
    <2>2. r.op # "add"
        BY DEF Start
    <2> QED
        BY <1>0, <1>3, <2>1, <2>2, BeginBase DEF Delete
<1>4. ASSUME NEW b \in Branch, NEW force \in BOOLEAN, Manage(t, b, force) PROVE Base'
    BY <1>4, <1>p DEF Manage, Start
<1>5. ASSUME NEW b \in Branch, NEW n \in Domains, NEW sync \in BOOLEAN, Deploy(t, b, n, sync)
      PROVE Base'
    <2> DEFINE d == Target(n, sync)
               r == [Start("deploy", "clone", d) EXCEPT !.other = b, !.flag = sync]
    <2>1. Begin(t, r) /\ d # None /\ Exists(n)
        BY <1>5 DEF Deploy
    <2>2. ASSUME Live PROVE There(row, d) /\ row[d].tracked = None
        <3>1. CASE row[n].tracked = None
            BY <3>1, <2>1, Apart DEF Target, There, Exists
        <3>2. CASE row[n].tracked # None
            <4>1. d = row[n].tracked
                BY <3>2, <2>1 DEF Target
            <4> QED
                BY <4>1, <3>2, <2>1, <2>2, Apart DEF Base, Roots, Tracking, Exists
        <3> QED
            BY <3>1, <3>2
    <2>3. r.op = "deploy" /\ r.todo = {} /\ r.at = "clone" /\ r.branch = d
        BY DEF Start
    <2> HIDE DEF r, d
    <2>4. Live => Rooted(row, r)
        BY <2>2, <2>3 DEF Rooted
    <2> QED
        BY <1>0, <2>1, <2>3, <2>4, BeginBase, LiveBefore
<1>6. ASSUME NEW b \in Branch, NEW d \in Domains, NEW track \in BOOLEAN,
             AddDomain(t, d, b, track)
      PROVE Base'
    <2> DEFINE r == [Start("add", "branch", d) EXCEPT !.other = b, !.flag = track]
    <2>1. Rooted(row, r)
        BY <1>6 DEF AddDomain, Rooted, Start, Deleting, There, Exists
    <2>2. r.branch = d
        BY DEF Start
    <2> QED
        BY <1>0, <1>6, <2>1, <2>2, BeginBase DEF AddDomain
<1>7. ASSUME NEW b \in Branch, NEW s \in Sandboxes, AddSandbox(t, s, b) PROVE Base'
    <2> DEFINE r == [Start("add", "branch", s) EXCEPT !.other = b, !.commit = king[b]]
    <2>1. Rooted(row, r)
        BY <1>7 DEF AddSandbox, Rooted, Start, Deleting, There, Exists
    <2>2. r.branch = s
        BY DEF Start
    <2> QED
        BY <1>0, <1>7, <2>1, <2>2, BeginBase DEF AddSandbox
<1>8. ASSUME NEW d \in Domains, Sync(t, d) PROVE Base'
    <2> DEFINE r == [Start("sync", "sync", d) EXCEPT !.todo = {d}]
    <2>1. Rooted(row, r)
        BY <1>8 DEF Sync, Rooted, Start, Deleting, There, Exists, Tracking
    <2>2. r.op # "add"
        BY DEF Start
    <2> QED
        BY <1>0, <1>8, <2>1, <2>2, BeginBase DEF Sync
<1>9. ASSUME NEW d \in Domains, NEW c, Rollback(t, d, c) PROVE Base'
    <2> DEFINE s == Column(row[d].tracked, "valid", FALSE) \cup Column(d, "rollback", None)
               r == [Start("rollback", "force", d) EXCEPT !.commit = c, !.set = s]
    <2> HIDE DEF s
    <2>1. Rooted(row, r)
        BY <1>9 DEF Rollback, Rooted, Start, Deleting, There, Exists, Tracking
    <2>2. r.op # "add"
        BY DEF Start
    <2> QED
        BY <1>0, <1>9, <2>1, <2>2, BeginBase DEF Rollback, s
<1>10. ASSUME NEW d \in Domains, NEW on \in BOOLEAN, Archive(t, d, on) PROVE Base'
    BY <1>10, <1>p DEF Archive, Start
<1>11. ASSUME NEW d \in Domains, NEW on \in BOOLEAN, AllowManage(t, d, on) PROVE Base'
    BY <1>11, <1>p DEF AllowManage, Start
<1>12. ASSUME NEW s \in Sandboxes, RequestReview(t, s) PROVE Base'
    BY <1>12, <1>p DEF RequestReview, Start
<1>13. ASSUME NEW s \in Sandboxes, NEW rebase \in BOOLEAN, Publish(t, s, rebase) PROVE Base'
    <2> DEFINE c == Column(s, "valid", TRUE)
               r == [Start("publish", "clone", s) EXCEPT !.flag = rebase, !.set = c]
    <2> HIDE DEF c
    <2>1. Rooted(row, r)
        BY <1>13 DEF Publish, Rooted, Start, Deleting, There, Exists
    <2>2. r.op # "add"
        BY DEF Start
    <2> QED
        BY <1>0, <1>13, <2>1, <2>2, BeginBase DEF Publish, c
<1>14. ASSUME NEW a \in {"unset", "yes", "no"}, UpdateReview(t, a) PROVE Base'
    BY <1>14, <1>p DEF UpdateReview, Start
<1>15. ASSUME DelReview(t) PROVE Base'
    BY <1>15, <1>p DEF DelReview, Start
<1> QED
    BY <1>1, <1>2, <1>3, <1>4, <1>5, <1>6, <1>7, <1>8, <1>9, <1>10, <1>11, <1>12, <1>13,
       <1>14, <1>15 DEF Commands

LEMMA BaseInit ==
    ASSUME Init
    PROVE  Base
<1>1. PICK tracks \in [Domains \ {Trunk} -> {None, Trunk} \cup Sandboxes] :
        row = [b \in Branch |-> NewRow(IF b \in DOMAIN tracks THEN tracks[b] ELSE None, {})]
    BY DEF Init
<1>2. \A b \in Branch : There(row, b)
        /\ row[b].tracked = IF b \in Domains \ {Trunk} THEN tracks[b] ELSE None
    <2>1. \A b \in Branch : NewRow(IF b \in DOMAIN tracks THEN tracks[b] ELSE None, {}) \in Row
        BY Apart DEF NewRow, Row, Commits
    <2> QED
        BY <1>1, <2>1, Apart DEF NewRow, There
<1>3. Roots(row)
    BY <1>2, Apart, BranchesAssumption DEF Roots, Tracking, There, Branch
<1>4. \A t \in Threads : ~Runs(t)
    BY DEF Init, Runs
<1> QED
    BY <1>3, <1>4, TypeInit DEF Base, Alone, Adders

LEMMA BaseNext ==
    ASSUME Base, [Next]_vars
    PROVE  Base'
<1>1. CASE UNCHANGED vars
    BY <1>1, TypeStutter
    DEF Base, Alone, Adders, Live, Runs, Op, vars, database, aux
<1> QED
    BY <1>1, CommandsBase, BaseSteps DEF Next

(* What a command has read stays true of the rows until it ends, unless a   *)
(* deletion overlaps with another command: its domains still track          *)
(* (sync.py:31, rollback.py:34), the target of a deployment does not        *)
(* (deploy.py:59-74), and what a new domain will track is still there       *)
(* (add_domain.py:39).                                                      *)
THEOREM AlwaysBase == Spec => []Base
BY BaseInit, BaseNext, PTL DEF Spec

-----------------------------------------------------------------------------
(* What a command has found when it begins.                                 *)

Asked(r) ==
    /\ r.at \in {"sync", "clone", "force", "branch", "trash", "delete", "commit"}
    /\ r.op = "del_domain" /\ r.at = "delete" => row[r.branch].tracked # None
    /\ r.op # "sync" => r.todo = {}
    /\ r.op = "sync" => r.todo = {r.branch} /\ row[row[r.branch].tracked].valid
    /\ r.op = "deploy" =>
        /\ r.flag => row[r.branch].valid \/ Trackers(r.branch) = {}
        /\ Exists(r.other) /\ SharesHistory(r.other, r.branch)
    /\ r.op = "publish" /\ r.flag => Trackers(r.branch) = {}
    /\ r.op = "rollback" => /\ king[row[r.branch].tracked] # None
                            /\ r.commit \subseteq king[row[r.branch].tracked]
    /\ \A s \in r.set : s.name = "rollback" => s.value = None
    /\ r.change # None => r.op \in {"request", "review"}
    /\ r.op = "request" => r.change = Renewed(r.branch) /\ king[r.branch] # None
    /\ r.op = "review" => /\ r.change # None /\ ~r.change.new /\ r.change.commit = None
                          /\ review # None /\ r.commit = review.commit
    /\ r.op = "add" /\ r.branch \in Domains => work[r.branch] = None

LEMMA CommandAsks ==
    ASSUME TypeInv, NEW t \in Threads, Commands(t)
    PROVE  Begin(t, thread'[t]) /\ Asked(thread'[t])
<1> USE Apart
<1>0. ASSUME NEW r, Begin(t, r), Asked(r) PROVE Begin(t, thread'[t]) /\ Asked(thread'[t])
    <2>1. thread'[t] = r
        BY <1>0 DEF Begin, TypeInv, TypeOK
    <2> QED
        BY <1>0, <2>1
<1> DEFINE Goal == Begin(t, thread'[t]) /\ Asked(thread'[t])
<1> HIDE DEF Goal
<1>z. ASSUME NEW r, Begin(t, r), Asked(r) PROVE Goal
    BY <1>0, <1>z DEF Goal
<1>p. ASSUME NEW r, Begin(t, r), r.todo = {}, r.at = "commit", r.change = None,
             r.op \in {"validate", "update", "manage", "del_review"},
             \A s \in r.set : s.name = "rollback" => s.value = None
      PROVE  Goal
    BY <1>p, <1>z DEF Asked
<1>1. ASSUME NEW b \in Branch, Validate(t, b) PROVE Goal
    <2> DEFINE c == Column(b, "valid", TRUE)
    <2>1. \A s \in c : s.name = "rollback" => s.value = None
        BY DEF Column
    <2> HIDE DEF c
    <2> QED
        BY <1>1, <2>1, <1>p DEF Validate, Start, c
<1>2. ASSUME NEW b \in Branch, Autosync(t, b) PROVE Goal
    <2> DEFINE c == Column(b, "autosync", ~row[b].autosync)
    <2>1. \A s \in c : s.name = "rollback" => s.value = None
        BY DEF Column
    <2> HIDE DEF c
    <2> QED
        BY <1>2, <2>1, <1>p DEF Autosync, Start, c
<1>3. ASSUME NEW b \in Branch, Delete(t, b) PROVE Goal
    <2> DEFINE r == Start(IF b \in Domains THEN "del_domain" ELSE "del_sandbox",
            IF b \in Domains /\ row[b].tracked = None THEN "trash" ELSE "delete", b)
    <2>1. Asked(r)
        BY DEF Asked, Start
    <2> QED
        BY <1>3, <2>1, <1>z DEF Delete
<1>4. ASSUME NEW b \in Branch, NEW force \in BOOLEAN, Manage(t, b, force) PROVE Goal
    BY <1>4, <1>p DEF Manage, Start
<1>5. ASSUME NEW b \in Branch, NEW n \in Domains, NEW sync \in BOOLEAN, Deploy(t, b, n, sync)
      PROVE Goal
    <2> DEFINE d == Target(n, sync)
               r == [Start("deploy", "clone", d) EXCEPT !.other = b, !.flag = sync]
    <2>1. /\ Begin(t, r) /\ Exists(b) /\ SharesHistory(b, d)
          /\ sync => row[d].valid \/ Trackers(d) = {}
        BY <1>5 DEF Deploy, Deployable
    <2> HIDE DEF d
    <2>2. /\ r.op = "deploy" /\ r.todo = {} /\ r.at = "clone" /\ r.branch = d /\ r.other = b
          /\ r.flag = sync /\ r.set = {} /\ r.change = None
        BY DEF Start
    <2> HIDE DEF r
    <2>3. Asked(r)
        BY <2>1, <2>2 DEF Asked
    <2> QED
        BY <2>1, <2>3, <1>z
<1>6. ASSUME NEW b \in Branch, NEW d \in Domains, NEW track \in BOOLEAN,
             AddDomain(t, d, b, track)
      PROVE Goal
    <2> DEFINE r == [Start("add", "branch", d) EXCEPT !.other = b, !.flag = track]
    <2>1. Asked(r)
        BY <1>6 DEF AddDomain, Asked, Start
    <2> QED
        BY <1>6, <2>1, <1>z DEF AddDomain
<1>7. ASSUME NEW b \in Branch, NEW s \in Sandboxes, AddSandbox(t, s, b) PROVE Goal
    <2> DEFINE r == [Start("add", "branch", s) EXCEPT !.other = b, !.commit = king[b]]
    <2>1. Asked(r)
        BY <1>7 DEF AddSandbox, Asked, Start
    <2> QED
        BY <1>7, <2>1, <1>z DEF AddSandbox
<1>8. ASSUME NEW d \in Domains, Sync(t, d) PROVE Goal
    <2> DEFINE r == [Start("sync", "sync", d) EXCEPT !.todo = {d}]
    <2>1. Asked(r)
        BY <1>8 DEF Sync, Asked, Start
    <2> QED
        BY <1>8, <2>1, <1>z DEF Sync
<1>9. ASSUME NEW d \in Domains, NEW c, Rollback(t, d, c) PROVE Goal
    <2> DEFINE s == Column(row[d].tracked, "valid", FALSE) \cup Column(d, "rollback", None)
               r == [Start("rollback", "force", d) EXCEPT !.commit = c, !.set = s]
    <2>1. \A x \in s : x.name = "rollback" => x.value = None
        BY DEF Column
    <2> HIDE DEF s
    <2>2. Asked(r)
        BY <1>9, <2>1 DEF Rollback, Asked, Start
    <2> QED
        BY <1>9, <2>2, <1>z DEF Rollback, s
<1>10. ASSUME NEW d \in Domains, NEW on \in BOOLEAN, Archive(t, d, on) PROVE Goal
    <2> DEFINE c == Archived(d, on)
    <2>1. \A s \in c : s.name = "rollback" => s.value = None
        BY DEF Archived, Column
    <2> HIDE DEF c
    <2> QED
        BY <1>10, <2>1, <1>p DEF Archive, Start, c
<1>11. ASSUME NEW d \in Domains, NEW on \in BOOLEAN, AllowManage(t, d, on) PROVE Goal
    <2> DEFINE c == Column(d, "allow", on)
    <2>1. \A s \in c : s.name = "rollback" => s.value = None
        BY DEF Column
    <2> HIDE DEF c
    <2> QED
        BY <1>11, <2>1, <1>p DEF AllowManage, Start, c
<1>12. ASSUME NEW s \in Sandboxes, RequestReview(t, s) PROVE Goal
    <2> DEFINE c == Renewed(s)
               r == [Start("request", "commit", s) EXCEPT !.change = c]
    <2> HIDE DEF c
    <2>1. r.op = "request" /\ r.at = "commit" /\ r.todo = {} /\ r.set = {} /\ r.change = c
            /\ r.branch = s
        BY DEF Start
    <2>2. Begin(t, r) /\ king[s] # None /\ c = Renewed(s)
        BY <1>12 DEF RequestReview, c
    <2> HIDE DEF r
    <2>3. Asked(r)
        BY <2>1, <2>2 DEF Asked
    <2> QED
        BY <2>2, <2>3, <1>z
<1>13. ASSUME NEW s \in Sandboxes, NEW rebase \in BOOLEAN, Publish(t, s, rebase) PROVE Goal
    <2> DEFINE c == Column(s, "valid", TRUE)
               r == [Start("publish", "clone", s) EXCEPT !.flag = rebase, !.set = c]
    <2>1. \A x \in c : x.name = "rollback" => x.value = None
        BY DEF Column
    <2> HIDE DEF c
    <2>2. Asked(r)
        BY <1>13, <2>1 DEF Publish, Asked, Start
    <2> QED
        BY <1>13, <2>2, <1>z DEF Publish, c
<1>14. ASSUME NEW a \in {"unset", "yes", "no"}, UpdateReview(t, a) PROVE Goal
    <2> DEFINE c == Change(FALSE, review.source, None,
                           IF a = review.approved THEN "keep" ELSE a)
               r == [Start("review", "commit", review.source) EXCEPT
                        !.commit = review.commit, !.change = c]
    <2>1. Begin(t, r) /\ review # None
        BY <1>14 DEF UpdateReview
    <2>2. c # None /\ ~c.new /\ c.commit = None
        <3>1. c \in Edit
            BY <2>1 DEF Change, Edit, TypeInv, TypeOK, Review
        <3> QED
            BY <3>1 DEF Change
    <2> HIDE DEF c
    <2>3. r.op = "review" /\ r.at = "commit" /\ r.todo = {} /\ r.set = {} /\ r.change = c
            /\ r.commit = review.commit
        BY DEF Start
    <2> HIDE DEF r
    <2>4. Asked(r)
        BY <2>1, <2>2, <2>3 DEF Asked
    <2> QED
        BY <2>1, <2>4, <1>z
<1>15. ASSUME DelReview(t) PROVE Goal
    BY <1>15, <1>p DEF DelReview, Start
<1>16. Goal
    BY <1>1, <1>2, <1>3, <1>4, <1>5, <1>6, <1>7, <1>8, <1>9, <1>10, <1>11, <1>12, <1>13,
       <1>14, <1>15 DEF Commands
<1> QED
    BY <1>16 DEF Goal

\* A command only begins: what it finds is left as it is.
LEMMA Begins ==
    ASSUME TypeInv, NEW t \in Threads, Commands(t)
    PROVE  /\ thread[t] = None /\ thread'[t] \in Job /\ thread'[t] # None
           /\ Shape(thread'[t]) /\ Asked(thread'[t])
           /\ \A u \in Threads \ {t} : thread'[u] = thread[u]
           /\ UNCHANGED <<row, review, host, king, trash, work, faults, vetted>>
           /\ Live' => Live
           /\ overlap' = "no" => overlap = "no" /\ \A u \in Threads : thread[u] = None
<1>1. Begin(t, thread'[t]) /\ Asked(thread'[t])
    BY CommandAsks
<1>2. thread[t] = None /\ overlap' = Met(thread'[t].op)
      /\ UNCHANGED <<row, review, host, king, trash, work, faults, vetted>>
      /\ thread' = [thread EXCEPT ![t] = thread'[t]]
    BY <1>1 DEF Begin, database, git
<1>3. \A u \in Threads \ {t} : thread'[u] = thread[u]
    BY <1>2 DEF TypeInv, TypeOK
<1>4. thread'[t] \in Job /\ TypeInv'
    BY CommandsType
<1>5. Shape(thread'[t]) /\ thread'[t] # None
    BY <1>4, Apart DEF TypeInv, Runs
<1>6. Live' => Live
    BY <1>1, LiveBefore
<1>7. overlap' = "no" => overlap = "no" /\ \A u \in Threads : thread[u] = None
    BY <1>2 DEF Met
<1> QED
    BY <1>1, <1>2, <1>3, <1>4, <1>5, <1>6, <1>7

\* What a step does to the references
Updates(t, b, c) == king' = [king EXCEPT ![b] = c]

LEMMA KingSteps ==
    ASSUME TypeInv, NEW t \in Threads, Steps(t)
    PROVE  \/ king' = king
           \/ thread[t].at = "sync" /\ \E d \in thread[t].todo :
                LET c == king[row[d].tracked] IN
                /\ c # None /\ (king[d] = None \/ king[d] \subseteq c)
                /\ Updates(t, d, c)
           \/ /\ thread[t].at = "push" /\ PushAccepted(t)
              /\ Updates(t, thread[t].branch, thread[t].commit)
           \/ /\ thread[t].at = "force"
              /\ Updates(t, thread[t].branch, thread[t].commit)
           \/ /\ thread[t].at = "branch"
              /\ king[thread[t].branch] = None /\ king[thread[t].other] # None
              /\ Updates(t, thread[t].branch, king[thread[t].other])
           \/ thread[t].at \in {"checkout1", "reference"} /\ Updates(t, thread[t].branch, None)
<1>1. ASSUME NEW d \in Domains, SyncPush(t, d)
      PROVE  \/ king' = king
             \/ thread[t].at = "sync" /\ \E e \in thread[t].todo :
                    LET c == king[row[e].tracked] IN
                    /\ c # None /\ (king[e] = None \/ king[e] \subseteq c)
                    /\ Updates(t, e, c)
    BY <1>1 DEF SyncPush, Accepts, At, Updates
<1> QED
    BY <1>1 DEF Steps, SyncCheckout, PublishClone, DeployClone, PushOrigin, DeployTarget,
       RollbackForce, RollbackCheckout, AddBranch, AddClone, AddCloneFails, Insert, DeleteTrash,
       DeleteDirectories, DeleteReference, Remove, PublishReview, Commit, CommandFails, git,
       At, Updates

-----------------------------------------------------------------------------
(* A deployment stays: a domain that is deleted is in the trash before its  *)
(* reference is removed.                                                    *)

Kept(r) ==
    (r.op = "del_domain" /\ r.at \in {"delete", "reference"}
        /\ row[r.branch].tracked = None /\ king[r.branch] # None)
    => king[r.branch] \subseteq trash

Keeping == Live => \A t \in Threads : Runs(t) => Kept(thread[t])

LEMMA KeepingSteps ==
    ASSUME Base, Keeping, NEW t \in Threads, Steps(t)
    PROVE  Keeping'
<1> DEFINE r == thread[t]
<1>1. /\ overlap' = overlap /\ Runs(t) /\ r \in Job /\ Shape(r) /\ t \in DOMAIN thread
      /\ \A u \in Threads \ {t} : thread'[u] = thread[u]
      /\ thread'[t] # None => Onward(r, thread'[t])
    BY StepOn, Jobs DEF Base, TypeInv, TypeOK
<1> SUFFICES ASSUME Live, NEW u \in Threads, thread'[u] # None,
                    thread'[u].op = "del_domain", thread'[u].at \in {"delete", "reference"},
                    row'[thread'[u].branch].tracked = None, king'[thread'[u].branch] # None
             PROVE  king'[thread'[u].branch] \subseteq trash'
    BY <1>1 DEF Keeping, Kept, Live, Runs
<1>2. u = t /\ r.op = "del_domain" /\ thread'[t].branch = r.branch
    BY <1>1 DEF Base, Alone, Runs, Op, Deleting, Onward
<1>3. r.at \in {"trash", "delete", "reference", "remove"} /\ r.branch \in Branch
    BY <1>1, <1>2 DEF Shape, Deleting, Job
<1>4. CASE DeleteTrash(t)
    BY <1>4, <1>2, <1>3 DEF DeleteTrash
<1>5. CASE DeleteDirectories(t)
    <2>1. r.at = "delete" /\ UNCHANGED <<row, king, trash>>
        BY <1>5 DEF DeleteDirectories, At, database
    <2> QED
        BY <2>1, <1>1, <1>2 DEF Keeping, Kept
<1>6. ~At(t, "reference")
    <2>1. SUFFICES ASSUME At(t, "reference") PROVE FALSE
        OBVIOUS
    <2>2. DeleteReference(t) \/ CommandFails(t)
        BY <2>1 DEF Steps, SyncPush, SyncCheckout, PublishClone, DeployClone, PushOrigin,
           DeployTarget, RollbackForce, RollbackCheckout, AddBranch, AddClone, AddCloneFails,
           Insert, DeleteTrash, DeleteDirectories, Remove, PublishReview, Commit, At
    <2>3. Ends(t) \/ GoTo(t, [r EXCEPT !.at = "remove"])
        BY <2>1, <2>2 DEF DeleteReference, CommandFails, At
    <2> QED
        BY <2>3, <1>1, <1>2 DEF Ends, GoTo, Job
<1>7. CASE ~DeleteTrash(t) /\ ~DeleteDirectories(t)
    <2>1. Remove(t) \/ CommandFails(t)
        BY <1>6, <1>7, <1>3 DEF Steps, SyncPush, SyncCheckout, PublishClone, DeployClone,
           PushOrigin, DeployTarget, RollbackForce, RollbackCheckout, AddBranch, AddClone,
           AddCloneFails, Insert, DeleteReference, PublishReview, Commit, At
    <2>2. Ends(t)
        BY <2>1, <1>6, <1>3 DEF Remove, CommandFails, At
    <2> QED
        BY <2>2, <1>1, <1>2 DEF Ends
<1> QED
    BY <1>4, <1>5, <1>7

LEMMA KeepingNext ==
    ASSUME Base, Keeping, [Next]_vars
    PROVE  Keeping'
<1>1. CASE UNCHANGED vars
    BY <1>1 DEF Keeping, Kept, Live, Runs, vars, database, git, aux
<1>2. ASSUME NEW t \in Threads, Commands(t) PROVE Keeping'
    <2>1. /\ Shape(thread'[t]) /\ Asked(thread'[t]) /\ UNCHANGED <<row, king, trash>>
          /\ \A u \in Threads \ {t} : thread'[u] = thread[u]
          /\ Live' => Live
        BY <1>2, Begins DEF Base
    <2>2. Live' => \A u \in Threads \ {t} : thread'[u] # None => Kept(thread'[u])
        BY <2>1 DEF Keeping, Runs
    <2>3. Kept(thread'[t])
        BY <2>1 DEF Kept, Asked
    <2> QED
        BY <2>1, <2>2, <2>3 DEF Keeping, Kept, Runs
<1> QED
    BY <1>1, <1>2, KeepingSteps DEF Next

Retained(d) ==
    (Exists(d) /\ row[d].tracked = None /\ king[d] # None /\ overlap' # "deletion")
        => \/ king'[d] # None /\ king[d] \subseteq king'[d]
           \/ king'[d] = None /\ king[d] \subseteq trash

LEMMA Retains ==
    ASSUME Base, Keeping, [Next]_vars, NEW d \in Domains
    PROVE  Retained(d)
<1> SUFFICES ASSUME Exists(d), row[d].tracked = None, king[d] # None, Live'
             PROVE  \/ king'[d] # None /\ king[d] \subseteq king'[d]
                    \/ king'[d] = None /\ king[d] \subseteq trash
    BY DEF Retained, Live
<1>1. CASE king' = king
    BY <1>1
<1>2. ASSUME NEW t \in Threads, Steps(t), king' # king
      PROVE  \/ king'[d] # None /\ king[d] \subseteq king'[d]
             \/ king'[d] = None /\ king[d] \subseteq trash
    <2> DEFINE r == thread[t]
    <2>1. /\ Live /\ Runs(t) /\ r \in Job /\ Shape(r) /\ Rooted(row, r) /\ Kept(r)
          /\ d \in Branch /\ king \in [Branch -> Commits \cup {None}]
        BY <1>2, StepOn, Jobs, Apart DEF Base, TypeInv, TypeOK, Live, Keeping
    <2>2. \/ r.at = "sync" /\ \E e \in r.todo : Updates(t, e, king[row[e].tracked])
          \/ r.at = "push" /\ PushAccepted(t) /\ Updates(t, r.branch, r.commit)
          \/ r.at = "force" /\ Updates(t, r.branch, r.commit)
          \/ r.at = "branch" /\ Updates(t, r.branch, king[r.other])
          \/ r.at = "checkout1" /\ Updates(t, r.branch, None)
          \/ r.at = "reference" /\ Updates(t, r.branch, None)
        BY <1>2, KingSteps DEF Base
    <2>3. ASSUME NEW e, NEW c, Updates(t, e, c), e # d PROVE king'[d] = king[d]
        BY <2>3, <2>1 DEF Updates
    <2>4. CASE r.at = "sync" /\ \E e \in r.todo : Updates(t, e, king[row[e].tracked])
        BY <2>4, <2>3, <2>1 DEF Rooted, Tracking
    <2>5. CASE r.at = "push" /\ PushAccepted(t) /\ Updates(t, r.branch, r.commit)
        <3>1. r.branch = d => king[d] \subseteq r.commit /\ r.commit # None
            BY <2>5, <2>1, Apart DEF PushAccepted, Accepts, Shape, Op
        <3> QED
            BY <2>5, <2>3, <2>1, <3>1 DEF Updates
    <2>6. CASE r.at = "force" /\ Updates(t, r.branch, r.commit)
        BY <2>6, <2>3, <2>1 DEF Rooted, Tracking, Shape
    <2>7. CASE r.at \in {"branch", "checkout1"}
        BY <2>7, <2>2, <2>3, <2>1 DEF Rooted, There, Shape, Exists
    <2>8. CASE r.at = "reference" /\ Updates(t, r.branch, None)
        <3>1. r.branch = d => r.op = "del_domain"
            BY <2>8, <2>1, Apart DEF Shape, Deleting
        <3> QED
            BY <2>8, <2>3, <2>1, <3>1 DEF Updates, Kept
    <2> QED
        BY <2>2, <2>4, <2>5, <2>6, <2>7, <2>8
<1>3. UNCHANGED vars => king' = king
    BY DEF vars, git
<1>4. ASSUME NEW t \in Threads, Commands(t) PROVE king' = king
    BY <1>4, Begins DEF Base
<1> QED
    BY <1>1, <1>2, <1>3, <1>4 DEF Next

(* Deployments that overlap do not overwrite one another, and a domain is   *)
(* in the trash before its reference goes (deploy.py:127-173,               *)
(* branch.py:315-341): a push loses nothing of the reference it finds, and  *)
(* only domains that track are forced back.                                 *)
THEOREM DeploymentsStay == Spec => DeployedStays
<1>1. Init => Base /\ Keeping
    BY BaseInit DEF Init, Keeping, Runs
<1>2. Base /\ Keeping /\ [Next]_vars => (Base /\ Keeping)'
    BY BaseNext, KeepingNext
<1>3. Base /\ Keeping /\ [Next]_vars => [\A d \in Domains : Retained(d)]_vars
    BY Retains
<1>4. Spec => [][\A d \in Domains : Retained(d)]_vars
    BY <1>1, <1>2, <1>3, PTL DEF Spec
<1> QED
    BY <1>4 DEF DeployedStays, Retained

-----------------------------------------------------------------------------
(* Which step a command takes, and what it is going to write after it.      *)

LEMMA StepOf ==
    ASSUME NEW t \in Threads, Steps(t)
    PROVE  \/ CommandFails(t)
           \/ thread[t].at = "sync" /\ \E d \in Domains : SyncPush(t, d)
           \/ thread[t].at = "checkout" /\ (SyncCheckout(t) \/ RollbackCheckout(t))
           \/ thread[t].at = "clone" /\ (PublishClone(t) \/ DeployClone(t))
           \/ thread[t].at = "push" /\ PushOrigin(t)
           \/ thread[t].at = "target" /\ DeployTarget(t)
           \/ thread[t].at = "force" /\ RollbackForce(t)
           \/ thread[t].at = "branch" /\ AddBranch(t)
           \/ thread[t].at = "checkout1" /\ (AddClone(t) \/ AddCloneFails(t))
           \/ thread[t].at = "insert" /\ Insert(t)
           \/ thread[t].at = "trash" /\ DeleteTrash(t)
           \/ thread[t].at = "delete" /\ DeleteDirectories(t)
           \/ thread[t].at = "reference" /\ DeleteReference(t)
           \/ thread[t].at = "remove" /\ Remove(t)
           \/ thread[t].at = "review" /\ PublishReview(t)
           \/ thread[t].at = "commit" /\ Commit(t)
<1>1. \A d \in Domains : SyncPush(t, d) => thread[t].at = "sync"
    BY DEF SyncPush, At
<1>2. SyncCheckout(t) \/ RollbackCheckout(t) => thread[t].at = "checkout"
    BY DEF SyncCheckout, RollbackCheckout, At
<1>3. PublishClone(t) \/ DeployClone(t) => thread[t].at = "clone"
    BY DEF PublishClone, DeployClone, At
<1>4. /\ PushOrigin(t) => thread[t].at = "push"
      /\ DeployTarget(t) => thread[t].at = "target"
      /\ RollbackForce(t) => thread[t].at = "force"
      /\ AddBranch(t) => thread[t].at = "branch"
    BY DEF PushOrigin, DeployTarget, RollbackForce, AddBranch, At
<1>5. /\ AddClone(t) \/ AddCloneFails(t) => thread[t].at = "checkout1"
      /\ Insert(t) => thread[t].at = "insert"
      /\ DeleteTrash(t) => thread[t].at = "trash"
      /\ DeleteDirectories(t) => thread[t].at = "delete"
      /\ DeleteReference(t) => thread[t].at = "reference"
    BY DEF AddClone, AddCloneFails, Insert, DeleteTrash, DeleteDirectories, DeleteReference, At
<1>6. /\ Remove(t) => thread[t].at = "remove"
      /\ PublishReview(t) => thread[t].at = "review"
      /\ Commit(t) => thread[t].at = "commit"
    BY DEF Remove, PublishReview, Commit, At
<1> QED
    BY <1>1, <1>2, <1>3, <1>4, <1>5, <1>6 DEF Steps

LEMMA Failing ==
    ASSUME TypeInv, NEW t \in Threads, CommandFails(t)
    PROVE  /\ UNCHANGED <<row, review, host, king, trash, work, overlap, vetted>>
           /\ faults' = faults + 1
           /\ thread[t].at \notin {"sync", "checkout", "target", "reference"} => thread'[t] = None
BY DEF CommandFails, database, git, Ends, At, TypeInv, TypeOK

Later(r, q) ==
    /\ r.at # "clone" => q.commit = r.commit
    /\ q.change # r.change =>
        r.at = "review" /\ king[r.branch] # None /\ q.change = Renewed(r.branch)
    /\ q.set # r.set =>
        /\ r.at = "checkout" /\ r.op # "rollback" /\ work[r.other] # None
        /\ q.set = r.set \cup {[branch |-> r.other, name |-> "rollback", value |-> work[r.other]]}
    /\ q.at \notin {"clone", "force", "branch", "trash"}
    /\ q.at = "push" => r.at = "clone" /\ q.other = r.other
    /\ q.at = "target" => r.at = "push"
    /\ q.at = "checkout" => r.at \in {"sync", "force"}
    /\ q.at = "checkout1" => r.at = "branch"
    /\ q.at = "insert" => r.at \in {"branch", "checkout1"}
    /\ q.at = "delete" => r.at = "trash"
    /\ q.at = "reference" => r.at = "delete"
    /\ q.at = "remove" => r.at = "reference"

LEMMA StepLater ==
    ASSUME TypeInv, NEW t \in Threads, Steps(t), thread'[t] # None
    PROVE  Later(thread[t], thread'[t])
<1> DEFINE r == thread[t]
<1>0. Runs(t) /\ r \in Job /\ Shape(r) /\ t \in DOMAIN thread
    BY StepOn, Jobs DEF TypeInv, TypeOK
<1>e. ~Ends(t)
    BY <1>0 DEF Ends
<1>g. ASSUME NEW q, GoTo(t, q) PROVE thread'[t] = q
    BY <1>0, <1>g DEF GoTo
<1>a. ASSUME NEW a, GoTo(t, [r EXCEPT !.at = a]),
             a = "commit" \/ <<r.at, a>> \in {<<"push", "target">>, <<"force", "checkout">>,
                <<"branch", "checkout1">>, <<"branch", "insert">>, <<"checkout1", "insert">>,
                <<"trash", "delete">>, <<"delete", "reference">>, <<"reference", "remove">>}
      PROVE  Later(r, thread'[t])
    <2>1. thread'[t] = [r EXCEPT !.at = a]
        BY <1>a, <1>g
    <2>2. /\ thread'[t].at = a /\ thread'[t].commit = r.commit
          /\ thread'[t].change = r.change /\ thread'[t].set = r.set
        BY <2>1, <1>0 DEF Job
    <2> QED
        BY <2>2, <1>a DEF Later
<1>y. ASSUME NEW d, GoTo(t, Synced(r, d)) PROVE Later(r, thread'[t])
    BY <1>y, <1>g, <1>0, SyncedFields DEF Later
<1>z. ASSUME NEW b, GoTo(t, StartSync(r, b)) PROVE Later(r, thread'[t])
    BY <1>z, <1>g, <1>0, StartSyncFields DEF Later
<1>s. ASSUME NEW d, SyncError(t, d) PROVE Later(r, thread'[t])
    BY <1>s, <1>e, <1>y DEF SyncError
<1>1. ASSUME r.at = "sync", NEW d \in Domains, SyncPush(t, d) PROVE Later(r, thread'[t])
    <2>1. CASE GoTo(t, [r EXCEPT !.at = "checkout", !.other = d])
        <3>1. /\ thread'[t].at = "checkout" /\ thread'[t].commit = r.commit
              /\ thread'[t].change = r.change /\ thread'[t].set = r.set
            BY <2>1, <1>g, <1>0 DEF Job
        <3> QED
            BY <1>1, <3>1 DEF Later
    <2> QED
        BY <1>1, <2>1, <1>s DEF SyncPush
<1>2. ASSUME r.at = "checkout", SyncCheckout(t) PROVE Later(r, thread'[t])
    <2> DEFINE c == {[branch |-> r.other, name |-> "rollback", value |-> work[r.other]]}
               q == Synced(r, r.other)
    <2>1. CASE work[r.other] # None /\ king[r.other] # None
        <3>1. thread'[t] = [q EXCEPT !.set = @ \cup c]
            BY <1>2, <2>1, <1>g DEF SyncCheckout
        <3>2. q \in Job /\ q.op = r.op /\ q.commit = r.commit /\ q.change = r.change
                /\ q.set = r.set /\ q.at \in {"sync", "review", "commit"} /\ r.op # "rollback"
            BY <1>0, <1>2, SyncedFields, SyncedType DEF Shape, SyncCheckout, Op
        <3> HIDE DEF q, c
        <3>3. /\ thread'[t].at \in {"sync", "review", "commit"} /\ thread'[t].commit = r.commit
              /\ thread'[t].change = r.change /\ thread'[t].set = r.set \cup c
            BY <3>1, <3>2 DEF Job
        <3> QED
            BY <1>2, <2>1, <3>2, <3>3 DEF Later, c
    <2>2. CASE ~(work[r.other] # None /\ king[r.other] # None)
        BY <1>2, <2>2, <1>s DEF SyncCheckout
    <2> QED
        BY <2>1, <2>2
<1>3. ASSUME r.at = "clone", NEW c, GoTo(t, [r EXCEPT !.at = "push", !.commit = c])
      PROVE  Later(r, thread'[t])
    <2>1. /\ thread'[t].at = "push" /\ thread'[t].other = r.other
          /\ thread'[t].change = r.change /\ thread'[t].set = r.set
        BY <1>3, <1>g, <1>0 DEF Job
    <2> QED
        BY <1>3, <2>1 DEF Later
<1>4. ASSUME r.at = "review", PublishReview(t) PROVE Later(r, thread'[t])
    <2> DEFINE c == Renewed(r.branch)
    <2>1. king[r.branch] # None /\ (\/ GoTo(t, [r EXCEPT !.at = "commit"])
                                    \/ GoTo(t, [r EXCEPT !.at = "commit", !.change = c]))
        BY <1>4, <1>e DEF PublishReview
    <2>2. CASE GoTo(t, [r EXCEPT !.at = "commit", !.change = c])
        <3>1. /\ thread'[t].at = "commit" /\ thread'[t].commit = r.commit
              /\ thread'[t].change = c /\ thread'[t].set = r.set
            BY <2>2, <1>g, <1>0 DEF Job
        <3> QED
            BY <1>4, <2>1, <3>1 DEF Later
    <2> QED
        BY <2>1, <2>2, <1>a
<1>5. ASSUME CommandFails(t) PROVE Later(r, thread'[t])
    <2>1. \/ \E d : SyncError(t, d)
          \/ \E b : GoTo(t, StartSync(r, b))
          \/ r.at = "reference" /\ GoTo(t, [r EXCEPT !.at = "remove"])
        BY <1>5, <1>e DEF CommandFails, At
    <2> QED
        BY <2>1, <1>a, <1>s, <1>z
<1>6. ASSUME r.at = "checkout", RollbackCheckout(t) PROVE Later(r, thread'[t])
    BY <1>6, <1>a, <1>e DEF RollbackCheckout
<1>7. ASSUME r.at = "clone", PublishClone(t) \/ DeployClone(t) PROVE Later(r, thread'[t])
    <2>1. \E c : GoTo(t, [r EXCEPT !.at = "push", !.commit = c])
        <3>1. CASE PublishClone(t)
            BY <3>1 DEF PublishClone
        <3>2. CASE DeployClone(t)
            <4> DEFINE c == king[r.branch] \cup king[r.other]
            <4>1. GoTo(t, [r EXCEPT !.at = "push", !.commit = c])
                BY <3>2, <1>e DEF DeployClone
            <4> QED
                BY <4>1
        <3> QED
            BY <1>7, <3>1, <3>2
    <2> QED
        BY <1>7, <2>1, <1>3
<1>8. ASSUME r.at = "push", PushOrigin(t) PROVE Later(r, thread'[t])
    <2>1. GoTo(t, [r EXCEPT !.at = "target"]) \/ \E b : GoTo(t, StartSync(r, b))
        BY <1>8, <1>e DEF PushOrigin
    <2> QED
        BY <1>8, <2>1, <1>a, <1>z
<1>9. ASSUME r.at = "target", DeployTarget(t) PROVE Later(r, thread'[t])
    <2>1. \E b : GoTo(t, StartSync(r, b))
        BY <1>9 DEF DeployTarget
    <2> QED
        BY <2>1, <1>z
<1>10. ASSUME r.at = "branch", AddBranch(t) PROVE Later(r, thread'[t])
    <2>1. \E a \in {"checkout1", "insert"} : GoTo(t, [r EXCEPT !.at = a])
        BY <1>10, <1>e DEF AddBranch
    <2> QED
        BY <1>10, <2>1, <1>a
<1>11. ASSUME r.at = "checkout1", AddClone(t) PROVE Later(r, thread'[t])
    BY <1>11, <1>a DEF AddClone
<1>12. ASSUME r.at = "force", RollbackForce(t) PROVE Later(r, thread'[t])
    BY <1>12, <1>a DEF RollbackForce
<1>13. ASSUME r.at = "trash", DeleteTrash(t) PROVE Later(r, thread'[t])
    BY <1>13, <1>a DEF DeleteTrash
<1>14. ASSUME r.at = "delete", DeleteDirectories(t) PROVE Later(r, thread'[t])
    BY <1>14, <1>a, <1>e DEF DeleteDirectories
<1>15. ASSUME r.at = "reference", DeleteReference(t) PROVE Later(r, thread'[t])
    BY <1>15, <1>a DEF DeleteReference
<1>16. ~AddCloneFails(t) /\ ~Insert(t) /\ ~Remove(t) /\ ~Commit(t)
    BY <1>e DEF AddCloneFails, Insert, Remove, Commit
<1> QED
    BY <1>1, <1>2, <1>4, <1>5, <1>6, <1>7, <1>8, <1>9, <1>10, <1>11, <1>12, <1>13,
       <1>14, <1>15, <1>16, StepOf

-----------------------------------------------------------------------------
(* Approvals: without an overlap a command that is going to write a review  *)
(* writes the review it has read.                                           *)

Vetting(v, r) ==
    /\ r.change # None => r.op \in {"request", "publish", "review"}
    /\ r.op \in {"request", "publish"} /\ r.change # None =>
        /\ r.change.new <=> v = None
        /\ r.change.commit # None /\ r.change.approved \in {"unset", "keep"}
        /\ v # None /\ v.approved = "yes" => r.change.approved = "unset"
    /\ r.op = "review" =>
        /\ r.change # None /\ ~r.change.new /\ r.change.commit = None
        /\ v # None /\ r.commit = v.commit

Vets == overlap = "no" => \A t \in Threads : Runs(t) => Vetting(review, thread[t])

LEMMA RenewedFields ==
    ASSUME NEW b
    PROVE  /\ Renewed(b).new <=> review = None
           /\ Renewed(b).commit = king[b] /\ Renewed(b).approved \in {"unset", "keep"}
           /\ review # None /\ review.approved = "yes" => Renewed(b).approved = "unset"
BY DEF Renewed, Change

LEMMA VetsSteps ==
    ASSUME Base, Vets, ApprovalIsCurrent, NEW t \in Threads, Steps(t)
    PROVE  Vets' /\ ApprovalIsCurrent'
<1> DEFINE r == thread[t]
<1>1. /\ overlap' = overlap /\ Runs(t) /\ r \in Job /\ Shape(r) /\ t \in DOMAIN thread
      /\ \A u \in Threads \ {t} : thread'[u] = thread[u]
      /\ thread'[t] # None => Onward(r, thread'[t]) /\ Later(r, thread'[t])
    BY StepOn, StepLater, Jobs DEF Base, TypeInv, TypeOK
<1> SUFFICES ASSUME overlap = "no"
             PROVE  Vets' /\ ApprovalIsCurrent'
    BY <1>1 DEF Vets, ApprovalIsCurrent
<1>2. Vetting(review, r) /\ \A u \in Threads : thread'[u] # None => u = t
    BY <1>1 DEF Vets, Base, Alone, Runs
<1>3. CASE thread'[t] # None
    <2>1. UNCHANGED <<review, vetted>>
        <3>1. ~Insert(t) /\ ~Remove(t) /\ ~Commit(t)
            BY <1>1, <1>3 DEF Insert, Remove, Commit, Ends
        <3> QED
            BY <3>1 DEF Steps, SyncPush, SyncCheckout, PublishClone, DeployClone, PushOrigin,
               DeployTarget, RollbackForce, RollbackCheckout, AddBranch, AddClone,
               AddCloneFails, DeleteTrash, DeleteDirectories, DeleteReference, PublishReview,
               CommandFails, database, aux
    <2> DEFINE q == thread'[t]
    <2>2. q.op = r.op /\ Later(r, q)
        BY <1>1, <1>3 DEF Onward
    <2>3. q.op = "review" => q.commit = r.commit
        BY <2>2, <1>1 DEF Later, Shape
    <2>4. ASSUME q.change = r.change PROVE Vetting(review', q)
        BY <2>1, <2>2, <2>3, <2>4, <1>2 DEF Vetting
    <2>5. ASSUME q.change # r.change PROVE Vetting(review', q)
        <3>1. r.op = "publish" /\ q.change = Renewed(r.branch) /\ king[r.branch] # None
            BY <2>2, <2>5, <1>1 DEF Later, Shape
        <3> QED
            BY <2>1, <2>2, <3>1, RenewedFields DEF Vetting
    <2>6. Vetting(review', q)
        BY <2>4, <2>5
    <2> QED
        BY <2>1, <2>6, <1>1, <1>2 DEF Vets, ApprovalIsCurrent, Runs
<1>4. CASE thread'[t] = None
    <2>1. Vets'
        BY <1>2, <1>4 DEF Vets, Runs
    <2>2. CASE Commit(t)
        <3>1. CASE Writable(r)
            <4>1. review' = Written(r) /\ vetted' = IF r.op = "review" THEN r.commit ELSE vetted
                BY <2>2, <3>1 DEF Commit
            <4>2. CASE r.op = "del_review" \/ r.change = None
                BY <2>1, <4>1, <4>2, <1>2, <1>1 DEF Written, ApprovalIsCurrent, Vetting
            <4>3. CASE r.op # "del_review" /\ r.change # None /\ r.change.new
                <5>1. review'.approved = r.change.approved /\ review'.approved # "keep"
                    BY <4>1, <4>3, <1>1 DEF Written, Shape
                <5>2. r.op \in {"request", "publish"}
                    BY <4>3, <1>2 DEF Vetting
                <5> QED
                    BY <2>1, <4>3, <5>1, <5>2, <1>2 DEF Vetting, ApprovalIsCurrent
            <4>4. CASE r.op # "del_review" /\ r.change # None /\ ~r.change.new
                <5>1. review # None /\ review \in Review
                    BY <3>1, <4>4 DEF Writable, Base, TypeInv, TypeOK
                <5>2. /\ review'.commit = IF r.change.commit = None THEN review.commit
                                           ELSE r.change.commit
                      /\ review'.approved = IF r.change.approved = "keep" THEN review.approved
                                             ELSE r.change.approved
                    BY <4>1, <4>4, <5>1 DEF Written, Review
                <5>3. CASE r.op = "review"
                    BY <2>1, <4>1, <5>1, <5>2, <5>3, <1>2 DEF Vetting, ApprovalIsCurrent
                <5>4. CASE r.op # "review"
                    <6>1. review'.approved # "yes"
                        BY <4>4, <5>1, <5>2, <5>4, <1>2 DEF Vetting
                    <6> QED
                        BY <2>1, <6>1 DEF ApprovalIsCurrent
                <5> QED
                    BY <5>3, <5>4
            <4> QED
                BY <4>2, <4>3, <4>4
        <3>2. CASE ~Writable(r)
            BY <2>1, <2>2, <3>2, <1>1 DEF Commit, database, ApprovalIsCurrent
        <3> QED
            BY <3>1, <3>2
    <2>3. CASE ~Commit(t)
        <3>1. vetted' = vetted /\ review' \in {review, None}
            BY <2>3 DEF Steps, SyncPush, SyncCheckout, PublishClone, DeployClone, PushOrigin,
               DeployTarget, RollbackForce, RollbackCheckout, AddBranch, AddClone,
               AddCloneFails, Insert, Remove, DeleteTrash, DeleteDirectories, DeleteReference,
               PublishReview, CommandFails, database, aux
        <3> QED
            BY <2>1, <3>1, <1>1 DEF ApprovalIsCurrent
    <2> QED
        BY <2>1, <2>2, <2>3
<1> QED
    BY <1>3, <1>4

LEMMA VetsNext ==
    ASSUME Base, Vets, ApprovalIsCurrent, [Next]_vars
    PROVE  Vets' /\ ApprovalIsCurrent'
<1>1. CASE UNCHANGED vars
    BY <1>1 DEF Vets, ApprovalIsCurrent, Runs, vars, database, aux
<1>2. ASSUME NEW t \in Threads, Commands(t) PROVE Vets' /\ ApprovalIsCurrent'
    <2>1. /\ Asked(thread'[t]) /\ UNCHANGED <<review, vetted, king>>
          /\ \A u \in Threads \ {t} : thread'[u] = thread[u]
          /\ overlap' = "no" => overlap = "no" /\ \A u \in Threads : thread[u] = None
        BY <1>2, Begins DEF Base
    <2>2. Vetting(review, thread'[t])
        BY <2>1, RenewedFields DEF Asked, Vetting
    <2> QED
        BY <2>1, <2>2 DEF Vets, ApprovalIsCurrent, Runs
<1> QED
    BY <1>1, <1>2, VetsSteps DEF Next

(* Commands that do not overlap never leave an approval to a commit nobody  *)
(* has looked at (publish.py:113-121, request_review.py:68).                *)
THEOREM ApprovalsAreCurrent == Spec => []ApprovalIsCurrent
<1>1. Init => Base /\ Vets /\ ApprovalIsCurrent
    BY BaseInit DEF Init, Vets, ApprovalIsCurrent, Runs
<1>2. Base /\ Vets /\ ApprovalIsCurrent /\ [Next]_vars => (Base /\ Vets /\ ApprovalIsCurrent)'
    BY BaseNext, VetsNext
<1> QED
    BY <1>1, <1>2, PTL DEF Spec

-----------------------------------------------------------------------------
(* Rollbacks: without an overlap a command syncs only domains whose tracked *)
(* branch it has found valid, and rebases only what nothing tracks.         *)

Sure(r) ==
    /\ r.op \in {"sync", "deploy"} => \A d \in r.todo : row[row[d].tracked].valid
    /\ r.op = "deploy" /\ r.flag /\ r.at \in {"clone", "push", "target"} =>
        row[r.branch].valid \/ Trackers(r.branch) = {}
    /\ r.op = "publish" /\ r.flag /\ r.at \in {"clone", "push"} => Trackers(r.branch) = {}

Sures == overlap = "no" => \A t \in Threads : Runs(t) => Sure(thread[t])

\* A deployment syncs trackers after its target, if it was told to.
LEMMA DeployTodo ==
    ASSUME TypeInv, NEW t \in Threads, Steps(t), thread'[t] # None, Op(t) \in {"sync", "deploy"}
    PROVE  \A d \in thread'[t].todo : \/ d \in thread[t].todo
                                      \/ /\ Op(t) = "deploy" /\ thread[t].flag
                                         /\ thread[t].at = "target"
                                         /\ d \in Trackers(thread[t].branch)
<1> DEFINE r == thread[t]
<1>1. /\ Runs(t) /\ r \in Job /\ Shape(r) /\ t \in DOMAIN thread
      /\ Onward(r, thread'[t])
    BY StepOn, Jobs DEF TypeInv, TypeOK
<1>2. SUFFICES ASSUME NEW d \in thread'[t].todo, d \notin r.todo
               PROVE  r.op = "deploy" /\ r.flag /\ r.at = "target"
    BY <1>1 DEF Onward, Op
<1>e. ~Ends(t)
    BY <1>1 DEF Ends
<1>g. ASSUME NEW q, GoTo(t, q) PROVE thread'[t] = q
    BY <1>1, <1>g DEF GoTo
<1>s. ASSUME NEW c, SyncError(t, c) PROVE FALSE
    BY <1>s, <1>e, <1>g, <1>1, <1>2, SyncedFields DEF SyncError
<1>a. ASSUME NEW a, GoTo(t, [r EXCEPT !.at = a]) PROVE FALSE
    BY <1>a, <1>g, <1>1, <1>2 DEF Job
<1>n. ASSUME GoTo(t, StartSync(r, None)) PROVE FALSE
    BY <1>n, <1>g, <1>1, <1>2, StartSyncFields, Apart
<1>3. ASSUME r.at = "target", GoTo(t, StartSync(r, IF r.flag THEN r.branch ELSE None))
      PROVE  r.op = "deploy" /\ r.flag /\ r.at = "target"
    BY <1>3, <1>n, <1>1 DEF Shape
<1>4. CASE CommandFails(t)
    BY <1>4, <1>3, <1>a, <1>e, <1>s DEF CommandFails, At
<1>5. CASE r.at = "sync" /\ \E c \in Domains : SyncPush(t, c)
    <2>1. PICK c \in Domains : SyncPush(t, c)
        BY <1>5
    <2>2. SyncError(t, c) \/ GoTo(t, [r EXCEPT !.at = "checkout", !.other = c])
        BY <2>1 DEF SyncPush
    <2> QED
        BY <2>2, <1>s, <1>g, <1>1, <1>2 DEF Job
<1>6. CASE r.at = "checkout" /\ (SyncCheckout(t) \/ RollbackCheckout(t))
    <2>1. CASE SyncCheckout(t)
        <3> DEFINE c == {[branch |-> r.other, name |-> "rollback", value |-> work[r.other]]}
                   q == Synced(r, r.other)
        <3>1. SyncError(t, r.other) \/ GoTo(t, [q EXCEPT !.set = @ \cup c])
            BY <2>1 DEF SyncCheckout
        <3>2. q \in Job /\ q.todo \subseteq r.todo
            BY <1>1, <1>6, <2>1, SyncedFields, SyncedType DEF SyncCheckout, Shape, Op
        <3> HIDE DEF q, c
        <3>3. GoTo(t, [q EXCEPT !.set = @ \cup c]) => thread'[t].todo = q.todo
            BY <3>2, <1>g DEF Job
        <3> QED
            BY <3>1, <3>2, <3>3, <1>2, <1>s
    <2>2. CASE RollbackCheckout(t)
        BY <2>2, <1>a, <1>e DEF RollbackCheckout
    <2> QED
        BY <1>6, <2>1, <2>2
<1>7. CASE r.at = "clone" /\ (PublishClone(t) \/ DeployClone(t))
    <2> DEFINE c == king[r.branch] \cup king[r.other]
    <2>1. GoTo(t, [r EXCEPT !.at = "push", !.commit = c])
        BY <1>7, <1>e DEF DeployClone, PublishClone, Op
    <2> QED
        BY <2>1, <1>g, <1>1, <1>2 DEF Job
<1>8. CASE r.at = "push" /\ PushOrigin(t)
    BY <1>8, <1>a, <1>e, <1>1 DEF PushOrigin, Shape, Op
<1>9. CASE r.at = "target" /\ DeployTarget(t)
    BY <1>9, <1>3 DEF DeployTarget
<1>10. CASE r.at \in {"force", "branch", "checkout1", "insert", "trash", "delete", "reference",
                       "remove", "review"}
    BY <1>10, <1>1 DEF Shape, Deleting, Op
<1>11. CASE Commit(t)
    BY <1>11, <1>e DEF Commit
<1> QED
    BY <1>4, <1>5, <1>6, <1>7, <1>8, <1>9, <1>10, <1>11, StepOf

LEMMA RowStays ==
    ASSUME TypeInv, NEW t \in Threads, Steps(t), thread'[t] # None
    PROVE  row' = row
<1>1. t \in DOMAIN thread
    BY DEF TypeInv, TypeOK
<1>2. ~Insert(t) /\ ~Remove(t) /\ ~Commit(t)
    BY <1>1 DEF Insert, Remove, Commit, Ends
<1> QED
    BY <1>2 DEF Steps, SyncPush, SyncCheckout, PublishClone, DeployClone, PushOrigin,
       DeployTarget, RollbackForce, RollbackCheckout, AddBranch, AddClone,
       AddCloneFails, DeleteTrash, DeleteDirectories, DeleteReference, PublishReview,
       CommandFails, database

LEMMA SuresNext ==
    ASSUME Base, Sures, [Next]_vars
    PROVE  Sures'
<1>1. CASE UNCHANGED vars
    BY <1>1 DEF Sures, Sure, Trackers, Exists, Runs, vars, database, aux
<1>2. ASSUME NEW t \in Threads, Commands(t) PROVE Sures'
    <2>1. /\ Asked(thread'[t]) /\ row' = row
          /\ \A u \in Threads \ {t} : thread'[u] = thread[u]
          /\ overlap' = "no" => overlap = "no" /\ \A u \in Threads : thread[u] = None
        BY <1>2, Begins DEF Base
    <2>2. Sure(thread'[t])
        BY <2>1 DEF Asked, Sure
    <2> QED
        BY <2>1, <2>2 DEF Sures, Sure, Trackers, Exists, Runs
<1>3. ASSUME NEW t \in Threads, Steps(t) PROVE Sures'
    <2> DEFINE r == thread[t]  q == thread'[t]
    <2>1. /\ overlap' = overlap /\ Runs(t) /\ r \in Job /\ Shape(r)
          /\ \A u \in Threads \ {t} : thread'[u] = thread[u]
          /\ q # None => Onward(r, q) /\ Later(r, q)
        BY <1>3, StepOn, StepLater, Jobs DEF Base, TypeInv
    <2> SUFFICES ASSUME overlap = "no", q # None PROVE Sures'
        <3>1. ASSUME overlap = "no" PROVE \A u \in Threads : u # t => thread'[u] = None
            BY <3>1, <2>1 DEF Base, Alone, Runs
        <3> QED
            BY <2>1, <3>1 DEF Sures, Runs
    <2>2. Sure(r) /\ row' = row /\ \A u \in Threads : thread'[u] # None => u = t
        BY <1>3, <2>1, RowStays DEF Sures, Base, Alone, Runs
    <2>3. q.op \in {"sync", "deploy"} => \A d \in q.todo : row[row[d].tracked].valid
        <3>1. ASSUME q.op \in {"sync", "deploy"}, NEW d \in q.todo PROVE row[row[d].tracked].valid
            <4>1. CASE d \in r.todo
                BY <4>1, <3>1, <2>1, <2>2 DEF Sure, Onward
            <4>2. CASE d \notin r.todo
                <5>1. r.op = "deploy" /\ r.flag /\ r.at = "target" /\ d \in Trackers(r.branch)
                    BY <4>2, <3>1, <2>1, <1>3, DeployTodo DEF Base, Onward, Op
                <5> QED
                    BY <5>1, <2>2 DEF Sure, Trackers
            <4> QED
                BY <4>1, <4>2
        <3> QED
            BY <3>1
    <2>4. q.op = "deploy" /\ q.flag /\ q.at \in {"clone", "push", "target"} =>
            row[q.branch].valid \/ Trackers(q.branch) = {}
        BY <2>1, <2>2 DEF Sure, Onward, Later
    <2>5. q.op = "publish" /\ q.flag /\ q.at \in {"clone", "push"} => Trackers(q.branch) = {}
        BY <2>1, <2>2 DEF Sure, Onward, Later
    <2>6. Sure(q)
        BY <2>3, <2>4, <2>5 DEF Sure
    <2> QED
        BY <2>2, <2>6 DEF Sures, Sure, Trackers, Exists, Runs
<1> QED
    BY <1>1, <1>2, <1>3 DEF Next

Stands(d) ==
    (Exists(d) /\ row[d].tracked # None /\ ~row[row[d].tracked].valid
       /\ overlap' = "no" /\ king'[d] # king[d])
    => \E t \in Threads : thread[t] # None /\ Op(t) \in {"rollback", "publish", "del_domain"}

LEMMA StandsStep ==
    ASSUME Base, Sures, [Next]_vars, NEW d \in Domains
    PROVE  Stands(d)
<1> SUFFICES ASSUME Exists(d), row[d].tracked # None, ~row[row[d].tracked].valid,
                    overlap' = "no", king'[d] # king[d]
             PROVE  \E t \in Threads : thread[t] # None
                        /\ Op(t) \in {"rollback", "publish", "del_domain"}
    BY DEF Stands
<1>1. PICK t \in Threads : Steps(t)
    BY Begins DEF Next, vars, git, Base
<1> DEFINE r == thread[t]
<1>2. /\ overlap = "no" /\ Live /\ Runs(t) /\ r \in Job /\ Shape(r) /\ Rooted(row, r) /\ Sure(r)
      /\ king \in [Branch -> Commits \cup {None}] /\ d \in Branch
    BY <1>1, StepOn, Jobs, Apart DEF Base, Sures, TypeInv, TypeOK, Live
<1>3. ASSUME NEW e, NEW c, Updates(t, e, c) PROVE e = d
    BY <1>3, <1>2 DEF Updates
<1>4. \/ r.at = "sync" /\ d \in r.todo
      \/ r.at \in {"push", "force", "branch", "checkout1", "reference"} /\ r.branch = d
    BY <1>1, <1>3, KingSteps DEF Base
<1>5. CASE r.at = "sync" /\ d \in r.todo
    BY <1>5, <1>2 DEF Sure, Shape, Runs, Op
<1>6. CASE r.at = "push" /\ r.branch = d
    BY <1>6, <1>2 DEF Shape, Rooted, Runs, Op
<1>7. CASE r.at = "force"
    BY <1>7, <1>2 DEF Shape, Runs, Op
<1>8. CASE r.at \in {"branch", "checkout1"} /\ r.branch = d
    BY <1>8, <1>2 DEF Shape, Rooted, There, Exists
<1>9. CASE r.at = "reference" /\ r.branch = d
    BY <1>9, <1>2, Apart DEF Shape, Deleting, Runs, Op
<1> QED
    BY <1>4, <1>5, <1>6, <1>7, <1>8, <1>9

(* Commands that do not overlap leave a domain that was rolled back where   *)
(* it is until its tracked branch is valid again (sync.py:34, deploy.py:76).*)
THEOREM RollbacksStand == Spec => RollbackStands
<1>1. Init => Base /\ Sures
    BY BaseInit DEF Init, Sures, Runs
<1>2. Base /\ Sures /\ [Next]_vars => (Base /\ Sures)'
    BY BaseNext, SuresNext
<1>3. Base /\ Sures /\ [Next]_vars => [\A d \in Domains : Stands(d)]_vars
    BY StandsStep
<1>4. Spec => [][\A d \in Domains : Stands(d)]_vars
    BY <1>1, <1>2, <1>3, PTL DEF Spec
<1> QED
    BY <1>4 DEF RollbackStands, Stands

-----------------------------------------------------------------------------
(* Where references and checkouts go.                                       *)

\* What a step does to the checkouts
LEMMA WorkSteps ==
    ASSUME TypeInv, NEW t \in Threads, Steps(t), work' # work
    PROVE  /\ king' = king
           /\ \/ /\ thread[t].at = "delete" /\ Unused(thread[t].branch)
                 /\ work' = [d \in Domains |-> IF d = thread[t].branch THEN None ELSE work[d]]
              \/ \E d \in Domains :
                    /\ work' = [work EXCEPT ![d] = king[d]] /\ king[d] # None
                    /\ \/ /\ thread[t].at = "checkout" /\ Op(t) # "rollback"
                          /\ d = thread[t].other /\ work[d] # None
                       \/ /\ thread[t].at = "checkout" /\ Op(t) = "rollback"
                          /\ d = thread[t].branch /\ work[d] # None
                       \/ thread[t].at = "target" /\ d = thread[t].branch /\ work[d] # None
                       \/ thread[t].at = "checkout1" /\ d = thread[t].branch
<1> DEFINE r == thread[t]
<1>1. Runs(t) /\ r \in Job /\ Shape(r)
    BY StepOn, Jobs DEF TypeInv
<1>2. CASE SyncCheckout(t)
    <2>1. /\ r.at = "checkout" /\ Op(t) # "rollback" /\ king' = king
          /\ work[r.other] # None /\ king[r.other] # None
          /\ work' = [work EXCEPT ![r.other] = king[r.other]]
        BY <1>2 DEF SyncCheckout, At
    <2>2. r.other \in Domains
        BY <1>1, <2>1 DEF Shape, Op
    <2> QED
        BY <2>1, <2>2
<1>3. CASE RollbackCheckout(t)
    <2>1. /\ r.at = "checkout" /\ Op(t) = "rollback" /\ king' = king
          /\ work[r.branch] # None /\ king[r.branch] # None
          /\ work' = [work EXCEPT ![r.branch] = king[r.branch]]
        BY <1>3 DEF RollbackCheckout, At
    <2>2. r.branch \in Domains
        BY <1>1, <2>1 DEF Shape, Op
    <2> QED
        BY <2>1, <2>2
<1>4. CASE DeployTarget(t)
    <2>1. /\ r.at = "target" /\ king' = king
          /\ work[r.branch] # None /\ king[r.branch] # None
          /\ work' = [work EXCEPT ![r.branch] = king[r.branch]]
        BY <1>4 DEF DeployTarget, At
    <2>2. r.branch \in Domains
        BY <1>1, <2>1 DEF Shape
    <2> QED
        BY <2>1, <2>2
<1>5. CASE AddClone(t)
    <2>1. /\ r.at = "checkout1" /\ king' = king /\ king[r.branch] # None
          /\ work' = [work EXCEPT ![r.branch] = king[r.branch]]
        BY <1>5 DEF AddClone, At
    <2>2. r.branch \in Domains
        BY <1>1, <2>1 DEF Shape
    <2> QED
        BY <2>1, <2>2
<1>6. CASE DeleteDirectories(t)
    BY <1>6 DEF DeleteDirectories, At
<1> QED
    BY <1>2, <1>3, <1>4, <1>5, <1>6
    DEF Steps, SyncPush, PublishClone, DeployClone, PushOrigin, RollbackForce, AddBranch,
        AddCloneFails, Insert, DeleteTrash, DeleteReference, Remove, PublishReview, Commit,
        CommandFails, git

\* A branch that does not track only grows, unless it is deleted or rebased.
LEMMA Grows ==
    ASSUME Base, Live, NEW t \in Threads, Steps(t), NEW b \in Branch,
           There(row, b), row[b].tracked = None, king[b] # None,
           ~(Op(t) \in Deleting /\ thread[t].branch = b),
           ~(Op(t) = "publish" /\ thread[t].flag /\ thread[t].at = "push" /\ thread[t].branch = b)
    PROVE  king'[b] # None /\ king[b] \subseteq king'[b]
<1> DEFINE r == thread[t]
<1>1. /\ Runs(t) /\ r \in Job /\ Shape(r) /\ Rooted(row, r)
      /\ king \in [Branch -> Commits \cup {None}]
    BY StepOn, Jobs DEF Base, TypeInv, TypeOK
<1>2. CASE king' = king
    BY <1>2
<1>3. CASE king' # king
    <2>1. ASSUME NEW e, NEW c, Updates(t, e, c), e # b PROVE king'[b] = king[b]
        BY <2>1, <1>1 DEF Updates
    <2>2. \/ r.at = "sync" /\ \E e \in r.todo : Updates(t, e, king[row[e].tracked])
          \/ r.at = "push" /\ PushAccepted(t) /\ Updates(t, r.branch, r.commit)
          \/ r.at = "force" /\ Updates(t, r.branch, r.commit)
          \/ r.at = "branch" /\ Updates(t, r.branch, king[r.other])
          \/ r.at = "checkout1" /\ Updates(t, r.branch, None)
          \/ r.at = "reference" /\ Updates(t, r.branch, None)
        BY <1>3, KingSteps DEF Base
    <2>4. CASE r.at = "sync" /\ \E e \in r.todo : Updates(t, e, king[row[e].tracked])
        BY <2>4, <2>1, <1>1 DEF Rooted, Tracking
    <2>5. CASE r.at = "push" /\ PushAccepted(t) /\ Updates(t, r.branch, r.commit)
        <3>1. r.branch = b => king[b] \subseteq r.commit /\ r.commit # None
            BY <2>5, <1>1 DEF PushAccepted, Accepts, Shape, Op
        <3> QED
            BY <2>5, <2>1, <1>1, <3>1 DEF Updates
    <2>6. CASE r.at = "force" /\ Updates(t, r.branch, r.commit)
        BY <2>6, <2>1, <1>1 DEF Rooted, Tracking, Shape
    <2>7. CASE r.at \in {"branch", "checkout1"}
        BY <2>7, <2>2, <2>1, <1>1 DEF Rooted, Shape
    <2>8. CASE r.at = "reference" /\ Updates(t, r.branch, None)
        BY <2>8, <2>1, <1>1 DEF Shape, Op
    <2> QED
        BY <2>2, <2>4, <2>5, <2>6, <2>7, <2>8
<1> QED
    BY <1>2, <1>3

\* A branch that has no row is left alone by all but the command that adds it.
LEMMA Aside ==
    ASSUME Base, Live, NEW t \in Threads, Steps(t), NEW b \in Branch, ~There(row, b),
           ~(Op(t) = "add" /\ thread[t].branch = b)
    PROVE  /\ king'[b] = king[b]
           /\ b \in Domains => work'[b] = work[b]
<1> DEFINE r == thread[t]
<1>1. /\ Runs(t) /\ r \in Job /\ Shape(r) /\ Rooted(row, r)
      /\ king \in [Branch -> Commits \cup {None}] /\ work \in [Domains -> Commits \cup {None}]
    BY StepOn, Jobs DEF Base, TypeInv, TypeOK
<1>2. ASSUME king' # king PROVE king'[b] = king[b]
    <2>1. ASSUME NEW e, NEW c, Updates(t, e, c), e # b PROVE king'[b] = king[b]
        BY <2>1, <1>1 DEF Updates
    <2>2. \/ r.at = "sync" /\ \E e \in r.todo : \E c : Updates(t, e, c)
          \/ r.at \in {"push", "force", "branch", "checkout1", "reference"}
                /\ \E c : Updates(t, r.branch, c)
        BY <1>2, KingSteps DEF Base
    <2>3. CASE r.at = "sync" /\ \E e \in r.todo : \E c : Updates(t, e, c)
        BY <2>3, <2>1, <1>1 DEF Rooted, Tracking, There
    <2>4. r.at \in {"push", "force", "branch", "checkout1", "reference"} => r.branch # b
        BY <1>1 DEF Rooted, Shape, Op
    <2> QED
        BY <2>1, <2>2, <2>3, <2>4
<1>3. ASSUME work' # work, b \in Domains PROVE work'[b] = work[b]
    <2>1. \/ /\ r.at = "delete"
             /\ work' = [d \in Domains |-> IF d = r.branch THEN None ELSE work[d]]
          \/ \E d \in Domains :
                /\ work' = [work EXCEPT ![d] = king[d]]
                /\ \/ r.at = "checkout" /\ Op(t) # "rollback" /\ d = r.other
                   \/ r.at = "checkout" /\ Op(t) = "rollback" /\ d = r.branch
                   \/ r.at \in {"target", "checkout1"} /\ d = r.branch
        BY <1>3, WorkSteps DEF Base
    <2>2. r.at = "delete" => r.branch # b
        BY <1>1 DEF Rooted, Shape
    <2>3. /\ r.at = "checkout" /\ Op(t) # "rollback" => r.other # b
          /\ r.at = "checkout" /\ Op(t) = "rollback" => r.branch # b
          /\ r.at \in {"target", "checkout1"} => r.branch # b
        BY <1>1 DEF Rooted, Shape, Op, Tracking, There
    <2> QED
        BY <1>1, <1>3, <2>1, <2>2, <2>3
<1> QED
    BY <1>2, <1>3

-----------------------------------------------------------------------------
(* Deployments: the checkout of a domain that does not track is never ahead *)
(* of its reference, so that a commit found in the one is in the other.     *)

Ahead(w, k, c, d) ==
    (There(w, d) /\ w[d].tracked = None /\ c[d] # None)
        => k[d] # None /\ c[d] \subseteq k[d]

Brought(w, k, c, r) ==
    /\ (r.op = "deploy" /\ r.at \in {"clone", "push"} /\ r.other \in Sandboxes)
        => /\ There(w, r.other) /\ k[r.branch] # None
           /\ w[r.other].base \subseteq k[r.branch]
    /\ r.at = "checkout1" => k[r.branch] # None
    /\ r.at = "insert" => /\ k[r.branch] # None
                          /\ r.branch \in Domains => c[r.branch] = k[r.branch]
    /\ r.op = "del_domain" /\ r.at \in {"reference", "remove"} => c[r.branch] = None

Own == Live => /\ \A d \in Domains : Ahead(row, king, work, d)
               /\ \A t \in Threads : Runs(t) => Brought(row, king, work, thread[t])

LEMMA AheadSteps ==
    ASSUME Base, Live, Own, NEW t \in Threads, Steps(t), NEW d \in Domains
    PROVE  Ahead(row', king', work', d)
<1> DEFINE r == thread[t]
<1>1. /\ Runs(t) /\ r \in Job /\ Shape(r) /\ Rooted(row, r) /\ Brought(row, king, work, r)
      /\ Ahead(row, king, work, d) /\ d \in Branch /\ t \in DOMAIN thread
      /\ king \in [Branch -> Commits \cup {None}] /\ work \in [Domains -> Commits \cup {None}]
    BY StepOn, Jobs, Apart DEF Base, TypeInv, TypeOK, Own
<1> SUFFICES ASSUME There(row', d), row'[d].tracked = None, work'[d] # None
             PROVE  king'[d] # None /\ work'[d] \subseteq king'[d]
    BY DEF Ahead
<1>2. CASE ~There(row, d)
    <2>1. r.at = "insert" /\ d = r.branch
        BY <1>1, <1>2, RowSteps
    <2>2. row' # row
        BY <1>2 DEF There
    <2>3. Insert(t)
        BY <2>1, <2>2, StepOf, Failing DEF Base
    <2>4. king' = king /\ work' = work
        BY <2>3 DEF Insert, git
    <2> QED
        BY <2>1, <2>4, <1>1 DEF Brought
<1>3. CASE There(row, d)
    <2>1. row[d].tracked = None
        <3>1. CASE Op(t) \in Deleting
            <4>1. d = r.branch \/ row'[d] = row[d]
                BY <1>1, <3>1, RowSteps
            <4>2. d = r.branch /\ row' # row => row'[d] = None
                BY <1>1, <3>1, RowSteps
            <4> QED
                BY <4>1, <4>2 DEF There
        <3>2. CASE Op(t) \notin Deleting
            BY <1>1, <1>3, <3>2, RowSteps DEF Holds
        <3> QED
            BY <3>1, <3>2
    <2>2. CASE work'[d] = work[d]
        <3>1. king[d] # None /\ work[d] \subseteq king[d]
            BY <1>1, <1>3, <2>1, <2>2 DEF Ahead
        <3>2. CASE Op(t) \in Deleting /\ r.branch = d
            <4>1. r.op = "del_domain"
                BY <1>1, <3>2, Apart DEF Shape, Deleting, Op
            <4>2. r.at \notin {"reference", "remove"}
                BY <4>1, <3>2, <1>1, <2>2 DEF Brought
            <4>3. king' = king
                BY <4>1, <4>2, <1>1, KingSteps DEF Base, Shape
            <4> QED
                BY <3>1, <4>3, <2>2
        <3>3. CASE ~(Op(t) \in Deleting /\ r.branch = d)
            <4>1. Op(t) = "publish" => r.branch # d
                BY <1>1, Apart DEF Shape, Op
            <4> QED
                BY <3>1, <3>3, <4>1, <1>1, <1>3, <2>1, <2>2, Grows
        <3> QED
            BY <3>2, <3>3
    <2>3. CASE work'[d] # work[d]
        <3>1. king' = king /\ work'[d] \in {None, king[d]}
            BY <2>3, <1>1, WorkSteps DEF Base
        <3> QED
            BY <3>1
    <2> QED
        BY <2>2, <2>3
<1> QED
    BY <1>2, <1>3

\* The command that steps
LEMMA BroughtOn ==
    ASSUME Base, Live, Own, NEW t \in Threads, Steps(t), thread'[t] # None
    PROVE  Brought(row', king', work', thread'[t])
<1> DEFINE r == thread[t]
           q == thread'[t]
<1>1. /\ Runs(t) /\ r \in Job /\ Shape(r) /\ Rooted(row, r) /\ Brought(row, king, work, r)
      /\ Onward(r, q) /\ Later(r, q) /\ row' = row /\ t \in DOMAIN thread
      /\ king \in [Branch -> Commits \cup {None}] /\ work \in [Domains -> Commits \cup {None}]
    BY StepOn, StepLater, RowStays, Jobs DEF Base, TypeInv, TypeOK, Own
<1>2. ~Ends(t)
    BY <1>1 DEF Ends
<1>3. ASSUME q.at \in {"clone", "push"}, q.op = "deploy", q.other \in Sandboxes
      PROVE  /\ There(row, q.other) /\ king'[q.branch] # None
             /\ row[q.other].base \subseteq king'[q.branch]
    <2>1. r.at = "clone" /\ r.op = "deploy" /\ q.other = r.other /\ q.branch = r.branch
        BY <1>1, <1>3 DEF Later, Onward
    <2>2. king' = king
        BY <2>1, KingSteps DEF Base
    <2> QED
        BY <1>1, <1>3, <2>1, <2>2 DEF Brought
<1>4. ASSUME q.at \in {"checkout1", "insert"}
      PROVE  /\ king'[q.branch] # None
             /\ q.at = "insert" /\ q.branch \in Domains => work'[q.branch] = king'[q.branch]
    <2>1. r.at \in {"branch", "checkout1"} /\ q.branch = r.branch /\ r.branch \in Branch
        BY <1>1, <1>4 DEF Later, Onward, Job
    <2>2. CASE AddBranch(t)
        <3>1. /\ king[r.other] # None /\ king' = [king EXCEPT ![r.branch] = king[r.other]]
              /\ GoTo(t, [r EXCEPT !.at = IF r.branch \in Domains THEN "checkout1" ELSE "insert"])
            BY <1>2, <2>2 DEF AddBranch
        <3>2. q.at = IF r.branch \in Domains THEN "checkout1" ELSE "insert"
            BY <3>1, <1>1 DEF GoTo, Job
        <3> QED
            BY <3>1, <3>2, <1>1, <2>1
    <2>3. CASE AddClone(t)
        <3>1. king[r.branch] # None /\ king' = king
                /\ work' = [work EXCEPT ![r.branch] = king[r.branch]]
            BY <2>3 DEF AddClone
        <3> QED
            BY <3>1, <1>1, <2>1
    <2>4. CASE AddCloneFails(t) \/ CommandFails(t)
        BY <2>1, <2>4, <1>2, Failing DEF AddCloneFails, Base
    <2> QED
        BY <2>1, <2>2, <2>3, <2>4, StepOf
<1>5. ASSUME q.op = "del_domain", q.at \in {"reference", "remove"}
      PROVE  work'[q.branch] = None
    <2>1. r.op = "del_domain" /\ q.branch = r.branch /\ r.branch \in Domains
        BY <1>1, <1>5 DEF Onward, Shape
    <2>2. CASE r.at = "delete"
        <3>1. DeleteDirectories(t)
            BY <2>2, StepOf, Failing DEF Base
        <3>2. work' = [d \in Domains |-> IF d = r.branch THEN None ELSE work[d]]
            BY <3>1, <1>2 DEF DeleteDirectories
        <3> QED
            BY <2>1, <3>2
    <2>3. CASE r.at = "reference"
        <3>1. work' = work
            BY <2>3, WorkSteps DEF Base
        <3> QED
            BY <3>1, <2>1, <2>3, <1>1 DEF Brought
    <2> QED
        BY <2>2, <2>3, <1>1, <1>5 DEF Later
<1> QED
    BY <1>1, <1>3, <1>4, <1>5 DEF Brought

\* The others
LEMMA BroughtFrame ==
    ASSUME Base, Live, Own, NEW t \in Threads, Steps(t), NEW u \in Threads \ {t}, Runs(u)
    PROVE  Brought(row', king', work', thread[u])
<1> DEFINE r == thread[u]
<1>1. /\ r \in Job /\ Shape(r) /\ Rooted(row, r) /\ Brought(row, king, work, r)
      /\ Op(t) \notin Deleting /\ Op(u) \notin Deleting /\ Runs(t) /\ Shape(thread[t])
    BY StepOn, Jobs DEF Base, TypeInv, Own, Alone
<1>2. Holds(row, row')
    BY <1>1, RowSteps
<1>3. ASSUME r.op = "deploy", r.at \in {"clone", "push"}, r.other \in Sandboxes
      PROVE  /\ There(row', r.other) /\ king'[r.branch] # None
             /\ row'[r.other].base \subseteq king'[r.branch]
    <2>1. /\ There(row, r.other) /\ king[r.branch] # None
          /\ row[r.other].base \subseteq king[r.branch]
          /\ r.branch \in Domains /\ There(row, r.branch) /\ row[r.branch].tracked = None
        BY <1>1, <1>3 DEF Brought, Rooted, Shape
    <2>2. Op(t) = "publish" => thread[t].branch # r.branch
        BY <1>1, <2>1, Apart DEF Shape, Op
    <2>3. king'[r.branch] # None /\ king[r.branch] \subseteq king'[r.branch]
        BY <1>1, <2>1, <2>2, Apart, Grows
    <2> QED
        BY <1>2, <1>3, <2>1, <2>3, Apart DEF Holds
<1>4. ASSUME r.at \in {"checkout1", "insert"}
      PROVE  /\ king'[r.branch] = king[r.branch]
             /\ r.branch \in Domains => work'[r.branch] = work[r.branch]
    <2>1. r.op = "add" /\ ~There(row, r.branch) /\ r.branch \in Branch
        BY <1>1, <1>4 DEF Shape, Rooted, Job
    <2>2. ~(Op(t) = "add" /\ thread[t].branch = r.branch)
        BY <2>1, <1>1 DEF Base, Adders, Op
    <2> QED
        BY <2>1, <2>2, Aside
<1> QED
    BY <1>1, <1>3, <1>4 DEF Brought, Deleting, Op

LEMMA OwnNext ==
    ASSUME Base, Own, [Next]_vars
    PROVE  Own'
<1>1. CASE UNCHANGED vars
    BY <1>1 DEF Own, Live, Runs, vars, database, git, aux
<1>2. ASSUME NEW t \in Threads, Commands(t) PROVE Own'
    <2> DEFINE q == thread'[t]
    <2>1. /\ Shape(q) /\ Asked(q) /\ UNCHANGED <<row, king, work>> /\ q # None
          /\ \A u \in Threads \ {t} : thread'[u] = thread[u]
          /\ Live' => Live
        BY <1>2, Begins DEF Base
    <2>2. ASSUME Live' PROVE Brought(row, king, work, q)
        <3>1. Rooted(row, q)
            BY <1>2, <2>1, <2>2, CommandsBase DEF Base, Runs
        <3>2. ASSUME q.op = "deploy", q.other \in Sandboxes
              PROVE  /\ There(row, q.other) /\ king[q.branch] # None
                     /\ row[q.other].base \subseteq king[q.branch]
            <4>1. /\ Exists(q.other) /\ work[q.branch] # None
                  /\ row[q.other].base \subseteq work[q.branch]
                BY <3>2, <2>1 DEF Asked, SharesHistory
            <4>2. There(row, q.branch) /\ row[q.branch].tracked = None /\ q.branch \in Domains
                BY <3>1, <3>2, <2>1 DEF Rooted, Shape
            <4>3. king[q.branch] # None /\ work[q.branch] \subseteq king[q.branch]
                BY <4>1, <4>2, <2>1, <2>2 DEF Own, Ahead
            <4> QED
                BY <4>1, <4>3 DEF There, Exists
        <3> QED
            BY <3>2, <2>1 DEF Brought, Asked
    <2> QED
        BY <2>1, <2>2 DEF Own, Runs
<1>3. ASSUME NEW t \in Threads, Steps(t) PROVE Own'
    <2>1. /\ overlap' = overlap
          /\ \A u \in Threads \ {t} : thread'[u] = thread[u]
        BY <1>3, StepOn DEF Base
    <2>2. ASSUME Live PROVE \A d \in Domains : Ahead(row', king', work', d)
        BY <1>3, <2>2, AheadSteps
    <2>3. ASSUME Live, NEW u \in Threads, thread'[u] # None
          PROVE  Brought(row', king', work', thread'[u])
        BY <1>3, <2>1, <2>3, BroughtOn, BroughtFrame DEF Runs
    <2> QED
        BY <2>1, <2>2, <2>3 DEF Own, Live, Runs
<1> QED
    BY <1>1, <1>2, <1>3 DEF Next

LEMMA OwnInit ==
    ASSUME Init
    PROVE  Own
<1>1. \A d \in Domains : king[d] \in Commits /\ work[d] = king[d]
    <2>1. PICK own \in [Branch \ {Trunk} -> {{}} \cup {{x} : x \in Changes}] :
            /\ king = [b \in Branch |-> IF b \in DOMAIN own THEN own[b] ELSE {}]
            /\ work = [d \in Domains |-> king[d]]
        BY DEF Init
    <2> QED
        BY <2>1, Apart DEF Commits
<1> QED
    BY <1>1, Apart DEF Init, Own, Ahead, Runs

BringsOwn(t) ==
    (At(t, "push") /\ Op(t) = "deploy" /\ thread[t].other \in Sandboxes
       /\ Exists(thread[t].other) /\ king' # king /\ overlap # "deletion"
       /\ thread'[t] # thread[t])
    => LET d == thread[t].branch IN (king'[d] \ king[d]) \cap row[thread[t].other].base = {}

(* A deployed sandbox brings no change that it was branched from, although  *)
(* the check looks at a checkout, the merge at the reference, and others    *)
(* move both in between (deploy.py:103-109): a checkout is never ahead of   *)
(* the reference of a domain that does not track, and that only grows.      *)
THEOREM DeploymentsBringTheirOwn == Spec => DeployBringsOwn
<1>1. Init => Base /\ Own
    BY BaseInit, OwnInit
<1>2. Base /\ Own /\ [Next]_vars => (Base /\ Own)'
    BY BaseNext, OwnNext
<1>3. Base /\ Own /\ [Next]_vars => [\A t \in Threads : BringsOwn(t)]_vars
    BY DEF BringsOwn, Own, Brought, At, Op, Runs, Live
<1>4. Spec => [][\A t \in Threads : BringsOwn(t)]_vars
    BY <1>1, <1>2, <1>3, PTL DEF Spec
<1> QED
    BY <1>4 DEF DeployBringsOwn, BringsOwn

-----------------------------------------------------------------------------
(* Tracking: a domain has nothing that the branch it tracks does not have,  *)
(* neither in its reference nor in its checkout nor as a commit to go back  *)
(* to, nor has a command that is going to put it there.                     *)

\* A sandbox may be rebased by a command that overlaps with another.
Counts(o, m) == m \in Sandboxes => o = "no"

Within(k, o, x, m) == x # None /\ Counts(o, m) => x \subseteq k[m]

Behind(w, k, c, o, d) == Tracking(w, d) =>
    /\ k[w[d].tracked] # None
    /\ Within(k, o, k[d], w[d].tracked)
    /\ Within(k, o, c[d], w[d].tracked)
    /\ Within(k, o, w[d].rollback, w[d].tracked)

Untracked(w, b) == \A d \in Domains : There(w, d) => w[d].tracked # b

Bounded(w, k, o, r) ==
    /\ r.op = "rollback" /\ r.at = "force" => Within(k, o, r.commit, w[r.branch].tracked)
    /\ \A s \in r.set : s.name = "rollback" /\ s.value # None =>
            Tracking(w, s.branch) /\ Within(k, o, s.value, w[s.branch].tracked)
    /\ r.op = "add" /\ r.flag /\ r.at \in {"checkout1", "insert"} =>
            k[r.other] # None /\ Within(k, o, k[r.branch], r.other)
    /\ r.op \in Deleting /\ r.at \in {"reference", "remove"} => Untracked(w, r.branch)

Bounds == Live => /\ \A d \in Domains : Behind(row, king, work, overlap, d)
                  /\ \A t \in Threads : Runs(t) => Bounded(row, king, overlap, thread[t])

\* What is tracked only grows.
LEMMA TrackedGrows ==
    ASSUME Base, Sures, Bounds, Live, NEW t \in Threads, Steps(t),
           NEW d \in Branch, Tracking(row, d)
    PROVE  /\ king'[row[d].tracked] # None
           /\ Counts(overlap, row[d].tracked) =>
                king[row[d].tracked] \subseteq king'[row[d].tracked]
<1> DEFINE r == thread[t]
           m == row[d].tracked
<1>1. /\ Runs(t) /\ r \in Job /\ Shape(r) /\ Bounded(row, king, overlap, r)
      /\ king \in [Branch -> Commits \cup {None}]
    BY StepOn, Jobs DEF Base, TypeInv, TypeOK, Bounds
<1>2. /\ d \in Domains /\ m \in Branch /\ There(row, m) /\ row[m].tracked = None
      /\ There(row, d) /\ king[m] # None
    BY TrackedBranch DEF Base, TypeInv, Roots, Bounds, Behind, Tracking, There
<1>3. CASE Op(t) \in Deleting /\ r.branch = m
    <2>1. r.at \notin {"reference", "remove"}
        BY <1>1, <1>2, <1>3 DEF Bounded, Untracked, Op
    <2>2. king' = king
        BY <1>1, <1>3, <2>1, KingSteps DEF Base, Shape, Op
    <2> QED
        BY <1>2, <2>2
<1>4. CASE Op(t) = "publish" /\ r.flag /\ r.at = "push" /\ r.branch = m
    <2>1. m \in Sandboxes /\ r.commit # None
        BY <1>1, <1>4 DEF Shape, Op
    <2>2. ~Counts(overlap, m)
        BY <1>1, <1>2, <1>4, <2>1
        DEF Counts, Sures, Sure, Trackers, Runs, Op, There, Exists
    <2>3. king'[m] # None
        BY <1>1, <1>2, <1>4, <2>1, KingSteps DEF Base, Updates
    <2> QED
        BY <2>2, <2>3
<1> QED
    BY <1>2, <1>3, <1>4, Grows

LEMMA WithinOn ==
    ASSUME Base, Sures, Bounds, Live, NEW t \in Threads, Steps(t),
           NEW d \in Branch, Tracking(row, d), NEW x, Within(king, overlap, x, row[d].tracked)
    PROVE  Within(king', overlap, x, row[d].tracked)
BY TrackedGrows DEF Within

\* Where a rollback commit comes from
LEMMA RollbackColumn ==
    ASSUME Base, Live, NEW t \in Threads, Steps(t), NEW d \in Branch, There(row, d), There(row', d)
    PROVE  \/ row'[d].rollback = row[d].rollback
           \/ /\ thread'[t] = None
              /\ \E s \in thread[t].set : s.branch = d /\ s.name = "rollback"
                                            /\ s.value = row'[d].rollback
<1> DEFINE r == thread[t]
<1>1. Runs(t) /\ t \in DOMAIN thread /\ row \in [Branch -> Row \cup {None}] /\ row[d] \in Row
      /\ r \in Job /\ Shape(r)
    BY StepOn, Rows, Jobs DEF Base, TypeInv, TypeOK, There, Exists
<1>2. CASE Commit(t) /\ Writable(r)
    <2>1. row' = Sent(r.set) /\ thread'[t] = None
        BY <1>1, <1>2 DEF Commit, Ends
    <2>2. CASE \A s \in r.set : s.branch # d
        BY <2>1, <2>2 DEF Sent
    <2>3. CASE ~(\A s \in r.set : s.branch # d)
        <3> DEFINE New(n) == IF \E s \in r.set : s.branch = d /\ s.name = n
                             THEN (CHOOSE s \in r.set : s.branch = d /\ s.name = n).value
                             ELSE row[d][n]
        <3>1. row'[d] = [n \in DOMAIN row[d] |-> New(n)]
            BY <2>1, <2>3 DEF Sent
        <3>2. "rollback" \in DOMAIN row[d] /\ row[d].rollback = row[d]["rollback"]
            BY <1>1 DEF Row
        <3>3. row'[d].rollback = New("rollback")
            BY <3>1, <3>2
        <3>4. \/ New("rollback") = row[d].rollback
              \/ \E s \in r.set : s.branch = d /\ s.name = "rollback" /\ s.value = New("rollback")
            BY <3>2
        <3> QED
            BY <2>1, <3>3, <3>4
    <2> QED
        BY <2>2, <2>3
<1>3. CASE Insert(t)
    <2>1. r.branch # d
        BY <1>3, <1>1 DEF Insert, At, Base, Rooted, Shape, Live, Runs
    <2> QED
        BY <1>3, <2>1, <1>1 DEF Insert
<1>4. CASE Remove(t)
    <2>1. row'[d] = row[d] \/ row'[d] = None
        BY <1>4, <1>1 DEF Remove
    <2> QED
        BY <2>1 DEF There
<1>5. CASE Commit(t) /\ ~Writable(r)
    BY <1>5 DEF Commit, database
<1> QED
    BY <1>2, <1>3, <1>4, <1>5
    DEF Steps, SyncPush, SyncCheckout, PublishClone, DeployClone, PushOrigin,
        DeployTarget, RollbackForce, RollbackCheckout, AddBranch, AddClone,
        AddCloneFails, DeleteTrash, DeleteDirectories, DeleteReference, PublishReview,
        CommandFails, database

LEMMA BehindSteps ==
    ASSUME Base, Sures, Own, Bounds, Live, NEW t \in Threads, Steps(t), NEW d \in Domains
    PROVE  Behind(row', king', work', overlap, d)
<1> DEFINE r == thread[t]
           m == row'[d].tracked
<1>1. /\ Runs(t) /\ r \in Job /\ Shape(r) /\ Rooted(row, r) /\ Brought(row, king, work, r)
      /\ Bounded(row, king, overlap, r) /\ Behind(row, king, work, overlap, d) /\ d \in Branch
      /\ king \in [Branch -> Commits \cup {None}] /\ work \in [Domains -> Commits \cup {None}]
    BY StepOn, Jobs, Apart DEF Base, TypeInv, TypeOK, Own, Bounds
<1> SUFFICES ASSUME Tracking(row', d)
             PROVE  /\ king'[m] # None
                    /\ Within(king', overlap, king'[d], m)
                    /\ Within(king', overlap, work'[d], m)
                    /\ Within(king', overlap, row'[d].rollback, m)
    BY DEF Behind
<1>2. CASE ~There(row, d)
    <2>1. r.at = "insert" /\ d = r.branch /\ m = IF r.flag THEN r.other ELSE None
        BY <1>1, <1>2, RowSteps DEF Tracking, There
    <2>2. row' # row
        BY <1>2 DEF There, Tracking
    <2>3. Insert(t)
        BY <2>1, <2>2, StepOf, Failing DEF Base
    <2> DEFINE new == NewRow(IF r.flag THEN r.other ELSE None,
                             IF r.commit = None THEN {} ELSE r.commit)
    <2>4. king' = king /\ work' = work /\ row'[d] = new
        BY <2>1, <2>3, <1>1 DEF Insert, git, Base, TypeInv, TypeOK
    <2>5. row'[d].rollback = None
        BY <2>4 DEF NewRow
    <2>6. r.op = "add" /\ r.flag /\ m = r.other
        BY <2>1, <1>1 DEF Shape, Tracking
    <2>7. king[m] # None /\ Within(king, overlap, king[d], m) /\ work[d] = king[d]
        BY <2>1, <2>6, <1>1 DEF Bounded, Brought
    <2> QED
        BY <2>4, <2>5, <2>7 DEF Within
<1>3. CASE There(row, d)
    <2>1. m = row[d].tracked
        <3>1. CASE Op(t) \in Deleting
            <4>1. d = r.branch \/ row'[d] = row[d]
                BY <1>1, <3>1, RowSteps
            <4>2. d = r.branch /\ row' # row => row'[d] = None
                BY <1>1, <3>1, RowSteps
            <4> QED
                BY <4>1, <4>2 DEF Tracking, There
        <3>2. CASE Op(t) \notin Deleting
            BY <1>1, <1>3, <3>2, RowSteps DEF Holds
        <3> QED
            BY <3>1, <3>2
    <2>2. Tracking(row, d)
        BY <1>3, <2>1 DEF Tracking, There
    <2>3. /\ Within(king, overlap, king[d], m) /\ Within(king, overlap, work[d], m)
          /\ Within(king, overlap, row[d].rollback, m)
        BY <2>1, <2>2, <1>1 DEF Behind
    <2>4. king'[m] # None
        BY <2>1, <2>2, <1>1, TrackedGrows
    <2>5. \A x : Within(king, overlap, x, m) => Within(king', overlap, x, m)
        BY <2>1, <2>2, <1>1, WithinOn
    <2>6. Within(king', overlap, king'[d], m)
        <3>1. CASE king'[d] = king[d]
            BY <3>1, <2>3, <2>5
        <3>2. CASE king'[d] # king[d]
            <4>1. ASSUME NEW e, NEW c, Updates(t, e, c) PROVE e = d /\ king'[d] = c
                BY <3>2, <4>1, <1>1 DEF Updates
            <4>2. \/ r.at = "sync" /\ king'[d] = king[m] /\ Updates(t, d, king[m])
                  \/ r.at \in {"push", "branch"} /\ r.branch = d
                  \/ r.at = "force" /\ r.branch = d /\ king'[d] = r.commit
                  \/ r.at \in {"checkout1", "reference"} /\ king'[d] = None
                BY <3>2, <4>1, <2>1, KingSteps DEF Base
            <4>3. CASE r.at = "sync" /\ king'[d] = king[m] /\ Updates(t, d, king[m])
                <5>1. m # d
                    BY <2>1, <2>2, <1>1 DEF Base, Roots, Tracking
                <5>2. m \in Branch
                    BY <2>1, <2>2, <1>1, TrackedBranch DEF Base, TypeInv
                <5>3. king'[m] = king[m]
                    BY <4>3, <5>1, <5>2, <1>1 DEF Updates
                <5> QED
                    BY <4>3, <5>3 DEF Within
            <4>4. CASE r.at \in {"push", "branch"} /\ r.branch = d
                BY <4>4, <1>1, <2>2, Apart DEF Shape, Rooted, Tracking, There
            <4>5. CASE r.at = "force" /\ r.branch = d /\ king'[d] = r.commit
                BY <4>5, <1>1, <2>1, <2>5 DEF Shape, Bounded
            <4> QED
                BY <4>2, <4>3, <4>4, <4>5 DEF Within
        <3> QED
            BY <3>1, <3>2
    <2>7. Within(king', overlap, work'[d], m)
        <3>1. CASE work'[d] = work[d]
            BY <3>1, <2>3, <2>5
        <3>2. CASE work'[d] # work[d]
            <4>1. work'[d] \in {None, king[d]}
                BY <3>2, <1>1, WorkSteps DEF Base
            <4> QED
                BY <4>1, <2>3, <2>5 DEF Within
        <3> QED
            BY <3>1, <3>2
    <2>8. Within(king', overlap, row'[d].rollback, m)
        <3>1. There(row', d)
            BY DEF Tracking, There
        <3>2. CASE row'[d].rollback = row[d].rollback
            BY <3>2, <2>3, <2>5
        <3>3. CASE row'[d].rollback # row[d].rollback
            <4>1. PICK s \in r.set : /\ s.branch = d /\ s.name = "rollback"
                                     /\ s.value = row'[d].rollback
                BY <3>1, <3>3, <1>1, <1>3, RollbackColumn
            <4>2. Within(king, overlap, row'[d].rollback, m)
                BY <4>1, <1>1, <2>1 DEF Bounded, Within
            <4> QED
                BY <4>2, <2>5
        <3> QED
            BY <3>2, <3>3
    <2> QED
        BY <2>4, <2>6, <2>7, <2>8
<1> QED
    BY <1>2, <1>3

\* The columns a command is going to write
LEMMA CellsOn ==
    ASSUME Base, Sures, Bounds, Live, NEW t \in Threads, Steps(t), NEW w,
           \A d \in Branch : Tracking(row, d) => Tracking(w, d) /\ w[d].tracked = row[d].tracked,
           NEW s \in Cell, Tracking(row, s.branch),
           Within(king, overlap, s.value, row[s.branch].tracked)
    PROVE  Tracking(w, s.branch) /\ Within(king', overlap, s.value, w[s.branch].tracked)
<1>1. s.branch \in Branch
    BY DEF Cell
<1> QED
    BY <1>1, WithinOn

LEMMA BoundedOn ==
    ASSUME Base, Sures, Own, Bounds, Live, NEW t \in Threads, Steps(t), thread'[t] # None
    PROVE  Bounded(row', king', overlap, thread'[t])
<1> DEFINE r == thread[t]
           q == thread'[t]
<1>1. /\ Runs(t) /\ r \in Job /\ Shape(r) /\ Rooted(row, r) /\ Bounded(row, king, overlap, r)
      /\ Onward(r, q) /\ Later(r, q) /\ row' = row /\ t \in DOMAIN thread
      /\ king \in [Branch -> Commits \cup {None}]
      /\ \A d \in Domains : Behind(row, king, work, overlap, d)
    BY StepOn, StepLater, RowStays, Jobs DEF Base, TypeInv, TypeOK, Bounds
<1>2. ~Ends(t)
    BY <1>1 DEF Ends
<1>3. ASSUME NEW s \in q.set, s.name = "rollback", s.value # None
      PROVE  Tracking(row, s.branch) /\ Within(king', overlap, s.value, row[s.branch].tracked)
    <2>1. CASE s \in r.set
        <3>1. s \in Cell /\ Tracking(row, s.branch)
                /\ Within(king, overlap, s.value, row[s.branch].tracked)
            BY <2>1, <1>1, <1>3 DEF Bounded, Job
        <3> QED
            BY <3>1, CellsOn
    <2>2. CASE s \notin r.set
        <3>1. /\ r.at = "checkout" /\ r.op # "rollback" /\ s.branch = r.other
              /\ s.value = work[r.other]
            BY <2>2, <1>1, <1>3 DEF Later
        <3>2. Tracking(row, r.other) /\ r.other \in Domains
            BY <3>1, <1>1 DEF Rooted, Shape
        <3>3. Within(king, overlap, s.value, row[r.other].tracked)
            BY <3>1, <3>2, <1>1 DEF Behind
        <3> QED
            BY <3>1, <3>2, <3>3, WithinOn, Apart
    <2> QED
        BY <2>1, <2>2
<1>4. ASSUME q.op = "add", q.flag, q.at \in {"checkout1", "insert"}
      PROVE  king'[q.other] # None /\ Within(king', overlap, king'[q.branch], q.other)
    <2>1. /\ r.at \in {"branch", "checkout1"} /\ q.branch = r.branch /\ r.branch \in Branch
          /\ q.other = r.other /\ r.op = "add" /\ r.flag
        BY <1>1, <1>4 DEF Later, Onward, Job
    <2>2. r.other \in Branch /\ r.other # r.branch
        BY <2>1, <1>1 DEF Shape, Rooted
    <2>3. CASE AddBranch(t)
        <3>1. king[r.other] # None /\ king' = [king EXCEPT ![r.branch] = king[r.other]]
            BY <1>2, <2>3 DEF AddBranch
        <3> QED
            BY <3>1, <1>1, <2>1, <2>2 DEF Within
    <2>4. CASE AddClone(t)
        <3>1. king' = king /\ r.at = "checkout1"
            BY <2>4 DEF AddClone, At
        <3> QED
            BY <3>1, <1>1, <2>1 DEF Bounded
    <2>5. CASE AddCloneFails(t) \/ CommandFails(t)
        BY <2>1, <2>5, <1>2, Failing DEF AddCloneFails, Base
    <2> QED
        BY <2>1, <2>3, <2>4, <2>5, StepOf
<1>5. ASSUME q.op \in Deleting, q.at \in {"reference", "remove"}
      PROVE  Untracked(row, q.branch)
    <2>1. r.op \in Deleting /\ q.branch = r.branch /\ r.at \in {"delete", "reference"}
        BY <1>1, <1>5 DEF Onward, Later
    <2>2. CASE r.at = "delete"
        <3>1. DeleteDirectories(t)
            BY <2>2, StepOf, Failing DEF Base
        <3>2. Unused(r.branch)
            BY <3>1, <1>2 DEF DeleteDirectories
        <3> QED
            BY <2>1, <3>2 DEF Unused, Trackers, Untracked, There, Exists
    <2>3. CASE r.at = "reference"
        BY <2>1, <2>3, <1>1 DEF Bounded
    <2> QED
        BY <2>1, <2>2, <2>3
<1>6. q.at # "force"
    BY <1>1 DEF Later
<1> QED
    BY <1>1, <1>3, <1>4, <1>5, <1>6 DEF Bounded

LEMMA BoundedFrame ==
    ASSUME Base, Sures, Bounds, Live, NEW t \in Threads, Steps(t),
           NEW u \in Threads \ {t}, Runs(u)
    PROVE  Bounded(row', king', overlap, thread[u])
<1> DEFINE r == thread[u]
<1>1. /\ r \in Job /\ Shape(r) /\ Rooted(row, r) /\ Bounded(row, king, overlap, r)
      /\ Op(t) \notin Deleting /\ Op(u) \notin Deleting /\ Runs(t) /\ Shape(thread[t])
      /\ king \in [Branch -> Commits \cup {None}] /\ overlap # "no"
    BY StepOn, Jobs DEF Base, TypeInv, TypeOK, Bounds, Alone
<1>2. Holds(row, row')
    BY <1>1, RowSteps
<1>3. \A d \in Branch : Tracking(row, d) => Tracking(row', d) /\ row'[d].tracked = row[d].tracked
    BY <1>2 DEF Holds, Tracking, There
<1>4. ASSUME r.op = "rollback", r.at = "force"
      PROVE  Within(king', overlap, r.commit, row'[r.branch].tracked)
    <2>1. Tracking(row, r.branch) /\ r.branch \in Branch
        BY <1>1, <1>4 DEF Rooted, Job
    <2>2. Within(king, overlap, r.commit, row[r.branch].tracked)
        BY <1>1, <1>4 DEF Bounded
    <2> QED
        BY <1>3, <2>1, <2>2, WithinOn
<1>5. ASSUME NEW s \in r.set, s.name = "rollback", s.value # None
      PROVE  Tracking(row', s.branch) /\ Within(king', overlap, s.value, row'[s.branch].tracked)
    <2>1. s \in Cell /\ Tracking(row, s.branch)
            /\ Within(king, overlap, s.value, row[s.branch].tracked)
        BY <1>1, <1>5 DEF Bounded, Job
    <2> QED
        BY <2>1, <1>3, CellsOn
<1>6. ASSUME r.op = "add", r.flag, r.at \in {"checkout1", "insert"}
      PROVE  king'[r.other] # None /\ Within(king', overlap, king'[r.branch], r.other)
    <2>1. /\ ~There(row, r.branch) /\ r.branch \in Branch /\ r.other \in Branch
          /\ There(row, r.other) /\ row[r.other].tracked = None
          /\ king[r.other] # None /\ Within(king, overlap, king[r.branch], r.other)
        BY <1>1, <1>6 DEF Rooted, Shape, Job, Bounded
    <2>2. ~(Op(t) = "add" /\ thread[t].branch = r.branch)
        BY <1>1, <1>6 DEF Base, Adders, Op
    <2>3. king'[r.branch] = king[r.branch]
        BY <2>1, <2>2, Aside
    <2>4. CASE Op(t) = "publish" /\ thread[t].flag /\ thread[t].at = "push"
                /\ thread[t].branch = r.other
        <3>1. r.other \in Sandboxes /\ thread[t].commit # None
            BY <2>4, <1>1 DEF Shape, Op
        <3>2. king'[r.other] # None
            BY <2>1, <2>4, <3>1, <1>1, KingSteps DEF Base, Updates
        <3> QED
            BY <3>1, <3>2, <1>1 DEF Within, Counts
    <2>5. CASE ~(Op(t) = "publish" /\ thread[t].flag /\ thread[t].at = "push"
                /\ thread[t].branch = r.other)
        BY <2>1, <2>3, <2>5, <1>1, Grows DEF Within
    <2> QED
        BY <2>4, <2>5
<1> QED
    BY <1>1, <1>4, <1>5, <1>6 DEF Bounded, Op

LEMMA AskedBounded ==
    ASSUME NEW r, NEW o, Asked(r)
    PROVE  Bounded(row, king, o, r)
<1>1. r.at \notin {"checkout1", "insert", "reference", "remove"}
    BY DEF Asked
<1>2. r.op = "rollback" => r.commit \subseteq king[row[r.branch].tracked]
    BY DEF Asked
<1>3. \A s \in r.set : s.name = "rollback" => s.value = None
    BY DEF Asked
<1> QED
    BY <1>1, <1>2, <1>3 DEF Bounded, Within

LEMMA BoundsNext ==
    ASSUME Base, Sures, Own, Bounds, [Next]_vars
    PROVE  Bounds'
<1>1. CASE UNCHANGED vars
    BY <1>1 DEF Bounds, Live, Runs, vars, database, git, aux
<1>2. ASSUME NEW t \in Threads, Commands(t) PROVE Bounds'
    <2>1. /\ Asked(thread'[t])
          /\ Live' => Live
          /\ \A u \in Threads \ {t} : thread'[u] = thread[u]
          /\ overlap' = "no" => overlap = "no"
        BY <1>2, Begins DEF Base
    <2>2. row' = row /\ king' = king /\ work' = work
        BY <1>2, Begins DEF Base
    <2>3. \A x, m : Within(king, overlap, x, m) => Within(king, overlap', x, m)
        BY <2>1 DEF Within, Counts
    <2>4. CASE ~Live'
        BY <2>4 DEF Bounds
    <2>5. CASE Live'
        <3>1. \A d \in Domains : Behind(row, king, work, overlap, d)
            BY <2>1, <2>5 DEF Bounds
        <3>2. \A d \in Domains : Behind(row, king, work, overlap', d)
            BY <2>3, <3>1 DEF Behind
        <3>3. ASSUME NEW u \in Threads \ {t}, thread[u] # None
              PROVE  Bounded(row, king, overlap', thread[u])
            <4>1. Bounded(row, king, overlap, thread[u])
                BY <2>1, <2>5, <3>3 DEF Bounds, Runs
            <4> QED
                BY <2>3, <4>1 DEF Bounded
        <3>4. Bounded(row, king, overlap', thread'[t])
            BY <2>1, AskedBounded
        <3>5. ASSUME NEW u \in Threads, thread'[u] # None
              PROVE  Bounded(row, king, overlap', thread'[u])
            BY <2>1, <3>3, <3>4, <3>5
        <3> QED
            BY <2>2, <3>2, <3>5 DEF Bounds, Runs
    <2> QED
        BY <2>4, <2>5
<1>3. ASSUME NEW t \in Threads, Steps(t) PROVE Bounds'
    <2>1. /\ overlap' = overlap
          /\ \A u \in Threads \ {t} : thread'[u] = thread[u]
        BY <1>3, StepOn DEF Base
    <2>2. ASSUME Live PROVE \A d \in Domains : Behind(row', king', work', overlap, d)
        BY <1>3, <2>2, BehindSteps
    <2>3. ASSUME Live, NEW u \in Threads, thread'[u] # None
          PROVE  Bounded(row', king', overlap, thread'[u])
        BY <1>3, <2>1, <2>3, BoundedOn, BoundedFrame DEF Runs
    <2> QED
        BY <2>1, <2>2, <2>3 DEF Bounds, Live, Runs
<1> QED
    BY <1>1, <1>2, <1>3 DEF Next

LEMMA BoundsInit ==
    ASSUME Init
    PROVE  Bounds
<1>1. PICK tracks \in [Domains \ {Trunk} -> {None, Trunk} \cup Sandboxes],
           own \in [Branch \ {Trunk} -> {{}} \cup {{x} : x \in Changes}] :
        /\ \A d \in DOMAIN tracks : tracks[d] # None => own[d] = {}
        /\ row = [b \in Branch |->
                    NewRow(IF b \in DOMAIN tracks THEN tracks[b] ELSE None, {})]
        /\ king = [b \in Branch |-> IF b \in DOMAIN own THEN own[b] ELSE {}]
        /\ work = [d \in Domains |-> king[d]]
    BY DEF Init
<1>2. \A b \in Branch : king[b] \in Commits
    BY <1>1 DEF Commits
<1>3. ASSUME NEW d \in Domains, Tracking(row, d)
      PROVE  row[d].tracked \in Branch /\ king[d] = {} /\ row[d].rollback = None
    <2>1. row[d] = NewRow(IF d \in DOMAIN tracks THEN tracks[d] ELSE None, {})
        BY <1>1, Apart
    <2>2. row[d].tracked = (IF d \in DOMAIN tracks THEN tracks[d] ELSE None)
            /\ row[d].rollback = None
        BY <2>1 DEF NewRow
    <2> QED
        BY <1>1, <1>3, <2>2, Apart DEF Tracking
<1>4. ASSUME NEW d \in Domains PROVE Behind(row, king, work, overlap, d)
    <2> SUFFICES ASSUME Tracking(row, d)
                 PROVE  /\ king[row[d].tracked] # None
                        /\ king[d] = {} /\ work[d] = {} /\ row[d].rollback = None
        BY DEF Behind, Within
    <2>1. row[d].tracked \in Branch /\ king[d] = {} /\ row[d].rollback = None
        BY <1>3
    <2>2. work[d] = king[d]
        BY <1>1
    <2>3. king[row[d].tracked] # None
        BY <2>1, <1>2, Apart
    <2> QED
        BY <2>1, <2>2, <2>3
<1> QED
    BY <1>4 DEF Init, Bounds, Runs

(* A tracking domain never has, nor can be rolled back to, a change that    *)
(* its tracked branch has not (branch.py:352): neither has its checkout,    *)
(* which the next sync remembers, nor a command that is under way, and what *)
(* is tracked only grows, but for a sandbox that is rebased.                *)
THEOREM TrackersStayBehind == Spec => []TrackersBehind
<1> DEFINE IInv == Base /\ Sures /\ Own /\ Bounds
<1>1. Init => IInv
    BY BaseInit, OwnInit, BoundsInit DEF Init, Sures, Runs
<1>2. IInv /\ [Next]_vars => IInv'
    BY BaseNext, SuresNext, OwnNext, BoundsNext
<1>3. IInv => TrackersBehind
    BY DEF TrackersBehind, Bounds, Behind, Within, Counts, Tracking, Exists, Live
<1> QED
    BY <1>1, <1>2, <1>3, PTL DEF Spec

-----------------------------------------------------------------------------
(* Agreement: a row, its reference and its checkout come and go together,   *)
(* but for the command that is between the steps that change them.          *)

\* The command of record r is going to check d out, or is deleting it.
Awaits(r, d) ==
    /\ r # None
    /\ \/ r.at = "checkout" /\ r.op # "rollback" /\ r.other = d
       \/ r.at = "checkout" /\ r.op = "rollback" /\ r.branch = d
       \/ r.at \in {"target", "reference", "remove"} /\ r.branch = d

Awaited(h, d) == \E t \in Threads : Awaits(h[t], d)

Reached(h, steps, b) ==
    \E t \in Threads : h[t] # None /\ h[t].at \in steps /\ h[t].branch = b

Follows(w, k, c, h, d) == There(w, d) => c[d] = k[d] \/ Awaited(h, d)

Referred(w, k, h, b) ==
    /\ There(w, b) => k[b] # None \/ Reached(h, {"remove"}, b)
    /\ ~There(w, b) => k[b] = None \/ Reached(h, {"checkout1", "insert"}, b)

CheckedOut(w, c, h, d) ==
    /\ There(w, d) => c[d] # None \/ Reached(h, {"reference", "remove"}, d)
    /\ ~There(w, d) => c[d] = None \/ Reached(h, {"insert"}, d)

Removing(v, k, c, r) ==
    /\ r.at \in {"reference", "remove"} => v # r.branch
    /\ r.at = "remove" => /\ k[r.branch] = None
                          /\ r.branch \in Domains => c[r.branch] = None

Agree == (Live /\ faults = 0) =>
    /\ \A d \in Domains : Follows(row, king, work, thread, d)
    /\ \A b \in Branch : Referred(row, king, thread, b)
    /\ \A d \in Domains : CheckedOut(row, work, thread, d)
    /\ \A t \in Threads : Runs(t) => Removing(host, king, work, thread[t])

LEMMA Faultless ==
    ASSUME TypeInv, NEW t \in Threads, Steps(t), faults' = 0
    PROVE  faults = 0 /\ ~CommandFails(t)
<1>1. ~CommandFails(t)
    BY Failing DEF TypeInv, TypeOK
<1> QED
    BY <1>1 DEF Steps, SyncPush, SyncCheckout, PublishClone, DeployClone, PushOrigin,
       DeployTarget, RollbackForce, RollbackCheckout, AddBranch, AddClone, AddCloneFails,
       Insert, DeleteTrash, DeleteDirectories, DeleteReference, Remove, PublishReview, Commit,
       aux

\* What the other threads are at stays.
LEMMA OthersStay ==
    ASSUME TypeInv, NEW t \in Threads, Steps(t)
    PROVE  /\ \A u \in Threads \ {t} : \A d : Awaits(thread[u], d) => Awaited(thread', d)
           /\ \A u \in Threads \ {t} : \A steps, b :
                thread[u] # None /\ thread[u].at \in steps /\ thread[u].branch = b
                    => Reached(thread', steps, b)
           /\ \A d : Awaits(thread'[t], d) => Awaited(thread', d)
           /\ \A steps, b :
                thread'[t] # None /\ thread'[t].at \in steps /\ thread'[t].branch = b
                    => Reached(thread', steps, b)
<1>1. \A u \in Threads \ {t} : thread'[u] = thread[u]
    BY StepOn
<1> QED
    BY <1>1 DEF Awaited, Reached

\* A deletion that overlaps with nothing is the only command.
LEMMA Deleter ==
    ASSUME Base, Live, NEW t \in Threads, Runs(t), NEW u \in Threads, Runs(u),
           thread[u].at \in {"trash", "delete", "reference", "remove"}
    PROVE  u = t
<1>1. Op(u) \in Deleting
    BY DEF Base, TypeInv, Shape, Op
<1> QED
    BY <1>1 DEF Base, Alone

\* A branch that is there has its reference and its checkout while nothing deletes it.
LEMMA InPlace ==
    ASSUME Base, Live, Agree, faults = 0, NEW t \in Threads, Runs(t), Op(t) \notin Deleting,
           NEW b \in Branch, There(row, b)
    PROVE  king[b] # None /\ (b \in Domains => work[b] # None)
<1>1. ~Reached(thread, {"reference", "remove"}, b) /\ ~Reached(thread, {"remove"}, b)
    <2>1. \A u \in Threads : thread[u] # None => thread[u].at \notin {"reference", "remove"}
        <3>1. SUFFICES ASSUME NEW u \in Threads, Runs(u), thread[u].at \in {"reference", "remove"}
                       PROVE  FALSE
            BY DEF Runs
        <3>2. u = t
            BY <3>1, Deleter
        <3> QED
            BY <3>1, <3>2 DEF Base, TypeInv, Shape, Op
    <2> QED
        BY <2>1 DEF Reached
<1>2. Referred(row, king, thread, b) /\ (b \in Domains => CheckedOut(row, work, thread, b))
    BY DEF Agree
<1> QED
    BY <1>1, <1>2 DEF Referred, CheckedOut

\* What is being deleted is still unused.
LEMMA StillUnused ==
    ASSUME Base, Live, Bounds, Agree, faults = 0, NEW t \in Threads, Runs(t),
           thread[t].at \in {"reference", "remove"}
    PROVE  Unused(thread[t].branch)
<1>1. Untracked(row, thread[t].branch) /\ host # thread[t].branch
    BY DEF Agree, Removing, Bounds, Bounded, Base, TypeInv, Shape
<1> QED
    BY <1>1 DEF Unused, Trackers, Untracked, There, Exists

LEMMA FollowsSteps ==
    ASSUME Base, Own, Bounds, Agree, Live, NEW t \in Threads, Steps(t), faults' = 0,
           NEW d \in Domains
    PROVE  Follows(row', king', work', thread', d)
<1> DEFINE r == thread[t]
<1>1. /\ Runs(t) /\ r \in Job /\ Shape(r) /\ Rooted(row, r) /\ Brought(row, king, work, r)
      /\ faults = 0 /\ ~CommandFails(t) /\ t \in DOMAIN thread
      /\ king \in [Branch -> Commits \cup {None}] /\ work \in [Domains -> Commits \cup {None}]
    BY StepOn, Jobs, Faultless DEF Base, TypeInv, TypeOK, Own
<1>2. SUFFICES ASSUME There(row', d), \A u \in Threads \ {t} : ~Awaits(thread[u], d)
               PROVE  work'[d] = king'[d] \/ Awaits(thread'[t], d)
    BY OthersStay DEF Follows, Base
<1>3. d \in Branch
    BY Apart
<1>g. ASSUME NEW q, GoTo(t, q) PROVE thread'[t] = q
    BY <1>1, <1>g DEF GoTo
<1>4. CASE ~There(row, d)
    <2>1. r.at = "insert" /\ d = r.branch
        BY <1>2, <1>3, <1>4, RowSteps
    <2>2. Insert(t)
        BY <2>1, <1>1, StepOf
    <2>3. king' = king /\ work' = work
        BY <2>2 DEF Insert, git
    <2> QED
        BY <2>1, <2>3, <1>1 DEF Brought
<1>5. CASE There(row, d)
    <2>1. work[d] = king[d] \/ Awaits(r, d)
        BY <1>1, <1>2, <1>5 DEF Agree, Follows, Awaited
    <2>2. ASSUME r.at \notin {"checkout", "target", "reference", "remove"}
          PROVE  work[d] = king[d]
        BY <2>1, <2>2 DEF Awaits
    <2>3. ASSUME NEW e \in Domains, There(row, e), Op(t) \notin Deleting,
                 king' = king, work' = [work EXCEPT ![e] = king[e]], Awaits(r, d) => d = e
          PROVE  work'[d] = king'[d]
        BY <2>3, <2>1, <1>1
    <2>4. ASSUME NEW e \in Domains, SyncPush(t, e)
          PROVE  work'[d] = king'[d] \/ Awaits(thread'[t], d)
        <3>1. work[d] = king[d] /\ work' = work
            BY <2>2, <2>4 DEF SyncPush, At
        <3>2. CASE king' = king
            BY <3>1, <3>2
        <3>3. CASE king' # king
            <4>1. PICK c : king' = [king EXCEPT ![e] = c]
                           /\ GoTo(t, [r EXCEPT !.at = "checkout", !.other = e])
                BY <2>4, <3>3 DEF SyncPush
            <4>2. CASE d # e
                BY <3>1, <4>1, <4>2, <1>1, <1>3
            <4>3. CASE d = e
                <5>1. thread'[t] = [r EXCEPT !.at = "checkout", !.other = d]
                    BY <4>1, <4>3, <1>g
                <5>2. r.op # "rollback" /\ r.at = "sync"
                    BY <1>1, <2>4 DEF Shape, SyncPush, At
                <5>3. thread'[t] # None /\ thread'[t].at = "checkout" /\ thread'[t].other = d
                        /\ thread'[t].op # "rollback"
                    <6>1. [r EXCEPT !.at = "checkout", !.other = d] \in Job
                        BY <1>1, <1>3 DEF Job
                    <6>2. thread'[t] # None
                        BY <5>1, <4>3, <6>1, Apart
                    <6>3. /\ thread'[t].at = "checkout" /\ thread'[t].other = d
                          /\ thread'[t].op = r.op
                        BY <5>1, <1>1 DEF Job
                    <6> QED
                        BY <5>2, <6>2, <6>3
                <5> QED
                    BY <5>3 DEF Awaits
            <4> QED
                BY <4>2, <4>3
        <3> QED
            BY <3>2, <3>3
    <2>5. CASE SyncCheckout(t)
        <3>1. /\ r.at = "checkout" /\ r.op # "rollback" /\ r.other \in Domains
              /\ There(row, r.other) /\ r.op \notin Deleting /\ king' = king
            BY <2>5, <1>1 DEF SyncCheckout, At, Op, Shape, Rooted, Tracking, There, Deleting
        <3>2. king[r.other] # None /\ work[r.other] # None
            BY <3>1, <1>1, InPlace, Apart DEF Op
        <3>3. work' = [work EXCEPT ![r.other] = king[r.other]]
            BY <2>5, <3>2 DEF SyncCheckout
        <3> QED
            BY <3>1, <3>3, <2>3 DEF Awaits, Op
    <2>6. CASE RollbackCheckout(t)
        <3>1. /\ r.at = "checkout" /\ r.op = "rollback" /\ r.branch \in Domains
              /\ There(row, r.branch) /\ r.op \notin Deleting /\ king' = king
            BY <2>6, <1>1 DEF RollbackCheckout, At, Op, Shape, Rooted, Tracking, There, Deleting
        <3>2. king[r.branch] # None /\ work[r.branch] # None
            BY <3>1, <1>1, InPlace, Apart DEF Op
        <3>3. work' = [work EXCEPT ![r.branch] = king[r.branch]]
            BY <2>6, <3>2 DEF RollbackCheckout
        <3> QED
            BY <3>1, <3>3, <2>3 DEF Awaits, Op
    <2>7. CASE DeployTarget(t)
        <3>1. /\ r.at = "target" /\ r.branch \in Domains
              /\ There(row, r.branch) /\ r.op \notin Deleting /\ king' = king
            BY <2>7, <1>1 DEF DeployTarget, At, Shape, Rooted, Deleting
        <3>2. king[r.branch] # None /\ work[r.branch] # None
            BY <3>1, <1>1, InPlace, Apart DEF Op
        <3>3. work' = [work EXCEPT ![r.branch] = king[r.branch]]
            BY <2>7, <3>2 DEF DeployTarget
        <3> QED
            BY <3>1, <3>3, <2>3 DEF Awaits, Op
    <2>8. CASE PushOrigin(t)
        <3>1. work[d] = king[d] /\ work' = work /\ r.at = "push"
            BY <2>2, <2>8 DEF PushOrigin, At
        <3>2. CASE d # r.branch \/ king' = king
            <4>1. king'[d] = king[d]
                BY <2>8, <3>2, <1>1, <1>3 DEF PushOrigin
            <4> QED
                BY <3>1, <4>1
        <3>3. CASE d = r.branch /\ king' # king
            <4>1. r.op = "deploy"
                BY <3>1, <3>3, <1>1, Apart DEF Shape
            <4>2. thread'[t] = [r EXCEPT !.at = "target"]
                BY <2>8, <3>3, <4>1, <1>g DEF PushOrigin
            <4>3. [r EXCEPT !.at = "target"] \in Job
                BY <1>1 DEF Job
            <4> QED
                BY <3>3, <4>2, <4>3, <1>1, Apart DEF Awaits, Job
        <3> QED
            BY <3>2, <3>3
    <2>9. CASE RollbackForce(t)
        <3>1. /\ work[d] = king[d] /\ work' = work /\ r.at = "force"
              /\ king' = [king EXCEPT ![r.branch] = r.commit]
              /\ thread'[t] = [r EXCEPT !.at = "checkout"]
            BY <2>2, <2>9, <1>g DEF RollbackForce, At
        <3>2. r.op = "rollback"
            BY <3>1, <1>1 DEF Shape
        <3>3. [r EXCEPT !.at = "checkout"] \in Job
            BY <1>1 DEF Job
        <3>4. Awaits(thread'[t], r.branch)
            BY <3>1, <3>2, <3>3, <1>1, Apart DEF Awaits, Job
        <3> QED
            BY <3>1, <3>4, <1>1, <1>3
    <2>10. CASE r.at \in {"branch", "checkout1"}
        <3>1. work[d] = king[d]
            BY <2>2, <2>10
        <3>2. r.branch # d
            BY <2>10, <1>1, <1>5 DEF Shape, Rooted
        <3>3. AddBranch(t) \/ AddClone(t) \/ AddCloneFails(t)
            BY <2>10, <1>1, StepOf
        <3>4. king'[d] = king[d]
            BY <3>2, <3>3, <1>1, <1>3 DEF AddBranch, AddClone, AddCloneFails
        <3>5. work'[d] = work[d]
            BY <3>2, <3>3, <1>1 DEF AddBranch, AddClone, AddCloneFails
        <3> QED
            BY <3>1, <3>4, <3>5
    <2>11. CASE DeleteDirectories(t)
        <3>1. /\ work[d] = king[d] /\ king' = king
              /\ \/ work' = work
                 \/ /\ work' = [x \in Domains |-> IF x = r.branch THEN None ELSE work[x]]
                    /\ thread'[t] = [r EXCEPT !.at = "reference"]
            BY <2>2, <2>11, <1>g DEF DeleteDirectories, At
        <3>2. [r EXCEPT !.at = "reference"] \in Job
            BY <1>1 DEF Job
        <3> QED
            BY <3>1, <3>2, <1>1, Apart DEF Awaits, Job
    <2>12. CASE DeleteReference(t)
        <3>1. /\ work[d] = king[d] \/ d = r.branch
              /\ work' = work /\ king' = [king EXCEPT ![r.branch] = None]
              /\ thread'[t] = [r EXCEPT !.at = "remove"]
            BY <2>1, <2>12, <1>g DEF DeleteReference, At, Awaits
        <3>2. [r EXCEPT !.at = "remove"] \in Job
            BY <1>1 DEF Job
        <3> QED
            BY <3>1, <3>2, <1>1, <1>3, Apart DEF Awaits, Job
    <2>13. CASE Remove(t)
        <3>1. /\ work[d] = king[d] \/ d = r.branch
              /\ work' = work /\ king' = king /\ r.at = "remove"
            BY <2>1, <2>13 DEF Remove, At, Awaits, git
        <3>4. Unused(r.branch)
            BY <3>1, <1>1, StillUnused
        <3>5. row' = [row EXCEPT ![r.branch] = None]
            BY <2>13, <3>4 DEF Remove
        <3>2. row \in [Branch -> Row \cup {None}]
            BY DEF Base, TypeInv, TypeOK
        <3>3. d # r.branch
            BY <3>5, <3>2, <1>2, <1>3 DEF There
        <3> QED
            BY <3>1, <3>3
    <2>14. CASE r.at \in {"clone", "insert", "trash", "review", "commit"}
        <3>1. king' = king /\ work' = work
            BY <2>14, <1>1, StepOf DEF PublishClone, DeployClone, Insert, DeleteTrash,
               PublishReview, Commit, git
        <3> QED
            BY <3>1, <2>2, <2>14
    <2> QED
        BY <2>4, <2>5, <2>6, <2>7, <2>8, <2>9, <2>10, <2>11, <2>12, <2>13, <2>14, <1>1, StepOf
<1> QED
    BY <1>4, <1>5

LEMMA Inserted ==
    ASSUME TypeInv, NEW t \in Threads, Steps(t), Insert(t)
    PROVE  There(row', thread[t].branch)
<1> DEFINE r == thread[t]
<1>1. /\ r \in Job /\ Shape(r) /\ r.op = "add" /\ r.branch \in Branch
      /\ row \in [Branch -> Row \cup {None}]
    BY StepOn, Jobs DEF TypeInv, TypeOK, Insert, At, Shape, Job
<1>2. row'[r.branch] = NewRow(IF r.flag THEN r.other ELSE None,
                              IF r.commit = None THEN {} ELSE r.commit)
    BY <1>1 DEF Insert
<1>3. r.commit \in Commits \cup {None} /\ r.other \in Branch
    BY <1>1 DEF Job, Shape
<1>4. row'[r.branch] \in Row
    BY <1>2, <1>3 DEF NewRow, Row, Commits
<1> QED
    BY <1>4, Apart DEF There

LEMMA ReferredSteps ==
    ASSUME Base, Own, Bounds, Agree, Live, NEW t \in Threads, Steps(t), faults' = 0,
           NEW b \in Branch
    PROVE  Referred(row', king', thread', b)
<1> DEFINE r == thread[t]
<1>1. /\ Runs(t) /\ r \in Job /\ Shape(r) /\ Rooted(row, r) /\ Brought(row, king, work, r)
      /\ faults = 0 /\ ~CommandFails(t) /\ t \in DOMAIN thread
      /\ Referred(row, king, thread, b) /\ Removing(host, king, work, r)
      /\ row \in [Branch -> Row \cup {None}] /\ king \in [Branch -> Commits \cup {None}]
    BY StepOn, Jobs, Faultless DEF Base, TypeInv, TypeOK, Own, Agree
<1>g. ASSUME NEW q, GoTo(t, q) PROVE thread'[t] = q
    BY <1>1, <1>g DEF GoTo
<1>2. ASSUME There(row', b), ~There(row, b)
      PROVE  king'[b] # None
    <2>1. r.at = "insert" /\ b = r.branch
        BY <1>2, RowSteps
    <2>2. Insert(t)
        BY <2>1, <1>1, StepOf
    <2>3. king' = king
        BY <2>2 DEF Insert, git
    <2> QED
        BY <2>1, <2>3, <1>1 DEF Brought
<1>3. ASSUME There(row', b), There(row, b), king'[b] = None
      PROVE  Reached(thread', {"remove"}, b)
    <2>1. CASE king[b] = None
        <3>1. PICK u \in Threads : /\ thread[u] # None /\ thread[u].at = "remove"
                                   /\ thread[u].branch = b
            BY <2>1, <1>1, <1>3 DEF Referred, Reached
        <3>2. u = t
            BY <3>1, <1>1, Deleter DEF Runs
        <3>3. Remove(t) /\ Unused(b)
            BY <3>1, <3>2, <1>1, StepOf, StillUnused
        <3>4. row'[b] = None
            BY <3>1, <3>2, <3>3, <1>1 DEF Remove
        <3> QED
            BY <3>4, <1>3 DEF There
    <2>2. CASE king[b] # None
        <3>1. king' # king
            BY <2>2, <1>3
        <3>2. ASSUME NEW e, NEW c, Updates(t, e, c) PROVE b = e /\ c = None
            BY <3>2, <2>2, <1>1, <1>3 DEF Updates
        <3>3. r.at \in {"checkout1", "reference"} /\ r.branch = b
            BY <3>1, <3>2, <1>1, KingSteps DEF Base, Shape
        <3>4. r.at = "reference"
            BY <3>3, <1>1, <1>3 DEF Shape, Rooted
        <3>5. thread'[t] = [r EXCEPT !.at = "remove"]
            BY <3>4, <1>1, StepOf, <1>g DEF DeleteReference
        <3>6. [r EXCEPT !.at = "remove"] \in Job
            BY <1>1 DEF Job
        <3>7. thread'[t] # None /\ thread'[t].at = "remove" /\ thread'[t].branch = b
            BY <3>3, <3>5, <3>6, <1>1, Apart DEF Job
        <3> QED
            BY <3>7, OthersStay DEF Base
    <2> QED
        BY <2>1, <2>2
<1>4. ASSUME ~There(row', b), There(row, b)
      PROVE  king'[b] = None
    <2>1. r.at = "remove" /\ r.branch = b
        BY <1>4, <1>1, RowSteps DEF Holds, There
    <2>2. Remove(t)
        BY <2>1, <1>1, StepOf
    <2>3. king' = king
        BY <2>2 DEF Remove, git
    <2> QED
        BY <2>1, <2>3, <1>1 DEF Removing
<1>5. ASSUME ~There(row', b), ~There(row, b), king'[b] # None
      PROVE  Reached(thread', {"checkout1", "insert"}, b)
    <2>1. CASE ~(Op(t) = "add" /\ r.branch = b)
        <3>1. king[b] # None
            BY <2>1, <1>5, Aside
        <3>2. PICK u \in Threads : /\ thread[u] # None /\ thread[u].at \in {"checkout1", "insert"}
                                   /\ thread[u].branch = b
            BY <3>1, <1>1, <1>5 DEF Referred, Reached
        <3>3. Op(u) = "add"
            BY <3>2 DEF Base, TypeInv, Shape, Op, Runs
        <3>4. u # t
            BY <2>1, <3>2, <3>3
        <3> QED
            BY <3>2, <3>4, OthersStay DEF Base
    <2>2. CASE Op(t) = "add" /\ r.branch = b
        <3>1. r.at \in {"branch", "checkout1", "insert"}
            BY <2>2, <1>1 DEF Shape, Op
        <3>2. CASE r.at = "branch"
            <4>1. king[b] = None
                <5>1. SUFFICES ASSUME king[b] # None PROVE FALSE
                    OBVIOUS
                <5>2. PICK u \in Threads :
                            /\ thread[u] # None /\ thread[u].at \in {"checkout1", "insert"}
                            /\ thread[u].branch = b
                    BY <5>1, <1>1, <1>5 DEF Referred, Reached
                <5>3. Op(u) = "add"
                    BY <5>2 DEF Base, TypeInv, Shape, Op, Runs
                <5>4. u = t
                    BY <5>2, <5>3, <2>2, <1>1 DEF Base, Adders, Runs
                <5> QED
                    BY <5>2, <5>4, <3>2
            <4>2. AddBranch(t)
                BY <3>2, <1>1, StepOf
            <4>3. king' # king
                BY <4>1, <1>5
            <4>4. GoTo(t, [r EXCEPT !.at = IF r.branch \in Domains THEN "checkout1" ELSE "insert"])
                BY <4>2, <4>3 DEF AddBranch
            <4>5. PICK a \in {"checkout1", "insert"} : thread'[t] = [r EXCEPT !.at = a]
                BY <4>4, <1>g
            <4>6. [r EXCEPT !.at = a] \in Job
                BY <1>1 DEF Job
            <4>7. thread'[t] # None /\ thread'[t].at = a /\ thread'[t].branch = b
                BY <4>5, <4>6, <2>2, <1>1, Apart DEF Job
            <4> QED
                BY <4>7, OthersStay DEF Base
        <3>3. CASE r.at = "checkout1"
            <4>1. AddClone(t) \/ AddCloneFails(t)
                BY <3>3, <1>1, StepOf
            <4>2. ~AddCloneFails(t)
                BY <2>2, <1>1, <1>5 DEF AddCloneFails
            <4>3. thread'[t] = [r EXCEPT !.at = "insert"]
                BY <4>1, <4>2, <1>g DEF AddClone
            <4>4. [r EXCEPT !.at = "insert"] \in Job
                BY <1>1 DEF Job
            <4>5. thread'[t] # None /\ thread'[t].at = "insert" /\ thread'[t].branch = b
                BY <4>3, <4>4, <2>2, <1>1, Apart DEF Job
            <4> QED
                BY <4>5, OthersStay DEF Base
        <3>4. CASE r.at = "insert"
            <4>1. Insert(t)
                BY <3>4, <1>1, StepOf
            <4> QED
                BY <4>1, <2>2, <1>5, Inserted DEF Base
        <3> QED
            BY <3>1, <3>2, <3>3, <3>4
    <2> QED
        BY <2>1, <2>2
<1> QED
    BY <1>2, <1>3, <1>4, <1>5 DEF Referred

LEMMA CheckedOutSteps ==
    ASSUME Base, Own, Bounds, Agree, Live, NEW t \in Threads, Steps(t), faults' = 0,
           NEW d \in Domains
    PROVE  CheckedOut(row', work', thread', d)
<1> DEFINE r == thread[t]
<1>1. /\ Runs(t) /\ r \in Job /\ Shape(r) /\ Rooted(row, r) /\ Brought(row, king, work, r)
      /\ faults = 0 /\ ~CommandFails(t) /\ t \in DOMAIN thread /\ d \in Branch
      /\ CheckedOut(row, work, thread, d) /\ Removing(host, king, work, r)
      /\ row \in [Branch -> Row \cup {None}] /\ work \in [Domains -> Commits \cup {None}]
    BY StepOn, Jobs, Faultless, Apart DEF Base, TypeInv, TypeOK, Own, Agree
<1>g. ASSUME NEW q, GoTo(t, q) PROVE thread'[t] = q
    BY <1>1, <1>g DEF GoTo
<1>2. ASSUME There(row', d), ~There(row, d)
      PROVE  work'[d] # None
    <2>1. r.at = "insert" /\ d = r.branch
        BY <1>1, <1>2, RowSteps
    <2>2. Insert(t)
        BY <2>1, <1>1, StepOf
    <2>3. work' = work
        BY <2>2 DEF Insert, git
    <2> QED
        BY <2>1, <2>3, <1>1 DEF Brought
<1>3. ASSUME There(row', d), There(row, d), work'[d] = None
      PROVE  Reached(thread', {"reference", "remove"}, d)
    <2>1. CASE work[d] = None
        <3>1. PICK u \in Threads : /\ thread[u] # None /\ thread[u].at \in {"reference", "remove"}
                                   /\ thread[u].branch = d
            BY <2>1, <1>1, <1>3 DEF CheckedOut, Reached
        <3>2. u = t
            BY <3>1, <1>1, Deleter DEF Runs
        <3>3. CASE r.at = "remove"
            <4>1. Remove(t) /\ Unused(d)
                BY <3>1, <3>2, <3>3, <1>1, StepOf, StillUnused
            <4>2. row'[d] = None
                BY <3>1, <3>2, <4>1, <1>1 DEF Remove
            <4> QED
                BY <4>2, <1>3 DEF There
        <3>4. CASE r.at = "reference"
            <4>1. thread'[t] = [r EXCEPT !.at = "remove"]
                BY <3>4, <1>1, StepOf, <1>g DEF DeleteReference
            <4>2. [r EXCEPT !.at = "remove"] \in Job
                BY <1>1 DEF Job
            <4>3. thread'[t] # None /\ thread'[t].at = "remove" /\ thread'[t].branch = d
                BY <3>1, <3>2, <4>1, <4>2, <1>1, Apart DEF Job
            <4> QED
                BY <4>3, OthersStay DEF Base
        <3> QED
            BY <3>1, <3>2, <3>3, <3>4
    <2>2. CASE work[d] # None
        <3>1. /\ r.at = "delete"
              /\ work' = [x \in Domains |-> IF x = r.branch THEN None ELSE work[x]]
            <4>1. work' # work
                BY <2>2, <1>3
            <4>2. ASSUME NEW e \in Domains, king[e] # None, work' = [work EXCEPT ![e] = king[e]]
                  PROVE  FALSE
                BY <4>2, <2>2, <1>1, <1>3
            <4> QED
                BY <4>1, <4>2, WorkSteps DEF Base
        <3>2. d = r.branch
            BY <3>1, <2>2, <1>3
        <3>3. DeleteDirectories(t)
            BY <3>1, <1>1, StepOf
        <3>4. thread'[t] = [r EXCEPT !.at = "reference"]
            BY <3>2, <3>3, <2>2, <1>3, <1>g DEF DeleteDirectories
        <3>5. [r EXCEPT !.at = "reference"] \in Job
            BY <1>1 DEF Job
        <3>6. thread'[t] # None /\ thread'[t].at = "reference" /\ thread'[t].branch = d
            BY <3>2, <3>4, <3>5, <1>1, Apart DEF Job
        <3> QED
            BY <3>6, OthersStay DEF Base
    <2> QED
        BY <2>1, <2>2
<1>4. ASSUME ~There(row', d), There(row, d)
      PROVE  work'[d] = None
    <2>1. r.at = "remove" /\ r.branch = d
        BY <1>4, <1>1, RowSteps DEF Holds, There
    <2>2. Remove(t)
        BY <2>1, <1>1, StepOf
    <2>3. work' = work
        BY <2>2 DEF Remove, git
    <2> QED
        BY <2>1, <2>3, <1>1 DEF Removing
<1>5. ASSUME ~There(row', d), ~There(row, d), work'[d] # None
      PROVE  Reached(thread', {"insert"}, d)
    <2>0. ASSUME work[d] # None
          PROVE  \E u \in Threads : /\ thread[u] # None /\ thread[u].at = "insert"
                                    /\ thread[u].branch = d /\ Op(u) = "add"
        <3>1. PICK u \in Threads : /\ thread[u] # None /\ thread[u].at = "insert"
                                   /\ thread[u].branch = d
            BY <2>0, <1>1, <1>5 DEF CheckedOut, Reached
        <3>2. Op(u) = "add"
            BY <3>1 DEF Base, TypeInv, Shape, Op, Runs
        <3> QED
            BY <3>1, <3>2
    <2>1. CASE ~(Op(t) = "add" /\ r.branch = d)
        <3>1. work[d] # None
            BY <2>1, <1>1, <1>5, Aside
        <3>2. PICK u \in Threads : /\ thread[u] # None /\ thread[u].at = "insert"
                                   /\ thread[u].branch = d /\ Op(u) = "add"
            BY <3>1, <2>0
        <3>3. u # t
            BY <2>1, <3>2
        <3> QED
            BY <3>2, <3>3, OthersStay DEF Base
    <2>2. CASE Op(t) = "add" /\ r.branch = d
        <3>1. r.at \in {"branch", "checkout1", "insert"}
            BY <2>2, <1>1 DEF Shape, Op
        <3>2. ~Insert(t)
            BY <2>2, <1>5, Inserted DEF Base
        <3>3. r.at # "insert"
            BY <3>2, <1>1, StepOf
        <3>4. work[d] = None
            <4>1. SUFFICES ASSUME work[d] # None PROVE FALSE
                OBVIOUS
            <4>2. PICK u \in Threads : /\ thread[u] # None /\ thread[u].at = "insert"
                                       /\ thread[u].branch = d /\ Op(u) = "add"
                BY <4>1, <2>0
            <4>3. u = t
                BY <4>2, <2>2, <1>1 DEF Base, Adders, Runs
            <4> QED
                BY <4>2, <4>3, <3>3
        <3>5. AddClone(t)
            <4>1. AddBranch(t) \/ AddClone(t) \/ AddCloneFails(t)
                BY <3>1, <3>3, <1>1, StepOf
            <4>2. work' # work
                BY <3>4, <1>5
            <4> QED
                BY <4>1, <4>2 DEF AddBranch, AddCloneFails
        <3>6. thread'[t] = [r EXCEPT !.at = "insert"]
            BY <3>5, <1>g DEF AddClone
        <3>7. [r EXCEPT !.at = "insert"] \in Job
            BY <1>1 DEF Job
        <3>8. thread'[t] # None /\ thread'[t].at = "insert" /\ thread'[t].branch = d
            BY <3>6, <3>7, <2>2, <1>1, Apart DEF Job
        <3> QED
            BY <3>8, OthersStay DEF Base
    <2> QED
        BY <2>1, <2>2
<1> QED
    BY <1>2, <1>3, <1>4, <1>5 DEF CheckedOut

LEMMA RemovingSteps ==
    ASSUME Base, Own, Agree, Live, NEW t \in Threads, Steps(t), faults' = 0,
           NEW u \in Threads, thread'[u] # None
    PROVE  Removing(host', king', work', thread'[u])
<1> DEFINE r == thread[t]
           q == thread'[t]
<1>1. /\ Runs(t) /\ r \in Job /\ Shape(r) /\ Brought(row, king, work, r)
      /\ faults = 0 /\ ~CommandFails(t) /\ t \in DOMAIN thread
      /\ Removing(host, king, work, r)
      /\ king \in [Branch -> Commits \cup {None}] /\ work \in [Domains -> Commits \cup {None}]
      /\ \A v \in Threads \ {t} : thread'[v] = thread[v]
    BY StepOn, Jobs, Faultless DEF Base, TypeInv, TypeOK, Own, Agree
<1>2. SUFFICES ASSUME thread'[u].at \in {"reference", "remove"}
               PROVE  /\ host' # thread'[u].branch
                      /\ thread'[u].at = "remove" =>
                            /\ king'[thread'[u].branch] = None
                            /\ thread'[u].branch \in Domains => work'[thread'[u].branch] = None
    BY DEF Removing
<1>3. u = t
    BY <1>1, <1>2, Deleter DEF Runs
<1>4. /\ q.branch = r.branch /\ r.branch \in Branch
      /\ q.at = "reference" => r.at = "delete"
      /\ q.at = "remove" => r.at = "reference"
    BY <1>1, <1>3, StepOn, StepLater DEF Base, Onward, Later, Job
<1>5. ~Ends(t)
    BY <1>1, <1>3 DEF Ends
<1>6. CASE q.at = "reference"
    <2>1. DeleteDirectories(t)
        BY <1>4, <1>6, <1>1, StepOf
    <2>2. host' = host /\ Unused(r.branch)
        BY <2>1, <1>5 DEF DeleteDirectories, database
    <2> QED
        BY <2>2, <1>3, <1>4, <1>6 DEF Unused
<1>7. CASE q.at = "remove"
    <2>1. DeleteReference(t) /\ r.at = "reference"
        BY <1>4, <1>7, <1>1, StepOf
    <2>2. host' = host /\ work' = work /\ king'[r.branch] = None
        BY <2>1, <1>1, <1>4 DEF DeleteReference, database
    <2>3. host # r.branch
        BY <2>1, <1>1 DEF Removing
    <2>4. r.branch \in Domains => work[r.branch] = None
        <3>1. r.op \in {"del_domain", "del_sandbox"}
            BY <2>1, <1>1 DEF Shape, Deleting
        <3>2. r.branch \in Domains => r.op = "del_domain"
            BY <3>1, <1>1, Apart DEF Shape
        <3> QED
            BY <3>2, <2>1, <1>1 DEF Brought
    <2> QED
        BY <2>2, <2>3, <2>4, <1>3, <1>4
<1> QED
    BY <1>2, <1>3, <1>6, <1>7

LEMMA AgreeNext ==
    ASSUME Base, Own, Bounds, Agree, [Next]_vars
    PROVE  Agree'
<1>1. CASE UNCHANGED vars
    BY <1>1 DEF Agree, Live, Runs, vars, database, git, aux
<1>2. ASSUME NEW t \in Threads, Commands(t) PROVE Agree'
    <2>1. /\ Asked(thread'[t])
          /\ thread[t] = None
          /\ Live' => Live
          /\ \A u \in Threads \ {t} : thread'[u] = thread[u]
        BY <1>2, Begins DEF Base
    <2>2. row' = row /\ king' = king /\ work' = work /\ host' = host /\ faults' = faults
        BY <1>2, Begins DEF Base
    <2>3. \A u \in Threads : thread[u] # None => u # t /\ thread'[u] = thread[u]
        BY <2>1
    <2>4. \A d : Awaited(thread, d) => Awaited(thread', d)
        BY <2>3 DEF Awaited, Awaits
    <2>5. \A steps, b : Reached(thread, steps, b) => Reached(thread', steps, b)
        BY <2>3 DEF Reached
    <2>6. Removing(host, king, work, thread'[t])
        BY <2>1 DEF Asked, Removing
    <2>7. CASE ~(Live' /\ faults' = 0)
        BY <2>7 DEF Agree
    <2>8. CASE Live' /\ faults' = 0
        <3>1. /\ \A d \in Domains : Follows(row, king, work, thread, d)
              /\ \A b \in Branch : Referred(row, king, thread, b)
              /\ \A d \in Domains : CheckedOut(row, work, thread, d)
              /\ \A u \in Threads : Runs(u) => Removing(host, king, work, thread[u])
            BY <2>1, <2>2, <2>8 DEF Agree
        <3>2. \A d \in Domains : Follows(row, king, work, thread', d)
            BY <2>4, <3>1 DEF Follows
        <3>3. \A b \in Branch : Referred(row, king, thread', b)
            BY <2>5, <3>1 DEF Referred
        <3>4. \A d \in Domains : CheckedOut(row, work, thread', d)
            BY <2>5, <3>1 DEF CheckedOut
        <3>5. \A u \in Threads : thread'[u] # None => Removing(host, king, work, thread'[u])
            BY <2>1, <2>6, <3>1 DEF Runs
        <3> QED
            BY <2>2, <3>2, <3>3, <3>4, <3>5 DEF Agree, Runs
    <2> QED
        BY <2>7, <2>8
<1>3. ASSUME NEW t \in Threads, Steps(t) PROVE Agree'
    <2>1. CASE ~(Live' /\ faults' = 0)
        BY <2>1 DEF Agree
    <2>2. CASE Live' /\ faults' = 0
        <3>1. Live
            BY <1>3, <2>2, StepOn DEF Base, Live
        <3> QED
            BY <1>3, <2>2, <3>1, FollowsSteps, ReferredSteps, CheckedOutSteps, RemovingSteps
            DEF Agree, Runs
    <2> QED
        BY <2>1, <2>2
<1> QED
    BY <1>1, <1>2, <1>3 DEF Next

LEMMA AgreeInit ==
    ASSUME Init
    PROVE  Agree
<1>1. PICK tracks \in [Domains \ {Trunk} -> {None, Trunk} \cup Sandboxes],
           own \in [Branch \ {Trunk} -> {{}} \cup {{x} : x \in Changes}] :
        /\ row = [b \in Branch |->
                    NewRow(IF b \in DOMAIN tracks THEN tracks[b] ELSE None, {})]
        /\ king = [b \in Branch |-> IF b \in DOMAIN own THEN own[b] ELSE {}]
        /\ work = [d \in Domains |-> king[d]]
    BY DEF Init
<1>2. \A b \in Branch : king[b] \in Commits
    BY <1>1 DEF Commits
<1>3. /\ \A b \in Branch : king[b] # None
      /\ \A d \in Domains : work[d] # None /\ work[d] = king[d]
    BY <1>1, <1>2, Apart
<1>4. \A b \in Branch : There(row, b)
    <2>1. \A b \in Branch : NewRow(IF b \in DOMAIN tracks THEN tracks[b] ELSE None, {}) \in Row
        BY Apart DEF NewRow, Row, Commits
    <2> QED
        BY <1>1, <2>1, Apart DEF NewRow, There
<1>5. \A b \in Branch : Referred(row, king, thread, b)
    BY <1>3, <1>4 DEF Referred
<1>6. \A d \in Domains : Follows(row, king, work, thread, d) /\ CheckedOut(row, work, thread, d)
    BY <1>3, <1>4, Apart DEF Follows, CheckedOut
<1>7. \A t \in Threads : ~Runs(t)
    BY DEF Init, Runs
<1> QED
    BY <1>5, <1>6, <1>7 DEF Agree

(* When no command runs, database, template-king and checkouts agree,       *)
(* however the commands were interleaved (branch.py:356-369,                *)
(* rollback.py:68, add_domain.py:81, branch.py:203-227): where they differ  *)
(* a command is between two of its steps, and whoever moves a reference     *)
(* checks it out afterwards, so that the last one to do so is right.        *)
THEOREM PlacesAlwaysAgree == Spec => []PlacesAgree
<1> DEFINE IInv == Base /\ Sures /\ Own /\ Bounds /\ Agree
<1>1. Init => IInv
    BY BaseInit, OwnInit, BoundsInit, AgreeInit DEF Init, Sures, Runs
<1>2. IInv /\ [Next]_vars => IInv'
    BY BaseNext, SuresNext, OwnNext, BoundsNext, AgreeNext
<1>3. IInv => PlacesAgree
    <2> SUFFICES ASSUME Agree, Live, faults = 0, Quiet
                 PROVE  /\ \A d \in Domains : Exists(d) => work[d] = king[d]
                        /\ \A b \in Branch : Exists(b) <=> king[b] # None
                        /\ \A d \in Domains : Exists(d) <=> work[d] # None
        BY DEF PlacesAgree, CheckoutFollowsKing, RowsHaveReferences, Live
    <2>1. \A d : ~Awaited(thread, d) /\ \A steps : ~Reached(thread, steps, d)
        BY DEF Quiet, Awaited, Awaits, Reached
    <2> QED
        BY <2>1 DEF Agree, Follows, Referred, CheckedOut, There, Exists
<1> QED
    BY <1>1, <1>2, <1>3, PTL DEF Spec

=============================================================================
