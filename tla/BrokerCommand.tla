--------------------------- MODULE BrokerCommand ---------------------------
(***************************************************************************)
(* What the broker does around every command (BrokerCommand.invoke_render) *)
(* for commands in concurrent worker threads: the thread, the connection,  *)
(* the audit record that starts and ends the command, the work, the commit *)
(* and the external events.                                                *)
(*                                                                         *)
(* The work has the shape most commands share: a change of one row is      *)
(* flushed, the row's plenary is written and DSDB is told under the        *)
(* plenary lock, and the broker commits when the command has returned.     *)
(* LockQueue, PlenaryTransaction and DsdbRunner take the lock, the write   *)
(* and the calls apart; here each succeeds, or fails and is undone.        *)
(***************************************************************************)
EXTENDS Naturals, Sequences, FiniteSets

CONSTANTS
    Changes,            \* commands that change a column of the row, each its own
    Flushes,            \* aq flush
    Shows,              \* lock-free, read-only commands
    ThreadPoolSize,     \* twisted_thread_pool_size
    PoolSize            \* pool_size, of each of the two connection pools

Commands == Changes \cup Flushes \cup Shows
Audited  == Changes \cup Flushes     \* requires_audit
Locking  == Changes \cup Flushes     \* not is_lock_free

ASSUME BrokerAssumption ==
    /\ IsFiniteSet(Commands)
    /\ Changes \cap Flushes = {} /\ Locking \cap Shows = {}
    /\ ThreadPoolSize \in Nat \ {0}
    /\ PoolSize \in Nat \ {0}

Content == [Changes -> BOOLEAN]      \* the changes a row, or a file, has

VARIABLES
    queue,      \* the commands deferToThread has not given a thread
    pc,         \* where a command is
    seen,       \* the row as the command's session has it
    db,         \* the committed row
    file,       \* the row's plenary on disk
    stash,      \* what the plenary was when the command took the lock
    dsdb,       \* the row in DSDB
    begun,      \* commands with an Xtn row
    ended,      \* commands with an XtnEnd row, and its outcome
    result,     \* what the client was told
    published,  \* commands whose events were published
    unheard,    \* history: commands whose events a handler failed on
    lapsed,     \* commands with a database error where the code gives up
    serial      \* history: no two locking commands were ever in flight together

vars == <<queue, pc, seen, db, file, stash, dsdb, begun, ended, result, published, unheard,
          lapsed, serial>>

Outcome == {"ok", "failed"}

\* "connected": the session has a connection; "begun": the audit record is
\* committed; "read": its objects are loaded; "flushed": the row is changed and
\* locked; "locked": the plenary lock is held; "written": so is the file;
\* "rendered": the lock is free; "committed": the events are still to come;
\* "failing": an exception; "closing": before end_xtn
PC == {"idle", "queued", "thread", "connected", "begun", "read", "flushed",
       "locked", "written", "rendered", "committed", "failing", "closing", "done"}

TypeOK ==
    /\ pc \in [Commands -> PC]
    /\ queue \in Seq(Commands) /\ Len(queue) <= Cardinality(Commands)
    /\ seen \in [Locking -> Content] /\ stash \in [Locking -> Content]
    /\ db \in Content /\ file \in Content /\ dsdb \in Content
    /\ begun \subseteq Audited
    /\ ended \in [Commands -> {"none"} \cup Outcome]
    /\ result \in [Commands -> {"none"} \cup Outcome]
    /\ published \subseteq Changes
    /\ unheard \subseteq Changes
    /\ lapsed \subseteq Commands
    /\ serial \in BOOLEAN

Nothing == [c \in Changes |-> FALSE]

Init ==
    /\ queue = <<>>
    /\ pc = [c \in Commands |-> "idle"]
    /\ seen = [c \in Locking |-> Nothing] /\ stash = [c \in Locking |-> Nothing]
    /\ db = Nothing /\ file = Nothing /\ dsdb = Nothing
    /\ begun = {}
    /\ ended = [c \in Commands |-> "none"]
    /\ result = [c \in Commands |-> "none"]
    /\ published = {} /\ unheard = {} /\ lapsed = {}
    /\ serial = TRUE

-----------------------------------------------------------------------------
(* Resources.                                                               *)

InThread  == {c \in Commands : pc[c] \notin {"idle", "queued", "done"}}
Connected == {c \in InThread : pc[c] # "thread"}

\* mutant: one pool for both kinds
OnePool(c) == Commands

\* The commands that share a connection pool with c: Session or NLSession
Pool(c) == IF c \in Shows THEN Shows ELSE Locking

\* The row is locked from the flush to the end of the transaction.
RowLocked   == \E c \in Changes :
                    pc[c] \in {"flushed", "locked", "written", "rendered"}
PlenaryHeld == \E c \in Locking : pc[c] \in {"locked", "written"}

Go(c, where) == pc' = [pc EXCEPT ![c] = where]

Data == <<db, file, stash, dsdb>>
Books == <<begun, ended, result, published, unheard, lapsed>>

-----------------------------------------------------------------------------
(* Dispatch.                                                                *)

\* render of the resource: deferToThread
Submit(c) ==
    /\ pc[c] = "idle"
    /\ Go(c, "queued")
    /\ queue' = Append(queue, c)
    /\ serial' = (serial /\ (c \in Locking => Locking \cap
                    {d \in Commands : pc[d] \notin {"idle", "done"}} = {}))
    /\ UNCHANGED <<seen, Data, Books>>

StartThread ==
    /\ queue # <<>>
    /\ Cardinality(InThread) < ThreadPoolSize
    /\ Go(Head(queue), "thread")
    /\ queue' = Tail(queue)
    /\ UNCHANGED <<seen, Data, Books, serial>>

\* A connection, as soon as the pool has one (pool_timeout is empty: no limit)
Connect(c) ==
    /\ pc[c] = "thread"
    /\ Cardinality(Connected \cap Pool(c)) < PoolSize
    /\ Go(c, "connected")
    /\ UNCHANGED <<queue, seen, Data, Books, serial>>

\* The database refuses the connection: no audit record, no end_xtn
CannotConnect(c) ==
    /\ pc[c] = "thread"
    /\ Cardinality(Connected \cap Pool(c)) < PoolSize
    /\ Go(c, "done")
    /\ result' = [result EXCEPT ![c] = "failed"]
    /\ UNCHANGED <<queue, seen, Data, begun, ended, published, unheard, lapsed, serial>>

\* start_xtn commits the audit record, for the commands that have one
Begin(c) ==
    /\ pc[c] = "connected"
    /\ Go(c, "begun")
    /\ begun' = begun \cup ({c} \cap Audited)
    /\ UNCHANGED <<queue, seen, Data, ended, result, published, unheard, lapsed, serial>>

\* start_xtn fails: the command is aborted
CannotBegin(c) ==
    /\ pc[c] = "connected" /\ c \in Audited
    /\ Go(c, "failing")
    /\ UNCHANGED <<queue, seen, Data, Books, serial>>

\* The user is not authorized, or an argument is wrong
Refuse(c) ==
    /\ pc[c] = "begun"
    /\ Go(c, "failing")
    /\ UNCHANGED <<queue, seen, Data, Books, serial>>

-----------------------------------------------------------------------------
(* The work of the commands (render).                                       *)

\* A read-only command is done when it has read.  It has no audit record.
Show(c) ==
    /\ pc[c] = "begun" /\ c \in Shows
    /\ Go(c, "closing")
    /\ result' = [result EXCEPT ![c] = "ok"]
    /\ UNCHANGED <<queue, seen, Data, begun, ended, published, unheard, lapsed, serial>>

\* The command loads the row and changes it in memory
ReadRow(c) ==
    /\ pc[c] = "begun" /\ c \in Changes
    /\ seen' = [seen EXCEPT ![c] = [db EXCEPT ![c] = TRUE]]
    /\ Go(c, "read")
    /\ UNCHANGED <<queue, Data, Books, serial>>

\* session.flush() updates the column, once the row is free
FlushRow(c) ==
    /\ pc[c] = "read" /\ ~RowLocked
    /\ Go(c, "flushed")
    /\ UNCHANGED <<queue, seen, Data, Books, serial>>

\* plenaries.transaction() stashes the file; aq flush loads its data here
TakeLock(c) ==
    /\ pc[c] = (IF c \in Changes THEN "flushed" ELSE "begun") /\ c \in Locking
    /\ ~PlenaryHeld
    /\ Go(c, "locked")
    /\ stash' = [stash EXCEPT ![c] = file]
    /\ seen' = IF c \in Flushes THEN [seen EXCEPT ![c] = db] ELSE seen
    /\ UNCHANGED <<queue, db, file, dsdb, Books, serial>>

\* The lock is released: what the command had loaded and stashed is not
\* looked at again.
Unlock(c) ==
    /\ seen' = [seen EXCEPT ![c] = Nothing]
    /\ stash' = [stash EXCEPT ![c] = Nothing]

\* The plenary is written from what the session sees
WriteFile(c) ==
    /\ pc[c] = "locked"
    /\ file' = seen[c]
    /\ Go(c, "written")
    /\ UNCHANGED <<queue, seen, db, stash, dsdb, Books, serial>>

CannotWrite(c) ==
    /\ pc[c] = "locked"
    /\ Unlock(c)
    /\ Go(c, "failing")
    /\ UNCHANGED <<queue, db, file, dsdb, Books, serial>>

\* mutant: the answer of DSDB is not looked at
UpdateDsdbOrNot(c) ==
    /\ pc[c] = "written"
    /\ dsdb' \in {dsdb} \cup {[dsdb EXCEPT ![c] = TRUE] : d \in {c} \cap Changes}
    /\ Unlock(c)
    /\ Go(c, "rendered")
    /\ UNCHANGED <<queue, db, file, Books, serial>>

\* DSDB accepts the change, and the lock is released
UpdateDsdb(c) ==
    /\ pc[c] = "written"
    /\ dsdb' = IF c \in Changes THEN [dsdb EXCEPT ![c] = TRUE] ELSE dsdb
    /\ Unlock(c)
    /\ Go(c, "rendered")
    /\ UNCHANGED <<queue, db, file, Books, serial>>

\* mutant: the plenary is left as it was written
DsdbRefusesLeavingFile(c) ==
    /\ pc[c] = "written" /\ c \in Changes
    /\ Unlock(c)
    /\ Go(c, "failing")
    /\ UNCHANGED <<queue, db, file, dsdb, Books, serial>>

\* DSDB refuses the change: the plenary is restored, the lock released
DsdbRefuses(c) ==
    /\ pc[c] = "written" /\ c \in Changes
    /\ file' = stash[c]
    /\ Unlock(c)
    /\ Go(c, "failing")
    /\ UNCHANGED <<queue, db, dsdb, Books, serial>>

-----------------------------------------------------------------------------
(* The end of invoke_render.                                                *)

Commit(c) ==
    /\ pc[c] = "rendered"
    /\ db' = IF c \in Changes THEN [db EXCEPT ![c] = TRUE] ELSE db
    /\ Go(c, "committed")
    /\ UNCHANGED <<queue, seen, file, stash, dsdb, Books, serial>>

\* The commit fails: nothing is published, and nothing undoes the plenary
\* or DSDB, which were done with when the lock was released
CannotCommit(c) ==
    /\ pc[c] = "rendered"
    /\ lapsed' = lapsed \cup {c}
    /\ Go(c, "failing")
    /\ UNCHANGED <<queue, seen, Data, begun, ended, result, published, unheard, serial>>

\* Exporter.__exit__ publishes the events of the session
Publish(c) ==
    /\ pc[c] = "committed"
    /\ published' = published \cup ({c} \cap Changes)
    /\ result' = [result EXCEPT ![c] = "ok"]
    /\ Go(c, "closing")
    /\ UNCHANGED <<queue, seen, Data, begun, ended, unheard, lapsed, serial>>

\* The handler that sends them fails: the failure is logged, and the command
\* succeeds with nothing told
HandlerFails(c) ==
    /\ pc[c] = "committed" /\ c \in Changes
    /\ unheard' = unheard \cup {c}
    /\ result' = [result EXCEPT ![c] = "ok"]
    /\ Go(c, "closing")
    /\ UNCHANGED <<queue, seen, Data, begun, ended, published, lapsed, serial>>

\* A delayed event cannot be made: the command fails, though committed
CannotPublish(c) ==
    /\ pc[c] = "committed" /\ c \in Changes
    /\ lapsed' = lapsed \cup {c}
    /\ Go(c, "failing")
    /\ UNCHANGED <<queue, seen, Data, begun, ended, result, published, unheard, serial>>

Rollback(c) ==
    /\ pc[c] = "failing"
    /\ result' = [result EXCEPT ![c] = "failed"]
    /\ Go(c, "closing")
    /\ UNCHANGED <<queue, seen, Data, begun, ended, published, unheard, lapsed, serial>>

\* The rollback fails: the session is not touched any more
CannotRollback(c) ==
    /\ pc[c] = "failing" /\ c \in Audited
    /\ result' = [result EXCEPT ![c] = "failed"]
    /\ lapsed' = lapsed \cup {c}
    /\ Go(c, "done")
    /\ UNCHANGED <<queue, seen, Data, begun, ended, published, unheard, serial>>

\* mutant: only a command that succeeds is ended
EndSuccess(c) ==
    /\ pc[c] = "closing"
    /\ ended' = IF c \in begun /\ result[c] = "ok"
                THEN [ended EXCEPT ![c] = result[c]] ELSE ended
    /\ Go(c, "done")
    /\ UNCHANGED <<queue, seen, Data, begun, result, published, unheard, lapsed, serial>>

\* end_xtn, if there is a record to end; the session is removed
End(c) ==
    /\ pc[c] = "closing"
    /\ ended' = IF c \in begun THEN [ended EXCEPT ![c] = result[c]] ELSE ended
    /\ Go(c, "done")
    /\ UNCHANGED <<queue, seen, Data, begun, result, published, unheard, lapsed, serial>>

\* The error of end_xtn's commit is swallowed
CannotEnd(c) ==
    /\ pc[c] = "closing" /\ c \in begun
    /\ lapsed' = lapsed \cup {c}
    /\ Go(c, "done")
    /\ UNCHANGED <<queue, seen, Data, begun, ended, result, published, unheard, serial>>

\* The steps that end if the database and the reactor are alive
Step(c) ==
    \/ Connect(c) \/ CannotConnect(c) \/ Begin(c) \/ CannotBegin(c) \/ Refuse(c)
    \/ Show(c) \/ Commit(c) \/ CannotCommit(c) \/ Publish(c) \/ HandlerFails(c)
    \/ CannotPublish(c) \/ Rollback(c) \/ CannotRollback(c) \/ End(c) \/ CannotEnd(c)

\* The steps that wait for others, or run under the locks
SlowStep(c) ==
    \/ ReadRow(c) \/ FlushRow(c) \/ TakeLock(c) \/ WriteFile(c) \/ CannotWrite(c)
    \/ UpdateDsdb(c) \/ DsdbRefuses(c)

Next == StartThread \/ \E c \in Commands : Submit(c) \/ Step(c) \/ SlowStep(c)

\* Nothing says that a command under the locks ever ends: a compile or a call
\* to DSDB may take as long as it likes.
Spec == /\ Init /\ [][Next]_vars
        /\ WF_vars(StartThread)
        /\ \A c \in Commands : WF_vars(Step(c))

-----------------------------------------------------------------------------
(* Properties.                                                              *)

Quiet == \A c \in Commands : pc[c] \in {"idle", "done"}

\* The audit trail: a command that changed anything outside its session was
\* recorded before, and a recorded command that is done is ended with the
\* outcome the client was told, unless a database error made the code give up.
AuditComplete ==
    \A c \in Commands :
        /\ (c \in Changes /\ (db[c] \/ file[c] \/ dsdb[c])) => c \in begun
        /\ (pc[c] = "done" /\ c \in begun \ lapsed) => ended[c] = result[c]
        /\ ended[c] # "none" => c \in begun

\* Events tell of committed changes only; and a committed change whose command
\* has ended was told of, unless an event could not be made (the command fails)
\* or a handler failed to send it (Exporter.publish logs that, and the command
\* succeeds all the same).
EventsOfCommitted ==
    /\ \A c \in published : db[c]
    /\ \A c \in Changes :
        (db[c] /\ pc[c] = "done") => c \in published \cup unheard \cup lapsed

\* A client that is told of a success finds its change in the database and
\* in DSDB; one told of a failure finds it in neither, unless the commit or
\* an event failed.
AnswerIsTrue ==
    \A c \in Changes :
        /\ result[c] = "ok" => db[c] /\ dsdb[c]
        /\ (result[c] = "failed" /\ c \notin lapsed) => ~db[c] /\ ~dsdb[c]

\* What clients and listeners are told is what has happened: the command's
\* answer and its events agree with the database and with DSDB
\* (broker.py:302-330, exporter.py:183).
OutsideIsTold == AnswerIsTrue /\ EventsOfCommitted

\* Commands that change or flush plenaries one after the other leave the
\* database, the plenary and DSDB in agreement, whichever of them failed.
SerialAgreement ==
    (Quiet /\ serial /\ lapsed = {}) => file = db /\ dsdb = db

\* All threads are with commands that lock, or that wait for a lock.
ThreadsTaken == Cardinality(InThread \cap Locking) = ThreadPoolSize

\* "Any command with this flag set [...] should not have to wait on commands
\* that are potentially all blocking on the same lock": a lock-free command
\* that has a thread returns although the holder of the lock may never let go.
\* One that has none yet returns too, unless the waiters keep all threads for
\* good: then it waits for them after all.
LockFreeReturns ==
    \A c \in Shows :
        /\ pc[c] = "thread" ~> pc[c] = "done"
        /\ []<>~ThreadsTaken => (pc[c] = "queued" ~> pc[c] = "done")

\* "The aq flush command refreshes the plenary templates": when everything
\* has ended without a failure, the plenary is the one of the database.
FlushRefreshes ==
    (Quiet /\ \A c \in Commands : pc[c] = "done" => result[c] = "ok") => file = db

=============================================================================
