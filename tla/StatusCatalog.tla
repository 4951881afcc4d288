--------------------------- MODULE StatusCatalog ---------------------------
(***************************************************************************)
(* The publish/subscribe catalog through which "aq show request" follows   *)
(* the log of another command.                                             *)
(*                                                                         *)
(* The commands run in worker threads and publish log records from there.  *)
(* Everything else (a connection opening or closing, the dispatch of a     *)
(* request, show_request itself and the cleanup timer) runs in the         *)
(* reactor thread, one callback after the other.  A record is emitted in   *)
(* two steps, because a worker picks the log handler before it takes the   *)
(* lock of the status: the reactor may close the handlers in between.      *)
(***************************************************************************)
EXTENDS Naturals, Sequences, FiniteSets, SequencesExt

CONSTANTS
    Requests,       \* commands, each with an audit id and a request id
    Watchers,       \* show_request commands (StatusWriter objects)
    Nobody,
    MaxDebug,       \* MAX_DEBUG_MESSAGES_PER_REQUEST
    MaxRecords      \* bound: records the worker of a request publishes

ASSUME StatusAssumption ==
    /\ IsFiniteSet(Requests) /\ IsFiniteSet(Watchers)
    /\ Nobody \notin Requests \cup Watchers
    /\ MaxDebug \in Nat
    /\ MaxRecords \in Nat

VARIABLES
    phase,          \* how far the connection of a request has come
    worker,         \* what the worker thread of a request is doing
    catalogued,     \* requests in status_by_auditid
    byRequestid,    \* requests in status_by_requestid
    records,        \* RequestStatus.records, Dropped where replaced by None
    debugFifo,      \* RequestStatus.debug_fifo: positions in records
    isFinished,     \* RequestStatus.is_finished
    subscribers,    \* RequestStatus.subscribers: watcher -> records processed
    waitFor,        \* wait_for_requestid, from a request id to a watcher
    waiterOf,       \* the same dict, from a watcher to a request id
    watch,          \* the show_request commands: what, how, and whether done
    got,            \* positions of the records a watcher was handed
    closedAt        \* history: number of records when finish() was called

vars == <<phase, worker, catalogued, byRequestid, records, debugFifo, isFinished,
          subscribers, waitFor, waiterOf, watch, got, closedAt>>

Levels  == {"debug", "info"}
Dropped == "dropped"
Idle    == [request |-> Nobody, debug |-> FALSE, state |-> "idle", lost |-> FALSE]

TypeOK ==
    /\ phase \in [Requests -> {"absent", "open", "dispatched", "closed", "forgotten"}]
    /\ worker \in [Requests -> {"idle", "running", "done"} \cup Levels]
    /\ catalogued \subseteq Requests
    /\ byRequestid \subseteq Requests
    /\ \A r \in Requests :
        /\ records[r] \in Seq(Levels \cup {Dropped})
        /\ Len(debugFifo[r]) <= MaxDebug
        /\ \A i \in 1 .. Len(debugFifo[r]) :
                records[r][debugFifo[r][i]] = "debug"
        /\ DOMAIN subscribers[r] \subseteq Watchers
        /\ \A w \in DOMAIN subscribers[r] :
                subscribers[r][w] \in 0 .. Len(records[r])
    /\ isFinished \in [Requests -> BOOLEAN]
    /\ waitFor \in [Requests -> Watchers \cup {Nobody}]
    /\ waiterOf \in [Watchers -> Requests \cup {Nobody}]
    /\ watch \in [Watchers -> [request : Requests \cup {Nobody}, debug : BOOLEAN,
                               state : {"idle", "pending", "done", "notfound"},
                               lost : BOOLEAN]]
    /\ got \in [Watchers -> Seq(Nat)]
    /\ closedAt \in [Requests -> Nat]

Init ==
    /\ phase = [r \in Requests |-> "absent"]
    /\ worker = [r \in Requests |-> "idle"]
    /\ catalogued = {} /\ byRequestid = {}
    /\ records = [r \in Requests |-> <<>>]
    /\ debugFifo = [r \in Requests |-> <<>>]
    /\ isFinished = [r \in Requests |-> FALSE]
    /\ subscribers = [r \in Requests |-> <<>>]
    /\ waitFor = [r \in Requests |-> Nobody]
    /\ waiterOf = [w \in Watchers |-> Nobody]
    /\ watch = [w \in Watchers |-> Idle]
    /\ got = [w \in Watchers |-> <<>>]
    /\ closedAt = [r \in Requests |-> 0]

-----------------------------------------------------------------------------
(* RequestStatus.                                                           *)

\* StatusWriter.process writes the records of the watcher's level, unless
\* its client has gone.
Wanted(v, record) ==
    /\ ~v.lost
    /\ record \in (IF v.debug THEN Levels ELSE {"info"})

\* The positions in S, one after the other: its loop goes up
Ascending(S) ==
    LET rank == [i \in S |-> Cardinality({j \in S : j <= i})]
    IN  [n \in 1 .. Cardinality(S) |-> CHOOSE i \in S : rank[i] = n]

\* mutant: the records are handed over from the start every time
NotifiedFromStart(v, recs, processed) ==
    Ascending({i \in 1 .. Len(recs) : Wanted(v, recs[i])})

\* _notify_subscriber: the positions handed to watcher v, which has
\* processed some already
Notified(v, recs, processed) ==
    Ascending({i \in processed + 1 .. Len(recs) : Wanted(v, recs[i])})

\* mutant: the newest debug message goes
NewestDropped(recs, fifo) ==
    IF Len(fifo) > MaxDebug
    THEN [recs |-> [recs EXCEPT ![Last(fifo)] = Dropped], fifo |-> Front(fifo)]
    ELSE [recs |-> recs, fifo |-> fifo]

\* Only a limited number of debug messages is kept
Constrained(recs, fifo) ==
    IF Len(fifo) > MaxDebug
    THEN [recs |-> [recs EXCEPT ![Head(fifo)] = Dropped], fifo |-> Tail(fifo)]
    ELSE [recs |-> recs, fifo |-> fifo]

Appended(r, level) ==
    LET recs == Append(records[r], level)
    IN  Constrained(recs, IF level = "debug" THEN Append(debugFifo[r], Len(recs))
                                             ELSE debugFifo[r])

\* publish, under the lock of the status
Publish(r, level) ==
    LET new == Appended(r, level)
    IN  /\ records' = [records EXCEPT ![r] = new.recs]
        /\ debugFifo' = [debugFifo EXCEPT ![r] = new.fifo]
        /\ got' = [w \in Watchers |->
                     IF w \in DOMAIN subscribers[r]
                     THEN got[w] \o Notified(watch[w], new.recs, subscribers[r][w])
                     ELSE got[w]]

\* add_subscriber of w, whose command is v: a finished status is read once
AddSubscriber(r, w, v) ==
    /\ got' = [got EXCEPT ![w] = @ \o Notified(v, records[r], 0)]
    /\ watch' = [watch EXCEPT ![w] = IF isFinished[r]
                                     THEN [v EXCEPT !.state = "done"] ELSE v]
    /\ subscribers' = IF isFinished[r] THEN subscribers
                      ELSE [subscribers EXCEPT ![r] = [u \in {w} \cup DOMAIN @ |->
                                IF u = w THEN Len(records[r]) ELSE @[u]]]

-----------------------------------------------------------------------------
(* The reactor thread.                                                      *)

\* A connection opens: AQDRequest.__init__, create_request_status
Open(r) ==
    /\ phase[r] = "absent"
    /\ phase' = [phase EXCEPT ![r] = "open"]
    /\ catalogued' = catalogued \cup {r}
    /\ UNCHANGED <<worker, byRequestid, records, debugFifo, isFinished, subscribers,
                   waitFor, waiterOf, watch, got, closedAt>>

\* mutant: the watcher that waits for the request is not told
DispatchAlone(r) ==
    /\ phase[r] = "open"
    /\ phase' = [phase EXCEPT ![r] = "dispatched"]
    /\ worker' = [worker EXCEPT ![r] = "running"]
    /\ byRequestid' = byRequestid \cup {r}
    /\ UNCHANGED <<catalogued, records, debugFifo, isFinished, closedAt, waitFor,
                   waiterOf, watch, got, subscribers>>

\* The request is parsed (store_requestid) and deferred to a thread
Dispatch(r) ==
    /\ phase[r] = "open"
    /\ phase' = [phase EXCEPT ![r] = "dispatched"]
    /\ worker' = [worker EXCEPT ![r] = "running"]
    /\ byRequestid' = byRequestid \cup {r}
    /\ UNCHANGED <<catalogued, records, debugFifo, isFinished, closedAt>>
    /\ IF waitFor[r] = Nobody
       THEN UNCHANGED <<waitFor, waiterOf, watch, got, subscribers>>
       ELSE LET w == waitFor[r] IN
            /\ waitFor' = [waitFor EXCEPT ![r] = Nobody]
            /\ waiterOf' = [waiterOf EXCEPT ![w] = Nobody]
            /\ AddSubscriber(r, w, watch[w])

\* The dict entries of the watchers that finish (remove_waiters)
RemoveWaiters(ws) ==
    /\ waiterOf' = [w \in Watchers |-> IF w \in ws THEN Nobody ELSE waiterOf[w]]
    /\ waitFor' = [r \in Requests |->
            IF \E w \in ws : waiterOf[w] = r THEN Nobody ELSE waitFor[r]]

\* AQDRequest.cleanup: a last debug record, close_handlers, then finish()
\* pops and finishes the subscribers; the timer is set
Cleanup(r) ==
    /\ phase' = [phase EXCEPT ![r] = "closed"]
    /\ Publish(r, "debug")
    /\ isFinished' = [isFinished EXCEPT ![r] = TRUE]
    /\ closedAt' = [closedAt EXCEPT ![r] = Len(records[r]) + 1]
    /\ subscribers' = [subscribers EXCEPT ![r] = <<>>]
    /\ watch' = [w \in Watchers |->
            IF w \in DOMAIN subscribers[r] THEN [watch[w] EXCEPT !.state = "done"]
                                           ELSE watch[w]]
    /\ RemoveWaiters(DOMAIN subscribers[r])
    /\ UNCHANGED <<worker, catalogued, byRequestid>>

\* The command has returned: finishRender
Finish(r) == phase[r] = "dispatched" /\ worker[r] = "done" /\ Cleanup(r)

\* The client goes away, or its request is malformed.  The worker, if
\* there is one, runs on.
Disconnect(r) ==
    /\ phase[r] \in {"open", "dispatched"}
    /\ worker[r] # "done"
    /\ Cleanup(r)

\* _cleanup_request_status, one minute later
Forget(r) ==
    /\ phase[r] = "closed"
    /\ phase' = [phase EXCEPT ![r] = "forgotten"]
    /\ catalogued' = catalogued \ {r}
    /\ byRequestid' = byRequestid \ {r}
    /\ UNCHANGED <<worker, records, debugFifo, isFinished, subscribers, waitFor,
                   waiterOf, watch, got, closedAt>>

\* show_request --auditid
WatchAuditid(w, r, v) ==
    /\ UNCHANGED <<waitFor, waiterOf>>
    /\ IF r \in catalogued
       THEN AddSubscriber(r, w, v)
       ELSE /\ watch' = [watch EXCEPT ![w] = [v EXCEPT !.state = "notfound"]]
            /\ UNCHANGED <<got, subscribers>>

\* show_request --requestid: subscribe_or_wait
WatchRequestid(w, r, v) ==
    IF r \in byRequestid
    THEN AddSubscriber(r, w, v) /\ UNCHANGED <<waitFor, waiterOf>>
    ELSE /\ waitFor' = [waitFor EXCEPT ![r] = w]
         /\ waiterOf' = [waiterOf EXCEPT ![w] = r]
         /\ watch' = [watch EXCEPT ![w] = v]
         /\ UNCHANGED <<got, subscribers>>

ShowRequest(w) ==
    /\ watch[w].state = "idle"
    /\ \E r \in Requests, debug \in BOOLEAN :
        LET v == [request |-> r, debug |-> debug, state |-> "pending", lost |-> FALSE]
        IN  WatchRequestid(w, r, v) \/ WatchAuditid(w, r, v)
    /\ UNCHANGED <<phase, worker, catalogued, byRequestid, records, debugFifo,
                   isFinished, closedAt>>

\* The client of show_request goes away; nothing is told but the request
LoseWatcher(w) ==
    /\ watch[w].state = "pending" /\ ~watch[w].lost
    /\ watch' = [watch EXCEPT ![w].lost = TRUE]
    /\ UNCHANGED <<phase, worker, catalogued, byRequestid, records, debugFifo,
                   isFinished, subscribers, waitFor, waiterOf, got, closedAt>>

-----------------------------------------------------------------------------
(* The worker threads.                                                      *)

WorkerUnchanged == UNCHANGED <<phase, catalogued, byRequestid, isFinished, waitFor,
                               waiterOf, watch, closedAt>>

\* The logger picks its handlers
Emit(r) ==
    /\ worker[r] = "running" /\ phase[r] = "dispatched"
    /\ Len(records[r]) < MaxRecords
    /\ \E level \in Levels : worker' = [worker EXCEPT ![r] = level]
    /\ WorkerUnchanged /\ UNCHANGED <<records, debugFifo, subscribers, got>>

\* StatusHandler.emit calls publish
PublishRecord(r) ==
    /\ worker[r] \in Levels
    /\ Publish(r, worker[r])
    /\ subscribers' = [subscribers EXCEPT ![r] =
            [w \in DOMAIN @ |-> Len(records[r]) + 1]]
    /\ worker' = [worker EXCEPT ![r] = "running"]
    /\ WorkerUnchanged

Return(r) ==
    /\ worker[r] = "running"
    /\ worker' = [worker EXCEPT ![r] = "done"]
    /\ WorkerUnchanged /\ UNCHANGED <<records, debugFifo, subscribers, got>>

Next ==
    \/ \E r \in Requests :
        \/ Open(r) \/ Dispatch(r) \/ Finish(r) \/ Disconnect(r) \/ Forget(r)
        \/ Emit(r) \/ PublishRecord(r) \/ Return(r)
    \/ \E w \in Watchers : ShowRequest(w) \/ LoseWatcher(w)

Spec == Init /\ [][Next]_vars

\* The reactor runs its callbacks, and a command ends.  That a connection is
\* opened or closed, or a watch started, is up to the clients.
FairSpec ==
    /\ Spec
    /\ \A r \in Requests : WF_vars(Dispatch(r)) /\ WF_vars(PublishRecord(r))
                           /\ WF_vars(Return(r)) /\ WF_vars(Finish(r))

-----------------------------------------------------------------------------
(* Properties.                                                              *)

\* A watcher is handed each record at most once and in the order they were
\* published, whether it came before the request, during or after it.
InOrderOnce ==
    \A w \in Watchers : \A i, j \in DOMAIN got[w] : i < j => got[w][i] < got[w][j]

\* A watcher that was finished has been handed every record of its level
\* that was published before finish() was called and is still kept.
NothingSkipped ==
    \A w \in Watchers : (watch[w].state = "done" /\ ~watch[w].lost) =>
        LET r == watch[w].request IN
        \A i \in 1 .. closedAt[r] :
            Wanted(watch[w], records[r][i]) => i \in ToSet(got[w])

\* Together: a watcher is handed exactly the records it asked for, whether it
\* came before the request, during or after it (messages.py:120-160).
DeliveredExactly == InOrderOnce /\ NothingSkipped

\* The debug messages that were replaced are older than those that are kept
\* (RequestStatus.publish and its debug_fifo).
NewestDebugKept ==
    \A r \in Requests : \A i, j \in DOMAIN records[r] :
        (records[r][i] = Dropped /\ records[r][j] = "debug") => i < j

\* The dict has room for one watcher of a request id that is not known yet:
\* a later one takes its place, and the earlier is never told.
Replaced(w) == waiterOf[w] # Nobody /\ waitFor[waiterOf[w]] # w

\* A show_request whose command is dispatched to a worker returns, whether
\* it is subscribed, by either id, or still waits for the request id, unless
\* another took its place while it waited (StatusCatalog.subscribe_or_wait).
PendingReturns ==
    \A w \in Watchers :
        (watch[w].state = "pending" /\ phase[watch[w].request] = "dispatched")
            ~> watch[w].state = "done" \/ Replaced(w)

=============================================================================
