------------------------------ MODULE Notifyd ------------------------------
(***************************************************************************)
(* How a client learns that its profile changed: src/sbin/aq_notifyd.py,   *)
(* lib/aquilon/notify/index.py and, in the broker, the end of a compile    *)
(* (worker/templates/domain.py with etc/build.xml) or of a deletion.       *)
(*                                                                         *)
(* A compile copies the profile of an object into the profile directory    *)
(* with the modification time panc gave it, sleeps a second, and writes    *)
(* "update" to the daemon's socket.  The daemon's reactor thread sets a    *)
(* flag under a condition variable; its updater thread walks the profile   *)
(* directory, compares modification times, in whole seconds, with those in *)
(* the index it wrote last, writes a new index, and sends a datagram to    *)
(* the client of each object that became newer.                            *)
(*                                                                         *)
(* The compiles of one object exclude each other (CompileKey) and produce  *)
(* one format; a site may change the format, from "xml" to "json", once.   *)
(* Nothing locks the directory against the walk.                           *)
(*                                                                         *)
(* Bounds: MaxTime caps the clock, MaxFaults the faults.  The recursion    *)
(* count of the updater's lock stops at MaxHeld: an idle updater adds one   *)
(* each time it wakes up for nothing, and only whether any is left matters. *)
(***************************************************************************)
EXTENDS Naturals, FiniteSets, FiniteSetsExt

CONSTANTS Objects,      \* objects with a profile and a client
          MaxTime, MaxFaults, MaxHeld

ASSUME NotifydAssumption ==
    MaxTime \in Nat \ {0} /\ MaxFaults \in Nat /\ MaxHeld \in Nat \ {0, 1}

Suffix == {"xml", "json"}
Files  == Objects \X Suffix

NoCompile == [step |-> "idle"]

VARIABLES
    clock,
    broker,      \* broker[o]: where the command that has o's compile key is
    format,      \* format[o]: what compiles of o's domain produce
    file,        \* file[<<o, s>>]: modification time, 0 if there is no file
    index,       \* index[o]: the time in profiles-info, 0 if not listed
    wire,        \* unread "update" lines in the socket
    queued,      \* update_queued
    exit,        \* do_exit
    pc,          \* the updater thread
    held,        \* recursion count of worker_notify's lock, if it holds it
    notified,    \* the waiting updater was notified
    build        \* the local variables of build_index

\* auxiliary: what the outside knows
VARIABLES
    content,     \* content[o]: version of the newest profile of o
    told,        \* told[o]: the version o's client was last told about
    dropped,     \* objects whose notification was given up
    faults

aux     == <<content, told, dropped, faults>>
flags   == <<queued, exit, held, notified>>
daemon  == <<flags, pc, build>>
command == <<clock, broker, format>>
notifydVars == <<command, file, index, wire, daemon, aux>>

NoBuild == [todo |-> {}, objects |-> [o \in Objects |-> 0],
            modified |-> {}, cleanup |-> {}]

BuildPC == {"build", "walk", "clean", "socket", "send"}

NotifydTypeOK ==
    /\ clock \in 1..MaxTime
    /\ \A o \in Objects : broker[o] = NoCompile
        \/ /\ broker[o].step \in {"panc", "sleep", "trigger"}
           /\ broker[o].since \in 1..MaxTime
    /\ format \in [Objects -> Suffix]
    /\ file \in [Files -> 0..MaxTime] /\ index \in [Objects -> 0..MaxTime]
    /\ wire \in Nat /\ queued \in BOOLEAN /\ exit \in BOOLEAN
    /\ pc \in {"loop", "wait", "stopped"} \cup BuildPC
    /\ held \in 0..MaxHeld /\ notified \in BOOLEAN
    /\ build \in [todo : SUBSET Files, objects : [Objects -> 0..MaxTime],
                  modified : SUBSET Objects, cleanup : SUBSET Files]
    /\ content \in [Objects -> Nat] /\ told \in [Objects -> Nat]
    /\ dropped \subseteq Objects /\ faults \in 0..MaxFaults

Newest(o) == Max({file[<<o, s>>] : s \in Suffix})

NotifydInit ==
    /\ clock = 1
    /\ broker = [o \in Objects |-> NoCompile] /\ format = [o \in Objects |-> "xml"]
    /\ file = [f \in Files |-> 0] /\ index = [o \in Objects |-> 0]
    /\ wire = 0 /\ queued = FALSE /\ exit = FALSE
    /\ pc = "loop" /\ held = 0 /\ notified = FALSE /\ build = NoBuild
    /\ content = [o \in Objects |-> 0] /\ told = [o \in Objects |-> 0]
    /\ dropped = {} /\ faults = 0

Tick == clock < MaxTime /\ clock' = clock + 1
        /\ UNCHANGED <<file, index, wire, daemon, aux, broker, format>>

-----------------------------------------------------------------------------
(* The broker: a command that holds the compile key of o.                   *)

StartCompile(o) ==
    /\ broker[o] = NoCompile
    /\ broker' = [broker EXCEPT ![o] = [step |-> "panc", since |-> clock]]
    /\ UNCHANGED <<file, index, wire, daemon, aux, clock, format>>

\* panc's output, written since the compile began, is copied with its time,
\* unless the one there is not older.  panc may find nothing to do.
ServeProfile(o) ==
    /\ broker[o] # NoCompile /\ broker[o].step = "panc"
    /\ \/ UNCHANGED <<file, content>>
       \/ /\ \E mtime \in broker[o].since .. clock :
                file' = [file EXCEPT ![<<o, format[o]>>] = Max({@, mtime})]
          /\ content' = [content EXCEPT ![o] = @ + 1]
    /\ broker' = [broker EXCEPT ![o] = [step |-> "sleep", since |-> clock]]
    /\ UNCHANGED <<clock, format, index, wire, daemon, told, dropped, faults>>

CompileFails(o) ==
    /\ broker[o] # NoCompile /\ broker[o].step = "panc"
    /\ broker' = [broker EXCEPT ![o] = NoCompile]
    /\ UNCHANGED <<clock, format, file, index, wire, daemon, aux>>

\* Its objects come under another domain, or the broker's configuration changes
\* (update_domain refuses to change formats under compileable objects).
ChangeFormat(o) ==
    /\ broker[o] = NoCompile /\ format[o] = "xml"
    /\ format' = [format EXCEPT ![o] = "json"]
    /\ UNCHANGED <<file, index, wire, daemon, aux, clock, broker>>

\* mutant: the compile does not sleep
NoSleep(o) ==
    /\ broker[o] # NoCompile /\ broker[o].step = "sleep"
    /\ broker' = [broker EXCEPT ![o].step = "trigger"]
    /\ UNCHANGED <<file, index, wire, daemon, aux, clock, format>>

Sleep(o) ==
    /\ broker[o] # NoCompile /\ broker[o].step = "sleep"
    /\ clock > broker[o].since
    /\ broker' = [broker EXCEPT ![o].step = "trigger"]
    /\ UNCHANGED <<file, index, wire, daemon, aux, clock, format>>

\* trigger_notifications: connecting or sending fails when the daemon is not
\* there, which is logged and forgotten.
Trigger(o) ==
    /\ broker[o] # NoCompile /\ broker[o].step = "trigger"
    /\ broker' = [broker EXCEPT ![o] = NoCompile]
    /\ wire' = IF pc = "stopped" THEN wire ELSE wire + 1
    /\ UNCHANGED <<file, index, daemon, aux, clock, format>>

\* del_host, del_cluster: plenaries.write(remove_profile=True)
RemoveProfile(o) ==
    /\ broker[o] = NoCompile /\ Newest(o) # 0
    /\ file' = [f \in Files |-> IF f[1] = o THEN 0 ELSE file[f]]
    /\ broker' = [broker EXCEPT ![o] = [step |-> "trigger", since |-> clock]]
    /\ UNCHANGED <<index, wire, daemon, aux, clock, format>>

-----------------------------------------------------------------------------
(* The daemon's reactor thread.                                             *)

\* worker_notify's lock is re-entrant, and wait() lets go of every level.
LockFree == held = 0 \/ pc = "wait"

LineReceived ==
    /\ wire > 0 /\ pc # "stopped" /\ ~exit /\ LockFree
    /\ wire' = wire - 1
    /\ queued' = TRUE
    /\ notified' = (pc = "wait")
    /\ UNCHANGED <<command, file, index, aux, exit, pc, held, build>>

\* After the reactor's shutdown; then it joins the updater
StopWorker ==
    /\ ~exit /\ pc # "stopped" /\ LockFree
    /\ exit' = TRUE /\ notified' = (pc = "wait")
    /\ UNCHANGED <<command, file, index, wire, aux, queued, pc, held, build>>

-----------------------------------------------------------------------------
(* The updater thread.  h is the recursion count with the lock held again.  *)

\* mutant: a stop is only seen while an update is queued
ResumeLateExit(h) ==
    \/ exit /\ queued /\ pc' = "stopped" /\ held' = h - 1 /\ UNCHANGED queued
    \/ ~queued /\ pc' = "loop" /\ held' = h /\ UNCHANGED queued
    \/ ~exit /\ queued /\ queued' = FALSE /\ pc' = "build" /\ held' = h - 1

Resume(h) ==
    \/ exit /\ pc' = "stopped" /\ held' = h - 1 /\ UNCHANGED queued
    \/ ~exit /\ ~queued /\ pc' = "loop" /\ held' = h /\ UNCHANGED queued
    \/ ~exit /\ queued /\ queued' = FALSE /\ pc' = "build" /\ held' = h - 1

Acquired == Min({held + 1, MaxHeld})

Loop ==
    /\ pc = "loop"
    /\ \/ queued /\ Resume(Acquired)
       \/ ~queued /\ pc' = "wait" /\ held' = Acquired /\ UNCHANGED queued
    /\ notified' = FALSE
    /\ UNCHANGED <<command, file, index, wire, aux, exit, build>>

Woken ==
    /\ pc = "wait" /\ notified /\ Resume(held)
    /\ notified' = FALSE
    /\ UNCHANGED <<command, file, index, wire, aux, exit, build>>

\* wait() times out.  If nothing is queued the loop goes on without
\* releasing the lock.
TimedOut ==
    /\ pc = "wait" /\ Resume(held)
    /\ notified' = FALSE
    /\ UNCHANGED <<command, file, index, wire, aux, exit, build>>

-----------------------------------------------------------------------------
(* build_index.                                                             *)

StartWalk ==
    /\ pc = "build"
    /\ pc' = "walk"
    /\ build' = [NoBuild EXCEPT !.todo = Files]
    /\ UNCHANGED <<command, file, index, wire, flags, aux>>

\* mutant: a file as old as its entry in the index is cleaned up as well
NotNewer(f) == file[f] # 0 /\ file[f] <= index[f[1]]

\* A file of another format than the one indexed last
Stale(f) == file[f] # 0 /\ file[f] < index[f[1]]

\* An object the last index did not list is new: its client starts from what
\* is there, and is not notified.
Visit(f) ==
    LET o == f[1]  mtime == file[f] IN
    /\ pc = "walk" /\ f \in build.todo
    /\ build' = [build EXCEPT
            !.todo = @ \ {f},
            !.objects[o] = Max({@, mtime}),
            !.modified = IF index[o] # 0 /\ mtime > index[o]
                         THEN @ \cup {o} ELSE @,
            !.cleanup = IF Stale(f) THEN @ \cup {f} ELSE @]
    /\ told' = [told EXCEPT ![o] = IF index[o] = 0 /\ mtime # 0
                                   THEN content[o] ELSE @]
    /\ UNCHANGED <<command, file, index, wire, flags, pc, content, dropped, faults>>

\* write_file replaces the index at once
WriteIndex ==
    /\ pc = "walk" /\ build.todo = {}
    /\ index' = build.objects
    /\ pc' = "clean"
    /\ UNCHANGED <<command, file, wire, flags, aux, build>>

CleanUp ==
    /\ pc = "clean"
    /\ file' = [f \in Files |-> IF f \in build.cleanup THEN 0 ELSE file[f]]
    /\ pc' = "socket"
    /\ UNCHANGED <<command, index, wire, flags, aux, build>>

BindSocket ==
    /\ pc = "socket" /\ pc' = "send"
    /\ UNCHANGED <<command, file, index, wire, flags, aux, build>>

Unsent == IF pc \in {"clean", "socket", "send"} THEN build.modified ELSE {}

\* The client fetches its profile when told.  Objects are hosts whose name ends
\* in ms.com: the others, clusters among them, are indexed and never told.
SendNotification(o) ==
    /\ pc = "send" /\ o \in build.modified
    /\ build' = [build EXCEPT !.modified = @ \ {o}]
    /\ told' = [told EXCEPT ![o] = content[o]]
    /\ dropped' = dropped \ {o}
    /\ UNCHANGED <<command, file, index, wire, flags, pc, content, faults>>

\* mutant: the flag is reset after the build instead of before it
BuildDoneResets ==
    /\ pc = "send" /\ build.modified = {}
    /\ pc' = "loop" /\ build' = NoBuild /\ queued' = FALSE
    /\ UNCHANGED <<command, file, index, wire, aux, exit, held, notified>>

BuildDone ==
    /\ pc = "send" /\ build.modified = {}
    /\ pc' = "loop" /\ build' = NoBuild
    /\ UNCHANGED <<command, file, index, wire, flags, aux>>

-----------------------------------------------------------------------------
(* Faults.                                                                  *)

Fault == faults < MaxFaults /\ faults' = faults + 1

\* The database does not answer (an OperationalError of "select 1"), or the
\* index cannot be written: nothing was changed, the update is forgotten.
BuildFails ==
    /\ Fault /\ (pc = "build" \/ (pc = "walk" /\ build.todo = {}))
    /\ pc' = "loop" /\ build' = NoBuild
    /\ UNCHANGED <<command, file, index, wire, flags, content, told, dropped>>

\* The source address cannot be resolved: the build ends with its index
\* written and nobody told.
BindFails ==
    /\ Fault /\ pc = "socket"
    /\ pc' = "loop" /\ build' = NoBuild
    /\ dropped' = dropped \cup Unsent
    /\ UNCHANGED <<command, file, index, wire, flags, content, told>>

\* A datagram is lost, or its host is not in DNS
NotificationLost(o) ==
    /\ Fault /\ pc = "send" /\ o \in build.modified
    /\ build' = [build EXCEPT !.modified = @ \ {o}]
    /\ dropped' = dropped \cup {o}
    /\ UNCHANGED <<command, file, index, wire, flags, pc, content, told>>

\* The daemon dies with its flag and its connections
Crash ==
    /\ Fault /\ pc # "stopped"
    /\ pc' = "stopped" /\ held' = 0 /\ queued' = FALSE /\ exit' = FALSE
    /\ notified' = FALSE /\ wire' = 0 /\ build' = NoBuild
    /\ dropped' = dropped \cup Unsent
    /\ UNCHANGED <<command, file, index, content, told>>

\* A new daemon: a new socket and a new updater thread
Restart ==
    /\ pc = "stopped"
    /\ pc' = "loop" /\ held' = 0 /\ queued' = FALSE /\ exit' = FALSE
    /\ wire' = 0 /\ notified' = FALSE
    /\ UNCHANGED <<command, file, index, aux, build>>

-----------------------------------------------------------------------------
Updater == \/ Loop \/ Woken \/ StartWalk \/ WriteIndex \/ CleanUp
           \/ BindSocket \/ BuildDone
           \/ \E f \in Files : Visit(f)
           \/ \E o \in Objects : SendNotification(o)

BrokerStep(o) == \/ ChangeFormat(o) \/ StartCompile(o) \/ CompileFails(o)
                 \/ ServeProfile(o)
                 \/ Sleep(o) \/ Trigger(o) \/ RemoveProfile(o)

NotifydNext ==
    \/ Tick
    \/ \E o \in Objects : BrokerStep(o)
    \/ LineReceived \/ StopWorker
    \/ Updater \/ TimedOut
    \/ BuildFails \/ BindFails \/ (\E o \in Objects : NotificationLost(o))
    \/ Crash \/ Restart

NotifydSpec == NotifydInit /\ [][NotifydNext]_notifydVars

\* The updater runs when it can and its timed wait ends.  The reactor, blocked
\* in acquire, gets the lock in one of the waits, which last two minutes.
NotifydFairSpec ==
    NotifydSpec /\ WF_notifydVars(Updater) /\ WF_notifydVars(TimedOut)
                /\ SF_notifydVars(LineReceived)

-----------------------------------------------------------------------------
(* What the notifications promise.                                          *)

(* A client that has not been told of its newest profile will be: the       *)
(* profile is newer than the index, so that the next build finds it, or the *)
(* build that runs has it on its list, or its notification failed after the *)
(* index was written (index.py:185 and 228).  This is why a compile sleeps  *)
(* a second with the key held (domain.py): two profiles of an object never  *)
(* have the same modification time.                                         *)
NothingMissed ==
    \A o \in Objects : (content[o] # told[o] /\ Newest(o) # 0)
        => Newest(o) > index[o] \/ o \in Unsent \/ o \in dropped

(* Cleaning up stale files (index.py:156) never takes the newest profile an *)
(* object has, although files may be replaced between the walk and the      *)
(* removal.                                                                 *)
CleanupKeepsNewest ==
    [][CleanUp => \A o \in Objects :
        Newest(o) = Max({file'[<<o, s>>] : s \in Suffix})]_notifydVars

(* An update that is read is followed by a build: even after updates were   *)
(* lost, a client that is behind is told of the profile it had missed, or   *)
(* of a later one, unless there is another fault or the daemon is stopped.  *)
CatchUp ==
    \A o \in Objects : \A v \in 1..MaxTime, k \in 0..MaxFaults :
        (wire > 0 /\ content[o] = v /\ told[o] < v /\ Newest(o) # 0
           /\ index[o] # 0 /\ o \notin dropped /\ faults = k)
        ~> (told[o] >= v \/ faults > k \/ exit \/ Newest(o) = 0)

(* stop_worker's join returns, although an updater that was busy when it    *)
(* was notified misses the notification: do_exit is looked at after every    *)
(* wait, and the wait is timed (aq_notifyd.py:118-137).                      *)
StopsWhenAsked == exit ~> pc = "stopped"

=============================================================================
