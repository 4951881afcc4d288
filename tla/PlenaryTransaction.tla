------------------------- MODULE PlenaryTransaction -------------------------
(***************************************************************************)
(* One collection of plenary templates taken through stash, write, the      *)
(* caller's work and, on failure, restore: lib/aquilon/worker/templates/    *)
(* base.py (Plenary, ObjectPlenary, PlenaryCollection), and the compile     *)
(* that may be that work (templates/domain.py, with etc/build.xml).  The    *)
(* thread holds the collection's lock throughout; LockQueue is about that.  *)
(*                                                                         *)
(* A plenary is the template of one database object.  It has the path the   *)
(* object had when the plenary was made and the one it has now.  A file is  *)
(* a content, for the version of the database it was generated from, and a   *)
(* modification time in whole seconds, which is what panc compares.          *)
(*                                                                         *)
(* The broker commits the session after the files are done and the lock is  *)
(* released, so that the two can fall apart; "aq flush" then regenerates    *)
(* every template from the database, one object at a time.                  *)
(*                                                                         *)
(* Bound: MaxTime caps the clock.                                           *)
(***************************************************************************)
EXTENDS Naturals, SequencesExt

CONSTANTS Plenary,    \* the plenaries of the collection
          Kind,       \* what may be true of their database objects
          NoFile,
          MaxTime

Path == Plenary \X {"a", "b"}

Content == {"v0", "v1"}

File == [content : Content, time : 0..MaxTime]

(* prior: what the object was before the command.  fate: what the command's *)
(* session made of it.  changed: its template's content is different.        *)
ObjectKind == [prior : {"absent", "incomplete", "complete"},
               fate : {"live", "incomplete", "deleted"},
               moved : BOOLEAN,
               changed : BOOLEAN,
               compileable : BOOLEAN,
               host : BOOLEAN,              \* of a host, which flush may skip
               object : BOOLEAN,            \* an ObjectPlenary
               allow_incomplete : BOOLEAN]

(* The template's text names the object and its branch, so that one that    *)
(* moves always changes.                                                    *)
ASSUME KindAssumption ==
  /\ Kind \subseteq ObjectKind
  /\ \A k \in Kind : k.moved => k.changed /\ k.prior # "absent"
  /\ \A k \in Kind : k.prior = "absent" => k.changed /\ k.fate # "deleted"
  /\ \A k \in Kind : k.prior = "incomplete" /\ k.fate = "live" => k.changed

ASSUME CollectionAssumption ==
  /\ IsFiniteSet(Plenary)
  /\ MaxTime \in Nat \ {0}
  /\ NoFile \notin File /\ NoFile \notin Content /\ NoFile # "none"

VARIABLES kind,      \* kind[p]
          entry,     \* "transaction": "with plenaries.transaction()"; "write":
                     \* plenaries.write(), which has no work of the caller
          order,     \* the list self.plenaries
          pc,
          committed, \* the command succeeded: the database has its changes
          todo,      \* the plenaries the current loop has still to visit
          errors,    \* an IncompleteError was collected
          stash,     \* stash[p]: old_content once stashed, else "none"
          disk,      \* disk[path]: the template there
          built,     \* built[path]: panc's output for it
          profile,   \* profile[p]: the content of the profile served on the web
          left,      \* the plenaries flush has still to visit
          failed,    \* those it names in its PartialError
          clock

vars == <<kind, entry, order, pc, committed, todo, errors, stash, disk, built,
          profile, left, failed, clock>>

input == <<kind, entry, order>>        \* what a behaviour starts with

files == <<disk, built, profile>>

flush == <<left, failed>>

PC == {"stash", "write", "body", "restore", "written", "done", "failed", "broken",
       "lost", "crashed", "flush", "flushed", "compiled"}

TypeOK == /\ kind \in [Plenary -> Kind]
          /\ entry \in {"transaction", "write"}
          /\ order \in SetToSeqs(Plenary)
          /\ pc \in PC
          /\ committed \in BOOLEAN
          /\ todo \in Seq(Plenary)
          /\ errors \in BOOLEAN
          /\ stash \in [Plenary -> Content \cup {NoFile, "none"}]
          /\ disk \in [Path -> File \cup {NoFile}]
          /\ built \in [Path -> File \cup {NoFile}]
          /\ profile \in [Plenary -> Content \cup {NoFile}]
          /\ left \subseteq Plenary
          /\ failed \subseteq Plenary
          /\ clock \in 0..MaxTime

-----------------------------------------------------------------------------
(* Plenary.__init__ and stash: old_path and, unless deleted, new_path. *)
OldPath(p) == <<p, "a">>

NewPath(p) == IF kind[p].moved THEN <<p, "b">> ELSE OldPath(p)

Moved(p) == kind[p].moved /\ kind[p].fate # "deleted"

Deleted(p) == kind[p].fate = "deleted"

NewContent(p) == IF kind[p].changed THEN "v1" ELSE "v0"

ContentAt(path) == IF disk[path] = NoFile THEN NoFile ELSE disk[path].content

(* What the last compile left: template, output and profile agree. *)
PriorFile(p) == IF kind[p].prior = "complete" THEN [content |-> "v0", time |-> 0]
                ELSE NoFile

Init == /\ kind \in [Plenary -> Kind]
        /\ entry \in {"transaction", "write"}
        /\ order \in SetToSeqs(Plenary)
        /\ pc = "stash"
        /\ committed = FALSE
        /\ todo = order
        /\ errors = FALSE
        /\ stash = [p \in Plenary |-> "none"]
        /\ disk = [path \in Path |-> IF path[2] = "a" THEN PriorFile(path[1])
                                     ELSE NoFile]
        /\ built = [path \in Path |->
                      IF path[2] = "a" /\ kind[path[1]].object
                                       /\ kind[path[1]].compileable
                        THEN PriorFile(path[1]) ELSE NoFile]
        /\ profile = [p \in Plenary |->
                        IF built[OldPath(p)] = NoFile THEN NoFile ELSE "v0"]
        /\ left = {}
        /\ failed = {}
        /\ clock = 1

(* When work that starts now may end: in the same second or in the next one. *)
Now == {clock, clock + 1} \cap 0..MaxTime

-----------------------------------------------------------------------------
(* PlenaryCollection.stash, called by transaction() before its "try" and by *)
(* write() inside it.                                                       *)
Stash == /\ pc = "stash" /\ todo # << >>
         /\ stash' = [stash EXCEPT ![Head(todo)] = ContentAt(OldPath(Head(todo)))]
         /\ todo' = Tail(todo)
         /\ UNCHANGED <<input, flush, pc, committed, errors, files, clock>>

StashDone == /\ pc = "stash" /\ todo = << >>
             /\ pc' = "write"
             /\ todo' = order
             /\ UNCHANGED <<input, flush, committed, errors, stash, files, clock>>

(* The object is dirty, or the file cannot be read. *)
StashFails == /\ pc = "stash" /\ todo # << >>
              /\ IF entry = "transaction"
                   THEN pc' = "failed" /\ UNCHANGED todo
                   ELSE pc' = "restore" /\ todo' = order
              /\ UNCHANGED <<input, flush, committed, errors, stash, files, clock>>

-----------------------------------------------------------------------------
(* ObjectPlenary._remove and Plenary._remove: the build output of an object *)
(* template goes with it, the published profile when remove_profile is set. *)
RemoveFiles(p, remove_profile) ==
  /\ disk' = [disk EXCEPT ![OldPath(p)] = NoFile]
  /\ built' = IF kind[p].object THEN [built EXCEPT ![OldPath(p)] = NoFile]
              ELSE built
  /\ profile' = IF kind[p].object /\ remove_profile
                  THEN [profile EXCEPT ![p] = NoFile] ELSE profile

(* Plenary._write, one definition per outcome.  Both write() and             *)
(* transaction() ask for remove_profile.                                    *)
WriteNotWanted(p) == /\ ~ kind[p].compileable \/ Deleted(p)
                     /\ RemoveFiles(p, TRUE)
                     /\ UNCHANGED <<errors, clock>>

(* mutant: the profile is dropped along with an incomplete template. *)
WriteIncompleteNoProfile(p) ==
  /\ kind[p].compileable /\ kind[p].fate = "incomplete"
  /\ RemoveFiles(p, TRUE)
  /\ errors' = (errors \/ ~ kind[p].allow_incomplete)
  /\ UNCHANGED clock

WriteIncomplete(p) == /\ kind[p].compileable /\ kind[p].fate = "incomplete"
                      /\ RemoveFiles(p, FALSE)
                      /\ errors' = (errors \/ ~ kind[p].allow_incomplete)
                      /\ UNCHANGED clock

Live(p) == kind[p].compileable /\ kind[p].fate = "live"

WriteUnchanged(p) == /\ Live(p)
                     /\ stash[p] = NewContent(p)
                     /\ UNCHANGED <<files, errors, clock>>

NewFile(p, now) == [content |-> NewContent(p), time |-> now]

(* A template that moved leaves its old location, outputs included. *)
WriteChanged(p) ==
  /\ Live(p)
  /\ stash[p] # NewContent(p)
  /\ \E now \in Now :
       /\ disk' = IF kind[p].moved
                    THEN [disk EXCEPT ![OldPath(p)] = NoFile,
                                      ![NewPath(p)] = NewFile(p, now)]
                    ELSE [disk EXCEPT ![OldPath(p)] = NewFile(p, now)]
       /\ clock' = now
  /\ built' = IF kind[p].moved /\ kind[p].object
                THEN [built EXCEPT ![OldPath(p)] = NoFile] ELSE built
  /\ UNCHANGED <<profile, errors>>

Write == /\ pc = "write" /\ todo # << >>
         /\ \/ WriteNotWanted(Head(todo))
            \/ WriteIncomplete(Head(todo))
            \/ WriteUnchanged(Head(todo))
            \/ WriteChanged(Head(todo))
         /\ todo' = Tail(todo)
         /\ UNCHANGED <<input, flush, pc, committed, stash>>

(* Every error from here on makes the collection restore its stash. *)
Unwind == pc' = "restore" /\ todo' = order

(* write_file raises OSError (disk full, directory gone), after the cleanup *)
(* of the old location.                                                     *)
WriteFails ==
  /\ pc = "write" /\ todo # << >>
  /\ LET p == Head(todo)
     IN  /\ Live(p)
         /\ stash[p] # NewContent(p)
         /\ IF kind[p].moved THEN RemoveFiles(p, FALSE) ELSE UNCHANGED files
  /\ Unwind
  /\ UNCHANGED <<input, flush, committed, errors, stash, clock>>

(* The files are done and the lock goes; the session is not yet committed.   *)
Succeed == pc' = "written" /\ UNCHANGED todo

(* PlenaryCollection._write raises when it is through, not before. *)
WritesDone ==
  /\ pc = "write" /\ todo = << >>
  /\ \/ errors /\ Unwind
     \/ ~ errors /\ entry = "write" /\ Succeed
     \/ ~ errors /\ entry = "transaction" /\ pc' = "body" /\ UNCHANGED todo
  /\ UNCHANGED <<input, flush, committed, errors, stash, files, clock>>

-----------------------------------------------------------------------------
(* panc with checkDependencies: an output is rebuilt when it is missing or  *)
(* older than its template.  It knows times in seconds.                     *)
Outdated(path) == \/ built[path] = NoFile
                  \/ disk[path].time > built[path].time

Rebuilt(paths, now) ==
  [path \in Path |-> IF path \in paths /\ Outdated(path)
                       THEN [content |-> disk[path].content, time |-> now]
                       ELSE built[path]]

(* The object templates the compile is asked for (object_templates). *)
Source == {p \in Plenary : /\ kind[p].object /\ kind[p].compileable
                           /\ disk[NewPath(p)] # NoFile}

(* TemplateDomain.compile: ant runs panc over the templates and, when all of *)
(* them compile, copies the outputs to the web directory; then sleep(1).    *)
CompileSucceeds ==
  /\ pc = "body"
  /\ \E now \in Now :
       /\ built' = Rebuilt({NewPath(p) : p \in Source}, now)
       /\ clock' = now + 1
  /\ clock' <= MaxTime
  /\ profile' = [p \in Plenary |-> IF p \in Source THEN built'[NewPath(p)].content
                                   ELSE profile[p]]
  /\ Succeed
  /\ UNCHANGED <<input, flush, committed, errors, stash, disk>>

(* Some profiles compile, another does not: ArgumentError, at once. *)
CompileFails ==
  /\ pc = "body"
  /\ \E now \in Now, good \in SUBSET Source :
       /\ good # Source
       /\ built' = Rebuilt({NewPath(p) : p \in good}, now)
       /\ clock' = now
  /\ Unwind
  /\ UNCHANGED <<input, flush, committed, errors, stash, disk, profile>>

BodySucceeds == /\ pc = "body"
                /\ Succeed
                /\ UNCHANGED <<input, flush, committed, errors, stash, files, clock>>

(* DSDB, Infoblox or anything else the caller does fails. *)
BodyFails == /\ pc = "body"
             /\ Unwind
             /\ UNCHANGED <<input, flush, committed, errors, stash, files, clock>>

-----------------------------------------------------------------------------
(* What restore_stash puts back. *)
StashedFile(p, now) == IF stash[p] = NoFile THEN NoFile
                       ELSE [content |-> stash[p], time |-> now]

(* mutant: the new location of a moved template is forgotten. *)
RestoredInPlace(p, now) == [disk EXCEPT ![OldPath(p)] = StashedFile(p, now)]

(* mutant: the timestamp is restored with the content. *)
RestoredWithTime(p, now) ==
  IF Moved(p) THEN [disk EXCEPT ![OldPath(p)] = StashedFile(p, 0),
                                ![NewPath(p)] = NoFile]
  ELSE [disk EXCEPT ![OldPath(p)] = StashedFile(p, 0)]

(* Plenary.restore_stash: the old content in the old place, not its time. *)
Restored(p, now) ==
  IF Moved(p) THEN [disk EXCEPT ![OldPath(p)] = StashedFile(p, now),
                                ![NewPath(p)] = NoFile]
  ELSE [disk EXCEPT ![OldPath(p)] = StashedFile(p, now)]

Restore == /\ pc = "restore" /\ todo # << >>
           /\ LET p == Head(todo)
              IN  IF stash[p] = "none" THEN UNCHANGED <<disk, clock>>
                  ELSE \E now \in Now : disk' = Restored(p, now) /\ clock' = now
           /\ todo' = Tail(todo)
           /\ UNCHANGED <<input, flush, pc, committed, errors, stash, built, profile>>

(* Nothing catches an error of restore_stash: the rest stays as it is. *)
RestoreFails == /\ pc = "restore" /\ todo # << >>
                /\ stash[Head(todo)] \in Content
                /\ disk' = IF Moved(Head(todo))
                             THEN [disk EXCEPT ![NewPath(Head(todo))] = NoFile] ELSE disk
                /\ pc' = "broken"
                /\ UNCHANGED <<input, flush, committed, todo, errors, stash, built, profile,
                               clock>>

RestoreDone == /\ pc = "restore" /\ todo = << >>
               /\ pc' = "failed"
               /\ UNCHANGED <<input, flush, committed, todo, errors, stash, files, clock>>

-----------------------------------------------------------------------------
(* BrokerCommand.invoke: session.commit once render is through.  When it     *)
(* fails the session rolls back, and nobody restores the files.             *)
Commit == /\ pc = "written"
          /\ pc' = "done"
          /\ committed' = TRUE
          /\ UNCHANGED <<input, flush, todo, errors, stash, files, clock>>

CommitFails == /\ pc = "written"
               /\ pc' = "lost"
               /\ UNCHANGED <<input, flush, committed, todo, errors, stash, files, clock>>

(* The broker dies with the database transaction open, or during a flush.   *)
Crash == /\ pc \in {"write", "body", "restore", "written", "flush"}
         /\ pc' = "crashed"
         /\ UNCHANGED <<input, flush, committed, todo, errors, stash, files, clock>>

-----------------------------------------------------------------------------
(* Where the database has the object now, and the template it should have.  *)
CurrentPath(p) == IF committed THEN NewPath(p) ELSE OldPath(p)

Wanted(p) ==
  IF ~ kind[p].compileable THEN NoFile
  ELSE IF committed THEN (IF kind[p].fate = "live" THEN NewContent(p) ELSE NoFile)
  ELSE IF kind[p].prior = "complete" THEN "v0" ELSE NoFile

Existed(p) == kind[p].prior # "absent"

(* aq flush, which the administrator runs after a command that ended badly,  *)
(* and again while it reports failures.  The database is back to what it    *)
(* was; a file that belongs to no object is not looked at.                  *)
FlushStart == /\ pc \in {"crashed", "broken", "lost", "flushed"}
              /\ pc' = "flush"
              /\ left' = {p \in Plenary : Existed(p)}
              /\ failed' = {}
              /\ UNCHANGED <<input, committed, todo, errors, stash, files, clock>>

(* Hosts that are not compileable are passed over, clusters are not. *)
Skipped(p) == kind[p].host /\ ~ kind[p].compileable

FlushSkips(p) == Skipped(p) /\ UNCHANGED <<files, clock>>

FlushRemoves(p) == /\ ~ Skipped(p)
                   /\ Wanted(p) = NoFile
                   /\ RemoveFiles(p, ~ kind[p].compileable)
                   /\ UNCHANGED clock

(* mutant: a template that is there is taken for current. *)
FlushKeepsAny(p) == /\ Wanted(p) # NoFile
                    /\ ContentAt(OldPath(p)) # NoFile
                    /\ UNCHANGED <<files, clock>>

FlushKeeps(p) == /\ Wanted(p) # NoFile
                 /\ ContentAt(OldPath(p)) = Wanted(p)
                 /\ UNCHANGED <<files, clock>>

FlushWrites(p) == /\ Wanted(p) # NoFile
                  /\ ContentAt(OldPath(p)) # Wanted(p)
                  /\ \E now \in Now :
                       /\ disk' = [disk EXCEPT ![OldPath(p)] =
                                     [content |-> Wanted(p), time |-> now]]
                       /\ clock' = now
                  /\ UNCHANGED <<built, profile>>

(* Plenary.get_plenary and _write of one object, in the order of a query.   *)
FlushObject ==
  /\ pc = "flush"
  /\ \E p \in left : /\ \/ FlushSkips(p)
                         \/ FlushRemoves(p)
                         \/ FlushKeeps(p)
                         \/ FlushWrites(p)
                      /\ left' = left \ {p}
  /\ UNCHANGED <<input, pc, committed, todo, errors, stash, failed>>

(* Any exception: the object is reported, the loop goes on with the next.   *)
FlushObjectFails ==
  /\ pc = "flush"
  /\ \E p \in left : /\ ~ Skipped(p)
                      /\ failed' = failed \cup {p}
                      /\ left' = left \ {p}
  /\ UNCHANGED <<input, pc, committed, todo, errors, stash, files, clock>>

FlushDone == /\ pc = "flush" /\ left = {}
             /\ pc' = "flushed"
             /\ UNCHANGED <<input, flush, committed, todo, errors, stash, files, clock>>

(* A later "aq compile" of the domain. *)
NextCompile ==
  LET source == {p \in Plenary : /\ kind[p].object
                                 /\ disk[CurrentPath(p)] # NoFile}
  IN  /\ pc \in {"done", "failed", "flushed"}
      /\ clock < MaxTime
      /\ clock' = clock + 1
      /\ built' = Rebuilt({CurrentPath(p) : p \in source}, clock')
      /\ profile' = [p \in Plenary |->
                       IF p \in source THEN built'[CurrentPath(p)].content
                       ELSE profile[p]]
      /\ pc' = "compiled"
      /\ UNCHANGED <<input, flush, committed, todo, errors, stash, disk>>

Next == \/ Stash \/ StashDone \/ StashFails
        \/ Write \/ WriteFails \/ WritesDone
        \/ CompileSucceeds \/ CompileFails \/ BodySucceeds \/ BodyFails
        \/ Restore \/ RestoreFails \/ RestoreDone
        \/ Commit \/ CommitFails \/ Crash
        \/ FlushStart \/ FlushObject \/ FlushObjectFails \/ FlushDone
        \/ NextCompile

Spec == Init /\ [][Next]_vars
-----------------------------------------------------------------------------
(* A command that fails before its commit leaves every template as it found *)
(* it, wherever in the list it failed (restore_stash), a leftover at a new   *)
(* location included.                                                       *)
AllOrNothing ==
  pc = "failed" => \A p \in Plenary :
                     /\ ContentAt(OldPath(p)) = (IF PriorFile(p) = NoFile THEN NoFile
                                                 ELSE "v0")
                     /\ disk[<<p, "b">>] = NoFile

(* A command that succeeds leaves exactly the templates its objects should  *)
(* have, at the place they should be, and none where they were (_write).    *)
DoneMatchesDatabase ==
  pc = "done" => \A p \in Plenary :
                   /\ ContentAt(NewPath(p)) = Wanted(p)
                   /\ Moved(p) => disk[OldPath(p)] = NoFile

(* When a command is over, the templates are what its outcome says, wherever *)
(* in write() or after it something failed (base.py:619-664).                *)
DiskMatchesOutcome == AllOrNothing /\ DoneMatchesDatabase

(* Whatever a crash, a restore that failed or a commit that failed left, and  *)
(* however often flush failed or died before: at its end every object of the *)
(* database that it does not name in its PartialError has the template the   *)
(* database says (flush.py).  Not so the hosts it passes over because their   *)
(* archetype is not compileable: a template they once had stays.             *)
FlushRepairs ==
  pc = "flushed" =>
    \A p \in Plenary : Existed(p) /\ p \notin failed /\ ~ Skipped(p)
                         => ContentAt(OldPath(p)) = Wanted(p)

(* The output a failed compile left has the second of the template that was   *)
(* restored or regenerated after it.                                        *)
SameSecond(p) == /\ ~ committed
                 /\ built[CurrentPath(p)] # NoFile
                 /\ built[CurrentPath(p)].time = disk[CurrentPath(p)].time

(* What a later compile of the domain serves is what the database says,     *)
(* whatever happened before (the mtimes _write keeps and restore_stash does *)
(* not, the sleep of compile), but for an object whose template was put     *)
(* back within the second in which a compile that failed had built it: panc  *)
(* takes that output for current.  And but for what flush reports.           *)
NextCompileServesDatabase ==
  pc = "compiled" => \A p \in Plenary :
                       /\ kind[p].object
                       /\ Wanted(p) # NoFile
                       /\ p \notin failed
                       => profile[p] = Wanted(p) \/ SameSecond(p)

(* The profile of an object that was served and is still in the database.   *)
StillServed(p) == /\ kind[p].object /\ kind[p].compileable
                  /\ kind[p].prior = "complete"
                  /\ ~ (committed /\ Deleted(p))

(* No command takes the profile off such an object, even while its template   *)
(* cannot be generated (_remove without remove_profile), but one that        *)
(* deleted the object and was rolled back: restore_stash does not know of    *)
(* profiles.  Then its template is back and its old output is gone, and the  *)
(* next compile serves it again.                                            *)
ProfileComesBack ==
  \A p \in Plenary : StillServed(p) /\ profile[p] = NoFile =>
    /\ Deleted(p)
    /\ pc \in {"failed", "flushed"} /\ p \notin failed =>
         ContentAt(OldPath(p)) = "v0" /\ built[OldPath(p)] = NoFile
    /\ pc = "compiled" => p \in failed
=============================================================================
