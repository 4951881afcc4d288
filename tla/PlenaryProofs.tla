--------------------------- MODULE PlenaryProofs ---------------------------
(***************************************************************************)
(* What a collection of plenaries leaves on disk, for any number of them   *)
(* and any kinds of objects.                                               *)
(***************************************************************************)
EXTENDS PlenaryTransaction, FiniteSetTheorems, SequenceTheorems, TLAPS

Elements(s) == {s[i] : i \in 1..Len(s)}

NoRepeat(s) == \A i, j \in 1..Len(s) : i # j => s[i] # s[j]

\* The template an object had, and the one the command should leave
Before(p) == IF kind[p].prior = "complete" THEN "v0" ELSE NoFile
Goal(p)   == IF Live(p) THEN NewContent(p) ELSE NoFile

Untouched(p) == ContentAt(OldPath(p)) = Before(p) /\ disk[<<p, "b">>] = NoFile

Finished(p) == /\ ContentAt(NewPath(p)) = Goal(p)
               /\ Moved(p) => disk[OldPath(p)] = NoFile

Types == TypeOK /\ NoRepeat(todo)

\* What is stashed is what was there; the write loop begins with all stashed.
Stashed ==
  /\ \A p \in Plenary : stash[p] \in {Before(p), "none"}
  /\ pc = "stash" => \A p \in Plenary \ Elements(todo) : stash[p] = Before(p)
  /\ pc \in {"write", "body"} => \A p \in Plenary : stash[p] = Before(p)

\* How far each template has come.  A plenary that was not stashed has not
\* been written, so that restore may pass it over.
Progress ==
  /\ \A p \in Plenary : ~ Moved(p) => disk[<<p, "b">>] = NoFile
  /\ pc \in {"stash", "failed"} => \A p \in Plenary : Untouched(p)
  /\ pc = "write" => \A p \in Plenary :
                       IF p \in Elements(todo) THEN Untouched(p) ELSE Finished(p)
  /\ pc \in {"body", "written", "done"} => \A p \in Plenary : Finished(p)
  /\ pc = "restore" => \A p \in Plenary :
                         p \notin Elements(todo) \/ stash[p] = "none" => Untouched(p)
  /\ pc = "done" => committed
  /\ committed => pc \in {"done", "compiled"}

IInv == Types /\ Stashed /\ Progress
-----------------------------------------------------------------------------
(* Sequences without repetitions                                            *)

LEMMA HeadGone ==
  ASSUME NEW s \in Seq(Plenary), s # << >>, NoRepeat(s)
  PROVE  /\ Head(s) \in Plenary /\ Head(s) \in Elements(s)
         /\ Tail(s) \in Seq(Plenary) /\ NoRepeat(Tail(s))
         /\ Elements(Tail(s)) = Elements(s) \ {Head(s)}
<1>1. /\ Head(s) \in Plenary /\ Tail(s) \in Seq(Plenary)
      /\ Len(Tail(s)) = Len(s) - 1
      /\ \A i \in 1..Len(Tail(s)) : Tail(s)[i] = s[i + 1]
  BY HeadTailProperties
<1>2. Len(s) \in Nat \ {0} /\ Head(s) = s[1]
  BY EmptySeq
<1>3. NoRepeat(Tail(s))
  BY <1>1, <1>2 DEF NoRepeat
<1>4. ASSUME NEW p \in Elements(s), p # Head(s) PROVE p \in Elements(Tail(s))
  <2>1. PICK i \in 1..Len(s) : p = s[i]
    BY <1>4 DEF Elements
  <2>2. i - 1 \in 1..Len(Tail(s)) /\ Tail(s)[i - 1] = p
    BY <2>1, <1>1, <1>2, <1>4
  <2> QED
    BY <2>2 DEF Elements
<1>5. ASSUME NEW p \in Elements(Tail(s)) PROVE p \in Elements(s) \ {Head(s)}
  <2>1. PICK i \in 1..Len(Tail(s)) : p = Tail(s)[i]
    BY DEF Elements
  <2>2. i + 1 \in 1..Len(s) /\ i + 1 # 1 /\ p = s[i + 1]
    BY <2>1, <1>1, <1>2
  <2> QED
    BY <2>2, <1>2 DEF Elements, NoRepeat
<1>6. Head(s) \in Elements(s)
  BY <1>2 DEF Elements
<1>7. Elements(Tail(s)) = Elements(s) \ {Head(s)}
  BY <1>4, <1>5
<1> QED
  BY <1>1, <1>3, <1>6, <1>7

LEMMA NothingLeft == Elements(<< >>) = {}
  BY EmptySeq DEF Elements

\* self.plenaries holds every plenary, once.
LEMMA OrderHasAll ==
  ASSUME NEW s \in SetToSeqs(Plenary)
  PROVE  s \in Seq(Plenary) /\ NoRepeat(s) /\ Elements(s) = Plenary
<1> DEFINE n == Cardinality(Plenary)
<1>1. n \in Nat /\ s \in [1..n -> Plenary] /\ \A i, j \in 1..n : i # j => s[i] # s[j]
  BY CollectionAssumption, FS_CardinalityType DEF SetToSeqs
<1>2. s \in Seq(Plenary) /\ Len(s) = n
  BY <1>1, IsASeq
<1>3. NoRepeat(s)
  BY <1>1, <1>2 DEF NoRepeat
<1>4. ASSUME NEW p \in Plenary, p \notin Elements(s) PROVE FALSE
  <2>1. s \in [1..n -> Plenary \ {p}]
    BY <1>1, <1>2, <1>4 DEF Elements
  <2>2. IsFiniteSet(Plenary \ {p}) /\ Cardinality(Plenary \ {p}) = n - 1
    BY CollectionAssumption, FS_RemoveElement
  <2>3. IsFiniteSet(1..n) /\ Cardinality(1..n) = n
    <3>1. 1 \in Int /\ n \in Int /\ (IF 1 > n THEN 0 ELSE n - 1 + 1) = n
      BY <1>1
    <3> QED
      BY <3>1, FS_Interval
  <2>4. Cardinality(Plenary \ {p}) < Cardinality(1..n)
    BY <2>2, <2>3, <1>1
  <2>5. \E i, j \in 1..n : i # j /\ s[i] = s[j]
    <3> DEFINE Rest == Plenary \ {p}
               D    == 1..n
    <3>1. s \in [D -> Rest] /\ IsFiniteSet(D) /\ IsFiniteSet(Rest)
          /\ Cardinality(Rest) < Cardinality(D)
      BY <2>1, <2>2, <2>3, <2>4
    <3> HIDE DEF Rest, D
    <3>2. \E i, j \in D : i # j /\ s[i] = s[j]
      BY ONLY <3>1, FS_PigeonHole
    <3> QED
      BY <3>2 DEF D
  <2> QED
    BY <2>5, <1>1
<1> QED
  BY <1>1, <1>2, <1>3, <1>4 DEF Elements

-----------------------------------------------------------------------------
(* The initial states, and facts about one plenary                          *)

LEMMA NoFileIsNone == /\ NoFile \notin File /\ NoFile \notin Content /\ NoFile # "none"
                      /\ "v0" \in Content /\ "v1" \in Content /\ "none" \notin Content
  BY CollectionAssumption DEF Content

LEMMA KindFacts ==
  ASSUME Types, NEW p \in Plenary
  PROVE  /\ kind[p].prior \in {"absent", "incomplete", "complete"}
         /\ kind[p].fate \in {"live", "incomplete", "deleted"}
         /\ kind[p].moved \in BOOLEAN /\ kind[p].changed \in BOOLEAN
         /\ kind[p].object \in BOOLEAN
         /\ kind[p].compileable \in BOOLEAN /\ kind[p].host \in BOOLEAN
         /\ Moved(p) => kind[p].changed
         /\ kind[p].prior # "complete" /\ kind[p].fate = "live" => kind[p].changed
         /\ OldPath(p) \in Path /\ NewPath(p) \in Path /\ <<p, "b">> \in Path
         /\ OldPath(p) # <<p, "b">>
<1>1. kind[p] \in ObjectKind /\ kind[p] \in Kind
  BY KindAssumption DEF Types, TypeOK
<1>2. /\ kind[p].moved => kind[p].changed
      /\ kind[p].prior = "absent" => kind[p].changed
      /\ kind[p].prior = "incomplete" /\ kind[p].fate = "live" => kind[p].changed
  BY <1>1, KindAssumption
<1> QED
  BY <1>1, <1>2 DEF ObjectKind, Moved, OldPath, NewPath, Path

LEMMA FileContent ==
  ASSUME Types, NEW path \in Path
  PROVE  /\ ContentAt(path) \in Content \cup {NoFile}
         /\ ContentAt(path) = NoFile <=> disk[path] = NoFile
  BY NoFileIsNone DEF Types, TypeOK, ContentAt, File

LEMMA Prior ==
  ASSUME NEW p \in Plenary
  PROVE  /\ PriorFile(p) \in File \cup {NoFile}
         /\ PriorFile(p) # NoFile => PriorFile(p).content = "v0"
         /\ PriorFile(p) = NoFile <=> kind[p].prior # "complete"
<1>1. [content |-> "v0", time |-> 0] \in File
  BY CollectionAssumption DEF File, Content
<1> QED
  BY <1>1, NoFileIsNone DEF PriorFile

LEMMA InitInv == Init => IInv
<1> SUFFICES ASSUME Init PROVE IInv
  OBVIOUS
<1>1. order \in Seq(Plenary) /\ NoRepeat(order) /\ Elements(order) = Plenary
  BY OrderHasAll DEF Init
<1>2. \A path \in Path : path[1] \in Plenary
  BY DEF Path
<1>3. disk \in [Path -> File \cup {NoFile}] /\ built \in [Path -> File \cup {NoFile}]
  BY <1>2, Prior DEF Init
<1>4. Types
  <2>1. profile \in [Plenary -> Content \cup {NoFile}]
    BY NoFileIsNone DEF Init
  <2>2. stash \in [Plenary -> Content \cup {NoFile, "none"}] /\ clock \in 0..MaxTime
    BY CollectionAssumption DEF Init
  <2> QED
    BY <1>1, <1>3, <2>1, <2>2 DEF Types, TypeOK, Init, PC
<1>5. Stashed
  BY <1>1, <1>4 DEF Stashed, Init
<1>6. ASSUME NEW p \in Plenary PROVE Untouched(p)
  <2>1. disk[OldPath(p)] = PriorFile(p) /\ disk[<<p, "b">>] = NoFile
    BY DEF Init, OldPath, Path
  <2> QED
    BY <2>1, Prior DEF Untouched, ContentAt, Before
<1>7. Progress
  BY <1>6 DEF Progress, Init, Untouched
<1> QED
  BY <1>4, <1>5, <1>7 DEF IInv
-----------------------------------------------------------------------------
(* Stashing                                                                 *)

LEMMA StashInv == IInv /\ Stash => IInv'
<1> SUFFICES ASSUME IInv, Stash PROVE IInv'
  OBVIOUS
<1>1. /\ Head(todo) \in Plenary /\ Tail(todo) \in Seq(Plenary) /\ NoRepeat(Tail(todo))
      /\ Elements(Tail(todo)) = Elements(todo) \ {Head(todo)}
  BY HeadGone DEF IInv, Types, TypeOK, Stash
<1> DEFINE h == Head(todo)
<1>2. ContentAt(OldPath(h)) = Before(h) /\ Before(h) \in Content \cup {NoFile}
  BY <1>1, NoFileIsNone DEF IInv, Progress, Untouched, Stash, Before
<1>3. Types'
  BY <1>1, <1>2 DEF IInv, Types, TypeOK, Stash, input, flush, files
<1>4. Stashed'
  BY <1>1, <1>2 DEF IInv, Types, TypeOK, Stashed, Stash, input, Before
<1>5. Progress'
  BY DEF IInv, Progress, Stash, input, flush, files, Untouched, ContentAt, Moved, Before, OldPath
<1> QED
  BY <1>3, <1>4, <1>5 DEF IInv

LEMMA StashDoneInv == IInv /\ StashDone => IInv'
<1> SUFFICES ASSUME IInv, StashDone PROVE IInv'
  OBVIOUS
<1>1. order \in Seq(Plenary) /\ NoRepeat(order) /\ Elements(order) = Plenary
  BY OrderHasAll DEF IInv, Types, TypeOK
<1>2. Types'
  BY <1>1 DEF IInv, Types, TypeOK, StashDone, input, flush, files, PC
<1>3. Stashed'
  BY NothingLeft DEF IInv, Stashed, StashDone, input, Before
<1>4. Progress'
  BY <1>1 DEF IInv, Progress, StashDone, input, flush, files, Untouched, ContentAt, Moved, Before,
              OldPath
<1> QED
  BY <1>2, <1>3, <1>4 DEF IInv

LEMMA StashFailsInv == IInv /\ StashFails => IInv'
<1> SUFFICES ASSUME IInv, StashFails PROVE IInv'
  OBVIOUS
<1>1. order \in Seq(Plenary) /\ NoRepeat(order)
  BY OrderHasAll DEF IInv, Types, TypeOK
<1>2. Types'
  BY <1>1 DEF IInv, Types, TypeOK, StashFails, input, flush, files, PC
<1>3. Stashed'
  BY DEF IInv, Stashed, StashFails, input, Before
<1>4. Progress'
  BY DEF IInv, Progress, StashFails, input, flush, files, Untouched, ContentAt, Moved, Before,
         OldPath
<1> QED
  BY <1>2, <1>3, <1>4 DEF IInv
-----------------------------------------------------------------------------
(* Writing.  The files of another plenary stay as they are.                  *)

SameFiles(p) == disk'[OldPath(p)] = disk[OldPath(p)] /\ disk'[<<p, "b">>] = disk[<<p, "b">>]

LEMMA SameKept ==
  ASSUME NEW p \in Plenary, SameFiles(p), kind' = kind
  PROVE  /\ Untouched(p) => Untouched(p)'
         /\ Finished(p) => Finished(p)'
         /\ Before(p)' = Before(p) /\ Goal(p)' = Goal(p) /\ Moved(p)' = Moved(p)
         /\ OldPath(p)' = OldPath(p) /\ NewPath(p)' = NewPath(p)
  BY DEF SameFiles, Untouched, Finished, ContentAt, OldPath, NewPath, Before, Goal, Live,
         NewContent, Moved

\* What removing the files of p does to any of them
LEMMA Removed ==
  ASSUME Types, NEW p \in Plenary, NEW r \in BOOLEAN, RemoveFiles(p, r)
  PROVE  /\ disk' \in [Path -> File \cup {NoFile}] /\ built' \in [Path -> File \cup {NoFile}]
         /\ profile' \in [Plenary -> Content \cup {NoFile}]
         /\ disk'[OldPath(p)] = NoFile /\ disk'[<<p, "b">>] = disk[<<p, "b">>]
         /\ \A q \in Plenary \ {p} : SameFiles(q)
<1>1. disk' \in [Path -> File \cup {NoFile}] /\ built' \in [Path -> File \cup {NoFile}]
      /\ profile' \in [Plenary -> Content \cup {NoFile}]
  BY DEF Types, TypeOK, RemoveFiles
<1> QED
  BY <1>1, KindFacts DEF Types, TypeOK, RemoveFiles, SameFiles, OldPath, Path

LEMMA WriteFinishes ==
  ASSUME Types, NEW p \in Plenary, Untouched(p), stash[p] = Before(p), kind' = kind,
         \/ WriteNotWanted(p)
         \/ WriteIncomplete(p)
         \/ WriteUnchanged(p)
         \/ WriteChanged(p)
  PROVE  /\ disk' \in [Path -> File \cup {NoFile}] /\ built' \in [Path -> File \cup {NoFile}]
         /\ profile' \in [Plenary -> Content \cup {NoFile}]
         /\ errors' \in BOOLEAN /\ clock' \in 0..MaxTime
         /\ Finished(p)' /\ (~ Moved(p) => disk'[<<p, "b">>] = NoFile)
         /\ \A q \in Plenary \ {p} : SameFiles(q)
<1> DEFINE Typed == /\ disk' \in [Path -> File \cup {NoFile}]
                    /\ built' \in [Path -> File \cup {NoFile}]
                    /\ profile' \in [Plenary -> Content \cup {NoFile}]
                    /\ errors' \in BOOLEAN /\ clock' \in 0..MaxTime
           Others == \A q \in Plenary \ {p} : SameFiles(q)
           Done == Finished(p)' /\ (~ Moved(p) => disk'[<<p, "b">>] = NoFile)
<1>0. /\ Goal(p)' = Goal(p) /\ Moved(p)' = Moved(p)
      /\ OldPath(p)' = OldPath(p) /\ NewPath(p)' = NewPath(p)
  BY DEF OldPath, NewPath, Goal, Live, NewContent, Moved
<1>1. CASE WriteNotWanted(p) \/ WriteIncomplete(p)
  <2>1. PICK r \in BOOLEAN : RemoveFiles(p, r)
    BY <1>1 DEF WriteNotWanted, WriteIncomplete
  <2>2. Goal(p) = NoFile
    BY <1>1 DEF WriteNotWanted, WriteIncomplete, Goal, Live, Deleted
  <2>3. disk'[OldPath(p)] = NoFile /\ disk'[<<p, "b">>] = NoFile /\ Others
    BY <2>1, Removed DEF Untouched
  <2>4. errors' \in BOOLEAN /\ clock' \in 0..MaxTime
    BY <1>1 DEF WriteNotWanted, WriteIncomplete, Types, TypeOK
  <2>5. Typed
    BY <2>1, <2>4, Removed
  <2>6. Done
    BY <1>0, <2>2, <2>3 DEF Finished, ContentAt, NewPath, OldPath
  <2> QED
    BY <2>3, <2>5, <2>6
<1>2. CASE WriteUnchanged(p)
  <2>1. ~ kind[p].changed /\ Goal(p) = Before(p) /\ Live(p)
    BY <1>2, KindFacts, NoFileIsNone DEF WriteUnchanged, NewContent, Before, Goal
  <2>2. ~ kind[p].moved
    BY <2>1, KindFacts DEF Live, Moved, Deleted
  <2>3. UNCHANGED <<disk, built, profile, errors, clock>>
    BY <1>2 DEF WriteUnchanged, files
  <2>4. Typed /\ Others
    BY <2>3 DEF Types, TypeOK, SameFiles
  <2>5. Done
    BY <1>0, <2>1, <2>2, <2>3 DEF Untouched, Finished, Moved, NewPath, ContentAt
  <2> QED
    BY <2>4, <2>5
<1>3. CASE WriteChanged(p)
  <2>1. PICK now \in 0..MaxTime :
          /\ disk' = IF kind[p].moved
                       THEN [disk EXCEPT ![OldPath(p)] = NoFile,
                                         ![NewPath(p)] = NewFile(p, now)]
                       ELSE [disk EXCEPT ![OldPath(p)] = NewFile(p, now)]
          /\ clock' = now
    BY <1>3 DEF WriteChanged, Now
  <2>2. NewFile(p, now) \in File /\ NewFile(p, now).content = Goal(p)
        /\ NewFile(p, now) # NoFile
    BY <1>3, NoFileIsNone DEF NewFile, NewContent, Goal, WriteChanged, File
  <2>3. Typed
    BY <1>3, <2>1, <2>2 DEF Types, TypeOK, WriteChanged
  <2>4. Others
    BY <2>1, KindFacts DEF SameFiles, OldPath, NewPath, Types, TypeOK, Path
  <2>5. ~ Moved(p) => ~ kind[p].moved
    BY <1>3 DEF WriteChanged, Live, Moved
  <2>6. Done
    <3>1. CASE kind[p].moved
      <4>1. disk'[OldPath(p)] = NoFile /\ disk'[NewPath(p)] = NewFile(p, now)
        BY <2>1, <3>1, KindFacts DEF Types, TypeOK, NewPath
      <4> QED
        BY <1>0, <2>2, <2>5, <3>1, <4>1 DEF Finished, ContentAt
    <3>2. CASE ~ kind[p].moved
      <4>1. disk'[OldPath(p)] = NewFile(p, now) /\ disk'[<<p, "b">>] = NoFile
            /\ NewPath(p) = OldPath(p) /\ ~ Moved(p)
        BY <2>1, <3>2, KindFacts DEF Types, TypeOK, NewPath, Moved, Untouched
      <4> QED
        BY <1>0, <2>2, <4>1 DEF Finished, ContentAt
    <3> QED
      BY <3>1, <3>2
  <2> QED
    BY <2>3, <2>4, <2>6
<1> QED
  BY <1>1, <1>2, <1>3

LEMMA WriteInv == IInv /\ Write => IInv'
<1> SUFFICES ASSUME IInv, Write PROVE IInv'
  OBVIOUS
<1>0. PICK h \in Plenary : h = Head(todo)
  BY HeadGone DEF IInv, Types, TypeOK, Write
<1>1. /\ h \in Plenary /\ h \in Elements(todo)
      /\ Tail(todo) \in Seq(Plenary) /\ NoRepeat(Tail(todo))
      /\ Elements(Tail(todo)) = Elements(todo) \ {h}
  BY <1>0, HeadGone DEF IInv, Types, TypeOK, Write
<1>2. kind' = kind /\ stash' = stash /\ pc' = pc /\ pc = "write" /\ committed' = committed
      /\ entry' = entry /\ order' = order /\ todo' = Tail(todo)
  BY DEF Write, input
<1> left' = left /\ failed' = failed
  BY DEF Write, flush
<1>3. /\ disk' \in [Path -> File \cup {NoFile}] /\ built' \in [Path -> File \cup {NoFile}]
      /\ profile' \in [Plenary -> Content \cup {NoFile}]
      /\ errors' \in BOOLEAN /\ clock' \in 0..MaxTime
      /\ Finished(h)' /\ (~ Moved(h) => disk'[<<h, "b">>] = NoFile)
      /\ \A q \in Plenary \ {h} : SameFiles(q)
  <2>1. Untouched(h) /\ stash[h] = Before(h) /\ Types
    BY <1>1, <1>2 DEF IInv, Progress, Stashed
  <2>2. WriteNotWanted(h) \/ WriteIncomplete(h) \/ WriteUnchanged(h) \/ WriteChanged(h)
    BY <1>0 DEF Write
  <2> QED
    BY <1>2, <2>1, <2>2, WriteFinishes
<1>4. Types'
  BY <1>1, <1>2, <1>3 DEF IInv, Types, TypeOK
<1>5. Stashed'
  BY <1>2 DEF IInv, Stashed, Before
<1>6. Progress'
  <2>1. ASSUME NEW q \in Plenary \ {h}
        PROVE  /\ ~ Moved(q) => disk'[<<q, "b">>] = NoFile
               /\ IF q \in Elements(todo) THEN Untouched(q)' ELSE Finished(q)'
    BY <2>1, <1>2, <1>3, SameKept DEF IInv, Progress, SameFiles
  <2>2. \A q \in Plenary : Moved(q)' = Moved(q)
    BY <1>2 DEF Moved
  <2>3. Elements(todo') = Elements(todo) \ {h} /\ pc' = "write" /\ ~ committed'
    BY <1>1, <1>2 DEF IInv, Progress
  <2>4. ASSUME NEW q \in Plenary
        PROVE  /\ ~ Moved(q)' => disk'[<<q, "b">>] = NoFile
               /\ IF q \in Elements(todo') THEN Untouched(q)' ELSE Finished(q)'
    BY <1>3, <2>1, <2>2, <2>3
  <2> QED
    BY <2>3, <2>4 DEF Progress
<1> QED
  BY <1>4, <1>5, <1>6 DEF IInv

LEMMA WriteFailsInv == IInv /\ WriteFails => IInv'
<1> SUFFICES ASSUME IInv, WriteFails PROVE IInv'
  OBVIOUS
<1> DEFINE h == Head(todo)
<1>1. h \in Plenary
  BY HeadGone DEF IInv, Types, TypeOK, WriteFails
<1>2. order \in Seq(Plenary) /\ NoRepeat(order) /\ Elements(order) = Plenary
  BY OrderHasAll DEF IInv, Types, TypeOK
<1>3. kind' = kind /\ stash' = stash /\ pc = "write" /\ pc' = "restore" /\ todo' = order
      /\ committed' = committed /\ entry' = entry /\ order' = order
      /\ errors' = errors /\ clock' = clock /\ left' = left /\ failed' = failed
  BY DEF WriteFails, Unwind, input, flush
<1>4. /\ disk' \in [Path -> File \cup {NoFile}] /\ built' \in [Path -> File \cup {NoFile}]
      /\ profile' \in [Plenary -> Content \cup {NoFile}]
      /\ \A q \in Plenary : disk'[<<q, "b">>] = disk[<<q, "b">>]
  <2>1. CASE RemoveFiles(h, FALSE)
    BY <1>1, <2>1, Removed DEF IInv, SameFiles
  <2>2. CASE UNCHANGED files
    BY <2>2 DEF files, IInv, Types, TypeOK
  <2> QED
    BY <2>1, <2>2 DEF WriteFails
<1>5. Types'
  BY <1>2, <1>3, <1>4 DEF IInv, Types, TypeOK, PC
<1>6. Stashed'
  BY <1>3 DEF IInv, Stashed, Before
<1>7. Progress'
  <2>1. \A q \in Plenary : stash[q] # "none"
    BY <1>3, NoFileIsNone DEF IInv, Stashed, Before
  <2> QED
    BY <1>2, <1>3, <1>4, <2>1 DEF IInv, Progress, Moved
<1> QED
  BY <1>5, <1>6, <1>7 DEF IInv

LEMMA WritesDoneInv == IInv /\ WritesDone => IInv'
<1> SUFFICES ASSUME IInv, WritesDone PROVE IInv'
  OBVIOUS
<1>1. order \in Seq(Plenary) /\ NoRepeat(order) /\ Elements(order) = Plenary
  BY OrderHasAll DEF IInv, Types, TypeOK
<1>2. kind' = kind /\ stash' = stash /\ disk' = disk /\ pc = "write"
      /\ committed' = committed
      /\ \/ pc' = "restore" /\ todo' = order
         \/ pc' = "written" /\ todo' = todo
         \/ pc' = "body" /\ todo' = todo
  BY DEF WritesDone, Unwind, Succeed, input, flush, files
<1>3. Types'
  BY <1>1, <1>2 DEF IInv, Types, TypeOK, WritesDone, PC, input, flush, files
<1>4. \A q \in Plenary : /\ Finished(q) /\ Finished(q)' /\ stash[q] # "none"
                          /\ Before(q)' = Before(q) /\ Moved(q)' = Moved(q)
  BY <1>2, NothingLeft, NoFileIsNone, SameKept
     DEF IInv, Progress, Stashed, Before, WritesDone, SameFiles
<1>5. Stashed'
  BY <1>2, <1>4 DEF IInv, Stashed
<1>6. Progress'
  BY <1>1, <1>2, <1>4 DEF IInv, Progress
<1> QED
  BY <1>3, <1>5, <1>6 DEF IInv
-----------------------------------------------------------------------------
(* The caller's work                                                        *)

LEMMA NowIsTime == \A now \in Now : now \in 0..MaxTime
  BY DEF Now

LEMMA RebuiltType ==
  ASSUME Types, NEW now \in 0..MaxTime, NEW paths \in SUBSET Path,
         \A path \in paths : disk[path] # NoFile
  PROVE  /\ Rebuilt(paths, now) \in [Path -> File \cup {NoFile}]
         /\ \A path \in paths : Rebuilt(paths, now)[path] \in File
<1>1. ASSUME NEW path \in paths
      PROVE [content |-> disk[path].content, time |-> now] \in File /\ path \in Path
  BY <1>1 DEF Types, TypeOK, File
<1>2. ASSUME NEW path \in Path, ~ Outdated(path) PROVE built[path] \in File
  BY <1>2 DEF Outdated, Types, TypeOK
<1> QED
  BY <1>1, <1>2 DEF Rebuilt, Types, TypeOK

\* The steps that leave the templates alone and succeed or fail
LEMMA BodyEnds ==
  ASSUME IInv, Types', pc = "body", UNCHANGED <<input, committed, stash, disk>>,
         Succeed \/ Unwind
  PROVE  IInv'
<1>1. order \in Seq(Plenary) /\ NoRepeat(order) /\ Elements(order) = Plenary
  BY OrderHasAll DEF IInv, Types, TypeOK
<1>2. kind' = kind /\ stash' = stash /\ disk' = disk
      /\ committed' = committed
      /\ \/ pc' = "restore" /\ todo' = order
         \/ pc' = "written" /\ todo' = todo
  BY DEF Unwind, Succeed, input
<1>3. \A q \in Plenary : /\ Finished(q)' /\ stash[q] # "none"
                          /\ Before(q)' = Before(q) /\ Moved(q)' = Moved(q)
  BY <1>2, NoFileIsNone, SameKept DEF IInv, Progress, Stashed, Before, SameFiles
<1>4. Stashed'
  BY <1>2, <1>3 DEF IInv, Stashed
<1>5. Progress'
  BY <1>1, <1>2, <1>3 DEF IInv, Progress
<1> QED
  BY <1>4, <1>5 DEF IInv

LEMMA BodyTypes ==
  ASSUME IInv, CompileSucceeds \/ CompileFails \/ BodySucceeds \/ BodyFails
  PROVE  Types'
<1>1. order \in Seq(Plenary) /\ NoRepeat(order)
  BY OrderHasAll DEF IInv, Types, TypeOK
<1> DEFINE compiled == {NewPath(p) : p \in Source}
<1>2. compiled \in SUBSET Path /\ \A path \in compiled : disk[path] # NoFile
  BY KindFacts DEF IInv, Source
<1>3. CASE CompileSucceeds
  <2>1. PICK now \in Now : built' = Rebuilt(compiled, now) /\ clock' = now + 1
    BY <1>3 DEF CompileSucceeds
  <2>2. built' \in [Path -> File \cup {NoFile}] /\ \A path \in compiled : built'[path] \in File
    BY <1>2, <2>1, NowIsTime, RebuiltType DEF IInv
  <2>3. profile' \in [Plenary -> Content \cup {NoFile}]
    BY <1>3, <2>2 DEF CompileSucceeds, IInv, Types, TypeOK, File
  <2>4. clock' \in 0..MaxTime
    BY <1>3, <2>1, NowIsTime, CollectionAssumption DEF CompileSucceeds
  <2> QED
    BY <1>3, <2>2, <2>3, <2>4
       DEF CompileSucceeds, Succeed, input, flush, IInv, Types, TypeOK, PC
<1>4. CASE CompileFails
  <2>1. PICK now \in Now, good \in SUBSET Source :
            built' = Rebuilt({NewPath(p) : p \in good}, now) /\ clock' = now
    BY <1>4 DEF CompileFails
  <2>2. /\ {NewPath(p) : p \in good} \in SUBSET Path
        /\ \A path \in {NewPath(p) : p \in good} : disk[path] # NoFile
    BY <1>2
  <2>3. built' \in [Path -> File \cup {NoFile}] /\ clock' \in 0..MaxTime
    BY <2>1, <2>2, NowIsTime, RebuiltType DEF IInv
  <2> QED
    BY <1>1, <1>4, <2>3 DEF CompileFails, Unwind, input, flush, IInv, Types, TypeOK, PC
<1>5. CASE BodySucceeds \/ BodyFails
  BY <1>1, <1>5 DEF BodySucceeds, BodyFails, Succeed, Unwind, input, flush, files, IInv, Types,
                    TypeOK, PC
<1> QED
  BY <1>3, <1>4, <1>5

LEMMA BodyInv ==
  IInv /\ (CompileSucceeds \/ CompileFails \/ BodySucceeds \/ BodyFails) => IInv'
<1> SUFFICES ASSUME IInv, CompileSucceeds \/ CompileFails \/ BodySucceeds \/ BodyFails
             PROVE  IInv'
  OBVIOUS
<1>1. /\ pc = "body" /\ UNCHANGED <<input, committed, stash, disk>>
      /\ Succeed \/ Unwind
  BY DEF CompileSucceeds, CompileFails, BodySucceeds, BodyFails, files
<1> QED
  BY <1>1, BodyTypes, BodyEnds
-----------------------------------------------------------------------------
(* Restoring                                                                *)

LEMMA RestoredFiles ==
  ASSUME Types, NEW p \in Plenary, NEW now \in 0..MaxTime, stash[p] = Before(p),
         kind' = kind, disk' = Restored(p, now), ~ Moved(p) => disk[<<p, "b">>] = NoFile
  PROVE  /\ disk' \in [Path -> File \cup {NoFile}]
         /\ Untouched(p)'
         /\ \A q \in Plenary \ {p} : SameFiles(q)
<1>1. Before(p) \in {"v0", NoFile} /\ "v0" # NoFile
  BY NoFileIsNone DEF Before
<1>2. StashedFile(p, now) \in File \cup {NoFile}
      /\ IF StashedFile(p, now) = NoFile THEN Before(p) = NoFile
         ELSE StashedFile(p, now).content = Before(p)
  BY <1>1, NoFileIsNone DEF StashedFile, File
<1>3. disk' \in [Path -> File \cup {NoFile}]
  BY <1>2 DEF Restored, Types, TypeOK
<1>4. disk'[OldPath(p)] = StashedFile(p, now) /\ disk'[<<p, "b">>] = NoFile
  BY KindFacts DEF Restored, Types, TypeOK, Moved, NewPath
<1>5. Untouched(p)'
  BY <1>2, <1>4 DEF Untouched, ContentAt, Before, OldPath
<1>6. ASSUME NEW q \in Plenary \ {p} PROVE SameFiles(q)
  BY KindFacts DEF Restored, SameFiles, OldPath, NewPath, Types, TypeOK, Path
<1> QED
  BY <1>3, <1>5, <1>6

LEMMA RestoreInv == IInv /\ Restore => IInv'
<1> SUFFICES ASSUME IInv, Restore PROVE IInv'
  OBVIOUS
<1>0. PICK h \in Plenary : h = Head(todo)
  BY HeadGone DEF IInv, Types, TypeOK, Restore
<1>1. /\ h \in Elements(todo) /\ Tail(todo) \in Seq(Plenary) /\ NoRepeat(Tail(todo))
      /\ Elements(Tail(todo)) = Elements(todo) \ {h}
  BY <1>0, HeadGone DEF IInv, Types, TypeOK, Restore
<1>2. kind' = kind /\ stash' = stash /\ pc = "restore" /\ pc' = "restore"
      /\ todo' = Tail(todo) /\ ~ committed /\ committed' = committed
  BY DEF Restore, input, IInv, Progress
<1>3. /\ disk' \in [Path -> File \cup {NoFile}] /\ clock' \in 0..MaxTime
      /\ Untouched(h)' /\ \A q \in Plenary \ {h} : SameFiles(q)
  <2>1. CASE stash[h] = "none"
    BY <1>0, <1>2, <2>1, SameKept
       DEF Restore, IInv, Types, TypeOK, Progress, SameFiles
  <2>2. CASE stash[h] # "none"
    <3>1. PICK now \in Now : disk' = Restored(h, now) /\ clock' = now
      BY <1>0, <2>2 DEF Restore
    <3>2. stash[h] = Before(h) /\ Types /\ (~ Moved(h) => disk[<<h, "b">>] = NoFile)
      BY <2>2 DEF IInv, Stashed, Progress
    <3> QED
      BY <1>2, <3>1, <3>2, NowIsTime, RestoredFiles
  <2> QED
    BY <2>1, <2>2
<1>4. Types'
  BY <1>1, <1>2, <1>3 DEF IInv, Types, TypeOK, Restore, input, flush
<1>5. Stashed'
  BY <1>2 DEF IInv, Stashed, Before
<1>6. ASSUME NEW q \in Plenary
      PROVE  /\ ~ Moved(q)' => disk'[<<q, "b">>] = NoFile
             /\ q \notin Elements(todo)' \/ stash'[q] = "none" => Untouched(q)'
  <2>1. CASE q = h
    BY <1>3, <2>1 DEF Untouched
  <2>2. CASE q # h
    BY <1>1, <1>2, <1>3, <2>2, SameKept DEF IInv, Progress, SameFiles
  <2> QED
    BY <2>1, <2>2
<1>7. Progress'
  BY <1>2, <1>6 DEF Progress
<1> QED
  BY <1>4, <1>5, <1>7 DEF IInv

LEMMA RestoreFailsInv == IInv /\ RestoreFails => IInv'
<1> SUFFICES ASSUME IInv, RestoreFails PROVE IInv'
  OBVIOUS
<1>1. disk' \in [Path -> File \cup {NoFile}]
      /\ \A q \in Plenary : disk[<<q, "b">>] = NoFile => disk'[<<q, "b">>] = NoFile
  BY DEF RestoreFails, IInv, Types, TypeOK, Path
<1>2. Types'
  BY <1>1 DEF RestoreFails, IInv, Types, TypeOK, input, flush, PC
<1>3. Stashed'
  BY DEF RestoreFails, IInv, Stashed, Before, input
<1>4. Progress'
  BY <1>1 DEF RestoreFails, IInv, Progress, Moved, input
<1> QED
  BY <1>2, <1>3, <1>4 DEF IInv

LEMMA RestoreDoneInv == IInv /\ RestoreDone => IInv'
<1> SUFFICES ASSUME IInv, RestoreDone PROVE IInv'
  OBVIOUS
<1>1. Types'
  BY DEF RestoreDone, IInv, Types, TypeOK, input, flush, files, PC
<1>2. Stashed'
  BY DEF RestoreDone, IInv, Stashed, Before, input
<1>3. \A q \in Plenary : Untouched(q)' /\ Moved(q)' = Moved(q)
  BY NothingLeft, SameKept
     DEF RestoreDone, IInv, Progress, SameFiles, input, flush, files
<1>4. Progress'
  BY <1>3 DEF RestoreDone, IInv, Progress, files, input, Moved
<1> QED
  BY <1>1, <1>2, <1>4 DEF IInv
-----------------------------------------------------------------------------
(* The commit, the crash, the flush and the later compile                    *)

LEMMA CommitInv == IInv /\ Commit => IInv'
<1> SUFFICES ASSUME IInv, Commit PROVE IInv'
  OBVIOUS
<1>1. Types'
  BY DEF Commit, IInv, Types, TypeOK, input, flush, files, PC
<1>2. Stashed'
  BY DEF Commit, IInv, Stashed, Before, input
<1>3. \A q \in Plenary : Finished(q)' /\ Moved(q)' = Moved(q)
  BY SameKept DEF Commit, IInv, Progress, SameFiles, input, files
<1>4. Progress'
  BY <1>3 DEF Commit, IInv, Progress, files
<1> QED
  BY <1>1, <1>2, <1>4 DEF IInv

\* The steps that change no file and after which nothing is promised yet
LEMMA LeftInv == IInv /\ (CommitFails \/ Crash \/ FlushStart \/ FlushDone) => IInv'
<1> SUFFICES ASSUME IInv, CommitFails \/ Crash \/ FlushStart \/ FlushDone PROVE IInv'
  OBVIOUS
<1>1. /\ UNCHANGED <<kind, entry, order, committed, todo, errors, stash, disk, built, profile,
                     clock>>
      /\ ~ committed /\ pc' \in {"lost", "crashed", "flush", "flushed"}
      /\ left' \subseteq Plenary /\ failed' \subseteq Plenary
  BY DEF CommitFails, Crash, FlushStart, FlushDone, IInv, Progress, Types, TypeOK, input, flush,
         files
<1>2. Types'
  BY <1>1 DEF IInv, Types, TypeOK, PC
<1>3. Stashed'
  BY <1>1 DEF IInv, Stashed, Before
<1>4. Progress'
  BY <1>1 DEF IInv, Progress, Moved
<1> QED
  BY <1>2, <1>3, <1>4 DEF IInv

\* What a flush of one object does to it and to any other
FlushOne(p) == FlushSkips(p) \/ FlushRemoves(p) \/ FlushKeeps(p) \/ FlushWrites(p)

LEMMA FlushOneFiles ==
  ASSUME Types, NEW p \in Plenary, FlushOne(p)
  PROVE  /\ disk' \in [Path -> File \cup {NoFile}] /\ built' \in [Path -> File \cup {NoFile}]
         /\ profile' \in [Plenary -> Content \cup {NoFile}] /\ clock' \in 0..MaxTime
         /\ \A q \in Plenary : disk'[<<q, "b">>] = disk[<<q, "b">>]
         /\ \A q \in Plenary \ {p} : disk'[OldPath(q)] = disk[OldPath(q)]
         /\ ~ Skipped(p) =>
              (IF disk'[OldPath(p)] = NoFile THEN NoFile ELSE disk'[OldPath(p)].content)
                = Wanted(p)
<1>1. Wanted(p) \in Content \cup {NoFile}
  BY NoFileIsNone DEF Wanted, NewContent
<1>2. CASE FlushSkips(p) \/ FlushKeeps(p)
  <2>1. UNCHANGED <<disk, built, profile, clock>>
    BY <1>2 DEF FlushSkips, FlushKeeps, files
  <2> QED
    BY <1>2, <2>1 DEF FlushSkips, FlushKeeps, Types, TypeOK, ContentAt
<1>3. CASE FlushRemoves(p)
  <2>1. PICK r \in BOOLEAN : RemoveFiles(p, r)
    BY <1>3, KindFacts DEF FlushRemoves
  <2>2. clock' \in 0..MaxTime /\ Wanted(p) = NoFile
    BY <1>3 DEF FlushRemoves, Types, TypeOK
  <2> QED
    BY <2>1, <2>2, Removed DEF SameFiles
<1>4. CASE FlushWrites(p)
  <2>1. PICK now \in 0..MaxTime :
          /\ disk' = [disk EXCEPT ![OldPath(p)] = [content |-> Wanted(p), time |-> now]]
          /\ clock' = now
    BY <1>4 DEF FlushWrites, Now
  <2>2. Wanted(p) # NoFile /\ built' = built /\ profile' = profile
    BY <1>4 DEF FlushWrites
  <2>3. [content |-> Wanted(p), time |-> now] \in File
    BY <1>1, <2>2 DEF File
  <2>4. disk' \in [Path -> File \cup {NoFile}]
    BY <2>1, <2>3 DEF Types, TypeOK
  <2>5. disk'[OldPath(p)] = [content |-> Wanted(p), time |-> now]
    BY <2>1, KindFacts DEF Types, TypeOK
  <2>6. \A q \in Plenary : disk'[<<q, "b">>] = disk[<<q, "b">>]
    BY <2>1, KindFacts DEF Types, TypeOK, OldPath, Path
  <2>7. \A q \in Plenary \ {p} : disk'[OldPath(q)] = disk[OldPath(q)]
    BY <2>1, KindFacts DEF Types, TypeOK, OldPath, Path
  <2>8. (IF disk'[OldPath(p)] = NoFile THEN NoFile ELSE disk'[OldPath(p)].content) = Wanted(p)
    BY <2>3, <2>5, NoFileIsNone
  <2> QED
    BY <2>1, <2>2, <2>4, <2>6, <2>7, <2>8 DEF Types, TypeOK
<1> QED
  BY <1>2, <1>3, <1>4 DEF FlushOne

LEMMA FlushObjectInv == IInv /\ FlushObject => IInv'
<1> SUFFICES ASSUME IInv, FlushObject PROVE IInv'
  OBVIOUS
<1>1. PICK p \in left : FlushOne(p) /\ left' = left \ {p}
  BY DEF FlushObject, FlushOne
<1>2. p \in Plenary /\ Types
  BY <1>1 DEF IInv, Types, TypeOK
<1>3. /\ disk' \in [Path -> File \cup {NoFile}] /\ built' \in [Path -> File \cup {NoFile}]
      /\ profile' \in [Plenary -> Content \cup {NoFile}] /\ clock' \in 0..MaxTime
      /\ \A q \in Plenary : disk'[<<q, "b">>] = disk[<<q, "b">>]
  BY <1>1, <1>2, FlushOneFiles
<1>4. Types'
  BY <1>1, <1>3 DEF FlushObject, IInv, Types, TypeOK, input
<1>5. Stashed'
  BY DEF FlushObject, IInv, Stashed, Before, input
<1>6. Progress'
  BY <1>3 DEF FlushObject, IInv, Progress, Moved, input
<1> QED
  BY <1>4, <1>5, <1>6 DEF IInv

LEMMA FlushObjectFailsInv == IInv /\ FlushObjectFails => IInv'
<1> SUFFICES ASSUME IInv, FlushObjectFails PROVE IInv'
  OBVIOUS
<1>1. Types'
  BY DEF FlushObjectFails, IInv, Types, TypeOK, input, files
<1>2. Stashed'
  BY DEF FlushObjectFails, IInv, Stashed, Before, input
<1>3. Progress'
  BY DEF FlushObjectFails, IInv, Progress, Moved, input, files
<1> QED
  BY <1>1, <1>2, <1>3 DEF IInv

LEMMA NextCompileInv == IInv /\ NextCompile => IInv'
<1> SUFFICES ASSUME IInv, NextCompile PROVE IInv'
  OBVIOUS
<1> DEFINE source == {p \in Plenary : kind[p].object /\ disk[CurrentPath(p)] # NoFile}
           paths  == {CurrentPath(p) : p \in source}
           now    == clock + 1
<1>1. now \in 0..MaxTime
  BY CollectionAssumption DEF NextCompile, IInv, Types, TypeOK
<1>2. paths \in SUBSET Path /\ \A path \in paths : disk[path] # NoFile
  BY KindFacts DEF IInv, CurrentPath
<1>3. built' = Rebuilt(paths, now) /\ clock' = now
      /\ profile' = [p \in Plenary |-> IF p \in source THEN built'[CurrentPath(p)].content
                                       ELSE profile[p]]
  BY DEF NextCompile
<1>4. built' \in [Path -> File \cup {NoFile}] /\ \A path \in paths : built'[path] \in File
  BY <1>1, <1>2, <1>3, RebuiltType DEF IInv
<1>5. profile' \in [Plenary -> Content \cup {NoFile}]
  BY <1>3, <1>4 DEF IInv, Types, TypeOK, File
<1>6. Types'
  BY <1>1, <1>3, <1>4, <1>5 DEF NextCompile, IInv, Types, TypeOK, input, flush, PC
<1>7. Stashed'
  BY DEF NextCompile, IInv, Stashed, Before, input
<1>8. Progress'
  BY DEF NextCompile, IInv, Progress, Moved, input
<1> QED
  BY <1>6, <1>7, <1>8 DEF IInv
-----------------------------------------------------------------------------
LEMMA NextInv == IInv /\ [Next]_vars => IInv'
<1>1. IInv /\ UNCHANGED vars => IInv'
  BY DEF vars, IInv, Types, TypeOK, Stashed, Progress, Untouched, Finished, ContentAt,
         OldPath, NewPath, Before, Goal, Live, NewContent, Moved
<1> QED
  BY <1>1, StashInv, StashDoneInv, StashFailsInv, WriteInv, WriteFailsInv, WritesDoneInv,
     BodyInv, RestoreInv, RestoreFailsInv, RestoreDoneInv, CommitInv, LeftInv,
     FlushObjectInv, FlushObjectFailsInv, NextCompileInv DEF Next

(* Whatever the number and the kinds of the templates, and wherever in the  *)
(* list something failed, a failed command leaves every template as it was  *)
(* and a successful one leaves what the database has (base.py:619-664).      *)
THEOREM OutcomeHolds == Spec => []DiskMatchesOutcome
<1>1. IInv => DiskMatchesOutcome
  <2> SUFFICES ASSUME IInv PROVE DiskMatchesOutcome
    OBVIOUS
  <2>1. AllOrNothing
    BY Prior DEF AllOrNothing, IInv, Progress, Untouched, Before
  <2>2. pc = "done" => \A p \in Plenary : Wanted(p) = Goal(p)
    BY DEF IInv, Progress, Wanted, Goal, Live
  <2>3. DoneMatchesDatabase
    BY <2>2 DEF DoneMatchesDatabase, IInv, Progress, Finished
  <2> QED
    BY <2>1, <2>3 DEF DiskMatchesOutcome
<1> QED
  BY <1>1, InitInv, NextInv, PTL DEF Spec
-----------------------------------------------------------------------------
(* Flushing                                                                 *)

\* What a flush has visited without a failure is as the database says.
Flushing ==
  /\ pc \in {"flush", "flushed"} =>
       \A p \in Plenary : Existed(p) /\ p \notin left /\ p \notin failed /\ ~ Skipped(p)
                            => ContentAt(OldPath(p)) = Wanted(p)
  /\ pc = "flushed" => left = {}

LEMMA SameDatabase ==
  ASSUME kind' = kind, committed' = committed, NEW p \in Plenary
  PROVE  /\ Wanted(p)' = Wanted(p) /\ Existed(p)' = Existed(p) /\ Skipped(p)' = Skipped(p)
         /\ OldPath(p)' = OldPath(p) /\ CurrentPath(p)' = CurrentPath(p)
         /\ NewPath(p)' = NewPath(p) /\ Deleted(p)' = Deleted(p)
         /\ StillServed(p)' = StillServed(p)
  BY DEF Wanted, Existed, Skipped, OldPath, CurrentPath, NewPath, NewContent, StillServed,
         Deleted

LEMMA NextFlushing == IInv /\ Flushing /\ [Next]_vars => Flushing'
<1> SUFFICES ASSUME IInv, Flushing, [Next]_vars PROVE Flushing'
  OBVIOUS
<1>1. CASE FlushStart
  <2>1. /\ left' = {p \in Plenary : Existed(p)} /\ pc' = "flush" /\ kind' = kind
        /\ committed' = committed
    BY <1>1 DEF FlushStart, input
  <2> QED
    BY <2>1, SameDatabase DEF Flushing
<1>2. CASE FlushObject
  <2>1. PICK p \in left : FlushOne(p) /\ left' = left \ {p}
    BY <1>2 DEF FlushObject, FlushOne
  <2>2. /\ p \in Plenary /\ Types /\ pc = "flush" /\ pc' = "flush" /\ failed' = failed
        /\ kind' = kind /\ committed' = committed
    BY <1>2, <2>1 DEF FlushObject, IInv, Types, TypeOK, input
  <2>3. ASSUME NEW q \in Plenary, Existed(q), q \notin left', q \notin failed, ~ Skipped(q)
        PROVE  ContentAt(OldPath(q))' = Wanted(q)
    <3>1. CASE q = p
      BY <2>1, <2>2, <2>3, <3>1, FlushOneFiles DEF ContentAt, OldPath
    <3>2. CASE q # p
      <4>1. ContentAt(OldPath(q)) = Wanted(q)
        BY <2>1, <2>2, <2>3, <3>2 DEF Flushing
      <4>2. disk'[OldPath(q)] = disk[OldPath(q)]
        BY <2>1, <2>2, <3>2, FlushOneFiles
      <4> QED
        BY <4>1, <4>2 DEF ContentAt, OldPath
    <3> QED
      BY <3>1, <3>2
  <2> QED
    BY <2>2, <2>3, SameDatabase DEF Flushing
<1>3. CASE FlushObjectFails \/ FlushDone \/ UNCHANGED vars
  <2>1. /\ kind' = kind /\ committed' = committed /\ disk' = disk
        /\ \A p \in left \ left' : p \in failed'
        /\ failed \subseteq failed' /\ pc' \in {pc, "flushed"}
        /\ pc # pc' => pc = "flush" /\ left = {}
        /\ pc = pc' => pc = "flush" \/ left' = left
    BY <1>3 DEF FlushObjectFails, FlushDone, vars, input, flush, files
  <2>2. \A p \in Plenary : ContentAt(OldPath(p))' = ContentAt(OldPath(p))
    BY <2>1 DEF ContentAt, OldPath
  <2>3. left' \subseteq left
    BY <1>3 DEF FlushObjectFails, FlushDone, vars, flush
  <2> QED
    BY <2>1, <2>2, <2>3, SameDatabase DEF Flushing
<1>4. CASE Next /\ ~ (FlushStart \/ FlushObject \/ FlushObjectFails \/ FlushDone)
  <2>1. pc' \notin {"flush", "flushed"}
    BY <1>4 DEF Next, Stash, StashDone, StashFails, Write, WriteFails, WritesDone, Unwind,
                Succeed, CompileSucceeds, CompileFails, BodySucceeds, BodyFails, Restore,
                RestoreFails, RestoreDone, Commit, CommitFails, Crash, NextCompile
  <2> QED
    BY <2>1 DEF Flushing
<1> QED
  BY <1>1, <1>2, <1>3, <1>4 DEF Next

(* aq flush gives every object it does not report its template back, however *)
(* far a command had come when the broker died, a restore or the commit      *)
(* failed, and however often flush itself failed before (flush.py).          *)
THEOREM FlushRepairsHolds == Spec => []FlushRepairs
<1> DEFINE Inv == IInv /\ Flushing
<1>1. Init => Inv
  BY InitInv DEF Init, Flushing
<1>2. Inv /\ [Next]_vars => Inv'
  BY NextInv, NextFlushing
<1>3. Inv => FlushRepairs
  BY DEF Flushing, FlushRepairs
<1> QED
  BY <1>1, <1>2, <1>3, PTL DEF Spec
-----------------------------------------------------------------------------
(* The profile that is served                                               *)

\* An object that stays and lost its profile has lost its output as well.
Missing ==
  \A p \in Plenary : StillServed(p) /\ profile[p] = NoFile =>
    /\ Deleted(p) /\ built[OldPath(p)] = NoFile
    /\ pc = "compiled" => p \in failed

LEMMA RemovedProfile ==
  ASSUME Types, Missing, NEW p \in Plenary, NEW r \in BOOLEAN, RemoveFiles(p, r),
         r => Deleted(p) \/ ~ kind[p].compileable, UNCHANGED <<kind, committed>>,
         pc # "compiled", pc' # "compiled"
  PROVE  Missing'
<1>1. ASSUME NEW q \in Plenary, StillServed(q), profile'[q] = NoFile
      PROVE  Deleted(q) /\ built'[OldPath(q)] = NoFile
  <2>1. CASE profile[q] = NoFile
    <3>1. Deleted(q) /\ built[OldPath(q)] = NoFile
      BY <1>1, <2>1 DEF Missing
    <3>2. built'[OldPath(q)] = NoFile
      BY <3>1, KindFacts DEF RemoveFiles, Types, TypeOK
    <3> QED
      BY <3>1, <3>2
  <2>2. CASE profile[q] # NoFile
    <3>1. q = p /\ r
      BY <1>1, <2>2 DEF RemoveFiles, Types, TypeOK
    <3>2. kind[p].object /\ kind[p].compileable
      BY <1>1, <3>1 DEF StillServed
    <3>3. built'[OldPath(p)] = NoFile
      BY <3>2, KindFacts DEF RemoveFiles, Types, TypeOK
    <3> QED
      BY <3>1, <3>2, <3>3
  <2> QED
    BY <2>1, <2>2
<1>2. \A q \in Plenary : StillServed(q)' = StillServed(q) /\ Deleted(q)' = Deleted(q)
                         /\ OldPath(q)' = OldPath(q)
  BY SameDatabase
<1> QED
  BY <1>1, <1>2 DEF Missing

\* Neither the profiles nor the outputs of what has none change.
LEMMA MissingKept ==
  ASSUME Types, Missing, UNCHANGED kind, committed => committed',
         pc' = "compiled" => pc = "compiled" /\ failed' = failed,
         \A p \in Plenary : profile'[p] = NoFile => profile[p] = NoFile,
         \A p \in Plenary : Deleted(p) /\ built[OldPath(p)] = NoFile
                              => built'[OldPath(p)] = NoFile
  PROVE  Missing'
<1>1. ASSUME NEW p \in Plenary, StillServed(p)', profile'[p] = NoFile
      PROVE  Deleted(p)' /\ built'[OldPath(p)'] = NoFile
             /\ (pc' = "compiled" => p \in failed')
  <2>1. StillServed(p) /\ Deleted(p)' = Deleted(p) /\ OldPath(p)' = OldPath(p)
    BY <1>1 DEF StillServed, Deleted, OldPath
  <2> QED
    BY <1>1, <2>1 DEF Missing
<1> QED
  BY <1>1 DEF Missing

LEMMA BodyMissing ==
  ASSUME IInv, Missing, CompileSucceeds \/ CompileFails
  PROVE  Missing'
<1> DEFINE compiled == {NewPath(p) : p \in Source}
<1>1. compiled \in SUBSET Path /\ \A path \in compiled : disk[path] # NoFile
  BY KindFacts DEF IInv, Source
<1>2. PICK now \in 0..MaxTime, good \in SUBSET Source :
        built' = Rebuilt({NewPath(p) : p \in good}, now)
  BY NowIsTime DEF CompileSucceeds, CompileFails
<1> DEFINE paths == {NewPath(p) : p \in good}
<1>3. paths \in SUBSET Path
  BY <1>1, <1>2
<1>5. ASSUME NEW p \in Plenary, Deleted(p), built[OldPath(p)] = NoFile
      PROVE  built'[OldPath(p)] = NoFile
  <2>1. disk[NewPath(p)] = NoFile
    <3>1. Goal(p) = NoFile /\ Finished(p)
      BY <1>5 DEF CompileSucceeds, CompileFails, IInv, Progress, Goal, Live, Deleted
    <3>2. ContentAt(NewPath(p)) = NoFile
      BY <3>1 DEF Finished
    <3> QED
      BY <3>2, KindFacts, FileContent DEF IInv
  <2>2. \A q \in Source : NewPath(q) # OldPath(p)
    <3> SUFFICES ASSUME NEW q \in Source, NewPath(q) = OldPath(p) PROVE FALSE
      OBVIOUS
    <3>1. q = p
      BY DEF NewPath, OldPath
    <3> QED
      BY <2>1, <3>1 DEF Source
  <2>3. OldPath(p) \notin paths /\ OldPath(p) \in Path
    BY <2>2, KindFacts DEF IInv
  <2> QED
    BY <1>2, <1>5, <2>3 DEF Rebuilt
<1>6. ASSUME NEW p \in Plenary, profile'[p] = NoFile PROVE profile[p] = NoFile
  <2>1. CASE CompileFails
    BY <1>6, <2>1 DEF CompileFails
  <2>2. CASE CompileSucceeds
    <3>1. PICK t \in Now : built' = Rebuilt(compiled, t)
      BY <2>2 DEF CompileSucceeds
    <3>2. \A path \in compiled : built'[path] \in File
      <4> HIDE DEF compiled
      <4> QED
        BY <1>1, <3>1, NowIsTime, RebuiltType DEF IInv
    <3>3. p \notin Source
      BY <1>6, <2>2, <3>2, NoFileIsNone DEF CompileSucceeds, File
    <3> QED
      BY <1>6, <2>2, <3>3 DEF CompileSucceeds
  <2> QED
    BY <2>1, <2>2
<1>7. Types /\ UNCHANGED <<kind, committed>> /\ pc' # "compiled"
  BY DEF CompileSucceeds, CompileFails, Succeed, Unwind, input, IInv
<1> QED
  BY <1>5, <1>6, <1>7, MissingKept

LEMMA CompiledMissing ==
  ASSUME IInv, Flushing, Missing, NextCompile
  PROVE  Missing'
<1> DEFINE source == {p \in Plenary : kind[p].object /\ disk[CurrentPath(p)] # NoFile}
           paths  == {CurrentPath(p) : p \in source}
           now    == clock + 1
<1>1. now \in 0..MaxTime
  BY CollectionAssumption DEF NextCompile, IInv, Types, TypeOK
<1>2. paths \in SUBSET Path /\ \A path \in paths : disk[path] # NoFile
  BY KindFacts DEF IInv, CurrentPath
<1>3. built' = Rebuilt(paths, now)
      /\ profile' = [p \in Plenary |-> IF p \in source THEN built'[CurrentPath(p)].content
                                       ELSE profile[p]]
  BY DEF NextCompile
<1>4. \A path \in paths : built'[path] \in File
  <2> HIDE DEF paths
  <2> QED
    BY <1>1, <1>2, <1>3, RebuiltType DEF IInv
<1>5. kind' = kind /\ committed' = committed /\ failed' = failed
  BY DEF NextCompile, input, flush
<1>6. ASSUME NEW p \in Plenary, StillServed(p), profile'[p] = NoFile
      PROVE  Deleted(p) /\ built'[OldPath(p)] = NoFile /\ p \in failed
  <2>1. p \notin source /\ profile[p] = NoFile
    BY <1>3, <1>4, <1>6, NoFileIsNone DEF File
  <2>2. Deleted(p) /\ built[OldPath(p)] = NoFile
    BY <1>6, <2>1 DEF Missing
  <2>3. ~ committed /\ CurrentPath(p) = OldPath(p) /\ disk[OldPath(p)] = NoFile
    BY <1>6, <2>1, <2>2 DEF StillServed, CurrentPath
  <2>4. ContentAt(OldPath(p)) = NoFile /\ Wanted(p) = "v0" /\ Existed(p) /\ ~ Skipped(p)
    BY <1>6, <2>3 DEF ContentAt, StillServed, Wanted, Existed, Skipped
  <2>5. pc # "failed" /\ pc # "done"
    BY <1>6, <2>3, <2>4, NoFileIsNone
       DEF IInv, Progress, Untouched, Before, StillServed
  <2>6. p \in failed
    BY <2>4, <2>5, NoFileIsNone DEF NextCompile, Flushing
  <2>7. OldPath(p) \notin paths
    <3> SUFFICES ASSUME NEW q \in source, CurrentPath(q) = OldPath(p) PROVE FALSE
      OBVIOUS
    <3>1. q = p
      BY DEF CurrentPath, NewPath, OldPath
    <3> QED
      BY <2>1, <3>1
  <2>8. OldPath(p) \in Path
    BY KindFacts DEF IInv
  <2> QED
    BY <1>3, <2>2, <2>6, <2>7, <2>8 DEF Rebuilt
<1>7. \A q \in Plenary : StillServed(q)' = StillServed(q) /\ Deleted(q)' = Deleted(q)
                         /\ OldPath(q)' = OldPath(q)
  BY <1>5, SameDatabase
<1> QED
  BY <1>5, <1>6, <1>7 DEF Missing

LEMMA NextMissing == IInv /\ Flushing /\ Missing /\ [Next]_vars => Missing'
<1> SUFFICES ASSUME IInv, Flushing, Missing, [Next]_vars PROVE Missing'
  OBVIOUS
<1>0. Types
  BY DEF IInv
<1>1. CASE Write
  <2>1. PICK h \in Plenary : h = Head(todo)
    BY <1>1, HeadGone DEF IInv, Types, TypeOK, Write
  <2>2. UNCHANGED <<kind, committed>> /\ pc # "compiled" /\ pc' # "compiled"
    BY <1>1 DEF Write, input
  <2>3. \/ WriteNotWanted(h) /\ RemoveFiles(h, TRUE)
        \/ RemoveFiles(h, FALSE)
        \/ UNCHANGED <<built, profile>>
        \/ WriteChanged(h)
    BY <1>1, <2>1 DEF Write, WriteNotWanted, WriteIncomplete, WriteUnchanged, files
  <2>4. CASE WriteNotWanted(h) /\ RemoveFiles(h, TRUE)
    BY <1>0, <2>2, <2>4, RemovedProfile DEF WriteNotWanted
  <2>5. CASE RemoveFiles(h, FALSE)
    BY <1>0, <2>2, <2>5, RemovedProfile
  <2>6. CASE UNCHANGED <<built, profile>>
    BY <1>0, <2>2, <2>6, MissingKept
  <2>7. CASE WriteChanged(h)
    <3>1. \A p \in Plenary : built[OldPath(p)] = NoFile => built'[OldPath(p)] = NoFile
      BY <1>0, <2>7, KindFacts DEF WriteChanged, Types, TypeOK
    <3> QED
      BY <1>0, <2>2, <2>7, <3>1, MissingKept DEF WriteChanged
  <2> QED
    BY <2>3, <2>4, <2>5, <2>6, <2>7
<1>2. CASE WriteFails
  <2>1. PICK h \in Plenary : h = Head(todo)
    BY <1>2, HeadGone DEF IInv, Types, TypeOK, WriteFails
  <2>2. UNCHANGED <<kind, committed>> /\ pc # "compiled" /\ pc' # "compiled"
    BY <1>2 DEF WriteFails, Unwind, input
  <2>3. RemoveFiles(h, FALSE) \/ UNCHANGED files
    BY <1>2, <2>1 DEF WriteFails
  <2> QED
    BY <1>0, <2>2, <2>3, RemovedProfile, MissingKept DEF files
<1>3. CASE CompileSucceeds \/ CompileFails
  BY <1>3, BodyMissing
<1>4. CASE FlushObject
  <2>1. PICK p \in left : FlushOne(p)
    BY <1>4 DEF FlushObject, FlushOne
  <2>2. UNCHANGED <<kind, committed>> /\ pc # "compiled" /\ pc' # "compiled" /\ p \in Plenary
    BY <1>0, <1>4 DEF FlushObject, input, Types, TypeOK
  <2>3. CASE FlushRemoves(p)
    <3>1. (~ kind[p].compileable) \in BOOLEAN
      BY <1>0, <2>2, KindFacts
    <3> QED
      BY <1>0, <2>2, <2>3, <3>1, RemovedProfile DEF FlushRemoves
  <2>4. CASE ~ FlushRemoves(p)
    <3>1. UNCHANGED <<built, profile>>
      BY <2>1, <2>4 DEF FlushOne, FlushSkips, FlushKeeps, FlushWrites, files
    <3> QED
      BY <1>0, <2>2, <3>1, MissingKept
  <2> QED
    BY <2>3, <2>4
<1>5. CASE NextCompile
  BY <1>5, CompiledMissing
<1>6. CASE \/ Stash \/ StashDone \/ StashFails \/ WritesDone \/ BodySucceeds \/ BodyFails
           \/ Restore \/ RestoreFails \/ RestoreDone \/ Commit \/ CommitFails \/ Crash
           \/ FlushStart \/ FlushObjectFails \/ FlushDone \/ UNCHANGED vars
  <2>1. /\ UNCHANGED <<kind, built, profile>> /\ (committed => committed')
        /\ (pc' = "compiled" => pc = "compiled" /\ failed' = failed)
    BY <1>6 DEF Stash, StashDone, StashFails, WritesDone, Unwind, Succeed, BodySucceeds,
                BodyFails, Restore, RestoreFails, RestoreDone, Commit, CommitFails, Crash,
                FlushStart, FlushObjectFails, FlushDone, vars, input, flush, files
  <2> QED
    BY <1>0, <2>1, MissingKept
<1> QED
  BY <1>1, <1>2, <1>3, <1>4, <1>5, <1>6 DEF Next

LEMMA InitMissing == Init => Flushing /\ Missing
<1> SUFFICES ASSUME Init PROVE Flushing /\ Missing
  OBVIOUS
<1>1. ASSUME NEW p \in Plenary, StillServed(p) PROVE profile[p] # NoFile
  <2>1. built[OldPath(p)] = PriorFile(p) /\ PriorFile(p) # NoFile
    BY <1>1, Prior DEF StillServed, Init, OldPath, Path
  <2> QED
    BY <2>1, NoFileIsNone DEF Init
<1> QED
  BY <1>1 DEF Flushing, Missing, Init

(* An object that stays in the database is without the profile it was served *)
(* only when its deletion was rolled back, and then the next compile serves   *)
(* it again (base.py:197, 441; del_host.py:136).                             *)
THEOREM ProfileComesBackHolds == Spec => []ProfileComesBack
<1> DEFINE Inv == IInv /\ Flushing /\ Missing
<1>1. Init => Inv
  BY InitInv, InitMissing
<1>2. Inv /\ [Next]_vars => Inv'
  BY NextInv, NextFlushing, NextMissing
<1>3. Inv => ProfileComesBack
  <2> SUFFICES ASSUME Inv, NEW p \in Plenary, StillServed(p), profile[p] = NoFile
               PROVE  /\ Deleted(p)
                      /\ pc \in {"failed", "flushed"} /\ p \notin failed =>
                           ContentAt(OldPath(p)) = "v0" /\ built[OldPath(p)] = NoFile
                      /\ pc = "compiled" => p \in failed
    BY DEF ProfileComesBack
  <2>1. Deleted(p) /\ built[OldPath(p)] = NoFile /\ (pc = "compiled" => p \in failed)
    BY DEF Missing
  <2>2. Wanted(p) = "v0" /\ Existed(p) /\ ~ Skipped(p) /\ Before(p) = "v0"
    BY <2>1 DEF StillServed, Wanted, Existed, Skipped, Before
  <2>3. pc = "failed" => ContentAt(OldPath(p)) = "v0"
    BY <2>2 DEF IInv, Progress, Untouched
  <2>4. pc = "flushed" /\ p \notin failed => ContentAt(OldPath(p)) = "v0"
    BY <2>2 DEF Flushing
  <2> QED
    BY <2>1, <2>3, <2>4
<1> QED
  BY <1>1, <1>2, <1>3, PTL DEF Spec
-----------------------------------------------------------------------------
(* What panc makes of the times                                             *)

UpToDate(path) ==
  (disk[path] # NoFile /\ built[path] # NoFile)
    => disk[path].time > built[path].time \/ disk[path].content = built[path].content

\* An output that is out of date may have the second of its template, once
\* templates are put back; until then it is older.
Fresh ==
  \A path \in Path :
    /\ built[path] # NoFile => built[path].time <= clock
    /\ built[path] # NoFile /\ pc \in {"stash", "write"} => built[path].time < clock
    /\ pc \in {"stash", "write", "body", "written", "done"} => UpToDate(path)
    /\ UpToDate(path) \/ disk[path].time = built[path].time

CompileInv == IInv /\ Flushing /\ Fresh /\ NextCompileServesDatabase

LEMMA Times ==
  ASSUME Types
  PROVE  /\ clock \in Nat
         /\ \A path \in Path : /\ built[path] # NoFile => built[path].time \in Nat
                               /\ disk[path] # NoFile => disk[path].time \in Nat
  BY CollectionAssumption DEF Types, TypeOK, File

\* Templates that go, or are written now; outputs that go
Calm == /\ clock' >= clock
        /\ \A path \in Path :
             /\ built'[path] = built[path] \/ built'[path] = NoFile
             /\ \/ disk'[path] = disk[path] \/ disk'[path] = NoFile
                \/ disk'[path].time >= clock

LEMMA FreshKept ==
  ASSUME Types, Types', Fresh, Calm,
         \/ pc' \notin {"stash", "write", "body", "written", "done"}
         \/ pc = "write" /\ pc' = "write"
  PROVE  Fresh'
<1>1. /\ clock \in Nat /\ clock' \in Nat
      /\ \A path \in Path : /\ built[path] # NoFile => built[path].time \in Nat
                            /\ disk'[path] # NoFile => disk'[path].time \in Nat
                            /\ built'[path] # NoFile => built'[path].time \in Nat
                            /\ disk[path] # NoFile => disk[path].time \in Nat
  BY Times, CollectionAssumption DEF Types, TypeOK, File
<1>2. ASSUME NEW path \in Path, built'[path] # NoFile
      PROVE  /\ built'[path] = built[path] /\ built'[path].time <= clock'
             /\ (pc' = "write" => built'[path].time < clock')
             /\ (pc' = "write" => UpToDate(path)')
             /\ UpToDate(path)' \/ disk'[path].time = built'[path].time
  <2>1. built'[path] = built[path] /\ built[path].time <= clock
        /\ (pc' = "write" => built[path].time < clock)
        /\ (pc' = "write" => UpToDate(path))
        /\ (UpToDate(path) \/ disk[path].time = built[path].time)
    BY <1>2 DEF Calm, Fresh
  <2>2. CASE disk'[path] = NoFile
    BY <1>1, <1>2, <2>1, <2>2 DEF UpToDate, Calm
  <2>3. CASE disk'[path] # NoFile /\ disk'[path] = disk[path]
    BY <1>1, <1>2, <2>1, <2>3 DEF UpToDate, Calm
  <2>4. CASE disk'[path] # NoFile /\ disk'[path].time >= clock
    BY <1>1, <1>2, <2>1, <2>4 DEF UpToDate, Calm
  <2> QED
    BY <2>2, <2>3, <2>4 DEF Calm
<1>3. ASSUME NEW path \in Path, built'[path] = NoFile PROVE UpToDate(path)'
  BY <1>3 DEF UpToDate
<1> QED
  BY <1>2, <1>3 DEF Fresh

LEMMA FreshSame ==
  ASSUME Fresh, UNCHANGED <<disk, built, clock>>,
         pc' \in {"stash", "write"} => pc \in {"stash", "write"},
         pc' \in {"body", "written", "done"}
           => pc \in {"stash", "write", "body", "written", "done"}
  PROVE  Fresh'
  BY DEF Fresh, UpToDate

LEMMA FreshRebuilt ==
  ASSUME Types, Types', Fresh, disk' = disk, NEW paths \in SUBSET Path,
         NEW now \in 0..MaxTime, clock <= now, now <= clock',
         \A path \in paths : disk[path] # NoFile,
         built' = Rebuilt(paths, now),
         pc' \notin {"stash", "write"},
         pc' \in {"body", "written", "done"} => pc \in {"body", "written", "done"}
  PROVE  /\ Fresh'
         /\ \A path \in paths : \/ built'[path].content = disk[path].content
                                \/ /\ ~ UpToDate(path)
                                   /\ built'[path] # NoFile
                                   /\ built'[path].time = disk[path].time
<1>1. /\ clock \in Nat /\ clock' \in Nat /\ now \in Nat
      /\ \A path \in Path : /\ built[path] # NoFile => built[path].time \in Nat
                            /\ disk[path] # NoFile => disk[path].time \in Nat
  BY Times, CollectionAssumption DEF Types, TypeOK
<1>3. ASSUME NEW path \in Path, path \in paths, Outdated(path)
      PROVE  /\ built'[path].content = disk[path].content /\ built'[path].time = now
  BY <1>3 DEF Rebuilt
<1>4. ASSUME NEW path \in Path, ~ (path \in paths /\ Outdated(path))
      PROVE  built'[path] = built[path]
  BY <1>4 DEF Rebuilt
<1>5. ASSUME NEW path \in paths, ~ Outdated(path)
      PROVE  \/ built'[path].content = disk[path].content
             \/ /\ ~ UpToDate(path)
                /\ built'[path] # NoFile /\ built'[path].time = disk[path].time
  <2>1. built'[path] = built[path] /\ built[path] # NoFile /\ disk[path] # NoFile
        /\ ~ (disk[path].time > built[path].time)
    BY <1>4, <1>5 DEF Outdated
  <2>2. UpToDate(path) \/ disk[path].time = built[path].time
    BY DEF Fresh
  <2> QED
    BY <2>1, <2>2 DEF UpToDate
<1>6. ASSUME NEW path \in Path
      PROVE  /\ built'[path] # NoFile => built'[path].time <= clock'
             /\ (pc' \in {"body", "written", "done"} => UpToDate(path)')
             /\ UpToDate(path)' \/ disk'[path].time = built'[path].time
  <2>1. CASE path \in paths /\ Outdated(path)
    BY <1>1, <1>3, <2>1 DEF UpToDate
  <2>2. CASE ~ (path \in paths /\ Outdated(path))
    BY <1>1, <1>4, <2>2 DEF UpToDate, Fresh
  <2> QED
    BY <2>1, <2>2
<1>7. Fresh'
  BY <1>6 DEF Fresh
<1> QED
  BY <1>3, <1>5, <1>7

LEMMA NotBefore == ASSUME Types, NEW now \in Now PROVE now >= clock /\ now \in 0..MaxTime
  BY Times DEF Now

LEMMA RemoveCalm ==
  ASSUME Types, NEW p \in Plenary, NEW r \in BOOLEAN, RemoveFiles(p, r), clock' = clock
  PROVE  Calm
  BY Times DEF RemoveFiles, Types, TypeOK, Calm

LEMMA SameCalm == ASSUME Types, UNCHANGED <<disk, built, clock>> PROVE Calm
  BY Times DEF Calm

LEMMA WriteFresh ==
  ASSUME IInv, IInv', Fresh, Write \/ WriteFails
  PROVE  Fresh'
<1>0. PICK h \in Plenary : h = Head(todo)
  BY HeadGone DEF IInv, Types, TypeOK, Write, WriteFails
<1>1. /\ Types /\ Types' /\ clock \in Nat
      /\ \/ pc' \notin {"stash", "write", "body", "written", "done"}
         \/ pc = "write" /\ pc' = "write"
  BY Times DEF IInv, Write, WriteFails, Unwind
<1>4. CASE WriteChanged(h)
  <2>1. PICK now \in Now :
          /\ disk' = IF kind[h].moved
                       THEN [disk EXCEPT ![OldPath(h)] = NoFile,
                                         ![NewPath(h)] = NewFile(h, now)]
                       ELSE [disk EXCEPT ![OldPath(h)] = NewFile(h, now)]
          /\ clock' = now
    BY <1>4 DEF WriteChanged
  <2>2. now >= clock /\ NewFile(h, now).time = now
    BY <1>1, <2>1, NotBefore DEF NewFile
  <2>3. \A path \in Path : built'[path] = built[path] \/ built'[path] = NoFile
    BY <1>1, <1>4 DEF WriteChanged, Types, TypeOK
  <2>4. \A path \in Path : \/ disk'[path] = disk[path] \/ disk'[path] = NoFile
                           \/ disk'[path].time >= clock
    BY <1>1, <2>1, <2>2 DEF Types, TypeOK
  <2>5. Calm
    BY <2>1, <2>2, <2>3, <2>4 DEF Calm
  <2> QED
    BY <1>1, <2>5, FreshKept
<1>5. CASE ~ WriteChanged(h)
  <2>1. \/ (\E r \in BOOLEAN : RemoveFiles(h, r)) /\ clock' = clock
        \/ UNCHANGED <<disk, built, clock>>
    BY <1>0, <1>5 DEF Write, WriteFails, WriteNotWanted, WriteIncomplete, WriteUnchanged, files
  <2>2. Calm
    BY <1>1, <2>1, RemoveCalm, SameCalm
  <2> QED
    BY <1>1, <2>2, FreshKept
<1> QED
  BY <1>4, <1>5

LEMMA RestoreFresh ==
  ASSUME IInv, IInv', Fresh, Restore \/ RestoreFails
  PROVE  Fresh'
<1>1. /\ Types /\ Types' /\ clock \in Nat
      /\ pc' \notin {"stash", "write", "body", "written", "done"}
  BY Times DEF IInv, Restore, RestoreFails
<1>2. CASE Restore
  <2>1. PICK h \in Plenary : h = Head(todo)
    BY <1>2, HeadGone DEF IInv, Types, TypeOK, Restore
  <2>2. CASE UNCHANGED <<disk, clock>>
    BY <1>1, <1>2, <2>2, SameCalm, FreshKept DEF Restore
  <2>3. CASE \E now \in Now : disk' = Restored(h, now) /\ clock' = now
    <3>1. PICK now \in Now : disk' = Restored(h, now) /\ clock' = now
      BY <2>3
    <3>2. now >= clock
      BY <1>1, NotBefore
    <3>3. StashedFile(h, now) = NoFile \/ StashedFile(h, now).time = now
      BY DEF StashedFile
    <3>4. \A path \in Path : \/ disk'[path] = disk[path] \/ disk'[path] = NoFile
                             \/ disk'[path].time >= clock
      BY <1>1, <3>1, <3>2, <3>3 DEF Restored, Types, TypeOK
    <3>5. Calm
      BY <1>2, <3>1, <3>2, <3>4 DEF Restore, Calm
    <3> QED
      BY <1>1, <3>5, FreshKept
  <2> QED
    BY <1>2, <2>1, <2>2, <2>3 DEF Restore
<1>3. CASE RestoreFails
  <2>1. Calm
    BY <1>1, <1>3 DEF RestoreFails, Types, TypeOK, Calm
  <2> QED
    BY <1>1, <2>1, FreshKept
<1> QED
  BY <1>2, <1>3

LEMMA FlushFresh ==
  ASSUME IInv, IInv', Fresh, FlushObject
  PROVE  Fresh'
<1>1. /\ Types /\ Types' /\ clock \in Nat
      /\ pc' \notin {"stash", "write", "body", "written", "done"}
  BY Times DEF IInv, FlushObject
<1>2. PICK p \in Plenary : FlushOne(p)
  BY <1>1 DEF FlushObject, FlushOne, Types, TypeOK
<1>3. CASE FlushRemoves(p)
  <2>1. (~ kind[p].compileable) \in BOOLEAN
    BY <1>1, KindFacts
  <2> QED
    BY <1>1, <1>3, <2>1, RemoveCalm, FreshKept DEF FlushRemoves
<1>4. CASE FlushWrites(p)
  <2>1. PICK now \in Now :
          /\ disk' = [disk EXCEPT ![OldPath(p)] = [content |-> Wanted(p), time |-> now]]
          /\ clock' = now
    BY <1>4 DEF FlushWrites
  <2>2. now >= clock
    BY <1>1, NotBefore
  <2>3. Calm
    BY <1>1, <1>4, <2>1, <2>2 DEF FlushWrites, Types, TypeOK, Calm
  <2> QED
    BY <1>1, <2>3, FreshKept
<1>5. CASE FlushSkips(p) \/ FlushKeeps(p)
  BY <1>1, <1>5, SameCalm, FreshKept DEF FlushSkips, FlushKeeps, files
<1> QED
  BY <1>2, <1>3, <1>4, <1>5 DEF FlushOne

\* What a compile asks for is there.
LEMMA CompileFresh ==
  ASSUME IInv, IInv', Fresh, CompileSucceeds \/ CompileFails
  PROVE  Fresh'
<1>1. Types /\ Types' /\ clock \in Nat /\ pc = "body" /\ pc' \in {"written", "restore"}
  BY Times DEF IInv, CompileSucceeds, CompileFails, Succeed, Unwind
<1>2. \A p \in Source : NewPath(p) \in Path /\ disk[NewPath(p)] # NoFile
  BY <1>1, KindFacts DEF Source
<1>3. PICK now \in Now, good \in SUBSET Source :
        built' = Rebuilt({NewPath(p) : p \in good}, now) /\ clock' \in {now, now + 1}
  BY DEF CompileSucceeds, CompileFails
<1>4. now >= clock /\ now \in 0..MaxTime
  BY <1>1, <1>3, NotBefore
<1>5. now <= clock' /\ clock <= now
  BY <1>1, <1>3, <1>4, CollectionAssumption
<1> DEFINE paths == {NewPath(p) : p \in good}
<1>6. paths \in SUBSET Path /\ (\A path \in paths : disk[path] # NoFile)
      /\ built' = Rebuilt(paths, now)
  BY <1>2, <1>3
<1>7. disk' = disk
  BY DEF CompileSucceeds, CompileFails
<1> HIDE DEF paths
<1> QED
  BY <1>1, <1>4, <1>5, <1>6, <1>7, FreshRebuilt

\* The template the later compile finds is what the database says.
LEMMA CurrentIsWanted ==
  ASSUME IInv, Flushing, pc \in {"done", "failed", "flushed"},
         NEW p \in Plenary, Wanted(p) # NoFile, p \notin failed
  PROVE  ContentAt(CurrentPath(p)) = Wanted(p)
<1>1. CASE pc = "done"
  <2>1. committed /\ Wanted(p) = Goal(p)
    BY <1>1 DEF IInv, Progress, Wanted, Goal, Live
  <2> QED
    BY <1>1, <2>1 DEF IInv, Progress, Finished, CurrentPath
<1>2. CASE pc # "done"
  <2>1. ~ committed /\ kind[p].prior = "complete" /\ Wanted(p) = "v0" /\ ~ Skipped(p)
    BY <1>2 DEF IInv, Progress, Wanted, Skipped
  <2>2. CASE pc = "failed"
    BY <2>1, <2>2 DEF IInv, Progress, Untouched, Before, CurrentPath
  <2>3. CASE pc = "flushed"
    BY <2>1, <2>3 DEF Flushing, Existed, CurrentPath
  <2> QED
    BY <1>2, <2>2, <2>3
<1> QED
  BY <1>1, <1>2

LEMMA NextCompileServes ==
  ASSUME IInv, IInv', Fresh, Flushing, NextCompile
  PROVE  Fresh' /\ NextCompileServesDatabase'
<1> DEFINE source == {p \in Plenary : kind[p].object /\ disk[CurrentPath(p)] # NoFile}
           paths  == {CurrentPath(p) : p \in source}
<1>1. /\ Types /\ Types' /\ clock \in Nat /\ disk' = disk /\ kind' = kind
      /\ committed' = committed /\ pc' = "compiled" /\ failed' = failed
      /\ pc \in {"done", "failed", "flushed"}
  BY Times DEF IInv, NextCompile, input, flush
<1>2. PICK now \in 0..MaxTime : clock <= now /\ now = clock' /\ now <= clock'
  BY <1>1 DEF NextCompile, Types, TypeOK
<1>3. paths \in SUBSET Path /\ \A path \in paths : disk[path] # NoFile
  BY <1>1, KindFacts DEF CurrentPath
<1>4. built' = Rebuilt(paths, now)
      /\ profile' = [p \in Plenary |-> IF p \in source THEN built'[CurrentPath(p)].content
                                       ELSE profile[p]]
  BY <1>2 DEF NextCompile
<1>5. /\ Fresh'
      /\ \A path \in paths : \/ built'[path].content = disk[path].content
                             \/ /\ ~ UpToDate(path)
                                /\ built'[path] # NoFile
                                /\ built'[path].time = disk[path].time
  <2> HIDE DEF paths
  <2> QED
    BY <1>1, <1>2, <1>3, <1>4, FreshRebuilt
<1>6. ASSUME NEW p \in Plenary, kind[p].object, Wanted(p) # NoFile, p \notin failed
      PROVE  profile'[p] = Wanted(p) \/ SameSecond(p)'
  <2>2. ContentAt(CurrentPath(p)) = Wanted(p)
    BY <1>1, <1>6, CurrentIsWanted
  <2>3. disk[CurrentPath(p)] # NoFile /\ disk[CurrentPath(p)].content = Wanted(p)
        /\ CurrentPath(p) \in Path
    BY <1>1, <1>6, <2>2, KindFacts DEF ContentAt, CurrentPath
  <2>4. p \in source /\ profile'[p] = built'[CurrentPath(p)].content
    BY <1>4, <1>6, <2>3
  <2>5. CASE built'[CurrentPath(p)].content = disk[CurrentPath(p)].content
    BY <2>3, <2>4, <2>5
  <2>6. CASE /\ ~ UpToDate(CurrentPath(p)) /\ built'[CurrentPath(p)] # NoFile
             /\ built'[CurrentPath(p)].time = disk[CurrentPath(p)].time
    <3>1. ~ committed
      BY <1>1, <2>3, <2>6 DEF Fresh, IInv, Progress
    <3> QED
      BY <1>1, <2>6, <3>1, SameDatabase DEF SameSecond
  <2> QED
    BY <1>5, <2>4, <2>5, <2>6
<1> QED
  BY <1>1, <1>5, <1>6, SameDatabase DEF NextCompileServesDatabase

LEMMA InitCompile == Init => Fresh /\ NextCompileServesDatabase
<1> SUFFICES ASSUME Init PROVE Fresh /\ NextCompileServesDatabase
  OBVIOUS
<1>1. NextCompileServesDatabase
  BY DEF Init, NextCompileServesDatabase
<1>2. ASSUME NEW path \in Path, built[path] # NoFile
      PROVE  built[path] = disk[path] /\ built[path].time = 0 /\ clock = 1
  BY <1>2 DEF Init, PriorFile
<1> QED
  BY <1>1, <1>2 DEF Fresh, UpToDate

LEMMA NextServes == CompileInv /\ [Next]_vars => CompileInv'
<1> SUFFICES ASSUME CompileInv, [Next]_vars PROVE CompileInv'
  OBVIOUS
<1>1. IInv /\ IInv' /\ Flushing /\ Flushing' /\ Fresh
  BY NextInv, NextFlushing DEF CompileInv
<1>2. CASE NextCompile
  BY <1>1, <1>2, NextCompileServes DEF CompileInv
<1>3. CASE UNCHANGED vars
  <2>1. Fresh'
    BY <1>1, <1>3, FreshSame DEF vars
  <2>2. NextCompileServesDatabase'
    BY <1>3 DEF CompileInv, NextCompileServesDatabase, SameSecond, vars, Wanted, NewContent,
                CurrentPath, OldPath, NewPath
  <2> QED
    BY <1>1, <2>1, <2>2 DEF CompileInv
<1>4. CASE Next /\ ~ NextCompile
  <2>1. pc' # "compiled"
    BY <1>4 DEF Next, Stash, StashDone, StashFails, Write, WriteFails, WritesDone, Unwind,
                Succeed, CompileSucceeds, CompileFails, BodySucceeds, BodyFails, Restore,
                RestoreFails, RestoreDone, Commit, CommitFails, Crash, FlushStart,
                FlushObject, FlushObjectFails, FlushDone
  <2>2. Fresh'
    <3>1. CASE Write \/ WriteFails
      BY <1>1, <3>1, WriteFresh
    <3>2. CASE Restore \/ RestoreFails
      BY <1>1, <3>2, RestoreFresh
    <3>3. CASE CompileSucceeds \/ CompileFails
      BY <1>1, <3>3, CompileFresh
    <3>4. CASE FlushObject
      BY <1>1, <3>4, FlushFresh
    <3>5. CASE \/ Stash \/ StashDone \/ StashFails \/ WritesDone \/ BodySucceeds \/ BodyFails
               \/ RestoreDone \/ Commit \/ CommitFails \/ Crash
               \/ FlushStart \/ FlushObjectFails \/ FlushDone
      <4>1. /\ UNCHANGED <<disk, built, clock>>
            /\ pc' \in {"stash", "write"} => pc \in {"stash", "write"}
            /\ pc' \in {"body", "written", "done"}
                 => pc \in {"stash", "write", "body", "written", "done"}
        BY <3>5 DEF Stash, StashDone, StashFails, WritesDone, BodySucceeds, BodyFails,
                    RestoreDone, Commit, CommitFails, Crash, FlushStart, FlushObjectFails,
                    FlushDone, Unwind, Succeed, files
      <4> QED
        BY <1>1, <4>1, FreshSame
    <3> QED
      BY <1>4, <3>1, <3>2, <3>3, <3>4, <3>5 DEF Next
  <2> QED
    BY <1>1, <2>1, <2>2 DEF CompileInv, NextCompileServesDatabase
<1> QED
  BY <1>2, <1>3, <1>4

(* What a later compile of the domain serves is what the database says, but  *)
(* where a template was put back within the second in which a compile that   *)
(* then failed had built it, and where flush reports a failure (base.py:302, *)
(* domain.py:262).  No assumption is made on how long anything takes.        *)
THEOREM CompileServesHolds == Spec => []NextCompileServesDatabase
<1>1. Init => CompileInv
  BY InitInv, InitCompile, InitMissing DEF CompileInv
<1>2. CompileInv /\ [Next]_vars => CompileInv'
  BY NextServes
<1>3. CompileInv => NextCompileServesDatabase
  BY DEF CompileInv
<1> QED
  BY <1>1, <1>2, <1>3, PTL DEF Spec
=============================================================================
