------------------------ MODULE BrokerCommandProofs ------------------------
(***************************************************************************)
(* Proofs about BrokerCommand, for any sets of commands and any pools: the *)
(* audit trail, the truth of answers and events, and the agreement of      *)
(* database, plenary and DSDB when commands run one after the other.       *)
(*                                                                         *)
(* Recorded, Told and Serial say of every point of a command what its      *)
(* variables may be; each is inductive with the types and the queue.       *)
(***************************************************************************)
EXTENDS BrokerCommand, TLAPS

Types ==
    /\ pc \in [Commands -> PC]
    /\ \A c \in Commands : pc[c] \in {"read", "flushed"} => c \in Changes
    /\ \A c \in Commands : pc[c] \in {"locked", "written", "rendered"} => c \in Locking
    /\ seen \in [Locking -> Content] /\ stash \in [Locking -> Content]
    /\ db \in Content /\ file \in Content /\ dsdb \in Content
    /\ begun \subseteq Audited
    /\ ended \in [Commands -> {"none"} \cup Outcome]
    /\ result \in [Commands -> {"none"} \cup Outcome]
    /\ published \subseteq Changes /\ unheard \subseteq Changes
    /\ lapsed \subseteq Commands
    /\ serial \in BOOLEAN

\* The queue holds the queued commands, each once.
Queued ==
    /\ queue \in Seq(Commands)
    /\ \A i \in 1..Len(queue) : pc[queue[i]] = "queued"
    /\ \A i, j \in 1..Len(queue) : i # j => queue[i] # queue[j]

Before == {"idle", "queued", "thread", "connected"}
AtWork == {"begun", "read", "flushed", "locked", "written", "rendered", "committed"}

\* No trace of a change is anywhere before its audit record is committed.
Recorded ==
    /\ \A c \in Commands : pc[c] \in Before => c \notin begun
    /\ \A c \in Audited : pc[c] \in AtWork => c \in begun
    /\ \A c \in Changes \ begun :
        /\ ~db[c] /\ ~file[c] /\ ~dsdb[c]
        /\ \A d \in Locking : ~seen[d][c] /\ ~stash[d][c]
    /\ \A c \in Commands : ended[c] # "none" => c \in begun
    /\ \A c \in begun \ lapsed : pc[c] = "done" => ended[c] = result[c]

\* Where a change may be, by what has been answered.
Told ==
    /\ \A c \in Commands : pc[c] \notin {"closing", "done"} => result[c] = "none"
    /\ \A c \in Changes :
        /\ pc[c] = "rendered" => dsdb[c]
        /\ pc[c] = "committed" => db[c] /\ dsdb[c]
        /\ result[c] = "ok" => c \in published \cup unheard /\ db[c] /\ dsdb[c]
        /\ c \in published => db[c]
        /\ (db[c] /\ c \notin lapsed) => pc[c] = "committed" \/ result[c] = "ok"
        /\ (dsdb[c] /\ c \notin lapsed) =>
                pc[c] \in {"rendered", "committed"} \/ result[c] = "ok"

\* A row with the change of c
Marked(f, c) == [f EXCEPT ![c] = TRUE]

\* The row as c leaves it
Mine(c) == IF c \in Changes THEN Marked(db, c) ELSE db

\* While no two locking commands were ever under way together, only one is.
OneByOne ==
    serial => \A c, d \in Locking :
        (pc[c] \notin {"idle", "done"} /\ pc[d] \notin {"idle", "done"}) => c = d

\* Then the file and DSDB differ from the row only by what that one is doing.
Agreed ==
    (serial /\ lapsed = {}) =>
        /\ (\A c \in Locking : pc[c] \notin {"written", "rendered"}) => file = db /\ dsdb = db
        /\ \A c \in Changes : pc[c] \in {"read", "flushed"} => seen[c] = Mine(c)
        /\ \A c \in Locking :
            /\ pc[c] \in {"locked", "written"} => seen[c] = Mine(c) /\ stash[c] = db
            /\ pc[c] = "written" => file = Mine(c) /\ dsdb = db
            /\ pc[c] = "rendered" => file = Mine(c) /\ dsdb = Mine(c)

IInv == Types /\ Queued /\ Recorded /\ Told /\ OneByOne /\ Agreed

\* What setting one column does
LEMMA MarkedColumn ==
    ASSUME NEW f \in Content, NEW c \in Changes
    PROVE  /\ Marked(f, c) \in Content
           /\ Marked(f, c)[c] = TRUE
           /\ \A d \in Changes : d # c => Marked(f, c)[d] = f[d]
BY DEF Marked, Content

LEMMA InitInv == Init => IInv
<1> SUFFICES ASSUME Init PROVE IInv
  OBVIOUS
<1>1. Nothing \in Content /\ \A c \in Changes : ~Nothing[c]
  BY DEF Nothing, Content
<1>2. Types
  BY <1>1 DEF Init, Types, PC, Audited, Outcome
<1>3. Queued
  BY DEF Init, Queued
<1>4. Recorded
  <2>1. \A d \in Locking : seen[d] = Nothing /\ stash[d] = Nothing
    BY DEF Init
  <2> QED
    BY <1>1, <2>1, BrokerAssumption DEF Init, Recorded, AtWork, Audited, Commands
<1>5. Told
  BY <1>1, BrokerAssumption DEF Init, Told, Commands
<1>6. OneByOne /\ Agreed
  BY BrokerAssumption DEF Init, OneByOne, Agreed, Commands, Locking
<1> QED
  BY <1>2, <1>3, <1>4, <1>5, <1>6 DEF IInv

(* The steps of one command.                                                *)

LEMMA Moved ==
    ASSUME Types, NEW c \in Commands, NEW w \in PC, Go(c, w)
    PROVE  /\ pc' \in [Commands -> PC]
           /\ pc'[c] = w
           /\ \A d \in Commands : d # c => pc'[d] = pc[d]
BY DEF Types, Go

LEMMA QueueKept ==
    ASSUME Types, Queued, NEW c \in Commands, NEW w \in PC, Go(c, w),
           pc[c] # "queued", queue' = queue
    PROVE  Queued'
BY DEF Queued, Go

LEMMA ConnectInv ==
    ASSUME IInv, NEW c \in Commands, Connect(c)
    PROVE  IInv'
<1>1. Types /\ Queued /\ Recorded /\ Told /\ OneByOne /\ Agreed
  BY DEF IInv
<1>2. /\ pc' \in [Commands -> PC]
      /\ pc'[c] = "connected"
      /\ \A d \in Commands : d # c => pc'[d] = pc[d]
  BY <1>1, Moved DEF Connect, PC
<1>3. Queued'
  BY <1>1, QueueKept DEF Connect, PC
<1>4. Types'
  BY <1>1, <1>2 DEF Connect, Types, Data, Books
<1>5. Recorded'
  BY <1>1, <1>2 DEF Connect, Types, Recorded, Data, Books, Commands, Audited, Before, AtWork
<1>6. Told'
  BY <1>1, <1>2 DEF Connect, Told, Data, Books, Commands
<1>7. OneByOne'
  BY <1>1, <1>2 DEF Connect, OneByOne, Commands, Locking
<1>8. Agreed'
  BY <1>1, <1>2 DEF Connect, Agreed, Mine, Data, Books, Commands, Locking
<1> QED
  BY <1>3, <1>4, <1>5, <1>6, <1>7, <1>8 DEF IInv

LEMMA CannotConnectInv ==
    ASSUME IInv, NEW c \in Commands, CannotConnect(c)
    PROVE  IInv'
<1>1. Types /\ Queued /\ Recorded /\ Told /\ OneByOne /\ Agreed
  BY DEF IInv
<1>2. /\ pc' \in [Commands -> PC]
      /\ pc'[c] = "done"
      /\ \A d \in Commands : d # c => pc'[d] = pc[d]
  BY <1>1, Moved DEF CannotConnect, PC
<1>3. Queued'
  BY <1>1, QueueKept DEF CannotConnect, PC
<1>4. Types'
  BY <1>1, <1>2 DEF CannotConnect, Types, Data, Outcome
<1>5. Recorded'
  BY <1>1, <1>2 DEF CannotConnect, Types, Recorded, Data, Commands, Audited, Before, AtWork
<1>6. Told'
  BY <1>1, <1>2 DEF CannotConnect, Told, Data, Commands
<1>7. OneByOne'
  BY <1>1, <1>2 DEF CannotConnect, OneByOne, Commands, Locking
<1>8. Agreed'
  BY <1>1, <1>2 DEF CannotConnect, Agreed, Mine, Data, Commands, Locking
<1> QED
  BY <1>3, <1>4, <1>5, <1>6, <1>7, <1>8 DEF IInv

LEMMA BeginInv ==
    ASSUME IInv, NEW c \in Commands, Begin(c)
    PROVE  IInv'
<1>1. Types /\ Queued /\ Recorded /\ Told /\ OneByOne /\ Agreed
  BY DEF IInv
<1>2. /\ pc' \in [Commands -> PC]
      /\ pc'[c] = "begun"
      /\ \A d \in Commands : d # c => pc'[d] = pc[d]
  BY <1>1, Moved DEF Begin, PC
<1>3. Queued'
  BY <1>1, QueueKept DEF Begin, PC
<1>4. Types'
  BY <1>1, <1>2 DEF Begin, Types, Data
<1>5. Recorded'
  BY <1>1, <1>2 DEF Begin, Types, Recorded, Data, Commands, Audited, Before
<1>6. Told'
  BY <1>1, <1>2 DEF Begin, Told, Data, Commands
<1>7. OneByOne'
  BY <1>1, <1>2 DEF Begin, OneByOne, Commands, Locking
<1>8. Agreed'
  BY <1>1, <1>2 DEF Begin, Agreed, Mine, Data, Commands, Locking
<1> QED
  BY <1>3, <1>4, <1>5, <1>6, <1>7, <1>8 DEF IInv

LEMMA CannotBeginInv ==
    ASSUME IInv, NEW c \in Commands, CannotBegin(c)
    PROVE  IInv'
<1>1. Types /\ Queued /\ Recorded /\ Told /\ OneByOne /\ Agreed
  BY DEF IInv
<1>2. /\ pc' \in [Commands -> PC]
      /\ pc'[c] = "failing"
      /\ \A d \in Commands : d # c => pc'[d] = pc[d]
  BY <1>1, Moved DEF CannotBegin, PC
<1>3. Queued'
  BY <1>1, QueueKept DEF CannotBegin, PC
<1>4. Types'
  BY <1>1, <1>2 DEF CannotBegin, Types, Data, Books
<1>5. Recorded'
  BY <1>1, <1>2 DEF CannotBegin, Types, Recorded, Data, Books, Commands, Audited, Before, AtWork
<1>6. Told'
  BY <1>1, <1>2 DEF CannotBegin, Told, Data, Books, Commands
<1>7. OneByOne'
  BY <1>1, <1>2 DEF CannotBegin, OneByOne, Commands, Locking
<1>8. Agreed'
  BY <1>1, <1>2 DEF CannotBegin, Agreed, Mine, Data, Books, Commands, Locking
<1> QED
  BY <1>3, <1>4, <1>5, <1>6, <1>7, <1>8 DEF IInv

LEMMA RefuseInv ==
    ASSUME IInv, NEW c \in Commands, Refuse(c)
    PROVE  IInv'
<1>1. Types /\ Queued /\ Recorded /\ Told /\ OneByOne /\ Agreed
  BY DEF IInv
<1>2. /\ pc' \in [Commands -> PC]
      /\ pc'[c] = "failing"
      /\ \A d \in Commands : d # c => pc'[d] = pc[d]
  BY <1>1, Moved DEF Refuse, PC
<1>3. Queued'
  BY <1>1, QueueKept DEF Refuse, PC
<1>4. Types'
  BY <1>1, <1>2 DEF Refuse, Types, Data, Books
<1>5. Recorded'
  BY <1>1, <1>2 DEF Refuse, Types, Recorded, Data, Books, Commands, Audited, Before, AtWork
<1>6. Told'
  BY <1>1, <1>2 DEF Refuse, Told, Data, Books, Commands
<1>7. OneByOne'
  BY <1>1, <1>2 DEF Refuse, OneByOne, Commands, Locking
<1>8. Agreed'
  BY <1>1, <1>2 DEF Refuse, Agreed, Mine, Data, Books, Commands, Locking
<1> QED
  BY <1>3, <1>4, <1>5, <1>6, <1>7, <1>8 DEF IInv

LEMMA ShowInv ==
    ASSUME IInv, NEW c \in Commands, Show(c)
    PROVE  IInv'
<1>1. Types /\ Queued /\ Recorded /\ Told /\ OneByOne /\ Agreed
  BY DEF IInv
<1>2. /\ pc' \in [Commands -> PC]
      /\ pc'[c] = "closing"
      /\ \A d \in Commands : d # c => pc'[d] = pc[d]
  BY <1>1, Moved DEF Show, PC
<1>3. Queued'
  BY <1>1, QueueKept DEF Show, PC
<1>4. Types'
  BY <1>1, <1>2 DEF Show, Types, Data, Outcome
<1>5. Recorded'
  BY <1>1, <1>2 DEF Show, Types, Recorded, Data, Commands, Audited, Before, AtWork
<1>6. Told'
  BY <1>1, <1>2, BrokerAssumption DEF Show, Told, Data, Commands, Locking
<1>7. OneByOne'
  BY <1>1, <1>2 DEF Show, OneByOne, Commands, Locking
<1>8. Agreed'
  BY <1>1, <1>2 DEF Show, Agreed, Mine, Data, Commands, Locking
<1> QED
  BY <1>3, <1>4, <1>5, <1>6, <1>7, <1>8 DEF IInv

LEMMA ReadRowInv ==
    ASSUME IInv, NEW c \in Commands, ReadRow(c)
    PROVE  IInv'
<1>1. Types /\ Queued /\ Recorded /\ Told /\ OneByOne /\ Agreed
  BY DEF IInv
<1>2. /\ pc' \in [Commands -> PC]
      /\ pc'[c] = "read"
      /\ \A d \in Commands : d # c => pc'[d] = pc[d]
  BY <1>1, Moved DEF ReadRow, PC
<1>3. Queued'
  BY <1>1, QueueKept DEF ReadRow, PC
<1>a. /\ c \in Changes /\ c \in Locking
      /\ seen' = [seen EXCEPT ![c] = Marked(db, c)]
      /\ UNCHANGED <<queue, db, file, stash, dsdb, begun, ended, result, published,
                     unheard, lapsed, serial>>
  BY DEF ReadRow, Data, Books, Marked, Locking
<1>b. /\ Marked(db, c) \in Content
      /\ \A d \in Changes : d # c => Marked(db, c)[d] = db[d]
  BY <1>1, <1>a, MarkedColumn DEF Types
<1>4. Types'
  BY <1>1, <1>2, <1>a, <1>b DEF Types
<1>5. Recorded'
  <2>1. c \in begun /\ pc[c] = "begun"
    BY <1>1 DEF ReadRow, Recorded, Audited, AtWork
  <2>2. \A d \in Locking, e \in Changes \ begun : ~seen'[d][e]
    BY <1>1, <1>a, <1>b, <2>1 DEF Recorded
  <2> QED
    BY <1>1, <1>2, <1>a, <2>1, <2>2 DEF Types, Recorded, Before, Audited, Commands
<1>6. Told'
  BY <1>1, <1>2 DEF ReadRow, Told, Data, Books, Commands
<1>7. OneByOne'
  BY <1>1, <1>2 DEF ReadRow, OneByOne, Commands, Locking
<1>8. Agreed'
  <2>1. \A d \in Changes : Mine(d)' = Mine(d)
    BY <1>a DEF Mine
  <2>2. Mine(c) = Marked(db, c)
    BY <1>a DEF Mine
  <2>3. \A d \in Locking : Mine(d)' = Mine(d)
    BY <1>a DEF Mine
  <2>4. seen'[c] = Mine(c) /\ \A d \in Locking : d # c => seen'[d] = seen[d]
    BY <1>1, <1>a, <2>2 DEF Types
  <2> QED
    BY <1>1, <1>2, <1>a, <2>3, <2>4 DEF ReadRow, Agreed, Commands, Locking
<1> QED
  BY <1>3, <1>4, <1>5, <1>6, <1>7, <1>8 DEF IInv

LEMMA FlushRowInv ==
    ASSUME IInv, NEW c \in Commands, FlushRow(c)
    PROVE  IInv'
<1>1. Types /\ Queued /\ Recorded /\ Told /\ OneByOne /\ Agreed
  BY DEF IInv
<1>2. /\ pc' \in [Commands -> PC]
      /\ pc'[c] = "flushed"
      /\ \A d \in Commands : d # c => pc'[d] = pc[d]
  BY <1>1, Moved DEF FlushRow, PC
<1>3. Queued'
  BY <1>1, QueueKept DEF FlushRow, PC
<1>4. Types'
  BY <1>1, <1>2 DEF FlushRow, Types, Data, Books
<1>5. Recorded'
  BY <1>1, <1>2 DEF FlushRow, Types, Recorded, Data, Books, Commands, Audited, Before, AtWork
<1>6. Told'
  BY <1>1, <1>2 DEF FlushRow, Told, Data, Books, Commands
<1>7. OneByOne'
  BY <1>1, <1>2 DEF FlushRow, OneByOne, Commands, Locking
<1>8. Agreed'
  BY <1>1, <1>2 DEF FlushRow, Agreed, Mine, Data, Books, Commands, Locking
<1> QED
  BY <1>3, <1>4, <1>5, <1>6, <1>7, <1>8 DEF IInv

LEMMA TakeLockInv ==
    ASSUME IInv, NEW c \in Commands, TakeLock(c)
    PROVE  IInv'
<1>1. Types /\ Queued /\ Recorded /\ Told /\ OneByOne /\ Agreed
  BY DEF IInv
<1>2. /\ pc' \in [Commands -> PC]
      /\ pc'[c] = "locked"
      /\ \A d \in Commands : d # c => pc'[d] = pc[d]
  BY <1>1, Moved DEF TakeLock, PC
<1>3. Queued'
  BY <1>1, QueueKept DEF TakeLock, PC
<1>4. Types'
  BY <1>1, <1>2 DEF TakeLock, Types, Books
<1>5. Recorded'
  BY <1>1, <1>2 DEF TakeLock, Types, Recorded, Books, Commands, Audited, Before, AtWork
<1>6. Told'
  BY <1>1, <1>2 DEF TakeLock, Told, Books, Commands
<1>7. OneByOne'
  BY <1>1, <1>2 DEF TakeLock, OneByOne, Commands, Locking
<1>8. Agreed'
  BY <1>1, <1>2, BrokerAssumption DEF TakeLock, Types, Agreed, OneByOne, Mine, Books,
     Commands, Locking
<1> QED
  BY <1>3, <1>4, <1>5, <1>6, <1>7, <1>8 DEF IInv

LEMMA WriteFileInv ==
    ASSUME IInv, NEW c \in Commands, WriteFile(c)
    PROVE  IInv'
<1>1. Types /\ Queued /\ Recorded /\ Told /\ OneByOne /\ Agreed
  BY DEF IInv
<1>2. /\ pc' \in [Commands -> PC]
      /\ pc'[c] = "written"
      /\ \A d \in Commands : d # c => pc'[d] = pc[d]
  BY <1>1, Moved DEF WriteFile, PC
<1>3. Queued'
  BY <1>1, QueueKept DEF WriteFile, PC
<1>a. /\ c \in Locking /\ pc[c] = "locked"
      /\ seen[c] \in Content /\ file' = seen[c]
      /\ UNCHANGED <<queue, seen, db, stash, dsdb, begun, ended, result, published,
                     unheard, lapsed, serial>>
  BY <1>1 DEF WriteFile, Types, Books
<1>4. Types'
  BY <1>1, <1>2, <1>a DEF Types
<1>5. Recorded'
  BY <1>1, <1>2, <1>a DEF Types, Recorded, Audited, Before, AtWork, Commands
<1>6. Told'
  BY <1>1, <1>2 DEF WriteFile, Told, Books, Commands
<1>7. OneByOne'
  BY <1>1, <1>2 DEF WriteFile, OneByOne, Commands, Locking
<1>8. Agreed'
  <2>1. \A d \in Locking : Mine(d)' = Mine(d)
    BY <1>a DEF Mine
  <2>2. \A d \in Locking : serial /\ pc[d] \notin {"idle", "done"} => d = c
    BY <1>1, <1>a DEF OneByOne
  <2>3. serial /\ lapsed = {} => seen[c] = Mine(c) /\ stash[c] = db /\ dsdb = db
    BY <1>1, <1>a, <2>2 DEF Agreed
  <2> QED
    BY <1>2, <1>a, <2>1, <2>2, <2>3 DEF Agreed, Commands, Locking
<1> QED
  BY <1>3, <1>4, <1>5, <1>6, <1>7, <1>8 DEF IInv

\* What a command lets go of when it releases the lock
LEMMA Unlocked ==
    ASSUME IInv, NEW c \in Locking, Unlock(c)
    PROVE  /\ seen' \in [Locking -> Content] /\ stash' \in [Locking -> Content]
           /\ \A d \in Locking : d # c => seen'[d] = seen[d] /\ stash'[d] = stash[d]
           /\ \A d \in Locking, e \in Changes \ begun : ~seen'[d][e] /\ ~stash'[d][e]
<1>1. Nothing \in Content /\ \A e \in Changes : ~Nothing[e]
  BY DEF Nothing, Content
<1>2. /\ seen' \in [Locking -> Content] /\ stash' \in [Locking -> Content]
      /\ \A d \in Locking : d # c => seen'[d] = seen[d] /\ stash'[d] = stash[d]
      /\ seen'[c] = Nothing /\ stash'[c] = Nothing
  BY <1>1 DEF IInv, Types, Unlock
<1>3. \A d \in Locking, e \in Changes \ begun : ~seen'[d][e] /\ ~stash'[d][e]
  BY <1>1, <1>2 DEF IInv, Recorded
<1> QED
  BY <1>2, <1>3

LEMMA CannotWriteInv ==
    ASSUME IInv, NEW c \in Commands, CannotWrite(c)
    PROVE  IInv'
<1>1. Types /\ Queued /\ Recorded /\ Told /\ OneByOne /\ Agreed
  BY DEF IInv
<1>2. /\ pc' \in [Commands -> PC]
      /\ pc'[c] = "failing"
      /\ \A d \in Commands : d # c => pc'[d] = pc[d]
  BY <1>1, Moved DEF CannotWrite, PC
<1>3. Queued'
  BY <1>1, QueueKept DEF CannotWrite, PC
<1>u. /\ seen' \in [Locking -> Content] /\ stash' \in [Locking -> Content]
      /\ \A d \in Locking : d # c => seen'[d] = seen[d] /\ stash'[d] = stash[d]
      /\ \A d \in Locking, e \in Changes \ begun : ~seen'[d][e] /\ ~stash'[d][e]
  BY <1>1, Unlocked DEF CannotWrite, Types, Locking
<1>4. Types'
  BY <1>1, <1>2, <1>u DEF CannotWrite, Types, Data, Books
<1>5. Recorded'
  BY <1>1, <1>2, <1>u DEF CannotWrite, Types, Recorded, Data, Books, Commands, Audited, Before, AtWork
<1>6. Told'
  BY <1>1, <1>2 DEF CannotWrite, Told, Data, Books, Commands
<1>7. OneByOne'
  BY <1>1, <1>2 DEF CannotWrite, OneByOne, Commands, Locking
<1>8. Agreed'
  BY <1>1, <1>2, <1>u DEF CannotWrite, Agreed, Mine, Data, Books, Commands, Locking
<1> QED
  BY <1>3, <1>4, <1>5, <1>6, <1>7, <1>8 DEF IInv

LEMMA UpdateDsdbInv ==
    ASSUME IInv, NEW c \in Commands, UpdateDsdb(c)
    PROVE  IInv'
<1>1. Types /\ Queued /\ Recorded /\ Told /\ OneByOne /\ Agreed
  BY DEF IInv
<1>2. /\ pc' \in [Commands -> PC]
      /\ pc'[c] = "rendered"
      /\ \A d \in Commands : d # c => pc'[d] = pc[d]
  BY <1>1, Moved DEF UpdateDsdb, PC
<1>3. Queued'
  BY <1>1, QueueKept DEF UpdateDsdb, PC
<1>a. /\ c \in Locking /\ pc[c] = "written"
      /\ dsdb' = IF c \in Changes THEN Marked(dsdb, c) ELSE dsdb
      /\ UNCHANGED <<queue, db, file, begun, ended, result, published,
                     unheard, lapsed, serial>>
  BY <1>1 DEF UpdateDsdb, Types, Books, Marked
<1>b. /\ dsdb' \in Content
      /\ c \in Changes => dsdb'[c] = TRUE
      /\ \A d \in Changes : d # c => dsdb'[d] = dsdb[d]
  <2>1. CASE c \in Changes
    <3>1. dsdb \in Content /\ dsdb' = Marked(dsdb, c)
      BY <1>1, <1>a, <2>1 DEF Types
    <3>2. /\ Marked(dsdb, c) \in Content
          /\ Marked(dsdb, c)[c] = TRUE
          /\ \A d \in Changes : d # c => Marked(dsdb, c)[d] = dsdb[d]
      BY <2>1, <3>1, MarkedColumn
    <3> QED
      BY <3>1, <3>2, Zenon
  <2>2. CASE c \notin Changes
    BY <1>1, <1>a, <2>2 DEF Types
  <2> QED
    BY <2>1, <2>2
<1>u. /\ seen' \in [Locking -> Content] /\ stash' \in [Locking -> Content]
      /\ \A d \in Locking : d # c => seen'[d] = seen[d] /\ stash'[d] = stash[d]
      /\ \A d \in Locking, e \in Changes \ begun : ~seen'[d][e] /\ ~stash'[d][e]
  BY <1>1, Unlocked DEF UpdateDsdb, Types, Locking
<1>4. Types'
  BY <1>1, <1>2, <1>a, <1>b, <1>u DEF Types
<1>5. Recorded'
  BY <1>1, <1>2, <1>a, <1>b, <1>u DEF Types, Recorded, Audited, Before, AtWork, Commands
<1>6. Told'
  BY <1>1, <1>2, <1>a, <1>b DEF Told, Commands
<1>7. OneByOne'
  BY <1>1, <1>2 DEF UpdateDsdb, OneByOne, Commands, Locking
<1>8. Agreed'
  <2>1. \A d \in Locking : Mine(d)' = Mine(d)
    BY <1>a DEF Mine
  <2>2. \A d \in Locking : serial /\ pc[d] \notin {"idle", "done"} => d = c
    BY <1>1, <1>a DEF OneByOne
  <2>3. serial /\ lapsed = {} => file = Mine(c) /\ dsdb' = Mine(c)
    BY <1>1, <1>a DEF Agreed, Mine
  <2> QED
    BY <1>2, <1>a, <1>u, <2>1, <2>2, <2>3 DEF Agreed, Commands, Locking
<1> QED
  BY <1>3, <1>4, <1>5, <1>6, <1>7, <1>8 DEF IInv

LEMMA DsdbRefusesInv ==
    ASSUME IInv, NEW c \in Commands, DsdbRefuses(c)
    PROVE  IInv'
<1>1. Types /\ Queued /\ Recorded /\ Told /\ OneByOne /\ Agreed
  BY DEF IInv
<1>2. /\ pc' \in [Commands -> PC]
      /\ pc'[c] = "failing"
      /\ \A d \in Commands : d # c => pc'[d] = pc[d]
  BY <1>1, Moved DEF DsdbRefuses, PC
<1>3. Queued'
  BY <1>1, QueueKept DEF DsdbRefuses, PC
<1>u. /\ seen' \in [Locking -> Content] /\ stash' \in [Locking -> Content]
      /\ \A d \in Locking : d # c => seen'[d] = seen[d] /\ stash'[d] = stash[d]
      /\ \A d \in Locking, e \in Changes \ begun : ~seen'[d][e] /\ ~stash'[d][e]
  BY <1>1, Unlocked DEF DsdbRefuses, Types, Locking
<1>4. Types'
  BY <1>1, <1>2, <1>u DEF DsdbRefuses, Types, Books
<1>5. Recorded'
  BY <1>1, <1>2, <1>u DEF DsdbRefuses, Types, Recorded, Books, Commands, Audited, Before, AtWork
<1>6. Told'
  BY <1>1, <1>2 DEF DsdbRefuses, Told, Books, Commands
<1>7. OneByOne'
  BY <1>1, <1>2 DEF DsdbRefuses, OneByOne, Commands, Locking
<1>8. Agreed'
  BY <1>1, <1>2, <1>u DEF DsdbRefuses, Agreed, OneByOne, Books, Commands, Locking
<1> QED
  BY <1>3, <1>4, <1>5, <1>6, <1>7, <1>8 DEF IInv

LEMMA CommitInv ==
    ASSUME IInv, NEW c \in Commands, Commit(c)
    PROVE  IInv'
<1>1. Types /\ Queued /\ Recorded /\ Told /\ OneByOne /\ Agreed
  BY DEF IInv
<1>2. /\ pc' \in [Commands -> PC]
      /\ pc'[c] = "committed"
      /\ \A d \in Commands : d # c => pc'[d] = pc[d]
  BY <1>1, Moved DEF Commit, PC
<1>3. Queued'
  BY <1>1, QueueKept DEF Commit, PC
<1>a. /\ c \in Locking /\ pc[c] = "rendered"
      /\ db' = Mine(c)
      /\ UNCHANGED <<queue, seen, file, stash, dsdb, begun, ended, result, published, unheard,
                     lapsed, serial>>
  BY <1>1 DEF Commit, Types, Books, Marked, Mine
<1>b. /\ db' \in Content
      /\ c \in Changes => db'[c] = TRUE
      /\ \A d \in Changes : d # c => db'[d] = db[d]
  <2>1. CASE c \in Changes
    <3>1. db \in Content /\ db' = Marked(db, c)
      BY <1>1, <1>a, <2>1 DEF Types, Mine
    <3>2. /\ Marked(db, c) \in Content
          /\ Marked(db, c)[c] = TRUE
          /\ \A d \in Changes : d # c => Marked(db, c)[d] = db[d]
      BY <2>1, <3>1, MarkedColumn
    <3> QED
      BY <3>1, <3>2, Zenon
  <2>2. CASE c \notin Changes
    BY <1>1, <1>a, <2>2 DEF Types, Mine
  <2> QED
    BY <2>1, <2>2
<1>4. Types'
  BY <1>1, <1>2, <1>a, <1>b DEF Types
<1>5. Recorded'
  BY <1>1, <1>2, <1>a, <1>b DEF Types, Recorded, Audited, Before, AtWork, Commands
<1>6. Told'
  BY <1>1, <1>2, <1>a, <1>b DEF Told, Commands
<1>7. OneByOne'
  BY <1>1, <1>2 DEF Commit, OneByOne, Commands, Locking
<1>8. Agreed'
  <2>1. \A d \in Locking : serial /\ pc[d] \notin {"idle", "done"} => d = c
    BY <1>1, <1>a DEF OneByOne
  <2>2. serial /\ lapsed = {} => file = db' /\ dsdb = db'
    BY <1>1, <1>a DEF Agreed
  <2> QED
    BY <1>2, <1>a, <2>1, <2>2 DEF Agreed, Commands, Locking
<1> QED
  BY <1>3, <1>4, <1>5, <1>6, <1>7, <1>8 DEF IInv

LEMMA CannotCommitInv ==
    ASSUME IInv, NEW c \in Commands, CannotCommit(c)
    PROVE  IInv'
<1>1. Types /\ Queued /\ Recorded /\ Told /\ OneByOne /\ Agreed
  BY DEF IInv
<1>2. /\ pc' \in [Commands -> PC]
      /\ pc'[c] = "failing"
      /\ \A d \in Commands : d # c => pc'[d] = pc[d]
  BY <1>1, Moved DEF CannotCommit, PC
<1>3. Queued'
  BY <1>1, QueueKept DEF CannotCommit, PC
<1>4. Types'
  BY <1>1, <1>2 DEF CannotCommit, Types, Data
<1>5. Recorded'
  BY <1>1, <1>2 DEF CannotCommit, Types, Recorded, Data, Commands, Audited, Before, AtWork
<1>6. Told'
  BY <1>1, <1>2 DEF CannotCommit, Told, Data, Commands
<1>7. OneByOne'
  BY <1>1, <1>2 DEF CannotCommit, OneByOne, Commands, Locking
<1>8. Agreed'
  BY DEF CannotCommit, Agreed
<1> QED
  BY <1>3, <1>4, <1>5, <1>6, <1>7, <1>8 DEF IInv

LEMMA PublishInv ==
    ASSUME IInv, NEW c \in Commands, Publish(c)
    PROVE  IInv'
<1>1. Types /\ Queued /\ Recorded /\ Told /\ OneByOne /\ Agreed
  BY DEF IInv
<1>2. /\ pc' \in [Commands -> PC]
      /\ pc'[c] = "closing"
      /\ \A d \in Commands : d # c => pc'[d] = pc[d]
  BY <1>1, Moved DEF Publish, PC
<1>3. Queued'
  BY <1>1, QueueKept DEF Publish, PC
<1>4. Types'
  BY <1>1, <1>2 DEF Publish, Types, Data, Outcome
<1>5. Recorded'
  BY <1>1, <1>2 DEF Publish, Types, Recorded, Data, Commands, Audited, Before, AtWork
<1>6. Told'
  BY <1>1, <1>2 DEF Publish, Types, Told, Data, Commands
<1>7. OneByOne'
  BY <1>1, <1>2 DEF Publish, OneByOne, Commands, Locking
<1>8. Agreed'
  BY <1>1, <1>2 DEF Publish, Agreed, Mine, Data, Commands, Locking
<1> QED
  BY <1>3, <1>4, <1>5, <1>6, <1>7, <1>8 DEF IInv

LEMMA HandlerFailsInv ==
    ASSUME IInv, NEW c \in Commands, HandlerFails(c)
    PROVE  IInv'
<1>1. Types /\ Queued /\ Recorded /\ Told /\ OneByOne /\ Agreed
  BY DEF IInv
<1>2. /\ pc' \in [Commands -> PC]
      /\ pc'[c] = "closing"
      /\ \A d \in Commands : d # c => pc'[d] = pc[d]
  BY <1>1, Moved DEF HandlerFails, PC
<1>3. Queued'
  BY <1>1, QueueKept DEF HandlerFails, PC
<1>4. Types'
  BY <1>1, <1>2 DEF HandlerFails, Types, Data, Outcome
<1>5. Recorded'
  BY <1>1, <1>2 DEF HandlerFails, Types, Recorded, Data, Commands, Audited, Before, AtWork
<1>6. Told'
  BY <1>1, <1>2 DEF HandlerFails, Types, Told, Data, Commands
<1>7. OneByOne'
  BY <1>1, <1>2 DEF HandlerFails, OneByOne, Commands, Locking
<1>8. Agreed'
  BY <1>1, <1>2 DEF HandlerFails, Agreed, Mine, Data, Commands, Locking
<1> QED
  BY <1>3, <1>4, <1>5, <1>6, <1>7, <1>8 DEF IInv

LEMMA CannotPublishInv ==
    ASSUME IInv, NEW c \in Commands, CannotPublish(c)
    PROVE  IInv'
<1>1. Types /\ Queued /\ Recorded /\ Told /\ OneByOne /\ Agreed
  BY DEF IInv
<1>2. /\ pc' \in [Commands -> PC]
      /\ pc'[c] = "failing"
      /\ \A d \in Commands : d # c => pc'[d] = pc[d]
  BY <1>1, Moved DEF CannotPublish, PC
<1>3. Queued'
  BY <1>1, QueueKept DEF CannotPublish, PC
<1>4. Types'
  BY <1>1, <1>2 DEF CannotPublish, Types, Data
<1>5. Recorded'
  BY <1>1, <1>2 DEF CannotPublish, Types, Recorded, Data, Commands, Audited, Before, AtWork
<1>6. Told'
  BY <1>1, <1>2 DEF CannotPublish, Told, Data, Commands
<1>7. OneByOne'
  BY <1>1, <1>2 DEF CannotPublish, OneByOne, Commands, Locking
<1>8. Agreed'
  BY DEF CannotPublish, Agreed
<1> QED
  BY <1>3, <1>4, <1>5, <1>6, <1>7, <1>8 DEF IInv

LEMMA RollbackInv ==
    ASSUME IInv, NEW c \in Commands, Rollback(c)
    PROVE  IInv'
<1>1. Types /\ Queued /\ Recorded /\ Told /\ OneByOne /\ Agreed
  BY DEF IInv
<1>2. /\ pc' \in [Commands -> PC]
      /\ pc'[c] = "closing"
      /\ \A d \in Commands : d # c => pc'[d] = pc[d]
  BY <1>1, Moved DEF Rollback, PC
<1>3. Queued'
  BY <1>1, QueueKept DEF Rollback, PC
<1>4. Types'
  BY <1>1, <1>2 DEF Rollback, Types, Data, Outcome
<1>5. Recorded'
  BY <1>1, <1>2 DEF Rollback, Types, Recorded, Data, Commands, Audited, Before, AtWork
<1>6. Told'
  BY <1>1, <1>2 DEF Rollback, Told, Data, Commands
<1>7. OneByOne'
  BY <1>1, <1>2 DEF Rollback, OneByOne, Commands, Locking
<1>8. Agreed'
  BY <1>1, <1>2 DEF Rollback, Agreed, Mine, Data, Commands, Locking
<1> QED
  BY <1>3, <1>4, <1>5, <1>6, <1>7, <1>8 DEF IInv

LEMMA CannotRollbackInv ==
    ASSUME IInv, NEW c \in Commands, CannotRollback(c)
    PROVE  IInv'
<1>1. Types /\ Queued /\ Recorded /\ Told /\ OneByOne /\ Agreed
  BY DEF IInv
<1>2. /\ pc' \in [Commands -> PC]
      /\ pc'[c] = "done"
      /\ \A d \in Commands : d # c => pc'[d] = pc[d]
  BY <1>1, Moved DEF CannotRollback, PC
<1>3. Queued'
  BY <1>1, QueueKept DEF CannotRollback, PC
<1>4. Types'
  BY <1>1, <1>2 DEF CannotRollback, Types, Data, Outcome
<1>5. Recorded'
  BY <1>1, <1>2 DEF CannotRollback, Types, Recorded, Data, Commands, Audited, Before, AtWork
<1>6. Told'
  BY <1>1, <1>2 DEF CannotRollback, Told, Data, Commands
<1>7. OneByOne'
  BY <1>1, <1>2 DEF CannotRollback, OneByOne, Commands, Locking
<1>8. Agreed'
  BY DEF CannotRollback, Agreed
<1> QED
  BY <1>3, <1>4, <1>5, <1>6, <1>7, <1>8 DEF IInv

LEMMA EndInv ==
    ASSUME IInv, NEW c \in Commands, End(c)
    PROVE  IInv'
<1>1. Types /\ Queued /\ Recorded /\ Told /\ OneByOne /\ Agreed
  BY DEF IInv
<1>2. /\ pc' \in [Commands -> PC]
      /\ pc'[c] = "done"
      /\ \A d \in Commands : d # c => pc'[d] = pc[d]
  BY <1>1, Moved DEF End, PC
<1>3. Queued'
  BY <1>1, QueueKept DEF End, PC
<1>4. Types'
  BY <1>1, <1>2 DEF End, Types, Data
<1>5. Recorded'
  BY <1>1, <1>2 DEF End, Types, Recorded, Data, Commands, Audited, Before, AtWork
<1>6. Told'
  BY <1>1, <1>2 DEF End, Told, Data, Commands
<1>7. OneByOne'
  BY <1>1, <1>2 DEF End, OneByOne, Commands, Locking
<1>8. Agreed'
  BY <1>1, <1>2 DEF End, Agreed, Mine, Data, Commands, Locking
<1> QED
  BY <1>3, <1>4, <1>5, <1>6, <1>7, <1>8 DEF IInv

LEMMA CannotEndInv ==
    ASSUME IInv, NEW c \in Commands, CannotEnd(c)
    PROVE  IInv'
<1>1. Types /\ Queued /\ Recorded /\ Told /\ OneByOne /\ Agreed
  BY DEF IInv
<1>2. /\ pc' \in [Commands -> PC]
      /\ pc'[c] = "done"
      /\ \A d \in Commands : d # c => pc'[d] = pc[d]
  BY <1>1, Moved DEF CannotEnd, PC
<1>3. Queued'
  BY <1>1, QueueKept DEF CannotEnd, PC
<1>4. Types'
  BY <1>1, <1>2 DEF CannotEnd, Types, Data
<1>5. Recorded'
  BY <1>1, <1>2 DEF CannotEnd, Types, Recorded, Data, Commands, Audited, Before
<1>6. Told'
  BY <1>1, <1>2 DEF CannotEnd, Told, Data, Commands
<1>7. OneByOne'
  BY <1>1, <1>2 DEF CannotEnd, OneByOne, Commands, Locking
<1>8. Agreed'
  BY DEF CannotEnd, Agreed
<1> QED
  BY <1>3, <1>4, <1>5, <1>6, <1>7, <1>8 DEF IInv

LEMMA StartThreadInv ==
    ASSUME IInv, StartThread
    PROVE  IInv'
<1>1. Types /\ Queued /\ Recorded /\ Told /\ OneByOne /\ Agreed
  BY DEF IInv
<1> DEFINE c == Head(queue)
<1>2. c \in Commands /\ pc[c] = "queued"
  BY <1>1 DEF StartThread, Queued
<1>3. /\ pc' \in [Commands -> PC]
      /\ pc'[c] = "thread"
      /\ \A d \in Commands : d # c => pc'[d] = pc[d]
  BY <1>1, <1>2, Moved DEF StartThread, PC
<1>4. Queued'
  <2>1. queue' \in Seq(Commands) /\ Len(queue') = Len(queue) - 1
    BY <1>1 DEF StartThread, Queued
  <2>2. \A i \in 1..Len(queue') : i + 1 \in 1..Len(queue) /\ queue'[i] = queue[i + 1]
    BY DEF StartThread
  <2>3. 1 \in 1..Len(queue) /\ queue[1] = c
    BY DEF StartThread
  <2>4. \A i \in 1..Len(queue') : queue[i + 1] # c /\ queue[i + 1] \in Commands
    BY <1>1, <2>2 DEF Queued
  <2>5. \A i \in 1..Len(queue') : pc'[queue'[i]] = "queued"
    BY <1>1, <1>3, <2>2 DEF Queued
  <2>6. \A i, j \in 1..Len(queue') : i # j => queue'[i] # queue'[j]
    BY <1>1, <2>2 DEF Queued
  <2> QED
    BY <2>1, <2>5, <2>6 DEF Queued
<1> HIDE DEF c
<1>5. UNCHANGED <<seen, db, file, stash, dsdb, begun, ended, result, published,
                     unheard, lapsed, serial>>
  BY DEF StartThread, Data, Books
<1>6. Types'
  BY <1>1, <1>3, <1>5 DEF Types
<1>7. Recorded'
  BY <1>1, <1>2, <1>3, <1>5 DEF Types, Recorded, Audited, Commands, Before, AtWork
<1>8. Told'
  BY <1>1, <1>2, <1>3, <1>5 DEF Told, Commands
<1>9. OneByOne' /\ Agreed'
  BY <1>1, <1>2, <1>3, <1>5 DEF OneByOne, Agreed, Mine, Commands, Locking
<1> QED
  BY <1>4, <1>6, <1>7, <1>8, <1>9 DEF IInv

LEMMA SubmitInv ==
    ASSUME IInv, NEW c \in Commands, Submit(c)
    PROVE  IInv'
<1>1. Types /\ Queued /\ Recorded /\ Told /\ OneByOne /\ Agreed
  BY DEF IInv
<1>2. /\ pc[c] = "idle"
      /\ pc' \in [Commands -> PC]
      /\ pc'[c] = "queued"
      /\ \A d \in Commands : d # c => pc'[d] = pc[d]
  BY <1>1, Moved DEF Submit, PC
<1>3. Queued'
  <2>1. queue' \in Seq(Commands) /\ Len(queue') = Len(queue) + 1
    BY <1>1 DEF Submit, Queued
  <2>2. /\ queue'[Len(queue')] = c
        /\ \A i \in 1..Len(queue) : queue'[i] = queue[i]
    BY DEF Submit
  <2>3. \A i \in 1..Len(queue) : queue[i] \in Commands /\ queue[i] # c
    BY <1>1, <1>2 DEF Queued
  <2>4. \A i \in 1..Len(queue') : i \in 1..Len(queue) \/ i = Len(queue')
    BY <2>1
  <2>5. \A i \in 1..Len(queue') : pc'[queue'[i]] = "queued"
    BY <1>1, <1>2, <2>2, <2>4 DEF Queued
  <2>6. \A i, j \in 1..Len(queue') : i # j => queue'[i] # queue'[j]
    BY <1>1, <2>2, <2>3, <2>4 DEF Queued
  <2> QED
    BY <2>1, <2>5, <2>6 DEF Queued
<1>4. UNCHANGED <<seen, db, file, stash, dsdb, begun, ended, result, published, unheard, lapsed>>
  BY DEF Submit, Data, Books
<1>5. serial' \in BOOLEAN /\ (serial' => serial)
  BY DEF Submit
<1>6. Types'
  BY <1>1, <1>2, <1>4, <1>5 DEF Types
<1>7. Recorded'
  BY <1>1, <1>2, <1>4 DEF Types, Recorded, Audited, Commands, Before, AtWork
<1>8. Told'
  BY <1>1, <1>2, <1>4 DEF Told, Commands
<1>9. OneByOne'
  <2>1. (serial' /\ c \in Locking) => \A d \in Locking : pc[d] \in {"idle", "done"}
    BY DEF Submit, Commands, Locking
  <2> QED
    BY <1>1, <1>2, <1>5, <2>1 DEF OneByOne, Commands, Locking
<1>10. Agreed'
  BY <1>1, <1>2, <1>4, <1>5 DEF Agreed, Mine, Commands, Locking
<1> QED
  BY <1>3, <1>6, <1>7, <1>8, <1>9, <1>10 DEF IInv

LEMMA NextInv == IInv /\ [Next]_vars => IInv'
<1> SUFFICES ASSUME IInv, [Next]_vars
             PROVE  IInv'
  OBVIOUS
<1>1. CASE StartThread
  BY <1>1, StartThreadInv
<1>2. ASSUME NEW c \in Commands, Submit(c)
      PROVE  IInv'
  BY <1>2, SubmitInv
<1>3. ASSUME NEW c \in Commands, Step(c)
      PROVE  IInv'
  BY <1>3, ConnectInv, CannotConnectInv, BeginInv, CannotBeginInv, RefuseInv, ShowInv,
     CommitInv, CannotCommitInv, PublishInv, HandlerFailsInv, CannotPublishInv,
     RollbackInv, CannotRollbackInv, EndInv, CannotEndInv DEF Step
<1>4. ASSUME NEW c \in Commands, SlowStep(c)
      PROVE  IInv'
  BY <1>4, ReadRowInv, FlushRowInv, TakeLockInv, WriteFileInv, CannotWriteInv,
     UpdateDsdbInv, DsdbRefusesInv DEF SlowStep
<1>5. CASE UNCHANGED vars
  BY <1>5 DEF vars, IInv, Types, Queued, Recorded, Told, OneByOne, Agreed, Mine
<1> QED
  BY <1>1, <1>2, <1>3, <1>4, <1>5 DEF Next

-----------------------------------------------------------------------------
(* What the invariant says of the properties the runs check.                *)

LEMMA BrokerInvariant == Spec => []IInv
BY InitInv, NextInv, PTL DEF Spec

\* A command that changed anything outside its session was recorded before,
\* and its record is ended with what the client was told (broker.py:272-337),
\* whatever commands run at once and whichever of their steps fail.
THEOREM AuditHolds == Spec => []AuditComplete
<1>1. IInv => AuditComplete
  BY DEF IInv, Types, Recorded, AuditComplete, Commands, Locking
<1> QED
  BY <1>1, BrokerInvariant, PTL

\* Answers and events are true of the database and of DSDB, and a committed
\* change is told of but where a handler's failure was swallowed or an event
\* could not be made (broker.py:302-330, exporter.py:178-190).
THEOREM ToldHolds == Spec => []OutsideIsTold
<1>1. IInv => AnswerIsTrue
  BY DEF IInv, Types, Told, AnswerIsTrue, Commands
<1>2. IInv => EventsOfCommitted
  BY DEF IInv, Types, Told, EventsOfCommitted
<1>3. IInv => OutsideIsTold
  BY <1>1, <1>2 DEF OutsideIsTold
<1> QED
  BY <1>3, BrokerInvariant, PTL

\* Commands one after the other leave the database, the plenary and DSDB in
\* agreement (base.py:285-308, dsdb.py:97-136), for any number of them.
THEOREM SerialHolds == Spec => []SerialAgreement
<1>1. IInv => SerialAgreement
  BY DEF IInv, Agreed, SerialAgreement, Quiet, Commands, Locking
<1> QED
  BY <1>1, BrokerInvariant, PTL

=============================================================================
