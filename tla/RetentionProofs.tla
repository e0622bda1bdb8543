--------------------------- MODULE RetentionProofs ---------------------------
(***************************************************************************)
(* For any sources, sizes, caps and numbers of captures: rows and files    *)
(* keep up with each other but for the damage that the code cannot help,   *)
(* and a pass leaves what fits, sparing the newest.                        *)
(*                                                                         *)
(* A removal must not take another row's file, so names have to be apart   *)
(* (NamesApart) and the victims have to be rows still (CleanupKnowsRows);  *)
(* a row that is added must not be one about to go (JobsAreNew).           *)
(*                                                                         *)
(* That a pass ends within the cap needs arithmetic on totals, which are   *)
(* folds over sets of any size: the lemmas about Total are proved by       *)
(* induction, as the absence of a smallest counterexample, since strict    *)
(* inclusion of finite sets is well-founded.  It also needs ids that are   *)
(* never used again (IdsAreNew) and sizes that stay upper bounds while     *)
(* workers go on writing (PassKeepsSizes).                                 *)
(***************************************************************************)
EXTENDS Retention, FiniteSetTheorems, SequenceTheorems, WellFoundedInduction, TLAPS

Saving(s) == place[s] \in {"writing", "store"}

\* a capture at work belongs to its worker and is not in the table yet
JobsAreNew ==
    /\ \A r \in table : r.id <= captures
    /\ \A s \in Sources :
          place[s] \in {"capturing", "writing", "store"} =>
              job[s].source = s /\ job[s].id <= captures /\ job[s] \notin table

\* only the cleanup thread deletes: what it has listed or chosen is there still
CleanupKnowsRows ==
    /\ IsFiniteSet(table) /\ IsFiniteSet(listed)
    /\ cleanup = "measure" => listed \subseteq table
    /\ ToSet(victims) \subseteq table

\* without a clash no two rows share a file and a worker has its file to itself
NamesApart ==
    "clash" \notin trouble =>
        /\ \A r, q \in table : FileOf(r) = FileOf(q) => r = q
        /\ \A s \in Sources :
              Saving(s) => /\ \A r \in table : FileOf(r) # FileOf(job[s])
                           /\ disk[FileOf(job[s])] # None
                           /\ place[s] = "store" => disk[FileOf(job[s])] \in Sizes

IInv == TypeOK /\ JobsAreNew /\ CleanupKnowsRows /\ NamesApart /\ RowsHaveFiles /\ FilesHaveRows

-----------------------------------------------------------------------------
\* list_all_ordered_by_age_asc returns rows of the table.
LEMMA OrdersAreLists ==
    ASSUME NEW rows, IsFiniteSet(rows), NEW order \in ByAge(rows)
    PROVE  order \in Seq(rows)
<1>1. Cardinality(rows) \in Nat
  BY FS_CardinalityType
<1> QED
  BY <1>1 DEF ByAge, SetToSeqs

\* It returns as many as there are.
LEMMA ListsHaveAll ==
    ASSUME NEW rows, IsFiniteSet(rows), NEW order \in ByAge(rows)
    PROVE  Len(order) = Cardinality(rows)
<1>1. Cardinality(rows) \in Nat
  BY FS_CardinalityType
<1> QED
  BY <1>1 DEF ByAge, SetToSeqs

\* The loop of _cleanup_by_space takes its victims from the list.
LEMMA EvictedAreListed ==
    ASSUME NEW rows, NEW order \in Seq(rows), NEW size, NEW list \in Evicted(order, size)
    PROVE  list \in Seq(rows)
<1>1. PICK k \in 0..Len(order) : list = SubSeq(order, 1, k)
  BY DEF Evicted
<1> QED
  BY <1>1

\* A list of rows holds nothing but these rows.
LEMMA ListHoldsRows ==
    ASSUME NEW rows, NEW list \in Seq(rows)
    PROVE  ToSet(list) \subseteq rows
BY DEF ToSet

\* When the last file is gone every victim is.
LEMMA AllGone ==
    ASSUME TypeOK, gone = Len(victims)
    PROVE  Gone = ToSet(victims)
BY SMTT(30) DEF TypeOK, Gone, ToSet

\* Only victims are gone.
LEMMA GoneAreVictims ==
    ASSUME TypeOK
    PROVE  Gone \subseteq ToSet(victims)
BY DEF TypeOK, Gone, ToSet

-----------------------------------------------------------------------------
\* Initially there is no file, no row and no capture.
LEMMA InitIInv == Init => IInv
<1> SUFFICES ASSUME Init PROVE IInv
  OBVIOUS
<1> USE RetentionAssumption
<1>1. TypeOK
  <2>1. disk \in [Files -> Sizes \cup {0, None}] /\ DOMAIN sizes = 1..MaxCaptures
    BY DEF Init, NoSizes
  <2>2. job \in [Sources -> [id : 0..MaxCaptures, source : Sources, stamp : 0..MaxTime]]
    BY DEF Init, NoJob
  <2> QED
    BY <2>1, <2>2 DEF Init, TypeOK
<1>2. ToSet(victims) = {} /\ Gone = {}
  BY DEF Init, ToSet, Gone
<1>3. JobsAreNew /\ NamesApart /\ RowsHaveFiles /\ FilesHaveRows
  BY DEF Init, JobsAreNew, NamesApart, Saving, RowsHaveFiles, FilesHaveRows
<1>4. CleanupKnowsRows
  BY <1>2, FS_EmptySet DEF Init, CleanupKnowsRows
<1> QED
  BY <1>1, <1>3, <1>4 DEF IInv

-----------------------------------------------------------------------------
\* Every step of a worker keeps types.
LEMMA WorkerTypes ==
    ASSUME TypeOK, JobsAreNew, NEW s \in Sources, WorkerStep(s)
    PROVE  TypeOK'
<1> USE RetentionAssumption DEF At, workerVars, cleanupVars
<1> DEFINE Places == {"listening", "capturing", "writing", "store", "dead"}
<1> DEFINE Busy == {"capturing", "writing", "store"}
<1>1. ASSUME NEW f, NEW size \in Sizes \cup {0} PROVE WrittenTo(f, size) \in [Files -> Sizes \cup {0, None}]
  BY DEF WrittenTo, TypeOK
<1>2. /\ place' \in [Sources -> Places]
      /\ disk' \in [Files -> Sizes \cup {0, None}]
      /\ captures' \in 0..MaxCaptures
  <2>1. CASE Trigger(s)
    BY <2>1 DEF Trigger, TypeOK
  <2>2. CASE Open(s)
    BY <2>2 DEF Open, TypeOK
  <2>3. CASE Write(s)
    BY <1>1, <2>3 DEF Write, TypeOK
  <2>4. CASE SaveFails(s)
    BY <1>1, <2>4 DEF SaveFails, TypeOK
  <2>5. CASE Add(s) \/ AddFails(s)
    BY <2>5 DEF Add, AddFails, TypeOK
  <2>6. CASE Restart(s)
    BY <2>6 DEF Restart, TypeOK
  <2> QED
    BY <2>1, <2>2, <2>3, <2>4, <2>5, <2>6 DEF WorkerStep
<1>3. ASSUME NEW t \in Sources, place'[t] \in Busy PROVE job'[t] \in Rows
  <2>1. CASE Trigger(s)
    <3>1. [id |-> captures + 1, source |-> s, stamp |-> now] \in Rows
      BY <2>1 DEF Trigger, Rows, TypeOK
    <3> QED
      BY <1>3, <2>1, <3>1 DEF Trigger, TypeOK
  <2>2. CASE Open(s) \/ Write(s)
    BY <1>3, <2>2 DEF Open, Write, TypeOK
  <2>3. CASE SaveFails(s)
    BY <1>3, <2>3 DEF SaveFails, Drops, TypeOK
  <2>4. CASE Add(s) \/ AddFails(s) \/ Restart(s)
    BY <1>3, <2>4 DEF Add, AddFails, Restart, Drops, TypeOK
  <2> QED
    BY <2>1, <2>2, <2>3, <2>4 DEF WorkerStep
<1>7. job' \in [Sources -> [id : 0..MaxCaptures, source : Sources, stamp : 0..MaxTime]]
  <2>1. NoJob(s) \in [id : 0..MaxCaptures, source : Sources, stamp : 0..MaxTime]
    BY DEF NoJob, TypeOK
  <2>2. CASE Trigger(s)
    BY <2>2 DEF Trigger, TypeOK
  <2>3. CASE Drops(s)
    BY <2>1, <2>3 DEF Drops, TypeOK
  <2> QED
    BY <2>2, <2>3 DEF WorkerStep, Open, Write, SaveFails, Add, AddFails, Restart, TypeOK
<1>4. table' \subseteq Rows
  BY DEF WorkerStep, Trigger, Open, Write, SaveFails, Add, AddFails, Restart, TypeOK
<1>5. trouble' \subseteq {"clash", "orphan", "ghost"}
  BY DEF WorkerStep, Trigger, Open, Clash, Write, SaveFails, Add, AddFails, Restart, TypeOK
<1>6. UNCHANGED <<up, now, cleanup, phase, listed, sizes, victims, gone>>
  BY DEF WorkerStep, Trigger, Open, Write, SaveFails, Add, AddFails, Restart
<1> QED
  BY <1>2, <1>3, <1>4, <1>5, <1>6, <1>7 DEF TypeOK

-----------------------------------------------------------------------------
\* Every step of the cleanup thread keeps types.
LEMMA CleanupTypes ==
    ASSUME TypeOK, CleanupKnowsRows, CleanupStep \/ DeleteFails \/ PassFails
    PROVE  TypeOK'
<1> USE RetentionAssumption DEF workerVars, cleanupVars
<1>1. CASE Begin
  BY <1>1 DEF Begin, TypeOK
<1>2. CASE SelectOld
  <2>1. CASE victims' \in ByAge(Expired(table)) /\ Expired(table) # {}
    <3>1. Expired(table) \subseteq table /\ IsFiniteSet(Expired(table))
      BY FS_Subset DEF Expired, CleanupKnowsRows
    <3>2. victims' \in Seq(Expired(table)) /\ Len(victims') = Cardinality(Expired(table))
      BY <2>1, <3>1, OrdersAreLists, ListsHaveAll
    <3>3. victims' \in Seq(Rows)
      BY <3>1, <3>2 DEF TypeOK
    <3>4. Len(victims') # 0
      BY <2>1, <3>1, <3>2, FS_EmptySet
    <3> QED
      BY <1>2, <2>1, <3>3, <3>4 DEF SelectOld, TypeOK
  <2> QED
    BY <1>2, <2>1 DEF SelectOld, TypeOK
<1>3. CASE List
  BY <1>3 DEF List, TypeOK
<1>4. CASE Measure
  <2>1. PICK order \in ByAge(listed) : victims' \in Evicted(order, Measured)
    BY <1>4 DEF Measure
  <2>2. victims' \in Seq(listed)
    BY <2>1, OrdersAreLists, EvictedAreListed DEF CleanupKnowsRows
  <2>3. victims' \in Seq(Rows)
    BY <2>2 DEF TypeOK
  <2>4. DOMAIN Measured = 1..MaxCaptures
    BY DEF Measured
  <2> QED
    BY <1>4, <2>3, <2>4 DEF Measure, TypeOK
<1>5. CASE RemoveFile \/ RemoveFileFails
  <2>1. disk' \in [Files -> Sizes \cup {0, None}]
    BY <1>5 DEF RemoveFile, RemoveFileFails, TypeOK
  <2>2. Removed /\ trouble' \subseteq {"clash", "orphan", "ghost"}
    BY <1>5 DEF RemoveFile, RemoveFileFails, TypeOK
  <2> QED
    BY <2>1, <2>2 DEF Removed, TypeOK
<1>6. CASE DeleteRows \/ DeleteFails \/ PassFails \/ Alert
  <2>1. PICK there \in {"wait", "space", "alert"} : Leaves(there)
    BY <1>6 DEF DeleteRows, DeleteFails, PassFails, Alert
  <2>2. /\ table' \subseteq Rows /\ listed' \subseteq Rows
        /\ trouble' \subseteq {"clash", "orphan", "ghost"}
    BY <1>6 DEF DeleteRows, DeleteFails, PassFails, Alert, TypeOK
  <2>3. victims' = <<>> /\ gone' = 0 /\ DOMAIN sizes' = 1..MaxCaptures
    BY <2>1 DEF Leaves, NoSizes
  <2>4. victims' \in Seq(Rows) /\ gone' \in 0..Len(victims')
    BY <2>3
  <2> QED
    BY <2>1, <2>2, <2>3, <2>4 DEF Leaves, TypeOK
<1> QED
  BY <1>1, <1>2, <1>3, <1>4, <1>5, <1>6 DEF CleanupStep

\* So do time and the process.
LEMMA ProcessTypes ==
    ASSUME TypeOK, Tick \/ Crash \/ Boot
    PROVE  TypeOK'
<1> USE RetentionAssumption DEF workerVars, cleanupVars
<1>1. CASE Tick
  BY <1>1 DEF Tick, TypeOK
<1>2. CASE Crash
  <2>1. /\ job' \in [Sources -> [id : 0..MaxCaptures, source : Sources, stamp : 0..MaxTime]]
        /\ place' \in [Sources -> {"listening"}]
    BY <1>2 DEF Crash, NoJob, TypeOK
  <2>2. victims' = <<>> /\ gone' = 0 /\ DOMAIN sizes' = 1..MaxCaptures
    BY <1>2 DEF Crash, NoSizes
  <2>3. victims' \in Seq(Rows) /\ gone' \in 0..Len(victims')
    BY <2>2
  <2>4. trouble' \subseteq {"clash", "orphan", "ghost"}
    BY <1>2 DEF Crash, LeftBehind, TypeOK
  <2> QED
    BY <1>2, <2>1, <2>2, <2>3, <2>4 DEF Crash, TypeOK
<1>3. CASE Boot
  BY <1>3 DEF Boot, TypeOK
<1> QED
  BY <1>1, <1>2, <1>3

-----------------------------------------------------------------------------
\* A capture gets the next number, and a row that is added no longer has a worker.
LEMMA JobsStayNew ==
    ASSUME TypeOK, JobsAreNew, Next
    PROVE  JobsAreNew'
<1> USE DEF workerVars, cleanupVars
<1>1. ASSUME NEW s \in Sources, WorkerStep(s) PROVE JobsAreNew'
  <2> USE DEF JobsAreNew, At
  <2>1. CASE Trigger(s)
    BY <2>1 DEF Trigger, TypeOK, Rows
  <2>2. CASE Open(s) \/ Write(s)
    BY <2>2 DEF Open, Write, TypeOK
  <2>3. CASE SaveFails(s) \/ AddFails(s) \/ Restart(s)
    BY <2>3 DEF SaveFails, AddFails, Restart, Drops, TypeOK
  <2>4. CASE Add(s)
    <3>1. \A r \in table' : r.id <= captures'
      BY <2>4 DEF Add, TypeOK
    <3>2. ASSUME NEW t \in Sources, place'[t] \in {"capturing", "writing", "store"}
          PROVE  t # s /\ place[t] = place'[t] /\ job'[t] = job[t]
      BY <2>4, <3>2 DEF Add, Drops, TypeOK
    <3> QED
      BY <2>4, <3>1, <3>2 DEF Add
  <2> QED
    BY <1>1, <2>1, <2>2, <2>3, <2>4 DEF WorkerStep
<1>2. CASE CleanupStep \/ DeleteFails \/ PassFails \/ Tick \/ Boot
  <2>1. table' \subseteq table /\ UNCHANGED <<captures, place, job>>
    BY <1>2 DEF CleanupStep, Begin, SelectOld, List, Measure, RemoveFile, RemoveFileFails, Removed,
         DeleteRows, Alert, DeleteFails, PassFails, Leaves, Tick, Boot
  <2> QED
    BY <2>1 DEF JobsAreNew
<1>3. CASE Crash
  BY <1>3 DEF Crash, JobsAreNew, TypeOK
<1> QED
  BY <1>1, <1>2, <1>3 DEF Next

\* What the cleanup has chosen stays in the table until it deletes it.
LEMMA VictimsStayRows ==
    ASSUME TypeOK, CleanupKnowsRows, Next
    PROVE  CleanupKnowsRows'
<1> USE DEF workerVars, cleanupVars, CleanupKnowsRows
<1>1. ASSUME NEW s \in Sources, WorkerStep(s) PROVE CleanupKnowsRows'
  <2>1. table' = table \/ table' = table \cup {job[s]}
    BY <1>1 DEF WorkerStep, Trigger, Open, Write, SaveFails, Add, AddFails, Restart
  <2>2. UNCHANGED <<cleanup, listed, victims>>
    BY <1>1 DEF WorkerStep, Trigger, Open, Write, SaveFails, Add, AddFails, Restart
  <2>3. IsFiniteSet(table') /\ table \subseteq table'
    BY <2>1, FS_AddElement
  <2>4. ToSet(victims') = ToSet(victims)
    BY <2>2
  <2> QED
    BY <2>2, <2>3, <2>4
<1>2. CASE Begin
  BY <1>2, FS_EmptySet DEF Begin, ToSet
<1>3. CASE SelectOld
  <2>1. CASE UNCHANGED victims
    BY <1>3, <2>1 DEF SelectOld, ToSet
  <2>2. CASE victims' \in ByAge(Expired(table))
    <3>1. Expired(table) \subseteq table /\ IsFiniteSet(Expired(table))
      BY FS_Subset DEF Expired
    <3>2. ToSet(victims') \subseteq table
      BY <2>2, <3>1, OrdersAreLists, ListHoldsRows
    <3> QED
      BY <1>3, <3>2 DEF SelectOld
  <2> QED
    BY <1>3, <2>1, <2>2 DEF SelectOld
<1>4. CASE List
  BY <1>4 DEF List, ToSet
<1>5. CASE Measure
  <2>1. PICK order \in ByAge(listed) : victims' \in Evicted(order, Measured)
    BY <1>5 DEF Measure
  <2>2. ToSet(victims') \subseteq table
    BY <1>5, <2>1, OrdersAreLists, EvictedAreListed, ListHoldsRows DEF Measure
  <2> QED
    BY <1>5, <2>2 DEF Measure
<1>6. CASE RemoveFile \/ RemoveFileFails
  BY <1>6 DEF RemoveFile, RemoveFileFails, Removed, ToSet
<1>7. CASE DeleteRows \/ DeleteFails \/ PassFails \/ Alert
  <2>1. PICK there \in {"wait", "space", "alert"} : Leaves(there)
    BY <1>7 DEF DeleteRows, DeleteFails, PassFails, Alert
  <2>2. table' \subseteq table /\ listed' \in {listed, {}}
    BY <1>7 DEF DeleteRows, DeleteFails, PassFails, Alert
  <2>3. IsFiniteSet(table') /\ IsFiniteSet(listed')
    BY <2>2, FS_Subset, FS_EmptySet
  <2>4. ToSet(victims') = {}
    BY <2>1 DEF Leaves, ToSet
  <2> QED
    BY <2>1, <2>3, <2>4 DEF Leaves
<1>8. CASE Crash
  BY <1>8, FS_EmptySet DEF Crash, ToSet
<1>9. CASE Tick \/ Boot
  BY <1>9 DEF Tick, Boot, ToSet
<1> QED
  BY <1>1, <1>2, <1>3, <1>4, <1>5, <1>6, <1>7, <1>8, <1>9 DEF Next, CleanupStep

-----------------------------------------------------------------------------
\* Captures of different workers have different files.
LEMMA OwnFiles ==
    ASSUME JobsAreNew, NEW s \in Sources, NEW t \in Sources, t # s,
           place[s] \in {"capturing", "writing", "store"}, Saving(t)
    PROVE  FileOf(job[t]) # FileOf(job[s])
BY DEF JobsAreNew, Saving, FileOf

\* A row is filed under its source and its second.
LEMMA RowsAreFiled ==
    ASSUME NEW row \in Rows
    PROVE  FileOf(row) \in Files
BY DEF Rows, FileOf, Files

\* What a worker does leaves names apart, unless it says that they clash.
LEMMA WorkerNames ==
    ASSUME TypeOK, JobsAreNew, NamesApart, NEW s \in Sources, WorkerStep(s)
    PROVE  NamesApart'
<1> USE RetentionAssumption DEF Saving, At, workerVars, cleanupVars
<1> SUFFICES ASSUME "clash" \notin trouble' PROVE NamesApart'
  BY DEF NamesApart
<1>1. "clash" \notin trouble
  BY DEF WorkerStep, Trigger, Open, Write, SaveFails, Add, AddFails, Restart
<1>2. ASSUME NEW t \in Sources, t # s, place'[t] \in {"writing", "store"}
      PROVE  place[t] = place'[t] /\ job'[t] = job[t] /\ Saving(t)
  BY <1>2, ZenonT(30) DEF WorkerStep, Trigger, Open, Write, SaveFails, Add, AddFails, Restart, Drops, TypeOK
<1>3. CASE Trigger(s) \/ AddFails(s) \/ Restart(s)
  <2>1. place'[s] \notin {"writing", "store"} /\ UNCHANGED <<disk, table>>
    BY <1>3 DEF Trigger, AddFails, Restart, TypeOK
  <2> QED
    BY <1>1, <1>2, <2>1 DEF NamesApart
<1>4. CASE Open(s)
  <2>1. /\ place[s] = "capturing" /\ place'[s] = "writing" /\ UNCHANGED <<table, job>>
        /\ disk' = [disk EXCEPT ![FileOf(job[s])] = 0]
        /\ Clash(FileOf(job[s])) = {}
    BY <1>4 DEF Open, Clash, TypeOK
  <2>2. \A r \in table : FileOf(r) # FileOf(job[s])
    BY <2>1 DEF Clash
  <2>3. disk'[FileOf(job[s])] # None
    BY <2>1, RowsAreFiled DEF TypeOK
  <2>4. ASSUME NEW t \in Sources, t # s, Saving(t) PROVE disk'[FileOf(job[t])] = disk[FileOf(job[t])]
    BY <2>1, <2>4, OwnFiles, RowsAreFiled DEF TypeOK
  <2> QED
    BY <1>1, <1>2, <2>1, <2>2, <2>3, <2>4 DEF NamesApart
<1>5. CASE Write(s)
  <2>1. /\ place[s] = "writing" /\ place'[s] = "store" /\ UNCHANGED <<table, job>>
        /\ \E size \in Sizes : disk' = [disk EXCEPT ![FileOf(job[s])] = size]
    BY <1>1, <1>5 DEF Write, WrittenTo, NamesApart, TypeOK
  <2>2. disk'[FileOf(job[s])] \in Sizes /\ disk'[FileOf(job[s])] # None
    BY <2>1, RowsAreFiled DEF TypeOK
  <2>3. ASSUME NEW t \in Sources, t # s, Saving(t) PROVE disk'[FileOf(job[t])] = disk[FileOf(job[t])]
    BY <2>1, <2>3, OwnFiles, RowsAreFiled DEF TypeOK
  <2> QED
    BY <1>1, <1>2, <2>1, <2>2, <2>3 DEF NamesApart
<1>6. CASE SaveFails(s)
  <2>1. place'[s] = "dead" /\ UNCHANGED table
    BY <1>6 DEF SaveFails, TypeOK
  <2>2. ASSUME NEW t \in Sources, t # s, Saving(t) PROVE disk'[FileOf(job[t])] = disk[FileOf(job[t])]
    BY <1>6, <2>2, OwnFiles, RowsAreFiled DEF SaveFails, WrittenTo, TypeOK
  <2> QED
    BY <1>1, <1>2, <2>1, <2>2 DEF NamesApart
<1>7. CASE Add(s)
  <2>1. /\ place[s] = "store" /\ place'[s] = "listening" /\ UNCHANGED disk
        /\ table' = table \cup {job[s]}
    BY <1>7 DEF Add, TypeOK
  <2>2. \A r \in table : FileOf(r) # FileOf(job[s])
    BY <1>1, <2>1 DEF NamesApart
  <2>3. ASSUME NEW t \in Sources, t # s, Saving(t) PROVE FileOf(job[t]) # FileOf(job[s])
    BY <2>1, <2>3, OwnFiles
  <2>4. \A r, q \in table' : FileOf(r) = FileOf(q) => r = q
    BY <1>1, <2>1, <2>2 DEF NamesApart
  <2> QED
    BY <1>1, <1>2, <2>1, <2>3, <2>4 DEF NamesApart
<1> QED
  BY <1>3, <1>4, <1>5, <1>6, <1>7 DEF WorkerStep

\* No removal takes the file of a worker that is still writing it.
LEMMA NamesStayApart ==
    ASSUME TypeOK, JobsAreNew, CleanupKnowsRows, NamesApart, Next
    PROVE  NamesApart'
<1> USE DEF Saving, workerVars, cleanupVars
<1>1. CASE \E s \in Sources : WorkerStep(s)
  BY <1>1, WorkerNames
<1>2. CASE RemoveFile
  <2>1. victims[gone + 1] \in table
    BY <1>2 DEF RemoveFile, Removed, CleanupKnowsRows, ToSet, TypeOK
  <2>2. /\ disk' = [disk EXCEPT ![FileOf(victims[gone + 1])] = None]
        /\ UNCHANGED <<table, place, job, trouble>>
    BY <1>2 DEF RemoveFile, Removed
  <2>3. ASSUME "clash" \notin trouble, NEW s \in Sources, Saving(s)
        PROVE  disk'[FileOf(job[s])] = disk[FileOf(job[s])]
    BY <2>1, <2>2, <2>3, RowsAreFiled DEF NamesApart, TypeOK
  <2> QED
    BY <2>2, <2>3 DEF NamesApart
<1>3. CASE \/ Begin \/ SelectOld \/ List \/ Measure \/ RemoveFileFails \/ DeleteRows \/ Alert
           \/ DeleteFails \/ PassFails \/ Tick \/ Boot
  <2>1. table' \subseteq table /\ trouble \subseteq trouble' /\ UNCHANGED <<disk, place, job>>
    BY <1>3 DEF Begin, SelectOld, List, Measure, RemoveFileFails, Removed, DeleteRows, Alert,
         DeleteFails, PassFails, Leaves, Tick, Boot
  <2> QED
    BY <2>1 DEF NamesApart
<1>4. CASE Crash
  BY <1>4 DEF Crash, NamesApart
<1> QED
  BY <1>1, <1>2, <1>3, <1>4 DEF Next, CleanupStep

-----------------------------------------------------------------------------
\* Nothing is gone before a victim has been chosen.
LEMMA NothingGone ==
    ASSUME gone = 0
    PROVE  Gone = {}
BY DEF Gone

\* A row that a worker adds comes with its file.
LEMMA WorkerRows ==
    ASSUME TypeOK, JobsAreNew, NamesApart, RowsHaveFiles, NEW s \in Sources, WorkerStep(s)
    PROVE  RowsHaveFiles'
<1> USE DEF Saving, At, workerVars, cleanupVars
<1> SUFFICES ASSUME trouble' \cap {"ghost", "clash"} = {},
                    NEW r \in table', r \notin Gone'
             PROVE  disk'[FileOf(r)] \in Sizes
  BY DEF RowsHaveFiles
<1>1. trouble \cap {"ghost", "clash"} = {} /\ Gone' = Gone
  BY DEF WorkerStep, Trigger, Open, Write, SaveFails, Add, AddFails, Restart, Gone
<1>2. ASSUME r \in table PROVE disk[FileOf(r)] \in Sizes
  BY <1>1, <1>2 DEF RowsHaveFiles
<1>3. ASSUME r \in table, FileOf(r) = FileOf(job[s]) PROVE ~Saving(s) /\ ~Open(s)
  BY <1>1, <1>3 DEF NamesApart, Open, Clash
<1>4. CASE Trigger(s) \/ AddFails(s) \/ Restart(s)
  BY <1>2, <1>4 DEF Trigger, AddFails, Restart
<1>5. CASE Open(s)
  BY <1>2, <1>3, <1>5 DEF Open, TypeOK
<1>6. CASE Write(s) \/ SaveFails(s)
  <2>1. r \in table
    BY <1>6 DEF Write, SaveFails
  <2>2. CASE UNCHANGED disk
    BY <1>2, <2>1, <2>2
  <2>3. CASE Saving(s) /\ \E size \in Sizes \cup {0} : disk' = WrittenTo(FileOf(job[s]), size)
    <3>1. FileOf(r) # FileOf(job[s])
      BY <1>3, <2>1, <2>3
    <3> QED
      BY <1>2, <2>1, <2>3, <3>1 DEF WrittenTo, TypeOK
  <2> QED
    BY <1>6, <2>2, <2>3 DEF Write, SaveFails
<1>7. CASE Add(s)
  <2>1. disk[FileOf(job[s])] \in Sizes
    BY <1>1, <1>7 DEF Add, NamesApart
  <2> QED
    BY <1>2, <1>7, <2>1 DEF Add
<1> QED
  BY <1>4, <1>5, <1>6, <1>7 DEF WorkerStep

\* A row loses its file only as a victim, and goes with the other victims.
LEMMA RowsStayWithFiles ==
    ASSUME TypeOK, JobsAreNew, CleanupKnowsRows, NamesApart, RowsHaveFiles, Next
    PROVE  RowsHaveFiles'
<1> USE DEF workerVars, cleanupVars
<1>1. CASE \E s \in Sources : WorkerStep(s)
  BY <1>1, WorkerRows
<1>2. CASE Begin \/ List \/ Tick \/ Boot
  BY <1>2 DEF Begin, List, Tick, Boot, RowsHaveFiles, Gone
<1>3. CASE SelectOld \/ Measure \/ PassFails \/ Alert
  <2>1. gone = 0 /\ gone' = 0 /\ UNCHANGED <<disk, table, trouble>>
    BY <1>3 DEF SelectOld, Measure, PassFails, Alert, Leaves, TypeOK
  <2>2. Gone = {} /\ Gone' = {}
    BY <2>1 DEF Gone
  <2> QED
    BY <2>1, <2>2 DEF RowsHaveFiles
<1>4. CASE RemoveFile
  <2>1. victims[gone + 1] \in table
    BY <1>4 DEF RemoveFile, Removed, CleanupKnowsRows, ToSet, TypeOK
  <2>2. Gone' = Gone \cup {victims[gone + 1]}
    BY <1>4 DEF RemoveFile, Removed, Gone, TypeOK
  <2>3. /\ disk' = [disk EXCEPT ![FileOf(victims[gone + 1])] = None]
        /\ UNCHANGED <<table, trouble>>
    BY <1>4 DEF RemoveFile, Removed
  <2>4. ASSUME "clash" \notin trouble, NEW r \in table \ Gone' PROVE disk'[FileOf(r)] = disk[FileOf(r)]
    BY <2>1, <2>2, <2>3, <2>4 DEF NamesApart, TypeOK
  <2> QED
    BY <2>2, <2>3, <2>4 DEF RowsHaveFiles
<1>5. CASE RemoveFileFails
  <2>1. Gone \subseteq Gone' /\ trouble \subseteq trouble' /\ UNCHANGED <<disk, table>>
    BY <1>5 DEF RemoveFileFails, Removed, Gone, TypeOK
  <2> QED
    BY <2>1 DEF RowsHaveFiles
<1>6. CASE DeleteRows
  <2>1. Gone = ToSet(victims)
    BY <1>6, AllGone DEF DeleteRows, TypeOK
  <2>2. table' = table \ Gone /\ UNCHANGED <<disk, trouble>>
    BY <1>6, <2>1 DEF DeleteRows, Leaves
  <2> QED
    BY <2>2 DEF RowsHaveFiles
<1>7. CASE DeleteFails
  BY <1>7 DEF DeleteFails, RowsHaveFiles
<1>8. CASE Crash
  <2>1. CASE gone > 0
    BY <1>8, <2>1 DEF Crash, LeftBehind, RowsHaveFiles
  <2>2. CASE gone = 0
    <3>1. Gone = {}
      BY <2>2, NothingGone
    <3>2. trouble \subseteq trouble' /\ UNCHANGED <<disk, table>>
      BY <1>8 DEF Crash
    <3> QED
      BY <3>1, <3>2 DEF RowsHaveFiles
  <2> QED
    BY <2>1, <2>2 DEF TypeOK
<1> QED
  BY <1>1, <1>2, <1>3, <1>4, <1>5, <1>6, <1>7, <1>8 DEF Next, CleanupStep

-----------------------------------------------------------------------------
\* A file that a worker makes is in its hands until its row is added.
LEMMA WorkerFiles ==
    ASSUME TypeOK, JobsAreNew, CleanupKnowsRows, FilesHaveRows, NEW s \in Sources, WorkerStep(s)
    PROVE  FilesHaveRows'
<1> USE DEF Saving, At, workerVars, cleanupVars
<1> SUFFICES ASSUME "orphan" \notin trouble', NEW f \in Files, disk'[f] # None
             PROVE  \/ \E r \in table' \ Gone' : FileOf(r) = f
                    \/ \E t \in Sources : place'[t] \in {"writing", "store"} /\ FileOf((job')[t]) = f
  BY DEF FilesHaveRows
<1>1. "orphan" \notin trouble /\ Gone' = Gone /\ table \subseteq table'
  BY DEF WorkerStep, Trigger, Open, Write, SaveFails, Add, AddFails, Restart, Gone
<1>2. ASSUME NEW t \in Sources, t # s, Saving(t)
      PROVE  place'[t] \in {"writing", "store"} /\ job'[t] = job[t]
  BY <1>2 DEF WorkerStep, Trigger, Open, Write, SaveFails, Add, AddFails, Restart, Drops, TypeOK
<1>3. ASSUME disk[f] # None
      PROVE  \/ \E r \in table \ Gone : FileOf(r) = f
             \/ \E t \in Sources : t # s /\ Saving(t) /\ FileOf(job[t]) = f
             \/ Saving(s) /\ FileOf(job[s]) = f
  BY <1>1, <1>3 DEF FilesHaveRows
<1>4. CASE Trigger(s) \/ Restart(s)
  <2>1. ~Saving(s) /\ UNCHANGED disk
    BY <1>4 DEF Trigger, Restart
  <2> QED
    BY <1>1, <1>2, <1>3, <2>1
<1>5. CASE Open(s)
  <2>1. ~Saving(s) /\ place'[s] = "writing" /\ UNCHANGED job
    BY <1>5 DEF Open, TypeOK
  <2>2. f = FileOf(job[s]) \/ disk'[f] = disk[f]
    BY <1>5 DEF Open, TypeOK
  <2> QED
    BY <1>1, <1>2, <1>3, <2>1, <2>2
<1>6. CASE Write(s)
  <2>1. disk[f] # None
    BY <1>6 DEF Write, WrittenTo, TypeOK
  <2>2. place'[s] = "store" /\ UNCHANGED job
    BY <1>6 DEF Write, TypeOK
  <2> QED
    BY <1>1, <1>2, <2>1, <2>2 DEF FilesHaveRows
<1>7. CASE SaveFails(s)
  <2>1. ~Saving(s) /\ UNCHANGED disk
    BY <1>7 DEF SaveFails
  <2> QED
    BY <1>1, <1>2, <1>3, <2>1
<1>8. CASE Add(s)
  <2>1. Gone \subseteq table
    BY GoneAreVictims DEF CleanupKnowsRows
  <2>2. job[s] \in table' \ Gone'
    BY <1>1, <1>8, <2>1 DEF Add, JobsAreNew
  <2>3. disk[f] # None
    BY <1>8 DEF Add
  <2> QED
    BY <1>1, <1>2, <2>2, <2>3 DEF FilesHaveRows
<1>9. CASE AddFails(s)
  BY <1>9 DEF AddFails
<1> QED
  BY <1>4, <1>5, <1>6, <1>7, <1>8, <1>9 DEF WorkerStep

\* A row goes only when its file has gone, or has been found impossible to remove.
LEMMA FilesStayWithRows ==
    ASSUME TypeOK, JobsAreNew, CleanupKnowsRows, FilesHaveRows, Next
    PROVE  FilesHaveRows'
<1> USE DEF workerVars, cleanupVars
<1>1. CASE \E s \in Sources : WorkerStep(s)
  BY <1>1, WorkerFiles
<1>2. CASE Begin \/ List \/ Tick \/ Boot
  BY <1>2 DEF Begin, List, Tick, Boot, FilesHaveRows, Gone
<1>3. CASE SelectOld \/ Measure \/ PassFails \/ Alert
  <2>1. gone = 0 /\ gone' = 0 /\ UNCHANGED <<disk, table, trouble, place, job>>
    BY <1>3 DEF SelectOld, Measure, PassFails, Alert, Leaves, TypeOK
  <2>2. Gone = {} /\ Gone' = {}
    BY <2>1 DEF Gone
  <2> QED
    BY <2>1, <2>2 DEF FilesHaveRows
<1>4. CASE RemoveFile
  <2>1. Gone' = Gone \cup {victims[gone + 1]}
    BY <1>4 DEF RemoveFile, Removed, Gone, TypeOK
  <2>2. /\ disk' = [disk EXCEPT ![FileOf(victims[gone + 1])] = None]
        /\ UNCHANGED <<table, trouble, place, job>>
    BY <1>4 DEF RemoveFile, Removed
  <2>3. ASSUME NEW f \in Files, disk'[f] # None
        PROVE  disk[f] # None /\ FileOf(victims[gone + 1]) # f
    BY <2>2, <2>3 DEF TypeOK
  <2> QED
    BY <2>1, <2>2, <2>3 DEF FilesHaveRows
<1>5. CASE RemoveFileFails
  BY <1>5 DEF RemoveFileFails, FilesHaveRows
<1>6. CASE DeleteRows
  <2>1. Gone = ToSet(victims)
    BY <1>6, AllGone DEF DeleteRows, TypeOK
  <2>2. table' = table \ Gone /\ Gone' = {} /\ UNCHANGED <<disk, trouble, place, job>>
    BY <1>6, <2>1 DEF DeleteRows, Leaves, Gone
  <2> QED
    BY <2>2 DEF FilesHaveRows
<1>7. CASE DeleteFails
  <2>1. Gone' = {} /\ trouble \subseteq trouble' /\ UNCHANGED <<disk, table, place, job>>
    BY <1>7 DEF DeleteFails, Leaves, Gone
  <2> QED
    BY <2>1 DEF FilesHaveRows
<1>8. CASE Crash
  <2> SUFFICES ASSUME "orphan" \notin trouble' PROVE FilesHaveRows'
    BY DEF FilesHaveRows
  <2>1. \A s \in Sources : place[s] \notin {"writing", "store"}
    BY <1>8 DEF Crash, LeftBehind
  <2>2. Gone' = {} /\ trouble \subseteq trouble' /\ UNCHANGED <<disk, table>>
    BY <1>8 DEF Crash, Gone
  <2> QED
    BY <2>1, <2>2 DEF FilesHaveRows
<1> QED
  BY <1>1, <1>2, <1>3, <1>4, <1>5, <1>6, <1>7, <1>8 DEF Next, CleanupStep

-----------------------------------------------------------------------------
\* Every step keeps the inductive invariant.
LEMMA StepIInv == IInv /\ [Next]_vars => IInv'
<1> SUFFICES ASSUME IInv, [Next]_vars PROVE IInv'
  OBVIOUS
<1> USE DEF IInv
<1>1. CASE Next
  <2>1. TypeOK'
    BY <1>1, WorkerTypes, CleanupTypes, ProcessTypes DEF Next
  <2> QED
    BY <1>1, <2>1, JobsStayNew, VictimsStayRows, NamesStayApart, RowsStayWithFiles, FilesStayWithRows
<1>2. CASE UNCHANGED vars
  BY <1>2 DEF vars, workerVars, cleanupVars, TypeOK, JobsAreNew, CleanupKnowsRows, ToSet, NamesApart,
       Saving, RowsHaveFiles, FilesHaveRows, Gone
<1> QED
  BY <1>1, <1>2

\* The inductive invariant holds in every behaviour of the workers and the cleanup.
THEOREM Invariance == Spec => []IInv
<1> QED
  BY InitIInv, StepIInv, PTL DEF Spec

\* All state has its type, and a pass never counts past its victims (_delete_rows
\* in cleanup.py).
THEOREM TypeCorrect == Spec => []TypeOK
<1>1. IInv => TypeOK
  BY DEF IInv
<1> QED
  BY Invariance, <1>1, PTL

\* Unless a name clashed or rows outlived their files by a failure, every row that
\* the event log shows has its finished snippet.
THEOREM RowsKeepFiles == Spec => []RowsHaveFiles
<1>1. IInv => RowsHaveFiles
  BY DEF IInv
<1> QED
  BY Invariance, <1>1, PTL

\* Unless a write, an insertion or a removal failed, every file is within the
\* reach of the cleanup, clashing names or not.
THEOREM FilesKeepRows == Spec => []FilesHaveRows
<1>1. IInv => FilesHaveRows
  BY DEF IInv
<1> QED
  BY Invariance, <1>1, PTL


-----------------------------------------------------------------------------
(* Totals                                                                   *)

\* the element that a fold takes first
First(s) == CHOOSE x \in s : TRUE

\* f gives the total of each subset of S, as the recursive function in Folds does
IsSum(f, S, weight) ==
    f = [s \in SUBSET S |-> IF s = {} THEN 0 ELSE weight[First(s)] + f[s \ {First(s)}]]

\* A total is what the recursive function says.
LEMMA TotalIs ==
    ASSUME NEW S, NEW weight
    PROVE  Total(S, weight) = (CHOOSE f : IsSum(f, S, weight))[S]
BY DEF Total, SumFunctionOnSet, FoldFunctionOnSet, MapThenFoldSet, IsSum, First

\* Induction over a finite set: if some of its subsets are bad, one of these has only
\* good ones below it.
LEMMA SmallestSet ==
    ASSUME NEW S, IsFiniteSet(S), NEW T, T \subseteq SUBSET S, T # {}
    PROVE  \E x \in T : \A y \in SUBSET x : y # x => y \notin T
<1>1. T \subseteq FiniteSubsetsOf(S)
  BY FS_Subset DEF FiniteSubsetsOf
<1>2. PICK x \in T : \A y \in T : ~(<<y, x>> \in StrictSubsetOrdering(S))
  BY <1>1, FS_StrictSubsetOrderingWellFounded, WFMin
<1> QED
  BY <1>1, <1>2 DEF StrictSubsetOrdering, FiniteSubsetsOf

\* The first element is one.
LEMMA FirstIsIn == \A s : s # {} => First(s) \in s
BY DEF First

\* Totals of a set's subsets do not depend on what else is summed.
LEMMA SumsAgree ==
    ASSUME NEW S, NEW T, IsFiniteSet(S), S \subseteq T, NEW weight,
           NEW f, IsSum(f, S, weight), NEW g, IsSum(g, T, weight)
    PROVE  f[S] = g[S]
<1> DEFINE Bad == {s \in SUBSET S : f[s] # g[s]}
<1> SUFFICES ASSUME Bad # {} PROVE FALSE
  OBVIOUS
<1>1. PICK s \in Bad : \A y \in SUBSET s : y # s => y \notin Bad
  <2> HIDE DEF Bad
  <2>1. Bad \subseteq SUBSET S
    BY DEF Bad
  <2> QED
    BY <2>1, SmallestSet
<1>2. f[s] = (IF s = {} THEN 0 ELSE weight[First(s)] + f[s \ {First(s)}])
  BY DEF IsSum
<1>3. g[s] = (IF s = {} THEN 0 ELSE weight[First(s)] + g[s \ {First(s)}])
  BY DEF IsSum
<1>4. CASE s = {}
  BY <1>2, <1>3, <1>4
<1>5. CASE s # {}
  <2>1. First(s) \in s
    BY <1>5, FirstIsIn
  <2>2. f[s \ {First(s)}] = g[s \ {First(s)}]
    BY <1>1, <2>1
  <2> QED
    BY <1>2, <1>3, <1>5, <2>2
<1> QED
  BY <1>4, <1>5

\* There is such a function for every finite set: below a smallest one without it, it is
\* put together from those of the smaller sets.
LEMMA SumExists ==
    ASSUME NEW S, IsFiniteSet(S), NEW weight
    PROVE  \E f : IsSum(f, S, weight)
<1> DEFINE Bad == {s \in SUBSET S : ~ \E f : IsSum(f, s, weight)}
<1> SUFFICES ASSUME Bad # {} PROVE FALSE
  OBVIOUS
<1>1. PICK s \in Bad : \A y \in SUBSET s : y # s => y \notin Bad
  <2> HIDE DEF Bad
  <2>1. Bad \subseteq SUBSET S
    BY DEF Bad
  <2> QED
    BY <2>1, SmallestSet
<1> DEFINE Of(y) == CHOOSE f : IsSum(f, y, weight)
           Below(y) == Of(y)[y]
           g == [y \in SUBSET s |-> IF y = {} THEN 0
                                    ELSE weight[First(y)] + Below(y \ {First(y)})]
<1>2. \A y \in SUBSET s : y # s => IsSum(Of(y), y, weight)
  <2> SUFFICES ASSUME NEW y \in SUBSET s, y # s PROVE IsSum(Of(y), y, weight)
    OBVIOUS
  <2>1. \E f : IsSum(f, y, weight)
    BY <1>1
  <2> QED
    BY <2>1
<1>3. ASSUME NEW y \in SUBSET s, y # s
      PROVE  Below(y) = g[y]
  <2>1. IsSum(Of(y), y, weight)
    BY <1>2, <1>3
  <2>2. CASE y = {}
    BY <2>1, <2>2 DEF IsSum
  <2>3. CASE y # {}
    <3> DEFINE z == y \ {First(y)}
    <3>1. z \in SUBSET s /\ z # s /\ z \subseteq y
      BY <2>3, FirstIsIn
    <3>2. IsFiniteSet(z)
      BY <3>1, FS_Subset
    <3>3. Below(z) = Of(y)[z]
      <4>1. IsSum(Of(z), z, weight)
        BY <1>2, <3>1
      <4> HIDE DEF z, Of
      <4> QED
        BY <4>1, <2>1, <3>1, <3>2, SumsAgree
    <3>4. Of(y)[y] = weight[First(y)] + Of(y)[z]
      BY <2>1, <2>3 DEF IsSum
    <3>5. g[y] = weight[First(y)] + Below(z)
      BY <2>3
    <3> QED
      BY <3>3, <3>4, <3>5
  <2> QED
    BY <2>2, <2>3
<1>4. IsSum(g, s, weight)
  <2>1. ASSUME NEW y \in SUBSET s, y # {}
        PROVE  Below(y \ {First(y)}) = g[y \ {First(y)}]
    <3>1. First(y) \in y
      BY <2>1, FirstIsIn
    <3>2. y \ {First(y)} \in SUBSET s /\ y \ {First(y)} # s
      BY <3>1
    <3> HIDE DEF Below, g
    <3> QED
      BY <3>2, <1>3
  <2>2. \A y \in SUBSET s : g[y] = IF y = {} THEN 0 ELSE weight[First(y)] + g[y \ {First(y)}]
    <3> SUFFICES ASSUME NEW y \in SUBSET s
                 PROVE  g[y] = IF y = {} THEN 0 ELSE weight[First(y)] + g[y \ {First(y)}]
      OBVIOUS
    <3>1. g[y] = IF y = {} THEN 0 ELSE weight[First(y)] + Below(y \ {First(y)})
      OBVIOUS
    <3> HIDE DEF g, Below
    <3> QED
      BY <2>1, <3>1
  <2>3. g = [y \in SUBSET s |-> g[y]]
    OBVIOUS
  <2> HIDE DEF g
  <2> QED
    BY <2>2, <2>3 DEF IsSum
<1> QED
  BY <1>4

\* The recursion equation of a total.
LEMMA TotalTakesFirst ==
    ASSUME NEW S, IsFiniteSet(S), NEW weight
    PROVE  Total(S, weight) = IF S = {} THEN 0
                              ELSE weight[First(S)] + Total(S \ {First(S)}, weight)
<1> DEFINE f == CHOOSE h : IsSum(h, S, weight)
           T == S \ {First(S)}
           g == CHOOSE h : IsSum(h, T, weight)
<1>1. IsFiniteSet(T)
  BY FS_Subset
<1>2. IsSum(f, S, weight) /\ IsSum(g, T, weight)
  BY <1>1, SumExists
<1>3. Total(S, weight) = f[S] /\ Total(T, weight) = g[T]
  BY TotalIs
<1>4. f[T] = g[T]
  <2> HIDE DEF f, g
  <2>1. T \subseteq S
    OBVIOUS
  <2> HIDE DEF T
  <2> QED
    BY <1>1, <1>2, <2>1, SumsAgree
<1>5. f[S] = IF S = {} THEN 0 ELSE weight[First(S)] + f[T]
  <2> HIDE DEF f
  <2> QED
    BY <1>2 DEF IsSum
<1> QED
  BY <1>3, <1>4, <1>5

\* A total of natural numbers is one.
LEMMA TotalIsNat ==
    ASSUME NEW S, IsFiniteSet(S), NEW weight, \A x \in S : weight[x] \in Nat
    PROVE  Total(S, weight) \in Nat
<1> DEFINE Bad == {s \in SUBSET S : Total(s, weight) \notin Nat}
<1> SUFFICES ASSUME Bad # {} PROVE FALSE
  OBVIOUS
<1>1. PICK s \in Bad : \A y \in SUBSET s : y # s => y \notin Bad
  <2> HIDE DEF Bad
  <2>1. Bad \subseteq SUBSET S
    BY DEF Bad
  <2> QED
    BY <2>1, SmallestSet
<1>2. IsFiniteSet(s)
  BY FS_Subset
<1>3. Total(s, weight) = IF s = {} THEN 0 ELSE weight[First(s)] + Total(s \ {First(s)}, weight)
  BY <1>2, TotalTakesFirst
<1>4. s # {} /\ First(s) \in s
  BY <1>3, FirstIsIn
<1>5. Total(s \ {First(s)}, weight) \in Nat
  BY <1>1, <1>4
<1> QED
  BY <1>3, <1>4, <1>5

\* Any element may be taken first: the order of an addition does not matter.
LEMMA TotalTakesAny ==
    ASSUME NEW S, IsFiniteSet(S), NEW weight, \A x \in S : weight[x] \in Nat
    PROVE  \A x \in S : Total(S, weight) = weight[x] + Total(S \ {x}, weight)
<1> DEFINE Bad == {s \in SUBSET S : \E x \in s : Total(s, weight) # weight[x] + Total(s \ {x}, weight)}
<1> SUFFICES ASSUME Bad # {} PROVE FALSE
  OBVIOUS
<1>1. PICK s \in Bad : \A y \in SUBSET s : y # s => y \notin Bad
  <2> HIDE DEF Bad
  <2>1. Bad \subseteq SUBSET S
    BY DEF Bad
  <2> QED
    BY <2>1, SmallestSet
<1>2. PICK x \in s : Total(s, weight) # weight[x] + Total(s \ {x}, weight)
  OBVIOUS
<1> DEFINE c == First(s)
<1>3. c \in s
  BY FirstIsIn
<1>4. Total(s, weight) = weight[c] + Total(s \ {c}, weight)
  BY <1>3, FS_Subset, TotalTakesFirst
<1>5. x # c
  BY <1>2, <1>4
<1> HIDE DEF c
<1>6. Total(s \ {c}, weight) = weight[x] + Total((s \ {c}) \ {x}, weight)
  BY <1>1, <1>3, <1>5
<1>7. Total(s \ {x}, weight) = weight[c] + Total((s \ {x}) \ {c}, weight)
  BY <1>1, <1>2, <1>3, <1>5
<1>8. (s \ {c}) \ {x} = (s \ {x}) \ {c}
  OBVIOUS
<1>9. Total((s \ {c}) \ {x}, weight) \in Nat /\ weight[x] \in Nat /\ weight[c] \in Nat
  BY <1>3, FS_Subset, TotalIsNat
<1> QED
  BY <1>2, <1>4, <1>6, <1>7, <1>8, <1>9

\* Fewer and smaller ones have no larger total.
LEMMA TotalIsMonotonic ==
    ASSUME NEW S, IsFiniteSet(S), NEW low, NEW high,
           \A x \in S : low[x] \in Nat /\ high[x] \in Nat /\ low[x] <= high[x],
           NEW T \in SUBSET S
    PROVE  Total(T, low) <= Total(S, high)
<1> DEFINE Bad == {s \in SUBSET S : ~ \A t \in SUBSET s : Total(t, low) <= Total(s, high)}
<1> SUFFICES ASSUME Bad # {} PROVE FALSE
  OBVIOUS
<1>1. PICK s \in Bad : \A y \in SUBSET s : y # s => y \notin Bad
  <2> HIDE DEF Bad
  <2>1. Bad \subseteq SUBSET S
    BY DEF Bad
  <2> QED
    BY <2>1, SmallestSet
<1>2. PICK t \in SUBSET s : ~(Total(t, low) <= Total(s, high))
  OBVIOUS
<1>3. IsFiniteSet(s) /\ IsFiniteSet(t)
  BY FS_Subset
<1>4. Total(t, low) \in Nat /\ Total(s, high) \in Nat
  BY <1>3, TotalIsNat
<1>5. CASE s = {}
  <2>1. t = {} /\ Total(t, low) = 0 /\ Total(s, high) = 0
    BY <1>3, <1>5, TotalTakesFirst
  <2> HIDE DEF Bad
  <2> QED
    BY <1>2, <2>1
<1>6. CASE s # {}
  <2>1. PICK x \in s : TRUE
    BY <1>6
  <2>2. Total(s, high) = high[x] + Total(s \ {x}, high)
    BY <1>3, TotalTakesAny
  <2>3. Total(t \ {x}, low) <= Total(s \ {x}, high)
    BY <1>1, <2>1
  <2>4. Total(t \ {x}, low) \in Nat /\ Total(s \ {x}, high) \in Nat
    BY FS_Subset, TotalIsNat
  <2>5. CASE x \in t
    <3>1. Total(t, low) = low[x] + Total(t \ {x}, low)
      BY <1>3, <2>5, TotalTakesAny
    <3> QED
      BY <1>2, <2>2, <2>3, <2>4, <3>1
  <2>6. CASE x \notin t
    <3>1. Total(t \ {x}, low) = Total(t, low)
      <4>1. t \ {x} = t
        BY <2>6
      <4> QED
        BY <4>1
    <3>2. high[x] \in Nat
      OBVIOUS
    <3> HIDE DEF Bad
    <3> QED
      BY <1>2, <2>2, <2>3, <2>4, <3>1, <3>2
  <2> QED
    BY <2>5, <2>6
<1> QED
  BY <1>5, <1>6

\* The total of one.
LEMMA TotalOfOne ==
    ASSUME NEW x, NEW weight, weight[x] \in Nat
    PROVE  Total({x}, weight) = weight[x]
<1>1. IsFiniteSet({x}) /\ First({x}) = x /\ {x} \ {x} = {}
  BY FS_Singleton DEF First
<1>2. Total({x}, weight) = weight[x] + Total({}, weight)
  BY <1>1, TotalTakesFirst
<1>3. Total({}, weight) = 0
  BY FS_EmptySet, TotalTakesFirst
<1> QED
  BY <1>2, <1>3

-----------------------------------------------------------------------------
(* What a pass leaves                                                       *)

\* a capture is at work
Busy(s) == place[s] \in {"capturing", "writing", "store"}

\* ids are unique, and a capture's is in no list yet: what is added during a pass is not
\* among the rows it has listed
IdsAreNew ==
    /\ \A r, q \in table : r.id = q.id => r = q
    /\ \A r \in listed : r.id <= captures
    /\ \A s \in Sources : Busy(s) =>
          /\ \A r \in table \cup listed : r.id # job[s].id
          /\ \A t \in Sources \ {s} : Busy(t) => job[t].id # job[s].id

\* what the pass by space has measured is an upper bound until it ends, and what it
\* spares is within the cap by these sizes
PassKeepsSizes ==
    /\ cleanup \notin {"remove", "delete"} => phase = "age"
    /\ phase = "space" =>
          /\ listed \subseteq table
          /\ \A r \in listed : sizes[r.id] \in Nat
          /\ "clash" \notin trouble => \A r \in listed : Size(FileOf(r)) <= sizes[r.id]
          /\ Total(listed \ ToSet(victims), ById(sizes)) <= MaxSpace

\* TableUnderCap, from the deletion of the rows on
PassEndsUnderCap ==
    (cleanup \in {"wait", "alert"} /\ MaxSpace # 0 /\ "clash" \notin trouble) =>
        Total(table \cap listed, FileSizes) <= MaxSpace

\* the inductive invariant for the two passes
PInv == IInv /\ IdsAreNew /\ PassKeepsSizes /\ PassEndsUnderCap /\ SparesTheNew

\* A file that is missing has size 0.
LEMMA SizeIsNat ==
    ASSUME TypeOK
    PROVE  \A f \in Files : Size(f) \in Nat
<1> SUFFICES ASSUME NEW f \in Files PROVE Size(f) \in Nat
  OBVIOUS
<1>1. disk[f] \in Sizes \cup {0, None}
  BY DEF TypeOK
<1>2. CASE disk[f] = None
  BY <1>2 DEF Size
<1>3. CASE disk[f] # None
  <2>1. disk[f] \in Nat
    <3>1. \A size \in Sizes : size \in Nat
      BY RetentionAssumption
    <3>2. disk[f] \in Sizes \/ disk[f] = 0
      BY <1>1, <1>3
    <3> QED
      BY <3>1, <3>2
  <2> QED
    BY <1>3, <2>1 DEF Size
<1> QED
  BY <1>2, <1>3

\* So do rows whose files are missing.
LEMMA FileSizesAreNat ==
    ASSUME TypeOK
    PROVE  \A r \in Rows : FileSizes[r] = Size(FileOf(r)) /\ FileSizes[r] \in Nat
BY SizeIsNat, RowsAreFiled DEF FileSizes

\* A capture gets an id that no row, list or other capture has.
LEMMA IdsStayNew ==
    ASSUME TypeOK, JobsAreNew, CleanupKnowsRows, IdsAreNew, Next
    PROVE  IdsAreNew'
<1> USE DEF workerVars, cleanupVars
<1>1. ASSUME NEW s \in Sources, WorkerStep(s) PROVE IdsAreNew'
  <2> USE DEF IdsAreNew, JobsAreNew, At, Busy
  <2>0. \A r \in table \cup listed : r.id \in Nat
    BY RetentionAssumption DEF TypeOK, Rows
  <2>1. CASE Trigger(s)
    <3>1. /\ UNCHANGED <<table, listed>> /\ captures' = captures + 1 /\ captures \in Nat
          /\ job'[s].id = captures + 1
      BY <2>1, RetentionAssumption DEF Trigger, TypeOK
    <3>2. \A t \in Sources \ {s} : job'[t] = job[t] /\ place'[t] = place[t]
      BY <2>1 DEF Trigger, TypeOK
    <3>3. \A t \in Sources \ {s} : Busy(t) => job[t].id <= captures /\ job[t].id \in Nat
      BY RetentionAssumption DEF TypeOK
    <3> QED
      BY <2>0, <3>1, <3>2, <3>3
  <2>2. CASE Open(s) \/ Write(s)
    <3>1. UNCHANGED <<table, listed, captures, job>> /\ \A t \in Sources : Busy(t)' => Busy(t)
      BY <2>2 DEF Open, Write, TypeOK
    <3> QED
      BY <3>1
  <2>3. CASE SaveFails(s) \/ AddFails(s) \/ Restart(s)
    <3>1. UNCHANGED <<table, listed, captures>>
      BY <2>3 DEF SaveFails, AddFails, Restart
    <3>2. \A t \in Sources : Busy(t)' => Busy(t) /\ job'[t] = job[t]
      BY <2>3 DEF SaveFails, AddFails, Restart, Drops, TypeOK
    <3> QED
      BY <3>1, <3>2
  <2>4. CASE Add(s)
    <3>1. UNCHANGED <<listed, captures>> /\ table' = table \cup {job[s]} /\ Busy(s)
      BY <2>4 DEF Add, TypeOK
    <3>2. ASSUME NEW t \in Sources, Busy(t)'
          PROVE  t # s /\ Busy(t) /\ job'[t] = job[t]
      BY <2>4, <3>2 DEF Add, Drops, TypeOK
    <3> QED
      BY <3>1, <3>2
  <2> QED
    BY <1>1, <2>1, <2>2, <2>3, <2>4 DEF WorkerStep
<1>2. CASE CleanupStep \/ DeleteFails \/ PassFails \/ Tick \/ Boot
  <2>1. table' \subseteq table /\ UNCHANGED <<captures, place, job>>
    BY <1>2 DEF CleanupStep, Begin, SelectOld, List, Measure, RemoveFile, RemoveFileFails, Removed,
         DeleteRows, Alert, DeleteFails, PassFails, Leaves, Tick, Boot
  <2>2. listed' \subseteq listed \cup table
    BY <1>2 DEF CleanupStep, Begin, SelectOld, List, Measure, RemoveFile, RemoveFileFails, Removed,
         DeleteRows, Alert, DeleteFails, PassFails, Leaves, Tick, Boot
  <2> QED
    BY <2>1, <2>2 DEF IdsAreNew, JobsAreNew, Busy
<1>3. CASE Crash
  BY <1>3 DEF Crash, IdsAreNew, Busy, TypeOK
<1> QED
  BY <1>1, <1>2, <1>3 DEF Next

\* Without a clash no step makes the file of a row grow.
LEMMA FilesDoNotGrow ==
    ASSUME TypeOK, JobsAreNew, NamesApart, Next, "clash" \notin trouble'
    PROVE  \A r \in table : Size(FileOf(r))' <= Size(FileOf(r)) /\ Size(FileOf(r))' \in Nat
<1> USE DEF workerVars, cleanupVars
<1> SUFFICES ASSUME NEW r \in table
             PROVE  Size(FileOf(r))' <= Size(FileOf(r)) /\ Size(FileOf(r))' \in Nat
  OBVIOUS
<1>1. FileOf(r) \in Files /\ Size(FileOf(r)) \in Nat
  BY RowsAreFiled, SizeIsNat DEF TypeOK
<1>2. ASSUME disk'[FileOf(r)] \in {disk[FileOf(r)], None}
      PROVE  Size(FileOf(r))' <= Size(FileOf(r)) /\ Size(FileOf(r))' \in Nat
  BY <1>1, <1>2, RetentionAssumption DEF Size
<1>3. ASSUME NEW s \in Sources, WorkerStep(s) PROVE disk'[FileOf(r)] = disk[FileOf(r)]
  <2>1. "clash" \notin trouble
    BY <1>3 DEF WorkerStep, Trigger, Open, Write, SaveFails, Add, AddFails, Restart
  <2>2. CASE UNCHANGED disk
    BY <2>2
  <2>3. CASE Open(s)
    <3>1. Clash(FileOf(job[s])) = {}
      BY <2>3 DEF Open, Clash
    <3>2. FileOf(r) # FileOf(job[s])
      BY <3>1 DEF Clash
    <3> QED
      BY <2>3, <3>2, <1>1 DEF Open, TypeOK
  <2>4. CASE place[s] = "writing" /\ (Write(s) \/ SaveFails(s))
    <3>1. FileOf(r) # FileOf(job[s])
      BY <2>1, <2>4 DEF NamesApart, Saving
    <3> QED
      BY <2>4, <3>1, <1>1 DEF Write, SaveFails, At, WrittenTo, TypeOK
  <2> QED
    BY <1>3, <2>2, <2>3, <2>4 DEF WorkerStep, Trigger, Write, SaveFails, Add, AddFails, Restart, At
<1>4. CASE CleanupStep \/ DeleteFails \/ PassFails \/ Tick \/ Crash \/ Boot
  <2>1. CASE RemoveFile
    BY <2>1, <1>1, <1>2 DEF RemoveFile, TypeOK
  <2> QED
    BY <1>2, <1>4, <2>1 DEF CleanupStep, Begin, SelectOld, List, Measure, RemoveFileFails,
         DeleteRows, Alert, DeleteFails, PassFails, Leaves, Tick, Crash, Boot
<1> QED
  BY <1>2, <1>3, <1>4 DEF Next

-----------------------------------------------------------------------------
(* The loop of _cleanup_by_space                                            *)

\* list_all_ordered_by_age_asc returns every row, once.
LEMMA ListsAreComplete ==
    ASSUME NEW rows, IsFiniteSet(rows), NEW order \in ByAge(rows)
    PROVE  /\ order \in Seq(rows)
           /\ \A r \in rows : \E i \in 1..Len(order) : order[i] = r
           /\ \A i, j \in 1..Len(order) : i # j => order[i] # order[j]
           /\ \A i, j \in 1..Len(order) : i < j => order[i].stamp <= order[j].stamp
<1> DEFINE n == Cardinality(rows)
<1>1. n \in Nat /\ IsFiniteSet(1..n) /\ Cardinality(1..n) = n
  BY FS_CardinalityType, FS_Interval
<1>2. order \in [1..n -> rows] /\ \A i, j \in 1..n : i # j => order[i] # order[j]
  BY DEF ByAge, SetToSeqs
<1>3. order \in Injection(1..n, rows)
  BY <1>2 DEF Injection, IsInjective
<1>4. order \in Surjection(1..n, rows)
  BY <1>1, <1>3, FS_Injection
<1>5. order \in Seq(rows) /\ Len(order) = n
  BY OrdersAreLists, ListsHaveAll
<1>6. \A r \in rows : \E i \in 1..n : order[i] = r
  BY <1>4 DEF Surjection
<1>7. \A i, j \in 1..Len(order) : i < j => order[i].stamp <= order[j].stamp
  BY DEF ByAge
<1> QED
  BY <1>2, <1>5, <1>6, <1>7

\* What the first k leave is the rest of the list.
LEMMA RestIsSpared ==
    ASSUME NEW rows, IsFiniteSet(rows), NEW order \in ByAge(rows), NEW k \in 0..Len(order)
    PROVE  /\ ToSet(SubSeq(order, k + 1, Len(order))) = rows \ ToSet(SubSeq(order, 1, k))
           /\ \A r \in ToSet(SubSeq(order, 1, k)) : \E i \in 1..k : r = order[i]
           /\ \A i \in 1..k : order[i] \in ToSet(SubSeq(order, 1, k))
           /\ \A q \in rows \ ToSet(SubSeq(order, 1, k)) : \E j \in (k + 1)..Len(order) : q = order[j]
<1> DEFINE n == Len(order)
<1>1. /\ order \in Seq(rows) /\ n \in Nat
      /\ \A r \in rows : \E i \in 1..n : order[i] = r
      /\ \A i, j \in 1..n : i # j => order[i] # order[j]
  <2>1. order \in Seq(rows)
    BY ListsAreComplete
  <2>2. n \in Nat
    BY <2>1
  <2> QED
    BY <2>1, <2>2, ListsAreComplete, ZenonT(30)
<1>2. \A i \in 1..n : order[i] \in rows
  BY <1>1
<1>3. ToSet(SubSeq(order, 1, k)) = {order[i] : i \in 1..k}
  <2>1. /\ DOMAIN SubSeq(order, 1, k) = 1..k
        /\ \A i \in 1..k : SubSeq(order, 1, k)[i] = order[i]
    BY <1>1
  <2> QED
    BY <2>1 DEF ToSet
<1>4. ToSet(SubSeq(order, k + 1, n)) = {order[i] : i \in (k + 1)..n}
  <2>1. /\ DOMAIN SubSeq(order, k + 1, n) = 1..(n - k)
        /\ \A i \in 1..(n - k) : SubSeq(order, k + 1, n)[i] = order[k + i]
    <3>1. k \in 0..n /\ n \in Nat
      BY <1>1
    <3> HIDE DEF n
    <3>2. \A i \in (k + 1)..n : order[i] \in rows
      BY <1>2, <3>1
    <3> DEFINE rest == SubSeq(order, k + 1, n)
    <3>3. /\ rest \in Seq(rows)
          /\ Len(rest) = IF k + 1 <= n THEN n - (k + 1) + 1 ELSE 0
          /\ \A i \in 1..(n - (k + 1) + 1) : rest[i] = order[k + 1 + i - 1]
      BY <3>1, <3>2, SubSeqProperties
    <3> HIDE DEF rest
    <3>4. Len(rest) = n - k
      BY <3>1, <3>3
    <3>5. DOMAIN rest = 1..(n - k)
      BY <3>3, <3>4
    <3>6. \A i \in 1..(n - k) : rest[i] = order[k + i]
      <4>1. n - (k + 1) + 1 = n - k
        BY <3>1
      <4>2. \A i \in 1..(n - k) : k + 1 + i - 1 = k + i
        BY <3>1
      <4> QED
        BY <3>3, <4>1, <4>2
    <3> QED
      BY <3>5, <3>6 DEF rest
  <2>2. \A i \in (k + 1)..n : i - k \in 1..(n - k) /\ k + (i - k) = i
    BY <1>1
  <2>3. \A i \in 1..(n - k) : k + i \in (k + 1)..n
    BY <1>1
  <2> HIDE DEF n
  <2> DEFINE rest == SubSeq(order, k + 1, n)
  <2>4. \A i \in 1..(n - k) : rest[i] \in {order[j] : j \in (k + 1)..n}
    BY <2>1, <2>3
  <2>5. \A j \in (k + 1)..n : order[j] \in {rest[i] : i \in 1..(n - k)}
    <3> SUFFICES ASSUME NEW j \in (k + 1)..n PROVE order[j] \in {rest[i] : i \in 1..(n - k)}
      OBVIOUS
    <3>1. rest[j - k] = order[j] /\ j - k \in 1..(n - k)
      BY <2>1, <2>2
    <3> HIDE DEF rest
    <3> QED
      BY <3>1
  <2> HIDE DEF rest
  <2>6. ToSet(rest) = {rest[i] : i \in 1..(n - k)}
    BY <2>1 DEF ToSet, rest
  <2>7. ToSet(rest) = {order[i] : i \in (k + 1)..n}
    BY <2>4, <2>5, <2>6
  <2> QED
    BY <2>7 DEF rest
<1>5. \A i \in 1..n : i \in 1..k \/ i \in (k + 1)..n
  BY <1>1
<1>6. \A i \in 1..k, j \in (k + 1)..n : i \in 1..n /\ j \in 1..n /\ i # j
  BY <1>1
<1>7. {order[i] : i \in (k + 1)..n} = rows \ {order[i] : i \in 1..k}
  <2> HIDE DEF n
  <2> QED
    BY <1>1, <1>2, <1>5, <1>6
<1> QED
  BY <1>3, <1>4, <1>7

\* The loop stops as soon as the rest is within the cap, and takes the oldest.
LEMMA EvictedIsLeast ==
    ASSUME NEW rows, IsFiniteSet(rows), NEW order \in ByAge(rows), \A r \in rows : r.stamp \in Int,
           NEW size, NEW list \in Evicted(order, size)
    PROVE  /\ Total(rows \ ToSet(list), ById(size)) <= MaxSpace
           /\ list # <<>> =>
                 /\ \A r \in ToSet(list), q \in rows \ ToSet(list) : r.stamp <= q.stamp
                 /\ Total((rows \ ToSet(list)) \cup {list[Len(list)]}, ById(size)) > MaxSpace
<1> DEFINE n == Len(order)
           Rest(k) == Total(ToSet(SubSeq(order, k + 1, n)), ById(size))
<1>1. PICK k \in 0..n : /\ list = SubSeq(order, 1, k)
                        /\ Rest(k) <= MaxSpace
                        /\ \A m \in 0..(k - 1) : Rest(m) > MaxSpace
  BY DEF Evicted
<1>2. /\ order \in Seq(rows) /\ n \in Nat
      /\ \A i, j \in 1..n : i < j => order[i].stamp <= order[j].stamp
  BY ListsAreComplete
<1>3. /\ ToSet(SubSeq(order, k + 1, n)) = rows \ ToSet(list)
      /\ \A r \in ToSet(list) : \E i \in 1..k : r = order[i]
      /\ \A q \in rows \ ToSet(list) : \E j \in (k + 1)..n : q = order[j]
  BY <1>1, RestIsSpared
<1>4. Total(rows \ ToSet(list), ById(size)) <= MaxSpace
  BY <1>1, <1>3
<1>5. \A r \in ToSet(list), q \in rows \ ToSet(list) : r.stamp <= q.stamp
  <2> SUFFICES ASSUME NEW r \in ToSet(list), NEW q \in rows \ ToSet(list) PROVE r.stamp <= q.stamp
    OBVIOUS
  <2>1. PICK i \in 1..k : r = order[i]
    BY <1>3
  <2>2. PICK j \in (k + 1)..n : q = order[j]
    BY <1>3
  <2>3. i \in 1..n /\ j \in 1..n /\ i < j
    BY <1>2
  <2> QED
    BY <1>2, <2>1, <2>2, <2>3
<1>6. ASSUME list # <<>>
      PROVE  Total((rows \ ToSet(list)) \cup {list[Len(list)]}, ById(size)) > MaxSpace
  <2>1. k \in 1..n /\ Len(list) = k /\ list[Len(list)] = order[k]
    BY <1>1, <1>2, <1>6
  <2>2. k - 1 \in 0..n /\ (k - 1) + 1 = k /\ k - 1 \in 0..(k - 1)
    BY <2>1, <1>2
  <2>3. Rest(k - 1) > MaxSpace
    BY <1>1, <2>2
  <2>4. ToSet(SubSeq(order, k, n)) = ToSet(SubSeq(order, k + 1, n)) \cup {order[k]}
    <3>1. /\ DOMAIN SubSeq(order, k, n) = 1..(n - k + 1)
          /\ \A i \in 1..(n - k + 1) : SubSeq(order, k, n)[i] = order[k + i - 1]
      BY <1>2, <2>1
    <3>2. /\ DOMAIN SubSeq(order, k + 1, n) = 1..(n - k)
          /\ \A i \in 1..(n - k) : SubSeq(order, k + 1, n)[i] = order[k + i]
      BY <1>2, <2>1
    <3>3. ASSUME NEW i \in 1..(n - k + 1)
          PROVE  SubSeq(order, k, n)[i] \in ToSet(SubSeq(order, k + 1, n)) \cup {order[k]}
      <4>1. CASE i = 1
        BY <3>1, <4>1, <1>2, <2>1
      <4>2. CASE i # 1
        <5>1. i - 1 \in 1..(n - k) /\ k + (i - 1) = k + i - 1
          BY <4>2, <1>2, <2>1
        <5> DEFINE all == SubSeq(order, k, n)
                   few == SubSeq(order, k + 1, n)
                   j == i - 1
        <5>2. all[i] = order[k + i - 1] /\ few[j] = order[k + j] /\ j \in DOMAIN few
          BY <3>1, <3>2, <5>1
        <5>3. all[i] = few[j]
          BY <5>1, <5>2
        <5> HIDE DEF all, few, j
        <5>4. few[j] \in ToSet(few)
          BY <5>2 DEF ToSet
        <5> QED
          BY <5>3, <5>4 DEF all, few
      <4> QED
        BY <4>1, <4>2
    <3>4. ASSUME NEW i \in 1..(n - k)
          PROVE  SubSeq(order, k + 1, n)[i] \in ToSet(SubSeq(order, k, n))
      <4>1. i + 1 \in 1..(n - k + 1) /\ k + (i + 1) - 1 = k + i
        BY <1>2, <2>1
      <4> HIDE DEF n
      <4> QED
        BY <3>1, <3>2, <4>1 DEF ToSet
    <3>5. order[k] \in ToSet(SubSeq(order, k, n))
      <4>1. 1 \in 1..(n - k + 1) /\ k + 1 - 1 = k
        BY <1>2, <2>1
      <4> HIDE DEF n
      <4> QED
        BY <3>1, <4>1 DEF ToSet
    <3> HIDE DEF n
    <3>6. ToSet(SubSeq(order, k, n)) \subseteq ToSet(SubSeq(order, k + 1, n)) \cup {order[k]}
      BY <3>1, <3>3 DEF ToSet
    <3>7. ToSet(SubSeq(order, k + 1, n)) \subseteq ToSet(SubSeq(order, k, n))
      BY <3>2, <3>4 DEF ToSet
    <3> QED
      BY <3>5, <3>6, <3>7
  <2> HIDE DEF n
  <2> QED
    BY <1>3, <2>1, <2>2, <2>3, <2>4
<1> QED
  BY <1>4, <1>5, <1>6

\* Each row is measured by its own file.
LEMMA MeasuredIs ==
    ASSUME TypeOK, CleanupKnowsRows, IdsAreNew, cleanup = "measure"
    PROVE  \A r \in listed : Measured[r.id] = Size(FileOf(r)) /\ Measured[r.id] \in Nat
<1> SUFFICES ASSUME NEW r \in listed
             PROVE  Measured[r.id] = Size(FileOf(r)) /\ Measured[r.id] \in Nat
  OBVIOUS
<1>1. r \in Rows /\ r.id \in 1..MaxCaptures
  BY DEF TypeOK, Rows
<1>2. {q \in listed : q.id = r.id} = {r}
  BY DEF IdsAreNew, CleanupKnowsRows
<1>3. FileSizes[r] = Size(FileOf(r)) /\ FileSizes[r] \in Nat
  BY <1>1, FileSizesAreNat
<1>4. Measured[r.id] = Total({r}, FileSizes)
  BY <1>1, <1>2 DEF Measured
<1> QED
  BY <1>3, <1>4, TotalOfOne

\* Files, once measured, do not grow, and what the loop spares is within the cap.
LEMMA SizesAreKept ==
    ASSUME TypeOK, JobsAreNew, CleanupKnowsRows, NamesApart, IdsAreNew, PassKeepsSizes, Next
    PROVE  PassKeepsSizes'
<1> USE DEF workerVars, cleanupVars
<1>1. CASE Measure
  <2>1. PICK order \in ByAge(listed) : victims' \in Evicted(order, Measured)
    BY <1>1 DEF Measure
  <2>2. CASE victims' = <<>>
    BY <1>1, <2>2 DEF Measure, PassKeepsSizes
  <2>3. CASE victims' # <<>>
    <3>1. /\ cleanup = "measure" /\ cleanup' = "remove" /\ phase' = "space" /\ sizes' = Measured
          /\ UNCHANGED <<table, listed, disk, trouble>>
      BY <1>1, <2>3 DEF Measure
    <3>2. listed \subseteq table /\ IsFiniteSet(listed) /\ \A r \in listed : r.stamp \in Int
      BY <3>1, RetentionAssumption DEF CleanupKnowsRows, TypeOK, Rows
    <3>3. Total(listed \ ToSet(victims'), ById(Measured)) <= MaxSpace
      BY <2>1, <3>2, EvictedIsLeast
    <3>4. \A r \in listed : Size(FileOf(r))' = Size(FileOf(r))
      BY <3>1 DEF Size
    <3>5. \A r \in listed : sizes'[r.id] = Size(FileOf(r)) /\ sizes'[r.id] \in Nat
      BY <3>1, MeasuredIs
    <3>6. Total(listed' \ ToSet(victims'), ById(sizes)') <= MaxSpace
      BY <3>1, <3>3 DEF ById
    <3>7. \A r \in listed' : sizes'[r.id] \in Nat /\ Size(FileOf(r))' <= sizes'[r.id]
      BY <3>1, <3>4, <3>5
    <3>8. (\A r \in listed : Size(FileOf(r)) <= sizes[r.id])'
      BY <3>7
    <3> QED
      BY <3>1, <3>2, <3>6, <3>7, <3>8 DEF PassKeepsSizes
  <2> QED
    BY <2>2, <2>3
<1>2. CASE \/ \E s \in Sources : WorkerStep(s)
           \/ RemoveFile \/ RemoveFileFails \/ Tick \/ Boot
  <2>1. /\ UNCHANGED <<phase, listed, sizes, victims>> /\ table \subseteq table'
        /\ cleanup' = cleanup \/ (cleanup = "remove" /\ cleanup' \in {"remove", "delete"})
        /\ trouble \subseteq trouble'
    BY <1>2 DEF WorkerStep, Trigger, Open, Write, SaveFails, Add, AddFails, Restart,
         RemoveFile, RemoveFileFails, Removed, Tick, Boot
  <2>2. ASSUME phase = "space", "clash" \notin trouble'
        PROVE  (\A r \in listed : Size(FileOf(r)) <= sizes[r.id])'
    <3>1. "clash" \notin trouble /\ listed \subseteq table
      BY <2>1, <2>2 DEF PassKeepsSizes
    <3>2. \A r \in listed : Size(FileOf(r))' <= Size(FileOf(r)) /\ Size(FileOf(r))' \in Nat
      BY <2>2, <3>1, FilesDoNotGrow
    <3>3. \A r \in listed : Size(FileOf(r)) <= sizes[r.id] /\ sizes[r.id] \in Nat
      BY <2>2, <3>1 DEF PassKeepsSizes
    <3>4. \A r \in listed : Size(FileOf(r)) \in Nat
      BY <3>1, SizeIsNat, RowsAreFiled DEF TypeOK
    <3>5. \A r \in listed' : Size(FileOf(r))' <= sizes'[r.id]
      BY <2>1, <3>2, <3>3, <3>4
    <3> QED
      BY <3>5
  <2>3. Total(listed \ ToSet(victims), ById(sizes))' = Total(listed \ ToSet(victims), ById(sizes))
    BY <2>1 DEF ById, ToSet
  <2> QED
    BY <2>1, <2>2, <2>3 DEF PassKeepsSizes
<1>3. CASE \/ Begin \/ SelectOld \/ List \/ DeleteRows \/ Alert \/ DeleteFails \/ PassFails \/ Crash
  BY <1>3 DEF Begin, SelectOld, List, DeleteRows, Alert, DeleteFails, PassFails, Leaves, Crash,
       PassKeepsSizes
<1> QED
  BY <1>1, <1>2, <1>3 DEF Next, CleanupStep

\* A pass ends within the cap, and nothing takes the files it has spared over it.
LEMMA PassesEndUnderCap ==
    ASSUME TypeOK, TypeOK', JobsAreNew, CleanupKnowsRows, NamesApart, IdsAreNew, PassKeepsSizes,
           PassEndsUnderCap, Next
    PROVE  PassEndsUnderCap'
<1> USE DEF workerVars, cleanupVars
<1> SUFFICES ASSUME cleanup' \in {"wait", "alert"}, MaxSpace # 0, "clash" \notin trouble'
             PROVE  Total(table \cap listed, FileSizes)' <= MaxSpace
  BY DEF PassEndsUnderCap
<1>1. "clash" \notin trouble
  BY DEF Next, WorkerStep, Trigger, Open, Write, SaveFails, Add, AddFails, Restart, CleanupStep, Begin,
       SelectOld, List, Measure, RemoveFile, RemoveFileFails, Removed, DeleteRows, Alert, DeleteFails,
       PassFails, Leaves, Tick, Crash, Boot
<1>2. Total({}, FileSizes') = 0
  BY FS_EmptySet, TotalTakesFirst
<1>3. \A r \in table : FileSizes'[r] <= FileSizes[r] /\ FileSizes[r] \in Nat
  <2>1. \A r \in Rows : FileSizes'[r] = Size(FileOf(r))'
    BY DEF FileSizes
  <2> QED
    BY <2>1, FilesDoNotGrow, FileSizesAreNat, SMTT(30) DEF TypeOK
<1>4. ASSUME NEW rows \in SUBSET table, NEW weight, NEW few \in SUBSET rows,
             \A r \in rows : weight[r] \in Nat /\ FileSizes'[r] <= weight[r],
             Total(rows, weight) <= MaxSpace
      PROVE  Total(few, FileSizes') <= MaxSpace
  <2>1. rows \in SUBSET Rows /\ IsFiniteSet(rows)
    BY FS_Subset DEF TypeOK, CleanupKnowsRows
  <2>2. \A r \in rows : FileSizes'[r] \in Nat
    BY <2>1, FilesDoNotGrow DEF FileSizes
  <2>3. Total(few, FileSizes') <= Total(rows, weight)
    BY <1>4, <2>1, <2>2, TotalIsMonotonic
  <2>4. Total(few, FileSizes') \in Nat /\ Total(rows, weight) \in Nat
    BY <1>4, <2>1, <2>2, FS_Subset, TotalIsNat
  <2> QED
    BY <1>4, <2>3, <2>4, RetentionAssumption
<1>5. CASE listed' = {}
  <2>1. table' \cap listed' = {}
    BY <1>5
  <2>2. Total(table \cap listed, FileSizes)' = Total({}, FileSizes')
    BY <2>1
  <2> QED
    BY <1>2, <2>2, RetentionAssumption
<1>6. CASE cleanup \in {"wait", "alert"} /\ listed' = listed /\ table' \cap listed = table \cap listed
  <2>1. Total(table \cap listed, FileSizes) <= MaxSpace
    BY <1>1, <1>6 DEF PassEndsUnderCap
  <2>2. Total(table \cap listed, FileSizes') <= MaxSpace
    BY <1>3, <1>4, <2>1
  <2>3. table' \cap listed' = table \cap listed
    BY <1>6
  <2> QED
    BY <2>2, <2>3
<1>7. ASSUME NEW s \in Sources, WorkerStep(s)
      PROVE  cleanup \in {"wait", "alert"} /\ listed' = listed /\ table' \cap listed = table \cap listed
  <2>1. UNCHANGED <<cleanup, listed>>
    BY <1>7 DEF WorkerStep, Trigger, Open, Write, SaveFails, Add, AddFails, Restart
  <2>2. UNCHANGED table \/ (table' = table \cup {job[s]} /\ Busy(s))
    BY <1>7 DEF WorkerStep, Trigger, Open, Write, SaveFails, Add, AddFails, Restart, At, Busy
  <2>3. Busy(s) => job[s] \notin listed
    BY DEF IdsAreNew
  <2> QED
    BY <2>1, <2>2, <2>3
<1>8. CASE Measure
  <2>1. PICK order \in ByAge(listed) : victims' \in Evicted(order, Measured)
    BY <1>8 DEF Measure
  <2>2. /\ cleanup = "measure" /\ victims' = <<>> /\ UNCHANGED <<table, listed, disk>>
    BY <1>8 DEF Measure
  <2>3. listed \subseteq table /\ IsFiniteSet(listed) /\ \A r \in listed : r.stamp \in Int
    BY <2>2, RetentionAssumption DEF CleanupKnowsRows, TypeOK, Rows
  <2>4. Total(listed \ ToSet(<<>>), ById(Measured)) <= MaxSpace
    BY <2>1, <2>2, <2>3, EvictedIsLeast
  <2>5. Total(listed, ById(Measured)) <= MaxSpace
    <3>1. listed \ ToSet(<<>>) = listed
      BY DEF ToSet
    <3> QED
      BY <2>4, <3>1
  <2>6. \A r \in listed : ById(Measured)[r] \in Nat /\ FileSizes'[r] <= ById(Measured)[r]
    <3> SUFFICES ASSUME NEW r \in listed
                 PROVE  ById(Measured)[r] \in Nat /\ FileSizes'[r] <= ById(Measured)[r]
      OBVIOUS
    <3>1. r \in Rows /\ r \in table
      BY <2>3 DEF TypeOK
    <3>2. ById(Measured)[r] = Size(FileOf(r)) /\ ById(Measured)[r] \in Nat
      BY <2>2, <3>1, MeasuredIs DEF ById
    <3>3. FileSizes[r] = Size(FileOf(r)) /\ FileSizes'[r] <= FileSizes[r]
      BY <1>3, <3>1, FileSizesAreNat
    <3> QED
      BY <3>2, <3>3
  <2>7. table' \cap listed' \in SUBSET listed
    BY <2>2
  <2> QED
    BY <1>4, <2>3, <2>5, <2>6, <2>7
<1>9. CASE DeleteRows
  <2>1. /\ cleanup = "delete" /\ phase = "space" /\ listed' = listed /\ table' = table \ ToSet(victims)
    BY <1>9 DEF DeleteRows, Leaves, TypeOK
  <2> DEFINE spared == listed \ ToSet(victims)
  <2>2. spared \in SUBSET table /\ Total(spared, ById(sizes)) <= MaxSpace
    BY <2>1 DEF PassKeepsSizes
  <2>3. \A r \in spared : ById(sizes)[r] \in Nat /\ FileSizes'[r] <= ById(sizes)[r]
    <3> SUFFICES ASSUME NEW r \in spared
                 PROVE  ById(sizes)[r] \in Nat /\ FileSizes'[r] <= ById(sizes)[r]
      OBVIOUS
    <3>1. r \in Rows /\ r \in table
      BY <2>2 DEF TypeOK
    <3>2. ById(sizes)[r] \in Nat /\ Size(FileOf(r)) <= ById(sizes)[r]
      BY <1>1, <2>1, <3>1 DEF PassKeepsSizes, ById
    <3>3. FileSizes[r] = Size(FileOf(r)) /\ FileSizes'[r] <= FileSizes[r] /\ FileSizes[r] \in Nat
      BY <1>3, <3>1, FileSizesAreNat
    <3>4. FileSizes'[r] \in Nat
      BY <3>1, FilesDoNotGrow DEF FileSizes
    <3> QED
      BY <3>2, <3>3, <3>4
  <2>4. table' \cap listed' \in SUBSET spared
    BY <2>1
  <2> HIDE DEF spared
  <2> QED
    BY <1>4, <2>2, <2>3, <2>4
<1>10. CASE Alert \/ Tick \/ Boot
  BY <1>6, <1>10 DEF Alert, Leaves, Tick, Boot
<1>11. CASE Begin \/ SelectOld \/ List \/ RemoveFile \/ RemoveFileFails \/ DeleteFails \/ PassFails \/ Crash
  BY <1>5, <1>11 DEF Begin, SelectOld, List, RemoveFile, RemoveFileFails, Removed, DeleteFails, PassFails,
       Crash, TypeOK
<1> QED
  BY <1>6, <1>7, <1>8, <1>9, <1>10, <1>11 DEF Next, CleanupStep

\* What has expired stays so, and what the loop has chosen stays the oldest.
LEMMA NewAreSpared ==
    ASSUME TypeOK, TypeOK', CleanupKnowsRows, IdsAreNew, PassKeepsSizes, SparesTheNew, Next
    PROVE  SparesTheNew'
<1> USE DEF workerVars, cleanupVars
<1>1. CASE SelectOld
  <2>1. phase' = "age" /\ UNCHANGED now
    BY <1>1 DEF SelectOld, PassKeepsSizes
  <2>2. CASE victims' = <<>>
    BY <2>2 DEF SparesTheNew
  <2>3. CASE victims' \in ByAge(Expired(table))
    <3>1. IsFiniteSet(Expired(table))
      BY FS_Subset DEF Expired, CleanupKnowsRows
    <3>2. ToSet(victims') \subseteq Expired(table)
      BY <2>3, <3>1, OrdersAreLists, ListHoldsRows
    <3> QED
      BY <2>1, <3>2 DEF SparesTheNew, Expired
  <2> QED
    BY <1>1, <2>2, <2>3 DEF SelectOld, TypeOK
<1>2. CASE Measure
  <2>1. PICK order \in ByAge(listed) : victims' \in Evicted(order, Measured)
    BY <1>2 DEF Measure
  <2>2. IsFiniteSet(listed) /\ \A r \in listed : r.stamp \in Int
    BY RetentionAssumption DEF CleanupKnowsRows, TypeOK, Rows
  <2>3. victims' # <<>> => phase' = "space" /\ sizes' = Measured /\ listed' = listed
    BY <1>2 DEF Measure
  <2>4. victims' # <<>> =>
          /\ \A r \in ToSet(victims'), q \in listed \ ToSet(victims') : r.stamp <= q.stamp
          /\ Total((listed \ ToSet(victims')) \cup {victims'[Len(victims')]}, ById(Measured)) > MaxSpace
    BY <2>1, <2>2, EvictedIsLeast
  <2> QED
    BY <2>3, <2>4 DEF SparesTheNew, ById
<1>3. CASE \/ \E s \in Sources : WorkerStep(s)
           \/ RemoveFile \/ RemoveFileFails \/ Tick \/ Boot \/ Begin \/ List
  <2>1. UNCHANGED <<phase, sizes, victims>> /\ (UNCHANGED listed \/ (cleanup \in {"wait", "space"}))
    BY <1>3 DEF WorkerStep, Trigger, Open, Write, SaveFails, Add, AddFails, Restart,
         RemoveFile, RemoveFileFails, Removed, Tick, Boot, Begin, List
  <2>2. now' \in Int /\ now \in Int /\ now' >= now /\ \A r \in Rows : r.stamp \in Int
    BY <1>3, RetentionAssumption DEF WorkerStep, Trigger, Open, Write, SaveFails, Add, AddFails, Restart,
         RemoveFile, RemoveFileFails, Removed, Tick, Boot, Begin, List, TypeOK, Rows
  <2>3. CASE UNCHANGED listed
    <3>1. ASSUME phase = "age", NEW r \in ToSet(victims), r.stamp < now - MaxAge
          PROVE  r.stamp < now' - MaxAge
      <4>1. r \in Rows
        BY DEF TypeOK, ToSet
      <4> QED
        BY <2>2, <3>1, <4>1, RetentionAssumption
    <3> QED
      BY <2>1, <2>3, <3>1 DEF SparesTheNew, ById, ToSet
  <2>4. CASE cleanup \in {"wait", "space"}
    BY <2>1, <2>4 DEF TypeOK, SparesTheNew
  <2> QED
    BY <2>1, <2>3, <2>4
<1>4. CASE DeleteRows \/ Alert \/ DeleteFails \/ PassFails \/ Crash
  BY <1>4 DEF DeleteRows, Alert, DeleteFails, PassFails, Leaves, Crash, SparesTheNew
<1> QED
  BY <1>1, <1>2, <1>3, <1>4 DEF Next, CleanupStep

-----------------------------------------------------------------------------
\* Initially nothing is listed.
LEMMA InitPInv == Init => PInv
<1> SUFFICES ASSUME Init PROVE PInv
  OBVIOUS
<1>1. Total(table \cap listed, FileSizes) = 0
  <2>1. table \cap listed = {}
    BY DEF Init
  <2> QED
    BY <2>1, FS_EmptySet, TotalTakesFirst
<1> QED
  BY <1>1, InitIInv, RetentionAssumption
     DEF Init, PInv, IdsAreNew, Busy, PassKeepsSizes, PassEndsUnderCap, SparesTheNew

\* Every step keeps what a pass is to leave.
LEMMA StepPInv == PInv /\ [Next]_vars => PInv'
<1> SUFFICES ASSUME PInv, [Next]_vars PROVE PInv'
  OBVIOUS
<1>1. IInv /\ IInv'
  BY StepIInv DEF PInv
<1>2. CASE Next
  BY <1>1, <1>2, IdsStayNew, SizesAreKept, PassesEndUnderCap, NewAreSpared DEF PInv, IInv
<1>3. CASE UNCHANGED vars
  <2>1. /\ UNCHANGED <<now, disk, table, captures, place, job, cleanup, phase, listed, sizes, victims, trouble>>
    BY <1>3 DEF vars, workerVars, cleanupVars
  <2>2. UNCHANGED <<Total(table \cap listed, FileSizes), Total(listed \ ToSet(victims), ById(sizes))>>
    BY <2>1 DEF FileSizes, ById, Size, ToSet
  <2>3. IdsAreNew' /\ PassKeepsSizes' /\ PassEndsUnderCap'
    BY <2>1, <2>2 DEF PInv, IdsAreNew, Busy, PassKeepsSizes, PassEndsUnderCap, Size
  <2>4. SparesTheNew'
    BY <2>1 DEF PInv, SparesTheNew, ById, ToSet
  <2> QED
    BY <1>1, <2>3, <2>4 DEF PInv
<1> QED
  BY <1>2, <1>3

\* After a pass the rows it looked at are within the cap, whatever files it could not
\* remove and whatever came meanwhile, but for clashing names (_cleanup_by_space).
THEOREM PassesFit == Spec => []TableUnderCap
<1>1. PInv => TableUnderCap
  BY DEF PInv, PassEndsUnderCap, TableUnderCap
<1> QED
  BY InitPInv, StepPInv, <1>1, PTL DEF Spec

\* Both passes take the oldest, what has expired and no more than the cap asks for
\* (_cleanup_by_age, _cleanup_by_space).
THEOREM OnlyTheOldestGo == Spec => []SparesTheNew
<1>1. PInv => SparesTheNew
  BY DEF PInv
<1> QED
  BY InitPInv, StepPInv, <1>1, PTL DEF Spec

-----------------------------------------------------------------------------
(* The cleanup thread always has a next step                                *)

\* what each of its steps asks for, beside being the next one
CleanupHasNext ==
    /\ cleanup = "age" => ByAge(Expired(table)) # {}
    /\ cleanup = "measure" => \E order \in ByAge(listed) : Evicted(order, Measured) # {}
    /\ cleanup = "remove" => gone < Len(victims)

\* Of some natural numbers one is the least.
LEMMA LeastNat ==
    ASSUME NEW T, T \subseteq Nat, T # {}
    PROVE  \E x \in T : \A y \in T : x <= y
<1>1. PICK x \in T : \A y \in T : ~(<<y, x>> \in OpToRel(<, Nat))
  BY NatLessThanWellFounded, WFMin
<1>2. ASSUME NEW y \in T PROVE x <= y
  <2>1. ~(<<y, x>> \in OpToRel(<, Nat)) /\ x \in Nat /\ y \in Nat
    BY <1>1
  <2>2. ~(y < x)
    BY <2>1 DEF OpToRel
  <2>3. x \in Nat /\ y \in Nat
    BY <1>1
  <2> QED
    BY <2>2, <2>3
<1> QED
  BY <1>2

\* Rows can be listed by age: the youngest goes behind a list of the others.
LEMMA ListsByAgeExist ==
    ASSUME NEW rows, IsFiniteSet(rows), rows \subseteq Rows
    PROVE  ByAge(rows) # {}
<1> DEFINE Bad == {s \in SUBSET rows : ByAge(s) = {}}
<1> SUFFICES ASSUME Bad # {} PROVE FALSE
  OBVIOUS
<1>1. PICK s \in Bad : \A y \in SUBSET s : y # s => y \notin Bad
  <2> HIDE DEF Bad
  <2>1. Bad \subseteq SUBSET rows
    BY DEF Bad
  <2> QED
    BY <2>1, SmallestSet
<1>2. IsFiniteSet(s) /\ s \subseteq Rows /\ ByAge(s) = {}
  BY FS_Subset
<1>3. CASE s = {}
  <2>1. <<>> \in SetToSeqs(s)
    BY <1>3, FS_EmptySet DEF SetToSeqs
  <2>2. <<>> \in ByAge(s)
    BY <2>1 DEF ByAge
  <2> QED
    BY <1>2, <2>2
<1>4. CASE s # {}
  <2> DEFINE Youth(r) == MaxTime - r.stamp
  <2>1. \A r \in s : r.stamp \in 0..MaxTime /\ Youth(r) \in Nat
    BY <1>2, RetentionAssumption DEF Rows
  <2>2. PICK least \in {Youth(r) : r \in s} : \A y \in {Youth(r) : r \in s} : least <= y
    <3> DEFINE T == {Youth(r) : r \in s}
    <3>1. T \subseteq Nat /\ T # {}
      BY <1>4, <2>1
    <3> HIDE DEF T
    <3>2. \E x \in T : \A y \in T : x <= y
      BY <3>1, LeastNat
    <3> QED
      BY <3>2 DEF T
  <2>3. PICK last \in s : \A r \in s : Youth(last) <= Youth(r)
    BY <2>2
  <2>4. \A r \in s : r.stamp <= last.stamp
    BY <2>1, <2>3, RetentionAssumption
  <2> DEFINE rest == s \ {last}
             n == Cardinality(rest)
  <2>5. n \in Nat /\ Cardinality(s) = n + 1
    <3>1. IsFiniteSet(s) /\ Cardinality(rest) = Cardinality(s) - 1
      BY <1>2, FS_RemoveElement
    <3>2. IsFiniteSet(rest)
      BY <1>2, FS_RemoveElement
    <3>3. n \in Nat /\ Cardinality(s) \in Nat
      BY <1>2, <3>2, FS_CardinalityType
    <3> QED
      BY <3>1, <3>3
  <2>6. PICK order \in ByAge(rest) : TRUE
    BY <1>1
  <2>7. /\ order \in [1..n -> rest]
        /\ \A i, j \in 1..n : i # j => order[i] # order[j]
        /\ Len(order) = n
        /\ \A i, j \in 1..n : i < j => order[i].stamp <= order[j].stamp
    <3>1. IsFiniteSet(rest)
      BY <1>2, FS_RemoveElement
    <3>2. Len(order) = n
      BY <3>1, ListsHaveAll
    <3>3. order \in [1..n -> rest]
      BY DEF ByAge, SetToSeqs
    <3> HIDE DEF n, rest
    <3> QED
      BY <3>1, <3>2, <3>3, ListsAreComplete
  <2> DEFINE list == [i \in 1..(n + 1) |-> IF i = n + 1 THEN last ELSE order[i]]
  <2> HIDE DEF n
  <2>8. /\ list[n + 1] = last
        /\ \A i \in 1..n : list[i] = order[i] /\ order[i] \in s /\ order[i] # last
        /\ \A i \in 1..(n + 1) : i = n + 1 \/ i \in 1..n
    BY <2>5, <2>7
  <2>9. list \in [1..(n + 1) -> s] /\ Len(list) = n + 1
    BY <2>5, <2>8, SMTT(30)
  <2> HIDE DEF list
  <2>10. \A i, j \in 1..(n + 1) : i # j => list[i] # list[j]
    BY <2>7, <2>8
  <2>11. \A i, j \in 1..(n + 1) : i < j => list[i].stamp <= list[j].stamp
    <3> SUFFICES ASSUME NEW i \in 1..(n + 1), NEW j \in 1..(n + 1), i < j
                 PROVE  list[i].stamp <= list[j].stamp
      OBVIOUS
    <3>1. i \in 1..n
      BY <2>5
    <3>2. CASE j = n + 1
      BY <2>4, <2>8, <3>1, <3>2
    <3>3. CASE j # n + 1
      <4>1. j \in 1..n
        BY <2>8, <3>3
      <4> QED
        BY <2>7, <2>8, <3>1, <4>1
    <3> QED
      BY <3>2, <3>3
  <2>12. list \in ByAge(s)
    BY <2>5, <2>9, <2>10, <2>11 DEF ByAge, SetToSeqs
  <2> QED
    BY <1>2, <2>12
<1> QED
  BY <1>3, <1>4

\* The loop of _cleanup_by_space stops at the latest when it has taken every row.
LEMMA LoopEnds ==
    ASSUME NEW rows, IsFiniteSet(rows), NEW order \in ByAge(rows), \A r \in rows : r.stamp \in Int,
           NEW size, \A r \in rows : r \in Rows /\ size[r.id] \in Nat
    PROVE  Evicted(order, size) # {}
<1> DEFINE n == Len(order)
           Rest(k) == Total(ToSet(SubSeq(order, k + 1, n)), ById(size))
<1>1. order \in Seq(rows) /\ n \in Nat
  BY ListsAreComplete
<1>2. ASSUME NEW k \in 0..n PROVE Rest(k) \in Nat
  <2>1. SubSeq(order, k + 1, n) \in Seq(rows)
    BY <1>1, <1>2
  <2>2. ToSet(SubSeq(order, k + 1, n)) \subseteq rows
    BY <2>1, ListHoldsRows
  <2>3. IsFiniteSet(ToSet(SubSeq(order, k + 1, n)))
    BY <2>2, FS_Subset
  <2>4. \A r \in ToSet(SubSeq(order, k + 1, n)) : ById(size)[r] \in Nat
    BY <2>2 DEF ById
  <2> QED
    BY <2>3, <2>4, TotalIsNat
<1>3. Rest(n) = 0
  <2>1. SubSeq(order, n + 1, n) = <<>>
    BY <1>1
  <2>2. ToSet(<<>>) = {}
    BY DEF ToSet
  <2> QED
    BY <2>1, <2>2, FS_EmptySet, TotalTakesFirst
<1> HIDE DEF n, Rest
<1> DEFINE Fit == {k \in 0..n : Rest(k) <= MaxSpace}
<1>4. Fit \subseteq Nat /\ n \in Fit
  BY <1>1, <1>3, RetentionAssumption
<1>5. PICK k \in Fit : \A m \in Fit : k <= m
  <2> HIDE DEF Fit
  <2> QED
    BY <1>4, LeastNat
<1>6. \A m \in 0..(k - 1) : Rest(m) > MaxSpace
  <2> SUFFICES ASSUME NEW m \in 0..(k - 1) PROVE Rest(m) > MaxSpace
    OBVIOUS
  <2>1. m \in 0..n /\ m \notin Fit
    BY <1>1, <1>5
  <2> QED
    BY <1>2, <2>1, RetentionAssumption
<1>7. SubSeq(order, 1, k) \in Evicted(order, size)
  BY <1>5, <1>6 DEF Evicted, Rest, n
<1> QED
  BY <1>7

\* The cleanup thread is never without a next step, whatever the rows and their sizes:
\* both passes find their victims, and _delete_rows is called for some (run_cleanup).
THEOREM CleanupGoesOn == Spec => []CleanupHasNext
<1>1. PInv => CleanupHasNext
  <2> SUFFICES ASSUME PInv PROVE CleanupHasNext
    OBVIOUS
  <2>1. TypeOK /\ CleanupKnowsRows /\ IdsAreNew
    BY DEF PInv, IInv
  <2>2. /\ IsFiniteSet(table) /\ table \subseteq Rows
        /\ IsFiniteSet(listed) /\ listed \subseteq Rows
    BY <2>1 DEF CleanupKnowsRows, TypeOK
  <2>3. ByAge(Expired(table)) # {}
    <3>1. Expired(table) \subseteq table
      BY DEF Expired
    <3> QED
      BY <2>2, <3>1, FS_Subset, ListsByAgeExist
  <2>4. ASSUME cleanup = "measure"
        PROVE  \E order \in ByAge(listed) : Evicted(order, Measured) # {}
    <3>1. PICK order \in ByAge(listed) : TRUE
      BY <2>2, ListsByAgeExist
    <3>2. \A r \in listed : r \in Rows /\ r.stamp \in Int /\ Measured[r.id] \in Nat
      BY <2>1, <2>2, <2>4, MeasuredIs, RetentionAssumption DEF Rows
    <3>3. Evicted(order, Measured) # {}
      <4> DEFINE size == Measured
      <4>1. \A r \in listed : r \in Rows /\ size[r.id] \in Nat
        BY <3>2
      <4> HIDE DEF size
      <4>2. Evicted(order, size) # {}
        BY <2>2, <3>2, <4>1, LoopEnds
      <4> QED
        BY <4>2 DEF size
    <3> QED
      BY <3>3
  <2>5. cleanup = "remove" => gone < Len(victims)
    BY <2>1 DEF TypeOK
  <2> QED
    BY <2>3, <2>4, <2>5 DEF CleanupHasNext
<1> QED
  BY InitPInv, StepPInv, <1>1, PTL DEF Spec

=============================================================================
