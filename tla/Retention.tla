------------------------------ MODULE Retention ------------------------------
(***************************************************************************)
(* Snippet files and the rows of the event log: workers that write a file  *)
(* and then insert its row (snippet.py, worker.py, event_store.py), and    *)
(* the cleanup thread that evicts both by age and by space (cleanup.py,    *)
(* AppController._cleanup_loop in controller.py).                          *)
(*                                                                         *)
(* A time stamp is a whole second.  A file is named by its source and the  *)
(* second its capture began; captures of other labels have other names, so *)
(* a source here captures one label.  EventStore's lock makes each of its  *)
(* calls one step.                                                         *)
(***************************************************************************)
EXTENDS Integers, Sequences, FiniteSets, SequencesExt

CONSTANTS
    Sources,      \* the sources, each with a worker thread
    Sizes,        \* how large a finished snippet can be
    MaxAge,       \* CleanupConfig.max_age_days, 0 for none
    MaxSpace,     \* CleanupConfig.max_space_mb, 0 for none
    MaxTime,      \* bound: the last second
    MaxCaptures,  \* bound: captures in a behaviour
    None          \* no file

ASSUME RetentionAssumption ==
    /\ Sizes \subseteq Nat \ {0}
    /\ MaxAge \in Nat /\ MaxSpace \in Nat
    /\ MaxTime \in Nat /\ MaxCaptures \in Nat
    /\ None \notin Nat

VARIABLES
    up,        \* whether the process runs
    now,       \* time.time(), in seconds
    disk,      \* the size of each file, None where there is none
    table,     \* the rows of EventStore
    captures,  \* how many captures have begun
    place,     \* where each worker is
    job,       \* the row each worker's capture will become
    cleanup,   \* where the cleanup thread is
    phase,     \* which of the two passes it is in
    listed,    \* _cleanup_by_space's `rows`
    sizes,     \* its `sizes`, by row id
    victims,   \* the rows _delete_rows was given, in order
    gone,      \* how many of their files it has tried to remove
    trouble    \* which kinds of damage have been done

workerVars == <<captures, place, job>>
cleanupVars == <<cleanup, phase, listed, sizes, victims, gone>>
vars == <<up, now, disk, table, workerVars, cleanupVars, trouble>>

Rows == [id : 1..MaxCaptures, source : Sources, stamp : 0..MaxTime]
Files == Sources \X (0..MaxTime)

\* the name _finalize gives a snippet
FileOf(row) == <<row.source, row.stamp>>

NoSizes == [i \in 1..MaxCaptures |-> 0]
NoJob(s) == [id |-> 0, source |-> s, stamp |-> 0]

Init ==
    /\ up = TRUE
    /\ now = 0
    /\ disk = [f \in Files |-> None]
    /\ table = {}
    /\ captures = 0
    /\ place = [s \in Sources |-> "listening"]
    /\ job = [s \in Sources |-> NoJob(s)]
    /\ cleanup = "wait"
    /\ phase = "age"
    /\ listed = {}
    /\ sizes = NoSizes
    /\ victims = <<>>
    /\ gone = 0
    /\ trouble = {}

-----------------------------------------------------------------------------
(* Workers                                                                  *)

At(s, here, there) == place[s] = here /\ place' = [place EXCEPT ![s] = there]

\* trigger: a capture begins
Trigger(s) ==
    /\ up
    /\ captures < MaxCaptures
    /\ At(s, "listening", "capturing")
    /\ captures' = captures + 1
    /\ job' = [job EXCEPT ![s] = [id |-> captures + 1, source |-> s, stamp |-> now]]
    /\ UNCHANGED <<up, now, disk, table, cleanupVars, trouble>>

\* a name that a file or a row already has
Clash(f) == IF disk[f] # None \/ \E r \in table : FileOf(r) = f THEN {"clash"} ELSE {}

\* _finalize: wave.open(filepath, "wb") makes the file or empties it
Open(s) ==
    /\ At(s, "capturing", "writing")
    /\ disk' = [disk EXCEPT ![FileOf(job[s])] = 0]
    /\ trouble' = trouble \cup Clash(FileOf(job[s]))
    /\ UNCHANGED <<up, now, table, captures, job, cleanupVars>>

\* what is written to a file that was removed meanwhile goes nowhere
WrittenTo(f, size) == [disk EXCEPT ![f] = IF disk[f] = None THEN None ELSE size]

\* mutant: the row comes before the file
AddsFirst(s) ==
    /\ At(s, "writing", "store")
    /\ table' = table \cup {job[s]}
    /\ UNCHANGED <<up, now, disk, captures, job, cleanupVars, trouble>>

\* writeframes and close
Write(s) ==
    /\ At(s, "writing", "store")
    /\ \E size \in Sizes : disk' = WrittenTo(FileOf(job[s]), size)
    /\ UNCHANGED <<up, now, table, captures, job, cleanupVars, trouble>>

\* the recorder has no capture any more
Drops(s) == job' = [job EXCEPT ![s] = NoJob(s)]

\* makedirs or open raises, before there is a file, or a write does: the worker
\* thread dies
SaveFails(s) ==
    /\ \/ /\ At(s, "capturing", "dead")
          /\ UNCHANGED <<disk, trouble>>
       \/ /\ At(s, "writing", "dead")
          /\ \E size \in Sizes \cup {0} : disk' = WrittenTo(FileOf(job[s]), size)
          /\ trouble' = trouble \cup {"orphan"}
    /\ Drops(s)
    /\ UNCHANGED <<up, now, table, captures, cleanupVars>>

\* EventStore.add
Add(s) ==
    /\ At(s, "store", "listening")
    /\ table' = table \cup {job[s]}
    /\ Drops(s)
    /\ UNCHANGED <<up, now, disk, captures, cleanupVars, trouble>>

\* it raises, which _process_chunk logs
AddFails(s) ==
    /\ At(s, "store", "listening")
    /\ trouble' = trouble \cup {"orphan"}
    /\ Drops(s)
    /\ UNCHANGED <<up, now, disk, table, captures, cleanupVars>>

\* the worker is stopped between two chunks, or was dead, and is started again
Restart(s) ==
    /\ At(s, "capturing", "listening") \/ (up /\ At(s, "dead", "listening"))
    /\ Drops(s)
    /\ UNCHANGED <<up, now, disk, table, captures, cleanupVars, trouble>>

-----------------------------------------------------------------------------
(* The cleanup thread                                                       *)

\* _safe_size
Size(f) == IF disk[f] = None THEN 0 ELSE disk[f]

FileSizes == [r \in Rows |-> Size(FileOf(r))]

\* sizes[row.id]
ById(size) == [r \in Rows |-> size[r.id]]

Total(rows, weight) == SumFunctionOnSet(weight, rows)

\* mutant: the newest come first
ByAgeDescending(rows) ==
    {order \in SetToSeqs(rows) :
        \A i, j \in 1..Len(order) : i < j => order[i].stamp >= order[j].stamp}

\* list_all_ordered_by_age_asc: rows with one time stamp come in any order
ByAge(rows) ==
    {order \in SetToSeqs(rows) :
        \A i, j \in 1..Len(order) : i < j => order[i].stamp <= order[j].stamp}

\* timestamp < cutoff
Expired(rows) == {r \in rows : r.stamp < now - MaxAge}

Begin ==
    /\ up
    /\ cleanup = "wait"
    /\ cleanup' = "age"
    /\ listed' = {}
    /\ UNCHANGED <<up, now, disk, table, workerVars, phase, sizes, victims, gone, trouble>>

\* _cleanup_by_age up to its call of _delete_rows
SelectOld ==
    /\ cleanup = "age"
    /\ IF MaxAge = 0 \/ Expired(table) = {}
       THEN cleanup' = "space" /\ UNCHANGED victims
       ELSE cleanup' = "remove" /\ victims' \in ByAge(Expired(table))
    /\ UNCHANGED <<up, now, disk, table, workerVars, phase, listed, sizes, gone, trouble>>

\* _cleanup_by_space: rows = ...
List ==
    /\ cleanup = "space"
    /\ IF MaxSpace = 0
       THEN cleanup' = "wait" /\ UNCHANGED listed
       ELSE cleanup' = "measure" /\ listed' = table
    /\ UNCHANGED <<up, now, disk, table, workerVars, phase, sizes, victims, gone, trouble>>

\* mutant: the total is compared with the next row already taken off it
EvictedTooFew(order, size) ==
    LET Rest(k) == Total(ToSet(SubSeq(order, k + 2, Len(order))), ById(size))
    IN  {SubSeq(order, 1, k) : k \in {n \in 0..Len(order) :
            Rest(n) <= MaxSpace /\ \A m \in 0..(n - 1) : Rest(m) > MaxSpace}}

\* the loop of _cleanup_by_space takes rows until the rest is within the cap
Evicted(order, size) ==
    LET Rest(k) == Total(ToSet(SubSeq(order, k + 1, Len(order))), ById(size))
    IN  {SubSeq(order, 1, k) : k \in {n \in 0..Len(order) :
            Rest(n) <= MaxSpace /\ \A m \in 0..(n - 1) : Rest(m) > MaxSpace}}

Measured == [i \in 1..MaxCaptures |->
                Total({r \in listed : r.id = i}, FileSizes)]

\* _cleanup_by_space from `sizes` to its call of _delete_rows
Measure ==
    /\ cleanup = "measure"
    /\ \E order \in ByAge(listed) : victims' \in Evicted(order, Measured)
    /\ IF victims' = <<>>
       THEN cleanup' = "wait" /\ UNCHANGED <<phase, sizes>>
       ELSE cleanup' = "remove" /\ phase' = "space" /\ sizes' = Measured
    /\ UNCHANGED <<up, now, disk, table, workerVars, listed, gone, trouble>>

\* what follows a call of _delete_rows for its next victim
Removed ==
    /\ cleanup = "remove"
    /\ gone' = gone + 1
    /\ cleanup' = IF gone + 1 = Len(victims) THEN "delete" ELSE "remove"
    /\ UNCHANGED <<up, now, table, workerVars, phase, listed, sizes, victims>>

\* os.remove; of a file that is not there, which it logs
RemoveFile ==
    /\ Removed
    /\ disk' = [disk EXCEPT ![FileOf(victims[gone + 1])] = None]
    /\ UNCHANGED trouble

\* os.remove raises and leaves the file, which it logs too
RemoveFileFails ==
    /\ Removed
    /\ trouble' = trouble \cup {"orphan"}
    /\ UNCHANGED disk

\* the pass is over, or has raised
Leaves(there) ==
    /\ cleanup' = there
    /\ victims' = <<>>
    /\ gone' = 0
    /\ phase' = "age"
    /\ sizes' = NoSizes
    /\ UNCHANGED <<up, now, disk, workerVars>>

\* mutants: the list of victims is shared by the two passes, as a mutable default
\* argument is; what has expired by now is deleted too
DeletesKeepingVictims ==
    /\ cleanup = "delete"
    /\ table' = table \ ToSet(victims)
    /\ cleanup' = IF phase = "age" THEN "space" ELSE "alert"
    /\ UNCHANGED <<up, now, disk, workerVars, phase, listed, sizes, victims, gone, trouble>>
DeletesExpired ==
    /\ cleanup = "delete"
    /\ table' = table \ (ToSet(victims) \cup Expired(table))
    /\ Leaves(IF phase = "age" THEN "space" ELSE "alert")
    /\ UNCHANGED <<listed, trouble>>

\* delete_ids of all victims at once
DeleteRows ==
    /\ cleanup = "delete"
    /\ table' = table \ ToSet(victims)
    /\ Leaves(IF phase = "age" THEN "space" ELSE "alert")
    /\ UNCHANGED <<listed, trouble>>

\* it raises, out of run_cleanup and into _cleanup_loop: no alert
DeleteFails ==
    /\ cleanup = "delete"
    /\ Leaves("wait")
    /\ listed' = {}
    /\ trouble' = trouble \cup {"ghost"}
    /\ UNCHANGED table

\* mutant: no `except` in _cleanup_loop
PassFailsForGood ==
    /\ cleanup \in {"age", "space"}
    /\ Leaves("ended")
    /\ listed' = {}
    /\ UNCHANGED <<table, trouble>>

\* list_all_ordered_by_age_asc raises
PassFails ==
    /\ cleanup \in {"age", "space"}
    /\ Leaves("wait")
    /\ listed' = {}
    /\ UNCHANGED <<table, trouble>>

\* publish_space_alert, which may fail without any other effect
Alert ==
    /\ cleanup = "alert"
    /\ Leaves("wait")
    /\ UNCHANGED <<table, listed, trouble>>

-----------------------------------------------------------------------------
(* Time and the process                                                     *)

Tick ==
    /\ now < MaxTime
    /\ now' = now + 1
    /\ UNCHANGED <<up, disk, table, workerVars, cleanupVars, trouble>>

\* files that no row will name, and rows whose files are gone
LeftBehind ==
    (IF \E s \in Sources : place[s] \in {"writing", "store"} THEN {"orphan"} ELSE {})
        \cup (IF gone > 0 THEN {"ghost"} ELSE {})

\* the process is killed, or ends: AppController.stop() waits for two seconds
\* for the cleanup thread and ten for a worker, and closes the store
Crash ==
    /\ up
    /\ up' = FALSE
    /\ place' = [s \in Sources |-> "listening"]
    /\ job' = [s \in Sources |-> NoJob(s)]
    /\ cleanup' = "wait"
    /\ phase' = "age"
    /\ sizes' = NoSizes
    /\ listed' = {}
    /\ victims' = <<>>
    /\ gone' = 0
    /\ trouble' = trouble \cup LeftBehind
    /\ UNCHANGED <<now, disk, table, captures>>

Boot ==
    /\ ~up
    /\ up' = TRUE
    /\ UNCHANGED <<now, disk, table, workerVars, cleanupVars, trouble>>

-----------------------------------------------------------------------------
WorkerStep(s) ==
    \/ Trigger(s) \/ Open(s) \/ Write(s) \/ SaveFails(s) \/ Add(s) \/ AddFails(s)
    \/ Restart(s)

CleanupStep == \/ Begin \/ SelectOld \/ List \/ Measure \/ RemoveFile \/ RemoveFileFails
               \/ DeleteRows \/ Alert

Next ==
    \/ \E s \in Sources : WorkerStep(s)
    \/ CleanupStep
    \/ DeleteFails
    \/ PassFails
    \/ Tick
    \/ Crash
    \/ Boot

Spec == Init /\ [][Next]_vars

\* The cleanup thread keeps running, and the database does not fail each time it
\* is asked; a file that cannot be removed may stay so for ever.
FairSpec == /\ Spec
            /\ WF_vars(CleanupStep) /\ SF_vars(SelectOld) /\ SF_vars(DeleteRows)

-----------------------------------------------------------------------------
\* Every variable has its type; a pass never counts past its victims and has none
\* while it waits (cleanup.py, _delete_rows).
TypeOK ==
    /\ up \in BOOLEAN
    /\ now \in 0..MaxTime
    /\ disk \in [Files -> Sizes \cup {0, None}]
    /\ table \subseteq Rows
    /\ captures \in 0..MaxCaptures
    /\ place \in [Sources -> {"listening", "capturing", "writing", "store", "dead"}]
    /\ job \in [Sources -> [id : 0..MaxCaptures, source : Sources, stamp : 0..MaxTime]]
    /\ \A s \in Sources : place[s] \in {"capturing", "writing", "store"} => job[s] \in Rows
    /\ cleanup \in {"wait", "age", "space", "measure", "remove", "delete", "alert"}
    /\ phase \in {"age", "space"}
    /\ listed \subseteq Rows
    /\ DOMAIN sizes = 1..MaxCaptures
    /\ victims \in Seq(Rows)
    /\ gone \in 0..Len(victims)
    /\ trouble \subseteq {"clash", "orphan", "ghost"}
    /\ cleanup = "remove" => gone < Len(victims)
    /\ cleanup = "delete" => gone = Len(victims)
    /\ cleanup \notin {"remove", "delete"} => victims = <<>>

\* the victims whose files are gone
Gone == {victims[i] : i \in 1..gone}

\* The event log never shows a snippet that cannot be played: each row has its
\* finished file, but for the rows about to go, whatever the cleanup and the
\* workers do at the same time.  What breaks it is a delete_ids that fails, a
\* death between files and rows, or two captures of one name within a second.
RowsHaveFiles ==
    trouble \cap {"ghost", "clash"} = {} =>
        \A r \in table \ Gone : disk[FileOf(r)] \in Sizes

\* No file is beyond the reach of the cleanup, which only knows rows: each has a
\* row that is there to stay or is about to get one.  What breaks it is a write,
\* an insertion or a removal that fails, or a death between file and row; two
\* captures of one name do not.
FilesHaveRows ==
    "orphan" \notin trouble =>
        \A f \in Files :
            disk[f] # None =>
                \/ \E r \in table \ Gone : FileOf(r) = f
                \/ \E s \in Sources : place[s] \in {"writing", "store"} /\ FileOf(job[s]) = f

\* After a pass the files of the rows it has looked at are within the cap,
\* whatever could not be removed or was added meanwhile, but for clashing names.
TableUnderCap ==
    (cleanup = "wait" /\ MaxSpace # 0 /\ "clash" \notin trouble) =>
        Total(table \cap listed, FileSizes) <= MaxSpace

\* A pass takes the oldest and no more than it must: by age what has expired, by
\* space nothing newer than a row that it spares, and without its newest victim
\* the rest would be over the cap (README, "Automatic retention").
SparesTheNew ==
    victims # <<>> =>
        IF phase = "age"
        THEN \A r \in ToSet(victims) : r.stamp < now - MaxAge
        ELSE LET spared == listed \ ToSet(victims)
                 newest == victims[Len(victims)]
             IN  /\ \A r \in ToSet(victims), q \in spared : r.stamp <= q.stamp
                 /\ Total(spared \cup {newest}, ById(sizes)) > MaxSpace

\* Whatever outlives max_age_days is deleted in the end, through failing passes
\* and files that cannot be removed, unless the process ends.
ExpiredGo == (Expired(table) # {}) ~> (Expired(table) = {} \/ ~up)

=============================================================================
