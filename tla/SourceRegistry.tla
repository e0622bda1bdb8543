--------------------------- MODULE SourceRegistry ---------------------------
(***************************************************************************)
(* The sources of AppController (controller.py): the list in memory, one   *)
(* file per source (config.py), the dict of managed workers and the worker *)
(* threads, changed by the threads that serve websocket clients (web.py).  *)
(*                                                                         *)
(* add_source holds the controller's lock throughout; update_source and    *)
(* delete_source let go of it before they stop and start workers.  A step  *)
(* of a handler is what it does without another thread being able to see   *)
(* the middle, or the process to die in it.                                *)
(***************************************************************************)
EXTENDS Naturals, FiniteSets

CONSTANTS
    Names,     \* the names a user gives to sources
    Handlers,  \* the threads that serve websocket clients
    MaxRevs,   \* bound: settings ever saved
    None       \* Python's None

ASSUME RegistryAssumption == None \notin Names /\ None \notin Handlers /\ MaxRevs \in Nat

VARIABLES
    up,        \* whether the process runs
    lock,      \* the handler inside the controller's lock between two steps
    sources,   \* config.sources
    files,     \* the contents of the files in sources_dir
    workers,   \* _workers: the worker managed under each name
    running,   \* the workers that have not been told to stop
    pc,        \* where each handler is
    job,       \* what each handler works on
    revs,      \* how many settings there have been
    trouble    \* what has gone wrong since the process started

vars == <<up, lock, sources, files, workers, running, pc, job, revs, trouble>>

\* A SourceConfig: its name, its stable id and which settings it holds.  A worker
\* is known by the settings it was started with.
Source(name, id, rev) == [name |-> name, id |-> id, rev |-> rev]
Sources == [name : Names, id : 1..MaxRevs, rev : 1..MaxRevs]

ASSUME NoneAssumption == None \notin Sources

Called(set, name) == {s \in set : s.name = name}
Taken(name) == Called(sources, name) # {}

Idle == [name |-> None, new |-> None, managed |-> None]

Init ==
    /\ up = TRUE
    /\ lock = None
    /\ sources = {}
    /\ files = {}
    /\ workers = [n \in Names |-> None]
    /\ running = {}
    /\ pc = [h \in Handlers |-> "idle"]
    /\ job = [h \in Handlers |-> Idle]
    /\ revs = 0
    /\ trouble = {}

-----------------------------------------------------------------------------
(* Files                                                                    *)

\* mutant: save_source never looks for the file that is already there
SavedBeside(s) == files \cup {s}

\* save_source: over the file of the same name, else in a new one
Saved(s) == (files \ Called(files, s.name)) \cup {s}

\* mutant: delete_source_file looks for the file by its name and finds none
UnlinkedNothing(name) == files

\* delete_source_file
Unlinked(name) == files \ Called(files, name)

-----------------------------------------------------------------------------
(* Handlers                                                                 *)

\* the names a handler has yet to stop or start a worker for
Touched(h) == IF pc[h] = "idle" THEN {}
              ELSE {job[h].name} \cup (IF job[h].new = None THEN {} ELSE {job[h].new.name})

\* a request for these names begins while another still works on one of them
Crossing(h, names) ==
    IF \E g \in Handlers \ {h} : Touched(g) \cap names # {} THEN {"crossed"} ELSE {}

\* handler h enters `with self._lock` with a new request
Enters(h) == up /\ lock = None /\ pc[h] = "idle"

NewRev == revs < MaxRevs /\ revs' = revs + 1

\* add_source: all of it under the lock
Add(h, name) ==
    /\ Enters(h)
    /\ ~Taken(name)
    /\ NewRev
    /\ LET s == Source(name, revs + 1, revs + 1)
       IN  /\ sources' = sources \cup {s}
           /\ files' = Saved(s)
           /\ workers' = [workers EXCEPT ![name] = s]
           /\ running' = running \cup {s}
    /\ trouble' = trouble \cup Crossing(h, {name})
    /\ UNCHANGED <<up, lock, pc, job>>

\* add_source when save_source or the construction of the worker raises
AddFails(h, name) ==
    /\ Enters(h)
    /\ ~Taken(name)
    /\ NewRev
    /\ LET s == Source(name, revs + 1, revs + 1)
       IN  /\ sources' = sources \cup {s}
           /\ files' \in {files, Saved(s)}
    /\ trouble' = trouble \cup {"failed"}
    /\ UNCHANGED <<up, lock, workers, running, pc, job>>

\* the settings update_source replaces old's with
Updated(old, name) == Source(name, old.id, revs + 1)

\* update_source up to save_source; a rename still has to remove the old file
Update(h, old, name) ==
    /\ Enters(h)
    /\ old \in sources
    /\ name = old.name \/ ~Taken(name)
    /\ NewRev
    /\ LET s == Updated(old, name)
       IN  /\ sources' = (sources \ {old}) \cup {s}
           /\ files' = Saved(s)
           /\ job' = [job EXCEPT ![h] = [name |-> old.name, new |-> s, managed |-> None]]
    /\ IF name = old.name
       THEN pc' = [pc EXCEPT ![h] = "pop"] /\ lock' = None
       ELSE pc' = [pc EXCEPT ![h] = "unlink"] /\ lock' = h
    /\ trouble' = trouble \cup Crossing(h, {old.name, name})
    /\ UNCHANGED <<up, workers, running>>

\* update_source when save_source raises
UpdateFails(h, old, name) ==
    /\ Enters(h)
    /\ old \in sources
    /\ name = old.name \/ ~Taken(name)
    /\ NewRev
    /\ sources' = (sources \ {old}) \cup {Updated(old, name)}
    /\ trouble' = trouble \cup {"failed"}
    /\ UNCHANGED <<up, lock, files, workers, running, pc, job>>

\* mutant: the lock is kept
UnlinkHolding(h) ==
    /\ pc[h] = "unlink"
    /\ files' = Unlinked(job[h].name)
    /\ pc' = [pc EXCEPT ![h] = "pop"]
    /\ UNCHANGED <<up, lock, sources, workers, running, job, revs, trouble>>

\* update_source: delete_source_file of the old name, still under the lock
Unlink(h) ==
    /\ pc[h] = "unlink"
    /\ files' = Unlinked(job[h].name)
    /\ lock' = None
    /\ pc' = [pc EXCEPT ![h] = "pop"]
    /\ UNCHANGED <<up, sources, workers, running, job, revs, trouble>>

\* mutant: acquire() and release() without `with`
UnlinkFailsHolding(h) ==
    /\ pc[h] = "unlink"
    /\ pc' = [pc EXCEPT ![h] = "idle"]
    /\ job' = [job EXCEPT ![h] = Idle]
    /\ trouble' = trouble \cup {"failed"}
    /\ UNCHANGED <<up, lock, sources, files, workers, running, revs>>

\* it raises: the request ends here, the workers stay as they are
UnlinkFails(h) ==
    /\ pc[h] = "unlink"
    /\ lock' = None
    /\ pc' = [pc EXCEPT ![h] = "idle"]
    /\ job' = [job EXCEPT ![h] = Idle]
    /\ trouble' = trouble \cup {"failed"}
    /\ UNCHANGED <<up, sources, files, workers, running, revs>>

\* delete_source under the lock
Delete(h, old) ==
    /\ Enters(h)
    /\ old \in sources
    /\ sources' = sources \ {old}
    /\ files' = Unlinked(old.name)
    /\ job' = [job EXCEPT ![h] = [name |-> old.name, new |-> None, managed |-> None]]
    /\ pc' = [pc EXCEPT ![h] = "pop"]
    /\ trouble' = trouble \cup Crossing(h, {old.name})
    /\ UNCHANGED <<up, lock, workers, running, revs>>

\* delete_source when delete_source_file raises
DeleteFails(h, old) ==
    /\ Enters(h)
    /\ old \in sources
    /\ sources' = sources \ {old}
    /\ trouble' = trouble \cup {"failed"}
    /\ UNCHANGED <<up, lock, files, workers, running, pc, job, revs>>

\* mutant: a rename stops the worker of the new name
PopNewName(h) ==
    /\ pc[h] = "pop"
    /\ lock = None
    /\ LET name == IF job[h].new = None THEN job[h].name ELSE job[h].new.name
       IN  /\ job' = [job EXCEPT ![h].managed = workers[name]]
           /\ workers' = [workers EXCEPT ![name] = None]
    /\ pc' = [pc EXCEPT ![h] = "signal"]
    /\ UNCHANGED <<up, lock, sources, files, running, revs, trouble>>

\* _stop_worker: the worker is taken out of the dict under the lock ...
Pop(h) ==
    /\ pc[h] = "pop"
    /\ lock = None
    /\ job' = [job EXCEPT ![h].managed = workers[job[h].name]]
    /\ workers' = [workers EXCEPT ![job[h].name] = None]
    /\ pc' = [pc EXCEPT ![h] = "signal"]
    /\ UNCHANGED <<up, lock, sources, files, running, revs, trouble>>

\* mutant: no stop_event.set() in _stop_worker
SignalsNobody(h) ==
    /\ pc[h] = "signal"
    /\ pc' = [pc EXCEPT ![h] = IF job[h].new = None THEN "idle" ELSE "start"]
    /\ job' = IF job[h].new = None THEN [job EXCEPT ![h] = Idle] ELSE job
    /\ UNCHANGED <<up, lock, sources, files, workers, running, revs, trouble>>

\* ... and told to stop, and joined for up to ten seconds, outside of it
Signal(h) ==
    /\ pc[h] = "signal"
    /\ running' = running \ {job[h].managed}
    /\ pc' = [pc EXCEPT ![h] = IF job[h].new = None THEN "idle" ELSE "start"]
    /\ job' = IF job[h].new = None THEN [job EXCEPT ![h] = Idle] ELSE job
    /\ UNCHANGED <<up, lock, sources, files, workers, revs, trouble>>

\* update_source's second lock section: _start_worker for the settings it saved,
\* whatever the sources are by now
Start(h) ==
    /\ pc[h] = "start"
    /\ lock = None
    /\ workers' = [workers EXCEPT ![job[h].new.name] = job[h].new]
    /\ running' = running \cup {job[h].new}
    /\ pc' = [pc EXCEPT ![h] = "idle"]
    /\ job' = [job EXCEPT ![h] = Idle]
    /\ UNCHANGED <<up, lock, sources, files, revs, trouble>>

\* the construction of the worker raises
StartFails(h) ==
    /\ pc[h] = "start"
    /\ lock = None
    /\ pc' = [pc EXCEPT ![h] = "idle"]
    /\ job' = [job EXCEPT ![h] = Idle]
    /\ trouble' = trouble \cup {"failed"}
    /\ UNCHANGED <<up, lock, sources, files, workers, running, revs>>

-----------------------------------------------------------------------------
(* The process                                                              *)

\* it dies, or ends: memory and threads are gone, the files stay
Crash ==
    /\ up
    /\ up' = FALSE
    /\ lock' = None
    /\ sources' = {}
    /\ workers' = [n \in Names |-> None]
    /\ running' = {}
    /\ pc' = [h \in Handlers |-> "idle"]
    /\ job' = [h \in Handlers |-> Idle]
    /\ trouble' = {}
    /\ UNCHANGED <<files, revs>>

UniqueNames(set) == \A s, t \in set : s.name = t.name => s = t
UniqueIds(set) == \A s, t \in set : s.id = t.id => s = t

\* load_sources, which refuses two files with one name, and AppController.start
Boot ==
    /\ ~up
    /\ UniqueNames(files)
    /\ up' = TRUE
    /\ sources' = files
    /\ workers' = [n \in Names |-> IF Called(files, n) = {} THEN None
                                   ELSE CHOOSE s \in files : s.name = n]
    /\ running' = files
    /\ trouble' = IF UniqueIds(files) THEN {} ELSE {"twins"}
    /\ UNCHANGED <<lock, files, pc, job, revs>>

-----------------------------------------------------------------------------
\* what a handler does once its request has begun
Continue(h) == Unlink(h) \/ Pop(h) \/ Signal(h) \/ Start(h)

Request(h) ==
    \/ \E name \in Names : Add(h, name) \/ AddFails(h, name)
    \/ \E old \in sources, name \in Names : Update(h, old, name) \/ UpdateFails(h, old, name)
    \/ \E old \in sources : Delete(h, old) \/ DeleteFails(h, old)

Next ==
    \/ \E h \in Handlers : Request(h) \/ Continue(h) \/ UnlinkFails(h) \/ StartFails(h)
    \/ Crash
    \/ Boot

Spec == Init /\ [][Next]_vars

\* A handler that has begun goes on: nothing it waits for, not even the join,
\* is without a time limit.
FairSpec == Spec /\ \A h \in Handlers : WF_vars(Continue(h))

-----------------------------------------------------------------------------
Quiet == up /\ \A h \in Handlers : pc[h] = "idle"

Synced == /\ running = sources
          /\ \A n \in Names :
               IF Taken(n) THEN workers[n] \in Called(sources, n) ELSE workers[n] = None

\* Every variable has its type and the lock is held exactly by the handler that
\* renames a source between its two files (controller.py, update_source).
TypeOK ==
    /\ up \in BOOLEAN
    /\ lock \in Handlers \cup {None}
    /\ sources \subseteq Sources
    /\ files \subseteq Sources
    /\ workers \in [Names -> Sources \cup {None}]
    /\ running \subseteq Sources
    /\ pc \in [Handlers -> {"idle", "unlink", "pop", "signal", "start"}]
    /\ job \in [Handlers -> [name : Names \cup {None}, new : Sources \cup {None},
                             managed : Sources \cup {None}]]
    /\ revs \in 0..MaxRevs
    /\ trouble \subseteq {"crossed", "failed", "twins"}
    /\ \A h \in Handlers : pc[h] = "unlink" <=> lock = h

\* Whenever the lock is free memory and disk agree, with any number of handlers
\* in the unlocked tails of their requests, unless a write failed (the docstring
\* of controller.py).
MemoryIsOnDisk ==
    (up /\ lock = None /\ "failed" \notin trouble) => sources = files

\* The application can always be started again: whatever failed or crashed, no
\* two files claim one name, which load_sources would refuse.
AlwaysBoots == UniqueNames(files)

\* Requests for different sources never disturb each other: if no two overlapped
\* on a name and nothing failed, then once the handlers are done each source has
\* its worker, running with its current settings, and nothing else runs.
ApartInSync == (Quiet /\ trouble \cap {"crossed", "failed"} = {}) => Synced

\* No source ever has two workers that nobody has told to stop, not while its
\* settings are applied nor while it is renamed (an ESPHome device serves one
\* client only), again unless requests overlap on a name or something failed.
OneWorkerPerSource == trouble = {} => UniqueIds(running)

\* A request that has begun ends: the handlers cannot block each other for good.
RequestsEnd == \A h \in Handlers : (pc[h] # "idle") ~> (pc[h] = "idle")

\* controller.py's docstring: config on disk, in memory and live worker threads
\* "never drift out of sync with each other", here with nothing failing.
NeverDrift == (Quiet /\ "failed" \notin trouble) => Synced

=============================================================================
