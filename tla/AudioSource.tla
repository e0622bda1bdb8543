----------------------------- MODULE AudioSource -----------------------------
(***************************************************************************)
(* The life of one source's ffmpeg: FfmpegAudioSource (audio_source.py)    *)
(* driven by the worker thread of SourceWorker.run (worker.py) and, once,  *)
(* by a controller thread in AppController._stop_worker (controller.py).   *)
(*                                                                         *)
(* The two threads share stop_event, self.process and the lifecycle lock;  *)
(* the ffmpeg processes exit, and the stream falls silent, on their own.   *)
(* SIGKILL takes effect at once; SIGTERM when the process gets to it.      *)
(***************************************************************************)
EXTENDS Naturals, FiniteSets

CONSTANTS
    Pids,   \* the ffmpeg processes; ids are used again once nobody holds them
    None    \* Python's None

ASSUME PidsAssumption == None \notin Pids

VARIABLES
    stopEvent,  \* the worker's stop_event
    process,    \* self.process
    lock,       \* who holds the lifecycle lock inside stop()
    alive,      \* the ffmpeg processes that run
    stream,     \* whether audio arrives at a running ffmpeg
    leftover,   \* whether an exited ffmpeg left a full chunk in its pipe
    worker,     \* where the worker thread is
    mine,       \* read_chunk's local `process`
    controller  \* where _stop_worker is

vars == <<stopEvent, process, lock, alive, stream, leftover, worker, mine, controller>>

Ended == worker \in {"done", "crashed"}

Init ==
    /\ stopEvent = FALSE
    /\ process = None
    /\ lock = "free"
    /\ alive = {}
    /\ stream \in {"flowing", "silent"}
    /\ leftover = FALSE
    /\ worker = "boot"
    /\ mine = None
    /\ controller = "idle"

\* a step of the worker thread that touches nothing else
Goes(there) ==
    /\ worker' = there
    /\ UNCHANGED <<stopEvent, process, lock, alive, stream, leftover, mine, controller>>

-----------------------------------------------------------------------------
(* start(): Popen under the lock                                            *)

FreshPids == Pids \ (alive \cup {process, mine})

Starts(here, there) ==
    /\ worker = here
    /\ lock = "free"
    /\ \E pid \in FreshPids :
          /\ process' = pid
          /\ alive' = alive \cup {pid}
    /\ leftover' = FALSE
    /\ worker' = there
    /\ UNCHANGED <<stopEvent, lock, stream, mine, controller>>

\* Popen raises; nothing between it and run() catches the exception
StartFails ==
    /\ worker \in {"boot", "spawn", "respawn"}
    /\ lock = "free"
    /\ Goes("crashed")

-----------------------------------------------------------------------------
(* stop(): terminate, wait up to five seconds, else kill; all under the lock *)

\* mutant: stop() without `with self._lifecycle_lock`
TakesNoLock(who) ==
    /\ lock' = who
    /\ UNCHANGED <<stopEvent, process, alive, stream, leftover, mine>>

\* `who` takes the lock and, when there is a process, sends it SIGTERM
TakesLock(who) ==
    /\ lock = "free"
    /\ lock' = who
    /\ UNCHANGED <<stopEvent, process, alive, stream, leftover, mine>>

\* mutants: no kill() when terminate() was not enough; the lock is kept
ReleasesUnkilled(who) ==
    /\ lock = who
    /\ process' = None
    /\ lock' = "free"
    /\ UNCHANGED <<stopEvent, alive, stream, leftover, mine>>
ReleasesNothing(who) ==
    /\ lock = who
    /\ alive' = alive \ {process}
    /\ process' = None
    /\ UNCHANGED <<stopEvent, lock, stream, leftover, mine>>

\* wait() has seen the process exit, or timed out and kill() has ended it
Releases(who) ==
    /\ lock = who
    /\ alive' = alive \ {process}
    /\ \/ leftover' = leftover
       \/ process \in alive /\ leftover' = TRUE
    /\ process' = None
    /\ lock' = "free"
    /\ UNCHANGED <<stopEvent, stream, mine>>

-----------------------------------------------------------------------------
(* run() and read_chunk() on the worker thread                              *)

\* self.audio_source.start() before the loop
Boot == Starts("boot", "loop")

\* mutant: `while True`
LoopForever ==
    /\ worker = "loop"
    /\ Goes("grab")

\* while not self.stop_event.is_set()
LoopTest ==
    /\ worker = "loop"
    /\ Goes(IF stopEvent THEN "final" ELSE "grab")

\* process = self.process, and start() when it is None
Grab ==
    /\ worker = "grab"
    /\ mine' = process
    /\ worker' = IF process = None THEN "spawn" ELSE "read"
    /\ UNCHANGED <<stopEvent, process, lock, alive, stream, leftover, controller>>

Spawn == Starts("spawn", "regrab")

\* process = self.process once more; the controller may have reset it
Regrab ==
    /\ worker = "regrab"
    /\ mine' = process
    /\ worker' = IF process = None THEN "loop" ELSE "read"
    /\ UNCHANGED <<stopEvent, process, lock, alive, stream, leftover, controller>>

\* a full chunk arrives and goes to _process_chunk
ReadChunk ==
    /\ worker = "read"
    /\ mine \in alive
    /\ stream = "flowing"
    /\ Goes("process")

\* the pipe outlives ffmpeg: what it still holds is read first
ReadLeftover ==
    /\ worker = "read"
    /\ mine \notin alive
    /\ leftover
    /\ leftover' = FALSE
    /\ worker' = "process"
    /\ UNCHANGED <<stopEvent, process, lock, alive, stream, mine, controller>>

\* mutant: the end of the pipe is taken for a quiet moment
ReadEndUnnoticed ==
    /\ worker = "read"
    /\ mine \notin alive
    /\ ~leftover
    /\ Goes("loop")

\* mutant: no self.stop() in _restart
RestartWithoutStop ==
    /\ worker = "read"
    /\ Goes("check")

\* the pipe of an exited ffmpeg ends: _restart()
ReadEnd ==
    /\ worker = "read"
    /\ mine \notin alive
    /\ ~leftover
    /\ Goes("restart")

\* read() raises while ffmpeg may well be running: _restart() all the same
ReadFails ==
    /\ worker = "read"
    /\ Goes("restart")

\* _process_chunk returns to the loop
Processed ==
    /\ worker = "process"
    /\ Goes("loop")

\* _process_chunk raises (a snippet that cannot be written): the thread dies and
\* its ffmpeg stays
ProcessFails ==
    /\ worker = "process"
    /\ Goes("crashed")

\* _restart: self.stop()
RestartStops ==
    /\ worker = "restart"
    /\ TakesLock("worker")
    /\ worker' = "restarting"
    /\ UNCHANGED controller

RestartStopped ==
    /\ worker = "restarting"
    /\ Releases("worker")
    /\ worker' = "check"
    /\ UNCHANGED controller

\* the stop flag is looked at before the sleep and not after it
AfterCheck == IF stopEvent THEN "loop" ELSE "sleep"

RestartChecks ==
    /\ worker = "check"
    /\ Goes(AfterCheck)

\* time.sleep(self.retry_interval)
Sleep ==
    /\ worker = "sleep"
    /\ Goes("respawn")

Respawn == Starts("respawn", "loop")

\* mutant: run() returns without the final stop()
FinalStopForgotten ==
    /\ worker = "final"
    /\ Goes("done")

\* self.audio_source.stop() after the loop
FinalStop ==
    /\ worker = "final"
    /\ TakesLock("worker")
    /\ worker' = "finalizing"
    /\ UNCHANGED controller

FinalStopped ==
    /\ worker = "finalizing"
    /\ Releases("worker")
    /\ worker' = "done"
    /\ UNCHANGED controller

-----------------------------------------------------------------------------
(* _stop_worker on a controller thread                                      *)

SetStopEvent ==
    /\ controller = "idle"
    /\ stopEvent' = TRUE
    /\ controller' = "flagged"
    /\ UNCHANGED <<process, lock, alive, stream, leftover, worker, mine>>

ForceStop ==
    /\ controller = "flagged"
    /\ TakesLock("controller")
    /\ controller' = "killing"
    /\ UNCHANGED worker

ForceStopped ==
    /\ controller = "killing"
    /\ Releases("controller")
    /\ controller' = "joining"
    /\ UNCHANGED worker

Joined ==
    /\ controller = "joining"
    /\ Ended
    /\ controller' = "joined"
    /\ UNCHANGED <<stopEvent, process, lock, alive, stream, leftover, worker, mine>>

\* join(timeout=10) returns although the worker still runs
JoinTimesOut ==
    /\ controller = "joining"
    /\ ~Ended
    /\ controller' = "timedout"
    /\ UNCHANGED <<stopEvent, process, lock, alive, stream, leftover, worker, mine>>

-----------------------------------------------------------------------------
(* the world outside                                                        *)

\* ffmpeg exits by itself, or on the SIGTERM it was sent
FfmpegExits ==
    /\ \E pid \in alive : alive' = alive \ {pid}
    /\ leftover' \in BOOLEAN
    /\ UNCHANGED <<stopEvent, process, lock, stream, worker, mine, controller>>

StreamTurns ==
    /\ stream' = IF stream = "flowing" THEN "silent" ELSE "flowing"
    /\ UNCHANGED <<stopEvent, process, lock, alive, leftover, worker, mine, controller>>

-----------------------------------------------------------------------------
WorkerStep ==
    \/ Boot \/ LoopTest \/ Grab \/ Spawn \/ Regrab \/ ReadLeftover \/ ReadEnd \/ Processed
    \/ RestartStops \/ RestartStopped \/ RestartChecks \/ Sleep \/ Respawn
    \/ FinalStop \/ FinalStopped

ControllerStep == ForceStop \/ ForceStopped \/ Joined \/ JoinTimesOut

Next ==
    \/ WorkerStep
    \/ ReadChunk
    \/ ReadFails
    \/ StartFails
    \/ ProcessFails
    \/ SetStopEvent
    \/ ControllerStep
    \/ FfmpegExits
    \/ StreamTurns

Spec == Init /\ [][Next]_vars

\* Both threads keep running.  A read needs a stream that flows often enough,
\* the bytes of its spells add up to a chunk; that ffmpeg exits, that the stream
\* comes back or that the controller stops the source is never assumed.
FairSpec == Spec /\ WF_vars(WorkerStep) /\ WF_vars(ControllerStep) /\ SF_vars(ReadChunk)

-----------------------------------------------------------------------------
WorkerPlaces == {"boot", "loop", "grab", "spawn", "regrab", "read", "process",
                 "restart", "restarting", "check", "sleep", "respawn", "final",
                 "finalizing", "done", "crashed"}
ControllerPlaces == {"idle", "flagged", "killing", "joining", "joined", "timedout"}

\* Every variable has its type, and the lifecycle lock is held by the thread
\* that is inside stop() and by nobody else (audio_source.py, _lifecycle_lock).
TypeOK ==
    /\ stopEvent \in BOOLEAN
    /\ process \in Pids \cup {None}
    /\ lock \in {"free", "worker", "controller"}
    /\ alive \subseteq Pids
    /\ stream \in {"flowing", "silent"}
    /\ leftover \in BOOLEAN
    /\ worker \in WorkerPlaces
    /\ mine \in Pids \cup {None}
    /\ controller \in ControllerPlaces
    /\ lock = "worker" <=> worker \in {"restarting", "finalizing"}
    /\ lock = "controller" <=> controller = "killing"
    /\ stopEvent <=> controller # "idle"

\* A source never runs two ffmpegs, and the one it runs is always the one in
\* self.process, which stop() will end: start() overwrites self.process without
\* looking, while the controller resets it at any moment (audio_source.py).
OneTrackedFfmpeg == \A pid \in alive : pid = process

\* start() never overwrites a process: at each place that calls it the worker
\* comes from a stop() or has just seen None, and nothing but the worker could
\* have put a process there since (worker.py's run, read_chunk, _restart).
StartsFromNothing ==
    worker \in {"boot", "spawn", "check", "sleep", "respawn", "done"} => process = None

\* When the worker ends by its loop it leaves no ffmpeg behind, however its last
\* restart crossed the controller's force-stop (run's final stop()).
DoneLeavesNoFfmpeg == worker = "done" => alive = {} /\ process = None

\* ffmpeg that exits is started again, unless the source is being stopped or
\* the worker dies of an exception (FfmpegAudioSource's docstring).
ExitIsRetried == (worker = "read" /\ mine \notin alive)
                    ~> (alive # {} \/ stopEvent \/ worker = "crashed")

\* _stop_worker always comes back: neither the lifecycle lock nor the join can
\* hold it for ever (controller.py, _stop_worker).
StopReturns == (controller = "flagged") ~> (controller \in {"joined", "timedout"})

\* A stopped worker ends and its ffmpeg with it as long as audio keeps coming,
\* also when it reconnected after the force-stop.
StopEnds == []<>(stream = "flowing") => (stopEvent ~> Ended)

\* controller.py's comment in _stop_worker: with the flag set before the kill
\* the worker "bails out instead of reconnecting right after we terminate it".
NoReconnectAfterKill ==
    [][(controller \in {"joining", "joined", "timedout"} /\ worker # "boot")
          => (alive' \subseteq alive)]_vars

=============================================================================
