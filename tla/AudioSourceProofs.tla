-------------------------- MODULE AudioSourceProofs --------------------------
(***************************************************************************)
(* For any number of process ids: the lifecycle lock is held by whoever is *)
(* inside stop(), a source runs at most the one ffmpeg it tracks, start()  *)
(* overwrites no process and a worker that ended by its loop left nothing. *)
(*                                                                         *)
(* OneTrackedFfmpeg is not inductive: a start() with a process tracked     *)
(* would leave that one behind.  StartsFromNothing excludes it, and is     *)
(* itself kept because only the worker starts processes.                   *)
(***************************************************************************)
EXTENDS AudioSource, TLAPS

IInv == TypeOK /\ OneTrackedFfmpeg /\ StartsFromNothing

\* Starting an ffmpeg with none tracked keeps the invariant, wherever the worker
\* goes from there to read.
LEMMA StartsKeepsIInv ==
    ASSUME NEW here \in {"boot", "spawn", "respawn"},
           NEW there \in {"loop", "regrab"},
           IInv,
           Starts(here, there)
    PROVE  IInv'
<1> USE PidsAssumption DEF IInv, TypeOK, OneTrackedFfmpeg, StartsFromNothing,
                           WorkerPlaces, ControllerPlaces
<1>1. process = None /\ alive = {}
  BY DEF Starts
<1>2. PICK pid \in Pids : process' = pid /\ alive' = {pid}
  BY <1>1 DEF Starts, FreshPids
<1>3. TypeOK'
  BY <1>2 DEF Starts
<1>4. OneTrackedFfmpeg'
  BY <1>2
<1>5. StartsFromNothing'
  BY DEF Starts
<1> QED
  BY <1>3, <1>4, <1>5

\* A step of the worker thread alone keeps the invariant if it does not pretend
\* to have stopped the process.
LEMMA GoesKeepsIInv ==
    ASSUME NEW there \in WorkerPlaces \ {"restarting", "finalizing"},
           worker \notin {"restarting", "finalizing"},
           there \in {"boot", "spawn", "check", "sleep", "respawn", "done"} => process = None,
           IInv,
           Goes(there)
    PROVE  IInv'
BY DEF IInv, TypeOK, OneTrackedFfmpeg, StartsFromNothing, WorkerPlaces, Goes

\* Initially nothing runs.
LEMMA InitIInv == Init => IInv
BY PidsAssumption DEF Init, IInv, TypeOK, OneTrackedFfmpeg, StartsFromNothing,
                      WorkerPlaces, ControllerPlaces

\* Every step of either thread, of ffmpeg and of the stream keeps the invariant.
LEMMA NextIInv == IInv /\ [Next]_vars => IInv'
<1> SUFFICES ASSUME IInv, [Next]_vars PROVE IInv'
  OBVIOUS
<1> USE PidsAssumption
<1>1. CASE WorkerStep
  <2>1. CASE Boot
    BY <2>1, StartsKeepsIInv DEF Boot
  <2>2. CASE Spawn
    BY <2>2, StartsKeepsIInv DEF Spawn
  <2>3. CASE Respawn
    BY <2>3, StartsKeepsIInv DEF Respawn
  <2>4. CASE LoopTest
    <3>1. CASE stopEvent
      BY <2>4, <3>1, GoesKeepsIInv DEF LoopTest, WorkerPlaces
    <3>2. CASE ~stopEvent
      BY <2>4, <3>2, GoesKeepsIInv DEF LoopTest, WorkerPlaces
    <3> QED
      BY <3>1, <3>2
  <2>5. CASE Grab
    BY <2>5 DEF Grab, IInv, TypeOK, OneTrackedFfmpeg, StartsFromNothing, WorkerPlaces
  <2>6. CASE Regrab
    BY <2>6 DEF Regrab, IInv, TypeOK, OneTrackedFfmpeg, StartsFromNothing, WorkerPlaces
  <2>7. CASE ReadLeftover
    BY <2>7 DEF ReadLeftover, IInv, TypeOK, OneTrackedFfmpeg, StartsFromNothing,
                WorkerPlaces
  <2>8. CASE ReadEnd
    BY <2>8, GoesKeepsIInv DEF ReadEnd, WorkerPlaces
  <2>9. CASE Processed
    BY <2>9, GoesKeepsIInv DEF Processed, WorkerPlaces
  <2>10. CASE RestartStops
    BY <2>10 DEF RestartStops, TakesLock, IInv, TypeOK, OneTrackedFfmpeg,
                 StartsFromNothing, WorkerPlaces
  <2>11. CASE RestartStopped
    BY <2>11 DEF RestartStopped, Releases, IInv, TypeOK, OneTrackedFfmpeg,
                 StartsFromNothing, WorkerPlaces
  <2>12. CASE RestartChecks
    <3>1. worker = "check" /\ process = None
      BY <2>12 DEF RestartChecks, IInv, StartsFromNothing
    <3>2. AfterCheck \in {"loop", "sleep"}
      BY DEF AfterCheck
    <3> QED
      BY <2>12, <3>1, <3>2, GoesKeepsIInv DEF RestartChecks, WorkerPlaces
  <2>13. CASE Sleep
    <3>1. worker = "sleep" /\ process = None
      BY <2>13 DEF Sleep, IInv, StartsFromNothing
    <3> QED
      BY <2>13, <3>1, GoesKeepsIInv DEF Sleep, WorkerPlaces
  <2>14. CASE FinalStop
    BY <2>14 DEF FinalStop, TakesLock, IInv, TypeOK, OneTrackedFfmpeg,
                 StartsFromNothing, WorkerPlaces
  <2>15. CASE FinalStopped
    BY <2>15 DEF FinalStopped, Releases, IInv, TypeOK, OneTrackedFfmpeg,
                 StartsFromNothing, WorkerPlaces
  <2> QED
    BY <1>1, <2>1, <2>2, <2>3, <2>4, <2>5, <2>6, <2>7, <2>8, <2>9, <2>10, <2>11,
       <2>12, <2>13, <2>14, <2>15 DEF WorkerStep
<1>2. CASE ReadChunk
  BY <1>2, GoesKeepsIInv DEF ReadChunk, WorkerPlaces
<1>3. CASE ReadFails
  BY <1>3, GoesKeepsIInv DEF ReadFails, WorkerPlaces
<1>4. CASE StartFails
  BY <1>4, GoesKeepsIInv DEF StartFails, WorkerPlaces
<1>5. CASE ProcessFails
  BY <1>5, GoesKeepsIInv DEF ProcessFails, WorkerPlaces
<1>6. CASE SetStopEvent
  BY <1>6 DEF SetStopEvent, IInv, TypeOK, OneTrackedFfmpeg, StartsFromNothing,
              ControllerPlaces
<1>7. CASE ControllerStep
  <2>1. CASE ForceStop
    BY <2>1 DEF ForceStop, TakesLock, IInv, TypeOK, OneTrackedFfmpeg,
                StartsFromNothing, ControllerPlaces
  <2>2. CASE ForceStopped
    BY <2>2 DEF ForceStopped, Releases, IInv, TypeOK, OneTrackedFfmpeg,
                StartsFromNothing, ControllerPlaces
  <2>3. CASE Joined \/ JoinTimesOut
    BY <2>3 DEF Joined, JoinTimesOut, IInv, TypeOK, OneTrackedFfmpeg,
                StartsFromNothing, ControllerPlaces
  <2> QED
    BY <1>7, <2>1, <2>2, <2>3 DEF ControllerStep
<1>8. CASE FfmpegExits
  BY <1>8 DEF FfmpegExits, IInv, TypeOK, OneTrackedFfmpeg, StartsFromNothing
<1>9. CASE StreamTurns
  BY <1>9 DEF StreamTurns, IInv, TypeOK, OneTrackedFfmpeg, StartsFromNothing
<1>10. CASE UNCHANGED vars
  BY <1>10 DEF vars, IInv, TypeOK, OneTrackedFfmpeg, StartsFromNothing
<1> QED
  BY <1>1, <1>2, <1>3, <1>4, <1>5, <1>6, <1>7, <1>8, <1>9, <1>10 DEF Next

\* The invariant holds in every behaviour.
THEOREM Invariance == Spec => []IInv
BY InitIInv, NextIInv, PTL DEF Spec

\* The lifecycle lock is held by the thread inside stop() and by nobody else.
THEOREM TypeCorrect == Spec => []TypeOK
<1>1. IInv => TypeOK
  BY DEF IInv
<1> QED
  BY Invariance, <1>1, PTL

\* Every running ffmpeg of a source is the one in self.process.
THEOREM Tracked == Spec => []OneTrackedFfmpeg
<1>1. IInv => OneTrackedFfmpeg
  BY DEF IInv
<1> QED
  BY Invariance, <1>1, PTL

\* start() overwrites no process.
THEOREM StartsClean == Spec => []StartsFromNothing
<1>1. IInv => StartsFromNothing
  BY DEF IInv
<1> QED
  BY Invariance, <1>1, PTL

\* A worker that ended by its loop has no ffmpeg, whatever the controller did
\* meanwhile.
THEOREM NothingLeftBehind == Spec => []DoneLeavesNoFfmpeg
<1>1. IInv => DoneLeavesNoFfmpeg
  BY PidsAssumption DEF IInv, TypeOK, OneTrackedFfmpeg, StartsFromNothing,
                        DoneLeavesNoFfmpeg
<1> QED
  BY Invariance, <1>1, PTL

=============================================================================
