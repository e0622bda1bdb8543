------------------------ MODULE SourceRegistryProofs ------------------------
(***************************************************************************)
(* For any names, handlers and number of settings: two files never claim   *)
(* one name, memory and disk agree whenever the lock is free, and requests *)
(* that do not cross leave each source with its one worker.                *)
(*                                                                         *)
(* MemoryIsOnDisk says nothing of the middle of a rename, when the lock is *)
(* held: HalfwayThroughRename does.  That removing a file by its old name  *)
(* removes only that source's needs AlwaysBoots.                           *)
(***************************************************************************)
EXTENDS SourceRegistry, TLAPS

\* a handler at work knows which names it works on
JobsAreKnown ==
    \A h \in Handlers :
        /\ pc[h] # "idle" => job[h].name \in Names
        /\ pc[h] \in {"unlink", "start"} => job[h].new \in Sources

\* with the lock held, only the file of the old name is too many
HalfwayThroughRename ==
    \A h \in Handlers :
        (pc[h] = "unlink" /\ "failed" \notin trouble) => sources = Unlinked(job[h].name)

\* the dead hold no lock
DownIsUnlocked == ~up => lock = None

IInv == TypeOK /\ JobsAreKnown /\ DownIsUnlocked /\ AlwaysBoots /\ HalfwayThroughRename /\ MemoryIsOnDisk

-----------------------------------------------------------------------------
\* save_source keeps names unique: it overwrites the file that has the name.
LEMMA SavedKeepsNames ==
    ASSUME AlwaysBoots, NEW s \in Sources
    PROVE  UniqueNames(Saved(s))
BY DEF AlwaysBoots, UniqueNames, Saved, Called

\* delete_source_file keeps names unique: it only removes.
LEMMA UnlinkedKeepsNames ==
    ASSUME AlwaysBoots, NEW name
    PROVE  UniqueNames(Unlinked(name))
BY DEF AlwaysBoots, UniqueNames, Unlinked, Called

\* With one file to a name, delete_source_file removes one source.
LEMMA UnlinkedRemovesOne ==
    ASSUME AlwaysBoots, NEW old \in files
    PROVE  Unlinked(old.name) = files \ {old}
BY DEF AlwaysBoots, UniqueNames, Unlinked, Called

\* The settings an add or an update makes are a source's.
LEMMA NewSourceIsASource ==
    ASSUME TypeOK, RegistryAssumption, NEW name \in Names, NewRev
    PROVE  /\ Source(name, revs + 1, revs + 1) \in Sources
           /\ \A old \in sources : Updated(old, name) \in Sources
           /\ revs' \in 0..MaxRevs
BY DEF TypeOK, RegistryAssumption, NewRev, Source, Updated, Sources

\* Initially there is nothing.
LEMMA InitIInv == Init => IInv
BY RegistryAssumption DEF Init, IInv, TypeOK, JobsAreKnown, DownIsUnlocked, AlwaysBoots, UniqueNames,
   HalfwayThroughRename, MemoryIsOnDisk, Idle

-----------------------------------------------------------------------------
\* A request's first step keeps types and jobs, whether it succeeds or fails.
LEMMA RequestTypes ==
    ASSUME IInv, NEW h \in Handlers, Request(h)
    PROVE  TypeOK' /\ JobsAreKnown' /\ DownIsUnlocked'
<1> USE RegistryAssumption
<1>1. CASE \E name \in Names : Add(h, name) \/ AddFails(h, name)
  <2>1. PICK name \in Names : Add(h, name) \/ AddFails(h, name)
    BY <1>1
  <2>2. NewRev
    BY <2>1 DEF Add, AddFails
  <2> DEFINE s == Source(name, revs + 1, revs + 1)
  <2>3. s \in Sources /\ revs' \in 0..MaxRevs
    BY <2>2, NewSourceIsASource DEF IInv
  <2>4. Saved(s) \subseteq Sources
    BY <2>3 DEF IInv, TypeOK, Saved
  <2> HIDE DEF s
  <2>5. CASE Add(h, name)
    <3>1. /\ sources' = sources \cup {s}
          /\ files' = Saved(s)
          /\ workers' = [workers EXCEPT ![name] = s]
          /\ running' = running \cup {s}
          /\ trouble' = trouble \cup Crossing(h, {name})
          /\ UNCHANGED <<up, lock, pc, job>>
      BY <2>5 DEF Add, s
    <3> QED
      BY <2>3, <2>4, <3>1 DEF IInv, TypeOK, JobsAreKnown, DownIsUnlocked, Crossing
  <2>6. CASE AddFails(h, name)
    <3>1. /\ sources' = sources \cup {s}
          /\ files' \in {files, Saved(s)}
          /\ trouble' = trouble \cup {"failed"}
          /\ UNCHANGED <<up, lock, workers, running, pc, job>>
      BY <2>6 DEF AddFails, s
    <3> QED
      BY <2>3, <2>4, <3>1 DEF IInv, TypeOK, JobsAreKnown, DownIsUnlocked
  <2> QED
    BY <2>1, <2>5, <2>6
<1>2. CASE \E old \in sources, name \in Names : Update(h, old, name) \/ UpdateFails(h, old, name)
  <2>1. PICK old \in sources, name \in Names : Update(h, old, name) \/ UpdateFails(h, old, name)
    BY <1>2
  <2>2. NewRev
    BY <2>1 DEF Update, UpdateFails
  <2> DEFINE s == Updated(old, name)
  <2>3. s \in Sources /\ revs' \in 0..MaxRevs
    BY <2>2, NewSourceIsASource DEF IInv
  <2>4. Saved(s) \subseteq Sources
    BY <2>3 DEF IInv, TypeOK, Saved
  <2>5. old.name \in Names
    BY DEF IInv, TypeOK, Sources
  <2> HIDE DEF s
  <2>6. CASE Update(h, old, name)
    <3>1. /\ Enters(h)
          /\ sources' = (sources \ {old}) \cup {s}
          /\ files' = Saved(s)
          /\ job' = [job EXCEPT ![h] = [name |-> old.name, new |-> s, managed |-> None]]
          /\ trouble' = trouble \cup Crossing(h, {old.name, name})
          /\ UNCHANGED <<up, workers, running>>
      BY <2>6 DEF Update, s
    <3>2. \/ pc' = [pc EXCEPT ![h] = "pop"] /\ lock' = None
          \/ pc' = [pc EXCEPT ![h] = "unlink"] /\ lock' = h
      BY <2>6 DEF Update
    <3>3. trouble' \subseteq {"crossed", "failed", "twins"}
      BY <3>1 DEF Crossing, IInv, TypeOK
    <3>4. job' \in [Handlers -> [name : Names \cup {None}, new : Sources \cup {None},
                                 managed : Sources \cup {None}]]
      BY <2>3, <2>5, <3>1 DEF IInv, TypeOK
    <3>5. \A g \in Handlers : pc'[g] = "unlink" <=> lock' = g
      BY <3>1, <3>2 DEF IInv, TypeOK, Enters
    <3>6. JobsAreKnown'
      BY <2>3, <2>5, <3>1, <3>2 DEF IInv, TypeOK, JobsAreKnown, DownIsUnlocked
    <3>7. /\ pc' \in [Handlers -> {"idle", "unlink", "pop", "signal", "start"}]
          /\ lock' \in Handlers \cup {None}
      BY <3>2 DEF IInv, TypeOK
    <3> QED
      BY <2>3, <2>4, <3>1, <3>3, <3>4, <3>5, <3>6, <3>7 DEF Enters, IInv, TypeOK, DownIsUnlocked
  <2>7. CASE UpdateFails(h, old, name)
    <3>1. /\ sources' = (sources \ {old}) \cup {s}
          /\ trouble' = trouble \cup {"failed"}
          /\ UNCHANGED <<up, lock, files, workers, running, pc, job>>
      BY <2>7 DEF UpdateFails, s
    <3> QED
      BY <2>3, <3>1 DEF IInv, TypeOK, JobsAreKnown, DownIsUnlocked
  <2> QED
    BY <2>1, <2>6, <2>7
<1>3. CASE \E old \in sources : Delete(h, old) \/ DeleteFails(h, old)
  <2>1. PICK old \in sources : Delete(h, old) \/ DeleteFails(h, old)
    BY <1>3
  <2>2. old.name \in Names
    BY DEF IInv, TypeOK, Sources
  <2>3. CASE Delete(h, old)
    BY <2>2, <2>3 DEF Delete, Enters, Crossing, Unlinked, IInv, TypeOK, JobsAreKnown, DownIsUnlocked
  <2>4. CASE DeleteFails(h, old)
    BY <2>4 DEF DeleteFails, IInv, TypeOK, JobsAreKnown, DownIsUnlocked
  <2> QED
    BY <2>1, <2>3, <2>4
<1> QED
  BY <1>1, <1>2, <1>3 DEF Request

\* The rest of a request keeps types and jobs.
LEMMA ContinueTypes ==
    ASSUME IInv, NEW h \in Handlers, Continue(h) \/ UnlinkFails(h) \/ StartFails(h)
    PROVE  TypeOK' /\ JobsAreKnown' /\ DownIsUnlocked'
<1> USE RegistryAssumption
<1>1. CASE Unlink(h)
  BY <1>1 DEF Unlink, Unlinked, IInv, TypeOK, JobsAreKnown, DownIsUnlocked
<1>2. CASE UnlinkFails(h)
  BY <1>2 DEF UnlinkFails, Idle, IInv, TypeOK, JobsAreKnown, DownIsUnlocked
<1>3. CASE Pop(h)
  BY <1>3 DEF Pop, IInv, TypeOK, JobsAreKnown, DownIsUnlocked
<1>4. CASE Signal(h)
  BY <1>4 DEF Signal, Idle, IInv, TypeOK, JobsAreKnown, DownIsUnlocked
<1>5. CASE Start(h)
  <2>1. job[h].new \in Sources
    BY <1>5 DEF Start, IInv, JobsAreKnown, DownIsUnlocked
  <2>2. job[h].new.name \in Names
    BY <2>1 DEF Sources
  <2> QED
    BY <1>5, <2>1, <2>2 DEF Start, Idle, IInv, TypeOK, JobsAreKnown, DownIsUnlocked
<1>6. CASE StartFails(h)
  BY <1>6 DEF StartFails, Idle, IInv, TypeOK, JobsAreKnown, DownIsUnlocked
<1> QED
  BY <1>1, <1>2, <1>3, <1>4, <1>5, <1>6 DEF Continue

\* The end and the start of the process keep types and jobs.
LEMMA ProcessTypes ==
    ASSUME IInv, Crash \/ Boot
    PROVE  TypeOK' /\ JobsAreKnown' /\ DownIsUnlocked'
<1> USE RegistryAssumption
<1>1. CASE Crash
  BY <1>1 DEF Crash, Idle, IInv, TypeOK, JobsAreKnown, DownIsUnlocked
<1>2. CASE Boot
  <2>1. workers' \in [Names -> Sources \cup {None}]
    <3>1. \A n \in Names : Called(files, n) # {} => (CHOOSE s \in files : s.name = n) \in Sources
      BY DEF Called, IInv, TypeOK
    <3> QED
      BY <1>2, <3>1 DEF Boot
  <2> QED
    BY <1>2, <2>1 DEF Boot, IInv, TypeOK, JobsAreKnown, DownIsUnlocked
<1> QED
  BY <1>1, <1>2

-----------------------------------------------------------------------------
\* A request's first step leaves memory and disk alike, or a rename halfway.
LEMMA RequestIInv ==
    ASSUME IInv, NEW h \in Handlers, Request(h)
    PROVE  IInv'
<1> USE RegistryAssumption
<1>1. TypeOK' /\ JobsAreKnown' /\ DownIsUnlocked'
  BY RequestTypes
<1>2. \A g \in Handlers : pc[g] # "unlink"
  BY ZenonT(30) DEF Request, Add, AddFails, Update, UpdateFails, Delete, DeleteFails, Enters, IInv, TypeOK
<1>3. up /\ lock = None
  BY DEF Request, Add, AddFails, Update, UpdateFails, Delete, DeleteFails, Enters
<1>4. "failed" \notin trouble => sources = files
  BY <1>3 DEF IInv, MemoryIsOnDisk
<1>5. CASE \E name \in Names : Add(h, name) \/ AddFails(h, name)
  <2>1. PICK name \in Names : Add(h, name) \/ AddFails(h, name)
    BY <1>5
  <2> DEFINE s == Source(name, revs + 1, revs + 1)
  <2>2. s \in Sources /\ s.name = name
    BY <2>1, NewSourceIsASource DEF IInv, Add, AddFails, Source
  <2>3. UniqueNames(Saved(s))
    BY <2>2, SavedKeepsNames DEF IInv
  <2>4. sources' = sources \cup {s} /\ files' \in {files, Saved(s)} /\ ~Taken(name)
    BY <2>1 DEF Add, AddFails
  <2>5. UNCHANGED <<lock, pc, job>>
    BY <2>1 DEF Add, AddFails
  <2>6. AlwaysBoots'
    BY <2>3, <2>4 DEF IInv, AlwaysBoots, UniqueNames
  <2>7. "failed" \notin trouble' => sources' = files'
    <3> SUFFICES ASSUME "failed" \notin trouble' PROVE sources' = files'
      OBVIOUS
    <3>1. Add(h, name)
      BY <2>1 DEF AddFails
    <3>2. files' = Saved(s) /\ "failed" \notin trouble
      BY <3>1 DEF Add
    <3>3. Saved(s) = files \cup {s}
      BY <1>4, <2>2, <2>4, <3>2 DEF Saved, Taken, Called
    <3> QED
      BY <1>4, <2>4, <3>2, <3>3
  <2> QED
    BY <1>1, <1>2, <2>5, <2>6, <2>7 DEF IInv, HalfwayThroughRename, MemoryIsOnDisk
<1>6. CASE \E old \in sources, name \in Names : Update(h, old, name) \/ UpdateFails(h, old, name)
  <2>1. PICK old \in sources, name \in Names : Update(h, old, name) \/ UpdateFails(h, old, name)
    BY <1>6
  <2> DEFINE s == Updated(old, name)
  <2>2. s \in Sources /\ s.name = name
    BY <2>1, NewSourceIsASource DEF IInv, Update, UpdateFails, Updated, Source
  <2> HIDE DEF s
  <2>3. UniqueNames(Saved(s))
    BY <2>2, SavedKeepsNames DEF IInv
  <2>4. sources' = (sources \ {old}) \cup {s} /\ (name = old.name \/ ~Taken(name))
    BY <2>1 DEF Update, UpdateFails, s
  <2>5. CASE UpdateFails(h, old, name)
    BY <1>1, <1>2, <2>5 DEF UpdateFails, IInv, AlwaysBoots, HalfwayThroughRename, MemoryIsOnDisk
  <2>6. CASE Update(h, old, name)
    <3>1. files' = Saved(s)
      BY <2>6 DEF Update, s
    <3>2. AlwaysBoots'
      BY <2>3, <3>1 DEF AlwaysBoots, UniqueNames
    <3>3. "failed" \notin trouble' => sources = files /\ old \in files
      BY <1>4, <2>6 DEF Update
    <3>4. CASE name = old.name
      <4>1. "failed" \notin trouble' => sources' = files'
        BY <2>2, <2>4, <3>1, <3>3, <3>4, UnlinkedRemovesOne DEF IInv, Saved, Unlinked
      <4>2. \A g \in Handlers : pc'[g] # "unlink"
        BY <1>2, <2>6, <3>4 DEF Update, IInv, TypeOK
      <4> QED
        BY <1>1, <3>2, <4>1, <4>2 DEF IInv, HalfwayThroughRename, MemoryIsOnDisk
    <3>5. CASE name # old.name
      <4>1. lock' = h /\ job'[h].name = old.name /\ h # None
        BY <2>6, <3>5 DEF Update, IInv, TypeOK
      <4>2. \A g \in Handlers : pc'[g] = "unlink" => g = h
        BY <1>1, <4>1 DEF TypeOK
      <4>3. "failed" \notin trouble' => sources' = Unlinked(old.name)'
        <5> SUFFICES ASSUME "failed" \notin trouble'
                     PROVE  sources' = files' \ Called(files', old.name)
          BY DEF Unlinked
        <5>1. Saved(s) = files \cup {s}
          BY <2>2, <2>4, <3>3, <3>5 DEF Saved, Taken, Called
        <5>2. files \ Called(files, old.name) = files \ {old}
          BY <3>3, UnlinkedRemovesOne DEF IInv, Unlinked
        <5>3. files' \ Called(files', old.name) = (files \ Called(files, old.name)) \cup {s}
          BY <2>2, <3>1, <3>5, <5>1 DEF Called
        <5> QED
          BY <2>4, <3>3, <5>2, <5>3
      <4>4. HalfwayThroughRename'
        BY <4>1, <4>2, <4>3 DEF HalfwayThroughRename, Unlinked
      <4> QED
        BY <1>1, <3>2, <4>1, <4>4 DEF IInv, MemoryIsOnDisk
    <3> QED
      BY <3>4, <3>5
  <2> QED
    BY <2>1, <2>5, <2>6
<1>7. CASE \E old \in sources : Delete(h, old) \/ DeleteFails(h, old)
  <2>1. PICK old \in sources : Delete(h, old) \/ DeleteFails(h, old)
    BY <1>7
  <2>2. CASE DeleteFails(h, old)
    BY <1>1, <1>2, <2>2 DEF DeleteFails, IInv, AlwaysBoots, HalfwayThroughRename, MemoryIsOnDisk
  <2>3. CASE Delete(h, old)
    <3>1. files' = Unlinked(old.name) /\ sources' = sources \ {old}
      BY <2>3 DEF Delete
    <3>2. AlwaysBoots'
      BY <3>1, UnlinkedKeepsNames DEF IInv, AlwaysBoots, UniqueNames
    <3>3. "failed" \notin trouble' => sources' = files'
      BY <1>4, <2>3, <3>1, UnlinkedRemovesOne DEF Delete, IInv
    <3>4. \A g \in Handlers : pc'[g] # "unlink"
      BY <1>2, <2>3 DEF Delete, IInv, TypeOK
    <3> QED
      BY <1>1, <3>2, <3>3, <3>4 DEF IInv, HalfwayThroughRename, MemoryIsOnDisk
  <2> QED
    BY <2>1, <2>2, <2>3
<1> QED
  BY <1>5, <1>6, <1>7 DEF Request

\* The rest of a request touches a file only to finish a rename.
LEMMA ContinueIInv ==
    ASSUME IInv, NEW h \in Handlers, Continue(h) \/ UnlinkFails(h) \/ StartFails(h)
    PROVE  IInv'
<1> USE RegistryAssumption
<1>1. TypeOK' /\ JobsAreKnown' /\ DownIsUnlocked'
  BY ContinueTypes
<1>2. CASE Unlink(h)
  <2>1. files' = Unlinked(job[h].name) /\ sources' = sources /\ trouble' = trouble
    BY <1>2 DEF Unlink
  <2>2. AlwaysBoots'
    BY <2>1, UnlinkedKeepsNames DEF IInv, AlwaysBoots, UniqueNames
  <2>3. "failed" \notin trouble' => sources' = files'
    BY <1>2, <2>1 DEF Unlink, IInv, HalfwayThroughRename
  <2>4. \A g \in Handlers : pc'[g] # "unlink"
    BY <1>1, <1>2 DEF Unlink, TypeOK
  <2> QED
    BY <1>1, <2>2, <2>3, <2>4 DEF IInv, HalfwayThroughRename, MemoryIsOnDisk
<1>3. CASE UnlinkFails(h)
  BY <1>1, <1>3 DEF UnlinkFails, IInv, AlwaysBoots, HalfwayThroughRename, MemoryIsOnDisk
<1>4. CASE Pop(h) \/ Signal(h) \/ Start(h) \/ StartFails(h)
  <2>1. UNCHANGED <<up, lock, sources, files>> /\ trouble \subseteq trouble'
    BY <1>4 DEF Pop, Signal, Start, StartFails
  <2>2. pc[h] # "unlink" /\ pc'[h] # "unlink"
    BY <1>4 DEF Pop, Signal, Start, StartFails, IInv, TypeOK
  <2>3. \A g \in Handlers \ {h} : pc'[g] = pc[g] /\ job'[g] = job[g]
    BY <1>4 DEF Pop, Signal, Start, StartFails, IInv, TypeOK
  <2>4. HalfwayThroughRename'
    BY <2>1, <2>2, <2>3 DEF IInv, HalfwayThroughRename, Unlinked
  <2> QED
    BY <1>1, <2>1, <2>4 DEF IInv, AlwaysBoots, MemoryIsOnDisk
<1> QED
  BY <1>2, <1>3, <1>4 DEF Continue

\* Every step keeps the invariant.
LEMMA NextIInv == IInv /\ [Next]_vars => IInv'
<1> SUFFICES ASSUME IInv, [Next]_vars PROVE IInv'
  OBVIOUS
<1>1. ASSUME NEW h \in Handlers, Request(h) PROVE IInv'
  BY <1>1, RequestIInv
<1>2. ASSUME NEW h \in Handlers, Continue(h) \/ UnlinkFails(h) \/ StartFails(h) PROVE IInv'
  BY <1>2, ContinueIInv
<1>3. CASE Crash
  <2>1. \A h \in Handlers : pc'[h] # "unlink"
    BY <1>3 DEF Crash
  <2> QED
    BY <1>3, <2>1, ProcessTypes DEF Crash, IInv, AlwaysBoots, HalfwayThroughRename, MemoryIsOnDisk
<1>4. CASE Boot
  <2>1. \A h \in Handlers : pc'[h] # "unlink"
    BY <1>4, RegistryAssumption DEF Boot, IInv, TypeOK, DownIsUnlocked
  <2> QED
    BY <1>4, <2>1, ProcessTypes DEF Boot, IInv, AlwaysBoots, HalfwayThroughRename, MemoryIsOnDisk
<1>5. CASE UNCHANGED vars
  BY <1>5 DEF vars, IInv, TypeOK, JobsAreKnown, DownIsUnlocked, AlwaysBoots, HalfwayThroughRename,
              MemoryIsOnDisk, Unlinked, Called
<1> QED
  BY <1>1, <1>2, <1>3, <1>4, <1>5 DEF Next

-----------------------------------------------------------------------------
\* The inductive invariant holds in every state.
THEOREM Invariance == Spec => []IInv
BY InitIInv, NextIInv, PTL DEF Spec

\* Every variable has its type and a handler that renames holds the lock.
THEOREM TypeCorrect == Spec => []TypeOK
<1>1. IInv => TypeOK
  BY DEF IInv
<1> QED
  BY <1>1, Invariance, PTL

\* Whatever fails and whenever the process dies, load_sources accepts the files.
THEOREM Boots == Spec => []AlwaysBoots
<1>1. IInv => AlwaysBoots
  BY DEF IInv
<1> QED
  BY <1>1, Invariance, PTL

\* Unless a write failed, memory and disk agree whenever the lock is free.
THEOREM Agree == Spec => []MemoryIsOnDisk
<1>1. IInv => MemoryIsOnDisk
  BY DEF IInv
<1> QED
  BY <1>1, Invariance, PTL

-----------------------------------------------------------------------------
(* Requests apart leave each source its worker                              *)
(*                                                                         *)
(* While no request has crossed another and nothing has failed, each name  *)
(* is either settled, its source and its worker agreeing, or in the hands  *)
(* of exactly one handler, which knows what is left to be done.            *)

Undisturbed == trouble \cap {"crossed", "failed"} = {}

\* no two handlers work on one name
HandlersApart == \A g, h \in Handlers : g # h => Touched(g) \cap Touched(h) = {}

\* the source of a name, if there is one, has its worker, and nothing else runs
Settled(n) ==
    /\ Called(running, n) = Called(sources, n)
    /\ Taken(n) => workers[n] \in Called(sources, n)
    /\ ~Taken(n) => workers[n] = None

\* a name is settled when no handler works on it
NamesSettled == \A n \in Names : (\A h \in Handlers : n \notin Touched(h)) => Settled(n)

\* of the name that a handler's request leaves, one worker runs until it is told
\* to stop, the one that the handler finds in the dict
OldOnTrack(h) ==
    /\ pc[h] \in {"unlink", "pop"} => Called(running, job[h].name) = {workers[job[h].name]}
    /\ pc[h] = "signal" => /\ Called(running, job[h].name) = {job[h].managed}
                           /\ workers[job[h].name] = None
    /\ pc[h] = "start" => /\ Called(running, job[h].name) = {}
                          /\ workers[job[h].name] = None

\* the list holds the new settings under their name, which has no worker before
\* the handler starts one
NewOnTrack(h) ==
    /\ job[h].new = None \/ job[h].new.name # job[h].name => Called(sources, job[h].name) = {}
    /\ job[h].new # None => Called(sources, job[h].new.name) = {job[h].new}
    /\ job[h].new # None /\ job[h].new.name # job[h].name =>
          Called(running, job[h].new.name) = {} /\ workers[job[h].new.name] = None

JobsOnTrack == \A h \in Handlers : pc[h] # "idle" => OldOnTrack(h) /\ NewOnTrack(h)

\* the dead work on nothing
DownIsIdle == ~up => \A h \in Handlers : pc[h] = "idle"

WorkersInStep == Undisturbed => HandlersApart /\ NamesSettled /\ JobsOnTrack

WInv == IInv /\ DownIsIdle /\ UniqueNames(sources) /\ WorkersInStep

\* A step of one handler that leaves all other names alone leaves the other
\* handlers and the names of none as they were.
LEMMA OthersStayInStep ==
    ASSUME HandlersApart, NamesSettled, JobsOnTrack, JobsAreKnown, NoneAssumption,
           NEW h \in Handlers, NEW T,
           Touched(h) \subseteq T, Touched(h)' \subseteq T,
           \A g \in Handlers \ {h} : /\ Touched(g) \cap T = {}
                                     /\ pc'[g] = pc[g] /\ job'[g] = job[g],
           \A g \in Handlers \ {h} : job[g].new \in Sources \cup {None},
           \A n \in Names \ T : /\ Called(sources', n) = Called(sources, n)
                                /\ Called(running', n) = Called(running, n)
                                /\ workers'[n] = workers[n],
           pc'[h] # "idle" => OldOnTrack(h)' /\ NewOnTrack(h)',
           \A n \in T : n \notin Touched(h)' => Settled(n)'
    PROVE  HandlersApart' /\ NamesSettled' /\ JobsOnTrack'
<1>1. \A g \in Handlers \ {h} : Touched(g)' = Touched(g)
  BY DEF Touched
<1>2. HandlersApart'
  BY <1>1 DEF HandlersApart
<1>3. NamesSettled'
  <2> SUFFICES ASSUME NEW n \in Names, \A g \in Handlers : n \notin Touched(g)'
               PROVE  Settled(n)'
    BY DEF NamesSettled
  <2>1. CASE n \in T
    BY <2>1
  <2>2. CASE n \notin T
    <3>1. \A g \in Handlers : n \notin Touched(g)
      BY <1>1, <2>2
    <3>2. Settled(n)
      BY <3>1 DEF NamesSettled
    <3> QED
      BY <2>2, <3>2 DEF Settled, Taken
  <2> QED
    BY <2>1, <2>2
<1>4. JobsOnTrack'
  <2> SUFFICES ASSUME NEW g \in Handlers, pc'[g] # "idle"
               PROVE  OldOnTrack(g)' /\ NewOnTrack(g)'
    BY DEF JobsOnTrack
  <2>1. CASE g = h
    BY <2>1
  <2>2. CASE g # h
    <3>1. pc'[g] = pc[g] /\ job'[g] = job[g] /\ pc[g] # "idle"
      BY <2>2
    <3>2. OldOnTrack(g) /\ NewOnTrack(g)
      BY <3>1 DEF JobsOnTrack
    <3>3. job[g].name \in Names \ T
      BY <2>2, <3>1 DEF Touched, JobsAreKnown
    <3>4. job[g].new # None => job[g].new.name \in Names \ T
      BY <2>2, <3>1 DEF Touched, Sources
    <3>5. OldOnTrack(g)'
      BY <3>1, <3>2, <3>3 DEF OldOnTrack
    <3>6. NewOnTrack(g)'
      BY <3>1, <3>2, <3>3, <3>4 DEF NewOnTrack
    <3> QED
      BY <3>5, <3>6
  <2> QED
    BY <2>1, <2>2
<1> QED
  BY <1>2, <1>3, <1>4

\* A request that crosses no other begins with settled names.
LEMMA BeginsSettled ==
    ASSUME NamesSettled, NEW h \in Handlers, NEW names \in SUBSET Names,
           pc[h] = "idle", Crossing(h, names) = {}
    PROVE  /\ \A n \in names : Settled(n)
           /\ \A g \in Handlers \ {h} : Touched(g) \cap names = {}
<1>1. Touched(h) = {}
  BY DEF Touched
<1>2. \A g \in Handlers \ {h} : Touched(g) \cap names = {}
  BY DEF Crossing
<1>3. \A n \in names : \A g \in Handlers : n \notin Touched(g)
  BY <1>1, <1>2
<1> QED
  BY <1>2, <1>3 DEF NamesSettled

\* The first step of a request: what it adds or takes away is of settled names.
LEMMA RequestInStep ==
    ASSUME WInv, Undisturbed, Undisturbed', NEW h \in Handlers, Request(h)
    PROVE  HandlersApart' /\ NamesSettled' /\ JobsOnTrack'
<1> USE RegistryAssumption, NoneAssumption
<1>1. /\ HandlersApart /\ NamesSettled /\ JobsOnTrack /\ JobsAreKnown /\ TypeOK
      /\ UniqueNames(sources)
  BY DEF WInv, IInv, WorkersInStep
<1>2. pc[h] = "idle" /\ Touched(h) = {}
  BY DEF Request, Add, AddFails, Update, UpdateFails, Delete, DeleteFails, Enters, Touched
<1>3. \A g \in Handlers : job[g].new \in Sources \cup {None}
  BY <1>1 DEF TypeOK
<1>4. CASE \E name \in Names : Add(h, name) \/ AddFails(h, name)
  <2>1. PICK name \in Names : Add(h, name)
    BY <1>4 DEF AddFails, Undisturbed
  <2>2. PICK s \in Sources : /\ s = Source(name, revs + 1, revs + 1)
                             /\ s.name = name
    BY <2>1, <1>1, NewSourceIsASource DEF Add, Source
  <2>3. /\ sources' = sources \cup {s} /\ running' = running \cup {s}
        /\ workers' = [workers EXCEPT ![name] = s]
        /\ UNCHANGED <<pc, job>> /\ ~Taken(name)
    BY <2>1, <2>2 DEF Add
  <2>4. Crossing(h, {name}) = {}
    BY <2>1 DEF Add, Undisturbed, Crossing
  <2>5. Settled(name) /\ \A g \in Handlers \ {h} : Touched(g) \cap {name} = {}
    BY <1>1, <1>2, <2>4, BeginsSettled
  <2>6. Settled(name)'
    <3>1. Called(sources, name) = {} /\ Called(running, name) = {}
      BY <2>3, <2>5 DEF Taken, Settled
    <3>2. Called(sources', name) = {s} /\ Called(running', name) = {s}
      BY <2>2, <2>3, <3>1 DEF Called
    <3>3. workers'[name] = s
      BY <1>1, <2>3 DEF TypeOK
    <3> QED
      BY <3>2, <3>3 DEF Settled, Taken
  <2>7. Touched(h)' = {}
    BY <1>2, <2>3 DEF Touched
  <2>8. \A n \in Names \ {name} : /\ Called(sources', n) = Called(sources, n)
                                  /\ Called(running', n) = Called(running, n)
                                  /\ workers'[n] = workers[n]
    BY <1>1, <2>2, <2>3 DEF Called, TypeOK
  <2>9. pc'[h] = "idle" /\ \A g \in Handlers \ {h} : pc'[g] = pc[g] /\ job'[g] = job[g]
    BY <1>2, <2>3
  <2> DEFINE T == {name}
  <2>10. Touched(h) \subseteq T /\ Touched(h)' \subseteq T
    BY <1>2, <2>7
  <2>11. \A g \in Handlers \ {h} : Touched(g) \cap T = {}
    BY <2>5
  <2>12. \A n \in Names \ T : /\ Called(sources', n) = Called(sources, n)
                               /\ Called(running', n) = Called(running, n)
                               /\ workers'[n] = workers[n]
    BY <2>8
  <2>13. \A n \in T : Settled(n)'
    BY <2>6
  <2> HIDE DEF T
  <2> QED
    BY <1>1, <1>3, <2>9, <2>10, <2>11, <2>12, <2>13, OthersStayInStep
<1>5. CASE \E old \in sources, name \in Names : Update(h, old, name) \/ UpdateFails(h, old, name)
  <2>1. PICK old \in sources, name \in Names : Update(h, old, name)
    BY <1>5 DEF UpdateFails, Undisturbed
  <2>2. PICK s \in Sources : s = Updated(old, name) /\ s.name = name
    BY <2>1, <1>1, NewSourceIsASource DEF Update, Updated, Source
  <2>3. /\ sources' = (sources \ {old}) \cup {s}
        /\ UNCHANGED <<workers, running>>
        /\ job' = [job EXCEPT ![h] = [name |-> old.name, new |-> s, managed |-> None]]
        /\ name = old.name \/ ~Taken(name)
        /\ pc' = [pc EXCEPT ![h] = "pop"] \/ pc' = [pc EXCEPT ![h] = "unlink"]
    BY <2>1, <2>2 DEF Update
  <2>4. old.name \in Names
    BY <1>1 DEF TypeOK, Sources
  <2> DEFINE T == {old.name, name}
  <2>5. Crossing(h, T) = {}
    BY <2>1 DEF Update, Undisturbed, Crossing
  <2>6. (\A n \in T : Settled(n)) /\ \A g \in Handlers \ {h} : Touched(g) \cap T = {}
    BY <1>1, <1>2, <2>4, <2>5, BeginsSettled
  <2>7. Called(sources, old.name) = {old}
    BY <1>1 DEF UniqueNames, Called
  <2>8. Called(running, old.name) = {old} /\ workers[old.name] = old
    BY <2>6, <2>7 DEF Settled, Taken
  <2>9. name # old.name => /\ Called(sources, name) = {}
                           /\ Called(running, name) = {}
                           /\ workers[name] = None
    BY <2>3, <2>6 DEF Settled, Taken
  <2>10. Called(sources', name) = {s} /\ (name # old.name => Called(sources', old.name) = {})
    BY <2>2, <2>3, <2>7, <2>9 DEF Called
  <2>11. /\ pc'[h] \in {"pop", "unlink"}
         /\ job'[h] = [name |-> old.name, new |-> s, managed |-> None]
         /\ \A g \in Handlers \ {h} : pc'[g] = pc[g] /\ job'[g] = job[g]
    BY <1>1, <2>3 DEF TypeOK
  <2>12. job'[h].name = old.name /\ job'[h].new = s /\ s # None
    BY <2>11
  <2>13. OldOnTrack(h)'
    BY <2>3, <2>8, <2>11, <2>12 DEF OldOnTrack
  <2>14. NewOnTrack(h)'
    BY <2>2, <2>3, <2>9, <2>10, <2>12 DEF NewOnTrack
  <2>15. Touched(h)' = T
    BY <2>2, <2>11, <2>12 DEF Touched
  <2>16. \A n \in Names \ T : /\ Called(sources', n) = Called(sources, n)
                              /\ Called(running', n) = Called(running, n)
                              /\ workers'[n] = workers[n]
    BY <2>2, <2>3 DEF Called
  <2> HIDE DEF T
  <2> QED
    BY <1>1, <1>2, <1>3, <2>6, <2>11, <2>13, <2>14, <2>15, <2>16, OthersStayInStep
<1>6. CASE \E old \in sources : Delete(h, old) \/ DeleteFails(h, old)
  <2>1. PICK old \in sources : Delete(h, old)
    BY <1>6 DEF DeleteFails, Undisturbed
  <2>2. /\ sources' = sources \ {old} /\ UNCHANGED <<workers, running>>
        /\ job' = [job EXCEPT ![h] = [name |-> old.name, new |-> None, managed |-> None]]
        /\ pc' = [pc EXCEPT ![h] = "pop"]
    BY <2>1 DEF Delete
  <2>3. old.name \in Names
    BY <1>1 DEF TypeOK, Sources
  <2>4. Crossing(h, {old.name}) = {}
    BY <2>1 DEF Delete, Undisturbed, Crossing
  <2>5. Settled(old.name) /\ \A g \in Handlers \ {h} : Touched(g) \cap {old.name} = {}
    BY <1>1, <1>2, <2>3, <2>4, BeginsSettled
  <2>6. Called(sources, old.name) = {old}
    BY <1>1 DEF UniqueNames, Called
  <2>7. Called(running, old.name) = {old} /\ workers[old.name] = old
    BY <2>5, <2>6 DEF Settled, Taken
  <2>8. Called(sources', old.name) = {}
    BY <2>2, <2>6 DEF Called
  <2>9. /\ pc'[h] = "pop" /\ job'[h].name = old.name /\ job'[h].new = None
        /\ \A g \in Handlers \ {h} : pc'[g] = pc[g] /\ job'[g] = job[g]
    BY <1>1, <2>2 DEF TypeOK
  <2>10. OldOnTrack(h)' /\ NewOnTrack(h)'
    BY <2>2, <2>7, <2>8, <2>9 DEF OldOnTrack, NewOnTrack
  <2>11. Touched(h)' = {old.name}
    BY <2>9 DEF Touched
  <2>12. \A n \in Names \ {old.name} : /\ Called(sources', n) = Called(sources, n)
                                       /\ Called(running', n) = Called(running, n)
                                       /\ workers'[n] = workers[n]
    BY <2>2 DEF Called
  <2> QED
    BY <1>1, <1>2, <1>3, <2>5, <2>9, <2>10, <2>11, <2>12, OthersStayInStep
<1> QED
  BY <1>4, <1>5, <1>6 DEF Request

\* The rest of a request: the old worker goes, then the new one comes.
LEMMA ContinueInStep ==
    ASSUME WInv, Undisturbed, NEW h \in Handlers, Continue(h)
    PROVE  HandlersApart' /\ NamesSettled' /\ JobsOnTrack'
<1> USE RegistryAssumption, NoneAssumption
<1> DEFINE T == Touched(h)
           old == job[h].name
           new == job[h].new
<1>1. /\ HandlersApart /\ NamesSettled /\ JobsOnTrack /\ JobsAreKnown /\ TypeOK
  BY DEF WInv, IInv, WorkersInStep
<1>2. /\ pc[h] \in {"unlink", "pop", "signal", "start"} /\ sources' = sources
      /\ \A g \in Handlers \ {h} : pc'[g] = pc[g] /\ job'[g] = job[g]
  BY <1>1 DEF Continue, Unlink, Pop, Signal, Start, TypeOK
<1>3. OldOnTrack(h) /\ NewOnTrack(h) /\ old \in Names
  BY <1>1, <1>2 DEF JobsOnTrack, JobsAreKnown
<1>4. \A g \in Handlers : job[g].new \in Sources \cup {None}
  BY <1>1 DEF TypeOK
<1>5. T = {old} \cup (IF new = None THEN {} ELSE {new.name})
  BY <1>2 DEF Touched
<1>6. \A g \in Handlers \ {h} : Touched(g) \cap T = {}
  BY <1>1 DEF HandlersApart
<1>7. CASE Unlink(h) \/ Pop(h)
  <2>1. /\ running' = running
        /\ job'[h].name = old /\ job'[h].new = new
        /\ \A n \in Names \ T : workers'[n] = workers[n]
        /\ new # None /\ new.name # old => workers'[new.name] = workers[new.name]
        /\ pc'[h] # "idle"
    BY <1>1, <1>3, <1>5, <1>7 DEF Unlink, Pop, TypeOK, Sources
  <2>2. OldOnTrack(h)'
    <3>1. CASE Unlink(h)
      BY <1>1, <1>3, <2>1, <3>1 DEF Unlink, OldOnTrack, TypeOK
    <3>2. CASE Pop(h)
      <4>1. /\ pc'[h] = "signal" /\ job'[h].managed = workers[old] /\ workers'[old] = None
            /\ pc[h] = "pop"
        BY <1>1, <1>3, <3>2 DEF Pop, TypeOK
      <4> QED
        BY <1>3, <2>1, <4>1 DEF OldOnTrack
    <3> QED
      BY <1>7, <3>1, <3>2
  <2>3. NewOnTrack(h)'
    BY <1>2, <1>3, <2>1 DEF NewOnTrack
  <2>4. Touched(h)' = T
    BY <1>2, <2>1 DEF Touched
  <2>5. \A n \in Names \ T : /\ Called(sources', n) = Called(sources, n)
                             /\ Called(running', n) = Called(running, n)
    BY <1>2, <2>1
  <2> HIDE DEF T, old, new
  <2> QED
    BY <1>1, <1>2, <1>4, <1>6, <2>1, <2>2, <2>3, <2>4, <2>5, OthersStayInStep DEF T
<1>8. CASE Signal(h)
  <2>1. /\ running' = running \ {job[h].managed} /\ workers' = workers /\ pc[h] = "signal"
    BY <1>8 DEF Signal
  <2>2. Called(running, old) = {job[h].managed} /\ workers[old] = None
    BY <1>3, <2>1 DEF OldOnTrack
  <2>3. Called(running', old) = {} /\ job[h].managed.name = old
    BY <2>1, <2>2 DEF Called
  <2>4. \A n \in Names \ {old} : Called(running', n) = Called(running, n)
    BY <2>1, <2>3 DEF Called
  <2>5. CASE new = None
    <3>1. pc'[h] = "idle"
      BY <1>1, <1>8, <2>5 DEF Signal, TypeOK
    <3>2. T = {old} /\ Touched(h)' = {}
      BY <1>5, <2>5, <3>1 DEF Touched
    <3>3. ASSUME NEW n \in T PROVE Settled(n)'
      <4>1. n = old /\ Called(sources', n) = {}
        BY <1>2, <1>3, <2>5, <3>2 DEF NewOnTrack
      <4> QED
        BY <2>1, <2>2, <2>3, <4>1 DEF Settled, Taken
    <3>4. \A n \in Names \ T : Called(running', n) = Called(running, n)
      BY <2>4, <3>2
    <3> HIDE DEF T, old, new
    <3> QED
      BY <1>1, <1>2, <1>4, <1>6, <2>1, <3>1, <3>2, <3>3, <3>4, OthersStayInStep DEF T
  <2>6. CASE new # None
    <3>1. pc'[h] = "start" /\ job' = job
      BY <1>1, <1>8, <2>6 DEF Signal, TypeOK
    <3>2. Touched(h)' = T
      BY <1>2, <3>1 DEF Touched
    <3>3. OldOnTrack(h)'
      BY <2>1, <2>2, <2>3, <3>1 DEF OldOnTrack
    <3>4. new.name # old => Called(running', new.name) = Called(running, new.name)
      BY <1>4, <2>4, <2>6 DEF Sources
    <3>5. NewOnTrack(h)'
      BY <1>2, <1>3, <2>1, <3>1, <3>4 DEF NewOnTrack
    <3>6. \A n \in Names \ T : Called(running', n) = Called(running, n)
      BY <1>5, <2>4
    <3> HIDE DEF T, old, new
    <3> QED
      BY <1>1, <1>2, <1>4, <1>6, <2>1, <3>1, <3>2, <3>3, <3>5, <3>6, OthersStayInStep DEF T
  <2> QED
    BY <2>5, <2>6
<1>9. CASE Start(h)
  <2>1. /\ pc[h] = "start" /\ pc'[h] = "idle"
        /\ workers' = [workers EXCEPT ![new.name] = new] /\ running' = running \cup {new}
    BY <1>1, <1>9 DEF Start, TypeOK
  <2>2. new \in Sources /\ new # None /\ new.name \in Names
    BY <1>1, <2>1 DEF JobsAreKnown, Sources
  <2>3. /\ Called(running, old) = {} /\ workers[old] = None
        /\ Called(sources', new.name) = {new}
        /\ new.name # old => Called(running, new.name) = {} /\ Called(sources', old) = {}
    BY <1>2, <1>3, <2>1, <2>2 DEF OldOnTrack, NewOnTrack
  <2>4. Called(running', new.name) = {new} /\ workers'[new.name] = new
    BY <1>1, <2>1, <2>2, <2>3 DEF Called, TypeOK
  <2>5. \A n \in Names \ {new.name} : /\ Called(running', n) = Called(running, n)
                                      /\ workers'[n] = workers[n]
    BY <1>1, <2>1, <2>2 DEF Called, TypeOK
  <2>6. T = {old, new.name} /\ Touched(h)' = {}
    BY <1>5, <2>1, <2>2 DEF Touched
  <2>7. ASSUME NEW n \in T, n = new.name PROVE Settled(n)'
    BY <2>3, <2>4, <2>7 DEF Settled, Taken
  <2>8. ASSUME NEW n \in T, n # new.name PROVE Settled(n)'
    <3>1. n = old /\ n \in Names \ {new.name}
      BY <1>3, <2>6, <2>8
    <3> QED
      BY <2>3, <2>5, <2>8, <3>1 DEF Settled, Taken
  <2>9. \A n \in T : Settled(n)'
    BY <2>7, <2>8
  <2>10. \A n \in Names \ T : /\ Called(running', n) = Called(running, n)
                              /\ workers'[n] = workers[n]
    BY <2>5, <2>6
  <2> HIDE DEF T, old, new
  <2> QED
    BY <1>1, <1>2, <1>4, <1>6, <2>1, <2>6, <2>9, <2>10, OthersStayInStep, SMTT(30) DEF T
<1> QED
  BY <1>7, <1>8, <1>9 DEF Continue

\* A name has one source in the list, whatever fails.
LEMMA NamesStayUnique ==
    ASSUME WInv, Next
    PROVE  UniqueNames(sources')
<1>1. UniqueNames(sources) /\ TypeOK /\ AlwaysBoots
  BY DEF WInv, IInv
<1>2. ASSUME NEW h \in Handlers, NEW name \in Names, Add(h, name) \/ AddFails(h, name)
      PROVE  UniqueNames(sources')
  <2>1. sources' = sources \cup {Source(name, revs + 1, revs + 1)} /\ ~Taken(name)
    BY <1>2 DEF Add, AddFails
  <2>2. Source(name, revs + 1, revs + 1).name = name
    BY DEF Source
  <2> QED
    BY <1>1, <2>1, <2>2 DEF UniqueNames, Taken, Called
<1>3. ASSUME NEW h \in Handlers, NEW old \in sources, NEW name \in Names,
             Update(h, old, name) \/ UpdateFails(h, old, name)
      PROVE  UniqueNames(sources')
  <2>1. /\ sources' = (sources \ {old}) \cup {Updated(old, name)}
        /\ name = old.name \/ ~Taken(name)
    BY <1>3 DEF Update, UpdateFails
  <2>2. Updated(old, name).name = name
    BY DEF Updated, Source
  <2> QED
    BY <1>1, <2>1, <2>2 DEF UniqueNames, Taken, Called
<1>4. ASSUME NEW h \in Handlers, NEW old \in sources, Delete(h, old) \/ DeleteFails(h, old)
      PROVE  UniqueNames(sources')
  BY <1>1, <1>4 DEF Delete, DeleteFails, UniqueNames
<1>5. ASSUME NEW h \in Handlers, Continue(h) \/ UnlinkFails(h) \/ StartFails(h)
      PROVE  UniqueNames(sources')
  BY <1>1, <1>5 DEF Continue, Unlink, UnlinkFails, Pop, Signal, Start, StartFails, UniqueNames
<1>6. CASE Crash
  BY <1>6 DEF Crash, UniqueNames
<1>7. CASE Boot
  BY <1>1, <1>7 DEF Boot, AlwaysBoots, UniqueNames
<1> QED
  BY <1>2, <1>3, <1>4, <1>5, <1>6, <1>7 DEF Next, Request

\* With every handler idle, a list that has its workers is in step.
LEMMA IdleInStep ==
    ASSUME \A h \in Handlers : pc[h] = "idle", \A n \in Names : Settled(n)
    PROVE  WorkersInStep
BY DEF WorkersInStep, HandlersApart, NamesSettled, JobsOnTrack, Touched

\* After a boot each source has its worker.
LEMMA BootSettles ==
    ASSUME WInv, Boot, NEW n \in Names
    PROVE  Settled(n)'
<1>1. sources' = files /\ running' = files /\ UniqueNames(files)
  BY DEF Boot
<1>2. workers'[n] = IF Called(files, n) = {} THEN None ELSE CHOOSE s \in files : s.name = n
  BY DEF Boot
<1>3. Called(files, n) # {} => (CHOOSE s \in files : s.name = n) \in Called(files, n)
  BY DEF Called
<1> QED
  BY <1>1, <1>2, <1>3 DEF Settled, Taken

\* Initially there is no source and no worker.
LEMMA InitWInv == Init => WInv
<1> SUFFICES ASSUME Init PROVE WInv
  OBVIOUS
<1>1. IInv
  BY InitIInv
<1>2. DownIsIdle /\ UniqueNames(sources)
  BY DEF Init, DownIsIdle, UniqueNames
<1>3. \A n \in Names : Settled(n)
  BY DEF Init, Settled, Taken, Called
<1>4. WorkersInStep
  BY <1>3, IdleInStep DEF Init
<1> QED
  BY <1>1, <1>2, <1>4 DEF WInv

\* Every step leaves each name settled or in the hands of one handler.
LEMMA NextWInv == WInv /\ [Next]_vars => WInv'
<1> SUFFICES ASSUME WInv, [Next]_vars PROVE WInv'
  OBVIOUS
<1>1. IInv'
  BY NextIInv DEF WInv
<1>2. DownIsIdle'
  <2>1. CASE Next
    <3>1. CASE \E h \in Handlers : Request(h) \/ Continue(h) \/ UnlinkFails(h) \/ StartFails(h)
      <4>1. PICK h \in Handlers : Request(h) \/ Continue(h) \/ UnlinkFails(h) \/ StartFails(h)
        BY <3>1
      <4>2. up' = up /\ (up \/ pc[h] # "idle")
        BY <4>1 DEF Request, Add, AddFails, Update, UpdateFails, Delete, DeleteFails, Enters,
           Continue, Unlink, Pop, Signal, Start, UnlinkFails, StartFails
      <4> QED
        BY <4>2 DEF WInv, DownIsIdle
    <3>2. CASE Crash \/ Boot
      BY <3>2 DEF Crash, Boot, DownIsIdle
    <3> QED
      BY <2>1, <3>1, <3>2 DEF Next
  <2>2. CASE UNCHANGED vars
    BY <2>2 DEF vars, WInv, DownIsIdle
  <2> QED
    BY <2>1, <2>2
<1>3. UniqueNames(sources')
  <2>1. CASE Next
    BY <2>1, NamesStayUnique
  <2>2. CASE UNCHANGED vars
    BY <2>2 DEF vars, WInv, UniqueNames
  <2> QED
    BY <2>1, <2>2
<1>4. WorkersInStep'
  <2>1. ASSUME NEW h \in Handlers, Request(h) PROVE WorkersInStep'
    <3>1. Undisturbed' => Undisturbed
      BY <2>1 DEF Request, Add, AddFails, Update, UpdateFails, Delete, DeleteFails, Undisturbed
    <3> QED
      BY <2>1, <3>1, RequestInStep DEF WorkersInStep
  <2>2. ASSUME NEW h \in Handlers, Continue(h) PROVE WorkersInStep'
    <3>1. Undisturbed' => Undisturbed
      BY <2>2 DEF Continue, Unlink, Pop, Signal, Start, Undisturbed
    <3> QED
      BY <2>2, <3>1, ContinueInStep DEF WorkersInStep
  <2>3. ASSUME NEW h \in Handlers, UnlinkFails(h) \/ StartFails(h) PROVE WorkersInStep'
    BY <2>3 DEF UnlinkFails, StartFails, WorkersInStep, Undisturbed
  <2>4. CASE Crash
    <3>1. \A n \in Names : Settled(n)'
      BY <2>4 DEF Crash, Settled, Taken, Called
    <3>2. \A h \in Handlers : pc'[h] = "idle"
      BY <2>4 DEF Crash
    <3> QED
      BY <3>1, <3>2 DEF WorkersInStep, HandlersApart, NamesSettled, JobsOnTrack, Touched
  <2>5. CASE Boot
    <3>1. \A n \in Names : Settled(n)'
      BY <2>5, BootSettles
    <3>2. \A h \in Handlers : pc'[h] = "idle"
      BY <2>5 DEF Boot, WInv, DownIsIdle
    <3> QED
      BY <3>1, <3>2 DEF WorkersInStep, HandlersApart, NamesSettled, JobsOnTrack, Touched
  <2>6. CASE UNCHANGED vars
    <3>1. /\ \A h \in Handlers : /\ Touched(h)' = Touched(h)
                                 /\ OldOnTrack(h)' = OldOnTrack(h)
                                 /\ NewOnTrack(h)' = NewOnTrack(h)
          /\ \A n \in Names : Settled(n)' = Settled(n)
      BY <2>6 DEF vars, Touched, Settled, Taken, OldOnTrack, NewOnTrack
    <3>2. UNCHANGED <<trouble, pc>>
      BY <2>6 DEF vars
    <3> QED
      BY <3>1, <3>2 DEF WInv, WorkersInStep, Undisturbed, HandlersApart, NamesSettled, JobsOnTrack
  <2> QED
    BY <2>1, <2>2, <2>3, <2>4, <2>5, <2>6 DEF Next
<1> QED
  BY <1>1, <1>2, <1>3, <1>4 DEF WInv

\* Each name is settled or in the hands of one handler, in every state.
LEMMA WorkersInvariant == Spec => []WInv
BY InitWInv, NextWInv, PTL DEF Spec

\* Unless requests crossed or something failed, once the handlers are done each
\* source has its worker and nothing else runs.
THEOREM ApartStayInSync == Spec => []ApartInSync
<1>1. WInv => ApartInSync
  <2> SUFFICES ASSUME WInv, Quiet, Undisturbed PROVE Synced
    BY DEF ApartInSync, Undisturbed
  <2>1. \A n \in Names : Settled(n)
    BY DEF WInv, WorkersInStep, NamesSettled, Quiet, Touched
  <2>2. \A s \in running \cup sources : s.name \in Names
    BY DEF WInv, IInv, TypeOK, Sources
  <2>3. running = sources
    BY <2>1, <2>2 DEF Settled, Called
  <2> QED
    BY <2>1, <2>3 DEF Settled, Synced
<1> QED
  BY WorkersInvariant, <1>1, PTL

-----------------------------------------------------------------------------
(* One worker to a source                                                   *)
(*                                                                         *)
(* A source and a worker of one id are the same settings, unless a handler *)
(* is about to stop the worker and start another for the source.           *)

\* no id is in use that has not been given yet
IdsAreOld ==
    /\ \A s \in files \cup sources \cup running : s.id <= revs
    /\ \A h \in Handlers : job[h].new # None => job[h].new.id <= revs

\* handler h will stop w and start s
PassesOn(h, w, s) ==
    pc[h] \in {"unlink", "pop", "signal"} /\ job[h].name = w.name /\ job[h].new = s

IdsInStep ==
    trouble = {} =>
        /\ UniqueIds(sources)
        /\ UniqueIds(running)
        /\ \A w \in running, s \in sources :
              w.id = s.id => w = s \/ \E h \in Handlers : PassesOn(h, w, s)

OInv == WInv /\ IdsAreOld /\ IdsInStep

\* A step with no new ids gives none too early.
LEMMA IdsStayOld ==
    ASSUME OInv, [Next]_vars
    PROVE  IdsAreOld'
<1> USE RegistryAssumption, NoneAssumption
<1>1. TypeOK /\ IdsAreOld /\ JobsAreKnown
  BY DEF OInv, WInv, IInv
<1>2. /\ revs \in Nat
      /\ \A s \in files \cup sources \cup running : s.id \in Nat /\ s.id <= revs
      /\ \A h \in Handlers : job[h].new # None => job[h].new.id \in Nat /\ job[h].new.id <= revs
  BY <1>1 DEF IdsAreOld, TypeOK, Sources
<1>3. ASSUME NEW h \in Handlers, NEW name \in Names, Add(h, name) \/ AddFails(h, name)
      PROVE  IdsAreOld'
  <2>1. PICK s \in Sources : s = Source(name, revs + 1, revs + 1) /\ s.id = revs + 1
    BY <1>3, <1>1, NewSourceIsASource DEF Add, AddFails, Source
  <2>2. /\ sources' = sources \cup {s} /\ files' \subseteq files \cup {s}
        /\ running' \subseteq running \cup {s} /\ revs' = revs + 1 /\ job' = job
    BY <1>3, <2>1 DEF Add, AddFails, NewRev, Saved
  <2>3. \A t \in files' \cup sources' \cup running' : t.id <= revs'
    BY <1>2, <2>1, <2>2
  <2>4. \A g \in Handlers : job[g].new # None => job[g].new.id <= revs'
    BY <1>2, <2>2
  <2> QED
    BY <2>2, <2>3, <2>4 DEF IdsAreOld
<1>4. ASSUME NEW h \in Handlers, NEW old \in sources, NEW name \in Names,
             Update(h, old, name) \/ UpdateFails(h, old, name)
      PROVE  IdsAreOld'
  <2>1. PICK s \in Sources : s = Updated(old, name) /\ s.id = old.id
    BY <1>4, <1>1, NewSourceIsASource DEF Update, UpdateFails, Updated, Source
  <2>2. /\ sources' = (sources \ {old}) \cup {s} /\ files' \subseteq files \cup {s}
        /\ running' = running /\ revs' = revs + 1
    BY <1>4, <2>1 DEF Update, UpdateFails, NewRev, Saved
  <2>3. \A g \in Handlers : job'[g].new = job[g].new \/ job'[g].new = s
    BY <1>1, <1>4, <2>1 DEF Update, UpdateFails, TypeOK
  <2>4. \A t \in files' \cup sources' \cup running' : t.id <= revs'
    BY <1>2, <2>1, <2>2
  <2>5. \A g \in Handlers : job'[g].new # None => job'[g].new.id <= revs'
    BY <1>2, <2>1, <2>2, <2>3
  <2> QED
    BY <2>4, <2>5 DEF IdsAreOld
<1>5. ASSUME /\ files' \subseteq files /\ sources' \subseteq sources \cup files
             /\ running' \subseteq running \cup files \cup {job[h].new : h \in {g \in Handlers : pc[g] = "start"}}
             /\ revs' = revs
             /\ \A g \in Handlers : job'[g].new \in {job[g].new, None}
      PROVE  IdsAreOld'
  <2>1. \A g \in Handlers : pc[g] = "start" => job[g].new # None
    BY <1>1 DEF JobsAreKnown
  <2>2. \A t \in files' \cup sources' \cup running' : t.id <= revs'
    BY <1>2, <1>5, <2>1
  <2>3. \A g \in Handlers : job'[g].new # None => job'[g].new.id <= revs'
    BY <1>2, <1>5
  <2> QED
    BY <2>2, <2>3 DEF IdsAreOld
<1>6. ASSUME NEW h \in Handlers, NEW old \in sources, Delete(h, old) \/ DeleteFails(h, old)
      PROVE  IdsAreOld'
  BY <1>1, <1>5, <1>6 DEF Delete, DeleteFails, Unlinked, TypeOK
<1>7. ASSUME NEW h \in Handlers, Continue(h) \/ UnlinkFails(h) \/ StartFails(h)
      PROVE  IdsAreOld'
  <2>1. /\ files' \subseteq files /\ sources' = sources /\ revs' = revs
    BY <1>7 DEF Continue, Unlink, Pop, Signal, Start, UnlinkFails, StartFails, Unlinked
  <2>2. \A g \in Handlers : job'[g].new \in {job[g].new, None}
    BY <1>1, <1>7 DEF Continue, Unlink, Pop, Signal, Start, UnlinkFails, StartFails, Idle, TypeOK
  <2>3. running' \subseteq running \cup {job[g].new : g \in {k \in Handlers : pc[k] = "start"}}
    BY <1>7 DEF Continue, Unlink, Pop, Signal, Start, UnlinkFails, StartFails
  <2> QED
    BY <1>5, <2>1, <2>2, <2>3
<1>8. CASE Crash \/ Boot \/ UNCHANGED vars
  <2>1. /\ files' = files /\ sources' \subseteq sources \cup files
        /\ running' \subseteq running \cup files /\ revs' = revs
    BY <1>8 DEF Crash, Boot, vars
  <2>2. \A g \in Handlers : job'[g].new \in {job[g].new, None}
    BY <1>8 DEF Crash, Boot, vars, Idle
  <2> QED
    BY <1>5, <2>1, <2>2
<1> QED
  BY <1>3, <1>4, <1>6, <1>7, <1>8 DEF Next, Request

\* A request's first step: an add has an id of its own, an update hands its id on.
LEMMA RequestIds ==
    ASSUME OInv, NEW h \in Handlers, Request(h)
    PROVE  IdsInStep'
<1> USE RegistryAssumption, NoneAssumption
<1> SUFFICES ASSUME trouble' = {} PROVE IdsInStep'
  BY DEF IdsInStep
<1>1. /\ TypeOK /\ HandlersApart /\ NamesSettled /\ UniqueNames(sources)
      /\ UniqueIds(sources) /\ UniqueIds(running)
      /\ \A w \in running, s \in sources :
            w.id = s.id => w = s \/ \E g \in Handlers : PassesOn(g, w, s)
  <2>1. trouble = {}
    BY DEF Request, Add, AddFails, Update, UpdateFails, Delete, DeleteFails
  <2> QED
    BY <2>1 DEF OInv, WInv, IInv, WorkersInStep, Undisturbed, IdsInStep
<1>2. /\ revs \in Nat
      /\ \A s \in sources \cup running : s.id \in Nat /\ s.id <= revs
  BY <1>1 DEF OInv, IdsAreOld, TypeOK, Sources
<1>3. pc[h] = "idle"
  BY DEF Request, Add, AddFails, Update, UpdateFails, Delete, DeleteFails, Enters
<1>4. CASE \E name \in Names : Add(h, name) \/ AddFails(h, name)
  <2>1. PICK name \in Names : Add(h, name)
    BY <1>4 DEF AddFails
  <2>2. PICK s \in Sources : s = Source(name, revs + 1, revs + 1) /\ s.id = revs + 1
    BY <2>1, <1>1, NewSourceIsASource DEF Add, Source
  <2>3. /\ sources' = sources \cup {s} /\ running' = running \cup {s}
        /\ UNCHANGED <<pc, job>>
    BY <2>1, <2>2 DEF Add
  <2>4. \A t \in sources \cup running : t.id # s.id
    BY <1>2, <2>2
  <2>5. UniqueIds(sources') /\ UniqueIds(running')
    BY <1>1, <2>3, <2>4 DEF UniqueIds
  <2>6. ASSUME NEW w \in running', NEW t \in sources', w.id = t.id
        PROVE  w = t \/ \E g \in Handlers : PassesOn(g, w, t)'
    <3>1. (w = s /\ t = s) \/ (w \in running /\ t \in sources)
      BY <2>3, <2>4, <2>6
    <3> QED
      BY <1>1, <2>3, <2>6, <3>1 DEF PassesOn
  <2> QED
    BY <2>5, <2>6 DEF IdsInStep
<1>5. CASE \E old \in sources, name \in Names : Update(h, old, name) \/ UpdateFails(h, old, name)
  <2>1. PICK old \in sources, name \in Names : Update(h, old, name)
    BY <1>5 DEF UpdateFails
  <2>2. PICK s \in Sources : s = Updated(old, name) /\ s.id = old.id
    BY <2>1, <1>1, NewSourceIsASource DEF Update, Updated, Source
  <2>3. /\ sources' = (sources \ {old}) \cup {s} /\ running' = running
        /\ job' = [job EXCEPT ![h] = [name |-> old.name, new |-> s, managed |-> None]]
        /\ pc' = [pc EXCEPT ![h] = "pop"] \/ pc' = [pc EXCEPT ![h] = "unlink"]
    BY <2>1, <2>2 DEF Update
  <2>4. /\ pc'[h] \in {"pop", "unlink"} /\ job'[h].name = old.name /\ job'[h].new = s
        /\ \A g \in Handlers \ {h} : pc'[g] = pc[g] /\ job'[g] = job[g]
    BY <1>1, <2>3 DEF TypeOK
  <2>5. \A g \in Handlers \ {h} : old.name \notin Touched(g)
    BY <2>1 DEF Update, Crossing
  <2>6. ASSUME NEW w \in running, w.id = old.id PROVE w = old
    <3>1. ASSUME NEW g \in Handlers PROVE ~PassesOn(g, w, old)
      <4>1. old \in Sources /\ old # None
        BY <2>1, NoneAssumption DEF OInv, WInv, IInv, TypeOK, Sources
      <4>2. CASE g = h
        BY <1>3, <4>2 DEF PassesOn
      <4>3. CASE g # h
        <5>1. old.name \notin Touched(g)
          BY <2>5, <4>3
        <5> QED
          BY <4>1, <5>1 DEF PassesOn, Touched
      <4> QED
        BY <4>2, <4>3
    <3> QED
      BY <1>1, <2>6, <3>1
  <2>7. UniqueIds(sources') /\ UniqueIds(running')
    BY <1>1, <2>2, <2>3 DEF UniqueIds
  <2>8. ASSUME NEW w \in running', NEW t \in sources', w.id = t.id
        PROVE  w = t \/ \E g \in Handlers : PassesOn(g, w, t)'
    <3>1. CASE t = s
      <4>1. w = old
        BY <2>2, <2>3, <2>6, <2>8, <3>1
      <4>2. PassesOn(h, w, t)'
        BY <2>4, <3>1, <4>1 DEF PassesOn
      <4> QED
        BY <4>2
    <3>2. CASE t # s
      <4>1. w \in running /\ t \in sources
        BY <2>3, <2>8, <3>2
      <4>2. w = t \/ \E g \in Handlers : g # h /\ PassesOn(g, w, t)
        BY <1>1, <1>3, <2>8, <4>1 DEF PassesOn
      <4> QED
        BY <2>4, <4>2 DEF PassesOn
    <3> QED
      BY <3>1, <3>2
  <2> QED
    BY <2>7, <2>8 DEF IdsInStep
<1>6. CASE \E old \in sources : Delete(h, old) \/ DeleteFails(h, old)
  <2>1. PICK old \in sources : Delete(h, old)
    BY <1>6 DEF DeleteFails
  <2>2. /\ sources' \subseteq sources /\ running' = running
        /\ \A g \in Handlers \ {h} : pc'[g] = pc[g] /\ job'[g] = job[g]
    BY <1>1, <2>1 DEF Delete, TypeOK
  <2>3. UniqueIds(sources') /\ UniqueIds(running')
    BY <1>1, <2>2 DEF UniqueIds
  <2>4. ASSUME NEW w \in running', NEW t \in sources', w.id = t.id
        PROVE  w = t \/ \E g \in Handlers : PassesOn(g, w, t)'
    <3>1. w = t \/ \E g \in Handlers : g # h /\ PassesOn(g, w, t)
      BY <1>1, <1>3, <2>2, <2>4 DEF PassesOn
    <3> QED
      BY <2>2, <3>1 DEF PassesOn
  <2> QED
    BY <2>3, <2>4 DEF IdsInStep
<1> QED
  BY <1>4, <1>5, <1>6 DEF Request

\* The rest of a request: the worker that has the id stops before the next starts.
LEMMA ContinueIds ==
    ASSUME OInv, NEW h \in Handlers, Continue(h)
    PROVE  IdsInStep'
<1> USE RegistryAssumption, NoneAssumption
<1> SUFFICES ASSUME trouble' = {} PROVE IdsInStep'
  BY DEF IdsInStep
<1>1. /\ TypeOK /\ HandlersApart /\ JobsOnTrack /\ JobsAreKnown
      /\ UniqueIds(sources) /\ UniqueIds(running)
      /\ \A w \in running, s \in sources :
            w.id = s.id => w = s \/ \E g \in Handlers : PassesOn(g, w, s)
  <2>1. trouble = {}
    BY DEF Continue, Unlink, Pop, Signal, Start
  <2> QED
    BY <2>1 DEF OInv, WInv, IInv, WorkersInStep, Undisturbed, IdsInStep
<1>2. /\ pc[h] \in {"unlink", "pop", "signal", "start"} /\ sources' = sources
      /\ \A g \in Handlers \ {h} : pc'[g] = pc[g] /\ job'[g] = job[g]
  BY <1>1 DEF Continue, Unlink, Pop, Signal, Start, TypeOK
<1>3. OldOnTrack(h) /\ NewOnTrack(h) /\ job[h].name \in Names
  BY <1>1, <1>2 DEF JobsOnTrack, JobsAreKnown
<1>4. CASE Unlink(h) \/ Pop(h)
  <2>1. /\ running' = running /\ pc[h] \in {"unlink", "pop"} /\ pc'[h] \in {"pop", "signal"}
        /\ job'[h].name = job[h].name /\ job'[h].new = job[h].new
    BY <1>1, <1>4 DEF Unlink, Pop, TypeOK
  <2>2. \A g \in Handlers, w \in running, s \in sources : PassesOn(g, w, s) => PassesOn(g, w, s)'
    BY <1>2, <2>1 DEF PassesOn
  <2> QED
    BY <1>1, <1>2, <2>1, <2>2 DEF IdsInStep, UniqueIds
<1>5. CASE Signal(h)
  <2>1. running' = running \ {job[h].managed} /\ Called(running, job[h].name) = {job[h].managed}
    BY <1>3, <1>5 DEF Signal, OldOnTrack
  <2>2. ASSUME NEW w \in running', NEW s \in sources, w.id = s.id
        PROVE  w = s \/ \E g \in Handlers : PassesOn(g, w, s)'
    <3>1. w \in running /\ w.name # job[h].name
      BY <2>1 DEF Called
    <3>2. w = s \/ \E g \in Handlers : g # h /\ PassesOn(g, w, s)
      BY <1>1, <2>2, <3>1 DEF PassesOn
    <3> QED
      BY <1>2, <3>2 DEF PassesOn
  <2> QED
    BY <1>1, <1>2, <2>1, <2>2 DEF IdsInStep, UniqueIds
<1>6. CASE Start(h)
  <2>1. PICK new \in Sources : new = job[h].new /\ new # None
    BY <1>1, <1>6 DEF Start, JobsAreKnown
  <2>2. running' = running \cup {new} /\ pc[h] = "start" /\ new \in sources
    BY <1>3, <1>6, <2>1 DEF Start, NewOnTrack, Called
  <2>3. \A g \in Handlers \ {h} : job[g].new = new => pc[g] = "idle"
    BY <1>1, <1>2, <2>1, ZenonT(30) DEF HandlersApart, Touched
  <2>4. ASSUME NEW w \in running, w.id = new.id PROVE w = new
    BY <1>1, <2>2, <2>3, <2>4 DEF PassesOn
  <2>5. UniqueIds(running')
    BY <1>1, <2>2, <2>4 DEF UniqueIds
  <2>6. ASSUME NEW w \in running', NEW s \in sources, w.id = s.id
        PROVE  w = s \/ \E g \in Handlers : PassesOn(g, w, s)'
    <3>1. CASE w = new
      BY <1>1, <2>2, <2>6, <3>1 DEF UniqueIds
    <3>2. CASE w \in running
      <4>1. w = s \/ \E g \in Handlers : g # h /\ PassesOn(g, w, s)
        BY <1>1, <2>2, <2>6, <3>2 DEF PassesOn
      <4> QED
        BY <1>2, <4>1 DEF PassesOn
    <3> QED
      BY <2>2, <3>1, <3>2
  <2> QED
    BY <1>1, <1>2, <2>5, <2>6 DEF IdsInStep, UniqueIds
<1> QED
  BY <1>4, <1>5, <1>6 DEF Continue

\* Initially no id is in use.
LEMMA InitOInv == Init => OInv
<1> SUFFICES ASSUME Init PROVE OInv
  OBVIOUS
<1>1. WInv
  BY InitWInv
<1>2. IdsAreOld /\ IdsInStep
  BY DEF Init, Idle, IdsAreOld, IdsInStep, UniqueIds
<1> QED
  BY <1>1, <1>2 DEF OInv

\* Every step keeps ids apart.
LEMMA NextOInv == OInv /\ [Next]_vars => OInv'
<1> SUFFICES ASSUME OInv, [Next]_vars PROVE OInv'
  OBVIOUS
<1>1. WInv'
  BY NextWInv DEF OInv
<1>2. IdsAreOld'
  BY IdsStayOld
<1>3. IdsInStep'
  <2>1. ASSUME NEW h \in Handlers, UnlinkFails(h) \/ StartFails(h) PROVE IdsInStep'
    BY <2>1 DEF UnlinkFails, StartFails, IdsInStep
  <2>2. CASE Crash
    BY <2>2 DEF Crash, IdsInStep, UniqueIds
  <2>3. CASE Boot
    BY <2>3 DEF Boot, IdsInStep, UniqueIds
  <2>4. CASE UNCHANGED vars
    <3>1. UNCHANGED <<trouble, sources, running>> /\ UNCHANGED <<pc, job>>
      BY <2>4 DEF vars
    <3> QED
      BY <3>1 DEF OInv, IdsInStep, UniqueIds, PassesOn
  <2> QED
    BY <2>1, <2>2, <2>3, <2>4, RequestIds, ContinueIds DEF Next
<1> QED
  BY <1>1, <1>2, <1>3 DEF OInv

\* A source never has two workers that nobody has told to stop, unless requests
\* crossed, something failed or a rename was cut in two by the process's end.
THEOREM OneWorkerEach == Spec => []OneWorkerPerSource
<1>1. OInv => OneWorkerPerSource
  BY DEF OInv, IdsInStep, OneWorkerPerSource
<1> QED
  BY InitOInv, NextOInv, <1>1, PTL DEF Spec

=============================================================================
