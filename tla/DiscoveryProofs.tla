--------------------------- MODULE DiscoveryProofs ---------------------------
(***************************************************************************)
(* For any fields, values, environments, sources, threads and numbers of   *)
(* changes: settings hold, what only the environment says stays out of the *)
(* file, and Home Assistant has the entities of the sources there are.     *)
(*                                                                         *)
(* SettingsHold speaks of a running process and is not inductive: the next *)
(* start reads the file, so the file must say what is wanted as well, but  *)
(* for a save that failed (FileHolds).  EnvStaysOut rests on memory        *)
(* holding, for the fields the environment leaves alone, values that a     *)
(* user gave (MemoryIsAllowed): these are what a save writes.              *)
(*                                                                         *)
(* The entities come in three parts, each with its own invariant: TInv for *)
(* the types, MInv for EntitiesMatch and RInv for EntitiesReturn.  The     *)
(* last two tie every topic to a message that will put it right.           *)
(***************************************************************************)
EXTENDS Discovery, FiniteSetTheorems, SequenceTheorems, TLAPS

\* each of the three has fields only
ConfigTypes ==
    /\ DOMAIN settings = Fields
    /\ DOMAIN wanted = Fields
    /\ DOMAIN file \in SUBSET Fields

\* a process that is down has nothing left to save
DownIsSaved == ~up => unsaved = {}

\* the file says what is wanted of every setting whose save did not fail
FileHolds ==
    \A f \in Fields \ (lost \cup unsaved) : Over(file, Default)[f] = wanted[f]

\* what a user gave is a value there is
MemoryIsAllowed == \A f \in Fields \ DOMAIN env : settings[f] \in Allowed[f]

IInv ==
    /\ ConfigTypes
    /\ DownIsSaved
    /\ FileHolds
    /\ SettingsHold
    /\ MemoryIsAllowed
    /\ EnvStaysOut

\* The value of every setting that is built.
LEMMA BuiltIs ==
    ASSUME NEW raw, NEW e, NEW f \in Fields
    PROVE  BuiltIn(raw, e)[f] = IF f \in DOMAIN e THEN e[f]
                                ELSE IF f \in DOMAIN raw THEN raw[f] ELSE Default[f]
BY ConfigAssumption DEF BuiltIn, Overridden, Over

\* Initially memory is what the file and the environment say.
LEMMA InitIInv == Init => IInv
<1> SUFFICES ASSUME ConfigInit PROVE IInv
  BY DEF Init
<1>1. ConfigTypes
  BY ConfigAssumption DEF ConfigInit, ConfigTypes, Built, BuiltIn
<1>2. MemoryIsAllowed
  BY ConfigAssumption, BuiltIs DEF ConfigInit, MemoryIsAllowed, Built
<1> QED
  BY <1>1, <1>2, ConfigAssumption DEF IInv, ConfigInit, DownIsSaved, FileHolds, SettingsHold, EnvStaysOut, Over

\* A change names fields there are.
LEMMA RawIs == \A raw \in Raw : /\ DOMAIN raw \in SUBSET Fields
                                /\ \A f \in DOMAIN raw : raw[f] \in Allowed[f]
<1> SUFFICES ASSUME NEW raw \in Raw
             PROVE  DOMAIN raw \in SUBSET Fields /\ \A f \in DOMAIN raw : raw[f] \in Allowed[f]
  OBVIOUS
<1>1. PICK f \in Fields : raw \in [{f} -> Allowed[f]]
  BY DEF Raw
<1> QED
  BY <1>1

\* A change of the settings in memory: what the page sends is allowed, and what it
\* does not send stays.
LEMMA MergedIs ==
    ASSUME IInv, up, NEW raw \in Raw
    PROVE  /\ DOMAIN Merged(raw) = Fields
           /\ DOMAIN raw \in SUBSET Fields
           /\ \A f \in Fields \ DOMAIN env : Merged(raw)[f] \in Allowed[f]
           /\ \A f \in Fields \ (lost \ DOMAIN raw) : Merged(raw)[f] = Over(env, Over(raw, wanted))[f]
<1>1. DOMAIN raw \in SUBSET Fields
  BY RawIs
<1>2. \A f \in Fields : Merged(raw)[f] = IF f \in DOMAIN env THEN env[f]
                                         ELSE IF f \in DOMAIN raw THEN raw[f] ELSE settings[f]
  BY <1>1, BuiltIs DEF Merged, Built, Over, IInv, ConfigTypes
<1>3. DOMAIN Merged(raw) = Fields
  BY DEF Merged, Built, BuiltIn
<1> QED
  BY <1>1, <1>2, <1>3, RawIs DEF Over, IInv, ConfigTypes, SettingsHold, MemoryIsAllowed

\* A save writes the value of every setting that is not hidden, or leaves it out as
\* its default.
LEMMA SetMqttKeeps ==
    ASSUME IInv, NEW raw \in Raw, SetMqtt(raw)
    PROVE  IInv'
<1>1. /\ DOMAIN settings' = Fields
      /\ DOMAIN raw \in SUBSET Fields
      /\ \A f \in Fields \ DOMAIN env : settings'[f] \in Allowed[f]
      /\ \A f \in Fields \ (lost \ DOMAIN raw) : settings'[f] = Over(env, wanted')[f]
      /\ env' = env
  BY MergedIs DEF SetMqtt
<1>2. /\ DOMAIN file' = {f \in Fields \ DOMAIN env : settings'[f] # Default[f]}
      /\ \A f \in DOMAIN file' : file'[f] = settings'[f]
  BY DEF SetMqtt, Dumped, Persisted
<1>3. DOMAIN wanted' = Fields
  BY <1>1 DEF SetMqtt, Over, IInv, ConfigTypes
<1>4. ASSUME NEW f \in Fields \ lost'
      PROVE  /\ settings'[f] = Over(env', wanted')[f]
             /\ Over(file', Default)[f] = wanted'[f]
  <2>1. f \in Fields \ (lost \ DOMAIN raw) /\ (f \in DOMAIN env => wanted'[f] = Default[f])
    BY <1>4 DEF SetMqtt
  <2>2. settings'[f] = Over(env', wanted')[f]
    BY <1>1, <2>1
  <2>3. settings'[f] = IF f \in DOMAIN env THEN env[f] ELSE wanted'[f]
    BY <1>1, <1>3, <2>2 DEF Over
  <2>4. Over(file', Default)[f] = IF f \in DOMAIN file' THEN file'[f] ELSE Default[f]
    BY ConfigAssumption DEF Over
  <2> QED
    BY <1>2, <2>1, <2>2, <2>3, <2>4
<1> QED
  BY <1>1, <1>2, <1>3, <1>4
     DEF IInv, ConfigTypes, DownIsSaved, FileHolds, SettingsHold, MemoryIsAllowed, EnvStaysOut, SetMqtt

\* A save that fails leaves the file as it was, with values of before.
LEMMA SetMqttFailsKeeps ==
    ASSUME IInv, NEW raw \in Raw, SetMqttFails(raw)
    PROVE  IInv'
<1>1. /\ DOMAIN settings' = Fields
      /\ DOMAIN raw \in SUBSET Fields
      /\ \A f \in Fields \ DOMAIN env : settings'[f] \in Allowed[f]
      /\ \A f \in Fields \ lost' : settings'[f] = Over(env, wanted')[f]
      /\ env' = env
  BY MergedIs DEF SetMqttFails
<1>2. DOMAIN wanted' = Fields
  BY <1>1 DEF SetMqttFails, Over, IInv, ConfigTypes
<1>3. ASSUME NEW f \in Fields \ (lost' \cup unsaved')
      PROVE  Over(file', Default)[f] = wanted'[f]
  <2>1. f \notin DOMAIN raw /\ f \notin lost /\ f \notin unsaved
    BY <1>3 DEF SetMqttFails
  <2>2. wanted'[f] = wanted[f]
    BY <1>1, <2>1 DEF SetMqttFails, Over, IInv, ConfigTypes
  <2> QED
    BY <2>1, <2>2 DEF SetMqttFails, IInv, FileHolds
<1> QED
  BY <1>1, <1>2, <1>3
     DEF IInv, ConfigTypes, DownIsSaved, FileHolds, SettingsHold, MemoryIsAllowed, EnvStaysOut,
         SetMqttFails

\* What a person writes into the file is wanted.
LEMMA EditFileKeeps ==
    ASSUME IInv, NEW raw \in Raw, EditFile(raw)
    PROVE  IInv'
<1>1. DOMAIN raw \in SUBSET Fields
  BY RawIs
<1>2. /\ DOMAIN wanted' = Fields
      /\ DOMAIN file' = DOMAIN raw \cup DOMAIN file
      /\ \A f \in DOMAIN file' : file'[f] = IF f \in DOMAIN raw THEN raw[f] ELSE file[f]
      /\ \A f \in Fields : wanted'[f] = IF f \in DOMAIN raw THEN raw[f] ELSE wanted[f]
  BY <1>1 DEF EditFile, Over, IInv, ConfigTypes
<1>3. FileHolds'
  BY <1>1, <1>2, ConfigAssumption DEF EditFile, Over, IInv, ConfigTypes, FileHolds, DownIsSaved
<1>4. EnvStaysOut'
  BY <1>2, RawIs DEF EditFile, IInv, EnvStaysOut
<1> QED
  BY <1>1, <1>2, <1>3, <1>4
     DEF IInv, ConfigTypes, DownIsSaved, SettingsHold, MemoryIsAllowed, EditFile

\* A start reads what is wanted.
LEMMA LoadKeeps ==
    ASSUME IInv, Load
    PROVE  IInv'
<1>1. DOMAIN settings' = Fields
  BY DEF Load, BuiltIn
<1>2. \A f \in Fields : settings'[f] = IF f \in DOMAIN env' THEN env'[f]
                                       ELSE IF f \in DOMAIN file THEN file[f] ELSE Default[f]
  BY BuiltIs DEF Load
<1>3. \A f \in Fields \ lost : (IF f \in DOMAIN file THEN file[f] ELSE Default[f]) = wanted[f]
  BY ConfigAssumption DEF Load, IInv, DownIsSaved, FileHolds, Over
<1>4. SettingsHold'
  BY <1>2, <1>3 DEF Load, SettingsHold, Over, IInv, ConfigTypes
<1>5. MemoryIsAllowed'
  BY <1>2, ConfigAssumption DEF MemoryIsAllowed, IInv, EnvStaysOut
<1> QED
  BY <1>1, <1>4, <1>5 DEF IInv, ConfigTypes, DownIsSaved, FileHolds, EnvStaysOut, Load

\* An end of the process forgets what was not saved.
LEMMA ExitKeeps ==
    ASSUME IInv, Exit
    PROVE  IInv'
BY DEF Exit, IInv, ConfigTypes, DownIsSaved, FileHolds, SettingsHold, MemoryIsAllowed, EnvStaysOut

\* Every step keeps the invariant; those that are no change of settings and no start or
\* end of the process leave settings and file alone.
LEMMA NextIInv == IInv /\ [Next]_vars => IInv'
<1> SUFFICES ASSUME IInv, [Next]_vars PROVE IInv'
  OBVIOUS
<1>1. CASE UNCHANGED configVars
  BY <1>1 DEF configVars, IInv, ConfigTypes, DownIsSaved, FileHolds, SettingsHold, MemoryIsAllowed,
              EnvStaysOut
<1>2. ASSUME NEW t \in Threads,
             \/ Skip(t) \/ Send(t) \/ SendInVain(t) \/ Raise(t) \/ Reconfigure(t) \/ Connect(t)
             \/ \E id \in Ids : AddSource(t, id) \/ UpdateSource(t, id) \/ DeleteSource(t, id)
      PROVE  UNCHANGED configVars
  BY <1>2 DEF Skip, Send, SendInVain, Raise, Reconfigure, Connect, AddSource, UpdateSource, DeleteSource
<1>3. ASSUME NEW raw \in Raw, NEW t \in Threads, UpdateMqtt(t, raw)
      PROVE  IInv'
  BY <1>3, SetMqttKeeps DEF UpdateMqtt
<1>4. ASSUME NEW raw \in Raw, UpdateMqttFails(raw)
      PROVE  IInv'
  BY <1>4, SetMqttFailsKeeps DEF UpdateMqttFails
<1>5. ASSUME NEW raw \in Raw, EditByHand(raw)
      PROVE  IInv'
  BY <1>5, EditFileKeeps DEF EditByHand
<1>6. CASE Resend \/ Disconnect \/ BrokerForgets
  BY <1>1, <1>6 DEF Resend, Disconnect, BrokerForgets
<1>7. CASE Stop
  BY <1>7, ExitKeeps DEF Stop
<1>8. CASE Start
  BY <1>8, LoadKeeps DEF Start
<1>9. CASE UNCHANGED vars
  BY <1>1, <1>9 DEF vars
<1> QED
  BY <1>1, <1>2, <1>3, <1>4, <1>5, <1>6, <1>7, <1>8, <1>9 DEF Next

\* The invariant holds of every behaviour.
LEMMA SpecIInv == Spec => []IInv
BY InitIInv, NextIInv, PTL DEF Spec

\* Settings hold over saves, hand edits and restarts (load_config, dump_config,
\* update_mqtt), for any fields, values and environments.
THEOREM SettingsAreKept == Spec => []SettingsHold
<1>1. IInv => SettingsHold
  BY DEF IInv
<1> QED
  BY SpecIInv, <1>1, PTL

\* A save never writes what only the environment says (_persisted_value).
THEOREM SecretsStayOut == Spec => []EnvStaysOut
<1>1. IInv => EnvStaysOut
  BY DEF IInv
<1> QED
  BY SpecIInv, <1>1, PTL

-----------------------------------------------------------------------------
(* Sequences of calls                                                       *)

\* A sequence of fewer elements.
LEMMA SeqOfFewer ==
    ASSUME NEW S, NEW s \in Seq(S), NEW T, Range(s) \subseteq T
    PROVE  s \in Seq(T)
<1>1. \A i \in 1..Len(s) : s[i] \in T
  BY LenProperties DEF Range
<1> QED
  BY <1>1

\* The first call and those behind it.
LEMMA FirstAndRest ==
    ASSUME NEW S, NEW s \in Seq(S), s # <<>>
    PROVE  /\ Head(s) \in S
           /\ Tail(s) \in Seq(S)
           /\ Range(s) = {Head(s)} \cup Range(Tail(s))
<1>1. /\ Len(s) \in Nat \ {0} /\ DOMAIN s = 1..Len(s)
      /\ Head(s) = s[1] /\ Head(s) \in S
      /\ Tail(s) \in Seq(S) /\ Len(Tail(s)) = Len(s) - 1
      /\ \A i \in 1..(Len(s) - 1) : Tail(s)[i] = s[i + 1]
  BY EmptySeq, LenProperties, HeadTailProperties
<1>2. DOMAIN Tail(s) = 1..(Len(s) - 1)
  BY <1>1, LenProperties
<1>3. ASSUME NEW i \in 1..Len(s) PROVE s[i] \in {Head(s)} \cup Range(Tail(s))
  <2>1. CASE i = 1
    BY <1>1, <2>1
  <2>2. CASE i # 1
    <3>1. i - 1 \in 1..(Len(s) - 1) /\ (i - 1) + 1 = i
      BY <1>1, <2>2
    <3> QED
      BY <1>1, <1>2, <3>1, ZenonT(30) DEF Range
  <2> QED
    BY <2>1, <2>2
<1>4. ASSUME NEW i \in 1..(Len(s) - 1) PROVE Tail(s)[i] \in Range(s)
  <2>1. i + 1 \in 1..Len(s)
    BY <1>1
  <2> QED
    BY <1>1, <2>1 DEF Range
<1>5. Head(s) \in Range(s)
  BY <1>1 DEF Range
<1>6. Range(s) \subseteq {Head(s)} \cup Range(Tail(s))
  BY <1>1, <1>3 DEF Range
<1>7. Range(Tail(s)) \subseteq Range(s)
  BY <1>2, <1>4 DEF Range
<1> QED
  BY <1>1, <1>5, <1>6, <1>7

\* One job after another.
LEMMA RangeOfBoth ==
    ASSUME NEW S, NEW s \in Seq(S), NEW t \in Seq(S)
    PROVE  s \o t \in Seq(S) /\ Range(s \o t) = Range(s) \cup Range(t)
BY ConcatProperties, RangeConcatenation

\* A job of a single call.
LEMMA RangeOfOne ==
    ASSUME NEW x
    PROVE  /\ <<x>> \in Seq({x}) /\ <<x>> # <<>> /\ Range(<<x>>) = {x}
           /\ Head(<<x>>) = x /\ Tail(<<x>>) = <<>>
BY DEF Range

\* No calls.
LEMMA RangeOfNone == Range(<<>>) = {}
BY DEF Range

\* A set, in some order.
LEMMA SetToSeqHasAll ==
    ASSUME NEW S, IsFiniteSet(S)
    PROVE  SetToSeq(S) \in Seq(S) /\ Range(SetToSeq(S)) = S
<1> DEFINE n == Cardinality(S)
           order == SetToSeq(S)
<1>1. n \in Nat /\ ExistsBijection(1..n, S)
  BY FS_CardinalityType
<1>2. PICK f : f \in [1..n -> S] /\ IsInjective(f)
  BY <1>1 DEF ExistsBijection, Bijection, Injection
<1>3. order \in [1..n -> S] /\ IsInjective(order)
  BY <1>2 DEF SetToSeq
<1>4. order \in Injection(1..n, S)
  BY <1>3 DEF Injection
<1>5. IsFiniteSet(1..n) /\ Cardinality(1..n) = n
  BY <1>1, FS_Interval
<1>6. order \in Surjection(1..n, S)
  BY <1>4, <1>5, FS_Injection
<1>7. order \in Seq(S)
  BY <1>1, <1>3, SeqDef
<1>8. Range(order) = S
  BY <1>3, <1>6 DEF Surjection, Range
<1> QED
  BY <1>7, <1>8

-----------------------------------------------------------------------------
(* Types                                                                    *)

\* what has an entity: a source, or the instance itself
Whats == Ids \cup {System}

\* calls that publish or remove
Messages == [do : {"publish"}, what : Whats, rev : 1..MaxRevs, to : {Empty}]
                \cup [do : {"remove"}, what : Whats, rev : {0}, to : {Empty}]

\* a job is a sequence of such calls, behind a change to the settings in memory or not
JobsAreTyped ==
    /\ jobs \in [Threads -> Seq(Messages \cup {Swap(settings)})]
    /\ \A t \in Threads : jobs[t] # <<>> => Range(Tail(jobs[t])) \subseteq Messages

\* what is queued or retained is settings there have been
MessagesAreTyped ==
    /\ queue \in [DOMAIN queue -> 0..MaxRevs]
    /\ retained \in [DOMAIN retained -> 1..MaxRevs]

\* a process that is down has no connection and nothing to do
DownIsQuiet == ~up => conn = "off" /\ queue = Empty /\ Quiet

\* only a process with MQTT has a connection
OnIsUp == conn # "off" => up /\ On(active, "enabled")

TInv == TypeOK /\ revs \in 1..MaxRevs /\ JobsAreTyped /\ MessagesAreTyped /\ DownIsQuiet /\ OnIsUp

\* A call is one to publish or to remove, or a change to the settings in memory.
LEMMA CallIs ==
    ASSUME NEW what \in Whats, NEW rev \in 1..MaxRevs
    PROVE  Publish(what, rev) \in Messages /\ Unpublish(what) \in Messages
BY DEF Publish, Unpublish, Messages

\* A call of the first kind, field by field.
LEMMA MessageIs ==
    ASSUME NEW call \in Messages
    PROVE  /\ call.what \in Whats
           /\ call.rev \in 0..MaxRevs
           /\ call.do = "publish" \/ call.do = "remove"
           /\ call.do # "swap"
           /\ call.do = "publish" => call.rev \in 1..MaxRevs
           /\ call.do = "remove" => call.rev = 0
           /\ call.to = Empty
BY DiscoveryAssumption DEF Messages

\* And one of the second.
LEMMA SwapIs ==
    ASSUME NEW cfg
    PROVE  Swap(cfg).do = "swap" /\ Swap(cfg).to = cfg /\ Swap(cfg) \notin Messages
BY MessageIs DEF Swap

\* publish_all_discovery has a call for each source there is.
LEMMA AllIs ==
    ASSUME sources \in [Ids -> -1..MaxRevs]
    PROVE  /\ All \in Seq(Messages)
           /\ Range(All) = {Publish(System, 1)} \cup {Publish(id, sources[id]) : id \in Existing}
<1> DEFINE S == {Publish(id, sources[id]) : id \in Existing}
           f == [id \in Existing |-> Publish(id, sources[id])]
<1>1. IsFiniteSet(Existing)
  BY DiscoveryAssumption, FS_Subset DEF Existing
<1>2. f \in Surjection(Existing, S)
  BY DEF Surjection
<1>3. IsFiniteSet(S)
  BY <1>1, <1>2, FS_Surjection
<1>4. S \subseteq Messages
  <2> SUFFICES ASSUME NEW id \in Existing PROVE Publish(id, sources[id]) \in Messages
    OBVIOUS
  <2>1. id \in Whats /\ sources[id] \in 1..MaxRevs
    BY DiscoveryAssumption DEF Existing, Whats
  <2> QED
    BY <2>1, CallIs
<1>5. Publish(System, 1) \in Messages
  BY CallIs, DiscoveryAssumption DEF Whats
<1> HIDE DEF S
<1>6. SetToSeq(S) \in Seq(S) /\ Range(SetToSeq(S)) = S
  BY <1>3, SetToSeqHasAll
<1>7. SetToSeq(S) \in Seq(Messages)
  BY <1>4, <1>6, SeqMonotonic
<1>8. <<Publish(System, 1)>> \in Seq(Messages) /\ Range(<<Publish(System, 1)>>) = {Publish(System, 1)}
  BY <1>5, RangeOfOne
<1> DEFINE first == <<Publish(System, 1)>>
           rest == SetToSeq(S)
<1>9. first \in Seq(Messages) /\ rest \in Seq(Messages) /\ All = first \o rest
  BY <1>7, <1>8 DEF All, S
<1>10. Range(first) = {Publish(System, 1)} /\ Range(rest) = S
  BY <1>6, <1>8
<1> HIDE DEF first, rest
<1>11. All \in Seq(Messages) /\ Range(All) = {Publish(System, 1)} \cup S
  BY <1>9, <1>10, RangeOfBoth
<1> QED
  BY <1>11 DEF S

\* So has the removal of all.
LEMMA RemovesAll ==
    /\ <<Unpublish(System)>> \o SetToSeq({Unpublish(id) : id \in Existing}) \in Seq(Messages)
    /\ Range(<<Unpublish(System)>> \o SetToSeq({Unpublish(id) : id \in Existing}))
            = {Unpublish(what) : what \in Existing \cup {System}}
<1> DEFINE S == {Unpublish(id) : id \in Existing}
           f == [id \in Existing |-> Unpublish(id)]
<1>1. IsFiniteSet(Existing)
  BY DiscoveryAssumption, FS_Subset DEF Existing
<1>2. f \in Surjection(Existing, S)
  BY DEF Surjection
<1>3. IsFiniteSet(S)
  BY <1>1, <1>2, FS_Surjection
<1>4. S \subseteq Messages /\ Unpublish(System) \in Messages
  BY DEF Unpublish, Messages, Existing, Whats
<1>5. {Unpublish(what) : what \in Existing \cup {System}} = {Unpublish(System)} \cup S
  OBVIOUS
<1> HIDE DEF S
<1>6. SetToSeq(S) \in Seq(S) /\ Range(SetToSeq(S)) = S
  BY <1>3, SetToSeqHasAll
<1>7. SetToSeq(S) \in Seq(Messages)
  BY <1>4, <1>6, SeqMonotonic
<1>8. <<Unpublish(System)>> \in Seq(Messages) /\ Range(<<Unpublish(System)>>) = {Unpublish(System)}
  BY <1>4, RangeOfOne
<1> DEFINE first == <<Unpublish(System)>>
           rest == SetToSeq(S)
<1>9. first \o rest \in Seq(Messages) /\ Range(first \o rest) = {Unpublish(System)} \cup S
  <2>1. first \in Seq(Messages) /\ rest \in Seq(Messages) /\ Range(first) = {Unpublish(System)}
        /\ Range(rest) = S
    BY <1>6, <1>7, <1>8
  <2> HIDE DEF first, rest
  <2> QED
    BY <2>1, RangeOfBoth
<1> QED
  BY <1>5, <1>9 DEF S

\* The call a thread makes next, and those that remain.
LEMMA NextCallIs ==
    ASSUME TInv, NEW t \in Threads, ~Idle(t)
    PROVE  /\ up
           /\ Head(jobs[t]) \in Messages \cup {Swap(settings)}
           /\ Head(jobs[t]).do # "swap" => Head(jobs[t]) \in Messages
           /\ Head(jobs[t]).do = "swap" => Head(jobs[t]) = Swap(settings)
           /\ Tail(jobs[t]) \in Seq(Messages)
           /\ Range(Tail(jobs[t])) \subseteq Messages
           /\ Range(jobs[t]) = {Head(jobs[t])} \cup Range(Tail(jobs[t]))
<1> DEFINE S == Messages \cup {Swap(settings)}
<1>1. jobs[t] \in Seq(S) /\ jobs[t] # <<>> /\ Range(Tail(jobs[t])) \subseteq Messages
  BY DEF TInv, JobsAreTyped, Idle
<1>2. up
  BY DEF TInv, DownIsQuiet, Quiet
<1> HIDE DEF S
<1>3. /\ Head(jobs[t]) \in S /\ Tail(jobs[t]) \in Seq(S)
      /\ Range(jobs[t]) = {Head(jobs[t])} \cup Range(Tail(jobs[t]))
  BY <1>1, FirstAndRest
<1>4. Tail(jobs[t]) \in Seq(Messages)
  BY <1>1, <1>3, SeqOfFewer
<1> QED
  BY <1>1, <1>2, <1>3, <1>4, MessageIs, SwapIs DEF S

\* While no settings wait to be applied, all calls publish or remove.
LEMMA NoSwapIs ==
    ASSUME TInv, ~Swapping, NEW t \in Threads
    PROVE  jobs[t] \in Seq(Messages)
<1>1. CASE Idle(t)
  BY <1>1 DEF Idle
<1>2. CASE ~Idle(t)
  <2>1. Head(jobs[t]) \in Messages /\ Range(jobs[t]) \subseteq Messages
    BY <1>2, NextCallIs DEF Swapping
  <2>2. jobs[t] \in Seq(Messages \cup {Swap(settings)})
    BY DEF TInv, JobsAreTyped
  <2> QED
    BY <2>1, <2>2, SeqOfFewer
<1> QED
  BY <1>1, <1>2

\* A job of calls that publish or remove has the type of jobs whatever the settings.
LEMMA CallsAreTyped ==
    ASSUME NEW calls \in Seq(Messages), NEW cfg
    PROVE  /\ calls \in Seq(Messages \cup {Swap(cfg)})
           /\ calls # <<>> => Range(Tail(calls)) \subseteq Messages
<1>1. calls \in Seq(Messages \cup {Swap(cfg)})
  BY SeqMonotonic, Messages \subseteq Messages \cup {Swap(cfg)}
<1>2. ASSUME calls # <<>> PROVE Range(Tail(calls)) \subseteq Messages
  <2>1. Tail(calls) \in Seq(Messages)
    BY <1>2, FirstAndRest
  <2> QED
    BY <2>1, RangeOfSeq
<1> QED
  BY <1>1, <1>2

\* A thread has made its first call, or was given a job of such calls.
LEMMA JobsGoOn ==
    ASSUME TInv, NEW t \in Threads, NEW calls \in Seq(Messages),
           jobs' = [jobs EXCEPT ![t] = calls], settings' = settings
    PROVE  JobsAreTyped'
<1>1. calls \in Seq(Messages \cup {Swap(settings)})
  BY CallsAreTyped
<1>2. calls # <<>> => Range(Tail(calls)) \subseteq Messages
  BY CallsAreTyped
<1>3. jobs' \in [Threads -> Seq(Messages \cup {Swap(settings)})]
  BY <1>1 DEF TInv, JobsAreTyped
<1>4. Swap(settings)' = Swap(settings)
  BY DEF Swap
<1>5. \A u \in Threads : jobs'[u] # <<>> => Range(Tail(jobs'[u])) \subseteq Messages
  BY <1>2 DEF TInv, JobsAreTyped
<1> QED
  BY <1>3, <1>4, <1>5 DEF JobsAreTyped

\* The settings in memory change while nothing waits to apply older ones.
LEMMA JobsAreReset ==
    ASSUME TInv, \A t \in Threads : jobs[t] \in Seq(Messages), jobs' = jobs
    PROVE  JobsAreTyped'
<1>1. jobs \in [Threads -> Seq(Messages \cup {Swap(settings')})]
  <2>1. \A t \in Threads : jobs[t] \in Seq(Messages \cup {Swap(settings')})
    BY CallsAreTyped
  <2> QED
    BY <2>1 DEF TInv, JobsAreTyped
<1>2. \A t \in Threads : jobs[t] # <<>> => Range(Tail(jobs[t])) \subseteq Messages
  BY DEF TInv, JobsAreTyped
<1>3. Swap(settings)' = Swap(settings')
  BY DEF Swap
<1> QED
  BY <1>1, <1>2, <1>3 DEF JobsAreTyped

-----------------------------------------------------------------------------
(* Messages                                                                 *)

\* what the broker retains under a topic, 0 for nothing
SaidIn(store, topic) == IF topic \in DOMAIN store THEN store[topic] ELSE 0
Said(topic) == SaidIn(retained, topic)

\* The last message of a topic is the one that counts, and an empty one leaves nothing.
LEMMA StoredIs ==
    ASSUME MessagesAreTyped, NEW m, m \in [DOMAIN m -> 0..MaxRevs]
    PROVE  /\ Stored(m) \in [DOMAIN Stored(m) -> 1..MaxRevs]
           /\ DOMAIN Stored(m) \subseteq DOMAIN m \cup DOMAIN retained
           /\ \A topic : SaidIn(Stored(m), topic) = IF topic \in DOMAIN m THEN m[topic] ELSE Said(topic)
<1>1. /\ DOMAIN Stored(m) = {t \in DOMAIN m \cup DOMAIN retained :
                                 (IF t \in DOMAIN m THEN m[t] ELSE retained[t]) # 0}
      /\ \A t \in DOMAIN Stored(m) : Stored(m)[t] = IF t \in DOMAIN m THEN m[t] ELSE retained[t]
      /\ Stored(m) = [t \in DOMAIN Stored(m) |-> Stored(m)[t]]
  BY DEF Stored, Over
<1>2. \A t \in DOMAIN Stored(m) : Stored(m)[t] \in 1..MaxRevs
  BY <1>1, DiscoveryAssumption DEF MessagesAreTyped
<1>3. \A topic : SaidIn(Stored(m), topic) = IF topic \in DOMAIN m THEN m[topic] ELSE Said(topic)
  BY <1>1, DiscoveryAssumption DEF MessagesAreTyped, Said, SaidIn
<1> QED
  BY <1>1, <1>2, <1>3

\* The client keeps the last message of a topic.
LEMMA KeptIs ==
    ASSUME MessagesAreTyped, NEW m, m \in [DOMAIN m -> 0..MaxRevs]
    PROVE  /\ Over(m, queue) \in [DOMAIN m \cup DOMAIN queue -> 0..MaxRevs]
           /\ \A topic \in DOMAIN m \cup DOMAIN queue :
                Over(m, queue)[topic] = IF topic \in DOMAIN m THEN m[topic] ELSE queue[topic]
BY DEF MessagesAreTyped, Over

\* The topics of an entity are its own.
LEMMA TopicsAre ==
    ASSUME NEW prefix, NEW what
    PROVE  /\ \A topic \in Range(Topics(prefix, what)) : topic.what = what /\ topic.prefix = prefix
           /\ Topics(prefix, what)[1] \in Range(Topics(prefix, what))
           /\ Len(Topics(prefix, what)) = 2 =>
                Range(Topics(prefix, what)) = {Topics(prefix, what)[1], Topics(prefix, what)[2]}
           /\ Len(Topics(prefix, what)) # 2 => Range(Topics(prefix, what)) = {Topics(prefix, what)[1]}
<1>1. CASE what = System
  BY <1>1 DEF Topics, SystemTopics, Range
<1>2. CASE what # System
  BY <1>2 DEF Topics, SourceTopics, Range
<1> QED
  BY <1>1, <1>2

\* A call's message says what the call is to say.
LEMMA MessageIsTyped ==
    ASSUME TInv, NEW t \in Threads, ~Idle(t), Head(jobs[t]).do # "swap", NEW topics
    PROVE  /\ DOMAIN Message(t, topics) = topics
           /\ Message(t, topics) \in [topics -> 0..MaxRevs]
           /\ \A topic \in topics : Message(t, topics)[topic] = Head(jobs[t]).rev
BY NextCallIs, MessageIs DEF Message

-----------------------------------------------------------------------------
(* Every step keeps the types                                               *)

\* The first process starts with no calls and no messages.
LEMMA InitTInv == Init => TInv
<1> SUFFICES ASSUME Init PROVE TInv
  OBVIOUS
<1>1. Empty \in [DOMAIN Empty -> 0..MaxRevs] /\ Empty \in [DOMAIN Empty -> 1..MaxRevs] /\ DOMAIN Empty = {}
  BY DEF Empty
<1>2. 1 \in 1..MaxRevs /\ -1 \in -1..MaxRevs /\ 1 \in -1..MaxRevs
  BY DiscoveryAssumption
<1>3. TypeOK
  BY <1>1, <1>2 DEF Init, ConfigInit, TypeOK
<1>4. JobsAreTyped
  BY EmptySeq DEF Init, JobsAreTyped
<1> QED
  BY <1>1, <1>2, <1>3, <1>4
     DEF Init, ConfigInit, TInv, MessagesAreTyped, DownIsQuiet, OnIsUp, Quiet, Idle

\* A call that does nothing.
LEMMA SkipTypes == ASSUME TInv, NEW t \in Threads, Skip(t) PROVE TInv'
<1>1. up /\ Tail(jobs[t]) \in Seq(Messages)
  BY NextCallIs DEF Skip
<1>2. JobsAreTyped'
  BY <1>1, JobsGoOn DEF Skip, configVars, TInv, JobsAreTyped
<1> QED
  BY <1>1, <1>2 DEF Skip, configVars, TInv, TypeOK, MessagesAreTyped, DownIsQuiet, OnIsUp

\* A call whose messages arrive.
LEMMA SendTypes == ASSUME TInv, NEW t \in Threads, Send(t) PROVE TInv'
<1>1. ~Idle(t) /\ Head(jobs[t]).do # "swap"
  BY DEF Send, Calls
<1>2. up /\ Tail(jobs[t]) \in Seq(Messages)
  BY <1>1, NextCallIs
<1>3. JobsAreTyped'
  BY <1>2, JobsGoOn DEF Send, configVars, TInv, JobsAreTyped
<1> DEFINE m == Message(t, Range(HeadTopics(t)))
<1>4. m \in [DOMAIN m -> 0..MaxRevs]
  BY <1>1, MessageIsTyped
<1> HIDE DEF m
<1>5. retained' \in [DOMAIN retained' -> 1..MaxRevs]
  BY <1>4, StoredIs DEF Send, TInv, m
<1> QED
  BY <1>2, <1>3, <1>5 DEF Send, configVars, TInv, TypeOK, MessagesAreTyped, DownIsQuiet, OnIsUp

\* A call whose messages the client keeps.
LEMMA SendInVainTypes == ASSUME TInv, NEW t \in Threads, SendInVain(t) PROVE TInv'
<1>1. ~Idle(t) /\ Head(jobs[t]).do # "swap"
  BY DEF SendInVain, Calls
<1>2. up /\ Tail(jobs[t]) \in Seq(Messages)
  BY <1>1, NextCallIs
<1>3. JobsAreTyped'
  BY <1>2, JobsGoOn DEF SendInVain, configVars, TInv, JobsAreTyped
<1> DEFINE m == Message(t, Range(HeadTopics(t)))
<1>4. m \in [DOMAIN m -> 0..MaxRevs]
  BY <1>1, MessageIsTyped
<1> HIDE DEF m
<1>5. queue' \in [DOMAIN queue' -> 0..MaxRevs]
  <2>1. queue' = Over(m, queue)
    BY DEF SendInVain, m
  <2>2. queue' \in [DOMAIN m \cup DOMAIN queue -> 0..MaxRevs]
    BY <1>4, <2>1, KeptIs DEF TInv
  <2> QED
    BY <2>2
<1> QED
  BY <1>2, <1>3, <1>5 DEF SendInVain, configVars, TInv, TypeOK, MessagesAreTyped, DownIsQuiet, OnIsUp

\* A call that raises ends its job.
LEMMA RaiseTypes == ASSUME TInv, NEW t \in Threads, Raise(t) PROVE TInv'
<1>1. ~Idle(t) /\ Head(jobs[t]).do # "swap" /\ up /\ On(active, "enabled")
  BY NextCallIs DEF Raise, Calls, Gated
<1>2. <<>> \in Seq(Messages)
  BY EmptySeq
<1>3. JobsAreTyped'
  BY <1>2, JobsGoOn DEF Raise, configVars, TInv, JobsAreTyped
<1>4. \A topics : Message(t, topics) \in [DOMAIN Message(t, topics) -> 0..MaxRevs]
  BY <1>1, MessageIsTyped
<1>5. \A topics : Over(Message(t, topics), queue) \in [DOMAIN Over(Message(t, topics), queue) -> 0..MaxRevs]
  BY <1>4, KeptIs DEF TInv
<1>6. \A topics : Stored(Message(t, topics)) \in [DOMAIN Stored(Message(t, topics)) -> 1..MaxRevs]
  BY <1>4, StoredIs DEF TInv
<1> DEFINE topics == HeadTopics(t)
<1>7. \/ queue' \in {Over(Message(t, {topics[1]}), queue), queue} /\ retained' = retained
      \/ /\ retained' = Stored(Message(t, {topics[1]}))
         /\ queue' = Over(Message(t, {topics[2]}), queue)
  BY DEF Raise
<1> HIDE DEF topics
<1>8. MessagesAreTyped'
  BY <1>5, <1>6, <1>7 DEF TInv, MessagesAreTyped
<1> QED
  BY <1>1, <1>3, <1>8 DEF Raise, configVars, TInv, TypeOK, MessagesAreTyped, DownIsQuiet, OnIsUp

\* A change of settings is applied.
LEMMA ReconfigureTypes == ASSUME TInv, NEW t \in Threads, Reconfigure(t) PROVE TInv'
<1>1. up /\ Tail(jobs[t]) \in Seq(Messages)
  BY NextCallIs DEF Reconfigure
<1>2. JobsAreTyped'
  BY <1>1, JobsGoOn DEF Reconfigure, configVars, TInv, JobsAreTyped
<1>3. Empty \in [DOMAIN Empty -> 0..MaxRevs] /\ DOMAIN Empty = {}
  BY DEF Empty
<1> QED
  BY <1>1, <1>2, <1>3 DEF Reconfigure, configVars, TInv, TypeOK, MessagesAreTyped, DownIsQuiet, OnIsUp

\* A connection, whose thread is to publish everything.
LEMMA ConnectTypes == ASSUME TInv, NEW t \in Threads, Connect(t) PROVE TInv'
<1>1. All \in Seq(Messages) /\ up /\ On(active, "enabled")
  BY AllIs DEF Connect, TInv, TypeOK, OnIsUp
<1>2. JobsAreTyped'
  BY <1>1, JobsGoOn DEF Connect, Does, configVars, TInv, JobsAreTyped
<1> QED
  BY <1>1, <1>2 DEF Connect, configVars, TInv, TypeOK, MessagesAreTyped, DownIsQuiet, OnIsUp

\* A new source, a source that is changed, and one that is deleted.
LEMMA RequestTypes ==
    ASSUME TInv, NEW t \in Threads, NEW id \in Ids,
           AddSource(t, id) \/ UpdateSource(t, id) \/ DeleteSource(t, id)
    PROVE  TInv'
<1>1. id \in Whats /\ 0 \in -1..MaxRevs
  BY DiscoveryAssumption DEF Whats
<1>2. ASSUME AddSource(t, id) \/ UpdateSource(t, id)
      PROVE  /\ revs + 1 \in 1..MaxRevs
             /\ revs' = revs + 1
             /\ up' = up /\ up /\ settings' = settings
             /\ sources' = [sources EXCEPT ![id] = revs + 1]
             /\ jobs' = [jobs EXCEPT ![t] = <<Publish(id, revs + 1)>>]
             /\ tidy' \in BOOLEAN /\ behind' \in BOOLEAN
             /\ UNCHANGED <<active, conn, queue, retained>>
  <2>1. revs \in 1..MaxRevs /\ revs < MaxRevs
    BY <1>2 DEF AddSource, UpdateSource, NewRev, TInv
  <2>2. revs + 1 \in 1..MaxRevs
    BY <2>1, DiscoveryAssumption
  <2>3. tidy' \in BOOLEAN /\ behind' \in BOOLEAN
    BY <1>2 DEF AddSource, UpdateSource, Crossed, TInv, TypeOK
  <2> QED
    BY <1>2, <2>2, <2>3 DEF AddSource, UpdateSource, NewRev, Does, configVars
<1>3. ASSUME DeleteSource(t, id)
      PROVE  /\ revs' = revs
             /\ up' = up /\ up /\ settings' = settings
             /\ sources' = [sources EXCEPT ![id] = 0]
             /\ jobs' = [jobs EXCEPT ![t] = <<Unpublish(id)>>]
             /\ tidy' \in BOOLEAN /\ behind' \in BOOLEAN
             /\ UNCHANGED <<active, conn, queue, retained>>
  BY <1>3 DEF DeleteSource, Does, configVars, Crossed, TInv, TypeOK
<1>4. PICK call \in Messages, rev \in 0..MaxRevs :
          /\ jobs' = [jobs EXCEPT ![t] = <<call>>]
          /\ sources' = [sources EXCEPT ![id] = rev]
  <2>1. CASE DeleteSource(t, id)
    <3>1. Unpublish(id) \in Messages /\ 0 \in 0..MaxRevs
      BY <1>1, DiscoveryAssumption DEF Unpublish, Messages
    <3> QED
      BY <1>3, <2>1, <3>1
  <2>2. CASE ~DeleteSource(t, id)
    <3>1. Publish(id, revs + 1) \in Messages /\ revs + 1 \in 0..MaxRevs
      BY <1>1, <1>2, <2>2, CallIs
    <3> QED
      BY <1>2, <2>2, <3>1
  <2> QED
    BY <2>1, <2>2
<1>5. <<call>> \in Seq(Messages)
  BY RangeOfOne
<1>6. up' = up /\ up /\ settings' = settings /\ revs' \in 1..MaxRevs
      /\ tidy' \in BOOLEAN /\ behind' \in BOOLEAN /\ UNCHANGED <<active, conn, queue, retained>>
  BY <1>2, <1>3 DEF TInv
<1>7. JobsAreTyped'
  BY <1>4, <1>5, <1>6, JobsGoOn DEF TInv, JobsAreTyped
<1>8. sources' \in [Ids -> -1..MaxRevs]
  BY <1>4, DiscoveryAssumption DEF TInv, TypeOK
<1> QED
  BY <1>6, <1>7, <1>8 DEF TInv, TypeOK, MessagesAreTyped, DownIsQuiet, OnIsUp

\* A change of settings and the calls behind it.
LEMMA SwapJobIs ==
    ASSUME NEW rest \in Seq(Messages), NEW cfg, NEW job, job = <<Swap(cfg)>> \o rest
    PROVE  /\ job \in Seq(Messages \cup {Swap(cfg)})
           /\ job # <<>> /\ Head(job) = Swap(cfg) /\ Tail(job) = rest
           /\ Range(job) = {Swap(cfg)} \cup Range(rest)
<1> DEFINE swap == Swap(cfg)
           first == <<swap>>
           S == Messages \cup {swap}
<1>1. first \in Seq(S) /\ Len(first) = 1 /\ first[1] = swap /\ Range(first) = {swap}
  BY RangeOfOne DEF S
<1>2. rest \in Seq(S)
  BY CallsAreTyped DEF S
<1>3. job = first \o rest
  OBVIOUS
<1> HIDE DEF swap, first, S
<1>4. /\ job \in Seq(S) /\ Len(job) = 1 + Len(rest) /\ Len(rest) \in Nat
      /\ \A i \in 1..(1 + Len(rest)) : job[i] = IF i <= 1 THEN first[i] ELSE rest[i - 1]
      /\ Range(job) = Range(first) \cup Range(rest)
  BY <1>1, <1>2, <1>3, ConcatProperties, LenProperties, RangeOfBoth
<1>5. /\ job # <<>> /\ Head(job) = swap
      /\ Tail(job) \in Seq(S) /\ Len(Tail(job)) = Len(rest)
      /\ \A i \in 1..Len(rest) : Tail(job)[i] = job[i + 1]
  BY <1>1, <1>4, EmptySeq, HeadTailProperties
<1>6. Tail(job) = rest
  <2>1. \A i \in 1..Len(rest) : Tail(job)[i] = rest[i]
    BY <1>4, <1>5
  <2> QED
    BY <1>2, <1>5, <2>1, SeqEqual
<1> QED
  BY <1>1, <1>4, <1>5, <1>6 DEF swap, S

\* update_mqtt's job: the change, and the removal of everything when discovery goes off.
LEMMA UpdateMqttIs ==
    ASSUME TInv, NEW t \in Threads, NEW raw, UpdateMqtt(t, raw)
    PROVE  \E rest \in Seq(Messages) :
             /\ jobs'[t] \in Seq(Messages \cup {Swap(settings')})
             /\ jobs'[t] # <<>> /\ Head(jobs'[t]) = Swap(settings') /\ Tail(jobs'[t]) = rest
             /\ Range(jobs'[t]) = {Swap(settings')} \cup Range(rest)
             /\ Range(rest) = IF On(settings, "discovery") /\ ~On(settings', "discovery")
                              THEN {Unpublish(what) : what \in Existing \cup {System}} ELSE {}
             /\ jobs[t] = <<>>
             /\ jobs' \in [Threads -> {jobs'[u] : u \in Threads}]
             /\ \A u \in Threads \ {t} : jobs'[u] = jobs[u]
<1> DEFINE removals == <<Unpublish(System)>> \o SetToSeq({Unpublish(id) : id \in Existing})
           rest == IF On(settings, "discovery") /\ ~On(settings', "discovery") THEN removals ELSE <<>>
           job == <<Swap(settings')>> \o rest
<1>1. jobs[t] = <<>> /\ jobs' = [jobs EXCEPT ![t] = job]
  BY DEF UpdateMqtt, Does, Idle
<1>2. /\ rest \in Seq(Messages)
      /\ Range(rest) = IF On(settings, "discovery") /\ ~On(settings', "discovery")
                       THEN {Unpublish(what) : what \in Existing \cup {System}} ELSE {}
  BY RemovesAll, EmptySeq, RangeOfNone
<1> HIDE DEF removals, rest
<1>3. /\ job \in Seq(Messages \cup {Swap(settings')})
      /\ job # <<>> /\ Head(job) = Swap(settings') /\ Tail(job) = rest
      /\ Range(job) = {Swap(settings')} \cup Range(rest)
  BY <1>2, SwapJobIs
<1> HIDE DEF job
<1>4. /\ jobs'[t] = job
      /\ jobs' \in [Threads -> {jobs'[u] : u \in Threads}]
      /\ \A u \in Threads \ {t} : jobs'[u] = jobs[u]
  BY <1>1 DEF TInv, JobsAreTyped
<1> QED
  BY <1>1, <1>2, <1>3, <1>4

\* The settings page hands a change to the publisher.
LEMMA UpdateMqttTypes ==
    ASSUME TInv, NEW t \in Threads, NEW raw, UpdateMqtt(t, raw)
    PROVE  TInv'
<1> DEFINE swap == Swap(settings')
           S == Messages \cup {swap}
<1>1. \A u \in Threads : jobs[u] \in Seq(Messages)
  BY NoSwapIs DEF UpdateMqtt
<1>2. PICK rest \in Seq(Messages) :
          /\ jobs'[t] \in Seq(S) /\ jobs'[t] # <<>> /\ Tail(jobs'[t]) = rest
          /\ jobs' \in [Threads -> {jobs'[u] : u \in Threads}]
          /\ \A u \in Threads \ {t} : jobs'[u] = jobs[u]
  BY UpdateMqttIs
<1>3. \A u \in Threads : jobs[u] \in Seq(S) /\ (jobs[u] # <<>> => Range(Tail(jobs[u])) \subseteq Messages)
  BY <1>1, CallsAreTyped
<1> HIDE DEF swap, S
<1>4. Range(Tail(jobs'[t])) \subseteq Messages
  BY <1>2, RangeOfSeq
<1>5. jobs' \in [Threads -> Seq(S)]
  BY <1>2, <1>3
<1>6. \A u \in Threads : jobs'[u] # <<>> => Range(Tail(jobs'[u])) \subseteq Messages
  BY <1>2, <1>3, <1>4
<1>7. JobsAreTyped'
  <2>1. Swap(settings)' = swap
    BY DEF Swap, swap
  <2> QED
    BY <1>5, <1>6, <2>1 DEF JobsAreTyped, S
<1>8. tidy' \in BOOLEAN /\ up /\ up' = up
  BY DEF UpdateMqtt, SetMqtt, TInv, TypeOK
<1> QED
  BY <1>7, <1>8 DEF UpdateMqtt, TInv, TypeOK, MessagesAreTyped, DownIsQuiet, OnIsUp

\* The settings page cannot save, or the file is edited.
LEMMA UpdateMqttFailsTypes ==
    ASSUME TInv, NEW raw, UpdateMqttFails(raw)
    PROVE  TInv'
<1>1. JobsAreTyped'
  BY NoSwapIs, JobsAreReset DEF UpdateMqttFails
<1> QED
  BY <1>1
     DEF UpdateMqttFails, SetMqttFails, TInv, TypeOK, MessagesAreTyped, DownIsQuiet, OnIsUp

\* A file edited by hand leaves calls and messages alone.
LEMMA EditByHandTypes ==
    ASSUME TInv, NEW raw, EditByHand(raw)
    PROVE  TInv'
BY DEF EditByHand, EditFile, discoveryVars, TInv, TypeOK, JobsAreTyped, Swap, MessagesAreTyped,
       DownIsQuiet, Quiet, Idle, OnIsUp

\* The client sends what it kept.
LEMMA ResendTypes == ASSUME TInv, Resend PROVE TInv'
<1>1. up /\ queue \in [DOMAIN queue -> 0..MaxRevs] /\ MessagesAreTyped
  BY DEF Resend, TInv, OnIsUp, MessagesAreTyped
<1>2. retained' \in [DOMAIN retained' -> 1..MaxRevs]
  BY <1>1, StoredIs DEF Resend
<1>3. Empty \in [DOMAIN Empty -> 0..MaxRevs] /\ DOMAIN Empty = {}
  BY DEF Empty
<1>4. JobsAreTyped'
  BY DEF Resend, configVars, TInv, JobsAreTyped, Swap
<1> QED
  BY <1>1, <1>2, <1>3, <1>4 DEF Resend, configVars, TInv, TypeOK, MessagesAreTyped, DownIsQuiet, OnIsUp

\* The connection or the broker's memory is lost.
LEMMA LossTypes == ASSUME TInv, Disconnect \/ BrokerForgets PROVE TInv'
<1>1. up
  BY DEF Disconnect, BrokerForgets, TInv, OnIsUp
<1>2. Empty \in [DOMAIN Empty -> 1..MaxRevs]
  BY DEF Empty
<1>3. JobsAreTyped'
  BY DEF Disconnect, BrokerForgets, configVars, TInv, JobsAreTyped, Swap
<1>4. MessagesAreTyped'
  BY <1>2 DEF Disconnect, BrokerForgets, TInv, MessagesAreTyped
<1>5. conn # "off" /\ conn' = "down" /\ UNCHANGED <<up, sources, revs, active, queue, tidy>>
      /\ behind' \in {behind, TRUE}
  BY DEF Disconnect, BrokerForgets, configVars
<1> QED
  BY <1>1, <1>3, <1>4, <1>5 DEF TInv, TypeOK, MessagesAreTyped, DownIsQuiet, OnIsUp

\* The process ends.
LEMMA StopTypes == ASSUME TInv, Stop PROVE TInv'
<1>1. Empty \in [DOMAIN Empty -> 0..MaxRevs] /\ DOMAIN Empty = {}
  BY DEF Empty
<1>2. JobsAreTyped'
  BY EmptySeq DEF Stop, JobsAreTyped
<1>3. tidy' \in BOOLEAN
  BY DEF Stop, TInv, TypeOK
<1> QED
  BY <1>1, <1>2, <1>3 DEF Stop, Exit, TInv, TypeOK, MessagesAreTyped, DownIsQuiet, Quiet, Idle, OnIsUp

\* The process starts.
LEMMA StartTypes == ASSUME TInv, Start PROVE TInv'
<1>1. queue = Empty /\ DOMAIN Empty = {} /\ \A t \in Threads : jobs[t] = <<>>
  BY DEF Start, Load, TInv, DownIsQuiet, Quiet, Idle, Empty
<1>2. \A t \in Threads : jobs[t] \in Seq(Messages)
  BY <1>1, EmptySeq
<1>3. JobsAreTyped'
  BY <1>2, JobsAreReset DEF Start
<1>4. tidy' \in BOOLEAN
  BY DEF Start, TInv, TypeOK
<1> QED
  BY <1>1, <1>3, <1>4 DEF Start, Load, TInv, TypeOK, MessagesAreTyped, DownIsQuiet, OnIsUp

\* Every step keeps the types.
LEMMA NextTInv == TInv /\ [Next]_vars => TInv'
<1> SUFFICES ASSUME TInv, [Next]_vars PROVE TInv'
  OBVIOUS
<1>1. CASE UNCHANGED vars
  BY <1>1 DEF vars, configVars, discoveryVars, TInv, TypeOK, JobsAreTyped, Swap, MessagesAreTyped,
              DownIsQuiet, Quiet, Idle, OnIsUp
<1>2. ASSUME NEW t \in Threads,
             Skip(t) \/ Send(t) \/ SendInVain(t) \/ Raise(t) \/ Reconfigure(t) \/ Connect(t)
      PROVE  TInv'
  BY <1>2, SkipTypes, SendTypes, SendInVainTypes, RaiseTypes, ReconfigureTypes, ConnectTypes
<1>3. ASSUME NEW t \in Threads, NEW id \in Ids,
             AddSource(t, id) \/ UpdateSource(t, id) \/ DeleteSource(t, id)
      PROVE  TInv'
  BY <1>3, RequestTypes
<1>4. ASSUME NEW t \in Threads, NEW raw \in Raw, UpdateMqtt(t, raw)
      PROVE  TInv'
  BY <1>4, UpdateMqttTypes
<1>5. ASSUME NEW raw \in Raw, UpdateMqttFails(raw) \/ EditByHand(raw)
      PROVE  TInv'
  BY <1>5, UpdateMqttFailsTypes, EditByHandTypes
<1>6. CASE Resend \/ Disconnect \/ BrokerForgets \/ Stop \/ Start
  BY <1>6, ResendTypes, LossTypes, StopTypes, StartTypes
<1> QED
  BY <1>1, <1>2, <1>3, <1>4, <1>5, <1>6 DEF Next

\* The types hold of every behaviour.
LEMMA SpecTInv == Spec => []TInv
BY InitTInv, NextTInv, PTL DEF Spec

\* Nothing is ever retained but the settings of sources, and messages wait only while
\* there is no connection (ha_discovery.py, mqtt_publisher.py).
THEOREM TypeCorrect == Spec => []TypeOK
<1>1. TInv => TypeOK
  BY DEF TInv
<1> QED
  BY SpecTInv, <1>1, PTL

-----------------------------------------------------------------------------
(* Entities match while everything is tidy                                  *)
(*                                                                          *)
(* EntitiesMatch speaks of a moment without calls and queued messages.  At  *)
(* every other moment what is retained under a topic is what is due or will *)
(* become so: a message for it is queued, a call for it is to come, or the  *)
(* next connection publishes it (TidyCover).  Calls and queued messages say *)
(* what is due (TidyCalls, QueueIsDue), nothing is retained but under the   *)
(* topics of today's prefix (TidyTopics), and a change of settings comes    *)
(* alone and brings the removals it makes necessary (TidySwap).             *)

\* the settings of an entity that a call is to publish
Rev(what) == IF what = System THEN 1 ELSE sources[what]

Swaps(t) == ~Idle(t) /\ Head(jobs[t]).do = "swap"

TopicsOf(what) == Range(Topics(active["discovery_prefix"], what))

Pending(do, what) ==
    \E t \in Threads : \E call \in Range(jobs[t]) : call.do = do /\ call.what = what

\* calls publish the settings there are, and remove what should be gone
TidyCalls ==
    \A t \in Threads : \A call \in Range(jobs[t]) :
        /\ call.do = "publish" => call.rev = Rev(call.what)
        /\ call.do = "remove" =>
             \/ call.what \in Ids /\ sources[call.what] <= 0
             \/ ~On(settings, "discovery")

\* settings wait in one thread at most, with the removals they ask for
TidySwap ==
    /\ (\A t \in Threads : ~Swaps(t)) => settings = active
    /\ \A t \in Threads : Swaps(t) =>
          /\ \A u \in Threads \ {t} : \A call \in Range(jobs[u]) : call.do = "publish"
          /\ (On(active, "discovery") /\ ~On(settings, "discovery")) =>
                \A what \in Existing \cup {System} : Unpublish(what) \in Range(jobs[t])

\* nothing is left under another prefix
TidyTopics ==
    \A topic \in DOMAIN retained \cup DOMAIN queue : \E what \in Whats : topic \in TopicsOf(what)

QueueIsDue == \A topic \in DOMAIN queue : queue[topic] = Due(topic.what)

\* a topic says what is due, or will
Covered(what, topic) ==
    \/ Said(topic) = Due(what)
    \/ topic \in DOMAIN queue
    \/ Due(what) # 0 /\ (conn \in {"off", "down"} \/ Pending("publish", what))
    \/ Due(what) = 0 /\ Pending("remove", what)

TidyCover == \A what \in Whats : \A topic \in TopicsOf(what) : Covered(what, topic)

Tidy == TidyCalls /\ TidySwap /\ TidyTopics /\ QueueIsDue /\ TidyCover

MInv == tidy => Tidy

\* What is due is nothing, or the settings of an entity there is.
LEMMA DueIs ==
    ASSUME TInv, NEW what \in Whats
    PROVE  /\ Due(what) \in 0..MaxRevs
           /\ Due(what) # 0 <=> On(active, "discovery") /\ what \in Existing \cup {System}
           /\ Due(what) # 0 => Due(what) = Rev(what)
<1>1. CASE what = System
  BY <1>1, DiscoveryAssumption DEF Due, Rev
<1>2. CASE what \in Ids
  <2>1. sources[what] \in -1..MaxRevs /\ what # System
    BY <1>2, DiscoveryAssumption DEF TInv, TypeOK
  <2> QED
    BY <1>2, <2>1, DiscoveryAssumption DEF Due, Rev, Existing
<1> QED
  BY <1>1, <1>2 DEF Whats

\* A thread has made its first call.
LEMMA DroppedIs ==
    ASSUME TInv, NEW t \in Threads, ~Idle(t), Head(jobs[t]).do # "swap",
           jobs' = [jobs EXCEPT ![t] = Tail(@)]
    PROVE  /\ \A u \in Threads : Range(jobs'[u]) \subseteq Range(jobs[u])
           /\ \A u \in Threads : \A call \in Range(jobs[u]) :
                call \in Range(jobs'[u]) \/ call = Head(jobs[t])
           /\ \A u \in Threads : Swaps(u)' <=> Swaps(u)
           /\ \A u \in Threads : Swaps(u) => jobs'[u] = jobs[u]
<1>1. /\ jobs'[t] = Tail(jobs[t])
      /\ \A u \in Threads \ {t} : jobs'[u] = jobs[u]
  BY DEF TInv, JobsAreTyped
<1>2. /\ Tail(jobs[t]) \in Seq(Messages)
      /\ Range(jobs[t]) = {Head(jobs[t])} \cup Range(Tail(jobs[t]))
  BY NextCallIs
<1>3. ~Swaps(t)
  BY DEF Swaps
<1>4. ~Swaps(t)'
  <2>1. CASE Tail(jobs[t]) = <<>>
    BY <1>1, <2>1 DEF Swaps, Idle
  <2>2. CASE Tail(jobs[t]) # <<>>
    <3>1. Head(Tail(jobs[t])) \in Messages
      BY <1>2, <2>2, FirstAndRest
    <3> QED
      BY <1>1, <3>1, MessageIs DEF Swaps
  <2> QED
    BY <2>1, <2>2
<1>5. \A u \in Threads \ {t} : Swaps(u)' <=> Swaps(u)
  BY <1>1 DEF Swaps, Idle
<1> QED
  BY <1>1, <1>2, <1>3, <1>4, <1>5

\* A thread without calls has been given a job.
LEMMA GivenIs ==
    ASSUME TInv, NEW t \in Threads, NEW calls \in Seq(Messages), Does(t, calls)
    PROVE  /\ Range(jobs[t]) = {}
           /\ Range(jobs'[t]) = Range(calls)
           /\ \A u \in Threads \ {t} : jobs'[u] = jobs[u]
           /\ \A u \in Threads : Swaps(u)' <=> Swaps(u)
           /\ ~Swaps(t)
<1>1. /\ jobs'[t] = calls /\ jobs[t] = <<>>
      /\ \A u \in Threads \ {t} : jobs'[u] = jobs[u]
  BY DEF TInv, JobsAreTyped, Does, Idle
<1>2. ~Swaps(t)'
  <2>1. CASE calls = <<>>
    BY <1>1, <2>1 DEF Swaps, Idle
  <2>2. CASE calls # <<>>
    <3>1. Head(calls) \in Messages
      BY <2>2, FirstAndRest
    <3> QED
      BY <1>1, <3>1, MessageIs DEF Swaps
  <2> QED
    BY <2>1, <2>2
<1>3. \A u \in Threads \ {t} : Swaps(u)' <=> Swaps(u)
  BY <1>1 DEF Swaps, Idle
<1>4. ~Swaps(t)
  BY <1>1 DEF Swaps, Idle
<1> QED
  BY <1>1, <1>2, <1>3, <1>4, RangeOfNone

\* What is due and under which topics depends on the sources and the publisher's config.
LEMMA DueStays ==
    ASSUME UNCHANGED <<sources, active>>
    PROVE  /\ \A what : Due(what)' = Due(what)
           /\ \A what : TopicsOf(what)' = TopicsOf(what)
           /\ \A what : Rev(what)' = Rev(what)
           /\ Existing' = Existing
BY DEF Due, TopicsOf, Topics, SourceTopics, SystemTopics, Rev, Existing, On

\* A call says what is due.
LEMMA CallIsDue ==
    ASSUME TInv, Tidy, NEW t \in Threads, Calls(t)
    PROVE  Head(jobs[t]).rev = Due(Head(jobs[t]).what)
<1> DEFINE call == Head(jobs[t])
<1>1. ~Idle(t) /\ call.do # "swap" /\ (call.do = "publish" => On(active, "discovery"))
  BY DEF Calls, Gated
<1>2. call \in Messages /\ call \in Range(jobs[t])
  BY <1>1, NextCallIs
<1>3. call.what \in Whats
  BY <1>2, MessageIs
<1> HIDE DEF call
<1>4. CASE call.do = "publish"
  <2>1. call.rev = Rev(call.what) /\ call.rev \in 1..MaxRevs
    BY <1>2, <1>4, MessageIs DEF Tidy, TidyCalls
  <2>2. call.what \in Existing \cup {System}
    BY <1>3, <2>1, DiscoveryAssumption DEF Rev, Existing, Whats
  <2> QED
    BY <1>1, <1>3, <1>4, <2>1, <2>2, DueIs DEF call
<1>5. CASE call.do = "remove"
  <2>1. call.rev = 0 /\ (\/ call.what \in Ids /\ sources[call.what] <= 0
                         \/ ~On(settings, "discovery"))
    BY <1>2, <1>5, MessageIs DEF Tidy, TidyCalls
  <2>2. CASE call.what \in Ids /\ sources[call.what] <= 0
    <3>1. sources[call.what] \in -1..MaxRevs
      BY <2>2 DEF TInv, TypeOK
    <3>2. call.what \notin Existing \cup {System}
      BY <2>2, <3>1, DiscoveryAssumption DEF Existing
    <3> QED
      BY <1>3, <2>1, <3>2, DueIs DEF call
  <2>3. CASE ~On(settings, "discovery")
    <3>1. \A u \in Threads : ~Swaps(u)
      <4> SUFFICES ASSUME NEW u \in Threads, Swaps(u) PROVE FALSE
        OBVIOUS
      <4>1. u # t
        BY <1>1 DEF Swaps, call
      <4>2. \A c \in Range(jobs[t]) : c.do = "publish"
        BY <4>1 DEF Tidy, TidySwap
      <4> QED
        BY <1>2, <1>5, <4>2
    <3>2. ~On(active, "discovery")
      BY <2>3, <3>1 DEF Tidy, TidySwap
    <3> QED
      BY <1>3, <2>1, <3>2, DueIs DEF call
  <2> QED
    BY <2>1, <2>2, <2>3
<1> QED
  BY <1>2, <1>4, <1>5, MessageIs DEF call

\* With one call less the others are as tidy as before, and so are settings that wait.
LEMMA CallsStayTidy ==
    ASSUME TInv, Tidy, NEW t \in Threads, ~Idle(t), Head(jobs[t]).do # "swap",
           jobs' = [jobs EXCEPT ![t] = Tail(@)], UNCHANGED <<sources, active, settings>>
    PROVE  TidyCalls' /\ TidySwap'
<1>1. /\ \A u \in Threads : Range(jobs'[u]) \subseteq Range(jobs[u])
      /\ \A u \in Threads : Swaps(u)' <=> Swaps(u)
      /\ \A u \in Threads : Swaps(u) => jobs'[u] = jobs[u]
  BY DroppedIs
<1>2. TidyCalls'
  BY <1>1, DueStays DEF Tidy, TidyCalls
<1>3. (\A u \in Threads : ~Swaps(u)') => settings' = active'
  BY <1>1 DEF Tidy, TidySwap
<1>4. ASSUME NEW u \in Threads, Swaps(u)'
      PROVE  /\ \A v \in Threads \ {u} : \A call \in Range(jobs'[v]) : call.do = "publish"
             /\ (On(active', "discovery") /\ ~On(settings', "discovery")) =>
                   \A what \in Existing' \cup {System} : Unpublish(what) \in Range(jobs'[u])
  <2>1. Swaps(u) /\ jobs'[u] = jobs[u] /\ Existing' = Existing
    BY <1>1, <1>4, DueStays
  <2> QED
    BY <1>1, <2>1 DEF Tidy, TidySwap
<1>5. TidySwap'
  <2>1. \A what : Unpublish(what)' = Unpublish(what)
    BY DEF Unpublish
  <2> QED
    BY <1>3, <1>4, <2>1 DEF TidySwap, On
<1> QED
  BY <1>2, <1>5

\* A publish that does nothing: discovery is off, or MQTT and a connection is to come.
LEMMA SkipIsTidy == ASSUME TInv, Tidy, NEW t \in Threads, Skip(t), tidy' PROVE Tidy'
<1>1. /\ ~Idle(t) /\ Head(jobs[t]).do # "swap" /\ Gated(Head(jobs[t])) /\ Head(jobs[t]).do # "remove"
      /\ jobs' = [jobs EXCEPT ![t] = Tail(@)]
      /\ UNCHANGED <<sources, active, settings, conn, queue, retained>>
  BY DEF Skip, configVars
<1>2. Head(jobs[t]).do = "publish"
  BY <1>1, NextCallIs, MessageIs
<1>3. TidyCalls' /\ TidySwap'
  BY <1>1, CallsStayTidy
<1>4. TidyTopics' /\ QueueIsDue'
  BY <1>1, DueStays DEF Tidy, TidyTopics, QueueIsDue
<1>5. ASSUME NEW what \in Whats, NEW topic \in TopicsOf(what)
      PROVE  Covered(what, topic)'
  <2>1. Due(what) # 0 => conn \in {"off", "down"} \/ ~Gated(Head(jobs[t]))
    BY <1>2, DueIs DEF Gated, TInv, TypeOK, OnIsUp
  <2>2. Pending("remove", what) => Pending("remove", what)'
    BY <1>1, <1>2, DroppedIs DEF Pending
  <2>3. Due(what)' = Due(what) /\ Said(topic)' = Said(topic)
    BY <1>1, DueStays DEF Said, SaidIn
  <2> QED
    BY <1>1, <2>1, <2>2, <2>3 DEF Tidy, TidyCover, Covered
<1>6. TidyCover'
  BY <1>1, <1>5, DueStays DEF TidyCover
<1> QED
  BY <1>3, <1>4, <1>6 DEF Tidy

\* Once its messages arrived, a call has made true what was due.
LEMMA SendIsTidy == ASSUME TInv, Tidy, NEW t \in Threads, Send(t) PROVE Tidy'
<1> DEFINE call == Head(jobs[t])
           m == Message(t, Range(HeadTopics(t)))
<1>1. /\ Calls(t) /\ ~Idle(t) /\ call.do # "swap"
      /\ jobs' = [jobs EXCEPT ![t] = Tail(@)]
      /\ UNCHANGED <<sources, active, settings, conn, queue>>
      /\ retained' = Stored(m)
  BY DEF Send, Calls, configVars
<1>2. call.what \in Whats /\ call.rev = Due(call.what)
  BY <1>1, CallIsDue, NextCallIs, MessageIs
<1>3. /\ DOMAIN m = TopicsOf(call.what) /\ m \in [DOMAIN m -> 0..MaxRevs]
      /\ \A topic \in TopicsOf(call.what) : m[topic] = Due(call.what)
  BY <1>1, <1>2, MessageIsTyped DEF HeadTopics, TopicsOf
<1> HIDE DEF m
<1>4. /\ DOMAIN retained' \subseteq TopicsOf(call.what) \cup DOMAIN retained
      /\ \A topic : Said(topic)' = IF topic \in TopicsOf(call.what) THEN Due(call.what) ELSE Said(topic)
  BY <1>1, <1>3, StoredIs DEF TInv, Said, SaidIn
<1>5. TidyCalls' /\ TidySwap'
  BY <1>1, CallsStayTidy
<1>6. TidyTopics' /\ QueueIsDue'
  BY <1>1, <1>2, <1>4, DueStays DEF Tidy, TidyTopics, QueueIsDue
<1>7. ASSUME NEW what \in Whats, NEW topic \in TopicsOf(what)
      PROVE  Covered(what, topic)'
  <2>1. Due(what)' = Due(what)
    BY <1>1, DueStays
  <2>2. CASE what = call.what
    BY <1>4, <2>1, <2>2 DEF Covered
  <2>3. CASE what # call.what
    <3>1. topic \notin TopicsOf(call.what)
      BY <2>3, TopicsAre DEF TopicsOf
    <3>2. \A do : Pending(do, what) => Pending(do, what)'
      BY <1>1, <2>3, DroppedIs DEF Pending
    <3> QED
      BY <1>1, <1>4, <2>1, <3>1, <3>2 DEF Tidy, TidyCover, Covered
  <2> QED
    BY <2>2, <2>3
<1>8. TidyCover'
  BY <1>1, <1>7, DueStays DEF TidyCover
<1> QED
  BY <1>5, <1>6, <1>8 DEF Tidy

\* Messages the client keeps say what is due.
LEMMA SendInVainIsTidy == ASSUME TInv, Tidy, NEW t \in Threads, SendInVain(t) PROVE Tidy'
<1> DEFINE call == Head(jobs[t])
           m == Message(t, Range(HeadTopics(t)))
<1>1. /\ Calls(t) /\ ~Idle(t) /\ call.do # "swap"
      /\ jobs' = [jobs EXCEPT ![t] = Tail(@)]
      /\ UNCHANGED <<sources, active, settings, retained>>
      /\ conn' = "down"
      /\ queue' = Over(m, queue)
  BY DEF SendInVain, Calls, configVars
<1>2. call.what \in Whats /\ call.rev = Due(call.what)
  BY <1>1, CallIsDue, NextCallIs, MessageIs
<1>3. /\ DOMAIN m = TopicsOf(call.what) /\ m \in [DOMAIN m -> 0..MaxRevs]
      /\ \A topic \in TopicsOf(call.what) : m[topic] = Due(call.what)
  BY <1>1, <1>2, MessageIsTyped DEF HeadTopics, TopicsOf
<1> HIDE DEF m
<1>4. /\ DOMAIN queue' = TopicsOf(call.what) \cup DOMAIN queue
      /\ \A topic \in DOMAIN queue' :
            queue'[topic] = IF topic \in TopicsOf(call.what) THEN Due(call.what) ELSE queue[topic]
  BY <1>1, <1>3, KeptIs, ZenonT(30) DEF TInv
<1>5. TidyCalls' /\ TidySwap'
  BY <1>1, CallsStayTidy
<1>6. TidyTopics'
  BY <1>1, <1>2, <1>4, DueStays DEF Tidy, TidyTopics
<1>7. QueueIsDue'
  <2>1. \A topic \in TopicsOf(call.what) : topic.what = call.what
    BY TopicsAre DEF TopicsOf
  <2> QED
    BY <1>1, <1>4, <2>1, DueStays DEF Tidy, QueueIsDue
<1>8. ASSUME NEW what \in Whats, NEW topic \in TopicsOf(what)
      PROVE  Covered(what, topic)'
  <2>1. Due(what)' = Due(what) /\ Said(topic)' = Said(topic)
    BY <1>1, DueStays DEF Said, SaidIn
  <2>2. CASE what = call.what
    BY <1>4, <2>2 DEF Covered
  <2>3. CASE what # call.what
    <3>1. \A do : Pending(do, what) => Pending(do, what)'
      BY <1>1, <2>3, DroppedIs DEF Pending
    <3> QED
      BY <1>1, <1>4, <2>1, <3>1 DEF Tidy, TidyCover, Covered
  <2> QED
    BY <2>2, <2>3
<1>9. TidyCover'
  BY <1>1, <1>8, DueStays DEF TidyCover
<1> QED
  BY <1>5, <1>6, <1>7, <1>9 DEF Tidy

\* Settings applied in order: what is not due any more is removed by the same thread, and
\* the connection to come publishes what is.
LEMMA ReconfigureIsTidy == ASSUME TInv, Tidy, NEW t \in Threads, Reconfigure(t), tidy' PROVE Tidy'
<1>1. /\ ~Idle(t) /\ Head(jobs[t]).do = "swap" /\ Swaps(t)
      /\ Head(jobs[t]) = Swap(settings)
      /\ Tail(jobs[t]) \in Seq(Messages)
      /\ Range(jobs[t]) = {Head(jobs[t])} \cup Range(Tail(jobs[t]))
  BY NextCallIs DEF Reconfigure, Swaps
<1>2. /\ active' = settings /\ conn' \in {"down", "off"}
      /\ queue = Empty /\ queue' = Empty /\ DOMAIN Empty = {}
      /\ settings["discovery_prefix"] = active["discovery_prefix"]
      /\ jobs' = [jobs EXCEPT ![t] = Tail(@)]
      /\ UNCHANGED <<settings, sources, retained>>
  BY <1>1, SwapIs DEF Reconfigure, configVars, Empty
<1>3. /\ jobs'[t] = Tail(jobs[t])
      /\ \A u \in Threads \ {t} : jobs'[u] = jobs[u]
  BY <1>2 DEF TInv, JobsAreTyped
<1>4. \A u \in Threads : Range(jobs'[u]) \subseteq Range(jobs[u])
  BY <1>1, <1>3
<1>5. \A u \in Threads : \A call \in Range(jobs[u]) : call \in Range(jobs'[u]) \/ call.do = "swap"
  BY <1>1, <1>3
<1>6. TidyCalls'
  BY <1>2, <1>4 DEF Tidy, TidyCalls, Rev, On
<1>7. \A u \in Threads : ~Swaps(u)'
  <2>1. ASSUME NEW u \in Threads \ {t} PROVE ~Swaps(u)
    <3>1. \A call \in Range(jobs[u]) : call.do = "publish"
      BY <1>1, <2>1 DEF Tidy, TidySwap
    <3>2. ~Idle(u) => Head(jobs[u]) \in Range(jobs[u])
      BY NextCallIs
    <3> QED
      BY <3>1, <3>2 DEF Swaps
  <2>2. \A u \in Threads \ {t} : ~Swaps(u)'
    BY <1>3, <2>1 DEF Swaps, Idle
  <2>3. Tail(jobs[t]) # <<>> => Head(Tail(jobs[t])) \in Messages
    BY <1>1, FirstAndRest
  <2>4. ~Swaps(t)'
    BY <1>3, <2>3, MessageIs DEF Swaps, Idle
  <2> QED
    BY <2>2, <2>4
<1>8. TidySwap'
  BY <1>2, <1>7 DEF TidySwap
<1>9. \A what : TopicsOf(what)' = TopicsOf(what)
  BY <1>2 DEF TopicsOf, Topics, SourceTopics, SystemTopics
<1>10. TidyTopics' /\ QueueIsDue'
  BY <1>2, <1>9 DEF Tidy, TidyTopics, QueueIsDue
<1>11. ASSUME NEW what \in Whats, NEW topic \in TopicsOf(what)
       PROVE  Covered(what, topic)'
  <2>1. Said(topic)' = Said(topic) /\ (Pending("remove", what) => Pending("remove", what)')
    BY <1>2, <1>5 DEF Said, SaidIn, Pending
  <2>2. CASE Due(what)' # 0
    BY <1>2, <2>2 DEF Covered
  <2>3. CASE Due(what)' = 0 /\ Due(what) = 0
    BY <1>2, <2>1, <2>3 DEF Tidy, TidyCover, Covered
  <2>4. CASE Due(what)' = 0 /\ Due(what) # 0
    <3>1. On(active, "discovery") /\ what \in Existing \cup {System}
      BY <2>4, DueIs
    <3>2. ~On(settings, "discovery")
      BY <1>2, <2>4, <3>1, DiscoveryAssumption DEF Due, On, Existing
    <3>3. Unpublish(what) \in Range(jobs[t])
      BY <1>1, <3>1, <3>2 DEF Tidy, TidySwap
    <3>4. Unpublish(what) \in Range(jobs'[t]) /\ Unpublish(what).do = "remove" /\ Unpublish(what).what = what
      BY <1>5, <3>3 DEF Unpublish
    <3>5. Pending("remove", what)'
      BY <3>4 DEF Pending
    <3> QED
      BY <2>4, <3>5 DEF Covered
  <2> QED
    BY <2>2, <2>3, <2>4
<1>12. TidyCover'
  BY <1>9, <1>11 DEF TidyCover
<1> QED
  BY <1>6, <1>8, <1>10, <1>12 DEF Tidy

\* The thread of a connection publishes whatever is due.
LEMMA ConnectIsTidy == ASSUME TInv, Tidy, NEW t \in Threads, Connect(t) PROVE Tidy'
<1>1. /\ All \in Seq(Messages)
      /\ Range(All) = {Publish(System, 1)} \cup {Publish(id, sources[id]) : id \in Existing}
  BY AllIs DEF TInv, TypeOK
<1>2. /\ Does(t, All) /\ UNCHANGED <<settings, sources, active, queue, retained>>
  BY DEF Connect, configVars
<1>3. /\ Range(jobs[t]) = {}
      /\ Range(jobs'[t]) = Range(All)
      /\ \A u \in Threads \ {t} : jobs'[u] = jobs[u]
      /\ \A u \in Threads : Swaps(u)' <=> Swaps(u)
      /\ ~Swaps(t)
  BY <1>1, <1>2, GivenIs
<1>4. \A call \in Range(All) : /\ call.do = "publish" /\ call.what \in Existing \cup {System}
                               /\ call.rev = Rev(call.what)
  BY <1>1, DiscoveryAssumption DEF Publish, Rev, Existing
<1>5. TidyCalls'
  BY <1>2, <1>3, <1>4, DueStays DEF Tidy, TidyCalls
<1>6. TidySwap'
  <2>1. \A what : Unpublish(what)' = Unpublish(what)
    BY DEF Unpublish
  <2> QED
    BY <1>2, <1>3, <1>4, <2>1, DueStays DEF Tidy, TidySwap, On
<1>7. TidyTopics' /\ QueueIsDue'
  BY <1>2, DueStays DEF Tidy, TidyTopics, QueueIsDue
<1>8. ASSUME NEW what \in Whats, NEW topic \in TopicsOf(what)
      PROVE  Covered(what, topic)'
  <2>1. Due(what)' = Due(what) /\ Said(topic)' = Said(topic)
    BY <1>2, DueStays DEF Said, SaidIn
  <2>2. CASE Due(what) # 0
    <3>1. what \in Existing \cup {System}
      BY <2>2, DueIs
    <3>2. PICK rev : Publish(what, rev) \in Range(All)
      BY <1>1, <3>1
    <3>3. Publish(what, rev).do = "publish" /\ Publish(what, rev).what = what
      BY DEF Publish
    <3>4. Pending("publish", what)'
      BY <1>3, <3>2, <3>3 DEF Pending
    <3> QED
      BY <2>1, <2>2, <3>4 DEF Covered
  <2>3. CASE Due(what) = 0
    <3>1. Pending("remove", what) => Pending("remove", what)'
      BY <1>3 DEF Pending
    <3> QED
      BY <1>2, <2>1, <2>3, <3>1 DEF Tidy, TidyCover, Covered
  <2> QED
    BY <2>2, <2>3
<1>9. TidyCover'
  BY <1>2, <1>8, DueStays DEF TidyCover
<1> QED
  BY <1>5, <1>6, <1>7, <1>9 DEF Tidy

\* A request for a source that crosses nothing: its own call is the only one for it.
LEMMA RequestIsTidy ==
    ASSUME TInv, Tidy, NEW t \in Threads, NEW id \in Ids, NEW rev \in 0..MaxRevs, NEW call \in Messages,
           Does(t, <<call>>), sources' = [sources EXCEPT ![id] = rev], ~Crossing(id),
           UNCHANGED <<settings, active, conn, queue, retained>>,
           call.what = id, call.rev = rev, call.do = IF rev = 0 THEN "remove" ELSE "publish"
    PROVE  Tidy'
<1>1. <<call>> \in Seq(Messages) /\ Range(<<call>>) = {call}
  BY RangeOfOne
<1>2. /\ Range(jobs[t]) = {}
      /\ Range(jobs'[t]) = {call}
      /\ \A u \in Threads \ {t} : jobs'[u] = jobs[u]
      /\ \A u \in Threads : Swaps(u)' <=> Swaps(u)
  BY <1>1, GivenIs
<1>3. /\ \A u \in Threads : ~Swaps(u)
      /\ \A u \in Threads : \A c \in Range(jobs[u]) : c.what # id
      /\ \A topic \in DOMAIN queue : topic.what # id
  BY DEF Crossing, Swapping, Swaps, Range
<1>4. /\ id # System
      /\ sources'[id] = rev
      /\ \A other : other # id => sources'[other] = sources[other]
  BY DiscoveryAssumption DEF TInv, TypeOK
<1>5. /\ Rev(id)' = rev /\ \A what : what # id => Rev(what)' = Rev(what)
      /\ \A what : what # id => Due(what)' = Due(what)
      /\ \A what : TopicsOf(what)' = TopicsOf(what)
  BY <1>4 DEF Rev, Due, TopicsOf, Topics, SourceTopics, SystemTopics, On
<1>6. TidyCalls'
  <2>1. ASSUME NEW u \in Threads, NEW c \in Range(jobs'[u])
        PROVE  /\ c.do = "publish" => c.rev = Rev(c.what)'
               /\ c.do = "remove" => \/ c.what \in Ids /\ sources'[c.what] <= 0
                                     \/ ~On(settings', "discovery")
    <3>1. CASE c = call
      BY <1>4, <1>5, <3>1
    <3>2. CASE c # call
      <4>1. c \in Range(jobs[u]) /\ c.what # id
        BY <1>2, <1>3, <3>2
      <4> QED
        BY <1>4, <1>5, <4>1 DEF Tidy, TidyCalls, On
    <3> QED
      BY <3>1, <3>2
  <2> QED
    BY <2>1 DEF TidyCalls, On
<1>7. TidySwap'
  BY <1>2, <1>3 DEF Tidy, TidySwap
<1>8. TidyTopics' /\ QueueIsDue'
  BY <1>3, <1>5 DEF Tidy, TidyTopics, QueueIsDue
<1>9. ASSUME NEW what \in Whats, NEW topic \in TopicsOf(what)
      PROVE  Covered(what, topic)'
  <2>1. Said(topic)' = Said(topic)
    BY DEF Said, SaidIn
  <2>2. CASE what # id
    <3>1. \A do : Pending(do, what) => Pending(do, what)'
      BY <1>2 DEF Pending
    <3> QED
      BY <1>5, <2>1, <2>2, <3>1 DEF Tidy, TidyCover, Covered
  <2>3. CASE what = id /\ rev # 0
    <3>1. Pending("publish", id)'
      BY <1>2, <2>3 DEF Pending
    <3>2. CASE On(active, "discovery")
      <4>1. Due(id)' # 0
        BY <1>4, <2>3, <3>2 DEF Due, On
      <4> QED
        BY <2>3, <3>1, <4>1 DEF Covered
    <3>3. CASE ~On(active, "discovery")
      <4>1. Due(id)' = 0 /\ Due(id) = 0
        BY <3>3 DEF Due, On
      <4>2. ~Pending("remove", id)
        BY <1>3 DEF Pending
      <4>3. topic \notin DOMAIN queue
        BY <1>3, <2>3, TopicsAre DEF TopicsOf
      <4> QED
        BY <2>1, <2>3, <4>1, <4>2, <4>3 DEF Tidy, TidyCover, Covered
    <3> QED
      BY <3>2, <3>3
  <2>4. CASE what = id /\ rev = 0
    <3>1. Pending("remove", id)'
      BY <1>2, <2>4 DEF Pending
    <3>2. Due(id)' = 0
      BY <1>4, <2>4 DEF Due, On
    <3> QED
      BY <2>4, <3>1, <3>2 DEF Covered
  <2> QED
    BY <2>2, <2>3, <2>4
<1>10. TidyCover'
  BY <1>5, <1>9 DEF TidyCover
<1> QED
  BY <1>6, <1>7, <1>8, <1>10 DEF Tidy

\* The three requests are such ones.
LEMMA RequestIs ==
    ASSUME TInv, NEW t \in Threads, NEW id \in Ids,
           AddSource(t, id) \/ UpdateSource(t, id) \/ DeleteSource(t, id)
    PROVE  /\ UNCHANGED <<up, settings, active, conn, queue, retained>>
           /\ Crossed(id)
           /\ \E rev \in 0..MaxRevs, call \in Messages :
                /\ Does(t, <<call>>)
                /\ sources' = [sources EXCEPT ![id] = rev]
                /\ call.what = id /\ call.rev = rev
                /\ call.do = IF rev = 0 THEN "remove" ELSE "publish"
<1>1. /\ UNCHANGED <<up, settings, active, conn, queue, retained>> /\ Crossed(id)
      /\ id \in Whats
  BY DEF AddSource, UpdateSource, DeleteSource, configVars, Whats
<1>2. CASE AddSource(t, id) \/ UpdateSource(t, id)
  <2>1. revs \in 1..MaxRevs /\ revs < MaxRevs
    BY <1>2 DEF AddSource, UpdateSource, NewRev, TInv
  <2>2. revs + 1 \in 1..MaxRevs /\ revs + 1 \in 0..MaxRevs /\ revs + 1 # 0
    BY <2>1, DiscoveryAssumption
  <2> DEFINE rev == revs + 1
             call == Publish(id, rev)
  <2>3. /\ Does(t, <<call>>) /\ sources' = [sources EXCEPT ![id] = rev]
        /\ call.what = id /\ call.rev = rev /\ call.do = "publish"
    BY <1>2 DEF AddSource, UpdateSource, Publish
  <2>4. call \in Messages /\ rev \in 0..MaxRevs /\ rev # 0
    BY <1>1, <2>2, CallIs
  <2> HIDE DEF call, rev
  <2> QED
    BY <1>1, <2>3, <2>4
<1>3. CASE DeleteSource(t, id)
  <2> DEFINE call == Unpublish(id)
  <2>1. /\ Does(t, <<call>>) /\ sources' = [sources EXCEPT ![id] = 0]
        /\ call.what = id /\ call.rev = 0 /\ call.do = "remove"
    BY <1>3 DEF DeleteSource, Unpublish
  <2>2. call \in Messages /\ 0 \in 0..MaxRevs
    BY <1>1, DiscoveryAssumption DEF Unpublish, Messages
  <2> HIDE DEF call
  <2> QED
    BY <1>1, <2>1, <2>2
<1> QED
  BY <1>2, <1>3

\* Each of the three requests keeps what is tidy.
LEMMA RequestsAreTidy ==
    ASSUME TInv, Tidy, NEW t \in Threads, NEW id \in Ids,
           AddSource(t, id) \/ UpdateSource(t, id) \/ DeleteSource(t, id), tidy'
    PROVE  Tidy'
<1>1. ~Crossing(id) /\ UNCHANGED <<settings, active, conn, queue, retained>>
  BY RequestIs DEF Crossed
<1>2. PICK rev \in 0..MaxRevs, call \in Messages :
          /\ Does(t, <<call>>)
          /\ sources' = [sources EXCEPT ![id] = rev]
          /\ call.what = id /\ call.rev = rev
          /\ call.do = IF rev = 0 THEN "remove" ELSE "publish"
  BY RequestIs
<1> QED
  BY <1>1, <1>2, RequestIsTidy

\* A change of settings that comes alone.
LEMMA UpdateMqttIsTidy ==
    ASSUME TInv, Tidy, NEW t \in Threads, NEW raw, UpdateMqtt(t, raw), tidy'
    PROVE  Tidy'
<1> DEFINE swap == Swap(settings')
<1>1. /\ \A u \in Threads : jobs[u] = <<>>
      /\ UNCHANGED <<sources, active, conn, queue, retained>>
  BY DEF UpdateMqtt, Quiet, Idle
<1>2. PICK rest \in Seq(Messages) :
          /\ jobs'[t] # <<>> /\ Head(jobs'[t]) = swap
          /\ Range(jobs'[t]) = {swap} \cup Range(rest)
          /\ Range(rest) = IF On(settings, "discovery") /\ ~On(settings', "discovery")
                           THEN {Unpublish(what) : what \in Existing \cup {System}} ELSE {}
          /\ \A u \in Threads \ {t} : jobs'[u] = jobs[u]
  BY UpdateMqttIs
<1> HIDE DEF swap
<1>3. Range(jobs'[t]) = {swap} \cup Range(rest) /\ \A u \in Threads \ {t} : jobs'[u] = <<>>
  BY <1>1, <1>2
<1>4. swap.do = "swap"
  BY SwapIs DEF swap
<1>5. \A call \in Range(rest) : call.do = "remove" /\ ~On(settings', "discovery")
  BY <1>2 DEF Unpublish
<1>6. settings = active
  BY <1>1 DEF Tidy, TidySwap, Swaps, Idle
<1>7. TidyCalls'
  <2>1. ASSUME NEW u \in Threads, NEW c \in Range(jobs'[u])
        PROVE  /\ c.do # "publish"
               /\ c.do = "remove" => ~On(settings', "discovery")
    BY <1>3, <1>4, <1>5, RangeOfNone
  <2> QED
    BY <2>1 DEF TidyCalls, On
<1>8. Swaps(t)' /\ \A u \in Threads \ {t} : ~Swaps(u)'
  BY <1>2, <1>3, <1>4 DEF Swaps, Idle
<1>9. TidySwap'
  <2>1. \A u \in Threads \ {t} : Range(jobs'[u]) = {}
    BY <1>3, RangeOfNone
  <2>2. (On(active, "discovery") /\ ~On(settings', "discovery")) =>
             \A what \in Existing \cup {System} : Unpublish(what) \in Range(jobs'[t])
    BY <1>2, <1>3, <1>6
  <2>3. /\ \A what : Unpublish(what)' = Unpublish(what)
        /\ Existing' = Existing
        /\ On(active, "discovery")' = On(active, "discovery")
        /\ On(settings, "discovery")' = On(settings', "discovery")
    BY <1>1, DueStays DEF Unpublish, On
  <2> QED
    BY <1>8, <2>1, <2>2, <2>3 DEF TidySwap
<1>10. TidyTopics' /\ QueueIsDue'
  BY <1>1, DueStays DEF Tidy, TidyTopics, QueueIsDue
<1>11. ASSUME NEW what \in Whats, NEW topic \in TopicsOf(what)
       PROVE  Covered(what, topic)'
  <2>1. Due(what)' = Due(what) /\ Said(topic)' = Said(topic)
    BY <1>1, DueStays DEF Said, SaidIn
  <2>2. \A do : ~Pending(do, what)
    BY <1>1, RangeOfNone DEF Pending
  <2> QED
    BY <1>1, <2>1, <2>2 DEF Tidy, TidyCover, Covered
<1>12. TidyCover'
  BY <1>1, <1>11, DueStays DEF TidyCover
<1> QED
  BY <1>7, <1>9, <1>10, <1>12 DEF Tidy

\* What the client kept arrives after whatever was published meanwhile, and says the same.
LEMMA ResendIsTidy == ASSUME TInv, Tidy, Resend PROVE Tidy'
<1>1. /\ conn = "greeting" /\ conn' = "up" /\ queue' = Empty /\ DOMAIN Empty = {}
      /\ retained' = Stored(queue)
      /\ UNCHANGED <<settings, sources, active, jobs>>
  BY DEF Resend, configVars, Empty
<1>2. /\ DOMAIN retained' \subseteq DOMAIN queue \cup DOMAIN retained
      /\ \A topic : Said(topic)' = IF topic \in DOMAIN queue THEN queue[topic] ELSE Said(topic)
  BY <1>1, StoredIs DEF TInv, MessagesAreTyped, Said, SaidIn
<1>3. TidyCalls' /\ TidySwap'
  BY <1>1, DueStays DEF Tidy, TidyCalls, TidySwap, Swaps, Idle, On, Unpublish
<1>4. TidyTopics' /\ QueueIsDue'
  BY <1>1, <1>2, DueStays DEF Tidy, TidyTopics, QueueIsDue
<1>5. ASSUME NEW what \in Whats, NEW topic \in TopicsOf(what)
      PROVE  Covered(what, topic)'
  <2>1. Due(what)' = Due(what)
    BY <1>1, DueStays
  <2>2. CASE topic \in DOMAIN queue
    <3>1. queue[topic] = Due(what)
      BY <2>2, TopicsAre DEF Tidy, QueueIsDue, TopicsOf
    <3> QED
      BY <1>2, <2>1, <2>2, <3>1 DEF Covered
  <2>3. CASE topic \notin DOMAIN queue
    <3>1. Said(topic)' = Said(topic) /\ \A do : Pending(do, what)' = Pending(do, what)
      BY <1>1, <1>2, <2>3 DEF Pending
    <3> QED
      BY <1>1, <2>1, <2>3, <3>1 DEF Tidy, TidyCover, Covered
  <2> QED
    BY <2>2, <2>3
<1>6. TidyCover'
  BY <1>1, <1>5, DueStays DEF TidyCover
<1> QED
  BY <1>3, <1>4, <1>6 DEF Tidy

\* After a loss the next connection publishes what is due.
LEMMA LossIsTidy == ASSUME TInv, Tidy, Disconnect \/ BrokerForgets PROVE Tidy'
<1>1. /\ conn' = "down" /\ DOMAIN Empty = {} /\ retained' \in {retained, Empty}
      /\ UNCHANGED <<settings, sources, active, jobs, queue>>
  BY DEF Disconnect, BrokerForgets, configVars, Empty
<1>2. TidyCalls' /\ TidySwap'
  BY <1>1, DueStays DEF Tidy, TidyCalls, TidySwap, Swaps, Idle, On, Unpublish
<1>3. TidyTopics' /\ QueueIsDue'
  BY <1>1, DueStays DEF Tidy, TidyTopics, QueueIsDue
<1>4. ASSUME NEW what \in Whats, NEW topic \in TopicsOf(what)
      PROVE  Covered(what, topic)'
  <2>1. Due(what)' = Due(what) /\ Said(topic)' \in {Said(topic), 0}
    BY <1>1, DueStays DEF Said, SaidIn
  <2>2. \A do : Pending(do, what)' = Pending(do, what)
    BY <1>1 DEF Pending
  <2> QED
    BY <1>1, <2>1, <2>2 DEF Tidy, TidyCover, Covered
<1>5. TidyCover'
  BY <1>1, <1>4, DueStays DEF TidyCover
<1> QED
  BY <1>2, <1>3, <1>5 DEF Tidy

\* The process ends with nothing to do.
LEMMA StopIsTidy == ASSUME TInv, Tidy, Stop, tidy' PROVE Tidy'
<1>1. /\ conn' = "off" /\ queue = Empty /\ queue' = Empty /\ DOMAIN Empty = {}
      /\ \A t \in Threads : jobs[t] = <<>> /\ jobs'[t] = <<>>
      /\ UNCHANGED <<settings, sources, active, retained>>
  BY DEF Stop, Exit, Quiet, Idle, Empty
<1>2. \A t \in Threads : ~Swaps(t) /\ ~Swaps(t)' /\ Range(jobs[t]) = {} /\ Range(jobs'[t]) = {}
  BY <1>1, RangeOfNone DEF Swaps, Idle
<1>3. TidyCalls' /\ TidySwap'
  BY <1>1, <1>2 DEF Tidy, TidyCalls, TidySwap
<1>4. TidyTopics' /\ QueueIsDue'
  BY <1>1, DueStays DEF Tidy, TidyTopics, QueueIsDue
<1>5. ASSUME NEW what \in Whats, NEW topic \in TopicsOf(what)
      PROVE  Covered(what, topic)'
  <2>1. Due(what)' = Due(what) /\ Said(topic)' = Said(topic) /\ \A do : ~Pending(do, what)
    BY <1>1, <1>2, DueStays DEF Said, SaidIn, Pending
  <2> QED
    BY <1>1, <2>1 DEF Tidy, TidyCover, Covered
<1>6. TidyCover'
  BY <1>1, <1>5, DueStays DEF TidyCover
<1> QED
  BY <1>3, <1>4, <1>6 DEF Tidy

\* A start with the same discovery and prefix as before.
LEMMA StartIsTidy == ASSUME TInv, Tidy, Start, tidy' PROVE Tidy'
<1>1. /\ conn' \in {"down", "off"} /\ queue = Empty /\ DOMAIN Empty = {}
      /\ \A t \in Threads : jobs[t] = <<>>
      /\ active' = settings'
      /\ active'["discovery"] = active["discovery"]
      /\ active'["discovery_prefix"] = active["discovery_prefix"]
      /\ UNCHANGED <<sources, queue, retained, jobs>>
  BY DEF Start, Load, TInv, DownIsQuiet, Quiet, Idle, Empty
<1>2. \A t \in Threads : ~Swaps(t) /\ ~Swaps(t)' /\ Range(jobs[t]) = {} /\ Range(jobs'[t]) = {}
  BY <1>1, RangeOfNone DEF Swaps, Idle
<1>3. TidyCalls' /\ TidySwap'
  BY <1>1, <1>2 DEF Tidy, TidyCalls, TidySwap
<1>4. /\ \A what : TopicsOf(what)' = TopicsOf(what)
      /\ \A what : Due(what)' = Due(what)
  BY <1>1 DEF TopicsOf, Topics, SourceTopics, SystemTopics, Due, On
<1>5. TidyTopics' /\ QueueIsDue'
  BY <1>1, <1>4 DEF Tidy, TidyTopics, QueueIsDue
<1>6. ASSUME NEW what \in Whats, NEW topic \in TopicsOf(what)
      PROVE  Covered(what, topic)'
  <2>1. Said(topic)' = Said(topic) /\ \A do : ~Pending(do, what)
    BY <1>1, <1>2 DEF Said, SaidIn, Pending
  <2> QED
    BY <1>1, <1>4, <2>1 DEF Tidy, TidyCover, Covered
<1>7. TidyCover'
  BY <1>4, <1>6 DEF TidyCover
<1> QED
  BY <1>3, <1>5, <1>7 DEF Tidy

\* Steps that leave all this alone.
LEMMA SameIsTidy ==
    ASSUME Tidy, UNCHANGED <<settings, sources, active, conn, queue, retained, jobs>>
    PROVE  Tidy'
<1>1. TidyCalls' /\ TidySwap'
  BY DueStays DEF Tidy, TidyCalls, TidySwap, Swaps, Idle, On, Unpublish
<1>2. TidyTopics' /\ QueueIsDue'
  BY DueStays DEF Tidy, TidyTopics, QueueIsDue
<1>3. ASSUME NEW what \in Whats, NEW topic \in TopicsOf(what)
      PROVE  Covered(what, topic)'
  <2>1. /\ Due(what)' = Due(what) /\ Said(topic)' = Said(topic)
        /\ \A do : Pending(do, what)' = Pending(do, what)
    BY DueStays DEF Said, SaidIn, Pending
  <2> QED
    BY <2>1 DEF Tidy, TidyCover, Covered
<1>4. TidyCover'
  BY <1>3, DueStays DEF TidyCover
<1> QED
  BY <1>1, <1>2, <1>4 DEF Tidy

\* At first there is nothing to be tidy about: nothing is retained, nothing is connected.
LEMMA InitMInv == Init => MInv
<1> SUFFICES ASSUME Init PROVE Tidy
  BY DEF MInv
<1>1. /\ \A t \in Threads : jobs[t] = <<>>
      /\ settings = active /\ conn = "off" /\ queue = Empty /\ retained = Empty
      /\ DOMAIN Empty = {}
  BY DEF Init, Empty
<1>2. \A t \in Threads : ~Swaps(t) /\ Range(jobs[t]) = {}
  BY <1>1, RangeOfNone DEF Swaps, Idle
<1>3. ASSUME NEW what, NEW topic PROVE Covered(what, topic)
  BY <1>1 DEF Covered, Said, SaidIn
<1> QED
  BY <1>1, <1>2, <1>3 DEF Tidy, TidyCalls, TidySwap, TidyTopics, QueueIsDue, TidyCover

\* No step makes tidy what was not.
LEMMA TidyWas == TInv /\ [Next]_vars /\ tidy' => tidy
BY DEF TInv, TypeOK, Next, vars, discoveryVars, Skip, Send, SendInVain, Raise, Reconfigure, Connect,
       AddSource, UpdateSource, DeleteSource, Crossed, UpdateMqtt, UpdateMqttFails, EditByHand,
       Resend, Disconnect, BrokerForgets, Stop, Start

\* Every step keeps what is tidy, or is remembered as one that does not.
LEMMA NextMInv == TInv /\ MInv /\ [Next]_vars => MInv'
<1> SUFFICES ASSUME TInv, MInv, [Next]_vars, tidy' PROVE Tidy'
  BY DEF MInv
<1>1. Tidy
  BY TidyWas DEF MInv
<1>2. CASE UNCHANGED vars
  BY <1>1, <1>2, SameIsTidy DEF vars, configVars, discoveryVars
<1>3. ASSUME NEW t \in Threads,
             Skip(t) \/ Send(t) \/ SendInVain(t) \/ Raise(t) \/ Reconfigure(t) \/ Connect(t)
      PROVE  Tidy'
  <2>1. ~Raise(t)
    BY DEF Raise
  <2> QED
    BY <1>1, <1>3, <2>1, SkipIsTidy, SendIsTidy, SendInVainIsTidy, ReconfigureIsTidy, ConnectIsTidy
<1>4. ASSUME NEW t \in Threads, NEW id \in Ids,
             AddSource(t, id) \/ UpdateSource(t, id) \/ DeleteSource(t, id)
      PROVE  Tidy'
  BY <1>1, <1>4, RequestsAreTidy
<1>5. ASSUME NEW t \in Threads, NEW raw \in Raw, UpdateMqtt(t, raw)
      PROVE  Tidy'
  BY <1>1, <1>5, UpdateMqttIsTidy
<1>6. ASSUME NEW raw \in Raw, UpdateMqttFails(raw) \/ EditByHand(raw)
      PROVE  Tidy'
  BY <1>1, <1>6, SameIsTidy DEF UpdateMqttFails, EditByHand, EditFile, discoveryVars
<1>7. CASE Resend \/ Disconnect \/ BrokerForgets \/ Stop \/ Start
  BY <1>1, <1>7, ResendIsTidy, LossIsTidy, StopIsTidy, StartIsTidy
<1> QED
  BY <1>2, <1>3, <1>4, <1>5, <1>6, <1>7 DEF Next

\* Home Assistant has exactly the entities there should be whenever nothing is going on
\* (publish_source_discovery, remove_source_discovery, controller.py), for any sources,
\* settings, number of threads and order of requests that was kept.
THEOREM EntitiesAreRight == Spec => []EntitiesMatch
<1>1. Spec => [](TInv /\ MInv)
  BY InitTInv, NextTInv, InitMInv, NextMInv, PTL DEF Spec
<1>2. TInv /\ MInv => EntitiesMatch
  <2> SUFFICES ASSUME TInv, MInv, Settled, tidy PROVE retained = Expected
    BY DEF EntitiesMatch
  <2>1. Tidy /\ conn = "up" /\ DOMAIN queue = {}
    BY DEF MInv, Settled, TInv, TypeOK
  <2>2. \A t \in Threads : Range(jobs[t]) = {}
    BY RangeOfNone DEF Settled, Quiet, Idle
  <2>3. \A what \in Whats : \A topic \in TopicsOf(what) : Said(topic) = Due(what)
    BY <2>1, <2>2 DEF Tidy, TidyCover, Covered, Pending
  <2>4. \A topic \in DOMAIN retained : retained[topic] \in 1..MaxRevs
    BY DEF TInv, TypeOK
  <2> DEFINE whats == {w \in Existing \cup {System} : Due(w) > 0}
             topics == UNION {TopicsOf(w) : w \in whats}
  <2>5. \A what \in Whats : what \in whats <=> Due(what) # 0
    BY DueIs, DiscoveryAssumption
  <2>6. whats \subseteq Whats
    BY DEF Existing, Whats
  <2>7. Expected = [topic \in topics |-> Due(topic.what)]
    BY DEF Expected, TopicsOf
  <2> HIDE DEF whats
  <2>8. ASSUME NEW topic \in DOMAIN retained PROVE topic \in topics
    <3>1. PICK what \in Whats : topic \in TopicsOf(what)
      BY <2>1 DEF Tidy, TidyTopics
    <3>2. Due(what) # 0
      BY <2>3, <2>4, <3>1, DiscoveryAssumption DEF Said, SaidIn
    <3> QED
      BY <2>5, <3>1, <3>2
  <2>9. ASSUME NEW topic \in topics
        PROVE  topic \in DOMAIN retained /\ retained[topic] = Due(topic.what)
    <3>1. PICK what \in whats : topic \in TopicsOf(what)
      OBVIOUS
    <3>2. what \in Whats /\ Due(what) # 0 /\ topic.what = what
      BY <2>5, <2>6, <3>1, TopicsAre DEF TopicsOf
    <3> QED
      BY <2>3, <3>1, <3>2 DEF Said, SaidIn
  <2>10. DOMAIN retained = topics
    BY <2>8, <2>9
  <2>11. retained = [topic \in DOMAIN retained |-> retained[topic]]
    BY DEF TInv, MessagesAreTyped
  <2> HIDE DEF topics
  <2> QED
    BY <2>7, <2>9, <2>10, <2>11
<1> QED
  BY <1>1, <1>2, PTL

-----------------------------------------------------------------------------
(* Entities return with a connection                                        *)
(*                                                                          *)
(* The same with less: while nothing is behind, whatever is due has been    *)
(* said, is queued or is to be published by a thread that has no change of  *)
(* settings to apply first.  What should be gone need not be.               *)

\* a thread is to publish an entity with the settings there are now
Coming(what) ==
    \E t \in Threads : ~Swaps(t) /\ \E call \in Range(jobs[t]) : call.do = "publish" /\ call.what = what

\* but for those behind settings that wait
FreshCalls ==
    \A t \in Threads : ~Swaps(t) => \A call \in Range(jobs[t]) :
        /\ call.do = "publish" => call.rev = Rev(call.what)
        /\ call.do = "remove" => call.what \in Ids /\ sources[call.what] <= 0

\* what is due has been said, or will be
FreshCover ==
    \A what \in Whats : \A topic \in TopicsOf(what) :
        Due(what) = 0 \/ Said(topic) = Due(what) \/ topic \in DOMAIN queue \/ Coming(what)

Fresh == conn # "off" /\ FreshCalls /\ QueueIsDue /\ FreshCover

RInv == (up /\ ~behind) => Fresh

\* A call says what is due.
LEMMA FreshCallIsDue ==
    ASSUME TInv, Fresh, NEW t \in Threads, Calls(t)
    PROVE  Head(jobs[t]).rev = Due(Head(jobs[t]).what)
<1> DEFINE call == Head(jobs[t])
<1>1. ~Idle(t) /\ ~Swaps(t) /\ call.do # "swap" /\ (call.do = "publish" => On(active, "discovery"))
  BY DEF Calls, Gated, Swaps
<1>2. call \in Messages /\ call \in Range(jobs[t])
  BY <1>1, NextCallIs
<1>3. call.what \in Whats
  BY <1>2, MessageIs
<1> HIDE DEF call
<1>4. CASE call.do = "publish"
  <2>1. call.rev = Rev(call.what) /\ call.rev \in 1..MaxRevs
    BY <1>1, <1>2, <1>4, MessageIs DEF Fresh, FreshCalls
  <2>2. call.what \in Existing \cup {System}
    BY <1>3, <2>1, DiscoveryAssumption DEF Rev, Existing, Whats
  <2> QED
    BY <1>1, <1>3, <1>4, <2>1, <2>2, DueIs DEF call
<1>5. CASE call.do = "remove"
  <2>1. call.rev = 0 /\ call.what \in Ids /\ sources[call.what] <= 0
    BY <1>1, <1>2, <1>5, MessageIs DEF Fresh, FreshCalls
  <2>2. sources[call.what] \in -1..MaxRevs
    BY <2>1 DEF TInv, TypeOK
  <2>3. call.what \notin Existing \cup {System}
    BY <2>1, <2>2, DiscoveryAssumption DEF Existing
  <2> QED
    BY <1>3, <2>1, <2>3, DueIs DEF call
<1> QED
  BY <1>2, <1>4, <1>5, MessageIs DEF call

\* With one call less the others are still about what there is, and nothing else to be
\* published has gone.
LEMMA CallsStayFresh ==
    ASSUME TInv, Fresh, NEW t \in Threads, ~Idle(t), Head(jobs[t]).do # "swap",
           jobs' = [jobs EXCEPT ![t] = Tail(@)], UNCHANGED <<sources, active>>
    PROVE  /\ FreshCalls'
           /\ \A what : Coming(what) =>
                Coming(what)' \/ (Head(jobs[t]).do = "publish" /\ Head(jobs[t]).what = what)
<1>1. /\ \A u \in Threads : Range(jobs'[u]) \subseteq Range(jobs[u])
      /\ \A u \in Threads : \A call \in Range(jobs[u]) :
           call \in Range(jobs'[u]) \/ call = Head(jobs[t])
      /\ \A u \in Threads : Swaps(u)' <=> Swaps(u)
  BY DroppedIs
<1>2. FreshCalls'
  BY <1>1, DueStays DEF Fresh, FreshCalls
<1> QED
  BY <1>1, <1>2 DEF Coming

\* While there may be a connection, a publish that does nothing has nothing to publish.
LEMMA SkipIsFresh == ASSUME TInv, Fresh, NEW t \in Threads, Skip(t) PROVE Fresh'
<1>1. /\ ~Idle(t) /\ Head(jobs[t]).do # "swap" /\ Gated(Head(jobs[t]))
      /\ jobs' = [jobs EXCEPT ![t] = Tail(@)]
      /\ UNCHANGED <<sources, active, conn, queue, retained>>
  BY DEF Skip, configVars
<1>2. Head(jobs[t]).do = "publish" /\ ~On(active, "discovery")
  BY <1>1, NextCallIs, MessageIs DEF Gated, Fresh, TInv, OnIsUp
<1>3. \A what \in Whats : Due(what)' = 0
  BY <1>1, <1>2, DueStays, DueIs
<1>4. FreshCalls'
  BY <1>1, CallsStayFresh
<1> QED
  BY <1>1, <1>3, <1>4, DueStays DEF Fresh, QueueIsDue, FreshCover

\* Messages that arrive or are kept say what is due.
LEMMA SendIsFresh == ASSUME TInv, Fresh, NEW t \in Threads, Send(t) \/ SendInVain(t) PROVE Fresh'
<1> DEFINE call == Head(jobs[t])
           m == Message(t, Range(HeadTopics(t)))
<1>1. /\ Calls(t) /\ ~Idle(t) /\ call.do # "swap"
      /\ jobs' = [jobs EXCEPT ![t] = Tail(@)]
      /\ UNCHANGED <<sources, active>>
      /\ conn' # "off"
      /\ \/ retained' = Stored(m) /\ queue' = queue
         \/ retained' = retained /\ queue' = Over(m, queue)
  BY DEF Send, SendInVain, Calls, configVars
<1>2. call.what \in Whats /\ call.rev = Due(call.what)
  BY <1>1, FreshCallIsDue, NextCallIs, MessageIs
<1>3. /\ DOMAIN m = TopicsOf(call.what) /\ m \in [DOMAIN m -> 0..MaxRevs]
      /\ \A topic \in TopicsOf(call.what) : m[topic] = Due(call.what)
  BY <1>1, <1>2, MessageIsTyped DEF HeadTopics, TopicsOf
<1> HIDE DEF m
<1>4. FreshCalls' /\ \A what : what # call.what => (Coming(what) => Coming(what)')
  BY <1>1, CallsStayFresh
<1>5. CASE retained' = Stored(m) /\ queue' = queue
  <2>1. \A topic : Said(topic)' = IF topic \in TopicsOf(call.what) THEN Due(call.what) ELSE Said(topic)
    BY <1>3, <1>5, StoredIs DEF TInv, Said, SaidIn
  <2>2. QueueIsDue'
    BY <1>1, <1>5, DueStays DEF Fresh, QueueIsDue
  <2>3. ASSUME NEW what \in Whats, NEW topic \in TopicsOf(what)
        PROVE  Due(what)' = 0 \/ Said(topic)' = Due(what)' \/ topic \in DOMAIN queue' \/ Coming(what)'
    <3>1. Due(what)' = Due(what)
      BY <1>1, DueStays
    <3>2. CASE what = call.what
      BY <2>1, <3>1, <3>2
    <3>3. CASE what # call.what
      <4>1. topic \notin TopicsOf(call.what)
        BY <3>3, TopicsAre DEF TopicsOf
      <4> QED
        BY <1>4, <1>5, <2>1, <3>1, <3>3, <4>1 DEF Fresh, FreshCover
    <3> QED
      BY <3>2, <3>3
  <2>4. FreshCover'
    BY <1>1, <2>3, DueStays DEF FreshCover
  <2> QED
    BY <1>1, <1>4, <2>2, <2>4 DEF Fresh
<1>6. CASE retained' = retained /\ queue' = Over(m, queue)
  <2>1. /\ DOMAIN queue' = TopicsOf(call.what) \cup DOMAIN queue
        /\ \A topic \in DOMAIN queue' :
              queue'[topic] = IF topic \in TopicsOf(call.what) THEN Due(call.what) ELSE queue[topic]
    BY <1>3, <1>6, KeptIs DEF TInv
  <2>2. \A topic \in TopicsOf(call.what) : topic.what = call.what
    BY TopicsAre DEF TopicsOf
  <2>3. QueueIsDue'
    BY <1>1, <2>1, <2>2, DueStays DEF Fresh, QueueIsDue
  <2>4. ASSUME NEW what \in Whats, NEW topic \in TopicsOf(what)
        PROVE  Due(what)' = 0 \/ Said(topic)' = Due(what)' \/ topic \in DOMAIN queue' \/ Coming(what)'
    <3>1. Due(what)' = Due(what) /\ Said(topic)' = Said(topic)
      BY <1>1, <1>6, DueStays DEF Said, SaidIn
    <3>2. CASE what = call.what
      BY <2>1, <3>2
    <3>3. CASE what # call.what
      BY <1>4, <2>1, <3>1, <3>3 DEF Fresh, FreshCover
    <3> QED
      BY <3>2, <3>3
  <2>5. FreshCover'
    BY <1>1, <2>4, DueStays DEF FreshCover
  <2> QED
    BY <1>1, <1>4, <2>3, <2>5 DEF Fresh
<1> QED
  BY <1>1, <1>5, <1>6

\* The thread of a connection publishes whatever is due, and makes up for what went
\* wrong before when nothing older is still to come.
LEMMA ConnectIsFresh ==
    ASSUME TInv, NEW t \in Threads, Connect(t), Fresh \/ (Quiet /\ QueueIsDue)
    PROVE  Fresh'
<1>1. /\ All \in Seq(Messages)
      /\ Range(All) = {Publish(System, 1)} \cup {Publish(id, sources[id]) : id \in Existing}
  BY AllIs DEF TInv, TypeOK
<1>2. /\ Does(t, All) /\ conn' = "greeting"
      /\ UNCHANGED <<sources, active, queue, retained>>
  BY DEF Connect, configVars
<1>3. /\ Range(jobs'[t]) = Range(All)
      /\ \A u \in Threads \ {t} : jobs'[u] = jobs[u]
      /\ \A u \in Threads : Swaps(u)' <=> Swaps(u)
      /\ ~Swaps(t)
  BY <1>1, <1>2, GivenIs
<1>4. \A call \in Range(All) : call.do = "publish" /\ call.rev = Rev(call.what)
  BY <1>1, DiscoveryAssumption DEF Publish, Rev, Existing
<1>5. ASSUME NEW u \in Threads \ {t}, ~Swaps(u), NEW call \in Range(jobs[u])
      PROVE  /\ call.do = "publish" => call.rev = Rev(call.what)
             /\ call.do = "remove" => call.what \in Ids /\ sources[call.what] <= 0
  <2>1. CASE Fresh
    BY <1>5, <2>1 DEF Fresh, FreshCalls
  <2>2. CASE Quiet
    BY <1>5, <2>2, RangeOfNone DEF Quiet, Idle
  <2> QED
    BY <2>1, <2>2
<1>6. FreshCalls'
  BY <1>2, <1>3, <1>4, <1>5, DueStays DEF FreshCalls
<1>7. QueueIsDue'
  BY <1>2, DueStays DEF Fresh, QueueIsDue
<1>8. ASSUME NEW what \in Whats, Due(what)' # 0
      PROVE  Coming(what)'
  <2>1. what \in Existing \cup {System}
    BY <1>2, <1>8, DueStays, DueIs
  <2>2. PICK rev : Publish(what, rev) \in Range(All)
    BY <1>1, <2>1
  <2>3. Publish(what, rev).do = "publish" /\ Publish(what, rev).what = what
    BY DEF Publish
  <2> QED
    BY <1>3, <2>2, <2>3 DEF Coming
<1>9. FreshCover'
  BY <1>8 DEF FreshCover
<1> QED
  BY <1>2, <1>6, <1>7, <1>9 DEF Fresh

\* A request for a source that crosses nothing.
LEMMA RequestIsFresh ==
    ASSUME TInv, Fresh, NEW t \in Threads, NEW id \in Ids, NEW rev \in 0..MaxRevs, NEW call \in Messages,
           Does(t, <<call>>), sources' = [sources EXCEPT ![id] = rev], ~Crossing(id),
           UNCHANGED <<active, conn, queue, retained>>,
           call.what = id, call.rev = rev, call.do = IF rev = 0 THEN "remove" ELSE "publish"
    PROVE  Fresh'
<1>1. <<call>> \in Seq(Messages) /\ Range(<<call>>) = {call}
  BY RangeOfOne
<1>2. /\ Range(jobs[t]) = {}
      /\ Range(jobs'[t]) = {call}
      /\ \A u \in Threads \ {t} : jobs'[u] = jobs[u]
      /\ \A u \in Threads : Swaps(u)' <=> Swaps(u)
      /\ ~Swaps(t)
  BY <1>1, GivenIs
<1>3. /\ \A u \in Threads : \A c \in Range(jobs[u]) : c.what # id
      /\ \A topic \in DOMAIN queue : topic.what # id
  BY DEF Crossing, Range
<1>4. /\ id # System
      /\ sources'[id] = rev
      /\ \A other : other # id => sources'[other] = sources[other]
  BY DiscoveryAssumption DEF TInv, TypeOK
<1>5. /\ Rev(id)' = rev /\ \A what : what # id => Rev(what)' = Rev(what)
      /\ \A what : what # id => Due(what)' = Due(what)
      /\ \A what : TopicsOf(what)' = TopicsOf(what)
      /\ rev = 0 => Due(id)' = 0
  BY <1>4 DEF Rev, Due, TopicsOf, Topics, SourceTopics, SystemTopics, On
<1>6. ASSUME NEW u \in Threads, ~Swaps(u)', NEW c \in Range(jobs'[u])
      PROVE  /\ c.do = "publish" => c.rev = Rev(c.what)'
             /\ c.do = "remove" => c.what \in Ids /\ sources'[c.what] <= 0
  <2>1. CASE c = call
    BY <1>4, <1>5, <2>1
  <2>2. CASE c # call
    <3>1. c \in Range(jobs[u]) /\ c.what # id /\ ~Swaps(u)
      BY <1>2, <1>3, <1>6, <2>2
    <3> QED
      BY <1>4, <1>5, <3>1 DEF Fresh, FreshCalls
  <2> QED
    BY <2>1, <2>2
<1>7. FreshCalls'
  BY <1>6 DEF FreshCalls
<1>8. QueueIsDue'
  BY <1>3, <1>5 DEF Fresh, QueueIsDue
<1>9. ASSUME NEW what \in Whats, NEW topic \in TopicsOf(what)
      PROVE  Due(what)' = 0 \/ Said(topic)' = Due(what)' \/ topic \in DOMAIN queue' \/ Coming(what)'
  <2>1. CASE what # id
    <3>1. Coming(what) => Coming(what)'
      BY <1>2 DEF Coming
    <3> QED
      BY <1>5, <2>1, <3>1 DEF Fresh, FreshCover, Said, SaidIn
  <2>2. CASE what = id /\ rev # 0
    BY <1>2, <2>2 DEF Coming
  <2>3. CASE what = id /\ rev = 0
    BY <1>5, <2>3
  <2> QED
    BY <2>1, <2>2, <2>3
<1>10. FreshCover'
  BY <1>5, <1>9 DEF FreshCover
<1> QED
  BY <1>7, <1>8, <1>10 DEF Fresh

\* The three requests are such ones.
LEMMA RequestsAreFresh ==
    ASSUME TInv, Fresh, NEW t \in Threads, NEW id \in Ids,
           AddSource(t, id) \/ UpdateSource(t, id) \/ DeleteSource(t, id), ~behind'
    PROVE  Fresh'
<1>1. ~Crossing(id) /\ UNCHANGED <<active, conn, queue, retained>>
  BY RequestIs DEF Crossed
<1>2. PICK rev \in 0..MaxRevs, call \in Messages :
          /\ Does(t, <<call>>)
          /\ sources' = [sources EXCEPT ![id] = rev]
          /\ call.what = id /\ call.rev = rev
          /\ call.do = IF rev = 0 THEN "remove" ELSE "publish"
  BY RequestIs
<1> QED
  BY <1>1, <1>2, RequestIsFresh

\* A change of settings waits to be applied: until then nothing of it shows.
LEMMA UpdateMqttIsFresh ==
    ASSUME TInv, Fresh, NEW t \in Threads, NEW raw, UpdateMqtt(t, raw)
    PROVE  Fresh'
<1>1. UNCHANGED <<sources, active, conn, queue, retained>>
  BY DEF UpdateMqtt
<1>2. /\ jobs[t] = <<>> /\ jobs'[t] # <<>> /\ Head(jobs'[t]) = Swap(settings')
      /\ \A u \in Threads \ {t} : jobs'[u] = jobs[u]
  BY UpdateMqttIs
<1>3. Swaps(t)' /\ Range(jobs[t]) = {} /\ \A u \in Threads \ {t} : Swaps(u)' <=> Swaps(u)
  BY <1>2, SwapIs, RangeOfNone DEF Swaps, Idle
<1>4. FreshCalls'
  BY <1>1, <1>2, <1>3, DueStays DEF Fresh, FreshCalls
<1>5. \A what : Coming(what) => Coming(what)'
  BY <1>2, <1>3 DEF Coming
<1> QED
  BY <1>1, <1>4, <1>5, DueStays DEF Fresh, QueueIsDue, FreshCover, Said, SaidIn

\* Steps that leave calls and messages alone, the loss of the connection among them.
LEMMA SameIsFresh ==
    ASSUME Fresh, UNCHANGED <<sources, active, queue, retained, jobs>>, conn' # "off"
    PROVE  Fresh'
<1>1. FreshCalls'
  BY DueStays DEF Fresh, FreshCalls, Swaps, Idle
<1>2. \A what : Coming(what)' <=> Coming(what)
  BY DEF Coming, Swaps, Idle
<1> QED
  BY <1>1, <1>2, DueStays DEF Fresh, QueueIsDue, FreshCover, Said, SaidIn

\* What the client kept arrives.
LEMMA ResendIsFresh == ASSUME TInv, Fresh, Resend PROVE Fresh'
<1>1. /\ conn' = "up" /\ queue' = Empty /\ DOMAIN Empty = {}
      /\ retained' = Stored(queue)
      /\ UNCHANGED <<sources, active, jobs>>
  BY DEF Resend, Empty
<1>2. \A topic : Said(topic)' = IF topic \in DOMAIN queue THEN queue[topic] ELSE Said(topic)
  BY <1>1, StoredIs DEF TInv, MessagesAreTyped, Said, SaidIn
<1>3. FreshCalls'
  BY <1>1, DueStays DEF Fresh, FreshCalls, Swaps, Idle
<1>4. \A what : Coming(what)' <=> Coming(what)
  BY <1>1 DEF Coming, Swaps, Idle
<1>5. ASSUME NEW what \in Whats, NEW topic \in TopicsOf(what)
      PROVE  Due(what)' = 0 \/ Said(topic)' = Due(what)' \/ Coming(what)'
  <2>1. topic \in DOMAIN queue => queue[topic] = Due(what)
    BY TopicsAre DEF Fresh, QueueIsDue, TopicsOf
  <2> QED
    BY <1>1, <1>2, <1>4, <2>1, DueStays DEF Fresh, FreshCover
<1>6. FreshCover'
  BY <1>1, <1>5, DueStays DEF FreshCover
<1> QED
  BY <1>1, <1>3, <1>6 DEF Fresh, QueueIsDue

\* Every step keeps what is fresh, or leaves something behind.
LEMMA NextRInv == TInv /\ RInv /\ [Next]_vars => RInv'
<1> SUFFICES ASSUME TInv, RInv, [Next]_vars, up', ~behind' PROVE Fresh'
  BY DEF RInv
<1>1. CASE UNCHANGED vars
  BY <1>1, SameIsFresh DEF vars, configVars, discoveryVars, RInv, Fresh
<1>2. ASSUME NEW t \in Threads,
             Skip(t) \/ Send(t) \/ SendInVain(t) \/ Raise(t) \/ Reconfigure(t)
      PROVE  Fresh'
  <2>1. ~Raise(t) /\ ~Reconfigure(t)
    BY DEF Raise, Reconfigure
  <2>2. up /\ ~behind
    BY <1>2, <2>1 DEF Skip, Send, SendInVain, configVars, TInv, TypeOK
  <2> QED
    BY <1>2, <2>1, <2>2, SkipIsFresh, SendIsFresh DEF RInv
<1>3. ASSUME NEW t \in Threads, Connect(t)
      PROVE  Fresh'
  <2>1. up /\ (~behind \/ (Quiet /\ QueueIsDue))
    BY <1>3 DEF Connect, configVars, TInv, TypeOK, QueueIsDue
  <2> QED
    BY <1>3, <2>1, ConnectIsFresh DEF RInv
<1>4. ASSUME NEW t \in Threads, NEW id \in Ids,
             AddSource(t, id) \/ UpdateSource(t, id) \/ DeleteSource(t, id)
      PROVE  Fresh'
  <2>1. up /\ ~behind
    BY <1>4, RequestIs DEF Crossed, TInv, TypeOK
  <2> QED
    BY <1>4, <2>1, RequestsAreFresh DEF RInv
<1>5. ASSUME NEW t \in Threads, NEW raw \in Raw, UpdateMqtt(t, raw)
      PROVE  Fresh'
  BY <1>5, UpdateMqttIsFresh DEF RInv, UpdateMqtt, SetMqtt
<1>6. ASSUME NEW raw \in Raw, UpdateMqttFails(raw) \/ EditByHand(raw)
      PROVE  Fresh'
  BY <1>6, SameIsFresh DEF RInv, Fresh, UpdateMqttFails, SetMqttFails, EditByHand, EditFile, discoveryVars
<1>7. CASE Resend \/ Disconnect \/ BrokerForgets \/ Stop \/ Start
  <2>1. ~BrokerForgets /\ ~Stop /\ ~Start
    BY DEF BrokerForgets, Stop, Exit, Start
  <2> QED
    BY <1>7, <2>1, ResendIsFresh, SameIsFresh DEF RInv, Resend, Disconnect, configVars
<1> QED
  BY <1>1, <1>2, <1>3, <1>4, <1>5, <1>6, <1>7 DEF Next

\* Every connection brings the entities of all sources back (publish_all_discovery,
\* _on_mqtt_status_change), whatever was lost before it.
THEOREM EntitiesComeBack == Spec => []EntitiesReturn
<1>1. Init => RInv
  BY DEF Init, RInv
<1>2. Spec => [](TInv /\ RInv)
  BY InitTInv, NextTInv, <1>1, NextRInv, PTL DEF Spec
<1>3. TInv /\ RInv => EntitiesReturn
  <2> SUFFICES ASSUME TInv, RInv, Settled, ~behind, NEW topic \in DOMAIN Expected
               PROVE  topic \in DOMAIN retained /\ retained[topic] = Expected[topic]
    BY DEF EntitiesReturn
  <2>1. Fresh /\ DOMAIN queue = {}
    BY DEF RInv, Settled, TInv, TypeOK
  <2>2. \A what : ~Coming(what)
    BY RangeOfNone DEF Settled, Quiet, Idle, Coming
  <2> DEFINE whats == {w \in Existing \cup {System} : Due(w) > 0}
             topics == UNION {TopicsOf(w) : w \in whats}
  <2>3. Expected = [s \in topics |-> Due(s.what)]
    BY DEF Expected, TopicsOf
  <2>4. PICK what \in whats : topic \in TopicsOf(what)
    BY <2>3
  <2>5. what \in Whats /\ Due(what) # 0 /\ topic.what = what
    BY <2>4, TopicsAre, DueIs DEF TopicsOf, Existing, Whats
  <2>6. Said(topic) = Due(what)
    BY <2>1, <2>2, <2>4, <2>5 DEF Fresh, FreshCover
  <2>7. Expected[topic] = Due(what)
    <3>1. topic \in topics
      BY <2>4
    <3> HIDE DEF topics
    <3> QED
      BY <2>3, <2>5, <3>1
  <2> QED
    BY <2>5, <2>6, <2>7 DEF Said, SaidIn
<1> QED
  BY <1>2, <1>3, PTL

=============================================================================
