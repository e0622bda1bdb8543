------------------------- MODULE MqttPublisherProofs -------------------------
(***************************************************************************)
(* For any handlers, topics, settings and number of updates: the connected *)
(* flag is true to the connection and the settings saved are those that    *)
(* run, whenever the threads have settled and no updates overlapped.       *)
(*                                                                         *)
(* Neither is inductive.  FlagFollows says what the flag is worth at each  *)
(* place of the network thread; Applied says what a handler halfway has    *)
(* applied; Alone turns "nothing crossed" into "one handler at a time".    *)
(***************************************************************************)
EXTENDS MqttPublisher, SequenceTheorems, TLAPS

\* without a crossing one handler at a time is at work
Alone ==
    "crossed" \notin trouble =>
        \A g, h \in Handlers : (pc[g] # "idle" /\ pc[h] # "idle") => g = h

\* what the flag and the session are at each place of the threads
FlagFollows ==
    ("crossed" \notin trouble /\ Running) =>
        /\ net \in {"loop", "off"} => (connected <=> session)
        /\ net \in {"announce", "wait"} => session /\ connected
        /\ net = "connect" => session
        /\ net = "disconnect" => ~session
        /\ \A h \in Handlers : pc[h] \in {"flag", "connect"} => net = "off" /\ ~session

\* a thread is only told to end by someone who joins it
TerminateMeans ==
    terminate => main \in {"join", "stopped", "gone"} \/ \E h \in Handlers : pc[h] = "join"

\* what has been applied of the settings that were saved
Applied ==
    (trouble = {} /\ main \in {"run", "publish", "wait"}) =>
        /\ (\A h \in Handlers : pc[h] = "idle") =>
              config = saved /\ (net # "off" <=> saved.enabled)
        /\ \A h \in Handlers : pc[h] # "idle" => job[h] = saved
        /\ \A h \in Handlers : pc[h] \in {"flag", "connect"} => config = saved /\ net = "off"

IInv == TypeOK /\ Alone /\ FlagFollows /\ TerminateMeans /\ Applied

\* Initially the threads have settled.
LEMMA InitIInv == Init => IInv
<1> SUFFICES ASSUME Init PROVE IInv
  OBVIOUS
<1>1. TypeOK
  <2>1. outbox \in Seq({"online", "offline"})
    BY EmptySeq DEF Init
  <2>2. net \in {"off", "loop"}
    BY DEF Init
  <2>3. \A h \in Handlers : lock = h <=> pc[h] = "join"
    BY PublisherAssumption DEF Init
  <2>4. connected \in BOOLEAN /\ terminate \in BOOLEAN /\ session \in BOOLEAN /\ unacked \in BOOLEAN
    BY DEF Init
  <2>5. retained \in [Places -> {"none", "online", "offline"}] /\ job \in [Handlers -> Configs]
    BY PublisherAssumption DEF Init
  <2>6. lock = "main" <=> main = "join"
    BY DEF Init
  <2>7. /\ saved \in Configs /\ config \in Configs /\ client \in Nat /\ mine \in Nat
        /\ lock \in {"free", "main"} \cup Handlers
        /\ link \in {"down", "up", "refused"}
        /\ pc \in [Handlers -> {"idle", "swap", "join", "flag", "connect"}]
        /\ main \in {"run", "publish", "wait", "join", "stopped", "gone"}
        /\ updates \in 0..MaxUpdates
        /\ trouble \subseteq {"crossed", "failed"}
    BY PublisherAssumption DEF Init
  <2> QED
    BY <2>1, <2>2, <2>3, <2>4, <2>5, <2>6, <2>7 DEF TypeOK
<1>2. Alone /\ FlagFollows /\ TerminateMeans /\ Applied
  BY DEF Init, Alone, FlagFollows, TerminateMeans, Applied, Running
<1> QED
  BY <1>1, <1>2 DEF IInv

-----------------------------------------------------------------------------
\* Every step keeps the types and leaves the lock with the thread that joins.
LEMMA NextTypes == IInv /\ [Next]_vars => TypeOK'
<1> SUFFICES ASSUME IInv, [Next]_vars PROVE TypeOK'
  OBVIOUS
<1> USE PublisherAssumption DEF IInv, TypeOK
<1>1. CASE Connack \/ NetStep \/ LinkFails
  <2>1. CASE Connack
    BY <2>1 DEF Connack, handlerVars, mainVars
  <2>2. CASE FlagsConnected
    BY <2>2 DEF FlagsConnected, handlerVars, mainVars
  <2>3. CASE Announces
    BY <2>3 DEF Announces, handlerVars, mainVars
  <2>4. CASE WaitsInVain
    <3>1. outbox' \in Seq({"online", "offline"})
      BY <2>4, AppendProperties DEF WaitsInVain
    <3> QED
      BY <2>4, <3>1 DEF WaitsInVain, handlerVars, mainVars
  <2>5. CASE Sends
    <3>1. Head(outbox) \in {"online", "offline"} /\ Tail(outbox) \in Seq({"online", "offline"})
      BY <2>5 DEF Sends
    <3> QED
      BY <2>5, <3>1 DEF Sends, handlerVars, mainVars, Configs
  <2>6. CASE NoticesLoss
    <3>1. unacked' \in BOOLEAN
      BY <2>6 DEF NoticesLoss
    <3> QED
      BY <2>6, <3>1, EmptySeq DEF NoticesLoss, handlerVars, mainVars
  <2>7. CASE FlagsDisconnected
    BY <2>7 DEF FlagsDisconnected, handlerVars, mainVars
  <2>8. CASE NetEnds
    BY <2>8 DEF NetEnds, handlerVars, mainVars
  <2>9. CASE LinkFails
    BY <2>9 DEF LinkFails, handlerVars, mainVars, Configs
  <2> QED
    BY <1>1, <2>1, <2>2, <2>3, <2>4, <2>5, <2>6, <2>7, <2>8, <2>9 DEF NetStep
<1>2. ASSUME NEW h \in Handlers, NEW new \in Configs, Update(h, new) \/ UpdateFails(h, new)
      PROVE  TypeOK'
  <2>1. CASE Update(h, new)
    <3>1. trouble' \subseteq {"crossed", "failed"} /\ updates' \in 0..MaxUpdates
      BY <2>1 DEF Update, Crossing
    <3> QED
      BY <2>1, <3>1 DEF Update, mainVars
  <2>2. CASE UpdateFails(h, new)
    <3>1. trouble' \subseteq {"crossed", "failed"} /\ updates' \in 0..MaxUpdates
      BY <2>2 DEF UpdateFails
    <3> QED
      BY <2>2, <3>1 DEF UpdateFails, mainVars
  <2> QED
    BY <1>2, <2>1, <2>2
<1>3. ASSUME NEW h \in Handlers, Continue(h) PROVE TypeOK'
  <2>1. CASE StopsLoop(h)
    BY <2>1 DEF StopsLoop, mainVars
  <2>2. CASE Swaps(h)
    <3>1. outbox' \in Seq({"online", "offline"})
      BY <2>2, EmptySeq DEF Swaps
    <3>2. config' \in Configs /\ client' \in Nat
      BY <2>2 DEF Swaps
    <3>3. \A g \in Handlers : lock' = g <=> pc'[g] = "join"
      BY <2>2 DEF Swaps
    <3>4. connected' \in BOOLEAN
      <4>1. CASE session
        BY <2>2, <4>1 DEF Swaps
      <4>2. CASE ~session
        BY <2>2, <4>2 DEF Swaps
      <4> QED
        BY <4>1, <4>2
    <3>5. lock' = "main" <=> main' = "join"
      BY <2>2 DEF Swaps, mainVars
    <3>6. pc' \in [Handlers -> {"idle", "swap", "join", "flag", "connect"}]
      BY <2>2 DEF Swaps
    <3> QED
      BY <2>2, <3>1, <3>2, <3>3, <3>4, <3>5, <3>6 DEF Swaps, mainVars
  <2>3. CASE FlagsSwap(h)
    BY <2>3, ZenonT(30) DEF FlagsSwap, mainVars
  <2>4. CASE Connects(h)
    BY <2>4 DEF Connects, mainVars
  <2> QED
    BY <1>3, <2>1, <2>2, <2>3, <2>4 DEF Continue
<1>4. CASE MainStep
  <2>1. CASE StopBegins
    BY <2>1 DEF StopBegins, handlerVars
  <2>2. CASE StopPublishes
    BY <2>2, SMTT(30) DEF StopPublishes, handlerVars
  <2>3. CASE StopStopsLoop
    BY <2>3 DEF StopStopsLoop, handlerVars
  <2>4. CASE StopDisconnects
    BY <2>4 DEF StopDisconnects, handlerVars
  <2>5. CASE Exit
    BY <2>5 DEF Exit, Configs
  <2> QED
    BY <1>4, <2>1, <2>2, <2>3, <2>4, <2>5 DEF MainStep
<1>5. CASE UNCHANGED vars
  BY <1>5 DEF vars, handlerVars, mainVars
<1> QED
  BY <1>1, <1>2, <1>3, <1>4, <1>5 DEF Next

-----------------------------------------------------------------------------
\* A step of the network thread or of the network keeps the invariant.
LEMMA NetIInv ==
    ASSUME IInv, Connack \/ NetStep \/ LinkFails
    PROVE  IInv'
<1>1. TypeOK'
  BY NextTypes DEF Next
<1>2. UNCHANGED handlerVars /\ UNCHANGED mainVars /\ UNCHANGED <<config, terminate>>
  BY DEF NetStep, Connack, FlagsConnected, Announces, WaitsInVain, Sends, NoticesLoss,
         FlagsDisconnected, NetEnds, LinkFails
<1>3. Alone' /\ TerminateMeans'
  BY <1>2 DEF IInv, Alone, TerminateMeans, handlerVars, mainVars
<1>4. FlagFollows'
  BY <1>2 DEF IInv, TypeOK, FlagFollows, Running, handlerVars, mainVars, NetStep, Connack,
              FlagsConnected, Announces, WaitsInVain, Sends, NoticesLoss, FlagsDisconnected,
              NetEnds, LinkFails
<1>5. Applied'
  <2>1. CASE NetEnds
    BY <1>2, <2>1 DEF NetEnds, IInv, Applied, TerminateMeans, handlerVars, mainVars
  <2>2. CASE ~NetEnds
    <3>1. net # "off" <=> net' # "off"
      BY <2>2 DEF IInv, TypeOK, NetStep, Connack, FlagsConnected, Announces, WaitsInVain, Sends,
                  NoticesLoss, FlagsDisconnected, LinkFails
    <3> QED
      BY <1>2, <3>1 DEF IInv, Applied, handlerVars, mainVars
  <2> QED
    BY <2>1, <2>2
<1> QED
  BY <1>1, <1>3, <1>4, <1>5 DEF IInv

\* A step of a handler keeps the invariant.
LEMMA HandlerIInv ==
    ASSUME IInv,
           NEW h \in Handlers,
           (\E new \in Configs : Update(h, new) \/ UpdateFails(h, new)) \/ Continue(h)
    PROVE  IInv'
<1>1. TypeOK'
  BY NextTypes DEF Next
<1>2. CASE \E new \in Configs : Update(h, new) \/ UpdateFails(h, new)
  <2>1. PICK new \in Configs : Update(h, new) \/ UpdateFails(h, new)
    BY <1>2
  <2>2. CASE UpdateFails(h, new)
    BY <1>1, <2>2 DEF UpdateFails, mainVars, IInv, Alone, FlagFollows, Running, TerminateMeans,
                      Applied
  <2>3. CASE Update(h, new)
    <3>1. "crossed" \notin trouble' => \A g \in Handlers \ {h} : pc[g] = "idle" /\ pc'[g] = "idle"
      BY <2>3 DEF Update, Crossing, IInv, TypeOK
    <3>2. trouble \subseteq trouble'
      BY <2>3 DEF Update
    <3>3. Alone'
      BY <3>1 DEF Alone
    <3>4. FlagFollows' /\ TerminateMeans' /\ Applied'
      BY <2>3, <3>1, <3>2 DEF Update, mainVars, IInv, TypeOK, FlagFollows, Running,
                              TerminateMeans, Applied
    <3> QED
      BY <1>1, <3>3, <3>4 DEF IInv
  <2> QED
    BY <2>1, <2>2, <2>3
<1>3. CASE StopsLoop(h)
  BY <1>1, <1>3 DEF StopsLoop, mainVars, IInv, TypeOK, Alone, FlagFollows, Running,
                    TerminateMeans, Applied
<1>4. CASE Swaps(h)
  <2>1. Alone' /\ FlagFollows' /\ TerminateMeans'
    BY <1>4 DEF Swaps, mainVars, IInv, TypeOK, Alone, FlagFollows, Running, TerminateMeans
  <2>2. Applied'
    BY <1>4 DEF Swaps, mainVars, IInv, TypeOK, Alone, Applied
  <2> QED
    BY <1>1, <2>1, <2>2 DEF IInv
<1>5. CASE FlagsSwap(h)
  BY <1>1, <1>5 DEF FlagsSwap, mainVars, IInv, TypeOK, Alone, FlagFollows, Running,
                    TerminateMeans, Applied
<1>6. CASE Connects(h)
  <2>1. Alone' /\ FlagFollows' /\ TerminateMeans'
    BY <1>6 DEF Connects, mainVars, IInv, TypeOK, Alone, FlagFollows, Running, TerminateMeans
  <2>2. Applied'
    BY <1>6 DEF Connects, mainVars, IInv, TypeOK, Alone, Applied
  <2> QED
    BY <1>1, <2>1, <2>2 DEF IInv
<1> QED
  BY <1>2, <1>3, <1>4, <1>5, <1>6 DEF Continue

\* A step of the main thread keeps the invariant.
LEMMA MainIInv ==
    ASSUME IInv, MainStep
    PROVE  IInv'
<1>1. TypeOK'
  BY NextTypes DEF Next
<1>2. CASE StopBegins \/ StopPublishes \/ StopStopsLoop \/ StopDisconnects
  BY <1>1, <1>2 DEF StopBegins, StopPublishes, StopStopsLoop, StopDisconnects, handlerVars,
                    IInv, TypeOK, Alone, FlagFollows, Running, TerminateMeans, Applied
<1>3. CASE Exit
  BY <1>1, <1>3 DEF Exit, IInv, Alone, FlagFollows, Running, TerminateMeans, Applied
<1> QED
  BY <1>2, <1>3 DEF MainStep

\* Every step keeps the invariant.
LEMMA NextIInv == IInv /\ [Next]_vars => IInv'
<1> SUFFICES ASSUME IInv, [Next]_vars PROVE IInv'
  OBVIOUS
<1>1. CASE Next
  BY <1>1, NetIInv, HandlerIInv, MainIInv DEF Next
<1>2. CASE UNCHANGED vars
  BY <1>2, NextTypes DEF vars, handlerVars, mainVars, IInv, Alone, FlagFollows, Running,
                         TerminateMeans, Applied
<1> QED
  BY <1>1, <1>2

-----------------------------------------------------------------------------
\* The inductive invariant holds in every state.
THEOREM Invariance == Spec => []IInv
BY InitIInv, NextIInv, PTL DEF Spec

\* Every variable has its type, and whoever holds the lock across a wait is in
\* loop_stop().
THEOREM TypeCorrect == Spec => []TypeOK
<1>1. IInv => TypeOK
  BY DEF IInv
<1> QED
  BY <1>1, Invariance, PTL

\* Once the threads have settled the connected flag is true to the connection.
THEOREM FlagIsTrue == Spec => []FlagIsLink
<1>1. IInv => FlagIsLink
  BY DEF IInv, TypeOK, FlagFollows, FlagIsLink, Settled, InCallback, Running
<1> QED
  BY <1>1, Invariance, PTL

\* Once the threads have settled, what the user saved is what runs.
THEOREM SavedIsRunning == Spec => []SettingsApply
<1>1. IInv => SettingsApply
  BY DEF IInv, TypeOK, Applied, SettingsApply, Settled, InCallback
<1> QED
  BY <1>1, Invariance, PTL

=============================================================================
