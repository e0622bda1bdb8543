---------------------------- MODULE MqttPublisher ----------------------------
(***************************************************************************)
(* The broker connection of MqttPublisher (mqtt_publisher.py): the lock,   *)
(* paho's network thread with the two callbacks it runs, reconfigure() on  *)
(* the threads that serve AppController.update_mqtt (controller.py),       *)
(* stop() on the main thread, and the retained availability message.       *)
(*                                                                         *)
(* paho and the broker are external: loop_stop() joins the network thread, *)
(* which ends once its queue is empty or the connection is gone; a message *)
(* published goes out when that thread is back in its loop; the broker     *)
(* publishes the will when a connection ends without a DISCONNECT.         *)
(***************************************************************************)
EXTENDS Naturals, Sequences

CONSTANTS
    Handlers,    \* the threads that serve websocket clients
    Places,      \* availability topics, each at its broker
    MaxUpdates,  \* bound: settings saved
    Initial      \* the settings the application starts with

\* an MqttConfig: whether it is enabled, and where its availability topic is
Configs == [enabled : BOOLEAN, place : Places]

ASSUME PublisherAssumption ==
    /\ Initial \in Configs
    /\ MaxUpdates \in Nat
    /\ Handlers \cap {"free", "net", "main"} = {}

VARIABLES
    saved,      \* AppController.config.mqtt
    config,     \* self.config
    client,     \* which of the clients built so far self.client is
    connected,  \* self.connected
    lock,       \* who holds self._lock while it waits for something else
    terminate,  \* the current client was told to end its thread
    net,        \* where the network thread of the current client is
    session,    \* whether that client has a socket
    link,       \* what the broker thinks of it
    outbox,     \* availability messages the client has yet to send
    unacked,    \* stop()'s "offline" went into a connection that was lost
    retained,   \* the retained message of each availability topic
    pc,         \* where each handler is in update_mqtt
    job,        \* the settings a handler at work applies
    main,       \* where the main thread is in stop()
    mine,       \* the client stop() publishes with
    updates,    \* how many settings have been saved
    trouble     \* what has crossed or failed

handlerVars == <<saved, pc, job, updates, trouble>>
mainVars == <<main, mine>>
vars == <<config, client, connected, lock, terminate, net, session, link, outbox,
          unacked, retained, handlerVars, mainVars>>

Running == main # "gone"

Init ==
    /\ saved = Initial
    /\ config = Initial
    /\ client = 0
    /\ connected = FALSE
    /\ lock = "free"
    /\ terminate = FALSE
    /\ net = IF Initial.enabled THEN "loop" ELSE "off"
    /\ session = FALSE
    /\ link = "down"
    /\ outbox = <<>>
    /\ unacked = FALSE
    /\ retained = [p \in Places |-> "none"]
    /\ pc = [h \in Handlers |-> "idle"]
    /\ job = [h \in Handlers |-> Initial]
    /\ main = "run"
    /\ mine = 0
    /\ updates = 0
    /\ trouble = {}

-----------------------------------------------------------------------------
(* The network thread, which runs _handle_connect and _handle_disconnect    *)

\* CONNACK: the connection is accepted or refused; on_connect is called for both
Connack ==
    /\ Running
    /\ net = "loop"
    /\ ~session
    /\ ~terminate
    /\ session' = TRUE
    /\ link' \in {"up", "refused"}
    /\ net' = "connect"
    /\ UNCHANGED <<config, client, connected, lock, terminate, outbox, unacked, retained,
                   handlerVars, mainVars>>

\* _handle_connect: _set_connected(True), whatever the reason code
FlagsConnected ==
    /\ net = "connect"
    /\ lock = "free"
    /\ connected' = TRUE
    /\ net' = "announce"
    /\ UNCHANGED <<config, client, lock, terminate, session, link, outbox, unacked,
                   retained, handlerVars, mainVars>>

\* mutant: the test of config.enabled is the wrong way round
AnnouncesWhenDisabled ==
    /\ net = "announce"
    /\ lock = "free"
    /\ IF config.enabled
       THEN net' = "loop" /\ UNCHANGED outbox
       ELSE net' = "wait" /\ outbox' = Append(outbox, "online")
    /\ UNCHANGED <<config, client, connected, lock, terminate, session, link, unacked,
                   retained, handlerVars, mainVars>>

\* _handle_connect: publish "online" if MQTT is enabled
Announces ==
    /\ net = "announce"
    /\ lock = "free"
    /\ IF config.enabled
       THEN net' = "wait" /\ outbox' = Append(outbox, "online")
       ELSE net' = "loop" /\ UNCHANGED outbox
    /\ UNCHANGED <<config, client, connected, lock, terminate, session, link, unacked,
                   retained, handlerVars, mainVars>>

\* mutant: wait_for_publish() without a timeout
WaitsForever ==
    /\ net = "wait"
    /\ outbox = <<>>
    /\ net' = "loop"
    /\ UNCHANGED <<config, client, connected, lock, terminate, session, link, outbox, unacked,
                   retained, handlerVars, mainVars>>

\* wait_for_publish(timeout=5) on the very thread that would read the PUBACK: it
\* times out.  After on_connect paho sends again what an earlier connection lost.
WaitsInVain ==
    /\ net = "wait"
    /\ net' = "loop"
    /\ outbox' = IF unacked THEN Append(outbox, "offline") ELSE outbox
    /\ unacked' = FALSE
    /\ UNCHANGED <<config, client, connected, lock, terminate, session, link, retained,
                   handlerVars, mainVars>>

\* a message reaches the broker
Sends ==
    /\ net = "loop"
    /\ session /\ link = "up"
    /\ outbox # <<>>
    /\ retained' = [retained EXCEPT ![config.place] = Head(outbox)]
    /\ outbox' = Tail(outbox)
    /\ UNCHANGED <<config, client, connected, lock, terminate, net, session, link, unacked,
                   handlerVars, mainVars>>

\* the thread notices that the connection is gone and calls on_disconnect
NoticesLoss ==
    /\ net = "loop"
    /\ session /\ link # "up"
    /\ session' = FALSE
    /\ link' = "down"
    /\ unacked' = (unacked \/ \E i \in 1..Len(outbox) : outbox[i] = "offline")
    /\ outbox' = <<>>
    /\ net' = "disconnect"
    /\ UNCHANGED <<config, client, connected, lock, terminate, retained, handlerVars, mainVars>>

\* mutant: on_disconnect is not set
FlagsNothing ==
    /\ net = "disconnect"
    /\ net' = "loop"
    /\ UNCHANGED <<config, client, connected, lock, terminate, session, link, outbox, unacked,
                   retained, handlerVars, mainVars>>

\* _handle_disconnect: _set_connected(False)
FlagsDisconnected ==
    /\ net = "disconnect"
    /\ lock = "free"
    /\ connected' = FALSE
    /\ net' = "loop"
    /\ UNCHANGED <<config, client, lock, terminate, session, link, outbox, unacked,
                   retained, handlerVars, mainVars>>

\* the thread ends after loop_stop(): with an empty queue, or with no connection
NetEnds ==
    /\ net = "loop"
    /\ terminate
    /\ session => link = "up" /\ outbox = <<>>
    /\ net' = "off"
    /\ UNCHANGED <<config, client, connected, lock, terminate, session, link, outbox, unacked,
                   retained, handlerVars, mainVars>>

\* the network or the broker fails: the broker publishes the will
LinkFails ==
    /\ Running
    /\ link = "up"
    /\ link' = "down"
    /\ retained' = [retained EXCEPT ![config.place] = "offline"]
    /\ UNCHANGED <<config, client, connected, lock, terminate, net, session, outbox, unacked,
                   handlerVars, mainVars>>

-----------------------------------------------------------------------------
(* update_mqtt and reconfigure()                                            *)

Crossing(h) == IF \E g \in Handlers \ {h} : pc[g] # "idle" THEN {"crossed"} ELSE {}

\* update_mqtt under the controller's lock
Update(h, new) ==
    /\ Running
    /\ pc[h] = "idle"
    /\ updates < MaxUpdates
    /\ updates' = updates + 1
    /\ saved' = new
    /\ job' = [job EXCEPT ![h] = new]
    /\ pc' = [pc EXCEPT ![h] = "swap"]
    /\ trouble' = trouble \cup Crossing(h)
    /\ UNCHANGED <<config, client, connected, lock, terminate, net, session, link, outbox,
                   unacked, retained, mainVars>>

\* update_mqtt when save_config raises
UpdateFails(h, new) ==
    /\ Running
    /\ pc[h] = "idle"
    /\ updates < MaxUpdates
    /\ updates' = updates + 1
    /\ saved' = new
    /\ trouble' = trouble \cup {"failed"}
    /\ UNCHANGED <<config, client, connected, lock, terminate, net, session, link, outbox,
                   unacked, retained, pc, job, mainVars>>

\* reconfigure: into the lock and into loop_stop()
StopsLoop(h) ==
    /\ pc[h] = "swap"
    /\ lock = "free"
    /\ lock' = h
    /\ terminate' = TRUE
    /\ pc' = [pc EXCEPT ![h] = "join"]
    /\ UNCHANGED <<config, client, connected, net, session, link, outbox, unacked, retained,
                   saved, job, updates, trouble, mainVars>>

\* mutant: the lock is acquired but never released
SwapsHolding(h) ==
    /\ pc[h] = "join"
    /\ net = "off"
    /\ session' = FALSE
    /\ link' = "down"
    /\ connected' = FALSE
    /\ outbox' = <<>>
    /\ unacked' = FALSE
    /\ client' = client + 1
    /\ config' = job[h]
    /\ terminate' = FALSE
    /\ pc' = [pc EXCEPT ![h] = "flag"]
    /\ UNCHANGED <<lock, net, retained, saved, job, updates, trouble, mainVars>>

\* the thread is joined: disconnect() says goodbye and calls on_disconnect here,
\* within the lock; a new client and its settings take over
Swaps(h) ==
    /\ pc[h] = "join"
    /\ net = "off"
    /\ session' = FALSE
    /\ link' = "down"
    /\ connected' = IF session THEN FALSE ELSE connected
    /\ outbox' = <<>>
    /\ unacked' = FALSE
    /\ client' = client + 1
    /\ config' = job[h]
    /\ terminate' = FALSE
    /\ lock' = "free"
    /\ pc' = [pc EXCEPT ![h] = "flag"]
    /\ UNCHANGED <<net, retained, saved, job, updates, trouble, mainVars>>

\* _set_connected(False)
FlagsSwap(h) ==
    /\ pc[h] = "flag"
    /\ lock = "free"
    /\ connected' = FALSE
    /\ pc' = [pc EXCEPT ![h] = "connect"]
    /\ UNCHANGED <<config, client, lock, terminate, net, session, link, outbox, unacked,
                   retained, saved, job, updates, trouble, mainVars>>

\* mutant: the settings are not asked whether MQTT is enabled
ConnectsAnyway(h) ==
    /\ pc[h] = "connect"
    /\ lock = "free"
    /\ net' = IF net = "off" THEN "loop" ELSE net
    /\ pc' = [pc EXCEPT ![h] = "idle"]
    /\ job' = [job EXCEPT ![h] = Initial]
    /\ UNCHANGED <<config, client, connected, lock, terminate, session, link, outbox, unacked,
                   retained, saved, updates, trouble, mainVars>>

\* connect_async and loop_start for whatever client is the current one, if the
\* settings this handler applies are enabled
Connects(h) ==
    /\ pc[h] = "connect"
    /\ lock = "free"
    /\ net' = IF job[h].enabled /\ net = "off" THEN "loop" ELSE net
    /\ pc' = [pc EXCEPT ![h] = "idle"]
    /\ job' = [job EXCEPT ![h] = Initial]
    /\ UNCHANGED <<config, client, connected, lock, terminate, session, link, outbox, unacked,
                   retained, saved, updates, trouble, mainVars>>

-----------------------------------------------------------------------------
(* stop() on the main thread                                                *)

StopBegins ==
    /\ main = "run"
    /\ lock = "free"
    /\ main' = IF config.enabled THEN "publish" ELSE "stopped"
    /\ mine' = client
    /\ UNCHANGED <<config, client, connected, lock, terminate, net, session, link, outbox,
                   unacked, retained, handlerVars>>

\* publish "offline"; without a socket wait_for_publish raises, out of stop()
StopPublishes ==
    /\ main = "publish"
    /\ IF mine = client /\ session
       THEN main' = "wait" /\ outbox' = Append(outbox, "offline")
       ELSE main' = "stopped" /\ UNCHANGED outbox
    /\ UNCHANGED <<config, client, connected, lock, terminate, net, session, link, unacked,
                   retained, mine, handlerVars>>

\* the PUBACK has come, or five seconds are over; then into loop_stop()
StopStopsLoop ==
    /\ main = "wait"
    /\ lock = "free"
    /\ lock' = "main"
    /\ terminate' = TRUE
    /\ main' = "join"
    /\ UNCHANGED <<config, client, connected, net, session, link, outbox, unacked, retained,
                   mine, handlerVars>>

\* disconnect(), and _set_connected(False)
StopDisconnects ==
    /\ main = "join"
    /\ net = "off"
    /\ session' = FALSE
    /\ link' = "down"
    /\ connected' = FALSE
    /\ lock' = "free"
    /\ main' = "stopped"
    /\ UNCHANGED <<config, client, terminate, net, outbox, unacked, retained, mine, handlerVars>>

\* the process ends, and its threads and connections with it
Exit ==
    /\ main = "stopped"
    /\ main' = "gone"
    /\ net' = "off"
    /\ session' = FALSE
    /\ link' = "down"
    /\ retained' = IF link = "up" THEN [retained EXCEPT ![config.place] = "offline"]
                   ELSE retained
    /\ pc' = [h \in Handlers |-> "idle"]
    /\ job' = [h \in Handlers |-> Initial]
    /\ lock' = "free"
    /\ UNCHANGED <<config, client, connected, terminate, outbox, unacked, mine, saved,
                   updates, trouble>>

-----------------------------------------------------------------------------
NetStep == \/ FlagsConnected \/ Announces \/ WaitsInVain \/ Sends \/ NoticesLoss
           \/ FlagsDisconnected \/ NetEnds

Continue(h) == StopsLoop(h) \/ Swaps(h) \/ FlagsSwap(h) \/ Connects(h)

MainStep == StopBegins \/ StopPublishes \/ StopStopsLoop \/ StopDisconnects \/ Exit

Next ==
    \/ Connack
    \/ NetStep
    \/ LinkFails
    \/ \E h \in Handlers :
          \/ \E new \in Configs : Update(h, new) \/ UpdateFails(h, new)
          \/ Continue(h)
    \/ MainStep

Spec == Init /\ [][Next]_vars

\* Threads that can go on do; the network thread and the handlers get the lock
\* if it is free often enough.  That the broker answers, that the connection
\* lasts or that the application is stopped is never assumed.
FairSpec == Spec /\ SF_vars(NetStep) /\ \A h \in Handlers : SF_vars(Continue(h))

-----------------------------------------------------------------------------
InCallback == net \in {"connect", "announce", "wait", "disconnect"}
WantsLock == net \in {"connect", "announce", "disconnect"}

\* nobody is about to change the connection
Settled ==
    /\ main = "run"
    /\ \A h \in Handlers : pc[h] = "idle"
    /\ ~InCallback
    /\ session => link = "up"

\* Every variable has its type, and the lock is held across other waiting by
\* the thread in loop_stop() and by nobody else (mqtt_publisher.py).
TypeOK ==
    /\ saved \in Configs /\ config \in Configs
    /\ client \in Nat /\ mine \in Nat
    /\ connected \in BOOLEAN /\ terminate \in BOOLEAN
    /\ session \in BOOLEAN /\ unacked \in BOOLEAN
    /\ lock \in {"free", "main"} \cup Handlers
    /\ net \in {"off", "loop", "connect", "announce", "wait", "disconnect"}
    /\ link \in {"down", "up", "refused"}
    /\ outbox \in Seq({"online", "offline"})
    /\ retained \in [Places -> {"none", "online", "offline"}]
    /\ pc \in [Handlers -> {"idle", "swap", "join", "flag", "connect"}]
    /\ job \in [Handlers -> Configs]
    /\ main \in {"run", "publish", "wait", "join", "stopped", "gone"}
    /\ updates \in 0..MaxUpdates
    /\ trouble \subseteq {"crossed", "failed"}
    /\ lock = "main" <=> main = "join"
    /\ \A h \in Handlers : lock = h <=> pc[h] = "join"

\* The status the settings page shows is true: once no thread is about to
\* correct it, the flag says connected exactly if the client has its connection,
\* after refusals, losses and reconfigurations in any order, unless two updates
\* overlapped (_set_connected's four callers).
FlagIsLink == (Settled /\ "crossed" \notin trouble) => (connected <=> session)

\* What the user saved is what runs, unless updates overlapped or a save failed:
\* the publisher has the controller's settings and a network thread exactly if
\* they are enabled (update_mqtt, reconfigure).
SettingsApply ==
    (Settled /\ trouble = {}) =>
        config = saved /\ (net = "loop" <=> saved.enabled)

\* A connection that lasts is announced: however often it was lost before, the
\* retained availability becomes and stays "online" (_handle_connect).
AnnouncedInTheEnd ==
    <>[](Settled /\ session /\ config.enabled) => <>[](retained[config.place] = "online")

\* Only the network thread wanting the lock it is joined under can hold a
\* reconfiguration for ever: not a lost broker, not unsent messages, not the
\* PUBACK that _handle_connect waits for.
OnlyCallbackBlocks ==
    \A h \in Handlers : (pc[h] = "join") ~> (pc[h] # "join" \/ WantsLock)

\* MqttPublisher's docstring: "Thread-safe: ... reconfigure() may swap the broker
\* connection at runtime"; so a reconfiguration that has the lock comes to an end.
ReconfigureReturns == \A h \in Handlers : (pc[h] = "join") ~> (pc[h] # "join")

\* README, "Home Assistant": entities "show up as `unavailable` in HA (instead of
\* a stale last value) if bark-detector stops publishing for any reason".
UnavailableWhenSilent ==
    ((Settled /\ net = "off") \/ main = "gone") =>
        \A p \in Places : retained[p] # "online"

=============================================================================
