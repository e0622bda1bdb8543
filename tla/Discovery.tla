------------------------------ MODULE Discovery ------------------------------
(***************************************************************************)
(* Home Assistant's discovery messages (ha_discovery.py), retained by the  *)
(* broker, as the requests of the settings page (controller.py) and the    *)
(* thread started at every connection publish and remove them through      *)
(* MqttPublisher, with the settings of ConfigFile.                         *)
(*                                                                         *)
(* A job is what a thread has still to do: calls on the publisher, each of *)
(* which hands its messages to the client one by one.  Without connection  *)
(* the client keeps the message, and the call raises and ends the job.     *)
(***************************************************************************)
EXTENDS ConfigFile, FiniteSets, SequencesExt

CONSTANTS
    Ids,      \* the ids of sources
    System,   \* the instance's own entity
    Threads,  \* threads that serve requests or publish at a connection
    MaxRevs,  \* bound: settings of sources ever saved
    MaxLiveEdits \* bound: changes of MQTT settings before the last connection

ASSUME DiscoveryAssumption ==
    /\ {"enabled", "discovery", "discovery_prefix"} \subseteq Fields
    /\ System \notin Ids
    /\ IsFiniteSet(Ids)
    /\ MaxRevs \in Nat \ {0} /\ MaxLiveEdits \in Nat

VARIABLES
    sources,   \* which settings each source has; 0 after and -1 before its time
    revs,      \* how many settings there have been
    active,    \* the publisher's config
    conn,      \* its connection: off, down, greeting (within on_connect) or up
    queue,     \* topics with a message the client keeps, and the latest of these
    retained,  \* the messages the broker retains, by topic
    jobs,      \* the calls each thread has still to make
    tidy,      \* whether every message so far could be sent, in the order of its request
    behind     \* whether entities may be missing or old until the next connection

discoveryVars == <<sources, revs, active, conn, queue, retained, jobs, tidy, behind>>
vars == <<configVars, discoveryVars>>

On(cfg, f) == cfg[f] = "yes"

-----------------------------------------------------------------------------
(* Topics and messages                                                      *)

\* discovery_topics_for_source, of a source's two entities and its id alone
SourceTopics(prefix, id) ==
    <<[prefix |-> prefix, what |-> id, kind |-> "event"],
      [prefix |-> prefix, what |-> id, kind |-> "sensor"]>>

\* system_discovery_topic
SystemTopics(prefix) == <<[prefix |-> prefix, what |-> System, kind |-> "event"]>>

Topics(prefix, what) == IF what = System THEN SystemTopics(prefix) ELSE SourceTopics(prefix, what)

\* An empty message is 0 and removes the one that was retained.
Stored(messages) ==
    LET all == Over(messages, retained)
    IN  [topic \in {t \in DOMAIN all : all[t] # 0} |-> all[topic]]

Empty == [topic \in {} |-> 0]

Existing == {id \in Ids : sources[id] > 0}

\* what the messages of an entity should say now
Due(what) == IF ~On(active, "discovery") THEN 0
             ELSE IF what = System THEN 1 ELSE IF sources[what] > 0 THEN sources[what] ELSE 0

Expected ==
    LET whats == {w \in Existing \cup {System} : Due(w) > 0}
        topics == UNION {Range(Topics(active["discovery_prefix"], w)) : w \in whats}
    IN  [topic \in topics |-> Due(topic.what)]

-----------------------------------------------------------------------------
(* Jobs                                                                     *)

Publish(what, rev) == [do |-> "publish", what |-> what, rev |-> rev, to |-> Empty]
Unpublish(what) == [do |-> "remove", what |-> what, rev |-> 0, to |-> Empty]
Swap(cfg) == [do |-> "swap", what |-> System, rev |-> 0, to |-> cfg]

Idle(t) == jobs[t] = <<>>
Quiet == \A t \in Threads : Idle(t)
Swapping == \E t \in Threads : ~Idle(t) /\ Head(jobs[t]).do = "swap"

\* a request for a source while an older message for it is still to come
Crossing(id) ==
    \/ Swapping
    \/ \E t \in Threads : \E i \in DOMAIN jobs[t] : jobs[t][i].what = id
    \/ \E topic \in DOMAIN queue : topic.what = id

Crossed(id) == tidy' = (tidy /\ ~Crossing(id)) /\ behind' = (behind \/ Crossing(id))

\* the publish_ and remove_ methods do nothing while MQTT, or for the former
\* discovery, is off
Gated(call) == ~On(active, "enabled") \/ (call.do = "publish" /\ ~On(active, "discovery"))

Skip(t) ==
    /\ ~Idle(t) /\ Head(jobs[t]).do # "swap" /\ Gated(Head(jobs[t]))
    /\ jobs' = [jobs EXCEPT ![t] = Tail(@)]
    /\ tidy' = (tidy /\ Head(jobs[t]).do # "remove")
    /\ UNCHANGED <<configVars, sources, revs, active, conn, queue, retained, behind>>

Calls(t) == ~Idle(t) /\ Head(jobs[t]).do # "swap" /\ ~Gated(Head(jobs[t]))

\* the topics of thread t's call, the message for each being the same
HeadTopics(t) == Topics(active["discovery_prefix"], Head(jobs[t]).what)
Message(t, topics) == [topic \in topics |-> Head(jobs[t]).rev]

\* all messages of the call reach the broker
Send(t) ==
    /\ Calls(t)
    /\ conn \in {"greeting", "up"}
    /\ retained' = Stored(Message(t, Range(HeadTopics(t))))
    /\ jobs' = [jobs EXCEPT ![t] = Tail(@)]
    /\ UNCHANGED <<configVars, sources, revs, active, conn, queue, tidy, behind>>

\* the connection is lost before they are acknowledged: the client keeps them, and
\* wait_for_publish returns after five seconds
SendInVain(t) ==
    /\ Calls(t)
    /\ conn \in {"greeting", "up"}
    /\ conn' = "down"
    /\ queue' = Over(Message(t, Range(HeadTopics(t))), queue)
    /\ jobs' = [jobs EXCEPT ![t] = Tail(@)]
    /\ UNCHANGED <<configVars, sources, revs, active, retained, tidy, behind>>

\* there is no connection, from the start or after the first message: the client (or
\* one that was replaced since the call began) keeps the message, wait_for_publish
\* raises, and nothing more is tried
Raise(t) ==
    /\ Calls(t)
    /\ LET topics == HeadTopics(t)
       IN  \/ /\ conn = "down"
              /\ queue' \in {Over(Message(t, {topics[1]}), queue), queue}
              /\ UNCHANGED retained
           \/ /\ conn \in {"greeting", "up"}
              /\ Len(topics) = 2
              /\ retained' = Stored(Message(t, {topics[1]}))
              /\ queue' = Over(Message(t, {topics[2]}), queue)
    /\ conn' = "down"
    /\ jobs' = [jobs EXCEPT ![t] = <<>>]
    /\ tidy' = FALSE
    /\ behind' = TRUE
    /\ UNCHANGED <<configVars, sources, revs, active>>

\* mutant: the new client connects although MQTT was disabled
ReconfigureConnects(t) ==
    /\ ~Idle(t) /\ Head(jobs[t]).do = "swap"
    /\ active' = Head(jobs[t]).to
    /\ conn' = "down"
    /\ tidy' = (tidy /\ queue = Empty)
    /\ queue' = Empty
    /\ behind' = TRUE
    /\ jobs' = [jobs EXCEPT ![t] = Tail(@)]
    /\ UNCHANGED <<configVars, sources, revs, retained>>

\* reconfigure: the new client knows nothing of the messages the old one kept.  Old
\* entities stay when the prefix changes.
Reconfigure(t) ==
    /\ ~Idle(t) /\ Head(jobs[t]).do = "swap"
    /\ LET cfg == Head(jobs[t]).to
       IN  /\ active' = cfg
           /\ conn' = IF On(cfg, "enabled") THEN "down" ELSE "off"
           /\ tidy' = (tidy /\ queue = Empty
                            /\ cfg["discovery_prefix"] = active["discovery_prefix"])
    /\ queue' = Empty
    /\ behind' = TRUE
    /\ jobs' = [jobs EXCEPT ![t] = Tail(@)]
    /\ UNCHANGED <<configVars, sources, revs, retained>>

-----------------------------------------------------------------------------
(* Requests                                                                 *)

\* bound: sources change and connections come only with few changes of settings made
\* and in processes whose environment sets nothing
Live == edits <= MaxLiveEdits /\ DOMAIN env = {}

NewRev == up /\ Live /\ revs < MaxRevs /\ revs' = revs + 1

Does(t, calls) == Idle(t) /\ jobs' = [jobs EXCEPT ![t] = calls]

AddSource(t, id) ==
    /\ NewRev
    /\ sources[id] = -1
    /\ sources' = [sources EXCEPT ![id] = revs + 1]
    /\ Does(t, <<Publish(id, revs + 1)>>)
    /\ Crossed(id)
    /\ UNCHANGED <<configVars, active, conn, queue, retained>>

\* the id stays, so that the same topics are overwritten
UpdateSource(t, id) ==
    /\ NewRev
    /\ sources[id] > 0
    /\ sources' = [sources EXCEPT ![id] = revs + 1]
    /\ Does(t, <<Publish(id, revs + 1)>>)
    /\ Crossed(id)
    /\ UNCHANGED <<configVars, active, conn, queue, retained>>

\* mutant: only the worker and the file go
DeleteSourceOnly(t, id) ==
    /\ up
    /\ sources[id] > 0
    /\ sources' = [sources EXCEPT ![id] = 0]
    /\ Does(t, <<>>)
    /\ Crossed(id)
    /\ UNCHANGED <<configVars, revs, active, conn, queue, retained>>

DeleteSource(t, id) ==
    /\ up
    /\ sources[id] > 0
    /\ sources' = [sources EXCEPT ![id] = 0]
    /\ Does(t, <<Unpublish(id)>>)
    /\ Crossed(id)
    /\ UNCHANGED <<configVars, revs, active, conn, queue, retained>>

\* the bounds on changes of settings
Begun == revs > 1 \/ conn \in {"greeting", "up"} \/ ~Quiet \/ retained # Empty \/ queue # Empty
MayEdit == edits < MaxLiveEdits \/ ~Begun

\* update_mqtt; turning discovery off removes what was published with it on
UpdateMqtt(t, raw) ==
    /\ MayEdit /\ ~Swapping
    /\ SetMqtt(raw)
    /\ Does(t, <<Swap(settings')>> \o
               (IF On(settings, "discovery") /\ ~On(settings', "discovery")
                THEN <<Unpublish(System)>> \o SetToSeq({Unpublish(id) : id \in Existing})
                ELSE <<>>))
    /\ tidy' = (tidy /\ Quiet)
    /\ UNCHANGED <<sources, revs, active, conn, queue, retained, behind>>

\* ... when it cannot save: the publisher goes on with its old config, and a later
\* update takes what is in memory for the state of affairs
UpdateMqttFails(raw) ==
    /\ MayEdit /\ ~Swapping
    /\ SetMqttFails(raw)
    /\ tidy' = FALSE
    /\ UNCHANGED <<sources, revs, active, conn, queue, retained, jobs, behind>>

\* config.yaml is edited by hand
EditByHand(raw) ==
    /\ MayEdit
    /\ EditFile(raw)
    /\ UNCHANGED discoveryVars

-----------------------------------------------------------------------------
(* The connection and the process                                           *)

\* mutant: only the instance's own entity is published again
AllSystem == <<Publish(System, 1)>>

\* publish_all_discovery
All == <<Publish(System, 1)>> \o SetToSeq({Publish(id, sources[id]) : id \in Existing})

\* on_connect and _on_mqtt_status_change: a new thread is to publish everything, for
\* the sources there are now.  It makes up for what went wrong before unless an older
\* message is still to come.
Connect(t) ==
    /\ Live
    /\ conn = "down"
    /\ conn' = "greeting"
    /\ Does(t, All)
    /\ behind' = (behind /\ ~(Quiet /\ \A topic \in DOMAIN queue : queue[topic] = Due(topic.what)))
    /\ UNCHANGED <<configVars, sources, revs, active, queue, retained, tidy>>

\* on_connect has returned: the client sends what it kept, after what was published
\* meanwhile
Resend ==
    /\ conn = "greeting"
    /\ conn' = "up"
    /\ retained' = Stored(queue)
    /\ queue' = Empty
    /\ UNCHANGED <<configVars, sources, revs, active, jobs, tidy, behind>>

Disconnect ==
    /\ conn \in {"greeting", "up"}
    /\ conn' = "down"
    /\ UNCHANGED <<configVars, sources, revs, active, queue, retained, jobs, tidy, behind>>

\* a broker that has not kept its messages, or another one
BrokerForgets ==
    /\ conn # "off"
    /\ conn' = "down"
    /\ retained' = Empty
    /\ behind' = TRUE
    /\ UNCHANGED <<configVars, sources, revs, active, queue, jobs, tidy>>

\* the process ends or dies; the sources are in their files
Stop ==
    /\ Exit
    /\ conn' = "off"
    /\ jobs' = [t \in Threads |-> <<>>]
    /\ queue' = Empty
    /\ tidy' = (tidy /\ Quiet /\ queue = Empty)
    /\ UNCHANGED <<sources, revs, active, retained, behind>>

Start ==
    /\ Load
    /\ active' = settings'
    /\ conn' = IF On(settings', "enabled") THEN "down" ELSE "off"
    /\ behind' = TRUE
    /\ tidy' = (tidy /\ \A f \in {"discovery", "discovery_prefix"} : settings'[f] = active[f])
    /\ UNCHANGED <<sources, revs, queue, retained, jobs>>

-----------------------------------------------------------------------------
Init ==
    /\ ConfigInit
    /\ sources \in [Ids -> {-1, 1}]
    /\ revs = 1
    /\ active = settings
    /\ conn = "off"
    /\ queue = Empty
    /\ retained = Empty
    /\ jobs = [t \in Threads |-> <<>>]
    /\ tidy = TRUE
    /\ behind = TRUE

Next ==
    \/ \E t \in Threads :
         \/ Skip(t) \/ Send(t) \/ SendInVain(t) \/ Raise(t) \/ Reconfigure(t) \/ Connect(t)
         \/ \E id \in Ids : AddSource(t, id) \/ UpdateSource(t, id) \/ DeleteSource(t, id)
         \/ \E raw \in Raw : UpdateMqtt(t, raw)
    \/ \E raw \in Raw : UpdateMqttFails(raw) \/ EditByHand(raw)
    \/ Resend \/ Disconnect \/ BrokerForgets \/ Stop \/ Start

Spec == Init /\ [][Next]_vars

-----------------------------------------------------------------------------
Settled == up /\ Quiet /\ conn = "up"

TypeOK ==
    /\ up \in BOOLEAN
    /\ sources \in [Ids -> -1..MaxRevs]
    /\ conn \in {"off", "down", "greeting", "up"}
    /\ conn \in {"greeting", "up"} => up /\ On(active, "enabled")
    /\ DOMAIN queue # {} => conn # "up"
    /\ \A topic \in DOMAIN retained : retained[topic] \in 1..MaxRevs
    /\ tidy \in BOOLEAN /\ behind \in BOOLEAN

\* Home Assistant has exactly the entities of the sources there are, each once and
\* with its current settings (README.md), and none when discovery was turned off,
\* unless a publish failed, requests overlapped with each other or with the thread of
\* a connection, or entities were left where nothing looks for them any more.
EntitiesMatch ==
    (Settled /\ tidy) => retained = Expected

\* A connection brings the entities of all sources back, whatever was lost before:
\* publishes that failed, settings changed while MQTT was off, even the broker's
\* memory (the docstring of publish_all_discovery).  Only a connection made while
\* nothing older is on its way does: where a call of before has still to come, or a
\* message of before is still with the client, it stays behind (Connect), since what
\* comes late may be older than what this connection publishes.  Entities left over
\* by removals that failed are not its business but that of EntitiesMatch.
EntitiesReturn ==
    (Settled /\ ~behind) => \A topic \in DOMAIN Expected :
        topic \in DOMAIN retained /\ retained[topic] = Expected[topic]

=============================================================================
