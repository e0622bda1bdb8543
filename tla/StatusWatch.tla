----------------------------- MODULE StatusWatch -----------------------------
(***************************************************************************)
(* The status watchdog of AppController (controller.py, _status_loop): it  *)
(* looks at a copy of the dict of workers, tells every change to the       *)
(* websocket hub (ws_hub.py) and publishes it as a retained MQTT message.  *)
(* Only the copy is taken under the lock: workers are started and stopped  *)
(* (by whatever request) and the broker is replaced between any two steps. *)
(*                                                                         *)
(* A worker is the age of its last chunk, which matters only up to         *)
(* STALE_SECONDS: "never" before the first, "fresh", or "stale".           *)
(***************************************************************************)
EXTENDS Dicts

CONSTANTS
    Names,    \* the names of sources
    Pages,    \* the browser tabs
    Mqtt,     \* what a page calls the connection to the broker
    Threads,  \* those that call _set_connected: paho's network threads, the
              \* websocket threads that change the settings, the main thread
    None      \* Python's None

Ages == {"never", "fresh", "stale"}

Statuses == {"connecting", "connected", "disconnected"}

ASSUME WatchAssumption ==
    /\ None \notin Names \cup Ages \cup Statuses \cup {"managed", "gone", "lost"}
    /\ Mqtt \notin Names \cup {None}
    /\ None \notin Threads
    /\ \A badges \in SUBSET (Names \cup {Mqtt}) : None \notin [badges -> Statuses]

VARIABLES
    workers,   \* _workers: the worker under each name
    snapshot,  \* the worker this pass has still to look at under each name: the
               \* one in _workers, or one that is "gone" from there
    status,    \* _source_status
    news,      \* the change the loop is telling, and whom
    given,     \* the status the MQTT client was last given for each source, which
               \* the broker retains once it is delivered; "lost" when that was
               \* another client or the newest was not published
    mqtt,      \* MqttPublisher.connected, as a page shows it
    telling,   \* what each thread has set it to and not yet broadcast
    newest,    \* the thread that changed it last, until it has broadcast
    misled,    \* pages that were told an older change after the newest
    queues     \* ws_hub: what each registered page still has to be told.  A queue is
               \* read in order: only the last message on each badge is kept here.

loopVars == <<snapshot, status, news>>

mqttVars == <<mqtt, telling, newest, misled>>

watchVars == <<workers, loopVars, given, mqttVars, queues>>

Silent == [name |-> None, status |-> None, to |-> "nobody"]

WatchInit ==
    /\ workers = [n \in Names |-> None]
    /\ snapshot = [n \in Names |-> None]
    /\ status = [n \in Names |-> None]
    /\ news = Silent
    /\ given = [n \in Names |-> None]
    /\ mqtt = "disconnected"
    /\ telling = [t \in Threads |-> None]
    /\ newest = None
    /\ misled = {}
    /\ queues = [p \in Pages |-> None]

-----------------------------------------------------------------------------
(* Workers                                                                  *)

\* a worker leaves _workers; the pass may still have to look at it
Gone(n) == [snapshot EXCEPT ![n] = IF @ = "managed" THEN "gone" ELSE @]

\* _start_worker, under the lock
Start(n) ==
    /\ workers' = [workers EXCEPT ![n] = "never"]
    /\ snapshot' = Gone(n)
    /\ UNCHANGED <<status, news, given, mqttVars, queues>>

\* _stop_worker, under the lock; the worker itself ends a little later
Stop(n) ==
    /\ workers[n] # None
    /\ workers' = [workers EXCEPT ![n] = None]
    /\ snapshot' = Gone(n)
    /\ status' = [status EXCEPT ![n] = None]
    /\ UNCHANGED <<news, given, mqttVars, queues>>

\* a chunk of audio arrives, or none has for STALE_SECONDS
Hear(n) ==
    /\ workers[n] # None
    /\ workers' = [workers EXCEPT ![n] = "fresh"]
    /\ UNCHANGED <<loopVars, given, mqttVars, queues>>

FallSilent(n) ==
    /\ workers[n] = "fresh"
    /\ workers' = [workers EXCEPT ![n] = "stale"]
    /\ UNCHANGED <<loopVars, given, mqttVars, queues>>

-----------------------------------------------------------------------------
(* The hub                                                                  *)

\* broadcast: into the queue of every page that is registered
Told(badge, text) ==
    [p \in Pages |-> IF queues[p] = None THEN None ELSE Over([b \in {badge} |-> text], queues[p])]

-----------------------------------------------------------------------------
(* The loop                                                                 *)

\* a pass begins: the workers are listed under the lock
Look ==
    /\ \A n \in Names : snapshot[n] = None
    /\ news = Silent
    /\ snapshot' = [n \in Names |-> IF workers[n] = None THEN None ELSE "managed"]
    /\ UNCHANGED <<workers, status, news, given, mqttVars, queues>>

Seen(age) == CASE age = "never" -> "connecting"
               [] age = "fresh" -> "connected"
               [] age = "stale" -> "disconnected"

\* mutant: the status of a worker that has had audio is not looked at again
ConnectedStays(n) ==
    /\ news = Silent
    /\ snapshot[n] # None
    /\ snapshot' = [snapshot EXCEPT ![n] = None]
    /\ \E age \in IF snapshot[n] = "gone" THEN Ages ELSE {workers[n]} :
         IF status[n] \in {Seen(age), "connected"} THEN UNCHANGED <<status, news>>
         ELSE /\ status' = [status EXCEPT ![n] = Seen(age)]
              /\ news' = [name |-> n, status |-> Seen(age), to |-> "hub"]
    /\ UNCHANGED <<workers, given, mqttVars, queues>>

\* one worker of the pass; one that is gone may have heard anything before it went
Observe(n) ==
    /\ news = Silent
    /\ snapshot[n] # None
    /\ snapshot' = [snapshot EXCEPT ![n] = None]
    /\ \E age \in IF snapshot[n] = "gone" THEN Ages ELSE {workers[n]} :
         IF status[n] = Seen(age) THEN UNCHANGED <<status, news>>
         ELSE /\ status' = [status EXCEPT ![n] = Seen(age)]
              /\ news' = [name |-> n, status |-> Seen(age), to |-> "hub"]
    /\ UNCHANGED <<workers, given, mqttVars, queues>>

\* mutant: the first status of a source is not published
BroadcastFirst ==
    /\ news.to = "hub"
    /\ queues' = Told(news.name, news.status)
    /\ news' = IF news.status = "connecting" \/ given[news.name] = None THEN Silent
               ELSE [news EXCEPT !.to = "broker"]
    /\ UNCHANGED <<workers, snapshot, status, given, mqttVars>>

\* ws_hub.broadcast of a change; "connecting" goes no further
Broadcast ==
    /\ news.to = "hub"
    /\ queues' = Told(news.name, news.status)
    /\ news' = IF news.status = "connecting" THEN Silent ELSE [news EXCEPT !.to = "broker"]
    /\ UNCHANGED <<workers, snapshot, status, given, mqttVars>>

\* publish_status.  It waits five seconds at most; when it raises because the
\* client is not connected, the client keeps the message all the same.
Publish ==
    /\ news.to = "broker"
    /\ given' = [given EXCEPT ![news.name] = news.status]
    /\ news' = Silent
    /\ UNCHANGED <<workers, snapshot, status, mqttVars, queues>>

\* the same while MQTT is disabled
PublishNothing ==
    /\ news.to = "broker"
    /\ given' = [given EXCEPT ![news.name] = "lost"]
    /\ news' = Silent
    /\ UNCHANGED <<workers, snapshot, status, mqttVars, queues>>

-----------------------------------------------------------------------------
(* The connection to the broker                                             *)

\* reconfigure: a new client, for the same broker or another, which knows nothing of
\* the messages of the old one
Reconfigure ==
    /\ given' = [n \in Names |-> "lost"]
    /\ UNCHANGED <<workers, loopVars, mqttVars, queues>>

\* mutant: the callback is not called while another thread is in it
SetConnectedOnce(t) ==
    /\ telling[t] = None
    /\ mqtt' = IF mqtt = "connected" THEN "disconnected" ELSE "connected"
    /\ IF \E u \in Threads : telling[u] # None THEN UNCHANGED <<telling, newest>>
       ELSE /\ telling' = [telling EXCEPT ![t] = mqtt']
            /\ newest' = t
    /\ UNCHANGED <<workers, loopVars, given, misled, queues>>

\* _set_connected, when it changes the flag: it does so under the lock ...
SetConnected(t) ==
    /\ telling[t] = None
    /\ mqtt' = IF mqtt = "connected" THEN "disconnected" ELSE "connected"
    /\ telling' = [telling EXCEPT ![t] = mqtt']
    /\ newest' = t
    /\ UNCHANGED <<workers, loopVars, given, misled, queues>>

\* ... and calls _on_mqtt_status_change when it has released it.  By then another
\* thread may have changed the flag again, and even have told of it.
TellConnected(t) ==
    /\ telling[t] # None
    /\ queues' = Told(Mqtt, telling[t])
    /\ telling' = [telling EXCEPT ![t] = None]
    /\ newest' = IF t = newest THEN None ELSE newest
    /\ misled' = IF t = newest THEN {}
                 ELSE misled \cup {p \in Pages : newest = None /\ queues[p] # None}
    /\ UNCHANGED <<workers, loopVars, given, mqtt>>

-----------------------------------------------------------------------------
Loop == \/ Look
        \/ \E n \in Names : Observe(n)
        \/ Broadcast
        \/ Publish
        \/ PublishNothing

WatchNext ==
    \/ Loop
    \/ \E n \in Names : Start(n) \/ Stop(n) \/ Hear(n) \/ FallSilent(n)
    \/ Reconfigure
    \/ \E t \in Threads : SetConnected(t) \/ TellConnected(t)

WatchSpec == WatchInit /\ [][WatchNext]_watchVars

-----------------------------------------------------------------------------
WatchTypeOK ==
    /\ workers \in [Names -> Ages \cup {None}]
    /\ snapshot \in [Names -> {"managed", "gone", None}]
    /\ status \in [Names -> Statuses \cup {None}]
    /\ \/ news = Silent
       \/ news \in [name : Names, status : Statuses, to : {"hub", "broker"}]
    /\ given \in [Names -> {"connected", "disconnected", "lost", None}]
    /\ mqtt \in {"connected", "disconnected"}
    /\ telling \in [Threads -> {"connected", "disconnected", None}]
    /\ newest \in Threads \cup {None}
    /\ misled \subseteq Pages

\* A subscriber connecting later sees the current state (the docstring of
\* publish_status): once a status other than "connecting" has been told, the first
\* of a source included, it is what the broker has or gets, whichever worker it was
\* seen on and though a failed publish is not repeated.  Not so for the statuses
\* published before the client was replaced or while MQTT was disabled.
RetainedIsStatus ==
    \A n \in Names :
        (status[n] \in {"connected", "disconnected"} /\ news.name # n /\ given[n] # "lost")
            => given[n] = status[n]

\* The status follows the audio: from a source that goes on delivering chunks it is
\* "connected" for good, from one that has fallen silent "disconnected", whatever
\* the loop still wrote about a worker stopped before, and with pages coming and
\* going (_status_loop).
StatusFollowsAudio ==
    \A n \in Names :
        /\ <>[](workers[n] = "fresh")
               => <>[](status[n] = "connected")
        /\ <>[](workers[n] = "stale")
               => <>[](status[n] = "disconnected")

=============================================================================
