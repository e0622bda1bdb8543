------------------------------- MODULE Browser -------------------------------
(***************************************************************************)
(* A page of the web UI (index.html, ws-client.js) and the thread that     *)
(* serves its websocket (web.py, _serve_ws_client), on top of the status   *)
(* watchdog and the hub of StatusWatch.                                    *)
(*                                                                         *)
(* The thread first registers a queue, then sends a hello with the current *)
(* state and afterwards passes on what comes into the queue.  The wire     *)
(* keeps the order, so what is sent and not yet shown counts as queued.  A *)
(* message says which badges show what; a page never takes a badge away.   *)
(***************************************************************************)
EXTENDS StatusWatch

VARIABLES
    conn,      \* the websocket of each page: closed, accepted or greeted
    badges,    \* what each page shows
    fetched,   \* the answer to /api/sources on its way to each page
    overtaken  \* badges that answer may put back to an older state

pageVars == <<conn, badges, fetched, overtaken>>
vars == <<watchVars, pageVars>>

Shown == Names \cup {Mqtt}

Nothing == [b \in {} |-> None]

\* all_source_status and mqtt_connected, as the hello carries them
Facts == [b \in {m \in Names : status[m] # None} \cup {Mqtt} |-> IF b = Mqtt THEN mqtt ELSE status[b]]

Init ==
    /\ WatchInit
    /\ conn = [p \in Pages |-> "closed"]
    /\ badges = [p \in Pages |-> [b \in Shown |-> None]]
    /\ fetched = [p \in Pages |-> None]
    /\ overtaken = [p \in Pages |-> {}]

-----------------------------------------------------------------------------
(* The thread that serves a page                                            *)

\* _serve_ws_client: the queue is registered ...
Accept(p) ==
    /\ conn[p] = "closed"
    /\ conn' = [conn EXCEPT ![p] = "accepted"]
    /\ queues' = [queues EXCEPT ![p] = Nothing]
    /\ UNCHANGED <<workers, loopVars, given, mqttVars, badges, fetched, overtaken>>

\* mutant: the state is read before the queue is registered, so that what changes in
\* between is in neither
HelloReadEarly(p) ==
    /\ conn[p] = "accepted"
    /\ conn' = [conn EXCEPT ![p] = "greeted"]
    /\ queues' = [queues EXCEPT ![p] = [b \in DOMAIN Facts \ DOMAIN @ |-> Facts[b]]]
    /\ UNCHANGED <<workers, loopVars, given, mqttVars, badges, fetched, overtaken>>

\* ... and then the hello is sent, ahead of all that is in the queue
Hello(p) ==
    /\ conn[p] = "accepted"
    /\ conn' = [conn EXCEPT ![p] = "greeted"]
    /\ queues' = [queues EXCEPT ![p] = Over(@, Facts)]
    /\ UNCHANGED <<workers, loopVars, given, mqttVars, badges, fetched, overtaken>>

\* mutant: the queue stays registered
CutRegistered(p) ==
    /\ conn[p] # "closed"
    /\ conn' = [conn EXCEPT ![p] = "closed"]
    /\ UNCHANGED <<watchVars, badges, fetched, overtaken>>

\* the websocket ends, for the page or in a send of the thread, which then
\* unregisters its queue; what was on the wire is lost
Cut(p) ==
    /\ conn[p] # "closed"
    /\ conn' = [conn EXCEPT ![p] = "closed"]
    /\ queues' = [queues EXCEPT ![p] = None]
    /\ misled' = misled \ {p}
    /\ UNCHANGED <<workers, loopVars, given, mqtt, telling, newest, badges, fetched, overtaken>>

-----------------------------------------------------------------------------
(* The page                                                                 *)

\* onmessage: a badge that a hello or a change names is set
Show(p, b) ==
    /\ conn[p] = "greeted"
    /\ b \in DOMAIN queues[p]
    /\ badges' = [badges EXCEPT ![p][b] = queues[p][b]]
    /\ queues' = [queues EXCEPT ![p] = [c \in DOMAIN @ \ {b} |-> @[c]]]
    /\ overtaken' = [overtaken EXCEPT ![p] = IF fetched[p] = None THEN @ \ {b} ELSE @ \cup {b}]
    /\ UNCHANGED <<workers, loopVars, given, mqttVars, conn, fetched>>

\* GET /api/sources, once the page is loaded: any of the sources may be configured
Fetch(p) ==
    /\ fetched[p] = None
    /\ \E names \in SUBSET Names :
         fetched' = [fetched EXCEPT ![p] =
            [n \in names |-> IF status[n] = None THEN "connecting" ELSE status[n]]]
    /\ UNCHANGED <<watchVars, conn, badges, overtaken>>

\* loadSourceNames, when the answer is there
ShowFetched(p) ==
    /\ fetched[p] # None
    /\ badges' = [badges EXCEPT ![p] = Over(fetched[p], @)]
    /\ fetched' = [fetched EXCEPT ![p] = None]
    /\ UNCHANGED <<watchVars, conn, overtaken>>

-----------------------------------------------------------------------------
Next ==
    \/ WatchNext /\ UNCHANGED pageVars
    \/ \E p \in Pages : Accept(p) \/ Hello(p) \/ Cut(p) \/ Fetch(p) \/ ShowFetched(p)
                     \/ \E b \in Shown : Show(p, b)

\* The loop goes on: it waits at most for its interval and a publish.  A thread
\* that serves a page goes on, and the page shows what arrives.
Fairness ==
    /\ WF_vars(Loop /\ UNCHANGED pageVars)
    /\ \A p \in Pages : WF_vars(Hello(p) \/ \E b \in Shown : Show(p, b))

Spec == Init /\ [][Next]_vars /\ Fairness

-----------------------------------------------------------------------------
TypeOK ==
    /\ WatchTypeOK
    /\ conn \in [Pages -> {"closed", "accepted", "greeted"}]
    /\ badges \in [Pages -> [Shown -> Statuses \cup {None}]]
    /\ overtaken \in [Pages -> SUBSET Shown]
    /\ \A p \in Pages : queues[p] = None <=> conn[p] = "closed"

\* whether the hub still has to be told the newest about a badge
Pending(b) == IF b = Mqtt THEN newest # None ELSE news.name = b /\ news.to = "hub"

\* the badges of a page that may be older than the last that was told of them: by
\* the answer to /api/sources, or by threads that told of the broker out of order
Misplaced(p) == overtaken[p] \cup (IF p \in misled THEN {Mqtt} ELSE {})

\* A page that has its hello and has shown all that was sent shows what the server
\* knows, however the changes fell between the registration of its queue and the
\* state read for the hello, and after any number of reconnections.  Two things may
\* set a badge back: the answer to /api/sources, arriving after a newer message, and
\* a change of the broker's connection that one thread broadcasts after another
\* thread has broadcast a newer one.
PageShowsStatus ==
    \A p \in Pages : (conn[p] = "greeted" /\ queues[p] = Nothing) =>
        \A b \in DOMAIN Facts \ Misplaced(p) :
            Pending(b) \/ badges[p][b] = Facts[b]

=============================================================================
