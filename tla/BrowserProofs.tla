---------------------------- MODULE BrowserProofs ----------------------------
(***************************************************************************)
(* For any number of sources and pages: what the broker retains and what   *)
(* a page shows is the status the server has.                              *)
(*                                                                         *)
(* PageShowsStatus speaks of pages that have shown everything.  Before     *)
(* that, what is queued last for a badge must be its state (QueuedIsTrue), *)
(* a badge nothing is queued for must show it already (ShownIsTrue), and   *)
(* so must the answer to /api/sources, if it comes now (FetchedIsTrue).    *)
(* All of it but for the change that the loop, or the newest thread to     *)
(* change the flag of the broker's connection, is still to tell, and for   *)
(* pages that were told of the broker out of order; NewsIsTrue and         *)
(* NewestIsTrue say what that change is worth when it is told.             *)
(***************************************************************************)
EXTENDS Browser, TLAPS

\* what can be told of some badges
Boards == UNION {[bs -> Statuses] : bs \in SUBSET Shown}

QueueOK == queues \in [Pages -> Boards \cup {None}]

FetchOK == fetched \in [Pages -> Boards \cup {None}]

\* the change the loop is telling is the status, unless that was removed meanwhile
NewsIsTrue ==
    news # Silent => /\ status[news.name] \in {news.status, None}
                     /\ news.to = "broker" => news.status # "connecting"

\* what the thread that changed the flag last has to tell is the flag
NewestIsTrue == newest # None => telling[newest] = mqtt

\* a worker the loop has still to look at is there unless it was seen to leave
ManagedIsThere == \A n \in Names : snapshot[n] = "managed" => workers[n] # None

\* what the hub has told page p of a badge b, and is true
Known(p, b) == b \in DOMAIN Facts /\ ~Pending(b) /\ (b = Mqtt => p \notin misled)

QueuedIsTrue ==
    \A p \in Pages : conn[p] # "closed" =>
        \A b \in DOMAIN queues[p] : Known(p, b) => queues[p][b] = Facts[b]

ShownIsTrue ==
    \A p \in Pages : conn[p] = "greeted" =>
        \A b \in Shown \ (DOMAIN queues[p] \cup overtaken[p]) :
            Known(p, b) => badges[p][b] = Facts[b]

FetchedIsTrue ==
    \A p \in Pages : (conn[p] = "greeted" /\ fetched[p] # None) =>
        \A b \in DOMAIN fetched[p] \ (DOMAIN queues[p] \cup overtaken[p]) :
            Known(p, b) => fetched[p][b] = Facts[b]

TypesOK == TypeOK /\ QueueOK /\ FetchOK

IInv ==
    /\ TypesOK
    /\ ManagedIsThere
    /\ NewsIsTrue
    /\ NewestIsTrue
    /\ RetainedIsStatus
    /\ QueuedIsTrue
    /\ ShownIsTrue
    /\ FetchedIsTrue

-----------------------------------------------------------------------------
\* What the hello carries: the status of every source that has one, and of MQTT.
LEMMA FactsAre ==
    ASSUME WatchTypeOK
    PROVE  /\ DOMAIN Facts = {n \in Names : status[n] # None} \cup {Mqtt}
           /\ DOMAIN Facts \in SUBSET Shown
           /\ \A n \in Names : status[n] # None => Facts[n] = status[n]
           /\ Facts[Mqtt] = mqtt
           /\ Facts \in [DOMAIN Facts -> Statuses]
BY WatchAssumption DEF WatchTypeOK, Facts, Shown, Statuses

\* A board is a function of badges to statuses, and never None.
LEMMA BoardsAre ==
    /\ None \notin Boards
    /\ \A q \in Boards : /\ q = [b \in DOMAIN q |-> q[b]]
                        /\ DOMAIN q \in SUBSET Shown
                        /\ \A b \in DOMAIN q : q[b] \in Statuses
    /\ \A bs \in SUBSET Shown : \A q \in [bs -> Statuses] : q \in Boards
BY WatchAssumption DEF Boards, Shown

\* What a newer board says goes before what an older one says.
LEMMA OverBoards ==
    ASSUME NEW new \in Boards, NEW old \in Boards
    PROVE  /\ Over(new, old) \in Boards
           /\ DOMAIN Over(new, old) = DOMAIN new \cup DOMAIN old
           /\ \A b \in DOMAIN new : Over(new, old)[b] = new[b]
           /\ \A b \in DOMAIN old \ DOMAIN new : Over(new, old)[b] = old[b]
<1>1. Over(new, old) \in [DOMAIN new \cup DOMAIN old -> Statuses]
  BY BoardsAre DEF Over
<1> QED
  BY <1>1, BoardsAre DEF Over

\* A broadcast reaches every page that is registered, and no other.
LEMMA ToldIs ==
    ASSUME QueueOK, NEW badge \in Shown, NEW text \in Statuses
    PROVE  /\ Told(badge, text) \in [Pages -> Boards \cup {None}]
           /\ \A p \in Pages : Told(badge, text)[p] = None <=> queues[p] = None
           /\ \A p \in Pages : queues[p] # None =>
                 /\ DOMAIN Told(badge, text)[p] = DOMAIN queues[p] \cup {badge}
                 /\ Told(badge, text)[p][badge] = text
                 /\ \A b \in DOMAIN queues[p] \ {badge} : Told(badge, text)[p][b] = queues[p][b]
<1> DEFINE new == [b \in {badge} |-> text]
<1>1. new \in Boards /\ DOMAIN new = {badge} /\ new[badge] = text
  BY BoardsAre
<1>2. \A p \in Pages :
        Told(badge, text)[p] = IF queues[p] = None THEN None ELSE Over(new, queues[p])
  BY DEF Told
<1>3. ASSUME NEW p \in Pages, queues[p] # None
      PROVE  /\ Over(new, queues[p]) \in Boards
             /\ DOMAIN Over(new, queues[p]) = DOMAIN queues[p] \cup {badge}
             /\ Over(new, queues[p])[badge] = text
             /\ \A b \in DOMAIN queues[p] \ {badge} : Over(new, queues[p])[b] = queues[p][b]
  <2>1. queues[p] \in Boards
    BY <1>3 DEF QueueOK
  <2> HIDE DEF new
  <2>2. /\ Over(new, queues[p]) \in Boards
        /\ DOMAIN Over(new, queues[p]) = DOMAIN new \cup DOMAIN queues[p]
        /\ \A b \in DOMAIN new : Over(new, queues[p])[b] = new[b]
        /\ \A b \in DOMAIN queues[p] \ DOMAIN new : Over(new, queues[p])[b] = queues[p][b]
    BY <1>1, <2>1, OverBoards, Zenon
  <2> QED
    BY <1>1, <2>2
<1> HIDE DEF new
<1>4. \A p \in Pages : Told(badge, text)[p] \in Boards \cup {None}
  BY <1>2, <1>3
<1>5. Told(badge, text) = [p \in Pages |-> Told(badge, text)[p]]
  BY DEF Told
<1>6. \A p \in Pages : Told(badge, text)[p] = None <=> queues[p] = None
  BY <1>2, <1>3, BoardsAre, ZenonT(30)
<1>7. ASSUME NEW p \in Pages, queues[p] # None
      PROVE  /\ DOMAIN Told(badge, text)[p] = DOMAIN queues[p] \cup {badge}
             /\ Told(badge, text)[p][badge] = text
             /\ \A b \in DOMAIN queues[p] \ {badge} : Told(badge, text)[p][b] = queues[p][b]
  <2>1. Told(badge, text)[p] = Over(new, queues[p])
    BY <1>2, <1>7
  <2> QED
    BY <2>1, <1>3, <1>7
<1>8. Told(badge, text) \in [Pages -> Boards \cup {None}]
  BY <1>4, <1>5
<1> QED
  BY <1>6, <1>7, <1>8

\* Initially there is nothing to tell.
LEMMA InitIInv == Init => IInv
<1> SUFFICES ASSUME Init PROVE IInv
  OBVIOUS
<1>1. TypesOK
  BY WatchAssumption DEF Init, WatchInit, TypesOK, TypeOK, WatchTypeOK, QueueOK, FetchOK, Silent,
    Statuses, Ages, Shown
<1>2. ManagedIsThere /\ NewsIsTrue /\ NewestIsTrue /\ RetainedIsStatus
  BY WatchAssumption
     DEF Init, WatchInit, ManagedIsThere, NewsIsTrue, NewestIsTrue, RetainedIsStatus, Silent, Statuses
<1>3. QueuedIsTrue /\ ShownIsTrue /\ FetchedIsTrue
  BY DEF Init, QueuedIsTrue, ShownIsTrue, FetchedIsTrue
<1> QED
  BY <1>1, <1>2, <1>3 DEF IInv

-----------------------------------------------------------------------------
\* A step that changes neither what is known nor what was told keeps the invariant.
LEMMA SameBoards ==
    ASSUME IInv, UNCHANGED <<status, mqttVars, queues, pageVars>>, \A b : Pending(b)' <=> Pending(b),
           WatchTypeOK', ManagedIsThere', NewsIsTrue', RetainedIsStatus'
    PROVE  IInv'
<1> USE DEF pageVars, mqttVars
<1>1. TypesOK' /\ NewestIsTrue'
  BY DEF IInv, TypesOK, TypeOK, QueueOK, FetchOK, NewestIsTrue
<1>2. Facts' = Facts /\ \A p, b : Known(p, b)' <=> Known(p, b)
  BY DEF Facts, Known
<1>3. QueuedIsTrue' /\ ShownIsTrue' /\ FetchedIsTrue'
  BY <1>2 DEF IInv, QueuedIsTrue, ShownIsTrue, FetchedIsTrue
<1> QED
  BY <1>1, <1>3 DEF IInv

\* A worker that stops takes the status with it.
LEMMA StopKeeps ==
    ASSUME IInv, UNCHANGED pageVars, NEW n \in Names, Stop(n)
    PROVE  IInv'
<1> USE DEF pageVars, mqttVars, Stop
<1>1. WatchTypeOK'
  BY DEF IInv, TypesOK, TypeOK, WatchTypeOK, Gone
<1>2. \A p, b : b \in Shown /\ Known(p, b)' => Known(p, b) /\ Facts'[b] = Facts[b]
  BY WatchAssumption DEF IInv, TypesOK, TypeOK, WatchTypeOK, Known, Pending, Facts, Shown
<1>3. TypesOK'
  BY <1>1 DEF IInv, TypesOK, TypeOK, QueueOK, FetchOK
<1>4. ManagedIsThere'
  BY DEF IInv, TypesOK, TypeOK, WatchTypeOK, ManagedIsThere, Gone
<1>5. NewsIsTrue'
  BY DEF IInv, TypesOK, TypeOK, WatchTypeOK, NewsIsTrue, Silent
<1>6. RetainedIsStatus'
  BY WatchAssumption DEF IInv, TypesOK, TypeOK, WatchTypeOK, RetainedIsStatus, Statuses
<1>7. \A p, b : Known(p, b)' => b \in Shown
  BY <1>1, WatchAssumption DEF Known, Facts, Shown
<1>8. QueuedIsTrue' /\ ShownIsTrue' /\ FetchedIsTrue'
  BY <1>2, <1>7 DEF IInv, QueuedIsTrue, ShownIsTrue, FetchedIsTrue
<1>9. NewestIsTrue'
  BY DEF IInv, NewestIsTrue
<1> QED
  BY <1>3, <1>4, <1>5, <1>6, <1>8, <1>9 DEF IInv

\* What the loop observes is news, and is not known before it is told.
LEMMA ObserveKeeps ==
    ASSUME IInv, UNCHANGED pageVars, NEW n \in Names, Observe(n)
    PROVE  IInv'
<1> USE DEF pageVars, mqttVars
<1>1. PICK age \in Ages :
        IF status[n] = Seen(age) THEN UNCHANGED <<status, news>>
        ELSE /\ status' = [status EXCEPT ![n] = Seen(age)]
             /\ news' = [name |-> n, status |-> Seen(age), to |-> "hub"]
  BY WatchAssumption DEF Observe, IInv, TypesOK, TypeOK, WatchTypeOK, ManagedIsThere
<1>2. Seen(age) \in Statuses
  BY DEF Seen, Ages, Statuses
<1>3. WatchTypeOK'
  BY <1>1, <1>2 DEF Observe, IInv, TypesOK, TypeOK, WatchTypeOK, Silent
<1>4. TypesOK'
  BY <1>3 DEF Observe, IInv, TypesOK, TypeOK, QueueOK, FetchOK
<1>5. ManagedIsThere'
  BY WatchAssumption DEF Observe, IInv, TypesOK, TypeOK, WatchTypeOK, ManagedIsThere
<1>9. NewsIsTrue'
  BY <1>1, <1>2 DEF Observe, IInv, TypesOK, TypeOK, WatchTypeOK, NewsIsTrue, Silent
<1>10. RetainedIsStatus'
  BY <1>1, <1>2, WatchAssumption
     DEF Observe, IInv, TypesOK, TypeOK, WatchTypeOK, RetainedIsStatus, Silent
<1>6. \A p, b : b \in Shown /\ Known(p, b)' => Known(p, b) /\ Facts'[b] = Facts[b]
  BY <1>1, <1>2, WatchAssumption
     DEF Observe, IInv, TypesOK, TypeOK, WatchTypeOK, Known, Pending, Facts, Shown, Silent
<1>7. \A p, b : Known(p, b)' => b \in Shown
  BY <1>3, WatchAssumption DEF Known, Facts, Shown
<1>8. QueuedIsTrue' /\ ShownIsTrue' /\ FetchedIsTrue'
  BY <1>6, <1>7 DEF Observe, IInv, QueuedIsTrue, ShownIsTrue, FetchedIsTrue
<1>11. NewestIsTrue'
  BY DEF Observe, IInv, NewestIsTrue
<1> QED
  BY <1>4, <1>5, <1>8, <1>9, <1>10, <1>11 DEF IInv

\* What workers do shows only in what the loop sees of them next.
LEMMA WorkersKeep ==
    ASSUME IInv, UNCHANGED pageVars, NEW n \in Names, Start(n) \/ Hear(n) \/ FallSilent(n)
    PROVE  IInv'
<1>1. UNCHANGED <<status, news, given, mqttVars, queues>>
  BY DEF Start, Hear, FallSilent, loopVars
<1>2. WatchTypeOK'
  BY SMTT(30) DEF Start, Hear, FallSilent, loopVars, mqttVars, Gone, Ages, IInv, TypesOK, TypeOK, WatchTypeOK
<1>3. ManagedIsThere'
  BY WatchAssumption
     DEF Start, Hear, FallSilent, loopVars, mqttVars, Gone, Ages, IInv, TypesOK, TypeOK, WatchTypeOK,
         ManagedIsThere
<1>4. (\A b : Pending(b)' <=> Pending(b)) /\ NewsIsTrue' /\ RetainedIsStatus'
  BY <1>1 DEF mqttVars, IInv, Pending, NewsIsTrue, RetainedIsStatus
<1> QED
  BY <1>1, <1>2, <1>3, <1>4, SameBoards

\* A new pass, or what the broker is given, and by which client, is no page's business.
LEMMA BrokerKeeps ==
    ASSUME IInv, UNCHANGED pageVars, Look \/ Publish \/ PublishNothing \/ Reconfigure
    PROVE  IInv'
<1>1. UNCHANGED <<workers, status, mqttVars, queues>>
  BY DEF Look, Publish, PublishNothing, Reconfigure, loopVars
<1>2. \A b : Pending(b)' <=> Pending(b)
  BY DEF Look, Publish, PublishNothing, Reconfigure, loopVars, mqttVars, Pending, Silent
<1>3. WatchTypeOK'
  <2>1. CASE Look
    BY <2>1 DEF Look, mqttVars, IInv, TypesOK, TypeOK, WatchTypeOK
  <2>2. CASE Publish
    <3>1. news \in [name : Names, status : Statuses, to : {"hub", "broker"}]
      BY <2>2 DEF Publish, mqttVars, IInv, TypesOK, TypeOK, WatchTypeOK, Silent
    <3>2. news.status # "connecting"
      BY <2>2 DEF Publish, IInv, NewsIsTrue, Silent
    <3> QED
      BY <2>2, <3>1, <3>2 DEF Publish, mqttVars, IInv, TypesOK, TypeOK, WatchTypeOK, Statuses
  <2>3. CASE PublishNothing
    BY <2>3 DEF PublishNothing, mqttVars, IInv, TypesOK, TypeOK, WatchTypeOK
  <2>4. CASE Reconfigure
    BY <2>4 DEF Reconfigure, loopVars, mqttVars, IInv, TypesOK, TypeOK, WatchTypeOK
  <2> QED
    BY <2>1, <2>2, <2>3, <2>4
<1>4. ManagedIsThere'
  BY WatchAssumption DEF Look, Publish, PublishNothing, Reconfigure, loopVars, IInv, ManagedIsThere
<1>5. NewsIsTrue'
  BY DEF Look, Publish, PublishNothing, Reconfigure, loopVars, IInv, NewsIsTrue
<1>6. RetainedIsStatus'
  <2>1. CASE Look
    BY <2>1 DEF Look, IInv, RetainedIsStatus
  <2>2. CASE Publish \/ PublishNothing
    <3>1. news # Silent /\ news.name \in Names /\ UNCHANGED status
      BY <2>2 DEF Publish, PublishNothing, IInv, TypesOK, TypeOK, WatchTypeOK, Silent
    <3>2. status[news.name] \in {news.status, None}
      BY <3>1 DEF IInv, NewsIsTrue
    <3>3. ASSUME NEW n \in Names, n # news.name
          PROVE  given'[n] = given[n]
      BY <2>2, <3>1, <3>3 DEF Publish, PublishNothing, IInv, TypesOK, TypeOK, WatchTypeOK
    <3>4. given'[news.name] \in {news.status, "lost"}
      BY <2>2, <3>1 DEF Publish, PublishNothing, IInv, TypesOK, TypeOK, WatchTypeOK
    <3> QED
      BY <3>1, <3>2, <3>3, <3>4, WatchAssumption DEF IInv, RetainedIsStatus, Statuses
  <2>3. CASE Reconfigure
    BY <2>3 DEF Reconfigure, RetainedIsStatus
  <2> QED
    BY <2>1, <2>2, <2>3
<1> QED
  BY <1>1, <1>2, <1>3, <1>4, <1>5, <1>6, SameBoards

\* A badge that is told for what it now is, to every page, stays or becomes known.
LEMMA ToldKeeps ==
    ASSUME IInv, UNCHANGED <<status, pageVars>>, NEW badge \in Shown, NEW text \in Statuses,
           queues' = Told(badge, text),
           \A p \in Pages : queues[p] # None /\ Known(p, badge)' => Facts'[badge] = text,
           \A p, b : b \in Shown \ {badge} /\ Known(p, b)' => Known(p, b) /\ Facts'[b] = Facts[b],
           WatchTypeOK'
    PROVE  TypesOK' /\ QueuedIsTrue' /\ ShownIsTrue' /\ FetchedIsTrue'
<1> USE DEF pageVars
<1>1. QueueOK
  BY DEF IInv, TypesOK
<1>2. /\ queues' \in [Pages -> Boards \cup {None}]
      /\ \A p \in Pages : queues'[p] = None <=> queues[p] = None
      /\ \A p \in Pages : queues[p] # None =>
            /\ DOMAIN queues'[p] = DOMAIN queues[p] \cup {badge}
            /\ queues'[p][badge] = text
            /\ \A b \in DOMAIN queues[p] \ {badge} : queues'[p][b] = queues[p][b]
  BY <1>1, ToldIs
<1>3. TypesOK'
  BY <1>2 DEF IInv, TypesOK, TypeOK, QueueOK, FetchOK
<1>4. \A p \in Pages : conn[p] # "closed" => queues[p] # None
  BY DEF IInv, TypesOK, TypeOK
<1>5. \A p, b : Known(p, b)' => b \in Shown
  BY FactsAre, <1>3 DEF TypesOK, TypeOK, WatchTypeOK, Known, Facts, Shown
<1>6. QueuedIsTrue'
  BY <1>2, <1>4, <1>5 DEF IInv, QueuedIsTrue, Known
<1>7. ShownIsTrue'
  BY <1>2, <1>4 DEF IInv, ShownIsTrue, Known
<1>8. FetchedIsTrue'
  BY <1>2, <1>4, <1>5 DEF IInv, FetchedIsTrue, Known
<1> QED
  BY <1>3, <1>6, <1>7, <1>8

\* The hub is told the news.
LEMMA BroadcastKeeps ==
    ASSUME IInv, UNCHANGED pageVars, Broadcast
    PROVE  IInv'
<1> USE DEF mqttVars
<1>1. /\ news \in [name : Names, status : Statuses, to : {"hub", "broker"}]
      /\ news # Silent
  BY DEF Broadcast, IInv, TypesOK, TypeOK, WatchTypeOK, Silent
<1>2. WatchTypeOK'
  BY <1>1 DEF Broadcast, IInv, TypesOK, TypeOK, WatchTypeOK
<1>3. status[news.name] \in {news.status, None}
  BY <1>1 DEF IInv, NewsIsTrue
<1>4. PICK badge \in Shown : badge = news.name
  BY <1>1 DEF Shown
<1>5. \A p \in Pages : queues[p] # None /\ Known(p, badge)' => Facts'[badge] = news.status
  <2>1. badge \in DOMAIN Facts' => Facts'[badge] = news.status
    BY <1>1, <1>3, <1>4, WatchAssumption DEF Broadcast, Facts
  <2> QED
    BY <2>1 DEF Known
<1>6. \A p, b : b \in Shown \ {badge} /\ Known(p, b)' => Known(p, b) /\ Facts'[b] = Facts[b]
  BY <1>4 DEF Broadcast, Known, Pending, Facts
<1>7. ManagedIsThere'
  BY DEF Broadcast, IInv, ManagedIsThere
<1>8. NewsIsTrue'
  BY <1>1, <1>3 DEF Broadcast, NewsIsTrue, Silent
<1>9. RetainedIsStatus'
  BY <1>1, <1>3, WatchAssumption DEF Broadcast, IInv, RetainedIsStatus, Silent, Statuses
<1>10. news.status \in Statuses /\ queues' = Told(badge, news.status) /\ UNCHANGED <<status, pageVars>>
  BY <1>1, <1>4 DEF Broadcast
<1>11. TypesOK' /\ QueuedIsTrue' /\ ShownIsTrue' /\ FetchedIsTrue'
  BY <1>2, <1>5, <1>6, <1>10, ToldKeeps
<1>12. NewestIsTrue'
  BY DEF Broadcast, IInv, NewestIsTrue
<1> QED
  BY <1>7, <1>8, <1>9, <1>11, <1>12 DEF IInv

\* While the newest change of the flag is to be told nothing is known of it.
LEMMA SetConnectedKeeps ==
    ASSUME IInv, UNCHANGED pageVars, NEW t \in Threads, SetConnected(t)
    PROVE  IInv'
<1> USE DEF SetConnected, loopVars, pageVars
<1>1. WatchTypeOK'
  BY DEF IInv, TypesOK, TypeOK, WatchTypeOK
<1>2. TypesOK'
  BY <1>1 DEF IInv, TypesOK, TypeOK, QueueOK, FetchOK
<1>3. ManagedIsThere' /\ NewsIsTrue' /\ RetainedIsStatus'
  BY DEF IInv, ManagedIsThere, NewsIsTrue, RetainedIsStatus
<1>4. NewestIsTrue'
  BY DEF IInv, TypesOK, TypeOK, WatchTypeOK, NewestIsTrue
<1>5. \A p, b : Known(p, b)' => b # Mqtt /\ Known(p, b) /\ Facts'[b] = Facts[b]
  BY WatchAssumption DEF Known, Pending, Facts
<1>6. QueuedIsTrue' /\ ShownIsTrue' /\ FetchedIsTrue'
  BY <1>5 DEF IInv, QueuedIsTrue, ShownIsTrue, FetchedIsTrue
<1> QED
  BY <1>2, <1>3, <1>4, <1>6 DEF IInv

\* The newest change, when it is told, is true; an older one misleads pages unless the
\* newest is still to come.
LEMMA TellConnectedKeeps ==
    ASSUME IInv, UNCHANGED pageVars, NEW t \in Threads, TellConnected(t)
    PROVE  IInv'
<1> USE DEF TellConnected, loopVars
<1>1. telling[t] \in {"connected", "disconnected"}
  BY DEF IInv, TypesOK, TypeOK, WatchTypeOK
<1>2. WatchTypeOK'
  BY <1>1 DEF IInv, TypesOK, TypeOK, WatchTypeOK
<1>3. ManagedIsThere' /\ NewsIsTrue' /\ RetainedIsStatus'
  BY DEF IInv, ManagedIsThere, NewsIsTrue, RetainedIsStatus
<1>4. NewestIsTrue'
  BY DEF IInv, TypesOK, TypeOK, WatchTypeOK, NewestIsTrue
<1>5. Facts' = Facts /\ Facts[Mqtt] = mqtt
  BY FactsAre DEF IInv, TypesOK, TypeOK, Facts
<1>6. ASSUME NEW p \in Pages, queues[p] # None, Known(p, Mqtt)'
      PROVE  Facts'[Mqtt] = telling[t]
  <2>1. newest' = None /\ p \notin misled'
    BY <1>6 DEF Known, Pending
  <2>2. t = newest
    BY <1>6, <2>1
  <2>3. newest # None
    BY <2>2, WatchAssumption
  <2> QED
    BY <1>5, <2>2, <2>3 DEF IInv, NewestIsTrue
<1>7. \A p, b : b \in Shown \ {Mqtt} /\ Known(p, b)' => Known(p, b) /\ Facts'[b] = Facts[b]
  BY <1>5 DEF Known, Pending
<1>8. Mqtt \in Shown /\ telling[t] \in Statuses /\ queues' = Told(Mqtt, telling[t])
  BY <1>1 DEF Shown, Statuses
<1>9. TypesOK' /\ QueuedIsTrue' /\ ShownIsTrue' /\ FetchedIsTrue'
  <2>1. UNCHANGED <<status, pageVars>>
    OBVIOUS
  <2> QED
    BY <1>2, <1>6, <1>7, <1>8, <2>1, ToldKeeps
<1> QED
  BY <1>3, <1>4, <1>9 DEF IInv

\* What a page and its thread do changes no fact; a page that is cut off may be
\* misled no more.
LEMMA CutStep ==
    ASSUME IInv, UNCHANGED <<workers, snapshot, status, news, given, mqtt, telling, newest>>,
           misled' \subseteq misled
    PROVE  /\ WatchTypeOK' /\ ManagedIsThere' /\ NewsIsTrue' /\ NewestIsTrue' /\ RetainedIsStatus'
           /\ Facts' = Facts
           /\ \A p, b : (p \in misled => p \in misled') => (Known(p, b)' <=> Known(p, b))
           /\ \A p, b : Known(p, b) => b \in Shown
<1>1. /\ WatchTypeOK' /\ ManagedIsThere' /\ NewsIsTrue' /\ NewestIsTrue'
      /\ RetainedIsStatus'
  BY DEF IInv, TypesOK, TypeOK, WatchTypeOK, ManagedIsThere, NewsIsTrue, NewestIsTrue, RetainedIsStatus
<1>2. Facts' = Facts /\ \A p, b : (p \in misled => p \in misled') => (Known(p, b)' <=> Known(p, b))
  BY DEF Facts, Known, Pending
<1>3. \A p, b : Known(p, b) => b \in Shown
  BY FactsAre DEF IInv, TypesOK, TypeOK, Known, Shown
<1> QED
  BY <1>1, <1>2, <1>3

\* What else they do changes nothing that is known.
LEMMA PageStep ==
    ASSUME IInv, UNCHANGED <<workers, snapshot, status, news, given, mqttVars>>
    PROVE  /\ WatchTypeOK' /\ ManagedIsThere' /\ NewsIsTrue' /\ NewestIsTrue' /\ RetainedIsStatus'
           /\ Facts' = Facts
           /\ \A p, b : Known(p, b)' <=> Known(p, b)
           /\ \A p, b : Known(p, b) => b \in Shown
<1>1. /\ UNCHANGED <<workers, snapshot, status, news, given, mqtt, telling, newest>>
      /\ misled' = misled
  BY DEF mqttVars
<1> QED
  BY <1>1, CutStep

\* Nothing is known to be told to a page that has just been accepted or was cut off.
LEMMA AcceptCutKeep ==
    ASSUME IInv, NEW p \in Pages, Accept(p) \/ Cut(p)
    PROVE  IInv'
<1>1. /\ UNCHANGED <<workers, snapshot, status, news, given, mqtt, telling, newest>>
      /\ UNCHANGED <<badges, fetched, overtaken>>
      /\ misled' \subseteq misled /\ \A r : r # p /\ r \in misled => r \in misled'
  BY DEF Accept, Cut, loopVars, mqttVars
<1>2. Nothing \in Boards /\ DOMAIN Nothing = {} /\ Nothing # None
  BY BoardsAre DEF Nothing
<1>3. PICK place \in {"accepted", "closed"}, q \in {Nothing, None} :
        /\ conn' = [conn EXCEPT ![p] = place]
        /\ queues' = [queues EXCEPT ![p] = q]
        /\ q = None <=> place = "closed"
  BY <1>2 DEF Accept, Cut
<1>4. TypesOK'
  BY <1>1, <1>2, <1>3, CutStep DEF IInv, TypesOK, TypeOK, QueueOK, FetchOK
<1>5. QueuedIsTrue'
  BY <1>1, <1>2, <1>3, CutStep DEF IInv, TypesOK, TypeOK, QueueOK, QueuedIsTrue
<1>6. ShownIsTrue' /\ FetchedIsTrue'
  <2>1. ASSUME NEW r \in Pages, conn'[r] = "greeted"
        PROVE  r # p /\ conn[r] = "greeted" /\ queues'[r] = queues[r]
    BY <1>3, <2>1 DEF IInv, TypesOK, TypeOK, QueueOK
  <2>2. ASSUME NEW r \in Pages, r # p
        PROVE  \A b : Known(r, b)' <=> Known(r, b)
    BY <1>1, <2>2, CutStep
  <2>3. Facts' = Facts
    BY <1>1, CutStep
  <2> QED
    BY <1>1, <2>1, <2>2, <2>3 DEF IInv, ShownIsTrue, FetchedIsTrue
<1> QED
  BY <1>1, <1>4, <1>5, <1>6, CutStep DEF IInv

\* The hello carries what nothing newer is queued for.
LEMMA HelloKeeps ==
    ASSUME IInv, NEW p \in Pages, Hello(p)
    PROVE  IInv'
<1>1. UNCHANGED <<workers, snapshot, status, news, given, mqttVars, badges, fetched, overtaken>>
  BY DEF Hello, loopVars
<1>2. queues[p] \in Boards /\ Facts \in Boards
  BY FactsAre, BoardsAre DEF Hello, IInv, TypesOK, TypeOK, QueueOK
<1> DEFINE q == Over(queues[p], Facts)
<1>3. /\ q \in Boards
      /\ DOMAIN q = DOMAIN queues[p] \cup DOMAIN Facts
      /\ \A b \in DOMAIN queues[p] : q[b] = queues[p][b]
      /\ \A b \in DOMAIN Facts \ DOMAIN queues[p] : q[b] = Facts[b]
  BY <1>2, OverBoards
<1>4. conn' = [conn EXCEPT ![p] = "greeted"] /\ queues' = [queues EXCEPT ![p] = q] /\ q # None
  BY <1>3, BoardsAre DEF Hello
<1> HIDE DEF q
<1>5. TypesOK'
  BY <1>1, <1>3, <1>4, PageStep DEF IInv, TypesOK, TypeOK, QueueOK, FetchOK, Hello
<1>6. QueuedIsTrue'
  <2>1. \A b \in DOMAIN q : Known(p, b) => q[b] = Facts[b]
    BY <1>3 DEF IInv, QueuedIsTrue, Hello, Known
  <2> QED
    BY <1>1, <1>4, <2>1, PageStep DEF IInv, TypesOK, TypeOK, QueueOK, QueuedIsTrue
<1>7. \A r, b : Known(r, b) => b \in DOMAIN q \cup DOMAIN Facts
  BY DEF Known
<1>8. ShownIsTrue' /\ FetchedIsTrue'
  BY <1>1, <1>3, <1>4, <1>7, PageStep DEF IInv, TypesOK, TypeOK, QueueOK, ShownIsTrue, FetchedIsTrue
<1> QED
  BY <1>1, <1>5, <1>6, <1>7, <1>8, PageStep DEF IInv

\* A badge that is set from the queue is as true as the queue was.
LEMMA ShowKeeps ==
    ASSUME IInv, NEW p \in Pages, NEW c \in Shown, Show(p, c)
    PROVE  IInv'
<1>1. UNCHANGED <<workers, snapshot, status, news, given, mqttVars, conn, fetched>>
  BY DEF Show, loopVars
<1>2. queues[p] \in Boards
  BY DEF Show, IInv, TypesOK, TypeOK, QueueOK
<1> DEFINE q == [b \in DOMAIN queues[p] \ {c} |-> queues[p][b]]
<1>3. q \in Boards /\ q # None /\ queues[p][c] \in Statuses
  BY <1>2, BoardsAre DEF Show
<1>4. /\ DOMAIN q = DOMAIN queues[p] \ {c}
      /\ \A b \in DOMAIN q : q[b] = queues[p][b]
  OBVIOUS
<1>5. queues' = [queues EXCEPT ![p] = q]
  BY DEF Show
<1> HIDE DEF q
<1>6. badges' = [badges EXCEPT ![p][c] = queues[p][c]]
  BY DEF Show
<1>7. TypesOK'
  BY <1>1, <1>3, <1>5, <1>6, PageStep DEF IInv, TypesOK, TypeOK, QueueOK, FetchOK, Show
<1>8. QueuedIsTrue'
  BY <1>1, <1>4, <1>5, PageStep DEF IInv, TypesOK, TypeOK, QueueOK, QueuedIsTrue
<1>9. ASSUME NEW r \in Pages, NEW b \in Shown, r # p \/ b # c
      PROVE  badges'[r][b] = badges[r][b] /\ (b \in overtaken'[r] <=> b \in overtaken[r])
  BY <1>6, <1>9 DEF IInv, TypesOK, TypeOK, Show
<1>10. Known(p, c) => badges'[p][c] = Facts[c]
  BY <1>6 DEF IInv, TypesOK, TypeOK, QueuedIsTrue, Show
<1>11. ShownIsTrue'
  BY <1>1, <1>4, <1>5, <1>9, <1>10, PageStep DEF IInv, TypesOK, TypeOK, QueueOK, ShownIsTrue
<1>12. fetched[p] # None => c \in overtaken'[p]
  BY DEF IInv, TypesOK, TypeOK, Show
<1>13. FetchedIsTrue'
  <2> SUFFICES ASSUME NEW r \in Pages, conn[r] = "greeted", fetched[r] # None,
                      NEW b \in DOMAIN fetched[r], b \notin DOMAIN queues'[r],
                      b \notin overtaken'[r], Known(r, b)
               PROVE  fetched[r][b] = Facts[b]
    BY <1>1, PageStep DEF FetchedIsTrue
  <2>1. b \in Shown /\ (r # p \/ b # c)
    BY <1>12, PageStep, <1>1
  <2>2. b \notin DOMAIN queues[r] /\ b \notin overtaken[r]
    BY <1>4, <1>5, <1>9, <2>1 DEF IInv, TypesOK, QueueOK
  <2> QED
    BY <2>2 DEF IInv, FetchedIsTrue
<1> QED
  BY <1>1, <1>7, <1>8, <1>11, <1>13, PageStep DEF IInv

\* The answer is true when it is given; what makes it untrue overtakes it.
LEMMA FetchKeeps ==
    ASSUME IInv, NEW p \in Pages, Fetch(p)
    PROVE  IInv'
<1>1. UNCHANGED <<watchVars, conn, badges, overtaken>>
  BY DEF Fetch
<1>2. PICK names \in SUBSET Names : fetched' = [fetched EXCEPT ![p] =
        [n \in names |-> IF status[n] = None THEN "connecting" ELSE status[n]]]
  BY DEF Fetch
<1> DEFINE a == [n \in names |-> IF status[n] = None THEN "connecting" ELSE status[n]]
<1>3. a \in [names -> Statuses]
  BY DEF IInv, TypesOK, TypeOK, WatchTypeOK, Statuses
<1>4. a \in Boards
  BY <1>3, BoardsAre DEF Shown
<1>5. \A n \in DOMAIN a : Known(p, n) => a[n] = Facts[n]
  BY FactsAre, WatchAssumption DEF IInv, TypesOK, TypeOK, Known
<1>6. fetched' = [fetched EXCEPT ![p] = a]
  BY <1>2
<1> HIDE DEF a
<1>7. TypesOK'
  BY <1>1, <1>4, <1>6, PageStep DEF watchVars, loopVars, IInv, TypesOK, TypeOK, QueueOK, FetchOK
<1>8. QueuedIsTrue' /\ ShownIsTrue'
  BY <1>1, PageStep DEF watchVars, loopVars, IInv, QueuedIsTrue, ShownIsTrue
<1>9. FetchedIsTrue'
  BY <1>1, <1>5, <1>6, PageStep DEF watchVars, loopVars, IInv, TypesOK, FetchOK, FetchedIsTrue
<1> QED
  BY <1>1, <1>7, <1>8, <1>9, PageStep DEF watchVars, loopVars, IInv

\* The page sets what the answer says.
LEMMA ShowFetchedKeeps ==
    ASSUME IInv, NEW p \in Pages, ShowFetched(p)
    PROVE  IInv'
<1>1. UNCHANGED <<watchVars, conn, overtaken>>
  BY DEF ShowFetched
<1>2. fetched[p] \in Boards /\ fetched' = [fetched EXCEPT ![p] = None]
  BY DEF ShowFetched, IInv, TypesOK, FetchOK
<1> DEFINE shown == Over(fetched[p], badges[p])
<1>3. /\ shown \in [Shown -> Statuses \cup {None}]
      /\ \A b \in Shown : shown[b] = IF b \in DOMAIN fetched[p] THEN fetched[p][b] ELSE badges[p][b]
  BY <1>2, BoardsAre DEF Over, IInv, TypesOK, TypeOK
<1>4. badges' = [badges EXCEPT ![p] = shown]
  BY DEF ShowFetched
<1> HIDE DEF shown
<1>5. TypesOK'
  BY <1>1, <1>2, <1>3, <1>4, PageStep DEF watchVars, loopVars, IInv, TypesOK, TypeOK, QueueOK, FetchOK
<1>6. QueuedIsTrue' /\ FetchedIsTrue'
  BY <1>1, <1>2, PageStep DEF watchVars, loopVars, IInv, TypesOK, FetchOK, QueuedIsTrue, FetchedIsTrue
<1>7. ShownIsTrue'
  BY <1>1, <1>2, <1>3, <1>4, PageStep, BoardsAre
     DEF watchVars, loopVars, IInv, TypesOK, TypeOK, ShownIsTrue, FetchedIsTrue
<1> QED
  BY <1>1, <1>5, <1>6, <1>7, PageStep DEF watchVars, loopVars, IInv

-----------------------------------------------------------------------------
\* Every step of the loop, of a worker, of a page and of the connection keeps the
\* invariant.
LEMMA NextIInv == IInv /\ [Next]_vars => IInv'
<1> SUFFICES ASSUME IInv, [Next]_vars PROVE IInv'
  OBVIOUS
<1>1. CASE WatchNext /\ UNCHANGED pageVars
  <2>1. CASE \E n \in Names : Observe(n)
    BY <1>1, <2>1, ObserveKeeps
  <2>2. CASE Broadcast
    BY <1>1, <2>2, BroadcastKeeps
  <2>3. CASE Look \/ Publish \/ PublishNothing \/ Reconfigure
    BY <1>1, <2>3, BrokerKeeps
  <2>4. CASE \E n \in Names : Start(n) \/ Hear(n) \/ FallSilent(n)
    BY <1>1, <2>4, WorkersKeep
  <2>5. CASE \E n \in Names : Stop(n)
    BY <1>1, <2>5, StopKeeps
  <2>6. CASE \E t \in Threads : SetConnected(t)
    BY <1>1, <2>6, SetConnectedKeeps
  <2>7. CASE \E t \in Threads : TellConnected(t)
    BY <1>1, <2>7, TellConnectedKeeps
  <2> QED
    BY <1>1, <2>1, <2>2, <2>3, <2>4, <2>5, <2>6, <2>7 DEF WatchNext, Loop
<1>2. CASE \E p \in Pages : Accept(p) \/ Cut(p)
  BY <1>2, AcceptCutKeep
<1>3. CASE \E p \in Pages : Hello(p)
  BY <1>3, HelloKeeps
<1>4. CASE \E p \in Pages : Fetch(p)
  BY <1>4, FetchKeeps
<1>5. CASE \E p \in Pages : ShowFetched(p)
  BY <1>5, ShowFetchedKeeps
<1>6. CASE \E p \in Pages, b \in Shown : Show(p, b)
  BY <1>6, ShowKeeps
<1>7. CASE UNCHANGED vars
  <2>1. UNCHANGED <<workers, snapshot, status, news, given, mqttVars, queues, pageVars>>
    BY <1>7 DEF vars, watchVars, loopVars
  <2>2. \A b : Pending(b)' <=> Pending(b)
    BY <2>1 DEF Pending, mqttVars
  <2> QED
    BY <2>1, <2>2, PageStep, SameBoards
<1> QED
  BY <1>1, <1>2, <1>3, <1>4, <1>5, <1>6, <1>7 DEF Next

\* The invariant holds of every behaviour.
LEMMA SpecIInv == Spec => []IInv
BY InitIInv, NextIInv, PTL DEF Spec

\* Types, and a queue exactly for every page that is connected, for any number of
\* sources and pages.
THEOREM TypeCorrect == Spec => []TypeOK
<1>1. IInv => TypeOK
  BY DEF IInv, TypesOK
<1> QED
  BY SpecIInv, <1>1, PTL

\* A subscriber connecting later sees the current state (publish_status), for any
\* number of sources.
THEOREM RetainedFollowsStatus == Spec => []RetainedIsStatus
<1>1. IInv => RetainedIsStatus
  BY DEF IInv
<1> QED
  BY SpecIInv, <1>1, PTL

\* A page that has shown everything shows what the server knows (_serve_ws_client,
\* index.html), for any number of sources, pages and threads that tell of the broker,
\* but for what came out of order.
THEOREM PageFollowsStatus == Spec => []PageShowsStatus
<1>1. IInv => PageShowsStatus
  <2> SUFFICES ASSUME IInv, NEW p \in Pages, conn[p] = "greeted", queues[p] = Nothing,
                      NEW b \in DOMAIN Facts \ Misplaced(p), ~Pending(b)
               PROVE  badges[p][b] = Facts[b]
    BY DEF PageShowsStatus
  <2>1. DOMAIN queues[p] = {}
    BY DEF Nothing
  <2>2. b \in Shown
    BY FactsAre DEF IInv, TypesOK, TypeOK
  <2>3. b \notin overtaken[p] /\ Known(p, b)
    BY DEF Misplaced, Known
  <2> QED
    BY <2>1, <2>2, <2>3 DEF IInv, ShownIsTrue
<1> QED
  BY SpecIInv, <1>1, PTL

=============================================================================
