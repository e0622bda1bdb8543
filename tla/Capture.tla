------------------------------- MODULE Capture -------------------------------
(***************************************************************************)
(* One source's worker from a PCM chunk to the saved snippet and the MQTT  *)
(* calls it makes: SourceWorker._process_chunk (worker.py), the threshold  *)
(* lookups of SourceConfig (config.py), the class filter of AudioTfl       *)
(* (detector.py) and SnippetRecorder (snippet.py).                         *)
(*                                                                         *)
(* A chunk of audio is its ordinal in the source's stream.  A score is an  *)
(* integer in 0..MaxScore, 0 standing for a class the model did not see.   *)
(* A capture's uuid is the ordinal of the chunk that opened it: one chunk  *)
(* opens at most one capture, so ordinals are as unique as the uuids.      *)
(***************************************************************************)
EXTENDS Integers, Sequences, FiniteSets

CONSTANTS
    Labels,               \* the classes the classifier knows
    TopK,                 \* how many classes the classifier reports (20)
    MaxScore,             \* a score of 1.0
    Margin,               \* how far below detection a near miss lies (0.2)
    Listen,               \* SourceConfig.listen
    DetectionThresholds,  \* SourceConfig.detection_thresholds, a partial map
    NotifyThresholds,     \* SourceConfig.notify_thresholds, a partial map
    DefaultThreshold,     \* DEFAULT_THRESHOLD
    PreMax,               \* SnippetRecorder.pre_chunks_max
    PostNeeded,           \* SnippetRecorder.post_chunks_needed
    MaxChunks,            \* bound: chunks in a behaviour
    MayCrash,             \* whether the process may be killed
    None                  \* Python's None

VARIABLES
    pc,         \* where the worker thread is
    received,   \* ordinal of the last chunk read_chunk returned
    since,      \* ordinal after which the current recorder started to listen
    preBuffer,  \* SnippetRecorder.pre_buffer
    active,     \* SnippetRecorder.active
    event,      \* the DetectionEvent _process_chunk is handling
    wavs,       \* the snippets written to disk, in order
    rows,       \* ids of the events EventStore.add has stored
    calls       \* the publish_trigger and publish_event calls, in order

vars == <<pc, received, since, preBuffer, active, event, wavs, rows, calls>>

-----------------------------------------------------------------------------
(* config.py: the thresholds of a label                                     *)

NotifyThresholdFor(l) ==
    IF l \in DOMAIN NotifyThresholds THEN NotifyThresholds[l] ELSE DefaultThreshold

DetectionThresholdFor(l) ==
    IF l \in DOMAIN DetectionThresholds THEN DetectionThresholds[l]
                                        ELSE NotifyThresholdFor(l)

\* what build_source_config refuses to load
ThresholdsAreOrdered ==
    \A l \in Listen : /\ 0 < DetectionThresholdFor(l)
                      /\ DetectionThresholdFor(l) <= NotifyThresholdFor(l)
                      /\ NotifyThresholdFor(l) <= MaxScore

Larger(a, b) == IF a >= b THEN a ELSE b
Smaller(a, b) == IF a <= b THEN a ELSE b

ASSUME NumbersAssumption ==
    /\ MaxScore \in Nat \ {0}
    /\ Margin \in Nat
    /\ DefaultThreshold \in 1..MaxScore
    /\ PreMax \in Nat \ {0}
    /\ PostNeeded \in Nat \ {0}
    /\ MaxChunks \in Nat
    /\ MayCrash \in BOOLEAN
    /\ TopK \in Nat \ {0}

ASSUME ThresholdsAssumption ==
    /\ DOMAIN NotifyThresholds \subseteq Labels
    /\ \A l \in DOMAIN NotifyThresholds : NotifyThresholds[l] \in Int
    /\ DOMAIN DetectionThresholds \subseteq Labels
    /\ \A l \in DOMAIN DetectionThresholds : DetectionThresholds[l] \in Int
    /\ ThresholdsAreOrdered

-----------------------------------------------------------------------------
(* detector.py and the filters of _process_chunk: what a chunk's scores say *)

Results == [Labels -> 0..MaxScore]

\* the argpartition of _detect_raw: ties at the cut fall either way
TopClasses(res) ==
    {S \in SUBSET Labels :
        /\ Cardinality(S) = Smaller(TopK, Cardinality(Labels))
        /\ \A l \in S, k \in Labels \ S : res[k] <= res[l]}

Floor(l) == Larger(1, DetectionThresholdFor(l) - Margin)

\* score >= min_threshold, the least Floor of the labels listened to
ReachesMinThreshold(score) ==
    IF Listen = {} THEN score >= MaxScore ELSE \E l \in Listen : score >= Floor(l)

\* the labels detect() returns
Detected(res, S) == {l \in S : res[l] > 0 /\ ReachesMinThreshold(res[l])}

MatchesActive(l, capture) == capture = None \/ capture.label = l

\* the labels that survive the `continue`s of the detection loop
Eligible(res, S, capture) ==
    {l \in Detected(res, S) : /\ l \in Listen
                              /\ MatchesActive(l, capture)
                              /\ res[l] >= DetectionThresholdFor(l)}

\* the loop goes through the labels from the highest score down and breaks at
\* the first that survives; equal scores come in either order
Choices(res, S, capture) ==
    {l \in Eligible(res, S, capture) :
        \A k \in Eligible(res, S, capture) : res[k] <= res[l]}

-----------------------------------------------------------------------------
(* snippet.py: the recorder's operations on its state                       *)

\* mutant: the bound is off by one
PushBoundedLate(q, chunk, maxlen) ==
    IF Len(q) <= maxlen THEN Append(q, chunk) ELSE Append(Tail(q), chunk)

\* deque.append on a deque with maxlen
PushBounded(q, chunk, maxlen) ==
    IF Len(q) < maxlen THEN Append(q, chunk) ELSE Append(Tail(q), chunk)

\* SnippetRecorder.trigger with no capture active, at the chunk with ordinal id
NewCapture(label, score, id) ==
    [id        |-> id,
     label     |-> label,
     score     |-> score,
     pre       |-> preBuffer,
     post      |-> <<>>,
     remaining |-> PostNeeded,
     notified  |-> FALSE]

\* mutants: the last score replaces the peak; the capture is not prolonged; the
\* post-roll collected so far is thrown away
RenewedWithLastScore(capture, score) ==
    [capture EXCEPT !.remaining = PostNeeded, !.score = score]
RenewedWithoutTime(capture, score) ==
    [capture EXCEPT !.score = Larger(capture.score, score)]
RenewedAfresh(capture, score) ==
    [capture EXCEPT !.remaining = PostNeeded,
                    !.score     = Larger(capture.score, score),
                    !.post      = <<>>]

\* SnippetRecorder.trigger with a capture active
Renewed(capture, score) ==
    [capture EXCEPT !.remaining = PostNeeded,
                    !.score     = Larger(capture.score, score)]

Trigger(capture, label, score, id) ==
    IF capture = None THEN NewCapture(label, score, id) ELSE Renewed(capture, score)

\* mutant: a capture announces itself at each loud chunk
NotifiesAgain(capture, label) == capture.label = label

\* SnippetRecorder.notify returns a trigger to publish
Notifies(capture, label) == ~capture.notified /\ capture.label = label

\* the part of add_chunk that feeds the capture
Extended(capture, chunk) ==
    [capture EXCEPT !.post      = Append(capture.post, chunk),
                    !.remaining = capture.remaining - 1]

\* the next chunk is the capture's last
Due(capture) == capture # None /\ capture.remaining <= 1

\* _finalize: the snippet on disk, which is also what the event says
SnippetOf(capture) ==
    [id       |-> capture.id,
     label    |-> capture.label,
     score    |-> capture.score,
     chunks   |-> capture.pre \o capture.post,
     notified |-> capture.notified]

Call(kind, id, label, score) ==
    [kind |-> kind, id |-> id, label |-> label, score |-> score]

-----------------------------------------------------------------------------
Init ==
    /\ pc = "read"
    /\ received = 0
    /\ since = 0
    /\ preBuffer = <<>>
    /\ active = None
    /\ event = None
    /\ wavs = <<>>
    /\ rows = {}
    /\ calls = <<>>

NextChunk ==
    /\ pc = "read"
    /\ received < MaxChunks
    /\ received' = received + 1
    /\ pc' = "collect"
    /\ UNCHANGED <<since, preBuffer, event, wavs, rows>>

\* a chunk below min_volume, or one in which no label survives the filters
ChunkWithoutHit(loud, res) ==
    /\ NextChunk
    /\ \/ ~loud
       \/ \E S \in TopClasses(res) : Eligible(res, S, active) = {}
    /\ UNCHANGED <<active, calls>>

\* trigger() and, at the notify threshold, notify() and publish_trigger; whether
\* that call raises is the same to the worker, which logs the exception
Hit(l, score) ==
    LET capture == Trigger(active, l, score, received + 1)
    IN  IF score >= NotifyThresholdFor(l) /\ Notifies(capture, l)
        THEN /\ active' = [capture EXCEPT !.notified = TRUE]
             /\ calls' = Append(calls, Call("trigger", capture.id, l, score))
        ELSE /\ active' = capture
             /\ UNCHANGED calls

\* a chunk that opens a capture or extends the one that is open
ChunkWithHit(res) ==
    /\ NextChunk
    /\ \E S \in TopClasses(res) : \E l \in Choices(res, S, active) : Hit(l, res[l])

\* add_chunk, when no capture is due to be finalized
Collect ==
    /\ pc = "collect"
    /\ ~Due(active)
    /\ preBuffer' = PushBounded(preBuffer, received, PreMax)
    /\ active' = IF active = None THEN None ELSE Extended(active, received)
    /\ pc' = "read"
    /\ UNCHANGED <<received, since, event, wavs, rows, calls>>

\* mutant: the deque is emptied with the capture, so that the next one lacks pre-roll
FinalizeClears ==
    /\ pc = "collect"
    /\ Due(active)
    /\ preBuffer' = <<>>
    /\ event' = SnippetOf(Extended(active, received))
    /\ wavs' = Append(wavs, SnippetOf(Extended(active, received)))
    /\ active' = None
    /\ pc' = "store"
    /\ UNCHANGED <<received, since, rows, calls>>

\* add_chunk, when _finalize writes the snippet
Finalize ==
    /\ pc = "collect"
    /\ Due(active)
    /\ preBuffer' = PushBounded(preBuffer, received, PreMax)
    /\ event' = SnippetOf(Extended(active, received))
    /\ wavs' = Append(wavs, SnippetOf(Extended(active, received)))
    /\ active' = None
    /\ pc' = "store"
    /\ UNCHANGED <<received, since, rows, calls>>

\* mutant: the failure is swallowed and the event goes on
FinalizeFailsQuietly ==
    /\ pc = "collect"
    /\ Due(active)
    /\ preBuffer' = PushBounded(preBuffer, received, PreMax)
    /\ event' = SnippetOf(Extended(active, received))
    /\ active' = None
    /\ pc' = "store"
    /\ UNCHANGED <<received, since, wavs, rows, calls>>

\* _finalize raises (makedirs, wave.open or writeframes): nothing catches it,
\* so the worker thread dies with the capture still active
FinalizeFails ==
    /\ pc = "collect"
    /\ Due(active)
    /\ preBuffer' = PushBounded(preBuffer, received, PreMax)
    /\ active' = Extended(active, received)
    /\ pc' = "ended"
    /\ UNCHANGED <<received, since, event, wavs, rows, calls>>

AfterStore == IF event.notified THEN "announce" ELSE "read"

StoreRow ==
    /\ pc = "store"
    /\ rows' = rows \cup {event.id}
    /\ pc' = AfterStore
    /\ UNCHANGED <<received, since, preBuffer, active, event, wavs, calls>>

\* EventStore.add raises: logged, and the event is announced all the same
StoreRowFails ==
    /\ pc = "store"
    /\ pc' = AfterStore
    /\ UNCHANGED <<received, since, preBuffer, active, event, wavs, rows, calls>>

Announce ==
    /\ pc = "announce"
    /\ calls' = Append(calls, Call("event", event.id, event.label, event.score))
    /\ pc' = "read"
    /\ UNCHANGED <<received, since, preBuffer, active, event, wavs, rows>>

\* the loop sees stop_event: a source was edited or deleted, or the app stops
SeeStop ==
    /\ pc = "read"
    /\ pc' = "ended"
    /\ UNCHANGED <<received, since, preBuffer, active, event, wavs, rows, calls>>

\* the process is killed wherever the worker is
Crash ==
    /\ MayCrash
    /\ pc \in {"collect", "store", "announce"}
    /\ pc' = "ended"
    /\ UNCHANGED <<received, since, preBuffer, active, event, wavs, rows, calls>>

\* a new SourceWorker for the source, with a recorder of its own
StartWorker ==
    /\ pc = "ended"
    /\ pc' = "read"
    /\ since' = received
    /\ preBuffer' = <<>>
    /\ active' = None
    /\ event' = None
    /\ UNCHANGED <<received, wavs, rows, calls>>

Next ==
    \/ \E res \in Results :
          \/ \E loud \in BOOLEAN : ChunkWithoutHit(loud, res)
          \/ ChunkWithHit(res)
    \/ Collect
    \/ Finalize
    \/ FinalizeFails
    \/ StoreRow
    \/ StoreRowFails
    \/ Announce
    \/ SeeStop
    \/ Crash
    \/ StartWorker

Spec == Init /\ [][Next]_vars

-----------------------------------------------------------------------------
(* What the recorder keeps and what it promises.                            *)

\* the consecutive chunks a, a + 1, ..., b
Run(a, b) == [i \in 1..(b - a + 1) |-> a + i - 1]

\* the last chunk add_chunk has seen
Collected == IF pc = "collect" THEN received - 1 ELSE received

Captures == [id : Nat, label : Labels, score : Nat, pre : Seq(Nat),
             post : Seq(Nat), remaining : Int, notified : BOOLEAN]
Snippets == [id : Nat, label : Labels, score : Nat, chunks : Seq(Nat),
             notified : BOOLEAN]
Calls == [kind : {"trigger", "event"}, id : Nat, label : Labels, score : Nat]

\* the windows of SnippetPromise, see below
Windows == [label : Labels, first : Int, opened : Nat, until : Int, peak : Nat]

ASSUME NoneAssumption == None \notin Captures /\ None \notin Snippets /\ None \notin Windows

\* Every variable has its type; the pre-roll deque never outgrows its maxlen
\* and a capture never waits for more than post_capture of silence
\* (SnippetRecorder.__init__).
TypeOK ==
    /\ pc \in {"read", "collect", "store", "announce", "ended"}
    /\ received \in Nat
    /\ since \in Nat
    /\ preBuffer \in Seq(Nat)
    /\ Len(preBuffer) <= PreMax
    /\ active \in Captures \cup {None}
    /\ active # None => active.remaining <= PostNeeded
    /\ event \in Snippets \cup {None}
    /\ pc \in {"store", "announce"} => event # None
    /\ wavs \in Seq(Snippets)
    /\ rows \subseteq Nat
    /\ calls \in Seq(Calls)

\* A snippet is uninterrupted audio: no chunk handed to the recorder is
\* missing, doubled or out of order in the WAV, and the pre-roll taken from the
\* deque and the post-roll meet without a seam at the chunk that triggered.  The
\* pre-roll is as long as what was heard allows: PreMax chunks, or all that the
\* recorder had heard by then, also right after another snippet (snippet.py,
\* trigger, add_chunk and _finalize).  How much a recorder has heard is known while
\* it is in use, so each snippet is held to the full length from its saving until
\* the next worker starts.
SnippetsAreContiguous ==
    \A n \in 1..Len(wavs) :
        LET s == wavs[n]
        IN  /\ s.chunks = Run(s.chunks[1], s.chunks[Len(s.chunks)])
            /\ s.chunks[1] <= s.id
            /\ s.id - s.chunks[1] <= PreMax
            /\ s.id > since => s.chunks[1] = Larger(since, s.id - 1 - PreMax) + 1
            /\ s.chunks[Len(s.chunks)] >= s.id + PostNeeded - 1

\* The peak decides whether Home Assistant hears of a capture: it is marked
\* notified exactly if its highest score, over all the chunks that extended it,
\* reached the label's notify threshold, however low the score that opened it
\* was (worker.py's calls of trigger and notify, event.notified).
PeakDecidesNotify ==
    /\ active # None =>
         (active.notified <=> active.score >= NotifyThresholdFor(active.label))
    /\ \A n \in 1..Len(wavs) :
         wavs[n].notified <=> wavs[n].score >= NotifyThresholdFor(wavs[n].label)

\* `event` always follows one `triggered` with the same id and label and a score
\* no higher than its own, and no capture is announced twice with either
\* message, through crashes and restarts of the worker (README, "MQTT topics").
TriggerThenEvent ==
    \A j \in 1..Len(calls) :
        /\ \A i \in 1..(j - 1) :
              calls[i].id = calls[j].id =>
                 /\ calls[i].kind = "trigger" /\ calls[j].kind = "event"
                 /\ calls[i].label = calls[j].label
                 /\ calls[i].score <= calls[j].score
        /\ calls[j].kind = "event" =>
              \E i \in 1..(j - 1) : calls[i].id = calls[j].id

\* Nobody is told of a snippet that is not on disk: a row of the event log and a
\* published event each belong to one complete WAV with the same id, and the
\* event carries that snippet's label and peak, also when store.add failed.
SavedBeforeTold ==
    /\ \A id \in rows : \E n \in 1..Len(wavs) : wavs[n].id = id
    /\ \A j \in 1..Len(calls) :
         calls[j].kind = "event" =>
            \E n \in 1..Len(wavs) :
               /\ wavs[n].id = calls[j].id
               /\ wavs[n].label = calls[j].label
               /\ wavs[n].score = calls[j].score
               /\ wavs[n].notified

KeepsIdentity ==
    active # None /\ active' # None =>
        /\ active'.id = active.id
        /\ active'.label = active.label
        /\ active'.pre = active.pre
        /\ active'.score >= active.score
        /\ active.notified => active'.notified
        /\ active'.post \in {active.post, Append(active.post, received)}

\* A capture keeps the identity it announced: until it is saved or lost, no
\* detection changes its id, label or pre-roll, takes back its notification or
\* lowers its peak, and the chunks collected stay collected.
CaptureKeepsIdentity == [][KeepsIdentity]_vars

\* README, "A capture that reaches the notify threshold produces two messages":
\* once the worker is gone, every `triggered` has had its `event`.
TwoMessages ==
    pc = "ended" =>
        \A i \in 1..Len(calls) :
            calls[i].kind = "trigger" =>
                \E j \in 1..Len(calls) : calls[j].kind = "event" /\ calls[j].id = calls[i].id

-----------------------------------------------------------------------------
(* The recorder implements SnippetPromise: a deadline instead of a countdown *)
(* and an interval of audio instead of a deque and two lists.               *)

FirstChunk(capture) ==
    IF capture.pre = <<>> THEN capture.id ELSE capture.pre[1]

Promise == INSTANCE SnippetPromise WITH
    heard  <- Collected,
    window <- IF active = None \/ pc = "ended" THEN None
              ELSE [label  |-> active.label,
                    first  |-> FirstChunk(active),
                    opened |-> active.id,
                    until  |-> Collected + active.remaining,
                    peak   |-> active.score],
    saved  <- [n \in 1..Len(wavs) |->
                  [label    |-> wavs[n].label,
                   first    |-> wavs[n].chunks[1],
                   opened   |-> wavs[n].id,
                   last     |-> wavs[n].chunks[Len(wavs[n].chunks)],
                   peak     |-> wavs[n].score,
                   notified |-> wavs[n].notified]]

\* The recorder and the loop that feeds it do what SnippetPromise says.
KeepsPromise == Promise!Spec

=============================================================================
