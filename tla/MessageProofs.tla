---------------------------- MODULE MessageProofs ----------------------------
(***************************************************************************)
(* What Home Assistant is told of a capture, for every set of labels, all  *)
(* thresholds and buffer lengths, with crashes, restarts and failing       *)
(* stores: one `triggered`, then one `event` that agrees with it, and no   *)
(* word of a snippet that is not on disk.                                  *)
(*                                                                         *)
(* The messages already sent bind the capture still to come.  A capture is *)
(* in step with them when it is notified exactly if one message bears its  *)
(* id, and that message is a `triggered` for its label with a score its    *)
(* own has not fallen below (InStep); no message bears the id of a chunk   *)
(* not read yet (IdsAreOld), so a new capture starts in step.              *)
(***************************************************************************)
EXTENDS CaptureProofs

-----------------------------------------------------------------------------
(* The invariant                                                            *)

\* No message bears the ordinal of a chunk still to come.
IdsAreOld == \A j \in 1..Len(calls) : calls[j].id <= received

\* The messages in `said` about a capture or snippet c are those the code has
\* sent before it announces c.
InStep(c, said) ==
    /\ \A j \in 1..Len(said) :
          said[j].id = c.id =>
             /\ said[j].kind = "trigger"
             /\ said[j].label = c.label
             /\ said[j].score <= c.score
             /\ c.notified
    /\ c.notified => \E j \in 1..Len(said) : said[j].id = c.id

\* The open capture is in step with the messages, the worker alive or not.
ActiveInStep == active # None => active.id <= received /\ InStep(active, calls)

\* An event under way is saved, in step, and the only capture there is.
EventInStep ==
    pc \in {"store", "announce"} =>
        /\ active = None
        /\ \E n \in 1..Len(wavs) : wavs[n] = event
        /\ event.id <= received
        /\ InStep(event, calls)
        /\ pc = "announce" => event.notified

MInv == /\ IInv
        /\ IdsAreOld
        /\ ActiveInStep
        /\ EventInStep
        /\ TriggerThenEvent
        /\ SavedBeforeTold

-----------------------------------------------------------------------------
(* One message more                                                         *)

\* A message appended is the last; the others keep their places.
LEMMA OneMore ==
    ASSUME NEW said \in Seq(Calls), NEW c \in Calls
    PROVE  /\ Append(said, c) \in Seq(Calls)
           /\ Len(Append(said, c)) = Len(said) + 1
           /\ Append(said, c)[Len(said) + 1] = c
           /\ \A j \in 1..Len(said) : Append(said, c)[j] = said[j]
           /\ \A j \in 1..(Len(said) + 1) : j \in 1..Len(said) \/ j = Len(said) + 1
OBVIOUS

\* A message's id and score are numbers.
LEMMA FieldsOfAMessage ==
    ASSUME NEW said \in Seq(Calls), NEW j \in 1..Len(said)
    PROVE  said[j].id \in Nat /\ said[j].score \in Nat
<1>1. said[j] \in Calls
  OBVIOUS
<1> QED
  BY <1>1 DEF Calls

\* A capture no message speaks of is in step once its `triggered` is sent.
LEMMA FirstMessage ==
    ASSUME NEW said \in Seq(Calls), NEW c \in Calls, c.kind = "trigger",
           NEW capture, capture.notified, capture.id = c.id,
           capture.label = c.label, c.score <= capture.score,
           \A j \in 1..Len(said) : said[j].id # c.id
    PROVE  InStep(capture, Append(said, c))
<1> DEFINE more == Append(said, c)
<1>1. /\ Len(more) = Len(said) + 1
      /\ more[Len(said) + 1] = c
      /\ \A j \in 1..Len(said) : more[j] = said[j]
      /\ \A j \in 1..Len(more) : j \in 1..Len(said) \/ j = Len(said) + 1
      /\ Len(said) + 1 \in 1..Len(more)
  BY OneMore
<1> HIDE DEF more
<1>2. ASSUME NEW j \in 1..Len(more), more[j].id = capture.id
      PROVE  more[j] = c
  BY <1>1, <1>2
<1>3. \E j \in 1..Len(more) : more[j].id = capture.id
  BY <1>1
<1>4. InStep(capture, more)
  BY <1>2, <1>3 DEF InStep
<1> QED
  BY <1>4 DEF more

\* A message about a capture nobody has heard of keeps the order of messages.
LEMMA TriggerKeepsOrder ==
    ASSUME TriggerThenEvent, calls \in Seq(Calls), NEW c \in Calls,
           c.kind = "trigger", calls' = Append(calls, c),
           \A j \in 1..Len(calls) : calls[j].id # c.id
    PROVE  TriggerThenEvent'
<1>1. /\ Len(calls') = Len(calls) + 1
      /\ calls'[Len(calls) + 1] = c
      /\ \A j \in 1..Len(calls) : calls'[j] = calls[j]
      /\ Len(calls) \in Nat
  BY OneMore
<1> SUFFICES ASSUME NEW j \in 1..Len(calls')
             PROVE  /\ \A i \in 1..(j - 1) :
                         calls'[i].id = calls'[j].id =>
                            /\ calls'[i].kind = "trigger" /\ calls'[j].kind = "event"
                            /\ calls'[i].label = calls'[j].label
                            /\ calls'[i].score <= calls'[j].score
                    /\ calls'[j].kind = "event" =>
                         \E i \in 1..(j - 1) : calls'[i].id = calls'[j].id
  BY DEF TriggerThenEvent
<1>2. \A i \in 1..(j - 1) : i \in 1..Len(calls) /\ calls'[i] = calls[i]
  BY <1>1
<1>3. CASE j \in 1..Len(calls)
  <2>1. calls'[j] = calls[j]
    BY <1>1, <1>3
  <2> QED
    BY <1>2, <1>3, <2>1 DEF TriggerThenEvent
<1>4. CASE j = Len(calls) + 1
  <2>1. calls'[j] = c
    BY <1>1, <1>4
  <2>2. \A i \in 1..(j - 1) : calls'[i].id # calls'[j].id
    BY <1>2, <2>1
  <2> QED
    BY <2>1, <2>2
<1> QED
  BY <1>1, <1>3, <1>4

\* The event of a snippet in step with the messages keeps their order.
LEMMA EventKeepsOrder ==
    ASSUME TriggerThenEvent, calls \in Seq(Calls), NEW c \in Calls,
           c.kind = "event", calls' = Append(calls, c),
           NEW snippet, InStep(snippet, calls), snippet.notified,
           c.id = snippet.id, c.label = snippet.label, c.score = snippet.score
    PROVE  TriggerThenEvent'
<1>1. /\ Len(calls') = Len(calls) + 1
      /\ calls'[Len(calls) + 1] = c
      /\ \A j \in 1..Len(calls) : calls'[j] = calls[j]
      /\ Len(calls) \in Nat
  BY OneMore
<1> SUFFICES ASSUME NEW j \in 1..Len(calls')
             PROVE  /\ \A i \in 1..(j - 1) :
                         calls'[i].id = calls'[j].id =>
                            /\ calls'[i].kind = "trigger" /\ calls'[j].kind = "event"
                            /\ calls'[i].label = calls'[j].label
                            /\ calls'[i].score <= calls'[j].score
                    /\ calls'[j].kind = "event" =>
                         \E i \in 1..(j - 1) : calls'[i].id = calls'[j].id
  BY DEF TriggerThenEvent
<1>2. \A i \in 1..(j - 1) : i \in 1..Len(calls) /\ calls'[i] = calls[i]
  BY <1>1
<1>3. CASE j \in 1..Len(calls)
  <2>1. calls'[j] = calls[j]
    BY <1>1, <1>3
  <2> QED
    BY <1>2, <1>3, <2>1, SMTT(30) DEF TriggerThenEvent
<1>4. CASE j = Len(calls) + 1
  <2>1. calls'[j] = c
    BY <1>1, <1>4
  <2>2. ASSUME NEW i \in 1..(j - 1), calls'[i].id = calls'[j].id
        PROVE  /\ calls'[i].kind = "trigger"
               /\ calls'[i].label = calls'[j].label
               /\ calls'[i].score <= calls'[j].score
    BY <1>2, <2>1, <2>2 DEF InStep
  <2>3. PICK i \in 1..Len(calls) : calls[i].id = snippet.id
    BY DEF InStep
  <2>4. i \in 1..(j - 1) /\ calls'[i].id = calls'[j].id
    BY <1>1, <1>4, <2>1, <2>3
  <2> QED
    BY <2>1, <2>2, <2>4
<1> QED
  BY <1>1, <1>3, <1>4

-----------------------------------------------------------------------------
(* Every step keeps the invariant                                           *)

\* What a hit says: nothing, and the capture keeps what was said of it, or the
\* first message about the capture, and the capture is notified.
LEMMA HitSpeaksOnce ==
    ASSUME TypeOK, IdsAreOld, ActiveInStep,
           NEW l \in Labels, NEW score \in 1..MaxScore, MatchesActive(l, active),
           Hit(l, score)
    PROVE  \/ /\ calls' = calls
              /\ active = None => active'.id = received + 1 /\ ~active'.notified
              /\ active # None => /\ active'.id = active.id
                                 /\ active'.label = active.label
                                 /\ active'.score >= active.score
                                 /\ active'.notified = active.notified
           \/ /\ calls' = Append(calls, Call("trigger", active'.id, l, score))
              /\ Call("trigger", active'.id, l, score) \in Calls
              /\ active'.id <= received + 1
              /\ active'.label = l
              /\ score <= active'.score
              /\ active'.notified
              /\ \A j \in 1..Len(calls) : calls[j].id # active'.id
<1> USE NumbersAssumption, NoneAssumption
<1> DEFINE capture == Trigger(active, l, score, received + 1)
<1>1. score \in Nat /\ received \in Nat /\ calls \in Seq(Calls)
  BY DEF TypeOK
<1>2. /\ capture \in Captures
      /\ capture.label = l
      /\ capture.score >= score
      /\ capture.id <= received + 1
      /\ active = None => capture.id = received + 1 /\ capture.notified = FALSE
      /\ active # None => /\ capture.id = active.id
                         /\ active.label = l
                         /\ capture.score >= active.score
                         /\ capture.notified = active.notified
  <2>1. CASE active = None
    <3>1. capture = NewCapture(l, score, received + 1)
      BY <2>1 DEF Trigger
    <3>2. /\ received + 1 \in Nat /\ preBuffer \in Seq(Nat) /\ <<>> \in Seq(Nat)
          /\ PostNeeded \in Int
      BY DEF TypeOK
    <3> DEFINE new == NewCapture(l, score, received + 1)
    <3>3. new \in [id : Nat, label : Labels, score : Nat, pre : Seq(Nat),
                   post : Seq(Nat), remaining : Int, notified : BOOLEAN]
      BY <1>1, <3>2 DEF NewCapture
    <3>4. new.label = l /\ new.score = score /\ new.id = received + 1 /\ new.notified = FALSE
      BY DEF NewCapture
    <3> HIDE DEF new
    <3>5. capture \in Captures
      BY <3>1, <3>3 DEF Captures, new
    <3> HIDE DEF capture
    <3> QED
      BY <1>1, <2>1, <3>1, <3>4, <3>5 DEF capture, Trigger, new
  <2>2. CASE active # None
    <3>1. capture = Renewed(active, score) /\ active \in Captures /\ active.label = l
      BY <2>2 DEF Trigger, TypeOK, MatchesActive
    <3>2. active.score \in Nat /\ PostNeeded \in Int
      BY <3>1 DEF Captures
    <3>3. /\ Larger(active.score, score) \in Nat
          /\ Larger(active.score, score) >= score
          /\ Larger(active.score, score) >= active.score
      BY <1>1, <3>2 DEF Larger
    <3>4. /\ capture \in Captures
          /\ capture.score = Larger(active.score, score)
          /\ capture.id = active.id
          /\ capture.label = active.label
          /\ capture.notified = active.notified
      BY <3>1, <3>2, <3>3 DEF Renewed, Captures
    <3>5. active.id \in Nat /\ active.id <= received
      BY <2>2, <3>1 DEF ActiveInStep, Captures
    <3> HIDE DEF capture
    <3> QED
      BY <1>1, <2>2, <3>1, <3>3, <3>4, <3>5
  <2> QED
    BY <2>1, <2>2
<1>3. CASE score >= NotifyThresholdFor(l) /\ Notifies(capture, l)
  <2>1. /\ active' = [capture EXCEPT !.notified = TRUE]
        /\ calls' = Append(calls, Call("trigger", capture.id, l, score))
    BY <1>3 DEF Hit
  <2>2. ~capture.notified
    BY <1>3 DEF Notifies
  <2>3. /\ active'.notified
        /\ active'.id = capture.id
        /\ active'.label = capture.label
        /\ active'.score = capture.score
    BY <1>2, <2>1 DEF Captures
  <2>4. Call("trigger", capture.id, l, score) \in Calls
    BY <1>1, <1>2 DEF Call, Calls, Captures
  <2>5. \A j \in 1..Len(calls) : calls[j].id # capture.id
    <3>1. CASE active = None
      <4>1. \A j \in 1..Len(calls) : calls[j].id \in Nat /\ calls[j].id <= received
        BY <1>1, FieldsOfAMessage DEF IdsAreOld
      <4>2. capture.id = received + 1
        BY <1>2, <3>1
      <4> HIDE DEF capture
      <4> QED
        BY <1>1, <4>1, <4>2
    <3>2. CASE active # None
      <4>1. capture.id = active.id /\ ~active.notified
        BY <1>2, <2>2, <3>2
      <4> HIDE DEF capture
      <4> QED
        BY <3>2, <4>1 DEF ActiveInStep, InStep
    <3> QED
      BY <3>1, <3>2
  <2> HIDE DEF capture
  <2> QED
    BY <1>2, <2>1, <2>3, <2>4, <2>5
<1>4. CASE ~(score >= NotifyThresholdFor(l) /\ Notifies(capture, l))
  <2>1. active' = capture /\ calls' = calls
    BY <1>4 DEF Hit
  <2> HIDE DEF capture
  <2> QED
    BY <1>2, <2>1
<1> QED
  BY <1>3, <1>4

\* A capture of the same id and label whose peak has not fallen stays in step.
LEMMA StaysInStep ==
    ASSUME calls \in Seq(Calls), NEW c, NEW d,
           InStep(c, calls), c.score \in Nat, d.score \in Nat,
           d.id = c.id, d.label = c.label, d.score >= c.score, d.notified = c.notified
    PROVE  InStep(d, calls)
<1>1. \A j \in 1..Len(calls) : calls[j].score \in Nat
  BY FieldsOfAMessage
<1> QED
  BY <1>1 DEF InStep

\* A message about a capture says nothing of snippets.
LEMMA TriggerTellsNoSnippet ==
    ASSUME SavedBeforeTold, calls \in Seq(Calls), NEW c \in Calls, c.kind = "trigger",
           calls' = Append(calls, c), UNCHANGED <<rows, wavs>>
    PROVE  SavedBeforeTold'
<1>1. /\ Len(calls') = Len(calls) + 1
      /\ calls'[Len(calls) + 1] = c
      /\ \A j \in 1..Len(calls) : calls'[j] = calls[j]
      /\ \A j \in 1..Len(calls') : j \in 1..Len(calls) \/ j = Len(calls) + 1
  BY OneMore
<1>2. ASSUME NEW j \in 1..Len(calls'), calls'[j].kind = "event"
      PROVE  j \in 1..Len(calls) /\ calls'[j] = calls[j]
  BY <1>1, <1>2
<1> QED
  BY <1>2 DEF SavedBeforeTold

\* A chunk with a hit keeps the messages in order and the capture in step.
LEMMA HitMInv ==
    ASSUME MInv, IInv', NextChunk,
           NEW l \in Labels, NEW score \in 1..MaxScore, MatchesActive(l, active),
           Hit(l, score)
    PROVE  MInv'
<1> USE NumbersAssumption, NoneAssumption
<1>1. /\ TypeOK /\ TypeOK' /\ calls \in Seq(Calls) /\ received \in Nat
      /\ PeakDecidesNotify /\ IdsAreOld /\ ActiveInStep /\ TriggerThenEvent /\ SavedBeforeTold
  BY DEF MInv, IInv, TypeOK
<1>2. received' = received + 1 /\ pc' = "collect" /\ UNCHANGED <<rows, wavs>>
  BY DEF NextChunk
<1>3. active' \in Captures /\ active'.id \in Nat /\ active'.score \in Nat
  BY <1>1, HitKeepsTypes DEF Captures
<1>4. EventInStep'
  BY <1>2 DEF EventInStep
<1>5. \A j \in 1..Len(calls) : calls[j].id \in Nat /\ calls[j].id <= received
  BY <1>1, FieldsOfAMessage DEF IdsAreOld
<1>6. CASE /\ calls' = calls
           /\ active = None => active'.id = received + 1 /\ ~active'.notified
           /\ active # None => /\ active'.id = active.id
                              /\ active'.label = active.label
                              /\ active'.score >= active.score
                              /\ active'.notified = active.notified
  <2>1. IdsAreOld'
    BY <1>1, <1>2, <1>5, <1>6 DEF IdsAreOld
  <2>2. active'.id <= received' /\ InStep(active', calls)
    <3>1. CASE active = None
      BY <1>1, <1>2, <1>5, <1>6, <3>1 DEF InStep
    <3>2. CASE active # None
      <4>1. active.score \in Nat /\ active.id \in Nat
        BY <1>1, <3>2 DEF TypeOK, Captures
      <4>2. active.id <= received /\ InStep(active, calls)
        BY <1>1, <3>2 DEF ActiveInStep
      <4>3. InStep(active', calls)
        BY <1>1, <1>3, <1>6, <3>2, <4>1, <4>2, StaysInStep
      <4> QED
        BY <1>1, <1>2, <1>6, <3>2, <4>1, <4>2, <4>3
    <3> QED
      BY <3>1, <3>2
  <2>3. ActiveInStep'
    BY <1>6, <2>2 DEF ActiveInStep
  <2>4. TriggerThenEvent'
    BY <1>1, <1>6 DEF TriggerThenEvent
  <2>5. SavedBeforeTold'
    BY <1>1, <1>2, <1>6 DEF SavedBeforeTold
  <2> QED
    BY <1>4, <2>1, <2>3, <2>4, <2>5 DEF MInv
<1>7. CASE /\ calls' = Append(calls, Call("trigger", active'.id, l, score))
           /\ Call("trigger", active'.id, l, score) \in Calls
           /\ active'.id <= received + 1
           /\ active'.label = l
           /\ score <= active'.score
           /\ active'.notified
           /\ \A j \in 1..Len(calls) : calls[j].id # active'.id
  <2>1. PICK c \in Calls : /\ c = Call("trigger", active'.id, l, score)
                           /\ c.kind = "trigger" /\ c.id = active'.id
                           /\ c.label = l /\ c.score = score
    BY <1>7 DEF Call
  <2>2. calls' = Append(calls, c)
    BY <1>7, <2>1
  <2>3. IdsAreOld'
    <3>1. /\ Len(calls') = Len(calls) + 1
          /\ calls'[Len(calls) + 1] = c
          /\ \A j \in 1..Len(calls) : calls'[j] = calls[j]
          /\ \A j \in 1..Len(calls') : j \in 1..Len(calls) \/ j = Len(calls) + 1
      BY <1>1, <2>2, OneMore
    <3>2. ASSUME NEW j \in 1..Len(calls') PROVE calls'[j].id <= received + 1
      BY <1>1, <1>5, <1>7, <2>1, <3>1
    <3> QED
      BY <1>2, <3>2 DEF IdsAreOld
  <2>4. InStep(active', calls')
    <3>1. InStep(active', Append(calls, c))
      BY <1>1, <1>7, <2>1, FirstMessage
    <3> QED
      BY <2>2, <3>1
  <2>5. ActiveInStep'
    BY <1>2, <1>7, <2>4 DEF ActiveInStep
  <2>6. TriggerThenEvent'
    BY <1>1, <1>7, <2>1, <2>2, TriggerKeepsOrder
  <2>7. SavedBeforeTold'
    BY <1>1, <1>2, <2>1, <2>2, TriggerTellsNoSnippet
  <2> QED
    BY <1>4, <2>3, <2>5, <2>6, <2>7 DEF MInv
<1> QED
  BY <1>1, <1>6, <1>7, HitSpeaksOnce

\* A step of the worker that says nothing and leaves disk and event log alone.
LEMMA SilentMInv ==
    ASSUME MInv, IInv', UNCHANGED <<rows, wavs, calls>>,
           received' \in {received, received + 1},
           ActiveInStep', EventInStep'
    PROVE  MInv'
<1>1. calls \in Seq(Calls) /\ received \in Nat
  BY DEF MInv, IInv, TypeOK
<1>2. IdsAreOld'
  <2>1. \A j \in 1..Len(calls) : calls[j].id \in Nat /\ calls[j].id <= received
    BY <1>1, FieldsOfAMessage DEF MInv, IdsAreOld
  <2>2. \A j \in 1..Len(calls) : calls[j].id <= received'
    BY <1>1, <2>1
  <2> QED
    BY <2>2 DEF IdsAreOld
<1>3. TriggerThenEvent'
  BY DEF MInv, TriggerThenEvent
<1>4. SavedBeforeTold'
  BY DEF MInv, SavedBeforeTold
<1> QED
  BY <1>2, <1>3, <1>4 DEF MInv

\* A chunk without a hit says nothing.
LEMMA QuietChunkMInv ==
    ASSUME MInv, IInv', NEW res \in Results, NEW loud \in BOOLEAN,
           ChunkWithoutHit(loud, res)
    PROVE  MInv'
<1>1. /\ received' = received + 1 /\ pc' = "collect"
      /\ UNCHANGED <<active, calls, rows, wavs>>
  BY DEF ChunkWithoutHit, NextChunk
<1>2. EventInStep'
  BY <1>1 DEF EventInStep
<1>3. ActiveInStep'
  <2>1. active # None => active.id \in Nat /\ received \in Nat
    BY DEF MInv, IInv, TypeOK, Captures
  <2>2. active # None => active.id <= received /\ InStep(active, calls)
    BY DEF MInv, ActiveInStep
  <2>3. active # None => active.id <= received'
    BY <1>1, <2>1, <2>2
  <2> QED
    BY <1>1, <2>2, <2>3 DEF ActiveInStep
<1> QED
  BY <1>1, <1>2, <1>3, SilentMInv

\* A chunk collected leaves the capture as much in step as it was, and so does
\* one whose snippet cannot be written.
LEMMA CollectMInv ==
    ASSUME MInv, IInv', Collect \/ FinalizeFails
    PROVE  MInv'
<1>1. /\ pc = "collect" /\ pc' \in {"read", "ended"}
      /\ UNCHANGED <<received, calls, rows, wavs>>
      /\ active = None => active' = None
      /\ active # None => active' = Extended(active, received)
  BY DEF Collect, FinalizeFails, Due
<1>2. EventInStep'
  BY <1>1 DEF EventInStep
<1>3. ActiveInStep'
  <2>1. CASE active = None
    BY <1>1, <2>1 DEF ActiveInStep
  <2>2. CASE active # None
    <3>1. IInv /\ active \in Captures /\ calls \in Seq(Calls)
      BY <2>2 DEF MInv, IInv, TypeOK
    <3>2. /\ active'.id = active.id
          /\ active'.label = active.label
          /\ active'.score = active.score
          /\ active'.notified = active.notified
      BY <1>1, <2>2, <3>1, ExtendedIsARun
    <3>3. active.id <= received /\ InStep(active, calls)
      BY <2>2 DEF MInv, ActiveInStep
    <3>4. active.score \in Nat
      BY <3>1 DEF Captures
    <3>5. active'.score \in Nat /\ active'.score >= active.score
      BY <3>2, <3>4
    <3>6. InStep(active', calls)
      BY <3>1, <3>2, <3>3, <3>4, <3>5, StaysInStep
    <3> QED
      BY <1>1, <3>2, <3>3, <3>6 DEF ActiveInStep
  <2> QED
    BY <2>1, <2>2
<1> QED
  BY <1>1, <1>2, <1>3, SilentMInv

\* The snippet written is in step because the capture was, and is on disk.
LEMMA FinalizeMInv ==
    ASSUME MInv, IInv', Finalize
    PROVE  MInv'
<1> USE NoneAssumption
<1> DEFINE s == SnippetOf(Extended(active, received))
<1>1. /\ pc = "collect" /\ pc' = "store" /\ Due(active) /\ active' = None
      /\ UNCHANGED <<received, rows, calls>>
      /\ event' = s /\ wavs' = Append(wavs, s)
  BY DEF Finalize
<1>2. IInv /\ active # None /\ active \in Captures /\ calls \in Seq(Calls) /\ wavs \in Seq(Snippets)
  BY <1>1 DEF Due, MInv, IInv, TypeOK
<1>3. s \in Snippets
  BY <1>1, <1>2, SnippetIsARun
<1>4. /\ s.id = active.id /\ s.label = active.label
      /\ s.score = active.score /\ s.notified = active.notified
  BY <1>1, <1>2, ExtendedIsARun DEF SnippetOf
<1> HIDE DEF s
<1>5. active.id <= received /\ InStep(active, calls) /\ active.score \in Nat
  BY <1>2 DEF MInv, ActiveInStep, Captures
<1>6. InStep(s, calls)
  <2>1. s.score \in Nat /\ s.score >= active.score
    BY <1>4, <1>5
  <2> QED
    BY <1>2, <1>4, <1>5, <2>1, StaysInStep
<1>7. /\ Len(wavs') = Len(wavs) + 1
      /\ Len(wavs) \in Nat
      /\ wavs'[Len(wavs) + 1] = s
      /\ \A n \in 1..Len(wavs) : n \in 1..Len(wavs') /\ wavs'[n] = wavs[n]
  BY <1>1, <1>2, <1>3
<1>8. EventInStep'
  <2>1. \E n \in 1..Len(wavs') : wavs'[n] = event'
    BY <1>1, <1>7
  <2>2. event'.id <= received' /\ InStep(event', calls')
    BY <1>1, <1>4, <1>5, <1>6
  <2> QED
    BY <1>1, <2>1, <2>2 DEF EventInStep
<1>9. ActiveInStep' /\ IdsAreOld' /\ TriggerThenEvent'
  BY <1>1 DEF MInv, ActiveInStep, IdsAreOld, TriggerThenEvent
<1>10. SavedBeforeTold'
  <2>1. \A id \in rows' : \E n \in 1..Len(wavs') : wavs'[n].id = id
    BY <1>1, <1>7 DEF MInv, SavedBeforeTold
  <2>2. \A j \in 1..Len(calls') :
           calls'[j].kind = "event" =>
              \E n \in 1..Len(wavs') : /\ wavs'[n].id = calls'[j].id
                                       /\ wavs'[n].label = calls'[j].label
                                       /\ wavs'[n].score = calls'[j].score
                                       /\ wavs'[n].notified
    <3> SUFFICES ASSUME NEW j \in 1..Len(calls), calls[j].kind = "event"
                 PROVE  \E n \in 1..Len(wavs') : /\ wavs'[n].id = calls[j].id
                                                 /\ wavs'[n].label = calls[j].label
                                                 /\ wavs'[n].score = calls[j].score
                                                 /\ wavs'[n].notified
      BY <1>1
    <3>1. PICK n \in 1..Len(wavs) : /\ wavs[n].id = calls[j].id
                                    /\ wavs[n].label = calls[j].label
                                    /\ wavs[n].score = calls[j].score
                                    /\ wavs[n].notified
      BY DEF MInv, SavedBeforeTold
    <3> QED
      BY <1>7, <3>1
  <2> QED
    BY <2>1, <2>2 DEF SavedBeforeTold
<1> QED
  BY <1>8, <1>9, <1>10 DEF MInv

\* A row, or the failure to write it, follows the snippet it is about.
LEMMA StoreMInv ==
    ASSUME MInv, IInv', StoreRow \/ StoreRowFails
    PROVE  MInv'
<1>1. /\ pc = "store" /\ pc' = AfterStore
      /\ rows' = rows \cup {event.id} \/ rows' = rows
      /\ UNCHANGED <<received, active, event, wavs, calls>>
  BY DEF StoreRow, StoreRowFails
<1>2. PICK n \in 1..Len(wavs) : wavs[n] = event
  BY <1>1 DEF MInv, EventInStep
<1>3. EventInStep'
  <2>1. /\ active' = None /\ event'.id <= received' /\ InStep(event', calls')
        /\ \E m \in 1..Len(wavs') : wavs'[m] = event'
    BY <1>1 DEF MInv, EventInStep
  <2>2. pc' = "announce" => event'.notified
    BY <1>1 DEF AfterStore
  <2> QED
    BY <2>1, <2>2 DEF EventInStep
<1>4. ActiveInStep' /\ IdsAreOld' /\ TriggerThenEvent'
  BY <1>1 DEF MInv, ActiveInStep, IdsAreOld, TriggerThenEvent
<1>5. SavedBeforeTold'
  <2>1. \A id \in rows' : \E m \in 1..Len(wavs) : wavs[m].id = id
    BY <1>1, <1>2 DEF MInv, SavedBeforeTold
  <2> QED
    BY <1>1, <2>1 DEF MInv, SavedBeforeTold
<1> QED
  BY <1>3, <1>4, <1>5 DEF MInv

\* The event follows its `triggered` and its snippet.
LEMMA AnnounceMInv ==
    ASSUME MInv, IInv', Announce
    PROVE  MInv'
<1>1. /\ pc = "announce" /\ pc' = "read"
      /\ calls' = Append(calls, Call("event", event.id, event.label, event.score))
      /\ UNCHANGED <<received, active, event, wavs, rows>>
  BY DEF Announce
<1>2. event \in Snippets /\ calls \in Seq(Calls)
  BY <1>1 DEF MInv, IInv, TypeOK
<1>3. PICK c \in Calls : /\ c = Call("event", event.id, event.label, event.score)
                         /\ c.kind = "event" /\ c.id = event.id
                         /\ c.label = event.label /\ c.score = event.score
  <2>1. Call("event", event.id, event.label, event.score) \in Calls
    BY <1>2 DEF Call, Calls, Snippets
  <2> QED
    BY <2>1 DEF Call
<1>4. calls' = Append(calls, c)
  BY <1>1, <1>3
<1>5. /\ active = None /\ event.id <= received /\ InStep(event, calls) /\ event.notified
      /\ \E n \in 1..Len(wavs) : wavs[n] = event
  BY <1>1 DEF MInv, EventInStep
<1>6. /\ Len(calls') = Len(calls) + 1
      /\ calls'[Len(calls) + 1] = c
      /\ \A j \in 1..Len(calls) : calls'[j] = calls[j]
      /\ \A j \in 1..Len(calls') : j \in 1..Len(calls) \/ j = Len(calls) + 1
  BY <1>2, <1>4, OneMore
<1>7. ActiveInStep' /\ EventInStep'
  BY <1>1, <1>5 DEF ActiveInStep, EventInStep
<1>8. IdsAreOld'
  BY <1>1, <1>3, <1>5, <1>6 DEF MInv, IdsAreOld
<1>9. TriggerThenEvent'
  BY <1>2, <1>3, <1>4, <1>5, EventKeepsOrder DEF MInv
<1>10. SavedBeforeTold'
  <2>1. ASSUME NEW j \in 1..Len(calls'), calls'[j].kind = "event"
        PROVE  \E n \in 1..Len(wavs) : /\ wavs[n].id = calls'[j].id
                                       /\ wavs[n].label = calls'[j].label
                                       /\ wavs[n].score = calls'[j].score
                                       /\ wavs[n].notified
    <3>1. CASE j \in 1..Len(calls)
      BY <1>6, <2>1, <3>1 DEF MInv, SavedBeforeTold
    <3>2. CASE j = Len(calls) + 1
      BY <1>3, <1>5, <1>6, <3>2
    <3> QED
      BY <1>6, <3>1, <3>2
  <2>2. \A id \in rows : \E n \in 1..Len(wavs) : wavs[n].id = id
    BY DEF MInv, SavedBeforeTold
  <2> QED
    BY <1>1, <2>1, <2>2 DEF SavedBeforeTold
<1> QED
  BY <1>7, <1>8, <1>9, <1>10 DEF MInv

\* A worker that ends says nothing more of its capture, nor does the next one.
LEMMA EndMInv ==
    ASSUME MInv, IInv', SeeStop \/ Crash \/ StartWorker
    PROVE  MInv'
<1>1. /\ pc' \in {"ended", "read"}
      /\ UNCHANGED <<received, wavs, rows, calls>>
      /\ active' \in {active, None}
  BY DEF SeeStop, Crash, StartWorker
<1>2. EventInStep'
  BY <1>1 DEF EventInStep
<1>3. ActiveInStep'
  BY <1>1 DEF MInv, ActiveInStep
<1> QED
  BY <1>1, <1>2, <1>3, SilentMInv

\* Initially nothing has been said, captured or saved.
LEMMA InitMInv == Init => MInv
<1> SUFFICES ASSUME Init PROVE MInv
  OBVIOUS
<1>1. IInv
  BY InitIInv
<1>2. /\ active = None /\ pc = "read" /\ rows = {}
      /\ \A j \in 1..Len(calls) : FALSE
  BY DEF Init
<1>3. IdsAreOld /\ ActiveInStep /\ EventInStep
  BY <1>2 DEF IdsAreOld, ActiveInStep, EventInStep
<1>4. TriggerThenEvent /\ SavedBeforeTold
  BY <1>2 DEF TriggerThenEvent, SavedBeforeTold
<1> QED
  BY <1>1, <1>3, <1>4 DEF MInv

\* Every step of the worker keeps what is said in order and in step.
LEMMA NextMInv == MInv /\ [Next]_vars => MInv'
<1> SUFFICES ASSUME MInv, [Next]_vars PROVE MInv'
  OBVIOUS
<1>1. IInv'
  BY NextIInv DEF MInv
<1>2. ASSUME NEW res \in Results, NEW loud \in BOOLEAN, ChunkWithoutHit(loud, res)
      PROVE  MInv'
  BY <1>1, <1>2, QuietChunkMInv
<1>3. ASSUME NEW res \in Results, ChunkWithHit(res)
      PROVE  MInv'
  <2>1. NextChunk
    BY <1>3 DEF ChunkWithHit
  <2>2. \E l \in Labels, score \in 1..MaxScore : MatchesActive(l, active) /\ Hit(l, score)
    BY <1>3, HitOfALabel
  <2> QED
    BY <1>1, <2>1, <2>2, HitMInv
<1>4. CASE Collect \/ FinalizeFails
  BY <1>1, <1>4, CollectMInv
<1>5. CASE Finalize
  BY <1>1, <1>5, FinalizeMInv
<1>6. CASE StoreRow \/ StoreRowFails
  BY <1>1, <1>6, StoreMInv
<1>7. CASE Announce
  BY <1>1, <1>7, AnnounceMInv
<1>8. CASE SeeStop \/ Crash \/ StartWorker
  BY <1>1, <1>8, EndMInv
<1>9. CASE UNCHANGED vars
  <2>1. UNCHANGED <<rows, wavs, calls>> /\ received' = received
    BY <1>9 DEF vars
  <2>2. ActiveInStep' /\ EventInStep'
    BY <1>9 DEF vars, MInv, ActiveInStep, EventInStep
  <2> QED
    BY <1>1, <2>1, <2>2, SilentMInv
<1> QED
  BY <1>2, <1>3, <1>4, <1>5, <1>6, <1>7, <1>8, <1>9 DEF Next

-----------------------------------------------------------------------------
(* The theorems                                                             *)

\* The invariant holds in every behaviour.
LEMMA MessagesInvariant == Spec => []MInv
BY InitMInv, NextMInv, PTL DEF Spec

\* One `triggered`, then one `event` that agrees with it, for every capture.
THEOREM InOrder == Spec => []TriggerThenEvent
<1>1. MInv => TriggerThenEvent
  BY DEF MInv
<1> QED
  BY MessagesInvariant, <1>1, PTL

\* Nobody is told of a snippet that is not on disk.
THEOREM ToldOfSaved == Spec => []SavedBeforeTold
<1>1. MInv => SavedBeforeTold
  BY DEF MInv
<1> QED
  BY MessagesInvariant, <1>1, PTL

=============================================================================
