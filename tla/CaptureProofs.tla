---------------------------- MODULE CaptureProofs ----------------------------
(***************************************************************************)
(* For every set of labels, thresholds, pre-roll, post-roll and length of  *)
(* the stream: the recorder's types, that a snippet is uninterrupted audio *)
(* around its trigger, that its peak score decides its notification, and   *)
(* that the recorder implements SnippetPromise.                            *)
(*                                                                         *)
(* SnippetsAreContiguous speaks of finished snippets; what makes it hold   *)
(* is the state of the recorder before: the deque holds the last chunks    *)
(* collected (BufferIsRecent), and a capture's two lists are the runs that *)
(* meet at the chunk that opened it (CaptureIsARun).                       *)
(***************************************************************************)
EXTENDS Capture, SequenceTheorems, TLAPS

-----------------------------------------------------------------------------
(* Runs of consecutive chunks                                               *)

\* Run(a, b) is a sequence of ordinals, empty when b = a - 1.
LEMMA RunType ==
    ASSUME NEW a \in Nat, NEW b \in Int, b >= a - 1
    PROVE  /\ Run(a, b) \in Seq(Nat)
           /\ Len(Run(a, b)) = b - a + 1
           /\ \A i \in 1..(b - a + 1) : Run(a, b)[i] = a + i - 1
<1>1. b - a + 1 \in Nat
  OBVIOUS
<1>2. \A i \in 1..(b - a + 1) : a + i - 1 \in Nat
  OBVIOUS
<1> QED
  BY <1>1, <1>2 DEF Run

\* A run grows at its end by the next chunk.
LEMMA RunAppend ==
    ASSUME NEW a \in Nat, NEW b \in Nat, b >= a - 1
    PROVE  Append(Run(a, b), b + 1) = Run(a, b + 1)
<1>1. Run(a, b) \in Seq(Nat) /\ Len(Run(a, b)) = b - a + 1
  BY RunType
<1>2. b + 1 \in Int /\ b + 1 >= a - 1
  OBVIOUS
<1>3. Run(a, b + 1) \in Seq(Nat) /\ Len(Run(a, b + 1)) = b + 1 - a + 1
  BY <1>2, RunType
<1>4. /\ Append(Run(a, b), b + 1) \in Seq(Nat)
      /\ Len(Append(Run(a, b), b + 1)) = b - a + 2
  BY <1>1
<1>5. ASSUME NEW i \in 1..Len(Append(Run(a, b), b + 1))
      PROVE  Append(Run(a, b), b + 1)[i] = Run(a, b + 1)[i]
  <2>1. Run(a, b + 1)[i] = a + i - 1
    BY <1>2, <1>4, RunType, SMTT(30)
  <2>2. CASE i <= b - a + 1
    <3>1. Run(a, b)[i] = a + i - 1
      BY <2>2, <1>4, RunType
    <3> QED
      BY <3>1, <2>1, <2>2, <1>1, <1>4
  <2>3. CASE i = b - a + 2
    BY <2>1, <2>3, <1>1
  <2> QED
    BY <2>2, <2>3, <1>4
<1>6. Len(Append(Run(a, b), b + 1)) = Len(Run(a, b + 1))
  BY <1>3, <1>4
<1> QED
  BY <1>3, <1>4, <1>5, <1>6, SeqEqual

\* A run loses its first chunk.
LEMMA RunTail ==
    ASSUME NEW a \in Nat, NEW b \in Nat, b >= a
    PROVE  Tail(Run(a, b)) = Run(a + 1, b)
<1>1. Run(a, b) \in Seq(Nat) /\ Len(Run(a, b)) = b - a + 1 /\ Run(a, b) # <<>>
  BY RunType
<1>2. Tail(Run(a, b)) \in Seq(Nat) /\ Run(a + 1, b) \in Seq(Nat)
  BY <1>1, RunType, HeadTailProperties
<1>3. Len(Tail(Run(a, b))) = b - a /\ Len(Run(a + 1, b)) = b - a
  <2>1. Len(Tail(Run(a, b))) = b - a
    BY <1>1, HeadTailProperties
  <2>2. PICK c \in Nat : c = a + 1
    OBVIOUS
  <2>3. b \in Int /\ b >= c - 1
    BY <2>2
  <2>4. Len(Run(c, b)) = b - c + 1
    BY <2>3, RunType
  <2> QED
    BY <2>1, <2>2, <2>4
<1>4. ASSUME NEW i \in 1..Len(Tail(Run(a, b)))
      PROVE  Tail(Run(a, b))[i] = Run(a + 1, b)[i]
  <2>1. Tail(Run(a, b))[i] = Run(a, b)[i + 1]
    BY <1>1, HeadTailProperties
  <2>2. i + 1 \in 1..(b - a + 1) /\ i \in 1..(b - (a + 1) + 1)
    BY <1>3
  <2> QED
    BY <2>1, <2>2, RunType
<1> QED
  BY <1>2, <1>3, <1>4, SeqEqual

\* Two runs that meet are one.
LEMMA RunConcat ==
    ASSUME NEW a \in Nat, NEW m \in Nat, NEW b \in Nat, a <= m, m <= b + 1
    PROVE  Run(a, m - 1) \o Run(m, b) = Run(a, b)
<1> DEFINE left == Run(a, m - 1)
           right == Run(m, b)
<1>1. left \in Seq(Nat) /\ Len(left) = m - a
  BY RunType
<1>2. right \in Seq(Nat) /\ Len(right) = b - m + 1
  BY RunType
<1>3. Run(a, b) \in Seq(Nat) /\ Len(Run(a, b)) = b - a + 1
  BY RunType
<1>4. /\ left \o right \in Seq(Nat)
      /\ Len(left \o right) = b - a + 1
      /\ \A i \in 1..(Len(left) + Len(right)) :
            (left \o right)[i] = IF i <= Len(left) THEN left[i] ELSE right[i - Len(left)]
  <2> HIDE DEF left, right
  <2> QED
    BY <1>1, <1>2, ConcatProperties
<1>5. ASSUME NEW i \in 1..Len(left \o right)
      PROVE  (left \o right)[i] = Run(a, b)[i]
  <2>1. i \in 1..(b - a + 1) /\ i \in 1..(Len(left) + Len(right))
    BY <1>1, <1>2, <1>4
  <2>2. (left \o right)[i] = IF i <= m - a THEN left[i] ELSE right[i - (m - a)]
    BY <1>1, <1>4, <2>1
  <2>3. Run(a, b)[i] = a + i - 1
    <3>1. b \in Int /\ b >= a - 1
      OBVIOUS
    <3> QED
      BY <2>1, <3>1, RunType
  <2>4. CASE i <= m - a
    <3>1. i \in 1..((m - 1) - a + 1)
      BY <2>1, <2>4
    <3>2. left[i] = a + i - 1
      BY <3>1, RunType
    <3> HIDE DEF left, right
    <3> QED
      BY <2>2, <2>3, <2>4, <3>2
  <2>5. CASE ~(i <= m - a)
    <3>1. i - (m - a) \in 1..(b - m + 1)
      BY <2>1, <2>5
    <3>2. right[i - (m - a)] = m + (i - (m - a)) - 1
      BY <3>1, RunType
    <3> HIDE DEF left, right
    <3> QED
      BY <2>1, <2>2, <2>3, <2>5, <3>2
  <2> QED
    BY <2>4, <2>5
<1>6. Len(left \o right) = Len(Run(a, b))
  BY <1>3, <1>4
<1> QED
  BY <1>3, <1>4, <1>5, <1>6, SeqEqual

\* The deque that holds the run up to chunk b holds the run up to b + 1 after the
\* append, with its oldest chunk dropped if it was full.
LEMMA PushKeepsRun ==
    ASSUME NEW a \in Nat, NEW b \in Nat, b >= a - 1,
           NEW maxlen \in Nat \ {0}, b - a + 1 <= maxlen
    PROVE  /\ b - a + 1 < maxlen => PushBounded(Run(a, b), b + 1, maxlen) = Run(a, b + 1)
           /\ b - a + 1 = maxlen => PushBounded(Run(a, b), b + 1, maxlen) = Run(a + 1, b + 1)
<1>1. Len(Run(a, b)) = b - a + 1
  BY RunType
<1>2. CASE b - a + 1 < maxlen
  <2>1. PushBounded(Run(a, b), b + 1, maxlen) = Append(Run(a, b), b + 1)
    BY <1>1, <1>2 DEF PushBounded
  <2>2. Append(Run(a, b), b + 1) = Run(a, b + 1)
    BY RunAppend
  <2>3. b - a + 1 # maxlen
    BY <1>2
  <2> QED
    BY <2>1, <2>2, <2>3
<1>3. CASE b - a + 1 = maxlen
  <2>1. b >= a
    BY <1>3
  <2>2. PICK c \in Nat : c = a + 1
    OBVIOUS
  <2>3. Tail(Run(a, b)) = Run(c, b) /\ b >= c - 1
    BY <2>1, <2>2, RunTail
  <2>4. Append(Run(c, b), b + 1) = Run(c, b + 1)
    BY <2>3, RunAppend
  <2>5. PushBounded(Run(a, b), b + 1, maxlen) = Append(Tail(Run(a, b)), b + 1)
    BY <1>1, <1>3 DEF PushBounded
  <2>6. PushBounded(Run(a, b), b + 1, maxlen) = Run(c, b + 1)
    BY <2>3, <2>4, <2>5
  <2>7. ~(b - a + 1 < maxlen)
    BY <1>3
  <2> QED
    BY <2>2, <2>6, <2>7
<1> QED
  BY <1>2, <1>3

-----------------------------------------------------------------------------
(* Thresholds and detections                                                *)

\* Every label has an integer threshold of each kind.
LEMMA ThresholdsAreIntegers ==
    ASSUME NEW l
    PROVE  NotifyThresholdFor(l) \in Int /\ DetectionThresholdFor(l) \in Int
BY NumbersAssumption, ThresholdsAssumption DEF NotifyThresholdFor, DetectionThresholdFor

\* The floor under which detect() reports nothing hides no hit: what the
\* classifier reports of a label listened to, at its detection threshold or
\* above, is never cut by min_threshold, whatever thresholds the other labels
\* have (worker.py computes one floor for all of them).
THEOREM FloorHidesNoHit ==
    ASSUME NEW res \in Results, NEW S \in TopClasses(res), NEW l \in S \cap Listen,
           res[l] >= DetectionThresholdFor(l)
    PROVE  l \in Detected(res, S)
<1>1. DetectionThresholdFor(l) \in Int /\ DetectionThresholdFor(l) > 0
  BY ThresholdsAreIntegers, ThresholdsAssumption DEF ThresholdsAreOrdered
<1>2. res[l] \in Int
  BY NumbersAssumption DEF Results, TopClasses
<1>3. Floor(l) <= DetectionThresholdFor(l)
  BY <1>1, NumbersAssumption DEF Floor, Larger
<1>4. Floor(l) \in Int
  BY <1>1, NumbersAssumption DEF Floor, Larger
<1>5. res[l] > 0 /\ res[l] >= Floor(l)
  BY <1>1, <1>2, <1>3, <1>4
<1> QED
  BY <1>5 DEF Detected, ReachesMinThreshold

\* A chunk with a hit is a Hit of one label of the classifier, of the active
\* capture's label if there is one.
LEMMA HitOfALabel ==
    ASSUME NEW res \in Results, ChunkWithHit(res)
    PROVE  \E l \in Labels, score \in 1..MaxScore : MatchesActive(l, active) /\ Hit(l, score)
<1>1. PICK S \in TopClasses(res) : \E l \in Choices(res, S, active) : Hit(l, res[l])
  BY DEF ChunkWithHit
<1>2. PICK l \in Choices(res, S, active) : Hit(l, res[l])
  BY <1>1
<1>3. l \in Labels /\ MatchesActive(l, active) /\ res[l] > 0
  BY DEF Choices, Eligible, Detected, TopClasses
<1>4. res[l] \in 1..MaxScore
  BY <1>3, NumbersAssumption DEF Results
<1> QED
  BY <1>2, <1>3, <1>4

-----------------------------------------------------------------------------
(* The invariant                                                            *)

\* While the worker runs the deque holds the last chunks collected, as many as
\* it can hold and this recorder has heard.
BufferIsRecent ==
    pc # "ended" =>
        /\ since <= Collected
        /\ preBuffer = Run(Collected - Smaller(PreMax, Collected - since) + 1, Collected)

\* the first chunk of a full pre-roll before chunk id
PrerollStart(id) == Larger(since, id - 1 - PreMax) + 1

\* While the worker runs a capture's pre-roll is the full run up to the chunk that
\* opened it, its post-roll the run from there to the last chunk collected, and
\* what is collected and what remains make up the post-roll that is needed.
CaptureIsARun ==
    pc # "ended" /\ active # None =>
        /\ active.id \in (since + 1)..received
        /\ active.id <= Collected + 1
        /\ active.pre = Run(PrerollStart(active.id), active.id - 1)
        /\ active.post = Run(active.id, Collected)
        /\ active.remaining >= 1
        /\ Collected - active.id + 1 + active.remaining >= PostNeeded

\* There is a chunk in hand only while it is collected.
ChunkInHand == pc = "collect" => received >= 1

\* A snippet was opened by a chunk that was read, so that a recorder that starts now
\* has opened none.
SnippetsAreOld == \A n \in 1..Len(wavs) : wavs[n].id <= received

IInv == /\ TypeOK
        /\ ChunkInHand
        /\ BufferIsRecent
        /\ CaptureIsARun
        /\ SnippetsAreOld
        /\ SnippetsAreContiguous
        /\ PeakDecidesNotify

\* The recorder that has heard nothing holds an empty run.
LEMMA EmptyRun ==
    ASSUME NEW a \in Nat
    PROVE  Run(a, a - 1) = <<>>
<1>1. a - 1 \in Int /\ a - 1 >= a - 1
  OBVIOUS
<1>2. Run(a, a - 1) \in Seq(Nat) /\ Len(Run(a, a - 1)) = 0
  BY <1>1, RunType
<1> QED
  BY <1>2, EmptySeq

\* A full pre-roll is no longer than the deque and begins where the stream does or
\* later.
LEMMA PrerollFits ==
    ASSUME since \in Nat, NEW id \in Nat, id > since
    PROVE  /\ PrerollStart(id) \in Nat
           /\ PrerollStart(id) \in 1..id
           /\ id - PrerollStart(id) <= PreMax
BY NumbersAssumption DEF PrerollStart, Larger

\* Initially nothing is buffered, captured, saved or said.
LEMMA InitIInv == Init => IInv
<1> SUFFICES ASSUME Init PROVE IInv
  OBVIOUS
<1> USE NumbersAssumption, NoneAssumption
<1>1. TypeOK
  BY DEF Init, TypeOK
<1>2. BufferIsRecent
  <2>1. Collected - Smaller(PreMax, Collected - since) + 1 = 1 /\ Collected = 0
    BY DEF Init, Collected, Smaller
  <2>2. Run(1, 0) = <<>>
    <3>1. Run(1, 1 - 1) = <<>>
      BY EmptyRun
    <3> QED
      BY <3>1
  <2> QED
    BY <2>1, <2>2 DEF Init, BufferIsRecent
<1>3. ChunkInHand /\ CaptureIsARun
  BY DEF Init, ChunkInHand, CaptureIsARun
<1>4. SnippetsAreContiguous /\ PeakDecidesNotify /\ SnippetsAreOld
  BY DEF Init, SnippetsAreContiguous, PeakDecidesNotify, SnippetsAreOld
<1> QED
  BY <1>1, <1>2, <1>3, <1>4 DEF IInv

\* A hit leaves a capture of the right type whose notification its peak decides.
LEMMA HitKeepsTypes ==
    ASSUME TypeOK, PeakDecidesNotify,
           NEW l \in Labels, NEW score \in 1..MaxScore, MatchesActive(l, active),
           Hit(l, score)
    PROVE  /\ active' \in Captures
           /\ active'.remaining = PostNeeded
           /\ calls' \in Seq(Calls)
           /\ active'.notified <=> active'.score >= NotifyThresholdFor(active'.label)
           /\ active = None => /\ active'.id = received + 1
                              /\ active'.pre = preBuffer
                              /\ active'.post = <<>>
           /\ active # None => /\ active'.id = active.id
                              /\ active'.pre = active.pre
                              /\ active'.post = active.post
<1> USE NumbersAssumption, NoneAssumption
<1> DEFINE capture == Trigger(active, l, score, received + 1)
<1>1. NotifyThresholdFor(l) \in Int /\ score \in Nat
  BY ThresholdsAreIntegers
<1>2. /\ capture \in Captures
      /\ capture.label = l
      /\ capture.remaining = PostNeeded
      /\ capture.score >= score
      /\ capture.notified => capture.score >= NotifyThresholdFor(l)
      /\ score < NotifyThresholdFor(l) =>
            (capture.notified <=> capture.score >= NotifyThresholdFor(l))
      /\ active = None => /\ capture.id = received + 1
                         /\ capture.pre = preBuffer
                         /\ capture.post = <<>>
      /\ active # None => /\ capture.id = active.id
                         /\ capture.pre = active.pre
                         /\ capture.post = active.post
  <2>1. CASE active = None
    <3>1. capture = NewCapture(l, score, received + 1)
      BY <2>1 DEF Trigger
    <3>2. capture.notified = FALSE /\ capture.score = score
      BY <3>1 DEF NewCapture
    <3>3. capture \in Captures
      <4>1. received + 1 \in Nat /\ preBuffer \in Seq(Nat) /\ <<>> \in Seq(Nat)
        BY DEF TypeOK
      <4>2. PostNeeded \in Int /\ score \in Nat
        BY <1>1
      <4> DEFINE new == NewCapture(l, score, received + 1)
      <4>3. new \in [id : Nat, label : Labels, score : Nat, pre : Seq(Nat),
                     post : Seq(Nat), remaining : Int, notified : BOOLEAN]
        BY <4>1, <4>2 DEF NewCapture
      <4> QED
        BY <3>1, <4>3 DEF Captures
    <3>4. /\ capture.label = l
          /\ capture.remaining = PostNeeded
          /\ capture.id = received + 1
          /\ capture.pre = preBuffer
          /\ capture.post = <<>>
      BY <3>1 DEF NewCapture
    <3> HIDE DEF capture
    <3> QED
      BY <1>1, <2>1, <3>2, <3>3, <3>4
  <2>2. CASE active # None
    <3>1. capture = Renewed(active, score) /\ active \in Captures /\ active.label = l
      BY <2>2 DEF Trigger, TypeOK, MatchesActive
    <3>2. /\ capture \in Captures
          /\ capture.score = Larger(active.score, score)
          /\ capture.remaining = PostNeeded
          /\ capture.id = active.id
          /\ capture.pre = active.pre
          /\ capture.post = active.post
          /\ capture.label = active.label
          /\ capture.notified = active.notified
      <4>1. active.score \in Nat
        BY <3>1 DEF Captures
      <4>2. Larger(active.score, score) \in Nat /\ PostNeeded \in Int
        BY <1>1, <4>1 DEF Larger
      <4> QED
        BY <3>1, <4>2 DEF Renewed, Captures
    <3>3. active.notified <=> active.score >= NotifyThresholdFor(l)
      BY <2>2, <3>1 DEF PeakDecidesNotify
    <3>4. active.score \in Nat
      BY <3>1 DEF Captures
    <3>5. capture.score >= score /\ capture.score >= active.score
      BY <1>1, <3>2, <3>4 DEF Larger
    <3>6. score < NotifyThresholdFor(l) =>
            (capture.score >= NotifyThresholdFor(l) <=> active.score >= NotifyThresholdFor(l))
      BY <1>1, <3>2, <3>4 DEF Larger
    <3>7. capture.score \in Nat
      BY <3>2 DEF Captures
    <3> HIDE DEF capture
    <3> QED
      BY <1>1, <2>2, <3>1, <3>2, <3>3, <3>4, <3>5, <3>6, <3>7
  <2> QED
    BY <2>1, <2>2
<1>3. CASE score >= NotifyThresholdFor(l) /\ Notifies(capture, l)
  <2>1. /\ active' = [capture EXCEPT !.notified = TRUE]
        /\ calls' = Append(calls, Call("trigger", capture.id, l, score))
    BY <1>3 DEF Hit
  <2>2. Call("trigger", capture.id, l, score) \in Calls
    BY <1>1, <1>2 DEF Call, Calls, Captures
  <2>3. calls' \in Seq(Calls)
    BY <2>1, <2>2 DEF TypeOK
  <2>4. capture.score \in Nat
    BY <1>2 DEF Captures
  <2>5. /\ active' \in Captures
        /\ active'.notified
        /\ active'.id = capture.id
        /\ active'.label = capture.label
        /\ active'.score = capture.score
        /\ active'.pre = capture.pre
        /\ active'.post = capture.post
        /\ active'.remaining = capture.remaining
    BY <1>2, <2>1 DEF Captures
  <2> HIDE DEF capture
  <2> QED
    BY <1>1, <1>2, <1>3, <2>3, <2>4, <2>5
<1>4. CASE ~(score >= NotifyThresholdFor(l) /\ Notifies(capture, l))
  <2>1. active' = capture /\ calls' = calls
    BY <1>4 DEF Hit
  <2>2. score >= NotifyThresholdFor(l) => capture.notified
    BY <1>2, <1>4 DEF Notifies
  <2>3. calls' \in Seq(Calls)
    BY <2>1 DEF TypeOK
  <2>4. capture.score \in Nat
    BY <1>2 DEF Captures
  <2>5. capture.notified <=> capture.score >= NotifyThresholdFor(l)
    BY <1>1, <1>2, <2>2, <2>4
  <2> HIDE DEF capture
  <2> QED
    BY <1>2, <2>1, <2>3, <2>5
<1> QED
  BY <1>3, <1>4

\* add_chunk leaves the deque with the last chunks up to the one in hand.
LEMMA PushKeepsBuffer ==
    ASSUME IInv, pc = "collect"
    PROVE  LET held == Smaller(PreMax, received - since)
           IN  /\ since <= received
               /\ PushBounded(preBuffer, received, PreMax) = Run(received - held + 1, received)
               /\ PushBounded(preBuffer, received, PreMax) \in Seq(Nat)
               /\ Len(PushBounded(preBuffer, received, PreMax)) <= PreMax
<1> USE NumbersAssumption
<1> DEFINE last == received - 1
           before == Smaller(PreMax, last - since)
           held == Smaller(PreMax, received - since)
           first == last - before + 1
<1>1. received \in Nat /\ received >= 1 /\ since \in Nat
  BY DEF IInv, TypeOK, ChunkInHand
<1>2. last \in Nat /\ last + 1 = received /\ since <= last /\ preBuffer = Run(first, last)
  BY <1>1 DEF IInv, BufferIsRecent, Collected
<1>3. before \in 0..PreMax /\ before <= last - since
  BY <1>1, <1>2 DEF Smaller
<1>4. first \in Nat /\ last >= first - 1 /\ last - first + 1 = before
  BY <1>1, <1>2, <1>3
<1>5. PICK a \in Nat : a = first /\ preBuffer = Run(a, last) /\ last >= a - 1 /\ last - a + 1 = before
  BY <1>2, <1>4
<1>6. CASE before < PreMax
  <2>1. held = before + 1
    BY <1>1, <1>2, <1>6 DEF Smaller
  <2>2. PushBounded(preBuffer, received, PreMax) = Run(a, received)
    BY <1>2, <1>5, <1>6, <1>3, PushKeepsRun
  <2>3. a = received - held + 1
    BY <1>1, <1>5, <2>1, <1>2
  <2>4. Run(a, received) \in Seq(Nat) /\ Len(Run(a, received)) <= PreMax
    <3>1. received \in Int /\ received >= a - 1 /\ received - a + 1 <= PreMax
      BY <1>1, <1>2, <1>3, <1>5, <1>6
    <3> QED
      BY <3>1, RunType
  <2> QED
    BY <1>1, <1>2, <2>2, <2>3, <2>4
<1>7. CASE before = PreMax
  <2>1. held = before
    BY <1>1, <1>2, <1>7 DEF Smaller
  <2>2. PICK c \in Nat : c = a + 1
    OBVIOUS
  <2>3. PushBounded(preBuffer, received, PreMax) = Run(c, received)
    BY <1>2, <1>5, <1>7, <1>3, <2>2, PushKeepsRun
  <2>4. c = received - held + 1
    BY <1>1, <1>2, <1>5, <2>1, <2>2
  <2>5. Run(c, received) \in Seq(Nat) /\ Len(Run(c, received)) <= PreMax
    <3>1. received \in Int /\ received >= c - 1 /\ received - c + 1 <= PreMax
      BY <1>1, <1>2, <1>3, <1>5, <1>7, <2>2
    <3> QED
      BY <3>1, RunType
  <2> QED
    BY <1>1, <1>2, <2>3, <2>4, <2>5
<1> QED
  BY <1>3, <1>6, <1>7

\* add_chunk prolongs the run of a capture's post-roll by the chunk in hand.
LEMMA ExtendedIsARun ==
    ASSUME IInv, pc = "collect", active # None
    PROVE  LET capture == Extended(active, received)
           IN  /\ capture \in Captures
               /\ capture.remaining = active.remaining - 1
               /\ capture.id = active.id
               /\ capture.label = active.label
               /\ capture.score = active.score
               /\ capture.notified = active.notified
               /\ capture.pre = active.pre
               /\ capture.post = Run(active.id, received)
               /\ active.id <= received
<1>1. active \in Captures /\ received \in Nat /\ received >= 1 /\ since \in Nat
  BY DEF IInv, TypeOK, ChunkInHand
<1>2. PICK last \in Nat : last + 1 = received /\ last = Collected
  BY <1>1 DEF Collected
<1>3. /\ active.id \in Nat
      /\ active.id <= last + 1
      /\ active.id <= received
      /\ active.post = Run(active.id, last)
  BY <1>1, <1>2 DEF IInv, CaptureIsARun
<1>4. Append(active.post, received) = Run(active.id, received)
  <2>1. last >= active.id - 1
    BY <1>2, <1>3
  <2>2. Append(Run(active.id, last), last + 1) = Run(active.id, last + 1)
    BY <1>3, <2>1, RunAppend
  <2> QED
    BY <1>2, <1>3, <2>2
<1>5. Append(active.post, received) \in Seq(Nat) /\ active.remaining - 1 \in Int
  BY <1>1 DEF Captures
<1> QED
  BY <1>1, <1>3, <1>4, <1>5 DEF Extended, Captures

\* Collecting a chunk keeps the invariant.
LEMMA CollectIInv == IInv /\ Collect => IInv'
<1> SUFFICES ASSUME IInv, Collect PROVE IInv'
  OBVIOUS
<1> USE NumbersAssumption, NoneAssumption
<1>1. pc = "collect" /\ pc' = "read" /\ ~Due(active)
  BY DEF Collect
<1>2. UNCHANGED <<received, since, event, wavs, rows, calls>>
  BY DEF Collect
<1>3. preBuffer' = PushBounded(preBuffer, received, PreMax)
  BY DEF Collect
<1>4. Collected' = received
  BY <1>1, <1>2 DEF Collected
<1>5. BufferIsRecent' /\ preBuffer' \in Seq(Nat) /\ Len(preBuffer') <= PreMax
  BY <1>1, <1>2, <1>3, <1>4, PushKeepsBuffer DEF BufferIsRecent
<1>6. CASE active = None
  <2>1. active' = None
    BY <1>6 DEF Collect
  <2>2. TypeOK'
    BY <1>1, <1>2, <1>5, <2>1 DEF IInv, TypeOK
  <2>3. CaptureIsARun' /\ ChunkInHand'
    BY <1>1, <2>1 DEF CaptureIsARun, ChunkInHand
  <2>4. SnippetsAreContiguous' /\ PeakDecidesNotify' /\ SnippetsAreOld'
    BY <1>2, <2>1 DEF IInv, SnippetsAreContiguous, PeakDecidesNotify, SnippetsAreOld
  <2> QED
    BY <1>5, <2>2, <2>3, <2>4 DEF IInv
<1>7. CASE active # None
  <2>1. active' = Extended(active, received)
    BY <1>7 DEF Collect
  <2>2. /\ active' \in Captures
        /\ active'.remaining = active.remaining - 1
        /\ active'.id = active.id
        /\ active'.label = active.label
        /\ active'.score = active.score
        /\ active'.notified = active.notified
        /\ active'.pre = active.pre
        /\ active'.post = Run(active.id, received)
        /\ active.id <= received
    BY <1>1, <1>7, <2>1, ExtendedIsARun
  <2>3. active \in Captures /\ active.remaining \in Int /\ active.remaining <= PostNeeded
    BY <1>7 DEF IInv, TypeOK, Captures
  <2>4. active.remaining > 1
    BY <1>1, <1>7, <2>3 DEF Due
  <2>5. TypeOK'
    BY <1>1, <1>2, <1>5, <2>2, <2>3 DEF IInv, TypeOK
  <2>6. CaptureIsARun' /\ ChunkInHand'
    <3>1. /\ active.id \in (since + 1)..received
          /\ active.pre = Run(PrerollStart(active.id), active.id - 1)
          /\ (received - 1) - active.id + 1 + active.remaining >= PostNeeded
          /\ received \in Nat
      BY <1>1, <1>7 DEF IInv, TypeOK, CaptureIsARun, Collected
    <3>2. received - active.id + 1 + (active.remaining - 1) >= PostNeeded
      BY <2>3, <3>1
    <3>3. active'.remaining >= 1
      BY <2>2, <2>3, <2>4
    <3>4. PrerollStart(active.id)' = PrerollStart(active.id)
      BY <1>2, <2>2 DEF PrerollStart
    <3> QED
      BY <1>1, <1>2, <1>4, <2>2, <2>4, <2>3, <3>1, <3>2, <3>3, <3>4 DEF CaptureIsARun, ChunkInHand
  <2>7. SnippetsAreContiguous' /\ PeakDecidesNotify' /\ SnippetsAreOld'
    BY <1>2, <1>7, <2>2 DEF IInv, SnippetsAreContiguous, PeakDecidesNotify, SnippetsAreOld
  <2> QED
    BY <1>5, <2>5, <2>6, <2>7 DEF IInv
<1> QED
  BY <1>6, <1>7

\* The snippet of a capture that is due is one run around its trigger.
LEMMA SnippetIsARun ==
    ASSUME IInv, pc = "collect", Due(active)
    PROVE  LET s == SnippetOf(Extended(active, received))
           IN  /\ s \in Snippets
               /\ s.chunks = Run(s.chunks[1], s.chunks[Len(s.chunks)])
               /\ s.id \in (since + 1)..received
               /\ s.chunks[1] <= s.id
               /\ s.id - s.chunks[1] <= PreMax
               /\ s.chunks[1] = PrerollStart(s.id)
               /\ s.chunks[Len(s.chunks)] >= s.id + PostNeeded - 1
               /\ s.notified <=> s.score >= NotifyThresholdFor(s.label)
<1> USE NumbersAssumption
<1> DEFINE capture == Extended(active, received)
           s == SnippetOf(capture)
<1>1. active # None /\ active \in Captures /\ received \in Nat /\ received >= 1
  BY DEF Due, IInv, TypeOK, ChunkInHand
<1>2. /\ capture \in Captures
      /\ capture.id = active.id
      /\ capture.label = active.label
      /\ capture.score = active.score
      /\ capture.notified = active.notified
      /\ capture.pre = active.pre
      /\ capture.post = Run(active.id, received)
      /\ active.id <= received
  BY <1>1, ExtendedIsARun
<1>3. /\ active.id \in (since + 1)..received /\ since \in Nat /\ active.id \in Nat
      /\ active.remaining = 1
      /\ (received - 1) - active.id + 1 + active.remaining >= PostNeeded
      /\ active.pre = Run(PrerollStart(active.id), active.id - 1)
  BY <1>1 DEF IInv, TypeOK, CaptureIsARun, Collected, Due, Captures
<1>4. PICK f \in Nat : /\ f = PrerollStart(active.id)
                       /\ f >= 1 /\ f <= active.id
                       /\ active.id - f <= PreMax
                       /\ active.pre = Run(f, active.id - 1)
  BY <1>3, PrerollFits
<1>5. s.chunks = Run(f, received)
  <2>1. active.id \in Nat /\ active.id <= received + 1
    BY <1>1, <1>3
  <2>2. s.chunks = Run(f, active.id - 1) \o Run(active.id, received)
    BY <1>2, <1>4 DEF SnippetOf
  <2> QED
    BY <1>1, <1>4, <2>1, <2>2, RunConcat
<1>6. /\ Run(f, received) \in Seq(Nat)
      /\ Len(Run(f, received)) = received - f + 1
      /\ Run(f, received)[1] = f
      /\ Run(f, received)[received - f + 1] = received
  <2>1. received \in Int /\ received >= f - 1 /\ f <= received
    BY <1>1, <1>3, <1>4
  <2>2. 1 \in 1..(received - f + 1) /\ received - f + 1 \in 1..(received - f + 1)
    BY <1>1, <1>4, <2>1
  <2>3. /\ Run(f, received) \in Seq(Nat)
        /\ Len(Run(f, received)) = received - f + 1
        /\ \A i \in 1..(received - f + 1) : Run(f, received)[i] = f + i - 1
    BY <2>1, RunType
  <2>4. Run(f, received)[1] = f + 1 - 1
    BY <2>2, <2>3
  <2>5. Run(f, received)[received - f + 1] = f + (received - f + 1) - 1
    BY <2>2, <2>3
  <2> QED
    BY <1>1, <1>4, <2>3, <2>4, <2>5
<1>7. s.chunks[1] = f /\ s.chunks[Len(s.chunks)] = received
  BY <1>5, <1>6
<1>8. s \in Snippets
  <2>1. s.chunks \in Seq(Nat)
    BY <1>5, <1>6
  <2> QED
    BY <1>2, <2>1 DEF SnippetOf, Snippets, Captures
<1>9. /\ s.id = active.id
      /\ s.label = active.label
      /\ s.score = active.score
      /\ s.notified = active.notified
  BY <1>2 DEF SnippetOf
<1>10. active.notified <=> active.score >= NotifyThresholdFor(active.label)
  BY <1>1 DEF IInv, PeakDecidesNotify
<1>11. received >= active.id + PostNeeded - 1
  BY <1>1, <1>3
<1>12. s.id \in (since + 1)..received /\ s.chunks[1] = PrerollStart(s.id)
  <2> HIDE DEF s
  <2> QED
    BY <1>3, <1>4, <1>7, <1>9
<1> QED
  BY <1>4, <1>5, <1>7, <1>8, <1>9, <1>10, <1>11, <1>12

\* Writing the snippet keeps the invariant.
LEMMA FinalizeIInv == IInv /\ Finalize => IInv'
<1> SUFFICES ASSUME IInv, Finalize PROVE IInv'
  OBVIOUS
<1> USE NumbersAssumption, NoneAssumption
<1> DEFINE s == SnippetOf(Extended(active, received))
<1>1. /\ pc = "collect" /\ pc' = "store" /\ Due(active) /\ active' = None
      /\ UNCHANGED <<received, since, rows, calls>>
      /\ preBuffer' = PushBounded(preBuffer, received, PreMax)
      /\ event' = s
      /\ wavs' = Append(wavs, s)
  BY DEF Finalize
<1>2. Collected' = received
  BY <1>1 DEF Collected
<1>3. BufferIsRecent' /\ preBuffer' \in Seq(Nat) /\ Len(preBuffer') <= PreMax
  BY <1>1, <1>2, PushKeepsBuffer DEF BufferIsRecent
<1>4. s \in Snippets
  BY <1>1, SnippetIsARun
<1>5. wavs \in Seq(Snippets) /\ wavs' \in Seq(Snippets) /\ Len(wavs') = Len(wavs) + 1
  BY <1>1, <1>4 DEF IInv, TypeOK
<1>6. TypeOK'
  BY <1>1, <1>3, <1>4, <1>5 DEF IInv, TypeOK
<1>7. CaptureIsARun' /\ ChunkInHand'
  BY <1>1 DEF CaptureIsARun, ChunkInHand
<1>8. ASSUME NEW n \in 1..Len(wavs')
      PROVE  (n \in 1..Len(wavs) /\ wavs'[n] = wavs[n]) \/ wavs'[n] = s
  <2> HIDE DEF s
  <2> QED
    BY <1>1, <1>4, <1>5
<1>9. SnippetsAreContiguous'
  <2> SUFFICES ASSUME NEW n \in 1..Len(wavs')
               PROVE  LET t == wavs'[n]
                      IN  /\ t.chunks = Run(t.chunks[1], t.chunks[Len(t.chunks)])
                          /\ t.chunks[1] <= t.id
                          /\ t.id - t.chunks[1] <= PreMax
                          /\ t.id > since => t.chunks[1] = Larger(since, t.id - 1 - PreMax) + 1
                          /\ t.chunks[Len(t.chunks)] >= t.id + PostNeeded - 1
    BY <1>1 DEF SnippetsAreContiguous
  <2>1. CASE n \in 1..Len(wavs) /\ wavs'[n] = wavs[n]
    BY <2>1 DEF IInv, SnippetsAreContiguous
  <2>2. CASE wavs'[n] = s
    BY <1>1, <2>2, SnippetIsARun DEF PrerollStart
  <2> QED
    BY <1>8, <2>1, <2>2
<1>10. PeakDecidesNotify'
  <2>1. ASSUME NEW n \in 1..Len(wavs')
        PROVE  wavs'[n].notified <=> wavs'[n].score >= NotifyThresholdFor(wavs'[n].label)
    <3>1. CASE n \in 1..Len(wavs) /\ wavs'[n] = wavs[n]
      BY <3>1 DEF IInv, PeakDecidesNotify
    <3>2. CASE wavs'[n] = s
      BY <1>1, <3>2, SnippetIsARun
    <3> QED
      BY <1>8, <3>1, <3>2
  <2> QED
    BY <1>1, <2>1 DEF PeakDecidesNotify
<1>11. SnippetsAreOld'
  <2>1. s.id <= received
    BY <1>1, SnippetIsARun DEF IInv, TypeOK
  <2> HIDE DEF s
  <2> QED
    BY <1>1, <1>8, <2>1 DEF IInv, SnippetsAreOld
<1> QED
  BY <1>3, <1>6, <1>7, <1>9, <1>10, <1>11 DEF IInv

\* A worker that dies while it writes the snippet keeps what it had.
LEMMA FinalizeFailsIInv == IInv /\ FinalizeFails => IInv'
<1> SUFFICES ASSUME IInv, FinalizeFails PROVE IInv'
  OBVIOUS
<1> USE NumbersAssumption, NoneAssumption
<1>1. /\ pc = "collect" /\ pc' = "ended" /\ active # None
      /\ UNCHANGED <<received, since, event, wavs, rows, calls>>
      /\ preBuffer' = PushBounded(preBuffer, received, PreMax)
      /\ active' = Extended(active, received)
  BY DEF FinalizeFails, Due
<1>2. preBuffer' \in Seq(Nat) /\ Len(preBuffer') <= PreMax
  BY <1>1, PushKeepsBuffer
<1>3. /\ active' \in Captures
      /\ active'.remaining = active.remaining - 1
      /\ active'.label = active.label
      /\ active'.score = active.score
      /\ active'.notified = active.notified
  BY <1>1, ExtendedIsARun
<1>4. active.remaining \in Int /\ active.remaining <= PostNeeded
  BY <1>1 DEF IInv, TypeOK, Captures
<1>5. TypeOK'
  BY <1>1, <1>2, <1>3, <1>4 DEF IInv, TypeOK
<1>6. BufferIsRecent' /\ CaptureIsARun' /\ ChunkInHand'
  BY <1>1 DEF BufferIsRecent, CaptureIsARun, ChunkInHand
<1>7. SnippetsAreContiguous' /\ PeakDecidesNotify' /\ SnippetsAreOld'
  BY <1>1, <1>3 DEF IInv, SnippetsAreContiguous, PeakDecidesNotify, SnippetsAreOld
<1> QED
  BY <1>5, <1>6, <1>7 DEF IInv

\* A chunk that arrives keeps the invariant, with a hit or without.
LEMMA ChunkIInv ==
    ASSUME IInv, NextChunk,
           \/ UNCHANGED <<active, calls>>
           \/ \E l \in Labels, score \in 1..MaxScore : MatchesActive(l, active) /\ Hit(l, score)
    PROVE  IInv'
<1> USE NumbersAssumption, NoneAssumption
<1>1. /\ pc = "read" /\ pc' = "collect" /\ received' = received + 1
      /\ received \in Nat /\ received' \in Nat
      /\ UNCHANGED <<since, preBuffer, event, wavs, rows>>
  BY DEF NextChunk, IInv, TypeOK
<1>2. Collected = received /\ Collected' = received
  BY <1>1 DEF Collected
<1>3. BufferIsRecent' /\ ChunkInHand'
  BY <1>1, <1>2 DEF IInv, BufferIsRecent, ChunkInHand
<1>4. SnippetsAreContiguous' /\ SnippetsAreOld'
  <2>1. \A n \in 1..Len(wavs) : wavs[n].id <= received + 1
    <3> SUFFICES ASSUME NEW n \in 1..Len(wavs) PROVE wavs[n].id <= received + 1
      OBVIOUS
    <3>1. wavs[n] \in Snippets /\ wavs[n].id <= received
      BY DEF IInv, TypeOK, SnippetsAreOld
    <3> QED
      BY <1>1, <3>1 DEF Snippets
  <2> QED
    BY <1>1, <2>1 DEF IInv, SnippetsAreContiguous, SnippetsAreOld
<1>5. CASE UNCHANGED <<active, calls>>
  <2>1. TypeOK'
    BY <1>1, <1>5 DEF IInv, TypeOK
  <2>2. CaptureIsARun'
    <3> SUFFICES ASSUME active # None PROVE CaptureIsARun'
      BY <1>5 DEF CaptureIsARun
    <3>1. active.id \in (since + 1)..received /\ since \in Nat
      BY <1>1 DEF IInv, TypeOK, CaptureIsARun
    <3>2. active.id \in (since + 1)..received'
      BY <1>1, <3>1
    <3> QED
      BY <1>1, <1>2, <1>5, <3>2 DEF IInv, CaptureIsARun, PrerollStart
  <2>3. PeakDecidesNotify'
    BY <1>1, <1>5 DEF IInv, PeakDecidesNotify
  <2> QED
    BY <1>3, <1>4, <2>1, <2>2, <2>3 DEF IInv
<1>6. CASE \E l \in Labels, score \in 1..MaxScore : MatchesActive(l, active) /\ Hit(l, score)
  <2>1. PICK l \in Labels, score \in 1..MaxScore : MatchesActive(l, active) /\ Hit(l, score)
    BY <1>6
  <2>2. TypeOK /\ PeakDecidesNotify
    BY DEF IInv
  <2>3. /\ active' \in Captures
        /\ active'.remaining = PostNeeded
        /\ calls' \in Seq(Calls)
        /\ active'.notified <=> active'.score >= NotifyThresholdFor(active'.label)
        /\ active = None => /\ active'.id = received + 1
                           /\ active'.pre = preBuffer
                           /\ active'.post = <<>>
        /\ active # None => /\ active'.id = active.id
                           /\ active'.pre = active.pre
                           /\ active'.post = active.post
    BY <2>1, <2>2, HitKeepsTypes
  <2>4. TypeOK'
    BY <1>1, <2>3 DEF IInv, TypeOK
  <2>5. PeakDecidesNotify'
    BY <1>1, <2>2, <2>3 DEF PeakDecidesNotify
  <2>6. CaptureIsARun'
    <3>1. CASE active = None
      <4> DEFINE first == received - Smaller(PreMax, received - since) + 1
      <4>1. since \in Nat /\ since <= received /\ preBuffer = Run(first, received)
        BY <1>1, <1>2 DEF IInv, TypeOK, BufferIsRecent
      <4>2. active'.id = received + 1 /\ active'.pre = Run(first, active'.id - 1)
        BY <1>1, <2>3, <3>1, <4>1
      <4>3. PrerollStart(active.id)' = first
        BY <1>1, <4>1, <4>2 DEF PrerollStart, Larger, Smaller
      <4>4. active'.pre = Run(PrerollStart(active.id)', active'.id - 1)
        BY <4>2, <4>3
      <4>5. active'.post = Run(active'.id, received)
        <5>1. PICK a \in Nat : a = received + 1
          BY <1>1
        <5>2. Run(a, a - 1) = <<>> /\ a - 1 = received
          BY <1>1, <5>1, EmptyRun
        <5> QED
          BY <2>3, <3>1, <5>1, <5>2
      <4>6. active'.id \in (since' + 1)..received' /\ active'.id <= Collected' + 1
        BY <1>1, <1>2, <4>1, <4>2
      <4>7. active'.remaining >= 1 /\ Collected' - active'.id + 1 + active'.remaining >= PostNeeded
        BY <1>1, <1>2, <2>3, <4>2
      <4> QED
        BY <1>2, <4>4, <4>5, <4>6, <4>7 DEF CaptureIsARun
    <3>2. CASE active # None
      <4>1. /\ active.id \in (since + 1)..received
            /\ active.id <= received + 1
            /\ active.pre = Run(PrerollStart(active.id), active.id - 1)
            /\ active.post = Run(active.id, received)
        BY <1>1, <1>2, <3>2 DEF IInv, CaptureIsARun
      <4>2. active'.id = active.id /\ active'.pre = active.pre /\ active'.post = active.post
        BY <2>3, <3>2
      <4>3. active'.id \in (since' + 1)..received' /\ active'.id <= Collected' + 1
        BY <1>1, <1>2, <4>1, <4>2
      <4>4. active'.remaining >= 1 /\ Collected' - active'.id + 1 + active'.remaining >= PostNeeded
        BY <1>1, <1>2, <2>3, <4>1, <4>2
      <4>5. PrerollStart(active.id)' = PrerollStart(active.id)
        BY <1>1, <4>2 DEF PrerollStart
      <4>6. /\ active'.pre = Run(PrerollStart(active.id)', active'.id - 1)
            /\ active'.post = Run(active'.id, Collected')
        BY <1>2, <4>1, <4>2, <4>5
      <4> QED
        BY <4>3, <4>4, <4>6 DEF CaptureIsARun
    <3> QED
      BY <3>1, <3>2
  <2> QED
    BY <1>3, <1>4, <2>4, <2>5, <2>6 DEF IInv
<1> QED
  BY <1>5, <1>6

\* What happens between two chunks, or ends the worker, touches neither the deque
\* nor the capture; a new worker starts with neither.
LEMMA AsideIInv ==
    ASSUME IInv,
           StoreRow \/ StoreRowFails \/ Announce \/ SeeStop \/ Crash \/ StartWorker
    PROVE  IInv'
<1> USE NumbersAssumption, NoneAssumption
<1>1. CASE StoreRow \/ StoreRowFails \/ Announce \/ SeeStop \/ Crash
  <2>1. UNCHANGED <<received, since, preBuffer, active, event, wavs>>
    BY <1>1 DEF StoreRow, StoreRowFails, Announce, SeeStop, Crash
  <2>2. \/ pc' = "ended"
        \/ pc # "ended" /\ pc # "collect" /\ pc' \in {"read", "announce"}
    BY <1>1 DEF StoreRow, StoreRowFails, Announce, SeeStop, Crash, AfterStore
  <2>3. TypeOK'
    <3>1. rows' \subseteq Nat
      <4>1. CASE StoreRow
        BY <4>1 DEF StoreRow, IInv, TypeOK, Snippets
      <4>2. CASE ~StoreRow
        BY <1>1, <4>2 DEF StoreRowFails, Announce, SeeStop, Crash, IInv, TypeOK
      <4> QED
        BY <4>1, <4>2
    <3>2. calls' \in Seq(Calls)
      <4>1. CASE Announce
        <5>1. event \in Snippets /\ calls \in Seq(Calls)
          BY <4>1 DEF Announce, IInv, TypeOK
        <5>2. Call("event", event.id, event.label, event.score) \in Calls
          BY <5>1 DEF Call, Calls, Snippets
        <5> QED
          BY <4>1, <5>1, <5>2 DEF Announce
      <4>2. CASE ~Announce
        BY <1>1, <4>2 DEF StoreRow, StoreRowFails, SeeStop, Crash, IInv, TypeOK
      <4> QED
        BY <4>1, <4>2
    <3>3. pc' \in {"store", "announce"} => event # None
      BY <1>1 DEF StoreRow, StoreRowFails, Announce, SeeStop, Crash, AfterStore, IInv, TypeOK
    <3> QED
      BY <2>1, <2>2, <3>1, <3>2, <3>3 DEF IInv, TypeOK
  <2>4. BufferIsRecent' /\ CaptureIsARun' /\ ChunkInHand'
    <3>1. CASE pc' = "ended"
      BY <3>1 DEF BufferIsRecent, CaptureIsARun, ChunkInHand
    <3>2. CASE pc # "ended" /\ pc # "collect" /\ pc' \in {"read", "announce"}
      <4>1. Collected' = Collected
        BY <2>1, <3>2 DEF Collected
      <4> QED
        BY <2>1, <3>2, <4>1 DEF IInv, BufferIsRecent, CaptureIsARun, PrerollStart, ChunkInHand
    <3> QED
      BY <2>2, <3>1, <3>2
  <2>5. SnippetsAreContiguous' /\ PeakDecidesNotify' /\ SnippetsAreOld'
    BY <2>1 DEF IInv, SnippetsAreContiguous, PeakDecidesNotify, SnippetsAreOld
  <2> QED
    BY <2>3, <2>4, <2>5 DEF IInv
<1>2. CASE StartWorker
  <2>1. /\ pc' = "read" /\ since' = received /\ preBuffer' = <<>> /\ active' = None
        /\ event' = None /\ UNCHANGED <<received, wavs, rows, calls>>
    BY <1>2 DEF StartWorker
  <2>2. TypeOK'
    BY <2>1 DEF IInv, TypeOK
  <2>3. BufferIsRecent'
    <3>1. received \in Nat /\ Collected' = received
      BY <2>1 DEF IInv, TypeOK, Collected
    <3>2. PICK a \in Nat : a = received + 1
      BY <3>1
    <3>3. Run(a, a - 1) = <<>> /\ a - 1 = received
      BY <3>1, <3>2, EmptyRun
    <3>4. Smaller(PreMax, received - received) = 0
      BY <3>1 DEF Smaller
    <3>5. received - 0 + 1 = a
      BY <3>1, <3>2
    <3> QED
      BY <2>1, <3>1, <3>3, <3>4, <3>5 DEF BufferIsRecent
  <2>4. CaptureIsARun' /\ ChunkInHand'
    BY <2>1 DEF CaptureIsARun, ChunkInHand
  <2>5. \A n \in 1..Len(wavs) : ~(wavs[n].id > received)
    <3> SUFFICES ASSUME NEW n \in 1..Len(wavs) PROVE ~(wavs[n].id > received)
      OBVIOUS
    <3>1. wavs[n] \in Snippets /\ wavs[n].id <= received /\ received \in Nat
      BY DEF IInv, TypeOK, SnippetsAreOld
    <3> QED
      BY <3>1 DEF Snippets
  <2>6. SnippetsAreContiguous' /\ PeakDecidesNotify' /\ SnippetsAreOld'
    BY <2>1, <2>5 DEF IInv, SnippetsAreContiguous, PeakDecidesNotify, SnippetsAreOld
  <2> QED
    BY <2>2, <2>3, <2>4, <2>6 DEF IInv
<1> QED
  BY <1>1, <1>2

\* Every step of the worker keeps the invariant.
LEMMA NextIInv == IInv /\ [Next]_vars => IInv'
<1> SUFFICES ASSUME IInv, [Next]_vars PROVE IInv'
  OBVIOUS
<1>1. ASSUME NEW res \in Results, NEW loud \in BOOLEAN, ChunkWithoutHit(loud, res)
      PROVE  IInv'
  BY <1>1, ChunkIInv DEF ChunkWithoutHit
<1>2. ASSUME NEW res \in Results, ChunkWithHit(res)
      PROVE  IInv'
  <2>1. NextChunk
    BY <1>2 DEF ChunkWithHit
  <2>2. \E l \in Labels, score \in 1..MaxScore : MatchesActive(l, active) /\ Hit(l, score)
    BY <1>2, HitOfALabel
  <2> QED
    BY <2>1, <2>2, ChunkIInv
<1>3. CASE Collect
  BY <1>3, CollectIInv
<1>4. CASE Finalize
  BY <1>4, FinalizeIInv
<1>5. CASE FinalizeFails
  BY <1>5, FinalizeFailsIInv
<1>6. CASE StoreRow \/ StoreRowFails \/ Announce \/ SeeStop \/ Crash \/ StartWorker
  BY <1>6, AsideIInv
<1>7. CASE UNCHANGED vars
  BY <1>7 DEF vars, IInv, TypeOK, ChunkInHand, BufferIsRecent, CaptureIsARun, Collected,
              PrerollStart, SnippetsAreOld, SnippetsAreContiguous, PeakDecidesNotify
<1> QED
  BY <1>1, <1>2, <1>3, <1>4, <1>5, <1>6, <1>7 DEF Next

\* The invariant holds in every behaviour.
THEOREM Invariance == Spec => []IInv
BY InitIInv, NextIInv, PTL DEF Spec

\* Every variable keeps its type, the deque its bound.
THEOREM TypeCorrect == Spec => []TypeOK
<1>1. IInv => TypeOK
  BY DEF IInv
<1> QED
  BY Invariance, <1>1, PTL

\* Every snippet is one uninterrupted run of chunks around its trigger, with the full
\* pre-roll.
THEOREM Contiguous == Spec => []SnippetsAreContiguous
<1>1. IInv => SnippetsAreContiguous
  BY DEF IInv
<1> QED
  BY Invariance, <1>1, PTL

\* A capture is notified exactly if its peak reached the notify threshold.
THEOREM PeakDecides == Spec => []PeakDecidesNotify
<1>1. IInv => PeakDecidesNotify
  BY DEF IInv
<1> QED
  BY Invariance, <1>1, PTL

-----------------------------------------------------------------------------
(* What no step does to a capture                                           *)

\* A hit of the capture's label only raises its peak and may notify it.
LEMMA HitKeepsIdentity ==
    ASSUME TypeOK, active # None,
           NEW l \in Labels, NEW score \in 1..MaxScore, MatchesActive(l, active),
           Hit(l, score)
    PROVE  KeepsIdentity
<1> USE NumbersAssumption, NoneAssumption
<1> DEFINE capture == Trigger(active, l, score, received + 1)
<1>1. active \in Captures /\ active.score \in Nat
  BY DEF TypeOK, Captures
<1>2. capture = Renewed(active, score)
  BY DEF Trigger
<1>3. Larger(active.score, score) \in Nat /\ Larger(active.score, score) >= active.score
  BY <1>1 DEF Larger
<1>4. /\ capture \in Captures
      /\ capture.id = active.id
      /\ capture.label = active.label
      /\ capture.pre = active.pre
      /\ capture.post = active.post
      /\ capture.score >= active.score
      /\ capture.notified = active.notified
  <2>1. PostNeeded \in Int
    OBVIOUS
  <2>2. /\ capture \in Captures
        /\ capture.score = Larger(active.score, score)
        /\ capture.id = active.id
        /\ capture.label = active.label
        /\ capture.pre = active.pre
        /\ capture.post = active.post
        /\ capture.notified = active.notified
    BY <1>1, <1>2, <1>3, <2>1 DEF Renewed, Captures
  <2> HIDE DEF capture
  <2> QED
    BY <1>3, <2>2
<1>5. active' = capture \/ active' = [capture EXCEPT !.notified = TRUE]
  BY DEF Hit
<1>6. CASE active' = capture
  BY <1>4, <1>6 DEF KeepsIdentity
<1>7. CASE active' = [capture EXCEPT !.notified = TRUE]
  <2>1. /\ active'.id = capture.id
        /\ active'.label = capture.label
        /\ active'.pre = capture.pre
        /\ active'.post = capture.post
        /\ active'.score = capture.score
        /\ active'.notified
    BY <1>4, <1>7 DEF Captures
  <2> HIDE DEF capture
  <2> QED
    BY <1>4, <2>1 DEF KeepsIdentity
<1> QED
  BY <1>5, <1>6, <1>7

\* Every step keeps the identity of the open capture.
LEMMA NextKeepsIdentity == IInv /\ [Next]_vars => [KeepsIdentity]_vars
<1> SUFFICES ASSUME IInv, Next, active # None, active' # None PROVE KeepsIdentity
  BY DEF KeepsIdentity
<1> USE NumbersAssumption, NoneAssumption
<1>1. TypeOK /\ active \in Captures /\ active.score \in Nat
  BY DEF IInv, TypeOK, Captures
<1>2. ASSUME UNCHANGED active PROVE KeepsIdentity
  BY <1>1, <1>2 DEF KeepsIdentity
<1>3. ASSUME NEW res \in Results, ChunkWithHit(res) PROVE KeepsIdentity
  BY <1>1, <1>3, HitOfALabel, HitKeepsIdentity
<1>4. ASSUME pc = "collect", active' = Extended(active, received) PROVE KeepsIdentity
  <2>1. /\ active'.id = active.id
        /\ active'.label = active.label
        /\ active'.pre = active.pre
        /\ active'.score = active.score
        /\ active'.notified = active.notified
        /\ active'.post = Append(active.post, received)
    BY <1>1, <1>4 DEF Extended, Captures
  <2> QED
    BY <1>1, <2>1 DEF KeepsIdentity
<1>5. CASE Collect
  BY <1>4, <1>5 DEF Collect
<1>6. CASE FinalizeFails
  BY <1>4, <1>6 DEF FinalizeFails
<1>7. CASE Finalize
  BY <1>7 DEF Finalize
<1>8. CASE StartWorker
  BY <1>8 DEF StartWorker
<1>9. CASE StoreRow \/ StoreRowFails \/ Announce \/ SeeStop \/ Crash
  BY <1>2, <1>9 DEF StoreRow, StoreRowFails, Announce, SeeStop, Crash
<1>10. ASSUME NEW res \in Results, NEW loud \in BOOLEAN, ChunkWithoutHit(loud, res)
       PROVE  KeepsIdentity
  BY <1>2, <1>10 DEF ChunkWithoutHit
<1> QED
  BY <1>3, <1>5, <1>6, <1>7, <1>8, <1>9, <1>10 DEF Next

\* A capture keeps the identity it announced.
THEOREM KeepsItsIdentity == Spec => CaptureKeepsIdentity
BY Invariance, NextKeepsIdentity, PTL DEF Spec, CaptureKeepsIdentity

-----------------------------------------------------------------------------
(* The recorder implements SnippetPromise                                   *)

\* the window of SnippetPromise, and what it says of a snippet
WindowOf(capture, heard) ==
    [label  |-> capture.label,
     first  |-> FirstChunk(capture),
     opened |-> capture.id,
     until  |-> heard + capture.remaining,
     peak   |-> capture.score]
Window == IF active = None \/ pc = "ended" THEN None ELSE WindowOf(active, Collected)
Record(s) ==
    [label    |-> s.label,
     first    |-> s.chunks[1],
     opened   |-> s.id,
     last     |-> s.chunks[Len(s.chunks)],
     peak     |-> s.score,
     notified |-> s.notified]
Saved == [n \in 1..Len(wavs) |-> Record(wavs[n])]

\* The open capture is a window.
LEMMA ActiveIsAWindow ==
    ASSUME IInv, active # None, pc # "ended"
    PROVE  Window = WindowOf(active, Collected) /\ Window \in Windows /\ Window # None
<1> USE NumbersAssumption, NoneAssumption
<1>1. active \in Captures /\ Collected \in Int
  BY DEF IInv, TypeOK, Collected
<1>2. FirstChunk(active) \in Int
  <2>1. active.pre \in Seq(Nat) /\ active.id \in Nat
    BY <1>1 DEF Captures
  <2>2. active.pre # <<>> => active.pre[1] \in Nat
    BY <2>1
  <2> QED
    BY <2>1, <2>2 DEF FirstChunk
<1>3. WindowOf(active, Collected) \in Windows
  BY <1>1, <1>2 DEF WindowOf, Windows, Captures
<1> QED
  BY <1>3 DEF Window

\* What does not touch the capture does not touch its window.
LEMMA SameWindow ==
    ASSUME UNCHANGED <<active, Collected>>, pc # "ended", pc' # "ended"
    PROVE  UNCHANGED Window
BY DEF Window, WindowOf, FirstChunk

\* The same snippets are the same records.
LEMMA SameSaved ==
    ASSUME UNCHANGED wavs
    PROVE  UNCHANGED Saved
BY DEF Saved, Record

\* A chunk that matches no open window and is collected later changes nothing.
LEMMA ChunkWithoutHitPromises ==
    ASSUME IInv, NEW res \in Results, NEW loud \in BOOLEAN, ChunkWithoutHit(loud, res)
    PROVE  UNCHANGED Promise!vars
<1>1. /\ pc = "read" /\ pc' = "collect" /\ received' = received + 1 /\ received \in Nat
      /\ UNCHANGED <<since, wavs, active>>
  BY DEF ChunkWithoutHit, NextChunk, IInv, TypeOK
<1>2. Collected' = Collected
  BY <1>1 DEF Collected
<1>3. UNCHANGED <<Window, Saved, since, Collected>>
  BY <1>1, <1>2, SameWindow, SameSaved
<1> QED
  BY <1>3 DEF Promise!vars, Window, WindowOf, Saved, Record

\* A window prolonged keeps its other fields.
LEMMA ProlongedWindow ==
    ASSUME NEW w \in Windows, NEW until \in Int, NEW peak \in Nat
    PROVE  [w EXCEPT !.until = until, !.peak = peak]
             = [label |-> w.label, first |-> w.first, opened |-> w.opened,
                until |-> until, peak |-> peak]
<1> DEFINE long == [w EXCEPT !.until = until, !.peak = peak]
<1>1. /\ long \in Windows /\ long.label = w.label /\ long.first = w.first
      /\ long.opened = w.opened /\ long.until = until /\ long.peak = peak
  BY DEF Windows
<1> HIDE DEF long
<1>2. long = [label |-> w.label, first |-> w.first, opened |-> w.opened,
              until |-> until, peak |-> peak]
  BY <1>1 DEF Windows
<1> QED
  BY <1>2 DEF long

\* A hit opens a window over the pre-roll or extends the one that is open.
LEMMA HitPromises ==
    ASSUME IInv, NextChunk, NEW l \in Labels, NEW score \in 1..MaxScore,
           MatchesActive(l, active), Hit(l, score)
    PROVE  Promise!Open(l, score) \/ Promise!Extend(score)
<1> USE NumbersAssumption, NoneAssumption
<1>1. /\ pc = "read" /\ pc' = "collect" /\ received' = received + 1 /\ received \in Nat
      /\ UNCHANGED <<since, wavs>> /\ TypeOK /\ PeakDecidesNotify /\ since \in Nat
  BY DEF NextChunk, IInv, TypeOK
<1>2. Collected' = Collected /\ Collected = received
  BY <1>1 DEF Collected
<1>3. UNCHANGED Saved
  BY <1>1, SameSaved
<1>4. active' \in Captures /\ active'.remaining = PostNeeded
  BY <1>1, HitKeepsTypes
<1>5. Window' = WindowOf(active', Collected')
  BY <1>1, <1>4 DEF Window
<1>6. CASE active = None
  <2>1. active'.id = received + 1 /\ active'.pre = preBuffer
    BY <1>1, <1>6, HitKeepsTypes
  <2>2. active'.label = l /\ active'.score = score
    <3> DEFINE new == NewCapture(l, score, received + 1)
    <3>1. active' \in {new, [new EXCEPT !.notified = TRUE]}
      BY <1>6 DEF Hit, Trigger
    <3> QED
      BY <3>1 DEF NewCapture
  <2>3. FirstChunk(active') = Larger(since, Collected - PreMax) + 1
    <3> DEFINE held == Smaller(PreMax, Collected - since)
    <3>1. since <= received /\ preBuffer = Run(received - held + 1, received)
      BY <1>1, <1>2 DEF IInv, BufferIsRecent
    <3>2. held \in Nat /\ held <= received /\ Larger(since, Collected - PreMax) = received - held
      BY <1>1, <1>2, <3>1 DEF Smaller, Larger
    <3>3. PICK a \in Nat : a = received - held + 1
      BY <1>1, <3>2
    <3>4. /\ preBuffer = Run(a, received) /\ received >= a - 1 /\ received \in Int
          /\ received - a + 1 = held
      BY <1>1, <3>1, <3>2, <3>3
    <3>5. preBuffer \in Seq(Nat) /\ Len(preBuffer) = held /\ \A i \in 1..held : preBuffer[i] = a + i - 1
      BY <3>4, RunType
    <3> HIDE DEF held
    <3>6. CASE held = 0
      <4>1. preBuffer = <<>>
        BY <3>5, <3>6, EmptySeq
      <4> QED
        BY <1>1, <2>1, <3>2, <3>6, <4>1 DEF FirstChunk
    <3>7. CASE held # 0
      <4>1. preBuffer # <<>> /\ 1 \in 1..held /\ preBuffer[1] = a + 1 - 1
        BY <3>2, <3>5, <3>7
      <4> QED
        BY <2>1, <3>2, <3>3, <4>1 DEF FirstChunk
    <3> QED
      BY <3>6, <3>7
  <2>4. Window = None
    BY <1>6 DEF Window
  <2>5. Window' = [label  |-> l,
                   first  |-> Larger(since, Collected - PreMax) + 1,
                   opened |-> Collected + 1,
                   until  |-> Collected + PostNeeded,
                   peak   |-> score]
    BY <1>2, <1>4, <1>5, <2>1, <2>2, <2>3 DEF WindowOf
  <2>6. Promise!Open(l, score)
    BY <1>1, <1>2, <1>3, <2>4, <2>5 DEF Promise!Open, Promise!Greater, Larger, Window, WindowOf, Saved, Record
  <2> QED
    BY <2>6
<1>7. CASE active # None
  <2>1. active \in Captures /\ active.score \in Nat /\ active.id \in Nat /\ active.label = l
    BY <1>1, <1>7 DEF TypeOK, Captures, MatchesActive
  <2>2. active'.id = active.id /\ active'.pre = active.pre
    BY <1>1, <1>7, HitKeepsTypes
  <2>3. active'.label = active.label /\ active'.score = Larger(active.score, score)
    <3> DEFINE new == Renewed(active, score)
    <3>1. active' \in {new, [new EXCEPT !.notified = TRUE]}
      BY <1>7 DEF Hit, Trigger
    <3> QED
      BY <2>1, <3>1 DEF Renewed, Captures
  <2>4. Window = WindowOf(active, Collected) /\ Window # None
    BY <1>1, <1>7, ActiveIsAWindow
  <2>5. FirstChunk(active') = FirstChunk(active)
    BY <2>2 DEF FirstChunk
  <2>6. Window' = [Window EXCEPT !.until = Collected + PostNeeded,
                                 !.peak  = Larger(Window.peak, score)]
    <3>1. Window' = [label  |-> active.label,
                     first  |-> FirstChunk(active),
                     opened |-> active.id,
                     until  |-> Collected + PostNeeded,
                     peak   |-> Larger(active.score, score)]
      BY <1>2, <1>4, <1>5, <2>2, <2>3, <2>5 DEF WindowOf
    <3>2. Window = [label  |-> active.label,
                    first  |-> FirstChunk(active),
                    opened |-> active.id,
                    until  |-> Collected + active.remaining,
                    peak   |-> active.score]
      BY <2>4 DEF WindowOf
    <3>3. /\ Window.peak = active.score /\ Window.label = active.label
          /\ Window.first = FirstChunk(active) /\ Window.opened = active.id
      BY <3>2
    <3>4. Collected + PostNeeded \in Int /\ Larger(active.score, score) \in Nat /\ Window \in Windows
      BY <1>1, <1>2, <1>7, <2>1, ActiveIsAWindow DEF Larger
    <3>5. [Window EXCEPT !.until = Collected + PostNeeded, !.peak = Larger(active.score, score)]
             = [label  |-> Window.label,
                first  |-> Window.first,
                opened |-> Window.opened,
                until  |-> Collected + PostNeeded,
                peak   |-> Larger(active.score, score)]
      BY <3>4, ProlongedWindow
    <3> QED
      BY <3>1, <3>3, <3>5
  <2>7. Promise!Extend(score)
    BY <1>1, <1>2, <1>3, <2>4, <2>6 DEF Promise!Extend, Promise!Greater, Larger, Window, WindowOf, Saved, Record
  <2> QED
    BY <2>7
<1> QED
  BY <1>6, <1>7

\* A chunk collected is heard.
LEMMA CollectPromises ==
    ASSUME IInv, Collect
    PROVE  Promise!Hear
<1> USE NumbersAssumption, NoneAssumption
<1>1. /\ pc = "collect" /\ pc' = "read" /\ received' = received /\ received \in Nat
      /\ UNCHANGED <<since, wavs>> /\ ~Due(active)
  BY DEF Collect, IInv, TypeOK
<1>2. Collected' = Collected + 1 /\ Collected = received - 1
  BY <1>1 DEF Collected
<1>3. UNCHANGED Saved
  BY <1>1, SameSaved
<1>4. CASE active = None
  <2>1. Window = None /\ Window' = None
    BY <1>4 DEF Collect, Window
  <2> QED
    BY <1>1, <1>2, <1>3, <2>1 DEF Promise!Hear, Window, WindowOf, Saved, Record
<1>5. CASE active # None
  <2>1. active' = Extended(active, received) /\ active \in Captures /\ active.remaining \in Int
    BY <1>5 DEF Collect, IInv, TypeOK, Captures
  <2>2. /\ active'.remaining = active.remaining - 1
        /\ active' \in Captures
        /\ active'.id = active.id
        /\ active'.label = active.label
        /\ active'.score = active.score
        /\ active'.pre = active.pre
    BY <1>1, <1>5, <2>1, ExtendedIsARun
  <2>3. Window = WindowOf(active, Collected)
    BY <1>1, <1>5, ActiveIsAWindow
  <2>4. Window' = WindowOf(active', Collected')
    BY <1>1, <2>2 DEF Window
  <2>5. FirstChunk(active') = FirstChunk(active) /\ Collected' + active'.remaining = Collected + active.remaining
    BY <1>1, <1>2, <2>1, <2>2 DEF FirstChunk
  <2>6. Window' = Window
    BY <2>2, <2>3, <2>4, <2>5 DEF WindowOf
  <2>7. Collected + 1 < Window.until
    BY <1>1, <1>2, <1>5, <2>1, <2>3 DEF WindowOf, Due
  <2> QED
    BY <1>1, <1>2, <1>3, <2>6, <2>7 DEF Promise!Hear, Window, WindowOf, Saved, Record
<1> QED
  BY <1>4, <1>5

\* One more snippet is one more record.
LEMMA OneMoreSaved ==
    ASSUME wavs \in Seq(Snippets), NEW s \in Snippets, wavs' = Append(wavs, s)
    PROVE  Saved' = Append(Saved, Record(s))
<1> DEFINE R == {Record(w) : w \in Snippets}
<1>1. /\ Len(wavs') = Len(wavs) + 1 /\ wavs'[Len(wavs) + 1] = s /\ Len(wavs) \in Nat
      /\ \A n \in 1..Len(wavs) : wavs'[n] = wavs[n] /\ wavs[n] \in Snippets
  OBVIOUS
<1>2. Saved \in Seq(R) /\ Len(Saved) = Len(wavs)
  BY <1>1 DEF Saved
<1>3. Saved' = [n \in 1..(Len(wavs) + 1) |-> Record(wavs'[n])]
  BY <1>1 DEF Saved, Record
<1>4. \A n \in 1..(Len(wavs) + 1) : Record(wavs'[n]) \in R
  BY <1>1
<1>5. Saved' \in Seq(R) /\ Len(Saved') = Len(wavs) + 1
  BY <1>1, <1>3, <1>4
<1>6. Append(Saved, Record(s)) \in Seq(R) /\ Len(Append(Saved, Record(s))) = Len(wavs) + 1
  BY <1>2
<1>7. ASSUME NEW n \in 1..(Len(wavs) + 1)
      PROVE  Saved'[n] = Append(Saved, Record(s))[n]
  <2>1. CASE n \in 1..Len(wavs)
    <3>1. Append(Saved, Record(s))[n] = Saved[n]
      BY <1>2, <2>1
    <3> QED
      BY <1>1, <1>3, <2>1, <3>1 DEF Saved
  <2>2. CASE n = Len(wavs) + 1
    <3>1. Append(Saved, Record(s))[n] = Record(s)
      BY <1>2, <2>2
    <3> QED
      BY <1>1, <1>3, <2>2, <3>1
  <2>3. n \in 1..Len(wavs) \/ n = Len(wavs) + 1
    BY <1>1
  <2> QED
    BY <2>1, <2>2, <2>3
<1> HIDE DEF R
<1> QED
  BY <1>1, <1>5, <1>6, <1>7, SeqEqual

\* The capture that is due is the window that ends with the chunk in hand, and
\* its snippet is the record of that window.
LEMMA FinalizePromises ==
    ASSUME IInv, Finalize
    PROVE  Promise!Save
<1> USE NumbersAssumption, NoneAssumption
<1> DEFINE s == SnippetOf(Extended(active, received))
<1>1. /\ pc = "collect" /\ pc' = "store" /\ received' = received /\ received \in Nat
      /\ UNCHANGED since /\ Due(active) /\ active' = None
      /\ wavs' = Append(wavs, s) /\ wavs \in Seq(Snippets)
  BY DEF Finalize, IInv, TypeOK
<1>2. Collected' = Collected + 1 /\ Collected = received - 1
  BY <1>1 DEF Collected
<1>3. /\ active # None /\ active \in Captures /\ active.remaining = 1
      /\ active.post = Run(active.id, Collected)
      /\ active.id \in (since + 1)..received /\ since \in Nat /\ active.id \in Nat
      /\ active.pre = Run(PrerollStart(active.id), active.id - 1)
  BY <1>1, SMTT(30) DEF Due, IInv, TypeOK, CaptureIsARun, Captures
<1>4. /\ s \in Snippets
      /\ s.id = active.id /\ s.label = active.label /\ s.score = active.score
      /\ s.notified = active.notified
      /\ s.chunks = active.pre \o Run(active.id, received)
  BY <1>1, <1>3, SnippetIsARun, ExtendedIsARun DEF SnippetOf
<1>5. s.chunks[1] = FirstChunk(active) /\ s.chunks[Len(s.chunks)] = received
  <2>1. PICK f \in Nat : f >= 1 /\ f <= active.id /\ active.pre = Run(f, active.id - 1)
    BY <1>3, PrerollFits
  <2>2. active.id \in Nat /\ active.id <= received + 1 /\ active.id <= received
    BY <1>1, <1>3
  <2>3. s.chunks = Run(f, received)
    <3>1. s.chunks = Run(f, active.id - 1) \o Run(active.id, received)
      BY <1>4, <2>1
    <3> HIDE DEF s
    <3> QED
      BY <1>1, <2>1, <2>2, <3>1, RunConcat
  <2>4. /\ Len(Run(f, received)) = received - f + 1
        /\ \A i \in 1..(received - f + 1) : Run(f, received)[i] = f + i - 1
    <3>1. received \in Int /\ received >= f - 1
      BY <1>1, <2>1, <2>2
    <3> QED
      BY <2>1, <3>1, RunType
  <2>5. 1 \in 1..(received - f + 1) /\ received - f + 1 \in 1..(received - f + 1)
    BY <1>1, <2>1, <2>2
  <2>6. Run(f, received)[1] = f /\ Run(f, received)[received - f + 1] = received
    <3>1. Run(f, received)[1] = f + 1 - 1 /\ Run(f, received)[received - f + 1] = f + (received - f + 1) - 1
      BY <2>4, <2>5
    <3> QED
      BY <1>1, <2>1, <3>1
  <2>7. FirstChunk(active) = f
    <3>1. active.id - 1 \in Int /\ active.id - 1 >= f - 1
      BY <2>1, <2>2
    <3>2. /\ active.pre \in Seq(Nat) /\ Len(active.pre) = active.id - f
          /\ \A i \in 1..(active.id - f) : active.pre[i] = f + i - 1
      <4>1. (active.id - 1) - f + 1 = active.id - f
        BY <2>1, <2>2
      <4> DEFINE b == active.id - 1
      <4>2. b \in Int /\ b >= f - 1 /\ active.pre = Run(f, b) /\ b - f + 1 = active.id - f
        BY <2>1, <3>1, <4>1
      <4> HIDE DEF b
      <4>3. /\ Run(f, b) \in Seq(Nat) /\ Len(Run(f, b)) = b - f + 1
            /\ \A i \in 1..(b - f + 1) : Run(f, b)[i] = f + i - 1
        BY <2>1, <4>2, RunType
      <4> QED
        BY <4>2, <4>3
    <3>3. CASE f = active.id
      <4>1. active.pre = <<>>
        BY <2>1, <3>2, <3>3, EmptySeq
      <4> QED
        BY <3>3, <4>1 DEF FirstChunk
    <3>4. CASE f # active.id
      <4>1. 1 \in 1..(active.id - f) /\ active.pre # <<>>
        BY <2>1, <2>2, <3>2, <3>4
      <4>2. active.pre[1] = f + 1 - 1
        BY <3>2, <4>1
      <4> QED
        BY <2>1, <4>1, <4>2 DEF FirstChunk
    <3> QED
      BY <3>3, <3>4
  <2> HIDE DEF s
  <2> QED
    BY <2>3, <2>4, <2>6, <2>7
<1>6. active.notified = (active.score >= NotifyThresholdFor(active.label))
  BY <1>3 DEF IInv, PeakDecidesNotify, Captures
<1>7. Window = WindowOf(active, Collected) /\ Window # None
  BY <1>1, <1>3, ActiveIsAWindow
<1>8. Window.until = received /\ Collected + 1 = received
  BY <1>1, <1>2, <1>3, <1>7 DEF WindowOf
<1>9. Saved' = Append(Saved, Record(s))
  <2> HIDE DEF s
  <2> QED
    BY <1>1, <1>4, OneMoreSaved
<1>10. Record(s) = [label    |-> Window.label,
                    first    |-> Window.first,
                    opened   |-> Window.opened,
                    last     |-> Window.until,
                    peak     |-> Window.peak,
                    notified |-> Window.peak >= NotifyThresholdFor(Window.label)]
  <2>1. /\ Window.label = active.label /\ Window.first = FirstChunk(active)
        /\ Window.opened = active.id /\ Window.peak = active.score
    BY <1>7 DEF WindowOf
  <2> HIDE DEF s
  <2> QED
    BY <1>4, <1>5, <1>6, <1>8, <2>1 DEF Record
<1>11. Window' = None
  BY <1>1 DEF Window
<1> HIDE DEF s
<1>12. Saved' = Append(Saved, [label    |-> Window.label,
                              first    |-> Window.first,
                              opened   |-> Window.opened,
                              last     |-> Window.until,
                              peak     |-> Window.peak,
                              notified |-> Window.peak >= NotifyThresholdFor(Window.label)])
  BY <1>9, <1>10
<1> QED
  BY <1>1, <1>2, <1>7, <1>8, <1>11, <1>12 DEF Promise!Save, Window, WindowOf, Saved, Record

\* A worker that dies loses its window, and maybe the chunk in hand.
LEMMA DeathPromises ==
    ASSUME IInv, FinalizeFails \/ SeeStop \/ Crash
    PROVE  Promise!Lose
<1>1. pc' = "ended" /\ received' = received /\ received \in Nat /\ UNCHANGED <<since, wavs>>
  BY DEF FinalizeFails, SeeStop, Crash, IInv, TypeOK
<1>2. Collected' \in {Collected, Collected + 1}
  BY <1>1 DEF Collected
<1>3. Window' = None
  BY <1>1 DEF Window
<1>4. UNCHANGED Saved
  BY <1>1, SameSaved
<1> QED
  BY <1>1, <1>2, <1>3, <1>4 DEF Promise!Lose, Window, WindowOf, Saved, Record

\* A new worker begins where the stream is.
LEMMA StartPromises ==
    ASSUME IInv, StartWorker
    PROVE  Promise!Begin
<1>1. /\ pc = "ended" /\ pc' = "read" /\ received' = received /\ since' = received
      /\ active' = None /\ UNCHANGED wavs
  BY DEF StartWorker
<1>2. Collected = received /\ Collected' = Collected
  BY <1>1 DEF Collected
<1>3. Window = None /\ Window' = None
  BY <1>1 DEF Window
<1>4. UNCHANGED Saved
  BY <1>1, SameSaved
<1> QED
  BY <1>1, <1>2, <1>3, <1>4 DEF Promise!Begin, Window, WindowOf, Saved, Record

\* What follows the snippet is no concern of the recorder's.
LEMMA AftermathPromises ==
    ASSUME IInv, StoreRow \/ StoreRowFails \/ Announce
    PROVE  UNCHANGED Promise!vars
<1>1. /\ pc \in {"store", "announce"} /\ pc' \in {"announce", "read"}
      /\ UNCHANGED <<received, since, active, wavs>>
  BY DEF StoreRow, StoreRowFails, Announce, AfterStore
<1>2. Collected' = Collected
  BY <1>1 DEF Collected
<1>3. UNCHANGED <<Window, Saved, since, Collected>>
  BY <1>1, <1>2, SameWindow, SameSaved
<1> QED
  BY <1>3 DEF Promise!vars, Window, WindowOf, Saved, Record

\* Every step of the worker is a step of SnippetPromise or changes nothing it
\* speaks of.
LEMMA NextPromises == IInv /\ [Next]_vars => [Promise!Next]_(Promise!vars)
<1> SUFFICES ASSUME IInv, [Next]_vars PROVE Promise!Next \/ UNCHANGED Promise!vars
  OBVIOUS
<1> USE NumbersAssumption
<1>1. ASSUME NEW res \in Results, NEW loud \in BOOLEAN, ChunkWithoutHit(loud, res)
      PROVE  UNCHANGED Promise!vars
  BY <1>1, ChunkWithoutHitPromises
<1>2. ASSUME NEW res \in Results, ChunkWithHit(res)
      PROVE  Promise!Next
  <2>1. NextChunk
    BY <1>2 DEF ChunkWithHit
  <2>2. PICK l \in Labels, score \in 1..MaxScore : MatchesActive(l, active) /\ Hit(l, score)
    BY <1>2, HitOfALabel
  <2>3. Promise!Open(l, score) \/ Promise!Extend(score)
    BY <2>1, <2>2, HitPromises
  <2> QED
    BY <2>3 DEF Promise!Next
<1>3. CASE Collect
  BY <1>3, CollectPromises DEF Promise!Next
<1>4. CASE Finalize
  BY <1>4, FinalizePromises DEF Promise!Next
<1>5. CASE FinalizeFails \/ SeeStop \/ Crash
  BY <1>5, DeathPromises DEF Promise!Next
<1>6. CASE StartWorker
  BY <1>6, StartPromises DEF Promise!Next
<1>7. CASE StoreRow \/ StoreRowFails \/ Announce
  BY <1>7, AftermathPromises
<1>8. CASE UNCHANGED vars
  <2>1. UNCHANGED <<Collected, since, Window, Saved>>
    BY <1>8 DEF vars, Collected, Window, WindowOf, FirstChunk, Saved, Record
  <2> QED
    BY <2>1 DEF Promise!vars, Window, WindowOf, Saved, Record
<1> QED
  BY <1>1, <1>2, <1>3, <1>4, <1>5, <1>6, <1>7, <1>8 DEF Next

\* Initially nothing is heard, open or saved.
LEMMA InitPromises == Init => Promise!Init
<1> SUFFICES ASSUME Init PROVE Promise!Init
  OBVIOUS
<1>1. Collected = 0 /\ since = 0 /\ Window = None
  BY DEF Init, Collected, Window
<1>2. Saved = <<>>
  BY DEF Init, Saved
<1> QED
  BY <1>1, <1>2 DEF Promise!Init, Window, WindowOf, Saved, Record

\* The recorder and the loop that feeds it implement SnippetPromise.
THEOREM RecorderKeepsPromise == Spec => KeepsPromise
BY Invariance, InitPromises, NextPromises, PTL DEF Spec, KeepsPromise, Promise!Spec

=============================================================================
