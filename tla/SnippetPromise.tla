--------------------------- MODULE SnippetPromise ---------------------------
(***************************************************************************)
(* What a source's recorder promises, without buffers and countdowns: one  *)
(* window of audio at a time, from PreMax chunks before the chunk that     *)
(* opened it to PostNeeded chunks from the last chunk that matched, saved  *)
(* with its peak score when the stream reaches its end.                    *)
(***************************************************************************)
EXTENDS Integers, Sequences

CONSTANTS Labels, MaxScore, PreMax, PostNeeded, NotifyThresholdFor(_), None

VARIABLES
    heard,   \* chunks the recorder has been given
    since,   \* the chunk after which this recorder listens
    window,  \* the open window, or None
    saved    \* the snippets, in order

vars == <<heard, since, window, saved>>

Greater(a, b) == IF a >= b THEN a ELSE b

Init ==
    /\ heard = 0
    /\ since = 0
    /\ window = None
    /\ saved = <<>>

\* the next chunk matches: it opens a window, or extends that of its label
Open(label, score) ==
    /\ window = None
    /\ window' = [label  |-> label,
                  first  |-> Greater(since, heard - PreMax) + 1,
                  opened |-> heard + 1,
                  until  |-> heard + PostNeeded,
                  peak   |-> score]
    /\ UNCHANGED <<heard, since, saved>>

Extend(score) ==
    /\ window # None
    /\ window' = [window EXCEPT !.until = heard + PostNeeded,
                                !.peak  = Greater(window.peak, score)]
    /\ UNCHANGED <<heard, since, saved>>

\* the next chunk is added; the one at the window's end saves it
Hear ==
    /\ window = None \/ heard + 1 < window.until
    /\ heard' = heard + 1
    /\ UNCHANGED <<since, window, saved>>

Save ==
    /\ window # None
    /\ heard + 1 = window.until
    /\ heard' = heard + 1
    /\ saved' = Append(saved,
                  [label    |-> window.label,
                   first    |-> window.first,
                   opened   |-> window.opened,
                   last     |-> window.until,
                   peak     |-> window.peak,
                   notified |-> window.peak >= NotifyThresholdFor(window.label)])
    /\ window' = None
    /\ UNCHANGED since

\* the worker ends: the window is lost, and the chunk in hand may be
Lose ==
    /\ heard' \in {heard, heard + 1}
    /\ window' = None
    /\ UNCHANGED <<since, saved>>

\* a new recorder knows nothing of the audio before it
Begin ==
    /\ window = None
    /\ since' = heard
    /\ UNCHANGED <<heard, window, saved>>

Next ==
    \/ \E label \in Labels, score \in 1..MaxScore : Open(label, score)
    \/ \E score \in 1..MaxScore : Extend(score)
    \/ Hear
    \/ Save
    \/ Lose
    \/ Begin

Spec == Init /\ [][Next]_vars

=============================================================================
