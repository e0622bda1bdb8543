------------------------------ MODULE MCCapture ------------------------------
(* One source that listens to two of three classes: `bark` has thresholds of *)
(* its own and a band between detection and notification, `howl` has the     *)
(* defaults, `car` is not listened to but takes a place in the top classes.  *)
EXTENDS Capture

CONSTANTS bark, howl, car

MCLabels == {bark, howl, car}
MCListen == {bark, howl}
MCDetectionThresholds == [l \in {bark} |-> 1]
MCNotifyThresholds == [l \in {bark} |-> 2]

=============================================================================
