--------------------------- MODULE MCCaptureSession ---------------------------
(* Instances of CaptureSession for TLC: capture definitions of each kind.   *)
EXTENDS CaptureSession

OnCondition == [alwaysOn |-> FALSE, modes |-> {"onChange", "summary"}, timeout |-> TRUE,
                triggerStart |-> FALSE, triggerStop |-> FALSE]
AlwaysOn    == [OnCondition EXCEPT !.alwaysOn = TRUE, !.triggerStart = TRUE, !.timeout = FALSE]
ByTrigger   == [OnCondition EXCEPT !.modes = {"interval"}, !.triggerStart = TRUE, !.triggerStop = TRUE]
SingleShot  == [OnCondition EXCEPT !.modes = {"singleShot"}, !.alwaysOn = TRUE]
Timed       == [OnCondition EXCEPT !.modes = {"summary", "interval"}]

AnyDefinition == {AlwaysOn, ByTrigger, SingleShot}
TimedOnly     == {Timed}
=============================================================================
