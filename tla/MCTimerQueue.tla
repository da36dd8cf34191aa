----------------------------- MODULE MCTimerQueue -----------------------------
(* Small instances of TimerQueue for TLC. *)
EXTENDS TimerQueue, TLC

MCEvent   == 1 .. MaxVersion
MCQueueOf == [e \in Event |-> "timer"]
MCLimit   == [q \in Queue |-> 1]
=============================================================================
