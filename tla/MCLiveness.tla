------------------------------ MODULE MCLiveness ------------------------------
(* What must end, ends, and no timer runs too long or again: TimerQueue,       *)
(* OutboxDomain and Playback, each on a small instance of its own that is      *)
(* chosen in the initial state, while the others stay as they are.  The .cfg   *)
(* gives TimerQueue its constants.                                             *)
EXTENDS TimerQueue, TLC

VARIABLES
    instance,                               \* which of them this behaviour is of
    state, desired, active, upsets, heard,  \* Playback, on the table of TimerQueue
    rows, jobs, held, runs, stored, applied \* OutboxDomain

tableVars    == <<outbox, clock, receipts, dueAt, backoff, run>>
timerVars    == <<timer, setBack, ran>>
playbackVars == <<state, desired, active, upsets, heard>>
outboxVars   == <<rows, jobs, held, runs, stored, applied>>

MCEvent   == 1 .. MaxVersion
MCQueueOf == [e \in Event |-> "timer"]
MCLimit   == [q \in Queue |-> 1]
MCPair    == {1, 2}
MCTimers  == [e \in MCPair |-> "timer"]
MCSameKey == [e \in MCPair |-> "k1"]
MCKeys    == {"k1", "k2"}
MCSolo    == {"d1"}

\* Two events with one effect key, a dispatcher and a slot.
Outbox == INSTANCE OutboxDomain WITH
    Event <- MCPair, QueueOf <- MCTimers, KeyOf <- MCSameKey, EffectKey <- MCKeys,
    Dispatcher <- MCSolo, None <- Null,
    outbox <- rows, run <- runs, receipts <- stored

\* A playlist of two entries.
MCEntry(item) ==
    [item |-> item, revision |-> "A", duration |-> 1]

Play == INSTANCE Playback WITH
    Event <- MCPair, QueueOf <- MCTimers,
    MaxTime <- 2, Item <- {1, 2}, Revision <- {"A"},
    Playlist <- {<<MCEntry(1), MCEntry(2)>>},
    MaxVersion <- 2, MaxClock <- 2, MaxUpsets <- 1

PlaybackIdle ==
    state = Play!NoState /\ desired = Null /\ active = TRUE /\ upsets = 0 /\ heard = Play!First

MCInit ==
    /\ Outbox!Init
    /\ \/ instance \in {"timers", "outbox"} /\ Init /\ PlaybackIdle
       \/ instance = "playback" /\ Play!Init /\ timer = Null /\ setBack = 0 /\ ran = 0

MCNext ==
    /\ UNCHANGED instance
    /\ \/ instance = "timers" /\ Next /\ UNCHANGED <<playbackVars, outboxVars>>
       \/ instance = "playback" /\ Play!Next /\ UNCHANGED <<timerVars, outboxVars>>
       \/ instance = "outbox" /\ Outbox!Next /\ UNCHANGED <<vars, playbackVars>>

(* Fairness of TimerQueue and of Playback, of the one that is checked. *)
Timed == instance = "timers" /\ UNCHANGED playbackVars
TimersFairness ==
    /\ WF_vars(Timed /\ Tick) /\ WF_vars(Timed /\ BuryExhausted)
    /\ WF_vars(Timed /\ Reconcile(FALSE))
    /\ \A e \in Event : WF_vars(Timed /\ RowStep(e))
    /\ WF_vars(Timed /\ \E s \in Slot : StartRun(s))
    /\ \A s \in Slot : WF_vars(Timed /\ Ends(s))

playing == <<tableVars, playbackVars>>
Played  == instance = "playback" /\ UNCHANGED timerVars
PlaybackFairness ==
    /\ WF_playing(Played /\ Play!Tick) /\ WF_playing(Played /\ Play!BuryExhausted)
    /\ \A e \in MCPair : WF_playing(Played /\ Play!RowStep(e))
    /\ WF_playing(Played /\ \E s \in Slot : Play!StartRun(s))
    /\ \A s \in Slot : WF_playing(Played /\ Play!Ends(s))

MCSpec ==
    /\ MCInit
    /\ [][MCNext]_<<instance, tableVars, timerVars, playbackVars, outboxVars>>
    /\ TimersFairness /\ PlaybackFairness /\ Outbox!DispatchFairness

(* Playback goes on: a version that has an end passes, or its transition is   *)
(* dead-lettered (Playback).                                                  *)
PlaybackGoesOn == Play!PlaybackGoesOn

(* Every event that is produced is delivered or dead-lettered in the end,     *)
(* whatever is lost or crashes on the way (OutboxDomain).                     *)
EventuallySettled == Outbox!EventuallySettled

(* Table, dispatcher and handler implement OutboxContract with its fairness:  *)
(* one effect per key, delivered after it, and a final report for each event. *)
ImplementsContract == Outbox!ImplementsContract
===============================================================================
