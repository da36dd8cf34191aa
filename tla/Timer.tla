-------------------------------- MODULE Timer --------------------------------
(***************************************************************************)
(* The pure timer domain: backend/src/timers/timer-domain.ts.               *)
(* An anchor is what a timer row stores; Transition is transitionTimer, and *)
(* its result says whether the anchor changed, stayed or was refused.       *)
(* Times are integers (Unix milliseconds); the code's limits are constants. *)
(***************************************************************************)
EXTENDS Integers

CONSTANTS
    Null,          \* null
    MinDuration, MaxDuration,
    MaxTime,       \* last representable time
    MaxVersion     \* last version number

ASSUME TimerAssumption ==
    /\ MinDuration \in Nat \ {0} /\ MaxDuration \in Nat
    /\ MaxTime \in Nat /\ MaxVersion \in Nat \ {0}
    /\ Null \notin Int

Time     == 0 .. MaxTime
Duration == MinDuration .. MaxDuration
TimerStatus == {"running", "paused", "completed", "cancelled"}
Command  == {"pause", "resume", "cancel", "acknowledge"}

Anchor == [version : 1 .. MaxVersion, status : TimerStatus, durationMs : Duration,
           startedAt : Time, endsAt : Time \cup {Null},
           pausedRemainingMs : Int \cup {Null}, evaluatedAt : Time,
           completedAt : Time \cup {Null}, cancelledAt : Time \cup {Null},
           acknowledgedAt : Time \cup {Null}]

(* validateAnchor *)
ValidRunning(a) ==
    /\ a.endsAt # Null
    /\ a.endsAt > a.evaluatedAt
    /\ a.endsAt - a.evaluatedAt <= a.durationMs
    /\ a.pausedRemainingMs = Null
    /\ a.completedAt = Null /\ a.cancelledAt = Null /\ a.acknowledgedAt = Null

ValidPaused(a) ==
    /\ a.endsAt = Null
    /\ a.pausedRemainingMs \in Int
    /\ a.pausedRemainingMs >= 1 /\ a.pausedRemainingMs <= a.durationMs
    /\ a.completedAt = Null /\ a.cancelledAt = Null /\ a.acknowledgedAt = Null

ValidCompleted(a) ==
    /\ a.endsAt # Null
    /\ a.endsAt > a.startedAt
    /\ a.completedAt = a.endsAt
    /\ a.evaluatedAt >= a.endsAt
    /\ a.pausedRemainingMs = Null /\ a.cancelledAt = Null
    /\ \/ a.acknowledgedAt = Null
       \/ a.acknowledgedAt >= a.endsAt /\ a.acknowledgedAt <= a.evaluatedAt

ValidCancelled(a) ==
    /\ a.endsAt = Null /\ a.pausedRemainingMs = Null
    /\ a.completedAt = Null /\ a.acknowledgedAt = Null
    /\ a.cancelledAt # Null
    /\ a.cancelledAt <= a.evaluatedAt

ValidAnchor(a) ==
    /\ a \in Anchor
    /\ a.evaluatedAt >= a.startedAt
    /\ a.endsAt # Null => a.endsAt >= a.startedAt
    /\ a.completedAt # Null => a.completedAt >= a.startedAt
    /\ a.cancelledAt # Null => a.cancelledAt >= a.startedAt
    /\ a.acknowledgedAt # Null => a.acknowledgedAt >= a.startedAt
    /\ a.status = "running" => ValidRunning(a)
    /\ a.status = "paused" => ValidPaused(a)
    /\ a.status = "completed" => ValidCompleted(a)
    /\ a.status = "cancelled" => ValidCancelled(a)

-----------------------------------------------------------------------------
(* transitionTimer(null, 'create', now, duration); now + duration is checked. *)
CanCreate(now, duration) == now \in Time /\ duration \in Duration /\ now + duration \in Time

Created(now, duration) ==
    [version |-> 1, status |-> "running", durationMs |-> duration, startedAt |-> now,
     endsAt |-> now + duration, pausedRemainingMs |-> Null, evaluatedAt |-> now,
     completedAt |-> Null, cancelledAt |-> Null, acknowledgedAt |-> Null]

(* Wall clocks may step back: a transition never happens before the last one. *)
At(a, now) == IF now > a.evaluatedAt THEN now ELSE a.evaluatedAt

(* Mutant: only a timer past its end has expired. *)
ElapsedAfter(a, at) == a.status = "running" /\ at > a.endsAt

Elapsed(a, at) == a.status = "running" /\ at >= a.endsAt

(* Mutant: a pause forgets what ran since the last transition. *)
RemainingAtLast(a, at) == a.endsAt - a.evaluatedAt

Remaining(a, at) == a.endsAt - at

(* The anchor each accepted transition leads to, before version and time. *)
Patched(a, action, at) ==
    IF Elapsed(a, at)
    THEN [a EXCEPT !.status = "completed", !.completedAt = a.endsAt,
                   !.acknowledgedAt = IF action = "acknowledge" THEN at ELSE @]
    ELSE CASE action = "pause"  -> [a EXCEPT !.status = "paused", !.endsAt = Null,
                                             !.pausedRemainingMs = Remaining(a, at)]
           [] action = "resume" -> [a EXCEPT !.status = "running", !.pausedRemainingMs = Null,
                                             !.endsAt = at + a.pausedRemainingMs]
           [] action = "cancel" -> [a EXCEPT !.status = "cancelled", !.endsAt = Null,
                                             !.pausedRemainingMs = Null, !.cancelledAt = at]
           [] action = "acknowledge" -> [a EXCEPT !.acknowledgedAt = at]

(* The commands that change a timer that has not just expired; every other    *)
(* one leaves it alone or is refused with TIMER_INVALID_TRANSITION.           *)
Changes(a, action, at) ==
    \/ action = "pause" /\ a.status = "running"
    \/ action = "resume" /\ a.status = "paused" /\ at + a.pausedRemainingMs \in Time
    \/ action = "cancel" /\ a.status \in {"running", "paused"}
    \/ action = "acknowledge" /\ a.status = "completed" /\ a.acknowledgedAt = Null

(* Expiry is reconciled before any command, and completion is a version.      *)
CanTransition(a, action, now) ==
    /\ now \in Time
    /\ a.version # MaxVersion
    /\ Elapsed(a, At(a, now)) \/ Changes(a, action, At(a, now))

Transition(a, action, now) ==
    [Patched(a, action, At(a, now)) EXCEPT !.version = @ + 1, !.evaluatedAt = At(a, now)]
=============================================================================
