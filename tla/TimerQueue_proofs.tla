-------------------------- MODULE TimerQueue_proofs --------------------------
(***************************************************************************)
(* Theorems about TimerQueue, for every duration, version limit, number of  *)
(* workers and sequence of clock readings: the stored timer always passes   *)
(* validateAnchor, it runs for exactly its duration, and an end that has    *)
(* come is never taken back.                                                *)
(*                                                                          *)
(* The three go together.  That a pause leaves a remainder of at least one, *)
(* and that a resumed timer ends after it started, follow from the anchor   *)
(* being valid; that what ran and what is left add up needs both ends of    *)
(* each span to be times of the timer itself, which is what At gives.       *)
(***************************************************************************)
EXTENDS TimerQueue, OutboxStore_proofs

-----------------------------------------------------------------------------
(* The pure timer domain: a transition of a valid anchor is valid again, for    *)
(* every duration, time and version, however far the wall clock was set back    *)
(* before it.                                                                   *)

(* Time as a transition sees it does not go back. *)
LEMMA AtMonotone ==
    ASSUME NEW a, ValidAnchor(a), NEW now \in Time
    PROVE  At(a, now) \in Time /\ At(a, now) >= a.evaluatedAt /\ At(a, now) >= now
BY TimerAssumption DEF At, ValidAnchor, Anchor, Time

(* A new timer is valid. *)
THEOREM CreatedValid ==
    ASSUME NEW now, NEW duration, CanCreate(now, duration)
    PROVE  ValidAnchor(Created(now, duration))
<1> DEFINE a == Created(now, duration)
<1>1. /\ now \in Int /\ duration \in Int /\ duration > 0
      /\ now \in Time /\ now + duration \in Time /\ now + duration \in Int
      /\ duration \in Duration /\ 1 \in 1 .. MaxVersion
  BY TimerAssumption DEF CanCreate, Time, Duration
<1>2. /\ a.version = 1 /\ a.status = "running" /\ a.durationMs = duration
      /\ a.startedAt = now /\ a.endsAt = now + duration /\ a.evaluatedAt = now
      /\ a.pausedRemainingMs = Null /\ a.completedAt = Null
      /\ a.cancelledAt = Null /\ a.acknowledgedAt = Null
  BY DEF Created
<1>3. a \in Anchor
  BY <1>1 DEF Created, Anchor, TimerStatus
<1>4. now + duration # Null
  BY <1>1, TimerAssumption
<1> HIDE DEF a
<1>5. ValidRunning(a)
  BY <1>1, <1>2, <1>4 DEF ValidRunning
<1>6. ValidAnchor(a)
  BY <1>1, <1>2, <1>3, <1>5 DEF ValidAnchor
<1> QED BY <1>6 DEF a

-----------------------------------------------------------------------------
(* What the cases below share: p is what a becomes, b is p at its own time. *)
Step(a, p, b, t) ==
    /\ ValidAnchor(a) /\ a.version # MaxVersion
    /\ t \in Time /\ t >= a.evaluatedAt
    /\ b = [p EXCEPT !.version = @ + 1, !.evaluatedAt = t]

Typed(a, t) ==
    /\ a \in Anchor /\ a.version # MaxVersion /\ t \in Time /\ t \in Int
    /\ a.durationMs \in Int /\ a.startedAt \in Int /\ a.evaluatedAt \in Int
    /\ a.startedAt <= a.evaluatedAt /\ a.evaluatedAt <= t
    /\ a.endsAt # Null => a.endsAt \in Time /\ a.endsAt \in Int
    /\ Null \notin Int /\ Null \notin Time

LEMMA StepTypes ==
    ASSUME NEW a, NEW p, NEW b, NEW t, Step(a, p, b, t)
    PROVE  Typed(a, t)
BY TimerAssumption DEF Typed, Step, ValidAnchor, Anchor, Time, Duration

(* A transition puts the patch under a new version at its own time. *)
Dated(p, b, t) ==
    /\ b \in Anchor
    /\ b.evaluatedAt = t
    /\ b.status = p.status /\ b.durationMs = p.durationMs
    /\ b.startedAt = p.startedAt /\ b.endsAt = p.endsAt
    /\ b.pausedRemainingMs = p.pausedRemainingMs
    /\ b.completedAt = p.completedAt /\ b.cancelledAt = p.cancelledAt
    /\ b.acknowledgedAt = p.acknowledgedAt

LEMMA Versioned ==
    ASSUME NEW a, NEW p, NEW b, NEW t, Step(a, p, b, t),
           p \in Anchor, p.version = a.version
    PROVE  Dated(p, b, t)
<1> DEFINE v == a.version + 1
<1>1. Typed(a, t)
  BY StepTypes
<1>2. v \in 1 .. MaxVersion
  BY <1>1, TimerAssumption DEF Typed, Anchor
<1>3. b = [p EXCEPT !.version = v, !.evaluatedAt = t]
  BY DEF Step
<1>4. t \in Time
  BY <1>1 DEF Typed
<1> HIDE DEF v
<1> QED BY <1>2, <1>3, <1>4 DEF Dated, Anchor

(* A running timer whose end has come is completed, whatever was asked. *)
LEMMA CompletedValid ==
    ASSUME NEW a, NEW p, NEW b, NEW t, Step(a, p, b, t), Elapsed(a, t),
           NEW k \in {Null, t},
           p = [a EXCEPT !.status = "completed", !.completedAt = a.endsAt,
                         !.acknowledgedAt = k]
    PROVE  ValidAnchor(b) /\ Dated(p, b, t)
<1>0. Typed(a, t)
  BY StepTypes
<1> USE <1>0 DEF Typed
<1>1. ValidRunning(a) /\ t >= a.endsAt /\ a.endsAt # Null
  BY DEF Elapsed, Step, ValidAnchor, ValidRunning
<1>2. /\ a.endsAt \in Time /\ a.endsAt \in Int /\ a.endsAt > a.startedAt
      /\ a.pausedRemainingMs = Null /\ a.cancelledAt = Null
  BY <1>1 DEF ValidRunning
<1>3. /\ p \in Anchor /\ p.version = a.version /\ p.status = "completed"
      /\ p.completedAt = a.endsAt /\ p.acknowledgedAt = k /\ p.startedAt = a.startedAt
      /\ p.endsAt = a.endsAt /\ p.pausedRemainingMs = Null /\ p.cancelledAt = Null
  BY <1>1, <1>2 DEF Anchor, TimerStatus
<1>9. Dated(p, b, t)
  BY <1>3, Versioned
<1>4. /\ b \in Anchor /\ b.evaluatedAt = t /\ b.status = "completed"
      /\ b.completedAt = a.endsAt /\ b.acknowledgedAt = k /\ b.startedAt = a.startedAt
      /\ b.endsAt = a.endsAt /\ b.pausedRemainingMs = Null /\ b.cancelledAt = Null
  BY <1>3, <1>9 DEF Dated
<1>5. ValidCompleted(b)
  BY <1>1, <1>2, <1>4 DEF ValidCompleted
<1> QED BY <1>1, <1>2, <1>4, <1>5, <1>9 DEF ValidAnchor

(* A running timer is paused with what is left of it. *)
LEMMA PausedValid ==
    ASSUME NEW a, NEW p, NEW b, NEW t, Step(a, p, b, t), a.status = "running",
           ~Elapsed(a, t),
           p = [a EXCEPT !.status = "paused", !.endsAt = Null,
                         !.pausedRemainingMs = Remaining(a, t)]
    PROVE  ValidAnchor(b) /\ Dated(p, b, t)
<1>0. Typed(a, t)
  BY StepTypes
<1> USE <1>0 DEF Typed
<1>1. ValidRunning(a) /\ a.endsAt # Null
  BY DEF Step, ValidAnchor, ValidRunning
<1>2. /\ a.endsAt \in Int /\ t < a.endsAt
      /\ a.endsAt - a.evaluatedAt <= a.durationMs
      /\ a.completedAt = Null /\ a.cancelledAt = Null /\ a.acknowledgedAt = Null
  BY <1>1 DEF ValidRunning, Elapsed
<1> DEFINE rest == Remaining(a, t)
<1>3. rest \in Int /\ rest >= 1 /\ rest <= a.durationMs
  BY <1>2 DEF Remaining
<1> HIDE DEF rest
<1>4. /\ p \in Anchor /\ p.version = a.version /\ p.status = "paused"
      /\ p.endsAt = Null /\ p.pausedRemainingMs = rest /\ p.startedAt = a.startedAt
      /\ p.durationMs = a.durationMs
      /\ p.completedAt = Null /\ p.cancelledAt = Null /\ p.acknowledgedAt = Null
  BY <1>2, <1>3 DEF Anchor, TimerStatus, rest
<1>9. Dated(p, b, t)
  BY <1>4, Versioned
<1>5. /\ b \in Anchor /\ b.evaluatedAt = t /\ b.status = "paused"
      /\ b.endsAt = Null /\ b.pausedRemainingMs = rest /\ b.startedAt = a.startedAt
      /\ b.durationMs = a.durationMs
      /\ b.completedAt = Null /\ b.cancelledAt = Null /\ b.acknowledgedAt = Null
  BY <1>4, <1>9 DEF Dated
<1>6. ValidPaused(b)
  BY <1>3, <1>5 DEF ValidPaused
<1> QED BY <1>5, <1>6, <1>9 DEF ValidAnchor

(* A paused timer goes on for what was left. *)
LEMMA ResumedValid ==
    ASSUME NEW a, NEW p, NEW b, NEW t, Step(a, p, b, t), a.status = "paused",
           t + a.pausedRemainingMs \in Time,
           p = [a EXCEPT !.status = "running", !.pausedRemainingMs = Null,
                         !.endsAt = t + a.pausedRemainingMs]
    PROVE  ValidAnchor(b) /\ Dated(p, b, t)
<1>0. Typed(a, t)
  BY StepTypes
<1> USE <1>0 DEF Typed
<1>1. ValidPaused(a)
  BY DEF Step, ValidAnchor
<1> DEFINE end == t + a.pausedRemainingMs
<1>2. /\ end \in Time /\ end \in Int /\ end > t /\ end - t <= a.durationMs /\ end # Null
      /\ a.completedAt = Null /\ a.cancelledAt = Null /\ a.acknowledgedAt = Null
  BY <1>1 DEF ValidPaused
<1>3. p = [a EXCEPT !.status = "running", !.pausedRemainingMs = Null, !.endsAt = end]
  OBVIOUS
<1> HIDE DEF end
<1>4. /\ p \in Anchor /\ p.version = a.version /\ p.status = "running"
      /\ p.endsAt = end /\ p.pausedRemainingMs = Null /\ p.startedAt = a.startedAt
      /\ p.durationMs = a.durationMs
      /\ p.completedAt = Null /\ p.cancelledAt = Null /\ p.acknowledgedAt = Null
  BY <1>2, <1>3 DEF Anchor, TimerStatus
<1>9. Dated(p, b, t)
  BY <1>4, Versioned
<1>5. /\ b \in Anchor /\ b.evaluatedAt = t /\ b.status = "running"
      /\ b.endsAt = end /\ b.pausedRemainingMs = Null /\ b.startedAt = a.startedAt
      /\ b.durationMs = a.durationMs
      /\ b.completedAt = Null /\ b.cancelledAt = Null /\ b.acknowledgedAt = Null
  BY <1>4, <1>9 DEF Dated
<1>6. ValidRunning(b)
  BY <1>2, <1>5 DEF ValidRunning
<1> QED BY <1>2, <1>5, <1>6, <1>9 DEF ValidAnchor

(* A timer that has not ended is cancelled. *)
LEMMA CancelledValid ==
    ASSUME NEW a, NEW p, NEW b, NEW t, Step(a, p, b, t),
           a.status \in {"running", "paused"},
           p = [a EXCEPT !.status = "cancelled", !.endsAt = Null,
                         !.pausedRemainingMs = Null, !.cancelledAt = t]
    PROVE  ValidAnchor(b) /\ Dated(p, b, t)
<1>0. Typed(a, t)
  BY StepTypes
<1> USE <1>0 DEF Typed
<1>1. a.completedAt = Null /\ a.acknowledgedAt = Null
  BY DEF Step, ValidAnchor, ValidRunning, ValidPaused
<1>2. /\ p \in Anchor /\ p.version = a.version /\ p.status = "cancelled"
      /\ p.endsAt = Null /\ p.pausedRemainingMs = Null /\ p.startedAt = a.startedAt
      /\ p.completedAt = Null /\ p.cancelledAt = t /\ p.acknowledgedAt = Null
  BY <1>1 DEF Anchor, TimerStatus
<1>9. Dated(p, b, t)
  BY <1>2, Versioned
<1>3. /\ b \in Anchor /\ b.evaluatedAt = t /\ b.status = "cancelled"
      /\ b.endsAt = Null /\ b.pausedRemainingMs = Null /\ b.startedAt = a.startedAt
      /\ b.completedAt = Null /\ b.cancelledAt = t /\ b.acknowledgedAt = Null
  BY <1>2, <1>9 DEF Dated
<1>4. ValidCancelled(b)
  BY <1>3 DEF ValidCancelled
<1> QED BY <1>3, <1>4, <1>9 DEF ValidAnchor

(* A completed timer is acknowledged. *)
LEMMA AcknowledgedValid ==
    ASSUME NEW a, NEW p, NEW b, NEW t, Step(a, p, b, t), a.status = "completed",
           p = [a EXCEPT !.acknowledgedAt = t]
    PROVE  ValidAnchor(b) /\ Dated(p, b, t)
<1>0. Typed(a, t)
  BY StepTypes
<1> USE <1>0 DEF Typed
<1>1. ValidCompleted(a) /\ a.endsAt # Null
  BY DEF Step, ValidAnchor, ValidCompleted
<1>2. /\ a.endsAt \in Int /\ a.endsAt > a.startedAt /\ t >= a.endsAt
      /\ a.completedAt = a.endsAt
      /\ a.pausedRemainingMs = Null /\ a.cancelledAt = Null
  BY <1>1 DEF ValidCompleted
<1>3. /\ p \in Anchor /\ p.version = a.version /\ p.status = "completed"
      /\ p.completedAt = a.endsAt /\ p.acknowledgedAt = t /\ p.startedAt = a.startedAt
      /\ p.endsAt = a.endsAt /\ p.pausedRemainingMs = Null /\ p.cancelledAt = Null
  BY <1>2 DEF Anchor, TimerStatus
<1>9. Dated(p, b, t)
  BY <1>3, Versioned
<1>4. /\ b \in Anchor /\ b.evaluatedAt = t /\ b.status = "completed"
      /\ b.completedAt = a.endsAt /\ b.acknowledgedAt = t /\ b.startedAt = a.startedAt
      /\ b.endsAt = a.endsAt /\ b.pausedRemainingMs = Null /\ b.cancelledAt = Null
  BY <1>3, <1>9 DEF Dated
<1>5. ValidCompleted(b)
  BY <1>1, <1>2, <1>4 DEF ValidCompleted
<1> QED BY <1>1, <1>2, <1>4, <1>5, <1>9 DEF ValidAnchor

(* transitionTimer never turns a valid anchor into one that validateAnchor    *)
(* would refuse the next time.                                                *)
THEOREM TransitionValid ==
    ASSUME NEW a, ValidAnchor(a), NEW action \in Command \cup {"complete"}, NEW now,
           CanTransition(a, action, now)
    PROVE  /\ ValidAnchor(Transition(a, action, now))
           /\ Dated(Patched(a, action, At(a, now)), Transition(a, action, now), At(a, now))
<1> DEFINE t == At(a, now)
           p == Patched(a, action, t)
           b == Transition(a, action, now)
<1> SUFFICES ValidAnchor(b) /\ Dated(p, b, t)
  OBVIOUS
<1>1. Step(a, p, b, t)
  BY AtMonotone DEF CanTransition, Transition, Step
<1>2. CASE Elapsed(a, t)
  <2> DEFINE k == IF action = "acknowledge" THEN t ELSE a.acknowledgedAt
  <2>1. a.acknowledgedAt = Null
    BY <1>2 DEF Elapsed, ValidAnchor, ValidRunning
  <2>2. /\ k \in {Null, t}
        /\ p = [a EXCEPT !.status = "completed", !.completedAt = a.endsAt,
                         !.acknowledgedAt = k]
    BY <1>2, <2>1 DEF Patched
  <2> HIDE DEF k, p, b, t
  <2> QED BY <1>1, <1>2, <2>2, CompletedValid
<1>3. CASE ~Elapsed(a, t)
  <2>1. Changes(a, action, t)
    BY <1>3 DEF CanTransition
  <2>2. CASE action = "pause"
    <3>1. /\ a.status = "running"
          /\ p = [a EXCEPT !.status = "paused", !.endsAt = Null,
                           !.pausedRemainingMs = Remaining(a, t)]
      BY <1>3, <2>1, <2>2 DEF Changes, Patched
    <3> HIDE DEF p, b, t
    <3> QED BY <1>1, <1>3, <3>1, PausedValid
  <2>3. CASE action = "resume"
    <3>1. /\ a.status = "paused" /\ t + a.pausedRemainingMs \in Time
          /\ p = [a EXCEPT !.status = "running", !.pausedRemainingMs = Null,
                           !.endsAt = t + a.pausedRemainingMs]
      BY <1>3, <2>1, <2>3 DEF Changes, Patched
    <3> HIDE DEF p, b, t
    <3> QED BY <1>1, <3>1, ResumedValid
  <2>4. CASE action = "cancel"
    <3>1. /\ a.status \in {"running", "paused"}
          /\ p = [a EXCEPT !.status = "cancelled", !.endsAt = Null,
                           !.pausedRemainingMs = Null, !.cancelledAt = t]
      BY <1>3, <2>1, <2>4 DEF Changes, Patched
    <3> HIDE DEF p, b, t
    <3> QED BY <1>1, <3>1, CancelledValid
  <2>5. CASE action = "acknowledge"
    <3>1. a.status = "completed" /\ p = [a EXCEPT !.acknowledgedAt = t]
      BY <1>3, <2>1, <2>5 DEF Changes, Patched
    <3> HIDE DEF p, b, t
    <3> QED BY <1>1, <3>1, AcknowledgedValid
  <2> QED BY <2>1, <2>2, <2>3, <2>4, <2>5 DEF Changes
<1> QED BY <1>2, <1>3

-----------------------------------------------------------------------------
(* The stored timer. *)

TimerInv ==
    \/ timer = Null /\ ran = 0
    \/ /\ timer # Null /\ ValidAnchor(timer)
       /\ ran \in Int
       /\ Conserved(timer, ran)

(* A transition of a valid anchor moves what ran into what is done. *)
LEMMA TransitionConserves ==
    ASSUME NEW a, ValidAnchor(a), NEW r \in Int, Conserved(a, r),
           NEW action \in Command \cup {"complete"}, NEW now,
           CanTransition(a, action, now)
    PROVE  LET b == Transition(a, action, now) IN
           r + Span(a, b) \in Int /\ Conserved(b, r + Span(a, b))
<1> DEFINE t == At(a, now)
           p == Patched(a, action, t)
           b == Transition(a, action, now)
<1> SUFFICES r + Span(a, b) \in Int /\ Conserved(b, r + Span(a, b))
  OBVIOUS
<1>1. ValidAnchor(b) /\ Dated(p, b, t)
  BY TransitionValid
<1>2. Typed(a, t)
  <2>1. a.version # MaxVersion /\ now \in Time
    BY DEF CanTransition
  <2>2. Step(a, p, b, t)
    BY <2>1, AtMonotone DEF Step, Transition
  <2> HIDE DEF t, p, b
  <2> QED BY <2>2, StepTypes
<1>3. Elapsed(a, t) \/ Changes(a, action, t)
  BY DEF CanTransition
<1>4. CASE Elapsed(a, t)
  <2>1. /\ a.status = "running" /\ ValidRunning(a) /\ a.endsAt \in Int
    BY <1>2, <1>4 DEF Elapsed, ValidAnchor, ValidRunning, Typed
  <2>2. p.status = "completed" /\ p.endsAt = a.endsAt /\ p.durationMs = a.durationMs
    BY <1>2, <1>4 DEF Patched, Typed, Anchor
  <2> HIDE DEF t, p, b
  <2>3. b.status = "completed" /\ b.endsAt = a.endsAt /\ b.durationMs = a.durationMs
    BY <1>1, <2>2 DEF Dated
  <2>4. Span(a, b) = a.endsAt - a.evaluatedAt
    BY <2>1, <2>3 DEF Span
  <2>5. r + a.endsAt - a.evaluatedAt = a.durationMs
    BY <2>1 DEF Conserved
  <2> QED BY <1>2, <2>1, <2>3, <2>4, <2>5 DEF Conserved, Typed
<1>5. CASE ~Elapsed(a, t) /\ action = "pause"
  <2>1. /\ a.status = "running" /\ ValidRunning(a) /\ a.endsAt \in Int
    BY <1>2, <1>3, <1>5 DEF Changes, ValidAnchor, ValidRunning, Typed
  <2>2. /\ p.status = "paused" /\ p.pausedRemainingMs = a.endsAt - t
        /\ p.durationMs = a.durationMs
    BY <1>2, <1>5 DEF Patched, Remaining, Typed, Anchor
  <2> HIDE DEF t, p, b
  <2>3. /\ b.status = "paused" /\ b.pausedRemainingMs = a.endsAt - t
        /\ b.durationMs = a.durationMs /\ b.evaluatedAt = t
    BY <1>1, <2>2 DEF Dated
  <2>4. Span(a, b) = t - a.evaluatedAt
    BY <2>1, <2>3 DEF Span
  <2>5. r + a.endsAt - a.evaluatedAt = a.durationMs
    BY <2>1 DEF Conserved
  <2> QED BY <1>2, <2>1, <2>3, <2>4, <2>5 DEF Conserved, Typed
<1>6. CASE ~Elapsed(a, t) /\ action = "resume"
  <2>1. /\ a.status = "paused" /\ a.pausedRemainingMs \in Int
    BY <1>2, <1>3, <1>6 DEF Changes, ValidAnchor, ValidPaused
  <2>2. /\ p.status = "running" /\ p.endsAt = t + a.pausedRemainingMs
        /\ p.durationMs = a.durationMs
    BY <1>2, <1>6 DEF Patched, Typed, Anchor
  <2> HIDE DEF t, p, b
  <2>3. /\ b.status = "running" /\ b.endsAt = t + a.pausedRemainingMs
        /\ b.durationMs = a.durationMs /\ b.evaluatedAt = t
    BY <1>1, <2>2 DEF Dated
  <2>4. Span(a, b) = 0
    BY <2>1 DEF Span
  <2>5. r + a.pausedRemainingMs = a.durationMs
    BY <2>1 DEF Conserved
  <2> QED BY <1>2, <2>1, <2>3, <2>4, <2>5 DEF Conserved, Typed
<1>7. CASE ~Elapsed(a, t) /\ action = "cancel"
  <2>1. p.status = "cancelled" /\ p.durationMs = a.durationMs
    BY <1>2, <1>7 DEF Patched, Typed, Anchor
  <2>2. b.status = "cancelled" /\ b.durationMs = a.durationMs /\ b.evaluatedAt = t
    <3> HIDE DEF t, p, b
    <3> QED BY <1>1, <2>1 DEF Dated
  <2>3. CASE a.status = "running"
    <3>1. /\ ValidRunning(a) /\ a.endsAt \in Int /\ t < a.endsAt
          /\ a.endsAt - a.evaluatedAt <= a.durationMs
      BY <1>2, <1>7, <2>3 DEF ValidAnchor, ValidRunning, Typed, Elapsed
    <3> HIDE DEF t, p, b
    <3>2. Span(a, b) = t - a.evaluatedAt
      BY <2>2, <2>3 DEF Span
    <3>3. r + a.endsAt - a.evaluatedAt = a.durationMs
      BY <2>3 DEF Conserved
    <3> QED BY <1>2, <2>2, <3>1, <3>2, <3>3 DEF Conserved, Typed
  <2>4. CASE a.status = "paused"
    <3>1. /\ a.pausedRemainingMs \in Int /\ a.pausedRemainingMs >= 1
          /\ a.pausedRemainingMs <= a.durationMs
      BY <2>4 DEF ValidAnchor, ValidPaused
    <3> HIDE DEF t, p, b
    <3>2. Span(a, b) = 0
      BY <2>4 DEF Span
    <3>3. r + a.pausedRemainingMs = a.durationMs
      BY <2>4 DEF Conserved
    <3> QED BY <1>2, <2>2, <3>1, <3>2, <3>3 DEF Conserved, Typed
  <2> QED BY <1>3, <1>7, <2>3, <2>4 DEF Changes
<1>8. CASE ~Elapsed(a, t) /\ action = "acknowledge"
  <2>1. a.status = "completed"
    BY <1>3, <1>8 DEF Changes
  <2>2. p.status = "completed" /\ p.durationMs = a.durationMs
    BY <1>2, <1>8, <2>1 DEF Patched, Typed, Anchor
  <2> HIDE DEF t, p, b
  <2>3. b.status = "completed" /\ b.durationMs = a.durationMs
    BY <1>1, <2>2 DEF Dated
  <2>4. Span(a, b) = 0
    BY <2>1 DEF Span
  <2> QED BY <2>1, <2>3, <2>4 DEF Conserved
<1> QED BY <1>3, <1>4, <1>5, <1>6, <1>7, <1>8 DEF Changes
-----------------------------------------------------------------------------
(* The row of the timer changes by a transition at the clock, or not at all. *)
Transacted(action) ==
    /\ timer # Null
    /\ CanTransition(timer, action, clock)
    /\ timer' = Transition(timer, action, clock)
    /\ ran' = ran + Span(timer, timer')

LEMMA StepsOfTheTimer ==
    ASSUME [Next]_vars
    PROVE  \/ UNCHANGED <<timer, ran>>
           \/ /\ timer = Null /\ CanCreate(clock, Duration1) /\ UNCHANGED ran
              /\ timer' = Created(clock, Duration1)
           \/ \E action \in Command \cup {"complete"} : Transacted(action)
<1>1. CASE UNCHANGED vars
  BY <1>1 DEF vars
<1>2. CASE Create
  BY <1>2 DEF Create
<1>3. ASSUME NEW action \in Command, Mutate(action)
      PROVE  Transacted(action)
  BY <1>3 DEF Mutate, Move, Transacted
<1>4. CASE Tick \/ SetBack \/ BuryExhausted
  BY <1>4 DEF Tick, SetBack, BuryExhausted
<1>5. ASSUME NEW e \in Event, RowStep(e) \/ Retain(e)
      PROVE  UNCHANGED <<timer, ran>>
  BY <1>5 DEF RowStep, Retain
<1>6. ASSUME NEW s \in Slot, CompleteDue(s)
      PROVE  Transacted("complete")
  BY <1>6 DEF CompleteDue, Current, Move, Transacted
<1>7. ASSUME NEW s \in Slot, WorkerStep(s), ~CompleteDue(s)
      PROVE  UNCHANGED <<timer, ran>>
  BY <1>7 DEF WorkerStep, StartRun, SkipDue, FindEarly, DeferEarly, AckRun, FailRun,
              CrashRun, EndRun
<1>8. ASSUME NEW recover \in BOOLEAN, Reconcile(recover)
      PROVE  UNCHANGED <<timer, ran>>
  BY <1>8 DEF Reconcile
<1> QED BY <1>1, <1>2, <1>3, <1>4, <1>5, <1>6, <1>7, <1>8 DEF Next

(* The invariant the theorems rest on. *)
LEMMA TimerInvHolds == Safe => []TimerInv
<1>1. Init => TimerInv
  BY DEF Init, TimerInv
<1>2. TimerInv /\ [Next]_vars => TimerInv'
  <2> SUFFICES ASSUME TimerInv, [Next]_vars PROVE TimerInv'
    OBVIOUS
  <2>1. CASE UNCHANGED <<timer, ran>>
    BY <2>1 DEF TimerInv
  <2>2. CASE /\ timer = Null /\ CanCreate(clock, Duration1) /\ UNCHANGED ran
             /\ timer' = Created(clock, Duration1)
    <3> DEFINE b == Created(clock, Duration1)
    <3>1. ValidAnchor(b)
      BY <2>2, CreatedValid
    <3>2. b \in Anchor /\ b # Null
      BY <3>1, TimerQueueAssumption DEF ValidAnchor
    <3>3. /\ ran' = 0 /\ timer' = b
      BY <2>2 DEF TimerInv
    <3>4. clock \in Int /\ Duration1 \in Int
      BY <2>2, TimerAssumption DEF CanCreate, Time, Duration
    <3>5. /\ b.status = "running" /\ b.durationMs = Duration1
          /\ b.endsAt = clock + Duration1 /\ b.evaluatedAt = clock
      BY DEF Created
    <3> HIDE DEF b
    <3>6. Conserved(b, 0)
      BY <3>4, <3>5 DEF Conserved
    <3> QED BY <3>1, <3>2, <3>3, <3>6 DEF TimerInv
  <2>3. ASSUME NEW action \in Command \cup {"complete"}, Transacted(action)
        PROVE  TimerInv'
    <3> DEFINE b == Transition(timer, action, clock)
    <3>1. ValidAnchor(timer) /\ ran \in Int /\ Conserved(timer, ran)
      BY <2>3 DEF TimerInv, Transacted
    <3>2. CanTransition(timer, action, clock)
      BY <2>3 DEF Transacted
    <3>3. ValidAnchor(b)
      BY <3>1, <3>2, TransitionValid
    <3>4. ran + Span(timer, b) \in Int /\ Conserved(b, ran + Span(timer, b))
      BY <3>1, <3>2, TransitionConserves
    <3>5. timer' = b /\ ran' = ran + Span(timer, b)
      BY <2>3 DEF Transacted
    <3>6. b # Null
      BY <3>3, TimerQueueAssumption DEF ValidAnchor
    <3> HIDE DEF b
    <3> QED BY <3>3, <3>4, <3>5, <3>6 DEF TimerInv
  <2> QED BY <2>1, <2>2, <2>3, StepsOfTheTimer
<1> QED BY <1>1, <1>2, PTL DEF Safe

(* A stored timer always passes validateAnchor. *)
THEOREM StoredTimerValid == Safe => [](timer # Null => ValidAnchor(timer))
<1>1. TimerInv => (timer # Null => ValidAnchor(timer))
  BY DEF TimerInv
<1> QED BY <1>1, TimerInvHolds, PTL

(* A timer runs for exactly its duration, whatever pauses it, resumes it, and *)
(* sets the clock back meanwhile.                                             *)
THEOREM DurationKept == Safe => []TimeConserved
<1>1. TimerInv => TimeConserved
  BY DEF TimerInv, TimeConserved
<1> QED BY <1>1, TimerInvHolds, PTL
-----------------------------------------------------------------------------
(* What a transition may do to the status. *)
LEMMA EndIsFinal ==
    ASSUME NEW a, ValidAnchor(a), NEW action \in Command \cup {"complete"}, NEW now,
           CanTransition(a, action, now)
    PROVE  LET b == Transition(a, action, now) IN
           /\ a.status \in {"completed", "cancelled"} => b.status = a.status
           /\ a.status = "running" /\ b.status = "completed" => now >= a.endsAt
           /\ a.status = "running" /\ now >= a.endsAt
                 => b.status = "completed" /\ b.completedAt = a.endsAt
<1> DEFINE t == At(a, now)
           p == Patched(a, action, t)
           b == Transition(a, action, now)
<1>1. b.status = p.status /\ b.completedAt = p.completedAt
  BY TransitionValid DEF Dated
<1>2. /\ now \in Int /\ a.evaluatedAt \in Int
      /\ a.status = "running" => a.endsAt \in Int /\ a.endsAt > a.evaluatedAt
  BY TimerAssumption DEF CanTransition, ValidAnchor, ValidRunning, Anchor, Time
<1>3. a.status = "running" => (t >= a.endsAt <=> now >= a.endsAt)
  BY <1>2 DEF At
<1>4. CASE Elapsed(a, t)
  <2>1. a.status = "running" /\ now >= a.endsAt
    BY <1>3, <1>4 DEF Elapsed
  <2>2. p.status = "completed" /\ p.completedAt = a.endsAt
    BY <1>4 DEF Patched, ValidAnchor, Anchor
  <2> HIDE DEF t, p, b
  <2> QED BY <1>1, <2>1, <2>2 DEF b
<1>5. CASE ~Elapsed(a, t)
  <2>1. Changes(a, action, t)
    BY <1>5 DEF CanTransition
  <2>2. a.status = "running" => ~(now >= a.endsAt)
    BY <1>3, <1>5 DEF Elapsed
  <2>3. a.status = "running" => p.status \in {"paused", "cancelled"}
    BY <1>5, <2>1 DEF Changes, Patched, ValidAnchor, Anchor
  <2>4. a.status \in {"completed", "cancelled"} => p.status = a.status
    BY <1>5, <2>1 DEF Changes, Patched, ValidAnchor, Anchor
  <2> HIDE DEF t, p, b
  <2> QED BY <1>1, <2>2, <2>3, <2>4 DEF b
<1> QED BY <1>4, <1>5

(* Elapsed time is never revived, cancelled or completed early. *)
THEOREM EndKept == Safe => NoRevival
<1> DEFINE Kept == timer # Null =>
          /\ timer.status \in {"completed", "cancelled"} => timer'.status = timer.status
          /\ timer.status = "running" /\ timer'.status = "completed" => clock >= timer.endsAt
          /\ timer.status = "running" /\ clock >= timer.endsAt /\ timer' # timer
                => timer'.status = "completed" /\ timer'.completedAt = timer.endsAt
<1>1. TimerInv /\ [Next]_vars => [Kept]_vars
  <2> SUFFICES ASSUME TimerInv, [Next]_vars, timer # Null PROVE Kept
    OBVIOUS
  <2>1. ValidAnchor(timer)
    BY DEF TimerInv
  <2>2. CASE UNCHANGED <<timer, ran>>
    BY <2>2
  <2>3. ASSUME NEW action \in Command \cup {"complete"}, Transacted(action)
        PROVE  Kept
    <3>1. CanTransition(timer, action, clock) /\ timer' = Transition(timer, action, clock)
      BY <2>3 DEF Transacted
    <3> QED BY <2>1, <3>1, EndIsFinal
  <2> QED BY <2>2, <2>3, StepsOfTheTimer
<1> QED BY <1>1, TimerInvHolds, PTL DEF Safe, NoRevival
-----------------------------------------------------------------------------
(* The deadline of the current version.                                       *)

Run    == [e : Event, t : Nat, n : Nat, pc : {"loaded", "early", "done"}]
Latest == IF timer = Null THEN 0 ELSE timer.version

(* Rows of versions to come do not exist; the current one is of no receipt.    *)
Numbered ==
    /\ Latest \in Nat
    /\ \A e \in Event : e > Latest => outbox[e].status = "absent"

Waiting ==
    \A e \in Event : Current(e) =>
        outbox[e].status # "delivered" /\ dueAt[e] = timer.endsAt

Receipted == \A e \in receipts : e \in Event /\ e <= Latest /\ ~Current(e)

Running ==
    /\ run \in [Slot -> Run \cup {Null}]
    /\ \A s \in Slot : run[s] # Null =>
          run[s].e \in Event /\ (run[s].pc = "done" => run[s].e \in receipts)

DeadlineInv ==
    /\ Table /\ dueAt \in [Event -> Time]
    /\ Numbered /\ Waiting /\ Receipted /\ Running

(* No row comes into being, and none is reported delivered. *)
Kept ==
    \A e \in Event : /\ outbox[e].status = "absent" => outbox'[e].status = "absent"
                     /\ outbox'[e].status = "delivered" => outbox[e].status = "delivered"

LEMMA SameKept == Same => Kept
BY DEF Same, Kin, Kept

LEMMA RowsMove ==
    ASSUME DeadlineInv, Table', Kept, UNCHANGED <<timer, dueAt, receipts>>, Running'
    PROVE  DeadlineInv'
<1>1. Latest' = Latest /\ \A e : Current(e)' = Current(e)
  BY DEF Latest, Current
<1>2. Numbered'
  BY <1>1 DEF DeadlineInv, Numbered, Kept
<1>3. Waiting'
  BY <1>1 DEF DeadlineInv, Waiting, Kept
<1>4. Receipted'
  BY <1>1 DEF DeadlineInv, Receipted
<1> QED BY <1>2, <1>3, <1>4 DEF DeadlineInv

LEMMA OtherRows ==
    ASSUME DeadlineInv, Table', Kept, UNCHANGED <<timer, dueAt, receipts, run>>
    PROVE  DeadlineInv'
BY RowsMove DEF DeadlineInv, Running

LEMMA Untouched ==
    ASSUME DeadlineInv, UNCHANGED <<outbox, timer, dueAt, receipts, run>>
    PROVE  DeadlineInv'
<1>1. Table' /\ Kept
  BY DEF DeadlineInv, Table, Kept
<1> QED BY <1>1, OtherRows

(* What scheduleTimer does to each row. *)
LEMMA ArmedRow ==
    ASSUME NEW r \in Row
    PROVE  Armed(r) \in Row /\ Armed(r).status = "pending"
BY DEF Armed, Produced, NoRow, Row, Status

LEMMA ScheduledRows ==
    ASSUME Table, NEW a, NEW recover \in BOOLEAN,
           outbox' = Scheduled(outbox, a, recover)
    PROVE  /\ Table'
           /\ \A e \in Event :
                 /\ outbox[e].status = "absent" /\ ~(a.status = "running" /\ e = a.version)
                       => outbox'[e].status = "absent"
                 /\ a.status = "running" /\ e = a.version
                       => outbox'[e] = outbox[e] \/ outbox'[e].status = "pending"
<1>1. ASSUME NEW e \in Event
      PROVE  /\ outbox'[e] \in Row
             /\ outbox[e].status = "absent" /\ ~(a.status = "running" /\ e = a.version)
                   => outbox'[e].status = "absent"
             /\ a.status = "running" /\ e = a.version
                   => outbox'[e] = outbox[e] \/ outbox'[e].status = "pending"
  <2>1. outbox[e] \in Row
    BY DEF Table
  <2>2. /\ Armed(outbox[e]) \in Row /\ Armed(outbox[e]).status = "pending"
        /\ Acked(outbox[e]) \in Row
    BY <2>1, ArmedRow, RowOperations
  <2>3. outbox'[e] =
          IF a.status = "running" /\ e = a.version
          THEN IF outbox[e].status = "absent" \/ (recover /\ outbox[e].status = "dead-letter")
               THEN Armed(outbox[e]) ELSE outbox[e]
          ELSE IF outbox[e].status = "pending" THEN Acked(outbox[e]) ELSE outbox[e]
    BY DEF Scheduled
  <2>4. CASE a.status = "running" /\ e = a.version
    BY <2>1, <2>2, <2>3, <2>4
  <2>5. CASE ~(a.status = "running" /\ e = a.version) /\ outbox[e].status = "pending"
    <3>1. outbox'[e] = Acked(outbox[e])
      BY <2>3, <2>5
    <3> QED BY <2>2, <2>5, <3>1
  <2>6. CASE ~(a.status = "running" /\ e = a.version) /\ outbox[e].status # "pending"
    <3>1. outbox'[e] = outbox[e]
      BY <2>3, <2>6
    <3> QED BY <2>1, <2>6, <3>1
  <2> QED BY <2>4, <2>5, <2>6
<1>2. outbox' = [e \in Event |-> outbox'[e]]
  BY DEF Scheduled
<1> QED BY <1>1, <1>2 DEF Table

(* A transaction that leaves a new version of the timer. *)
LEMMA VersionMoves ==
    ASSUME DeadlineInv, NEW b, ValidAnchor(b), b # Null, b.version = Latest + 1,
           timer' = b, outbox' = Scheduled(outbox, b, FALSE), dueAt' = DueAt(b),
           Running',
           \A e \in receipts' : e \in receipts \/ (e \in Event /\ e <= Latest)
    PROVE  DeadlineInv'
<1>1. Latest' = Latest + 1 /\ Latest \in Nat
  BY DEF Latest, DeadlineInv, Numbered
<1>2. b.version \in Event /\ (b.status = "running" => b.endsAt \in Time)
  BY TimerQueueAssumption DEF ValidAnchor, ValidRunning, Anchor
<1>3. \A e : Current(e)' <=> (b.status = "running" /\ e = b.version)
  BY DEF Current
<1>4. /\ Table'
      /\ \A e \in Event :
            /\ outbox[e].status = "absent" /\ ~(b.status = "running" /\ e = b.version)
                  => outbox'[e].status = "absent"
            /\ b.status = "running" /\ e = b.version
                  => outbox'[e] = outbox[e] \/ outbox'[e].status = "pending"
  BY ScheduledRows DEF DeadlineInv
<1>5. \A e \in Event : e \in Nat
  BY TimerQueueAssumption
<1>6. Numbered'
  <2>1. ASSUME NEW e \in Event, e > Latest'
        PROVE  outbox[e].status = "absent" /\ e # b.version
    <3>1. e > Latest /\ e # Latest + 1
      BY <1>1, <1>5, <2>1
    <3> QED BY <3>1 DEF DeadlineInv, Numbered
  <2>2. \A e \in Event : e > Latest' => outbox'[e].status = "absent"
    BY <1>4, <2>1
  <2>3. Latest' \in Nat
    BY <1>1
  <2> QED BY <2>2, <2>3 DEF Numbered
<1>7. dueAt' \in [Event -> Time]
  BY <1>2 DEF DeadlineInv, DueAt
<1>8. Waiting'
  <2> SUFFICES ASSUME NEW e \in Event, b.status = "running", e = b.version
               PROVE  outbox'[e].status # "delivered" /\ dueAt'[e] = b.endsAt
    BY <1>3 DEF Waiting
  <2>1. outbox[e].status = "absent"
    BY <1>1, <1>5 DEF DeadlineInv, Numbered
  <2>2. dueAt'[e] = b.endsAt
    BY <1>2 DEF DeadlineInv, DueAt
  <2> QED BY <1>4, <2>1, <2>2
<1>9. Receipted'
  BY <1>1, <1>3, <1>5 DEF DeadlineInv, Receipted
<1> QED BY <1>4, <1>6, <1>7, <1>8, <1>9 DEF DeadlineInv

LEMMA NextVersion ==
    ASSUME TimerInv, NEW action \in Command \cup {"complete"}, Transacted(action)
    PROVE  ValidAnchor(timer') /\ timer' # Null /\ timer'.version = Latest + 1
<1>1. ValidAnchor(timer) /\ timer # Null /\ CanTransition(timer, action, clock)
      /\ timer' = Transition(timer, action, clock)
  BY DEF TimerInv, Transacted
<1>2. ValidAnchor(timer')
  BY <1>1, TransitionValid
<1>3. timer'.version = timer.version + 1
  <2> DEFINE t == At(timer, clock)
             p == Patched(timer, action, t)
  <2>1. timer \in Anchor /\ (Elapsed(timer, t) \/ Changes(timer, action, t))
    BY <1>1 DEF ValidAnchor, CanTransition
  <2>2. p \in [version : {timer.version}, status : TimerStatus, durationMs : Duration,
               startedAt : Time, endsAt : {p.endsAt}, pausedRemainingMs : {p.pausedRemainingMs},
               evaluatedAt : Time, completedAt : {p.completedAt},
               cancelledAt : {p.cancelledAt}, acknowledgedAt : {p.acknowledgedAt}]
    BY <2>1 DEF Patched, Changes, Anchor, TimerStatus
  <2>3. timer' = [p EXCEPT !.version = @ + 1, !.evaluatedAt = t]
    BY <1>1 DEF Transition
  <2> HIDE DEF p, t
  <2> QED BY <2>2, <2>3
<1> QED BY <1>1, <1>2, <1>3, TimerQueueAssumption DEF Latest, ValidAnchor

LEMMA CreateKeeps ==
    ASSUME DeadlineInv, Create
    PROVE  DeadlineInv'
<1> DEFINE b == Created(clock, Duration1)
<1>1. /\ timer = Null /\ timer' = b /\ CanCreate(clock, Duration1)
      /\ outbox' = Scheduled(outbox, b, FALSE) /\ dueAt' = DueAt(b)
      /\ UNCHANGED <<receipts, run>>
  BY DEF Create
<1>2. ValidAnchor(b)
  BY <1>1, CreatedValid
<1>3. b # Null
  BY <1>2, TimerQueueAssumption DEF ValidAnchor
<1>4. b.version = Latest + 1
  BY <1>1 DEF Created, Latest
<1>5. Running' /\ \A e \in receipts' : e \in receipts
  BY <1>1 DEF DeadlineInv, Running
<1> HIDE DEF b
<1> QED BY <1>1, <1>2, <1>3, <1>4, <1>5, VersionMoves

LEMMA MutateKeeps ==
    ASSUME DeadlineInv, TimerInv, NEW action \in Command, Mutate(action)
    PROVE  DeadlineInv'
<1>1. Transacted(action) /\ UNCHANGED <<receipts, run>>
  BY DEF Mutate, Move, Transacted
<1>2. outbox' = Scheduled(outbox, timer', FALSE) /\ dueAt' = DueAt(timer')
  BY DEF Mutate, Move
<1>3. ValidAnchor(timer') /\ timer' # Null /\ timer'.version = Latest + 1
  BY <1>1, NextVersion
<1>4. Running' /\ \A e \in receipts' : e \in receipts
  BY <1>1 DEF DeadlineInv, Running
<1> QED BY <1>2, <1>3, <1>4, VersionMoves

(* A run that handles its event. *)
LEMMA DoneRuns ==
    ASSUME Running, NEW s \in Slot, run[s] # Null,
           receipts' = receipts \cup {run[s].e},
           run' = [run EXCEPT ![s].pc = "done"]
    PROVE  Running'
<1>1. run[s] \in Run /\ run[s].e \in Event
  BY DEF Running
<1>2. [run[s] EXCEPT !.pc = "done"] \in Run
  BY <1>1 DEF Run
<1>3. run' = [run EXCEPT ![s] = [run[s] EXCEPT !.pc = "done"]]
  OBVIOUS
<1>4. ASSUME NEW z \in Slot, run'[z] # Null
      PROVE  run'[z].e \in Event /\ (run'[z].pc = "done" => run'[z].e \in receipts')
  <2>1. CASE z = s
    <3>1. run'[z] = [run[s] EXCEPT !.pc = "done"]
      BY <1>3, <2>1 DEF Running
    <3>2. run'[z].e = run[s].e
      BY <1>1, <3>1 DEF Run
    <3> QED BY <1>1, <3>2
  <2>2. CASE z # s
    BY <1>3, <1>4, <2>2 DEF Running
  <2> QED BY <2>1, <2>2
<1>5. run' \in [Slot -> Run \cup {Null}]
  BY <1>2, <1>3 DEF Running
<1> QED BY <1>4, <1>5 DEF Running

LEMMA CompleteKeeps ==
    ASSUME DeadlineInv, TimerInv, NEW s \in Slot, CompleteDue(s)
    PROVE  DeadlineInv'
<1>1. Transacted("complete")
  BY DEF CompleteDue, Current, Move, Transacted
<1>2. /\ outbox' = Scheduled(outbox, timer', FALSE) /\ dueAt' = DueAt(timer')
      /\ run[s] # Null /\ Current(run[s].e)
      /\ receipts' = receipts \cup {run[s].e}
      /\ run' = [run EXCEPT ![s].pc = "done"]
  BY DEF CompleteDue, Move, Loaded
<1>3. ValidAnchor(timer') /\ timer' # Null /\ timer'.version = Latest + 1
  BY <1>1, NextVersion
<1>4. Running'
  BY <1>2, DoneRuns DEF DeadlineInv
<1>5. run[s].e \in Event /\ run[s].e = Latest /\ Latest \in Nat
  BY <1>2 DEF DeadlineInv, Running, Current, Latest, Numbered
<1>6. \A e \in receipts' : e \in receipts \/ (e \in Event /\ e <= Latest)
  BY <1>2, <1>5
<1> QED BY <1>2, <1>3, <1>4, <1>6, VersionMoves

(* completeDue leaves a receipt of a version that has passed. *)
LEMMA SkipKeeps ==
    ASSUME DeadlineInv, NEW s \in Slot, SkipDue(s)
    PROVE  DeadlineInv'
<1> DEFINE e == run[s].e
<1>1. /\ run[s] # Null /\ outbox[e].status = "processing"
      /\ e \in receipts \/ ~Current(e)
      /\ receipts' = receipts \cup {e}
      /\ run' = [run EXCEPT ![s].pc = "done"]
      /\ UNCHANGED <<outbox, timer, dueAt>>
  BY DEF SkipDue, Loaded, Fence
<1>2. e \in Event /\ Running'
  BY <1>1, DoneRuns DEF DeadlineInv, Running
<1>3. ~Current(e)
  BY <1>1 DEF DeadlineInv, Receipted
<1>4. e <= Latest
  <2>1. ~(e > Latest)
    BY <1>1, <1>2 DEF DeadlineInv, Numbered
  <2>2. e \in Nat /\ Latest \in Nat
    BY <1>2, StoreAssumption DEF DeadlineInv, Numbered
  <2> HIDE DEF e
  <2> QED BY <2>1, <2>2
<1>5. Latest' = Latest /\ \A f : Current(f)' = Current(f)
  BY <1>1 DEF Latest, Current
<1>6. Receipted'
  BY <1>1, <1>2, <1>3, <1>4, <1>5 DEF DeadlineInv, Receipted
<1>7. Table' /\ Numbered' /\ Waiting' /\ dueAt' \in [Event -> Time]
  BY <1>1, <1>5 DEF DeadlineInv, Table, Numbered, Waiting
<1> QED BY <1>2, <1>6, <1>7 DEF DeadlineInv

LEMMA EndedRuns ==
    ASSUME Running, NEW s \in Slot, run' = [run EXCEPT ![s] = Null], UNCHANGED receipts
    PROVE  Running'
BY DEF Running

LEMMA StartKeeps ==
    ASSUME DeadlineInv, NEW s \in Slot, StartRun(s)
    PROVE  DeadlineInv'
<1>1. PICK e \in Event :
          /\ \/ \E q \in Queue : ClaimRow(q, e)
             \/ Fence(e, outbox[e].token) /\ UNCHANGED outbox
          /\ run' = [run EXCEPT ![s] = [e |-> e, t |-> outbox'[e].token,
                                        n |-> outbox'[e].attempts, pc |-> "loaded"]]
  BY DEF StartRun
<1>2. Table' /\ Same
  <2>1. CASE \E q \in Queue : ClaimRow(q, e)
    BY <2>1, Claims DEF DeadlineInv
  <2>2. CASE UNCHANGED outbox
    BY <2>2 DEF DeadlineInv, Table, Same, Kin
  <2> QED BY <1>1, <2>1, <2>2
<1>3. outbox'[e].token \in Nat /\ outbox'[e].attempts \in Nat
  BY <1>2 DEF Table, Row
<1>4. Running'
  BY <1>1, <1>3 DEF Running, Run, DeadlineInv, StartRun
<1> QED BY <1>2, <1>4, SameKept, RowsMove DEF StartRun

LEMMA EarlyKeeps ==
    ASSUME DeadlineInv, NEW s \in Slot, FindEarly(s)
    PROVE  DeadlineInv'
<1>1. /\ run[s] # Null /\ run' = [run EXCEPT ![s] = [@ EXCEPT !.pc = "early"]]
      /\ UNCHANGED <<outbox, timer, dueAt, receipts>>
  BY DEF FindEarly, Loaded
<1>2. Running'
  <2>1. run[s] \in Run
    BY <1>1 DEF DeadlineInv, Running
  <2>2. [run[s] EXCEPT !.pc = "early"] \in Run /\ [run[s] EXCEPT !.pc = "early"].pc = "early"
        /\ [run[s] EXCEPT !.pc = "early"].e = run[s].e
    BY <2>1 DEF Run
  <2> QED BY <1>1, <2>2 DEF DeadlineInv, Running
<1>3. Table' /\ Kept
  BY <1>1 DEF DeadlineInv, Table, Kept
<1> QED BY <1>1, <1>2, <1>3, RowsMove

(* deferEarly gives a row back, and its attempt. *)
LEMMA DeferKeeps ==
    ASSUME DeadlineInv, NEW s \in Slot, DeferEarly(s)
    PROVE  DeadlineInv'
<1> DEFINE e == run[s].e
           r == Deferred(outbox[e])
<1>1. run[s] # Null /\ EndRun(s)
  BY DEF DeferEarly
<1>2. e \in Event /\ Running'
  BY <1>1, EndedRuns DEF EndRun, DeadlineInv, Running
<1>3. CASE UNCHANGED outbox
  BY <1>1, <1>2, <1>3, RowsMove DEF EndRun, DeadlineInv, Table, Kept
<1>4. CASE ~UNCHANGED outbox
  <2>1. /\ Fence(e, run[s].t) /\ outbox[e].attempts > 0
        /\ outbox' = [outbox EXCEPT ![e] = r]
    BY <1>4 DEF DeferEarly
  <2>2. outbox[e] \in Row /\ outbox[e].status = "processing"
    BY <1>2, <2>1 DEF DeadlineInv, Table, Fence
  <2>3. r \in Row /\ r.status = "pending"
    <3> DEFINE back == Released(outbox[e])
    <3>1. /\ back \in Row /\ back.status = "pending"
          /\ back.attempts = outbox[e].attempts /\ outbox[e].attempts \in Nat
      BY <2>2 DEF Released, Row, Status
    <3>2. back.attempts - 1 \in Nat
      BY <2>1, <3>1
    <3> HIDE DEF back
    <3>3. [back EXCEPT !.attempts = outbox[e].attempts - 1] \in Row
          /\ [back EXCEPT !.attempts = outbox[e].attempts - 1].status = "pending"
      BY <3>1, <3>2 DEF Row
    <3> QED BY <3>3 DEF back, Deferred
  <2> HIDE DEF r
  <2>4. Table' /\ Kept
    BY <1>2, <2>1, <2>2, <2>3 DEF DeadlineInv, Table, Kept
  <2> QED BY <1>1, <1>2, <2>4, RowsMove DEF EndRun
<1> QED BY <1>3, <1>4

(* Only a version that has passed is reported delivered by its run. *)
LEMMA AckKeeps ==
    ASSUME DeadlineInv, NEW s \in Slot, AckRun(s)
    PROVE  DeadlineInv'
<1> DEFINE e == run[s].e
<1>1. run[s] # Null /\ EndRun(s) /\ AckRow(e, run[s].t) /\ e \in receipts
  BY DEF AckRun, DeadlineInv, Running
<1>2. e \in Event /\ ~Current(e) /\ Running'
  BY <1>1, EndedRuns DEF EndRun, DeadlineInv, Running, Receipted
<1>3. CASE ~Fence(e, run[s].t)
  <2>1. UNCHANGED outbox
    BY <1>1, <1>3 DEF AckRow
  <2> QED BY <1>1, <1>2, <2>1, RowsMove DEF EndRun, DeadlineInv, Table, Kept
<1>4. CASE Fence(e, run[s].t)
  <2>1. outbox' = [outbox EXCEPT ![e] = Acked(outbox[e])] /\ outbox[e].status = "processing"
    BY <1>1, <1>4 DEF AckRow, Fence
  <2>2. Acked(outbox[e]) \in Row
    BY <1>2, RowOperations DEF DeadlineInv, Table
  <2>3. \A f \in Event : f # e => outbox'[f] = outbox[f]
    BY <2>1 DEF DeadlineInv, Table
  <2>4. Table' /\ Latest' = Latest /\ \A f : Current(f)' = Current(f)
    BY <1>1, <1>2, <2>1, <2>2 DEF EndRun, DeadlineInv, Table, Latest, Current
  <2>5. ASSUME NEW f \in Event, f > Latest
        PROVE  outbox'[f].status = "absent"
    <3>1. outbox[f].status = "absent"
      BY <2>5 DEF DeadlineInv, Numbered
    <3>2. f # e
      BY <2>1, <3>1
    <3> QED BY <2>3, <3>1, <3>2
  <2>6. Numbered'
    BY <2>4, <2>5 DEF DeadlineInv, Numbered
  <2>7. Waiting'
    <3> SUFFICES ASSUME NEW f \in Event, Current(f)
                 PROVE  outbox'[f].status # "delivered" /\ dueAt'[f] = timer'.endsAt
      BY <2>4 DEF Waiting
    <3>1. f # e
      BY <1>2
    <3> QED BY <1>1, <2>3, <3>1 DEF EndRun, DeadlineInv, Waiting
  <2>8. Receipted'
    BY <1>1, <2>4 DEF EndRun, DeadlineInv, Receipted
  <2> QED BY <1>1, <1>2, <2>4, <2>6, <2>7, <2>8 DEF EndRun, DeadlineInv
<1> QED BY <1>3, <1>4

LEMMA FailKeeps ==
    ASSUME DeadlineInv, NEW s \in Slot, FailRun(s) \/ CrashRun(s)
    PROVE  DeadlineInv'
<1>1. run[s] # Null /\ EndRun(s)
  BY DEF FailRun, CrashRun
<1>2. Running' /\ UNCHANGED <<timer, dueAt, receipts>>
  BY <1>1, EndedRuns DEF EndRun, DeadlineInv
<1>3. Table' /\ Same
  <2>1. CASE CrashRun(s)
    BY <2>1 DEF CrashRun, DeadlineInv, Table, Same, Kin
  <2>2. CASE FailRun(s)
    <3>1. run[s].e \in Event /\ Table
      BY <1>1 DEF DeadlineInv, Running
    <3> QED BY <2>2, <3>1, Failures DEF FailRun
  <2> QED BY <2>1, <2>2
<1> QED BY <1>2, <1>3, SameKept, RowsMove

(* reconcile arms what scheduleTimer would have armed. *)
LEMMA ReconcileKeeps ==
    ASSUME DeadlineInv, NEW recover \in BOOLEAN, Reconcile(recover)
    PROVE  DeadlineInv'
<1>1. /\ outbox' = Scheduled(outbox, timer, recover)
      /\ timer # Null /\ timer.status = "running"
      /\ UNCHANGED <<timer, dueAt, receipts, run>>
  BY DEF Reconcile
<1>2. /\ Table'
      /\ \A e \in Event :
            /\ outbox[e].status = "absent" /\ e # timer.version => outbox'[e].status = "absent"
            /\ e = timer.version => outbox'[e] = outbox[e] \/ outbox'[e].status = "pending"
  BY <1>1, ScheduledRows DEF DeadlineInv
<1>3. Latest' = Latest /\ Latest = timer.version /\ \A f : Current(f)' = Current(f)
  BY <1>1 DEF Latest, Current
<1>4. Numbered'
  <2>1. ASSUME NEW e \in Event, e > Latest
        PROVE  e # timer.version
    BY <1>3, <2>1, StoreAssumption DEF DeadlineInv, Numbered
  <2> QED BY <1>2, <1>3, <2>1 DEF DeadlineInv, Numbered
<1>5. Waiting'
  <2> SUFFICES ASSUME NEW e \in Event, Current(e)
               PROVE  outbox'[e].status # "delivered" /\ dueAt'[e] = timer'.endsAt
    BY <1>3 DEF Waiting
  <2>1. outbox[e].status # "delivered" /\ dueAt[e] = timer.endsAt
    BY DEF DeadlineInv, Waiting
  <2>2. e = timer.version
    BY DEF Current
  <2> QED BY <1>1, <1>2, <2>1, <2>2
<1>6. Receipted' /\ Running' /\ dueAt' \in [Event -> Time]
  BY <1>1, <1>3 DEF DeadlineInv, Receipted, Running
<1> QED BY <1>2, <1>4, <1>5, <1>6 DEF DeadlineInv

(* A step back of the clock takes lapses and deadlines back, and no status.   *)
LEMMA SetBackKeeps ==
    ASSUME DeadlineInv, SetBack
    PROVE  DeadlineInv'
<1>1. PICK back \in SUBSET {e \in Event : outbox[e].lapsed} :
          outbox' = [e \in Event |->
              [outbox[e] EXCEPT !.lapsed = @ /\ e \notin back,
                                !.due = @ /\ (e \in backoff \/ clock' >= dueAt[e])]]
  BY DEF SetBack
<1>2. ASSUME NEW e \in Event
      PROVE  outbox'[e] \in Row /\ outbox'[e].status = outbox[e].status
  <2> DEFINE lapsed == outbox[e].lapsed /\ e \notin back
             due == outbox[e].due /\ (e \in backoff \/ clock' >= dueAt[e])
  <2>1. outbox[e] \in Row
    BY DEF DeadlineInv, Table
  <2>2. outbox'[e] = [outbox[e] EXCEPT !.lapsed = lapsed, !.due = due]
    BY <1>1
  <2>3. lapsed \in BOOLEAN /\ due \in BOOLEAN
    BY Zenon
  <2> HIDE DEF lapsed, due
  <2> QED BY <2>1, <2>2, <2>3 DEF Row
<1>3. Table' /\ Kept
  <2>1. outbox' = [e \in Event |-> outbox'[e]]
    BY <1>1
  <2> QED BY <1>2, <2>1 DEF Table, Kept
<1> QED BY <1>3, OtherRows DEF SetBack

(* Retention removes a row. *)
LEMMA RetainKeeps ==
    ASSUME DeadlineInv, NEW e \in Event, Retain(e)
    PROVE  DeadlineInv'
<1> DEFINE r == [NoRow EXCEPT !.issued = outbox[e].issued]
<1>1. outbox' = [outbox EXCEPT ![e] = r] /\ UNCHANGED <<timer, dueAt, receipts, run>>
  BY DEF Retain
<1>2. outbox[e] \in Row
  BY DEF DeadlineInv, Table
<1>3. r \in Row /\ r.status = "absent"
  BY <1>2 DEF NoRow, Row, Status
<1> HIDE DEF r
<1>4. Table' /\ Kept
  BY <1>1, <1>3 DEF DeadlineInv, Table, Kept
<1> QED BY <1>1, <1>4, OtherRows

LEMMA DeadlineStep == DeadlineInv /\ TimerInv /\ [Next]_vars => DeadlineInv'
<1> SUFFICES ASSUME DeadlineInv, TimerInv, [Next]_vars
             PROVE  DeadlineInv'
  OBVIOUS
<1>1. CASE Create \/ \E action \in Command : Mutate(action)
  BY <1>1, CreateKeeps, MutateKeeps
<1>2. CASE Tick
  BY <1>2, Untouched DEF Tick
<1>3. CASE SetBack
  BY <1>3, SetBackKeeps
<1>4. CASE BuryExhausted
  BY <1>4, Burials, SameKept, OtherRows DEF BuryExhausted, DeadlineInv
<1>5. ASSUME NEW e \in Event, RowStep(e)
      PROVE  DeadlineInv'
  BY <1>5, Deadlines, SameKept, OtherRows DEF RowStep, DeadlineInv
<1>6. ASSUME NEW e \in Event, Retain(e)
      PROVE  DeadlineInv'
  BY <1>6, RetainKeeps
<1>7. ASSUME NEW s \in Slot, WorkerStep(s)
      PROVE  DeadlineInv'
  BY <1>7, StartKeeps, SkipKeeps, CompleteKeeps, EarlyKeeps, DeferKeeps, AckKeeps,
     FailKeeps DEF WorkerStep
<1>8. ASSUME NEW recover \in BOOLEAN, Reconcile(recover)
      PROVE  DeadlineInv'
  BY <1>8, ReconcileKeeps
<1>9. CASE UNCHANGED vars
  BY <1>9, Untouched DEF vars
<1> QED BY <1>1, <1>2, <1>3, <1>4, <1>5, <1>6, <1>7, <1>8, <1>9 DEF Next

LEMMA DeadlineInit == Init => DeadlineInv
<1> SUFFICES ASSUME Init
             PROVE  DeadlineInv
  OBVIOUS
<1>1. Table /\ \A e \in Event : outbox[e].status = "absent"
  BY DEF Init, StoreInit, Table, Row, NoRow, Status
<1>2. dueAt \in [Event -> Time]
  BY TimerAssumption DEF Init, Time
<1>3. /\ timer = Null /\ receipts = {} /\ run \in [Slot -> Run \cup {Null}]
      /\ \A s \in Slot : run[s] = Null
  BY DEF Init
<1> QED BY <1>1, <1>2, <1>3
        DEF DeadlineInv, Numbered, Waiting, Receipted, Running, Latest, Current

LEMMA DeadlineInvHolds == Safe => []DeadlineInv
BY DeadlineInit, DeadlineStep, TimerInvHolds, PTL DEF Safe

(* A running timer's own deadline is never settled, superseded or handled by  *)
(* anything but its completion (scheduleTimer, completeDue, reconcile).       *)
THEOREM DeadlineSafe == Safe => []DeadlineKept
<1>1. DeadlineInv /\ TimerInv => DeadlineKept
  <2> SUFFICES ASSUME DeadlineInv, TimerInv, timer # Null, timer.status = "running"
               PROVE  /\ outbox[timer.version].status # "delivered"
                      /\ timer.version \notin receipts
                      /\ dueAt[timer.version] = timer.endsAt
    BY DEF DeadlineKept
  <2>1. timer.version \in Event
    BY TimerQueueAssumption DEF TimerInv, ValidAnchor, Anchor
  <2>2. Current(timer.version)
    BY DEF Current
  <2> QED BY <2>1, <2>2 DEF DeadlineInv, Waiting, Receipted
<1> QED BY <1>1, DeadlineInvHolds, TimerInvHolds, PTL
-----------------------------------------------------------------------------
(* The types of everything else. *)
Counters == clock \in Time /\ setBack \in Nat /\ backoff \subseteq Event

LEMMA CountersStep == DeadlineInv /\ Counters /\ [Next]_vars => Counters'
<1> SUFFICES ASSUME DeadlineInv, Counters, [Next]_vars
             PROVE  Counters'
  OBVIOUS
<1>1. CASE Create \/ (\E action \in Command : Mutate(action)) \/ BuryExhausted
  BY <1>1 DEF Create, Mutate, BuryExhausted, Counters
<1>2. CASE Tick \/ SetBack
  <2>1. MaxClock \in Int /\ MaxClock <= MaxTime /\ MaxTime \in Int
    BY TimerAssumption, TimerQueueAssumption DEF Time
  <2>2. CASE Tick
    <3>1. clock < MaxClock /\ clock' = clock + 1 /\ UNCHANGED <<setBack, backoff>>
      BY <2>2 DEF Tick
    <3> QED BY <2>1, <3>1 DEF Counters, Time
  <2>3. CASE SetBack
    <3>1. clock > 0 /\ clock' = clock - 1 /\ setBack' = setBack + 1 /\ UNCHANGED backoff
      BY <2>3 DEF SetBack
    <3> QED BY <2>1, <3>1 DEF Counters, Time
  <2> QED BY <1>2, <2>2, <2>3
<1>3. CASE \E e \in Event : RowStep(e) \/ Retain(e)
  BY <1>3 DEF RowStep, Retain, Counters
<1>4. ASSUME NEW s \in Slot, WorkerStep(s)
      PROVE  Counters'
  <2>1. run[s] # Null => run[s].e \in Event
    BY DEF DeadlineInv, Running
  <2>2. CASE StartRun(s) \/ SkipDue(s) \/ CompleteDue(s) \/ FindEarly(s) \/ CrashRun(s)
    BY <2>2 DEF StartRun, SkipDue, CompleteDue, FindEarly, CrashRun, EndRun, Counters
  <2>3. CASE DeferEarly(s) \/ AckRun(s)
    BY <2>3 DEF DeferEarly, AckRun, EndRun, Counters
  <2>4. CASE FailRun(s)
    BY <2>1, <2>4 DEF FailRun, EndRun, Counters
  <2> QED BY <1>4, <2>2, <2>3, <2>4 DEF WorkerStep
<1>5. CASE \E recover \in BOOLEAN : Reconcile(recover)
  BY <1>5 DEF Reconcile, Counters
<1>6. CASE UNCHANGED vars
  BY <1>6 DEF vars, Counters
<1> QED BY <1>1, <1>2, <1>3, <1>4, <1>5, <1>6 DEF Next

(* Rows, runs and counters are well formed, and so is the stored anchor. *)
THEOREM QueueTyped == Safe => []TypeOK
<1>1. Init => Counters
  BY TimerAssumption DEF Init, Counters, Time
<1>2. DeadlineInv /\ TimerInv /\ Counters => TypeOK
  <2> SUFFICES ASSUME DeadlineInv, TimerInv, Counters
               PROVE  TypeOK
    OBVIOUS
  <2>1. ran \in Nat
    <3>1. CASE timer = Null
      BY <3>1 DEF TimerInv
    <3>2. CASE timer # Null
      <4>1. /\ ValidAnchor(timer) /\ Conserved(timer, ran) /\ ran \in Int
            /\ timer.durationMs \in Nat /\ timer.evaluatedAt \in Int
            /\ timer.status \in {"running", "paused", "completed", "cancelled"}
        BY <3>2, TimerAssumption DEF TimerInv, ValidAnchor, Anchor, Time, Duration, TimerStatus
      <4>2. CASE timer.status = "running"
        <5>1. timer.endsAt \in Int /\ timer.endsAt - timer.evaluatedAt <= timer.durationMs
          BY <4>1, <4>2 DEF ValidAnchor, ValidRunning, Anchor, Time
        <5> QED BY <4>1, <4>2, <5>1 DEF Conserved
      <4>3. CASE timer.status = "paused"
        <5>1. timer.pausedRemainingMs \in Int /\ timer.pausedRemainingMs <= timer.durationMs
          BY <4>1, <4>3 DEF ValidAnchor, ValidPaused
        <5> QED BY <4>1, <4>3, <5>1 DEF Conserved
      <4>4. CASE timer.status = "completed"
        BY <4>1, <4>4 DEF Conserved
      <4>5. CASE timer.status = "cancelled"
        <5>1. ran >= 0
          BY <4>1, <4>5 DEF Conserved
        <5> QED BY <4>1, <5>1
      <4> QED BY <4>1, <4>2, <4>3, <4>4, <4>5
    <3> QED BY <3>1, <3>2
  <2>2. receipts \subseteq Event
    BY DEF DeadlineInv, Receipted
  <2> QED BY <2>1, <2>2 DEF TypeOK, DeadlineInv, TimerInv, Counters, Table, Running, Run
<1> QED BY <1>1, <1>2, CountersStep, DeadlineInvHolds, TimerInvHolds, PTL DEF Safe
=============================================================================
