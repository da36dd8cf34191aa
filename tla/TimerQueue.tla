------------------------------ MODULE TimerQueue ------------------------------
(***************************************************************************)
(* One timer and the durable deadlines it leaves in the outbox:             *)
(*   backend/src/timers/timer.service.ts     executeInTransaction, complete *)
(*   backend/src/timers/timer-scheduling.ts  scheduleTimer                  *)
(*   backend/src/timers/timer-worker.service.ts  completeDue, deferEarly,   *)
(*                                               reconcile                  *)
(*                                                                          *)
(* A deadline belongs to exactly one version of the timer, so event number  *)
(* v is the completion event of version v.  Commands of devices, the worker *)
(* that completes a due timer and the reconciler all race for the row; each *)
(* of their transactions is one step.  The wall clock moves forward and may *)
(* be set back.                                                             *)
(***************************************************************************)
EXTENDS OutboxStore, Timer

CONSTANTS
    Slot,       \* job executions in progress at the workers
    Duration1,  \* the duration the timer is created with
    MaxClock,   \* bound: the run ends with the clock here
    MaxSetBack, \* bound: how often the clock is set back
    MaxIssued   \* bound: a deadline with so many claims is not armed again

ASSUME TimerQueueAssumption ==
    /\ Event = 1 .. MaxVersion
    /\ Null \notin Anchor
    /\ MaxClock \in Time

VARIABLES
    timer,      \* the row of the timer, Null before it is created
    clock,      \* TimerClock.now()
    setBack,    \* how often the clock was set back
    receipts,   \* outbox_effects: versions whose completion event was handled
    dueAt,      \* the payload of each completion event: when its version ends
    backoff,    \* events whose availableAt is the end of a retry's back-off
    run,        \* the event each slot is dispatching
    ran         \* history: how long the timer has been running in all

vars == <<outbox, timer, clock, setBack, receipts, dueAt, backoff, run, ran>>

Init ==
    /\ StoreInit
    /\ timer = Null
    /\ clock = 0 /\ setBack = 0
    /\ receipts = {}
    /\ dueAt = [e \in Event |-> 0]
    /\ backoff = {}
    /\ run = [s \in Slot |-> Null]
    /\ ran = 0

-----------------------------------------------------------------------------
(* scheduleTimer for the row a, on top of the table o: other deadlines that   *)
(* are still pending are superseded, and a running timer's own is inserted    *)
(* unless it exists.  A worker's startup re-arms it when it is dead-lettered. *)
Armed(r) == [Produced(FALSE) EXCEPT !.issued = r.issued]

(* Mutant: every pending deadline is superseded, the current one too. *)
ScheduledAnew(o, a, recover) ==
    [e \in Event |->
        CASE o[e].status = "pending" -> Acked(o[e])
          [] o[e].status # "pending" /\ a.status = "running" /\ e = a.version
             /\ (o[e].status = "absent" \/ (recover /\ o[e].status = "dead-letter")) ->
                Armed(o[e])
          [] OTHER -> o[e]]

Scheduled(o, a, recover) ==
    [e \in Event |->
        IF a.status = "running" /\ e = a.version
        THEN IF o[e].status = "absent" \/ (recover /\ o[e].status = "dead-letter")
             THEN Armed(o[e]) ELSE o[e]
        ELSE IF o[e].status = "pending" THEN Acked(o[e]) ELSE o[e]]

DueAt(a) == IF a.status = "running" THEN [dueAt EXCEPT ![a.version] = a.endsAt] ELSE dueAt

(* What the timer ran for between two anchors of it. *)
Span(a, b) == IF a.status # "running" THEN 0
              ELSE (IF b.status = "completed" THEN b.endsAt ELSE b.evaluatedAt) - a.evaluatedAt

Move(action) ==
    LET b == Transition(timer, action, clock) IN
    /\ timer' = b
    /\ outbox' = Scheduled(outbox, b, FALSE)
    /\ dueAt' = DueAt(b)
    /\ ran' = ran + Span(timer, b)

Create ==
    /\ timer = Null
    /\ CanCreate(clock, Duration1)
    /\ timer' = Created(clock, Duration1)
    /\ outbox' = Scheduled(outbox, timer', FALSE)
    /\ dueAt' = DueAt(timer')
    /\ UNCHANGED <<clock, setBack, receipts, backoff, run, ran>>

(* A device's command; expectedVersion is the version it names, so a command  *)
(* that is accepted names the current one.                                    *)
Mutate(action) ==
    /\ timer # Null
    /\ CanTransition(timer, action, clock)
    /\ Move(action)
    /\ UNCHANGED <<clock, setBack, receipts, backoff, run>>

-----------------------------------------------------------------------------
(* The clock, the table's own deadlines, and retention of settled rows.       *)
Tick ==
    /\ clock < MaxClock
    /\ clock' = clock + 1
    /\ UNCHANGED <<outbox, timer, dueAt, backoff, setBack, receipts, run, ran>>

(* availableAt and claimUntil are times of the same wall clock: a deadline    *)
(* that had come is ahead again, and a lease that had ended may hold again.   *)
SetBack ==
    /\ clock > 0 /\ setBack < MaxSetBack
    /\ clock' = clock - 1 /\ setBack' = setBack + 1
    /\ \E back \in SUBSET {e \in Event : outbox[e].lapsed} :
          outbox' = [e \in Event |->
              [outbox[e] EXCEPT !.lapsed = @ /\ e \notin back,
                                !.due = @ /\ (e \in backoff \/ clock' >= dueAt[e])]]
    /\ UNCHANGED <<timer, dueAt, backoff, receipts, run, ran>>

(* availableAt is dueAt, or the end of a back-off. *)
RowStep(e) ==
    /\ \/ BecomeDue(e) /\ (clock >= dueAt[e] \/ e \in backoff)
       \/ Lapse(e)
    /\ UNCHANGED <<timer, dueAt, backoff, clock, setBack, receipts, run, ran>>

BuryExhausted ==
    /\ \E q \in Queue : ClaimNothing(q)
    /\ UNCHANGED <<timer, dueAt, backoff, clock, setBack, receipts, run, ran>>

-----------------------------------------------------------------------------
(* The worker.  A row is claimed and its job started, or a stalled job is run *)
(* again; OutboxDispatch has the steps in between.                            *)
StartRun(s) ==
    /\ run[s] = Null
    /\ \E e \in Event :
          /\ \/ \E q \in Queue : ClaimRow(q, e)
             \/ Fence(e, outbox[e].token) /\ UNCHANGED outbox
          /\ run' = [run EXCEPT ![s] = [e |-> e, t |-> outbox'[e].token,
                                        n |-> outbox'[e].attempts, pc |-> "loaded"]]
    /\ UNCHANGED <<timer, dueAt, backoff, clock, setBack, receipts, ran>>

Loaded(s) == /\ run[s] # Null /\ run[s].pc = "loaded"
             /\ Fence(run[s].e, run[s].t)

Current(e) == timer # Null /\ timer.status = "running" /\ timer.version = e

(* completeDue of a version that was handled or has passed: a receipt only. *)
SkipDue(s) ==
    /\ Loaded(s)
    /\ run[s].e \in receipts \/ ~Current(run[s].e)
    /\ receipts' = receipts \cup {run[s].e}
    /\ run' = [run EXCEPT ![s].pc = "done"]
    /\ UNCHANGED <<outbox, timer, dueAt, backoff, clock, setBack, ran>>

(* completeDue of the current version, in one transaction. *)
CompleteDue(s) ==
    /\ Loaded(s)
    /\ run[s].e \notin receipts /\ Current(run[s].e)
    /\ clock >= timer.endsAt
    /\ CanTransition(timer, "complete", clock)
    /\ Move("complete")
    /\ receipts' = receipts \cup {run[s].e}
    /\ run' = [run EXCEPT ![s].pc = "done"]
    /\ UNCHANGED <<backoff, clock, setBack>>

(* TIMER_NOT_DUE: the clock was set back since the row became available. *)
FindEarly(s) ==
    /\ Loaded(s)
    /\ run[s].e \notin receipts /\ Current(run[s].e)
    /\ clock < timer.endsAt
    /\ run' = [run EXCEPT ![s] = [@ EXCEPT !.pc = "early"]]
    /\ UNCHANGED <<outbox, timer, dueAt, backoff, clock, setBack, receipts, ran>>

EndRun(s) ==
    /\ run' = [run EXCEPT ![s] = Null]
    /\ UNCHANGED <<timer, dueAt, clock, setBack, receipts, ran>>

(* deferEarly: back to pending until dueAt, and the attempt is given back;    *)
(* nothing is written when the clock has passed dueAt in the meantime.        *)
Deferred(r) == [Released(r) EXCEPT !.attempts = r.attempts - 1]

DeferEarly(s) ==
    /\ run[s] # Null /\ run[s].pc = "early"
    /\ LET e == run[s].e IN
       \/ /\ clock < dueAt[e] /\ Fence(e, run[s].t) /\ outbox[e].attempts > 0
          /\ outbox' = [outbox EXCEPT ![e] = Deferred(@)]
          /\ backoff' = backoff \ {e}
       \/ /\ ~(clock < dueAt[e] /\ Fence(e, run[s].t) /\ outbox[e].attempts > 0)
          /\ UNCHANGED <<outbox, backoff>>
    /\ EndRun(s)

AckRun(s) ==
    /\ run[s] # Null /\ run[s].pc = "done"
    /\ AckRow(run[s].e, run[s].t)
    /\ UNCHANGED backoff
    /\ EndRun(s)

FailRun(s) ==
    /\ run[s] # Null /\ run[s].pc # "early"
    /\ FailRow(run[s].e, run[s].t, run[s].n, FALSE)
    /\ backoff' = IF Fence(run[s].e, run[s].t) THEN backoff \cup {run[s].e} ELSE backoff
    /\ EndRun(s)

CrashRun(s) ==
    /\ run[s] # Null
    /\ UNCHANGED <<outbox, backoff>>
    /\ EndRun(s)

(* reconcile(): every five seconds, and with recovery when a worker starts.   *)
(* It skips a timer whose event it finds, but that is read before the         *)
(* transaction and may be stale in it.                                        *)
Reconcile(recover) ==
    /\ timer # Null /\ timer.status = "running"
    /\ recover => outbox[timer.version].issued < MaxIssued
    /\ outbox' = Scheduled(outbox, timer, recover)
    /\ backoff' = IF outbox'[timer.version] = outbox[timer.version]
                  THEN backoff ELSE backoff \ {timer.version}
    /\ UNCHANGED <<timer, dueAt, clock, setBack, receipts, run, ran>>

(* publication-cleanup deletes settled rows after 30 or 90 days, receipts     *)
(* stay.                                                                      *)
Retain(e) ==
    /\ outbox[e].status \in Terminal /\ outbox[e].issued < MaxIssued
    /\ outbox' = [outbox EXCEPT ![e] = [NoRow EXCEPT !.issued = outbox[e].issued]]
    /\ backoff' = backoff \ {e}
    /\ UNCHANGED <<timer, dueAt, clock, setBack, receipts, run, ran>>

WorkerStep(s) ==
    \/ StartRun(s) \/ SkipDue(s) \/ CompleteDue(s) \/ FindEarly(s) \/ DeferEarly(s)
    \/ AckRun(s) \/ FailRun(s) \/ CrashRun(s)

Next ==
    \/ Create \/ \E action \in Command : Mutate(action)
    \/ Tick \/ SetBack \/ BuryExhausted
    \/ \E e \in Event : RowStep(e) \/ Retain(e)
    \/ \E s \in Slot : WorkerStep(s)
    \/ \E recover \in BOOLEAN : Reconcile(recover)

(* The clock advances, deadlines and leases pass, ticks claim what is due and *)
(* reconcile, and a run ends: its handler awaits only the database and checks *)
(* its abort signal, which fires after the queue's timeout.                  *)
Ends(s) == \/ SkipDue(s) \/ CompleteDue(s) \/ FindEarly(s)
           \/ DeferEarly(s) \/ AckRun(s) \/ FailRun(s)
Fairness ==
    /\ WF_vars(Tick) /\ WF_vars(BuryExhausted) /\ WF_vars(Reconcile(FALSE))
    /\ \A e \in Event : WF_vars(RowStep(e))
    /\ WF_vars(\E s \in Slot : StartRun(s))
    /\ \A s \in Slot : WF_vars(Ends(s))

Safe == Init /\ [][Next]_vars
Spec == Safe /\ Fairness

-----------------------------------------------------------------------------
(* Rows and runs are well formed, and the stored anchor always passes         *)
(* validateAnchor: no order of commands and completions corrupts a timer.     *)
TypeOK ==
    /\ outbox \in [Event -> Row]
    /\ timer # Null => ValidAnchor(timer)
    /\ clock \in Time /\ setBack \in Nat
    /\ receipts \subseteq Event
    /\ dueAt \in [Event -> Time]
    /\ backoff \subseteq Event
    /\ run \in [Slot -> [e : Event, t : Nat, n : Nat, pc : {"loaded", "early", "done"}]
                          \cup {Null}]
    /\ ran \in Nat

(* A running timer's own deadline is never settled or superseded: whatever    *)
(* commands, takeovers, retries and re-arming happen, its completion event is *)
(* still to be run, or is dead-lettered (timer-scheduling.ts, "A deadline     *)
(* belongs to exactly one version").                                          *)
DeadlineKept ==
    timer # Null /\ timer.status = "running" =>
        /\ outbox[timer.version].status # "delivered"
        /\ timer.version \notin receipts
        /\ dueAt[timer.version] = timer.endsAt

(* The duration of a is what it has run for, r, and what is left of it. *)
Conserved(a, r) ==
    CASE a.status = "running"   -> r + a.endsAt - a.evaluatedAt = a.durationMs
      [] a.status = "paused"    -> r + a.pausedRemainingMs = a.durationMs
      [] a.status = "completed" -> r = a.durationMs
      [] a.status = "cancelled" -> r >= 0 /\ r < a.durationMs

(* A timer runs for exactly its duration, however often it is paused and      *)
(* resumed and the wall clock is set back: what it has run for and what is    *)
(* left always add up, and a completed timer has run for all of it.           *)
TimeConserved == timer # Null => Conserved(timer, ran)

(* A timer that completed or was cancelled stays so: a late pause, resume or  *)
(* cancel cannot revive or cancel elapsed time (timer-domain.ts), and no      *)
(* running timer completes before its end.                                    *)
NoRevival ==
    [][timer # Null =>
          /\ timer.status \in {"completed", "cancelled"} => timer'.status = timer.status
          /\ timer.status = "running" /\ timer'.status = "completed" => clock >= timer.endsAt
          /\ timer.status = "running" /\ clock >= timer.endsAt /\ timer' # timer
                => timer'.status = "completed" /\ timer'.completedAt = timer.endsAt]_vars

(* A running timer does not hang: its version passes, or its completion event *)
(* is dead-lettered, however often deadlines are superseded, retried, deferred *)
(* or re-armed.                                                               *)
RunningEnds ==
    \A v \in Event : Current(v) ~> ~Current(v) \/ outbox[v].status = "dead-letter"

(* "A wall-clock correction is not a failed job and must not consume retries" *)
(* (timer-worker.service.ts): a run that finds its deadline early, and still  *)
(* holds the claim when it ends, gives the attempt back.                      *)
EarlyRunsKeepTheirAttempt ==
    [][\A s \in Slot : DeferEarly(s) /\ Fence(run[s].e, run[s].t) =>
          outbox'[run[s].e].attempts = run[s].n - 1]_vars
=============================================================================
