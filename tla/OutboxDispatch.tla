---------------------------- MODULE OutboxDispatch ----------------------------
(***************************************************************************)
(* The worker side of the outbox:                                           *)
(*   backend/src/events/outbox-dispatcher.service.ts   tick, dispatch       *)
(*   backend/src/events/outbox-redis.service.ts  enqueue, startWorkers      *)
(*                                                                          *)
(* A tick claims a row and hands the pair (eventId, claimToken) to Redis; a *)
(* BullMQ worker, in this or another process, runs it.  Jobs may be lost,   *)
(* may be kept after a crash, and may run twice at once (BullMQ re-runs a   *)
(* stalled job whose first run can still be alive).                         *)
(*                                                                          *)
(* What a run does between StartJob and AckRun is left to the modules that  *)
(* extend this one.                                                         *)
(***************************************************************************)
EXTENDS OutboxStore

CONSTANTS
    Dispatcher,   \* worker processes, seen through their poll loop (tick)
    Slot,         \* job executions those processes can have in progress
    None          \* null

VARIABLES
    jobs,         \* the BullMQ jobs that Redis currently remembers
    held,         \* the claim a tick has made and not yet handed to Redis
    run           \* what each execution slot is working on

dispatchVars == <<outbox, jobs, held, run>>

Job == [e : Event, t : Nat]

DispatchInit ==
    /\ StoreInit
    /\ jobs = {}
    /\ held = [d \in Dispatcher |-> None]
    /\ run = [s \in Slot |-> None]

(* The table changes by itself: a producer commits or a deadline passes. *)
TableStep(e) ==
    /\ Produce(e) \/ BecomeDue(e) \/ Lapse(e)
    /\ UNCHANGED <<jobs, held, run>>

-----------------------------------------------------------------------------
(* OutboxDispatcher.tick.                                                     *)

Claim(d, q) ==
    /\ held[d] = None
    /\ \/ ClaimNothing(q) /\ UNCHANGED held
       \/ \E c \in Event :
             /\ ClaimRow(q, c)
             /\ held' = [held EXCEPT ![d] = [e |-> c, t |-> outbox[c].issued + 1,
                                             n |-> outbox[c].attempts + 1,
                                             failing |-> FALSE]]
    /\ UNCHANGED <<jobs, run>>

HeldJob(d) == [e |-> held[d].e, t |-> held[d].t]

Enqueue(d) ==
    /\ held[d] # None /\ ~held[d].failing
    /\ jobs' = jobs \cup {HeldJob(d)}
    /\ held' = [held EXCEPT ![d] = None]
    /\ UNCHANGED <<outbox, run>>

(* Redis refuses or times out; the job may have been added all the same. *)
EnqueueFails(d) ==
    /\ held[d] # None /\ ~held[d].failing
    /\ \/ jobs' = jobs \cup {HeldJob(d)}
       \/ UNCHANGED jobs
    /\ held' = [held EXCEPT ![d] = [@ EXCEPT !.failing = TRUE]]
    /\ UNCHANGED <<outbox, run>>

(* The catch block of tick gives the claim back. *)
ReleaseHeld(d) ==
    /\ held[d] # None /\ held[d].failing
    /\ FailRow(held[d].e, held[d].t, held[d].n, FALSE)
    /\ held' = [held EXCEPT ![d] = None]
    /\ UNCHANGED <<jobs, run>>

(* The process dies, or the database call of ReleaseHeld fails. *)
CrashDispatcher(d) ==
    /\ held[d] # None
    /\ held' = [held EXCEPT ![d] = None]
    /\ UNCHANGED <<outbox, jobs, run>>

LoseJob(j) ==
    /\ j \in jobs
    /\ jobs' = jobs \ {j}
    /\ UNCHANGED <<outbox, held, run>>

-----------------------------------------------------------------------------
(* OutboxDispatcher.dispatch, called by a BullMQ worker.  The job stays in    *)
(* Redis until the run ends.                                                  *)

(* The row is read; a job whose claim is gone ends at once. *)
StartJob(s, j) ==
    /\ run[s] = None /\ j \in jobs
    /\ \/ /\ Fence(j.e, j.t)
          /\ run' = [run EXCEPT ![s] = [e |-> j.e, t |-> j.t,
                                        n |-> outbox[j.e].attempts, pc |-> "loaded"]]
          /\ UNCHANGED jobs
       \/ /\ ~Fence(j.e, j.t)
          /\ jobs' = jobs \ {j}
          /\ UNCHANGED run
    /\ UNCHANGED <<outbox, held>>

JobOf(s) == [e |-> run[s].e, t |-> run[s].t]

EndJob(s) ==
    /\ jobs' = jobs \ {JobOf(s)}
    /\ run' = [run EXCEPT ![s] = None]
    /\ UNCHANGED held

(* Mutant: the run is acknowledged before its work is done. *)
AckRunAtOnce(s) ==
    /\ run[s] # None
    /\ AckRow(run[s].e, run[s].t)
    /\ EndJob(s)

(* acknowledge(): the run's work is done and its signal is not aborted. *)
AckRun(s) ==
    /\ run[s] # None /\ run[s].pc = "done"
    /\ AckRow(run[s].e, run[s].t)
    /\ EndJob(s)

(* The catch block of dispatch: a timeout, an abort, a Redis or handler       *)
(* error, an expired claim, or (before any work was done) a bad payload.      *)
FailRun(s) ==
    /\ run[s] # None
    /\ \E invalid \in BOOLEAN :
          /\ invalid => run[s].pc = "loaded" /\ run[s].e \in Malformed
          /\ FailRow(run[s].e, run[s].t, run[s].n, invalid)
    /\ EndJob(s)

(* The worker process dies, or its last database call fails. *)
CrashRun(s) ==
    /\ run[s] # None
    /\ run' = [run EXCEPT ![s] = None]
    /\ UNCHANGED <<outbox, jobs, held>>

DispatchStep ==
    \/ \E e \in Event : TableStep(e)
    \/ \E d \in Dispatcher : \/ \E q \in Queue : Claim(d, q)
                             \/ Enqueue(d) \/ EnqueueFails(d)
                             \/ ReleaseHeld(d) \/ CrashDispatcher(d)
    \/ \E j \in jobs : LoseJob(j) \/ \E s \in Slot : StartJob(s, j)
    \/ \E s \in Slot : AckRun(s) \/ FailRun(s) \/ CrashRun(s)

(* The fairness a live deployment gives the table: clocks advance, some       *)
(* worker keeps polling, and Redis answers a tick or times out.  Nothing is   *)
(* assumed of the runs: a handler may hang or its process die every time.     *)
DispatchFairness ==
    /\ \A e \in Event : /\ WF_outbox(BecomeDue(e) /\ UNCHANGED <<jobs, held, run>>)
                        /\ WF_outbox(Lapse(e) /\ UNCHANGED <<jobs, held, run>>)
    /\ \A q \in Queue : WF_dispatchVars(\E d \in Dispatcher : Claim(d, q))
    /\ \A d \in Dispatcher : /\ WF_dispatchVars(Enqueue(d) \/ EnqueueFails(d))
                             /\ WF_dispatchVars(ReleaseHeld(d))
=============================================================================
