----------------------------- MODULE OutboxDomain -----------------------------
(***************************************************************************)
(* Outbox events that a domain handler consumes (outbox-domain-handlers.ts: *)
(* playback.transition.due, timer.completion.due, maintenance, ...).  The   *)
(* handler's whole effect is one SQLite transaction that                    *)
(*   - opens with a write to the event row under the claim's fence,         *)
(*   - returns if the effect key already has a receipt in outbox_effects,   *)
(*   - makes the domain's change, rechecks the fence and stores the receipt *)
(* and only afterwards, in a transaction of its own, is the event reported  *)
(* delivered.  A crash, a lease that ends, a second worker or a lost job    *)
(* may come between any two of these steps.                                 *)
(***************************************************************************)
EXTENDS OutboxDispatch

CONSTANTS
    EffectKey,   \* effectKey(type, aggregate, id, revision)
    KeyOf        \* the key of each event

ASSUME DomainAssumption == KeyOf \in [Event -> EffectKey]

VARIABLES
    receipts,    \* outbox_effects: the keys that have a receipt
    applied      \* how often the domain change of each key was committed

vars == <<outbox, jobs, held, run, receipts, applied>>

Init ==
    /\ DispatchInit
    /\ receipts = {}
    /\ applied = [k \in EffectKey |-> 0]

(* Mutant: the handler does not look for a receipt of its effect. *)
ApplyBlindly(s) ==
    /\ run[s] # None /\ run[s].pc = "loaded"
    /\ run[s].e \notin Malformed
    /\ Fence(run[s].e, run[s].t)
    /\ receipts' = receipts \cup {KeyOf[run[s].e]}
    /\ applied' = [applied EXCEPT ![KeyOf[run[s].e]] = @ + 1]
    /\ run' = [run EXCEPT ![s] = [@ EXCEPT !.pc = "done"]]
    /\ UNCHANGED <<outbox, jobs, held>>

(* The handler's transaction commits.  When the fence fails the handler       *)
(* throws OUTBOX_CLAIM_EXPIRED, which is a FailRun.                           *)
Apply(s) ==
    /\ run[s] # None /\ run[s].pc = "loaded"
    /\ run[s].e \notin Malformed
    /\ Fence(run[s].e, run[s].t)
    /\ LET k == KeyOf[run[s].e] IN
       \/ k \in receipts /\ UNCHANGED <<receipts, applied>>
       \/ /\ k \notin receipts
          /\ receipts' = receipts \cup {k}
          /\ applied' = [applied EXCEPT ![k] = @ + 1]
    /\ run' = [run EXCEPT ![s] = [@ EXCEPT !.pc = "done"]]
    /\ UNCHANGED <<outbox, jobs, held>>

Next ==
    \/ DispatchStep /\ UNCHANGED <<receipts, applied>>
    \/ \E s \in Slot : Apply(s)

Safe == Init /\ [][Next]_vars
Spec == Safe /\ DispatchFairness

-----------------------------------------------------------------------------
(* The state of the tables, the queue and the processes is well formed, and  *)
(* no row uses more attempts than OUTBOX_POLICY.maxAttempts although claims  *)
(* are taken over by several processes (outbox.store.ts claimFrom).          *)
Held == [e : Event, t : Nat, n : Nat, failing : BOOLEAN]
Run  == [e : Event, t : Nat, n : Nat, pc : {"loaded", "done"}]
TypeOK ==
    /\ outbox \in [Event -> Row]
    /\ \A e \in Event : outbox[e].attempts <= MaxAttempts
    /\ jobs \subseteq Job
    /\ held \in [Dispatcher -> Held \cup {None}]
    /\ run \in [Slot -> Run \cup {None}]
    /\ receipts \subseteq EffectKey
    /\ applied \in [EffectKey -> Nat]

(* However many processes claim at once, a queue never has more unexpired     *)
(* claims than its globalConcurrency (outbox.store.ts claim: the writer lock  *)
(* is taken before the count).                                                *)
BudgetRespected == \A q \in Queue : Cardinality(Active(q)) <= Limit[q]

(* The domain change of an effect key is committed at most once, although an  *)
(* event may be attempted by several workers, even at the same time, and may  *)
(* be attempted again after a crash between the change and its ack.           *)
AppliedAtMostOnce == \A k \in EffectKey : applied[k] <= 1

(* An event reported delivered has had its domain change: no order of ack,    *)
(* lapse, takeover and retry reports work that was not committed.             *)
DeliveredMeansApplied ==
    \A e \in Event : outbox[e].status = "delivered" => applied[KeyOf[e]] = 1

(* A row is dead-lettered only for a bad payload or once all its attempts are *)
(* used: the attempt number that fail() compares is the one its caller read   *)
(* when it started, possibly long before (outbox.store.ts fail).              *)
DeadLetterJustified ==
    \A e \in Event : outbox[e].status = "dead-letter" =>
                        e \in Malformed \/ outbox[e].attempts = MaxAttempts

(* A settled row stays as it is: a worker that comes back late, after its     *)
(* claim lapsed and another worker settled the event, changes nothing.        *)
SettledIsFinal ==
    [][\A e \in Event : outbox[e].status \in Terminal => outbox'[e] = outbox[e]]_vars

(* Every attempt the budget allows is at an end eventually, and with it the   *)
(* event: delivered or dead-lettered, whatever crashes and losses occur.      *)
EventuallySettled ==
    \A e \in Event : outbox[e].status = "pending" ~> outbox[e].status \in Terminal

-----------------------------------------------------------------------------
(* The table implements the contract that domain modules rely on.             *)
ReportOf(row) == IF row.status \in {"pending", "processing"} THEN "open" ELSE row.status

Contract == INSTANCE OutboxContract WITH
    report <- [e \in Event |-> ReportOf(outbox[e])],
    effect <- applied

(* Every behaviour of claim, dispatch, handler and ack is a behaviour of the  *)
(* outbox contract: at most one effect per key, delivered only after it,      *)
(* final reports, and a report for every event in the end.                    *)
ImplementsContract == Contract!Spec
=============================================================================
