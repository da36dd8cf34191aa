---------------------------- MODULE OutboxContract ----------------------------
(***************************************************************************)
(* What a domain module may rely on when it commits an outbox event: the    *)
(* effect named by the event's key happens at most once however often the   *)
(* event is attempted, an event is reported delivered only after that       *)
(* effect, a report is final, and every event is eventually reported.       *)
(* docs and code: backend/src/events/outbox.store.ts, outbox-dispatcher     *)
(* .service.ts; outbox_effects is the table of effect receipts.             *)
(***************************************************************************)
EXTENDS Naturals

CONSTANTS Event, EffectKey, KeyOf

VARIABLES
    report,    \* what the outbox says about each event
    effect     \* how often the effect of each key has happened

contractVars == <<report, effect>>

Report == {"absent", "open", "delivered", "dead-letter"}

Init ==
    /\ report = [e \in Event |-> "absent"]
    /\ effect = [k \in EffectKey |-> 0]

Submit(e) ==
    /\ report[e] = "absent"
    /\ report' = [report EXCEPT ![e] = "open"]
    /\ UNCHANGED effect

Perform(e) ==
    /\ report[e] = "open"
    /\ effect[KeyOf[e]] = 0
    /\ effect' = [effect EXCEPT ![KeyOf[e]] = 1]
    /\ UNCHANGED report

ReportDelivered(e) ==
    /\ report[e] = "open"
    /\ effect[KeyOf[e]] = 1
    /\ report' = [report EXCEPT ![e] = "delivered"]
    /\ UNCHANGED effect

(* One claim may bury a whole batch of events. *)
GiveUp(D) ==
    /\ D # {}
    /\ \A e \in D : report[e] = "open"
    /\ report' = [e \in Event |-> IF e \in D THEN "dead-letter" ELSE report[e]]
    /\ UNCHANGED effect

Next ==
    \/ \E e \in Event : Submit(e) \/ Perform(e) \/ ReportDelivered(e)
    \/ \E D \in SUBSET Event : GiveUp(D)

Settle(e) == ReportDelivered(e) \/ \E D \in SUBSET Event : e \in D /\ GiveUp(D)

Safe == Init /\ [][Next]_contractVars

Spec == Safe /\ \A e \in Event : WF_contractVars(Settle(e))
=============================================================================
