----------------------------- MODULE OutboxStore -----------------------------
(***************************************************************************)
(* The durable outbox table and the writes a claim allows                   *)
(* (backend/src/events/outbox.store.ts: claim, claimFrom, fence, ack, fail).*)
(*                                                                          *)
(* SQLite owns the truth: a row is claimed by compare-and-set under the     *)
(* writer lock, the claim is a lease named by a random token, and every     *)
(* later write of the claim's holder is fenced by that token.               *)
(*                                                                          *)
(* Time is abstract.  A lease ends by an explicit Lapse step and a back-off *)
(* by an explicit BecomeDue step, so every order of clock readings and      *)
(* database steps that the program can meet is a behaviour here.            *)
(*                                                                          *)
(* This module has no specification of its own.  It is extended by          *)
(* OutboxDispatch (who claims and runs) and by OutboxFanout and TimerQueue  *)
(* (what particular events do).                                             *)
(***************************************************************************)
EXTENDS Naturals, FiniteSets

CONSTANTS
    Event,        \* event ids, numbered by rank in (occurredAt, eventId)
    Queue,        \* QUEUE_NAMES
    QueueOf,      \* queueForEvent: the queue an event type is routed to
    Limit,        \* globalConcurrency of each queue
    MaxAttempts,  \* OUTBOX_POLICY.maxAttempts
    BatchSize,    \* OUTBOX_POLICY.batchSize: rows dead-lettered per claim
    Malformed     \* events whose stored payload fails validation

ASSUME StoreAssumption ==
    /\ Event \subseteq Nat
    /\ IsFiniteSet(Event)
    /\ QueueOf \in [Event -> Queue]
    /\ Limit \in [Queue -> Nat \ {0}]
    /\ MaxAttempts \in Nat \ {0}
    /\ BatchSize \in Nat \ {0}
    /\ Malformed \subseteq Event

VARIABLE outbox   \* outbox_events: one row per event id

(***************************************************************************)
(* A row.  token is the claim token (0 is null): the n-th claim of an event *)
(* draws token n, which stands for randomUUID() being fresh; claimOwner is  *)
(* a function of the token and is folded into it.  lapsed says claimUntil   *)
(* has passed, due says availableAt has.                                    *)
(***************************************************************************)
Status == {"absent", "pending", "processing", "delivered", "dead-letter"}
Terminal == {"delivered", "dead-letter"}
Row == [status : Status, attempts : Nat, token : Nat, issued : Nat,
        lapsed : BOOLEAN, due : BOOLEAN]

NoRow == [status |-> "absent", attempts |-> 0, token |-> 0, issued |-> 0,
          lapsed |-> FALSE, due |-> FALSE]

StoreInit == outbox = [e \in Event |-> NoRow]

-----------------------------------------------------------------------------
(* Producers and the passage of time.                                       *)

(* A domain transaction commits an event row, due at once or in the future. *)
Produced(due) == [NoRow EXCEPT !.status = "pending", !.due = due]

Produce(e) ==
    /\ outbox[e].status = "absent"
    /\ \E due \in BOOLEAN : outbox' = [outbox EXCEPT ![e] = Produced(due)]

(* availableAt passes. *)
BecomeDue(e) ==
    /\ outbox[e].status = "pending" /\ ~outbox[e].due
    /\ outbox' = [outbox EXCEPT ![e] = [@ EXCEPT !.due = TRUE]]

(* claimUntil passes. *)
Lapse(e) ==
    /\ outbox[e].status = "processing" /\ ~outbox[e].lapsed
    /\ outbox' = [outbox EXCEPT ![e] = [@ EXCEPT !.lapsed = TRUE]]

-----------------------------------------------------------------------------
(* The WHERE clause of every write made under a claim. *)
Fence(e, t) ==
    /\ outbox[e].status = "processing"
    /\ outbox[e].token = t
    /\ ~outbox[e].lapsed

(* Mutant: the lease of a claim is never looked at again. *)
EligiblePending(e) == outbox[e].status = "pending" /\ outbox[e].due

Eligible(e) ==
    \/ outbox[e].status = "pending" /\ outbox[e].due
    \/ outbox[e].status = "processing" /\ outbox[e].lapsed

(* The unexpired claims that a queue's budget counts. *)
Active(q) == {e \in Event : /\ QueueOf[e] = q
                            /\ outbox[e].status = "processing"
                            /\ ~outbox[e].lapsed}

(* Mutant: the budget is checked against one claim too many. *)
HasCapacityOffByOne(q) == Cardinality(Active(q)) <= Limit[q]

HasCapacity(q) == Cardinality(Active(q)) < Limit[q]

(* Mutant: a row is given up one attempt too late. *)
ExhaustedTooLate(q) == {e \in Event : /\ QueueOf[e] = q
                                      /\ Eligible(e)
                                      /\ outbox[e].attempts > MaxAttempts}

Exhausted(q) == {e \in Event : /\ QueueOf[e] = q
                               /\ Eligible(e)
                               /\ outbox[e].attempts >= MaxAttempts}

(* Mutant: the attempts are not looked at when a row is claimed. *)
ClaimableForever(q) == {e \in Event : QueueOf[e] = q /\ Eligible(e)}

Claimable(q) == {e \in Event : /\ QueueOf[e] = q
                               /\ Eligible(e)
                               /\ outbox[e].attempts < MaxAttempts}

(* What the writes do to a row. *)
Buried(r)    == [r EXCEPT !.status = "dead-letter", !.token = 0, !.lapsed = FALSE]
Claimed(r)   == [status |-> "processing", attempts |-> r.attempts + 1,
                 token |-> r.issued + 1, issued |-> r.issued + 1,
                 lapsed |-> FALSE, due |-> r.due]
Acked(r)     == [r EXCEPT !.status = "delivered", !.token = 0, !.lapsed = FALSE]
Released(r)  == [r EXCEPT !.status = "pending", !.token = 0, !.lapsed = FALSE,
                          !.due = FALSE]

(* claimFrom's first half: at most a batch of the rows whose attempts are     *)
(* used up, in no particular order.                                           *)
BurialBatch(q, D) ==
    /\ D \subseteq Exhausted(q)
    /\ \/ D = Exhausted(q) /\ Cardinality(D) <= BatchSize
       \/ D # Exhausted(q) /\ Cardinality(D) = BatchSize

(* claim() that finds no row to take, and claim() that takes row c. *)
ClaimNothing(q) ==
    /\ HasCapacity(q)
    /\ Claimable(q) = {}
    /\ \E D \in SUBSET Event :
          /\ BurialBatch(q, D)
          /\ outbox' = [e \in Event |-> IF e \in D THEN Buried(outbox[e]) ELSE outbox[e]]

ClaimRow(q, c) ==
    /\ HasCapacity(q)
    /\ c \in Claimable(q)
    /\ \A o \in Claimable(q) : c <= o
    /\ \E D \in SUBSET Event :
          /\ BurialBatch(q, D)
          /\ outbox' = [e \in Event |-> IF e = c THEN Claimed(outbox[e])
                                        ELSE IF e \in D THEN Buried(outbox[e])
                                        ELSE outbox[e]]

(* ack(): only the holder of an unexpired claim reports delivery. *)
AckRow(e, t) ==
    outbox' = IF Fence(e, t) THEN [outbox EXCEPT ![e] = Acked(@)] ELSE outbox

(* Mutants: the last attempt is never made; the row is written without fence. *)
FailRowEarly(e, t, n, invalid) ==
    outbox' = IF Fence(e, t)
              THEN [outbox EXCEPT ![e] = IF invalid \/ n >= MaxAttempts - 1
                                         THEN Buried(@) ELSE Released(@)]
              ELSE outbox

FailRowUnfenced(e, t, n, invalid) ==
    outbox' = [outbox EXCEPT ![e] = IF invalid \/ n >= MaxAttempts
                                    THEN Buried(@) ELSE Released(@)]

(* fail(): back to pending with a back-off, or dead-letter when the payload *)
(* is invalid or n, the attempt number the caller read, is the last one.    *)
FailRow(e, t, n, invalid) ==
    outbox' = IF Fence(e, t)
              THEN [outbox EXCEPT ![e] = IF invalid \/ n >= MaxAttempts
                                         THEN Buried(@) ELSE Released(@)]
              ELSE outbox
=============================================================================
