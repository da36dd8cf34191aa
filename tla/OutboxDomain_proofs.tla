------------------------- MODULE OutboxDomain_proofs -------------------------
(***************************************************************************)
(* Theorems about OutboxDomain, for every set of events, queues, processes  *)
(* and effect keys, and every limit.                                        *)
(*                                                                          *)
(* None of the safety properties is inductive.  fail() compares an attempt  *)
(* number that its caller read long ago, so whether a row may be buried     *)
(* depends on what claims, tokens and attempts have to do with each other:  *)
(* the number a holder remembers is the number of its token, and a row that *)
(* still carries that token has had exactly so many attempts.  And a row    *)
(* may be reported delivered because a run that finished its work left a    *)
(* receipt, which nothing removes.  Inv states these facts.                 *)
(***************************************************************************)
EXTENDS OutboxDomain, FiniteSetTheorems, TLAPS

(* A row's counters and status agree. *)
RowInv(e) ==
    /\ outbox[e].attempts <= MaxAttempts
    /\ outbox[e].attempts = outbox[e].issued
    /\ outbox[e].status = "processing" => outbox[e].token = outbox[e].issued
    /\ outbox[e].status = "dead-letter" =>
            e \in Malformed \/ outbox[e].attempts = MaxAttempts

TableInv ==
    /\ outbox \in [Event -> Row]
    /\ \A e \in Event : RowInv(e)

(* Who holds a claim remembers the number of its attempt. *)
HolderInv ==
    /\ jobs \subseteq Job
    /\ held \in [Dispatcher -> Held \cup {None}]
    /\ run \in [Slot -> Run \cup {None}]
    /\ \A d \in Dispatcher : held[d] # None => held[d].n = held[d].t
    /\ \A s \in Slot : run[s] # None => run[s].n = run[s].t

(* Receipts account for the work of runs and for reports. *)
ReceiptInv ==
    /\ receipts \subseteq EffectKey
    /\ applied = [k \in EffectKey |-> IF k \in receipts THEN 1 ELSE 0]
    /\ \A s \in Slot : run[s] # None /\ run[s].pc = "done" => KeyOf[run[s].e] \in receipts
    /\ \A e \in Event : outbox[e].status = "delivered" => KeyOf[e] \in receipts

Inv == TableInv /\ HolderInv /\ ReceiptInv

-----------------------------------------------------------------------------
(* What a step of the table keeps: its invariant and every settled row.       *)
Keeps ==
    /\ TableInv'
    /\ \A e \in Event : outbox[e].status \in Terminal => outbox'[e] = outbox[e]

(* Nothing is newly reported delivered. *)
NoDelivery ==
    \A e \in Event : outbox'[e].status = "delivered" => outbox[e].status = "delivered"

(* One row that is not settled is replaced by a sound one. *)
LEMMA RowReplaced ==
    ASSUME TableInv, NEW e \in Event, NEW r \in Row,
           outbox' = [outbox EXCEPT ![e] = r],
           outbox[e].status \notin Terminal,
           r.attempts <= MaxAttempts,
           r.attempts = r.issued,
           r.status = "processing" => r.token = r.issued,
           r.status = "dead-letter" => e \in Malformed \/ r.attempts = MaxAttempts
    PROVE  /\ Keeps
           /\ outbox'[e] = r
           /\ \A f \in Event : f # e => outbox'[f] = outbox[f]
           /\ r.status # "delivered" => NoDelivery
<1>1. outbox' \in [Event -> Row]
  BY DEF TableInv
<1>2. ASSUME NEW f \in Event
      PROVE  RowInv(f)' /\ (outbox[f].status \in Terminal => outbox'[f] = outbox[f])
  <2>1. CASE f = e
    <3>1. outbox'[f] = r
      BY <2>1 DEF TableInv
    <3> QED BY <2>1, <3>1 DEF RowInv, TableInv
  <2>2. CASE f # e
    <3>1. outbox'[f] = outbox[f]
      BY <2>2 DEF TableInv
    <3> QED BY <3>1 DEF RowInv, TableInv
  <2> QED BY <2>1, <2>2
<1>3. outbox'[e] = r /\ \A f \in Event : f # e => outbox'[f] = outbox[f]
  BY DEF TableInv
<1> QED BY <1>1, <1>2, <1>3 DEF Keeps, TableInv, NoDelivery

(* A producer's commit and the passage of time keep the table. *)
LEMMA TableStepKeeps ==
    ASSUME TableInv, NEW e \in Event, Produce(e) \/ BecomeDue(e) \/ Lapse(e)
    PROVE  Keeps /\ NoDelivery
<1>1. outbox[e] \in Row /\ RowInv(e)
  BY DEF TableInv
<1>2. CASE Produce(e)
  <2>1. outbox[e].status = "absent"
    BY <1>2 DEF Produce
  <2>2. PICK due \in BOOLEAN : outbox' = [outbox EXCEPT ![e] = Produced(due)]
    BY <1>2 DEF Produce
  <2>3. /\ Produced(due) \in Row
        /\ Produced(due).status = "pending"
        /\ Produced(due).attempts = 0 /\ Produced(due).issued = 0
    BY DEF Produced, NoRow, Row, Status
  <2>4. outbox[e].status \notin Terminal /\ 0 <= MaxAttempts
    BY <2>1, StoreAssumption DEF Terminal
  <2> QED BY <2>2, <2>3, <2>4, RowReplaced
<1>3. CASE BecomeDue(e)
  <2> DEFINE r == [outbox[e] EXCEPT !.due = TRUE]
  <2>1. outbox[e].status = "pending" /\ outbox' = [outbox EXCEPT ![e] = r]
    BY <1>3 DEF BecomeDue
  <2>2. /\ r \in Row /\ r.status = outbox[e].status
        /\ r.attempts = outbox[e].attempts /\ r.issued = outbox[e].issued
    BY <1>1 DEF Row
  <2>3. outbox[e].status \notin Terminal
    BY <2>1 DEF Terminal
  <2> HIDE DEF r
  <2> QED BY <1>1, <2>1, <2>2, <2>3, RowReplaced DEF RowInv
<1>4. CASE Lapse(e)
  <2> DEFINE r == [outbox[e] EXCEPT !.lapsed = TRUE]
  <2>1. outbox[e].status = "processing" /\ outbox' = [outbox EXCEPT ![e] = r]
    BY <1>4 DEF Lapse
  <2>2. /\ r \in Row /\ r.status = outbox[e].status /\ r.token = outbox[e].token
        /\ r.attempts = outbox[e].attempts /\ r.issued = outbox[e].issued
    BY <1>1 DEF Row
  <2>3. outbox[e].status \notin Terminal
    BY <2>1 DEF Terminal
  <2> HIDE DEF r
  <2> QED BY <1>1, <2>1, <2>2, <2>3, RowReplaced DEF RowInv
<1> QED BY <1>2, <1>3, <1>4

(* The rows that a claim gives up have had all their attempts. *)
LEMMA BurialKeeps ==
    ASSUME TableInv, NEW q \in Queue, NEW D \in SUBSET Event, BurialBatch(q, D),
           NEW e \in D
    PROVE  /\ Buried(outbox[e]) \in Row
           /\ outbox[e].attempts = MaxAttempts
           /\ outbox[e].status \notin Terminal
           /\ Buried(outbox[e]).status = "dead-letter"
           /\ Buried(outbox[e]).attempts = outbox[e].attempts
           /\ Buried(outbox[e]).issued = outbox[e].issued
<1>1. Eligible(e) /\ outbox[e].attempts >= MaxAttempts
  BY DEF BurialBatch, Exhausted
<1>2. outbox[e] \in Row /\ outbox[e].attempts <= MaxAttempts
  BY DEF TableInv, RowInv
<1>3. outbox[e].attempts = MaxAttempts
  BY <1>1, <1>2, StoreAssumption DEF Row
<1>4. outbox[e].status \notin Terminal
  BY <1>1 DEF Eligible, Terminal
<1> QED BY <1>2, <1>3, <1>4 DEF Buried, Row, Status

LEMMA ClaimNothingKeeps ==
    ASSUME TableInv, NEW q \in Queue, ClaimNothing(q)
    PROVE  Keeps /\ NoDelivery
<1>1. PICK D \in SUBSET Event :
        /\ BurialBatch(q, D)
        /\ outbox' = [e \in Event |-> IF e \in D THEN Buried(outbox[e]) ELSE outbox[e]]
  BY DEF ClaimNothing
<1>2. outbox' \in [Event -> Row]
  BY <1>1, BurialKeeps DEF TableInv
<1>3. ASSUME NEW e \in Event
      PROVE  /\ RowInv(e)'
             /\ outbox[e].status \in Terminal => outbox'[e] = outbox[e]
             /\ outbox'[e].status = "delivered" => outbox[e].status = "delivered"
  <2>1. CASE e \in D
    <3>1. outbox'[e] = Buried(outbox[e])
      BY <1>1, <2>1
    <3> QED BY <1>1, <2>1, <3>1, BurialKeeps, StoreAssumption DEF RowInv, TableInv, Row
  <2>2. CASE e \notin D
    BY <1>1, <2>2 DEF RowInv, TableInv
  <2> QED BY <2>1, <2>2
<1> QED BY <1>2, <1>3 DEF Keeps, TableInv, NoDelivery

(* A claim takes the next token with the next attempt. *)
LEMMA ClaimedRow ==
    ASSUME NEW r \in Row
    PROVE  /\ Claimed(r) \in Row
           /\ Claimed(r).status = "processing"
           /\ Claimed(r).attempts = r.attempts + 1
           /\ Claimed(r).issued = r.issued + 1
           /\ Claimed(r).token = r.issued + 1
<1>1. /\ r.attempts \in Nat /\ r.issued \in Nat /\ r.due \in BOOLEAN
  BY DEF Row
<1>2. r.attempts + 1 \in Nat /\ r.issued + 1 \in Nat
  BY <1>1
<1> QED BY <1>1, <1>2 DEF Claimed, Row, Status

LEMMA ClaimRowKeeps ==
    ASSUME TableInv, NEW q \in Queue, NEW c \in Event, ClaimRow(q, c)
    PROVE  Keeps /\ NoDelivery
<1>1. PICK D \in SUBSET Event :
        /\ BurialBatch(q, D)
        /\ outbox' = [e \in Event |-> IF e = c THEN Claimed(outbox[e])
                                      ELSE IF e \in D THEN Buried(outbox[e])
                                      ELSE outbox[e]]
  BY DEF ClaimRow
<1>2. /\ Eligible(c) /\ outbox[c].attempts < MaxAttempts
      /\ outbox[c] \in Row /\ RowInv(c)
  BY DEF ClaimRow, Claimable, TableInv
<1>3. /\ Claimed(outbox[c]) \in Row
      /\ Claimed(outbox[c]).status = "processing"
      /\ Claimed(outbox[c]).attempts = outbox[c].attempts + 1
      /\ Claimed(outbox[c]).issued = outbox[c].issued + 1
      /\ Claimed(outbox[c]).token = outbox[c].issued + 1
  BY <1>2, ClaimedRow
<1>4. outbox' \in [Event -> Row]
  BY <1>1, <1>3, BurialKeeps DEF TableInv
<1>5. ASSUME NEW e \in Event
      PROVE  /\ RowInv(e)'
             /\ outbox[e].status \in Terminal => outbox'[e] = outbox[e]
             /\ outbox'[e].status = "delivered" => outbox[e].status = "delivered"
  <2>1. CASE e = c
    <3>1. outbox'[e] = Claimed(outbox[c])
      BY <1>1, <2>1
    <3>2. outbox[c].status \notin Terminal
      BY <1>2 DEF Eligible, Terminal
    <3> QED BY <1>2, <1>3, <2>1, <3>1, <3>2, StoreAssumption DEF RowInv, TableInv, Row
  <2>2. CASE e # c /\ e \in D
    <3>1. outbox'[e] = Buried(outbox[e])
      BY <1>1, <2>2
    <3> QED BY <1>1, <2>2, <3>1, BurialKeeps, StoreAssumption DEF RowInv, TableInv, Row
  <2>3. CASE e # c /\ e \notin D
    BY <1>1, <2>3 DEF RowInv, TableInv
  <2> QED BY <2>1, <2>2, <2>3
<1> QED BY <1>4, <1>5 DEF Keeps, TableInv, NoDelivery

(* An ack changes its own row at most, and only under the fence. *)
LEMMA AckRowKeeps ==
    ASSUME TableInv, NEW e \in Event, NEW t, AckRow(e, t)
    PROVE  /\ Keeps
           /\ \A f \in Event : f # e => outbox'[f] = outbox[f]
<1>1. CASE ~Fence(e, t)
  BY <1>1 DEF AckRow, Keeps, TableInv, RowInv
<1>2. CASE Fence(e, t)
  <2>1. outbox[e] \in Row /\ RowInv(e)
    BY DEF TableInv
  <2>2. outbox[e].status \notin Terminal
    BY <1>2 DEF Fence, Terminal
  <2>3. /\ Acked(outbox[e]) \in Row
        /\ Acked(outbox[e]).status = "delivered"
        /\ Acked(outbox[e]).attempts = outbox[e].attempts
        /\ Acked(outbox[e]).issued = outbox[e].issued
    BY <2>1 DEF Acked, Row, Status
  <2>4. outbox' = [outbox EXCEPT ![e] = Acked(outbox[e])]
    BY <1>2 DEF AckRow
  <2> QED BY <2>1, <2>2, <2>3, <2>4, RowReplaced DEF RowInv
<1> QED BY <1>1, <1>2

(* A holder that reports a failure knows which attempt it made, so it buries  *)
(* a row only after the last one.                                             *)
LEMMA FailRowKeeps ==
    ASSUME TableInv, NEW e \in Event, NEW n \in Nat, NEW invalid \in BOOLEAN,
           invalid => e \in Malformed, FailRow(e, n, n, invalid)
    PROVE  Keeps /\ NoDelivery
<1>1. CASE ~Fence(e, n)
  BY <1>1 DEF FailRow, Keeps, NoDelivery, TableInv, RowInv
<1>2. CASE Fence(e, n)
  <2> DEFINE r == IF invalid \/ n >= MaxAttempts THEN Buried(outbox[e]) ELSE Released(outbox[e])
  <2>1. outbox[e] \in Row /\ RowInv(e)
    BY DEF TableInv
  <2>2. outbox[e].status = "processing" /\ outbox[e].attempts = n
    BY <1>2, <2>1 DEF Fence, RowInv
  <2>3. /\ Buried(outbox[e]) \in Row /\ Released(outbox[e]) \in Row
        /\ Buried(outbox[e]).status = "dead-letter"
        /\ Released(outbox[e]).status = "pending"
        /\ Buried(outbox[e]).attempts = outbox[e].attempts
        /\ Buried(outbox[e]).issued = outbox[e].issued
        /\ Released(outbox[e]).attempts = outbox[e].attempts
        /\ Released(outbox[e]).issued = outbox[e].issued
    BY <2>1 DEF Buried, Released, Row, Status
  <2>4. outbox' = [outbox EXCEPT ![e] = r]
    BY <1>2 DEF FailRow
  <2>5. /\ r \in Row /\ r.attempts = outbox[e].attempts /\ r.issued = outbox[e].issued
        /\ r.status \in {"dead-letter", "pending"}
    BY <2>3
  <2>6. r.status = "dead-letter" => invalid \/ n >= MaxAttempts
    BY <2>3
  <2>7. r.status = "dead-letter" => e \in Malformed \/ r.attempts = MaxAttempts
    BY <2>1, <2>2, <2>5, <2>6, StoreAssumption DEF RowInv
  <2>8. outbox[e].status \notin Terminal
    BY <2>2 DEF Terminal
  <2> HIDE DEF r
  <2> QED BY <2>1, <2>4, <2>5, <2>7, <2>8, RowReplaced DEF RowInv
<1> QED BY <1>1, <1>2

LEMMA TableUnchanged ==
    ASSUME TableInv, UNCHANGED outbox
    PROVE  Keeps /\ NoDelivery
BY DEF Keeps, NoDelivery, TableInv, RowInv

-----------------------------------------------------------------------------
(* Every step of the dispatchers and the runs.                                *)

(* Receipts stay in order when no run finishes and no row is acknowledged. *)
LEMMA ReceiptsKept ==
    ASSUME ReceiptInv, UNCHANGED <<receipts, applied>>, NoDelivery,
           \A s \in Slot : run'[s] = run[s] \/ run'[s] = None \/ run'[s].pc = "loaded"
    PROVE  ReceiptInv'
BY DEF ReceiptInv, NoDelivery

LEMMA ClaimPreserves ==
    ASSUME Inv, NEW d \in Dispatcher, NEW q \in Queue, Claim(d, q),
           UNCHANGED <<receipts, applied>>
    PROVE  Inv' /\ Keeps
<1> USE DEF Inv
<1>1. CASE ClaimNothing(q) /\ UNCHANGED held
  <2>1. Keeps /\ NoDelivery
    BY <1>1, ClaimNothingKeeps
  <2>2. HolderInv'
    BY <1>1 DEF Claim, HolderInv
  <2>3. ReceiptInv'
    BY <2>1, ReceiptsKept DEF Claim
  <2> QED BY <2>1, <2>2, <2>3 DEF Keeps
<1>2. CASE ~(ClaimNothing(q) /\ UNCHANGED held)
  <2>1. PICK c \in Event :
          /\ ClaimRow(q, c)
          /\ held' = [held EXCEPT ![d] = [e |-> c, t |-> outbox[c].issued + 1,
                                          n |-> outbox[c].attempts + 1, failing |-> FALSE]]
    BY <1>2 DEF Claim
  <2>2. Keeps /\ NoDelivery
    BY <2>1, ClaimRowKeeps
  <2>3. outbox[c] \in Row /\ outbox[c].attempts = outbox[c].issued
    BY DEF TableInv, RowInv
  <2>4. [e |-> c, t |-> outbox[c].issued + 1,
         n |-> outbox[c].attempts + 1, failing |-> FALSE] \in Held
    BY <2>3 DEF Held, Row
  <2>5. HolderInv'
    BY <2>1, <2>3, <2>4 DEF Claim, HolderInv
  <2>6. ReceiptInv'
    BY <2>2, ReceiptsKept DEF Claim
  <2> QED BY <2>2, <2>5, <2>6 DEF Keeps
<1> QED BY <1>1, <1>2

(* Enqueue, EnqueueFails, CrashDispatcher and LoseJob leave the table alone. *)
LEMMA HandoverPreserves ==
    ASSUME Inv, UNCHANGED <<receipts, applied>>,
           \/ \E d \in Dispatcher : Enqueue(d) \/ EnqueueFails(d) \/ CrashDispatcher(d)
           \/ \E j \in jobs : LoseJob(j)
    PROVE  Inv' /\ Keeps
<1> USE DEF Inv
<1>1. UNCHANGED <<outbox, run>>
  BY DEF Enqueue, EnqueueFails, CrashDispatcher, LoseJob
<1>2. Keeps /\ NoDelivery
  BY <1>1, TableUnchanged
<1>3. ReceiptInv'
  BY <1>1, <1>2, ReceiptsKept
<1>4. HolderInv'
  <2>1. CASE \E j \in jobs : LoseJob(j)
    BY <2>1 DEF LoseJob, HolderInv
  <2>2. ASSUME NEW d \in Dispatcher, Enqueue(d) \/ EnqueueFails(d) \/ CrashDispatcher(d)
        PROVE  HolderInv'
    <3>1. CASE CrashDispatcher(d)
      BY <3>1 DEF CrashDispatcher, HolderInv
    <3>2. CASE Enqueue(d) \/ EnqueueFails(d)
      <4>1. held[d] \in Held /\ held[d].n = held[d].t
        BY <3>2 DEF Enqueue, EnqueueFails, HolderInv
      <4>2. HeldJob(d) \in Job
        BY <4>1 DEF HeldJob, Held, Job
      <4>3. [held[d] EXCEPT !.failing = TRUE] \in Held
            /\ [held[d] EXCEPT !.failing = TRUE].n = [held[d] EXCEPT !.failing = TRUE].t
        BY <4>1 DEF Held
      <4>4. jobs' \subseteq Job
        BY <3>2, <4>2 DEF Enqueue, EnqueueFails, HolderInv
      <4>5. CASE Enqueue(d)
        BY <1>1, <4>4, <4>5 DEF Enqueue, HolderInv
      <4>6. CASE EnqueueFails(d)
        BY <1>1, <4>3, <4>4, <4>6 DEF EnqueueFails, HolderInv
      <4> QED BY <3>2, <4>5, <4>6
    <3> QED BY <2>2, <3>1, <3>2
  <2> QED BY <2>1, <2>2
<1> QED BY <1>2, <1>3, <1>4 DEF Keeps

LEMMA ReleaseHeldPreserves ==
    ASSUME Inv, NEW d \in Dispatcher, ReleaseHeld(d), UNCHANGED <<receipts, applied>>
    PROVE  Inv' /\ Keeps
<1> USE DEF Inv
<1>1. held[d] \in Held /\ held[d].n = held[d].t
  BY DEF ReleaseHeld, HolderInv
<1>2. held[d].e \in Event /\ held[d].n \in Nat
  BY <1>1 DEF Held
<1>3. FailRow(held[d].e, held[d].n, held[d].n, FALSE)
  BY <1>1 DEF ReleaseHeld
<1>4. Keeps /\ NoDelivery
  BY <1>2, <1>3, FailRowKeeps
<1>5. HolderInv'
  BY DEF ReleaseHeld, HolderInv
<1>6. ReceiptInv'
  BY <1>4, ReceiptsKept DEF ReleaseHeld
<1> QED BY <1>4, <1>5, <1>6 DEF Keeps

LEMMA StartJobPreserves ==
    ASSUME Inv, NEW s \in Slot, NEW j \in jobs, StartJob(s, j),
           UNCHANGED <<receipts, applied>>
    PROVE  Inv' /\ Keeps
<1> USE DEF Inv
<1>1. Keeps /\ NoDelivery
  BY TableUnchanged DEF StartJob
<1>2. CASE ~Fence(j.e, j.t)
  <2>1. HolderInv'
    BY <1>2 DEF StartJob, HolderInv
  <2>2. ReceiptInv'
    BY <1>1, <1>2, ReceiptsKept DEF StartJob
  <2> QED BY <1>1, <2>1, <2>2 DEF Keeps
<1>3. CASE Fence(j.e, j.t)
  <2> DEFINE r == [e |-> j.e, t |-> j.t, n |-> outbox[j.e].attempts, pc |-> "loaded"]
  <2>1. j.e \in Event /\ j.t \in Nat
    BY DEF HolderInv, Job
  <2>2. outbox[j.e].attempts = j.t
    BY <1>3, <2>1 DEF Fence, TableInv, RowInv
  <2>3. r \in Run /\ r.n = r.t /\ r.pc = "loaded"
    BY <2>1, <2>2 DEF Run
  <2>4. run' = [run EXCEPT ![s] = r] /\ UNCHANGED <<jobs, held>>
    BY <1>3 DEF StartJob
  <2> HIDE DEF r
  <2>5. HolderInv'
    BY <2>3, <2>4 DEF HolderInv
  <2>6. run \in [Slot -> Run \cup {None}]
    BY DEF HolderInv
  <2>7. ReceiptInv'
    BY <1>1, <2>3, <2>4, <2>6, ReceiptsKept
  <2> QED BY <1>1, <2>5, <2>7 DEF Keeps
<1> QED BY <1>2, <1>3

(* A run that ends leaves what the others hold as it is. *)
LEMMA EndKeepsHolders ==
    ASSUME HolderInv, NEW s \in Slot, UNCHANGED held, jobs' \subseteq jobs,
           run' = [run EXCEPT ![s] = None]
    PROVE  /\ HolderInv'
           /\ \A z \in Slot : run'[z] = run[z] \/ run'[z] = None
BY DEF HolderInv

LEMMA AckRunPreserves ==
    ASSUME Inv, NEW s \in Slot, AckRun(s), UNCHANGED <<receipts, applied>>
    PROVE  Inv' /\ Keeps
<1> USE DEF Inv
<1>1. run[s] \in Run /\ run[s].pc = "done" /\ run[s].e \in Event
  BY DEF AckRun, HolderInv, Run
<1>2. KeyOf[run[s].e] \in receipts
  BY <1>1 DEF AckRun, ReceiptInv
<1>3. /\ Keeps
      /\ \A f \in Event : f # run[s].e => outbox'[f] = outbox[f]
  BY <1>1, AckRowKeeps DEF AckRun
<1>4. /\ HolderInv'
      /\ \A z \in Slot : run'[z] = run[z] \/ run'[z] = None
  BY EndKeepsHolders DEF AckRun, EndJob
<1>5. ReceiptInv'
  BY <1>2, <1>3, <1>4 DEF ReceiptInv
<1> QED BY <1>3, <1>4, <1>5 DEF Keeps

LEMMA FailRunPreserves ==
    ASSUME Inv, NEW s \in Slot, FailRun(s), UNCHANGED <<receipts, applied>>
    PROVE  Inv' /\ Keeps
<1> USE DEF Inv
<1>1. run[s] \in Run /\ run[s].n = run[s].t
  BY DEF FailRun, HolderInv
<1>2. run[s].e \in Event /\ run[s].n \in Nat
  BY <1>1 DEF Run
<1>3. PICK invalid \in BOOLEAN :
        /\ invalid => run[s].e \in Malformed
        /\ FailRow(run[s].e, run[s].n, run[s].n, invalid)
  BY <1>1 DEF FailRun
<1>4. Keeps /\ NoDelivery
  BY <1>2, <1>3, FailRowKeeps
<1>5. /\ HolderInv'
      /\ \A z \in Slot : run'[z] = run[z] \/ run'[z] = None
  BY EndKeepsHolders DEF FailRun, EndJob
<1>6. ReceiptInv'
  BY <1>4, <1>5, ReceiptsKept
<1> QED BY <1>4, <1>5, <1>6 DEF Keeps

LEMMA CrashRunPreserves ==
    ASSUME Inv, NEW s \in Slot, CrashRun(s), UNCHANGED <<receipts, applied>>
    PROVE  Inv' /\ Keeps
<1> USE DEF Inv
<1>1. Keeps /\ NoDelivery
  BY TableUnchanged DEF CrashRun
<1>2. /\ HolderInv'
      /\ \A z \in Slot : run'[z] = run[z] \/ run'[z] = None
  BY EndKeepsHolders DEF CrashRun
<1>3. ReceiptInv'
  BY <1>1, <1>2, ReceiptsKept
<1> QED BY <1>1, <1>2, <1>3 DEF Keeps

(* The handler's transaction leaves a receipt and counts its change once. *)
LEMMA ApplyPreserves ==
    ASSUME Inv, NEW s \in Slot, Apply(s)
    PROVE  Inv' /\ Keeps
<1> USE DEF Inv
<1> DEFINE r == [run[s] EXCEPT !.pc = "done"]
<1>1. run[s] \in Run /\ run[s].n = run[s].t /\ run[s].e \in Event
  BY DEF Apply, HolderInv, Run
<1>2. Keeps
  BY TableUnchanged DEF Apply
<1>3. r \in Run /\ r.n = r.t /\ r.e = run[s].e
  BY <1>1 DEF Run
<1>4. run' = [run EXCEPT ![s] = r] /\ UNCHANGED <<outbox, jobs, held>>
  BY DEF Apply
<1>5. KeyOf[run[s].e] \in EffectKey
  BY <1>1, DomainAssumption
<1>6. /\ receipts' = receipts \cup {KeyOf[run[s].e]}
      /\ applied' = [k \in EffectKey |-> IF k \in receipts' THEN 1 ELSE 0]
  BY <1>5 DEF Apply, ReceiptInv
<1> HIDE DEF r
<1>7. HolderInv'
  BY <1>3, <1>4 DEF HolderInv
<1>8. run \in [Slot -> Run \cup {None}]
  BY DEF HolderInv
<1>9. ReceiptInv'
  BY <1>3, <1>4, <1>5, <1>6, <1>8 DEF ReceiptInv
<1> QED BY <1>2, <1>7, <1>9 DEF Keeps

LEMMA TablePreserves ==
    ASSUME Inv, NEW e \in Event, TableStep(e), UNCHANGED <<receipts, applied>>
    PROVE  Inv' /\ Keeps
<1> USE DEF Inv
<1>1. Keeps /\ NoDelivery
  BY TableStepKeeps DEF TableStep
<1>2. HolderInv'
  BY DEF TableStep, HolderInv
<1>3. ReceiptInv'
  BY <1>1, ReceiptsKept DEF TableStep
<1> QED BY <1>1, <1>2, <1>3 DEF Keeps

-----------------------------------------------------------------------------
(* Inv is inductive, and no step touches a settled row. *)
LEMMA InitEstablishes == Init => Inv
<1> SUFFICES ASSUME Init PROVE Inv
  OBVIOUS
<1> USE DEF Init, DispatchInit, StoreInit
<1>1. TableInv
  BY StoreAssumption DEF TableInv, RowInv, NoRow, Row, Status
<1>2. HolderInv
  BY DEF HolderInv
<1>3. ReceiptInv
  BY DEF ReceiptInv, NoRow
<1> QED BY <1>1, <1>2, <1>3 DEF Inv

LEMMA StepPreserves ==
    ASSUME Inv, [Next]_vars
    PROVE  Inv' /\ Keeps
<1>1. CASE UNCHANGED vars
  <2>1. Keeps /\ NoDelivery
    BY <1>1, TableUnchanged DEF vars, Inv
  <2> QED
    BY <1>1, <2>1 DEF vars, Inv, Keeps, HolderInv, ReceiptInv
<1>2. ASSUME NEW s \in Slot, Apply(s) PROVE Inv' /\ Keeps
  BY <1>2, ApplyPreserves
<1>3. CASE DispatchStep /\ UNCHANGED <<receipts, applied>>
  <2>1. ASSUME NEW e \in Event, TableStep(e) PROVE Inv' /\ Keeps
    BY <1>3, <2>1, TablePreserves
  <2>2. ASSUME NEW d \in Dispatcher, NEW q \in Queue, Claim(d, q) PROVE Inv' /\ Keeps
    BY <1>3, <2>2, ClaimPreserves
  <2>3. ASSUME NEW d \in Dispatcher, Enqueue(d) \/ EnqueueFails(d) \/ CrashDispatcher(d)
        PROVE Inv' /\ Keeps
    BY <1>3, <2>3, HandoverPreserves
  <2>4. ASSUME NEW d \in Dispatcher, ReleaseHeld(d) PROVE Inv' /\ Keeps
    BY <1>3, <2>4, ReleaseHeldPreserves
  <2>5. ASSUME NEW j \in jobs, LoseJob(j) PROVE Inv' /\ Keeps
    BY <1>3, <2>5, HandoverPreserves
  <2>6. ASSUME NEW j \in jobs, NEW s \in Slot, StartJob(s, j) PROVE Inv' /\ Keeps
    BY <1>3, <2>6, StartJobPreserves
  <2>7. ASSUME NEW s \in Slot, AckRun(s) PROVE Inv' /\ Keeps
    BY <1>3, <2>7, AckRunPreserves
  <2>8. ASSUME NEW s \in Slot, FailRun(s) PROVE Inv' /\ Keeps
    BY <1>3, <2>8, FailRunPreserves
  <2>9. ASSUME NEW s \in Slot, CrashRun(s) PROVE Inv' /\ Keeps
    BY <1>3, <2>9, CrashRunPreserves
  <2> QED
    BY <1>3, <2>1, <2>2, <2>3, <2>4, <2>5, <2>6, <2>7, <2>8, <2>9 DEF DispatchStep
<1> QED BY <1>1, <1>2, <1>3 DEF Next

(* Claims, tokens, attempts and receipts agree in every reachable state. *)
THEOREM InvHolds == Safe => []Inv
<1>1. Inv /\ [Next]_vars => Inv'
  BY StepPreserves
<1> QED BY <1>1, InitEstablishes, PTL DEF Safe

-----------------------------------------------------------------------------
(* The tables, the queue and the processes are always well formed, and no row *)
(* ever uses more attempts than the policy allows.                            *)
THEOREM TypeCorrect == Safe => []TypeOK
<1>1. Inv => TypeOK
  <2> SUFFICES ASSUME Inv PROVE TypeOK
    OBVIOUS
  <2>1. \A k \in EffectKey : applied[k] \in Nat
    BY DEF Inv, ReceiptInv
  <2>2. applied \in [EffectKey -> Nat]
    BY <2>1 DEF Inv, ReceiptInv
  <2> QED
    BY <2>2 DEF Inv, TableInv, RowInv, HolderInv, ReceiptInv, TypeOK
<1> QED BY <1>1, InvHolds, PTL

(* The change of an effect key is committed at most once, whatever crashes,   *)
(* takeovers and re-runs its events go through.                               *)
THEOREM EffectOnce == Safe => []AppliedAtMostOnce
<1>1. Inv => AppliedAtMostOnce
  BY DEF Inv, ReceiptInv, AppliedAtMostOnce
<1> QED BY <1>1, InvHolds, PTL

(* An event that is reported delivered has had its effect. *)
THEOREM DeliveryJustified == Safe => []DeliveredMeansApplied
<1>1. Inv => DeliveredMeansApplied
  BY DomainAssumption DEF Inv, ReceiptInv, DeliveredMeansApplied
<1> QED BY <1>1, InvHolds, PTL

(* A row is given up only for a bad payload or after its last attempt. *)
THEOREM BurialJustified == Safe => []DeadLetterJustified
<1>1. Inv => DeadLetterJustified
  BY DEF Inv, TableInv, RowInv, DeadLetterJustified
<1> QED BY <1>1, InvHolds, PTL

(* No late worker touches a row that another one settled. *)
THEOREM SettlementFinal == Safe => SettledIsFinal
<1>1. Inv /\ [Next]_vars =>
        [\A e \in Event : outbox[e].status \in Terminal => outbox'[e] = outbox[e]]_vars
  BY StepPreserves DEF Keeps
<1> QED BY <1>1, InvHolds, PTL DEF Safe, SettledIsFinal

-----------------------------------------------------------------------------
(* Capacity.  Only a claim makes a row active, and it looks at the capacity   *)
(* of its queue in the same transaction.                                      *)
IsActive(e) == outbox[e].status = "processing" /\ ~outbox[e].lapsed

NoneActivated == \A e \in Event : IsActive(e)' => IsActive(e)

LEMMA BurialActivatesNone ==
    ASSUME NEW r \in Row
    PROVE  Buried(r).status # "processing"
BY DEF Buried, Row

LEMMA TableActivatesNone ==
    ASSUME TableInv, NEW e \in Event, Produce(e) \/ BecomeDue(e) \/ Lapse(e)
    PROVE  NoneActivated
<1>1. outbox[e] \in Row
  BY DEF TableInv
<1>2. \A f \in Event : f # e => outbox'[f] = outbox[f]
  BY DEF Produce, BecomeDue, Lapse, TableInv
<1>3. ~IsActive(e)'
  <2>1. CASE Produce(e)
    <3>1. PICK due \in BOOLEAN : outbox'[e] = Produced(due)
      BY <2>1 DEF Produce, TableInv
    <3> QED BY <3>1 DEF Produced, NoRow, IsActive
  <2>2. CASE BecomeDue(e)
    <3>1. outbox'[e].status = outbox[e].status
      BY <1>1, <2>2 DEF BecomeDue, TableInv, Row
    <3> QED BY <2>2, <3>1 DEF BecomeDue, IsActive
  <2>3. CASE Lapse(e)
    <3>1. outbox'[e].lapsed = TRUE
      BY <1>1, <2>3 DEF Lapse, TableInv, Row
    <3> QED BY <3>1 DEF IsActive
  <2> QED BY <2>1, <2>2, <2>3
<1> QED BY <1>2, <1>3 DEF NoneActivated, IsActive

LEMMA ClaimActivatesOne ==
    ASSUME TableInv, NEW q \in Queue
    PROVE  /\ ClaimNothing(q) => NoneActivated
           /\ \A c \in Event : ClaimRow(q, c) =>
                 \A e \in Event : e # c => (IsActive(e)' => IsActive(e))
<1>1. ASSUME ClaimNothing(q) PROVE NoneActivated
  <2>1. PICK D \in SUBSET Event :
          outbox' = [e \in Event |-> IF e \in D THEN Buried(outbox[e]) ELSE outbox[e]]
    BY <1>1 DEF ClaimNothing
  <2> QED BY <2>1, BurialActivatesNone DEF NoneActivated, IsActive, TableInv
<1>2. ASSUME NEW c \in Event, ClaimRow(q, c), NEW e \in Event, e # c
      PROVE  IsActive(e)' => IsActive(e)
  <2>1. PICK D \in SUBSET Event :
          outbox' = [f \in Event |-> IF f = c THEN Claimed(outbox[f])
                                     ELSE IF f \in D THEN Buried(outbox[f])
                                     ELSE outbox[f]]
    BY <1>2 DEF ClaimRow
  <2>2. outbox'[e] = outbox[e] \/ outbox'[e] = Buried(outbox[e])
    BY <1>2, <2>1
  <2> QED BY <2>2, BurialActivatesNone DEF IsActive, TableInv
<1> QED BY <1>1, <1>2

LEMMA ReportActivatesNone ==
    ASSUME TableInv, NEW e \in Event, NEW t, NEW n, NEW invalid,
           AckRow(e, t) \/ FailRow(e, t, n, invalid)
    PROVE  NoneActivated
<1>1. outbox[e] \in Row
  BY DEF TableInv
<1>2. /\ Acked(outbox[e]).status # "processing"
      /\ Buried(outbox[e]).status # "processing"
      /\ Released(outbox[e]).status # "processing"
  BY <1>1 DEF Acked, Buried, Released, Row
<1>3. \/ outbox' = outbox
      \/ outbox' = [outbox EXCEPT ![e] = Acked(outbox[e])]
      \/ outbox' = [outbox EXCEPT ![e] = Buried(outbox[e])]
      \/ outbox' = [outbox EXCEPT ![e] = Released(outbox[e])]
  BY DEF AckRow, FailRow
<1> QED BY <1>2, <1>3 DEF NoneActivated, IsActive, TableInv

LEMMA OnlyClaimActivates ==
    ASSUME Inv, [Next]_vars
    PROVE  NoneActivated \/ \E q \in Queue, c \in Event : ClaimRow(q, c)
<1> USE DEF Inv
<1>1. CASE UNCHANGED outbox
  BY <1>1 DEF NoneActivated, IsActive
<1>2. ASSUME NEW e \in Event, TableStep(e) PROVE NoneActivated
  BY <1>2, TableActivatesNone DEF TableStep
<1>3. ASSUME NEW d \in Dispatcher, NEW q \in Queue, Claim(d, q)
      PROVE  NoneActivated \/ \E c \in Event : ClaimRow(q, c)
  BY <1>3, ClaimActivatesOne DEF Claim
<1>4. ASSUME NEW d \in Dispatcher, ReleaseHeld(d) PROVE NoneActivated
  <2>1. held[d].e \in Event
    BY <1>4 DEF ReleaseHeld, HolderInv, Held
  <2> QED BY <1>4, <2>1, ReportActivatesNone DEF ReleaseHeld
<1>5. ASSUME NEW s \in Slot, AckRun(s) \/ FailRun(s) PROVE NoneActivated
  <2>1. run[s].e \in Event
    BY <1>5 DEF AckRun, FailRun, HolderInv, Run
  <2>2. CASE AckRun(s)
    BY <2>1, <2>2, ReportActivatesNone DEF AckRun
  <2>3. CASE FailRun(s)
    BY <2>1, <2>3, ReportActivatesNone DEF FailRun
  <2> QED BY <1>5, <2>2, <2>3
<1> QED
  BY <1>1, <1>2, <1>3, <1>4, <1>5
  DEF Next, vars, DispatchStep, Apply, Enqueue, EnqueueFails, CrashDispatcher, LoseJob,
      StartJob, CrashRun

(* However many processes claim, no queue ever exceeds its budget. *)
THEOREM BudgetKept == Safe => []BudgetRespected
<1>1. Init => BudgetRespected
  <2> SUFFICES ASSUME Init, NEW q \in Queue PROVE Cardinality(Active(q)) <= Limit[q]
    BY DEF BudgetRespected
  <2>1. Active(q) = {}
    BY DEF Init, DispatchInit, StoreInit, NoRow, Active
  <2> QED BY <2>1, FS_EmptySet, StoreAssumption
<1>2. Inv /\ BudgetRespected /\ [Next]_vars => BudgetRespected'
  <2> SUFFICES ASSUME Inv, BudgetRespected, [Next]_vars, NEW q \in Queue
               PROVE  Cardinality(Active(q)') <= Limit[q]
    BY DEF BudgetRespected
  <2>1. IsFiniteSet(Active(q)) /\ Cardinality(Active(q)) \in Nat
    BY StoreAssumption, FS_Subset, FS_CardinalityType DEF Active
  <2>2. Cardinality(Active(q)) <= Limit[q] /\ Limit[q] \in Nat
    BY StoreAssumption DEF BudgetRespected
  <2>3. CASE Active(q)' \subseteq Active(q)
    BY <2>1, <2>2, <2>3, FS_Subset, FS_CardinalityType
  <2>4. CASE NoneActivated
    <3>1. Active(q)' \subseteq Active(q)
      BY <2>4 DEF NoneActivated, IsActive, Active
    <3> QED BY <2>3, <3>1
  <2>5. ASSUME NEW p \in Queue, NEW c \in Event, ClaimRow(p, c)
        PROVE  Cardinality(Active(q)') <= Limit[q]
    <3>1. \A e \in Event : e # c => (IsActive(e)' => IsActive(e))
      BY <2>5, ClaimActivatesOne DEF Inv
    <3>2. QueueOf[c] = p
      BY <2>5 DEF ClaimRow, Claimable
    <3>3. CASE p # q
      <4>1. Active(q)' \subseteq Active(q)
        BY <3>1, <3>2, <3>3 DEF IsActive, Active
      <4> QED BY <2>3, <4>1
    <3>4. CASE p = q
      <4>1. Active(q)' \subseteq Active(q) \cup {c}
        BY <3>1 DEF IsActive, Active
      <4>2. Cardinality(Active(q)) < Limit[q]
        BY <2>5, <3>4 DEF ClaimRow, HasCapacity
      <4>3. /\ IsFiniteSet(Active(q) \cup {c})
            /\ Cardinality(Active(q) \cup {c}) <= Cardinality(Active(q)) + 1
            /\ Cardinality(Active(q) \cup {c}) \in Nat
        <5>1. /\ IsFiniteSet(Active(q) \cup {c})
              /\ Cardinality(Active(q) \cup {c}) =
                    IF c \in Active(q) THEN Cardinality(Active(q)) ELSE Cardinality(Active(q)) + 1
          BY <2>1, FS_AddElement
        <5> QED BY <2>1, <5>1
      <4>4. /\ Cardinality(Active(q)') <= Cardinality(Active(q) \cup {c})
            /\ Cardinality(Active(q)') \in Nat
        BY <4>1, <4>3, FS_Subset, FS_CardinalityType
      <4> QED BY <2>1, <2>2, <4>2, <4>3, <4>4
    <3> QED BY <3>3, <3>4
  <2> QED BY <2>4, <2>5, OnlyClaimActivates
<1> QED BY <1>1, <1>2, InvHolds, PTL DEF Safe

-----------------------------------------------------------------------------
(* Refinement.  The outbox implements the safety part of its contract.        *)
Refines == [Contract!Next]_(Contract!contractVars)

(* A step that changes no report and no effect is a stutter; one that turns   *)
(* open reports into dead letters is GiveUp.                                  *)
LEMMA GiveUpRefines ==
    ASSUME NEW D \in SUBSET Event, UNCHANGED applied,
           \A e \in D : /\ ReportOf(outbox[e]) = "open"
                        /\ ReportOf(outbox'[e]) = "dead-letter",
           \A e \in Event \ D : ReportOf(outbox'[e]) = ReportOf(outbox[e])
    PROVE  Refines
<1>1. CASE D = {}
  BY <1>1 DEF Refines, Contract!contractVars
<1>2. CASE D # {}
  <2>1. Contract!GiveUp(D)
    BY <1>2 DEF Contract!GiveUp
  <2> QED BY <2>1 DEF Refines, Contract!Next
<1> QED BY <1>1, <1>2

LEMMA ReportsKept ==
    ASSUME UNCHANGED applied, \A e \in Event : ReportOf(outbox'[e]) = ReportOf(outbox[e])
    PROVE  Refines
BY GiveUpRefines, {} \in SUBSET Event

LEMMA TableStepRefines ==
    ASSUME TableInv, NEW e \in Event, Produce(e) \/ BecomeDue(e) \/ Lapse(e),
           UNCHANGED applied
    PROVE  Refines
<1>1. outbox[e] \in Row /\ \A f \in Event : f # e => outbox'[f] = outbox[f]
  BY DEF TableInv, Produce, BecomeDue, Lapse
<1>2. CASE Produce(e)
  <2>1. outbox[e].status = "absent"
    BY <1>2 DEF Produce
  <2>2. PICK due \in BOOLEAN : outbox'[e] = Produced(due)
    BY <1>2 DEF Produce, TableInv
  <2>3. ReportOf(outbox[e]) = "absent" /\ ReportOf(outbox'[e]) = "open"
    BY <2>1, <2>2 DEF ReportOf, Produced, NoRow
  <2>4. Contract!Submit(e)
    BY <1>1, <2>3 DEF Contract!Submit
  <2> QED BY <2>4 DEF Refines, Contract!Next
<1>3. CASE BecomeDue(e) \/ Lapse(e)
  <2>1. outbox'[e].status = outbox[e].status
    BY <1>1, <1>3 DEF BecomeDue, Lapse, TableInv, Row
  <2> QED BY <1>1, <2>1, ReportsKept DEF ReportOf
<1> QED BY <1>2, <1>3

LEMMA ClaimRefines ==
    ASSUME TableInv, NEW q \in Queue, UNCHANGED applied,
           ClaimNothing(q) \/ \E c \in Event : ClaimRow(q, c)
    PROVE  Refines
<1>1. ASSUME NEW D \in SUBSET Event, BurialBatch(q, D), NEW e \in D
      PROVE  /\ ReportOf(outbox[e]) = "open"
             /\ ReportOf(Buried(outbox[e])) = "dead-letter"
  <2>1. outbox[e].status \in {"pending", "processing"}
    BY <1>1 DEF BurialBatch, Exhausted, Eligible
  <2>2. Buried(outbox[e]).status = "dead-letter"
    BY <1>1, BurialKeeps
  <2> QED BY <2>1, <2>2 DEF ReportOf
<1>2. CASE ClaimNothing(q)
  <2>1. PICK D \in SUBSET Event :
          /\ BurialBatch(q, D)
          /\ outbox' = [e \in Event |-> IF e \in D THEN Buried(outbox[e]) ELSE outbox[e]]
    BY <1>2 DEF ClaimNothing
  <2> QED BY <1>1, <2>1, GiveUpRefines
<1>3. ASSUME NEW c \in Event, ClaimRow(q, c) PROVE Refines
  <2>1. PICK D \in SUBSET Event :
          /\ BurialBatch(q, D)
          /\ outbox' = [e \in Event |-> IF e = c THEN Claimed(outbox[e])
                                        ELSE IF e \in D THEN Buried(outbox[e])
                                        ELSE outbox[e]]
    BY <1>3 DEF ClaimRow
  <2>2. outbox[c].status \in {"pending", "processing"}
    BY <1>3 DEF ClaimRow, Claimable, Eligible
  <2>3. outbox'[c].status = "processing"
    BY <2>1 DEF Claimed
  <2>4. ReportOf(outbox'[c]) = ReportOf(outbox[c])
    BY <2>2, <2>3 DEF ReportOf
  <2>5. \A e \in D \ {c} : /\ ReportOf(outbox[e]) = "open"
                           /\ ReportOf(outbox'[e]) = "dead-letter"
    BY <1>1, <2>1
  <2>6. \A e \in Event \ (D \ {c}) : ReportOf(outbox'[e]) = ReportOf(outbox[e])
    BY <2>1, <2>4
  <2> QED BY <2>5, <2>6, GiveUpRefines
<1> QED BY <1>2, <1>3

LEMMA FailRowRefines ==
    ASSUME TableInv, NEW e \in Event, NEW t, NEW n, NEW invalid,
           FailRow(e, t, n, invalid), UNCHANGED applied
    PROVE  Refines
<1>1. CASE ~Fence(e, t)
  BY <1>1, ReportsKept DEF FailRow
<1>2. CASE Fence(e, t)
  <2>1. outbox[e] \in Row /\ ReportOf(outbox[e]) = "open"
    BY <1>2 DEF TableInv, Fence, ReportOf
  <2>2. /\ ReportOf(Buried(outbox[e])) = "dead-letter"
        /\ ReportOf(Released(outbox[e])) = "open"
    BY <2>1 DEF Buried, Released, Row, ReportOf
  <2>3. \A f \in Event : f # e => outbox'[f] = outbox[f]
    BY <1>2 DEF FailRow, TableInv
  <2>4. outbox'[e] = Buried(outbox[e]) \/ outbox'[e] = Released(outbox[e])
    BY <1>2 DEF FailRow, TableInv
  <2>5. CASE outbox'[e] = Buried(outbox[e])
    BY <2>1, <2>2, <2>3, <2>5, GiveUpRefines, {e} \in SUBSET Event
  <2>6. CASE outbox'[e] = Released(outbox[e])
    BY <2>1, <2>2, <2>3, <2>6, ReportsKept
  <2> QED BY <2>4, <2>5, <2>6
<1> QED BY <1>1, <1>2

LEMMA AckRunRefines ==
    ASSUME Inv, NEW s \in Slot, AckRun(s), UNCHANGED applied
    PROVE  Refines
<1> USE DEF Inv
<1> DEFINE e == run[s].e
<1>1. e \in Event /\ KeyOf[e] \in receipts /\ run[s].pc = "done"
  BY DEF AckRun, HolderInv, ReceiptInv, Run
<1>2. AckRow(e, run[s].t)
  BY DEF AckRun
<1>3. CASE ~Fence(e, run[s].t)
  BY <1>2, <1>3, ReportsKept DEF AckRow
<1>4. CASE Fence(e, run[s].t)
  <2>1. outbox[e] \in Row /\ ReportOf(outbox[e]) = "open"
    BY <1>1, <1>4 DEF TableInv, Fence, ReportOf
  <2>2. ReportOf(Acked(outbox[e])) = "delivered"
    BY <2>1 DEF Acked, Row, ReportOf
  <2>3. outbox' = [outbox EXCEPT ![e] = Acked(outbox[e])]
    BY <1>2, <1>4 DEF AckRow
  <2>4. /\ ReportOf(outbox'[e]) = "delivered"
        /\ \A f \in Event : f # e => outbox'[f] = outbox[f]
    BY <1>1, <2>2, <2>3 DEF TableInv
  <2>5. applied[KeyOf[e]] = 1
    BY <1>1 DEF ReceiptInv
  <2> HIDE DEF e
  <2>6. Contract!ReportDelivered(e)
    BY <1>1, <2>1, <2>4, <2>5 DEF Contract!ReportDelivered
  <2> QED BY <1>1, <2>6 DEF Refines, Contract!Next
<1> QED BY <1>3, <1>4

LEMMA ApplyRefines ==
    ASSUME Inv, NEW s \in Slot, Apply(s)
    PROVE  Refines
<1> USE DEF Inv
<1> DEFINE e == run[s].e
<1>1. e \in Event /\ UNCHANGED outbox
  BY DEF Apply, HolderInv, Run
<1>2. CASE UNCHANGED applied
  BY <1>1, <1>2, ReportsKept
<1>3. CASE ~UNCHANGED applied
  <2>1. /\ KeyOf[e] \notin receipts
        /\ applied' = [applied EXCEPT ![KeyOf[e]] = applied[KeyOf[e]] + 1]
    BY <1>3 DEF Apply
  <2>2. ReportOf(outbox[e]) = "open"
    BY DEF Apply, Fence, ReportOf
  <2>3. KeyOf[e] \in EffectKey
    BY <1>1, DomainAssumption
  <2> HIDE DEF e
  <2>4. applied[KeyOf[e]] = 0
    BY <2>1, <2>3 DEF ReceiptInv
  <2>5. applied' = [applied EXCEPT ![KeyOf[e]] = 1]
    <3>1. applied[KeyOf[e]] + 1 = 1
      BY <2>4
    <3> QED BY <2>1, <3>1
  <2>6. Contract!Perform(e)
    BY <1>1, <2>2, <2>4, <2>5 DEF Contract!Perform
  <2> QED BY <1>1, <2>6 DEF Refines, Contract!Next
<1> QED BY <1>2, <1>3

LEMMA StepRefines ==
    ASSUME Inv, [Next]_vars
    PROVE  Refines
<1> USE DEF Inv
<1>1. CASE UNCHANGED <<outbox, applied>>
  BY <1>1, ReportsKept
<1>2. ASSUME NEW s \in Slot, Apply(s) PROVE Refines
  BY <1>2, ApplyRefines
<1>3. CASE DispatchStep /\ UNCHANGED <<receipts, applied>>
  <2>1. ASSUME NEW e \in Event, TableStep(e) PROVE Refines
    BY <1>3, <2>1, TableStepRefines DEF TableStep
  <2>2. ASSUME NEW d \in Dispatcher, NEW q \in Queue, Claim(d, q) PROVE Refines
    BY <1>3, <2>2, ClaimRefines DEF Claim
  <2>3. ASSUME NEW d \in Dispatcher, ReleaseHeld(d) PROVE Refines
    <3>1. held[d].e \in Event
      BY <2>3 DEF ReleaseHeld, HolderInv, Held
    <3> QED BY <1>3, <2>3, <3>1, FailRowRefines DEF ReleaseHeld
  <2>4. ASSUME NEW s \in Slot, AckRun(s) PROVE Refines
    BY <1>3, <2>4, AckRunRefines
  <2>5. ASSUME NEW s \in Slot, FailRun(s) PROVE Refines
    <3>1. run[s].e \in Event
      BY <2>5 DEF FailRun, HolderInv, Run
    <3> QED BY <1>3, <2>5, <3>1, FailRowRefines DEF FailRun
  <2> QED
    BY <1>1, <1>3, <2>1, <2>2, <2>3, <2>4, <2>5
    DEF DispatchStep, Enqueue, EnqueueFails, CrashDispatcher, LoseJob, StartJob, CrashRun
<1> QED BY <1>1, <1>2, <1>3 DEF Next, vars

(* Every behaviour of the outbox is one its contract allows: at most one      *)
(* effect per key, delivery reported only after it, and final reports.        *)
THEOREM ContractKept == Safe => Contract!Safe
<1>1. Init => Contract!Init
  <2> SUFFICES ASSUME Init PROVE Contract!Init
    OBVIOUS
  <2>1. \A e \in Event : ReportOf(outbox[e]) = "absent"
    BY DEF Init, DispatchInit, StoreInit, NoRow, ReportOf
  <2> QED BY <2>1 DEF Contract!Init, Init
<1>2. Inv /\ [Next]_vars => [Contract!Next]_(Contract!contractVars)
  BY StepRefines DEF Refines
<1> QED BY <1>1, <1>2, InvHolds, PTL DEF Safe, Contract!Safe
=============================================================================
