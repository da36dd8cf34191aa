--------------------------- MODULE OutboxStore_proofs ---------------------------
(***************************************************************************)
(* What the operations of the table do to its rows, for every policy and    *)
(* every set of events: those of claims, failures and passing deadlines     *)
(* neither make a row, nor remove one, nor report it delivered.             *)
(***************************************************************************)
EXTENDS OutboxStore, TLAPS

(* What a step leaves of a row: whether there is one, and whether it is        *)
(* reported delivered.                                                        *)
Kin(r, s) == /\ (r.status = "absent") = (s.status = "absent")
             /\ s.status = "delivered" => r.status = "delivered"

Table == outbox \in [Event -> Row]
Same  == \A e \in Event : Kin(outbox[e], outbox'[e])

LEMMA RowOperations ==
    ASSUME NEW r \in Row
    PROVE  /\ Acked(r) \in Row /\ Acked(r).status = "delivered"
           /\ Buried(r) \in Row /\ Buried(r).status = "dead-letter"
           /\ Released(r) \in Row /\ Released(r).status = "pending"
           /\ Claimed(r) \in Row /\ Claimed(r).status = "processing"
           /\ Produced(FALSE) \in Row /\ Produced(FALSE).status = "pending"
           /\ [r EXCEPT !.due = TRUE] \in Row /\ [r EXCEPT !.due = TRUE].status = r.status
           /\ [r EXCEPT !.lapsed = TRUE] \in Row /\ [r EXCEPT !.lapsed = TRUE].status = r.status
<1>1. Acked(r) \in Row /\ Acked(r).status = "delivered"
  BY DEF Row, Status, Acked
<1>2. Buried(r) \in Row /\ Buried(r).status = "dead-letter"
  BY DEF Row, Status, Buried
<1>3. Released(r) \in Row /\ Released(r).status = "pending"
  BY DEF Row, Status, Released
<1>4. Claimed(r) \in Row /\ Claimed(r).status = "processing"
  BY DEF Row, Status, Claimed
<1>5. Produced(FALSE) \in Row /\ Produced(FALSE).status = "pending"
  BY DEF Row, Status, Produced, NoRow
<1>6. /\ [r EXCEPT !.due = TRUE] \in Row /\ [r EXCEPT !.due = TRUE].status = r.status
      /\ [r EXCEPT !.lapsed = TRUE] \in Row /\ [r EXCEPT !.lapsed = TRUE].status = r.status
  BY DEF Row
<1> QED BY <1>1, <1>2, <1>3, <1>4, <1>5, <1>6

LEMMA Deadlines ==
    ASSUME NEW e \in Event, Table, BecomeDue(e) \/ Lapse(e)
    PROVE  Table' /\ Same
<1>1. outbox[e] \in Row
  BY DEF Table
<1>2. CASE BecomeDue(e)
  BY <1>1, <1>2, RowOperations DEF BecomeDue, Table, Same, Kin
<1>3. CASE Lapse(e)
  BY <1>1, <1>3, RowOperations DEF Lapse, Table, Same, Kin
<1> QED BY <1>2, <1>3

LEMMA Burials ==
    ASSUME NEW q \in Queue, Table, ClaimNothing(q)
    PROVE  Table' /\ Same
<1>1. PICK D \in SUBSET Event :
          /\ BurialBatch(q, D)
          /\ outbox' = [e \in Event |-> IF e \in D THEN Buried(outbox[e]) ELSE outbox[e]]
  BY DEF ClaimNothing
<1>2. \A e \in D : outbox[e].status # "absent"
  BY <1>1 DEF BurialBatch, Exhausted, Eligible
<1>3. \A e \in Event : outbox[e] \in Row
  BY DEF Table
<1> QED BY <1>1, <1>2, <1>3, RowOperations DEF Table, Same, Kin

LEMMA Claims ==
    ASSUME NEW q \in Queue, NEW c \in Event, Table, ClaimRow(q, c)
    PROVE  Table' /\ Same /\ outbox[c].status # "absent"
<1>1. PICK D \in SUBSET Event :
          /\ BurialBatch(q, D)
          /\ outbox' = [e \in Event |-> IF e = c THEN Claimed(outbox[e])
                                        ELSE IF e \in D THEN Buried(outbox[e])
                                        ELSE outbox[e]]
  BY DEF ClaimRow
<1>2. \A e \in D : outbox[e].status # "absent"
  BY <1>1 DEF BurialBatch, Exhausted, Eligible
<1>3. \A e \in Event : outbox[e] \in Row
  BY DEF Table
<1>4. outbox[c].status # "absent"
  BY DEF ClaimRow, Claimable, Eligible
<1> QED BY <1>1, <1>2, <1>3, <1>4, RowOperations DEF Table, Same, Kin

LEMMA Failures ==
    ASSUME NEW e \in Event, NEW t, NEW n, Table, FailRow(e, t, n, FALSE)
    PROVE  Table' /\ Same
<1>1. \A f \in Event : outbox[f] \in Row
  BY DEF Table
<1>2. CASE ~Fence(e, t)
  BY <1>2 DEF FailRow, Table, Same, Kin
<1>3. CASE Fence(e, t)
  <2>1. outbox[e].status = "processing"
    BY <1>3 DEF Fence
  <2>2. PICK r \in {Buried(outbox[e]), Released(outbox[e])} : outbox' = [outbox EXCEPT ![e] = r]
    BY <1>1, <1>3 DEF FailRow
  <2>3. r \in Row /\ r.status \notin {"absent", "delivered"}
    <3>1. outbox[e] \in Row
      BY <1>1
    <3>2. /\ Buried(outbox[e]) \in Row /\ Buried(outbox[e]).status = "dead-letter"
          /\ Released(outbox[e]) \in Row /\ Released(outbox[e]).status = "pending"
      BY <3>1, RowOperations
    <3>3. r = Buried(outbox[e]) \/ r = Released(outbox[e])
      BY <2>2
    <3>4. CASE r = Buried(outbox[e])
      BY <3>2, <3>4
    <3>5. CASE r = Released(outbox[e])
      BY <3>2, <3>5
    <3> QED BY <3>3, <3>4, <3>5
  <2> QED BY <1>1, <2>1, <2>2, <2>3 DEF Table, Same, Kin
<1> QED BY <1>2, <1>3
-----------------------------------------------------------------------------
(* What the outbox reports: claims, failures and passing deadlines leave the   *)
(* rows open or settled as they are, or bury some that were open.              *)
Open(row) == row.status \in {"pending", "processing"}

Buries(D) ==
    /\ \A e \in D : Open(outbox[e]) /\ outbox'[e].status = "dead-letter"
    /\ \A e \in Event \ D :
          \/ Open(outbox[e]) /\ Open(outbox'[e])
          \/ outbox'[e].status = outbox[e].status

LEMMA DeadlinesBuryNone ==
    ASSUME NEW e \in Event, Table, BecomeDue(e) \/ Lapse(e)
    PROVE  Buries({})
<1>1. outbox[e] \in Row /\ \A f \in Event : f # e => outbox'[f] = outbox[f]
  BY DEF Table, BecomeDue, Lapse
<1>2. outbox'[e].status = outbox[e].status
  <2>1. CASE BecomeDue(e)
    BY <1>1, <2>1, RowOperations DEF BecomeDue, Table
  <2>2. CASE Lapse(e)
    BY <1>1, <2>2, RowOperations DEF Lapse, Table
  <2> QED BY <2>1, <2>2
<1> QED BY <1>1, <1>2 DEF Buries

LEMMA BurialsBury ==
    ASSUME NEW q \in Queue, Table, ClaimNothing(q)
    PROVE  \E D \in SUBSET Event : Buries(D)
<1>1. PICK D \in SUBSET Event :
          /\ BurialBatch(q, D)
          /\ outbox' = [e \in Event |-> IF e \in D THEN Buried(outbox[e]) ELSE outbox[e]]
  BY DEF ClaimNothing
<1>2. \A e \in D : Open(outbox[e])
  BY <1>1 DEF BurialBatch, Exhausted, Eligible, Open
<1>3. \A e \in Event : outbox[e] \in Row
  BY DEF Table
<1> QED BY <1>1, <1>2, <1>3, RowOperations DEF Buries

LEMMA ClaimsBury ==
    ASSUME NEW q \in Queue, NEW c \in Event, Table, ClaimRow(q, c)
    PROVE  \E D \in SUBSET Event : Buries(D)
<1>1. PICK D \in SUBSET Event :
          /\ BurialBatch(q, D)
          /\ outbox' = [e \in Event |-> IF e = c THEN Claimed(outbox[e])
                                        ELSE IF e \in D THEN Buried(outbox[e])
                                        ELSE outbox[e]]
  BY DEF ClaimRow
<1>2. Open(outbox[c]) /\ \A e \in D : Open(outbox[e])
  BY <1>1 DEF ClaimRow, Claimable, BurialBatch, Exhausted, Eligible, Open
<1>3. \A e \in Event : outbox[e] \in Row
  BY DEF Table
<1>4. Open(outbox'[c])
  BY <1>1, <1>3, RowOperations DEF Open
<1>5. \A e \in D \ {c} : outbox'[e].status = "dead-letter"
  BY <1>1, <1>3, RowOperations
<1>6. \A e \in Event \ (D \cup {c}) : outbox'[e] = outbox[e]
  BY <1>1
<1>7. Buries(D \ {c})
  BY <1>2, <1>4, <1>5, <1>6 DEF Buries
<1> QED BY <1>7

LEMMA FailuresBury ==
    ASSUME NEW e \in Event, NEW t, NEW n, Table, FailRow(e, t, n, FALSE)
    PROVE  \E D \in SUBSET Event : Buries(D)
<1>1. \A f \in Event : outbox[f] \in Row
  BY DEF Table
<1>2. CASE ~Fence(e, t)
  <2>1. Buries({})
    BY <1>2 DEF FailRow, Buries
  <2> QED BY <2>1
<1>3. CASE Fence(e, t)
  <2>1. Open(outbox[e]) /\ \A f \in Event : f # e => outbox'[f] = outbox[f]
    BY <1>3 DEF Fence, Open, FailRow, Table
  <2>2. outbox'[e] = Buried(outbox[e]) \/ outbox'[e] = Released(outbox[e])
    BY <1>3 DEF FailRow, Table
  <2> USE <1>1
  <2>3. CASE outbox'[e] = Buried(outbox[e])
    <3>1. outbox'[e].status = "dead-letter"
      BY <2>3 DEF Buried, Row
    <3>2. Buries({e})
      BY <2>1, <3>1 DEF Buries
    <3> QED BY <3>2
  <2>4. CASE outbox'[e] = Released(outbox[e])
    <3>1. Open(outbox'[e])
      BY <2>4 DEF Released, Row, Open
    <3>2. Buries({})
      BY <2>1, <3>1 DEF Buries
    <3> QED BY <3>2
  <2> QED BY <2>2, <2>3, <2>4
<1> QED BY <1>2, <1>3
=================================================================================
