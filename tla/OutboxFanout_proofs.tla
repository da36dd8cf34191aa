-------------------------- MODULE OutboxFanout_proofs --------------------------
(***************************************************************************)
(* Theorems about OutboxFanout, for every number of events, assignments,    *)
(* processes, displays, executions and attempts.                            *)
(*                                                                          *)
(* That no update is lost is not inductive: when the worker reports an      *)
(* event delivered it relies on what it has counted before, and while it    *)
(* counts on marks that processes made earlier still.  What all of them     *)
(* have in common is that a display that was caught stays caught: it was    *)
(* sent the change, or it has read, or has still to read, what it is to     *)
(* show, which can only be that change or a later one.                      *)
(*                                                                         *)
(* The fan-out also keeps the safety part of OutboxContract, the            *)
(* preparation of a change's targets being the effect of its event.         *)
(***************************************************************************)
EXTENDS OutboxFanout, OutboxStore_proofs

(* The display on socket x shows change k or a later one, has still to read or *)
(* to be sent it, or was told that it is not rendered; or it stayed open while *)
(* its process registered again.                                               *)
Caught(k, x) ==
    sock[x] # Nil /\ ~sock[x].exposed =>
        sock[x].push = "asked" \/ sock[x].v >= k \/ sock[x].shown >= k

AllCaught(k, c) == \A x \in OpenOn(c) : Caught(k, x)
LiveCaught(k)   == \A c \in LiveConsumers : AllCaught(k, c)

-----------------------------------------------------------------------------
(* The invariant.  What is announced has happened: no row, run, effect or      *)
(* receipt is ahead of the device.                                             *)
Announced ==
    /\ \A e \in Event : outbox[e].status # "absent" => SequenceOf[e] <= desired
    /\ \A s \in Worker : runs[s] # Nil => SequenceOf[runs[s].e] <= desired
    /\ \A k \in Key : effect[k] # Nil =>
          /\ k <= desired
          /\ SequenceOf[effect[k].owner] = k
          /\ effect[k].presentation = 0 \/ effect[k].presentation >= k

(* A process that is not running has no connections. *)
Owned ==
    \A c \in Consumer : OpenOn(c) # {} => up[c] \in {"up", "stopping"}

(* A process works on a target of a prepared effect.  Connections that its     *)
(* delivery did not collect came later, and once it has sent all are caught.   *)
Collected ==
    \A c \in Consumer : poll[c] # Nil =>
        LET k == poll[c].k IN
        /\ effect[k] # Nil /\ effect[k].prepared /\ c \in effect[k].targets
        /\ poll[c].pc \in {"built", "stored"} => poll[c].v >= k
        /\ poll[c].pc \in {"collected", "built", "stored"} =>
              \A x \in OpenOn(c) \ poll[c].states : Caught(k, x)
        /\ poll[c].pc = "sent" => AllCaught(k, c)

(* The displays of a process that marked its target are caught, and so are     *)
(* those of a process that came to life after the targets were listed.         *)
Marked ==
    \A k \in Key : effect[k] # Nil =>
        /\ \A c \in effect[k].delivered : AllCaught(k, c)
        /\ effect[k].prepared =>
              \A c \in LiveConsumers \ effect[k].targets : AllCaught(k, c)

(* A run waits for the targets of an effect that its own event prepared; those *)
(* of processes that came to life after it has read the live ones are caught;  *)
(* and when it is done all are.                                                *)
Waiting ==
    \A s \in Worker : runs[s] # Nil =>
        LET k == SequenceOf[runs[s].e] IN
        /\ runs[s].pc # "loaded" => effect[k] # Nil /\ effect[k].prepared
        /\ runs[s].pc \in {"prepared", "counting"} => effect[k].owner = runs[s].e
        /\ runs[s].pc = "counting" =>
              \A c \in LiveConsumers \ seen[s] : AllCaught(k, c)
        /\ runs[s].pc = "done" /\ effect[k].owner = runs[s].e => LiveCaught(k)

Reported ==
    \A k \in Key :
        effect[k] # Nil /\ outbox[effect[k].owner].status = "delivered" => LiveCaught(k)

FanoutInv ==
    /\ FanoutTypeOK /\ Announced /\ Owned /\ Collected
    /\ Marked /\ Waiting /\ Reported

-----------------------------------------------------------------------------
(* Types. *)
LEMMA KeysAreNumbers == Key \subseteq Nat \ {0} /\ \A e \in Event : SequenceOf[e] \in Key
BY FanoutAssumption DEF Key

LEMMA FreshTyped ==
    ASSUME NEW e \in Event
    PROVE  /\ Fresh(e) \in Effect
           /\ Fresh(e).owner = e /\ Fresh(e).targets = {} /\ Fresh(e).delivered = {}
           /\ ~Fresh(e).devices /\ ~Fresh(e).prepared /\ Fresh(e).presentation = 0
BY DEF Fresh, Effect

LEMMA InitTyped == ASSUME FanoutInit PROVE FanoutTypeOK
BY DEF FanoutInit, StoreInit, FanoutTypeOK, Row, NoRow, Status

(* What the table does to its rows. *)
LEMMA TableTyped ==
    ASSUME FanoutTypeOK, RowsAge
    PROVE  /\ outbox' \in [Event -> Row] /\ Same
           /\ UNCHANGED <<runs, desired, effect, seen, processVars>>
<1>1. Table
  BY DEF Table, FanoutTypeOK
<1> QED BY <1>1, Deadlines, Burials DEF RowsAge, Table

LEMMA RunTyped ==
    ASSUME FanoutTypeOK, NEW s \in Worker, runs[s] # Nil
    PROVE  /\ runs[s] \in Dispatching /\ runs[s].e \in Event
           /\ SequenceOf[runs[s].e] \in Key /\ outbox[runs[s].e] \in Row
BY KeysAreNumbers DEF FanoutTypeOK, Dispatching

(* The steps of a worker. *)
LEMMA StartTyped ==
    ASSUME FanoutTypeOK, NEW s \in Worker, StartRun(s)
    PROVE  /\ outbox' \in [Event -> Row] /\ Same
           /\ \E r \in Dispatching :
                 /\ runs' = [runs EXCEPT ![s] = r] /\ r.pc = "loaded"
                 /\ outbox[r.e].status # "absent"
           /\ UNCHANGED <<desired, effect, seen, processVars>>
<1>1. PICK e \in Event :
          /\ \/ \E q \in Queue : ClaimRow(q, e)
             \/ Fence(e, outbox[e].token) /\ UNCHANGED outbox
          /\ runs' = [runs EXCEPT ![s] = [e |-> e, t |-> outbox'[e].token,
                                          n |-> outbox'[e].attempts, pc |-> "loaded"]]
  BY DEF StartRun
<1>2. Table
  BY DEF Table, FanoutTypeOK
<1>3. Table' /\ Same /\ outbox[e].status # "absent"
  <2>1. CASE \E q \in Queue : ClaimRow(q, e)
    BY <1>2, <2>1, Claims
  <2>2. CASE Fence(e, outbox[e].token) /\ UNCHANGED outbox
    BY <1>2, <2>2 DEF Fence, Table, Same, Kin
  <2> QED BY <1>1, <2>1, <2>2
<1> DEFINE r == [e |-> e, t |-> outbox'[e].token, n |-> outbox'[e].attempts, pc |-> "loaded"]
<1>4. outbox'[e] \in Row
  BY <1>3 DEF Table
<1>5. r \in Dispatching /\ r.e = e /\ r.pc = "loaded"
  BY <1>4 DEF Dispatching, Row
<1>6. runs' = [runs EXCEPT ![s] = r]
  BY <1>1
<1> HIDE DEF r
<1> QED BY <1>3, <1>5, <1>6 DEF StartRun, Table

LEMMA EndTyped ==
    ASSUME FanoutTypeOK, NEW s \in Worker, ReportDelivered(s) \/ ReportFailed(s) \/ RunCrashes(s)
    PROVE  /\ outbox' \in [Event -> Row]
           /\ \A e \in Event : (outbox[e].status = "absent") = (outbox'[e].status = "absent")
           /\ \A e \in Event : outbox'[e].status = "delivered" =>
                 \/ outbox[e].status = "delivered"
                 \/ runs[s] # Nil /\ runs[s].pc = "done" /\ runs[s].e = e
           /\ runs' = [runs EXCEPT ![s] = Nil] /\ seen' = [seen EXCEPT ![s] = {}]
           /\ UNCHANGED <<desired, effect, processVars>>
<1>1. Table
  BY DEF Table, FanoutTypeOK
<1>2. CASE ReportFailed(s)
  <2>1. runs[s].e \in Event
    BY <1>2, RunTyped DEF ReportFailed
  <2>2. Table' /\ Same
    BY <1>1, <1>2, <2>1, Failures DEF ReportFailed
  <2> QED BY <1>2, <2>2 DEF ReportFailed, EndRun, Table, Same, Kin
<1>3. CASE RunCrashes(s)
  BY <1>1, <1>3 DEF RunCrashes, EndRun, Table
<1>4. CASE ReportDelivered(s)
  <2> DEFINE e == runs[s].e
  <2>1. e \in Event /\ outbox[e] \in Row /\ runs[s] # Nil /\ runs[s].pc = "done"
    BY <1>4, RunTyped DEF ReportDelivered
  <2>2. \/ outbox' = outbox
        \/ outbox' = [outbox EXCEPT ![e] = Acked(outbox[e])] /\ outbox[e].status = "processing"
    BY <1>4, Zenon DEF ReportDelivered, AckRow, Fence
  <2>3. Acked(outbox[e]) \in Row /\ Acked(outbox[e]).status = "delivered"
    BY <2>1, RowOperations
  <2> QED BY <1>1, <1>4, <2>1, <2>2, <2>3 DEF ReportDelivered, EndRun, Table
<1> QED BY <1>2, <1>3, <1>4

LEMMA LiveTyped == ASSUME FanoutTypeOK PROVE LiveConsumers \subseteq Consumer
BY DEF LiveConsumers

LEMMA CountTyped ==
    ASSUME FanoutTypeOK, NEW s \in Worker, ReadLive(s) \/ CountTargets(s)
    PROVE  /\ runs[s] # Nil
           /\ \E r \in Dispatching :
                 /\ runs' = [runs EXCEPT ![s] = r] /\ r.e = runs[s].e
                 /\ r.pc \in {"prepared", "counting", "done"}
           /\ seen' \in [Worker -> SUBSET Consumer]
           /\ UNCHANGED <<outbox, desired, effect, processVars>>
<1>1. CASE ReadLive(s)
  <2> DEFINE r == [runs[s] EXCEPT !.pc = "counting"]
  <2>1. r \in Dispatching /\ r.e = runs[s].e /\ r.pc = "counting" /\ runs' = [runs EXCEPT ![s] = r]
    BY <1>1, RunTyped DEF ReadLive, Dispatching
  <2> HIDE DEF r
  <2> QED BY <1>1, <2>1, LiveTyped DEF ReadLive, FanoutTypeOK
<1>2. CASE CountTargets(s)
  <2>1. PICK pc \in {"prepared", "done"} : runs' = [runs EXCEPT ![s].pc = pc]
    BY <1>2 DEF CountTargets
  <2> DEFINE r == [runs[s] EXCEPT !.pc = pc]
  <2>2. r \in Dispatching /\ r.e = runs[s].e /\ r.pc = pc /\ runs' = [runs EXCEPT ![s] = r]
    BY <1>2, <2>1, RunTyped DEF CountTargets, Dispatching
  <2> HIDE DEF r
  <2> QED BY <1>2, <2>1, <2>2 DEF CountTargets, FanoutTypeOK
<1> QED BY <1>1, <1>2

(* Preparation: another event has prepared the effect; or it is prepared       *)
(* already; or a batch of it is done; or the last one.                         *)
Prepares(s, e, k, g) ==
    \/ /\ effect' = effect /\ runs' = [runs EXCEPT ![s] = g] /\ g \in Dispatching
       /\ g.e = e /\ g.pc = "done" /\ Duplicate(k, e)
    \/ /\ effect' = effect /\ runs' = [runs EXCEPT ![s] = g] /\ g \in Dispatching
       /\ g.e = e /\ g.pc = "prepared"
       /\ effect[k] # Nil /\ effect[k].prepared /\ effect[k].owner = e
    \/ /\ effect' = [effect EXCEPT ![k] = g] /\ g \in Effect /\ runs' = runs
       /\ g.owner = e /\ ~g.prepared /\ g.delivered \subseteq g.targets
       /\ effect[k] # Nil => ~effect[k].prepared
       /\ \/ g.delivered = {} /\ g.presentation = 0
          \/ /\ effect[k] # Nil /\ g.delivered = effect[k].delivered
             /\ g.presentation = effect[k].presentation
    \/ /\ effect[k] # Nil /\ ~effect[k].prepared /\ effect[k].owner = e
       /\ g = [effect[k] EXCEPT !.prepared = TRUE] /\ effect' = [effect EXCEPT ![k] = g]
       /\ LiveConsumers \subseteq g.targets
       /\ \E r \in Dispatching : runs' = [runs EXCEPT ![s] = r] /\ r.e = e /\ r.pc = "prepared"

LEMMA PrepareTyped ==
    ASSUME FanoutTypeOK, NEW s \in Worker, PrepareStep(s)
    PROVE  /\ runs[s] # Nil /\ runs[s].pc = "loaded" /\ outbox[runs[s].e].status = "processing"
           /\ \E g : Prepares(s, runs[s].e, SequenceOf[runs[s].e], g)
           /\ UNCHANGED <<outbox, desired, seen, processVars>>
<1> DEFINE e == runs[s].e
           k == SequenceOf[e]
           f == IF effect[k] = Nil \/ Foreign(k, e) THEN Fresh(e) ELSE effect[k]
           missing == LiveConsumers \ f.targets
           ran(pc) == [runs[s] EXCEPT !.pc = pc]
<1>1. /\ runs[s] # Nil /\ runs[s].pc = "loaded" /\ outbox[e].status = "processing"
      /\ UNCHANGED <<outbox, desired, seen, processVars>>
  BY DEF PrepareStep, Fence
<1>2. runs[s] \in Dispatching /\ e \in Event /\ k \in Key
  BY <1>1, RunTyped
<1>3. /\ f \in Effect /\ f.owner = e /\ f.delivered \subseteq f.targets
      /\ \/ f.delivered = {} /\ f.presentation = 0 /\ ~f.devices /\ ~f.prepared
         \/ effect[k] # Nil /\ effect[k].owner = e /\ f = effect[k]
  <2>1. CASE effect[k] = Nil \/ Foreign(k, e)
    BY <1>2, <2>1, FreshTyped
  <2>2. CASE ~(effect[k] = Nil \/ Foreign(k, e))
    BY <1>2, <2>2 DEF Foreign, FanoutTypeOK
  <2> QED BY <2>1, <2>2
<1>4. \A pc \in {"prepared", "done"} :
         ran(pc) \in Dispatching /\ ran(pc).e = e /\ ran(pc).pc = pc
  BY <1>2 DEF Dispatching
<1>5. \/ /\ Duplicate(k, e) /\ runs' = [runs EXCEPT ![s] = ran("done")] /\ effect' = effect
      \/ /\ ~Duplicate(k, e) /\ f.prepared
         /\ runs' = [runs EXCEPT ![s] = ran("prepared")] /\ effect' = effect
      \/ /\ ~Duplicate(k, e) /\ ~f.prepared /\ ~f.devices /\ runs' = runs
         /\ effect' = [effect EXCEPT ![k] = [f EXCEPT !.devices = TRUE]]
      \/ /\ ~Duplicate(k, e) /\ ~f.prepared /\ f.devices /\ runs' = runs
         /\ \E T \in SUBSET missing :
               effect' = [effect EXCEPT ![k] = [f EXCEPT !.targets = f.targets \cup T]]
      \/ /\ ~Duplicate(k, e) /\ ~f.prepared /\ f.devices /\ missing = {}
         /\ effect' = [effect EXCEPT ![k] = [f EXCEPT !.prepared = TRUE]]
         /\ runs' = [runs EXCEPT ![s] = ran("prepared")]
  BY Zenon DEF PrepareStep
<1>6. ~Duplicate(k, e) /\ ~f.prepared /\ effect[k] # Nil => ~effect[k].prepared
  BY <1>3 DEF Duplicate, Foreign
<1> HIDE DEF f, ran
<1>7. CASE Duplicate(k, e) /\ runs' = [runs EXCEPT ![s] = ran("done")] /\ effect' = effect
  BY <1>1, <1>4, <1>7 DEF Prepares
<1>8. CASE /\ ~Duplicate(k, e) /\ f.prepared
           /\ runs' = [runs EXCEPT ![s] = ran("prepared")] /\ effect' = effect
  BY <1>1, <1>3, <1>4, <1>8 DEF Prepares
<1>9. CASE /\ ~Duplicate(k, e) /\ ~f.prepared /\ ~f.devices /\ runs' = runs
           /\ effect' = [effect EXCEPT ![k] = [f EXCEPT !.devices = TRUE]]
  <2> DEFINE g == [f EXCEPT !.devices = TRUE]
  <2>1. /\ g \in Effect /\ g.owner = e /\ ~g.prepared /\ g.delivered \subseteq g.targets
        /\ \/ g.delivered = {} /\ g.presentation = 0
           \/ /\ effect[k] # Nil /\ g.delivered = effect[k].delivered
              /\ g.presentation = effect[k].presentation
    BY <1>3, <1>9 DEF Effect
  <2>2. effect' = [effect EXCEPT ![k] = g]
    BY <1>9
  <2> HIDE DEF g
  <2> QED BY <1>1, <1>6, <1>9, <2>1, <2>2 DEF Prepares
<1>10. ASSUME /\ ~Duplicate(k, e) /\ ~f.prepared /\ f.devices /\ runs' = runs,
              NEW T \in SUBSET missing,
              effect' = [effect EXCEPT ![k] = [f EXCEPT !.targets = f.targets \cup T]]
       PROVE  \E g : Prepares(s, e, k, g)
  <2> DEFINE g == [f EXCEPT !.targets = f.targets \cup T]
  <2>1. /\ g \in Effect /\ g.owner = e /\ ~g.prepared /\ g.delivered \subseteq g.targets
        /\ \/ g.delivered = {} /\ g.presentation = 0
           \/ /\ effect[k] # Nil /\ g.delivered = effect[k].delivered
              /\ g.presentation = effect[k].presentation
    BY <1>3, <1>10, LiveTyped DEF Effect
  <2>2. effect' = [effect EXCEPT ![k] = g]
    BY <1>10
  <2> HIDE DEF g
  <2> QED BY <1>6, <1>10, <2>1, <2>2 DEF Prepares
<1>11. CASE /\ ~Duplicate(k, e) /\ ~f.prepared /\ f.devices /\ missing = {}
            /\ effect' = [effect EXCEPT ![k] = [f EXCEPT !.prepared = TRUE]]
            /\ runs' = [runs EXCEPT ![s] = ran("prepared")]
  <2> DEFINE g == [f EXCEPT !.prepared = TRUE]
  <2>1. effect[k] # Nil /\ ~effect[k].prepared /\ effect[k].owner = e /\ f = effect[k]
    BY <1>3, <1>6, <1>11
  <2>2. g = [effect[k] EXCEPT !.prepared = TRUE] /\ effect' = [effect EXCEPT ![k] = g]
    BY <1>11, <2>1
  <2>3. LiveConsumers \subseteq g.targets
    BY <1>3, <1>11 DEF Effect
  <2> HIDE DEF g
  <2> QED BY <1>1, <1>4, <1>11, <2>1, <2>2, <2>3 DEF Prepares
<1> QED BY <1>1, <1>5, <1>7, <1>8, <1>9, <1>10, <1>11

LEMMA PollTyped ==
    ASSUME FanoutTypeOK, NEW c \in Consumer, poll[c] # Nil
    PROVE  /\ poll[c] \in Polling /\ poll[c].k \in Key /\ poll[c].e \in Event
           /\ poll[c].t \in Nat /\ poll[c].v \in Nat
           /\ poll[c].states \subseteq OpenOn(c) /\ poll[c].states \subseteq Socket
BY DEF FanoutTypeOK, Polling

-----------------------------------------------------------------------------
(* Connections are closed, and taken out of the lists that deliveries          *)
(* collected.                                                                  *)
Closes(X) ==
    /\ sock' = [x \in Socket |-> IF x \in X THEN Nil ELSE sock[x]]
    /\ poll' \in [Consumer -> Polling \cup {Nil}]
    /\ \A d \in Consumer : poll'[d] # Nil =>
          /\ poll[d] # Nil /\ poll'[d].k = poll[d].k /\ poll'[d].v = poll[d].v
          /\ poll'[d].states = poll[d].states \ X
          /\ poll'[d].pc = poll[d].pc \/ poll'[d].pc = "failing"
    /\ UNCHANGED <<workerVars, desired, effect>>

LEMMA WithoutTyped ==
    ASSUME NEW p \in Polling, NEW X
    PROVE  /\ Without(p, X) = [p EXCEPT !.states = p.states \ X]
           /\ Without(p, X) \in Polling /\ Without(p, X).k = p.k /\ Without(p, X).v = p.v
           /\ Without(p, X).states = p.states \ X /\ Without(p, X).pc = p.pc
<1>1. p # Nil
  BY FanoutAssumption
<1>2. Without(p, X) = [p EXCEPT !.states = p.states \ X]
  BY <1>1 DEF Without
<1> QED BY <1>2 DEF Polling

LEMMA ClosingSteps ==
    ASSUME FanoutTypeOK, NEW c \in Consumer,
           Wake(c) \/ PollLoopFails(c) \/ Stop(c) \/ Exit(c) \/ DeliveryFails(c)
    PROVE  \E X \in SUBSET Socket :
              /\ Closes(X) /\ lease' = lease
              /\ up' \in [Consumer -> {"new", "up", "stopping", "gone"}]
              /\ \A d \in Consumer :
                    up'[d] = up[d] \/ up'[d] \in {"up", "stopping"} \/ OpenOn(d) \subseteq X
<1>1. \A d \in Consumer : OpenOn(d) \subseteq Socket /\ (d # c => OpenOn(d) \cap OpenOn(c) = {})
  BY DEF OpenOn
<1>2. \A d \in Consumer : poll[d] # Nil =>
         poll[d] \in Polling /\ poll[d].states \subseteq OpenOn(d)
  BY DEF FanoutTypeOK
<1>3. poll \in [Consumer -> Polling \cup {Nil}] /\ Without(Nil, OpenOn(c)) = Nil
  BY DEF FanoutTypeOK, Without
<1>4. \A d \in Consumer \ {c} : poll[d] # Nil => poll[d].states = poll[d].states \ OpenOn(c)
  BY <1>1, <1>2
<1>5. CASE DeliveryFails(c)
  <2>1. PICK X \in {{}, poll[c].states} :
          /\ ClosedAll(X)
          /\ poll' = [poll EXCEPT ![c] = [Without(poll[c], X) EXCEPT !.pc = "failing"]]
    BY <1>5 DEF DeliveryFails
  <2>2. poll[c] # Nil /\ poll[c] \in Polling /\ X \subseteq OpenOn(c)
    BY <1>2, <1>5, <2>1 DEF DeliveryFails, At
  <2> DEFINE p == [Without(poll[c], X) EXCEPT !.pc = "failing"]
  <2>3. /\ p \in Polling /\ p.k = poll[c].k /\ p.v = poll[c].v /\ p.pc = "failing"
        /\ p.states = poll[c].states \ X
    BY <2>2, WithoutTyped DEF Polling
  <2>4. poll' = [poll EXCEPT ![c] = p]
    BY <2>1
  <2> HIDE DEF p
  <2>5. \A d \in Consumer \ {c} : poll[d] # Nil => poll[d].states = poll[d].states \ X
    BY <1>4, <2>2
  <2>6. Closes(X)
    <3>1. sock' = [x \in Socket |-> IF x \in X THEN Nil ELSE sock[x]]
      BY <2>1 DEF ClosedAll
    <3>2. poll' \in [Consumer -> Polling \cup {Nil}]
      BY <1>3, <2>3, <2>4
    <3>3. poll'[c] = p /\ \A d \in Consumer \ {c} : poll'[d] = poll[d]
      BY <1>3, <2>4
    <3>4. \A d \in Consumer : poll'[d] # Nil =>
             /\ poll[d] # Nil /\ poll'[d].k = poll[d].k /\ poll'[d].v = poll[d].v
             /\ poll'[d].states = poll[d].states \ X
             /\ poll'[d].pc = poll[d].pc \/ poll'[d].pc = "failing"
      BY <2>2, <2>3, <2>5, <3>3
    <3> QED BY <1>5, <3>1, <3>2, <3>4 DEF Closes, DeliveryFails
  <2>7. X \in SUBSET Socket
    BY <1>1, <2>2
  <2> QED BY <1>5, <2>6, <2>7 DEF DeliveryFails, FanoutTypeOK
<1>6. CASE Wake(c) \/ Stop(c)
  <2>1. ClosedAll(OpenOn(c)) /\ poll' = [poll EXCEPT ![c] = Without(poll[c], OpenOn(c))]
    BY <1>6 DEF Wake, Stop
  <2>2. CASE poll[c] = Nil
    <3>1. poll' = poll
      BY <1>3, <2>1, <2>2
    <3>2. Closes(OpenOn(c))
      BY <1>2, <1>3, <1>4, <1>6, <2>1, <2>2, <3>1 DEF Closes, ClosedAll, Wake, Stop, workerVars
    <3> QED BY <1>1, <1>6, <3>2 DEF Wake, Stop, FanoutTypeOK
  <2>3. CASE poll[c] # Nil
    <3> DEFINE p == Without(poll[c], OpenOn(c))
    <3>1. /\ p \in Polling /\ p.k = poll[c].k /\ p.v = poll[c].v /\ p.pc = poll[c].pc
          /\ p.states = poll[c].states \ OpenOn(c)
      BY <1>2, <2>3, WithoutTyped
    <3>2. poll' = [poll EXCEPT ![c] = p]
      BY <2>1
    <3> HIDE DEF p
    <3>3. Closes(OpenOn(c))
      BY <1>2, <1>3, <1>4, <1>6, <2>1, <2>3, <3>1, <3>2
      DEF Closes, ClosedAll, Wake, Stop, workerVars
    <3> QED BY <1>1, <1>6, <3>3 DEF Wake, Stop, FanoutTypeOK
  <2> QED BY <2>2, <2>3
<1>7. CASE PollLoopFails(c) \/ Exit(c)
  <2>1. ClosedAll(OpenOn(c)) /\ poll' = [poll EXCEPT ![c] = Nil]
    BY <1>7 DEF PollLoopFails, Exit
  <2>2. Closes(OpenOn(c))
    BY <1>2, <1>3, <1>4, <1>7, <2>1 DEF Closes, ClosedAll, PollLoopFails, Exit, workerVars
  <2> QED BY <1>1, <1>7, <2>2 DEF PollLoopFails, Exit, FanoutTypeOK
<1> QED BY <1>5, <1>6, <1>7

LEMMA DisconnectStep ==
    ASSUME FanoutTypeOK, NEW x \in Socket, Disconnect(x)
    PROVE  Closes({x}) /\ UNCHANGED <<lease, up>>
<1>1. poll' = [c \in Consumer |-> Without(poll[c], {x})]
  BY DEF Disconnect
<1>2. \A d \in Consumer : poll[d] # Nil => poll[d] \in Polling
  BY DEF FanoutTypeOK
<1>3. \A d \in Consumer : poll[d] = Nil => poll'[d] = Nil
  BY <1>1 DEF Without
<1>4. \A d \in Consumer : poll[d] # Nil =>
         /\ poll'[d] \in Polling /\ poll'[d].k = poll[d].k /\ poll'[d].v = poll[d].v
         /\ poll'[d].states = poll[d].states \ {x} /\ poll'[d].pc = poll[d].pc
  BY <1>1, <1>2, WithoutTyped
<1>5. sock' = [y \in Socket |-> IF y \in {x} THEN Nil ELSE sock[y]]
  BY DEF Disconnect, FanoutTypeOK
<1> QED BY <1>1, <1>3, <1>4, <1>5 DEF Closes, Disconnect, workerVars

(* A step of a process's poll loop: of the target it works on, q, and of that  *)
(* target's effect, g.                                                         *)
Working(c, k, q) ==
    /\ q.k = k /\ c \in effect[k].targets
    /\ q.states \subseteq OpenOn(c)
    /\ q.pc \in {"built", "stored"} => q.v >= k
    /\ q.pc \in {"collected", "built", "stored"} =>
          \A x \in OpenOn(c) \ q.states : Caught(k, x)
    /\ q.pc = "sent" => AllCaught(k, c)

Grows(c, k, g) ==
    /\ g.owner = effect[k].owner /\ g.prepared = effect[k].prepared
    /\ g.targets = effect[k].targets
    /\ g.presentation = effect[k].presentation \/ g.presentation >= k
    /\ \A d \in g.delivered : d \in effect[k].delivered \/ (d = c /\ AllCaught(k, c))
    /\ g.delivered \subseteq g.targets

Works(c) ==
    /\ \E q \in Polling \cup {Nil}, k \in Key, g \in Effect :
          /\ poll' = [poll EXCEPT ![c] = q]
          /\ effect[k] # Nil /\ effect[k].prepared
          /\ effect' = [effect EXCEPT ![k] = g] /\ Grows(c, k, g)
          /\ q # Nil => Working(c, k, q)
    /\ UNCHANGED <<workerVars, desired, lease, up, sock>>

LEMMA EffectTyped ==
    ASSUME FanoutTypeOK, NEW k \in Key, effect[k] # Nil
    PROVE  /\ effect[k] \in Effect /\ effect[k].delivered \subseteq effect[k].targets
           /\ \A c \in Consumer : Grows(c, k, effect[k])
           /\ effect[k].owner \in Event /\ outbox[effect[k].owner] \in Row
           /\ effect[k].presentation \in Nat
           /\ effect = [effect EXCEPT ![k] = effect[k]]
BY DEF FanoutTypeOK, Grows, Effect

LEMMA PickStep ==
    ASSUME FanoutTypeOK, NEW c \in Consumer, NEW k \in Key, Pick(c, k)
    PROVE  Works(c)
<1> DEFINE e == effect[k].owner
           q == [k |-> k, e |-> e, t |-> outbox[e].token,
                 pc |-> "picked", states |-> {}, v |-> 0]
<1>1. /\ effect[k] # Nil /\ effect[k].prepared /\ c \in effect[k].targets
      /\ poll' = [poll EXCEPT ![c] = q]
      /\ UNCHANGED <<workerVars, desired, effect, lease, up, sock>>
  BY DEF Pick
<1>2. q \in Polling /\ q.k = k /\ q.states = {} /\ q.pc = "picked"
  BY <1>1, EffectTyped DEF Polling, Row
<1> HIDE DEF q
<1>3. Working(c, k, q)
  BY <1>1, <1>2 DEF Working
<1> QED BY <1>1, <1>2, <1>3, EffectTyped DEF Works

LEMMA BeginStep ==
    ASSUME FanoutTypeOK, Collected, NEW c \in Consumer, BeginTarget(c)
    PROVE  Works(c)
<1> DEFINE k == poll[c].k
           t == poll[c].t
           states == OpenOn(c)
           pc == IF states = {} THEN "sent" ELSE "collected"
           q == [poll[c] EXCEPT !.states = states, !.pc = pc]
           g == [effect[k] EXCEPT !.token = [effect[k].token EXCEPT ![c] = t]]
<1>1. poll[c] # Nil /\ UNCHANGED <<workerVars, desired, lease, up, sock>>
  BY DEF BeginTarget, At
<1>2. /\ poll[c] \in Polling /\ k \in Key /\ t \in Nat
      /\ effect[k] # Nil /\ effect[k].prepared /\ c \in effect[k].targets
  BY <1>1, PollTyped DEF Collected
<1>3. CASE /\ c \in effect[k].delivered \/ effect[k].token[c] = t
           /\ poll' = [poll EXCEPT ![c] = Nil] /\ UNCHANGED effect
  BY <1>1, <1>2, <1>3, EffectTyped DEF Works
<1>4. CASE /\ effect' = [effect EXCEPT ![k].token[c] = t]
           /\ poll' = [poll EXCEPT ![c].states = states, ![c].pc = pc]
  <2>1. /\ g \in Effect /\ g.owner = effect[k].owner /\ g.prepared = effect[k].prepared
        /\ g.targets = effect[k].targets /\ g.delivered = effect[k].delivered
        /\ g.presentation = effect[k].presentation
    BY <1>2, EffectTyped DEF Effect
  <2>2. effect' = [effect EXCEPT ![k] = g]
    BY <1>4, Zenon
  <2>3. Grows(c, k, g)
    BY <1>2, <2>1, EffectTyped DEF Grows
  <2>4. poll' = [poll EXCEPT ![c] = q]
    BY <1>4, Zenon
  <2>5. states \subseteq Socket /\ states \subseteq OpenOn(c) /\ OpenOn(c) \ states = {}
    BY DEF OpenOn
  <2>6. pc \in {"sent", "collected"} /\ (pc = "sent" => OpenOn(c) = {})
    OBVIOUS
  <2> HIDE DEF states, pc, g
  <2>7. q \in Polling /\ q.k = k /\ q.states = states /\ q.pc = pc
    BY <1>2, <2>5, <2>6 DEF Polling
  <2> HIDE DEF q
  <2>8. Working(c, k, q)
    BY <1>2, <2>5, <2>6, <2>7 DEF Working, AllCaught
  <2> QED BY <1>1, <1>2, <2>1, <2>2, <2>3, <2>4, <2>7, <2>8 DEF Works
<1> QED BY <1>3, <1>4 DEF BeginTarget

LEMMA BuildStep ==
    ASSUME FanoutTypeOK, Announced, Collected, NEW c \in Consumer, Build(c)
    PROVE  Works(c)
<1> DEFINE k == poll[c].k
           v == IF effect[k].presentation # 0 THEN effect[k].presentation ELSE desired
           q == [poll[c] EXCEPT !.v = v, !.pc = "built"]
<1>1. /\ poll[c] # Nil /\ poll[c].pc = "collected"
      /\ UNCHANGED <<workerVars, desired, effect, lease, up, sock>>
  BY DEF Build, At
<1>2. /\ poll[c] \in Polling /\ k \in Key /\ poll[c].states \subseteq OpenOn(c)
      /\ effect[k] # Nil /\ effect[k].prepared /\ c \in effect[k].targets
      /\ \A x \in OpenOn(c) \ poll[c].states : Caught(k, x)
  BY <1>1, PollTyped DEF Collected
<1>3. v \in Nat /\ v >= k
  BY <1>2, EffectTyped, KeysAreNumbers DEF Announced, FanoutTypeOK
<1>4. poll' = [poll EXCEPT ![c] = q]
  BY Zenon DEF Build
<1> HIDE DEF v
<1>5. q \in Polling /\ q.k = k /\ q.states = poll[c].states /\ q.pc = "built" /\ q.v = v
  BY <1>2, <1>3 DEF Polling
<1> HIDE DEF q
<1>6. Working(c, k, q)
  BY <1>2, <1>3, <1>5 DEF Working
<1> QED BY <1>1, <1>2, <1>4, <1>5, <1>6, EffectTyped DEF Works

LEMMA StoreStep ==
    ASSUME FanoutTypeOK, Announced, Collected, NEW c \in Consumer, StoreReceipt(c)
    PROVE  Works(c)
<1> DEFINE k == poll[c].k
           w == IF effect[k].presentation # 0 THEN effect[k].presentation ELSE poll[c].v
           q == [poll[c] EXCEPT !.v = w, !.pc = "stored"]
           g == [effect[k] EXCEPT !.presentation = w]
<1>1. /\ poll[c] # Nil /\ poll[c].pc = "built"
      /\ UNCHANGED <<workerVars, desired, lease, up, sock>>
  BY DEF StoreReceipt, At
<1>2. /\ poll[c] \in Polling /\ k \in Key /\ poll[c].v \in Nat /\ poll[c].v >= k
      /\ poll[c].states \subseteq OpenOn(c)
      /\ effect[k] # Nil /\ effect[k].prepared /\ c \in effect[k].targets
      /\ \A x \in OpenOn(c) \ poll[c].states : Caught(k, x)
  BY <1>1, PollTyped DEF Collected
<1>3. w \in Nat /\ w >= k
  BY <1>2, EffectTyped, KeysAreNumbers DEF Announced
<1>4. poll' = [poll EXCEPT ![c] = q]
  BY Zenon DEF StoreReceipt
<1>5. effect' = [effect EXCEPT ![k] = g]
  BY Zenon DEF StoreReceipt
<1> HIDE DEF w
<1>6. q \in Polling /\ q.k = k /\ q.states = poll[c].states /\ q.pc = "stored" /\ q.v = w
  BY <1>2, <1>3 DEF Polling
<1>7. /\ g \in Effect /\ g.owner = effect[k].owner /\ g.prepared = effect[k].prepared
      /\ g.targets = effect[k].targets /\ g.delivered = effect[k].delivered
      /\ g.presentation = w
  <2>1. effect[k] \in Effect
    BY <1>2, EffectTyped
  <2> QED BY <1>3, <2>1 DEF Effect
<1> HIDE DEF q, g
<1>8. Working(c, k, q) /\ Grows(c, k, g)
  BY <1>2, <1>3, <1>6, <1>7, EffectTyped DEF Working, Grows
<1> QED BY <1>1, <1>2, <1>4, <1>5, <1>6, <1>7, <1>8 DEF Works

LEMMA FinishStep ==
    ASSUME FanoutTypeOK, Collected, NEW c \in Consumer, FinishTarget(c)
    PROVE  Works(c)
<1> DEFINE k == poll[c].k
           delivered == IF poll[c].pc = "sent" THEN effect[k].delivered \cup {c}
                        ELSE effect[k].delivered \ {c}
           g == [effect[k] EXCEPT !.delivered = delivered]
           p == [poll[c] EXCEPT !.pc = "failing"]
<1>1. poll[c] # Nil /\ UNCHANGED <<workerVars, desired, lease, up, sock>>
  BY DEF FinishTarget, At
<1>2. /\ poll[c] \in Polling /\ k \in Key /\ poll[c].states \subseteq OpenOn(c)
      /\ effect[k] # Nil /\ effect[k].prepared /\ c \in effect[k].targets
      /\ poll[c].pc = "sent" => AllCaught(k, c)
  BY <1>1, PollTyped DEF Collected
<1>3. /\ delivered \subseteq effect[k].delivered \cup {c}
      /\ \A d \in delivered : d \in effect[k].delivered \/ (d = c /\ AllCaught(k, c))
  BY <1>2
<1>4. /\ effect' = effect \/ effect' = [effect EXCEPT ![k] = g]
      /\ poll' = [poll EXCEPT ![c] = Nil] \/ poll' = [poll EXCEPT ![c] = p]
  BY Zenon DEF FinishTarget
<1> HIDE DEF delivered
<1>5. /\ g \in Effect /\ g.owner = effect[k].owner /\ g.prepared = effect[k].prepared
      /\ g.targets = effect[k].targets /\ g.delivered = delivered
      /\ g.presentation = effect[k].presentation
  <2>1. effect[k] \in Effect
    BY <1>2, EffectTyped
  <2>2. delivered \in SUBSET Consumer
    BY <1>3, <2>1 DEF Effect
  <2> QED BY <2>1, <2>2 DEF Effect
<1>6. p \in Polling /\ p.k = k /\ p.states = poll[c].states /\ p.pc = "failing"
  BY <1>2 DEF Polling
<1> HIDE DEF g, p
<1>7. Grows(c, k, g) /\ Grows(c, k, effect[k]) /\ effect[k] \in Effect
  BY <1>2, <1>3, <1>5, EffectTyped DEF Grows
<1>8. PICK h \in Effect : effect' = [effect EXCEPT ![k] = h] /\ Grows(c, k, h)
  BY <1>2, <1>4, <1>5, <1>7, EffectTyped
<1>9. Working(c, k, p)
  BY <1>2, <1>6 DEF Working
<1>10. PICK q \in Polling \cup {Nil} :
          poll' = [poll EXCEPT ![c] = q] /\ (q # Nil => Working(c, k, q))
  BY <1>4, <1>6, <1>9
<1> QED BY <1>1, <1>2, <1>8, <1>10 DEF Works

-----------------------------------------------------------------------------
(* Connections.  A connection that was there keeps its process, remembers the  *)
(* newest it was sent, and reads the current change before its first push; a   *)
(* new one has still to ask.                                                   *)
Moves ==
    /\ sock' \in [Socket -> Display \cup {Nil}]
    /\ \A x \in Socket : sock'[x] # Nil =>
          \/ sock[x] = Nil /\ sock'[x].push = "asked"
          \/ /\ sock[x] # Nil /\ sock'[x].c = sock[x].c
             /\ sock'[x].shown >= sock[x].shown
             /\ sock[x].exposed => sock'[x].exposed
             /\ IF sock[x].push = "asked"
                THEN sock'[x].push = "asked" \/ sock'[x].v = desired
                ELSE sock'[x].v = sock[x].v \/ sock'[x].shown >= sock[x].v

(* A display that is caught stays caught, whatever happens to its connection.  *)
LEMMA CaughtStays ==
    ASSUME FanoutTypeOK, Moves, NEW k \in Nat, k <= desired, NEW c
    PROVE  /\ \A x \in OpenOn(c)' : x \in OpenOn(c) => (Caught(k, x) => Caught(k, x)')
           /\ \A x \in OpenOn(c)' : x \notin OpenOn(c) => Caught(k, x)'
           /\ AllCaught(k, c) => AllCaught(k, c)'
<1>1. \A x \in Socket : sock[x] # Nil => sock[x] \in Display
  BY DEF FanoutTypeOK
<1>2. \A x \in Socket : sock'[x] # Nil => sock'[x] \in Display
  BY DEF Moves
<1>3. \A x \in Socket : sock[x] # Nil /\ Caught(k, x) => Caught(k, x)'
  <2> SUFFICES ASSUME NEW x \in Socket, sock[x] # Nil, Caught(k, x), sock'[x] # Nil,
                      ~sock'[x].exposed
               PROVE  sock'[x].push = "asked" \/ sock'[x].v >= k \/ sock'[x].shown >= k
    BY DEF Caught
  <2>1. /\ sock[x].shown \in Nat /\ sock[x].v \in Nat /\ sock'[x].shown \in Nat
        /\ sock'[x].v \in Nat /\ desired \in Nat
    BY <1>1, <1>2 DEF Display, FanoutTypeOK
  <2> QED BY <2>1 DEF Caught, Moves
<1>4. \A x \in Socket : sock[x] = Nil => Caught(k, x)'
  BY DEF Moves, Caught
<1>5. \A x \in OpenOn(c)' : x \in Socket /\ (sock[x] # Nil => x \in OpenOn(c))
  BY DEF OpenOn, Moves
<1>6. \A x \in OpenOn(c) : x \in Socket /\ sock[x] # Nil
  BY DEF OpenOn
<1> QED BY <1>3, <1>4, <1>5, <1>6 DEF AllCaught

LEMMA ClosesMoves ==
    ASSUME FanoutTypeOK, NEW X, Closes(X)
    PROVE  /\ Moves
           /\ \A d : OpenOn(d)' = OpenOn(d) \ X
<1>1. sock' = [x \in Socket |-> IF x \in X THEN Nil ELSE sock[x]]
  BY DEF Closes
<1>2. \A x \in Socket : sock[x] # Nil => sock[x].shown \in Nat
  BY DEF FanoutTypeOK, Display
<1>3. Moves
  BY <1>1, <1>2 DEF Moves, FanoutTypeOK
<1> QED BY <1>1, <1>3 DEF OpenOn

LEMMA ShownTyped ==
    ASSUME FanoutTypeOK, NEW x \in Socket, sock[x] # Nil, NEW v \in Nat
    PROVE  /\ sock[x] \in Display /\ Shown(x, v) \in Display
           /\ Shown(x, v).shown >= v /\ Shown(x, v).shown >= sock[x].shown
           /\ Shown(x, v).shown \in Nat
           /\ Shown(x, v).push = sock[x].push /\ Shown(x, v).v = sock[x].v
           /\ Shown(x, v).c = sock[x].c /\ Shown(x, v).exposed = sock[x].exposed
<1> DEFINE w == IF v > sock[x].shown THEN v ELSE sock[x].shown
<1>1. sock[x] \in Display
  BY DEF FanoutTypeOK
<1>2. w \in Nat /\ w >= v /\ w >= sock[x].shown
  BY <1>1 DEF Display
<1>3. Shown(x, v) = [sock[x] EXCEPT !.shown = w]
  BY Zenon DEF Shown
<1> HIDE DEF w
<1> QED BY <1>1, <1>2, <1>3 DEF Display

LEMMA SendStep ==
    ASSUME FanoutTypeOK, Collected, NEW c \in Consumer, Send(c)
    PROVE  /\ Moves /\ \A d : OpenOn(d)' = OpenOn(d)
           /\ \E q \in Polling :
                 /\ poll' = [poll EXCEPT ![c] = q] /\ q.k = poll[c].k
                 /\ poll[c] # Nil /\ q.states = poll[c].states /\ q.pc = "sent"
           /\ \A k : k = poll[c].k => AllCaught(k, c)'
           /\ UNCHANGED <<workerVars, desired, effect, lease, up>>
<1>0. PICK k : k = poll[c].k
  OBVIOUS
<1> DEFINE v == poll[c].v
           X == poll[c].states
           q == [poll[c] EXCEPT !.pc = "sent"]
<1>1. /\ poll[c] # Nil /\ poll[c].pc = "stored"
      /\ UNCHANGED <<workerVars, desired, effect, lease, up>>
  BY DEF Send, At
<1>2. /\ poll[c] \in Polling /\ k \in Nat /\ v \in Nat /\ v >= k /\ X \subseteq OpenOn(c)
      /\ \A x \in OpenOn(c) \ X : Caught(k, x)
  BY <1>0, <1>1, PollTyped, KeysAreNumbers DEF Collected
<1>3. q \in Polling /\ q.k = k /\ q.states = X /\ q.pc = "sent"
  BY <1>0, <1>2 DEF Polling
<1>4. poll' = [poll EXCEPT ![c] = q]
  BY Zenon DEF Send
<1>5. sock' = [x \in Socket |-> IF x \in X THEN Shown(x, v) ELSE sock[x]]
  BY DEF Send
<1> HIDE DEF q, v, X
<1>6. \A x \in OpenOn(c) : x \in Socket /\ sock[x] # Nil
  BY DEF OpenOn
<1>7. \A x \in X : sock'[x] = Shown(x, v) /\ x \in Socket /\ sock[x] # Nil
  BY <1>2, <1>5, <1>6
<1>8. \A x \in Socket \ X : sock'[x] = sock[x]
  BY <1>5
<1>9. \A x \in X : /\ sock'[x] \in Display /\ sock'[x].shown >= v /\ sock'[x].shown \in Nat
                   /\ sock'[x].shown >= sock[x].shown /\ sock'[x].c = sock[x].c
                   /\ sock'[x].push = sock[x].push /\ sock'[x].v = sock[x].v
                   /\ sock'[x] # Nil /\ sock'[x].exposed = sock[x].exposed
  BY <1>2, <1>7, ShownTyped, FanoutAssumption
<1>10. \A x \in Socket : sock[x] # Nil => sock[x] \in Display /\ sock[x].shown \in Nat
  BY DEF FanoutTypeOK, Display
<1>11. sock' \in [Socket -> Display \cup {Nil}]
  <2>1. \A x \in Socket : sock'[x] \in Display \cup {Nil}
    BY <1>8, <1>9, <1>10
  <2> QED BY <1>5, <2>1
<1>12. Moves
  BY <1>7, <1>8, <1>9, <1>10, <1>11 DEF Moves
<1>13. \A d : OpenOn(d)' = OpenOn(d)
  BY <1>7, <1>8, <1>9 DEF OpenOn
<1>14. AllCaught(k, c)'
  <2>1. \A x \in OpenOn(c) : sock'[x].shown >= k \/ (x \notin X /\ Caught(k, x))
    BY <1>2, <1>9
  <2>2. \A x \in OpenOn(c) : Caught(k, x)'
    BY <1>6, <1>8, <2>1 DEF Caught
  <2> QED BY <1>13, <2>2 DEF AllCaught
<1> QED BY <1>0, <1>1, <1>3, <1>4, <1>12, <1>13, <1>14 DEF X

LEMMA StillMoves == ASSUME FanoutTypeOK, sock' = sock PROVE Moves /\ \A d : OpenOn(d)' = OpenOn(d)
<1>1. \A x \in Socket : sock[x] # Nil => sock[x].shown \in Nat
  BY DEF FanoutTypeOK, Display
<1> QED BY <1>1 DEF Moves, FanoutTypeOK, OpenOn

(* Leases start, lapse, are renewed and are given up; no process comes to life *)
(* with connections that are open, but for those that it is marked with.       *)
LEMMA LeaseSteps ==
    ASSUME FanoutTypeOK, Owned, NEW c \in Consumer,
           Start(c) \/ LeaseLapses(c) \/ Renew(c) \/ Unregister(c)
    PROVE  /\ UNCHANGED <<workerVars, desired, effect, poll>>
           /\ lease' \in [Consumer -> {"none", "live", "lapsed"}]
           /\ up' \in [Consumer -> {"new", "up", "stopping", "gone"}]
           /\ \A d \in Consumer : up'[d] = up[d] \/ up'[d] \in {"up", "stopping"}
           /\ Moves /\ \A d : OpenOn(d)' = OpenOn(d)
           /\ \A d \in LiveConsumers' \ LiveConsumers :
                 \A x \in OpenOn(d)' : sock'[x].exposed
<1>1. CASE Start(c)
  <2>1. sock' = sock /\ OpenOn(c) = {}
    BY <1>1 DEF Start, Owned
  <2>2. \A d \in LiveConsumers' \ LiveConsumers : d = c
    BY <1>1 DEF Start, FanoutTypeOK, LiveConsumers
  <2> QED BY <1>1, <2>1, <2>2, StillMoves DEF Start, FanoutTypeOK
<1>2. CASE LeaseLapses(c) \/ Unregister(c)
  <2>1. sock' = sock /\ LiveConsumers' \ LiveConsumers = {}
    BY <1>2 DEF LeaseLapses, Unregister, FanoutTypeOK, LiveConsumers
  <2> QED BY <1>2, <2>1, StillMoves DEF LeaseLapses, Unregister, FanoutTypeOK
<1>3. CASE Renew(c)
  <2>1. sock' = [x \in Socket |->
            IF x \in OpenOn(c) THEN [sock[x] EXCEPT !.exposed = TRUE] ELSE sock[x]]
    BY <1>3 DEF Renew
  <2>2. \A x \in Socket : sock[x] # Nil => sock[x] \in Display /\ sock[x].shown \in Nat
    BY DEF FanoutTypeOK, Display
  <2>3. \A x \in OpenOn(c) : x \in Socket /\ sock[x] # Nil
    BY DEF OpenOn
  <2>4. \A x \in OpenOn(c) :
           /\ sock'[x] \in Display /\ sock'[x] # Nil /\ sock'[x].exposed
           /\ sock'[x].c = sock[x].c /\ sock'[x].shown = sock[x].shown
           /\ sock'[x].push = sock[x].push /\ sock'[x].v = sock[x].v
    <3> SUFFICES ASSUME NEW x \in OpenOn(c)
                 PROVE  /\ sock'[x] \in Display /\ sock'[x] # Nil /\ sock'[x].exposed
                        /\ sock'[x].c = sock[x].c /\ sock'[x].shown = sock[x].shown
                        /\ sock'[x].push = sock[x].push /\ sock'[x].v = sock[x].v
      OBVIOUS
    <3>1. sock'[x] = [sock[x] EXCEPT !.exposed = TRUE] /\ sock[x] \in Display
      BY <2>1, <2>2, <2>3
    <3> QED BY <3>1, FanoutAssumption DEF Display
  <2>5. \A x \in Socket \ OpenOn(c) : sock'[x] = sock[x]
    BY <2>1
  <2>6. Moves
    <3>1. sock' \in [Socket -> Display \cup {Nil}]
      BY <2>1, <2>2, <2>4, <2>5
    <3> QED BY <2>2, <2>3, <2>4, <2>5, <3>1 DEF Moves
  <2>7. \A d : OpenOn(d)' = OpenOn(d)
    BY <2>3, <2>4, <2>5 DEF OpenOn
  <2>8. \A d \in LiveConsumers' \ LiveConsumers : d = c
    BY <1>3 DEF Renew, FanoutTypeOK, LiveConsumers
  <2> QED BY <1>3, <2>4, <2>6, <2>7, <2>8 DEF Renew, FanoutTypeOK
<1> QED BY <1>1, <1>2, <1>3

LEMMA SocketSteps ==
    ASSUME FanoutTypeOK, NEW x \in Socket,
           (\E c \in Consumer : Connect(x, c)) \/ PushRead(x) \/ PushSend(x)
    PROVE  /\ Moves
           /\ \A d : OpenOn(d) \subseteq OpenOn(d)'
           /\ \A d : OpenOn(d)' # {} => OpenOn(d) # {} \/ up[d] \in {"up", "stopping"}
           /\ UNCHANGED <<workerVars, desired, effect, lease, up, poll>>
<1>1. \A y \in Socket : sock[y] # Nil => sock[y] \in Display /\ sock[y].shown \in Nat
  BY DEF FanoutTypeOK, Display
<1>2. SUFFICES ASSUME NEW r \in Display, sock' = [sock EXCEPT ![x] = r],
                      UNCHANGED <<workerVars, desired, effect, lease, up, poll>>,
                      \/ sock[x] = Nil /\ r.push = "asked" /\ up[r.c] \in {"up", "stopping"}
                      \/ /\ sock[x] # Nil /\ r.c = sock[x].c /\ r.shown >= sock[x].shown
                         /\ r.exposed = sock[x].exposed
                         /\ IF sock[x].push = "asked" THEN r.v = desired
                            ELSE r.shown >= sock[x].v
               PROVE  /\ Moves
                      /\ \A d : OpenOn(d) \subseteq OpenOn(d)'
                      /\ \A d : OpenOn(d)' # {} => OpenOn(d) # {} \/ up[d] \in {"up", "stopping"}
  <2>1. CASE \E c \in Consumer : Connect(x, c)
    <3>1. PICK c \in Consumer : Connect(x, c)
      BY <2>1
    <3> DEFINE r == [c |-> c, shown |-> 0, v |-> 0, push |-> "asked", exposed |-> FALSE]
    <3>2. r \in Display /\ r.push = "asked" /\ r.c = c
      BY DEF Display
    <3>3. /\ sock' = [sock EXCEPT ![x] = r] /\ sock[x] = Nil /\ up[c] \in {"up", "stopping"}
          /\ UNCHANGED <<workerVars, desired, effect, lease, up, poll>>
      BY <3>1 DEF Connect
    <3> HIDE DEF r
    <3> QED BY <1>2, <3>2, <3>3
  <2>2. CASE PushRead(x)
    <3>0. PICK push \in {"read", "idle"} :
              sock' = [sock EXCEPT ![x].push = push, ![x].v = desired]
      BY <2>2 DEF PushRead
    <3> DEFINE r == [sock[x] EXCEPT !.push = push, !.v = desired]
    <3>1. /\ sock[x] # Nil /\ sock[x].push = "asked"
          /\ UNCHANGED <<workerVars, desired, effect, lease, up, poll>>
      BY <2>2 DEF PushRead
    <3>2. /\ r \in Display /\ r.v = desired /\ r.c = sock[x].c
          /\ r.shown >= sock[x].shown /\ r.exposed = sock[x].exposed
      <4>1. sock[x] \in Display /\ desired \in Nat /\ sock[x].shown \in Nat
        BY <1>1, <3>1 DEF FanoutTypeOK
      <4>2. PICK d \in Display : d = sock[x]
        BY <4>1
      <4>3. r = [d EXCEPT !.push = push, !.v = desired]
        BY <4>2
      <4> HIDE DEF r
      <4>4. /\ r \in Display /\ r.v = desired /\ r.c = d.c /\ r.shown = d.shown
            /\ r.exposed = d.exposed
        BY <4>1, <4>3 DEF Display
      <4> QED BY <4>1, <4>2, <4>4
    <3>3. sock' = [sock EXCEPT ![x] = r]
      BY <3>0, Zenon
    <3> HIDE DEF r
    <3> QED BY <1>2, <3>1, <3>2, <3>3
  <2>3. CASE PushSend(x)
    <3> DEFINE w == Shown(x, sock[x].v)
               r == [w EXCEPT !.push = "idle", !.v = 0]
    <3>1. /\ sock[x] # Nil /\ sock[x].push = "read"
          /\ UNCHANGED <<workerVars, desired, effect, lease, up, poll>>
      BY <2>3 DEF PushSend
    <3>2. sock[x].v \in Nat
      BY <1>1, <3>1 DEF Display
    <3>3. /\ w \in Display /\ w.shown >= sock[x].v /\ w.shown >= sock[x].shown
          /\ w.c = sock[x].c /\ w.exposed = sock[x].exposed
      BY <3>1, <3>2, ShownTyped
    <3>4. sock' = [sock EXCEPT ![x] = r]
      BY <2>3 DEF PushSend
    <3> HIDE DEF w
    <3>5. /\ r \in Display /\ r.shown >= sock[x].v /\ r.shown >= sock[x].shown
          /\ r.c = sock[x].c /\ r.exposed = sock[x].exposed
      BY <3>3 DEF Display
    <3> HIDE DEF r
    <3> QED BY <1>2, <3>1, <3>4, <3>5
  <2> QED BY <2>1, <2>2, <2>3
<1>3. /\ sock'[x] = r /\ r # Nil
      /\ \A y \in Socket \ {x} : sock'[y] = sock[y]
  BY <1>2, FanoutAssumption DEF FanoutTypeOK
<1>4. Moves
  <2>1. sock' \in [Socket -> Display \cup {Nil}]
    BY <1>2 DEF FanoutTypeOK
  <2> QED BY <1>1, <1>2, <1>3, <2>1 DEF Moves
<1>5. \A d : OpenOn(d) \subseteq OpenOn(d)'
  BY <1>2, <1>3 DEF OpenOn
<1>6. \A d : OpenOn(d)' # {} => OpenOn(d) # {} \/ up[d] \in {"up", "stopping"}
  BY <1>2, <1>3 DEF OpenOn
<1> QED BY <1>4, <1>5, <1>6

-----------------------------------------------------------------------------
(* What the processes and displays do disturbs nothing that the worker relies  *)
(* on: they add no target and no recipient, mark only targets whose displays   *)
(* are caught, and no process comes to life with connections that are open and *)
(* not exposed.                                                                *)
EffectsKept ==
    /\ effect' \in [Key -> Effect \cup {Nil}]
    /\ \A k \in Key :
        /\ effect[k] = Nil => effect'[k] = Nil
        /\ effect[k] # Nil =>
              /\ effect'[k] # Nil
              /\ effect'[k].owner = effect[k].owner
              /\ effect'[k].prepared = effect[k].prepared
              /\ effect'[k].targets = effect[k].targets
              /\ effect'[k].delivered \subseteq effect'[k].targets
              /\ effect'[k].presentation = effect[k].presentation \/ effect'[k].presentation >= k
              /\ \A d \in effect'[k].delivered : d \in effect[k].delivered \/ AllCaught(k, d)

Quiet ==
    /\ Moves /\ EffectsKept
    /\ \A d \in LiveConsumers' \ LiveConsumers :
          \A x \in OpenOn(d)' : sock'[x].exposed
    /\ UNCHANGED <<workerVars, desired>>

LEMMA LiveStays ==
    ASSUME FanoutTypeOK, Quiet, NEW k \in Nat, k <= desired, NEW T,
           \A c \in LiveConsumers \ T : AllCaught(k, c)
    PROVE  \A c \in LiveConsumers' \ T : AllCaught(k, c)'
<1>1. \A c \in LiveConsumers \ T : AllCaught(k, c)'
  BY CaughtStays DEF Quiet
<1>2. \A c \in LiveConsumers' \ LiveConsumers : AllCaught(k, c)'
  BY DEF Quiet, AllCaught, Caught
<1> QED BY <1>1, <1>2

LEMMA QuietStep ==
    ASSUME FanoutTypeOK, Announced, Quiet, Marked, Waiting, Reported
    PROVE  Announced' /\ Marked' /\ Waiting' /\ Reported'
<1> USE KeysAreNumbers
<1>1. /\ outbox' = outbox /\ runs' = runs /\ seen' = seen /\ desired' = desired
      /\ EffectsKept /\ Moves
  BY DEF Quiet, workerVars
<1>2. \A k \in Key : effect'[k] # Nil =>
         /\ effect[k] # Nil /\ k \in Nat /\ k <= desired
         /\ effect'[k].owner = effect[k].owner /\ effect'[k].prepared = effect[k].prepared
         /\ effect'[k].targets = effect[k].targets
         /\ \A d \in effect'[k].delivered : d \in effect[k].delivered \/ AllCaught(k, d)
  BY <1>1 DEF EffectsKept, Announced
<1>3. Announced'
  BY <1>1, <1>2 DEF EffectsKept, Announced
<1>4. Marked'
  <2> SUFFICES ASSUME NEW k \in Key, effect'[k] # Nil
               PROVE  /\ \A c \in effect'[k].delivered : AllCaught(k, c)'
                      /\ effect'[k].prepared =>
                            \A c \in LiveConsumers' \ effect'[k].targets : AllCaught(k, c)'
    BY DEF Marked
  <2>1. \A c \in effect'[k].delivered : AllCaught(k, c)
    BY <1>2 DEF Marked
  <2>2. \A c \in effect'[k].delivered : AllCaught(k, c)'
    BY <1>1, <1>2, <2>1, CaughtStays
  <2>3. ASSUME effect[k].prepared
        PROVE  \A c \in LiveConsumers' \ effect[k].targets : AllCaught(k, c)'
    <3>1. \A c \in LiveConsumers \ effect[k].targets : AllCaught(k, c)
      BY <1>2, <2>3 DEF Marked
    <3> QED BY <1>2, <3>1, LiveStays
  <2> QED BY <1>2, <2>2, <2>3
<1>5. \A k \in Nat : k <= desired /\ LiveCaught(k) => LiveCaught(k)'
  <2> SUFFICES ASSUME NEW k \in Nat, k <= desired, LiveCaught(k)
               PROVE  LiveCaught(k)'
    OBVIOUS
  <2>1. \A c \in LiveConsumers \ {} : AllCaught(k, c)
    BY DEF LiveCaught
  <2>2. \A c \in LiveConsumers' \ {} : AllCaught(k, c)'
    BY <2>1, LiveStays
  <2> QED BY <2>2 DEF LiveCaught
<1>6. Reported'
  BY <1>1, <1>2, <1>5 DEF Reported
<1>7. Waiting'
  <2> SUFFICES ASSUME NEW s \in Worker, runs[s] # Nil, NEW k, k = SequenceOf[runs[s].e]
               PROVE  /\ runs[s].pc # "loaded" => effect'[k] # Nil /\ effect'[k].prepared
                      /\ runs[s].pc \in {"prepared", "counting"} => effect'[k].owner = runs[s].e
                      /\ runs[s].pc = "counting" =>
                            \A c \in LiveConsumers' \ seen[s] : AllCaught(k, c)'
                      /\ runs[s].pc = "done" /\ effect'[k].owner = runs[s].e => LiveCaught(k)'
    BY <1>1 DEF Waiting
  <2>1. /\ runs[s].pc \in {"loaded", "prepared", "counting", "done"}
        /\ k \in Key /\ k \in Nat /\ k <= desired
    BY RunTyped DEF Announced, Dispatching
  <2>2. /\ runs[s].pc # "loaded" => effect[k] # Nil /\ effect[k].prepared
        /\ runs[s].pc \in {"prepared", "counting"} => effect[k].owner = runs[s].e
        /\ runs[s].pc = "counting" => \A c \in LiveConsumers \ seen[s] : AllCaught(k, c)
        /\ runs[s].pc = "done" /\ effect[k].owner = runs[s].e => LiveCaught(k)
    BY DEF Waiting
  <2>3. effect[k] # Nil => /\ effect'[k] # Nil /\ effect'[k].prepared = effect[k].prepared
                           /\ effect'[k].owner = effect[k].owner
    BY <1>1, <2>1 DEF EffectsKept
  <2>4. runs[s].pc = "counting" => \A c \in LiveConsumers' \ seen[s] : AllCaught(k, c)'
    BY <2>1, <2>2, LiveStays
  <2>5. runs[s].pc = "done" /\ effect'[k].owner = runs[s].e => LiveCaught(k)'
    BY <1>5, <2>1, <2>2, <2>3
  <2> QED BY <2>1, <2>2, <2>3, <2>4, <2>5
<1> QED BY <1>3, <1>4, <1>6, <1>7

LEMMA UnchangedEffects == ASSUME FanoutTypeOK, effect' = effect PROVE EffectsKept
BY DEF EffectsKept, FanoutTypeOK

LEMMA ProcessTyped ==
    ASSUME FanoutTypeOK, Quiet,
           lease' \in [Consumer -> {"none", "live", "lapsed"}],
           up' \in [Consumer -> {"new", "up", "stopping", "gone"}],
           poll' \in [Consumer -> Polling \cup {Nil}],
           \A c \in Consumer : poll'[c] # Nil => poll'[c].states \subseteq OpenOn(c)'
    PROVE  FanoutTypeOK'
BY DEF FanoutTypeOK, Quiet, Moves, EffectsKept, workerVars

(* What a process collected stays so while its connections come and go.        *)
LEMMA CollectedStays ==
    ASSUME FanoutTypeOK, Announced, Collected, Quiet, NEW c \in Consumer,
           NEW p, p = poll[c], p # Nil, NEW q, q = poll'[c], q # Nil,
           q.k = p.k, q.v = p.v, \A x \in OpenOn(c)' : x \in p.states => x \in q.states,
           q.pc = p.pc \/ q.pc = "failing"
    PROVE  /\ effect'[q.k] # Nil /\ effect'[q.k].prepared /\ c \in effect'[q.k].targets
           /\ q.pc \in {"built", "stored"} => q.v >= q.k
           /\ q.pc \in {"collected", "built", "stored"} =>
                 \A x \in OpenOn(c)' \ q.states : Caught(q.k, x)'
           /\ q.pc = "sent" => AllCaught(q.k, c)'
<1> PICK k : k = q.k
  OBVIOUS
<1>1. k \in Key /\ k \in Nat /\ k <= desired
  BY PollTyped, KeysAreNumbers DEF Collected, Announced
<1>2. /\ effect[k] # Nil /\ effect[k].prepared /\ c \in effect[k].targets
      /\ p.pc \in {"built", "stored"} => p.v >= k
      /\ p.pc \in {"collected", "built", "stored"} => \A x \in OpenOn(c) \ p.states : Caught(k, x)
      /\ p.pc = "sent" => AllCaught(k, c)
  BY DEF Collected
<1>3. /\ \A x \in OpenOn(c)' : x \in OpenOn(c) => (Caught(k, x) => Caught(k, x)')
      /\ \A x \in OpenOn(c)' : x \notin OpenOn(c) => Caught(k, x)'
      /\ AllCaught(k, c) => AllCaught(k, c)'
  BY <1>1, CaughtStays DEF Quiet
<1>4. effect'[k] # Nil /\ effect'[k].prepared /\ c \in effect'[k].targets
  BY <1>1, <1>2 DEF Quiet, EffectsKept
<1>5. q.pc \in {"collected", "built", "stored"} =>
         \A x \in OpenOn(c)' \ q.states : Caught(k, x)'
  BY <1>2, <1>3
<1> QED BY <1>1, <1>2, <1>3, <1>4, <1>5

LEMMA LeaseKeeps ==
    ASSUME FanoutInv, NEW c \in Consumer,
           Start(c) \/ LeaseLapses(c) \/ Renew(c) \/ Unregister(c)
    PROVE  FanoutInv'
<1> USE DEF FanoutInv
<1>1. /\ UNCHANGED <<workerVars, desired, effect, poll>>
      /\ lease' \in [Consumer -> {"none", "live", "lapsed"}]
      /\ up' \in [Consumer -> {"new", "up", "stopping", "gone"}]
      /\ \A d \in Consumer : up'[d] = up[d] \/ up'[d] \in {"up", "stopping"}
      /\ Moves /\ \A d : OpenOn(d)' = OpenOn(d)
      /\ \A d \in LiveConsumers' \ LiveConsumers :
            \A x \in OpenOn(d)' : sock'[x].exposed
  BY LeaseSteps
<1>2. Quiet
  BY <1>1, UnchangedEffects DEF Quiet
<1>3. FanoutTypeOK'
  BY <1>1, <1>2, ProcessTyped DEF FanoutTypeOK
<1>4. Owned'
  BY <1>1 DEF Owned
<1>5. Collected'
  <2> SUFFICES ASSUME NEW d \in Consumer, NEW r, r = poll'[d], r # Nil
               PROVE  /\ effect'[r.k] # Nil /\ effect'[r.k].prepared /\ d \in effect'[r.k].targets
                      /\ r.pc \in {"built", "stored"} => r.v >= r.k
                      /\ r.pc \in {"collected", "built", "stored"} =>
                            \A y \in OpenOn(d)' \ r.states : Caught(r.k, y)'
                      /\ r.pc = "sent" => AllCaught(r.k, d)'
    BY Zenon DEF Collected
  <2> QED BY <1>1, <1>2, CollectedStays
<1> QED BY <1>2, <1>3, <1>4, <1>5, QuietStep

LEMMA ClosingKeeps ==
    ASSUME FanoutInv, NEW X, Closes(X), lease' = lease,
           up' \in [Consumer -> {"new", "up", "stopping", "gone"}],
           \A d \in Consumer :
              up'[d] = up[d] \/ up'[d] \in {"up", "stopping"} \/ OpenOn(d) \subseteq X
    PROVE  FanoutInv'
<1> USE DEF FanoutInv
<1>1. Moves /\ \A d : OpenOn(d)' = OpenOn(d) \ X
  BY ClosesMoves
<1>2. /\ poll' \in [Consumer -> Polling \cup {Nil}]
      /\ \A d \in Consumer : poll'[d] # Nil =>
            /\ poll[d] # Nil /\ poll'[d].k = poll[d].k /\ poll'[d].v = poll[d].v
            /\ poll'[d].states = poll[d].states \ X
            /\ poll'[d].pc = poll[d].pc \/ poll'[d].pc = "failing"
      /\ UNCHANGED <<workerVars, desired, effect>>
  BY DEF Closes
<1>3. LiveConsumers' = LiveConsumers
  BY DEF LiveConsumers
<1>4. Quiet
  BY <1>1, <1>2, <1>3, UnchangedEffects DEF Quiet
<1>5. \A d \in Consumer : poll'[d] # Nil => poll'[d].states \subseteq OpenOn(d)'
  BY <1>1, <1>2, PollTyped
<1>6. FanoutTypeOK'
  BY <1>2, <1>4, <1>5, ProcessTyped DEF FanoutTypeOK
<1>7. Owned'
  BY <1>1 DEF Owned
<1>8. Collected'
  <2> SUFFICES ASSUME NEW c \in Consumer, NEW q, q = poll'[c], q # Nil
               PROVE  /\ effect'[q.k] # Nil /\ effect'[q.k].prepared /\ c \in effect'[q.k].targets
                      /\ q.pc \in {"built", "stored"} => q.v >= q.k
                      /\ q.pc \in {"collected", "built", "stored"} =>
                            \A x \in OpenOn(c)' \ q.states : Caught(q.k, x)'
                      /\ q.pc = "sent" => AllCaught(q.k, c)'
    BY Zenon DEF Collected
  <2> PICK p : p = poll[c]
    OBVIOUS
  <2>1. /\ p # Nil /\ q.k = p.k /\ q.v = p.v
        /\ q.pc = p.pc \/ q.pc = "failing"
        /\ \A x \in OpenOn(c)' : x \in p.states => x \in q.states
    BY <1>1, <1>2
  <2> QED BY <1>4, <2>1, CollectedStays
<1> QED BY <1>4, <1>6, <1>7, <1>8, QuietStep

LEMMA WorksEffects ==
    ASSUME FanoutTypeOK, NEW c \in Consumer, Works(c)
    PROVE  EffectsKept
<1>1. PICK k \in Key, g \in Effect :
          effect[k] # Nil /\ effect' = [effect EXCEPT ![k] = g] /\ Grows(c, k, g)
  BY DEF Works
<1>2. effect'[k] = g /\ g # Nil /\ \A j \in Key \ {k} : effect'[j] = effect[j]
  BY <1>1, FanoutAssumption DEF FanoutTypeOK
<1>3. effect' \in [Key -> Effect \cup {Nil}]
  BY <1>1 DEF FanoutTypeOK
<1>4. \A j \in Key \ {k} : effect[j] # Nil => effect[j].delivered \subseteq effect[j].targets
  BY DEF FanoutTypeOK
<1> QED BY <1>1, <1>2, <1>3, <1>4 DEF EffectsKept, Grows

LEMMA WorksKeeps ==
    ASSUME FanoutInv, NEW c \in Consumer, Works(c)
    PROVE  FanoutInv'
<1> USE DEF FanoutInv
<1>1. PICK q \in Polling \cup {Nil}, k \in Key, g \in Effect :
          /\ poll' = [poll EXCEPT ![c] = q]
          /\ effect[k] # Nil /\ effect[k].prepared
          /\ effect' = [effect EXCEPT ![k] = g] /\ Grows(c, k, g)
          /\ q # Nil => Working(c, k, q)
  BY DEF Works
<1>2. UNCHANGED <<workerVars, desired, lease, up, sock>>
  BY DEF Works
<1>3. Moves /\ \A d : OpenOn(d)' = OpenOn(d)
  BY <1>2, StillMoves
<1>4. /\ effect'[k] = g /\ g # Nil /\ \A j \in Key \ {k} : effect'[j] = effect[j]
      /\ poll'[c] = q /\ \A d \in Consumer \ {c} : poll'[d] = poll[d]
  BY <1>1, FanoutAssumption DEF FanoutTypeOK
<1>5. EffectsKept
  BY WorksEffects
<1>6. LiveConsumers' = LiveConsumers
  BY <1>2 DEF LiveConsumers
<1>7. Quiet
  BY <1>2, <1>3, <1>5, <1>6 DEF Quiet
<1>8. FanoutTypeOK'
  <2>1. poll' \in [Consumer -> Polling \cup {Nil}]
    BY <1>1 DEF FanoutTypeOK
  <2>2. \A d \in Consumer : poll'[d] # Nil => poll'[d].states \subseteq OpenOn(d)
    BY <1>1, <1>4, PollTyped DEF Working
  <2> QED BY <1>2, <1>3, <1>7, <2>1, <2>2, ProcessTyped DEF FanoutTypeOK
<1>9. Owned'
  BY <1>2, <1>3 DEF Owned
<1>10. Collected'
  <2> SUFFICES ASSUME NEW d \in Consumer, NEW r, r = poll'[d], r # Nil
               PROVE  /\ effect'[r.k] # Nil /\ effect'[r.k].prepared /\ d \in effect'[r.k].targets
                      /\ r.pc \in {"built", "stored"} => r.v >= r.k
                      /\ r.pc \in {"collected", "built", "stored"} =>
                            \A x \in OpenOn(d)' \ r.states : Caught(r.k, x)'
                      /\ r.pc = "sent" => AllCaught(r.k, d)'
    BY Zenon DEF Collected
  <2>1. CASE d = c
    <3>1. r = q /\ Working(c, k, r)
      BY <1>1, <1>4, <2>1
    <3>2. /\ effect'[k] # Nil /\ effect'[k].prepared /\ c \in effect'[k].targets /\ r.k = k
      BY <1>1, <1>4, <3>1 DEF Working, Grows
    <3>3. \A x : Caught(k, x)' <=> Caught(k, x)
      BY <1>2 DEF Caught
    <3>4. AllCaught(k, c)' <=> AllCaught(k, c)
      BY <1>3, <3>3 DEF AllCaught
    <3> QED BY <1>3, <2>1, <3>1, <3>2, <3>3, <3>4 DEF Working
  <2>2. CASE d # c
    <3> PICK p : p = poll[d]
      OBVIOUS
    <3>1. r = p
      BY <1>4, <2>2
    <3> QED BY <1>7, <3>1, CollectedStays
  <2> QED BY <2>1, <2>2
<1> QED BY <1>7, <1>8, <1>9, <1>10, QuietStep

LEMMA SendKeeps ==
    ASSUME FanoutInv, NEW c \in Consumer, Send(c)
    PROVE  FanoutInv'
<1> USE DEF FanoutInv
<1>1. /\ Moves /\ \A d : OpenOn(d)' = OpenOn(d)
      /\ \A k : k = poll[c].k => AllCaught(k, c)'
      /\ UNCHANGED <<workerVars, desired, effect, lease, up>>
      /\ poll[c] # Nil
  BY SendStep
<1>2. PICK q \in Polling :
          /\ poll' = [poll EXCEPT ![c] = q] /\ q.k = poll[c].k
          /\ q.states = poll[c].states /\ q.pc = "sent"
  BY SendStep
<1>3. poll'[c] = q /\ \A d \in Consumer \ {c} : poll'[d] = poll[d]
  BY <1>2 DEF FanoutTypeOK
<1>4. LiveConsumers' = LiveConsumers
  BY <1>1 DEF LiveConsumers
<1>5. Quiet
  BY <1>1, <1>4, UnchangedEffects DEF Quiet
<1>6. FanoutTypeOK'
  <2>1. poll' \in [Consumer -> Polling \cup {Nil}]
    BY <1>2 DEF FanoutTypeOK
  <2>2. \A d \in Consumer : poll'[d] # Nil => poll'[d].states \subseteq OpenOn(d)
    BY <1>1, <1>2, <1>3, PollTyped
  <2> QED BY <1>1, <1>5, <2>1, <2>2, ProcessTyped DEF FanoutTypeOK
<1>7. Owned'
  BY <1>1 DEF Owned
<1>8. Collected'
  <2> SUFFICES ASSUME NEW d \in Consumer, NEW r, r = poll'[d], r # Nil
               PROVE  /\ effect'[r.k] # Nil /\ effect'[r.k].prepared /\ d \in effect'[r.k].targets
                      /\ r.pc \in {"built", "stored"} => r.v >= r.k
                      /\ r.pc \in {"collected", "built", "stored"} =>
                            \A x \in OpenOn(d)' \ r.states : Caught(r.k, x)'
                      /\ r.pc = "sent" => AllCaught(r.k, d)'
    BY Zenon DEF Collected
  <2>1. CASE d = c
    <3>1. r = q
      BY <1>3, <2>1
    <3> QED BY <1>1, <1>2, <2>1, <3>1 DEF Collected
  <2>2. CASE d # c
    <3> PICK p : p = poll[d]
      OBVIOUS
    <3>1. r = p
      BY <1>3, <2>2
    <3> QED BY <1>5, <3>1, CollectedStays
  <2> QED BY <2>1, <2>2
<1> QED BY <1>5, <1>6, <1>7, <1>8, QuietStep

LEMMA SocketKeeps ==
    ASSUME FanoutInv, NEW x \in Socket,
           (\E c \in Consumer : Connect(x, c)) \/ PushRead(x) \/ PushSend(x)
    PROVE  FanoutInv'
<1> USE DEF FanoutInv
<1>1. /\ Moves
      /\ \A d : OpenOn(d) \subseteq OpenOn(d)'
      /\ \A d : OpenOn(d)' # {} => OpenOn(d) # {} \/ up[d] \in {"up", "stopping"}
      /\ UNCHANGED <<workerVars, desired, effect, lease, up, poll>>
  BY SocketSteps
<1>2. LiveConsumers' = LiveConsumers
  BY <1>1 DEF LiveConsumers
<1>3. Quiet
  BY <1>1, <1>2, UnchangedEffects DEF Quiet
<1>4. FanoutTypeOK'
  <2>1. \A d \in Consumer : poll[d] # Nil => poll[d].states \subseteq OpenOn(d)'
    BY <1>1, PollTyped
  <2> QED BY <1>1, <1>3, <2>1, ProcessTyped DEF FanoutTypeOK
<1>5. Owned'
  BY <1>1 DEF Owned
<1>6. Collected'
  <2> SUFFICES ASSUME NEW d \in Consumer, NEW r, r = poll'[d], r # Nil
               PROVE  /\ effect'[r.k] # Nil /\ effect'[r.k].prepared /\ d \in effect'[r.k].targets
                      /\ r.pc \in {"built", "stored"} => r.v >= r.k
                      /\ r.pc \in {"collected", "built", "stored"} =>
                            \A y \in OpenOn(d)' \ r.states : Caught(r.k, y)'
                      /\ r.pc = "sent" => AllCaught(r.k, d)'
    BY Zenon DEF Collected
  <2> QED BY <1>1, <1>3, CollectedStays
<1> QED BY <1>3, <1>4, <1>5, <1>6, QuietStep

-----------------------------------------------------------------------------
(* The steps of the worker and of the table leave processes and displays alone. *)
LEMMA StillCaught ==
    ASSUME UNCHANGED processVars
    PROVE  /\ LiveConsumers' = LiveConsumers /\ \A d : OpenOn(d)' = OpenOn(d)
           /\ \A k, x : Caught(k, x)' = Caught(k, x)
           /\ \A k, c : AllCaught(k, c)' = AllCaught(k, c)
           /\ \A k : LiveCaught(k)' = LiveCaught(k)
<1>1. lease' = lease /\ sock' = sock
  BY DEF processVars
<1>2. LiveConsumers' = LiveConsumers /\ \A d : OpenOn(d)' = OpenOn(d)
  BY <1>1 DEF LiveConsumers, OpenOn
<1>3. \A k, x : Caught(k, x)' = Caught(k, x)
  BY <1>1 DEF Caught
<1>4. \A k, c : AllCaught(k, c)' = AllCaught(k, c)
  BY <1>2, <1>3 DEF AllCaught
<1> QED BY <1>2, <1>3, <1>4 DEF LiveCaught

LEMMA StillCollected ==
    ASSUME UNCHANGED processVars, Owned, Collected,
           \A k \in Key : effect[k] # Nil /\ effect[k].prepared => effect'[k] = effect[k],
           FanoutTypeOK
    PROVE  Owned' /\ Collected'
<1>1. Owned'
  BY StillCaught DEF Owned, processVars
<1>2. Collected'
  <2> SUFFICES ASSUME NEW c \in Consumer, NEW q, q = poll'[c], q # Nil
               PROVE  /\ effect'[q.k] # Nil /\ effect'[q.k].prepared /\ c \in effect'[q.k].targets
                      /\ q.pc \in {"built", "stored"} => q.v >= q.k
                      /\ q.pc \in {"collected", "built", "stored"} =>
                            \A x \in OpenOn(c)' \ q.states : Caught(q.k, x)'
                      /\ q.pc = "sent" => AllCaught(q.k, c)'
    BY Zenon DEF Collected
  <2>1. q = poll[c]
    BY DEF processVars
  <2>2. /\ effect[q.k] # Nil /\ effect[q.k].prepared /\ c \in effect[q.k].targets
        /\ q.pc \in {"built", "stored"} => q.v >= q.k
        /\ q.pc \in {"collected", "built", "stored"} =>
              \A x \in OpenOn(c) \ q.states : Caught(q.k, x)
        /\ q.pc = "sent" => AllCaught(q.k, c)
    BY <2>1, Zenon DEF Collected
  <2>3. q.k \in Key
    BY <2>1, PollTyped
  <2>4. effect'[q.k] = effect[q.k]
    BY <2>2, <2>3
  <2> QED BY <2>2, <2>4, StillCaught
<1> QED BY <1>1, <1>2

LEMMA TableKeeps ==
    ASSUME FanoutInv,
           RowsAge \/ \E e \in Event : Assign(e)
    PROVE  FanoutInv'
<1> USE DEF FanoutInv
<1>1. /\ UNCHANGED <<runs, effect, seen, processVars>> /\ outbox' \in [Event -> Row]
      /\ desired' \in Nat /\ desired' >= desired
      /\ \A e \in Event : outbox'[e].status = "delivered" => outbox[e].status = "delivered"
      /\ \A e \in Event : outbox'[e].status # "absent" =>
            outbox[e].status # "absent" \/ SequenceOf[e] <= desired'
  <2>1. CASE RowsAge
    <3>1. desired \in Nat
      BY DEF FanoutTypeOK
    <3> QED BY <2>1, <3>1, TableTyped DEF Same, Kin
  <2>2. CASE \E e \in Event : Assign(e)
    <3> PICK e \in Event : Assign(e)
      BY <2>2
    <3>1. /\ UNCHANGED <<runs, effect, seen, processVars>>
          /\ outbox' = [outbox EXCEPT ![e] = Produced(TRUE)]
          /\ desired' = IF SequenceOf[e] > desired THEN SequenceOf[e] ELSE desired
      BY DEF Assign
    <3>2. Produced(TRUE) \in Row /\ Produced(TRUE).status = "pending"
      BY DEF Produced, NoRow, Row, Status
    <3>3. outbox \in [Event -> Row] /\ desired \in Nat /\ SequenceOf[e] \in Nat
      BY FanoutAssumption DEF FanoutTypeOK
    <3>4. desired' \in Nat /\ desired' >= desired /\ SequenceOf[e] <= desired'
      BY <3>1, <3>3
    <3>5. /\ outbox' \in [Event -> Row] /\ outbox'[e].status = "pending"
          /\ \A f \in Event \ {e} : outbox'[f] = outbox[f]
      BY <3>1, <3>2, <3>3
    <3> QED BY <3>1, <3>4, <3>5
  <2> QED BY <2>1, <2>2
<1>2. FanoutTypeOK'
  <2>1. \A d : OpenOn(d)' = OpenOn(d)
    BY <1>1, StillCaught
  <2> QED BY <1>1, <2>1 DEF FanoutTypeOK, processVars
<1>3. Owned' /\ Collected'
  BY <1>1, StillCollected
<1>4. Announced'
  <2>1. \A e \in Event : SequenceOf[e] \in Nat
    BY FanoutAssumption
  <2>2. desired \in Nat
    BY DEF FanoutTypeOK
  <2>3. \A e \in Event : outbox'[e].status # "absent" => SequenceOf[e] <= desired'
    BY <1>1, <2>1, <2>2 DEF Announced
  <2>4. \A s \in Worker : runs'[s] # Nil => SequenceOf[runs'[s].e] <= desired'
    BY <1>1, <2>1, <2>2, RunTyped DEF Announced
  <2>5. \A k \in Key : effect'[k] # Nil =>
           /\ k <= desired' /\ SequenceOf[effect'[k].owner] = k
           /\ effect'[k].presentation = 0 \/ effect'[k].presentation >= k
    BY <1>1, <2>2, KeysAreNumbers DEF Announced
  <2> QED BY <2>3, <2>4, <2>5 DEF Announced
<1>5. Marked'
  BY <1>1, StillCaught DEF Marked
<1>6. Waiting'
  BY <1>1, StillCaught DEF Waiting
<1>7. Reported'
  BY <1>1, StillCaught, EffectTyped DEF Reported
<1> QED BY <1>2, <1>3, <1>4, <1>5, <1>6, <1>7

(* A run starts. *)
LEMMA StartKeeps ==
    ASSUME FanoutInv, NEW s \in Worker, StartRun(s)
    PROVE  FanoutInv'
<1> USE DEF FanoutInv
<1>1. /\ outbox' \in [Event -> Row] /\ Same /\ UNCHANGED <<desired, effect, seen, processVars>>
  BY StartTyped
<1>2. PICK r \in Dispatching :
         runs' = [runs EXCEPT ![s] = r] /\ r.pc = "loaded" /\ outbox[r.e].status # "absent"
  BY StartTyped
<1>3. runs'[s] = r /\ \A z \in Worker \ {s} : runs'[z] = runs[z]
  BY <1>2 DEF FanoutTypeOK
<1>4. FanoutTypeOK'
  <2>1. runs' \in [Worker -> Dispatching \cup {Nil}]
    BY <1>2 DEF FanoutTypeOK
  <2>2. \A d : OpenOn(d)' = OpenOn(d)
    BY <1>1, StillCaught
  <2> QED BY <1>1, <2>1, <2>2 DEF FanoutTypeOK, processVars
<1>5. Owned' /\ Collected'
  BY <1>1, StillCollected
<1>6. Announced'
  <2>1. r.e \in Event
    BY <1>2 DEF Dispatching
  <2>2. SequenceOf[r.e] <= desired
    BY <1>2, <2>1 DEF Announced
  <2>3. \A z \in Worker : runs'[z] # Nil => SequenceOf[runs'[z].e] <= desired
    BY <1>3, <2>2 DEF Announced
  <2> QED BY <1>1, <2>3 DEF Announced, Same, Kin
<1>7. Marked'
  BY <1>1, StillCaught DEF Marked
<1>8. Waiting'
  BY <1>1, <1>2, <1>3, StillCaught DEF Waiting
<1>9. Reported'
  BY <1>1, StillCaught, EffectTyped DEF Reported, Same, Kin
<1> QED BY <1>4, <1>5, <1>6, <1>7, <1>8, <1>9

(* A run ends; if it acknowledges its event it is done with it, and the         *)
(* effect, if the event prepared it, is caught everywhere.                      *)
LEMMA EndKeeps ==
    ASSUME FanoutInv, NEW s \in Worker, ReportDelivered(s) \/ ReportFailed(s) \/ RunCrashes(s)
    PROVE  FanoutInv'
<1> USE DEF FanoutInv
<1>1. /\ outbox' \in [Event -> Row]
      /\ \A e \in Event : (outbox[e].status = "absent") = (outbox'[e].status = "absent")
      /\ \A e \in Event : outbox'[e].status = "delivered" =>
            \/ outbox[e].status = "delivered"
            \/ runs[s] # Nil /\ runs[s].pc = "done" /\ runs[s].e = e
      /\ runs' = [runs EXCEPT ![s] = Nil] /\ seen' = [seen EXCEPT ![s] = {}]
      /\ UNCHANGED <<desired, effect, processVars>>
  BY EndTyped
<1>2. /\ runs'[s] = Nil /\ \A z \in Worker \ {s} : runs'[z] = runs[z] /\ seen'[z] = seen[z]
  BY <1>1 DEF FanoutTypeOK
<1>3. FanoutTypeOK'
  <2>1. runs' \in [Worker -> Dispatching \cup {Nil}] /\ seen' \in [Worker -> SUBSET Consumer]
    BY <1>1 DEF FanoutTypeOK
  <2>2. \A d : OpenOn(d)' = OpenOn(d)
    BY <1>1, StillCaught
  <2> QED BY <1>1, <2>1, <2>2 DEF FanoutTypeOK, processVars
<1>4. Owned' /\ Collected'
  BY <1>1, StillCollected
<1>5. Announced'
  BY <1>1, <1>2 DEF Announced
<1>6. Marked'
  BY <1>1, StillCaught DEF Marked
<1>7. Waiting'
  BY <1>1, <1>2, StillCaught DEF Waiting
<1>8. Reported'
  <2> SUFFICES ASSUME NEW k \in Key, effect[k] # Nil,
                      outbox'[effect[k].owner].status = "delivered"
               PROVE  LiveCaught(k)
    BY <1>1, StillCaught DEF Reported
  <2>1. effect[k].owner \in Event /\ SequenceOf[effect[k].owner] = k
    BY EffectTyped DEF Announced
  <2>2. CASE outbox[effect[k].owner].status = "delivered"
    BY <2>2 DEF Reported
  <2>3. CASE runs[s] # Nil /\ runs[s].pc = "done" /\ runs[s].e = effect[k].owner
    BY <2>1, <2>3 DEF Waiting
  <2> QED BY <1>1, <2>1, <2>2, <2>3
<1> QED BY <1>3, <1>4, <1>5, <1>6, <1>7, <1>8

(* A run reads which processes are live: those that come to life later have no  *)
(* display that is not caught.  It counts: the displays of the processes it has *)
(* read are caught when their process marked its target, or was not listed.     *)
LEMMA CountKeeps ==
    ASSUME FanoutInv, NEW s \in Worker, ReadLive(s) \/ CountTargets(s)
    PROVE  FanoutInv'
<1> USE DEF FanoutInv
<1>1. /\ runs[s] # Nil /\ seen' \in [Worker -> SUBSET Consumer]
      /\ UNCHANGED <<outbox, desired, effect, processVars>>
  BY CountTyped
<1>2. PICK r \in Dispatching :
         /\ runs' = [runs EXCEPT ![s] = r] /\ r.e = runs[s].e
         /\ r.pc \in {"prepared", "counting", "done"}
  BY CountTyped
<1>3. runs'[s] = r /\ \A z \in Worker \ {s} : runs'[z] = runs[z] /\ seen'[z] = seen[z]
  BY <1>2 DEF FanoutTypeOK, ReadLive, CountTargets
<1>4. FanoutTypeOK'
  <2>1. runs' \in [Worker -> Dispatching \cup {Nil}]
    BY <1>2 DEF FanoutTypeOK
  <2>2. \A d : OpenOn(d)' = OpenOn(d)
    BY <1>1, StillCaught
  <2> QED BY <1>1, <2>1, <2>2 DEF FanoutTypeOK, processVars
<1>5. Owned' /\ Collected'
  BY <1>1, StillCollected
<1>6. Announced'
  BY <1>1, <1>2, <1>3 DEF Announced
<1>7. Marked'
  BY <1>1, StillCaught DEF Marked
<1>8. Reported'
  BY <1>1, StillCaught DEF Reported
<1> DEFINE k == SequenceOf[runs[s].e]
<1>9. /\ runs[s].pc \in {"prepared", "counting"} /\ k \in Key
      /\ effect[k] # Nil /\ effect[k].prepared /\ effect[k].owner = runs[s].e
  BY <1>1, RunTyped DEF ReadLive, CountTargets, Waiting
<1>10. Waiting'
  <2>1. r.pc = "counting" => \A c \in LiveConsumers \ seen'[s] : AllCaught(k, c)
    <3>1. CASE ReadLive(s)
      BY <1>3, <3>1 DEF ReadLive, FanoutTypeOK
    <3>2. CASE CountTargets(s)
      BY <1>3, <3>2, RunTyped DEF CountTargets, Dispatching, FanoutTypeOK
    <3> QED BY <3>1, <3>2
  <2>2. r.pc = "done" => LiveCaught(k)
    <3> SUFFICES ASSUME r.pc = "done", NEW c \in LiveConsumers
                 PROVE  AllCaught(k, c)
      BY DEF LiveCaught
    <3>1. /\ runs[s].pc = "counting" /\ OpenTargets(k, seen[s]) = {}
      <4>1. CASE ReadLive(s)
        BY <1>3, <4>1, RunTyped DEF ReadLive, Dispatching, FanoutTypeOK
      <4>2. CASE CountTargets(s)
        BY <1>3, <4>2, RunTyped DEF CountTargets, Dispatching, FanoutTypeOK
      <4> QED BY <4>1, <4>2
    <3>2. CASE c \notin seen[s]
      BY <1>1, <3>1, <3>2 DEF Waiting
    <3>3. CASE c \in seen[s] /\ c \in effect[k].targets
      BY <1>9, <3>1, <3>3 DEF OpenTargets, Marked
    <3>4. CASE c \in seen[s] /\ c \notin effect[k].targets
      BY <1>9, <3>4 DEF Marked
    <3> QED BY <3>2, <3>3, <3>4
  <2> HIDE DEF k
  <2>3. k = SequenceOf[r.e] /\ effect[k].owner = r.e
    BY <1>2, <1>9 DEF k
  <2> SUFFICES ASSUME NEW z \in Worker, runs'[z] # Nil, NEW j, j = SequenceOf[runs'[z].e]
               PROVE  /\ runs'[z].pc # "loaded" => effect[j] # Nil /\ effect[j].prepared
                      /\ runs'[z].pc \in {"prepared", "counting"} => effect[j].owner = runs'[z].e
                      /\ runs'[z].pc = "counting" =>
                            \A c \in LiveConsumers \ seen'[z] : AllCaught(j, c)
                      /\ runs'[z].pc = "done" /\ effect[j].owner = runs'[z].e => LiveCaught(j)
    BY <1>1, StillCaught DEF Waiting
  <2>4. CASE z = s
    BY <1>3, <1>9, <2>1, <2>2, <2>3, <2>4
  <2>5. CASE z # s
    BY <1>3, <2>5 DEF Waiting
  <2> QED BY <2>4, <2>5
<1> QED BY <1>4, <1>5, <1>6, <1>7, <1>8, <1>10

(* A run prepares the effect of its event.  As long as an effect is not         *)
(* prepared no process works on it and no other run waits for it.               *)
LEMMA PrepareKeeps ==
    ASSUME FanoutInv, NEW s \in Worker, PrepareStep(s)
    PROVE  FanoutInv'
<1> USE DEF FanoutInv
<1> PICK e, k : e = runs[s].e /\ k = SequenceOf[e]
  OBVIOUS
<1>1. /\ runs[s] # Nil /\ runs[s].pc = "loaded" /\ outbox[e].status = "processing"
      /\ UNCHANGED <<outbox, desired, seen, processVars>>
  BY PrepareTyped
<1>2. /\ e \in Event /\ k \in Key /\ k \in Nat /\ k <= desired
  BY <1>1, RunTyped, KeysAreNumbers DEF Announced
<1>3. PICK r \in Dispatching :
         /\ runs' = [runs EXCEPT ![s] = r] /\ r.e = e
         /\ r.pc \in {"loaded", "prepared", "done"}
         /\ r.pc # "loaded" => effect'[k] # Nil /\ effect'[k].prepared
         /\ r.pc = "prepared" => effect'[k].owner = e
         /\ r.pc = "done" => effect'[k].owner # e
         /\ \/ effect' = effect
            \/ \E g \in Effect :
                  /\ effect' = [effect EXCEPT ![k] = g]
                  /\ g.owner = e /\ g.delivered \subseteq g.targets
                  /\ effect[k] # Nil => ~effect[k].prepared
                  /\ g.prepared => LiveConsumers \subseteq g.targets
                  /\ \/ g.delivered = {} /\ g.presentation = 0
                     \/ /\ effect[k] # Nil /\ g.delivered = effect[k].delivered
                        /\ g.presentation = effect[k].presentation
  <2>1. PICK g : Prepares(s, e, k, g)
    BY PrepareTyped
  <2>2. runs[s] \in Dispatching /\ runs = [runs EXCEPT ![s] = runs[s]]
    BY <1>1, RunTyped DEF FanoutTypeOK
  <2>3. CASE /\ effect' = effect /\ runs' = [runs EXCEPT ![s] = g] /\ g \in Dispatching
             /\ g.e = e /\ g.pc = "done" /\ Duplicate(k, e)
    BY <2>3 DEF Duplicate, Foreign
  <2>4. CASE /\ effect' = effect /\ runs' = [runs EXCEPT ![s] = g] /\ g \in Dispatching
             /\ g.e = e /\ g.pc = "prepared"
             /\ effect[k] # Nil /\ effect[k].prepared /\ effect[k].owner = e
    BY <2>4
  <2>5. CASE /\ effect' = [effect EXCEPT ![k] = g] /\ g \in Effect /\ runs' = runs
             /\ g.owner = e /\ ~g.prepared /\ g.delivered \subseteq g.targets
             /\ effect[k] # Nil => ~effect[k].prepared
             /\ \/ g.delivered = {} /\ g.presentation = 0
                \/ /\ effect[k] # Nil /\ g.delivered = effect[k].delivered
                   /\ g.presentation = effect[k].presentation
    BY <1>1, <2>2, <2>5
  <2>6. CASE /\ effect[k] # Nil /\ ~effect[k].prepared /\ effect[k].owner = e
             /\ g = [effect[k] EXCEPT !.prepared = TRUE] /\ effect' = [effect EXCEPT ![k] = g]
             /\ LiveConsumers \subseteq g.targets
             /\ \E r \in Dispatching : runs' = [runs EXCEPT ![s] = r] /\ r.e = e /\ r.pc = "prepared"
    <3>1. /\ g \in Effect /\ g.owner = e /\ g.delivered \subseteq g.targets /\ g.prepared
          /\ g.delivered = effect[k].delivered /\ g.presentation = effect[k].presentation
      <4>1. effect[k] \in Effect /\ effect[k].delivered \subseteq effect[k].targets
        BY <1>2, <2>6, EffectTyped
      <4> QED BY <2>6, <4>1 DEF Effect
    <3>2. effect'[k] = g /\ g # Nil
      BY <1>2, <2>6, <3>1, FanoutAssumption DEF FanoutTypeOK
    <3>3. PICK r \in Dispatching : runs' = [runs EXCEPT ![s] = r] /\ r.e = e /\ r.pc = "prepared"
      BY <2>6
    <3>4. \E h \in Effect :
             /\ effect' = [effect EXCEPT ![k] = h]
             /\ h.owner = e /\ h.delivered \subseteq h.targets
             /\ effect[k] # Nil => ~effect[k].prepared
             /\ h.prepared => LiveConsumers \subseteq h.targets
             /\ \/ h.delivered = {} /\ h.presentation = 0
                \/ /\ effect[k] # Nil /\ h.delivered = effect[k].delivered
                   /\ h.presentation = effect[k].presentation
      BY <2>6, <3>1
    <3> QED BY <3>1, <3>2, <3>3, <3>4
  <2> QED BY <2>1, <2>3, <2>4, <2>5, <2>6 DEF Prepares
<1>4. runs'[s] = r /\ \A z \in Worker \ {s} : runs'[z] = runs[z]
  BY <1>3 DEF FanoutTypeOK
<1>5. CASE effect' = effect
  <2>1. FanoutTypeOK'
    <3>1. runs' \in [Worker -> Dispatching \cup {Nil}]
      BY <1>3 DEF FanoutTypeOK
    <3>2. \A d : OpenOn(d)' = OpenOn(d)
      BY <1>1, StillCaught
    <3> QED BY <1>1, <1>5, <3>1, <3>2 DEF FanoutTypeOK, processVars
  <2>2. Owned' /\ Collected'
    BY <1>1, <1>5, StillCollected
  <2>3. Announced'
    BY <1>1, <1>2, <1>3, <1>4, <1>5 DEF Announced
  <2>4. Marked' /\ Reported'
    BY <1>1, <1>5, StillCaught DEF Marked, Reported
  <2>5. Waiting'
    <3> SUFFICES ASSUME NEW z \in Worker, runs'[z] # Nil,
                        NEW j, j = SequenceOf[runs'[z].e]
                 PROVE  /\ runs'[z].pc # "loaded" => effect[j] # Nil /\ effect[j].prepared
                        /\ runs'[z].pc \in {"prepared", "counting"} => effect[j].owner = runs'[z].e
                        /\ runs'[z].pc = "counting" =>
                              \A c \in LiveConsumers \ seen[z] : AllCaught(j, c)
                        /\ runs'[z].pc = "done" /\ effect[j].owner = runs'[z].e => LiveCaught(j)
      BY <1>1, <1>5, StillCaught DEF Waiting
    <3>1. CASE z = s
      BY <1>2, <1>3, <1>4, <1>5, <3>1
    <3>2. CASE z # s
      BY <1>4, <3>2 DEF Waiting
    <3> QED BY <3>1, <3>2
  <2> QED BY <2>1, <2>2, <2>3, <2>4, <2>5
<1>6. ASSUME NEW g \in Effect, effect' = [effect EXCEPT ![k] = g],
             g.owner = e, g.delivered \subseteq g.targets,
             effect[k] # Nil => ~effect[k].prepared,
             g.prepared => LiveConsumers \subseteq g.targets,
             \/ g.delivered = {} /\ g.presentation = 0
             \/ /\ effect[k] # Nil /\ g.delivered = effect[k].delivered
                /\ g.presentation = effect[k].presentation
      PROVE  FanoutInv'
  <2>1. effect'[k] = g /\ g # Nil /\ \A j \in Key \ {k} : effect'[j] = effect[j]
    BY <1>2, <1>6, FanoutAssumption DEF FanoutTypeOK
  <2>2. FanoutTypeOK'
    <3>1. runs' \in [Worker -> Dispatching \cup {Nil}] /\ effect' \in [Key -> Effect \cup {Nil}]
      BY <1>3, <1>6 DEF FanoutTypeOK
    <3>2. \A d : OpenOn(d)' = OpenOn(d)
      BY <1>1, StillCaught
    <3>3. \A j \in Key : effect'[j] # Nil => effect'[j].delivered \subseteq effect'[j].targets
      BY <1>6, <2>1 DEF FanoutTypeOK
    <3> QED BY <1>1, <3>1, <3>2, <3>3 DEF FanoutTypeOK, processVars
  <2>3. Owned' /\ Collected'
    BY <1>1, <1>6, <2>1, StillCollected
  <2>4. Announced'
    <3>1. \A j \in Key : effect'[j] # Nil =>
             /\ j <= desired /\ SequenceOf[effect'[j].owner] = j
             /\ effect'[j].presentation = 0 \/ effect'[j].presentation >= j
      <4> SUFFICES ASSUME NEW j \in Key, effect'[j] # Nil
                   PROVE  /\ j <= desired /\ SequenceOf[effect'[j].owner] = j
                          /\ effect'[j].presentation = 0 \/ effect'[j].presentation >= j
        OBVIOUS
      <4>1. effect[j] # Nil => /\ j <= desired /\ SequenceOf[effect[j].owner] = j
                               /\ effect[j].presentation = 0 \/ effect[j].presentation >= j
        BY DEF Announced
      <4>2. CASE j = k
        BY <1>2, <1>6, <2>1, <4>1, <4>2
      <4>3. CASE j # k
        BY <2>1, <4>1, <4>3
      <4> QED BY <4>2, <4>3
    <3> QED BY <1>1, <1>2, <1>3, <1>4, <3>1 DEF Announced
  <2>5. Marked'
    <3> SUFFICES ASSUME NEW j \in Key, effect'[j] # Nil
                 PROVE  /\ \A c \in effect'[j].delivered : AllCaught(j, c)
                        /\ effect'[j].prepared =>
                              \A c \in LiveConsumers \ effect'[j].targets : AllCaught(j, c)
      BY <1>1, StillCaught DEF Marked
    <3> QED BY <1>6, <2>1 DEF Marked
  <2>6. Reported'
    <3> SUFFICES ASSUME NEW j \in Key, effect'[j] # Nil,
                        outbox[effect'[j].owner].status = "delivered"
                 PROVE  LiveCaught(j)
      BY <1>1, StillCaught DEF Reported
    <3> QED BY <1>1, <1>6, <2>1 DEF Reported
  <2>7. Waiting'
    <3> SUFFICES ASSUME NEW z \in Worker, runs'[z] # Nil,
                        NEW j, j = SequenceOf[runs'[z].e]
                 PROVE  /\ runs'[z].pc # "loaded" => effect'[j] # Nil /\ effect'[j].prepared
                        /\ runs'[z].pc \in {"prepared", "counting"} => effect'[j].owner = runs'[z].e
                        /\ runs'[z].pc = "counting" =>
                              \A c \in LiveConsumers \ seen[z] : AllCaught(j, c)
                        /\ runs'[z].pc = "done" /\ effect'[j].owner = runs'[z].e => LiveCaught(j)
      BY <1>1, StillCaught DEF Waiting
    <3>1. CASE z = s
      <4>1. runs'[z] = r /\ j = k
        BY <1>3, <1>4, <3>1
      <4>2. r.pc # "loaded" => effect'[k] # Nil /\ effect'[k].prepared
        BY <1>3
      <4>3. r.pc \in {"loaded", "prepared"} /\ effect'[k].owner = e
        BY <1>3, <1>6, <2>1
      <4> QED BY <1>3, <4>1, <4>2, <4>3
    <3>2. CASE z # s
      <4>1. runs'[z] = runs[z] /\ j \in Key /\ runs[z] \in Dispatching
        BY <1>4, <3>2, RunTyped
      <4>2. /\ runs[z].pc # "loaded" => effect[j] # Nil /\ effect[j].prepared
            /\ runs[z].pc \in {"prepared", "counting"} => effect[j].owner = runs[z].e
            /\ runs[z].pc = "counting" =>
                  \A c \in LiveConsumers \ seen[z] : AllCaught(j, c)
            /\ runs[z].pc = "done" /\ effect[j].owner = runs[z].e => LiveCaught(j)
        BY <4>1 DEF Waiting
      <4>3. CASE runs[z].pc = "loaded"
        BY <4>1, <4>3
      <4>4. CASE runs[z].pc # "loaded"
        BY <1>6, <2>1, <4>1, <4>2, <4>4
      <4> QED BY <4>3, <4>4
    <3> QED BY <3>1, <3>2
  <2> QED BY <2>2, <2>3, <2>4, <2>5, <2>6, <2>7
<1> QED BY <1>3, <1>5, <1>6

-----------------------------------------------------------------------------
(* Every step keeps the invariant, and the recipients of an effect that is      *)
(* prepared.                                                                    *)
Frozen ==
    \A k \in Key :
        effect[k] # Nil /\ effect[k].prepared =>
            /\ effect'[k] # Nil
            /\ effect'[k].prepared
            /\ effect'[k].owner = effect[k].owner
            /\ effect'[k].targets = effect[k].targets

LEMMA PrepareFreezes ==
    ASSUME FanoutTypeOK, NEW s \in Worker, PrepareStep(s)
    PROVE  Frozen
<1> DEFINE e == runs[s].e
           k == SequenceOf[e]
<1>1. PICK g : Prepares(s, e, k, g)
  BY PrepareTyped
<1>2. \/ effect' = effect
      \/ effect' = [effect EXCEPT ![k] = g] /\ (effect[k] # Nil => ~effect[k].prepared)
  BY <1>1 DEF Prepares
<1> QED BY <1>2 DEF Frozen, FanoutTypeOK

LEMMA InitHolds == ASSUME FanoutInit PROVE FanoutInv
<1>1. FanoutTypeOK
  BY InitTyped
<1>2. /\ \A e \in Event : outbox[e].status = "absent"
      /\ \A s \in Worker : runs[s] = Nil
      /\ \A k \in Key : effect[k] = Nil
      /\ \A c \in Consumer : poll[c] = Nil
      /\ \A x \in Socket : sock[x] = Nil
  BY DEF FanoutInit, StoreInit, NoRow
<1> QED BY <1>1, <1>2 DEF FanoutInv, Announced, Owned, Collected, Marked, Waiting, Reported, OpenOn

LEMMA WorkerSteps ==
    ASSUME FanoutInv, NEW s \in Worker, WorkerStep(s)
    PROVE  FanoutInv' /\ Frozen
<1>1. FanoutTypeOK
  BY DEF FanoutInv
<1>2. CASE StartRun(s)
  BY <1>1, <1>2, StartKeeps, StartTyped DEF Frozen
<1>3. CASE PrepareStep(s)
  BY <1>1, <1>3, PrepareKeeps, PrepareFreezes
<1>4. CASE ReadLive(s) \/ CountTargets(s)
  BY <1>1, <1>4, CountKeeps, CountTyped DEF Frozen
<1>5. CASE ReportDelivered(s) \/ ReportFailed(s) \/ RunCrashes(s)
  BY <1>1, <1>5, EndKeeps, EndTyped DEF Frozen
<1> QED BY <1>2, <1>3, <1>4, <1>5 DEF WorkerStep

LEMMA ProcessSteps ==
    ASSUME FanoutInv, NEW c \in Consumer, ProcessStep(c)
    PROVE  FanoutInv' /\ Frozen
<1>1. FanoutTypeOK /\ Announced /\ Collected /\ Owned
  BY DEF FanoutInv
<1>2. CASE Start(c) \/ LeaseLapses(c) \/ Renew(c) \/ Unregister(c)
  BY <1>1, <1>2, LeaseKeeps, LeaseSteps DEF Frozen
<1>3. CASE Wake(c) \/ PollLoopFails(c) \/ Stop(c) \/ Exit(c) \/ DeliveryFails(c)
  <2>1. PICK X \in SUBSET Socket :
            /\ Closes(X) /\ lease' = lease
            /\ up' \in [Consumer -> {"new", "up", "stopping", "gone"}]
            /\ \A d \in Consumer :
                  up'[d] = up[d] \/ up'[d] \in {"up", "stopping"} \/ OpenOn(d) \subseteq X
    BY <1>1, <1>3, ClosingSteps
  <2> QED BY <2>1, ClosingKeeps DEF Closes, Frozen
<1>4. ASSUME Works(c) PROVE FanoutInv' /\ Frozen
  BY <1>1, <1>4, WorksKeeps, WorksEffects DEF EffectsKept, Frozen
<1>5. CASE \E k \in Key : Pick(c, k)
  BY <1>1, <1>4, <1>5, PickStep
<1>6. CASE BeginTarget(c) \/ Build(c) \/ StoreReceipt(c) \/ FinishTarget(c)
  BY <1>1, <1>4, <1>6, BeginStep, BuildStep, StoreStep, FinishStep
<1>7. CASE Send(c)
  BY <1>1, <1>7, SendKeeps DEF Frozen, Send
<1> QED BY <1>2, <1>3, <1>5, <1>6, <1>7 DEF ProcessStep

LEMMA EveryStep ==
    ASSUME FanoutInv, [FanoutNext]_fanoutVars
    PROVE  FanoutInv' /\ (Frozen \/ UNCHANGED fanoutVars)
<1>1. CASE UNCHANGED fanoutVars
  BY <1>1 DEF fanoutVars, FanoutInv, FanoutTypeOK, Announced, Owned, Collected, Marked,
      Waiting, Reported,
      OpenOn, LiveConsumers, LiveCaught, AllCaught, Caught
<1>2. CASE RowsAge \/ \E e \in Event : Assign(e)
  BY <1>2, TableKeeps DEF RowsAge, Assign, Frozen
<1>3. CASE \E s \in Worker : WorkerStep(s)
  BY <1>3, WorkerSteps
<1>4. CASE \E c \in Consumer : ProcessStep(c)
  BY <1>4, ProcessSteps
<1>5. ASSUME NEW x \in Socket, SocketStep(x) PROVE FanoutInv' /\ Frozen
  <2>1. FanoutTypeOK
    BY DEF FanoutInv
  <2>2. CASE Disconnect(x)
    <3>1. Closes({x}) /\ UNCHANGED <<lease, up>>
      BY <2>1, <2>2, DisconnectStep
    <3>2. up' \in [Consumer -> {"new", "up", "stopping", "gone"}]
      BY <2>1, <3>1 DEF FanoutTypeOK
    <3> QED BY <3>1, <3>2, ClosingKeeps DEF Closes, Frozen
  <2>3. CASE (\E c \in Consumer : Connect(x, c)) \/ PushRead(x) \/ PushSend(x)
    BY <2>1, <2>3, SocketKeeps, SocketSteps DEF Frozen
  <2> QED BY <1>5, <2>2, <2>3 DEF SocketStep
<1> QED BY <1>1, <1>2, <1>3, <1>4, <1>5 DEF FanoutNext

LEMMA ItHolds == FanoutSpec => []FanoutInv
<1>1. FanoutInit => FanoutInv
  BY InitHolds
<1>2. FanoutInv /\ [FanoutNext]_fanoutVars => FanoutInv'
  BY EveryStep
<1> QED BY <1>1, <1>2, PTL DEF FanoutSpec

-----------------------------------------------------------------------------
(* Tables and processes stay well formed: only processes that were registered   *)
(* are targets, and a delivery collects only connections that are open.         *)
THEOREM FanoutTyped == FanoutSpec => []FanoutTypeOK
<1>1. FanoutInv => FanoutTypeOK
  BY DEF FanoutInv
<1> QED BY <1>1, ItHolds, PTL

(* No update is lost: when an event is reported delivered, the displays of      *)
(* every live process have been sent its change or a later one, or have still   *)
(* to read the current one, or were told that it is not rendered yet, through   *)
(* crashes of workers and processes, takeovers of claims, late marks and        *)
(* reconnects; but for connections that stayed open while their process         *)
(* registered a lapsed lease again.                                             *)
THEOREM NoUpdateLost == FanoutSpec => []NoLostUpdate
<1>1. FanoutInv => NoLostUpdate
  <2> SUFFICES ASSUME FanoutInv, NEW k \in Key, NEW x \in Socket,
                      effect[k] # Nil, outbox[effect[k].owner].status = "delivered",
                      sock[x] # Nil, lease[sock[x].c] = "live", ~sock[x].exposed,
                      sock[x].push = "idle"
               PROVE  sock[x].shown >= k \/ sock[x].v >= k
    BY DEF NoLostUpdate, FanoutInv, FanoutTypeOK
  <2>1. LiveCaught(k)
    BY DEF FanoutInv, Reported
  <2>2. sock[x].c \in LiveConsumers /\ x \in OpenOn(sock[x].c)
    BY DEF FanoutInv, FanoutTypeOK, Display, LiveConsumers, OpenOn
  <2> QED BY <2>1, <2>2 DEF LiveCaught, AllCaught, Caught
<1> QED BY <1>1, ItHolds, PTL

(* Once an effect is prepared its owner and its targets never change, whatever  *)
(* duplicate, retried or overtaken event works on it.                           *)
THEOREM RecipientsStayFrozen == FanoutSpec => RecipientsFrozen
<1>1. FanoutInv /\ [FanoutNext]_fanoutVars => [Frozen]_fanoutVars
  BY EveryStep
<1>2. [Frozen]_fanoutVars =>
         [\A k \in Key :
             effect[k] # Nil /\ effect[k].prepared =>
                 /\ effect'[k] # Nil
                 /\ effect'[k].prepared
                 /\ effect'[k].owner = effect[k].owner
                 /\ effect'[k].targets = effect[k].targets]_fanoutVars
  BY DEF Frozen
<1> QED BY <1>1, <1>2, ItHolds, PTL DEF FanoutSpec, RecipientsFrozen

-----------------------------------------------------------------------------
(* The table and its effects as the contract of the outbox has them: the       *)
(* effect of an event happens when its recipients are prepared.                *)
ReportOf(row) == IF Open(row) THEN "open" ELSE row.status

Prepared(k) == effect[k] # Nil /\ effect[k].prepared

Contract == INSTANCE OutboxContract WITH
    EffectKey <- Key,
    KeyOf <- SequenceOf,
    report <- [e \in Event |-> ReportOf(outbox[e])],
    effect <- [k \in Key |-> IF Prepared(k) THEN 1 ELSE 0]

Refines == [Contract!Next]_(Contract!contractVars)

(* A run that goes beyond preparation finds the effect prepared: by its own    *)
(* event, or by the one it duplicates.                                         *)
Ready == \A s \in Worker :
    runs[s] # Nil /\ runs[s].pc # "loaded" => Prepared(SequenceOf[runs[s].e])

LEMMA FrozenPrepared ==
    ASSUME Frozen \/ UNCHANGED fanoutVars
    PROVE  \A k \in Key : Prepared(k) => Prepared(k)'
BY DEF Frozen, Prepared, fanoutVars

LEMMA ReadyStays ==
    ASSUME FanoutTypeOK, Ready, Frozen, UNCHANGED runs
    PROVE  Ready'
BY RunTyped, FrozenPrepared DEF Ready

LEMMA RunReady ==
    ASSUME FanoutTypeOK, Ready, Frozen, NEW s \in Worker, NEW r,
           runs' = [runs EXCEPT ![s] = r],
           r # Nil /\ r.pc # "loaded" => Prepared(SequenceOf[r.e])'
    PROVE  Ready'
<1> SUFFICES ASSUME NEW z \in Worker, runs'[z] # Nil, runs'[z].pc # "loaded",
                    NEW k, k = SequenceOf[runs'[z].e]
             PROVE  Prepared(k)'
  BY DEF Ready
<1>1. CASE z = s
  <2>1. runs'[z] = r
    BY <1>1 DEF FanoutTypeOK
  <2> QED BY <2>1
<1>2. CASE z # s
  <2>1. runs'[z] = runs[z]
    BY <1>2 DEF FanoutTypeOK
  <2>2. Prepared(k) /\ k \in Key
    BY <2>1, RunTyped DEF Ready
  <2> QED BY <2>2, FrozenPrepared
<1> QED BY <1>1, <1>2

LEMMA WorkerReady ==
    ASSUME FanoutTypeOK, Ready, Frozen, NEW s \in Worker, WorkerStep(s)
    PROVE  Ready'
<1>1. CASE StartRun(s)
  BY <1>1, StartTyped, RunReady
<1>2. CASE PrepareStep(s)
  <2> PICK e, k : e = runs[s].e /\ k = SequenceOf[e]
    OBVIOUS
  <2>0. runs[s] # Nil /\ k \in Key
    BY <1>2, PrepareTyped, RunTyped
  <2>1. PICK g : Prepares(s, e, k, g)
    BY <1>2, PrepareTyped
  <2>2. CASE runs' = runs
    BY <2>2, ReadyStays
  <2>3. CASE /\ effect' = effect /\ runs' = [runs EXCEPT ![s] = g] /\ g.e = e
             /\ effect[k] # Nil /\ effect[k].prepared
    BY <2>3, RunReady DEF Prepared
  <2>4. CASE /\ effect[k] # Nil /\ g = [effect[k] EXCEPT !.prepared = TRUE]
             /\ effect' = [effect EXCEPT ![k] = g]
             /\ \E r \in Dispatching : runs' = [runs EXCEPT ![s] = r] /\ r.e = e /\ r.pc = "prepared"
    <3>1. effect[k] \in Effect
      BY <2>0, <2>4, EffectTyped
    <3>2. g \in Effect /\ g.prepared /\ effect'[k] = g
      BY <2>0, <2>4, <3>1 DEF Effect, FanoutTypeOK
    <3>3. Prepared(k)'
      BY <3>2, FanoutAssumption DEF Prepared
    <3> QED BY <2>4, <3>3, RunReady
  <2>5. Duplicate(k, e) => effect[k] # Nil /\ effect[k].prepared
    BY DEF Duplicate, Foreign
  <2> QED BY <2>1, <2>2, <2>3, <2>4, <2>5 DEF Prepares
<1>3. CASE ReadLive(s) \/ CountTargets(s)
  <2>1. PICK r \in Dispatching : runs' = [runs EXCEPT ![s] = r] /\ r.e = runs[s].e
    BY <1>3, CountTyped
  <2>2. runs[s] # Nil /\ runs[s].pc # "loaded"
    BY <1>3 DEF ReadLive, CountTargets
  <2>3. Prepared(SequenceOf[r.e]) /\ SequenceOf[r.e] \in Key
    BY <2>1, <2>2, RunTyped DEF Ready
  <2> QED BY <2>1, <2>3, RunReady, FrozenPrepared
<1>4. CASE ReportDelivered(s) \/ ReportFailed(s) \/ RunCrashes(s)
  BY <1>4, EndTyped, RunReady
<1> QED BY <1>1, <1>2, <1>3, <1>4 DEF WorkerStep

-----------------------------------------------------------------------------
(* Steps that bury rows, or change none, and prepare no effect. *)
LEMMA BuriesRefines ==
    ASSUME NEW D \in SUBSET Event, Buries(D),
           \A k \in Key : Prepared(k)' <=> Prepared(k)
    PROVE  Refines
<1>1. /\ \A e \in D : ReportOf(outbox[e]) = "open" /\ ReportOf(outbox'[e]) = "dead-letter"
      /\ \A e \in Event \ D : ReportOf(outbox'[e]) = ReportOf(outbox[e])
  BY DEF Buries, ReportOf, Open
<1>2. UNCHANGED [k \in Key |-> IF Prepared(k) THEN 1 ELSE 0]
  OBVIOUS
<1>3. CASE D = {}
  BY <1>1, <1>2, <1>3 DEF Refines, Contract!contractVars
<1>4. CASE D # {}
  <2>1. Contract!GiveUp(D)
    BY <1>1, <1>2, <1>4 DEF Contract!GiveUp
  <2> QED BY <2>1 DEF Refines, Contract!Next
<1> QED BY <1>3, <1>4

LEMMA QuietRefines ==
    ASSUME UNCHANGED outbox, \A k \in Key : Prepared(k)' <=> Prepared(k)
    PROVE  Refines
<1>1. Buries({})
  BY DEF Buries
<1> QED BY <1>1, BuriesRefines, {} \in SUBSET Event

LEMMA AssignRefines ==
    ASSUME FanoutTypeOK, NEW e \in Event, Assign(e)
    PROVE  Refines
<1>1. /\ outbox[e].status = "absent" /\ outbox'[e] = Produced(TRUE)
      /\ \A f \in Event : f # e => outbox'[f] = outbox[f]
      /\ UNCHANGED effect
  BY DEF Assign, FanoutTypeOK
<1>2. ReportOf(outbox[e]) = "absent" /\ ReportOf(outbox'[e]) = "open"
  BY <1>1 DEF ReportOf, Open, Produced, NoRow
<1>3. Contract!Submit(e)
  BY <1>1, <1>2 DEF Contract!Submit, Prepared
<1> QED BY <1>3 DEF Refines, Contract!Next

LEMMA RowsAgeRefines ==
    ASSUME FanoutTypeOK, RowsAge
    PROVE  Refines
<1>1. Table /\ UNCHANGED effect
  BY DEF Table, FanoutTypeOK, RowsAge
<1>2. \E D \in SUBSET Event : Buries(D)
  BY <1>1, DeadlinesBuryNone, BurialsBury, {} \in SUBSET Event DEF RowsAge
<1> QED BY <1>1, <1>2, BuriesRefines DEF Prepared

LEMMA EndRefines ==
    ASSUME FanoutTypeOK, Ready, NEW s \in Worker,
           ReportDelivered(s) \/ ReportFailed(s) \/ RunCrashes(s)
    PROVE  Refines
<1>1. Table /\ UNCHANGED effect /\ \A k \in Key : Prepared(k)' <=> Prepared(k)
  BY EndTyped DEF Table, FanoutTypeOK, Prepared
<1>2. CASE ReportFailed(s)
  <2>1. runs[s].e \in Event
    BY <1>2, RunTyped DEF ReportFailed
  <2>2. \E D \in SUBSET Event : Buries(D)
    BY <1>1, <1>2, <2>1, FailuresBury DEF ReportFailed
  <2> QED BY <1>1, <2>2, BuriesRefines
<1>3. CASE RunCrashes(s)
  BY <1>1, <1>3, QuietRefines DEF RunCrashes
<1>4. CASE ReportDelivered(s)
  <2> PICK e : e = runs[s].e
    OBVIOUS
  <2>1. e \in Event /\ SequenceOf[e] \in Key /\ outbox[e] \in Row /\ Prepared(SequenceOf[e])
    BY <1>4, RunTyped DEF ReportDelivered, Ready
  <2>2. \/ outbox' = outbox
        \/ outbox' = [outbox EXCEPT ![e] = Acked(outbox[e])] /\ outbox[e].status = "processing"
    BY <1>4, Zenon DEF ReportDelivered, AckRow, Fence
  <2>3. CASE outbox' = outbox
    BY <1>1, <2>3, QuietRefines
  <2>4. CASE outbox' = [outbox EXCEPT ![e] = Acked(outbox[e])] /\ outbox[e].status = "processing"
    <3>1. Acked(outbox[e]).status = "delivered"
      BY <2>1, RowOperations
    <3>2. /\ outbox'[e].status = "delivered"
          /\ \A f \in Event : f # e => outbox'[f] = outbox[f]
      BY <1>1, <2>1, <2>4, <3>1 DEF Table
    <3>3. ReportOf(outbox[e]) = "open" /\ ReportOf(outbox'[e]) = "delivered"
      BY <2>4, <3>2 DEF ReportOf, Open
    <3>4. Contract!ReportDelivered(e)
      BY <1>1, <2>1, <3>2, <3>3 DEF Contract!ReportDelivered
    <3> QED BY <2>1, <3>4 DEF Refines, Contract!Next
  <2> QED BY <2>2, <2>3, <2>4
<1> QED BY <1>2, <1>3, <1>4

(* The last batch of a preparation is the effect. *)
LEMMA PrepareRefines ==
    ASSUME FanoutTypeOK, NEW s \in Worker, PrepareStep(s)
    PROVE  Refines
<1> PICK e, k : e = runs[s].e /\ k = SequenceOf[e]
  OBVIOUS
<1>1. /\ runs[s] # Nil /\ outbox[e].status = "processing" /\ UNCHANGED outbox
      /\ e \in Event /\ k \in Key
  BY PrepareTyped, RunTyped
<1>2. PICK g : Prepares(s, e, k, g)
  BY PrepareTyped
<1>3. CASE effect' = effect
  BY <1>1, <1>3, QuietRefines DEF Prepared
<1>4. CASE /\ effect' = [effect EXCEPT ![k] = g] /\ ~g.prepared
           /\ effect[k] # Nil => ~effect[k].prepared
  <2>1. \A j \in Key : Prepared(j)' <=> Prepared(j)
    BY <1>1, <1>4 DEF Prepared, FanoutTypeOK
  <2> QED BY <1>1, <2>1, QuietRefines
<1>5. CASE /\ effect[k] # Nil /\ ~effect[k].prepared
           /\ g = [effect[k] EXCEPT !.prepared = TRUE] /\ effect' = [effect EXCEPT ![k] = g]
  <2>1. g \in Effect /\ g.prepared /\ effect'[k] = g
    <3>1. effect[k] \in Effect
      BY <1>1, <1>5, EffectTyped
    <3> QED BY <1>1, <1>5, <3>1 DEF Effect, FanoutTypeOK
  <2>2. ~Prepared(k) /\ Prepared(k)' /\ \A j \in Key : j # k => (Prepared(j)' <=> Prepared(j))
    BY <1>1, <1>5, <2>1, FanoutAssumption DEF Prepared, FanoutTypeOK
  <2>3. ReportOf(outbox[e]) = "open"
    BY <1>1 DEF ReportOf, Open
  <2>4. Contract!Perform(e)
    BY <1>1, <2>2, <2>3 DEF Contract!Perform
  <2> QED BY <1>1, <2>4 DEF Refines, Contract!Next
<1> QED BY <1>2, <1>3, <1>4, <1>5 DEF Prepares

LEMMA WorkerRefines ==
    ASSUME FanoutTypeOK, Ready, NEW s \in Worker, WorkerStep(s)
    PROVE  Refines
<1>1. CASE StartRun(s)
  <2>1. Table /\ UNCHANGED effect
    BY <1>1 DEF Table, FanoutTypeOK, StartRun
  <2>2. \/ UNCHANGED outbox
        \/ \E q \in Queue, c \in Event : ClaimRow(q, c)
    BY <1>1 DEF StartRun
  <2> QED BY <2>1, <2>2, ClaimsBury, BuriesRefines, QuietRefines DEF Prepared
<1>2. CASE ReadLive(s) \/ CountTargets(s)
  BY <1>2, CountTyped, QuietRefines DEF Prepared
<1> QED BY <1>1, <1>2, PrepareRefines, EndRefines DEF WorkerStep

(* A process works on effects that are prepared, and connections on none. *)
LEMMA ProcessRefines ==
    ASSUME FanoutInv, NEW c \in Consumer, ProcessStep(c)
    PROVE  Refines /\ UNCHANGED runs
<1>1. FanoutTypeOK /\ Announced /\ Collected /\ Owned
  BY DEF FanoutInv
<1>2. ASSUME EffectsKept, UNCHANGED <<outbox, runs>> PROVE Refines /\ UNCHANGED runs
  BY <1>2, QuietRefines DEF EffectsKept, Prepared
<1>3. CASE Start(c) \/ LeaseLapses(c) \/ Renew(c) \/ Unregister(c)
  BY <1>1, <1>2, <1>3, LeaseSteps, UnchangedEffects DEF workerVars
<1>4. CASE Wake(c) \/ PollLoopFails(c) \/ Stop(c) \/ Exit(c) \/ DeliveryFails(c)
  BY <1>1, <1>2, <1>4, ClosingSteps, UnchangedEffects DEF Closes, workerVars
<1>5. CASE Works(c)
  BY <1>1, <1>2, <1>5, WorksEffects DEF Works, workerVars
<1>6. CASE \E k \in Key : Pick(c, k)
  BY <1>1, <1>5, <1>6, PickStep
<1>7. CASE BeginTarget(c) \/ Build(c) \/ StoreReceipt(c) \/ FinishTarget(c)
  BY <1>1, <1>5, <1>7, BeginStep, BuildStep, StoreStep, FinishStep
<1>8. CASE Send(c)
  BY <1>1, <1>2, <1>8, UnchangedEffects DEF Send, workerVars
<1> QED BY <1>3, <1>4, <1>6, <1>7, <1>8 DEF ProcessStep

LEMMA SocketRefines ==
    ASSUME FanoutTypeOK, NEW x \in Socket, SocketStep(x)
    PROVE  Refines /\ UNCHANGED runs
<1>1. UNCHANGED <<outbox, runs, effect>>
  BY DEF SocketStep, Connect, PushRead, PushSend, Disconnect, workerVars
<1> QED BY <1>1, QuietRefines DEF Prepared

LEMMA EveryStepRefines ==
    ASSUME FanoutInv, Ready, [FanoutNext]_fanoutVars
    PROVE  Refines /\ Ready'
<1>1. FanoutTypeOK /\ (Frozen \/ UNCHANGED fanoutVars)
  BY EveryStep DEF FanoutInv
<1>2. CASE UNCHANGED fanoutVars
  <2>1. UNCHANGED <<outbox, runs, effect>>
    BY <1>2 DEF fanoutVars
  <2> QED BY <2>1, QuietRefines DEF Ready, Prepared
<1>3. ASSUME Frozen, UNCHANGED runs PROVE Ready'
  BY <1>1, <1>3, ReadyStays
<1>4. CASE Frozen /\ \E e \in Event : Assign(e)
  BY <1>1, <1>3, <1>4, AssignRefines DEF Assign
<1>5. CASE Frozen /\ RowsAge
  BY <1>1, <1>3, <1>5, RowsAgeRefines DEF RowsAge
<1>6. CASE Frozen /\ \E s \in Worker : WorkerStep(s)
  BY <1>1, <1>6, WorkerRefines, WorkerReady
<1>7. CASE Frozen /\ \E c \in Consumer : ProcessStep(c)
  BY <1>3, <1>7, ProcessRefines
<1>8. CASE Frozen /\ \E x \in Socket : SocketStep(x)
  BY <1>1, <1>3, <1>8, SocketRefines
<1> QED BY <1>1, <1>2, <1>4, <1>5, <1>6, <1>7, <1>8 DEF FanoutNext

(* The fan-out keeps the safety of the contract that domain modules rely on: the *)
(* recipients of a key are prepared at most once, an event is reported delivered *)
(* only after that, and reports are final, whatever duplicates, double runs,     *)
(* takeovers and batches come in between (outbox.store.ts prepare, ack, fail).   *)
THEOREM FanoutKeepsContract == FanoutSpec => Contract!Safe
<1>1. FanoutInit => Ready /\ Contract!Init
  <2> SUFFICES ASSUME FanoutInit PROVE Ready /\ Contract!Init
    OBVIOUS
  <2>1. /\ \A e \in Event : ReportOf(outbox[e]) = "absent"
        /\ \A k \in Key : ~Prepared(k)
        /\ \A s \in Worker : runs[s] = Nil
    BY DEF FanoutInit, StoreInit, NoRow, ReportOf, Open, Prepared
  <2> QED BY <2>1 DEF Contract!Init, Ready
<1>2. FanoutInv /\ Ready /\ [FanoutNext]_fanoutVars
      => Ready' /\ [Contract!Next]_(Contract!contractVars)
  BY EveryStepRefines DEF Refines
<1> QED BY <1>1, <1>2, ItHolds, PTL DEF FanoutSpec, Contract!Safe
=============================================================================
