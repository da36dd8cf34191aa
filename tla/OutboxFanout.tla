----------------------------- MODULE OutboxFanout -----------------------------
(***************************************************************************)
(* Outbox events that are delivered to the displays of one device:          *)
(*   outbox.store.ts        prepare, targetsComplete, pendingTargets,       *)
(*                          beginTarget, finishTarget, register             *)
(*   outbox-dispatcher.service.ts           the delivery branch of dispatch *)
(*   device-update-coordinator.service.ts   one per API process (consumer)  *)
(*   presentation.service.ts, web-display.gateway.ts   what a socket is sent*)
(*                                                                          *)
(* A worker prepares an effect: the device rows and one target row for each *)
(* API process whose lease is live.  Each process polls for its targets,    *)
(* sends the presentation to the sockets it owns and marks its target.  The *)
(* worker acknowledges the event when no live process has an open target.   *)
(* The way from a claim through Redis to a run is one step here; what can   *)
(* happen on it is OutboxDispatch's subject, and to the table it is a claim *)
(* whose run crashes.                                                       *)
(*                                                                          *)
(* The n-th change of what the device is to show, an assignment that counts *)
(* up desiredSequence or a finished render that counts up renderRevision,   *)
(* is number n; the event that announces it, written in the same            *)
(* transaction, has effect key n.  A socket shows the number of the         *)
(* presentation it was last sent.  Which renders are finished is left open: *)
(* whoever reads a presentation may find it not rendered yet.               *)
(***************************************************************************)
EXTENDS OutboxStore

CONSTANTS
    Worker,       \* job executions in progress at the workers
    Nil,          \* null
    SequenceOf,   \* effect key of an event: the number of the change it announces
    Consumer,     \* consumerIds, each one life of an API process
    Socket,       \* display connections
    PrepareBatch  \* DELIVERY_PREPARE_BATCH

Key == {SequenceOf[e] : e \in Event}

(* A run of a job, an effect with its targets, the target a process works on,  *)
(* and a display connection.                                                   *)
Effect == [owner : Event, devices : BOOLEAN, targets : SUBSET Consumer,
           prepared : BOOLEAN, delivered : SUBSET Consumer,
           token : [Consumer -> Nat], presentation : Nat]
Dispatching == [e : Event, t : Nat, n : Nat, pc : {"loaded", "prepared", "counting", "done"}]
Polling == [k : Key, e : Event, t : Nat, states : SUBSET Socket, v : Nat,
            pc : {"picked", "collected", "built", "stored", "sent", "failing"}]
Display == [c : Consumer, shown : Nat, v : Nat, push : {"asked", "read", "idle"},
            exposed : BOOLEAN]

ASSUME FanoutAssumption ==
    /\ SequenceOf \in [Event -> Nat \ {0}]
    /\ PrepareBatch \in Nat \ {0}
    /\ Nil \notin Dispatching /\ Nil \notin Effect /\ Nil \notin Polling /\ Nil \notin Display

VARIABLES
    runs,     \* the event each execution dispatches
    desired,  \* the number of the last change (desiredSequence, renderRevision)
    effect,   \* outbox_effects with its deliveries and targets, per key
    seen,     \* the live consumers a waiting run has read
    lease,    \* outbox_consumers: no row, unexpired, expired
    up,       \* the API process behind each consumer id
    poll,     \* the target its poll loop is working on
    sock      \* the open display connections; history: whether one was open when
              \* its process renewed a lease that had lapsed (exposed)

fanoutVars == <<outbox, runs, desired, effect, seen, lease, up, poll, sock>>
workerVars == <<outbox, runs, seen>>
processVars == <<lease, up, poll, sock>>

Fresh(e) == [owner |-> e, devices |-> FALSE, targets |-> {}, prepared |-> FALSE,
             delivered |-> {}, token |-> [c \in Consumer |-> 0],
             presentation |-> 0]

FanoutInit ==
    /\ StoreInit
    /\ runs = [s \in Worker |-> Nil]
    /\ desired = 0
    /\ effect = [k \in Key |-> Nil]
    /\ seen = [s \in Worker |-> {}]
    /\ lease = [c \in Consumer |-> "none"]
    /\ up = [c \in Consumer |-> "new"]
    /\ poll = [c \in Consumer |-> Nil]
    /\ sock = [x \in Socket |-> Nil]

-----------------------------------------------------------------------------
(* setDesiredRevision, or the promotion of a finished render, and its event    *)
(* commit together.  A duplicate event for a change that was announced before *)
(* may be written as well.                                                    *)
Assign(e) ==
    /\ SequenceOf[e] <= desired + 1
    /\ outbox[e].status = "absent"
    /\ outbox' = [outbox EXCEPT ![e] = Produced(TRUE)]
    /\ desired' = IF SequenceOf[e] > desired THEN SequenceOf[e] ELSE desired
    /\ UNCHANGED <<runs, effect, seen, processVars>>

RowsAge ==
    /\ \/ \E e \in Event : BecomeDue(e) \/ Lapse(e)
       \/ \E q \in Queue : ClaimNothing(q)
    /\ UNCHANGED <<runs, desired, effect, seen, processVars>>

-----------------------------------------------------------------------------
(* The worker: a row is claimed and its job started, or a stalled job of a    *)
(* claim that still holds is run again.                                       *)
StartRun(s) ==
    /\ runs[s] = Nil
    /\ \E e \in Event :
          /\ \/ \E q \in Queue : ClaimRow(q, e)
             \/ Fence(e, outbox[e].token) /\ UNCHANGED outbox
          /\ runs' = [runs EXCEPT ![s] = [e |-> e, t |-> outbox'[e].token,
                                          n |-> outbox'[e].attempts, pc |-> "loaded"]]
    /\ UNCHANGED <<desired, effect, seen, processVars>>

(* A run that ends forgets what it had read. *)
EndRun(s) ==
    /\ runs' = [runs EXCEPT ![s] = Nil]
    /\ seen' = [seen EXCEPT ![s] = {}]
    /\ UNCHANGED <<desired, effect, processVars>>

ReportDelivered(s) ==
    /\ runs[s] # Nil /\ runs[s].pc = "done"
    /\ AckRow(runs[s].e, runs[s].t)
    /\ EndRun(s)

(* Timeout, abort, targetFailed, a Redis outage, OUTBOX_EFFECT_INCOMPLETE. *)
ReportFailed(s) ==
    /\ runs[s] # Nil
    /\ FailRow(runs[s].e, runs[s].t, runs[s].n, FALSE)
    /\ EndRun(s)

RunCrashes(s) ==
    /\ runs[s] # Nil
    /\ UNCHANGED outbox
    /\ EndRun(s)

-----------------------------------------------------------------------------
(* OutboxStore.prepare: one fenced transaction per batch.                     *)

LiveConsumers == {c \in Consumer : lease[c] = "live"}

Foreign(k, e)   == effect[k] # Nil /\ effect[k].owner # e
(* Mutant: an effect that another event prepared is prepared again. *)
NeverDuplicate(k, e) == FALSE

Duplicate(k, e) == Foreign(k, e) /\ effect[k].prepared

Incomplete(k, e) ==   \* OUTBOX_EFFECT_INCOMPLETE: only its owner may resume it
    /\ Foreign(k, e) /\ ~effect[k].prepared
    /\ outbox[effect[k].owner].status \notin {"absent", "dead-letter"}

PrepareStep(s) ==
    LET e == runs[s].e
        k == SequenceOf[e]
        f == IF effect[k] = Nil \/ Foreign(k, e) THEN Fresh(e) ELSE effect[k]
        missing == LiveConsumers \ f.targets
    IN
    /\ runs[s] # Nil /\ runs[s].pc = "loaded"
    /\ Fence(e, runs[s].t)
    /\ ~Incomplete(k, e)
    /\ \/ /\ Duplicate(k, e)
          /\ runs' = [runs EXCEPT ![s].pc = "done"]
          /\ UNCHANGED effect
       \/ /\ ~Duplicate(k, e) /\ f.prepared
          /\ runs' = [runs EXCEPT ![s].pc = "prepared"]
          /\ UNCHANGED effect
       \/ /\ ~Duplicate(k, e) /\ ~f.prepared /\ ~f.devices
          /\ effect' = [effect EXCEPT ![k] = [f EXCEPT !.devices = TRUE]]
          /\ UNCHANGED runs
       \/ /\ ~Duplicate(k, e) /\ ~f.prepared /\ f.devices /\ missing # {}
          /\ \E T \in SUBSET missing :
                /\ \/ T = missing /\ Cardinality(T) <= PrepareBatch
                   \/ T # missing /\ Cardinality(T) = PrepareBatch
                /\ effect' = [effect EXCEPT ![k] = [f EXCEPT !.targets = @ \cup T]]
          /\ UNCHANGED runs
       \/ /\ ~Duplicate(k, e) /\ ~f.prepared /\ f.devices /\ missing = {}
          /\ effect' = [effect EXCEPT ![k] = [f EXCEPT !.prepared = TRUE]]
          /\ runs' = [runs EXCEPT ![s].pc = "prepared"]
    /\ UNCHANGED <<outbox, desired, seen, processVars>>

(* targetsComplete reads the live consumers, then counts their open targets.  *)
ReadLive(s) ==
    /\ runs[s] # Nil /\ runs[s].pc = "prepared"
    /\ seen' = [seen EXCEPT ![s] = LiveConsumers]
    /\ runs' = [runs EXCEPT ![s].pc = "counting"]
    /\ UNCHANGED <<outbox, desired, effect, processVars>>

OpenTargets(k, C) == (effect[k].targets \ effect[k].delivered) \cap C

CountTargets(s) ==
    /\ runs[s] # Nil /\ runs[s].pc = "counting"
    /\ runs' = [runs EXCEPT ![s].pc =
                  IF OpenTargets(SequenceOf[runs[s].e], seen[s]) = {} THEN "done" ELSE "prepared"]
    /\ seen' = [seen EXCEPT ![s] = {}]
    /\ UNCHANGED <<outbox, desired, effect, processVars>>

-----------------------------------------------------------------------------
(* The API process: its lease.                                                *)

OpenOn(c) == {x \in Socket : sock[x] # Nil /\ sock[x].c = c}

(* Closing a connection also takes it out of the list a delivery collected.   *)
ClosedAll(X) ==
    /\ sock' = [x \in Socket |-> IF x \in X THEN Nil ELSE sock[x]]

(* Mutant: a closed connection stays in the list. *)
KeepCollected(p, X) == p

Without(p, X) == IF p = Nil THEN Nil ELSE [p EXCEPT !.states = @ \ X]

Start(c) ==
    /\ up[c] = "new"
    /\ up' = [up EXCEPT ![c] = "up"]
    /\ lease' = [lease EXCEPT ![c] = "live"]
    /\ UNCHANGED <<workerVars, desired, effect, poll, sock>>

LeaseLapses(c) ==
    /\ lease[c] = "live"
    /\ lease' = [lease EXCEPT ![c] = "lapsed"]
    /\ UNCHANGED <<workerVars, desired, effect, up, poll, sock>>

(* registerLease, from poll() and between its deliveries.  poll() closes the  *)
(* connections of a lapsed lease before it waits for the registration, but    *)
(* one that authenticates meanwhile is open when it commits; between the      *)
(* deliveries nothing is closed.                                              *)
Renew(c) ==
    /\ up[c] \in {"up", "stopping"} /\ lease[c] = "lapsed"
    /\ lease' = [lease EXCEPT ![c] = "live"]
    /\ sock' = [x \in Socket |->
                  IF x \in OpenOn(c) THEN [sock[x] EXCEPT !.exposed = TRUE] ELSE sock[x]]
    /\ UNCHANGED <<workerVars, desired, effect, up, poll>>

(* expireConnections: wake() or poll() saw the lapse. *)
Wake(c) ==
    /\ up[c] = "up" /\ lease[c] = "lapsed"
    /\ ClosedAll(OpenOn(c))
    /\ poll' = [poll EXCEPT ![c] = Without(@, OpenOn(c))]
    /\ UNCHANGED <<workerVars, desired, effect, lease, up>>

(* A renewal or another database call of poll() fails: wake() catches it. *)
PollLoopFails(c) ==
    /\ up[c] \in {"up", "stopping"} /\ poll[c] # Nil
    /\ ClosedAll(OpenOn(c))
    /\ poll' = [poll EXCEPT ![c] = Nil]
    /\ UNCHANGED <<workerVars, desired, effect, lease, up>>

(* stop(): sockets first, then the running poll, then the durable lease. *)
Stop(c) ==
    /\ up[c] = "up"
    /\ up' = [up EXCEPT ![c] = "stopping"]
    /\ ClosedAll(OpenOn(c))
    /\ poll' = [poll EXCEPT ![c] = Without(@, OpenOn(c))]
    /\ UNCHANGED <<workerVars, desired, effect, lease>>

Unregister(c) ==
    /\ up[c] = "stopping" /\ poll[c] = Nil /\ lease[c] # "none"
    /\ lease' = [lease EXCEPT ![c] = "none"]
    /\ UNCHANGED <<workerVars, desired, effect, up, poll, sock>>

(* The process ends, in order after Unregister or by a crash before it. *)
Exit(c) ==
    /\ up[c] \in {"up", "stopping"}
    /\ up' = [up EXCEPT ![c] = "gone"]
    /\ ClosedAll(OpenOn(c))
    /\ poll' = [poll EXCEPT ![c] = Nil]
    /\ UNCHANGED <<workerVars, desired, effect, lease>>

-----------------------------------------------------------------------------
(* The API process: its poll loop.                                            *)

(* pendingTargets, the read of the event and the current() check of it.  The   *)
(* device stays active: one that is switched off is not delivered to.          *)
Pick(c, k) ==
    /\ up[c] = "up" /\ poll[c] = Nil
    /\ effect[k] # Nil /\ effect[k].prepared
    /\ c \in effect[k].targets \ effect[k].delivered
    /\ LET e == effect[k].owner IN
       /\ Fence(e, outbox[e].token)
       /\ poll' = [poll EXCEPT ![c] = [k |-> k, e |-> e, t |-> outbox[e].token,
                                       pc |-> "picked", states |-> {}, v |-> 0]]
    /\ UNCHANGED <<workerVars, desired, effect, lease, up, sock>>

At(c, pc) == poll[c] # Nil /\ poll[c].pc = pc

(* beginTarget marks the attempt, once per claim; then deliver() collects the *)
(* connections, and with none it has nothing to send.                         *)
BeginTarget(c) ==
    /\ At(c, "picked")
    /\ LET k == poll[c].k
           t == poll[c].t IN
       \/ /\ c \notin effect[k].delivered /\ effect[k].token[c] # t
          /\ effect' = [effect EXCEPT ![k].token[c] = t]
          /\ poll' = [poll EXCEPT ![c].states = OpenOn(c),
                                  ![c].pc = IF OpenOn(c) = {} THEN "sent" ELSE "collected"]
       \/ /\ c \in effect[k].delivered \/ effect[k].token[c] = t
          /\ poll' = [poll EXCEPT ![c] = Nil]
          /\ UNCHANGED effect
    /\ UNCHANGED <<workerVars, desired, lease, up, sock>>

(* getForDevice: the cached receipt, or the state of the device as of now; one *)
(* that is not rendered yet makes the delivery fail (OUTBOX_ARTIFACT_PENDING). *)
Build(c) ==
    /\ At(c, "collected")
    /\ LET p == effect[poll[c].k].presentation IN
       poll' = [poll EXCEPT ![c].v = IF p # 0 THEN p ELSE desired, ![c].pc = "built"]
    /\ UNCHANGED <<workerVars, desired, effect, lease, up, sock>>

(* The first committed receipt is the presentation of every attempt. *)
StoreReceipt(c) ==
    /\ At(c, "built")
    /\ LET p == effect[poll[c].k].presentation
           w == IF p # 0 THEN p ELSE poll[c].v IN
       /\ effect' = [effect EXCEPT ![poll[c].k].presentation = w]
       /\ poll' = [poll EXCEPT ![c].v = w, ![c].pc = "stored"]
    /\ UNCHANGED <<workerVars, desired, lease, up, sock>>

(* Mutant: a slower send rolls back a newer delivery. *)
ShownLast(x, v) == [sock[x] EXCEPT !.shown = v]

(* A connection remembers the newest presentation it was sent (lastRevision)  *)
(* and is not sent an older one.                                              *)
Shown(x, v) == [sock[x] EXCEPT !.shown = IF v > @ THEN v ELSE @]

Send(c) ==
    /\ At(c, "stored")
    /\ sock' = [x \in Socket |-> IF x \in poll[c].states THEN Shown(x, poll[c].v) ELSE sock[x]]
    /\ poll' = [poll EXCEPT ![c].pc = "sent"]
    /\ UNCHANGED <<workerVars, desired, effect, lease, up>>

(* The adapter fails: the connections it was serving are closed, unless the   *)
(* attempt was only aborted or its artifact is not rendered yet.              *)
DeliveryFails(c) ==
    /\ \E pc \in {"collected", "built", "stored"} : At(c, pc)
    /\ \E X \in {{}, poll[c].states} :
          /\ ClosedAll(X)
          /\ poll' = [poll EXCEPT ![c] = [Without(@, X) EXCEPT !.pc = "failing"]]
    /\ UNCHANGED <<workerVars, desired, effect, lease, up>>

(* Mutant: the outcome of the delivery is not looked at. *)
FinishTargetAnyway(c) ==
    /\ At(c, "sent") \/ At(c, "failing")
    /\ effect' = IF Fence(poll[c].e, poll[c].t) /\ effect[poll[c].k].token[c] = poll[c].t
                 THEN [effect EXCEPT ![poll[c].k].delivered = @ \cup {c}] ELSE effect
    /\ poll' = [poll EXCEPT ![c] = Nil]
    /\ UNCHANGED <<workerVars, desired, lease, up, sock>>

(* finishTarget(true) and finishTarget(false), fenced by the event's claim.   *)
(* The error that the latter records makes the dispatcher give up its attempt *)
(* (targetFailed), which ReportFailed may do at any time.  When the reply to  *)
(* the former is lost, or the notification after it throws, the latter        *)
(* follows.                                                                   *)
FinishTarget(c) ==
    /\ At(c, "sent") \/ At(c, "failing")
    /\ LET k == poll[c].k
           ok == poll[c].pc = "sent" IN
       IF Fence(poll[c].e, poll[c].t) /\ effect[k].token[c] = poll[c].t
       THEN effect' = [effect EXCEPT
                ![k].delivered = IF ok THEN @ \cup {c} ELSE @ \ {c}]
       ELSE UNCHANGED effect
    /\ \/ poll' = [poll EXCEPT ![c] = Nil]
       \/ poll[c].pc = "sent" /\ poll' = [poll EXCEPT ![c].pc = "failing"]
    /\ UNCHANGED <<workerVars, desired, lease, up, sock>>

-----------------------------------------------------------------------------
(* The display connection.                                                    *)

(* Authenticated and added to the process's connections; its first push is    *)
(* still to come.                                                             *)
Connect(x, c) ==
    /\ sock[x] = Nil /\ up[c] \in {"up", "stopping"}
    /\ sock' = [sock EXCEPT ![x] = [c |-> c, shown |-> 0, v |-> 0, push |-> "asked",
                                    exposed |-> FALSE]]
    /\ UNCHANGED <<workerVars, desired, effect, lease, up, poll>>

(* pushPresentation without a context: read the current state, then send it.  *)
(* One that is not rendered yet ends the push (NotAcceptableException): the    *)
(* connection stays open and idle, and v keeps what it was not shown.          *)
PushRead(x) ==
    /\ sock[x] # Nil /\ sock[x].push = "asked"
    /\ \E outcome \in {"read", "idle"} :
          sock' = [sock EXCEPT ![x].push = outcome, ![x].v = desired]
    /\ UNCHANGED <<workerVars, desired, effect, lease, up, poll>>

PushSend(x) ==
    /\ sock[x] # Nil /\ sock[x].push = "read"
    /\ sock' = [sock EXCEPT ![x] = [Shown(x, sock[x].v) EXCEPT !.push = "idle", !.v = 0]]
    /\ UNCHANGED <<workerVars, desired, effect, lease, up, poll>>

(* The display goes away, or its heartbeat or credential check fails. *)
Disconnect(x) ==
    /\ sock[x] # Nil
    /\ sock' = [sock EXCEPT ![x] = Nil]
    /\ poll' = [c \in Consumer |-> Without(poll[c], {x})]
    /\ UNCHANGED <<workerVars, desired, effect, lease, up>>

-----------------------------------------------------------------------------
WorkerStep(s) ==
    \/ StartRun(s) \/ PrepareStep(s) \/ ReadLive(s) \/ CountTargets(s)
    \/ ReportDelivered(s) \/ ReportFailed(s) \/ RunCrashes(s)

ProcessStep(c) ==
    \/ Start(c) \/ LeaseLapses(c) \/ Renew(c) \/ Wake(c) \/ PollLoopFails(c)
    \/ Stop(c) \/ Unregister(c) \/ Exit(c)
    \/ \E k \in Key : Pick(c, k)
    \/ BeginTarget(c) \/ Build(c) \/ StoreReceipt(c) \/ Send(c)
    \/ DeliveryFails(c) \/ FinishTarget(c)

SocketStep(x) ==
    \/ \E c \in Consumer : Connect(x, c)
    \/ PushRead(x) \/ PushSend(x) \/ Disconnect(x)

FanoutNext ==
    \/ \E e \in Event : Assign(e)
    \/ RowsAge
    \/ \E s \in Worker : WorkerStep(s)
    \/ \E c \in Consumer : ProcessStep(c)
    \/ \E x \in Socket : SocketStep(x)

FanoutSpec == FanoutInit /\ [][FanoutNext]_fanoutVars

-----------------------------------------------------------------------------
(* Tables and processes are well formed; in particular only processes that    *)
(* were registered ever appear as targets of an effect.                       *)
FanoutTypeOK ==
    /\ outbox \in [Event -> Row]
    /\ runs \in [Worker -> Dispatching \cup {Nil}]
    /\ desired \in Nat
    /\ effect \in [Key -> Effect \cup {Nil}]
    /\ \A k \in Key : effect[k] # Nil => effect[k].delivered \subseteq effect[k].targets
    /\ seen \in [Worker -> SUBSET Consumer]
    /\ lease \in [Consumer -> {"none", "live", "lapsed"}]
    /\ up \in [Consumer -> {"new", "up", "stopping", "gone"}]
    /\ poll \in [Consumer -> Polling \cup {Nil}]
    /\ \A c \in Consumer : poll[c] # Nil => poll[c].states \subseteq OpenOn(c)
    /\ sock \in [Socket -> Display \cup {Nil}]

(* Once the event that announced a change is reported delivered, every display *)
(* connected to a process with a live lease has been sent that change or a     *)
(* later one, or is about to read the current one, or was told that one as new *)
(* is not rendered yet, which the event of its render will bring: acks,        *)
(* lapses, takeovers, reconnects and restarts lose no update.  Left out are    *)
(* connections that stayed open while their process registered again (exposed; *)
(* see ClosesBeforeReregistering).                                             *)
NoLostUpdate ==
    \A k \in DOMAIN effect, x \in DOMAIN sock :
        /\ effect[k] # Nil /\ outbox[effect[k].owner].status = "delivered"
        /\ sock[x] # Nil /\ lease[sock[x].c] = "live" /\ ~sock[x].exposed
        /\ sock[x].push = "idle"
        => sock[x].shown >= k \/ sock[x].v >= k

(* "Ein pausierter Prozess schliesst nach Leaseablauf seine Verbindungen vor  *)
(* Wiederanmeldung" (docs/architecture/WORK_PACKAGES.md): a process whose     *)
(* lease lapsed has no open connection when it registers again.               *)
ClosesBeforeReregistering ==
    [][\A c \in Consumer : lease[c] = "lapsed" /\ lease'[c] = "live" => OpenOn(c) = {}]_fanoutVars

(* The recipients of an effect are those of one event: once it is prepared,   *)
(* no duplicate or retried event, run at the same time or after a takeover,   *)
(* adds, drops or replaces a target (outbox.store.ts prepare).                *)
RecipientsFrozen ==
    [][\A k \in Key :
          effect[k] # Nil /\ effect[k].prepared =>
              /\ effect'[k] # Nil
              /\ effect'[k].prepared
              /\ effect'[k].owner = effect[k].owner
              /\ effect'[k].targets = effect[k].targets]_fanoutVars
=============================================================================
