------------------------------- MODULE Playback -------------------------------
(***************************************************************************)
(* The playback of one device and the durable transitions it leaves in the  *)
(* outbox:                                                                  *)
(*   backend/src/playback/playback.service.ts  executeInTransaction,        *)
(*                                             advanceDue, persist          *)
(*   backend/src/devices/content-assignment.service.ts         assign       *)
(*   backend/src/publications/publication-persistence.service.ts            *)
(*                                             setDesiredRevision           *)
(*                                                                          *)
(* Playback and plain assignments share the desired revision of the device. *)
(* A due event belongs to one version of the state: event number v is the   *)
(* transition that ends version v.  Every transaction is one step; the wall *)
(* clock may be set back.                                                   *)
(***************************************************************************)
EXTENDS OutboxStore, PlaybackMachine

CONSTANTS
    Slot,       \* job executions in progress at the workers
    MaxVersion, \* bound: versions of the state
    MaxClock,   \* bound: the run ends with the clock here
    MaxUpsets   \* bound: how often the clock is set back or the device switched

State == [version : 0 .. MaxVersion, list : Playlist \cup {<<>>}, anchor : Anchor,
          next : Time \cup {Null}]

NoState == [version |-> 0, list |-> <<>>, anchor |-> Fresh(1, "empty", 0, 0), next |-> Null]

ASSUME PlaybackAssumption ==
    /\ MaxVersion \in Nat /\ Event = 1 .. MaxVersion
    /\ MaxClock \in Time

VARIABLES
    state,      \* the row of the playback state, version 0 before it is created
    desired,    \* desiredPublicationRevisionId of the device
    active,     \* isActive of the device
    clock,      \* PlaybackClock.now()
    upsets,     \* how often it was set back, or the device switched off or on
    receipts,   \* outbox_effects: versions whose due event was handled
    dueAt,      \* the payload of each due event
    backoff,    \* events whose availableAt is the end of a retry's back-off
    run,        \* the event each slot is dispatching
    heard       \* history: entry and time into it at the last evaluation

rowVars  == <<outbox, state, desired, dueAt, heard>>
timeVars == <<active, clock, upsets>>
jobVars  == <<receipts, backoff, run>>
vars     == <<rowVars, timeVars, jobVars>>

First == [index |-> 1, elapsed |-> 0]

Init ==
    /\ StoreInit
    /\ state = NoState /\ desired = Null
    /\ active = TRUE /\ clock = 0 /\ upsets = 0
    /\ receipts = {} /\ backoff = {}
    /\ dueAt = [e \in Event |-> 0]
    /\ run = [s \in Slot |-> Null]
    /\ heard = First

-----------------------------------------------------------------------------
(* The reference for positions: playback goes on by one unit of time after    *)
(* the other, and an entry that was shown for its duration is followed by the *)
(* next one.                                                                  *)
Unit(list, p) ==
    IF p.elapsed + 1 = list[p.index].duration
    THEN [index |-> After(list, p.index, 1), elapsed |-> 0]
    ELSE [p EXCEPT !.elapsed = @ + 1]

UnitByUnit(list, i) ==
    LET at[u \in Nat] ==
            IF u = 0 THEN [index |-> i, elapsed |-> 0] ELSE Unit(list, at[u - 1])
    IN at

Heard(a, list, p) == IF Moves(a, list) THEN UnitByUnit(list, p.index)[p.elapsed] ELSE p

(* What is shown when the state is evaluated at a later time. *)
HeardAt(at) ==
    LET a == state.anchor
        passed == IF a.status = "running" THEN at - a.evaluatedAt ELSE 0
    IN Heard(a, state.list, [heard EXCEPT !.elapsed = @ + passed])

(* What a command makes of that. *)
HeardAfter(action, to, at) ==
    LET p == HeardAt(at)
        same == {i \in DOMAIN to : state.list # <<>> /\ to[i].item = state.list[p.index].item}
    IN CASE action = "start" \/ (action = "change" /\ same = {}) -> First
         [] action = "change" /\ same # {} -> [p EXCEPT !.index = CHOOSE i \in same : TRUE]
         [] action = "advance" /\ Len(state.list) > 0 /\ state.anchor.status # "stopped" ->
                [index |-> After(state.list, p.index, 1), elapsed |-> 0]
         [] OTHER -> p

-----------------------------------------------------------------------------
(* persist: the row, its schedule, and the desired revision. *)
Playing(s) == s.anchor.status \in {"running", "paused"}

Persisted(v, list, a) ==
    [version |-> v, list |-> list, anchor |-> a,
     next |-> IF list = <<>> THEN Null ELSE NextAt(a, list, a.evaluatedAt)]

ItemOf(s) == s.list[Position(s.anchor, s.list, s.anchor.evaluatedAt).index]

(* Empty and stopped playback keeps the last desired revision. *)
DesiredBy(s) == IF Playing(s) THEN ItemOf(s).revision ELSE desired

(* Mutant: pending transitions are superseded after the new one is created. *)
ScheduledFirst(o, s) ==
    [e \in Event |->
        CASE e = s.version /\ s.next # Null -> Acked(Produced(FALSE))
          [] o[e].status = "pending" -> Acked(o[e])
          [] OTHER -> o[e]]

(* Pending transitions are superseded, then the new one is created. *)
Scheduled(o, s) ==
    [e \in Event |->
        CASE e = s.version /\ s.next # Null -> Produced(FALSE)
          [] o[e].status = "pending" -> Acked(o[e])
          [] OTHER -> o[e]]

(* s is written; p is what was heard when it is evaluated. *)
Persist(s, p) ==
    /\ s.version \in Event /\ s.next \in Time \cup {Null}
    /\ state' = s
    /\ outbox' = Scheduled(outbox, s)
    /\ dueAt' = IF s.next = Null THEN dueAt ELSE [dueAt EXCEPT ![s.version] = s.next]
    /\ heard' = IF s.list = <<>> THEN First ELSE Heard(s.anchor, s.list, p)

Version == state.version
Now == At(state.anchor, clock)

-----------------------------------------------------------------------------
(* Commands name the version and sequence they expect, so one that is accepted *)
(* names the current ones.                                                     *)
Replaces == {"start", "change"}

Overdue == state.next # Null /\ clock >= state.next

Execute(action, to) ==
    /\ active
    /\ Version = 0 => action = "start"
    /\ action \notin Replaces => to = state.list
    /\ CanTransition(state.anchor, action)
    /\ action = "restart" => Overdue
    /\ LET a == Transition(state.anchor, state.list, action, to, clock) IN
       /\ Version = 0 \/ to # state.list \/ a # state.anchor
       /\ Persist(Persisted(Version + 1, to, a), HeardAfter(action, to, Now))
    /\ desired' = DesiredBy(state')
    /\ UNCHANGED <<timeVars, jobVars>>

(* ContentAssignmentService.assign stops what is playing, and assigns nothing,  *)
(* a revision, or a playlist, in one transaction.  Without playback, assigning *)
(* a playlist is a start.                                                      *)
Stopped == Persisted(Version + 1, state.list, Halted(state.anchor, state.list, "stopped", clock))

StopIfPlaying ==
    IF Playing(state) THEN Persist(Stopped, HeardAt(Now))
    ELSE UNCHANGED <<state, outbox, dueAt, heard>>

AssignOnly(r) ==
    /\ active
    /\ Playing(state) \/ desired # r
    /\ StopIfPlaying
    /\ desired' = r
    /\ UNCHANGED <<timeVars, jobVars>>

AssignPlaylist(to) ==
    /\ active
    /\ Playing(state) /\ state.list # to
    /\ Persist(Persisted(Version + 2, to, Started(to, Now)), First)
    /\ desired' = DesiredBy(state')
    /\ UNCHANGED <<timeVars, jobVars>>

(* Mutant: only running playback keeps its device. *)
MayAssignPaused == state.anchor.status # "running"

MayAssign == ~Playing(state)

(* setDesiredRevision of a publication, an import or a source. *)
SetDesiredRevision(r) ==
    /\ MayAssign
    /\ desired # r
    /\ desired' = r
    /\ UNCHANGED <<outbox, state, dueAt, heard, timeVars, jobVars>>

-----------------------------------------------------------------------------
(* The device is switched off and on, the clock goes and is set back, and the *)
(* table's own deadlines pass.                                                *)
Toggle ==
    /\ upsets < MaxUpsets
    /\ active' = ~active /\ upsets' = upsets + 1
    /\ UNCHANGED <<rowVars, jobVars, clock>>

Tick ==
    /\ clock < MaxClock
    /\ clock' = clock + 1
    /\ UNCHANGED <<rowVars, jobVars, active, upsets>>

SetBack ==
    /\ clock > 0 /\ upsets < MaxUpsets
    /\ clock' = clock - 1 /\ upsets' = upsets + 1
    /\ \E back \in SUBSET {e \in Event : outbox[e].lapsed} :
          outbox' = [e \in Event |->
              [outbox[e] EXCEPT !.lapsed = @ /\ e \notin back,
                                !.due = @ /\ (e \in backoff \/ clock' >= dueAt[e])]]
    /\ UNCHANGED <<state, desired, dueAt, heard, jobVars, active>>

RowStep(e) ==
    /\ \/ BecomeDue(e) /\ (clock >= dueAt[e] \/ e \in backoff)
       \/ Lapse(e)
    /\ UNCHANGED <<state, desired, dueAt, heard, timeVars, jobVars>>

BuryExhausted ==
    /\ \E q \in Queue : ClaimNothing(q)
    /\ UNCHANGED <<state, desired, dueAt, heard, timeVars, jobVars>>

-----------------------------------------------------------------------------
(* The worker.  A row is claimed and its job started, or a stalled job is run *)
(* again; OutboxDispatch has the steps in between.                            *)
StartRun(s) ==
    /\ run[s] = Null
    /\ \E e \in Event :
          /\ \/ \E q \in Queue : ClaimRow(q, e)
             \/ Fence(e, outbox[e].token) /\ UNCHANGED outbox
          /\ run' = [run EXCEPT ![s] = [e |-> e, t |-> outbox'[e].token,
                                        n |-> outbox'[e].attempts, done |-> FALSE]]
    /\ UNCHANGED <<state, desired, dueAt, heard, timeVars, receipts, backoff>>

Loaded(s) == /\ run[s] # Null /\ ~run[s].done
             /\ Fence(run[s].e, run[s].t)

(* The version, status and time the event was created for. *)
Current(e) ==
    /\ state.version = e /\ state.anchor.status = "running" /\ state.next = dueAt[e]

Handled(s) ==
    /\ receipts' = receipts \cup {run[s].e}
    /\ run' = [run EXCEPT ![s].done = TRUE]
    /\ UNCHANGED <<timeVars, backoff>>

SkipDue(s) ==
    /\ Loaded(s)
    /\ run[s].e \in receipts \/ ~Current(run[s].e)
    /\ Handled(s)
    /\ UNCHANGED rowVars

(* advanceDue; the device may have been switched off in the meantime. *)
AdvanceDue(s) ==
    /\ Loaded(s)
    /\ run[s].e \notin receipts /\ Current(run[s].e)
    /\ clock >= dueAt[run[s].e]
    /\ LET action == IF active THEN "restart" ELSE "stop"
           a == Transition(state.anchor, state.list, action, state.list, clock)
       IN Persist(Persisted(Version + 1, state.list, a), HeardAt(Now))
    /\ desired' = DesiredBy(state')
    /\ Handled(s)

EndRun(s) ==
    /\ run' = [run EXCEPT ![s] = Null]
    /\ UNCHANGED <<state, desired, dueAt, heard, timeVars, receipts>>

AckRun(s) ==
    /\ run[s] # Null /\ run[s].done
    /\ AckRow(run[s].e, run[s].t)
    /\ UNCHANGED backoff
    /\ EndRun(s)

(* Any error, PLAYBACK_NOT_DUE after a step back of the clock among them. *)
FailRun(s) ==
    /\ run[s] # Null
    /\ FailRow(run[s].e, run[s].t, run[s].n, FALSE)
    /\ backoff' = IF Fence(run[s].e, run[s].t) THEN backoff \cup {run[s].e} ELSE backoff
    /\ EndRun(s)

CrashRun(s) ==
    /\ run[s] # Null
    /\ UNCHANGED <<outbox, backoff>>
    /\ EndRun(s)

WorkerStep(s) ==
    StartRun(s) \/ SkipDue(s) \/ AdvanceDue(s) \/ AckRun(s) \/ FailRun(s) \/ CrashRun(s)

Action == {"start", "advance", "change", "pause", "resume", "restart", "stop"}

Next ==
    \/ \E to \in Playlist : AssignPlaylist(to)
    \/ \E action \in Action, to \in Playlist : Execute(action, to)
    \/ \E r \in Revision \cup {Null} : AssignOnly(r)
    \/ \E r \in Revision : SetDesiredRevision(r)
    \/ Toggle \/ Tick \/ SetBack \/ BuryExhausted
    \/ \E e \in Event : RowStep(e)
    \/ \E s \in Slot : WorkerStep(s)

(* The clock advances, deadlines and leases pass, ticks claim what is due, and *)
(* a run ends: its handler awaits only the database and has a time limit.      *)
Ends(s) == SkipDue(s) \/ AdvanceDue(s) \/ AckRun(s) \/ FailRun(s)
Fairness ==
    /\ WF_vars(Tick) /\ WF_vars(BuryExhausted)
    /\ \A e \in Event : WF_vars(RowStep(e))
    /\ WF_vars(\E s \in Slot : StartRun(s))
    /\ \A s \in Slot : WF_vars(Ends(s))

Safe == Init /\ [][Next]_vars
Spec == Safe /\ Fairness

-----------------------------------------------------------------------------
(* Rows, runs and the anchor are well formed, and only a moving playlist has a *)
(* next transition.                                                            *)
TypeOK ==
    /\ outbox \in [Event -> Row]
    /\ state \in State
    /\ (state.anchor.status = "empty") = (state.list = <<>> /\ state.anchor.status # "stopped")
    /\ state.list # <<>> => state.anchor.index \in DOMAIN state.list
    /\ state.next # Null => state.anchor.status = "running" /\ state.next > state.anchor.evaluatedAt
    /\ desired \in Revision \cup {Null}
    /\ active \in BOOLEAN
    /\ clock \in Time /\ upsets \in Nat
    /\ receipts \subseteq Event /\ backoff \subseteq Event
    /\ dueAt \in [Event -> Time]
    /\ run \in [Slot -> [e : Event, t : Nat, n : Nat, done : BOOLEAN] \cup {Null}]
    /\ heard \in [index : Nat \ {0}, elapsed : Nat]

(* While playback runs or is paused, the device is to show the item it is at: *)
(* no assignment, import, source, late transition or second run of one sets   *)
(* anything else ("Stop playback before assigning a publication").            *)
ShowsItsItem == Playing(state) => desired = ItemOf(state).revision

(* Every position that can be read off the state, also after missed cycles,   *)
(* pauses, changes of the list and steps of the clock, is the one a playback  *)
(* has that goes on unit by unit.                                             *)
ItemOnTime ==
    state.list # <<>> =>
        \A t \in state.anchor.evaluatedAt .. MaxTime :
            Position(state.anchor, state.list, t) = HeardAt(t)

(* The next transition is due when the item ends: until then the item is the  *)
(* same, and then it is another; without one the item stays for ever.         *)
DueWhenItemEnds ==
    state.list # <<>> =>
        /\ \A t \in state.anchor.evaluatedAt .. MaxTime :
              state.next = Null \/ t < state.next => HeardAt(t).index = heard.index
        /\ state.next # Null => HeardAt(state.next).index # heard.index

(* The transition that ends the current version is still to be run, or is     *)
(* dead-lettered: it is never superseded or settled by commands, retries,     *)
(* or takeovers.                                                              *)
TransitionKept ==
    state.next # Null =>
        /\ outbox[state.version].status # "delivered"
        /\ state.version \notin receipts
        /\ dueAt[state.version] = state.next

(* Playback goes on: a version that has an end passes, or its transition is   *)
(* dead-lettered.                                                             *)
PlaybackGoesOn ==
    \A v \in Event : Current(v) ~> ~Current(v) \/ outbox[v].status = "dead-letter"
===============================================================================
