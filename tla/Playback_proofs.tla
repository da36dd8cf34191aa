---------------------------- MODULE Playback_proofs ----------------------------
(***************************************************************************)
(* Theorems about Playback, for every playlist, number of versions, slots,  *)
(* attempts and claims, and for every order of clock readings: a device     *)
(* that plays is to show the item its playback is at; the transition that   *)
(* ends the current version is never lost; every position read off the      *)
(* state is the one of playback that goes on unit by unit, and the next     *)
(* transition is due when the item ends.                                    *)
(*                                                                          *)
(* The first two do not depend on how positions are computed.  The second   *)
(* is not inductive by itself: that a settled run cannot belong to the      *)
(* current version needs that every receipt is of an earlier one, and that  *)
(* needs that a row of the current version exists only with the transition  *)
(* that the state still waits for.                                          *)
(*                                                                          *)
(* The others rest on the arithmetic of playlists: what the sums of         *)
(* durations are, that a cycle takes as long from every entry, and that     *)
(* counting within the cycle is counting from the start.  The library's     *)
(* well-founded minimum gives induction for sets of numbers (Induct), and   *)
(* with it the recursive functions Lasting and UnitByUnit are unrolled.     *)
(***************************************************************************)
EXTENDS Playback, OutboxStore_proofs, WellFoundedInduction

-----------------------------------------------------------------------------
(* What a device shows while it plays.                                        *)

(* persist sets what the item of the new state is (persist).                  *)
LEMMA PersistedShown ==
    ASSUME desired' = DesiredBy(state')
    PROVE  ShowsItsItem'
BY DEF ShowsItsItem, DesiredBy

(* Stopped playback plays nothing. *)
LEMMA StoppedIsQuiet ==
    ASSUME state' = Stopped
    PROVE  ~Playing(state')
BY DEF Stopped, Playing, Persisted, Halted, Fresh

(* Every step keeps what is shown with what is played. *)
LEMMA ShowsItsItemStep == ShowsItsItem /\ [Next]_vars => ShowsItsItem'
<1> SUFFICES ASSUME ShowsItsItem, [Next]_vars
             PROVE  ShowsItsItem'
  OBVIOUS
<1>1. CASE UNCHANGED <<state, desired>>
  BY <1>1 DEF ShowsItsItem, Playing, ItemOf
<1>2. ASSUME NEW to \in Playlist, AssignPlaylist(to)
      PROVE  ShowsItsItem'
  BY <1>2, PersistedShown DEF AssignPlaylist
<1>3. ASSUME NEW action \in Action, NEW to \in Playlist, Execute(action, to)
      PROVE  ShowsItsItem'
  BY <1>3, PersistedShown DEF Execute
<1>4. ASSUME NEW r \in Revision \cup {Null}, AssignOnly(r)
      PROVE  ShowsItsItem'
  <2>1. CASE Playing(state)
    <3>1. state' = Stopped
      BY <1>4, <2>1 DEF AssignOnly, StopIfPlaying, Persist
    <3> QED BY <3>1, StoppedIsQuiet DEF ShowsItsItem
  <2>2. CASE ~Playing(state)
    <3>1. state' = state
      BY <1>4, <2>2 DEF AssignOnly, StopIfPlaying
    <3> QED BY <2>2, <3>1 DEF ShowsItsItem, Playing
  <2> QED BY <2>1, <2>2
<1>5. ASSUME NEW r \in Revision, SetDesiredRevision(r)
      PROVE  ShowsItsItem'
  BY <1>5 DEF SetDesiredRevision, MayAssign, ShowsItsItem, Playing
<1>6. CASE Toggle \/ Tick \/ SetBack \/ BuryExhausted
  BY <1>1, <1>6 DEF Toggle, Tick, SetBack, BuryExhausted, rowVars
<1>7. ASSUME NEW e \in Event, RowStep(e)
      PROVE  ShowsItsItem'
  BY <1>1, <1>7 DEF RowStep
<1>8. ASSUME NEW s \in Slot, WorkerStep(s)
      PROVE  ShowsItsItem'
  <2>1. CASE AdvanceDue(s)
    BY <2>1, PersistedShown DEF AdvanceDue
  <2>2. CASE StartRun(s) \/ SkipDue(s) \/ AckRun(s) \/ FailRun(s) \/ CrashRun(s)
    BY <1>1, <2>2 DEF StartRun, SkipDue, AckRun, FailRun, CrashRun, EndRun, rowVars
  <2> QED BY <1>8, <2>1, <2>2 DEF WorkerStep
<1>9. CASE UNCHANGED vars
  BY <1>1, <1>9 DEF vars, rowVars
<1> QED BY <1>2, <1>3, <1>4, <1>5, <1>6, <1>7, <1>8, <1>9 DEF Next

(* While playback runs or is paused, no assignment, import, late transition   *)
(* or second run of one makes the device show anything but its item           *)
(* (publication-persistence.service.ts setDesiredRevision, persist).          *)
THEOREM PlayedIsShown == Safe => []ShowsItsItem
<1>1. Init => ShowsItsItem
  BY DEF Init, NoState, Fresh, ShowsItsItem, Playing
<1> QED BY <1>1, ShowsItsItemStep, PTL DEF Safe

-----------------------------------------------------------------------------
(* The transition that ends the current version.                              *)

(* Rows and receipts of versions that are still to come do not exist, and the *)
(* row of the current version is the one the state waits for.                 *)
Numbered ==
    /\ Version \in Nat
    /\ \A e \in Event : e > Version => outbox[e].status = "absent"

Waiting ==
    /\ state.next = Null /\ Version \in Event => outbox[Version].status = "absent"
    /\ state.next # Null =>
          /\ Version \in Event
          /\ state.anchor.status = "running"
          /\ dueAt[Version] = state.next
          /\ outbox[Version].status \notin {"absent", "delivered"}

Receipted ==
    /\ \A e \in receipts : e \in Event /\ e < Version
    /\ \A s \in Slot : run[s] # Null =>
          run[s].e \in Event /\ (run[s].done => run[s].e \in receipts)

TransitionInv ==
    /\ Table
    /\ dueAt \in [Event -> Time]
    /\ run \in [Slot -> [e : Event, t : Nat, n : Nat, done : BOOLEAN] \cup {Null}]
    /\ Numbered
    /\ Waiting
    /\ Receipted

(* What a run does to the slots. *)
Runs == /\ run' \in [Slot -> [e : Event, t : Nat, n : Nat, done : BOOLEAN] \cup {Null}]
        /\ \A s \in Slot : run'[s] # Null =>
              run'[s].e \in Event /\ (run'[s].done => run'[s].e \in receipts')

(* A row that keeps its kin keeps the invariant.                              *)
LEMMA RowsMove ==
    ASSUME TransitionInv, Table', Same, UNCHANGED <<state, dueAt, receipts>>, Runs
    PROVE  TransitionInv'
<1>1. Version' = Version
  BY DEF Version
<1>2. Numbered'
  BY <1>1 DEF TransitionInv, Numbered, Same, Kin
<1>3. Waiting'
  BY <1>1 DEF TransitionInv, Waiting, Same, Kin
<1>4. Receipted'
  BY <1>1 DEF TransitionInv, Receipted, Runs
<1> QED BY <1>2, <1>3, <1>4 DEF TransitionInv, Runs

(* The transaction that leaves a new version (persist).                       *)
LEMMA VersionMoves ==
    ASSUME TransitionInv,
           NEW v, NEW list, NEW a, NEW p,
           v > Version, v \in Int,
           Persist(Persisted(v, list, a), p),
           Runs,
           \A e \in receipts' : e \in receipts \/ (e \in Event /\ e <= Version)
    PROVE  TransitionInv'
<1> DEFINE s == Persisted(v, list, a)
<1>1. /\ s.version = v
      /\ s.next # Null => s.anchor.status = "running"
  BY DEF Persisted, NextAt, Moves
<1>2. /\ s.version \in Event /\ s.next \in Time \cup {Null}
      /\ state' = s
      /\ outbox' = Scheduled(outbox, s)
      /\ dueAt' = IF s.next = Null THEN dueAt ELSE [dueAt EXCEPT ![s.version] = s.next]
  BY DEF Persist
<1> HIDE DEF s
<1>3. Version' = v /\ Version \in Nat
  BY <1>1, <1>2 DEF Version, TransitionInv, Numbered
<1>4. \A e \in Event : outbox[e] \in Row
  BY DEF TransitionInv, Table
<1>5. ASSUME NEW e \in Event
      PROVE  /\ outbox'[e] \in Row
             /\ e = v /\ s.next # Null => outbox'[e].status = "pending"
             /\ outbox[e].status = "absent" /\ (e = v => s.next = Null)
                    => outbox'[e].status = "absent"
  <2>1. outbox'[e] = CASE e = s.version /\ s.next # Null -> Produced(FALSE)
                       [] outbox[e].status = "pending" -> Acked(outbox[e])
                       [] OTHER -> outbox[e]
    <3> HIDE DEF s
    <3>1. Scheduled(outbox, s)[e] = CASE e = s.version /\ s.next # Null -> Produced(FALSE)
                                      [] outbox[e].status = "pending" -> Acked(outbox[e])
                                      [] OTHER -> outbox[e]
      BY DEF Scheduled
    <3> QED BY <1>2, <3>1
  <2>2. outbox[e] \in Row
    BY <1>4
  <2>3. Acked(outbox[e]) \in Row
    BY <2>2, RowOperations
  <2>4. Produced(FALSE) \in Row /\ Produced(FALSE).status = "pending"
    BY <2>2, RowOperations
  <2>5. CASE e = s.version /\ s.next # Null
    <3>1. outbox'[e] = Produced(FALSE) \/ (outbox[e].status = "pending" /\ outbox'[e] = Acked(outbox[e]))
      BY <2>1, <2>5
    <3>2. outbox[e].status = "absent"
      BY <1>1, <2>5 DEF TransitionInv, Numbered
    <3> QED BY <1>1, <2>4, <2>5, <3>1, <3>2
  <2>6. CASE ~(e = s.version /\ s.next # Null) /\ outbox[e].status = "pending"
    <3>1. outbox'[e] = Acked(outbox[e])
      BY <2>1, <2>6
    <3> QED BY <1>1, <2>3, <2>6, <3>1
  <2>7. CASE ~(e = s.version /\ s.next # Null) /\ outbox[e].status # "pending"
    <3>1. outbox'[e] = outbox[e]
      BY <2>1, <2>7
    <3> QED BY <1>1, <2>2, <2>7, <3>1
  <2> QED BY <2>5, <2>6, <2>7
<1>6. outbox[v].status = "absent"
  BY <1>1, <1>2 DEF TransitionInv, Numbered
<1>7. Numbered'
  BY <1>1, <1>2, <1>3, <1>5, StoreAssumption DEF TransitionInv, Numbered
<1>8. Waiting'
  BY <1>1, <1>2, <1>3, <1>5, <1>6 DEF TransitionInv, Waiting
<1>9. \A e \in receipts' : e \in Event /\ e < Version'
  <2>1. \A e \in Event : e \in Int
    BY StoreAssumption
  <2> QED BY <1>3, <2>1 DEF TransitionInv, Receipted
<1>10. Receipted'
  BY <1>9 DEF Receipted, Runs
<1>11. dueAt' \in [Event -> Time]
  BY <1>2 DEF TransitionInv
<1>12. Table'
  <2>1. outbox' = [e \in Event |-> outbox'[e]]
    BY <1>2 DEF Scheduled
  <2> QED BY <1>5, <2>1 DEF Table
<1> QED BY <1>7, <1>8, <1>10, <1>11, <1>12 DEF TransitionInv, Runs

(* A step that only writes rows, slots or what the invariant does not look at. *)
LEMMA OtherSteps ==
    ASSUME TransitionInv, Table', Same, UNCHANGED <<state, dueAt, receipts, run>>
    PROVE  TransitionInv'
BY RowsMove DEF Runs, TransitionInv, Receipted

(* A step that writes nothing the invariant looks at. *)
LEMMA Untouched ==
    ASSUME TransitionInv, UNCHANGED <<outbox, state, dueAt, receipts, run>>
    PROVE  TransitionInv'
<1>1. Table' /\ Same
  BY DEF TransitionInv, Table, Same, Kin
<1> QED BY <1>1, OtherSteps

(* Commands leave a new version and no receipt. *)
LEMMA Commands ==
    ASSUME TransitionInv,
           NEW v, NEW list, NEW a, NEW p,
           v > Version, v \in Int,
           Persist(Persisted(v, list, a), p),
           UNCHANGED jobVars
    PROVE  TransitionInv'
<1>1. Runs /\ receipts' = receipts
  BY DEF jobVars, Runs, TransitionInv, Receipted
<1> QED BY <1>1, VersionMoves

(* A step back of the clock takes lapses and deadlines back, and no status.   *)
LEMMA SetBackKeeps == TransitionInv /\ SetBack => TransitionInv'
<1> SUFFICES ASSUME TransitionInv, SetBack
             PROVE  TransitionInv'
  OBVIOUS
<1>1. PICK back \in SUBSET {e \in Event : outbox[e].lapsed} :
          outbox' = [e \in Event |->
              [outbox[e] EXCEPT !.lapsed = @ /\ e \notin back,
                                !.due = @ /\ (e \in backoff \/ clock' >= dueAt[e])]]
  BY DEF SetBack
<1>2. ASSUME NEW e \in Event
      PROVE  outbox'[e] \in Row /\ outbox'[e].status = outbox[e].status
  <2> DEFINE lapsed == outbox[e].lapsed /\ e \notin back
             due == outbox[e].due /\ (e \in backoff \/ clock' >= dueAt[e])
  <2>1. outbox[e] \in Row
    BY DEF TransitionInv, Table
  <2>2. outbox'[e] = [outbox[e] EXCEPT !.lapsed = lapsed, !.due = due]
    BY <1>1
  <2>3. lapsed \in BOOLEAN /\ due \in BOOLEAN
    BY Zenon
  <2> HIDE DEF lapsed, due
  <2> QED BY <2>1, <2>2, <2>3 DEF Row
<1>3. Table' /\ Same
  <2>1. outbox' = [e \in Event |-> outbox'[e]]
    BY <1>1
  <2> QED BY <1>2, <2>1 DEF Table, Same, Kin
<1> QED BY <1>3, OtherSteps DEF SetBack, jobVars

(* The worker of a slot.                                                      *)
LEMMA StartKeeps ==
    ASSUME TransitionInv, NEW s \in Slot, StartRun(s)
    PROVE  TransitionInv'
<1>1. PICK e \in Event :
          /\ \/ \E q \in Queue : ClaimRow(q, e)
             \/ Fence(e, outbox[e].token) /\ UNCHANGED outbox
          /\ run' = [run EXCEPT ![s] = [e |-> e, t |-> outbox'[e].token,
                                        n |-> outbox'[e].attempts, done |-> FALSE]]
  BY DEF StartRun
<1>2. Table' /\ Same
  <2>1. CASE \E q \in Queue : ClaimRow(q, e)
    BY <2>1, Claims DEF TransitionInv
  <2>2. CASE UNCHANGED outbox
    BY <2>2 DEF TransitionInv, Table, Same, Kin
  <2> QED BY <1>1, <2>1, <2>2
<1>3. outbox'[e].token \in Nat /\ outbox'[e].attempts \in Nat
  BY <1>2 DEF Table, Row
<1>4. Runs
  BY <1>1, <1>3 DEF Runs, TransitionInv, Receipted, StartRun
<1> QED BY <1>2, <1>4, RowsMove DEF StartRun

(* A run that finds its version gone, or its receipt there.                   *)
LEMMA SkipKeeps ==
    ASSUME TransitionInv, NEW s \in Slot, SkipDue(s)
    PROVE  TransitionInv'
<1> DEFINE e == run[s].e
<1>1. /\ run[s] # Null /\ outbox[e].status = "processing"
      /\ e \in receipts \/ ~Current(e)
      /\ receipts' = receipts \cup {e}
      /\ run' = [run EXCEPT ![s].done = TRUE]
      /\ UNCHANGED rowVars
  BY DEF SkipDue, Loaded, Handled, Fence
<1>2. e \in Event
  BY <1>1 DEF TransitionInv, Receipted
<1>3. e < Version
  <2>1. CASE e \in receipts
    BY <2>1 DEF TransitionInv, Receipted
  <2>2. CASE ~Current(e)
    <3>1. e <= Version
      BY <1>1, <1>2, StoreAssumption DEF TransitionInv, Numbered
    <3>2. e # Version
      BY <1>1, <1>2, <2>2 DEF TransitionInv, Waiting, Current, Version
    <3>3. e \in Nat /\ Version \in Nat
      BY <1>2, StoreAssumption DEF TransitionInv, Numbered
    <3> HIDE DEF e
    <3> QED BY <3>1, <3>2, <3>3
  <2> QED BY <1>1, <2>1, <2>2
<1>4. run' \in [Slot -> [e : Event, t : Nat, n : Nat, done : BOOLEAN] \cup {Null}]
  BY <1>1 DEF TransitionInv
<1>5. Version' = Version /\ Table' /\ dueAt' \in [Event -> Time]
  BY <1>1 DEF rowVars, Version, TransitionInv, Table
<1>6. Numbered' /\ Waiting'
  BY <1>1, <1>5 DEF rowVars, TransitionInv, Numbered, Waiting
<1>7. ASSUME NEW z \in Slot, run'[z] # Null
      PROVE  run'[z].e \in Event /\ (run'[z].done => run'[z].e \in receipts')
  <2>1. CASE z = s
    BY <1>1, <1>2, <2>1 DEF TransitionInv
  <2>2. CASE z # s
    BY <1>1, <1>7, <2>2 DEF TransitionInv, Receipted
  <2> QED BY <2>1, <2>2
<1>8. Receipted'
  BY <1>1, <1>2, <1>3, <1>5, <1>7 DEF TransitionInv, Receipted
<1> QED BY <1>4, <1>5, <1>6, <1>8 DEF TransitionInv

(* A run that advances playback is of the version it ends.                    *)
LEMMA AdvanceKeeps ==
    ASSUME TransitionInv, NEW s \in Slot, AdvanceDue(s)
    PROVE  TransitionInv'
<1> DEFINE e == run[s].e
<1>1. PICK a : Persist(Persisted(Version + 1, state.list, a), HeardAt(Now))
  BY DEF AdvanceDue
<1>2. /\ run[s] # Null /\ e = Version
      /\ receipts' = receipts \cup {e}
      /\ run' = [run EXCEPT ![s].done = TRUE]
  BY DEF AdvanceDue, Loaded, Handled, Current, Version
<1>3. e \in Event /\ Version \in Nat
  BY <1>2 DEF TransitionInv, Receipted, Numbered
<1>4. run' \in [Slot -> [e : Event, t : Nat, n : Nat, done : BOOLEAN] \cup {Null}]
  BY <1>2 DEF TransitionInv
<1>5. ASSUME NEW z \in Slot, run'[z] # Null
      PROVE  run'[z].e \in Event /\ (run'[z].done => run'[z].e \in receipts')
  <2>1. CASE z = s
    BY <1>2, <1>3, <2>1 DEF TransitionInv
  <2>2. CASE z # s
    BY <1>2, <1>5, <2>2 DEF TransitionInv, Receipted
  <2> QED BY <2>1, <2>2
<1>6. \A f \in receipts' : f \in receipts \/ (f \in Event /\ f <= Version)
  BY <1>2, <1>3
<1>7. Version + 1 > Version /\ Version + 1 \in Int
  BY <1>3
<1>8. Runs
  BY <1>4, <1>5 DEF Runs
<1> QED BY <1>1, <1>6, <1>7, <1>8, VersionMoves

(* A run reports the delivery of an event with a receipt, so of a version     *)
(* that has ended.                                                            *)
LEMMA AckKeeps ==
    ASSUME TransitionInv, NEW s \in Slot, AckRun(s)
    PROVE  TransitionInv'
<1> DEFINE e == run[s].e
<1>1. /\ run[s] # Null /\ e \in receipts
      /\ AckRow(e, run[s].t)
      /\ run' = [run EXCEPT ![s] = Null]
      /\ UNCHANGED <<state, dueAt, receipts>>
  BY DEF AckRun, EndRun, TransitionInv, Receipted
<1>2. e \in Event /\ e < Version
  BY <1>1 DEF TransitionInv, Receipted
<1>3. Runs
  BY <1>1 DEF Runs, TransitionInv, Receipted
<1>4. CASE ~Fence(e, run[s].t)
  <2>1. outbox' = outbox
    BY <1>1, <1>4 DEF AckRow
  <2> QED BY <1>1, <1>3, <2>1, RowsMove DEF TransitionInv, Table, Same, Kin
<1>5. CASE Fence(e, run[s].t)
  <2>1. outbox' = [outbox EXCEPT ![e] = Acked(outbox[e])]
    BY <1>1, <1>5 DEF AckRow
  <2>2. Acked(outbox[e]) \in Row
    BY <1>2, RowOperations DEF TransitionInv, Table
  <2>3. \A f \in Event : f # e => outbox'[f] = outbox[f]
    BY <2>1 DEF TransitionInv, Table
  <2>4. Table' /\ Version' = Version
    BY <1>1, <1>2, <2>1, <2>2 DEF TransitionInv, Table, Version
  <2>5. e \in Nat /\ Version \in Nat
    BY <1>2, StoreAssumption DEF TransitionInv, Numbered
  <2>6. Numbered'
    <3>1. \A f \in Event : f > Version => f # e
      BY <1>2, <2>5, StoreAssumption
    <3> QED BY <2>3, <2>4, <3>1 DEF TransitionInv, Numbered
  <2>7. Waiting'
    <3>1. e # Version
      BY <1>2, <2>5
    <3> HIDE DEF e
    <3> QED BY <1>1, <2>3, <2>4, <3>1 DEF TransitionInv, Waiting
  <2>8. Receipted'
    BY <1>1, <1>3, <2>4 DEF TransitionInv, Receipted, Runs
  <2> QED BY <1>1, <1>3, <2>4, <2>6, <2>7, <2>8 DEF TransitionInv, Runs
<1> QED BY <1>4, <1>5

(* A run that fails or is killed leaves the state as it is. *)
LEMMA EndKeeps ==
    ASSUME TransitionInv, NEW s \in Slot, FailRun(s) \/ CrashRun(s)
    PROVE  TransitionInv'
<1>1. Runs /\ UNCHANGED <<state, dueAt, receipts>>
  BY DEF FailRun, CrashRun, EndRun, Runs, TransitionInv, Receipted
<1>2. Table' /\ Same
  <2>1. CASE CrashRun(s)
    BY <2>1 DEF CrashRun, TransitionInv, Table, Same, Kin
  <2>2. CASE FailRun(s)
    <3>1. run[s].e \in Event /\ Table
      BY <2>2 DEF FailRun, TransitionInv, Receipted
    <3> QED BY <2>2, <3>1, Failures DEF FailRun
  <2> QED BY <2>1, <2>2
<1> QED BY <1>1, <1>2, RowsMove

(* Every step keeps the transition of the current version. *)
LEMMA TransitionInvStep == TransitionInv /\ [Next]_vars => TransitionInv'
<1> SUFFICES ASSUME TransitionInv, [Next]_vars
             PROVE  TransitionInv'
  OBVIOUS
<1>1. Version \in Nat
  BY DEF TransitionInv, Numbered
<1>2. Version + 1 > Version /\ Version + 1 \in Int /\ Version + 2 > Version /\ Version + 2 \in Int
  BY <1>1
<1>3. ASSUME NEW to \in Playlist, AssignPlaylist(to)
      PROVE  TransitionInv'
  BY <1>2, <1>3, Commands DEF AssignPlaylist
<1>4. ASSUME NEW action \in Action, NEW to \in Playlist, Execute(action, to)
      PROVE  TransitionInv'
  <2>1. PICK a : Persist(Persisted(Version + 1, to, a), HeardAfter(action, to, Now))
    BY <1>4 DEF Execute
  <2> QED BY <1>2, <1>4, <2>1, Commands DEF Execute
<1>5. ASSUME NEW r \in Revision \cup {Null}, AssignOnly(r)
      PROVE  TransitionInv'
  <2>1. CASE Playing(state)
    BY <1>2, <1>5, <2>1, Commands DEF AssignOnly, StopIfPlaying, Stopped
  <2>2. CASE ~Playing(state)
    BY <1>5, <2>2, Untouched DEF AssignOnly, StopIfPlaying, jobVars
  <2> QED BY <2>1, <2>2
<1>6. CASE (\E r \in Revision : SetDesiredRevision(r)) \/ Toggle \/ Tick
  BY <1>6, Untouched DEF SetDesiredRevision, Toggle, Tick, rowVars, jobVars
<1>7. CASE SetBack
  BY <1>7, SetBackKeeps
<1>8. CASE BuryExhausted
  BY <1>8, Burials, OtherSteps DEF BuryExhausted, jobVars, TransitionInv
<1>9. ASSUME NEW e \in Event, RowStep(e)
      PROVE  TransitionInv'
  BY <1>9, Deadlines, OtherSteps DEF RowStep, jobVars, TransitionInv
<1>10. ASSUME NEW s \in Slot, WorkerStep(s)
       PROVE  TransitionInv'
  BY <1>10, StartKeeps, SkipKeeps, AdvanceKeeps, AckKeeps, EndKeeps DEF WorkerStep
<1>11. CASE UNCHANGED vars
  BY <1>11, Untouched DEF vars, rowVars, jobVars
<1> QED BY <1>3, <1>4, <1>5, <1>6, <1>7, <1>8, <1>9, <1>10, <1>11 DEF Next

(* At first there is neither a version nor a row. *)
LEMMA TransitionInvInit == Init => TransitionInv
<1> SUFFICES ASSUME Init
             PROVE  TransitionInv
  OBVIOUS
<1>1. Table /\ \A e \in Event : outbox[e].status = "absent"
  BY DEF Init, StoreInit, Table, Row, NoRow, Status
<1>2. Version = 0 /\ state.next = Null
  BY DEF Init, NoState, Version
<1>3. dueAt \in [Event -> Time]
  BY MachineAssumption DEF Init, Time
<1>4. /\ run \in [Slot -> [e : Event, t : Nat, n : Nat, done : BOOLEAN] \cup {Null}]
      /\ \A s \in Slot : run[s] = Null
      /\ receipts = {}
  BY DEF Init
<1> QED BY <1>1, <1>2, <1>3, <1>4 DEF TransitionInv, Numbered, Waiting, Receipted

(* The transition that ends the current version is never settled, superseded  *)
(* or handled by anything but itself (advanceDue, persist).                   *)
THEOREM TransitionSafe == Safe => []TransitionKept
<1>1. TransitionInv => TransitionKept
  BY DEF TransitionInv, Waiting, Receipted, Numbered, TransitionKept, Version
<1> QED BY <1>1, TransitionInvInit, TransitionInvStep, PTL DEF Safe

-----------------------------------------------------------------------------
(* Positions: induction over numbers, and remainders.                         *)

(* A set of numbers that is not empty has a least one. *)
LEMMA Least ==
    ASSUME NEW T, T \subseteq Nat, T # {}
    PROVE  \E x \in T : \A y \in T : x <= y
<1>. DEFINE R == OpToRel(<, Nat)
<1>1. IsWellFoundedOn(R, Nat)
  BY NatLessThanWellFounded
<1>2. ASSUME NEW x \in Nat, NEW y \in Nat, ~(<<y, x>> \in R)
      PROVE  x <= y
  <2>1. <<y, x>> \in Nat \X Nat /\ <<y, x>>[1] = y /\ <<y, x>>[2] = x
    OBVIOUS
  <2>2. ~(y < x)
    BY <1>2, <2>1 DEF OpToRel
  <2> QED
    BY <2>2
<1>. HIDE DEF R
<1>3. \E x \in T : \A y \in T : ~(<<y, x>> \in R)
  BY <1>1, WFMin
<1> QED
  BY <1>2, <1>3

(* Induction, for sets of numbers. *)
LEMMA Induct ==
    ASSUME NEW S, 0 \in S, \A n \in Nat : n \in S => n + 1 \in S
    PROVE  Nat \subseteq S
<1>. DEFINE T == Nat \ S
<1>. SUFFICES ASSUME T # {} PROVE FALSE
  OBVIOUS
<1>1. PICK x \in T : \A y \in T : x <= y
  <2>1. T \subseteq Nat
    OBVIOUS
  <2>. HIDE DEF T
  <2> QED
    BY <2>1, Least
<1>2. x - 1 \in Nat /\ x - 1 \notin T
  BY <1>1
<1> QED
  BY <1>1, <1>2

-----------------------------------------------------------------------------
(* How long the k-th entry from the i-th on is shown. *)
DurationAt(list, i, k) == list[After(list, i, k)].duration

(* The entries of a playlist and their durations. *)
LEMMA ListFacts ==
    ASSUME NEW list \in Playlist
    PROVE  /\ Len(list) \in Nat /\ DOMAIN list = 1 .. Len(list)
           /\ \A j \in 1 .. Len(list) :
                 /\ list[j] \in Entry
                 /\ list[j].duration \in (Nat \ {0}) \cup {Null}
                 /\ list[j].duration \in Nat \ {0} <=> list[j].duration # Null
<1>1. list \in Seq(Entry)
  BY MachineAssumption
<1>2. Null \notin Nat
  BY MachineAssumption
<1>3. Len(list) \in Nat /\ DOMAIN list = 1 .. Len(list) /\ \A j \in 1 .. Len(list) : list[j] \in Entry
  BY <1>1
<1> QED
  BY <1>2, <1>3 DEF Entry

(* At most one turn of the list from an entry on. *)
LEMMA AfterIs ==
    ASSUME NEW list \in Playlist, NEW i \in 1 .. Len(list), NEW k \in 0 .. Len(list)
    PROVE  /\ After(list, i, k) = IF i + k <= Len(list) THEN i + k ELSE i + k - Len(list)
           /\ After(list, i, k) \in 1 .. Len(list)
<1> DEFINE n == Len(list)
           x == i - 1 + k
<1>1. n \in Nat \ {0} /\ i \in 1 .. n /\ k \in 0 .. n
  BY ListFacts
<1> HIDE DEF n
<1>2. x \in Nat /\ x < 2 * n
  BY <1>1
<1>3. x % n = IF x < n THEN x ELSE x - n
  <2> HIDE DEF x
  <2>1. CASE x < n
    BY <1>1, <1>2, <2>1
  <2>2. CASE ~(x < n)
    BY <1>1, <1>2, <2>2
  <2> QED BY <2>1, <2>2
<1>4. After(list, i, k) = (x % n) + 1
  BY DEF After, n
<1>5. After(list, i, k) = IF i + k <= n THEN i + k ELSE i + k - n
  BY <1>1, <1>3, <1>4
<1>6. After(list, i, k) \in 1 .. n
  BY <1>1, <1>5
<1> QED
  BY <1>5, <1>6 DEF n

(* How a sum of durations is built up. *)
LEMMA LastingIs ==
    ASSUME NEW list \in Playlist, NEW i \in 1 .. Len(list)
    PROVE  /\ Lasting(list, i)[0] = 0
           /\ \A k \in 0 .. Len(list) - 1 :
                 Lasting(list, i)[k + 1] = Lasting(list, i)[k] + DurationAt(list, i, k)
<1> DEFINE n == Len(list)
           F(f, m) == [k \in 0 .. m |->
                          IF k = 0 THEN 0 ELSE f[k - 1] + list[After(list, i, k - 1)].duration]
           S == {m \in Nat : \E f : f = F(f, m)}
<1>1. n \in Nat
  BY ListFacts
<1>2. 0 \in S
  <2>1. [k \in 0 .. 0 |-> 0] = F([k \in 0 .. 0 |-> 0], 0)
    OBVIOUS
  <2> QED BY <2>1
<1>3. ASSUME NEW m \in Nat, m \in S
      PROVE  m + 1 \in S
  <2>1. PICK f : f = F(f, m)
    BY <1>3
  <2> DEFINE e == f[m] + list[After(list, i, m)].duration
             g == [k \in 0 .. m + 1 |-> IF k = m + 1 THEN e ELSE f[k]]
  <2>2. ASSUME NEW k \in 0 .. m + 1
        PROVE  g[k] = IF k = 0 THEN 0 ELSE g[k - 1] + list[After(list, i, k - 1)].duration
    <3>1. CASE k = m + 1
      <4>1. k - 1 = m /\ k # 0 /\ m \in 0 .. m + 1 /\ m # m + 1
        BY <3>1
      <4>2. g[k] = e /\ g[m] = f[m]
        BY <3>1, <4>1
      <4> HIDE DEF g
      <4> QED BY <4>1, <4>2
    <3>2. CASE k # m + 1
      <4>1. k \in 0 .. m /\ (k # 0 => k - 1 \in 0 .. m + 1 /\ k - 1 # m + 1)
        BY <3>2
      <4>2. g[k] = f[k] /\ (k # 0 => g[k - 1] = f[k - 1])
        BY <3>2, <4>1
      <4> HIDE DEF g
      <4>3. f[k] = IF k = 0 THEN 0 ELSE f[k - 1] + list[After(list, i, k - 1)].duration
        BY <2>1, <4>1
      <4> QED BY <4>2, <4>3
    <3> QED BY <3>1, <3>2
  <2>3. g = F(g, m + 1)
    <3>1. g = [k \in 0 .. m + 1 |-> g[k]]
      OBVIOUS
    <3> HIDE DEF g
    <3> QED BY <2>2, <3>1
  <2>4. \E h : h = F(h, m + 1)
    <3> HIDE DEF F, g
    <3> QED BY <2>3
  <2>5. m + 1 \in Nat
    OBVIOUS
  <2> HIDE DEF F
  <2> QED BY <2>4, <2>5
<1>4. n \in S
  <2> HIDE DEF S
  <2>1. \A m \in Nat : m \in S => m + 1 \in S
    BY <1>3
  <2>2. Nat \subseteq S
    BY <1>2, <2>1, Induct
  <2> QED BY <1>1, <2>2
<1>5. Lasting(list, i) = CHOOSE f : f = F(f, n)
  BY DEF Lasting
<1>6. Lasting(list, i) = F(Lasting(list, i), n)
  <2>1. \E f : f = F(f, n)
    BY <1>4
  <2> HIDE DEF F
  <2> QED BY <1>5, <2>1
<1>7. Lasting(list, i)[0] = 0
  BY <1>1, <1>6
<1>8. ASSUME NEW k \in 0 .. n - 1
      PROVE  Lasting(list, i)[k + 1] = Lasting(list, i)[k] + list[After(list, i, k)].duration
  <2>1. k + 1 \in 0 .. n /\ k + 1 # 0 /\ (k + 1) - 1 = k
    BY <1>1
  <2> DEFINE L == Lasting(list, i)
  <2>2. L[k + 1] = IF k + 1 = 0 THEN 0 ELSE L[(k + 1) - 1] + list[After(list, i, (k + 1) - 1)].duration
    <3>1. L = F(L, n)
      BY <1>6
    <3> HIDE DEF L
    <3> QED BY <2>1, <3>1
  <2> HIDE DEF L
  <2>3. L[k + 1] = L[k] + list[After(list, i, k)].duration
    BY <2>1, <2>2
  <2> QED BY <2>3 DEF L
<1> QED
  BY <1>7, <1>8 DEF DurationAt

(* Up to the k-th entry from the i-th on every one has a duration. *)
Timed(list, i, k) == \A j \in 0 .. k - 1 : DurationAt(list, i, j) # Null

(* A duration is a positive number, or Null. *)
LEMMA DurationIs ==
    ASSUME NEW list \in Playlist, NEW i \in 1 .. Len(list), NEW k \in 0 .. Len(list)
    PROVE  /\ DurationAt(list, i, k) \in (Nat \ {0}) \cup {Null}
           /\ DurationAt(list, i, k) # Null <=> DurationAt(list, i, k) \in Nat \ {0}
BY AfterIs, ListFacts DEF DurationAt

(* Entries that all have a duration take a time together. *)
LEMMA LastingNat ==
    ASSUME NEW list \in Playlist, NEW i \in 1 .. Len(list), NEW k \in 0 .. Len(list),
           Timed(list, i, k)
    PROVE  Lasting(list, i)[k] \in Nat
<1> DEFINE n == Len(list)
           L == Lasting(list, i)
           S == {m \in Nat : m <= n /\ Timed(list, i, m) => L[m] \in Nat}
<1>1. n \in Nat /\ k \in 0 .. n
  BY ListFacts
<1>2. L[0] = 0 /\ \A m \in 0 .. n - 1 : L[m + 1] = L[m] + DurationAt(list, i, m)
  BY LastingIs
<1> HIDE DEF L
<1>3. ASSUME NEW m \in Nat, m \in S, m + 1 <= n, Timed(list, i, m + 1)
      PROVE  L[m + 1] \in Nat
  <2>1. m \in 0 .. n - 1 /\ m \in 0 .. n /\ m <= n
    BY <1>1, <1>3
  <2>2. Timed(list, i, m) /\ DurationAt(list, i, m) # Null
    BY <1>3 DEF Timed
  <2>3. L[m] \in Nat
    BY <1>3, <2>1, <2>2
  <2>4. DurationAt(list, i, m) \in Nat \ {0}
    BY <2>1, <2>2, DurationIs
  <2>5. L[m + 1] = L[m] + DurationAt(list, i, m)
    BY <1>2, <2>1
  <2> QED BY <2>3, <2>4, <2>5
<1>4. 0 \in S
  BY <1>2
<1>5. \A m \in Nat : m \in S => m + 1 \in S
  BY <1>3
<1>6. k \in S
  <2> HIDE DEF S
  <2> QED BY <1>1, <1>4, <1>5, Induct
<1> QED
  BY <1>1, <1>6 DEF L

(* More entries take longer. *)
LEMMA LastingGrows ==
    ASSUME NEW list \in Playlist, NEW i \in 1 .. Len(list),
           NEW j \in 0 .. Len(list), NEW k \in 0 .. Len(list), j < k,
           Timed(list, i, k)
    PROVE  Lasting(list, i)[j] < Lasting(list, i)[k]
<1> DEFINE n == Len(list)
           L == Lasting(list, i)
           S == {m \in Nat : j < m /\ m <= n /\ Timed(list, i, m) => L[j] < L[m]}
<1>1. n \in Nat /\ k \in 0 .. n /\ j \in 0 .. n
  BY ListFacts
<1>2. \A m \in 0 .. n - 1 : L[m + 1] = L[m] + DurationAt(list, i, m)
  BY LastingIs
<1>3. \A m \in 0 .. n : Timed(list, i, m) => L[m] \in Nat
  BY LastingNat
<1> HIDE DEF L
<1>4. ASSUME NEW m \in Nat, m \in S, j < m + 1, m + 1 <= n, Timed(list, i, m + 1)
      PROVE  L[j] < L[m + 1]
  <2>1. m \in 0 .. n - 1 /\ m \in 0 .. n
    BY <1>1, <1>4
  <2>2. Timed(list, i, m) /\ DurationAt(list, i, m) # Null
    BY <1>4 DEF Timed
  <2>3. L[m] \in Nat /\ DurationAt(list, i, m) \in Nat \ {0}
    BY <1>3, <2>1, <2>2, DurationIs
  <2>4. L[m] < L[m + 1]
    BY <1>2, <2>1, <2>3
  <2>5. CASE j = m
    BY <2>4, <2>5
  <2>6. CASE j < m
    <3>1. L[j] < L[m]
      BY <1>4, <2>1, <2>2, <2>6
    <3>2. Timed(list, i, j)
      BY <1>1, <2>1, <2>2, <2>6 DEF Timed
    <3>3. L[j] \in Nat /\ L[m + 1] \in Nat
      BY <1>1, <1>2, <1>3, <2>1, <2>3, <3>2
    <3> QED BY <2>3, <2>4, <3>1, <3>3
  <2> QED BY <1>1, <1>4, <2>5, <2>6
<1>5. 0 \in S
  BY <1>1
<1>6. \A m \in Nat : m \in S => m + 1 \in S
  BY <1>4
<1>7. k \in S
  <2> HIDE DEF S
  <2> QED BY <1>1, <1>5, <1>6, Induct
<1> QED
  BY <1>1, <1>7 DEF L

(* A whole cycle takes the same time from every entry on. *)
LEMMA CycleFromNext ==
    ASSUME NEW list \in Playlist, ~Endless(list), NEW i \in 1 .. Len(list) - 1
    PROVE  Lasting(list, i + 1)[Len(list)] = Lasting(list, i)[Len(list)]
<1> DEFINE n == Len(list)
           L == Lasting(list, i)
           M == Lasting(list, i + 1)
           d == DurationAt(list, i, 0)
           S == {m \in Nat : m <= n - 1 => M[m] = L[m + 1] - d}
<1>1. n \in Nat /\ i \in 1 .. n /\ i + 1 \in 1 .. n /\ n > 1
  BY ListFacts
<1>2. /\ L[0] = 0 /\ M[0] = 0
      /\ \A m \in 0 .. n - 1 : L[m + 1] = L[m] + DurationAt(list, i, m)
      /\ \A m \in 0 .. n - 1 : M[m + 1] = M[m] + DurationAt(list, i + 1, m)
  BY <1>1, LastingIs
<1>3. \A k \in 1 .. n, m \in 0 .. n : DurationAt(list, k, m) \in Nat \ {0}
  <2> TAKE k \in 1 .. n, m \in 0 .. n
  <2>1. After(list, k, m) \in 1 .. n
    BY AfterIs
  <2> QED BY <2>1, ListFacts DEF Endless, DurationAt
<1>4. \A m \in 0 .. n : L[m] \in Nat /\ M[m] \in Nat
  <2> TAKE m \in 0 .. n
  <2>1. Timed(list, i, m) /\ Timed(list, i + 1, m)
    BY <1>1, <1>3, MachineAssumption DEF Timed
  <2> QED BY <1>1, <2>1, LastingNat
<1>5. d \in Nat \ {0}
  BY <1>1, <1>3
<1> HIDE DEF L, M, d
<1>6. 0 \in S
  <2>1. 0 \in 0 .. n - 1 /\ 0 + 1 = 1
    BY <1>1
  <2>2. L[0 + 1] = L[0] + d
    BY <1>2, <2>1 DEF d
  <2>3. M[0] = L[0 + 1] - d
    BY <1>2, <1>5, <2>2
  <2> QED BY <2>3
<1>7. ASSUME NEW m \in Nat, m \in S, m + 1 <= n - 1
      PROVE  M[m + 1] = L[(m + 1) + 1] - d
  <2>1. m \in 0 .. n - 1 /\ m + 1 \in 0 .. n - 1 /\ m \in 0 .. n /\ m + 1 \in 0 .. n
    BY <1>1, <1>7
  <2>2. DurationAt(list, i + 1, m) = DurationAt(list, i, m + 1)
    <3>1. /\ After(list, i + 1, m) =
                 IF (i + 1) + m <= n THEN (i + 1) + m ELSE (i + 1) + m - n
          /\ After(list, i, m + 1) =
                 IF i + (m + 1) <= n THEN i + (m + 1) ELSE i + (m + 1) - n
      BY <1>1, <2>1, AfterIs
    <3>2. After(list, i + 1, m) = After(list, i, m + 1)
      BY <1>1, <2>1, <3>1
    <3> QED BY <3>2 DEF DurationAt
  <2>3. M[m] = L[m + 1] - d
    BY <1>7
  <2>4. M[m + 1] = M[m] + DurationAt(list, i + 1, m)
    BY <1>2, <2>1
  <2>5. L[(m + 1) + 1] = L[m + 1] + DurationAt(list, i, m + 1)
    BY <1>2, <2>1
  <2>6. DurationAt(list, i, m + 1) \in Nat /\ L[m + 1] \in Nat
    BY <1>1, <1>3, <1>4, <2>1
  <2> QED BY <1>5, <2>2, <2>3, <2>4, <2>5, <2>6
<1>8. n - 1 \in S
  <2>1. \A m \in Nat : m \in S => m + 1 \in S
    BY <1>7
  <2>2. n - 1 \in Nat
    BY <1>1
  <2> HIDE DEF S
  <2> QED BY <1>6, <2>1, <2>2, Induct
<1>9. M[n - 1] = L[n] - d
  BY <1>1, <1>8
<1>10. M[n] = M[n - 1] + d
  <2>1. After(list, i + 1, n - 1) = After(list, i, 0)
    <3>1. n - 1 \in 0 .. n /\ 0 \in 0 .. n
      BY <1>1
    <3>2. /\ After(list, i + 1, n - 1) =
                 IF (i + 1) + (n - 1) <= n THEN (i + 1) + (n - 1) ELSE (i + 1) + (n - 1) - n
          /\ After(list, i, 0) = IF i + 0 <= n THEN i + 0 ELSE i + 0 - n
      BY <1>1, <3>1, AfterIs
    <3> QED BY <1>1, <3>2
  <2>2. n - 1 \in 0 .. n - 1 /\ (n - 1) + 1 = n
    BY <1>1
  <2> QED BY <1>2, <2>1, <2>2 DEF d, DurationAt
<1>11. L[n] \in Nat /\ M[n - 1] \in Nat
  BY <1>1, <1>4
<1> QED
  BY <1>5, <1>9, <1>10, <1>11 DEF L, M

(* ... and so from any entry on as from the first. *)
LEMMA CycleFromAny ==
    ASSUME NEW list \in Playlist, ~Endless(list), NEW i \in 1 .. Len(list)
    PROVE  Lasting(list, i)[Len(list)] = Lasting(list, 1)[Len(list)]
<1> DEFINE n == Len(list)
           S == {m \in Nat : m + 1 <= n => Lasting(list, m + 1)[n] = Lasting(list, 1)[n]}
<1>1. n \in Nat /\ i \in 1 .. n
  BY ListFacts
<1>2. 0 \in S
  OBVIOUS
<1>3. ASSUME NEW m \in Nat, m \in S, (m + 1) + 1 <= n
      PROVE  Lasting(list, (m + 1) + 1)[n] = Lasting(list, 1)[n]
  <2>1. m + 1 \in 1 .. n - 1 /\ m + 1 <= n
    BY <1>1, <1>3
  <2>2. Lasting(list, (m + 1) + 1)[n] = Lasting(list, m + 1)[n]
    BY <2>1, CycleFromNext
  <2> QED BY <1>3, <2>1, <2>2
<1>4. i - 1 \in S
  <2>1. \A m \in Nat : m \in S => m + 1 \in S
    BY <1>3
  <2>2. i - 1 \in Nat
    BY <1>1
  <2> HIDE DEF S
  <2> QED BY <1>2, <2>1, <2>2, Induct
<1>5. (i - 1) + 1 = i
  BY <1>1
<1> QED
  BY <1>1, <1>4, <1>5

(* The next number begins anew when the rest is full. *)
LEMMA ModNext ==
    ASSUME NEW x \in Nat, NEW d \in Nat \ {0}
    PROVE  (x + 1) % d = IF (x % d) + 1 = d THEN 0 ELSE (x % d) + 1
<1> DEFINE q == x \div d
           r == x % d
           p == (x + 1) \div d
           s == (x + 1) % d
           m == p - q
<1>1. q \in Int /\ r \in Int /\ p \in Int /\ s \in Int /\ 0 <= r /\ r < d /\ 0 <= s /\ s < d
  OBVIOUS
<1>2. x = d * q + r
  OBVIOUS
<1>3. x + 1 = d * p + s
  OBVIOUS
<1> HIDE DEF q, r, p, s
<1>4. m \in Int /\ d * m = d * p - d * q
  BY <1>1
<1>5. d * p \in Int /\ d * q \in Int
  BY <1>1
<1>6. d * m = 1 + r - s
  BY <1>1, <1>2, <1>3, <1>4, <1>5
<1> HIDE DEF m
<1>7. m < 0 => d * m <= 0 - d
  BY <1>4
<1>8. m > 1 => d * m >= d + d
  BY <1>4
<1>9. m = 0 \/ m = 1
  BY <1>1, <1>4, <1>6, <1>7, <1>8
<1>10. s = IF r + 1 = d THEN 0 ELSE r + 1
  BY <1>1, <1>4, <1>6, <1>9
<1> QED
  BY <1>10 DEF r, s

-----------------------------------------------------------------------------
(* k entries from the i-th on are passed after y, and no more. *)
Fits(list, i, y, k) ==
    /\ k \in 0 .. Len(list) - 1
    /\ Timed(list, i, k)
    /\ \A j \in 0 .. k - 1 : Lasting(list, i)[j + 1] <= y
    /\ DurationAt(list, i, k) = Null \/ y < Lasting(list, i)[k + 1]

Cycle(list) == Lasting(list, 1)[Len(list)]

(* What Passed chooses is the number of entries that fit. *)
LEMMA PassedIs ==
    ASSUME NEW list \in Playlist, NEW i \in 1 .. Len(list), NEW y \in Nat, NEW k,
           Fits(list, i, y, k)
    PROVE  Passed(list, i, y) = k
<1> DEFINE n == Len(list)
           P(m) == Stays(list, i, y, m) /\ \A j \in 0 .. m - 1 : ~Stays(list, i, y, j)
<1>1. n \in Nat /\ k \in 0 .. n - 1 /\ k \in 0 .. n
  BY ListFacts DEF Fits
<1>2. Stays(list, i, y, k)
  BY DEF Fits, Stays, DurationAt
<1>3. ASSUME NEW j \in 0 .. k - 1
      PROVE  ~Stays(list, i, y, j)
  <2>1. j # n /\ j + 1 \in 0 .. n
    BY <1>1
  <2>2. DurationAt(list, i, j) # Null
    BY DEF Fits, Timed
  <2>3. Timed(list, i, j + 1)
    BY <1>1 DEF Fits, Timed
  <2>4. Lasting(list, i)[j + 1] \in Nat
    BY <2>1, <2>3, LastingNat
  <2>5. Lasting(list, i)[j + 1] <= y
    BY DEF Fits
  <2> QED BY <2>1, <2>2, <2>4, <2>5 DEF Stays, DurationAt
<1>4. ASSUME NEW m \in 0 .. n, P(m)
      PROVE  m = k
  <2>1. ~(m < k)
    <3> SUFFICES ASSUME m < k PROVE FALSE
      OBVIOUS
    <3>1. m \in 0 .. k - 1
      BY <1>1
    <3> QED BY <1>3, <1>4, <3>1
  <2>2. ~(k < m)
    <3> SUFFICES ASSUME k < m PROVE FALSE
      OBVIOUS
    <3>1. k \in 0 .. m - 1
      BY <1>1
    <3> QED BY <1>2, <1>4, <3>1
  <2> QED BY <1>1, <2>1, <2>2
<1>5. Passed(list, i, y) = CHOOSE m \in 0 .. n : P(m)
  BY DEF Passed
<1>6. P(k)
  BY <1>2, <1>3
<1> HIDE DEF P
<1> QED BY <1>1, <1>4, <1>5, <1>6

(* Every entry comes in a turn of the list. *)
LEMMA AfterCovers ==
    ASSUME NEW list \in Playlist, NEW i \in 1 .. Len(list), NEW j \in 1 .. Len(list)
    PROVE  \E k \in 0 .. Len(list) - 1 : After(list, i, k) = j
<1> DEFINE n == Len(list)
           k == IF j >= i THEN j - i ELSE j - i + n
<1>1. n \in Nat /\ i \in 1 .. n /\ j \in 1 .. n
  BY ListFacts
<1>2. k \in 0 .. n - 1 /\ k \in 0 .. n
  BY <1>1
<1>3. After(list, i, k) = IF i + k <= n THEN i + k ELSE i + k - n
  <2> HIDE DEF k
  <2> QED BY <1>2, AfterIs
<1>4. After(list, i, k) = j
  <2>1. CASE j >= i
    BY <1>1, <1>3, <2>1
  <2>2. CASE ~(j >= i)
    BY <1>1, <1>3, <2>2
  <2> QED BY <2>1, <2>2
<1> QED BY <1>2, <1>4

(* A turn has an entry without a duration exactly when the list has one. *)
LEMMA TimedAll ==
    ASSUME NEW list \in Playlist, NEW i \in 1 .. Len(list)
    PROVE  Timed(list, i, Len(list)) <=> ~Endless(list)
<1>1. ASSUME Timed(list, i, Len(list)), NEW j \in 1 .. Len(list)
      PROVE  list[j].duration # Null
  <2>1. PICK k \in 0 .. Len(list) - 1 : After(list, i, k) = j
    BY AfterCovers
  <2> QED BY <1>1, <2>1 DEF Timed, DurationAt
<1>2. ASSUME ~Endless(list)
      PROVE  Timed(list, i, Len(list))
  <2> SUFFICES ASSUME NEW j \in 0 .. Len(list) - 1
               PROVE  DurationAt(list, i, j) # Null
    BY DEF Timed
  <2>1. j \in 0 .. Len(list)
    BY ListFacts
  <2>2. After(list, i, j) \in 1 .. Len(list)
    BY <2>1, AfterIs
  <2> QED BY <1>2, <2>2, ListFacts DEF Endless, DurationAt
<1> QED BY <1>1, <1>2, ListFacts DEF Endless

(* A cycle takes some time. *)
LEMMA CycleIs ==
    ASSUME NEW list \in Playlist, ~Endless(list), NEW i \in 1 .. Len(list)
    PROVE  Cycle(list) \in Nat \ {0} /\ Lasting(list, i)[Len(list)] = Cycle(list)
<1>1. Len(list) \in Nat \ {0} /\ 1 \in 1 .. Len(list) /\ 0 \in 0 .. Len(list)
      /\ Len(list) \in 0 .. Len(list)
  BY ListFacts
<1>2. Timed(list, 1, Len(list))
  BY <1>1, TimedAll
<1>3. Lasting(list, 1)[0] < Lasting(list, 1)[Len(list)]
  BY <1>1, <1>2, LastingGrows
<1>4. Lasting(list, 1)[Len(list)] \in Nat /\ Lasting(list, 1)[0] = 0
  BY <1>1, <1>2, LastingNat, LastingIs
<1> QED BY <1>3, <1>4, CycleFromAny DEF Cycle

(* What has been passed has been shown, and the next sum is at hand. *)
LEMMA FitsFacts ==
    ASSUME NEW list \in Playlist, NEW i \in 1 .. Len(list), NEW y \in Nat, NEW k,
           Fits(list, i, y, k)
    PROVE  /\ Lasting(list, i)[k] \in Nat /\ Lasting(list, i)[k] <= y
           /\ DurationAt(list, i, k) # Null =>
                 /\ DurationAt(list, i, k) \in Nat \ {0}
                 /\ Timed(list, i, k + 1)
                 /\ Lasting(list, i)[k + 1] = Lasting(list, i)[k] + DurationAt(list, i, k)
                 /\ Lasting(list, i)[k + 1] \in Nat
                 /\ y < Lasting(list, i)[k + 1]
<1>1. Len(list) \in Nat /\ k \in 0 .. Len(list) - 1 /\ k \in 0 .. Len(list) /\ Timed(list, i, k)
  BY ListFacts DEF Fits
<1>2. Lasting(list, i)[k] \in Nat
  BY <1>1, LastingNat
<1>3. Lasting(list, i)[k] <= y
  <2>1. CASE k = 0
    BY <2>1, LastingIs
  <2>2. CASE k # 0
    <3>1. k - 1 \in 0 .. k - 1 /\ (k - 1) + 1 = k
      BY <1>1, <2>2
    <3> QED BY <3>1 DEF Fits
  <2> QED BY <2>1, <2>2
<1>4. Lasting(list, i)[k + 1] = Lasting(list, i)[k] + DurationAt(list, i, k)
  BY <1>1, LastingIs
<1>5. ASSUME DurationAt(list, i, k) # Null
      PROVE  /\ DurationAt(list, i, k) \in Nat \ {0}
             /\ Timed(list, i, k + 1)
             /\ Lasting(list, i)[k + 1] \in Nat
             /\ y < Lasting(list, i)[k + 1]
  <2>1. DurationAt(list, i, k) \in Nat \ {0}
    BY <1>1, <1>5, DurationIs
  <2>2. Timed(list, i, k + 1)
    BY <1>1, <1>5 DEF Timed
  <2>3. y < Lasting(list, i)[k + 1]
    BY <1>5 DEF Fits
  <2> QED BY <1>2, <1>4, <2>1, <2>2, <2>3
<1> QED BY <1>2, <1>3, <1>4, <1>5

(* At the beginning no entry is passed. *)
LEMMA FitsZero ==
    ASSUME NEW list \in Playlist, NEW i \in 1 .. Len(list)
    PROVE  Fits(list, i, 0, 0)
<1>1. Len(list) \in Nat \ {0} /\ 0 \in 0 .. Len(list) - 1 /\ 0 \in 0 .. Len(list)
  BY ListFacts
<1>2. DurationAt(list, i, 0) = Null \/ DurationAt(list, i, 0) \in Nat \ {0}
  BY <1>1, DurationIs
<1>3. Lasting(list, i)[0 + 1] = 0 + DurationAt(list, i, 0)
  BY <1>1, LastingIs
<1>4. DurationAt(list, i, 0) = Null \/ 0 < Lasting(list, i)[0 + 1]
  BY <1>2, <1>3
<1> QED BY <1>1, <1>4 DEF Fits, Timed

(* A unit of time later, in the same cycle. *)
LEMMA FitsNext ==
    ASSUME NEW list \in Playlist, NEW i \in 1 .. Len(list), NEW y \in Nat, NEW k,
           Fits(list, i, y, k),
           Endless(list) \/ y + 1 < Cycle(list)
    PROVE  IF DurationAt(list, i, k) # Null /\ y + 1 = Lasting(list, i)[k + 1]
           THEN k + 1 \in 0 .. Len(list) - 1 /\ Fits(list, i, y + 1, k + 1)
           ELSE Fits(list, i, y + 1, k)
<1> DEFINE n == Len(list)
           L == Lasting(list, i)
<1>1. n \in Nat /\ k \in 0 .. n - 1 /\ k \in 0 .. n /\ Timed(list, i, k)
  BY ListFacts DEF Fits
<1>2. \A j \in 0 .. k - 1 : L[j + 1] \in Nat /\ L[j + 1] <= y + 1
  <2> TAKE j \in 0 .. k - 1
  <2>1. j + 1 \in 0 .. n /\ Timed(list, i, j + 1)
    BY <1>1 DEF Timed
  <2>2. L[j + 1] \in Nat
    BY <2>1, LastingNat
  <2>3. L[j + 1] <= y
    BY DEF Fits
  <2> QED BY <2>2, <2>3
<1>3. CASE DurationAt(list, i, k) # Null /\ y + 1 = L[k + 1]
  <2>1. /\ Timed(list, i, k + 1)
        /\ L[k + 1] \in Nat
    BY <1>3, FitsFacts
  <2>2. k + 1 # n
    <3> SUFFICES ASSUME k + 1 = n PROVE FALSE
      OBVIOUS
    <3>1. ~Endless(list)
      BY <2>1, TimedAll
    <3>2. y + 1 = Cycle(list)
      BY <1>3, <3>1, CycleIs
    <3>3. Cycle(list) \in Nat
      BY <3>1, CycleIs
    <3> QED BY <3>1, <3>2, <3>3
  <2>3. k + 1 \in 0 .. n - 1 /\ k + 1 \in 0 .. n
    BY <1>1, <2>2
  <2>4. \A j \in 0 .. (k + 1) - 1 : L[j + 1] <= y + 1
    <3> TAKE j \in 0 .. (k + 1) - 1
    <3>1. j = k \/ j \in 0 .. k - 1
      BY <1>1
    <3> QED BY <1>2, <1>3, <3>1
  <2>5. DurationAt(list, i, k + 1) = Null \/ y + 1 < L[(k + 1) + 1]
    <3>1. DurationAt(list, i, k + 1) = Null \/ DurationAt(list, i, k + 1) \in Nat \ {0}
      BY <2>3, DurationIs
    <3>2. L[(k + 1) + 1] = L[k + 1] + DurationAt(list, i, k + 1)
      BY <2>3, LastingIs
    <3> HIDE DEF L
    <3> QED BY <1>3, <2>1, <3>1, <3>2
  <2> QED BY <1>3, <2>1, <2>3, <2>4, <2>5 DEF Fits
<1>4. CASE ~(DurationAt(list, i, k) # Null /\ y + 1 = L[k + 1])
  <2>1. DurationAt(list, i, k) = Null \/ y + 1 < L[k + 1]
    <3> SUFFICES ASSUME DurationAt(list, i, k) # Null
                 PROVE  y + 1 < L[k + 1]
      OBVIOUS
    <3>1. L[k + 1] \in Nat /\ y < L[k + 1]
      BY FitsFacts
    <3> HIDE DEF L
    <3> QED BY <1>4, <3>1
  <2> QED BY <1>1, <1>2, <1>4, <2>1 DEF Fits
<1> QED BY <1>3, <1>4

(* The position after x units of time, counted in the current cycle. *)
Counted(list, i, x, k) ==
    [index |-> After(list, i, k), elapsed |-> Within(list, x) - Lasting(list, i)[k]]

(* How the time within a cycle goes on. *)
LEMMA WithinIs ==
    ASSUME NEW list \in Playlist, Len(list) > 0, NEW x \in Nat
    PROVE  /\ Within(list, x) \in Nat
           /\ Within(list, 0) = 0
           /\ ~Endless(list) => Within(list, x) < Cycle(list)
           /\ Within(list, x + 1) =
                 IF ~Endless(list) /\ Within(list, x) + 1 = Cycle(list)
                 THEN 0 ELSE Within(list, x) + 1
<1>1. CASE Endless(list)
  BY <1>1 DEF Within
<1>2. CASE ~Endless(list)
  <2>1. Cycle(list) \in Nat \ {0}
    <3>1. 1 \in 1 .. Len(list)
      BY ListFacts
    <3> QED BY <1>2, <3>1, CycleIs
  <2>2. \A z : Within(list, z) = z % Cycle(list)
    BY <1>2 DEF Within, Cycle
  <2> DEFINE d == Cycle(list)
  <2>3. d \in Nat \ {0}
    BY <2>1
  <2> HIDE DEF d
  <2>4. x % d \in Nat /\ x % d < d /\ 0 % d = 0
    BY <2>3
  <2>5. (x + 1) % d = IF (x % d) + 1 = d THEN 0 ELSE (x % d) + 1
    BY <2>3, ModNext
  <2> QED BY <1>2, <2>2, <2>4, <2>5 DEF d
<1> QED BY <1>1, <1>2

(* A unit of time later, in the same cycle or the next: a step of Unit. *)
LEMMA GoesOn ==
    ASSUME NEW list \in Playlist, NEW i \in 1 .. Len(list), NEW x \in Nat, NEW k,
           Fits(list, i, Within(list, x), k)
    PROVE  \E m : /\ Fits(list, i, Within(list, x + 1), m)
                  /\ Counted(list, i, x + 1, m) = Unit(list, Counted(list, i, x, k))
<1> DEFINE n == Len(list)
           L == Lasting(list, i)
           y == Within(list, x)
           d == DurationAt(list, i, k)
           e == y - L[k]
<1>1. n \in Nat \ {0} /\ i \in 1 .. n /\ k \in 0 .. n - 1 /\ k \in 0 .. n
  BY ListFacts DEF Fits
<1>2. /\ y \in Nat
      /\ ~Endless(list) => y < Cycle(list)
      /\ Within(list, x + 1) = IF ~Endless(list) /\ y + 1 = Cycle(list) THEN 0 ELSE y + 1
  BY <1>1, WithinIs
<1>3. /\ L[k] \in Nat /\ L[k] <= y
      /\ d # Null => /\ d \in Nat \ {0}
                     /\ Timed(list, i, k + 1)
                     /\ L[k + 1] = L[k] + d
                     /\ L[k + 1] \in Nat
                     /\ y < L[k + 1]
  BY <1>2, FitsFacts
<1>4. d \in Nat <=> d # Null
  BY <1>3, MachineAssumption
<1>5. e \in Nat
  BY <1>2, <1>3
<1>6. Counted(list, i, x, k) = [index |-> After(list, i, k), elapsed |-> e]
  BY DEF Counted
<1>7. Unit(list, Counted(list, i, x, k)) =
         IF e + 1 = d THEN [index |-> After(list, After(list, i, k), 1), elapsed |-> 0]
         ELSE [index |-> After(list, i, k), elapsed |-> e + 1]
  <2> HIDE DEF e
  <2> QED BY <1>6 DEF Unit, DurationAt
<1>8. e + 1 = d <=> d # Null /\ y + 1 = L[k + 1]
  <2> HIDE DEF y, L, d
  <2> QED BY <1>2, <1>3, <1>4
<1>9. CASE Endless(list) \/ y + 1 # Cycle(list)
  <2>1. Endless(list) \/ y + 1 < Cycle(list)
    <3>1. ~Endless(list) => Cycle(list) \in Nat
      BY CycleIs
    <3> HIDE DEF y
    <3> QED BY <1>2, <1>9, <3>1
  <2>2. Within(list, x + 1) = y + 1
    BY <1>2, <1>9
  <2>3. IF d # Null /\ y + 1 = L[k + 1]
        THEN k + 1 \in 0 .. n - 1 /\ Fits(list, i, y + 1, k + 1)
        ELSE Fits(list, i, y + 1, k)
    BY <1>2, <2>1, FitsNext
  <2>4. CASE e + 1 = d
    <3>1. k + 1 \in 0 .. n - 1 /\ Fits(list, i, y + 1, k + 1) /\ y + 1 = L[k + 1]
      BY <1>8, <2>3, <2>4
    <3>2. After(list, i, k + 1) = After(list, After(list, i, k), 1)
      <4>1. /\ k + 1 \in 0 .. n /\ 1 \in 0 .. n
            /\ After(list, i, k) = IF i + k <= n THEN i + k ELSE i + k - n
            /\ After(list, i, k) \in 1 .. n
        BY <1>1, <3>1, AfterIs
      <4> DEFINE j == After(list, i, k)
      <4>2. After(list, i, k + 1) = IF i + (k + 1) <= n THEN i + (k + 1) ELSE i + (k + 1) - n
        BY <4>1, AfterIs
      <4>3. After(list, j, 1) = IF j + 1 <= n THEN j + 1 ELSE j + 1 - n
        <5>1. j \in 1 .. n
          BY <4>1
        <5> HIDE DEF j
        <5> QED BY <4>1, <5>1, AfterIs
      <4> QED BY <1>1, <4>1, <4>2, <4>3
    <3>3. (y + 1) - L[k + 1] = 0
      BY <1>2, <3>1
    <3>4. Counted(list, i, x + 1, k + 1) = [index |-> After(list, i, k + 1), elapsed |-> 0]
      BY <2>2, <3>3 DEF Counted
    <3> QED BY <1>7, <2>2, <2>4, <3>1, <3>2, <3>4
  <2>5. CASE e + 1 # d
    <3>1. Fits(list, i, y + 1, k)
      BY <1>8, <2>3, <2>5
    <3>2. (y + 1) - L[k] = e + 1
      BY <1>2, <1>3
    <3>3. Counted(list, i, x + 1, k) = [index |-> After(list, i, k), elapsed |-> e + 1]
      BY <2>2, <3>2 DEF Counted
    <3> QED BY <1>7, <2>2, <2>5, <3>1, <3>3
  <2> QED BY <2>4, <2>5
<1>10. CASE ~Endless(list) /\ y + 1 = Cycle(list)
  <2>1. Within(list, x + 1) = 0
    BY <1>2, <1>10
  <2>2. Cycle(list) = L[n] /\ Cycle(list) \in Nat \ {0}
    BY <1>10, CycleIs
  <2>3. Timed(list, i, n) /\ d # Null
    <3>1. Timed(list, i, n)
      BY <1>10, TimedAll
    <3> QED BY <1>1, <3>1 DEF Timed
  <2>4. k + 1 = n
    <3> SUFFICES ASSUME k + 1 # n PROVE FALSE
      OBVIOUS
    <3>1. k + 1 \in 0 .. n /\ n \in 0 .. n /\ k + 1 < n
      BY <1>1
    <3>2. L[k + 1] < L[n]
      BY <2>3, <3>1, LastingGrows
    <3> HIDE DEF y, L, d
    <3> QED BY <1>2, <1>3, <1>10, <2>2, <2>3, <3>2
  <2>5. e + 1 = d
    BY <1>8, <1>10, <2>2, <2>3, <2>4
  <2>6. After(list, After(list, i, k), 1) = After(list, i, 0)
    <3>1. /\ 0 \in 0 .. n /\ 1 \in 0 .. n
          /\ After(list, i, k) = IF i + k <= n THEN i + k ELSE i + k - n
          /\ After(list, i, k) \in 1 .. n
      BY <1>1, AfterIs
    <3> DEFINE j == After(list, i, k)
    <3>2. After(list, i, 0) = IF i + 0 <= n THEN i + 0 ELSE i + 0 - n
      BY <3>1, AfterIs
    <3>3. After(list, j, 1) = IF j + 1 <= n THEN j + 1 ELSE j + 1 - n
      <4>1. j \in 1 .. n
        BY <3>1
      <4> HIDE DEF j
      <4> QED BY <3>1, <4>1, AfterIs
    <3> QED BY <1>1, <2>4, <3>1, <3>2, <3>3
  <2>7. Fits(list, i, 0, 0) /\ L[0] = 0
    BY FitsZero, LastingIs
  <2>8. Counted(list, i, x + 1, 0) = [index |-> After(list, i, 0), elapsed |-> 0]
    BY <2>1, <2>7 DEF Counted
  <2> QED BY <1>7, <2>1, <2>5, <2>6, <2>7, <2>8
<1> QED BY <1>9, <1>10

(* Counting passed entries within the cycle is going on unit by unit. *)
LEMMA UnitByUnitIs ==
    ASSUME NEW list \in Playlist, NEW i \in 1 .. Len(list)
    PROVE  /\ UnitByUnit(list, i)[0] = [index |-> i, elapsed |-> 0]
           /\ \A x \in Nat : UnitByUnit(list, i)[x + 1] = Unit(list, UnitByUnit(list, i)[x])
           /\ \A x \in Nat :
                 \E k : /\ Fits(list, i, Within(list, x), k)
                        /\ UnitByUnit(list, i)[x] = Counted(list, i, x, k)
<1> DEFINE C(x) == Counted(list, i, x, Passed(list, i, Within(list, x)))
           G == [x \in Nat |-> C(x)]
           E(f) == [u \in Nat |-> IF u = 0 THEN [index |-> i, elapsed |-> 0] ELSE Unit(list, f[u - 1])]
           S == {x \in Nat : \E k : Fits(list, i, Within(list, x), k)}
           U == UnitByUnit(list, i)
<1>1. Len(list) \in Nat \ {0} /\ 0 \in 0 .. Len(list)
  BY ListFacts
<1>2. Fits(list, i, Within(list, 0), 0)
  BY <1>1, WithinIs, FitsZero
<1>3. Nat \subseteq S
  <2>1. 0 \in S
    BY <1>2
  <2>2. \A x \in Nat : x \in S => x + 1 \in S
    BY GoesOn
  <2> HIDE DEF S
  <2> QED BY <2>1, <2>2, Induct
<1>4. ASSUME NEW x \in Nat, NEW k, Fits(list, i, Within(list, x), k)
      PROVE  C(x) = Counted(list, i, x, k)
  <2>1. Within(list, x) \in Nat
    <3>1. Len(list) > 0
      BY <1>1
    <3> QED BY <3>1, WithinIs
  <2>2. Passed(list, i, Within(list, x)) = k
    BY <1>4, <2>1, PassedIs
  <2> QED BY <2>2
<1>5. C(0) = [index |-> i, elapsed |-> 0]
  <2>1. After(list, i, 0) = i
    BY <1>1, AfterIs, ListFacts
  <2>2. Within(list, 0) - Lasting(list, i)[0] = 0
    <3>1. Len(list) > 0
      BY <1>1
    <3>2. Within(list, 0) = 0
      BY <3>1, WithinIs
    <3>3. Lasting(list, i)[0] = 0
      BY LastingIs
    <3> QED BY <3>2, <3>3
  <2>3. C(0) = Counted(list, i, 0, 0)
    BY <1>2, <1>4
  <2> QED BY <2>1, <2>2, <2>3 DEF Counted
<1>6. ASSUME NEW x \in Nat
      PROVE  C(x + 1) = Unit(list, C(x))
  <2>1. PICK k : Fits(list, i, Within(list, x), k)
    BY <1>3
  <2>2. PICK m : /\ Fits(list, i, Within(list, x + 1), m)
                 /\ Counted(list, i, x + 1, m) = Unit(list, Counted(list, i, x, k))
    BY <2>1, GoesOn
  <2>3. C(x) = Counted(list, i, x, k)
    BY <1>4, <2>1
  <2>4. C(x + 1) = Counted(list, i, x + 1, m)
    <3>1. x + 1 \in Nat
      OBVIOUS
    <3> HIDE DEF C
    <3> QED BY <1>4, <2>2, <3>1
  <2> QED BY <2>2, <2>3, <2>4
<1> HIDE DEF C, S
<1>7. G = E(G)
  <2>1. ASSUME NEW u \in Nat
        PROVE  G[u] = IF u = 0 THEN [index |-> i, elapsed |-> 0] ELSE Unit(list, G[u - 1])
    <3>1. CASE u = 0
      BY <1>5, <3>1
    <3>2. CASE u # 0
      <4>1. u - 1 \in Nat /\ (u - 1) + 1 = u
        BY <3>2
      <4>2. C((u - 1) + 1) = Unit(list, C(u - 1))
        BY <1>6, <4>1
      <4> QED BY <3>2, <4>1, <4>2
    <3> QED BY <3>1, <3>2
  <2>2. G = [u \in Nat |-> G[u]]
    OBVIOUS
  <2> HIDE DEF G
  <2> QED BY <2>1, <2>2
<1>8. U = E(U)
  <2>1. U = CHOOSE f : f = E(f)
    BY DEF UnitByUnit
  <2>2. \E f : f = E(f)
    <3> HIDE DEF E, G
    <3> QED BY <1>7
  <2> HIDE DEF E
  <2> QED BY <2>1, <2>2
<1> HIDE DEF U
<1>9. U[0] = [index |-> i, elapsed |-> 0]
  BY <1>8
<1>10. ASSUME NEW x \in Nat
       PROVE  U[x + 1] = Unit(list, U[x])
  <2>1. x + 1 \in Nat /\ x + 1 # 0 /\ (x + 1) - 1 = x
    OBVIOUS
  <2>2. U[x + 1] = IF x + 1 = 0 THEN [index |-> i, elapsed |-> 0] ELSE Unit(list, U[(x + 1) - 1])
    BY <1>8, <2>1
  <2> QED BY <2>1, <2>2
<1>11. \A x \in Nat : U[x] = C(x)
  <2> DEFINE T == {x \in Nat : U[x] = C(x)}
  <2>1. 0 \in T
    BY <1>5, <1>9
  <2>2. ASSUME NEW x \in Nat, U[x] = C(x)
        PROVE  U[x + 1] = C(x + 1)
    <3>1. U[x + 1] = Unit(list, U[x]) /\ C(x + 1) = Unit(list, C(x))
      BY <1>6, <1>10
    <3> QED BY <2>2, <3>1
  <2>3. \A x \in Nat : x \in T => x + 1 \in T
    BY <2>2
  <2>4. Nat \subseteq T
    <3> HIDE DEF T
    <3> QED BY <2>1, <2>3, Induct
  <2> QED BY <2>4
<1>12. ASSUME NEW x \in Nat
       PROVE  \E k : Fits(list, i, Within(list, x), k) /\ U[x] = Counted(list, i, x, k)
  <2>1. PICK k : Fits(list, i, Within(list, x), k)
    BY <1>3 DEF S
  <2>2. U[x] = Counted(list, i, x, k)
    BY <1>4, <1>11, <2>1
  <2> QED BY <2>1, <2>2
<1> QED BY <1>9, <1>10, <1>12 DEF U

(* A position of a playlist: an entry, and less than its duration into it. *)
IsAt(list, p) ==
    /\ p \in [index : 1 .. Len(list), elapsed : Nat]
    /\ list[p.index].duration # Null => p.elapsed < list[p.index].duration

(* A unit of time leads from a position to a position. *)
LEMMA UnitKeeps ==
    ASSUME NEW list \in Playlist, NEW p, IsAt(list, p)
    PROVE  IsAt(list, Unit(list, p))
<1> DEFINE d == list[p.index].duration
           q == Unit(list, p)
<1>1. /\ p.index \in 1 .. Len(list) /\ p.elapsed \in Nat
      /\ p = [index |-> p.index, elapsed |-> p.elapsed]
      /\ d # Null => d \in Nat \ {0} /\ p.elapsed < d
  BY ListFacts DEF IsAt
<1>2. CASE p.elapsed + 1 = d
  <2>1. q = [index |-> After(list, p.index, 1), elapsed |-> 0]
    BY <1>2 DEF Unit
  <2>2. After(list, p.index, 1) \in 1 .. Len(list)
    <3>1. Len(list) \in Nat
      BY ListFacts
    <3>2. 1 \in 0 .. Len(list)
      BY <1>1, <3>1
    <3> QED BY <1>1, <3>2, AfterIs
  <2>3. list[After(list, p.index, 1)].duration # Null =>
           0 < list[After(list, p.index, 1)].duration
    BY <2>2, ListFacts
  <2> QED BY <2>1, <2>2, <2>3 DEF IsAt
<1>3. CASE p.elapsed + 1 # d
  <2>1. q = [p EXCEPT !.elapsed = p.elapsed + 1]
    BY <1>3 DEF Unit
  <2>2. q = [index |-> p.index, elapsed |-> p.elapsed + 1]
    BY <1>1, <2>1
  <2> QED BY <1>1, <1>3, <2>2 DEF IsAt
<1> QED BY <1>2, <1>3

(* Every time has a position. *)
LEMMA UnitByUnitAt ==
    ASSUME NEW list \in Playlist, NEW i \in 1 .. Len(list), NEW x \in Nat
    PROVE  IsAt(list, UnitByUnit(list, i)[x])
<1> DEFINE U == UnitByUnit(list, i)
           S == {z \in Nat : IsAt(list, U[z])}
<1>1. U[0] = [index |-> i, elapsed |-> 0] /\ \A z \in Nat : U[z + 1] = Unit(list, U[z])
  BY UnitByUnitIs
<1>2. IsAt(list, U[0])
  <2>1. list[i].duration # Null => 0 < list[i].duration
    BY ListFacts
  <2>2. U[0] = [index |-> i, elapsed |-> 0]
    BY <1>1
  <2> HIDE DEF U
  <2> QED BY <2>1, <2>2 DEF IsAt
<1> HIDE DEF U
<1>3. \A z \in Nat : IsAt(list, U[z]) => IsAt(list, U[z + 1])
  BY <1>1, UnitKeeps
<1>4. x \in S
  <2>1. 0 \in S
    BY <1>2
  <2>2. \A z \in Nat : z \in S => z + 1 \in S
    BY <1>3
  <2> HIDE DEF S
  <2> QED BY <2>1, <2>2, Induct
<1> QED BY <1>4 DEF U

(* Until its duration is over, an entry stays. *)
LEMMA EntryStays ==
    ASSUME NEW list \in Playlist, NEW i \in 1 .. Len(list), NEW x \in Nat,
           list[i].duration = Null \/ x < list[i].duration
    PROVE  UnitByUnit(list, i)[x] = [index |-> i, elapsed |-> x]
<1> DEFINE U == UnitByUnit(list, i)
           d == list[i].duration
           S == {z \in Nat : (d = Null \/ z < d) => U[z] = [index |-> i, elapsed |-> z]}
<1>1. U[0] = [index |-> i, elapsed |-> 0] /\ \A z \in Nat : U[z + 1] = Unit(list, U[z])
  BY UnitByUnitIs
<1>2. d = Null \/ d \in Nat \ {0}
  BY ListFacts
<1>3. Null \notin Nat
  BY MachineAssumption
<1> HIDE DEF U
<1>4. ASSUME NEW z \in Nat, z \in S, d = Null \/ z + 1 < d
      PROVE  U[z + 1] = [index |-> i, elapsed |-> z + 1]
  <2>1. d = Null \/ z < d
    <3> HIDE DEF d
    <3> QED BY <1>2, <1>4
  <2>2. U[z] = [index |-> i, elapsed |-> z]
    BY <1>4, <2>1
  <2>3. z + 1 # d
    <3> HIDE DEF d
    <3> QED BY <1>2, <1>3, <1>4
  <2>4. Unit(list, [index |-> i, elapsed |-> z]) = [index |-> i, elapsed |-> z + 1]
    BY <2>3 DEF Unit
  <2> QED BY <1>1, <2>2, <2>4
<1>5. x \in S
  <2>1. 0 \in S
    BY <1>1
  <2>2. \A z \in Nat : z \in S => z + 1 \in S
    BY <1>4
  <2> HIDE DEF S
  <2> QED BY <2>1, <2>2, Induct
<1> QED BY <1>5 DEF U

(* ... and then the next one is shown from its beginning. *)
LEMMA EntryEnds ==
    ASSUME NEW list \in Playlist, NEW i \in 1 .. Len(list), list[i].duration # Null
    PROVE  UnitByUnit(list, i)[list[i].duration] = [index |-> After(list, i, 1), elapsed |-> 0]
<1> DEFINE d == list[i].duration
           U == UnitByUnit(list, i)
<1>1. d \in Nat \ {0}
  BY ListFacts
<1>2. d - 1 \in Nat /\ d - 1 < d /\ (d - 1) + 1 = d
  BY <1>1
<1>3. U[d - 1] = [index |-> i, elapsed |-> d - 1]
  BY <1>2, EntryStays
<1>4. U[(d - 1) + 1] = Unit(list, U[d - 1])
  BY <1>2, UnitByUnitIs
<1>5. Unit(list, [index |-> i, elapsed |-> d - 1]) = [index |-> After(list, i, 1), elapsed |-> 0]
  <2>1. (d - 1) + 1 = list[i].duration
    BY <1>2
  <2> HIDE DEF d
  <2> QED BY <2>1 DEF Unit
<1> QED BY <1>2, <1>3, <1>4, <1>5

(* Going on from a position that was reached is going on from the start. *)
LEMMA UnitByUnitFlows ==
    ASSUME NEW list \in Playlist, NEW i \in 1 .. Len(list), NEW x \in Nat, NEW z \in Nat
    PROVE  LET p == UnitByUnit(list, i)[x]
           IN UnitByUnit(list, p.index)[p.elapsed + z] = UnitByUnit(list, i)[x + z]
<1> DEFINE U == UnitByUnit(list, i)
           p == U[x]
           V == UnitByUnit(list, p.index)
           S == {w \in Nat : V[p.elapsed + w] = U[x + w]}
<1>1. \A w \in Nat : U[w + 1] = Unit(list, U[w])
  BY UnitByUnitIs
<1>2. IsAt(list, p)
  BY UnitByUnitAt
<1> HIDE DEF p
<1>3. p.index \in 1 .. Len(list) /\ p.elapsed \in Nat
      /\ p = [index |-> p.index, elapsed |-> p.elapsed]
  BY <1>2 DEF IsAt
<1>4. \A w \in Nat : V[w + 1] = Unit(list, V[w])
  BY <1>3, UnitByUnitIs
<1>5. V[p.elapsed] = p
  <2>1. list[p.index].duration = Null \/ p.elapsed < list[p.index].duration
    BY <1>2 DEF IsAt
  <2>2. V[p.elapsed] = [index |-> p.index, elapsed |-> p.elapsed]
    BY <1>3, <2>1, EntryStays
  <2> QED BY <1>3, <2>2
<1>6. p = U[x]
  BY DEF p
<1> HIDE DEF U, V
<1>7. 0 \in S
  <2>1. p.elapsed + 0 = p.elapsed /\ x + 0 = x
    BY <1>3
  <2> QED BY <1>5, <1>6, <2>1
<1>8. ASSUME NEW w \in Nat, w \in S
      PROVE  w + 1 \in S
  <2>1. /\ p.elapsed + w \in Nat /\ x + w \in Nat
        /\ (p.elapsed + w) + 1 = p.elapsed + (w + 1) /\ (x + w) + 1 = x + (w + 1)
    BY <1>3
  <2>2. V[p.elapsed + w] = U[x + w]
    BY <1>8
  <2>3. V[(p.elapsed + w) + 1] = Unit(list, V[p.elapsed + w])
    BY <1>4, <2>1
  <2>4. U[(x + w) + 1] = Unit(list, U[x + w])
    BY <1>1, <2>1
  <2> QED BY <2>1, <2>2, <2>3, <2>4
<1>9. z \in S
  <2>1. \A w \in Nat : w \in S => w + 1 \in S
    BY <1>8
  <2> HIDE DEF S
  <2> QED BY <1>7, <2>1, Induct
<1> QED BY <1>9 DEF U, V, p

-----------------------------------------------------------------------------
(* Positions of an anchor. *)

(* An anchor of a playlist that is not empty. *)
AnchorOf(a, list) ==
    /\ a.index \in 1 .. Len(list) /\ a.elapsed \in Nat
    /\ a.at \in Nat /\ a.evaluatedAt \in Nat /\ a.at <= a.evaluatedAt

(* How long the anchor's entry has been shown, and when it is evaluated. *)
LEMMA ShownIs ==
    ASSUME NEW list, NEW a, AnchorOf(a, list), NEW t \in Nat
    PROVE  /\ Shown(a, t) \in Nat
           /\ t >= a.evaluatedAt =>
                 /\ At(a, t) = t
                 /\ Shown(a, t) = a.elapsed + (IF a.status = "running" THEN t - a.at ELSE 0)
           /\ At(a, t) \in Nat /\ At(a, t) >= a.evaluatedAt
           /\ Shown(a, At(a, t)) = Shown(a, t)
<1> DEFINE e == At(a, t)
<1>1. /\ e \in Nat /\ e >= a.evaluatedAt /\ e >= a.at
      /\ t >= a.evaluatedAt => e = t
  BY DEF At, Latest, AnchorOf
<1>2. At(a, e) = e
  BY DEF At, Latest, AnchorOf
<1>3. Shown(a, t) = a.elapsed + (IF a.status = "running" THEN e - a.at ELSE 0)
  BY DEF Shown
<1>4. Shown(a, e) = a.elapsed + (IF a.status = "running" THEN e - a.at ELSE 0)
  <2>1. Shown(a, e) = a.elapsed + (IF a.status = "running" THEN At(a, e) - a.at ELSE 0)
    BY DEF Shown
  <2> QED BY <1>2, <2>1
<1>5. a.elapsed \in Nat /\ a.at \in Nat /\ a.evaluatedAt \in Nat
  BY DEF AnchorOf
<1> HIDE DEF e
<1>6. Shown(a, t) \in Nat
  BY <1>1, <1>3, <1>5
<1>7. t >= a.evaluatedAt =>
         Shown(a, t) = a.elapsed + (IF a.status = "running" THEN t - a.at ELSE 0)
  BY <1>1, <1>3
<1> QED BY <1>1, <1>3, <1>4, <1>6, <1>7 DEF e

(* The code's position, computed from the sums of the durations with missed    *)
(* cycles taken out at once, is the one of playback that goes on unit by unit, *)
(* for every playlist, anchor and time (position of playback.machine.ts).      *)
THEOREM PositionByUnits ==
    ASSUME NEW list \in Playlist, NEW a, AnchorOf(a, list), NEW t \in Nat
    PROVE  Position(a, list, t) =
              IF Moves(a, list) THEN UnitByUnit(list, a.index)[Shown(a, t)]
              ELSE [index |-> a.index, elapsed |-> Shown(a, t)]
<1>1. Shown(a, t) \in Nat /\ a.index \in 1 .. Len(list)
  BY ShownIs DEF AnchorOf
<1>2. CASE Moves(a, list)
  <2> DEFINE y == Within(list, Shown(a, t))
  <2>1. PICK k : /\ Fits(list, a.index, y, k)
                 /\ UnitByUnit(list, a.index)[Shown(a, t)] = Counted(list, a.index, Shown(a, t), k)
    BY <1>1, UnitByUnitIs
  <2>2. Len(list) > 0
    BY <1>1, ListFacts
  <2>3. y \in Nat
    BY <1>1, <2>2, WithinIs
  <2>4. Passed(list, a.index, y) = k
    <3> HIDE DEF y
    <3> QED BY <1>1, <2>1, <2>3, PassedIs
  <2>5. Position(a, list, t) =
           [index |-> After(list, a.index, Passed(list, a.index, y)),
            elapsed |-> y - Lasting(list, a.index)[Passed(list, a.index, y)]]
    BY <1>2, Zenon DEF Position
  <2> QED BY <1>2, <2>1, <2>4, <2>5 DEF Counted
<1>3. CASE ~Moves(a, list)
  BY <1>3 DEF Position
<1> QED BY <1>2, <1>3

(* What position() returns is an entry and a time into it. *)
LEMMA PositionTyped ==
    ASSUME NEW list \in Playlist, NEW a, AnchorOf(a, list), NEW t \in Nat
    PROVE  /\ Position(a, list, t) \in [index : 1 .. Len(list), elapsed : Nat]
           /\ Moves(a, list) => IsAt(list, Position(a, list, t))
<1>1. Shown(a, t) \in Nat /\ a.index \in 1 .. Len(list)
  BY ShownIs DEF AnchorOf
<1>2. CASE Moves(a, list)
  <2>1. IsAt(list, UnitByUnit(list, a.index)[Shown(a, t)])
    BY <1>1, UnitByUnitAt
  <2> QED BY <1>2, <2>1, PositionByUnits DEF IsAt
<1>3. CASE ~Moves(a, list)
  BY <1>1, <1>3, PositionByUnits
<1> QED BY <1>2, <1>3

(* The code evaluates a playlist at the latest of the clock and what was      *)
(* evaluated before.                                                          *)
LEMMA PositionNow ==
    ASSUME NEW list \in Playlist, NEW a, AnchorOf(a, list), NEW t \in Nat
    PROVE  Position(a, list, t) = Position(a, list, At(a, t))
<1>1. At(a, t) \in Nat /\ Shown(a, At(a, t)) = Shown(a, t)
  BY ShownIs
<1> QED BY <1>1, PositionByUnits

(* What was heard at one time decides what is heard at a later one. *)
LEMMA HeardLater ==
    ASSUME NEW list \in Playlist, NEW a, AnchorOf(a, list),
           NEW t \in Nat, t >= a.evaluatedAt
    PROVE  LET p == Position(a, list, a.evaluatedAt)
               passed == IF a.status = "running" THEN t - a.evaluatedAt ELSE 0
           IN Position(a, list, t) = Heard(a, list, [p EXCEPT !.elapsed = @ + passed])
<1> DEFINE p == Position(a, list, a.evaluatedAt)
           passed == IF a.status = "running" THEN t - a.evaluatedAt ELSE 0
           q == [p EXCEPT !.elapsed = @ + passed]
           x == Shown(a, a.evaluatedAt)
<1>1. /\ a.index \in 1 .. Len(list) /\ a.evaluatedAt \in Nat /\ a.at \in Nat /\ a.elapsed \in Nat
      /\ a.evaluatedAt >= a.evaluatedAt
  BY DEF AnchorOf
<1>2. x \in Nat /\ x = a.elapsed + (IF a.status = "running" THEN a.evaluatedAt - a.at ELSE 0)
  BY <1>1, ShownIs
<1>3. Shown(a, t) = a.elapsed + (IF a.status = "running" THEN t - a.at ELSE 0)
  BY ShownIs
<1>4. passed \in Nat /\ Shown(a, t) = x + passed
  <2>1. CASE a.status = "running"
    <3>1. passed = t - a.evaluatedAt
      BY <2>1
    <3>2. x = a.elapsed + (a.evaluatedAt - a.at) /\ Shown(a, t) = a.elapsed + (t - a.at)
      <4> HIDE DEF x
      <4> QED BY <1>2, <1>3, <2>1
    <3>3. \A e, b, v, u \in Nat : e + (u - b) = (e + (v - b)) + (u - v)
      OBVIOUS
    <3>4. a.elapsed + (t - a.at) = (a.elapsed + (a.evaluatedAt - a.at)) + (t - a.evaluatedAt)
      BY <1>1, <3>3
    <3>5. t - a.evaluatedAt \in Nat
      BY <1>1
    <3> HIDE DEF x, passed
    <3> QED BY <3>1, <3>2, <3>4, <3>5
  <2>2. CASE a.status # "running"
    <3>1. passed = 0
      BY <2>2
    <3>2. x = a.elapsed /\ Shown(a, t) = a.elapsed
      <4> HIDE DEF x
      <4> QED BY <1>1, <1>2, <1>3, <2>2
    <3> HIDE DEF x, passed
    <3> QED BY <1>1, <3>1, <3>2
  <2> QED BY <2>1, <2>2
<1>5. p \in [index : 1 .. Len(list), elapsed : Nat]
  BY <1>1, PositionTyped
<1>6. p = IF Moves(a, list) THEN UnitByUnit(list, a.index)[x]
          ELSE [index |-> a.index, elapsed |-> x]
  BY <1>1, PositionByUnits
<1>7. Position(a, list, t) =
         IF Moves(a, list) THEN UnitByUnit(list, a.index)[Shown(a, t)]
         ELSE [index |-> a.index, elapsed |-> Shown(a, t)]
  BY PositionByUnits
<1> HIDE DEF p, passed, x
<1>8. q = [index |-> p.index, elapsed |-> p.elapsed + passed]
  BY <1>5
<1> HIDE DEF q
<1>9. Position(a, list, t) = Heard(a, list, q)
  <2>1. CASE Moves(a, list)
    <3>1. UnitByUnit(list, p.index)[p.elapsed + passed] = UnitByUnit(list, a.index)[x + passed]
      <4>1. p = UnitByUnit(list, a.index)[x]
        BY <1>6, <2>1
      <4>2. LET r == UnitByUnit(list, a.index)[x]
            IN UnitByUnit(list, r.index)[r.elapsed + passed] = UnitByUnit(list, a.index)[x + passed]
        BY <1>1, <1>2, <1>4, UnitByUnitFlows
      <4> QED BY <4>1, <4>2
    <3>2. Heard(a, list, q) = UnitByUnit(list, q.index)[q.elapsed]
      BY <2>1 DEF Heard
    <3> QED BY <1>4, <1>7, <1>8, <2>1, <3>1, <3>2
  <2>2. CASE ~Moves(a, list)
    BY <1>4, <1>6, <1>7, <1>8, <2>2 DEF Heard
  <2> QED BY <2>1, <2>2
<1> QED BY <1>9 DEF p, passed, q

(* A fresh anchor is where it says, and goes on from there. *)
LEMMA FreshHeard ==
    ASSUME NEW list \in Playlist, NEW i \in 1 .. Len(list), NEW status,
           NEW e \in Nat, NEW t \in Nat
    PROVE  /\ AnchorOf(Fresh(i, status, e, t), list)
           /\ Heard(Fresh(i, status, e, t), list, [index |-> i, elapsed |-> e])
                 = Position(Fresh(i, status, e, t), list, t)
<1> DEFINE a == Fresh(i, status, e, t)
           p == [index |-> i, elapsed |-> e]
<1>1. /\ a.index = i /\ a.elapsed = e /\ a.at = t /\ a.evaluatedAt = t
  BY DEF Fresh
<1>2. p.index = i /\ p.elapsed = e
  OBVIOUS
<1> HIDE DEF a
<1>3. AnchorOf(a, list) /\ t >= a.evaluatedAt
  BY <1>1 DEF AnchorOf
<1>4. Shown(a, t) = e
  <2>1. Shown(a, t) = a.elapsed + (IF a.status = "running" THEN t - a.at ELSE 0)
    BY <1>3, ShownIs
  <2> QED BY <1>1, <2>1
<1>5. Position(a, list, t) = IF Moves(a, list) THEN UnitByUnit(list, i)[e] ELSE p
  BY <1>1, <1>3, <1>4, PositionByUnits
<1>6. Heard(a, list, p) = IF Moves(a, list) THEN UnitByUnit(list, i)[e] ELSE p
  <2> HIDE DEF p
  <2> QED BY <1>2 DEF Heard
<1> QED BY <1>3, <1>5, <1>6 DEF a

-----------------------------------------------------------------------------
(* The anchor of the state is one of its list, what was heard is the position  *)
(* at the last evaluation, and the next transition is computed from it.        *)
Anchored ==
    /\ clock \in Time
    /\ state \in State
    /\ state.anchor.at <= state.anchor.evaluatedAt
    /\ (state.anchor.status = "empty") = (state.list = <<>> /\ state.anchor.status # "stopped")
    /\ state.list # <<>> => state.list \in Playlist /\ state.anchor.index \in 1 .. Len(state.list)
    /\ heard = IF state.list = <<>> THEN First
               ELSE Position(state.anchor, state.list, state.anchor.evaluatedAt)
    /\ state.next = IF state.list = <<>> THEN Null
                    ELSE NextAt(state.anchor, state.list, state.anchor.evaluatedAt)

(* What the anchor's parts are. *)
LEMMA AnchoredFacts ==
    ASSUME Anchored
    PROVE  /\ state.list # <<>> => state.list \in Playlist /\ AnchorOf(state.anchor, state.list)
           /\ Now \in Time /\ Now \in Nat
           /\ clock \in Nat /\ state.anchor.evaluatedAt \in Nat
           /\ Now >= state.anchor.evaluatedAt
<1>1. /\ state.anchor.at \in Time /\ state.anchor.evaluatedAt \in Time
      /\ state.anchor.elapsed \in Nat /\ clock \in Time
      /\ state.anchor.at <= state.anchor.evaluatedAt
  BY DEF Anchored, State, Anchor
<1>2. Time \subseteq Nat
  BY MachineAssumption DEF Time
<1>3. Now \in Time /\ Now >= state.anchor.evaluatedAt
  <2>1. \A u, w \in Time : Latest(u, w) \in Time /\ Latest(u, w) >= u /\ Latest(u, w) >= w
    BY <1>2 DEF Latest
  <2> DEFINE l == Latest(state.anchor.evaluatedAt, state.anchor.at)
  <2>2. l \in Time /\ l >= state.anchor.evaluatedAt
    BY <1>1, <2>1
  <2>3. Now = Latest(clock, l)
    BY DEF Now, At
  <2> HIDE DEF l
  <2>4. Now \in Time /\ Now >= l
    BY <1>1, <2>1, <2>2, <2>3
  <2>5. Now \in Nat /\ l \in Nat /\ state.anchor.evaluatedAt \in Nat
    BY <1>1, <1>2, <2>2, <2>4
  <2> QED BY <2>2, <2>4, <2>5
<1>4. state.list # <<>> => state.list \in Playlist /\ AnchorOf(state.anchor, state.list)
  BY <1>1, <1>2 DEF Anchored, AnchorOf
<1> QED BY <1>1, <1>2, <1>3, <1>4

(* Every position that can be read off the state is one that is heard. *)
LEMMA OnTime ==
    ASSUME Anchored, state.list # <<>>, NEW t \in Nat, t >= state.anchor.evaluatedAt
    PROVE  Position(state.anchor, state.list, t) = HeardAt(t)
<1> DEFINE a == state.anchor
<1>1. state.list \in Playlist /\ AnchorOf(a, state.list)
  BY AnchoredFacts
<1>2. heard = Position(a, state.list, a.evaluatedAt)
  BY DEF Anchored
<1>3. LET p == Position(a, state.list, a.evaluatedAt)
          passed == IF a.status = "running" THEN t - a.evaluatedAt ELSE 0
      IN Position(a, state.list, t) = Heard(a, state.list, [p EXCEPT !.elapsed = @ + passed])
  <2> HIDE DEF a
  <2>1. t >= a.evaluatedAt
    BY DEF a
  <2> QED BY <1>1, <2>1, HeardLater
<1> QED BY <1>2, <1>3 DEF HeardAt

(* The position that a command takes into the next anchor. *)
LEMMA NowHeard ==
    ASSUME Anchored, state.list # <<>>
    PROVE  /\ Position(state.anchor, state.list, clock) = HeardAt(Now)
           /\ HeardAt(Now) \in [index : 1 .. Len(state.list), elapsed : Nat]
<1>1. state.list \in Playlist /\ AnchorOf(state.anchor, state.list)
  BY AnchoredFacts
<1>2. Now \in Nat /\ clock \in Nat /\ Now >= state.anchor.evaluatedAt
  BY AnchoredFacts
<1>3. Position(state.anchor, state.list, clock) = Position(state.anchor, state.list, Now)
  BY <1>1, <1>2, PositionNow DEF Now
<1>4. Position(state.anchor, state.list, Now) = HeardAt(Now)
  BY <1>2, OnTime
<1>5. Position(state.anchor, state.list, clock) \in [index : 1 .. Len(state.list), elapsed : Nat]
  BY <1>1, <1>2, PositionTyped
<1> QED BY <1>3, <1>4, <1>5

-----------------------------------------------------------------------------
(* persist keeps the anchor. *)
LEMMA PersistAnchors ==
    ASSUME Anchored, NEW v, NEW list \in Playlist \cup {<<>>}, NEW a \in Anchor, NEW p,
           a.at <= a.evaluatedAt,
           (a.status = "empty") = (list = <<>> /\ a.status # "stopped"),
           list # <<>> => list \in Playlist /\ a.index \in 1 .. Len(list),
           list # <<>> => Heard(a, list, p) = Position(a, list, a.evaluatedAt),
           Persist(Persisted(v, list, a), p), clock' = clock
    PROVE  Anchored'
<1> DEFINE s == Persisted(v, list, a)
<1>1. /\ s.version = v /\ s.list = list /\ s.anchor = a
      /\ s.next = IF list = <<>> THEN Null ELSE NextAt(a, list, a.evaluatedAt)
      /\ s = [version |-> s.version, list |-> s.list, anchor |-> s.anchor, next |-> s.next]
  BY DEF Persisted
<1>2. /\ s.version \in Event /\ s.next \in Time \cup {Null}
      /\ state' = s
      /\ heard' = IF s.list = <<>> THEN First ELSE Heard(s.anchor, s.list, p)
  BY DEF Persist
<1> HIDE DEF s
<1>3. s.version \in 0 .. MaxVersion
  BY <1>2, PlaybackAssumption
<1>4. s \in State
  BY <1>1, <1>2, <1>3 DEF State
<1>5. heard' = IF list = <<>> THEN First ELSE Position(a, list, a.evaluatedAt)
  BY <1>1, <1>2
<1>6. /\ clock' \in Time /\ state'.list = list /\ state'.anchor = a /\ state' \in State
      /\ state'.next = IF list = <<>> THEN Null ELSE NextAt(a, list, a.evaluatedAt)
  BY <1>1, <1>2, <1>4 DEF Anchored
<1> QED BY <1>5, <1>6, Zenon DEF Anchored

(* A command that begins a new anchor at a position. *)
LEMMA FreshAnchors ==
    ASSUME Anchored, NEW v, NEW list \in Playlist \cup {<<>>}, NEW p,
           NEW i \in Nat \ {0}, NEW status \in PlaybackStatus, NEW e \in Nat, NEW t \in Time,
           (status = "empty") = (list = <<>> /\ status # "stopped"),
           list # <<>> => i \in 1 .. Len(list) /\ p = [index |-> i, elapsed |-> e],
           Persist(Persisted(v, list, Fresh(i, status, e, t)), p), clock' = clock
    PROVE  Anchored'
<1> DEFINE a == Fresh(i, status, e, t)
<1>1. /\ a.status = status /\ a.index = i /\ a.elapsed = e /\ a.at = t /\ a.evaluatedAt = t
      /\ a \in Anchor
  BY DEF Fresh, Anchor
<1>2. t \in Nat /\ t <= t
  BY MachineAssumption DEF Time
<1>3. list # <<>> => Heard(a, list, p) = Position(a, list, t)
  <2> SUFFICES ASSUME list # <<>> PROVE Heard(a, list, p) = Position(a, list, t)
    OBVIOUS
  <2>1. list \in Playlist /\ i \in 1 .. Len(list) /\ p = [index |-> i, elapsed |-> e]
    OBVIOUS
  <2> QED BY <1>2, <2>1, FreshHeard
<1>4. Persist(Persisted(v, list, a), p)
  OBVIOUS
<1>5. /\ a.at <= a.evaluatedAt
      /\ (a.status = "empty") = (list = <<>> /\ a.status # "stopped")
      /\ list # <<>> => list \in Playlist /\ a.index \in 1 .. Len(list)
      /\ list # <<>> => Heard(a, list, p) = Position(a, list, a.evaluatedAt)
  BY <1>1, <1>2, <1>3
<1> HIDE DEF a
<1> QED BY <1>1, <1>4, <1>5, PersistAnchors

(* A playlist that is not empty has a first entry. *)
LEMMA Listed ==
    ASSUME NEW list \in Playlist, list # <<>>
    PROVE  1 \in 1 .. Len(list)
<1>1. list \in Seq(Entry)
  BY MachineAssumption
<1> QED BY <1>1

(* Playback that starts is at the first entry. *)
LEMMA StartAnchors ==
    ASSUME Anchored, NEW v, NEW to \in Playlist, clock' = clock,
           Persist(Persisted(v, to, Started(to, Now)), First)
    PROVE  Anchored'
<1> DEFINE status == IF to = <<>> THEN "empty" ELSE "running"
<1>1. Started(to, Now) = Fresh(1, status, 0, Now)
  BY DEF Started
<1>2. Now \in Time
  BY AnchoredFacts
<1>3. status \in PlaybackStatus /\ (status = "empty") = (to = <<>> /\ status # "stopped")
  BY DEF PlaybackStatus
<1>4. to # <<>> => 1 \in 1 .. Len(to) /\ First = [index |-> 1, elapsed |-> 0]
  BY Listed DEF First
<1>5. Persist(Persisted(v, to, Fresh(1, status, 0, Now)), First)
  BY <1>1
<1>6. 1 \in Nat \ {0} /\ 0 \in Nat /\ to \in Playlist \cup {<<>>}
  OBVIOUS
<1> HIDE DEF status
<1> QED BY <1>2, <1>3, <1>4, <1>5, <1>6, FreshAnchors

(* Playback that is stopped or paused keeps the position it is halted at. *)
LEMMA HaltAnchors ==
    ASSUME Anchored, NEW v, clock' = clock,
           NEW status, status = "stopped" \/ (status = "paused" /\ state.anchor.status = "running"),
           Persist(Persisted(v, state.list, Halted(state.anchor, state.list, status, clock)),
                   HeardAt(Now))
    PROVE  Anchored'
<1> DEFINE p == CurrentOf(state.anchor, state.list, clock)
<1>1. state.list # <<>> => p = HeardAt(Now) /\ p \in [index : 1 .. Len(state.list), elapsed : Nat]
                           /\ state.list \in Playlist /\ Len(state.list) \in Nat
  BY NowHeard, AnchoredFacts, ListFacts DEF CurrentOf
<1>2. state.list = <<>> => p = [index |-> 1, elapsed |-> 0]
  BY DEF CurrentOf
<1>3. Halted(state.anchor, state.list, status, clock) = Fresh(p.index, status, p.elapsed, Now)
  BY DEF Halted, Now
<1> HIDE DEF p
<1>4. p.index \in Nat \ {0} /\ p.elapsed \in Nat
  BY <1>1, <1>2
<1>5. /\ status \in PlaybackStatus
      /\ (status = "empty") = (state.list = <<>> /\ status # "stopped")
  BY DEF Anchored, PlaybackStatus
<1>6. state.list # <<>> =>
         p.index \in 1 .. Len(state.list) /\ HeardAt(Now) = [index |-> p.index, elapsed |-> p.elapsed]
  BY <1>1
<1>7. Now \in Time /\ state.list \in Playlist \cup {<<>>}
  BY AnchoredFacts
<1>8. Persist(Persisted(v, state.list, Fresh(p.index, status, p.elapsed, Now)), HeardAt(Now))
  BY <1>3
<1> QED BY <1>4, <1>5, <1>6, <1>7, <1>8, FreshAnchors

(* A transition that is due: the anchor is only evaluated. *)
LEMMA RestartAnchors ==
    ASSUME Anchored, NEW v, clock' = clock,
           Persist(Persisted(v, state.list, [state.anchor EXCEPT !.evaluatedAt = Now]), HeardAt(Now))
    PROVE  Anchored'
<1> DEFINE a == state.anchor
           b == [a EXCEPT !.evaluatedAt = Now]
           list == state.list
           p == HeardAt(Now)
<1>1. Now \in Time /\ Now \in Nat /\ Now >= a.evaluatedAt /\ list \in Playlist \cup {<<>>}
  BY AnchoredFacts
<1>2. a \in Anchor /\ a.at <= a.evaluatedAt /\ a.at \in Nat /\ a.evaluatedAt \in Nat
      /\ (a.status = "empty") = (list = <<>> /\ a.status # "stopped")
      /\ (list # <<>> => list \in Playlist /\ a.index \in 1 .. Len(list))
  BY MachineAssumption DEF Anchored, State, Anchor, Time
<1>3. /\ b.status = a.status /\ b.index = a.index /\ b.elapsed = a.elapsed /\ b.at = a.at
      /\ b.evaluatedAt = Now /\ b \in Anchor
  BY <1>1, <1>2 DEF Anchor
<1>4. Persist(Persisted(v, list, b), p)
  OBVIOUS
<1>5. list # <<>> => Heard(b, list, p) = Position(b, list, Now)
  <2> SUFFICES ASSUME list # <<>> PROVE Heard(b, list, p) = Position(b, list, Now)
    OBVIOUS
  <2>1. list \in Playlist /\ AnchorOf(a, list)
    BY AnchoredFacts
  <2>2. p = Position(a, list, Now)
    BY <1>1, OnTime
  <2> HIDE DEF a, b, p, list
  <2>3. AnchorOf(b, list)
    BY <1>1, <1>2, <1>3, <2>1 DEF AnchorOf
  <2>4. Now >= Now
    BY <1>1
  <2>5. /\ Shown(a, Now) = a.elapsed + (IF a.status = "running" THEN Now - a.at ELSE 0)
        /\ Shown(b, Now) = b.elapsed + (IF b.status = "running" THEN Now - b.at ELSE 0)
    <3>1. Now >= b.evaluatedAt
      BY <1>3, <2>4
    <3> QED BY <1>1, <2>1, <2>3, <3>1, ShownIs
  <2>6. Shown(b, Now) = Shown(a, Now) /\ (Moves(b, list) <=> Moves(a, list))
    BY <1>3, <2>5 DEF Moves
  <2>7. Position(b, list, Now) = p
    BY <1>1, <1>3, <2>1, <2>2, <2>3, <2>6, PositionByUnits
  <2>8. CASE Moves(b, list)
    <3>1. IsAt(list, p)
      BY <1>1, <2>1, <2>2, <2>6, <2>8, PositionTyped
    <3>2. /\ p.index \in 1 .. Len(list) /\ p.elapsed \in Nat
          /\ list[p.index].duration = Null \/ p.elapsed < list[p.index].duration
          /\ p = [index |-> p.index, elapsed |-> p.elapsed]
      BY <3>1 DEF IsAt
    <3>3. UnitByUnit(list, p.index)[p.elapsed] = [index |-> p.index, elapsed |-> p.elapsed]
      BY <2>1, <3>2, EntryStays
    <3> QED BY <2>7, <2>8, <3>2, <3>3 DEF Heard
  <2>9. CASE ~Moves(b, list)
    BY <2>7, <2>9 DEF Heard
  <2> QED BY <2>8, <2>9
<1>6. /\ b.at <= b.evaluatedAt
      /\ (b.status = "empty") = (list = <<>> /\ b.status # "stopped")
      /\ list # <<>> => list \in Playlist /\ b.index \in 1 .. Len(list)
      /\ list # <<>> => Heard(b, list, p) = Position(b, list, b.evaluatedAt)
  <2>1. b.at <= b.evaluatedAt
    <3> HIDE DEF b
    <3> QED BY <1>1, <1>2, <1>3
  <2> HIDE DEF a, b, p, list
  <2> QED BY <1>2, <1>3, <1>5, <2>1
<1> HIDE DEF a, b, p, list
<1> QED BY <1>1, <1>3, <1>4, <1>6, PersistAnchors

(* A changed playlist goes on with the item that is shown, wherever it is now, *)
(* and from the beginning when it is gone.                                     *)
LEMMA ChangeAnchors ==
    ASSUME Anchored, NEW v, NEW to \in Playlist, clock' = clock,
           Persist(Persisted(v, to, Changed(state.anchor, state.list, to, clock)),
                   HeardAfter("change", to, Now))
    PROVE  Anchored'
<1> DEFINE a == state.anchor
           list == state.list
           K == Kept(a, list, to, clock)
           p == HeardAt(Now)
           same == {i \in DOMAIN to : list # <<>> /\ to[i].item = list[p.index].item}
           status == IF a.status \in {"paused", "stopped"} THEN a.status ELSE "running"
           b == Changed(a, list, to, clock)
           h == HeardAfter("change", to, Now)
<1>1. list # <<>> => /\ Position(a, list, clock) = p
                     /\ p \in [index : 1 .. Len(list), elapsed : Nat]
  BY NowHeard
<1>2. K = same
  <2>1. CASE list = <<>>
    BY <2>1 DEF Kept
  <2>2. CASE list # <<>>
    <3>1. K = {i \in DOMAIN to : list # <<>> /\ to[i].item = list[Position(a, list, clock).index].item}
      BY DEF Kept
    <3> QED BY <1>1, <2>2, <3>1
  <2> QED BY <2>1, <2>2
<1>3. /\ h = IF same = {} THEN First ELSE [p EXCEPT !.index = CHOOSE i \in same : TRUE]
  <2>1. CASE same = {}
    BY <2>1, Zenon DEF HeardAfter
  <2>2. CASE same # {}
    <3>1. "change" # "start" /\ "change" # "advance"
      OBVIOUS
    <3> QED BY <2>2, <3>1, Zenon DEF HeardAfter
  <2> QED BY <2>1, <2>2
<1>4. b = IF to = <<>> THEN Fresh(1, "empty", 0, Now)
          ELSE IF K = {} THEN Fresh(1, status, 0, Now)
          ELSE Fresh(CHOOSE i \in K : TRUE, status, Position(a, list, clock).elapsed, Now)
  BY Zenon DEF Changed, Now
<1>5. Persist(Persisted(v, to, b), h)
  OBVIOUS
<1>6. /\ Now \in Time /\ status \in PlaybackStatus /\ "empty" \in PlaybackStatus
      /\ status # "empty" /\ to \in Playlist \cup {<<>>}
  BY AnchoredFacts DEF PlaybackStatus
<1>7. K # {} => list # <<>>
  BY DEF Kept
<1> HIDE DEF K, same, p, status, b, h, a, list
<1>8. CASE to = <<>>
  <2>1. Persist(Persisted(v, to, Fresh(1, "empty", 0, Now)), h)
    BY <1>4, <1>5, <1>8
  <2>2. 1 \in Nat \ {0} /\ 0 \in Nat /\ ("empty" = "empty") = (to = <<>> /\ "empty" # "stopped")
    BY <1>8
  <2> QED BY <1>6, <1>8, <2>1, <2>2, FreshAnchors
<1>9. CASE to # <<>> /\ K = {}
  <2>1. Persist(Persisted(v, to, Fresh(1, status, 0, Now)), h)
    BY <1>4, <1>5, <1>9
  <2>2. /\ 1 \in Nat \ {0} /\ 0 \in Nat
        /\ (status = "empty") = (to = <<>> /\ status # "stopped")
        /\ h = [index |-> 1, elapsed |-> 0] /\ 1 \in 1 .. Len(to)
    BY <1>2, <1>3, <1>6, <1>9, Listed DEF First
  <2> QED BY <1>6, <2>1, <2>2, FreshAnchors
<1>10. CASE to # <<>> /\ K # {}
  <2> DEFINE c == CHOOSE i \in K : TRUE
  <2>1. c \in K
    BY <1>10
  <2>2. K \subseteq 1 .. Len(to)
    BY ListFacts DEF Kept, K
  <2>3. c \in 1 .. Len(to) /\ c \in Nat \ {0}
    <3> HIDE DEF c
    <3>1. Len(to) \in Nat
      BY ListFacts
    <3> QED BY <2>1, <2>2, <3>1
  <2>4. p \in [index : 1 .. Len(list), elapsed : Nat] /\ Position(a, list, clock) = p
    BY <1>1, <1>7, <1>10
  <2>5. Persist(Persisted(v, to, Fresh(c, status, p.elapsed, Now)), h)
    BY <1>4, <1>5, <1>10, <2>4
  <2>6. h = [p EXCEPT !.index = c]
    BY <1>2, <1>3, <1>10
  <2> HIDE DEF c
  <2>7. h = [index |-> c, elapsed |-> p.elapsed] /\ p.elapsed \in Nat
    BY <2>4, <2>6
  <2>8. (status = "empty") = (to = <<>> /\ status # "stopped")
    BY <1>6, <1>10
  <2> QED BY <1>6, <2>3, <2>5, <2>7, <2>8, FreshAnchors
<1> QED BY <1>8, <1>9, <1>10

(* A command to advance goes to the beginning of the next entry. *)
LEMMA AdvanceAnchors ==
    ASSUME Anchored, NEW v, clock' = clock,
           state.anchor.status \notin {"empty", "stopped"}, state.list # <<>>,
           Persist(Persisted(v, state.list,
                             Fresh(After(state.list, Position(state.anchor, state.list, clock).index, 1),
                                   state.anchor.status, 0, Now)),
                   [index |-> After(state.list, HeardAt(Now).index, 1), elapsed |-> 0])
    PROVE  Anchored'
<1> DEFINE list == state.list
           i == After(list, HeardAt(Now).index, 1)
           status == state.anchor.status
           p == [index |-> i, elapsed |-> 0]
<1>1. list \in Playlist /\ Len(list) \in Nat /\ 1 \in 0 .. Len(list)
  BY AnchoredFacts, ListFacts, Listed
<1>2. Position(state.anchor, list, clock) = HeardAt(Now) /\ HeardAt(Now).index \in 1 .. Len(list)
  BY NowHeard
<1>3. i \in 1 .. Len(list)
  BY <1>1, <1>2, AfterIs
<1>4. status \in PlaybackStatus
  BY DEF Anchored, State, Anchor
<1>5. (status = "empty") = (list = <<>> /\ status # "stopped")
  OBVIOUS
<1>6. Persist(Persisted(v, list, Fresh(i, status, 0, Now)), p)
  BY <1>2
<1>7. Now \in Time /\ i \in Nat \ {0} /\ list \in Playlist \cup {<<>>} /\ 0 \in Nat
  BY <1>1, <1>3, AnchoredFacts
<1> HIDE DEF i, status, list
<1> QED BY <1>3, <1>4, <1>5, <1>6, <1>7, FreshAnchors

(* Playback goes on where it was paused. *)
LEMMA ResumeAnchors ==
    ASSUME Anchored, NEW v, clock' = clock, state.anchor.status = "paused",
           Persist(Persisted(v, state.list, Resumed(state.anchor, clock)), HeardAt(Now))
    PROVE  Anchored'
<1> DEFINE a == state.anchor
           list == state.list
           p == HeardAt(Now)
<1>1. list # <<>>
  BY DEF Anchored
<1>2. list \in Playlist /\ AnchorOf(a, list)
  BY <1>1, AnchoredFacts
<1>3. Now \in Time /\ Now \in Nat /\ Now >= a.evaluatedAt
  BY AnchoredFacts
<1>4. p = Position(a, list, Now)
  BY <1>1, <1>3, OnTime
<1>5. Resumed(a, clock) = Fresh(a.index, "running", a.elapsed, Now)
  BY DEF Resumed, Now
<1>6. a.status # "running" /\ a.status = "paused"
  OBVIOUS
<1>7. Persist(Persisted(v, list, Fresh(a.index, "running", a.elapsed, Now)), p)
  BY <1>5
<1> HIDE DEF a, list, p
<1>8. a.index \in 1 .. Len(list) /\ a.elapsed \in Nat /\ a.index \in Nat \ {0}
  BY <1>2, ListFacts DEF AnchorOf
<1>9. p = [index |-> a.index, elapsed |-> a.elapsed]
  <2>1. Shown(a, Now) = a.elapsed
    BY <1>2, <1>3, <1>6, <1>8, ShownIs
  <2>2. ~Moves(a, list)
    BY <1>6 DEF Moves
  <2> QED BY <1>2, <1>3, <1>4, <2>1, <2>2, PositionByUnits
<1>10. /\ "running" \in PlaybackStatus /\ list \in Playlist \cup {<<>>}
       /\ ("running" = "empty") = (list = <<>> /\ "running" # "stopped")
  BY <1>1, <1>2 DEF PlaybackStatus
<1> QED BY <1>3, <1>7, <1>8, <1>9, <1>10, FreshAnchors

(* Every command leaves an anchor of what is heard (executeInTransaction). *)
LEMMA ExecuteAnchors ==
    ASSUME Anchored, NEW action \in Action, NEW to \in Playlist, Execute(action, to)
    PROVE  Anchored'
<1> DEFINE a == state.anchor
           b == Transition(a, state.list, action, to, clock)
           h == HeardAfter(action, to, Now)
           v == Version + 1
<1>1. /\ Version = 0 => action = "start"
      /\ action \notin Replaces => to = state.list
      /\ Version = 0 \/ to # state.list \/ b # a
      /\ Persist(Persisted(v, to, b), h)
      /\ clock' = clock
  BY DEF Execute, timeVars
<1>2. action \notin Replaces => to = state.list /\ b # a
  BY <1>1 DEF Replaces
<1> HIDE DEF v
<1>3. CASE action = "start"
  <2>1. b = Started(to, Now)
    BY <1>3 DEF Transition, Now
  <2>2. h = First
    BY <1>3, Zenon DEF HeardAfter
  <2> QED BY <1>1, <2>1, <2>2, StartAnchors
<1>4. CASE action = "change"
  <2>1. b = Changed(a, state.list, to, clock)
    BY <1>4 DEF Transition
  <2> QED BY <1>1, <1>4, <2>1, ChangeAnchors
<1>5. CASE action = "restart"
  <2>1. b = [a EXCEPT !.evaluatedAt = Now] /\ to = state.list
    BY <1>2, <1>5 DEF Transition, Now, Replaces
  <2>2. h = HeardAt(Now)
    BY <1>5 DEF HeardAfter
  <2> QED BY <1>1, <2>1, <2>2, RestartAnchors
<1>6. CASE action = "pause"
  <2>1. b = (IF a.status = "running" THEN Halted(a, state.list, "paused", clock) ELSE a)
        /\ to = state.list /\ b # a
    BY <1>2, <1>6 DEF Transition, Replaces
  <2>2. a.status = "running" /\ b = Halted(a, state.list, "paused", clock)
    BY <2>1
  <2>3. h = HeardAt(Now)
    BY <1>6 DEF HeardAfter
  <2>4. Persist(Persisted(v, state.list, Halted(a, state.list, "paused", clock)), HeardAt(Now))
    BY <1>1, <2>1, <2>2, <2>3
  <2> QED BY <1>1, <2>2, <2>4, HaltAnchors
<1>7. CASE action = "resume"
  <2>1. b = (IF a.status = "paused" THEN Resumed(a, clock) ELSE a)
        /\ to = state.list /\ b # a
    BY <1>2, <1>7 DEF Transition, Replaces
  <2>2. h = HeardAt(Now)
    BY <1>7 DEF HeardAfter
  <2>3. a.status = "paused" /\ Persist(Persisted(v, state.list, Resumed(a, clock)), HeardAt(Now))
    BY <1>1, <2>1, <2>2
  <2> QED BY <1>1, <2>3, ResumeAnchors
<1>8. CASE action = "stop"
  <2>1. b = (IF a.status = "stopped" THEN a ELSE Halted(a, state.list, "stopped", clock))
        /\ to = state.list /\ b # a
    BY <1>2, <1>8 DEF Transition, Replaces
  <2>2. h = HeardAt(Now)
    BY <1>8 DEF HeardAfter
  <2>3. Persist(Persisted(v, state.list, Halted(a, state.list, "stopped", clock)), HeardAt(Now))
    BY <1>1, <2>1, <2>2
  <2> QED BY <1>1, <2>3, HaltAnchors
<1>9. CASE action = "advance"
  <2>1. b = (IF a.status \in {"empty", "stopped"} \/ state.list = <<>> THEN a
             ELSE Fresh(After(state.list, Position(a, state.list, clock).index, 1), a.status, 0, Now))
        /\ to = state.list /\ b # a
    BY <1>2, <1>9 DEF Transition, Replaces, Now
  <2>2. a.status \notin {"empty", "stopped"} /\ state.list # <<>>
    BY <2>1
  <2>3. Len(state.list) > 0
    BY <2>2, Listed, AnchoredFacts, ListFacts
  <2>4. h = [index |-> After(state.list, HeardAt(Now).index, 1), elapsed |-> 0]
    BY <1>9, <2>2, <2>3 DEF HeardAfter
  <2> QED BY <1>1, <2>1, <2>2, <2>4, AdvanceAnchors
<1> QED BY <1>3, <1>4, <1>5, <1>6, <1>7, <1>8, <1>9 DEF Action

(* Every step does: commands, assignments and transitions that are due. *)
LEMMA AnchoredStep == Anchored /\ [Next]_vars => Anchored'
<1> SUFFICES ASSUME Anchored, [Next]_vars
             PROVE  Anchored'
  OBVIOUS
<1>1. CASE UNCHANGED <<state, heard>> /\ clock' \in Time
  BY <1>1 DEF Anchored
<1>2. clock \in Time /\ Time \subseteq Nat
  BY MachineAssumption DEF Anchored, Time
<1>3. ASSUME NEW to \in Playlist, AssignPlaylist(to)
      PROVE  Anchored'
  BY <1>3, StartAnchors DEF AssignPlaylist, timeVars
<1>4. ASSUME NEW action \in Action, NEW to \in Playlist, Execute(action, to)
      PROVE  Anchored'
  BY <1>4, ExecuteAnchors
<1>5. ASSUME NEW r \in Revision \cup {Null}, AssignOnly(r)
      PROVE  Anchored'
  <2>1. clock' = clock
    BY <1>5 DEF AssignOnly, timeVars
  <2>2. CASE Playing(state)
    <3>1. Persist(Stopped, HeardAt(Now))
      BY <1>5, <2>2 DEF AssignOnly, StopIfPlaying
    <3> QED BY <2>1, <3>1, HaltAnchors DEF Stopped
  <2>3. CASE ~Playing(state)
    BY <1>1, <1>2, <1>5, <2>1, <2>3 DEF AssignOnly, StopIfPlaying
  <2> QED BY <2>2, <2>3
<1>6. ASSUME NEW r \in Revision, SetDesiredRevision(r)
      PROVE  Anchored'
  BY <1>1, <1>2, <1>6 DEF SetDesiredRevision, timeVars
<1>7. CASE Toggle \/ BuryExhausted
  BY <1>1, <1>2, <1>7 DEF Toggle, BuryExhausted, rowVars, timeVars
<1>8. CASE Tick \/ SetBack
  <2>1. clock' \in Time
    <3>1. MaxTime \in Nat /\ MaxClock \in 0 .. MaxTime /\ clock \in 0 .. MaxTime
      BY <1>2, PlaybackAssumption, MachineAssumption DEF Time
    <3>2. (clock < MaxClock /\ clock' = clock + 1) \/ (clock > 0 /\ clock' = clock - 1)
      BY <1>8 DEF Tick, SetBack
    <3> QED BY <3>1, <3>2 DEF Time
  <2> QED BY <1>1, <1>8, <2>1 DEF Tick, SetBack, rowVars
<1>9. ASSUME NEW e \in Event, RowStep(e)
      PROVE  Anchored'
  BY <1>1, <1>2, <1>9 DEF RowStep, timeVars
<1>10. ASSUME NEW s \in Slot, WorkerStep(s)
       PROVE  Anchored'
  <2>1. CASE AdvanceDue(s)
    <3> DEFINE act == IF active THEN "restart" ELSE "stop"
               b == Transition(state.anchor, state.list, act, state.list, clock)
    <3>1. /\ Persist(Persisted(Version + 1, state.list, b), HeardAt(Now))
          /\ state.anchor.status = "running"
          /\ clock' = clock
      BY <2>1 DEF AdvanceDue, Current, Handled, timeVars
    <3>2. CASE active
      <4>1. b = [state.anchor EXCEPT !.evaluatedAt = Now]
        BY <3>2 DEF Transition, Now
      <4> QED BY <3>1, <4>1, RestartAnchors
    <3>3. CASE ~active
      <4>1. b = Halted(state.anchor, state.list, "stopped", clock)
        BY <3>1, <3>3 DEF Transition
      <4> QED BY <3>1, <4>1, HaltAnchors
    <3> QED BY <3>2, <3>3
  <2>2. CASE StartRun(s) \/ SkipDue(s) \/ AckRun(s) \/ FailRun(s) \/ CrashRun(s)
    <3>1. UNCHANGED <<state, heard, clock>>
      BY <2>2 DEF StartRun, SkipDue, Handled, AckRun, FailRun, CrashRun, EndRun, rowVars, timeVars
    <3> QED BY <1>1, <1>2, <3>1
  <2> QED BY <1>10, <2>1, <2>2 DEF WorkerStep
<1>11. CASE UNCHANGED vars
  BY <1>1, <1>2, <1>11 DEF vars, rowVars, timeVars
<1> QED BY <1>3, <1>4, <1>5, <1>6, <1>7, <1>8, <1>9, <1>10, <1>11 DEF Next

(* Before the first version nothing is heard. *)
LEMMA AnchoredInit == Init => Anchored
<1> SUFFICES ASSUME Init
             PROVE  Anchored
  OBVIOUS
<1>1. 0 \in Time
  BY MachineAssumption DEF Time
<1>2. Fresh(1, "empty", 0, 0) \in Anchor
  BY <1>1 DEF Fresh, Anchor, PlaybackStatus
<1>3. NoState \in State
  BY <1>2, PlaybackAssumption DEF NoState, State
<1>4. /\ state = NoState /\ clock = 0 /\ heard = First
      /\ NoState.list = <<>> /\ NoState.next = Null /\ NoState.anchor.status = "empty"
      /\ NoState.anchor.at = 0 /\ NoState.anchor.evaluatedAt = 0
  BY DEF Init, NoState, Fresh
<1> QED BY <1>1, <1>3, <1>4 DEF Anchored

-----------------------------------------------------------------------------
(* Every position that can be read off the state, also after missed cycles,   *)
(* pauses, changes of the list and steps of the clock, is the one a playback  *)
(* has that goes on unit by unit (position of playback.machine.ts).           *)
THEOREM PositionsOnTime == Safe => []ItemOnTime
<1>1. Anchored => ItemOnTime
  <2> SUFFICES ASSUME Anchored, state.list # <<>>,
                      NEW t \in state.anchor.evaluatedAt .. MaxTime
               PROVE  Position(state.anchor, state.list, t) = HeardAt(t)
    BY DEF ItemOnTime
  <2>1. state.anchor.evaluatedAt \in Nat
    BY AnchoredFacts
  <2>2. t \in Nat /\ t >= state.anchor.evaluatedAt
    BY <2>1, MachineAssumption
  <2> QED BY <2>2, OnTime
<1> QED BY <1>1, AnchoredInit, AnchoredStep, PTL DEF Safe

(* Of playback that moves: what is heard, and when the item ends. *)
LEMMA NextIs ==
    ASSUME Anchored, state.list # <<>>
    PROVE  LET list == state.list
               d == list[heard.index].duration
           IN /\ heard \in [index : 1 .. Len(list), elapsed : Nat]
              /\ Moves(state.anchor, list) => IsAt(list, heard)
              /\ state.next = IF Moves(state.anchor, list) /\ d # Null
                              THEN state.anchor.evaluatedAt + d - heard.elapsed ELSE Null
<1> DEFINE a == state.anchor
           list == state.list
           t == state.anchor.evaluatedAt
           p == Position(a, list, t)
<1>1. list \in Playlist /\ AnchorOf(a, list) /\ t \in Nat
  BY AnchoredFacts
<1>2. heard = p /\ state.next = NextAt(a, list, t)
  BY DEF Anchored
<1>3. At(a, t) = t
  <2> HIDE DEF a
  <2>1. t = a.evaluatedAt /\ t >= t
    BY <1>1 DEF a
  <2> HIDE DEF t
  <2> QED BY <1>1, <2>1, ShownIs
<1>4. NextAt(a, list, t) = IF Moves(a, list) /\ list[p.index].duration # Null
                           THEN At(a, t) + list[p.index].duration - p.elapsed ELSE Null
  BY Zenon DEF NextAt
<1>5. p \in [index : 1 .. Len(list), elapsed : Nat] /\ (Moves(a, list) => IsAt(list, p))
  <2> HIDE DEF a, list, t
  <2> QED BY <1>1, PositionTyped
<1> HIDE DEF p
<1>6. state.next = IF Moves(a, list) /\ list[heard.index].duration # Null
                   THEN t + list[heard.index].duration - heard.elapsed ELSE Null
  BY <1>2, <1>3, <1>4
<1> QED BY <1>2, <1>5, <1>6

(* The next transition is due when the item ends: until then the item is the  *)
(* same, and then it is another; without one the item stays for ever          *)
(* (nextTransitionAt of playback.machine.ts).                                 *)
THEOREM TransitionsOnTime == Safe => []DueWhenItemEnds
<1>1. ASSUME Anchored, state.list # <<>>, NEW t \in Nat, t >= state.anchor.evaluatedAt
      PROVE  /\ state.next = Null \/ t < state.next => HeardAt(t).index = heard.index
             /\ state.next # Null /\ t = state.next => HeardAt(t).index # heard.index
  <2> DEFINE a == state.anchor
             list == state.list
             v == state.anchor.evaluatedAt
             d == list[heard.index].duration
             U == UnitByUnit(list, heard.index)
             passed == IF a.status = "running" THEN t - v ELSE 0
  <2>1. /\ heard \in [index : 1 .. Len(list), elapsed : Nat]
        /\ Moves(a, list) => IsAt(list, heard)
        /\ state.next = IF Moves(a, list) /\ d # Null THEN v + d - heard.elapsed ELSE Null
    BY <1>1, NextIs
  <2>2. list \in Playlist /\ Len(list) \in Nat /\ v \in Nat /\ heard.index \in 1 .. Len(list)
        /\ heard.elapsed \in Nat
    BY <1>1, <2>1, AnchoredFacts, ListFacts
  <2>3. d = Null \/ d \in Nat \ {0}
    BY <2>2, ListFacts
  <2>4. HeardAt(t) = Heard(a, list, [heard EXCEPT !.elapsed = @ + passed])
    BY DEF HeardAt
  <2>5. [heard EXCEPT !.elapsed = @ + passed] = [index |-> heard.index, elapsed |-> heard.elapsed + passed]
    BY <2>1
  <2>6. CASE ~Moves(a, list)
    <3>1. HeardAt(t) = [index |-> heard.index, elapsed |-> heard.elapsed + passed]
      BY <2>4, <2>5, <2>6 DEF Heard
    <3> QED BY <2>1, <2>6, <3>1
  <2>7. CASE Moves(a, list)
    <3>1. passed = t - v /\ Len(list) > 1
      BY <2>7 DEF Moves
    <3>2. HeardAt(t) = U[heard.elapsed + (t - v)]
      BY <2>4, <2>5, <2>7, <3>1 DEF Heard
    <3>3. d # Null => heard.elapsed < d
      BY <2>1, <2>7 DEF IsAt
    <3>4. state.next = IF d # Null THEN v + d - heard.elapsed ELSE Null
      BY <2>1, <2>7
    <3>5. heard.elapsed + (t - v) \in Nat
      BY <1>1, <2>2
    <3>6. ASSUME state.next = Null \/ t < state.next
          PROVE  HeardAt(t).index = heard.index
      <4>1. d = Null \/ heard.elapsed + (t - v) < d
        <5>1. CASE d = Null
          BY <5>1
        <5>2. CASE d # Null
          <6>1. v + d - heard.elapsed \in Int
            BY <2>2, <2>3, <5>2
          <6>2. state.next # Null
            BY <3>4, <5>2, <6>1, MachineAssumption
          <6>3. t < v + d - heard.elapsed
            BY <3>4, <3>6, <5>2, <6>2
          <6> HIDE DEF d, v
          <6> QED BY <2>2, <2>3, <5>2, <6>3
        <5> QED BY <5>1, <5>2
      <4>2. U[heard.elapsed + (t - v)] = [index |-> heard.index, elapsed |-> heard.elapsed + (t - v)]
        BY <2>2, <3>5, <4>1, EntryStays
      <4> QED BY <3>2, <4>2
    <3>7. ASSUME state.next # Null, t = state.next
          PROVE  HeardAt(t).index # heard.index
      <4>1. d # Null /\ t = v + d - heard.elapsed
        BY <3>4, <3>7
      <4>2. heard.elapsed + (t - v) = d
        <5> HIDE DEF d, v
        <5> QED BY <2>2, <2>3, <4>1
      <4>3. U[d] = [index |-> After(list, heard.index, 1), elapsed |-> 0]
        BY <2>2, <4>1, EntryEnds
      <4>4. HeardAt(t).index = After(list, heard.index, 1)
        BY <3>2, <4>2, <4>3
      <4>5. 1 \in 0 .. Len(list)
        BY <2>2, <3>1
      <4>6. After(list, heard.index, 1) =
               IF heard.index + 1 <= Len(list) THEN heard.index + 1 ELSE heard.index + 1 - Len(list)
        BY <2>2, <4>5, AfterIs
      <4>7. After(list, heard.index, 1) # heard.index
        BY <2>2, <3>1, <4>6
      <4> QED BY <4>4, <4>7
    <3> QED BY <3>6, <3>7
  <2> QED BY <2>6, <2>7
<1>2. Anchored => DueWhenItemEnds
  <2> SUFFICES ASSUME Anchored, state.list # <<>>
               PROVE  /\ \A t \in state.anchor.evaluatedAt .. MaxTime :
                            state.next = Null \/ t < state.next => HeardAt(t).index = heard.index
                      /\ state.next # Null => HeardAt(state.next).index # heard.index
    BY DEF DueWhenItemEnds
  <2>1. state.anchor.evaluatedAt \in Nat
    BY AnchoredFacts
  <2>2. ASSUME NEW t \in state.anchor.evaluatedAt .. MaxTime,
               state.next = Null \/ t < state.next
        PROVE  HeardAt(t).index = heard.index
    <3>1. t \in Nat /\ t >= state.anchor.evaluatedAt
      BY <2>1, MachineAssumption
    <3> QED BY <1>1, <2>2, <3>1
  <2>3. ASSUME state.next # Null
        PROVE  HeardAt(state.next).index # heard.index
    <3> DEFINE v == state.anchor.evaluatedAt
               d == state.list[heard.index].duration
    <3>1. /\ heard \in [index : 1 .. Len(state.list), elapsed : Nat]
          /\ Moves(state.anchor, state.list) => IsAt(state.list, heard)
          /\ state.next = IF Moves(state.anchor, state.list) /\ d # Null
                          THEN v + d - heard.elapsed ELSE Null
      BY NextIs
    <3>2. Moves(state.anchor, state.list) /\ d # Null /\ state.next = v + d - heard.elapsed
      BY <2>3, <3>1
    <3>3. d \in Nat \ {0} /\ heard.elapsed \in Nat /\ heard.elapsed < d
      <4>1. state.list \in Playlist
        BY AnchoredFacts
      <4> QED BY <3>1, <3>2, <4>1, ListFacts DEF IsAt
    <3>4. state.next \in Nat /\ state.next >= v
      <4> HIDE DEF d, v
      <4>1. v \in Nat
        BY <2>1 DEF v
      <4> QED BY <3>2, <3>3, <4>1
    <3> QED BY <1>1, <2>3, <3>4
  <2> QED BY <2>2, <2>3
<1> QED BY <1>2, AnchoredInit, AnchoredStep, PTL DEF Safe

-----------------------------------------------------------------------------
(* Types: what the invariants above leave. *)
Assigned ==
    /\ desired \in Revision \cup {Null}
    /\ active \in BOOLEAN
    /\ upsets \in Nat
    /\ backoff \subseteq Event

(* The item that is played has a revision. *)
LEMMA DesiredTyped ==
    ASSUME Anchored', Assigned, desired' = DesiredBy(state')
    PROVE  desired' \in Revision \cup {Null}
<1>1. CASE Playing(state')
  <2> DEFINE a == state'.anchor
             list == state'.list
             p == Position(a, list, a.evaluatedAt)
  <2>1. list # <<>>
    BY <1>1 DEF Anchored, Playing
  <2>2. list \in Playlist /\ AnchorOf(a, list) /\ a.evaluatedAt \in Nat
    <3>1. /\ a.at \in Time /\ a.evaluatedAt \in Time /\ a.elapsed \in Nat
          /\ a.at <= a.evaluatedAt /\ list \in Playlist /\ a.index \in 1 .. Len(list)
      BY <2>1 DEF Anchored, State, Anchor
    <3>2. Time \subseteq Nat
      BY MachineAssumption DEF Time
    <3> QED BY <3>1, <3>2 DEF AnchorOf
  <2>3. p \in [index : 1 .. Len(list), elapsed : Nat]
    <3> HIDE DEF a, list
    <3> QED BY <2>2, PositionTyped
  <2>4. desired' = list[p.index].revision
    BY <1>1 DEF DesiredBy, ItemOf
  <2>5. list[p.index] \in Entry
    BY <2>2, <2>3, ListFacts
  <2> QED BY <2>4, <2>5 DEF Entry
<1>2. CASE ~Playing(state')
  BY <1>2 DEF DesiredBy, Assigned
<1> QED BY <1>1, <1>2

(* Every step keeps the types of what the others do not speak of. *)
LEMMA AssignedStep == Anchored /\ TransitionInv /\ Assigned /\ [Next]_vars => Assigned'
<1> SUFFICES ASSUME Anchored, TransitionInv, Assigned, [Next]_vars
             PROVE  Assigned'
  OBVIOUS
<1>1. Anchored'
  BY AnchoredStep
<1>2. desired' = DesiredBy(state') => desired' \in Revision \cup {Null}
  BY <1>1, DesiredTyped
<1>3. CASE desired' \in Revision \cup {Null} /\ UNCHANGED <<active, upsets, backoff>>
  BY <1>3 DEF Assigned
<1>4. desired \in Revision \cup {Null}
  BY DEF Assigned
<1>5. ASSUME NEW to \in Playlist, AssignPlaylist(to)
      PROVE  Assigned'
  BY <1>2, <1>3, <1>5 DEF AssignPlaylist, timeVars, jobVars
<1>6. ASSUME NEW action \in Action, NEW to \in Playlist, Execute(action, to)
      PROVE  Assigned'
  BY <1>2, <1>3, <1>6 DEF Execute, timeVars, jobVars
<1>7. ASSUME NEW r \in Revision \cup {Null}, AssignOnly(r)
      PROVE  Assigned'
  BY <1>3, <1>7 DEF AssignOnly, timeVars, jobVars
<1>8. ASSUME NEW r \in Revision, SetDesiredRevision(r)
      PROVE  Assigned'
  BY <1>3, <1>8 DEF SetDesiredRevision, timeVars, jobVars
<1>9. CASE Toggle
  <2>1. active' \in BOOLEAN
    BY <1>9, Zenon DEF Toggle
  <2> QED BY <1>9, <2>1 DEF Toggle, Assigned, rowVars, jobVars
<1>10. CASE Tick \/ BuryExhausted
  BY <1>3, <1>4, <1>10 DEF Tick, BuryExhausted, rowVars, timeVars, jobVars
<1>11. CASE SetBack
  <2>1. upsets' = upsets + 1 /\ UNCHANGED <<desired, active, backoff>>
    BY <1>11, Zenon DEF SetBack, jobVars
  <2> QED BY <2>1 DEF Assigned
<1>12. ASSUME NEW e \in Event, RowStep(e)
       PROVE  Assigned'
  BY <1>3, <1>4, <1>12 DEF RowStep, timeVars, jobVars
<1>13. ASSUME NEW s \in Slot, WorkerStep(s)
       PROVE  Assigned'
  <2>1. CASE AdvanceDue(s)
    BY <1>2, <1>3, <2>1 DEF AdvanceDue, Handled, timeVars
  <2>2. CASE FailRun(s)
    <3>1. backoff' \subseteq Event
      BY <2>2 DEF FailRun, Assigned, TransitionInv, Receipted
    <3> QED BY <2>2, <3>1 DEF FailRun, EndRun, timeVars, Assigned
  <2>3. CASE StartRun(s) \/ SkipDue(s) \/ AckRun(s) \/ CrashRun(s)
    BY <1>3, <1>4, <2>3 DEF StartRun, SkipDue, Handled, AckRun, CrashRun, EndRun, rowVars, timeVars
  <2> QED BY <1>13, <2>1, <2>2, <2>3 DEF WorkerStep
<1>14. CASE UNCHANGED vars
  BY <1>3, <1>4, <1>14 DEF vars, rowVars, timeVars, jobVars
<1> QED BY <1>5, <1>6, <1>7, <1>8, <1>9, <1>10, <1>11, <1>12, <1>13, <1>14 DEF Next

(* Rows, runs and the anchor are well formed, and only a moving playlist has a *)
(* next transition, which is after the last evaluation (persist).             *)
THEOREM PlaybackTyped == Safe => []TypeOK
<1>1. Init => Assigned
  BY DEF Init, Assigned
<1>2. Anchored /\ TransitionInv /\ Assigned => TypeOK
  <2> SUFFICES ASSUME Anchored, TransitionInv, Assigned
               PROVE  TypeOK
    OBVIOUS
  <2>1. state.list # <<>> => state.anchor.index \in DOMAIN state.list
    BY ListFacts DEF Anchored
  <2>2. state.list # <<>> => heard \in [index : 1 .. Len(state.list), elapsed : Nat]
    BY NextIs
  <2>3. heard \in [index : Nat \ {0}, elapsed : Nat]
    <3>1. CASE state.list = <<>>
      BY <3>1 DEF Anchored, First
    <3>2. CASE state.list # <<>>
      BY <2>2, <3>2, ListFacts, AnchoredFacts
    <3> QED BY <3>1, <3>2
  <2>4. ASSUME state.next # Null
        PROVE  state.anchor.status = "running" /\ state.next > state.anchor.evaluatedAt
    <3> DEFINE v == state.anchor.evaluatedAt
               d == state.list[heard.index].duration
    <3>1. state.list # <<>>
      BY <2>4 DEF Anchored
    <3>2. /\ Moves(state.anchor, state.list) => IsAt(state.list, heard)
          /\ state.next = IF Moves(state.anchor, state.list) /\ d # Null
                          THEN v + d - heard.elapsed ELSE Null
      BY <3>1, NextIs
    <3>3. Moves(state.anchor, state.list) /\ d # Null /\ state.next = v + d - heard.elapsed
      BY <2>4, <3>2
    <3>4. d \in Nat \ {0} /\ heard.elapsed \in Nat /\ heard.elapsed < d /\ v \in Nat
      <4>1. state.list \in Playlist
        BY <3>1, AnchoredFacts
      <4> QED BY <2>2, <3>1, <3>2, <3>3, <4>1, ListFacts, AnchoredFacts DEF IsAt
    <3>5. state.next > v
      <4> HIDE DEF d, v
      <4> QED BY <3>3, <3>4
    <3> QED BY <3>3, <3>5 DEF Moves
  <2>5. receipts \subseteq Event
    BY DEF TransitionInv, Receipted
  <2>6. (state.anchor.status = "empty") = (state.list = <<>> /\ state.anchor.status # "stopped")
    BY DEF Anchored
  <2> QED BY <2>1, <2>3, <2>4, <2>5, <2>6 DEF TypeOK, Anchored, TransitionInv, Assigned, Table
<1> QED BY <1>1, <1>2, AnchoredInit, AnchoredStep, TransitionInvInit, TransitionInvStep,
           AssignedStep, PTL DEF Safe
================================================================================
