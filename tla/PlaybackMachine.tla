---------------------------- MODULE PlaybackMachine ----------------------------
(***************************************************************************)
(* The pure playback domain: backend/src/playback/playback.machine.ts.      *)
(* An anchor says at which entry of a playlist, with how much of it already *)
(* shown, playback was at a time; Position derives the rest.  Entries are   *)
(* numbered from 1, their publication revisions are named by the entry.     *)
(***************************************************************************)
EXTENDS Integers, Sequences

CONSTANTS
    Null,       \* null
    MaxTime,    \* MAX_TIME
    Item,       \* ids of playlist items
    Revision,   \* ids of publication revisions
    Playlist    \* published playlists: sequences of entries

Time  == 0 .. MaxTime
Entry == [item : Item, revision : Revision, duration : (Nat \ {0}) \cup {Null}]

ASSUME MachineAssumption ==
    /\ MaxTime \in Nat
    /\ Null \notin Int /\ Null \notin Revision
    /\ \A list \in Playlist :
          /\ list \in Seq(Entry)
          /\ \A i, j \in DOMAIN list : list[i].item = list[j].item => i = j

PlaybackStatus == {"empty", "running", "paused", "stopped"}
Anchor == [status : PlaybackStatus, index : Nat \ {0}, at : Time, elapsed : Nat,
           evaluatedAt : Time]

Latest(s, t) == IF s > t THEN s ELSE t

(* time(): never before the last evaluation, nor before the anchor. *)
At(a, now) == Latest(now, Latest(a.evaluatedAt, a.at))

(* Entries are shown in turn. *)
After(list, i, k) == ((i - 1 + k) % Len(list)) + 1

Moves(a, list) == a.status = "running" /\ Len(list) > 1

(* How long k entries from the i-th on take together. *)
Lasting(list, i) ==
    LET sum[k \in 0 .. Len(list)] ==
            IF k = 0 THEN 0 ELSE sum[k - 1] + list[After(list, i, k - 1)].duration
    IN sum

Endless(list) == \E i \in DOMAIN list : list[i].duration = Null

Shown(a, now) == a.elapsed + (IF a.status = "running" THEN At(a, now) - a.at ELSE 0)

(* Mutant: missed cycles are not taken out. *)
WithinCycle(list, elapsed) == elapsed

(* Missed cycles are skipped at once. *)
Within(list, elapsed) ==
    IF Endless(list) THEN elapsed ELSE elapsed % Lasting(list, 1)[Len(list)]

(* Mutant: an entry is shown until its time is past. *)
StaysThrough(list, i, elapsed, k) ==
    \/ k = Len(list)
    \/ list[After(list, i, k)].duration = Null
    \/ elapsed <= Lasting(list, i)[k + 1]

(* The entries that elapsed passes from the i-th on: at most all, and none    *)
(* without a duration.                                                        *)
Stays(list, i, elapsed, k) ==
    \/ k = Len(list)
    \/ list[After(list, i, k)].duration = Null
    \/ elapsed < Lasting(list, i)[k + 1]

Passed(list, i, elapsed) ==
    CHOOSE k \in 0 .. Len(list) :
        Stays(list, i, elapsed, k) /\ \A j \in 0 .. k - 1 : ~Stays(list, i, elapsed, j)

(* position() of a playlist that is not empty. *)
Position(a, list, now) ==
    IF Moves(a, list)
    THEN LET elapsed == Within(list, Shown(a, now))
             k == Passed(list, a.index, elapsed)
         IN [index |-> After(list, a.index, k),
             elapsed |-> elapsed - Lasting(list, a.index)[k]]
    ELSE [index |-> a.index, elapsed |-> Shown(a, now)]

(* Mutant: the next transition is a whole duration away. *)
NextAtWhole(a, list, now) ==
    LET p == Position(a, list, now) IN
    IF Moves(a, list) /\ list[p.index].duration # Null
    THEN At(a, now) + list[p.index].duration
    ELSE Null

(* nextTransitionAt *)
NextAt(a, list, now) ==
    LET p == Position(a, list, now) IN
    IF Moves(a, list) /\ list[p.index].duration # Null
    THEN At(a, now) + list[p.index].duration - p.elapsed
    ELSE Null

-----------------------------------------------------------------------------
(* transition(): a is the anchor of playlist list, to the playlist it changes *)
(* to; a first start has no anchor.                                           *)
Fresh(i, status, elapsed, at) ==
    [status |-> status, index |-> i, at |-> at, elapsed |-> elapsed, evaluatedAt |-> at]

Started(to, at) == Fresh(1, IF to = <<>> THEN "empty" ELSE "running", 0, at)

CurrentOf(a, list, now) ==
    IF list = <<>> THEN [index |-> 1, elapsed |-> 0] ELSE Position(a, list, now)

(* "change" keeps the item that is shown, or begins anew when it is gone. *)
Kept(a, list, to, now) ==
    {i \in DOMAIN to : list # <<>> /\ to[i].item = list[Position(a, list, now).index].item}

Changed(a, list, to, now) ==
    LET status == IF a.status \in {"paused", "stopped"} THEN a.status ELSE "running" IN
    IF to = <<>> THEN Fresh(1, "empty", 0, At(a, now))
    ELSE IF Kept(a, list, to, now) = {} THEN Fresh(1, status, 0, At(a, now))
    ELSE Fresh(CHOOSE i \in Kept(a, list, to, now) : TRUE, status,
               Position(a, list, now).elapsed, At(a, now))

Halted(a, list, status, now) ==
    LET p == CurrentOf(a, list, now) IN Fresh(p.index, status, p.elapsed, At(a, now))

Resumed(a, now) == Fresh(a.index, "running", a.elapsed, At(a, now))

CanTransition(a, action) == action = "start" => a.status \in {"stopped", "empty"}

Transition(a, list, action, to, now) ==
    CASE action = "start"   -> Started(to, At(a, now))
      [] action = "restart" -> [a EXCEPT !.evaluatedAt = At(a, now)]
      [] action = "change"  -> Changed(a, list, to, now)
      [] action = "pause"   -> IF a.status = "running" THEN Halted(a, list, "paused", now) ELSE a
      [] action = "resume"  -> IF a.status = "paused" THEN Resumed(a, now) ELSE a
      [] action = "stop"    -> IF a.status = "stopped" THEN a ELSE Halted(a, list, "stopped", now)
      [] action = "advance" ->
            IF a.status \in {"empty", "stopped"} \/ list = <<>> THEN a
            ELSE Fresh(After(list, Position(a, list, now).index, 1), a.status, 0, At(a, now))
================================================================================
