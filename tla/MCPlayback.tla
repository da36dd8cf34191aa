------------------------------ MODULE MCPlayback ------------------------------
(* A small instance of Playback, with the constants of the .cfg.                *)
EXTENDS Playback

MCEvent   == 1 .. MaxVersion
MCQueueOf == [e \in Event |-> "timer"]
MCLimit   == [q \in Queue |-> 1]

Entry1(item, revision1, duration) ==
    [item |-> item, revision |-> revision1, duration |-> duration]

\* No entries; two that take turns; one of them and one that stays for ever.
Turns  == <<Entry1(1, "A", 1), Entry1(2, "B", 2)>>
Ending == <<Entry1(2, "B", 1), Entry1(3, "A", Null)>>
MCPlaylist == {<<>>, Turns, Ending}
===============================================================================
