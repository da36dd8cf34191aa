--------------------------- MODULE MCOutboxFanout ---------------------------
(* Small instances of OutboxFanout for TLC, in which each event announces a   *)
(* change of its own.                                                         *)
EXTENDS OutboxFanout, TLC

CONSTANTS w1, c1, c2, x1

MCQueueOf  == [e \in Event |-> "delivery"]
MCLimit    == [q \in Queue |-> 1]
MCSequence == [e \in Event |-> e]
Processes  == Permutations({c1, c2})

(* Two changes at one process, or one with a display that moves between two.    *)
MovesOrAssigns ==
    outbox'[2].status # "absent" =>
        Cardinality({c \in Consumer : up'[c] # "new"}) <= 1

(* With two of one or the other, no process is stopped in order, and a           *)
(* connection that stayed open while its process registered again is followed no *)
(* further.                                                                      *)
Followed ==
    outbox'[2].status # "absent" \/ (up'[c1] # "new" /\ up'[c2] # "new") =>
        /\ \A c \in Consumer : up'[c] # "stopping"
        /\ \A x \in Socket : sock[x] # Nil /\ sock[x].exposed => sock'[x] = Nil

ProcessesSpec == FanoutInit /\ [][FanoutNext /\ MovesOrAssigns /\ Followed]_fanoutVars
=============================================================================
