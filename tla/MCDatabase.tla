------------------------------- MODULE MCDatabase -------------------------------
(* What the database keeps: the outbox with two events of one effect key, one   *)
(* of which has a bad payload (OutboxDomain), and one publication (Publishing), *)
(* with the constants of the .cfg.  The one that is checked is chosen in the    *)
(* initial state; the other stays as it is.                                     *)
EXTENDS OutboxDomain, Publishing, TLC

CONSTANTS s1, s2, k1, k2, c1, c2

VARIABLE instance

MCOneQueue == [e \in Event |-> "timer"]
MCLimit    == [q \in Queue |-> 1]
MCSameKey  == [e \in Event |-> "k1"]

\* Two commands at a time, and a design that is saved again; no devices.
Commands ==
    /\ PublishNext
    /\ \A k \in Key : asked'[k] # Null => asked'[k].devices = {}
    /\ assigned' = assigned

\* A device whose assignment moves while retention goes over the revisions.
Retention ==
    /\ PublishNext
    /\ Cardinality({c \in Call : call'[c] # Null}) <= 1
    /\ draft' # Null => draft'.stamp = 1

Alike == Permutations({s1, s2}) \cup Permutations({k1, k2}) \cup Permutations({c1, c2})

MCInit ==
    /\ Init /\ PublishInit
    /\ instance \in {"outbox", "commands", "retention"}

MCNext ==
    /\ UNCHANGED instance
    /\ \/ instance = "outbox" /\ Next /\ UNCHANGED publishVars
       \/ instance = "commands" /\ Commands /\ UNCHANGED vars
       \/ instance = "retention" /\ Retention /\ UNCHANGED vars

MCSafe == MCInit /\ [][MCNext]_<<instance, vars, publishVars>>
=================================================================================
