------------------------------ MODULE MCDisplays ------------------------------
(* What the displays show, over retries, duplicates and power failures: the     *)
(* delivery of one change (OutboxFanout), and the ESP32 box (Esp32Display),     *)
(* with the constants of the .cfg.  The one that is checked is chosen in the   *)
(* initial state; the other stays as it is.                                    *)
EXTENDS OutboxFanout, Esp32Display, TLC

CONSTANTS w1, w2, p1, x1, s1, s2, c1, c2

VARIABLE instance

MCQueueOf  == [e \in Event |-> "delivery"]
MCLimit    == [q \in Queue |-> 1]
MCSameKey  == [e \in Event |-> 1]
Executions == Permutations(Worker)

MCHomeOf  == (c1 :> s1) @@ (c2 :> s2)
MCImageOf == <<"img1", "img1", "img2">>   \* the second content has the image of the first

(* An event that is tried again, and during its last attempt a duplicate of it,  *)
(* which has one attempt.  The process may crash, but is not stopped in order;   *)
(* a connection that stayed open while it registered again is closed, and with   *)
(* the duplicate none stays open.                                                *)
Delivering ==
    /\ FanoutNext
    /\ up'[p1] # "stopping"
    /\ sock[x1] # Nil /\ sock[x1].exposed => sock'[x1] = Nil
    /\ outbox'[2].status # "absent" =>
           /\ outbox'[1].attempts = MaxAttempts /\ outbox'[2].attempts <= 1
           /\ sock'[x1] # Nil => ~sock'[x1].exposed

(* The box moves between two servers, with one content of one of them and one    *)
(* power failure.                                                                *)
Moving == Next /\ crashes' <= 1 /\ content'[s1] <= 1 /\ content'[s2] = 0

(* The box stays with one server, whose content changes. *)
Staying == Next /\ ram'.url # s2 /\ codes'[c2] = "absent" /\ content'[s2] = 0

MCInit ==
    /\ FanoutInit /\ Init
    /\ instance \in {"delivering", "moving", "staying"}

MCNext ==
    /\ UNCHANGED instance
    /\ \/ instance = "delivering" /\ Delivering /\ UNCHANGED vars
       \/ instance = "moving" /\ Moving /\ UNCHANGED fanoutVars
       \/ instance = "staying" /\ Staying /\ UNCHANGED fanoutVars

MCSafe == MCInit /\ [][MCNext]_<<instance, fanoutVars, vars>>
===============================================================================
