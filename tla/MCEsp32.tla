-------------------------------- MODULE MCEsp32 --------------------------------
(* The ESP32 box: Esp32Clock, and Esp32Display with one server, several images  *)
(* and a file system that may be full, with the constants of the .cfg: without  *)
(* a power failure, or with one while there is no recovery page.  The one that  *)
(* is checked is chosen in the initial state; the other stays as it is.         *)
EXTENDS Esp32Clock, Esp32Display, TLC

CONSTANTS s1, c1

VARIABLE instance

MCHomeOf  == c1 :> s1
MCImageOf == <<"img1", "img1", "img2">>   \* the second content has the image of the first

MCInit ==
    /\ ClockInit /\ Init
    /\ instance \in {"clock", "powered", "failing"}
    /\ instance # "clock" => ~paired /\ interval = 1

MCNext ==
    /\ UNCHANGED instance
    /\ \/ instance = "clock" /\ ClockNext /\ UNCHANGED vars
       \/ instance = "powered" /\ Next /\ UNCHANGED <<crashes, clockVars>>
       \/ instance = "failing" /\ Next /\ ~lan'.active /\ UNCHANGED clockVars

MCSpec == MCInit /\ [][MCNext]_<<instance, clockVars, vars>> /\ Fairness
===============================================================================
