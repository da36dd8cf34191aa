--------------------------------- MODULE MCWeb ---------------------------------
(* The gateway and its displays: WebDisplayLink and GatewayPush with the        *)
(* constants of the .cfg.  The one that is checked is chosen in the initial     *)
(* state; the other stays as it is.                                             *)
EXTENDS WebDisplayLink, GatewayPush, TLC

CONSTANTS Instances, x1, x2

VARIABLE instance

\* Two connections whose pushes are merged, one of which leaves.
Merging == PushNext /\ UNCHANGED desired

\* Two presentations whose deliveries overlap.
Overlapping == PushNext /\ live' \subseteq {x1} /\ UNCHANGED leaves

MCInit ==
    /\ instance \in Instances
    /\ Init /\ PushInit
    /\ instance = "link" => owed = {} /\ rendered = {1}

MCNext ==
    /\ UNCHANGED instance
    /\ \/ instance = "link" /\ Next /\ UNCHANGED pushVars
       \/ instance = "merging" /\ Merging /\ UNCHANGED vars
       \/ instance = "overlapping" /\ Overlapping /\ UNCHANGED vars

MCSafe == MCInit /\ [][MCNext]_<<instance, vars, pushVars>>

\* Fairness of WebDisplayLink, of what it does while it is the one that is checked.
Linked == instance = "link"
LinkFairness ==
    /\ WF_vars(Linked /\ Tick) /\ WF_vars(Linked /\ Time)
    /\ WF_vars(Linked /\ OnMessage)
    /\ WF_vars(Linked /\ WatchdogFires) /\ WF_vars(Linked /\ ConnectAgain)
    /\ WF_vars(Linked /\ page = "closing" /\ SocketEnds)
    /\ WF_vars(Linked /\ page = "connecting" /\ \E c \in Conn : Connect(c))
    /\ \A c \in Conn : WF_vars(Linked /\ Gateway(c))

\* Fairness of GatewayPush, which does nothing while it is not the one that is
\* checked.  Where presentations are merged no further one is rendered.
PushingFairness ==
    /\ \A t \in Task : WF_pushVars(~Linked /\ Work(t))
    /\ \A c \in Connection : WF_pushVars(~Linked /\ CheckEnds(c))
    /\ \A n \in Delivery : WF_pushVars(~Linked /\ Deliver(n))
    /\ WF_pushVars(instance = "overlapping" /\ Render)

MCSpec == MCSafe /\ LinkFairness /\ PushingFairness

(* A display whose stored credential is good is connected with it in the end,   *)
(* whatever failed before, dead connections that hold its places included.      *)
DisplayReconnects == Linked => Reconnects
===============================================================================
