---------------------------- MODULE WebDisplayLink ----------------------------
(***************************************************************************)
(* A web display and the gateway, and the connections between them:         *)
(*   backend/src/device-platform/web-display.gateway.ts   accept, receive,  *)
(*                             drain, handle, tick, check, disconnect       *)
(*   frontend/src/pages/display/WebDisplay.tsx            its socket        *)
(*   contracts/src/websocket.ts                           the time limits   *)
(*                                                                          *)
(* Time is counted in the gateway's ticks.  Deadlines are kept as the time  *)
(* that is left.  Within one unit the tick of the gateway, messages and     *)
(* answers of the database come in any order.                               *)
(*                                                                          *)
(* The content of presentations is left out (OutboxFanout, GatewayPush):    *)
(* the first push of a connection is a handler that takes some time.        *)
(***************************************************************************)
EXTENDS Integers, Sequences, FiniteSets, SequencesExt

CONSTANTS
    Conn,           \* sockets, used again when both ends have left one
    MaxPerDevice,   \* maxConnectionsPerDevice
    MaxPending,     \* maxPendingMessages
    Heartbeat, PongTimeout, AuthTimeout, CheckInterval, OpTimeout,
    SlowestPush,    \* the longest the first push of a connection takes
    Watchdog,       \* the display's own timeout
    MaxBackoff,     \* exponent of the longest wait before a reconnect
    Prompt,         \* whether a message on a link that is not cut arrives in time
    MaxPairs,       \* bound: pairings of the display
    MaxFaults,      \* bound: cuts, restarts and failed operations
    MaxSent,        \* bound: messages of a page on their way
    None

ASSUME LinkAssumption ==
    /\ {MaxPerDevice, MaxPending, Heartbeat, PongTimeout, AuthTimeout, CheckInterval,
        OpTimeout, SlowestPush, Watchdog, MaxPairs, MaxSent} \subseteq Nat \ {0}
    /\ {MaxBackoff, MaxFaults} \subseteq Nat
    /\ OpTimeout < PongTimeout /\ PongTimeout <= Heartbeat /\ Heartbeat + 1 < Watchdog
    /\ None \notin Conn /\ Prompt \in BOOLEAN

VARIABLES
    conns,    \* the gateway's Connection of each socket, and the link under it
    page,     \* state of the page
    socket,   \* the connection of its socket, or None
    dog,      \* its watchdog, -1 when it is not armed
    wait,     \* its reconnect timer, -1 when it is not armed
    attempt,  \* its failed attempts
    crowded,  \* history: whether a pong of its socket had more to wait for than one check
    cred,     \* the credential it uses, 0 for none
    stored,   \* the credential in localStorage
    valid,    \* the credential of the device that is not revoked
    pairs,    \* credentials issued
    ticked,   \* the gateway's tick of this unit is done
    faults

pageVars == <<page, socket, dog, wait, attempt, crowded>>
keyVars  == <<cred, stored, valid, pairs>>
vars == <<conns, pageVars, keyVars, ticked, faults>>

(* How long a dead link, or a revoked credential, keeps a place at the gateway. *)
LongestDead    == OpTimeout + Heartbeat + PongTimeout
LongestRevoked == CheckInterval + 2 * OpTimeout

ToServer == {"authenticate", "pong", "telemetry", "close"}
Codes    == {"1001", "1011", "4400", "4401", "4408", "4429"}
ToPage   == {"connected", "ping"} \cup Codes

Free ==
    [st |-> "free", cred |-> 0, auth |-> 0, ping |-> 0, pong |-> -1, check |-> 0,
     checking |-> -1, good |-> TRUE, work |-> "idle", left |-> -1, fine |-> TRUE,
     queue |-> <<>>, up |-> <<>>, down |-> <<>>, cut |-> -1, revoked |-> -1]

TypeOK ==
    /\ page \in {"connecting", "open", "connected", "closing", "offline", "unpaired", "error"}
    /\ socket \in Conn \cup {None}
    /\ dog \in -1 .. Watchdog /\ wait \in -1 .. 2 ^ MaxBackoff /\ attempt \in 0 .. MaxBackoff
    /\ {cred, stored, valid} \subseteq 0 .. MaxPairs /\ pairs \in 1 .. MaxPairs
    /\ faults \in 0 .. MaxFaults /\ crowded \in BOOLEAN
    /\ \A c \in Conn : LET k == conns[c] IN
          /\ k.st \in {"free", "new", "live", "gone"}
          /\ k.pong \in -1 .. PongTimeout /\ k.ping \in 0 .. Heartbeat
          /\ k.checking \in -1 .. OpTimeout
          /\ k.work \in {"idle", "authenticate", "push", "telemetry"}
          /\ Len(k.queue) <= MaxPending
          /\ Range(k.up) \subseteq ToServer /\ Range(k.down) \subseteq ToPage
          \* The page is on a socket exactly while it has one, and an armed
          \* watchdog is what an open one has.
          /\ k.st = "gone" => socket = c
    /\ socket = None <=> page \in {"connecting", "offline", "unpaired", "error"}
    /\ dog >= 0 <=> page \in {"open", "connected"}
    /\ wait >= 0 <=> page = "offline"

Init ==
    /\ conns = [c \in Conn |-> Free]
    /\ page = "connecting" /\ socket = None
    /\ dog = -1 /\ wait = -1 /\ attempt = 0 /\ crowded = FALSE
    /\ cred = 1 /\ stored = 1 /\ valid = 1 /\ pairs = 1
    /\ ticked = FALSE /\ faults = 0

-----------------------------------------------------------------------------
(* The gateway.                                                               *)
Known(k) == k.cred = valid

(* disconnect: the page learns the code unless it has left or the link is cut. *)
Closed(c, code) ==
    IF socket # c THEN Free
    ELSE [Free EXCEPT !.st = "gone", !.cut = conns[c].cut, !.down = Append(conns[c].down, code)]

Disconnect(c, code) == conns' = [conns EXCEPT ![c] = Closed(c, code)]

Open(k) == k.st \in {"new", "live"}

(* receive: messages of one connection wait for the handler of the one before. *)
Receive(c) ==
    LET k == conns[c] IN
    /\ k.up # <<>> /\ k.cut = -1
    /\ k.work = "idle" => k.queue = <<>>
    /\ CASE ~Open(k) -> conns' = [conns EXCEPT ![c] = [k EXCEPT !.up = Tail(@)]]
         [] Open(k) /\ Head(k.up) = "close" -> conns' = [conns EXCEPT ![c] = Free]
         [] Open(k) /\ Head(k.up) # "close" /\ Len(k.queue) >= MaxPending -> Disconnect(c, "4429")
         [] OTHER -> conns' = [conns EXCEPT ![c] =
                        [k EXCEPT !.up = Tail(@), !.queue = Append(@, Head(k.up))]]
    /\ UNCHANGED <<pageVars, keyVars, ticked, faults>>

(* check: a check that is running is shared. *)
Checking(k) ==
    IF k.checking >= 0 THEN k
    ELSE [k EXCEPT !.checking = OpTimeout, !.good = Known(k)]

(* Mutant: a pong counts only before the last tick of its deadline. *)
AnsweredEarly(k) == k.pong > 1

Answered(k) == k.pong > 0

Busy(k, work, time) == [k EXCEPT !.work = work, !.left = time, !.fine = Known(k)]

(* drain and handle: one message after the other, an answer of the database or *)
(* the first push in between.                                                 *)
Handle(c) ==
    LET k == conns[c]
        rest == [k EXCEPT !.queue = Tail(@)]
    IN
    /\ k.work = "idle" /\ k.queue # <<>>
    /\ CASE Head(k.queue) = "authenticate" ->
                conns' = [conns EXCEPT ![c] = Busy(rest, "authenticate", OpTimeout)]
         [] Head(k.queue) = "pong" /\ Answered(k) ->
                conns' = [conns EXCEPT ![c] = [rest EXCEPT !.pong = -1]]
         [] Head(k.queue) = "pong" /\ ~Answered(k) -> Disconnect(c, "4400")
         [] Head(k.queue) = "telemetry" ->
                conns' = [conns EXCEPT ![c] = [Checking(rest) EXCEPT !.work = "telemetry"]]
    /\ UNCHANGED <<pageVars, keyVars, ticked, faults>>

(* The credential was read at some time since the operation began. *)
Others(c) == {d \in Conn \ {c} : conns[d].st = "live"}

Authenticated(c) ==
    LET k == conns[c] IN
    /\ k.work = "authenticate"
    /\ \/ k.fine /\ Cardinality(Others(c)) >= MaxPerDevice /\ Disconnect(c, "4429")
       \/ /\ k.fine /\ Cardinality(Others(c)) < MaxPerDevice
          /\ conns' = [conns EXCEPT ![c] =
                [Busy(k, "push", SlowestPush) EXCEPT
                    !.st = "live", !.ping = Heartbeat, !.check = CheckInterval,
                    !.down = IF socket = c THEN Append(@, "connected") ELSE @]]
       \/ ~Known(k) /\ Disconnect(c, "4401")
    /\ UNCHANGED <<pageVars, keyVars, ticked, faults>>

Pushed(c) ==
    LET k == conns[c] IN
    /\ k.work = "push"
    /\ \/ k.fine /\ conns' = [conns EXCEPT ![c] = [k EXCEPT !.work = "idle", !.left = -1]]
       \/ ~Known(k) /\ Disconnect(c, "4401")
    /\ UNCHANGED <<pageVars, keyVars, ticked, faults>>

Checked(c) ==
    LET k == conns[c] IN
    /\ k.checking >= 0
    /\ \/ /\ k.good
          /\ conns' = [conns EXCEPT ![c] =
                [k EXCEPT !.checking = -1, !.work = IF @ = "telemetry" THEN "idle" ELSE @]]
       \/ ~Known(k) /\ Disconnect(c, "4401")
    /\ UNCHANGED <<pageVars, keyVars, ticked, faults>>

(* An operation fails or takes too long, or a delivery to the device fails. *)
OperationFails(c) ==
    /\ faults < MaxFaults
    /\ conns[c].st = "live" \/ conns[c].work = "authenticate"
    /\ Disconnect(c, "1011")
    /\ faults' = faults + 1
    /\ UNCHANGED <<pageVars, keyVars, ticked>>

(* Mutant: the next ping waits for the heartbeat after an answer. *)
PingedRarely(c) ==
    LET k == conns[c] IN
    IF k.pong = -1 /\ k.ping = 0
    THEN [k EXCEPT !.pong = PongTimeout, !.ping = Heartbeat + PongTimeout,
                   !.down = IF socket = c THEN Append(@, "ping") ELSE @]
    ELSE k

(* tick, for one connection. *)
Pinged(c) ==
    LET k == conns[c]
        m == IF k.check = 0 THEN [Checking(k) EXCEPT !.check = CheckInterval] ELSE k
    IN  IF k.pong = -1 /\ k.ping = 0
        THEN [m EXCEPT !.pong = PongTimeout, !.ping = Heartbeat,
                       !.down = IF socket = c THEN Append(@, "ping") ELSE @]
        ELSE m

(* Mutant: a new ping takes the place of one that was not answered. *)
TickedForgiving(c) ==
    LET k == conns[c] IN
    CASE k.st = "new" /\ k.auth = 0 -> Closed(c, "4408")
      [] k.st = "live" /\ k.ping = 0 -> [k EXCEPT !.pong = PongTimeout, !.ping = Heartbeat]
      [] OTHER -> k

(* Mutant: only displays that answer slowly are checked. *)
TickedUnchecked(c) ==
    LET k == conns[c] IN
    CASE k.st = "new" /\ k.auth = 0 -> Closed(c, "4408")
      [] k.st = "live" /\ k.pong = 0 -> Closed(c, "4408")
      [] k.st = "live" /\ k.pong # 0 -> [Pinged(c) EXCEPT !.checking = k.checking]
      [] OTHER -> k

Ticked(c) ==
    LET k == conns[c] IN
    CASE k.st = "new" /\ k.auth = 0 -> Closed(c, "4408")
      [] k.st = "live" /\ k.pong = 0 -> Closed(c, "4408")
      [] k.st = "live" /\ k.pong # 0 -> Pinged(c)
      [] OTHER -> k

Idle(k) == k.work = "idle" => k.queue = <<>>

(* The first push of the connection is not over when it is pinged: its pong    *)
(* waits for the push.                                                        *)
PingedEarly(k) == k.st = "live" /\ k.work = "push" /\ k.pong = -1 /\ k.ping = 0

Tick ==
    /\ ~ticked /\ ticked' = TRUE
    /\ \A c \in Conn : Idle(conns[c])
    /\ conns' = [c \in Conn |-> Ticked(c)]
    /\ crowded' = (crowded \/ (socket # None /\ PingedEarly(conns[socket])))
    /\ UNCHANGED <<page, socket, dog, wait, attempt, keyVars, faults>>

-----------------------------------------------------------------------------
(* The page.                                                                  *)
(* What is left of a socket when the page leaves it. *)
Left(c, up) ==
    [conns EXCEPT ![c] = IF @.st = "gone" THEN Free ELSE [@ EXCEPT !.up = up, !.down = <<>>]]

Connect(c) ==
    /\ page = "connecting" /\ conns[c].st = "free"
    /\ conns' = [conns EXCEPT ![c] = [Free EXCEPT !.st = "new", !.cred = cred,
                     !.auth = AuthTimeout, !.up = <<"authenticate">>,
                     !.revoked = IF cred = valid THEN -1 ELSE 0]]
    /\ page' = "open" /\ socket' = c /\ dog' = Watchdog
    /\ UNCHANGED <<wait, attempt, crowded, keyVars, ticked, faults>>

(* Mutant: the timer of a reconnect that is under way is left armed. *)
ReconnectAtOnce ==
    /\ page' = "connecting" /\ wait' = 2 ^ attempt
    /\ attempt' = IF attempt < MaxBackoff THEN attempt + 1 ELSE attempt
    /\ UNCHANGED <<cred, stored>>

(* onclose. *)
Reconnect ==
    /\ page' = "offline" /\ wait' = 2 ^ attempt
    /\ attempt' = IF attempt < MaxBackoff THEN attempt + 1 ELSE attempt
    /\ UNCHANGED <<cred, stored>>

(* Mutant: a refused credential is tried again. *)
RepairRetry ==
    /\ page' = "connecting" /\ wait' = -1 /\ attempt' = 0
    /\ UNCHANGED <<cred, stored>>

Repair ==
    /\ stored' = IF stored = cred THEN 0 ELSE stored
    /\ cred' = stored'
    /\ page' = IF stored' = 0 THEN "unpaired" ELSE "connecting"
    /\ wait' = -1 /\ attempt' = 0

OnClose(code) ==
    /\ socket' = None /\ dog' = -1 /\ crowded' = (code = "4400" /\ crowded)
    /\ CASE code = "4400" -> page' = "error" /\ UNCHANGED <<wait, attempt, cred, stored>>
         [] code = "4401" -> Repair
         [] OTHER -> Reconnect
    /\ UNCHANGED <<valid, pairs>>

OnMessage ==
    /\ socket # None /\ conns[socket].down # <<>> /\ conns[socket].cut = -1
    /\ LET k == conns[socket]
           message == Head(k.down)
           rest == [k EXCEPT !.down = Tail(@)]
       IN
       CASE message \in Codes -> OnClose(message) /\ conns' = [conns EXCEPT ![socket] = Free]
         [] message = "connected" /\ page = "open" ->
                /\ page' = "connected" /\ attempt' = 0 /\ dog' = Watchdog
                /\ conns' = [conns EXCEPT ![socket] = rest]
                /\ UNCHANGED <<socket, wait, crowded, keyVars>>
         [] message = "ping" /\ page \in {"open", "connected"} ->
                /\ dog' = Watchdog
                /\ conns' = [conns EXCEPT ![socket] = [rest EXCEPT !.up = Append(@, "pong")]]
                /\ UNCHANGED <<page, socket, wait, attempt, crowded, keyVars>>
         [] message \in {"connected", "ping"} /\ page = "closing" ->
                /\ conns' = [conns EXCEPT ![socket] = rest]
                /\ UNCHANGED <<pageVars, keyVars>>
    /\ UNCHANGED <<ticked, faults>>

WatchdogFires ==
    /\ dog = 0 /\ dog' = -1
    /\ page' = "closing"
    /\ UNCHANGED <<conns, socket, wait, attempt, crowded, keyVars, ticked, faults>>

(* The browser ends a socket: after close(), or because the link is cut. *)
SocketEnds ==
    /\ page = "closing" \/ (socket # None /\ conns[socket].cut >= 0)
    /\ OnClose("1006")
    /\ conns' = Left(socket, IF page = "closing" THEN Append(conns[socket].up, "close") ELSE <<>>)
    /\ UNCHANGED <<ticked, faults>>

ConnectAgain ==
    /\ wait = 0 /\ wait' = -1 /\ page' = "connecting"
    /\ UNCHANGED <<conns, socket, dog, attempt, crowded, keyVars, ticked, faults>>

(* The handshake is refused or not answered. *)
ConnectFails ==
    /\ page = "connecting" /\ faults < MaxFaults
    /\ OnClose("1006")
    /\ faults' = faults + 1
    /\ UNCHANGED <<conns, ticked>>

(* A report of the display is on its way, waits or is checked. *)
Reporting(k) == "telemetry" \in Range(k.up) \cup Range(k.queue) \cup {k.work}

(* A viewport report: the page waits only for the resizing to pause. *)
Resize ==
    /\ page = "connected" /\ conns[socket].st = "live" /\ Len(conns[socket].up) < MaxSent
    /\ conns' = [conns EXCEPT ![socket] = [conns[socket] EXCEPT !.up = Append(@, "telemetry")]]
    /\ crowded' = (crowded \/ Reporting(conns[socket]))
    /\ UNCHANGED <<page, socket, dog, wait, attempt, keyVars, ticked, faults>>

-----------------------------------------------------------------------------
(* The world around them.                                                     *)
Revoking(k) == IF Open(k) /\ Known(k) THEN [k EXCEPT !.revoked = 0] ELSE k

Revoke ==
    /\ valid # 0 /\ pairs < MaxPairs
    /\ valid' = 0
    /\ conns' = [c \in Conn |-> Revoking(conns[c])]
    /\ UNCHANGED <<pageVars, cred, stored, pairs, ticked, faults>>

(* The display is paired again, in this page when it asks for it or in another. *)
Pair ==
    /\ pairs < MaxPairs
    /\ pairs' = pairs + 1 /\ valid' = pairs + 1 /\ stored' = pairs + 1
    /\ conns' = [c \in Conn |-> Revoking(conns[c])]
    /\ IF page = "unpaired"
       THEN cred' = pairs + 1 /\ page' = "connecting"
       ELSE UNCHANGED <<cred, page>>
    /\ UNCHANGED <<socket, dog, wait, attempt, crowded, ticked, faults>>

(* A link goes silent; either end may find out, or not. *)
Cut(c) ==
    /\ faults < MaxFaults /\ conns[c].st # "free" /\ conns[c].cut = -1
    /\ conns' = [conns EXCEPT ![c] = [@ EXCEPT !.cut = 0]]
    /\ faults' = faults + 1
    /\ UNCHANGED <<pageVars, keyVars, ticked>>

GatewayNotices(c) ==
    /\ conns[c].cut >= 0 /\ Open(conns[c])
    /\ conns' = [conns EXCEPT ![c] =
                     IF socket = c THEN [Free EXCEPT !.st = "gone", !.cut = conns[c].cut] ELSE Free]
    /\ UNCHANGED <<pageVars, keyVars, ticked, faults>>

(* A server that stops says so, one that dies does not. *)
Restart ==
    /\ faults < MaxFaults
    /\ \/ conns' = [c \in Conn |-> IF Open(conns[c]) THEN Closed(c, "1001") ELSE conns[c]]
       \/ conns' = [c \in Conn |-> IF socket = c THEN [Free EXCEPT !.st = "gone", !.cut = 0] ELSE Free]
    /\ faults' = faults + 1
    /\ UNCHANGED <<pageVars, keyVars, ticked>>

-----------------------------------------------------------------------------
(* Time passes when what is due is done. *)
Due(c) ==
    LET k == conns[c] IN
    \/ ~Idle(k) \/ k.left = 0 \/ k.checking = 0
    \/ Prompt /\ k.cut = -1 /\ (k.up # <<>> \/ (socket = c /\ k.down # <<>>))

Down(n) == IF n > 0 THEN n - 1 ELSE n
Count(n, bound) == IF n >= 0 /\ n <= bound THEN n + 1 ELSE n

Older(k) ==
    [k EXCEPT !.auth = Down(@), !.ping = Down(@), !.pong = Down(@), !.check = Down(@),
              !.checking = Down(@), !.left = Down(@),
              !.cut = Count(@, LongestDead), !.revoked = Count(@, LongestRevoked)]

Time ==
    /\ ticked /\ ticked' = FALSE
    /\ dog # 0 /\ wait # 0
    /\ \A c \in Conn : ~Due(c)
    /\ conns' = [c \in Conn |-> Older(conns[c])]
    /\ dog' = Down(dog) /\ wait' = Down(wait)
    /\ UNCHANGED <<page, socket, attempt, crowded, keyVars, faults>>

Gateway(c) == Receive(c) \/ Handle(c) \/ Authenticated(c) \/ Pushed(c) \/ Checked(c)

Next ==
    \/ \E c \in Conn : Gateway(c) \/ OperationFails(c) \/ Connect(c) \/ Cut(c) \/ GatewayNotices(c)
    \/ Tick \/ Time
    \/ OnMessage \/ WatchdogFires \/ SocketEnds \/ ConnectAgain \/ ConnectFails \/ Resize
    \/ Revoke \/ Pair \/ Restart

Safe == Init /\ [][Next]_vars

(* Timers fire, messages arrive, the database answers, and the browser closes  *)
(* and opens sockets.                                                         *)
Fairness ==
    /\ WF_vars(Tick) /\ WF_vars(Time)
    /\ WF_vars(OnMessage) /\ WF_vars(WatchdogFires) /\ WF_vars(ConnectAgain)
    /\ WF_vars(page = "closing" /\ SocketEnds)
    /\ WF_vars(\E c \in Conn : Connect(c))
    /\ \A c \in Conn : WF_vars(Gateway(c))

Spec == Safe /\ Fairness

-----------------------------------------------------------------------------
(* A connection whose display is gone gives its place back within a heartbeat  *)
(* and a pong timeout, whatever it was doing: a display has few of them.       *)
DeadLinkEnds == \A c \in Conn : conns[c].st = "live" => conns[c].cut <= LongestDead

(* A connection with a revoked credential is closed within a check interval    *)
(* and two operations, whatever was on its way when it was revoked: what read  *)
(* the credential before may end well, the check after that does not.          *)
RevokedIsClosed == \A c \in Conn : conns[c].st = "live" => conns[c].revoked <= LongestRevoked

(* "Display protocol is incompatible. Reload or update this display."          *)
(* (WebDisplay.tsx:116): the page and the gateway speak the same protocol, and  *)
(* a pong behind the check of one report is not late.  The page says so only    *)
(* when more than that was before a pong: a second report, or the first push.   *)
ProtocolIsCompatible == page = "error" => crowded

(* A display that is connected stays so while nothing fails: neither end's     *)
(* timeouts and no limit of the queue end it, also when a report is checked     *)
(* before its pong.                                                            *)
StaysConnected ==
    [][page = "connected" /\ faults' = 0 /\ ~crowded /\ valid' = cred
        => page' = "connected"]_vars

(* A display whose stored credential is good is connected with it in the end,  *)
(* whatever failed before, dead connections that hold its places and queues     *)
(* that were full included, unless its pongs are crowded out again and again.   *)
Reconnects ==
    <>[](stored # 0 /\ stored = valid) /\ <>[]~crowded
        => <>[](page = "connected" /\ cred = valid)
===============================================================================
