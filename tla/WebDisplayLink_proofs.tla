------------------------ MODULE WebDisplayLink_proofs ------------------------
(***************************************************************************)
(* Proofs about the gateway's connections for any sockets, limits and       *)
(* deadlines, and any number of cuts, restarts, pairings and revocations;   *)
(* and about its pushes (GatewayPush), for any number of presentations.     *)
(***************************************************************************)
EXTENDS WebDisplayLink, GatewayPush, TLAPS

In(s, m)   == m \in Range(s)
Once(s, m) == \A i, j \in DOMAIN s : s[i] = m /\ s[j] = m => i = j

Inbox == {"authenticate", "pong", "telemetry"}
Link ==
    [st: {"free", "new", "live", "gone"}, cred: Nat, auth: Nat, ping: 0 .. Heartbeat,
     pong: -1 .. PongTimeout, check: 0 .. CheckInterval, checking: -1 .. OpTimeout,
     good: BOOLEAN, work: {"idle", "authenticate", "push", "telemetry"}, left: Int,
     fine: BOOLEAN, queue: Seq(Inbox), up: Seq(ToServer), down: Seq(ToPage),
     cut: Int, revoked: Int]

(* The page has a socket while it is on one; its timers run where they belong. *)
PageInv ==
    /\ page \in {"connecting", "open", "connected", "closing", "offline", "unpaired", "error"}
    /\ socket \in Conn \cup {None} /\ {ticked, crowded} \subseteq BOOLEAN /\ DOMAIN conns = Conn
    /\ socket = None <=> page \in {"connecting", "offline", "unpaired", "error"}
    /\ dog # -1 => page \in {"open", "connected"}
    /\ wait # -1 => page = "offline"
    /\ pairs \in Nat /\ {cred, stored, valid} \subseteq 0 .. pairs
    /\ page # "unpaired" => cred # 0

(* A connection c of the link k, for the page's socket s and state p.  Who is  *)
(* on the socket, and what may be on its way to the page.                      *)
Ends(c, k, s, p) ==
    /\ k.st = "free" => s # c
    /\ k.st = "gone" => s = c
    /\ k.st \in {"free", "gone"} => k.queue = <<>> /\ k.work = "idle" /\ k.checking = -1
    /\ s # c => k.down = <<>>
    /\ In(k.up, "close") => s # c
    /\ Once(k.down, "connected")
    /\ s = c /\ p = "connected" => k.st # "new" /\ ~In(k.down, "connected")

(* A connection that is not authenticated has this one message. *)
Fresh(k) ==
    k.st = "new" =>
        /\ k.pong = -1 /\ k.checking = -1 /\ k.down = <<>>
        /\ k.work \in {"idle", "authenticate"}
        /\ ~In(k.up, "pong") /\ ~In(k.up, "telemetry") /\ Once(k.up, "authenticate")
        /\ k.queue # <<>> => k.queue = <<"authenticate">>
        /\ In(k.up, "authenticate") => k.queue = <<>> /\ k.work = "idle"
        /\ k.work = "authenticate" => k.queue = <<>> /\ k.left \in 0 .. OpTimeout

(* A live one has at most one ping or pong on its way, while it waits for the   *)
(* pong, and pings are a heartbeat apart.  When the tick of this unit is done  *)
(* nothing is overdue.                                                         *)
Turn(k, done) ==
    k.st = "live" =>
        /\ k.work # "authenticate" /\ ~In(k.up, "authenticate") /\ ~In(k.queue, "authenticate")
        /\ Len(k.queue) <= MaxPending
        /\ k.pong = -1 => ~In(k.down, "ping") /\ ~In(k.up, "pong") /\ ~In(k.queue, "pong")
        /\ Once(k.down, "ping") /\ Once(k.up, "pong") /\ Once(k.queue, "pong")
        /\ In(k.down, "ping") => ~In(k.up, "pong") /\ ~In(k.queue, "pong")
        /\ In(k.up, "pong") => ~In(k.queue, "pong")
        /\ k.pong >= 0 => k.ping = k.pong + (Heartbeat - PongTimeout)
        /\ k.work = "push" => k.left \in Nat
        /\ k.work = "telemetry" => k.checking >= 0
        /\ done => k.pong # 0 /\ k.check # 0

(* A link that is cut: how much of the time it may take has passed. *)
Silent(k, done) ==
    k.cut >= 0 =>
        /\ k.st = "new" =>
              /\ k.work = "authenticate" => k.cut + k.left <= OpTimeout
              /\ k.work = "idle" /\ k.queue # <<>> => k.cut = 0
        /\ k.st = "live" /\ k.pong = -1 =>
              /\ k.cut + k.ping <= OpTimeout + Heartbeat
              /\ done /\ k.ping = 0 => k.cut < OpTimeout + Heartbeat
        /\ k.st = "live" /\ k.pong >= 0 => k.cut + k.pong <= LongestDead
        /\ k.st = "live" /\ In(k.queue, "pong") => k.cut + k.pong <= PongTimeout

(* Where the display's pongs are not crowded: it has one report, and a message  *)
(* waits only for the handler of another.                                      *)
Alone(k) ==
    k.st = "live" =>
        /\ k.queue \in {<<>>, <<"pong">>, <<"telemetry">>}
        /\ Once(k.up, "telemetry")
        /\ In(k.up, "telemetry") => k.queue # <<"telemetry">> /\ k.work # "telemetry"
        /\ k.queue = <<"telemetry">> => k.work # "telemetry"
        /\ k.work = "push" => k.pong = -1

(* There a ping is answered before its deadline, if messages arrive in time. *)
Answering(k) ==
    /\ ~In(k.down, "4400")
    /\ k.st = "live" =>
          /\ k.cut = -1 /\ (In(k.down, "ping") \/ In(k.up, "pong")) => k.pong = PongTimeout
          /\ k.queue = <<"pong">> =>
                /\ k.work = "telemetry" => k.checking < k.pong
                /\ k.work = "idle" => 0 < k.pong

(* For the valid credential v of n that were issued: one that is not valid any  *)
(* more never is again; what read it before ends within an operation, and the  *)
(* next check finds out.                                                       *)
Withdrawn(k, v, n) ==
    k.st \in {"new", "live"} =>
        /\ k.cred \in 1 .. n
        /\ k.revoked >= -1
        /\ k.revoked = -1 <=> k.cred = v
        /\ k.revoked >= 0 =>
              /\ k.st = "new" /\ k.work = "authenticate" /\ k.fine => k.revoked + k.left <= OpTimeout
              /\ k.st = "live" /\ k.checking >= 0 /\ k.good => k.revoked + k.checking <= OpTimeout
              /\ k.st = "live" /\ (k.checking = -1 \/ k.good) =>
                    k.revoked + k.check <= CheckInterval + OpTimeout
              /\ k.st = "live" /\ k.checking >= 0 /\ ~k.good =>
                    k.revoked + k.checking <= CheckInterval + 2 * OpTimeout

(* w tells whether they are crowded on the page's socket s. *)
Room(c, k, s, w) == s = c /\ ~w => Alone(k) /\ (Prompt => Answering(k))

Well(c, k, s, p, done, v, n, w) ==
    /\ k \in Link
    /\ Ends(c, k, s, p) /\ Fresh(k) /\ Turn(k, done) /\ Silent(k, done)
    /\ Room(c, k, s, w)
    /\ Withdrawn(k, v, n)

Good(c) == Well(c, conns[c], socket, page, ticked, valid, pairs, crowded)
Inv == PageInv /\ (Prompt /\ ~crowded => page # "error") /\ \A c \in Conn : Good(c)

(* The page's connection k while nothing fails: a ping is on its way to be      *)
(* answered from the tick that sent it until its pong is handled, and the      *)
(* watchdog g has more time left than the next ping.                           *)
Stay(k, p, g, done) ==
    /\ p = "connected" => k.st = "live"
    /\ k.st # "live" => ~In(k.down, "connected")
    /\ k.st = "live" =>
          /\ \A code \in Codes : ~In(k.down, code)
          /\ k.pong # -1 => In(k.down, "ping") \/ In(k.up, "pong") \/ k.queue = <<"pong">>
          /\ In(k.down, "ping") \/ In(k.up, "pong") => k.ping = Heartbeat
          /\ k.queue = <<"pong">> =>
                /\ k.work = "telemetry" => Heartbeat + k.checking <= OpTimeout + k.ping
                /\ k.work = "idle" => Heartbeat <= OpTimeout + k.ping
          /\ done /\ k.pong = -1 => k.ping > 0
          /\ p = "connected" =>
                /\ g + Heartbeat >= Watchdog
                /\ ~In(k.down, "ping") => g + Heartbeat >= Watchdog + k.ping

Steady(c, k, f) ==
    /\ f = 0 => k.cut = -1
    /\ socket = c /\ Open(k) => k.cred = cred
    /\ f = 0 /\ ~crowded /\ valid = cred /\ page \in {"open", "connected"} /\ socket = c =>
          Stay(k, page, dog, ticked)

Calm == faults \in Nat /\ dog \in Int /\ \A c \in Conn : Steady(c, conns[c], faults)

Kept == Inv' /\ (Prompt /\ Calm => Calm')

-----------------------------------------------------------------------------
LEMMA Constants ==
    /\ Heartbeat \in Nat /\ PongTimeout \in Nat /\ AuthTimeout \in Nat /\ CheckInterval \in Nat
    /\ OpTimeout \in Nat /\ SlowestPush \in Nat /\ Watchdog \in Nat /\ MaxPending \in Nat
    /\ MaxPending >= 1 /\ Heartbeat >= 1 /\ PongTimeout >= 1 /\ OpTimeout >= 1
    /\ CheckInterval >= 1 /\ SlowestPush >= 1 /\ Watchdog >= 1
    /\ OpTimeout < PongTimeout /\ PongTimeout <= Heartbeat /\ Heartbeat + 1 < Watchdog
    /\ None \notin Conn /\ Prompt \in BOOLEAN
BY LinkAssumption

(* Messages that are on their way, when one is added or the first one taken. *)
LEMMA AppendIn ==
    ASSUME NEW S, NEW s \in Seq(S), NEW x \in S
    PROVE  /\ Append(s, x) \in Seq(S)
           /\ \A m : In(Append(s, x), m) <=> In(s, m) \/ x = m
           /\ \A m : Once(s, m) /\ (x = m => ~In(s, m)) => Once(Append(s, x), m)
<1>1. /\ Append(s, x) \in Seq(S) /\ Len(s) \in Nat
      /\ DOMAIN s = 1 .. Len(s) /\ DOMAIN Append(s, x) = 1 .. Len(s) + 1
      /\ \A i \in DOMAIN s : Append(s, x)[i] = s[i]
      /\ Append(s, x)[Len(s) + 1] = x
  OBVIOUS
<1>. DEFINE f == Append(s, x)
<1>2. /\ Len(s) \in Nat
      /\ DOMAIN s = 1 .. Len(s) /\ DOMAIN f = 1 .. Len(s) + 1
      /\ \A i \in DOMAIN s : f[i] = s[i]
      /\ f[Len(s) + 1] = x
  BY <1>1
<1>. HIDE DEF f
<1>3. ASSUME NEW m PROVE In(f, m) <=> In(s, m) \/ x = m
  <2>1. ASSUME In(f, m) PROVE In(s, m) \/ x = m
    <3>1. PICK i \in DOMAIN f : f[i] = m
      BY <2>1 DEF In, Range
    <3>2. i \in DOMAIN s \/ i = Len(s) + 1
      BY <1>2
    <3> QED
      BY <1>2, <3>1, <3>2 DEF In, Range
  <2>2. ASSUME In(s, m) PROVE In(f, m)
    <3>1. PICK i \in DOMAIN s : s[i] = m
      BY <2>2 DEF In, Range
    <3>2. i \in DOMAIN f /\ f[i] = m
      BY <1>2, <3>1
    <3> QED
      BY <3>2 DEF In, Range
  <2>3. ASSUME x = m PROVE In(f, m)
    <3>1. Len(s) + 1 \in DOMAIN f /\ f[Len(s) + 1] = m
      BY <1>2, <2>3
    <3> QED
      BY <3>1 DEF In, Range
  <2> QED
    BY <2>1, <2>2, <2>3
<1>4. ASSUME NEW m, Once(s, m), x = m => ~In(s, m) PROVE Once(f, m)
  <2>. SUFFICES ASSUME NEW i \in DOMAIN f, NEW j \in DOMAIN f, f[i] = m, f[j] = m PROVE i = j
    BY DEF Once
  <2>1. \A n \in DOMAIN f : n \in DOMAIN s \/ n = Len(s) + 1
    BY <1>2
  <2>2. \A n \in DOMAIN s : s[n] = m => In(s, m)
    BY DEF In, Range
  <2> QED
    BY <1>2, <1>4, <2>1, <2>2 DEF Once
<1> QED
  BY <1>1, <1>3, <1>4 DEF f

LEMMA TailIn ==
    ASSUME NEW S, NEW s \in Seq(S), s # <<>>
    PROVE  /\ Tail(s) \in Seq(S) /\ Head(s) \in S /\ In(s, Head(s))
           /\ \A m : In(s, m) <=> In(Tail(s), m) \/ Head(s) = m
           /\ \A m : Once(s, m) => Once(Tail(s), m)
           /\ \A m : Once(s, m) /\ Head(s) = m => ~In(Tail(s), m)
<1>. DEFINE t == Tail(s)
<1>1. /\ t \in Seq(S) /\ Head(s) \in S /\ 1 \in DOMAIN s /\ s[1] = Head(s)
      /\ \A i \in DOMAIN t : i \in Nat /\ i >= 1 /\ i + 1 \in DOMAIN s /\ t[i] = s[i + 1]
  OBVIOUS
<1>. HIDE DEF t
<1>2. In(s, Head(s))
  BY <1>1 DEF In, Range
<1>3. \A m : In(s, m) <=> In(t, m) \/ Head(s) = m
  <2>1. \A m : In(t, m) => In(s, m)
    BY <1>1 DEF In, Range
  <2>2. \A i \in DOMAIN s : i = 1 \/ (i - 1 \in DOMAIN t /\ s[i] = t[i - 1])
    BY DEF t
  <2>3. \A m : In(s, m) => In(t, m) \/ Head(s) = m
    BY <1>1, <2>2 DEF In, Range
  <2> QED
    BY <1>2, <2>1, <2>3
<1>4. \A m : Once(s, m) => Once(t, m)
  <2>. SUFFICES ASSUME NEW m, Once(s, m), NEW i \in DOMAIN t, NEW j \in DOMAIN t, t[i] = m, t[j] = m
       PROVE i = j
    BY DEF Once
  <2>1. i + 1 = j + 1
    BY <1>1 DEF Once
  <2> QED
    BY <1>1, <2>1
<1>5. \A m : Once(s, m) /\ Head(s) = m => ~In(t, m)
  <2>. SUFFICES ASSUME NEW m, Once(s, m), Head(s) = m, In(t, m) PROVE FALSE
    OBVIOUS
  <2>1. PICK i \in DOMAIN t : t[i] = m
    BY DEF In, Range
  <2>2. i + 1 = 1
    BY <1>1, <2>1 DEF Once
  <2> QED
    BY <1>1, <2>2
<1> QED
  BY <1>1, <1>2, <1>3, <1>4, <1>5 DEF t

LEMMA Nothing ==
    /\ \A m : ~In(<<>>, m) /\ Once(<<>>, m)
    /\ \A m : In(<<"authenticate">>, m) => m = "authenticate"
    /\ Once(<<"authenticate">>, "authenticate")
BY DEF In, Once, Range

LEMMA Single ==
    \A x : /\ <<x>> # <<>> /\ Head(<<x>>) = x /\ Tail(<<x>>) = <<>> /\ Append(<<>>, x) = <<x>>
           /\ \A y : <<x>> = <<y>> => x = y
OBVIOUS

LEMMA Words ==
    /\ <<"pong">> # <<>> /\ <<"telemetry">> # <<>> /\ <<"authenticate">> # <<>>
    /\ <<"pong">> # <<"telemetry">> /\ <<"pong">> # <<"authenticate">>
    /\ <<"telemetry">> # <<"authenticate">>
OBVIOUS

LEMMA FreeLink ==
    /\ Free \in Link
    /\ Free.st = "free" /\ Free.queue = <<>> /\ Free.work = "idle" /\ Free.checking = -1
    /\ Free.up = <<>> /\ Free.down = <<>> /\ Free.cut = -1
BY Constants DEF Free, Link, Inbox, ToServer, ToPage, Codes

LEMMA LinkTypes ==
    ASSUME NEW k \in Link
    PROVE  /\ k.ping \in 0 .. Heartbeat /\ k.pong \in -1 .. PongTimeout
           /\ k.check \in 0 .. CheckInterval /\ k.checking \in -1 .. OpTimeout
           /\ k.left \in Int /\ k.cut \in Int /\ k.revoked \in Int /\ k.cred \in Nat
           /\ k.good \in BOOLEAN /\ k.fine \in BOOLEAN
           /\ k.queue \in Seq(Inbox) /\ k.up \in Seq(ToServer) /\ k.down \in Seq(ToPage)
           /\ k.st \in {"free", "new", "live", "gone"}
           /\ k.work \in {"idle", "authenticate", "push", "telemetry"}
BY DEF Link

LEMMA CheckingLink ==
    ASSUME NEW k \in Link
    PROVE  LET l == Checking(k) IN
           /\ l \in Link /\ l.checking >= 0
           /\ k.checking >= 0 => l = k
           /\ k.checking = -1 => l.checking = OpTimeout /\ (l.good => k.cred = valid)
           /\ l.st = k.st /\ l.cred = k.cred /\ l.auth = k.auth /\ l.ping = k.ping
           /\ l.pong = k.pong /\ l.check = k.check /\ l.work = k.work /\ l.left = k.left
           /\ l.fine = k.fine /\ l.queue = k.queue /\ l.up = k.up /\ l.down = k.down
           /\ l.cut = k.cut /\ l.revoked = k.revoked
<1>1. CASE k.checking >= 0
  BY <1>1 DEF Checking
<1>2. CASE ~(k.checking >= 0)
  <2>. DEFINE g == Known(k)
              l == [k EXCEPT !.checking = OpTimeout, !.good = g]
  <2>1. g \in BOOLEAN /\ (g => k.cred = valid)
    BY Zenon DEF Known
  <2>2. Checking(k) = l
    BY <1>2, Zenon DEF Checking
  <2>. HIDE DEF g
  <2>3. /\ l \in Link /\ l.checking = OpTimeout /\ l.good = g
        /\ l.st = k.st /\ l.cred = k.cred /\ l.auth = k.auth /\ l.ping = k.ping
        /\ l.pong = k.pong /\ l.check = k.check /\ l.work = k.work /\ l.left = k.left
        /\ l.fine = k.fine /\ l.queue = k.queue /\ l.up = k.up /\ l.down = k.down
        /\ l.cut = k.cut /\ l.revoked = k.revoked
    <3>1. OpTimeout \in -1 .. OpTimeout
      BY Constants
    <3> QED
      BY <2>1, <3>1 DEF Link
  <2> HIDE DEF l
  <2>4. OpTimeout >= 0 /\ ~(k.checking >= 0)
    BY <1>2, Constants
  <2>5. l.good => k.cred = valid
    BY <2>1, <2>3, Zenon
  <2> QED
    BY <2>2, <2>3, <2>4, <2>5
<1> QED
  BY <1>1, <1>2

LEMMA BusyLink ==
    ASSUME NEW k \in Link, NEW w \in {"authenticate", "push"}, NEW n \in Int
    PROVE  LET l == Busy(k, w, n) IN
           /\ l \in Link /\ l.work = w /\ l.left = n /\ (l.fine => k.cred = valid)
           /\ l.st = k.st /\ l.cred = k.cred /\ l.auth = k.auth /\ l.ping = k.ping
           /\ l.pong = k.pong /\ l.check = k.check /\ l.checking = k.checking
           /\ l.good = k.good /\ l.queue = k.queue /\ l.up = k.up /\ l.down = k.down
           /\ l.cut = k.cut /\ l.revoked = k.revoked
<1>. DEFINE g == Known(k)
            l == [k EXCEPT !.work = w, !.left = n, !.fine = g]
<1>1. g \in BOOLEAN /\ (g => k.cred = valid)
  BY Zenon DEF Known
<1>2. Busy(k, w, n) = l
  BY Zenon DEF Busy
<1>. HIDE DEF g
<1>3. /\ l \in Link /\ l.work = w /\ l.left = n /\ l.fine = g
      /\ l.st = k.st /\ l.cred = k.cred /\ l.auth = k.auth /\ l.ping = k.ping
      /\ l.pong = k.pong /\ l.check = k.check /\ l.checking = k.checking
      /\ l.good = k.good /\ l.queue = k.queue /\ l.up = k.up /\ l.down = k.down
      /\ l.cut = k.cut /\ l.revoked = k.revoked
  BY <1>1, Constants DEF Link
<1> HIDE DEF l
<1>4. l.fine => k.cred = valid
  BY <1>1, <1>3, Zenon
<1> QED
  BY <1>2, <1>3, <1>4

-----------------------------------------------------------------------------
(* Links that are free or that the page has yet to leave, whatever the rest.   *)
LEMMA FreeWell ==
    ASSUME NEW c, NEW s, NEW p, NEW done, NEW v, NEW n, NEW w, s # c
    PROVE  Well(c, Free, s, p, done, v, n, w)
BY FreeLink, Nothing DEF Well, Ends, Fresh, Turn, Silent, Room, Withdrawn

LEMMA GoneWell ==
    ASSUME NEW c, NEW p, NEW done, NEW v, NEW n, NEW w, NEW x \in Int,
           NEW m \in Seq(ToPage), Once(m, "connected"), p = "connected" => ~In(m, "connected"),
           Prompt /\ ~w => ~In(m, "4400")
    PROVE  Well(c, [Free EXCEPT !.st = "gone", !.cut = x, !.down = m], c, p, done, v, n, w)
<1>. DEFINE l == [Free EXCEPT !.st = "gone", !.cut = x, !.down = m]
<1>1. /\ l \in Link /\ l.st = "gone" /\ l.queue = <<>> /\ l.work = "idle" /\ l.checking = -1
      /\ l.up = <<>> /\ l.down = m
  BY FreeLink DEF Link
<1>. HIDE DEF l
<1>2. Ends(c, l, c, p)
  BY <1>1, Nothing DEF Ends
<1>3. Well(c, l, c, p, done, v, n, w)
  BY <1>1, <1>2 DEF Well, Fresh, Turn, Silent, Room, Alone, Answering, Withdrawn
<1> QED
  BY <1>3 DEF l

LEMMA SilentlyGone ==
    ASSUME NEW c, NEW p, NEW done, NEW v, NEW n, NEW w, NEW x \in Int
    PROVE  Well(c, [Free EXCEPT !.st = "gone", !.cut = x], c, p, done, v, n, w)
<1>. DEFINE l == [Free EXCEPT !.st = "gone", !.cut = x]
<1>1. /\ l \in Link /\ l.st = "gone" /\ l.queue = <<>> /\ l.work = "idle" /\ l.checking = -1
      /\ l.up = <<>> /\ l.down = <<>>
  BY FreeLink DEF Link
<1>. HIDE DEF l
<1>2. Ends(c, l, c, p) /\ ~In(l.down, "4400")
  BY <1>1, Nothing DEF Ends
<1>3. Well(c, l, c, p, done, v, n, w)
  BY <1>1, <1>2 DEF Well, Fresh, Turn, Silent, Room, Alone, Answering, Withdrawn
<1> QED
  BY <1>3 DEF l

LEMMA ClosedWell ==
    ASSUME Inv, NEW c \in Conn, NEW code \in Codes, NEW done, NEW v, NEW n,
           NEW w, ~w => ~crowded, Prompt /\ socket = c /\ ~w => code # "4400"
    PROVE  Well(c, Closed(c, code), socket, page, done, v, n, w)
<1>1. CASE socket # c
  <2>1. Closed(c, code) = Free
    BY <1>1, Zenon DEF Closed
  <2> QED
    BY <1>1, <2>1, FreeWell
<1>2. CASE socket = c
  <2>. DEFINE s == conns[c].down
              t == Append(s, code)
              x == conns[c].cut
  <2>1. s \in Seq(ToPage) /\ x \in Int /\ code \in ToPage
    BY LinkTypes DEF Inv, Good, Well, ToPage
  <2>2. /\ Once(s, "connected")
        /\ page = "connected" => ~In(s, "connected")
        /\ Prompt /\ ~w => ~In(s, "4400")
    BY <1>2 DEF Inv, Good, Well, Ends, Room, Answering
  <2>3. code # "connected"
    BY DEF Codes
  <2>4. Closed(c, code) = [Free EXCEPT !.st = "gone", !.cut = x, !.down = t]
    BY <1>2, Zenon DEF Closed
  <2>. HIDE DEF s, t, x
  <2>5. /\ t \in Seq(ToPage) /\ Once(t, "connected")
        /\ page = "connected" => ~In(t, "connected")
        /\ Prompt /\ ~w => ~In(t, "4400")
    BY <1>2, <2>1, <2>2, <2>3, AppendIn DEF t
  <2>. HIDE DEF t
  <2>6. Well(c, [Free EXCEPT !.st = "gone", !.cut = x, !.down = t], c, page, done, v, n, w)
    BY <2>1, <2>5, GoneWell
  <2> QED
    BY <1>2, <2>4, <2>6
<1> QED
  BY <1>1, <1>2

LEMMA ClosedSteady ==
    ASSUME Inv, Calm, NEW c \in Conn, NEW code \in Codes, NEW f \in {faults, faults + 1},
           f = 0 /\ ~crowded /\ valid = cred /\ socket = c /\ page \in {"open", "connected"} =>
              conns[c].st # "live"
    PROVE  Steady(c, Closed(c, code), f)
<1>. DEFINE k == conns[c]
            l == Closed(c, code)
<1>1. /\ k.down \in Seq(ToPage) /\ code \in ToPage /\ code # "connected" /\ k.cut \in Int
      /\ f = 0 => faults = 0
      /\ Steady(c, k, faults)
  BY LinkTypes DEF Inv, Good, Well, ToPage, Codes, Calm
<1>2. CASE socket # c
  <2>1. l = Free
    BY <1>2, Zenon DEF Closed
  <2> QED
    BY <1>2, <2>1, FreeLink DEF Steady, Open
<1>3. CASE socket = c
  <2>. DEFINE m == Append(k.down, code)
  <2>1. l = [Free EXCEPT !.st = "gone", !.cut = k.cut, !.down = m]
    BY <1>3, Zenon DEF Closed
  <2>2. m \in Seq(ToPage) /\ (~In(k.down, "connected") => ~In(m, "connected"))
    BY <1>1, AppendIn
  <2>. HIDE DEF k, m
  <2>3. l.st = "gone" /\ l.cut = k.cut /\ l.down = m
    BY <2>1 DEF Free
  <2>. HIDE DEF l
  <2>4. ASSUME f = 0, ~crowded, valid = cred, page \in {"open", "connected"}
        PROVE  Stay(l, page, dog, ticked)
    BY <1>1, <1>3, <2>2, <2>3, <2>4 DEF Steady, Stay, k
  <2>5. Steady(c, l, f)
    BY <1>1, <2>3, <2>4 DEF Steady, Open
  <2> QED
    BY <2>5 DEF l
<1> QED
  BY <1>2, <1>3

(* A step of one connection, the page and the credentials as they are. *)
LEMMA CrowdingStep ==
    ASSUME Inv, NEW c \in Conn, NEW l, conns' = [conns EXCEPT ![c] = l],
           UNCHANGED <<page, socket, dog, wait, keyVars, ticked>>,
           crowded' \in BOOLEAN, crowded => crowded', faults' \in {faults, faults + 1},
           Well(c, l, socket, page, ticked, valid, pairs, crowded'),
           Prompt /\ Calm => Steady(c, l, faults')
    PROVE  Kept
<1>1. UNCHANGED <<page, socket, dog, wait, cred, stored, valid, pairs, ticked>>
  BY DEF keyVars
<1>2. /\ DOMAIN conns' = Conn /\ conns'[c] = l
      /\ \A d \in Conn \ {c} : conns'[d] = conns[d]
  BY DEF Inv, PageInv
<1>3. PageInv' /\ (Prompt /\ ~crowded' => page' # "error")
  BY <1>1, <1>2 DEF Inv, PageInv
<1>4. ASSUME NEW d \in Conn PROVE Good(d)'
  BY <1>1, <1>2 DEF Inv, Good, Well, Room
<1>5. ASSUME Prompt, Calm PROVE Calm'
  <2>1. faults' \in Nat /\ dog' \in Int /\ (faults' = 0 => faults = 0)
    BY <1>1, <1>5 DEF Calm
  <2>2. Steady(c, conns[c], faults)'
    BY <1>1, <1>2, <1>5 DEF Steady
  <2>3. ASSUME NEW d \in Conn \ {c} PROVE Steady(d, conns[d], faults)'
    BY <1>1, <1>2, <1>5, <2>1 DEF Calm, Steady
  <2> QED
    BY <2>1, <2>2, <2>3 DEF Calm
<1> QED
  BY <1>3, <1>4, <1>5 DEF Inv, Kept

LEMMA LocalStep ==
    ASSUME Inv, NEW c \in Conn, NEW l, conns' = [conns EXCEPT ![c] = l],
           UNCHANGED <<pageVars, keyVars, ticked>>, faults' \in {faults, faults + 1},
           Well(c, l, socket, page, ticked, valid, pairs, crowded),
           Prompt /\ Calm => Steady(c, l, faults')
    PROVE  Kept
<1>1. /\ UNCHANGED <<page, socket, dog, wait, keyVars, ticked, crowded>> /\ crowded \in BOOLEAN
  BY DEF pageVars, Inv, PageInv
<1> QED
  BY <1>1, CrowdingStep

LEMMA FreeSteady ==
    ASSUME NEW c, NEW f, socket # c
    PROVE  Steady(c, Free, f)
BY FreeLink DEF Steady, Open

(* Unless a live connection of the page is closed while nothing fails. *)
LEMMA Disconnected ==
    ASSUME Inv, NEW c \in Conn, NEW code \in Codes, Disconnect(c, code),
           UNCHANGED <<pageVars, keyVars, ticked>>, faults' \in {faults, faults + 1},
           Prompt /\ socket = c /\ ~crowded => code # "4400",
           Prompt /\ Calm /\ faults' = 0 /\ ~crowded /\ valid = cred /\ socket = c =>
              conns[c].st # "live"
    PROVE  Kept
<1>. DEFINE l == Closed(c, code)
<1>1. Well(c, l, socket, page, ticked, valid, pairs, crowded) /\ conns' = [conns EXCEPT ![c] = l]
  BY ClosedWell DEF Disconnect
<1>2. ASSUME Prompt, Calm PROVE Steady(c, l, faults')
  BY <1>2, ClosedSteady
<1>. HIDE DEF l
<1> QED
  BY <1>1, <1>2, LocalStep

-----------------------------------------------------------------------------
(* The gateway's steps.  receive: *)
LEMMA ReceiveStep == ASSUME Inv, NEW c \in Conn, Receive(c) PROVE Kept
<1>. DEFINE k == conns[c]
            m == Head(k.up)
            u == Tail(k.up)
<1>1. /\ k.up # <<>> /\ k.cut = -1 /\ (k.work = "idle" => k.queue = <<>>)
      /\ UNCHANGED <<pageVars, keyVars, ticked>> /\ faults' = faults
      /\ Well(c, k, socket, page, ticked, valid, pairs, crowded)
      /\ Calm => Steady(c, k, faults)
  BY DEF Receive, Inv, Good, Calm
<1>2. k \in Link /\ k.up \in Seq(ToServer)
  BY <1>1, LinkTypes DEF Well
<1>3. /\ u \in Seq(ToServer) /\ m \in ToServer /\ In(k.up, m)
      /\ \A x : In(k.up, x) <=> In(u, x) \/ m = x
      /\ \A x : Once(k.up, x) => Once(u, x)
      /\ \A x : Once(k.up, x) /\ m = x => ~In(u, x)
  BY <1>1, <1>2, TailIn
<1>4. CASE ~Open(k)
  <2>. DEFINE l == [k EXCEPT !.up = u]
  <2>1. conns' = [conns EXCEPT ![c] = l]
    BY <1>4 DEF Receive
  <2>. HIDE DEF k, u
  <2>2. /\ l \in Link /\ l.st = k.st /\ l.queue = k.queue /\ l.work = k.work
        /\ l.checking = k.checking /\ l.up = u /\ l.down = k.down /\ l.cut = k.cut
    BY <1>2, <1>3 DEF Link
  <2>. HIDE DEF l
  <2>3. Well(c, l, socket, page, ticked, valid, pairs, crowded)
    BY <1>1, <1>3, <1>4, <2>2
       DEF Open, Well, Ends, Fresh, Turn, Silent, Room, Alone, Answering, Withdrawn
  <2>4. Calm => Steady(c, l, faults)
    BY <1>1, <1>4, <2>2 DEF Open, Steady, Stay
  <2> QED
    BY <1>1, <2>1, <2>3, <2>4, LocalStep
<1>5. CASE Open(k) /\ m = "close"
  <2>1. conns' = [conns EXCEPT ![c] = Free]
    BY <1>5 DEF Receive
  <2>2. socket # c
    BY <1>1, <1>3, <1>5 DEF Well, Ends
  <2> QED
    BY <1>1, <2>1, <2>2, FreeWell, FreeSteady, LocalStep
<1>6. ASSUME Open(k), m # "close"
      PROVE  /\ m \in Inbox
             /\ k.st = "new" => m = "authenticate" /\ k.queue = <<>>
             /\ k.st = "live" => m # "authenticate"
             /\ k.st = "live" /\ socket = c /\ ~crowded => k.queue = <<>>
  <2>. HIDE DEF k, m, u
  <2>1. m \in Inbox
    BY <1>3, <1>6 DEF ToServer, Inbox
  <2>2. k.st = "new" => m = "authenticate" /\ k.queue = <<>>
    BY <1>1, <1>3, <2>1 DEF Well, Fresh, Inbox
  <2>3. k.st = "live" => m # "authenticate"
    BY <1>1, <1>3 DEF Well, Turn
  <2>4. ASSUME k.st = "live", socket = c, ~crowded PROVE k.queue = <<>>
    <3>1. /\ In(k.up, m) /\ Turn(k, ticked) /\ (k.work = "idle" => k.queue = <<>>)
          /\ k.work \in {"idle", "authenticate", "push", "telemetry"} /\ Alone(k)
      BY <1>1, <1>2, <1>3, <2>4, LinkTypes DEF Well, Room
    <3>2. m \in {"pong", "telemetry"} /\ k.work \in {"idle", "push", "telemetry"}
      BY <2>1, <2>3, <2>4, <3>1 DEF Inbox, Turn
    <3>3. k.queue = <<"pong">> => In(k.queue, "pong")
      BY DEF In, Range
    <3>4. CASE m = "pong"
      BY <2>4, <3>1, <3>2, <3>3, <3>4 DEF Turn, Alone
    <3>5. CASE m = "telemetry"
      BY <2>4, <3>1, <3>2, <3>3, <3>5 DEF Turn, Alone
    <3> QED
      BY <3>2, <3>4, <3>5
  <2> QED
    BY <2>1, <2>2, <2>3, <2>4
<1>7. CASE Open(k) /\ m # "close" /\ Len(k.queue) >= MaxPending
  <2>1. Disconnect(c, "4429") /\ "4429" \in Codes /\ "4429" # "4400"
    BY <1>7 DEF Receive, Codes
  <2>2. socket = c /\ ~crowded => k.st # "live"
    <3>1. k.queue = <<>> => ~(Len(k.queue) >= MaxPending)
      BY Constants
    <3> QED
      BY <1>6, <1>7, <3>1
  <2> QED
    BY <1>1, <2>1, <2>2, Disconnected
<1>8. CASE Open(k) /\ m # "close" /\ ~(Len(k.queue) >= MaxPending)
  <2>. DEFINE q == Append(k.queue, m)
              l == [k EXCEPT !.up = u, !.queue = q]
  <2>1. conns' = [conns EXCEPT ![c] = l]
    BY <1>8 DEF Receive
  <2>2. /\ m \in Inbox
        /\ k.st = "new" => m = "authenticate" /\ k.queue = <<>>
        /\ k.st = "live" => m # "authenticate"
        /\ k.st = "live" /\ socket = c /\ ~crowded => k.queue = <<>>
    BY <1>6, <1>8
  <2>. HIDE DEF k, u, m
  <2>3. /\ k.queue \in Seq(Inbox) /\ k.st \in {"new", "live"}
        /\ Len(k.queue) \in Nat /\ Len(q) = Len(k.queue) + 1 /\ ~(Len(k.queue) >= MaxPending)
        /\ MaxPending \in Nat /\ q # <<>>
    <3>1. k.queue \in Seq(Inbox) /\ k.st \in {"new", "live"}
      BY <1>2, <1>8, LinkTypes DEF Open
    <3>2. ASSUME NEW s \in Seq(Inbox), NEW x \in Inbox
          PROVE  Len(s) \in Nat /\ Len(Append(s, x)) = Len(s) + 1 /\ Append(s, x) # <<>>
      OBVIOUS
    <3>3. Len(k.queue) \in Nat /\ Len(q) = Len(k.queue) + 1 /\ q # <<>>
      BY <2>2, <3>1, <3>2
    <3>. HIDE DEF q
    <3> QED
      BY <1>8, <3>1, <3>3, Constants
  <2>4. /\ q \in Seq(Inbox)
        /\ \A x : In(q, x) <=> In(k.queue, x) \/ m = x
        /\ \A x : Once(k.queue, x) /\ (m = x => ~In(k.queue, x)) => Once(q, x)
    BY <2>2, <2>3, AppendIn
  <2>5. k.queue = <<>> => q = <<m>>
    BY <2>2
  <2>. HIDE DEF q
  <2>6. /\ l \in Link /\ l.up = u /\ l.queue = q /\ l.st = k.st /\ l.cred = k.cred
        /\ l.ping = k.ping /\ l.pong = k.pong /\ l.check = k.check /\ l.checking = k.checking
        /\ l.good = k.good /\ l.work = k.work /\ l.left = k.left /\ l.fine = k.fine
        /\ l.down = k.down /\ l.cut = k.cut /\ l.revoked = k.revoked
    BY <1>2, <1>3, <2>4 DEF Link
  <2>. HIDE DEF l
  <2>7. Ends(c, l, socket, page)
    BY <1>1, <1>3, <2>3, <2>6 DEF Well, Ends
  <2>8. Fresh(l)
    <3>. SUFFICES ASSUME k.st = "new" PROVE Fresh(l)
      BY <2>6 DEF Fresh
    <3>1. m = "authenticate" /\ q = <<"authenticate">>
      BY <2>2, <2>5
    <3>2. /\ ~In(u, "pong") /\ ~In(u, "telemetry") /\ Once(u, "authenticate")
          /\ ~In(u, "authenticate") /\ k.work = "idle"
      BY <1>1, <1>3, <3>1 DEF Well, Fresh
    <3> QED
      BY <1>1, <2>6, <3>1, <3>2 DEF Well, Fresh
  <2>9. Turn(l, ticked)
    <3>. SUFFICES ASSUME k.st = "live" PROVE Turn(l, ticked)
      BY <2>6 DEF Turn
    <3>1. /\ Turn(k, ticked) /\ m # "authenticate" /\ Len(q) <= MaxPending
          /\ In(u, "authenticate") => In(k.up, "authenticate")
          /\ In(u, "pong") => In(k.up, "pong")
      BY <1>1, <1>3, <2>2, <2>3 DEF Well
    <3>2. m = "pong" => /\ ~In(u, "pong") /\ ~In(k.queue, "pong") /\ ~In(k.down, "ping")
                        /\ k.pong # -1
      BY <1>3, <3>1 DEF Turn
    <3>3. Once(u, "pong") /\ Once(q, "pong")
      BY <1>3, <2>4, <3>1, <3>2 DEF Turn
    <3>4. ~In(u, "authenticate") /\ ~In(q, "authenticate")
      BY <2>4, <3>1 DEF Turn
    <3> QED
      BY <2>4, <2>6, <3>1, <3>2, <3>3, <3>4 DEF Turn
  <2>10. Silent(l, ticked)
    BY <1>1, <2>6, Constants DEF Silent
  <2>11. Room(c, l, socket, crowded)
    <3>. SUFFICES ASSUME socket = c, ~crowded PROVE Alone(l) /\ (Prompt => Answering(l))
      BY DEF Room
    <3>1. Alone(k) /\ (Prompt => Answering(k))
      BY <1>1 DEF Well, Room
    <3>2. ASSUME k.st = "live"
          PROVE  /\ k.queue = <<>> /\ q = <<m>> /\ m \in {"pong", "telemetry"}
                 /\ q = <<"pong">> <=> m = "pong"
                 /\ q = <<"telemetry">> <=> m = "telemetry"
      BY <2>2, <2>5, <3>2, Single DEF Inbox
    <3>3. Alone(l)
      <4>. SUFFICES ASSUME k.st = "live" PROVE Alone(l)
        BY <2>6 DEF Alone
      <4>1. m = "telemetry" => ~In(u, "telemetry") /\ k.work # "telemetry"
        BY <1>3, <3>1 DEF Alone
      <4> QED
        BY <1>3, <2>6, <3>1, <3>2, <4>1, Words DEF Alone
    <3>4. ASSUME Prompt PROVE Answering(l)
      <4>1. k.checking \in -1 .. OpTimeout
        BY <1>2, LinkTypes
      <4>2. k.checking < PongTimeout /\ 0 < PongTimeout
        BY <4>1, Constants
      <4>3. Answering(k)
        BY <3>1, <3>4
      <4>4. k.st = "live" /\ m = "pong" => k.pong = PongTimeout
        BY <1>1, <1>3, <4>3 DEF Answering
      <4> QED
        BY <1>1, <1>3, <2>6, <3>2, <4>2, <4>3, <4>4 DEF Answering
    <3> QED
      BY <3>3, <3>4
  <2>12. Withdrawn(l, valid, pairs)
    BY <1>1, <2>6 DEF Well, Withdrawn
  <2>13. Well(c, l, socket, page, ticked, valid, pairs, crowded)
    BY <2>6, <2>7, <2>8, <2>9, <2>10, <2>11, <2>12 DEF Well
  <2>14. ASSUME Calm PROVE Steady(c, l, faults)
    <3>1. Steady(c, k, faults) /\ k.checking <= OpTimeout /\ k.checking \in Int
      BY <1>1, <1>2, <2>14, LinkTypes, Constants
    <3>2. ASSUME Stay(k, page, dog, ticked), socket = c, ~crowded
          PROVE  Stay(l, page, dog, ticked)
      <4>1. In(k.up, "pong") => In(u, "pong") \/ m = "pong"
        BY <1>3
      <4>2. m = "pong" /\ k.st = "live" => k.ping = Heartbeat
        BY <1>3, <3>2 DEF Stay
      <4>3. k.st = "live" => k.queue = <<>> /\ (q = <<"pong">> <=> m = "pong")
        BY <2>2, <2>5, <3>2, Single
      <4> QED
        <5>. SUFFICES ASSUME k.st = "live" PROVE Stay(l, page, dog, ticked)
          BY <2>6, <3>2 DEF Stay
        <5>1. k.queue # <<"pong">>
          BY <4>3, Words
        <5>2. k.pong # -1 => In(k.down, "ping") \/ In(k.up, "pong")
          BY <3>2, <5>1 DEF Stay
        <5>3. q = <<"pong">> => In(k.up, "pong") /\ k.ping = Heartbeat
          BY <1>3, <4>2, <4>3
        <5>4. Heartbeat + k.checking <= OpTimeout + Heartbeat /\ Heartbeat <= OpTimeout + Heartbeat
          BY <3>1, Constants
        <5>5. In(u, "pong") => In(k.up, "pong")
          BY <1>3
        <5> QED
          BY <2>6, <3>2, <4>1, <4>3, <5>2, <5>3, <5>4, <5>5 DEF Stay
    <3> QED
      BY <2>6, <3>1, <3>2 DEF Steady, Open
  <2> QED
    BY <1>1, <2>1, <2>13, <2>14, LocalStep
<1> QED
  BY <1>4, <1>5, <1>7, <1>8

(* drain and handle: *)
LEMMA HandleStep == ASSUME Inv, NEW c \in Conn, Handle(c) PROVE Kept
<1>. DEFINE k == conns[c]
            u == Tail(k.queue)
            rest == [k EXCEPT !.queue = u]
<1>1. /\ k.work = "idle" /\ k.queue # <<>>
      /\ UNCHANGED <<pageVars, keyVars, ticked>> /\ faults' = faults
      /\ Well(c, k, socket, page, ticked, valid, pairs, crowded)
      /\ k \in Link /\ (Calm => Steady(c, k, faults))
  BY DEF Handle, Inv, Good, Well, Calm
<1>2. k.st \in {"new", "live"} /\ k.queue \in Seq(Inbox)
  BY <1>1, LinkTypes DEF Well, Ends
<1>. DEFINE m == Head(k.queue)
<1>3. /\ u \in Seq(Inbox) /\ m \in Inbox /\ In(k.queue, m)
      /\ \A x : In(k.queue, x) <=> In(u, x) \/ m = x
      /\ \A x : Once(k.queue, x) => Once(u, x)
      /\ \A x : Once(k.queue, x) /\ m = x => ~In(u, x)
      /\ Len(u) <= Len(k.queue) /\ Len(u) \in Nat /\ Len(k.queue) \in Nat
  <2>1. Len(u) <= Len(k.queue) /\ Len(u) \in Nat /\ Len(k.queue) \in Nat
    BY <1>1, <1>2
  <2> QED
    BY <1>1, <1>2, <2>1, TailIn
<1>4. k.st = "new" => k.queue = <<"authenticate">> /\ m = "authenticate" /\ u = <<>>
  <2>1. k.st = "new" => k.queue = <<"authenticate">>
    BY <1>1 DEF Well, Fresh
  <2>2. Head(<<"authenticate">>) = "authenticate" /\ Tail(<<"authenticate">>) = <<>>
    BY Single
  <2> QED
    BY <2>1, <2>2
<1>5. k.st = "live" => m # "authenticate"
  BY <1>1, <1>3 DEF Well, Turn
<1>6. /\ m = "authenticate" <=> k.st = "new"
      /\ m \in {"pong", "telemetry"} <=> k.st = "live"
      /\ k.st = "live" /\ socket = c /\ ~crowded => k.queue = <<m>> /\ u = <<>> /\ Alone(k)
  <2>1. k.st = "live" /\ socket = c /\ ~crowded => Alone(k)
    BY <1>1 DEF Well, Room
  <2>2. k.st = "live" /\ socket = c /\ ~crowded => k.queue = <<m>> /\ u = <<>>
    <3>. SUFFICES ASSUME k.st = "live", socket = c, ~crowded PROVE k.queue = <<m>> /\ u = <<>>
      OBVIOUS
    <3>1. k.queue = <<"pong">> \/ k.queue = <<"telemetry">>
      BY <1>1, <2>1 DEF Alone
    <3>2. \A x : Head(<<x>>) = x /\ Tail(<<x>>) = <<>>
      BY Single
    <3> QED
      BY <3>1, <3>2
  <2> QED
    BY <1>2, <1>3, <1>4, <1>5, <2>1, <2>2 DEF Inbox
<1>7. /\ rest \in Link /\ rest.queue = u
      /\ rest.st = k.st /\ rest.cred = k.cred /\ rest.ping = k.ping /\ rest.check = k.check
      /\ rest.checking = k.checking /\ rest.good = k.good /\ rest.left = k.left
      /\ rest.fine = k.fine /\ rest.pong = k.pong /\ rest.work = k.work
      /\ rest.up = k.up /\ rest.down = k.down /\ rest.cut = k.cut /\ rest.revoked = k.revoked
  <2> HIDE DEF k, u
  <2> QED
    BY <1>1, <1>3 DEF Link
<1>8. CASE m = "authenticate"
  <2>. DEFINE l == Busy(rest, "authenticate", OpTimeout)
  <2>1. conns' = [conns EXCEPT ![c] = l]
    BY <1>8 DEF Handle
  <2>. HIDE DEF k, rest, u, m
  <2>2. /\ l \in Link /\ l.queue = u /\ l.work = "authenticate" /\ l.left = OpTimeout
        /\ l.fine => k.cred = valid
        /\ l.st = k.st /\ l.cred = k.cred /\ l.pong = k.pong /\ l.checking = k.checking
        /\ l.up = k.up /\ l.down = k.down /\ l.cut = k.cut /\ l.revoked = k.revoked
    <3>1. OpTimeout \in Int
      BY Constants
    <3> QED
      BY <1>7, <3>1, BusyLink
  <2>. HIDE DEF l
  <2>3. k.st = "new" /\ k.queue # <<>> /\ u = <<>>
    BY <1>1, <1>4, <1>6, <1>8
  <2>4. Ends(c, l, socket, page)
    BY <1>1, <2>2, <2>3 DEF Well, Ends
  <2>5. Fresh(l) /\ Turn(l, ticked)
    BY <1>1, <2>2, <2>3, Constants DEF Well, Fresh, Turn
  <2>6. Silent(l, ticked)
    BY <1>1, <2>2, <2>3, Constants DEF Well, Silent
  <2>7. Room(c, l, socket, crowded)
    BY <1>1, <2>2, <2>3 DEF Well, Room, Alone, Answering
  <2>8. Withdrawn(l, valid, pairs)
    BY <1>1, <2>2, <2>3, LinkTypes DEF Well, Withdrawn
  <2>9. Well(c, l, socket, page, ticked, valid, pairs, crowded)
    BY <2>2, <2>4, <2>5, <2>6, <2>7, <2>8 DEF Well
  <2>10. Calm => Steady(c, l, faults)
    BY <1>1, <2>2, <2>3 DEF Steady, Stay, Open
  <2> QED
    BY <1>1, <2>1, <2>9, <2>10, LocalStep
<1>9. CASE m = "pong" /\ Answered(k)
  <2>. DEFINE l == [rest EXCEPT !.pong = -1]
  <2>1. conns' = [conns EXCEPT ![c] = l]
    BY <1>9 DEF Handle
  <2>. HIDE DEF k, rest, u, m
  <2>2. /\ l \in Link /\ l.queue = u /\ l.pong = -1
        /\ l.st = k.st /\ l.cred = k.cred /\ l.ping = k.ping /\ l.check = k.check
        /\ l.checking = k.checking /\ l.good = k.good /\ l.work = k.work /\ l.left = k.left
        /\ l.fine = k.fine
        /\ l.up = k.up /\ l.down = k.down /\ l.cut = k.cut /\ l.revoked = k.revoked
    <3>1. -1 \in -1 .. PongTimeout
      BY Constants
    <3> QED
      BY <1>7, <3>1 DEF Link
  <2>. HIDE DEF l
  <2>3. /\ k.st = "live" /\ In(k.queue, "pong") /\ ~In(u, "pong") /\ k.pong > 0
        /\ ~In(k.up, "pong") /\ ~In(k.down, "ping")
    BY <1>1, <1>3, <1>6, <1>9 DEF Well, Turn, Answered
  <2>4. Ends(c, l, socket, page) /\ Fresh(l)
    BY <1>1, <2>2, <2>3 DEF Well, Ends, Fresh
  <2>5. Turn(l, ticked)
    BY <1>1, <1>3, <2>2, <2>3, Constants DEF Well, Turn
  <2>6. Silent(l, ticked)
    <3>1. k.ping \in 0 .. Heartbeat /\ k.cut \in Int /\ k.pong \in Int
      BY <1>1, LinkTypes
    <3>2. k.cut >= 0 => k.cut + k.pong <= PongTimeout
      BY <1>1, <2>3 DEF Well, Silent
    <3>3. k.ping = k.pong + (Heartbeat - PongTimeout)
      BY <1>1, <2>3, <3>1 DEF Well, Turn
    <3> QED
      BY <2>2, <2>3, <3>1, <3>2, <3>3, Constants DEF Silent
  <2>7. Room(c, l, socket, crowded)
    BY <1>1, <1>6, <2>2, <2>3, Words DEF Well, Room, Alone, Answering
  <2>8. Withdrawn(l, valid, pairs)
    BY <1>1, <2>2, <2>3 DEF Well, Withdrawn
  <2>9. Well(c, l, socket, page, ticked, valid, pairs, crowded)
    BY <2>2, <2>4, <2>5, <2>6, <2>7, <2>8 DEF Well
  <2>10. ASSUME Calm PROVE Steady(c, l, faults)
    <3>1. socket = c /\ ~crowded => k.queue = <<"pong">> /\ u = <<>>
      BY <1>6, <1>9, <2>3
    <3>2. /\ k.ping \in Int
          /\ socket = c /\ ~crowded /\ Stay(k, page, dog, ticked) => k.ping > 0
      BY <1>1, <2>3, <3>1, LinkTypes, Constants DEF Stay
    <3> QED
      BY <1>1, <2>2, <2>3, <2>10, <3>1, <3>2, Words DEF Steady, Stay, Open
  <2> QED
    BY <1>1, <2>1, <2>9, <2>10, LocalStep
<1>10. CASE m = "pong" /\ ~Answered(k)
  <2>1. Disconnect(c, "4400") /\ "4400" \in Codes
    BY <1>10 DEF Handle, Codes
  <2>2. ~(Prompt /\ socket = c /\ ~crowded)
    BY <1>1, <1>6, <1>10 DEF Well, Room, Answering, Answered
  <2> QED
    BY <1>1, <2>1, <2>2, Disconnected
<1>11. CASE m = "telemetry"
  <2>. DEFINE b == Checking(rest)
              l == [b EXCEPT !.work = "telemetry"]
  <2>1. conns' = [conns EXCEPT ![c] = l]
    BY <1>11 DEF Handle
  <2>. HIDE DEF k, rest, u, m
  <2>2. /\ b \in Link /\ b.checking >= 0 /\ b.queue = u
        /\ k.checking >= 0 => b.checking = k.checking /\ b.good = k.good
        /\ k.checking = -1 => b.checking = OpTimeout /\ (b.good => k.cred = valid)
        /\ b.st = k.st /\ b.cred = k.cred /\ b.ping = k.ping /\ b.check = k.check
        /\ b.left = k.left /\ b.fine = k.fine /\ b.pong = k.pong
        /\ b.up = k.up /\ b.down = k.down /\ b.cut = k.cut /\ b.revoked = k.revoked
    BY <1>7, CheckingLink
  <2> HIDE DEF b
  <2>3. /\ l \in Link /\ l.work = "telemetry" /\ l.checking = b.checking /\ l.good = b.good
        /\ l.st = b.st /\ l.cred = b.cred /\ l.ping = b.ping /\ l.check = b.check
        /\ l.left = b.left /\ l.fine = b.fine /\ l.pong = b.pong /\ l.queue = b.queue
        /\ l.up = b.up /\ l.down = b.down /\ l.cut = b.cut /\ l.revoked = b.revoked
    BY <2>2 DEF Link
  <2>. HIDE DEF l
  <2>4. /\ k.st = "live" /\ (In(k.queue, "pong") <=> In(u, "pong"))
        /\ socket = c /\ ~crowded => /\ k.queue = <<"telemetry">> /\ u = <<>> /\ Alone(k)
                                     /\ ~In(k.up, "telemetry") /\ k.queue # <<"pong">>
    BY <1>1, <1>3, <1>6, <1>11, Words DEF Alone
  <2>5. Ends(c, l, socket, page) /\ Fresh(l)
    BY <1>1, <2>2, <2>3, <2>4 DEF Well, Ends, Fresh
  <2>6. Turn(l, ticked)
    <3>1. Len(u) <= MaxPending
      BY <1>1, <1>3, <2>4, Constants DEF Well, Turn
    <3>2. Len(l.queue) <= MaxPending /\ l.queue = u
      BY <2>2, <2>3, <3>1
    <3> QED
      BY <1>1, <1>3, <2>2, <2>3, <2>4, <3>2 DEF Well, Turn
  <2>7. Silent(l, ticked)
    BY <1>1, <2>2, <2>3, <2>4 DEF Well, Silent
  <2>8. Room(c, l, socket, crowded)
    BY <1>1, <2>2, <2>3, <2>4, Words DEF Well, Room, Alone, Answering
  <2>9. Withdrawn(l, valid, pairs)
    <3>1. /\ k.checking \in -1 .. OpTimeout /\ k.revoked \in Int /\ k.check \in Nat
          /\ Withdrawn(k, valid, pairs)
      BY <1>1, LinkTypes, Constants DEF Well
    <3>2. CASE k.checking >= 0
      BY <2>2, <2>3, <2>4, <3>1, <3>2 DEF Withdrawn
    <3>3. CASE k.checking = -1
      <4>1. l.checking = OpTimeout /\ (l.revoked >= 0 => ~l.good)
        BY <2>2, <2>3, <2>4, <3>1, <3>3 DEF Withdrawn
      <4> QED
        BY <2>2, <2>3, <2>4, <3>1, <3>3, <4>1, Constants DEF Withdrawn
    <3> QED
      BY <3>1, <3>2, <3>3
  <2>10. Well(c, l, socket, page, ticked, valid, pairs, crowded)
    BY <2>3, <2>5, <2>6, <2>7, <2>8, <2>9 DEF Well
  <2>11. Calm => Steady(c, l, faults)
    BY <1>1, <2>2, <2>3, <2>4, Words DEF Steady, Stay, Open
  <2> QED
    BY <1>1, <2>1, <2>10, <2>11, LocalStep
<1> QED
  BY <1>3, <1>8, <1>9, <1>10, <1>11 DEF Inbox
(* The answer to authenticate: *)
LEMMA AuthenticatedStep == ASSUME Inv, NEW c \in Conn, Authenticated(c) PROVE Kept
<1>. DEFINE k == conns[c]
<1>1. /\ k.work = "authenticate" /\ k \in Link
      /\ UNCHANGED <<pageVars, keyVars, ticked>> /\ faults' = faults
      /\ Well(c, k, socket, page, ticked, valid, pairs, crowded)
      /\ k.st # "live" /\ (Calm => Steady(c, k, faults))
  BY DEF Authenticated, Inv, Good, Well, Turn, Calm
<1>2. CASE Disconnect(c, "4429") \/ Disconnect(c, "4401")
  BY <1>1, <1>2, Disconnected DEF Codes
<1>3. ASSUME k.fine,
             conns' = [conns EXCEPT ![c] =
                [Busy(k, "push", SlowestPush) EXCEPT
                    !.st = "live", !.ping = Heartbeat, !.check = CheckInterval,
                    !.down = IF socket = c THEN Append(@, "connected") ELSE @]]
      PROVE  Kept
  <2>. DEFINE b == Busy(k, "push", SlowestPush)
              d == IF socket = c THEN Append(b.down, "connected") ELSE b.down
              l == [b EXCEPT !.st = "live", !.ping = Heartbeat, !.check = CheckInterval,
                             !.down = d]
  <2>1. conns' = [conns EXCEPT ![c] = l]
    BY <1>3
  <2>. HIDE DEF k
  <2>2. /\ b \in Link /\ b.work = "push" /\ b.left = SlowestPush
        /\ b.cred = k.cred /\ b.pong = k.pong /\ b.checking = k.checking
        /\ b.queue = k.queue /\ b.up = k.up /\ b.down = k.down
        /\ b.cut = k.cut /\ b.revoked = k.revoked
    <3>1. SlowestPush \in Int
      BY Constants
    <3> QED
      BY <1>1, <3>1, BusyLink
  <2>. HIDE DEF b
  <2>3. k.st = "new" /\ k.queue = <<>> /\ k.down = <<>> /\ k.pong = -1 /\ k.checking = -1
    BY <1>1, LinkTypes DEF Well, Ends, Fresh, Turn
  <2>4. \/ d = <<>>
        \/ d = <<"connected">> /\ socket = c
    BY <2>2, <2>3
  <2>5. d \in Seq(ToPage)
    <3>1. <<"connected">> \in Seq(ToPage) /\ <<>> \in Seq(ToPage)
      BY DEF ToPage
    <3> QED
      BY <2>4, <3>1
  <2>. HIDE DEF d
  <2>6. /\ l \in Link /\ l.st = "live" /\ l.work = "push" /\ l.left = SlowestPush
        /\ l.ping = Heartbeat /\ l.check = CheckInterval /\ l.down = d
        /\ l.cred = b.cred /\ l.pong = b.pong /\ l.checking = b.checking
        /\ l.queue = b.queue /\ l.up = b.up /\ l.cut = b.cut /\ l.revoked = b.revoked
    <3>1. Heartbeat \in 0 .. Heartbeat /\ CheckInterval \in 0 .. CheckInterval
      BY Constants
    <3> QED
      BY <2>2, <2>5, <3>1 DEF Link
  <2>. HIDE DEF l
  <2>7. /\ Once(d, "connected") /\ \A x : x # "connected" => ~In(d, x) /\ Once(d, x)
        /\ socket # c => d = <<>>
    BY <2>4 DEF In, Once, Range
  <2>8. Ends(c, l, socket, page)
    BY <1>1, <2>2, <2>3, <2>6, <2>7 DEF Well, Ends
  <2>9. Fresh(l)
    BY <2>6 DEF Fresh
  <2>10. Turn(l, ticked)
    <3>1. /\ ~In(k.up, "authenticate") /\ ~In(k.up, "pong") /\ ~In(k.up, "telemetry")
          /\ \A x : ~In(k.up, x) => Once(k.up, x)
      BY <1>1, <2>3 DEF Well, Fresh, In, Once, Range
    <3>2. l.queue = <<>> /\ ~In(l.queue, "pong") /\ ~In(l.queue, "authenticate") /\ Once(l.queue, "pong")
      BY <2>2, <2>3, <2>6, Nothing
    <3>3. SlowestPush \in Nat /\ CheckInterval # 0 /\ Len(<<>>) <= MaxPending
      BY Constants
    <3> QED
      BY <2>2, <2>3, <2>6, <2>7, <3>1, <3>2, <3>3 DEF Turn
  <2>11. Silent(l, ticked)
    <3>1. k.cut >= 0 => k.cut <= OpTimeout
      BY <1>1, <2>3, LinkTypes, Constants DEF Well, Fresh, Silent
    <3>2. ~In(l.queue, "pong") /\ k.cut \in Int
      BY <1>1, <2>2, <2>3, <2>6, Nothing, LinkTypes
    <3> QED
      BY <2>2, <2>3, <2>6, <3>1, <3>2, Constants DEF Silent
  <2>12. Room(c, l, socket, crowded)
    <3>1. ~In(k.up, "pong") /\ ~In(k.up, "telemetry") /\ Once(k.up, "telemetry")
      BY <1>1, <2>3 DEF Well, Fresh, In, Once, Range
    <3> QED
      BY <2>2, <2>3, <2>6, <2>7, <3>1, Words DEF Room, Alone, Answering
  <2>13. Withdrawn(l, valid, pairs)
    <3>1. k.revoked >= 0 => k.revoked <= OpTimeout
      BY <1>1, <1>3, <2>3, LinkTypes, Constants DEF Well, Fresh, Withdrawn
    <3>2. k.revoked \in Int
      BY <1>1, LinkTypes
    <3> QED
      BY <1>1, <2>2, <2>3, <2>6, <3>1, <3>2, Constants DEF Well, Withdrawn
  <2>14. Well(c, l, socket, page, ticked, valid, pairs, crowded)
    BY <2>6, <2>8, <2>9, <2>10, <2>11, <2>12, <2>13 DEF Well
  <2>15. ASSUME Calm PROVE Steady(c, l, faults)
    <3>1. Steady(c, k, faults) /\ Open(k) /\ Heartbeat > 0 /\ l.queue # <<"pong">>
      <4>1. l.queue # <<"pong">>
        BY <2>2, <2>3, <2>6, Words
      <4> QED
        BY <1>1, <2>3, <2>15, <4>1, Constants DEF Open
    <3>2. ~In(k.up, "pong") /\ ~In(d, "ping") /\ (\A code \in Codes : ~In(d, code))
      BY <1>1, <2>3, <2>7 DEF Well, Fresh, Codes
    <3>3. ASSUME Stay(k, page, dog, ticked) PROVE Stay(l, page, dog, ticked)
      BY <2>2, <2>3, <2>6, <3>1, <3>2, <3>3 DEF Stay
    <3> QED
      BY <2>2, <2>6, <3>1, <3>3 DEF Steady
  <2> QED
    BY <1>1, <2>1, <2>14, <2>15, LocalStep
<1> QED
  BY <1>2, <1>3 DEF Authenticated

(* The end of the first push: *)
LEMMA PushedStep == ASSUME Inv, NEW c \in Conn, Pushed(c) PROVE Kept
<1>. DEFINE k == conns[c]
            l == [k EXCEPT !.work = "idle", !.left = -1]
<1>1. /\ k.work = "push" /\ k \in Link
      /\ UNCHANGED <<pageVars, keyVars, ticked>> /\ faults' = faults
      /\ Well(c, k, socket, page, ticked, valid, pairs, crowded)
      /\ Calm => Steady(c, k, faults)
  BY DEF Pushed, Inv, Good, Well, Calm
<1>2. CASE ~Known(k) /\ Disconnect(c, "4401")
  BY <1>1, <1>2, Disconnected DEF Codes, Known, Steady, Open
<1>3. CASE conns' = [conns EXCEPT ![c] = l]
  <2>. HIDE DEF k
  <2>1. /\ l \in Link /\ l.work = "idle"
        /\ l.st = k.st /\ l.cred = k.cred /\ l.ping = k.ping /\ l.pong = k.pong
        /\ l.check = k.check /\ l.checking = k.checking /\ l.good = k.good
        /\ l.queue = k.queue /\ l.up = k.up /\ l.down = k.down
        /\ l.cut = k.cut /\ l.revoked = k.revoked
    <3>1. -1 \in Int /\ "idle" \in {"idle", "authenticate", "push", "telemetry"}
      OBVIOUS
    <3> QED
      BY <1>1, <3>1 DEF Link
  <2>. HIDE DEF l
  <2>2. k.st = "live"
    BY <1>1, LinkTypes DEF Well, Ends, Fresh
  <2>. DEFINE room == socket = c /\ ~crowded
  <2>3. room => k.queue # <<"pong">>
    <3>1. k.queue = <<"pong">> => In(k.queue, "pong")
      BY DEF In, Range
    <3> QED
      BY <1>1, <2>2, <3>1 DEF Well, Turn, Room, Alone
  <2>4. Ends(c, l, socket, page) /\ Fresh(l)
    BY <1>1, <2>1, <2>2 DEF Well, Ends, Fresh
  <2>5. Turn(l, ticked)
    BY <1>1, <2>1, <2>2 DEF Well, Turn
  <2>6. Silent(l, ticked) /\ Room(c, l, socket, crowded)
    BY <1>1, <2>1, <2>2, <2>3 DEF Well, Silent, Room, Alone, Answering
  <2>7. Withdrawn(l, valid, pairs)
    BY <1>1, <2>1, <2>2 DEF Well, Withdrawn
  <2>8. Well(c, l, socket, page, ticked, valid, pairs, crowded)
    BY <2>1, <2>4, <2>5, <2>6, <2>7 DEF Well
  <2>9. Calm => Steady(c, l, faults)
    BY <1>1, <2>1, <2>2, <2>3 DEF Steady, Stay, Open
  <2> QED
    BY <1>1, <1>3, <2>8, <2>9, LocalStep
<1> QED
  BY <1>2, <1>3 DEF Pushed

(* The answer to a check: *)
LEMMA CheckedStep == ASSUME Inv, NEW c \in Conn, Checked(c) PROVE Kept
<1>. DEFINE k == conns[c]
            w == IF k.work = "telemetry" THEN "idle" ELSE k.work
            l == [k EXCEPT !.checking = -1, !.work = w]
<1>1. /\ k.checking >= 0 /\ k \in Link
      /\ UNCHANGED <<pageVars, keyVars, ticked>> /\ faults' = faults
      /\ Well(c, k, socket, page, ticked, valid, pairs, crowded)
      /\ Calm => Steady(c, k, faults)
  BY DEF Checked, Inv, Good, Well, Calm
<1>2. CASE ~Known(k) /\ Disconnect(c, "4401")
  BY <1>1, <1>2, Disconnected DEF Codes, Known, Steady, Open
<1>3. ASSUME k.good, conns' = [conns EXCEPT ![c] = l] PROVE Kept
  <2>. HIDE DEF k
  <2>1. /\ w \in {"idle", "authenticate", "push", "telemetry"} /\ w # "telemetry"
        /\ w # "idle" => w = k.work
        /\ w = "idle" => k.work \in {"idle", "telemetry"}
    BY <1>1, LinkTypes
  <2>. HIDE DEF w
  <2>2. /\ l \in Link /\ l.work = w /\ l.checking = -1 /\ l.left = k.left
        /\ l.st = k.st /\ l.cred = k.cred /\ l.ping = k.ping /\ l.pong = k.pong
        /\ l.check = k.check /\ l.good = k.good
        /\ l.queue = k.queue /\ l.up = k.up /\ l.down = k.down
        /\ l.cut = k.cut /\ l.revoked = k.revoked
    <3>1. -1 \in -1 .. OpTimeout
      BY Constants
    <3> QED
      BY <1>1, <2>1, <3>1 DEF Link
  <2>. HIDE DEF l
  <2>3. k.st = "live"
    BY <1>1, LinkTypes DEF Well, Ends, Fresh
  <2>4. Ends(c, l, socket, page) /\ Fresh(l)
    BY <1>1, <2>2, <2>3 DEF Well, Ends, Fresh
  <2>5. Turn(l, ticked)
    BY <1>1, <2>1, <2>2, <2>3 DEF Well, Turn
  <2>6. Silent(l, ticked)
    BY <1>1, <2>2, <2>3 DEF Well, Silent
  <2>7. Room(c, l, socket, crowded)
    <3>. SUFFICES ASSUME socket = c, ~crowded PROVE Alone(l) /\ (Prompt => Answering(l))
      BY DEF Room
    <3>1. Alone(k) /\ (Prompt => Answering(k))
      BY <1>1 DEF Well, Room
    <3>2. Alone(l)
      BY <2>1, <2>2, <2>3, <3>1 DEF Alone
    <3>3. ASSUME Prompt PROVE Answering(l)
      <4>1. k.checking >= 0 /\ k.checking \in Int /\ k.pong \in Int
        BY <1>1, LinkTypes
      <4> QED
        BY <2>1, <2>2, <2>3, <3>1, <3>3, <4>1 DEF Answering
    <3> QED
      BY <3>2, <3>3
  <2>8. Withdrawn(l, valid, pairs)
    BY <1>1, <1>3, <2>2, <2>3 DEF Well, Withdrawn
  <2>9. Well(c, l, socket, page, ticked, valid, pairs, crowded)
    BY <2>2, <2>4, <2>5, <2>6, <2>7, <2>8 DEF Well
  <2>10. ASSUME Calm PROVE Steady(c, l, faults)
    <3>1. k.checking >= 0 /\ k.checking \in Int /\ k.ping \in Int
      BY <1>1, LinkTypes, Constants
    <3>2. ASSUME Stay(k, page, dog, ticked) PROVE Stay(l, page, dog, ticked)
      <4>1. k.queue = <<"pong">> /\ w = "idle" => Heartbeat <= OpTimeout + k.ping
        BY <2>1, <2>3, <3>1, <3>2, Constants DEF Stay
      <4> QED
        BY <2>1, <2>2, <2>3, <3>2, <4>1 DEF Stay
    <3> QED
      BY <1>1, <2>2, <2>10, <3>2 DEF Steady, Open
  <2> QED
    BY <1>1, <1>3, <2>9, <2>10, LocalStep
<1> QED
  BY <1>2, <1>3 DEF Checked

LEMMA OperationFailsStep == ASSUME Inv, NEW c \in Conn, OperationFails(c) PROVE Kept
<1>1. /\ Disconnect(c, "1011") /\ faults' = faults + 1
      /\ UNCHANGED <<pageVars, keyVars, ticked>>
      /\ Calm => faults' # 0
  BY DEF OperationFails, Calm
<1> QED
  BY <1>1, Disconnected DEF Codes
-----------------------------------------------------------------------------
(* The page and the links.  A connection that a step of the page leaves alone: *)
LEMMA OthersStay ==
    ASSUME NEW d \in Conn, Good(d), conns'[d] = conns[d], UNCHANGED <<ticked, valid, pairs>>,
           socket' = d <=> socket = d, socket' = d => crowded' = crowded,
           socket = d /\ page' = "connected" => page = "connected"
    PROVE  Good(d)'
BY DEF Good, Well, Ends, Room

(* A connection that the page is not on, or does not use any more. *)
LEMMA OthersSteady ==
    ASSUME NEW d \in Conn, Steady(d, conns[d], faults), conns'[d] = conns[d],
           socket' = d => socket = d /\ cred' = cred /\ page' \notin {"open", "connected"},
           faults' = 0 => faults = 0
    PROVE  Steady(d, conns[d], faults)'
BY DEF Steady

(* The page opens a socket. *)
LEMMA ConnectStep == ASSUME Inv, NEW c \in Conn, Connect(c) PROVE Kept
<1>. DEFINE r == IF cred = valid THEN -1 ELSE 0
            l == [Free EXCEPT !.st = "new", !.cred = cred, !.auth = AuthTimeout,
                     !.up = <<"authenticate">>, !.revoked = r]
<1>1. /\ page = "connecting" /\ page' = "open" /\ socket' = c /\ dog' = Watchdog
      /\ conns' = [conns EXCEPT ![c] = l]
      /\ UNCHANGED <<wait, cred, stored, valid, pairs, ticked, faults, crowded>>
  BY DEF Connect, keyVars
<1>2. /\ cred \in 1 .. pairs /\ cred \in Nat /\ pairs \in Nat /\ socket = None /\ socket \notin Conn
      /\ DOMAIN conns = Conn
  BY <1>1, Constants DEF Inv, PageInv
<1>3. PageInv'
  BY <1>1, <1>2, Constants DEF Inv, PageInv
<1>4. r \in {-1, 0} /\ (r = -1 <=> cred = valid)
  OBVIOUS
<1>. HIDE DEF r
<1>5. /\ l \in Link /\ l.st = "new" /\ l.cred = cred /\ l.up = <<"authenticate">> /\ l.revoked = r
      /\ l.queue = <<>> /\ l.work = "idle" /\ l.checking = -1 /\ l.down = <<>> /\ l.cut = -1
      /\ l.pong = -1
  <2>1. /\ Free \in Link /\ Free.queue = <<>> /\ Free.work = "idle" /\ Free.checking = -1
        /\ Free.down = <<>> /\ Free.cut = -1 /\ Free.pong = -1
    BY FreeLink DEF Free
  <2>2. <<"authenticate">> \in Seq(ToServer) /\ AuthTimeout \in Nat /\ r \in Int
    BY <1>4, Constants DEF ToServer
  <2> QED
    BY <1>2, <2>1, <2>2 DEF Link
<1>. HIDE DEF l
<1>6. Well(c, l, c, "open", ticked, valid, pairs, crowded)
  <2>1. Ends(c, l, c, "open") /\ Fresh(l)
    BY <1>5, Nothing DEF Ends, Fresh
  <2>2. Turn(l, ticked) /\ Silent(l, ticked) /\ Room(c, l, c, crowded)
    BY <1>5, Nothing DEF Turn, Silent, Room, Alone, Answering
  <2>3. Withdrawn(l, valid, pairs)
    BY <1>2, <1>4, <1>5 DEF Withdrawn
  <2> QED
    BY <1>5, <2>1, <2>2, <2>3 DEF Well
<1>7. ASSUME NEW d \in Conn PROVE Good(d)'
  <2>1. CASE d = c
    BY <1>1, <1>2, <1>6, <2>1 DEF Good
  <2>2. CASE d # c
    BY <1>1, <1>2, <2>2, OthersStay DEF Inv
  <2> QED
    BY <2>1, <2>2
<1>8. ASSUME Prompt, Calm PROVE Calm'
  <2>1. Stay(l, "open", Watchdog, ticked)
    BY <1>5, Nothing DEF Stay
  <2>2. Steady(c, conns[c], faults)'
    BY <1>1, <1>2, <1>5, <2>1 DEF Steady
  <2>3. ASSUME NEW d \in Conn \ {c} PROVE Steady(d, conns[d], faults)'
    BY <1>1, <1>2, <1>8, <2>3, OthersSteady DEF Calm
  <2>4. faults' \in Nat /\ dog' \in Int
    BY <1>1, <1>8, Constants DEF Calm
  <2> QED
    BY <2>2, <2>3, <2>4 DEF Calm
<1> QED
  BY <1>1, <1>3, <1>7, <1>8 DEF Inv, Kept

LEMMA CutStep == ASSUME Inv, NEW c \in Conn, Cut(c) PROVE Kept
<1>. DEFINE k == conns[c]
            l == [k EXCEPT !.cut = 0]
<1>1. /\ k \in Link /\ conns' = [conns EXCEPT ![c] = l]
      /\ UNCHANGED <<pageVars, keyVars, ticked>> /\ faults' = faults + 1
      /\ Well(c, k, socket, page, ticked, valid, pairs, crowded)
      /\ Calm => Steady(c, k, faults) /\ faults' # 0
  BY DEF Cut, Inv, Good, Well, Calm
<1>. HIDE DEF k
<1>2. /\ l \in Link /\ l.work = k.work /\ l.checking = k.checking /\ l.left = k.left
      /\ l.st = k.st /\ l.cred = k.cred /\ l.ping = k.ping /\ l.pong = k.pong
      /\ l.check = k.check /\ l.good = k.good /\ l.fine = k.fine
      /\ l.queue = k.queue /\ l.up = k.up /\ l.down = k.down
      /\ l.cut = 0 /\ l.revoked = k.revoked
  <2>1. 0 \in Int
    OBVIOUS
  <2> QED
    BY <1>1, <2>1 DEF Link
<1>. HIDE DEF l
<1>3. Ends(c, l, socket, page) /\ Fresh(l) /\ Withdrawn(l, valid, pairs)
  BY <1>1, <1>2 DEF Well, Ends, Fresh, Withdrawn
<1>4. Turn(l, ticked) /\ Room(c, l, socket, crowded)
  BY <1>1, <1>2 DEF Well, Turn, Room, Alone, Answering
<1>5. Silent(l, ticked)
  <2>1. /\ k.ping \in 0 .. Heartbeat /\ k.pong \in -1 .. PongTimeout
        /\ k.checking \in -1 .. OpTimeout
    BY <1>1, LinkTypes
  <2>2. k.st = "new" /\ k.work = "authenticate" => k.left <= OpTimeout /\ k.left \in Nat
    BY <1>1, Constants DEF Well, Fresh
  <2> QED
    BY <1>2, <2>1, <2>2, Constants DEF Silent, LongestDead
<1>6. Well(c, l, socket, page, ticked, valid, pairs, crowded)
  BY <1>2, <1>3, <1>4, <1>5 DEF Well
<1>7. Calm => Steady(c, l, faults')
  BY <1>1, <1>2 DEF Steady, Open
<1> QED
  BY <1>1, <1>6, <1>7, LocalStep

LEMMA GatewayNoticesStep == ASSUME Inv, NEW c \in Conn, GatewayNotices(c) PROVE Kept
<1>. DEFINE x == conns[c].cut
            l == IF socket = c THEN [Free EXCEPT !.st = "gone", !.cut = x] ELSE Free
<1>1. /\ conns' = [conns EXCEPT ![c] = l] /\ UNCHANGED <<pageVars, keyVars, ticked, faults>>
      /\ x \in Int /\ x >= 0
      /\ Calm => Steady(c, conns[c], faults)
  BY LinkTypes DEF GatewayNotices, Inv, Good, Well, Calm
<1>2. Well(c, l, socket, page, ticked, valid, pairs, crowded)
  BY <1>1, FreeWell, SilentlyGone
<1>3. Calm => Steady(c, l, faults)
  <2>1. l.st \in {"free", "gone"}
    BY DEF Free
  <2>. HIDE DEF l
  <2> QED
    BY <1>1, <2>1 DEF Steady, Open
<1> QED
  BY <1>1, <1>2, <1>3, LocalStep

(* The page without its socket. *)
LEMMA ClosePage ==
    ASSUME Inv, NEW code \in Codes \cup {"1006"}, OnClose(code),
           page \notin {"unpaired", "error", "offline"}, DOMAIN conns' = Conn, ticked' = ticked
    PROVE  /\ PageInv' /\ socket' = None /\ page' # "connected" /\ dog' = -1
           /\ page' = "error" => code = "4400" /\ crowded' = crowded
           /\ UNCHANGED <<valid, pairs>>
<1>1. crowded' \in BOOLEAN /\ (code = "4400" => crowded' = crowded)
  <2>1. crowded' = (code = "4400" /\ crowded) /\ crowded \in BOOLEAN
    BY DEF OnClose, Inv, PageInv
  <2> QED
    BY <2>1, Zenon
<1>2. /\ socket' = None /\ dog' = -1 /\ UNCHANGED <<valid, pairs>> /\ wait = -1
      /\ pairs \in Nat /\ {cred, stored, valid} \subseteq 0 .. pairs /\ cred # 0 /\ ticked \in BOOLEAN
  BY DEF OnClose, Inv, PageInv
<1>3. CASE code = "4400"
  <2>1. page' = "error" /\ UNCHANGED <<wait, attempt, cred, stored>>
    BY <1>3 DEF OnClose
  <2> QED
    BY <1>1, <1>2, <1>3, <2>1 DEF PageInv
<1>4. CASE code = "4401"
  <2>1. Repair
    BY <1>4 DEF OnClose
  <2>2. /\ stored' \in {0, stored} /\ cred' = stored' /\ wait' = -1
        /\ page' = IF stored' = 0 THEN "unpaired" ELSE "connecting"
    BY <2>1 DEF Repair
  <2> QED
    BY <1>1, <1>2, <2>2 DEF PageInv
<1>5. CASE code \notin {"4400", "4401"}
  <2>1. page' = "offline" /\ UNCHANGED <<cred, stored>>
    BY <1>5 DEF OnClose, Reconnect
  <2> QED
    BY <1>1, <1>2, <2>1 DEF PageInv
<1> QED
  BY <1>3, <1>4, <1>5

(* A step of the page and of the link it is on or leaves. *)
LEMMA PageStep ==
    ASSUME Inv, NEW c \in Conn, socket = c, NEW l, conns' = [conns EXCEPT ![c] = l],
           PageInv', socket' \in {c, None}, page' = "connected" => page \in {"connected", "open"},
           Prompt /\ ~crowded' => page' # "error", socket' = c => crowded' = crowded,
           UNCHANGED <<ticked, valid, pairs, faults>>,
           Well(c, l, socket', page', ticked, valid, pairs, crowded'),
           l.cut \in {-1, conns[c].cut},
           Calm => dog' \in Int,
           socket' = c => cred' = cred /\ l.st = conns[c].st /\ l.cred = conns[c].cred,
           Prompt /\ Steady(c, conns[c], faults) /\ faults = 0 /\ ~crowded /\ valid = cred
              /\ socket' = c /\ page' \in {"open", "connected"} => Stay(l, page', dog', ticked)
    PROVE  Kept
<1>1. DOMAIN conns = Conn /\ None \notin Conn /\ conns'[c] = l
  BY Constants DEF Inv, PageInv
<1>2. Good(c)'
  BY <1>1 DEF Good
<1>3. ASSUME NEW d \in Conn \ {c} PROVE Good(d)'
  BY <1>1, <1>3, OthersStay DEF Inv
<1>4. ASSUME Prompt, Calm PROVE Calm'
  <2>1. Steady(c, conns[c], faults)'
    BY <1>1, <1>4 DEF Calm, Steady, Open
  <2>2. ASSUME NEW d \in Conn \ {c} PROVE Steady(d, conns[d], faults)'
    BY <1>1, <1>4, <2>2, OthersSteady DEF Calm
  <2> QED
    BY <1>4, <2>1, <2>2 DEF Calm
<1> QED
  BY <1>2, <1>3, <1>4 DEF Inv, Kept

LEMMA OnMessageStep == ASSUME Inv, OnMessage PROVE Kept
<1>. DEFINE k == conns[socket]
            m == Head(k.down)
            t == Tail(k.down)
            rest == [k EXCEPT !.down = t]
<1>1. /\ socket \in Conn /\ k.down # <<>> /\ k.cut = -1 /\ UNCHANGED <<ticked, faults>>
      /\ Well(socket, k, socket, page, ticked, valid, pairs, crowded)
      /\ page \in {"open", "connected", "closing"} /\ DOMAIN conns = Conn
  BY DEF OnMessage, Inv, PageInv, Good
<1>2. k \in Link /\ k.down \in Seq(ToPage)
  BY <1>1, LinkTypes DEF Well
<1>3. /\ t \in Seq(ToPage) /\ m \in ToPage /\ In(k.down, m)
      /\ \A x : In(k.down, x) <=> In(t, x) \/ m = x
      /\ \A x : Once(k.down, x) => Once(t, x)
      /\ \A x : Once(k.down, x) /\ m = x => ~In(t, x)
  BY <1>1, <1>2, TailIn
<1>4. /\ rest \in Link /\ rest.down = t
      /\ rest.st = k.st /\ rest.cred = k.cred /\ rest.ping = k.ping /\ rest.check = k.check
      /\ rest.checking = k.checking /\ rest.good = k.good /\ rest.left = k.left
      /\ rest.fine = k.fine /\ rest.pong = k.pong /\ rest.work = k.work /\ rest.queue = k.queue
      /\ rest.up = k.up /\ rest.cut = k.cut /\ rest.revoked = k.revoked
  <2> HIDE DEF k, t
  <2> QED
    BY <1>2, <1>3 DEF Link
<1>5. CASE m \in Codes
  <2>1. OnClose(m) /\ conns' = [conns EXCEPT ![socket] = Free]
    BY <1>5 DEF OnMessage, Codes
  <2>. HIDE DEF k, m
  <2>2. /\ PageInv' /\ socket' = None /\ page' # "connected" /\ dog' = -1
        /\ page' = "error" => m = "4400" /\ crowded' = crowded
        /\ UNCHANGED <<valid, pairs>>
    BY <1>1, <1>5, <2>1, ClosePage
  <2>3. Prompt /\ ~crowded => m # "4400"
    BY <1>1, <1>3 DEF Well, Room, Answering
  <2>4. Well(socket, Free, socket', page', ticked, valid, pairs, crowded')
    BY <1>1, <2>2, FreeWell, Constants
  <2>5. /\ socket' # socket /\ Free.cut \in {-1, conns[socket].cut} /\ (Calm => dog' \in Int)
        /\ socket' \in {socket, None} /\ (page' = "connected" => page \in {"connected", "open"})
    BY <1>1, <2>2, Constants, FreeLink
  <2>6. UNCHANGED <<ticked, valid, pairs, faults>> /\ PageInv' /\ (Prompt /\ ~crowded' => page' # "error")
    BY <1>1, <2>2, <2>3
  <2> QED
    BY <1>1, <2>1, <2>4, <2>5, <2>6, PageStep
<1>6. CASE m = "connected"
  <2>1. /\ page = "open" \/ page = "closing"
        /\ k.st # "new"
    BY <1>1, <1>3, <1>6, Nothing DEF Well, Ends, Fresh
  <2>2. /\ conns' = [conns EXCEPT ![socket] = rest]
        /\ socket' = socket /\ UNCHANGED <<wait, crowded, cred, stored, valid, pairs>>
        /\ \/ page = "open" /\ page' = "connected" /\ dog' = Watchdog
           \/ page = "closing" /\ page' = "closing" /\ dog' = dog
    BY <1>6, <2>1 DEF OnMessage, Codes, pageVars, keyVars
  <2>. HIDE DEF k, m, rest, t
  <2>3. PageInv'
    BY <1>1, <2>2 DEF Inv, PageInv
  <2>4. Ends(socket, rest, socket, page')
    BY <1>1, <1>3, <1>4, <1>6, <2>1, <2>2 DEF Well, Ends
  <2>5. Fresh(rest) /\ Turn(rest, ticked)
    BY <1>1, <1>3, <1>4, <2>1 DEF Well, Fresh, Turn
  <2>6. Silent(rest, ticked) /\ Room(socket, rest, socket, crowded) /\ Withdrawn(rest, valid, pairs)
    BY <1>1, <1>3, <1>4 DEF Well, Silent, Room, Alone, Answering, Withdrawn
  <2>7. Well(socket, rest, socket', page', ticked, valid, pairs, crowded)
    BY <1>4, <2>2, <2>4, <2>5, <2>6 DEF Well
  <2>8. ASSUME Steady(socket, k, faults), faults = 0, ~crowded, valid = cred,
               page' \in {"open", "connected"}
        PROVE  Stay(rest, page', dog', ticked)
    <3>1. page = "open" /\ page' = "connected" /\ dog' = Watchdog /\ Stay(k, "open", dog, ticked)
      BY <2>2, <2>8 DEF Steady
    <3>2. k.st = "live"
      BY <1>3, <1>6, <3>1 DEF Stay
    <3>3. In(k.down, "ping") <=> In(t, "ping")
      BY <1>3, <1>6
    <3>4. k.ping \in Int /\ k.ping <= Heartbeat
      BY <1>2, LinkTypes, Constants
    <3> QED
      BY <1>3, <1>4, <3>1, <3>2, <3>3, <3>4, Constants DEF Stay
  <2>9. (Calm => dog' \in Int) /\ rest.cut = k.cut
    BY <1>4, <2>2, Constants DEF Calm
  <2> QED
    BY <1>1, <1>4, <2>2, <2>3, <2>7, <2>8, <2>9, PageStep DEF k
<1>7. CASE m = "ping" /\ page = "closing"
  <2>1. /\ conns' = [conns EXCEPT ![socket] = rest]
        /\ UNCHANGED <<page, socket, dog, wait, crowded, cred, stored, valid, pairs>>
    BY <1>7 DEF OnMessage, Codes, pageVars, keyVars
  <2>. HIDE DEF k, m, rest, t
  <2>2. Ends(socket, rest, socket, page)
    BY <1>1, <1>3, <1>4, <1>7 DEF Well, Ends
  <2>3. Fresh(rest) /\ Turn(rest, ticked)
    BY <1>1, <1>3, <1>4, <1>7, Nothing DEF Well, Fresh, Turn
  <2>4. Silent(rest, ticked) /\ Room(socket, rest, socket, crowded) /\ Withdrawn(rest, valid, pairs)
    BY <1>1, <1>3, <1>4 DEF Well, Silent, Room, Alone, Answering, Withdrawn
  <2>5. Well(socket, rest, socket, page, ticked, valid, pairs, crowded)
    BY <1>4, <2>2, <2>3, <2>4 DEF Well
  <2>6. PageInv'
    BY <1>1, <2>1 DEF Inv, PageInv
  <2>7. Calm => dog' \in Int
    BY <2>1 DEF Calm
  <2> QED
    BY <1>1, <1>4, <1>7, <2>1, <2>5, <2>6, <2>7, PageStep DEF k
<1>8. CASE m = "ping" /\ page \in {"open", "connected"}
  <2>. DEFINE p == Append(k.up, "pong")
              l == [rest EXCEPT !.up = p]
  <2>1. /\ conns' = [conns EXCEPT ![socket] = [rest EXCEPT !.up = Append(@, "pong")]]
        /\ UNCHANGED <<page, socket, wait, crowded, cred, stored, valid, pairs>> /\ dog' = Watchdog
    BY <1>8 DEF OnMessage, Codes, keyVars
  <2>2. conns' = [conns EXCEPT ![socket] = l]
    BY <1>4, <2>1
  <2>3. /\ p \in Seq(ToServer)
        /\ \A x : In(p, x) <=> In(k.up, x) \/ x = "pong"
        /\ \A x : Once(k.up, x) /\ (x = "pong" => ~In(k.up, x)) => Once(p, x)
    <3>1. k.up \in Seq(ToServer) /\ "pong" \in ToServer
      BY <1>2, LinkTypes DEF ToServer
    <3> QED
      BY <3>1, AppendIn
  <2>. HIDE DEF k, m, rest, t, p
  <2>4. /\ l \in Link /\ l.up = p
        /\ l.st = rest.st /\ l.cred = rest.cred /\ l.ping = rest.ping /\ l.check = rest.check
        /\ l.checking = rest.checking /\ l.good = rest.good /\ l.left = rest.left
        /\ l.fine = rest.fine /\ l.pong = rest.pong /\ l.work = rest.work
        /\ l.queue = rest.queue /\ l.down = rest.down /\ l.cut = rest.cut
        /\ l.revoked = rest.revoked
    BY <1>4, <2>3 DEF Link
  <2>. HIDE DEF l
  <2>5. k.st # "new" /\ In(k.down, "ping") /\ (Once(k.down, "ping") => ~In(t, "ping"))
    BY <1>1, <1>3, <1>8, Nothing DEF Well, Fresh
  <2>6. Ends(socket, l, socket, page)
    BY <1>1, <1>3, <1>4, <1>8, <2>3, <2>4, <2>5 DEF Well, Ends
  <2>7. Fresh(l)
    BY <1>4, <2>4, <2>5 DEF Fresh
  <2>8. Turn(l, ticked)
    <3>. SUFFICES ASSUME k.st = "live" PROVE Turn(l, ticked)
      BY <1>4, <2>4 DEF Turn
    <3>1. /\ ~In(k.up, "pong") /\ ~In(k.queue, "pong") /\ k.pong # -1 /\ ~In(t, "ping")
          /\ Once(t, "ping") /\ Once(p, "pong")
      BY <1>1, <1>3, <2>3, <2>5 DEF Well, Turn
    <3>2. Turn(k, ticked)
      BY <1>1 DEF Well
    <3> QED
      BY <1>4, <2>3, <2>4, <3>1, <3>2 DEF Turn
  <2>9. Silent(l, ticked)
    BY <1>1, <1>4, <2>4 DEF Silent
  <2>10. Room(socket, l, socket, crowded)
    <3>. SUFFICES ASSUME ~crowded PROVE Alone(l) /\ (Prompt => Answering(l))
      BY DEF Room
    <3>1. Alone(k) /\ (Prompt => Answering(k))
      BY <1>1 DEF Well, Room
    <3>2. Alone(l)
      BY <1>4, <2>3, <2>4, <3>1 DEF Alone
    <3>3. ASSUME Prompt PROVE Answering(l)
      <4>1. k.st = "live" => k.pong = PongTimeout
        BY <1>1, <2>5, <3>1, <3>3 DEF Answering
      <4>2. ~In(t, "4400")
        BY <1>3, <3>1, <3>3 DEF Answering
      <4> QED
        BY <1>4, <2>4, <3>1, <3>3, <4>1, <4>2 DEF Answering
    <3> QED
      BY <3>2, <3>3
  <2>11. Withdrawn(l, valid, pairs)
    BY <1>1, <1>4, <2>4 DEF Well, Withdrawn
  <2>12. Well(socket, l, socket, page, ticked, valid, pairs, crowded)
    BY <2>4, <2>6, <2>7, <2>8, <2>9, <2>10, <2>11 DEF Well
  <2>13. PageInv'
    BY <1>1, <1>8, <2>1, <2>2 DEF Inv, PageInv
  <2>14. ASSUME Steady(socket, k, faults), faults = 0, ~crowded, valid = cred
         PROVE  Stay(l, page, Watchdog, ticked)
    <3>1. Stay(k, page, dog, ticked)
      BY <1>8, <2>14 DEF Steady
    <3>2. k.st = "live" => k.ping = Heartbeat /\ In(p, "pong") /\ ~In(t, "ping")
      BY <1>1, <2>3, <2>5, <3>1 DEF Well, Turn, Stay
    <3> QED
      BY <1>3, <1>4, <2>4, <3>1, <3>2, Constants DEF Stay
  <2>15. (Calm => dog' \in Int) /\ l.cut = k.cut /\ l.st = k.st /\ l.cred = k.cred
    BY <1>4, <2>1, <2>4, Constants
  <2> QED
    BY <1>1, <1>8, <2>1, <2>2, <2>12, <2>13, <2>14, <2>15, PageStep DEF k
<1> QED
  BY <1>1, <1>3, <1>5, <1>6, <1>7, <1>8 DEF ToPage
(* Steps of the page that leave every link alone. *)
LEMMA WatchdogFiresStep == ASSUME Inv, WatchdogFires PROVE Kept
<1>1. /\ page \in {"open", "connected"} /\ page' = "closing" /\ dog' = -1
      /\ UNCHANGED <<conns, socket, wait, crowded, cred, stored, valid, pairs, ticked, faults>>
  BY DEF WatchdogFires, keyVars, Inv, PageInv
<1>2. PageInv'
  BY <1>1 DEF Inv, PageInv
<1>3. ASSUME NEW d \in Conn PROVE Good(d)'
  BY <1>1, OthersStay DEF Inv
<1>4. Calm => Calm'
  <2>1. ASSUME Calm, NEW d \in Conn PROVE Steady(d, conns[d], faults)'
    BY <1>1, <2>1, OthersSteady DEF Calm
  <2> QED
    BY <1>1, <2>1 DEF Calm
<1> QED
  BY <1>1, <1>2, <1>3, <1>4 DEF Inv, Kept

LEMMA ConnectAgainStep == ASSUME Inv, ConnectAgain PROVE Kept
<1>1. /\ page = "offline" /\ page' = "connecting" /\ wait' = -1
      /\ UNCHANGED <<conns, socket, dog, crowded, cred, stored, valid, pairs, ticked, faults>>
  BY DEF ConnectAgain, keyVars, Inv, PageInv
<1>2. PageInv'
  BY <1>1 DEF Inv, PageInv
<1>3. ASSUME NEW d \in Conn PROVE Good(d)'
  BY <1>1, OthersStay DEF Inv
<1>4. Calm => Calm'
  <2>1. ASSUME Calm, NEW d \in Conn PROVE Steady(d, conns[d], faults)'
    BY <1>1, <2>1, OthersSteady DEF Calm
  <2> QED
    BY <1>1, <2>1 DEF Calm
<1> QED
  BY <1>1, <1>2, <1>3, <1>4 DEF Inv, Kept

LEMMA ConnectFailsStep == ASSUME Inv, ConnectFails PROVE Kept
<1>1. /\ page = "connecting" /\ OnClose("1006") /\ socket = None
      /\ UNCHANGED <<conns, ticked>> /\ DOMAIN conns' = Conn /\ faults' = faults + 1
  BY DEF ConnectFails, Inv, PageInv
<1>2. /\ PageInv' /\ socket' = None /\ page' # "connected" /\ page' # "error"
      /\ UNCHANGED <<valid, pairs>> /\ dog' = -1
  BY <1>1, ClosePage
<1>3. ASSUME NEW d \in Conn PROVE Good(d)'
  BY <1>1, <1>2, OthersStay, Constants DEF Inv
<1>4. Calm => Calm'
  <2>. SUFFICES ASSUME Calm PROVE Calm'
    OBVIOUS
  <2>1. faults \in Nat /\ faults' \in Nat /\ dog' \in Int /\ (faults' = 0 => faults = 0)
    BY <1>1, <1>2 DEF Calm
  <2>2. ASSUME NEW d \in Conn PROVE Steady(d, conns[d], faults)'
    <3>1. socket' # d
      BY <1>2, Constants
    <3> QED
      BY <1>1, <2>1, <3>1, OthersSteady DEF Calm
  <2> QED
    BY <2>1, <2>2 DEF Calm
<1> QED
  BY <1>2, <1>3, <1>4 DEF Inv, Kept

(* The browser ends the socket. *)
LEMMA SocketEndsStep == ASSUME Inv, SocketEnds PROVE Kept
<1>. DEFINE c == socket
            k == conns[c]
            u == IF page = "closing" THEN Append(k.up, "close") ELSE <<>>
            e == [k EXCEPT !.up = u, !.down = <<>>]
            l == IF k.st = "gone" THEN Free ELSE e
<1>1. /\ socket # None /\ socket \in Conn /\ page \in {"open", "connected", "closing"}
      /\ DOMAIN conns = Conn
      /\ OnClose("1006") /\ conns' = Left(c, u) /\ UNCHANGED <<ticked, faults>>
  BY DEF SocketEnds, Inv, PageInv
<1>2. conns' = [conns EXCEPT ![c] = l]
  BY <1>1 DEF Left
<1>3. DOMAIN conns' = Conn
  BY <1>1, <1>2
<1>4. /\ PageInv' /\ socket' = None /\ page' # "connected" /\ page' # "error"
      /\ UNCHANGED <<valid, pairs>> /\ dog' = -1
  BY <1>1, <1>3, ClosePage
<1>5. Well(c, k, socket, page, ticked, valid, pairs, crowded) /\ k \in Link /\ None # c
  BY <1>1, Constants DEF Inv, Good, Well
<1>6. /\ u \in Seq(ToServer)
      /\ \A x : In(u, x) => In(k.up, x) \/ x = "close"
      /\ \A x : Once(k.up, x) /\ x # "close" => Once(u, x)
  <2>1. k.up \in Seq(ToServer) /\ "close" \in ToServer
    BY <1>5, LinkTypes DEF ToServer
  <2>2. CASE page = "closing"
    BY <2>1, <2>2, AppendIn
  <2>3. CASE page # "closing"
    <3>1. u = <<>> /\ <<>> \in Seq(ToServer)
      BY <2>3
    <3> HIDE DEF u
    <3> QED
      BY <3>1, Nothing
  <2> QED
    BY <2>2, <2>3
<1>. HIDE DEF u
<1>7. /\ e \in Link /\ e.up = u /\ e.down = <<>>
      /\ e.st = k.st /\ e.cred = k.cred /\ e.ping = k.ping /\ e.check = k.check
      /\ e.checking = k.checking /\ e.good = k.good /\ e.left = k.left /\ e.fine = k.fine
      /\ e.pong = k.pong /\ e.work = k.work /\ e.queue = k.queue /\ e.cut = k.cut
      /\ e.revoked = k.revoked
  <2>. HIDE DEF k
  <2>1. <<>> \in Seq(ToPage)
    OBVIOUS
  <2> QED
    BY <1>5, <1>6, <2>1 DEF Link
<1>. HIDE DEF e
<1>8. Well(c, l, None, page', ticked, valid, pairs, crowded')
  <2>1. CASE k.st = "gone"
    BY <1>5, <2>1, FreeWell
  <2>2. CASE k.st # "gone"
    <3>. HIDE DEF k, c
    <3>1. socket = c
      BY DEF c
    <3>2. Ends(c, e, None, page')
      BY <1>5, <1>7, <2>2, <3>1, Nothing DEF Well, Ends
    <3>3. Fresh(e)
      BY <1>5, <1>6, <1>7 DEF Well, Fresh
    <3>4. Turn(e, ticked)
      <4>1. \A x : ~In(e.down, x) /\ Once(e.down, x)
        BY <1>7, Nothing
      <4> QED
        BY <1>5, <1>6, <1>7, <4>1 DEF Well, Turn
    <3>5. Silent(e, ticked) /\ Withdrawn(e, valid, pairs)
      BY <1>5, <1>7 DEF Well, Silent, Withdrawn
    <3>6. Room(c, e, None, crowded')
      BY <1>5 DEF Room
    <3>7. Well(c, e, None, page', ticked, valid, pairs, crowded')
      BY <1>7, <3>2, <3>3, <3>4, <3>5, <3>6 DEF Well
    <3> QED
      BY <2>2, <3>7
  <2> QED
    BY <2>1, <2>2
<1>9. l.cut \in {-1, k.cut}
  BY <1>7, FreeLink
<1>. HIDE DEF l
<1>10. /\ socket' # socket /\ (Calm => dog' \in Int)
       /\ page' = "connected" => page \in {"connected", "open"}
  BY <1>1, <1>4, Constants
<1> QED
  BY <1>1, <1>2, <1>4, <1>8, <1>9, <1>10, PageStep

(* A viewport report is sent. *)
LEMMA ResizeStep == ASSUME Inv, Resize PROVE Kept
<1>. DEFINE c == socket
            k == conns[c]
            u == Append(k.up, "telemetry")
            l == [k EXCEPT !.up = u]
<1>1. /\ c \in Conn /\ k.st = "live" /\ conns' = [conns EXCEPT ![c] = l]
      /\ UNCHANGED <<page, socket, dog, wait, keyVars, ticked, faults>>
  BY DEF Resize, Inv, PageInv
<1>2. crowded' \in BOOLEAN /\ (crowded => crowded') /\ (~crowded' => ~Reporting(k))
  <2>1. crowded' = (crowded \/ Reporting(k))
    BY DEF Resize
  <2> QED
    BY <2>1, Zenon
<1>3. Well(c, k, socket, page, ticked, valid, pairs, crowded) /\ k \in Link
  BY <1>1 DEF Inv, Good, Well
<1>4. /\ u \in Seq(ToServer)
      /\ \A x : In(u, x) <=> In(k.up, x) \/ x = "telemetry"
      /\ \A x : Once(k.up, x) /\ (x = "telemetry" => ~In(k.up, x)) => Once(u, x)
  <2>1. k.up \in Seq(ToServer) /\ "telemetry" \in ToServer
    BY <1>3, LinkTypes DEF ToServer
  <2> QED
    BY <2>1, AppendIn
<1>5. ~crowded' => ~In(k.up, "telemetry") /\ k.queue # <<"telemetry">> /\ k.work # "telemetry"
  <2>. SUFFICES ASSUME ~crowded' PROVE ~In(k.up, "telemetry") /\ k.queue # <<"telemetry">> /\ k.work # "telemetry"
    OBVIOUS
  <2>1. /\ "telemetry" \notin Range(k.up) /\ "telemetry" \notin Range(k.queue)
        /\ k.work # "telemetry"
    BY <1>2 DEF Reporting
  <2>2. "telemetry" \in Range(<<"telemetry">>)
    <3>1. 1 \in DOMAIN <<"telemetry">> /\ <<"telemetry">>[1] = "telemetry"
      OBVIOUS
    <3> QED
      BY <3>1 DEF Range
  <2> QED
    BY <2>1, <2>2 DEF In
<1>. HIDE DEF k, u, c
<1>6. /\ l \in Link /\ l.up = u
      /\ l.st = k.st /\ l.cred = k.cred /\ l.ping = k.ping /\ l.check = k.check
      /\ l.checking = k.checking /\ l.good = k.good /\ l.left = k.left /\ l.fine = k.fine
      /\ l.pong = k.pong /\ l.work = k.work /\ l.queue = k.queue /\ l.down = k.down
      /\ l.cut = k.cut /\ l.revoked = k.revoked
  BY <1>3, <1>4 DEF Link
<1>. HIDE DEF l
<1>7. Ends(c, l, socket, page) /\ Fresh(l)
  BY <1>1, <1>3, <1>4, <1>6 DEF Well, Ends, Fresh
<1>8. Turn(l, ticked)
  BY <1>3, <1>4, <1>5, <1>6 DEF Well, Turn
<1>9. Silent(l, ticked) /\ Withdrawn(l, valid, pairs)
  BY <1>3, <1>4, <1>6 DEF Well, Silent, Withdrawn
<1>10. Room(c, l, socket, crowded')
  <2>. SUFFICES ASSUME socket = c, ~crowded' PROVE Alone(l) /\ (Prompt => Answering(l))
    BY DEF Room
  <2>1. Alone(k) /\ (Prompt => Answering(k))
    BY <1>3, <1>2 DEF Well, Room
  <2> QED
    BY <1>4, <1>5, <1>6, <2>1 DEF Alone, Answering
<1>11. Well(c, l, socket, page, ticked, valid, pairs, crowded')
  BY <1>6, <1>7, <1>8, <1>9, <1>10 DEF Well
<1>12. Calm => Steady(c, l, faults)
  <2>1. In(l.up, "pong") <=> In(k.up, "pong")
    BY <1>4, <1>6
  <2>2. Calm => Steady(c, k, faults)
    BY <1>1 DEF Calm, k
  <2> QED
    BY <1>6, <2>1, <2>2 DEF Steady, Stay, Open
<1> QED
  BY <1>1, <1>2, <1>11, <1>12, CrowdingStep

-----------------------------------------------------------------------------
(* The world around them.  The valid credential becomes another one, or none: *)
LEMMA RevokingWell ==
    ASSUME NEW c, NEW k, NEW s, NEW p, NEW p2, NEW done, NEW n \in Nat, NEW v, NEW n2 \in Nat,
           NEW w, Well(c, k, s, p, done, valid, n, w), v \notin 1 .. n, n2 >= n,
           p2 = "connected" => p = "connected"
    PROVE  Well(c, Revoking(k), s, p2, done, v, n2, w)
<1>. DEFINE e == [k EXCEPT !.revoked = 0]
            l == Revoking(k)
<1>1. k \in Link
  BY DEF Well
<1>2. CASE Open(k) /\ k.cred = valid
  <2>1. l = e
    BY <1>2 DEF Revoking, Known
  <2>2. /\ e \in Link /\ e.revoked = 0
        /\ e.st = k.st /\ e.cred = k.cred /\ e.ping = k.ping /\ e.check = k.check
        /\ e.checking = k.checking /\ e.good = k.good /\ e.left = k.left /\ e.fine = k.fine
        /\ e.pong = k.pong /\ e.work = k.work /\ e.queue = k.queue /\ e.up = k.up
        /\ e.down = k.down /\ e.cut = k.cut
    <3>1. 0 \in Int
      OBVIOUS
    <3> QED
      BY <1>1, <3>1 DEF Link
  <2>. HIDE DEF e
  <2>3. Ends(c, e, s, p2) /\ Fresh(e)
    BY <2>2 DEF Well, Ends, Fresh
  <2>4. Turn(e, done) /\ Silent(e, done) /\ Room(c, e, s, w)
    BY <2>2 DEF Well, Turn, Silent, Room, Alone, Answering
  <2>5. Withdrawn(e, v, n2)
    <3>1. k.cred \in 1 .. n
      BY <1>2 DEF Open, Well, Withdrawn
    <3>2. /\ k.check \in 0 .. CheckInterval /\ k.checking \in -1 .. OpTimeout
          /\ k.st = "new" /\ k.work = "authenticate" => k.left \in 0 .. OpTimeout
      BY <1>1, LinkTypes DEF Well, Fresh
    <3> QED
      BY <2>2, <3>1, <3>2, Constants DEF Withdrawn
  <2> QED
    BY <2>1, <2>2, <2>3, <2>4, <2>5 DEF Well
<1>3. CASE ~(Open(k) /\ k.cred = valid)
  <2>1. l = k
    BY <1>3 DEF Revoking, Known
  <2>2. Ends(c, k, s, p2)
    BY DEF Well, Ends
  <2>3. Withdrawn(k, v, n2)
    BY <1>3 DEF Well, Withdrawn, Open
  <2>4. Well(c, k, s, p2, done, v, n2, w)
    BY <2>2, <2>3 DEF Well
  <2> QED
    BY <2>1, <2>4
<1> QED
  BY <1>2, <1>3

LEMMA RevokingKeeps ==
    ASSUME NEW k \in Link
    PROVE  LET l == Revoking(k) IN l.st = k.st /\ l.cred = k.cred /\ l.cut = k.cut
<1>. DEFINE l == Revoking(k)
<1>1. CASE l = [k EXCEPT !.revoked = 0]
  BY <1>1 DEF Link
<1>2. CASE l = k
  BY <1>2
<1> QED
  BY <1>1, <1>2 DEF Revoking

LEMMA RevokingSteady ==
    ASSUME Inv, Calm, UNCHANGED <<socket, ticked, dog, crowded, faults>>, valid' # cred' \/ page' = "connecting",
           conns' = [d \in Conn |-> Revoking(conns[d])],
           cred' = cred \/ page = "unpaired"
    PROVE  Calm'
<1>1. ASSUME NEW d \in Conn PROVE Steady(d, conns[d], faults)'
  <2>. DEFINE k == conns[d]
              l == Revoking(k)
  <2>1. k \in Link /\ Steady(d, k, faults) /\ (page = "unpaired" => socket = None) /\ None # d
    BY Constants DEF Inv, PageInv, Good, Well, Calm
  <2>. HIDE DEF k
  <2>2. l.st = k.st /\ l.cred = k.cred /\ l.cut = k.cut
    BY <2>1, RevokingKeeps
  <2>3. conns'[d] = l
    BY DEF k
  <2>. HIDE DEF l
  <2> QED
    BY <2>1, <2>2, <2>3 DEF Steady, Open
<1> QED
  BY <1>1 DEF Calm

LEMMA RevokeStep == ASSUME Inv, Revoke PROVE Kept
<1>1. /\ valid' = 0 /\ conns' = [d \in Conn |-> Revoking(conns[d])]
      /\ UNCHANGED <<page, socket, dog, wait, crowded, cred, stored, pairs, ticked, faults>>
  BY DEF Revoke, pageVars
<1>2. PageInv' /\ pairs \in Nat
  BY <1>1 DEF Inv, PageInv
<1>3. ASSUME NEW d \in Conn PROVE Good(d)'
  <2>1. Well(d, conns[d], socket, page, ticked, valid, pairs, crowded)
    BY DEF Inv, Good
  <2>2. Well(d, Revoking(conns[d]), socket, page, ticked, 0, pairs, crowded)
    BY <1>2, <2>1, RevokingWell
  <2> QED
    BY <1>1, <2>2 DEF Good
<1>4. ASSUME Calm PROVE Calm'
  <2>1. CASE page # "unpaired"
    BY <1>1, <1>4, <2>1, RevokingSteady DEF Inv, PageInv
  <2>2. CASE page = "unpaired"
    <3>1. ASSUME NEW d \in Conn PROVE Steady(d, conns[d], faults)'
      <4>. DEFINE k == conns[d]
      <4>1. k \in Link /\ Steady(d, k, faults) /\ socket = None /\ None # d
        BY <1>4, <2>2, Constants DEF Inv, PageInv, Good, Well, Calm
      <4>. HIDE DEF k
      <4>2. Revoking(k).cut = k.cut
        BY <4>1, RevokingKeeps
      <4>3. conns'[d] = Revoking(k)
        BY <1>1 DEF k
      <4> QED
        BY <1>1, <4>1, <4>2, <4>3 DEF Steady
    <3> QED
      BY <1>1, <1>4, <3>1 DEF Calm
  <2> QED
    BY <2>1, <2>2
<1> QED
  BY <1>1, <1>2, <1>3, <1>4 DEF Inv, Kept

LEMMA PairStep == ASSUME Inv, Pair PROVE Kept
<1>1. /\ pairs' = pairs + 1 /\ valid' = pairs + 1 /\ stored' = pairs + 1
      /\ conns' = [d \in Conn |-> Revoking(conns[d])]
      /\ \/ page = "unpaired" /\ cred' = pairs + 1 /\ page' = "connecting"
         \/ page # "unpaired" /\ cred' = cred /\ page' = page
      /\ UNCHANGED <<socket, dog, wait, crowded, ticked, faults>>
  BY DEF Pair
<1>2. PageInv' /\ pairs \in Nat
  BY <1>1 DEF Inv, PageInv
<1>3. ASSUME NEW d \in Conn PROVE Good(d)'
  <2>1. Well(d, conns[d], socket, page, ticked, valid, pairs, crowded)
    BY DEF Inv, Good
  <2>2. /\ pairs + 1 \in Nat /\ pairs + 1 >= pairs /\ pairs + 1 \notin 1 .. pairs
        /\ page' = "connected" => page = "connected"
    BY <1>1, <1>2
  <2>3. Well(d, Revoking(conns[d]), socket, page', ticked, pairs + 1, pairs + 1, crowded)
    BY <1>2, <2>1, <2>2, RevokingWell
  <2> QED
    BY <1>1, <2>3 DEF Good
<1>4. ASSUME Calm PROVE Calm'
  <2>1. page' = "connecting" \/ valid' # cred'
    <3>1. pairs \in Nat /\ cred \in 0 .. pairs
      BY DEF Inv, PageInv
    <3>2. pairs + 1 # cred
      BY <3>1
    <3> QED
      BY <1>1, <3>2
  <2> QED
    BY <1>1, <1>4, <2>1, RevokingSteady
<1> QED
  BY <1>1, <1>2, <1>3, <1>4 DEF Inv, Kept

LEMMA RestartStep == ASSUME Inv, Restart PROVE Kept
<1>1. /\ UNCHANGED <<page, socket, dog, wait, crowded, cred, stored, valid, pairs, ticked>>
      /\ faults' = faults + 1
  BY DEF Restart, pageVars, keyVars
<1>2. DOMAIN conns' = Conn
  BY DEF Restart
<1>3. PageInv'
  BY <1>1, <1>2 DEF Inv, PageInv
<1>4. ASSUME NEW d \in Conn PROVE Good(d)'
  <2>1. Well(d, conns[d], socket, page, ticked, valid, pairs, crowded)
    BY DEF Inv, Good
  <2>2. /\ Well(d, Closed(d, "1001"), socket, page, ticked, valid, pairs, crowded)
        /\ socket # d => Well(d, Free, socket, page, ticked, valid, pairs, crowded)
        /\ socket = d => Well(d, [Free EXCEPT !.st = "gone", !.cut = 0], socket, page, ticked, valid, pairs, crowded)
    <3>1. "1001" \in Codes /\ "1001" # "4400" /\ 0 \in Int
      BY DEF Codes
    <3>2. Well(d, Closed(d, "1001"), socket, page, ticked, valid, pairs, crowded)
      BY <3>1, ClosedWell
    <3> QED
      BY <3>1, <3>2, FreeWell, SilentlyGone
  <2>3. \/ conns'[d] = conns[d] \/ conns'[d] = Closed(d, "1001")
        \/ socket = d /\ conns'[d] = [Free EXCEPT !.st = "gone", !.cut = 0]
        \/ socket # d /\ conns'[d] = Free
    BY Zenon DEF Restart
  <2>4. Well(d, conns'[d], socket, page, ticked, valid, pairs, crowded)
    BY <2>1, <2>2, <2>3
  <2> QED
    BY <1>1, <2>4 DEF Good
<1>5. ASSUME Calm PROVE Calm'
  <2>1. faults \in Nat /\ faults' \in Nat /\ faults' # 0 /\ dog' \in Int
    BY <1>1, <1>5 DEF Calm
  <2>2. ASSUME NEW d \in Conn PROVE Steady(d, conns[d], faults)'
    <3>1. conns'[d] = conns[d] \/ conns'[d].st \in {"free", "gone"}
      <4>1. \/ conns'[d] = conns[d] \/ conns'[d] = Closed(d, "1001")
            \/ conns'[d] = [Free EXCEPT !.st = "gone", !.cut = 0] \/ conns'[d] = Free
        BY Zenon DEF Restart
      <4>2. Closed(d, "1001").st \in {"free", "gone"}
        BY DEF Closed, Free
      <4>3. [Free EXCEPT !.st = "gone", !.cut = 0].st = "gone" /\ Free.st = "free"
        BY DEF Free
      <4> QED
        BY <4>1, <4>2, <4>3
    <3>2. Steady(d, conns[d], faults)
      BY <1>5 DEF Calm
    <3> QED
      BY <1>1, <2>1, <3>1, <3>2 DEF Steady, Open
  <2> QED
    BY <2>1, <2>2 DEF Calm
<1> QED
  BY <1>1, <1>3, <1>4, <1>5 DEF Inv, Kept
-----------------------------------------------------------------------------
(* The gateway's tick.  A connection whose check or ping is started: *)
CheckStarted(k) == [Checking(k) EXCEPT !.check = CheckInterval]
PingSent(m, s, c) ==
    [m EXCEPT !.pong = PongTimeout, !.ping = Heartbeat,
              !.down = IF s = c THEN Append(@, "ping") ELSE @]

(* The check of one that is due: *)
LEMMA CheckWell ==
    ASSUME NEW c, NEW k, NEW s, NEW p, NEW n \in Nat,
           Well(c, k, s, p, FALSE, valid, n, crowded), k.st = "live", k.check = 0, NEW w
    PROVE  LET l == CheckStarted(k) IN
           /\ Well(c, l, s, p, FALSE, valid, n, crowded)
           /\ l.check # 0 /\ l.pong = k.pong /\ l.ping = k.ping /\ l.down = k.down /\ l.st = k.st
           /\ l.work = k.work /\ l.queue = k.queue /\ l.cred = k.cred /\ l.cut = k.cut
           /\ Stay(k, p, w, FALSE) => Stay(l, p, w, FALSE)
<1>. DEFINE b == Checking(k)
            l == [b EXCEPT !.check = CheckInterval]
<1>1. k \in Link
  BY DEF Well
<1>2. /\ b \in Link /\ b.checking >= 0
      /\ k.checking >= 0 => b.checking = k.checking /\ b.good = k.good
      /\ k.checking = -1 => b.checking = OpTimeout /\ (b.good => k.cred = valid)
      /\ b.st = k.st /\ b.cred = k.cred /\ b.ping = k.ping /\ b.work = k.work
      /\ b.left = k.left /\ b.fine = k.fine /\ b.pong = k.pong /\ b.queue = k.queue
      /\ b.up = k.up /\ b.down = k.down /\ b.cut = k.cut /\ b.revoked = k.revoked
  BY <1>1, CheckingLink
<1>. HIDE DEF b
<1>3. /\ l \in Link /\ l.check = CheckInterval /\ l.checking = b.checking /\ l.good = b.good
      /\ l.st = b.st /\ l.cred = b.cred /\ l.ping = b.ping /\ l.work = b.work
      /\ l.left = b.left /\ l.fine = b.fine /\ l.pong = b.pong /\ l.queue = b.queue
      /\ l.up = b.up /\ l.down = b.down /\ l.cut = b.cut /\ l.revoked = b.revoked
  <2>1. CheckInterval \in 0 .. CheckInterval
    BY Constants
  <2> QED
    BY <1>2, <2>1 DEF Link
<1>. HIDE DEF l
<1>4. Ends(c, l, s, p) /\ Fresh(l)
  BY <1>2, <1>3 DEF Well, Ends, Fresh
<1>5. Turn(l, FALSE)
  BY <1>2, <1>3 DEF Well, Turn
<1>6. k.checking \in -1 .. OpTimeout /\ k.checking \in Int /\ k.revoked \in Int
  BY <1>1, LinkTypes, Constants
<1>7. Silent(l, FALSE) /\ Room(c, l, s, crowded)
  <2>1. k.work = "telemetry" => b.checking = k.checking
    BY <1>2 DEF Well, Turn
  <2> QED
    BY <1>2, <1>3, <2>1 DEF Well, Silent, Room, Alone, Answering
<1>8. Withdrawn(l, valid, n)
  <2>1. Withdrawn(k, valid, n)
    BY DEF Well
  <2>2. CASE k.checking >= 0
    BY <1>2, <1>3, <1>6, <2>1, <2>2, Constants DEF Withdrawn
  <2>3. CASE k.checking = -1
    <3>1. l.checking = OpTimeout /\ (k.revoked >= 0 => ~l.good)
      BY <1>2, <1>3, <2>1, <2>3 DEF Withdrawn
    <3>2. k.revoked >= 0 => k.revoked <= CheckInterval + OpTimeout
      BY <1>6, <2>1, <2>3, Constants DEF Withdrawn
    <3> QED
      BY <1>2, <1>3, <1>6, <2>1, <2>3, <3>1, <3>2, Constants DEF Withdrawn
  <2> QED
    BY <1>6, <2>2, <2>3
<1>9. Well(c, l, s, p, FALSE, valid, n, crowded)
  BY <1>3, <1>4, <1>5, <1>7, <1>8 DEF Well
<1>10. /\ l.check # 0 /\ l.pong = k.pong /\ l.ping = k.ping /\ l.down = k.down /\ l.st = k.st
       /\ l.work = k.work /\ l.queue = k.queue /\ l.cred = k.cred /\ l.cut = k.cut
  BY <1>2, <1>3, Constants
<1>11. Stay(k, p, w, FALSE) => Stay(l, p, w, FALSE)
  <2>1. k.work = "telemetry" => b.checking = k.checking
    BY <1>2 DEF Well, Turn
  <2> QED
    BY <1>2, <1>3, <2>1 DEF Stay
<1> QED
  BY <1>9, <1>10, <1>11, Zenon DEF l, b, CheckStarted

(* Its ping that is due: *)
LEMMA PingWell ==
    ASSUME NEW c, NEW m, NEW s, NEW p, NEW n, Well(c, m, s, p, FALSE, valid, n, crowded),
           m.st = "live", m.check # 0, m.pong = -1, m.ping = 0, NEW w
    PROVE  LET l == PingSent(m, s, c) IN
           /\ Well(c, l, s, p, TRUE, valid, n, TRUE)
           /\ (s = c => m.work # "push") => Room(c, l, s, crowded)
           /\ l.st = m.st /\ l.cred = m.cred /\ l.cut = m.cut
           /\ s = c /\ Stay(m, p, w, FALSE) => Stay(l, p, w, TRUE)
<1>. DEFINE d == IF s = c THEN Append(m.down, "ping") ELSE m.down
            l == [m EXCEPT !.pong = PongTimeout, !.ping = Heartbeat, !.down = d]
<1>1. /\ m \in Link /\ Ends(c, m, s, p) /\ Fresh(m) /\ Turn(m, FALSE) /\ Silent(m, FALSE)
      /\ Room(c, m, s, crowded)
      /\ Withdrawn(m, valid, n)
  BY DEF Well
<1>2. ~In(m.down, "ping") /\ ~In(m.up, "pong") /\ ~In(m.queue, "pong") /\ m.queue # <<"pong">>
  <2>1. m.queue = <<"pong">> => In(m.queue, "pong")
    BY DEF In, Range
  <2> QED
    BY <1>1, <2>1 DEF Turn
<1>3. /\ d \in Seq(ToPage)
      /\ \A x : In(d, x) => In(m.down, x) \/ x = "ping"
      /\ s = c => In(d, "ping")
      /\ \A x : Once(m.down, x) /\ (x = "ping" => ~In(m.down, x)) => Once(d, x)
      /\ s # c => d = m.down
  <2>1. m.down \in Seq(ToPage) /\ "ping" \in ToPage
    BY <1>1, LinkTypes DEF ToPage
  <2> QED
    BY <2>1, AppendIn
<1>. HIDE DEF d
<1>4. /\ l \in Link /\ l.pong = PongTimeout /\ l.ping = Heartbeat /\ l.down = d
      /\ l.st = m.st /\ l.cred = m.cred /\ l.check = m.check /\ l.checking = m.checking
      /\ l.good = m.good /\ l.left = m.left /\ l.fine = m.fine /\ l.work = m.work
      /\ l.queue = m.queue /\ l.up = m.up /\ l.cut = m.cut /\ l.revoked = m.revoked
  <2>1. PongTimeout \in -1 .. PongTimeout /\ Heartbeat \in 0 .. Heartbeat
    BY Constants
  <2> QED
    BY <1>1, <1>3, <2>1 DEF Link
<1>. HIDE DEF l
<1>5. Ends(c, l, s, p) /\ Fresh(l)
  BY <1>1, <1>3, <1>4 DEF Ends, Fresh
<1>6. Turn(l, TRUE)
  BY <1>1, <1>2, <1>3, <1>4, Constants DEF Turn
<1>7. Silent(l, TRUE)
  <2>1. m.cut \in Int /\ (m.cut >= 0 => m.cut <= OpTimeout + Heartbeat)
    BY <1>1, LinkTypes, Constants DEF Silent
  <2> QED
    BY <1>2, <1>4, <2>1, Constants DEF Silent, LongestDead
<1>8. Room(c, l, s, TRUE) /\ ((s = c => m.work # "push") => Room(c, l, s, crowded))
  BY <1>1, <1>2, <1>3, <1>4 DEF Room, Alone, Answering
<1>9. Withdrawn(l, valid, n)
  BY <1>1, <1>4 DEF Withdrawn
<1>10. Well(c, l, s, p, TRUE, valid, n, TRUE)
  BY <1>4, <1>5, <1>6, <1>7, <1>8, <1>9 DEF Well
<1>11. ASSUME s = c, Stay(m, p, w, FALSE) PROVE Stay(l, p, w, TRUE)
  <2>1. /\ \A code \in Codes : ~In(d, code)
        /\ l.st = "live" /\ l.queue # <<"pong">> /\ In(l.down, "ping") /\ l.pong # -1
    BY <1>1, <1>2, <1>3, <1>4, <1>11, Constants DEF Stay, Codes
  <2> QED
    BY <1>4, <1>11, <2>1 DEF Stay
<1> QED
  BY <1>4, <1>8, <1>10, <1>11, Zenon DEF l, d, PingSent

LEMMA PingedWell ==
    ASSUME Inv, ~ticked, NEW c \in Conn, conns[c].st = "live", conns[c].pong # 0, NEW w,
           NEW y \in BOOLEAN, ~y => ~crowded, socket = c /\ ~y => ~PingedEarly(conns[c])
    PROVE  LET k == conns[c]
               l == Pinged(c)
           IN  /\ Well(c, l, socket, page, TRUE, valid, pairs, y)
               /\ l.st = k.st /\ l.cred = k.cred /\ l.cut = k.cut
               /\ socket = c /\ Stay(k, page, w, FALSE) => Stay(l, page, w, TRUE)
<1>. DEFINE k == conns[c]
            b == CheckStarted(k)
            m == IF k.check = 0 THEN b ELSE k
            l == PingSent(m, socket, c)
<1>1. Well(c, k, socket, page, FALSE, valid, pairs, crowded) /\ pairs \in Nat
  BY DEF Inv, PageInv, Good
<1>2. /\ Well(c, m, socket, page, FALSE, valid, pairs, crowded)
      /\ m.st = "live" /\ m.check # 0 /\ m.pong = k.pong /\ m.ping = k.ping
      /\ m.work = k.work /\ m.cred = k.cred /\ m.cut = k.cut
      /\ Stay(k, page, w, FALSE) => Stay(m, page, w, FALSE)
  <2>1. CASE k.check = 0
    <3>1. m = b
      BY <2>1
    <3>. HIDE DEF k, m
    <3>2. /\ Well(c, b, socket, page, FALSE, valid, pairs, crowded)
          /\ b.check # 0 /\ b.pong = k.pong /\ b.ping = k.ping /\ b.st = k.st
          /\ b.work = k.work /\ b.cred = k.cred /\ b.cut = k.cut
          /\ Stay(k, page, w, FALSE) => Stay(b, page, w, FALSE)
      BY <1>1, <2>1, CheckWell DEF k
    <3> QED
      BY <3>1, <3>2 DEF k
  <2>2. CASE k.check # 0
    <3>1. m = k
      BY <2>2
    <3> QED
      BY <1>1, <2>2, <3>1
  <2> QED
    BY <2>1, <2>2
<1>3. Pinged(c) = IF k.pong = -1 /\ k.ping = 0 THEN l ELSE m
  BY Zenon DEF Pinged, CheckStarted, PingSent
<1>. HIDE DEF m, k
<1>4. CASE k.pong = -1 /\ k.ping = 0
  <2>1. /\ Well(c, l, socket, page, TRUE, valid, pairs, y)
        /\ l.st = m.st /\ l.cred = m.cred /\ l.cut = m.cut
        /\ socket = c /\ Stay(m, page, w, FALSE) => Stay(l, page, w, TRUE)
    <3>1. m.pong = -1 /\ m.ping = 0
      BY <1>2, <1>4
    <3>2. /\ Well(c, l, socket, page, TRUE, valid, pairs, TRUE)
          /\ (socket = c => m.work # "push") => Room(c, l, socket, crowded)
          /\ l.st = m.st /\ l.cred = m.cred /\ l.cut = m.cut
          /\ socket = c /\ Stay(m, page, w, FALSE) => Stay(l, page, w, TRUE)
      BY <1>2, <3>1, PingWell
    <3>. HIDE DEF l
    <3>3. ~y => ~crowded /\ (socket = c => m.work # "push")
      BY <1>2, <1>4 DEF PingedEarly, k
    <3>4. Room(c, l, socket, y)
      BY <3>2, <3>3 DEF Room
    <3> QED
      BY <3>2, <3>4 DEF Well
  <2>. HIDE DEF l
  <2> QED
    BY <1>2, <1>3, <1>4, <2>1 DEF k
<1>5. CASE ~(k.pong = -1 /\ k.ping = 0)
  <2>1. m.pong # 0
    BY <1>2 DEF k
  <2>2. Turn(m, TRUE) /\ Silent(m, TRUE)
    BY <1>2, <1>5, <2>1 DEF Well, Turn, Silent
  <2>3. Well(c, m, socket, page, TRUE, valid, pairs, y)
    BY <1>2, <2>2 DEF Well, Room
  <2>4. Stay(m, page, w, FALSE) => Stay(m, page, w, TRUE)
    <3>1. m.ping \in 0 .. Heartbeat
      BY <1>2, LinkTypes DEF Well
    <3> QED
      BY <1>2, <1>5, <3>1, Constants DEF Stay
  <2>5. Pinged(c) = m
    BY <1>3, <1>5
  <2> QED
    BY <1>2, <2>3, <2>4, <2>5 DEF k
<1> QED
  BY <1>4, <1>5

(* A ping of the page's connection is answered before the deadline is due. *)
LEMMA NotMissed ==
    ASSUME NEW c, NEW k, NEW n, NEW p, NEW w, NEW done, ~crowded, socket = c,
           Well(c, k, socket, p, done, valid, n, crowded), Prompt, k.cut = -1, Stay(k, p, w, done)
    PROVE  k.st = "live" => k.pong # 0
<1>. SUFFICES ASSUME k.st = "live", k.pong = 0 PROVE FALSE
  OBVIOUS
<1>1. k \in Link /\ Turn(k, done) /\ Alone(k) /\ Answering(k)
  BY DEF Well, Room
<1>2. k.work \in {"idle", "telemetry"} /\ (k.work = "telemetry" => k.checking >= 0)
  BY <1>1, LinkTypes DEF Turn, Alone
<1>3. CASE In(k.down, "ping") \/ In(k.up, "pong")
  BY <1>1, <1>3, Constants DEF Answering
<1>4. CASE k.queue = <<"pong">>
  <2>1. /\ k.work = "telemetry" => k.checking < 0
        /\ k.work # "idle"
    BY <1>1, <1>4 DEF Answering
  <2>2. k.checking \in Int
    BY <1>1, LinkTypes, Constants
  <2> QED
    BY <1>2, <2>1, <2>2
<1> QED
  BY <1>3, <1>4 DEF Stay

LEMMA TickSteady ==
    ASSUME Inv, Prompt, Calm, ~ticked, NEW d \in Conn
    PROVE  LET k == conns[d]
               l == Ticked(d)
           IN  /\ faults = 0 => l.cut = -1
               /\ socket = d /\ Open(l) => l.cred = cred
               /\ faults = 0 /\ ~crowded /\ valid = cred /\ page \in {"open", "connected"} /\ socket = d =>
                     Stay(l, page, dog, TRUE)
<1>. DEFINE k == conns[d]
            l == Ticked(d)
<1>1. /\ Well(d, k, socket, page, FALSE, valid, pairs, crowded) /\ Steady(d, k, faults)
      /\ k \in Link /\ ticked = FALSE
  BY DEF Inv, PageInv, Good, Well, Calm
<1>2. CASE (k.st = "new" /\ k.auth = 0) \/ (k.st = "live" /\ k.pong = 0)
  <2>1. l = Closed(d, "4408") /\ "4408" \in Codes
    BY <1>2 DEF Ticked, Codes
  <2>2. l.st \in {"free", "gone"}
    BY <2>1 DEF Closed, Free
  <2>. HIDE DEF k, l
  <2>3. faults = 0 /\ ~crowded /\ valid = cred /\ socket = d /\ page \in {"open", "connected"} => k.st # "live"
    <3>. SUFFICES ASSUME faults = 0, ~crowded, valid = cred, socket = d, page \in {"open", "connected"}
         PROVE  k.st # "live"
      OBVIOUS
    <3>1. k.cut = -1 /\ Stay(k, page, dog, FALSE)
      BY <1>1 DEF Steady
    <3>2. k.st = "live" => k.pong # 0
      BY <1>1, <3>1, NotMissed
    <3> QED
      BY <1>2, <3>2
  <2>4. Steady(d, l, faults)
    BY <2>1, <2>3, ClosedSteady DEF k
  <2>5. Stay(l, page, dog, FALSE) => Stay(l, page, dog, TRUE)
    BY <2>2 DEF Stay
  <2> QED
    BY <1>1, <2>4, <2>5 DEF Steady, l
<1>3. CASE k.st = "live" /\ k.pong # 0
  <2>1. l = Pinged(d)
    BY <1>3 DEF Ticked
  <2>2. /\ l.st = k.st /\ l.cred = k.cred /\ l.cut = k.cut
        /\ socket = d /\ Stay(k, page, dog, FALSE) => Stay(l, page, dog, TRUE)
    BY <1>3, <2>1, PingedWell, Zenon
  <2>. HIDE DEF k, l
  <2> QED
    BY <1>1, <2>2 DEF Steady, Open, l
<1>4. CASE k.st # "live" /\ ~(k.st = "new" /\ k.auth = 0)
  <2>1. l = k
    BY <1>4 DEF Ticked
  <2>2. Stay(k, page, dog, FALSE) => Stay(k, page, dog, TRUE)
    BY <1>4 DEF Stay
  <2>. HIDE DEF k, l
  <2> QED
    BY <1>1, <2>1, <2>2 DEF Steady, l
<1> QED
  BY <1>2, <1>3, <1>4

LEMMA TickStep == ASSUME Inv, Tick PROVE Kept
<1>1. /\ ~ticked /\ ticked' = TRUE /\ conns' = [d \in Conn |-> Ticked(d)]
      /\ UNCHANGED <<page, socket, dog, wait, cred, stored, valid, pairs, faults>>
  BY DEF Tick, pageVars, keyVars
<1>2. /\ crowded' \in BOOLEAN /\ (~crowded' => ~crowded)
      /\ ~crowded' /\ socket # None => ~PingedEarly(conns[socket])
  <2>1. crowded' = (crowded \/ (socket # None /\ PingedEarly(conns[socket])))
    BY DEF Tick
  <2> QED
    BY <2>1, Zenon
<1>3. PageInv' /\ (Prompt /\ ~crowded' => page' # "error")
  BY <1>1, <1>2 DEF Inv, PageInv
<1>4. ASSUME NEW d \in Conn PROVE Good(d)'
  <2>. DEFINE k == conns[d]
  <2>1. Well(d, k, socket, page, ticked, valid, pairs, crowded)
    BY DEF Inv, Good
  <2>2. Well(d, Ticked(d), socket, page, TRUE, valid, pairs, crowded')
    <3>1. CASE (k.st = "new" /\ k.auth = 0) \/ (k.st = "live" /\ k.pong = 0)
      <4>1. Ticked(d) = Closed(d, "4408")
        BY <3>1 DEF Ticked
      <4> QED
        BY <1>2, <4>1, ClosedWell DEF Codes
    <3>2. CASE k.st = "live" /\ k.pong # 0
      <4>1. Ticked(d) = Pinged(d)
        BY <3>2 DEF Ticked
      <4> QED
        BY <1>1, <1>2, <3>2, <4>1, PingedWell, Constants
    <3>3. CASE k.st # "live" /\ ~(k.st = "new" /\ k.auth = 0)
      <4>1. Ticked(d) = k
        BY <3>3 DEF Ticked
      <4>. HIDE DEF k
      <4>2. Well(d, k, socket, page, TRUE, valid, pairs, crowded')
        BY <1>2, <2>1, <3>3 DEF Well, Turn, Silent, Room
      <4> QED
        BY <4>1, <4>2
    <3> QED
      BY <3>1, <3>2, <3>3
  <2> QED
    BY <1>1, <2>2 DEF Good
<1>5. ASSUME Prompt, Calm PROVE Calm'
  <2>1. ASSUME NEW d \in Conn PROVE Steady(d, conns[d], faults)'
    <3>. DEFINE l == Ticked(d)
    <3>1. /\ faults = 0 => l.cut = -1
          /\ socket = d /\ Open(l) => l.cred = cred
          /\ faults = 0 /\ ~crowded /\ valid = cred /\ page \in {"open", "connected"} /\ socket = d =>
                Stay(l, page, dog, TRUE)
      BY <1>1, <1>5, TickSteady
    <3>2. conns'[d] = l
      BY <1>1
    <3>. HIDE DEF l
    <3> QED
      BY <1>1, <1>2, <3>1, <3>2 DEF Steady, Open
  <2> QED
    BY <1>1, <1>5, <2>1 DEF Calm
<1> QED
  BY <1>1, <1>3, <1>4, <1>5 DEF Inv, Kept
-----------------------------------------------------------------------------
(* Time.  Every deadline comes nearer, and none of them has been missed. *)
LEMMA OlderLink ==
    ASSUME NEW k \in Link
    PROVE  LET l == Older(k) IN
           /\ l \in Link
           /\ l.ping = Down(k.ping) /\ l.pong = Down(k.pong) /\ l.check = Down(k.check)
           /\ l.checking = Down(k.checking) /\ l.left = Down(k.left)
           /\ l.cut = Count(k.cut, LongestDead) /\ l.revoked = Count(k.revoked, LongestRevoked)
           /\ l.st = k.st /\ l.cred = k.cred /\ l.good = k.good /\ l.work = k.work
           /\ l.fine = k.fine /\ l.queue = k.queue /\ l.up = k.up /\ l.down = k.down
<1>. DEFINE a == Down(k.auth)    i == Down(k.ping)     o == Down(k.pong)
            h == Down(k.check)   g == Down(k.checking) f == Down(k.left)
            x == Count(k.cut, LongestDead)             r == Count(k.revoked, LongestRevoked)
            l == [k EXCEPT !.auth = a, !.ping = i, !.pong = o, !.check = h, !.checking = g,
                           !.left = f, !.cut = x, !.revoked = r]
<1>1. Older(k) = l
  BY DEF Older
<1>2. /\ a \in Nat /\ i \in 0 .. Heartbeat /\ o \in -1 .. PongTimeout /\ h \in 0 .. CheckInterval
      /\ g \in -1 .. OpTimeout /\ f \in Int /\ x \in Int /\ r \in Int
  <2>1. /\ k.auth \in Nat /\ k.ping \in 0 .. Heartbeat /\ k.pong \in -1 .. PongTimeout
        /\ k.check \in 0 .. CheckInterval /\ k.checking \in -1 .. OpTimeout
        /\ k.left \in Int /\ k.cut \in Int /\ k.revoked \in Int
    BY DEF Link
  <2>. HIDE DEF l
  <2> QED
    BY <2>1, Constants DEF Down, Count
<1>. HIDE DEF a, i, o, h, g, f, x, r
<1>3. /\ l \in Link
      /\ l.ping = i /\ l.pong = o /\ l.check = h /\ l.checking = g /\ l.left = f
      /\ l.cut = x /\ l.revoked = r
      /\ l.st = k.st /\ l.cred = k.cred /\ l.good = k.good /\ l.work = k.work
      /\ l.fine = k.fine /\ l.queue = k.queue /\ l.up = k.up /\ l.down = k.down
  BY <1>2 DEF Link
<1>. HIDE DEF l
<1> QED
  BY <1>1, <1>3 DEF i, o, h, g, f, x, r

(* A link that is not due, when the tick is done. *)
Waiting(k, s, c) ==
    /\ Idle(k) /\ k.left # 0 /\ k.checking # 0
    /\ Prompt /\ k.cut = -1 => k.up = <<>> /\ (s = c => k.down = <<>>)

LEMMA OlderWell ==
    ASSUME NEW c, NEW k, NEW s, NEW p, NEW n, NEW w,
           Well(c, k, s, p, TRUE, valid, n, w), Waiting(k, s, c)
    PROVE  Well(c, Older(k), s, p, FALSE, valid, n, w)
<1>. DEFINE l == Older(k)
<1>1. /\ k \in Link /\ Ends(c, k, s, p) /\ Fresh(k) /\ Turn(k, TRUE) /\ Silent(k, TRUE)
      /\ Room(c, k, s, w)
      /\ Withdrawn(k, valid, n)
  BY DEF Well
<1>2. /\ l \in Link
      /\ l.ping = Down(k.ping) /\ l.pong = Down(k.pong) /\ l.check = Down(k.check)
      /\ l.checking = Down(k.checking) /\ l.left = Down(k.left)
      /\ l.cut = Count(k.cut, LongestDead) /\ l.revoked = Count(k.revoked, LongestRevoked)
      /\ l.st = k.st /\ l.cred = k.cred /\ l.good = k.good /\ l.work = k.work
      /\ l.fine = k.fine /\ l.queue = k.queue /\ l.up = k.up /\ l.down = k.down
  BY <1>1, OlderLink
<1>. HIDE DEF l
<1>3. /\ k.ping \in 0 .. Heartbeat /\ k.pong \in -1 .. PongTimeout /\ k.check \in 0 .. CheckInterval
      /\ k.checking \in -1 .. OpTimeout /\ k.left \in Int /\ k.cut \in Int /\ k.revoked \in Int
  BY <1>1, LinkTypes
<1>4. /\ l.ping = IF k.ping > 0 THEN k.ping - 1 ELSE k.ping
      /\ l.pong = IF k.pong > 0 THEN k.pong - 1 ELSE k.pong
      /\ l.check = IF k.check > 0 THEN k.check - 1 ELSE k.check
      /\ l.checking = IF k.checking > 0 THEN k.checking - 1 ELSE k.checking
      /\ l.left = IF k.left > 0 THEN k.left - 1 ELSE k.left
      /\ k.cut < 0 => l.cut = k.cut
      /\ k.cut >= 0 => l.cut >= 0 /\ l.cut <= k.cut + 1
      /\ k.revoked < 0 => l.revoked = k.revoked
      /\ k.revoked >= 0 => l.revoked >= 0 /\ l.revoked <= k.revoked + 1
      /\ l.cut \in Int /\ l.revoked \in Int
  BY <1>2, <1>3, Constants DEF Down, Count, LongestDead, LongestRevoked
<1>5. k.checking = -1 <=> l.checking = -1
  BY <1>3, <1>4, Constants DEF Waiting
<1>6. Ends(c, l, s, p)
  BY <1>1, <1>2, <1>5 DEF Ends
<1>7. Fresh(l)
  BY <1>1, <1>2, <1>4, <1>5, Constants DEF Fresh, Waiting
<1>8. Turn(l, FALSE)
  <2>. SUFFICES ASSUME k.st = "live" PROVE Turn(l, FALSE)
    BY <1>2 DEF Turn
  <2>1. l.pong = -1 <=> k.pong = -1
    BY <1>1, <1>3, <1>4, Constants DEF Turn
  <2>2. k.work = "push" => l.left \in Nat
    <3>1. k.work = "push" => k.left \in Nat
      BY <1>1 DEF Turn
    <3> QED
      BY <1>4, <3>1
  <2>3. l.pong >= 0 => l.ping = l.pong + (Heartbeat - PongTimeout)
    <3>1. k.pong >= 0 => k.pong > 0 /\ k.ping = k.pong + (Heartbeat - PongTimeout)
      BY <1>1, <1>3, Constants DEF Turn
    <3> QED
      BY <1>3, <1>4, <2>1, <3>1, Constants
  <2>4. k.work = "telemetry" => l.checking >= 0
    <3>1. k.work = "telemetry" => k.checking >= 0
      BY <1>1 DEF Turn
    <3> QED
      BY <1>3, <1>4, <3>1
  <2> QED
    BY <1>1, <1>2, <2>1, <2>2, <2>3, <2>4 DEF Turn
<1>9. Silent(l, FALSE)
  <2>. SUFFICES ASSUME k.cut >= 0 PROVE Silent(l, FALSE)
    <3>1. ~(k.cut >= 0) => ~(l.cut >= 0)
      BY <1>3, <1>4
    <3> QED
      BY <3>1 DEF Silent
  <2>1. CASE k.st = "new"
    <3>1. k.work = "authenticate" => k.cut + k.left <= OpTimeout /\ k.left \in Nat /\ k.left # 0
      BY <1>1, <2>1, Constants DEF Fresh, Silent, Waiting
    <3>2. k.work = "authenticate" => l.cut + l.left <= OpTimeout
      BY <1>3, <1>4, <3>1, Constants
    <3>3. ~(k.work = "idle" /\ k.queue # <<>>)
      BY DEF Waiting, Idle
    <3> QED
      BY <1>2, <2>1, <3>2, <3>3 DEF Silent
  <2>2. CASE k.st = "live" /\ k.pong = -1
    <3>1. k.cut + k.ping <= OpTimeout + Heartbeat /\ (k.ping = 0 => k.cut < OpTimeout + Heartbeat)
      BY <1>1, <2>2 DEF Silent
    <3>2. ~In(k.queue, "pong") /\ l.pong = -1
      BY <1>1, <1>4, <2>2 DEF Turn
    <3> QED
      BY <1>2, <1>3, <1>4, <2>2, <3>1, <3>2, Constants DEF Silent
  <2>3. CASE k.st = "live" /\ k.pong # -1
    <3>1. /\ k.cut + k.pong <= LongestDead /\ k.pong > 0
          /\ In(k.queue, "pong") => k.cut + k.pong <= PongTimeout
      BY <1>1, <1>3, <2>3, Constants DEF Silent, Turn
    <3>2. /\ l.cut + l.pong <= LongestDead /\ l.pong >= 0
          /\ In(k.queue, "pong") => l.cut + l.pong <= PongTimeout
      BY <1>3, <1>4, <3>1, Constants DEF LongestDead
    <3> QED
      BY <1>2, <2>3, <3>2 DEF Silent
  <2>4. CASE k.st \notin {"new", "live"}
    BY <1>2, <2>4 DEF Silent
  <2> QED
    BY <2>1, <2>2, <2>3, <2>4
<1>10. Room(c, l, s, w)
  <2>. SUFFICES ASSUME s = c, ~w PROVE Alone(l) /\ (Prompt => Answering(l))
    BY DEF Room
  <2>1. Alone(k) /\ (Prompt => Answering(k))
    BY <1>1 DEF Room
  <2>2. l.cut = -1 => k.cut = -1
    BY <1>3, <1>4
  <2>3. Alone(l)
    <3>1. k.pong = -1 => l.pong = -1
      BY <1>4
    <3> QED
      BY <1>2, <2>1, <3>1 DEF Alone
  <2>4. ASSUME Prompt PROVE Answering(l)
    <3>1. k.cut = -1 => ~In(k.down, "ping") /\ ~In(k.up, "pong")
      BY <2>4, Nothing DEF Waiting
    <3>2. k.queue = <<"pong">> => k.work # "idle"
      BY Words DEF Waiting, Idle
    <3>3. k.st = "live" /\ k.queue = <<"pong">> /\ k.work = "telemetry" =>
            k.checking < k.pong /\ k.checking > 0
      BY <1>1, <1>3, <2>1, <2>4, Constants DEF Answering, Turn, Waiting
    <3>4. k.st = "live" /\ k.queue = <<"pong">> /\ k.work = "telemetry" => l.checking < l.pong
      BY <1>3, <1>4, <3>3
    <3> QED
      BY <1>2, <2>1, <2>2, <2>4, <3>1, <3>2, <3>4 DEF Answering
  <2> QED
    BY <2>3, <2>4
<1>11. Withdrawn(l, valid, n)
  <2>. SUFFICES ASSUME k.st \in {"new", "live"} PROVE Withdrawn(l, valid, n)
    BY <1>2 DEF Withdrawn
  <2>1. /\ k.cred \in 1 .. n /\ k.revoked >= -1 /\ (k.revoked = -1 <=> k.cred = valid)
        /\ l.revoked >= -1 /\ (l.revoked = -1 <=> k.revoked = -1)
    BY <1>1, <1>3, <1>4 DEF Withdrawn
  <2>2. CASE k.revoked = -1
    BY <1>2, <1>4, <2>1, <2>2 DEF Withdrawn
  <2>3. CASE k.revoked >= 0
    <3>1. k.st = "new" /\ k.work = "authenticate" /\ k.fine => l.revoked + l.left <= OpTimeout
      <4>1. k.st = "new" /\ k.work = "authenticate" /\ k.fine =>
              k.revoked + k.left <= OpTimeout /\ k.left \in Nat /\ k.left # 0
        BY <1>1, <2>3, Constants DEF Withdrawn, Fresh, Waiting
      <4> QED
        BY <1>3, <1>4, <2>3, <4>1, Constants
    <3>2. k.st = "live" /\ k.checking >= 0 /\ k.good => l.revoked + l.checking <= OpTimeout
      <4>1. k.st = "live" /\ k.checking >= 0 /\ k.good =>
              k.revoked + k.checking <= OpTimeout /\ k.checking # 0
        BY <1>1, <2>3 DEF Withdrawn, Waiting
      <4> QED
        BY <1>3, <1>4, <2>3, <4>1, Constants
    <3>3. k.st = "live" /\ (k.checking = -1 \/ k.good) => l.revoked + l.check <= CheckInterval + OpTimeout
      <4>1. k.st = "live" /\ (k.checking = -1 \/ k.good) =>
              k.revoked + k.check <= CheckInterval + OpTimeout /\ k.check # 0
        BY <1>1, <2>3 DEF Withdrawn, Turn
      <4> QED
        BY <1>3, <1>4, <2>3, <4>1, Constants
    <3>4. k.st = "live" /\ k.checking >= 0 /\ ~k.good =>
            l.revoked + l.checking <= CheckInterval + 2 * OpTimeout
      <4>1. k.st = "live" /\ k.checking >= 0 /\ ~k.good =>
              k.revoked + k.checking <= CheckInterval + 2 * OpTimeout /\ k.checking # 0
        BY <1>1, <2>3 DEF Withdrawn, Waiting
      <4> QED
        BY <1>3, <1>4, <2>3, <4>1, Constants
    <3>5. l.checking >= 0 <=> k.checking >= 0
      BY <1>3, <1>4
    <3> QED
      BY <1>2, <1>5, <2>1, <3>1, <3>2, <3>3, <3>4, <3>5 DEF Withdrawn
  <2> QED
    BY <1>3, <2>1, <2>2, <2>3
<1> QED
  BY <1>2, <1>6, <1>7, <1>8, <1>9, <1>10, <1>11 DEF Well, l

(* Its ping is older and the watchdog too. *)
LEMMA OlderSteady ==
    ASSUME NEW c, NEW k, NEW p, NEW n, NEW w \in Int, ~crowded,
           Well(c, k, c, p, TRUE, valid, n, crowded), Waiting(k, c, c), Prompt, k.cut = -1,
           Stay(k, p, w, TRUE)
    PROVE  Stay(Older(k), p, Down(w), FALSE)
<1>. DEFINE l == Older(k)
            g == Down(w)
<1>1. /\ k \in Link /\ Turn(k, TRUE) /\ Alone(k) /\ k.up = <<>> /\ k.down = <<>>
  BY DEF Well, Waiting, Room
<1>2. /\ l.ping = Down(k.ping) /\ l.pong = Down(k.pong) /\ l.checking = Down(k.checking)
      /\ l.st = k.st /\ l.work = k.work /\ l.queue = k.queue /\ l.up = k.up /\ l.down = k.down
  BY <1>1, OlderLink
<1>. HIDE DEF l
<1>3. \A m : ~In(l.down, m) /\ ~In(l.up, m) /\ ~In(k.down, m) /\ ~In(k.up, m)
  BY <1>1, <1>2, Nothing
<1>4. /\ k.ping \in Nat /\ k.checking \in Int /\ k.pong \in Int
      /\ k.work \in {"idle", "authenticate", "push", "telemetry"}
  BY <1>1, LinkTypes, Constants
<1>5. /\ l.ping = IF k.ping > 0 THEN k.ping - 1 ELSE k.ping
      /\ l.pong = IF k.pong > 0 THEN k.pong - 1 ELSE k.pong
      /\ l.checking = IF k.checking > 0 THEN k.checking - 1 ELSE k.checking
      /\ g = IF w > 0 THEN w - 1 ELSE w
  BY <1>2, <1>4 DEF Down
<1>. HIDE DEF g
<1>. SUFFICES ASSUME k.st = "live" PROVE Stay(l, p, g, FALSE)
  BY <1>2, <1>3 DEF Stay, l, g
<1>6. k.pong # -1 => k.queue = <<"pong">>
  BY <1>3 DEF Stay
<1>7. k.queue = <<"pong">> => k.work # "idle"
  BY Words DEF Waiting, Idle
<1>8. ASSUME k.queue = <<"pong">>, k.work = "telemetry"
      PROVE  Heartbeat + l.checking <= OpTimeout + l.ping /\ k.ping > 0
  <2>1. Heartbeat + k.checking <= OpTimeout + k.ping /\ k.checking >= 0 /\ k.checking # 0
    BY <1>1, <1>8 DEF Stay, Turn, Waiting
  <2> QED
    BY <1>4, <1>5, <2>1, Constants
<1>9. k.ping > 0
  <2>1. CASE k.pong = -1
    BY <2>1 DEF Stay
  <2>2. CASE k.pong # -1
    <3>1. k.work = "telemetry"
      BY <1>1, <1>4, <1>6, <1>7, <2>2 DEF Turn, Alone
    <3> QED
      BY <1>6, <1>8, <2>2, <3>1
  <2> QED
    BY <2>1, <2>2
<1>10. ASSUME p = "connected"
       PROVE  g + Heartbeat >= Watchdog /\ g + Heartbeat >= Watchdog + l.ping
  <2>1. w + Heartbeat >= Watchdog + k.ping
    BY <1>3, <1>10 DEF Stay
  <2> QED
    BY <1>4, <1>5, <1>9, <2>1, Constants
<1>11. k.pong # -1 <=> l.pong # -1
  BY <1>4, <1>5
<1> QED
  BY <1>2, <1>3, <1>6, <1>7, <1>8, <1>10, <1>11 DEF Stay

LEMMA TimeStep == ASSUME Inv, Time PROVE Kept
<1>1. /\ ticked /\ ~ticked' /\ conns' = [d \in Conn |-> Older(conns[d])]
      /\ \A d \in Conn : ~Due(d)
      /\ dog' = Down(dog) /\ wait' = Down(wait)
      /\ UNCHANGED <<page, socket, crowded, cred, stored, valid, pairs, faults>>
  BY DEF Time, keyVars
<1>2. (dog = -1 => dog' = -1) /\ (wait = -1 => wait' = -1)
  BY <1>1 DEF Down
<1>3. PageInv' /\ ticked = TRUE /\ ticked' = FALSE
  BY <1>1, <1>2 DEF Inv, PageInv, Time
<1>4. ASSUME NEW d \in Conn PROVE Good(d)'
  <2>1. Well(d, conns[d], socket, page, TRUE, valid, pairs, crowded)
    BY <1>3 DEF Inv, Good
  <2>2. Waiting(conns[d], socket, d)
    BY <1>1 DEF Due, Waiting
  <2>3. Well(d, Older(conns[d]), socket, page, FALSE, valid, pairs, crowded)
    BY <2>1, <2>2, OlderWell
  <2> QED
    BY <1>1, <1>3, <2>3 DEF Good
<1>5. ASSUME Prompt, Calm PROVE Calm'
  <2>1. ASSUME NEW d \in Conn PROVE Steady(d, conns[d], faults)'
    <3>. DEFINE k == conns[d]
                l == Older(k)
    <3>1. /\ Well(d, k, socket, page, TRUE, valid, pairs, crowded) /\ k \in Link
          /\ Steady(d, k, faults) /\ dog \in Int
      BY <1>3, <1>5 DEF Inv, Good, Well, Calm
    <3>2. Waiting(k, socket, d)
      BY <1>1 DEF Due, Waiting
    <3>. HIDE DEF k
    <3>3. /\ l.st = k.st /\ l.cred = k.cred /\ (k.cut = -1 => l.cut = -1)
      <4>1. l.st = k.st /\ l.cred = k.cred /\ l.cut = Count(k.cut, LongestDead)
        BY <3>1, OlderLink
      <4> QED
        BY <4>1 DEF Count
    <3>4. ASSUME faults = 0, ~crowded, valid = cred, page \in {"open", "connected"}, socket = d
          PROVE  Stay(l, page, Down(dog), FALSE)
      <4>1. k.cut = -1 /\ Stay(k, page, dog, TRUE)
        BY <1>3, <3>1, <3>4 DEF Steady
      <4> QED
        BY <1>5, <3>1, <3>2, <3>4, <4>1, OlderSteady
    <3>5. conns'[d] = l
      BY <1>1 DEF k
    <3>. HIDE DEF l
    <3> QED
      BY <1>1, <1>3, <3>1, <3>3, <3>4, <3>5 DEF Steady, Open
  <2>2. faults' \in Nat /\ dog' \in Int
    BY <1>1, <1>5 DEF Calm, Down
  <2> QED
    BY <2>1, <2>2 DEF Calm
<1> QED
  BY <1>1, <1>3, <1>4, <1>5 DEF Inv, Kept
-----------------------------------------------------------------------------
LEMMA Start == Init => Inv
<1>. SUFFICES ASSUME Init PROVE Inv
  OBVIOUS
<1>1. PageInv /\ socket = None /\ page # "error"
  <2>1. /\ page = "connecting" /\ socket = None /\ dog = -1 /\ wait = -1
        /\ cred = 1 /\ stored = 1 /\ valid = 1 /\ pairs = 1 /\ ticked = FALSE /\ crowded = FALSE
        /\ DOMAIN conns = Conn
    BY DEF Init
  <2>2. pairs \in Nat /\ {cred, stored, valid} \subseteq 0 .. pairs /\ cred # 0
    BY <2>1
  <2>3. {ticked, crowded} \subseteq BOOLEAN
    BY <2>1
  <2> QED
    BY <2>1, <2>2, <2>3 DEF PageInv
<1>2. ASSUME NEW d \in Conn PROVE Good(d)
  BY <1>1, FreeWell, Constants DEF Init, Good
<1> QED
  BY <1>1, <1>2 DEF Inv

LEMMA StartCalm == Init => Calm
<1>. SUFFICES ASSUME Init PROVE Calm
  OBVIOUS
<1>1. faults \in Nat /\ dog \in Int /\ socket = None /\ conns = [c \in Conn |-> Free]
  BY DEF Init
<1>2. ASSUME NEW d \in Conn PROVE Steady(d, conns[d], faults)
  BY <1>1, FreeLink, Constants DEF Steady
<1> QED
  BY <1>1, <1>2 DEF Calm

LEMMA StillStep == ASSUME Inv, UNCHANGED vars PROVE Kept
<1>1. UNCHANGED <<conns, page, socket, dog, wait, attempt, crowded, cred, stored, valid, pairs, ticked, faults>>
  BY DEF vars, pageVars, keyVars
<1>2. PageInv'
  BY <1>1 DEF Inv, PageInv
<1>3. ASSUME NEW d \in Conn PROVE Good(d)'
  BY <1>1, OthersStay DEF Inv
<1>4. Calm => Calm'
  BY <1>1 DEF Calm, Steady
<1> QED
  BY <1>1, <1>2, <1>3, <1>4 DEF Inv, Kept

LEMMA Steps == Inv /\ [Next]_vars => Kept
<1>. SUFFICES ASSUME Inv, [Next]_vars PROVE Kept
  OBVIOUS
<1>1. ASSUME NEW c \in Conn,
             Gateway(c) \/ OperationFails(c) \/ Connect(c) \/ Cut(c) \/ GatewayNotices(c)
      PROVE  Kept
  BY <1>1, ReceiveStep, HandleStep, AuthenticatedStep, PushedStep, CheckedStep,
     OperationFailsStep, ConnectStep, CutStep, GatewayNoticesStep DEF Gateway
<1>2. CASE Tick \/ Time
  BY <1>2, TickStep, TimeStep
<1>3. CASE OnMessage \/ WatchdogFires \/ SocketEnds \/ ConnectAgain \/ ConnectFails \/ Resize
  BY <1>3, OnMessageStep, WatchdogFiresStep, SocketEndsStep, ConnectAgainStep,
     ConnectFailsStep, ResizeStep
<1>4. CASE Revoke \/ Pair \/ Restart
  BY <1>4, RevokeStep, PairStep, RestartStep
<1>5. CASE UNCHANGED vars
  BY <1>5, StillStep
<1> QED
  BY <1>1, <1>2, <1>3, <1>4, <1>5 DEF Next

LEMMA Always == Safe => []Inv
<1>1. Inv /\ [Next]_vars => Inv'
  BY Steps DEF Kept
<1> QED
  BY <1>1, Start, PTL DEF Safe

(* A connection whose display is gone gives its place back within a heartbeat,  *)
(* a pong timeout and an operation (web-display.gateway.ts tick, drain), for    *)
(* any limits and any number of cuts and restarts.                             *)
THEOREM DeadLinkKept == Safe => []DeadLinkEnds
<1>1. ASSUME Inv PROVE DeadLinkEnds
  <2>. SUFFICES ASSUME NEW c \in Conn, conns[c].st = "live" PROVE conns[c].cut <= LongestDead
    BY DEF DeadLinkEnds
  <2>. DEFINE k == conns[c]
  <2>1. k \in Link /\ Ends(c, k, socket, page) /\ Turn(k, ticked) /\ Silent(k, ticked)
    BY <1>1 DEF Inv, Good, Well
  <2>. HIDE DEF k
  <2>2. /\ k.ping \in 0 .. Heartbeat /\ k.pong \in -1 .. PongTimeout
        /\ k.checking \in -1 .. OpTimeout /\ k.cut \in Int /\ k.st = "live"
        /\ k.work \in {"idle", "authenticate", "push", "telemetry"}
    BY <2>1, LinkTypes DEF k
  <2>3. CASE ~(k.cut >= 0)
    BY <2>2, <2>3, Constants DEF LongestDead, k
  <2>4. CASE k.cut >= 0 /\ k.pong = -1
    <3>1. k.cut + k.ping <= OpTimeout + Heartbeat
      BY <2>1, <2>2, <2>4 DEF Silent
    <3> QED
      BY <2>2, <3>1, Constants DEF LongestDead, k
  <2>5. CASE k.cut >= 0 /\ k.pong # -1
    <3>1. k.pong >= 0
      BY <2>2, <2>5
    <3>2. k.cut + k.pong <= LongestDead
      BY <2>1, <2>2, <2>5, <3>1 DEF Silent
    <3> QED
      BY <2>2, <3>1, <3>2, Constants DEF LongestDead, k
  <2> QED
    BY <2>3, <2>4, <2>5
<1> QED
  BY <1>1, Always, PTL

(* A connection with a revoked credential is closed within a check interval and *)
(* two operations, whatever had read the credential before (check, tick).      *)
THEOREM RevokedKept == Safe => []RevokedIsClosed
<1>1. ASSUME Inv PROVE RevokedIsClosed
  <2>. SUFFICES ASSUME NEW c \in Conn, conns[c].st = "live" PROVE conns[c].revoked <= LongestRevoked
    BY DEF RevokedIsClosed
  <2>. DEFINE k == conns[c]
  <2>1. k \in Link /\ Withdrawn(k, valid, pairs)
    BY <1>1 DEF Inv, Good, Well
  <2>. HIDE DEF k
  <2>2. /\ k.check \in 0 .. CheckInterval /\ k.checking \in -1 .. OpTimeout /\ k.revoked \in Int
        /\ k.st = "live"
    BY <2>1, LinkTypes DEF k
  <2>3. CASE k.revoked < 0
    BY <2>2, <2>3, Constants DEF LongestRevoked, k
  <2>4. CASE k.revoked >= 0 /\ (k.checking = -1 \/ k.good)
    <3>1. k.revoked + k.check <= CheckInterval + OpTimeout
      BY <2>1, <2>2, <2>4 DEF Withdrawn
    <3> QED
      BY <2>2, <3>1, Constants DEF LongestRevoked, k
  <2>5. CASE k.revoked >= 0 /\ k.checking # -1 /\ ~k.good
    <3>1. k.checking >= 0
      BY <2>2, <2>5
    <3>2. k.revoked + k.checking <= CheckInterval + 2 * OpTimeout
      BY <2>1, <2>2, <2>5, <3>1 DEF Withdrawn
    <3> QED
      BY <2>2, <3>1, <3>2, Constants DEF LongestRevoked, k
  <2> QED
    BY <2>2, <2>3, <2>4, <2>5
<1> QED
  BY <1>1, Always, PTL

(* When messages on a link that works arrive in time, and no second report and  *)
(* no first push was ever before a pong of the page, then no pong was too late  *)
(* or unasked and the page does not report an incompatible protocol, behind     *)
(* whatever check its one report waited for (WebDisplay.tsx onclose and its     *)
(* reports, web-display.gateway.ts handle and drain).                           *)
THEOREM ProtocolKept == Prompt /\ Safe => []ProtocolIsCompatible
<1>. SUFFICES ASSUME Prompt PROVE Safe => []ProtocolIsCompatible
  OBVIOUS
<1>1. Inv => ProtocolIsCompatible
  BY DEF Inv, ProtocolIsCompatible
<1> QED
  BY <1>1, Always, PTL

(* When messages on a link that works arrive in time, neither end's timeouts    *)
(* end the connection of a display that is connected, nor does its queue run    *)
(* over, as long as nothing fails, its credential is good and its pongs are not *)
(* crowded: the pong of every ping comes before its deadline and every ping     *)
(* before the watchdog fires, for any length of the first push                  *)
(* (web-display.gateway.ts tick and handle, WebDisplay.tsx armWatchdog).        *)
THEOREM StaysConnectedKept == Prompt /\ Safe => StaysConnected
<1>. SUFFICES ASSUME Prompt PROVE Safe => StaysConnected
  OBVIOUS
<1>1. Inv /\ Calm /\ [Next]_vars => Inv' /\ Calm'
  BY Steps DEF Kept
<1>2. ASSUME Inv, Calm, [Next]_vars
      PROVE  [page = "connected" /\ faults' = 0 /\ ~crowded /\ valid' = cred
                => page' = "connected"]_vars
  <2>. SUFFICES ASSUME Next, page = "connected", faults' = 0, ~crowded, valid' = cred,
                     page' # "connected"
       PROVE  FALSE
    BY <1>2
  <2>. DEFINE k == conns[socket]
  <2>1. /\ socket \in Conn /\ cred # 0 /\ cred \in 0 .. pairs /\ pairs \in Nat /\ wait = -1
        /\ faults \in Nat /\ Steady(socket, k, faults)
    BY <1>2 DEF Inv, PageInv, Calm
  <2>2. CASE \E c \in Conn : Gateway(c) \/ OperationFails(c) \/ Connect(c) \/ Cut(c) \/ GatewayNotices(c)
    BY <2>2 DEF Gateway, Receive, Handle, Authenticated, Pushed, Checked, OperationFails,
                Connect, Cut, GatewayNotices, pageVars
  <2>3. CASE Tick \/ Time \/ Resize \/ Restart \/ ConnectAgain \/ ConnectFails
    BY <2>1, <2>3 DEF Tick, Time, Resize, Restart, ConnectAgain, ConnectFails, pageVars
  <2>4. CASE Revoke \/ Pair
    BY <2>1, <2>4 DEF Revoke, Pair, pageVars
  <2>5. CASE WatchdogFires \/ SocketEnds
    <3>1. faults = 0 /\ valid = cred
      BY <2>5 DEF WatchdogFires, SocketEnds, OnClose, keyVars
    <3>2. k.cut = -1 /\ Stay(k, "connected", dog, ticked)
      BY <2>1, <3>1 DEF Steady
    <3>3. dog # 0
      BY <3>2, Constants DEF Stay
    <3> QED
      BY <2>5, <3>2, <3>3 DEF WatchdogFires, SocketEnds
  <2>6. CASE OnMessage
    <3>. DEFINE m == Head(k.down)
    <3>1. /\ k.down \in Seq(ToPage) /\ k.down # <<>> /\ ~In(k.down, "connected") /\ faults' = faults
      <4>1. k \in Link /\ Ends(socket, k, socket, page)
        BY <1>2, <2>1 DEF Inv, Good, Well
      <4>2. k.down # <<>> /\ faults' = faults
        BY <2>6 DEF OnMessage
      <4>. HIDE DEF k
      <4> QED
        BY <4>1, <4>2, LinkTypes DEF Ends
    <3>2. m \in ToPage /\ In(k.down, m) /\ m # "connected"
      <4>. HIDE DEF k
      <4>1. m \in ToPage /\ In(k.down, m)
        BY <3>1, TailIn
      <4> QED
        BY <3>1, <4>1
    <3>3. CASE m = "ping"
      BY <2>6, <3>3 DEF OnMessage, Codes
    <3>4. CASE m \in Codes
      <4>1. OnClose(m)
        BY <2>6, <3>4 DEF OnMessage
      <4>2. faults = 0 /\ valid = cred
        BY <3>1, <4>1 DEF OnClose
      <4>3. Stay(k, "connected", dog, ticked)
        BY <2>1, <4>2 DEF Steady
      <4> QED
        BY <3>2, <3>4, <4>3 DEF Stay
    <3> QED
      BY <3>2, <3>3, <3>4 DEF ToPage
  <2> QED
    BY <2>2, <2>3, <2>4, <2>5, <2>6 DEF Next
<1> QED
  BY <1>1, <1>2, Start, StartCalm, PTL DEF Safe, StaysConnected
-----------------------------------------------------------------------------
(* The timers of the page, and the bounds: with Inv, the types. *)
Timers ==
    /\ dog \in -1 .. Watchdog /\ wait \in -1 .. 2 ^ MaxBackoff /\ attempt \in 0 .. MaxBackoff
    /\ pairs \in 1 .. MaxPairs /\ faults \in 0 .. MaxFaults
    /\ page \in {"open", "connected"} => dog # -1
    /\ page = "offline" => wait # -1

(* Powers of two: arithmetic, which the provers have no rule for. *)
Powers == \A a \in 0 .. MaxBackoff : 2 ^ a \in 0 .. 2 ^ MaxBackoff

LEMMA Limits ==
    /\ Watchdog \in Nat /\ MaxBackoff \in Nat /\ MaxPairs \in Nat /\ MaxPairs >= 1
    /\ MaxFaults \in Nat
BY LinkAssumption

LEMMA LongestWait == ASSUME Powers PROVE 2 ^ MaxBackoff \in Nat
<1> DEFINE most == 2 ^ MaxBackoff
<1>1. most \in 0 .. most
  BY Limits DEF Powers
<1> HIDE DEF most
<1>2. most \in Nat
  BY <1>1
<1> QED BY <1>2 DEF most

LEMMA ReconnectTimers ==
    ASSUME Powers, Timers, Reconnect
    PROVE  /\ wait' \in -1 .. 2 ^ MaxBackoff /\ wait' # -1 /\ attempt' \in 0 .. MaxBackoff
<1> DEFINE most == 2 ^ MaxBackoff
           next == 2 ^ attempt
<1>1. next \in 0 .. most
  BY DEF Powers, Timers
<1>2. wait' = next
  BY DEF Reconnect
<1>3. attempt' \in 0 .. MaxBackoff
  <2>1. attempt \in 0 .. MaxBackoff /\ MaxBackoff \in Nat
    BY Limits DEF Timers
  <2>2. attempt' = IF attempt < MaxBackoff THEN attempt + 1 ELSE attempt
    BY DEF Reconnect
  <2> QED BY <2>1, <2>2
<1> HIDE DEF most, next
<1>4. wait' \in -1 .. most /\ wait' # -1
  <2>1. \A e : next \in 0 .. e => next \in -1 .. e /\ next # -1
    OBVIOUS
  <2> QED BY <1>1, <1>2, <2>1
<1> QED BY <1>3, <1>4 DEF most

(* A socket that closes. *)
LEMMA CloseTimers ==
    ASSUME Powers, Timers, NEW code, OnClose(code), faults' \in 0 .. MaxFaults,
           page \in {"connecting", "open", "connected", "closing"}, wait = -1
    PROVE  Timers'
<1> DEFINE most == 2 ^ MaxBackoff
<1>1. dog' = -1 /\ pairs' = pairs /\ Watchdog \in Nat /\ pairs \in 1 .. MaxPairs
  BY Limits DEF OnClose, Timers
<1>2. attempt \in 0 .. MaxBackoff /\ wait \in -1 .. most
  BY DEF Timers
<1>3. CASE code = "4400"
  <2>1. page' = "error" /\ UNCHANGED <<wait, attempt>>
    BY <1>3 DEF OnClose
  <2> HIDE DEF most
  <2> QED BY <1>1, <1>2, <2>1 DEF Timers, most
<1>4. CASE code = "4401"
  <2>1. wait' = -1 /\ attempt' = 0 /\ page' \in {"unpaired", "connecting"}
    BY <1>4 DEF OnClose, Repair
  <2>2. wait' = wait
    BY <2>1
  <2> HIDE DEF most
  <2> QED BY <1>1, <1>2, <2>1, <2>2, Limits DEF Timers, most
<1>5. CASE code \notin {"4400", "4401"}
  <2>1. Reconnect
    BY <1>5 DEF OnClose
  <2>2. /\ wait' \in -1 .. most /\ wait' # -1 /\ attempt' \in 0 .. MaxBackoff
    BY <2>1, ReconnectTimers
  <2>3. page' = "offline"
    BY <2>1 DEF Reconnect
  <2> HIDE DEF most
  <2> QED BY <1>1, <2>2, <2>3 DEF Timers, most
<1> QED BY <1>3, <1>4, <1>5

LEMMA MessageTimers ==
    ASSUME Powers, Inv, Timers, OnMessage
    PROVE  Timers'
<1> DEFINE k == conns[socket]
           m == Head(k.down)
           most == 2 ^ MaxBackoff
<1>1. /\ socket \in Conn /\ k.down # <<>> /\ UNCHANGED <<ticked, faults>>
      /\ Well(socket, k, socket, page, ticked, valid, pairs, crowded)
      /\ page \in {"open", "connected", "closing"} /\ wait = -1
  BY DEF OnMessage, Inv, PageInv, Good
<1>2. k \in Link /\ k.down \in Seq(ToPage)
  BY <1>1, LinkTypes DEF Well
<1>3. m \in ToPage /\ In(k.down, m)
  BY <1>1, <1>2, TailIn
<1>4. faults' \in 0 .. MaxFaults
  BY <1>1 DEF Timers
<1>5. Watchdog \in -1 .. Watchdog /\ Watchdog # -1
  BY Limits
<1>6. CASE m \in Codes
  <2>1. OnClose(m)
    BY <1>6 DEF OnMessage, Codes
  <2> QED BY <1>1, <1>4, <2>1, CloseTimers
<1>7. CASE m = "connected"
  <2>1. page = "open" \/ page = "closing"
    BY <1>1, <1>3, <1>7, Nothing DEF Well, Ends, Fresh
  <2>2. /\ UNCHANGED <<wait, pairs>>
        /\ \/ page' = "connected" /\ dog' = Watchdog /\ attempt' = 0
           \/ page = "closing" /\ page' = "closing" /\ dog' = dog /\ attempt' = attempt
    BY <1>7, <2>1 DEF OnMessage, Codes, pageVars, keyVars
  <2>3. wait' \in -1 .. most /\ pairs' \in 1 .. MaxPairs /\ 0 \in 0 .. MaxBackoff
    BY <2>2, Limits DEF Timers
  <2> HIDE DEF most, k, m
  <2> QED BY <1>4, <1>5, <2>2, <2>3 DEF Timers, most
<1>8. CASE m = "ping"
  <2>1. /\ UNCHANGED <<wait, pairs, attempt, page>>
        /\ dog' \in {Watchdog, dog} /\ (page # "closing" => dog' = Watchdog)
    BY <1>1, <1>8 DEF OnMessage, Codes, pageVars, keyVars
  <2>2. wait' \in -1 .. most /\ pairs' \in 1 .. MaxPairs /\ attempt' \in 0 .. MaxBackoff
    BY <2>1 DEF Timers
  <2> HIDE DEF most, k, m
  <2> QED BY <1>1, <1>4, <1>5, <2>1, <2>2 DEF Timers, most
<1> QED BY <1>3, <1>6, <1>7, <1>8 DEF ToPage

LEMMA TimersStep ==
    ASSUME Powers, Inv, Timers, [Next]_vars
    PROVE  Timers'
<1> DEFINE most == 2 ^ MaxBackoff
<1>1. ASSUME UNCHANGED <<page, dog, wait, attempt, pairs>>, faults' \in 0 .. MaxFaults
      PROVE  Timers'
  BY <1>1 DEF Timers
<1>2. faults \in 0 .. MaxFaults /\ (faults < MaxFaults => faults + 1 \in 0 .. MaxFaults)
  BY Limits DEF Timers
<1>3. ASSUME NEW c \in Conn, Gateway(c) \/ OperationFails(c) \/ Cut(c) \/ GatewayNotices(c)
      PROVE  Timers'
  BY <1>1, <1>2, <1>3 DEF Gateway, Receive, Handle, Authenticated, Pushed, Checked,
     OperationFails, Cut, GatewayNotices, pageVars, keyVars
<1>4. ASSUME NEW c \in Conn, Connect(c)
      PROVE  Timers'
  <2>1. page' = "open" /\ dog' = Watchdog /\ UNCHANGED <<wait, attempt, pairs, faults>>
    BY <1>4 DEF Connect, keyVars
  <2>2. Watchdog \in -1 .. Watchdog /\ Watchdog # -1
    BY Limits
  <2> QED BY <2>1, <2>2 DEF Timers
<1>5. CASE Tick \/ Resize \/ Revoke \/ Restart
  BY <1>1, <1>2, <1>5 DEF Tick, Resize, Revoke, Restart, pageVars, keyVars
<1>6. CASE Time
  <2>1. /\ dog # 0 /\ wait # 0 /\ dog' = Down(dog) /\ wait' = Down(wait)
        /\ UNCHANGED <<page, attempt, pairs, faults>>
    BY <1>6 DEF Time, keyVars
  <2>2. wait \in -1 .. most /\ dog \in -1 .. Watchdog /\ most \in Nat /\ Watchdog \in Nat
    BY LongestWait, Limits DEF Timers
  <2> HIDE DEF most
  <2>3. \A e \in Nat : \A n \in -1 .. e : n # 0 => Down(n) \in -1 .. e /\ (n # -1 => Down(n) # -1)
    BY DEF Down
  <2>4. /\ wait' \in -1 .. most /\ (wait # -1 => wait' # -1)
        /\ dog' \in -1 .. Watchdog /\ (dog # -1 => dog' # -1)
    BY <2>1, <2>2, <2>3
  <2> QED BY <2>1, <2>4 DEF Timers, most
<1>7. CASE OnMessage
  BY <1>7, MessageTimers
<1>8. CASE WatchdogFires
  <2>1. dog' = -1 /\ page' = "closing" /\ UNCHANGED <<wait, attempt, pairs, faults>>
    BY <1>8 DEF WatchdogFires, keyVars
  <2> QED BY <2>1, Limits DEF Timers
<1>9. CASE SocketEnds
  <2>1. OnClose("1006") /\ faults' = faults /\ page \in {"open", "connected", "closing"} /\ wait = -1
    BY <1>9 DEF SocketEnds, Inv, PageInv
  <2> QED BY <1>2, <2>1, CloseTimers
<1>10. CASE ConnectFails
  <2>1. OnClose("1006") /\ faults' = faults + 1 /\ page = "connecting" /\ wait = -1
        /\ faults < MaxFaults
    BY <1>10 DEF ConnectFails, Inv, PageInv
  <2> QED BY <1>2, <2>1, CloseTimers
<1>11. CASE ConnectAgain
  <2>1. wait = 0 /\ wait' = -1 /\ page' = "connecting" /\ UNCHANGED <<dog, attempt, pairs, faults>>
    BY <1>11 DEF ConnectAgain, keyVars
  <2>2. most \in Nat
    BY LongestWait
  <2> HIDE DEF most
  <2>3. wait' \in -1 .. most
    BY <2>1, <2>2
  <2> QED BY <2>1, <2>3 DEF Timers, most
<1>12. CASE Pair
  <2>1. /\ pairs < MaxPairs /\ pairs' = pairs + 1
        /\ page' \in {page, "connecting"} /\ UNCHANGED <<dog, wait, attempt, faults>>
    BY <1>12 DEF Pair
  <2>2. pairs' \in 1 .. MaxPairs
    BY <2>1, Limits DEF Timers
  <2> QED BY <2>1, <2>2 DEF Timers
<1>13. CASE UNCHANGED vars
  BY <1>1, <1>2, <1>13 DEF vars, pageVars, keyVars
<1> QED BY <1>3, <1>4, <1>5, <1>6, <1>7, <1>8, <1>9, <1>10, <1>11, <1>12, <1>13 DEF Next

LEMMA LinkStateTyped == ASSUME Inv, Timers PROVE TypeOK
<1>1. ASSUME NEW c \in Conn
      PROVE  LET k == conns[c] IN
             /\ k.st \in {"free", "new", "live", "gone"}
             /\ k.pong \in -1 .. PongTimeout /\ k.ping \in 0 .. Heartbeat
             /\ k.checking \in -1 .. OpTimeout
             /\ k.work \in {"idle", "authenticate", "push", "telemetry"}
             /\ Len(k.queue) <= MaxPending
             /\ Range(k.up) \subseteq ToServer /\ Range(k.down) \subseteq ToPage
             /\ k.st = "gone" => socket = c
  <2> DEFINE k == conns[c]
  <2>1. k \in Link /\ Ends(c, k, socket, page) /\ Fresh(k) /\ Turn(k, ticked)
    BY DEF Inv, Good, Well
  <2> HIDE DEF k
  <2>2. Len(k.queue) <= MaxPending
    <3>1. k.st = "live" \/ k.queue \in {<<>>, <<"authenticate">>}
      BY <2>1, LinkTypes DEF Ends, Fresh
    <3>2. k.queue = <<>> => Len(k.queue) = 0
      OBVIOUS
    <3>3. \A x : k.queue = <<x>> => Len(k.queue) = 1
      OBVIOUS
    <3>4. k.queue \in {<<>>, <<"authenticate">>} => Len(k.queue) \in {0, 1}
      BY <3>2, <3>3
    <3>5. \A l \in {0, 1} : l <= MaxPending
      BY Constants
    <3> QED BY <2>1, <3>1, <3>4, <3>5 DEF Turn
  <2>3. Range(k.up) \subseteq ToServer /\ Range(k.down) \subseteq ToPage
    <3>1. k.up \in Seq(ToServer) /\ k.down \in Seq(ToPage)
      BY <2>1, LinkTypes
    <3> QED BY <3>1 DEF Range
  <2>4. k.st = "gone" => socket = c
    BY <2>1 DEF Ends
  <2> QED BY <2>1, <2>2, <2>3, <2>4, LinkTypes DEF k
<1>2. /\ {cred, stored, valid} \subseteq 0 .. MaxPairs /\ pairs \in 1 .. MaxPairs
      /\ faults \in 0 .. MaxFaults /\ crowded \in BOOLEAN
  BY Limits DEF Inv, PageInv, Timers
<1>3. /\ dog \in -1 .. Watchdog /\ attempt \in 0 .. MaxBackoff
      /\ dog >= 0 <=> page \in {"open", "connected"}
  BY Limits DEF Inv, PageInv, Timers
<1>4. wait \in -1 .. 2 ^ MaxBackoff /\ (wait >= 0 <=> page = "offline")
  <2> DEFINE most == 2 ^ MaxBackoff
  <2>1. wait \in -1 .. most /\ (wait # -1 <=> page = "offline")
    BY DEF Inv, PageInv, Timers
  <2> HIDE DEF most
  <2>2. wait >= 0 <=> wait # -1
    BY <2>1
  <2> QED BY <2>1, <2>2 DEF most
<1>5. /\ page \in {"connecting", "open", "connected", "closing", "offline", "unpaired", "error"}
      /\ socket \in Conn \cup {None}
      /\ socket = None <=> page \in {"connecting", "offline", "unpaired", "error"}
  BY DEF Inv, PageInv
<1> QED BY <1>1, <1>2, <1>3, <1>4, <1>5 DEF TypeOK

(* Types of page and gateway: the page has a socket, a watchdog and a reconnect *)
(* timer exactly where it needs them, whatever its queue of messages, its       *)
(* deadlines and what fails (TypeOK).                                          *)
THEOREM LinkTyped == ASSUME Powers PROVE Safe => []TypeOK
<1>1. Init => Timers
  <2> DEFINE most == 2 ^ MaxBackoff
  <2>1. most \in Nat
    BY LongestWait
  <2> SUFFICES ASSUME Init PROVE Timers
    OBVIOUS
  <2>2. /\ page = "connecting" /\ dog = -1 /\ wait = -1 /\ attempt = 0 /\ pairs = 1 /\ faults = 0
    BY DEF Init
  <2> HIDE DEF most
  <2>3. wait \in -1 .. most
    BY <2>1, <2>2
  <2> QED BY <2>2, <2>3, Limits DEF Timers, most
<1>2. Inv /\ Timers /\ [Next]_vars => Timers'
  BY TimersStep
<1>3. Inv /\ Timers => TypeOK
  BY LinkStateTyped
<1> QED BY <1>1, <1>2, <1>3, Always, PTL DEF Safe

-----------------------------------------------------------------------------
(* The pushes of the gateway (GatewayPush), beside the connections.            *)

(* A task works for connections that are open, awaits checks of those only,  *)
(* and shows nothing newer than what is desired.                             *)
Works(k, L, d) ==
    /\ k = [pc |-> k.pc, states |-> k.states, awaits |-> k.awaits, at |-> k.at,
            shows |-> k.shows]
    /\ k.pc \in {"idle", "ended", "check", "load", "recheck", "confirm", "failed"}
    /\ k.shows \in 0 .. d
    /\ k.states \subseteq L /\ k.awaits \subseteq k.states
    /\ k.at \in k.states \cup {Null}
    /\ k.pc = "idle" => k = IdleTask
    /\ k.pc = "ended" => k = EndedTask
    /\ k.pc \in {"load", "confirm"} => k.at # Null
    /\ k.pc = "confirm" => k.awaits = {}

Working == /\ task = [t \in Task |-> task[t]]
           /\ \A t \in Task : Works(task[t], live, desired)

Values ==
    /\ known \subseteq live /\ live \subseteq Connection
    /\ last \in [Connection -> 0 .. desired] /\ overlooked \in [Connection -> 0 .. desired]
    /\ checking \in [Connection -> {"no", "good", "bad"}]
    /\ desired \in Delivery /\ rendered \subseteq 1 .. desired
    /\ receipt \in [Delivery -> 0 .. desired] /\ owed \subseteq 1 .. desired

PushInv == Working /\ Values /\ requested \in BOOLEAN

LEMMA PushTyped == PushInv => PushTypeOK
BY DEF PushInv, Working, Works, Values, PushTypeOK

(* Records of tasks. *)
Record(p, s, w, a, n) == [pc |-> p, states |-> s, awaits |-> w, at |-> a, shows |-> n]

LEMMA RecordWorks ==
    ASSUME NEW p, NEW s, NEW w, NEW a, NEW n, NEW L, NEW d
    PROVE  Works(Record(p, s, w, a, n), L, d)
             <=> /\ p \in {"idle", "ended", "check", "load", "recheck", "confirm", "failed"}
                 /\ n \in 0 .. d
                 /\ s \subseteq L /\ w \subseteq s
                 /\ a \in s \cup {Null}
                 /\ p \in {"idle", "ended"} => s = {} /\ w = {} /\ a = Null /\ n = 0
                 /\ p \in {"load", "confirm"} => a # Null
                 /\ p = "confirm" => w = {}
BY DEF Record, Works, IdleTask, EndedTask

LEMMA RecordUpdate ==
    ASSUME NEW p, NEW s, NEW w, NEW a, NEW n, NEW k, k = Record(p, s, w, a, n), NEW x
    PROVE  /\ k.pc = p /\ k.states = s /\ k.awaits = w /\ k.at = a /\ k.shows = n
           /\ [k EXCEPT !.pc = x] = Record(x, s, w, a, n)
           /\ [k EXCEPT !.states = x] = Record(p, x, w, a, n)
           /\ [k EXCEPT !.awaits = x] = Record(p, s, x, a, n)
           /\ [k EXCEPT !.at = x] = Record(p, s, w, x, n)
           /\ [k EXCEPT !.shows = x] = Record(p, s, w, a, x)
BY DEF Record

LEMMA Parts ==
    ASSUME NEW k, NEW L, NEW d, Works(k, L, d)
    PROVE  k = Record(k.pc, k.states, k.awaits, k.at, k.shows)
BY DEF Works, Record

(* A task that starts, one that has lost connections, and one beside which    *)
(* others come.                                                               *)
LEMMA StartedWorks ==
    ASSUME NEW L, NEW d \in Nat
    PROVE  Works([Started EXCEPT !.states = L, !.awaits = L], L, d)
<1>1. Started = Record("check", live, live, Null, 0)
  BY DEF Started, Record
<1> DEFINE r == [Started EXCEPT !.states = L]
<1>2. /\ [Started EXCEPT !.states = L, !.awaits = L] = [r EXCEPT !.awaits = L]
      /\ r = Record("check", L, live, Null, 0)
  BY <1>1, RecordUpdate
<1> HIDE DEF r
<1>4. [Started EXCEPT !.states = L, !.awaits = L] = Record("check", L, L, Null, 0)
  BY <1>2, RecordUpdate
<1>3. 0 \in 0 .. d
  OBVIOUS
<1> QED BY <1>3, <1>4, RecordWorks

LEMMA StartsNow ==
    ASSUME NEW d \in Nat
    PROVE  Works(Started, live, d)
<1>1. Started = Record("check", live, live, Null, 0)
  BY DEF Started, Record
<1>2. 0 \in 0 .. d
  OBVIOUS
<1> QED BY <1>1, <1>2, RecordWorks

LEMMA IdleWorks ==
    ASSUME NEW L, NEW d \in Nat
    PROVE  Works(IdleTask, L, d)
<1>1. IdleTask = Record("idle", {}, {}, Null, 0)
  BY DEF IdleTask, Record
<1>2. 0 \in 0 .. d
  OBVIOUS
<1> QED BY <1>1, <1>2, RecordWorks

LEMMA EndedWorks ==
    ASSUME NEW L, NEW d \in Nat
    PROVE  Works(EndedTask, L, d)
<1>1. EndedTask = Record("ended", {}, {}, Null, 0)
  BY DEF EndedTask, IdleTask, Record
<1>2. 0 \in 0 .. d
  OBVIOUS
<1> QED BY <1>1, <1>2, RecordWorks

LEMMA WithoutWorks ==
    ASSUME NEW L \in SUBSET Connection, NEW d \in Nat, NEW k, Works(k, L, d),
           NEW C \in SUBSET Connection
    PROVE  Works(Without(k, C), L \ C, d)
<1>1. PICK p, s, w, a, n : k = Record(p, s, w, a, n)
  BY Parts
<1>2. /\ p \in {"idle", "ended", "check", "load", "recheck", "confirm", "failed"}
      /\ n \in 0 .. d
      /\ s \subseteq L /\ w \subseteq s
      /\ a \in s \cup {Null}
      /\ p \in {"idle", "ended"} => s = {} /\ w = {} /\ a = Null /\ n = 0
      /\ p \in {"load", "confirm"} => a # Null
      /\ p = "confirm" => w = {}
  BY <1>1, RecordWorks
<1> DEFINE r == [k EXCEPT !.states = s \ C, !.awaits = w \ C]
<1>3. /\ k.pc = p /\ k.states = s /\ k.awaits = w /\ k.at = a /\ k.shows = n
      /\ r = Record(p, s \ C, w \ C, a, n)
  <2> DEFINE o == [k EXCEPT !.states = s \ C]
  <2>1. r = [o EXCEPT !.awaits = w \ C]
    OBVIOUS
  <2>2. o = Record(p, s \ C, w, a, n)
    BY <1>1 DEF Record
  <2> HIDE DEF o, r
  <2> QED BY <1>1, <2>1, <2>2 DEF Record
<1>4. CASE a \notin C
  <2>1. Without(k, C) = Record(p, s \ C, w \ C, a, n)
    BY <1>3, <1>4 DEF Without
  <2> QED BY <1>2, <1>4, <2>1, RecordWorks
<1>5. CASE a \in C
  <2> DEFINE q == IF p \in {"load", "confirm"} THEN "failed" ELSE p
  <2>1. Without(k, C) = [r EXCEPT !.at = Null, !.pc = q]
    <3>1. r.pc = p
      BY <1>3, RecordUpdate
    <3> QED BY <1>3, <1>5, <3>1, Zenon DEF Without
  <2> DEFINE o == [r EXCEPT !.at = Null]
  <2> HIDE DEF q, r
  <2>2. [r EXCEPT !.at = Null, !.pc = q] = [o EXCEPT !.pc = q] /\ o = Record(p, s \ C, w \ C, Null, n)
    BY <1>3 DEF Record
  <2> HIDE DEF o
  <2>3. Without(k, C) = Record(q, s \ C, w \ C, Null, n)
    BY <1>3, <2>1, <2>2 DEF Record
  <2>4. p \notin {"idle", "ended"}
    BY <1>2, <1>5, PushAssumption
  <2> QED BY <1>2, <2>3, <2>4, RecordWorks DEF q
<1> QED BY <1>4, <1>5

LEMMA WorksOn ==
    ASSUME NEW k, NEW L, NEW M, NEW d \in Nat, NEW e \in Nat,
           Works(k, L, d), L \subseteq M, d <= e
    PROVE  Works(k, M, e)
BY DEF Works

(* What one task does, of the others nothing changes. *)
LEMMA OneWorks ==
    ASSUME Working, NEW t \in Task, NEW k, task' = [task EXCEPT ![t] = k],
           live' = live, desired' = desired, Works(k, live, desired)
    PROVE  Working'
<1>1. task' = [s \in Task |-> task'[s]]
  BY DEF Working
<1>2. \A s \in Task : task'[s] = IF s = t THEN k ELSE task[s]
  BY DEF Working
<1>3. \A s \in Task : Works(task'[s], live, desired)
  BY <1>2 DEF Working
<1> QED BY <1>1, <1>3 DEF Working

(* Connections close, and every task lets go of them. *)
LEMMA AllWithout ==
    ASSUME PushInv, NEW C \in SUBSET Connection, desired' = desired, live' = live \ C,
           task' = [t \in Task |-> Without(task[t], C)]
    PROVE  Working'
<1>1. desired \in Nat /\ live \in SUBSET Connection
  BY PushAssumption DEF PushInv, Values, Delivery
<1>2. \A t \in Task : Works(Without(task[t], C), live \ C, desired)
  BY <1>1, WithoutWorks DEF PushInv, Working
<1>3. \A t \in Task : task'[t] = Without(task[t], C)
  OBVIOUS
<1>4. task' = [t \in Task |-> task'[t]]
  OBVIOUS
<1> QED BY <1>2, <1>3, <1>4 DEF Working

(* What check() does for connections. *)
LEMMA CheckTyped ==
    ASSUME Values, NEW C, Check(C)
    PROVE  checking' \in [Connection -> {"no", "good", "bad"}]
<1>1. \A c \in Connection : WithCheck(c) \in {"no", "good", "bad"}
  BY DEF Values, WithCheck
<1> QED BY <1>1 DEF Values, Check

(* The end of a round. *)
LEMMA FinishKeeps ==
    ASSUME PushInv, NEW t \in Task, NEW done, Finish(t, done)
    PROVE  PushInv'
<1> DEFINE again == After(t).pc = "check"
<1>1. desired \in Nat /\ live \in SUBSET Connection /\ Values /\ Working /\ requested \in BOOLEAN
  BY PushAssumption DEF PushInv, Values, Delivery
<1>2. Works(After(t), live, desired)
  BY <1>1, StartsNow, IdleWorks, EndedWorks DEF After
<1>3. /\ task' = [task EXCEPT ![t] = After(t)]
      /\ requested' = (requested /\ ~again)
      /\ IF again THEN Check(live) ELSE UNCHANGED checking
      /\ owed' = IF done THEN owed \ {t} ELSE owed
      /\ UNCHANGED <<openVars, worldVars, receipt>>
  BY Zenon DEF Finish
<1> HIDE DEF again
<1>4. desired' = desired /\ live' = live /\ UNCHANGED <<known, last, overlooked, rendered, receipt>>
  BY <1>3 DEF worldVars, openVars
<1>5. Working'
  BY <1>1, <1>2, <1>3, <1>4, OneWorks
<1>6. checking' \in [Connection -> {"no", "good", "bad"}]
  BY <1>1, <1>3, CheckTyped DEF Values
<1>7. owed' \subseteq 1 .. desired
  BY <1>1, <1>3 DEF Values
<1>8. Values'
  BY <1>1, <1>4, <1>6, <1>7 DEF Values
<1>9. requested' \in BOOLEAN
  BY <1>3, Zenon
<1> QED BY <1>5, <1>8, <1>9 DEF PushInv

(* A step of a task keeps its record within Works. *)
LEMMA WorkKeeps ==
    ASSUME PushInv, NEW t \in Task, Work(t)
    PROVE  PushInv'
<1> DEFINE k == task[t]
<1>1. desired \in Nat /\ live \in SUBSET Connection /\ Working /\ Values /\ requested \in BOOLEAN
  BY PushAssumption DEF PushInv, Values, Delivery
<1>2. Works(k, live, desired)
  BY <1>1 DEF Working
<1>3. PICK p, s, w, a, n : k = Record(p, s, w, a, n)
  BY <1>2, Parts
<1>4. k.pc = p /\ k.states = s /\ k.awaits = w /\ k.at = a /\ k.shows = n
  BY <1>3, RecordUpdate
<1>5. /\ p \in {"idle", "ended", "check", "load", "recheck", "confirm", "failed"}
      /\ n \in 0 .. desired
      /\ s \subseteq live /\ w \subseteq s
      /\ a \in s \cup {Null}
      /\ p \in {"idle", "ended"} => s = {} /\ w = {} /\ a = Null /\ n = 0
      /\ p \in {"load", "confirm"} => a # Null
      /\ p = "confirm" => w = {}
  BY <1>2, <1>3, RecordWorks
<1>6. CASE NothingAuthorized(t) \/ NotRendered(t) \/ Delivered(t)
  BY <1>6, FinishKeeps DEF NothingAuthorized, NotRendered, Delivered
<1>7. ASSUME NEW r, task' = [task EXCEPT ![t] = r], Works(r, live, desired),
             UNCHANGED <<live, known, overlooked, rendered, desired, requested, owed>>,
             last' \in [Connection -> 0 .. desired], checking' \in [Connection -> {"no", "good", "bad"}],
             receipt' \in [Delivery -> 0 .. desired]
      PROVE  PushInv'
  <2>1. Working'
    BY <1>1, <1>7, OneWorks
  <2>2. Values'
    BY <1>1, <1>7 DEF Values
  <2> QED BY <1>1, <1>7, <2>1, <2>2 DEF PushInv
<1>18. CASE Finally /\ t = Null
  <2>1. /\ task' = [task EXCEPT ![t] = IdleTask] /\ requested' = FALSE
        /\ UNCHANGED <<live, known, overlooked, last, checking, desired, rendered, receipt, owed>>
    BY <1>18 DEF Finally, connVars, openVars, worldVars
  <2>2. Working'
    BY <1>1, <2>1, IdleWorks, OneWorks
  <2>3. Values'
    BY <1>1, <2>1 DEF Values
  <2> QED BY <2>1, <2>2, <2>3 DEF PushInv
<1>8. CASE Authorized(t)
  <2>1. p = "check"
    BY <1>4, <1>8 DEF Authorized
  <2>2. PICK first \in s : task' = [task EXCEPT ![t] = [task[t] EXCEPT !.pc = "load", !.at = first]]
    BY <1>4, <1>8 DEF Authorized
  <2>3. UNCHANGED <<live, known, overlooked, last, checking, desired, rendered, requested, receipt, owed>>
    BY <1>8 DEF Authorized, connVars, openVars, worldVars
  <2> DEFINE o == [k EXCEPT !.pc = "load"]
             r == [k EXCEPT !.pc = "load", !.at = first]
  <2>4. r = [o EXCEPT !.at = first]
    OBVIOUS
  <2>5. o = Record("load", s, w, a, n)
    BY <1>3 DEF Record
  <2>6. task' = [task EXCEPT ![t] = r]
    BY <2>2
  <2> HIDE DEF o, r, k
  <2>7. r = Record("load", s, w, first, n)
    BY <2>4, <2>5 DEF Record
  <2>8. Works(r, live, desired)
    BY <1>1, <1>5, <2>7, RecordWorks, PushAssumption
  <2> QED BY <1>1, <1>7, <2>3, <2>6, <2>8 DEF Values
<1>9. CASE Loaded(t)
  <2> DEFINE m == Presentation(t)
             o1 == [k EXCEPT !.pc = "recheck"]
             o2 == [o1 EXCEPT !.at = Null]
             r == [k EXCEPT !.pc = "recheck", !.at = Null, !.shows = m]
  <2>1. m \in 0 .. desired
    BY <1>1 DEF Presentation, Values, Task
  <2>2. /\ task' = [task EXCEPT ![t] = r]
        /\ receipt' = IF t = Null THEN receipt ELSE [receipt EXCEPT ![t] = m]
        /\ UNCHANGED <<live, known, overlooked, last, checking, desired, rendered, requested, owed>>
    BY <1>9 DEF Loaded, connVars, openVars, worldVars
  <2>3. p = "load"
    BY <1>4, <1>9 DEF Loaded
  <2>4. r = [o2 EXCEPT !.shows = m]
    OBVIOUS
  <2>5. o1 = Record("recheck", s, w, a, n)
    BY <1>3 DEF Record
  <2> HIDE DEF o1, r, k, m
  <2>6. o2 = Record("recheck", s, w, Null, n)
    BY <2>5 DEF Record
  <2> HIDE DEF o2
  <2>7. r = Record("recheck", s, w, Null, m)
    BY <2>4, <2>6 DEF Record
  <2>8. Works(r, live, desired)
    BY <1>5, <2>1, <2>7, RecordWorks
  <2>9. receipt' \in [Delivery -> 0 .. desired]
    BY <1>1, <2>1, <2>2 DEF Values, Task
  <2> QED BY <1>1, <1>7, <2>2, <2>8, <2>9 DEF Values
<1>10. CASE Recheck(t)
  <2>1. p = "recheck"
    BY <1>4, <1>10 DEF Recheck
  <2>2. PICK c \in s : /\ Check({c})
                       /\ task' = [task EXCEPT ![t] = [task[t] EXCEPT !.at = c, !.awaits = {c}]]
    BY <1>4, <1>10 DEF Recheck
  <2>3. UNCHANGED <<live, known, overlooked, last, desired, rendered, requested, receipt, owed>>
    BY <1>10 DEF Recheck, openVars, worldVars
  <2>4. checking' \in [Connection -> {"no", "good", "bad"}]
    BY <1>1, <2>2, CheckTyped
  <2> DEFINE o == [k EXCEPT !.at = c]
             r == [k EXCEPT !.at = c, !.awaits = {c}]
  <2>5. r = [o EXCEPT !.awaits = {c}]
    OBVIOUS
  <2>6. o = Record(p, s, w, c, n)
    BY <1>3 DEF Record
  <2>7. task' = [task EXCEPT ![t] = r]
    BY <2>2
  <2> HIDE DEF o, r, k
  <2>8. r = Record(p, s, {c}, c, n)
    BY <2>5, <2>6 DEF Record
  <2>9. Works(r, live, desired)
    BY <1>5, <2>1, <2>8, RecordWorks
  <2> QED BY <1>1, <1>7, <2>3, <2>4, <2>7, <2>9 DEF Values
<1>11. ASSUME task' = Passed(t, a), w = {},
              UNCHANGED <<live, known, overlooked, checking, desired, rendered, requested, receipt, owed>>,
              last' \in [Connection -> 0 .. desired]
       PROVE  PushInv'
  <2> DEFINE o1 == [k EXCEPT !.pc = "recheck"]
             o2 == [o1 EXCEPT !.at = Null]
             r == [k EXCEPT !.pc = "recheck", !.at = Null, !.states = k.states \ {a}]
  <2>1. task' = [task EXCEPT ![t] = r]
    BY <1>11 DEF Passed
  <2>2. r = [o2 EXCEPT !.states = s \ {a}]
    BY <1>4
  <2>3. o1 = Record("recheck", s, w, a, n)
    BY <1>3 DEF Record
  <2> HIDE DEF o1, r, k
  <2>4. o2 = Record("recheck", s, w, Null, n)
    BY <2>3 DEF Record
  <2> HIDE DEF o2
  <2>5. r = Record("recheck", s \ {a}, w, Null, n)
    BY <2>2, <2>4 DEF Record
  <2>6. Works(r, live, desired)
    BY <1>5, <1>11, <2>5, RecordWorks
  <2> QED BY <1>1, <1>7, <1>11, <2>1, <2>6 DEF Values
<1>12. a # Null => a \in Connection
  BY <1>1, <1>5
<1>13. CASE Skip(t)
  <2>1. /\ task' = Passed(t, a) /\ w = {}
        /\ UNCHANGED <<live, known, overlooked, last, checking, desired, rendered, requested, receipt, owed>>
    BY <1>4, <1>13 DEF Skip, connVars, openVars, worldVars
  <2> QED BY <1>1, <1>11, <2>1 DEF Values
<1>14. CASE Send(t) /\ t = Null
  <2>1. /\ task' = Passed(t, a) /\ w = {} /\ last' = [last EXCEPT ![a] = n]
        /\ UNCHANGED <<live, known, overlooked, checking, desired, rendered, requested, receipt, owed>>
    BY <1>4, <1>14 DEF Send, worldVars
  <2>2. last' \in [Connection -> 0 .. desired]
    BY <1>1, <1>5, <2>1 DEF Values
  <2> QED BY <1>11, <2>1, <2>2
<1>15. CASE Send(t) /\ t # Null
  <2> DEFINE r == [k EXCEPT !.pc = "confirm"]
  <2>1. /\ task' = [task EXCEPT ![t] = r]
        /\ p = "recheck" /\ a # Null /\ w = {}
        /\ UNCHANGED <<last, live, known, overlooked, checking, desired, rendered, requested, receipt, owed>>
    BY <1>4, <1>15 DEF Send, worldVars
  <2>2. r = Record("confirm", s, w, a, n)
    BY <1>3 DEF Record
  <2> HIDE DEF r, k
  <2>3. Works(r, live, desired)
    BY <1>5, <2>1, <2>2, RecordWorks
  <2> QED BY <1>1, <1>7, <2>1, <2>3 DEF Values
<1>16. CASE Confirm(t)
  <2>1. /\ task' = Passed(t, a) /\ p = "confirm"
        /\ last' = [last EXCEPT ![a] = Confirmed(t, a)]
        /\ UNCHANGED <<live, known, overlooked, checking, desired, rendered, requested, receipt, owed>>
    BY <1>4, <1>16 DEF Confirm, worldVars
  <2>2. a \in Connection
    BY <1>5, <1>12, <2>1
  <2>3. Confirmed(t, a) \in 0 .. desired
    BY <1>1, <1>4, <1>5, <2>2 DEF Confirmed, Values
  <2>4. last' \in [Connection -> 0 .. desired]
    BY <1>1, <2>1, <2>3 DEF Values
  <2> QED BY <1>5, <1>11, <2>1, <2>4
<1>17. CASE Failed(t)
  <2> DEFINE again == t = Null /\ requested /\ live # s
             next == IF again THEN [Started EXCEPT !.states = live \ s, !.awaits = live \ s]
                     ELSE IF t = Null THEN EndedTask ELSE IdleTask
  <2>1. /\ Close(s)
        /\ task' = [[u \in Task |-> Without(task[u], s)] EXCEPT ![t] = next]
        /\ checking' = [c \in Connection |-> IF c \in s THEN "no"
                                       ELSE IF again THEN WithCheck(c) ELSE checking[c]]
        /\ requested' = (requested /\ ~again)
        /\ UNCHANGED <<worldVars, receipt, owed>>
    BY <1>4, <1>17, Zenon DEF Failed
  <2>2. /\ live' = live \ s /\ known' = known \ s
        /\ last' = [c \in Connection |-> IF c \in s THEN 0 ELSE last[c]]
        /\ overlooked' = [c \in Connection |-> IF c \in s THEN 0 ELSE overlooked[c]]
        /\ UNCHANGED <<desired, rendered, receipt, owed>>
    BY <2>1 DEF Close, worldVars
  <2>3. s \in SUBSET Connection
    BY <1>1, <1>5
  <2>4. Works(next, live \ s, desired)
    <3>1. CASE again
      BY <1>1, <3>1, StartedWorks
    <3>2. CASE ~again
      BY <1>1, <3>2, IdleWorks, EndedWorks
    <3> QED BY <3>1, <3>2
  <2>5. \A u \in Task : Works(Without(task[u], s), live \ s, desired)
    BY <1>1, <2>3, WithoutWorks DEF Working
  <2>6. requested' \in BOOLEAN
    BY <1>1, <2>1, Zenon
  <2>7. checking' \in [Connection -> {"no", "good", "bad"}]
    <3>1. \A c \in Connection : WithCheck(c) \in {"no", "good", "bad"} /\ checking[c] \in {"no", "good", "bad"}
      BY <1>1 DEF Values, WithCheck
    <3> HIDE DEF again
    <3> QED BY <2>1, <3>1
  <2> HIDE DEF again, next, k
  <2>8. Working'
    <3>1. \A u \in Task : task'[u] = IF u = t THEN next ELSE Without(task[u], s)
      BY <2>1
    <3>2. task' = [u \in Task |-> task'[u]]
      BY <2>1
    <3>3. \A u \in Task : Works(task'[u], live \ s, desired)
      BY <2>4, <2>5, <3>1
    <3> QED BY <2>2, <3>2, <3>3 DEF Working
  <2>9. Values'
    <3>1. last' \in [Connection -> 0 .. desired] /\ overlooked' \in [Connection -> 0 .. desired]
      BY <1>1, <2>2 DEF Values
    <3> QED BY <1>1, <2>2, <2>7, <3>1 DEF Values
  <2> QED BY <2>6, <2>8, <2>9 DEF PushInv
<1> QED BY <1>6, <1>8, <1>9, <1>10, <1>13, <1>14, <1>15, <1>16, <1>17, <1>18 DEF Work

(* Connections that come, and those that close. *)
LEMMA AuthenticateKeeps ==
    ASSUME PushInv, NEW c \in Connection, Authenticate(c)
    PROVE  PushInv'
<1> DEFINE all == live \cup {c}
           r == [Started EXCEPT !.states = all, !.awaits = all]
<1>1. /\ desired \in Nat /\ live \in SUBSET Connection /\ all \in SUBSET Connection
      /\ Working /\ Values /\ requested \in BOOLEAN
  BY PushAssumption DEF PushInv, Values, Delivery
<1>2. /\ live' = all /\ known' = known \cup {c} /\ last' = [last EXCEPT ![c] = 0]
      /\ overlooked' = [overlooked EXCEPT ![c] = IF task[Null].pc = "ended" THEN desired ELSE 0]
      /\ UNCHANGED <<desired, rendered, receipt, owed>>
      /\ IF task[Null].pc = "idle"
         THEN /\ task' = [task EXCEPT ![Null] = r]
              /\ checking' = [d \in Connection |-> IF d = c THEN "good" ELSE WithCheck(d)]
              /\ UNCHANGED requested
         ELSE requested' = TRUE /\ UNCHANGED <<task, checking>>
  BY DEF Authenticate, worldVars
<1>3. Works(r, all, desired)
  BY <1>1, StartedWorks
<1>4. \A t \in Task : Works(task[t], all, desired)
  BY <1>1, WorksOn DEF Working
<1> HIDE DEF r, all
<1>5. /\ \A t \in Task : Works(task'[t], all, desired)
      /\ task' = [t \in Task |-> task'[t]]
      /\ checking' \in [Connection -> {"no", "good", "bad"}] /\ requested' \in BOOLEAN
  <2>1. CASE task[Null].pc = "idle"
    <3>1. task' = [task EXCEPT ![Null] = r]
      BY <1>2, <2>1
    <3>2. \A d \in Connection : WithCheck(d) \in {"no", "good", "bad"}
      BY <1>1 DEF Values, WithCheck
    <3>3. checking' \in [Connection -> {"no", "good", "bad"}] /\ requested' \in BOOLEAN
      BY <1>1, <1>2, <2>1, <3>2
    <3>4. \A t \in Task : task'[t] = IF t = Null THEN r ELSE task[t]
      BY <1>1, <3>1 DEF Working
    <3>5. task' = [t \in Task |-> task'[t]]
      BY <1>1, <3>1 DEF Working
    <3> QED BY <1>3, <1>4, <3>3, <3>4, <3>5
  <2>2. CASE task[Null].pc # "idle"
    BY <1>1, <1>2, <1>4, <2>2 DEF Working, Values
  <2> QED BY <2>1, <2>2
<1>6. Working'
  BY <1>2, <1>5 DEF Working
<1>7. Values'
  <2>1. last' \in [Connection -> 0 .. desired] /\ overlooked' \in [Connection -> 0 .. desired]
    BY <1>1, <1>2 DEF Values
  <2>2. known \cup {c} \subseteq all /\ all \subseteq Connection
    BY <1>1 DEF Values, all
  <2> QED BY <1>1, <1>2, <1>5, <2>1, <2>2 DEF Values
<1> QED BY <1>5, <1>6, <1>7 DEF PushInv

LEMMA ClosingKeeps ==
    ASSUME PushInv, NEW c \in Connection, Close({c}), Unchecked({c}),
           task' = [t \in Task |-> Without(task[t], {c})],
           UNCHANGED <<requested, desired, rendered, receipt, owed>>
    PROVE  PushInv'
<1>1. live' = live \ {c} /\ known' = known \ {c}
  BY DEF Close
<1>2. Working'
  BY <1>1, AllWithout
<1>3. /\ last' \in [Connection -> 0 .. desired] /\ overlooked' \in [Connection -> 0 .. desired]
      /\ checking' \in [Connection -> {"no", "good", "bad"}]
  BY PushAssumption DEF Close, Unchecked, PushInv, Values, Delivery
<1>4. Values'
  BY <1>1, <1>3 DEF PushInv, Values
<1> QED BY <1>2, <1>4 DEF PushInv

(* A check ends without failing: nobody awaits it any more. *)
LEMMA PassesKeeps ==
    ASSUME PushInv, NEW c \in Connection, CheckPasses(c)
    PROVE  PushInv'
<1>1. /\ checking' = [checking EXCEPT ![c] = "no"]
      /\ task' = [t \in Task |-> [task[t] EXCEPT !.awaits = task[t].awaits \ {c}]]
      /\ UNCHANGED <<live, known, overlooked, last, requested, desired, rendered, receipt, owed>>
  BY DEF CheckPasses, openVars, worldVars
<1>2. ASSUME NEW t \in Task
      PROVE  Works([task[t] EXCEPT !.awaits = task[t].awaits \ {c}], live, desired)
  <2> DEFINE k == task[t]
             r == [k EXCEPT !.awaits = k.awaits \ {c}]
  <2>1. Works(k, live, desired)
    BY DEF PushInv, Working
  <2>2. PICK p, s, w, a, n : k = Record(p, s, w, a, n)
    BY <2>1, Parts
  <2>3. k.awaits = w
    BY <2>2, RecordUpdate
  <2>4. r = Record(p, s, w \ {c}, a, n)
    BY <2>2, <2>3 DEF Record
  <2>5. Works(Record(p, s, w, a, n), live, desired)
    BY <2>1, <2>2
  <2> HIDE DEF k, r
  <2>6. Works(r, live, desired)
    BY <2>4, <2>5, RecordWorks
  <2> QED BY <2>6 DEF r, k
<1>3. Working'
  <2>1. \A t \in Task : task'[t] = [task[t] EXCEPT !.awaits = task[t].awaits \ {c}]
    BY <1>1
  <2>2. task' = [t \in Task |-> task'[t]]
    BY <1>1
  <2>3. \A t \in Task : Works(task'[t], live, desired)
    BY <1>2, <2>1
  <2> QED BY <1>1, <2>2, <2>3 DEF Working
<1>4. Values'
  BY <1>1 DEF PushInv, Values
<1> QED BY <1>1, <1>3, <1>4 DEF PushInv

(* An operation fails, of which the task knows. *)
LEMMA FailureKeeps ==
    ASSUME PushInv, NEW t \in Task, PushOperationFails(t)
    PROVE  PushInv'
<1> DEFINE k == task[t]
           o == [k EXCEPT !.pc = "failed"]
           r == [k EXCEPT !.pc = "failed", !.at = Null]
<1>1. /\ task' = [task EXCEPT ![t] = r]
      /\ UNCHANGED <<live, known, overlooked, last, checking, requested, desired, rendered, receipt, owed>>
  BY DEF PushOperationFails, connVars, openVars, worldVars
<1>2. Works(k, live, desired) /\ Working
  BY DEF PushInv, Working
<1>3. PICK p, s, w, a, n : k = Record(p, s, w, a, n)
  BY <1>2, Parts
<1>4. o = Record("failed", s, w, a, n) /\ r = [o EXCEPT !.at = Null]
  BY <1>3 DEF Record
<1>5. Works(Record(p, s, w, a, n), live, desired)
  BY <1>2, <1>3
<1> HIDE DEF k, o, r
<1>6. r = Record("failed", s, w, Null, n)
  BY <1>4 DEF Record
<1>7. Works(r, live, desired)
  BY <1>5, <1>6, RecordWorks
<1>8. Working'
  BY <1>1, <1>2, <1>7, OneWorks
<1>9. Values'
  BY <1>1 DEF PushInv, Values
<1> QED BY <1>1, <1>8, <1>9 DEF PushInv

(* The outbox makes a delivery. *)
LEMMA DeliverKeeps ==
    ASSUME PushInv, NEW n \in Delivery, Deliver(n)
    PROVE  PushInv'
<1>1. /\ UNCHANGED <<live, known, overlooked, last, requested, desired, rendered, receipt>>
      /\ \/ owed' = owed \ {n} /\ UNCHANGED <<task, checking>>
         \/ task' = [task EXCEPT ![n] = Started] /\ Check(live) /\ UNCHANGED owed
  BY DEF Deliver, openVars, worldVars
<1>2. desired \in Nat /\ Working /\ Values
  BY PushAssumption DEF PushInv, Values, Delivery
<1>3. CASE owed' = owed \ {n} /\ UNCHANGED <<task, checking>>
  BY <1>1, <1>3 DEF PushInv, Values, Working
<1>4. CASE task' = [task EXCEPT ![n] = Started] /\ Check(live) /\ UNCHANGED owed
  <2>1. Works(Started, live, desired) /\ n \in Task
    BY <1>2, StartsNow DEF Task
  <2>2. Working'
    BY <1>1, <1>2, <1>4, <2>1, OneWorks
  <2>3. checking' \in [Connection -> {"no", "good", "bad"}]
    BY <1>2, <1>4, CheckTyped
  <2>4. Values'
    BY <1>1, <1>4, <2>3 DEF PushInv, Values
  <2> QED BY <1>1, <2>2, <2>4 DEF PushInv
<1> QED BY <1>1, <1>3, <1>4

(* A presentation is announced. *)
LEMMA AnnounceKeeps ==
    ASSUME PushInv, NEW isRendered, Announce(isRendered)
    PROVE  PushInv'
<1>1. /\ desired < Newest /\ desired' = desired + 1 /\ owed' = owed \cup {desired + 1}
      /\ rendered' \in {rendered \cup {desired + 1}, rendered}
      /\ UNCHANGED <<live, known, overlooked, last, checking, task, requested, receipt>>
  BY DEF Announce, connVars, openVars
<1>2. desired \in Nat /\ desired + 1 \in Delivery /\ desired <= desired + 1
  BY <1>1, PushAssumption DEF PushInv, Values, Delivery
<1>3. \A t \in Task : Works(task[t], live, desired + 1)
  BY <1>2, WorksOn DEF PushInv, Working
<1>4. Working'
  BY <1>1, <1>3 DEF PushInv, Working
<1>5. /\ last \in [Connection -> 0 .. desired + 1] /\ overlooked \in [Connection -> 0 .. desired + 1]
      /\ receipt \in [Delivery -> 0 .. desired + 1]
      /\ owed' \subseteq 1 .. desired + 1 /\ rendered' \subseteq 1 .. desired + 1
  <2>1. 0 .. desired \subseteq 0 .. desired + 1 /\ 1 .. desired \subseteq 1 .. desired + 1
        /\ desired + 1 \in 1 .. desired + 1
    BY <1>2
  <2>2. /\ last \in [Connection -> 0 .. desired] /\ overlooked \in [Connection -> 0 .. desired]
        /\ receipt \in [Delivery -> 0 .. desired]
        /\ owed \subseteq 1 .. desired /\ rendered \subseteq 1 .. desired
    BY DEF PushInv, Values
  <2> QED BY <1>1, <2>1, <2>2
<1>6. Values'
  BY <1>1, <1>2, <1>5 DEF PushInv, Values
<1> QED BY <1>1, <1>4, <1>6 DEF PushInv

LEMMA PushStarts ==
    ASSUME PushInit
    PROVE  PushInv
<1>1. desired = 1 /\ 1 \in Delivery /\ desired \in Nat
  BY PushAssumption DEF PushInit, Delivery
<1>2. Works(IdleTask, live, desired)
  BY <1>1, IdleWorks
<1>3. Working
  BY <1>2 DEF Working, PushInit
<1>4. Values
  BY <1>1 DEF Values, PushInit
<1> QED BY <1>3, <1>4 DEF PushInv, PushInit

LEMMA PushSteps ==
    ASSUME PushInv, [PushNext]_pushVars
    PROVE  PushInv'
<1>1. ASSUME NEW t \in Task, Work(t)
      PROVE  PushInv'
  BY <1>1, WorkKeeps
<1>2. ASSUME NEW t \in Task, PushOperationFails(t)
      PROVE  PushInv'
  BY <1>2, FailureKeeps
<1>3. ASSUME NEW c \in Connection, Authenticate(c)
      PROVE  PushInv'
  BY <1>3, AuthenticateKeeps
<1>4. ASSUME NEW c \in Connection, StartCheck(c)
      PROVE  PushInv'
  <2>1. /\ UNCHANGED <<live, known, overlooked, last, task, requested, desired, rendered, receipt, owed>>
        /\ Check({c})
    BY <1>4 DEF StartCheck, openVars, worldVars
  <2>2. checking' \in [Connection -> {"no", "good", "bad"}]
    BY <2>1, CheckTyped DEF PushInv
  <2> QED BY <2>1, <2>2 DEF PushInv, Values, Working
<1>5. ASSUME NEW c \in Connection, CheckEnds(c)
      PROVE  PushInv'
  <2>1. CASE CheckPasses(c)
    BY <2>1, <1>5, PassesKeeps
  <2>2. CASE CheckFails(c)
    BY <2>2, <1>5, ClosingKeeps DEF CheckFails, worldVars
  <2> QED BY <1>5, <2>1, <2>2 DEF CheckEnds
<1>6. ASSUME NEW c \in Connection, Leave(c)
      PROVE  PushInv'
  BY <1>6, ClosingKeeps DEF Leave, worldVars
<1>7. ASSUME NEW n \in Delivery, Deliver(n)
      PROVE  PushInv'
  BY <1>7, DeliverKeeps
<1>8. CASE Publish \/ Render
  BY <1>8, AnnounceKeeps DEF Publish, Render
<1>9. CASE PushRevoke
  BY <1>9 DEF PushRevoke, worldVars, PushInv, Values, Working
<1>10. CASE UNCHANGED pushVars
  BY <1>10 DEF pushVars, connVars, openVars, worldVars, PushInv, Values, Working
<1> QED BY <1>1, <1>2, <1>3, <1>4, <1>5, <1>6, <1>7, <1>8, <1>9, <1>10 DEF PushNext

(* What check, deliver, operation and cleanup do to the tasks of a process:    *)
(* none works for a connection that has gone, or awaits a check that nobody    *)
(* will end, for any number of connections and presentations (PushTypeOK of    *)
(* GatewayPush).                                                               *)
THEOREM PushesTyped == PushSafe => []PushTypeOK
<1>1. PushInit => PushInv
  BY PushStarts
<1>2. PushInv /\ [PushNext]_pushVars => PushInv'
  BY PushSteps
<1>3. PushInv => PushTypeOK
  BY PushTyped
<1> QED BY <1>1, <1>2, <1>3, PTL DEF PushSafe

(* What a connection is known to have been sent never goes back: neither the    *)
(* answer to a merged push nor the confirmation of a slower send replaces a     *)
(* newer presentation (Send and Confirm, in any order of any number of tasks;   *)
(* ShownForward).                                                              *)
THEOREM PushesForward == PushSafe => ShownForward
<1>1. PushInit => PushInv
  BY PushStarts
<1>2. PushInv /\ [PushNext]_pushVars => PushInv'
  BY PushSteps
<1>3. PushInv /\ [PushNext]_pushVars => [Forward]_pushVars
  <2> SUFFICES ASSUME PushInv, PushNext
               PROVE  Forward
    OBVIOUS
  <2> USE DEF Forward
  <2>1. desired \in Nat /\ live \subseteq Connection /\ last \in [Connection -> 0 .. desired]
    BY PushAssumption DEF PushInv, Values, Delivery
  <2>2. \A c \in Connection : last[c] \in Int
    BY <2>1
  <2>3. ASSUME UNCHANGED last PROVE Forward
    BY <2>1, <2>2, <2>3
  <2>4. ASSUME NEW C, Close(C) PROVE Forward
    BY <2>1, <2>2, <2>4 DEF Close
  <2>5. ASSUME NEW t \in Task, Work(t)
        PROVE  Forward
    <3>1. task[t].shows \in Int
      BY <2>1, <2>5 DEF PushInv, Working, Works
    <3>2. CASE Send(t)
      BY <2>1, <2>2, <3>1, <3>2 DEF Send, Newer
    <3>3. CASE Confirm(t)
      BY <2>1, <2>2, <3>1, <3>3 DEF Confirm, Confirmed, Newer
    <3>4. CASE Failed(t)
      BY <2>4, <3>4, Zenon DEF Failed
    <3>5. CASE \/ Authorized(t) \/ NothingAuthorized(t) \/ Loaded(t)
               \/ NotRendered(t) \/ Recheck(t) \/ Skip(t) \/ Delivered(t) \/ Finally
      <4>1. UNCHANGED last
        BY <3>5 DEF Authorized, NothingAuthorized, Loaded, NotRendered,
               Recheck, Skip, Delivered, Finally, Finish, connVars, openVars
      <4> QED BY <4>1, <2>3
    <3> QED BY <2>5, <3>2, <3>3, <3>4, <3>5 DEF Work
  <2>6. ASSUME NEW c \in Connection, Authenticate(c)
        PROVE  Forward
    <3>1. c \notin live /\ last' = [last EXCEPT ![c] = 0]
      BY <2>6 DEF Authenticate
    <3> QED BY <2>1, <2>2, <3>1
  <2>7. ASSUME NEW c \in Connection,
               StartCheck(c) \/ CheckEnds(c) \/ Leave(c)
        PROVE  Forward
    BY <2>3, <2>4, <2>7 DEF StartCheck, CheckEnds, CheckPasses, openVars,
       CheckFails, Leave
  <2>8. ASSUME NEW t \in Task, PushOperationFails(t)
        PROVE  Forward
    BY <2>3, <2>8 DEF PushOperationFails, connVars, openVars
  <2>9. ASSUME NEW n \in Delivery, Deliver(n)
        PROVE  Forward
    BY <2>3, <2>9 DEF Deliver, openVars
  <2>10. CASE Publish \/ Render \/ PushRevoke
    BY <2>3, <2>10 DEF Publish, Render, Announce, PushRevoke, connVars, openVars
  <2> QED BY <2>5, <2>6, <2>7, <2>8, <2>9, <2>10 DEF PushNext
<1> QED BY <1>1, <1>2, <1>3, PTL DEF PushSafe, ShownForward
=============================================================================
