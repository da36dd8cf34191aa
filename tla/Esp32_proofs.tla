----------------------------- MODULE Esp32_proofs -----------------------------
(***************************************************************************)
(* Proofs about the ESP32 box: its clock, for every width of millis() and   *)
(* every interval that fits well into half of it, and its pull client, for  *)
(* any servers, codes and contents and any number of power failures.        *)
(***************************************************************************)
EXTENDS Esp32Clock, Esp32Display, SequenceTheorems, TLAPS

(* The clock.                                                                 *)
LEMMA Constants ==
    /\ Half \in Nat /\ MaxBlock \in Nat /\ MaxRefresh \in Nat /\ Hold \in Nat
    /\ MaxOffline \in Nat
    /\ 0 < Half /\ 0 < MaxBlock /\ 0 < MaxRefresh /\ 0 < Hold /\ 0 < MaxOffline
    /\ MaxOffline + MaxRefresh + 2 * MaxBlock < Half
    /\ Hold + MaxBlock < Half
BY ClockAssumption

(* The types of the state, less the bound on "opened" that is a result. *)
PollType ==
    /\ now \in Word /\ nextPollAt \in Word
    /\ paired \in BOOLEAN /\ asked \in BOOLEAN
    /\ since \in 0 .. Half /\ interval \in 1 .. MaxRefresh
    /\ offline \in 0 .. MaxOffline

TouchType ==
    /\ now \in Word /\ started \in Word
    /\ triggered \in BOOLEAN
    /\ held \in -1 .. Hold + MaxBlock /\ opened \in 0 .. 1

(* How far the deadline is from now, in the direction the history says. *)
Distance ==
    IF since >= interval THEN Minus(now, nextPollAt) = since - interval
    ELSE Minus(nextPollAt, now) = interval - since

PollInv ==
    /\ PollType
    /\ asked => /\ paired /\ nextPollAt = 0
                /\ now + (MaxOffline - offline) + MaxBlock < Half
    /\ paired /\ ~asked => Distance /\ since < interval + offline

TouchInv ==
    /\ TouchType
    /\ held = -1 => started = 0 /\ ~triggered /\ opened = 0
    /\ held >= 0 /\ triggered => opened = 1 /\ held >= Hold
    /\ held >= 0 /\ ~triggered =>
          /\ opened = 0
          /\ IF started = 0 THEN held = 0 /\ now = 0
             ELSE /\ Minus(now, started) < Hold
                  /\ Minus(now, started) <= held
                  /\ held <= Minus(now, started) + MaxBlock

-----------------------------------------------------------------------------
(* Arithmetic of the word.                                                    *)
LEMMA WordArithmetic ==
    ASSUME NEW a \in Word, NEW b \in Word, NEW d \in 0 .. Half
    PROVE  /\ Plus(a, d) \in Word
           /\ Minus(a, b) \in Word
           /\ Minus(a, b) + d < 2 * Half => Minus(Plus(a, d), b) = Minus(a, b) + d
           /\ Minus(Plus(a, d), a) = d
           /\ d <= Minus(b, a) => Minus(b, Plus(a, d)) = Minus(b, a) - d
           /\ Minus(b, a) <= d => Minus(Plus(a, d), b) = d - Minus(b, a)
           /\ a # b => Minus(a, b) + Minus(b, a) = 2 * Half
           /\ Minus(a, a) = 0
           /\ Minus(a, b) = 0 => a = b
BY Constants DEF Word, Plus, Minus

(* What an iteration has been given. *)
LEMMA StepTime ==
    ASSUME NEW d \in 1 .. MaxBlock, now \in Word
    PROVE  d \in 0 .. Half /\ Plus(now, d) \in Word
BY Constants, WordArithmetic DEF Word

-----------------------------------------------------------------------------
(* The deadline stays at its distance; how far it may be is bounded by the    *)
(* time without a connection, so that its sign is never mistaken.             *)
LEMMA DueIsExact ==
    ASSUME PollInv, paired, ~asked
    PROVE  Due(now, nextPollAt) <=> since >= interval
<1>1. now \in Word /\ nextPollAt \in Word
    BY DEF PollInv, PollType
<1>2. CASE since >= interval
    BY <1>1, <1>2, Constants DEF PollInv, PollType, Distance, Due
<1>3. CASE since < interval
    <2>1. Minus(nextPollAt, now) = interval - since /\ interval - since > 0
        BY <1>3 DEF PollInv, PollType, Distance
    <2>2. nextPollAt # now
        BY <1>1, <2>1, WordArithmetic, Constants
    <2>3. Minus(now, nextPollAt) = 2 * Half - (interval - since)
        BY <1>1, <2>1, <2>2, WordArithmetic, Constants DEF PollInv, PollType, Word, Minus
    <2>. QED BY <1>3, <2>3, Constants DEF PollInv, PollType, Due
<1>. QED BY <1>2, <1>3 DEF PollInv, PollType

LEMMA ScheduleDistance ==
    ASSUME NEW t \in Word, NEW s \in 1 .. MaxRefresh
    PROVE  Plus(t, s) \in Word /\ Minus(Plus(t, s), t) = s
BY Constants, WordArithmetic

LEMMA WaitKeepsDistance ==
    ASSUME PollInv, paired, ~asked, NEW d \in 1 .. MaxBlock,
           since < interval + MaxOffline
    PROVE  LET t == Plus(now, d) IN
           IF since + d >= interval THEN Minus(t, nextPollAt) = since + d - interval
           ELSE Minus(nextPollAt, t) = interval - (since + d)
<1>1. now \in Word /\ nextPollAt \in Word /\ d \in 0 .. Half
    BY StepTime DEF PollInv, PollType
<1>2. CASE since >= interval
    <2>1. Minus(now, nextPollAt) + d < 2 * Half
        BY <1>2, Constants DEF PollInv, PollType, Distance
    <2>2. Minus(Plus(now, d), nextPollAt) = Minus(now, nextPollAt) + d
        BY <1>1, <2>1, WordArithmetic
    <2>. QED BY <1>2, <2>2, Constants DEF PollInv, PollType, Distance
<1>3. CASE since < interval
    <2>1. Minus(nextPollAt, now) = interval - since
        BY <1>3 DEF PollInv, PollType, Distance
    <2>2. CASE d <= interval - since
        <3>1. Minus(nextPollAt, Plus(now, d)) = interval - since - d
            BY <1>1, <2>1, <2>2, WordArithmetic
        <3>2. CASE d = interval - since
            <4>1. Plus(now, d) = nextPollAt
                BY <1>1, <3>1, <3>2, StepTime, WordArithmetic, Constants DEF PollInv, PollType
            <4>2. Minus(Plus(now, d), nextPollAt) = 0
                BY <1>1, <4>1, WordArithmetic
            <4>3. since + d >= interval /\ since + d - interval = 0
                BY <3>2, Constants DEF PollInv, PollType
            <4>. QED BY <4>2, <4>3
        <3>. QED BY <2>2, <3>1, <3>2, Constants DEF PollInv, PollType
    <2>3. CASE d > interval - since
        <3>1. Minus(Plus(now, d), nextPollAt) = d - (interval - since)
            BY <1>1, <2>1, <2>3, WordArithmetic, Constants DEF PollInv, PollType
        <3>. QED BY <2>3, <3>1, Constants DEF PollInv, PollType
    <2>. QED BY <2>2, <2>3, Constants DEF PollInv, PollType
<1>. QED BY <1>2, <1>3 DEF PollInv, PollType

LEMMA PollInit == ClockInit => PollInv
<1> SUFFICES ASSUME ClockInit PROVE PollInv
    OBVIOUS
<1>1. PollType
    <2>1. paired \in BOOLEAN /\ asked \in BOOLEAN
        BY Zenon DEF ClockInit
    <2>. QED BY <2>1, Constants DEF ClockInit, PollType, Word
<1>2. paired => Minus(nextPollAt, now) = interval
    BY Constants DEF ClockInit, Minus
<1>. QED BY <1>1, <1>2, Constants DEF ClockInit, PollInv, Distance

LEMMA PollStep ==
    ASSUME PollInv, NEW d \in 1 .. MaxBlock, now' = Plus(now, d), Rest(Plus(now, d), d),
           ~LatePairing
    PROVE  PollInv'
<1> DEFINE t == Plus(now, d)
<1>1. now \in Word /\ nextPollAt \in Word /\ t \in Word
    BY StepTime DEF PollInv, PollType
<1>2. CASE Pair(t, d) /\ UNCHANGED offline
    <2>1. PollType'
        BY <1>1, <1>2, Constants DEF PollInv, PollType, Pair, Word
    <2>. QED BY <1>2, <2>1, Constants DEF PollInv, PollType, Pair
<1>3. CASE offline + d <= MaxOffline /\ offline' = offline + d /\ Wait(d)
    <2>1. PollType'
        BY <1>1, <1>3, Constants DEF PollInv, PollType, Wait
    <2>2. ASSUME asked PROVE t + (MaxOffline - offline') + MaxBlock < Half
        BY <1>1, <1>3, <2>2, Constants DEF PollInv, PollType, Plus, Word
    <2>3. ASSUME paired, ~asked PROVE Distance' /\ since' < interval' + offline'
        <3>1. since' = since + d
            BY <1>3, <2>3, Constants DEF PollInv, PollType, Wait
        <3>2. Distance'
            BY <1>3, <2>3, <3>1, WaitKeepsDistance, Constants DEF PollInv, PollType, Wait, Distance
        <3>. QED BY <1>3, <2>3, <3>1, <3>2, Constants DEF PollInv, PollType, Wait
    <2>. QED BY <1>3, <2>1, <2>2, <2>3 DEF PollInv, Wait
<1>4. CASE offline' = 0 /\ Poll(t)
    <2>1. PICK seconds \in 1 .. MaxRefresh : Schedule(t, seconds)
        BY <1>4 DEF Poll
    <2>2. PollType'
        <3>1. paired' \in BOOLEAN /\ asked' \in BOOLEAN
            BY <1>4, <2>1, Zenon DEF Poll, Schedule
        <3>. QED BY <1>1, <1>4, <2>1, <3>1, ScheduleDistance, Constants DEF PollType, Schedule
    <2>3. Distance' /\ since' < interval' + offline'
        BY <1>1, <1>4, <2>1, ScheduleDistance, Constants DEF Schedule, Distance
    <2>. QED BY <1>4, <2>1, <2>2, <2>3 DEF PollInv, Schedule
<1>5. CASE offline' = 0 /\ ~(paired /\ Due(t, nextPollAt)) /\ Wait(d)
    <2>1. PollType'
        BY <1>1, <1>5, Constants DEF PollInv, PollType, Wait
    <2>2. ~asked
        <3>1. ASSUME asked PROVE FALSE
            <4>1. t = now + d /\ nextPollAt = 0 /\ paired
                BY <3>1, Constants DEF PollInv, PollType, Plus, Word
            <4>2. Due(t, nextPollAt)
                BY <3>1, <4>1, Constants DEF PollInv, PollType, Due, Minus, Word
            <4>. QED BY <1>5, <4>1, <4>2
        <3>. QED BY <3>1
    <2>3. ASSUME paired PROVE Distance' /\ since' < interval' + offline'
        <3>1. since' = since + d
            BY <1>5, <2>2, <2>3, Constants DEF PollInv, PollType, Wait
        <3>2. Distance'
            BY <1>5, <2>2, <2>3, <3>1, WaitKeepsDistance, Constants DEF PollInv, PollType, Wait, Distance
        <3>3. since' < interval
            BY <1>1, <1>5, <2>1, <2>2, <2>3, <3>1, <3>2, Constants
               DEF PollInv, PollType, Wait, Distance, Due
        <3>. QED BY <1>5, <3>2, <3>3, <2>1, Constants DEF PollType, Wait
    <2>. QED BY <1>5, <2>1, <2>2, <2>3 DEF PollInv, Wait
<1>. QED BY <1>2, <1>3, <1>4, <1>5 DEF Rest

LEMMA PollStutter == PollInv /\ UNCHANGED clockVars => PollInv'
BY DEF PollInv, PollType, Distance, Minus, clockVars, pollVars, touchVars

(* A paired display polls on time through every wrap of millis(), if it is     *)
(* not paired late: scheduleNextPoll and loop() of main.cpp.                  *)
THEOREM DisplayPollsOnTime == ~LatePairing /\ ClockSafe => []PollsOnTime
<1> SUFFICES ASSUME ~LatePairing PROVE ClockSafe => []PollsOnTime
    OBVIOUS
<1>1. PollInv /\ [ClockNext]_clockVars => PollInv'
    BY PollStep, PollStutter DEF ClockNext, Loop
<1>2. PollInv => PollsOnTime
    <2> SUFFICES ASSUME PollInv, paired PROVE PollsOnTime
        BY DEF PollsOnTime
    <2>1. CASE asked
        BY <2>1, Constants DEF PollInv, PollType, PollsOnTime, Due, Minus, Word
    <2>2. CASE ~asked
        BY <2>2, DueIsExact, Constants DEF PollInv, PollType, PollsOnTime
    <2>. QED BY <2>1, <2>2
<1>. QED BY <1>1, <1>2, PollInit, PTL DEF ClockSafe

-----------------------------------------------------------------------------
(* The corner.                                                                *)
LEMMA TouchInit == ClockInit => TouchInv
<1> SUFFICES ASSUME ClockInit PROVE TouchInv
    OBVIOUS
<1>1. triggered = FALSE /\ triggered \in BOOLEAN
    BY Zenon DEF ClockInit
<1>. QED BY <1>1, Constants DEF ClockInit, TouchInv, TouchType, Word

LEMMA TouchStep ==
    ASSUME TouchInv, NEW d \in 1 .. MaxBlock, now' = Plus(now, d),
           Released \/ Pressed(Plus(now, d), d)
    PROVE  TouchInv'
<1> DEFINE t == Plus(now, d)
<1>1. now \in Word /\ started \in Word /\ t \in Word /\ d \in 0 .. Half
    BY StepTime DEF TouchInv, TouchType
<1>2. CASE Released
    <2>1. triggered' = FALSE /\ triggered' \in BOOLEAN
        BY <1>2, Zenon DEF Released
    <2>. QED BY <1>1, <1>2, <2>1, Constants DEF TouchInv, TouchType, Released, Word
<1>3. CASE Pressed(t, d)
    <2>1. CASE held = -1
        <3>1. Minus(t, t) = 0
            BY <1>1, WordArithmetic
        <3>2. started' = t /\ ~HoldReached(t)
            BY <1>3, <2>1, <3>1, Constants DEF TouchInv, Pressed, HoldReached
        <3>. QED BY <1>1, <1>3, <2>1, <3>1, <3>2, Constants
                 DEF TouchInv, TouchType, Pressed
    <2>2. CASE held >= 0 /\ triggered
        <3>1. triggered' \in BOOLEAN /\ triggered'
            BY <1>3, <2>2, Zenon DEF Pressed
        <3>2. ~HoldReached(t)
            BY <2>2 DEF HoldReached
        <3>3. opened' = 1 /\ started' \in Word
            BY <1>1, <1>3, <2>2, <3>2 DEF TouchInv, Pressed
        <3>4. held' >= Hold /\ held' \in -1 .. Hold + MaxBlock
            BY <1>3, <2>2, Constants DEF TouchInv, TouchType, Pressed
        <3>. QED BY <1>1, <3>1, <3>3, <3>4, Constants DEF TouchInv, TouchType
    <2>3. CASE held >= 0 /\ ~triggered /\ started = 0
        <3>1. t = d /\ Minus(t, t) = 0
            BY <1>1, <2>3, WordArithmetic, Constants DEF TouchInv, Plus, Word
        <3>2. started' = t /\ ~HoldReached(t) /\ held' = d
            BY <1>3, <2>3, <3>1, Constants DEF TouchInv, Pressed, HoldReached
        <3>. QED BY <1>1, <1>3, <2>3, <3>1, <3>2, Constants
                 DEF TouchInv, TouchType, Pressed
    <2>4. CASE held >= 0 /\ ~triggered /\ started # 0
        <3>1. Minus(now, started) < Hold /\ Minus(now, started) <= held
              /\ held <= Minus(now, started) + MaxBlock
            BY <2>4 DEF TouchInv
        <3>2. Minus(now, started) \in Word
            BY <1>1, WordArithmetic
        <3>3. Minus(t, started) = Minus(now, started) + d
            BY <1>1, <3>1, <3>2, WordArithmetic, Constants DEF Word
        <3>4. held' = IF held + d < Hold + MaxBlock THEN held + d ELSE Hold + MaxBlock
            BY <1>3, <2>4 DEF Pressed
        <3>5. started' = started /\ opened = 0
            BY <1>3, <2>4 DEF Pressed, TouchInv
        <3>6. CASE HoldReached(t)
            <4>1. Minus(t, started) >= Hold
                BY <2>4, <3>6 DEF HoldReached
            <4>2. held' >= Hold /\ held' \in -1 .. Hold + MaxBlock
                BY <3>1, <3>2, <3>3, <3>4, <4>1, Constants DEF TouchInv, TouchType, Word
            <4>3. triggered' \in BOOLEAN /\ triggered'
                BY <1>3, <3>6, Zenon DEF Pressed
            <4>4. opened' = 1
                BY <1>3, <3>5, <3>6 DEF Pressed
            <4>. QED BY <1>1, <3>5, <4>2, <4>3, <4>4, Constants DEF TouchInv, TouchType
        <3>7. CASE ~HoldReached(t)
            <4>1. Minus(t, started) < Hold
                BY <1>1, <2>4, <3>2, <3>3, <3>7, Constants DEF HoldReached, Word
            <4>2. held' = held + d
                BY <3>1, <3>2, <3>3, <3>4, <4>1, Constants DEF TouchInv, TouchType, Word
            <4>3. Minus(t, started) <= held' /\ held' <= Minus(t, started) + MaxBlock
                BY <3>1, <3>2, <3>3, <4>2, Constants DEF TouchInv, TouchType, Word
            <4>4. held' \in -1 .. Hold + MaxBlock /\ held' >= 0 /\ triggered' = FALSE /\ opened' = 0
                BY <1>3, <2>4, <3>2, <3>3, <3>4, <3>5, <3>7, <4>1, <4>2, Constants
                   DEF TouchInv, TouchType, Pressed, Word
            <4>5. triggered' \in BOOLEAN
                BY <4>4
            <4>6. Minus(now', started') = Minus(t, started)
                BY <3>5
            <4>7. now' \in Word /\ started' \in Word /\ started' # 0
                BY <1>1, <2>4, <3>5
            <4>. QED BY <4>1, <4>3, <4>4, <4>5, <4>6, <4>7, Constants
                     DEF TouchInv, TouchType
        <3>. QED BY <3>6, <3>7
    <2>. QED BY <2>1, <2>2, <2>3, <2>4 DEF TouchInv, TouchType
<1>. QED BY <1>2, <1>3

(* Holding the corner opens setup exactly once per hold, neither early nor     *)
(* late, through every wrap of millis(): setupCornerHeld of main.cpp.          *)
THEOREM CornerOpensOnce == ClockSafe => []HoldOpensOnce
<1>1. TouchInv /\ [ClockNext]_clockVars => TouchInv'
    <2>1. TouchInv /\ UNCHANGED clockVars => TouchInv'
        BY DEF TouchInv, TouchType, Minus, clockVars, touchVars
    <2>. QED BY <2>1, TouchStep DEF ClockNext, Loop
<1>2. TouchInv => HoldOpensOnce
    BY Constants DEF TouchInv, TouchType, HoldOpensOnce, Minus, Word
<1>. QED BY <1>1, <1>2, TouchInit, PTL DEF ClockSafe

(* The clock's state stays well formed, and no hold opens setup a second time  *)
(* (triggered is what setupCornerHeld keeps for that).                        *)
THEOREM ClockTyped == ~LatePairing /\ ClockSafe => []ClockTypeOK
<1> SUFFICES ASSUME ~LatePairing PROVE ClockSafe => []ClockTypeOK
    OBVIOUS
<1>1. PollInv /\ [ClockNext]_clockVars => PollInv'
    BY PollStep, PollStutter DEF ClockNext, Loop
<1>2. TouchInv /\ [ClockNext]_clockVars => TouchInv'
    <2>1. TouchInv /\ UNCHANGED clockVars => TouchInv'
        BY DEF TouchInv, TouchType, Minus, clockVars, touchVars
    <2>. QED BY <2>1, TouchStep DEF ClockNext, Loop
<1>3. PollInv /\ TouchInv => ClockTypeOK
    BY DEF PollInv, PollType, TouchInv, TouchType, ClockTypeOK
<1>. QED BY <1>1, <1>2, <1>3, PollInit, TouchInit, PTL DEF ClockSafe

-----------------------------------------------------------------------------
(* The pull client.                                                           *)
(* What NVS becomes one write at a time is not at home by itself: it is so     *)
(* because of the order of the writes that are left.  Every one writes what is *)
(* in RAM, or clears; the URL only changes after what belonged to the old one  *)
(* is cleared, and what belongs to the new one is written after it.            *)
Value == Server \cup Code \cup Etag \cup Image \cup {None, "partial"}
Write(r) ==
    {e \in (Keys \cup {"file"}) \X Value :
        /\ e[1] = "url" => e[2] = r.url
        /\ e[1] = "cred" => e[2] \in {None, r.cred}
        /\ e[1] = "etag" => e[2] \in {None, r.etag}
        /\ e[1] = "hash" => e[2] \in Image \cup {None}
        /\ e[1] = "code" => e[2] \in Code \cup {None}
        /\ e[1] = "file" => e[2] \in Image \cup {"partial"}}
Pending == flash \in Seq(Write(ram))

Precedes(key, value, i) == \E j \in DOMAIN flash : j < i /\ flash[j] = <<key, value>>

Ordered ==
    /\ at # "off" /\ nvs.url # ram.url => \E i \in DOMAIN flash : flash[i] = <<"url", ram.url>>
    /\ \A i \in DOMAIN flash : flash[i][1] = "url" /\ nvs.url # ram.url =>
          /\ nvs.cred # None => Precedes("cred", None, i)
          /\ nvs.etag # None => Precedes("etag", None, i)
    /\ \A i \in DOMAIN flash : flash[i][1] \in {"cred", "etag"} /\ flash[i][2] # None =>
          nvs.url = ram.url \/ Precedes("url", ram.url, i)

Typed0 ==
    /\ ram \in Config
    /\ DOMAIN nvs = Keys \cup {"file"}
    /\ nvs = [k \in Keys \cup {"file"} |-> nvs[k]]
    /\ nvs.url \in Server \cup {None} /\ nvs.cred \in Code \cup {None}
    /\ nvs.etag \in Etag \cup {None} /\ nvs.hash \in Image \cup {None}
    /\ nvs.code \in Code \cup {None} /\ nvs.file \in Image \cup {None, "partial"}
    /\ at = "off" => flash = <<>>
    /\ at = "poll" => ram.cred # None
    /\ content \in [Server -> Content \cup {0}]

Inv == Typed0 /\ IdentityStaysHome /\ Pending /\ Ordered

-----------------------------------------------------------------------------
(* Actions that leave RAM, NVS and the writes alone, and do not switch it off. *)
LEMMA Untouched ==
    ASSUME Inv, UNCHANGED <<ram, nvs, flash>>, at' = "off" <=> at = "off",
           content' \in [Server -> Content \cup {0}],
           at' = "poll" => at = "poll" \/ ram.cred # None
    PROVE  Inv'
<1>1. ram' = ram /\ nvs' = nvs /\ flash' = flash
    OBVIOUS
<1>2. Typed0'
    BY <1>1 DEF Inv, Typed0
<1>3. IdentityStaysHome'
    BY <1>1 DEF Inv, IdentityStaysHome, AtHome
<1>4. Pending'
    <2>1. Write(ram)' = Write(ram)
        BY <1>1 DEF Write
    <2>. QED BY <1>1, <2>1 DEF Inv, Pending
<1>5. Ordered'
    BY <1>1 DEF Inv, Ordered, Precedes
<1>. QED BY <1>2, <1>3, <1>4, <1>5 DEF Inv

(* A handler that has RAM and the writes as they are wanted, for the URL in    *)
(* NVS.                                                                        *)
LEMMA SameUrl ==
    ASSUME Inv, UNCHANGED nvs, ram' \in Config, at' # "off", nvs.url = ram'.url,
           AtHome(ram'), flash' \in Seq(Write(ram')),
           UNCHANGED content, at' = "poll" => ram'.cred # None
    PROVE  Inv'
<1>1. Typed0'
  BY DEF Inv, Typed0
<1>2. IdentityStaysHome'
  BY DEF Inv, IdentityStaysHome, AtHome
<1>3. Pending'
  BY DEF Pending
<1>4. Ordered'
  BY DEF Ordered
<1> QED
  BY <1>1, <1>2, <1>3, <1>4 DEF Inv

(* A handler that moves to another URL: it clears first, and stores no          *)
(* credential and no ETag.                                                     *)
LEMMA OtherUrl ==
    ASSUME Inv, UNCHANGED nvs, ram' \in Config, at' # "off",
           ram'.cred = None, ram'.etag = None, UNCHANGED content, at' # "poll",
           flash' \in Seq(Write(ram')),
           Len(flash') >= 3,
           flash'[1] = <<"cred", None>>, flash'[2] = <<"etag", None>>,
           flash'[3] = <<"hash", None>>,
           \E i \in DOMAIN flash' : flash'[i] = <<"url", ram'.url>>
    PROVE  Inv'
<1>1. Typed0'
  BY DEF Inv, Typed0
<1>2. IdentityStaysHome'
  BY DEF Inv, IdentityStaysHome, AtHome
<1>3. Pending'
  BY DEF Pending
<1>4. ASSUME NEW i \in DOMAIN flash', flash'[i][1] = "url"
      PROVE  /\ \E j \in DOMAIN flash' : j < i /\ flash'[j] = <<"cred", None>>
             /\ \E j \in DOMAIN flash' : j < i /\ flash'[j] = <<"etag", None>>
  <2>1. i # 1 /\ i # 2 /\ i \in Nat /\ i >= 1
    BY <1>4
  <2> QED
    BY <2>1
<1>5. \A i \in DOMAIN flash' : flash'[i][1] \in {"cred", "etag"} => flash'[i][2] = None
  BY DEF Write
<1>6. Ordered'
  BY <1>4, <1>5 DEF Ordered, Precedes
<1> QED
  BY <1>1, <1>2, <1>3, <1>6 DEF Inv

(* One write of flash: the first one left. *)
LEMMA OneWrite == ASSUME Inv, FlashWrite PROVE Inv'
<1>. DEFINE k == flash[1][1]
            v == flash[1][2]
<1>1. /\ flash[1] \in Write(ram) /\ flash[1] = <<k, v>>
      /\ Len(flash) \in Nat /\ Len(flash) >= 1 /\ 1 \in DOMAIN flash
      /\ flash' = Tail(flash) /\ flash' \in Seq(Write(ram))
      /\ \A i \in DOMAIN flash' : i + 1 \in DOMAIN flash /\ flash'[i] = flash[i + 1] /\ i \in Nat
      /\ \A i \in DOMAIN flash : i # 1 => i - 1 \in DOMAIN flash' /\ flash'[i - 1] = flash[i]
      /\ \A i \in DOMAIN flash : i \in Nat /\ i >= 1
  BY DEF FlashWrite, Inv, Pending, Write
<1>2. nvs' = [nvs EXCEPT ![k] = v] /\ UNCHANGED <<ram, at, content>> /\ at # "off"
  BY <1>1 DEF FlashWrite, Inv, Typed0, server
<1>3. /\ k \in Keys \cup {"file"}
      /\ k = "url" => v = ram.url
      /\ k = "cred" => v \in {None, ram.cred}
      /\ k = "etag" => v \in {None, ram.etag}
      /\ k = "hash" => v \in Image \cup {None}
      /\ k = "code" => v \in Code \cup {None}
      /\ k = "file" => v \in Image \cup {"partial"}
  BY <1>1 DEF Write
<1>4. /\ nvs'.url = IF k = "url" THEN v ELSE nvs.url
      /\ nvs'.cred = IF k = "cred" THEN v ELSE nvs.cred
      /\ nvs'.etag = IF k = "etag" THEN v ELSE nvs.etag
      /\ nvs'.hash = IF k = "hash" THEN v ELSE nvs.hash
      /\ nvs'.code = IF k = "code" THEN v ELSE nvs.code
      /\ nvs'.file = IF k = "file" THEN v ELSE nvs.file
      /\ DOMAIN nvs' = Keys \cup {"file"}
      /\ nvs' = [x \in Keys \cup {"file"} |-> nvs'[x]]
  BY <1>2, <1>3 DEF Inv, Typed0, Keys
<1>5. Typed0'
  <2>1. /\ ram.url \in Server \cup {None} /\ ram.cred \in Code \cup {None}
        /\ ram.etag \in Etag \cup {None}
    BY DEF Inv, Typed0, Config
  <2> QED
    BY <1>2, <1>3, <1>4, <2>1 DEF Inv, Typed0
<1>6. /\ k = "url" /\ nvs.url # ram.url => nvs.cred = None /\ nvs.etag = None
      /\ k \in {"cred", "etag"} /\ v # None => nvs.url = ram.url
  BY <1>1 DEF Inv, Ordered, Precedes
<1>7. IdentityStaysHome'
  BY <1>2, <1>3, <1>4, <1>6 DEF Inv, IdentityStaysHome, AtHome
<1>8. Pending'
  BY <1>1, <1>2 DEF Pending
<1>9. Ordered'
  <2>1. CASE k = "url"
    BY <2>1, <1>2, <1>3, <1>4 DEF Ordered
  <2>2. CASE k # "url"
    <3>1. UNCHANGED nvs.url
      BY <2>2, <1>4
    <3>2. ASSUME nvs.url # ram.url
          PROVE  \E i \in DOMAIN flash' : flash'[i] = <<"url", ram.url>>
      <4>1. PICK i \in DOMAIN flash : flash[i] = <<"url", ram.url>>
        BY <3>2, <1>2 DEF Inv, Ordered
      <4>2. i # 1
        BY <4>1, <2>2, <1>1
      <4>3. i - 1 \in DOMAIN flash' /\ flash'[i - 1] = <<"url", ram.url>>
        BY <4>1, <4>2, <1>1
      <4> QED
        BY <4>3
    <3>3. ASSUME NEW i \in DOMAIN flash', flash'[i][1] = "url", nvs.url # ram.url
          PROVE  /\ nvs'.cred # None => Precedes("cred", None, i)'
                 /\ nvs'.etag # None => Precedes("etag", None, i)'
      <4>1. /\ nvs.cred # None => Precedes("cred", None, i + 1)
            /\ nvs.etag # None => Precedes("etag", None, i + 1)
        BY <3>3, <1>1 DEF Inv, Ordered
      <4>2. ASSUME nvs'.cred # None PROVE Precedes("cred", None, i)'
        <5>1. nvs.cred # None
          BY <4>2, <1>3, <1>4, <1>6, <3>3
        <5>2. PICK j \in DOMAIN flash : j < i + 1 /\ flash[j] = <<"cred", None>>
          BY <5>1, <4>1 DEF Precedes
        <5>3. j # 1
          BY <5>2, <4>2, <1>1, <1>4
        <5>4. j - 1 \in DOMAIN flash' /\ j - 1 < i /\ flash'[j - 1] = <<"cred", None>>
          BY <5>2, <5>3, <1>1
        <5> QED
          BY <5>4 DEF Precedes
      <4>3. ASSUME nvs'.etag # None PROVE Precedes("etag", None, i)'
        <5>1. nvs.etag # None
          BY <4>3, <1>3, <1>4, <1>6, <3>3
        <5>2. PICK j \in DOMAIN flash : j < i + 1 /\ flash[j] = <<"etag", None>>
          BY <5>1, <4>1 DEF Precedes
        <5>3. j # 1
          BY <5>2, <4>3, <1>1, <1>4
        <5>4. j - 1 \in DOMAIN flash' /\ j - 1 < i /\ flash'[j - 1] = <<"etag", None>>
          BY <5>2, <5>3, <1>1
        <5> QED
          BY <5>4 DEF Precedes
      <4> QED
        BY <4>2, <4>3
    <3>4. ASSUME NEW i \in DOMAIN flash', flash'[i][1] \in {"cred", "etag"},
                 flash'[i][2] # None, nvs.url # ram.url
          PROVE  Precedes("url", ram.url, i)'
      <4>1. Precedes("url", ram.url, i + 1)
        BY <3>4, <1>1 DEF Inv, Ordered
      <4>2. PICK j \in DOMAIN flash : j < i + 1 /\ flash[j] = <<"url", ram.url>>
        BY <4>1 DEF Precedes
      <4>3. j # 1
        BY <4>2, <2>2, <1>1
      <4>4. j - 1 \in DOMAIN flash' /\ j - 1 < i /\ flash'[j - 1] = <<"url", ram'.url>>
        BY <4>2, <4>3, <1>1, <1>2
      <4> QED
        BY <4>4, <1>2 DEF Precedes
    <3> QED
      BY <3>1, <3>2, <3>3, <3>4, <1>2 DEF Ordered
  <2> QED
    BY <2>1, <2>2
<1> QED
  BY <1>5, <1>7, <1>8, <1>9 DEF Inv

-----------------------------------------------------------------------------
(* The writes of the handlers.                                                *)
LEMMA ClearWritesOk ==
    ASSUME NEW r
    PROVE  ClearWrites \in Seq(Write(r)) /\ Len(ClearWrites) = 3
           /\ ClearWrites = <<<<"cred", None>>, <<"etag", None>>, <<"hash", None>>>>
BY DEF ClearWrites, Write, Keys, Value

LEMMA Typing ==
    ASSUME Inv
    PROVE  /\ ram.url \in Server \cup {None} /\ ram.cred \in Code \cup {None}
           /\ ram.etag \in Etag \cup {None} /\ ram.hash \in Image \cup {None}
           /\ ram.code \in Code \cup {None}
           /\ \A s \in Server : content[s] # 0 =>
                 <<s, content[s]>> \in Etag /\ ImageOf[content[s]] \in Image
BY DEF Inv, Typed0, Config, Etag, Image

LEMMA ClearedOk ==
    ASSUME NEW r \in Config
    PROVE  /\ Cleared(r) \in Config
           /\ Cleared(r).url = r.url /\ Cleared(r).cred = None /\ Cleared(r).etag = None
           /\ AtHome(Cleared(r))
BY DEF Cleared, Config, AtHome

(* What stands in a sequence of writes that was put together. *)
LEMMA Front ==
    ASSUME NEW S, NEW s \in Seq(S), NEW t \in Seq(S)
    PROVE  /\ s \o t \in Seq(S)
           /\ Len(s \o t) = Len(s) + Len(t)
           /\ \A i \in 1 .. Len(s) : (s \o t)[i] = s[i]
<1>1. Len(s) \in Nat /\ Len(t) \in Nat
  OBVIOUS
<1>2. /\ s \o t \in Seq(S)
      /\ Len(s \o t) = Len(s) + Len(t)
      /\ \A i \in 1 .. Len(s) + Len(t) :
            (s \o t)[i] = IF i <= Len(s) THEN s[i] ELSE t[i - Len(s)]
  BY ConcatProperties
<1> DEFINE f == s \o t
<1>3. /\ \A i \in 1 .. Len(s) + Len(t) : f[i] = IF i <= Len(s) THEN s[i] ELSE t[i - Len(s)]
  BY <1>2
<1> HIDE DEF f
<1>4. \A i \in 1 .. Len(s) : f[i] = s[i]
  BY <1>1, <1>3
<1> QED
  BY <1>2, <1>4 DEF f

LEMMA Latter ==
    ASSUME NEW S, NEW s \in Seq(S), NEW t \in Seq(S), t # <<>>
    PROVE  \E k \in 1 .. Len(s \o t) : (s \o t)[k] = t[1]
<1>1. Len(s) \in Nat /\ Len(t) \in Nat /\ Len(t) # 0
  OBVIOUS
<1>. DEFINE f == s \o t
<1>2. /\ Len(f) = Len(s) + Len(t)
      /\ \A i \in 1 .. Len(s) + Len(t) : f[i] = IF i <= Len(s) THEN s[i] ELSE t[i - Len(s)]
  BY ConcatProperties
<1>. HIDE DEF f
<1>3. Len(s) + 1 \in 1 .. Len(f) /\ f[Len(s) + 1] = t[1]
  BY <1>1, <1>2
<1>4. \E k \in 1 .. Len(f) : f[k] = t[1]
  BY <1>3
<1> QED
  BY <1>4 DEF f

(* configureNetwork clears before it stores another URL. *)
LEMMA ConfigureStep ==
    ASSUME Inv, at # "off", flash = <<>>, UNCHANGED <<nvs, content>>,
           NEW u \in Server, NEW c \in Code \cup {None}, NEW from,
           Configure(u, c, from)
    PROVE  Inv'
<1>. DEFINE typed == [ram EXCEPT !.url = u, !.code = c]
            Y == IF c # None THEN <<<<"code", c>>>> ELSE <<>>
            Z == <<<<"url", u>>>>
            W == IF c # None THEN ClearWrites ELSE <<>>
            X == IF u # ram.url THEN ClearWrites ELSE <<>>
            G == Write(ram')
<1>1. /\ ram' = IF u # ram.url \/ c # None THEN Cleared(typed) ELSE typed
      /\ flash' = ((X \o Y) \o Z) \o W
      /\ at' = "pair"
  BY DEF Configure, Configured, ConfigureWrites
<1>2. ram \in Config /\ typed \in Config /\ typed.url = u
      /\ typed.cred = ram.cred /\ typed.etag = ram.etag
  BY DEF Inv, Typed0, Config
<1>3. ram' \in Config /\ ram'.url = u
  BY <1>1, <1>2, ClearedOk
<1>4. nvs.url = ram.url
  BY DEF Inv, Ordered
<1>5. X \in Seq(G) /\ Y \in Seq(G) /\ Z \in Seq(G) /\ W \in Seq(G)
  <2>1. X \in Seq(G) /\ W \in Seq(G)
    BY ClearWritesOk
  <2>2. <<"code", c>> \in G /\ <<"url", u>> \in G
    BY <1>3 DEF Write, Keys, Value
  <2> QED
    BY <2>1, <2>2
<1>6. flash' \in Seq(G)
  <2> HIDE DEF X, Y, Z, W, G
  <2> QED
    BY <1>1, <1>5, ConcatProperties
<1>7. CASE u # ram.url
  <2>1. ram'.cred = None /\ ram'.etag = None
    BY <1>1, <1>2, <1>7, ClearedOk
  <2>2. X = ClearWrites
    BY <1>7
  <2> HIDE DEF X, Y, Z, W, G
  <2>3. /\ Len(X) = 3
        /\ X[1] = <<"cred", None>> /\ X[2] = <<"etag", None>> /\ X[3] = <<"hash", None>>
    BY <2>2, ClearWritesOk
  <2>4. Len(Z) = 1 /\ Z[1] = <<"url", u>> /\ Z # <<>>
    BY DEF Z
  <2>. DEFINE P == X \o Y
              Q == P \o Z
              R == Q \o W
  <2>5. /\ P \in Seq(G) /\ Len(P) = Len(X) + Len(Y) /\ Len(Y) \in Nat
        /\ \A i \in 1 .. Len(X) : P[i] = X[i]
    BY <1>5, Front
  <2>. HIDE DEF P
  <2>6. /\ Q \in Seq(G) /\ Len(Q) = Len(P) + Len(Z) /\ Len(P) \in Nat
        /\ \A i \in 1 .. Len(P) : Q[i] = P[i]
        /\ \E k \in 1 .. Len(Q) : Q[k] = Z[1]
    <3>1. Len(P) \in Nat
      BY <2>5
    <3>2. P \in Seq(G) /\ Z \in Seq(G) /\ Z # <<>>
      BY <1>5, <2>5, <2>4
    <3>3. Q \in Seq(G) /\ Len(Q) = Len(P) + Len(Z)
      BY <3>2, Front, Zenon
    <3>4. \A i \in 1 .. Len(P) : Q[i] = P[i]
      BY <3>2, Front, Zenon
    <3>5. \E k \in 1 .. Len(Q) : Q[k] = Z[1]
      BY <3>2, Latter, Zenon
    <3> QED
      BY <3>1, <3>3, <3>4, <3>5, <2>4
  <2>. HIDE DEF Q
  <2>7. /\ R \in Seq(G) /\ Len(R) = Len(Q) + Len(W) /\ Len(W) \in Nat
        /\ \A i \in 1 .. Len(Q) : R[i] = Q[i]
    <3>1. Len(W) \in Nat
      BY <1>5
    <3>2. Q \in Seq(G) /\ W \in Seq(G)
      BY <1>5, <2>6
    <3> QED
      BY <3>1, <3>2, Front, Zenon
  <2>. HIDE DEF R
  <2>10. flash' = R
    BY <1>1 DEF R, Q, P
  <2>11. /\ Len(flash') >= 3
         /\ flash'[1] = <<"cred", None>> /\ flash'[2] = <<"etag", None>>
         /\ flash'[3] = <<"hash", None>>
    BY <2>3, <2>4, <2>5, <2>6, <2>7, <2>10
  <2>12. \E i \in DOMAIN flash' : flash'[i] = <<"url", ram'.url>>
    <3>1. Len(R) \in Nat /\ DOMAIN R = 1 .. Len(R)
      BY <2>7
    <3>2. PICK k \in 1 .. Len(Q) : Q[k] = Z[1]
      BY <2>6
    <3>3. Len(Q) \in Nat /\ k \in 1 .. Len(R)
      BY <2>6, <2>7, <3>2
    <3>4. R[k] = <<"url", u>>
      BY <2>4, <2>7, <3>2
    <3> QED
      BY <3>1, <3>3, <3>4, <2>10, <1>3
  <2> QED
    BY <1>1, <1>3, <1>6, <2>1, <2>11, <2>12, OtherUrl DEF G
<1>8. CASE u = ram.url
  <2>1. AtHome(ram')
    BY <1>1, <1>2, <1>8, ClearedOk DEF Inv, IdentityStaysHome, AtHome
  <2> QED
    BY <1>1, <1>3, <1>4, <1>6, <1>8, <2>1, SameUrl
<1> QED
  BY <1>7, <1>8

LEMMA SubmitStep == ASSUME Inv, LanSubmit PROVE Inv'
<1>1. PICK u \in Server, c \in Code :
          /\ ram' = Cleared([ram EXCEPT !.url = u, !.code = c])
          /\ flash' = ClearWrites \o <<<<"url", u>>, <<"code", c>>>>
  BY DEF LanSubmit
<1>2. at' = "loop" /\ nvs' = nvs /\ content' = content
  BY DEF LanSubmit, Running, server
<1>. DEFINE typed == [ram EXCEPT !.url = u, !.code = c]
            R == <<<<"url", u>>, <<"code", c>>>>
<1>3. typed \in Config /\ typed.url = u
  BY DEF Inv, Typed0, Config
<1>4. ram' \in Config /\ ram'.url = u /\ ram'.cred = None /\ ram'.etag = None
  BY <1>1, <1>3, ClearedOk
<1>5. <<"url", u>> \in Write(ram') /\ <<"code", c>> \in Write(ram')
  BY <1>4 DEF Write, Keys, Value
<1>6. R \in Seq(Write(ram')) /\ Len(R) = 2 /\ R[1] = <<"url", u>>
  BY <1>5
<1>. HIDE DEF R
<1>7. /\ ClearWrites \in Seq(Write(ram')) /\ Len(ClearWrites) = 3
      /\ ClearWrites[1] = <<"cred", None>> /\ ClearWrites[2] = <<"etag", None>>
      /\ ClearWrites[3] = <<"hash", None>>
  BY ClearWritesOk
<1>8. /\ flash' \in Seq(Write(ram')) /\ Len(flash') >= 3
      /\ flash'[1] = <<"cred", None>> /\ flash'[2] = <<"etag", None>>
      /\ flash'[3] = <<"hash", None>>
      /\ \E i \in DOMAIN flash' : flash'[i] = <<"url", ram'.url>>
  <2>. DEFINE C == ClearWrites
              F == C \o R
  <2>1. /\ C \in Seq(Write(ram')) /\ Len(C) = 3
        /\ C[1] = <<"cred", None>> /\ C[2] = <<"etag", None>> /\ C[3] = <<"hash", None>>
    BY <1>7
  <2>. HIDE DEF C
  <2>2. C \in Seq(Write(ram')) /\ R \in Seq(Write(ram')) /\ R # <<>>
    BY <2>1, <1>6
  <2>3. F \in Seq(Write(ram')) /\ Len(F) = Len(C) + Len(R)
    BY <2>2, Front, Zenon
  <2>4. \A i \in 1 .. Len(C) : F[i] = C[i]
    BY <2>2, Front, Zenon
  <2>5. \E k \in 1 .. Len(F) : F[k] = R[1]
    BY <2>2, Latter, Zenon
  <2>6. flash' = F
    BY <1>1 DEF R, C
  <2>. HIDE DEF F
  <2>7. PICK k \in 1 .. Len(F) : F[k] = R[1]
    BY <2>5
  <2>8. Len(F) \in Nat /\ DOMAIN F = 1 .. Len(F) /\ Len(R) \in Nat
    BY <2>2, <2>3
  <2>9. F[1] = C[1] /\ F[2] = C[2] /\ F[3] = C[3]
    BY <2>1, <2>4
  <2>10. flash'[k] = <<"url", ram'.url>> /\ k \in DOMAIN flash'
    BY <2>6, <2>7, <2>8, <1>4, <1>6
  <2>11. flash' \in Seq(Write(ram')) /\ Len(flash') >= 3
    BY <2>1, <2>3, <2>6, <2>8
  <2>12. /\ flash'[1] = <<"cred", None>> /\ flash'[2] = <<"etag", None>>
         /\ flash'[3] = <<"hash", None>>
    BY <2>1, <2>6, <2>9
  <2> QED
    BY <2>10, <2>11, <2>12
<1> QED
  BY <1>2, <1>4, <1>8, OtherUrl

LEMMA PowerOnStep == ASSUME Inv, PowerOn PROVE Inv'
<1>. DEFINE stored == [k \in Keys |-> nvs[k]]
<1>1. PICK upgraded \in BOOLEAN :
          /\ ram' = [stored EXCEPT !.etag = IF upgraded THEN None ELSE @]
          /\ flash' = IF upgraded THEN <<<<"etag", None>>>> ELSE <<>>
  BY DEF PowerOn
<1>2. at' = "network" /\ UNCHANGED <<nvs, content>>
  BY DEF PowerOn, server
<1>3. /\ stored \in Config
      /\ stored.url = nvs.url /\ stored.cred = nvs.cred /\ stored.etag = nvs.etag
  BY DEF Inv, Typed0, Config, Keys
<1>. HIDE DEF stored
<1>4. /\ ram' \in Config /\ ram'.url = nvs.url /\ ram'.cred = nvs.cred
      /\ ram'.etag \in {None, nvs.etag}
  BY <1>1, <1>3 DEF Config
<1>5. AtHome(ram')
  BY <1>4 DEF Inv, IdentityStaysHome, AtHome
<1>6. flash' \in Seq(Write(ram'))
  BY <1>1 DEF Write, Keys, Value
<1> QED
  BY <1>2, <1>4, <1>5, <1>6, SameUrl

LEMMA CrashStep == ASSUME Inv, Crash PROVE Inv'
<1>1. /\ ram' = NoConfig /\ flash' = <<>> /\ at' = "off"
      /\ UNCHANGED <<nvs, content>>
  BY DEF Crash, server
<1>2. NoConfig \in Config /\ NoConfig.cred = None /\ NoConfig.etag = None
  BY DEF NoConfig, Config
<1>3. Typed0'
  BY <1>1, <1>2 DEF Inv, Typed0
<1>4. IdentityStaysHome'
  BY <1>1, <1>2 DEF Inv, IdentityStaysHome, AtHome
<1>5. Pending' /\ Ordered'
  BY <1>1 DEF Pending, Ordered
<1> QED
  BY <1>3, <1>4, <1>5 DEF Inv

(* The URL in NVS is the one in RAM when no write is left. *)
LEMMA Settled == ASSUME Inv, at # "off", flash = <<>> PROVE nvs.url = ram.url
BY DEF Inv, Ordered

LEMMA AlreadyPairedStep == ASSUME Inv, AlreadyPaired PROVE Inv'
<1>1. /\ UNCHANGED <<nvs, content>> /\ flash' = <<>> /\ at' \in {"poll", "loop"}
      /\ ram' = ram \/ ram' = [ram EXCEPT !.etag = None]
      /\ nvs.url = ram.url /\ ram.cred # None
  BY Settled DEF AlreadyPaired, Paired, Running, server
<1>2. ram' \in Config /\ ram'.url = ram.url /\ ram'.cred = ram.cred
      /\ ram'.etag \in {None, ram.etag}
  BY <1>1 DEF Inv, Typed0, Config
<1>3. AtHome(ram')
  BY <1>2 DEF Inv, IdentityStaysHome, AtHome
<1> QED
  BY <1>1, <1>2, <1>3, SameUrl

LEMMA PairSucceedsStep == ASSUME Inv, PairSucceeds PROVE Inv'
<1>. DEFINE exchanged == [ram EXCEPT !.cred = ram.code, !.code = None]
<1>1. /\ ram' = exchanged \/ ram' = [exchanged EXCEPT !.etag = None]
      /\ flash' = <<<<"code", None>>, <<"url", ram.url>>, <<"cred", ram.code>>>>
      /\ at' \in {"poll", "loop"} /\ UNCHANGED <<nvs, content>>
      /\ ram.code # None /\ HomeOf[ram.code] = ram.url /\ nvs.url = ram.url
  BY Settled DEF PairSucceeds, Paired, Running, CanExchange, Exchange
<1>2. /\ exchanged \in Config /\ exchanged.url = ram.url /\ exchanged.cred = ram.code
      /\ exchanged.etag = ram.etag
  BY DEF Inv, Typed0, Config
<1>. HIDE DEF exchanged
<1>3. /\ ram' \in Config /\ ram'.url = ram.url /\ ram'.cred = ram.code
      /\ ram'.etag \in {None, ram.etag}
  BY <1>1, <1>2 DEF Config
<1>4. AtHome(ram')
  BY <1>1, <1>3 DEF Inv, IdentityStaysHome, AtHome
<1>5. flash' \in Seq(Write(ram'))
  <2>1. /\ <<"code", None>> \in Write(ram') /\ <<"url", ram.url>> \in Write(ram')
        /\ <<"cred", ram.code>> \in Write(ram')
    BY <1>3, Typing DEF Write, Keys, Value
  <2> QED
    BY <1>1, <2>1
<1> QED
  BY <1>1, <1>3, <1>4, <1>5, SameUrl

(* What every outcome of pollContent starts from. *)
LEMMA Polling ==
    ASSUME Inv, EndPoll
    PROVE  /\ UNCHANGED <<nvs, content>> /\ at' = "loop" /\ flash = <<>> /\ at = "poll"
           /\ nvs.url = ram.url
           /\ ram.cred # None /\ ram.url \in Server /\ HomeOf[ram.cred] = ram.url
<1>1. UNCHANGED <<nvs, content>> /\ at' = "loop" /\ flash = <<>> /\ at = "poll"
  BY DEF EndPoll, Running, server
<1>2. ram.cred \in Code /\ HomeOf[ram.cred] = ram.url
  BY <1>1, Typing DEF Inv, Typed0, IdentityStaysHome, AtHome
<1>3. ram.url \in Server
  BY <1>2, DisplayAssumption
<1> QED
  BY <1>1, <1>2, <1>3, Settled DEF Inv, Typed0

LEMMA UnauthorizedStep == ASSUME Inv, PollUnauthorized PROVE Inv'
<1>1. ram' = Cleared(ram) /\ flash' = ClearWrites
  BY DEF PollUnauthorized
<1>2. /\ UNCHANGED <<nvs, content>> /\ at' = "loop" /\ nvs.url = ram.url
  BY Polling DEF PollUnauthorized
<1>3. ram \in Config
  BY DEF Inv, Typed0
<1> QED
  BY <1>1, <1>2, <1>3, ClearedOk, ClearWritesOk, SameUrl

(* The ETag is forgotten. *)
LEMMA Forgotten ==
    ASSUME Inv, EndPoll, ram' = [ram EXCEPT !.etag = None], flash' = <<<<"etag", None>>>>
    PROVE  Inv'
<1>1. ram' \in Config /\ ram'.url = ram.url /\ ram'.cred = ram.cred /\ ram'.etag = None
  BY DEF Inv, Typed0, Config
<1>2. flash' \in Seq(Write(ram'))
  BY DEF Write, Keys, Value
<1>3. AtHome(ram')
  BY <1>1 DEF Inv, IdentityStaysHome, AtHome
<1> QED
  BY <1>1, <1>2, <1>3, Polling, SameUrl

LEMMA NotModifiedStep == ASSUME Inv, PollNotModified PROVE Inv'
<1>1. CASE ram' = [ram EXCEPT !.etag = None] /\ flash' = <<<<"etag", None>>>>
  BY <1>1, Forgotten DEF PollNotModified
<1>2. CASE UNCHANGED <<ram, flash>>
  BY <1>2, Polling, Untouched DEF PollNotModified, Inv, Typed0
<1> QED
  BY <1>1, <1>2 DEF PollNotModified

LEMMA PairFailsStep == ASSUME Inv, PairFails PROVE Inv'
<1>1. /\ UNCHANGED <<nvs, content>> /\ at' = "loop" /\ at # "off" /\ nvs.url = ram.url
      /\ \/ UNCHANGED <<ram, flash>>
         \/ ram' = Cleared(ram) /\ flash' = ClearWrites
  BY Settled DEF PairFails, Running, server, Exchange
<1>2. ram \in Config /\ content \in [Server -> Content \cup {0}]
  BY DEF Inv, Typed0
<1>3. CASE UNCHANGED <<ram, flash>>
  BY <1>1, <1>2, <1>3, Untouched
<1>4. CASE ram' = Cleared(ram) /\ flash' = ClearWrites
  BY <1>1, <1>2, <1>4, ClearedOk, ClearWritesOk, SameUrl
<1> QED
  BY <1>1, <1>3, <1>4

(* What is written of an image and its manifest. *)
LEMMA CacheWritesOk ==
    ASSUME NEW r, NEW v, NEW f, Current = r.etag, Current \in Value, ImageOf[v] \in Image,
           f \in {CacheWrites(v)} \cup CacheWritesFailed(v)
    PROVE  f \in Seq(Write(r))
<1>. DEFINE w == CacheWrites(v)
            good == <<"file", ImageOf[v]>>
            torn == <<"file", "partial">>
            tag  == <<"etag", Current>>
            hash == <<"hash", ImageOf[v]>>
<1>1. good \in Write(r) /\ torn \in Write(r) /\ tag \in Write(r) /\ hash \in Write(r)
  BY DEF Write, Keys, Value
<1>2. w = <<good, tag, hash>>
  BY DEF CacheWrites
<1>. HIDE DEF good, torn, tag, hash
<1>3. w \in Seq(Write(r)) /\ Len(w) = 3
  BY <1>1, <1>2
<1>4. Tail(w) \in Seq(Write(r))
  BY <1>3
<1>5. [w EXCEPT ![1] = torn] \in Seq(Write(r))
  BY <1>1, <1>3
<1> QED
  BY <1>3, <1>4, <1>5 DEF CacheWritesFailed, torn

LEMMA UpdateStep == ASSUME Inv, PollUpdate PROVE Inv'
<1>. DEFINE v == content[ram.url]
<1>1. /\ EndPoll /\ v # 0 /\ UNCHANGED <<nvs, content>> /\ at' = "loop"
      /\ nvs.url = ram.url /\ ram.url \in Server
  BY Polling DEF PollUpdate
<1>2. /\ Current \in Etag /\ Current[1] = ram.url /\ ImageOf[v] \in Image
      /\ Current \in Value
  BY <1>1, Typing DEF Current, Value
<1>3. ASSUME NEW h \in Image \cup {None},
             ram' = [ram EXCEPT !.etag = Current, !.hash = h], flash' \in Seq(Write(ram'))
      PROVE  Inv'
  <2>1. /\ ram' \in Config /\ ram'.url = ram.url /\ ram'.cred = ram.cred
        /\ ram'.etag = Current
    BY <1>2, <1>3 DEF Inv, Typed0, Config
  <2>2. AtHome(ram')
    BY <1>2, <2>1 DEF Inv, IdentityStaysHome, AtHome
  <2> QED
    BY <1>1, <1>3, <2>1, <2>2, SameUrl
<1>4. CASE UNCHANGED <<ram, flash>>
  BY <1>1, <1>4, Polling, Untouched DEF Inv, Typed0
<1>5. CASE /\ ram' = [ram EXCEPT !.etag = Current]
           /\ flash' = <<<<"etag", Current>>, <<"hash", ram.hash>>>>
  <2>1. ram.hash \in Image \cup {None} /\ ram' = [ram EXCEPT !.etag = Current, !.hash = ram.hash]
    BY <1>5, Typing DEF Inv, Typed0, Config
  <2>2. ram'.etag = Current
    BY <1>5 DEF Inv, Typed0, Config
  <2>3. flash' \in Seq(Write(ram'))
    <3>1. <<"etag", Current>> \in Write(ram') /\ <<"hash", ram.hash>> \in Write(ram')
      BY <1>2, <2>1, <2>2 DEF Write, Keys, Value
    <3> QED
      BY <1>5, <3>1
  <2> QED
    BY <1>3, <2>1, <2>3
<1>6. CASE /\ ram' = [ram EXCEPT !.etag = Current, !.hash = ImageOf[v]]
           /\ flash' \in {CacheWrites(v)} \cup CacheWritesFailed(v)
  <2>1. ram'.etag = Current
    BY <1>6 DEF Inv, Typed0, Config
  <2>2. flash' \in Seq(Write(ram'))
    BY <1>2, <1>6, <2>1, CacheWritesOk
  <2> QED
    BY <1>2, <1>3, <1>6, <2>2
<1>7. CASE ram' = [ram EXCEPT !.etag = None] /\ flash' = <<<<"etag", None>>>>
  BY <1>1, <1>7, Forgotten
<1> QED
  BY <1>4, <1>5, <1>6, <1>7 DEF PollUpdate

LEMMA SetupOnlineStep == ASSUME Inv, SetupOnline PROVE Inv'
<1>1. PICK u \in Server, c \in Typed : Configure(u, c, "setup")
  BY DEF SetupOnline
<1>2. c \in Code \cup {None}
  BY Typing DEF Typed
<1>3. at # "off" /\ flash = <<>> /\ UNCHANGED <<nvs, content>>
  BY DEF SetupOnline, Running, server
<1> QED
  BY <1>1, <1>2, <1>3, ConfigureStep

LEMMA CornerStep == ASSUME Inv, CornerHeld PROVE Inv'
<1>1. at = "loop" /\ flash = <<>> /\ UNCHANGED <<nvs, content>>
  BY DEF CornerHeld, Running, server
<1>2. CASE UNCHANGED <<ram, flash, at>>
  BY <1>1, <1>2, Untouched DEF Inv, Typed0
<1>3. CASE \E u \in Server, c \in Typed : Configure(u, c, "portal")
  <2>1. PICK u \in Server, c \in Typed : Configure(u, c, "portal")
    BY <1>3
  <2>2. c \in Code \cup {None}
    BY Typing DEF Typed
  <2> QED
    BY <1>1, <2>1, <2>2, ConfigureStep
<1> QED
  BY <1>2, <1>3 DEF CornerHeld

LEMMA InvInit == Init => Inv
<1>. SUFFICES ASSUME Init PROVE Inv
  OBVIOUS
<1>1. /\ ram = NoConfig /\ flash = <<>> /\ at = "off"
      /\ nvs = [k \in Keys \cup {"file"} |-> None]
      /\ content = [s \in Server |-> 0]
  BY DEF Init
<1>2. NoConfig \in Config /\ NoConfig.cred = None /\ NoConfig.etag = None
  BY DEF NoConfig, Config
<1>3. Typed0
  BY <1>1, <1>2 DEF Typed0, Keys
<1>4. IdentityStaysHome
  BY <1>1, <1>2 DEF IdentityStaysHome, AtHome, Keys
<1>5. Pending /\ Ordered
  BY <1>1 DEF Pending, Ordered
<1> QED
  BY <1>3, <1>4, <1>5 DEF Inv

LEMMA InvNext == Inv /\ [Next]_vars => Inv'
<1>. SUFFICES ASSUME Inv, [Next]_vars PROVE Inv'
  OBVIOUS
<1>0. content \in [Server -> Content \cup {0}]
  BY DEF Inv, Typed0
<1>1. CASE UNCHANGED vars
  BY <1>0, <1>1, Untouched DEF vars, server
<1>2. CASE \E c \in Code : IssueCode(c) \/ ExpireCode(c)
  BY <1>0, <1>2, Untouched DEF IssueCode, ExpireCode
<1>3. CASE \E s \in Server : Revoke(s)
  BY <1>0, <1>3, Untouched DEF Revoke
<1>4. ASSUME NEW s \in Server, Publish(s) PROVE Inv'
  <2>1. content[s] + 1 \in Content
    BY <1>0, <1>4, DisplayAssumption DEF Publish
  <2> QED
    BY <1>0, <1>4, <2>1, Untouched DEF Publish
<1>5. CASE WifiChanges \/ PollTime
  BY <1>0, <1>5, Untouched DEF WifiChanges, PollTime, server
<1>6. CASE SetupOffline
  BY <1>0, <1>6, Untouched DEF SetupOffline, Running, server
<1>8. CASE StartPoll
  BY <1>0, <1>8, Untouched DEF StartPoll, Running, server
<1>9. CASE PollFails
  BY <1>0, <1>9, Polling, Untouched DEF PollFails
<1>10. CASE LanExpires \/ LanPair
  BY <1>0, <1>10, Untouched DEF LanExpires, LanPair, Running, server
<1> QED
  BY <1>1, <1>2, <1>3, <1>4, <1>5, <1>6, <1>8, <1>9, <1>10, OneWrite, PairFailsStep, CrashStep,
     PowerOnStep, SetupOnlineStep, AlreadyPairedStep, PairSucceedsStep, UnauthorizedStep,
     NotModifiedStep, UpdateStep, SubmitStep, CornerStep
  DEF Next

(* Whatever write a power failure comes before, and whatever is typed when, a  *)
(* credential and an ETag stay with the server that issued them.               *)
THEOREM CredentialStaysHome == Safe => []IdentityStaysHome
<1>1. Inv => IdentityStaysHome
  BY DEF Inv
<1> QED
  BY <1>1, InvInit, InvNext, PTL DEF Safe
-----------------------------------------------------------------------------
(* The cache.  An image is in the file before its hash is recorded, in RAM or  *)
(* in NVS, or the write of the file comes first of those that are left.        *)
Stored(i) == nvs.file \in Image \/ \E j \in DOMAIN flash : j < i /\ flash[j][1] = "file"

CacheInv ==
    /\ OfflineStartWorks
    /\ ram.hash # None => Stored(Len(flash) + 1)
    /\ \A i \in DOMAIN flash :
          /\ flash[i][1] = "file" => flash[i][2] \in Image
          /\ flash[i][1] = "hash" /\ flash[i][2] # None => Stored(i)

(* Writes that say nothing of an image. *)
Plain == {e \in Keys \X Value : e[1] = "hash" => e[2] = None}

(* A handler that begins with no write left and records no image. *)
LEMMA PlainHandler ==
    ASSUME CacheInv, flash = <<>>, UNCHANGED nvs, flash' \in Seq(Plain),
           ram'.hash # None => ram.hash # None
    PROVE  CacheInv'
<1>1. ram'.hash # None => nvs.file \in Image
  BY DEF CacheInv, Stored
<1>2. \A i \in DOMAIN flash' : flash'[i][1] # "file" /\ (flash'[i][1] = "hash" => flash'[i][2] = None)
  BY DEF Plain, Keys
<1> QED
  BY <1>1, <1>2 DEF CacheInv, Stored, OfflineStartWorks

LEMMA CacheUntouched ==
    ASSUME CacheInv, UNCHANGED <<ram, nvs, flash>>
    PROVE  CacheInv'
BY DEF CacheInv, Stored, OfflineStartWorks

LEMMA PlainClear == ClearWrites \in Seq(Plain)
BY DEF ClearWrites, Plain, Keys, Value

LEMMA CacheConfigure ==
    ASSUME Inv, CacheInv, flash = <<>>, UNCHANGED nvs,
           NEW u \in Server, NEW c \in Code \cup {None}, NEW from, Configure(u, c, from)
    PROVE  CacheInv'
<1>. DEFINE Y == IF c # None THEN <<<<"code", c>>>> ELSE <<>>
            Z == <<<<"url", u>>>>
            W == IF c # None THEN ClearWrites ELSE <<>>
            X == IF u # ram.url THEN ClearWrites ELSE <<>>
<1>1. flash' = ((X \o Y) \o Z) \o W
  BY DEF Configure, ConfigureWrites
<1>2. X \in Seq(Plain) /\ Y \in Seq(Plain) /\ Z \in Seq(Plain) /\ W \in Seq(Plain)
  <2>1. X \in Seq(Plain) /\ W \in Seq(Plain)
    BY PlainClear
  <2>2. <<"code", c>> \in Plain /\ <<"url", u>> \in Plain
    BY DEF Plain, Keys, Value
  <2> QED
    BY <2>1, <2>2
<1>3. flash' \in Seq(Plain)
  <2> HIDE DEF X, Y, Z, W
  <2> QED
    BY <1>1, <1>2, ConcatProperties
<1>4. ram'.hash # None => ram.hash # None
  BY DEF Configure, Configured, Cleared, Inv, Typed0, Config
<1> QED
  BY <1>3, <1>4, PlainHandler

LEMMA CacheSubmit == ASSUME Inv, CacheInv, LanSubmit PROVE CacheInv'
<1>1. PICK u \in Server, c \in Code :
          /\ ram' = Cleared([ram EXCEPT !.url = u, !.code = c])
          /\ flash' = ClearWrites \o <<<<"url", u>>, <<"code", c>>>>
  BY DEF LanSubmit
<1>2. flash = <<>> /\ nvs' = nvs
  BY DEF LanSubmit, Running, server
<1>3. <<<<"url", u>>, <<"code", c>>>> \in Seq(Plain)
  BY DEF Plain, Keys, Value
<1>4. flash' \in Seq(Plain)
  BY <1>1, <1>3, PlainClear, ConcatProperties
<1>5. ram'.hash = None
  BY <1>1 DEF Cleared, Inv, Typed0, Config
<1> QED
  BY <1>2, <1>4, <1>5, PlainHandler

LEMMA CachePowerOn == ASSUME Inv, CacheInv, PowerOn PROVE CacheInv'
<1>. DEFINE stored == [k \in Keys |-> nvs[k]]
<1>1. PICK upgraded \in BOOLEAN :
          /\ ram' = [stored EXCEPT !.etag = IF upgraded THEN None ELSE @]
          /\ flash' = IF upgraded THEN <<<<"etag", None>>>> ELSE <<>>
  BY DEF PowerOn
<1>2. UNCHANGED nvs /\ ram'.hash = nvs.hash
  BY <1>1 DEF PowerOn, Keys
<1>3. \A i \in DOMAIN flash' : flash'[i] = <<"etag", None>>
  BY <1>1
<1> QED
  BY <1>2, <1>3 DEF CacheInv, Stored, OfflineStartWorks

LEMMA CacheCrash == ASSUME CacheInv, Crash PROVE CacheInv'
BY DEF Crash, server, NoConfig, CacheInv, OfflineStartWorks

(* One write of flash: an image that was to be stored before now is. *)
LEMMA CacheWritten == ASSUME Inv, CacheInv, FlashWrite PROVE CacheInv'
<1>. DEFINE k == flash[1][1]
            v == flash[1][2]
<1>1. /\ flash[1] \in Write(ram) /\ flash[1] = <<k, v>>
      /\ Len(flash) \in Nat /\ Len(flash) >= 1 /\ 1 \in DOMAIN flash
      /\ flash' = Tail(flash) /\ Len(flash') = Len(flash) - 1
      /\ \A i \in DOMAIN flash' : i + 1 \in DOMAIN flash /\ flash'[i] = flash[i + 1] /\ i \in Nat
      /\ \A i \in DOMAIN flash : i # 1 => i - 1 \in DOMAIN flash' /\ flash'[i - 1] = flash[i]
      /\ \A i \in DOMAIN flash : i \in Nat /\ i >= 1
  BY DEF FlashWrite, Inv, Pending, Write
<1>2. nvs' = [nvs EXCEPT ![k] = v] /\ UNCHANGED ram
  BY <1>1 DEF FlashWrite
<1>3. k \in Keys \cup {"file"} /\ DOMAIN nvs = Keys \cup {"file"}
  BY <1>1 DEF Write, Inv, Typed0
<1>4. /\ nvs'.hash = IF k = "hash" THEN v ELSE nvs.hash
      /\ nvs'.file = IF k = "file" THEN v ELSE nvs.file
  BY <1>2, <1>3 DEF Keys
<1>5. k = "file" => v \in Image
  BY <1>1 DEF CacheInv
<1>6. ~Stored(1) => nvs.file \notin Image
  BY DEF Stored
<1>7. k = "hash" /\ v # None => nvs.file \in Image
  BY <1>1 DEF CacheInv, Stored
<1>8. ASSUME NEW i \in Nat, Stored(i + 1) PROVE Stored(i)'
  <2>1. CASE nvs.file \in Image
    BY <2>1, <1>4, <1>5 DEF Stored
  <2>2. CASE nvs.file \notin Image
    <3>1. PICK j \in DOMAIN flash : j < i + 1 /\ flash[j][1] = "file"
      BY <1>8, <2>2 DEF Stored
    <3>2. CASE j = 1
      BY <3>1, <3>2, <1>4, <1>5 DEF Stored
    <3>3. CASE j # 1
      <4>1. j - 1 \in DOMAIN flash' /\ j - 1 < i /\ flash'[j - 1][1] = "file"
        BY <3>1, <3>3, <1>1
      <4> QED
        BY <4>1 DEF Stored
    <3> QED
      BY <3>2, <3>3
  <2> QED
    BY <2>1, <2>2
<1>9. OfflineStartWorks'
  BY <1>4, <1>5, <1>7 DEF CacheInv, OfflineStartWorks
<1>10. ram'.hash # None => Stored(Len(flash) + 1)
  BY <1>2 DEF CacheInv
<1>11. ram'.hash # None => Stored(Len(flash) + 1)'
  <2>1. PICK n \in Nat : n = Len(flash)
    BY <1>1
  <2>2. n = Len(flash') + 1
    BY <2>1, <1>1
  <2>3. Stored(n + 1) => Stored(n)'
    BY <1>8
  <2>4. Stored(n)' => Stored(Len(flash) + 1)'
    BY <2>2 DEF Stored
  <2> QED
    BY <2>1, <2>3, <2>4, <1>10
<1>12. ASSUME NEW i \in DOMAIN flash'
       PROVE  /\ flash'[i][1] = "file" => flash'[i][2] \in Image
              /\ flash'[i][1] = "hash" /\ flash'[i][2] # None => Stored(i)'
  <2>1. i + 1 \in DOMAIN flash /\ flash'[i] = flash[i + 1] /\ i \in Nat
    BY <1>1
  <2>2. /\ flash[i + 1][1] = "file" => flash[i + 1][2] \in Image
        /\ flash[i + 1][1] = "hash" /\ flash[i + 1][2] # None => Stored(i + 1)
    BY <2>1 DEF CacheInv
  <2> QED
    BY <2>1, <2>2, <1>8
<1> QED
  BY <1>9, <1>11, <1>12 DEF CacheInv

LEMMA CacheUpdate == ASSUME Inv, CacheInv, PollUpdate, ~CacheFails PROVE CacheInv'
<1>. DEFINE v == content[ram.url]
<1>1. /\ EndPoll /\ v # 0 /\ UNCHANGED nvs /\ ram.url \in Server /\ flash = <<>>
  BY Polling DEF PollUpdate
<1>2. Current \in Value /\ ImageOf[v] \in Image /\ ram \in Config
  BY <1>1, Typing DEF Current, Value, Inv, Typed0
<1>3. ram.hash # None => nvs.file \in Image
  BY <1>1 DEF CacheInv, Stored
<1>4. CASE UNCHANGED <<ram, flash>>
  BY <1>1, <1>4, CacheUntouched
<1>5. CASE /\ ImageOf[v] = ram.hash
           /\ ram' = [ram EXCEPT !.etag = Current]
           /\ flash' = <<<<"etag", Current>>, <<"hash", ram.hash>>>>
  <2>1. ram'.hash = ram.hash
    BY <1>2, <1>5 DEF Config
  <2>2. /\ DOMAIN flash' = {1, 2} /\ flash'[1][1] = "etag" /\ flash'[2][1] = "hash"
        /\ flash'[2][2] = ram.hash
    BY <1>5
  <2> QED
    BY <1>1, <1>3, <2>1, <2>2 DEF CacheInv, Stored, OfflineStartWorks
<1>6. CASE /\ ram' = [ram EXCEPT !.etag = Current, !.hash = ImageOf[v]]
           /\ flash' = CacheWrites(v)
  <2>1. /\ DOMAIN flash' = {1, 2, 3} /\ Len(flash') = 3
        /\ flash'[1] = <<"file", ImageOf[v]>>
        /\ flash'[2][1] = "etag" /\ flash'[3][1] = "hash"
    BY <1>6 DEF CacheWrites
  <2>2. /\ Stored(Len(flash) + 1)'
        /\ Stored(3)'
    BY <2>1 DEF Stored
  <2>3. ASSUME NEW i \in DOMAIN flash'
        PROVE  /\ flash'[i][1] = "file" => flash'[i][2] \in Image
               /\ flash'[i][1] = "hash" => i = 3
    BY <2>1, <1>2
  <2> QED
    BY <1>1, <2>2, <2>3 DEF CacheInv, OfflineStartWorks
<1>7. CASE ram' = [ram EXCEPT !.etag = None] /\ flash' = <<<<"etag", None>>>>
  <2>1. ram'.hash = ram.hash
    BY <1>2, <1>7 DEF Config
  <2>2. flash' \in Seq(Plain)
    BY <1>7 DEF Plain, Keys, Value
  <2> QED
    BY <1>1, <2>1, <2>2, PlainHandler
<1> QED
  BY <1>4, <1>5, <1>6, <1>7 DEF PollUpdate

(* The other handlers forget what they forget, and record nothing. *)
LEMMA CacheForgets ==
    ASSUME Inv, CacheInv,
           AlreadyPaired \/ PairSucceeds \/ PairFails \/ PollUnauthorized \/ PollNotModified
    PROVE  CacheInv'
<1>1. ram \in Config /\ Cleared(ram).hash = None
  BY DEF Inv, Typed0, Config, Cleared
<1>2. UNCHANGED nvs /\ flash = <<>>
  BY DEF AlreadyPaired, PairSucceeds, PairFails, PollUnauthorized, PollNotModified, EndPoll,
         Running, server
<1>3. CASE AlreadyPaired
  <2>1. ram'.hash = ram.hash /\ flash' = <<>>
    BY <1>1, <1>3 DEF AlreadyPaired, Paired, Config
  <2> QED
    BY <1>2, <2>1, PlainHandler
<1>4. CASE PairSucceeds
  <2>1. ram'.hash = ram.hash
    BY <1>1, <1>4 DEF PairSucceeds, Paired, Config
  <2>2. /\ flash' = <<<<"code", None>>, <<"url", ram.url>>, <<"cred", ram.code>>>>
        /\ ram.url \in Server \cup {None} /\ ram.code \in Code \cup {None}
    BY <1>1, <1>4 DEF PairSucceeds, Paired, Config
  <2>3. /\ <<"code", None>> \in Plain /\ <<"url", ram.url>> \in Plain
        /\ <<"cred", ram.code>> \in Plain
    BY <2>2 DEF Plain, Keys, Value
  <2>4. flash' \in Seq(Plain)
    BY <2>2, <2>3
  <2> QED
    BY <1>2, <2>1, <2>4, PlainHandler
<1>5. CASE UNCHANGED <<ram, flash>>
  BY <1>2, <1>5, CacheUntouched
<1>6. CASE ram' = Cleared(ram) /\ flash' = ClearWrites
  BY <1>1, <1>2, <1>6, PlainClear, PlainHandler
<1>7. CASE ram' = [ram EXCEPT !.etag = None] /\ flash' = <<<<"etag", None>>>>
  <2>1. ram'.hash = ram.hash
    BY <1>1, <1>7 DEF Config
  <2>2. flash' \in Seq(Plain)
    BY <1>7 DEF Plain, Keys, Value
  <2> QED
    BY <1>2, <2>1, <2>2, PlainHandler
<1> QED
  BY <1>3, <1>4, <1>5, <1>6, <1>7 DEF PairFails, PollUnauthorized, PollNotModified

LEMMA CacheNext == ASSUME Inv, CacheInv, [Next]_vars, ~CacheFails PROVE CacheInv'
<1>1. CASE UNCHANGED vars
  BY <1>1, CacheUntouched DEF vars
<1>2. CASE \E c \in Code : IssueCode(c) \/ ExpireCode(c)
  BY <1>2, CacheUntouched DEF IssueCode, ExpireCode
<1>3. CASE \E s \in Server : Revoke(s) \/ Publish(s)
  BY <1>3, CacheUntouched DEF Revoke, Publish
<1>4. CASE WifiChanges \/ PollTime \/ SetupOffline \/ StartPoll \/ LanExpires \/ LanPair
  BY <1>4, CacheUntouched DEF WifiChanges, PollTime, SetupOffline, StartPoll, LanExpires, LanPair
<1>5. CASE PollFails
  <2>1. UNCHANGED <<ram, flash, nvs>>
    BY <1>5 DEF PollFails, EndPoll
  <2> QED
    BY <2>1, CacheUntouched
<1>6. CASE SetupOnline
  <2>1. PICK u \in Server, c \in Typed : Configure(u, c, "setup")
    BY <1>6 DEF SetupOnline
  <2>2. c \in Code \cup {None} /\ flash = <<>> /\ UNCHANGED nvs
    BY <1>6, Typing DEF Typed, SetupOnline, Running
  <2> QED
    BY <2>1, <2>2, CacheConfigure
<1>7. CASE CornerHeld
  <2>1. flash = <<>> /\ UNCHANGED nvs
    BY <1>7 DEF CornerHeld, Running
  <2>2. CASE UNCHANGED <<ram, flash>>
    BY <2>1, <2>2, CacheUntouched
  <2>3. CASE \E u \in Server, c \in Typed : Configure(u, c, "portal")
    <3>1. PICK u \in Server, c \in Typed : Configure(u, c, "portal")
      BY <2>3
    <3>2. c \in Code \cup {None}
      BY Typing DEF Typed
    <3> QED
      BY <2>1, <3>1, <3>2, CacheConfigure
  <2> QED
    BY <1>7, <2>2, <2>3 DEF CornerHeld
<1> QED
  BY <1>1, <1>2, <1>3, <1>4, <1>5, <1>6, <1>7, CacheWritten, CacheCrash, CachePowerOn,
     CacheForgets, CacheUpdate, CacheSubmit
  DEF Next

(* Where the cache file can be written, a box that has recorded an artifact    *)
(* starts with an image when it starts without a network, whatever write of    *)
(* whatever handler a power failure came before (loadAndDisplayCache).         *)
THEOREM OfflineStartShows == ~CacheFails /\ Safe => []OfflineStartWorks
<1>. SUFFICES ASSUME ~CacheFails PROVE Safe => []OfflineStartWorks
  OBVIOUS
<1>1. Init => CacheInv
  <2>. SUFFICES ASSUME Init PROVE CacheInv
    OBVIOUS
  <2>1. ram = NoConfig /\ flash = <<>> /\ nvs = [k \in Keys \cup {"file"} |-> None]
    BY DEF Init
  <2>2. ram.hash = None /\ nvs.hash = None /\ DOMAIN flash = {}
    BY <2>1 DEF NoConfig, Keys
  <2> QED
    BY <2>2 DEF CacheInv, OfflineStartWorks
<1>2. Inv /\ CacheInv /\ [Next]_vars => CacheInv'
  BY CacheNext
<1>3. CacheInv => OfflineStartWorks
  BY DEF CacheInv
<1> QED
  BY <1>1, <1>2, <1>3, InvInit, InvNext, PTL DEF Safe
-----------------------------------------------------------------------------
(* The types.  What NVS holds, and that a poll works with content there is,    *)
(* is part of Inv; the rest depends on no other state.                        *)
WorldType ==
    /\ codes \in [Code -> {"absent", "open", "used"}]
    /\ creds \in [Server -> SUBSET Code]
    /\ fails \in 0 .. 3 /\ crashes \in 0 .. MaxCrash
BoxType ==
    /\ at \in {"off", "network", "pair", "poll", "loop"}
    /\ caller \in {"setup", "portal", "lan"}
    /\ lan \in [active: BOOLEAN, requested: BOOLEAN]
    /\ screen \in Image \cup {"status"}
FlagType == due \in BOOLEAN /\ wifi \in BOOLEAN /\ accepted \in BOOLEAN

LEMMA WorldStep == ASSUME WorldType, Inv, [Next]_vars PROVE WorldType'
<1>1. CASE UNCHANGED vars
  BY <1>1 DEF vars, WorldType
<1>2. CASE \E c \in Code : IssueCode(c) \/ ExpireCode(c)
  BY <1>2 DEF IssueCode, ExpireCode, WorldType
<1>3. CASE \E s \in Server : Revoke(s) \/ Publish(s)
  BY <1>3 DEF Revoke, Publish, WorldType
<1>4. ASSUME NEW c \in Code, Exchange(c) PROVE WorldType
  BY <1>4
<1>5. ASSUME NEW c \in Code, Exchange(c)
      PROVE  codes' \in [Code -> {"absent", "open", "used"}] /\ creds' \in [Server -> SUBSET Code]
  BY <1>5 DEF Exchange, WorldType
<1>6. CASE PairSucceeds
  <2>1. ram.code \in Code
    BY <1>6, Typing DEF PairSucceeds
  <2> QED
    BY <1>5, <1>6, <2>1 DEF PairSucceeds, WorldType
<1>7. CASE PairFails
  <2>1. CASE UNCHANGED server
    BY <1>7, <2>1 DEF PairFails, WorldType, server
  <2>2. CASE ram.code # None /\ Exchange(ram.code)
    <3>1. ram.code \in Code
      BY <2>2, Typing
    <3> QED
      BY <1>5, <1>7, <2>2, <3>1 DEF PairFails, WorldType
  <2> QED
    BY <1>7, <2>1, <2>2 DEF PairFails
<1>8. CASE FlashWrite \/ PowerOn \/ WifiChanges \/ PollTime
  BY <1>8 DEF FlashWrite, PowerOn, WifiChanges, PollTime, WorldType, server
<1>9. CASE Crash
  BY <1>9, DisplayAssumption DEF Crash, WorldType, server
<1>10. CASE SetupOnline \/ SetupOffline \/ AlreadyPaired \/ StartPoll \/ CornerHeld
  BY <1>10 DEF SetupOnline, SetupOffline, AlreadyPaired, StartPoll, CornerHeld, WorldType, server
<1>11. CASE PollFails
  <2>1. fails' \in 0 .. 3
    BY <1>11 DEF PollFails, Counted, WorldType
  <2> QED
    BY <1>11, <2>1 DEF PollFails, EndPoll, WorldType, server
<1>12. CASE PollUnauthorized \/ PollNotModified \/ PollUpdate
  BY <1>12 DEF PollUnauthorized, PollNotModified, PollUpdate, EndPoll, WorldType, server
<1>13. CASE LanSubmit \/ LanExpires \/ LanPair
  BY <1>13 DEF LanSubmit, LanExpires, LanPair, WorldType, server
<1> QED
  BY <1>1, <1>2, <1>3, <1>6, <1>7, <1>8, <1>9, <1>10, <1>11, <1>12, <1>13 DEF Next

LEMMA LanRecords ==
    /\ NoLan \in [active: BOOLEAN, requested: BOOLEAN]
    /\ [active |-> TRUE, requested |-> FALSE] \in [active: BOOLEAN, requested: BOOLEAN]
BY DEF NoLan

LEMMA BoxStep == ASSUME BoxType, Inv, [Next]_vars PROVE BoxType'
<1>1. CASE UNCHANGED vars
  BY <1>1 DEF vars, BoxType
<1>2. CASE \E c \in Code : IssueCode(c) \/ ExpireCode(c)
  BY <1>2 DEF IssueCode, ExpireCode, BoxType
<1>3. CASE \E s \in Server : Revoke(s) \/ Publish(s)
  BY <1>3 DEF Revoke, Publish, BoxType
<1>4. CASE FlashWrite \/ PowerOn \/ WifiChanges \/ PollTime
  BY <1>4 DEF FlashWrite, PowerOn, WifiChanges, PollTime, BoxType
<1>13. CASE Crash
  BY <1>13, LanRecords DEF Crash, BoxType
<1>5. CASE SetupOnline \/ SetupOffline
  BY <1>5 DEF SetupOnline, SetupOffline, Configure, Readable, BoxType
<1>6. CASE AlreadyPaired \/ PairSucceeds
  BY <1>6 DEF AlreadyPaired, PairSucceeds, Paired, BoxType
<1>7. CASE PairFails \/ StartPoll
  BY <1>7 DEF PairFails, StartPoll, BoxType
<1>8. CASE PollFails
  <2>1. at' = "loop" /\ caller' = caller
    BY <1>8 DEF PollFails, EndPoll
  <2>2. lan' \in {lan, [active |-> TRUE, requested |-> FALSE]} /\ screen' \in {screen, "status"}
    BY <1>8 DEF PollFails
  <2> QED
    BY <2>1, <2>2, LanRecords DEF BoxType
<1>9. CASE PollUnauthorized \/ PollNotModified
  BY <1>9 DEF PollUnauthorized, PollNotModified, EndPoll, BoxType
<1>10. CASE PollUpdate
  <2>1. ImageOf[content[ram.url]] \in Image
    BY <1>10, Polling, Typing DEF PollUpdate
  <2> QED
    BY <1>10, <2>1 DEF PollUpdate, EndPoll, BoxType
<1>11. CASE LanSubmit \/ LanExpires \/ LanPair
  BY <1>11 DEF LanSubmit, LanExpires, LanPair, BoxType
<1>12. CASE CornerHeld
  <2>1. CASE UNCHANGED <<at, caller>>
    BY <1>12, <2>1, LanRecords DEF CornerHeld, Configure, BoxType
  <2>2. CASE \E u \in Server, c \in Typed : Configure(u, c, "portal") /\ UNCHANGED lan
    BY <1>12, <2>2 DEF CornerHeld, Configure, BoxType
  <2> QED
    BY <1>12, <2>1, <2>2 DEF CornerHeld
<1> QED
  BY <1>1, <1>2, <1>3, <1>4, <1>5, <1>6, <1>7, <1>8, <1>9, <1>10, <1>11, <1>12, <1>13 DEF Next

LEMMA FlagStep == ASSUME FlagType, [Next]_vars PROVE FlagType'
<1>1. CASE UNCHANGED vars
  BY <1>1, Zenon DEF vars, FlagType
<1>2. CASE \E c \in Code : IssueCode(c) \/ ExpireCode(c)
  BY <1>2, Zenon DEF IssueCode, ExpireCode, FlagType
<1>3. CASE \E s \in Server : Revoke(s) \/ Publish(s)
  BY <1>3, Zenon DEF Revoke, Publish, FlagType
<1>4. CASE FlashWrite \/ PowerOn \/ WifiChanges \/ PollTime \/ Crash
  BY <1>4, Zenon DEF FlashWrite, PowerOn, WifiChanges, PollTime, Crash, FlagType
<1>5. CASE SetupOnline \/ SetupOffline
  BY <1>5, Zenon DEF SetupOnline, SetupOffline, Configure, FlagType
<1>6. CASE AlreadyPaired \/ PairSucceeds \/ PairFails \/ StartPoll
  BY <1>6, Zenon DEF AlreadyPaired, PairSucceeds, PairFails, Paired, StartPoll, FlagType
<1>7. CASE PollFails
  BY <1>7, Zenon DEF PollFails, EndPoll, FlagType
<1>8. CASE PollUnauthorized \/ PollNotModified \/ PollUpdate
  BY <1>8, Zenon DEF PollUnauthorized, PollNotModified, PollUpdate, EndPoll, FlagType
<1>9. CASE LanSubmit \/ LanExpires \/ LanPair
  BY <1>9, Zenon DEF LanSubmit, LanExpires, LanPair, FlagType
<1>10. CASE CornerHeld
  BY <1>10, Zenon DEF CornerHeld, Configure, FlagType
<1> QED
  BY <1>1, <1>2, <1>3, <1>4, <1>5, <1>6, <1>7, <1>8, <1>9, <1>10 DEF Next

(* The state of the box and its server stays well formed: what a poll draws is *)
(* an image, what NVS keeps is what its keys are for, and every write that is  *)
(* left is for one of them or the cache file.                                  *)
THEOREM BoxTyped == Safe => []TypeOK
<1>1. Init => WorldType /\ BoxType /\ FlagType
  <2>1. Init => WorldType
    BY DisplayAssumption DEF Init, WorldType
  <2>2. Init => BoxType
    BY LanRecords DEF Init, BoxType
  <2>3. Init => FlagType
    BY Zenon DEF Init, FlagType
  <2> QED
    BY <2>1, <2>2, <2>3
<1>2. Inv /\ WorldType /\ [Next]_vars => WorldType'
  BY WorldStep
<1>3. Inv /\ BoxType /\ [Next]_vars => BoxType'
  BY BoxStep
<1>4. FlagType /\ [Next]_vars => FlagType'
  BY FlagStep
<1>5. Inv /\ WorldType /\ BoxType /\ FlagType => TypeOK
  <2>. SUFFICES ASSUME Inv, WorldType, BoxType, FlagType PROVE TypeOK
    OBVIOUS
  <2>1. ram \in Config /\ [k \in Keys |-> nvs[k]] \in Config
    BY DEF Inv, Typed0, Config, Keys
  <2>2. \A i \in DOMAIN flash : flash[i][1] \in Keys \cup {"file"}
    BY DEF Inv, Pending, Write
  <2> QED
    BY <2>1, <2>2 DEF TypeOK, WorldType, BoxType, FlagType, Inv, Typed0
<1> QED
  BY <1>1, <1>2, <1>3, <1>4, <1>5, InvInit, InvNext, PTL DEF Safe
=============================================================================
