------------------------------ MODULE Esp32Clock ------------------------------
(***************************************************************************)
(* The clock of the ESP32 display and what hangs on it:                     *)
(*   firmware/esp32-4848s040/src/main.cpp  scheduleNextPoll, setupCornerHeld *)
(*                                         and the end of loop()            *)
(*                                                                          *)
(* millis() counts milliseconds in 32 bits and starts again from 0 after    *)
(* 49.7 days.  Deadlines are compared by the sign of a 32-bit difference,   *)
(* the corner's hold by an unsigned one.  Here the word has 2 * Half values. *)
(* One step is one iteration of loop(), which begins later than the one     *)
(* before by what that took: 25 ms, or a request that blocked.              *)
(***************************************************************************)
EXTENDS Integers

CONSTANTS
    Half,        \* half the range of millis(): 2^31
    MaxBlock,    \* the longest an iteration takes
    MaxRefresh,  \* the longest interval of scheduleNextPoll: an hour
    Hold,        \* kSetupHoldMs
    MaxOffline,  \* the longest time without Wi-Fi
    LatePairing  \* whether the box is paired after 24 days, when millis() reaches Half

ASSUME ClockAssumption ==
    /\ {Half, MaxBlock, MaxRefresh, Hold, MaxOffline} \subseteq Nat \ {0}
    /\ MaxOffline + MaxRefresh + 2 * MaxBlock < Half
    /\ Hold + MaxBlock < Half
    /\ LatePairing \in BOOLEAN

Word == 0 .. 2 * Half - 1

Plus(a, d)  == IF a + d < 2 * Half THEN a + d ELSE a + d - 2 * Half
Minus(a, b) == IF b <= a THEN a - b ELSE a - b + 2 * Half

(* Mutant: the deadline is compared as it stands. *)
DueUnwrapped(t, deadline) == t >= deadline

(* static_cast<int32_t>(t - deadline) >= 0 *)
Due(t, deadline) == Minus(t, deadline) < Half

VARIABLES
    now,         \* millis() at the last iteration of loop()
    nextPollAt,
    paired,      \* config.credential is not empty
    asked,       \* history: paired since the last poll, nextPollAt is 0
    since,       \* history: time since the poll was scheduled
    interval,    \* history: for how long it was scheduled
    offline,     \* history: time since Wi-Fi was lost
    started,     \* touchStartedAt
    triggered,   \* setupTriggered
    held,        \* history: how long the corner has been held, -1 when it is not
    opened       \* history: how often this hold has opened setup

pollVars  == <<nextPollAt, paired, asked, since, interval>>
touchVars == <<started, triggered, held, opened>>
clockVars == <<now, pollVars, offline, touchVars>>

(* After setup() the box has polled and is scheduled, or has nothing to poll with. *)
ClockInit ==
    /\ now = 0
    /\ paired \in BOOLEAN /\ asked = FALSE
    /\ interval \in 1 .. MaxRefresh
    /\ nextPollAt = IF paired THEN interval ELSE 0
    /\ since = 0 /\ offline = 0
    /\ started = 0 /\ triggered = FALSE /\ held = -1 /\ opened = 0

-----------------------------------------------------------------------------
(* setupCornerHeld at time t, d after the last iteration. *)
Released ==
    /\ started' = 0 /\ triggered' = FALSE
    /\ held' = -1 /\ opened' = 0

(* Mutant: a hold is measured from 0 when it has no start yet. *)
HoldReachedUnset(t) == ~triggered /\ Minus(t, started) >= Hold

HoldReached(t) == ~triggered /\ Minus(t, IF started = 0 THEN t ELSE started) >= Hold

Pressed(t, d) ==
    /\ started' = IF started = 0 THEN t ELSE started
    /\ triggered' = (triggered \/ HoldReached(t))
    /\ opened' = IF HoldReached(t) /\ opened < 2 THEN opened + 1 ELSE opened
    /\ held' = IF held = -1 THEN 0
               ELSE IF held + d < Hold + MaxBlock THEN held + d ELSE Hold + MaxBlock

-----------------------------------------------------------------------------
(* The rest of an iteration: a pairing that succeeded, the connection, a poll. *)
Schedule(t, seconds) ==
    /\ nextPollAt' = Plus(t, seconds)
    /\ interval' = seconds /\ since' = 0
    /\ asked' = FALSE

Wait(d) ==
    /\ since' = IF since + d >= Half THEN Half ELSE since + d
    /\ UNCHANGED <<nextPollAt, paired, asked, interval>>

(* pairDevice succeeded; the poll itself is left to a later iteration. *)
Pair(t, d) ==
    /\ LatePairing \/ t + MaxOffline + 2 * MaxBlock < Half
    /\ paired' = TRUE /\ asked' = TRUE /\ nextPollAt' = 0
    /\ since' = IF since + d >= Half THEN Half ELSE since + d
    /\ UNCHANGED interval

(* pollContent; a refused credential is forgotten. *)
Poll(t) ==
    /\ paired /\ Due(t, nextPollAt)
    /\ \E seconds \in 1 .. MaxRefresh : Schedule(t, seconds)
    /\ paired' \in BOOLEAN

Rest(t, d) ==
    \/ Pair(t, d) /\ UNCHANGED offline
    \/ /\ offline + d <= MaxOffline
       /\ offline' = offline + d
       /\ Wait(d)
    \/ /\ offline' = 0
       /\ \/ Poll(t)
          \/ ~(paired /\ Due(t, nextPollAt)) /\ Wait(d)

Loop(d) ==
    LET t == Plus(now, d) IN
    /\ now' = t
    /\ Rest(t, d)
    /\ Released \/ Pressed(t, d)

ClockNext == \E d \in 1 .. MaxBlock : Loop(d)
ClockSafe == ClockInit /\ [][ClockNext]_clockVars

-----------------------------------------------------------------------------
ClockTypeOK ==
    /\ {now, nextPollAt, started} \subseteq Word
    /\ {paired, asked, triggered} \subseteq BOOLEAN
    /\ since \in 0 .. Half /\ interval \in 1 .. MaxRefresh
    /\ offline \in 0 .. MaxOffline
    /\ held \in -1 .. Hold + MaxBlock /\ opened \in 0 .. 1

(* A paired box polls in the first iteration with a connection after the       *)
(* interval the server asked for, not before, also when millis() starts again: *)
(* the sign of the difference is right as long as no deadline is further away  *)
(* than half the range.                                                        *)
PollsOnTime ==
    paired => IF asked THEN Due(now, nextPollAt)
              ELSE /\ Due(now, nextPollAt) <=> since >= interval
                   /\ offline = 0 => since < interval

(* Holding the corner opens setup once, after four seconds and one iteration   *)
(* at most, also when millis() starts again or is 0, the value of "no touch".  *)
HoldOpensOnce ==
    /\ opened = 1 => held >= Hold
    /\ held >= Hold + MaxBlock => opened = 1

(* What the code says and does not do: "Paired. Waiting for published          *)
(* content..." (main.cpp:357) is followed by a poll at once, which is what     *)
(* setting nextPollAt to 0 is for.                                            *)
PairingIsPolled == asked => Due(now, nextPollAt)
=============================================================================
