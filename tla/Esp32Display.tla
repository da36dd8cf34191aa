----------------------------- MODULE Esp32Display -----------------------------
(***************************************************************************)
(* The pull client of the ESP32 display and the part of Inker it talks to:  *)
(*   firmware/esp32-4848s040/src/main.cpp                                   *)
(*   backend/src/device-enrollment/device-enrollment.service.ts             *)
(*   backend/src/device-platform/pull-content.controller.ts                 *)
(*                                                                          *)
(* The client is one thread: setup(), then loop() for ever, every HTTP      *)
(* request blocking.  What makes it hard is what happens around it: power   *)
(* may fail between any two writes to flash, replies are lost, the content  *)
(* changes, and a user types a new server and code at any moment.           *)
(*                                                                          *)
(* Flash is written one key at a time: a handler changes the RAM copy at    *)
(* once and leaves its writes in "flash", and the program goes on when they *)
(* are done.  A crash drops the writes that are left.                       *)
(***************************************************************************)
EXTENDS Integers, Sequences

CONSTANTS
    Server,      \* base URLs of Inker servers the box is registered with
    Code,        \* pairing codes, and so the credentials they are exchanged for
    HomeOf,      \* the server that issues each code
    Content,     \* what a server publishes, in order: 1 .. n; 0 is nothing
    ImageOf,     \* the image (by its hash) of each content
    None,        \* an empty string
    CacheFails,  \* whether a write of the cache file may fail
    MaxCrash     \* bound: power failures

ASSUME DisplayAssumption ==
    /\ HomeOf \in [Code -> Server]
    /\ Content = 1 .. Len(ImageOf)
    /\ None \notin Server \cup Code
    /\ CacheFails \in BOOLEAN /\ MaxCrash \in Nat

Image == {ImageOf[v] : v \in Content}
Etag  == Server \X Content

VARIABLES
    codes,    \* device_enrollments: absent, open or used
    creds,    \* device_credentials that are not revoked, by server
    content,  \* the content each server publishes for the box
    ram,      \* config and pendingPairingCode
    nvs,      \* the same keys in NVS, and the cache file
    flash,    \* writes to flash still to be done by the running handler
    at,       \* where the program is
    caller,   \* who called pairDevice
    screen,   \* what is on the display: a status text, or an image
    lan,      \* lanSetupActive and lanSetupPairRequested
    fails,    \* consecutiveManifestFailures
    due,      \* whether nextPollAt has come
    wifi,     \* WiFi.status() == WL_CONNECTED
    accepted, \* history: the last poll ended with its manifest accepted
    crashes

server == <<codes, creds, content>>
vars == <<codes, creds, content, ram, nvs, flash, at, caller, screen, lan, fails,
          due, wifi, accepted, crashes>>

Config == [url: Server \cup {None}, cred: Code \cup {None}, etag: Etag \cup {None},
           hash: Image \cup {None}, code: Code \cup {None}]
NoConfig == [url |-> None, cred |-> None, etag |-> None, hash |-> None, code |-> None]
Keys == {"url", "cred", "etag", "hash", "code"}
NoLan == [active |-> FALSE, requested |-> FALSE]

TypeOK ==
    /\ codes \in [Code -> {"absent", "open", "used"}]
    /\ creds \in [Server -> SUBSET Code]
    /\ content \in [Server -> Content \cup {0}]
    /\ ram \in Config
    /\ [k \in Keys |-> nvs[k]] \in Config
    /\ nvs.file \in Image \cup {None, "partial"}
    /\ at \in {"off", "network", "pair", "poll", "loop"}
    /\ caller \in {"setup", "portal", "lan"}
    /\ screen \in Image \cup {"status"}
    /\ lan \in [active: BOOLEAN, requested: BOOLEAN]
    /\ fails \in 0 .. 3
    /\ {due, wifi, accepted} \subseteq BOOLEAN
    /\ crashes \in 0 .. MaxCrash
    \* What waits to be written is for the keys in RAM, or the file.
    /\ \A i \in DOMAIN flash : flash[i][1] \in Keys \cup {"file"}

Init ==
    /\ codes = [c \in Code |-> "absent"]
    /\ creds = [s \in Server |-> {}]
    /\ content = [s \in Server |-> 0]
    /\ ram = NoConfig
    /\ nvs = [k \in Keys \cup {"file"} |-> None]
    /\ flash = <<>>
    /\ at = "off" /\ caller = "setup"
    /\ screen = "status"
    /\ lan = NoLan
    /\ fails = 0
    /\ due = TRUE /\ wifi = FALSE /\ accepted = FALSE
    /\ crashes = 0

-----------------------------------------------------------------------------
(* The server.  create() supersedes the open codes of the device; exchange()  *)
(* uses the code up, revokes what was issued before and issues a credential,  *)
(* in one serializable transaction.                                           *)
IssueCode(c) ==
    /\ codes[c] = "absent"
    /\ codes' = [d \in Code |-> IF d = c THEN "open"
                                ELSE IF codes[d] = "open" /\ HomeOf[d] = HomeOf[c]
                                THEN "used" ELSE codes[d]]
    /\ UNCHANGED <<creds, content, ram, nvs, flash, at, caller, screen, lan, fails,
                   due, wifi, accepted, crashes>>

ExpireCode(c) ==
    /\ codes[c] = "open"
    /\ codes' = [codes EXCEPT ![c] = "used"]
    /\ UNCHANGED <<creds, content, ram, nvs, flash, at, caller, screen, lan, fails,
                   due, wifi, accepted, crashes>>

Revoke(s) ==
    /\ creds[s] # {}
    /\ creds' = [creds EXCEPT ![s] = {}]
    /\ UNCHANGED <<codes, content, ram, nvs, flash, at, caller, screen, lan, fails,
                   due, wifi, accepted, crashes>>

Publish(s) ==
    /\ content[s] < Len(ImageOf)
    /\ content' = [content EXCEPT ![s] = @ + 1]
    /\ UNCHANGED <<codes, creds, ram, nvs, flash, at, caller, screen, lan, fails,
                   due, wifi, accepted, crashes>>

CanExchange(c, s) == HomeOf[c] = s /\ codes[c] = "open"

Exchange(c) ==
    /\ codes' = [codes EXCEPT ![c] = "used"]
    /\ creds' = [creds EXCEPT ![HomeOf[c]] = {c}]
    /\ UNCHANGED content

-----------------------------------------------------------------------------
(* Flash, power, and the world around the box.                                *)
FlashWrite ==
    /\ flash # <<>>
    /\ nvs' = [nvs EXCEPT ![Head(flash)[1]] = Head(flash)[2]]
    /\ flash' = Tail(flash)
    /\ UNCHANGED <<server, ram, at, caller, screen, lan, fails, due, wifi, accepted, crashes>>

Crash ==
    /\ at # "off" /\ crashes < MaxCrash
    /\ crashes' = crashes + 1
    /\ at' = "off" /\ flash' = <<>>
    /\ ram' = NoConfig /\ caller' = "setup" /\ screen' = "status" /\ lan' = NoLan
    /\ fails' = 0 /\ due' = TRUE /\ wifi' = FALSE /\ accepted' = FALSE
    /\ UNCHANGED <<server, nvs>>

(* setup() up to configureNetwork: loadConfig, which forgets the manifest of   *)
(* an older firmware, and the splash screen.                                  *)
PowerOn ==
    /\ at = "off"
    /\ at' = "network"
    /\ \E upgraded \in BOOLEAN :
          /\ ram' = [[k \in Keys |-> nvs[k]] EXCEPT !.etag = IF upgraded THEN None ELSE @]
          /\ flash' = IF upgraded THEN <<<<"etag", None>>>> ELSE <<>>
    /\ UNCHANGED <<server, nvs, caller, screen, lan, fails, due, wifi, accepted, crashes>>

WifiChanges ==
    /\ at \in {"pair", "poll", "loop"}
    /\ wifi' = ~wifi
    /\ UNCHANGED <<server, ram, nvs, flash, at, caller, screen, lan, fails, due, accepted, crashes>>

PollTime ==
    /\ ~due /\ at = "loop"
    /\ due' = TRUE
    /\ UNCHANGED <<server, ram, nvs, flash, at, caller, screen, lan, fails, wifi, accepted, crashes>>

(* The program runs, and its last handler's writes are done. *)
Running(where) == at = where /\ flash = <<>>

-----------------------------------------------------------------------------
(* clearPairing, and configureNetwork with the values of its form (u, c), which *)
(* are the old ones when the portal did not open, followed by the clearPairing  *)
(* of both its callers when there is a code to pair with.                       *)
Cleared(r)  == [r EXCEPT !.cred = None, !.etag = None, !.hash = None]
ClearWrites == <<<<"cred", None>>, <<"etag", None>>, <<"hash", None>>>>

Configured(u, c) ==
    LET typed == [ram EXCEPT !.url = u, !.code = c]
    IN  IF u # ram.url \/ c # None THEN Cleared(typed) ELSE typed

(* Mutant: the new URL is stored before the old credential is removed. *)
ConfigureWritesUrlFirst(u, c) ==
    (IF c # None THEN <<<<"code", c>>>> ELSE <<>>)
        \o <<<<"url", u>>>> \o (IF u # ram.url \/ c # None THEN ClearWrites ELSE <<>>)

ConfigureWrites(u, c) ==
    (IF u # ram.url THEN ClearWrites ELSE <<>>)
        \o (IF c # None THEN <<<<"code", c>>>> ELSE <<>>)
        \o <<<<"url", u>>>>
        \o (IF c # None THEN ClearWrites ELSE <<>>)

(* What a user may type: a server, a code that was handed out, or what is there. *)
Typed == {c \in Code : codes[c] # "absent"} \cup {ram.code}

Configure(u, c, from) ==
    /\ ram' = Configured(u, c)
    /\ flash' = ConfigureWrites(u, c)
    /\ wifi' = TRUE
    /\ screen' = "status" /\ accepted' = FALSE
    /\ at' = "pair" /\ caller' = from

SetupOnline ==
    /\ Running("network")
    /\ \E u \in Server, c \in Typed : Configure(u, c, "setup")
    /\ UNCHANGED <<server, nvs, lan, fails, due, crashes>>

(* loadAndDisplayCache: the decoder refuses a file that is cut off. *)
Readable(file) == file \in Image

SetupOffline ==
    /\ Running("network")
    /\ wifi' = FALSE
    /\ screen' = IF Readable(nvs.file) THEN nvs.file ELSE "status"
    /\ due' = FALSE
    /\ at' = "loop"
    /\ UNCHANGED <<server, ram, nvs, flash, caller, lan, fails, accepted, crashes>>

-----------------------------------------------------------------------------
(* pairDevice and what its callers do with the answer.                        *)
Paired(r, writes) ==
    /\ flash' = writes
    /\ ram' = IF caller = "setup" THEN r ELSE [r EXCEPT !.etag = None]
    /\ due' = (due \/ caller # "setup")
    /\ at' = IF caller = "setup" THEN "poll" ELSE "loop"
    /\ lan' = IF caller = "lan" THEN [lan EXCEPT !.active = FALSE] ELSE lan

AlreadyPaired ==
    /\ Running("pair") /\ ram.cred # None
    /\ Paired(ram, <<>>)
    /\ UNCHANGED <<server, nvs, caller, screen, fails, wifi, accepted, crashes>>

PairSucceeds ==
    /\ Running("pair") /\ ram.cred = None /\ ram.code # None
    /\ CanExchange(ram.code, ram.url)
    /\ Exchange(ram.code)
    /\ Paired([ram EXCEPT !.cred = ram.code, !.code = None],
              <<<<"code", None>>, <<"url", ram.url>>, <<"cred", ram.code>>>>)
    /\ screen' = "status" /\ accepted' = FALSE
    /\ UNCHANGED <<nvs, caller, fails, wifi, crashes>>

(* No code, no answer, or a refusal.  An answer that is lost has used the code, *)
(* and so has one for a device with another profile.                          *)
PairFails ==
    /\ Running("pair") /\ ram.cred = None
    /\ \/ UNCHANGED <<server, ram, flash>>
       \/ /\ ram.code # None /\ CanExchange(ram.code, ram.url) /\ Exchange(ram.code)
          /\ \/ UNCHANGED <<ram, flash>>
             \/ ram' = Cleared(ram) /\ flash' = ClearWrites
    /\ screen' = "status" /\ accepted' = FALSE
    /\ at' = "loop"
    /\ UNCHANGED <<nvs, caller, lan, fails, due, wifi, crashes>>

-----------------------------------------------------------------------------
(* pollContent.  The manifest's ETag stands for all of it; the artifact is     *)
(* fetched only when its hash is not the one in config.                        *)
Authorized == ram.cred \in creds[ram.url]
Current    == <<ram.url, content[ram.url]>>

StartPoll ==
    /\ Running("loop") /\ wifi /\ ram.cred # None /\ due
    /\ at' = "poll"
    /\ UNCHANGED <<server, ram, nvs, flash, caller, screen, lan, fails, due, wifi, accepted, crashes>>

EndPoll ==
    /\ Running("poll")
    /\ at' = "loop" /\ due' = FALSE
    /\ UNCHANGED <<server, nvs, caller, wifi, crashes>>

(* The failures counted in one byte: 3 stands for 3 .. 255, which ends in 0. *)
Counted(n) == IF n < 3 THEN {n + 1} ELSE {3, 0}

(* No answer, an error, or no content yet (404). *)
PollFails ==
    /\ EndPoll
    /\ \/ \* The request cannot begin, or the recovery page is open already.
          UNCHANGED <<lan, fails, screen, accepted>>
       \/ /\ ~lan.active
          /\ fails' \in Counted(fails)
          /\ LET open == fails' >= 3 /\ wifi
             IN  /\ lan' = IF open THEN [active |-> TRUE, requested |-> FALSE] ELSE lan
                 /\ screen' = IF open THEN "status" ELSE screen
                 /\ accepted' = (accepted /\ ~open)
    /\ UNCHANGED <<ram, flash>>

PollUnauthorized ==
    /\ EndPoll
    /\ ~Authorized
    /\ ram' = Cleared(ram) /\ flash' = ClearWrites
    /\ screen' = "status" /\ accepted' = FALSE
    /\ fails' = 0
    /\ UNCHANGED lan

(* Mutant: an ETag that was saved without an image is trusted. *)
TrustsEtag == FALSE

(* "A manifest is useful only after its artifact was rendered successfully." *)
NeverRendered == ram.hash = None

PollNotModified ==
    /\ EndPoll
    /\ Authorized /\ content[ram.url] # 0 /\ ram.etag = Current
    /\ fails' = 0
    /\ IF NeverRendered
       THEN /\ ram' = [ram EXCEPT !.etag = None]
            /\ flash' = <<<<"etag", None>>>>
            /\ UNCHANGED accepted
       ELSE /\ accepted' = TRUE
            /\ UNCHANGED <<ram, flash>>
    /\ UNCHANGED <<lan, screen>>

(* Mutant: the metadata is saved before the file. *)
CacheWritesMetadataFirst(v) ==
    <<<<"etag", Current>>, <<"hash", ImageOf[v]>>, <<"file", ImageOf[v]>>>>

(* What saving an image leaves to write; the result of the file is not looked at. *)
CacheWrites(v) ==
    <<<<"file", ImageOf[v]>>, <<"etag", Current>>, <<"hash", ImageOf[v]>>>>

CacheWritesFailed(v) ==
    {Tail(CacheWrites(v)), [CacheWrites(v) EXCEPT ![1] = <<"file", "partial">>]}

PollUpdate ==
    /\ EndPoll
    /\ Authorized /\ content[ram.url] # 0 /\ ram.etag # Current
    /\ fails' = 0
    /\ LET v == content[ram.url] IN
       \/ \* A body that cannot be parsed.
          UNCHANGED <<ram, flash, screen, accepted>>
       \/ \* The image is the one of the manifest before: nothing is drawn.
          /\ ImageOf[v] = ram.hash
          /\ ram' = [ram EXCEPT !.etag = Current]
          /\ flash' = <<<<"etag", Current>>, <<"hash", ram.hash>>>>
          /\ accepted' = TRUE
          /\ UNCHANGED screen
       \/ \* downloadAndDisplay.
          /\ ImageOf[v] # ram.hash
          /\ ram' = [ram EXCEPT !.etag = Current, !.hash = ImageOf[v]]
          /\ flash' \in {CacheWrites(v)} \cup (IF CacheFails THEN CacheWritesFailed(v) ELSE {})
          /\ screen' = ImageOf[v]
          /\ accepted' = TRUE
       \/ \* The download, its hash or its decoding fails.
          /\ ImageOf[v] # ram.hash
          /\ ram' = [ram EXCEPT !.etag = None]
          /\ flash' = <<<<"etag", None>>>>
          /\ accepted' = FALSE
          /\ UNCHANGED screen
    /\ UNCHANGED lan

-----------------------------------------------------------------------------
(* The recovery page, and the corner that is held for four seconds.           *)
LanSubmit ==
    /\ Running("loop") /\ lan.active
    /\ \E u \in Server, c \in {d \in Code : codes[d] # "absent"} :
          /\ ram' = Cleared([ram EXCEPT !.url = u, !.code = c])
          /\ flash' = ClearWrites \o <<<<"url", u>>, <<"code", c>>>>
    /\ lan' = [lan EXCEPT !.requested = TRUE]
    /\ accepted' = FALSE
    /\ UNCHANGED <<server, nvs, at, caller, screen, fails, due, wifi, crashes>>

LanExpires ==
    /\ Running("loop") /\ lan.active
    /\ lan' = [lan EXCEPT !.active = FALSE]
    /\ screen' = "status" /\ accepted' = FALSE
    /\ UNCHANGED <<server, ram, nvs, flash, at, caller, fails, due, wifi, crashes>>

LanPair ==
    /\ Running("loop") /\ lan.active /\ lan.requested
    /\ lan' = [lan EXCEPT !.requested = FALSE]
    /\ at' = "pair" /\ caller' = "lan"
    /\ UNCHANGED <<server, ram, nvs, flash, screen, fails, due, wifi, accepted, crashes>>

CornerHeld ==
    /\ Running("loop")
    /\ \/ /\ wifi
          /\ lan' = [active |-> TRUE, requested |-> FALSE]
          /\ screen' = "status" /\ accepted' = FALSE
          /\ UNCHANGED <<ram, flash, wifi, at, caller>>
       \/ \* The portal times out.
          /\ ~wifi
          /\ screen' = "status" /\ accepted' = FALSE
          /\ UNCHANGED <<lan, ram, flash, wifi, at, caller>>
       \/ /\ ~wifi
          /\ \E u \in Server, c \in Typed : Configure(u, c, "portal")
          /\ UNCHANGED lan
    /\ UNCHANGED <<server, nvs, fails, due, crashes>>

Next ==
    \/ \E c \in Code : IssueCode(c) \/ ExpireCode(c)
    \/ \E s \in Server : Revoke(s) \/ Publish(s)
    \/ FlashWrite \/ Crash \/ PowerOn \/ WifiChanges \/ PollTime
    \/ SetupOnline \/ SetupOffline
    \/ AlreadyPaired \/ PairSucceeds \/ PairFails
    \/ StartPoll \/ PollFails \/ PollUnauthorized \/ PollNotModified \/ PollUpdate
    \/ LanSubmit \/ LanExpires \/ LanPair \/ CornerHeld

(* Flash, the loop and the timers go on by themselves; a request ends, and a   *)
(* server that is asked again and again is reached in the end.                *)
Accepts == PollUpdate /\ ram'.etag = Current

Fairness ==
    /\ WF_vars(FlashWrite) /\ WF_vars(PowerOn) /\ WF_vars(SetupOnline \/ SetupOffline)
    /\ WF_vars(AlreadyPaired \/ PairSucceeds \/ PairFails)
    /\ WF_vars(PollTime) /\ WF_vars(StartPoll)
    /\ WF_vars(PollFails \/ PollUnauthorized \/ PollNotModified \/ PollUpdate)
    /\ SF_vars(Accepts) /\ SF_vars(PollNotModified)
    /\ WF_vars(LanExpires) /\ WF_vars(LanPair)

Safe == Init /\ [][Next]_vars
Spec == Safe /\ Fairness

-----------------------------------------------------------------------------
(* A credential and an ETag are only ever kept, and used, with the server that *)
(* issued them, whatever write a power failure comes before: "A new URL or     *)
(* pairing code invalidates the old device credential" (the firmware's README).*)
AtHome(r) ==
    /\ r.cred # None => HomeOf[r.cred] = r.url
    /\ r.etag # None => r.etag[1] = r.url
IdentityStaysHome == AtHome(ram) /\ AtHome(nvs)

(* Once an artifact is recorded as rendered, an offline start has an image to  *)
(* show, whatever write a power failure comes before.                         *)
OfflineStartWorks == nvs.hash # None => nvs.file \in Image

(* A box that stays paired and connected records the current manifest and its  *)
(* image, whatever failed before: power between the writes of an ETag and of    *)
(* its first image, a failed download, a change of content in between.  There   *)
(* is one exception: power that fails between the ETag of a new image and the   *)
(* hash over that of an older one leaves a box that is answered 304 for ever.   *)
Calm(s, v) == ram.url = s /\ Authorized /\ content[s] = v /\ wifi
UpToDate(s, v) == ram.etag = <<s, v>> /\ ram.hash = ImageOf[v]

Outdated(k, s, v) == k.etag = <<s, v>> /\ k.hash \notin {None, ImageOf[v]}
Torn(s, v) == at = "off" /\ Outdated(nvs, s, v)

Converges ==
    \A s \in Server, v \in Content :
        <>[]Calm(s, v) => \/ <>[]UpToDate(s, v)
                          \/ <>Torn(s, v) /\ <>[]Outdated(ram, s, v)

(* What the code says and does not do.                                        *)

(* "A manifest is useful only after its artifact was rendered successfully"    *)
(* (main.cpp:486): the image of an accepted manifest is on the screen.         *)
AcceptedIsOnScreen == accepted /\ at = "loop" => screen = ram.hash

(* "Saved. The display is now pairing with Inker." (main.cpp:271): what was    *)
(* submitted is tried, by this session or after a restart.                    *)
SubmissionTried == lan.requested ~> at \in {"pair", "off"}
=============================================================================
