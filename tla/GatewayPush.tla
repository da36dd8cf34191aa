------------------------------ MODULE GatewayPush ------------------------------
(***************************************************************************)
(* How one API process shows a display its presentation                      *)
(*   backend/src/device-platform/web-display.gateway.ts  pushPresentation,   *)
(*              deliver, check, operation, cleanup, fail, handle             *)
(*                                                                          *)
(* A task is a run of deliver.  The task Null stands for the pushes of new  *)
(* connections, which are merged; task n is the delivery of the event of    *)
(* presentation n with its context (OutboxFanout has the outbox side of it). *)
(* Presentations are numbered in the order of comparePresentationRevisions; *)
(* every number is an assignment or a finished render that is announced.    *)
(*                                                                          *)
(* What a promise continues with is a step of its own: other messages come  *)
(* in between.  One device, the only one the process has connections of.    *)
(***************************************************************************)
EXTENDS Integers, FiniteSets

CONSTANTS
    Connection,   \* connections
    Newest,       \* bound: presentations
    MaxFailures,  \* bound: failed operations and sends
    MaxLeaves,    \* bound: displays that leave
    MaxRevoked,   \* bound: replaced credentials
    Null          \* neither a connection nor a number

ASSUME PushAssumption ==
    /\ Newest \in Nat \ {0} /\ {MaxFailures, MaxLeaves, MaxRevoked} \subseteq Nat
    /\ Null \notin Connection /\ Null \notin Nat

Delivery == 1 .. Newest
Task     == Delivery \cup {Null}

VARIABLES
    live,      \* connections of the device
    known,     \* those with the credential that is valid
    last,      \* lastRevision of each, 0 for none
    overlooked, \* history: the newest presentation when a connection joined a push that had
               \* ended, 0 for the connections that did not
    checking,  \* the running check of each: "no", or whether it may succeed
    task,      \* the tasks
    requested, \* requestedPushes has the device
    desired,   \* the newest presentation
    rendered,  \* presentations whose artifact exists
    receipt,   \* the presentation that a delivery stored
    owed,      \* deliveries the outbox still makes
    failures, leaves, revoked

openVars  == <<live, known, last, overlooked>>
connVars  == <<openVars, checking>>
worldVars == <<desired, rendered>>
boundVars == <<failures, leaves, revoked>>
pushVars == <<connVars, task, requested, worldVars, receipt, owed, boundVars>>

(* states and authorized of deliver, the connections whose check it awaits, *)
(* the connection it is at, and its presentation.                          *)
IdleTask  == [pc |-> "idle", states |-> {}, awaits |-> {}, at |-> Null, shows |-> 0]

(* The loop of pushPresentation is left, and pushes still has its promise. *)
EndedTask == [IdleTask EXCEPT !.pc = "ended"]

PushTypeOK ==
    /\ known \subseteq live /\ live \subseteq Connection
    /\ last \in [Connection -> 0 .. desired] /\ overlooked \in [Connection -> 0 .. desired]
    /\ checking \in [Connection -> {"no", "good", "bad"}]
    /\ requested \in BOOLEAN
    /\ desired \in Delivery /\ rendered \subseteq 1 .. desired
    /\ receipt \in [Delivery -> 0 .. desired] /\ owed \subseteq 1 .. desired
    \* A task has no connection that has gone; it waits for one it has.
    /\ \A t \in Task : LET k == task[t] IN
          /\ k.pc \in {"idle", "ended", "check", "load", "recheck", "confirm", "failed"}
          /\ k.states \subseteq live /\ k.awaits \subseteq k.states
          /\ k.at \in k.states \cup {Null}
          /\ k.pc = "idle" => k = IdleTask
          /\ k.pc = "ended" => k = EndedTask
          /\ k.pc \in {"load", "confirm"} => k.at # Null

PushInit ==
    /\ live = {} /\ known = {}
    /\ last = [c \in Connection |-> 0] /\ overlooked = last
    /\ checking = [c \in Connection |-> "no"]
    /\ task = [t \in Task |-> IdleTask]
    /\ requested = FALSE
    /\ desired = 1 /\ rendered \in SUBSET {1} /\ owed \in {{}, {1}}
    /\ receipt = [n \in Delivery |-> 0]
    /\ failures = 0 /\ leaves = 0 /\ revoked = 0

-----------------------------------------------------------------------------
(* check: one that is running is shared. *)
WithCheck(c) ==
    IF checking[c] = "no" /\ c \in live
    THEN IF c \in known THEN "good" ELSE "bad"
    ELSE checking[c]

Check(C) == checking' = [c \in Connection |-> IF c \in C THEN WithCheck(c) ELSE checking[c]]

(* deliver begins with the connections of this moment. *)
Started == [pc |-> "check", states |-> live, awaits |-> live, at |-> Null, shows |-> 0]

(* Mutant: a closed connection stays in the list of a task. *)
StillCollected(k, C) == [k EXCEPT !.awaits = @ \ C]

(* cleanup, for tasks: what is awaited of a connection that closes is rejected. *)
Without(k, C) ==
    LET rest == [k EXCEPT !.states = @ \ C, !.awaits = @ \ C]
    IN  IF k.at \notin C THEN rest
        ELSE [rest EXCEPT !.at = Null,
                          !.pc = IF @ \in {"load", "confirm"} THEN "failed" ELSE @]

Close(C) ==
    /\ live' = live \ C /\ known' = known \ C
    /\ last' = [c \in Connection |-> IF c \in C THEN 0 ELSE last[c]]
    /\ overlooked' = [c \in Connection |-> IF c \in C THEN 0 ELSE overlooked[c]]

Unchecked(C) == checking' = [c \in Connection |-> IF c \in C THEN "no" ELSE checking[c]]

(* handle: a connection authenticates, and pushPresentation without a context, *)
(* which joins the push that is in pushes, also when its loop has ended.       *)
Authenticate(c) ==
    LET all == live \cup {c} IN
    /\ c \notin live
    /\ live' = all /\ known' = known \cup {c}
    /\ last' = [last EXCEPT ![c] = 0]
    /\ overlooked' = [overlooked EXCEPT ![c] = IF task[Null].pc = "ended" THEN desired ELSE 0]
    /\ IF task[Null].pc = "idle"
       THEN /\ task' = [task EXCEPT ![Null] = [Started EXCEPT !.states = all, !.awaits = all]]
            /\ checking' = [d \in Connection |-> IF d = c THEN "good" ELSE WithCheck(d)]
            /\ UNCHANGED requested
       ELSE requested' = TRUE /\ UNCHANGED <<task, checking>>
    /\ UNCHANGED <<worldVars, receipt, owed, boundVars>>

(* tick, or telemetry. *)
StartCheck(c) ==
    /\ c \in live /\ checking[c] = "no"
    /\ Check({c})
    /\ UNCHANGED <<openVars, task, requested, worldVars, receipt, owed, boundVars>>

(* The loop of pushPresentation, and the end of a delivery.                  *)
(* Mutant: pushes that were requested meanwhile are taken to be served.      *)
OnlyOnce(t) == IF t = Null THEN EndedTask ELSE IdleTask

After(t) ==
    IF t # Null THEN IdleTask ELSE IF requested /\ live # {} THEN Started ELSE EndedTask

Finish(t, done) ==
    LET again == After(t).pc = "check" IN
    /\ task' = [task EXCEPT ![t] = After(t)]
    /\ requested' = (requested /\ ~again)
    /\ IF again THEN Check(live) ELSE UNCHANGED checking
    /\ owed' = IF done THEN owed \ {t} ELSE owed
    /\ UNCHANGED <<openVars, worldVars, receipt, boundVars>>

(* finally, a step of its own: what was requested since the loop was left goes too. *)
Finally ==
    /\ task[Null].pc = "ended"
    /\ task' = [task EXCEPT ![Null] = IdleTask]
    /\ requested' = FALSE
    /\ UNCHANGED <<connVars, worldVars, receipt, owed, boundVars>>

(* A check ends; the task that awaits it goes on in a step of its own. *)
CheckPasses(c) ==
    /\ checking[c] = "good"
    /\ checking' = [checking EXCEPT ![c] = "no"]
    /\ task' = [t \in Task |-> [task[t] EXCEPT !.awaits = @ \ {c}]]
    /\ UNCHANGED <<openVars, requested, worldVars, receipt, owed, boundVars>>

CheckFails(c) ==
    /\ checking[c] # "no"
    /\ \/ c \notin known /\ UNCHANGED failures
       \/ failures < MaxFailures /\ failures' = failures + 1
    /\ Close({c}) /\ Unchecked({c})
    /\ task' = [t \in Task |-> Without(task[t], {c})]
    /\ UNCHANGED <<requested, worldVars, receipt, owed, leaves, revoked>>

(* deliver, after the first checks. *)
Authorized(t) ==
    /\ task[t].pc = "check" /\ task[t].awaits = {} /\ task[t].states # {}
    /\ \E first \in task[t].states :
          task' = [task EXCEPT ![t] = [@ EXCEPT !.pc = "load", !.at = first]]
    /\ UNCHANGED <<connVars, requested, worldVars, receipt, owed, boundVars>>

NothingAuthorized(t) ==
    /\ task[t].pc = "check" /\ task[t].states = {}
    /\ Finish(t, TRUE)

(* getForDevice: the receipt of a delivery is written once. *)
Presentation(t) == IF t # Null /\ receipt[t] # 0 THEN receipt[t] ELSE desired

Loaded(t) ==
    /\ task[t].pc = "load" /\ Presentation(t) \in rendered
    /\ task' = [task EXCEPT ![t] = [@ EXCEPT !.pc = "recheck", !.at = Null,
                                             !.shows = Presentation(t)]]
    /\ receipt' = IF t = Null THEN receipt ELSE [receipt EXCEPT ![t] = Presentation(t)]
    /\ UNCHANGED <<connVars, requested, worldVars, owed, boundVars>>

(* NotAcceptableException *)
NotRendered(t) ==
    /\ task[t].pc = "load" /\ Presentation(t) \notin rendered
    /\ Finish(t, FALSE)

(* The loop over the connections: check, then send. *)
Recheck(t) ==
    LET k == task[t] IN
    /\ k.pc = "recheck" /\ k.at = Null
    /\ \E c \in k.states :
          /\ Check({c})
          /\ task' = [task EXCEPT ![t] = [@ EXCEPT !.at = c, !.awaits = {c}]]
    /\ UNCHANGED <<openVars, requested, worldVars, receipt, owed, boundVars>>

Newer(t, c) == task[t].shows > last[c]
Passed(t, c) ==
    [task EXCEPT ![t] = [@ EXCEPT !.pc = "recheck", !.at = Null,
                                  !.states = task[t].states \ {c}]]

Skip(t) ==
    LET c == task[t].at IN
    /\ task[t].pc = "recheck" /\ c # Null /\ task[t].awaits = {} /\ ~Newer(t, c)
    /\ task' = Passed(t, c)
    /\ UNCHANGED <<connVars, requested, worldVars, receipt, owed, boundVars>>

Send(t) ==
    LET c == task[t].at IN
    /\ task[t].pc = "recheck" /\ c # Null /\ task[t].awaits = {} /\ Newer(t, c)
    /\ IF t = Null
       THEN last' = [last EXCEPT ![c] = task[t].shows] /\ task' = Passed(t, c)
       ELSE task' = [task EXCEPT ![t] = [@ EXCEPT !.pc = "confirm"]] /\ UNCHANGED last
    /\ UNCHANGED <<live, known, overlooked, checking, requested, worldVars, receipt, owed, boundVars>>

(* Mutant: lastRevision is what was sent last, by whichever task. *)
ConfirmedBlindly(t, c) == task[t].shows

(* "A slower send callback must not roll back a newer concurrent delivery." *)
Confirmed(t, c) == IF Newer(t, c) THEN task[t].shows ELSE last[c]

Confirm(t) ==
    LET c == task[t].at IN
    /\ task[t].pc = "confirm"
    /\ last' = [last EXCEPT ![c] = Confirmed(t, c)]
    /\ task' = Passed(t, c)
    /\ UNCHANGED <<live, known, overlooked, checking, requested, worldVars, receipt, owed, boundVars>>

Delivered(t) ==
    /\ task[t].pc = "recheck" /\ task[t].at = Null /\ task[t].states = {}
    /\ Finish(t, TRUE)

(* Loading or a send fails, or takes too long. *)
PushOperationFails(t) ==
    /\ failures < MaxFailures /\ failures' = failures + 1
    /\ task[t].pc \in {"load", "confirm"}
    /\ task' = [task EXCEPT ![t] = [@ EXCEPT !.pc = "failed", !.at = Null]]
    /\ UNCHANGED <<connVars, requested, worldVars, receipt, owed, leaves, revoked>>

(* The catch block of deliver closes every connection of the task. *)
Failed(t) ==
    LET C == task[t].states
        again == t = Null /\ requested /\ live # C
        others == [s \in Task |-> Without(task[s], C)]
        next == IF again THEN [Started EXCEPT !.states = live \ C, !.awaits = live \ C]
                ELSE IF t = Null THEN EndedTask ELSE IdleTask
    IN
    /\ task[t].pc = "failed"
    /\ Close(C)
    /\ task' = [others EXCEPT ![t] = next]
    /\ checking' = [c \in Connection |-> IF c \in C THEN "no"
                                   ELSE IF again THEN WithCheck(c) ELSE checking[c]]
    /\ requested' = (requested /\ ~again)
    /\ UNCHANGED <<worldVars, receipt, owed, boundVars>>

-----------------------------------------------------------------------------
(* The outbox makes a delivery, again until it succeeds.                      *)
Deliver(n) ==
    /\ n \in owed /\ task[n].pc = "idle"
    /\ IF live = {}
       THEN owed' = owed \ {n} /\ UNCHANGED <<task, checking>>
       ELSE task' = [task EXCEPT ![n] = Started] /\ Check(live) /\ UNCHANGED owed
    /\ UNCHANGED <<openVars, requested, worldVars, receipt, boundVars>>

(* A presentation is announced by an event: an assignment, whose image may   *)
(* still have to be rendered, or a finished render (render.artifact.ready).   *)
Announce(isRendered) ==
    /\ desired < Newest
    /\ desired' = desired + 1 /\ owed' = owed \cup {desired + 1}
    /\ rendered' = IF isRendered THEN rendered \cup {desired + 1} ELSE rendered
    /\ UNCHANGED <<connVars, task, requested, receipt, boundVars>>

Publish == Announce(TRUE) \/ (desired + 1 < Newest /\ Announce(FALSE))

Render == desired \notin rendered /\ Announce(TRUE)

Leave(c) ==
    /\ c \in live /\ leaves < MaxLeaves
    /\ leaves' = leaves + 1
    /\ Close({c}) /\ Unchecked({c})
    /\ task' = [t \in Task |-> Without(task[t], {c})]
    /\ UNCHANGED <<requested, worldVars, receipt, owed, failures, revoked>>

PushRevoke ==
    /\ revoked < MaxRevoked /\ known # {}
    /\ revoked' = revoked + 1 /\ known' = {}
    /\ UNCHANGED <<live, last, overlooked, checking, task, requested, worldVars, receipt, owed, failures, leaves>>

Work(t) ==
    \/ Authorized(t) \/ NothingAuthorized(t) \/ Loaded(t) \/ NotRendered(t) \/ Recheck(t)
    \/ Skip(t) \/ Send(t) \/ Confirm(t) \/ Delivered(t) \/ Failed(t)
    \/ t = Null /\ Finally

CheckEnds(c) == CheckPasses(c) \/ CheckFails(c)

PushNext ==
    \/ \E t \in Task : Work(t) \/ PushOperationFails(t)
    \/ \E c \in Connection : Authenticate(c) \/ StartCheck(c) \/ CheckEnds(c) \/ Leave(c)
    \/ \E n \in Delivery : Deliver(n)
    \/ Publish \/ Render \/ PushRevoke

(* Promises settle, the renderer answers, and the outbox retries.             *)
PushFairness ==
    /\ \A t \in Task : WF_pushVars(Work(t))
    /\ \A c \in Connection : WF_pushVars(CheckEnds(c))
    /\ \A n \in Delivery : WF_pushVars(Deliver(n))
    /\ WF_pushVars(Render)

PushSafe == PushInit /\ [][PushNext]_pushVars
PushSpec == PushSafe /\ PushFairness

-----------------------------------------------------------------------------
(* Every connection is sent the newest presentation, or closed: also one that *)
(* authenticates while the push it is merged with makes its last sends, while *)
(* the presentation is not rendered yet, or between the attempts of a         *)
(* delivery.  One that joins a push after its loop has ended is sent what is  *)
(* announced from then on.                                                    *)
Waits(c, n) == c \in live /\ n \in rendered /\ n > overlooked[c] /\ last[c] < n

EachIsShown == \A c \in Connection, n \in Delivery : []<>~Waits(c, n)

(* What a connection is known to have been sent never goes back to an older   *)
(* presentation, in whatever order overlapping sends are confirmed.           *)
Forward == \A c \in live \cap live' : last'[c] >= last[c]
ShownForward == [][Forward]_pushVars
===============================================================================
