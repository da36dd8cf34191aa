------------------------------- MODULE Publishing -------------------------------
(* One publication: the publish command (publications/publish.service.ts), the  *)
(* devices that point at its revisions, and the passes of retention             *)
(* (publications/publication-cleanup.service.ts), each batch of which is one    *)
(* transaction with a durable cursor (jobs/maintenance.service.ts).             *)
(*                                                                              *)
(* The draft is a screen design.  A save of the whole design draws a new        *)
(* updatedAt, its stamp; an edit of one widget changes the content of the       *)
(* design and leaves updatedAt as it is.  Revisions are numbered from 1, and    *)
(* their ids (cuid) are in that order.  Refusals that depend on other state (an *)
(* unknown device, a playing one, a remote publication, a busy database) and    *)
(* crashes are GiveUp: the transaction leaves nothing behind.                   *)
EXTENDS Integers, FiniteSets

CONSTANTS
    Key,          \* idempotency keys
    Call,         \* requests that are being handled at a time
    Device,
    Null,
    PageSize,     \* MAINTENANCE_BATCH_SIZE
    MaxRevision,  \* bound: revisions that are published
    MaxStamp,     \* bound: saves of the design, the first one included
    MaxEdits      \* bound: edits of single widgets between two saves

VARIABLES
    draft,      \* the design: its stamp and the widget edits since, or Null
    revision,   \* history: what was published under each number
    count,      \* history: how many revisions were published
    stored,     \* the revisions that retention has not deleted
    commands,   \* publication_commands: the receipt of each key
    call,       \* the commands being handled
    asked,      \* the command that a client sends under a key, again and again
    assigned,    \* the revision each device is to show
    rendered,   \* revisions with a render request, which is never deleted
    aged,       \* revisions up to this one are past the 90 days
    pass        \* the retention pass: its cutoff and its cursor, or Null

publishVars == <<draft, revision, count, stored, commands, call, asked, assigned, rendered,
          aged, pass>>

Content == [stamp : Nat, edits : Nat]

\* seen: the design as the author had it on the screen; only its stamp is sent.
Request == [expected : Nat, seen : Content, devices : SUBSET Device]

Snapshot == [key : Key, expected : Nat, seen : Content, design : Content, image : Content]
Handling == [key : Key, request : Request, pc : {"look", "read", "render", "commit"},
             design : Content \cup {Null}, image : Content \cup {Null}]

Receipt == [request : Request, result : Nat]
Passing == [cutoff : Nat, cursor : Nat]

\* What the constants are; Null is neither a number nor a record.
Sizes ==
    /\ PageSize \in Nat \ {0} /\ MaxRevision \in Nat /\ MaxStamp \in Nat \ {0}
    /\ MaxEdits \in Nat

Nothing ==
    /\ Null \notin Nat /\ Null \notin Content /\ Null \notin Request
    /\ Null \notin Handling /\ Null \notin Receipt /\ Null \notin Snapshot
    /\ Null \notin Passing

ASSUME PublishAssumption == Sizes /\ Nothing

LatestRevision == CHOOSE r \in stored \cup {0} : \A s \in stored : s <= r

PublishInit ==
    /\ draft = [stamp |-> 1, edits |-> 0]
    /\ revision = [n \in 1 .. MaxRevision |-> Null]
    /\ count = 0 /\ stored = {} /\ rendered = {} /\ aged = 0
    /\ commands = [k \in Key |-> Null]
    /\ call = [c \in Call |-> Null]
    /\ asked = [k \in Key |-> Null]
    /\ assigned = [d \in Device |-> Null]
    /\ pass = Null

------------------------------------------------------------------------------
(* The designer. *)
published == <<revision, count, stored, commands, assigned, rendered>>

Save ==
    /\ draft # Null /\ draft.stamp < MaxStamp
    /\ draft' = [stamp |-> draft.stamp + 1, edits |-> 0]
    /\ UNCHANGED <<published, call, asked, aged, pass>>

EditWidget ==
    /\ draft # Null /\ draft.edits < MaxEdits
    /\ draft' = [draft EXCEPT !.edits = draft.edits + 1]
    /\ UNCHANGED <<published, call, asked, aged, pass>>

Delete ==
    /\ draft # Null
    /\ draft' = Null
    /\ UNCHANGED <<published, call, asked, aged, pass>>

------------------------------------------------------------------------------
(* The publish command.  A client sends what it has on the screen, or repeats   *)
(* an earlier command with its key.                                             *)
Arrive(c, k, q) ==
    /\ call[c] = Null
    /\ call' = [call EXCEPT ![c] =
           [key |-> k, request |-> q, pc |-> "look", design |-> Null, image |-> Null]]
    /\ UNCHANGED <<draft, published, aged, pass>>

Send(c, k) ==
    /\ draft # Null
    /\ \E targets \in SUBSET Device :
          LET q == [expected |-> LatestRevision, seen |-> draft, devices |-> targets] IN
          /\ Arrive(c, k, q)
          /\ asked' = [asked EXCEPT ![k] = IF @ = Null THEN q ELSE @]

Retry(c, k) ==
    /\ asked[k] # Null
    /\ Arrive(c, k, asked[k])
    /\ UNCHANGED asked

Answer(c) == call' = [call EXCEPT ![c] = Null]
AtStep(c, pc) == call[c] # Null /\ call[c].pc = pc

\* A receipt answers at once: with its result, or as a key used for another command.
Look(c) ==
    /\ AtStep(c, "look")
    /\ IF commands[call[c].key] # Null
       THEN Answer(c)
       ELSE call' = [call EXCEPT ![c].pc = "read"]
    /\ UNCHANGED <<draft, published, asked, aged, pass>>

Unchanged(q) == draft # Null /\ draft.stamp = q.seen.stamp

\* snapshotDraft reads the design with its widgets, and then renders what the
\* renderer reads again.
ReadDraft(c) ==
    /\ AtStep(c, "read")
    /\ IF Unchanged(call[c].request)
       THEN call' = [call EXCEPT ![c].pc = "render", ![c].design = draft]
       ELSE Answer(c)
    /\ UNCHANGED <<draft, published, asked, aged, pass>>

Render(c) ==
    /\ AtStep(c, "render")
    /\ IF draft # Null
       THEN call' = [call EXCEPT ![c].pc = "commit", ![c].image = draft]
       ELSE Answer(c)
    /\ UNCHANGED <<draft, published, asked, aged, pass>>

(* Mutant: key and revision are looked at before the transaction only. *)
MayPublishTwice(k, q) == Unchanged(q)

(* Mutant: the draft is looked at before the transaction only. *)
MayPublishAsRead(k, q) == commands[k] = Null /\ LatestRevision = q.expected

\* What the transaction checks before it writes.
MayPublish(k, q) ==
    /\ commands[k] = Null
    /\ LatestRevision = q.expected
    /\ Unchanged(q)

Commit(c) ==
    /\ AtStep(c, "commit")
    /\ LET k == call[c].key
           q == call[c].request
           n == LatestRevision + 1
       IN  IF MayPublish(k, q)
           THEN /\ n <= MaxRevision
                /\ revision' = [revision EXCEPT ![n] =
                       [key |-> k, expected |-> q.expected, seen |-> q.seen,
                        design |-> call[c].design, image |-> call[c].image]]
                /\ count' = count + 1
                /\ stored' = stored \cup {n}
                /\ commands' = [commands EXCEPT ![k] = [request |-> q, result |-> n]]
                /\ assigned' = [d \in Device |-> IF d \in q.devices THEN n ELSE assigned[d]]
                /\ UNCHANGED rendered
           ELSE UNCHANGED published
    /\ Answer(c)
    /\ UNCHANGED <<draft, asked, aged, pass>>

GiveUp(c) ==
    /\ call[c] # Null
    /\ Answer(c)
    /\ UNCHANGED <<draft, published, asked, aged, pass>>

------------------------------------------------------------------------------
(* A revision that is there may be assigned again, also an earlier one.  The    *)
(* render cache makes a request for what a device is to show.                   *)
Assign(d, r) ==
    /\ r \in stored \cup {Null} /\ r # assigned[d]
    /\ assigned' = [assigned EXCEPT ![d] = r]
    /\ UNCHANGED <<draft, revision, count, stored, commands, rendered, call, asked, aged, pass>>

RequestRender(d) ==
    /\ assigned[d] # Null
    /\ rendered' = rendered \cup {assigned[d]}
    /\ UNCHANGED <<draft, revision, count, stored, commands, assigned, call, asked, aged, pass>>

------------------------------------------------------------------------------
(* Retention. *)
Age ==
    /\ aged < count
    /\ aged' = aged + 1
    /\ UNCHANGED <<draft, published, call, asked, pass>>

StartPass ==
    /\ pass = Null
    /\ pass' = [cutoff |-> aged, cursor |-> 0]
    /\ UNCHANGED <<draft, published, call, asked, aged>>

(* Mutant: only the devices' pointers count. *)
ReferencedByDevices == {assigned[d] : d \in Device}

Referenced == {assigned[d] : d \in Device} \cup rendered

Removable(cutoff) == {r \in stored : r <= cutoff /\ r # LatestRevision /\ r \notin Referenced}

\* The first PageSize of a set of revisions, by id.
FirstOf(S) == {r \in S : Cardinality({s \in S : s < r}) < PageSize}

Page == FirstOf({r \in stored : r > pass.cursor})

RetainPage ==
    /\ pass # Null /\ Page # {}
    /\ stored' = stored \ (Page \cap Removable(pass.cutoff))
    /\ pass' = [pass EXCEPT !.cursor = CHOOSE r \in Page : \A s \in Page : s <= r]
    /\ UNCHANGED <<draft, revision, count, commands, assigned, rendered, call, asked, aged>>

(* Mutant: a pass is done when its pages are. *)
NoStragglers == {}

\* What became removable behind the cursor: the probe before a pass is done.
Stragglers == FirstOf(Removable(pass.cutoff))

RetainStragglers ==
    /\ pass # Null /\ Page = {}
    /\ stored' = stored \ Stragglers
    /\ pass' = IF Stragglers = {} THEN Null ELSE pass
    /\ UNCHANGED <<draft, revision, count, commands, assigned, rendered, call, asked, aged>>

------------------------------------------------------------------------------
PublishNext ==
    \/ Save \/ EditWidget \/ Delete
    \/ \E c \in Call : \E k \in Key : Send(c, k) \/ Retry(c, k)
    \/ \E c \in Call : Look(c) \/ ReadDraft(c) \/ Render(c) \/ Commit(c) \/ GiveUp(c)
    \/ \E d \in Device : RequestRender(d) \/ \E r \in stored \cup {Null} : Assign(d, r)
    \/ Age \/ StartPass \/ RetainPage \/ RetainStragglers

PublishSpec == PublishInit /\ [][PublishNext]_publishVars

------------------------------------------------------------------------------
(* Receipts, pointers and what is being handled are well formed.               *)
PublishTypeOK ==
    /\ draft \in Content \cup {Null}
    /\ revision \in [1 .. MaxRevision -> Snapshot \cup {Null}]
    /\ count \in 0 .. MaxRevision
    /\ stored \subseteq 1 .. count /\ rendered \subseteq 1 .. count
    /\ \A n \in 1 .. count : revision[n] # Null
    /\ commands \in [Key -> [request : Request, result : 1 .. count] \cup {Null}]
    /\ call \in [Call -> Handling \cup {Null}]
    /\ asked \in [Key -> Request \cup {Null}]
    /\ assigned \in [Device -> 1 .. count \cup {Null}]
    /\ aged \in 0 .. count
    /\ pass \in [cutoff : 0 .. count, cursor : 0 .. count] \cup {Null}

(* A key publishes once, and of the commands that started from one revision one *)
(* wins, however commands overlap, are repeated, or meet retention, which must  *)
(* not make a number free again (publish.service.ts, lines 55 and 59).          *)
PublishedOnce ==
    \A m, n \in 1 .. count :
        \/ revision[m].key = revision[n].key
        \/ revision[m].expected = revision[n].expected
        => m = n

(* What is published is the design that its author saw when publishing: the     *)
(* stored design and the rendered image both show it ("Draft changed; reload    *)
(* before publishing", publish.service.ts, lines 66 and 289).                   *)
PublishedAsSeen ==
    \A n \in 1 .. count :
        revision[n].design = revision[n].seen /\ revision[n].image = revision[n].seen

(* Retention never takes the latest revision or one that a device is to show or *)
(* a render request refers to, whatever is assigned while a pass runs           *)
(* (PUBLICATION_RETENTION_POLICY).                                              *)
ReferencedKept ==
    /\ rendered \cup {assigned[d] : d \in Device} \subseteq stored \cup {Null}
    /\ count > 0 => count \in stored

(* When a pass is done nothing is left that it was to delete, although          *)
(* assignments move behind its cursor while it runs                             *)
(* (publication-cleanup.service.ts, lines 144-147).                             *)
EndsClean ==
    \A cutoff \in 0 .. count :
        pass # Null /\ pass.cutoff = cutoff /\ pass' = Null => Removable(cutoff)' = {}

CleanWhenDone == [][EndsClean]_publishVars
=================================================================================
