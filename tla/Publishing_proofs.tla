--------------------------- MODULE Publishing_proofs ---------------------------
(***************************************************************************)
(* Theorems about Publishing, for every number of keys, requests, devices,  *)
(* revisions, saves and passes of retention.                                *)
(***************************************************************************)
EXTENDS Publishing, TLAPS, FiniteSetTheorems, WellFoundedInduction

-----------------------------------------------------------------------------
(* The types; a request has read what its next step needs; and what makes the *)
(* numbers grow: the latest revision is kept.                                 *)
CallsTyped(C) ==
    /\ C \in [Call -> Handling \cup {Null}]
    /\ \A c \in Call : C[c] # Null =>
          /\ C[c].pc \in {"render", "commit"} => C[c].design \in Content
          /\ C[c].pc = "commit" => C[c].image \in Content

TypeInv ==
    /\ PublishTypeOK
    /\ CallsTyped(call)
    /\ count > 0 => count \in stored

(* Sets of numbers have least elements, bounded ones greatest ones. *)
LEMMA LeastIn ==
    ASSUME NEW S, S \subseteq Nat, S # {}
    PROVE  \E x \in S : \A y \in S : x <= y
<1>1. PICK x \in S : \A y \in S : <<y, x>> \notin OpToRel(<, Nat)
  BY NatLessThanWellFounded, WFMin, Zenon
<1>2. \A y \in S : ~(y < x)
  BY <1>1, Zenon DEF OpToRel
<1> QED BY <1>2

LEMMA GreatestIn ==
    ASSUME NEW n \in Nat, NEW S, S \subseteq 0 .. n, S # {}
    PROVE  \E x \in S : \A y \in S : y <= x
<1> DEFINE T == {n - x : x \in S}
<1>1. T \subseteq Nat /\ T # {}
  <2>1. \A x \in S : n - x \in Nat
    OBVIOUS
  <2> QED BY <2>1, Zenon
<1>2. PICK t \in T : \A u \in T : t <= u
  BY <1>1, LeastIn
<1>3. PICK x \in S : t = n - x
  OBVIOUS
<1>4. \A y \in S : n - x <= n - y
  BY <1>2, <1>3
<1> QED BY <1>4

(* A batch of something is something. *)
LEMMA FirstOfSome ==
    ASSUME NEW S, S \subseteq Nat, S # {}, PageSize \in Nat \ {0}
    PROVE  FirstOf(S) # {}
<1>1. PICK x \in S : \A y \in S : x <= y
  BY LeastIn
<1>2. \A s \in S : ~(s < x)
  BY <1>1
<1>3. {s \in S : s < x} = {}
  BY <1>2, Zenon
<1>4. Cardinality({s \in S : s < x}) = 0
  BY <1>3, FS_EmptySet
<1> QED BY <1>4 DEF FirstOf

(* The latest revision is the last that was published. *)
LEMMA LatestIsLast ==
    ASSUME count \in Nat, stored \subseteq 1 .. count, count > 0 => count \in stored
    PROVE  LatestRevision = count
<1>1. count \in stored \cup {0} /\ \A s \in stored : s <= count
  OBVIOUS
<1>2. \A r \in stored \cup {0} : (\A s \in stored : s <= r) => r = count
  OBVIOUS
<1> QED BY <1>1, <1>2 DEF LatestRevision

(* What retention takes is neither the latest nor in use. *)
LEMMA TakesOnlyRemovable ==
    ASSUME NEW S, S \subseteq Removable(pass.cutoff), TypeInv
    PROVE  /\ count > 0 => count \in stored \ S
           /\ \A d \in Device : assigned[d] \notin S
           /\ rendered \cap S = {}
<1>1. LatestRevision = count
  BY LatestIsLast DEF TypeInv, PublishTypeOK
<1> QED BY <1>1 DEF Removable, Referenced, TypeInv, PublishTypeOK

(* A batch is taken from what it is a batch of. *)
LEMMA FirstAreIn == ASSUME NEW S PROVE FirstOf(S) \subseteq S
BY DEF FirstOf

(* A page moves the cursor of its pass. *)
LEMMA CursorMoves ==
    ASSUME TypeInv, RetainPage
    PROVE  pass' \in [cutoff : 0 .. count, cursor : 0 .. count]
<1>1. Page \subseteq 0 .. count /\ Page # {} /\ count \in Nat
  <2>1. Page \subseteq stored
    BY FirstAreIn DEF Page
  <2> QED BY <2>1 DEF RetainPage, TypeInv, PublishTypeOK
<1>2. \E r \in Page : \A s \in Page : s <= r
  BY <1>1, GreatestIn
<1> DEFINE x == CHOOSE r \in Page : \A s \in Page : s <= r
<1>3. x \in 0 .. count
  BY <1>1, <1>2
<1>4. pass' = [pass EXCEPT !.cursor = x] /\ pass \in [cutoff : 0 .. count, cursor : 0 .. count]
  BY DEF RetainPage, TypeInv, PublishTypeOK
<1> HIDE DEF x
<1> QED BY <1>3, <1>4

LEMMA TypeInvInit == ASSUME Sizes, Nothing, PublishInit PROVE TypeInv
BY DEF Sizes, Nothing, PublishInit, TypeInv, PublishTypeOK, CallsTyped, Content

LEMMA TypeInvStep ==
    ASSUME Sizes, Nothing, TypeInv, [PublishNext]_publishVars
    PROVE  TypeInv'
<1> USE DEF Sizes, TypeInv, PublishTypeOK, CallsTyped
<1>1. LatestRevision = count
  BY LatestIsLast
<1>2. CASE Save \/ EditWidget \/ Delete
  BY <1>2 DEF Save, EditWidget, Delete, published, Content
<1>3. ASSUME NEW c \in Call, NEW k \in Key, NEW q \in Request, Arrive(c, k, q), UNCHANGED asked
      PROVE  TypeInv'
  BY <1>3 DEF Arrive, published, Handling
<1>4. ASSUME NEW c \in Call, NEW k \in Key, Send(c, k)
      PROVE  TypeInv'
  <2>1. PICK targets \in SUBSET Device :
          /\ Arrive(c, k, [expected |-> LatestRevision, seen |-> draft, devices |-> targets])
          /\ asked' = [asked EXCEPT ![k] = IF @ = Null
                THEN [expected |-> LatestRevision, seen |-> draft, devices |-> targets] ELSE @]
    BY <1>4 DEF Send
  <2>2. [expected |-> LatestRevision, seen |-> draft, devices |-> targets] \in Request
    BY <1>1, <1>4 DEF Send, Request
  <2> DEFINE q == [expected |-> LatestRevision, seen |-> draft, devices |-> targets]
  <2>3. q \in Request /\ Arrive(c, k, q) /\ asked' = [asked EXCEPT ![k] = IF @ = Null THEN q ELSE @]
    BY <2>1, <2>2
  <2> HIDE DEF q
  <2> QED BY <2>3 DEF Arrive, published, Handling
<1>5. ASSUME NEW c \in Call, NEW k \in Key, Retry(c, k)
      PROVE  TypeInv'
  BY <1>3, <1>5 DEF Retry
<1>6. ASSUME NEW c \in Call, Look(c) \/ ReadDraft(c) \/ Render(c) \/ GiveUp(c)
      PROVE  TypeInv'
  <2>1. call[c] \in Handling
    BY <1>6 DEF Look, ReadDraft, Render, GiveUp, AtStep
  <2>3. CallsTyped(call) /\ draft \in Content \cup {Null}
    OBVIOUS
  <2>2. CallsTyped(call')
    <3>1. CASE Look(c)
      BY ONLY <2>1, <2>3, <3>1 DEF Look, Answer, Handling, CallsTyped
    <3>2. CASE ReadDraft(c)
      BY ONLY <2>1, <2>3, <3>2 DEF ReadDraft, Answer, Handling, Unchanged, CallsTyped
    <3>3. CASE Render(c)
      <4>1. CASE draft = Null
        BY <3>3, <4>1 DEF Render, Answer
      <4>2. CASE draft # Null
        <5>1. call' = [call EXCEPT ![c] = [call[c] EXCEPT !.pc = "commit", !.image = draft]]
          BY <3>3, <4>2, Zenon DEF Render
        <5>2. call[c].pc = "render"
          BY <3>3 DEF Render, AtStep
        <5>3. [call[c] EXCEPT !.pc = "commit", !.image = draft] \in Handling
          BY <2>1, <4>2 DEF Handling
        <5> DEFINE new == [call[c] EXCEPT !.pc = "commit", !.image = draft]
        <5>4. new.pc = "commit" /\ new.image \in Content /\ new.design \in Content
          BY <2>1, <4>2, <5>2 DEF Handling, Nothing
        <5>5. new \in Handling /\ call' = [call EXCEPT ![c] = new]
          BY <5>1, <5>3
        <5> HIDE DEF new
        <5> QED BY <5>4, <5>5
      <4> QED BY <4>1, <4>2
    <3>4. CASE GiveUp(c)
      BY <3>4 DEF GiveUp, Answer
    <3> QED BY <1>6, <3>1, <3>2, <3>3, <3>4
  <2> QED BY <1>6, <2>2 DEF Look, ReadDraft, Render, GiveUp, published
<1>7. ASSUME NEW c \in Call, Commit(c)
      PROVE  TypeInv'
  <2>1. call[c] \in Handling
    BY <1>7 DEF Commit, AtStep
  <2>2. CallsTyped(call')
    BY <1>7 DEF Commit, Answer
  <2>3. CASE ~MayPublish(call[c].key, call[c].request)
    <3>1. UNCHANGED published /\ UNCHANGED <<draft, asked, aged, pass>>
      BY <1>7, <2>3, Zenon DEF Commit
    <3> QED BY <2>2, <3>1 DEF published
  <2>4. CASE MayPublish(call[c].key, call[c].request)
    <3> DEFINE q == call[c].request
               n == count + 1
               made == [key |-> call[c].key, expected |-> q.expected, seen |-> q.seen,
                        design |-> call[c].design, image |-> call[c].image]
               answer == [request |-> q, result |-> n]
    <3>1. /\ n <= MaxRevision
          /\ revision' = [revision EXCEPT ![n] = made]
          /\ count' = n
          /\ stored' = stored \cup {n}
          /\ commands' = [commands EXCEPT ![call[c].key] = answer]
          /\ assigned' = [d \in Device |-> IF d \in q.devices THEN n ELSE assigned[d]]
          /\ UNCHANGED <<rendered, draft, asked, aged, pass>>
      BY <1>1, <1>7, <2>4, Zenon DEF Commit
    <3>2. made \in Snapshot
      BY <1>7, <2>1 DEF Commit, AtStep, Handling, Request, Snapshot
    <3>3. answer \in [request : Request, result : 1 .. count']
      BY <2>1, <3>1 DEF Handling
    <3>10. made # Null
      BY <3>2 DEF Nothing
    <3> HIDE DEF made, answer
    <3>11. \A m \in 1 .. count' : revision'[m] # Null
      BY <3>1, <3>10
    <3>12. commands \in [Key -> [request : Request, result : 1 .. count'] \cup {Null}]
      BY <3>1
    <3>4. n <= MaxRevision /\ count' = n /\ stored' = stored \cup {n}
      BY <3>1
    <3>5. stored' \subseteq 1 .. count' /\ count' \in stored' /\ count' \in 0 .. MaxRevision
      BY ONLY <3>4, count \in 0 .. MaxRevision, MaxRevision \in Nat, stored \subseteq 1 .. count
    <3>6. assigned' \in [Device -> 1 .. count' \cup {Null}]
      BY <3>1
    <3>7. rendered' \subseteq 1 .. count' /\ aged' \in 0 .. count'
      BY <3>1
    <3>8. revision' \in [1 .. MaxRevision -> Snapshot \cup {Null}]
      BY <3>1, <3>2
    <3>9. commands' \in [Key -> [request : Request, result : 1 .. count'] \cup {Null}]
      BY <3>1, <3>3, <3>12
    <3>13. pass' \in [cutoff : 0 .. count', cursor : 0 .. count'] \cup {Null}
      BY <3>1
    <3> QED BY <3>11, <3>13, <2>2, <3>1, <3>5, <3>6, <3>7, <3>8, <3>9
  <2> QED BY <2>3, <2>4
<1>8. ASSUME NEW d \in Device, NEW r \in stored \cup {Null}, Assign(d, r)
      PROVE  TypeInv'
  BY <1>8 DEF Assign
<1>9. ASSUME NEW d \in Device, RequestRender(d)
      PROVE  TypeInv'
  BY <1>9 DEF RequestRender
<1>10. CASE Age
  BY <1>10 DEF Age, published
<1>14. CASE StartPass
  BY <1>14 DEF StartPass, published
<1>11. CASE RetainPage
  <2>1. stored' = stored \ (Page \cap Removable(pass.cutoff)) /\ pass # Null /\ Page # {}
    BY <1>11 DEF RetainPage
  <2>2. count > 0 => count \in stored'
    BY <2>1, TakesOnlyRemovable
  <2>3. pass' \in [cutoff : 0 .. count, cursor : 0 .. count]
    BY <1>11, CursorMoves
  <2> QED BY <1>11, <2>1, <2>2, <2>3 DEF RetainPage
<1>12. CASE RetainStragglers
  <2>1. stored' = stored \ Stragglers /\ pass' \in {pass, Null}
    BY <1>12 DEF RetainStragglers
  <2>2. count > 0 => count \in stored'
    BY <2>1, TakesOnlyRemovable, FirstAreIn DEF Stragglers
  <2> QED BY <1>12, <2>1, <2>2 DEF RetainStragglers
<1>13. CASE UNCHANGED publishVars
  BY <1>13 DEF publishVars
<1> QED
  BY <1>2, <1>4, <1>5, <1>6, <1>7, <1>8, <1>9, <1>10, <1>11, <1>12, <1>13, <1>14 DEF PublishNext

-----------------------------------------------------------------------------
(* A step that publishes: number, key and what is stored (publish).           *)
Published(c) ==
    LET k == call[c].key
        q == call[c].request
    IN  /\ call[c] \in Handling /\ call[c].pc = "commit"
        /\ MayPublish(k, q)
        /\ count' = count + 1 /\ count' <= MaxRevision
        /\ revision' = [revision EXCEPT ![count'] =
               [key |-> k, expected |-> q.expected, seen |-> q.seen,
                design |-> call[c].design, image |-> call[c].image]]
        /\ commands' = [commands EXCEPT ![k] = [request |-> q, result |-> count']]

(* Every other step leaves revisions and receipts as they are. *)
LEMMA OnlyCommitsPublish ==
    ASSUME TypeInv, [PublishNext]_publishVars
    PROVE  \/ UNCHANGED <<revision, count, commands>>
           \/ \E c \in Call : Published(c)
<1>1. LatestRevision = count
  BY LatestIsLast DEF TypeInv, PublishTypeOK
<1>2. ASSUME NEW c \in Call, Commit(c), MayPublish(call[c].key, call[c].request)
      PROVE  Published(c)
  <2>1. call[c] \in Handling /\ call[c].pc = "commit"
    BY <1>2 DEF Commit, AtStep, TypeInv, PublishTypeOK, CallsTyped
  <2> DEFINE n == count + 1
  <2>2. /\ n <= MaxRevision
        /\ count' = n
        /\ revision' = [revision EXCEPT ![n] =
               [key |-> call[c].key, expected |-> call[c].request.expected,
                seen |-> call[c].request.seen,
                design |-> call[c].design, image |-> call[c].image]]
        /\ commands' = [commands EXCEPT ![call[c].key] = [request |-> call[c].request, result |-> n]]
    BY <1>1, <1>2, Zenon DEF Commit
  <2> HIDE DEF n
  <2> QED BY <1>2, <2>1, <2>2 DEF Published, n
<1>3. ASSUME NEW c \in Call, Commit(c), ~MayPublish(call[c].key, call[c].request)
      PROVE  UNCHANGED <<revision, count, commands>>
  <2>1. UNCHANGED published
    BY <1>3, Zenon DEF Commit
  <2> QED BY <2>1 DEF published
<1>4. ASSUME NEW c \in Call, NEW k \in Key, Send(c, k) \/ Retry(c, k)
      PROVE  UNCHANGED <<revision, count, commands>>
  BY <1>4 DEF Send, Retry, Arrive, published
<1>5. ASSUME NEW c \in Call, Look(c) \/ ReadDraft(c) \/ Render(c) \/ GiveUp(c)
      PROVE  UNCHANGED <<revision, count, commands>>
  BY <1>5 DEF Look, ReadDraft, Render, GiveUp, published
<1>6. ASSUME NEW d \in Device, NEW r, Assign(d, r) \/ RequestRender(d)
      PROVE  UNCHANGED <<revision, count, commands>>
  BY <1>6 DEF Assign, RequestRender
<1>7. CASE \/ Save \/ EditWidget \/ Delete \/ Age \/ StartPass
           \/ RetainPage \/ RetainStragglers \/ UNCHANGED publishVars
  BY <1>7 DEF Save, EditWidget, Delete, Age, StartPass, RetainPage, RetainStragglers, publishVars,
              published
<1> QED
  BY <1>2, <1>3, <1>4, <1>5, <1>6, <1>7 DEF PublishNext

(* Revision n was published by a command that started from n - 1, and the key *)
(* of each has a receipt.                                                     *)
OnceInv ==
    /\ \A n \in 1 .. count :
          /\ revision[n].expected = n - 1
          /\ revision[n].key \in Key /\ commands[revision[n].key] # Null
    /\ \A m, n \in 1 .. count : revision[m].key = revision[n].key => m = n

LEMMA OnceInvInit == ASSUME PublishInit PROVE OnceInv
BY DEF PublishInit, OnceInv

LEMMA OnceInvStep ==
    ASSUME Sizes, Nothing, TypeInv, OnceInv, [PublishNext]_publishVars
    PROVE  OnceInv'
<1>1. CASE UNCHANGED <<revision, count, commands>>
  BY <1>1 DEF OnceInv
<1>2. ASSUME NEW c \in Call, Published(c)
      PROVE  OnceInv'
  <2> DEFINE k == call[c].key
             q == call[c].request
             n == count + 1
             made == [key |-> k, expected |-> q.expected, seen |-> q.seen,
                      design |-> call[c].design, image |-> call[c].image]
             answer == [request |-> q, result |-> n]
  <2>1. /\ k \in Key /\ q \in Request /\ n \in 1 .. MaxRevision
        /\ commands[k] = Null /\ LatestRevision = q.expected
        /\ count' = n /\ revision' = [revision EXCEPT ![n] = made]
        /\ commands' = [commands EXCEPT ![k] = answer]
    BY <1>2 DEF Published, Handling, MayPublish, TypeInv, PublishTypeOK, Sizes
  <2>2. q.expected = count
    BY <2>1, LatestIsLast DEF TypeInv, PublishTypeOK
  <2>3. made.key = k /\ made.expected = count
    BY <2>2
  <2>4. answer # Null
    <3>1. answer \in Receipt
      BY <2>1 DEF Receipt, TypeInv, PublishTypeOK
    <3> QED BY <3>1 DEF Nothing
  <2>5. revision'[n] = made /\ \A m \in 1 .. count : revision'[m] = revision[m]
    BY <2>1 DEF TypeInv, PublishTypeOK
  <2>6. commands'[k] = answer /\ \A j \in Key \ {k} : commands'[j] = commands[j]
    BY <2>1 DEF TypeInv, PublishTypeOK
  <2>7. \A m \in 1 .. count : revision[m].key # k
    BY <2>1 DEF OnceInv
  <2>8. 1 .. count' = (1 .. count) \cup {n} /\ n \notin 1 .. count
    BY <2>1 DEF TypeInv, PublishTypeOK
  <2> HIDE DEF k, q, n, made, answer
  <2>9. n - 1 = count
    BY DEF n, TypeInv, PublishTypeOK
  <2>10. \A m \in 1 .. count' :
           /\ revision'[m].expected = m - 1
           /\ revision'[m].key \in Key /\ commands'[revision'[m].key] # Null
    BY <2>1, <2>3, <2>4, <2>5, <2>6, <2>7, <2>8, <2>9 DEF OnceInv
  <2>11. \A m, l \in 1 .. count' : revision'[m].key = revision'[l].key => m = l
    BY <2>3, <2>5, <2>7, <2>8 DEF OnceInv
  <2> QED BY <2>10, <2>11 DEF OnceInv
<1> QED BY <1>1, <1>2, OnlyCommitsPublish

(* A key publishes once, and of the commands that started from one revision    *)
(* one wins, for any number of overlapping and repeated commands, saves and    *)
(* passes of retention (publish).                                              *)
THEOREM OncePublished == PublishSpec => []PublishedOnce
<1>. USE PublishAssumption
<1>1. PublishInit => TypeInv /\ OnceInv
  BY TypeInvInit, OnceInvInit
<1>2. TypeInv /\ OnceInv /\ [PublishNext]_publishVars => (TypeInv /\ OnceInv)'
  BY TypeInvStep, OnceInvStep
<1>3. TypeInv /\ OnceInv => PublishedOnce
  <2> SUFFICES ASSUME TypeInv, OnceInv, NEW m \in 1 .. count, NEW n \in 1 .. count,
                      \/ revision[m].key = revision[n].key
                      \/ revision[m].expected = revision[n].expected
               PROVE  m = n
    BY DEF PublishedOnce
  <2>1. m - 1 = n - 1 \/ revision[m].key = revision[n].key
    BY DEF OnceInv
  <2> QED BY <2>1 DEF OnceInv, TypeInv, PublishTypeOK
<1> QED BY <1>1, <1>2, <1>3, PTL DEF PublishSpec

-----------------------------------------------------------------------------
(* Receipts, pointers, commands and passes stay well formed: numbers are those *)
(* of revisions that were published.                                          *)
THEOREM PublishingTyped == PublishSpec => []PublishTypeOK
<1>. USE PublishAssumption
<1>1. PublishInit => TypeInv
  BY TypeInvInit
<1>2. TypeInv /\ [PublishNext]_publishVars => TypeInv'
  BY TypeInvStep
<1>3. TypeInv => PublishTypeOK
  BY DEF TypeInv
<1> QED BY <1>1, <1>2, <1>3, PTL DEF PublishSpec

-----------------------------------------------------------------------------
(* Retention. *)
LEMMA ReferencedKeptStep ==
    ASSUME Sizes, TypeInv, ReferencedKept, [PublishNext]_publishVars, TypeInv'
    PROVE  ReferencedKept'
<1> DEFINE Kept == rendered \cup {assigned[d] : d \in Device} \subseteq stored \cup {Null}
<1>1. Kept /\ (count > 0 => count \in stored)'
  BY DEF ReferencedKept, TypeInv
<1>2. LatestRevision = count
  BY LatestIsLast DEF TypeInv, PublishTypeOK
<1>3. CASE UNCHANGED <<stored, assigned, rendered>>
  BY <1>1, <1>3 DEF ReferencedKept
<1>4. CASE Save \/ EditWidget \/ Delete \/ Age \/ StartPass \/ UNCHANGED publishVars
  BY <1>3, <1>4 DEF Save, EditWidget, Delete, Age, StartPass, published, publishVars
<1>5. ASSUME NEW c \in Call, NEW k \in Key, Send(c, k) \/ Retry(c, k)
      PROVE  ReferencedKept'
  BY <1>3, <1>5 DEF Send, Retry, Arrive, published
<1>6. ASSUME NEW c \in Call, Look(c) \/ ReadDraft(c) \/ Render(c) \/ GiveUp(c)
      PROVE  ReferencedKept'
  BY <1>3, <1>6 DEF Look, ReadDraft, Render, GiveUp, published
<1>7. ASSUME NEW c \in Call, Commit(c)
      PROVE  ReferencedKept'
  <2>1. CASE ~MayPublish(call[c].key, call[c].request)
    <3>1. UNCHANGED published
      BY <1>7, <2>1, Zenon DEF Commit
    <3> QED BY <1>3, <3>1 DEF published
  <2>2. CASE MayPublish(call[c].key, call[c].request)
    <3> DEFINE q == call[c].request
               n == count + 1
    <3>1. /\ stored' = stored \cup {n} /\ rendered' = rendered
          /\ assigned' = [d \in Device |-> IF d \in q.devices THEN n ELSE assigned[d]]
      BY <1>2, <1>7, <2>2, Zenon DEF Commit
    <3> HIDE DEF q, n
    <3>2. \A d \in Device : assigned'[d] \in {n, assigned[d]}
      BY <3>1
    <3> QED BY <1>1, <3>1, <3>2 DEF ReferencedKept
  <2> QED BY <2>1, <2>2
<1>8. ASSUME NEW d \in Device, NEW r \in stored \cup {Null}, Assign(d, r) \/ RequestRender(d)
      PROVE  ReferencedKept'
  <2>1. \A e \in Device : assigned'[e] \in stored \cup {Null}
    BY <1>1, <1>8 DEF Assign, RequestRender, TypeInv, PublishTypeOK
  <2>2. rendered' \subseteq stored \cup {Null} /\ stored' = stored
    BY <1>1, <1>8 DEF Assign, RequestRender, TypeInv, PublishTypeOK
  <2> QED BY <1>1, <2>1, <2>2 DEF ReferencedKept
<1>9. ASSUME NEW S, S \subseteq Removable(pass.cutoff), stored' = stored \ S,
             UNCHANGED <<assigned, rendered>>
      PROVE  ReferencedKept'
  BY <1>1, <1>9, TakesOnlyRemovable DEF ReferencedKept
<1>10. CASE RetainPage
  BY <1>9, <1>10 DEF RetainPage
<1>11. CASE RetainStragglers
  <2>1. Stragglers \subseteq Removable(pass.cutoff)
    BY FirstAreIn DEF Stragglers
  <2> QED BY <1>9, <1>11, <2>1 DEF RetainStragglers
<1>12. ASSUME NEW d \in Device, RequestRender(d)
       PROVE  ReferencedKept'
  BY <1>8, <1>12
<1> QED
  BY <1>4, <1>5, <1>6, <1>7, <1>8, <1>10, <1>11, <1>12 DEF PublishNext

(* Retention never takes the latest revision or one that a device is to show   *)
(* or a render request refers to, for any number of devices and pages, and     *)
(* whatever is assigned while a pass runs (PUBLICATION_RETENTION_POLICY).      *)
THEOREM RetentionSafe == PublishSpec => []ReferencedKept
<1>. USE PublishAssumption
<1>1. PublishInit => TypeInv /\ ReferencedKept
  BY TypeInvInit DEF PublishInit, ReferencedKept
<1>2. TypeInv /\ ReferencedKept /\ [PublishNext]_publishVars => (TypeInv /\ ReferencedKept)'
  BY TypeInvStep, ReferencedKeptStep
<1> QED BY <1>1, <1>2, PTL DEF PublishSpec

(* A pass that ends has nothing left to delete, for every size of a page:      *)
(* only the probe ends it, and a probe that finds nothing to take has found    *)
(* that there is nothing (publication-cleanup.service.ts, lines 144-147).      *)
THEOREM PassEndsClean == PublishSpec => CleanWhenDone
<1>. USE PublishAssumption
<1>1. PublishInit => TypeInv
  BY TypeInvInit
<1>2. TypeInv /\ [PublishNext]_publishVars => TypeInv'
  BY TypeInvStep
<1>3. TypeInv /\ [PublishNext]_publishVars => EndsClean
  <2> SUFFICES ASSUME TypeInv, [PublishNext]_publishVars, pass # Null, pass' = Null,
                      NEW cutoff \in 0 .. count, pass.cutoff = cutoff
               PROVE  Removable(cutoff)' = {}
    BY DEF EndsClean
  <2>1. RetainStragglers
    <3>1. CASE RetainPage
      <4>1. Null \notin [cutoff : 0 .. count, cursor : 0 .. count]
        BY DEF Nothing, Passing, TypeInv, PublishTypeOK
      <4> QED BY <3>1, <4>1, CursorMoves
    <3>2. ASSUME NEW c \in Call, NEW k \in Key, Send(c, k) \/ Retry(c, k)
          PROVE  FALSE
      BY <3>2 DEF Send, Retry, Arrive
    <3>3. ASSUME NEW c \in Call, Look(c) \/ ReadDraft(c) \/ Render(c) \/ Commit(c) \/ GiveUp(c)
          PROVE  FALSE
      BY <3>3 DEF Look, ReadDraft, Render, Commit, GiveUp
    <3>4. ASSUME NEW d \in Device, NEW r, Assign(d, r) \/ RequestRender(d)
          PROVE  FALSE
      BY <3>4 DEF Assign, RequestRender
    <3>5. ~(Save \/ EditWidget \/ Delete \/ Age \/ StartPass \/ UNCHANGED publishVars)
      BY DEF Save, EditWidget, Delete, Age, StartPass, publishVars
    <3> QED BY <3>1, <3>2, <3>3, <3>4, <3>5 DEF PublishNext
  <2>2. Stragglers = {} /\ stored' = stored \ Stragglers /\ UNCHANGED <<assigned, rendered>>
    BY <2>1 DEF RetainStragglers
  <2>3. Removable(pass.cutoff) = {}
    <3>1. Removable(pass.cutoff) \subseteq Nat
      <4>1. stored \subseteq Nat
        BY DEF TypeInv, PublishTypeOK
      <4> QED BY <4>1 DEF Removable
    <3> QED BY <2>2, <3>1, FirstOfSome DEF Stragglers, Sizes
  <2>4. stored' = stored /\ assigned' = assigned /\ rendered' = rendered
    BY <2>2
  <2> QED BY <2>3, <2>4 DEF Removable, LatestRevision, Referenced
<1> QED BY <1>1, <1>2, <1>3, PTL DEF PublishSpec, CleanWhenDone

-----------------------------------------------------------------------------
(* What reading a receipt, the draft or its image does to a request. *)
Handled(c, new) ==
    /\ call' = [call EXCEPT ![c] = new]
    /\ new \in Handling /\ new.request = call[c].request
    /\ \/ new.pc = "read"
       \/ new.pc = "render" /\ Unchanged(call[c].request) /\ new.design = draft
       \/ /\ new.pc = "commit" /\ call[c].pc = "render" /\ draft # Null
          /\ new.design = call[c].design /\ new.image = draft

LEMMA HandlingStep ==
    ASSUME TypeInv, NEW c \in Call,
           Look(c) \/ ReadDraft(c) \/ Render(c) \/ Commit(c) \/ GiveUp(c)
    PROVE  /\ call[c] \in Handling /\ UNCHANGED <<draft, asked>>
           /\ Answer(c) \/ \E new \in Handling : Handled(c, new)
<1>1. call[c] \in Handling
  BY DEF Look, ReadDraft, Render, Commit, GiveUp, AtStep, TypeInv, CallsTyped
<1>2. CASE Look(c) /\ ~Answer(c)
  <2> DEFINE new == [call[c] EXCEPT !.pc = "read"]
  <2>1. call' = [call EXCEPT ![c] = new]
    BY <1>2, Zenon DEF Look
  <2>2. new \in Handling /\ new.request = call[c].request /\ new.pc = "read"
    BY <1>1 DEF Handling
  <2> HIDE DEF new
  <2> QED BY <1>1, <1>2, <2>1, <2>2 DEF Look, Handled
<1>3. CASE ReadDraft(c) /\ ~Answer(c)
  <2> DEFINE new == [call[c] EXCEPT !.pc = "render", !.design = draft]
  <2>1. call' = [call EXCEPT ![c] = new] /\ Unchanged(call[c].request)
    BY <1>3, Zenon DEF ReadDraft
  <2>2. draft \in Content
    BY <2>1 DEF Unchanged, TypeInv, PublishTypeOK
  <2>3. /\ new \in Handling /\ new.request = call[c].request
        /\ new.pc = "render" /\ new.design = draft
    BY <1>1, <2>2 DEF Handling
  <2> HIDE DEF new
  <2> QED BY <1>1, <1>3, <2>1, <2>3 DEF ReadDraft, Handled
<1>4. CASE Render(c) /\ ~Answer(c)
  <2> DEFINE new == [call[c] EXCEPT !.pc = "commit", !.image = draft]
  <2>1. call' = [call EXCEPT ![c] = new] /\ draft # Null
    BY <1>4, Zenon DEF Render
  <2>2. draft \in Content /\ call[c].pc = "render"
    BY <1>4, <2>1 DEF Render, AtStep, TypeInv, PublishTypeOK
  <2>3. /\ new \in Handling /\ new.request = call[c].request /\ new.pc = "commit"
        /\ new.design = call[c].design /\ new.image = draft
    BY <1>1, <2>2 DEF Handling
  <2> HIDE DEF new
  <2> QED BY <1>1, <1>4, <2>1, <2>2, <2>3 DEF Render, Handled
<1>5. UNCHANGED <<draft, asked>>
  BY DEF Look, ReadDraft, Render, Commit, GiveUp
<1>6. CASE Commit(c) \/ GiveUp(c)
  BY <1>1, <1>5, <1>6 DEF Commit, GiveUp
<1> QED BY <1>1, <1>2, <1>3, <1>4, <1>5, <1>6

(* A command that arrives shows what its author sees, or is an earlier one. *)
LEMMA SendStep ==
    ASSUME TypeInv, NEW c \in Call, NEW k \in Key, Send(c, k) \/ Retry(c, k)
    PROVE  \E q \in Request :
              /\ q = asked[k] \/ (draft # Null /\ q.seen = draft)
              /\ call' = [call EXCEPT ![c] = [key |-> k, request |-> q, pc |-> "look",
                                             design |-> Null, image |-> Null]]
              /\ asked' = asked \/ asked' = [asked EXCEPT ![k] = q]
              /\ draft' = draft
<1>1. CASE Retry(c, k)
  <2> DEFINE q == asked[k]
  <2>1. q \in Request
    BY <1>1 DEF Retry, TypeInv, PublishTypeOK
  <2>2. Arrive(c, k, q) /\ asked' = asked
    BY <1>1 DEF Retry
  <2>3. q = asked[k]
    OBVIOUS
  <2> HIDE DEF q
  <2>4. /\ call' = [call EXCEPT ![c] = [key |-> k, request |-> q, pc |-> "look",
                                        design |-> Null, image |-> Null]]
        /\ draft' = draft
    BY <2>2 DEF Arrive
  <2> WITNESS q \in Request
  <2> QED BY <2>2, <2>3, <2>4
<1>2. CASE Send(c, k)
  <2>1. PICK targets \in SUBSET Device :
          /\ Arrive(c, k, [expected |-> LatestRevision, seen |-> draft, devices |-> targets])
          /\ asked' = [asked EXCEPT ![k] = IF @ = Null
                THEN [expected |-> LatestRevision, seen |-> draft, devices |-> targets] ELSE @]
    BY <1>2 DEF Send
  <2> DEFINE q == [expected |-> LatestRevision, seen |-> draft, devices |-> targets]
  <2>2. LatestRevision = count
    BY LatestIsLast DEF TypeInv, PublishTypeOK
  <2>3. q \in Request /\ q.seen = draft /\ draft # Null
    BY <1>2, <2>2 DEF Send, Request, TypeInv, PublishTypeOK
  <2>4. Arrive(c, k, q) /\ asked' = [asked EXCEPT ![k] = IF @ = Null THEN q ELSE @]
    BY <2>1
  <2> HIDE DEF q
  <2>5. asked' = asked \/ asked' = [asked EXCEPT ![k] = q]
    BY <2>4 DEF TypeInv, PublishTypeOK
  <2> QED BY <2>3, <2>4, <2>5 DEF Arrive
<1> QED BY <1>1, <1>2

(* The other steps handle no request. *)
LEMMA OtherStep ==
    ASSUME [PublishNext]_publishVars
    PROVE  \/ UNCHANGED <<call, asked>>
           \/ \E c \in Call : Look(c) \/ ReadDraft(c) \/ Render(c) \/ Commit(c) \/ GiveUp(c)
           \/ \E c \in Call, k \in Key : Send(c, k) \/ Retry(c, k)
<1>1. CASE \/ Save \/ EditWidget \/ Delete \/ Age \/ StartPass
           \/ RetainPage \/ RetainStragglers \/ UNCHANGED publishVars
  BY <1>1 DEF Save, EditWidget, Delete, Age, StartPass, RetainPage, RetainStragglers, publishVars
<1>2. ASSUME NEW d \in Device, NEW r, Assign(d, r) \/ RequestRender(d)
      PROVE  UNCHANGED <<call, asked>>
  BY <1>2 DEF Assign, RequestRender
<1> QED BY <1>1, <1>2 DEF PublishNext

(* A design that was deleted does not come back, and saves draw later stamps. *)
LEMMA DraftStep ==
    ASSUME TypeInv, [PublishNext]_publishVars, draft' # Null
    PROVE  /\ draft # Null /\ draft.stamp <= draft'.stamp
           /\ draft'.edits # 0 => draft.edits # 0 \/ MaxEdits # 0
<1>1. draft # Null => draft.stamp \in Nat /\ draft.edits \in Nat
  BY DEF TypeInv, PublishTypeOK, Content
<1>2. CASE Save \/ EditWidget
  BY <1>1, <1>2 DEF Save, EditWidget, TypeInv, PublishTypeOK, Content
<1>3. CASE draft' = draft
  BY <1>1, <1>3
<1>4. CASE Delete \/ Age \/ StartPass \/ RetainPage \/ RetainStragglers \/ UNCHANGED publishVars
  BY <1>3, <1>4 DEF Delete, Age, StartPass, RetainPage, RetainStragglers, publishVars
<1>5. ASSUME NEW d \in Device, NEW r, Assign(d, r) \/ RequestRender(d)
      PROVE  draft' = draft
  BY <1>5 DEF Assign, RequestRender
<1>6. ASSUME NEW c \in Call, Look(c) \/ ReadDraft(c) \/ Render(c) \/ Commit(c) \/ GiveUp(c)
      PROVE  draft' = draft
  BY <1>6, HandlingStep
<1>7. ASSUME NEW c \in Call, NEW k \in Key, Send(c, k) \/ Retry(c, k)
      PROVE  draft' = draft
  BY <1>7, SendStep
<1> QED BY <1>2, <1>3, <1>4, <1>5, <1>6, <1>7 DEF PublishNext

(* What an author saw and what a request read is not ahead of the draft, and   *)
(* what was read agrees as far as the checks of the draft can tell.           *)
NotAhead(x, d) == d # Null => x.stamp <= d.stamp

InOrder(h, d) ==
    /\ NotAhead(h.request.seen, d)
    /\ h.pc \in {"render", "commit"} => h.design.stamp = h.request.seen.stamp
    /\ h.pc = "commit" => h.request.seen.stamp <= h.image.stamp /\ NotAhead(h.image, d)

StampsAgree ==
    \A n \in 1 .. count :
        /\ revision[n].design.stamp = revision[n].seen.stamp
        /\ revision[n].image.stamp = revision[n].seen.stamp

StampInv ==
    /\ \A k \in Key : asked[k] # Null => NotAhead(asked[k].seen, draft)
    /\ \A c \in Call : call[c] # Null => InOrder(call[c], draft)
    /\ StampsAgree

LEMMA StampInvStep ==
    ASSUME Sizes, Nothing, TypeInv, StampInv, [PublishNext]_publishVars
    PROVE  StampInv'
<1>1. \A x \in Content : NotAhead(x, draft) => NotAhead(x, draft')
  <2> SUFFICES ASSUME NEW x \in Content, NotAhead(x, draft), draft' # Null
               PROVE  x.stamp <= draft'.stamp
    BY DEF NotAhead
  <2>1. draft \in Content /\ draft' \in Content
    BY DraftStep, TypeInvStep DEF TypeInv, PublishTypeOK
  <2> QED BY <2>1, DraftStep DEF NotAhead, Content
<1>2. \A h \in Handling :
         (h.pc = "commit" => h.image \in Content) /\ InOrder(h, draft) => InOrder(h, draft')
  BY <1>1 DEF InOrder, Handling, Request
<1>3. \A c \in Call : call[c] # Null =>
         /\ call[c] \in Handling
         /\ call[c].pc = "commit" => call[c].image \in Content
         /\ call[c].pc \in {"render", "commit"} => call[c].design \in Content
  BY DEF TypeInv, CallsTyped
<1>4. \A k \in Key : asked[k] # Null => NotAhead(asked[k].seen, draft')
  BY <1>1 DEF StampInv, TypeInv, PublishTypeOK, Request
<1>5. \A c \in Call : call[c] # Null => InOrder(call[c], draft')
  BY <1>2, <1>3 DEF StampInv
<1>6. StampsAgree'
  <2>1. CASE UNCHANGED <<revision, count, commands>>
    BY <2>1 DEF StampInv, StampsAgree
  <2>2. ASSUME NEW c \in Call, Published(c)
        PROVE  StampsAgree'
    <3> DEFINE n == count + 1
               made == [key |-> call[c].key, expected |-> call[c].request.expected,
                        seen |-> call[c].request.seen,
                        design |-> call[c].design, image |-> call[c].image]
    <3>1. /\ n \in 1 .. MaxRevision /\ count' = n
          /\ revision' = [revision EXCEPT ![n] = made]
          /\ call[c] \in Handling /\ call[c].pc = "commit" /\ Unchanged(call[c].request)
      BY <2>2 DEF Published, MayPublish, TypeInv, PublishTypeOK, Sizes
    <3>2. call[c] # Null
      BY <3>1 DEF Nothing
    <3>3. InOrder(call[c], draft) /\ call[c].image \in Content /\ call[c].request.seen \in Content
      BY <1>3, <3>1, <3>2 DEF StampInv, Handling, Request
    <3>4. made.design.stamp = made.seen.stamp /\ made.image.stamp = made.seen.stamp
      <4>1. draft \in Content /\ draft # Null /\ draft.stamp = call[c].request.seen.stamp
        BY <3>1 DEF Unchanged, TypeInv, PublishTypeOK
      <4> QED BY <3>1, <3>3, <4>1 DEF InOrder, NotAhead, Content
    <3>5. revision'[n] = made /\ \A m \in 1 .. count : revision'[m] = revision[m]
      BY <3>1 DEF TypeInv, PublishTypeOK
    <3>6. 1 .. count' = (1 .. count) \cup {n}
      BY <3>1 DEF TypeInv, PublishTypeOK
    <3> HIDE DEF made, n
    <3> QED BY <3>4, <3>5, <3>6 DEF StampInv, StampsAgree
  <2> QED BY <2>1, <2>2, OnlyCommitsPublish
<1>7. CASE UNCHANGED <<call, asked>>
  BY <1>4, <1>5, <1>6, <1>7 DEF StampInv
<1>8. ASSUME NEW c \in Call, Look(c) \/ ReadDraft(c) \/ Render(c) \/ Commit(c) \/ GiveUp(c)
      PROVE  StampInv'
  <2>1. call[c] \in Handling /\ call[c] # Null /\ asked' = asked /\ draft' = draft
    BY <1>8, HandlingStep DEF Nothing
  <2>2. CASE Answer(c)
    BY <1>4, <1>5, <1>6, <2>1, <2>2 DEF StampInv, Answer, TypeInv, PublishTypeOK
  <2>3. ASSUME NEW new \in Handling, Handled(c, new)
        PROVE  StampInv'
    <3>1. InOrder(call[c], draft) /\ call[c].request.seen \in Content
      BY <2>1 DEF StampInv, Handling, Request
    <3>2. InOrder(new, draft')
      BY <2>1, <2>3, <3>1 DEF Handled, InOrder, NotAhead, Unchanged, Content, TypeInv, PublishTypeOK
    <3> QED BY <1>4, <1>5, <1>6, <2>1, <2>3, <3>2 DEF StampInv, Handled, TypeInv, PublishTypeOK
  <2> QED BY <1>8, <2>2, <2>3, HandlingStep
<1>9. ASSUME NEW c \in Call, NEW k \in Key, Send(c, k) \/ Retry(c, k)
      PROVE  StampInv'
  <2> DEFINE made(q) == [key |-> k, request |-> q, pc |-> "look",
                         design |-> Null, image |-> Null]
  <2>1. PICK q \in Request :
          /\ q = asked[k] \/ (draft # Null /\ q.seen = draft)
          /\ call' = [call EXCEPT ![c] = made(q)]
          /\ asked' = asked \/ asked' = [asked EXCEPT ![k] = q]
          /\ draft' = draft
    BY <1>9, SendStep
  <2>2. q # Null /\ q.seen \in Content
    BY DEF Nothing, Request
  <2>3. NotAhead(q.seen, draft')
    BY <1>4, <2>1, <2>2 DEF NotAhead, Content
  <2>4. made(q).request = q /\ made(q).pc = "look"
    OBVIOUS
  <2> HIDE DEF made
  <2>5. InOrder(made(q), draft')
    BY <2>3, <2>4 DEF InOrder
  <2> QED BY <1>4, <1>5, <1>6, <2>1, <2>3, <2>5 DEF StampInv, TypeInv, PublishTypeOK
<1> QED BY <1>7, <1>8, <1>9, OtherStep

LEMMA StampInvInit == ASSUME PublishInit PROVE StampInv
BY DEF PublishInit, StampInv, StampsAgree

(* The updatedAt that the checks of the draft compare is that of the design    *)
(* the author saw, for the stored design and for the rendered image, for any   *)
(* number of saves, edits and overlapping commands (publish.service.ts, lines  *)
(* 66 and 289).                                                                *)
THEOREM StampsPublished == PublishSpec => []StampsAgree
<1>. USE PublishAssumption
<1>1. PublishInit => TypeInv /\ StampInv
  BY TypeInvInit, StampInvInit
<1>2. TypeInv /\ StampInv /\ [PublishNext]_publishVars => (TypeInv /\ StampInv)'
  BY TypeInvStep, StampInvStep
<1>3. StampInv => StampsAgree
  BY DEF StampInv
<1> QED BY <1>1, <1>2, <1>3, PTL DEF PublishSpec

(* Without edits of single widgets every content is that of a save. *)
Saved(h) ==
    /\ h.request.seen.edits = 0
    /\ h.pc \in {"render", "commit"} => h.design.edits = 0
    /\ h.pc = "commit" => h.image.edits = 0

EachSaved ==
    \A n \in 1 .. count :
        /\ revision[n].seen.edits = 0
        /\ revision[n].design.edits = 0 /\ revision[n].image.edits = 0

SavedInv ==
    /\ draft # Null => draft.edits = 0
    /\ \A k \in Key : asked[k] # Null => asked[k].seen.edits = 0
    /\ \A c \in Call : call[c] # Null => Saved(call[c])
    /\ EachSaved

LEMMA SavedInvStep ==
    ASSUME Sizes, Nothing, MaxEdits = 0, TypeInv, SavedInv, [PublishNext]_publishVars
    PROVE  SavedInv'
<1>1. draft' # Null => draft'.edits = 0
  BY DraftStep DEF SavedInv
<1>2. EachSaved'
  <2>1. CASE UNCHANGED <<revision, count, commands>>
    BY <2>1 DEF SavedInv, EachSaved
  <2>2. ASSUME NEW c \in Call, Published(c)
        PROVE  EachSaved'
    <3> DEFINE n == count + 1
               made == [key |-> call[c].key, expected |-> call[c].request.expected,
                        seen |-> call[c].request.seen,
                        design |-> call[c].design, image |-> call[c].image]
    <3>1. /\ n \in 1 .. MaxRevision /\ count' = n
          /\ revision' = [revision EXCEPT ![n] = made]
          /\ call[c] \in Handling /\ call[c].pc = "commit"
      BY <2>2 DEF Published, TypeInv, PublishTypeOK, Sizes
    <3>2. Saved(call[c])
      BY <3>1 DEF Nothing, SavedInv
    <3>3. made.seen.edits = 0 /\ made.design.edits = 0 /\ made.image.edits = 0
      BY <3>1, <3>2 DEF Saved
    <3>4. revision'[n] = made /\ \A m \in 1 .. count : revision'[m] = revision[m]
      BY <3>1 DEF TypeInv, PublishTypeOK
    <3>5. 1 .. count' = (1 .. count) \cup {n}
      BY <3>1 DEF TypeInv, PublishTypeOK
    <3> HIDE DEF made, n
    <3> QED BY <3>3, <3>4, <3>5 DEF SavedInv, EachSaved
  <2> QED BY <2>1, <2>2, OnlyCommitsPublish
<1>3. CASE UNCHANGED <<call, asked>>
  BY <1>1, <1>2, <1>3 DEF SavedInv
<1>4. ASSUME NEW c \in Call, Look(c) \/ ReadDraft(c) \/ Render(c) \/ Commit(c) \/ GiveUp(c)
      PROVE  SavedInv'
  <2>1. call[c] \in Handling /\ call[c] # Null /\ asked' = asked
    BY <1>4, HandlingStep DEF Nothing
  <2>2. CASE Answer(c)
    BY <1>1, <1>2, <2>1, <2>2 DEF SavedInv, Answer, TypeInv, PublishTypeOK
  <2>3. ASSUME NEW new \in Handling, Handled(c, new)
        PROVE  SavedInv'
    <3>1. Saved(new)
      BY <2>1, <2>3 DEF Handled, Saved, SavedInv, Unchanged
    <3> QED BY <1>1, <1>2, <2>1, <2>3, <3>1 DEF SavedInv, Handled, TypeInv, PublishTypeOK
  <2> QED BY <1>4, <2>2, <2>3, HandlingStep
<1>5. ASSUME NEW c \in Call, NEW k \in Key, Send(c, k) \/ Retry(c, k)
      PROVE  SavedInv'
  <2> DEFINE made(q) == [key |-> k, request |-> q, pc |-> "look",
                         design |-> Null, image |-> Null]
  <2>1. PICK q \in Request :
          /\ q = asked[k] \/ (draft # Null /\ q.seen = draft)
          /\ call' = [call EXCEPT ![c] = made(q)]
          /\ asked' = asked \/ asked' = [asked EXCEPT ![k] = q]
          /\ draft' = draft
    BY <1>5, SendStep
  <2>2. q # Null
    BY DEF Nothing
  <2>3. q.seen.edits = 0
    BY <2>1, <2>2 DEF SavedInv
  <2>4. made(q).request = q /\ made(q).pc = "look"
    OBVIOUS
  <2> HIDE DEF made
  <2>5. Saved(made(q))
    BY <2>3, <2>4 DEF Saved
  <2> QED BY <1>1, <1>2, <2>1, <2>3, <2>5 DEF SavedInv, TypeInv, PublishTypeOK
<1> QED BY <1>3, <1>4, <1>5, OtherStep

(* What is published is the design that its author saw, stored and rendered,   *)
(* for any number of saves and overlapping commands, as long as widgets are not *)
(* edited one by one, which leaves updatedAt as it is.                        *)
THEOREM PublishedIsSeen ==
    MaxEdits = 0 => (PublishSpec => []PublishedAsSeen)
<1>. SUFFICES ASSUME MaxEdits = 0 PROVE PublishSpec => []PublishedAsSeen
  OBVIOUS
<1>. USE PublishAssumption
<1>1. PublishInit => TypeInv /\ StampInv /\ SavedInv
  BY TypeInvInit, StampInvInit DEF PublishInit, SavedInv, EachSaved
<1>2. TypeInv /\ StampInv /\ SavedInv /\ [PublishNext]_publishVars => (TypeInv /\ StampInv /\ SavedInv)'
  BY TypeInvStep, StampInvStep, SavedInvStep
<1>3. Sizes /\ TypeInv /\ StampInv /\ SavedInv => PublishedAsSeen
  <2> SUFFICES ASSUME Sizes, TypeInv, StampInv, SavedInv, NEW n \in 1 .. count
               PROVE  revision[n].design = revision[n].seen /\ revision[n].image = revision[n].seen
    BY DEF PublishedAsSeen
  <2>1. \A x, y \in Content : x.stamp = y.stamp /\ x.edits = y.edits => x = y
    BY DEF Content
  <2>2. revision[n] \in Snapshot
    <3>1. n \in 1 .. MaxRevision
      BY DEF TypeInv, PublishTypeOK, Sizes
    <3> QED BY <3>1 DEF TypeInv, PublishTypeOK
  <2>3. revision[n].design \in Content /\ revision[n].image \in Content /\ revision[n].seen \in Content
    BY <2>2 DEF Snapshot
  <2> QED BY <2>1, <2>3 DEF StampInv, StampsAgree, SavedInv, EachSaved
<1> QED BY <1>1, <1>2, <1>3, PTL DEF PublishSpec
=============================================================================
