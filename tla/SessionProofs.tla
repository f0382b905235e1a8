---------------------------- MODULE SessionProofs ----------------------------
(***************************************************************************)
(* Proofs about game sessions and what they leave behind.  For any number  *)
(* of clients: type correctness, that players and protocols refer to each  *)
(* other or not at all, and that the counter of a player is the number of  *)
(* its references.  They rest on what the code never tests: a protocol     *)
(* that has yet to log in, or that waits to take a player over, does so    *)
(* once and holds no player until then.                                    *)
(*                                                                         *)
(* For any finite number of players, any goods, any faults and any crash:  *)
(* what the database has of a player is of one moment, his last save that  *)
(* was committed, and so is what it has of the house.                      *)
(***************************************************************************)
EXTENDS Session, Persistence, SequenceTheorems, FiniteSetTheorems, TLAPS

\* A task of one of these kinds is queued for p.
Queued(kinds, p) == \E i \in DOMAIN tasks : tasks[i].kind \in kinds /\ tasks[i].of = p

\* The tasks that may give a protocol a player.
Entry == {"login", "connect"}

Pending(p) == p \notin heard \/ waiting[p] # None \/ Queued(Entry, p)

\* A protocol logs in once: it waits in one place at a time, and until then
\* it has no player and none was created by it.
QueuedOnce ==
    \A i, j \in DOMAIN tasks :
        tasks[i].kind \in Entry /\ tasks[j].kind \in Entry /\ tasks[i].of = tasks[j].of => i = j

EntersOnce ==
    /\ QueuedOnce
    /\ \A p \in Protocol :
          /\ p \notin heard \/ waiting[p] # None => ~Queued(Entry, p)
          /\ p \notin heard => waiting[p] = None
          /\ Pending(p) => player[p] = None /\ p \notin made

\* Only a player that was created is in the game, leaves it, has a client or
\* is waited for.
ForMade == \A i \in DOMAIN tasks : tasks[i].kind = "connect" => tasks[i].for \in made

OnlyMade ==
    /\ ForMade
    /\ inGame \cup leaving \subseteq made
    /\ inGame \cap leaving = {}
    /\ \A x \in Protocol \ made : client[x] = None /\ \A p \in Protocol : waiting[p] # x
\* The protocols that have logged in, or tried to.
Entered == {p \in heard : ~Queued({"login"}, p)}

SessionInv ==
    /\ SessionTypeOK
    /\ EntersOnce
    /\ OnlyMade
    /\ ClientsAgree
    /\ sendEvents <= Cardinality(Entered)

-----------------------------------------------------------------------------
(* The queue.                                                              *)

\* The queue becomes q, with tasks behind it that give no one a player.
Follows(q) ==
    /\ tasks' \in Seq(SessionTask) /\ Len(q) \in Nat
    /\ \A i \in 1 .. Len(q) : i \in DOMAIN tasks' /\ tasks'[i] = q[i]
    /\ \A i \in DOMAIN tasks' : i \in 1 .. Len(q) \/ tasks'[i].kind \notin Entry

LEMMA TaskTypes ==
  ASSUME SessionTypeOK
  PROVE  /\ tasks \in Seq(SessionTask) /\ Len(tasks) \in Nat
         /\ DOMAIN tasks = 1 .. Len(tasks)
         /\ \A i \in DOMAIN tasks :
               /\ tasks[i].kind \in {"login", "connect", "logout", "release"}
               /\ tasks[i].of \in Protocol /\ tasks[i].for \in Protocol \cup {None}
         /\ tasks # <<>> => /\ Head(tasks) = tasks[1] /\ 1 \in DOMAIN tasks
                            /\ Tail(tasks) \in Seq(SessionTask)
                            /\ Len(Tail(tasks)) = Len(tasks) - 1
                            /\ \A i \in 1 .. Len(Tail(tasks)) : Tail(tasks)[i] = tasks[i + 1]
<1>1. tasks \in Seq(SessionTask)
  BY DEF SessionTypeOK
<1>2. \A i \in 1 .. Len(tasks) : tasks[i] \in SessionTask
  BY <1>1, ElementOfSeq
<1>3. \A i \in 1 .. Len(tasks) :
               /\ tasks[i].kind \in {"login", "connect", "logout", "release"}
               /\ tasks[i].of \in Protocol /\ tasks[i].for \in Protocol \cup {None}
  BY <1>2 DEF SessionTask
<1> QED
  BY <1>1, <1>3, LenProperties, HeadTailProperties

\* Disconnecting queues a release at most.
LEMMA Disconnected ==
  ASSUME SessionTypeOK, NEW p \in Protocol, NEW q \in Seq(SessionTask), Disconnects(p, q)
  PROVE  Follows(q) /\ conn' \in [Protocol -> {"open", "closed", "gone"}]
<1> DEFINE r == task("release", p, None)
<1>1. r \in SessionTask /\ r.kind = "release"
  BY DEF task, SessionTask
<1> HIDE DEF r
<1>2. /\ Append(q, r) \in Seq(SessionTask) /\ Len(Append(q, r)) = Len(q) + 1 /\ Len(q) \in Nat
      /\ \A i \in 1 .. Len(q) : Append(q, r)[i] = q[i]
      /\ Append(q, r)[Len(q) + 1] = r
  BY <1>1, AppendProperties, LenProperties
<1>3. conn' \in [Protocol -> {"open", "closed", "gone"}]
  BY DEF Disconnects, SessionTypeOK
<1>4. tasks' = q \/ tasks' = Append(q, r)
  BY DEF Disconnects, r
<1>5. CASE tasks' = q
  BY <1>2, <1>3, <1>5 DEF Follows
<1>6. CASE tasks' = Append(q, r)
  BY <1>1, <1>2, <1>3, <1>6 DEF Follows, Entry
<1> QED
  BY <1>4, <1>5, <1>6

\* Nothing leaves the queue, nothing enters it that matters.
LEMMA QueueKept ==
  ASSUME SessionTypeOK, QueuedOnce, Follows(tasks)
  PROVE  /\ QueuedOnce'
         /\ \A kinds \in SUBSET Entry, p \in Protocol : Queued(kinds, p)' <=> Queued(kinds, p)
         /\ ForMade /\ made \subseteq made' => ForMade'
<1>1. /\ \A i \in DOMAIN tasks' : tasks'[i].kind \in Entry =>
                i \in DOMAIN tasks /\ tasks'[i] = tasks[i]
      /\ \A i \in DOMAIN tasks : i \in DOMAIN tasks' /\ tasks'[i] = tasks[i]
  BY TaskTypes DEF Follows
<1>2. QueuedOnce'
  BY <1>1 DEF QueuedOnce
<1>3. \A kinds \in SUBSET Entry, p \in Protocol : Queued(kinds, p)' <=> Queued(kinds, p)
  BY <1>1 DEF Queued
<1>4. ForMade /\ made \subseteq made' => ForMade'
  BY <1>1 DEF ForMade, Entry
<1> QED
  BY <1>2, <1>3, <1>4

\* The first task leaves the queue.
LEMMA QueueServed ==
  ASSUME SessionTypeOK, QueuedOnce, tasks # <<>>, Follows(Tail(tasks))
  PROVE  /\ QueuedOnce'
         /\ \A kinds \in SUBSET Entry, p \in Protocol :
               Queued(kinds, p)'
                 <=> Queued(kinds, p) /\ ~(Head(tasks).kind \in kinds /\ Head(tasks).of = p)
         /\ ForMade /\ made \subseteq made' => ForMade'
<1> DEFINE n == Len(tasks)
<1>1. n \in Nat \ {0} /\ DOMAIN tasks = 1 .. n /\ Head(tasks) = tasks[1]
  BY TaskTypes
<1>2. \A i \in DOMAIN tasks' : tasks'[i].kind \in Entry =>
          \E k \in 2 .. n : k = i + 1 /\ tasks'[i] = tasks[k]
  BY TaskTypes DEF Follows
<1>3. \A k \in 2 .. n : \E i \in DOMAIN tasks' : tasks'[i] = tasks[k]
  <2> TAKE k \in 2 .. n
  <2>1. k - 1 \in 1 .. Len(Tail(tasks)) /\ (k - 1) + 1 = k
    BY <1>1, TaskTypes
  <2> QED
    BY <2>1, TaskTypes DEF Follows
<1> HIDE DEF n
<1>4. QueuedOnce'
  <2> SUFFICES ASSUME NEW i \in DOMAIN tasks', NEW j \in DOMAIN tasks',
                      tasks'[i].kind \in Entry, tasks'[j].kind \in Entry,
                      tasks'[i].of = tasks'[j].of
               PROVE  i = j
    BY DEF QueuedOnce
  <2>1. PICK k \in 2 .. n : k = i + 1 /\ tasks'[i] = tasks[k]
    BY <1>2
  <2>2. PICK l \in 2 .. n : l = j + 1 /\ tasks'[j] = tasks[l]
    BY <1>2
  <2>3. k = l
    BY <1>1, <2>1, <2>2 DEF QueuedOnce
  <2>4. i \in Nat /\ j \in Nat
    BY DEF Follows
  <2> QED
    BY <2>1, <2>2, <2>3, <2>4
<1>5. ASSUME NEW kinds \in SUBSET Entry, NEW p \in Protocol
      PROVE  Queued(kinds, p)'
               <=> Queued(kinds, p) /\ ~(Head(tasks).kind \in kinds /\ Head(tasks).of = p)
  <2>1. ASSUME Queued(kinds, p)'
        PROVE  Queued(kinds, p) /\ ~(Head(tasks).kind \in kinds /\ Head(tasks).of = p)
    <3>1. PICK k \in 2 .. n : tasks[k].kind \in kinds /\ tasks[k].of = p
      BY <1>2, <2>1 DEF Queued
    <3>2. k \in DOMAIN tasks /\ k # 1 /\ 1 \in DOMAIN tasks
      BY <1>1, <3>1
    <3> QED
      BY <1>1, <3>1, <3>2 DEF Queued, QueuedOnce
  <2>2. ASSUME Queued(kinds, p), ~(Head(tasks).kind \in kinds /\ Head(tasks).of = p)
        PROVE  Queued(kinds, p)'
    <3>1. PICK k \in DOMAIN tasks : tasks[k].kind \in kinds /\ tasks[k].of = p
      BY <2>2 DEF Queued
    <3>2. k \in 2 .. n
      BY <1>1, <2>2, <3>1
    <3> QED
      BY <1>3, <3>1, <3>2 DEF Queued
  <2> QED
    BY <2>1, <2>2
<1>6. ForMade /\ made \subseteq made' => ForMade'
  <2>1. \A k \in 2 .. n : k \in DOMAIN tasks
    BY <1>1
  <2> QED
    BY <1>2, <2>1 DEF ForMade, Entry
<1> QED
  BY <1>4, <1>5, <1>6

\* A protocol that waits nowhere is queued to log in or to connect.
LEMMA QueueEntered ==
  ASSUME SessionTypeOK, QueuedOnce, NEW t \in SessionTask, t.kind \in Entry,
         ~Queued(Entry, t.of), tasks' = Append(tasks, t)
  PROVE  /\ tasks' \in Seq(SessionTask)
         /\ QueuedOnce'
         /\ \A kinds \in SUBSET Entry, p \in Protocol :
               Queued(kinds, p)' <=> Queued(kinds, p) \/ (t.kind \in kinds /\ t.of = p)
         /\ ForMade /\ made \subseteq made' /\ (t.kind = "connect" => t.for \in made') => ForMade'
<1> DEFINE n == Len(tasks)
<1>1. /\ tasks' \in Seq(SessionTask) /\ n \in Nat /\ DOMAIN tasks = 1 .. n
      /\ DOMAIN tasks' = 1 .. n + 1 /\ tasks'[n + 1] = t
      /\ \A i \in 1 .. n : tasks'[i] = tasks[i]
  BY TaskTypes, AppendProperties
<1>2. \A i \in DOMAIN tasks' : (i \in DOMAIN tasks /\ tasks'[i] = tasks[i]) \/ i = n + 1
  BY <1>1
<1>3. \A i \in DOMAIN tasks : i \in DOMAIN tasks' /\ tasks'[i] = tasks[i] /\ i # n + 1
  BY <1>1
<1>4. n + 1 \in DOMAIN tasks'
  BY <1>1
<1>5. QueuedOnce'
  BY <1>1, <1>2, <1>3 DEF QueuedOnce, Queued
<1>6. \A kinds \in SUBSET Entry, p \in Protocol :
               Queued(kinds, p)' <=> Queued(kinds, p) \/ (t.kind \in kinds /\ t.of = p)
  BY <1>1, <1>2, <1>3, <1>4 DEF Queued
<1>7. ForMade /\ made \subseteq made' /\ (t.kind = "connect" => t.for \in made') => ForMade'
  BY <1>1, <1>2, <1>3 DEF ForMade
<1> QED
  BY <1>1, <1>5, <1>6, <1>7

-----------------------------------------------------------------------------
(* References.                                                             *)

\* No player has two protocols: at most one is counted.
LEMMA OneClient ==
  ASSUME NEW pl \in [Protocol -> Protocol \cup {None}],
         NEW cl \in [Protocol -> Protocol \cup {None}],
         \A p, x \in Protocol : pl[p] = x <=> cl[x] = p,
         NEW x \in Protocol
  PROVE  Cardinality({p \in Protocol : pl[p] = x}) = IF cl[x] = None THEN 0 ELSE 1
<1>1. CASE cl[x] = None
  <2>1. {p \in Protocol : pl[p] = x} = {}
    BY <1>1, SessionAssumption
  <2> QED
    BY <1>1, <2>1, FS_EmptySet
<1>2. CASE cl[x] # None
  <2>1. {p \in Protocol : pl[p] = x} = {cl[x]}
    BY <1>2
  <2> QED
    BY <1>2, <2>1, FS_Singleton
<1> QED
  BY <1>1, <1>2

LEMMA RefsNow ==
  ASSUME SessionTypeOK, ClientsAgree, NEW x \in Protocol
  PROVE  playerRefs[x] = (IF client[x] = None THEN 0 ELSE 1)
                       + (IF x \in inGame \cup leaving THEN 1 ELSE 0)
<1>1. /\ player \in [Protocol -> Protocol \cup {None}]
      /\ client \in [Protocol -> Protocol \cup {None}]
  BY DEF SessionTypeOK
<1>2. Cardinality({p \in Protocol : player[p] = x}) = IF client[x] = None THEN 0 ELSE 1
  BY <1>1, OneClient DEF ClientsAgree, AttachedBothWays
<1> QED
  BY <1>2 DEF ClientsAgree, RefsExact

LEMMA RefsNext ==
  ASSUME player' \in [Protocol -> Protocol \cup {None}],
         client' \in [Protocol -> Protocol \cup {None}],
         AttachedBothWays',
         DOMAIN playerRefs' = Protocol,
         playerRefs' = [x \in DOMAIN playerRefs' |-> playerRefs'[x]],
         \A x \in Protocol : playerRefs'[x] = (IF client'[x] = None THEN 0 ELSE 1)
                                  + (IF x \in inGame' \cup leaving' THEN 1 ELSE 0)
  PROVE  ClientsAgree' /\ playerRefs' \in [Protocol -> 0 .. 2]
<1>1. \A x \in Protocol :
         Cardinality({p \in Protocol : player'[p] = x}) = IF client'[x] = None THEN 0 ELSE 1
  BY OneClient DEF AttachedBothWays
<1>2. RefsExact'
  BY <1>1 DEF RefsExact
<1> QED
  BY <1>2 DEF ClientsAgree

\* The protocols that have entered are finitely many, and stay.
LEMMA EnteredCount ==
  ASSUME SessionTypeOK
  PROVE  IsFiniteSet(Entered) /\ Cardinality(Entered) \in Nat
         /\ Cardinality(Entered) <= Cardinality(Protocol) /\ Cardinality(Protocol) \in Nat
<1>1. Entered \subseteq Protocol
  BY DEF Entered, SessionTypeOK
<1> QED
  BY <1>1, SessionAssumption, FS_Subset, FS_CardinalityType

LEMMA EnteredStays ==
  ASSUME SessionTypeOK, heard' \subseteq Protocol, heard \subseteq heard',
         \A p \in heard : Queued({"login"}, p)' => Queued({"login"}, p)
  PROVE  /\ Cardinality(Entered) <= Cardinality(Entered')
         /\ Cardinality(Entered') \in Nat /\ Cardinality(Entered) \in Nat
         /\ Cardinality(Entered') <= Cardinality(Protocol) /\ Cardinality(Protocol) \in Nat
<1>1. Entered \subseteq Entered' /\ Entered' \subseteq Protocol
  BY DEF Entered
<1> QED
  BY <1>1, SessionAssumption, FS_Subset, FS_CardinalityType, Zenon

\* What a step does that leaves players and clients as they are, and serves
\* no one who wants to enter.
LEMMA BystanderKeeps ==
  ASSUME SessionInv,
         Follows(tasks) \/ (tasks # <<>> /\ Head(tasks).kind \notin Entry /\ Follows(Tail(tasks))),
         conn' \in [Protocol -> {"open", "closed", "gone"}],
         UNCHANGED <<heard, waiting, player, client, playerRefs, made, isConnecting,
                     accepts, released, autosend, sendEvents>>,
         inGame' \cup leaving' = inGame \cup leaving,
         inGame' \cap leaving' = {}
  PROVE  SessionInv'
<1> USE DEF SessionInv
<1>1. /\ QueuedOnce' /\ ForMade'
      /\ \A kinds \in SUBSET Entry, p \in Protocol : Queued(kinds, p)' <=> Queued(kinds, p)
  BY QueueKept, QueueServed DEF EntersOnce, OnlyMade
<1>2. {"login"} \in SUBSET Entry /\ Entry \in SUBSET Entry
  BY DEF Entry
<1>3. \A p \in Protocol : /\ Queued(Entry, p)' <=> Queued(Entry, p)
                          /\ Queued({"login"}, p)' <=> Queued({"login"}, p)
  BY <1>1, <1>2
<1>4. tasks' \in Seq(SessionTask)
  BY DEF Follows
<1>5. SessionTypeOK'
  BY <1>4 DEF SessionTypeOK
<1>6. EntersOnce'
  BY <1>1, <1>3 DEF EntersOnce, Pending
<1>7. OnlyMade'
  BY <1>1 DEF OnlyMade
<1>8. ClientsAgree'
  BY DEF ClientsAgree, AttachedBothWays, RefsExact
<1>9. Entered' = Entered
  BY <1>3 DEF Entered, SessionTypeOK
<1> QED
  BY <1>5, <1>6, <1>7, <1>8, <1>9

LEMMA Removal ==
  ASSUME SessionInv, NEW x, RemoveCreature(x)
  PROVE  inGame' \cup leaving' = inGame \cup leaving /\ inGame' \cap leaving' = {}
  BY DEF RemoveCreature, SessionInv, OnlyMade

LEMMA LogoutEffectIs ==
  ASSUME SessionInv, NEW p \in Protocol, NEW q \in Seq(SessionTask), LogoutEffect(p, q)
  PROVE  /\ Follows(q) /\ conn' \in [Protocol -> {"open", "closed", "gone"}]
         /\ inGame' \cup leaving' = inGame \cup leaving /\ inGame' \cap leaving' = {}
<1>1. CASE player[p] = None
  <2>1. tasks' = q /\ UNCHANGED <<conn, inGame, leaving>>
    BY <1>1 DEF LogoutEffect
  <2>2. Follows(q)
    BY <2>1, LenProperties DEF Follows
  <2> QED
    BY <2>1, <2>2 DEF SessionInv, SessionTypeOK, OnlyMade
<1>2. CASE player[p] # None
  BY <1>2, Disconnected, Removal DEF LogoutEffect, SessionInv
<1> QED
  BY <1>1, <1>2

-----------------------------------------------------------------------------
(* The protocols that enter.                                               *)

\* The first task of the queue is p's, and lets it enter.
LEMMA Served ==
  ASSUME SessionInv, NEW p \in Protocol, NEW kind \in Entry, Next1(kind, p),
         Follows(Tail(tasks)), made \subseteq made'
  PROVE  /\ p \in heard /\ waiting[p] = None /\ player[p] = None /\ p \notin made
         /\ QueuedOnce' /\ ForMade' /\ tasks' \in Seq(SessionTask)
         /\ ~Queued(Entry, p)' /\ ~Queued({"login"}, p)'
         /\ kind = "login" => Queued({"login"}, p)
         /\ kind = "connect" => ~Queued({"login"}, p) /\ Head(tasks).for \in made
         /\ \A q \in Protocol \ {p} : /\ Queued(Entry, q)' <=> Queued(Entry, q)
                                      /\ Queued({"login"}, q)' <=> Queued({"login"}, q)
<1> USE DEF SessionInv
<1>1. tasks # <<>> /\ Head(tasks).kind = kind /\ Head(tasks).of = p
      /\ 1 \in DOMAIN tasks /\ Head(tasks) = tasks[1]
  BY TaskTypes DEF Next1
<1>2. {"login"} \in SUBSET Entry /\ Entry \in SUBSET Entry
  BY DEF Entry
<1>3. /\ QueuedOnce' /\ ForMade'
      /\ \A kinds \in SUBSET Entry, q \in Protocol :
            Queued(kinds, q)' <=> Queued(kinds, q)
                                    /\ ~(Head(tasks).kind \in kinds /\ Head(tasks).of = q)
  BY <1>1, QueueServed DEF EntersOnce, OnlyMade
<1>4. /\ Queued(Entry, p)' <=> Queued(Entry, p) /\ ~(kind \in Entry)
      /\ Queued({"login"}, p)' <=> Queued({"login"}, p) /\ kind # "login"
      /\ \A q \in Protocol \ {p} : /\ Queued(Entry, q)' <=> Queued(Entry, q)
                                   /\ Queued({"login"}, q)' <=> Queued({"login"}, q)
  BY <1>1, <1>2, <1>3
<1>5. Queued(Entry, p) /\ (kind = "login" => Queued({"login"}, p))
  BY <1>1 DEF Queued
<1>6. p \in heard /\ waiting[p] = None /\ player[p] = None /\ p \notin made
  BY <1>5 DEF EntersOnce, Pending
<1>7. kind = "connect" => ~Queued({"login"}, p) /\ Head(tasks).for \in made
  <2>1. kind = "connect" => Head(tasks).for \in made
    BY <1>1 DEF OnlyMade, ForMade
  <2>2. ASSUME kind = "connect", NEW i \in DOMAIN tasks, tasks[i].kind = "login", tasks[i].of = p
        PROVE  FALSE
    <3>1. i = 1
      BY <1>1, <2>2 DEF EntersOnce, QueuedOnce, Entry
    <3> QED
      BY <1>1, <2>2, <3>1
  <2> QED
    BY <2>1, <2>2 DEF Queued
<1>8. ~Queued({"login"}, p)'
  BY <1>4, <1>7 DEF Entry
<1>9. tasks' \in Seq(SessionTask)
  BY DEF Follows
<1> QED
  BY <1>3, <1>4, <1>5, <1>6, <1>7, <1>8, <1>9

LEMMA EntryKeeps ==
  ASSUME SessionInv, NEW p \in Protocol, NEW kind \in Entry, Next1(kind, p),
         Follows(Tail(tasks)), made \subseteq made', UNCHANGED heard,
         made' \subseteq made \cup {p},
         \A q \in Protocol \ {p} : player'[q] = player[q] /\ waiting'[q] = waiting[q],
         waiting'[p] # None => player'[p] = None /\ p \notin made',
         sendEvents' \in Nat,
         sendEvents' <= sendEvents \/ (kind = "login" /\ sendEvents' <= sendEvents + 1)
  PROVE  EntersOnce' /\ sendEvents' <= Cardinality(Entered)'
         /\ sendEvents' \in 0 .. Cardinality(Protocol)
<1> USE DEF SessionInv
<1>1. /\ p \in heard /\ waiting[p] = None
      /\ QueuedOnce' /\ ~Queued(Entry, p)' /\ ~Queued({"login"}, p)'
      /\ kind = "login" => Queued({"login"}, p)
      /\ \A q \in Protocol \ {p} : /\ Queued(Entry, q)' <=> Queued(Entry, q)
                                   /\ Queued({"login"}, q)' <=> Queued({"login"}, q)
  BY Served
<1>2. EntersOnce'
  BY <1>1 DEF EntersOnce, Pending
<1>3. heard \subseteq Protocol /\ heard' = heard /\ sendEvents \in Nat
  BY EnteredCount DEF SessionTypeOK
<1>4. /\ Cardinality(Entered) <= Cardinality(Entered')
      /\ Cardinality(Entered') \in Nat /\ Cardinality(Entered) \in Nat
      /\ Cardinality(Entered') <= Cardinality(Protocol) /\ Cardinality(Protocol) \in Nat
  BY <1>1, <1>3, EnteredStays
<1>5. kind = "login" => Cardinality(Entered') = Cardinality(Entered) + 1
  <2> SUFFICES ASSUME kind = "login" PROVE Cardinality(Entered') = Cardinality(Entered) + 1
    OBVIOUS
  <2>1. p \notin Entered /\ Entered' = Entered \cup {p}
    BY <1>1, <1>3 DEF Entered
  <2> QED
    BY <2>1, EnteredCount, FS_AddElement
<1>6. sendEvents' <= Cardinality(Entered')
  BY <1>3, <1>4, <1>5
<1> QED
  BY <1>2, <1>4, <1>6

LEMMA LoginRefusedKeeps ==
  ASSUME SessionInv, NEW p \in Protocol, LoginRefused(p)
  PROVE  SessionInv'
<1> USE DEF SessionInv
<1>1. Next1("login", p) /\ inGame = {} /\ Disconnects(p, Tail(tasks)) /\ "login" \in Entry
      /\ Tail(tasks) \in Seq(SessionTask)
  BY TaskTypes DEF LoginRefused, Entry, Next1
<1>2. /\ player' = [player EXCEPT ![p] = p] /\ client' = [client EXCEPT ![p] = p]
      /\ playerRefs' = [playerRefs EXCEPT ![p] = 1] /\ made' = made \cup {p}
      /\ UNCHANGED <<heard, waiting, inGame, leaving, isConnecting, accepts, released,
                     autosend, sendEvents>>
  BY DEF LoginRefused
<1>3. Follows(Tail(tasks)) /\ conn' \in [Protocol -> {"open", "closed", "gone"}]
  BY <1>1, Disconnected
<1>4. /\ waiting[p] = None /\ player[p] = None /\ p \notin made /\ ForMade'
      /\ tasks' \in Seq(SessionTask)
  BY <1>1, <1>2, <1>3, Served
<1>5. client[p] = None /\ p \notin inGame \cup leaving /\ p \in Protocol
  BY <1>4 DEF OnlyMade
<1>6. /\ player \in [Protocol -> Protocol \cup {None}]
      /\ client \in [Protocol -> Protocol \cup {None}]
      /\ playerRefs \in [Protocol -> 0 .. 2]
  BY DEF SessionTypeOK
<1>7. AttachedBothWays'
  BY <1>2, <1>4, <1>5, <1>6, SessionAssumption DEF ClientsAgree, AttachedBothWays
<1>8. \A x \in Protocol : playerRefs'[x] = (IF client'[x] = None THEN 0 ELSE 1)
                                  + (IF x \in inGame' \cup leaving' THEN 1 ELSE 0)
  BY <1>2, <1>5, <1>6, RefsNow, SessionAssumption
<1>9. ClientsAgree' /\ playerRefs' \in [Protocol -> 0 .. 2]
  BY <1>2, <1>6, <1>7, <1>8, RefsNext
<1>10. sendEvents \in Nat
  BY EnteredCount DEF SessionTypeOK
<1>11. EntersOnce' /\ sendEvents' <= Cardinality(Entered)'
  BY <1>1, <1>2, <1>3, <1>4, <1>6, <1>10, EntryKeeps
<1>12. OnlyMade'
  BY <1>2, <1>4, <1>5, <1>6 DEF OnlyMade
<1>13. SessionTypeOK'
  BY <1>2, <1>3, <1>4, <1>6, <1>9 DEF SessionTypeOK
<1> QED
  BY <1>9, <1>11, <1>12, <1>13

LEMMA LoginPlacedKeeps ==
  ASSUME SessionInv, NEW p \in Protocol, LoginPlaced(p)
  PROVE  SessionInv'
<1> USE DEF SessionInv
<1>1. Next1("login", p) /\ inGame = {} /\ tasks' = Tail(tasks) /\ "login" \in Entry
      /\ Tail(tasks) \in Seq(SessionTask)
  BY TaskTypes DEF LoginPlaced, Entry, Next1
<1>2. /\ player' = [player EXCEPT ![p] = p] /\ client' = [client EXCEPT ![p] = p]
      /\ playerRefs' = [playerRefs EXCEPT ![p] = 2] /\ made' = made \cup {p}
      /\ inGame' = {p} /\ accepts' = accepts \cup {p} /\ AddToAutosend(p)
      /\ UNCHANGED <<conn, heard, waiting, leaving, isConnecting, released>>
  BY DEF LoginPlaced
<1>3. Follows(Tail(tasks))
  BY <1>1, LenProperties DEF Follows
<1>4. /\ waiting[p] = None /\ player[p] = None /\ p \notin made /\ ForMade'
      /\ tasks' \in Seq(SessionTask)
  BY <1>1, <1>2, <1>3, Served
<1>5. client[p] = None /\ p \notin inGame \cup leaving /\ p \in Protocol
  BY <1>4 DEF OnlyMade
<1>6. /\ player \in [Protocol -> Protocol \cup {None}]
      /\ client \in [Protocol -> Protocol \cup {None}]
      /\ playerRefs \in [Protocol -> 0 .. 2]
  BY DEF SessionTypeOK
<1>7. AttachedBothWays'
  BY <1>2, <1>4, <1>5, <1>6, SessionAssumption DEF ClientsAgree, AttachedBothWays
<1>8. \A x \in Protocol : playerRefs'[x] = (IF client'[x] = None THEN 0 ELSE 1)
                                  + (IF x \in inGame' \cup leaving' THEN 1 ELSE 0)
  BY <1>1, <1>2, <1>5, <1>6, RefsNow, SessionAssumption
<1>9. ClientsAgree' /\ playerRefs' \in [Protocol -> 0 .. 2]
  BY <1>2, <1>6, <1>7, <1>8, RefsNext
<1>10. sendEvents \in Nat /\ sendEvents' \in Nat /\ sendEvents' <= sendEvents + 1
       /\ autosend' = autosend \cup {p}
  BY <1>2, EnteredCount DEF SessionTypeOK, AddToAutosend
<1>11. EntersOnce' /\ sendEvents' <= Cardinality(Entered)' /\ sendEvents' \in 0 .. Cardinality(Protocol)
  BY <1>1, <1>2, <1>3, <1>4, <1>6, <1>10, EntryKeeps
<1>12. OnlyMade'
  BY <1>2, <1>4, <1>5, <1>6 DEF OnlyMade
<1>13. SessionTypeOK'
  BY <1>2, <1>4, <1>6, <1>9, <1>10, <1>11 DEF SessionTypeOK
<1> QED
  BY <1>9, <1>11, <1>12, <1>13

\* connect, at once or after the wait.
LEMMA AttachKeeps ==
  ASSUME SessionInv, NEW p \in Protocol, NEW kind \in Entry, Next1(kind, p),
         NEW x \in Protocol, Attach(p, x, Tail(tasks)),
         UNCHANGED <<heard, waiting, made, inGame, leaving, released>>,
         \/ UNCHANGED <<autosend, sendEvents>>
         \/ kind = "login" /\ AddToAutosend(p)
  PROVE  SessionInv'
<1> USE DEF SessionInv
<1>1. Tail(tasks) \in Seq(SessionTask)
  BY TaskTypes DEF Next1
<1>2. /\ player \in [Protocol -> Protocol \cup {None}]
      /\ client \in [Protocol -> Protocol \cup {None}]
      /\ playerRefs \in [Protocol -> 0 .. 2]
  BY DEF SessionTypeOK
<1>3. Follows(Tail(tasks)) /\ conn' \in [Protocol -> {"open", "closed", "gone"}]
  <2>1. CASE Disconnects(p, Tail(tasks))
    BY <1>1, <2>1, Disconnected
  <2>2. CASE tasks' = Tail(tasks) /\ UNCHANGED conn
    BY <1>1, <2>2, LenProperties DEF Follows, SessionTypeOK
  <2> QED
    BY <2>1, <2>2 DEF Attach
<1>4. /\ waiting[p] = None /\ player[p] = None /\ p \notin made /\ ForMade'
      /\ tasks' \in Seq(SessionTask)
  BY <1>3, Served
<1>5. \/ UNCHANGED <<player, client, playerRefs, isConnecting, accepts>>
      \/ /\ x \in inGame /\ client[x] = None
         /\ player' = [player EXCEPT ![p] = x]
         /\ client' = [client EXCEPT ![x] = p]
         /\ playerRefs' = [playerRefs EXCEPT ![x] = playerRefs[x] + 1]
         /\ isConnecting' = isConnecting \ {x}
         /\ accepts' = accepts \cup {p}
  BY DEF Attach
<1>6. /\ player' \in [Protocol -> Protocol \cup {None}]
      /\ client' \in [Protocol -> Protocol \cup {None}]
      /\ isConnecting' \subseteq Protocol /\ accepts' \subseteq Protocol
      /\ \A q \in Protocol \ {p} : player'[q] = player[q]
      /\ DOMAIN playerRefs' = Protocol
      /\ playerRefs' = [y \in DOMAIN playerRefs' |-> playerRefs'[y]]
      /\ \A y \in Protocol \ made : client'[y] = None
  <2>1. /\ isConnecting \subseteq Protocol /\ accepts \subseteq Protocol
        /\ inGame \subseteq made /\ \A y \in Protocol \ made : client[y] = None
        /\ playerRefs = [y \in DOMAIN playerRefs |-> playerRefs[y]]
    BY <1>2 DEF OnlyMade, SessionTypeOK
  <2>2. CASE UNCHANGED <<player, client, playerRefs, isConnecting, accepts>>
    BY <1>2, <2>1, <2>2
  <2>3. CASE /\ x \in inGame
             /\ player' = [player EXCEPT ![p] = x]
             /\ client' = [client EXCEPT ![x] = p]
             /\ playerRefs' = [playerRefs EXCEPT ![x] = playerRefs[x] + 1]
             /\ isConnecting' = isConnecting \ {x}
             /\ accepts' = accepts \cup {p}
    BY <1>2, <2>1, <2>3
  <2> QED
    BY <1>5, <2>2, <2>3
<1>7. AttachedBothWays'
  BY <1>2, <1>4, <1>5, SessionAssumption DEF ClientsAgree, AttachedBothWays
<1>8. \A y \in Protocol : playerRefs'[y] = (IF client'[y] = None THEN 0 ELSE 1)
                                  + (IF y \in inGame' \cup leaving' THEN 1 ELSE 0)
  <2> TAKE y \in Protocol
  <2>1. playerRefs[y] = (IF client[y] = None THEN 0 ELSE 1)
                      + (IF y \in inGame \cup leaving THEN 1 ELSE 0)
    BY RefsNow
  <2> QED
    BY <1>2, <1>5, <2>1, SessionAssumption
<1>9. ClientsAgree' /\ playerRefs' \in [Protocol -> 0 .. 2]
  BY <1>6, <1>7, <1>8, RefsNext
<1>10. /\ sendEvents' \in Nat /\ autosend' \subseteq Protocol
       /\ sendEvents' <= sendEvents \/ (kind = "login" /\ sendEvents' <= sendEvents + 1)
  BY EnteredCount DEF SessionTypeOK, AddToAutosend
<1>11. EntersOnce' /\ sendEvents' <= Cardinality(Entered)' /\ sendEvents' \in 0 .. Cardinality(Protocol)
  BY <1>3, <1>4, <1>6, <1>10, EntryKeeps
<1>12. OnlyMade'
  BY <1>4, <1>6 DEF OnlyMade
<1>13. SessionTypeOK'
  BY <1>3, <1>4, <1>6, <1>9, <1>10, <1>11 DEF SessionTypeOK
<1> QED
  BY <1>9, <1>11, <1>12, <1>13

LEMMA ConnectKeeps ==
  ASSUME SessionInv, NEW p \in Protocol, Connect(p)
  PROVE  SessionInv'
<1>1. /\ Next1("connect", p) /\ "connect" \in Entry
      /\ Attach(p, Head(tasks).for, Tail(tasks))
      /\ UNCHANGED <<heard, waiting, made, inGame, leaving, released, autosend, sendEvents>>
  BY DEF Connect, Entry
<1>2. Head(tasks).for \in Protocol
  BY <1>1, TaskTypes DEF Next1, SessionInv, OnlyMade, ForMade, SessionTypeOK
<1> QED
  BY <1>1, <1>2, AttachKeeps

LEMMA LoginConnectsKeeps ==
  ASSUME SessionInv, NEW p \in Protocol, LoginConnects(p)
  PROVE  SessionInv'
<1>1. PICK x \in inGame : Attach(p, x, Tail(tasks))
  BY DEF LoginConnects
<1>2. /\ Next1("login", p) /\ "login" \in Entry /\ AddToAutosend(p)
      /\ UNCHANGED <<heard, waiting, made, inGame, leaving, released>>
  BY DEF LoginConnects, Entry
<1>3. x \in Protocol
  BY DEF SessionInv, SessionTypeOK
<1> QED
  BY <1>1, <1>2, <1>3, AttachKeeps

\* A login that gives no player yet: the player has a client that must go
\* first, or keeps it.
LEMMA LoginWaitsKeeps ==
  ASSUME SessionInv, NEW p \in Protocol, LoginReplaces(p) \/ LoginTwice(p)
  PROVE  SessionInv'
<1> USE DEF SessionInv
<1>1. Next1("login", p) /\ "login" \in Entry /\ Tail(tasks) \in Seq(SessionTask)
  BY TaskTypes DEF LoginReplaces, LoginTwice, Entry, Next1
<1>2. UNCHANGED <<heard, player, client, playerRefs, made, inGame, leaving, accepts, released>>
  BY DEF LoginReplaces, LoginTwice
<1>3. /\ Follows(Tail(tasks)) /\ conn' \in [Protocol -> {"open", "closed", "gone"}]
      /\ isConnecting' \subseteq Protocol
      /\ waiting' = waiting \/ \E x \in inGame : waiting' = [waiting EXCEPT ![p] = x]
      /\ UNCHANGED <<autosend, sendEvents>> \/ AddToAutosend(p)
  <2>1. CASE LoginReplaces(p)
    <3>1. PICK x \in inGame : /\ client[x] # None
                              /\ Disconnects(client[x], Tail(tasks))
                              /\ isConnecting' = isConnecting \cup {x}
                              /\ waiting' = [waiting EXCEPT ![p] = x]
      BY <2>1 DEF LoginReplaces
    <3>2. client[x] \in Protocol /\ x \in Protocol
      BY <3>1 DEF SessionTypeOK
    <3>3. AddToAutosend(p)
      BY <2>1 DEF LoginReplaces
    <3> QED
      BY <1>1, <3>1, <3>2, <3>3, Disconnected DEF SessionTypeOK
  <2>2. CASE LoginTwice(p)
    BY <1>1, <2>2, Disconnected DEF LoginTwice, SessionTypeOK
  <2> QED
    BY <2>1, <2>2
<1>4. /\ waiting[p] = None /\ player[p] = None /\ p \notin made /\ ForMade'
      /\ tasks' \in Seq(SessionTask)
  BY <1>1, <1>2, <1>3, Served
<1>5. /\ waiting' \in [Protocol -> Protocol \cup {None}]
      /\ \A q \in Protocol \ {p} : waiting'[q] = waiting[q]
      /\ \A x \in Protocol \ made, q \in Protocol : waiting'[q] # x
  <2>1. /\ waiting \in [Protocol -> Protocol \cup {None}]
        /\ inGame \subseteq Protocol /\ inGame \subseteq made
        /\ \A x \in Protocol \ made, q \in Protocol : waiting[q] # x
    BY DEF SessionTypeOK, OnlyMade
  <2>2. ASSUME NEW y \in inGame, waiting' = [waiting EXCEPT ![p] = y]
        PROVE  /\ waiting' \in [Protocol -> Protocol \cup {None}]
               /\ \A q \in Protocol \ {p} : waiting'[q] = waiting[q]
               /\ \A x \in Protocol \ made, q \in Protocol : waiting'[q] # x
    BY <2>1, <2>2
  <2> QED
    BY <1>3, <2>1, <2>2
<1>6. /\ sendEvents' \in Nat /\ autosend' \subseteq Protocol
      /\ sendEvents' <= sendEvents \/ sendEvents' <= sendEvents + 1
  BY <1>3, EnteredCount DEF SessionTypeOK, AddToAutosend
<1>7. EntersOnce' /\ sendEvents' <= Cardinality(Entered)' /\ sendEvents' \in 0 .. Cardinality(Protocol)
  BY <1>1, <1>2, <1>3, <1>4, <1>5, <1>6, EntryKeeps
<1>8. OnlyMade'
  BY <1>2, <1>4, <1>5 DEF OnlyMade
<1>9. ClientsAgree'
  BY <1>2 DEF ClientsAgree, AttachedBothWays, RefsExact
<1>10. SessionTypeOK'
  BY <1>2, <1>3, <1>4, <1>5, <1>6, <1>7 DEF SessionTypeOK
<1> QED
  BY <1>7, <1>8, <1>9, <1>10

-----------------------------------------------------------------------------
(* The other steps that matter.                                            *)

\* The release of a protocol drops its player.
LEMMA ReleaseKeeps ==
  ASSUME SessionInv, NEW p \in Protocol, ProtocolRelease(p)
  PROVE  SessionInv'
<1> USE DEF SessionInv
<1>1. /\ tasks # <<>> /\ Head(tasks).kind \notin Entry /\ tasks' = Tail(tasks)
      /\ Tail(tasks) \in Seq(SessionTask)
  BY TaskTypes DEF ProtocolRelease, Next1, Entry
<1>2. /\ released' = released \cup {p} /\ autosend' = autosend \ {p}
      /\ UNCHANGED <<conn, heard, waiting, made, inGame, leaving, isConnecting, accepts,
                     sendEvents>>
  BY DEF ProtocolRelease
<1>3. Follows(Tail(tasks))
  BY <1>1, LenProperties DEF Follows
<1>4. {"login"} \in SUBSET Entry /\ Entry \in SUBSET Entry
  BY DEF Entry
<1>5. /\ QueuedOnce' /\ ForMade' /\ tasks' \in Seq(SessionTask)
      /\ \A q \in Protocol : /\ Queued(Entry, q)' <=> Queued(Entry, q)
                             /\ Queued({"login"}, q)' <=> Queued({"login"}, q)
  <2>1. /\ QueuedOnce' /\ ForMade'
        /\ \A kinds \in SUBSET Entry, q \in Protocol :
              Queued(kinds, q)' <=> Queued(kinds, q)
                                      /\ ~(Head(tasks).kind \in kinds /\ Head(tasks).of = q)
    BY <1>1, <1>2, <1>3, QueueServed DEF EntersOnce, OnlyMade
  <2> QED
    BY <1>1, <1>4, <2>1
<1>6. /\ player \in [Protocol -> Protocol \cup {None}]
      /\ client \in [Protocol -> Protocol \cup {None}]
      /\ playerRefs \in [Protocol -> 0 .. 2]
  BY DEF SessionTypeOK
<1>7. \/ UNCHANGED <<client, playerRefs, player>>
      \/ \E x \in Protocol :
            /\ player[p] = x /\ client[x] = p
            /\ client' = [client EXCEPT ![x] = None]
            /\ playerRefs' = [playerRefs EXCEPT ![x] = playerRefs[x] - 1]
            /\ player' = [player EXCEPT ![p] = None]
  BY <1>6 DEF ProtocolRelease
<1>8. /\ player' \in [Protocol -> Protocol \cup {None}]
      /\ client' \in [Protocol -> Protocol \cup {None}]
      /\ \A q \in Protocol : player'[q] = player[q] \/ player'[q] = None
      /\ \A x \in Protocol : client'[x] = client[x] \/ client'[x] = None
      /\ DOMAIN playerRefs' = Protocol
      /\ playerRefs' = [y \in DOMAIN playerRefs' |-> playerRefs'[y]]
  BY <1>6, <1>7
<1>9. AttachedBothWays'
  BY <1>6, <1>7, SessionAssumption DEF ClientsAgree, AttachedBothWays
<1>10. \A y \in Protocol : playerRefs'[y] = (IF client'[y] = None THEN 0 ELSE 1)
                                  + (IF y \in inGame' \cup leaving' THEN 1 ELSE 0)
  <2> TAKE y \in Protocol
  <2>1. playerRefs[y] = (IF client[y] = None THEN 0 ELSE 1)
                      + (IF y \in inGame \cup leaving THEN 1 ELSE 0)
    BY RefsNow
  <2> QED
    BY <1>2, <1>6, <1>7, <2>1, SessionAssumption
<1>11. ClientsAgree' /\ playerRefs' \in [Protocol -> 0 .. 2]
  BY <1>8, <1>9, <1>10, RefsNext
<1>12. EntersOnce'
  BY <1>2, <1>5, <1>8 DEF EntersOnce, Pending
<1>13. OnlyMade'
  BY <1>2, <1>5, <1>8 DEF OnlyMade
<1>14. Entered' = Entered
  BY <1>2, <1>5 DEF Entered, SessionTypeOK
<1>15. SessionTypeOK'
  BY <1>2, <1>5, <1>8, <1>11 DEF SessionTypeOK
<1> QED
  BY <1>2, <1>11, <1>12, <1>13, <1>14, <1>15

LEMMA CleanupKeeps ==
  ASSUME SessionInv, Cleanup
  PROVE  SessionInv'
<1> USE DEF SessionInv
<1>1. /\ playerRefs' = [x \in Protocol |-> IF x \in leaving THEN playerRefs[x] - 1 ELSE playerRefs[x]]
      /\ leaving' = {}
      /\ UNCHANGED <<conn, heard, tasks, waiting, player, client, made, inGame, isConnecting,
                     accepts, released, autosend, sendEvents>>
  BY DEF Cleanup
<1>2. \A y \in Protocol : playerRefs'[y] = (IF client'[y] = None THEN 0 ELSE 1)
                                  + (IF y \in inGame' \cup leaving' THEN 1 ELSE 0)
  <2> TAKE y \in Protocol
  <2>1. playerRefs[y] = (IF client[y] = None THEN 0 ELSE 1)
                      + (IF y \in inGame \cup leaving THEN 1 ELSE 0)
    BY RefsNow
  <2> QED
    BY <1>1, <2>1 DEF OnlyMade
<1>3. /\ player' \in [Protocol -> Protocol \cup {None}]
      /\ client' \in [Protocol -> Protocol \cup {None}]
      /\ AttachedBothWays'
  BY <1>1 DEF SessionTypeOK, ClientsAgree, AttachedBothWays
<1>4. ClientsAgree' /\ playerRefs' \in [Protocol -> 0 .. 2]
  BY <1>1, <1>2, <1>3, RefsNext
<1>5. SessionTypeOK'
  BY <1>1, <1>4 DEF SessionTypeOK
<1>6. EntersOnce' /\ OnlyMade'
  BY <1>1 DEF EntersOnce, QueuedOnce, Pending, Queued, OnlyMade, ForMade
<1>7. Entered' = Entered
  BY <1>1 DEF Entered, Queued
<1> QED
  BY <1>1, <1>4, <1>5, <1>6, <1>7

LEMMA FirstMessageKeeps ==
  ASSUME SessionInv, NEW p \in Protocol, FirstMessage(p)
  PROVE  SessionInv'
<1> USE DEF SessionInv
<1> DEFINE t == task("login", p, None)
<1>1. /\ t \in SessionTask /\ t.kind = "login" /\ t.of = p /\ "login" \in Entry
  BY DEF task, SessionTask, Entry
<1>2. /\ p \notin heard /\ heard' = heard \cup {p} /\ tasks' = Append(tasks, t)
      /\ UNCHANGED <<conn, waiting, player, client, playerRefs, made, inGame, leaving,
                     isConnecting, accepts, released, autosend, sendEvents>>
  BY DEF FirstMessage
<1> HIDE DEF t
<1>3. ~Queued(Entry, p) /\ waiting[p] = None /\ player[p] = None /\ p \notin made
  BY <1>2 DEF EntersOnce, Pending
<1>4. {"login"} \in SUBSET Entry /\ Entry \in SUBSET Entry
  BY DEF Entry
<1>5. /\ tasks' \in Seq(SessionTask) /\ QueuedOnce' /\ ForMade'
      /\ \A q \in Protocol : /\ Queued(Entry, q)' <=> Queued(Entry, q) \/ q = p
                             /\ Queued({"login"}, q)' <=> Queued({"login"}, q) \/ q = p
  BY <1>1, <1>2, <1>3, <1>4, QueueEntered DEF EntersOnce, OnlyMade
<1>6. EntersOnce'
  BY <1>2, <1>3, <1>5 DEF EntersOnce, Pending
<1>7. OnlyMade' /\ ClientsAgree'
  BY <1>2, <1>5 DEF OnlyMade, ClientsAgree, AttachedBothWays, RefsExact
<1>8. Entered' = Entered
  BY <1>2, <1>5 DEF Entered, SessionTypeOK
<1>9. SessionTypeOK'
  BY <1>2, <1>5 DEF SessionTypeOK
<1> QED
  BY <1>2, <1>6, <1>7, <1>8, <1>9

LEMMA ConnectTimerKeeps ==
  ASSUME SessionInv, NEW p \in Protocol, ConnectTimer(p)
  PROVE  SessionInv'
<1> USE DEF SessionInv
<1> DEFINE t == task("connect", p, waiting[p])
<1>1. /\ waiting[p] # None /\ waiting' = [waiting EXCEPT ![p] = None] /\ tasks' = Append(tasks, t)
      /\ UNCHANGED <<conn, heard, player, client, playerRefs, made, inGame, leaving,
                     isConnecting, accepts, released, autosend, sendEvents>>
  BY DEF ConnectTimer
<1>2. waiting[p] \in made /\ waiting[p] \in Protocol
  BY <1>1 DEF OnlyMade, SessionTypeOK
<1>3. /\ t \in SessionTask /\ t.kind = "connect" /\ t.of = p /\ t.for = waiting[p]
      /\ "connect" \in Entry
  BY <1>2 DEF task, SessionTask, Entry
<1> HIDE DEF t
<1>4. p \in heard /\ ~Queued(Entry, p) /\ player[p] = None /\ p \notin made
  BY <1>1 DEF EntersOnce, Pending
<1>5. {"login"} \in SUBSET Entry /\ Entry \in SUBSET Entry
  BY DEF Entry
<1>6. /\ tasks' \in Seq(SessionTask) /\ QueuedOnce' /\ ForMade'
      /\ \A q \in Protocol : /\ Queued(Entry, q)' <=> Queued(Entry, q) \/ q = p
                             /\ Queued({"login"}, q)' <=> Queued({"login"}, q)
  BY <1>1, <1>2, <1>3, <1>4, <1>5, QueueEntered DEF EntersOnce, OnlyMade
<1>7. waiting \in [Protocol -> Protocol \cup {None}]
  BY DEF SessionTypeOK
<1>8. EntersOnce'
  BY <1>1, <1>4, <1>6, <1>7 DEF EntersOnce, Pending
<1>9. OnlyMade' /\ ClientsAgree'
  BY <1>1, <1>6, <1>7, SessionAssumption DEF OnlyMade, ClientsAgree, AttachedBothWays, RefsExact
<1>10. Entered' = Entered
  BY <1>1, <1>6 DEF Entered, SessionTypeOK
<1>11. SessionTypeOK'
  BY <1>1, <1>6 DEF SessionTypeOK
<1> QED
  BY <1>1, <1>8, <1>9, <1>10, <1>11

-----------------------------------------------------------------------------
(* The theorems about sessions.                                            *)

LEMMA SessionInitInv == SessionInit => SessionInv
<1> SUFFICES ASSUME SessionInit PROVE SessionInv
  OBVIOUS
<1> USE DEF SessionInit
<1>1. tasks \in Seq(SessionTask) /\ DOMAIN tasks = {}
  OBVIOUS
<1>2. /\ Cardinality(Protocol) \in Nat /\ Entered = {} /\ Cardinality(Entered) = 0
      /\ \A x \in Protocol : {p \in Protocol : player[p] = x} = {}
  BY SessionAssumption, FS_CardinalityType, FS_EmptySet DEF Entered
<1>3. SessionTypeOK
  <2>1. /\ waiting \in [Protocol -> Protocol \cup {None}]
        /\ player \in [Protocol -> Protocol \cup {None}]
        /\ client \in [Protocol -> Protocol \cup {None}]
    OBVIOUS
  <2>2. {waiting, player, client} \subseteq [Protocol -> Protocol \cup {None}]
    BY <2>1
  <2>3. sendEvents \in 0 .. Cardinality(Protocol)
    BY <1>2
  <2>4. {heard, made, inGame, leaving, isConnecting, accepts, released, autosend}
          \subseteq SUBSET Protocol
    OBVIOUS
  <2> QED
    BY <1>1, <2>2, <2>3, <2>4 DEF SessionTypeOK
<1>4. EntersOnce /\ OnlyMade
  BY <1>1, SessionAssumption DEF EntersOnce, QueuedOnce, Pending, Queued, OnlyMade, ForMade
<1>5. ClientsAgree
  <2>1. AttachedBothWays
    BY SessionAssumption DEF AttachedBothWays
  <2>2. \A x \in Protocol : Cardinality({p \in Protocol : player[p] = x}) = 0
    BY <1>2, FS_EmptySet, Zenon
  <2>3. RefsExact
    BY <2>2 DEF RefsExact
  <2> QED
    BY <2>1, <2>3 DEF ClientsAgree
<1> QED
  BY <1>2, <1>3, <1>4, <1>5 DEF SessionInv

LEMMA SessionStep ==
  ASSUME SessionInv, [SessionNext]_sessVars
  PROVE  SessionInv'
<1>0. /\ UNCHANGED tasks => Follows(tasks)
      /\ conn \in [Protocol -> {"open", "closed", "gone"}]
      /\ inGame \cap leaving = {}
  BY LenProperties DEF SessionInv, SessionTypeOK, OnlyMade, Follows
<1>1. ASSUME NEW p \in Protocol, NetworkClose(p) PROVE SessionInv'
  BY <1>0, <1>1, Disconnected, TaskTypes, BystanderKeeps DEF NetworkClose, SessionInv
<1>2. ASSUME NEW p \in Protocol, ConnectionEnds(p) PROVE SessionInv'
  BY <1>0, <1>2, BystanderKeeps DEF ConnectionEnds
<1>3. ASSUME NEW p \in Protocol, FirstMessage(p) PROVE SessionInv'
  BY <1>3, FirstMessageKeeps
<1>4. ASSUME NEW p \in Protocol, LogoutPacket(p) PROVE SessionInv'
  <2> DEFINE t == task("logout", p, None)
  <2>1. t \in SessionTask /\ t.kind \notin Entry
    BY DEF task, SessionTask, Entry
  <2>2. tasks' = Append(tasks, t) /\ tasks \in Seq(SessionTask)
    BY <1>4, TaskTypes DEF LogoutPacket, SessionInv
  <2> HIDE DEF t
  <2>3. Follows(tasks)
    BY <2>1, <2>2, AppendProperties, LenProperties DEF Follows
  <2> QED
    BY <1>0, <1>4, <2>3, BystanderKeeps DEF LogoutPacket
<1>5. ASSUME NEW p \in Protocol, ConnectTimer(p) PROVE SessionInv'
  BY <1>5, ConnectTimerKeeps
<1>6. ASSUME NEW p \in Protocol, Logout(p) PROVE SessionInv'
  <2>1. tasks # <<>> /\ Head(tasks).kind \notin Entry /\ Tail(tasks) \in Seq(SessionTask)
    BY <1>6, TaskTypes DEF Logout, Next1, Entry, SessionInv
  <2>2. CASE LogoutEffect(p, Tail(tasks))
    BY <1>6, <2>1, <2>2, LogoutEffectIs, BystanderKeeps DEF Logout
  <2>3. CASE tasks' = Tail(tasks) /\ UNCHANGED <<conn, inGame, leaving>>
    <3>1. Follows(Tail(tasks))
      BY <2>1, <2>3, LenProperties DEF Follows
    <3> QED
      BY <1>0, <1>6, <2>1, <2>3, <3>1, BystanderKeeps DEF Logout
  <2> QED
    BY <1>6, <2>2, <2>3 DEF Logout
<1>7. ASSUME NEW p \in Protocol, Dispatch(p) PROVE SessionInv'
  BY <1>6, <1>7, LoginRefusedKeeps, LoginPlacedKeeps, LoginWaitsKeeps, LoginConnectsKeeps,
     ConnectKeeps, ReleaseKeeps DEF Dispatch
<1>8. ASSUME NEW x \in Protocol, PlayerRemoved(x) PROVE SessionInv'
  BY <1>0, <1>8, Removal, BystanderKeeps DEF PlayerRemoved
<1>9. ASSUME NEW x \in Protocol, Kick(x) PROVE SessionInv'
  <2>1. CASE client[x] # None
    <3>1. client[x] \in Protocol /\ LogoutEffect(client[x], tasks)
      BY <1>9, <2>1 DEF Kick, SessionInv, SessionTypeOK
    <3> QED
      BY <1>9, <3>1, TaskTypes, LogoutEffectIs, BystanderKeeps DEF Kick, SessionInv
  <2>2. CASE client[x] = None
    BY <1>0, <1>9, <2>2, Removal, BystanderKeeps DEF Kick
  <2> QED
    BY <2>1, <2>2
<1>10. CASE Cleanup
  BY <1>10, CleanupKeeps
<1>11. CASE SendAll \/ UNCHANGED sessVars
  <2>1. /\ UNCHANGED <<conn, heard, tasks, waiting, player, client, playerRefs, made, inGame,
                       leaving, isConnecting, accepts, released, autosend>>
        /\ sendEvents' \in Nat /\ sendEvents' <= sendEvents
    BY <1>11, EnteredCount DEF SendAll, sessVars, SessionInv, SessionTypeOK
  <2>2. EntersOnce' /\ OnlyMade' /\ ClientsAgree' /\ Entered' = Entered
    BY <2>1 DEF SessionInv, EntersOnce, QueuedOnce, Pending, Queued, OnlyMade, ForMade,
                ClientsAgree, AttachedBothWays, RefsExact, Entered
  <2>3. Cardinality(Entered) \in Nat /\ Cardinality(Protocol) \in Nat /\ sendEvents \in Nat
        /\ sendEvents <= Cardinality(Protocol)
    BY EnteredCount DEF SessionInv, SessionTypeOK
  <2>4. SessionTypeOK'
    BY <2>1, <2>3 DEF SessionInv, SessionTypeOK
  <2> QED
    BY <2>1, <2>2, <2>3, <2>4 DEF SessionInv
<1> QED
  BY <1>1, <1>2, <1>3, <1>4, <1>5, <1>7, <1>8, <1>9, <1>10, <1>11
     DEF SessionNext, PingKick, IdleKick

LEMMA SessionInvHolds == SessionSpec => []SessionInv
  BY SessionInitInv, SessionStep, PTL DEF SessionSpec

\* The state variables have the types SessionTypeOK gives them; in particular
\* no more sendAll events are under way than clients have logged in.
THEOREM SessionTypeCorrect == SessionSpec => []SessionTypeOK
<1>1. SessionInv => SessionTypeOK
  BY DEF SessionInv
<1> QED
  BY <1>1, SessionInvHolds, PTL

\* Two clients never play one character, and the counter of a player is the
\* number of its references, through every takeover, logout, kick and loss of
\* a connection.
THEOREM PlayersAndClientsAgree == SessionSpec => []ClientsAgree
<1>1. SessionInv => ClientsAgree
  BY DEF SessionInv
<1> QED
  BY <1>1, SessionInvHolds, PTL

\* A protocol logs in once, and holds no player until it has.
THEOREM EntersOnceOnly == SessionSpec => []EntersOnce
<1>1. SessionInv => EntersOnce
  BY DEF SessionInv
<1> QED
  BY <1>1, SessionInvHolds, PTL

-----------------------------------------------------------------------------
(* What is stored: statements first.                                       *)

PlayerTable == ItemTable \cup {"row", "storage"}

\* The tables that a save writes: the depot's only if a depot was opened.
Rewritten(h) == {"row", "storage", "items", "inbox", "store"}
                    \cup (IF h.depotOpen THEN {"depot"} ELSE {})

\* For each player the tables of his row, his storage and his items have what belongs
\* to one state of him, and the tiles' table what lay in the house at one time.
StoredWhole ==
    /\ \A p \in Owner : \A t \in Rewritten(asSaved.of[p]) :
          db.of[p][t] = StoredAs(asSaved.of[p])[t]
    /\ db.tiles = [x \in DOMAIN asSaved.tiles |-> Reverse(asSaved.tiles[x])]

\* What statement s makes of its table, if it writes.
Writes(s) == s.op \in {"delete", "insert", "update"}
Made(s) == IF s.table = "tiles" /\ s.op = "delete" THEN NobodyHas ELSE s.value

\* Of the statements a none writes t; the last that does makes it v.
Spares(a, t) == \A k \in 1 .. Len(a) : ~(Writes(a[k]) /\ a[k].table = t)
Leaves(a, t, v) ==
    \E j \in 1 .. Len(a) :
        /\ Writes(a[j]) /\ a[j].table = t /\ Made(a[j]) = v
        /\ \A k \in 1 .. Len(a) : k > j => ~(Writes(a[k]) /\ a[k].table = t)

\* All of them write, tables of T.
AllWrite(a, T) == \A k \in 1 .. Len(a) : Writes(a[k]) /\ a[k].table \in T

\* The statements of a job, the tables they write and what they make of them.
Statements(j) == IF j.who = None THEN HouseStatements(j.obj) ELSE PlayerStatements(j.obj)
Written(j) == IF j.who = None THEN {"tiles"} ELSE Rewritten(j.obj)
Meant(j, t) ==
    IF j.who = None THEN [x \in DOMAIN j.obj |-> Reverse(j.obj[x])] ELSE StoredAs(j.obj)[t]
StoredOf(d, j, t) == IF j.who = None THEN d.tiles ELSE d.of[j.who][t]

\* A database has a table for each, and whoever is saved.
Database(d) ==
    /\ {"of", "tiles", "offers"} \subseteq DOMAIN d /\ DOMAIN d.of = Owner
    /\ \A p \in Owner : PlayerTable \subseteq DOMAIN d.of[p]
    /\ DOMAIN d.offers = Thing /\ \A i \in Thing : d.offers[i] \in Owner \cup {None}

\* A job has not begun; or it has, d is what it made of the database so far, and the
\* statements left make of it what is meant.
IsJob(j) == {"who", "obj", "tries", "todo"} \subseteq DOMAIN j /\ j.who \in Owner \cup {None}
Waiting(j) == IsJob(j) /\ j.todo = Statements(j)

Beside(d, j, b) ==         \* what the job does not write
    /\ j.who = None => d.of = b.of
    /\ j.who # None => d.tiles = b.tiles /\ \A p \in Owner \ {j.who} : d.of[p] = b.of[p]
Ahead(a, T) ==          \* the statements of a transaction that has begun
    /\ \E S : a \in Seq(S)
    /\ Len(a) > 0 /\ a[Len(a)].op = "commit"
    /\ \A k \in 1 .. Len(a) - 1 : Writes(a[k]) /\ a[k].table \in T
Settles(d, j) ==
    \A t \in Written(j) :
        Leaves(j.todo, t, Meant(j, t)) \/ (Spares(j.todo, t) /\ StoredOf(d, j, t) = Meant(j, t))
UnderWay(j, d, b) ==
    /\ IsJob(j) /\ Database(d) /\ Beside(d, j, b) /\ Settles(d, j)
    /\ Ahead(j.todo, IF j.who = None THEN {"tiles"} ELSE PlayerTable)

JobsFit ==
    /\ \A k \in 2 .. Len(jobs) : Waiting(jobs[k])
    /\ jobs = <<>> => work = <<>>
    /\ jobs # <<>> /\ work = <<>> => Waiting(jobs[1])
    /\ work # <<>> => \E d : work = <<d>> /\ UnderWay(jobs[1], d, db)

StoreInv ==
    /\ StoredWhole /\ Database(db)
    /\ {"of", "tiles"} \subseteq DOMAIN asSaved /\ DOMAIN asSaved.of = Owner
    /\ \E S : jobs \in Seq(S)
    /\ JobsFit

LEMMA InARow ==
  ASSUME NEW S, NEW a \in Seq(S), NEW b \in Seq(S), NEW c, c = a \o b
  PROVE  /\ c \in Seq(S) /\ Len(c) = Len(a) + Len(b)
         /\ Len(a) \in Nat /\ Len(b) \in Nat
         /\ \A k \in 1 .. Len(a) : k \in 1 .. Len(c) /\ c[k] = a[k]
         /\ \A k \in 1 .. Len(b) : Len(a) + k \in 1 .. Len(c) /\ c[Len(a) + k] = b[k]
         /\ \A k \in 1 .. Len(c) :
               \/ k \in 1 .. Len(a) /\ c[k] = a[k]
               \/ k - Len(a) \in 1 .. Len(b) /\ c[k] = b[k - Len(a)]
  OBVIOUS

LEMMA SparingBoth ==
  ASSUME NEW S, NEW a \in Seq(S), NEW b \in Seq(S), NEW c, c = a \o b,
         NEW t, Spares(a, t), Spares(b, t)
  PROVE  Spares(c, t)
  BY InARow DEF Spares

LEMMA AllWriteBoth ==
  ASSUME NEW S, NEW a \in Seq(S), NEW b \in Seq(S), NEW c, c = a \o b,
         NEW T, AllWrite(a, T), AllWrite(b, T)
  PROVE  AllWrite(c, T)
  BY InARow DEF AllWrite

LEMMA LeavingFirst ==
  ASSUME NEW S, NEW a \in Seq(S), NEW b \in Seq(S), NEW c, c = a \o b,
         NEW t, NEW v, Leaves(a, t, v), Spares(b, t)
  PROVE  Leaves(c, t, v)
<1>1. PICK j \in 1 .. Len(a) :
          /\ Writes(a[j]) /\ a[j].table = t /\ Made(a[j]) = v
          /\ \A k \in 1 .. Len(a) : k > j => ~(Writes(a[k]) /\ a[k].table = t)
  BY DEF Leaves
<1>2. j \in 1 .. Len(c) /\ c[j] = a[j]
  BY InARow
<1>3. ASSUME NEW k \in 1 .. Len(c), k > j
      PROVE  ~(Writes(c[k]) /\ c[k].table = t)
  <2>1. CASE k \in 1 .. Len(a) /\ c[k] = a[k]
    BY <1>1, <1>3, <2>1
  <2>2. CASE k - Len(a) \in 1 .. Len(b) /\ c[k] = b[k - Len(a)]
    BY <2>2 DEF Spares
  <2> QED
    BY <2>1, <2>2, InARow
<1> QED
  BY <1>1, <1>2, <1>3 DEF Leaves

LEMMA LeavingLast ==
  ASSUME NEW S, NEW a \in Seq(S), NEW b \in Seq(S), NEW c, c = a \o b,
         NEW t, NEW v, Leaves(b, t, v)
  PROVE  Leaves(c, t, v)
<1>1. PICK j \in 1 .. Len(b) :
          /\ Writes(b[j]) /\ b[j].table = t /\ Made(b[j]) = v
          /\ \A k \in 1 .. Len(b) : k > j => ~(Writes(b[k]) /\ b[k].table = t)
  BY DEF Leaves
<1>2. PICK l \in Nat : l = Len(a)
  BY LenProperties
<1>3. PICK i \in 1 .. Len(c) : i = l + j /\ c[i] = b[j]
  BY <1>2, InARow
<1>4. ASSUME NEW k \in 1 .. Len(c), k > i
      PROVE  ~(Writes(c[k]) /\ c[k].table = t)
  <2>1. k \notin 1 .. Len(a)
    BY <1>2, <1>3, <1>4
  <2>2. k - Len(a) \in 1 .. Len(b) /\ c[k] = b[k - Len(a)]
    BY <2>1, InARow
  <2>3. k - Len(a) > j
    BY <1>2, <1>3, <1>4
  <2> QED
    BY <1>1, <2>2, <2>3
<1> QED
  BY <1>1, <1>3, <1>4 DEF Leaves

\* One statement, and the rewriting of a table.
LEMMA OneStatement ==
  ASSUME NEW S, NEW s \in S, NEW a, a = <<s>>, Writes(s)
  PROVE  /\ a \in Seq(S) /\ AllWrite(a, {s.table}) /\ Leaves(a, s.table, Made(s))
         /\ \A t : t # s.table => Spares(a, t)
<1>1. a \in Seq(S) /\ Len(a) = 1 /\ a[1] = s
  OBVIOUS
<1>2. AllWrite(a, {s.table})
  BY <1>1 DEF AllWrite
<1>3. Leaves(a, s.table, Made(s))
  BY <1>1 DEF Leaves
<1>4. \A t : t # s.table => Spares(a, t)
  BY <1>1 DEF Spares
<1> QED
  BY <1>1, <1>2, <1>3, <1>4

LEMMA StatementIs ==
  ASSUME NEW op, NEW table, NEW value, NEW s, s = Statement(op, table, value)
  PROVE  s.op = op /\ s.table = table /\ s.value = value
  BY DEF Statement

\* a is made of statements that write the tables of T, and leaves what h has in each.
Saves(a, S, T, h) ==
    /\ a \in Seq(S) /\ AllWrite(a, T)
    /\ \A t \in T : Leaves(a, t, StoredAs(h)[t])
    /\ \A t : t \notin T => Spares(a, t)

LEMMA SavingBoth ==
  ASSUME NEW S, NEW a, NEW b, NEW T, NEW U, NEW h,
         Saves(a, S, T, h), Saves(b, S, U, h), NEW c, c = a \o b
  PROVE  Saves(c, S, T \cup U, h)
<1>1. a \in Seq(S) /\ b \in Seq(S) /\ c \in Seq(S)
  BY InARow DEF Saves
<1>2. AllWrite(a, T \cup U) /\ AllWrite(b, T \cup U)
  BY DEF Saves, AllWrite
<1>3. AllWrite(c, T \cup U)
  BY <1>1, <1>2, AllWriteBoth
<1>4. ASSUME NEW t \in T \cup U
      PROVE  Leaves(c, t, StoredAs(h)[t])
  <2>1. CASE t \in U
    <3>1. Leaves(b, t, StoredAs(h)[t])
      BY <2>1 DEF Saves
    <3> QED
      BY <1>1, <3>1, LeavingLast
  <2>2. CASE t \notin U
    <3>1. Leaves(a, t, StoredAs(h)[t]) /\ Spares(b, t)
      BY <1>4, <2>2 DEF Saves
    <3> QED
      BY <1>1, <3>1, LeavingFirst
  <2> QED
    BY <2>1, <2>2
<1>5. ASSUME NEW t, t \notin T \cup U
      PROVE  Spares(c, t)
  <2>1. Spares(a, t) /\ Spares(b, t)
    BY <1>5 DEF Saves
  <2> QED
    BY <1>1, <2>1, SparingBoth
<1> QED
  BY <1>1, <1>3, <1>4, <1>5 DEF Saves

\* What a save of h may say.
StatementsOf(h) ==
    [op : {"begin", "delete", "insert", "update", "commit"}, table : PlayerTable \cup {None},
     value : {None, {}} \cup {StoredAs(h)[t] : t \in PlayerTable}]

LEMMA StoredAsIs ==
  ASSUME NEW h
  PROVE  /\ DOMAIN StoredAs(h) = PlayerTable
         /\ StoredAs(h)["row"] = [gold |-> h.gold, fed |-> h.fed]
         /\ StoredAs(h)["storage"] = h.done
         /\ \A t \in ItemTable : StoredAs(h)[t] = ToSet(Rows(h.list, t))
  BY DEF StoredAs, PlayerTable, ItemTable

LEMMA StatementsAre ==
  ASSUME NEW h, NEW op \in {"begin", "delete", "insert", "update", "commit"},
         NEW table \in PlayerTable \cup {None},
         NEW value, value \in {None, {}} \/ \E t \in PlayerTable : value = StoredAs(h)[t],
         NEW s, s = Statement(op, table, value)
  PROVE  s \in StatementsOf(h)
  BY DEF Statement, StatementsOf

\* One table is written at once.
LEMMA WritingAtOnce ==
  ASSUME NEW h, NEW op \in {"delete", "insert", "update"}, NEW t \in PlayerTable,
         NEW v, v = StoredAs(h)[t], v = {} \/ op # "delete",
         NEW a, a = <<Statement(op, t, v)>>
  PROVE  Saves(a, StatementsOf(h), {t}, h)
<1>1. PICK s : s = Statement(op, t, v)
  OBVIOUS
<1>2. s \in StatementsOf(h) /\ s.op = op /\ s.table = t /\ s.value = v
  BY <1>1, StatementsAre, StatementIs
<1>3. Writes(s)
  BY <1>2 DEF Writes
<1>4. t # "tiles"
  BY DEF PlayerTable, ItemTable
<1>5. Made(s) = v
  BY <1>2, <1>4 DEF Made
<1>6. a = <<s>>
  BY <1>1
<1>7. /\ a \in Seq(StatementsOf(h)) /\ AllWrite(a, {t}) /\ Leaves(a, t, v)
      /\ \A u : u # t => Spares(a, u)
  BY <1>2, <1>3, <1>5, <1>6, OneStatement
<1> QED
  BY <1>7 DEF Saves

LEMMA RewriteSaves ==
  ASSUME NEW h, NEW t \in ItemTable, NEW a, a = Rewrite(h.list, t)
  PROVE  Saves(a, StatementsOf(h), {t}, h)
<1>1. PICK rows : rows = Rows(h.list, t)
  OBVIOUS
<1>2. StoredAs(h)[t] = ToSet(rows) /\ t \in PlayerTable
  BY <1>1, StoredAsIs DEF PlayerTable
<1>3. PICK b : b = <<Statement("delete", t, {})>>
  OBVIOUS
<1>4. a = b \o (IF rows = <<>> THEN <<>> ELSE <<Statement("insert", t, ToSet(rows))>>)
  BY <1>1, <1>3 DEF Rewrite
<1>5. PICK s : s = Statement("delete", t, {})
  OBVIOUS
<1>6. s \in StatementsOf(h) /\ s.table = t /\ Writes(s)
  BY <1>2, <1>5, StatementsAre, StatementIs DEF Writes
<1>7. b = <<s>>
  BY <1>3, <1>5
<1>8. /\ b \in Seq(StatementsOf(h)) /\ AllWrite(b, {t})
      /\ \A u : u # t => Spares(b, u)
  BY <1>6, <1>7, OneStatement
<1>9. CASE rows = <<>>
  <2>1. ToSet(rows) = {}
    BY <1>9 DEF ToSet
  <2>2. a = b
    BY <1>4, <1>8, <1>9
  <2>3. Saves(b, StatementsOf(h), {t}, h)
    BY <1>2, <1>3, <2>1, WritingAtOnce
  <2> QED
    BY <2>2, <2>3
<1>10. CASE rows # <<>>
  <2>1. PICK c : c = <<Statement("insert", t, ToSet(rows))>>
    OBVIOUS
  <2>2. Saves(c, StatementsOf(h), {t}, h)
    BY <1>2, <2>1, WritingAtOnce
  <2>3. a = b \o c
    BY <1>4, <1>10, <2>1
  <2>4. /\ c \in Seq(StatementsOf(h)) /\ AllWrite(c, {t}) /\ Leaves(c, t, StoredAs(h)[t])
        /\ \A u : u # t => Spares(c, u)
    BY <2>2 DEF Saves
  <2>5. a \in Seq(StatementsOf(h))
    BY <1>8, <2>3, <2>4, InARow
  <2>6. AllWrite(a, {t})
    BY <1>8, <2>3, <2>4, AllWriteBoth
  <2>7. Leaves(a, t, StoredAs(h)[t])
    BY <1>8, <2>3, <2>4, LeavingLast
  <2>8. ASSUME NEW u, u # t
        PROVE  Spares(a, u)
    <3>1. Spares(b, u) /\ Spares(c, u)
      BY <1>8, <2>4, <2>8
    <3> QED
      BY <1>8, <2>3, <2>4, <3>1, SparingBoth
  <2> QED
    BY <2>5, <2>6, <2>7, <2>8 DEF Saves
<1> QED
  BY <1>9, <1>10

LEMMA NothingSaves ==
  ASSUME NEW S, NEW h
  PROVE  Saves(<<>>, S, {}, h)
  BY DEF Saves, AllWrite, Spares

LEMMA SaveIsWhole ==
  ASSUME NEW h, NEW a, a = SaveStatements(h)
  PROVE  Saves(a, StatementsOf(h), Rewritten(h), h)
<1> DEFINE S == StatementsOf(h)
<1>1. PICK a1 : a1 = <<Statement("update", "row", [gold |-> h.gold, fed |-> h.fed])>>
  OBVIOUS
<1>2. PICK a2 : a2 = Rewrite(h.list, "items")
  OBVIOUS
<1>3. PICK a3 : a3 = IF h.depotOpen THEN Rewrite(h.list, "depot") ELSE <<>>
  OBVIOUS
<1>4. PICK a4 : a4 = Rewrite(h.list, "inbox")
  OBVIOUS
<1>5. PICK a5 : a5 = Rewrite(h.list, "store")
  OBVIOUS
<1>6. PICK a6 : a6 = <<Statement("update", "storage", h.done)>>
  OBVIOUS
<1>7. PICK b2 : b2 = a1 \o a2
  OBVIOUS
<1>8. PICK b3 : b3 = b2 \o a3
  OBVIOUS
<1>9. PICK b4 : b4 = b3 \o a4
  OBVIOUS
<1>10. PICK b5 : b5 = b4 \o a5
  OBVIOUS
<1>11. a = b5 \o a6
  BY <1>1, <1>2, <1>3, <1>4, <1>5, <1>6, <1>7, <1>8, <1>9, <1>10 DEF SaveStatements
<1>12. PICK D : D = IF h.depotOpen THEN {"depot"} ELSE {}
  OBVIOUS
<1>13. "row" \in PlayerTable /\ "storage" \in PlayerTable
       /\ {"items", "depot", "inbox", "store"} = ItemTable
  BY DEF PlayerTable, ItemTable
<1>14. Saves(a1, S, {"row"}, h)
  <2>1. StoredAs(h)["row"] = [gold |-> h.gold, fed |-> h.fed]
    BY StoredAsIs
  <2> QED
    BY <1>1, <1>13, <2>1, WritingAtOnce
<1>15. Saves(a6, S, {"storage"}, h)
  <2>1. StoredAs(h)["storage"] = h.done
    BY StoredAsIs
  <2> QED
    BY <1>6, <1>13, <2>1, WritingAtOnce
<1>16. Saves(a2, S, {"items"}, h) /\ Saves(a4, S, {"inbox"}, h) /\ Saves(a5, S, {"store"}, h)
  BY <1>2, <1>4, <1>5, <1>13, RewriteSaves
<1>17. Saves(a3, S, D, h)
  <2>1. CASE h.depotOpen
    <3>1. a3 = Rewrite(h.list, "depot") /\ D = {"depot"}
      BY <1>3, <1>12, <2>1
    <3> QED
      BY <1>13, <3>1, RewriteSaves
  <2>2. CASE ~h.depotOpen
    <3>1. a3 = <<>> /\ D = {}
      BY <1>3, <1>12, <2>2
    <3> QED
      BY <3>1, NothingSaves
  <2> QED
    BY <2>1, <2>2
<1> HIDE DEF S
<1>18. Saves(b2, S, {"row"} \cup {"items"}, h)
  BY <1>7, <1>14, <1>16, SavingBoth
<1>19. Saves(b3, S, {"row"} \cup {"items"} \cup D, h)
  BY <1>8, <1>17, <1>18, SavingBoth
<1>20. Saves(b4, S, {"row"} \cup {"items"} \cup D \cup {"inbox"}, h)
  BY <1>9, <1>16, <1>19, SavingBoth
<1>21. Saves(b5, S, {"row"} \cup {"items"} \cup D \cup {"inbox"} \cup {"store"}, h)
  BY <1>10, <1>16, <1>20, SavingBoth
<1>22. Saves(a, S,
             {"row"} \cup {"items"} \cup D \cup {"inbox"} \cup {"store"} \cup {"storage"}, h)
  BY <1>11, <1>15, <1>21, SavingBoth
<1>23. {"row"} \cup {"items"} \cup D \cup {"inbox"} \cup {"store"} \cup {"storage"} = Rewritten(h)
  BY <1>12 DEF Rewritten
<1> QED
  BY <1>22, <1>23 DEF S

\* The statements of a save, between its begin and its commit.
\* After its first statement a saves h whole, and is committed.
SavesAndEnds(a, h) ==
    \E b, c : Saves(b, StatementsOf(h), Rewritten(h), h) /\ c \in StatementsOf(h)
               /\ c.op = "commit" /\ Tail(a) = b \o <<c>>

LEMMA PlayerBegins ==
  ASSUME NEW h, NEW a, a = PlayerStatements(h)
  PROVE  /\ a \in Seq(StatementsOf(h)) /\ Len(a) > 1 /\ a[1].op = "begin"
         /\ SavesAndEnds(a, h)
<1> DEFINE S == StatementsOf(h)
<1>1. PICK b : b = SaveStatements(h)
  OBVIOUS
<1>2. PICK o : o = Statement("begin", None, None)
  OBVIOUS
<1>3. PICK c : c = Statement("commit", None, None)
  OBVIOUS
<1>4. a = <<o>> \o b \o <<c>>
  BY <1>1, <1>2, <1>3 DEF PlayerStatements
<1>5. Saves(b, S, Rewritten(h), h)
  BY <1>1, SaveIsWhole
<1>6. b \in Seq(S)
  BY <1>5 DEF Saves
<1>7. o \in S /\ o.op = "begin" /\ c \in S /\ c.op = "commit"
  BY <1>2, <1>3, StatementsAre, StatementIs
<1> HIDE DEF S
<1>8. /\ a \in Seq(S) /\ Len(a) = Len(b) + 2 /\ Len(b) \in Nat
      /\ a[1] = o
  BY <1>4, <1>6, <1>7
<1>9. Tail(a) = b \o <<c>>
  BY <1>4, <1>6, <1>7
<1>10. a \in Seq(S) /\ Len(a) > 1 /\ a[1].op = "begin"
  BY <1>7, <1>8
<1>11. \E x, y : Saves(x, S, Rewritten(h), h) /\ y \in S /\ y.op = "commit"
                 /\ Tail(a) = x \o <<y>>
  BY <1>5, <1>7, <1>9
<1>12. SavesAndEnds(a, h)
  BY <1>11 DEF S, SavesAndEnds
<1> QED
  BY <1>10, <1>12 DEF S

LEMMA HouseBegins ==
  ASSUME NEW g, NEW a, a = HouseStatements(g),
         NEW v, v = [x \in DOMAIN g |-> Reverse(g[x])]
  PROVE  /\ \E S : a \in Seq(S)
         /\ Len(a) = 4 /\ a[1].op = "begin"
         /\ a[2].op = "delete" /\ a[2].table = "tiles"
         /\ a[3].op = "insert" /\ a[3].table = "tiles" /\ a[3].value = v
         /\ a[4].op = "commit"
<1>1. a = <<Statement("begin", None, None), Statement("delete", "tiles", None),
            Statement("insert", "tiles", v), Statement("commit", None, None)>>
  BY DEF HouseStatements
<1>2. a \in Seq({Statement("begin", None, None), Statement("delete", "tiles", None),
                 Statement("insert", "tiles", v), Statement("commit", None, None)})
  BY <1>1
<1>3. /\ Len(a) = 4
      /\ a[1] = Statement("begin", None, None) /\ a[2] = Statement("delete", "tiles", None)
      /\ a[3] = Statement("insert", "tiles", v) /\ a[4] = Statement("commit", None, None)
  BY <1>1
<1> QED
  BY <1>2, <1>3, StatementIs

\* Without its first statement.
LEMMA WithoutFirst ==
  ASSUME NEW S, NEW a \in Seq(S), Len(a) > 0, NEW b, b = Tail(a)
  PROVE  /\ b \in Seq(S) /\ Len(b) = Len(a) - 1 /\ Len(a) \in Nat
         /\ \A k \in 1 .. Len(b) : k + 1 \in 1 .. Len(a) /\ b[k] = a[k + 1]
         /\ \A k \in 1 .. Len(a) : k # 1 => k - 1 \in 1 .. Len(b) /\ b[k - 1] = a[k]
  OBVIOUS

LEMMA SparesLess ==
  ASSUME NEW S, NEW a \in Seq(S), Len(a) > 0, NEW b, b = Tail(a), NEW t, Spares(a, t)
  PROVE  Spares(b, t)
  BY WithoutFirst DEF Spares

\* Either the statements after the first leave v in t, or the first does.
NowOrLater(a, b, t, v) ==
    \/ Leaves(b, t, v)
    \/ Spares(b, t) /\ Writes(a[1]) /\ a[1].table = t /\ Made(a[1]) = v

LEMMA LeavesLess ==
  ASSUME NEW S, NEW a \in Seq(S), Len(a) > 0, NEW b, b = Tail(a), NEW t, NEW v,
         Leaves(a, t, v)
  PROVE  NowOrLater(a, b, t, v)
<1>1. PICK j \in 1 .. Len(a) :
          /\ Writes(a[j]) /\ a[j].table = t /\ Made(a[j]) = v
          /\ \A k \in 1 .. Len(a) : k > j => ~(Writes(a[k]) /\ a[k].table = t)
  BY DEF Leaves
<1>2. \A k \in 1 .. Len(b) : k + 1 \in 1 .. Len(a) /\ b[k] = a[k + 1]
  BY WithoutFirst
<1>3. CASE j = 1
  <2>1. ASSUME NEW k \in 1 .. Len(b)
        PROVE  ~(Writes(b[k]) /\ b[k].table = t)
    <3>1. k + 1 > 1
      OBVIOUS
    <3> QED
      BY <1>1, <1>2, <1>3, <3>1
  <2> QED
    BY <1>1, <1>3, <2>1 DEF Spares, NowOrLater
<1>4. CASE j # 1
  <2>1. PICK i \in 1 .. Len(b) : i = j - 1 /\ b[i] = a[j]
    BY <1>4, WithoutFirst
  <2>2. ASSUME NEW k \in 1 .. Len(b), k > i
        PROVE  ~(Writes(b[k]) /\ b[k].table = t)
    <3>1. k + 1 > j
      BY <2>1, <2>2
    <3> QED
      BY <1>1, <1>2, <3>1
  <2> QED
    BY <1>1, <2>1, <2>2 DEF Leaves, NowOrLater
<1> QED
  BY <1>3, <1>4

\* A job whose transaction begins, or whose next statement is executed.
LEMMA JobAfter ==
  ASSUME NEW j, IsJob(j), NEW k, k = [j EXCEPT !.todo = Tail(@)]
  PROVE  /\ IsJob(k) /\ k.who = j.who /\ k.obj = j.obj /\ k.todo = Tail(j.todo)
         /\ Written(k) = Written(j) /\ Statements(k) = Statements(j)
         /\ \A t : Meant(k, t) = Meant(j, t)
         /\ \A d, t : StoredOf(d, k, t) = StoredOf(d, j, t)
<1>1. /\ DOMAIN k = DOMAIN j /\ k.who = j.who /\ k.obj = j.obj /\ k.todo = Tail(j.todo)
  BY DEF IsJob
<1> QED
  BY <1>1 DEF IsJob, Written, Statements, Meant, StoredOf

TablesOf(j) == IF j.who = None THEN {"tiles"} ELSE PlayerTable

LEMMA Beginning ==
  ASSUME NEW j, Waiting(j), NEW d, Database(d), NEW k, k = [j EXCEPT !.todo = Tail(@)]
  PROVE  UnderWay(k, d, d)
<1>1. /\ IsJob(k) /\ k.who = j.who /\ k.obj = j.obj /\ k.todo = Tail(j.todo)
      /\ j.todo = Statements(j)
  BY JobAfter DEF Waiting
<1>2. Beside(d, k, d)
  BY DEF Beside
<1>3. PICK b : b = k.todo
  OBVIOUS
<1>4. CASE j.who # None
  <2>1. PICK h : h = j.obj
    OBVIOUS
  <2>2. PICK a : a = PlayerStatements(h)
    OBVIOUS
  <2>3. b = Tail(a)
    BY <1>1, <1>3, <1>4, <2>1, <2>2 DEF Statements
  <2>4. PICK S : S = StatementsOf(h)
    OBVIOUS
  <2>5. PICK x, y : /\ Saves(x, S, Rewritten(h), h) /\ y \in S /\ y.op = "commit"
                    /\ b = x \o <<y>>
    <3>1. SavesAndEnds(a, h)
      BY <2>2, PlayerBegins
    <3> QED
      BY <2>3, <2>4, <3>1 DEF SavesAndEnds
  <2>6. PICK c : c = <<y>>
    OBVIOUS
  <2>7. x \in Seq(S) /\ c \in Seq(S) /\ b = x \o c /\ Len(c) = 1 /\ c[1] = y
    BY <2>5, <2>6 DEF Saves
  <2>8. b \in Seq(S) /\ Len(b) = Len(x) + 1 /\ Len(x) \in Nat
    <3>1. x \in Seq(S) /\ c \in Seq(S) /\ Len(c) = 1
      BY <2>7
    <3>2. x \o c \in Seq(S) /\ Len(x \o c) = Len(x) + Len(c) /\ Len(x) \in Nat
      BY <3>1, ConcatProperties, LenProperties
    <3> QED
      BY <2>7, <3>1, <3>2
  <2>9. b[Len(b)] = y
    BY <2>7, <2>8, InARow
  <2>10. ASSUME NEW n \in 1 .. Len(b) - 1
         PROVE  Writes(b[n]) /\ b[n].table \in PlayerTable
    <3>1. n \in 1 .. Len(x)
      BY <2>8
    <3>2. b[n] = x[n]
      BY <2>7, <3>1, InARow
    <3>3. Writes(x[n]) /\ x[n].table \in Rewritten(h)
      BY <2>5, <3>1 DEF Saves, AllWrite
    <3> QED
      BY <3>2, <3>3 DEF Rewritten, PlayerTable, ItemTable
  <2>11. Ahead(b, PlayerTable)
    BY <2>5, <2>8, <2>9, <2>10 DEF Ahead
  <2>12. \A t : Spares(c, t)
    BY <2>5, <2>7 DEF Spares, Writes
  <2>13. ASSUME NEW t \in Rewritten(h)
         PROVE  Leaves(b, t, StoredAs(h)[t])
    <3>1. Leaves(x, t, StoredAs(h)[t])
      BY <2>5 DEF Saves
    <3> QED
      BY <2>7, <2>12, <3>1, LeavingFirst
  <2>14. /\ Written(k) = Rewritten(h)
         /\ \A t : Meant(k, t) = StoredAs(h)[t]
    BY <1>1, <1>4, <2>1 DEF Written, Meant
  <2>15. Settles(d, k)
    BY <1>3, <2>13, <2>14 DEF Settles
  <2> QED
    BY <1>1, <1>2, <1>3, <1>4, <2>11, <2>15 DEF UnderWay
<1>5. CASE j.who = None
  <2>1. PICK g : g = j.obj
    OBVIOUS
  <2>2. PICK a : a = HouseStatements(g)
    OBVIOUS
  <2>3. PICK v : v = [x \in DOMAIN g |-> Reverse(g[x])]
    OBVIOUS
  <2>4. /\ \E S : a \in Seq(S)
        /\ Len(a) = 4
        /\ a[2].op = "delete" /\ a[2].table = "tiles"
        /\ a[3].op = "insert" /\ a[3].table = "tiles" /\ a[3].value = v
        /\ a[4].op = "commit"
    BY <2>2, <2>3, HouseBegins
  <2>5. b = Tail(a)
    BY <1>1, <1>3, <1>5, <2>1, <2>2 DEF Statements
  <2>6. PICK S : a \in Seq(S)
    BY <2>4
  <2>7. b \in Seq(S) /\ Len(b) = 3 /\ b[1] = a[2] /\ b[2] = a[3] /\ b[3] = a[4]
    <3>1. Len(a) = 4
      BY <2>4
    <3>2. b \in Seq(S) /\ Len(b) = 3
      BY <2>5, <2>6, <3>1, WithoutFirst
    <3>3. \A n \in 1 .. Len(b) : b[n] = a[n + 1]
      BY <2>5, <2>6, <3>1, WithoutFirst
    <3> QED
      BY <3>2, <3>3
  <2>8. Ahead(b, {"tiles"})
    <3>1. \A n \in 1 .. Len(b) - 1 : n = 1 \/ n = 2
      BY <2>7
    <3>2. Writes(b[1]) /\ b[1].table \in {"tiles"} /\ Writes(b[2]) /\ b[2].table \in {"tiles"}
      BY <2>4, <2>7 DEF Writes
    <3> QED
      BY <2>4, <2>7, <3>1, <3>2 DEF Ahead
  <2>9. Leaves(b, "tiles", v)
    <3>1. Writes(b[2]) /\ b[2].table = "tiles" /\ Made(b[2]) = v
      BY <2>4, <2>7 DEF Writes, Made
    <3>2. \A n \in 1 .. Len(b) : n > 2 => ~Writes(b[n])
      BY <2>4, <2>7 DEF Writes
    <3> QED
      BY <2>7, <3>1, <3>2 DEF Leaves
  <2>10. Written(k) = {"tiles"} /\ Meant(k, "tiles") = v
    BY <1>1, <1>5, <2>1, <2>3 DEF Written, Meant
  <2>11. Settles(d, k)
    BY <1>3, <2>9, <2>10 DEF Settles
  <2> QED
    BY <1>1, <1>2, <1>3, <1>5, <2>8, <2>11 DEF UnderWay
<1> QED
  BY <1>4, <1>5

\* What a statement of a job makes of a database.
LEMMA DoneIs ==
  ASSUME NEW d, Database(d), NEW j, IsJob(j), NEW s, s.table \in TablesOf(j),
         NEW e, e = Done(d, j, s)
  PROVE  /\ Database(e)
         /\ j.who = None => e.of = d.of
         /\ j.who # None => e.tiles = d.tiles /\ \A p \in Owner \ {j.who} : e.of[p] = d.of[p]
         /\ StoredOf(e, j, s.table) = Made(s)
         /\ \A t \in TablesOf(j) : t # s.table => StoredOf(e, j, t) = StoredOf(d, j, t)
<1>1. CASE j.who = None
  <2>1. s.table = "tiles"
    BY <1>1 DEF TablesOf
  <2>2. e = [d EXCEPT !.tiles = Made(s)]
    BY <2>1 DEF Done, Made
  <2>3. e.of = d.of /\ DOMAIN e = DOMAIN d /\ e.tiles = Made(s) /\ e.offers = d.offers
    BY <2>2 DEF Database
  <2> QED
    BY <1>1, <2>1, <2>3 DEF Database, StoredOf, TablesOf
<1>2. CASE j.who # None
  <2>1. PICK p \in Owner : p = j.who
    BY <1>2 DEF IsJob
  <2>2. s.table \in PlayerTable /\ s.table # "tiles"
    BY <1>2 DEF TablesOf, PlayerTable, ItemTable
  <2>3. Made(s) = s.value
    BY <2>2 DEF Made
  <2>4. PICK r : r = [d.of[p] EXCEPT ![s.table] = s.value]
    OBVIOUS
  <2>5. /\ DOMAIN r = DOMAIN d.of[p] /\ r[s.table] = s.value
        /\ \A t \in PlayerTable : t # s.table => r[t] = d.of[p][t]
    BY <2>2, <2>4 DEF Database
  <2>6. PICK o : o = [d.of EXCEPT ![p] = r]
    OBVIOUS
  <2>7. DOMAIN o = Owner /\ o[p] = r /\ \A q \in Owner : q # p => o[q] = d.of[q]
    BY <2>6 DEF Database
  <2>8. e = [d EXCEPT !.of = o]
    BY <2>1, <2>2, <2>4, <2>6 DEF Done
  <2>9. DOMAIN e = DOMAIN d /\ e.of = o /\ e.tiles = d.tiles /\ e.offers = d.offers
    BY <2>8 DEF Database
  <2>10. Database(e)
    <3>1. \A q \in Owner : PlayerTable \subseteq DOMAIN o[q]
      BY <2>5, <2>7 DEF Database
    <3> QED
      BY <2>7, <2>9, <3>1 DEF Database
  <2>11. \A t : StoredOf(e, j, t) = r[t] /\ StoredOf(d, j, t) = d.of[p][t]
    BY <1>2, <2>1, <2>7, <2>9 DEF StoredOf
  <2> QED
    BY <1>2, <2>1, <2>3, <2>5, <2>7, <2>9, <2>10, <2>11 DEF TablesOf
<1> QED
  BY <1>1, <1>2

LEMMA AheadIs ==
  ASSUME NEW a, NEW T, Ahead(a, T)
  PROVE  /\ Len(a) \in Nat /\ Len(a) > 0 /\ a # <<>>
         /\ Writes(a[1]) => a[1].table \in T /\ Ahead(Tail(a), T)
         /\ ~Writes(a[1]) => Len(a) = 1
         /\ a[1].op = "commit" => ~Writes(a[1])
         /\ ~Writes(a[1]) => a[1].op = "commit"
<1>1. PICK S : a \in Seq(S)
  BY DEF Ahead
<1>2. /\ Len(a) \in Nat /\ Len(a) > 0 /\ a[Len(a)].op = "commit"
      /\ \A k \in 1 .. Len(a) - 1 : Writes(a[k]) /\ a[k].table \in T
  BY <1>1 DEF Ahead
<1>3. ASSUME Writes(a[1])
      PROVE  a[1].table \in T /\ Ahead(Tail(a), T)
  <2>1. Len(a) # 1
    BY <1>2, <1>3 DEF Writes
  <2>8. Len(a) \in Nat /\ Len(a) > 0
    BY <1>2
  <2>2. PICK b : b = Tail(a)
    OBVIOUS
  <2>3. /\ b \in Seq(S) /\ Len(b) = Len(a) - 1
        /\ \A k \in 1 .. Len(b) : k + 1 \in 1 .. Len(a) /\ b[k] = a[k + 1]
    BY <1>1, <1>2, <2>2, WithoutFirst
  <2>4. Len(b) > 0 /\ b[Len(b)] = a[Len(a)]
    <3>1. Len(b) \in 1 .. Len(b) /\ Len(b) + 1 = Len(a)
      BY <1>2, <2>1, <2>3
    <3> QED
      BY <2>3, <3>1
  <2>5. ASSUME NEW k \in 1 .. Len(b) - 1
        PROVE  Writes(b[k]) /\ b[k].table \in T
    <3>1. k \in 1 .. Len(b) /\ k + 1 \in 1 .. Len(a) - 1
      BY <1>2, <2>3
    <3> QED
      BY <1>2, <2>3, <3>1
  <2>6. Ahead(b, T)
    BY <1>2, <2>3, <2>4, <2>5 DEF Ahead
  <2>7. a[1].table \in T
    <3>1. PICK n \in Nat : n = Len(a) /\ n > 0 /\ n # 1
      BY <2>1, <2>8
    <3>2. 1 \in 1 .. n - 1
      BY <3>1
    <3>3. 1 \in 1 .. Len(a) - 1
      BY <3>1, <3>2
    <3> QED
      BY <1>2, <3>3
  <2> QED
    BY <2>2, <2>6, <2>7
<1>4. ASSUME ~Writes(a[1])
      PROVE  Len(a) = 1 /\ a[1].op = "commit"
  <2>1. Len(a) = 1
    BY <1>2, <1>4
  <2> QED
    BY <1>2, <2>1
<1>5. a[1].op = "commit" => ~Writes(a[1])
  BY DEF Writes
<1>6. a # <<>>
  BY <1>2
<1> QED
  BY <1>2, <1>3, <1>4, <1>5, <1>6

LEMMA SameTables ==
  ASSUME NEW j
  PROVE  /\ TablesOf(j) = IF j.who = None THEN {"tiles"} ELSE PlayerTable
         /\ Written(j) \subseteq TablesOf(j)
  BY DEF TablesOf, Written, Rewritten, PlayerTable, ItemTable

\* A statement is executed.
LEMMA Executing ==
  ASSUME NEW j, NEW d, NEW base, UnderWay(j, d, base), NEW s, s = j.todo[1], Writes(s),
         NEW k, k = [j EXCEPT !.todo = Tail(@)], NEW e, e = Done(d, j, s)
  PROVE  UnderWay(k, e, base)
<1>1. /\ IsJob(j) /\ Database(d) /\ Beside(d, j, base) /\ Settles(d, j)
      /\ Ahead(j.todo, TablesOf(j))
  BY DEF UnderWay, TablesOf
<1>2. /\ IsJob(k) /\ k.who = j.who /\ k.obj = j.obj /\ k.todo = Tail(j.todo)
      /\ Written(k) = Written(j)
      /\ \A t : Meant(k, t) = Meant(j, t)
      /\ \A c, t : StoredOf(c, k, t) = StoredOf(c, j, t)
  BY <1>1, JobAfter
<1>3. s.table \in TablesOf(j) /\ Ahead(k.todo, TablesOf(j))
  BY <1>1, <1>2, AheadIs
<1>4. /\ Database(e)
      /\ j.who = None => e.of = d.of
      /\ j.who # None => e.tiles = d.tiles /\ \A p \in Owner \ {j.who} : e.of[p] = d.of[p]
      /\ StoredOf(e, j, s.table) = Made(s)
      /\ \A t \in TablesOf(j) : t # s.table => StoredOf(e, j, t) = StoredOf(d, j, t)
  BY <1>1, <1>3, DoneIs
<1>5. Beside(e, k, base)
  BY <1>1, <1>2, <1>4 DEF Beside
<1>6. PICK S : j.todo \in Seq(S)
  BY <1>1 DEF Ahead
<1>7. Len(j.todo) > 0
  BY <1>1, AheadIs
<1>8. ASSUME NEW t \in Written(j)
      PROVE  \/ Leaves(k.todo, t, Meant(j, t))
             \/ Spares(k.todo, t) /\ StoredOf(e, j, t) = Meant(j, t)
  <2>1. t \in TablesOf(j)
    BY SameTables
  <2>2. CASE Leaves(j.todo, t, Meant(j, t))
    <3>1. PICK v : v = Meant(j, t)
      OBVIOUS
    <3>2. \/ Leaves(k.todo, t, v)
          \/ Spares(k.todo, t) /\ s.table = t /\ Made(s) = v
      <4>1. PICK a \in Seq(S) : a = j.todo
        BY <1>6
      <4>2. PICK b : b = Tail(a)
        OBVIOUS
      <4>3. Len(a) > 0 /\ Leaves(a, t, v)
        BY <1>7, <2>2, <3>1, <4>1
      <4>4. NowOrLater(a, b, t, v)
        BY <4>2, <4>3, LeavesLess
      <4>5. b = k.todo /\ a[1] = s
        BY <1>2, <4>1, <4>2
      <4> QED
        BY <4>4, <4>5 DEF NowOrLater
    <3> QED
      BY <1>4, <3>1, <3>2
  <2>3. CASE Spares(j.todo, t) /\ StoredOf(d, j, t) = Meant(j, t)
    <3>1. Spares(k.todo, t)
      BY <1>2, <1>6, <1>7, <2>3, SparesLess
    <3>2. t # s.table
      BY <1>6, <1>7, <2>3 DEF Spares
    <3> QED
      BY <1>4, <2>1, <2>3, <3>1, <3>2
  <2> QED
    BY <1>1, <2>2, <2>3 DEF Settles
<1>9. Settles(e, k)
  BY <1>2, <1>8 DEF Settles
<1>10. TablesOf(k) = TablesOf(j)
  BY <1>2 DEF TablesOf
<1> QED
  BY <1>2, <1>3, <1>4, <1>5, <1>9, <1>10 DEF UnderWay, TablesOf

\* When the commit comes, everything is as it was meant.
LEMMA Committing ==
  ASSUME NEW j, NEW d, NEW base, UnderWay(j, d, base), j.todo[1].op = "commit", NEW t \in Written(j)
  PROVE  StoredOf(d, j, t) = Meant(j, t)
<1>1. Ahead(j.todo, TablesOf(j)) /\ Settles(d, j)
  BY DEF UnderWay, TablesOf
<1>2. Len(j.todo) = 1 /\ ~Writes(j.todo[1])
  BY <1>1, AheadIs
<1>3. ~Leaves(j.todo, t, Meant(j, t))
  BY <1>2 DEF Leaves
<1> QED
  BY <1>1, <1>3 DEF Settles

\* A job that waits begins with its transaction; one under way does not.
LEMMA WaitingIs ==
  ASSUME NEW j, Waiting(j)
  PROVE  j.todo[1].op = "begin" /\ ~Writes(j.todo[1]) /\ j.todo # <<>>
<1>1. j.todo[1].op = "begin" /\ j.todo # <<>>
  <2>1. CASE j.who = None
    <3>1. j.todo = HouseStatements(j.obj)
      BY <2>1 DEF Waiting, Statements
    <3>2. PICK v : v = [x \in DOMAIN j.obj |-> Reverse(j.obj[x])]
      OBVIOUS
    <3>3. Len(j.todo) = 4 /\ j.todo[1].op = "begin"
      BY <3>1, <3>2, HouseBegins
    <3> QED
      BY <3>3
  <2>2. CASE j.who # None
    <3>1. j.todo = PlayerStatements(j.obj)
      BY <2>2 DEF Waiting, Statements
    <3>2. Len(j.todo) > 1 /\ j.todo[1].op = "begin"
      BY <3>1, PlayerBegins
    <3> QED
      BY <3>2
  <2> QED
    BY <2>1, <2>2
<1> QED
  BY <1>1 DEF Writes

-----------------------------------------------------------------------------
(* ... and what is saved, step by step.                                    *)

\* What is stored, and what it was to be, stay as they are.
StoredStays == db'.of = db.of /\ db'.tiles = db.tiles
StoredDb == StoredStays /\ Database(db')
SavedAs == asSaved' = asSaved

LEMMA StoreSame ==
  ASSUME StoreInv, StoredDb, SavedAs
  PROVE  /\ StoredWhole' /\ Database(db')
         /\ {"of", "tiles"} \subseteq DOMAIN asSaved' /\ DOMAIN asSaved'.of = Owner
  BY DEF StoreInv, StoredDb, StoredStays, SavedAs, StoredWhole

\* The first job is replaced by what is left of it, or gone.
Replaced(r, q, x) ==
    /\ \E T : r \in Seq(T)
    /\ r # <<>> /\ r[1] = x /\ Len(r) = Len(q)
    /\ \A k \in 2 .. Len(r) : r[k] = q[k]

LEMMA FirstReplaced ==
  ASSUME NEW S, NEW q \in Seq(S), q # <<>>, NEW x
  PROVE  Replaced(<<x>> \o Tail(q), q, x)
<1> DEFINE r == <<x>> \o Tail(q)
<1>1. q \in Seq(S \cup {x}) /\ <<x>> \in Seq(S \cup {x})
  OBVIOUS
<1>2. PICK t : t = Tail(q)
  OBVIOUS
<1>0. Len(q) \in Nat /\ Len(q) > 0
  BY <1>1, EmptySeq, LenProperties
<1>3. /\ t \in Seq(S \cup {x}) /\ Len(t) = Len(q) - 1
      /\ \A k \in 1 .. Len(t) : t[k] = q[k + 1]
  BY <1>0, <1>1, <1>2, WithoutFirst
<1>4. PICK a \in Seq(S \cup {x}) : a = <<x>> /\ Len(a) = 1 /\ a[1] = x
  BY <1>1
<1>5. r = a \o t
  BY <1>2, <1>4
<1>6. /\ r \in Seq(S \cup {x}) /\ Len(r) = 1 + Len(t)
      /\ \A k \in 1 .. 1 + Len(t) : r[k] = IF k <= 1 THEN a[k] ELSE t[k - 1]
  BY <1>3, <1>4, <1>5, ConcatProperties
<1>7. r[1] = x
  BY <1>0, <1>3, <1>4, <1>6
<1>8. ASSUME NEW k \in 2 .. Len(r)
      PROVE  r[k] = q[k]
  <2>1. k - 1 \in 1 .. Len(t) /\ k \in 1 .. 1 + Len(t) /\ ~(k <= 1) /\ (k - 1) + 1 = k
    BY <1>0, <1>3, <1>6
  <2> QED
    BY <1>3, <1>6, <2>1
<1>9. r # <<>> /\ Len(r) = Len(q)
  BY <1>0, <1>3, <1>6
<1>10. \E T : r \in Seq(T)
  BY <1>6
<1> QED
  BY <1>7, <1>8, <1>9, <1>10 DEF Replaced

LEMMA FirstGone ==
  ASSUME NEW S, NEW q \in Seq(S), q # <<>>, NEW r, r = Tail(q)
  PROVE  /\ \E T : r \in Seq(T)
         /\ \A k \in 1 .. Len(r) : k + 1 \in 2 .. Len(q) /\ r[k] = q[k + 1]
         /\ r # <<>> => 1 \in 1 .. Len(r)
         /\ \A k \in 2 .. Len(r) : k \in 1 .. Len(r)
<1>1. r \in Seq(S) /\ Len(r) = Len(q) - 1 /\ Len(q) \in Nat /\ Len(r) \in Nat
  BY WithoutFirst, EmptySeq
<1>2. \A k \in 1 .. Len(r) : k + 1 \in 2 .. Len(q) /\ r[k] = q[k + 1]
  BY <1>1
<1> QED
  BY <1>1, <1>2

\* The job that is first goes on.
LEMMA GoingOn ==
  ASSUME StoreInv, Busy, StoredDb, SavedAs,
         NEW x, jobs' = <<x>> \o Tail(jobs),
         NEW d, UnderWay(x, d, db'), work' = <<d>>
  PROVE  StoreInv'
<1>1. PICK S : jobs \in Seq(S)
  BY DEF StoreInv
<1>2. jobs # <<>>
  BY DEF Busy
<1>3. PICK r : r = jobs'
  OBVIOUS
<1>10. Replaced(<<x>> \o Tail(jobs), jobs, x)
  BY <1>1, <1>2, FirstReplaced
<1>4. /\ \E T : r \in Seq(T)
      /\ r # <<>> /\ r[1] = x /\ Len(r) = Len(jobs)
      /\ \A k \in 2 .. Len(r) : r[k] = jobs[k]
  BY <1>3, <1>10 DEF Replaced
<1>5. \A k \in 2 .. Len(r) : Waiting(r[k])
  BY <1>4 DEF StoreInv, JobsFit
<1>6. work' # <<>>
  OBVIOUS
<1>7. JobsFit'
  BY <1>3, <1>4, <1>5, <1>6 DEF JobsFit
<1>8. \E T : jobs' \in Seq(T)
  BY <1>3, <1>4
<1>9. /\ StoredWhole' /\ Database(db')
      /\ {"of", "tiles"} \subseteq DOMAIN asSaved' /\ DOMAIN asSaved'.of = Owner
  BY StoreSame
<1> QED
  BY <1>7, <1>8, <1>9 DEF StoreInv

\* ... is begun again, or is at its end.
LEMMA GoingBack ==
  ASSUME StoreInv, Busy, StoredDb, SavedAs, work' = <<>>,
         NEW x, jobs' = <<x>> \o Tail(jobs), Waiting(x)
  PROVE  StoreInv'
<1>1. PICK S : jobs \in Seq(S)
  BY DEF StoreInv
<1>2. jobs # <<>>
  BY DEF Busy
<1>3. PICK r : r = jobs'
  OBVIOUS
<1>10. Replaced(<<x>> \o Tail(jobs), jobs, x)
  BY <1>1, <1>2, FirstReplaced
<1>4. /\ \E T : r \in Seq(T)
      /\ r # <<>> /\ r[1] = x /\ Len(r) = Len(jobs)
      /\ \A k \in 2 .. Len(r) : r[k] = jobs[k]
  BY <1>3, <1>10 DEF Replaced
<1>5. \A k \in 2 .. Len(r) : Waiting(r[k])
  BY <1>4 DEF StoreInv, JobsFit
<1>6. JobsFit'
  BY <1>3, <1>4, <1>5 DEF JobsFit
<1>8. \E T : jobs' \in Seq(T)
  BY <1>3, <1>4
<1>9. /\ StoredWhole' /\ Database(db')
      /\ {"of", "tiles"} \subseteq DOMAIN asSaved' /\ DOMAIN asSaved'.of = Owner
  BY StoreSame
<1> QED
  BY <1>6, <1>8, <1>9 DEF StoreInv

LEMMA Ending ==
  ASSUME StoreInv, Busy, jobs' = Tail(jobs), work' = <<>>
  PROVE  JobsFit' /\ \E S : jobs' \in Seq(S)
<1>1. PICK S : jobs \in Seq(S)
  BY DEF StoreInv
<1>2. jobs # <<>>
  BY DEF Busy
<1>3. PICK r : r = jobs'
  OBVIOUS
<1>4. /\ \E T : r \in Seq(T)
      /\ \A k \in 1 .. Len(r) : k + 1 \in 2 .. Len(jobs) /\ r[k] = jobs[k + 1]
      /\ r # <<>> => 1 \in 1 .. Len(r)
      /\ \A k \in 2 .. Len(r) : k \in 1 .. Len(r)
  BY <1>1, <1>2, <1>3, FirstGone
<1>5. \A k \in 1 .. Len(r) : Waiting(r[k])
  BY <1>4 DEF StoreInv, JobsFit
<1>6. JobsFit'
  BY <1>3, <1>4, <1>5 DEF JobsFit
<1> QED
  BY <1>3, <1>4, <1>6

\* Nothing is to be done, and nothing or one job comes.
LEMMA NothingComes ==
  ASSUME StoreInv, StoredDb, SavedAs, jobs' = <<>>, work' = <<>>
  PROVE  StoreInv'
<1>1. jobs' \in Seq({}) /\ Len(jobs') = 0
  OBVIOUS
<1>2. JobsFit'
  BY <1>1 DEF JobsFit
<1>3. \E T : jobs' \in Seq(T)
  BY <1>1
<1>9. /\ StoredWhole' /\ Database(db')
      /\ {"of", "tiles"} \subseteq DOMAIN asSaved' /\ DOMAIN asSaved'.of = Owner
  BY StoreSame
<1> QED
  BY <1>2, <1>3, <1>9 DEF StoreInv

LEMMA OneComes ==
  ASSUME StoreInv, StoredDb, SavedAs, NEW x, Waiting(x), jobs' = <<x>>, work' = <<>>
  PROVE  StoreInv'
<1>1. jobs' \in Seq({x}) /\ Len(jobs') = 1 /\ jobs' # <<>> /\ jobs'[1] = x
  OBVIOUS
<1>2. JobsFit'
  BY <1>1 DEF JobsFit
<1>3. \E T : jobs' \in Seq(T)
  BY <1>1
<1>9. /\ StoredWhole' /\ Database(db')
      /\ {"of", "tiles"} \subseteq DOMAIN asSaved' /\ DOMAIN asSaved'.of = Owner
  BY StoreSame
<1> QED
  BY <1>2, <1>3, <1>9 DEF StoreInv

\* Where the first job stands.
LEMMA FirstIs ==
  ASSUME StoreInv, Busy
  PROVE  /\ FirstJob = jobs[1] /\ IsJob(FirstJob)
         /\ FirstJob.todo # <<>> /\ Upcoming = FirstJob.todo[1]
         /\ work = <<>> => Waiting(FirstJob) /\ Upcoming.op = "begin"
         /\ work # <<>> => \E d : work = <<d>> /\ UnderWay(FirstJob, d, db)
<1>1. PICK S : jobs \in Seq(S)
  BY DEF StoreInv
<1>2. jobs # <<>>
  BY DEF Busy
<1>3. FirstJob = jobs[1]
  BY <1>1, <1>2 DEF FirstJob
<1>4. CASE work = <<>>
  <2>1. Waiting(FirstJob)
    BY <1>2, <1>3, <1>4 DEF StoreInv, JobsFit
  <2>2. FirstJob.todo[1].op = "begin" /\ FirstJob.todo # <<>>
    BY <2>1, WaitingIs
  <2>3. IsJob(FirstJob) /\ FirstJob.todo = Statements(FirstJob)
    BY <2>1 DEF Waiting
  <2>4. Upcoming = FirstJob.todo[1]
    <3>1. CASE FirstJob.who = None
      <4>1. PICK v : v = [x \in DOMAIN FirstJob.obj |-> Reverse(FirstJob.obj[x])]
        OBVIOUS
      <4>2. FirstJob.todo = HouseStatements(FirstJob.obj)
        BY <2>3, <3>1 DEF Statements
      <4>3. PICK T : FirstJob.todo \in Seq(T)
        BY <4>1, <4>2, HouseBegins
      <4> QED
        BY <2>2, <4>3 DEF Upcoming
    <3>2. CASE FirstJob.who # None
      <4>1. FirstJob.todo = PlayerStatements(FirstJob.obj)
        BY <2>3, <3>2 DEF Statements
      <4>2. FirstJob.todo \in Seq(StatementsOf(FirstJob.obj))
        BY <4>1, PlayerBegins
      <4> QED
        BY <2>2, <4>2 DEF Upcoming
    <3> QED
      BY <3>1, <3>2
  <2> QED
    BY <1>3, <1>4, <2>1, <2>2, <2>3, <2>4
<1>5. CASE work # <<>>
  <2>1. PICK d : work = <<d>> /\ UnderWay(FirstJob, d, db)
    BY <1>3, <1>5 DEF StoreInv, JobsFit
  <2>2. IsJob(FirstJob) /\ Ahead(FirstJob.todo, TablesOf(FirstJob))
    BY <2>1 DEF UnderWay, TablesOf
  <2>3. FirstJob.todo # <<>>
    BY <2>2, AheadIs
  <2>4. PICK T : FirstJob.todo \in Seq(T)
    BY <2>2 DEF Ahead
  <2>5. Upcoming = FirstJob.todo[1]
    BY <2>3, <2>4 DEF Upcoming
  <2> QED
    BY <1>3, <1>5, <2>1, <2>2, <2>3, <2>5
<1> QED
  BY <1>4, <1>5

LEMMA BeginKeeps ==
  ASSUME StoreInv, BeginTransaction
  PROVE  StoreInv'
<1>1. Busy /\ Upcoming.op = "begin" /\ work' = <<db>> /\ db' = db /\ asSaved' = asSaved
  BY DEF BeginTransaction
<1>2. PICK x : x = [FirstJob EXCEPT !.todo = Tail(@)]
  OBVIOUS
<1>3. jobs' = <<x>> \o Tail(jobs)
  BY <1>2 DEF BeginTransaction
<1>4. work = <<>>
  <2> SUFFICES ASSUME work # <<>>
               PROVE  FALSE
    OBVIOUS
  <2>1. PICK d : UnderWay(FirstJob, d, db)
    BY <1>1, FirstIs
  <2>2. Ahead(FirstJob.todo, TablesOf(FirstJob)) /\ Upcoming = FirstJob.todo[1]
    BY <1>1, <2>1, FirstIs DEF UnderWay, TablesOf
  <2>3. Writes(Upcoming) \/ Upcoming.op = "commit"
    BY <2>2, AheadIs
  <2> QED
    BY <1>1, <2>3 DEF Writes
<1>5. Waiting(FirstJob)
  BY <1>1, <1>4, FirstIs
<1>6. Database(db)
  BY DEF StoreInv
<1>7. UnderWay(x, db, db)
  BY <1>2, <1>5, <1>6, Beginning
<1>8. UnderWay(x, db, db')
  BY <1>1, <1>7
<1>9. StoredDb /\ SavedAs
  BY <1>1 DEF StoredDb, StoredStays, SavedAs, StoreInv
<1> QED
  BY <1>1, <1>3, <1>8, <1>9, GoingOn

LEMMA ExecuteKeeps ==
  ASSUME StoreInv, ExecuteQuery
  PROVE  StoreInv' /\ StoredDb
<1>1. Busy /\ Upcoming.op \in {"delete", "insert", "update"} /\ asSaved' = asSaved
  BY DEF ExecuteQuery
<1>2. PICK x : x = [FirstJob EXCEPT !.todo = Tail(@)]
  OBVIOUS
<1>3. jobs' = <<x>> \o Tail(jobs)
  BY <1>2 DEF ExecuteQuery
<1>4. work # <<>>
  BY <1>1, FirstIs
<1>5. PICK d : work = <<d>> /\ UnderWay(FirstJob, d, db)
  BY <1>1, <1>4, FirstIs
<1>6. PICK s : s = Upcoming
  OBVIOUS
<1>7. PICK e : e = Done(d, FirstJob, s)
  OBVIOUS
<1>8. work' = <<e>> /\ db' = db
  BY <1>4, <1>5, <1>6, <1>7 DEF ExecuteQuery
<1>9. Writes(s) /\ s = FirstJob.todo[1]
  BY <1>1, <1>6, FirstIs DEF Writes
<1>10. UnderWay(x, e, db)
  BY <1>2, <1>5, <1>7, <1>9, Executing
<1>11. UnderWay(x, e, db')
  BY <1>8, <1>10
<1>12. StoredDb /\ SavedAs
  BY <1>1, <1>8 DEF StoredDb, StoredStays, SavedAs, StoreInv
<1>13. StoreInv'
  BY <1>1, <1>3, <1>8, <1>11, <1>12, GoingOn
<1> QED
  BY <1>12, <1>13

LEMMA CommitKeeps ==
  ASSUME StoreInv, Commit
  PROVE  StoreInv'
<1>1. Busy /\ Upcoming.op = "commit" /\ work' = <<>> /\ jobs' = Tail(jobs)
  BY DEF Commit, Finished
<1>2. work # <<>>
  BY <1>1, FirstIs
<1>3. PICK d : work = <<d>> /\ UnderWay(FirstJob, d, db)
  BY <1>1, <1>2, FirstIs
<1>4. db' = d
  BY <1>2, <1>3 DEF Commit
<1>5. PICK j : j = FirstJob
  OBVIOUS
<1>6. IsJob(j) /\ Database(d) /\ Beside(d, j, db) /\ j.todo[1].op = "commit"
  BY <1>1, <1>3, <1>5, FirstIs DEF UnderWay
<1>7. \A t \in Written(j) : StoredOf(d, j, t) = Meant(j, t)
  BY <1>3, <1>5, <1>6, Committing
<1>8. /\ {"of", "tiles"} \subseteq DOMAIN asSaved /\ DOMAIN asSaved.of = Owner
      /\ StoredWhole
  BY DEF StoreInv
<1>9. CASE j.who = None
  <2>1. asSaved' = [asSaved EXCEPT !.tiles = j.obj]
    BY <1>5, <1>9 DEF Commit
  <2>2. asSaved'.of = asSaved.of /\ asSaved'.tiles = j.obj /\ DOMAIN asSaved' = DOMAIN asSaved
    BY <1>8, <2>1
  <2>3. d.of = db.of
    BY <1>6, <1>9 DEF Beside
  <2>4. d.tiles = [x \in DOMAIN j.obj |-> Reverse(j.obj[x])]
    BY <1>7, <1>9 DEF Written, Meant, StoredOf
  <2>5. StoredWhole'
    BY <1>4, <1>8, <2>2, <2>3, <2>4 DEF StoredWhole
  <2> QED
    BY <1>1, <1>4, <1>6, <1>8, <2>2, <2>5, Ending DEF StoreInv
<1>10. CASE j.who # None
  <2>1. PICK p \in Owner : p = j.who
    BY <1>6, <1>10 DEF IsJob
  <2>2. PICK h : h = j.obj
    OBVIOUS
  <2>3. PICK o : o = [asSaved.of EXCEPT ![p] = h]
    OBVIOUS
  <2>4. DOMAIN o = Owner /\ o[p] = h /\ \A q \in Owner : q # p => o[q] = asSaved.of[q]
    BY <1>8, <2>3
  <2>5. asSaved' = [asSaved EXCEPT !.of = o]
    BY <1>5, <1>10, <2>1, <2>2, <2>3 DEF Commit
  <2>6. asSaved'.of = o /\ asSaved'.tiles = asSaved.tiles /\ DOMAIN asSaved' = DOMAIN asSaved
    BY <1>8, <2>5
  <2>7. d.tiles = db.tiles /\ \A q \in Owner : q # p => d.of[q] = db.of[q]
    BY <1>6, <1>10, <2>1 DEF Beside
  <2>8. \A t \in Rewritten(h) : d.of[p][t] = StoredAs(h)[t]
    BY <1>7, <1>10, <2>1, <2>2 DEF Written, Meant, StoredOf
  <2>9. ASSUME NEW q \in Owner, NEW t \in Rewritten(o[q])
        PROVE  d.of[q][t] = StoredAs(o[q])[t]
    <3>1. CASE q = p
      BY <2>4, <2>8, <2>9, <3>1
    <3>2. CASE q # p
      <4>1. o[q] = asSaved.of[q] /\ d.of[q] = db.of[q]
        BY <2>4, <2>7, <3>2
      <4> QED
        BY <1>8, <2>9, <4>1 DEF StoredWhole
    <3> QED
      BY <3>1, <3>2
  <2>10. d.tiles = [x \in DOMAIN asSaved.tiles |-> Reverse(asSaved.tiles[x])]
    BY <1>8, <2>7 DEF StoredWhole
  <2>11. StoredWhole'
    BY <1>4, <2>6, <2>9, <2>10 DEF StoredWhole
  <2> QED
    BY <1>1, <1>4, <1>6, <1>8, <2>4, <2>6, <2>11, Ending DEF StoreInv
<1> QED
  BY <1>9, <1>10

LEMMA FailingKeeps ==
  ASSUME StoreInv, SaveFails
  PROVE  StoreInv'
<1>1. Busy /\ work' = <<>> /\ db' = db /\ asSaved' = asSaved
  BY DEF SaveFails
<1>2. StoredDb /\ SavedAs
  BY <1>1 DEF StoredDb, StoredStays, SavedAs, StoreInv
<1>3. CASE FirstJob.tries > 1
  <2>1. PICK j : j = FirstJob
    OBVIOUS
  <2>2. PICK a : a = Statements(j)
    OBVIOUS
  <2>3. PICK y : y = [j EXCEPT !.tries = @ - 1]
    OBVIOUS
  <2>4. PICK x : x = [y EXCEPT !.todo = a]
    OBVIOUS
  <2>5. IsJob(j)
    BY <1>1, <2>1, FirstIs
  <2>6. IsJob(y) /\ y.who = j.who /\ y.obj = j.obj
    BY <2>3, <2>5 DEF IsJob
  <2>7. IsJob(x) /\ x.who = j.who /\ x.obj = j.obj /\ x.todo = a
    BY <2>4, <2>6 DEF IsJob
  <2>8. Waiting(x)
    BY <2>2, <2>7 DEF Waiting, Statements
  <2>9. jobs' = <<x>> \o Tail(jobs)
    BY <1>3, <2>1, <2>2, <2>3, <2>4 DEF SaveFails, Statements
  <2> QED
    BY <1>1, <1>2, <2>8, <2>9, GoingBack
<1>4. CASE ~(FirstJob.tries > 1)
  <2>1. jobs' = Tail(jobs)
    BY <1>4 DEF SaveFails, Finished
  <2>2. JobsFit' /\ \E S : jobs' \in Seq(S)
    BY <1>1, <2>1, Ending
  <2>3. /\ StoredWhole' /\ Database(db')
        /\ {"of", "tiles"} \subseteq DOMAIN asSaved' /\ DOMAIN asSaved'.of = Owner
    BY <1>2, StoreSame
  <2> QED
    BY <2>2, <2>3 DEF StoreInv
<1> QED
  BY <1>3, <1>4

\* The jobs that come are whole.
LEMMA PlayerJobWaits ==
  ASSUME NEW p \in Owner, NEW h, NEW copy, NEW leave
  PROVE  Waiting(PlayerJob(p, h, copy, leave))
<1>1. PICK j : j = PlayerJob(p, h, copy, leave)
  OBVIOUS
<1>2. /\ {"who", "obj", "tries", "todo"} \subseteq DOMAIN j
      /\ j.who = p /\ j.obj = h /\ j.todo = PlayerStatements(h)
  BY <1>1 DEF PlayerJob
<1>3. p # None
  BY PersistenceAssumption
<1> QED
  BY <1>1, <1>2, <1>3 DEF Waiting, IsJob, Statements

LEMMA HouseJobWaits ==
  ASSUME NEW g
  PROVE  Waiting(HouseJob(g))
<1>1. PICK j : j = HouseJob(g)
  OBVIOUS
<1>2. /\ {"who", "obj", "tries", "todo"} \subseteq DOMAIN j
      /\ j.who = None /\ j.obj = g /\ j.todo = HouseStatements(g)
  BY <1>1 DEF HouseJob
<1> QED
  BY <1>1, <1>2 DEF Waiting, IsJob, Statements

\* While the dispatcher is free no transaction is open.
LEMMA FreeIs ==
  ASSUME StoreInv, Idle
  PROVE  jobs = <<>> /\ work = <<>>
  BY DEF StoreInv, JobsFit, Idle, Busy

LEMMA SavingKeeps ==
  ASSUME StoreInv, SaveGameState
  PROVE  StoreInv'
<1>1. Idle /\ work' = work /\ db' = db /\ asSaved' = asSaved
  BY DEF SaveGameState, Changes
<1>2. jobs = <<>> /\ work = <<>>
  BY <1>1, FreeIs
<1>3. PICK here : here = {p \in Owner : Online(p)}
  OBVIOUS
<1>4. PICK order \in SetToSeqs(here) :
          jobs' = [k \in DOMAIN order |-> PlayerJob(order[k], held[order[k]], FALSE, FALSE)]
                  \o <<HouseJob(ground)>>
  BY <1>3 DEF SaveGameState
<1>5. PICK n \in Nat : n = Cardinality(here)
  <2>1. IsFiniteSet(Owner) /\ here \subseteq Owner
    BY <1>3, PersistenceAssumption
  <2> QED
    BY <2>1, FS_Subset, FS_CardinalityType
<1>6. order \in [1 .. n -> here]
  BY <1>5 DEF SetToSeqs
<1>7. PICK a : a = [k \in 1 .. n |-> PlayerJob(order[k], held[order[k]], FALSE, FALSE)]
  OBVIOUS
<1>8. PICK S : S = {a[k] : k \in 1 .. n} \cup {HouseJob(ground)}
  OBVIOUS
<1>9. a \in Seq(S) /\ Len(a) = n
  <2>1. a \in [1 .. n -> S]
    <3>1. DOMAIN a = 1 .. n /\ \A k \in 1 .. n : a[k] \in S
      BY <1>7, <1>8
    <3>2. a = [k \in 1 .. n |-> a[k]]
      BY <1>7
    <3> QED
      BY <3>1, <3>2
  <2> QED
    BY <2>1
<1>10. PICK b \in Seq(S) : b = <<HouseJob(ground)>> /\ Len(b) = 1 /\ b[1] = HouseJob(ground)
  <2>1. PICK x \in S : x = HouseJob(ground)
    BY <1>8
  <2>2. <<x>> \in Seq(S) /\ Len(<<x>>) = 1 /\ <<x>>[1] = x
    OBVIOUS
  <2> QED
    BY <2>1, <2>2
<1>11. PICK r : r = a \o b
  OBVIOUS
<1>12. jobs' = r
  BY <1>4, <1>6, <1>7, <1>10, <1>11
<1>13. /\ r \in Seq(S) /\ Len(r) = n + 1
       /\ \A k \in 1 .. n + 1 : r[k] = IF k <= n THEN a[k] ELSE b[k - n]
  BY <1>9, <1>10, <1>11, ConcatProperties
<1>14. ASSUME NEW k \in 1 .. Len(r)
       PROVE  Waiting(r[k])
  <2>1. CASE k <= n
    <3>1. k \in 1 .. n
      BY <1>13, <2>1
    <3>2. order[k] \in Owner
      BY <1>3, <1>6, <3>1
    <3>3. r[k] = a[k]
      BY <1>13, <2>1
    <3>4. a[k] = PlayerJob(order[k], held[order[k]], FALSE, FALSE)
      BY <1>7, <3>1
    <3> QED
      BY <3>2, <3>3, <3>4, PlayerJobWaits
  <2>2. CASE ~(k <= n)
    <3>1. k = n + 1
      BY <1>13, <2>2
    <3>2. r[k] = HouseJob(ground)
      <4>1. (n + 1) - n = 1 /\ ~(n + 1 <= n) /\ n + 1 \in 1 .. n + 1
        OBVIOUS
      <4> QED
        BY <1>10, <1>13, <3>1, <4>1
    <3> QED
      BY <3>2, HouseJobWaits
  <2> QED
    BY <2>1, <2>2
<1>15. r # <<>> /\ 1 \in 1 .. Len(r) /\ \A k \in 2 .. Len(r) : k \in 1 .. Len(r)
  BY <1>13
<1>16. JobsFit'
  BY <1>1, <1>2, <1>12, <1>14, <1>15 DEF JobsFit
<1>17. StoredDb /\ SavedAs
  BY <1>1 DEF StoredDb, StoredStays, SavedAs, StoreInv
<1>18. \E T : jobs' \in Seq(T)
  BY <1>12, <1>13
<1>19. /\ StoredWhole' /\ Database(db')
       /\ {"of", "tiles"} \subseteq DOMAIN asSaved' /\ DOMAIN asSaved'.of = Owner
  BY <1>17, StoreSame
<1> QED
  BY <1>16, <1>18, <1>19 DEF StoreInv

\* What players do, while nothing is saved.
OneJobAtMost ==
    \/ jobs' = jobs
    \/ \E p \in Owner : \E h, copy, leave : jobs' = <<PlayerJob(p, h, copy, leave)>>

LEMMA DoingKeeps ==
  ASSUME StoreInv, Idle, StoredDb, SavedAs, work' = work,
         OneJobAtMost
  PROVE  StoreInv'
<1>1. jobs = <<>> /\ work' = <<>>
  BY FreeIs
<1>2. CASE jobs' = jobs
  BY <1>1, <1>2, NothingComes
<1>3. ASSUME NEW p \in Owner, NEW h, NEW copy, NEW leave, jobs' = <<PlayerJob(p, h, copy, leave)>>
      PROVE  StoreInv'
  <2>1. PICK x : x = PlayerJob(p, h, copy, leave)
    OBVIOUS
  <2>2. Waiting(x)
    BY <2>1, PlayerJobWaits
  <2> QED
    BY <1>1, <1>3, <2>1, <2>2, OneComes
<1> QED
  BY <1>2, <1>3 DEF OneJobAtMost

LEMMA OffersKeep ==
  ASSUME Database(db), NEW i \in Thing, NEW p \in Owner \cup {None},
         db' = [db EXCEPT !.offers[i] = p], SavedAs
  PROVE  StoredDb
<1>1. PICK f : f = [db.offers EXCEPT ![i] = p]
  OBVIOUS
<1>2. DOMAIN f = Thing /\ \A x \in Thing : f[x] \in Owner \cup {None}
  BY <1>1 DEF Database
<1>3. db' = [db EXCEPT !.offers = f]
  BY <1>1
<1>4. db'.offers = f /\ db'.of = db.of /\ db'.tiles = db.tiles /\ DOMAIN db' = DOMAIN db
  BY <1>3 DEF Database
<1> QED
  BY <1>2, <1>4 DEF Database, StoredDb, StoredStays

LEMMA Receiving ==
  ASSUME NEW p \in Owner, NEW items, NEW from, NEW others, Receives(p, items, from, others)
  PROVE  OneJobAtMost
  BY DEF Receives, OneJobAtMost

LEMMA QuietKeeps ==
  ASSUME StoreInv, Idle, db' = db, asSaved' = asSaved, work' = work, OneJobAtMost
  PROVE  StoreInv' /\ StoredStays
<1>1. StoredDb /\ SavedAs /\ StoredStays
  BY DEF StoredDb, StoredStays, SavedAs, StoreInv
<1> QED
  BY <1>1, DoingKeeps

LEMMA PlayersKeep ==
  ASSUME StoreInv, NEW p \in Owner,
         PlayerLogin(p) \/ PlayerLogout(p) \/ OpenLocker(p) \/ Earn(p) \/ Eat(p)
  PROVE  StoreInv' /\ StoredStays
<1>1. Idle /\ db' = db /\ asSaved' = asSaved /\ work' = work
  BY DEF PlayerLogin, PlayerLogout, OpenLocker, Earn, Eat, Changes
<1>2. OneJobAtMost
  BY DEF PlayerLogin, PlayerLogout, OpenLocker, Earn, Eat, OneJobAtMost
<1> QED
  BY <1>1, <1>2, QuietKeeps

LEMMA HandlingKeeps ==
  ASSUME StoreInv, NEW p \in Owner, NEW i \in Thing, NEW x,
         DropInHouse(p, i) \/ MoveOwn(p, i, x) \/ PickUp(p, i, x)
  PROVE  StoreInv' /\ StoredStays
<1>1. Idle /\ db' = db /\ asSaved' = asSaved /\ work' = work /\ jobs' = jobs
  BY DEF DropInHouse, MoveOwn, PickUp, Changes
<1> QED
  BY <1>1, QuietKeeps DEF OneJobAtMost

LEMMA SendKeeps ==
  ASSUME StoreInv, NEW p \in Owner, NEW i \in Thing, NEW q \in Owner, SendItem(p, i, q)
  PROVE  StoreInv' /\ StoredStays
<1>1. Idle /\ db' = db /\ asSaved' = asSaved /\ work' = work
  BY DEF SendItem, Changes
<1>2. OneJobAtMost
  BY Receiving DEF SendItem
<1> QED
  BY <1>1, <1>2, QuietKeeps

LEMMA TransferKeeps ==
  ASSUME StoreInv, TransferToDepot
  PROVE  StoreInv' /\ StoredStays
<1>1. Idle /\ db' = db /\ asSaved' = asSaved /\ work' = work
  BY DEF TransferToDepot, Changes
<1>2. OneJobAtMost
  BY PersistenceAssumption, Receiving DEF TransferToDepot
<1> QED
  BY <1>1, <1>2, QuietKeeps

LEMMA PostKeeps ==
  ASSUME StoreInv, NEW p \in Owner, NEW i \in Thing, PostOffer(p, i)
  PROVE  StoreInv' /\ StoredStays
<1>1. Idle /\ asSaved' = asSaved /\ work' = work /\ jobs' = jobs
      /\ db' = [db EXCEPT !.offers[i] = p]
  BY DEF PostOffer, Changes
<1>2. SavedAs /\ OneJobAtMost /\ Database(db)
  BY <1>1 DEF SavedAs, OneJobAtMost, StoreInv
<1>3. StoredDb
  BY <1>1, <1>2, OffersKeep
<1> QED
  BY <1>1, <1>2, <1>3, DoingKeeps DEF StoredDb

LEMMA OfferEndKeeps ==
  ASSUME StoreInv, NEW i \in Thing, OfferEnds(i)
  PROVE  StoreInv' /\ StoredStays
<1>1. Idle /\ asSaved' = asSaved /\ work' = work /\ db' = [db EXCEPT !.offers[i] = None]
  BY DEF OfferEnds, Changes
<1>2. SavedAs /\ Database(db)
  BY <1>1 DEF SavedAs, StoreInv
<1>3. StoredDb
  BY <1>1, <1>2, OffersKeep
<1>4. PICK p \in Owner : p = db.offers[i]
  BY <1>2 DEF OfferEnds, Database
<1>5. Receives(p, <<i>>, NobodyHas, held)
  BY <1>4 DEF OfferEnds
<1>6. OneJobAtMost
  BY <1>5, Receiving
<1> QED
  BY <1>1, <1>2, <1>3, <1>6, DoingKeeps DEF StoredDb

LEMMA CrashKeeps ==
  ASSUME StoreInv, Crash
  PROVE  StoreInv' /\ StoredStays
<1>1. jobs' = <<>> /\ work' = <<>> /\ StoredDb /\ SavedAs
  BY DEF Crash, StoredDb, StoredStays, SavedAs, StoreInv
<1> QED
  BY <1>1, NothingComes DEF StoredDb

LEMMA StoreBegins ==
  ASSUME PersistenceInit
  PROVE  StoreInv
<1>1. PICK goods \in FirstGoods : PersistenceFrom(goods)
  BY DEF PersistenceInit
<1>2. /\ asSaved = [of |-> goods, tiles |-> NobodyHas]
      /\ db = [of |-> [p \in Owner |-> StoredAs(goods[p])],
               tiles |-> NobodyHas, offers |-> [i \in Thing |-> None]]
      /\ work = <<>> /\ jobs = <<>>
  BY <1>1 DEF PersistenceFrom
<1>3. /\ DOMAIN asSaved = {"of", "tiles"} /\ asSaved.of = goods /\ asSaved.tiles = NobodyHas
      /\ DOMAIN goods = Owner
  BY <1>2, PersistenceAssumption
<1>4. /\ DOMAIN db = {"of", "tiles", "offers"} /\ db.tiles = NobodyHas
      /\ DOMAIN db.of = Owner /\ \A p \in Owner : db.of[p] = StoredAs(goods[p])
      /\ DOMAIN db.offers = Thing /\ \A i \in Thing : db.offers[i] = None
  BY <1>2
<1>5. Database(db)
  BY <1>4, StoredAsIs DEF Database
<1>6. NobodyHas = [x \in DOMAIN NobodyHas |-> Reverse(NobodyHas[x])]
  <2>1. DOMAIN NobodyHas = Sack \cup {Tile} /\ \A x \in Sack \cup {Tile} : NobodyHas[x] = <<>>
    BY DEF NobodyHas
  <2>2. Reverse(<<>>) = <<>>
    BY DEF Reverse
  <2>3. [x \in DOMAIN NobodyHas |-> Reverse(NobodyHas[x])] = [x \in Sack \cup {Tile} |-> <<>>]
    BY <2>1, <2>2
  <2> QED
    BY <2>3 DEF NobodyHas
<1>7. StoredWhole
  BY <1>3, <1>4, <1>6 DEF StoredWhole
<1>8. jobs \in Seq({}) /\ Len(jobs) = 0
  BY <1>2
<1>9. JobsFit
  BY <1>2, <1>8 DEF JobsFit
<1> QED
  BY <1>3, <1>5, <1>7, <1>8, <1>9 DEF StoreInv

\* Players and house are stored by a commit and by nothing else.
OnlyCommitsStore == ~StoredStays => Busy /\ Upcoming.op = "commit"

LEMMA StoreSteps ==
  ASSUME ~Reconnects, StoreInv, PersistenceNext
  PROVE  StoreInv' /\ OnlyCommitsStore
<1>1. CASE BeginTransaction
  <2>1. StoredStays
    BY <1>1 DEF BeginTransaction, StoredStays
  <2> QED
    BY <1>1, <2>1, BeginKeeps DEF OnlyCommitsStore
<1>2. CASE ExecuteQuery
  BY <1>2, ExecuteKeeps DEF OnlyCommitsStore, StoredDb
<1>3. CASE Commit
  <2>1. Busy /\ Upcoming.op = "commit"
    BY <1>3 DEF Commit
  <2> QED
    BY <1>3, <2>1, CommitKeeps DEF OnlyCommitsStore
<1>4. CASE SaveFails
  <2>1. StoredStays
    BY <1>4 DEF SaveFails, StoredStays
  <2> QED
    BY <1>4, <2>1, FailingKeeps DEF OnlyCommitsStore
<1>5. CASE ConnectionLost
  BY <1>5 DEF ConnectionLost
<1>6. CASE Crash
  BY <1>6, CrashKeeps DEF OnlyCommitsStore
<1>7. ASSUME NEW p \in Owner,
             PlayerLogin(p) \/ PlayerLogout(p) \/ OpenLocker(p) \/ Earn(p) \/ Eat(p)
      PROVE  StoreInv' /\ OnlyCommitsStore
  BY <1>7, PlayersKeep DEF OnlyCommitsStore
<1>8. ASSUME NEW p \in Owner, NEW i \in Thing, NEW x,
             DropInHouse(p, i) \/ MoveOwn(p, i, x) \/ PickUp(p, i, x)
      PROVE  StoreInv' /\ OnlyCommitsStore
  BY <1>8, HandlingKeeps DEF OnlyCommitsStore
<1>9. ASSUME NEW p \in Owner, NEW i \in Thing, PostOffer(p, i)
      PROVE  StoreInv' /\ OnlyCommitsStore
  BY <1>9, PostKeeps DEF OnlyCommitsStore
<1>10. ASSUME NEW p \in Owner, NEW i \in Thing, NEW q \in Owner, SendItem(p, i, q)
       PROVE  StoreInv' /\ OnlyCommitsStore
  BY <1>10, SendKeeps DEF OnlyCommitsStore
<1>11. ASSUME NEW i \in Thing, OfferEnds(i)
       PROVE  StoreInv' /\ OnlyCommitsStore
  BY <1>11, OfferEndKeeps DEF OnlyCommitsStore
<1>12. CASE SaveGameState
  <2>1. StoredStays
    BY <1>12 DEF SaveGameState, StoredStays
  <2> QED
    BY <1>12, <2>1, SavingKeeps DEF OnlyCommitsStore
<1>13. CASE TransferToDepot
  BY <1>13, TransferKeeps DEF OnlyCommitsStore
<1> QED
  BY <1>1, <1>2, <1>3, <1>4, <1>5, <1>6, <1>7, <1>8, <1>9, <1>10, <1>11, <1>12, <1>13
     DEF PersistenceNext

LEMMA StoreStutters ==
  ASSUME StoreInv, UNCHANGED storeVars
  PROVE  StoreInv' /\ OnlyCommitsStore
<1>1. db' = db /\ work' = work /\ jobs' = jobs /\ asSaved' = asSaved
  BY DEF storeVars
<1>2. StoreInv'
  BY <1>1 DEF StoreInv, StoredWhole, JobsFit
<1>3. StoredStays
  BY <1>1 DEF StoredStays
<1> QED
  BY <1>2, <1>3 DEF OnlyCommitsStore

-----------------------------------------------------------------------------
(* What the database has.                                                  *)

\* Whatever fails, and wherever the server crashes, as long as a transaction does not
\* lose its connection: what is stored of a player's row, storage and items is of one
\* moment, that of the last save that was committed, and so is the house; and
\* nothing but a commit changes it.
THEOREM SavesAreWhole ==
  ~Reconnects =>
    (PersistenceSpec => []StoredWhole /\ [][OnlyCommitsStore]_storeVars)
<1> SUFFICES ASSUME ~Reconnects
             PROVE  PersistenceSpec => []StoredWhole /\ [][OnlyCommitsStore]_storeVars
  OBVIOUS
<1>1. PersistenceInit => StoreInv
  BY StoreBegins
<1>2. StoreInv /\ [PersistenceNext]_storeVars => StoreInv' /\ [OnlyCommitsStore]_storeVars
  BY StoreSteps, StoreStutters
<1>3. StoreInv => StoredWhole
  BY DEF StoreInv
<1> QED
  BY <1>1, <1>2, <1>3, PTL DEF PersistenceSpec

=============================================================================
