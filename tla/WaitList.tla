------------------------------ MODULE WaitList ------------------------------
(***************************************************************************)
(* The waiting list of a full server (src/src/protocolgame.cpp,            *)
(* clientLogin and its helpers).  A client that is told to wait retries;   *)
(* it keeps its entry if the retry comes before the entry's timeout.       *)
(* Times are kept as what is left of them, in units of five seconds.       *)
(***************************************************************************)
EXTENDS Naturals, Sequences, FiniteSets, SequencesExt

CONSTANTS
    Client,      (* player guids                                           *)
    Premium,     (* those who wait in the priority list                    *)
    Privileged,  (* PlayerFlag_CanAlwaysLogin, or game masters             *)
    MaxPlayers,  (* ConfigManager::MAX_PLAYERS, not 0                      *)
    NoGuid,      (* a number that is the guid of no player                 *)
    MaxEntries   (* bound on the state space: the entries of both lists    *)

ASSUME WaitListAssumption ==
    /\ Premium \subseteq Client /\ Privileged \subseteq Client
    /\ MaxPlayers \in Nat \ {0} /\ MaxEntries \in Nat
    /\ NoGuid \notin Client

VARIABLES
    priorityWaitList,
    waitList,
    present,      (* the players in the game                                *)
    slot         (* the last answer of clientLogin to each client          *)

waitVars == <<priorityWaitList, waitList, present, slot>>

\* getWaitTime and getTimeout, in units of five seconds.
WaitTime(n) == IF n < 5 THEN 1 ELSE IF n < 10 THEN 2 ELSE IF n < 20 THEN 4
               ELSE IF n < 50 THEN 12 ELSE 24

Timeout(n) == WaitTime(n) + 3

Entry == [left : 0 .. Timeout(50), guid : Client \cup {NoGuid}]

WaitListTypeOK ==
    /\ priorityWaitList \in Seq(Entry)
    /\ waitList \in Seq(Entry)
    /\ present \subseteq Client
    /\ slot \in [Client -> Nat]

WaitListInit ==
    /\ priorityWaitList = <<>>
    /\ waitList = <<>>
    /\ present = {}
    /\ slot = [c \in Client |-> 0]

-----------------------------------------------------------------------------
(* The mutants of this module are named for what they get wrong and stand  *)
(* before the definition they change.                                      *)

\* cleanupList: entries that have run out are erased.
CleanupList(list) == SelectSeq(list, LAMBDA e : e.left > 0)

IndexOf(c, list) == SelectInSeq(list, LAMBDA e : e.guid = c)

\* findClient: the list, the index in it and the slot, which it computes
\* from the distance to the END of the list.
Found(c, prio, wait) ==
    IF IndexOf(c, prio) # 0
    THEN [in |-> "priority", at |-> IndexOf(c, prio),
          slot |-> (Len(prio) + 1 - IndexOf(c, prio)) + 1]
    ELSE IF IndexOf(c, wait) # 0
    THEN [in |-> "normal", at |-> IndexOf(c, wait),
          slot |-> Len(prio) + (Len(wait) + 1 - IndexOf(c, wait)) + 1]
    ELSE [in |-> "none", at |-> 0, slot |-> Len(prio) + Len(wait)]

Answer(c, n) == slot' = [slot EXCEPT ![c] = n]

Admit(c, prio, wait) ==
    /\ priorityWaitList' = prio
    /\ waitList' = wait
    /\ present' = present \cup {c}
    /\ Answer(c, 0)

\* Players who always get in.
LoginPrivileged(c) ==
    /\ c \in Privileged
    /\ present' = present \cup {c}
    /\ Answer(c, 0)
    /\ UNCHANGED <<priorityWaitList, waitList>>

\* Nobody waits and there is a place.
LoginDirectly(c, prio, wait) ==
    /\ prio = <<>> /\ wait = <<>> /\ Cardinality(present) < MaxPlayers
    /\ Admit(c, prio, wait)

\* Capacity compared with one place too many.
LoginFromListOver(c, prio, wait) ==
    LET f == Found(c, prio, wait) IN
    /\ Cardinality(present) + f.slot <= MaxPlayers + 2
    /\ Admit(c, IF f.in = "priority" THEN RemoveAt(prio, f.at) ELSE prio,
                IF f.in = "normal" THEN RemoveAt(wait, f.at) ELSE wait)

\* A client on a list whose slot the server has the capacity for.
LoginFromList(c, prio, wait) ==
    LET f == Found(c, prio, wait) IN
    /\ Cardinality(present) + f.slot <= MaxPlayers
    /\ Admit(c, IF f.in = "priority" THEN RemoveAt(prio, f.at) ELSE prio,
                IF f.in = "normal" THEN RemoveAt(wait, f.at) ELSE wait)

\* The timeout is in milliseconds already.
WaitLongerMilliseconds(c, prio, wait) ==
    LET f == Found(c, prio, wait) IN
    /\ Cardinality(present) + f.slot > MaxPlayers
    /\ priorityWaitList' = IF f.in = "priority"
                           THEN [prio EXCEPT ![f.at].left = 1000 * Timeout(f.slot)] ELSE prio
    /\ waitList' = IF f.in = "normal"
                   THEN [wait EXCEPT ![f.at].left = 1000 * Timeout(f.slot)] ELSE wait
    /\ Answer(c, f.slot)
    /\ UNCHANGED present

\* A client on a list that has to wait longer.  The code assigns the new
\* timeout to the entry's second component, its guid.
WaitLonger(c, prio, wait) ==
    LET f == Found(c, prio, wait) IN
    /\ Cardinality(present) + f.slot > MaxPlayers
    /\ priorityWaitList' = IF f.in = "priority"
                           THEN [prio EXCEPT ![f.at].guid = NoGuid] ELSE prio
    /\ waitList' = IF f.in = "normal"
                   THEN [wait EXCEPT ![f.at].guid = NoGuid] ELSE wait
    /\ Answer(c, f.slot)
    /\ UNCHANGED present

JoinList(c, prio, wait) ==
    LET n == IF c \in Premium THEN Len(prio) + 1 ELSE Len(prio) + Len(wait) + 1
        e == [left |-> Timeout(n), guid |-> c]
    IN  /\ Len(prio) + Len(wait) < MaxEntries
        /\ priorityWaitList' = IF c \in Premium THEN Append(prio, e) ELSE prio
        /\ waitList' = IF c \in Premium THEN wait ELSE Append(wait, e)
        /\ Answer(c, n)
        /\ UNCHANGED present

\* clientLogin.
ClientLogin(c) ==
    /\ c \notin present
    /\ \/ LoginPrivileged(c)
       \/ LET prio == CleanupList(priorityWaitList)
              wait == CleanupList(waitList)
              empty == prio = <<>> /\ wait = <<>>
              listed == Found(c, prio, wait).in # "none"
          IN  /\ c \notin Privileged
              /\ \/ LoginDirectly(c, prio, wait)
                 \/ /\ ~(empty /\ Cardinality(present) < MaxPlayers)
                    /\ listed
                    /\ LoginFromList(c, prio, wait) \/ WaitLonger(c, prio, wait)
                 \/ /\ ~(empty /\ Cardinality(present) < MaxPlayers)
                    /\ ~listed
                    /\ JoinList(c, prio, wait)

LeaveGame(c) ==
    /\ c \in present
    /\ present' = present \ {c}
    /\ UNCHANGED <<priorityWaitList, waitList, slot>>

\* Five seconds pass.
Tick ==
    LET older(list) == [i \in DOMAIN list |->
            [list[i] EXCEPT !.left = IF @ = 0 THEN 0 ELSE @ - 1]]
    IN  /\ priorityWaitList' = older(priorityWaitList)
        /\ waitList' = older(waitList)
        /\ UNCHANGED <<present, slot>>

WaitListNext ==
    \/ \E c \in Client : ClientLogin(c) \/ LeaveGame(c)
    \/ Tick

WaitListSpec == WaitListInit /\ [][WaitListNext]_waitVars

-----------------------------------------------------------------------------
(* Properties.                                                             *)

Entering(c) == c \notin present /\ c \in present'

\* Nobody but the privileged pushes the number of players above the limit,
\* and the entry of a client that does not come back blocks nobody after its
\* timeout: a client that is told to wait has an unexpired entry before it,
\* or the server is full.
CapacityRespected ==
    [][/\ \A c \in Client \ Privileged :
            Entering(c) => Cardinality(present') <= MaxPlayers
       /\ \A c \in Client :
            ~Entering(c) /\ slot'[c] # slot[c]
            => \/ \E e \in ToSet(priorityWaitList \o waitList) : e.left > 0
               \/ Cardinality(present) >= MaxPlayers]_waitVars

\* "let them wait a bit longer": a client on a list that is told to wait is
\* still on it afterwards.
WaitingKeepsPlace ==
    [][\A c \in Client :
         /\ Found(c, CleanupList(priorityWaitList), CleanupList(waitList)).in # "none"
         /\ c \notin present'
         /\ slot' # slot
         => Found(c, priorityWaitList', waitList').in # "none"]_waitVars

=============================================================================
