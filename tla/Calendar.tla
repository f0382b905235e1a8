------------------------------- MODULE Calendar -------------------------------
(***************************************************************************)
(* What happens at its time: global events, which think at an interval or  *)
(* run at an hour (src/src/globalevent.cpp), and raids (src/src/raids.cpp).*)
(* Each keeps going by a scheduled event that schedules the next, and is   *)
(* loaded anew while the server runs.  A scheduled event that has expired  *)
(* is a task of the dispatcher and cannot be stopped any more.             *)
(***************************************************************************)
EXTENDS Naturals, Sequences, FiniteSets, NoValue

CONSTANTS
    Event,          (* global events                                     *)
    Kind,           (* of each: "think" or "timer"                       *)
    FromLua,        (* those that are registered by scripts              *)
    Raids,          (* the raids of the file                             *)
    Length,         (* of each: how many events it has                   *)
    Repeated,       (* those that are not taken from the list            *)
    MaxReloads      (* bound: how often something is loaded anew         *)

ASSUME CalendarAssumption ==
    /\ Kind \in [Event -> {"think", "timer"}] /\ FromLua \subseteq Event
    /\ Length \in [Raids -> Nat] /\ Repeated \subseteq Raids
    /\ MaxReloads \in Nat /\ None \notin Raids

Chain == {"think", "timer", "raids"}

(* A raid is an object: a raid of the file, and how often that was loaded. *)
Object == Raids \X (0..MaxReloads)

VARIABLES
    eventMap,       (* thinkMap and timerMap                             *)
    overdue,        (* events whose time has come                        *)
    chain,          (* of each: what its event id stands for; pending    *)
                    (* events without an id; expired ones to be run      *)
    raidList,       (* raids that are loaded                             *)
    runningRaid,    (* the one that is said to be running                *)
    raid,           (* of each that goes on: its next event, pending or  *)
                    (* expired                                           *)
    reloads,        (* how often something was loaded anew               *)
    crossed         (* what was loaded anew while a task of it waited    *)

calVars == <<eventMap, overdue, chain, raidList, runningRaid, raid, reloads, crossed>>

CalendarTypeOK ==
    /\ eventMap \subseteq Event /\ overdue \subseteq Event
    /\ \A k \in Chain : /\ chain[k].id \in {"none", "pending", "stale"}
                        /\ chain[k].loose \in 0..MaxReloads /\ chain[k].run \in 0..MaxReloads + 1
    /\ raidList \subseteq Object /\ runningRaid \in Object \cup {None}
    /\ DOMAIN raid \subseteq Object
    /\ \A o \in DOMAIN raid : raid[o].next \in 1..Length[o[1]] /\ raid[o].expired \in BOOLEAN
    /\ reloads \in 0..MaxReloads
    /\ crossed \subseteq {"think", "timer", "raids", "dropped think", "dropped timer", "raid"}

KindsOf(S) == {Kind[e] : e \in S}
OfKind(k) == {e \in eventMap : Kind[e] = k}

-----------------------------------------------------------------------------
(* Scheduled events, whose id one variable keeps.                          *)

\* addEvent: an id that was kept is forgotten.
Armed(c) == [id |-> "pending", run |-> c.run,
             loose |-> c.loose + (IF c.id = "pending" THEN 1 ELSE 0)]
\* stopEvent, of the id that is kept
Stopped(c) == [c EXCEPT !.id = "none"]
Comes(c) == c.id = "pending" \/ c.loose + c.run > 0

Expire(k) ==
    /\ \/ chain[k].id = "pending"
          /\ chain' = [chain EXCEPT ![k].id = "stale", ![k].run = @ + 1]
       \/ chain[k].loose > 0
          /\ chain' = [chain EXCEPT ![k].loose = @ - 1, ![k].run = @ + 1]
    /\ UNCHANGED <<eventMap, overdue, raidList, runningRaid, raid, reloads, crossed>>

-----------------------------------------------------------------------------
(* Global events.                                                          *)

\* registerEvent and registerLuaEvent, of the events in S.
Registered(c, S) ==
    [k \in Chain |-> IF k \in KindsOf(S) /\ c[k].id = "none" THEN Armed(c[k]) ELSE c[k]]

Register(e) ==
    /\ e \in FromLua \ eventMap
    /\ eventMap' = eventMap \cup {e} /\ overdue' = overdue \ {e}
    /\ chain' = Registered(chain, {e})
    /\ crossed' = IF Comes(chain'[Kind[e]]) THEN crossed
                  ELSE crossed \cup {"dropped " \o Kind[e]}
    /\ UNCHANGED <<raidList, runningRaid, raid, reloads>>

\* clear, which stops both chains whatever is cleared, and what is loaded then.
Reload(lua, S) ==
    /\ reloads < MaxReloads /\ reloads' = reloads + 1
    /\ S \subseteq IF lua THEN FromLua ELSE Event \ FromLua
    /\ LET kept == IF lua THEN eventMap \ FromLua ELSE eventMap \cap FromLua
           stopped == [k \in Chain |-> IF k = "raids" THEN chain[k] ELSE Stopped(chain[k])]
       IN  /\ eventMap' = kept \cup S /\ overdue' = overdue \cap kept
           /\ chain' = Registered(stopped, S)
           /\ crossed' = crossed
                  \cup {k \in {"think", "timer"} : chain[k].run > 0}
                  \cup {"dropped " \o k : k \in {k \in KindsOf(kept) : ~Comes(chain'[k])}}
    /\ UNCHANGED <<raidList, runningRaid, raid>>

TimeComes(e) ==
    /\ e \in eventMap \ overdue /\ overdue' = overdue \cup {e}
    /\ UNCHANGED <<eventMap, chain, raidList, runningRaid, raid, reloads, crossed>>

\* think and timer: what is due is run, and the next is scheduled if there is any
\* left.  A timer that fails is erased.
RunEvents(k, failed) ==
    /\ k # "raids" /\ chain[k].run > 0
    /\ failed \subseteq overdue \cap OfKind(k) /\ (k = "think" => failed = {})
    /\ eventMap' = eventMap \ failed
    /\ overdue' = overdue \ OfKind(k)
    /\ LET c == [chain[k] EXCEPT !.run = @ - 1]
       IN  chain' = [chain EXCEPT ![k] = IF OfKind(k) = failed THEN c ELSE Armed(c)]
    /\ UNCHANGED <<raidList, runningRaid, raid, reloads, crossed>>

-----------------------------------------------------------------------------
(* Raids.                                                                  *)

WithRaid(o, n) == [x \in DOMAIN raid \cup {o} |-> IF x = o THEN [next |-> n, expired |-> FALSE]
                                                  ELSE raid[x]]
WithoutRaid(o) == [x \in DOMAIN raid \ {o} |-> raid[x]]

\* setRunning and startRaid; what is scheduled is the first event.
Started(o) ==
    /\ runningRaid' = o
    /\ raid' = IF Length[o[1]] > 0 THEN WithRaid(o, 1) ELSE raid

\* Game.startRaid
StartRaid(o) ==
    /\ runningRaid = None /\ o \in raidList /\ Started(o)
    /\ UNCHANGED <<eventMap, overdue, chain, raidList, reloads, crossed>>

\* checkRaids, which starts raid o or none.
CheckRaids(o) ==
    /\ chain["raids"].run > 0
    /\ chain' = [chain EXCEPT !["raids"] = Armed([@ EXCEPT !.run = @ - 1])]
    /\ IF runningRaid = None /\ o \in raidList
       THEN /\ Started(o)
            /\ raidList' = IF o[1] \in Repeated THEN raidList ELSE raidList \ {o}
       ELSE o = None /\ UNCHANGED <<raidList, runningRaid, raid>>
    /\ UNCHANGED <<eventMap, overdue, reloads, crossed>>

RaidExpires(o) ==
    /\ o \in DOMAIN raid /\ ~raid[o].expired
    /\ raid' = [raid EXCEPT ![o].expired = TRUE]
    /\ UNCHANGED <<eventMap, overdue, chain, raidList, runningRaid, reloads, crossed>>

\* executeRaidEvent; resetRaid after the last event, or one that fails.
ExecuteRaidEvent(o, fails) ==
    /\ o \in DOMAIN raid /\ raid[o].expired
    /\ IF fails \/ raid[o].next = Length[o[1]]
       THEN raid' = WithoutRaid(o) /\ runningRaid' = None
       ELSE raid' = WithRaid(o, raid[o].next + 1) /\ UNCHANGED runningRaid
    /\ UNCHANGED <<eventMap, overdue, chain, raidList, reloads, crossed>>

\* Raids::clear, loadFromXml and startup.  A raid that was taken from the list is
\* not stopped, and one whose event has expired is deleted all the same.
ReloadRaids ==
    /\ reloads < MaxReloads /\ reloads' = reloads + 1
    /\ raidList' = {<<r, reloads'>> : r \in Raids}
    /\ runningRaid' = None
    /\ raid' = [o \in {o \in DOMAIN raid : o \notin raidList \/ raid[o].expired} |-> raid[o]]
    /\ chain' = [chain EXCEPT !["raids"] = Armed(Stopped(@))]
    /\ crossed' = crossed
           \cup (IF chain["raids"].run > 0 THEN {"raids"} ELSE {})
           \cup (IF DOMAIN raid' # {} THEN {"raid"} ELSE {})
    /\ UNCHANGED <<eventMap, overdue>>

-----------------------------------------------------------------------------
CalendarInit ==
    /\ eventMap = Event /\ overdue = {}
    /\ chain = [k \in Chain |->
                  [id |-> IF k \in KindsOf(Event) \cup {"raids"} THEN "pending" ELSE "none",
                   loose |-> 0, run |-> 0]]
    /\ raidList = {<<r, 0>> : r \in Raids} /\ runningRaid = None /\ raid = << >>
    /\ reloads = 0 /\ crossed = {}

CalendarNext ==
    \/ \E k \in Chain : Expire(k) \/ \E failed \in SUBSET Event : RunEvents(k, failed)
    \/ \E e \in Event : Register(e) \/ TimeComes(e)
    \/ \E lua \in BOOLEAN, S \in SUBSET Event : Reload(lua, S)
    \/ \E o \in Object \cup {None} : CheckRaids(o)
    \/ \E o \in Object :
          \/ StartRaid(o) \/ RaidExpires(o)
          \/ \E fails \in BOOLEAN : ExecuteRaidEvent(o, fails)
    \/ ReloadRaids

\* Timers expire and the dispatcher runs what waits.
CalendarFairness ==
    /\ \A k \in Chain : /\ WF_calVars(Expire(k))
                        /\ WF_calVars(\E failed \in SUBSET Event : RunEvents(k, failed))
    /\ WF_calVars(\E o \in Object \cup {None} : CheckRaids(o))
    /\ \A o \in Object :
          /\ WF_calVars(RaidExpires(o))
          /\ WF_calVars(\E fails \in BOOLEAN : ExecuteRaidEvent(o, fails))

CalendarSpec == CalendarInit /\ [][CalendarNext]_calVars /\ CalendarFairness

-----------------------------------------------------------------------------
\* There is one chain of each, and one raid goes on, which is the one that is said
\* to be runningRaid, unless something was loaded anew while its event had expired, or
\* while a raid went on that is not in the list.
OneAtATime ==
    /\ \A k \in Chain :
          k \notin crossed => chain[k].loose + chain[k].run
                              + (IF chain[k].id = "pending" THEN 1 ELSE 0) <= 1
    /\ "raid" \notin crossed =>
          DOMAIN raid = IF runningRaid = None \/ Length[runningRaid[1]] = 0 THEN {} ELSE {runningRaid}

\* What is due is run, or erased, and a raid that is running ends.  Not so: events
\* whose chain was stopped by loading those of the other origin, or had come to
\* its end; and a raid that has no events.
DueIsRun ==
    /\ \A e \in Event :
          (e \in overdue) ~> (e \notin overdue \/ "dropped " \o Kind[e] \in crossed)
    /\ \A o \in Object : (runningRaid = o /\ Length[o[1]] > 0) ~> (runningRaid # o)

\* At once: what has its time is done, and once.
CalendarKept == []OneAtATime /\ DueIsRun

=============================================================================
