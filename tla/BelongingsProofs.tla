------------------------- MODULE BelongingsProofs -------------------------
(***************************************************************************)
(* Proofs about what players own and are shown of it: a house, its lists,  *)
(* beds, document and rent, the shops they trade in, and the windows of    *)
(* containers, for any number of residents, beds, customers, merchants,    *)
(* goods, letters and failed scripts, and for any coins, windows, size of  *)
(* pages and windows left at a logout.                                     *)
(***************************************************************************)
EXTENDS Houses, Shops, Windows, FiniteSetTheorems, SequenceTheorems, TLAPS

-----------------------------------------------------------------------------
(* The house.                                                              *)

House ==
    [owner : Somebody, lists : [ListId -> SUBSET Resident],
     paid : BOOLEAN, rentWarnings : 0..WarnMax,
     transferItem : BOOLEAN, buyer : Somebody, seller : Somebody]
Visitor ==
    [place : {"gone", "in", "out"}, last : {"in", "out"},
     window : BOOLEAN, bedItem : Bed \cup {None}, kicks : 0..MaxDeeds]
Visitors == [Resident -> Visitor]
Sleepers == [Bed -> Somebody]
Places == [Resident -> Bed \cup {None}]

\* Two halves have one sleeper.
Paired(s) == \A b \in Bed : Partner[b] # None => s[Partner[b]] = s[b]
Shown(m, s) == \A p \in Resident : m[p] # None => s[m[p]] = p

\* Who has the bed's window open, or is about to be kicked, has paid for it.
WindowsCost ==
    \A p \in Resident :
        /\ visitor[p].kicks <= deeds
        /\ visitor[p].window => visitor[p].kicks + 1 <= deeds

\* A house of nobody has empty lists.
NobodysHouse == house.owner = None /\ ~houseLog.spoiled => house.lists = NoLists

HousesInv == HousesTypeOK /\ HouseInOrder /\ WindowsCost /\ Paired(houseDb.sleeper) /\ NobodysHouse

LEMMA HousesNumbers ==
  /\ Rent \in Nat /\ Purse \in Nat /\ WarnMax \in Nat /\ MaxDeeds \in Nat
  /\ None \notin Resident /\ None \notin Bed /\ Partner \in [Bed -> Bed \cup {None}]
  /\ \A b \in Bed : Partner[b] # None => /\ Partner[b] \in Bed /\ Partner[Partner[b]] = b
  BY HousesAssumption

LEMMA PuttingOut ==
  ASSUME NEW v \in Visitors, NEW S \in SUBSET Resident
  PROVE  /\ PutOut(v, S) \in Visitors
         /\ \A p \in Resident :
              /\ PutOut(v, S)[p].kicks = v[p].kicks /\ PutOut(v, S)[p].window = v[p].window
              /\ PutOut(v, S)[p].place = "in" => v[p].place = "in" /\ p \notin S
<1>1. ASSUME NEW p \in Resident
      PROVE  LET x == IF p \in S /\ v[p].place = "in" THEN [v[p] EXCEPT !.place = "out"] ELSE v[p]
             IN  /\ x \in Visitor /\ x.kicks = v[p].kicks /\ x.window = v[p].window
                 /\ x.place = "in" => v[p].place = "in" /\ p \notin S
  <2>1. v[p] \in Visitor
    BY DEF Visitors
  <2> QED
    BY <2>1 DEF Visitor
<1> QED
  BY <1>1 DEF PutOut, Visitors

\* What setOwner does to a house and to those in it.
AfterOwning(h, v, s, m, g, r) ==
    /\ r.house \in House /\ r.visitor \in Visitors /\ r.sleeper \in Sleepers /\ r.map \in Places
    /\ r.house.owner = g
    /\ r.house.buyer = h.buyer /\ r.house.transferItem = h.transferItem
    /\ \A p \in Resident : /\ r.visitor[p].kicks = v[p].kicks
                           /\ r.visitor[p].window = v[p].window
                           /\ r.visitor[p].place = "in" => v[p].place = "in"
    /\ h.owner = g => r.house = h /\ r.visitor = v /\ r.sleeper = s /\ r.map = m
    /\ h.owner = None => r.house.lists = h.lists /\ r.sleeper = s /\ r.map = m
    /\ h.owner # g => r.house.rentWarnings = 0
    /\ h.owner \notin {g, None} =>
         /\ r.house.lists = NoLists /\ r.sleeper = Empty
         /\ \A p \in Resident :
              /\ r.visitor[p].place # "in"
              /\ r.map[p] = IF \E b \in Bed : s[b] = p THEN None ELSE m[p]

LEMMA Owning ==
  ASSUME NEW h \in House, NEW v \in Visitors, NEW s \in Sleepers, NEW m \in Places,
         NEW g \in Somebody, NEW r, r = NewOwner(h, v, s, m, g)
  PROVE  AfterOwning(h, v, s, m, g, r)
<1>1. WarnMax \in Nat /\ NoLists \in [ListId -> SUBSET Resident] /\ Empty \in Sleepers
  BY HousesNumbers DEF NoLists, Empty, Sleepers, Somebody
<1>2. CASE h.owner = g
  BY <1>2 DEF NewOwner, AfterOwning
<1>3. CASE h.owner \notin {g, None}
  <2> DEFINE out == PutOut(v, Resident)
             k == [h EXCEPT !.owner = g, !.lists = NoLists, !.rentWarnings = 0]
             map == [p \in Resident |-> IF \E b \in Bed : s[b] = p THEN None ELSE m[p]]
  <2>1. r = [house |-> k, visitor |-> out, sleeper |-> Empty, map |-> map]
    BY <1>3 DEF NewOwner
  <2>2. /\ out \in Visitors
        /\ \A p \in Resident : /\ out[p].kicks = v[p].kicks /\ out[p].window = v[p].window
                               /\ out[p].place # "in"
    BY PuttingOut
  <2>3. /\ k \in House /\ k.owner = g /\ k.buyer = h.buyer /\ k.transferItem = h.transferItem
        /\ k.lists = NoLists /\ k.rentWarnings = 0
    <3>1. 0 \in 0..WarnMax
      BY <1>1
    <3>2. k \in House
      BY <1>1, <3>1 DEF House
    <3> QED
      BY <3>2 DEF House
  <2>4. map \in Places
    BY DEF Places
  <2> HIDE DEF out, k
  <2> QED
    BY <1>1, <1>3, <2>1, <2>2, <2>3, <2>4 DEF AfterOwning
<1>4. CASE h.owner = None /\ h.owner # g
  <2> DEFINE k == [h EXCEPT !.owner = g, !.paid = TRUE, !.rentWarnings = 0]
  <2>1. r = [house |-> k, visitor |-> v, sleeper |-> s, map |-> m]
    BY <1>4 DEF NewOwner
  <2>2. /\ k \in House /\ k.owner = g /\ k.buyer = h.buyer /\ k.transferItem = h.transferItem
        /\ k.lists = h.lists /\ k.rentWarnings = 0
    <3>1. 0 \in 0..WarnMax
      BY <1>1
    <3>2. k \in House
      BY <1>1, <3>1 DEF House
    <3> QED
      BY <3>2 DEF House
  <2> HIDE DEF k
  <2> QED
    BY <1>4, <2>1, <2>2 DEF AfterOwning
<1> QED
  BY <1>2, <1>3, <1>4

\* A sleeper wakes.
LEMMA Waking ==
  ASSUME NEW s \in Sleepers, NEW m \in Places, NEW b \in Bed, Paired(s), Shown(m, s),
         s[b] # None, NEW r, r = Woken(s, m, b)
  PROVE  r.sleeper \in Sleepers /\ r.map \in Places /\ Paired(r.sleeper) /\ Shown(r.map, r.sleeper)
<1> DEFINE t == [c \in Bed |-> IF c \in {b, Partner[b]} THEN None ELSE s[c]]
           n == [p \in Resident |-> IF p = s[b] THEN None ELSE m[p]]
<1>1. r = [sleeper |-> t, map |-> n]
  BY DEF Woken
<1>2. t \in Sleepers /\ n \in Places
  BY DEF Sleepers, Places, Somebody
<1>3. Paired(t)
  BY HousesNumbers DEF Paired
<1>4. Shown(n, t)
  <2> SUFFICES ASSUME NEW p \in Resident, n[p] # None
               PROVE  t[n[p]] = p
    BY DEF Shown
  <2>1. n[p] = m[p] /\ m[p] \in Bed /\ p # s[b] /\ s[m[p]] = p
    BY DEF Places, Shown
  <2>2. m[p] \notin {b, Partner[b]}
    BY <2>1, HousesNumbers DEF Paired
  <2> QED
    BY <2>1, <2>2
<1> HIDE DEF t, n
<1> QED
  BY <1>1, <1>2, <1>3, <1>4

Stored == [owner : Somebody, lists : [ListId -> SUBSET Resident],
           rentWarnings : 0..WarnMax, sleeper : Sleepers]
Tenure == [under : [ListId -> Somebody], letters : 0..WarnMax, spoiled : BOOLEAN]

LEMMA HousesFacts ==
  ASSUME HousesTypeOK
  PROVE  /\ house \in House /\ houseDb \in Stored /\ visitor \in Visitors
         /\ sleeper \in Sleepers /\ bedSleepers \in Places /\ houseLog \in Tenure
         /\ bank \in [Resident -> 0..Purse]
         /\ deeds \in Nat /\ deeds <= MaxDeeds /\ deeds \in 0..MaxDeeds
<1>1. deeds \in Nat /\ deeds <= MaxDeeds /\ deeds \in 0..MaxDeeds
  BY HousesNumbers DEF HousesTypeOK
<1> QED
  BY <1>1 DEF HousesTypeOK, House, Stored, Visitors, Visitor, Sleepers, Places, Tenure

LEMMA HousesTyped ==
  ASSUME house \in House, houseDb \in Stored, visitor \in Visitors,
         sleeper \in Sleepers, bedSleepers \in Places, houseLog \in Tenure,
         bank \in [Resident -> 0..Purse], deeds \in 0..MaxDeeds
  PROVE  HousesTypeOK
  BY DEF HousesTypeOK, House, Stored, Visitors, Visitor, Sleepers, Places, Tenure

\* The deeds are counted, or not.
Counted == deeds' = deeds \/ Does

LEMMA DeedsCount ==
  ASSUME HousesTypeOK, Counted
  PROVE  /\ deeds' \in 0..MaxDeeds /\ deeds' \in Nat /\ deeds <= deeds' /\ deeds \in Nat
         /\ Does => deeds' = deeds + 1
  BY HousesFacts, HousesNumbers DEF Counted, Does

\* What a player may become: only who is invited comes in, and windows are paid for.
VisitorsFit(h, v, d) ==
    \A p \in Resident :
        /\ v[p].place = "in" => Invited(h, p) \/ v[p].kicks > 0
        /\ v[p].kicks <= d
        /\ v[p].window => v[p].kicks + 1 <= d

LEMMA HousesInvParts ==
  HousesInv <=>
    /\ HousesTypeOK /\ VisitorsFit(house, visitor, deeds)
    /\ Shown(bedSleepers, sleeper) /\ Paired(sleeper) /\ Paired(houseDb.sleeper)
    /\ NothingInherited /\ NobodysHouse
  BY DEF HousesInv, HouseInOrder, InsideAreInvited, SleepersAgree, WindowsCost, VisitorsFit, Shown, Paired

\* The house stays as it is, and so does what is stored of it.
LEMMA HouseStands ==
  ASSUME HousesInv, UNCHANGED <<house, houseDb, bank, houseLog>>, Counted,
         visitor' \in Visitors, VisitorsFit(house, visitor', deeds'),
         sleeper' \in Sleepers, bedSleepers' \in Places,
         Shown(bedSleepers', sleeper'), Paired(sleeper')
  PROVE  HousesInv'
<1>1. deeds' \in 0..MaxDeeds
  BY DeedsCount DEF HousesInv
<1>2. HousesTypeOK'
  BY <1>1, HousesFacts, HousesTyped DEF HousesInv, HousesTypeOK, House, Stored, Visitors, Visitor, Sleepers, Places, Tenure
<1>3. NothingInherited' /\ NobodysHouse' /\ Paired(houseDb.sleeper)'
  BY DEF HousesInv, HouseInOrder, NothingInherited, NobodysHouse, Paired
<1>4. VisitorsFit(house, visitor, deeds)' /\ Shown(bedSleepers, sleeper)' /\ Paired(sleeper)'
  BY DEF VisitorsFit, Shown, Paired, Invited, AccessLevel
<1> QED
  BY <1>2, <1>3, <1>4, HousesInvParts, PTL

\* A kick or a window that was there before has been paid for.
LEMMA StaysPaid ==
  ASSUME HousesInv, Counted, NEW x \in Visitor, NEW p \in Resident,
         x.kicks = visitor[p].kicks, x.window => visitor[p].window
  PROVE  x.kicks <= deeds' /\ (x.window => x.kicks + 1 <= deeds')
<1>1. x.kicks \in Nat
  BY HousesNumbers DEF Visitor
<1>2. /\ visitor[p].kicks <= deeds
      /\ visitor[p].window => visitor[p].kicks + 1 <= deeds
  BY HousesInvParts DEF VisitorsFit
<1>3. deeds \in Nat /\ deeds' \in Nat /\ deeds <= deeds'
  BY DeedsCount DEF HousesInv
<1> QED
  BY <1>1, <1>2, <1>3

LEMMA MovesKeep ==
  ASSUME HousesInv, NEW p \in Resident, NEW q \in Resident, Enter(p) \/ GoOut(p) \/ KickGuest(p, q)
  PROVE  HousesInv'
<1>1. UNCHANGED <<house, houseDb, sleeper, bedSleepers, bank, houseLog>> /\ Counted
  BY DEF Enter, GoOut, KickGuest, Counted
<1>2. visitor \in Visitors
  BY HousesFacts DEF HousesInv
<1>3. /\ visitor' \in Visitors
      /\ \A r \in Resident : /\ visitor'[r].kicks = visitor[r].kicks
                             /\ visitor'[r].window = visitor[r].window
                             /\ visitor'[r].place = "in" => visitor[r].place = "in" \/ Invited(house, r)
  <2>1. CASE Enter(p)
    BY <1>2, <2>1 DEF Enter, Visitors, Visitor
  <2>2. CASE GoOut(p)
    BY <1>2, <2>2 DEF GoOut, Visitors, Visitor
  <2>3. CASE KickGuest(p, q)
    <3>1. {q} \in SUBSET Resident
      OBVIOUS
    <3> QED
      BY <1>2, <2>3, <3>1, PuttingOut DEF KickGuest
  <2> QED
    BY <2>1, <2>2, <2>3
<1>4. VisitorsFit(house, visitor', deeds')
  <2> SUFFICES ASSUME NEW r \in Resident
               PROVE  /\ visitor'[r].place = "in" => Invited(house, r) \/ visitor'[r].kicks > 0
                      /\ visitor'[r].kicks <= deeds'
                      /\ visitor'[r].window => visitor'[r].kicks + 1 <= deeds'
    BY DEF VisitorsFit
  <2>1. visitor'[r] \in Visitor
    BY <1>3 DEF Visitors
  <2>2. visitor'[r].kicks <= deeds' /\ (visitor'[r].window => visitor'[r].kicks + 1 <= deeds')
    BY <1>1, <1>3, <2>1, StaysPaid
  <2>3. visitor[r].place = "in" => Invited(house, r) \/ visitor[r].kicks > 0
    BY HousesInvParts DEF VisitorsFit
  <2> QED
    BY <1>3, <2>2, <2>3
<1>5. sleeper \in Sleepers /\ bedSleepers \in Places /\ Shown(bedSleepers, sleeper) /\ Paired(sleeper)
  BY HousesFacts, HousesInvParts DEF HousesInv
<1> QED
  BY <1>1, <1>3, <1>4, <1>5, HouseStands

LEMMA BedsKeep ==
  ASSUME HousesInv, NEW p \in Resident, NEW b \in Bed, UseBed(p, b)
  PROVE  HousesInv'
<1>1. UNCHANGED <<house, houseDb, bank, houseLog>> /\ Counted /\ visitor[p].place = "in" /\ Does
  BY DEF UseBed, Counted
<1>2. /\ visitor \in Visitors /\ sleeper \in Sleepers /\ bedSleepers \in Places
      /\ Shown(bedSleepers, sleeper) /\ Paired(sleeper)
  BY HousesFacts, HousesInvParts DEF HousesInv
<1>3. CASE sleeper[b] = None
  <2>1. /\ visitor' = [visitor EXCEPT ![p].window = TRUE, ![p].bedItem = b]
        /\ UNCHANGED <<sleeper, bedSleepers>>
    BY <1>3 DEF UseBed
  <2>2. visitor' \in Visitors
    <3>1. visitor[p] \in Visitor
      BY <1>2 DEF Visitors
    <3>2. [visitor[p] EXCEPT !.window = TRUE, !.bedItem = b] \in Visitor
      BY <3>1 DEF Visitor
    <3>3. visitor' = [visitor EXCEPT ![p] = [visitor[p] EXCEPT !.window = TRUE, !.bedItem = b]]
      BY <1>2, <2>1 DEF Visitors
    <3> QED
      BY <1>2, <3>2, <3>3 DEF Visitors
  <2>3. \A r \in Resident : /\ visitor'[r].kicks = visitor[r].kicks
                            /\ visitor'[r].place = visitor[r].place
                            /\ r # p => visitor'[r].window = visitor[r].window
    BY <1>2, <2>1 DEF Visitors, Visitor
  <2>4. VisitorsFit(house, visitor', deeds')
    <3> SUFFICES ASSUME NEW r \in Resident
                 PROVE  /\ visitor'[r].place = "in" => Invited(house, r) \/ visitor'[r].kicks > 0
                        /\ visitor'[r].kicks <= deeds'
                        /\ visitor'[r].window => visitor'[r].kicks + 1 <= deeds'
      BY DEF VisitorsFit
    <3>1. visitor[r].place = "in" => Invited(house, r) \/ visitor[r].kicks > 0
      BY HousesInvParts DEF VisitorsFit
    <3>2. visitor[r].kicks \in Nat /\ visitor[r].kicks <= deeds
          /\ deeds' = deeds + 1 /\ deeds \in Nat
      BY <1>1, <1>2, HousesNumbers, HousesInvParts, DeedsCount DEF Visitors, Visitor, VisitorsFit, HousesInv
    <3> QED
      BY <2>3, <3>1, <3>2
  <2> QED
    BY <1>1, <1>2, <2>1, <2>2, <2>4, HouseStands
<1>4. CASE sleeper[b] # None
  <2>1. PICK r : r = Woken(sleeper, bedSleepers, b)
    OBVIOUS
  <2>2. sleeper' = r.sleeper /\ bedSleepers' = r.map /\ visitor' = visitor
    BY <1>4, <2>1 DEF UseBed
  <2>3. /\ sleeper' \in Sleepers /\ bedSleepers' \in Places
        /\ Shown(bedSleepers', sleeper') /\ Paired(sleeper')
    BY <1>2, <1>4, <2>1, <2>2, Waking
  <2>4. VisitorsFit(house, visitor', deeds')
    <3> SUFFICES ASSUME NEW q \in Resident
                 PROVE  /\ visitor[q].place = "in" => Invited(house, q) \/ visitor[q].kicks > 0
                        /\ visitor[q].kicks <= deeds'
                        /\ visitor[q].window => visitor[q].kicks + 1 <= deeds'
      BY <2>2 DEF VisitorsFit
    <3>1. visitor[q] \in Visitor
      BY <1>2 DEF Visitors
    <3>2. visitor[q].place = "in" => Invited(house, q) \/ visitor[q].kicks > 0
      BY HousesInvParts DEF VisitorsFit
    <3> QED
      BY <1>1, <3>1, <3>2, StaysPaid
  <2> QED
    BY <1>1, <1>2, <2>2, <2>3, <2>4, HouseStands
<1> QED
  BY <1>3, <1>4

\* The others when one of them has changed.
LEMMA OthersFit ==
  ASSUME HousesInv, Counted, NEW p \in Resident, visitor' \in Visitors,
         \A r \in Resident \ {p} : visitor'[r] = visitor[r],
         visitor'[p].place = "in" => Invited(house, p) \/ visitor'[p].kicks > 0,
         visitor'[p].kicks <= deeds',
         visitor'[p].window => visitor'[p].kicks + 1 <= deeds'
  PROVE  VisitorsFit(house, visitor', deeds')
<1> SUFFICES ASSUME NEW r \in Resident
             PROVE  /\ visitor'[r].place = "in" => Invited(house, r) \/ visitor'[r].kicks > 0
                    /\ visitor'[r].kicks <= deeds'
                    /\ visitor'[r].window => visitor'[r].kicks + 1 <= deeds'
  BY DEF VisitorsFit
<1>1. CASE r = p
  BY <1>1
<1>2. CASE r # p
  <2>1. visitor'[r] = visitor[r] /\ visitor[r] \in Visitor
    BY <1>2, HousesFacts DEF HousesInv, Visitors
  <2>2. visitor[r].place = "in" => Invited(house, r) \/ visitor[r].kicks > 0
    BY HousesInvParts DEF VisitorsFit
  <2> QED
    BY <2>1, <2>2, StaysPaid
<1> QED
  BY <1>1, <1>2

LEMMA AnswersKeep ==
  ASSUME HousesInv, NEW p \in Resident, NEW sleeps \in BOOLEAN, AnswerWindow(p, sleeps)
  PROVE  HousesInv'
<1> DEFINE b == visitor[p].bedItem
           lies == sleeps /\ b # None /\ sleeper[b] = None
<1>1. UNCHANGED <<house, houseDb, bank, deeds, houseLog>> /\ Counted /\ visitor[p].window
  BY DEF AnswerWindow, Counted
<1>2. /\ visitor \in Visitors /\ sleeper \in Sleepers /\ bedSleepers \in Places
      /\ Shown(bedSleepers, sleeper) /\ Paired(sleeper) /\ deeds \in Nat /\ deeds <= MaxDeeds
  BY HousesFacts, HousesInvParts DEF HousesInv
<1>3. visitor[p].kicks \in Nat /\ visitor[p].kicks + 1 <= deeds /\ MaxDeeds \in Nat
  BY <1>1, <1>2, HousesNumbers, HousesInvParts DEF Visitors, Visitor, VisitorsFit
<1>4. b \in Bed \cup {None} /\ visitor[p] \in Visitor
  BY <1>2 DEF Visitors, Visitor
<1>5. CASE lies
  <2>1. /\ visitor' = [visitor EXCEPT ![p].window = FALSE, ![p].place = "in", ![p].kicks = @ + 1]
        /\ sleeper' = [c \in Bed |-> IF c \in {b, Partner[b]} THEN p ELSE sleeper[c]]
        /\ bedSleepers' = [bedSleepers EXCEPT ![p] = b]
    BY <1>5 DEF AnswerWindow
  <2>2. b \in Bed
    BY <1>4, <1>5
  <2>3. visitor[p].kicks + 1 \in 0..MaxDeeds
    BY <1>2, <1>3
  <2>4. PICK x : x = [visitor[p] EXCEPT !.window = FALSE, !.place = "in", !.kicks = @ + 1]
    OBVIOUS
  <2>5. x \in Visitor /\ x.kicks = visitor[p].kicks + 1 /\ x.window = FALSE
    BY <1>4, <2>3, <2>4 DEF Visitor
  <2>6. visitor' = [visitor EXCEPT ![p] = x]
    BY <1>2, <2>1, <2>4 DEF Visitors
  <2>7. visitor' \in Visitors /\ visitor'[p] = x /\ \A r \in Resident \ {p} : visitor'[r] = visitor[r]
    BY <1>2, <2>5, <2>6 DEF Visitors
  <2>8. VisitorsFit(house, visitor', deeds')
    <3>1. x.kicks > 0 /\ x.kicks <= deeds' /\ ~x.window
      BY <1>1, <1>2, <1>3, <2>5
    <3> QED
      BY <1>1, <2>7, <3>1, OthersFit
  <2>9. sleeper' \in Sleepers /\ bedSleepers' \in Places
    BY <1>2, <2>1, <2>2 DEF Sleepers, Places, Somebody
  <2>10. Paired(sleeper')
    BY <1>2, <2>1, <2>2, HousesNumbers DEF Paired, Sleepers
  <2>11. Shown(bedSleepers', sleeper')
    <3> SUFFICES ASSUME NEW q \in Resident, bedSleepers'[q] # None
                 PROVE  sleeper'[bedSleepers'[q]] = q
      BY DEF Shown
    <3>1. CASE q = p
      BY <1>2, <2>1, <2>2, <3>1 DEF Places
    <3>2. CASE q # p
      <4>1. bedSleepers'[q] = bedSleepers[q] /\ bedSleepers[q] \in Bed
        BY <1>2, <2>1, <3>2 DEF Places
      <4>2. sleeper[bedSleepers[q]] = q /\ q # None
        BY <1>2, <4>1, HousesNumbers DEF Shown
      <4>3. sleeper[b] = None /\ (Partner[b] # None => sleeper[Partner[b]] = None)
        BY <1>2, <1>5, <2>2 DEF Paired
      <4> QED
        BY <2>1, <4>1, <4>2, <4>3, HousesNumbers
    <3> QED
      BY <3>1, <3>2
  <2> QED
    BY <1>1, <2>7, <2>8, <2>9, <2>10, <2>11, HouseStands
<1>6. CASE ~lies
  <2>1. /\ visitor' = [visitor EXCEPT ![p].window = FALSE, ![p].bedItem = None]
        /\ UNCHANGED <<sleeper, bedSleepers>>
    BY <1>6 DEF AnswerWindow
  <2>2. /\ visitor' \in Visitors /\ \A r \in Resident \ {p} : visitor'[r] = visitor[r]
        /\ visitor'[p].kicks = visitor[p].kicks /\ visitor'[p].window = FALSE
        /\ visitor'[p].place = visitor[p].place
    BY <1>2, <2>1 DEF Visitors, Visitor
  <2>3. visitor[p].place = "in" => Invited(house, p) \/ visitor[p].kicks > 0
    BY HousesInvParts DEF VisitorsFit
  <2>4. visitor[p].kicks <= deeds'
    BY <1>1, <1>2, <1>3
  <2>5. VisitorsFit(house, visitor', deeds')
    BY <1>1, <2>2, <2>3, <2>4, OthersFit
  <2> QED
    BY <1>1, <1>2, <2>1, <2>2, <2>5, HouseStands
<1> QED
  BY <1>5, <1>6

LEMMA LoginsKeep ==
  ASSUME HousesInv, NEW p \in Resident, LogIn(p)
  PROVE  HousesInv'
<1>1. UNCHANGED <<house, houseDb, bank, houseLog>> /\ Counted /\ ~Here(p)
  BY DEF LogIn, Counted
<1>2. /\ visitor \in Visitors /\ sleeper \in Sleepers /\ bedSleepers \in Places
      /\ Shown(bedSleepers, sleeper) /\ Paired(sleeper)
  BY HousesFacts, HousesInvParts DEF HousesInv
<1>3. PICK at \in {"in", "out"} : /\ visitor' = [visitor EXCEPT ![p].place = at]
                                  /\ at = "in" => Invited(house, p)
  BY DEF LogIn
<1>4. /\ visitor' \in Visitors /\ \A r \in Resident \ {p} : visitor'[r] = visitor[r]
      /\ visitor'[p].kicks = visitor[p].kicks /\ visitor'[p].window = visitor[p].window
      /\ visitor'[p].place = at
  BY <1>2, <1>3 DEF Visitors, Visitor
<1>5. visitor'[p] \in Visitor
  BY <1>4 DEF Visitors
<1>6. visitor'[p].kicks <= deeds' /\ (visitor'[p].window => visitor'[p].kicks + 1 <= deeds')
  BY <1>1, <1>4, <1>5, StaysPaid
<1>7. VisitorsFit(house, visitor', deeds')
  BY <1>1, <1>3, <1>4, <1>6, OthersFit
<1>8. CASE bedSleepers[p] = None
  <2>1. UNCHANGED <<sleeper, bedSleepers>>
    BY <1>8 DEF LogIn
  <2> QED
    BY <1>1, <1>2, <1>4, <1>7, <2>1, HouseStands
<1>9. CASE bedSleepers[p] # None
  <2>1. bedSleepers[p] \in Bed /\ sleeper[bedSleepers[p]] = p /\ p # None
    BY <1>2, <1>9, HousesNumbers DEF Places, Shown
  <2>2. PICK r : r = Woken(sleeper, bedSleepers, bedSleepers[p])
    OBVIOUS
  <2>3. sleeper' = r.sleeper /\ bedSleepers' = r.map
    BY <1>9, <2>2 DEF LogIn
  <2>4. sleeper' \in Sleepers /\ bedSleepers' \in Places /\ Shown(bedSleepers', sleeper') /\ Paired(sleeper')
    BY <1>2, <2>1, <2>2, <2>3, Waking
  <2> QED
    BY <1>1, <1>4, <1>7, <2>4, HouseStands
<1> QED
  BY <1>8, <1>9

\* Where the house changes: what is inherited is asked of the new house.
LEMMA HouseChanges ==
  ASSUME HousesInv, Counted,
         house' \in House, houseDb' \in Stored, houseLog' \in Tenure,
         bank' \in [Resident -> 0..Purse], visitor' \in Visitors,
         VisitorsFit(house', visitor', deeds'),
         sleeper' \in Sleepers, bedSleepers' \in Places, Shown(bedSleepers', sleeper'),
         Paired(sleeper'), Paired(houseDb'.sleeper), NothingInherited', NobodysHouse'
  PROVE  HousesInv'
<1>1. deeds' \in 0..MaxDeeds
  BY DeedsCount DEF HousesInv
<1>2. HousesTypeOK'
  BY <1>1 DEF HousesTypeOK, House, Stored, Visitors, Visitor, Sleepers, Places, Tenure
<1>3. VisitorsFit(house, visitor, deeds)' /\ Shown(bedSleepers, sleeper)' /\ Paired(sleeper)'
      /\ Paired(houseDb.sleeper)'
  BY DEF VisitorsFit, Shown, Paired, Invited, AccessLevel
<1> QED
  BY <1>2, <1>3, HousesInvParts, PTL

\* A deal that ends, or begins, leaves all but the document alone.
LEMMA Undealing ==
  ASSUME NEW h \in House
  PROVE  /\ Undealt(h) \in House /\ Undealt(h).owner = h.owner /\ Undealt(h).lists = h.lists
         /\ Undealt(h).rentWarnings = h.rentWarnings
         /\ Undealt(h).transferItem = FALSE /\ Undealt(h).buyer = None
  BY DEF Undealt, House, Somebody

LEMMA DealsKeep ==
  ASSUME HousesInv, Counted, UNCHANGED <<houseDb, sleeper, bedSleepers, bank, houseLog>>,
         house' \in House, house'.owner = house.owner, house'.lists = house.lists,
         house'.rentWarnings = house.rentWarnings,
         house'.transferItem <=> house'.buyer # None,
         visitor' \in Visitors, VisitorsFit(house, visitor', deeds')
  PROVE  HousesInv'
<1>1. VisitorsFit(house', visitor', deeds')
  BY DEF VisitorsFit, Invited, AccessLevel
<1>2. NothingInherited' /\ NobodysHouse'
  BY HousesInvParts DEF NothingInherited, NobodysHouse
<1>3. /\ sleeper \in Sleepers /\ bedSleepers \in Places /\ houseDb \in Stored /\ houseLog \in Tenure
      /\ bank \in [Resident -> 0..Purse]
      /\ Shown(bedSleepers, sleeper) /\ Paired(sleeper) /\ Paired(houseDb.sleeper)
  BY HousesFacts, HousesInvParts DEF HousesInv
<1> QED
  BY <1>1, <1>2, <1>3, HouseChanges

\* Everyone stays where he is.
LEMMA AllStay ==
  ASSUME HousesInv, Counted, visitor' = visitor
  PROVE  visitor' \in Visitors /\ VisitorsFit(house, visitor', deeds')
<1>1. visitor \in Visitors
  BY HousesFacts DEF HousesInv
<1>2. ASSUME NEW q \in Resident
      PROVE  /\ visitor[q].place = "in" => Invited(house, q) \/ visitor[q].kicks > 0
             /\ visitor[q].kicks <= deeds'
             /\ visitor[q].window => visitor[q].kicks + 1 <= deeds'
  <2>1. visitor[q] \in Visitor
    BY <1>1 DEF Visitors
  <2>2. visitor[q].place = "in" => Invited(house, q) \/ visitor[q].kicks > 0
    BY HousesInvParts DEF VisitorsFit
  <2> QED
    BY <2>1, <2>2, StaysPaid
<1> QED
  BY <1>1, <1>2 DEF VisitorsFit

LEMMA SalesKeep ==
  ASSUME HousesInv,
         \/ \E p, q \in Resident : StartTrade(p, q)
         \/ CancelTrade
  PROVE  HousesInv'
<1>1. /\ UNCHANGED <<houseDb, visitor, sleeper, bedSleepers, bank, houseLog>> /\ Counted
      /\ visitor' = visitor
  BY DEF StartTrade, CancelTrade, Counted
<1>2. house \in House
  BY HousesFacts DEF HousesInv
<1>3. /\ house' \in House /\ house'.owner = house.owner /\ house'.lists = house.lists
      /\ house'.rentWarnings = house.rentWarnings
      /\ (house'.transferItem <=> house'.buyer # None)
  <2>1. CASE CancelTrade
    BY <1>2, <2>1, Undealing DEF CancelTrade
  <2>2. ASSUME NEW p \in Resident, NEW q \in Resident, StartTrade(p, q)
        PROVE  /\ house' \in House /\ house'.owner = house.owner /\ house'.lists = house.lists
               /\ house'.rentWarnings = house.rentWarnings
               /\ (house'.transferItem <=> house'.buyer # None)
    <3>1. house' = [house EXCEPT !.transferItem = TRUE, !.seller = p, !.buyer = q]
      BY <2>2 DEF StartTrade
    <3>2. q # None
      BY HousesNumbers
    <3>3. house' \in House
      BY <1>2, <3>1 DEF House, Somebody
    <3> QED
      BY <1>2, <3>1, <3>2, <3>3 DEF House
  <2> QED
    BY <2>1, <2>2
<1>4. visitor' \in Visitors /\ VisitorsFit(house, visitor', deeds')
  BY <1>1, AllStay
<1> QED
  BY <1>1, <1>3, <1>4, DealsKeep

LEMMA LeavingKeeps ==
  ASSUME HousesInv, NEW p \in Resident, LogOut(p) \/ KickSleeper(p)
  PROVE  HousesInv'
<1>1. /\ visitor' = LeftGame(visitor, p) /\ Counted
      /\ house' = IF p \in {house.buyer, house.seller} THEN Undealt(house) ELSE house
      /\ UNCHANGED <<houseDb, sleeper, bedSleepers, bank, deeds, houseLog>>
      /\ visitor[p].place # "gone"
  BY DEF LogOut, KickSleeper, LeavesGame, Counted, Here
<1>2. visitor \in Visitors /\ house \in House /\ deeds \in Nat
  BY HousesFacts DEF HousesInv
<1>3. /\ visitor' \in Visitors /\ \A r \in Resident \ {p} : visitor'[r] = visitor[r]
      /\ visitor'[p].place = "gone" /\ visitor'[p].kicks = 0 /\ visitor'[p].window = FALSE
  <2>1. PICK x : x = [place |-> "gone", last |-> visitor[p].place, window |-> FALSE,
                      bedItem |-> None, kicks |-> 0]
    OBVIOUS
  <2>2. visitor' = [visitor EXCEPT ![p] = x]
    BY <1>1, <2>1 DEF LeftGame
  <2>3. 0 \in 0..MaxDeeds /\ visitor[p].place \in {"in", "out"}
    BY <1>1, <1>2, HousesNumbers DEF Visitors, Visitor
  <2>4. x \in Visitor
    BY <2>1, <2>3 DEF Visitor
  <2> QED
    BY <1>2, <2>1, <2>2, <2>4 DEF Visitors
<1>4. VisitorsFit(house, visitor', deeds')
  <2>1. 0 <= deeds'
    BY <1>1, <1>2
  <2> QED
    BY <1>1, <1>3, <2>1, OthersFit
<1>5. house.transferItem <=> house.buyer # None
  BY HousesInvParts DEF NothingInherited
<1>6. /\ house' \in House /\ house'.owner = house.owner /\ house'.lists = house.lists
      /\ house'.rentWarnings = house.rentWarnings
      /\ (house'.transferItem <=> house'.buyer # None)
  BY <1>1, <1>2, <1>5, Undealing
<1> QED
  BY <1>1, <1>3, <1>4, <1>6, DealsKeep

LEMMA ListsKeep ==
  ASSUME HousesInv, NEW p \in Resident, NEW l \in ListId, NEW S \in SUBSET Resident,
         SetAccessList(p, l, S)
  PROVE  HousesInv'
<1> DEFINE g == [house EXCEPT !.lists[l] = S]
           out == PutOut(visitor, {q \in Resident : ~Invited(g, q)})
<1>1. /\ UNCHANGED <<houseDb, sleeper, bedSleepers, bank>> /\ Counted
      /\ CanEditAccessList(l, p)
      /\ house' = g /\ visitor' = IF l = "door" THEN visitor ELSE out
      /\ houseLog' = [houseLog EXCEPT !.under[l] = house.owner]
  BY DEF SetAccessList, Counted, Listed
<1>2. /\ visitor \in Visitors /\ house \in House /\ houseLog \in Tenure
      /\ sleeper \in Sleepers /\ bedSleepers \in Places /\ houseDb \in Stored
      /\ bank \in [Resident -> 0..Purse]
      /\ Shown(bedSleepers, sleeper) /\ Paired(sleeper) /\ Paired(houseDb.sleeper)
  BY HousesFacts, HousesInvParts DEF HousesInv
<1>3. /\ g \in House /\ g.owner = house.owner /\ g.rentWarnings = house.rentWarnings
      /\ g.transferItem = house.transferItem /\ g.buyer = house.buyer
      /\ g.lists[l] = S /\ \A k \in ListId \ {l} : g.lists[k] = house.lists[k]
  BY <1>2 DEF House
<1>4. houseLog' \in Tenure /\ houseLog'.letters = houseLog.letters
      /\ houseLog'.spoiled = houseLog.spoiled
      /\ houseLog'.under[l] = house.owner
      /\ \A k \in ListId \ {l} : houseLog'.under[k] = houseLog.under[k]
  BY <1>1, <1>2 DEF Tenure, House
<1> HIDE DEF g
<1>5. visitor' \in Visitors /\ VisitorsFit(g, visitor', deeds')
  <2>1. CASE l = "door"
    <3>1. visitor' \in Visitors /\ VisitorsFit(house, visitor', deeds')
      BY <1>1, <2>1, AllStay
    <3>2. g.lists["guest"] = house.lists["guest"] /\ g.lists["subowner"] = house.lists["subowner"]
      BY <1>3, <2>1 DEF ListId
    <3> QED
      BY <1>3, <3>1, <3>2 DEF VisitorsFit, Invited, AccessLevel
  <2>2. CASE l # "door"
    <3>1. visitor' = out
      BY <1>1, <2>2
    <3>2. /\ out \in Visitors
          /\ \A q \in Resident : /\ out[q].kicks = visitor[q].kicks /\ out[q].window = visitor[q].window
                                 /\ out[q].place = "in" => Invited(g, q)
      BY <1>2, PuttingOut
    <3> HIDE DEF out
    <3>3. ASSUME NEW q \in Resident
          PROVE  out[q].kicks <= deeds' /\ (out[q].window => out[q].kicks + 1 <= deeds')
      <4>1. out[q] \in Visitor
        BY <3>2 DEF Visitors
      <4> QED
        BY <1>1, <3>2, <4>1, StaysPaid
    <3> QED
      BY <3>1, <3>2, <3>3 DEF VisitorsFit
  <2> QED
    BY <2>1, <2>2
<1>6. NothingInherited'
  <2>1. NothingInherited
    BY HousesInvParts
  <2> QED
    BY <1>1, <1>3, <1>4, <2>1 DEF NothingInherited
<1>7. NobodysHouse'
  <2>1. ASSUME house.owner = None, ~houseLog.spoiled
        PROVE  FALSE
    <3>1. house.lists = NoLists
      BY <2>1, HousesInvParts DEF NobodysHouse
    <3>2. AccessLevel(house, p) = 0
      BY <2>1, <3>1, HousesNumbers DEF AccessLevel, NoLists, ListId
    <3> QED
      BY <1>1, <3>2 DEF CanEditAccessList
  <2> QED
    BY <1>1, <1>3, <1>4, <2>1 DEF NobodysHouse
<1> QED
  BY <1>1, <1>2, <1>3, <1>4, <1>5, <1>6, <1>7, HouseChanges

LEMMA OwnersKeep ==
  ASSUME HousesInv, Counted, bank' = bank, NEW h, h \in {house, Undealt(house)},
         NEW g \in Somebody, OwnedNow(h, g)
  PROVE  HousesInv'
<1>1. /\ visitor \in Visitors /\ house \in House /\ houseLog \in Tenure
      /\ sleeper \in Sleepers /\ bedSleepers \in Places /\ houseDb \in Stored
      /\ bank \in [Resident -> 0..Purse]
      /\ Shown(bedSleepers, sleeper) /\ Paired(sleeper) /\ Paired(houseDb.sleeper)
  BY HousesFacts, HousesInvParts DEF HousesInv
<1>2. /\ h \in House /\ h.owner = house.owner /\ h.lists = house.lists
      /\ h.rentWarnings = house.rentWarnings /\ (h.transferItem <=> h.buyer # None)
  BY <1>1, Undealing, HousesInvParts DEF NothingInherited
<1>3. PICK r : r = NewOwner(h, visitor, sleeper, bedSleepers, g)
  OBVIOUS
<1>4. /\ house' = r.house /\ visitor' = r.visitor /\ sleeper' = r.sleeper /\ bedSleepers' = r.map
      /\ houseDb' = [houseDb EXCEPT !.owner = IF h.owner = g THEN @ ELSE g]
      /\ houseLog' = [houseLog EXCEPT !.letters = IF h.owner = g THEN @ ELSE 0]
  BY <1>3 DEF OwnedNow
<1>5. AfterOwning(h, visitor, sleeper, bedSleepers, g, r)
  BY <1>1, <1>2, <1>3, Owning
<1>6. houseDb' \in Stored /\ Paired(houseDb'.sleeper)
  <2>1. PICK o \in Somebody : houseDb' = [houseDb EXCEPT !.owner = o]
    BY <1>1, <1>4 DEF Stored
  <2> QED
    BY <1>1, <2>1 DEF Stored
<1>7. /\ houseLog' \in Tenure /\ houseLog'.under = houseLog.under
      /\ houseLog'.spoiled = houseLog.spoiled
      /\ houseLog'.letters = IF h.owner = g THEN houseLog.letters ELSE 0
  <2>1. 0 \in 0..WarnMax
    BY HousesNumbers
  <2>2. PICK n \in 0..WarnMax : /\ houseLog' = [houseLog EXCEPT !.letters = n]
                                /\ n = IF h.owner = g THEN houseLog.letters ELSE 0
    BY <1>1, <1>4, <2>1 DEF Tenure
  <2> QED
    BY <1>1, <2>2 DEF Tenure
<1>8. VisitorsFit(r.house, r.visitor, deeds')
  <2> SUFFICES ASSUME NEW p \in Resident
               PROVE  /\ r.visitor[p].place = "in" => Invited(r.house, p) \/ r.visitor[p].kicks > 0
                      /\ r.visitor[p].kicks <= deeds'
                      /\ r.visitor[p].window => r.visitor[p].kicks + 1 <= deeds'
    BY DEF VisitorsFit
  <2>1. r.visitor[p] \in Visitor
    BY <1>5 DEF Visitors, AfterOwning
  <2>2. r.visitor[p].kicks <= deeds' /\ (r.visitor[p].window => r.visitor[p].kicks + 1 <= deeds')
    BY <1>5, <2>1, StaysPaid DEF AfterOwning
  <2>3. visitor[p].place = "in" => Invited(house, p) \/ visitor[p].kicks > 0
    BY HousesInvParts DEF VisitorsFit
  <2>4. h.owner \in {g, None} /\ Invited(house, p) => Invited(r.house, p)
    BY <1>2, <1>5, HousesNumbers DEF Invited, AccessLevel, AfterOwning
  <2> QED
    BY <1>5, <2>2, <2>3, <2>4 DEF AfterOwning
<1>9. Shown(r.map, r.sleeper) /\ Paired(r.sleeper)
  <2>1. CASE h.owner \in {g, None}
    BY <1>1, <1>5, <2>1 DEF AfterOwning
  <2>2. CASE h.owner \notin {g, None}
    <3>1. r.sleeper = Empty /\ Paired(Empty)
      BY <1>5, <2>2, HousesNumbers DEF Paired, Empty, AfterOwning
    <3>2. ASSUME NEW p \in Resident
          PROVE  r.map[p] = None
      <4>1. r.map[p] = IF \E b \in Bed : sleeper[b] = p THEN None ELSE bedSleepers[p]
        BY <1>5, <2>2 DEF AfterOwning
      <4>2. bedSleepers[p] \in Bed \cup {None}
        BY <1>1 DEF Places
      <4>3. bedSleepers[p] # None => sleeper[bedSleepers[p]] = p
        BY <1>1 DEF Shown
      <4> QED
        BY <4>1, <4>2, <4>3
    <3> QED
      BY <3>1, <3>2 DEF Shown
  <2> QED
    BY <2>1, <2>2
<1>10. NothingInherited'
  <2>1. /\ ~houseLog.spoiled =>
              /\ \A l \in ListId : house.lists[l] # {} => houseLog.under[l] = house.owner
              /\ house.rentWarnings <= houseLog.letters
        /\ house.owner = None /\ ~houseLog.spoiled => house.lists = NoLists
    BY HousesInvParts DEF NothingInherited, NobodysHouse
  <2>2. \A l \in ListId : NoLists[l] = {}
    BY DEF NoLists
  <2>3. ~houseLog.spoiled => \A l \in ListId : r.house.lists[l] # {} => houseLog.under[l] = g
    BY <1>2, <1>5, <2>1, <2>2 DEF AfterOwning
  <2>4. ~houseLog.spoiled => r.house.rentWarnings <= houseLog'.letters
    BY <1>2, <1>5, <1>7, <2>1 DEF AfterOwning
  <2> QED
    BY <1>2, <1>4, <1>5, <1>7, <2>3, <2>4 DEF NothingInherited, AfterOwning
<1>11. NobodysHouse'
  <2>1. NobodysHouse
    BY HousesInvParts
  <2> QED
    BY <1>2, <1>4, <1>5, <1>7, <2>1 DEF NobodysHouse, AfterOwning
<1> QED
  BY <1>1, <1>4, <1>5, <1>6, <1>7, <1>8, <1>9, <1>10, <1>11, HouseChanges DEF AfterOwning

\* What Map::save stores, of the house, of the beds, or of both.
LEMMA Storing ==
  ASSUME HousesInv, NEW info \in BOOLEAN, NEW items \in BOOLEAN, NEW db,
         db = HouseStored(info, items)
  PROVE  /\ db \in Stored /\ Paired(db.sleeper)
         /\ info => /\ db.owner = house.owner /\ db.lists = house.lists
                    /\ db.rentWarnings = house.rentWarnings
<1>1. /\ house \in House /\ sleeper \in Sleepers /\ houseDb \in Stored
      /\ Paired(sleeper) /\ Paired(houseDb.sleeper)
  BY HousesFacts, HousesInvParts DEF HousesInv
<1>2. PICK o \in Somebody, ls \in [ListId -> SUBSET Resident], n \in 0..WarnMax, s \in Sleepers :
        /\ db = [houseDb EXCEPT !.owner = o, !.lists = ls, !.rentWarnings = n, !.sleeper = s]
        /\ info => o = house.owner /\ ls = house.lists /\ n = house.rentWarnings
        /\ s \in {sleeper, houseDb.sleeper}
  <2>1. /\ house.owner \in Somebody /\ house.lists \in [ListId -> SUBSET Resident]
        /\ house.rentWarnings \in 0..WarnMax
        /\ houseDb.owner \in Somebody /\ houseDb.lists \in [ListId -> SUBSET Resident]
        /\ houseDb.rentWarnings \in 0..WarnMax /\ houseDb.sleeper \in Sleepers
    BY <1>1 DEF House, Stored
  <2>2. PICK o \in Somebody : o = IF info THEN house.owner ELSE houseDb.owner
    BY <2>1
  <2>3. PICK ls \in [ListId -> SUBSET Resident] : ls = IF info THEN house.lists ELSE houseDb.lists
    BY <2>1
  <2>4. PICK n \in 0..WarnMax : n = IF info THEN house.rentWarnings ELSE houseDb.rentWarnings
    BY <2>1
  <2>5. PICK s \in Sleepers : s = IF items THEN sleeper ELSE houseDb.sleeper
    BY <1>1, <2>1
  <2>6. db = [houseDb EXCEPT !.owner = o, !.lists = ls, !.rentWarnings = n, !.sleeper = s]
    BY <1>1, <2>2, <2>3, <2>4, <2>5 DEF HouseStored, Stored
  <2>7. info => o = house.owner /\ ls = house.lists /\ n = house.rentWarnings
    BY <2>2, <2>3, <2>4
  <2>8. s \in {sleeper, houseDb.sleeper}
    BY <2>5
  <2> QED
    BY <2>6, <2>7, <2>8
<1>3. /\ db \in Stored /\ db.owner = o /\ db.lists = ls /\ db.rentWarnings = n /\ db.sleeper = s
  BY <1>1, <1>2 DEF Stored
<1> QED
  BY <1>1, <1>2, <1>3

LEMMA SavingKeeps ==
  ASSUME HousesInv, SaveHouses
  PROVE  HousesInv'
<1>1. /\ Counted /\ houseDb' = HouseStored(TRUE, TRUE)
      /\ UNCHANGED <<house, visitor, sleeper, bedSleepers, bank, houseLog>>
  BY DEF SaveHouses, Counted
<1>2. houseDb' \in Stored /\ Paired(houseDb'.sleeper)
  BY <1>1, Storing
<1>3. visitor' \in Visitors /\ VisitorsFit(house, visitor', deeds')
  BY <1>1, AllStay
<1>4. NothingInherited' /\ NobodysHouse'
  BY <1>1, HousesInvParts DEF NothingInherited, NobodysHouse
<1>5. /\ house \in House /\ houseLog \in Tenure
      /\ sleeper \in Sleepers /\ bedSleepers \in Places
      /\ bank \in [Resident -> 0..Purse]
      /\ Shown(bedSleepers, sleeper) /\ Paired(sleeper)
  BY HousesFacts, HousesInvParts DEF HousesInv
<1> QED
  BY <1>1, <1>2, <1>3, <1>4, <1>5, HouseChanges

\* The rent is paid, or a letter is sent, or the house is lost.
LEMMA Renting ==
  ASSUME NEW h \in House, NEW money \in [Resident -> 0..Purse], HousesTypeOK,
         NEW k, k = AfterRent(h, money)
  PROVE  /\ k \in House /\ k.buyer = h.buyer /\ k.transferItem = h.transferItem
         /\ k.owner \in {h.owner, None}
         /\ k.owner = h.owner => /\ k.lists = h.lists
                                 /\ k.rentWarnings \in {h.rentWarnings, h.rentWarnings + 1}
         /\ k.owner # h.owner => k.lists = NoLists /\ k.rentWarnings = 0
<1>1. WarnMax \in Nat /\ h.rentWarnings \in 0..WarnMax /\ h.owner \in Somebody
  BY HousesNumbers DEF House
<1>2. CASE k = h
  BY <1>2
<1>3. CASE h.rentWarnings < WarnMax /\ k = [h EXCEPT !.rentWarnings = @ + 1]
  <2>1. h.rentWarnings + 1 \in 0..WarnMax
    BY <1>1, <1>3
  <2>2. PICK n \in 0..WarnMax : n = h.rentWarnings + 1
    BY <2>1
  <2>3. k = [h EXCEPT !.rentWarnings = n]
    BY <1>3, <2>2 DEF House
  <2> QED
    BY <2>2, <2>3 DEF House
<1>4. CASE h.owner # None /\ k = NewOwner(h, visitor, sleeper, bedSleepers, None).house
  <2>1. PICK r : r = NewOwner(h, visitor, sleeper, bedSleepers, None)
    OBVIOUS
  <2>2. visitor \in Visitors /\ sleeper \in Sleepers /\ bedSleepers \in Places /\ None \in Somebody
    BY HousesFacts DEF Somebody
  <2>3. AfterOwning(h, visitor, sleeper, bedSleepers, None, r)
    BY <2>1, <2>2, Owning
  <2> QED
    BY <1>4, <2>1, <2>3 DEF AfterOwning
<1> QED
  BY <1>2, <1>3, <1>4 DEF AfterRent

LEMMA RestartKeeps ==
  ASSUME HousesInv, NEW info \in BOOLEAN, NEW items \in BOOLEAN,
         NEW last \in Places, Restart(info, items, last)
  PROVE  HousesInv'
<1>1. PICK db : db = HouseStored(info, items)
  OBVIOUS
<1>2. PICK loaded : loaded = [house EXCEPT !.owner = db.owner, !.lists = db.lists, !.paid = FALSE,
                                !.rentWarnings = db.rentWarnings,
                                !.transferItem = FALSE, !.buyer = None, !.seller = None]
  OBVIOUS
<1>3. PICK h : h = AfterRent(loaded, bank)
  OBVIOUS
<1> DEFINE lost == h.owner # loaded.owner
           pays == h.owner # None /\ bank[h.owner] >= Rent
           warned == h.rentWarnings > loaded.rentWarnings
           beds == IF lost THEN Empty ELSE db.sleeper
<1>4. /\ Does
      /\ \A p \in Resident : IF \E b \in Bed : beds[b] = p
                             THEN last[p] \in {b \in Bed : beds[b] = p}
                             ELSE last[p] = None
      /\ house' = [h EXCEPT !.paid = pays]
      /\ houseDb' = [db EXCEPT !.owner = h.owner]
      /\ visitor' = [p \in Resident |-> IF Here(p) THEN LeftGame(visitor, p)[p] ELSE visitor[p]]
      /\ sleeper' = beds /\ bedSleepers' = last
      /\ bank' = IF pays THEN [bank EXCEPT ![h.owner] = @ - Rent] ELSE bank
      /\ houseLog' = [houseLog EXCEPT
                          !.spoiled = @ \/ ~info,
                          !.letters = IF lost THEN 0
                                      ELSE IF warned /\ @ < WarnMax THEN @ + 1 ELSE @]
  BY <1>1, <1>2, <1>3 DEF Restart
<1>5. /\ visitor \in Visitors /\ house \in House /\ houseLog \in Tenure
      /\ bank \in [Resident -> 0..Purse] /\ deeds \in Nat
  BY HousesFacts DEF HousesInv
<1>6. /\ db \in Stored /\ Paired(db.sleeper)
      /\ info => /\ db.owner = house.owner /\ db.lists = house.lists
                 /\ db.rentWarnings = house.rentWarnings
  BY <1>1, Storing
<1>7. /\ loaded \in House /\ loaded.owner = db.owner /\ loaded.lists = db.lists
      /\ loaded.rentWarnings = db.rentWarnings /\ loaded.transferItem = FALSE /\ loaded.buyer = None
  <2>1. None \in Somebody /\ FALSE \in BOOLEAN
    BY DEF Somebody
  <2>2. /\ db.owner \in Somebody /\ db.lists \in [ListId -> SUBSET Resident]
        /\ db.rentWarnings \in 0..WarnMax
    BY <1>6 DEF Stored
  <2>3. loaded \in House
    BY <1>2, <1>5, <2>1, <2>2 DEF House
  <2> QED
    BY <1>2, <1>5, <2>3 DEF House
<1>8. /\ h \in House /\ h.buyer = None /\ h.transferItem = FALSE
      /\ h.owner \in {loaded.owner, None}
      /\ h.owner = loaded.owner =>
           h.lists = loaded.lists /\ h.rentWarnings \in {loaded.rentWarnings, loaded.rentWarnings + 1}
      /\ h.owner # loaded.owner => h.lists = NoLists /\ h.rentWarnings = 0
  BY <1>3, <1>5, <1>7, Renting DEF HousesInv
<1> HIDE DEF lost, pays, warned, beds
<1>9. /\ house' \in House /\ house'.owner = h.owner /\ house'.lists = h.lists
      /\ house'.rentWarnings = h.rentWarnings /\ house'.transferItem = FALSE /\ house'.buyer = None
  <2>1. pays \in BOOLEAN
    BY DEF pays
  <2>2. house' \in House
    BY <1>4, <1>8, <2>1 DEF House
  <2> QED
    BY <1>4, <1>8, <2>2 DEF House
<1>10. houseDb' \in Stored /\ Paired(houseDb'.sleeper)
  BY <1>4, <1>6, <1>8 DEF Stored, House
<1>11. bank' \in [Resident -> 0..Purse]
  <2>1. CASE pays
    <3>1. h.owner \in Resident
      BY <1>8, <2>1 DEF pays, House, Somebody
    <3>2. bank[h.owner] \in 0..Purse /\ Purse \in Nat /\ Rent \in Nat /\ bank[h.owner] >= Rent
      BY <1>5, <2>1, <3>1, HousesNumbers DEF pays
    <3>3. bank[h.owner] - Rent \in 0..Purse
      BY <3>2
    <3> QED
      BY <1>4, <1>5, <2>1, <3>3
  <2>2. CASE ~pays
    BY <1>4, <1>5, <2>2
  <2> QED
    BY <2>1, <2>2
<1>12. sleeper' \in Sleepers /\ bedSleepers' \in Places /\ Paired(sleeper') /\ Shown(bedSleepers', sleeper')
  <2>1. Empty \in Sleepers /\ Paired(Empty)
    BY HousesNumbers DEF Empty, Sleepers, Somebody, Paired
  <2>2. beds \in Sleepers /\ Paired(beds)
    BY <1>6, <2>1 DEF beds, Stored
  <2>3. Shown(last, beds)
    <3> SUFFICES ASSUME NEW p \in Resident, last[p] # None
                 PROVE  beds[last[p]] = p
      BY DEF Shown
    <3>1. last[p] \in {b \in Bed : beds[b] = p}
      BY <1>4
    <3> QED
      BY <3>1
  <2> QED
    BY <1>4, <2>2, <2>3
<1>13. visitor' \in Visitors /\ VisitorsFit(house', visitor', deeds')
  <2>1. Counted
    BY <1>4 DEF Counted
  <2>2. ASSUME NEW p \in Resident
        PROVE  /\ visitor'[p] \in Visitor /\ visitor'[p].place # "in"
               /\ visitor'[p].kicks <= deeds'
               /\ visitor'[p].window => visitor'[p].kicks + 1 <= deeds'
    <3>1. visitor[p] \in Visitor
      BY <1>5 DEF Visitors
    <3>2. CASE Here(p)
      <4>1. PICK x : x = [place |-> "gone", last |-> visitor[p].place, window |-> FALSE,
                          bedItem |-> None, kicks |-> 0]
        OBVIOUS
      <4>2. visitor'[p] = x
        BY <1>4, <1>5, <3>2, <4>1 DEF LeftGame, Visitors
      <4>3. 0 \in 0..MaxDeeds /\ visitor[p].place \in {"in", "out"}
        BY <3>1, <3>2, HousesNumbers DEF Visitor, Here
      <4>4. x \in Visitor /\ x.place = "gone" /\ x.window = FALSE
        BY <4>1, <4>3 DEF Visitor
      <4>5. deeds' \in Nat /\ x.kicks = 0
        BY <2>1, <4>1, DeedsCount DEF HousesInv
      <4> QED
        BY <4>2, <4>4, <4>5
    <3>3. CASE ~Here(p)
      <4>1. visitor'[p] = visitor[p] /\ visitor[p].place = "gone"
        BY <1>4, <3>3 DEF Here
      <4> QED
        BY <2>1, <3>1, <4>1, StaysPaid
    <3> QED
      BY <3>2, <3>3
  <2>3. visitor' \in Visitors
    <3>1. visitor' = [p \in Resident |-> visitor'[p]]
      BY <1>4
    <3> QED
      BY <2>2, <3>1 DEF Visitors
  <2> QED
    BY <2>2, <2>3 DEF VisitorsFit
<1>14. /\ houseLog' \in Tenure /\ houseLog'.under = houseLog.under
       /\ ~houseLog'.spoiled => ~houseLog.spoiled /\ info
       /\ houseLog'.letters = IF lost THEN 0
                              ELSE IF warned /\ houseLog.letters < WarnMax
                              THEN houseLog.letters + 1 ELSE houseLog.letters
  <2>1. houseLog.letters \in 0..WarnMax /\ WarnMax \in Nat
    BY <1>5, HousesNumbers DEF Tenure
  <2>2. PICK n : n = IF lost THEN 0
                     ELSE IF warned /\ houseLog.letters < WarnMax
                     THEN houseLog.letters + 1 ELSE houseLog.letters
    OBVIOUS
  <2>3. n \in 0..WarnMax
    BY <2>1, <2>2
  <2>4. PICK s \in BOOLEAN : s = (houseLog.spoiled \/ ~info)
    OBVIOUS
  <2>5. houseLog' = [houseLog EXCEPT !.spoiled = s, !.letters = n]
    BY <1>4, <1>5, <2>2, <2>4 DEF Tenure
  <2>6. /\ houseLog' \in Tenure /\ houseLog'.under = houseLog.under
        /\ houseLog'.spoiled = s /\ houseLog'.letters = n
    BY <1>5, <2>3, <2>5 DEF Tenure
  <2> QED
    BY <2>2, <2>4, <2>6
<1>15. NothingInherited' /\ NobodysHouse'
  <2>1. ~houseLog.spoiled =>
          /\ \A l \in ListId : house.lists[l] # {} => houseLog.under[l] = house.owner
          /\ house.rentWarnings <= houseLog.letters
    BY HousesInvParts DEF NothingInherited
  <2>2. house.owner = None /\ ~houseLog.spoiled => house.lists = NoLists
    BY HousesInvParts DEF NobodysHouse
  <2>3. ASSUME ~houseLog'.spoiled
        PROVE  /\ \A l \in ListId : h.lists[l] # {} => houseLog.under[l] = h.owner
               /\ h.rentWarnings <= houseLog'.letters
               /\ h.owner = None => h.lists = NoLists
    <3>1. ~houseLog.spoiled /\ info
      BY <1>14, <2>3
    <3>2. CASE lost
      <4>1. h.lists = NoLists /\ h.rentWarnings = 0 /\ houseLog'.letters = 0
        BY <1>8, <1>14, <3>2 DEF lost
      <4> QED
        BY <4>1 DEF NoLists
    <3>3. CASE ~lost
      <4>1. /\ h.owner = house.owner /\ h.lists = house.lists
            /\ loaded.rentWarnings = house.rentWarnings
            /\ h.rentWarnings \in {loaded.rentWarnings, loaded.rentWarnings + 1}
        BY <1>6, <1>7, <1>8, <3>1, <3>3 DEF lost
      <4>2. /\ house.rentWarnings \in Nat /\ h.rentWarnings \in Nat /\ h.rentWarnings <= WarnMax
            /\ houseLog.letters \in Nat /\ WarnMax \in Nat
        BY <1>5, <1>8, HousesNumbers DEF House, Tenure
      <4>3. house.rentWarnings <= houseLog.letters
        BY <2>1, <3>1
      <4>4. houseLog'.letters = IF h.rentWarnings > house.rentWarnings /\ houseLog.letters < WarnMax
                                THEN houseLog.letters + 1 ELSE houseLog.letters
        BY <1>14, <3>3, <4>1 DEF warned
      <4>5. h.rentWarnings <= houseLog'.letters
        BY <4>1, <4>2, <4>3, <4>4
      <4> QED
        BY <2>1, <2>2, <3>1, <4>1, <4>5
    <3> QED
      BY <3>2, <3>3
  <2> QED
    BY <1>9, <1>14, <2>3 DEF NothingInherited, NobodysHouse
<1>16. Counted
  BY <1>4 DEF Counted
<1> QED
  BY <1>9, <1>10, <1>11, <1>12, <1>13, <1>14, <1>15, <1>16, HouseChanges

LEMMA HousesKeep == HousesSpec => []HousesInv
<1>1. HousesInit => HousesInv
  <2> SUFFICES ASSUME HousesInit PROVE HousesInv
    OBVIOUS
  <2>1. 0 \in 0..WarnMax /\ 0 \in 0..MaxDeeds /\ Purse \in 0..Purse
    BY HousesNumbers
  <2>2. NoLists \in [ListId -> SUBSET Resident] /\ Empty \in [Bed -> Somebody]
    BY DEF NoLists, Empty, Somebody
  <2>3. HousesTypeOK
    <3>1. /\ house \in House /\ bank \in [Resident -> 0..Purse] /\ deeds \in 0..MaxDeeds
          /\ sleeper \in Sleepers /\ bedSleepers \in Places
      BY <2>1, <2>2 DEF HousesInit, House, Somebody, Sleepers, Places
    <3>2. houseDb \in Stored
      BY <2>1, <2>2 DEF HousesInit, Stored, Sleepers, Somebody
    <3>3. visitor \in Visitors
      BY <2>1 DEF HousesInit, Visitors, Visitor
    <3>4. houseLog \in Tenure
      BY <2>1 DEF HousesInit, Tenure, Somebody
    <3> QED
      BY <3>1, <3>2, <3>3, <3>4, HousesTyped
  <2>4. VisitorsFit(house, visitor, deeds)
    BY DEF HousesInit, VisitorsFit
  <2>5. Shown(bedSleepers, sleeper) /\ Paired(sleeper) /\ Paired(houseDb.sleeper)
    BY HousesNumbers DEF HousesInit, Shown, Paired, Empty
  <2>6. NothingInherited /\ NobodysHouse
    BY DEF HousesInit, NothingInherited, NobodysHouse, NoLists
  <2> QED
    BY <2>3, <2>4, <2>5, <2>6, HousesInvParts
<1>2. HousesInv /\ HousesNext => HousesInv'
  <2> SUFFICES ASSUME HousesInv, HousesNext PROVE HousesInv'
    OBVIOUS
  <2>1. ASSUME NEW g \in Somebody, SetOwner(g)
        PROVE  HousesInv'
    <3>1. Counted /\ bank' = bank /\ OwnedNow(house, g)
      BY <2>1 DEF SetOwner, Counted
    <3> QED
      BY <3>1, OwnersKeep
  <2>2. ASSUME NEW p \in Resident, NEW l \in ListId, NEW S \in SUBSET Resident, SetAccessList(p, l, S)
        PROVE  HousesInv'
    BY <2>2, ListsKeep
  <2>3. ASSUME NEW p \in Resident,
               \/ Enter(p) \/ GoOut(p) \/ LogOut(p) \/ KickSleeper(p) \/ LogIn(p)
               \/ \E q \in Resident : KickGuest(p, q) \/ StartTrade(p, q)
               \/ \E b \in Bed : UseBed(p, b)
               \/ \E sleeps \in BOOLEAN : AnswerWindow(p, sleeps)
        PROVE  HousesInv'
    BY <2>3, MovesKeep, LeavingKeeps, LoginsKeep, SalesKeep, BedsKeep, AnswersKeep
  <2>4. CASE ExecuteTransfer
    <3>1. /\ Counted /\ bank' = bank /\ OwnedNow(Undealt(house), house.buyer)
          /\ house.buyer \in Somebody
      BY <2>4, HousesFacts DEF ExecuteTransfer, Counted, HousesInv, House
    <3> QED
      BY <3>1, OwnersKeep
  <2>5. CASE CancelTrade \/ SaveHouses
    BY <2>5, SalesKeep, SavingKeeps
  <2>6. ASSUME NEW info \in BOOLEAN, NEW items \in BOOLEAN,
               NEW last \in [Resident -> Bed \cup {None}], Restart(info, items, last)
        PROVE  HousesInv'
    BY <2>6, RestartKeeps DEF Places
  <2> QED
    BY <2>1, <2>2, <2>3, <2>4, <2>5, <2>6 DEF HousesNext
<1>3. HousesInv /\ UNCHANGED houseVars => HousesInv'
  BY DEF HousesInv, HousesTypeOK, HouseInOrder, InsideAreInvited, SleepersAgree, NothingInherited,
         WindowsCost, Paired, NobodysHouse, houseVars, Invited, AccessLevel
<1> QED
  BY <1>1, <1>2, <1>3, PTL DEF HousesSpec


-----------------------------------------------------------------------------
(* Shops.                                                                  *)

Deal ==
    [owner : [Customer -> Merchant \cup {None}], call : [Customer -> Reference \cup {0}],
     list : [Customer -> SUBSET Ware], set : [Merchant -> SUBSET Customer],
     refs : SUBSET Reference]

\* What the two sides of the shops keep fits, where lost are the references that belong
\* to no shop: each shop is known to both, and has a reference of its own.
DealsFit(d, lost) ==
    /\ d \in Deal /\ lost \subseteq d.refs
    /\ \A c \in Customer, m \in Merchant : d.owner[c] = m <=> c \in d.set[m]
    /\ \A c \in Customer : IF d.owner[c] = None THEN d.call[c] = 0
                           ELSE d.call[c] \in d.refs \ lost
    /\ \A c, e \in Customer :
         d.owner[c] # None /\ d.owner[e] # None /\ d.call[c] = d.call[e] => c = e
    /\ \A r \in d.refs \ lost : \E c \in Customer : d.owner[c] # None /\ d.call[c] = r

\* What a client shows is open, and its list is that of what is carried.
ClientFits(c) ==
    /\ IF client[c].there THEN c \in online ELSE client[c].window = None
    /\ client[c].window # None /\ c \notin deceived =>
         /\ client[c].window = shopOwner[c]
         /\ client[c].stale \/ client[c].list = SaleList(c, stored, changed)

\* Who has a shop open is in the game, and so is the merchant.
OpenHere == \A c \in Customer : shopOwner[c] # None => c \in online /\ shopOwner[c] \in placed

ShopsInv ==
    /\ ShopsTypeOK /\ DealsFit(Deals, leaked) /\ Cardinality(leaked) = failed
    /\ OpenHere /\ stored[Basket] # Basket
    /\ \A c \in Customer : ClientFits(c)

LEMMA ShopsFacts ==
  /\ None \notin Merchant /\ None \notin Customer /\ MaxFailed \in Nat
  /\ Money \subseteq Ware /\ Basket \notin Ware /\ Ground \notin Customer
  /\ Wanted \in [Merchant -> SUBSET Ware]
  /\ IsFiniteSet(Customer) /\ Cardinality(Customer) \in Nat
  /\ Reference = 1..(Cardinality(Customer) + MaxFailed + 1) /\ Reference \subseteq Nat /\ 0 \notin Reference
  /\ IsFiniteSet(Reference) /\ Cardinality(Reference) = Cardinality(Customer) + MaxFailed + 1
<1>1. /\ None \notin Merchant /\ None \notin Customer /\ MaxFailed \in Nat
      /\ Money \subseteq Ware /\ Basket \notin Ware /\ Ground \notin Customer
      /\ Wanted \in [Merchant -> SUBSET Ware] /\ IsFiniteSet(Customer)
  BY ShopsAssumption
<1>2. Cardinality(Customer) \in Nat
  BY <1>1, FS_CardinalityType
<1>3. PICK n : n = Cardinality(Customer) + MaxFailed + 1
  OBVIOUS
<1>4. n \in Nat /\ 1 <= n /\ Reference = 1..n
  BY <1>1, <1>2, <1>3 DEF Reference
<1>5. IsFiniteSet(1..n) /\ Cardinality(1..n) = n
  BY <1>4, FS_Interval
<1> QED
  BY <1>1, <1>2, <1>3, <1>4, <1>5

\* The references in use are those that were lost and one for each shop.
LEMMA ReferencesCounted ==
  ASSUME NEW d, NEW lost, DealsFit(d, lost),
         NEW open, open = {c \in Customer : d.owner[c] # None},
         NEW called, called = {d.call[c] : c \in open}
  PROVE  /\ d.refs = lost \cup called
         /\ Cardinality(lost) \in Nat /\ Cardinality(open) \in Nat
         /\ Cardinality(open) <= Cardinality(Customer)
         /\ Cardinality(d.refs) = Cardinality(lost) + Cardinality(open)
<1>1. d.refs = lost \cup called /\ lost \cap called = {}
  BY DEF DealsFit
<1>2. IsFiniteSet(open) /\ Cardinality(open) <= Cardinality(Customer) /\ Cardinality(open) \in Nat
  <2>1. open \in SUBSET Customer
    OBVIOUS
  <2> QED
    BY <2>1, ShopsFacts, FS_Subset, FS_CardinalityType
<1>3. IsFiniteSet(called) /\ Cardinality(called) = Cardinality(open)
  <2> DEFINE f == [c \in open |-> d.call[c]]
  <2>1. f \in [open -> called]
    OBVIOUS
  <2>2. \A c, e \in open : f[c] = f[e] => c = e
    BY DEF DealsFit
  <2>3. \A r \in called : \E c \in open : f[c] = r
    OBVIOUS
  <2> HIDE DEF f
  <2>4. f \in Bijection(open, called)
    BY <2>1, <2>2, <2>3 DEF Bijection, Injection, Surjection, IsInjective
  <2>5. ExistsBijection(open, called)
    BY <2>4 DEF ExistsBijection
  <2> QED
    BY <1>2, <2>5, FS_Bijection
<1>4. IsFiniteSet(lost) /\ Cardinality(lost) \in Nat
  <2>1. lost \in SUBSET Reference
    BY DEF DealsFit, Deal
  <2> QED
    BY <2>1, ShopsFacts, FS_Subset, FS_CardinalityType
<1>5. Cardinality(lost \cup called) = Cardinality(lost) + Cardinality(called) - Cardinality(lost \cap called)
  BY <1>3, <1>4, FS_Union
<1>6. Cardinality(lost \cap called) = 0
  BY <1>1, FS_EmptySet
<1> QED
  BY <1>1, <1>2, <1>3, <1>4, <1>5, <1>6

\* So there is always a free one.
LEMMA ReferenceIsFree ==
  ASSUME ShopsInv, NEW r, r = FreeReference(registry)
  PROVE  r \in Reference /\ r \notin registry
<1> DEFINE free == Reference \ registry
<1>1. free # {}
  <2> SUFFICES ASSUME free = {} PROVE FALSE
    OBVIOUS
  <2>1. registry = Reference
    BY DEF ShopsInv, ShopsTypeOK
  <2>2. PICK d : d = Deals
    OBVIOUS
  <2>3. PICK open : open = {c \in Customer : d.owner[c] # None}
    OBVIOUS
  <2>4. DealsFit(d, leaked) /\ \E called : called = {d.call[c] : c \in open}
    BY <2>2 DEF ShopsInv
  <2>5. /\ Cardinality(open) \in Nat /\ Cardinality(open) <= Cardinality(Customer)
        /\ Cardinality(d.refs) = Cardinality(leaked) + Cardinality(open)
    BY <2>3, <2>4, ReferencesCounted
  <2>6. d.refs = registry
    BY <2>2 DEF Deals
  <2>7. Cardinality(leaked) = failed /\ failed \in Nat /\ failed <= MaxFailed
    BY ShopsFacts DEF ShopsInv, ShopsTypeOK
  <2>8. Cardinality(Reference) = failed + Cardinality(open)
    <3>1. Cardinality(d.refs) = Cardinality(registry)
      BY <2>6
    <3>2. Cardinality(registry) = Cardinality(Reference)
      BY <2>1
    <3> QED
      BY <2>5, <2>7, <3>1, <3>2
  <2>9. Cardinality(Reference) = Cardinality(Customer) + MaxFailed + 1
    BY ShopsFacts
  <2>10. Cardinality(Customer) \in Nat /\ MaxFailed \in Nat
    BY ShopsFacts
  <2> QED
    BY <2>5, <2>7, <2>8, <2>9, <2>10
<1>2. free \subseteq Nat
  BY ShopsFacts
<1>3. \E x \in free : \A y \in free : ~ (<<y, x>> \in OpToRel(<, Nat))
  BY <1>1, <1>2, NatLessThanWellFounded, WFMin
<1>4. PICK x \in free : \A y \in free : ~ (<<y, x>> \in OpToRel(<, Nat))
  BY <1>3
<1>5. ASSUME NEW y \in free
      PROVE  x <= y
  <2>1. x \in Nat /\ y \in Nat /\ <<y, x>> \in Nat \X Nat
    BY <1>2
  <2>2. ~ (<<y, x>> \in OpToRel(<, Nat))
    BY <1>4
  <2>3. ~ (y < x)
    BY <2>1, <2>2 DEF OpToRel
  <2> QED
    BY <2>1, <2>3
<1>6. FreeReference(registry) \in free
  BY <1>4, <1>5 DEF FreeReference
<1> QED
  BY <1>6


LEMMA DealsBecoming ==
  ASSUME NEW d \in Deal, DealsBecome(d)
  PROVE  Deals' = d
  BY DEF DealsBecome, Deals, Deal

\* A trade ends: the merchant, the customer and the script let go of it.
LEMMA TradeEnding ==
  ASSUME NEW d, NEW lost, DealsFit(d, lost), NEW c \in Customer, d.owner[c] # None,
         NEW e, e = TradeEnded(d, c)
  PROVE  /\ DealsFit(e, lost) /\ e.owner[c] = None
         /\ \A x \in Customer \ {c} : e.owner[x] = d.owner[x]
         /\ e.list = d.list
<1>1. d \in Deal /\ d.owner[c] \in Merchant /\ 0 \notin Reference
  BY ShopsFacts DEF DealsFit, Deal
<1>2. /\ e \in Deal /\ e.list = d.list
      /\ e.owner = [d.owner EXCEPT ![c] = None] /\ e.call = [d.call EXCEPT ![c] = 0]
      /\ e.set = [d.set EXCEPT ![d.owner[c]] = @ \ {c}] /\ e.refs = d.refs \ {d.call[c]}
  <2>1. PICK owner \in [Customer -> Merchant \cup {None}] : owner = [d.owner EXCEPT ![c] = None]
    BY <1>1 DEF Deal
  <2>2. PICK call \in [Customer -> Reference \cup {0}] : call = [d.call EXCEPT ![c] = 0]
    BY <1>1 DEF Deal
  <2>3. PICK set \in [Merchant -> SUBSET Customer] : set = [d.set EXCEPT ![d.owner[c]] = @ \ {c}]
    BY <1>1 DEF Deal
  <2>4. PICK refs \in SUBSET Reference : refs = d.refs \ {d.call[c]}
    BY <1>1 DEF Deal
  <2>5. e = [d EXCEPT !.refs = refs, !.set = set, !.owner = owner, !.call = call]
    BY <1>1, <2>1, <2>2, <2>3, <2>4 DEF TradeEnded, Deal
  <2> QED
    BY <1>1, <2>1, <2>2, <2>3, <2>4, <2>5 DEF Deal
<1>3. /\ e.owner[c] = None /\ e.call[c] = 0
      /\ \A x \in Customer \ {c} : e.owner[x] = d.owner[x] /\ e.call[x] = d.call[x]
      /\ \A m \in Merchant, x \in Customer : x \in e.set[m] <=> x \in d.set[m] /\ x # c
  <2>1. d.owner \in [Customer -> Merchant \cup {None}] /\ d.call \in [Customer -> Reference \cup {0}]
        /\ d.set \in [Merchant -> SUBSET Customer]
    BY <1>1 DEF Deal
  <2>2. \A m \in Merchant : c \in d.set[m] => m = d.owner[c]
    BY DEF DealsFit
  <2> QED
    BY <1>1, <1>2, <2>1, <2>2
<1>4. d.call[c] \in d.refs \ lost
  BY DEF DealsFit
<1>5. lost \subseteq e.refs
  BY <1>2, <1>4 DEF DealsFit
<1>6. ASSUME NEW x \in Customer, NEW m \in Merchant
      PROVE  e.owner[x] = m <=> x \in e.set[m]
  BY <1>3, ShopsFacts DEF DealsFit
<1>7. ASSUME NEW x \in Customer
      PROVE  IF e.owner[x] = None THEN e.call[x] = 0 ELSE e.call[x] \in e.refs \ lost
  <2>1. CASE x = c
    BY <1>3, <2>1
  <2>2. CASE x # c
    BY <1>2, <1>3, <2>2 DEF DealsFit
  <2> QED
    BY <2>1, <2>2
<1>8. ASSUME NEW x \in Customer, NEW y \in Customer, e.owner[x] # None, e.owner[y] # None,
             e.call[x] = e.call[y]
      PROVE  x = y
  BY <1>3, <1>8 DEF DealsFit
<1>9. ASSUME NEW r \in e.refs \ lost
      PROVE  \E x \in Customer : e.owner[x] # None /\ e.call[x] = r
  <2>1. PICK x \in Customer : d.owner[x] # None /\ d.call[x] = r
    BY <1>2 DEF DealsFit
  <2> QED
    BY <1>2, <1>3, <2>1
<1> QED
  BY <1>2, <1>3, <1>5, <1>6, <1>7, <1>8, <1>9 DEF DealsFit

LEMMA ShopClosing ==
  ASSUME NEW d, NEW lost, DealsFit(d, lost), NEW c \in Customer, NEW e, e = ShopClosed(d, c)
  PROVE  /\ DealsFit(e, lost) /\ e.owner[c] = None
         /\ \A x \in Customer \ {c} : e.owner[x] = d.owner[x] /\ e.list[x] = d.list[x]
<1>1. PICK b : b = IF d.owner[c] = None THEN d ELSE TradeEnded(d, c)
  OBVIOUS
<1>2. /\ DealsFit(b, lost) /\ b.owner[c] = None /\ b.list = d.list
      /\ \A x \in Customer \ {c} : b.owner[x] = d.owner[x]
  <2>1. CASE d.owner[c] = None
    BY <1>1, <2>1
  <2>2. CASE d.owner[c] # None
    BY <1>1, <2>2, TradeEnding
  <2> QED
    BY <2>1, <2>2
<1>3. e = [b EXCEPT !.list[c] = {}]
  BY <1>1 DEF ShopClosed
<1>4. b \in Deal
  BY <1>2 DEF DealsFit
<1>5. /\ e \in Deal /\ e.owner = b.owner /\ e.call = b.call /\ e.set = b.set /\ e.refs = b.refs
      /\ e.list = [b.list EXCEPT ![c] = {}]
  <2>1. PICK list \in [Customer -> SUBSET Ware] : list = [b.list EXCEPT ![c] = {}]
    BY <1>4 DEF Deal
  <2>2. e = [b EXCEPT !.list = list]
    BY <1>3, <1>4, <2>1 DEF Deal
  <2> QED
    BY <1>4, <2>1, <2>2 DEF Deal
<1>6. DealsFit(e, lost)
  BY <1>2, <1>5 DEF DealsFit
<1> QED
  BY <1>2, <1>4, <1>5, <1>6 DEF Deal

\* A shop is opened with a reference that until now belonged to none.
ShopOpened(d, c, m, r) ==
    [d EXCEPT !.owner[c] = m, !.call[c] = r, !.list[c] = Wanted[m], !.set[m] = @ \cup {c}]

LEMMA ShopOpening ==
  ASSUME NEW d, NEW lost, NEW r, DealsFit(d, lost \cup {r}), r \notin lost, NEW c \in Customer,
         d.owner[c] = None, NEW m \in Merchant,
         NEW e, e = ShopOpened(d, c, m, r)
  PROVE  /\ DealsFit(e, lost) /\ e.owner[c] = m /\ e.list[c] = Wanted[m]
         /\ \A x \in Customer \ {c} : e.owner[x] = d.owner[x] /\ e.list[x] = d.list[x]
<1>1. d \in Deal /\ r \in d.refs /\ r \in Reference /\ m # None /\ Wanted[m] \in SUBSET Ware
  BY ShopsFacts DEF DealsFit, Deal
<1>2. /\ e \in Deal /\ e.refs = d.refs
      /\ e.owner = [d.owner EXCEPT ![c] = m] /\ e.call = [d.call EXCEPT ![c] = r]
      /\ e.set = [d.set EXCEPT ![m] = @ \cup {c}] /\ e.list = [d.list EXCEPT ![c] = Wanted[m]]
  <2>1. PICK owner \in [Customer -> Merchant \cup {None}] : owner = [d.owner EXCEPT ![c] = m]
    BY <1>1 DEF Deal
  <2>2. PICK call \in [Customer -> Reference \cup {0}] : call = [d.call EXCEPT ![c] = r]
    BY <1>1 DEF Deal
  <2>3. PICK set \in [Merchant -> SUBSET Customer] : set = [d.set EXCEPT ![m] = @ \cup {c}]
    BY <1>1 DEF Deal
  <2>4. PICK list \in [Customer -> SUBSET Ware] : list = [d.list EXCEPT ![c] = Wanted[m]]
    BY <1>1 DEF Deal
  <2>5. e = [d EXCEPT !.owner = owner, !.call = call, !.list = list, !.set = set]
    BY <1>1, <2>1, <2>2, <2>3, <2>4 DEF ShopOpened, Deal
  <2>6. e \in Deal
    BY <1>1, <2>5 DEF Deal
  <2>7. e.owner = owner /\ e.call = call /\ e.list = list /\ e.set = set /\ e.refs = d.refs
    BY <1>1, <2>5 DEF Deal
  <2> QED
    BY <2>1, <2>2, <2>3, <2>4, <2>6, <2>7
<1>3. /\ e.owner[c] = m /\ e.call[c] = r /\ e.list[c] = Wanted[m]
      /\ \A x \in Customer \ {c} : /\ e.owner[x] = d.owner[x] /\ e.call[x] = d.call[x]
                                   /\ e.list[x] = d.list[x]
      /\ \A n \in Merchant, x \in Customer : x \in e.set[n] <=> x \in d.set[n] \/ (x = c /\ n = m)
  <2>1. /\ d.owner \in [Customer -> Merchant \cup {None}] /\ d.call \in [Customer -> Reference \cup {0}]
        /\ d.set \in [Merchant -> SUBSET Customer] /\ d.list \in [Customer -> SUBSET Ware]
    BY <1>1 DEF Deal
  <2> QED
    BY <1>2, <2>1
<1>4. \A x \in Customer : d.owner[x] # None => d.call[x] \in d.refs \ lost /\ d.call[x] # r
  BY DEF DealsFit
<1>5. lost \subseteq e.refs
  BY <1>2 DEF DealsFit
<1>6. ASSUME NEW x \in Customer, NEW n \in Merchant
      PROVE  e.owner[x] = n <=> x \in e.set[n]
  <2>1. d.owner[x] = n <=> x \in d.set[n]
    BY DEF DealsFit
  <2> QED
    BY <1>3, <2>1, ShopsFacts
<1>7. ASSUME NEW x \in Customer
      PROVE  IF e.owner[x] = None THEN e.call[x] = 0 ELSE e.call[x] \in e.refs \ lost
  <2>1. CASE x = c
    BY <1>1, <1>2, <1>3, <2>1
  <2>2. CASE x # c
    BY <1>2, <1>3, <1>4, <2>2 DEF DealsFit
  <2> QED
    BY <2>1, <2>2
<1>8. ASSUME NEW x \in Customer, NEW y \in Customer, e.owner[x] # None, e.owner[y] # None,
             e.call[x] = e.call[y]
      PROVE  x = y
  BY <1>3, <1>4, <1>8 DEF DealsFit
<1>9. ASSUME NEW s \in e.refs \ lost
      PROVE  \E x \in Customer : e.owner[x] # None /\ e.call[x] = s
  <2>1. CASE s = r
    BY <1>1, <1>3, <2>1
  <2>2. CASE s # r
    <3>1. PICK x \in Customer : d.owner[x] # None /\ d.call[x] = s
      BY <1>2, <2>2 DEF DealsFit
    <3> QED
      BY <1>3, <3>1
  <2> QED
    BY <2>1, <2>2
<1> QED
  BY <1>2, <1>3, <1>5, <1>6, <1>7, <1>8, <1>9 DEF DealsFit

\* The functions of a shop that is to be opened are referred to.
LEMMA Referring ==
  ASSUME ShopsInv, NEW r \in Reference, r \notin registry,
         NEW e, e = [Deals EXCEPT !.refs = @ \cup {r}]
  PROVE  DealsFit(e, leaked \cup {r}) /\ e.owner = shopOwner /\ e.list = shopItemList
<1>1. DealsFit(Deals, leaked) /\ Deals \in Deal
  BY DEF ShopsInv, DealsFit
<1>2. /\ e \in Deal /\ e.owner = Deals.owner /\ e.call = Deals.call /\ e.list = Deals.list
      /\ e.set = Deals.set /\ e.refs = Deals.refs \cup {r}
  BY <1>1 DEF Deal
<1>3. Deals.refs = registry /\ Deals.owner = shopOwner /\ Deals.list = shopItemList
  BY DEF Deals
<1> QED
  BY <1>1, <1>2, <1>3 DEF DealsFit

-----------------------------------------------------------------------------
Client == [there : BOOLEAN, window : Merchant \cup {None}, list : SUBSET Ware, stale : BOOLEAN]

\* What there is to show of a step that moves and turns nothing.
LEMMA DealsChange ==
  ASSUME ShopsInv, NEW d, DealsFit(d, leaked'), DealsBecome(d), UNCHANGED <<stored, changed>>,
         Cardinality(leaked') = failed', failed' \in 0..MaxFailed,
         online' \subseteq Customer, placed' \subseteq Merchant, deceived' \subseteq Customer,
         client' \in [Customer -> Client],
         \A c \in Customer : d.owner[c] # None => c \in online' /\ d.owner[c] \in placed',
         \A c \in Customer : ClientFits(c)'
  PROVE  ShopsInv'
<1>1. d \in Deal /\ leaked' \subseteq Reference
  BY DEF DealsFit, Deal
<1>2. Deals' = d /\ shopOwner' = d.owner
  BY <1>1, DealsBecoming DEF DealsBecome
<1>3. ShopsTypeOK'
  BY <1>1 DEF ShopsInv, ShopsTypeOK, DealsBecome, Deal, Client
<1>4. DealsFit(Deals, leaked)'
  <2>1. DealsFit(Deals', leaked')
    BY <1>2
  <2> QED
    BY <2>1 DEF DealsFit
<1>5. OpenHere' /\ stored'[Basket] # Basket
  BY <1>2 DEF OpenHere, ShopsInv
<1> QED
  BY <1>3, <1>4, <1>5 DEF ShopsInv

LEMMA ShopsParts ==
  ASSUME ShopsInv
  PROVE  /\ DealsFit(Deals, leaked) /\ Deals \in Deal /\ leaked \subseteq Reference
         /\ Cardinality(leaked) = failed /\ failed \in 0..MaxFailed
         /\ shopOwner = Deals.owner /\ shopItemList = Deals.list /\ registry = Deals.refs
         /\ callback = Deals.call /\ shopPlayerSet = Deals.set
         /\ shopItemList \in [Customer -> SUBSET Ware]
         /\ shopOwner \in [Customer -> Merchant \cup {None}]
         /\ online \subseteq Customer /\ placed \subseteq Merchant /\ deceived \subseteq Customer
         /\ client \in [Customer -> Client] /\ changed \subseteq Ware
         /\ \A c \in Customer : shopOwner[c] # None => c \in online /\ shopOwner[c] \in placed
         /\ \A c \in Customer : ClientFits(c)
<1>1. DealsFit(Deals, leaked) /\ Deals \in Deal
  BY DEF ShopsInv, DealsFit
<1>2. /\ shopOwner = Deals.owner /\ shopItemList = Deals.list /\ registry = Deals.refs
      /\ callback = Deals.call /\ shopPlayerSet = Deals.set
  BY DEF Deals
<1> QED
  BY <1>1, <1>2 DEF ShopsInv, ShopsTypeOK, Client, OpenHere

\* A client that nothing happens to fits as before.
LEMMA ClientStays ==
  ASSUME NEW c \in Customer, ClientFits(c), client'[c] = client[c],
         shopOwner'[c] = shopOwner[c], shopItemList'[c] = shopItemList[c],
         UNCHANGED <<stored, changed>>, c \in online => c \in online',
         c \in deceived => c \in deceived'
  PROVE  ClientFits(c)'
<1>1. SaleList(c, stored, changed)' = SaleList(c, stored, changed)
  BY DEF SaleList, Relevant
<1> QED
  BY <1>1 DEF ClientFits

\* A client that shows no window fits.
LEMMA NoWindowFits ==
  ASSUME NEW c \in Customer, client'[c].window = None, client'[c].there => c \in online'
  PROVE  ClientFits(c)'
  BY DEF ClientFits

LEMMA ClientsSet ==
  ASSUME client \in [Customer -> Client], NEW c \in Customer, NEW cl \in Client,
         client' = [client EXCEPT ![c] = cl]
  PROVE  /\ client' \in [Customer -> Client] /\ client'[c] = cl
         /\ \A x \in Customer \ {c} : client'[x] = client[x]
  OBVIOUS

LEMMA ClientsTyped ==
  ASSUME NEW cl \in Client
  PROVE  /\ WindowShown(cl, None) \in Client /\ WindowShown(cl, None).there = cl.there
         /\ WindowShown(cl, None).window = IF cl.there THEN None ELSE cl.window
         /\ NoClient \in Client /\ ~NoClient.there /\ NoClient.window = None
         /\ NewClient \in Client /\ NewClient.there /\ NewClient.window = None
         /\ [cl EXCEPT !.window = None] \in Client
         /\ [cl EXCEPT !.window = None].window = None
         /\ [cl EXCEPT !.window = None].there = cl.there
<1>1. WindowShown(cl, None) \in Client /\ WindowShown(cl, None).there = cl.there
  <2>1. CASE cl.there
    BY <2>1 DEF WindowShown, Client
  <2>2. CASE ~cl.there
    BY <2>2 DEF WindowShown
  <2> QED
    BY <2>1, <2>2
<1>2. WindowShown(cl, None).window = IF cl.there THEN None ELSE cl.window
  <2>1. CASE cl.there
    BY <2>1 DEF WindowShown, Client
  <2>2. CASE ~cl.there
    BY <2>2 DEF WindowShown
  <2> QED
    BY <2>1, <2>2
<1>3. NoClient \in Client /\ ~NoClient.there /\ NoClient.window = None
  BY DEF NoClient, Client
<1>4. NewClient \in Client /\ NewClient.there /\ NewClient.window = None
  BY DEF NoClient, NewClient, Client
<1>5. /\ [cl EXCEPT !.window = None] \in Client
      /\ [cl EXCEPT !.window = None].window = None
      /\ [cl EXCEPT !.window = None].there = cl.there
  BY DEF Client
<1> QED
  BY <1>1, <1>2, <1>3, <1>4, <1>5

\* What there is to show of a step that is about one customer.
LEMMA OneCustomer ==
  ASSUME ShopsInv, NEW c \in Customer, NEW d, DealsFit(d, leaked'), DealsBecome(d),
         UNCHANGED <<stored, changed, placed>>,
         Cardinality(leaked') = failed', failed' \in 0..MaxFailed,
         online \ {c} \subseteq online', online' \subseteq Customer,
         deceived \ {c} \subseteq deceived', deceived' \subseteq Customer,
         NEW cl \in Client, client' = [client EXCEPT ![c] = cl],
         \A x \in Customer \ {c} : d.owner[x] = shopOwner[x] /\ d.list[x] = shopItemList[x],
         d.owner[c] # None => c \in online' /\ d.owner[c] \in placed,
         ClientFits(c)'
  PROVE  ShopsInv'
<1>1. /\ client \in [Customer -> Client] /\ placed \subseteq Merchant
      /\ \A x \in Customer : shopOwner[x] # None => x \in online /\ shopOwner[x] \in placed
      /\ \A x \in Customer : ClientFits(x)
  BY ShopsParts
<1>2. client' \in [Customer -> Client] /\ \A x \in Customer \ {c} : client'[x] = client[x]
  BY <1>1, ClientsSet
<1>3. shopOwner' = d.owner /\ shopItemList' = d.list
  BY DEF DealsBecome
<1>4. ASSUME NEW x \in Customer
      PROVE  ClientFits(x)'
  <2>1. CASE x = c
    BY <2>1
  <2>2. CASE x # c
    <3>1. /\ ClientFits(x) /\ client'[x] = client[x]
          /\ shopOwner'[x] = shopOwner[x] /\ shopItemList'[x] = shopItemList[x]
          /\ x \in online => x \in online'
          /\ x \in deceived => x \in deceived'
      BY <1>1, <1>2, <1>3, <2>2
    <3> QED
      BY <3>1, ClientStays
  <2> QED
    BY <2>1, <2>2
<1>5. \A x \in Customer : d.owner[x] # None => x \in online' /\ d.owner[x] \in placed'
  BY <1>1
<1>6. placed' \subseteq Merchant
  BY <1>1
<1> QED
  BY <1>2, <1>4, <1>5, <1>6, DealsChange

\* The same, where the shops stay as they are.
LEMMA OneClient ==
  ASSUME ShopsInv, NEW c \in Customer, UNCHANGED <<deals, stored, changed, placed, failed, leaked>>,
         online \subseteq online', online' \subseteq Customer,
         deceived \ {c} \subseteq deceived', deceived' \subseteq Customer,
         NEW cl \in Client, client' = [client EXCEPT ![c] = cl], ClientFits(c)'
  PROVE  ShopsInv'
<1>1. PICK d : d = Deals
  OBVIOUS
<1>2. DealsFit(d, leaked') /\ DealsBecome(d) /\ Cardinality(leaked') = failed' /\ failed' \in 0..MaxFailed
  <2>1. leaked' = leaked /\ failed' = failed
    OBVIOUS
  <2>2. DealsBecome(d)
    BY <1>1 DEF DealsBecome, Deals, deals
  <2> QED
    BY <1>1, <2>1, <2>2, ShopsParts
<1>3. \A x \in Customer \ {c} : d.owner[x] = shopOwner[x] /\ d.list[x] = shopItemList[x]
  BY <1>1, ShopsParts
<1>4. d.owner[c] # None => c \in online' /\ d.owner[c] \in placed
  BY <1>1, ShopsParts
<1> QED
  BY <1>2, <1>3, <1>4, OneCustomer

\* A shop is closed, by the player or the script, or with the one who had it open.
LEMMA ClosingKeeps ==
  ASSUME ShopsInv, NEW c \in Customer,
         CloseShop(c) \/ Logout(c) \/ \E m \in Merchant : CloseByScript(m, c)
  PROVE  ShopsInv'
<1>0. client[c] \in Client /\ ClientFits(c)
  BY ShopsParts
<1>1. PICK cl \in Client :
        /\ client' = [client EXCEPT ![c] = cl] /\ cl.window = None
        /\ cl.there => c \in online'
  <2>1. CASE CloseShop(c)
    <3>1. PICK cl \in Client : cl = [client[c] EXCEPT !.window = None]
      BY <1>0 DEF Client
    <3>2. cl.window = None
      BY <1>0, <3>1 DEF Client
    <3>3. client' = [client EXCEPT ![c] = cl] /\ c \in online'
      BY <2>1, <3>1 DEF CloseShop
    <3> QED
      BY <3>2, <3>3
  <2>2. CASE Logout(c)
    BY <1>0, <2>2, ClientsTyped DEF Logout
  <2>3. ASSUME NEW m \in Merchant, CloseByScript(m, c)
        PROVE  \E cl \in Client : /\ client' = [client EXCEPT ![c] = cl] /\ cl.window = None
                                  /\ cl.there => c \in online'
    <3>1. PICK cl \in Client : cl = WindowShown(client[c], None)
      BY <1>0, ClientsTyped
    <3>2. cl.window = None
      <4>1. cl.window = IF client[c].there THEN None ELSE client[c].window
        BY <1>0, <3>1, ClientsTyped
      <4>2. ~client[c].there => client[c].window = None
        BY <1>0 DEF ClientFits
      <4> QED
        BY <4>1, <4>2
    <3>3. client' = [client EXCEPT ![c] = cl] /\ c \in online'
      BY <2>3, <3>1 DEF CloseByScript
    <3> QED
      BY <3>2, <3>3
  <2> QED
    BY <2>1, <2>2, <2>3
<1>2. DealsFit(Deals, leaked) /\ Deals.owner = shopOwner /\ Deals.list = shopItemList
  BY ShopsParts
<1>3. PICK d : /\ DealsBecome(d) /\ DealsFit(d, leaked) /\ d.owner[c] = None
               /\ \A x \in Customer \ {c} : d.owner[x] = shopOwner[x] /\ d.list[x] = shopItemList[x]
  <2>1. CASE CloseShop(c) \/ Logout(c)
    <3>1. PICK d : d = ShopClosed(Deals, c)
      OBVIOUS
    <3>2. DealsBecome(d)
      BY <2>1, <3>1 DEF CloseShop, Logout
    <3> QED
      <4>1. PICK ds : ds = Deals /\ DealsFit(ds, leaked)
        BY <1>2
      <4>2. d = ShopClosed(ds, c)
        BY <3>1, <4>1
      <4>3. /\ DealsFit(d, leaked) /\ d.owner[c] = None
            /\ \A x \in Customer \ {c} : d.owner[x] = ds.owner[x] /\ d.list[x] = ds.list[x]
        BY <4>1, <4>2, ShopClosing
      <4>4. \A x \in Customer \ {c} : d.owner[x] = shopOwner[x] /\ d.list[x] = shopItemList[x]
        BY <1>2, <4>1, <4>3
      <4> QED
        BY <3>2, <4>3, <4>4
  <2>2. CASE \E m \in Merchant : CloseByScript(m, c)
    <3>1. PICK d : d = TradeEnded(Deals, c)
      OBVIOUS
    <3>2. DealsBecome(d) /\ shopOwner[c] # None
      BY <2>2, <3>1, ShopsFacts DEF CloseByScript
    <3> QED
      BY <1>2, <3>1, <3>2, TradeEnding
  <2> QED
    BY <2>1, <2>2
<1>4. /\ UNCHANGED <<stored, changed, placed, failed, leaked>>
      /\ online \ {c} \subseteq online' /\ online' \subseteq online
      /\ deceived \ {c} \subseteq deceived' /\ deceived' \subseteq deceived
  BY DEF CloseShop, Logout, CloseByScript
<1>5. ClientFits(c)'
  <2>1. client'[c] = cl
    BY <1>1, ShopsParts
  <2> QED
    BY <1>1, <2>1, NoWindowFits
<1>6. /\ Cardinality(leaked') = failed' /\ failed' \in 0..MaxFailed
      /\ online' \subseteq Customer /\ deceived' \subseteq Customer /\ DealsFit(d, leaked')
  <2>1. leaked' = leaked /\ failed' = failed
    BY <1>4
  <2> QED
    BY <1>3, <1>4, <2>1, ShopsParts
<1> QED
  BY <1>1, <1>3, <1>4, <1>5, <1>6, OneCustomer

\* A client comes or goes.
LEMMA ClientsComeAndGo ==
  ASSUME ShopsInv, NEW c \in Customer, Login(c) \/ LoseClient(c) \/ TakeOver(c)
  PROVE  ShopsInv'
<1>1. client[c] \in Client /\ online \subseteq Customer /\ deceived \subseteq Customer
      /\ client \in [Customer -> Client]
  BY ShopsParts
<1>2. PICK cl \in Client : /\ client' = [client EXCEPT ![c] = cl] /\ cl.window = None
                           /\ cl.there => c \in online'
  BY <1>1, ClientsTyped DEF Login, LoseClient, TakeOver
<1>3. /\ UNCHANGED <<deals, stored, changed, placed, failed, leaked>>
      /\ online \subseteq online' /\ online' \subseteq online \cup {c}
      /\ deceived \ {c} \subseteq deceived' /\ deceived' \subseteq deceived
  BY DEF Login, LoseClient, TakeOver
<1>4. ClientFits(c)'
  BY <1>1, <1>2, ClientsSet, NoWindowFits
<1> QED
  BY <1>1, <1>2, <1>3, <1>4, OneClient

\* The player buys or sells, and the script may close the shop.
LEMMA BargainKeeps ==
  ASSUME ShopsInv, NEW c \in Customer, NEW closes \in BOOLEAN, Bargain(c, closes)
  PROVE  ShopsInv'
<1>1. /\ client[c] \in Client /\ ClientFits(c) /\ client[c].there
      /\ client \in [Customer -> Client] /\ shopOwner[c] # None /\ c \in online
      /\ shopItemList \in [Customer -> SUBSET Ware] /\ Money \subseteq Ware
  BY ShopsParts, ShopsFacts DEF Bargain
<1>2. /\ UNCHANGED <<stored, changed, placed, failed, leaked, online, deceived>>
      /\ online \subseteq Customer /\ deceived \subseteq Customer
  BY ShopsParts DEF Bargain
<1>3. PICK L \in SUBSET Ware : L = SaleList(c, stored, changed)
  BY <1>1 DEF SaleList, Relevant
<1>4. CASE closes
  <2>1. PICK shown \in Client : shown = WindowShown(client[c], None)
    BY <1>1, ClientsTyped
  <2>2. shown.there /\ shown.window = None
    BY <1>1, <2>1, ClientsTyped
  <2>3. PICK cl : cl = SaleListSent(shown, c, stored, changed)
    OBVIOUS
  <2>4. client' = [client EXCEPT ![c] = cl] /\ cl \in Client /\ cl.window = None
    <3>1. client' = [client EXCEPT ![c] = cl]
      BY <1>4, <2>1, <2>3 DEF Bargain
    <3>2. cl = [shown EXCEPT !.list = L, !.stale = FALSE]
      BY <1>3, <2>2, <2>3 DEF SaleListSent
    <3> QED
      BY <2>2, <3>1, <3>2 DEF Client
  <2>5. PICK d : d = TradeEnded(Deals, c)
    OBVIOUS
  <2>6. DealsBecome(d)
    BY <1>4, <2>5 DEF Bargain
  <2>7. DealsFit(Deals, leaked) /\ Deals.owner = shopOwner /\ Deals.list = shopItemList
    BY ShopsParts
  <2>8. /\ DealsFit(d, leaked) /\ d.owner[c] = None
        /\ \A x \in Customer \ {c} : d.owner[x] = shopOwner[x] /\ d.list[x] = shopItemList[x]
    BY <1>1, <2>5, <2>7, TradeEnding
  <2>9. ClientFits(c)'
    BY <1>1, <1>2, <2>3, <2>4, ClientsSet, NoWindowFits
  <2>10. /\ Cardinality(leaked') = failed' /\ failed' \in 0..MaxFailed /\ DealsFit(d, leaked')
    <3>1. leaked' = leaked /\ failed' = failed
      BY <1>2
    <3> QED
      BY <2>8, <3>1, ShopsParts
  <2> QED
    BY <1>2, <2>3, <2>4, <2>6, <2>8, <2>9, <2>10, OneCustomer
<1>5. CASE ~closes
  <2>1. PICK cl : cl = SaleListSent(client[c], c, stored, changed)
    OBVIOUS
  <2>2. cl \in Client /\ cl.there /\ cl.window = client[c].window /\ cl.list = L
    BY <1>1, <1>3, <2>1 DEF SaleListSent, Client
  <2>3. client' = [client EXCEPT ![c] = cl] /\ UNCHANGED deals
    BY <1>5, <2>1 DEF Bargain
  <2>4. client'[c] = cl
    BY <1>1, <2>3
  <2>5. SaleList(c, stored, changed)' = L
    BY <1>2, <1>3, <2>3 DEF SaleList, Relevant, deals
  <2>6. shopOwner' = shopOwner
    BY <2>3 DEF deals
  <2>7. ClientFits(c)'
    BY <1>1, <1>2, <2>2, <2>4, <2>5, <2>6 DEF ClientFits
  <2> QED
    BY <1>2, <2>2, <2>3, <2>7, OneClient
<1> QED
  BY <1>4, <1>5

\* A shop is opened, and the one before it closed.
LEMMA OpeningKeeps ==
  ASSUME ShopsInv, NEW m \in Merchant, NEW c \in Customer, OpenShopWindow(m, c)
  PROVE  ShopsInv'
<1>1. PICK r : r = FreeReference(registry)
  OBVIOUS
<1>2. r \in Reference /\ r \notin registry
  BY <1>1, ReferenceIsFree
<1>3. r \notin leaked
  BY <1>2, ShopsParts DEF DealsFit
<1>4. PICK a : a = [Deals EXCEPT !.refs = @ \cup {r}]
  OBVIOUS
<1>5. DealsFit(a, leaked \cup {r}) /\ a.owner = shopOwner /\ a.list = shopItemList
  BY <1>2, <1>4, Referring
<1>6. PICK b : b = ShopClosed(a, c)
  OBVIOUS
<1>7. /\ DealsFit(b, leaked \cup {r}) /\ b.owner[c] = None
      /\ \A x \in Customer \ {c} : b.owner[x] = shopOwner[x] /\ b.list[x] = shopItemList[x]
  BY <1>5, <1>6, ShopClosing
<1>8. PICK d : d = ShopOpened(b, c, m, r)
  OBVIOUS
<1>9. /\ DealsFit(d, leaked) /\ d.owner[c] = m /\ d.list[c] = Wanted[m]
      /\ \A x \in Customer \ {c} : d.owner[x] = shopOwner[x] /\ d.list[x] = shopItemList[x]
  <2>1. DealsFit(b, leaked \cup {r})
    BY <1>7
  <2>2. b.owner[c] = None
    BY <1>7
  <2>3. /\ DealsFit(d, leaked) /\ d.owner[c] = m /\ d.list[c] = Wanted[m]
        /\ \A x \in Customer \ {c} : d.owner[x] = b.owner[x] /\ d.list[x] = b.list[x]
    BY <1>3, <1>8, <2>1, <2>2, ShopOpening
  <2> QED
    BY <1>7, <2>3
<1>10. DealsBecome(d) /\ m \in placed /\ c \in online
  BY <1>1, <1>4, <1>6, <1>8 DEF OpenShopWindow, ShopOpened
<1>11. /\ UNCHANGED <<stored, changed, placed, failed, leaked, online>>
       /\ deceived' = deceived \ {c} /\ online \subseteq Customer /\ deceived \subseteq Customer
  BY ShopsParts DEF OpenShopWindow
<1>12. PICK L \in SUBSET Ware :
         L = {g \in Money \cup (Wanted[m] \ changed) : HolderAt(stored, g) = c}
  BY ShopsFacts
<1>13. /\ client[c] \in Client /\ ClientFits(c) /\ client \in [Customer -> Client]
  BY ShopsParts
<1>14. PICK cl : cl = IF client[c].there
                      THEN [client[c] EXCEPT !.window = m, !.stale = FALSE, !.list = L]
                      ELSE client[c]
  OBVIOUS
<1>15. cl \in Client /\ IF client[c].there THEN cl.there /\ cl.window = m /\ cl.list = L
                        ELSE cl = client[c]
  BY <1>12, <1>13, <1>14 DEF Client
<1>16. client' = [client EXCEPT ![c] = cl]
  BY <1>12, <1>14 DEF OpenShopWindow
<1>17. client'[c] = cl
  BY <1>13, <1>16
<1>18. shopOwner'[c] = m /\ SaleList(c, stored, changed)' = L
  <2>1. shopOwner' = d.owner /\ shopItemList' = d.list
    BY <1>10 DEF DealsBecome
  <2> QED
    BY <1>9, <1>11, <1>12, <2>1 DEF SaleList, Relevant
<1>19. ClientFits(c)'
  <2>1. c \in online'
    BY <1>10, <1>11
  <2>2. CASE client[c].there
    BY <1>15, <1>17, <1>18, <2>1, <2>2 DEF ClientFits
  <2>3. CASE ~client[c].there
    BY <1>13, <1>15, <1>17, <2>1, <2>3 DEF ClientFits
  <2> QED
    BY <2>2, <2>3
<1>20. /\ Cardinality(leaked') = failed' /\ failed' \in 0..MaxFailed /\ DealsFit(d, leaked')
  <2>1. leaked' = leaked /\ failed' = failed
    BY <1>11
  <2> QED
    BY <1>9, <2>1, ShopsParts
<1> QED
  BY <1>9, <1>10, <1>11, <1>15, <1>16, <1>19, <1>20, OneCustomer

\* A script that fails leaves its functions referred to.
LEMMA FailureLeaves ==
  ASSUME ShopsInv, NEW r, r = FreeReference(registry), leaked' = leaked \cup {r},
         failed < MaxFailed, failed' = failed + 1
  PROVE  Cardinality(leaked') = failed' /\ failed' \in 0..MaxFailed
<1>1. r \notin leaked
  BY ReferenceIsFree, ShopsParts DEF DealsFit
<1>2. IsFiniteSet(leaked)
  BY ShopsParts, ShopsFacts, FS_Subset
<1>3. Cardinality(leaked \cup {r}) = Cardinality(leaked) + 1
  BY <1>1, <1>2, FS_AddElement
<1>4. Cardinality(leaked) = failed /\ failed \in 0..MaxFailed
  BY ShopsParts
<1>5. failed' \in 0..MaxFailed
  BY <1>4, ShopsFacts
<1> QED
  BY <1>3, <1>4, <1>5

LEMMA FailuresKeep ==
  ASSUME ShopsInv, OpenForNobody \/ \E c \in Customer : OpenByNobody(c)
  PROVE  ShopsInv'
<1>1. PICK r : r = FreeReference(registry)
  OBVIOUS
<1>2. r \in Reference /\ r \notin registry
  BY <1>1, ReferenceIsFree
<1>3. PICK a : a = [Deals EXCEPT !.refs = @ \cup {r}]
  OBVIOUS
<1>4. DealsFit(a, leaked \cup {r}) /\ a.owner = shopOwner /\ a.list = shopItemList
  BY <1>2, <1>3, Referring
<1>5. leaked' = leaked \cup {r} /\ failed < MaxFailed /\ failed' = failed + 1
      /\ UNCHANGED <<online, placed, client, stored, changed>>
  BY <1>1, <1>3 DEF OpenForNobody, OpenByNobody
<1>6. Cardinality(leaked') = failed' /\ failed' \in 0..MaxFailed
  BY <1>1, <1>5, FailureLeaves
<1>7. /\ online' \subseteq Customer /\ placed' \subseteq Merchant /\ client' \in [Customer -> Client]
      /\ \A c \in Customer : ClientFits(c)
      /\ \A c \in Customer : shopOwner[c] # None => c \in online' /\ shopOwner[c] \in placed'
  BY <1>5, ShopsParts
<1>8. CASE OpenForNobody
  <2>1. DealsBecome(a)
    BY <1>1, <1>3, <1>8 DEF OpenForNobody, DealsBecome, Deals
  <2>2. shopOwner' = shopOwner /\ shopItemList' = shopItemList /\ deceived' = deceived
    BY <1>8 DEF OpenForNobody
  <2>3. ASSUME NEW c \in Customer
        PROVE  ClientFits(c)'
    BY <1>5, <1>7, <2>2, ClientStays
  <2>4. deceived' \subseteq Customer /\ DealsFit(a, leaked')
    BY <1>4, <1>5, <2>2, ShopsParts
  <2> QED
    BY <1>4, <1>5, <1>6, <1>7, <2>1, <2>3, <2>4, DealsChange
<1>9. ASSUME NEW c \in Customer, OpenByNobody(c)
      PROVE  ShopsInv'
  <2>1. PICK d : d = ShopClosed(a, c)
    OBVIOUS
  <2>2. /\ DealsFit(d, leaked \cup {r}) /\ d.owner[c] = None
        /\ \A x \in Customer \ {c} : d.owner[x] = shopOwner[x] /\ d.list[x] = shopItemList[x]
    BY <1>4, <2>1, ShopClosing
  <2>3. DealsBecome(d)
    BY <1>1, <1>3, <1>9, <2>1 DEF OpenByNobody
  <2>4. PICK cl \in Client : cl = client[c]
    BY ShopsParts
  <2>5. client' = [client EXCEPT ![c] = cl] /\ client'[c] = client[c]
    BY <1>5, <2>4, ShopsParts
  <2>6. /\ deceived \subseteq deceived' /\ deceived' \subseteq Customer
        /\ client[c].window # None => c \in deceived'
    BY <1>9, ShopsParts DEF OpenByNobody
  <2>7. ClientFits(c)'
    BY <1>5, <1>7, <2>5, <2>6 DEF ClientFits
  <2> QED
    BY <1>5, <1>6, <2>2, <2>3, <2>5, <2>6, <2>7, ShopsParts, OneCustomer
<1> QED
  BY <1>8, <1>9

\* Merchants close all their shops: who is in their sets has a shop with them.
LEMMA AllClosing ==
  ASSUME ShopsInv, NEW ms \in SUBSET Merchant, NEW d, d = AllClosed(ms),
         NEW cl, cl = ClientsClosed(ms)
  PROVE  /\ DealsFit(d, leaked)
         /\ \A c \in Customer :
              IF shopOwner[c] \in ms
              THEN /\ d.owner[c] = None
                   /\ cl[c] = WindowShown(client[c], None)
              ELSE /\ d.owner[c] = shopOwner[c] /\ d.list[c] = shopItemList[c]
                   /\ cl[c] = client[c]
<1>1. PICK them : them = UNION {shopPlayerSet[m] : m \in ms}
  OBVIOUS
<1>2. /\ DealsFit(Deals, leaked) /\ Deals \in Deal /\ None \notin ms
      /\ shopOwner = Deals.owner /\ shopItemList = Deals.list /\ registry = Deals.refs
      /\ callback = Deals.call /\ shopPlayerSet = Deals.set
  BY ShopsParts, ShopsFacts
<1>3. \A c \in Customer, m \in Merchant : shopOwner[c] = m <=> c \in shopPlayerSet[m]
  BY <1>2 DEF DealsFit
<1>4. /\ callback \in [Customer -> Reference \cup {0}] /\ registry \in SUBSET Reference
      /\ shopPlayerSet \in [Merchant -> SUBSET Customer]
      /\ shopItemList \in [Customer -> SUBSET Ware]
      /\ shopOwner \in [Customer -> Merchant \cup {None}]
  BY <1>2 DEF Deal
<1>5. them \subseteq Customer /\ \A c \in Customer : c \in them <=> shopOwner[c] \in ms
  BY <1>1, <1>3, <1>4
<1>6. {c \in them : shopOwner[c] # None} = them
  BY <1>2, <1>5
<1>7. /\ d \in Deal
      /\ d.owner = [c \in Customer |-> IF c \in them THEN None ELSE shopOwner[c]]
      /\ d.call = [c \in Customer |-> IF c \in them THEN 0 ELSE callback[c]]
      /\ d.list = [c \in Customer |-> IF c \in them THEN {} ELSE shopItemList[c]]
      /\ d.set = [m \in Merchant |-> IF m \in ms THEN {} ELSE shopPlayerSet[m] \ them]
      /\ d.refs = registry \ {callback[c] : c \in them}
  <2>1. PICK owner \in [Customer -> Merchant \cup {None}] :
          owner = [c \in Customer |-> IF c \in them THEN None ELSE shopOwner[c]]
    BY <1>4
  <2>2. PICK call \in [Customer -> Reference \cup {0}] :
          call = [c \in Customer |-> IF c \in them THEN 0 ELSE callback[c]]
    BY <1>4
  <2>3. PICK list \in [Customer -> SUBSET Ware] :
          list = [c \in Customer |-> IF c \in them THEN {} ELSE shopItemList[c]]
    BY <1>4
  <2>4. PICK set \in [Merchant -> SUBSET Customer] :
          set = [m \in Merchant |-> IF m \in ms THEN {} ELSE shopPlayerSet[m] \ them]
    BY <1>4
  <2>5. PICK refs \in SUBSET Reference : refs = registry \ {callback[c] : c \in them}
    BY <1>4
  <2>6. d = [owner |-> owner, call |-> call, list |-> list, set |-> set, refs |-> refs]
    BY <1>1, <1>6, <2>1, <2>2, <2>3, <2>4, <2>5 DEF AllClosed
  <2> QED
    BY <2>1, <2>2, <2>3, <2>4, <2>5, <2>6 DEF Deal
<1>8. ASSUME NEW c \in Customer
      PROVE  IF shopOwner[c] \in ms
             THEN d.owner[c] = None /\ cl[c] = WindowShown(client[c], None)
             ELSE /\ d.owner[c] = shopOwner[c] /\ d.list[c] = shopItemList[c]
                  /\ cl[c] = client[c]
  <2>1. (\E m \in ms : c \in shopPlayerSet[m] /\ shopOwner[c] # None) <=> shopOwner[c] \in ms
    BY <1>2, <1>3
  <2>2. cl[c] = IF shopOwner[c] \in ms THEN WindowShown(client[c], None) ELSE client[c]
    BY <2>1 DEF ClientsClosed
  <2> QED
    BY <1>5, <1>7, <2>2
<1>9. leaked \subseteq d.refs
  BY <1>2, <1>5, <1>6, <1>7 DEF DealsFit
<1>10. ASSUME NEW c \in Customer, NEW m \in Merchant
       PROVE  d.owner[c] = m <=> c \in d.set[m]
  <2>1. d.owner[c] = IF c \in them THEN None ELSE shopOwner[c]
    BY <1>7
  <2>2. d.set[m] = IF m \in ms THEN {} ELSE shopPlayerSet[m] \ them
    BY <1>7
  <2> QED
    BY <1>3, <1>5, <2>1, <2>2, ShopsFacts
<1>11. ASSUME NEW c \in Customer
       PROVE  IF d.owner[c] = None THEN d.call[c] = 0 ELSE d.call[c] \in d.refs \ leaked
  <2>1. CASE c \in them
    BY <1>7, <2>1
  <2>2. CASE c \notin them
    <3>1. d.owner[c] = shopOwner[c] /\ d.call[c] = callback[c]
      BY <1>7, <2>2
    <3>2. IF shopOwner[c] = None THEN callback[c] = 0 ELSE callback[c] \in registry \ leaked
      BY <1>2 DEF DealsFit
    <3>3. \A x \in them : shopOwner[c] # None => callback[x] # callback[c]
      BY <1>2, <1>5, <2>2 DEF DealsFit
    <3> QED
      BY <1>7, <3>1, <3>2, <3>3
  <2> QED
    BY <2>1, <2>2
<1>12. ASSUME NEW x \in Customer, NEW y \in Customer, d.owner[x] # None, d.owner[y] # None,
              d.call[x] = d.call[y]
       PROVE  x = y
  <2>1. /\ shopOwner[x] # None /\ shopOwner[y] # None /\ callback[x] = callback[y]
    BY <1>7, <1>12
  <2> QED
    BY <1>2, <2>1 DEF DealsFit
<1>13. ASSUME NEW r \in d.refs \ leaked
       PROVE  \E x \in Customer : d.owner[x] # None /\ d.call[x] = r
  <2>1. r \in registry \ leaked /\ r \notin {callback[c] : c \in them}
    BY <1>7
  <2>2. PICK x \in Customer : shopOwner[x] # None /\ callback[x] = r
    BY <1>2, <2>1 DEF DealsFit
  <2> QED
    BY <1>7, <2>1, <2>2
<1> QED
  BY <1>7, <1>8, <1>9, <1>10, <1>11, <1>12, <1>13 DEF DealsFit

\* A merchant goes, or the scripts are loaded anew.
LEMMA MerchantsKeep ==
  ASSUME ShopsInv, Reload \/ \E m \in Merchant : RemoveMerchant(m)
  PROVE  ShopsInv'
<1>1. PICK ms \in SUBSET Merchant :
        /\ DealsBecome(AllClosed(ms)) /\ client' = ClientsClosed(ms)
        /\ placed \ ms \subseteq placed' /\ placed' \subseteq placed
  <2>1. CASE Reload
    BY <2>1 DEF Reload
  <2>2. ASSUME NEW m \in Merchant, RemoveMerchant(m)
        PROVE  \E ms \in SUBSET Merchant :
                 /\ DealsBecome(AllClosed(ms)) /\ client' = ClientsClosed(ms)
                 /\ placed \ ms \subseteq placed' /\ placed' \subseteq placed
    BY <2>2 DEF RemoveMerchant
  <2> QED
    BY <2>1, <2>2
<1>2. UNCHANGED <<online, stored, changed, failed, leaked, deceived>>
  BY DEF Reload, RemoveMerchant
<1>3. PICK d : d = AllClosed(ms)
  OBVIOUS
<1>4. PICK cl : cl = ClientsClosed(ms)
  OBVIOUS
<1>5. /\ DealsFit(d, leaked)
      /\ \A c \in Customer :
           IF shopOwner[c] \in ms
           THEN d.owner[c] = None /\ cl[c] = WindowShown(client[c], None)
           ELSE /\ d.owner[c] = shopOwner[c] /\ d.list[c] = shopItemList[c]
                /\ cl[c] = client[c]
  BY <1>3, <1>4, AllClosing
<1>6. DealsBecome(d) /\ client' = cl
  BY <1>1, <1>3, <1>4
<1>7. shopOwner' = d.owner /\ shopItemList' = d.list
  BY <1>6 DEF DealsBecome
<1>8. /\ client \in [Customer -> Client]
      /\ \A c \in Customer : ClientFits(c)
      /\ \A c \in Customer : shopOwner[c] # None => c \in online /\ shopOwner[c] \in placed
      /\ online' \subseteq Customer /\ deceived' \subseteq Customer /\ placed' \subseteq Merchant
  BY <1>1, <1>2, ShopsParts
<1>9. ASSUME NEW c \in Customer
      PROVE  client'[c] \in Client /\ ClientFits(c)'
  <2>1. client[c] \in Client /\ ClientFits(c)
    BY <1>8
  <2>2. CASE shopOwner[c] \in ms
    <3>1. client'[c] = WindowShown(client[c], None)
      BY <1>5, <1>6, <2>2
    <3>2. /\ client'[c] \in Client /\ client'[c].there = client[c].there
          /\ client'[c].window = IF client[c].there THEN None ELSE client[c].window
      <4>1. PICK old \in Client : old = client[c]
        BY <2>1
      <4>2. /\ WindowShown(old, None) \in Client /\ WindowShown(old, None).there = old.there
            /\ WindowShown(old, None).window = IF old.there THEN None ELSE old.window
        BY ClientsTyped
      <4> QED
        BY <3>1, <4>1, <4>2
    <3>3. client'[c].window = None
      BY <2>1, <3>2 DEF ClientFits
    <3>4. client'[c].there => c \in online'
      BY <1>2, <2>1, <3>2 DEF ClientFits
    <3> QED
      BY <3>2, <3>3, <3>4, NoWindowFits
  <2>3. CASE shopOwner[c] \notin ms
    <3>1. client'[c] = client[c] /\ shopOwner'[c] = shopOwner[c] /\ shopItemList'[c] = shopItemList[c]
      BY <1>5, <1>6, <1>7, <2>3
    <3> QED
      BY <1>2, <2>1, <3>1, ClientStays
  <2> QED
    BY <2>2, <2>3
<1>10. client' \in [Customer -> Client]
  <2>1. client' = [c \in Customer |-> client'[c]]
    BY <1>4, <1>6 DEF ClientsClosed
  <2> QED
    BY <1>9, <2>1
<1>11. \A c \in Customer : d.owner[c] # None => c \in online' /\ d.owner[c] \in placed'
  BY <1>1, <1>2, <1>5, <1>8
<1>12. /\ Cardinality(leaked') = failed' /\ failed' \in 0..MaxFailed /\ DealsFit(d, leaked')
  <2>1. leaked' = leaked /\ failed' = failed
    BY <1>2
  <2> QED
    BY <1>5, <2>1, ShopsParts
<1> QED
  BY <1>2, <1>6, <1>8, <1>9, <1>10, <1>11, <1>12, DealsChange

\* The customer neither sees the thing go or come, nor what was in it.
Untouched(c, x, moved) ==
    \/ HolderAt(stored, x) = HolderAt(moved, x)
    \/ c \notin {HolderAt(stored, x), HolderAt(moved, x)}
    \/ ~Counts(c, x)

\* His list stays right.
LEMMA ListStays ==
  ASSUME ShopsInv, NEW x \in Ware \cup {Basket}, NEW to \in Customer \cup {Ground, Basket}, x # to,
         NEW moved, moved = [stored EXCEPT ![x] = to], NEW c \in Customer,
         Untouched(c, x, moved)
  PROVE  SaleList(c, moved, changed) = SaleList(c, stored, changed)
<1>1. /\ stored \in [Ware \cup {Basket} -> Customer \cup {Ground, Basket}] /\ stored[Basket] # Basket
      /\ shopItemList \in [Customer -> SUBSET Ware] /\ Money \subseteq Ware /\ Basket \notin Ware
  BY ShopsFacts DEF ShopsInv, ShopsTypeOK
<1>2. /\ moved[x] = to /\ \A y \in Ware \cup {Basket} : y # x => moved[y] = stored[y]
      /\ moved[Basket] # Basket
  BY <1>1
<1>3. Relevant(c, changed) \subseteq Ware
  BY <1>1 DEF Relevant
<1>4. ASSUME NEW g \in Relevant(c, changed)
      PROVE  HolderAt(moved, g) = c <=> HolderAt(stored, g) = c
  <2>1. g \in Ware /\ g # Basket
    BY <1>1, <1>3
  <2>2. CASE g = x
    <3>1. Counts(c, x)
      BY <2>2 DEF Counts
    <3> QED
      BY <2>2, <3>1 DEF Untouched
  <2>3. CASE g # x /\ (stored[g] # Basket \/ x # Basket)
    BY <1>2, <2>1, <2>3 DEF HolderAt
  <2>4. CASE g # x /\ stored[g] = Basket /\ x = Basket
    <3>1. Counts(c, x)
      BY <2>4 DEF Counts
    <3>2. HolderAt(stored, x) = stored[Basket] /\ HolderAt(moved, x) = moved[Basket]
      BY <1>1, <1>2, <2>4 DEF HolderAt
    <3>3. HolderAt(stored, g) = stored[Basket] /\ HolderAt(moved, g) = moved[Basket]
      BY <1>2, <2>1, <2>4 DEF HolderAt
    <3> QED
      BY <3>1, <3>2, <3>3 DEF Untouched
  <2> QED
    BY <2>2, <2>3, <2>4
<1> QED
  BY <1>4 DEF SaleList

\* A thing is moved: who sees it go or come is sent a new list.
LEMMA MovingKeeps ==
  ASSUME ShopsInv, NEW x \in Ware \cup {Basket}, NEW to \in Customer \cup {Ground, Basket}, Move(x, to)
  PROVE  ShopsInv'
<1>1. PICK moved : moved = [stored EXCEPT ![x] = to]
  OBVIOUS
<1>2. /\ x # to /\ stored' = moved /\ client' = [c \in Customer |-> Moved(c, x, to)]
      /\ UNCHANGED <<deals, online, placed, changed, failed, leaked, deceived>>
  BY <1>1 DEF Move
<1>3. /\ stored \in [Ware \cup {Basket} -> Customer \cup {Ground, Basket}] /\ stored[Basket] # Basket
      /\ shopItemList \in [Customer -> SUBSET Ware] /\ Money \subseteq Ware /\ Basket \notin Ware
  BY ShopsFacts DEF ShopsInv, ShopsTypeOK
<1>4. stored' \in [Ware \cup {Basket} -> Customer \cup {Ground, Basket}] /\ stored'[Basket] # Basket
  BY <1>1, <1>2, <1>3
<1>5. /\ UNCHANGED <<shopOwner, callback, shopItemList, shopPlayerSet, registry>>
      /\ Deals' = Deals
  BY <1>2 DEF deals, Deals
<1>6. ASSUME NEW c \in Customer
      PROVE  client'[c] \in Client /\ ClientFits(c)'
  <2>1. client[c] \in Client /\ ClientFits(c)
    BY ShopsParts
  <2>2. PICK send \in BOOLEAN :
          send <=> /\ shopOwner[c] # None /\ HolderAt(stored, x) # HolderAt(moved, x)
                   /\ c \in {HolderAt(stored, x), HolderAt(moved, x)} /\ Counts(c, x)
    OBVIOUS
  <2>3. client'[c] = IF send THEN SaleListSent(client[c], c, moved, changed) ELSE client[c]
    <3>1. client'[c] = Moved(c, x, to)
      BY <1>2
    <3> QED
      BY <1>1, <2>2, <3>1 DEF Moved
  <2>4. PICK L \in SUBSET Ware : L = SaleList(c, moved, changed)
    BY <1>3 DEF SaleList, Relevant
  <2>5. SaleList(c, stored, changed)' = L
    BY <1>2, <1>5, <2>4 DEF SaleList, Relevant
  <2>6. CASE send /\ client[c].there
    <3>1. client'[c] = [client[c] EXCEPT !.list = L, !.stale = FALSE]
      BY <2>3, <2>4, <2>6 DEF SaleListSent
    <3>2. /\ client'[c] \in Client /\ client'[c].there = client[c].there
          /\ client'[c].window = client[c].window /\ client'[c].list = L
      BY <2>1, <3>1 DEF Client
    <3> QED
      BY <1>2, <1>5, <2>1, <2>5, <3>2 DEF ClientFits
  <2>7. CASE ~client[c].there
    <3>1. client'[c] = client[c]
      BY <2>3, <2>7 DEF SaleListSent
    <3> QED
      BY <2>1, <2>7, <3>1 DEF ClientFits
  <2>8. CASE ~send /\ client[c].there
    <3>1. client'[c] = client[c]
      BY <2>3, <2>8
    <3>2. CASE shopOwner[c] = None
      <4>1. shopOwner'[c] = None /\ client'[c].there /\ c \in online'
        BY <1>2, <1>5, <2>1, <2>8, <3>1, <3>2 DEF ClientFits
      <4>2. client[c].window # None /\ c \notin deceived => client[c].window = None
        BY <2>1, <3>2 DEF ClientFits
      <4>3. ~(client[c].window # None /\ c \notin deceived)
        BY <4>2
      <4> QED
        BY <1>2, <2>1, <3>1, <4>1, <4>3 DEF ClientFits
    <3>3. CASE shopOwner[c] # None
      <4>1. Untouched(c, x, moved)
        BY <2>2, <2>8, <3>3 DEF Untouched
      <4>2. SaleList(c, moved, changed) = SaleList(c, stored, changed)
        BY <1>1, <1>2, <4>1, ListStays
      <4> QED
        BY <1>2, <1>5, <2>1, <2>4, <2>5, <3>1, <4>2 DEF ClientFits
    <3> QED
      BY <3>2, <3>3
  <2> QED
    BY <2>6, <2>7, <2>8
<1>7. client' \in [Customer -> Client]
  <2>1. client' = [c \in Customer |-> client'[c]]
    BY <1>2
  <2> QED
    BY <1>6, <2>1
<1>8. ShopsTypeOK'
  BY <1>2, <1>4, <1>5, <1>7 DEF ShopsInv, ShopsTypeOK, Client
<1>9. DealsFit(Deals, leaked)'
  BY <1>2, <1>5 DEF ShopsInv, DealsFit
<1>10. (Cardinality(leaked) = failed)' /\ OpenHere'
  BY <1>2, <1>5 DEF ShopsInv, OpenHere
<1> QED
  BY <1>4, <1>6, <1>8, <1>9, <1>10 DEF ShopsInv

\* A thing is turned into another kind: the client of who carries it is not told.
LEMMA TurningKeeps ==
  ASSUME ShopsInv, NEW g \in Ware, Transform(g)
  PROVE  ShopsInv'
<1>1. /\ g \notin Money
      /\ changed' = IF g \in changed THEN changed \ {g} ELSE changed \cup {g}
      /\ client' = [c \in Customer |-> IF HolderAt(stored, g) = c /\ c \in online
                                       THEN [client[c] EXCEPT !.stale = TRUE] ELSE client[c]]
      /\ UNCHANGED <<deals, online, placed, stored, failed, leaked, deceived>>
  BY DEF Transform
<1>2. UNCHANGED <<shopOwner, callback, shopItemList, shopPlayerSet, registry>> /\ Deals' = Deals
  BY <1>1 DEF deals, Deals
<1>3. ASSUME NEW c \in Customer
      PROVE  client'[c] \in Client /\ ClientFits(c)'
  <2>1. client[c] \in Client /\ ClientFits(c)
    BY ShopsParts
  <2>2. CASE HolderAt(stored, g) = c /\ c \in online
    <3>1. client'[c] = [client[c] EXCEPT !.stale = TRUE]
      BY <1>1, <2>2
    <3>2. /\ client'[c] \in Client /\ client'[c].there = client[c].there
          /\ client'[c].window = client[c].window /\ client'[c].stale
      BY <2>1, <3>1 DEF Client
    <3> QED
      BY <1>1, <1>2, <2>1, <3>2 DEF ClientFits
  <2>3. CASE c \notin online
    <3>1. client'[c] = client[c] /\ ~client[c].there /\ client[c].window = None
      BY <1>1, <2>1, <2>3 DEF ClientFits
    <3> QED
      BY <2>1, <3>1 DEF ClientFits
  <2>4. CASE c \in online /\ HolderAt(stored, g) # c
    <3>1. client'[c] = client[c]
      BY <1>1, <2>4
    <3>2. SaleList(c, stored, changed)' = SaleList(c, stored, changed)
      <4>1. \A x \in Money \cup shopItemList[c] :
              HolderAt(stored, x) = c => (x \in changed' <=> x \in changed)
        BY <1>1, <2>4
      <4> QED
        BY <1>1, <1>2, <4>1 DEF SaleList, Relevant
    <3> QED
      BY <1>1, <1>2, <2>1, <3>1, <3>2 DEF ClientFits
  <2> QED
    BY <2>2, <2>3, <2>4
<1>4. client' \in [Customer -> Client]
  <2>1. client' = [c \in Customer |-> client'[c]]
    BY <1>1
  <2> QED
    BY <1>3, <2>1
<1>5. ShopsTypeOK'
  <2>1. changed' \subseteq Ware
    BY <1>1 DEF ShopsInv, ShopsTypeOK
  <2> QED
    BY <1>1, <1>2, <1>4, <2>1 DEF ShopsInv, ShopsTypeOK, Client
<1>6. DealsFit(Deals, leaked)'
  BY <1>1, <1>2 DEF ShopsInv, DealsFit
<1>7. (Cardinality(leaked) = failed)' /\ OpenHere' /\ stored'[Basket] # Basket
  BY <1>1, <1>2 DEF ShopsInv, OpenHere
<1> QED
  BY <1>3, <1>5, <1>6, <1>7 DEF ShopsInv

LEMMA ShopsStart == ShopsInit => ShopsInv
<1> SUFFICES ASSUME ShopsInit PROVE ShopsInv
  OBVIOUS
<1>1. /\ shopOwner = [c \in Customer |-> None] /\ callback = [c \in Customer |-> 0]
      /\ shopItemList = [c \in Customer |-> {}] /\ shopPlayerSet = [m \in Merchant |-> {}]
      /\ registry = {} /\ leaked = {} /\ online = {} /\ placed = Merchant
      /\ client = [c \in Customer |-> NoClient]
      /\ stored = [x \in Ware \cup {Basket} |-> Ground]
      /\ changed = {} /\ failed = 0 /\ deceived = {}
  BY DEF ShopsInit
<1>2. /\ NoClient \in Client /\ ~NoClient.there /\ NoClient.window = None
  BY DEF NoClient, Client
<1>3. 0 \in 0..MaxFailed
  BY ShopsFacts
<1>4. client \in [Customer -> Client]
  BY <1>1, <1>2
<1>5. ShopsTypeOK
  BY <1>1, <1>3, <1>4 DEF ShopsTypeOK, Client
<1>6. DealsFit(Deals, leaked)
  <2>1. PICK d : d = Deals
    OBVIOUS
  <2>2. /\ d \in Deal /\ d.refs = {} /\ d.owner = shopOwner /\ d.call = callback
        /\ d.set = shopPlayerSet
    BY <1>1, <2>1 DEF Deals, Deal
  <2>3. DealsFit(d, leaked)
    BY <1>1, <2>2, ShopsFacts DEF DealsFit
  <2> QED
    BY <2>1, <2>3
<1>7. Cardinality(leaked) = failed
  BY <1>1, FS_EmptySet
<1>8. OpenHere
  BY <1>1 DEF OpenHere
<1>9. stored[Basket] # Basket
  <2>1. Ground # Basket
    BY ShopsAssumption
  <2> QED
    BY <1>1, <2>1
<1>10. ASSUME NEW c \in Customer
       PROVE  ClientFits(c)
  BY <1>1, <1>2 DEF ClientFits
<1> QED
  BY <1>5, <1>6, <1>7, <1>8, <1>9, <1>10 DEF ShopsInv

LEMMA ShopsStutter ==
  ASSUME ShopsInv, UNCHANGED shopVars
  PROVE  ShopsInv'
<1>1. UNCHANGED <<shopOwner, callback, shopItemList, shopPlayerSet, registry, online, placed,
                  client, stored, changed, failed, leaked, deceived>>
  BY DEF shopVars, deals
<1>2. Deals' = Deals /\ \A c \in Customer : SaleList(c, stored, changed)' = SaleList(c, stored, changed)
  BY <1>1 DEF Deals, SaleList, Relevant
<1>3. ShopsTypeOK' /\ OpenHere' /\ stored'[Basket] # Basket
  BY <1>1 DEF ShopsInv, ShopsTypeOK, OpenHere
<1>4. DealsFit(Deals, leaked)' /\ (Cardinality(leaked) = failed)'
  BY <1>1, <1>2 DEF ShopsInv, DealsFit
<1>5. ASSUME NEW c \in Customer
      PROVE  ClientFits(c)'
  BY <1>1, <1>2 DEF ShopsInv, ClientFits
<1> QED
  BY <1>3, <1>4, <1>5 DEF ShopsInv

LEMMA ShopsKeep == ShopsSpec => []ShopsInv
<1>1. ASSUME ShopsInv, ShopsNext
      PROVE  ShopsInv'
  <2>1. CASE OpenForNobody \/ \E c \in Customer : OpenByNobody(c)
    BY <1>1, <2>1, FailuresKeep
  <2>2. CASE Reload \/ \E m \in Merchant : RemoveMerchant(m)
    BY <1>1, <2>2, MerchantsKeep
  <2>3. CASE \E m \in Merchant, c \in Customer : OpenShopWindow(m, c) \/ CloseByScript(m, c)
    BY <1>1, <2>3, OpeningKeeps, ClosingKeeps
  <2>4. CASE \E c \in Customer : CloseShop(c) \/ Logout(c)
    BY <1>1, <2>4, ClosingKeeps
  <2>5. CASE \E c \in Customer : Login(c) \/ LoseClient(c) \/ TakeOver(c)
    BY <1>1, <2>5, ClientsComeAndGo
  <2>6. CASE \E c \in Customer, closes \in BOOLEAN : Bargain(c, closes)
    BY <1>1, <2>6, BargainKeeps
  <2>7. CASE \E g \in Ware : Transform(g)
    BY <1>1, <2>7, TurningKeeps
  <2>8. CASE \E x \in Ware \cup {Basket}, to \in Customer \cup {Ground, Basket} : Move(x, to)
    BY <1>1, <2>8, MovingKeeps
  <2> QED
    BY <1>1, <2>1, <2>2, <2>3, <2>4, <2>5, <2>6, <2>7, <2>8 DEF ShopsNext
<1> QED
  BY <1>1, ShopsStart, ShopsStutter, PTL DEF ShopsSpec

LEMMA ShopsAreAgreed == ShopsInv => ShopsAgree
<1> SUFFICES ASSUME ShopsInv PROVE ShopsAgree
  OBVIOUS
<1>1. PICK d : d = Deals
  OBVIOUS
<1>2. PICK open : open = {c \in Customer : d.owner[c] # None}
  OBVIOUS
<1>3. PICK called : called = {d.call[c] : c \in open}
  OBVIOUS
<1>4. /\ DealsFit(d, leaked) /\ d.owner = shopOwner /\ d.call = callback /\ d.set = shopPlayerSet
      /\ d.refs = registry
  BY <1>1, ShopsParts
<1>5. \A c \in Customer, m \in Merchant : shopOwner[c] = m <=> c \in shopPlayerSet[m]
  BY <1>4 DEF DealsFit
<1>6. DealsFit(d, leaked) /\ \E all : all = {d.call[c] : c \in open}
  BY <1>4
<1>7. /\ d.refs = leaked \cup called
      /\ Cardinality(d.refs) = Cardinality(leaked) + Cardinality(open)
  <2>1. d.refs = leaked \cup called
    BY <1>2, <1>3, <1>4 DEF DealsFit
  <2>2. Cardinality(d.refs) = Cardinality(leaked) + Cardinality(open)
    BY <1>2, <1>6, ReferencesCounted
  <2> QED
    BY <2>1, <2>2
<1>8. LET those == {c \in Customer : shopOwner[c] # None}
      IN  /\ registry = leaked \cup {callback[c] : c \in those}
          /\ Cardinality(registry) = Cardinality(leaked) + Cardinality(those)
  <2> DEFINE those == {c \in Customer : shopOwner[c] # None}
  <2>1. those = open
    BY <1>2, <1>4
  <2>2. called = {callback[c] : c \in those}
    BY <1>3, <1>4, <2>1
  <2> HIDE DEF those
  <2>3. Cardinality(registry) = Cardinality(leaked) + Cardinality(those)
    BY <1>4, <1>7, <2>1
  <2>4. registry = leaked \cup {callback[c] : c \in those}
    BY <1>4, <1>7, <2>2
  <2> QED
    BY <2>3, <2>4 DEF those
<1>9. \A c \in Customer : shopOwner[c] # None => c \in online /\ shopOwner[c] \in placed
  BY ShopsParts
<1>10. \A c \in Customer :
          client[c].window # None /\ c \notin deceived =>
             /\ client[c].window = shopOwner[c]
             /\ client[c].stale \/ client[c].list = SaleList(c, stored, changed)
  BY ShopsParts DEF ClientFits
<1> QED
  BY <1>5, <1>8, <1>9, <1>10 DEF ShopsAgree

-----------------------------------------------------------------------------
(* The windows of containers: sequences first.                             *)

LEMMA WindowsNumbers ==
  /\ LastCid \in Nat /\ PageSize \in Nat /\ PageSize > 0 /\ MaxLeaks \in Nat
  /\ None \notin Content /\ None \notin Kept
  BY WindowsAssumption DEF Content, Kept

\* r is s with e put in, s with what is at n taken out, or a page of s.
Widens(S, r, s, n, e) ==
    /\ r \in Seq(S) /\ Len(r) = Len(s) + 1
    /\ \A j \in 1 .. Len(s) + 1 : r[j] = IF j < n THEN s[j] ELSE IF j = n THEN e ELSE s[j - 1]
Narrows(S, r, s, n) ==
    /\ r \in Seq(S) /\ Len(r) = Len(s) - 1
    /\ \A j \in 1 .. Len(s) - 1 : r[j] = IF j < n THEN s[j] ELSE s[j + 1]

\* How long a page is, and what.
PageLength(length, first) ==
    IF length <= first THEN 0 ELSE IF length < first + PageSize THEN length - first ELSE PageSize
Pages(S, r, s, first) ==
    /\ r \in Seq(S) /\ Len(r) = PageLength(Len(s), first)
    /\ \A j \in 1 .. PageLength(Len(s), first) : r[j] = s[first + j]

LEMMA PuttingInto ==
  ASSUME NEW S, NEW s \in Seq(S), NEW n \in 1 .. Len(s) + 1, NEW e \in S
  PROVE  Widens(S, InsertAt(s, n, e), s, n, e)
<1>1. Len(s) \in Nat /\ n \in Nat /\ n >= 1 /\ n <= Len(s) + 1
  BY LenProperties
<1>2. PICK a : a = SubSeq(s, 1, n - 1)
  OBVIOUS
<1>3. a \in Seq(S) /\ Len(a) = n - 1 /\ \A j \in 1 .. n - 1 : a[j] = s[j]
  <2>1. \A j \in 1 .. n - 1 : s[j] \in S
    BY <1>1, ElementOfSeq
  <2>2. 1 \in Int /\ n - 1 \in Int
    BY <1>1
  <2>3. /\ a \in Seq(S) /\ Len(a) = IF 1 <= n - 1 THEN (n - 1) - 1 + 1 ELSE 0
        /\ \A j \in 1 .. (n - 1) - 1 + 1 : a[j] = s[1 + j - 1]
    BY <1>2, <2>1, <2>2, SubSeqProperties
  <2>4. Len(a) = n - 1
    BY <1>1, <2>3
  <2>5. ASSUME NEW j \in 1 .. n - 1
        PROVE  a[j] = s[j]
    <3>1. j \in 1 .. (n - 1) - 1 + 1 /\ 1 + j - 1 = j
      BY <1>1
    <3> QED
      BY <2>3, <3>1
  <2> QED
    BY <2>3, <2>4, <2>5
<1>4. PICK b : b = SubSeq(s, n, Len(s))
  OBVIOUS
<1>5. /\ b \in Seq(S) /\ Len(b) = Len(s) - n + 1
      /\ \A j \in 1 .. Len(s) - n + 1 : b[j] = s[n + j - 1]
  <2>1. \A j \in n .. Len(s) : s[j] \in S
    BY <1>1, ElementOfSeq
  <2>2. n \in Int /\ Len(s) \in Int
    BY <1>1
  <2>3. /\ b \in Seq(S) /\ Len(b) = IF n <= Len(s) THEN Len(s) - n + 1 ELSE 0
        /\ \A j \in 1 .. Len(s) - n + 1 : b[j] = s[n + j - 1]
    BY <1>4, <2>1, <2>2, SubSeqProperties
  <2> QED
    BY <1>1, <2>3
<1>6. PICK c : c = <<e>>
  OBVIOUS
<1>7. c \in Seq(S) /\ Len(c) = 1 /\ c[1] = e
  BY <1>6
<1>8. PICK d : d = a \o c
  OBVIOUS
<1>9. /\ d \in Seq(S) /\ Len(d) = n
      /\ \A j \in 1 .. n - 1 : d[j] = a[j]
      /\ d[n] = e
  <2>1. n - 1 \in Nat /\ 1 \in Nat
    BY <1>1
  <2>2. PICK p : p = n - 1
    OBVIOUS
  <2>3. PICK q : q = 1
    OBVIOUS
  <2>4. a \in Seq(S) /\ c \in Seq(S) /\ p \in Nat /\ q \in Nat /\ Len(a) = p /\ Len(c) = q
    BY <1>1, <1>3, <1>7, <2>2, <2>3
  <2>5. (a \o c) \in Seq(S) /\ Len(a \o c) = p + q
    BY ONLY <2>4
  <2>6. \A j \in 1 .. p : (a \o c)[j] = a[j]
    BY ONLY <2>4
  <2>7. \A j \in p + 1 .. p + q : (a \o c)[j] = c[j - p]
    BY ONLY <2>4
  <2>8. n \in p + 1 .. p + q /\ n - p = 1 /\ p + q = n
    BY <1>1, <2>2, <2>3
  <2> QED
    BY <1>7, <1>8, <2>2, <2>5, <2>6, <2>7, <2>8
<1>10. PICK f : f = d \o b
  OBVIOUS
<1>11. /\ f \in Seq(S) /\ Len(f) = Len(s) + 1
       /\ \A j \in 1 .. n : f[j] = d[j]
       /\ \A j \in n + 1 .. Len(s) + 1 : f[j] = b[j - n]
  <2>1. PICK q : q = Len(s) - n + 1
    OBVIOUS
  <2>2. q \in Nat /\ n + q = Len(s) + 1 /\ Len(b) = q
    BY <1>1, <1>5, <2>1
  <2>4. d \in Seq(S) /\ b \in Seq(S) /\ n \in Nat /\ q \in Nat /\ Len(d) = n /\ Len(b) = q
    BY <1>1, <1>5, <1>9, <2>2
  <2>5. (d \o b) \in Seq(S) /\ Len(d \o b) = n + q
    BY ONLY <2>4
  <2>6. \A j \in 1 .. n : (d \o b)[j] = d[j]
    BY ONLY <2>4
  <2>7. \A j \in n + 1 .. n + q : (d \o b)[j] = b[j - n]
    BY ONLY <2>4
  <2>3. /\ f \in Seq(S) /\ Len(f) = n + q
        /\ \A j \in 1 .. n : f[j] = d[j]
        /\ \A j \in n + 1 .. n + q : f[j] = b[j - n]
    BY <1>10, <2>5, <2>6, <2>7
  <2> QED
    BY <2>2, <2>3
<1>12. InsertAt(s, n, e) = f
  BY <1>2, <1>4, <1>6, <1>8, <1>10 DEF InsertAt
<1>13. ASSUME NEW j \in 1 .. Len(s) + 1
       PROVE  f[j] = IF j < n THEN s[j] ELSE IF j = n THEN e ELSE s[j - 1]
  <2>1. j \in Nat /\ j >= 1 /\ j <= Len(s) + 1
    BY <1>1
  <2>2. CASE j < n
    <3>1. j \in 1 .. n /\ j \in 1 .. n - 1
      BY <1>1, <2>1, <2>2
    <3> QED
      BY <1>3, <1>9, <1>11, <2>2, <3>1
  <2>3. CASE j = n
    <3>1. j \in 1 .. n /\ ~(j < n)
      BY <1>1, <2>1, <2>3
    <3> QED
      BY <1>9, <1>11, <2>3, <3>1
  <2>4. CASE j > n
    <3>1. /\ j \in n + 1 .. Len(s) + 1 /\ j - n \in 1 .. Len(s) - n + 1
          /\ n + (j - n) - 1 = j - 1 /\ ~(j < n) /\ j # n
      BY <1>1, <2>1, <2>4
    <3> QED
      BY <1>5, <1>11, <3>1
  <2> QED
    BY <1>1, <2>1, <2>2, <2>3, <2>4
<1> QED
  BY <1>11, <1>12, <1>13 DEF Widens

LEMMA TakingFrom ==
  ASSUME NEW S, NEW s \in Seq(S), NEW n \in 1 .. Len(s)
  PROVE  Narrows(S, RemoveAt(s, n), s, n)
<1>1. Len(s) \in Nat /\ n \in Nat /\ n >= 1 /\ n <= Len(s)
  BY LenProperties
<1>2. PICK a : a = SubSeq(s, 1, n - 1)
  OBVIOUS
<1>3. a \in Seq(S) /\ Len(a) = n - 1 /\ \A j \in 1 .. n - 1 : a[j] = s[j]
  <2>1. \A j \in 1 .. n - 1 : s[j] \in S
    BY <1>1, ElementOfSeq
  <2>2. 1 \in Int /\ n - 1 \in Int
    BY <1>1
  <2>3. /\ a \in Seq(S) /\ Len(a) = IF 1 <= n - 1 THEN (n - 1) - 1 + 1 ELSE 0
        /\ \A j \in 1 .. (n - 1) - 1 + 1 : a[j] = s[1 + j - 1]
    BY <1>2, <2>1, <2>2, SubSeqProperties
  <2>4. Len(a) = n - 1
    BY <1>1, <2>3
  <2>5. ASSUME NEW j \in 1 .. n - 1
        PROVE  a[j] = s[j]
    <3>1. j \in 1 .. (n - 1) - 1 + 1 /\ 1 + j - 1 = j
      BY <1>1
    <3> QED
      BY <2>3, <3>1
  <2> QED
    BY <2>3, <2>4, <2>5
<1>4. PICK b : b = SubSeq(s, n + 1, Len(s))
  OBVIOUS
<1>5. b \in Seq(S) /\ Len(b) = Len(s) - n /\ \A j \in 1 .. Len(s) - n : b[j] = s[n + j]
  <2>1. \A j \in n + 1 .. Len(s) : s[j] \in S
    BY <1>1, ElementOfSeq
  <2>2. n + 1 \in Int /\ Len(s) \in Int
    BY <1>1
  <2>3. /\ b \in Seq(S) /\ Len(b) = IF n + 1 <= Len(s) THEN Len(s) - (n + 1) + 1 ELSE 0
        /\ \A j \in 1 .. Len(s) - (n + 1) + 1 : b[j] = s[(n + 1) + j - 1]
    BY <1>4, <2>1, <2>2, SubSeqProperties
  <2>4. Len(b) = Len(s) - n
    BY <1>1, <2>3
  <2>5. ASSUME NEW j \in 1 .. Len(s) - n
        PROVE  b[j] = s[n + j]
    <3>1. j \in 1 .. Len(s) - (n + 1) + 1 /\ (n + 1) + j - 1 = n + j
      BY <1>1
    <3> QED
      BY <2>3, <3>1
  <2> QED
    BY <2>3, <2>4, <2>5
<1>6. PICK f : f = a \o b
  OBVIOUS
<1>7. /\ f \in Seq(S) /\ Len(f) = Len(s) - 1
      /\ \A j \in 1 .. n - 1 : f[j] = a[j]
      /\ \A j \in n .. Len(s) - 1 : f[j] = b[j - (n - 1)]
  <2>1. PICK p : p = n - 1
    OBVIOUS
  <2>2. PICK q : q = Len(s) - n
    OBVIOUS
  <2>3. p \in Nat /\ q \in Nat /\ p + q = Len(s) - 1 /\ p + 1 = n /\ Len(a) = p /\ Len(b) = q
    BY <1>1, <1>3, <1>5, <2>1, <2>2
  <2>5. a \in Seq(S) /\ b \in Seq(S) /\ p \in Nat /\ q \in Nat /\ Len(a) = p /\ Len(b) = q
    BY <1>3, <1>5, <2>3
  <2>6. (a \o b) \in Seq(S) /\ Len(a \o b) = p + q
    BY ONLY <2>5
  <2>7. \A j \in 1 .. p : (a \o b)[j] = a[j]
    BY ONLY <2>5
  <2>8. \A j \in p + 1 .. p + q : (a \o b)[j] = b[j - p]
    BY ONLY <2>5
  <2>4. /\ f \in Seq(S) /\ Len(f) = p + q
        /\ \A j \in 1 .. p : f[j] = a[j]
        /\ \A j \in p + 1 .. p + q : f[j] = b[j - p]
    BY <1>6, <2>6, <2>7, <2>8
  <2> QED
    BY <2>1, <2>3, <2>4
<1>8. RemoveAt(s, n) = f
  BY <1>2, <1>4, <1>6 DEF RemoveAt
<1>9. ASSUME NEW j \in 1 .. Len(s) - 1
      PROVE  f[j] = IF j < n THEN s[j] ELSE s[j + 1]
  <2>1. j \in Nat /\ j >= 1 /\ j <= Len(s) - 1
    BY <1>1
  <2>2. CASE j < n
    <3>1. j \in 1 .. n - 1
      BY <1>1, <2>1, <2>2
    <3> QED
      BY <1>3, <1>7, <2>2, <3>1
  <2>3. CASE ~(j < n)
    <3>1. /\ j \in n .. Len(s) - 1 /\ j - (n - 1) \in 1 .. Len(s) - n
          /\ n + (j - (n - 1)) = j + 1
      BY <1>1, <2>1, <2>3
    <3> QED
      BY <1>5, <1>7, <2>3, <3>1
  <2> QED
    BY <2>2, <2>3
<1> QED
  BY <1>7, <1>8, <1>9 DEF Narrows

LEMMA PageIs ==
  ASSUME NEW S, NEW s \in Seq(S), NEW first \in Nat
  PROVE  Pages(S, Page(s, first), s, first)
<1>1. Len(s) \in Nat /\ PageSize \in Nat /\ PageSize > 0
  BY LenProperties, WindowsNumbers
<1>2. PICK m : m = first + 1
  OBVIOUS
<1>3. PICK n : n = IF Len(s) < first + PageSize THEN Len(s) ELSE first + PageSize
  OBVIOUS
<1>4. m \in Int /\ n \in Int /\ n <= Len(s) /\ m >= 1
  BY <1>1, <1>2, <1>3
<1>5. \A j \in m .. n : s[j] \in S
  BY <1>1, <1>4, ElementOfSeq
<1>6. PICK p : p = Page(s, first)
  OBVIOUS
<1>7. p = SubSeq(s, m, n)
  BY <1>2, <1>3, <1>6 DEF Page
<1>8. /\ p \in Seq(S) /\ Len(p) = IF m <= n THEN n - m + 1 ELSE 0
      /\ \A j \in 1 .. n - m + 1 : p[j] = s[m + j - 1]
  BY <1>4, <1>5, <1>7, SubSeqProperties
<1>9. Len(p) = PageLength(Len(s), first)
  BY <1>1, <1>2, <1>3, <1>8 DEF PageLength
<1>10. ASSUME NEW j \in 1 .. PageLength(Len(s), first)
       PROVE  p[j] = s[first + j]
  <2>1. j \in Nat /\ j >= 1 /\ j <= PageLength(Len(s), first) /\ PageLength(Len(s), first) \in Nat
    BY <1>1 DEF PageLength
  <2>2. j \in 1 .. n - m + 1 /\ m + j - 1 = first + j
    BY <1>1, <1>2, <1>3, <2>1 DEF PageLength
  <2> QED
    BY <1>8, <2>2
<1> QED
  BY <1>6, <1>8, <1>9, <1>10 DEF Pages

LEMMA PageLengths ==
  ASSUME NEW n \in Nat, NEW first \in Nat
  PROVE  PageLength(n, first) \in Nat /\ PageLength(n, first) <= PageSize
  BY WindowsNumbers DEF PageLength

\* What is a page.
LEMMA PageEquals ==
  ASSUME NEW S, NEW t \in Seq(S), NEW s \in Seq(S), NEW first \in Nat,
         Len(t) = PageLength(Len(s), first),
         \A j \in 1 .. Len(t) : t[j] = s[first + j]
  PROVE  t = Page(s, first)
<1>1. PICK p : p = Page(s, first)
  OBVIOUS
<1>2. /\ p \in Seq(S) /\ Len(p) = PageLength(Len(s), first)
      /\ \A j \in 1 .. PageLength(Len(s), first) : p[j] = s[first + j]
  <2>1. Pages(S, p, s, first)
    BY <1>1, PageIs
  <2> QED
    BY <2>1 DEF Pages
<1>3. Len(t) = Len(p) /\ \A j \in 1 .. Len(t) : t[j] = p[j]
  BY <1>2
<1>4. t \in Seq(S)
  OBVIOUS
<1>5. t = p
  BY ONLY <1>2, <1>3, <1>4, SeqEqual
<1> QED
  BY <1>1, <1>5

\* What a client keeps of a list t that has grown.
LEMMA PageTrimmed ==
  ASSUME NEW S, NEW t \in Seq(S), NEW s \in Seq(S), NEW first \in Nat,
         PageLength(Len(t), 0) = PageLength(Len(s), first),
         \A j \in 1 .. Len(t) : j <= PageSize => t[j] = s[first + j]
  PROVE  Page(t, 0) = Page(s, first)
<1>1. PICK p : p = Page(t, 0)
  OBVIOUS
<1>2. /\ p \in Seq(S) /\ Len(p) = PageLength(Len(t), 0)
      /\ \A j \in 1 .. PageLength(Len(t), 0) : p[j] = t[0 + j]
  <2>1. Pages(S, p, t, 0)
    BY <1>1, PageIs
  <2> QED
    BY <2>1 DEF Pages
<1>3. Len(t) \in Nat
  BY LenProperties
<1>4. Len(p) = PageLength(Len(s), first)
  BY <1>2
<1>5. ASSUME NEW j \in 1 .. Len(p)
      PROVE  p[j] = s[first + j]
  <2>1. j \in Nat /\ j <= PageLength(Len(t), 0) /\ j >= 1
    BY <1>2, <1>3, PageLengths
  <2>2. 0 + j = j /\ j \in 1 .. Len(t) /\ j <= PageSize
    BY <1>3, <2>1, WindowsNumbers DEF PageLength
  <2>3. p[j] = t[0 + j]
    BY <1>2
  <2> QED
    BY <2>2, <2>3
<1>6. p \in Seq(S)
  BY <1>2
<1>7. p = Page(s, first)
  BY <1>4, <1>5, <1>6, PageEquals
<1> QED
  BY <1>1, <1>7

\* u is s with i in front of it, or behind it.
InFront(S, u, s, i) ==
    /\ u \in Seq(S) /\ Len(u) = Len(s) + 1 /\ u[1] = i
    /\ \A j \in 2 .. Len(s) + 1 : u[j] = s[j - 1]
Behind(S, u, s, i) ==
    /\ u \in Seq(S) /\ Len(u) = Len(s) + 1 /\ u[Len(s) + 1] = i
    /\ \A j \in 1 .. Len(s) : u[j] = s[j]

LEMMA FrontAndBack ==
  ASSUME NEW S, NEW s \in Seq(S), NEW i \in S
  PROVE  InFront(S, <<i>> \o s, s, i) /\ Behind(S, Append(s, i), s, i)
<1>1. PICK n \in Nat : n = Len(s)
  BY LenProperties
<1>2. PICK a : a = <<i>> \o s
  OBVIOUS
<1>3. a \in Seq(S) /\ Len(a) = n + 1 /\ a[1] = i
  BY <1>1, <1>2
<1>4. \A j \in 2 .. n + 1 : a[j] = s[j - 1]
  BY <1>1, <1>2
<1>5. InFront(S, a, s, i)
  BY <1>1, <1>3, <1>4 DEF InFront
<1>6. PICK b : b = Append(s, i)
  OBVIOUS
<1>7. b \in Seq(S) /\ Len(b) = n + 1 /\ b[n + 1] = i
  BY <1>1, <1>6
<1>8. \A j \in 1 .. n : b[j] = s[j]
  BY <1>1, <1>6
<1>9. Behind(S, b, s, i)
  BY <1>1, <1>7, <1>8 DEF Behind
<1> QED
  BY <1>2, <1>5, <1>6, <1>9

\* Something comes to the front of a container: a window on a later page gets
\* what was the last on the page before.
LEMMA FrontOfPage ==
  ASSUME NEW S, NEW s \in Seq(S), NEW i \in S, NEW first \in Nat, first <= Len(s),
         NEW u, InFront(S, u, s, i)
  PROVE  /\ u[first + 1] \in S
         /\ Page(InsertAt(Page(s, first), 1, u[first + 1]), 0) = Page(u, first)
<1>1. PICK n \in Nat : n = Len(s)
  BY LenProperties
<1>2. u \in Seq(S) /\ Len(u) = n + 1
  BY <1>1 DEF InFront
<1>3. \A j \in 2 .. n + 1 : u[j] = s[j - 1]
  BY <1>1 DEF InFront
<1>4. PICK x : x = u[first + 1]
  OBVIOUS
<1>5. x \in S
  <2>1. first + 1 \in 1 .. Len(u)
    BY <1>1, <1>2
  <2> QED
    BY <1>2, <1>4, <2>1, ElementOfSeq
<1>6. PICK p : p = Page(s, first)
  OBVIOUS
<1>7. PICK m \in Nat : m = PageLength(n, first)
  BY PageLengths
<1>8. p \in Seq(S) /\ Len(p) = m /\ \A j \in 1 .. m : p[j] = s[first + j]
  <2>1. Pages(S, p, s, first)
    BY <1>6, PageIs
  <2> QED
    BY <1>1, <1>7, <2>1 DEF Pages
<1>9. PICK t : t = InsertAt(p, 1, x)
  OBVIOUS
<1>10. /\ t \in Seq(S) /\ Len(t) = m + 1
       /\ \A j \in 1 .. m + 1 : t[j] = IF j < 1 THEN p[j] ELSE IF j = 1 THEN x ELSE p[j - 1]
  <2>1. 1 \in 1 .. Len(p) + 1 /\ p \in Seq(S) /\ Len(p) = m
    BY <1>8
  <2>2. Widens(S, t, p, 1, x)
    BY <1>5, <1>9, <2>1, PuttingInto
  <2> QED
    BY <2>1, <2>2 DEF Widens
<1>11. PageLength(Len(t), 0) = PageLength(Len(u), first)
  BY <1>1, <1>2, <1>7, <1>10, WindowsNumbers DEF PageLength
<1>12. ASSUME NEW j \in 1 .. Len(t), j <= PageSize
       PROVE  t[j] = u[first + j]
  <2>1. j \in Nat /\ j >= 1 /\ j <= m + 1
    BY <1>10
  <2>2. CASE j = 1
    BY <1>4, <1>10, <2>1, <2>2
  <2>3. CASE j > 1
    <3>1. j - 1 \in 1 .. m /\ j \in 1 .. m + 1 /\ first + (j - 1) = (first + j) - 1
      BY <2>1, <2>3
    <3>2. first + j \in 2 .. n + 1
      BY <1>1, <1>7, <2>1, <2>3, WindowsNumbers DEF PageLength
    <3>3. t[j] = p[j - 1]
      BY <1>10, <2>3, <3>1
    <3>4. p[j - 1] = s[first + (j - 1)]
      BY <1>8, <3>1
    <3> QED
      BY <1>3, <3>1, <3>2, <3>3, <3>4
  <2>4. j = 1 \/ j > 1
    BY <2>1
  <2> QED
    BY <2>2, <2>3, <2>4
<1>13. t \in Seq(S) /\ u \in Seq(S)
  BY <1>2, <1>10
<1>14. Page(t, 0) = Page(u, first)
  BY <1>11, <1>12, <1>13, PageTrimmed
<1> QED
  BY <1>4, <1>5, <1>6, <1>9, <1>14

\* Something comes to the back of the field: what is on the page stays, and a page
\* that is not full gets it; a full one is sent its last anew.
LEMMA BackOfPage ==
  ASSUME NEW S, NEW s \in Seq(S), NEW i \in S, NEW first \in Nat,
         NEW slot \in Nat, NEW u, Behind(S, u, s, i),
         \/ first <= Len(s) /\ Len(s) < first + PageSize /\ slot = Len(s) - first
         \/ Len(s) >= first + PageSize /\ slot = PageSize - 1
  PROVE  /\ slot \in 0 .. Len(Page(s, first)) /\ u[first + slot + 1] \in S
         /\ Page(InsertAt(Page(s, first), slot + 1, u[first + slot + 1]), 0) = Page(u, first)
<1>1. PICK n \in Nat : n = Len(s)
  BY LenProperties
<1>2. u \in Seq(S) /\ Len(u) = n + 1
  BY <1>1 DEF Behind
<1>3. \A j \in 1 .. n : u[j] = s[j]
  BY <1>1 DEF Behind
<1>4. PICK x : x = u[first + slot + 1]
  OBVIOUS
<1>5. x \in S
  <2>1. first + slot + 1 \in 1 .. Len(u)
    BY <1>1, <1>2, WindowsNumbers
  <2> QED
    BY <1>2, <1>4, <2>1, ElementOfSeq
<1>6. PICK p : p = Page(s, first)
  OBVIOUS
<1>7. PICK m \in Nat : m = PageLength(n, first)
  BY PageLengths
<1>8. p \in Seq(S) /\ Len(p) = m /\ \A j \in 1 .. m : p[j] = s[first + j]
  <2>1. Pages(S, p, s, first)
    BY <1>6, PageIs
  <2> QED
    BY <1>1, <1>7, <2>1 DEF Pages
<1>9. slot + 1 \in 1 .. m + 1
  BY <1>1, <1>7, WindowsNumbers DEF PageLength
<1>10. PICK t : t = InsertAt(p, slot + 1, x)
  OBVIOUS
<1>11. PICK k : k = slot + 1
  OBVIOUS
<1>12. /\ t \in Seq(S) /\ Len(t) = m + 1
       /\ \A j \in 1 .. m + 1 : t[j] = IF j < k THEN p[j] ELSE IF j = k THEN x ELSE p[j - 1]
  <2>1. k \in 1 .. Len(p) + 1 /\ p \in Seq(S) /\ Len(p) = m
    BY <1>8, <1>9, <1>11
  <2>2. Widens(S, t, p, k, x)
    BY <1>5, <1>10, <1>11, <2>1, PuttingInto
  <2> QED
    BY <2>1, <2>2 DEF Widens
<1>13. PageLength(Len(t), 0) = PageLength(Len(u), first)
  BY <1>1, <1>2, <1>7, <1>12, WindowsNumbers DEF PageLength
<1>14. ASSUME NEW j \in 1 .. Len(t), j <= PageSize
       PROVE  t[j] = u[first + j]
  <2>1. j \in Nat /\ j >= 1 /\ j <= m + 1 /\ k \in Nat
    BY <1>11, <1>12
  <2>2. CASE j = k
    <3>1. first + j = first + slot + 1 /\ ~(j < k)
      BY <1>11, <2>1, <2>2
    <3> QED
      BY <1>4, <1>12, <2>2, <3>1
  <2>3. CASE j < k
    <3>1. j \in 1 .. m /\ first + j \in 1 .. n
      BY <1>1, <1>7, <1>9, <1>11, <2>1, <2>3, WindowsNumbers DEF PageLength
    <3>2. t[j] = p[j] /\ p[j] = s[first + j]
      BY <1>8, <1>12, <2>3, <3>1
    <3> QED
      BY <1>3, <3>1, <3>2
  <2>4. k >= j
    <3>1. CASE slot = n - first /\ first <= n /\ n < first + PageSize
      <4>1. m = n - first
        BY <1>1, <1>7, <3>1, WindowsNumbers DEF PageLength
      <4> QED
        BY ONLY <1>11, <2>1, <3>1, <4>1, m \in Nat, n \in Nat, first \in Nat
    <3>2. CASE slot = PageSize - 1
      BY <1>11, <1>14, <2>1, <3>2, WindowsNumbers
    <3> QED
      BY <1>1, <3>1, <3>2
  <2>5. j < k \/ j = k
    BY <2>1, <2>4
  <2> QED
    BY <2>2, <2>3, <2>5
<1>15. t \in Seq(S) /\ u \in Seq(S)
  BY <1>2, <1>12
<1>16. Page(t, 0) = Page(u, first)
  BY <1>13, <1>14, <1>15, PageTrimmed
<1>17. slot \in 0 .. Len(p)
  BY <1>8, <1>9
<1> QED
  BY <1>4, <1>5, <1>6, <1>10, <1>16, <1>17

\* Something is taken out: the page moves up from there, if that is on the page or
\* before it, and gets the first of the next page.
LEMMA GoneFromPage ==
  ASSUME NEW S, NEW s \in Seq(S), NEW first \in Nat, NEW n \in 1 .. Len(s),
         NEW k \in Nat, k = (IF n - 1 < first THEN first ELSE n - 1) - first
  PROVE  LET p == Page(s, first)
             r == RemoveAt(p, k + 1)
             u == RemoveAt(s, n)
         IN  /\ k \notin 0 .. Len(p) - 1 => Page(u, first) = p
             /\ k \in 0 .. Len(p) - 1 =>
                  Page(u, first) = IF first + PageSize < Len(s)
                                   THEN Append(r, s[first + PageSize + 1]) ELSE r
<1>1. PICK l \in Nat : l = Len(s)
  BY LenProperties
<1>2. n \in Nat /\ n >= 1 /\ n <= l
  BY <1>1
<1>3. PICK p : p = Page(s, first)
  OBVIOUS
<1>4. PICK m \in Nat : m = PageLength(l, first)
  BY PageLengths
<1>5. p \in Seq(S) /\ Len(p) = m /\ \A j \in 1 .. m : p[j] = s[first + j]
  <2>1. Pages(S, p, s, first)
    BY <1>3, PageIs
  <2> QED
    BY <1>1, <1>4, <2>1 DEF Pages
<1>6. PICK u : u = RemoveAt(s, n)
  OBVIOUS
<1>7. /\ u \in Seq(S) /\ Len(u) = l - 1
      /\ \A j \in 1 .. l - 1 : u[j] = IF j < n THEN s[j] ELSE s[j + 1]
  <2>1. Narrows(S, u, s, n)
    BY <1>6, TakingFrom
  <2> QED
    BY <1>1, <2>1 DEF Narrows
<1>8. PICK z \in Nat : z = PageLength(l - 1, first)
  <2>1. l - 1 \in Nat
    BY <1>2
  <2> QED
    BY <2>1, PageLengths
<1>9. Len(u) \in Nat /\ PageLength(Len(u), first) = z
  BY <1>2, <1>7, <1>8
<1>10. k \notin 0 .. Len(p) - 1 => Page(u, first) = p
  <2> SUFFICES ASSUME k \notin 0 .. m - 1
               PROVE  Page(u, first) = p
    BY <1>5
  <2>1. k >= m
    OBVIOUS
  <2>2. z = m /\ (first + m < n \/ m = 0)
    BY <1>1, <1>2, <1>4, <1>8, <2>1, WindowsNumbers DEF PageLength
  <2>3. ASSUME NEW j \in 1 .. Len(p)
        PROVE  p[j] = u[first + j]
    <3>1. j \in Nat /\ j >= 1 /\ j <= m
      BY <1>5
    <3>2. first + j < n /\ first + j \in 1 .. l - 1
      BY <1>2, <2>2, <3>1
    <3>3. u[first + j] = s[first + j]
      BY <1>7, <3>2
    <3> QED
      BY <1>5, <3>1, <3>3
  <2>4. Len(p) = PageLength(Len(u), first)
    BY <1>5, <1>9, <2>2
  <2>5. p \in Seq(S) /\ u \in Seq(S)
    BY <1>5, <1>7
  <2> QED
    BY ONLY <2>3, <2>4, <2>5, first \in Nat, PageEquals
<1>11. k \in 0 .. Len(p) - 1 =>
          Page(u, first) = IF first + PageSize < Len(s)
                           THEN Append(RemoveAt(p, k + 1), s[first + PageSize + 1])
                           ELSE RemoveAt(p, k + 1)
  <2> SUFFICES ASSUME k \in 0 .. m - 1
               PROVE  Page(u, first) = IF first + PageSize < l
                                       THEN Append(RemoveAt(p, k + 1), s[first + PageSize + 1])
                                       ELSE RemoveAt(p, k + 1)
    BY <1>1, <1>5
  <2>1. PICK r : r = RemoveAt(p, k + 1)
    OBVIOUS
  <2>2. PICK q : q = k + 1
    OBVIOUS
  <2>3. q \in 1 .. m /\ q \in Nat /\ m >= 1
    BY <2>2
  <2>4. /\ r \in Seq(S) /\ Len(r) = m - 1
        /\ \A j \in 1 .. m - 1 : r[j] = IF j < q THEN p[j] ELSE p[j + 1]
    <3>1. q \in 1 .. Len(p) /\ p \in Seq(S)
      BY <1>5, <2>3
    <3>2. Narrows(S, r, p, q)
      BY <2>1, <2>2, <3>1, TakingFrom
    <3> QED
      BY <1>5, <3>2 DEF Narrows
  <2>5. /\ first + m <= l /\ first + q <= l /\ first + q >= n
        /\ n <= first \/ first + q = n
        /\ first + PageSize < l => m = PageSize /\ z = m
        /\ ~(first + PageSize < l) => z = m - 1
    <3>1. l > first /\ m = IF l < first + PageSize THEN l - first ELSE PageSize
      <4>1. m = (IF l <= first THEN 0
                 ELSE IF l < first + PageSize THEN l - first ELSE PageSize)
        BY <1>4 DEF PageLength
      <4>2. m # 0
        BY <2>3
      <4>3. ~(l <= first)
        BY <4>1, <4>2
      <4> QED
        BY <4>1, <4>3
    <3>2. z = IF l - 1 <= first THEN 0 ELSE IF l - 1 < first + PageSize THEN l - 1 - first ELSE PageSize
      BY <1>8 DEF PageLength
    <3>3. /\ n - 1 < first => q = 1
          /\ ~(n - 1 < first) => first + q = n
      BY <1>2, <2>2
    <3> QED
      BY <1>2, <2>3, <3>1, <3>2, <3>3, WindowsNumbers
  <2>6. ASSUME NEW j \in 1 .. m - 1
        PROVE  r[j] = u[first + j]
    <3>1. j \in Nat /\ j >= 1 /\ j <= m - 1
      BY <2>3
    <3>2. first + j \in 1 .. l - 1 /\ (first + j) + 1 = first + (j + 1)
      BY <2>5, <3>1
    <3>3. u[first + j] = IF first + j < n THEN s[first + j] ELSE s[first + (j + 1)]
      BY <1>7, <3>2
    <3>4. p[j] = s[first + j] /\ p[j + 1] = s[first + (j + 1)]
      BY <1>5, <3>1
    <3>5. r[j] = IF j < q THEN p[j] ELSE p[j + 1]
      BY <2>4
    <3>6. j < q <=> first + j < n
      BY <1>2, <2>2, <2>3, <2>5, <3>1
    <3> QED
      BY <3>3, <3>4, <3>5, <3>6
  <2>7. CASE first + PageSize < l
    <3>1. PICK x : x = s[first + PageSize + 1]
      OBVIOUS
    <3>2. first + PageSize + 1 \in 1 .. Len(s)
      BY <1>1, <2>7, WindowsNumbers
    <3>3. x \in S
      BY <3>1, <3>2, ElementOfSeq
    <3>4. PICK t : t = Append(r, x)
      OBVIOUS
    <3>5. PICK h : h = m - 1
      OBVIOUS
    <3>6. h \in Nat /\ h + 1 = m /\ Len(r) = h /\ r \in Seq(S)
      BY <2>3, <2>4, <3>5
    <3>7. t \in Seq(S) /\ Len(t) = h + 1
      BY ONLY <3>3, <3>4, <3>6
    <3>8. (\A j \in 1 .. h : t[j] = r[j]) /\ t[h + 1] = x
      BY ONLY <3>3, <3>4, <3>6
    <3>9. ASSUME NEW j \in 1 .. Len(t)
          PROVE  t[j] = u[first + j]
      <4>1. j \in 1 .. m
        BY <3>6, <3>7
      <4>2. CASE j \in 1 .. m - 1
        BY <2>6, <3>5, <3>8, <4>2
      <4>3. CASE j = m
        <5>1. first + j \in 1 .. l - 1 /\ ~(first + j < n) /\ (first + j) + 1 = first + PageSize + 1
          BY <1>2, <2>3, <2>5, <2>7, <4>3, WindowsNumbers
        <5>2. u[first + j] = s[first + PageSize + 1]
          BY <1>7, <5>1
        <5>3. t[j] = x
          BY <3>6, <3>8, <4>3
        <5> QED
          BY <3>1, <5>2, <5>3
      <4>4. j \in 1 .. m - 1 \/ j = m
        BY <2>3, <4>1
      <4> QED
        BY <4>2, <4>3, <4>4
    <3>10. Len(t) = PageLength(Len(u), first)
      BY <1>9, <2>5, <2>7, <3>6, <3>7
    <3>11. u \in Seq(S)
      BY <1>7
    <3>12. t = Page(u, first)
      BY ONLY <3>7, <3>9, <3>10, <3>11, first \in Nat, PageEquals
    <3> QED
      BY <2>1, <2>7, <3>1, <3>4, <3>12
  <2>8. CASE ~(first + PageSize < l)
    <3>1. Len(r) = PageLength(Len(u), first)
      BY <1>9, <2>4, <2>5, <2>8
    <3>2. \A j \in 1 .. Len(r) : r[j] = u[first + j]
      BY <2>4, <2>6
    <3>3. r \in Seq(S) /\ u \in Seq(S)
      BY <1>7, <2>4
    <3>4. r = Page(u, first)
      BY ONLY <3>1, <3>2, <3>3, first \in Nat, PageEquals
    <3> QED
      BY <2>1, <2>8, <3>4
  <2> QED
    BY <2>7, <2>8
<1> QED
  BY <1>3, <1>6, <1>10, <1>11

\* Something becomes something else.
Changed(s, n, e) == [s EXCEPT ![n] = e]
LEMMA ChangedOnPage ==
  ASSUME NEW S, NEW s \in Seq(S), NEW first \in Nat, NEW n \in 1 .. Len(s), NEW e \in S,
         NEW k, k = n - 1 - first
  PROVE  /\ k \notin 0 .. Len(Page(s, first)) - 1 => Page(Changed(s, n, e), first) = Page(s, first)
         /\ k \in 0 .. Len(Page(s, first)) - 1 =>
              Page(Changed(s, n, e), first) = Changed(Page(s, first), k + 1, e)
<1>1. PICK l \in Nat : l = Len(s)
  BY LenProperties
<1>2. n \in Nat /\ n >= 1 /\ n <= l
  BY <1>1
<1>3. PICK p : p = Page(s, first)
  OBVIOUS
<1>4. PICK m \in Nat : m = PageLength(l, first)
  BY PageLengths
<1>5. p \in Seq(S) /\ Len(p) = m /\ \A j \in 1 .. m : p[j] = s[first + j]
  <2>1. Pages(S, p, s, first)
    BY <1>3, PageIs
  <2> QED
    BY <1>1, <1>4, <2>1 DEF Pages
<1>6. PICK u : u = Changed(s, n, e)
  OBVIOUS
<1>7. /\ u \in Seq(S) /\ Len(u) = l
      /\ \A j \in 1 .. l : u[j] = IF j = n THEN e ELSE s[j]
  BY <1>1, <1>6, ExceptSeq DEF Changed
<1>8. Len(p) = PageLength(Len(u), first)
  BY <1>4, <1>5, <1>7
<1>9. \A j \in 1 .. m : first + j \in 1 .. l
  BY <1>4, WindowsNumbers DEF PageLength
<1>11. k \in Int /\ n = first + (k + 1)
  BY <1>2
<1>12. k \notin 0 .. Len(p) - 1 => Page(u, first) = p
  <2> SUFFICES ASSUME k \notin 0 .. m - 1
               PROVE  Page(u, first) = p
    BY <1>5
  <2>1. ASSUME NEW j \in 1 .. Len(p)
        PROVE  p[j] = u[first + j]
    <3>1. j \in 1 .. m
      BY <1>5
    <3>2. first + j # n
      BY <1>11, <3>1
    <3> QED
      BY <1>5, <1>7, <1>9, <3>1, <3>2
  <2>2. p \in Seq(S) /\ u \in Seq(S)
    BY <1>5, <1>7
  <2> QED
    BY ONLY <1>8, <2>1, <2>2, first \in Nat, PageEquals
<1>13. k \in 0 .. Len(p) - 1 => Page(u, first) = Changed(p, k + 1, e)
  <2> SUFFICES ASSUME k \in 0 .. m - 1
               PROVE  Page(u, first) = Changed(p, k + 1, e)
    BY <1>5
  <2>1. PICK t : t = Changed(p, k + 1, e)
    OBVIOUS
  <2>2. PICK q : q = k + 1
    OBVIOUS
  <2>3. q \in 1 .. Len(p) /\ p \in Seq(S)
    BY <1>5, <2>2
  <2>4. t = [p EXCEPT ![q] = e]
    BY <2>1, <2>2 DEF Changed
  <2>5. /\ t \in Seq(S) /\ Len(t) = Len(p)
        /\ \A j \in 1 .. Len(p) : t[j] = IF j = q THEN e ELSE p[j]
    BY <2>3, <2>4, ExceptSeq
  <2>6. ASSUME NEW j \in 1 .. Len(t)
        PROVE  t[j] = u[first + j]
    <3>1. j \in 1 .. m
      BY <1>5, <2>5
    <3>2. j = q <=> first + j = n
      BY <1>11, <2>2, <3>1
    <3> QED
      BY <1>5, <1>7, <1>9, <2>5, <3>1, <3>2
  <2>7. t \in Seq(S) /\ u \in Seq(S) /\ Len(t) = PageLength(Len(u), first)
    BY <1>7, <1>8, <2>5
  <2>8. t = Page(u, first)
    BY ONLY <2>6, <2>7, first \in Nat, PageEquals
  <2> QED
    BY <2>1, <2>8
<1> QED
  BY <1>3, <1>6, <1>12, <1>13

-----------------------------------------------------------------------------
(* The windows: what a step record is, and when its windows fit.            *)

\* Where pages begin.
PageStart == {m * PageSize : m \in Nat}

LEMMA PageStarts ==
  /\ PageStart \subseteq Nat /\ 0 \in PageStart
  /\ \A x \in PageStart : x > 0 => x >= PageSize /\ x - PageSize \in PageStart
  /\ \A x \in Nat : x % PageSize = 0 => x \in PageStart
<1>1. PageSize \in Nat /\ PageSize > 0
  BY WindowsNumbers
<1>2. ASSUME NEW x \in PageStart
      PROVE  x \in Nat /\ (x > 0 => x >= PageSize /\ x - PageSize \in PageStart)
  <2>1. PICK m \in Nat : x = m * PageSize
    BY DEF PageStart
  <2>2. x \in Nat
    BY <1>1, <2>1
  <2>3. ASSUME x > 0
        PROVE  x >= PageSize /\ x - PageSize \in PageStart
    <3>1. m # 0
      BY <1>1, <2>1, <2>3
    <3>2. PICK h \in Nat : m = h + 1
      <4>1. m - 1 \in Nat /\ m = (m - 1) + 1
        BY <3>1
      <4> QED
        BY <4>1
    <3>3. x = h * PageSize + PageSize /\ h * PageSize \in Nat
      BY <1>1, <2>1, <3>2
    <3>4. x >= PageSize /\ x - PageSize = h * PageSize
      BY <1>1, <3>3
    <3> QED
      BY <3>4 DEF PageStart
  <2> QED
    BY <2>2, <2>3
<1>3. 0 \in PageStart
  <2>1. 0 = 0 * PageSize
    BY <1>1
  <2> QED
    BY <2>1 DEF PageStart
<1>4. ASSUME NEW x \in Nat, x % PageSize = 0
      PROVE  x \in PageStart
  <2>1. x \div PageSize \in Nat /\ x = PageSize * (x \div PageSize) + (x % PageSize)
    BY <1>1
  <2>2. PICK h \in Nat : h = x \div PageSize
    BY <2>1
  <2>3. x = h * PageSize
    BY <1>1, <1>4, <2>1, <2>2
  <2> QED
    BY <2>3 DEF PageStart
<1> QED
  BY <1>2, <1>3, <1>4

Contents == [Kept -> Seq(Content)]
OpenWindow == [container : Kept, index : PageStart]
ClientWindow == [first : Nat, sure : BOOLEAN, list : Seq(Content)]
WindowStep ==
    [in : Contents, open : [Cid -> OpenWindow \cup {None}],
     shown : [Cid -> ClientWindow \cup {None}], refs : Int]

\* A window w of the client fits one of the server, o.
Fits(in, o, w) ==
    w # None =>
        /\ o # None /\ w.first = o.index /\ Len(w.list) <= PageSize
        /\ w.sure => w.list = Page(in[o.container], o.index)

\* ... and all do but those of C.
SoundBut(s, C) ==
    /\ s \in WindowStep
    /\ \A cid \in Cid : cid \notin C => Fits(s.in, s.open[cid], s.shown[cid])

\* References to the field that no window accounts for.
OtherRefs(s) == s.refs - Cardinality(WindowsOn(s, "field"))

LEMMA OpenIsSomething == None \notin OpenWindow
<1>1. OpenWindow \subseteq [container : {"box", "chest", "field"}, index : Nat]
  BY PageStarts DEF OpenWindow, Kept
<1> QED
  BY <1>1, WindowsAssumption

LEMMA StepFields ==
  ASSUME NEW s \in WindowStep
  PROVE  /\ s.in \in Contents /\ s.open \in [Cid -> OpenWindow \cup {None}]
         /\ s.shown \in [Cid -> ClientWindow \cup {None}] /\ s.refs \in Int
  BY DEF WindowStep

LEMMA WindowsCounted ==
  ASSUME NEW s, NEW k
  PROVE  /\ WindowsOn(s, k) \subseteq Cid /\ IsFiniteSet(WindowsOn(s, k))
         /\ Cardinality(WindowsOn(s, k)) \in 0 .. LastCid + 1
<1>1. IsFiniteSet(Cid) /\ Cardinality(Cid) = LastCid + 1
  <2>1. 0 \in Int /\ LastCid \in Int /\ LastCid >= 0
    BY WindowsNumbers
  <2>2. IsFiniteSet(0..LastCid) /\ Cardinality(0..LastCid) = LastCid - 0 + 1
    BY <2>1, FS_Interval
  <2> QED
    BY <2>1, <2>2 DEF Cid
<1>2. WindowsOn(s, k) \subseteq Cid
  BY DEF WindowsOn
<1>3. /\ IsFiniteSet(WindowsOn(s, k))
      /\ Cardinality(WindowsOn(s, k)) <= Cardinality(Cid)
  BY <1>1, <1>2, FS_Subset
<1>4. Cardinality(WindowsOn(s, k)) \in Nat
  BY <1>3, FS_CardinalityType
<1> QED
  BY <1>1, <1>2, <1>3, <1>4, WindowsNumbers

\* The page that the server has for a window fits it.
LEMMA PageFits ==
  ASSUME NEW s \in WindowStep, NEW cid \in Cid, s.open[cid] # None
  PROVE  PageOf(s, cid) \in ClientWindow /\ Fits(s.in, s.open[cid], PageOf(s, cid))
<1>1. PICK o \in OpenWindow : o = s.open[cid]
  BY StepFields
<1>2. o.container \in Kept /\ o.index \in Nat
  BY PageStarts DEF OpenWindow
<1>3. PICK l \in Seq(Content) : l = s.in[o.container]
  BY <1>2, StepFields DEF Contents
<1>4. PICK p : p = Page(l, o.index)
  OBVIOUS
<1>5. p \in Seq(Content) /\ Len(p) <= PageSize
  <2>1. Pages(Content, p, l, o.index)
    BY <1>2, <1>4, PageIs
  <2>2. Len(l) \in Nat
    BY LenProperties
  <2>3. PageLength(Len(l), o.index) <= PageSize
    BY <1>2, <2>2, PageLengths
  <2> QED
    BY <2>1, <2>3 DEF Pages
<1>6. PageOf(s, cid) = [first |-> o.index, sure |-> TRUE, list |-> p]
  BY <1>1, <1>3, <1>4 DEF PageOf
<1>7. PageOf(s, cid) \in ClientWindow
  BY <1>2, <1>5, <1>6 DEF ClientWindow
<1>8. Fits(s.in, o, PageOf(s, cid))
  BY <1>1, <1>3, <1>4, <1>5, <1>6 DEF Fits
<1> QED
  BY <1>1, <1>7, <1>8

\* What changes of a step record.
LEMMA WindowsShown ==
  ASSUME NEW s \in WindowStep, NEW f \in [Cid -> ClientWindow \cup {None}],
         NEW t, t = [s EXCEPT !.shown = f]
  PROVE  /\ t \in WindowStep /\ t.in = s.in /\ t.open = s.open /\ t.refs = s.refs /\ t.shown = f
         /\ \A k : WindowsOn(t, k) = WindowsOn(s, k)
         /\ OtherRefs(t) = OtherRefs(s)
<1>1. t \in WindowStep /\ t.in = s.in /\ t.open = s.open /\ t.refs = s.refs /\ t.shown = f
  BY DEF WindowStep
<1>2. \A k : WindowsOn(t, k) = WindowsOn(s, k)
  BY <1>1 DEF WindowsOn, HasOpen
<1> QED
  BY <1>1, <1>2 DEF OtherRefs

\* A window is shown, once, and nothing else changes.
Showing(t, s, C, cid) ==
    /\ SoundBut(t, C \ {cid})
    /\ t.in = s.in /\ t.open = s.open /\ t.refs = s.refs
    /\ \A c \in Cid : t.shown[c] # None => s.shown[c] # None \/ attached
    /\ OtherRefs(t) = OtherRefs(s)

LEMMA OpeningShows ==
  ASSUME NEW s, NEW C, SoundBut(s, C), NEW cid \in Cid, s.open[cid] # None,
         attached \/ s.shown[cid] = None,
         NEW t, t = Opened(s, cid)
  PROVE  Showing(t, s, C, cid)
<1>1. s \in WindowStep
  BY DEF SoundBut
<1>2. CASE attached
  <2>1. PICK f : f = [s.shown EXCEPT ![cid] = PageOf(s, cid)]
    OBVIOUS
  <2>2. f \in [Cid -> ClientWindow \cup {None}]
    BY <1>1, <2>1, PageFits, StepFields
  <2>3. t = [s EXCEPT !.shown = f]
    BY <1>2, <2>1 DEF Opened
  <2>4. /\ t \in WindowStep /\ t.in = s.in /\ t.open = s.open /\ t.refs = s.refs /\ t.shown = f
        /\ OtherRefs(t) = OtherRefs(s)
    BY <1>1, <2>2, <2>3, WindowsShown
  <2>5. ASSUME NEW c \in Cid, c \notin C \ {cid}
        PROVE  Fits(t.in, t.open[c], t.shown[c])
    <3>1. CASE c = cid
      <4>1. f[c] = PageOf(s, cid)
        BY <1>1, <2>1, <3>1, StepFields
      <4> QED
        BY <1>1, <2>4, <3>1, <4>1, PageFits
    <3>2. CASE c # cid
      <4>1. f[c] = s.shown[c] /\ c \notin C
        BY <1>1, <2>1, <2>5, <3>2, StepFields
      <4> QED
        BY <2>4, <4>1 DEF SoundBut
    <3> QED
      BY <3>1, <3>2
  <2>6. SoundBut(t, C \ {cid})
    BY <2>4, <2>5 DEF SoundBut
  <2> QED
    BY <1>2, <2>4, <2>6 DEF Showing
<1>3. CASE ~attached
  <2>1. t = s
    BY <1>3 DEF Opened
  <2>2. Fits(s.in, s.open[cid], s.shown[cid])
    BY <1>3 DEF Fits
  <2>3. SoundBut(t, C \ {cid})
    BY <2>1, <2>2 DEF SoundBut
  <2> QED
    BY <2>1, <2>3 DEF Showing
<1> QED
  BY <1>2, <1>3

LEMMA ShuttingShows ==
  ASSUME NEW s, NEW C, SoundBut(s, C), NEW D, NEW t, t = Shut(s, D)
  PROVE  /\ SoundBut(t, C \ D)
         /\ t.in = s.in /\ t.open = s.open /\ t.refs = s.refs
         /\ \A c \in Cid : t.shown[c] # None => s.shown[c] # None
         /\ \A c \in Cid \cap D : t.shown[c] = None
         /\ \A k : WindowsOn(t, k) = WindowsOn(s, k)
         /\ OtherRefs(t) = OtherRefs(s)
<1>1. s \in WindowStep
  BY DEF SoundBut
<1>2. PICK f : f = [c \in Cid |-> IF c \in D THEN None ELSE s.shown[c]]
  OBVIOUS
<1>3. f \in [Cid -> ClientWindow \cup {None}]
  BY <1>1, <1>2, StepFields
<1>4. t = [s EXCEPT !.shown = f]
  BY <1>2 DEF Shut
<1>5. /\ t \in WindowStep /\ t.in = s.in /\ t.open = s.open /\ t.refs = s.refs /\ t.shown = f
      /\ \A k : WindowsOn(t, k) = WindowsOn(s, k)
      /\ OtherRefs(t) = OtherRefs(s)
  BY <1>1, <1>3, <1>4, WindowsShown
<1>6. ASSUME NEW c \in Cid, c \notin C \ D
      PROVE  Fits(t.in, t.open[c], t.shown[c])
  <2>1. CASE c \in D
    BY <1>2, <1>5, <2>1 DEF Fits
  <2>2. CASE c \notin D
    <3>1. t.shown[c] = s.shown[c] /\ c \notin C
      BY <1>2, <1>5, <1>6, <2>2
    <3> QED
      BY <1>5, <3>1 DEF SoundBut
  <2> QED
    BY <2>1, <2>2
<1>7. SoundBut(t, C \ D)
  BY <1>5, <1>6 DEF SoundBut
<1>8. /\ \A c \in Cid : t.shown[c] # None => s.shown[c] # None
      /\ \A c \in Cid \cap D : t.shown[c] = None
  BY <1>2, <1>5
<1> QED
  BY <1>5, <1>7, <1>8

LEMMA ClosingCloses ==
  ASSUME NEW s, NEW C, SoundBut(s, C), NEW D, NEW t, t = Closed(s, D)
  PROVE  /\ SoundBut(t, C \cup D)
         /\ t.in = s.in /\ t.shown = s.shown
         /\ \A c \in Cid : t.open[c] = IF c \in D THEN None ELSE s.open[c]
         /\ OtherRefs(t) = OtherRefs(s)
<1>1. s \in WindowStep
  BY DEF SoundBut
<1>2. PICK f : f = [c \in Cid |-> IF c \in D THEN None ELSE s.open[c]]
  OBVIOUS
<1>3. f \in [Cid -> OpenWindow \cup {None}]
  BY <1>1, <1>2, StepFields
<1>4. PICK W : W = WindowsOn(s, "field")
  OBVIOUS
<1>5. /\ W \subseteq Cid /\ IsFiniteSet(W) /\ Cardinality(W) \in Int
      /\ IsFiniteSet(W \cap D) /\ Cardinality(W \cap D) \in Int
  <2>1. W \subseteq Cid /\ IsFiniteSet(W) /\ Cardinality(W) \in 0 .. LastCid + 1
    BY <1>4, WindowsCounted
  <2>2. W \cap D \in SUBSET W
    OBVIOUS
  <2>3. IsFiniteSet(W \cap D)
    BY <2>1, <2>2, FS_Subset
  <2>4. Cardinality(W \cap D) \in Nat
    BY <2>3, FS_CardinalityType
  <2> QED
    BY <2>1, <2>3, <2>4
<1>6. FieldRefs(s, D) = Cardinality(W \cap D)
  <2>1. D \cap W = W \cap D
    OBVIOUS
  <2> QED
    BY <1>4, <2>1 DEF FieldRefs
<1>7. PICK n : n = Cardinality(W \cap D)
  OBVIOUS
<1>8. /\ t \in WindowStep /\ t.in = s.in /\ t.shown = s.shown /\ t.open = f
      /\ t.refs = s.refs - n
  <2>1. PICK m : m = s.refs - n
    OBVIOUS
  <2>2. m \in Int
    BY <1>1, <1>5, <1>7, <2>1, StepFields
  <2>3. PICK a : a = [s EXCEPT !.refs = m]
    OBVIOUS
  <2>4. a \in WindowStep /\ a.in = s.in /\ a.shown = s.shown /\ a.refs = m
    BY <1>1, <2>2, <2>3 DEF WindowStep
  <2>5. t = [a EXCEPT !.open = f]
    BY <1>2, <1>6, <1>7, <2>1, <2>3 DEF Closed
  <2>6. t \in WindowStep /\ t.in = a.in /\ t.shown = a.shown /\ t.open = f /\ t.refs = a.refs
    BY <1>3, <2>4, <2>5 DEF WindowStep
  <2> QED
    BY <2>1, <2>4, <2>6
<1>9. WindowsOn(t, "field") = W \ D
  <2>1. \A c \in Cid : HasOpen(t, c, "field") <=> HasOpen(s, c, "field") /\ c \notin D
    BY <1>2, <1>8 DEF HasOpen
  <2> QED
    BY <1>4, <2>1 DEF WindowsOn
<1>10. Cardinality(W \ D) = Cardinality(W) - Cardinality(W \cap D)
  BY <1>5, FS_Difference
<1>11. OtherRefs(t) = OtherRefs(s)
  <2>1. s.refs \in Int
    BY <1>1, StepFields
  <2> QED
    <3>1. Cardinality(WindowsOn(t, "field")) = Cardinality(W) - n
      BY <1>7, <1>9, <1>10
    <3>2. OtherRefs(t) = s.refs - n - (Cardinality(W) - n)
      BY <1>8, <3>1 DEF OtherRefs
    <3>3. OtherRefs(s) = s.refs - Cardinality(W)
      BY <1>4 DEF OtherRefs
    <3>4. Cardinality(W) \in Int /\ n \in Int
      BY <1>5, <1>7
    <3> QED
      BY <2>1, <3>2, <3>3, <3>4
<1>12. ASSUME NEW c \in Cid, c \notin C \cup D
       PROVE  Fits(t.in, t.open[c], t.shown[c])
  <2>1. t.open[c] = s.open[c] /\ c \notin C
    BY <1>2, <1>8, <1>12
  <2> QED
    BY <1>8, <2>1 DEF SoundBut
<1>13. \A c \in Cid : t.open[c] = IF c \in D THEN None ELSE s.open[c]
  BY <1>2, <1>8
<1> QED
  BY <1>8, <1>11, <1>12, <1>13 DEF SoundBut

\* Window cid of y is on k, and the others are as in s.
Opens(y, s, cid, k) ==
    /\ y.in = s.in /\ y.shown = s.shown
    /\ y.open[cid] # None /\ HasOpen(y, cid, k) /\ y.open[cid].container = k
    /\ \A c \in Cid : c # cid => y.open[c] = s.open[c]
    /\ OtherRefs(y) = OtherRefs(s)

LEMMA AddingOpens ==
  ASSUME NEW s, NEW C, SoundBut(s, C), NEW cid \in Cid, NEW k \in Kept,
         NEW t, t = ContainerAdded(s, cid, k)
  PROVE  SoundBut(t, C \cup {cid}) /\ Opens(t, s, cid, k)
<1>1. s \in WindowStep
  BY DEF SoundBut
<1>2. PICK o : o = [container |-> k, index |-> 0]
  OBVIOUS
<1>3. o \in OpenWindow /\ o.container = k
  BY <1>2, PageStarts DEF OpenWindow
<1>4. o # None
  BY <1>3, OpenIsSomething
<1>5. PICK f : f = [s.open EXCEPT ![cid] = o]
  OBVIOUS
<1>6. /\ f \in [Cid -> OpenWindow \cup {None}] /\ f[cid] = o
      /\ \A c \in Cid : c # cid => f[c] = s.open[c]
  BY <1>1, <1>3, <1>5, StepFields
<1>7. PICK W : W = WindowsOn(s, "field")
  OBVIOUS
<1>8. W \subseteq Cid /\ IsFiniteSet(W) /\ Cardinality(W) \in Int
  BY <1>7, WindowsCounted
<1>9. PICK n : n = FieldRefs(s, {cid})
  OBVIOUS
<1>10. n = IF cid \in W THEN 1 ELSE 0
  <2>1. n = Cardinality({cid} \cap W)
    BY <1>7, <1>9 DEF FieldRefs
  <2>2. CASE cid \in W
    <3>1. {cid} \cap W = {cid}
      BY <2>2
    <3>2. Cardinality({cid}) = 1
      BY FS_Singleton
    <3> QED
      BY <2>1, <2>2, <3>1, <3>2
  <2>3. CASE cid \notin W
    <3>1. {cid} \cap W = {}
      BY <2>3
    <3> QED
      BY <2>1, <2>3, <3>1, FS_EmptySet
  <2> QED
    BY <2>2, <2>3
<1>11. PICK g : g = IF k = "field" THEN 1 ELSE 0
  OBVIOUS
<1>12. t = [s EXCEPT !.refs = @ + g - n, !.open = f]
  BY <1>2, <1>5, <1>9, <1>11 DEF ContainerAdded
<1>13. /\ t \in WindowStep /\ t.in = s.in /\ t.shown = s.shown /\ t.open = f
       /\ t.refs = s.refs + g - n
  <2>1. PICK m : m = s.refs + g - n
    OBVIOUS
  <2>2. m \in Int
    BY <1>1, <1>10, <1>11, <2>1, StepFields
  <2>3. PICK a : a = [s EXCEPT !.refs = m]
    OBVIOUS
  <2>4. a \in WindowStep /\ a.in = s.in /\ a.shown = s.shown /\ a.refs = m
    BY <1>1, <2>2, <2>3 DEF WindowStep
  <2>5. t = [a EXCEPT !.open = f]
    BY <1>12, <2>1, <2>3
  <2>6. t \in WindowStep /\ t.in = a.in /\ t.shown = a.shown /\ t.open = f /\ t.refs = a.refs
    BY <1>6, <2>4, <2>5 DEF WindowStep
  <2> QED
    BY <2>1, <2>4, <2>6
<1>14. HasOpen(t, cid, k)
  BY <1>3, <1>4, <1>6, <1>13 DEF HasOpen
<1>15. WindowsOn(t, "field") = (W \ {cid}) \cup (IF k = "field" THEN {cid} ELSE {})
  <2>1. \A c \in Cid : c # cid => (HasOpen(t, c, "field") <=> HasOpen(s, c, "field"))
    BY <1>6, <1>13 DEF HasOpen
  <2>2. HasOpen(t, cid, "field") <=> k = "field"
    BY <1>3, <1>4, <1>6, <1>13 DEF HasOpen
  <2> QED
    BY <1>7, <2>1, <2>2 DEF WindowsOn
<1>16. PICK V : V = W \ {cid}
  OBVIOUS
<1>17. IsFiniteSet(V) /\ Cardinality(V) = Cardinality(W) - n /\ cid \notin V
  <2>1. /\ IsFiniteSet(W \ {cid})
        /\ Cardinality(W \ {cid}) = IF cid \in W THEN Cardinality(W) - 1 ELSE Cardinality(W)
    BY <1>8, FS_RemoveElement
  <2> QED
    BY <1>8, <1>10, <1>16, <2>1
<1>18. Cardinality(WindowsOn(t, "field")) = Cardinality(W) - n + g
  <2>1. CASE k = "field"
    <3>1. Cardinality(V \cup {cid}) = Cardinality(V) + 1
      BY <1>17, FS_AddElement
    <3>2. WindowsOn(t, "field") = V \cup {cid}
      BY <1>15, <1>16, <2>1
    <3> QED
      BY <1>11, <1>17, <2>1, <3>1, <3>2
  <2>2. CASE k # "field"
    <3>1. WindowsOn(t, "field") = V
      BY <1>15, <1>16, <2>2
    <3> QED
      BY <1>8, <1>10, <1>11, <1>17, <2>2, <3>1
  <2> QED
    BY <2>1, <2>2
<1>19. OtherRefs(t) = OtherRefs(s)
  <2>1. s.refs \in Int /\ n \in Int /\ g \in Int
    BY <1>1, <1>10, <1>11, StepFields
  <2> QED
    BY <1>7, <1>8, <1>13, <1>18, <2>1 DEF OtherRefs
<1>20. ASSUME NEW c \in Cid, c \notin C \cup {cid}
       PROVE  Fits(t.in, t.open[c], t.shown[c])
  <2>1. t.open[c] = s.open[c] /\ c \notin C
    BY <1>6, <1>13, <1>20
  <2> QED
    BY <1>13, <2>1 DEF SoundBut
<1>21. SoundBut(t, C \cup {cid})
  BY <1>13, <1>20 DEF SoundBut
<1>22. t.open[cid] # None /\ t.open[cid].container = k
  BY <1>3, <1>4, <1>6, <1>13
<1> QED
  BY <1>6, <1>13, <1>14, <1>19, <1>21, <1>22 DEF Opens

\* All windows on k are sent their page.
LEMMA SendingAll ==
  ASSUME NEW s, NEW k, NEW C \in SUBSET WindowsOn(s, k), SoundBut(s, C),
         attached \/ \A c \in Cid : s.shown[c] = None,
         NEW t, t = SendAll(s, k)
  PROVE  /\ SoundBut(t, {})
         /\ t.in = s.in /\ t.open = s.open
         /\ \A c \in Cid : t.shown[c] # None => s.shown[c] # None \/ attached
         /\ OtherRefs(t) = OtherRefs(s)
<1>1. s \in WindowStep
  BY DEF SoundBut
<1>2. CASE attached
  <2>1. PICK f : f = [c \in Cid |-> IF HasOpen(s, c, k) THEN PageOf(s, c) ELSE s.shown[c]]
    OBVIOUS
  <2>2. ASSUME NEW c \in Cid, HasOpen(s, c, k)
        PROVE  f[c] \in ClientWindow /\ Fits(s.in, s.open[c], f[c])
    <3>1. s.open[c] # None /\ f[c] = PageOf(s, c)
      BY <2>1, <2>2 DEF HasOpen
    <3> QED
      BY <1>1, <3>1, PageFits
  <2>3. ASSUME NEW c \in Cid, ~HasOpen(s, c, k)
        PROVE  f[c] \in ClientWindow \cup {None} /\ Fits(s.in, s.open[c], f[c])
    <3>1. f[c] = s.shown[c] /\ c \notin C
      BY <2>1, <2>3 DEF WindowsOn
    <3> QED
      BY <1>1, <3>1, StepFields DEF SoundBut
  <2>4. f \in [Cid -> ClientWindow \cup {None}]
    BY <2>1, <2>2, <2>3
  <2>5. t = [s EXCEPT !.shown = f]
    BY <1>2, <2>1 DEF SendAll, Tell
  <2>6. /\ t \in WindowStep /\ t.in = s.in /\ t.open = s.open /\ t.shown = f
        /\ OtherRefs(t) = OtherRefs(s)
    BY <1>1, <2>4, <2>5, WindowsShown
  <2>7. \A c \in Cid : Fits(t.in, t.open[c], t.shown[c])
    BY <2>2, <2>3, <2>6
  <2> QED
    BY <1>2, <2>6, <2>7 DEF SoundBut
<1>3. CASE ~attached
  <2>1. t = s
    BY <1>3 DEF SendAll
  <2>2. \A c \in Cid : Fits(s.in, s.open[c], s.shown[c])
    BY <1>3 DEF Fits
  <2> QED
    BY <2>1, <2>2 DEF SoundBut
<1> QED
  BY <1>2, <1>3

\* Those of which the client has no window fit.
LEMMA UnseenFit ==
  ASSUME NEW s, NEW C, SoundBut(s, C), \A c \in Cid \cap C : s.shown[c] = None
  PROVE  SoundBut(s, {})
  BY DEF SoundBut, Fits

LEMMA ClosingAll ==
  ASSUME NEW s, SoundBut(s, {}), NEW k,
         attached \/ \A c \in Cid : s.shown[c] = None,
         NEW t, t = CloseAll(s, k)
  PROVE  /\ SoundBut(t, {})
         /\ t.in = s.in /\ t.open = s.open /\ t.refs = s.refs
         /\ \A c \in Cid : t.shown[c] # None => s.shown[c] # None
         /\ \A c \in WindowsOn(s, k) : t.shown[c] = None
         /\ OtherRefs(t) = OtherRefs(s)
<1>1. WindowsOn(s, k) \subseteq Cid
  BY WindowsCounted
<1>2. CASE attached
  <2>1. t = Shut(s, WindowsOn(s, k))
    BY <1>2 DEF CloseAll
  <2>2. {} \ WindowsOn(s, k) = {}
    OBVIOUS
  <2>3. /\ SoundBut(t, {} \ WindowsOn(s, k))
        /\ t.in = s.in /\ t.open = s.open /\ t.refs = s.refs
        /\ \A c \in Cid : t.shown[c] # None => s.shown[c] # None
        /\ \A c \in Cid \cap WindowsOn(s, k) : t.shown[c] = None
        /\ OtherRefs(t) = OtherRefs(s)
    BY <2>1, ShuttingShows
  <2> QED
    BY <1>1, <2>2, <2>3
<1>3. CASE ~attached
  <2>1. t = s
    BY <1>3 DEF CloseAll
  <2> QED
    BY <1>1, <1>3, <2>1
<1> QED
  BY <1>2, <1>3

\* Windows closed on both sides.
LEMMA ClosingBoth ==
  ASSUME NEW s, SoundBut(s, {}), NEW D, NEW t, t = Shut(Closed(s, D), D)
  PROVE  /\ SoundBut(t, {})
         /\ t.in = s.in
         /\ \A c \in Cid : t.open[c] = IF c \in D THEN None ELSE s.open[c]
         /\ \A c \in Cid : t.shown[c] # None => s.shown[c] # None
         /\ OtherRefs(t) = OtherRefs(s)
<1>0. PICK E : E = {}
  OBVIOUS
<1>1. PICK u : u = Closed(s, D)
  OBVIOUS
<1>2. /\ SoundBut(u, E \cup D)
      /\ u.in = s.in /\ u.shown = s.shown
      /\ \A c \in Cid : u.open[c] = IF c \in D THEN None ELSE s.open[c]
      /\ OtherRefs(u) = OtherRefs(s)
  <2>1. SoundBut(s, E)
    BY <1>0
  <2> QED
    BY <1>1, <2>1, ClosingCloses
<1>3. E \cup D = D /\ D \ D = {}
  BY <1>0
<1>4. SoundBut(u, D)
  BY <1>2, <1>3
<1>5. t = Shut(u, D)
  BY <1>1
<1>6. /\ SoundBut(t, D \ D)
      /\ t.in = u.in /\ t.open = u.open
      /\ \A c \in Cid : t.shown[c] # None => u.shown[c] # None
      /\ OtherRefs(t) = OtherRefs(u)
  BY <1>4, <1>5, ShuttingShows
<1> QED
  BY <1>2, <1>3, <1>6

LEMMA AutoClosing ==
  ASSUME NEW s, SoundBut(s, {}), NEW k, NEW t, t = AutoClosed(s, k)
  PROVE  /\ SoundBut(t, {})
         /\ t.in = s.in
         /\ \A c \in Cid : t.open[c] = None \/ (t.open[c] = s.open[c] /\ ~HasOpen(s, c, k))
         /\ \A c \in Cid : t.shown[c] # None => s.shown[c] # None
         /\ OtherRefs(t) = OtherRefs(s)
<1>1. PICK D : D = WindowsOn(s, k)
                   \cup (IF "box" \in Range(s.in[k]) THEN WindowsOn(s, "box") ELSE {})
  OBVIOUS
<1>2. t = Shut(Closed(s, D), D)
  BY <1>1 DEF AutoClosed
<1>3. /\ SoundBut(t, {})
      /\ t.in = s.in
      /\ \A c \in Cid : t.open[c] = IF c \in D THEN None ELSE s.open[c]
      /\ \A c \in Cid : t.shown[c] # None => s.shown[c] # None
      /\ OtherRefs(t) = OtherRefs(s)
  BY <1>2, ClosingBoth
<1>4. \A c \in Cid : HasOpen(s, c, k) => c \in D
  BY <1>1 DEF WindowsOn
<1>5. ASSUME NEW c \in Cid
      PROVE  t.open[c] = None \/ (t.open[c] = s.open[c] /\ ~HasOpen(s, c, k))
  <2>1. CASE c \in D
    BY <1>3, <2>1
  <2>2. CASE c \notin D
    BY <1>3, <1>4, <2>2
  <2> QED
    BY <2>1, <2>2
<1> QED
  BY <1>3, <1>5

-----------------------------------------------------------------------------
(* An item that comes in.                                                   *)

\* The least and the greatest of some numbers.
LEMMA LeastIs ==
  ASSUME NEW T, T \subseteq Nat, T # {}
  PROVE  \E x \in T : \A y \in T : x <= y
<1>1. PICK x \in T : \A y \in T : ~ (<<y, x>> \in OpToRel(<, Nat))
  BY NatLessThanWellFounded, WFMin
<1>2. ASSUME NEW y \in T
      PROVE  x <= y
  <2>1. x \in Nat /\ y \in Nat /\ <<y, x>> \in Nat \X Nat
    OBVIOUS
  <2>2. ~ (<<y, x>> \in OpToRel(<, Nat))
    BY <1>1
  <2>3. ~ (y < x)
    BY <2>1, <2>2 DEF OpToRel
  <2> QED
    BY <2>1, <2>3
<1> QED
  BY <1>2

LEMMA GreatestIs ==
  ASSUME NEW n \in Nat, NEW T, T \subseteq 0 .. n, T # {}
  PROVE  Max(T) \in T
<1>1. PICK U : U = {n - x : x \in T}
  OBVIOUS
<1>2. U \subseteq Nat /\ U # {}
  <2>1. \A x \in T : n - x \in Nat
    OBVIOUS
  <2>2. U \subseteq Nat
    BY <1>1, <2>1
  <2>3. PICK x \in T : TRUE
    OBVIOUS
  <2>4. n - x \in U
    BY <1>1, <2>3
  <2> QED
    BY <2>2, <2>4
<1>3. PICK u \in U : \A y \in U : u <= y
  BY <1>2, LeastIs
<1>4. PICK x \in T : u = n - x
  BY <1>1
<1>5. ASSUME NEW y \in T
      PROVE  x >= y
  <2>1. n - y \in U
    BY <1>1
  <2>2. n - x <= n - y
    BY <1>3, <1>4, <2>1
  <2> QED
    BY <2>2
<1> QED
  BY <1>5 DEF Max

LEMMA SelectIs ==
  ASSUME NEW S, NEW s \in Seq(S), NEW i \in Range(s),
         NEW n, n = SelectInSeq(s, LAMBDA x : x = i)
  PROVE  n \in 1 .. Len(s) /\ s[n] = i
<1>1. PICK I : I = {j \in 1 .. Len(s) : s[j] = i}
  OBVIOUS
<1>2. I # {}
  <2>1. DOMAIN s = 1 .. Len(s)
    BY LenProperties
  <2>2. PICK j \in DOMAIN s : s[j] = i
    BY DEF Range
  <2> QED
    BY <1>1, <2>1, <2>2
<1>3. n = Min(I)
  BY <1>1, <1>2 DEF SelectInSeq
<1>4. I \subseteq Nat
  BY <1>1, LenProperties
<1>5. \E x \in I : \A y \in I : x <= y
  BY <1>2, <1>4, LeastIs
<1>6. n \in I
  BY <1>3, <1>5 DEF Min
<1> QED
  BY <1>1, <1>6

\* A window w of the client, on page first of what is in v.
ShowsPage(w, first, v) ==
    w # None =>
        /\ w \in ClientWindow /\ w.first = first /\ Len(w.list) <= PageSize
        /\ w.sure => w.list = Page(v, first)

\* What is known when only windows on k, and what is in k, change.
LEMMA ChangeShows ==
  ASSUME NEW s, SoundBut(s, {}), NEW k \in Kept, NEW v \in Seq(Content),
         NEW g, NEW f, NEW m, m = [s.in EXCEPT ![k] = v],
         g \in [Cid -> OpenWindow \cup {None}],
         \A c \in Cid : ~HasOpen(s, c, k) => g[c] = s.open[c] /\ f[c] = s.shown[c],
         \A c \in Cid : HasOpen(s, c, k) =>
            g[c] # None /\ g[c].container = k /\ ShowsPage(f[c], g[c].index, v),
         f = [c \in Cid |-> f[c]],
         NEW t, t = [in |-> m, open |-> g, shown |-> f, refs |-> s.refs]
  PROVE  /\ SoundBut(t, {})
         /\ \A q : WindowsOn(t, q) = WindowsOn(s, q)
         /\ OtherRefs(t) = OtherRefs(s)
<1>1. s \in WindowStep
  BY DEF SoundBut
<1>2. m \in Contents /\ m[k] = v /\ \A q \in Kept : q # k => m[q] = s.in[q]
  BY <1>1, StepFields DEF Contents
<1>3. ASSUME NEW c \in Cid
      PROVE  f[c] \in ClientWindow \cup {None}
  <2>1. CASE HasOpen(s, c, k)
    BY <2>1 DEF ShowsPage
  <2>2. CASE ~HasOpen(s, c, k)
    <3>1. s.shown[c] \in ClientWindow \cup {None}
      BY <1>1, StepFields
    <3> QED
      BY <2>2, <3>1
  <2> QED
    BY <2>1, <2>2
<1>4. f \in [Cid -> ClientWindow \cup {None}]
  BY <1>3
<1>5. /\ t.in = m /\ t.open = g /\ t.shown = f /\ t.refs = s.refs
      /\ t \in WindowStep
  BY <1>1, <1>2, <1>4, StepFields DEF WindowStep
<1>6. ASSUME NEW c \in Cid
      PROVE  Fits(t.in, t.open[c], t.shown[c])
  <2>1. CASE HasOpen(s, c, k)
    <3>1. g[c] # None /\ g[c].container = k /\ ShowsPage(f[c], g[c].index, v)
      BY <2>1
    <3> QED
      BY <1>2, <1>5, <3>1 DEF Fits, ShowsPage
  <2>2. CASE ~HasOpen(s, c, k)
    <3>1. Fits(s.in, s.open[c], s.shown[c])
      BY DEF SoundBut
    <3>2. g[c] = s.open[c] /\ f[c] = s.shown[c]
      BY <2>2
    <3>3. s.open[c] # None => s.open[c].container \in Kept /\ s.open[c].container # k
      <4>1. s.open[c] \in OpenWindow \cup {None}
        BY <1>1, StepFields
      <4> QED
        BY <2>2, <4>1 DEF HasOpen, OpenWindow
    <3> QED
      BY <1>2, <1>5, <3>1, <3>2, <3>3 DEF Fits
  <2> QED
    BY <2>1, <2>2
<1>7. ASSUME NEW q, NEW c \in Cid
      PROVE  HasOpen(t, c, q) <=> HasOpen(s, c, q)
  <2>1. CASE HasOpen(s, c, k)
    <3>1. g[c] # None /\ g[c].container = k
      BY <2>1
    <3> QED
      BY <1>5, <2>1, <3>1 DEF HasOpen
  <2>2. CASE ~HasOpen(s, c, k)
    <3>1. g[c] = s.open[c]
      BY <2>2
    <3> QED
      BY <1>5, <3>1 DEF HasOpen
  <2> QED
    BY <2>1, <2>2
<1>8. \A q : WindowsOn(t, q) = WindowsOn(s, q)
  BY <1>7 DEF WindowsOn
<1> QED
  BY <1>5, <1>6, <1>8 DEF SoundBut, OtherRefs

\* An item that the client puts in a page.
LEMMA PuttingShows ==
  ASSUME NEW first \in Nat, NEW v \in Seq(Content), NEW u \in Seq(Content),
         NEW w, ShowsPage(w, first, v), NEW slot \in Int, NEW i \in Content,
         NEW right \in BOOLEAN, NEW p, p = Page(v, first),
         slot - first \notin 0 .. Len(p) => Page(u, first) = p,
         slot - first \in 0 .. Len(p) /\ right =>
            Page(u, first) = Page(InsertAt(p, slot - first + 1, i), 0),
         NEW r, r = PutIn(w, slot, i, right)
  PROVE  ShowsPage(r, first, u)
<1>1. CASE w = None
  <2>1. r = None
    BY <1>1 DEF PutIn
  <2> QED
    BY <2>1 DEF ShowsPage
<1>2. CASE w # None
  <2>1. /\ w \in ClientWindow /\ w.first = first /\ Len(w.list) <= PageSize
        /\ w.sure => w.list = p
    BY <1>2 DEF ShowsPage
  <2>2. w.list \in Seq(Content) /\ w.sure \in BOOLEAN /\ w.first \in Nat
    BY <2>1 DEF ClientWindow
  <2>3. CASE slot - first \notin 0 .. Len(w.list)
    <3>1. r = w
      BY <1>2, <2>1, <2>3 DEF PutIn
    <3>2. w.sure => w.list = Page(u, first)
      BY <2>1, <2>3
    <3> QED
      BY <2>1, <3>1, <3>2 DEF ShowsPage
  <2>4. CASE slot - first \in 0 .. Len(w.list)
    <3>1. PICK n : n = slot - first + 1
      OBVIOUS
    <3>2. n \in 1 .. Len(w.list) + 1
      <4>1. Len(w.list) \in Nat
        BY <2>2, LenProperties
      <4> QED
        BY <2>4, <3>1, <4>1
    <3>3. PICK l : l = InsertAt(w.list, n, i)
      OBVIOUS
    <3>4. l \in Seq(Content)
      <4>1. Widens(Content, l, w.list, n, i)
        BY <2>2, <3>2, <3>3, PuttingInto
      <4> QED
        BY <4>1 DEF Widens
    <3>5. PICK m : m = Page(l, 0)
      OBVIOUS
    <3>6. m \in Seq(Content) /\ Len(m) <= PageSize
      <4>1. Pages(Content, m, l, 0)
        BY <3>4, <3>5, PageIs
      <4>2. Len(l) \in Nat
        BY <3>4, LenProperties
      <4>3. PageLength(Len(l), 0) <= PageSize
        BY <4>2, PageLengths
      <4> QED
        BY <4>1, <4>3 DEF Pages
    <3>7. PICK b \in BOOLEAN : b = (w.sure /\ right)
      OBVIOUS
    <3>8. r = [w EXCEPT !.list = m, !.sure = b]
      BY <1>2, <2>1, <2>4, <3>1, <3>3, <3>5, <3>7 DEF PutIn
    <3>9. r \in ClientWindow /\ r.first = first /\ r.list = m /\ r.sure = b
      <4>1. PICK a : a = [w EXCEPT !.list = m]
        OBVIOUS
      <4>2. a \in ClientWindow /\ a.first = first /\ a.list = m
        BY <2>1, <3>6, <4>1 DEF ClientWindow
      <4>3. r = [a EXCEPT !.sure = b]
        BY <3>8, <4>1
      <4> QED
        BY <4>2, <4>3 DEF ClientWindow
    <3>10. ASSUME b
           PROVE  m = Page(u, first)
      <4>1. w.list = p /\ right
        BY <2>1, <3>7, <3>10
      <4> QED
        BY <2>4, <3>1, <3>3, <3>5, <4>1
    <3> QED
      BY <3>6, <3>9, <3>10 DEF ShowsPage
  <2> QED
    BY <2>3, <2>4
<1> QED
  BY <1>1, <1>2

\* What stays as it is, where a page stays as it is.
LEMMA StayingShows ==
  ASSUME NEW first, NEW v, NEW u, NEW w, ShowsPage(w, first, v),
         Page(u, first) = Page(v, first)
  PROVE  ShowsPage(w, first, u)
  BY DEF ShowsPage

LEMMA SpoiltShows ==
  ASSUME NEW first, NEW v, NEW u, NEW w, ShowsPage(w, first, v), w # None,
         NEW r, r = [w EXCEPT !.sure = FALSE]
  PROVE  ShowsPage(r, first, u)
<1>1. w \in ClientWindow /\ w.first = first /\ Len(w.list) <= PageSize
  BY DEF ShowsPage
<1>2. r \in ClientWindow /\ r.first = first /\ r.list = w.list /\ r.sure = FALSE
  BY <1>1 DEF ClientWindow
<1> QED
  BY <1>1, <1>2 DEF ShowsPage
\* What a window on k is told of the item i that has come in.
LEMMA ItemForIs ==
  ASSUME NEW z \in WindowStep, NEW k \in Kept, NEW i \in Content, NEW cid \in Cid
  PROVE  /\ ItemFor(z, k, i, cid) \in Content \cup {None}
         /\ LooksUp(z, k, cid) /\ HasOpen(z, cid, k) =>
               ItemFor(z, k, i, cid) = LookedUp(z, k, cid)
<1>1. PICK own : own = {c \in WindowsOn(z, k) : c <= cid /\ LooksUp(z, k, c)}
  OBVIOUS
<1>2. ItemFor(z, k, i, cid) = IF own = {} THEN i ELSE LookedUp(z, k, Max(own))
  BY <1>1 DEF ItemFor
<1>3. own \subseteq 0 .. LastCid
  BY <1>1, WindowsCounted DEF Cid
<1>4. own # {} => Max(own) \in own
  BY <1>3, GreatestIs, WindowsNumbers
<1>5. ASSUME NEW c \in own
      PROVE  LookedUp(z, k, c) \in Content \cup {None}
  <2>1. c \in Cid /\ z.open[c] # None
    BY <1>1, <1>3 DEF WindowsOn, HasOpen, Cid
  <2>2. z.open[c].index \in Nat
    BY <2>1, StepFields, PageStarts DEF OpenWindow
  <2>3. PICK l \in Seq(Content) : l = z.in[k]
    BY StepFields DEF Contents
  <2>4. PICK n : n = z.open[c].index + (IF k = "field" THEN PageSize - 1 ELSE 0)
    OBVIOUS
  <2>5. n \in Nat
    BY <2>2, <2>4, WindowsNumbers
  <2>6. LookedUp(z, k, c) = IF n < Len(l) THEN l[n + 1] ELSE None
    BY <2>3, <2>4 DEF LookedUp, ItemByIndex
  <2>7. n < Len(l) => l[n + 1] \in Content
    <3>1. n < Len(l) => n + 1 \in 1 .. Len(l)
      BY <2>5, LenProperties
    <3> QED
      BY <3>1, ElementOfSeq
  <2> QED
    BY <2>6, <2>7
<1>6. ASSUME LooksUp(z, k, cid), HasOpen(z, cid, k)
      PROVE  Max(own) = cid /\ own # {}
  <2>1. cid \in own
    BY <1>1, <1>6 DEF WindowsOn, Cid
  <2>2. \A c \in own : c <= cid
    BY <1>1
  <2>3. \A c \in own : Max(own) >= c
    <3>1. \E x \in own : \A y \in own : x >= y
      <4>1. \A y \in own : cid >= y
        BY <1>3, <2>2 DEF Cid
      <4> QED
        BY <2>1, <4>1
    <3> QED
      BY <3>1 DEF Max
  <2>4. Max(own) \in own
    BY <1>4, <2>1
  <2>5. Max(own) \in Int /\ cid \in Int
    <3>1. 0 .. LastCid \subseteq Int
      BY WindowsNumbers
    <3> QED
      BY <1>3, <2>1, <2>4, <3>1
  <2>6. Max(own) <= cid /\ Max(own) >= cid
    BY <2>1, <2>2, <2>3, <2>4
  <2> QED
    BY <2>1, <2>5, <2>6
<1> QED
  BY <1>2, <1>4, <1>5, <1>6

\* The page before and after, with what a window is told in between.
LEMMA ChestAdds ==
  ASSUME NEW v \in Seq(Content), NEW i \in Content, NEW u, InFront(Content, u, v, i),
         NEW first \in Nat, NEW w, ShowsPage(w, first, v)
  PROVE  /\ u \in Seq(Content)
         /\ ItemByIndex(u, first) = None => ShowsPage(w, first, u)
         /\ \A item \in Content, right \in BOOLEAN :
              first <= Len(v) /\ (right => item = ItemByIndex(u, first)) =>
                ShowsPage(PutIn(w, first, item, right), first, u)
<1>1. u \in Seq(Content) /\ Len(u) = Len(v) + 1
  BY DEF InFront
<1>2. PICK n \in Nat : n = Len(v)
  BY LenProperties
<1>3. PICK p : p = Page(v, first)
  OBVIOUS
<1>4. p \in Seq(Content) /\ Len(p) = PageLength(n, first)
  <2>1. Pages(Content, p, v, first)
    BY <1>3, PageIs
  <2> QED
    BY <1>2, <2>1 DEF Pages
<1>5. ASSUME ItemByIndex(u, first) = None
      PROVE  ShowsPage(w, first, u)
  <2>1. ~(first < n + 1)
    <3> SUFFICES ASSUME first < n + 1 PROVE FALSE
      OBVIOUS
    <3>1. first + 1 \in 1 .. Len(u)
      BY <1>1, <1>2
    <3>2. u[first + 1] \in Content
      BY <1>1, <3>1, ElementOfSeq
    <3>3. ItemByIndex(u, first) = u[first + 1]
      BY <1>1, <1>2 DEF ItemByIndex
    <3> QED
      BY <1>5, <3>2, <3>3, WindowsNumbers
  <2>2. PICK q : q = Page(u, first)
    OBVIOUS
  <2>3. q \in Seq(Content) /\ Len(q) = PageLength(n + 1, first)
    <3>1. Pages(Content, q, u, first)
      BY <1>1, <2>2, PageIs
    <3> QED
      BY <1>1, <1>2, <3>1 DEF Pages
  <2>4. Len(q) = 0 /\ Len(p) = 0
    BY <1>4, <2>1, <2>3 DEF PageLength
  <2>5. p = q
    BY ONLY <1>4, <2>3, <2>4, SeqEqual
  <2> QED
    BY <1>3, <2>2, <2>5, StayingShows
<1>6. ASSUME NEW item \in Content, NEW right \in BOOLEAN, first <= n,
             right => item = ItemByIndex(u, first)
      PROVE  ShowsPage(PutIn(w, first, item, right), first, u)
  <2>1. first - first \in 0 .. Len(p)
    <3>1. Len(p) \in Nat
      BY <1>4, LenProperties
    <3> QED
      BY <3>1
  <2>2. ItemByIndex(u, first) = u[first + 1]
    BY <1>1, <1>2, <1>6 DEF ItemByIndex
  <2>3. right => Page(u, first) = Page(InsertAt(p, 1, item), 0)
    <3>1. first <= Len(v)
      BY <1>2, <1>6
    <3>2. Page(InsertAt(Page(v, first), 1, u[first + 1]), 0) = Page(u, first)
      BY <3>1, FrontOfPage
    <3> QED
      BY <1>3, <1>6, <2>2, <3>2
  <2>4. right => Page(u, first) = Page(InsertAt(p, first - first + 1, item), 0)
    <3>1. first - first + 1 = 1
      OBVIOUS
    <3> QED
      BY <2>3, <3>1
  <2>5. first \in Int
    OBVIOUS
  <2> QED
    BY <1>1, <1>3, <2>1, <2>4, <2>5, PuttingShows
<1> QED
  BY <1>1, <1>2, <1>5, <1>6

\* What the client is told of the last of the field makes its page that of u.
FieldAdded(u, w, slot, item, right, first) ==
    /\ u \in Seq(Content)
    /\ ShowsPage(PutIn(w, slot, item, right), first, u)
    /\ ItemByIndex(u, slot) = u[slot + 1] /\ slot + 1 \in 1 .. Len(u)

LEMMA FieldAdds ==
  ASSUME NEW v \in Seq(Content), NEW i \in Content, NEW u, Behind(Content, u, v, i),
         NEW first \in Nat, NEW w, ShowsPage(w, first, v),
         NEW full \in BOOLEAN, full <=> Len(v) > first + PageSize - 1,
         NEW slot, slot = IF full THEN first + PageSize - 1 ELSE Len(v),
         NEW item \in Content, NEW right \in BOOLEAN,
         right => item = ItemByIndex(u, slot)
  PROVE  FieldAdded(u, w, slot, item, right, first)
<1>1. u \in Seq(Content) /\ Len(u) = Len(v) + 1
  BY DEF Behind
<1>2. PICK n \in Nat : n = Len(v)
  BY LenProperties
<1>3. PICK p : p = Page(v, first)
  OBVIOUS
<1>4. p \in Seq(Content) /\ Len(p) = PageLength(n, first)
  <2>1. Pages(Content, p, v, first)
    BY <1>3, PageIs
  <2> QED
    BY <1>2, <2>1 DEF Pages
<1>5. /\ slot \in Nat /\ slot + 1 \in 1 .. Len(u)
      /\ full => n >= first + PageSize
      /\ ~full => n < first + PageSize /\ slot = n
  BY <1>1, <1>2, WindowsNumbers
<1>6. ItemByIndex(u, slot) = u[slot + 1]
  BY <1>1, <1>2, <1>5 DEF ItemByIndex
<1>7. ASSUME slot < first
      PROVE  ShowsPage(PutIn(w, slot, item, right), first, u)
  <2>1. n < first
    BY <1>2, <1>5, <1>7, WindowsNumbers
  <2>2. PICK q : q = Page(u, first)
    OBVIOUS
  <2>3. q \in Seq(Content) /\ Len(q) = PageLength(n + 1, first)
    <3>1. Pages(Content, q, u, first)
      BY <1>1, <2>2, PageIs
    <3> QED
      BY <1>1, <1>2, <3>1 DEF Pages
  <2>4. Len(q) = 0 /\ Len(p) = 0
    BY <1>4, <2>1, <2>3 DEF PageLength
  <2>5. p = q
    BY ONLY <1>4, <2>3, <2>4, SeqEqual
  <2>6. slot - first \notin 0 .. Len(p)
    BY <1>5, <1>7
  <2>7. slot \in Int
    BY <1>5
  <2> QED
    BY <1>1, <1>3, <1>5, <1>6, <2>2, <2>5, <2>6, <2>7, PuttingShows
<1>8. ASSUME slot >= first
      PROVE  ShowsPage(PutIn(w, slot, item, right), first, u)
  <2>0. slot - first \in Nat
    BY <1>5, <1>8
  <2>1. PICK k \in Nat : k = slot - first
    BY <2>0
  <2>2. \/ first <= n /\ n < first + PageSize /\ k = n - first
        \/ n >= first + PageSize /\ k = PageSize - 1
    BY <1>2, <1>5, <1>8, <2>1, WindowsNumbers
  <2>3. first + k + 1 = slot + 1
    <3>1. PICK a \in Nat : a = slot
      BY <1>5
    <3>2. PICK b \in Nat : b = first
      OBVIOUS
    <3>3. k = a - b
      BY <2>1, <3>1, <3>2
    <3>4. b + k + 1 = a + 1
      BY <3>3
    <3> QED
      BY <3>1, <3>2, <3>4
  <2>4. /\ k \in 0 .. Len(p) /\ u[first + k + 1] \in Content
        /\ Page(InsertAt(p, k + 1, u[first + k + 1]), 0) = Page(u, first)
    <3>1. \/ first <= Len(v) /\ Len(v) < first + PageSize /\ k = Len(v) - first
          \/ Len(v) >= first + PageSize /\ k = PageSize - 1
      BY <1>2, <2>2
    <3>2. /\ k \in 0 .. Len(Page(v, first)) /\ u[first + k + 1] \in Content
          /\ Page(InsertAt(Page(v, first), k + 1, u[first + k + 1]), 0) = Page(u, first)
      BY <3>1, BackOfPage
    <3> QED
      BY <1>3, <3>2
  <2>5. right => item = u[first + k + 1]
    BY <1>6, <2>3
  <2>6. /\ slot - first \in 0 .. Len(p)
        /\ right => Page(u, first) = Page(InsertAt(p, slot - first + 1, item), 0)
    BY <2>1, <2>4, <2>5
  <2>7. slot \in Int
    BY <1>5
  <2> QED
    BY <1>1, <1>3, <1>5, <1>6, <2>6, <2>7, PuttingShows
<1>9. ShowsPage(PutIn(w, slot, item, right), first, u)
  BY <1>5, <1>7, <1>8
<1> QED
  BY <1>1, <1>5, <1>6, <1>9 DEF FieldAdded

LEMMA AddingTells ==
  ASSUME NEW z \in WindowStep, NEW k \in Kept, NEW i \in Content, NEW cid \in Cid,
         HasOpen(z, cid, k), NEW v \in Seq(Content), NEW u, u = z.in[k],
         NEW first, first = z.open[cid].index, ShowsPage(z.shown[cid], first, v),
         k = "field" => Behind(Content, u, v, i),
         k # "field" => InFront(Content, u, v, i)
  PROVE  ShowsPage(AddTold(z, k, i, cid), first, u)
<1>1. first \in PageStart /\ first \in Nat
  <2>1. z.open[cid] \in OpenWindow
    BY StepFields DEF HasOpen
  <2> QED
    BY <2>1, PageStarts DEF OpenWindow
<1>2. PICK w : w = z.shown[cid]
  OBVIOUS
<1>3. PICK item : item = ItemFor(z, k, i, cid)
  OBVIOUS
<1>4. /\ item \in Content \cup {None}
      /\ LooksUp(z, k, cid) => item = LookedUp(z, k, cid)
  BY <1>3, ItemForIs
<1>5. PICK right \in BOOLEAN : right <=> (LooksUp(z, k, cid) \/ item = i)
  OBVIOUS
<1>6. i # None /\ PageSize \in Nat /\ PageSize > 0
  BY WindowsNumbers
<1>7. PICK n \in Nat : n = Len(v)
  BY LenProperties
<1>8. PICK slot : slot = SlotFor(z, k, cid)
  OBVIOUS
<1>9. PICK r : r = AddTold(z, k, i, cid)
  OBVIOUS
<1>10. r = IF item # None THEN PutIn(w, slot, item, right)
           ELSE IF right \/ w = None THEN w ELSE [w EXCEPT !.sure = FALSE]
  BY <1>2, <1>3, <1>5, <1>8, <1>9 DEF AddTold
<1>11. ASSUME item = None, ~right
       PROVE  ShowsPage(r, first, u)
  <2>1. CASE w = None
    <3>1. r = None
      BY <1>10, <1>11, <2>1
    <3> QED
      BY <3>1 DEF ShowsPage
  <2>2. CASE w # None
    <3>1. r = [w EXCEPT !.sure = FALSE]
      BY <1>10, <1>11, <2>2
    <3> QED
      BY <1>2, <2>2, <3>1, SpoiltShows
  <2> QED
    BY <2>1, <2>2
<1>12. CASE k = "field"
  <2>1. Behind(Content, u, v, i)
    BY <1>12
  <2>2. Len(u) = n + 1 /\ u[n + 1] = i
    BY <1>7, <2>1 DEF Behind
  <2>3. PICK full \in BOOLEAN : full <=> n > first + PageSize - 1
    OBVIOUS
  <2>4. PageFull(z, k, cid) <=> full
    BY <1>1, <1>6, <1>12, <2>2, <2>3 DEF PageFull
  <2>5. LooksUp(z, k, cid) <=> full
    BY <1>12, <2>4 DEF LooksUp
  <2>6. slot = IF full THEN first + PageSize - 1 ELSE n
    <3>1. n = n + 1 - 1
      OBVIOUS
    <3> QED
      BY <1>8, <1>12, <2>2, <2>4, <3>1 DEF SlotFor
  <2>7. full => item = ItemByIndex(u, slot)
    <3>1. LookedUp(z, k, cid) = ItemByIndex(u, first + (PageSize - 1))
      BY <1>12 DEF LookedUp
    <3>2. first + (PageSize - 1) = first + PageSize - 1
      BY <1>1, <1>6
    <3> QED
      BY <1>4, <2>5, <2>6, <3>1, <3>2
  <2>8. ItemByIndex(u, slot) \in Content /\ (~full => ItemByIndex(u, slot) = i)
    <3>1. PICK no \in BOOLEAN : ~no
      OBVIOUS
    <3>2. full <=> Len(v) > first + PageSize - 1
      BY <1>7, <2>3
    <3>3. slot = IF full THEN first + PageSize - 1 ELSE Len(v)
      BY <1>7, <2>6
    <3>6. first \in Nat /\ ShowsPage(w, first, v)
      BY <1>1, <1>2
    <3>7. FieldAdded(u, w, slot, i, no, first)
      BY <2>1, <3>1, <3>2, <3>3, <3>6, FieldAdds
    <3>4. /\ u \in Seq(Content)
          /\ ItemByIndex(u, slot) = u[slot + 1] /\ slot + 1 \in 1 .. Len(u)
      BY <3>7 DEF FieldAdded
    <3>5. u[slot + 1] \in Content
      BY <3>4, ElementOfSeq
    <3> QED
      BY <2>2, <2>6, <3>4, <3>5
  <2>9. CASE item # None
    <3>1. item \in Content
      BY <1>4, <2>9
    <3>2. right => item = ItemByIndex(u, slot)
      BY <1>5, <2>5, <2>7, <2>8
    <3>3. full <=> Len(v) > first + PageSize - 1
      BY <1>7, <2>3
    <3>4. slot = IF full THEN first + PageSize - 1 ELSE Len(v)
      BY <1>7, <2>6
    <3>6. first \in Nat /\ ShowsPage(w, first, v)
      BY <1>1, <1>2
    <3>7. FieldAdded(u, w, slot, item, right, first)
      BY <2>1, <3>1, <3>2, <3>3, <3>4, <3>6, FieldAdds
    <3>5. ShowsPage(PutIn(w, slot, item, right), first, u)
      BY <3>7 DEF FieldAdded
    <3> QED
      BY <1>9, <1>10, <2>9, <3>5
  <2>10. CASE item = None
    <3>1. ~right
      BY <1>5, <1>6, <2>5, <2>7, <2>8, <2>10, WindowsNumbers
    <3> QED
      BY <1>9, <1>11, <2>10, <3>1
  <2> QED
    BY <2>9, <2>10
<1>13. CASE k # "field"
  <2>1. InFront(Content, u, v, i)
    BY <1>13
  <2>2. Len(u) = n + 1 /\ u[1] = i
    BY <1>7, <2>1 DEF InFront
  <2>3. LooksUp(z, k, cid) <=> first >= PageSize
    BY <1>13 DEF LooksUp, PageFull
  <2>4. slot = first
    BY <1>8, <1>13 DEF SlotFor
  <2>5. first >= PageSize => item = ItemByIndex(u, first)
    <3>1. LookedUp(z, k, cid) = ItemByIndex(u, first + 0)
      BY <1>13 DEF LookedUp
    <3>2. first + 0 = first
      BY <1>1
    <3> QED
      BY <1>4, <2>3, <3>1, <3>2
  <2>6. ~(first >= PageSize) => first = 0 /\ ItemByIndex(u, first) = i
    <3>1. ~(first >= PageSize) => first = 0
      BY <1>1, PageStarts
    <3>2. ItemByIndex(u, 0) = u[0 + 1]
      BY <2>2 DEF ItemByIndex
    <3>3. 0 + 1 = 1
      OBVIOUS
    <3> QED
      BY <2>2, <3>1, <3>2, <3>3
  <2>7. right => item = ItemByIndex(u, first)
    BY <1>5, <2>3, <2>5, <2>6
  <2>8. CASE item # None
    <3>1. item \in Content
      BY <1>4, <2>8
    <3>2. first <= Len(v)
      <4>1. CASE first >= PageSize
        <5>1. first < Len(u)
          BY <2>5, <2>8, <4>1 DEF ItemByIndex
        <5> QED
          BY <1>1, <1>7, <2>2, <5>1
      <4>2. CASE ~(first >= PageSize)
        BY <1>7, <2>6, <4>2
      <4> QED
        BY <4>1, <4>2
    <3>3. ShowsPage(PutIn(w, first, item, right), first, u)
      BY <1>1, <1>2, <2>1, <2>7, <3>1, <3>2, ChestAdds
    <3> QED
      BY <1>9, <1>10, <2>4, <2>8, <3>3
  <2>9. CASE item = None
    <3>1. CASE right
      <4>1. ItemByIndex(u, first) = None
        BY <2>7, <2>9, <3>1
      <4>2. ShowsPage(w, first, u)
        BY <1>1, <1>2, <2>1, <4>1, ChestAdds
      <4>3. r = w
        BY <1>10, <2>9, <3>1
      <4> QED
        BY <1>9, <4>2, <4>3
    <3>2. CASE ~right
      BY <1>9, <1>11, <2>9, <3>2
    <3> QED
      BY <3>1, <3>2
  <2> QED
    BY <2>8, <2>9
<1> QED
  BY <1>12, <1>13
\* What is known of putting something into a container.
LEMMA FitsShows ==
  ASSUME NEW s, SoundBut(s, {}), NEW cid \in Cid, NEW k \in Kept, HasOpen(s, cid, k)
  PROVE  ShowsPage(s.shown[cid], s.open[cid].index, s.in[k])
<1>1. Fits(s.in, s.open[cid], s.shown[cid])
  BY DEF SoundBut
<1>2. s.shown[cid] \in ClientWindow \cup {None}
  BY StepFields DEF SoundBut
<1> QED
  BY <1>1, <1>2 DEF Fits, ShowsPage, HasOpen

Filled(s, k, u) == [s EXCEPT !.in[k] = u]
LEMMA FillingFits ==
  ASSUME NEW s \in WindowStep, NEW k \in Kept, NEW u \in Seq(Content),
         NEW z, z = Filled(s, k, u)
  PROVE  /\ z \in WindowStep /\ z.in = [s.in EXCEPT ![k] = u] /\ z.in[k] = u
         /\ \A q \in Kept : q # k => z.in[q] = s.in[q]
         /\ z.open = s.open /\ z.shown = s.shown /\ z.refs = s.refs
         /\ \A c, q : HasOpen(z, c, q) <=> HasOpen(s, c, q)
<1>1. PICK m : m = [s.in EXCEPT ![k] = u]
  OBVIOUS
<1>2. m \in Contents /\ m[k] = u /\ \A q \in Kept : q # k => m[q] = s.in[q]
  BY <1>1, StepFields DEF Contents
<1>3. z = [s EXCEPT !.in = m]
  BY <1>1 DEF Filled
<1>4. z \in WindowStep /\ z.in = m /\ z.open = s.open /\ z.shown = s.shown /\ z.refs = s.refs
  BY <1>2, <1>3 DEF WindowStep
<1> QED
  BY <1>1, <1>2, <1>4 DEF HasOpen

\* The record of a step, by its fields.
LEMMA StepIs ==
  ASSUME NEW s \in WindowStep
  PROVE  s = [in |-> s.in, open |-> s.open, shown |-> s.shown, refs |-> s.refs]
  BY DEF WindowStep

LEMMA PuttingIn ==
  ASSUME NEW s, SoundBut(s, {}), NEW k \in Kept, NEW i \in Content,
         attached \/ \A c \in Cid : s.shown[c] = None,
         ~beside => \A c \in Cid : s.open[c] = None,
         NEW t, t = PutInto(s, k, i), NEW u, u = t.in[k]
  PROVE  /\ SoundBut(t, {})
         /\ t.in = [s.in EXCEPT ![k] = u]
         /\ k = "field" => Behind(Content, u, s.in[k], i)
         /\ k # "field" => InFront(Content, u, s.in[k], i)
         /\ t.open = s.open
         /\ \A c \in Cid : t.shown[c] # None => attached
         /\ OtherRefs(t) = OtherRefs(s)
<1>1. s \in WindowStep
  BY DEF SoundBut
<1>2. PICK v \in Seq(Content) : v = s.in[k]
  BY <1>1, StepFields DEF Contents
<1>3. PICK x : x = IF k = "field" THEN Append(v, i) ELSE <<i>> \o v
  OBVIOUS
<1>4. /\ k = "field" => Behind(Content, x, v, i)
      /\ k # "field" => InFront(Content, x, v, i)
      /\ x \in Seq(Content)
  <2>1. CASE k = "field"
    BY <1>3, <2>1, FrontAndBack DEF Behind
  <2>2. CASE k # "field"
    BY <1>3, <2>2, FrontAndBack DEF InFront
  <2> QED
    BY <2>1, <2>2
<1>5. PICK z : z = Filled(s, k, x)
  OBVIOUS
<1>6. /\ z \in WindowStep /\ z.in = [s.in EXCEPT ![k] = x] /\ z.in[k] = x
      /\ z.open = s.open /\ z.shown = s.shown /\ z.refs = s.refs
      /\ \A c, q : HasOpen(z, c, q) <=> HasOpen(s, c, q)
  BY <1>1, <1>4, <1>5, FillingFits
<1>7. t = IF beside /\ attached THEN SendAdd(z, k, i) ELSE z
  <2>1. z = [s EXCEPT !.in[k] = IF k = "field" THEN Append(@, i) ELSE <<i>> \o @]
    BY <1>2, <1>3, <1>5 DEF Filled
  <2> QED
    BY <2>1 DEF PutInto
<1>8. CASE beside /\ attached
  <2>1. PICK f : f = [c \in Cid |-> IF HasOpen(z, c, k) THEN AddTold(z, k, i, c)
                                    ELSE z.shown[c]]
    OBVIOUS
  <2>2. t = [z EXCEPT !.shown = f]
    BY <1>7, <1>8, <2>1 DEF SendAdd, Tell
  <2>3. ASSUME NEW c \in Cid, HasOpen(s, c, k)
        PROVE  /\ s.open[c] # None /\ s.open[c].container = k
               /\ ShowsPage(f[c], s.open[c].index, x)
    <3>1. s.open[c] # None /\ s.open[c].container = k
      BY <2>3 DEF HasOpen
    <3>2. PICK first : first = z.open[c].index
      OBVIOUS
    <3>3. ShowsPage(z.shown[c], first, v)
      BY <1>2, <1>6, <2>3, <3>2, FitsShows
    <3>4. HasOpen(z, c, k)
      BY <1>6, <2>3
    <3>5. ShowsPage(AddTold(z, k, i, c), first, x)
      BY <1>4, <1>6, <3>2, <3>3, <3>4, AddingTells
    <3>6. f[c] = AddTold(z, k, i, c)
      BY <2>1, <3>4
    <3> QED
      BY <1>6, <3>1, <3>2, <3>5, <3>6
  <2>4. \A c \in Cid : ~HasOpen(s, c, k) => f[c] = s.shown[c]
    BY <1>6, <2>1
  <2>5. PICK m : m = [s.in EXCEPT ![k] = x]
    OBVIOUS
  <2>6. PICK g : g = s.open
    OBVIOUS
  <2>7. g \in [Cid -> OpenWindow \cup {None}]
    BY <1>1, <2>6, StepFields
  <2>8. z = [in |-> m, open |-> g, shown |-> s.shown, refs |-> s.refs]
    BY <1>6, <2>5, <2>6, StepIs
  <2>9. t = [in |-> m, open |-> g, shown |-> f, refs |-> s.refs]
    BY <2>2, <2>8
  <2>10. f = [c \in Cid |-> f[c]]
    BY <2>1
  <2>11. SoundBut(t, {}) /\ OtherRefs(t) = OtherRefs(s)
    <3>1. \A c \in Cid : ~HasOpen(s, c, k) => g[c] = s.open[c] /\ f[c] = s.shown[c]
      BY <2>4, <2>6
    <3>2. \A c \in Cid : HasOpen(s, c, k) =>
             g[c] # None /\ g[c].container = k /\ ShowsPage(f[c], g[c].index, x)
      BY <2>3, <2>6
    <3> QED
      BY <1>4, <2>5, <2>7, <2>9, <2>10, <3>1, <3>2, ChangeShows
  <2>12. t.in = m /\ t.open = g /\ x = u
    BY <1>6, <2>5, <2>9
  <2> QED
    BY <1>2, <1>4, <1>8, <2>5, <2>6, <2>11, <2>12
<1>9. CASE ~(beside /\ attached)
  <2>1. t = z
    BY <1>7, <1>9
  <2>2. \A c \in Cid : s.shown[c] = None
    <3>1. CASE ~attached
      BY <3>1
    <3>2. CASE ~beside
      BY <3>2 DEF SoundBut, Fits
    <3> QED
      BY <1>9, <3>1, <3>2
  <2>3. SoundBut(t, {})
    <3>1. t \in WindowStep /\ \A c \in Cid : t.shown[c] = None
      BY <1>6, <2>1, <2>2
    <3> QED
      BY <3>1 DEF SoundBut, Fits
  <2>4. WindowsOn(t, "field") = WindowsOn(s, "field")
    BY <1>6, <2>1 DEF WindowsOn
  <2>5. OtherRefs(t) = OtherRefs(s)
    BY <1>6, <2>1, <2>4 DEF OtherRefs
  <2> QED
    BY <1>2, <1>4, <1>6, <2>1, <2>2, <2>3, <2>5
<1> QED
  BY <1>8, <1>9
-----------------------------------------------------------------------------
(* An item that goes, or changes.                                           *)

LEMMA TakingShows ==
  ASSUME NEW first \in Nat, NEW v \in Seq(Content), NEW n \in 1 .. Len(v),
         NEW u, u = RemoveAt(v, n), NEW w, ShowsPage(w, first, v),
         NEW slot, slot = (IF n - 1 < first THEN first ELSE n - 1),
         NEW last, last = ItemByIndex(v, first + PageSize),
         NEW r, r = TakenOut(w, slot, last)
  PROVE  ShowsPage(r, first, u)
<1>1. PICK l \in Nat : l = Len(v)
  BY LenProperties
<1>2. n \in Nat /\ n >= 1 /\ n <= l /\ PageSize \in Nat /\ PageSize > 0
  BY <1>1, WindowsNumbers
<1>3. PICK k \in Nat : k = slot - first
  <2>1. slot - first \in Nat
    BY <1>2
  <2> QED
    BY <2>1
<1>4. slot \in Nat /\ slot >= first
  BY <1>2
<1>5. PICK p : p = Page(v, first)
  OBVIOUS
<1>6. last = IF first + PageSize < l THEN v[first + PageSize + 1] ELSE None
  BY <1>1 DEF ItemByIndex
<1>7. first + PageSize < l => last \in Content /\ last # None
  <2>1. ASSUME first + PageSize < l
        PROVE  v[first + PageSize + 1] \in Content
    <3>1. first + PageSize + 1 \in 1 .. Len(v)
      BY <1>1, <1>2, <2>1
    <3> QED
      BY <3>1, ElementOfSeq
  <2> QED
    BY <1>6, <2>1, WindowsNumbers
<1>8. /\ k \notin 0 .. Len(p) - 1 => Page(u, first) = p
      /\ k \in 0 .. Len(p) - 1 =>
           Page(u, first) = IF last # None THEN Append(RemoveAt(p, k + 1), last)
                            ELSE RemoveAt(p, k + 1)
  <2>1. k = (IF n - 1 < first THEN first ELSE n - 1) - first
    BY <1>3
  <2>2. /\ k \notin 0 .. Len(Page(v, first)) - 1 => Page(RemoveAt(v, n), first) = Page(v, first)
        /\ k \in 0 .. Len(Page(v, first)) - 1 =>
             Page(RemoveAt(v, n), first) =
                IF first + PageSize < Len(v)
                THEN Append(RemoveAt(Page(v, first), k + 1), v[first + PageSize + 1])
                ELSE RemoveAt(Page(v, first), k + 1)
    BY <2>1, GoneFromPage
  <2>3. CASE first + PageSize < l
    BY <1>1, <1>5, <1>6, <1>7, <2>2, <2>3
  <2>4. CASE ~(first + PageSize < l)
    BY <1>1, <1>5, <1>6, <2>2, <2>4
  <2> QED
    BY <2>3, <2>4
<1>9. CASE w = None
  <2>1. r = None
    BY <1>9 DEF TakenOut
  <2> QED
    BY <2>1 DEF ShowsPage
<1>10. CASE w # None
  <2>1. /\ w \in ClientWindow /\ w.first = first /\ Len(w.list) <= PageSize
        /\ w.sure => w.list = p
    BY <1>5, <1>10 DEF ShowsPage
  <2>2. w.list \in Seq(Content) /\ w.sure \in BOOLEAN /\ w.first \in Nat
    BY <2>1 DEF ClientWindow
  <2>3. CASE k \notin 0 .. Len(w.list) - 1
    <3>1. r = w
      BY <1>3, <1>10, <2>1, <2>3 DEF TakenOut
    <3>2. w.sure => w.list = Page(u, first)
      BY <1>8, <2>1, <2>3
    <3> QED
      BY <2>1, <3>1, <3>2 DEF ShowsPage
  <2>4. CASE k \in 0 .. Len(w.list) - 1
    <3>1. PICK rest : rest = RemoveAt(w.list, k + 1)
      OBVIOUS
    <3>2. PICK len \in Nat : len = Len(w.list)
      BY <2>2, LenProperties
    <3>3. rest \in Seq(Content) /\ Len(rest) = len - 1
      <4>1. k + 1 \in 1 .. Len(w.list)
        BY <2>4, <3>2
      <4>2. Narrows(Content, rest, w.list, k + 1)
        BY <2>2, <3>1, <4>1, TakingFrom
      <4> QED
        BY <3>2, <4>2 DEF Narrows
    <3>4. PICK m : m = IF last = None THEN rest ELSE Append(rest, last)
      OBVIOUS
    <3>5. m \in Seq(Content) /\ Len(m) <= PageSize
      <4>1. CASE last = None
        BY <1>2, <2>1, <3>2, <3>3, <3>4, <4>1
      <4>2. CASE last # None
        <5>1. last \in Content
          BY <1>6, <1>7, <4>2
        <5>2. m = Append(rest, last)
          BY <3>4, <4>2
        <5>3. m \in Seq(Content) /\ Len(m) = Len(rest) + 1
          BY <3>3, <5>1, <5>2
        <5> QED
          BY <2>1, <3>2, <3>3, <5>3
      <4> QED
        BY <4>1, <4>2
    <3>6. r = [w EXCEPT !.list = m]
      BY <1>3, <1>10, <2>1, <2>4, <3>1, <3>4 DEF TakenOut
    <3>7. r \in ClientWindow /\ r.first = first /\ r.list = m /\ r.sure = w.sure
      BY <2>1, <3>5, <3>6 DEF ClientWindow
    <3>8. ASSUME w.sure
          PROVE  m = Page(u, first)
      <4>1. w.list = p
        BY <2>1, <3>8
      <4> QED
        BY <1>8, <2>4, <3>1, <3>4, <4>1
    <3> QED
      BY <3>5, <3>7, <3>8 DEF ShowsPage
  <2> QED
    BY <2>3, <2>4
<1> QED
  BY <1>9, <1>10

LEMMA TurningFits ==
  ASSUME NEW s \in WindowStep, NEW k \in Kept, NEW y, y = Turned(s, k)
  PROVE  /\ y \in WindowStep /\ y.in = s.in /\ y.shown = s.shown /\ y.refs = s.refs
         /\ \A c \in Cid : ~TurnsBack(s, k, c) => y.open[c] = s.open[c]
         /\ \A c \in Cid : \A q : HasOpen(y, c, q) <=> HasOpen(s, c, q)
<1>1. PICK g : g = [c \in Cid |->
                      IF TurnsBack(s, k, c) THEN [s.open[c] EXCEPT !.index = @ - PageSize]
                      ELSE s.open[c]]
  OBVIOUS
<1>2. y = [s EXCEPT !.open = g]
  BY <1>1 DEF Turned
<1>3. ASSUME NEW c \in Cid, TurnsBack(s, k, c)
      PROVE  g[c] \in OpenWindow /\ g[c].container = s.open[c].container /\ s.open[c] # None
  <2>1. s.open[c] # None /\ s.open[c].index > 0
    BY <1>3 DEF TurnsBack, HasOpen
  <2>2. PICK o \in OpenWindow : o = s.open[c]
    BY <2>1, StepFields
  <2>3. o.index - PageSize \in PageStart
    <3>1. o.index \in PageStart /\ o.index > 0
      BY <2>1, <2>2 DEF OpenWindow
    <3> QED
      BY <3>1, PageStarts
  <2>4. PICK x : x = o.index - PageSize
    OBVIOUS
  <2>5. g[c] = [o EXCEPT !.index = x]
    BY <1>1, <1>3, <2>2, <2>4
  <2> QED
    BY <2>1, <2>2, <2>3, <2>4, <2>5 DEF OpenWindow
<1>4. \A c \in Cid : ~TurnsBack(s, k, c) => g[c] = s.open[c]
  BY <1>1
<1>5. g \in [Cid -> OpenWindow \cup {None}]
  <2>1. ASSUME NEW c \in Cid
        PROVE  g[c] \in OpenWindow \cup {None}
    <3>1. CASE TurnsBack(s, k, c)
      BY <1>3, <3>1
    <3>2. CASE ~TurnsBack(s, k, c)
      BY <1>4, <3>2, StepFields
    <3> QED
      BY <3>1, <3>2
  <2>2. g = [c \in Cid |-> g[c]]
    BY <1>1
  <2> QED
    BY <2>1, <2>2
<1>6. /\ y \in WindowStep /\ y.in = s.in /\ y.shown = s.shown /\ y.refs = s.refs
      /\ y.open = g
  BY <1>2, <1>5 DEF WindowStep
<1>7. ASSUME NEW c \in Cid, NEW q
      PROVE  HasOpen(y, c, q) <=> HasOpen(s, c, q)
  <2>1. CASE TurnsBack(s, k, c)
    <3>1. g[c] # None
      BY <1>3, <2>1, OpenIsSomething
    <3> QED
      BY <1>3, <1>6, <2>1, <3>1 DEF HasOpen
  <2>2. CASE ~TurnsBack(s, k, c)
    BY <1>4, <1>6, <2>2 DEF HasOpen
  <2> QED
    BY <2>1, <2>2
<1> QED
  BY <1>4, <1>6, <1>7

LEMMA RemovingTells ==
  ASSUME NEW s, SoundBut(s, {}), NEW k \in Kept, NEW cid \in Cid, HasOpen(s, cid, k),
         NEW y, y = Turned(s, k), NEW v, v = s.in[k], NEW n \in 1 .. Len(v),
         NEW slot, slot = n - 1, NEW u, u = RemoveAt(v, n)
  PROVE  ShowsPage(RemoveTold(s, k, slot, cid), y.open[cid].index, u)
<1>1. s \in WindowStep
  BY DEF SoundBut
<1>2. v \in Seq(Content)
  BY <1>1, StepFields DEF Contents
<1>3. /\ y \in WindowStep /\ y.in = s.in /\ y.shown = s.shown
      /\ ~TurnsBack(s, k, cid) => y.open[cid] = s.open[cid]
      /\ HasOpen(y, cid, k)
  BY <1>1, TurningFits
<1>4. PICK first : first = y.open[cid].index
  OBVIOUS
<1>5. y.open[cid] # None /\ y.open[cid].container = k /\ first \in Nat
  <2>1. y.open[cid] # None /\ y.open[cid].container = k
    BY <1>3 DEF HasOpen
  <2>2. y.open[cid] \in OpenWindow
    BY <1>3, <2>1, StepFields
  <2> QED
    BY <1>4, <2>1, <2>2, PageStarts DEF OpenWindow
<1>6. PICK w : w = IF TurnsBack(s, k, cid) THEN PageOf(y, cid) ELSE s.shown[cid]
  OBVIOUS
<1>7. ShowsPage(w, first, v)
  <2>1. CASE TurnsBack(s, k, cid)
    <3>1. PageOf(y, cid) \in ClientWindow /\ Fits(y.in, y.open[cid], PageOf(y, cid))
      BY <1>3, <1>5, PageFits
    <3>2. w = PageOf(y, cid)
      BY <1>6, <2>1
    <3> QED
      BY <1>3, <1>4, <1>5, <3>1, <3>2 DEF Fits, ShowsPage
  <2>2. CASE ~TurnsBack(s, k, cid)
    <3>1. ShowsPage(s.shown[cid], s.open[cid].index, v)
      BY FitsShows
    <3> QED
      BY <1>3, <1>4, <1>6, <2>2, <3>1
  <2> QED
    BY <2>1, <2>2
<1>8. PICK place : place = IF n - 1 < first THEN first ELSE n - 1
  OBVIOUS
<1>9. PICK last : last = ItemByIndex(v, first + PageSize)
  OBVIOUS
<1>10. RemoveTold(s, k, slot, cid) = TakenOut(w, place, last)
  BY <1>4, <1>6, <1>8, <1>9 DEF RemoveTold
<1>11. ShowsPage(TakenOut(w, place, last), first, u)
  BY <1>2, <1>5, <1>7, <1>8, <1>9, TakingShows
<1> QED
  BY <1>4, <1>10, <1>11
LEMMA TakingOut ==
  ASSUME NEW s, SoundBut(s, {}), NEW k \in Kept, NEW i \in Range(s.in[k]),
         attached \/ \A c \in Cid : s.shown[c] = None,
         ~beside => \A c \in Cid : s.open[c] = None,
         NEW t, t = TakenFrom(s, k, i), NEW u, u = t.in[k]
  PROVE  /\ SoundBut(t, {})
         /\ t.in = [s.in EXCEPT ![k] = u]
         /\ \E n \in 1 .. Len(s.in[k]) : s.in[k][n] = i /\ Narrows(Content, u, s.in[k], n)
         /\ \A q : WindowsOn(t, q) = WindowsOn(s, q)
         /\ \A c \in Cid : s.open[c] = None => t.open[c] = None
         /\ \A c \in Cid : t.shown[c] # None => attached
         /\ OtherRefs(t) = OtherRefs(s)
<1>1. s \in WindowStep
  BY DEF SoundBut
<1>2. PICK v \in Seq(Content) : v = s.in[k]
  BY <1>1, StepFields DEF Contents
<1>3. PICK n : n = SelectInSeq(v, LAMBDA x : x = i)
  OBVIOUS
<1>4. n \in 1 .. Len(v) /\ v[n] = i
  <2>1. i \in Range(v)
    BY <1>2
  <2> QED
    BY <1>3, <2>1, SelectIs
<1>5. PICK slot : slot = n - 1
  OBVIOUS
<1>6. slot + 1 = n
  <2>1. n \in Int
    BY <1>4, LenProperties
  <2> QED
    BY <1>5, <2>1
<1>7. PICK x : x = RemoveAt(v, n)
  OBVIOUS
<1>8. Narrows(Content, x, v, n) /\ x \in Seq(Content)
  BY <1>4, <1>7, TakingFrom DEF Narrows
<1>9. PICK d : d = IF beside /\ attached THEN SendRemove(s, k, slot) ELSE s
  OBVIOUS
<1>10. t = [d EXCEPT !.in[k] = RemoveAt(@, slot + 1)]
  BY <1>2, <1>3, <1>5, <1>9 DEF TakenFrom
<1>11. CASE beside /\ attached
  <2>1. PICK y : y = Turned(s, k)
    OBVIOUS
  <2>2. /\ y \in WindowStep /\ y.in = s.in /\ y.shown = s.shown /\ y.refs = s.refs
        /\ \A c \in Cid : ~TurnsBack(s, k, c) => y.open[c] = s.open[c]
        /\ \A c \in Cid : \A q : HasOpen(y, c, q) <=> HasOpen(s, c, q)
    BY <1>1, <2>1, TurningFits
  <2>3. PICK f : f = [c \in Cid |-> IF HasOpen(y, c, k) THEN RemoveTold(s, k, slot, c)
                                    ELSE y.shown[c]]
    OBVIOUS
  <2>4. d = [y EXCEPT !.shown = f]
    BY <1>9, <1>11, <2>1, <2>3 DEF SendRemove, Tell
  <2>5. PICK g : g = y.open
    OBVIOUS
  <2>6. g \in [Cid -> OpenWindow \cup {None}]
    BY <2>2, <2>5, StepFields
  <2>7. PICK m : m = [s.in EXCEPT ![k] = x]
    OBVIOUS
  <2>8. d = [in |-> s.in, open |-> g, shown |-> f, refs |-> s.refs]
    <3>1. y = [in |-> y.in, open |-> y.open, shown |-> y.shown, refs |-> y.refs]
      BY <2>2, StepIs
    <3> QED
      BY <2>2, <2>4, <2>5, <3>1
  <2>9. t = [in |-> m, open |-> g, shown |-> f, refs |-> s.refs]
    <3>1. d.in[k] = v
      BY <1>2, <2>8
    <3>2. t = [d EXCEPT !.in[k] = x]
      BY <1>6, <1>7, <1>10, <3>1
    <3> QED
      BY <2>7, <2>8, <3>2
  <2>10. f = [c \in Cid |-> f[c]]
    BY <2>3
  <2>11. ASSUME NEW c \in Cid, ~HasOpen(s, c, k)
         PROVE  g[c] = s.open[c] /\ f[c] = s.shown[c]
    <3>1. ~TurnsBack(s, k, c) /\ ~HasOpen(y, c, k)
      BY <2>2, <2>11 DEF TurnsBack
    <3> QED
      BY <2>2, <2>3, <2>5, <3>1
  <2>12. ASSUME NEW c \in Cid, HasOpen(s, c, k)
         PROVE  g[c] # None /\ g[c].container = k /\ ShowsPage(f[c], g[c].index, x)
    <3>1. HasOpen(y, c, k)
      BY <2>2, <2>12
    <3>2. g[c] # None /\ g[c].container = k
      BY <2>5, <3>1 DEF HasOpen
    <3>3. ShowsPage(RemoveTold(s, k, slot, c), y.open[c].index, x)
      BY <1>2, <1>4, <1>5, <1>7, <2>1, <2>12, RemovingTells
    <3>4. f[c] = RemoveTold(s, k, slot, c)
      BY <2>3, <3>1
    <3> QED
      BY <2>5, <3>2, <3>3, <3>4
  <2>13. /\ SoundBut(t, {}) /\ OtherRefs(t) = OtherRefs(s)
         /\ \A q : WindowsOn(t, q) = WindowsOn(s, q)
    <3>1. \A c \in Cid : ~HasOpen(s, c, k) => g[c] = s.open[c] /\ f[c] = s.shown[c]
      BY <2>11
    <3>2. \A c \in Cid : HasOpen(s, c, k) =>
             g[c] # None /\ g[c].container = k /\ ShowsPage(f[c], g[c].index, x)
      BY <2>12
    <3>3. x \in Seq(Content) /\ SoundBut(s, {}) /\ k \in Kept
      BY <1>8
    <3>4. SoundBut(t, {})
      BY <2>6, <2>7, <2>9, <2>10, <3>1, <3>2, <3>3, ChangeShows
    <3>5. OtherRefs(t) = OtherRefs(s)
      BY <2>6, <2>7, <2>9, <2>10, <3>1, <3>2, <3>3, ChangeShows
    <3>6. ASSUME NEW q
          PROVE  WindowsOn(t, q) = WindowsOn(s, q)
      BY <2>6, <2>7, <2>9, <2>10, <3>1, <3>2, <3>3, ChangeShows
    <3> QED
      BY <3>4, <3>5, <3>6
  <2>14. t.in = m /\ t.open = g /\ x = u
    <3>1. t.in = m /\ t.open = g
      BY <2>9
    <3>2. m[k] = x
      BY <1>1, <2>7, StepFields DEF Contents
    <3> QED
      BY <3>1, <3>2
  <2>15. \A c \in Cid : s.open[c] = None => t.open[c] = None
    <3>1. \A c \in Cid : s.open[c] = None => ~HasOpen(s, c, k)
      BY DEF HasOpen
    <3> QED
      BY <2>11, <2>14, <3>1
  <2> QED
    BY <1>2, <1>4, <1>8, <1>11, <2>7, <2>13, <2>14, <2>15
<1>12. CASE ~(beside /\ attached)
  <2>1. t = Filled(s, k, x)
    BY <1>2, <1>6, <1>7, <1>9, <1>10, <1>12 DEF Filled
  <2>2. /\ t \in WindowStep /\ t.in = [s.in EXCEPT ![k] = x] /\ t.in[k] = x
        /\ t.open = s.open /\ t.shown = s.shown /\ t.refs = s.refs
        /\ \A c, q : HasOpen(t, c, q) <=> HasOpen(s, c, q)
    BY <1>1, <1>8, <2>1, FillingFits
  <2>3. \A c \in Cid : s.shown[c] = None
    <3>1. CASE ~attached
      BY <3>1
    <3>2. CASE ~beside
      BY <3>2 DEF SoundBut, Fits
    <3> QED
      BY <1>12, <3>1, <3>2
  <2>4. SoundBut(t, {})
    <3>1. t \in WindowStep /\ \A c \in Cid : t.shown[c] = None
      BY <2>2, <2>3
    <3> QED
      BY <3>1 DEF SoundBut, Fits
  <2>5. \A q : WindowsOn(t, q) = WindowsOn(s, q)
    BY <2>2 DEF WindowsOn
  <2>6. OtherRefs(t) = OtherRefs(s)
    BY <2>2, <2>5 DEF OtherRefs
  <2> QED
    BY <1>2, <1>4, <1>8, <2>2, <2>3, <2>4, <2>5, <2>6
<1> QED
  BY <1>11, <1>12

\* A change to an item that the client makes in a page.
LEMMA ChangingShows ==
  ASSUME NEW first \in Nat, NEW v \in Seq(Content), NEW n \in 1 .. Len(v), NEW j \in Content,
         NEW u, u = Changed(v, n, j), NEW w, ShowsPage(w, first, v),
         NEW slot, slot = n - 1, NEW r,
         r = IF slot \in first .. first + PageSize - 1 THEN ChangedTo(w, slot, j) ELSE w
  PROVE  ShowsPage(r, first, u)
<1>1. PICK l \in Nat : l = Len(v)
  BY LenProperties
<1>2. n \in Nat /\ n >= 1 /\ n <= l /\ PageSize \in Nat /\ PageSize > 0
  BY <1>1, WindowsNumbers
<1>3. PICK k \in Int : k = slot - first
  <2>1. slot - first \in Int
    BY <1>2
  <2> QED
    BY <2>1
<1>4. PICK p : p = Page(v, first)
  OBVIOUS
<1>5. p \in Seq(Content) /\ Len(p) <= PageSize
  <2>1. Pages(Content, p, v, first)
    BY <1>4, PageIs
  <2>2. PageLength(Len(v), first) <= PageSize
    BY <1>1, PageLengths
  <2> QED
    BY <2>1, <2>2 DEF Pages
<1>6. /\ k \notin 0 .. Len(p) - 1 => Page(u, first) = p
      /\ k \in 0 .. Len(p) - 1 => Page(u, first) = Changed(p, k + 1, j)
  <2>1. k = n - 1 - first
    BY <1>3
  <2> QED
    BY <1>4, <2>1, ChangedOnPage
<1>7. CASE w = None
  <2>1. r = None
    BY <1>7 DEF ChangedTo
  <2> QED
    BY <2>1 DEF ShowsPage
<1>8. CASE w # None
  <2>1. /\ w \in ClientWindow /\ w.first = first /\ Len(w.list) <= PageSize
        /\ w.sure => w.list = p
    BY <1>4, <1>8 DEF ShowsPage
  <2>2. w.list \in Seq(Content) /\ w.sure \in BOOLEAN /\ w.first \in Nat
    BY <2>1 DEF ClientWindow
  <2>3. PICK len \in Nat : len = Len(w.list)
    BY <2>2, LenProperties
  <2>4. CASE k \notin 0 .. len - 1
    <3>1. r = w
      BY <1>3, <1>8, <2>1, <2>3, <2>4 DEF ChangedTo
    <3>2. w.sure => w.list = Page(u, first)
      BY <1>6, <2>1, <2>3, <2>4
    <3> QED
      BY <2>1, <3>1, <3>2 DEF ShowsPage
  <2>5. CASE k \in 0 .. len - 1
    <3>1. slot \in first .. first + PageSize - 1
      BY <1>2, <1>3, <2>1, <2>3, <2>5
    <3>2. PICK m : m = Changed(w.list, k + 1, j)
      OBVIOUS
    <3>3. m \in Seq(Content) /\ Len(m) = len
      <4>1. k + 1 \in 1 .. Len(w.list)
        BY <2>3, <2>5
      <4> QED
        BY <2>2, <2>3, <3>2, <4>1, ExceptSeq DEF Changed
    <3>4. r = [w EXCEPT !.list = m]
      BY <1>3, <1>8, <2>1, <2>3, <2>5, <3>1, <3>2 DEF ChangedTo, Changed
    <3>5. r \in ClientWindow /\ r.first = first /\ r.list = m /\ r.sure = w.sure
      BY <2>1, <3>3, <3>4 DEF ClientWindow
    <3>6. ASSUME w.sure
          PROVE  m = Page(u, first)
      <4>1. w.list = p
        BY <2>1, <3>6
      <4> QED
        BY <1>6, <2>3, <2>5, <3>2, <4>1
    <3> QED
      BY <2>1, <2>3, <3>3, <3>5, <3>6 DEF ShowsPage
  <2> QED
    BY <2>4, <2>5
<1> QED
  BY <1>7, <1>8
LEMMA UpdatingTells ==
  ASSUME NEW s, SoundBut(s, {}), NEW k \in Kept, NEW v, v = s.in[k], NEW n \in 1 .. Len(v),
         NEW j \in Content, NEW x, x = Changed(v, n, j), NEW z, z = Filled(s, k, x),
         NEW slot, slot = n - 1, NEW t,
         attached \/ \A c \in Cid : s.shown[c] = None,
         ~beside => \A c \in Cid : s.open[c] = None,
         t = IF beside /\ attached THEN SendUpdate(z, k, slot, j) ELSE z
  PROVE  /\ SoundBut(t, {})
         /\ t.in = [s.in EXCEPT ![k] = x] /\ x \in Seq(Content)
         /\ t.open = s.open
         /\ \A c \in Cid : t.shown[c] # None => attached
         /\ OtherRefs(t) = OtherRefs(s)
<1>1. s \in WindowStep
  BY DEF SoundBut
<1>2. v \in Seq(Content)
  BY <1>1, StepFields DEF Contents
<1>3. x \in Seq(Content)
  BY <1>2, ExceptSeq DEF Changed
<1>4. /\ z \in WindowStep /\ z.in = [s.in EXCEPT ![k] = x] /\ z.in[k] = x
      /\ z.open = s.open /\ z.shown = s.shown /\ z.refs = s.refs
      /\ \A c, q : HasOpen(z, c, q) <=> HasOpen(s, c, q)
  BY <1>1, <1>3, FillingFits
<1>5. CASE beside /\ attached
  <2>1. PICK f : f = [c \in Cid |-> IF HasOpen(z, c, k) THEN UpdateTold(z, slot, j, c)
                                    ELSE z.shown[c]]
    OBVIOUS
  <2>2. t = [z EXCEPT !.shown = f]
    BY <1>5, <2>1 DEF SendUpdate, Tell
  <2>3. PICK m : m = [s.in EXCEPT ![k] = x]
    OBVIOUS
  <2>4. PICK g : g = s.open
    OBVIOUS
  <2>5. g \in [Cid -> OpenWindow \cup {None}]
    BY <1>1, <2>4, StepFields
  <2>6. z = [in |-> m, open |-> g, shown |-> s.shown, refs |-> s.refs]
    BY <1>4, <2>3, <2>4, StepIs
  <2>7. t = [in |-> m, open |-> g, shown |-> f, refs |-> s.refs]
    BY <2>2, <2>6
  <2>8. f = [c \in Cid |-> f[c]]
    BY <2>1
  <2>9. \A c \in Cid : ~HasOpen(s, c, k) => g[c] = s.open[c] /\ f[c] = s.shown[c]
    BY <1>4, <2>1, <2>4
  <2>10. ASSUME NEW c \in Cid, HasOpen(s, c, k)
         PROVE  g[c] # None /\ g[c].container = k /\ ShowsPage(f[c], g[c].index, x)
    <3>1. g[c] # None /\ g[c].container = k
      BY <2>4, <2>10 DEF HasOpen
    <3>2. PICK first : first = g[c].index
      OBVIOUS
    <3>3. first \in Nat
      BY <2>5, <3>1, <3>2, PageStarts DEF OpenWindow
    <3>4. PICK w : w = s.shown[c]
      OBVIOUS
    <3>5. ShowsPage(w, first, v)
      BY <2>4, <2>10, <3>2, <3>4, FitsShows
    <3>6. f[c] = IF slot \in first .. first + PageSize - 1 THEN ChangedTo(w, slot, j) ELSE w
      BY <1>4, <2>1, <2>4, <2>10, <3>2, <3>4 DEF UpdateTold
    <3>7. ShowsPage(f[c], first, x)
      BY <1>2, <3>3, <3>5, <3>6, ChangingShows
    <3> QED
      BY <3>1, <3>2, <3>7
  <2>11. \A c \in Cid : HasOpen(s, c, k) =>
            g[c] # None /\ g[c].container = k /\ ShowsPage(f[c], g[c].index, x)
    BY <2>10
  <2>12. SoundBut(t, {})
    BY <1>3, <2>3, <2>5, <2>7, <2>8, <2>9, <2>11, ChangeShows
  <2>13. OtherRefs(t) = OtherRefs(s)
    BY <1>3, <2>3, <2>5, <2>7, <2>8, <2>9, <2>11, ChangeShows
  <2>14. t.in = m /\ t.open = g
    BY <2>7
  <2> QED
    BY <1>3, <1>5, <2>3, <2>4, <2>12, <2>13, <2>14
<1>6. CASE ~(beside /\ attached)
  <2>1. t = z
    BY <1>6
  <2>2. \A c \in Cid : s.shown[c] = None
    <3>1. CASE ~attached
      BY <3>1
    <3>2. CASE ~beside
      BY <3>2 DEF SoundBut, Fits
    <3> QED
      BY <1>6, <3>1, <3>2
  <2>3. SoundBut(t, {})
    <3>1. t \in WindowStep /\ \A c \in Cid : t.shown[c] = None
      BY <1>4, <2>1, <2>2
    <3> QED
      BY <3>1 DEF SoundBut, Fits
  <2>4. WindowsOn(t, "field") = WindowsOn(s, "field")
    BY <1>4, <2>1 DEF WindowsOn
  <2>5. OtherRefs(t) = OtherRefs(s)
    BY <1>4, <2>1, <2>4 DEF OtherRefs
  <2> QED
    BY <1>3, <1>4, <2>1, <2>2, <2>3, <2>5
<1> QED
  BY <1>5, <1>6

-----------------------------------------------------------------------------
(* An item is in one place, once.                                           *)

Once(S, s) == s \in Seq(S) /\ \A a, b \in 1 .. Len(s) : s[a] = s[b] => a = b

LEMMA OnceIs ==
  ASSUME NEW S, NEW s \in Seq(S)
  PROVE  /\ Once(S, s) <=> IsInjective(s)
         /\ \A x : x \in Range(s) <=> \E a \in 1 .. Len(s) : s[a] = x
         /\ Range(s) \subseteq S
<1>1. DOMAIN s = 1 .. Len(s)
  BY LenProperties
<1>2. \A x : x \in Range(s) <=> \E a \in 1 .. Len(s) : s[a] = x
  BY <1>1 DEF Range
<1>3. \A a \in 1 .. Len(s) : s[a] \in S
  BY ElementOfSeq
<1> QED
  BY <1>1, <1>2, <1>3 DEF Once, IsInjective

LEMMA MoreInside ==
  ASSUME NEW S, NEW s, Once(S, s), NEW i \in S, i \notin Range(s), NEW u,
         InFront(S, u, s, i) \/ Behind(S, u, s, i)
  PROVE  Once(S, u) /\ Range(u) = Range(s) \cup {i}
<1>1. s \in Seq(S) /\ u \in Seq(S)
  BY DEF Once, InFront, Behind
<1>2. PICK n \in Nat : n = Len(s)
  BY <1>1, LenProperties
<1>3. \A a, b \in 1 .. n : s[a] = s[b] => a = b
  BY <1>2 DEF Once
<1>4. /\ \A a \in 1 .. n : s[a] # i
      /\ \A x : x \in Range(s) <=> \E a \in 1 .. n : s[a] = x
  BY <1>1, <1>2, OnceIs
<1>5. Len(u) = n + 1
  BY <1>2 DEF InFront, Behind
<1>6. \A x : x \in Range(u) <=> \E a \in 1 .. n + 1 : u[a] = x
  BY <1>1, <1>5, OnceIs
<1>7. CASE InFront(S, u, s, i)
  <2>1. u[1] = i /\ \A a \in 2 .. n + 1 : u[a] = s[a - 1]
    BY <1>2, <1>7 DEF InFront
  <2>2. \A a \in 1 .. n : a + 1 \in 2 .. n + 1 /\ (a + 1) - 1 = a
    OBVIOUS
  <2>3. \A a \in 1 .. n : u[a + 1] = s[a]
    BY <2>1, <2>2
  <2>4. \A a \in 1 .. n + 1 : a = 1 \/ \E h \in 1 .. n : a = h + 1
    <3>1. ASSUME NEW a \in 1 .. n + 1, a # 1
          PROVE  \E h \in 1 .. n : a = h + 1
      <4>1. a - 1 \in 1 .. n /\ a = (a - 1) + 1
        BY <3>1
      <4> QED
        BY <4>1
    <3> QED
      BY <3>1
  <2>5. ASSUME NEW a \in 1 .. n + 1, NEW b \in 1 .. n + 1, u[a] = u[b]
        PROVE  a = b
    <3>1. CASE a = 1 /\ b = 1
      BY <3>1
    <3>2. CASE a = 1 /\ b # 1
      BY <1>4, <2>1, <2>3, <2>4, <2>5, <3>2
    <3>3. CASE a # 1 /\ b = 1
      BY <1>4, <2>1, <2>3, <2>4, <2>5, <3>3
    <3>4. CASE a # 1 /\ b # 1
      <4>1. PICK h \in 1 .. n : a = h + 1
        BY <2>4, <3>4
      <4>2. PICK g \in 1 .. n : b = g + 1
        BY <2>4, <3>4
      <4>3. h = g
        BY <1>3, <2>3, <2>5, <4>1, <4>2
      <4> QED
        BY <4>1, <4>2, <4>3
    <3> QED
      BY <3>1, <3>2, <3>3, <3>4
  <2>6. ASSUME NEW x
        PROVE  x \in Range(u) <=> x \in Range(s) \/ x = i
    <3>1. ASSUME x \in Range(u)
          PROVE  x \in Range(s) \/ x = i
      BY <1>4, <1>6, <2>1, <2>3, <2>4, <3>1
    <3>2. ASSUME x \in Range(s)
          PROVE  x \in Range(u)
      <4>1. PICK a \in 1 .. n : s[a] = x
        BY <1>4, <3>2
      <4>2. a + 1 \in 1 .. n + 1 /\ u[a + 1] = x
        BY <2>3, <4>1
      <4> QED
        BY <1>6, <4>2
    <3>3. i \in Range(u)
      <4>1. 1 \in 1 .. n + 1
        OBVIOUS
      <4> QED
        BY <1>6, <2>1, <4>1
    <3> QED
      BY <3>1, <3>2, <3>3
  <2> QED
    BY <1>1, <1>5, <2>5, <2>6 DEF Once
<1>8. CASE Behind(S, u, s, i)
  <2>1. u[n + 1] = i /\ \A a \in 1 .. n : u[a] = s[a]
    BY <1>2, <1>8 DEF Behind
  <2>2. \A a \in 1 .. n + 1 : a = n + 1 \/ a \in 1 .. n
    OBVIOUS
  <2>3. ASSUME NEW a \in 1 .. n + 1, NEW b \in 1 .. n + 1, u[a] = u[b]
        PROVE  a = b
    BY <1>3, <1>4, <2>1, <2>2, <2>3
  <2>4. ASSUME NEW x
        PROVE  x \in Range(u) <=> x \in Range(s) \/ x = i
    <3>1. ASSUME x \in Range(u)
          PROVE  x \in Range(s) \/ x = i
      BY <1>4, <1>6, <2>1, <2>2, <3>1
    <3>2. ASSUME x \in Range(s)
          PROVE  x \in Range(u)
      <4>1. PICK a \in 1 .. n : s[a] = x
        BY <1>4, <3>2
      <4>2. a \in 1 .. n + 1 /\ u[a] = x
        BY <2>1, <4>1
      <4> QED
        BY <1>6, <4>2
    <3>3. i \in Range(u)
      <4>1. n + 1 \in 1 .. n + 1
        OBVIOUS
      <4> QED
        BY <1>6, <2>1, <4>1
    <3> QED
      BY <3>1, <3>2, <3>3
  <2> QED
    BY <1>1, <1>5, <2>3, <2>4 DEF Once
<1> QED
  BY <1>7, <1>8

LEMMA LessInside ==
  ASSUME NEW S, NEW s, Once(S, s), NEW n \in 1 .. Len(s), NEW u, Narrows(S, u, s, n)
  PROVE  Once(S, u) /\ Range(u) = Range(s) \ {s[n]}
<1>1. s \in Seq(S) /\ u \in Seq(S)
  BY DEF Once, Narrows
<1>2. PICK l \in Nat : l = Len(s)
  BY <1>1, LenProperties
<1>3. \A a, b \in 1 .. l : s[a] = s[b] => a = b
  BY <1>2 DEF Once
<1>4. n \in Nat /\ n >= 1 /\ n <= l /\ Len(u) = l - 1
  BY <1>2 DEF Narrows
<1>5. PICK m \in Nat : m = l - 1
  <2>1. l - 1 \in Nat
    BY <1>4
  <2> QED
    BY <2>1
<1>6. \A a \in 1 .. m : u[a] = IF a < n THEN s[a] ELSE s[a + 1]
  BY <1>2, <1>5 DEF Narrows
<1>7. /\ \A x : x \in Range(s) <=> \E a \in 1 .. l : s[a] = x
      /\ \A x : x \in Range(u) <=> \E a \in 1 .. m : u[a] = x
  BY <1>1, <1>2, <1>4, <1>5, OnceIs
<1>8. ASSUME NEW a \in 1 .. m
      PROVE  \E h \in 1 .. l : h = (IF a < n THEN a ELSE a + 1) /\ u[a] = s[h] /\ h # n
  <2>1. CASE a < n
    <3>1. a \in 1 .. l /\ a # n
      BY <1>4, <1>5, <2>1
    <3> QED
      BY <1>6, <2>1, <3>1
  <2>2. CASE ~(a < n)
    <3>1. a + 1 \in 1 .. l /\ a + 1 # n
      BY <1>4, <1>5, <2>2
    <3> QED
      BY <1>6, <2>2, <3>1
  <2> QED
    BY <2>1, <2>2
<1>9. ASSUME NEW a \in 1 .. m, NEW b \in 1 .. m, u[a] = u[b]
      PROVE  a = b
  <2>1. PICK h \in 1 .. l : h = (IF a < n THEN a ELSE a + 1) /\ u[a] = s[h]
    BY <1>8
  <2>2. PICK g \in 1 .. l : g = (IF b < n THEN b ELSE b + 1) /\ u[b] = s[g]
    BY <1>8
  <2>3. h = g
    BY <1>3, <1>9, <2>1, <2>2
  <2> QED
    BY <1>4, <2>1, <2>2, <2>3
<1>10. ASSUME NEW x
       PROVE  x \in Range(u) <=> x \in Range(s) /\ x # s[n]
  <2>1. ASSUME x \in Range(u)
        PROVE  x \in Range(s) /\ x # s[n]
    <3>1. PICK a \in 1 .. m : u[a] = x
      BY <1>7, <2>1
    <3>2. PICK h \in 1 .. l : x = s[h] /\ h # n
      BY <1>8, <3>1
    <3>3. x # s[n]
      BY <1>3, <1>4, <3>2
    <3> QED
      BY <1>7, <3>2, <3>3
  <2>2. ASSUME x \in Range(s), x # s[n]
        PROVE  x \in Range(u)
    <3>1. PICK a \in 1 .. l : s[a] = x
      BY <1>7, <2>2
    <3>2. a # n
      BY <2>2, <3>1
    <3>3. CASE a < n
      <4>1. a \in 1 .. m
        BY <1>4, <1>5, <3>3
      <4> QED
        BY <1>6, <1>7, <3>1, <3>3, <4>1
    <3>4. CASE a > n
      <4>1. a - 1 \in 1 .. m /\ ~(a - 1 < n) /\ (a - 1) + 1 = a
        BY <1>4, <1>5, <3>4
      <4>2. u[a - 1] = x
        BY <1>6, <3>1, <4>1
      <4> QED
        BY <1>7, <4>1, <4>2
    <3> QED
      BY <1>4, <3>2, <3>3, <3>4
  <2> QED
    BY <2>1, <2>2
<1> QED
  BY <1>1, <1>4, <1>5, <1>9, <1>10 DEF Once

LEMMA OtherInside ==
  ASSUME NEW S, NEW s, Once(S, s), NEW n \in 1 .. Len(s), NEW e \in S, e \notin Range(s),
         NEW u, u = Changed(s, n, e)
  PROVE  Once(S, u) /\ Range(u) = (Range(s) \ {s[n]}) \cup {e}
<1>1. s \in Seq(S)
  BY DEF Once
<1>2. PICK l \in Nat : l = Len(s)
  BY <1>1, LenProperties
<1>3. \A a, b \in 1 .. l : s[a] = s[b] => a = b
  BY <1>2 DEF Once
<1>4. /\ u \in Seq(S) /\ Len(u) = l
      /\ \A j \in 1 .. l : u[j] = IF j = n THEN e ELSE s[j]
  BY <1>1, <1>2, ExceptSeq DEF Changed
<1>5. /\ \A x : x \in Range(s) <=> \E a \in 1 .. l : s[a] = x
      /\ \A x : x \in Range(u) <=> \E a \in 1 .. l : u[a] = x
  BY <1>1, <1>2, <1>4, OnceIs
<1>6. n \in 1 .. l /\ \A a \in 1 .. l : s[a] # e
  BY <1>2, <1>5
<1>7. \A a, b \in 1 .. l : u[a] = u[b] => a = b
  BY <1>3, <1>4, <1>6
<1>8. ASSUME NEW x
      PROVE  x \in Range(u) <=> (x \in Range(s) /\ x # s[n]) \/ x = e
  BY <1>3, <1>4, <1>5, <1>6
<1> QED
  BY <1>4, <1>7, <1>8 DEF Once
-----------------------------------------------------------------------------
(* The inductive invariant.                                                 *)

\* A box nobody holds is not open.
BoxHeld(s) ==
    (\A k \in Kept : "box" \notin Range(s.in[k])) => \A c \in Cid : ~HasOpen(s, c, "box")

\* All of it that is in a step record s, with n references that are no window's, of
\* a player who is near, and who has a client.
WindowsFit(s, n, near, there) ==
    /\ SoundBut(s, {}) /\ OtherRefs(s) = n
    /\ \A k \in Kept : Once(Content, s.in[k])
    /\ ~near => \A c \in Cid : s.open[c] = None
    /\ ~there => \A c \in Cid : s.shown[c] = None
    /\ BoxHeld(s)

\* The references that are no window's are the event's and those of earlier games.
HeldByOthers == (IF browsing.event THEN 1 ELSE 0) + leaks

WindowsInv ==
    /\ WindowsFit(AsItStands, HeldByOthers, beside, attached)
    /\ browsing \in [refs : Int, event : BOOLEAN]
    /\ beside \in BOOLEAN /\ attached \in BOOLEAN /\ leaks \in 0..MaxLeaks

LEMMA AsItStandsIs ==
  /\ AsItStands.in = inside /\ AsItStands.open = openContainers
  /\ AsItStands.shown = windows /\ AsItStands.refs = browsing.refs
  BY DEF AsItStands

LEMMA WindowsBecoming ==
  ASSUME WindowsInv, NEW s, NEW b, b \in [refs : {s.refs}, event : BOOLEAN],
         NEW n, n = (IF b.event THEN 1 ELSE 0) + leaks,
         WindowsFit(s, n, beside, attached),
         inside' = s.in, openContainers' = s.open, windows' = s.shown, browsing' = b,
         UNCHANGED <<beside, attached, leaks>>
  PROVE  WindowsInv'
<1>1. s \in WindowStep
  BY DEF WindowsFit, SoundBut
<1>2. b.refs = s.refs /\ b.event \in BOOLEAN /\ b \in [refs : Int, event : BOOLEAN]
  <2>1. s.refs \in Int
    BY <1>1, StepFields
  <2> QED
    BY <2>1
<1>3. AsItStands' = s
  <2>1. s = [in |-> s.in, open |-> s.open, shown |-> s.shown, refs |-> s.refs]
    BY <1>1, StepIs
  <2> QED
    BY <1>2, <2>1 DEF AsItStands
<1>4. HeldByOthers' = n
  BY DEF HeldByOthers
<1>5. WindowsFit(AsItStands', HeldByOthers', beside', attached')
  BY <1>3, <1>4
<1> QED
  BY <1>2, <1>5 DEF WindowsInv

\* ... where the event of the field stays as it is,
LEMMA StepBecomes ==
  ASSUME WindowsInv, NEW s, WindowsFit(s, HeldByOthers, beside, attached), WindowsBecome(s)
  PROVE  WindowsInv'
<1>1. PICK b : b = [browsing EXCEPT !.refs = s.refs]
  OBVIOUS
<1>2. b \in [refs : {s.refs}, event : BOOLEAN] /\ b.event = browsing.event
  BY <1>1 DEF WindowsInv
<1>3. PICK n : n = (IF b.event THEN 1 ELSE 0) + leaks
  OBVIOUS
<1>4. n = HeldByOthers
  BY <1>2, <1>3 DEF HeldByOthers
<1>5. /\ inside' = s.in /\ openContainers' = s.open /\ windows' = s.shown /\ browsing' = b
      /\ UNCHANGED <<beside, attached, leaks>>
  BY <1>1 DEF WindowsBecome
<1> QED
  BY <1>2, <1>3, <1>4, <1>5, WindowsBecoming

\* ... and where the field may be browsed for the first time.
LEMMA FieldIsMade ==
  ASSUME WindowsInv, NEW s, s = FieldMade(AsItStands)
  PROVE  /\ SoundBut(s, {}) /\ s.in = inside /\ s.open = openContainers /\ s.shown = windows
         /\ OtherRefs(s) = (IF browsing.event \/ browsing.refs = 0 THEN 1 ELSE 0) + leaks
<1>1. PICK a : a = AsItStands
  OBVIOUS
<1>2. /\ SoundBut(a, {}) /\ a \in WindowStep /\ OtherRefs(a) = HeldByOthers
      /\ a.in = inside /\ a.open = openContainers /\ a.shown = windows /\ a.refs = browsing.refs
  BY <1>1, AsItStandsIs DEF WindowsInv, WindowsFit, SoundBut
<1>3. CASE browsing.refs = 0
  <2>1. s = [a EXCEPT !.refs = 1]
    BY <1>1, <1>2, <1>3 DEF FieldMade
  <2>2. /\ s \in WindowStep /\ s.in = a.in /\ s.open = a.open /\ s.shown = a.shown
        /\ s.refs = 1
    BY <1>2, <2>1 DEF WindowStep
  <2>3. SoundBut(s, {})
    BY <1>2, <2>2 DEF SoundBut
  <2>4. WindowsOn(s, "field") = WindowsOn(a, "field")
    BY <2>2 DEF WindowsOn, HasOpen
  <2>5. PICK w \in Nat : w = Cardinality(WindowsOn(a, "field"))
    BY WindowsCounted, WindowsNumbers
  <2>6. OtherRefs(a) = 0 - w /\ OtherRefs(s) = 1 - w
    BY <1>2, <1>3, <2>2, <2>4, <2>5 DEF OtherRefs
  <2>7. 0 - w = (IF browsing.event THEN 1 ELSE 0) + leaks /\ leaks \in Nat
    BY <1>2, <2>6, WindowsNumbers DEF HeldByOthers, WindowsInv
  <2>8. w = 0 /\ leaks = 0
    BY <2>5, <2>7
  <2> QED
    BY <1>2, <1>3, <2>2, <2>3, <2>6, <2>8
<1>4. CASE browsing.refs # 0
  <2>1. s = a
    BY <1>1, <1>2, <1>4 DEF FieldMade
  <2> QED
    BY <1>2, <1>4, <2>1 DEF HeldByOthers
<1> QED
  BY <1>3, <1>4

LEMMA BrowsingBecomes ==
  ASSUME WindowsInv, NEW s, NEW n,
         n = (IF browsing.event \/ browsing.refs = 0 THEN 1 ELSE 0) + leaks,
         WindowsFit(s, n, beside, attached), BecomesBrowsed(s)
  PROVE  WindowsInv'
<1>1. PICK b : b = [refs |-> s.refs, event |-> browsing.event \/ browsing.refs = 0]
  OBVIOUS
<1>2. /\ b \in [refs : {s.refs}, event : BOOLEAN]
      /\ b.event <=> browsing.event \/ browsing.refs = 0
  BY <1>1
<1>3. n = (IF b.event THEN 1 ELSE 0) + leaks
  BY <1>2
<1>4. /\ inside' = s.in /\ openContainers' = s.open /\ windows' = s.shown /\ browsing' = b
      /\ UNCHANGED <<beside, attached, leaks>>
  BY <1>1 DEF BecomesBrowsed
<1> QED
  BY <1>2, <1>3, <1>4, WindowsBecoming

-----------------------------------------------------------------------------
(* Windows are opened and closed.                                           *)

\* A window is opened on a container k that is there.
LEMMA OpeningOne ==
  ASSUME NEW s, NEW n, WindowsFit(s, n, beside, attached), beside,
         NEW cid \in Cid, NEW k \in Kept,
         k = "box" => \E q \in Kept : "box" \in Range(s.in[q]),
         NEW t, t = Opened(ContainerAdded(s, cid, k), cid)
  PROVE  WindowsFit(t, n, beside, attached)
<1>1. SoundBut(s, {}) /\ OtherRefs(s) = n /\ BoxHeld(s)
  BY DEF WindowsFit
<1>2. PICK E : E = {}
  OBVIOUS
<1>3. SoundBut(s, E)
  BY <1>1, <1>2
<1>4. PICK y : y = ContainerAdded(s, cid, k)
  OBVIOUS
<1>0. SoundBut(y, E \cup {cid}) /\ Opens(y, s, cid, k)
  BY <1>3, <1>4, AddingOpens
<1>5. /\ y.in = s.in /\ y.shown = s.shown
      /\ y.open[cid] # None /\ HasOpen(y, cid, k)
      /\ \A c \in Cid : c # cid => y.open[c] = s.open[c]
      /\ y.open[cid].container = k
      /\ OtherRefs(y) = OtherRefs(s)
  BY <1>0 DEF Opens
<1>6. E \cup {cid} = {cid} /\ {cid} \ {cid} = {}
  BY <1>2
<1>7. SoundBut(y, {cid})
  BY <1>0, <1>6
<1>8. attached \/ y.shown[cid] = None
  BY <1>5 DEF WindowsFit
<1>9. t = Opened(y, cid)
  BY <1>4
<1>15. Showing(t, y, {cid}, cid)
  BY <1>5, <1>7, <1>8, <1>9, OpeningShows
<1>10. /\ SoundBut(t, {cid} \ {cid})
       /\ t.in = y.in /\ t.open = y.open
       /\ \A c \in Cid : t.shown[c] # None => y.shown[c] # None \/ attached
       /\ OtherRefs(t) = OtherRefs(y)
  BY <1>15 DEF Showing
<1>11. BoxHeld(t)
  <2> SUFFICES ASSUME \A q \in Kept : "box" \notin Range(t.in[q]), NEW c \in Cid
               PROVE  ~HasOpen(t, c, "box")
    BY DEF BoxHeld
  <2>1. \A q \in Kept : "box" \notin Range(s.in[q])
    BY <1>5, <1>10
  <2>2. ~HasOpen(s, c, "box") /\ k # "box"
    BY <1>1, <2>1 DEF BoxHeld
  <2>3. CASE c = cid
    BY <1>5, <1>10, <2>2, <2>3 DEF HasOpen
  <2>4. CASE c # cid
    BY <1>5, <1>10, <2>2, <2>4 DEF HasOpen
  <2> QED
    BY <2>3, <2>4
<1>12. ~attached => \A c \in Cid : t.shown[c] = None
  BY <1>5, <1>10 DEF WindowsFit
<1>13. \A q \in Kept : Once(Content, t.in[q])
  BY <1>5, <1>10 DEF WindowsFit
<1>14. SoundBut(t, {}) /\ OtherRefs(t) = n
  BY <1>1, <1>5, <1>6, <1>10
<1> QED
  BY <1>11, <1>12, <1>13, <1>14 DEF WindowsFit

\* A container is opened, and all windows on it are sent.
LEMMA OpeningAll ==
  ASSUME NEW s, NEW n, WindowsFit(s, n, beside, attached), beside,
         NEW cid \in Cid, NEW k \in Kept,
         k = "box" => \E q \in Kept : "box" \in Range(s.in[q]),
         NEW t, t = SendAll(ContainerAdded(s, cid, k), k)
  PROVE  WindowsFit(t, n, beside, attached)
<1>1. SoundBut(s, {}) /\ OtherRefs(s) = n /\ BoxHeld(s)
  BY DEF WindowsFit
<1>2. PICK E : E = {}
  OBVIOUS
<1>3. SoundBut(s, E)
  BY <1>1, <1>2
<1>4. PICK y : y = ContainerAdded(s, cid, k)
  OBVIOUS
<1>0. SoundBut(y, E \cup {cid}) /\ Opens(y, s, cid, k)
  BY <1>3, <1>4, AddingOpens
<1>5. /\ y.in = s.in /\ y.shown = s.shown
      /\ y.open[cid] # None /\ HasOpen(y, cid, k)
      /\ \A c \in Cid : c # cid => y.open[c] = s.open[c]
      /\ y.open[cid].container = k
      /\ OtherRefs(y) = OtherRefs(s)
  BY <1>0 DEF Opens
<1>6. E \cup {cid} = {cid}
  BY <1>2
<1>7. SoundBut(y, {cid})
  BY <1>0, <1>6
<1>8. attached \/ \A c \in Cid : y.shown[c] = None
  BY <1>5 DEF WindowsFit
<1>9. t = SendAll(y, k) /\ {cid} \in SUBSET WindowsOn(y, k)
  BY <1>4, <1>5 DEF WindowsOn
<1>10. /\ SoundBut(t, {})
       /\ t.in = y.in /\ t.open = y.open
       /\ \A c \in Cid : t.shown[c] # None => y.shown[c] # None \/ attached
       /\ OtherRefs(t) = OtherRefs(y)
  BY <1>7, <1>8, <1>9, SendingAll
<1>11. BoxHeld(t)
  <2> SUFFICES ASSUME \A q \in Kept : "box" \notin Range(t.in[q]), NEW c \in Cid
               PROVE  ~HasOpen(t, c, "box")
    BY DEF BoxHeld
  <2>1. \A q \in Kept : "box" \notin Range(s.in[q])
    BY <1>5, <1>10
  <2>2. ~HasOpen(s, c, "box") /\ k # "box"
    BY <1>1, <2>1 DEF BoxHeld
  <2>3. CASE c = cid
    BY <1>5, <1>10, <2>2, <2>3 DEF HasOpen
  <2>4. CASE c # cid
    BY <1>5, <1>10, <2>2, <2>4 DEF HasOpen
  <2> QED
    BY <2>3, <2>4
<1>12. ~attached => \A c \in Cid : t.shown[c] = None
  BY <1>5, <1>10 DEF WindowsFit
<1>13. \A q \in Kept : Once(Content, t.in[q])
  BY <1>5, <1>10 DEF WindowsFit
<1>14. OtherRefs(t) = n
  BY <1>1, <1>5, <1>10
<1> QED
  BY <1>10, <1>11, <1>12, <1>13, <1>14 DEF WindowsFit

\* The container of a window is closed: all of the client's windows on it, and that
\* one of the server's.
LEMMA ClosingOne ==
  ASSUME NEW s, NEW n, WindowsFit(s, n, beside, attached), NEW k,
         NEW cid \in WindowsOn(s, k), NEW t, t = Closed(CloseAll(s, k), {cid})
  PROVE  WindowsFit(t, n, beside, attached)
<1>1. SoundBut(s, {}) /\ OtherRefs(s) = n /\ BoxHeld(s)
  BY DEF WindowsFit
<1>2. attached \/ \A c \in Cid : s.shown[c] = None
  BY DEF WindowsFit
<1>3. PICK y : y = CloseAll(s, k)
  OBVIOUS
<1>4. /\ SoundBut(y, {})
      /\ y.in = s.in /\ y.open = s.open
      /\ \A c \in Cid : y.shown[c] # None => s.shown[c] # None
      /\ \A c \in WindowsOn(s, k) : y.shown[c] = None
      /\ OtherRefs(y) = OtherRefs(s)
  BY <1>1, <1>2, <1>3, ClosingAll
<1>5. PICK E : E = {}
  OBVIOUS
<1>6. SoundBut(y, E) /\ E \cup {cid} = {cid}
  BY <1>4, <1>5
<1>7. t = Closed(y, {cid})
  BY <1>3
<1>8. /\ SoundBut(t, E \cup {cid})
      /\ t.in = y.in /\ t.shown = y.shown
      /\ \A c \in Cid : t.open[c] = IF c \in {cid} THEN None ELSE y.open[c]
      /\ OtherRefs(t) = OtherRefs(y)
  BY <1>6, <1>7, ClosingCloses
<1>9. SoundBut(t, {})
  <2>1. SoundBut(t, {cid})
    BY <1>6, <1>8
  <2>2. \A c \in Cid \cap {cid} : t.shown[c] = None
    BY <1>4, <1>8
  <2> QED
    BY <2>1, <2>2, UnseenFit
<1>10. \A c \in Cid : t.open[c] = None \/ t.open[c] = s.open[c]
  BY <1>4, <1>8
<1>11. BoxHeld(t)
  BY <1>1, <1>4, <1>8, <1>10 DEF BoxHeld, HasOpen
<1>12. ~attached => \A c \in Cid : t.shown[c] = None
  BY <1>4, <1>8 DEF WindowsFit
<1>13. \A q \in Kept : Once(Content, t.in[q])
  BY <1>4, <1>8 DEF WindowsFit
<1>14. ~beside => \A c \in Cid : t.open[c] = None
  BY <1>10 DEF WindowsFit
<1>15. OtherRefs(t) = n
  BY <1>1, <1>4, <1>8
<1> QED
  BY <1>9, <1>11, <1>12, <1>13, <1>14, <1>15 DEF WindowsFit
-----------------------------------------------------------------------------
(* Each action keeps the invariant.                                         *)

LEMMA InvParts ==
  ASSUME WindowsInv, NEW s, s = AsItStands
  PROVE  /\ WindowsFit(s, HeldByOthers, beside, attached)
         /\ SoundBut(s, {}) /\ s \in WindowStep /\ OtherRefs(s) = HeldByOthers
         /\ s.in = inside /\ s.open = openContainers /\ s.shown = windows
         /\ s.refs = browsing.refs
         /\ \A cid \in Cid : openContainers[cid] # None =>
               openContainers[cid] \in OpenWindow /\ beside
<1>1. /\ WindowsFit(s, HeldByOthers, beside, attached)
      /\ SoundBut(s, {}) /\ s \in WindowStep /\ OtherRefs(s) = HeldByOthers
  BY DEF WindowsInv, WindowsFit, SoundBut
<1>2. /\ s.in = inside /\ s.open = openContainers /\ s.shown = windows
      /\ s.refs = browsing.refs
  BY AsItStandsIs
<1>3. \A cid \in Cid : openContainers[cid] # None =>
         openContainers[cid] \in OpenWindow /\ beside
  BY <1>1, <1>2, StepFields DEF WindowsFit
<1> QED
  BY <1>1, <1>2, <1>3

LEMMA UsingKeeps ==
  ASSUME WindowsInv, NEW k \in Kept, NEW cid \in Cid, UseContainer(k, cid)
  PROVE  WindowsInv'
<1>1. PICK a : a = AsItStands
  OBVIOUS
<1>2. WindowsFit(a, HeldByOthers, beside, attached) /\ a.in = inside
  BY <1>1, InvParts
<1>3. PICK old : old = WindowsOn(a, k)
  OBVIOUS
<1>4. PICK c : c = CHOOSE x \in old : \A d \in old : x <= d
  OBVIOUS
<1>5. PICK s : s = IF old = {} THEN SendAll(ContainerAdded(a, cid, k), k)
                   ELSE Closed(CloseAll(a, k), {c})
  OBVIOUS
<1>6. beside /\ (k = "box" => Place("box") # {}) /\ WindowsBecome(s)
  BY <1>1, <1>3, <1>4, <1>5 DEF UseContainer
<1>7. WindowsFit(s, HeldByOthers, beside, attached)
  <2>1. CASE old = {}
    <3>1. k = "box" => \E q \in Kept : "box" \in Range(a.in[q])
      BY <1>2, <1>6 DEF Place
    <3>2. s = SendAll(ContainerAdded(a, cid, k), k)
      BY <1>5, <2>1
    <3> QED
      BY <1>2, <1>6, <3>1, <3>2, OpeningAll
  <2>2. CASE old # {}
    <3>1. old \subseteq Nat
      <4>1. Cid \subseteq Nat
        BY WindowsNumbers DEF Cid
      <4> QED
        BY <1>3, <4>1, WindowsCounted
    <3>2. \E x \in old : \A d \in old : x <= d
      BY <2>2, <3>1, LeastIs
    <3>3. c \in WindowsOn(a, k)
      BY <1>3, <1>4, <3>2
    <3>4. s = Closed(CloseAll(a, k), {c})
      BY <1>5, <2>2
    <3> QED
      BY <1>2, <3>3, <3>4, ClosingOne
  <2> QED
    BY <2>1, <2>2
<1> QED
  BY <1>6, <1>7, StepBecomes

LEMMA ClosingOneKeeps ==
  ASSUME WindowsInv, NEW cid \in Cid, CloseContainer(cid)
  PROVE  WindowsInv'
<1>1. PICK a : a = AsItStands
  OBVIOUS
<1>2. WindowsFit(a, HeldByOthers, beside, attached) /\ SoundBut(a, {})
  BY <1>1, InvParts
<1>3. PICK D : D = {cid}
  OBVIOUS
<1>4. PICK s : s = Shut(Closed(a, D), D)
  OBVIOUS
<1>5. WindowsBecome(s)
  BY <1>1, <1>3, <1>4 DEF CloseContainer
<1>6. /\ SoundBut(s, {})
      /\ s.in = a.in
      /\ \A c \in Cid : s.open[c] = IF c \in D THEN None ELSE a.open[c]
      /\ \A c \in Cid : s.shown[c] # None => a.shown[c] # None
      /\ OtherRefs(s) = OtherRefs(a)
  BY <1>2, <1>4, ClosingBoth
<1>7. \A c \in Cid : s.open[c] = None \/ s.open[c] = a.open[c]
  BY <1>6
<1>8. BoxHeld(s)
  BY <1>2, <1>6, <1>7 DEF BoxHeld, HasOpen, WindowsFit
<1>9. WindowsFit(s, HeldByOthers, beside, attached)
  BY <1>2, <1>6, <1>7, <1>8 DEF WindowsFit
<1> QED
  BY <1>5, <1>9, StepBecomes

\* A step record with the field made is fit as well.
LEMMA MadeFits ==
  ASSUME WindowsInv, NEW s, s = FieldMade(AsItStands), NEW n,
         n = (IF browsing.event \/ browsing.refs = 0 THEN 1 ELSE 0) + leaks
  PROVE  WindowsFit(s, n, beside, attached) /\ s.in = inside /\ s.open = openContainers
<1>1. PICK a : a = AsItStands
  OBVIOUS
<1>2. /\ WindowsFit(a, HeldByOthers, beside, attached)
      /\ a.in = inside /\ a.open = openContainers /\ a.shown = windows
  BY <1>1, InvParts
<1>3. /\ SoundBut(s, {}) /\ s.in = inside /\ s.open = openContainers /\ s.shown = windows
      /\ OtherRefs(s) = n
  BY FieldIsMade
<1>4. BoxHeld(s)
  BY <1>2, <1>3 DEF BoxHeld, HasOpen, WindowsFit
<1> QED
  BY <1>2, <1>3, <1>4 DEF WindowsFit

LEMMA BrowsingKeeps ==
  ASSUME WindowsInv, BrowseField
  PROVE  WindowsInv'
<1>1. PICK a : a = FieldMade(AsItStands)
  OBVIOUS
<1>2. PICK n : n = (IF browsing.event \/ browsing.refs = 0 THEN 1 ELSE 0) + leaks
  OBVIOUS
<1>3. WindowsFit(a, n, beside, attached) /\ a.in = inside /\ a.open = openContainers
  BY <1>1, <1>2, MadeFits
<1>4. PICK cid \in Cid : cid = LastCid
  BY WindowsNumbers DEF Cid
<1>5. PICK k : k = openContainers[cid].container
  OBVIOUS
<1>6. PICK s : s = IF openContainers[cid] # None THEN Closed(CloseAll(a, k), {cid})
                   ELSE Opened(ContainerAdded(a, cid, "field"), cid)
  OBVIOUS
<1>7. beside /\ BecomesBrowsed(s)
  BY <1>1, <1>4, <1>5, <1>6 DEF BrowseField
<1>8. WindowsFit(s, n, beside, attached)
  <2>1. CASE openContainers[cid] # None
    <3>1. cid \in WindowsOn(a, k)
      BY <1>3, <1>5, <2>1 DEF WindowsOn, HasOpen
    <3>2. s = Closed(CloseAll(a, k), {cid})
      BY <1>6, <2>1
    <3> QED
      BY <1>3, <3>1, <3>2, ClosingOne
  <2>2. CASE openContainers[cid] = None
    <3>1. PICK q \in Kept : q = "field"
      BY DEF Kept
    <3>2. s = Opened(ContainerAdded(a, cid, q), cid)
      BY <1>6, <2>2, <3>1
    <3>3. q # "box"
      BY <3>1
    <3> QED
      BY <1>3, <1>7, <3>2, <3>3, OpeningOne
  <2> QED
    BY <2>1, <2>2
<1> QED
  BY <1>2, <1>7, <1>8, BrowsingBecomes

LEMMA MovingUpKeeps ==
  ASSUME WindowsInv, NEW cid \in Cid, MoveUpContainer(cid)
  PROVE  WindowsInv'
<1>1. PICK a : a = AsItStands
  OBVIOUS
<1>2. /\ WindowsFit(a, HeldByOthers, beside, attached)
      /\ openContainers[cid] # None => beside
  BY <1>1, InvParts
<1>3. beside
  BY <1>2 DEF MoveUpContainer
<1>4. CASE openContainers[cid].container = "box" /\ "box" \in Range(inside["chest"])
  <2>1. PICK q \in Kept : q = "chest"
    BY DEF Kept
  <2>2. PICK s : s = Opened(ContainerAdded(a, cid, q), cid)
    OBVIOUS
  <2>3. WindowsBecome(s)
    BY <1>1, <1>4, <2>1, <2>2 DEF MoveUpContainer
  <2>4. q # "box"
    BY <2>1
  <2>5. WindowsFit(s, HeldByOthers, beside, attached)
    BY <1>2, <1>3, <2>2, <2>4, OpeningOne
  <2> QED
    BY <2>3, <2>5, StepBecomes
<1>5. CASE ~(openContainers[cid].container = "box" /\ "box" \in Range(inside["chest"]))
  <2>1. PICK q \in Kept : q = "field"
    BY DEF Kept
  <2>2. PICK m : m = FieldMade(AsItStands)
    OBVIOUS
  <2>3. PICK s : s = Opened(ContainerAdded(m, cid, q), cid)
    OBVIOUS
  <2>4. BecomesBrowsed(s)
    BY <1>5, <2>1, <2>2, <2>3 DEF MoveUpContainer
  <2>5. PICK n : n = (IF browsing.event \/ browsing.refs = 0 THEN 1 ELSE 0) + leaks
    OBVIOUS
  <2>6. WindowsFit(m, n, beside, attached)
    BY <2>2, <2>5, MadeFits
  <2>7. q # "box"
    BY <2>1
  <2>8. WindowsFit(s, n, beside, attached)
    BY <1>3, <2>3, <2>6, <2>7, OpeningOne
  <2> QED
    BY <2>4, <2>5, <2>8, BrowsingBecomes
<1> QED
  BY <1>4, <1>5

\* A window is sent its page again, maybe another one.
LEMMA SendingOne ==
  ASSUME NEW s, NEW n, NEW cid \in Cid, SoundBut(s, {cid}), OtherRefs(s) = n,
         \A k \in Kept : Once(Content, s.in[k]),
         ~beside => \A c \in Cid : s.open[c] = None,
         ~attached => \A c \in Cid : s.shown[c] = None,
         BoxHeld(s), s.open[cid] # None, NEW t, t = Opened(s, cid)
  PROVE  WindowsFit(t, n, beside, attached)
<1>1. attached \/ s.shown[cid] = None
  OBVIOUS
<1>6. Showing(t, s, {cid}, cid)
  BY <1>1, OpeningShows
<1>2. /\ SoundBut(t, {cid} \ {cid})
      /\ t.in = s.in /\ t.open = s.open
      /\ \A c \in Cid : t.shown[c] # None => s.shown[c] # None \/ attached
      /\ OtherRefs(t) = OtherRefs(s)
  BY <1>6 DEF Showing
<1>3. {cid} \ {cid} = {}
  OBVIOUS
<1>4. SoundBut(t, {})
  BY <1>2, <1>3
<1>5. BoxHeld(t)
  BY <1>2 DEF BoxHeld, HasOpen
<1> QED
  BY <1>2, <1>4, <1>5 DEF WindowsFit

LEMMA SeekingKeeps ==
  ASSUME WindowsInv, NEW cid \in Cid, NEW index \in 0..Cardinality(Content),
         SeekInContainer(cid, index)
  PROVE  WindowsInv'
<1>1. PICK a : a = AsItStands
  OBVIOUS
<1>2. /\ WindowsFit(a, HeldByOthers, beside, attached) /\ SoundBut(a, {})
      /\ a \in WindowStep /\ OtherRefs(a) = HeldByOthers
      /\ a.open = openContainers
      /\ openContainers[cid] # None => openContainers[cid] \in OpenWindow
  BY <1>1, InvParts
<1>3. PICK o \in OpenWindow : o = a.open[cid]
  BY <1>2 DEF SeekInContainer
<1>4. index \in PageStart
  <2>1. index \in Nat /\ index % PageSize = 0
    BY DEF SeekInContainer
  <2> QED
    BY <2>1, PageStarts
<1>5. PICK p : p = [o EXCEPT !.index = index]
  OBVIOUS
<1>6. p \in OpenWindow /\ p.container = o.container /\ p # None /\ o # None
  <2>1. p \in OpenWindow /\ p.container = o.container
    BY <1>4, <1>5 DEF OpenWindow
  <2> QED
    BY <2>1, OpenIsSomething
<1>7. PICK g : g = [a.open EXCEPT ![cid] = p]
  OBVIOUS
<1>8. /\ g \in [Cid -> OpenWindow \cup {None}] /\ g[cid] = p
      /\ \A c \in Cid : c # cid => g[c] = a.open[c]
  BY <1>2, <1>6, <1>7, StepFields
<1>9. PICK s : s = [a EXCEPT !.open = g]
  OBVIOUS
<1>10. /\ s \in WindowStep /\ s.in = a.in /\ s.open = g /\ s.shown = a.shown
       /\ s.refs = a.refs
  BY <1>2, <1>8, <1>9 DEF WindowStep
<1>11. \A c \in Cid : \A q : HasOpen(s, c, q) <=> HasOpen(a, c, q)
  <2>1. ASSUME NEW c \in Cid, NEW q
        PROVE  HasOpen(s, c, q) <=> HasOpen(a, c, q)
    <3>1. CASE c = cid
      BY <1>3, <1>6, <1>8, <1>10, <3>1 DEF HasOpen
    <3>2. CASE c # cid
      BY <1>8, <1>10, <3>2 DEF HasOpen
    <3> QED
      BY <3>1, <3>2
  <2> QED
    BY <2>1
<1>12. OtherRefs(s) = HeldByOthers
  <2>1. WindowsOn(s, "field") = WindowsOn(a, "field")
    BY <1>11 DEF WindowsOn
  <2> QED
    BY <1>2, <1>10, <2>1 DEF OtherRefs
<1>13. SoundBut(s, {cid})
  <2>1. ASSUME NEW c \in Cid, c \notin {cid}
        PROVE  Fits(s.in, s.open[c], s.shown[c])
    <3>1. Fits(a.in, a.open[c], a.shown[c])
      BY <1>2 DEF SoundBut
    <3>2. s.open[c] = a.open[c]
      BY <1>8, <1>10, <2>1
    <3> QED
      BY <1>10, <3>1, <3>2
  <2> QED
    BY <1>10, <2>1 DEF SoundBut
<1>14. BoxHeld(s)
  BY <1>2, <1>10, <1>11 DEF BoxHeld, WindowsFit
<1>15. /\ \A k \in Kept : Once(Content, s.in[k])
       /\ ~attached => \A c \in Cid : s.shown[c] = None
       /\ ~beside => \A c \in Cid : s.open[c] = None
  <2>1. beside
    BY <1>1, <1>2, <1>3, <1>6 DEF WindowsFit
  <2> QED
    BY <1>2, <1>10, <2>1 DEF WindowsFit
<1>16. PICK t : t = Opened(s, cid)
  OBVIOUS
<1>17. s.open[cid] # None
  BY <1>6, <1>8, <1>10
<1>18. WindowsFit(t, HeldByOthers, beside, attached)
  BY <1>12, <1>13, <1>14, <1>15, <1>16, <1>17, SendingOne
<1>19. WindowsBecome(t)
  <2>1. s = [AsItStands EXCEPT !.open[cid].index = index]
    BY <1>1, <1>3, <1>5, <1>7, <1>9
  <2> QED
    BY <1>16, <2>1 DEF SeekInContainer
<1> QED
  BY <1>18, <1>19, StepBecomes

LEMMA UpdatingKeeps ==
  ASSUME WindowsInv, NEW cid \in Cid, UpdateContainer(cid)
  PROVE  WindowsInv'
<1>1. PICK s : s = AsItStands
  OBVIOUS
<1>2. /\ WindowsFit(s, HeldByOthers, beside, attached) /\ SoundBut(s, {})
      /\ OtherRefs(s) = HeldByOthers /\ s.shown = windows
  BY <1>1, InvParts
<1>3. s.open[cid] # None
  BY <1>2 DEF SoundBut, Fits, UpdateContainer
<1>4. SoundBut(s, {cid})
  BY <1>2 DEF SoundBut
<1>5. PICK t : t = Opened(s, cid)
  OBVIOUS
<1>6. WindowsFit(t, HeldByOthers, beside, attached)
  BY <1>2, <1>3, <1>4, <1>5, SendingOne DEF WindowsFit
<1>7. WindowsBecome(t)
  BY <1>1, <1>5 DEF UpdateContainer
<1> QED
  BY <1>6, <1>7, StepBecomes
LEMMA DroppingKeeps ==
  ASSUME WindowsInv, DecreaseBrowseFieldRef
  PROVE  WindowsInv'
<1>1. PICK a : a = AsItStands
  OBVIOUS
<1>2. /\ WindowsFit(a, HeldByOthers, beside, attached) /\ SoundBut(a, {})
      /\ a \in WindowStep /\ OtherRefs(a) = HeldByOthers
      /\ a.in = inside /\ a.open = openContainers /\ a.shown = windows
      /\ a.refs = browsing.refs
  BY <1>1, InvParts
<1>3. PICK m : m = browsing.refs - 1
  OBVIOUS
<1>4. m \in Int /\ a.refs \in Int /\ a.refs = m + 1 /\ leaks \in Int
  BY <1>2, <1>3, StepFields, WindowsNumbers DEF WindowsInv
<1>5. PICK s : s = [a EXCEPT !.refs = m]
  OBVIOUS
<1>6. /\ s \in WindowStep /\ s.in = a.in /\ s.open = a.open /\ s.shown = a.shown
      /\ s.refs = m
  BY <1>2, <1>4, <1>5 DEF WindowStep
<1>7. PICK b : b = [refs |-> m, event |-> FALSE]
  OBVIOUS
<1>8. PICK n : n = (IF b.event THEN 1 ELSE 0) + leaks
  OBVIOUS
<1>9. n = leaks /\ b \in [refs : {s.refs}, event : BOOLEAN]
  BY <1>4, <1>6, <1>7, <1>8
<1>10. OtherRefs(s) = n
  <2>1. WindowsOn(s, "field") = WindowsOn(a, "field")
    BY <1>6 DEF WindowsOn, HasOpen
  <2>2. PICK w \in Nat : w = Cardinality(WindowsOn(a, "field"))
    BY WindowsCounted, WindowsNumbers
  <2>3. OtherRefs(a) = m + 1 - w /\ OtherRefs(s) = m - w
    BY <1>4, <1>6, <2>1, <2>2 DEF OtherRefs
  <2>4. OtherRefs(a) = 1 + leaks
    BY <1>2 DEF HeldByOthers, DecreaseBrowseFieldRef
  <2> QED
    BY <1>4, <1>9, <2>2, <2>3, <2>4
<1>11. SoundBut(s, {}) /\ BoxHeld(s)
  BY <1>2, <1>6 DEF SoundBut, BoxHeld, HasOpen, WindowsFit
<1>12. WindowsFit(s, n, beside, attached)
  BY <1>2, <1>6, <1>10, <1>11 DEF WindowsFit
<1>13. /\ inside' = s.in /\ openContainers' = s.open /\ windows' = s.shown /\ browsing' = b
       /\ UNCHANGED <<beside, attached, leaks>>
  BY <1>2, <1>3, <1>6, <1>7 DEF DecreaseBrowseFieldRef
<1> QED
  BY <1>8, <1>9, <1>12, <1>13, WindowsBecoming

\* A step that changes who is near or has a client, or the references of old games.
LEMMA WindowsTurning ==
  ASSUME WindowsInv, NEW s,
         beside' \in BOOLEAN, attached' \in BOOLEAN, leaks' \in 0..MaxLeaks,
         WindowsFit(s, HeldByOthers', beside', attached'),
         inside' = s.in, openContainers' = s.open, windows' = s.shown,
         browsing' = [browsing EXCEPT !.refs = s.refs]
  PROVE  WindowsInv'
<1>1. s \in WindowStep
  BY DEF WindowsFit, SoundBut
<1>2. browsing' \in [refs : Int, event : BOOLEAN] /\ browsing'.refs = s.refs
  <2>1. s.refs \in Int
    BY <1>1, StepFields
  <2> QED
    BY <2>1 DEF WindowsInv
<1>3. AsItStands' = s
  <2>1. s = [in |-> s.in, open |-> s.open, shown |-> s.shown, refs |-> s.refs]
    BY <1>1, StepIs
  <2> QED
    BY <1>2, <2>1 DEF AsItStands
<1>4. WindowsFit(AsItStands', HeldByOthers', beside', attached')
  BY <1>3
<1> QED
  BY <1>2, <1>4 DEF WindowsInv

LEMMA WalkingKeeps ==
  ASSUME WindowsInv, WalkAway
  PROVE  WindowsInv'
<1>1. PICK a : a = AsItStands
  OBVIOUS
<1>2. /\ WindowsFit(a, HeldByOthers, beside, attached) /\ SoundBut(a, {})
      /\ OtherRefs(a) = HeldByOthers /\ a.in = inside
  BY <1>1, InvParts
<1>3. PICK x : x = AutoClosed(a, "chest")
  OBVIOUS
<1>4. PICK y : y = AutoClosed(x, "field")
  OBVIOUS
<1>5. PICK z : z = AutoClosed(y, "box")
  OBVIOUS
<1>6. /\ SoundBut(x, {}) /\ x.in = a.in
      /\ \A c \in Cid : x.open[c] = None \/ (x.open[c] = a.open[c] /\ ~HasOpen(a, c, "chest"))
      /\ \A c \in Cid : x.shown[c] # None => a.shown[c] # None
      /\ OtherRefs(x) = OtherRefs(a)
  BY <1>2, <1>3, AutoClosing
<1>7. /\ SoundBut(y, {}) /\ y.in = x.in
      /\ \A c \in Cid : y.open[c] = None \/ (y.open[c] = x.open[c] /\ ~HasOpen(x, c, "field"))
      /\ \A c \in Cid : y.shown[c] # None => x.shown[c] # None
      /\ OtherRefs(y) = OtherRefs(x)
  BY <1>4, <1>6, AutoClosing
<1>8. /\ SoundBut(z, {}) /\ z.in = y.in
      /\ \A c \in Cid : z.open[c] = None \/ (z.open[c] = y.open[c] /\ ~HasOpen(y, c, "box"))
      /\ \A c \in Cid : z.shown[c] # None => y.shown[c] # None
      /\ OtherRefs(z) = OtherRefs(y)
  BY <1>5, <1>7, AutoClosing
<1>9. ASSUME NEW c \in Cid
      PROVE  z.open[c] = None
  <2> SUFFICES ASSUME z.open[c] # None
               PROVE  FALSE
    OBVIOUS
  <2>1. z.open[c] = y.open[c] /\ ~HasOpen(y, c, "box")
    BY <1>8
  <2>2. y.open[c] = x.open[c] /\ ~HasOpen(x, c, "field")
    BY <1>7, <2>1
  <2>3. x.open[c] = a.open[c] /\ ~HasOpen(a, c, "chest")
    BY <1>6, <2>1, <2>2
  <2>4. a.open[c] # None /\ a.open[c].container \notin {"box", "chest", "field"}
    BY <2>1, <2>2, <2>3 DEF HasOpen
  <2>5. a.open[c] \in OpenWindow \cup {None}
    BY <1>2, StepFields DEF SoundBut
  <2> QED
    BY <2>4, <2>5 DEF OpenWindow, Kept
<1>10. /\ beside' = FALSE /\ inside' = z.in /\ openContainers' = z.open /\ windows' = z.shown
       /\ browsing' = [browsing EXCEPT !.refs = z.refs] /\ UNCHANGED <<attached, leaks>>
  BY <1>1, <1>2, <1>3, <1>4, <1>5, <1>6, <1>7, <1>8 DEF WalkAway
<1>11. HeldByOthers' = HeldByOthers
  BY <1>10 DEF HeldByOthers, WindowsInv
<1>12. BoxHeld(z)
  BY <1>9 DEF BoxHeld, HasOpen
<1>13. ~attached => \A c \in Cid : z.shown[c] = None
  BY <1>2, <1>6, <1>7, <1>8 DEF WindowsFit
<1>14. WindowsFit(z, HeldByOthers', beside', attached')
  BY <1>2, <1>6, <1>7, <1>8, <1>9, <1>10, <1>11, <1>12, <1>13 DEF WindowsFit
<1>15. beside' \in BOOLEAN /\ attached' \in BOOLEAN /\ leaks' \in 0..MaxLeaks
  BY <1>10 DEF WindowsInv
<1> QED
  BY <1>10, <1>14, <1>15, WindowsTurning

\* He comes near again, loses his client, or has one again.
LEMMA ComingKeeps ==
  ASSUME WindowsInv, ComeBack \/ Attach
  PROVE  WindowsInv'
<1>1. PICK a : a = AsItStands
  OBVIOUS
<1>2. /\ WindowsFit(a, HeldByOthers, beside, attached)
      /\ a.in = inside /\ a.open = openContainers /\ a.shown = windows
      /\ a.refs = browsing.refs
  BY <1>1, InvParts
<1>3. /\ UNCHANGED <<inside, openContainers, windows, browsing, leaks>>
      /\ beside' \in BOOLEAN /\ attached' \in BOOLEAN
  BY DEF ComeBack, Attach, WindowsInv
<1>4. (beside => beside') /\ (attached => attached')
  BY DEF ComeBack, Attach
<1>5. HeldByOthers' = HeldByOthers
  BY <1>3 DEF HeldByOthers
<1>6. WindowsFit(a, HeldByOthers', beside', attached')
  BY <1>2, <1>4, <1>5 DEF WindowsFit
<1>7. browsing' = [browsing EXCEPT !.refs = a.refs]
  BY <1>2, <1>3 DEF WindowsInv
<1>8. /\ inside' = a.in /\ openContainers' = a.open /\ windows' = a.shown
      /\ leaks' \in 0..MaxLeaks
  BY <1>2, <1>3 DEF WindowsInv
<1>9. beside' \in BOOLEAN /\ attached' \in BOOLEAN
  BY <1>3
<1> QED
  BY <1>6, <1>7, <1>8, <1>9, WindowsTurning

LEMMA DetachingKeeps ==
  ASSUME WindowsInv, Detach
  PROVE  WindowsInv'
<1>1. PICK a : a = AsItStands
  OBVIOUS
<1>2. /\ WindowsFit(a, HeldByOthers, beside, attached) /\ a \in WindowStep
      /\ a.in = inside /\ a.open = openContainers /\ a.refs = browsing.refs
      /\ OtherRefs(a) = HeldByOthers
  BY <1>1, InvParts
<1>3. PICK f : f = [c \in Cid |-> None]
  OBVIOUS
<1>4. f \in [Cid -> ClientWindow \cup {None}] /\ \A c \in Cid : f[c] = None
  BY <1>3
<1>5. PICK s : s = [a EXCEPT !.shown = f]
  OBVIOUS
<1>6. /\ s \in WindowStep /\ s.in = a.in /\ s.open = a.open /\ s.refs = a.refs /\ s.shown = f
      /\ OtherRefs(s) = OtherRefs(a)
  BY <1>2, <1>4, <1>5, WindowsShown
<1>7. SoundBut(s, {})
  BY <1>4, <1>6 DEF SoundBut, Fits
<1>8. BoxHeld(s)
  BY <1>2, <1>6 DEF BoxHeld, HasOpen, WindowsFit
<1>9. /\ attached' = FALSE /\ windows' = f
      /\ UNCHANGED <<inside, openContainers, browsing, beside, leaks>>
  BY <1>3 DEF Detach
<1>10. HeldByOthers' = HeldByOthers
  BY <1>9 DEF HeldByOthers
<1>11. WindowsFit(s, HeldByOthers', beside', attached')
  BY <1>2, <1>4, <1>6, <1>7, <1>8, <1>9, <1>10 DEF WindowsFit
<1>12. browsing' = [browsing EXCEPT !.refs = s.refs]
  BY <1>2, <1>6, <1>9 DEF WindowsInv
<1>13. /\ inside' = s.in /\ openContainers' = s.open /\ windows' = s.shown
       /\ beside' \in BOOLEAN /\ attached' \in BOOLEAN /\ leaks' \in 0..MaxLeaks
  BY <1>2, <1>6, <1>9 DEF WindowsInv
<1> QED
  BY <1>11, <1>12, <1>13, WindowsTurning

LEMMA LogoutKeeps ==
  ASSUME WindowsInv, LogoutAndIn
  PROVE  WindowsInv'
<1>1. PICK a : a = AsItStands
  OBVIOUS
<1>2. /\ WindowsFit(a, HeldByOthers, beside, attached) /\ a \in WindowStep
      /\ a.in = inside /\ a.refs = browsing.refs
      /\ OtherRefs(a) = HeldByOthers
  BY <1>1, InvParts
<1>3. PICK f : f = [c \in Cid |-> None]
  OBVIOUS
<1>4. /\ f \in [Cid -> ClientWindow \cup {None}] /\ f \in [Cid -> OpenWindow \cup {None}]
      /\ \A c \in Cid : f[c] = None
  BY <1>3
<1>5. PICK s : s = [in |-> a.in, open |-> f, shown |-> f, refs |-> a.refs]
  OBVIOUS
<1>6. /\ s \in WindowStep /\ s.in = a.in /\ s.open = f /\ s.refs = a.refs /\ s.shown = f
  BY <1>2, <1>4, <1>5, StepFields DEF WindowStep
<1>7. SoundBut(s, {}) /\ BoxHeld(s)
  BY <1>4, <1>6 DEF SoundBut, Fits, BoxHeld, HasOpen
<1>8. PICK w \in Nat : w = Cardinality(WindowsOn(a, "field"))
  BY WindowsCounted, WindowsNumbers
<1>9. /\ leaks' = leaks + w /\ leaks' <= MaxLeaks /\ attached' = TRUE
      /\ openContainers' = f /\ windows' = f /\ UNCHANGED <<inside, browsing, beside>>
  <2>1. Cid \cap WindowsOn(a, "field") = WindowsOn(a, "field")
    BY DEF WindowsOn
  <2>2. FieldRefs(AsItStands, Cid) = w
    BY <1>1, <1>8, <2>1 DEF FieldRefs
  <2> QED
    BY <1>3, <2>2 DEF LogoutAndIn
<1>10. leaks \in Nat /\ leaks' \in 0..MaxLeaks
  BY <1>8, <1>9, WindowsNumbers DEF WindowsInv
<1>11. OtherRefs(s) = HeldByOthers'
  <2>1. WindowsOn(s, "field") = {}
    BY <1>4, <1>6 DEF WindowsOn, HasOpen
  <2>2. OtherRefs(s) = a.refs - 0
    BY <1>6, <2>1, FS_EmptySet DEF OtherRefs
  <2>3. a.refs - w = HeldByOthers
    BY <1>2, <1>8 DEF OtherRefs
  <2>4. PICK e \in Nat : e = IF browsing.event THEN 1 ELSE 0
    OBVIOUS
  <2>5. HeldByOthers = e + leaks /\ HeldByOthers' = e + (leaks + w)
    BY <1>9, <2>4 DEF HeldByOthers
  <2>6. a.refs \in Int
    BY <1>2, StepFields
  <2> QED
    BY <1>8, <1>10, <2>2, <2>3, <2>5, <2>6
<1>12. WindowsFit(s, HeldByOthers', beside', attached')
  BY <1>2, <1>4, <1>6, <1>7, <1>9, <1>11 DEF WindowsFit
<1>13. browsing' = [browsing EXCEPT !.refs = s.refs]
  BY <1>2, <1>6, <1>9 DEF WindowsInv
<1>14. /\ inside' = s.in /\ openContainers' = s.open /\ windows' = s.shown
       /\ beside' \in BOOLEAN /\ attached' \in BOOLEAN
  BY <1>2, <1>6, <1>9 DEF WindowsInv
<1> QED
  BY <1>10, <1>12, <1>13, <1>14, WindowsTurning

\* An item that comes, goes, or is moved.
LEMMA TakenKeeps ==
  ASSUME NEW s, NEW n, WindowsFit(s, n, beside, attached), NEW k \in Kept,
         NEW i \in Range(s.in[k]), NEW t, t = TakenFrom(s, k, i)
  PROVE  /\ SoundBut(t, {}) /\ OtherRefs(t) = n
         /\ \A q \in Kept : Once(Content, t.in[q])
         /\ ~beside => \A c \in Cid : t.open[c] = None
         /\ ~attached => \A c \in Cid : t.shown[c] = None
         /\ \A q \in Kept : q # k => t.in[q] = s.in[q]
         /\ Range(t.in[k]) = Range(s.in[k]) \ {i}
         /\ \A c \in Cid : \A q : HasOpen(t, c, q) <=> HasOpen(s, c, q)
<1>1. SoundBut(s, {}) /\ OtherRefs(s) = n /\ s \in WindowStep
  BY DEF WindowsFit, SoundBut
<1>2. /\ attached \/ \A c \in Cid : s.shown[c] = None
      /\ ~beside => \A c \in Cid : s.open[c] = None
  BY DEF WindowsFit
<1>3. PICK u : u = t.in[k]
  OBVIOUS
<1>4. /\ SoundBut(t, {})
      /\ t.in = [s.in EXCEPT ![k] = u]
      /\ \E m \in 1 .. Len(s.in[k]) : s.in[k][m] = i /\ Narrows(Content, u, s.in[k], m)
      /\ \A q : WindowsOn(t, q) = WindowsOn(s, q)
      /\ \A c \in Cid : s.open[c] = None => t.open[c] = None
      /\ \A c \in Cid : t.shown[c] # None => attached
      /\ OtherRefs(t) = OtherRefs(s)
  BY <1>1, <1>2, <1>3, TakingOut
<1>5. \A q \in Kept : q # k => t.in[q] = s.in[q]
  BY <1>1, <1>4, StepFields DEF Contents
<1>6. PICK m \in 1 .. Len(s.in[k]) : s.in[k][m] = i /\ Narrows(Content, u, s.in[k], m)
  BY <1>4
<1>7. Once(Content, s.in[k])
  BY DEF WindowsFit
<1>8. Once(Content, u) /\ Range(u) = Range(s.in[k]) \ {i}
  BY <1>6, <1>7, LessInside
<1>9. \A q \in Kept : Once(Content, t.in[q])
  BY <1>3, <1>5, <1>8 DEF WindowsFit
<1>10. \A c \in Cid : \A q : HasOpen(t, c, q) <=> HasOpen(s, c, q)
  <2>1. ASSUME NEW c \in Cid, NEW q
        PROVE  HasOpen(t, c, q) <=> HasOpen(s, c, q)
    <3>1. c \in WindowsOn(t, q) <=> c \in WindowsOn(s, q)
      BY <1>4
    <3> QED
      BY <3>1 DEF WindowsOn
  <2> QED
    BY <2>1
<1>11. ~attached => \A c \in Cid : t.shown[c] = None
  BY <1>4
<1> QED
  BY <1>1, <1>2, <1>3, <1>4, <1>5, <1>8, <1>9, <1>10, <1>11

\* t is s with i put into k.
Receives(t, s, k, i) ==
    /\ SoundBut(t, {}) /\ OtherRefs(t) = OtherRefs(s)
    /\ \A q \in Kept : Once(Content, t.in[q])
    /\ ~attached => \A c \in Cid : t.shown[c] = None
    /\ \A q \in Kept : q # k => t.in[q] = s.in[q]
    /\ Range(t.in[k]) = Range(s.in[k]) \cup {i}
    /\ t.open = s.open

LEMMA PutKeeps ==
  ASSUME NEW s, SoundBut(s, {}), \A q \in Kept : Once(Content, s.in[q]),
         ~beside => \A c \in Cid : s.open[c] = None,
         ~attached => \A c \in Cid : s.shown[c] = None,
         NEW k \in Kept, NEW i \in Content, i \notin Range(s.in[k]),
         NEW t, t = PutInto(s, k, i)
  PROVE  Receives(t, s, k, i)
<1>1. s \in WindowStep
  BY DEF SoundBut
<1>2. attached \/ \A c \in Cid : s.shown[c] = None
  OBVIOUS
<1>3. PICK u : u = t.in[k]
  OBVIOUS
<1>4. /\ SoundBut(t, {})
      /\ t.in = [s.in EXCEPT ![k] = u]
      /\ k = "field" => Behind(Content, u, s.in[k], i)
      /\ k # "field" => InFront(Content, u, s.in[k], i)
      /\ t.open = s.open
      /\ \A c \in Cid : t.shown[c] # None => attached
      /\ OtherRefs(t) = OtherRefs(s)
  BY <1>2, <1>3, PuttingIn
<1>5. \A q \in Kept : q # k => t.in[q] = s.in[q]
  BY <1>1, <1>4, StepFields DEF Contents
<1>6. PICK v : v = s.in[k]
  OBVIOUS
<1>7. /\ Once(Content, v) /\ i \notin Range(v)
      /\ InFront(Content, u, v, i) \/ Behind(Content, u, v, i)
  BY <1>4, <1>6
<1>8. Once(Content, u) /\ Range(u) = Range(v) \cup {i}
  BY <1>7, MoreInside
<1>9. \A q \in Kept : Once(Content, t.in[q])
  BY <1>3, <1>5, <1>8
<1> QED
  BY <1>3, <1>4, <1>5, <1>6, <1>8, <1>9 DEF Receives
LEMMA MovingBoxKeeps ==
  ASSUME NEW s, NEW n, WindowsFit(s, n, beside, attached), NEW i \in Content,
         NEW from \in Kept \cup {None}, NEW to \in Kept \cup {None}, from # to,
         \A k \in Kept : i \in Range(s.in[k]) <=> k = from,
         NEW x, x = (IF from = None THEN s ELSE TakenFrom(s, from, i)),
         NEW y, y = (IF to = None THEN x ELSE PutInto(x, to, i)),
         NEW t, t = IF i # "box" THEN y
                    ELSE IF to = None \/ ~beside THEN AutoClosed(y, "box")
                    ELSE SendAll(y, "box")
  PROVE  WindowsFit(t, n, beside, attached)
<1>1. /\ SoundBut(s, {}) /\ OtherRefs(s) = n /\ BoxHeld(s)
      /\ \A q \in Kept : Once(Content, s.in[q])
      /\ ~beside => \A c \in Cid : s.open[c] = None
      /\ ~attached => \A c \in Cid : s.shown[c] = None
  BY DEF WindowsFit
<1>2. /\ SoundBut(x, {}) /\ OtherRefs(x) = n
      /\ \A q \in Kept : Once(Content, x.in[q])
      /\ ~beside => \A c \in Cid : x.open[c] = None
      /\ ~attached => \A c \in Cid : x.shown[c] = None
      /\ \A q \in Kept : Range(x.in[q]) = Range(s.in[q]) \ {i}
      /\ \A c \in Cid : \A q : HasOpen(x, c, q) <=> HasOpen(s, c, q)
  <2>1. CASE from = None
    <3>1. x = s
      BY <2>1
    <3>2. \A q \in Kept : i \notin Range(s.in[q])
      BY <2>1, WindowsNumbers
    <3> QED
      BY <1>1, <3>1, <3>2
  <2>2. CASE from # None
    <3>1. from \in Kept /\ i \in Range(s.in[from]) /\ x = TakenFrom(s, from, i)
      BY <2>2
    <3>2. /\ SoundBut(x, {}) /\ OtherRefs(x) = n
          /\ \A q \in Kept : Once(Content, x.in[q])
          /\ ~beside => \A c \in Cid : x.open[c] = None
          /\ ~attached => \A c \in Cid : x.shown[c] = None
          /\ \A q \in Kept : q # from => x.in[q] = s.in[q]
          /\ Range(x.in[from]) = Range(s.in[from]) \ {i}
          /\ \A c \in Cid : \A q : HasOpen(x, c, q) <=> HasOpen(s, c, q)
      BY <3>1, TakenKeeps
    <3>3. ASSUME NEW q \in Kept
          PROVE  Range(x.in[q]) = Range(s.in[q]) \ {i}
      <4>1. CASE q = from
        BY <3>2, <4>1
      <4>2. CASE q # from
        <5>1. i \notin Range(s.in[q]) /\ x.in[q] = s.in[q]
          BY <3>2, <4>2
        <5> QED
          BY <5>1
      <4> QED
        BY <4>1, <4>2
    <3> QED
      BY <3>2, <3>3
  <2> QED
    BY <2>1, <2>2
<1>3. /\ SoundBut(y, {}) /\ OtherRefs(y) = n
      /\ \A q \in Kept : Once(Content, y.in[q])
      /\ ~beside => \A c \in Cid : y.open[c] = None
      /\ ~attached => \A c \in Cid : y.shown[c] = None
      /\ \A q \in Kept : Range(x.in[q]) \subseteq Range(y.in[q])
      /\ to # None => i \in Range(y.in[to])
      /\ \A c \in Cid : \A q : HasOpen(y, c, q) <=> HasOpen(s, c, q)
  <2>1. CASE to = None
    <3>1. y = x
      BY <2>1
    <3> QED
      BY <1>2, <2>1, <3>1
  <2>2. CASE to # None
    <3>1. to \in Kept /\ i \notin Range(x.in[to]) /\ y = PutInto(x, to, i)
      BY <1>2, <2>2
    <3>2. /\ SoundBut(y, {}) /\ OtherRefs(y) = OtherRefs(x)
          /\ \A q \in Kept : Once(Content, y.in[q])
          /\ ~attached => \A c \in Cid : y.shown[c] = None
          /\ \A q \in Kept : q # to => y.in[q] = x.in[q]
          /\ Range(y.in[to]) = Range(x.in[to]) \cup {i}
          /\ y.open = x.open
      <4>1. /\ SoundBut(x, {}) /\ \A q \in Kept : Once(Content, x.in[q])
            /\ ~beside => \A c \in Cid : x.open[c] = None
            /\ ~attached => \A c \in Cid : x.shown[c] = None
        BY <1>2
      <4>2. Receives(y, x, to, i)
        BY <3>1, <4>1, PutKeeps
      <4> QED
        BY <4>2 DEF Receives
    <3>3. \A q \in Kept : Range(x.in[q]) \subseteq Range(y.in[q])
      BY <3>1, <3>2
    <3>4. \A c \in Cid : \A q : HasOpen(y, c, q) <=> HasOpen(s, c, q)
      BY <1>2, <3>2 DEF HasOpen
    <3> QED
      BY <1>2, <3>2, <3>3, <3>4
  <2> QED
    BY <2>1, <2>2
<1>4. CASE i # "box"
  <2>1. t = y
    BY <1>4
  <2>2. BoxHeld(y)
    <3> SUFFICES ASSUME \A q \in Kept : "box" \notin Range(y.in[q]), NEW c \in Cid
                 PROVE  ~HasOpen(y, c, "box")
      BY DEF BoxHeld
    <3>1. \A q \in Kept : "box" \notin Range(s.in[q])
      BY <1>2, <1>3, <1>4
    <3>2. ~HasOpen(s, c, "box")
      BY <1>1, <3>1 DEF BoxHeld
    <3> QED
      BY <1>3, <3>2
  <2> QED
    BY <1>3, <2>1, <2>2 DEF WindowsFit
<1>5. CASE i = "box" /\ (to = None \/ ~beside)
  <2>1. t = AutoClosed(y, "box")
    BY <1>5
  <2>2. /\ SoundBut(t, {}) /\ t.in = y.in
        /\ \A c \in Cid : t.open[c] = None \/ (t.open[c] = y.open[c] /\ ~HasOpen(y, c, "box"))
        /\ \A c \in Cid : t.shown[c] # None => y.shown[c] # None
        /\ OtherRefs(t) = OtherRefs(y)
    BY <1>3, <2>1, AutoClosing
  <2>3. \A c \in Cid : ~HasOpen(t, c, "box")
    BY <2>2 DEF HasOpen
  <2>4. BoxHeld(t)
    BY <2>3 DEF BoxHeld
  <2> QED
    BY <1>3, <2>2, <2>4 DEF WindowsFit
<1>6. CASE i = "box" /\ to # None /\ beside
  <2>1. t = SendAll(y, "box")
    BY <1>6
  <2>2. PICK E : E = {}
    OBVIOUS
  <2>3. E \in SUBSET WindowsOn(y, "box") /\ SoundBut(y, E)
    BY <1>3, <2>2
  <2>4. attached \/ \A c \in Cid : y.shown[c] = None
    BY <1>3
  <2>5. /\ SoundBut(t, {})
        /\ t.in = y.in /\ t.open = y.open
        /\ \A c \in Cid : t.shown[c] # None => y.shown[c] # None \/ attached
        /\ OtherRefs(t) = OtherRefs(y)
    BY <2>1, <2>3, <2>4, SendingAll
  <2>6. BoxHeld(t)
    BY <1>3, <1>6, <2>5 DEF BoxHeld
  <2>7. ~attached => \A c \in Cid : t.shown[c] = None
    BY <1>3, <2>5
  <2> QED
    BY <1>3, <2>5, <2>6, <2>7 DEF WindowsFit
<1> QED
  BY <1>4, <1>5, <1>6

LEMMA MovingIntoKeeps ==
  ASSUME WindowsInv, NEW i \in Content,
         NEW from \in Kept \cup {None}, NEW to \in Kept \cup {None}, MoveInto(i, from, to)
  PROVE  WindowsInv'
<1>1. PICK a : a = AsItStands
  OBVIOUS
<1>2. WindowsFit(a, HeldByOthers, beside, attached) /\ a.in = inside
  BY <1>1, InvParts
<1>3. PICK x : x = IF from = None THEN a ELSE TakenFrom(a, from, i)
  OBVIOUS
<1>4. PICK y : y = IF to = None THEN x ELSE PutInto(x, to, i)
  OBVIOUS
<1>5. PICK t : t = IF i # "box" THEN y
                   ELSE IF to = None \/ ~beside THEN AutoClosed(y, "box")
                   ELSE SendAll(y, "box")
  OBVIOUS
<1>6. from # to /\ WindowsBecome(t)
  BY <1>1, <1>3, <1>4, <1>5 DEF MoveInto
<1>7. \A k \in Kept : i \in Range(a.in[k]) <=> k = from
  <2>1. Place(i) = IF from = None THEN {} ELSE {from}
    BY DEF MoveInto
  <2>2. Place(i) = {k \in Kept : i \in Range(a.in[k])}
    BY <1>2 DEF Place
  <2>3. None \notin Kept
    BY WindowsNumbers
  <2> QED
    BY <2>1, <2>2, <2>3
<1>8. WindowsFit(t, HeldByOthers, beside, attached)
  BY <1>2, <1>3, <1>4, <1>5, <1>6, <1>7, MovingBoxKeeps
<1> QED
  BY <1>6, <1>8, StepBecomes

LEMMA TransformingKeeps ==
  ASSUME WindowsInv, NEW i \in Coin, NEW j \in Coin, NEW k \in Kept, TransformInto(i, j, k)
  PROVE  WindowsInv'
<1>1. PICK a : a = AsItStands
  OBVIOUS
<1>2. /\ WindowsFit(a, HeldByOthers, beside, attached) /\ a.in = inside
      /\ SoundBut(a, {}) /\ a \in WindowStep
  BY <1>1, InvParts
<1>3. PICK v \in Seq(Content) : v = a.in[k]
  BY <1>2, StepFields DEF Contents
<1>4. i \in Content /\ j \in Content /\ i # "box" /\ j # "box"
  BY WindowsAssumption DEF Content
<1>5. /\ i \in Range(v) /\ \A q \in Kept : j \notin Range(a.in[q])
      /\ Once(Content, v)
  <2>1. Place(i) = {k} /\ Place(j) = {}
    BY DEF TransformInto
  <2>2. i \in Range(v)
    BY <1>2, <1>3, <2>1 DEF Place
  <2>3. \A q \in Kept : j \notin Range(a.in[q])
    BY <1>2, <2>1 DEF Place
  <2> QED
    BY <1>2, <1>3, <2>2, <2>3 DEF WindowsFit
<1>6. PICK n : n = SelectInSeq(v, LAMBDA x : x = i)
  OBVIOUS
<1>7. n \in 1 .. Len(v) /\ v[n] = i
  BY <1>5, <1>6, SelectIs
<1>8. PICK slot : slot = n - 1
  OBVIOUS
<1>9. slot + 1 = n
  <2>1. n \in Int
    BY <1>7, LenProperties
  <2> QED
    BY <1>8, <2>1
<1>10. PICK x : x = Changed(v, n, j)
  OBVIOUS
<1>11. PICK z : z = Filled(a, k, x)
  OBVIOUS
<1>12. PICK t : t = IF beside /\ attached THEN SendUpdate(z, k, slot, j) ELSE z
  OBVIOUS
<1>13. WindowsBecome(t)
  <2>1. z = [AsItStands EXCEPT !.in[k][slot + 1] = j]
    BY <1>1, <1>3, <1>9, <1>10, <1>11 DEF Filled, Changed
  <2>2. slot = SelectInSeq(inside[k], LAMBDA y : y = i) - 1
    BY <1>2, <1>3, <1>6, <1>8
  <2> QED
    BY <1>12, <2>1, <2>2 DEF TransformInto
<1>14. /\ attached \/ \A c \in Cid : a.shown[c] = None
       /\ ~beside => \A c \in Cid : a.open[c] = None
  BY <1>2 DEF WindowsFit
<1>15. /\ SoundBut(t, {})
       /\ t.in = [a.in EXCEPT ![k] = x] /\ x \in Seq(Content)
       /\ t.open = a.open
       /\ \A c \in Cid : t.shown[c] # None => attached
       /\ OtherRefs(t) = OtherRefs(a)
  BY <1>2, <1>3, <1>4, <1>7, <1>8, <1>10, <1>11, <1>12, <1>14, UpdatingTells
<1>16. Once(Content, x) /\ Range(x) = (Range(v) \ {i}) \cup {j}
  <2>1. j \notin Range(v)
    BY <1>3, <1>5
  <2>2. Once(Content, x) /\ Range(x) = (Range(v) \ {v[n]}) \cup {j}
    BY <1>4, <1>5, <1>7, <1>10, <2>1, OtherInside
  <2> QED
    BY <1>7, <2>2
<1>17. t.in[k] = x /\ \A q \in Kept : q # k => t.in[q] = a.in[q]
  BY <1>2, <1>15, StepFields DEF Contents
<1>18. \A q \in Kept : Once(Content, t.in[q])
  BY <1>2, <1>16, <1>17 DEF WindowsFit
<1>19. BoxHeld(t)
  <2> SUFFICES ASSUME \A q \in Kept : "box" \notin Range(t.in[q]), NEW c \in Cid
               PROVE  ~HasOpen(t, c, "box")
    BY DEF BoxHeld
  <2>1. ASSUME NEW q \in Kept
        PROVE  "box" \notin Range(a.in[q])
    <3>1. CASE q = k
      BY <1>3, <1>4, <1>16, <1>17, <3>1
    <3>2. CASE q # k
      BY <1>17, <3>2
    <3> QED
      BY <3>1, <3>2
  <2>2. ~HasOpen(a, c, "box")
    BY <1>2, <2>1 DEF BoxHeld, WindowsFit
  <2> QED
    BY <1>15, <2>2 DEF HasOpen
<1>20. WindowsFit(t, HeldByOthers, beside, attached)
  <2>1. ~attached => \A c \in Cid : t.shown[c] = None
    BY <1>15
  <2> QED
    BY <1>2, <1>14, <1>15, <1>18, <1>19, <2>1 DEF WindowsFit
<1> QED
  BY <1>13, <1>20, StepBecomes
LEMMA WindowsStart == WindowsInit => WindowsInv
<1> SUFFICES ASSUME WindowsInit PROVE WindowsInv
  OBVIOUS
<1>1. PICK s : s = AsItStands
  OBVIOUS
<1>2. /\ inside = [k \in Kept |-> <<>>]
      /\ openContainers = [cid \in Cid |-> None] /\ windows = [cid \in Cid |-> None]
      /\ browsing = [refs |-> 0, event |-> FALSE]
      /\ beside = TRUE /\ attached = TRUE /\ leaks = 0
  BY DEF WindowsInit
<1>3. /\ s.in = inside /\ s.open = openContainers /\ s.shown = windows /\ s.refs = 0
      /\ s = [in |-> inside, open |-> openContainers, shown |-> windows, refs |-> 0]
  BY <1>1, <1>2 DEF AsItStands
<1>4. <<>> \in Seq(Content) /\ Once(Content, <<>>)
  BY DEF Once
<1>5. inside \in Contents
  BY <1>2, <1>4 DEF Contents
<1>6. s \in WindowStep
  BY <1>2, <1>3, <1>5 DEF WindowStep
<1>7. SoundBut(s, {}) /\ BoxHeld(s)
  BY <1>2, <1>3, <1>6 DEF SoundBut, Fits, BoxHeld, HasOpen
<1>8. OtherRefs(s) = 0
  <2>1. WindowsOn(s, "field") = {}
    BY <1>2, <1>3 DEF WindowsOn, HasOpen
  <2>2. Cardinality({}) = 0
    BY FS_EmptySet
  <2> QED
    BY <1>3, <2>1, <2>2 DEF OtherRefs
<1>9. HeldByOthers = 0
  BY <1>2 DEF HeldByOthers
<1>10. \A k \in Kept : Once(Content, s.in[k])
  BY <1>2, <1>3, <1>4
<1>11. WindowsFit(s, HeldByOthers, beside, attached)
  BY <1>2, <1>7, <1>8, <1>9, <1>10 DEF WindowsFit
<1> QED
  BY <1>1, <1>2, <1>11, WindowsNumbers DEF WindowsInv

LEMMA WindowsStutter ==
  ASSUME WindowsInv, UNCHANGED winVars
  PROVE  WindowsInv'
<1>1. /\ inside' = inside /\ openContainers' = openContainers /\ windows' = windows
      /\ browsing' = browsing /\ beside' = beside /\ attached' = attached /\ leaks' = leaks
  BY DEF winVars
<1>2. AsItStands' = AsItStands /\ HeldByOthers' = HeldByOthers
  BY <1>1 DEF AsItStands, HeldByOthers
<1> QED
  BY <1>1, <1>2 DEF WindowsInv

LEMMA WindowsKeep == WindowsSpec => []WindowsInv
<1>1. ASSUME WindowsInv, WindowsNext
      PROVE  WindowsInv'
  <2>1. CASE BrowseField
    BY <1>1, <2>1, BrowsingKeeps
  <2>2. CASE DecreaseBrowseFieldRef
    BY <1>1, <2>2, DroppingKeeps
  <2>3. CASE WalkAway
    BY <1>1, <2>3, WalkingKeeps
  <2>4. CASE ComeBack \/ Attach
    BY <1>1, <2>4, ComingKeeps
  <2>5. CASE Detach
    BY <1>1, <2>5, DetachingKeeps
  <2>6. CASE LogoutAndIn
    BY <1>1, <2>6, LogoutKeeps
  <2>7. ASSUME NEW cid \in Cid, CloseContainer(cid)
        PROVE  WindowsInv'
    BY <1>1, <2>7, ClosingOneKeeps
  <2>8. ASSUME NEW cid \in Cid, MoveUpContainer(cid)
        PROVE  WindowsInv'
    BY <1>1, <2>8, MovingUpKeeps
  <2>9. ASSUME NEW cid \in Cid, UpdateContainer(cid)
        PROVE  WindowsInv'
    BY <1>1, <2>9, UpdatingKeeps
  <2>10. ASSUME NEW cid \in Cid, NEW k \in Kept, UseContainer(k, cid)
         PROVE  WindowsInv'
    BY <1>1, <2>10, UsingKeeps
  <2>11. ASSUME NEW cid \in Cid, NEW index \in 0..Cardinality(Content),
                SeekInContainer(cid, index)
         PROVE  WindowsInv'
    BY <1>1, <2>11, SeekingKeeps
  <2>12. ASSUME NEW i \in Content, NEW from \in Kept \cup {None}, NEW to \in Kept \cup {None},
                MoveInto(i, from, to)
         PROVE  WindowsInv'
    BY <1>1, <2>12, MovingIntoKeeps
  <2>13. ASSUME NEW i \in Coin, NEW j \in Coin, NEW k \in Kept, TransformInto(i, j, k)
         PROVE  WindowsInv'
    BY <1>1, <2>13, TransformingKeeps
  <2> QED
    BY <1>1, <2>1, <2>2, <2>3, <2>4, <2>5, <2>6, <2>7, <2>8, <2>9, <2>10, <2>11, <2>12, <2>13
    DEF WindowsNext
<1>2. WindowsInv /\ [WindowsNext]_winVars => WindowsInv'
  BY <1>1, WindowsStutter
<1> QED
  BY <1>2, WindowsStart, PTL DEF WindowsSpec

-----------------------------------------------------------------------------
(* What follows from it.                                                    *)

LEMMA WindowsAreTyped == WindowsInv => WindowsTypeOK
<1> SUFFICES ASSUME WindowsInv PROVE WindowsTypeOK
  OBVIOUS
<1>1. PICK s : s = AsItStands
  OBVIOUS
<1>2. /\ WindowsFit(s, HeldByOthers, beside, attached)
      /\ SoundBut(s, {}) /\ s \in WindowStep /\ OtherRefs(s) = HeldByOthers
      /\ s.in = inside /\ s.open = openContainers /\ s.shown = windows
      /\ s.refs = browsing.refs
  BY <1>1, InvParts
<1>3. ASSUME NEW k \in Kept
      PROVE  Range(inside[k]) \subseteq Content /\ IsInjective(inside[k])
  <2>1. inside[k] \in Seq(Content) /\ Once(Content, inside[k])
    BY <1>2, StepFields DEF Contents, WindowsFit
  <2> QED
    BY <2>1, OnceIs
<1>4. ASSUME NEW cid \in Cid, openContainers[cid] # None
      PROVE  openContainers[cid].container \in Kept /\ openContainers[cid].index \in Nat
  <2>1. openContainers[cid] \in OpenWindow
    BY <1>2, <1>4, StepFields
  <2> QED
    BY <2>1, PageStarts DEF OpenWindow
<1>5. ASSUME NEW cid \in Cid, windows[cid] # None
      PROVE  /\ windows[cid].first \in Nat /\ windows[cid].sure \in BOOLEAN
             /\ Range(windows[cid].list) \subseteq Content
             /\ Len(windows[cid].list) <= PageSize
  <2>1. windows[cid] \in ClientWindow
    BY <1>2, <1>5, StepFields
  <2>2. windows[cid].list \in Seq(Content)
    BY <2>1 DEF ClientWindow
  <2>3. Len(windows[cid].list) <= PageSize
    BY <1>2, <1>5 DEF SoundBut, Fits
  <2> QED
    BY <2>1, <2>2, <2>3, OnceIs DEF ClientWindow
<1>6. browsing \in [refs : 0..LastCid + 2 + MaxLeaks, event : BOOLEAN]
  <2>1. PICK w \in Nat : w = Cardinality(WindowsOn(s, "field")) /\ w <= LastCid + 1
    BY WindowsCounted, WindowsNumbers
  <2>2. browsing.refs - w = (IF browsing.event THEN 1 ELSE 0) + leaks
    BY <1>2, <2>1 DEF OtherRefs, HeldByOthers
  <2>3. browsing.refs \in Int /\ leaks \in Nat /\ leaks <= MaxLeaks
    BY WindowsNumbers DEF WindowsInv
  <2>4. browsing.refs \in 0..LastCid + 2 + MaxLeaks
    BY <2>1, <2>2, <2>3, WindowsNumbers
  <2> QED
    BY <2>4 DEF WindowsInv
<1>7. beside \in BOOLEAN /\ attached \in BOOLEAN /\ leaks \in 0..MaxLeaks
  BY DEF WindowsInv
<1> QED
  BY <1>3, <1>4, <1>5, <1>6, <1>7 DEF WindowsTypeOK

LEMMA WindowsAreAgreed == WindowsInv => WindowsAgree
<1> SUFFICES ASSUME WindowsInv PROVE WindowsAgree
  OBVIOUS
<1>1. PICK s : s = AsItStands
  OBVIOUS
<1>2. /\ WindowsFit(s, HeldByOthers, beside, attached)
      /\ SoundBut(s, {}) /\ s \in WindowStep /\ OtherRefs(s) = HeldByOthers
      /\ s.in = inside /\ s.open = openContainers /\ s.shown = windows
      /\ s.refs = browsing.refs
  BY <1>1, InvParts
<1>3. PagesAgree
  BY <1>2 DEF PagesAgree, SoundBut, Fits
<1>4. FieldIsHeld
  <2>1. PICK w \in Nat : w = Cardinality(WindowsOn(s, "field"))
    BY WindowsCounted, WindowsNumbers
  <2>2. Cid \cap WindowsOn(s, "field") = WindowsOn(s, "field")
    BY DEF WindowsOn
  <2>3. FieldRefs(AsItStands, Cid) = w
    BY <1>1, <2>1, <2>2 DEF FieldRefs
  <2>4. PICK e \in Nat : e = IF browsing.event THEN 1 ELSE 0
    OBVIOUS
  <2>5. browsing.refs - w = e + leaks /\ browsing.refs \in Int /\ leaks \in Int
    BY <1>2, <2>1, <2>4, WindowsNumbers DEF OtherRefs, HeldByOthers, WindowsInv
  <2>6. browsing.refs = w + e + leaks
    BY <2>5
  <2> QED
    BY <2>3, <2>4, <2>6 DEF FieldIsHeld
<1>5. OpenIsNear
  <2>1. ~beside => \A cid \in Cid : openContainers[cid] = None
    BY <1>2 DEF WindowsFit
  <2>2. ASSUME Place("box") = {}
        PROVE  WindowsOn(AsItStands, "box") = {}
    <3>1. \A k \in Kept : "box" \notin Range(s.in[k])
      BY <1>2, <2>2 DEF Place
    <3>2. \A c \in Cid : ~HasOpen(s, c, "box")
      BY <1>2, <3>1 DEF WindowsFit, BoxHeld
    <3> QED
      BY <1>1, <3>2 DEF WindowsOn
  <2> QED
    BY <2>1, <2>2 DEF OpenIsNear
<1> QED
  BY <1>3, <1>4, <1>5 DEF WindowsAgree

-----------------------------------------------------------------------------
(* What the proofs come to.                                                *)

\* Every variable of the houses keeps its type.
THEOREM HousesTypeCorrect == HousesSpec => []HousesTypeOK
<1>1. HousesInv => HousesTypeOK
  BY DEF HousesInv
<1> QED
  BY <1>1, HousesKeep, PTL

\* Whoever is inside a house may be there, whoever sleeps in a bed of it is known to
\* the bed and the bed to him, and nothing of the last owner is left to the next.
THEOREM HousesAlwaysInOrder == HousesSpec => []HouseInOrder
<1>1. HousesInv => HouseInOrder
  BY DEF HousesInv
<1> QED
  BY <1>1, HousesKeep, PTL

\* Every variable of the shops keeps its type.
THEOREM ShopsTypeCorrect == ShopsSpec => []ShopsTypeOK
<1>1. ShopsInv => ShopsTypeOK
  BY DEF ShopsInv
<1> QED
  BY <1>1, ShopsKeep, PTL

\* Both sides of a shop always know the same of it, no function of a script is kept
\* but those of open shops and of failed scripts, and a client shows what is open.
THEOREM ShopsAlwaysAgree == ShopsSpec => []ShopsAgree
  BY ShopsKeep, ShopsAreAgreed, PTL

\* Windows, of the server and of the client, stay what they should be, for any coins,
\* windows, size of pages and windows left at a logout.
THEOREM WindowsTypeCorrect == WindowsSpec => []WindowsTypeOK
<1>1. WindowsInv => WindowsTypeOK
  BY WindowsAreTyped
<1> QED
  BY <1>1, WindowsKeep, PTL

\* Whatever moves, opens, is closed or is lost: what the client shows in a window that
\* was told of each change is the page the server keeps, the container of the field has
\* the references of its windows, and nothing is open that is away or that nobody holds.
THEOREM WindowsAlwaysAgree == WindowsSpec => []WindowsAgree
<1>1. WindowsInv => WindowsAgree
  BY WindowsAreAgreed
<1> QED
  BY <1>1, WindowsKeep, PTL

=============================================================================
