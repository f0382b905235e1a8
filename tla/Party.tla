------------------------------- MODULE Party -------------------------------
(***************************************************************************)
(* Parties of players (src/src/party.cpp): the leader, the members in the  *)
(* order they joined, the invitations, which both the party and the player *)
(* remember, and shared experience.  A party deletes itself when it ends,  *)
(* so that nobody may refer to it then.  A method is an operator on the    *)
(* state st of all parties, since methods call one another.                *)
(***************************************************************************)
EXTENDS Naturals, Sequences, FiniteSets, SequencesExt, FiniteSetsExt, NoValue

CONSTANTS
    Player,
    PartyId         (* the party objects                                 *)

ASSUME PartyAssumption == None \notin Player \cup PartyId

VARIABLES
    parties,        (* the objects; NoParty for one that does not exist  *)
    partyOf,        (* Player::party                                     *)
    invitedBy,      (* Player::invitePartyList                           *)
    logged

partyVars == <<parties, partyOf, invitedBy, logged>>

NoParty == [leader |-> None, members |-> <<>>, invites |-> {},
            active |-> FALSE, enabled |-> FALSE]

PartyTypeOK ==
    /\ parties \in [PartyId -> [leader : Player \cup {None}, members : Seq(Player),
                                invites : SUBSET Player, active : BOOLEAN,
                                enabled : BOOLEAN]]
    /\ partyOf \in [Player -> PartyId \cup {None}]
    /\ invitedBy \in [Player -> SUBSET PartyId]
    /\ logged \subseteq Player
    /\ \A P \in PartyId : parties[P].leader = None => parties[P] = NoParty

PartyInit ==
    /\ parties = [P \in PartyId |-> NoParty]
    /\ partyOf = [p \in Player |-> None]
    /\ invitedBy = [p \in Player |-> {}]
    /\ logged = Player

-----------------------------------------------------------------------------
(* Methods of a party.  The mutants of this module are named for what they *)
(* get wrong and stand before the definition they change.                  *)

State == [parties |-> parties, partyOf |-> partyOf, invitedBy |-> invitedBy]

Becomes(st) ==
    /\ parties' = st.parties
    /\ partyOf' = st.partyOf
    /\ invitedBy' = st.invitedBy

PartyExists(P) == parties[P] # NoParty
IsEmpty(s) == s.members = <<>> /\ s.invites = {}

\* disband: the leader, the invited players and the members let the party go.
Disbanded(st, P) ==
    LET s == st.parties[P] IN
    [parties |-> [st.parties EXCEPT ![P] = NoParty],
     partyOf |-> [p \in Player |-> IF p = s.leader \/ p \in ToSet(s.members)
                                   THEN None ELSE st.partyOf[p]],
     invitedBy |-> [p \in Player |-> IF p \in s.invites THEN st.invitedBy[p] \ {P}
                                     ELSE st.invitedBy[p]]]

\* updateSharedExperience: an active party without members never shares;
\* otherwise levels, distances and fights decide, which are abstract: ok.
Shared(s, ok) ==
    IF s.active THEN [s EXCEPT !.enabled = ok /\ s.members # <<>>] ELSE s

\* passPartyLeadership: the old leader becomes the first member.
Passed(s, p, ok) ==
    Shared([s EXCEPT !.leader = p, !.members = <<s.leader>> \o RemoveFirst(s.members, p)], ok)

\* A leader with one member, or none, and nobody invited ends the party.
NoSuccessor(s, p) ==
    /\ p = s.leader
    /\ s.members = <<>> \/ (Len(s.members) = 1 /\ s.invites = {})

\* leaveParty: the leadership passes to the first member, the player is
\* taken out, and a party of one is disbanded.
Left(st, P, p, ok) ==
    LET s == st.parties[P]
        last == NoSuccessor(s, p)
        led == IF p = s.leader /\ ~last THEN Passed(s, Head(s.members), ok) ELSE s
        rest == Shared([led EXCEPT !.members = RemoveFirst(@, p)], ok)
        out == [st EXCEPT !.parties[P] = rest, !.partyOf[p] = None]
    IN  IF last \/ IsEmpty(rest) THEN Disbanded(out, P) ELSE out

\* The constructor.
Founded(st, P, p) ==
    [st EXCEPT !.parties[P] = [NoParty EXCEPT !.leader = p], !.partyOf[p] = P]

\* invitePlayer.
Invited(st, P, p) ==
    [st EXCEPT !.parties[P].invites = @ \cup {p}, !.invitedBy[p] = @ \cup {P}]

\* joinParty: the invitation is used up.
Joined(st, P, p, ok) ==
    LET s == st.parties[P]
        grown == [s EXCEPT !.invites = @ \ {p}, !.members = Append(@, p)]
    IN  [st EXCEPT !.parties[P] = Shared(grown, ok),
                   !.partyOf[p] = P,
                   !.invitedBy[p] = @ \ {P}]

\* setSharedExperience, which does not touch sharedExpEnabled when it ends.
SharedSet(s, on, ok) == Shared([s EXCEPT !.active = on], ok)

\* removeInvite, called by the leader, or by the player for all parties
\* that invite it.
InviteRemoved(st, P, p) ==
    LET s == st.parties[P]
        rest == [s EXCEPT !.invites = @ \ {p}]
        out == [st EXCEPT !.parties[P] = rest, !.invitedBy[p] = @ \ {P}]
    IN  IF p \notin s.invites THEN st
        ELSE IF IsEmpty(rest) THEN Disbanded(out, P) ELSE out

\* clearPartyInvitations.
InvitationsCleared(st, p) ==
    FoldSet(LAMBDA P, so : InviteRemoved(so, P, p), st, st.invitedBy[p])

-----------------------------------------------------------------------------
(* What players do: the handlers of game.cpp and the end of a session.     *)

IsInviting(p, q) ==
    partyOf[p] # None /\ parties[partyOf[p]].leader = p /\ q \in parties[partyOf[p]].invites

\* playerInviteToParty: a player without a party founds one, and only a
\* leader invites, nobody twice.
Invite(p, q) ==
    /\ p # q /\ {p, q} \subseteq logged
    /\ ~IsInviting(q, p)
    /\ partyOf[q] = None
    /\ \/ /\ partyOf[p] = None
          /\ \E P \in PartyId : ~PartyExists(P) /\ Becomes(Invited(Founded(State, P, p), P, q))
       \/ /\ partyOf[p] # None
          /\ parties[partyOf[p]].leader = p
          /\ q \notin parties[partyOf[p]].invites
          /\ Becomes(Invited(State, partyOf[p], q))
    /\ UNCHANGED logged

\* A player may join while in a party of its own.
JoinTwice(p, q, ok) ==
    /\ {p, q} \subseteq logged
    /\ IsInviting(q, p)
    /\ Becomes(Joined(State, partyOf[q], p, ok))
    /\ UNCHANGED logged

\* playerJoinParty, of the party whose leader invites p.
Join(p, q, ok) ==
    /\ {p, q} \subseteq logged
    /\ IsInviting(q, p)
    /\ partyOf[p] = None
    /\ Becomes(Joined(State, partyOf[q], p, ok))
    /\ UNCHANGED logged

\* playerRevokePartyInvitation.
Revoke(p, q) ==
    /\ {p, q} \subseteq logged
    /\ IsInviting(p, q)
    /\ Becomes(InviteRemoved(State, partyOf[p], q))
    /\ UNCHANGED logged

\* playerPassPartyLeadership to a member.
PassLeadership(p, q, ok) ==
    /\ p # q /\ {p, q} \subseteq logged
    /\ partyOf[p] # None /\ partyOf[q] = partyOf[p]
    /\ parties[partyOf[p]].leader = p
    /\ Becomes([State EXCEPT !.parties[partyOf[p]] = Passed(@, q, ok)])
    /\ UNCHANGED logged

\* playerLeaveParty, of a player who does not fight.
LeaveParty(p, ok) ==
    /\ p \in logged
    /\ partyOf[p] # None
    /\ Becomes(Left(State, partyOf[p], p, ok))
    /\ UNCHANGED logged

\* playerEnableSharedPartyExperience.
ShareExperience(p, on, ok) ==
    /\ p \in logged
    /\ partyOf[p] # None
    /\ LET P == partyOf[p] IN
       /\ parties[P].leader = p /\ parties[P].active # on
       /\ Becomes([State EXCEPT !.parties[P] = SharedSet(@, on, ok)])
    /\ UNCHANGED logged

\* Something the experience depends on changes.
Update(P, ok) ==
    /\ PartyExists(P)
    /\ Becomes([State EXCEPT !.parties[P] = Shared(@, ok)])
    /\ UNCHANGED logged

\* onRemoveCreature of a player: the invitations first, then the party.
LogoutMember(p, ok) ==
    /\ p \in logged
    /\ logged' = logged \ {p}
    /\ LET st == InvitationsCleared(State, p)
       IN  Becomes(IF partyOf[p] # None THEN Left(st, partyOf[p], p, ok) ELSE st)

Login(p) ==
    /\ p \notin logged
    /\ logged' = logged \cup {p}
    /\ UNCHANGED <<parties, partyOf, invitedBy>>

PartyNext ==
    \/ \E p, q \in Player : Invite(p, q) \/ Revoke(p, q)
    \/ \E p, q \in Player, ok \in BOOLEAN : Join(p, q, ok) \/ PassLeadership(p, q, ok)
    \/ \E p \in Player, ok \in BOOLEAN : LeaveParty(p, ok) \/ LogoutMember(p, ok)
    \/ \E p \in Player, on, ok \in BOOLEAN : ShareExperience(p, on, ok)
    \/ \E P \in PartyId, ok \in BOOLEAN : Update(P, ok)
    \/ \E p \in Player : Login(p)

PartySpec == PartyInit /\ [][PartyNext]_partyVars

-----------------------------------------------------------------------------
(* Properties.                                                             *)

\* A player is in exactly the party that has it as leader or member, once,
\* and nobody who has left the game is; a party has somebody besides its
\* leader, or it is deleted.  Parties and players remember the same
\* invitations, none of a party that is gone or of a player who has left.
MembershipAgrees ==
    \A P \in PartyId :
        /\ PartyExists(P) => parties[P].leader \in logged /\ ~IsEmpty(parties[P])
        /\ ToSet(parties[P].members) \subseteq logged
        /\ PartyExists(P) => partyOf[parties[P].leader] = P
        /\ parties[P].leader \notin ToSet(parties[P].members)
        /\ IsInjective(parties[P].members)
        /\ \A p \in Player :
             partyOf[p] = P => p = parties[P].leader \/ p \in ToSet(parties[P].members)
        /\ \A p \in ToSet(parties[P].members) : partyOf[p] = P
        /\ \A p \in Player :
             /\ P \in invitedBy[p] <=> p \in parties[P].invites
             /\ p \in parties[P].invites => p \in logged

=============================================================================
