------------------------------- MODULE Party -------------------------------
(***************************************************************************)
(* Parties (src/engine/src/party.cpp), the handlers of game.cpp that reach *)
(* them, and the part of player.cpp that is called back or calls them when *)
(* a player leaves the game.                                               *)
(*                                                                         *)
(* All of it runs on the dispatcher thread, one handler at a time: an      *)
(* action is a whole handler.  The functions of party.cpp are operators    *)
(* from a state (a record of the variables) to a state, so that a handler  *)
(* is composed of the calls it makes, in their order.                      *)
(*                                                                         *)
(* Who belongs to whom is held four times over with raw pointers:          *)
(* Player::party, Party::leader and memberList; Player::invitePartyList    *)
(* and Party::inviteList.  A Party is an address, free again once deleted. *)
(*                                                                         *)
(* Abstracted: the order of the lists (where the code takes the front of   *)
(* memberList, any member may come); positions, to the spot from which     *)
(* others are in range.  The party channel of chat.cpp is not in this      *)
(* module: the calls of sendClosePrivate change nothing here.              *)
(* The Lua party events veto nothing: data/events/events.xml:10-12 has     *)
(* them disabled.  No player has PlayerFlag_NotGainInFight.                *)
(***************************************************************************)
EXTENDS Integers, FiniteSetsExt

CONSTANTS Player,     \* players, each with its GUID
          Address,    \* addresses operator new gives to Party objects
          Spot,       \* places out of EXPERIENCE_SHARE_RANGE of each other
          Level,      \* levels a player may have
          None        \* nullptr

ASSUME PartyAssumption == /\ None \notin Player
                          /\ None \notin Address
                          /\ Level \subseteq Nat

VARIABLES online,        \* players in the game
          party,         \* Player::party
          invitations,   \* Player::invitePartyList
          group,         \* the Party at each address
          spot, level

partyVars == <<party, invitations, group>>
allPartyVars == <<online, party, invitations, group, spot, level>>

\* Age of the last deed in ticksMap: older than PZ_LOCKED is "old".
Age == {"none", "fresh", "old"}

Group == [leader : Player \cup {None}, members : SUBSET Player,
          invitees : SUBSET Player, ticks : [Player -> Age],
          active : BOOLEAN, enabled : BOOLEAN]

\* The fields of a Party whose constructor has set the leader.
NewGroup(lead) == [leader |-> lead, members |-> {}, invitees |-> {},
                   ticks |-> [p \in Player |-> "none"],
                   active |-> FALSE, enabled |-> FALSE]

Deleted == NewGroup(None)

Live(x) == group[x].leader # None

InGroup(g) == g.members \cup ({g.leader} \ {None})

PartyInit == /\ online = {}
             /\ party = [p \in Player |-> None]
             /\ invitations = [p \in Player |-> {}]
             /\ group = [x \in Address |-> Deleted]
             /\ spot \in [Player -> Spot]
             /\ level \in [Player -> Level]

-----------------------------------------------------------------------------
(* The functions of party.cpp *)

State == [party |-> party, invitations |-> invitations, group |-> group]

Commit(s) == /\ party' = s.party
             /\ invitations' = s.invitations
             /\ group' = s.group

Empty(g) == g.members = {} /\ g.invitees = {}

\* Two thirds of the highest level, rounded up; lv and sp are everyone's.
MinLevel(g, lv) == (2 * Max({lv[p] : p \in InGroup(g)}) + 2) \div 3

CanUseSharedExperience(g, p, lv, sp) ==
  /\ g.members # {}
  /\ lv[p] >= MinLevel(g, lv)
  /\ sp[p] = sp[g.leader]
  /\ g.ticks[p] = "fresh"

CanEnableSharedExperience(g, lv, sp) ==
  \A p \in InGroup(g) : CanUseSharedExperience(g, p, lv, sp)

UpdateSharedExperience(g, lv, sp) ==
  [g EXCEPT !.enabled =
     IF g.active THEN CanEnableSharedExperience(g, lv, sp) ELSE @]

Update(g) == UpdateSharedExperience(g, level, spot)

\* setParty(nullptr), for each of the players
Part(s, players) ==
  [s EXCEPT !.party = [p \in Player |-> IF p \in players THEN None ELSE @[p]]]

\* Mutant: disband() does not tell those it has invited.
DisbandUninvited(s, parties) ==
  LET members == UNION {InGroup(s.group[x]) : x \in parties}
      t == Part(s, members)
  IN  [t EXCEPT !.group = [x \in Address |-> IF x \in parties THEN Deleted ELSE @[x]]]

\* disband(), of each of the parties; they have nobody in common.
Disband(s, parties) ==
  LET members == UNION {InGroup(s.group[x]) : x \in parties}
      t == Part(s, members)
  IN  [t EXCEPT !.invitations = [p \in Player |-> @[p] \ parties],
                !.group = [x \in Address |-> IF x \in parties THEN Deleted ELSE @[x]]]

DisbandEmpty(s, parties) ==
  Disband(s, {x \in parties : Empty(s.group[x])})

PassPartyLeadership(s, x, heir) ==
  LET g == s.group[x]
      passed == [g EXCEPT !.leader = heir, !.members = (@ \ {heir}) \cup {g.leader}]
  IN  [s EXCEPT !.group[x] = Update(passed)]

ClearPlayerPoints(s, x, p) ==
  IF s.group[x].ticks[p] = "none" THEN s
  ELSE [s EXCEPT !.group[x] = Update([@ EXCEPT !.ticks[p] = "none"])]

\* leaveParty: a leader hands the party over unless nobody would be left but
\* one member, or nobody at all.  The missing leader stays in the leader
\* field until disband().
LeaveParty(s, x, p, heir) ==
  LET g == s.group[x]
      missingLeader ==
        /\ g.leader = p
        /\ \/ g.members = {}
           \/ Cardinality(g.members) = 1 /\ g.invitees = {}
      passed == IF g.leader = p /\ ~missingLeader
                THEN PassPartyLeadership(s, x, heir) ELSE s
      left == Part([passed EXCEPT !.group[x].members = @ \ {p}], {p})
      done == ClearPlayerPoints([left EXCEPT !.group[x] = Update(@)], x, p)
  IN  IF missingLeader \/ Empty(done.group[x])
      THEN Disband(done, {x}) ELSE done

\* removeInvite of player p from each of the parties.
RemoveInvites(s, parties, p) ==
  LET uninvited(g) == [g EXCEPT !.invitees = @ \ {p}]
      groups == [x \in Address |-> IF x \in parties THEN uninvited(s.group[x])
                                  ELSE s.group[x]]
  IN  DisbandEmpty([s EXCEPT !.group = groups], parties)

\* Player::clearPartyInvitations
ClearPartyInvitations(s, p) ==
  [RemoveInvites(s, s.invitations[p], p) EXCEPT !.invitations[p] = {}]

-----------------------------------------------------------------------------
(* Handlers.  getPlayerByID finds players that are online. *)

IsLeader(p) == party[p] # None /\ group[party[p]].leader = p

IsInviting(p, q) == IsLeader(p) /\ q \in group[party[p]].invitees

\* A login makes a new Player object.
Login(p) == /\ p \notin online
            /\ online' = online \cup {p}
            /\ UNCHANGED <<partyVars, spot, level>>

\* Player::onRemoveCreature, on logout, death or kick.
Logout(p) ==
  /\ p \in online
  /\ online' = online \ {p}
  /\ \E heir \in IF IsLeader(p) /\ group[party[p]].members # {}
                 THEN group[party[p]].members ELSE {p} :
       LET cleared == ClearPartyInvitations(State, p)
           left == IF cleared.party[p] = None THEN cleared
                   ELSE LeaveParty(cleared, cleared.party[p], p, heir)
       IN  Commit(left)
  /\ UNCHANGED <<spot, level>>

\* playerInviteToParty; the Party is created before invitePlayer is called.
InviteTo(x, p, q) ==
  /\ q \notin group[x].invitees
  /\ party' = [party EXCEPT ![p] = x]
  /\ LET g == IF Live(x) THEN group[x] ELSE NewGroup(p)
         inviting == [g EXCEPT !.invitees = @ \cup {q}]
     IN  group' = [group EXCEPT ![x] = inviting]
  /\ invitations' = [invitations EXCEPT ![q] = @ \cup {x}]

InviteToParty(p, q) ==
  /\ p # q /\ {p, q} \subseteq online
  /\ ~IsInviting(q, p)
  /\ party[q] = None
  /\ \/ party[p] = None /\ \E x \in Address : ~Live(x) /\ InviteTo(x, p, q)
     \/ IsLeader(p) /\ InviteTo(party[p], p, q)
  /\ UNCHANGED <<online, spot, level>>

\* playerJoinParty
JoinParty(p, lead) ==
  /\ {p, lead} \subseteq online
  /\ IsInviting(lead, p)
  /\ party[p] = None
  /\ LET x == party[lead]
         joined == [group[x] EXCEPT !.invitees = @ \ {p}, !.members = @ \cup {p}]
     IN /\ party' = [party EXCEPT ![p] = x]
        /\ group' = [group EXCEPT ![x] = Update(joined)]
        /\ invitations' = [invitations EXCEPT ![p] = @ \ {x}]
  /\ UNCHANGED <<online, spot, level>>

\* playerRevokePartyInvitation
RevokeInvitation(p, q) ==
  /\ {p, q} \subseteq online
  /\ IsInviting(p, q)
  /\ LET x == party[p]
     IN Commit(RemoveInvites([State EXCEPT !.invitations[q] = @ \ {x}], {x}, q))
  /\ UNCHANGED <<online, spot, level>>

\* playerPassPartyLeadership
PassLeadership(p, q) ==
  /\ p # q /\ {p, q} \subseteq online
  /\ IsLeader(p)
  /\ party[q] = party[p]
  /\ Commit(PassPartyLeadership(State, party[p], q))
  /\ UNCHANGED <<online, spot, level>>

\* playerLeaveParty, when no fight keeps the player from leaving.
Leave(p) ==
  /\ p \in online
  /\ party[p] # None
  /\ \E heir \in IF IsLeader(p) /\ group[party[p]].members # {}
                 THEN group[party[p]].members ELSE {p} :
       Commit(LeaveParty(State, party[p], p, heir))
  /\ UNCHANGED <<online, spot, level>>

\* playerEnableSharedPartyExperience
EnableSharedExperience(p, on) ==
  /\ p \in online
  /\ IsLeader(p)
  /\ group[party[p]].active # on
  /\ group' = [group EXCEPT ![party[p]] = Update([@ EXCEPT !.active = on])]
  /\ UNCHANGED <<online, party, invitations, spot, level>>

\* Mutant: the party is not told.
UpdateNobody(p, lv, sp) == UNCHANGED group

\* A new value of a member's data, after which its party is updated.
UpdatePartyOf(p, lv, sp) ==
  group' = IF party[p] = None THEN group
           ELSE [group EXCEPT ![party[p]] = UpdateSharedExperience(@, lv, sp)]

\* onCreatureMove
Move(p, place) == /\ p \in online
                  /\ place # spot[p]
                  /\ spot' = [spot EXCEPT ![p] = place]
                  /\ UpdatePartyOf(p, level, spot')
                  /\ UNCHANGED <<online, party, invitations, level>>

\* addExperience and removeExperience, when they change the level
ChangeLevel(p, l) == /\ p \in online
                     /\ l # level[p]
                     /\ level' = [level EXCEPT ![p] = l]
                     /\ UpdatePartyOf(p, level', spot)
                     /\ UNCHANGED <<online, party, invitations, spot>>

\* updatePlayerTicks: a member hurt a monster or healed a partner.
UpdatePlayerTicks(p) ==
  /\ p \in online
  /\ party[p] # None
  /\ group' = [group EXCEPT ![party[p]] = Update([@ EXCEPT !.ticks[p] = "fresh"])]
  /\ UNCHANGED <<online, party, invitations, spot, level>>

\* PZ_LOCKED milliseconds pass; no code runs.
TickGetsOld(p) ==
  /\ party[p] # None
  /\ group[party[p]].ticks[p] = "fresh"
  /\ group' = [group EXCEPT ![party[p]].ticks[p] = "old"]
  /\ UNCHANGED <<online, party, invitations, spot, level>>

\* Player::onIdleStatus
Idle(p) == /\ p \in online
           /\ party[p] # None
           /\ Commit(ClearPlayerPoints(State, party[p], p))
           /\ UNCHANGED <<online, spot, level>>

PartyNext == \E p \in Player :
               \/ Login(p) \/ Logout(p) \/ Leave(p) \/ Idle(p)
               \/ UpdatePlayerTicks(p) \/ TickGetsOld(p)
               \/ \E on \in BOOLEAN : EnableSharedExperience(p, on)
               \/ \E place \in Spot : Move(p, place)
               \/ \E l \in Level : ChangeLevel(p, l)
               \/ \E q \in Player : \/ InviteToParty(p, q) \/ JoinParty(p, q)
                                    \/ RevokeInvitation(p, q) \/ PassLeadership(p, q)

PartySpec == PartyInit /\ [][PartyNext]_allPartyVars

-----------------------------------------------------------------------------
(* Properties *)

\* The values every variable takes; an address without a leader holds no Party.
PartyTypeOK == /\ online \subseteq Player
               /\ party \in [Player -> Address \cup {None}]
               /\ invitations \in [Player -> SUBSET Address]
               /\ group \in [Address -> Group]
               /\ spot \in [Player -> Spot]
               /\ level \in [Player -> Level]
               /\ \A x \in Address : ~Live(x) => group[x] = Deleted

\* A player's party pointer and the party's own idea of who is in it always
\* agree, so no player points to a deleted Party and none is in two parties;
\* a leader is not in its own memberList.
MembershipAgrees ==
  /\ \A p \in Player, x \in Address : party[p] = x <=> p \in InGroup(group[x])
  /\ \A x \in Address : group[x].leader \notin group[x].members

\* Both sides of an invitation exist or neither does: no deleted Party stays
\* in an invitePartyList, where a later logout would call removeInvite on it.
InvitationsAgree ==
  \A p \in Player, x \in Address :
    x \in invitations[p] <=> p \in group[x].invitees

\* Nobody is invited to the party it is in: accepting would push it on
\* memberList a second time.
NoMemberInvited == \A x \in Address : group[x].invitees \cap InGroup(group[x]) = {}

\* Between handlers a party that exists has somebody besides its leader.
NoEmptyParty == \A x \in Address : Live(x) => ~Empty(group[x])

\* A Player object is deleted after logout: nothing refers to it any more.
OfflineIsForgotten ==
  \A x \in Address : InGroup(group[x]) \cup group[x].invitees \subseteq online

\* sharedExpEnabled is a cached value.  It may outlive the two minutes of a
\* member's last deed, but otherwise it is never stale: every member did
\* something, is in range and has the level, and once all do, it is set.
SharedExperienceIsCurrent ==
  \A x \in Address : Live(x) /\ group[x].active =>
    LET g == group[x]
        forgiving == [g EXCEPT !.ticks = [p \in Player |->
                        IF @[p] = "old" THEN "fresh" ELSE @[p]]]
    IN /\ g.enabled => CanEnableSharedExperience(forgiving, level, spot)
       /\ CanEnableSharedExperience(g, level, spot) => g.enabled

\* Parties, players and invitations refer to each other by raw pointers that
\* every handler and call-back has to keep in step: between handlers they all
\* agree (party.cpp:34-230, player.cpp:1173-1180).
PartiesAgree ==
  /\ PartyTypeOK /\ MembershipAgrees /\ InvitationsAgree
  /\ NoMemberInvited /\ NoEmptyParty /\ OfflineIsForgotten
=============================================================================
