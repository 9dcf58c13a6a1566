-------------------------------- MODULE Chat --------------------------------
(***************************************************************************)
(* Chat channels (src/engine/src/chat.cpp), the handlers of game.cpp that  *)
(* reach them, and the guild and party pointers by which a player finds    *)
(* its channels (Player::setGuild, Guild::removeMember).                   *)
(*                                                                         *)
(* Everything runs on the dispatcher thread, one handler at a time; the    *)
(* functions of chat.cpp are operators from a state to a state.  Channels  *)
(* keep raw pointers to their users and invited players: what matters is   *)
(* who is still in them when a Player object goes away, and who hears what *)
(* is said.  Party itself is in module Party: here players get and lose    *)
(* their party pointer, in the order setParty, sendClosePrivate that       *)
(* party.cpp has.                                                          *)
(*                                                                         *)
(* A script may refuse anyone a normal channel at any time; the channels   *)
(* of chatchannels.xml are there from the start.                           *)
(***************************************************************************)
EXTENDS Naturals, FiniteSets

CONSTANTS Person,     \* players, each with its GUID
          Band,       \* addresses of Party objects
          GuildId,    \* guilds of the database
          Unranked,   \* those that have no rank of level 1
          Topic,      \* the normal channels
          PrivateId,       \* ids of private channels
          Premium,    \* players with a premium account
          Nobody      \* nullptr

ASSUME ChatAssumption == /\ PrivateId \subseteq Nat
                         /\ Premium \subseteq Person
                         /\ Unranked \subseteq GuildId
                         /\ PrivateId \cap (Band \cup GuildId \cup Topic) = {}
                         /\ Nobody \notin Person \cup Band \cup GuildId

VARIABLE chat

\* A channel is known by the key of the map that holds it.
Channel == Band \cup GuildId \cup Topic \cup PrivateId

\* inGame: players with a Player object in the game; band, guild: its pointers;
\* guilds: those loaded; roll: Guild::membersOnline, where Nobody stands for
\* objects that are no more; open: the channels that exist.
ChatState == [inGame  : SUBSET Person,
              band    : [Person -> Band \cup {Nobody}],
              guild   : [Person -> GuildId \cup {Nobody}],
              guilds  : SUBSET GuildId,
              roll    : [GuildId -> SUBSET (Person \cup {Nobody})],
              open    : SUBSET Channel,
              users   : [Channel -> SUBSET Person],
              owner   : [PrivateId -> Person \cup {Nobody}],
              invites : [PrivateId -> SUBSET Person]]

ChatInit ==
  chat = [inGame |-> {}, band |-> [p \in Person |-> Nobody],
          guild |-> [p \in Person |-> Nobody], guilds |-> {},
          roll |-> [g \in GuildId |-> {}], open |-> Topic,
          users |-> [c \in Channel |-> {}], owner |-> [s \in PrivateId |-> Nobody],
          invites |-> [s \in PrivateId |-> {}]]

-----------------------------------------------------------------------------
(* Functions of chat.cpp *)

IsInvited(s, p, c) == p = s.owner[c] \/ p \in s.invites[c]

\* Chat::getChannel, with canJoin saying yes.
Finds(s, p, c) == /\ c \in s.open
                  /\ \/ c \in Topic
                     \/ c \in Band /\ s.band[p] = c
                     \/ c \in GuildId /\ s.guild[p] = c
                     \/ c \in PrivateId /\ IsInvited(s, p, c)

RemoveUser(s, p, c) == [s EXCEPT !.users[c] = @ \ {p}]

\* The channel goes; closeChannel has told its users.
Erase(s, c) == [s EXCEPT !.open = @ \ {c}, !.users[c] = {},
                         !.owner[c] = Nobody, !.invites[c] = {}]

\* Chat::removeUserFromChannel; only a private channel has an owner.
RemoveUserFromChannel(s, p, c) ==
  IF ~Finds(s, p, c) \/ p \notin s.users[c] THEN s
  ELSE IF c \in PrivateId /\ s.owner[c] = p THEN Erase(s, c)
  ELSE RemoveUser(s, p, c)

\* Mutant: invitations are left to the owner.
RemoveUserOnly(s, p) ==
  LET owned == {c \in PrivateId : s.owner[c] = p}
  IN  [s EXCEPT !.open = @ \ owned,
                !.users = [c \in Channel |-> IF c \in owned THEN {} ELSE @[c] \ {p}],
                !.owner = [c \in PrivateId |-> IF c \in owned THEN Nobody ELSE @[c]],
                !.invites = [c \in PrivateId |-> IF c \in owned THEN {} ELSE @[c]]]

\* Chat::removeUserFromAllChannels
RemoveUserFromAllChannels(s, p) ==
  LET owned == {c \in PrivateId : s.owner[c] = p}
  IN  [s EXCEPT !.open = @ \ owned,
                !.users = [c \in Channel |-> IF c \in owned THEN {} ELSE @[c] \ {p}],
                !.owner = [c \in PrivateId |-> IF c \in owned THEN Nobody ELSE @[c]],
                !.invites = [c \in PrivateId |-> IF c \in owned THEN {} ELSE @[c] \ {p}]]

\* Guild::removeMember; the guild goes with its last member online.
Resign(s, p, g) == [s EXCEPT !.roll[g] = @ \ {p},
                             !.guilds = @ \ IF s.roll[g] \subseteq {p} THEN {g} ELSE {}]

-----------------------------------------------------------------------------
(* Handlers *)

\* IOLoginData::loadPlayer loads the guild; onCreatureAppear enters the member.
EnterGame(p, g) ==
  /\ p \notin chat.inGame
  /\ chat' = [chat EXCEPT !.inGame = @ \cup {p},
                !.guild[p] = g, !.band[p] = Nobody,
                !.guilds = @ \cup ({g} \ {Nobody}),
                !.roll = [h \in GuildId |-> IF h = g THEN @[h] \cup {p} ELSE @[h]]]

\* Player::onRemoveCreature; the object is deleted soon after.
LeaveGame(p) ==
  /\ p \in chat.inGame
  /\ LET s == RemoveUserFromAllChannels([chat EXCEPT !.band[p] = Nobody], p)
         t == IF s.guild[p] = Nobody THEN s ELSE Resign(s, p, s.guild[p])
     IN  chat' = [t EXCEPT !.inGame = @ \ {p}, !.guild[p] = Nobody,
                    !.roll = [g \in GuildId |-> IF p \in @[g] THEN (@[g] \ {p}) \cup {Nobody}
                                                ELSE @[g]]]

\* ProtocolGame::connect, to a player that is in the game.
Reconnect(p) == p \in chat.inGame /\ chat' = RemoveUserFromAllChannels(chat, p)

\* Party: a player founds or joins a party.
EnterBand(p, b) == /\ p \in chat.inGame /\ chat.band[p] = Nobody
                   /\ chat' = [chat EXCEPT !.band[p] = b]

\* Party::leaveParty and disband: setParty(nullptr), then
\* sendClosePrivate(CHANNEL_PARTY), which looks for the channel by the pointer.
LeaveBand(p) == /\ p \in chat.inGame /\ chat.band[p] # Nobody
                /\ \E b \in {chat.band[p]} :
                     chat' = RemoveUserFromChannel([chat EXCEPT !.band[p] = Nobody], p, b)

\* Player::setGuild, by a script.  A guild without the lowest rank leaves the
\* player without a guild, and the old guild is not told.
SetGuild(p, g) ==
  /\ p \in chat.inGame
  /\ g # chat.guild[p]
  /\ g = Nobody \/ g \in chat.guilds
  /\ LET old == chat.guild[p]
         s == [chat EXCEPT !.guild[p] = IF g \in Unranked THEN Nobody ELSE g,
                 !.roll = [h \in GuildId |-> IF h = g /\ g \notin Unranked
                                             THEN @[h] \cup {p} ELSE @[h]]]
     IN  chat' = IF g \in Unranked \/ old = Nobody THEN s ELSE Resign(s, p, old)

\* sendChannelsDialog: getChannelList makes the player's guild and party
\* channels where there are none.
RequestChannels(p) ==
  /\ p \in chat.inGame
  /\ chat' = [chat EXCEPT !.open = @ \cup ({chat.band[p], chat.guild[p]} \ {Nobody})]

\* playerOpenChannel; addUser asks the onJoin event of a normal channel.
OpenChannel(p, c) ==
  /\ p \in chat.inGame
  /\ Finds(chat, p, c)
  /\ p \notin chat.users[c]
  /\ chat' = [chat EXCEPT !.users[c] = @ \cup {p}]

\* playerCreatePrivateChannel, in the first free slot.
CreatePrivateChannel(p) ==
  /\ p \in chat.inGame \cap Premium
  /\ \A c \in PrivateId : chat.owner[c] # p
  /\ \E c \in PrivateId \ chat.open :
       /\ \A d \in PrivateId \ chat.open : c <= d
       /\ chat' = [chat EXCEPT !.open = @ \cup {c}, !.owner[c] = p, !.users[c] = {p}]

\* playerCloseChannel; the canJoin event may refuse it, and the player stays.
CloseChannel(p, c) ==
  /\ p \in chat.inGame
  /\ Finds(chat, p, c)
  /\ p \in chat.users[c]
  /\ chat' = RemoveUserFromChannel(chat, p, c)

\* playerChannelInvite
InviteToChannel(p, q) ==
  /\ p # q /\ {p, q} \subseteq chat.inGame
  /\ \E c \in PrivateId : /\ chat.owner[c] = p
                     /\ chat' = [chat EXCEPT !.invites[c] = @ \cup {q}]

\* playerChannelExclude
ExcludeFromChannel(p, q) ==
  /\ p # q /\ {p, q} \subseteq chat.inGame
  /\ \E c \in PrivateId : /\ chat.owner[c] = p /\ q \in chat.invites[c]
                     /\ chat' = RemoveUser([chat EXCEPT !.invites[c] = @ \ {q}], q, c)

\* Chat::load again: each user is added anew, if the onJoin event agrees.
Reload(c, kept) ==
  /\ kept \subseteq chat.users[c]
  /\ chat' = [chat EXCEPT !.users[c] = kept]

ChatNext ==
  \/ \E p \in Person :
       \/ LeaveGame(p) \/ Reconnect(p) \/ LeaveBand(p) \/ RequestChannels(p)
       \/ CreatePrivateChannel(p)
       \/ \E g \in GuildId \cup {Nobody} : EnterGame(p, g) \/ SetGuild(p, g)
       \/ \E b \in Band : EnterBand(p, b)
       \/ \E c \in Channel : OpenChannel(p, c) \/ CloseChannel(p, c)
       \/ \E q \in Person : InviteToChannel(p, q) \/ ExcludeFromChannel(p, q)
  \/ \E c \in Topic : \E kept \in SUBSET chat.users[c] : Reload(c, kept)

ChatSpec == ChatInit /\ [][ChatNext]_chat

-----------------------------------------------------------------------------
(* Properties *)

\* Between handlers nobody who left the game is a user of a channel or invited
\* to one, whatever happened to its party, guild and invitations meanwhile:
\* talk would write to a deleted Player.  A private channel has one owner, who
\* is in it, has no other, and lets nobody in but those it has invited; and
\* only an existing channel has users.
ChannelsAgree ==
  /\ \A c \in Channel : /\ chat.users[c] \subseteq chat.inGame
                        /\ c \notin chat.open => chat.users[c] = {}
  /\ \A c \in PrivateId :
       /\ c \in chat.open <=> chat.owner[c] # Nobody
       /\ c \in chat.open => /\ chat.owner[c] \in chat.users[c]
                             /\ chat.users[c] \subseteq chat.invites[c] \cup {chat.owner[c]}
                             /\ \A d \in PrivateId : chat.owner[d] = chat.owner[c] => d = c
       /\ chat.invites[c] \subseteq chat.inGame \ {chat.owner[c]}

\* A guild is deleted with its last member online; no player is left with a
\* pointer to it, even when scripts move players between guilds.
GuildPointersAgree ==
  \A p \in Person : chat.guild[p] # Nobody =>
    chat.guild[p] \in chat.guilds /\ p \in chat.roll[chat.guild[p]]

\* Channels, their users, owners and invitations, and guilds and their members,
\* hold no player that has left and no object that has been deleted
\* (chat.cpp:33-590, player.cpp:1152-1203, 4547-4573).
ChatAgrees == chat \in ChatState /\ ChannelsAgree /\ GuildPointersAgree
=============================================================================
