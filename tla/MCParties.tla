----------------------------- MODULE MCParties -----------------------------
(***************************************************************************)
(* What players do with one another, for TLC: the parties of three players *)
(* at two addresses; trades of three players on three squares, with two    *)
(* containers and a third thing; one house for three; and two players in   *)
(* the channels of their party, their guilds and their own.  They share no *)
(* state here but the players that come and go, so each behaviour has one  *)
(* of them at work: the variables of the others are out of it (Off), and   *)
(* what a component promises is asked where it is at work.  The values x   *)
(* and y stand for addresses, containers and what lies in them, which are  *)
(* alike wherever they are used.                                           *)
(***************************************************************************)
EXTENDS Party, Trade, Houses, Chat, TLC

VARIABLE part

Off == <<>>

PartyOff == /\ online = Off /\ party = Off /\ invitations = Off
            /\ group = Off /\ spot = Off /\ level = Off
TradeOff == /\ traders = Off /\ square = Off /\ place = Off /\ state = Off
            /\ partner = Off /\ offer = Off /\ tradeItems = Off

PartiesInit ==
  \/ part = "party" /\ PartyInit /\ TradeOff /\ hou = Off /\ chat = Off
  \/ part = "trade" /\ PartyOff /\ TradeInit /\ hou = Off /\ chat = Off
  \/ part = "houses" /\ PartyOff /\ TradeOff /\ HouInit /\ chat = Off
  \/ part = "chat" /\ PartyOff /\ TradeOff /\ hou = Off /\ ChatInit

PartiesNext ==
  /\ UNCHANGED part
  /\ \/ part = "party" /\ PartyNext /\ UNCHANGED <<allTradeVars, hou, chat>>
     \/ part = "trade" /\ TradeNext /\ UNCHANGED <<allPartyVars, hou, chat>>
     \/ part = "houses" /\ HouNext /\ UNCHANGED <<allPartyVars, allTradeVars, chat>>
     \/ part = "chat" /\ ChatNext /\ UNCHANGED <<allPartyVars, allTradeVars, hou>>

PartiesSpec == PartiesInit /\ [][PartiesNext]_<<part, allPartyVars, allTradeVars, hou, chat>>

\* Players are alike everywhere, and so are the addresses of parties.
PartiesSymmetry == Permutations(Player) \cup Permutations(Address)

\* Player::party, the lists of each Party and the invitations tell the same
\* story, whoever leaves, passes the lead or logs out, and no party shares
\* experience on the strength of a status that was computed before its
\* members changed (Party!PartiesAgree, Party!SharedExperienceIsCurrent).
Parties == part = "party" => PartiesAgree /\ SharedExperienceIsCurrent

\* The two sides of every trade, the map of offered items and the items
\* themselves agree (Trade!TradesAgree), and no trade ends with only one of
\* the two items handed over (Trade!WholeExchange).
Trades == [](part = "trade" => TradesAgree) /\ [][part = "trade" => WholeExchange]_allTradeVars

\* Who sleeps, who owns and who may be inside agree (Houses!HousesAgree).
HousesInOrder == part = "houses" => HousesAgree

\* Channels and guilds hold nobody who has left (Chat!ChatAgrees).
Channels == part = "chat" => ChatAgrees
=============================================================================
