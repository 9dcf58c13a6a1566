--------------------------- MODULE PartiesProofs ---------------------------
(***************************************************************************)
(* Proofs about houses, chat channels, parties and trades (Houses, Chat,   *)
(* Party, Trade), for any players, houses, channels, addresses and items:  *)
(* each component alone keeps the invariant of its own, and so does the    *)
(* behaviour of MCParties that has it at work.                             *)
(*                                                                         *)
(* The first three are about lists that name each other.  The functions of the   *)
(* code are operators from a state to a state, so that a lemma on each of  *)
(* them (what it leaves sound, what it does not touch) is cited once per   *)
(* call, in the order of the calls of a handler.  The invariants carry     *)
(* what the properties do not say: nobody is on the lists of a house       *)
(* without owner (Vacant); a closed private channel has no users and no    *)
(* invitations (PrivatelyOwned); and a party that is being left may stand  *)
(* out of order until disband() has run (SoundBut).                        *)
(*                                                                         *)
(* Trades are about the tree of things inside things.  What Chain computes *)
(* is used only to show that it climbs the tree one step at a time (OneUp),*)
(* ends outside the items (AtTop), and that an item moved to what is not   *)
(* in it takes its contents along and leaves all else where it was         *)
(* (MovedInto, Elsewhere).  TradesAgree needs one thing more for exchanges *)
(* to be whole: nothing holds more than it can (Fits).                     *)
(***************************************************************************)
EXTENDS MCParties, FiniteSetTheorems, WellFoundedInduction, TLAPS

(***************************************************************************)
(* Houses                                                                  *)
(***************************************************************************)

Sale == [seller : Resident, buyer : Resident] \cup {Nowhere}

HouState == [online   : SUBSET Resident,
             at       : [Resident -> House \cup {Nowhere}],
             owner    : [House -> Resident \cup {Nowhere}],
             subs     : [House -> SUBSET Resident],
             guests   : [House -> SUBSET Resident],
             sleeper  : [House -> Resident \cup {Nowhere}],
             beds     : [Resident -> House \cup {Nowhere}],
             tired    : SUBSET Resident,
             document : [House -> Sale]]

\* HousesAgree, of a state s, in parts.
Slept(s) == \A p \in Resident, h \in House : s.beds[p] = h <=> s.sleeper[h] = p
Awake(s) == \A p \in s.online : s.beds[p] = Nowhere \/ p \in s.tired
Welcome(s) == \A h \in House : \A p \in Inside(s, h) : MayEnter(s, h, p)

\* What makes it inductive: nobody is on the lists of a house without owner,
\* so nobody can go to bed there.
Vacant(s) == \A h \in House : s.owner[h] = Nowhere =>
                s.sleeper[h] = Nowhere /\ s.subs[h] = {} /\ s.guests[h] = {}

HouInv(s) == s \in HouState /\ Slept(s) /\ Awake(s) /\ Welcome(s) /\ Vacant(s)

\* t differs from s in what is said only.
SameLists(s, t) == t.owner = s.owner /\ t.subs = s.subs /\ t.guests = s.guests
SameBeds(s, t) == t.beds = s.beds /\ t.sleeper = s.sleeper
SamePlayers(s, t) == t.online = s.online /\ t.tired = s.tired

\* t is s, with the lists of h set to a and b, and who is not on them put out.
ListsSet(s, h, a, b, t) ==
  /\ t \in HouState
  /\ t.owner = s.owner /\ SameBeds(s, t) /\ SamePlayers(s, t)
  /\ t.subs = [s.subs EXCEPT ![h] = a] /\ t.guests = [s.guests EXCEPT ![h] = b]
  /\ \A p \in Inside(t, h) : MayEnter(t, h, p)
  /\ \A p \in Resident : t.at[p] = s.at[p] \/ t.at[p] = Nowhere

\* Changes of one owner, or of one bed and its sleeper.
LEMMA HouStateOwner ==
  ASSUME NEW s \in HouState, NEW h \in House, NEW o \in Resident \cup {Nowhere}
  PROVE  [s EXCEPT !.owner[h] = o] \in HouState
  BY DEF HouState

LEMMA HouStateBed ==
  ASSUME NEW s \in HouState, NEW h \in House, NEW q \in Resident,
         NEW t, t = [s EXCEPT !.beds[q] = Nowhere, !.sleeper[h] = Nowhere]
  PROVE  t \in HouState
  BY DEF HouState

\* Who may enter a house is on one of its lists.
LEMMA Listed ==
  ASSUME NEW s, NEW h, NEW p
  PROVE  MayEnter(s, h, p) <=> p = s.owner[h] \/ p \in s.subs[h] \cup s.guests[h]
  BY DEF MayEnter, AccessLevel

\* Putting players out leaves beds and lists alone.
LEMMA PutOutKeeps ==
  ASSUME NEW s, s \in HouState, NEW P, NEW t, t = PutOut(s, P)
  PROVE  /\ t \in HouState
         /\ SameLists(s, t) /\ SameBeds(s, t) /\ SamePlayers(s, t)
         /\ \A p \in Resident : t.at[p] = IF p \in P THEN Nowhere ELSE s.at[p]
  BY DEF PutOut, HouState, SameLists, SameBeds, SamePlayers

\* Who may not enter a house any more is not inside it any more.
LEMMA SetListsKeeps ==
  ASSUME NEW s, s \in HouState, NEW h \in House,
         NEW a, a \subseteq Resident, NEW b, b \subseteq Resident,
         NEW t, t = SetLists(s, h, a, b)
  PROVE  ListsSet(s, h, a, b, t)
<1> DEFINE u == [s EXCEPT !.subs[h] = a, !.guests[h] = b]
           P == {p \in Inside(u, h) : ~MayEnter(u, h, p)}
<1>1. u \in HouState
  BY DEF HouState
<1>0. /\ u.at = s.at /\ u.owner = s.owner /\ u.beds = s.beds /\ u.sleeper = s.sleeper
      /\ u.online = s.online /\ u.tired = s.tired
      /\ u.subs = [s.subs EXCEPT ![h] = a] /\ u.guests = [s.guests EXCEPT ![h] = b]
  BY DEF HouState
<1>2. t = PutOut(u, P)
  BY DEF SetLists
<1>3. /\ t \in HouState
      /\ SameLists(u, t) /\ SameBeds(u, t) /\ SamePlayers(u, t)
      /\ \A p \in Resident : t.at[p] = IF p \in P THEN Nowhere ELSE u.at[p]
  <2> HIDE DEF u, P
  <2> QED BY <1>1, <1>2, PutOutKeeps
<1>6. ASSUME NEW p \in Inside(t, h) PROVE MayEnter(t, h, p)
  <2>1. p \in Resident /\ p \in t.online /\ t.at[p] = h
    BY <1>6, <1>3 DEF Inside, HouState
  <2>2. t.online = u.online /\ t.owner = u.owner /\ t.subs = u.subs /\ t.guests = u.guests
    BY <1>3 DEF SameLists, SamePlayers
  <2>3. h # Nowhere
    BY HouAssumption
  <2>4. p \notin P /\ u.at[p] = h
    BY <2>1, <2>3, <1>3
  <2>5. MayEnter(u, h, p)
    BY <2>4, <2>1, <2>2 DEF Inside
  <2> QED BY <2>5, <2>2, Listed
<1> QED BY <1>0, <1>3, <1>6 DEF SameLists, SameBeds, SamePlayers, ListsSet

\* Whoever is woken up is in no bed.
LEMMA WakeUpKeeps ==
  ASSUME NEW s, s \in HouState, Slept(s), NEW h \in House, NEW t, t = WakeUp(s, h)
  PROVE  /\ t \in HouState
         /\ SameLists(s, t) /\ SamePlayers(s, t) /\ t.at = s.at
         /\ Slept(t)
         /\ t.sleeper[h] = Nowhere
         /\ \A g \in House : g # h => t.sleeper[g] = s.sleeper[g]
         /\ \A p \in Resident : t.beds[p] = s.beds[p] \/ t.beds[p] = Nowhere
         /\ \A p \in Resident : s.sleeper[h] = p => t.beds[p] = Nowhere
<1>1. CASE s.sleeper[h] = Nowhere
  <2>1. t = s
    BY <1>1 DEF WakeUp
  <2> QED BY <2>1, <1>1, HouAssumption DEF HouState, SameLists, SamePlayers
<1>2. CASE s.sleeper[h] # Nowhere
  <2> DEFINE q == s.sleeper[h]
  <2>1. q \in Resident
    BY <1>2 DEF HouState
  <2>2. t = [s EXCEPT !.beds[q] = Nowhere, !.sleeper[h] = Nowhere]
    BY <1>2 DEF WakeUp
  <2> HIDE DEF q
  <2>3. /\ t.beds = [s.beds EXCEPT ![q] = Nowhere]
        /\ t.sleeper = [s.sleeper EXCEPT ![h] = Nowhere]
        /\ t.at = s.at /\ SameLists(s, t) /\ SamePlayers(s, t)
    BY <2>1, <2>2 DEF HouState, SameLists, SamePlayers
  <2>7. t \in HouState
    BY <2>1, <2>2, HouStateBed
  <2>4. \A g \in House : t.sleeper[g] = IF g = h THEN Nowhere ELSE s.sleeper[g]
    BY <2>3 DEF HouState
  <2>5. \A p \in Resident : t.beds[p] = IF p = q THEN Nowhere ELSE s.beds[p]
    BY <2>1, <2>3 DEF HouState
  <2>6. Slept(t)
    <3> SUFFICES ASSUME NEW p \in Resident, NEW g \in House
                 PROVE t.beds[p] = g <=> t.sleeper[g] = p
      BY DEF Slept
    <3>1. /\ s.beds[p] = g <=> s.sleeper[g] = p
          /\ s.beds[p] = h <=> q = p
      BY DEF Slept, q
    <3>2. g # Nowhere /\ p # Nowhere
      BY HouAssumption
    <3> QED BY <3>1, <3>2, <2>4, <2>5
  <2> QED BY <2>3, <2>4, <2>5, <2>6, <2>7 DEF q
<1> QED BY <1>1, <1>2

\* A new owner: what the old one had set up is gone, and so is whoever was
\* there.
LEMMA SetOwnerKeeps ==
  ASSUME NEW s, HouInv(s), NEW h \in House, NEW o \in Resident \cup {Nowhere},
         NEW t, t = SetOwner(s, h, o)
  PROVE  HouInv(t)
<1>1. CASE s.owner[h] = o
  BY <1>1 DEF SetOwner
<1>2. CASE s.owner[h] # o /\ s.owner[h] = Nowhere
  <2>1. t = [s EXCEPT !.owner[h] = o]
    BY <1>2 DEF SetOwner
  <2>0. s \in HouState
    BY DEF HouInv
  <2>6. t \in HouState
    BY <2>0, <2>1, HouStateOwner
  <2>2. /\ t \in HouState /\ t.owner = [s.owner EXCEPT ![h] = o]
        /\ t.online = s.online /\ t.at = s.at /\ t.subs = s.subs /\ t.guests = s.guests
        /\ t.sleeper = s.sleeper /\ t.beds = s.beds /\ t.tired = s.tired
    BY <2>0, <2>1, <2>6 DEF HouState
  <2>3. Slept(t) /\ Awake(t)
    BY <2>2 DEF HouInv, Slept, Awake
  <2>4. Welcome(t)
    <3> SUFFICES ASSUME NEW g \in House, NEW p \in Inside(t, g)
                 PROVE  MayEnter(t, g, p)
      BY DEF Welcome
    <3>1. p \in Inside(s, g) /\ p \in Resident
      BY <2>2 DEF Inside, HouState
    <3>2. MayEnter(s, g, p)
      BY <3>1 DEF HouInv, Welcome
    <3>3. p # Nowhere
      BY <3>1, HouAssumption
    <3> QED BY <3>2, <3>3, <2>2, <1>2, Listed DEF HouInv, HouState
  <2>5. Vacant(t)
    BY <2>2, <1>2 DEF HouInv, HouState, Vacant
  <2> QED BY <2>2, <2>3, <2>4, <2>5 DEF HouInv
<1>3. CASE s.owner[h] # o /\ s.owner[h] # Nowhere
  <2> DEFINE u == PutOut(s, Inside(s, h))
             v == WakeUp(u, h)
             w == [v EXCEPT !.owner[h] = Nowhere]
             x == SetLists(w, h, {}, {})
  <2>1. t = [x EXCEPT !.owner[h] = o]
    BY <1>3 DEF SetOwner
  <2> HIDE DEF x
  <2>2. /\ u \in HouState
        /\ SameLists(s, u) /\ SameBeds(s, u) /\ SamePlayers(s, u)
        /\ \A p \in Resident : u.at[p] = IF p \in Inside(s, h) THEN Nowhere ELSE s.at[p]
    BY PutOutKeeps DEF HouInv
  <2> HIDE DEF u
  <2>3. Slept(u)
    BY <2>2 DEF Slept, HouInv, SameBeds
  <2>4. /\ v \in HouState
        /\ SameLists(u, v) /\ SamePlayers(u, v) /\ v.at = u.at
        /\ Slept(v)
        /\ v.sleeper[h] = Nowhere
        /\ \A g \in House : g # h => v.sleeper[g] = u.sleeper[g]
        /\ \A p \in Resident : v.beds[p] = u.beds[p] \/ v.beds[p] = Nowhere
    BY <2>2, <2>3, WakeUpKeeps
  <2> HIDE DEF v
  <2>5. w \in HouState
    BY <2>4 DEF HouState
  <2>12. /\ w.owner = [v.owner EXCEPT ![h] = Nowhere]
         /\ w.subs = v.subs /\ w.guests = v.guests /\ w.at = v.at
         /\ SameBeds(v, w) /\ SamePlayers(v, w)
    BY <2>4 DEF HouState, SameBeds, SamePlayers
  <2> HIDE DEF w
  <2>6. /\ x \in HouState
        /\ x.owner = w.owner /\ SameBeds(w, x) /\ SamePlayers(w, x)
        /\ x.subs = [w.subs EXCEPT ![h] = {}] /\ x.guests = [w.guests EXCEPT ![h] = {}]
        /\ \A p \in Resident : x.at[p] = w.at[p] \/ x.at[p] = Nowhere
    <3> DEFINE none == {}
    <3>1. none \subseteq Resident /\ x = SetLists(w, h, none, none)
      BY DEF x
    <3> HIDE DEF none
    <3>2. ListsSet(w, h, none, none, x)
      BY <2>5, <3>1, SetListsKeeps
    <3> QED BY <3>2 DEF none, ListsSet
  <2>13. t \in HouState
    BY <2>1, <2>6, HouStateOwner
  <2>14. /\ t.owner = [x.owner EXCEPT ![h] = o] /\ t.at = x.at
         /\ t.subs = x.subs /\ t.guests = x.guests
         /\ SameBeds(x, t) /\ SamePlayers(x, t)
    BY <2>1, <2>6 DEF HouState, SameBeds, SamePlayers
  <2>7. /\ t \in HouState
        /\ t.online = s.online /\ t.tired = s.tired
        /\ t.at = x.at /\ t.beds = v.beds /\ t.sleeper = v.sleeper
        /\ t.owner = [s.owner EXCEPT ![h] = o]
        /\ t.subs = [s.subs EXCEPT ![h] = {}] /\ t.guests = [s.guests EXCEPT ![h] = {}]
        /\ w.at = u.at /\ u.beds = s.beds /\ u.sleeper = s.sleeper
    <3>1. s.owner \in [House -> Resident \cup {Nowhere}]
      BY DEF HouInv, HouState
    <3>2. t.owner = [s.owner EXCEPT ![h] = o]
      BY <3>1, <2>14, <2>6, <2>12, <2>4, <2>2 DEF SameLists
    <3> QED BY <3>2, <2>13, <2>14, <2>6, <2>12, <2>4, <2>2
            DEF SameLists, SameBeds, SamePlayers
  <2>8. Slept(t)
    BY <2>4, <2>7 DEF Slept
  <2>9. Awake(t)
    BY <2>4, <2>7 DEF HouInv, HouState, Awake
  <2>10. Welcome(t)
    <3> SUFFICES ASSUME NEW g \in House, NEW p \in Inside(t, g)
                 PROVE  MayEnter(t, g, p)
      BY DEF Welcome
    <3>1. p \in Resident /\ p \in s.online /\ t.at[p] = g /\ g # Nowhere
      BY <2>7, HouAssumption DEF Inside, HouState
    <3>2. u.at[p] = g
      BY <3>1, <2>6, <2>7
    <3>3. p \notin Inside(s, h) /\ s.at[p] = g
      BY <3>1, <3>2, <2>2
    <3>4. g # h /\ p \in Inside(s, g)
      BY <3>1, <3>3 DEF Inside
    <3>5. MayEnter(s, g, p)
      BY <3>4 DEF HouInv, Welcome
    <3>6. t.owner[g] = s.owner[g] /\ t.subs[g] = s.subs[g] /\ t.guests[g] = s.guests[g]
      BY <3>4, <2>7 DEF HouInv, HouState
    <3> QED BY <3>5, <3>6, Listed
  <2>11. Vacant(t)
    BY <2>4, <2>7 DEF HouInv, HouState, Vacant
  <2> QED BY <2>7, <2>8, <2>9, <2>10, <2>11 DEF HouInv
<1> QED BY <1>1, <1>2, <1>3

\* Beds and lists as they are, and players who come, go and move as they may.
LEMMA PlayersMove ==
  ASSUME NEW s, HouInv(s), NEW t, t \in HouState, SameLists(s, t), SameBeds(s, t),
         \A p \in t.online : \/ t.at[p] = Nowhere
                             \/ p \in s.online /\ t.at[p] = s.at[p]
                             \/ MayEnter(s, t.at[p], p),
         \A p \in t.online : s.beds[p] = Nowhere \/ p \in t.tired
  PROVE  HouInv(t)
<1>1. Slept(t) /\ Awake(t) /\ Vacant(t)
  BY DEF HouInv, Slept, Awake, Vacant, SameLists, SameBeds
<1>2. Welcome(t)
  <2> SUFFICES ASSUME NEW g \in House, NEW p \in Inside(t, g)
               PROVE  MayEnter(t, g, p)
    BY DEF Welcome
  <2>1. p \in t.online /\ t.at[p] = g /\ g # Nowhere
    BY HouAssumption DEF Inside
  <2>2. CASE p \in s.online /\ t.at[p] = s.at[p]
    <3>1. MayEnter(s, g, p)
      BY <2>1, <2>2 DEF HouInv, Welcome, Inside
    <3> QED BY <3>1, Listed DEF SameLists
  <2>3. CASE MayEnter(s, t.at[p], p)
    BY <2>1, <2>3, Listed DEF SameLists
  <2> QED BY <2>1, <2>2, <2>3
<1> QED BY <1>1, <1>2 DEF HouInv

LEMMA QuitGameKeeps ==
  ASSUME NEW s, HouInv(s), NEW p \in Resident, NEW t, t = QuitGame(s, p)
  PROVE  HouInv(t)
<1>1. s \in HouState
  BY DEF HouInv
<1>2. t \in HouState
  BY <1>1 DEF QuitGame, HouState, Sale
<1>3. /\ SameLists(s, t) /\ SameBeds(s, t) /\ t.at = s.at
      /\ t.online = s.online \ {p} /\ t.tired = s.tired \ {p}
  BY <1>1 DEF QuitGame, HouState, SameLists, SameBeds
<1>4. \A q \in t.online : s.beds[q] = Nowhere \/ q \in t.tired
  BY <1>3 DEF HouInv, Awake
<1>5. \A q \in t.online : \/ t.at[q] = Nowhere
                          \/ q \in s.online /\ t.at[q] = s.at[q]
                          \/ MayEnter(s, t.at[q], q)
  BY <1>3
<1> QED BY <1>2, <1>3, <1>4, <1>5, PlayersMove

\* Waking the one who sleeps in a house changes nothing for those who are awake.
LEMMA WakeUpSound ==
  ASSUME NEW s, HouInv(s), NEW h \in House, NEW t, t = WakeUp(s, h)
  PROVE  HouInv(t)
<1>1. s \in HouState /\ Slept(s)
  BY DEF HouInv
<1>2. /\ t \in HouState
      /\ SameLists(s, t) /\ SamePlayers(s, t) /\ t.at = s.at
      /\ Slept(t)
      /\ t.sleeper[h] = Nowhere
      /\ \A g \in House : g # h => t.sleeper[g] = s.sleeper[g]
      /\ \A p \in Resident : t.beds[p] = s.beds[p] \/ t.beds[p] = Nowhere
  BY <1>1, WakeUpKeeps
<1>3. Awake(t)
  BY <1>2 DEF HouInv, Awake, SamePlayers, HouState
<1>4. Welcome(t)
  BY <1>2, Listed DEF HouInv, Welcome, Inside, SamePlayers, SameLists
<1>5. Vacant(t)
  BY <1>2 DEF HouInv, Vacant, SameLists
<1> QED BY <1>2, <1>3, <1>4, <1>5 DEF HouInv

LEMMA UseBedKeeps ==
  ASSUME HouInv(hou), NEW p \in Resident, NEW h \in House, UseBed(p, h)
  PROVE  HouInv(hou')
<1>0. hou \in HouState
  BY DEF HouInv
<1>1. /\ p \in hou.online /\ hou.at[p] = h /\ p \notin hou.tired
      /\ MayEnter(hou, h, p) /\ hou.beds[p] = Nowhere
  BY DEF UseBed, Inside, HouInv, Welcome, Awake
<1>2. CASE hou.sleeper[h] = Nowhere
             /\ hou' = [hou EXCEPT !.sleeper[h] = p, !.beds[p] = h, !.tired = @ \cup {p}]
  <2>1. hou' \in HouState
    BY <1>0, <1>2 DEF HouState
  <2>2. /\ hou'.sleeper = [hou.sleeper EXCEPT ![h] = p] /\ hou'.beds = [hou.beds EXCEPT ![p] = h]
        /\ hou'.tired = hou.tired \cup {p} /\ hou'.online = hou.online /\ hou'.at = hou.at
        /\ SameLists(hou, hou')
    BY <1>0, <1>2 DEF HouState, SameLists
  <2>3. \A g \in House : hou'.sleeper[g] = IF g = h THEN p ELSE hou.sleeper[g]
    BY <1>0, <2>2 DEF HouState
  <2>4. \A q \in Resident : hou'.beds[q] = IF q = p THEN h ELSE hou.beds[q]
    BY <1>0, <2>2 DEF HouState
  <2>5. Slept(hou')
    <3> SUFFICES ASSUME NEW q \in Resident, NEW g \in House
                 PROVE hou'.beds[q] = g <=> hou'.sleeper[g] = q
      BY DEF Slept
    <3>1. /\ hou.beds[q] = g <=> hou.sleeper[g] = q
          /\ hou.beds[q] = h <=> hou.sleeper[h] = q
      BY DEF Slept, HouInv
    <3>2. g # Nowhere /\ q # Nowhere
      BY HouAssumption
    <3> QED BY <3>1, <3>2, <1>1, <1>2, <2>3, <2>4
  <2>6. Awake(hou')
    BY <1>0, <2>2, <2>4 DEF HouInv, Awake, HouState
  <2>7. Welcome(hou')
    BY <2>2, Listed DEF HouInv, Welcome, Inside, SameLists
  <2>8. hou.owner[h] # Nowhere
    BY <1>1, Listed, HouAssumption DEF HouInv, Vacant
  <2>9. Vacant(hou')
    BY <2>2, <2>3, <2>8 DEF HouInv, Vacant, SameLists
  <2> QED BY <2>1, <2>5, <2>6, <2>7, <2>9 DEF HouInv
<1>3. CASE hou' = WakeUp(hou, h)
  BY <1>3, WakeUpSound
<1> QED BY <1>2, <1>3 DEF UseBed

LEMMA LogInKeeps ==
  ASSUME HouInv(hou), NEW p \in Resident, LogIn(p)
  PROVE  HouInv(hou')
<1> DEFINE h == hou.at[p]
           placed == IF h # Nowhere /\ ~MayEnter(hou, h, p)
                     THEN PutOut(hou, {p}) ELSE hou
           woken == IF hou.beds[p] = Nowhere THEN placed
                    ELSE WakeUp(placed, hou.beds[p])
<1>1. hou' = [woken EXCEPT !.online = @ \cup {p}]
  BY DEF LogIn
<1>2. /\ placed \in HouState
      /\ SameLists(hou, placed) /\ SameBeds(hou, placed) /\ SamePlayers(hou, placed)
      /\ \A q \in Resident : placed.at[q] = hou.at[q] \/ placed.at[q] = Nowhere
      /\ placed.at[p] = Nowhere \/ MayEnter(hou, placed.at[p], p)
  <2>1. hou \in HouState
    BY DEF HouInv
  <2>2. CASE h # Nowhere /\ ~MayEnter(hou, h, p)
    <3>1. placed = PutOut(hou, {p})
      BY <2>2
    <3> HIDE DEF placed
    <3> QED BY <2>1, <3>1, PutOutKeeps
  <2>3. CASE ~(h # Nowhere /\ ~MayEnter(hou, h, p))
    <3>1. placed = hou
      BY <2>3
    <3> HIDE DEF placed
    <3> QED BY <2>1, <2>3, <3>1 DEF SameLists, SameBeds, SamePlayers
  <2> QED BY <2>2, <2>3
<1> HIDE DEF placed
<1>3. HouInv(placed)
  BY <1>2, PlayersMove DEF HouInv, Awake, SamePlayers, HouState
<1>4. /\ HouInv(woken) /\ woken.beds[p] = Nowhere
      /\ SameLists(placed, woken) /\ SamePlayers(placed, woken) /\ woken.at = placed.at
  <2>1. CASE hou.beds[p] = Nowhere
    BY <1>2, <1>3, <2>1 DEF SameLists, SamePlayers, SameBeds
  <2>2. CASE hou.beds[p] # Nowhere
    <3> DEFINE g == hou.beds[p]
    <3>1. g \in House /\ placed.sleeper[g] = p /\ woken = WakeUp(placed, g)
      BY <1>2, <2>2 DEF HouInv, HouState, Slept, SameBeds
    <3> HIDE DEF g, woken
    <3>2. placed \in HouState /\ Slept(placed)
      BY <1>3 DEF HouInv
    <3> QED BY <1>3, <3>1, <3>2, WakeUpSound, WakeUpKeeps
  <2> QED BY <2>1, <2>2
<1> HIDE DEF woken
<1>5. hou' \in HouState
  BY <1>1, <1>4 DEF HouInv, HouState
<1>6. /\ hou'.online = woken.online \cup {p} /\ hou'.tired = woken.tired
      /\ hou'.at = woken.at /\ SameLists(woken, hou') /\ SameBeds(woken, hou')
  BY <1>1, <1>4 DEF HouInv, HouState, SameLists, SameBeds
<1>7. \A q \in hou'.online : woken.beds[q] = Nowhere \/ q \in hou'.tired
  BY <1>4, <1>6 DEF HouInv, Awake
<1>8. \A q \in hou'.online : \/ hou'.at[q] = Nowhere
                             \/ q \in woken.online /\ hou'.at[q] = woken.at[q]
                             \/ MayEnter(woken, hou'.at[q], q)
  <2>1. hou'.at[p] = Nowhere \/ MayEnter(woken, hou'.at[p], p)
    BY <1>2, <1>4, <1>6, Listed DEF SameLists
  <2> QED BY <1>6, <2>1
<1> QED BY <1>4, <1>5, <1>6, <1>7, <1>8, PlayersMove

LEMMA EditListsKeeps ==
  ASSUME HouInv(hou), NEW p \in Resident, NEW h \in House,
         NEW a, a \subseteq Resident, NEW b, b \subseteq Resident, EditLists(p, h, a, b)
  PROVE  HouInv(hou')
<1>1. hou \in HouState /\ hou' = SetLists(hou, h, a, b)
  BY DEF HouInv, EditLists
<1>2. ListsSet(hou, h, a, b, hou')
  BY <1>1, SetListsKeeps
<1>3. hou.owner[h] # Nowhere
  <2>1. p # Nowhere
    BY HouAssumption
  <2>2. AccessLevel(hou, h, p) \in {2, 3}
    BY DEF EditLists
  <2>3. p = hou.owner[h] \/ p \in hou.subs[h]
    BY <2>2 DEF AccessLevel
  <2> QED BY <2>1, <2>3 DEF HouInv, Vacant
<1>4. Slept(hou') /\ Awake(hou') /\ hou' \in HouState
  BY <1>2 DEF ListsSet, HouInv, Slept, Awake, SameBeds, SamePlayers
<1>5. Vacant(hou')
  BY <1>1, <1>2, <1>3 DEF ListsSet, HouInv, HouState, Vacant, SameBeds
<1>6. Welcome(hou')
  <2> SUFFICES ASSUME NEW g \in House, NEW q \in Inside(hou', g), g # h
               PROVE  MayEnter(hou', g, q)
    BY <1>2 DEF Welcome, ListsSet
  <2>1. q \in Resident /\ g # Nowhere /\ q \in Inside(hou, g)
    BY <1>2, HouAssumption DEF ListsSet, Inside, SamePlayers, HouState
  <2>2. MayEnter(hou, g, q)
    BY <2>1 DEF HouInv, Welcome
  <2>3. hou'.owner[g] = hou.owner[g] /\ hou'.subs[g] = hou.subs[g] /\ hou'.guests[g] = hou.guests[g]
    BY <1>1, <1>2 DEF ListsSet, HouState
  <2> QED BY <2>2, <2>3, Listed
<1> QED BY <1>4, <1>5, <1>6 DEF HouInv

LEMMA EnterKeeps ==
  ASSUME HouInv(hou), NEW p \in Resident, NEW h \in House, Enter(p, h)
  PROVE  HouInv(hou')
<1>1. hou \in HouState /\ hou' = [hou EXCEPT !.at[p] = h] /\ MayEnter(hou, h, p)
  BY DEF HouInv, Enter
<1>2. hou' \in HouState
  BY <1>1 DEF HouState
<1>3. /\ SameLists(hou, hou') /\ SameBeds(hou, hou') /\ SamePlayers(hou, hou')
      /\ \A q \in Resident : hou'.at[q] = IF q = p THEN h ELSE hou.at[q]
  BY <1>1 DEF HouState, SameLists, SameBeds, SamePlayers
<1>4. \A q \in hou'.online : \/ hou'.at[q] = Nowhere
                             \/ q \in hou.online /\ hou'.at[q] = hou.at[q]
                             \/ MayEnter(hou, hou'.at[q], q)
  BY <1>1, <1>2, <1>3 DEF HouState, SamePlayers
<1>5. \A q \in hou'.online : hou.beds[q] = Nowhere \/ q \in hou'.tired
  BY <1>3 DEF HouInv, Awake, SamePlayers
<1> QED BY <1>2, <1>3, <1>4, <1>5, PlayersMove

LEMMA GoOutKeeps ==
  ASSUME HouInv(hou), NEW p \in Resident, NEW h \in House, NEW q, GoOut(p, h, q)
  PROVE  HouInv(hou')
<1>1. hou \in HouState /\ hou' = PutOut(hou, {p})
  BY DEF HouInv, GoOut
<1>2. /\ hou' \in HouState
      /\ SameLists(hou, hou') /\ SameBeds(hou, hou') /\ SamePlayers(hou, hou')
      /\ \A r \in Resident : hou'.at[r] = IF r \in {p} THEN Nowhere ELSE hou.at[r]
  BY <1>1, PutOutKeeps
<1>3. \A r \in hou'.online : \/ hou'.at[r] = Nowhere
                             \/ r \in hou.online /\ hou'.at[r] = hou.at[r]
                             \/ MayEnter(hou, hou'.at[r], r)
  BY <1>2 DEF HouState, SamePlayers
<1>4. \A r \in hou'.online : hou.beds[r] = Nowhere \/ r \in hou'.tired
  BY <1>2 DEF HouInv, Awake, SamePlayers
<1> QED BY <1>2, <1>3, <1>4, PlayersMove

\* Documents are the business of the sale alone.
LEMMA DocumentsApart ==
  ASSUME NEW s, HouInv(s), NEW h \in House, NEW d \in Sale,
         NEW t, t = [s EXCEPT !.document[h] = d]
  PROVE  HouInv(t)
<1>1. s \in HouState
  BY DEF HouInv
<1>2. t \in HouState
  BY <1>1 DEF HouState
<1>3. SameLists(s, t) /\ SameBeds(s, t) /\ t.at = s.at /\ t.online = s.online /\ t.tired = s.tired
  BY <1>1 DEF HouState, SameLists, SameBeds
<1>4. \A q \in t.online : \/ t.at[q] = Nowhere
                          \/ q \in s.online /\ t.at[q] = s.at[q]
                          \/ MayEnter(s, t.at[q], q)
  BY <1>3
<1>5. \A q \in t.online : s.beds[q] = Nowhere \/ q \in t.tired
  BY <1>3 DEF HouInv, Awake
<1> QED BY <1>2, <1>3, <1>4, <1>5, PlayersMove

LEMMA SellKeeps ==
  ASSUME HouInv(hou), NEW h \in House, Sell(h)
  PROVE  HouInv(hou')
<1>1. hou.document[h] \in Sale /\ hou.document[h] # Nowhere
  BY DEF Sell, HouInv, HouState
<1> DEFINE b == hou.document[h].buyer
           t == SetOwner(hou, h, b)
<1>2. b \in Resident \cup {Nowhere}
  BY <1>1 DEF Sale
<1>3. HouInv(t)
  <2> HIDE DEF b
  <2> QED BY <1>2, SetOwnerKeeps
<1>4. hou' = [t EXCEPT !.document[h] = Nowhere] /\ Nowhere \in Sale
  BY DEF Sell, Sale
<1> HIDE DEF t
<1> QED BY <1>3, <1>4, DocumentsApart

LEMMA HouInvInductive ==
  ASSUME HouInv(hou), [HouNext]_hou
  PROVE  HouInv(hou')
<1>1. CASE UNCHANGED hou
  BY <1>1
<1>2. CASE HouNext
  <2> PICK p \in Resident :
        \/ LogIn(p) \/ LogOut(p) \/ KickSleeper(p)
        \/ \E h \in House :
             \/ UseBed(p, h) \/ Buy(p, h) \/ Abandon(p, h) \/ Enter(p, h)
             \/ Sell(h) \/ GiveUp(h)
             \/ \E q \in Resident : GoOut(p, h, q) \/ StartSale(p, q, h)
             \/ \E subs \in SUBSET Resident, guests \in SUBSET Resident :
                  subs \cap guests = {} /\ EditLists(p, h, subs, guests)
    BY <1>2 DEF HouNext
  <2>1. CASE LogIn(p)
    BY <2>1, LogInKeeps
  <2>2. CASE LogOut(p) \/ KickSleeper(p)
    BY <2>2, QuitGameKeeps DEF LogOut, KickSleeper
  <2>3. ASSUME NEW h \in House,
               \/ UseBed(p, h) \/ Buy(p, h) \/ Abandon(p, h) \/ Enter(p, h)
               \/ Sell(h) \/ GiveUp(h)
               \/ \E q \in Resident : GoOut(p, h, q) \/ StartSale(p, q, h)
               \/ \E subs \in SUBSET Resident, guests \in SUBSET Resident :
                    subs \cap guests = {} /\ EditLists(p, h, subs, guests)
        PROVE  HouInv(hou')
    <3>1. CASE UseBed(p, h)
      BY <3>1, UseBedKeeps
    <3>2. CASE Buy(p, h) \/ Abandon(p, h)
      <4>1. PICK o \in Resident \cup {Nowhere} : hou' = SetOwner(hou, h, o)
        BY <3>2 DEF Buy, Abandon
      <4> QED BY <4>1, SetOwnerKeeps
    <3>3. CASE Enter(p, h)
      BY <3>3, EnterKeeps
    <3>4. CASE Sell(h)
      BY <3>4, SellKeeps
    <3>5. CASE GiveUp(h)
      <4>1. Nowhere \in Sale /\ hou' = [hou EXCEPT !.document[h] = Nowhere]
        BY <3>5 DEF GiveUp, Sale
      <4> QED BY <4>1, DocumentsApart
    <3>6. ASSUME NEW q \in Resident, GoOut(p, h, q) \/ StartSale(p, q, h)
          PROVE  HouInv(hou')
      <4>1. CASE GoOut(p, h, q)
        BY <4>1, GoOutKeeps
      <4>2. CASE StartSale(p, q, h)
        <5> DEFINE d == [seller |-> p, buyer |-> q]
        <5>1. d \in Sale /\ hou' = [hou EXCEPT !.document[h] = d]
          BY <4>2 DEF StartSale, Sale
        <5> HIDE DEF d
        <5> QED BY <5>1, DocumentsApart
      <4> QED BY <3>6, <4>1, <4>2
    <3>7. ASSUME NEW a \in SUBSET Resident, NEW b \in SUBSET Resident, EditLists(p, h, a, b)
          PROVE  HouInv(hou')
      <4>1. a \subseteq Resident /\ b \subseteq Resident
        OBVIOUS
      <4> QED BY <3>7, <4>1, EditListsKeeps
    <3> QED BY <2>3, <3>1, <3>2, <3>3, <3>4, <3>5, <3>6, <3>7
  <2> QED BY <2>1, <2>2, <2>3
<1> QED BY <1>1, <1>2

LEMMA HouInvHolds ==
  /\ HouInit => HouInv(hou)
  /\ HouInv(hou) => HousesAgree
<1>1. ASSUME HouInit PROVE HouInv(hou)
  <2>1. hou \in HouState
    BY <1>1 DEF HouInit, HouState, Sale
  <2> QED BY <1>1, <2>1, HouAssumption
          DEF HouInit, HouInv, Slept, Awake, Welcome, Vacant, Inside
<1>2. ASSUME HouInv(hou) PROVE HousesAgree
  BY <1>2 DEF HouInv, HousesAgree, Slept, Awake, Welcome, Vacant
<1> QED BY <1>1, <1>2

\* Houses alone: whatever the players do, beds, owners and lists agree.
THEOREM HousesStayInOrder == HouSpec => []HousesAgree
<1>1. HouInit => HouInv(hou)
  BY HouInvHolds
<1>2. HouInv(hou) /\ [HouNext]_hou => HouInv(hou)'
  <2>1. ASSUME HouInv(hou), [HouNext]_hou PROVE HouInv(hou')
    BY <2>1, HouInvInductive
  <2> QED BY <2>1
<1>3. HouInv(hou) => HousesAgree
  BY HouInvHolds
<1> QED BY <1>1, <1>2, <1>3, PTL DEF HouSpec

(***************************************************************************)
(* Chat channels and guilds                                                *)
(***************************************************************************)

\* ChannelsAgree and GuildPointersAgree, of a state s.  What is added makes
\* them inductive: a private channel that is gone has no invitations left,
\* which a new owner in its slot would inherit.
UsersAreHere(s) ==
  \A c \in Channel : s.users[c] \subseteq s.inGame /\ (c \notin s.open => s.users[c] = {})

PrivatelyOwned(s) ==
  \A c \in PrivateId :
    /\ c \in s.open <=> s.owner[c] # Nobody
    /\ c \in s.open => /\ s.owner[c] \in s.users[c]
                       /\ s.users[c] \subseteq s.invites[c] \cup {s.owner[c]}
                       /\ \A d \in PrivateId : s.owner[d] = s.owner[c] => d = c
    /\ s.invites[c] \subseteq s.inGame \ {s.owner[c]}
    /\ c \notin s.open => s.invites[c] = {}

Enrolled(s) == \A p \in Person : s.guild[p] # Nobody =>
                 s.guild[p] \in s.guilds /\ p \in s.roll[s.guild[p]]

ChatInv(s) == s \in ChatState /\ UsersAreHere(s) /\ PrivatelyOwned(s) /\ Enrolled(s)

\* t differs from s in what is said only.
SameChannels(s, t) == /\ t.open = s.open /\ t.users = s.users
                      /\ t.owner = s.owner /\ t.invites = s.invites
SameGuilds(s, t) == t.guild = s.guild /\ t.guilds = s.guilds /\ t.roll = s.roll

LEMMA ChannelKeys ==
  /\ PrivateId \subseteq Channel
  /\ Nobody \notin Person
  /\ \A c \in Band \cup GuildId \cup Topic : c \notin PrivateId
  BY ChatAssumption DEF Channel

\* A channel that is erased has neither users nor owner nor invitations.
LEMMA EraseKeeps ==
  ASSUME NEW s, ChatInv(s), NEW c \in PrivateId, NEW t, t = Erase(s, c)
  PROVE  ChatInv(t)
<1>1. s \in ChatState /\ c \in Channel
  BY ChannelKeys DEF ChatInv
<1>2. t \in ChatState
  BY <1>1 DEF Erase, ChatState
<1>3. /\ t.open = s.open \ {c} /\ t.users = [s.users EXCEPT ![c] = {}]
      /\ t.owner = [s.owner EXCEPT ![c] = Nobody]
      /\ t.invites = [s.invites EXCEPT ![c] = {}]
      /\ t.inGame = s.inGame /\ SameGuilds(s, t)
  BY <1>1 DEF Erase, ChatState, SameGuilds
<1>4. \A d \in Channel : t.users[d] = IF d = c THEN {} ELSE s.users[d]
  BY <1>1, <1>3 DEF ChatState
<1>5. \A d \in PrivateId : /\ t.owner[d] = IF d = c THEN Nobody ELSE s.owner[d]
                           /\ t.invites[d] = IF d = c THEN {} ELSE s.invites[d]
  BY <1>1, <1>3 DEF ChatState
<1>6. UsersAreHere(t)
  BY <1>3, <1>4 DEF ChatInv, UsersAreHere
<1>7. PrivatelyOwned(t)
  <2> SUFFICES ASSUME NEW d \in PrivateId
               PROVE  /\ d \in t.open <=> t.owner[d] # Nobody
                      /\ d \in t.open => /\ t.owner[d] \in t.users[d]
                                         /\ t.users[d] \subseteq t.invites[d] \cup {t.owner[d]}
                                         /\ \A e \in PrivateId : t.owner[e] = t.owner[d] => e = d
                      /\ t.invites[d] \subseteq t.inGame \ {t.owner[d]}
                      /\ d \notin t.open => t.invites[d] = {}
    BY DEF PrivatelyOwned
  <2>1. d \in Channel
    BY ChannelKeys
  <2> QED BY <2>1, <1>3, <1>4, <1>5 DEF ChatInv, PrivatelyOwned
<1>8. Enrolled(t)
  BY <1>3 DEF ChatInv, Enrolled, SameGuilds
<1> QED BY <1>2, <1>6, <1>7, <1>8 DEF ChatInv

\* A user may go from any channel but a private one of its own.
LEMMA RemoveUserKeeps ==
  ASSUME NEW s, ChatInv(s), NEW c \in Channel, NEW p \in Person,
         c \in PrivateId => s.owner[c] # p, NEW t, t = RemoveUser(s, p, c)
  PROVE  ChatInv(t)
<1>1. s \in ChatState
  BY DEF ChatInv
<1>2. t \in ChatState
  BY <1>1 DEF RemoveUser, ChatState
<1>3. /\ t.open = s.open /\ t.users = [s.users EXCEPT ![c] = @ \ {p}]
      /\ t.owner = s.owner /\ t.invites = s.invites
      /\ t.inGame = s.inGame /\ SameGuilds(s, t)
  BY <1>1 DEF RemoveUser, ChatState, SameGuilds
<1>4. \A d \in Channel : t.users[d] = IF d = c THEN s.users[d] \ {p} ELSE s.users[d]
  BY <1>1, <1>3 DEF ChatState
<1>5. UsersAreHere(t)
  BY <1>3, <1>4 DEF ChatInv, UsersAreHere
<1>6. PrivatelyOwned(t)
  <2> SUFFICES ASSUME NEW d \in PrivateId, d \in s.open
               PROVE  /\ s.owner[d] \in t.users[d]
                      /\ t.users[d] \subseteq s.invites[d] \cup {s.owner[d]}
    BY <1>3 DEF ChatInv, PrivatelyOwned
  <2>1. d \in Channel
    BY ChannelKeys
  <2>2. s.owner[d] \in s.users[d] /\ s.users[d] \subseteq s.invites[d] \cup {s.owner[d]}
    BY DEF ChatInv, PrivatelyOwned
  <2>3. t.users[d] \subseteq s.users[d]
    BY <2>1, <1>4
  <2>4. s.owner[d] # p \/ d # c
    OBVIOUS
  <2>5. s.owner[d] \in t.users[d]
    BY <2>1, <2>2, <2>4, <1>4
  <2> QED BY <2>2, <2>3, <2>5
<1>7. Enrolled(t)
  BY <1>3 DEF ChatInv, Enrolled, SameGuilds
<1> QED BY <1>2, <1>5, <1>6, <1>7 DEF ChatInv

LEMMA RemoveUserFromChannelKeeps ==
  ASSUME NEW s, ChatInv(s), NEW c \in Channel, NEW p \in Person,
         NEW t, t = RemoveUserFromChannel(s, p, c)
  PROVE  ChatInv(t)
  BY EraseKeeps, RemoveUserKeeps DEF RemoveUserFromChannel

\* What becomes of the channels when a player is taken from all of them.
LEMMA RemoveUserFromAllChannelsKeeps ==
  ASSUME NEW s, ChatInv(s), NEW p \in Person, NEW t, t = RemoveUserFromAllChannels(s, p)
  PROVE  /\ ChatInv(t) /\ t.inGame = s.inGame /\ t.band = s.band /\ SameGuilds(s, t)
         /\ \A c \in Channel : p \notin t.users[c]
         /\ \A c \in PrivateId : p \notin t.invites[c]
<1> DEFINE owned == {c \in PrivateId : s.owner[c] = p}
<1>1. s \in ChatState
  BY DEF ChatInv
<1>2. t \in ChatState
  <2>1. [c \in Channel |-> IF c \in owned THEN {} ELSE s.users[c] \ {p}] \in [Channel -> SUBSET Person]
    BY <1>1 DEF ChatState
  <2>2. [c \in PrivateId |-> IF c \in owned THEN {} ELSE s.invites[c] \ {p}] \in [PrivateId -> SUBSET Person]
    BY <1>1 DEF ChatState
  <2>3. [c \in PrivateId |-> IF c \in owned THEN Nobody ELSE s.owner[c]] \in [PrivateId -> Person \cup {Nobody}]
    BY <1>1 DEF ChatState
  <2> QED BY <1>1, <2>1, <2>2, <2>3 DEF RemoveUserFromAllChannels, ChatState
<1>3. /\ t.open = s.open \ owned
      /\ t.inGame = s.inGame /\ t.band = s.band /\ SameGuilds(s, t)
      /\ \A c \in Channel : t.users[c] = IF c \in owned THEN {} ELSE s.users[c] \ {p}
      /\ \A c \in PrivateId : /\ t.owner[c] = IF c \in owned THEN Nobody ELSE s.owner[c]
                              /\ t.invites[c] = IF c \in owned THEN {} ELSE s.invites[c] \ {p}
  BY <1>1 DEF RemoveUserFromAllChannels, ChatState, SameGuilds
<1>4. UsersAreHere(t)
  BY <1>3 DEF ChatInv, UsersAreHere
<1>5. PrivatelyOwned(t)
  <2> SUFFICES ASSUME NEW d \in PrivateId
               PROVE  /\ d \in t.open <=> t.owner[d] # Nobody
                      /\ d \in t.open => /\ t.owner[d] \in t.users[d]
                                         /\ t.users[d] \subseteq t.invites[d] \cup {t.owner[d]}
                                         /\ \A e \in PrivateId : t.owner[e] = t.owner[d] => e = d
                      /\ t.invites[d] \subseteq t.inGame \ {t.owner[d]}
                      /\ d \notin t.open => t.invites[d] = {}
    BY DEF PrivatelyOwned
  <2>1. d \in Channel
    BY ChannelKeys
  <2>2. CASE d \in owned
    BY <2>1, <2>2, <1>3 DEF ChatInv, PrivatelyOwned
  <2>3. CASE d \notin owned
    <3>1. /\ t.owner[d] = s.owner[d] /\ t.users[d] = s.users[d] \ {p}
          /\ t.invites[d] = s.invites[d] \ {p} /\ s.owner[d] # p
          /\ d \in t.open <=> d \in s.open
      BY <2>1, <2>3, <1>3
    <3>2. /\ d \in s.open <=> s.owner[d] # Nobody
          /\ d \in s.open => /\ s.owner[d] \in s.users[d]
                             /\ s.users[d] \subseteq s.invites[d] \cup {s.owner[d]}
          /\ s.invites[d] \subseteq s.inGame \ {s.owner[d]}
          /\ d \notin s.open => s.invites[d] = {}
      BY DEF ChatInv, PrivatelyOwned
    <3>3. ASSUME d \in s.open, NEW e \in PrivateId, t.owner[e] = t.owner[d] PROVE e = d
      <4>1. t.owner[d] # Nobody
        BY <3>1, <3>2, <3>3
      <4>2. s.owner[e] = s.owner[d]
        BY <4>1, <3>1, <3>3, <1>3
      <4> QED BY <4>2, <3>3 DEF ChatInv, PrivatelyOwned
    <3> QED BY <3>1, <3>2, <3>3, <1>3
  <2> QED BY <2>2, <2>3
<1>6. Enrolled(t)
  BY <1>3 DEF ChatInv, Enrolled, SameGuilds
<1> QED BY <1>2, <1>3, <1>4, <1>5, <1>6 DEF ChatInv

\* Players, bands and guilds change, channels do not.
LEMMA ChannelsApart ==
  ASSUME NEW s, ChatInv(s), NEW t, t \in ChatState, SameChannels(s, t),
         Enrolled(t),
         \A c \in Channel : s.users[c] \subseteq t.inGame,
         \A c \in PrivateId : s.invites[c] \subseteq t.inGame
  PROVE  ChatInv(t)
  BY DEF ChatInv, SameChannels, UsersAreHere, PrivatelyOwned

\* t is s, without p on the roll of g, and without g if p was the last on it.
Resigned(s, p, g, t) ==
  /\ t \in ChatState /\ SameChannels(s, t)
  /\ t.inGame = s.inGame /\ t.band = s.band /\ t.guild = s.guild
  /\ \A h \in GuildId : t.roll[h] = IF h = g THEN s.roll[h] \ {p} ELSE s.roll[h]
  /\ \A h \in s.guilds : h \in t.guilds \/ (h = g /\ s.roll[g] \subseteq {p})

\* The member that resigns is not on the roll, all others are; the guild goes
\* only when nobody else is on it.
LEMMA ResignKeeps ==
  ASSUME NEW s \in ChatState, NEW p \in Person, NEW g \in GuildId, NEW t, t = Resign(s, p, g)
  PROVE  Resigned(s, p, g, t)
<1>1. t \in ChatState
  BY DEF Resign, ChatState
<1>2. /\ SameChannels(s, t) /\ t.inGame = s.inGame /\ t.band = s.band /\ t.guild = s.guild
      /\ t.roll = [s.roll EXCEPT ![g] = @ \ {p}]
      /\ t.guilds = s.guilds \ IF s.roll[g] \subseteq {p} THEN {g} ELSE {}
  BY DEF Resign, ChatState, SameChannels
<1>3. \A h \in GuildId : t.roll[h] = IF h = g THEN s.roll[h] \ {p} ELSE s.roll[h]
  BY <1>2 DEF ChatState
<1> QED BY <1>1, <1>2, <1>3 DEF Resigned

LEMMA EnterGameKeeps ==
  ASSUME ChatInv(chat), NEW p \in Person, NEW g \in GuildId \cup {Nobody}, EnterGame(p, g)
  PROVE  ChatInv(chat')
<1>1. chat \in ChatState
  BY DEF ChatInv
<1> DEFINE roll == [h \in GuildId |-> IF h = g THEN chat.roll[h] \cup {p} ELSE chat.roll[h]]
<1>2. chat' = [chat EXCEPT !.inGame = @ \cup {p}, !.guild[p] = g, !.band[p] = Nobody,
                 !.guilds = @ \cup ({g} \ {Nobody}), !.roll = roll]
  BY DEF EnterGame
<1>3. roll \in [GuildId -> SUBSET (Person \cup {Nobody})]
  BY <1>1 DEF ChatState
<1>4. \A h \in GuildId : roll[h] = IF h = g THEN chat.roll[h] \cup {p} ELSE chat.roll[h]
  OBVIOUS
<1> HIDE DEF roll
<1>5. chat' \in ChatState
  BY <1>1, <1>2, <1>3 DEF ChatState
<1>6. /\ SameChannels(chat, chat') /\ chat'.inGame = chat.inGame \cup {p}
      /\ chat'.guild = [chat.guild EXCEPT ![p] = g] /\ chat'.roll = roll
      /\ chat'.guilds = chat.guilds \cup ({g} \ {Nobody})
  BY <1>1, <1>2 DEF ChatState, SameChannels
<1>7. Enrolled(chat')
  <2> SUFFICES ASSUME NEW q \in Person, chat'.guild[q] # Nobody
               PROVE  chat'.guild[q] \in chat'.guilds /\ q \in chat'.roll[chat'.guild[q]]
    BY DEF Enrolled
  <2>1. chat'.guild[q] = IF q = p THEN g ELSE chat.guild[q]
    BY <1>1, <1>6 DEF ChatState
  <2>2. chat'.guild[q] \in GuildId
    BY <1>5 DEF ChatState
  <2>3. CASE q = p
    BY <2>1, <2>2, <2>3, <1>4, <1>6
  <2>4. CASE q # p
    BY <2>1, <2>2, <2>4, <1>4, <1>6 DEF ChatInv, Enrolled
  <2> QED BY <2>3, <2>4
<1>8. /\ \A c \in Channel : chat.users[c] \subseteq chat'.inGame
      /\ \A c \in PrivateId : chat.invites[c] \subseteq chat'.inGame
  BY <1>6 DEF ChatInv, UsersAreHere, PrivatelyOwned
<1> QED BY <1>5, <1>6, <1>7, <1>8, ChannelsApart

LEMMA LeaveGameKeeps ==
  ASSUME ChatInv(chat), NEW p \in Person, LeaveGame(p)
  PROVE  ChatInv(chat')
<1> DEFINE u == [chat EXCEPT !.band[p] = Nobody]
           s == RemoveUserFromAllChannels(u, p)
           t == IF s.guild[p] = Nobody THEN s ELSE Resign(s, p, s.guild[p])
           roll == [g \in GuildId |-> IF p \in t.roll[g] THEN (t.roll[g] \ {p}) \cup {Nobody}
                                      ELSE t.roll[g]]
<1>1. chat' = [t EXCEPT !.inGame = @ \ {p}, !.guild[p] = Nobody, !.roll = roll]
  BY DEF LeaveGame
<1>2. ChatInv(u) /\ u.inGame = chat.inGame
  <2>1. chat \in ChatState
    BY DEF ChatInv
  <2>2. u \in ChatState
    BY <2>1 DEF ChatState
  <2>3. SameChannels(chat, u) /\ SameGuilds(chat, u) /\ u.inGame = chat.inGame
    BY <2>1 DEF ChatState, SameChannels, SameGuilds
  <2>4. Enrolled(u)
    BY <2>3 DEF ChatInv, Enrolled, SameGuilds
  <2>5. /\ \A c \in Channel : chat.users[c] \subseteq u.inGame
        /\ \A c \in PrivateId : chat.invites[c] \subseteq u.inGame
    BY <2>3 DEF ChatInv, UsersAreHere, PrivatelyOwned
  <2> HIDE DEF u
  <2> QED BY <2>2, <2>3, <2>4, <2>5, ChannelsApart
<1> HIDE DEF u
<1>3. /\ ChatInv(s) /\ s.inGame = chat.inGame
      /\ \A c \in Channel : p \notin s.users[c]
      /\ \A c \in PrivateId : p \notin s.invites[c]
  BY <1>2, RemoveUserFromAllChannelsKeeps
<1> HIDE DEF s
<1>4. /\ t \in ChatState /\ SameChannels(s, t)
      /\ t.inGame = s.inGame /\ t.guild = s.guild
      /\ \A q \in Person : q # p /\ t.guild[q] # Nobody =>
            t.guild[q] \in t.guilds /\ q \in t.roll[t.guild[q]]
  <2>1. s \in ChatState /\ Enrolled(s)
    BY <1>3 DEF ChatInv
  <2>2. CASE s.guild[p] = Nobody
    BY <2>1, <2>2 DEF SameChannels, Enrolled
  <2>3. CASE s.guild[p] # Nobody
    <3> DEFINE g == s.guild[p]
    <3>1. g \in GuildId /\ t = Resign(s, p, g)
      BY <2>1, <2>3 DEF ChatState
    <3> HIDE DEF g, t
    <3>2. Resigned(s, p, g, t)
      BY <2>1, <3>1, ResignKeeps
    <3>3. ASSUME NEW q \in Person, q # p, t.guild[q] # Nobody
          PROVE  t.guild[q] \in t.guilds /\ q \in t.roll[t.guild[q]]
      <4>1. s.guild[q] \in s.guilds /\ q \in s.roll[s.guild[q]] /\ s.guild[q] \in GuildId
        BY <2>1, <3>2, <3>3 DEF Enrolled, ChatState, Resigned
      <4> QED BY <4>1, <3>2, <3>3 DEF Resigned
    <3> QED BY <3>2, <3>3 DEF Resigned
  <2> QED BY <2>2, <2>3
<1> HIDE DEF t
<1>5. /\ roll \in [GuildId -> SUBSET (Person \cup {Nobody})]
      /\ \A g \in GuildId : roll[g] = IF p \in t.roll[g] THEN (t.roll[g] \ {p}) \cup {Nobody}
                                      ELSE t.roll[g]
  BY <1>4 DEF ChatState
<1> HIDE DEF roll
<1>6. chat' \in ChatState
  BY <1>1, <1>4, <1>5 DEF ChatState
<1>7. /\ SameChannels(s, chat') /\ chat'.inGame = s.inGame \ {p}
      /\ chat'.guild = [t.guild EXCEPT ![p] = Nobody] /\ chat'.roll = roll
      /\ chat'.guilds = t.guilds
  BY <1>1, <1>4 DEF ChatState, SameChannels
<1>8. Enrolled(chat')
  <2> SUFFICES ASSUME NEW q \in Person, chat'.guild[q] # Nobody
               PROVE  chat'.guild[q] \in chat'.guilds /\ q \in chat'.roll[chat'.guild[q]]
    BY DEF Enrolled
  <2>1. q # p /\ chat'.guild[q] = t.guild[q] /\ t.guild[q] \in GuildId
    BY <1>4, <1>7 DEF ChatState
  <2> QED BY <2>1, <1>4, <1>5, <1>7
<1>9. /\ \A c \in Channel : s.users[c] \subseteq chat'.inGame
      /\ \A c \in PrivateId : s.invites[c] \subseteq chat'.inGame
  BY <1>3, <1>7 DEF ChatInv, UsersAreHere, PrivatelyOwned
<1> QED BY <1>3, <1>6, <1>7, <1>8, <1>9, ChannelsApart

LEMMA BandKeeps ==
  ASSUME NEW s, ChatInv(s), NEW p \in Person, NEW b \in Band \cup {Nobody},
         NEW t, t = [s EXCEPT !.band[p] = b]
  PROVE  ChatInv(t)
<1>1. s \in ChatState
  BY DEF ChatInv
<1>2. t \in ChatState
  BY <1>1 DEF ChatState
<1>3. SameChannels(s, t) /\ SameGuilds(s, t) /\ t.inGame = s.inGame
  BY <1>1 DEF ChatState, SameChannels, SameGuilds
<1>4. Enrolled(t)
  BY <1>3 DEF ChatInv, Enrolled, SameGuilds
<1>5. /\ \A c \in Channel : s.users[c] \subseteq t.inGame
      /\ \A c \in PrivateId : s.invites[c] \subseteq t.inGame
  BY <1>3 DEF ChatInv, UsersAreHere, PrivatelyOwned
<1> QED BY <1>2, <1>3, <1>4, <1>5, ChannelsApart

LEMMA SetGuildKeeps ==
  ASSUME ChatInv(chat), NEW p \in Person, NEW g \in GuildId \cup {Nobody}, SetGuild(p, g)
  PROVE  ChatInv(chat')
<1> DEFINE old == chat.guild[p]
           new == IF g \in Unranked THEN Nobody ELSE g
           roll == [h \in GuildId |-> IF h = g /\ g \notin Unranked
                                      THEN chat.roll[h] \cup {p} ELSE chat.roll[h]]
           s == [chat EXCEPT !.guild[p] = new, !.roll = roll]
<1>1. chat \in ChatState /\ Enrolled(chat)
  BY DEF ChatInv
<1>2. /\ g # old /\ (g = Nobody \/ g \in chat.guilds)
      /\ chat' = IF g \in Unranked \/ old = Nobody THEN s ELSE Resign(s, p, old)
  BY DEF SetGuild
<1>3. /\ new \in GuildId \cup {Nobody}
      /\ new # Nobody => new = g /\ g \notin Unranked
      /\ roll \in [GuildId -> SUBSET (Person \cup {Nobody})]
      /\ \A h \in GuildId : roll[h] = IF h = g /\ g \notin Unranked
                                      THEN chat.roll[h] \cup {p} ELSE chat.roll[h]
  BY <1>1 DEF ChatState
<1>9. old \in GuildId \cup {Nobody}
  BY <1>1 DEF ChatState
<1> HIDE DEF new, roll, old
<1>4. s \in ChatState
  BY <1>1, <1>3 DEF ChatState
<1>5. /\ SameChannels(chat, s) /\ s.inGame = chat.inGame /\ s.roll = roll
      /\ s.guilds = chat.guilds /\ s.guild = [chat.guild EXCEPT ![p] = new]
  BY <1>1 DEF ChatState, SameChannels
<1>6. \A q \in Person : s.guild[q] = IF q = p THEN new ELSE chat.guild[q]
  BY <1>1, <1>5 DEF ChatState
<1> HIDE DEF s
<1>7. Enrolled(s)
  <2> SUFFICES ASSUME NEW q \in Person, s.guild[q] # Nobody
               PROVE  s.guild[q] \in s.guilds /\ q \in s.roll[s.guild[q]]
    BY DEF Enrolled
  <2>1. CASE q = p
    BY <2>1, <1>2, <1>3, <1>5, <1>6
  <2>2. CASE q # p
    <3>1. chat.guild[q] \in chat.guilds /\ q \in chat.roll[chat.guild[q]] /\ chat.guild[q] \in GuildId
      BY <2>2, <1>1, <1>6 DEF Enrolled, ChatState
    <3> QED BY <3>1, <2>2, <1>3, <1>5, <1>6
  <2> QED BY <2>1, <2>2
<1>8. chat' \in ChatState /\ SameChannels(chat, chat') /\ chat'.inGame = chat.inGame /\ Enrolled(chat')
  <2>1. CASE g \in Unranked \/ old = Nobody
    BY <2>1, <1>2, <1>4, <1>5, <1>7
  <2>2. CASE ~(g \in Unranked \/ old = Nobody)
    <3>1. old \in GuildId /\ chat' = Resign(s, p, old)
      BY <2>2, <1>2, <1>9
    <3>2. Resigned(s, p, old, chat')
      BY <1>4, <3>1, ResignKeeps
    <3>3. Enrolled(chat')
      <4> SUFFICES ASSUME NEW q \in Person, chat'.guild[q] # Nobody
                   PROVE  chat'.guild[q] \in chat'.guilds /\ q \in chat'.roll[chat'.guild[q]]
        BY DEF Enrolled
      <4>1. s.guild[q] \in s.guilds /\ q \in s.roll[s.guild[q]] /\ s.guild[q] \in GuildId
        BY <3>2, <1>4, <1>7 DEF Enrolled, ChatState, Resigned
      <4>2. CASE q = p
        <5>1. s.guild[q] # old
          BY <4>2, <3>2, <1>2, <1>3, <1>6 DEF Resigned
        <5> QED BY <5>1, <4>1, <3>2 DEF Resigned
      <4>3. CASE q # p
        BY <4>1, <4>3, <3>2 DEF Resigned
      <4> QED BY <4>2, <4>3
    <3> QED BY <3>2, <3>3, <1>5 DEF SameChannels, Resigned
  <2> QED BY <2>1, <2>2
<1>10. /\ \A c \in Channel : chat.users[c] \subseteq chat'.inGame
       /\ \A c \in PrivateId : chat.invites[c] \subseteq chat'.inGame
  BY <1>8 DEF ChatInv, UsersAreHere, PrivatelyOwned
<1> QED BY <1>8, <1>10, ChannelsApart

LEMMA RequestChannelsKeeps ==
  ASSUME ChatInv(chat), NEW p \in Person, RequestChannels(p)
  PROVE  ChatInv(chat')
<1> DEFINE D == {chat.band[p], chat.guild[p]} \ {Nobody}
<1>1. chat \in ChatState /\ chat' = [chat EXCEPT !.open = @ \cup D]
  BY DEF ChatInv, RequestChannels
<1>2. D \subseteq Band \cup GuildId
  BY <1>1 DEF ChatState
<1> HIDE DEF D
<1>3. chat' \in ChatState
  BY <1>1, <1>2 DEF ChatState, Channel
<1>4. /\ chat'.open = chat.open \cup D /\ chat'.users = chat.users /\ chat'.inGame = chat.inGame
      /\ chat'.owner = chat.owner /\ chat'.invites = chat.invites /\ SameGuilds(chat, chat')
  BY <1>1 DEF ChatState, SameGuilds
<1>5. UsersAreHere(chat') /\ Enrolled(chat')
  BY <1>4 DEF ChatInv, UsersAreHere, Enrolled, SameGuilds
<1>6. PrivatelyOwned(chat')
  <2>1. \A c \in PrivateId : c \in chat'.open <=> c \in chat.open
    BY <1>2, <1>4, ChannelKeys
  <2> QED BY <2>1, <1>4 DEF ChatInv, PrivatelyOwned
<1> QED BY <1>3, <1>5, <1>6 DEF ChatInv

LEMMA OpenChannelKeeps ==
  ASSUME ChatInv(chat), NEW p \in Person, NEW c \in Channel, OpenChannel(p, c)
  PROVE  ChatInv(chat')
<1>1. /\ chat \in ChatState /\ chat' = [chat EXCEPT !.users[c] = @ \cup {p}]
      /\ p \in chat.inGame /\ c \in chat.open
      /\ c \in PrivateId => p = chat.owner[c] \/ p \in chat.invites[c]
  BY ChannelKeys DEF ChatInv, OpenChannel, Finds, IsInvited
<1>2. chat' \in ChatState
  BY <1>1 DEF ChatState
<1>3. /\ chat'.open = chat.open /\ chat'.inGame = chat.inGame
      /\ chat'.owner = chat.owner /\ chat'.invites = chat.invites /\ SameGuilds(chat, chat')
      /\ \A d \in Channel : chat'.users[d] = IF d = c THEN chat.users[d] \cup {p} ELSE chat.users[d]
  BY <1>1 DEF ChatState, SameGuilds
<1>4. UsersAreHere(chat') /\ Enrolled(chat')
  BY <1>1, <1>3 DEF ChatInv, UsersAreHere, Enrolled, SameGuilds
<1>5. PrivatelyOwned(chat')
  <2> SUFFICES ASSUME NEW d \in PrivateId, d \in chat.open
               PROVE  /\ chat.owner[d] \in chat'.users[d]
                      /\ chat'.users[d] \subseteq chat.invites[d] \cup {chat.owner[d]}
    BY <1>3 DEF ChatInv, PrivatelyOwned
  <2>1. d \in Channel
    BY ChannelKeys
  <2> QED BY <2>1, <1>1, <1>3 DEF ChatInv, PrivatelyOwned
<1> QED BY <1>2, <1>4, <1>5 DEF ChatInv

LEMMA CreatePrivateChannelKeeps ==
  ASSUME ChatInv(chat), NEW p \in Person, CreatePrivateChannel(p)
  PROVE  ChatInv(chat')
<1>1. PICK c \in PrivateId \ chat.open :
        chat' = [chat EXCEPT !.open = @ \cup {c}, !.owner[c] = p, !.users[c] = {p}]
  BY DEF CreatePrivateChannel
<1>2. /\ chat \in ChatState /\ p \in chat.inGame /\ c \in Channel /\ p # Nobody
      /\ \A d \in PrivateId : chat.owner[d] # p
  BY ChannelKeys DEF ChatInv, CreatePrivateChannel
<1>3. chat' \in ChatState
  BY ZenonT(30), <1>1, <1>2 DEF ChatState
<1>4. /\ chat'.open = chat.open \cup {c} /\ chat'.inGame = chat.inGame
      /\ chat'.invites = chat.invites /\ SameGuilds(chat, chat')
      /\ \A d \in PrivateId : chat'.owner[d] = IF d = c THEN p ELSE chat.owner[d]
      /\ \A d \in Channel : chat'.users[d] = IF d = c THEN {p} ELSE chat.users[d]
  BY <1>1, <1>2 DEF ChatState, SameGuilds
<1>5. UsersAreHere(chat') /\ Enrolled(chat')
  BY <1>2, <1>4 DEF ChatInv, UsersAreHere, Enrolled, SameGuilds
<1>6. PrivatelyOwned(chat')
  <2> SUFFICES ASSUME NEW d \in PrivateId
               PROVE  /\ d \in chat'.open <=> chat'.owner[d] # Nobody
                      /\ d \in chat'.open =>
                           /\ chat'.owner[d] \in chat'.users[d]
                           /\ chat'.users[d] \subseteq chat.invites[d] \cup {chat'.owner[d]}
                           /\ \A e \in PrivateId : chat'.owner[e] = chat'.owner[d] => e = d
                      /\ chat.invites[d] \subseteq chat.inGame \ {chat'.owner[d]}
                      /\ d \notin chat'.open => chat.invites[d] = {}
    BY <1>4 DEF PrivatelyOwned
  <2>1. d \in Channel /\ PrivatelyOwned(chat)
    BY ChannelKeys DEF ChatInv
  <2>2. CASE d = c
    BY <2>1, <2>2, <1>1, <1>2, <1>4 DEF PrivatelyOwned
  <2>3. CASE d # c
    BY <2>1, <2>3, <1>1, <1>2, <1>4 DEF PrivatelyOwned
  <2> QED BY <2>2, <2>3
<1> QED BY <1>3, <1>5, <1>6 DEF ChatInv

\* The invitations to a channel of p are set to I, nobody's use of it touched.
LEMMA InviteToChannelKeeps ==
  ASSUME ChatInv(chat), NEW p \in Person, NEW q \in Person, InviteToChannel(p, q)
  PROVE  ChatInv(chat')
<1>1. PICK c \in PrivateId :
        chat.owner[c] = p /\ chat' = [chat EXCEPT !.invites[c] = @ \cup {q}]
  BY DEF InviteToChannel
<1>2. chat \in ChatState /\ p # q /\ q \in chat.inGame /\ p # Nobody
  BY ChannelKeys DEF ChatInv, InviteToChannel
<1>3. chat' \in ChatState
  BY <1>1, <1>2 DEF ChatState
<1>4. /\ chat'.open = chat.open /\ chat'.inGame = chat.inGame /\ chat'.users = chat.users
      /\ chat'.owner = chat.owner /\ SameGuilds(chat, chat')
      /\ \A d \in PrivateId : chat'.invites[d] = IF d = c THEN chat.invites[d] \cup {q}
                                                 ELSE chat.invites[d]
  BY <1>1, <1>2 DEF ChatState, SameGuilds
<1>5. UsersAreHere(chat') /\ Enrolled(chat')
  BY <1>4 DEF ChatInv, UsersAreHere, Enrolled, SameGuilds
<1>6. PrivatelyOwned(chat')
  <2> SUFFICES ASSUME NEW d \in PrivateId
               PROVE  /\ d \in chat.open =>
                           chat.users[d] \subseteq chat'.invites[d] \cup {chat.owner[d]}
                      /\ chat'.invites[d] \subseteq chat.inGame \ {chat.owner[d]}
                      /\ d \notin chat.open => chat'.invites[d] = {}
    BY <1>4 DEF ChatInv, PrivatelyOwned
  <2>1. CASE d = c
    BY <2>1, <1>1, <1>2, <1>4 DEF ChatInv, PrivatelyOwned
  <2>2. CASE d # c
    BY <2>2, <1>4 DEF ChatInv, PrivatelyOwned
  <2> QED BY <2>1, <2>2
<1> QED BY <1>3, <1>5, <1>6 DEF ChatInv

LEMMA ExcludeFromChannelKeeps ==
  ASSUME ChatInv(chat), NEW p \in Person, NEW q \in Person, ExcludeFromChannel(p, q)
  PROVE  ChatInv(chat')
<1>1. PICK c \in PrivateId :
        /\ chat.owner[c] = p
        /\ chat' = RemoveUser([chat EXCEPT !.invites[c] = @ \ {q}], q, c)
  BY DEF ExcludeFromChannel
<1>2. chat \in ChatState /\ p # q /\ c \in Channel
  BY ChannelKeys DEF ChatInv, ExcludeFromChannel
<1>3. chat' \in ChatState
  BY <1>1, <1>2 DEF ChatState, RemoveUser
<1>4. /\ chat'.open = chat.open /\ chat'.inGame = chat.inGame
      /\ chat'.owner = chat.owner /\ SameGuilds(chat, chat')
      /\ \A d \in Channel : chat'.users[d] = IF d = c THEN chat.users[d] \ {q} ELSE chat.users[d]
      /\ \A d \in PrivateId : chat'.invites[d] = IF d = c THEN chat.invites[d] \ {q}
                                                 ELSE chat.invites[d]
  BY <1>1, <1>2 DEF ChatState, SameGuilds, RemoveUser
<1>5. UsersAreHere(chat') /\ Enrolled(chat')
  BY ZenonT(30), <1>4 DEF ChatInv, UsersAreHere, Enrolled, SameGuilds
<1>6. PrivatelyOwned(chat')
  <2> SUFFICES ASSUME NEW d \in PrivateId
               PROVE  /\ d \in chat.open =>
                           /\ chat.owner[d] \in chat'.users[d]
                           /\ chat'.users[d] \subseteq chat'.invites[d] \cup {chat.owner[d]}
                      /\ chat'.invites[d] \subseteq chat.inGame \ {chat.owner[d]}
                      /\ d \notin chat.open => chat'.invites[d] = {}
    BY <1>4 DEF ChatInv, PrivatelyOwned
  <2>1. d \in Channel
    BY ChannelKeys
  <2>2. /\ d \in chat.open => /\ chat.owner[d] \in chat.users[d]
                              /\ chat.users[d] \subseteq chat.invites[d] \cup {chat.owner[d]}
        /\ chat.invites[d] \subseteq chat.inGame \ {chat.owner[d]}
        /\ d \notin chat.open => chat.invites[d] = {}
    BY DEF ChatInv, PrivatelyOwned
  <2>3. CASE d = c
    <3>1. /\ chat.owner[d] = p /\ chat'.users[d] = chat.users[d] \ {q}
          /\ chat'.invites[d] = chat.invites[d] \ {q}
      BY <2>1, <2>3, <1>1, <1>4
    <3> QED BY <2>2, <3>1, <1>2
  <2>4. CASE d # c
    <3>1. chat'.users[d] = chat.users[d] /\ chat'.invites[d] = chat.invites[d]
      BY <2>1, <2>4, <1>4
    <3> QED BY <2>2, <3>1
  <2> QED BY <2>3, <2>4
<1> QED BY <1>3, <1>5, <1>6 DEF ChatInv

LEMMA ReloadKeeps ==
  ASSUME ChatInv(chat), NEW c \in Topic, NEW kept, Reload(c, kept)
  PROVE  ChatInv(chat')
<1>1. /\ chat \in ChatState /\ c \in Channel /\ kept \subseteq chat.users[c]
      /\ chat' = [chat EXCEPT !.users[c] = kept]
  BY DEF ChatInv, Reload, Channel
<1>2. kept \subseteq Person
  BY <1>1 DEF ChatState
<1>3. chat' \in ChatState
  BY <1>1, <1>2 DEF ChatState
<1>4. /\ chat'.open = chat.open /\ chat'.inGame = chat.inGame
      /\ chat'.owner = chat.owner /\ chat'.invites = chat.invites /\ SameGuilds(chat, chat')
      /\ \A d \in Channel : chat'.users[d] = IF d = c THEN kept ELSE chat.users[d]
  BY <1>1 DEF ChatState, SameGuilds
<1>5. UsersAreHere(chat') /\ Enrolled(chat')
  BY <1>1, <1>4 DEF ChatInv, UsersAreHere, Enrolled, SameGuilds
<1>6. PrivatelyOwned(chat')
  <2>1. \A d \in PrivateId : d \in Channel /\ chat'.users[d] = chat.users[d]
    BY <1>4, ChannelKeys
  <2> QED BY <2>1, <1>4 DEF ChatInv, PrivatelyOwned
<1> QED BY <1>3, <1>5, <1>6 DEF ChatInv

LEMMA ChatInvInductive ==
  ASSUME ChatInv(chat), [ChatNext]_chat
  PROVE  ChatInv(chat')
<1>1. CASE UNCHANGED chat
  BY <1>1
<1>2. ASSUME NEW p \in Person, LeaveGame(p) \/ Reconnect(p) \/ LeaveBand(p)
                               \/ RequestChannels(p) \/ CreatePrivateChannel(p)
      PROVE  ChatInv(chat')
  <2>1. CASE LeaveGame(p)
    BY <2>1, LeaveGameKeeps
  <2>2. CASE Reconnect(p)
    BY <2>2, RemoveUserFromAllChannelsKeeps DEF Reconnect
  <2>3. CASE LeaveBand(p)
    <3> DEFINE s == [chat EXCEPT !.band[p] = Nobody]
               b == chat.band[p]
    <3>1. b \in Channel /\ chat' = RemoveUserFromChannel(s, p, b)
      BY <2>3 DEF LeaveBand, ChatInv, ChatState, Channel
    <3>2. ChatInv(s)
      <4>1. Nobody \in Band \cup {Nobody}
        OBVIOUS
      <4> QED BY <4>1, BandKeeps
    <3> HIDE DEF s, b
    <3> QED BY <3>1, <3>2, RemoveUserFromChannelKeeps
  <2>4. CASE RequestChannels(p)
    BY <2>4, RequestChannelsKeeps
  <2>5. CASE CreatePrivateChannel(p)
    BY <2>5, CreatePrivateChannelKeeps
  <2> QED BY <1>2, <2>1, <2>2, <2>3, <2>4, <2>5
<1>3. ASSUME NEW p \in Person, NEW g \in GuildId \cup {Nobody}, EnterGame(p, g) \/ SetGuild(p, g)
      PROVE  ChatInv(chat')
  BY <1>3, EnterGameKeeps, SetGuildKeeps
<1>4. ASSUME NEW p \in Person, NEW b \in Band, EnterBand(p, b)
      PROVE  ChatInv(chat')
  <2>1. b \in Band \cup {Nobody} /\ chat' = [chat EXCEPT !.band[p] = b]
    BY <1>4 DEF EnterBand
  <2> QED BY <2>1, BandKeeps
<1>5. ASSUME NEW p \in Person, NEW c \in Channel, OpenChannel(p, c) \/ CloseChannel(p, c)
      PROVE  ChatInv(chat')
  BY <1>5, OpenChannelKeeps, RemoveUserFromChannelKeeps DEF CloseChannel
<1>6. ASSUME NEW p \in Person, NEW q \in Person, InviteToChannel(p, q) \/ ExcludeFromChannel(p, q)
      PROVE  ChatInv(chat')
  BY <1>6, InviteToChannelKeeps, ExcludeFromChannelKeeps
<1>7. ASSUME NEW c \in Topic, NEW kept \in SUBSET chat.users[c], Reload(c, kept)
      PROVE  ChatInv(chat')
  BY <1>7, ReloadKeeps
<1> QED BY <1>1, <1>2, <1>3, <1>4, <1>5, <1>6, <1>7 DEF ChatNext

LEMMA ChatInvHolds ==
  /\ ChatInit => ChatInv(chat)
  /\ ChatInv(chat) => ChatAgrees
<1>1. ASSUME ChatInit PROVE ChatInv(chat)
  <2>1. chat \in ChatState
    BY <1>1 DEF ChatInit, ChatState, Channel
  <2>2. UsersAreHere(chat) /\ Enrolled(chat)
    BY <1>1 DEF ChatInit, UsersAreHere, Enrolled
  <2>3. PrivatelyOwned(chat)
    BY <1>1, ChannelKeys DEF ChatInit, PrivatelyOwned
  <2> QED BY <2>1, <2>2, <2>3 DEF ChatInv
<1>2. ASSUME ChatInv(chat) PROVE ChatAgrees
  <2>1. ChannelsAgree
    BY <1>2 DEF ChatInv, ChannelsAgree, UsersAreHere, PrivatelyOwned
  <2> QED BY <1>2, <2>1 DEF ChatInv, ChatAgrees, GuildPointersAgree, Enrolled
<1> QED BY <1>1, <1>2

\* Chat alone: no channel and no guild holds a player that has left.
THEOREM ChannelsStaySound == ChatSpec => []ChatAgrees
<1>1. ChatInit => ChatInv(chat)
  BY ChatInvHolds
<1>2. ChatInv(chat) /\ [ChatNext]_chat => ChatInv(chat)'
  <2>1. ASSUME ChatInv(chat), [ChatNext]_chat PROVE ChatInv(chat')
    BY <2>1, ChatInvInductive
  <2> QED BY <2>1
<1>3. ChatInv(chat) => ChatAgrees
  BY ChatInvHolds
<1> QED BY <1>1, <1>2, <1>3, PTL DEF ChatSpec

(***************************************************************************)
(* Parties                                                                 *)
(***************************************************************************)

PartyState == [party       : [Player -> Address \cup {None}],
               invitations : [Player -> SUBSET Address],
               group       : [Address -> Group]]

\* The group g with old deeds taken for fresh ones.
Forgiving(g) == [g EXCEPT !.ticks = [p \in Player |-> IF @[p] = "old" THEN "fresh" ELSE @[p]]]

\* SharedExperienceIsCurrent, of one group.
Current(g, lv, sp) ==
  g.leader # None /\ g.active =>
    /\ g.enabled => CanEnableSharedExperience(Forgiving(g), lv, sp)
    /\ CanEnableSharedExperience(g, lv, sp) => g.enabled

\* What is asked of one group, with the players in the game, levels and spots.
SoundGroup(g, on, lv, sp) ==
  /\ g.leader = None => g = Deleted
  /\ g.leader \notin g.members
  /\ g.invitees \cap InGroup(g) = {}
  /\ g.leader # None => ~Empty(g)
  /\ InGroup(g) \cup g.invitees \subseteq on
  /\ Current(g, lv, sp)

\* The invariant, of a state s, but for the groups of E, whose members have
\* begun to leave: they are about to be disbanded.
SoundBut(s, E, on, lv, sp) ==
  /\ s \in PartyState
  /\ \A x \in Address \ E :
       /\ SoundGroup(s.group[x], on, lv, sp)
       /\ \A p \in Player : /\ s.party[p] = x <=> p \in InGroup(s.group[x])
                            /\ x \in s.invitations[p] <=> p \in s.group[x].invitees
  /\ \A x \in Address \cap E, p \in Player :
       /\ s.party[p] = x => p \in InGroup(s.group[x])
       /\ p \in InGroup(s.group[x]) => s.party[p] \in {x, None}

SoundParties(s, on, lv, sp) == SoundBut(s, {}, on, lv, sp)

PartyInv == /\ online \subseteq Player
            /\ spot \in [Player -> Spot] /\ level \in [Player -> Level]
            /\ SoundParties(State, online, level, spot)

-----------------------------------------------------------------------------
(* Shared experience *)

\* Whether it can be shared is a matter of leader, members and their deeds.
LEMMA CanEnableAlike ==
  ASSUME NEW g, NEW h, NEW lv, NEW sp,
         g.leader = h.leader, g.members = h.members, g.ticks = h.ticks
  PROVE  CanEnableSharedExperience(g, lv, sp) <=> CanEnableSharedExperience(h, lv, sp)
<1>1. InGroup(g) = InGroup(h)
  BY DEF InGroup
<1>2. MinLevel(g, lv) = MinLevel(h, lv)
  BY <1>1 DEF MinLevel
<1> QED BY <1>1, <1>2 DEF CanEnableSharedExperience, CanUseSharedExperience

\* Nor does it depend on the levels and spots of others.
LEMMA CanEnableElsewhere ==
  ASSUME NEW g \in Group, g.leader # None, NEW lv, NEW sp, NEW lv2, NEW sp2,
         \A p \in InGroup(g) : lv2[p] = lv[p] /\ sp2[p] = sp[p]
  PROVE  CanEnableSharedExperience(g, lv, sp) <=> CanEnableSharedExperience(g, lv2, sp2)
<1>1. {lv[p] : p \in InGroup(g)} = {lv2[p] : p \in InGroup(g)}
  OBVIOUS
<1>2. MinLevel(g, lv) = MinLevel(g, lv2)
  BY <1>1 DEF MinLevel
<1>3. g.leader \in InGroup(g)
  BY DEF InGroup
<1> QED BY <1>2, <1>3 DEF CanEnableSharedExperience, CanUseSharedExperience

\* A deed that is taken for fresh prevents nothing.
LEMMA CanEnableForgiving ==
  ASSUME NEW g \in Group, NEW lv, NEW sp, CanEnableSharedExperience(g, lv, sp)
  PROVE  CanEnableSharedExperience(Forgiving(g), lv, sp)
<1>1. /\ Forgiving(g).leader = g.leader /\ Forgiving(g).members = g.members
      /\ \A p \in Player : g.ticks[p] = "fresh" => Forgiving(g).ticks[p] = "fresh"
  BY DEF Forgiving, Group
<1>2. InGroup(Forgiving(g)) = InGroup(g) /\ InGroup(g) \subseteq Player
  BY <1>1 DEF InGroup, Group
<1>3. MinLevel(Forgiving(g), lv) = MinLevel(g, lv)
  BY <1>2 DEF MinLevel
<1> QED BY <1>1, <1>2, <1>3 DEF CanEnableSharedExperience, CanUseSharedExperience

LEMMA ForgivingGroup ==
  ASSUME NEW g \in Group
  PROVE  /\ Forgiving(g) \in Group
         /\ Forgiving(g).leader = g.leader /\ Forgiving(g).members = g.members
         /\ Forgiving(g).ticks = [p \in Player |-> IF g.ticks[p] = "old" THEN "fresh" ELSE g.ticks[p]]
  BY DEF Forgiving, Group, Age

\* Groups that share alike.
Alike(g, h) == /\ h.leader = g.leader /\ h.members = g.members /\ h.ticks = g.ticks
               /\ h.active = g.active /\ h.enabled = g.enabled

LEMMA CurrentAlike ==
  ASSUME NEW g \in Group, NEW h \in Group, NEW lv, NEW sp, Alike(g, h), Current(g, lv, sp)
  PROVE  Current(h, lv, sp)
<1>1. CanEnableSharedExperience(g, lv, sp) <=> CanEnableSharedExperience(h, lv, sp)
  BY CanEnableAlike DEF Alike
<1>2. CanEnableSharedExperience(Forgiving(g), lv, sp)
        <=> CanEnableSharedExperience(Forgiving(h), lv, sp)
  <2>1. /\ Forgiving(g).leader = Forgiving(h).leader /\ Forgiving(g).members = Forgiving(h).members
        /\ Forgiving(g).ticks = Forgiving(h).ticks
    <3>1. /\ Forgiving(g).leader = g.leader /\ Forgiving(g).members = g.members
          /\ Forgiving(g).ticks
               = [p \in Player |-> IF g.ticks[p] = "old" THEN "fresh" ELSE g.ticks[p]]
      BY ForgivingGroup
    <3>2. /\ Forgiving(h).leader = h.leader /\ Forgiving(h).members = h.members
          /\ Forgiving(h).ticks
               = [p \in Player |-> IF h.ticks[p] = "old" THEN "fresh" ELSE h.ticks[p]]
      BY ForgivingGroup
    <3> QED BY <3>1, <3>2 DEF Alike
  <2> QED BY <2>1, CanEnableAlike
<1> QED BY <1>1, <1>2 DEF Current, Alike

LEMMA CurrentElsewhere ==
  ASSUME NEW g \in Group, NEW lv, NEW sp, NEW lv2, NEW sp2, Current(g, lv, sp),
         \A p \in InGroup(g) : lv2[p] = lv[p] /\ sp2[p] = sp[p]
  PROVE  Current(g, lv2, sp2)
<1> SUFFICES ASSUME g.leader # None, g.active
             PROVE  Current(g, lv2, sp2)
  BY DEF Current
<1>1. CanEnableSharedExperience(g, lv, sp) <=> CanEnableSharedExperience(g, lv2, sp2)
  BY CanEnableElsewhere
<1> DEFINE f == Forgiving(g)
<1>2. f \in Group /\ f.leader # None /\ InGroup(f) = InGroup(g)
  BY ForgivingGroup DEF InGroup
<1> HIDE DEF f
<1>3. CanEnableSharedExperience(f, lv, sp) <=> CanEnableSharedExperience(f, lv2, sp2)
  BY <1>2, CanEnableElsewhere
<1> QED BY <1>1, <1>3 DEF Current, f

\* After an update the status is current.
LEMMA UpdateSharedIsCurrent ==
  ASSUME NEW g \in Group, NEW lv, NEW sp, NEW h, h = UpdateSharedExperience(g, lv, sp)
  PROVE  /\ h \in Group /\ Current(h, lv, sp)
         /\ h.leader = g.leader /\ h.members = g.members /\ h.invitees = g.invitees
         /\ h.ticks = g.ticks /\ h.active = g.active
<1> DEFINE can == CanEnableSharedExperience(g, lv, sp)
           b == IF g.active THEN can ELSE g.enabled
<1>1. can \in BOOLEAN
  BY DEF CanEnableSharedExperience
<1>2. h = [g EXCEPT !.enabled = b]
  BY DEF UpdateSharedExperience
<1>3. b \in BOOLEAN
  BY <1>1 DEF Group
<1>4. g.active => (b <=> can)
  OBVIOUS
<1> HIDE DEF b
<1>5. /\ h \in Group
      /\ h.leader = g.leader /\ h.members = g.members /\ h.invitees = g.invitees
      /\ h.ticks = g.ticks /\ h.active = g.active /\ h.enabled = b
  BY <1>2, <1>3 DEF Group
<1>6. CanEnableSharedExperience(h, lv, sp) <=> can
  BY <1>5, CanEnableAlike
<1> HIDE DEF can
<1>7. Current(h, lv, sp)
  BY <1>4, <1>5, <1>6, CanEnableForgiving DEF Current
<1> QED BY <1>5, <1>7

-----------------------------------------------------------------------------
(* The functions of party.cpp *)

LEMMA NoOneNone == None \notin Player /\ None \notin Address
  BY PartyAssumption

LEMMA DeletedGroup ==
  /\ Deleted \in Group /\ InGroup(Deleted) = {} /\ Deleted.leader = None
  /\ Deleted.members = {} /\ Deleted.invitees = {} /\ ~Deleted.active
  BY DEF Deleted, NewGroup, Group, Age, InGroup

LEMMA SoundDeleted == ASSUME NEW on, NEW lv, NEW sp PROVE SoundGroup(Deleted, on, lv, sp)
  BY DeletedGroup DEF SoundGroup, Current

LEMMA StateParts ==
  /\ State.party = party /\ State.invitations = invitations /\ State.group = group
  /\ \A s : Commit(s) => /\ State'.party = s.party /\ State'.invitations = s.invitations
                        /\ State'.group = s.group
  BY DEF State, Commit

\* disband(), of each of the parties of E.
LEMMA DisbandDoes ==
  ASSUME NEW s \in PartyState, NEW E, NEW t, t = Disband(s, E)
  PROVE  /\ t \in PartyState
         /\ \A p \in Player :
              /\ t.party[p] = IF p \in UNION {InGroup(s.group[x]) : x \in E} THEN None ELSE s.party[p]
              /\ t.invitations[p] = s.invitations[p] \ E
         /\ \A x \in Address : t.group[x] = IF x \in E THEN Deleted ELSE s.group[x]
<1> DEFINE M == UNION {InGroup(s.group[x]) : x \in E}
           a == [p \in Player |-> IF p \in M THEN None ELSE s.party[p]]
           b == [p \in Player |-> s.invitations[p] \ E]
           c == [x \in Address |-> IF x \in E THEN Deleted ELSE s.group[x]]
<1>1. t = [s EXCEPT !.party = a, !.invitations = b, !.group = c]
  BY DEF Disband, Part, PartyState
<1>2. a \in [Player -> Address \cup {None}] /\ b \in [Player -> SUBSET Address]
  BY DEF PartyState
<1>3. c \in [Address -> Group]
  BY DeletedGroup DEF PartyState
<1>4. t \in PartyState /\ t.party = a /\ t.invitations = b /\ t.group = c
  <2> HIDE DEF a, b, c
  <2> QED BY <1>1, <1>2, <1>3 DEF PartyState
<1> QED BY <1>4

\* Disbanding the groups that have begun to dissolve leaves sound parties.
LEMMA DisbandKeeps ==
  ASSUME NEW s, NEW E \in SUBSET Address, NEW on, NEW lv, NEW sp, SoundBut(s, E, on, lv, sp),
         NEW t, t = Disband(s, E)
  PROVE  /\ SoundParties(t, on, lv, sp)
         /\ \A p \in Player : /\ t.party[p] \in {s.party[p], None}
                              /\ t.invitations[p] \subseteq s.invitations[p]
         /\ \A x \in Address : t.group[x] \in {s.group[x], Deleted}
<1> DEFINE M == UNION {InGroup(s.group[x]) : x \in E}
<1>0. s \in PartyState
  BY DEF SoundBut
<1>1. /\ t \in PartyState
      /\ \A p \in Player : /\ t.party[p] = IF p \in M THEN None ELSE s.party[p]
                           /\ t.invitations[p] = s.invitations[p] \ E
      /\ \A x \in Address : t.group[x] = IF x \in E THEN Deleted ELSE s.group[x]
  BY <1>0, DisbandDoes
<1>2. \A p : p \in M <=> \E x \in E : p \in InGroup(s.group[x])
  OBVIOUS
<1> HIDE DEF M
<1>3. ASSUME NEW x \in Address
      PROVE  /\ SoundGroup(t.group[x], on, lv, sp)
             /\ \A p \in Player : /\ t.party[p] = x <=> p \in InGroup(t.group[x])
                                  /\ x \in t.invitations[p] <=> p \in t.group[x].invitees
  <2>1. x # None
    BY NoOneNone
  <2>2. CASE x \in E
    <3>1. t.group[x] = Deleted
      BY <2>2, <1>1
    <3>2. ASSUME NEW p \in Player PROVE t.party[p] # x /\ x \notin t.invitations[p]
      <4>1. s.party[p] = x => p \in InGroup(s.group[x])
        BY <2>2 DEF SoundBut
      <4> QED BY <4>1, <2>1, <2>2, <1>1, <1>2
    <3> QED BY <3>1, <3>2, SoundDeleted, DeletedGroup
  <2>3. CASE x \notin E
    <3>1. /\ t.group[x] = s.group[x] /\ SoundGroup(s.group[x], on, lv, sp)
          /\ \A p \in Player : /\ s.party[p] = x <=> p \in InGroup(s.group[x])
                               /\ x \in s.invitations[p] <=> p \in s.group[x].invitees
      BY <2>3, <1>1 DEF SoundBut
    <3>2. ASSUME NEW p \in Player, s.party[p] = x PROVE p \notin M
      <4>1. ASSUME NEW y \in E, p \in InGroup(s.group[y]) PROVE FALSE
        <5>1. s.party[p] \in {y, None}
          BY <4>1 DEF SoundBut
        <5> QED BY <5>1, <3>2, <2>1, <2>3
      <4> QED BY <4>1, <1>2
    <3>3. \A p \in Player : t.party[p] = x <=> s.party[p] = x
      BY <3>2, <2>1, <1>1
    <3> QED BY <3>1, <3>3, <2>3, <1>1
  <2> QED BY <2>2, <2>3
<1>4. SoundParties(t, on, lv, sp)
  BY <1>1, <1>3 DEF SoundParties, SoundBut
<1> QED BY <1>1, <1>4

\* The invitees of the groups of s, p taken from those of X.
Uninvited(s, X, p) ==
  [x \in Address |-> IF x \in X THEN [s.group[x] EXCEPT !.invitees = @ \ {p}] ELSE s.group[x]]

Unasked(s, X, p) == [s EXCEPT !.group = Uninvited(s, X, p)]
Emptied(s, X) == {x \in X : Empty(s.group[x])}

LEMMA RemoveInvitesDoes ==
  ASSUME NEW s, NEW X, NEW p
  PROVE  RemoveInvites(s, X, p) = Disband(Unasked(s, X, p), Emptied(Unasked(s, X, p), X))
  BY DEF RemoveInvites, DisbandEmpty, Uninvited, Unasked, Emptied

\* removeInvite takes back the invitations of p to the parties of X; those
\* that nobody is left in but the leader are disbanded.
LEMMA WithdrawKeeps ==
  ASSUME NEW s, NEW on, NEW lv, NEW sp, SoundParties(s, on, lv, sp),
         NEW p \in Player, NEW X \in SUBSET Address,
         NEW t, t = RemoveInvites([s EXCEPT !.invitations[p] = @ \ X], X, p)
  PROVE  /\ SoundParties(t, on, lv, sp)
         /\ \A q \in Player : /\ t.party[q] \in {s.party[q], None}
                              /\ t.invitations[q] \subseteq s.invitations[q]
         /\ t.invitations[p] \subseteq s.invitations[p] \ X
         /\ \A x \in Address : t.group[x].leader # None =>
              t.group[x].leader = s.group[x].leader /\ t.group[x].members = s.group[x].members
<1> DEFINE without(g) == [g EXCEPT !.invitees = @ \ {p}]
           w == [s EXCEPT !.invitations[p] = @ \ X]
           c == Uninvited(w, X, p)
           u == [w EXCEPT !.group = c]
           E == {x \in X : Empty(u.group[x])}
<1>0. s \in PartyState
  BY DEF SoundParties, SoundBut
<1>1. \A g \in Group : /\ without(g) \in Group /\ Alike(g, without(g))
                      /\ InGroup(without(g)) = InGroup(g)
                      /\ without(g).invitees = g.invitees \ {p}
  BY DEF Group, Alike, InGroup
<1>11. /\ w \in PartyState /\ w.group = s.group /\ w.party = s.party
       /\ \A q \in Player : w.invitations[q] = IF q = p THEN s.invitations[p] \ X ELSE s.invitations[q]
  BY <1>0 DEF PartyState
<1>2. t = Disband(u, E)
  <2>1. u = Unasked(w, X, p) /\ t = RemoveInvites(w, X, p)
    BY DEF Unasked
  <2>2. E = Emptied(u, X)
    BY DEF Emptied
  <2> HIDE DEF w, u, E
  <2> QED BY <2>1, <2>2, RemoveInvitesDoes
<1>12. c = [x \in Address |-> IF x \in X THEN without(s.group[x]) ELSE s.group[x]]
  <2> HIDE DEF w
  <2> QED BY <1>11 DEF Uninvited
<1> HIDE DEF without, w
<1>3. /\ c \in [Address -> Group]
      /\ \A x \in Address : c[x] = IF x \in X THEN without(s.group[x]) ELSE s.group[x]
  <2> HIDE DEF c
  <2> QED BY <1>0, <1>1, <1>12 DEF PartyState
<1> HIDE DEF c
<1>4. u \in PartyState
  BY <1>11, <1>3 DEF PartyState
<1>5. /\ u.party = s.party /\ u.group = c
      /\ \A q \in Player : u.invitations[q] = IF q = p THEN s.invitations[p] \ X ELSE s.invitations[q]
  BY <1>11 DEF PartyState
<1> HIDE DEF u
<1>6. ASSUME NEW x \in Address
      PROVE  /\ x \notin E => SoundGroup(u.group[x], on, lv, sp)
             /\ \A q \in Player : /\ u.party[q] = x <=> q \in InGroup(u.group[x])
                                  /\ x \in u.invitations[q] <=> q \in u.group[x].invitees
             /\ u.group[x].leader = s.group[x].leader
             /\ u.group[x].members = s.group[x].members
  <2> DEFINE g == s.group[x]
             h == u.group[x]
  <2>1. /\ g \in Group /\ SoundGroup(g, on, lv, sp)
        /\ \A q \in Player : /\ s.party[q] = x <=> q \in InGroup(g)
                             /\ x \in s.invitations[q] <=> q \in g.invitees
    BY <1>0 DEF SoundParties, SoundBut, PartyState
  <2>2. CASE x \in X
    <3>1. /\ h \in Group /\ Alike(g, h) /\ InGroup(h) = InGroup(g)
          /\ h.invitees = g.invitees \ {p}
      BY <2>1, <2>2, <1>1, <1>3, <1>5
    <3>2. Current(h, lv, sp)
      BY <2>1, <3>1, CurrentAlike DEF SoundGroup
    <3>3. ASSUME g.leader = None PROVE h = Deleted
      <4>1. g = Deleted
        BY <2>1, <3>3 DEF SoundGroup
      <4>2. without(Deleted) = Deleted
        <5>1. Deleted \in Group /\ Deleted.invitees \ {p} = Deleted.invitees
          BY DeletedGroup
        <5> HIDE DEF Deleted
        <5> QED BY <5>1 DEF without, Group
      <4> QED BY <4>1, <4>2, <2>2, <1>3, <1>5
    <3>4. x \notin E => ~Empty(h)
      BY <2>2
    <3>5. x \notin E => SoundGroup(h, on, lv, sp)
      <4> HIDE DEF g, h, E
      <4> QED BY <2>1, <3>1, <3>2, <3>3, <3>4 DEF SoundGroup, Alike
    <3> HIDE DEF g, h, E
    <3>6. \A q \in Player : x \in u.invitations[q] <=> q \in h.invitees
      BY <2>1, <2>2, <3>1, <1>5
    <3> QED BY <2>1, <3>1, <3>5, <3>6, <1>5 DEF Alike, g, h
  <2>3. CASE x \notin X
    <3>1. h = g
      BY <2>3, <1>3, <1>5
    <3> HIDE DEF g, h, E
    <3> QED BY <2>1, <2>3, <3>1, <1>5 DEF g, h
  <2> QED BY <2>2, <2>3
<1>7. E \in SUBSET Address
  OBVIOUS
<1> HIDE DEF E
<1>8. SoundBut(u, E, on, lv, sp)
  BY <1>4, <1>6, <1>7 DEF SoundBut
<1>9. /\ SoundParties(t, on, lv, sp)
      /\ \A q \in Player : /\ t.party[q] \in {u.party[q], None}
                           /\ t.invitations[q] \subseteq u.invitations[q]
      /\ \A x \in Address : t.group[x] \in {u.group[x], Deleted}
  BY <1>2, <1>7, <1>8, DisbandKeeps
<1>10. \A x \in Address : t.group[x].leader # None =>
          t.group[x].leader = s.group[x].leader /\ t.group[x].members = s.group[x].members
  <2> SUFFICES ASSUME NEW x \in Address, t.group[x].leader # None
               PROVE  t.group[x].leader = s.group[x].leader /\ t.group[x].members = s.group[x].members
    OBVIOUS
  <2>1. t.group[x] = u.group[x]
    BY <1>9, DeletedGroup
  <2> QED BY <2>1, <1>6
<1> QED BY <1>5, <1>9, <1>10

\* Player::clearPartyInvitations
LEMMA ClearPartyInvitationsKeeps ==
  ASSUME NEW s, NEW on, NEW lv, NEW sp, SoundParties(s, on, lv, sp),
         NEW p \in Player, NEW t, t = ClearPartyInvitations(s, p)
  PROVE  /\ SoundParties(t, on, lv, sp)
         /\ t.invitations[p] = {}
         /\ t.party[p] \in {s.party[p], None}
         /\ \A x \in Address : t.group[x].leader # None =>
              t.group[x].leader = s.group[x].leader /\ t.group[x].members = s.group[x].members
<1> DEFINE X == s.invitations[p]
           w == [s EXCEPT !.invitations[p] = @ \ X]
           r == RemoveInvites(w, X, p)
<1>0. s \in PartyState /\ X \in SUBSET Address
  BY DEF SoundParties, SoundBut, PartyState
<1>1. /\ SoundParties(r, on, lv, sp)
      /\ \A q \in Player : r.party[q] \in {s.party[q], None}
      /\ r.invitations[p] \subseteq s.invitations[p] \ X
      /\ \A x \in Address : r.group[x].leader # None =>
           r.group[x].leader = s.group[x].leader /\ r.group[x].members = s.group[x].members
  <2> HIDE DEF X
  <2> QED BY <1>0, WithdrawKeeps
<1>2. t = r
  <2> DEFINE c == Uninvited(s, X, p)
             u == [s EXCEPT !.group = c]
             v == [w EXCEPT !.group = c]
             E == {x \in X : Empty(c[x])}
  <2>0. w \in PartyState /\ w.group = s.group
    BY <1>0 DEF PartyState
  <2>10. u.group = c /\ v.group = c
    BY <1>0, <2>0 DEF PartyState
  <2>1. t = [Disband(u, E) EXCEPT !.invitations[p] = {}] /\ r = Disband(v, E)
    <3>1. Uninvited(w, X, p) = c
      <4> HIDE DEF w, X
      <4> QED BY <2>0 DEF Uninvited
    <3>5. E = Emptied(u, X) /\ E = Emptied(v, X)
      <4> HIDE DEF u, v, c
      <4> QED BY <2>10 DEF Emptied
    <3>6. u = Unasked(s, X, p) /\ v = Unasked(w, X, p)
      <4> HIDE DEF w, X
      <4> QED BY <3>1 DEF Unasked
    <3> HIDE DEF u, v, E, X, w, c
    <3>2. RemoveInvites(s, X, p) = Disband(u, E)
      BY <3>5, <3>6, RemoveInvitesDoes
    <3>3. RemoveInvites(w, X, p) = Disband(v, E)
      BY <3>5, <3>6, RemoveInvitesDoes
    <3>4. t = [RemoveInvites(s, X, p) EXCEPT !.invitations[p] = {}]
      BY DEF ClearPartyInvitations, X
    <3> QED BY <3>2, <3>3, <3>4 DEF r
  <2>2. c \in [Address -> Group]
    BY <1>0 DEF PartyState, Group, Uninvited
  <2> HIDE DEF c, E
  <2>3. u \in PartyState /\ v \in PartyState
    BY <1>0, <2>2 DEF PartyState
  <2>4. /\ u.party = s.party /\ v.party = s.party /\ u.group = c /\ v.group = c
        /\ u.invitations = s.invitations
        /\ v.invitations = [s.invitations EXCEPT ![p] = {}]
    BY <1>0 DEF PartyState
  <2> HIDE DEF u, v
  <2> DEFINE a == Disband(u, E)
             b == Disband(v, E)
  <2>5. /\ a \in PartyState
        /\ \A q \in Player :
             /\ a.party[q] = IF q \in UNION {InGroup(u.group[x]) : x \in E} THEN None ELSE u.party[q]
             /\ a.invitations[q] = u.invitations[q] \ E
        /\ \A x \in Address : a.group[x] = IF x \in E THEN Deleted ELSE u.group[x]
    BY <2>3, DisbandDoes
  <2>6. /\ b \in PartyState
        /\ \A q \in Player :
             /\ b.party[q] = IF q \in UNION {InGroup(v.group[x]) : x \in E} THEN None ELSE v.party[q]
             /\ b.invitations[q] = v.invitations[q] \ E
        /\ \A x \in Address : b.group[x] = IF x \in E THEN Deleted ELSE v.group[x]
    BY <2>3, DisbandDoes
  <2> HIDE DEF a, b
  <2>7. a.party = b.party /\ a.group = b.group
    BY <2>4, <2>5, <2>6 DEF PartyState
  <2>8. [a.invitations EXCEPT ![p] = {}] = b.invitations
    <3>1. \A q \in Player : [a.invitations EXCEPT ![p] = {}][q] = b.invitations[q]
      <4> TAKE q \in Player
      <4>1. CASE q = p
        <5>1. v.invitations[q] = {}
          BY <1>0, <2>4, <4>1 DEF PartyState
        <5>2. b.invitations[q] = {}
          BY <5>1, <2>6
        <5>3. a.invitations \in [Player -> SUBSET Address]
          BY <2>5 DEF PartyState
        <5>4. [a.invitations EXCEPT ![p] = {}][q] = {}
          BY <5>3, <4>1
        <5> QED BY <5>2, <5>4
      <4>2. CASE q # p
        <5>1. v.invitations[q] = s.invitations[q]
          BY <1>0, <2>4, <4>2 DEF PartyState
        <5>2. b.invitations[q] = a.invitations[q]
          <6>1. b.invitations[q] = v.invitations[q] \ E
            BY <2>6
          <6>2. a.invitations[q] = u.invitations[q] \ E
            BY <2>5
          <6> QED BY <5>1, <2>4, <6>1, <6>2
        <5>3. a.invitations \in [Player -> SUBSET Address]
          BY <2>5 DEF PartyState
        <5> QED BY <5>2, <5>3, <4>2
      <4> QED BY <4>1, <4>2
    <3> QED BY <3>1, <2>5, <2>6 DEF PartyState
  <2>9. [a EXCEPT !.invitations[p] = {}] = b
    BY <2>5, <2>6, <2>7, <2>8 DEF PartyState
  <2> QED BY <2>1, <2>9 DEF a, b
<1> HIDE DEF r, X
<1>3. r.invitations[p] = {}
  BY <1>1 DEF X
<1> QED BY <1>1, <1>2, <1>3

\* h is what an update leaves of g: the status, or a deed, has changed.
Updated(g, h, lv, sp) ==
  /\ h \in Group /\ Current(h, lv, sp)
  /\ h.leader = g.leader /\ h.members = g.members /\ h.invitees = g.invitees

\* t is s with the group h at x.
Regrouped(s, x, h, t) ==
  /\ t \in PartyState /\ t.party = s.party /\ t.invitations = s.invitations
  /\ t.group = [s.group EXCEPT ![x] = h]

LEMMA RegroupedAt ==
  ASSUME NEW s \in PartyState, NEW x \in Address, NEW h \in Group, NEW t,
         t = [s EXCEPT !.group[x] = h]
  PROVE  Regrouped(s, x, h, t)
<1>1. t \in PartyState
  BY DEF PartyState
<1> QED BY <1>1 DEF Regrouped, PartyState

LEMMA ClearTick ==
  ASSUME NEW g \in Group, NEW p \in Player, NEW h, h = [g EXCEPT !.ticks[p] = "none"]
  PROVE  h \in Group /\ h.leader = g.leader /\ h.members = g.members /\ h.invitees = g.invitees
  BY DEF Group, Age

\* clearPlayerPoints; the status was current before, or is after it.
LEMMA ClearPlayerPointsDoes ==
  ASSUME NEW s \in PartyState, NEW x \in Address, NEW p \in Player,
         Current(s.group[x], level, spot), NEW t, t = ClearPlayerPoints(s, x, p)
  PROVE  \E h \in Group : Updated(s.group[x], h, level, spot) /\ Regrouped(s, x, h, t)
<1> DEFINE g == s.group[x]
<1>1. g \in Group
  BY DEF PartyState
<1>2. CASE g.ticks[p] = "none"
  <2>1. t = s
    BY <1>2 DEF ClearPlayerPoints
  <2>2. Updated(g, g, level, spot)
    BY <1>1 DEF Updated
  <2>3. Regrouped(s, x, g, t)
    BY <2>1 DEF Regrouped, PartyState
  <2> QED BY <1>1, <2>2, <2>3
<1>3. CASE g.ticks[p] # "none"
  <2> DEFINE k == [g EXCEPT !.ticks[p] = "none"]
             h == Update(k)
  <2>1. t = [s EXCEPT !.group[x] = h]
    BY <1>3 DEF ClearPlayerPoints
  <2>2. k \in Group /\ k.leader = g.leader /\ k.members = g.members /\ k.invitees = g.invitees
    <3> HIDE DEF g
    <3> QED BY <1>1, ClearTick
  <2> HIDE DEF k
  <2>3. Updated(k, h, level, spot)
    BY <2>2, UpdateSharedIsCurrent DEF Updated, Update
  <2> HIDE DEF h
  <2>4. h \in Group /\ Updated(g, h, level, spot)
    BY <2>2, <2>3 DEF Updated
  <2> HIDE DEF g
  <2>5. Regrouped(s, x, h, t)
    BY <2>1, <2>4, RegroupedAt
  <2> QED BY <2>4, <2>5 DEF g
<1> QED BY <1>2, <1>3

\* A group is exchanged for another of the same players.
LEMMA RegroupKeeps ==
  ASSUME NEW s, NEW on, NEW lv, NEW sp, SoundParties(s, on, lv, sp),
         NEW x \in Address, NEW h, NEW t, Regrouped(s, x, h, t),
         SoundGroup(h, on, lv, sp),
         InGroup(h) = InGroup(s.group[x]), h.invitees = s.group[x].invitees
  PROVE  SoundParties(t, on, lv, sp)
<1>1. \A y \in Address : t.group[y] = IF y = x THEN h ELSE s.group[y]
  BY DEF Regrouped, SoundParties, SoundBut, PartyState
<1> QED BY <1>1 DEF Regrouped, SoundParties, SoundBut

\* Update, or what amounts to it, keeps a sound group sound.
LEMMA UpdateKeeps ==
  ASSUME NEW s, NEW on, SoundParties(s, on, level, spot),
         NEW x \in Address, s.group[x].leader # None,
         NEW h, Updated(s.group[x], h, level, spot), NEW t, Regrouped(s, x, h, t)
  PROVE  SoundParties(t, on, level, spot)
<1>1. SoundGroup(s.group[x], on, level, spot)
  BY DEF SoundParties, SoundBut
<1>2. InGroup(h) = InGroup(s.group[x]) /\ h.invitees = s.group[x].invitees
  BY DEF Updated, InGroup
<1>3. SoundGroup(h, on, level, spot)
  BY <1>1, <1>2 DEF SoundGroup, Updated, Empty
<1> QED BY <1>2, <1>3, RegroupKeeps

\* A party is where its players say it is.
LEMMA PartyIsLive ==
  ASSUME NEW s, NEW on, NEW lv, NEW sp, SoundParties(s, on, lv, sp),
         NEW p \in Player, s.party[p] # None
  PROVE  /\ s.party[p] \in Address /\ s.group[s.party[p]] \in Group
         /\ p \in InGroup(s.group[s.party[p]]) /\ s.group[s.party[p]].leader # None
         /\ s.group[s.party[p]].leader \in Player
<1>1. s.party[p] \in Address /\ s.group[s.party[p]] \in Group
  BY DEF SoundParties, SoundBut, PartyState
<1>2. p \in InGroup(s.group[s.party[p]])
  BY <1>1 DEF SoundParties, SoundBut
<1>3. s.group[s.party[p]].leader # None
  BY <1>1, <1>2, DeletedGroup DEF SoundParties, SoundBut, SoundGroup
<1> QED BY <1>1, <1>2, <1>3 DEF Group

\* passPartyLeadership, to a member.
LEMMA PassDoes ==
  ASSUME NEW s \in PartyState, NEW x \in Address, s.group[x].leader \in Player,
         NEW q \in s.group[x].members, NEW t, t = PassPartyLeadership(s, x, q)
  PROVE  \E h \in Group : /\ Regrouped(s, x, h, t) /\ Current(h, level, spot)
                          /\ h.leader = q /\ h.invitees = s.group[x].invitees
                          /\ h.members = (s.group[x].members \ {q}) \cup {s.group[x].leader}
<1> DEFINE g == s.group[x]
           k == [g EXCEPT !.leader = q, !.members = (@ \ {q}) \cup {g.leader}]
           h == Update(k)
<1>1. g \in Group
  BY DEF PartyState
<1>2. t = [s EXCEPT !.group[x] = h]
  BY DEF PassPartyLeadership
<1>3. q \in Player /\ g.leader \in Player
  BY <1>1 DEF Group
<1>4. k \in Group /\ k.leader = q /\ k.invitees = g.invitees
      /\ k.members = (g.members \ {q}) \cup {g.leader}
  <2> HIDE DEF g
  <2> QED BY <1>1, <1>3 DEF Group
<1> HIDE DEF k
<1>5. Updated(k, h, level, spot)
  BY <1>4, UpdateSharedIsCurrent DEF Updated, Update
<1> HIDE DEF h
<1>6. Regrouped(s, x, h, t) /\ h \in Group
  BY <1>2, <1>5, RegroupedAt DEF Updated
<1> QED BY <1>4, <1>5, <1>6 DEF Updated

\* leaveParty: p is out of it, and the party is disbanded when nobody but a
\* leader, or not even one, is left.
LEMMA LeavePartyKeeps ==
  ASSUME NEW s, NEW on, SoundParties(s, on, level, spot), NEW p \in Player,
         NEW x, x = s.party[p], x # None, NEW heir,
         s.group[x].leader = p /\ s.group[x].members # {} => heir \in s.group[x].members,
         NEW t, t = LeaveParty(s, x, p, heir)
  PROVE  /\ SoundParties(t, on, level, spot) /\ t.party[p] = None
         /\ t.invitations[p] \subseteq s.invitations[p]
<1> DEFINE g == s.group[x]
           missing == /\ g.leader = p
                      /\ \/ g.members = {}
                         \/ Cardinality(g.members) = 1 /\ g.invitees = {}
           passed == IF g.leader = p /\ ~missing THEN PassPartyLeadership(s, x, heir) ELSE s
           out == [passed EXCEPT !.group[x].members = @ \ {p}]
           left == Part(out, {p})
           updated == [left EXCEPT !.group[x] = Update(@)]
           done == ClearPlayerPoints(updated, x, p)
<1>1. t = IF missing \/ Empty(done.group[x]) THEN Disband(done, {x}) ELSE done
  BY DEF LeaveParty
<1>2. /\ x \in Address /\ g \in Group /\ p \in InGroup(g) /\ g.leader \in Player
      /\ s \in PartyState /\ SoundGroup(g, on, level, spot)
  BY PartyIsLive DEF SoundParties, SoundBut
<1>3. g.leader = p /\ ~missing => heir \in g.members
  OBVIOUS
<1>4. PICK k \in Group :
        /\ Regrouped(s, x, k, passed) /\ k.invitees = g.invitees
        /\ IF g.leader = p /\ ~missing
           THEN k.leader = heir /\ k.members = (g.members \ {heir}) \cup {p}
           ELSE k.leader = g.leader /\ k.members = g.members
  <2> HIDE DEF missing
  <2>1. CASE g.leader = p /\ ~missing
    <3>1. passed = PassPartyLeadership(s, x, heir)
      BY <2>1
    <3> HIDE DEF passed
    <3>2. \E k \in Group : /\ Regrouped(s, x, k, passed) /\ Current(k, level, spot)
                           /\ k.leader = heir /\ k.invitees = s.group[x].invitees
                           /\ k.members = (s.group[x].members \ {heir}) \cup {s.group[x].leader}
      BY <1>2, <1>3, <2>1, <3>1, PassDoes
    <3> QED BY <2>1, <3>2
  <2>2. CASE ~(g.leader = p /\ ~missing)
    <3>1. passed = s
      BY <2>2
    <3> HIDE DEF passed
    <3>2. Regrouped(s, x, g, passed)
      BY <1>2, <3>1 DEF Regrouped, PartyState
    <3> HIDE DEF g
    <3> QED BY <1>2, <2>2, <3>2
  <2> QED BY <2>1, <2>2
<1> HIDE DEF passed
<1> DEFINE m == [k EXCEPT !.members = @ \ {p}]
<1>5. m \in Group /\ m.leader = k.leader /\ m.invitees = k.invitees /\ m.members = k.members \ {p}
  BY DEF Group
<1>6. /\ left \in PartyState /\ left.group = [s.group EXCEPT ![x] = m]
      /\ left.invitations = s.invitations
      /\ \A q \in Player : left.party[q] = IF q = p THEN None ELSE s.party[q]
  <2>1. passed.group[x] = k /\ passed \in PartyState
    BY <1>2, <1>4 DEF Regrouped, PartyState
  <2>2. out = [passed EXCEPT !.group[x] = m]
    BY <2>1 DEF PartyState
  <2> HIDE DEF out, m
  <2>3. Regrouped(passed, x, m, out)
    BY <1>2, <1>5, <2>1, <2>2, RegroupedAt
  <2>4. /\ out \in PartyState /\ out.party = s.party /\ out.invitations = s.invitations
        /\ out.group = [s.group EXCEPT ![x] = m]
    BY <1>2, <1>4, <2>3 DEF Regrouped, PartyState
  <2> DEFINE a == [q \in Player |-> IF q \in {p} THEN None ELSE out.party[q]]
  <2>5. left = [out EXCEPT !.party = a]
    BY DEF Part
  <2>6. a \in [Player -> Address \cup {None}] /\ \A q \in Player : a[q] = IF q = p THEN None ELSE s.party[q]
    BY <1>2, <2>4 DEF PartyState
  <2> HIDE DEF a, left
  <2> QED BY <2>4, <2>5, <2>6 DEF PartyState
<1> HIDE DEF m, left
<1> DEFINE n == Update(m)
<1>7. Updated(m, n, level, spot)
  BY <1>5, UpdateSharedIsCurrent DEF Updated, Update
<1> HIDE DEF n
<1>8. Regrouped(left, x, n, updated)
  <2>1. updated = [left EXCEPT !.group[x] = n]
    BY <1>2, <1>6 DEF PartyState, n
  <2> HIDE DEF updated
  <2> QED BY <1>2, <1>6, <1>7, <2>1, RegroupedAt DEF Updated
<1> HIDE DEF updated
<1>9. updated \in PartyState /\ updated.group[x] = n
  BY <1>2, <1>6, <1>8 DEF Regrouped, PartyState
<1>10. PICK h \in Group : Updated(n, h, level, spot) /\ Regrouped(updated, x, h, done)
  BY <1>2, <1>7, <1>9, ClearPlayerPointsDoes DEF Updated
<1> HIDE DEF done
<1>11. /\ done \in PartyState /\ done.group = [s.group EXCEPT ![x] = h]
       /\ done.invitations = s.invitations
       /\ \A q \in Player : done.party[q] = IF q = p THEN None ELSE s.party[q]
  BY <1>2, <1>6, <1>8, <1>9, <1>10 DEF Regrouped, PartyState
<1>12. /\ h.leader = k.leader /\ h.invitees = g.invitees /\ h.members = k.members \ {p}
       /\ Current(h, level, spot)
  BY <1>4, <1>5, <1>7, <1>10 DEF Updated
<1>13. /\ h.leader \notin h.members /\ h.leader \in Player
       /\ missing => InGroup(h) = InGroup(g)
       /\ ~missing => InGroup(h) = InGroup(g) \ {p}
  <2>1. g.leader \notin g.members /\ None \notin Player
    BY <1>2, NoOneNone DEF SoundGroup
  <2>2. missing => g.leader = p
    OBVIOUS
  <2>3. g.members \subseteq Player
    BY <1>2 DEF Group
  <2> HIDE DEF missing, g
  <2> QED BY <1>2, <1>3, <1>4, <1>12, <2>1, <2>2, <2>3 DEF InGroup
<1> HIDE DEF missing, g
<1>14. \A y \in Address : done.group[y] = IF y = x THEN h ELSE s.group[y]
  BY <1>2, <1>11 DEF PartyState
<1>15. \A y \in Address \ {x} :
         /\ SoundGroup(done.group[y], on, level, spot)
         /\ \A q \in Player : /\ done.party[q] = y <=> q \in InGroup(done.group[y])
                              /\ y \in done.invitations[q] <=> q \in done.group[y].invitees
  <2> TAKE y \in Address \ {x}
  <2>1. /\ SoundGroup(s.group[y], on, level, spot)
        /\ \A q \in Player : /\ s.party[q] = y <=> q \in InGroup(s.group[y])
                             /\ y \in s.invitations[q] <=> q \in s.group[y].invitees
    BY DEF SoundParties, SoundBut
  <2>2. \A q \in Player : done.party[q] = y <=> s.party[q] = y
    BY <1>11, NoOneNone
  <2> QED BY <2>1, <2>2, <1>11, <1>14
<1>16. \A q \in Player : /\ s.party[q] = x <=> q \in InGroup(g)
                         /\ x \in s.invitations[q] <=> q \in g.invitees
  BY <1>2 DEF SoundParties, SoundBut, g
<1>17. CASE missing \/ Empty(done.group[x])
  <2>1. SoundBut(done, {x}, on, level, spot)
    <3>1. ASSUME NEW q \in Player
          PROVE  /\ done.party[q] = x => q \in InGroup(h)
                 /\ q \in InGroup(h) => done.party[q] \in {x, None}
      BY <1>11, <1>13, <1>16
    <3> QED BY <1>2, <1>11, <1>14, <1>15, <3>1 DEF SoundBut
  <2> DEFINE E == {x}
  <2>2. E \in SUBSET Address /\ t = Disband(done, E) /\ SoundBut(done, E, on, level, spot)
    BY <1>1, <1>2, <1>17, <2>1
  <2> HIDE DEF E
  <2>3. /\ SoundParties(t, on, level, spot)
        /\ \A q \in Player : /\ t.party[q] \in {done.party[q], None}
                             /\ t.invitations[q] \subseteq done.invitations[q]
    BY <2>2, DisbandKeeps
  <2> QED BY <2>3, <1>11
<1>18. CASE ~(missing \/ Empty(done.group[x]))
  <2>1. t = done /\ ~Empty(h)
    BY <1>1, <1>2, <1>14, <1>18
  <2>2. SoundGroup(h, on, level, spot)
    <3>1. h.leader # None
      BY <1>13, NoOneNone
    <3> QED BY <1>2, <1>12, <1>13, <1>18, <2>1, <3>1 DEF SoundGroup
  <2>3. ASSUME NEW q \in Player
        PROVE  /\ done.party[q] = x <=> q \in InGroup(h)
               /\ x \in done.invitations[q] <=> q \in h.invitees
    BY <1>11, <1>12, <1>13, <1>16, <1>18
  <2>4. SoundParties(done, on, level, spot)
    BY <1>2, <1>11, <1>14, <1>15, <2>2, <2>3 DEF SoundParties, SoundBut
  <2> QED BY <2>1, <2>4, <1>11
<1> QED BY <1>17, <1>18

-----------------------------------------------------------------------------
(* The handlers *)

LEMMA HeirIsMember ==
  ASSUME NEW p \in Player, NEW heir \in IF IsLeader(p) /\ group[party[p]].members # {}
                                       THEN group[party[p]].members ELSE {p}
  PROVE  LET x == State.party[p]
         IN  x # None /\ State.group[x].leader = p /\ State.group[x].members # {}
               => heir \in State.group[x].members
  BY DEF IsLeader, State

LEMMA CommitState ==
  ASSUME NEW s \in PartyState, Commit(s)
  PROVE  State' = s
<1>1. State' = [party |-> s.party, invitations |-> s.invitations, group |-> s.group]
  BY DEF State, Commit
<1> QED BY <1>1 DEF PartyState

LEMMA LeaveKeeps ==
  ASSUME PartyInv, NEW p \in Player, Leave(p)
  PROVE  PartyInv'
<1>1. PICK heir \in IF IsLeader(p) /\ group[party[p]].members # {}
                    THEN group[party[p]].members ELSE {p} :
        Commit(LeaveParty(State, party[p], p, heir))
  BY DEF Leave
<1> DEFINE x == State.party[p]
           t == LeaveParty(State, x, p, heir)
<1>2. x # None /\ Commit(t) /\ SoundParties(State, online, level, spot)
  BY <1>1, StateParts DEF Leave, PartyInv
<1>3. State.group[x].leader = p /\ State.group[x].members # {} => heir \in State.group[x].members
  BY <1>2, HeirIsMember
<1> HIDE DEF x
<1> HIDE DEF t
<1>4. SoundParties(t, online, level, spot)
  BY <1>2, <1>3, LeavePartyKeeps DEF x, t
<1>5. State' = t
  BY <1>2, <1>4, CommitState DEF SoundParties, SoundBut
<1> QED BY <1>4, <1>5 DEF PartyInv, Leave

\* Who is in no party and has no invitation is in no list.
LEMMA NobodyLeft ==
  ASSUME NEW s, NEW on, NEW lv, NEW sp, SoundParties(s, on, lv, sp), NEW p \in Player,
         s.party[p] = None, s.invitations[p] = {}
  PROVE  SoundParties(s, on \ {p}, lv, sp)
<1>1. ASSUME NEW x \in Address
      PROVE  p \notin InGroup(s.group[x]) /\ p \notin s.group[x].invitees
  BY NoOneNone DEF SoundParties, SoundBut
<1>2. ASSUME NEW x \in Address
      PROVE  SoundGroup(s.group[x], on \ {p}, lv, sp)
  BY <1>1 DEF SoundParties, SoundBut, SoundGroup
<1> QED BY <1>2 DEF SoundParties, SoundBut

\* heir may follow p as the leader of the party at x.
Inherits(s, x, p, heir) ==
  x # None /\ s.group[x].leader = p /\ s.group[x].members # {} => heir \in s.group[x].members

\* leaveParty, for one that may be in no party
LeaveAny(s, x, p, heir) == IF x = None THEN s ELSE LeaveParty(s, x, p, heir)

\* A player leaves the party it is in, if any.
LEMMA LeaveAnyKeeps ==
  ASSUME NEW s, NEW on, SoundParties(s, on, level, spot), NEW p \in Player,
         NEW heir, Inherits(s, s.party[p], p, heir),
         NEW t, t = LeaveAny(s, s.party[p], p, heir)
  PROVE  /\ SoundParties(t, on, level, spot) /\ t.party[p] = None
         /\ t.invitations[p] \subseteq s.invitations[p]
<1>1. CASE s.party[p] = None
  <2>1. t = s
    BY <1>1 DEF LeaveAny
  <2>2. t.party[p] = None
    BY <1>1, <2>1
  <2>3. t.invitations[p] \subseteq s.invitations[p]
    BY <2>1
  <2>4. SoundParties(t, on, level, spot)
    BY <2>1
  <2> QED BY <2>2, <2>3, <2>4
<1>2. CASE s.party[p] # None
  <2> DEFINE x == s.party[p]
  <2>1. t = LeaveParty(s, x, p, heir)
    BY <1>2 DEF LeaveAny
  <2>2. s.group[x].leader = p /\ s.group[x].members # {} => heir \in s.group[x].members
    BY <1>2 DEF Inherits
  <2> QED BY SMTT(30), <1>2, <2>1, <2>2, LeavePartyKeeps
<1> QED BY <1>1, <1>2

LEMMA LogoutKeeps ==
  ASSUME PartyInv, NEW p \in Player, Logout(p)
  PROVE  PartyInv'
<1>1. PICK heir \in IF IsLeader(p) /\ group[party[p]].members # {}
                    THEN group[party[p]].members ELSE {p} :
        LET cleared == ClearPartyInvitations(State, p)
            left == IF cleared.party[p] = None THEN cleared
                    ELSE LeaveParty(cleared, cleared.party[p], p, heir)
        IN  Commit(left)
  BY DEF Logout
<1> DEFINE c == ClearPartyInvitations(State, p)
           x == c.party[p]
           t == IF x = None THEN c ELSE LeaveParty(c, x, p, heir)
<1>2. Commit(t) /\ SoundParties(State, online, level, spot)
  BY <1>1 DEF PartyInv
<1>3. /\ SoundParties(c, online, level, spot)
      /\ c.invitations[p] = {}
      /\ c.party[p] \in {State.party[p], None}
      /\ \A y \in Address : c.group[y].leader # None =>
           c.group[y].leader = State.group[y].leader /\ c.group[y].members = State.group[y].members
  BY <1>2, ClearPartyInvitationsKeeps
<1> HIDE DEF c
<1>4. x # None /\ c.group[x].leader = p /\ c.group[x].members # {} => heir \in c.group[x].members
  <2> SUFFICES ASSUME x # None, c.group[x].leader = p, c.group[x].members # {}
               PROVE  heir \in c.group[x].members
    OBVIOUS
  <2>1. x = State.party[p] /\ x \in Address /\ c.group[x].leader # None
    BY <1>3, PartyIsLive
  <2>2. c.group[x].leader = State.group[x].leader /\ c.group[x].members = State.group[x].members
    BY <1>3, <2>1
  <2> QED BY <2>1, <2>2, HeirIsMember
<1>5. SoundParties(t, online, level, spot) /\ t.party[p] = None /\ t.invitations[p] = {}
  <2>1. x = c.party[p] /\ t = LeaveAny(c, x, p, heir) /\ Inherits(c, x, p, heir)
    BY <1>4 DEF LeaveAny, Inherits
  <2> HIDE DEF t, x
  <2>2. /\ SoundParties(t, online, level, spot) /\ t.party[p] = None
        /\ t.invitations[p] \subseteq c.invitations[p]
    BY <1>3, <2>1, LeaveAnyKeeps
  <2> QED BY <1>3, <2>2
<1> HIDE DEF t
<1>6. State' = t
  BY <1>2, <1>5, CommitState DEF SoundParties, SoundBut
<1>7. SoundParties(t, online \ {p}, level, spot)
  BY <1>5, NobodyLeft
<1> QED BY <1>6, <1>7 DEF PartyInv, Logout

LEMMA LoginKeeps ==
  ASSUME PartyInv, NEW p \in Player, Login(p)
  PROVE  PartyInv'
<1>1. State' = State
  BY DEF Login, partyVars, State
<1>2. \A g : SoundGroup(g, online, level, spot) => SoundGroup(g, online \cup {p}, level, spot)
  BY DEF SoundGroup
<1>3. SoundParties(State, online \cup {p}, level, spot)
  BY <1>2 DEF PartyInv, SoundParties, SoundBut
<1> QED BY <1>1, <1>3 DEF PartyInv, Login

LEMMA RevokeKeeps ==
  ASSUME PartyInv, NEW p \in Player, NEW q \in Player, RevokeInvitation(p, q)
  PROVE  PartyInv'
<1> DEFINE x == party[p]
           X == {x}
           t == RemoveInvites([State EXCEPT !.invitations[q] = @ \ X], X, q)
<1>1. Commit(t) /\ SoundParties(State, online, level, spot) /\ x # None
  BY DEF RevokeInvitation, PartyInv, IsInviting, IsLeader
<1>2. X \in SUBSET Address
  BY <1>1, PartyIsLive, StateParts
<1> HIDE DEF X
<1>3. SoundParties(t, online, level, spot)
  BY <1>1, <1>2, WithdrawKeeps
<1> HIDE DEF t
<1>4. State' = t
  BY <1>1, <1>3, CommitState DEF SoundParties, SoundBut
<1> QED BY <1>3, <1>4 DEF PartyInv, RevokeInvitation

LEMMA PassKeeps ==
  ASSUME PartyInv, NEW p \in Player, NEW q \in Player, PassLeadership(p, q)
  PROVE  PartyInv'
<1> DEFINE x == State.party[p]
           g == State.group[x]
           t == PassPartyLeadership(State, x, q)
<1>1. /\ Commit(t) /\ SoundParties(State, online, level, spot) /\ x # None
      /\ g.leader = p /\ State.party[q] = x /\ p # q
  BY StateParts DEF PassLeadership, PartyInv, IsLeader
<1>2. x \in Address /\ g \in Group /\ State \in PartyState /\ SoundGroup(g, online, level, spot)
  <2>1. x \in Address /\ g \in Group
    BY <1>1, PartyIsLive
  <2>2. State \in PartyState
    BY <1>1 DEF SoundParties, SoundBut
  <2>3. SoundGroup(g, online, level, spot)
    BY <1>1, <2>1 DEF SoundParties, SoundBut
  <2> QED BY <2>1, <2>2, <2>3
<1>3. q \in g.members
  <2>1. q \in InGroup(g)
    BY <1>1, <1>2 DEF SoundParties, SoundBut
  <2> QED BY <1>1, <2>1 DEF InGroup
<1>4. PICK h \in Group : /\ Regrouped(State, x, h, t) /\ Current(h, level, spot)
                         /\ h.leader = q /\ h.invitees = g.invitees
                         /\ h.members = (g.members \ {q}) \cup {g.leader}
  BY <1>1, <1>2, <1>3, PassDoes
<1> HIDE DEF t
<1>5. InGroup(h) = InGroup(g) /\ h.leader \notin h.members /\ h.leader # None /\ h.members # {}
  BY <1>1, <1>3, <1>4, NoOneNone DEF InGroup
<1>6. SoundGroup(h, online, level, spot)
  BY <1>2, <1>4, <1>5 DEF SoundGroup, Empty
<1> HIDE DEF x
<1>7. SoundParties(t, online, level, spot)
  BY <1>1, <1>2, <1>4, <1>5, <1>6, RegroupKeeps
<1>8. State' = t
  BY <1>1, <1>7, CommitState DEF SoundParties, SoundBut
<1> QED BY <1>7, <1>8 DEF PartyInv, PassLeadership


LEMMA IdleKeeps ==
  ASSUME PartyInv, NEW p \in Player, Idle(p)
  PROVE  PartyInv'
<1> DEFINE x == State.party[p]
           t == ClearPlayerPoints(State, x, p)
<1>1. Commit(t) /\ SoundParties(State, online, level, spot) /\ x # None
  BY StateParts DEF Idle, PartyInv
<1>2. x \in Address /\ State.group[x].leader # None
  BY <1>1, PartyIsLive
<1>3. State \in PartyState /\ Current(State.group[x], level, spot)
  BY <1>1, <1>2 DEF SoundParties, SoundBut, SoundGroup
<1> HIDE DEF x
<1>4. PICK h \in Group : Updated(State.group[x], h, level, spot) /\ Regrouped(State, x, h, t)
  BY <1>2, <1>3, ClearPlayerPointsDoes
<1> HIDE DEF t
<1>5. SoundParties(t, online, level, spot)
  BY <1>1, <1>2, <1>4, UpdateKeeps
<1>6. State' = t
  BY <1>1, <1>5, CommitState DEF SoundParties, SoundBut
<1> QED BY <1>5, <1>6 DEF PartyInv, Idle

\* Handlers that assign the variables themselves.
LEMMA Regroups ==
  ASSUME SoundParties(State, online, level, spot), NEW x \in Address, NEW h \in Group,
         group' = [group EXCEPT ![x] = h], UNCHANGED <<party, invitations>>
  PROVE  Regrouped(State, x, h, State')
<1>1. State \in PartyState
  BY DEF SoundParties, SoundBut
<1>2. State'.party = State.party /\ State'.invitations = State.invitations
      /\ State'.group = [State.group EXCEPT ![x] = h]
  BY DEF State
<1>3. State' \in PartyState
  BY <1>1 DEF State, PartyState
<1> QED BY <1>2, <1>3 DEF Regrouped

\* Deeds and the leader's wish change; an update follows.
LEMMA UpdatesKeep ==
  ASSUME PartyInv, NEW p \in Player, party[p] # None,
         NEW k \in Group, k.leader = group[party[p]].leader,
         k.members = group[party[p]].members, k.invitees = group[party[p]].invitees,
         group' = [group EXCEPT ![party[p]] = Update(k)],
         UNCHANGED <<online, party, invitations, spot, level>>
  PROVE  PartyInv'
<1> DEFINE x == party[p]
           h == Update(k)
<1>1. SoundParties(State, online, level, spot)
  BY DEF PartyInv
<1>2. x \in Address /\ State.group[x].leader # None
  BY <1>1, PartyIsLive, StateParts
<1>3. Updated(k, h, level, spot)
  BY UpdateSharedIsCurrent DEF Updated, Update
<1> HIDE DEF h
<1>4. Updated(State.group[x], h, level, spot) /\ h \in Group
  BY <1>3, StateParts DEF Updated
<1>5. group' = [group EXCEPT ![x] = h]
  BY DEF h
<1> HIDE DEF x
<1>6. Regrouped(State, x, h, State')
  BY <1>1, <1>2, <1>4, <1>5, Regroups
<1>7. SoundParties(State', online, level, spot)
  BY <1>1, <1>2, <1>4, <1>6, UpdateKeeps
<1> QED BY <1>7 DEF PartyInv

LEMMA EnableKeeps ==
  ASSUME PartyInv, NEW p \in Player, NEW on \in BOOLEAN, EnableSharedExperience(p, on)
  PROVE  PartyInv'
<1> DEFINE k == [group[party[p]] EXCEPT !.active = on]
<1>1. party[p] # None /\ group[party[p]] \in Group
  BY PartyIsLive, StateParts DEF EnableSharedExperience, IsLeader, PartyInv
<1>2. /\ k \in Group /\ k.leader = group[party[p]].leader
      /\ k.members = group[party[p]].members /\ k.invitees = group[party[p]].invitees
  BY <1>1 DEF Group
<1>3. group' = [group EXCEPT ![party[p]] = Update(k)]
  BY DEF EnableSharedExperience
<1> HIDE DEF k
<1> QED BY <1>1, <1>2, <1>3, UpdatesKeep DEF EnableSharedExperience

LEMMA UpdatePlayerTicksKeeps ==
  ASSUME PartyInv, NEW p \in Player, UpdatePlayerTicks(p)
  PROVE  PartyInv'
<1> DEFINE k == [group[party[p]] EXCEPT !.ticks[p] = "fresh"]
<1>1. party[p] # None /\ group[party[p]] \in Group
  BY PartyIsLive, StateParts DEF UpdatePlayerTicks, PartyInv
<1>2. /\ k \in Group /\ k.leader = group[party[p]].leader
      /\ k.members = group[party[p]].members /\ k.invitees = group[party[p]].invitees
  BY <1>1 DEF Group, Age
<1>3. group' = [group EXCEPT ![party[p]] = Update(k)]
  BY DEF UpdatePlayerTicks
<1> HIDE DEF k
<1> QED BY <1>1, <1>2, <1>3, UpdatesKeep DEF UpdatePlayerTicks

\* No code runs when a deed gets old: the status may be set for too long, but
\* it is not one that should be and is not.
LEMMA TickGetsOldKeeps ==
  ASSUME PartyInv, NEW p \in Player, TickGetsOld(p)
  PROVE  PartyInv'
<1> DEFINE x == party[p]
           g == group[x]
           h == [g EXCEPT !.ticks[p] = "old"]
<1>1. SoundParties(State, online, level, spot) /\ x # None /\ g.ticks[p] = "fresh"
  BY DEF PartyInv, TickGetsOld
<1>2. /\ x \in Address /\ g \in Group /\ p \in InGroup(g) /\ g.leader # None
      /\ State.group[x] = g
  BY <1>1, PartyIsLive, StateParts
<1>3. SoundGroup(g, online, level, spot)
  BY <1>1, <1>2 DEF SoundParties, SoundBut
<1>4. group' = [group EXCEPT ![x] = h]
  <2>1. group \in [Address -> Group]
    BY <1>1, StateParts DEF SoundParties, SoundBut, PartyState
  <2> QED BY <1>2, <2>1 DEF TickGetsOld, Group
<1> HIDE DEF x, g
<1>5. /\ h \in Group /\ h.leader = g.leader /\ h.members = g.members /\ h.invitees = g.invitees
      /\ h.active = g.active /\ h.enabled = g.enabled
      /\ \A q \in Player : h.ticks[q] = IF q = p THEN "old" ELSE g.ticks[q]
  BY <1>2 DEF Group, Age
<1> HIDE DEF h
<1>6. InGroup(h) = InGroup(g)
  BY <1>5 DEF InGroup
<1>7. ~CanEnableSharedExperience(h, level, spot)
  BY <1>2, <1>5, <1>6 DEF CanEnableSharedExperience, CanUseSharedExperience
<1>8. CanEnableSharedExperience(Forgiving(g), level, spot)
        => CanEnableSharedExperience(Forgiving(h), level, spot)
  <2> DEFINE f == Forgiving(g)
             e == Forgiving(h)
  <2>1. /\ f.leader = g.leader /\ f.members = g.members
        /\ f.ticks = [q \in Player |-> IF g.ticks[q] = "old" THEN "fresh" ELSE g.ticks[q]]
    BY <1>2, ForgivingGroup
  <2>2. /\ e.leader = h.leader /\ e.members = h.members
        /\ e.ticks = [q \in Player |-> IF h.ticks[q] = "old" THEN "fresh" ELSE h.ticks[q]]
    BY <1>5, ForgivingGroup
  <2> HIDE DEF f, e
  <2>3. f.ticks = e.ticks
    BY <1>1, <1>5, <2>1, <2>2 DEF g, x
  <2> QED BY <1>5, <2>1, <2>2, <2>3, CanEnableAlike DEF f, e
<1>9. SoundGroup(h, online, level, spot)
  BY <1>2, <1>3, <1>5, <1>6, <1>7, <1>8 DEF SoundGroup, Current, Empty
<1>10. Regrouped(State, x, h, State')
  BY <1>1, <1>2, <1>4, <1>5, Regroups DEF TickGetsOld
<1>11. SoundParties(State', online, level, spot)
  BY <1>1, <1>2, <1>5, <1>6, <1>9, <1>10, RegroupKeeps
<1> QED BY <1>11 DEF PartyInv, TickGetsOld

\* A player moves or changes level: its own party is updated, and to the
\* others it does not matter.
LEMMA UpdatePartyOfKeeps ==
  ASSUME PartyInv, NEW p \in Player, NEW lv, NEW sp,
         \A q \in Player \ {p} : lv[q] = level[q] /\ sp[q] = spot[q],
         UpdatePartyOf(p, lv, sp), UNCHANGED <<party, invitations>>
  PROVE  SoundParties(State', online, lv, sp)
<1>1. SoundParties(State, online, level, spot) /\ State \in PartyState
  BY DEF PartyInv, SoundParties, SoundBut
<1>2. ASSUME NEW y \in Address, p \notin InGroup(State.group[y])
      PROVE  SoundGroup(State.group[y], online, lv, sp)
  <2>1. SoundGroup(State.group[y], online, level, spot) /\ State.group[y] \in Group
    BY <1>1 DEF SoundParties, SoundBut, PartyState
  <2>2. InGroup(State.group[y]) \subseteq Player \ {p}
    BY <1>2, <2>1 DEF InGroup, Group
  <2>3. Current(State.group[y], lv, sp)
    BY <2>1, <2>2, CurrentElsewhere DEF SoundGroup
  <2> QED BY <2>1, <2>3 DEF SoundGroup
<1>3. CASE party[p] = None
  <2>1. State' = State
    BY <1>3 DEF UpdatePartyOf, State
  <2>2. \A y \in Address : p \notin InGroup(State.group[y])
    BY <1>1, <1>3, NoOneNone, StateParts DEF SoundParties, SoundBut
  <2>3. SoundParties(State, online, lv, sp)
    BY <1>1, <1>2, <2>2 DEF SoundParties, SoundBut
  <2> QED BY <2>1, <2>3
<1>4. CASE party[p] # None
  <2> DEFINE x == State.party[p]
             g == State.group[x]
             h == UpdateSharedExperience(g, lv, sp)
  <2>1. x \in Address /\ g \in Group /\ g.leader # None
    BY <1>1, <1>4, PartyIsLive, StateParts
  <2>2. SoundGroup(g, online, level, spot)
    BY <1>1, <2>1 DEF SoundParties, SoundBut
  <2>3. /\ h \in Group /\ Current(h, lv, sp)
        /\ h.leader = g.leader /\ h.members = g.members /\ h.invitees = g.invitees
    <3> HIDE DEF g
    <3> QED BY <2>1, UpdateSharedIsCurrent
  <2>4. group' = [group EXCEPT ![x] = h]
    BY <1>1, <1>4, <2>1, StateParts DEF UpdatePartyOf, PartyState
  <2> HIDE DEF h, g, x
  <2>5. SoundGroup(h, online, lv, sp) /\ InGroup(h) = InGroup(g)
    BY <2>1, <2>2, <2>3 DEF SoundGroup, InGroup, Empty
  <2>6. Regrouped(State, x, h, State')
    BY <1>1, <2>1, <2>3, <2>4, Regroups
  <2>7. \A y \in Address : State'.group[y] = IF y = x THEN h ELSE State.group[y]
    BY <1>1, <2>1, <2>6 DEF Regrouped, PartyState
  <2>8. ASSUME NEW y \in Address
        PROVE  /\ SoundGroup(State'.group[y], online, lv, sp)
               /\ \A q \in Player : /\ State'.party[q] = y <=> q \in InGroup(State'.group[y])
                                    /\ y \in State'.invitations[q] <=> q \in State'.group[y].invitees
    <3>1. \A q \in Player : /\ State.party[q] = y <=> q \in InGroup(State.group[y])
                            /\ y \in State.invitations[q] <=> q \in State.group[y].invitees
      BY <1>1 DEF SoundParties, SoundBut
    <3>2. CASE y = x
      BY <2>3, <2>5, <2>6, <2>7, <3>1, <3>2 DEF Regrouped, g
    <3>3. CASE y # x
      <4>1. p \notin InGroup(State.group[y])
        BY <3>1, <3>3 DEF x
      <4> QED BY <1>2, <2>6, <2>7, <3>1, <3>3, <4>1 DEF Regrouped
    <3> QED BY <3>2, <3>3
  <2> QED BY <2>6, <2>8 DEF Regrouped, SoundParties, SoundBut
<1> QED BY <1>3, <1>4

LEMMA MoveKeeps ==
  ASSUME PartyInv, NEW p \in Player, NEW there \in Spot, Move(p, there)
  PROVE  PartyInv'
<1>1. spot' = [spot EXCEPT ![p] = there] /\ UpdatePartyOf(p, level, spot')
  BY DEF Move
<1>2. spot' \in [Player -> Spot] /\ \A q \in Player \ {p} : spot'[q] = spot[q]
  BY <1>1 DEF PartyInv
<1>3. SoundParties(State', online, level, spot')
  BY <1>1, <1>2, UpdatePartyOfKeeps DEF Move
<1> QED BY <1>2, <1>3 DEF PartyInv, Move

LEMMA ChangeLevelKeeps ==
  ASSUME PartyInv, NEW p \in Player, NEW l \in Level, ChangeLevel(p, l)
  PROVE  PartyInv'
<1>1. level' = [level EXCEPT ![p] = l] /\ UpdatePartyOf(p, level', spot)
  BY DEF ChangeLevel
<1>2. level' \in [Player -> Level] /\ \A q \in Player \ {p} : level'[q] = level[q]
  BY <1>1 DEF PartyInv
<1>3. SoundParties(State', online, level', spot)
  BY <1>1, <1>2, UpdatePartyOfKeeps DEF ChangeLevel
<1> QED BY <1>2, <1>3 DEF PartyInv, ChangeLevel


\* playerJoinParty
LEMMA JoinKeeps ==
  ASSUME PartyInv, NEW p \in Player, NEW lead \in Player, JoinParty(p, lead)
  PROVE  PartyInv'
<1> DEFINE x == State.party[lead]
           g == State.group[x]
           k == [g EXCEPT !.invitees = @ \ {p}, !.members = @ \cup {p}]
           h == Update(k)
<1>1. /\ SoundParties(State, online, level, spot) /\ x # None /\ g.leader = lead
      /\ p \in g.invitees /\ State.party[p] = None /\ p \in online
  BY StateParts DEF JoinParty, PartyInv, IsInviting, IsLeader
<1>2. /\ x \in Address /\ g \in Group /\ State \in PartyState
      /\ SoundGroup(g, online, level, spot)
  <2>1. x \in Address /\ g \in Group
    BY <1>1, PartyIsLive
  <2> QED BY <1>1, <2>1 DEF SoundParties, SoundBut
<1>3. /\ party' = [party EXCEPT ![p] = x]
      /\ group' = [group EXCEPT ![x] = h]
      /\ invitations' = [invitations EXCEPT ![p] = @ \ {x}]
  BY StateParts DEF JoinParty
<1> HIDE DEF g, x
<1>4. /\ k \in Group /\ k.leader = g.leader /\ k.members = g.members \cup {p}
      /\ k.invitees = g.invitees \ {p}
  BY <1>2 DEF Group
<1> HIDE DEF k
<1>5. Updated(k, h, level, spot)
  BY <1>4, UpdateSharedIsCurrent DEF Updated, Update
<1> HIDE DEF h
<1>6. /\ h \in Group /\ h.leader = g.leader /\ h.members = g.members \cup {p}
      /\ h.invitees = g.invitees \ {p} /\ Current(h, level, spot)
  BY <1>4, <1>5 DEF Updated
<1>7. /\ State' \in PartyState
      /\ \A q \in Player : /\ State'.party[q] = IF q = p THEN x ELSE State.party[q]
                           /\ State'.invitations[q] = IF q = p THEN State.invitations[p] \ {x}
                                                      ELSE State.invitations[q]
      /\ \A y \in Address : State'.group[y] = IF y = x THEN h ELSE State.group[y]
  BY <1>2, <1>3, <1>6 DEF State, PartyState
<1>8. InGroup(h) = InGroup(g) \cup {p} /\ g.leader = lead /\ g.leader # p
  BY <1>1, <1>2, <1>6, NoOneNone DEF InGroup, SoundGroup
<1>9. SoundGroup(h, online, level, spot)
  BY <1>1, <1>2, <1>6, <1>8, NoOneNone DEF SoundGroup, Empty
<1>10. ASSUME NEW y \in Address
       PROVE  /\ SoundGroup(State'.group[y], online, level, spot)
              /\ \A q \in Player : /\ State'.party[q] = y <=> q \in InGroup(State'.group[y])
                                   /\ y \in State'.invitations[q] <=> q \in State'.group[y].invitees
  <2>1. /\ SoundGroup(State.group[y], online, level, spot)
        /\ \A q \in Player : /\ State.party[q] = y <=> q \in InGroup(State.group[y])
                             /\ y \in State.invitations[q] <=> q \in State.group[y].invitees
    BY <1>1 DEF SoundParties, SoundBut
  <2>2. CASE y = x
    BY <1>6, <1>7, <1>8, <1>9, <2>1, <2>2 DEF g
  <2>3. CASE y # x
    <3>1. State.party[p] # y
      BY <1>1, NoOneNone
    <3> QED BY <1>7, <2>1, <2>3, <3>1
  <2> QED BY <2>2, <2>3
<1>11. SoundParties(State', online, level, spot)
  BY <1>7, <1>10 DEF SoundParties, SoundBut
<1> QED BY <1>11 DEF PartyInv, JoinParty

\* playerInviteToParty, with a party or a new one
LEMMA InviteKeeps ==
  ASSUME PartyInv, NEW p \in Player, NEW q \in Player, InviteToParty(p, q)
  PROVE  PartyInv'
<1>1. PICK x \in Address :
        /\ InviteTo(x, p, q)
        /\ IF Live(x) THEN IsLeader(p) /\ party[p] = x ELSE party[p] = None
  <2>1. CASE IsLeader(p) /\ InviteTo(party[p], p, q)
    <3>1. party[p] \in Address /\ Live(party[p])
      BY <2>1, PartyIsLive, StateParts DEF IsLeader, PartyInv, Live
    <3> QED BY <2>1, <3>1
  <2>2. CASE party[p] = None /\ \E x \in Address : ~Live(x) /\ InviteTo(x, p, q)
    BY <2>2
  <2> QED BY <2>1, <2>2 DEF InviteToParty
<1> DEFINE g == State.group[x]
           k == IF Live(x) THEN g ELSE NewGroup(p)
           h == [k EXCEPT !.invitees = @ \cup {q}]
<1>2. /\ SoundParties(State, online, level, spot) /\ State \in PartyState
      /\ g \in Group /\ SoundGroup(g, online, level, spot)
      /\ Live(x) <=> g.leader # None
      /\ p # q /\ State.party[q] = None /\ {p, q} \subseteq online
      /\ q \notin g.invitees
      /\ Live(x) => g.leader = p
      /\ State.party[p] = IF Live(x) THEN x ELSE None
  BY <1>1, StateParts
     DEF PartyInv, SoundParties, SoundBut, PartyState, InviteToParty, InviteTo, IsLeader, Live
<1>3. /\ party' = [party EXCEPT ![p] = x]
      /\ group' = [group EXCEPT ![x] = h]
      /\ invitations' = [invitations EXCEPT ![q] = @ \cup {x}]
  BY <1>1, StateParts DEF InviteTo
<1>4. /\ k \in Group /\ k.leader = p /\ k.members = g.members /\ k.invitees = g.invitees
      /\ Current(k, level, spot)
  <2>1. CASE Live(x)
    <3>1. k = g
      BY <2>1
    <3> HIDE DEF k, g
    <3> QED BY <1>2, <2>1, <3>1 DEF SoundGroup
  <2>2. CASE ~Live(x)
    <3>1. k = NewGroup(p)
      BY <2>2
    <3>2. g = Deleted
      BY <1>2, <2>2 DEF SoundGroup
    <3> HIDE DEF k, g
    <3>3. /\ k \in Group /\ k.leader = p /\ k.members = {} /\ k.invitees = {} /\ ~k.active
      BY <3>1 DEF NewGroup, Group, Age
    <3> QED BY <3>2, <3>3, DeletedGroup DEF Current
  <2> QED BY <2>1, <2>2
<1>5. InGroup(g) = IF Live(x) THEN {p} \cup g.members ELSE {}
  <2>1. ~Live(x) => g = Deleted
    BY <1>2 DEF SoundGroup
  <2> QED BY <1>2, <2>1, DeletedGroup, NoOneNone DEF InGroup
<1>6. g.members = {} \/ Live(x)
  BY <1>2, DeletedGroup DEF SoundGroup
<1> HIDE DEF k
<1>7. /\ h \in Group /\ h.leader = p /\ h.members = g.members
      /\ h.invitees = g.invitees \cup {q} /\ Alike(k, h)
  BY <1>4 DEF Group, Alike
<1> HIDE DEF h
<1>8. Current(h, level, spot)
  BY <1>4, <1>7, CurrentAlike
<1>9. InGroup(h) = {p} \cup g.members
  BY <1>7, NoOneNone DEF InGroup
<1>10. q \notin InGroup(g)
  BY <1>2, NoOneNone DEF SoundParties, SoundBut
<1>11. SoundGroup(h, online, level, spot)
  <2>1. h.leader \notin h.members /\ h.leader # None
    BY <1>2, <1>6, <1>7, NoOneNone DEF SoundGroup
  <2>2. h.invitees \cap InGroup(h) = {}
    <3>1. g.invitees \cap InGroup(g) = {} /\ (~Live(x) => g.invitees = {})
      BY <1>2, DeletedGroup DEF SoundGroup
    <3> HIDE DEF g
    <3> QED BY <1>2, <1>5, <1>6, <1>7, <1>9, <1>10, <3>1
  <2>3. InGroup(h) \cup h.invitees \subseteq online
    BY <1>2, <1>5, <1>6, <1>7, <1>9 DEF SoundGroup
  <2>4. ~Empty(h)
    BY <1>7 DEF Empty
  <2> QED BY <1>8, <2>1, <2>2, <2>3, <2>4 DEF SoundGroup
<1>12. /\ State' \in PartyState
       /\ \A r \in Player : /\ State'.party[r] = IF r = p THEN x ELSE State.party[r]
                            /\ State'.invitations[r] = IF r = q THEN State.invitations[q] \cup {x}
                                                       ELSE State.invitations[r]
       /\ \A y \in Address : State'.group[y] = IF y = x THEN h ELSE State.group[y]
  BY <1>2, <1>3, <1>7 DEF State, PartyState
<1>13. ASSUME NEW y \in Address
       PROVE  /\ SoundGroup(State'.group[y], online, level, spot)
              /\ \A r \in Player : /\ State'.party[r] = y <=> r \in InGroup(State'.group[y])
                                   /\ y \in State'.invitations[r] <=> r \in State'.group[y].invitees
  <2>1. /\ SoundGroup(State.group[y], online, level, spot)
        /\ \A r \in Player : /\ State.party[r] = y <=> r \in InGroup(State.group[y])
                             /\ y \in State.invitations[r] <=> r \in State.group[y].invitees
    BY <1>2 DEF SoundParties, SoundBut
  <2>2. CASE y = x
    <3>1. State'.group[y] = h
      BY <1>12, <2>2
    <3>2. ASSUME NEW r \in Player
          PROVE  /\ State'.party[r] = y <=> r \in InGroup(h)
                 /\ y \in State'.invitations[r] <=> r \in h.invitees
      <4>1. /\ State.party[r] = x <=> r \in InGroup(g)
            /\ x \in State.invitations[r] <=> r \in g.invitees
        BY <2>1, <2>2
      <4> HIDE DEF g
      <4> QED BY <1>5, <1>6, <1>7, <1>9, <1>12, <2>2, <4>1
    <3> QED BY <1>11, <3>1, <3>2
  <2>3. CASE y # x
    <3>1. State.party[p] # y
      BY <1>2, <2>3, NoOneNone
    <3> QED BY <1>12, <2>1, <2>3, <3>1
  <2> QED BY <2>2, <2>3
<1>14. SoundParties(State', online, level, spot)
  BY <1>12, <1>13 DEF SoundParties, SoundBut
<1> QED BY <1>14 DEF PartyInv, InviteToParty

-----------------------------------------------------------------------------
(* All of them *)

LEMMA PartyInvInductive ==
  ASSUME PartyInv, [PartyNext]_allPartyVars
  PROVE  PartyInv'
<1>1. CASE UNCHANGED allPartyVars
  <2>1. State' = State
    BY <1>1 DEF allPartyVars, State
  <2> QED BY <1>1, <2>1 DEF PartyInv, allPartyVars
<1>2. CASE PartyNext
  <2>1. PICK p \in Player :
          \/ Login(p) \/ Logout(p) \/ Leave(p) \/ Idle(p)
          \/ UpdatePlayerTicks(p) \/ TickGetsOld(p)
          \/ \E on \in BOOLEAN : EnableSharedExperience(p, on)
          \/ \E there \in Spot : Move(p, there)
          \/ \E l \in Level : ChangeLevel(p, l)
          \/ \E q \in Player : \/ InviteToParty(p, q) \/ JoinParty(p, q)
                               \/ RevokeInvitation(p, q) \/ PassLeadership(p, q)
    BY <1>2 DEF PartyNext
  <2>2. CASE Login(p) \/ Logout(p)
    BY <2>2, LoginKeeps, LogoutKeeps
  <2>3. CASE Leave(p) \/ Idle(p)
    BY <2>3, LeaveKeeps, IdleKeeps
  <2>4. CASE UpdatePlayerTicks(p) \/ TickGetsOld(p)
    BY <2>4, UpdatePlayerTicksKeeps, TickGetsOldKeeps
  <2>5. CASE \E on \in BOOLEAN : EnableSharedExperience(p, on)
    BY <2>5, EnableKeeps
  <2>6. CASE \E there \in Spot : Move(p, there)
    BY <2>6, MoveKeeps
  <2>7. CASE \E l \in Level : ChangeLevel(p, l)
    BY <2>7, ChangeLevelKeeps
  <2>8. CASE \E q \in Player : InviteToParty(p, q) \/ JoinParty(p, q)
    BY <2>8, InviteKeeps, JoinKeeps
  <2>9. CASE \E q \in Player : RevokeInvitation(p, q) \/ PassLeadership(p, q)
    BY <2>9, RevokeKeeps, PassKeeps
  <2> QED BY <2>1, <2>2, <2>3, <2>4, <2>5, <2>6, <2>7, <2>8, <2>9
<1> QED BY <1>1, <1>2

LEMMA PartyInvHolds ==
  /\ PartyInit => PartyInv
  /\ PartyInv => PartiesAgree /\ SharedExperienceIsCurrent
<1>1. ASSUME PartyInit PROVE PartyInv
  <2>1. State \in PartyState
    BY <1>1, DeletedGroup DEF PartyInit, State, PartyState
  <2>2. \A x \in Address : State.group[x] = Deleted
    BY <1>1 DEF PartyInit, State
  <2>3. \A p \in Player : State.party[p] = None /\ State.invitations[p] = {}
    BY <1>1 DEF PartyInit, State
  <2>4. SoundParties(State, online, level, spot)
    BY <2>1, <2>2, <2>3, SoundDeleted, DeletedGroup, NoOneNone DEF SoundParties, SoundBut
  <2> QED BY <1>1, <2>4 DEF PartyInit, PartyInv
<1>2. ASSUME PartyInv PROVE PartiesAgree /\ SharedExperienceIsCurrent
  <2>1. /\ State \in PartyState
        /\ \A x \in Address : SoundGroup(group[x], online, level, spot)
        /\ \A x \in Address, p \in Player : /\ party[p] = x <=> p \in InGroup(group[x])
                                            /\ x \in invitations[p] <=> p \in group[x].invitees
    BY <1>2, StateParts DEF PartyInv, SoundParties, SoundBut
  <2>2. /\ party \in [Player -> Address \cup {None}] /\ invitations \in [Player -> SUBSET Address]
        /\ group \in [Address -> Group]
    BY <2>1, StateParts DEF PartyState
  <2>3. PartyTypeOK /\ NoMemberInvited /\ NoEmptyParty /\ OfflineIsForgotten
    BY <1>2, <2>1, <2>2
       DEF PartyInv, PartyTypeOK, NoMemberInvited, NoEmptyParty, OfflineIsForgotten, SoundGroup, Live
  <2>4. MembershipAgrees /\ InvitationsAgree
    BY <2>1 DEF MembershipAgrees, InvitationsAgree, SoundGroup
  <2>5. SharedExperienceIsCurrent
    <3> SUFFICES ASSUME NEW x \in Address, Live(x), group[x].active
                 PROVE  /\ group[x].enabled =>
                             CanEnableSharedExperience(Forgiving(group[x]), level, spot)
                        /\ CanEnableSharedExperience(group[x], level, spot) => group[x].enabled
      BY DEF SharedExperienceIsCurrent, Forgiving
    <3> QED BY <2>1 DEF SoundGroup, Current, Live
  <2> QED BY <2>3, <2>4, <2>5 DEF PartiesAgree
<1> QED BY <1>1, <1>2

\* Parties alone: players, parties and invitations tell the same story, and
\* no status of shared experience is stale, after any handlers of any players.
THEOREM PartiesStaySound == PartySpec => [](PartiesAgree /\ SharedExperienceIsCurrent)
<1>1. PartyInit => PartyInv
  BY PartyInvHolds
<1>2. PartyInv /\ [PartyNext]_allPartyVars => PartyInv'
  BY PartyInvInductive
<1>3. PartyInv => PartiesAgree /\ SharedExperienceIsCurrent
  BY PartyInvHolds
<1> QED BY <1>1, <1>2, <1>3, PTL DEF PartySpec

(***************************************************************************)
(* Trades                                                                  *)
(***************************************************************************)

\* What holds the items, and the number of steps Chain follows it.
Placement == [Item -> Trader \cup Container \cup Square \cup {Gone}]
Deep == Cardinality(Container)

LEMMA TradeFacts ==
  /\ Container \subseteq Item /\ IsFiniteSet(Item) /\ IsFiniteSet(Container)
  /\ Deep \in Nat
  /\ Square \subseteq Int
  /\ ItemRange \in Nat /\ TalkRange \in Nat /\ Slots \in Nat /\ Capacity \in Nat
  /\ NoTrader \notin Trader /\ NoTrader \notin Item
  /\ \A i \in Item : i \notin Trader /\ i \notin Square /\ i # Gone
  /\ \A p \in Trader : p \notin Square /\ p \notin Item /\ p # Gone
  /\ Gone \notin Trader \cup Square
<1>1. IsFiniteSet(Container)
  BY TradeAssumption, FS_Subset
<1>2. Deep \in Nat
  BY <1>1, FS_CardinalityType DEF Deep
<1> QED BY <1>1, <1>2, TradeAssumption

\* Of the sets in T, one has no other as a subset; of numbers, one is least.
LEMMA LeastSet ==
  ASSUME NEW X, IsFiniteSet(X), NEW T \in SUBSET (SUBSET X), T # {}
  PROVE  \E Z \in T : \A R \in T : R \subseteq Z => R = Z
<1>1. FiniteSubsetsOf(X) = SUBSET X
  BY FS_FiniteSubsetsOfFinite
<1>2. IsWellFoundedOn(StrictSubsetOrdering(X), SUBSET X)
  BY <1>1, FS_StrictSubsetOrderingWellFounded
<1>3. PICK Z \in T : \A R \in T : <<R, Z>> \notin StrictSubsetOrdering(X)
  BY <1>2, WFMin
<1> QED BY <1>3 DEF StrictSubsetOrdering

LEMMA LeastNumber ==
  ASSUME NEW K \in SUBSET Nat, NEW n \in K
  PROVE  \E m \in K : \A k \in K : m <= k
<1> DEFINE J == {j \in K : j <= n}
           T == {1..k : k \in J}
<1>1. IsFiniteSet(1..n)
  BY FS_Interval
<1>2. \A k \in J : 1..k \in SUBSET (1..n)
  OBVIOUS
<1>3. T \in SUBSET (SUBSET (1..n)) /\ T # {}
  BY <1>2
<1>4. PICK Z \in T : \A R \in T : R \subseteq Z => R = Z
  <2> HIDE DEF T
  <2> DEFINE X == 1..n
  <2>1. IsFiniteSet(X) /\ T \in SUBSET (SUBSET X) /\ T # {}
    BY <1>1, <1>3
  <2> HIDE DEF X
  <2>2. \E Z \in T : \A R \in T : R \subseteq Z => R = Z
    BY <2>1, LeastSet
  <2> QED BY <2>2
<1>5. PICK m \in J : Z = 1..m
  BY <1>4
<1>6. ASSUME NEW k \in K, k < m PROVE FALSE
  <2>1. k \in J /\ 1..k \in T /\ 1..k \subseteq 1..m
    BY <1>5, <1>6
  <2>2. 1..k = 1..m
    <3> HIDE DEF T
    <3> QED BY <1>4, <1>5, <2>1
  <2>3. m \in 1..m /\ m \notin 1..k
    BY <1>5, <1>6
  <2> QED BY <2>2, <2>3
<1> QED BY <1>5, <1>6

\* A set that has 0, and each number up to n if it has the one before it.
LEMMA StepByStep ==
  ASSUME NEW n \in Nat, NEW S, 0 \in S, \A k \in 1..n : k - 1 \in S => k \in S
  PROVE  \A k \in 0..n : k \in S
<1> DEFINE K == {k \in 0..n : k \notin S}
<1> SUFFICES ASSUME NEW j \in K PROVE FALSE
  OBVIOUS
<1>1. K \in SUBSET Nat
  OBVIOUS
<1>2. PICK m \in K : \A k \in K : m <= k
  <2> HIDE DEF K
  <2> QED BY <1>1, LeastNumber
<1>3. m \in 1..n /\ m - 1 \notin K
  BY <1>2
<1>4. m - 1 \in S
  BY <1>3
<1> QED BY <1>2, <1>3, <1>4

\* The chain of things around x: what it starts with, and each next step.
Up(pl, x) == IF x \in Item THEN pl[x] ELSE x

ChainTo(pl, i, m, f) == f = [n \in 0..m |-> IF n = 0 THEN i ELSE Up(pl, f[n - 1])]

LEMMA ChainExists ==
  ASSUME NEW pl, NEW i, NEW n \in Nat
  PROVE  \E f : ChainTo(pl, i, n, f)
<1> DEFINE S == {m \in 0..n : \E f : ChainTo(pl, i, m, f)}
<1>1. 0 \in S
  <2>1. ChainTo(pl, i, 0, [m \in 0..0 |-> i])
    BY DEF ChainTo
  <2> QED BY <2>1
<1>2. ASSUME NEW k \in 1..n, k - 1 \in S PROVE k \in S
  <2>1. PICK f : ChainTo(pl, i, k - 1, f)
    BY <1>2
  <2> DEFINE g == [m \in 0..k |-> IF m = 0 THEN i ELSE Up(pl, f[m - 1])]
  <2>2. ASSUME NEW m \in 0..(k - 1) PROVE g[m] = f[m] /\ m \in 0..k
    BY <2>1, <2>2 DEF ChainTo
  <2>3. \A m \in 0..k : m # 0 => m - 1 \in 0..(k - 1)
    OBVIOUS
  <2>4. g = [m \in 0..k |-> IF m = 0 THEN i ELSE Up(pl, g[m - 1])]
    <3> DEFINE h == [m \in 0..k |-> IF m = 0 THEN i ELSE Up(pl, g[m - 1])]
    <3>1. \A m \in 0..k : g[m] = IF m = 0 THEN i ELSE Up(pl, f[m - 1])
      OBVIOUS
    <3> HIDE DEF g
    <3>2. \A m \in 0..k : h[m] = IF m = 0 THEN i ELSE Up(pl, f[m - 1])
      BY <2>2, <2>3
    <3>3. g = [m \in 0..k |-> g[m]]
      BY DEF g
    <3> QED BY <3>1, <3>2, <3>3
  <2> HIDE DEF g
  <2>5. ChainTo(pl, i, k, g)
    BY <2>4 DEF ChainTo
  <2> QED BY <2>5
<1> HIDE DEF S
<1>3. n \in S
  BY <1>1, <1>2, StepByStep
<1> QED BY <1>3 DEF S

LEMMA ChainIs ==
  ASSUME NEW pl, NEW i
  PROVE  /\ DOMAIN Chain(pl, i) = 0..(Deep + 1)
         /\ Chain(pl, i)[0] = i
         /\ \A n \in 1..(Deep + 1) : Chain(pl, i)[n] = Up(pl, Chain(pl, i)[n - 1])
<1> DEFINE N == Deep + 1
           A == CHOOSE f : ChainTo(pl, i, N, f)
<1>1. N \in Nat
  BY TradeFacts
<1>2. ChainTo(pl, i, N, A)
  <2> HIDE DEF N
  <2> QED BY <1>1, ChainExists
<1>3. Chain(pl, i) = A
  BY DEF Chain, ChainTo, Up, Deep
<1> HIDE DEF A
<1>4. DOMAIN A = 0..N /\ A[0] = i /\ \A n \in 1..N : A[n] = Up(pl, A[n - 1])
  <2> HIDE DEF N
  <2> QED BY <1>1, <1>2 DEF ChainTo
<1> QED BY <1>3, <1>4

\* Chains that agree at one place agree from there on, as long as the rest is
\* as it was.
LEMMA ChainShift ==
  ASSUME NEW pl, NEW i, NEW m \in Nat, NEW n \in Nat, m + n <= Deep + 1
  PROVE  Chain(pl, i)[m + n] = Chain(pl, Chain(pl, i)[m])[n]
<1> DEFINE f == Chain(pl, i)
           g == Chain(pl, f[m])
           S == {k \in 0..n : f[m + k] = g[k]}
<1>1. /\ \A k \in 1..(Deep + 1) : f[k] = Up(pl, f[k - 1])
      /\ g[0] = f[m] /\ \A k \in 1..(Deep + 1) : g[k] = Up(pl, g[k - 1])
  BY ChainIs
<1>2. Deep \in Nat
  BY TradeFacts
<1> HIDE DEF f, g
<1>3. 0 \in S
  BY <1>1
<1>4. ASSUME NEW k \in 1..n, k - 1 \in S PROVE k \in S
  <2>1. m + k \in 1..(Deep + 1) /\ k \in 1..(Deep + 1) /\ (m + k) - 1 = m + (k - 1)
    BY <1>2
  <2>2. f[m + k] = Up(pl, f[m + (k - 1)]) /\ g[k] = Up(pl, g[k - 1])
    BY <1>1, <2>1
  <2>3. f[m + (k - 1)] = g[k - 1]
    BY <1>4
  <2> QED BY <2>2, <2>3
<1> HIDE DEF S
<1>5. n \in S
  BY <1>3, <1>4, StepByStep
<1> QED BY <1>5 DEF S, f, g

\* Once out of the items, a chain stays where it is.
LEMMA ChainStays ==
  ASSUME NEW pl, NEW i, NEW m \in 0..(Deep + 1), NEW n \in m..(Deep + 1),
         Chain(pl, i)[m] \notin Item
  PROVE  Chain(pl, i)[n] = Chain(pl, i)[m]
<1> DEFINE f == Chain(pl, i)
           S == {k \in 0..(n - m) : f[m + k] = f[m]}
<1>1. Deep \in Nat /\ n - m \in Nat
  BY TradeFacts
<1>2. \A k \in 1..(Deep + 1) : f[k] = Up(pl, f[k - 1])
  BY ChainIs
<1> HIDE DEF f
<1>3. 0 \in S
  BY <1>1
<1>4. ASSUME NEW k \in 1..(n - m), k - 1 \in S PROVE k \in S
  <2>1. m + k \in 1..(Deep + 1) /\ (m + k) - 1 = m + (k - 1)
    BY <1>1
  <2>2. f[m + k] = Up(pl, f[m + (k - 1)]) /\ f[m + (k - 1)] = f[m]
    BY <1>2, <1>4, <2>1
  <2> QED BY <2>2 DEF Up, f
<1> HIDE DEF S
<1>5. n - m \in S
  <2> DEFINE d == n - m
  <2>1. d \in Nat /\ \A k \in 1..d : k - 1 \in S => k \in S
    BY <1>1, <1>4
  <2> HIDE DEF d
  <2>2. d \in S
    BY <1>3, <2>1, StepByStep
  <2> QED BY <2>2 DEF d
<1>6. m + (n - m) = n
  BY <1>1
<1> QED BY <1>5, <1>6 DEF S, f

-----------------------------------------------------------------------------
(* What the chains say, when nothing is inside itself *)

Acyclic(pl) == pl \in Placement /\ \A i \in Item : ~Holds(pl, i, i)

LEMMA HoldsIs ==
  ASSUME NEW pl, NEW c, NEW i
  PROVE  Holds(pl, c, i) <=> \E n \in 1..(Deep + 1) : Chain(pl, i)[n] = c
<1>1. DOMAIN Chain(pl, i) = 0..(Deep + 1) /\ Deep \in Nat
  BY ChainIs, TradeFacts
<1>2. \A n \in 0..(Deep + 1) : n > 0 <=> n \in 1..(Deep + 1)
  BY <1>1
<1> QED BY <1>1, <1>2 DEF Holds

\* A chain through items only would have one of them twice, so it ends.
LEMMA AtTop ==
  ASSUME NEW pl, Acyclic(pl), NEW i
  PROVE  TopParent(pl, i) \notin Item
<1> DEFINE N == Deep + 1
           f == Chain(pl, i)
           D == 1..N
<1> SUFFICES ASSUME f[N] \in Item PROVE FALSE
  BY DEF TopParent, Deep
<1>1. N \in Nat /\ N > Deep /\ Deep \in Nat /\ IsFiniteSet(Container)
  BY TradeFacts
<1>2. ASSUME NEW k \in 0..N PROVE f[k] \in Item
  <2>1. N \in k..N
    BY <1>1
  <2> QED BY <2>1, ChainStays
<1>3. ASSUME NEW k \in D PROVE f[k] \in Container
  <2>1. k \in 0..N /\ k - 1 \in 0..N
    BY <1>1
  <2>2. f[k] \in Item /\ f[k - 1] \in Item /\ f[k] = Up(pl, f[k - 1])
    BY <1>2, <2>1, ChainIs
  <2> HIDE DEF f
  <2>3. f[k] = pl[f[k - 1]]
    BY <2>2 DEF Up
  <2>4. f[k] \in Trader \cup Container \cup Square \cup {Gone}
    BY <2>2, <2>3 DEF Acyclic, Placement
  <2> QED BY <2>2, <2>4, TradeFacts
<1>4. IsFiniteSet(D) /\ Cardinality(D) = N
  BY <1>1, FS_Interval
<1>5. PICK a, b \in D : a # b /\ f[a] = f[b]
  <2> DEFINE g == [k \in D |-> f[k]]
  <2>1. g \in [D -> Container] /\ \A k \in D : g[k] = f[k]
    BY <1>3
  <2> HIDE DEF g, D, N
  <2>2. \E a, b \in D : a # b /\ g[a] = g[b]
    BY <1>1, <1>4, <2>1, FS_PigeonHole DEF Deep
  <2> QED BY <2>1, <2>2
<1>6. ASSUME NEW x \in D, NEW y \in D, x < y, f[x] = f[y] PROVE FALSE
  <2>1. y - x \in Nat /\ x \in Nat /\ x + (y - x) = y /\ x + (y - x) <= N /\ y - x \in 1..N
    BY <1>1, <1>6
  <2>2. f[y] = Chain(pl, f[x])[y - x]
    <3> DEFINE d == y - x
    <3>1. d \in Nat /\ x \in Nat /\ x + d = y /\ x + d <= Deep + 1
      BY <2>1
    <3> HIDE DEF d
    <3>2. f[x + d] = Chain(pl, f[x])[d]
      BY <3>1, ChainShift
    <3> QED BY <3>1, <3>2 DEF d
  <2>3. Holds(pl, f[x], f[x])
    BY <1>6, <2>1, <2>2, HoldsIs
  <2>4. f[x] \in Item
    BY <1>3, TradeFacts
  <2> HIDE DEF f
  <2> QED BY <2>3, <2>4 DEF Acyclic
<1>7. a < b \/ b < a
  BY <1>1, <1>5
<1> HIDE DEF D, f
<1> QED BY <1>5, <1>6, <1>7

\* One step up: what holds i is what holds that in which i is, and that.
LEMMA OutOfItems ==
  ASSUME NEW pl, NEW x, x \notin Item
  PROVE  TopParent(pl, x) = x /\ \A c : Holds(pl, c, x) <=> c = x
<1>1. Deep \in Nat /\ Chain(pl, x)[0] = x
  BY ChainIs, TradeFacts
<1>2. \A n \in 0..(Deep + 1) : Chain(pl, x)[n] = x
  <2> DEFINE z == 0
  <2>1. z \in 0..(Deep + 1) /\ Chain(pl, x)[z] = x /\ \A n \in 0..(Deep + 1) : n \in z..(Deep + 1)
    BY <1>1
  <2> HIDE DEF z
  <2> QED BY <2>1, ChainStays
<1>3. Deep + 1 \in 1..(Deep + 1) /\ \A n \in 1..(Deep + 1) : n \in 0..(Deep + 1)
  BY <1>1
<1> QED BY <1>2, <1>3, HoldsIs DEF TopParent, Deep

LEMMA OneUp ==
  ASSUME NEW pl, Acyclic(pl), NEW i \in Item
  PROVE  /\ TopParent(pl, i) = TopParent(pl, pl[i])
         /\ \A c : Holds(pl, c, i) <=> c = pl[i] \/ Holds(pl, c, pl[i])
<1> DEFINE N == Deep + 1
           f == Chain(pl, i)
           g == Chain(pl, pl[i])
<1>1. N \in Nat /\ N >= 1 /\ Deep \in Nat /\ N = Deep + 1
  BY TradeFacts
<1>2. f[1] = pl[i] /\ g[0] = pl[i]
  <2>1. f[0] = i /\ 1 \in 1..N /\ f[1] = Up(pl, f[1 - 1]) /\ 1 - 1 = 0
    BY <1>1, ChainIs
  <2> QED BY <2>1, ChainIs DEF Up
<1>3. ASSUME NEW n \in 0..Deep PROVE f[n + 1] = g[n]
  <2> DEFINE m == 1
  <2>1. m \in Nat /\ n \in Nat /\ m + n <= Deep + 1 /\ m + n = n + 1 /\ f[m] = pl[i]
    BY <1>1, <1>2
  <2> HIDE DEF m
  <2>2. f[m + n] = Chain(pl, f[m])[n]
    BY <2>1, ChainShift
  <2> QED BY <2>1, <2>2
<1>4. f[N] \notin Item
  BY AtTop DEF TopParent, Deep
<1>5. g[Deep] = f[N]
  BY <1>1, <1>3
<1>6. g[N] = f[N]
  <2>1. Deep \in 0..N /\ N \in Deep..N
    BY <1>1
  <2>2. g[N] = g[Deep]
    BY <1>4, <1>5, <2>1, ChainStays
  <2> QED BY <1>5, <2>2
<1>7. TopParent(pl, i) = f[N] /\ TopParent(pl, pl[i]) = g[N]
  BY DEF TopParent, Deep
<1>8. ASSUME NEW c, Holds(pl, c, i) PROVE c = pl[i] \/ Holds(pl, c, pl[i])
  <2>1. PICK n \in 1..N : f[n] = c
    BY <1>8, HoldsIs
  <2>2. CASE n = 1
    BY <1>2, <2>1, <2>2
  <2>3. CASE n # 1
    <3>1. n - 1 \in 0..Deep /\ n - 1 \in 1..N /\ (n - 1) + 1 = n
      BY <1>1, <2>1, <2>3
    <3>2. g[n - 1] = c
      BY <1>3, <2>1, <3>1
    <3> QED BY <3>1, <3>2, HoldsIs
  <2> QED BY <2>2, <2>3
<1>9. ASSUME NEW c, c = pl[i] \/ Holds(pl, c, pl[i]) PROVE Holds(pl, c, i)
  <2>1. CASE c = pl[i]
    <3>1. 1 \in 1..N
      BY <1>1
    <3> QED BY <1>2, <2>1, <3>1, HoldsIs
  <2>2. CASE Holds(pl, c, pl[i])
    <3>1. PICK n \in 1..N : g[n] = c
      BY <2>2, HoldsIs
    <3>2. CASE n = N
      <4>1. f[N] = c /\ N \in 1..N
        BY <1>1, <1>6, <3>1, <3>2
      <4> QED BY <4>1, HoldsIs
    <3>3. CASE n # N
      <4>1. n \in 0..Deep /\ n + 1 \in 1..N
        BY <1>1, <3>1, <3>3
      <4>2. f[n + 1] = c
        BY <1>3, <3>1, <4>1
      <4> QED BY <4>1, <4>2, HoldsIs
    <3> QED BY <3>2, <3>3
  <2> QED BY <1>9, <2>1, <2>2
<1> QED BY <1>6, <1>7, <1>8, <1>9

\* From the top down: a set that has each item whose holder it has, or that
\* nothing but a player, a square or nowhere holds, has them all.
LEMMA TopDown ==
  ASSUME NEW pl, Acyclic(pl), NEW S,
         \A i \in Item : pl[i] \notin Item \/ pl[i] \in S => i \in S
  PROVE  Item \subseteq S
<1> SUFFICES ASSUME NEW i \in Item PROVE i \in S
  OBVIOUS
<1> DEFINE N == Deep + 1
           f == Chain(pl, i)
           T == {n \in 0..N : f[N - n] \notin Item \/ f[N - n] \in S}
<1>1. N \in Nat
  BY TradeFacts
<1>2. 0 \in T
  <2>1. f[N] \notin Item
    BY AtTop DEF TopParent, Deep
  <2>2. N - 0 = N /\ 0 \in 0..N
    BY <1>1
  <2> HIDE DEF f, N
  <2> QED BY <2>1, <2>2
<1>3. ASSUME NEW k \in 1..N, k - 1 \in T PROVE k \in T
  <2> DEFINE n == N - (k - 1)
  <2>1. n \in 1..N /\ n - 1 = N - k /\ k \in 0..N
    BY <1>1
  <2>2. f[n] = Up(pl, f[n - 1])
    BY <2>1, ChainIs
  <2>3. f[n] \notin Item \/ f[n] \in S
    BY <1>3
  <2> HIDE DEF n, f
  <2>4. f[n - 1] \notin Item \/ f[n - 1] \in S
    BY <2>2, <2>3 DEF Up
  <2> QED BY <2>1, <2>4
<1>4. N \in T
  <2> HIDE DEF T, N
  <2> QED BY <1>1, <1>2, <1>3, StepByStep
<1>5. f[0] = i /\ N - N = 0
  BY <1>1, ChainIs
<1> QED BY <1>4, <1>5

\* All that is in an item has the same player or square at its top.
LEMMA SameTop ==
  ASSUME NEW pl, Acyclic(pl), NEW c \in Item, NEW i, Holds(pl, c, i)
  PROVE  TopParent(pl, i) = TopParent(pl, c)
<1> DEFINE S == {j \in Item : Holds(pl, c, j) => TopParent(pl, j) = TopParent(pl, c)}
<1>1. ASSUME NEW j \in Item, pl[j] \notin Item \/ pl[j] \in S PROVE j \in S
  <2> SUFFICES ASSUME Holds(pl, c, j) PROVE TopParent(pl, j) = TopParent(pl, c)
    OBVIOUS
  <2>1. TopParent(pl, j) = TopParent(pl, pl[j]) /\ (c = pl[j] \/ Holds(pl, c, pl[j]))
    BY OneUp
  <2>2. CASE c = pl[j]
    BY <2>1, <2>2
  <2>3. CASE Holds(pl, c, pl[j])
    <3>1. pl[j] \in Item
      BY <2>3, OutOfItems
    <3> QED BY <1>1, <2>1, <2>3, <3>1
  <2> QED BY <2>1, <2>2, <2>3
<1> HIDE DEF S
<1>2. Item \subseteq S
  BY <1>1, TopDown
<1>3. i \in Item
  BY OutOfItems
<1> QED BY <1>2, <1>3 DEF S

-----------------------------------------------------------------------------
(* An item is moved *)

MovedTo(pl, i, to) == [pl EXCEPT ![i] = to]

LEMMA MovedIs ==
  ASSUME NEW pl \in Placement, NEW i \in Item, NEW to \in Trader \cup Container \cup Square \cup {Gone}
  PROVE  /\ MovedTo(pl, i, to) \in Placement
         /\ MovedTo(pl, i, to)[i] = to
         /\ \A x \in Item \ {i} : MovedTo(pl, i, to)[x] = pl[x]
         /\ \A x : x # i => Up(MovedTo(pl, i, to), x) = Up(pl, x)
BY DEF MovedTo, Placement, Up

\* Up to where it comes to i, a chain stays as it was.
LEMMA ChainUpTo ==
  ASSUME NEW pl \in Placement, NEW i \in Item,
         NEW to \in Trader \cup Container \cup Square \cup {Gone}, NEW x,
         NEW m \in 0..(Deep + 1), \A k \in 0..(m - 1) : Chain(pl, x)[k] # i
  PROVE  \A k \in 0..m : Chain(MovedTo(pl, i, to), x)[k] = Chain(pl, x)[k]
<1> DEFINE f == Chain(pl, x)
           g == Chain(MovedTo(pl, i, to), x)
           S == {k \in 0..m : g[k] = f[k]}
<1>1. Deep \in Nat /\ m \in Nat
  BY TradeFacts
<1>2. 0 \in S
  BY <1>1, ChainIs
<1>3. ASSUME NEW k \in 1..m, k - 1 \in S PROVE k \in S
  <2>1. k \in 1..(Deep + 1) /\ k - 1 \in 0..(m - 1) /\ k \in 0..m
    BY <1>1
  <2>2. f[k] = Up(pl, f[k - 1]) /\ g[k] = Up(MovedTo(pl, i, to), g[k - 1])
    BY <2>1, ChainIs
  <2>3. g[k - 1] = f[k - 1] /\ f[k - 1] # i
    BY <1>3, <2>1
  <2> HIDE DEF f, g
  <2>4. g[k] = f[k]
    BY <2>2, <2>3, MovedIs
  <2> QED BY <2>1, <2>4
<1> HIDE DEF S
<1>4. \A k \in 0..m : k \in S
  BY <1>1, <1>2, <1>3, StepByStep
<1> QED BY <1>4 DEF S

\* What is not i, and not in i, is where it was.
LEMMA Elsewhere ==
  ASSUME NEW pl \in Placement, NEW i \in Item,
         NEW to \in Trader \cup Container \cup Square \cup {Gone}, NEW x,
         x # i, ~Holds(pl, i, x)
  PROVE  /\ \A k \in 0..(Deep + 1) : Chain(MovedTo(pl, i, to), x)[k] = Chain(pl, x)[k]
         /\ TopParent(MovedTo(pl, i, to), x) = TopParent(pl, x)
         /\ \A c : Holds(MovedTo(pl, i, to), c, x) <=> Holds(pl, c, x)
<1> DEFINE N == Deep + 1
<1>1. N \in Nat /\ N \in 0..N /\ \A k \in 1..N : k \in 0..N
  BY TradeFacts
<1>2. ASSUME NEW k \in 0..(N - 1) PROVE Chain(pl, x)[k] # i
  <2>1. k = 0 \/ k \in 1..N
    BY <1>1
  <2>2. Chain(pl, x)[0] # i
    BY ChainIs
  <2> QED BY <2>1, <2>2, HoldsIs
<1>3. \A k \in 0..N : Chain(MovedTo(pl, i, to), x)[k] = Chain(pl, x)[k]
  BY <1>1, <1>2, ChainUpTo
<1>4. TopParent(MovedTo(pl, i, to), x) = TopParent(pl, x)
  BY <1>1, <1>3 DEF TopParent, Deep
<1>5. ASSUME NEW c PROVE Holds(MovedTo(pl, i, to), c, x) <=> Holds(pl, c, x)
  BY <1>1, <1>3, HoldsIs
<1> QED BY <1>3, <1>4, <1>5

\* Nothing gets into itself when i goes to what is not in it.
LEMMA MovedAcyclic ==
  ASSUME NEW pl, Acyclic(pl), NEW i \in Item,
         NEW to \in Trader \cup Container \cup Square \cup {Gone},
         to # i, ~Holds(pl, i, to)
  PROVE  Acyclic(MovedTo(pl, i, to))
<1> DEFINE q == MovedTo(pl, i, to)
           N == Deep + 1
<1>1. pl \in Placement /\ N \in Nat
  BY TradeFacts DEF Acyclic
<1>2. q \in Placement /\ q[i] = to
  BY <1>1, MovedIs
<1> HIDE DEF q, N
<1>3. ASSUME NEW n \in 1..N PROVE Chain(q, i)[n] # i
  <2> DEFINE z == 1
             d == n - 1
  <2>1. z \in Nat /\ d \in Nat /\ z + d = n /\ z + d <= Deep + 1 /\ d \in 0..N /\ z \in 1..(Deep + 1)
        /\ z - 1 = 0
    BY <1>1 DEF N
  <2>2. Chain(q, i)[z] = to
    <3>1. Chain(q, i)[z] = Up(q, Chain(q, i)[z - 1]) /\ Chain(q, i)[0] = i
      BY <2>1, ChainIs
    <3> QED BY <1>2, <2>1, <3>1 DEF Up
  <2> HIDE DEF z, d
  <2>3. Chain(q, i)[n] = Chain(q, to)[d]
    BY <2>1, <2>2, ChainShift
  <2>4. Chain(q, to)[d] = Chain(pl, to)[d]
    BY <1>1, <2>1, Elsewhere DEF q, N
  <2>5. CASE d = 0
    <3>1. Chain(pl, to)[0] = to
      BY ChainIs
    <3> QED BY <2>3, <2>4, <2>5, <3>1
  <2>6. CASE d # 0
    <3>1. d \in 1..(Deep + 1)
      BY <2>1, <2>6 DEF N
    <3> QED BY <2>3, <2>4, <3>1, HoldsIs
  <2> QED BY <2>5, <2>6
<1>4. ~Holds(q, i, i)
  BY <1>3, HoldsIs DEF N
<1>5. ASSUME NEW y \in Item, Holds(q, y, y) PROVE FALSE
  <2>1. y # i
    BY <1>4, <1>5
  <2>2. Holds(pl, i, y)
    <3> SUFFICES ASSUME ~Holds(pl, i, y) PROVE FALSE
      OBVIOUS
    <3>1. Holds(pl, y, y)
      BY <1>1, <1>5, <2>1, Elsewhere DEF q
    <3> QED BY <3>1 DEF Acyclic
  <2> DEFINE K == {k \in 1..N : Chain(pl, y)[k] = i}
  <2>3. PICK k \in K : TRUE
    BY <2>2, HoldsIs DEF N
  <2>4. PICK m \in K : \A j \in K : m <= j
    <3>1. K \in SUBSET Nat
      OBVIOUS
    <3> HIDE DEF K
    <3> QED BY <2>3, <3>1, LeastNumber
  <2>5. m \in 1..N /\ m \in 0..(Deep + 1) /\ Chain(pl, y)[m] = i
    BY <1>1 DEF N
  <2>6. \A j \in 0..m : Chain(q, y)[j] = Chain(pl, y)[j]
    <3>1. ASSUME NEW j \in 0..(m - 1) PROVE Chain(pl, y)[j] # i
      <4>1. CASE j = 0
        BY <2>1, <4>1, ChainIs
      <4>2. CASE j # 0
        <5>1. j \in 1..N /\ j < m
          BY <1>1, <2>5, <4>2
        <5>2. j \notin K
          <6> HIDE DEF K
          <6> QED BY <1>1, <2>4, <2>5, <5>1
        <5> QED BY <5>1, <5>2
      <4> QED BY <4>1, <4>2
    <3> HIDE DEF K
    <3> QED BY <1>1, <2>5, <3>1, ChainUpTo DEF q
  <2>7. PICK n \in 1..N : Chain(q, y)[n] = y
    BY <1>5, HoldsIs DEF N
  <2>8. CASE n <= m
    <3>1. n \in 0..m
      BY <2>5, <2>8
    <3>2. Chain(pl, y)[n] = y
      BY <2>6, <2>7, <3>1
    <3>3. Holds(pl, y, y)
      BY <3>2, HoldsIs DEF N
    <3> QED BY <3>3 DEF Acyclic
  <2>9. CASE n > m
    <3> DEFINE d == n - m
    <3>1. /\ d \in Nat /\ m \in Nat /\ m \in 0..m /\ m + d = n /\ d + m = n
          /\ m + d <= Deep + 1 /\ d + m <= Deep + 1 /\ n \in 1..N
      BY <1>1, <2>5, <2>7, <2>9 DEF N
    <3> HIDE DEF d, K
    <3>2. Chain(q, y)[m] = i
      BY <2>5, <2>6, <3>1
    <3>3. Chain(q, y)[m + d] = Chain(q, i)[d]
      BY <3>1, <3>2, ChainShift
    <3>4. Chain(q, i)[d] = y
      BY <2>7, <3>1, <3>3
    <3>5. Chain(q, i)[d + m] = Chain(q, y)[m]
      BY <3>1, <3>4, ChainShift
    <3> QED BY <1>3, <3>1, <3>2, <3>5
  <2> QED BY <1>1, <2>5, <2>7, <2>8, <2>9
<1> QED BY <1>2, <1>5 DEF Acyclic, q

\* What i then is in: where it went, and all around that.
LEMMA MovedInto ==
  ASSUME NEW pl, Acyclic(pl), NEW i \in Item,
         NEW to \in Trader \cup Container \cup Square \cup {Gone},
         to # i, ~Holds(pl, i, to)
  PROVE  /\ TopParent(MovedTo(pl, i, to), i) = TopParent(pl, to)
         /\ \A c : Holds(MovedTo(pl, i, to), c, i) <=> c = to \/ Holds(pl, c, to)
         /\ \A x \in Item : Holds(pl, i, x) =>
              TopParent(MovedTo(pl, i, to), x) = TopParent(pl, to)
<1> DEFINE q == MovedTo(pl, i, to)
<1>1. Acyclic(q) /\ pl \in Placement
  BY MovedAcyclic DEF Acyclic
<1>2. q[i] = to /\ \A x \in Item \ {i} : q[x] = pl[x]
  BY <1>1, MovedIs
<1>3. TopParent(q, to) = TopParent(pl, to) /\ \A c : Holds(q, c, to) <=> Holds(pl, c, to)
  BY <1>1, Elsewhere
<1> HIDE DEF q
<1>4. TopParent(q, i) = TopParent(pl, to) /\ \A c : Holds(q, c, i) <=> c = to \/ Holds(pl, c, to)
  BY <1>1, <1>2, <1>3, OneUp
<1> DEFINE S == {x \in Item : Holds(pl, i, x) => Holds(q, i, x)}
<1>5. ASSUME NEW x \in Item, pl[x] \notin Item \/ pl[x] \in S PROVE x \in S
  <2> SUFFICES ASSUME Holds(pl, i, x) PROVE Holds(q, i, x)
    OBVIOUS
  <2>1. x # i
    BY DEF Acyclic
  <2>2. i = pl[x] \/ Holds(pl, i, pl[x])
    BY OneUp
  <2>3. q[x] = pl[x]
    BY <1>2, <2>1
  <2>4. Holds(pl, i, pl[x]) => pl[x] \in Item
    BY OutOfItems
  <2> QED BY <1>1, <1>5, <2>2, <2>3, <2>4, OneUp
<1> HIDE DEF S
<1>6. Item \subseteq S
  BY <1>5, TopDown
<1>7. ASSUME NEW x \in Item, Holds(pl, i, x) PROVE TopParent(q, x) = TopParent(pl, to)
  <2>1. Holds(q, i, x)
    BY <1>6, <1>7 DEF S
  <2>2. TopParent(q, x) = TopParent(q, i)
    BY <1>1, <2>1, SameTop
  <2> QED BY <1>4, <2>2
<1> QED BY <1>4, <1>7 DEF q

-----------------------------------------------------------------------------
(* Trades end *)

LEMMA TradeTypeIs == TradeTypeOK <=> /\ traders \subseteq Trader
                                /\ square \in [Trader -> Square]
                                /\ state \in [Trader -> {"none", "initiated", "acknowledge", "accept"}]
                                /\ partner \in [Trader -> Trader \cup {NoTrader}]
                                /\ offer \in [Trader -> Item \cup {NoTrader}]
                                /\ tradeItems \in [Item -> Trader \cup {NoTrader}]
                                /\ Acyclic(place)
BY DEF TradeTypeOK, Acyclic, Placement

TradeVarsOK == /\ state \in [Trader -> {"none", "initiated", "acknowledge", "accept"}]
               /\ partner \in [Trader -> Trader \cup {NoTrader}]
               /\ offer \in [Trader -> Item \cup {NoTrader}]
               /\ tradeItems \in [Item -> Trader \cup {NoTrader}]

\* Both sides of each trade of players are out of it, and nobody else is.
LEMMA CloseKeeps ==
  ASSUME TradesAgree, NEW players \in SUBSET Trader, Close(players)
  PROVE  /\ TradeVarsOK' /\ OffersRegistered'
         /\ \A p \in Trader :
              /\ partner'[p] = NoTrader <=> state'[p] = "none"
              /\ partner'[p] # NoTrader => /\ partner'[p] = partner[p]
                                           /\ partner'[partner[p]] = p
                                           /\ p \notin players /\ partner[p] \notin players
              /\ offer'[p] # NoTrader => offer'[p] = offer[p] /\ p \notin players
<1> DEFINE ends == players \cup ({partner[p] : p \in players} \ {NoTrader})
           offers == {offer[p] : p \in ends}
<1>1. /\ state \in [Trader -> {"none", "initiated", "acknowledge", "accept"}]
      /\ partner \in [Trader -> Trader \cup {NoTrader}]
      /\ offer \in [Trader -> Item \cup {NoTrader}]
      /\ tradeItems \in [Item -> Trader \cup {NoTrader}]
  BY DEF TradesAgree, TradeTypeOK
<1>2. ends \in SUBSET Trader
  BY <1>1
<1>3. /\ state' = [p \in Trader |-> IF p \in ends THEN "none" ELSE state[p]]
      /\ partner' = [p \in Trader |-> IF p \in ends THEN NoTrader ELSE partner[p]]
      /\ offer' = [p \in Trader |-> IF p \in ends THEN NoTrader ELSE offer[p]]
      /\ tradeItems' = [i \in Item |-> IF i \in offers THEN NoTrader ELSE tradeItems[i]]
  BY DEF Close
<1>4. NoTrader \notin Trader /\ NoTrader \notin Item
  BY TradeFacts
<1>5. \A p \in Trader :
        /\ partner[p] = NoTrader <=> state[p] = "none"
        /\ partner[p] # NoTrader => partner[p] \in Trader /\ partner[partner[p]] = p
  BY <1>1 DEF TradesAgree, PartnersAgree
<1>6. ASSUME NEW p \in Trader, p \notin ends, partner[p] # NoTrader
      PROVE  partner[p] \notin ends
  BY <1>4, <1>5, <1>6
<1>7. \A p \in players : p \in ends
  OBVIOUS
<1>8. \A i \in Item : i \in offers <=> \E p \in ends : offer[p] = i
  OBVIOUS
<1> HIDE DEF ends, offers
<1>9. TradeVarsOK'
  BY <1>1, <1>3 DEF TradeVarsOK
<1>10. OffersRegistered'
  <2>1. /\ \A i \in Item, p \in Trader : tradeItems[i] = p <=> offer[p] = i
        /\ \A p \in Trader : /\ state[p] = "initiated" => offer[p] # NoTrader
                             /\ offer[p] # NoTrader => state[p] \in {"initiated", "accept"}
    BY DEF TradesAgree, OffersRegistered
  <2>2. ASSUME NEW i \in Item, NEW p \in Trader PROVE tradeItems'[i] = p <=> offer'[p] = i
    <3>1. CASE p \in ends
      BY <1>2, <1>3, <1>4, <1>8, <2>1, <3>1
    <3>2. CASE p \notin ends
      <4>1. offer'[p] = offer[p] /\ (tradeItems[i] = p <=> offer[p] = i)
        BY <1>3, <2>1, <3>2
      <4>2. CASE i \in offers
        <5>1. PICK r \in ends : offer[r] = i
          BY <1>8, <4>2
        <5>2. tradeItems[i] = r /\ r # p
          BY <1>2, <2>1, <3>2, <5>1
        <5>3. tradeItems'[i] = NoTrader
          BY <1>3, <4>2
        <5> QED BY <1>4, <4>1, <5>2, <5>3
      <4>3. CASE i \notin offers
        BY <1>3, <4>1, <4>3
      <4> QED BY <4>2, <4>3
    <3> QED BY <3>1, <3>2
  <2>3. \A p \in Trader : /\ state'[p] = "initiated" => offer'[p] # NoTrader
                          /\ offer'[p] # NoTrader => state'[p] \in {"initiated", "accept"}
    BY <1>3, <2>1
  <2> QED BY <2>2, <2>3 DEF OffersRegistered
<1>11. ASSUME NEW p \in Trader
       PROVE  /\ partner'[p] = NoTrader <=> state'[p] = "none"
              /\ partner'[p] # NoTrader => /\ partner'[p] = partner[p]
                                           /\ partner'[partner[p]] = p
                                           /\ p \notin players /\ partner[p] \notin players
              /\ offer'[p] # NoTrader => offer'[p] = offer[p] /\ p \notin players
  BY <1>1, <1>3, <1>4, <1>5, <1>6, <1>7
<1> QED BY <1>9, <1>10, <1>11

\* What still is offered lies where it lay.
Undisturbed == \A p \in Trader : offer'[p] # NoTrader =>
                 /\ TopParent(place', offer[p]) = TopParent(place, offer[p])
                 /\ \A c : Holds(place', c, offer[p]) <=> Holds(place, c, offer[p])

\* A handler that moves things and ends the trades it touches.
LEMMA TouchKeeps ==
  ASSUME TradesAgree, NEW players \in SUBSET Trader, Close(players),
         UNCHANGED <<traders, square>>, Acyclic(place)', Undisturbed
  PROVE  TradesAgree'
<1>1. /\ TradeVarsOK' /\ OffersRegistered'
      /\ \A p \in Trader :
           /\ partner'[p] = NoTrader <=> state'[p] = "none"
           /\ partner'[p] # NoTrader => partner'[p] = partner[p] /\ partner'[partner[p]] = p
           /\ offer'[p] # NoTrader => offer'[p] = offer[p]
  BY CloseKeeps
<1>2. TradeTypeOK'
  BY <1>1, TradeTypeIs DEF TradesAgree, TradeTypeOK, TradeVarsOK, Acyclic, Placement
<1>3. PartnersAgree'
  BY <1>1 DEF TradesAgree, PartnersAgree
<1>4. OffersDisjoint'
  <2>1. \A p, q \in Trader : p # q /\ offer[p] # NoTrader /\ offer[q] # NoTrader =>
          offer[p] # offer[q] /\ ~Holds(place, offer[p], offer[q]) /\ ~Holds(place, offer[q], offer[p])
    BY DEF TradesAgree, OffersDisjoint, Overlap
  <2>2. ASSUME NEW p \in Trader, NEW q \in Trader, p # q, offer'[p] # NoTrader, offer'[q] # NoTrader
        PROVE  /\ offer'[p] # offer'[q] /\ ~Holds(place', offer'[p], offer'[q])
               /\ ~Holds(place', offer'[q], offer'[p])
    BY <1>1, <2>1, <2>2 DEF Undisturbed
  <2> QED BY <2>2 DEF OffersDisjoint, Overlap
<1>5. OfferAtHand'
  <2>1. ASSUME NEW p \in Trader, offer'[p] # NoTrader
        PROVE  /\ TopParent(place', offer'[p]) \in Square \cup {p}
               /\ InRange(square'[p], Position(place, offer[p])', ItemRange)
    <3>1. offer'[p] = offer[p] /\ TopParent(place', offer[p]) = TopParent(place, offer[p])
      BY <1>1, <2>1 DEF Undisturbed
    <3>2. Position(place, offer[p])' = Position(place, offer[p])
      BY <3>1 DEF Position
    <3> QED BY <2>1, <3>1, <3>2 DEF TradesAgree, OfferAtHand
  <2> QED BY <2>1 DEF OfferAtHand
<1> QED BY <1>1, <1>2, <1>3, <1>4, <1>5 DEF TradesAgree

-----------------------------------------------------------------------------
(* Whoever offers what is taken is told, by what it is taken from *)

LEMMA OverlapTop ==
  ASSUME Acyclic(place), NEW i \in Item, NEW j \in Item, Overlap(i, j)
  PROVE  TopParent(place, j) = TopParent(place, i)
BY SameTop DEF Overlap

LEMMA OffersAre ==
  ASSUME TradesAgree, NEW p \in Trader, offer[p] # NoTrader
  PROVE  /\ offer[p] \in Item /\ p \in traders
         /\ TopParent(place, offer[p]) \in Square \cup {p}
         /\ InRange(square[p], Position(place, offer[p]), ItemRange)
<1>1. offer[p] \in Item
  BY DEF TradesAgree, TradeTypeOK
<1>2. state[p] # "none"
  BY DEF TradesAgree, OffersRegistered
<1>3. p \in traders
  BY <1>2 DEF TradesAgree, PartnersAgree
<1> QED BY <1>1, <1>3 DEF TradesAgree, OfferAtHand

LEMMA ToldIs ==
  ASSUME NEW h
  PROVE  Told(h) = IF h \in Trader THEN {h}
                   ELSE IF h \in Container
                   THEN {p \in traders : InRange(square[p], Position(place, h), ItemRange)}
                   ELSE traders
<1>1. ~(h \in Trader /\ h \in Container)
  BY TradeFacts
<1> QED BY <1>1 DEF Told

LEMMA TakingCloses ==
  ASSUME TradesAgree, NEW i \in Item, NEW p \in Trader, offer[p] # NoTrader,
         Overlap(i, offer[p])
  PROVE  p \in ClosedByTaking(i)
<1> DEFINE j == offer[p]
           h == place[i]
<1>1. /\ j \in Item /\ p \in traders /\ TopParent(place, j) \in Square \cup {p}
      /\ InRange(square[p], Position(place, j), ItemRange)
  BY OffersAre
<1>2. Acyclic(place) /\ traders \subseteq Trader
  BY DEF TradesAgree, TradeTypeOK, Acyclic, Placement
<1>3. TopParent(place, j) = TopParent(place, i) /\ TopParent(place, i) = TopParent(place, h)
  BY <1>1, <1>2, OverlapTop, OneUp
<1>4. h \in Trader \cup Container \cup Square \cup {Gone}
  BY <1>2 DEF Acyclic, Placement
<1> HIDE DEF j, h
<1>5. p \in Told(h)
  <2>1. CASE h \in Trader
    <3>1. h \notin Item /\ TopParent(place, h) = h
      BY <2>1, TradeFacts, OutOfItems
    <3>2. h = p
      BY <1>1, <1>3, <2>1, <3>1, TradeFacts
    <3> QED BY <2>1, <3>2, ToldIs
  <2>2. CASE h \in Container
    <3>1. h \notin Trader
      BY <2>2, TradeFacts
    <3>2. Position(place, h) = Position(place, j)
      BY <1>3 DEF Position
    <3> QED BY <1>1, <2>2, <3>1, <3>2, ToldIs
  <2>3. CASE h \notin Trader /\ h \notin Container
    BY <1>1, <2>3, ToldIs
  <2> QED BY <2>1, <2>2, <2>3
<1> QED BY <1>5 DEF ClosedByTaking, j, h

LEMMA ClosedAre ==
  ASSUME TradesAgree, NEW i \in Item
  PROVE  ClosedByTaking(i) \in SUBSET Trader /\ \A h : ClosedByPutting(i, h) \in SUBSET Trader
<1>1. ASSUME NEW h PROVE Told(h) \in SUBSET Trader
  <2>1. traders \subseteq Trader
    BY DEF TradesAgree, TradeTypeOK
  <2> QED BY <2>1, ToldIs
<1> QED BY <1>1 DEF ClosedByTaking, ClosedByPutting

-----------------------------------------------------------------------------
(* Nothing holds more than it can, so there is room where something was *)

Fits(pl) == /\ \A p \in Trader : Cardinality(Contents(pl, p)) <= Slots
            /\ \A c \in Container : Cardinality(Contents(pl, c)) <= Capacity

LEMMA RoomIs ==
  ASSUME NEW pl, NEW h
  PROVE  Room(pl, h) <=> /\ h \in Trader => Cardinality(Contents(pl, h)) < Slots
                         /\ h \in Container => Cardinality(Contents(pl, h)) < Capacity
<1>1. ~(h \in Trader /\ h \in Container)
  BY TradeFacts
<1> QED BY <1>1 DEF Room

LEMMA ContentsAre ==
  ASSUME NEW pl, NEW h
  PROVE  IsFiniteSet(Contents(pl, h)) /\ Cardinality(Contents(pl, h)) \in Nat
<1>1. Contents(pl, h) \subseteq Item
  BY DEF Contents
<1>2. IsFiniteSet(Contents(pl, h))
  BY <1>1, TradeFacts, FS_Subset
<1> QED BY <1>2, FS_CardinalityType

LEMMA MovedContents ==
  ASSUME NEW pl \in Placement, NEW i \in Item,
         NEW to \in Trader \cup Container \cup Square \cup {Gone}, NEW h
  PROVE  LET n == Cardinality(Contents(pl, h))
             m == Cardinality(Contents(MovedTo(pl, i, to), h))
         IN  /\ m \in Nat /\ n \in Nat
             /\ h # to => m <= n
             /\ h = to => m <= n + 1
             /\ h # to /\ h = pl[i] => m = n - 1
<1> DEFINE A == Contents(pl, h)
           B == Contents(MovedTo(pl, i, to), h)
<1>1. IsFiniteSet(A) /\ IsFiniteSet(B) /\ Cardinality(A) \in Nat /\ Cardinality(B) \in Nat
  BY ContentsAre
<1>2. /\ h # to => B = A \ {i}
      /\ h = to => B = A \cup {i}
      /\ h = pl[i] => i \in A
  BY MovedIs DEF Contents
<1> HIDE DEF A, B
<1>3. /\ Cardinality(A \ {i}) = IF i \in A THEN Cardinality(A) - 1 ELSE Cardinality(A)
      /\ Cardinality(A \cup {i}) = IF i \in A THEN Cardinality(A) ELSE Cardinality(A) + 1
  BY <1>1, FS_RemoveElement, FS_AddElement
<1>4. /\ h # to => Cardinality(B) <= Cardinality(A)
      /\ h = to => Cardinality(B) <= Cardinality(A) + 1
      /\ h # to /\ h = pl[i] => Cardinality(B) = Cardinality(A) - 1
  <2>1. CASE h # to
    <3>1. Cardinality(B) = Cardinality(A \ {i})
      BY <1>2, <2>1
    <3> QED BY <1>1, <1>2, <1>3, <2>1, <3>1
  <2>2. CASE h = to
    <3>1. Cardinality(B) = Cardinality(A \cup {i})
      BY <1>2, <2>2
    <3> QED BY <1>1, <1>3, <2>2, <3>1
  <2> QED BY <2>1, <2>2
<1> QED BY <1>1, <1>4 DEF A, B

LEMMA FitsMoved ==
  ASSUME NEW pl \in Placement, Fits(pl), NEW i \in Item,
         NEW to \in Trader \cup Container \cup Square \cup {Gone}, Room(pl, to)
  PROVE  Fits(MovedTo(pl, i, to))
<1> DEFINE q == MovedTo(pl, i, to)
           Count(l, h) == Cardinality(Contents(l, h))
<1>1. Slots \in Nat /\ Capacity \in Nat
  BY TradeFacts
<1>2. /\ to \in Trader => Count(pl, to) < Slots
      /\ to \in Container => Count(pl, to) < Capacity
  BY RoomIs
<1>3. \A h : /\ Count(q, h) \in Nat /\ Count(pl, h) \in Nat
             /\ h # to => Count(q, h) <= Count(pl, h)
             /\ h = to => Count(q, h) <= Count(pl, h) + 1
  BY MovedContents
<1>4. /\ \A p \in Trader : Count(pl, p) <= Slots
      /\ \A c \in Container : Count(pl, c) <= Capacity
  BY DEF Fits
<1> HIDE DEF Count, q
<1>5. /\ \A p \in Trader : Count(q, p) <= Slots
      /\ \A c \in Container : Count(q, c) <= Capacity
  BY <1>1, <1>2, <1>3, <1>4
<1> QED BY <1>5 DEF Count, Fits, q

LEMMA RoomLeft ==
  ASSUME NEW pl \in Placement, Fits(pl), NEW i \in Item,
         NEW to \in Trader \cup Container \cup Square \cup {Gone}, to # pl[i]
  PROVE  Room(MovedTo(pl, i, to), pl[i])
<1> DEFINE h == pl[i]
<1>1. LET n == Cardinality(Contents(pl, h))
          m == Cardinality(Contents(MovedTo(pl, i, to), h))
      IN  n \in Nat /\ m \in Nat /\ m = n - 1
  BY MovedContents
<1>2. /\ h \in Trader => Cardinality(Contents(pl, h)) <= Slots
      /\ h \in Container => Cardinality(Contents(pl, h)) <= Capacity
  BY DEF Fits
<1>3. Slots \in Nat /\ Capacity \in Nat
  BY TradeFacts
<1> HIDE DEF h
<1>4. Room(MovedTo(pl, i, to), h)
  BY <1>1, <1>2, <1>3, RoomIs
<1> QED BY <1>4 DEF h

-----------------------------------------------------------------------------
(* The handlers *)

TradeInv == TradesAgree /\ Fits(place)

LEMMA TradeInvParts ==
  ASSUME TradeInv
  PROVE  /\ TradesAgree /\ Fits(place) /\ Acyclic(place) /\ place \in Placement
         /\ traders \subseteq Trader /\ square \in [Trader -> Square]
         /\ partner \in [Trader -> Trader \cup {NoTrader}]
         /\ offer \in [Trader -> Item \cup {NoTrader}]
BY DEF TradeInv, TradesAgree, TradeTypeOK, Acyclic, Placement

\* A thing goes somewhere, and whoever trades with it is told.
LEMMA TakeKeeps ==
  ASSUME TradeInv, NEW i \in Item, NEW to \in Trader \cup Container \cup Square \cup {Gone},
         to # i, ~Holds(place, i, to), Room(place, to), place' = MovedTo(place, i, to),
         NEW players \in SUBSET Trader, ClosedByTaking(i) \subseteq players, Close(players),
         UNCHANGED <<traders, square>>
  PROVE  TradeInv'
<1>1. TradesAgree /\ Acyclic(place) /\ place \in Placement /\ Fits(place)
  BY TradeInvParts
<1>2. Acyclic(place)' /\ Fits(place)'
  <2>1. Acyclic(place') /\ Fits(place')
    BY <1>1, MovedAcyclic, FitsMoved
  <2> QED BY <2>1 DEF Acyclic, Fits, Placement, Holds, Contents, Chain
<1>3. Undisturbed
  <2> SUFFICES ASSUME NEW p \in Trader, offer'[p] # NoTrader
               PROVE  /\ TopParent(place', offer[p]) = TopParent(place, offer[p])
                      /\ \A c : Holds(place', c, offer[p]) <=> Holds(place, c, offer[p])
    BY DEF Undisturbed
  <2>1. offer[p] # NoTrader /\ p \notin ClosedByTaking(i)
    BY <1>1, CloseKeeps
  <2>2. ~Overlap(i, offer[p])
    BY <1>1, <2>1, TakingCloses
  <2>3. offer[p] # i /\ ~Holds(place, i, offer[p])
    BY <2>2 DEF Overlap
  <2> QED BY <1>1, <2>3, Elsewhere
<1>4. TradesAgree'
  BY <1>1, <1>2, <1>3, TouchKeeps
<1> QED BY <1>2, <1>4 DEF TradeInv

\* One thing moved by its holder, or lost, hands nothing over.
LEMMA MoveIsWhole ==
  ASSUME TradeInv, NEW i \in Item, NEW to \in Trader \cup Container \cup Square \cup {Gone},
         to # i, ~Holds(place, i, to), place' = MovedTo(place, i, to),
         \A p \in Trader : TopParent(place, i) = p => TopParent(place, to) \notin Trader \ {p}
  PROVE  WholeExchange
<1>1. Acyclic(place) /\ place \in Placement /\ TradesAgree
  BY TradeInvParts
<1>2. ASSUME NEW p \in Trader, partner[p] # NoTrader, offer[p] # NoTrader,
             TopParent(place, offer[p]) = p
      PROVE  TopParent(place', offer[p]) # partner[p]
  <2>1. partner[p] # p /\ partner[p] \in Trader /\ offer[p] \in Item
    BY <1>1, <1>2, TradeInvParts DEF TradesAgree, PartnersAgree
  <2>2. CASE offer[p] # i /\ ~Holds(place, i, offer[p])
    <3>1. TopParent(place', offer[p]) = p
      BY <1>1, <1>2, <2>2, Elsewhere
    <3> QED BY <2>1, <3>1
  <2>3. CASE offer[p] = i \/ Holds(place, i, offer[p])
    <3>1. TopParent(place', offer[p]) = TopParent(place, to)
      BY <1>1, <2>1, <2>3, MovedInto
    <3>2. TopParent(place, i) = p
      BY <1>1, <1>2, <2>1, <2>3, SameTop
    <3> QED BY <2>1, <3>1, <3>2
  <2> QED BY <2>2, <2>3
<1> QED BY <1>2 DEF WholeExchange

LEMMA StillWhole ==
  ASSUME TradeInv, UNCHANGED place
  PROVE  WholeExchange
<1>1. ASSUME NEW p \in Trader, partner[p] # NoTrader PROVE partner[p] # p
  BY <1>1, TradeInvParts DEF TradesAgree, PartnersAgree
<1> QED BY <1>1 DEF WholeExchange

LEMMA RemoveItemKeeps ==
  ASSUME TradeInv, NEW i \in Item, RemoveItem(i)
  PROVE  TradeInv' /\ WholeExchange
<1> DEFINE players == ClosedByTaking(i)
<1>1. TradesAgree /\ Gone \notin Item /\ Gone \notin Trader /\ Gone \notin Container
  BY TradeInvParts, TradeFacts
<1>2. /\ Close(players) /\ players \in SUBSET Trader /\ UNCHANGED <<traders, square>>
      /\ place' = MovedTo(place, i, Gone)
  BY <1>1, ClosedAre DEF RemoveItem, MovedTo
<1>3. Gone # i /\ ~Holds(place, i, Gone) /\ TopParent(place, Gone) = Gone
  <2>1. Gone # i
    BY <1>1
  <2> QED BY <1>1, <2>1, OutOfItems
<1>4. Room(place, Gone)
  BY <1>1, RoomIs
<1> HIDE DEF players
<1>5. TradeInv'
  BY <1>2, <1>3, <1>4, TakeKeeps DEF players
<1>6. WholeExchange
  BY <1>1, <1>2, <1>3, MoveIsWhole
<1> QED BY <1>5, <1>6

LEMMA MoveItemKeeps ==
  ASSUME TradeInv, NEW p \in Trader, NEW i \in Item, NEW to \in Container \cup Square \cup {p},
         MoveItem(p, i, to)
  PROVE  TradeInv' /\ WholeExchange
<1> DEFINE players == ClosedByTaking(i) \cup ClosedByPutting(i, to)
<1>1. TradesAgree /\ to \in Trader \cup Container \cup Square \cup {Gone}
  BY TradeInvParts
<1>2. /\ Close(players) /\ players \in SUBSET Trader /\ UNCHANGED <<traders, square>>
      /\ ClosedByTaking(i) \subseteq players
      /\ place' = MovedTo(place, i, to) /\ Room(place, to) /\ to # i
      /\ TopParent(place, i) \in Square \cup {p}
  BY <1>1, ClosedAre DEF MoveItem, MovedTo
<1>3. ~Holds(place, i, to) /\ TopParent(place, to) \in Square \cup {p}
  <2>1. CASE to \in Square \cup {p}
    <3>1. to \notin Item
      BY <2>1, TradeFacts
    <3> QED BY <1>2, <2>1, <3>1, OutOfItems
  <2>2. CASE to \notin Square \cup {p}
    BY <2>2 DEF MoveItem
  <2> QED BY <2>1, <2>2
<1> HIDE DEF players
<1>4. TradeInv'
  BY <1>1, <1>2, <1>3, TakeKeeps
<1>5. \A r \in Trader : TopParent(place, i) = r => TopParent(place, to) \notin Trader \ {r}
  BY <1>2, <1>3, TradeFacts
<1>6. WholeExchange
  BY <1>1, <1>2, <1>3, <1>5, MoveIsWhole
<1> QED BY <1>4, <1>6

LEMMA PlaceStays ==
  ASSUME UNCHANGED place
  PROVE  /\ Acyclic(place)' <=> Acyclic(place)
         /\ Fits(place)' <=> Fits(place)
         /\ \A i : TopParent(place', i) = TopParent(place, i)
         /\ \A c, i : Holds(place', c, i) <=> Holds(place, c, i)
BY DEF Acyclic, Placement, Fits, Holds, Contents, Chain, TopParent

LEMMA CloseTradeKeeps ==
  ASSUME TradeInv, NEW p \in Trader, Close({p}), UNCHANGED <<traders, square, place>>
  PROVE  TradeInv' /\ WholeExchange
<1>1. TradesAgree /\ Acyclic(place) /\ Fits(place) /\ {p} \in SUBSET Trader
  BY TradeInvParts
<1>2. Undisturbed /\ Acyclic(place)' /\ Fits(place)'
  BY <1>1, PlaceStays DEF Undisturbed
<1>3. TradesAgree'
  BY <1>1, <1>2, TouchKeeps
<1>4. WholeExchange
  BY StillWhole
<1> QED BY <1>2, <1>3, <1>4 DEF TradeInv

LEMMA WalkKeeps ==
  ASSUME TradeInv, NEW p \in Trader, NEW to \in Square, Walk(p, to)
  PROVE  TradeInv' /\ WholeExchange
<1>1. /\ TradesAgree /\ Acyclic(place) /\ Fits(place) /\ square \in [Trader -> Square]
      /\ traders \subseteq Trader /\ offer \in [Trader -> Item \cup {NoTrader}]
      /\ partner \in [Trader -> Trader \cup {NoTrader}]
  BY TradeInvParts
<1>2. square' = [square EXCEPT ![p] = to] /\ UNCHANGED <<traders, place>>
  BY DEF Walk
<1>3. /\ Acyclic(place)' /\ Fits(place)' /\ \A i : TopParent(place', i) = TopParent(place, i)
      /\ \A c, i : Holds(place', c, i) <=> Holds(place, c, i)
  BY <1>1, <1>2, PlaceStays
<1>4. square' \in [Trader -> Square] /\ square'[p] = to /\ \A q \in Trader \ {p} : square'[q] = square[q]
  BY <1>1, <1>2
<1>5. WholeExchange
  BY <1>2, StillWhole
\* Players and offers agree, and those who still offer something offered it.
<1>6. /\ TradeVarsOK' /\ OffersRegistered'
      /\ \A q \in Trader :
           /\ partner'[q] = NoTrader <=> state'[q] = "none"
           /\ partner'[q] # NoTrader => partner'[q] = partner[q] /\ partner'[partner[q]] = q
           /\ offer'[q] # NoTrader => offer'[q] = offer[q]
      /\ offer'[p] # NoTrader =>
           InRange(to, IF TopParent(place, offer[p]) = p THEN to
                       ELSE Position(place, offer[p]), ItemRange)
  <2>1. CASE Close({p})
    BY <1>1, <2>1, CloseKeeps
  <2>2. CASE ~Close({p})
    <3>1. UNCHANGED tradeVars
      BY <2>2 DEF Walk
    <3>2. offer[p] # NoTrader =>
           InRange(to, IF TopParent(place, offer[p]) = p THEN to
                       ELSE Position(place, offer[p]), ItemRange)
      BY <2>2 DEF Walk
    <3>3. state' = state /\ partner' = partner /\ offer' = offer /\ tradeItems' = tradeItems
      BY <3>1 DEF tradeVars
    <3>4. TradeVarsOK' /\ OffersRegistered'
      BY <1>1, <3>3 DEF TradesAgree, TradeTypeOK, TradeVarsOK, OffersRegistered
    <3>5. \A q \in Trader :
           /\ partner[q] = NoTrader <=> state[q] = "none"
           /\ partner[q] # NoTrader => partner[partner[q]] = q
      BY <1>1 DEF TradesAgree, PartnersAgree
    <3> QED BY <3>2, <3>3, <3>4, <3>5
  <2> QED BY <2>1, <2>2
<1>7. TradeTypeOK'
  BY <1>1, <1>2, <1>3, <1>4, <1>6 DEF TradeTypeOK, TradeVarsOK, Acyclic, Placement
<1>8. PartnersAgree'
  BY <1>1, <1>2, <1>6 DEF TradesAgree, PartnersAgree
<1>9. OffersDisjoint'
  <2>1. ASSUME NEW q \in Trader, NEW r \in Trader, q # r, offer'[q] # NoTrader, offer'[r] # NoTrader
        PROVE  /\ offer'[q] # offer'[r] /\ ~Holds(place', offer'[q], offer'[r])
               /\ ~Holds(place', offer'[r], offer'[q])
    BY <1>1, <1>3, <1>6, <2>1 DEF TradesAgree, OffersDisjoint, Overlap
  <2> QED BY <2>1 DEF OffersDisjoint, Overlap
<1>10. OfferAtHand'
  <2>1. ASSUME NEW q \in Trader, offer'[q] # NoTrader
        PROVE  /\ TopParent(place', offer'[q]) \in Square \cup {q}
               /\ InRange(square'[q], Position(place, offer[q])', ItemRange)
    <3> DEFINE top == TopParent(place, offer[q])
    <3>1. /\ offer'[q] = offer[q] /\ offer[q] # NoTrader
          /\ TopParent(place', offer[q]) = top /\ top \in Square \cup {q}
          /\ InRange(square[q], Position(place, offer[q]), ItemRange)
      BY <1>1, <1>3, <1>6, <2>1, OffersAre
    <3>2. /\ Position(place, offer[q]) = IF top \in Trader THEN square[top] ELSE top
          /\ Position(place, offer[q])' = IF top \in Trader THEN square'[top] ELSE top
      BY <3>1 DEF Position
    <3> HIDE DEF top
    <3>3. top \in Trader => top = q
      BY <3>1, TradeFacts
    <3>4. CASE q # p
      BY <1>4, <3>1, <3>2, <3>3, <3>4
    <3>5. CASE q = p
      <4>1. InRange(to, IF top = p THEN to ELSE Position(place, offer[p]), ItemRange)
        BY <1>6, <2>1, <3>5 DEF top
      <4>2. square'[q] = to
        BY <1>4, <3>5
      <4>3. CASE top = p
        <5>1. Position(place, offer[q])' = to
          BY <3>2, <3>5, <4>2, <4>3
        <5> QED BY <3>1, <3>5, <4>1, <4>2, <4>3, <5>1
      <4>4. CASE top # p
        <5>1. top \notin Trader
          BY <3>3, <3>5, <4>4
        <5> QED BY <3>1, <3>2, <3>5, <4>1, <4>2, <4>4, <5>1
      <4> QED BY <4>3, <4>4
    <3> QED BY <3>4, <3>5
  <2> QED BY <1>6, <2>1 DEF OfferAtHand, Position
<1> QED BY <1>3, <1>5, <1>6, <1>7, <1>8, <1>9, <1>10 DEF TradeInv, TradesAgree

\* What TradesAgree says of players and offers, when no thing and nobody moves.
LEMMA BooksOnly ==
  ASSUME TradeInv, UNCHANGED <<square, place>>, traders' \subseteq Trader, TradeVarsOK',
         PartnersAgree', OffersRegistered',
         \A p, q \in Trader : p # q /\ offer'[p] # NoTrader /\ offer'[q] # NoTrader =>
           ~Overlap(offer'[p], offer'[q]),
         \A p \in Trader : offer'[p] # NoTrader =>
           /\ TopParent(place, offer'[p]) \in Square \cup {p}
           /\ InRange(square[p], Position(place, offer'[p]), ItemRange)
  PROVE  TradeInv' /\ WholeExchange
<1>1. Acyclic(place) /\ Fits(place) /\ square \in [Trader -> Square]
  BY TradeInvParts
<1>2. /\ Acyclic(place)' /\ Fits(place)' /\ \A i : TopParent(place', i) = TopParent(place, i)
      /\ \A c, i : Holds(place', c, i) <=> Holds(place, c, i)
  BY <1>1, PlaceStays
<1>3. TradeTypeOK'
  BY <1>1, <1>2 DEF TradeTypeOK, TradeVarsOK, Acyclic, Placement
<1>4. OffersDisjoint'
  BY <1>2 DEF OffersDisjoint, Overlap
<1>5. OfferAtHand'
  BY <1>2 DEF OfferAtHand, Position
<1>6. WholeExchange
  BY StillWhole
<1> QED BY <1>2, <1>3, <1>4, <1>5, <1>6 DEF TradeInv, TradesAgree

LEMMA OffersStand ==
  ASSUME TradeInv, \A p \in Trader : offer'[p] # NoTrader => offer'[p] = offer[p]
  PROVE  /\ \A p, q \in Trader : p # q /\ offer'[p] # NoTrader /\ offer'[q] # NoTrader =>
              ~Overlap(offer'[p], offer'[q])
         /\ \A p \in Trader : offer'[p] # NoTrader =>
              /\ TopParent(place, offer'[p]) \in Square \cup {p}
              /\ InRange(square[p], Position(place, offer'[p]), ItemRange)
BY TradeInvParts DEF TradesAgree, OffersDisjoint, OfferAtHand

LEMMA AcceptFirstKeeps ==
  ASSUME TradeInv, NEW p \in Trader, AcceptFirst(p)
  PROVE  TradeInv' /\ WholeExchange
<1>1. /\ UNCHANGED <<traders, square, place, partner, offer, tradeItems>>
      /\ state' = [state EXCEPT ![p] = "accept"] /\ state[p] \in {"acknowledge", "initiated"}
  BY DEF AcceptFirst
<1>2. TradesAgree /\ traders \subseteq Trader
  BY TradeInvParts
<1>3. state \in [Trader -> {"none", "initiated", "acknowledge", "accept"}]
  BY <1>2 DEF TradesAgree, TradeTypeOK
<1>4. \A q \in Trader : state'[q] = IF q = p THEN "accept" ELSE state[q]
  BY <1>1, <1>3
<1>5. TradeVarsOK'
  BY <1>1, <1>2, <1>3 DEF TradesAgree, TradeTypeOK, TradeVarsOK
<1>6. PartnersAgree'
  BY <1>1, <1>2, <1>4 DEF TradesAgree, PartnersAgree
<1>7. OffersRegistered'
  BY <1>1, <1>2, <1>4 DEF TradesAgree, OffersRegistered
<1>8. \A q \in Trader : offer'[q] # NoTrader => offer'[q] = offer[q]
  BY <1>1
<1> QED BY <1>1, <1>2, <1>5, <1>6, <1>7, <1>8, OffersStand, BooksOnly

LEMMA LoginLogoutKeep ==
  ASSUME TradeInv, NEW p \in Trader, TraderLogin(p) \/ TraderLogout(p)
  PROVE  TradeInv' /\ WholeExchange
<1>1. TradesAgree /\ traders \subseteq Trader /\ {p} \in SUBSET Trader
  BY TradeInvParts
<1>2. UNCHANGED <<square, place>> /\ traders' \subseteq Trader
  BY <1>1 DEF TraderLogin, TraderLogout
<1>3. \A q \in Trader : /\ partner[q] = NoTrader <=> state[q] = "none"
                        /\ partner[q] # NoTrader => /\ partner[q] # q
                                                    /\ {q, partner[q]} \subseteq traders
                                                    /\ partner[partner[q]] = q
  BY <1>1 DEF TradesAgree, PartnersAgree
<1>4. CASE UNCHANGED tradeVars
  <2>1. state' = state /\ partner' = partner /\ offer' = offer /\ tradeItems' = tradeItems
    BY <1>4 DEF tradeVars
  <2>2. TradeVarsOK' /\ OffersRegistered'
    BY <1>1, <2>1 DEF TradesAgree, TradeTypeOK, TradeVarsOK, OffersRegistered
  <2>3. PartnersAgree'
    <3>1. CASE TraderLogin(p)
      BY <1>3, <2>1, <3>1 DEF TraderLogin, PartnersAgree
    <3>2. CASE TraderLogout(p) /\ partner[p] = NoTrader
      <4>1. traders' = traders \ {p}
        BY <3>2 DEF TraderLogout
      <4>2. ASSUME NEW q \in Trader, partner[q] # NoTrader PROVE q # p /\ partner[q] # p
        <5>1. NoTrader \notin Trader
          BY TradeFacts
        <5> QED BY <1>3, <3>2, <4>2, <5>1
      <4> QED BY <1>3, <2>1, <4>1, <4>2 DEF PartnersAgree
    <3>3. CASE TraderLogout(p) /\ partner[p] # NoTrader
      <4>1. Close({p})
        BY <3>3 DEF TraderLogout
      <4>2. partner'[p] = NoTrader
        BY <1>1, <4>1, CloseKeeps
      <4> QED BY <2>1, <3>3, <4>2
    <3> QED BY <3>1, <3>2, <3>3
  <2>4. \A q \in Trader : offer'[q] # NoTrader => offer'[q] = offer[q]
    BY <2>1
  <2> QED BY <1>2, <2>2, <2>3, <2>4, OffersStand, BooksOnly
<1>5. CASE TraderLogout(p) /\ Close({p})
  <2>1. traders' = traders \ {p}
    BY <1>5 DEF TraderLogout
  <2>2. /\ TradeVarsOK' /\ OffersRegistered'
        /\ \A q \in Trader :
             /\ partner'[q] = NoTrader <=> state'[q] = "none"
             /\ partner'[q] # NoTrader => /\ partner'[q] = partner[q]
                                          /\ partner'[partner[q]] = q
                                          /\ q \notin {p} /\ partner[q] \notin {p}
             /\ offer'[q] # NoTrader => offer'[q] = offer[q]
    BY <1>1, <1>5, CloseKeeps
  <2>3. PartnersAgree'
    BY <1>3, <2>1, <2>2 DEF PartnersAgree
  <2> QED BY <1>2, <2>2, <2>3, OffersStand, BooksOnly
<1> QED BY <1>4, <1>5 DEF TraderLogin, TraderLogout

LEMMA RequestTradeKeeps ==
  ASSUME TradeInv, NEW p \in Trader, NEW q \in Trader, NEW i \in Item, RequestTrade(p, q, i)
  PROVE  TradeInv' /\ WholeExchange
<1>1. /\ TradesAgree /\ traders \subseteq Trader /\ offer \in [Trader -> Item \cup {NoTrader}]
      /\ partner \in [Trader -> Trader \cup {NoTrader}]
  BY TradeInvParts
<1>2. /\ state \in [Trader -> {"none", "initiated", "acknowledge", "accept"}]
      /\ tradeItems \in [Item -> Trader \cup {NoTrader}]
      /\ NoTrader \notin Trader /\ NoTrader \notin Item
  BY <1>1, TradeFacts DEF TradesAgree, TradeTypeOK
<1>3. /\ {p, q} \subseteq traders /\ p # q /\ UNCHANGED <<traders, square, place>>
      /\ TopParent(place, i) \in Square \cup {p}
      /\ InRange(square[p], Position(place, i), ItemRange)
      /\ NotTraded(i)
      /\ state[p] = "none" \/ (state[p] = "acknowledge" /\ partner[p] = q)
      /\ state[q] = "none" \/ partner[q] = p
  BY DEF RequestTrade, StartTrade
<1>4. /\ state' = [state EXCEPT ![p] = "initiated",
                                ![q] = IF @ = "none" THEN "acknowledge" ELSE @]
      /\ partner' = [partner EXCEPT ![p] = q, ![q] = p]
      /\ offer' = [offer EXCEPT ![p] = i]
      /\ tradeItems' = [tradeItems EXCEPT ![i] = p]
  BY DEF RequestTrade, StartTrade
<1>5. /\ state'[p] = "initiated"
      /\ state'[q] = IF state[q] = "none" THEN "acknowledge" ELSE state[q]
      /\ partner'[p] = q /\ partner'[q] = p
      /\ \A r \in Trader \ {p, q} : state'[r] = state[r] /\ partner'[r] = partner[r]
      /\ offer'[p] = i /\ \A r \in Trader \ {p} : offer'[r] = offer[r]
      /\ tradeItems'[i] = p /\ \A j \in Item \ {i} : tradeItems'[j] = tradeItems[j]
  BY <1>1, <1>2, <1>3, <1>4
<1>6. \A r \in Trader : /\ partner[r] = NoTrader <=> state[r] = "none"
                        /\ partner[r] # NoTrader => /\ partner[r] # r
                                                    /\ {r, partner[r]} \subseteq traders
                                                    /\ partner[partner[r]] = r
  BY <1>1 DEF TradesAgree, PartnersAgree
<1>7. /\ \A j \in Item, r \in Trader : tradeItems[j] = r <=> offer[r] = j
      /\ \A r \in Trader : /\ state[r] = "initiated" => offer[r] # NoTrader
                           /\ offer[r] # NoTrader => state[r] \in {"initiated", "accept"}
  BY <1>1 DEF TradesAgree, OffersRegistered
<1>8. \A r \in Trader : offer[r] # NoTrader => r # p /\ offer[r] # i /\ ~Overlap(i, offer[r])
  <2> SUFFICES ASSUME NEW r \in Trader, offer[r] # NoTrader
               PROVE  r # p /\ offer[r] # i /\ ~Overlap(i, offer[r])
    OBVIOUS
  <2>1. r # p
    BY <1>3, <1>7
  <2>2. offer[r] \in Item /\ tradeItems[offer[r]] # NoTrader
    BY <1>1, <1>2, <1>7
  <2>3. ~Overlap(i, offer[r])
    BY <1>3, <2>2 DEF NotTraded
  <2> QED BY <2>1, <2>3 DEF Overlap
<1>9. TradeVarsOK'
  BY <1>1, <1>2, <1>4 DEF TradeVarsOK
<1>10. PartnersAgree'
  <2>1. ASSUME NEW r \in Trader
        PROVE  /\ partner'[r] = NoTrader <=> state'[r] = "none"
               /\ partner'[r] # NoTrader => /\ partner'[r] # r
                                            /\ {r, partner'[r]} \subseteq traders
                                            /\ partner'[partner'[r]] = r
    <3>1. CASE r = p \/ r = q
      BY <1>2, <1>3, <1>5, <3>1
    <3>2. CASE r # p /\ r # q
      <4>1. partner'[r] = partner[r] /\ state'[r] = state[r]
        BY <1>5, <3>2
      <4>2. partner[r] # NoTrader => partner[r] # p /\ partner[r] # q
        BY <1>2, <1>3, <1>6, <3>2
      <4>3. partner[r] # NoTrader => partner'[partner[r]] = r
        BY <1>1, <1>5, <1>6, <4>2
      <4> QED BY <1>6, <4>1, <4>3
    <3> QED BY <3>1, <3>2
  <2> QED BY <1>3, <2>1 DEF PartnersAgree
<1>11. OffersRegistered'
  <2>1. ASSUME NEW j \in Item, NEW r \in Trader PROVE tradeItems'[j] = r <=> offer'[r] = j
    <3>1. CASE r = p
      <4>1. offer[p] = NoTrader
        BY <1>8
      <4> QED BY <1>2, <1>5, <1>7, <3>1, <4>1
    <3>2. CASE r # p
      <4>1. offer'[r] = offer[r] /\ offer[r] # i
        BY <1>2, <1>5, <1>8, <3>2
      <4> QED BY <1>5, <1>7, <3>2, <4>1
    <3> QED BY <3>1, <3>2
  <2>2. ASSUME NEW r \in Trader
        PROVE  /\ state'[r] = "initiated" => offer'[r] # NoTrader
               /\ offer'[r] # NoTrader => state'[r] \in {"initiated", "accept"}
    <3>1. CASE r = p
      BY <1>2, <1>5, <3>1
    <3>2. CASE r = q
      BY <1>3, <1>5, <1>7, <3>2
    <3>3. CASE r # p /\ r # q
      BY <1>5, <1>7, <3>3
    <3> QED BY <3>1, <3>2, <3>3
  <2> QED BY <2>1, <2>2 DEF OffersRegistered
<1>12. \A r, s \in Trader : r # s /\ offer'[r] # NoTrader /\ offer'[s] # NoTrader =>
         ~Overlap(offer'[r], offer'[s])
  <2> SUFFICES ASSUME NEW r \in Trader, NEW s \in Trader, r # s,
                      offer'[r] # NoTrader, offer'[s] # NoTrader
               PROVE  ~Overlap(offer'[r], offer'[s])
    OBVIOUS
  <2>1. CASE r # p /\ s # p
    BY <1>1, <1>5, <2>1 DEF TradesAgree, OffersDisjoint
  <2>2. CASE r = p
    BY <1>5, <1>8, <2>2
  <2>3. CASE s = p
    <3>1. ~Overlap(i, offer[r]) /\ offer'[r] = offer[r] /\ offer'[s] = i
      BY <1>5, <1>8, <2>3
    <3> QED BY <3>1 DEF Overlap
  <2> QED BY <2>1, <2>2, <2>3
<1>13. \A r \in Trader : offer'[r] # NoTrader =>
         /\ TopParent(place, offer'[r]) \in Square \cup {r}
         /\ InRange(square[r], Position(place, offer'[r]), ItemRange)
  BY <1>1, <1>3, <1>5 DEF TradesAgree, OfferAtHand
<1>14. UNCHANGED <<square, place>> /\ traders' \subseteq Trader
  BY <1>1, <1>3
<1> QED BY <1>9, <1>10, <1>11, <1>12, <1>13, <1>14, BooksOnly

-----------------------------------------------------------------------------
(* The exchange *)

LEMMA DestinationsAre ==
  ASSUME NEW pl, NEW r \in Trader, NEW i \in Item, NEW h \in Destinations(pl, r, i)
  PROVE  /\ h \in Trader \cup Container \cup Square \cup {Gone}
         /\ h # i /\ ~Holds(pl, i, h) /\ TopParent(pl, h) = r /\ Room(pl, h)
<1>1. CASE h = r
  <2>1. r \notin Item /\ r # i
    BY TradeFacts
  <2> QED BY <1>1, <2>1, OutOfItems DEF Destinations
<1>2. CASE h # r
  BY <1>2 DEF Destinations
<1> QED BY <1>1, <1>2

\* The partner's item can go to where the first one was, when that was in the
\* inventory of the player who gave it: so the second move does not fail.
LEMMA RoomForBoth ==
  ASSUME TradeInv, NEW p \in Trader, NEW q \in Trader, p # q, NEW i \in Item, NEW j \in Item,
         offer[p] = i, offer[q] = j, TopParent(place, i) = p,
         NEW to \in Destinations(place, q, i)
  PROVE  Destinations(MovedTo(place, i, to), p, j) # {}
<1> DEFINE k == place[i]
           M == MovedTo(place, i, to)
<1>1. Acyclic(place) /\ place \in Placement /\ Fits(place) /\ TradesAgree
  BY TradeInvParts
<1>2. /\ to \in Trader \cup Container \cup Square \cup {Gone}
      /\ to # i /\ ~Holds(place, i, to) /\ TopParent(place, to) = q
  BY DestinationsAre
<1>3. TopParent(place, k) = p /\ to # k
  BY <1>1, <1>2, OneUp
<1>4. Room(M, k) /\ M[i] = to
  BY <1>1, <1>2, <1>3, RoomLeft, MovedIs
<1>5. CASE k \notin Item
  <2>1. k = p
    BY <1>3, <1>5, OutOfItems
  <2> HIDE DEF M
  <2>2. p \in Destinations(M, p, j)
    BY <1>4, <2>1 DEF Destinations
  <2> QED BY <2>2 DEF M
<1>6. CASE k \in Item
  <2>1. k \in Container
    BY <1>1, <1>6, TradeFacts DEF Placement
  <2>2. k # i /\ ~Holds(place, i, k)
    <3>1. ~Holds(place, i, i)
      BY <1>1 DEF Acyclic
    <3> QED BY <1>1, <3>1, OneUp
  <2>3. TopParent(M, k) = p /\ \A c : Holds(M, c, k) <=> Holds(place, c, k)
    BY <1>1, <1>2, <1>3, <2>2, Elsewhere
  <2>4. ~Holds(place, j, i)
    <3>1. i # NoTrader /\ j # NoTrader
      BY TradeFacts
    <3> QED BY <1>1, <3>1 DEF TradesAgree, OffersDisjoint, Overlap
  <2>5. k # j /\ ~Holds(M, j, k)
    BY <1>1, <2>3, <2>4, OneUp
  <2>6. to # p
    <3>1. TopParent(place, p) = p
      BY TradeFacts, OutOfItems
    <3> QED BY <1>2, <3>1
  <2> HIDE DEF M, k
  <2>7. k \in Destinations(M, p, j)
    BY <1>4, <2>1, <2>3, <2>5, <2>6 DEF Destinations
  <2> QED BY <2>7 DEF M
<1> QED BY <1>5, <1>6

LEMMA ExchangeKeeps ==
  ASSUME TradeInv, NEW p \in Trader, NEW q \in Trader, p # q, NEW i \in Item, NEW j \in Item,
         partner[p] = q, partner[q] = p, offer[p] = i, offer[q] = j,
         Exchange(p, q, i, j), UNCHANGED <<traders, square>>,
         Close({p, q} \cup ClosedByTaking(i) \cup ClosedByTaking(j))
  PROVE  TradeInv' /\ WholeExchange
<1> DEFINE players == {p, q} \cup ClosedByTaking(i) \cup ClosedByTaking(j)
<1>1. Acyclic(place) /\ place \in Placement /\ Fits(place) /\ TradesAgree
  BY TradeInvParts
<1>2. i # j /\ ~Holds(place, i, j) /\ ~Holds(place, j, i)
  <2>1. i # NoTrader /\ j # NoTrader
    BY TradeFacts
  <2> QED BY <1>1, <2>1 DEF TradesAgree, OffersDisjoint, Overlap
<1>3. PICK to \in Destinations(place, q, i) :
        /\ to # j /\ ~Holds(place, j, to)
        /\ IF Destinations(MovedTo(place, i, to), p, j) = {}
           THEN place' = MovedTo(place, i, to)
           ELSE \E to2 \in Destinations(MovedTo(place, i, to), p, j) :
                  place' = MovedTo(MovedTo(place, i, to), j, to2)
  BY DEF Exchange, MovedTo
<1> DEFINE M == MovedTo(place, i, to)
<1>4. /\ to \in Trader \cup Container \cup Square \cup {Gone}
      /\ to # i /\ ~Holds(place, i, to) /\ TopParent(place, to) = q /\ Room(place, to)
  BY DestinationsAre
<1>5. Acyclic(M) /\ Fits(M) /\ M \in Placement
  <2>1. Acyclic(M) /\ Fits(M)
    BY <1>1, <1>4, MovedAcyclic, FitsMoved
  <2> QED BY <2>1 DEF Acyclic
<1>6. TopParent(M, i) = q /\ ~Holds(M, j, i)
  BY <1>1, <1>3, <1>4, MovedInto
<1>7. \A x : x # i /\ ~Holds(place, i, x) =>
        TopParent(M, x) = TopParent(place, x) /\ \A c : Holds(M, c, x) <=> Holds(place, c, x)
  BY <1>1, <1>4, Elsewhere
<1>8. /\ Acyclic(place') /\ Fits(place') /\ TopParent(place', i) = q
      /\ TopParent(place, i) = p => TopParent(place', j) = p
      /\ \A x : x # i /\ ~Holds(place, i, x) /\ x # j /\ ~Holds(place, j, x) =>
                  /\ TopParent(place', x) = TopParent(place, x)
                  /\ \A c : Holds(place', c, x) <=> Holds(place, c, x)
  <2>1. CASE Destinations(M, p, j) = {}
    <3>1. place' = M /\ TopParent(place, i) # p
      BY <1>3, <2>1, RoomForBoth
    <3> HIDE DEF M
    <3> QED BY <1>5, <1>6, <1>7, <3>1
  <2>2. CASE Destinations(M, p, j) # {}
    <3>1. PICK to2 \in Destinations(M, p, j) : place' = MovedTo(M, j, to2)
      BY <1>3, <2>2
    <3> HIDE DEF M
    <3>2. /\ to2 \in Trader \cup Container \cup Square \cup {Gone}
          /\ to2 # j /\ ~Holds(M, j, to2) /\ TopParent(M, to2) = p /\ Room(M, to2)
      BY DestinationsAre
    <3>3. Acyclic(place') /\ Fits(place')
      BY <1>5, <3>1, <3>2, MovedAcyclic, FitsMoved
    <3>4. TopParent(place', j) = p
      BY <1>5, <3>1, <3>2, MovedInto
    <3>5. \A x : x # j /\ ~Holds(M, j, x) =>
            TopParent(place', x) = TopParent(M, x) /\ \A c : Holds(place', c, x) <=> Holds(M, c, x)
      BY <1>5, <3>1, <3>2, Elsewhere
    <3>6. TopParent(place', i) = q
      BY <1>2, <1>6, <3>5
    <3>7. ASSUME NEW x, x # i, ~Holds(place, i, x), x # j, ~Holds(place, j, x)
          PROVE  /\ TopParent(place', x) = TopParent(place, x)
                 /\ \A c : Holds(place', c, x) <=> Holds(place, c, x)
      BY <1>7, <3>5, <3>7
    <3> QED BY <3>3, <3>4, <3>6, <3>7
  <2> QED BY <2>1, <2>2
<1>9. players \in SUBSET Trader /\ ClosedByTaking(i) \subseteq players /\ ClosedByTaking(j) \subseteq players
  BY <1>1, ClosedAre
<1> HIDE DEF M
<1>10. Undisturbed
  <2> SUFFICES ASSUME NEW r \in Trader, offer'[r] # NoTrader
               PROVE  /\ TopParent(place', offer[r]) = TopParent(place, offer[r])
                      /\ \A c : Holds(place', c, offer[r]) <=> Holds(place, c, offer[r])
    BY DEF Undisturbed
  <2>1. offer[r] # NoTrader /\ r \notin players
    <3> HIDE DEF players
    <3>1. Close(players)
      BY DEF players
    <3> QED BY <1>1, <1>9, <3>1, CloseKeeps
  <2>2. ~Overlap(i, offer[r]) /\ ~Overlap(j, offer[r])
    BY <1>1, <1>9, <2>1, TakingCloses
  <2> QED BY <1>8, <2>2 DEF Overlap
<1>11. Acyclic(place)' /\ Fits(place)'
  BY <1>8 DEF Acyclic, Placement, Fits, Contents, Holds, Chain
<1>12. TradesAgree'
  <2> HIDE DEF players
  <2>1. Close(players)
    BY DEF players
  <2> QED BY <1>1, <1>9, <1>10, <1>11, <2>1, TouchKeeps
<1>13. WholeExchange
  <2> SUFFICES ASSUME NEW r \in Trader, partner[r] # NoTrader, offer[r] # NoTrader,
                      TopParent(place, offer[r]) = r,
                      TopParent(place', offer[r]) = partner[r]
               PROVE  /\ offer[partner[r]] # NoTrader
                      /\ TopParent(place', offer[partner[r]]) = partner[partner[r]]
    BY <1>1 DEF WholeExchange, TradesAgree, PartnersAgree
  <2>1. i # NoTrader /\ j # NoTrader
    BY TradeFacts
  <2>2. CASE r = p
    BY <1>8, <2>1, <2>2
  <2>3. CASE r = q
    BY <1>8, <2>1, <2>3
  <2>4. CASE r # p /\ r # q
    <3>1. ~Overlap(i, offer[r]) /\ ~Overlap(j, offer[r])
      BY <1>1, <2>1, <2>4 DEF TradesAgree, OffersDisjoint
    <3>2. TopParent(place', offer[r]) = r
      BY <1>8, <3>1 DEF Overlap
    <3>3. partner[r] # r
      BY <1>1 DEF TradesAgree, PartnersAgree
    <3> QED BY <3>2, <3>3
  <2> QED BY <2>2, <2>3, <2>4
<1> QED BY <1>11, <1>12, <1>13 DEF TradeInv

LEMMA AcceptSecondKeeps ==
  ASSUME TradeInv, NEW p \in Trader, AcceptSecond(p)
  PROVE  TradeInv' /\ WholeExchange
<1> DEFINE q == partner[p]
           i == offer[p]
           j == offer[q]
<1>1. UNCHANGED <<traders, square>> /\ state[p] \in {"acknowledge", "initiated"}
  BY DEF AcceptSecond
<1>2. q \in Trader /\ q # p /\ partner[q] = p /\ q # NoTrader
  <2>1. \A r \in Trader : partner[r] \in Trader \cup {NoTrader}
    BY TradeInvParts
  <2>2. partner[p] # NoTrader
    BY <1>1, TradeInvParts DEF TradesAgree, PartnersAgree
  <2> QED BY <2>1, <2>2, TradeInvParts DEF TradesAgree, PartnersAgree
<1>3. \A r \in Trader : offer[r] \in Item \cup {NoTrader}
  BY TradeInvParts
<1>4. CASE Close({p}) /\ UNCHANGED place
  BY <1>1, <1>4, CloseTradeKeeps
<1>5. CASE /\ i # NoTrader /\ j # NoTrader /\ Exchange(p, q, i, j)
           /\ Close({p, q} \cup ClosedByTaking(i) \cup ClosedByTaking(j))
  <2>1. i \in Item /\ j \in Item
    BY <1>2, <1>3, <1>5
  <2>2. partner[p] = q /\ offer[p] = i /\ offer[q] = j
    OBVIOUS
  <2> HIDE DEF q, i, j
  <2> QED BY <1>1, <1>2, <1>5, <2>1, <2>2, ExchangeKeeps
<1> QED BY <1>4, <1>5 DEF AcceptSecond

-----------------------------------------------------------------------------
(* All of them *)

LEMMA TradeInvInductive ==
  ASSUME TradeInv, TradeNext
  PROVE  TradeInv' /\ WholeExchange
<1>1. PICK p \in Trader :
        \/ Accept(p) \/ CloseTrade(p) \/ TraderLogout(p) \/ TraderLogin(p)
        \/ \E to \in Square : Walk(p, to)
        \/ \E i \in Item : \/ \E q \in Trader : RequestTrade(p, q, i)
                           \/ \E to \in Container \cup Square \cup {p} : MoveItem(p, i, to)
                           \/ RemoveItem(i)
  BY DEF TradeNext
<1>2. CASE Accept(p)
  BY <1>2, AcceptFirstKeeps, AcceptSecondKeeps DEF Accept
<1>3. CASE CloseTrade(p)
  BY <1>3, CloseTradeKeeps DEF CloseTrade
<1>4. CASE TraderLogout(p) \/ TraderLogin(p)
  BY <1>4, LoginLogoutKeep
<1>5. CASE \E to \in Square : Walk(p, to)
  BY <1>5, WalkKeeps
<1>6. CASE \E i \in Item, q \in Trader : RequestTrade(p, q, i)
  BY <1>6, RequestTradeKeeps
<1>7. CASE \E i \in Item : \E to \in Container \cup Square \cup {p} : MoveItem(p, i, to)
  BY <1>7, MoveItemKeeps
<1>8. CASE \E i \in Item : RemoveItem(i)
  BY <1>8, RemoveItemKeeps
<1> QED BY <1>1, <1>2, <1>3, <1>4, <1>5, <1>6, <1>7, <1>8

LEMMA TradeInvHolds ==
  /\ TradeInit => TradeInv
  /\ TradeInv => TradesAgree
<1> SUFFICES ASSUME TradeInit PROVE TradeInv
  BY DEF TradeInv
<1>1. /\ traders = Trader /\ square \in [Trader -> Square] /\ place \in [Item -> Trader]
      /\ \A p \in Trader : Cardinality(Contents(place, p)) <= Slots
      /\ state = [p \in Trader |-> "none"] /\ partner = [p \in Trader |-> NoTrader]
      /\ offer = [p \in Trader |-> NoTrader] /\ tradeItems = [i \in Item |-> NoTrader]
  BY DEF TradeInit
<1>2. ASSUME NEW i \in Item PROVE ~Holds(place, i, i)
  <2>1. Deep \in Nat /\ place[i] \notin Item
    BY <1>1, TradeFacts
  <2> DEFINE z == 1
             f == Chain(place, i)
  <2>2. z \in 0..(Deep + 1) /\ f[z] = Up(place, f[z - 1]) /\ f[z - 1] = i
        /\ \A n \in 1..(Deep + 1) : n \in z..(Deep + 1)
    <3>1. z \in 1..(Deep + 1) /\ z - 1 = 0
      BY <2>1
    <3>2. f[z] = Up(place, f[z - 1]) /\ f[0] = i
      BY <3>1, ChainIs
    <3> QED BY <2>1, <3>1, <3>2
  <2>3. f[z] = place[i]
    BY <2>2 DEF Up
  <2> HIDE DEF z, f
  <2>4. \A n \in 1..(Deep + 1) : f[n] = place[i]
    BY <2>1, <2>2, <2>3, ChainStays DEF f
  <2> QED BY <2>1, <2>4, HoldsIs DEF f
<1>3. Acyclic(place)
  BY <1>1, <1>2 DEF Acyclic, Placement
<1>4. Fits(place)
  <2>1. ASSUME NEW c \in Container PROVE Cardinality(Contents(place, c)) <= Capacity
    <3>1. Contents(place, c) = {}
      BY <1>1, TradeFacts DEF Contents
    <3> QED BY <3>1, TradeFacts, FS_EmptySet
  <2> QED BY <1>1, <2>1 DEF Fits
<1>5. NoTrader \notin Trader /\ NoTrader \notin Item
  BY TradeFacts
<1>6. TradeTypeOK
  BY <1>1, <1>3, TradeTypeIs
<1>7. PartnersAgree /\ OffersRegistered /\ OffersDisjoint /\ OfferAtHand
  BY <1>1, <1>5 DEF PartnersAgree, OffersRegistered, OffersDisjoint, OfferAtHand
<1> QED BY <1>4, <1>6, <1>7 DEF TradeInv, TradesAgree

LEMMA TradeInvStays ==
  ASSUME TradeInv, UNCHANGED allTradeVars
  PROVE  TradeInv'
<1>1. UNCHANGED <<traders, square, place, state, partner, offer, tradeItems>>
  BY DEF allTradeVars, tradeVars
<1>2. TradesAgree /\ traders \subseteq Trader
  BY TradeInvParts
<1>3. TradeVarsOK' /\ PartnersAgree' /\ OffersRegistered'
  BY <1>1, <1>2 DEF TradesAgree, TradeTypeOK, TradeVarsOK, PartnersAgree, OffersRegistered
<1>4. \A p \in Trader : offer'[p] # NoTrader => offer'[p] = offer[p]
  BY <1>1
<1> QED BY <1>1, <1>2, <1>3, <1>4, OffersStand, BooksOnly

\* Trades alone: both sides of every trade agree with the map of offered items
\* and with where the items are, and no exchange is half done, whatever
\* players do with their things and in whatever order.
THEOREM TradesStaySound == TradeSpec => []TradesAgree /\ [][WholeExchange]_allTradeVars
<1>1. TradeInit => TradeInv
  BY TradeInvHolds
<1>2. TradeInv /\ [TradeNext]_allTradeVars => TradeInv' /\ [WholeExchange]_allTradeVars
  <2> SUFFICES ASSUME TradeInv, [TradeNext]_allTradeVars
               PROVE  TradeInv' /\ [WholeExchange]_allTradeVars
    OBVIOUS
  <2>1. CASE TradeNext
    BY <2>1, TradeInvInductive
  <2>2. CASE UNCHANGED allTradeVars
    <3>1. TradeInv'
      BY <2>2, TradeInvStays
    <3> QED BY <2>2, <3>1
  <2> QED BY <2>1, <2>2
<1>3. TradeInv => TradesAgree
  BY TradeInvHolds
<1> QED BY <1>1, <1>2, <1>3, PTL DEF TradeSpec

(***************************************************************************)
(* All components at work in MCParties                                     *)
(***************************************************************************)

RunInv == /\ part = "houses" => HouInv(hou)
          /\ part = "chat" => ChatInv(chat)
          /\ part = "party" => PartyInv
          /\ part = "trade" => TradeInv

LEMMA RunInvInductive ==
  ASSUME RunInv, [PartiesNext]_<<part, allPartyVars, allTradeVars, hou, chat>>
  PROVE  RunInv'
<1>1. part' = part
  BY DEF PartiesNext
<1>2. ASSUME part = "houses" PROVE HouInv(hou')
  <2>1. HouInv(hou) /\ (HouNext \/ hou' = hou)
    BY <1>2 DEF RunInv, PartiesNext
  <2> QED BY <2>1, HouInvInductive
<1>3. ASSUME part = "chat" PROVE ChatInv(chat')
  <2>1. ChatInv(chat) /\ (ChatNext \/ chat' = chat)
    BY <1>3 DEF RunInv, PartiesNext
  <2> QED BY <2>1, ChatInvInductive
<1>4. ASSUME part = "party" PROVE PartyInv'
  <2>1. PartyInv /\ [PartyNext]_allPartyVars
    BY <1>4 DEF RunInv, PartiesNext
  <2> QED BY <2>1, PartyInvInductive
<1>5. ASSUME part = "trade" PROVE TradeInv'
  <2>1. TradeInv /\ (TradeNext \/ UNCHANGED allTradeVars)
    BY <1>5 DEF RunInv, PartiesNext
  <2> QED BY <2>1, TradeInvInductive, TradeInvStays
<1> QED BY <1>1, <1>2, <1>3, <1>4, <1>5 DEF RunInv

LEMMA RunInvHolds ==
  /\ PartiesInit => RunInv
  /\ RunInv => HousesInOrder /\ Channels /\ Parties
<1>1. PartiesInit => RunInv
  BY HouInvHolds, ChatInvHolds, PartyInvHolds, TradeInvHolds DEF PartiesInit, RunInv
<1>2. RunInv => HousesInOrder /\ Channels /\ Parties
  BY HouInvHolds, ChatInvHolds, PartyInvHolds DEF RunInv, HousesInOrder, Channels, Parties
<1> QED BY <1>1, <1>2

LEMMA RunInvAlways == PartiesSpec => []RunInv
<1>1. PartiesInit => RunInv
  BY RunInvHolds
<1>2. RunInv /\ [PartiesNext]_<<part, allPartyVars, allTradeVars, hou, chat>> => RunInv'
  BY RunInvInductive
<1> QED BY <1>1, <1>2, PTL DEF PartiesSpec

\* Whatever owners, sub-owners, guests and sleepers do, beds and their
\* sleepers agree and nobody is in a house who may not enter it
\* (house.cpp:53-315, bed.cpp:94-250).
THEOREM RunHousesInOrder == PartiesSpec => []HousesInOrder
<1>1. RunInv => HousesInOrder
  BY RunInvHolds
<1> QED BY <1>1, RunInvAlways, PTL

\* No channel, invitation list or guild names a player who has left, and an
\* open private channel has an owner (chat.cpp:28-560, guild.cpp:26-52).
THEOREM RunChannels == PartiesSpec => []Channels
<1>1. RunInv => Channels
  BY RunInvHolds
<1> QED BY <1>1, RunInvAlways, PTL

\* The pointers between players and parties agree after every handler, and no
\* status of shared experience is stale (party.cpp:34-428).
THEOREM RunParties == PartiesSpec => []Parties
<1>1. RunInv => Parties
  BY RunInvHolds
<1> QED BY <1>1, RunInvAlways, PTL

\* The two sides of every trade, the map of offered items and the items agree
\* after every handler, and no exchange hands over only one of the two items
\* (game.cpp:2466-2854, player.cpp:1289-1385).
THEOREM RunTrades == PartiesSpec => Trades
<1> DEFINE Sound == part = "trade" => TradesAgree
           Whole == part = "trade" => WholeExchange
<1>1. RunInv => Sound
  BY TradeInvHolds DEF RunInv
<1>2. RunInv /\ [PartiesNext]_<<part, allPartyVars, allTradeVars, hou, chat>>
        => [Whole]_allTradeVars
  <2> SUFFICES ASSUME RunInv, PartiesNext, part = "trade", allTradeVars' # allTradeVars
               PROVE  WholeExchange
    OBVIOUS
  <2>1. TradeInv /\ TradeNext
    BY DEF RunInv, PartiesNext
  <2> QED BY <2>1, TradeInvInductive
<1> QED BY <1>1, <1>2, RunInvAlways, PTL DEF PartiesSpec, Trades
=============================================================================
