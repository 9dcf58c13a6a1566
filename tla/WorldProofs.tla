----------------------------- MODULE WorldProofs -----------------------------
(***************************************************************************)
(* Proofs about the game world (MCWorld): saves are whole, conditions and  *)
(* their effects agree, the marks of a fight end with it, and what decays  *)
(* keeps its books.  Each of them is proved of its component, and then,    *)
(* with what CreatureProofs says, of the runs that have the component at   *)
(* work.                                                                   *)
(***************************************************************************)
EXTENDS MCWorld, CreatureProofs, SequenceTheorems

-----------------------------------------------------------------------------
(* Saves *)

LEMMA ConcatIs ==
  ASSUME NEW S, NEW x \in Seq(S), NEW y \in Seq(S)
  PROVE  /\ x \o y \in Seq(S) /\ Len(x \o y) = Len(x) + Len(y)
         /\ \A i \in 1..Len(x) : (x \o y)[i] = x[i]
         /\ \A i \in 1..Len(y) : (x \o y)[Len(x) + i] = y[i]
  OBVIOUS

LEMMA PlanIs ==
  /\ Plan(TRUE) = <<"begin", "row", "clear items", "items", "clear depot", "depot", "commit">>
  /\ Plan(FALSE) = <<"begin", "row", "clear items", "items", "commit">>
<1> DEFINE a == "begin"
           b == "row"
           c == "clear items"
           d == "items"
           e == "clear depot"
           f == "depot"
           g == "commit"
<1>1. Plan(TRUE) = <<a, b, c, d>> \o <<e, f>> \o <<g>> /\ Plan(FALSE) = <<a, b, c, d>> \o << >> \o <<g>>
  BY DEF Plan
<1> HIDE DEF a, b, c, d, e, f, g
<1> DEFINE S == {a, b, c, d, e, f, g}
           x == <<a, b, c, d>>
           y == <<e, f>>
           n == << >>
           z == <<g>>
           p == x \o y
           t == p \o z
           u == x \o z
           v == <<a, b, c, d, e, f, g>>
           w == <<a, b, c, d, g>>
<1>2. x \in Seq(S) /\ y \in Seq(S) /\ z \in Seq(S) /\ n \in Seq(S) /\ v \in Seq(S) /\ w \in Seq(S)
  OBVIOUS
<1>3. Len(x) = 4 /\ x[1] = a /\ x[2] = b /\ x[3] = c /\ x[4] = d
  OBVIOUS
<1>4. Len(y) = 2 /\ y[1] = e /\ y[2] = f /\ Len(z) = 1 /\ z[1] = g
  OBVIOUS
<1>5. Len(v) = 7 /\ v[1] = a /\ v[2] = b /\ v[3] = c /\ v[4] = d /\ v[5] = e /\ v[6] = f /\ v[7] = g
  OBVIOUS
<1>6. Len(w) = 5 /\ w[1] = a /\ w[2] = b /\ w[3] = c /\ w[4] = d /\ w[5] = g
  OBVIOUS
<1>7. x \o n = x
  <2> HIDE DEF S
  <2> QED BY <1>2, ConcatEmptySeq
<1> HIDE DEF S, x, y, z, n, v, w
<1>8. p \in Seq(S) /\ Len(p) = 6 /\ p[1] = a /\ p[2] = b /\ p[3] = c /\ p[4] = d /\ p[5] = e /\ p[6] = f
  <2>2. /\ p \in Seq(S) /\ Len(p) = Len(x) + Len(y)
        /\ \A i \in 1..Len(x) : p[i] = x[i]
        /\ \A i \in 1..Len(y) : p[Len(x) + i] = y[i]
    BY <1>2, ConcatIs
  <2> HIDE DEF p
  <2>1. p \in Seq(S) /\ Len(p) = 6 /\ (\A i \in 1..4 : p[i] = x[i]) /\ (\A i \in 1..2 : p[4 + i] = y[i])
    BY <1>2, <1>3, <1>4, <2>2
  <2> QED BY <2>1, <1>3, <1>4
<1> HIDE DEF p
<1>9. p \in Seq(S)
  BY <1>8
<1>10. t \in Seq(S) /\ Len(t) = 7 /\ t[1] = a /\ t[2] = b /\ t[3] = c /\ t[4] = d /\ t[5] = e /\ t[6] = f /\ t[7] = g
  <2>2. /\ t \in Seq(S) /\ Len(t) = Len(p) + Len(z)
        /\ \A i \in 1..Len(p) : t[i] = p[i]
        /\ \A i \in 1..Len(z) : t[Len(p) + i] = z[i]
    BY <1>2, <1>9, ConcatIs
  <2> HIDE DEF t
  <2>1. t \in Seq(S) /\ Len(t) = 7 /\ (\A i \in 1..6 : t[i] = p[i]) /\ (\A i \in 1..1 : t[6 + i] = z[i])
    BY <1>2, <1>4, <1>8, <2>2
  <2> QED BY <2>1, <1>4, <1>8
<1>11. u \in Seq(S) /\ Len(u) = 5 /\ u[1] = a /\ u[2] = b /\ u[3] = c /\ u[4] = d /\ u[5] = g
  <2>2. /\ u \in Seq(S) /\ Len(u) = Len(x) + Len(z)
        /\ \A i \in 1..Len(x) : u[i] = x[i]
        /\ \A i \in 1..Len(z) : u[Len(x) + i] = z[i]
    BY <1>2, ConcatIs
  <2> HIDE DEF u
  <2>1. u \in Seq(S) /\ Len(u) = 5 /\ (\A i \in 1..4 : u[i] = x[i]) /\ (\A i \in 1..1 : u[4 + i] = z[i])
    BY <1>2, <1>3, <1>4, <2>2
  <2> QED BY <2>1, <1>3, <1>4
<1> HIDE DEF t, u
<1>12. t = v
  <2>1. \A i \in 1..7 : t[i] = v[i]
    BY <1>10, <1>5
  <2> QED BY <1>2, <1>10, <1>5, <2>1, SeqEqual
<1>13. u = w
  <2>1. \A i \in 1..5 : u[i] = w[i]
    BY <1>11, <1>6
  <2> QED BY <1>2, <1>11, <1>6, <2>1, SeqEqual
<1>14. t = <<a, b, c, d, e, f, g>> /\ u = <<a, b, c, d, g>>
  BY <1>12, <1>13 DEF v, w
<1>15. Plan(TRUE) = t /\ Plan(FALSE) = u
  BY <1>1, <1>7 DEF t, u, p, x, y, z, n
<1> QED BY <1>14, <1>15 DEF a, b, c, d, e, f, g

-----------------------------------------------------------------------------
(* The statements that are left of a save *)

\* Every way in which a save of a player, with or without the depot, goes on.
FullPlans ==
  {<<"begin", "row", "clear items", "items", "clear depot", "depot", "commit">>,
   <<"row", "clear items", "items", "clear depot", "depot", "commit">>,
   <<"clear items", "items", "clear depot", "depot", "commit">>,
   <<"items", "clear depot", "depot", "commit">>, <<"clear depot", "depot", "commit">>,
   <<"depot", "commit">>, <<"commit">>}
ShortPlans ==
  {<<"begin", "row", "clear items", "items", "commit">>, <<"row", "clear items", "items", "commit">>,
   <<"clear items", "items", "commit">>, <<"items", "commit">>, <<"commit">>}
Plans(touched) == IF touched THEN FullPlans ELSE ShortPlans

Following(statement, touched) ==
  IF statement = "begin" THEN "row"
  ELSE IF statement = "row" THEN "clear items"
  ELSE IF statement = "clear items" THEN "items"
  ELSE IF statement = "items" /\ touched THEN "clear depot"
  ELSE IF statement = "clear depot" THEN "depot"
  ELSE "commit"

LEMMA PlanGoesOn ==
  ASSUME NEW touched \in BOOLEAN
  PROVE  /\ Plan(touched) \in Plans(touched) /\ Head(Plan(touched)) = "begin"
         /\ \A plan \in Plans(touched) :
              /\ plan # << >>
              /\ Head(plan) \in {"begin", "row", "clear items", "items", "commit"}
                                  \cup IF touched THEN {"clear depot", "depot"} ELSE {}
              /\ Head(plan) # "commit" => /\ Tail(plan) \in Plans(touched)
                                          /\ Head(Tail(plan)) = Following(Head(plan), touched)
<1> DEFINE a == "begin"
           b == "row"
           c == "clear items"
           d == "items"
           e == "clear depot"
           f == "depot"
           g == "commit"
           t7 == <<a, b, c, d, e, f, g>>
           t6 == <<b, c, d, e, f, g>>
           t5 == <<c, d, e, f, g>>
           t4 == <<d, e, f, g>>
           t3 == <<e, f, g>>
           t2 == <<f, g>>
           t1 == <<g>>
           s5 == <<a, b, c, d, g>>
           s4 == <<b, c, d, g>>
           s3 == <<c, d, g>>
           s2 == <<d, g>>
<1>1. /\ FullPlans = {t7, t6, t5, t4, t3, t2, t1} /\ ShortPlans = {s5, s4, s3, s2, t1}
      /\ Plan(TRUE) = t7 /\ Plan(FALSE) = s5
  BY PlanIs DEF FullPlans, ShortPlans
<1>2. /\ Following(a, touched) = b /\ Following(b, touched) = c /\ Following(c, touched) = d
      /\ (touched => Following(d, touched) = e) /\ (~touched => Following(d, touched) = g) /\ Following(e, touched) = f
      /\ Following(f, touched) = g
  BY DEF Following
<1> HIDE DEF a, b, c, d, e, f, g
<1>3. /\ Tail(t7) = t6 /\ Tail(t6) = t5 /\ Tail(t5) = t4 /\ Tail(t4) = t3 /\ Tail(t3) = t2 /\ Tail(t2) = t1
      /\ Tail(s5) = s4 /\ Tail(s4) = s3 /\ Tail(s3) = s2 /\ Tail(s2) = t1
  OBVIOUS
<1>4. /\ Head(t7) = a /\ Head(t6) = b /\ Head(t5) = c /\ Head(t4) = d /\ Head(t3) = e /\ Head(t2) = f
      /\ Head(t1) = g /\ Head(s5) = a /\ Head(s4) = b /\ Head(s3) = c /\ Head(s2) = d
  OBVIOUS
<1>5. << >> \notin {t7, t6, t5, t4, t3, t2, t1, s5, s4, s3, s2}
  OBVIOUS
<1> HIDE DEF t7, t6, t5, t4, t3, t2, t1, s5, s4, s3, s2
<1> DEFINE Fits(plan) ==
             /\ plan # << >> /\ Head(plan) \in {a, b, c, d, g} \cup IF touched THEN {e, f} ELSE {}
             /\ Head(plan) # g => /\ Tail(plan) \in Plans(touched)
                                  /\ Head(Tail(plan)) = Following(Head(plan), touched)
<1>6. CASE touched
  <2>1. touched = TRUE /\ Plans(touched) = {t7, t6, t5, t4, t3, t2, t1}
    BY <1>1, <1>6 DEF Plans
  <2>2. Fits(t7)
    BY <1>2, <1>3, <1>4, <1>5, <1>6, <2>1
  <2>3. Fits(t6)
    BY <1>2, <1>3, <1>4, <1>5, <1>6, <2>1
  <2>4. Fits(t5)
    BY <1>2, <1>3, <1>4, <1>5, <1>6, <2>1
  <2>5. Fits(t4)
    BY <1>2, <1>3, <1>4, <1>5, <1>6, <2>1
  <2>6. Fits(t3)
    BY <1>2, <1>3, <1>4, <1>5, <1>6, <2>1
  <2>7. Fits(t2)
    <3>1. t2 # << >> /\ Head(t2) = f /\ Tail(t2) = t1 /\ Head(t1) = g /\ t1 \in Plans(touched)
      BY <1>3, <1>4, <1>5, <2>1
    <3> QED BY <1>2, <1>6, <3>1
  <2>8. Fits(t1)
    BY <1>2, <1>3, <1>4, <1>5, <1>6, <2>1
  <2> HIDE DEF Fits
  <2>9. \A plan \in Plans(touched) : Fits(plan)
    BY <2>1, <2>2, <2>3, <2>4, <2>5, <2>6, <2>7, <2>8
  <2> QED BY <1>1, <1>4, <2>1, <2>9 DEF Fits, a, b, c, d, e, f, g
<1>7. CASE ~touched
  <2>1. touched = FALSE /\ Plans(touched) = {s5, s4, s3, s2, t1}
    BY <1>1, <1>7 DEF Plans
  <2>2. Fits(s5)
    BY <1>2, <1>3, <1>4, <1>5, <1>7, <2>1
  <2>3. Fits(s4)
    BY <1>2, <1>3, <1>4, <1>5, <1>7, <2>1
  <2>4. Fits(s3)
    BY <1>2, <1>3, <1>4, <1>5, <1>7, <2>1
  <2>5. Fits(s2)
    BY <1>2, <1>3, <1>4, <1>5, <1>7, <2>1
  <2>6. Fits(t1)
    BY <1>2, <1>3, <1>4, <1>5, <1>7, <2>1
  <2> HIDE DEF Fits
  <2>7. \A plan \in Plans(touched) : Fits(plan)
    BY <2>1, <2>2, <2>3, <2>4, <2>5, <2>6
  <2> QED BY <1>1, <1>4, <2>1, <2>7 DEF Fits, a, b, c, d, e, f, g
<1> QED BY <1>6, <1>7

-----------------------------------------------------------------------------
(* States *)

Tables == [Store -> SUBSET (Coin \cup Letter)]

SavState ==
  [user : {"nobody", "session", "mailbox"}, player : Tables, touched : BOOLEAN,
   plan : Plans(TRUE) \cup Plans(FALSE) \cup {<< >>}, why : {"none", "stays", "leaves", "mail"}, tries : Nat,
   stored : Tables, working : Tables, open : BOOLEAN, lost : BOOLEAN, last : Tables,
   cut : BOOLEAN, torn : BOOLEAN, losses : Nat]

\* Somebody's depot that was not touched is as it was loaded, or saved; and
\* what is not torn is what was last committed.
Loaded(s) ==
  /\ s \in SavState
  /\ ~s.touched /\ s.user # "nobody" => s.player["depot"] = s.stored["depot"]
  /\ ~s.torn => s.stored = s.last

\* What the open transaction has written so far, with the next statement at hand.
Written(s, next) ==
  /\ next # "row" => s.working["row"] = s.player["row"]
  /\ next = "items" => s.working["items"] = {}
  /\ next \in {"clear depot", "depot", "commit"} => s.working["items"] = s.player["items"]
  /\ next = "depot" => s.working["depot"] = {}
  /\ next = "commit" /\ s.touched => s.working["depot"] = s.player["depot"]
  /\ ~s.touched => s.working["depot"] = s.stored["depot"]

\* A save that has begun has its transaction, or has lost it and is torn.
Saving(s) ==
  /\ s.plan \in Plans(s.touched) /\ s.user # "nobody"
  /\ s.cut => s.torn /\ ~s.open
  /\ Head(s.plan) = "begin" => ~s.open /\ ~s.cut
  /\ Head(s.plan) # "begin" => s.cut \/ (s.open /\ Written(s, Head(s.plan)))

SavGood(s) == Loaded(s) /\ ((s.plan = << >> /\ ~s.open) \/ Saving(s))

LEMMA StartIsGood ==
  ASSUME NEW s, Loaded(s), ~s.open, s.user # "nobody", NEW why \in {"stays", "leaves", "mail"}
  PROVE  SavGood(StartSave(s, why))
<1> DEFINE p == Plan(s.touched)
           t == StartSave(s, why)
<1>1. s.touched \in BOOLEAN /\ s \in SavState
  BY DEF Loaded, SavState
<1>2. p \in Plans(s.touched) /\ Head(p) = "begin"
  BY <1>1, PlanGoesOn
<1>3. p \in Plans(TRUE) \cup Plans(FALSE)
  BY <1>1, <1>2 DEF Plans
<1>4. t = [s EXCEPT !.plan = p, !.why = why, !.cut = FALSE]
  BY DEF StartSave
<1> HIDE DEF p, t
<1>5. /\ t \in SavState /\ t.plan = p /\ ~t.cut /\ t.user = s.user /\ t.touched = s.touched
      /\ t.player = s.player /\ t.stored = s.stored /\ t.torn = s.torn /\ t.last = s.last /\ t.open = s.open
  BY <1>1, <1>3, <1>4 DEF SavState
<1>6. Loaded(t)
  BY <1>5 DEF Loaded
<1>7. Saving(t)
  BY <1>2, <1>5 DEF Saving
<1> QED BY <1>6, <1>7 DEF SavGood, t

LEMMA TablesOfNothing == Nothing \in Tables
  BY DEF Nothing, Tables

LEMMA UnloadIsLoaded ==
  ASSUME NEW s, Loaded(s)
  PROVE  /\ Loaded(Unload(s)) /\ Unload(s).plan = s.plan /\ Unload(s).open = s.open
         /\ Unload(s).why = s.why
<1> DEFINE n == Nothing
           t == Unload(s)
<1>1. t = [s EXCEPT !.user = "nobody", !.player = n, !.touched = FALSE]
  BY DEF Unload
<1>2. n \in Tables
  BY TablesOfNothing
<1> HIDE DEF n, t
<1>3. /\ t \in SavState /\ t.user = "nobody" /\ t.stored = s.stored /\ t.torn = s.torn /\ t.last = s.last
      /\ t.plan = s.plan /\ t.open = s.open /\ t.why = s.why
  BY <1>1, <1>2 DEF Loaded, SavState
<1> QED BY <1>3 DEF Loaded, t

LEMMA RollBackIsLoaded ==
  ASSUME NEW s, Loaded(s)
  PROVE  /\ Loaded(RollBack(s)) /\ ~RollBack(s).open
         /\ RollBack(s).plan = s.plan /\ RollBack(s).user = s.user /\ RollBack(s).cut = s.cut
         /\ RollBack(s).torn = s.torn /\ RollBack(s).touched = s.touched
<1> DEFINE n == Nothing
           t == RollBack(s)
<1>1. t = [s EXCEPT !.open = FALSE, !.working = n]
  BY DEF RollBack
<1>2. n \in Tables
  BY TablesOfNothing
<1> HIDE DEF n, t
<1>3. /\ t \in SavState /\ ~t.open /\ t.user = s.user /\ t.stored = s.stored /\ t.torn = s.torn
      /\ t.last = s.last /\ t.plan = s.plan /\ t.touched = s.touched /\ t.player = s.player /\ t.cut = s.cut
  BY <1>1, <1>2 DEF Loaded, SavState
<1>4. Loaded(t)
  BY <1>3 DEF Loaded
<1> QED BY <1>3, <1>4 DEF t

\* What nobody has in mind to save goes on in no way.
LEMMA GivenUpIsGood ==
  ASSUME NEW s, Loaded(s), ~s.open, s.user # "nobody"
  PROVE  SavGood(GivenUp(s))
<1> DEFINE t == [s EXCEPT !.plan = << >>, !.why = "none", !.tries = 0]
           u == StartSave(s, "leaves")
           n == u.tries + 1
           v == [u EXCEPT !.tries = n]
           w == Unload(t)
<1>1. s \in SavState
  BY DEF Loaded
<1>2. /\ t \in SavState /\ t.plan = << >> /\ t.open = s.open /\ t.user = s.user /\ t.stored = s.stored
      /\ t.torn = s.torn /\ t.last = s.last /\ t.touched = s.touched /\ t.player = s.player
  BY <1>1 DEF SavState
<1>3. GivenUp(s) \in {t, v, w}
  <2>1. CASE s.why = "stays"
    BY <2>1 DEF GivenUp
  <2>2. CASE s.why # "stays" /\ s.why = "leaves" /\ s.tries < MaxTries
    BY <2>2 DEF GivenUp
  <2>3. CASE s.why # "stays" /\ ~(s.why = "leaves" /\ s.tries < MaxTries)
    BY <2>3 DEF GivenUp
  <2> QED BY <2>1, <2>2, <2>3
<1> HIDE DEF t
<1>4. Loaded(t) /\ SavGood(t)
  BY <1>2 DEF Loaded, SavGood
<1>5. SavGood(w)
  BY <1>2, <1>4, UnloadIsLoaded DEF SavGood
<1>6. SavGood(v)
  <2>1. SavGood(u)
    BY StartIsGood
  <2> HIDE DEF u
  <2>2. u \in SavState
    BY <2>1 DEF SavGood, Loaded
  <2>3. n \in Nat
    BY <2>2 DEF SavState
  <2> HIDE DEF n
  <2>4. /\ v \in SavState /\ v.plan = u.plan /\ v.open = u.open /\ v.user = u.user /\ v.stored = u.stored
        /\ v.torn = u.torn /\ v.last = u.last /\ v.touched = u.touched /\ v.player = u.player
        /\ v.cut = u.cut /\ v.working = u.working
    BY <2>2, <2>3 DEF SavState
  <2> HIDE DEF v
  <2> QED BY <2>1, <2>4 DEF SavGood, Loaded, Saving, Written
<1> QED BY <1>3, <1>4, <1>5, <1>6

\* What is committed is what is in memory, unless the save is torn.
LEMMA SucceededIsGood ==
  ASSUME NEW s, s \in SavState, ~s.open, s.user # "nobody",
         ~s.touched => s.player["depot"] = s.stored["depot"],
         ~s.cut => s.stored = s.player
  PROVE  SavGood(Succeeded(s))
<1> DEFINE p == s.player
           c == s.cut
           t == [s EXCEPT !.plan = << >>, !.why = "none", !.tries = 0, !.last = p, !.torn = c]
           w == Unload(t)
<1>1. p \in Tables /\ c \in BOOLEAN
  BY DEF SavState
<1>2. Succeeded(s) \in {t, w}
  BY DEF Succeeded
<1> HIDE DEF p, c
<1>3. /\ t \in SavState /\ t.plan = << >> /\ t.open = s.open /\ t.user = s.user /\ t.stored = s.stored
      /\ t.torn = c /\ t.last = p /\ t.touched = s.touched /\ t.player = s.player
  BY <1>1 DEF SavState
<1> HIDE DEF t
<1>4. Loaded(t)
  BY <1>3 DEF Loaded, p, c
<1>5. SavGood(t) /\ SavGood(w)
  BY <1>3, <1>4, UnloadIsLoaded DEF SavGood
<1> QED BY <1>2, <1>5

-----------------------------------------------------------------------------
(* Steps *)

LEMMA SavGoodNext == ASSUME SavGood(sav') PROVE SavGood(sav)'
  BY DEF SavGood, Loaded, Saving, Written, SavState, Tables, Plans

LEMMA SavInitially == SavInit => SavGood(sav)
<1> SUFFICES ASSUME SavInit PROVE SavGood(sav)
  OBVIOUS
<1>1. PICK at \in [Coin -> Store] :
        sav = [user |-> "nobody", player |-> Nothing, touched |-> FALSE,
               plan |-> << >>, why |-> "none", tries |-> 0,
               stored |-> [x \in Store |-> {c \in Coin : at[c] = x}],
               working |-> Nothing, open |-> FALSE, lost |-> FALSE,
               last |-> [x \in Store |-> {c \in Coin : at[c] = x}],
               cut |-> FALSE, torn |-> FALSE, losses |-> 0]
  BY DEF SavInit
<1> DEFINE r == [x \in Store |-> {c \in Coin : at[c] = x}]
<1>2. r \in Tables /\ Nothing \in Tables
  BY TablesOfNothing DEF Tables
<1> HIDE DEF r
<1>3. /\ sav \in SavState /\ sav.user = "nobody" /\ sav.plan = << >> /\ ~sav.open
      /\ sav.stored = r /\ sav.last = r
  BY <1>1, <1>2 DEF SavState, r
<1> QED BY <1>3 DEF SavGood, Loaded

\* Quiet is when nothing is left to do of a save.
LEMMA QuietIs ==
  ASSUME SavGood(sav)
  PROVE  /\ Quiet(sav) => Loaded(sav) /\ ~sav.open /\ sav.plan = << >>
         /\ ~Quiet(sav) => Loaded(sav) /\ Saving(sav)
<1>1. Saving(sav) => sav.plan # << >>
  BY PlanGoesOn DEF Saving, SavGood, Loaded, SavState
<1> QED BY <1>1 DEF SavGood, Quiet

LEMMA LoadIsLoaded ==
  ASSUME NEW s, Loaded(s), s.user = "nobody", NEW user \in {"session", "mailbox"}
  PROVE  /\ Loaded(LoadPlayer(s, user)) /\ LoadPlayer(s, user).plan = s.plan
         /\ LoadPlayer(s, user).open = s.open /\ LoadPlayer(s, user).user = user
<1> DEFINE p == s.stored
           t == LoadPlayer(s, user)
<1>1. t = [s EXCEPT !.user = user, !.player = p] /\ p \in Tables
  BY DEF LoadPlayer, Loaded, SavState
<1> HIDE DEF p, t
<1>2. /\ t \in SavState /\ t.user = user /\ t.stored = s.stored /\ t.torn = s.torn /\ t.last = s.last
      /\ t.plan = s.plan /\ t.open = s.open /\ t.player = p
  BY <1>1 DEF Loaded, SavState
<1> QED BY <1>2 DEF Loaded, t, p

LEMMA PlaysIsGood == ASSUME SavGood(sav), Plays PROVE SavGood(sav')
<1>1. PICK from \in Store, to \in Store : \E c \in sav.player[from] : from # to /\ sav' = Change(sav, from, to, c)
  BY DEF Plays
<1>2. PICK c \in sav.player[from] : from # to /\ sav' = Change(sav, from, to, c)
  BY <1>1
<1> DEFINE p == [sav.player EXCEPT ![from] = sav.player[from] \ {c}, ![to] = sav.player[to] \cup {c}]
           b == sav.touched \/ "depot" \in {from, to}
<1>3. Loaded(sav) /\ ~sav.open /\ sav.plan = << >> /\ sav \in SavState
  BY QuietIs DEF Plays, Loaded
<1>4. sav.player \in Tables
  BY <1>3 DEF SavState
<1>5. p \in Tables
  BY <1>2, <1>4 DEF Tables
<1>6. b \in BOOLEAN /\ (~b => ~sav.touched /\ p["depot"] = sav.player["depot"])
  BY <1>2, <1>3, <1>4 DEF Tables, SavState, Store
<1>7. sav' = [sav EXCEPT !.player = p, !.touched = b]
  BY <1>2, <1>3, <1>4 DEF Change, SavState, Tables
<1> HIDE DEF p, b
<1>8. /\ sav' \in SavState /\ sav'.user = sav.user /\ sav'.stored = sav.stored /\ sav'.torn = sav.torn
      /\ sav'.last = sav.last /\ sav'.plan = sav.plan /\ sav'.open = sav.open /\ sav'.player = p
      /\ sav'.touched = b
  BY <1>3, <1>5, <1>6, <1>7 DEF SavState
<1> QED BY <1>3, <1>6, <1>8 DEF SavGood, Loaded

LEMMA MailedIsGood == ASSUME SavGood(sav), Mailed PROVE SavGood(sav')
<1>1. PICK l \in Letter \ Owned(sav.stored) :
        sav' = StartSave([LoadPlayer(sav, "mailbox") EXCEPT !.player["depot"] = @ \cup {l}, !.touched = TRUE], "mail")
  BY DEF Mailed
<1> DEFINE s == LoadPlayer(sav, "mailbox")
           p == [s.player EXCEPT !["depot"] = s.player["depot"] \cup {l}]
           b == TRUE
           t == [s EXCEPT !.player = p, !.touched = b]
<1>2. Loaded(s) /\ ~s.open /\ s.user = "mailbox" /\ s \in SavState
  BY QuietIs, LoadIsLoaded DEF Mailed, Loaded
<1>3. sav' = StartSave(t, "mail")
  BY <1>1
<1> HIDE DEF s
<1>4. p \in Tables
  <2>1. s.player \in Tables /\ l \in Letter
    BY <1>2 DEF SavState
  <2> QED BY <2>1 DEF Tables, Store
<1>5. b \in BOOLEAN /\ b
  OBVIOUS
<1> HIDE DEF p, b
<1>6. /\ t \in SavState /\ t.user = s.user /\ t.stored = s.stored /\ t.torn = s.torn
      /\ t.last = s.last /\ t.open = s.open /\ t.touched = b
  BY <1>2, <1>4, <1>5 DEF SavState
<1> HIDE DEF t
<1>7. Loaded(t)
  BY <1>2, <1>5, <1>6 DEF Loaded
<1> QED BY <1>2, <1>3, <1>6, <1>7, StartIsGood

LEMMA SavesIsGood ==
  ASSUME SavGood(sav), LogsIn \/ SavedByServer \/ LogsOut
  PROVE  SavGood(sav')
<1>1. CASE LogsIn
  <2> DEFINE s == LoadPlayer(sav, "session")
  <2>1. Loaded(s) /\ ~s.open /\ s.plan = << >> /\ sav' = s
    BY <1>1, QuietIs, LoadIsLoaded DEF LogsIn
  <2> HIDE DEF s
  <2> QED BY <2>1 DEF SavGood
<1>2. CASE SavedByServer
  BY <1>2, QuietIs, StartIsGood DEF SavedByServer
<1>3. CASE LogsOut
  <2> DEFINE u == StartSave(sav, "leaves")
             n == 1
             v == [u EXCEPT !.tries = n]
  <2>1. SavGood(u) /\ sav' = v /\ n \in Nat
    BY <1>3, QuietIs, StartIsGood DEF LogsOut
  <2> HIDE DEF u, n
  <2>2. u \in SavState
    BY <2>1 DEF SavGood, Loaded
  <2>3. /\ v \in SavState /\ v.plan = u.plan /\ v.open = u.open /\ v.user = u.user /\ v.stored = u.stored
        /\ v.torn = u.torn /\ v.last = u.last /\ v.touched = u.touched /\ v.player = u.player
        /\ v.cut = u.cut /\ v.working = u.working
    BY <2>1, <2>2 DEF SavState
  <2> HIDE DEF v
  <2>4. SavGood(v)
    BY <2>1, <2>3 DEF SavGood, Loaded, Saving, Written
  <2> QED BY <2>1, <2>4
<1> QED BY <1>1, <1>2, <1>3

\* Of a save under way, statement by statement.
LEMMA BeginIsGood ==
  ASSUME NEW s, Loaded(s), Saving(s), Head(s.plan) = "begin"
  PROVE  SavGood(Begin(s))
<1> DEFINE p == Tail(s.plan)
           w == s.stored
           b == TRUE
           n == FALSE
           t == Begin(s)
<1>1. s \in SavState /\ ~s.open /\ s.touched \in BOOLEAN /\ s.plan \in Plans(s.touched)
  BY DEF Loaded, Saving, SavState
<1>2. p \in Plans(s.touched) /\ Head(p) = "row"
  BY <1>1, PlanGoesOn DEF Following
<1>3. p \in Plans(TRUE) \cup Plans(FALSE) /\ w \in Tables /\ b \in BOOLEAN /\ b /\ n \in BOOLEAN
  BY <1>1, <1>2 DEF Plans, SavState
<1>4. t = [s EXCEPT !.plan = p, !.lost = n, !.open = b, !.stored = w, !.working = w]
  BY <1>1 DEF Begin
<1> HIDE DEF p, t, w, b, n
<1>5. /\ t \in SavState /\ t.plan = p /\ t.open = b /\ t.user = s.user /\ t.stored = w
      /\ t.torn = s.torn /\ t.last = s.last /\ t.touched = s.touched /\ t.player = s.player
      /\ t.cut = s.cut /\ t.working = w
  BY <1>1, <1>3, <1>4 DEF SavState
<1>6. Loaded(t)
  BY <1>5 DEF Loaded, w
<1>7. Written(t, "row")
  BY <1>5 DEF Written
<1>8. ~t.cut
  BY <1>5 DEF Saving
<1>9. Saving(t)
  BY <1>2, <1>3, <1>5, <1>7, <1>8 DEF Saving
<1> QED BY <1>6, <1>9 DEF SavGood, t

\* What a statement of the save leaves in the tables.
Effected(t, s, tables, x) ==
  /\ t["row"] = IF x = "row" THEN s.player["row"] ELSE tables["row"]
  /\ t["items"] = IF x = "clear items" THEN {} ELSE IF x = "items" THEN tables["items"] \cup s.player["items"]
                  ELSE tables["items"]
  /\ t["depot"] = IF x = "clear depot" THEN {} ELSE IF x = "depot" THEN tables["depot"] \cup s.player["depot"]
                  ELSE tables["depot"]

LEMMA EffectIs ==
  ASSUME NEW s \in SavState, NEW tables \in Tables, NEW x \in {"row", "clear items", "items", "clear depot", "depot"}
  PROVE  Effect(s, tables, x) \in Tables /\ Effected(Effect(s, tables, x), s, tables, x)
<1> DEFINE t == Effect(s, tables, x)
<1>1. s.player \in Tables
  BY DEF SavState
<1>2. /\ x = "row" => t = [tables EXCEPT !["row"] = s.player["row"]]
      /\ x = "clear items" => t = [tables EXCEPT !["items"] = {}]
      /\ x = "items" => t = [tables EXCEPT !["items"] = tables["items"] \cup s.player["items"]]
      /\ x = "clear depot" => t = [tables EXCEPT !["depot"] = {}]
      /\ x = "depot" => t = [tables EXCEPT !["depot"] = tables["depot"] \cup s.player["depot"]]
  <2>1. x = "row" => t = [tables EXCEPT !["row"] = s.player["row"]]
    BY DEF Effect
  <2>2. x = "clear items" => t = [tables EXCEPT !["items"] = {}]
    BY DEF Effect
  <2>3. x = "items" => t = [tables EXCEPT !["items"] = tables["items"] \cup s.player["items"]]
    BY DEF Effect
  <2>4. x = "clear depot" => t = [tables EXCEPT !["depot"] = {}]
    BY DEF Effect
  <2>5. x = "depot" => t = [tables EXCEPT !["depot"] = tables["depot"] \cup s.player["depot"]]
    BY DEF Effect
  <2> QED BY <2>1, <2>2, <2>3, <2>4, <2>5
<1> HIDE DEF t
<1>3. s.player["row"] \in SUBSET (Coin \cup Letter) /\ s.player["items"] \in SUBSET (Coin \cup Letter)
      /\ s.player["depot"] \in SUBSET (Coin \cup Letter)
  BY <1>1 DEF Tables, Store
<1>4. CASE x = "row"
  BY <1>2, <1>3, <1>4 DEF Tables, Store, Effected, t
<1>5. CASE x = "clear items"
  BY <1>2, <1>3, <1>5 DEF Tables, Store, Effected, t
<1>6. CASE x = "items"
  BY <1>2, <1>3, <1>6 DEF Tables, Store, Effected, t
<1>7. CASE x = "clear depot"
  BY <1>2, <1>3, <1>7 DEF Tables, Store, Effected, t
<1>8. CASE x = "depot"
  BY <1>2, <1>3, <1>8 DEF Tables, Store, Effected, t
<1> QED BY <1>4, <1>5, <1>6, <1>7, <1>8

LEMMA WrittenOn ==
  ASSUME NEW s \in SavState, NEW x \in {"row", "clear items", "items", "clear depot", "depot"},
         Written(s, x), x \in {"clear depot", "depot"} => s.touched,
         NEW t \in SavState, t.working = Effect(s, s.working, x),
         t.player = s.player, t.touched = s.touched, t.stored = s.stored
  PROVE  Written(t, Following(x, s.touched))
<1>1. s.working \in Tables /\ s.touched \in BOOLEAN
  BY DEF SavState
<1> DEFINE w == Effect(s, s.working, x)
<1>2. Effected(w, s, s.working, x)
  BY <1>1, EffectIs
<1> HIDE DEF w
<1>3. t.working = w
  BY DEF w
<1>4. CASE x = "row"
  BY <1>2, <1>3, <1>4 DEF Written, Following, Effected
<1>5. CASE x = "clear items"
  BY <1>2, <1>3, <1>5 DEF Written, Following, Effected
<1>6. CASE x = "items"
  <2>1. w["items"] = s.player["items"]
    BY <1>2, <1>6 DEF Written, Effected
  <2> QED BY <1>2, <1>3, <1>6, <2>1 DEF Written, Following, Effected
<1>7. CASE x = "clear depot"
  BY <1>2, <1>3, <1>7 DEF Written, Following, Effected
<1>8. CASE x = "depot"
  <2>1. w["depot"] = s.player["depot"]
    BY <1>2, <1>8 DEF Written, Effected
  <2> QED BY <1>2, <1>3, <1>8, <2>1 DEF Written, Following, Effected
<1> QED BY <1>4, <1>5, <1>6, <1>7, <1>8

LEMMA ExecuteIsGood ==
  ASSUME NEW s, Loaded(s), Saving(s), Head(s.plan) \notin {"begin", "commit"}
  PROVE  SavGood(Execute(s, Head(s.plan)))
<1> DEFINE x == Head(s.plan)
           p == Tail(s.plan)
           n == FALSE
           w == Effect(s, s.working, x)
           r == Effect(s, s.stored, x)
           t == Execute(s, x)
<1>1. s \in SavState /\ s.touched \in BOOLEAN /\ s.plan \in Plans(s.touched)
  BY DEF Loaded, Saving, SavState
<1>2. /\ x \in {"row", "clear items", "items", "clear depot", "depot"}
      /\ x \in {"clear depot", "depot"} => s.touched
      /\ p \in Plans(s.touched) /\ Head(p) = Following(x, s.touched)
  BY <1>1, PlanGoesOn
<1>3. Head(p) # "begin"
  BY <1>2 DEF Following
<1>4. p \in Plans(TRUE) \cup Plans(FALSE) /\ n \in BOOLEAN
  BY <1>1, <1>2 DEF Plans
<1>5. s.working \in Tables /\ s.stored \in Tables
  BY <1>1 DEF SavState
<1>6. w \in Tables /\ r \in Tables /\ Effected(r, s, s.stored, x)
  BY <1>1, <1>2, <1>5, EffectIs
<1>7. CASE s.open
  <2>1. t = [s EXCEPT !.plan = p, !.lost = n, !.working = w]
    BY <1>7 DEF Execute
  <2> HIDE DEF x, p, n, w, t
  <2>2. /\ t \in SavState /\ t.plan = p /\ t.open = s.open /\ t.user = s.user /\ t.stored = s.stored
        /\ t.torn = s.torn /\ t.last = s.last /\ t.touched = s.touched /\ t.player = s.player
        /\ t.cut = s.cut /\ t.working = w
    BY <1>1, <1>4, <1>6, <2>1 DEF SavState
  <2>3. Written(t, Head(p))
    <3>1. Written(s, x) /\ x = Head(s.plan)
      BY <1>2, <1>7 DEF Saving, x
    <3> QED BY <1>1, <1>2, <2>2, <3>1, WrittenOn DEF w
  <2>4. Loaded(t)
    BY <2>2 DEF Loaded
  <2>5. Saving(t)
    BY <1>2, <1>3, <1>7, <2>2, <2>3 DEF Saving
  <2> QED BY <2>4, <2>5 DEF SavGood, t, x
<1>8. CASE ~s.open
  <2>1. t = [s EXCEPT !.plan = p, !.lost = n, !.stored = r]
    BY <1>8 DEF Execute
  <2>2. s.cut /\ s.torn
    BY <1>2, <1>8 DEF Saving
  <2>3. ~s.touched => r["depot"] = s.stored["depot"]
    <3> HIDE DEF x, r
    <3> QED BY <1>2, <1>6 DEF Effected
  <2> HIDE DEF x, p, n, r, t
  <2>4. /\ t \in SavState /\ t.plan = p /\ t.open = s.open /\ t.user = s.user /\ t.stored = r
        /\ t.torn = s.torn /\ t.last = s.last /\ t.touched = s.touched /\ t.player = s.player
        /\ t.cut = s.cut
    BY <1>1, <1>4, <1>6, <2>1 DEF SavState
  <2>5. Loaded(t)
    BY <2>2, <2>3, <2>4 DEF Loaded
  <2>6. Saving(t)
    BY <1>2, <1>3, <1>8, <2>2, <2>4 DEF Saving
  <2> QED BY <2>5, <2>6 DEF SavGood, t, x
<1> QED BY <1>7, <1>8

LEMMA CommitIsGood == ASSUME SavGood(sav), CommitSave PROVE SavGood(sav')
<1> DEFINE st == IF sav.open THEN sav.working ELSE sav.stored
           n == FALSE
           e == Nothing
           s == [sav EXCEPT !.stored = st, !.open = n, !.working = e]
<1>1. Loaded(sav) /\ Saving(sav) /\ Head(sav.plan) = "commit" /\ sav' = Succeeded(s)
  BY QuietIs DEF CommitSave
<1>2. sav \in SavState /\ st \in Tables /\ n \in BOOLEAN /\ ~n /\ e \in Tables
  BY <1>1, TablesOfNothing DEF Loaded, SavState
<1>3. sav.user # "nobody" /\ (sav.cut \/ (sav.open /\ Written(sav, "commit")))
  BY <1>1 DEF Saving
<1>4. ~sav.touched => sav.player["depot"] = st["depot"]
  <2> SUFFICES ASSUME ~sav.touched PROVE sav.player["depot"] = st["depot"]
    OBVIOUS
  <2>1. sav.player["depot"] = sav.stored["depot"]
    BY <1>1, <1>3 DEF Loaded
  <2>2. sav.open => sav.working["depot"] = sav.stored["depot"]
    BY <1>1, <1>3 DEF Saving, Written
  <2> QED BY <2>1, <2>2
<1>5. ~sav.cut => st = sav.player
  <2> SUFFICES ASSUME ~sav.cut PROVE st = sav.player
    OBVIOUS
  <2>1. st = sav.working /\ Written(sav, "commit")
    BY <1>3
  <2>2. st["row"] = sav.player["row"] /\ st["items"] = sav.player["items"]
    BY <2>1 DEF Written
  <2>3. st["depot"] = sav.player["depot"]
    BY <1>4, <2>1 DEF Written
  <2>4. sav.player \in Tables
    BY <1>2 DEF SavState
  <2> HIDE DEF st
  <2> QED BY <1>2, <2>2, <2>3, <2>4 DEF Tables, Store
<1> HIDE DEF st, n, e
<1>6. /\ s \in SavState /\ s.open = n /\ s.user = sav.user /\ s.stored = st
      /\ s.touched = sav.touched /\ s.player = sav.player /\ s.cut = sav.cut
  BY <1>2 DEF SavState
<1> HIDE DEF s
<1>7. SavGood(Succeeded(s))
  BY <1>2, <1>3, <1>4, <1>5, <1>6, SucceededIsGood
<1> QED BY <1>1, <1>7

LEMMA CommitFailsIsGood == ASSUME SavGood(sav), CommitFails PROVE SavGood(sav')
<1> DEFINE w == sav.working
           p == sav.player
           c == sav.cut
           s == [sav EXCEPT !.stored = w, !.last = p, !.torn = c]
<1>1. Loaded(sav) /\ Saving(sav) /\ Head(sav.plan) = "commit" /\ sav.user # "nobody"
  BY QuietIs DEF CommitFails, Saving
<1>2. \/ sav' = GivenUp(RollBack(sav))
      \/ sav.open /\ sav' = GivenUp(RollBack(s))
  BY DEF CommitFails
<1>3. SavGood(GivenUp(RollBack(sav)))
  BY <1>1, RollBackIsLoaded, GivenUpIsGood
<1>4. ASSUME sav.open PROVE Loaded(s) /\ s.user = sav.user
  <2>1. sav \in SavState /\ w \in Tables /\ p \in Tables /\ c \in BOOLEAN
    BY <1>1 DEF Loaded, SavState
  <2>2. w["row"] = p["row"] /\ w["items"] = p["items"]
    BY <1>1, <1>4 DEF Saving, Written
  <2>3. w["depot"] = p["depot"]
    BY <1>1, <1>4 DEF Saving, Written, Loaded
  <2> HIDE DEF w, p, c
  <2>4. w = p
    BY <2>1, <2>2, <2>3 DEF Tables, Store
  <2>5. /\ s \in SavState /\ s.user = sav.user /\ s.stored = w /\ s.last = p
        /\ s.touched = sav.touched /\ s.player = sav.player /\ s.torn = c
    BY <2>1 DEF SavState
  <2> HIDE DEF s
  <2>6. s.player = s.stored /\ s.stored = s.last
    BY <2>4, <2>5 DEF p
  <2> QED BY <2>5, <2>6 DEF Loaded
<1>5. ASSUME sav.open PROVE SavGood(GivenUp(RollBack(s)))
  <2>1. Loaded(s) /\ s.user # "nobody"
    BY <1>1, <1>4, <1>5
  <2> HIDE DEF s
  <2> QED BY <2>1, RollBackIsLoaded, GivenUpIsGood
<1> QED BY <1>2, <1>3, <1>5

LEMMA LossIsGood == ASSUME SavGood(sav), ConnectionLost PROVE SavGood(sav')
<1> DEFINE t == RollBack(sav)
           b == TRUE
           n == t.losses + 1
           c == t.cut \/ sav.open
           r == t.torn \/ sav.open
<1>1. Loaded(sav) /\ sav.open \in BOOLEAN /\ sav.cut \in BOOLEAN
  BY DEF SavGood, Loaded, SavState
<1>2. /\ Loaded(t) /\ ~t.open /\ t.plan = sav.plan /\ t.user = sav.user /\ t.cut = sav.cut
      /\ t.torn = sav.torn /\ t.touched = sav.touched
  BY <1>1, RollBackIsLoaded
<1>3. sav' = [t EXCEPT !.lost = b, !.losses = n, !.cut = c, !.torn = r]
  BY DEF ConnectionLost
<1> HIDE DEF t
<1>4. t \in SavState
  BY <1>2 DEF Loaded
<1>5. n \in Nat /\ c \in BOOLEAN /\ r \in BOOLEAN /\ b \in BOOLEAN
  BY <1>1, <1>2, <1>4 DEF SavState
<1>6. (c <=> sav.cut \/ sav.open) /\ (r <=> t.torn \/ sav.open)
  BY <1>2
<1> HIDE DEF n, c, r, b
<1>7. /\ sav' \in SavState /\ sav'.user = t.user /\ sav'.stored = t.stored /\ sav'.last = t.last
      /\ sav'.touched = t.touched /\ sav'.player = t.player /\ sav'.torn = r /\ sav'.cut = c
      /\ sav'.open = t.open /\ sav'.plan = t.plan
  BY <1>3, <1>4, <1>5 DEF SavState
<1>8. Loaded(sav')
  BY <1>2, <1>6, <1>7 DEF Loaded
<1>9. CASE sav.plan = << >> /\ ~sav.open
  BY <1>2, <1>7, <1>8, <1>9 DEF SavGood
<1>10. CASE Saving(sav)
  <2>1. Saving(sav')
    BY <1>2, <1>6, <1>7, <1>10 DEF Saving
  <2> QED BY <1>8, <2>1 DEF SavGood
<1> QED BY <1>9, <1>10 DEF SavGood

LEMMA CrashIsGood == ASSUME SavGood(sav), Crash PROVE SavGood(sav')
<1> DEFINE t == Unload(RollBack(sav))
<1>1. Loaded(t) /\ ~t.open
  <2>1. Loaded(sav)
    BY DEF SavGood
  <2>2. Loaded(RollBack(sav)) /\ ~RollBack(sav).open
    BY <2>1, RollBackIsLoaded
  <2> QED BY <2>2, UnloadIsLoaded
<1>2. sav' = [t EXCEPT !.plan = << >>, !.why = "none", !.tries = 0, !.lost = FALSE, !.cut = FALSE]
  BY DEF Crash
<1> HIDE DEF t
<1>3. /\ sav' \in SavState /\ sav'.user = t.user /\ sav'.stored = t.stored /\ sav'.last = t.last
      /\ sav'.touched = t.touched /\ sav'.player = t.player /\ sav'.torn = t.torn
      /\ sav'.open = t.open /\ sav'.plan = << >>
  BY <1>1, <1>2 DEF Loaded, SavState
<1> QED BY <1>1, <1>3 DEF SavGood, Loaded

LEMMA SavKept == SavGood(sav) /\ [SavNext]_sav => SavGood(sav)'
<1> SUFFICES ASSUME SavGood(sav), [SavNext]_sav PROVE SavGood(sav')
  BY SavGoodNext
<1>1. CASE Statement
  BY <1>1, QuietIs, BeginIsGood, ExecuteIsGood DEF Statement
<1>2. CASE StatementFails
  BY <1>2, QuietIs, RollBackIsLoaded, GivenUpIsGood DEF StatementFails, Saving
<1>3. CASE LogsIn \/ SavedByServer \/ LogsOut
  BY <1>3, SavesIsGood
<1>4. CASE sav' = sav
  BY <1>4
<1> QED BY <1>1, <1>2, <1>3, <1>4, PlaysIsGood, MailedIsGood, CommitIsGood, CommitFailsIsGood,
           LossIsGood, CrashIsGood DEF SavNext

LEMMA SavImplies == SavGood(sav) => SavesAreWhole
  BY DEF SavGood, Loaded, SavesAreWhole

\* A save is in the database as a whole or not at all, whatever fails, unless
\* the connection was lost in its transaction.
THEOREM SavesStayWhole == SavSpec => []SavesAreWhole
BY SavInitially, SavKept, SavImplies, PTL DEF SavSpec

-----------------------------------------------------------------------------
(* Sums of deltas *)

Cond == [type : {"haste", "paralyze", "attributes", "invisible"}, id : Nat, delta : Int, left : Nat \cup {-1}]

DeltaSum(X) == MapThenSumSet(LAMBDA c : c.delta, X)
Deltas(X) == [c \in X |-> [n \in Int |-> c.delta + n]]

LEMMA DeltaSumIs ==
  ASSUME NEW X \in SUBSET Cond, IsFiniteSet(X)
  PROVE  \E f \in [SUBSET X -> Int] : FoldOf(f, X, 0, Deltas(X)) /\ DeltaSum(X) = f[X]
<1> DEFINE IsSum(f) == f = [Z \in SUBSET X |-> IF Z = {} THEN 0
                             ELSE LET x == CHOOSE x \in Z : TRUE IN x.delta + f[Z \ {x}]]
           g == CHOOSE f : IsSum(f)
<1>1. DeltaSum(X) = g[X]
  BY DEF DeltaSum, MapThenSumSet, MapThenFoldSet
<1>2. Deltas(X) \in [X -> [Int -> Int]]
  BY DEF Deltas, Cond
<1>3. PICK f \in [SUBSET X -> Int] : FoldOf(f, X, 0, Deltas(X))
  <2> DEFINE Y == Int
             base == 0
             op == Deltas(X)
  <2>1. base \in Y /\ op \in [X -> [Y -> Y]]
    BY <1>2
  <2> HIDE DEF Y, base, op
  <2>2. \E f \in [SUBSET X -> Y] : FoldOf(f, X, base, op)
    BY <2>1, FoldExists
  <2> QED BY <2>2 DEF Y, base, op
<1>5. IsSum(f)
  <2>1. ASSUME NEW Z \in SUBSET X
        PROVE  f[Z] = IF Z = {} THEN 0 ELSE LET x == CHOOSE x \in Z : TRUE IN x.delta + f[Z \ {x}]
    <3>1. Z = {} => f[Z] = 0
      BY <1>3, FoldStep
    <3>2. ASSUME Z # {} PROVE LET x == CHOOSE x \in Z : TRUE IN f[Z] = x.delta + f[Z \ {x}]
      <4>1. PICK x \in Z : x = (CHOOSE y \in Z : TRUE) /\ f[Z] = Deltas(X)[x][f[Z \ {x}]]
        BY <1>3, <3>2, FoldStep
      <4>2. f[Z \ {x}] \in Int
        BY <1>3, <4>1
      <4>3. f[Z] = x.delta + f[Z \ {x}]
        <5>1. x \in X
          BY <4>1
        <5>2. Deltas(X)[x] = [n \in Int |-> x.delta + n]
          BY <5>1 DEF Deltas
        <5> QED BY <4>1, <4>2, <5>2
      <4> QED BY <4>1, <4>3
    <3> QED BY <3>1, <3>2
  <2> QED BY <1>3, <2>1
<1>6. IsSum(g)
  <2> HIDE DEF IsSum
  <2> QED BY <1>5
<1> HIDE DEF g
<1>7. g = f
  <2> DEFINE T == {Z \in SUBSET X : g[Z] # f[Z]}
  <2>1. T = {}
    <3> SUFFICES ASSUME T # {} PROVE FALSE
      OBVIOUS
    <3>1. PICK V \in T : \A R \in T : R \subseteq V => R = V
      <4>1. T \in SUBSET (SUBSET X)
        OBVIOUS
      <4> HIDE DEF T, IsSum
      <4> QED BY <4>1, LeastSet
    <3>2. V \in SUBSET X /\ g[V] # f[V]
      BY <3>1
    <3> DEFINE x == CHOOSE x \in V : TRUE
    <3>3. /\ V = {} => g[V] = 0 /\ f[V] = 0
          /\ V # {} => g[V] = x.delta + g[V \ {x}] /\ f[V] = x.delta + f[V \ {x}]
      <4>1. g[V] = IF V = {} THEN 0 ELSE x.delta + g[V \ {x}]
        BY <1>6, <3>2
      <4>2. f[V] = IF V = {} THEN 0 ELSE x.delta + f[V \ {x}]
        BY <1>5, <3>2
      <4> QED BY <4>1, <4>2
    <3>4. V # {} => x \in V
      OBVIOUS
    <3> HIDE DEF x
    <3>5. V # {} => V \ {x} \notin T
      BY <3>1, <3>4
    <3> HIDE DEF IsSum
    <3> QED BY <3>2, <3>3, <3>5
  <2>2. DOMAIN g = SUBSET X /\ g = [Z \in SUBSET X |-> g[Z]]
    BY <1>6
  <2> HIDE DEF IsSum
  <2> QED BY <1>3, <2>1, <2>2
<1> QED BY <1>1, <1>3, <1>7

LEMMA DeltaSumStep ==
  ASSUME NEW X \in SUBSET Cond, IsFiniteSet(X)
  PROVE  /\ DeltaSum(X) \in Int
         /\ X = {} => DeltaSum(X) = 0
         /\ X # {} => \E x \in X : x = (CHOOSE y \in X : TRUE) /\ DeltaSum(X) = x.delta + DeltaSum(X \ {x})
<1>1. PICK f \in [SUBSET X -> Int] : FoldOf(f, X, 0, Deltas(X)) /\ DeltaSum(X) = f[X]
  BY DeltaSumIs
<1>2. X \in SUBSET X /\ f[X] \in Int
  OBVIOUS
<1>3. X = {} => DeltaSum(X) = 0
  BY <1>1, <1>2, FoldStep
<1>4. ASSUME X # {}
      PROVE \E x \in X : x = (CHOOSE y \in X : TRUE) /\ DeltaSum(X) = x.delta + DeltaSum(X \ {x})
  <2>1. PICK x \in X : x = (CHOOSE y \in X : TRUE) /\ f[X] = Deltas(X)[x][f[X \ {x}]]
    BY <1>1, <1>2, <1>4, FoldStep
  <2> DEFINE W == X \ {x}
  <2>2. W \in SUBSET X /\ W \in SUBSET Cond /\ IsFiniteSet(W)
    BY FS_Subset
  <2>3. PICK g \in [SUBSET W -> Int] : FoldOf(g, W, 0, Deltas(W)) /\ DeltaSum(W) = g[W]
    BY <2>2, DeltaSumIs
  <2>4. FoldOf(g, W, 0, Deltas(X))
    <3>1. ASSUME NEW Z \in SUBSET W, Z # {}
          PROVE  LET y == CHOOSE y \in Z : TRUE IN Deltas(W)[y] = Deltas(X)[y]
      <4>1. (CHOOSE y \in Z : TRUE) \in Z
        BY <3>1
      <4>2. \A y \in Z : Deltas(W)[y] = Deltas(X)[y]
        BY <2>2 DEF Deltas
      <4> QED BY <4>1, <4>2
    <3> HIDE DEF W
    <3> QED BY <2>3, <3>1 DEF FoldOf
  <2> HIDE DEF W
  <2>5. f[W] = g[W] /\ f[W] \in Int
    BY <1>1, <2>2, <2>3, <2>4, FoldsAgree
  <2>6. f[X] = x.delta + f[W]
    BY <2>1, <2>5 DEF Deltas, W
  <2> QED BY <1>1, <2>1, <2>3, <2>5, <2>6 DEF W
<1> QED BY <1>1, <1>2, <1>3, <1>4

\* Any element may be the first.
LEMMA DeltaSumWithout ==
  ASSUME NEW X \in SUBSET Cond, IsFiniteSet(X), NEW c \in X
  PROVE  DeltaSum(X) = c.delta + DeltaSum(X \ {c})
<1> DEFINE Bad(Z) == \E y \in Z : DeltaSum(Z) # y.delta + DeltaSum(Z \ {y})
           T == {Z \in SUBSET X : Bad(Z)}
<1> SUFFICES ASSUME T # {} PROVE FALSE
  OBVIOUS
<1>1. PICK V \in T : \A R \in T : R \subseteq V => R = V
  <2>1. T \in SUBSET (SUBSET X)
    OBVIOUS
  <2> HIDE DEF T
  <2> QED BY <2>1, LeastSet
<1>2. PICK y \in V : DeltaSum(V) # y.delta + DeltaSum(V \ {y})
  BY <1>1
<1>3. \A Z \in SUBSET V : Z \in SUBSET Cond /\ Z \in SUBSET X /\ IsFiniteSet(Z) /\ (Z # V => ~Bad(Z))
  <2>1. \A Z \in SUBSET V : Z \in SUBSET X
    BY <1>1
  <2>2. \A Z \in SUBSET V : Z # V => Z \notin T
    BY <1>1
  <2> QED BY <2>1, <2>2, FS_Subset
<1>4. PICK x \in V : DeltaSum(V) = x.delta + DeltaSum(V \ {x})
  BY <1>2, <1>3, DeltaSumStep
<1>5. x # y
  BY <1>2, <1>4
<1> DEFINE A == V \ {x}
           B == V \ {y}
           C == V \ {x, y}
<1>6. A \in SUBSET V /\ B \in SUBSET V /\ C \in SUBSET V /\ y \in A /\ x \in B /\ A # V /\ B # V
      /\ A \ {y} = C /\ B \ {x} = C
  BY <1>5
<1>7. x.delta \in Int /\ y.delta \in Int
  BY <1>3 DEF Cond
<1> HIDE DEF A, B, C
<1>8. DeltaSum(A) = y.delta + DeltaSum(C)
  <2>1. ~Bad(A)
    BY <1>3, <1>6
  <2> QED BY <1>6, <2>1
<1>9. DeltaSum(B) = x.delta + DeltaSum(C)
  <2>1. ~Bad(B)
    BY <1>3, <1>6
  <2> QED BY <1>6, <2>1
<1>10. DeltaSum(C) \in Int
  BY <1>3, <1>6, DeltaSumStep
<1>11. DeltaSum(V) = x.delta + DeltaSum(A)
  BY <1>4 DEF A
<1>12. DeltaSum(V) # y.delta + DeltaSum(B)
  BY <1>2 DEF B
<1> QED BY <1>7, <1>8, <1>9, <1>10, <1>11, <1>12

\* What is renamed one by one sums up to the same.
LEMMA DeltaSumImage ==
  ASSUME NEW X \in SUBSET Cond, IsFiniteSet(X), NEW h \in [X -> Cond],
         \A c \in X : h[c].delta = c.delta, \A c, d \in X : h[c] = h[d] => c = d,
         NEW Z \in SUBSET X
  PROVE  DeltaSum({h[c] : c \in Z}) = DeltaSum(Z)
<1> DEFINE Img(W) == {h[c] : c \in W}
           T == {W \in SUBSET X : DeltaSum(Img(W)) # DeltaSum(W)}
<1> SUFFICES ASSUME T # {} PROVE FALSE
  OBVIOUS
<1>1. PICK V \in T : \A R \in T : R \subseteq V => R = V
  <2>1. T \in SUBSET (SUBSET X)
    OBVIOUS
  <2> HIDE DEF T
  <2> QED BY <2>1, LeastSet
<1>2. V \in SUBSET X /\ V \in SUBSET Cond /\ IsFiniteSet(V) /\ DeltaSum(Img(V)) # DeltaSum(V)
  <2>1. V \in SUBSET X /\ DeltaSum(Img(V)) # DeltaSum(V)
    BY <1>1
  <2> QED BY <2>1, FS_Subset
<1>3. \A W \in SUBSET X : Img(W) \in SUBSET Cond /\ IsFiniteSet(Img(W))
  <2>1. ASSUME NEW W \in SUBSET X PROVE Img(W) \in SUBSET Cond /\ IsFiniteSet(Img(W))
    <3>1. IsFiniteSet(W)
      BY FS_Subset
    <3> DEFINE g == [c \in W |-> h[c]]
               I == {g[c] : c \in W}
    <3>4. g \in [W -> I] /\ g \in Surjection(W, I)
      BY DEF Surjection
    <3>5. I = Img(W)
      OBVIOUS
    <3> HIDE DEF g, I
    <3>2. IsFiniteSet(Img(W))
      BY <3>1, <3>4, <3>5, FS_Surjection
    <3> QED BY <3>2
  <2> QED BY <2>1
<1>4. V # {}
  <2>1. ASSUME V = {} PROVE FALSE
    <3>1. Img(V) = V
      BY <2>1
    <3> QED BY <1>2, <3>1
  <2> QED BY <2>1
<1>5. PICK y \in V : TRUE
  BY <1>4
<1> DEFINE W == V \ {y}
<1>6. W \in SUBSET X /\ W # V /\ W \subseteq V
  BY <1>2, <1>5
<1>7. DeltaSum(Img(W)) = DeltaSum(W)
  <2>1. W \notin T
    BY <1>1, <1>6
  <2> QED BY <1>6, <2>1
<1>8. h[y] \in Img(V) /\ Img(V) \ {h[y]} = Img(W) /\ h[y].delta = y.delta
  BY <1>2, <1>5
<1>9. DeltaSum(Img(V)) = h[y].delta + DeltaSum(Img(W))
  <2> DEFINE I == Img(V)
  <2>1. I \in SUBSET Cond /\ IsFiniteSet(I) /\ h[y] \in I /\ I \ {h[y]} = Img(W)
    BY <1>2, <1>3, <1>8
  <2> HIDE DEF I
  <2>2. DeltaSum(I) = h[y].delta + DeltaSum(I \ {h[y]})
    BY <2>1, DeltaSumWithout
  <2> QED BY <2>1, <2>2 DEF I
<1>10. DeltaSum(V) = y.delta + DeltaSum(W)
  BY <1>2, <1>5, DeltaSumWithout
<1> QED BY <1>2, <1>7, <1>8, <1>9, <1>10

-----------------------------------------------------------------------------
(* States *)

CondState ==
  [inGame : BOOLEAN, session : Int, conds : SUBSET Cond, speed : Int, bonus : Int, hidden : BOOLEAN,
   later : SUBSET [session : Int, gives : SUBSET Cond], stored : SUBSET Cond]

Of(X, types) == {c \in X : c.type \in types}

OneOfAKind(X) == \A c, d \in X : c.type = d.type /\ c.id = d.id => c = d

\* EffectsAgree, in a state between two.
InEffect(s) ==
  /\ s \in CondState /\ IsFiniteSet(s.conds) /\ IsFiniteSet(s.stored)
  /\ OneOfAKind(s.conds)
  /\ s.speed = DeltaSum(Of(s.conds, Speeds)) /\ s.bonus = DeltaSum(Of(s.conds, {"attributes"}))
  /\ s.hidden <=> OfType(s, "invisible") # {}

\* What the conditions X do.
DoneBy(s, X) ==
  /\ s.conds = X /\ s.speed = DeltaSum(Of(X, Speeds)) /\ s.bonus = DeltaSum(Of(X, {"attributes"}))
  /\ s.hidden <=> Of(X, {"invisible"}) # {}

\* s and t differ in no more than conditions and effects.
SameBut(s, t) == t.inGame = s.inGame /\ t.session = s.session /\ t.later = s.later /\ t.stored = s.stored

LEMMA InEffectIs ==
  ASSUME NEW s \in CondState
  PROVE  InEffect(s) <=> /\ IsFiniteSet(s.conds) /\ IsFiniteSet(s.stored)
                         /\ OneOfAKind(s.conds) /\ DoneBy(s, s.conds)
BY DEF InEffect, DoneBy, Of, OfType

\* One condition more.
LEMMA OneMore ==
  ASSUME NEW X \in SUBSET Cond, IsFiniteSet(X), NEW c \in Cond, c \notin X, NEW types
  PROVE  /\ X \cup {c} \in SUBSET Cond /\ IsFiniteSet(X \cup {c})
         /\ DeltaSum(Of(X, types)) \in Int
         /\ DeltaSum(Of(X \cup {c}, types)) = DeltaSum(Of(X, types)) + (IF c.type \in types THEN c.delta ELSE 0)
<1>1. X \cup {c} \in SUBSET Cond /\ IsFiniteSet(X \cup {c})
  BY FS_AddElement
<1> DEFINE A == Of(X, types)
           B == Of(X \cup {c}, types)
<1>2. A \in SUBSET Cond /\ B \in SUBSET Cond /\ IsFiniteSet(A) /\ IsFiniteSet(B)
  <2>1. A \subseteq X /\ B \subseteq X \cup {c}
    BY DEF Of
  <2> QED BY <1>1, <2>1, FS_Subset
<1>3. c.delta \in Int
  BY DEF Cond
<1>4. DeltaSum(A) \in Int
  BY <1>2, DeltaSumStep
<1>5. CASE c.type \in types
  <2>1. c \in B /\ B \ {c} = A
    BY <1>5 DEF Of
  <2> HIDE DEF A, B
  <2>2. DeltaSum(B) = c.delta + DeltaSum(A)
    BY <1>2, <2>1, DeltaSumWithout
  <2> QED BY <1>1, <1>3, <1>4, <1>5, <2>2 DEF A, B
<1>6. CASE c.type \notin types
  <2>1. B = A
    BY <1>6 DEF Of
  <2> QED BY <1>1, <1>4, <1>6, <2>1
<1> QED BY <1>5, <1>6

LEMMA StartIs ==
  ASSUME NEW s \in CondState, NEW X \in SUBSET Cond, IsFiniteSet(X), NEW c \in Cond, c \notin X,
         DoneBy([s EXCEPT !.conds = X], X), s.conds = X \cup {c}
  PROVE  LET t == StartCondition(s, c)
         IN  t \in CondState /\ DoneBy(t, X \cup {c}) /\ SameBut(s, t)
<1> DEFINE t == StartCondition(s, c)
           W == X \cup {c}
<1>1. c.type \in {"haste", "paralyze", "attributes", "invisible"} /\ c.delta \in Int
  BY DEF Cond
<1>2. /\ s.speed = DeltaSum(Of(X, Speeds)) /\ s.bonus = DeltaSum(Of(X, {"attributes"}))
      /\ s.hidden <=> Of(X, {"invisible"}) # {}
  BY DEF DoneBy, CondState
<1>3. /\ DeltaSum(Of(W, Speeds)) = DeltaSum(Of(X, Speeds)) + (IF c.type \in Speeds THEN c.delta ELSE 0)
      /\ DeltaSum(Of(W, {"attributes"})) = DeltaSum(Of(X, {"attributes"})) + (IF c.type \in {"attributes"} THEN c.delta ELSE 0)
  BY OneMore
<1>4. s.speed \in Int /\ s.bonus \in Int
  BY DEF CondState
<1>5. Of(W, {"invisible"}) # {} <=> Of(X, {"invisible"}) # {} \/ c.type = "invisible"
  BY DEF Of
<1>6. CASE c.type \in Speeds
  <2>1. t = [s EXCEPT !.speed = s.speed + c.delta]
    BY <1>6 DEF StartCondition, ChangeSpeed, Speeds
  <2>2. t \in CondState /\ t.speed = s.speed + c.delta /\ t.bonus = s.bonus /\ t.hidden = s.hidden /\ t.conds = W /\ SameBut(s, t)
    BY <1>1, <1>4, <2>1 DEF CondState, SameBut
  <2> HIDE DEF t, W
  <2>3. c.type \notin {"attributes"} /\ c.type # "invisible"
    BY <1>6 DEF Speeds
  <2>5. DoneBy(t, W)
    BY <1>2, <1>3, <1>4, <1>5, <1>6, <2>2, <2>3 DEF DoneBy
  <2> QED BY <2>2, <2>5 DEF t, W
<1>7. CASE c.type = "attributes"
  <2>1. t = [s EXCEPT !.bonus = s.bonus + c.delta]
    BY <1>7 DEF StartCondition, SetVarSkills, Speeds
  <2>2. t \in CondState /\ t.bonus = s.bonus + c.delta /\ t.speed = s.speed /\ t.hidden = s.hidden /\ t.conds = W /\ SameBut(s, t)
    BY <1>1, <1>4, <2>1 DEF CondState, SameBut
  <2> HIDE DEF t, W
  <2>3. c.type \in {"attributes"} /\ c.type # "invisible" /\ c.type \notin Speeds
    BY <1>7 DEF Speeds
  <2>5. DoneBy(t, W)
    BY <1>2, <1>3, <1>4, <1>5, <1>7, <2>2, <2>3 DEF DoneBy
  <2> QED BY <2>2, <2>5 DEF t, W
<1>8. CASE c.type = "invisible"
  <2>1. t = [s EXCEPT !.hidden = TRUE]
    BY <1>8 DEF StartCondition, Speeds
  <2>2. t \in CondState /\ t.hidden = TRUE /\ t.speed = s.speed /\ t.bonus = s.bonus /\ t.conds = W /\ SameBut(s, t)
    BY <1>1, <1>4, <2>1 DEF CondState, SameBut
  <2> HIDE DEF t, W
  <2>3. c.type \notin {"attributes"} /\ c.type \notin Speeds
    BY <1>8 DEF Speeds
  <2>5. DoneBy(t, W)
    BY <1>2, <1>3, <1>4, <1>5, <1>8, <2>2, <2>3 DEF DoneBy
  <2> QED BY <2>2, <2>5 DEF t, W
<1> QED BY <1>1, <1>6, <1>7, <1>8 DEF Speeds

LEMMA EndIs ==
  ASSUME NEW s \in CondState, NEW X \in SUBSET Cond, IsFiniteSet(X), NEW c \in X,
         DoneBy([s EXCEPT !.conds = X], X), s.conds = X \ {c}
  PROVE  LET t == EndCondition(s, c)
         IN  t \in CondState /\ DoneBy(t, X \ {c}) /\ SameBut(s, t)
<1> DEFINE t == EndCondition(s, c)
           W == X \ {c}
<1>0. W \in SUBSET Cond /\ IsFiniteSet(W) /\ c \notin W /\ c \in Cond /\ W \cup {c} = X
  BY FS_Subset
<1>1. c.type \in {"haste", "paralyze", "attributes", "invisible"} /\ c.delta \in Int
  BY <1>0 DEF Cond
<1>2. /\ s.speed = DeltaSum(Of(X, Speeds)) /\ s.bonus = DeltaSum(Of(X, {"attributes"}))
      /\ s.hidden <=> Of(X, {"invisible"}) # {}
  BY DEF DoneBy, CondState
<1>3. /\ DeltaSum(Of(X, Speeds)) = DeltaSum(Of(W, Speeds)) + (IF c.type \in Speeds THEN c.delta ELSE 0)
      /\ DeltaSum(Of(X, {"attributes"})) = DeltaSum(Of(W, {"attributes"})) + (IF c.type \in {"attributes"} THEN c.delta ELSE 0)
      /\ DeltaSum(Of(W, Speeds)) \in Int /\ DeltaSum(Of(W, {"attributes"})) \in Int
  <2> HIDE DEF W
  <2>1. \A types : /\ DeltaSum(Of(W, types)) \in Int
                   /\ DeltaSum(Of(W \cup {c}, types)) = DeltaSum(Of(W, types)) + (IF c.type \in types THEN c.delta ELSE 0)
    BY <1>0, OneMore
  <2> QED BY <1>0, <2>1
<1>4. s.speed \in Int /\ s.bonus \in Int
  BY DEF CondState
<1>5. /\ c.type # "invisible" => (Of(W, {"invisible"}) # {} <=> Of(X, {"invisible"}) # {})
      /\ OfType(s, "invisible") = Of(W, {"invisible"})
  BY DEF Of, OfType
<1>6. CASE c.type \in Speeds
  <2>1. t = [s EXCEPT !.speed = s.speed + (-c.delta)]
    BY <1>6 DEF EndCondition, ChangeSpeed, Speeds
  <2>2. t \in CondState /\ t.speed = s.speed - c.delta /\ t.bonus = s.bonus /\ t.hidden = s.hidden /\ t.conds = W /\ SameBut(s, t)
    BY <1>1, <1>4, <2>1 DEF CondState, SameBut
  <2> HIDE DEF t, W
  <2>3. c.type \notin {"attributes"} /\ c.type # "invisible"
    BY <1>6 DEF Speeds
  <2>5. DoneBy(t, W)
    BY <1>1, <1>2, <1>3, <1>4, <1>5, <1>6, <2>2, <2>3 DEF DoneBy
  <2> QED BY <2>2, <2>5 DEF t, W
<1>7. CASE c.type = "attributes"
  <2>1. t = [s EXCEPT !.bonus = s.bonus + (-c.delta)]
    BY <1>7 DEF EndCondition, SetVarSkills, Speeds
  <2>2. t \in CondState /\ t.bonus = s.bonus - c.delta /\ t.speed = s.speed /\ t.hidden = s.hidden /\ t.conds = W /\ SameBut(s, t)
    BY <1>1, <1>4, <2>1 DEF CondState, SameBut
  <2> HIDE DEF t, W
  <2>3. c.type \in {"attributes"} /\ c.type # "invisible" /\ c.type \notin Speeds
    BY <1>7 DEF Speeds
  <2>5. DoneBy(t, W)
    BY <1>1, <1>2, <1>3, <1>4, <1>5, <1>7, <2>2, <2>3 DEF DoneBy
  <2> QED BY <2>2, <2>5 DEF t, W
<1>8. CASE c.type = "invisible"
  <2> DEFINE b == OfType(s, "invisible") # {}
  <2>1. t = [s EXCEPT !.hidden = b] /\ b \in BOOLEAN
    BY <1>8 DEF EndCondition, Speeds
  <2>4. b <=> Of(W, {"invisible"}) # {}
    BY <1>5
  <2> HIDE DEF b
  <2>2. t \in CondState /\ t.hidden = b /\ t.speed = s.speed /\ t.bonus = s.bonus /\ t.conds = W /\ SameBut(s, t)
    BY <1>1, <1>4, <2>1 DEF CondState, SameBut
  <2> HIDE DEF t, W
  <2>3. c.type \notin {"attributes"} /\ c.type \notin Speeds
    BY <1>8 DEF Speeds
  <2>5. DoneBy(t, W)
    BY <1>2, <1>3, <1>4, <1>8, <2>2, <2>3, <2>4 DEF DoneBy
  <2> QED BY <2>2, <2>5 DEF t, W
<1> QED BY <1>1, <1>6, <1>7, <1>8 DEF Speeds

LEMMA RenewedIs ==
  ASSUME NEW s, InEffect(s), NEW old \in s.conds, NEW c \in Cond, c.type = old.type, c.id = old.id
  PROVE  InEffect(Renewed(s, old, c)) /\ SameBut(s, Renewed(s, old, c))
<1> DEFINE W == s.conds \ {old}
           X == W \cup {c}
           t == [s EXCEPT !.conds = X]
           d == c.delta - old.delta
           u == ChangeSpeed(t, d)
           v == SetVarSkills(t, d)
<1>1. s \in CondState /\ W \in SUBSET Cond /\ IsFiniteSet(W) /\ old \in Cond /\ old \notin W /\ W \cup {old} = s.conds
  <2>1. s \in CondState /\ IsFiniteSet(s.conds) /\ W \subseteq s.conds
    BY DEF InEffect
  <2> QED BY <2>1, FS_Subset DEF CondState
<1>2. c \notin W
  BY DEF InEffect, OneOfAKind
<1> HIDE DEF W
<1>3. X \in SUBSET Cond /\ IsFiniteSet(X)
  BY <1>1, <1>2, OneMore
<1>4. OneOfAKind(X)
  <2>1. \A e \in W : ~(e.type = c.type /\ e.id = c.id)
    BY <1>1 DEF InEffect, OneOfAKind
  <2>2. \A e \in X : e \in W \/ e = c
    OBVIOUS
  <2>3. \A e, f \in W : e.type = f.type /\ e.id = f.id => e = f
    BY <1>1 DEF InEffect, OneOfAKind
  <2> HIDE DEF X
  <2> QED BY <2>1, <2>2, <2>3 DEF OneOfAKind
<1>5. ASSUME NEW types
      PROVE  /\ DeltaSum(Of(W, types)) \in Int
             /\ DeltaSum(Of(X, types)) = DeltaSum(Of(W, types)) + (IF c.type \in types THEN c.delta ELSE 0)
             /\ DeltaSum(Of(s.conds, types)) = DeltaSum(Of(W, types)) + (IF c.type \in types THEN old.delta ELSE 0)
  <2>1. \A e \in {c, old} : e \in Cond /\ e \notin W
    BY <1>1, <1>2
  <2>2. \A e \in {c, old} : /\ DeltaSum(Of(W, types)) \in Int
                            /\ DeltaSum(Of(W \cup {e}, types)) = DeltaSum(Of(W, types)) + (IF e.type \in types THEN e.delta ELSE 0)
    BY <1>1, <2>1, OneMore
  <2> QED BY <1>1, <2>2
<1>6. Of(X, {"invisible"}) # {} <=> OfType(s, "invisible") # {}
  <2>1. Of(X, {"invisible"}) # {} <=> Of(W, {"invisible"}) # {} \/ c.type = "invisible"
    BY DEF Of
  <2>2. OfType(s, "invisible") # {} <=> Of(W, {"invisible"}) # {} \/ old.type = "invisible"
    BY <1>1 DEF Of, OfType
  <2> QED BY <2>1, <2>2
<1>7. c.type \in {"haste", "paralyze", "attributes", "invisible"} /\ c.delta \in Int /\ old.delta \in Int /\ d \in Int
  BY <1>1 DEF Cond
<1>8. /\ s.speed = DeltaSum(Of(s.conds, Speeds)) /\ s.bonus = DeltaSum(Of(s.conds, {"attributes"}))
      /\ s.hidden <=> Of(X, {"invisible"}) # {}
      /\ s.speed \in Int /\ s.bonus \in Int /\ IsFiniteSet(s.stored)
  BY <1>1, <1>6 DEF InEffect, CondState
<1> HIDE DEF X
<1>9. t \in CondState /\ t.conds = X /\ t.speed = s.speed /\ t.bonus = s.bonus /\ t.hidden = s.hidden /\ SameBut(s, t)
  BY <1>1, <1>3 DEF CondState, SameBut
<1> HIDE DEF t, d
<1>10. CASE Renewed(s, old, c) = s
  BY <1>10 DEF SameBut
<1>11. CASE c.type \in Speeds /\ Renewed(s, old, c) = u
  <2>1. u = [t EXCEPT !.speed = t.speed + d]
    BY DEF ChangeSpeed
  <2>2. /\ u \in CondState /\ u.speed = s.speed + d /\ u.bonus = s.bonus /\ u.hidden = s.hidden /\ u.conds = X
        /\ SameBut(s, u)
    BY <1>7, <1>8, <1>9, <2>1 DEF CondState, SameBut
  <2>3. c.type \notin {"attributes"}
    BY <1>11 DEF Speeds
  <2> HIDE DEF u
  <2>4. u.speed = DeltaSum(Of(X, Speeds)) /\ u.bonus = DeltaSum(Of(X, {"attributes"}))
    BY <1>5, <1>7, <1>8, <1>11, <2>2, <2>3 DEF d
  <2>5. DoneBy(u, X)
    BY <1>8, <2>2, <2>4 DEF DoneBy
  <2>6. InEffect(u)
    BY <1>3, <1>4, <1>8, <2>2, <2>5, InEffectIs DEF SameBut
  <2> QED BY <1>11, <2>2, <2>6
<1>12. CASE c.type = "attributes" /\ Renewed(s, old, c) = v
  <2>1. v = [t EXCEPT !.bonus = t.bonus + d]
    BY DEF SetVarSkills
  <2>2. /\ v \in CondState /\ v.bonus = s.bonus + d /\ v.speed = s.speed /\ v.hidden = s.hidden /\ v.conds = X
        /\ SameBut(s, v)
    BY <1>7, <1>8, <1>9, <2>1 DEF CondState, SameBut
  <2>3. c.type \in {"attributes"} /\ c.type \notin Speeds
    BY <1>12 DEF Speeds
  <2> HIDE DEF v
  <2>4. v.speed = DeltaSum(Of(X, Speeds)) /\ v.bonus = DeltaSum(Of(X, {"attributes"}))
    BY <1>5, <1>7, <1>8, <2>2, <2>3 DEF d
  <2>5. DoneBy(v, X)
    BY <1>8, <2>2, <2>4 DEF DoneBy
  <2>6. InEffect(v)
    BY <1>3, <1>4, <1>8, <2>2, <2>5, InEffectIs DEF SameBut
  <2> QED BY <1>12, <2>2, <2>6
<1>13. CASE c.type = "invisible" /\ Renewed(s, old, c) = t
  <2>3. c.type \notin {"attributes"} /\ c.type \notin Speeds
    BY <1>13 DEF Speeds
  <2>4. t.speed = DeltaSum(Of(X, Speeds)) /\ t.bonus = DeltaSum(Of(X, {"attributes"}))
    BY <1>5, <1>7, <1>8, <1>9, <2>3
  <2>5. DoneBy(t, X)
    BY <1>8, <1>9, <2>4 DEF DoneBy
  <2>6. InEffect(t)
    BY <1>3, <1>4, <1>8, <1>9, <2>5, InEffectIs DEF SameBut
  <2> QED BY <1>9, <1>13, <2>6
<1>14. \/ Renewed(s, old, c) = s
       \/ c.type \in Speeds /\ Renewed(s, old, c) = u
       \/ c.type = "attributes" /\ Renewed(s, old, c) = v
       \/ c.type = "invisible" /\ Renewed(s, old, c) = t
  <2> HIDE DEF u, v
  <2>1. \/ Renewed(s, old, c) = s
        \/ Renewed(s, old, c) = CASE c.type \in Speeds -> u [] c.type = "attributes" -> v [] c.type = "invisible" -> t
    BY DEF Renewed, u, v, t, d, X, W
  <2> QED BY <1>7, <2>1 DEF Speeds
<1> QED BY <1>10, <1>11, <1>12, <1>13, <1>14

LEMMA AddNowIs ==
  ASSUME NEW s, InEffect(s), NEW c \in Cond
  PROVE  InEffect(AddNow(s, c)) /\ SameBut(s, AddNow(s, c))
<1> DEFINE prev == {old \in OfType(s, c.type) : old.id = c.id}
           X == s.conds
           W == X \cup {c}
           t == [s EXCEPT !.conds = W]
           u == StartCondition(t, c)
<1>1. s \in CondState /\ X \in SUBSET Cond /\ IsFiniteSet(X) /\ OneOfAKind(X) /\ DoneBy(s, X) /\ IsFiniteSet(s.stored)
  <2>1. s \in CondState
    BY DEF InEffect
  <2> QED BY <2>1, InEffectIs DEF CondState
<1>2. CASE prev = {}
  <2>1. AddNow(s, c) = u
    BY <1>2 DEF AddNow
  <2>2. \A e \in X : ~(e.type = c.type /\ e.id = c.id)
    BY <1>2 DEF OfType
  <2>3. c \notin X
    BY <2>2
  <2>4. W \in SUBSET Cond /\ IsFiniteSet(W) /\ OneOfAKind(W)
    <3>1. W \in SUBSET Cond /\ IsFiniteSet(W)
      BY <1>1, FS_AddElement
    <3>2. \A e \in W : e \in X \/ e = c
      OBVIOUS
    <3> HIDE DEF W, X, prev
    <3> QED BY <1>1, <2>2, <3>1, <3>2 DEF OneOfAKind
  <2>5. t \in CondState /\ t.conds = X \cup {c} /\ SameBut(s, t) /\ DoneBy([t EXCEPT !.conds = X], X)
    <3>1. t \in CondState /\ t.conds = W /\ SameBut(s, t)
      BY <1>1, <2>4 DEF CondState, SameBut
    <3>2. [t EXCEPT !.conds = X] = s
      BY <1>1 DEF CondState
    <3> QED BY <1>1, <3>1, <3>2
  <2> HIDE DEF t, X, prev
  <2>6. u \in CondState /\ DoneBy(u, X \cup {c}) /\ SameBut(t, u)
    BY <1>1, <2>3, <2>5, StartIs
  <2> HIDE DEF u
  <2>7. InEffect(u)
    <3>1. u.conds = W /\ u.stored = s.stored
      BY <2>5, <2>6 DEF SameBut, DoneBy
    <3> QED BY <1>1, <2>4, <2>6, <3>1, InEffectIs
  <2> QED BY <2>1, <2>5, <2>6, <2>7 DEF SameBut
<1>3. CASE prev # {}
  <2> DEFINE old == AnyOf(prev)
  <2>1. old \in prev
    BY <1>3 DEF AnyOf
  <2>2. AddNow(s, c) = Renewed(s, old, c)
    BY <1>3 DEF AddNow
  <2> HIDE DEF old
  <2>3. old \in s.conds /\ c.type = old.type /\ c.id = old.id
    BY <2>1 DEF OfType
  <2> QED BY <2>2, <2>3, RenewedIs
<1> QED BY <1>2, <1>3

LEMMA EndConditionType ==
  ASSUME NEW t \in CondState, NEW c \in Cond
  PROVE  EndCondition([t EXCEPT !.conds = @ \ {c}], c) \in CondState
<1> DEFINE W == t.conds \ {c}
           u == [t EXCEPT !.conds = W]
           b == OfType(u, "invisible") # {}
           n == -c.delta
<1>1. W \in SUBSET Cond /\ n \in Int /\ c.type \in {"haste", "paralyze", "attributes", "invisible"}
  BY DEF CondState, Cond
<1> HIDE DEF W, n
<1>2. u \in CondState
  BY <1>1 DEF CondState
<1> HIDE DEF u
<1>3. b \in BOOLEAN
  OBVIOUS
<1> HIDE DEF b
<1>4. /\ [u EXCEPT !.speed = @ + n] \in CondState /\ [u EXCEPT !.bonus = @ + n] \in CondState
      /\ [u EXCEPT !.hidden = b] \in CondState
  BY <1>1, <1>2, <1>3 DEF CondState
<1>5. EndCondition(u, c) \in {[u EXCEPT !.speed = @ + n], [u EXCEPT !.bonus = @ + n], [u EXCEPT !.hidden = b]}
  BY <1>1 DEF EndCondition, ChangeSpeed, SetVarSkills, b, n, Speeds
<1> QED BY <1>4, <1>5 DEF u, W

LEMMA EndConditionsIs ==
  ASSUME NEW s, InEffect(s), NEW ended \in SUBSET s.conds
  PROVE  LET t == EndConditions(s, ended)
         IN  InEffect(t) /\ SameBut(s, t) /\ t.conds = s.conds \ ended
<1> DEFINE end(c, t) == EndCondition([t EXCEPT !.conds = @ \ {c}], c)
           op == [c \in ended |-> [t \in CondState |-> end(c, t)]]
           IsFold(f) == f = [Z \in SUBSET ended |-> IF Z = {} THEN s
                             ELSE LET x == AnyOf(Z) IN end(x, f[Z \ {x}])]
           Good(Z, t) == InEffect(t) /\ SameBut(s, t) /\ t.conds = s.conds \ Z
           g == CHOOSE f : IsFold(f)
<1>1. EndConditions(s, ended) = g[ended]
  BY DEF EndConditions, MapThenFoldSet
<1>2. s \in CondState /\ IsFiniteSet(ended) /\ ended \subseteq Cond
  BY FS_Subset DEF InEffect, CondState
<1>3. \E f : IsFold(f)
  <2>1. op \in [ended -> [CondState -> CondState]]
    BY <1>2, EndConditionType
  <2>2. PICK f \in [SUBSET ended -> CondState] : FoldOf(f, ended, s, op)
    <3> DEFINE Y == CondState
    <3>1. s \in Y /\ op \in [ended -> [Y -> Y]]
      BY <1>2, <2>1
    <3> HIDE DEF Y, op
    <3>2. \E f \in [SUBSET ended -> Y] : FoldOf(f, ended, s, op)
      BY <1>2, <3>1, FoldExists
    <3> QED BY <3>2 DEF Y
  <2>3. ASSUME NEW Z \in SUBSET ended
        PROVE  f[Z] = IF Z = {} THEN s ELSE LET x == AnyOf(Z) IN end(x, f[Z \ {x}])
    <3>1. Z = {} => f[Z] = s
      BY <2>2, FoldStep
    <3>2. ASSUME Z # {} PROVE f[Z] = LET x == AnyOf(Z) IN end(x, f[Z \ {x}])
      <4>1. PICK x \in Z : x = (CHOOSE y \in Z : TRUE) /\ f[Z] = op[x][f[Z \ {x}]]
        <5> HIDE DEF op
        <5> QED BY <2>2, <3>2, FoldStep
      <4>2. x \in ended /\ f[Z \ {x}] \in CondState /\ x = AnyOf(Z)
        BY <2>2, <4>1 DEF AnyOf
      <4> HIDE DEF end
      <4>3. op[x][f[Z \ {x}]] = end(x, f[Z \ {x}])
        BY <4>2
      <4> QED BY <4>1, <4>2, <4>3
    <3> QED BY <3>1, <3>2
  <2> HIDE DEF end, op
  <2> QED BY <2>2, <2>3
<1> HIDE DEF end, op
<1>4. IsFold(g)
  <2> HIDE DEF IsFold
  <2> QED BY <1>3
<1> HIDE DEF g
<1> DEFINE T == {Z \in SUBSET ended : ~Good(Z, g[Z])}
<1>5. T = {}
  <2> SUFFICES ASSUME T # {} PROVE FALSE
    OBVIOUS
  <2>1. PICK V \in T : \A R \in T : R \subseteq V => R = V
    <3>1. T \in SUBSET (SUBSET ended)
      OBVIOUS
    <3> HIDE DEF T, IsFold
    <3> QED BY <1>2, <3>1, LeastSet
  <2>2. V \in SUBSET ended /\ ~Good(V, g[V])
    BY <2>1
  <2>3. g[V] = IF V = {} THEN s ELSE LET x == AnyOf(V) IN end(x, g[V \ {x}])
    BY <1>4, <2>2
  <2>4. V # {}
    <3>1. Good({}, s)
      BY DEF SameBut
    <3> HIDE DEF Good
    <3> QED BY <2>2, <2>3, <3>1
  <2> DEFINE x == AnyOf(V)
  <2>5. x \in V /\ g[V] = end(x, g[V \ {x}])
    BY <2>3, <2>4 DEF AnyOf
  <2> HIDE DEF x
  <2> DEFINE t == g[V \ {x}]
             X == t.conds
             W == X \ {x}
             u == [t EXCEPT !.conds = W]
             v == EndCondition(u, x)
  <2>6. Good(V \ {x}, t)
    <3>1. V \ {x} \notin T /\ V \ {x} \in SUBSET ended
      BY <2>1, <2>2, <2>5
    <3> HIDE DEF Good, IsFold
    <3> QED BY <3>1
  <2>7. g[V] = v
    BY <2>5 DEF end
  <2> HIDE DEF t, v, IsFold
  <2>8. /\ t \in CondState /\ X \in SUBSET Cond /\ IsFiniteSet(X) /\ OneOfAKind(X) /\ DoneBy(t, X)
        /\ IsFiniteSet(t.stored) /\ x \in X
    <3>1. t \in CondState
      BY <2>6 DEF InEffect
    <3>2. IsFiniteSet(X) /\ OneOfAKind(X) /\ DoneBy(t, X) /\ IsFiniteSet(t.stored)
      BY <2>6, <3>1, InEffectIs
    <3>3. X = s.conds \ (V \ {x})
      BY <2>6
    <3> QED BY <2>2, <2>5, <3>1, <3>2, <3>3 DEF CondState
  <2>9. W \in SUBSET Cond /\ IsFiniteSet(W) /\ OneOfAKind(W)
    BY <2>8, FS_Subset DEF OneOfAKind
  <2>10. u \in CondState /\ SameBut(t, u) /\ u.conds = X \ {x} /\ DoneBy([u EXCEPT !.conds = X], X)
    <3>1. u \in CondState /\ SameBut(t, u) /\ u.conds = W
      BY <2>8, <2>9 DEF CondState, SameBut
    <3>2. [u EXCEPT !.conds = X] = t
      BY <2>8 DEF CondState
    <3> QED BY <2>8, <3>1, <3>2
  <2>14. X = s.conds \ (V \ {x}) /\ SameBut(s, t)
    BY <2>6
  <2> HIDE DEF u, X
  <2>11. v \in CondState /\ DoneBy(v, X \ {x}) /\ SameBut(u, v)
    BY <2>8, <2>10, EndIs DEF v
  <2>12. v.conds = W /\ v.stored = t.stored /\ SameBut(s, v)
    BY <2>10, <2>11, <2>14 DEF SameBut, DoneBy
  <2>13. InEffect(v)
    BY <2>8, <2>9, <2>11, <2>12, InEffectIs
  <2>15. W = s.conds \ V
    BY <2>2, <2>5, <2>14
  <2> QED BY <2>2, <2>7, <2>12, <2>13, <2>15
<1>6. Good(ended, g[ended])
  BY <1>5
<1> QED BY <1>1, <1>6

\* What is given back of a player's stored conditions.
GivenBack(s, X) == MapThenFoldSet(LAMBDA c, u : AddNow(u, c), s, LAMBDA c : c, AnyOf, X)

LEMMA ReturnedIs ==
  ASSUME NEW s, InEffect(s), NEW X \in SUBSET Cond, IsFiniteSet(X)
  PROVE  InEffect(GivenBack(s, X)) /\ SameBut(s, GivenBack(s, X))
<1> DEFINE Y == {t \in CondState : InEffect(t)}
           op == [c \in X |-> [t \in Y |-> AddNow(t, c)]]
           IsFold(f) == f = [Z \in SUBSET X |-> IF Z = {} THEN s
                             ELSE LET x == AnyOf(Z) IN AddNow(f[Z \ {x}], x)]
           Good(t) == InEffect(t) /\ SameBut(s, t)
           g == CHOOSE f : IsFold(f)
<1>1. GivenBack(s, X) = g[X]
  BY DEF GivenBack, MapThenFoldSet
<1>2. \A t : InEffect(t) <=> t \in Y
  BY DEF InEffect
<1>3. \E f : IsFold(f)
  <2>1. s \in Y /\ op \in [X -> [Y -> Y]]
    <3> HIDE DEF Y
    <3> QED BY <1>2, AddNowIs
  <2>2. PICK f \in [SUBSET X -> Y] : FoldOf(f, X, s, op)
    <3> HIDE DEF Y, op
    <3> QED BY <2>1, FoldExists
  <2> HIDE DEF Y
  <2>3. ASSUME NEW Z \in SUBSET X
        PROVE  f[Z] = IF Z = {} THEN s ELSE LET x == AnyOf(Z) IN AddNow(f[Z \ {x}], x)
    <3>1. Z = {} => f[Z] = s
      BY <2>2, FoldStep
    <3>2. ASSUME Z # {} PROVE f[Z] = LET x == AnyOf(Z) IN AddNow(f[Z \ {x}], x)
      <4>1. PICK x \in Z : x = (CHOOSE y \in Z : TRUE) /\ f[Z] = op[x][f[Z \ {x}]]
        <5> HIDE DEF op
        <5> QED BY <2>2, <3>2, FoldStep
      <4>2. x \in X /\ f[Z \ {x}] \in Y /\ x = AnyOf(Z)
        BY <2>2, <4>1 DEF AnyOf
      <4>3. op[x][f[Z \ {x}]] = AddNow(f[Z \ {x}], x)
        BY <4>2
      <4> QED BY <4>1, <4>2, <4>3
    <3> QED BY <3>1, <3>2
  <2> HIDE DEF op
  <2> QED BY <2>2, <2>3
<1>4. IsFold(g)
  <2> HIDE DEF IsFold
  <2> QED BY <1>3
<1> HIDE DEF g, op
<1> DEFINE T == {Z \in SUBSET X : ~Good(g[Z])}
<1>5. T = {}
  <2> SUFFICES ASSUME T # {} PROVE FALSE
    OBVIOUS
  <2>1. PICK V \in T : \A R \in T : R \subseteq V => R = V
    <3>1. T \in SUBSET (SUBSET X)
      OBVIOUS
    <3> HIDE DEF T, IsFold
    <3> QED BY <3>1, LeastSet
  <2>2. V \in SUBSET X /\ ~Good(g[V])
    BY <2>1
  <2>3. g[V] = IF V = {} THEN s ELSE LET x == AnyOf(V) IN AddNow(g[V \ {x}], x)
    BY <1>4, <2>2
  <2>4. Good(s)
    BY DEF SameBut
  <2> DEFINE x == AnyOf(V)
  <2>5. V # {} => x \in V
    BY DEF AnyOf
  <2> HIDE DEF x, IsFold
  <2>6. V # {}
    <3> HIDE DEF Good
    <3> QED BY <2>2, <2>3, <2>4
  <2>7. Good(g[V \ {x}])
    <3>1. V \ {x} \notin T /\ V \ {x} \in SUBSET X
      BY <2>1, <2>2, <2>5, <2>6
    <3> HIDE DEF Good
    <3> QED BY <3>1
  <2>8. g[V] = AddNow(g[V \ {x}], x) /\ x \in Cond
    BY <2>2, <2>3, <2>5, <2>6 DEF x
  <2>9. InEffect(g[V]) /\ SameBut(g[V \ {x}], g[V])
    BY <2>7, <2>8, AddNowIs
  <2> QED BY <2>2, <2>7, <2>9 DEF SameBut
<1>6. Good(g[X])
  BY <1>5
<1> QED BY <1>1, <1>6

-----------------------------------------------------------------------------
(* Steps *)

CondGood(s) == InEffect(s) /\ (~s.inGame => s.conds = {})

LEMMA CondInitially == CndInit => CondGood(cnd)
<1> SUFFICES ASSUME CndInit PROVE CondGood(cnd)
  OBVIOUS
<1>1. cnd \in CondState /\ cnd.conds = {} /\ cnd.stored = {} /\ cnd.speed = 0 /\ cnd.bonus = 0 /\ ~cnd.hidden /\ cnd.inGame
  BY DEF CndInit, CondState
<1>2. DeltaSum({}) = 0
  BY FS_EmptySet, DeltaSumStep
<1>3. \A types : Of({}, types) = {}
  BY DEF Of
<1>4. DoneBy(cnd, cnd.conds)
  BY <1>1, <1>2, <1>3 DEF DoneBy
<1>5. OneOfAKind(cnd.conds)
  BY <1>1 DEF OneOfAKind
<1> QED BY <1>1, <1>4, <1>5, InEffectIs, FS_EmptySet DEF CondGood

LEMMA SpellIs == Spell \subseteq Cond
  BY ConditionsAssumption DEF Cond

\* What only waits changes no effect.
LEMMA LaterIs ==
  ASSUME NEW s, InEffect(s), NEW L \in SUBSET [session : Int, gives : SUBSET Cond]
  PROVE  LET t == [s EXCEPT !.later = L]
         IN  InEffect(t) /\ t.inGame = s.inGame /\ t.conds = s.conds /\ t.later = L
<1> DEFINE t == [s EXCEPT !.later = L]
<1>1. s \in CondState
  BY DEF InEffect
<1>2. /\ t \in CondState /\ t.conds = s.conds /\ t.speed = s.speed /\ t.bonus = s.bonus /\ t.hidden = s.hidden
      /\ t.stored = s.stored /\ t.inGame = s.inGame /\ t.later = L
  BY <1>1 DEF CondState
<1> HIDE DEF t
<1>3. DoneBy(t, t.conds) /\ IsFiniteSet(t.conds) /\ IsFiniteSet(t.stored) /\ OneOfAKind(t.conds)
  BY <1>1, <1>2, InEffectIs DEF DoneBy
<1> QED BY <1>2, <1>3, InEffectIs DEF t

LEMMA AddConditionIs ==
  ASSUME NEW s, InEffect(s), NEW c \in Cond, NEW walking \in BOOLEAN
  PROVE  InEffect(AddCondition(s, c, walking)) /\ AddCondition(s, c, walking).inGame = s.inGame
<1> DEFINE L == s.later \cup {[session |-> s.session, gives |-> {c}]}
<1>1. L \in SUBSET [session : Int, gives : SUBSET Cond]
  BY DEF InEffect, CondState
<1>2. AddCondition(s, c, walking) \in {[s EXCEPT !.later = L], AddNow(s, c)}
  BY DEF AddCondition
<1> HIDE DEF L
<1>3. InEffect([s EXCEPT !.later = L]) /\ [s EXCEPT !.later = L].inGame = s.inGame
  BY <1>1, LaterIs
<1>4. InEffect(AddNow(s, c)) /\ AddNow(s, c).inGame = s.inGame
  BY AddNowIs DEF SameBut
<1> QED BY <1>2, <1>3, <1>4

LEMMA RemoveConditionIs ==
  ASSUME NEW s, InEffect(s), NEW type, NEW walking \in BOOLEAN
  PROVE  InEffect(RemoveCondition(s, type, walking)) /\ RemoveCondition(s, type, walking).inGame = s.inGame
<1> DEFINE L == s.later \cup {[session |-> s.session, gives |-> {}]}
           X == OfType(s, type)
<1>1. L \in SUBSET [session : Int, gives : SUBSET Cond] /\ X \in SUBSET s.conds
  BY DEF InEffect, CondState, OfType
<1>2. RemoveCondition(s, type, walking) \in {[s EXCEPT !.later = L], EndConditions(s, X)}
  BY DEF RemoveCondition
<1> HIDE DEF L, X
<1>3. InEffect([s EXCEPT !.later = L]) /\ [s EXCEPT !.later = L].inGame = s.inGame
  BY <1>1, LaterIs
<1>4. InEffect(EndConditions(s, X)) /\ EndConditions(s, X).inGame = s.inGame
  BY <1>1, EndConditionsIs DEF SameBut
<1> QED BY <1>2, <1>3, <1>4

LEMMA ElapseIs ==
  ASSUME CondGood(cnd), Elapse
  PROVE  CondGood(cnd')
<1> DEFINE h == [c \in cnd.conds |-> [c EXCEPT !.left = IF c.left > 0 THEN c.left - 1 ELSE c.left]]
           X == cnd.conds
           W == {h[c] : c \in X}
<1>1. cnd \in CondState /\ X \in SUBSET Cond /\ IsFiniteSet(X) /\ OneOfAKind(X) /\ DoneBy(cnd, X) /\ IsFiniteSet(cnd.stored)
  <2>1. cnd \in CondState
    BY DEF CondGood, InEffect
  <2> QED BY <2>1, InEffectIs DEF CondGood, CondState
<1>2. cnd' = [cnd EXCEPT !.conds = W] /\ cnd.inGame
  <2>1. {[c EXCEPT !.left = IF @ > 0 THEN @ - 1 ELSE @] : c \in cnd.conds} = W
    OBVIOUS
  <2> HIDE DEF W
  <2> QED BY <1>1, <2>1 DEF Elapse, CondState
<1>3. \A c \in X : h[c] \in Cond /\ h[c].delta = c.delta /\ h[c].type = c.type /\ h[c].id = c.id
  <2>1. ASSUME NEW c \in X PROVE h[c] \in Cond /\ h[c].delta = c.delta /\ h[c].type = c.type /\ h[c].id = c.id
    <3> DEFINE n == IF c.left > 0 THEN c.left - 1 ELSE c.left
    <3>1. n \in Nat \cup {-1} /\ c \in Cond
      BY <1>1 DEF Cond
    <3> HIDE DEF n
    <3>2. h[c] = [c EXCEPT !.left = n]
      BY DEF n
    <3> HIDE DEF h
    <3> QED BY <3>1, <3>2 DEF Cond
  <2> QED BY <2>1
<1>4. \A c, d \in X : h[c] = h[d] => c = d
  <2> HIDE DEF h
  <2> QED BY <1>1, <1>3 DEF OneOfAKind
<1>5. h \in [X -> Cond]
  <2>1. h = [c \in X |-> h[c]]
    OBVIOUS
  <2> HIDE DEF h
  <2> QED BY <1>3, <2>1
<1> HIDE DEF h
<1>6. ASSUME NEW types
      PROVE  /\ DeltaSum(Of(W, types)) = DeltaSum(Of(X, types))
             /\ Of(W, types) # {} <=> Of(X, types) # {}
  <2>1. Of(W, types) = {h[c] : c \in Of(X, types)}
    BY <1>3 DEF Of
  <2>2. Of(X, types) \in SUBSET X
    BY DEF Of
  <2>3. DeltaSum({h[c] : c \in Of(X, types)}) = DeltaSum(Of(X, types))
    <3> HIDE DEF X
    <3> QED BY <1>1, <1>3, <1>4, <1>5, <2>2, DeltaSumImage
  <2> QED BY <2>1, <2>3
<1>7. W \in SUBSET Cond /\ IsFiniteSet(W)
  <2>1. h \in [X -> W] /\ h \in Surjection(X, W)
    BY <1>5 DEF Surjection
  <2> HIDE DEF W, X
  <2>2. IsFiniteSet(W)
    BY <1>1, <2>1, FS_Surjection
  <2> QED BY <1>3, <2>2 DEF W
<1>8. OneOfAKind(W)
  BY <1>1, <1>3 DEF OneOfAKind
<1> HIDE DEF W
<1>9. /\ cnd' \in CondState /\ cnd'.conds = W /\ cnd'.speed = cnd.speed /\ cnd'.bonus = cnd.bonus
      /\ cnd'.hidden = cnd.hidden /\ cnd'.stored = cnd.stored /\ cnd'.inGame = cnd.inGame
  BY <1>1, <1>2, <1>7 DEF CondState
<1>10. DoneBy(cnd', W)
  BY <1>1, <1>6, <1>9 DEF DoneBy
<1> QED BY <1>1, <1>2, <1>7, <1>8, <1>9, <1>10, InEffectIs DEF CondGood

LEMMA LeavesIs ==
  ASSUME CondGood(cnd), Leaves
  PROVE  CondGood(cnd')
<1>1. PICK dies \in BOOLEAN :
        cnd' = [cnd EXCEPT !.inGame = FALSE, !.conds = {}, !.speed = 0, !.bonus = 0, !.hidden = FALSE,
                           !.stored = IF dies THEN {} ELSE {c \in cnd.conds : Persistent(c)}]
  BY DEF Leaves
<1> DEFINE X == IF dies THEN {} ELSE {c \in cnd.conds : Persistent(c)}
           b == FALSE
           E == {}
<1>2. cnd \in CondState /\ cnd.conds \in SUBSET Cond /\ IsFiniteSet(cnd.conds)
  BY DEF CondGood, InEffect, CondState
<1>3. X \in SUBSET Cond /\ IsFiniteSet(X) /\ b \in BOOLEAN /\ E \in SUBSET Cond
  <2>1. X \subseteq cnd.conds
    OBVIOUS
  <2> QED BY <1>2, <2>1, FS_Subset
<1>4. cnd' = [cnd EXCEPT !.inGame = b, !.conds = E, !.speed = 0, !.bonus = 0, !.hidden = b, !.stored = X]
  BY <1>1
<1>5. ~b /\ E = {}
  OBVIOUS
<1> HIDE DEF X, b, E
<1>6. /\ cnd' \in CondState /\ cnd'.conds = E /\ cnd'.speed = 0 /\ cnd'.bonus = 0 /\ cnd'.hidden = b
      /\ cnd'.stored = X /\ cnd'.inGame = b
  <2>1. cnd' \in CondState
    <3> DEFINE z == 0
    <3>1. cnd' = [cnd EXCEPT !.inGame = b, !.conds = E, !.speed = z, !.bonus = z, !.hidden = b, !.stored = X]
      BY <1>4
    <3>2. z \in Int
      OBVIOUS
    <3> HIDE DEF z
    <3> QED BY <1>2, <1>3, <3>1, <3>2 DEF CondState
  <2>2. cnd'.conds = E /\ cnd'.speed = 0 /\ cnd'.bonus = 0
    BY <1>2, <1>4 DEF CondState
  <2>3. cnd'.stored = X /\ cnd'.inGame = b
    BY <1>2, <1>4 DEF CondState
  <2>4. cnd'.hidden = b
    BY <1>2, <1>4 DEF CondState
  <2> QED BY <2>1, <2>2, <2>3, <2>4
<1>7. DeltaSum({}) = 0
  BY FS_EmptySet, DeltaSumStep
<1>8. \A types : Of({}, types) = {}
  BY DEF Of
<1>9. DoneBy(cnd', cnd'.conds)
  BY <1>5, <1>6, <1>7, <1>8 DEF DoneBy
<1>10. OneOfAKind(cnd'.conds)
  BY <1>5, <1>6 DEF OneOfAKind
<1> QED BY <1>3, <1>5, <1>6, <1>9, <1>10, InEffectIs, FS_EmptySet DEF CondGood

LEMMA ReturnsIs ==
  ASSUME CondGood(cnd), Returns
  PROVE  CondGood(cnd')
<1> DEFINE s == [cnd EXCEPT !.inGame = TRUE, !.session = 1 - @, !.stored = {},
                            !.later = {e \in @ : e.session = cnd.session}]
           b == TRUE
           n == 1 - cnd.session
           E == {}
           L == {e \in cnd.later : e.session = cnd.session}
           t == [cnd EXCEPT !.inGame = b, !.session = n, !.stored = E, !.later = L]
<1>1. cnd \in CondState /\ InEffect(cnd) /\ cnd.conds = {} /\ cnd.stored \in SUBSET Cond /\ IsFiniteSet(cnd.stored)
  BY DEF CondGood, InEffect, CondState, Returns
<1>2. s = t
  BY <1>1 DEF CondState
<1>3. b \in BOOLEAN /\ n \in Int /\ E \in SUBSET Cond /\ L \in SUBSET [session : Int, gives : SUBSET Cond]
      /\ IsFiniteSet(E) /\ b
  BY <1>1, FS_EmptySet DEF CondState
<1> HIDE DEF b, n, E, L
<1>4. /\ t \in CondState /\ t.conds = cnd.conds /\ t.speed = cnd.speed /\ t.bonus = cnd.bonus
      /\ t.hidden = cnd.hidden /\ t.stored = E /\ t.inGame = b
  BY <1>1, <1>3 DEF CondState
<1> HIDE DEF t
<1>5. DoneBy(cnd, cnd.conds) /\ IsFiniteSet(cnd.conds) /\ OneOfAKind(cnd.conds)
  BY <1>1, InEffectIs
<1>6. InEffect(t)
  BY <1>3, <1>4, <1>5, InEffectIs DEF DoneBy
<1>7. cnd' = GivenBack(t, cnd.stored)
  <2>1. cnd' = GivenBack(s, cnd.stored)
    BY DEF Returns, GivenBack
  <2> QED BY <1>2, <2>1
<1>8. InEffect(cnd') /\ SameBut(t, cnd')
  BY <1>1, <1>6, <1>7, ReturnedIs
<1> QED BY <1>3, <1>4, <1>8 DEF CondGood, SameBut

LEMMA ForcedIs ==
  ASSUME CondGood(cnd), Forced
  PROVE  CondGood(cnd')
<1> DEFINE s(e) == [cnd EXCEPT !.later = @ \ {e}]
<1>1. PICK e \in cnd.later :
        cnd' = IF ~s(e).inGame \/ e.session # s(e).session THEN s(e)
               ELSE IF e.gives = {} THEN RemoveCondition(s(e), "paralyze", FALSE)
               ELSE AddNow(s(e), AnyOf(e.gives))
  BY DEF Forced
<1> DEFINE L == cnd.later \ {e}
           t == [cnd EXCEPT !.later = L]
<1>2. cnd \in CondState /\ InEffect(cnd) /\ L \in SUBSET [session : Int, gives : SUBSET Cond] /\ e.gives \in SUBSET Cond
  BY DEF CondGood, InEffect, CondState
<1>3. s(e) = t
  BY <1>2 DEF CondState
<1> HIDE DEF L
<1>4. InEffect(t) /\ t.inGame = cnd.inGame /\ t.conds = cnd.conds
  BY <1>2, LaterIs
<1> HIDE DEF t, s
<1>5. CASE cnd' = t
  BY <1>4, <1>5 DEF CondGood
<1>6. CASE t.inGame /\ cnd' = RemoveCondition(t, "paralyze", FALSE)
  BY <1>4, <1>6, RemoveConditionIs DEF CondGood
<1>7. CASE t.inGame /\ e.gives # {} /\ cnd' = AddNow(t, AnyOf(e.gives))
  <2>1. AnyOf(e.gives) \in Cond
    BY <1>2, <1>7 DEF AnyOf
  <2> QED BY <1>4, <1>7, <2>1, AddNowIs DEF CondGood, SameBut
<1> QED BY <1>1, <1>3, <1>5, <1>6, <1>7

LEMMA CondNext == CondGood(cnd)' <=> CondGood(cnd')
  BY DEF CondGood, InEffect, CondState, OfType, OneOfAKind, Of, Cond, Speeds

LEMMA CondKept == CondGood(cnd) /\ [CndNext]_cnd => CondGood(cnd)'
<1> SUFFICES ASSUME CondGood(cnd), [CndNext]_cnd PROVE CondGood(cnd')
  BY CondNext
<1>1. InEffect(cnd)
  BY DEF CondGood
<1>2. CASE Cast
  BY <1>1, <1>2, SpellIs, AddConditionIs DEF Cast, CondGood
<1>3. CASE Cure
  <2>1. CASE \E c \in Spell, walking \in BOOLEAN : cnd' = RemoveCondition(cnd, c.type, walking)
    BY <1>1, <1>3, <2>1, RemoveConditionIs DEF Cure, CondGood
  <2>2. CASE \E c \in cnd.conds : c.id > 0 /\ cnd' = EndConditions(cnd, {c})
    <3>1. PICK c \in cnd.conds : cnd' = EndConditions(cnd, {c})
      BY <2>2
    <3>2. {c} \in SUBSET cnd.conds
      OBVIOUS
    <3> QED BY <1>1, <1>3, <3>1, <3>2, EndConditionsIs DEF Cure, CondGood, SameBut
  <2> QED BY <1>3, <2>1, <2>2 DEF Cure
<1>4. CASE ExecuteConditions
  <2>1. {c \in cnd.conds : c.left = 0} \in SUBSET cnd.conds
    OBVIOUS
  <2> QED BY <1>1, <1>4, <2>1, EndConditionsIs DEF ExecuteConditions, CondGood, SameBut
<1>5. CASE cnd' = cnd
  BY <1>5
<1> QED BY <1>2, <1>3, <1>4, <1>5, ElapseIs, LeavesIs, ReturnsIs, ForcedIs DEF CndNext

LEMMA CondImplies == CondGood(cnd) => EffectsAgree
<1> SUFFICES ASSUME CondGood(cnd) PROVE EffectsAgree
  OBVIOUS
<1>1. \A types : Total(types) = DeltaSum(Of(cnd.conds, types))
  BY DEF Total, DeltaSum, Of
<1> QED BY <1>1 DEF CondGood, InEffect, EffectsAgree, OneOfAKind

\* The speed, the skills and the visibility of a creature are those that its
\* conditions make up together, for any spells and however many.
THEOREM EffectsAlwaysAgree == CndSpec => []EffectsAgree
BY CondInitially, CondKept, CondImplies, PTL DEF CndSpec

-----------------------------------------------------------------------------
(* Fights *)

Skull == {"none", "white", "red", "black"}

FightState ==
  [inGame : SUBSET Fighter, inPz : SUBSET Fighter, inFight : [Fighter -> Nat \cup {NoFight}],
   pzLocked : SUBSET Fighter, attacked : [Fighter -> SUBSET Fighter],
   hits : [Fighter -> SUBSET Fighter], skull : [Fighter -> Skull], frags : [Fighter -> Nat]]

\* MarksEnd, of a player in a state between two.
Marked(s, p) == p \in s.pzLocked \/ s.attacked[p] # {} \/ s.skull[p] = "white"
Paid(s, p) == s.frags[p] > 0 /\ KillsToRed = 1 => s.skull[p] \in {"red", "black"}
Fights0(s) ==
  /\ s \in FightState
  /\ \A p \in Fighter : /\ Marked(s, p) => p \in s.inGame /\ s.inFight[p] # NoFight
                        /\ s.hits[p] \subseteq s.inGame
                        /\ Paid(s, p)

\* All of it but that p, who is marked, is in a fight.
Almost(s, p) ==
  /\ s \in FightState
  /\ \A q \in Fighter : /\ q # p /\ Marked(s, q) => q \in s.inGame /\ s.inFight[q] # NoFight
                        /\ s.hits[q] \subseteq s.inGame
                        /\ Paid(s, q)

\* t comes of s by what keeps the fights of all going.
GoesOn(s, t) ==
  /\ t.inGame = s.inGame /\ t.inPz = s.inPz /\ t.hits = s.hits
  /\ \A p \in Fighter : t.inFight[p] >= s.inFight[p]

LEMMA GoesOnTwice ==
  ASSUME NEW s \in FightState, NEW t \in FightState, NEW u \in FightState, GoesOn(s, t), GoesOn(t, u)
  PROVE  GoesOn(s, u)
<1>1. \A p \in Fighter : s.inFight[p] \in Int /\ t.inFight[p] \in Int /\ u.inFight[p] \in Int
  BY DEF FightState, NoFight
<1> QED BY <1>1 DEF GoesOn

LEMMA FightConstants ==
  /\ PzLockTicks \in Nat /\ PzLockTicks > 0 /\ WhiteSkullTicks \in Nat /\ WhiteSkullTicks > 0
  /\ KillsToRed \in Nat /\ KillsToBlack \in Nat
  BY FightAssumption

LEMMA AlmostFights ==
  ASSUME NEW s, NEW p \in Fighter
  PROVE  Fights0(s) <=> Almost(s, p) /\ (Marked(s, p) => p \in s.inGame /\ s.inFight[p] # NoFight)
BY DEF Fights0, Almost

LEMMA AddInFightIs ==
  ASSUME NEW s, NEW p \in Fighter, Almost(s, p), p \in s.inGame, NEW ticks \in Nat, ticks > 0
  PROVE  LET t == AddInFight(s, p, ticks) IN
         /\ Fights0(t) /\ GoesOn(s, t) /\ t.inFight[p] > 0
         /\ t.attacked = s.attacked /\ t.skull = s.skull /\ t.pzLocked = s.pzLocked /\ t.frags = s.frags
<1> DEFINE n == IF s.inFight[p] > ticks THEN s.inFight[p] ELSE ticks
           f == [s.inFight EXCEPT ![p] = n]
           t == AddInFight(s, p, ticks)
<1>1. s \in FightState /\ s.inFight[p] \in Int
  BY DEF Almost, FightState, NoFight
<1>2. n \in Nat /\ n > 0 /\ n >= s.inFight[p]
  BY <1>1
<1>3. t = [s EXCEPT !.inFight = f]
  BY DEF AddInFight
<1> HIDE DEF n
<1>4. /\ f \in [Fighter -> Nat \cup {NoFight}]
      /\ \A q \in Fighter : f[q] = IF q = p THEN n ELSE s.inFight[q]
  BY <1>1, <1>2 DEF FightState
<1> HIDE DEF f, t
<1>5. /\ t \in FightState /\ t.inFight = f /\ t.inGame = s.inGame /\ t.inPz = s.inPz /\ t.hits = s.hits
      /\ t.pzLocked = s.pzLocked /\ t.attacked = s.attacked /\ t.skull = s.skull /\ t.frags = s.frags
  BY <1>1, <1>3, <1>4 DEF FightState
<1>6. /\ \A q \in Fighter : s.inFight[q] \in Int /\ f[q] >= s.inFight[q] /\ (q # p => f[q] = s.inFight[q])
      /\ f[p] # NoFight
  BY <1>1, <1>2, <1>4 DEF FightState, NoFight
<1>7. Fights0(t)
  BY <1>5, <1>6 DEF Fights0, Almost, Marked, Paid
<1>8. GoesOn(s, t) /\ t.inFight[p] > 0
  BY <1>2, <1>4, <1>5, <1>6 DEF GoesOn
<1> QED BY <1>5, <1>7, <1>8 DEF t

\* Marking p.
LEMMA MarkingIs ==
  ASSUME NEW s, NEW p \in Fighter, Almost(s, p), p \in s.inGame,
         NEW locked \in SUBSET Fighter, locked = s.pzLocked \/ locked = s.pzLocked \cup {p},
         NEW others \in SUBSET Fighter, NEW skull \in Skull, NEW n \in Nat,
         n > 0 /\ KillsToRed = 1 => skull \in {"red", "black"}
  PROVE  LET t == [s EXCEPT !.pzLocked = locked, !.attacked[p] = others, !.skull[p] = skull, !.frags[p] = n]
         IN  Almost(t, p) /\ GoesOn(s, t)
<1> DEFINE a == [s.attacked EXCEPT ![p] = others]
           k == [s.skull EXCEPT ![p] = skull]
           f == [s.frags EXCEPT ![p] = n]
           t == [s EXCEPT !.pzLocked = locked, !.attacked = a, !.skull = k, !.frags = f]
<1>1. s \in FightState /\ p \in Fighter
  BY DEF Almost
<1>2. [s EXCEPT !.pzLocked = locked, !.attacked[p] = others, !.skull[p] = skull, !.frags[p] = n] = t
  BY <1>1 DEF FightState
<1>3. /\ a \in [Fighter -> SUBSET Fighter] /\ k \in [Fighter -> Skull] /\ f \in [Fighter -> Nat]
      /\ \A q \in Fighter : /\ a[q] = IF q = p THEN others ELSE s.attacked[q]
                            /\ k[q] = IF q = p THEN skull ELSE s.skull[q]
                            /\ f[q] = IF q = p THEN n ELSE s.frags[q]
  BY <1>1 DEF FightState
<1> HIDE DEF a, k, f
<1>4. /\ t \in FightState /\ t.inFight = s.inFight /\ t.inGame = s.inGame /\ t.inPz = s.inPz /\ t.hits = s.hits
      /\ t.pzLocked = locked /\ t.attacked = a /\ t.skull = k /\ t.frags = f
  BY <1>1, <1>3 DEF FightState
<1> HIDE DEF t
<1>5. \A q \in Fighter : s.inFight[q] \in Int
  BY <1>1 DEF FightState, NoFight
<1>6. ASSUME NEW q \in Fighter
      PROVE  /\ q # p /\ Marked(t, q) => q \in t.inGame /\ t.inFight[q] # NoFight
             /\ t.hits[q] \subseteq t.inGame /\ Paid(t, q)
  <2>1. CASE q = p
    BY <1>1, <1>3, <1>4, <2>1 DEF Almost, Paid
  <2>2. CASE q # p
    BY <1>3, <1>4, <2>2 DEF Almost, Paid, Marked
  <2> QED BY <2>1, <2>2
<1>7. Almost(t, p)
  BY <1>4, <1>6 DEF Almost
<1>8. GoesOn(s, t)
  BY <1>4, <1>5 DEF GoesOn
<1> QED BY <1>2, <1>3, <1>4, <1>7, <1>8

LEMMA AddAttackedIs ==
  ASSUME NEW s, NEW p \in Fighter, Almost(s, p), p \in s.inGame, NEW q \in Fighter,
         NEW locked \in SUBSET Fighter, locked = s.pzLocked \/ locked = s.pzLocked \cup {p},
         NEW skull \in Skull, skull = s.skull[p] \/ (s.skull[p] = "none" /\ skull = "white")
  PROVE  LET t == [AddAttacked(s, p, q) EXCEPT !.pzLocked = locked, !.skull[p] = skull]
         IN  Almost(t, p) /\ GoesOn(s, t)
<1> DEFINE others == s.attacked[p] \cup {q}
           n == s.frags[p]
           v == [s EXCEPT !.pzLocked = locked, !.attacked[p] = others, !.skull[p] = skull, !.frags[p] = n]
<1>1. s \in FightState /\ others \in SUBSET Fighter /\ n \in Nat
  BY DEF Almost, FightState
<1>2. n > 0 /\ KillsToRed = 1 => skull \in {"red", "black"}
  BY DEF Almost, Paid
<1>3. [AddAttacked(s, p, q) EXCEPT !.pzLocked = locked, !.skull[p] = skull] = v
  BY <1>1 DEF AddAttacked, FightState
<1> HIDE DEF others, n
<1>4. Almost(v, p) /\ GoesOn(s, v)
  BY <1>1, <1>2, MarkingIs
<1> QED BY <1>3, <1>4


LEMMA StrikesBack ==
  ASSUME NEW s, NEW p \in Fighter, Almost(s, p), p \in s.inGame, NEW q \in Fighter
  PROVE  Almost(AddAttacked(s, p, q), p) /\ GoesOn(s, AddAttacked(s, p, q))
<1> DEFINE t == AddAttacked(s, p, q)
           v == [t EXCEPT !.pzLocked = s.pzLocked, !.skull[p] = s.skull[p]]
<1>1. s \in FightState
  BY DEF Almost
<1>2. s.pzLocked \in SUBSET Fighter /\ s.skull[p] \in Skull
  BY <1>1 DEF FightState
<1>3. Almost(v, p) /\ GoesOn(s, v)
  BY <1>2, AddAttackedIs
<1>4. v = t
  BY <1>1 DEF AddAttacked, FightState
<1> QED BY <1>3, <1>4

LEMMA OnAttackedIs ==
  ASSUME NEW s, Fights0(s), NEW p \in s.inGame, NEW q \in s.inGame, p # q
  PROVE  LET t == OnAttackedCreature(s, p, q)
         IN  Fights0(t) /\ GoesOn(s, t)
<1> DEFINE t == AddInFightTicks(s, q)
           yellow == t.skull[q] = "none" /\ HasAttacked(t, q, p)
           k == IF t.skull[p] = "none" /\ t.skull[q] = "none" THEN "white" ELSE t.skull[p]
           m == [AddAttacked(t, p, q) EXCEPT !.pzLocked = t.pzLocked \cup {p}, !.skull[p] = k]
           u == IF t.skull[p] = "none" /\ yellow THEN AddAttacked(t, p, q)
                ELSE IF HasAttacked(t, q, p) /\ PzLockSkullAttacker THEN t ELSE m
           v == AddInFightTicks(u, p)
<1>1. p \in Fighter /\ q \in Fighter
  BY DEF Fights0, FightState
<1>2. Fights0(t) /\ GoesOn(s, t)
  BY <1>1, AlmostFights, AddInFightIs, FightConstants DEF AddInFightTicks
<1> HIDE DEF t
<1>3. t \in FightState /\ Almost(t, p) /\ p \in t.inGame
  BY <1>1, <1>2, AlmostFights DEF Fights0, GoesOn
<1>4. Almost(t, p) /\ GoesOn(t, t)
  <2>1. \A r \in Fighter : t.inFight[r] \in Int
    BY <1>3 DEF FightState, NoFight
  <2> QED BY <1>3, <2>1 DEF GoesOn
<1>5. Almost(AddAttacked(t, p, q), p) /\ GoesOn(t, AddAttacked(t, p, q))
  BY <1>1, <1>3, StrikesBack
<1>6. Almost(m, p) /\ GoesOn(t, m)
  <2>1. /\ t.pzLocked \cup {p} \in SUBSET Fighter
        /\ k \in Skull /\ (k = t.skull[p] \/ (t.skull[p] = "none" /\ k = "white"))
    BY <1>1, <1>3 DEF FightState, Skull
  <2> HIDE DEF k
  <2> QED BY <1>1, <1>3, <2>1, AddAttackedIs
<1> HIDE DEF m, yellow
<1>7. Almost(u, p) /\ GoesOn(t, u)
  BY <1>4, <1>5, <1>6
<1> HIDE DEF u
<1>8. p \in u.inGame
  BY <1>3, <1>7 DEF GoesOn
<1>9. Fights0(v) /\ GoesOn(u, v)
  BY <1>1, <1>7, <1>8, AddInFightIs, FightConstants DEF AddInFightTicks
<1> HIDE DEF v
<1>10. s \in FightState /\ u \in FightState /\ v \in FightState
  BY <1>7, <1>9 DEF Fights0, Almost
<1>11. GoesOn(s, v)
  BY <1>2, <1>3, <1>7, <1>9, <1>10, GoesOnTwice
<1>12. OnAttackedCreature(s, p, q) = v
  BY <1>3 DEF OnAttackedCreature, v, u, m, k, yellow, t, AddAttacked, FightState
<1> QED BY <1>9, <1>11, <1>12

LEMMA UnjustifiedIs ==
  ASSUME NEW s, Fights0(s), NEW p \in s.inGame
  PROVE  LET t == AddUnjustifiedDead(s, p)
         IN  Fights0(t) /\ GoesOn(s, t) /\ t.inFight = s.inFight
<1> DEFINE n == s.frags[p] + 1
           k == IF s.skull[p] = "black" \/ (KillsToBlack > 0 /\ n > KillsToBlack - 1) THEN "black"
                ELSE IF KillsToRed > 0 /\ n > KillsToRed - 1 THEN "red" ELSE s.skull[p]
           l == s.pzLocked
           a == s.attacked[p]
           v == [s EXCEPT !.pzLocked = l, !.attacked[p] = a, !.skull[p] = k, !.frags[p] = n]
<1>1. /\ s \in FightState /\ p \in Fighter /\ Almost(s, p)
      /\ Marked(s, p) => s.inFight[p] # NoFight
  BY AlmostFights DEF Fights0, FightState
<1>2. /\ l \in SUBSET Fighter /\ l = s.pzLocked /\ a \in SUBSET Fighter /\ a = s.attacked[p]
      /\ n \in Nat /\ n > 0 /\ k \in Skull /\ (KillsToRed = 1 => k \in {"red", "black"})
      /\ k = "white" => s.skull[p] = "white"
  BY <1>1 DEF FightState, Skull
<1>3. AddUnjustifiedDead(s, p) = v
  BY <1>1 DEF AddUnjustifiedDead, FightState
<1> HIDE DEF k, n, l, a
<1>4. /\ Almost(v, p) /\ GoesOn(s, v) /\ v.inFight = s.inFight /\ v.pzLocked = l
      /\ v.attacked[p] = a /\ v.skull[p] = k
  <2>1. n > 0 /\ KillsToRed = 1 => k \in {"red", "black"}
    BY <1>2
  <2>2. l = s.pzLocked \/ l = s.pzLocked \cup {p}
    BY <1>2
  <2>3. l \in SUBSET Fighter /\ a \in SUBSET Fighter /\ n \in Nat /\ k \in Skull
    BY <1>2
  <2>4. Almost(v, p) /\ GoesOn(s, v)
    BY <1>1, <2>1, <2>2, <2>3, MarkingIs
  <2>5. v.inFight = s.inFight /\ v.pzLocked = l /\ v.attacked[p] = a /\ v.skull[p] = k
    BY <1>1, <2>3 DEF FightState
  <2> QED BY <2>4, <2>5
<1> HIDE DEF v
<1>5. Marked(v, p) => p \in v.inGame /\ v.inFight[p] # NoFight
  BY <1>1, <1>2, <1>4 DEF Marked, GoesOn
<1> QED BY <1>1, <1>3, <1>4, <1>5, AlmostFights

LEMMA OnKilledIs ==
  ASSUME NEW s, Fights0(s), NEW p \in s.inGame, NEW q \in Fighter, NEW lastHit
  PROVE  LET t == OnKilledCreature(s, p, q, lastHit)
         IN  Fights0(t) /\ GoesOn(s, t)
<1> DEFINE t == IF s.skull[q] = "none" THEN AddUnjustifiedDead(s, p) ELSE s
           u == [t EXCEPT !.pzLocked = @ \cup {p}]
<1>1. Fights0(s) /\ GoesOn(s, s)
  <2>1. \A r \in Fighter : s.inFight[r] \in Int
    BY DEF Fights0, FightState, NoFight
  <2> QED BY <2>1 DEF GoesOn
<1>2. Fights0(t) /\ GoesOn(s, t)
  BY <1>1, UnjustifiedIs
<1> HIDE DEF t
<1>3. t \in FightState /\ s \in FightState /\ p \in Fighter /\ p \in t.inGame /\ Almost(t, p)
  BY <1>2, AlmostFights DEF Fights0, FightState, GoesOn
<1>4. Almost(u, p) /\ GoesOn(t, u)
  <2> DEFINE l == t.pzLocked \cup {p}
             a == t.attacked[p]
             k == t.skull[p]
             n == t.frags[p]
             v == [t EXCEPT !.pzLocked = l, !.attacked[p] = a, !.skull[p] = k, !.frags[p] = n]
  <2>1. /\ l \in SUBSET Fighter /\ l = t.pzLocked \cup {p} /\ a \in SUBSET Fighter
        /\ k \in Skull /\ n \in Nat /\ (n > 0 /\ KillsToRed = 1 => k \in {"red", "black"})
    BY <1>3 DEF FightState, Almost, Paid
  <2>3. v = u
    BY <1>3 DEF FightState
  <2> HIDE DEF l, a, k, n
  <2>2. Almost(v, p) /\ GoesOn(t, v)
    BY <1>3, <2>1, MarkingIs
  <2> QED BY <2>2, <2>3
<1> HIDE DEF u
<1> DEFINE v == AddInFight(u, p, WhiteSkullTicks)
<1>5. Fights0(v) /\ GoesOn(u, v)
  <2>1. p \in u.inGame
    BY <1>3, <1>4 DEF GoesOn
  <2> QED BY <1>3, <1>4, <2>1, AddInFightIs, FightConstants
<1> HIDE DEF v
<1>6. GoesOn(s, v)
  <2>1. u \in FightState /\ v \in FightState
    BY <1>4, <1>5 DEF Fights0, Almost
  <2> QED BY <1>2, <1>3, <1>4, <1>5, <2>1, GoesOnTwice
<1>7. OnKilledCreature(s, p, q, lastHit) \in {s, t, v}
  BY DEF OnKilledCreature, t, u, v
<1> QED BY <1>1, <1>2, <1>5, <1>6, <1>7

LEMMA OnEndInFightIs ==
  ASSUME NEW s, Fights0(s), NEW p \in Fighter
  PROVE  LET t == OnEndInFight(s, p)
         IN  /\ Fights0(t) /\ t.inGame = s.inGame /\ t.inPz = s.inPz /\ t.inFight[p] = NoFight
             /\ t.attacked[p] = {} /\ t.skull[p] # "white"
             /\ \A q \in Fighter : q # p => t.inFight[q] = s.inFight[q]
<1> DEFINE f == [s.inFight EXCEPT ![p] = NoFight]
           l == s.pzLocked \ {p}
           a == [s.attacked EXCEPT ![p] = {}]
           k == [s.skull EXCEPT ![p] = IF s.skull[p] \in {"red", "black"} THEN s.skull[p] ELSE "none"]
           t == OnEndInFight(s, p)
<1>1. s \in FightState
  BY DEF Fights0
<1>2. t = [s EXCEPT !.inFight = f, !.pzLocked = l, !.attacked = a, !.skull = k]
  BY <1>1 DEF OnEndInFight, FightState
<1>3. /\ f \in [Fighter -> Nat \cup {NoFight}] /\ l \in SUBSET Fighter /\ a \in [Fighter -> SUBSET Fighter]
      /\ k \in [Fighter -> Skull]
      /\ \A q \in Fighter : q # p => /\ f[q] = s.inFight[q] /\ a[q] = s.attacked[q] /\ k[q] = s.skull[q]
                                     /\ q \in l => q \in s.pzLocked
      /\ f[p] = NoFight /\ p \notin l /\ a[p] = {} /\ k[p] # "white"
      /\ s.skull[p] \in {"red", "black"} => k[p] = s.skull[p]
  BY <1>1 DEF FightState, Skull, NoFight
<1> HIDE DEF f, l, a, k, t
<1>4. /\ t \in FightState /\ t.inFight = f /\ t.inGame = s.inGame /\ t.inPz = s.inPz /\ t.hits = s.hits
      /\ t.pzLocked = l /\ t.attacked = a /\ t.skull = k /\ t.frags = s.frags
  BY <1>1, <1>2, <1>3 DEF FightState
<1>5. ASSUME NEW q \in Fighter
      PROVE  /\ Marked(t, q) => q \in t.inGame /\ t.inFight[q] # NoFight
             /\ t.hits[q] \subseteq t.inGame /\ Paid(t, q)
  <2>1. CASE q = p
    BY <1>3, <1>4, <2>1 DEF Fights0, Paid, Marked
  <2>2. CASE q # p
    BY <1>3, <1>4, <2>2 DEF Fights0, Paid, Marked
  <2> QED BY <2>1, <2>2
<1>6. Fights0(t)
  BY <1>4, <1>5 DEF Fights0
<1> QED BY <1>3, <1>4, <1>6 DEF t

LEMMA LeaveFightIs ==
  ASSUME NEW s, Fights0(s), NEW p \in Fighter
  PROVE  LET t == LeaveFight(s, p)
         IN  Fights0(t) /\ t.inGame = s.inGame \ {p} /\ t.inFight = s.inFight
<1> DEFINE g == s.inGame \ {p}
           z == s.inPz \ {p}
           l == s.pzLocked \ {p}
           a == [s.attacked EXCEPT ![p] = {}]
           h == [q \in Fighter |-> IF q = p THEN {} ELSE s.hits[q] \ {p}]
           k == [s.skull EXCEPT ![p] = IF s.skull[p] = "white" THEN "none" ELSE s.skull[p]]
           t == LeaveFight(s, p)
<1>1. s \in FightState
  BY DEF Fights0
<1>2. t = [s EXCEPT !.inGame = g, !.inPz = z, !.pzLocked = l, !.attacked = a, !.hits = h, !.skull = k]
  BY <1>1 DEF LeaveFight, FightState
<1>3. /\ g \in SUBSET Fighter /\ z \in SUBSET Fighter /\ l \in SUBSET Fighter
      /\ a \in [Fighter -> SUBSET Fighter] /\ h \in [Fighter -> SUBSET Fighter] /\ k \in [Fighter -> Skull]
      /\ \A q \in Fighter : /\ q # p => /\ a[q] = s.attacked[q] /\ k[q] = s.skull[q] /\ (q \in l => q \in s.pzLocked)
                                        /\ (q \in s.inGame => q \in g)
                            /\ h[q] \subseteq s.hits[q] /\ p \notin h[q]
      /\ p \notin l /\ a[p] = {} /\ k[p] # "white"
      /\ s.skull[p] \in {"red", "black"} => k[p] = s.skull[p]
      /\ \A q \in s.inGame : q # p => q \in g
  BY <1>1 DEF FightState, Skull
<1>8. g = s.inGame \ {p}
  OBVIOUS
<1> HIDE DEF g, z, l, a, h, k, t
<1>4. /\ t \in FightState /\ t.inFight = s.inFight /\ t.inGame = g /\ t.inPz = z /\ t.hits = h
      /\ t.pzLocked = l /\ t.attacked = a /\ t.skull = k /\ t.frags = s.frags
  BY <1>1, <1>2, <1>3 DEF FightState
<1>5. ASSUME NEW q \in Fighter
      PROVE  /\ Marked(t, q) => q \in t.inGame /\ t.inFight[q] # NoFight
             /\ t.hits[q] \subseteq t.inGame /\ Paid(t, q)
  <2>1. t.hits[q] \subseteq t.inGame
    BY <1>3, <1>4 DEF Fights0
  <2>2. CASE q = p
    BY <1>3, <1>4, <2>1, <2>2 DEF Fights0, Paid, Marked
  <2>3. CASE q # p
    BY <1>3, <1>4, <2>1, <2>3 DEF Fights0, Paid, Marked
  <2> QED BY <2>2, <2>3
<1>6. Fights0(t)
  BY <1>4, <1>5 DEF Fights0
<1> QED BY <1>4, <1>6, <1>8 DEF t

-----------------------------------------------------------------------------

LEMMA FightSteps ==
  ASSUME Fights0(fgt), FightNext
  PROVE  Fights0(fgt') /\ (~Elapses => \A p \in fgt.inGame \cap fgt'.inGame :
                              \/ fgt'.inFight[p] >= fgt.inFight[p] \/ fgt.inFight[p] = 0
                              \/ p \in fgt'.inPz)
<1>1. fgt \in FightState /\ \A p \in Fighter : fgt.inFight[p] \in Int /\ fgt.inFight[p] >= fgt.inFight[p]
  BY DEF Fights0, FightState, NoFight
<1>2. CASE LogIn
  <2>1. PICK p \in Fighter \ fgt.inGame : \E n \in {fgt.frags[p], 0} :
          fgt' = [fgt EXCEPT !.inGame = @ \cup {p}, !.frags[p] = n,
                             !.skull[p] = IF n = 0 THEN "none" ELSE @]
    BY <1>2 DEF LogIn
  <2>2. PICK n \in {fgt.frags[p], 0} :
          fgt' = [fgt EXCEPT !.inGame = @ \cup {p}, !.frags[p] = n,
                             !.skull[p] = IF n = 0 THEN "none" ELSE @]
    BY <2>1
  <2> DEFINE g == fgt.inGame \cup {p}
             f == [fgt.frags EXCEPT ![p] = n]
             k == [fgt.skull EXCEPT ![p] = IF n = 0 THEN "none" ELSE fgt.skull[p]]
  <2>3. fgt' = [fgt EXCEPT !.inGame = g, !.frags = f, !.skull = k]
    BY <1>1, <2>2 DEF FightState
  <2>4. /\ g \in SUBSET Fighter /\ f \in [Fighter -> Nat] /\ k \in [Fighter -> Skull]
        /\ \A q \in Fighter : /\ q # p => f[q] = fgt.frags[q] /\ k[q] = fgt.skull[q]
                              /\ q \in fgt.inGame => q \in g
        /\ f[p] = n /\ p \in g /\ (n # 0 => n = fgt.frags[p] /\ k[p] = fgt.skull[p])
        /\ (k[p] = "white" => fgt.skull[p] = "white") /\ ~(n > 0 /\ n = 0) /\ n \in Nat
    BY <1>1, <2>1 DEF FightState, Skull
  <2> HIDE DEF g, f, k
  <2>5. /\ fgt' \in FightState /\ fgt'.inGame = g /\ fgt'.inPz = fgt.inPz /\ fgt'.inFight = fgt.inFight
        /\ fgt'.pzLocked = fgt.pzLocked /\ fgt'.attacked = fgt.attacked /\ fgt'.hits = fgt.hits
        /\ fgt'.frags = f /\ fgt'.skull = k
    BY <1>1, <2>3, <2>4 DEF FightState
  <2>6. ASSUME NEW q \in Fighter
        PROVE  /\ Marked(fgt', q) => q \in fgt'.inGame /\ fgt'.inFight[q] # NoFight
               /\ fgt'.hits[q] \subseteq fgt'.inGame /\ Paid(fgt', q)
    <3>1. fgt'.hits[q] \subseteq fgt'.inGame
      BY <1>1, <2>4, <2>5 DEF Fights0, FightState
    <3>2. CASE q = p
      BY <2>4, <2>5, <3>1, <3>2 DEF Fights0, Paid, Marked
    <3>3. CASE q # p
      BY <2>4, <2>5, <3>1, <3>3 DEF Fights0, Paid, Marked
    <3> QED BY <3>2, <3>3
  <2>7. Fights0(fgt')
    BY <2>5, <2>6 DEF Fights0
  <2> QED BY <1>1, <2>5, <2>7 DEF FightState
<1>3. CASE LogOut
  <2>1. PICK p \in fgt.inGame : fgt' = LeaveFight(fgt, p)
    BY <1>3 DEF LogOut
  <2>2. p \in Fighter
    BY <1>1 DEF FightState
  <2>3. Fights0(fgt') /\ fgt'.inFight = fgt.inFight
    BY <2>1, <2>2, LeaveFightIs
  <2> QED BY <1>1, <2>3 DEF FightState
<1>4. CASE Attack
  <2> DEFINE s(p, q) == AddInFightTicks(OnAttackedCreature(fgt, p, q), q)
  <2>1. PICK p, q \in fgt.inGame \ fgt.inPz :
          p # q /\ (fgt' = s(p, q) \/ fgt' = [s(p, q) EXCEPT !.hits[q] = @ \cup {p}])
    BY <1>4 DEF Attack
  <2> DEFINE t == OnAttackedCreature(fgt, p, q)
             u == AddInFightTicks(t, q)
             h == [u.hits EXCEPT ![q] = u.hits[q] \cup {p}]
             v == [u EXCEPT !.hits = h]
  <2>2. p \in Fighter /\ q \in Fighter
    BY <1>1 DEF FightState
  <2>3. Fights0(t) /\ GoesOn(fgt, t)
    BY <2>1, OnAttackedIs
  <2>4. fgt' = u \/ fgt' = [u EXCEPT !.hits[q] = @ \cup {p}]
    BY <2>1
  <2> HIDE DEF t, s
  <2>5. Fights0(u) /\ GoesOn(t, u)
    <3>1. Almost(t, q) /\ q \in t.inGame
      BY <2>1, <2>2, <2>3, AlmostFights DEF GoesOn
    <3> QED BY <2>2, <3>1, AddInFightIs, FightConstants DEF AddInFightTicks
  <2> HIDE DEF u
  <2>6. t \in FightState /\ u \in FightState
    BY <2>3, <2>5 DEF Fights0
  <2>7. GoesOn(fgt, u)
    BY <1>1, <2>3, <2>5, <2>6, GoesOnTwice
  <2>8. fgt' = u \/ fgt' = v
    BY <2>4, <2>6 DEF FightState
  <2>9. /\ h \in [Fighter -> SUBSET Fighter]
        /\ \A r \in Fighter : h[r] \subseteq u.hits[r] \cup {p}
    BY <2>2, <2>6 DEF FightState
  <2> HIDE DEF h
  <2>10. /\ v \in FightState /\ v.inGame = u.inGame /\ v.inPz = u.inPz /\ v.inFight = u.inFight
         /\ v.pzLocked = u.pzLocked /\ v.attacked = u.attacked /\ v.hits = h
         /\ v.frags = u.frags /\ v.skull = u.skull
    BY <2>6, <2>9 DEF FightState
  <2> HIDE DEF v
  <2>11. \A r \in Fighter : v.hits[r] \subseteq v.inGame
    BY <2>1, <2>5, <2>7, <2>9, <2>10 DEF GoesOn, Fights0
  <2>12. Fights0(v)
    BY <2>5, <2>10, <2>11 DEF Fights0, Marked, Paid
  <2>13. Fights0(fgt') /\ fgt'.inFight = u.inFight
    BY <2>5, <2>8, <2>10, <2>12
  <2> QED BY <1>1, <2>7, <2>13 DEF GoesOn, FightState
<1>5. CASE Die
  <2> DEFINE dies(p, m, q) ==
        LET s == OnKilledCreature(fgt, p, q, TRUE)
            t == [s EXCEPT !.attacked = [x \in Fighter |-> IF x \in s.hits[q] THEN @[x] \ {q} ELSE @[x]]]
            u == IF m = p THEN t ELSE OnKilledCreature(t, m, q, FALSE)
        IN  LeaveFight(OnEndInFight(u, q), q)
  <2>1. PICK q \in fgt.inGame : \E p, m \in fgt.hits[q] : fgt' = dies(p, m, q)
    BY <1>5 DEF Die
  <2>2. PICK p, m \in fgt.hits[q] : fgt' = dies(p, m, q)
    BY <2>1
  <2>3. p \in fgt.inGame /\ m \in fgt.inGame /\ q \in Fighter
    BY <1>1 DEF Fights0, FightState
  <2> DEFINE s == OnKilledCreature(fgt, p, q, TRUE)
             a == [x \in Fighter |-> IF x \in s.hits[q] THEN s.attacked[x] \ {q} ELSE s.attacked[x]]
             t == [s EXCEPT !.attacked = a]
             w == OnKilledCreature(t, m, q, FALSE)
             u == IF m = p THEN t ELSE w
             v == OnEndInFight(u, q)
  <2>4. fgt' = LeaveFight(v, q)
    BY <2>2
  <2>5. Fights0(s) /\ GoesOn(fgt, s)
    BY <2>3, OnKilledIs
  <2> HIDE DEF s, dies
  <2>6. /\ s \in FightState /\ a \in [Fighter -> SUBSET Fighter]
        /\ \A x \in Fighter : a[x] \subseteq s.attacked[x]
    BY <2>5 DEF Fights0, FightState
  <2> HIDE DEF a
  <2>7. /\ t \in FightState /\ t.inGame = s.inGame /\ t.inPz = s.inPz /\ t.inFight = s.inFight
        /\ t.pzLocked = s.pzLocked /\ t.attacked = a /\ t.hits = s.hits
        /\ t.frags = s.frags /\ t.skull = s.skull
    BY <2>6 DEF FightState
  <2> HIDE DEF t
  <2>8. ASSUME NEW x \in Fighter PROVE Marked(t, x) => Marked(s, x)
    BY <2>6, <2>7 DEF Marked
  <2>9. Fights0(t) /\ GoesOn(fgt, t)
    BY <2>5, <2>7, <2>8 DEF Fights0, Paid, GoesOn
  <2>10. Fights0(u) /\ GoesOn(fgt, u)
    <3>1. m \in t.inGame
      BY <2>3, <2>9 DEF GoesOn
    <3>2. Fights0(w) /\ GoesOn(t, w)
      BY <2>3, <2>9, <3>1, OnKilledIs
    <3> HIDE DEF w
    <3>3. w \in FightState
      BY <3>2 DEF Fights0
    <3>4. GoesOn(fgt, w)
      BY <1>1, <2>7, <2>9, <3>2, <3>3, GoesOnTwice
    <3> QED BY <2>9, <3>2, <3>4
  <2> HIDE DEF u
  <2>11. /\ Fights0(v) /\ v.inGame = u.inGame /\ v.inPz = u.inPz
         /\ \A x \in Fighter : x # q => v.inFight[x] = u.inFight[x]
    BY <2>3, <2>10, OnEndInFightIs
  <2> HIDE DEF v
  <2>12. Fights0(fgt') /\ fgt'.inGame = v.inGame \ {q} /\ fgt'.inFight = v.inFight
    BY <2>3, <2>4, <2>11, LeaveFightIs
  <2> QED BY <1>1, <2>10, <2>11, <2>12 DEF GoesOn, FightState
<1>6. CASE EnterPz
  <2> DEFINE s(p) == [fgt EXCEPT !.inPz = @ \cup {p}]
  <2>1. PICK p \in fgt.inGame \ (fgt.inPz \cup fgt.pzLocked) :
          fgt' = IF s(p).inFight[p] = NoFight THEN s(p) ELSE OnEndInFight(s(p), p)
    BY <1>6 DEF EnterPz
  <2> DEFINE z == fgt.inPz \cup {p}
             t == [fgt EXCEPT !.inPz = z]
             u == OnEndInFight(t, p)
  <2>2. p \in Fighter /\ (fgt' = t \/ fgt' = u)
    BY <1>1, <2>1 DEF FightState
  <2>3. z \in SUBSET Fighter /\ p \in z
    BY <1>1, <2>2 DEF FightState
  <2> HIDE DEF z
  <2>4. /\ t \in FightState /\ t.inGame = fgt.inGame /\ t.inPz = z /\ t.inFight = fgt.inFight
        /\ t.pzLocked = fgt.pzLocked /\ t.attacked = fgt.attacked /\ t.hits = fgt.hits
        /\ t.frags = fgt.frags /\ t.skull = fgt.skull
    BY <1>1, <2>3 DEF FightState
  <2> HIDE DEF t
  <2>5. Fights0(t)
    BY <2>4 DEF Fights0, Marked, Paid
  <2>6. /\ Fights0(u) /\ u.inPz = t.inPz
        /\ \A x \in Fighter : x # p => u.inFight[x] = t.inFight[x]
    BY <2>2, <2>5, OnEndInFightIs
  <2> HIDE DEF u
  <2> QED BY <1>1, <2>2, <2>3, <2>4, <2>5, <2>6 DEF FightState
<1>7. CASE LeavePz
  <2>1. PICK p \in fgt.inPz : fgt' = [fgt EXCEPT !.inPz = @ \ {p}]
    BY <1>7 DEF LeavePz
  <2>2. /\ fgt' \in FightState /\ fgt'.inGame = fgt.inGame /\ fgt'.inFight = fgt.inFight
        /\ fgt'.pzLocked = fgt.pzLocked /\ fgt'.attacked = fgt.attacked /\ fgt'.hits = fgt.hits
        /\ fgt'.frags = fgt.frags /\ fgt'.skull = fgt.skull
    BY <1>1, <2>1 DEF FightState
  <2>3. Fights0(fgt')
    BY <2>2 DEF Fights0, Marked, Paid
  <2> QED BY <1>1, <2>2, <2>3 DEF FightState
<1>8. CASE Elapses
  <2> DEFINE f == [p \in Fighter |-> IF p \in fgt.inGame /\ fgt.inFight[p] > 0
                                     THEN fgt.inFight[p] - 1 ELSE fgt.inFight[p]]
  <2>1. fgt' = [fgt EXCEPT !.inFight = f]
    BY <1>8 DEF Elapses
  <2>2. /\ f \in [Fighter -> Nat \cup {NoFight}]
        /\ \A p \in Fighter : fgt.inFight[p] # NoFight => f[p] # NoFight
    BY <1>1 DEF FightState, NoFight
  <2> HIDE DEF f
  <2>3. /\ fgt' \in FightState /\ fgt'.inGame = fgt.inGame /\ fgt'.inFight = f
        /\ fgt'.pzLocked = fgt.pzLocked /\ fgt'.attacked = fgt.attacked /\ fgt'.hits = fgt.hits
        /\ fgt'.frags = fgt.frags /\ fgt'.skull = fgt.skull
    BY <1>1, <2>1, <2>2 DEF FightState
  <2>4. Fights0(fgt')
    BY <2>2, <2>3 DEF Fights0, Marked, Paid
  <2> QED BY <1>8, <2>4
<1>9. CASE Think
  <2>1. PICK p \in fgt.inGame : \E n \in {fgt.frags[p], 0} :
          fgt' = IF CheckSkullTicks(fgt, p, n).inFight[p] = 0
                 THEN OnEndInFight(CheckSkullTicks(fgt, p, n), p) ELSE CheckSkullTicks(fgt, p, n)
    BY <1>9 DEF Think
  <2>2. PICK n \in {fgt.frags[p], 0} :
          fgt' = IF CheckSkullTicks(fgt, p, n).inFight[p] = 0
                 THEN OnEndInFight(CheckSkullTicks(fgt, p, n), p) ELSE CheckSkullTicks(fgt, p, n)
    BY <2>1
  <2> DEFINE f == [fgt.frags EXCEPT ![p] = n]
             k == [fgt.skull EXCEPT ![p] = IF fgt.skull[p] \in {"red", "black"} /\ n = 0 /\ fgt.inFight[p] <= 0
                                           THEN "none" ELSE fgt.skull[p]]
             t == [fgt EXCEPT !.frags = f, !.skull = k]
             u == OnEndInFight(t, p)
  <2>3. p \in Fighter /\ CheckSkullTicks(fgt, p, n) = t
    BY <1>1 DEF FightState, CheckSkullTicks
  <2>4. /\ f \in [Fighter -> Nat] /\ k \in [Fighter -> Skull]
        /\ \A q \in Fighter : q # p => f[q] = fgt.frags[q] /\ k[q] = fgt.skull[q]
        /\ f[p] = n /\ n \in Nat /\ ~(n > 0 /\ n = 0) /\ (n # 0 => n = fgt.frags[p] /\ k[p] = fgt.skull[p])
        /\ (k[p] = "white" => fgt.skull[p] = "white")
    BY <1>1, <2>2, <2>3 DEF FightState, Skull
  <2> HIDE DEF f, k
  <2>5. /\ t \in FightState /\ t.inGame = fgt.inGame /\ t.inPz = fgt.inPz /\ t.inFight = fgt.inFight
        /\ t.pzLocked = fgt.pzLocked /\ t.attacked = fgt.attacked /\ t.hits = fgt.hits
        /\ t.frags = f /\ t.skull = k
    BY <1>1, <2>4 DEF FightState
  <2>6. fgt' = IF t.inFight[p] = 0 THEN u ELSE t
    BY <2>2, <2>3
  <2> HIDE DEF t
  <2>7. ASSUME NEW q \in Fighter
        PROVE  /\ Marked(t, q) => q \in t.inGame /\ t.inFight[q] # NoFight
               /\ t.hits[q] \subseteq t.inGame /\ Paid(t, q)
    <3>1. t.hits[q] \subseteq t.inGame
      BY <2>5 DEF Fights0
    <3>2. CASE q = p
      BY <2>4, <2>5, <3>1, <3>2 DEF Fights0, Paid, Marked
    <3>3. CASE q # p
      BY <2>4, <2>5, <3>1, <3>3 DEF Fights0, Paid, Marked
    <3> QED BY <3>2, <3>3
  <2>8. Fights0(t)
    BY <2>5, <2>7 DEF Fights0
  <2>9. /\ Fights0(u) /\ \A x \in Fighter : x # p => u.inFight[x] = t.inFight[x]
    BY <2>3, <2>8, OnEndInFightIs
  <2> HIDE DEF u
  <2>10. CASE t.inFight[p] = 0
    BY <1>1, <2>5, <2>6, <2>9, <2>10 DEF FightState
  <2>11. CASE t.inFight[p] # 0
    BY <1>1, <2>5, <2>6, <2>8, <2>11 DEF FightState
  <2> QED BY <2>10, <2>11
<1> QED BY <1>2, <1>3, <1>4, <1>5, <1>6, <1>7, <1>8, <1>9 DEF FightNext

LEMMA FightInitially == FightInit => Fights0(fgt)
<1> SUFFICES ASSUME FightInit PROVE Fights0(fgt)
  OBVIOUS
<1>1. fgt \in FightState
  BY DEF FightInit, FightState, Skull
<1> QED BY <1>1 DEF FightInit, Fights0, Marked, Paid

LEMMA FightsNext == Fights0(fgt)' <=> Fights0(fgt')
  BY DEF Fights0, FightState, Marked, Paid, Skull

LEMMA FightsKept == Fights0(fgt) /\ [FightNext]_fgt => Fights0(fgt)'
<1> SUFFICES ASSUME Fights0(fgt), [FightNext]_fgt PROVE Fights0(fgt')
  BY FightsNext
<1> QED BY FightSteps

LEMMA FightsImply == Fights0(fgt) => MarksEnd
  BY DEF Fights0, MarksEnd, Marked, Paid

LEMMA FightGoesOnStep == Fights0(fgt) /\ FightNext => FightGoesOn
  BY FightSteps DEF FightGoesOn

\* Whoever is locked out of protection zones, may be struck back at or wears a
\* white skull is in the game and in a fight that the condition ends.
THEOREM MarksAlwaysEnd == FightSpec => []MarksEnd
BY FightInitially, FightsKept, FightsImply, PTL DEF FightSpec

\* No blow and no kill brings the end of a fight closer.
THEOREM FightsOnlyGrow == FightSpec => [][FightGoesOn]_fgt
<1>1. Fights0(fgt) /\ [FightNext]_fgt => [FightGoesOn]_fgt
  BY FightGoesOnStep
<1> QED BY <1>1, FightInitially, FightsKept, PTL DEF FightSpec

-----------------------------------------------------------------------------
(* Decay *)

(***************************************************************************)
(* Every entry of an item is counted: what lists and places an item is in  *)
(* is what its reference counter says, however handlers cross, and its     *)
(* entries are taken up in time.  DecayInv says of each item what lists it *)
(* (Counted), that what is marked is listed (MarkedRight), and how the     *)
(* time it has left and the duration it is given bound each other, bucket  *)
(* by bucket (Timed).                                                      *)
(***************************************************************************)

DcyState ==
  [where : [Item -> {"none", "world", "removed"}], type : [Item -> Type], dur : [Item -> Nat \cup {-1}],
   decaying : SUBSET Item, refs : [Item -> Nat], toRelease : Seq(Item), toDecay : Seq(Item),
   buckets : [Bucket -> Seq(Item)], left : [Item -> Int], again : SUBSET Item, missed : SUBSET Item]

-----------------------------------------------------------------------------
(* How often an item is in a list *)

LEMMA TimesEmpty == \A i : Times(<<>>, i) = 0
BY FS_EmptySet DEF Times

LEMMA TimesNat ==
  ASSUME NEW q \in Seq(Item), NEW i
  PROVE  Times(q, i) \in Nat /\ IsFiniteSet({n \in DOMAIN q : q[n] = i})
<1>1. DOMAIN q = 1..Len(q) /\ Len(q) \in Nat
  OBVIOUS
<1>2. IsFiniteSet(DOMAIN q)
  BY <1>1, FS_Interval
<1>3. IsFiniteSet({n \in DOMAIN q : q[n] = i})
  BY <1>2, FS_Subset
<1> QED BY <1>3, FS_CardinalityType DEF Times

LEMMA TimesAppend ==
  ASSUME NEW q \in Seq(Item), NEW j \in Item, NEW i
  PROVE  Times(Append(q, j), i) = Times(q, i) + (IF i = j THEN 1 ELSE 0)
<1> DEFINE p == Append(q, j)
           S == {n \in DOMAIN q : q[n] = i}
           R == {n \in DOMAIN p : p[n] = i}
<1>1. IsFiniteSet(S) /\ Cardinality(S) \in Nat
  BY TimesNat DEF Times
<1>2. p \in Seq(Item) /\ Len(p) = Len(q) + 1 /\ p[Len(q) + 1] = j /\ \A n \in 1..Len(q) : p[n] = q[n]
  OBVIOUS
<1>3. DOMAIN p = 1..(Len(q) + 1) /\ DOMAIN q = 1..Len(q) /\ Len(q) \in Nat /\ Len(q) + 1 \notin S
  BY <1>2
<1> HIDE DEF p
<1>4. i = j => R = S \cup {Len(q) + 1}
  BY <1>2, <1>3
<1>5. i # j => R = S
  BY <1>2, <1>3
<1> HIDE DEF S, R
<1>6. Cardinality(S \cup {Len(q) + 1}) = Cardinality(S) + 1
  BY <1>1, <1>3, FS_AddElement
<1>7. Cardinality(R) = Cardinality(S) + (IF i = j THEN 1 ELSE 0)
  <2>1. CASE i = j
    BY <1>4, <1>6, <2>1
  <2>2. CASE i # j
    <3>1. R = S /\ Cardinality(S) \in Nat
      BY <1>1, <1>5, <2>2
    <3> QED BY <2>2, <3>1
  <2> QED BY <2>1, <2>2
<1> QED BY <1>7 DEF Times, p, S, R

LEMMA TimesAhead ==
  ASSUME NEW q \in Seq(Item), NEW j \in Item, NEW i
  PROVE  Times(<<j>> \o q, i) = Times(q, i) + (IF i = j THEN 1 ELSE 0)
<1> DEFINE p == <<j>> \o q
           S == {n \in DOMAIN q : q[n] = i}
           T == {n \in 2..(Len(q) + 1) : q[n - 1] = i}
           R == {n \in DOMAIN p : p[n] = i}
           f == [n \in S |-> n + 1]
<1>1. IsFiniteSet(S) /\ Cardinality(S) \in Nat
  BY TimesNat DEF Times
<1>2. p \in Seq(Item) /\ Len(p) = Len(q) + 1 /\ p[1] = j /\ \A n \in 2..(Len(q) + 1) : p[n] = q[n - 1]
  OBVIOUS
<1>3. DOMAIN p = 1..(Len(q) + 1) /\ DOMAIN q = 1..Len(q) /\ Len(q) \in Nat /\ 1 \notin T
  BY <1>2
<1>4. f \in Bijection(S, T)
  <2>1. f \in [S -> T]
    BY <1>3
  <2>2. \A m, n \in S : f[m] = f[n] => m = n
    BY <1>3
  <2>3. \A n \in T : n - 1 \in S /\ f[n - 1] = n
    BY <1>3
  <2> HIDE DEF f, S, T
  <2> QED BY <2>1, <2>2, <2>3 DEF Bijection, Injection, Surjection, IsInjective
<1>5. IsFiniteSet(T) /\ Cardinality(T) = Cardinality(S)
  <2> HIDE DEF f, S, T
  <2>1. ExistsBijection(S, T)
    BY <1>4 DEF ExistsBijection
  <2> QED BY <1>1, <2>1, FS_Bijection
<1> HIDE DEF p
<1>6. i = j => R = T \cup {1}
  BY <1>2, <1>3
<1>7. i # j => R = T
  BY <1>2, <1>3
<1> HIDE DEF S, T, R
<1>8. Cardinality(T \cup {1}) = Cardinality(T) + 1
  BY <1>3, <1>5, FS_AddElement
<1>9. Cardinality(R) = Cardinality(S) + (IF i = j THEN 1 ELSE 0)
  <2>1. CASE i = j
    BY <1>5, <1>6, <1>8, <2>1
  <2>2. CASE i # j
    <3>1. R = T /\ Cardinality(S) \in Nat
      BY <1>1, <1>7, <2>2
    <3> QED BY <1>5, <2>2, <3>1
  <2> QED BY <2>1, <2>2
<1> QED BY <1>9 DEF Times, p, S, R

\* How often an item is in what is left of a list once k entries are taken up.
LeftOver(q, k, i) == Cardinality({n \in (k + 1)..Len(q) : q[n] = i})

LEMMA LeftOverIs ==
  ASSUME NEW q \in Seq(Item), NEW i
  PROVE  /\ LeftOver(q, 0, i) = Times(q, i)
         /\ LeftOver(q, Len(q), i) = 0
         /\ \A k \in 0..Len(q) : LeftOver(q, k, i) \in Nat
         /\ \A k \in 1..Len(q) :
              LeftOver(q, k - 1, i) = LeftOver(q, k, i) + (IF q[k] = i THEN 1 ELSE 0)
<1> DEFINE R(k) == {n \in (k + 1)..Len(q) : q[n] = i}
<1>1. DOMAIN q = 1..Len(q) /\ Len(q) \in Nat
  OBVIOUS
<1>2. ASSUME NEW k \in 0..Len(q) PROVE IsFiniteSet(R(k)) /\ Cardinality(R(k)) \in Nat
  <2>1. IsFiniteSet((k + 1)..Len(q))
    BY <1>1, FS_Interval
  <2> QED BY <2>1, FS_Subset, FS_CardinalityType
<1>3. R(0) = {n \in DOMAIN q : q[n] = i}
  BY <1>1
<1>4. R(Len(q)) = {}
  BY <1>1
<1>5. ASSUME NEW k \in 1..Len(q)
      PROVE  Cardinality(R(k - 1)) = Cardinality(R(k)) + (IF q[k] = i THEN 1 ELSE 0)
  <2>1. k \in 0..Len(q) /\ k \notin R(k)
    BY <1>1
  <2>2. q[k] = i => R(k - 1) = R(k) \cup {k}
    BY <1>1
  <2>3. q[k] # i => R(k - 1) = R(k)
    BY <1>1
  <2>4. IsFiniteSet(R(k)) /\ Cardinality(R(k)) \in Nat
    BY <1>2, <2>1
  <2> HIDE DEF R
  <2>5. Cardinality(R(k) \cup {k}) = Cardinality(R(k)) + 1
    BY <2>1, <2>4, FS_AddElement
  <2>6. CASE q[k] = i
    BY <2>2, <2>5, <2>6
  <2>7. CASE q[k] # i
    <3>1. R(k - 1) = R(k)
      BY <2>3, <2>7
    <3> QED BY <2>4, <2>7, <3>1
  <2> QED BY <2>6, <2>7
<1>6. LeftOver(q, 0, i) = Times(q, i)
  BY <1>3 DEF LeftOver, Times
<1>7. LeftOver(q, Len(q), i) = 0
  BY <1>4, FS_EmptySet DEF LeftOver
<1> QED BY <1>2, <1>5, <1>6, <1>7 DEF LeftOver

-----------------------------------------------------------------------------
(* The invariant *)

\* A type that item marks survive but that does not decay.
Undying(t) == DecayTime[t] = 0 /\ DecayTo[t] # "never" /\ t \notin StopTime

\* Whose time runs, or stands still and goes on later.
TimeRuns(s, i) == s.where[i] = "world" /\ ~Undying(s.type[i]) /\ s.dur[i] # NoDuration

Filed(s, i) == Times(s.buckets[0], i) + Times(s.buckets[1], i)
               + Times(s.buckets[2], i) + Times(s.buckets[3], i)

Lies(s, i) == IF s.where[i] = "world" THEN 1 ELSE 0

\* Of the entries of i, n are registered, x are at hand in checkDecay, the others are
\* filed; h references are due to be released.
Counted(s, i, n, x, h) ==
  /\ s.refs[i] = Filed(s, i) + n + x + h + Lies(s, i)
  /\ s.where[i] = "none" <=> s.refs[i] = 0
  /\ s.where[i] = "none" => i \notin s.decaying
  /\ s.where[i] = "world" /\ DecayTime[s.type[i]] > 0 => s.dur[i] >= 0

MarkedRight(s, i, n, x) ==
  /\ i \in s.decaying /\ s.where[i] = "world" /\ ~Undying(s.type[i])
       => Filed(s, i) + n + x > 0 /\ s.dur[i] > 0
  /\ i \notin s.again => Filed(s, i) + n + x <= 1

\* An entry whose bucket comes up after k others.
InBucket(s, i, k) ==
  /\ s.left[i] >= 2 * k - 1 /\ s.left[i] >= s.dur[i] - 8 + 2 * k
  /\ k >= 1 => s.dur[i] >= 7
  /\ i \notin s.again => s.left[i] <= s.dur[i] - 6 + 2 * k \/ (k = 0 /\ s.left[i] <= 7)

\* Of those at hand, and those registered lag ago.
Timed(s, i, n, x, lag, pos) ==
  /\ TimeRuns(s, i) =>
       /\ \A b \in Bucket : Times(s.buckets[b], i) > 0 => InBucket(s, i, pos[b])
       /\ n > 0 => /\ s.left[i] >= 1 - lag /\ s.left[i] >= s.dur[i] - lag
                   /\ i \notin s.again => s.left[i] <= s.dur[i]
  /\ x > 0 /\ CanDecay(s, i) =>
       /\ s.left[i] >= 0 - 3 /\ s.left[i] >= s.dur[i] - 10
       /\ i \notin s.again => s.left[i] <= s.dur[i] - 8 \/ s.left[i] <= 5

ItemOk(s, i, n, x, h, lag, pos) ==
  Counted(s, i, n, x, h) /\ MarkedRight(s, i, n, x) /\ Timed(s, i, n, x, lag, pos)

\* What an item may be while it decays.
ItemLoose(s, i, n, x, h) ==
  Counted(s, i, n, x, h) /\ (i \notin s.again => x = 0 /\ Filed(s, i) + n <= 1)

Positions == [Bucket -> 0..3]

\* Each item but i, with the entries x at hand and references e in hand.
OthersOk(s, i, x, e, lag, pos) ==
  \A j \in Item \ {i} :
    ItemOk(s, j, Times(s.toDecay, j), x[j], Times(s.toRelease, j) + e[j], lag, pos)

AllOk(s, x, e, lag, pos) ==
  \A j \in Item : ItemOk(s, j, Times(s.toDecay, j), x[j], Times(s.toRelease, j) + e[j], lag, pos)

LEMMA Buckets == Bucket = {0, 1, 2, 3} /\ EVENT_DECAYINTERVAL = 2 /\ EVENT_DECAY_BUCKETS = 4 /\ Round = 8 /\ Second = 8
BY DEF Bucket, EVENT_DECAYINTERVAL, EVENT_DECAY_BUCKETS, Round, Second

LEMMA Counts ==
  ASSUME NEW s \in DcyState, NEW i
  PROVE  /\ \A b \in Bucket : Times(s.buckets[b], i) \in Nat
         /\ Times(s.toDecay, i) \in Nat /\ Times(s.toRelease, i) \in Nat
         /\ Filed(s, i) \in Nat /\ Entries(s, i) = Filed(s, i) + Times(s.toDecay, i)
<1>1. \A b \in Bucket : s.buckets[b] \in Seq(Item)
  BY DEF DcyState
<1>2. s.toDecay \in Seq(Item) /\ s.toRelease \in Seq(Item)
  BY DEF DcyState
<1>3. \A b \in Bucket : Times(s.buckets[b], i) \in Nat
  BY <1>1, TimesNat
<1>4. Times(s.toDecay, i) \in Nat /\ Times(s.toRelease, i) \in Nat
  BY <1>2, TimesNat
<1>5. Filed(s, i) \in Nat /\ Entries(s, i) = Filed(s, i) + Times(s.toDecay, i)
  BY <1>3, <1>4, Buckets DEF Filed, Entries
<1> QED BY <1>3, <1>4, <1>5

-----------------------------------------------------------------------------
(* What an operation leaves alone *)

AsBefore(s, t, j) ==
  /\ t.where[j] = s.where[j] /\ t.type[j] = s.type[j] /\ t.dur[j] = s.dur[j]
  /\ t.refs[j] = s.refs[j] /\ t.left[j] = s.left[j]
  /\ j \in t.decaying <=> j \in s.decaying
  /\ j \in t.again <=> j \in s.again
  /\ \A b \in Bucket : Times(t.buckets[b], j) = Times(s.buckets[b], j)

LEMMA AsBeforeOk ==
  ASSUME NEW s, NEW t, NEW j, NEW n, NEW x, NEW h, NEW lag, NEW pos, AsBefore(s, t, j)
  PROVE  /\ Filed(t, j) = Filed(s, j)
         /\ Counted(s, j, n, x, h) => Counted(t, j, n, x, h)
         /\ ItemOk(s, j, n, x, h, lag, pos) => ItemOk(t, j, n, x, h, lag, pos)
<1>1. Filed(t, j) = Filed(s, j)
  BY Buckets DEF AsBefore, Filed
<1>2. Lies(t, j) = Lies(s, j)
  BY DEF AsBefore, Lies
<1>3. Counted(s, j, n, x, h) => Counted(t, j, n, x, h)
  BY <1>1, <1>2 DEF AsBefore, Counted
<1>4. MarkedRight(s, j, n, x) => MarkedRight(t, j, n, x)
  BY <1>1 DEF AsBefore, MarkedRight
<1>5. TimeRuns(t, j) = TimeRuns(s, j) /\ CanDecay(t, j) = CanDecay(s, j)
  BY DEF AsBefore, TimeRuns, CanDecay
<1>6. \A k : InBucket(s, j, k) => InBucket(t, j, k)
  BY DEF AsBefore, InBucket
<1>7. Timed(s, j, n, x, lag, pos) => Timed(t, j, n, x, lag, pos)
  BY <1>5, <1>6 DEF AsBefore, Timed
<1> QED BY <1>1, <1>3, <1>4, <1>7 DEF ItemOk

\* Operations on one item.
Touches(s, t, i) ==
  /\ t \in DcyState /\ t.missed = s.missed
  /\ \A j \in Item \ {i} : /\ AsBefore(s, t, j)
                           /\ Times(t.toDecay, j) = Times(s.toDecay, j)
                           /\ Times(t.toRelease, j) = Times(s.toRelease, j)

LEMMA TouchesOthers ==
  ASSUME NEW s, NEW t, NEW i, NEW x, NEW e, NEW lag, NEW pos, Touches(s, t, i), OthersOk(s, i, x, e, lag, pos)
  PROVE  OthersOk(t, i, x, e, lag, pos)
<1> SUFFICES ASSUME NEW j \in Item \ {i}
             PROVE  ItemOk(t, j, Times(t.toDecay, j), x[j], Times(t.toRelease, j) + e[j], lag, pos)
  BY DEF OthersOk
<1> DEFINE n == Times(s.toDecay, j)
           h == Times(s.toRelease, j) + e[j]
<1>1. AsBefore(s, t, j) /\ Times(t.toDecay, j) = n /\ Times(t.toRelease, j) + e[j] = h
  BY DEF Touches
<1>2. ItemOk(s, j, n, x[j], h, lag, pos)
  BY DEF OthersOk
<1> HIDE DEF n, h
<1>3. ItemOk(t, j, n, x[j], h, lag, pos)
  BY <1>1, <1>2, AsBeforeOk
<1> QED BY <1>1, <1>3

LEMMA TouchesTwice ==
  ASSUME NEW s, NEW t, NEW r, NEW i, Touches(s, t, i), Touches(t, r, i)
  PROVE  Touches(s, r, i)
<1>1. ASSUME NEW j \in Item \ {i}
      PROVE  /\ AsBefore(s, r, j)
             /\ Times(r.toDecay, j) = Times(s.toDecay, j)
             /\ Times(r.toRelease, j) = Times(s.toRelease, j)
  <2>1. AsBefore(s, t, j) /\ AsBefore(t, r, j)
    BY DEF Touches
  <2>2. AsBefore(s, r, j)
    BY <2>1 DEF AsBefore
  <2>3. /\ Times(t.toDecay, j) = Times(s.toDecay, j) /\ Times(r.toDecay, j) = Times(t.toDecay, j)
        /\ Times(t.toRelease, j) = Times(s.toRelease, j) /\ Times(r.toRelease, j) = Times(t.toRelease, j)
    BY DEF Touches
  <2> QED BY <2>2, <2>3
<1>2. r \in DcyState /\ r.missed = s.missed
  BY DEF Touches
<1> QED BY <1>1, <1>2 DEF Touches

LEMMA OneAndOthers ==
  ASSUME NEW s, NEW i \in Item, NEW x, NEW e, NEW lag, NEW pos
  PROVE  AllOk(s, x, e, lag, pos) <=>
           /\ OthersOk(s, i, x, e, lag, pos)
           /\ ItemOk(s, i, Times(s.toDecay, i), x[i], Times(s.toRelease, i) + e[i], lag, pos)
BY DEF AllOk, OthersOk

-----------------------------------------------------------------------------
(* The operations *)

LEMMA ReleaseDoes ==
  ASSUME NEW s \in DcyState, NEW i \in Item, NEW t, t = ReleaseItem(s, i)
  PROVE  /\ Touches(s, t, i) /\ AsBefore(s, t, i)
         /\ Times(t.toDecay, i) = Times(s.toDecay, i)
         /\ Times(t.toRelease, i) = Times(s.toRelease, i) + 1
<1>1. t = [s EXCEPT !.toRelease = Append(s.toRelease, i)] /\ s.toRelease \in Seq(Item)
  BY DEF ReleaseItem, DcyState
<1>2. t \in DcyState
  <2> DEFINE q == Append(s.toRelease, i)
  <2>1. q \in Seq(Item)
    BY <1>1
  <2>2. t = [where |-> s.where, type |-> s.type, dur |-> s.dur, decaying |-> s.decaying,
             refs |-> s.refs, toRelease |-> q, toDecay |-> s.toDecay, buckets |-> s.buckets,
             left |-> s.left, again |-> s.again, missed |-> s.missed]
    BY <1>1 DEF DcyState
  <2> HIDE DEF q
  <2> QED BY <2>1, <2>2 DEF DcyState
<1>3. /\ t.where = s.where /\ t.type = s.type /\ t.dur = s.dur /\ t.decaying = s.decaying
      /\ t.refs = s.refs /\ t.toDecay = s.toDecay /\ t.buckets = s.buckets /\ t.left = s.left
      /\ t.again = s.again /\ t.missed = s.missed /\ t.toRelease = Append(s.toRelease, i)
  BY <1>1 DEF DcyState
<1>4. \A j : Times(t.toRelease, j) = Times(s.toRelease, j) + (IF j = i THEN 1 ELSE 0)
  BY <1>1, <1>3, TimesAppend
<1>5. \A j : Times(s.toRelease, j) \in Nat
  BY <1>1, TimesNat
<1>6. \A j \in Item : AsBefore(s, t, j)
  BY <1>3 DEF AsBefore
<1>7. \A j \in Item \ {i} : Times(t.toRelease, j) = Times(s.toRelease, j)
  BY <1>4, <1>5
<1>8. Times(t.toRelease, i) = Times(s.toRelease, i) + 1
  BY <1>4
<1> QED BY <1>2, <1>3, <1>6, <1>7, <1>8 DEF Touches

LEMMA RemoveDoes ==
  ASSUME NEW s \in DcyState, NEW i \in Item, NEW t, t = RemoveItem(s, i)
  PROVE  /\ Touches(s, t, i)
         /\ t.where[i] = "removed" /\ t.type[i] = s.type[i] /\ t.dur[i] = s.dur[i]
         /\ t.refs[i] = s.refs[i] /\ t.left[i] = s.left[i]
         /\ i \in t.decaying <=> i \in s.decaying
         /\ i \in t.again <=> i \in s.again
         /\ \A b \in Bucket : Times(t.buckets[b], i) = Times(s.buckets[b], i)
         /\ Times(t.toDecay, i) = Times(s.toDecay, i)
         /\ Times(t.toRelease, i) = Times(s.toRelease, i) + 1
<1> DEFINE r == [s EXCEPT !.where[i] = "removed"]
<1>1. r \in DcyState
  BY DEF DcyState
<1>2. /\ r.where = [s.where EXCEPT ![i] = "removed"] /\ r.type = s.type /\ r.dur = s.dur
      /\ r.decaying = s.decaying /\ r.refs = s.refs /\ r.toDecay = s.toDecay
      /\ r.buckets = s.buckets /\ r.left = s.left /\ r.again = s.again /\ r.missed = s.missed
      /\ r.toRelease = s.toRelease
  BY DEF DcyState
<1>3. t = ReleaseItem(r, i)
  BY DEF RemoveItem
<1> HIDE DEF r
<1>4. s.where \in [Item -> {"none", "world", "removed"}]
  BY DEF DcyState
<1>5. \A j \in Item \ {i} : AsBefore(s, r, j)
  BY <1>2, <1>4 DEF AsBefore
<1>6. r.where[i] = "removed"
  BY <1>2, <1>4
<1>7. /\ Touches(r, t, i) /\ AsBefore(r, t, i) /\ Times(t.toDecay, i) = Times(r.toDecay, i)
      /\ Times(t.toRelease, i) = Times(r.toRelease, i) + 1
  BY <1>1, <1>3, ReleaseDoes
<1>8. Touches(s, t, i)
  BY <1>2, <1>5, <1>7 DEF Touches, AsBefore
<1> QED BY <1>2, <1>6, <1>7, <1>8 DEF AsBefore

LEMMA CreateDoes ==
  ASSUME NEW s \in DcyState, NEW i \in Item, NEW ty \in Type, NEW t, t = Create(s, i, ty)
  PROVE  /\ Touches(s, t, i)
         /\ t.where[i] = "world" /\ t.type[i] = ty /\ t.refs[i] = 1
         /\ t.dur[i] = (IF DecayTime[ty] > 0 THEN DecayTime[ty] ELSE NoDuration)
         /\ t.left[i] = s.left[i]
         /\ i \in t.decaying <=> i \in s.decaying
         /\ i \in t.again <=> i \in s.again
         /\ t.buckets = s.buckets /\ t.toDecay = s.toDecay /\ t.toRelease = s.toRelease
<1> DEFINE d == IF DecayTime[ty] > 0 THEN DecayTime[ty] ELSE NoDuration
<1>1. t = [s EXCEPT !.where[i] = "world", !.type[i] = ty, !.refs[i] = 1, !.dur[i] = d]
  BY DEF Create
<1>2. d \in Nat \cup {-1}
  BY DecayTypes DEF NoDuration
<1> HIDE DEF d
<1>3. t \in DcyState
  <2> DEFINE w == [s.where EXCEPT ![i] = "world"]
             tt == [s.type EXCEPT ![i] = ty]
             rr == [s.refs EXCEPT ![i] = 1]
             dd == [s.dur EXCEPT ![i] = d]
  <2>1. w \in [Item -> {"none", "world", "removed"}] /\ tt \in [Item -> Type] /\ rr \in [Item -> Nat] /\ dd \in [Item -> Nat \cup {-1}]
    BY <1>2 DEF DcyState
  <2>2. t = [where |-> w, type |-> tt, dur |-> dd, decaying |-> s.decaying,
             refs |-> rr, toRelease |-> s.toRelease, toDecay |-> s.toDecay, buckets |-> s.buckets,
             left |-> s.left, again |-> s.again, missed |-> s.missed]
    BY <1>1 DEF DcyState
  <2> HIDE DEF w, tt, rr, dd
  <2> QED BY <1>2, <2>1, <2>2 DEF DcyState
<1>4. /\ t.where = [s.where EXCEPT ![i] = "world"] /\ t.type = [s.type EXCEPT ![i] = ty]
      /\ t.dur = [s.dur EXCEPT ![i] = d] /\ t.decaying = s.decaying
      /\ t.refs = [s.refs EXCEPT ![i] = 1] /\ t.toDecay = s.toDecay
      /\ t.buckets = s.buckets /\ t.left = s.left /\ t.again = s.again /\ t.missed = s.missed
      /\ t.toRelease = s.toRelease
  BY <1>1 DEF DcyState
<1>5. /\ s.where \in [Item -> {"none", "world", "removed"}] /\ s.type \in [Item -> Type]
      /\ s.dur \in [Item -> Nat \cup {-1}] /\ s.refs \in [Item -> Nat]
  BY DEF DcyState
<1>6. \A j \in Item \ {i} : AsBefore(s, t, j)
  BY <1>4, <1>5 DEF AsBefore
<1>7. t.where[i] = "world" /\ t.type[i] = ty /\ t.refs[i] = 1 /\ t.dur[i] = d
  BY <1>4, <1>5
<1> QED BY <1>3, <1>4, <1>6, <1>7 DEF Touches, d

LEMMA RegisterDoes ==
  ASSUME NEW s \in DcyState, NEW i \in Item, NEW t, t = Register(s, i)
  PROVE  /\ Touches(s, t, i)
         /\ t.where = s.where /\ t.type = s.type /\ t.dur = s.dur
         /\ t.refs[i] = s.refs[i] + 1 /\ t.left[i] = s.dur[i]
         /\ i \in t.decaying
         /\ i \in t.again <=> i \in s.again \/ Entries(s, i) > 0
         /\ t.buckets = s.buckets /\ t.toRelease = s.toRelease
         /\ Times(t.toDecay, i) = Times(s.toDecay, i) + 1
<1> DEFINE ag == IF Entries(s, i) > 0 THEN s.again \cup {i} ELSE s.again
           ref == s.refs[i] + 1
           td == <<i>> \o s.toDecay
           l == s.dur[i]
<1>1. t = [s EXCEPT !.refs[i] = ref, !.decaying = s.decaying \cup {i}, !.toDecay = td,
                    !.left[i] = l, !.again = ag]
  BY DEF Register
<1>2. ref \in Nat /\ td \in Seq(Item) /\ l \in Int /\ ag \in SUBSET Item /\ s.toDecay \in Seq(Item)
  BY DEF DcyState
<1>3. \A j : Times(td, j) = Times(s.toDecay, j) + (IF j = i THEN 1 ELSE 0)
  BY <1>2, TimesAhead
<1>4. \A j : Times(s.toDecay, j) \in Nat
  BY <1>2, TimesNat
<1>5. i \in ag <=> i \in s.again \/ Entries(s, i) > 0
  OBVIOUS
<1>6. \A j \in Item \ {i} : j \in ag <=> j \in s.again
  OBVIOUS
<1>7. ref = s.refs[i] + 1 /\ l = s.dur[i]
  OBVIOUS
<1> HIDE DEF ag, ref, td, l
<1>8. t \in DcyState
  <2> DEFINE rr == [s.refs EXCEPT ![i] = ref]
             ll == [s.left EXCEPT ![i] = l]
  <2>1. rr \in [Item -> Nat] /\ ll \in [Item -> Int]
    BY <1>2 DEF DcyState
  <2>2. t = [where |-> s.where, type |-> s.type, dur |-> s.dur, decaying |-> s.decaying \cup {i},
             refs |-> rr, toRelease |-> s.toRelease, toDecay |-> td, buckets |-> s.buckets,
             left |-> ll, again |-> ag, missed |-> s.missed]
    BY <1>1 DEF DcyState
  <2> HIDE DEF rr, ll
  <2> QED BY <1>2, <2>1, <2>2 DEF DcyState
<1>9. /\ t.where = s.where /\ t.type = s.type /\ t.dur = s.dur /\ t.decaying = s.decaying \cup {i}
      /\ t.refs = [s.refs EXCEPT ![i] = ref] /\ t.toDecay = td
      /\ t.buckets = s.buckets /\ t.left = [s.left EXCEPT ![i] = l] /\ t.again = ag
      /\ t.missed = s.missed /\ t.toRelease = s.toRelease
  BY <1>1 DEF DcyState
<1>10. s.left \in [Item -> Int] /\ s.refs \in [Item -> Nat]
  BY DEF DcyState
<1>11. \A j \in Item \ {i} : AsBefore(s, t, j)
  BY <1>6, <1>9, <1>10 DEF AsBefore
<1>12. t.refs[i] = ref /\ t.left[i] = l
  BY <1>9, <1>10
<1>13. \A j \in Item \ {i} : Times(t.toDecay, j) = Times(s.toDecay, j)
  BY <1>3, <1>4, <1>9
<1>14. Times(t.toDecay, i) = Times(s.toDecay, i) + 1
  BY <1>3, <1>9
<1> QED BY <1>5, <1>7, <1>8, <1>9, <1>11, <1>12, <1>13, <1>14 DEF Touches

Forgets(t) == DecayTime[t] = 0 /\ t \notin StopTime /\ DecayTo[t] = "never"
Renews(s, i, t) == DecayTime[t] > 0 /\ (s.type[i] \notin StopTime \/ s.dur[i] = NoDuration)

LEMMA SetIDDoes ==
  ASSUME NEW s \in DcyState, NEW i \in Item, NEW ty \in Type, NEW t, t = SetID(s, i, ty)
  PROVE  /\ Touches(s, t, i)
         /\ t.where = s.where /\ t.type[i] = ty /\ t.refs[i] = s.refs[i]
         /\ t.dur[i] = (IF Forgets(ty) THEN NoDuration
                        ELSE IF Renews(s, i, ty) THEN DecayTime[ty] ELSE s.dur[i])
         /\ t.left[i] = (IF Renews(s, i, ty) /\ Entries(s, i) > 0 THEN DecayTime[ty] ELSE s.left[i])
         /\ i \in t.decaying <=> i \in s.decaying /\ ~Forgets(ty) /\ ~Renews(s, i, ty)
         /\ i \in t.again <=> i \in s.again \/ Entries(s, i) > 0
         /\ t.buckets = s.buckets /\ t.toDecay = s.toDecay /\ t.toRelease = s.toRelease
<1> DEFINE d == IF Forgets(ty) THEN NoDuration ELSE IF Renews(s, i, ty) THEN DecayTime[ty] ELSE s.dur[i]
           l == IF Renews(s, i, ty) /\ Entries(s, i) > 0 THEN DecayTime[ty] ELSE s.left[i]
           dec == IF Forgets(ty) \/ Renews(s, i, ty) THEN s.decaying \ {i} ELSE s.decaying
           ag == IF Entries(s, i) > 0 THEN s.again \cup {i} ELSE s.again
<1>1. t = [s EXCEPT !.type[i] = ty, !.decaying = dec, !.dur[i] = d, !.left[i] = l, !.again = ag]
  BY DEF SetID, Forgets, Renews
<1>2. d \in Nat \cup {-1} /\ l \in Int
  BY DecayTypes DEF NoDuration, DcyState
<1>3. dec \in SUBSET Item /\ ag \in SUBSET Item
  BY DEF DcyState
<1>4. /\ i \in dec <=> i \in s.decaying /\ ~Forgets(ty) /\ ~Renews(s, i, ty)
      /\ i \in ag <=> i \in s.again \/ Entries(s, i) > 0
      /\ \A j \in Item \ {i} : j \in dec <=> j \in s.decaying
      /\ \A j \in Item \ {i} : j \in ag <=> j \in s.again
  OBVIOUS
<1> HIDE DEF d, l, dec, ag
<1>5. t \in DcyState
  <2> DEFINE tt == [s.type EXCEPT ![i] = ty]
             dd == [s.dur EXCEPT ![i] = d]
             ll == [s.left EXCEPT ![i] = l]
  <2>1. tt \in [Item -> Type] /\ dd \in [Item -> Nat \cup {-1}] /\ ll \in [Item -> Int]
    BY <1>2, <1>3 DEF DcyState
  <2>2. t = [where |-> s.where, type |-> tt, dur |-> dd, decaying |-> dec,
             refs |-> s.refs, toRelease |-> s.toRelease, toDecay |-> s.toDecay, buckets |-> s.buckets,
             left |-> ll, again |-> ag, missed |-> s.missed]
    BY <1>1 DEF DcyState
  <2> HIDE DEF tt, dd, ll
  <2> QED BY <1>2, <1>3, <2>1, <2>2 DEF DcyState
<1>6. /\ t.where = s.where /\ t.type = [s.type EXCEPT ![i] = ty] /\ t.dur = [s.dur EXCEPT ![i] = d]
      /\ t.decaying = dec /\ t.refs = s.refs /\ t.toDecay = s.toDecay
      /\ t.buckets = s.buckets /\ t.left = [s.left EXCEPT ![i] = l] /\ t.again = ag
      /\ t.missed = s.missed /\ t.toRelease = s.toRelease
  BY <1>1 DEF DcyState
<1>7. s.left \in [Item -> Int] /\ s.dur \in [Item -> Nat \cup {-1}] /\ s.type \in [Item -> Type]
  BY DEF DcyState
<1>8. \A j \in Item \ {i} : AsBefore(s, t, j)
  BY <1>4, <1>6, <1>7 DEF AsBefore
<1>9. t.type[i] = ty /\ t.dur[i] = d /\ t.left[i] = l
  BY <1>6, <1>7
<1>10. Touches(s, t, i)
  BY <1>5, <1>6, <1>8 DEF Touches
<1> QED BY <1>4, <1>6, <1>9, <1>10 DEF d, l

-----------------------------------------------------------------------------
(* What the operations make of a sound item *)

LEMMA RegisterOk ==
  ASSUME NEW s \in DcyState, NEW i \in Item, NEW t, t = Register(s, i),
         s.where[i] = "world", s.dur[i] > 0, NEW h \in Nat, NEW lag \in {0, 2}, NEW pos \in Positions,
         ItemOk(s, i, Times(s.toDecay, i), 0, h, lag, pos)
  PROVE  ItemOk(t, i, Times(t.toDecay, i), 0, h, lag, pos)
<1> DEFINE n == Times(s.toDecay, i)
<1>1. /\ t.where = s.where /\ t.type = s.type /\ t.dur = s.dur
      /\ t.refs[i] = s.refs[i] + 1 /\ t.left[i] = s.dur[i]
      /\ i \in t.decaying
      /\ i \in t.again <=> i \in s.again \/ Entries(s, i) > 0
      /\ t.buckets = s.buckets /\ Times(t.toDecay, i) = n + 1
  BY RegisterDoes
<1>2. Filed(s, i) \in Nat /\ n \in Nat /\ Entries(s, i) = Filed(s, i) + n
  BY Counts
<1>3. \A b \in Bucket : Times(s.buckets[b], i) \in Nat
  BY Counts
<1>4. \A b \in Bucket : Times(s.buckets[b], i) > 0 => Filed(s, i) > 0
  BY <1>3, Buckets DEF Filed
<1>5. Filed(t, i) = Filed(s, i) /\ Lies(t, i) = Lies(s, i) /\ Lies(s, i) = 1 /\ TimeRuns(t, i) = TimeRuns(s, i)
  BY <1>1 DEF Filed, Lies, TimeRuns
<1>6. s.dur[i] \in Int /\ s.refs[i] \in Nat
  BY DEF DcyState
<1> HIDE DEF n
<1>7. Counted(s, i, n, 0, h) /\ MarkedRight(s, i, n, 0) /\ Timed(s, i, n, 0, lag, pos)
  BY DEF ItemOk, n
<1>8. Counted(t, i, n + 1, 0, h)
  BY <1>1, <1>2, <1>5, <1>6, <1>7 DEF Counted
<1>9. MarkedRight(t, i, n + 1, 0)
  BY <1>1, <1>2, <1>5, <1>7 DEF MarkedRight
<1>10. ASSUME TimeRuns(t, i), NEW b \in Bucket, Times(t.buckets[b], i) > 0 PROVE InBucket(t, i, pos[b])
  <2>1. pos[b] \in 0..3
    BY DEF Positions
  <2>2. InBucket(s, i, pos[b]) /\ i \in t.again
    BY <1>1, <1>2, <1>4, <1>5, <1>7, <1>10 DEF Timed
  <2> QED BY <1>1, <1>6, <2>1, <2>2 DEF InBucket
<1>11. Timed(t, i, n + 1, 0, lag, pos)
  BY <1>1, <1>6, <1>10 DEF Timed
<1> QED BY <1>1, <1>8, <1>9, <1>11 DEF ItemOk

LEMMA RegisterUnlessDoneOk ==
  ASSUME NEW s \in DcyState, NEW i \in Item, NEW t, t = RegisterUnlessDone(s, i),
         s.where[i] = "world", NEW h \in Nat, NEW lag \in {0, 2}, NEW pos \in Positions,
         ItemOk(s, i, Times(s.toDecay, i), 0, h, lag, pos)
  PROVE  /\ Touches(s, t, i) /\ t.toRelease = s.toRelease
         /\ ItemOk(t, i, Times(t.toDecay, i), 0, h, lag, pos)
<1>1. CASE t = s
  BY <1>1 DEF Touches, AsBefore
<1>2. CASE s.dur[i] > 0 /\ t = Register(s, i)
  BY <1>2, RegisterDoes, RegisterOk
<1> QED BY <1>1, <1>2 DEF RegisterUnlessDone

LEMMA CreateOk ==
  ASSUME NEW s \in DcyState, NEW i \in Item, NEW ty \in Type, NEW t, t = Create(s, i, ty),
         s.where[i] = "none", NEW x \in Nat, NEW h \in Nat, NEW lag \in {0, 2}, NEW pos \in Positions,
         ItemOk(s, i, Times(s.toDecay, i), x, h, lag, pos)
  PROVE  /\ x = 0 /\ h = 0 /\ i \notin s.decaying /\ Times(s.toDecay, i) = 0 /\ Entries(s, i) = 0
         /\ \A b \in Bucket : Times(s.buckets[b], i) = 0
         /\ ItemOk(t, i, Times(t.toDecay, i), 0, 0, lag, pos)
<1> DEFINE n == Times(s.toDecay, i)
<1>1. /\ t.where[i] = "world" /\ t.type[i] = ty /\ t.refs[i] = 1
      /\ t.dur[i] = (IF DecayTime[ty] > 0 THEN DecayTime[ty] ELSE NoDuration)
      /\ i \in t.decaying <=> i \in s.decaying
      /\ t.buckets = s.buckets /\ t.toDecay = s.toDecay
  BY CreateDoes
<1>2. Filed(s, i) \in Nat /\ n \in Nat /\ Entries(s, i) = Filed(s, i) + n
  BY Counts
<1>3. \A b \in Bucket : Times(s.buckets[b], i) \in Nat
  BY Counts
<1> HIDE DEF n
<1>4. Counted(s, i, n, x, h)
  BY DEF ItemOk, n
<1>5. Filed(s, i) = 0 /\ n = 0 /\ x = 0 /\ h = 0 /\ i \notin s.decaying
  <2>1. s.refs[i] = 0 /\ Lies(s, i) = 0 /\ i \notin s.decaying
    BY <1>4 DEF Counted, Lies
  <2> QED BY <1>2, <1>4, <2>1 DEF Counted
<1>6. \A b \in Bucket : Times(s.buckets[b], i) = 0
  <2>1. /\ Times(s.buckets[0], i) \in Nat /\ Times(s.buckets[1], i) \in Nat
        /\ Times(s.buckets[2], i) \in Nat /\ Times(s.buckets[3], i) \in Nat
    BY <1>3, Buckets
  <2>2. /\ Times(s.buckets[0], i) = 0 /\ Times(s.buckets[1], i) = 0
        /\ Times(s.buckets[2], i) = 0 /\ Times(s.buckets[3], i) = 0
    BY <1>5, <2>1 DEF Filed
  <2> QED BY <2>2, Buckets
<1>7. Filed(t, i) = 0 /\ Lies(t, i) = 1
  BY <1>1, <1>5 DEF Filed, Lies
<1>8. DecayTime[ty] \in Nat
  BY DecayTypes
<1>9. Counted(t, i, 0, 0, 0)
  BY <1>1, <1>5, <1>7, <1>8 DEF Counted
<1>10. MarkedRight(t, i, 0, 0)
  BY <1>1, <1>5, <1>7 DEF MarkedRight
<1>11. Timed(t, i, 0, 0, lag, pos)
  BY <1>1, <1>6 DEF Timed
<1> QED BY <1>1, <1>2, <1>5, <1>6, <1>9, <1>10, <1>11 DEF ItemOk, n

LEMMA RemoveOk ==
  ASSUME NEW s \in DcyState, NEW i \in Item, NEW t, t = RemoveItem(s, i), s.where[i] = "world",
         NEW x \in Nat, NEW h \in Nat, NEW lag \in {0, 2}, NEW pos \in Positions,
         ItemLoose(s, i, Times(s.toDecay, i), x, h)
  PROVE  ItemOk(t, i, Times(t.toDecay, i), x, h + 1, lag, pos)
<1> DEFINE n == Times(s.toDecay, i)
<1>1. /\ t.where[i] = "removed" /\ t.type[i] = s.type[i] /\ t.dur[i] = s.dur[i]
      /\ t.refs[i] = s.refs[i]
      /\ i \in t.again <=> i \in s.again
      /\ \A b \in Bucket : Times(t.buckets[b], i) = Times(s.buckets[b], i)
      /\ Times(t.toDecay, i) = n
  BY RemoveDoes
<1>2. Filed(s, i) \in Nat /\ n \in Nat
  BY Counts
<1>3. Filed(t, i) = Filed(s, i) /\ Lies(t, i) = 0 /\ Lies(s, i) = 1
  BY <1>1, Buckets DEF Filed, Lies
<1> HIDE DEF n
<1>4. Counted(s, i, n, x, h) /\ (i \notin s.again => x = 0 /\ Filed(s, i) + n <= 1)
  BY DEF ItemLoose, n
<1>5. Counted(t, i, n, x, h + 1)
  BY <1>1, <1>2, <1>3, <1>4 DEF Counted
<1>6. MarkedRight(t, i, n, x)
  BY <1>1, <1>2, <1>3, <1>4 DEF MarkedRight
<1>7. Timed(t, i, n, x, lag, pos)
  BY <1>1 DEF Timed, TimeRuns, CanDecay
<1> QED BY <1>1, <1>5, <1>6, <1>7 DEF ItemOk

\* An item is turned into another on the spot: its time starts again, stands still, or is forgotten.
LEMMA SetIDOk ==
  ASSUME NEW s \in DcyState, NEW i \in Item, NEW ty \in Type, NEW t, t = SetID(s, i, ty), s.where[i] = "world",
         ty \in StopTime => DecayTime[s.type[i]] > 0 \/ DecayTo[s.type[i]] = "never",
         NEW h \in Nat, NEW lag \in {0, 2}, NEW pos \in Positions,
         ItemOk(s, i, Times(s.toDecay, i), 0, h, lag, pos)
  PROVE  ItemOk(t, i, Times(t.toDecay, i), 0, h, lag, pos)
<1> DEFINE n == Times(s.toDecay, i)
<1>1. /\ t.where = s.where /\ t.type[i] = ty /\ t.refs[i] = s.refs[i]
      /\ t.dur[i] = (IF Forgets(ty) THEN NoDuration
                     ELSE IF Renews(s, i, ty) THEN DecayTime[ty] ELSE s.dur[i])
      /\ t.left[i] = (IF Renews(s, i, ty) /\ Entries(s, i) > 0 THEN DecayTime[ty] ELSE s.left[i])
      /\ i \in t.decaying <=> i \in s.decaying /\ ~Forgets(ty) /\ ~Renews(s, i, ty)
      /\ i \in t.again <=> i \in s.again \/ Entries(s, i) > 0
      /\ t.buckets = s.buckets /\ t.toDecay = s.toDecay
  BY SetIDDoes
<1>2. Filed(s, i) \in Nat /\ n \in Nat /\ Entries(s, i) = Filed(s, i) + n
  BY Counts
<1>3. \A b \in Bucket : Times(s.buckets[b], i) \in Nat
  BY Counts
<1>4. \A b \in Bucket : Times(s.buckets[b], i) > 0 => Filed(s, i) > 0
  BY <1>3, Buckets DEF Filed
<1>5. Filed(t, i) = Filed(s, i) /\ Lies(t, i) = Lies(s, i)
  BY <1>1 DEF Filed, Lies
<1>6. s.dur[i] \in Nat \cup {-1} /\ s.refs[i] \in Nat /\ s.left[i] \in Int /\ s.type[i] \in Type
  BY DEF DcyState
<1>7. DecayTime[ty] \in Nat /\ (DecayTime[ty] > 0 => DecayTime[ty] >= 8) /\ DecayTime[s.type[i]] \in Nat
  BY <1>6, DecayTypes, Buckets
<1> HIDE DEF n
<1>8. Counted(s, i, n, 0, h) /\ MarkedRight(s, i, n, 0) /\ Timed(s, i, n, 0, lag, pos)
  BY DEF ItemOk, n
\* What is neither forgotten nor renewed had its marks before.
<1>9. ~Forgets(ty) /\ ~Renews(s, i, ty) /\ ~Undying(ty) =>
        ~Undying(s.type[i]) /\ t.dur[i] = s.dur[i] /\ t.left[i] = s.left[i]
  BY <1>1, <1>7, TimeStops DEF Forgets, Renews, Undying
<1>10. Counted(t, i, n, 0, h)
  <2>1. DecayTime[ty] > 0 => t.dur[i] >= 0
    <3>1. CASE Renews(s, i, ty)
      BY <1>1, <1>7, <3>1 DEF Forgets
    <3>2. CASE ~Renews(s, i, ty)
      BY <1>1, <1>6, <3>2 DEF Forgets, Renews, NoDuration
    <3> QED BY <3>1, <3>2
  <2> QED BY <1>1, <1>2, <1>5, <1>6, <1>8, <2>1 DEF Counted
<1>11. MarkedRight(t, i, n, 0)
  BY <1>1, <1>2, <1>5, <1>8, <1>9 DEF MarkedRight
<1>12. ASSUME TimeRuns(t, i), Entries(s, i) > 0
       PROVE  \/ t.dur[i] = DecayTime[ty] /\ t.left[i] = DecayTime[ty] /\ DecayTime[ty] >= 8
              \/ TimeRuns(s, i) /\ t.dur[i] = s.dur[i] /\ t.left[i] = s.left[i]
  <2>1. ~Forgets(ty) /\ ~Undying(ty)
    BY <1>1, <1>12 DEF TimeRuns
  <2>2. CASE Renews(s, i, ty)
    BY <1>1, <1>7, <1>12, <2>1, <2>2 DEF Renews
  <2>3. CASE ~Renews(s, i, ty)
    BY <1>1, <1>9, <1>12, <2>1, <2>3 DEF TimeRuns
  <2> QED BY <2>2, <2>3
<1>13. ASSUME TimeRuns(t, i), NEW b \in Bucket, Times(t.buckets[b], i) > 0 PROVE InBucket(t, i, pos[b])
  <2>1. pos[b] \in 0..3
    BY DEF Positions
  <2>2. Entries(s, i) > 0 /\ Times(s.buckets[b], i) > 0
    BY <1>1, <1>2, <1>4, <1>13
  <2>3. i \in t.again
    BY <1>1, <2>2
  <2>4. CASE TimeRuns(s, i) /\ t.dur[i] = s.dur[i] /\ t.left[i] = s.left[i]
    BY <1>8, <2>2, <2>3, <2>4 DEF Timed, InBucket
  <2>5. CASE t.dur[i] = DecayTime[ty] /\ t.left[i] = DecayTime[ty] /\ DecayTime[ty] >= 8
    BY <1>7, <2>1, <2>3, <2>5 DEF InBucket
  <2> QED BY <1>12, <1>13, <2>2, <2>4, <2>5
<1>14. ASSUME TimeRuns(t, i), n > 0
       PROVE  t.left[i] >= 1 - lag /\ t.left[i] >= t.dur[i] - lag /\ i \in t.again
  <2>1. Entries(s, i) > 0
    BY <1>2, <1>14
  <2>2. CASE TimeRuns(s, i) /\ t.dur[i] = s.dur[i] /\ t.left[i] = s.left[i]
    BY <1>1, <1>8, <1>14, <2>1, <2>2 DEF Timed
  <2>3. CASE t.dur[i] = DecayTime[ty] /\ t.left[i] = DecayTime[ty] /\ DecayTime[ty] >= 8
    BY <1>1, <1>7, <2>1, <2>3
  <2> QED BY <1>12, <1>14, <2>1, <2>2, <2>3
<1>15. Timed(t, i, n, 0, lag, pos)
  BY <1>13, <1>14 DEF Timed
<1> QED BY <1>1, <1>10, <1>11, <1>15 DEF ItemOk, n

-----------------------------------------------------------------------------
(* An item decays *)

\* Into another type on the spot, and its time starts again if it has one.
LEMMA DecaySetOk ==
  ASSUME NEW s \in DcyState, NEW i \in Item, CanDecay(s, i), NEW ty \in Type, ty = DecayTo[s.type[i]],
         NEW r, r = StartAnew(SetID(s, i, ty), i),
         NEW x \in Nat, NEW h \in Nat, NEW lag \in {0, 2}, NEW pos \in Positions,
         ItemLoose(s, i, Times(s.toDecay, i), x, h)
  PROVE  /\ Touches(s, r, i) /\ r.toRelease = s.toRelease
         /\ ItemOk(r, i, Times(r.toDecay, i), x, h, lag, pos)
<1> DEFINE n == Times(s.toDecay, i)
           t == SetID(s, i, ty)
<1>1. /\ Touches(s, t, i)
      /\ t.where = s.where /\ t.type[i] = ty /\ t.refs[i] = s.refs[i]
      /\ t.dur[i] = (IF Forgets(ty) THEN NoDuration
                     ELSE IF Renews(s, i, ty) THEN DecayTime[ty] ELSE s.dur[i])
      /\ t.left[i] = (IF Renews(s, i, ty) /\ Entries(s, i) > 0 THEN DecayTime[ty] ELSE s.left[i])
      /\ i \in t.decaying <=> i \in s.decaying /\ ~Forgets(ty) /\ ~Renews(s, i, ty)
      /\ i \in t.again <=> i \in s.again \/ Entries(s, i) > 0
      /\ t.buckets = s.buckets /\ t.toDecay = s.toDecay /\ t.toRelease = s.toRelease
  BY SetIDDoes
<1>2. r = StartAnew(t, i)
  OBVIOUS
<1> HIDE DEF t
<1>3. Filed(s, i) \in Nat /\ n \in Nat /\ Entries(s, i) = Filed(s, i) + n
  BY Counts
<1>4. \A b \in Bucket : Times(s.buckets[b], i) \in Nat
  BY Counts
<1>5. \A b \in Bucket : Times(s.buckets[b], i) > 0 => Filed(s, i) > 0
  BY <1>4, Buckets DEF Filed
<1>6. t \in DcyState
  BY <1>1 DEF Touches
<1>7. s.dur[i] \in Nat \cup {-1} /\ s.refs[i] \in Nat /\ s.left[i] \in Int /\ s.type[i] \in Type /\ t.left[i] \in Int
  BY <1>6 DEF DcyState
<1>8. DecayTime[ty] \in Nat /\ (DecayTime[ty] > 0 => DecayTime[ty] >= 8)
  BY DecayTypes, Buckets
<1>9. ty \notin StopTime /\ s.type[i] \notin StopTime
  BY <1>7, TimeStops, DecayTypes
<1>10. s.where[i] = "world"
  BY DEF CanDecay
<1>11. Counted(s, i, n, x, h) /\ (i \notin s.again => x = 0 /\ Filed(s, i) + n <= 1)
  BY DEF ItemLoose
<1>12. Filed(t, i) = Filed(s, i) /\ Lies(t, i) = Lies(s, i) /\ Times(t.toDecay, i) = n /\ Entries(t, i) = Entries(s, i)
  BY <1>1 DEF Filed, Lies, Entries
<1> HIDE DEF n
<1>13. x > 0 \/ Filed(s, i) + n > 0 => i \in t.again
  BY <1>1, <1>3, <1>11
<1>14. CASE DecayTime[ty] = 0
  <2>1. ~Renews(s, i, ty) /\ (Forgets(ty) \/ Undying(ty)) /\ ~CanDecay(t, i)
    BY <1>1, <1>9, <1>14 DEF Renews, Forgets, Undying, CanDecay
  <2>2. r = t
    BY <1>2, <2>1 DEF StartAnew
  <2>3. Counted(t, i, n, x, h)
    BY <1>1, <1>11, <1>12, <1>14, <1>10 DEF Counted
  <2>4. MarkedRight(t, i, n, x)
    <3>1. ~(i \in t.decaying /\ ~Undying(t.type[i]))
      BY <1>1, <2>1
    <3>2. i \notin t.again => Filed(t, i) + n + x <= 1
      BY <1>3, <1>12, <1>13
    <3> QED BY <3>1, <3>2 DEF MarkedRight
  <2>5. ~TimeRuns(t, i)
    BY <1>1, <2>1 DEF TimeRuns
  <2>6. Timed(t, i, n, x, lag, pos)
    BY <2>1, <2>5 DEF Timed
  <2> QED BY <1>1, <1>12, <2>2, <2>3, <2>4, <2>6 DEF ItemOk
<1>15. CASE DecayTime[ty] > 0 /\ ~CanDecay(t, i)
  <2>1. Renews(s, i, ty) /\ ~Forgets(ty) /\ t.dur[i] = DecayTime[ty] /\ i \notin t.decaying
    BY <1>1, <1>9, <1>15 DEF Renews, Forgets
  <2>2. r = t
    BY <1>2, <1>15 DEF StartAnew
  <2>3. Counted(t, i, n, x, h)
    BY <1>1, <1>8, <1>11, <1>12, <1>10, <2>1 DEF Counted
  <2>4. MarkedRight(t, i, n, x)
    <3>1. i \notin t.again => Filed(t, i) + n + x <= 1
      BY <1>3, <1>12, <1>13
    <3> QED BY <2>1, <3>1 DEF MarkedRight
  <2>5. ASSUME NEW b \in Bucket, Times(t.buckets[b], i) > 0 PROVE InBucket(t, i, pos[b])
    <3>1. pos[b] \in 0..3
      BY DEF Positions
    <3>2. Entries(s, i) > 0 /\ i \in t.again /\ t.left[i] = DecayTime[ty]
      BY <1>1, <1>3, <1>5, <2>1, <2>5
    <3> QED BY <1>8, <1>15, <2>1, <3>1, <3>2 DEF InBucket
  <2>6. n > 0 => t.left[i] = DecayTime[ty]
    BY <1>1, <1>3, <2>1
  <2>7. Timed(t, i, n, x, lag, pos)
    BY <1>8, <1>15, <2>1, <2>5, <2>6 DEF Timed
  <2> QED BY <1>1, <1>12, <2>2, <2>3, <2>4, <2>7 DEF ItemOk
<1>16. CASE DecayTime[ty] > 0 /\ CanDecay(t, i)
  <2>1. Renews(s, i, ty) /\ ~Forgets(ty) /\ t.dur[i] = DecayTime[ty] /\ i \notin t.decaying
    BY <1>1, <1>9, <1>16 DEF Renews, Forgets
  <2>2. r = Register(t, i)
    BY <1>2, <1>16, <2>1 DEF StartAnew, RegisterUnlessDone
  <2>3. /\ Touches(t, r, i)
        /\ r.where = t.where /\ r.type = t.type /\ r.dur = t.dur
        /\ r.refs[i] = t.refs[i] + 1 /\ r.left[i] = t.dur[i]
        /\ i \in r.decaying
        /\ i \in r.again <=> i \in t.again \/ Entries(t, i) > 0
        /\ r.buckets = t.buckets /\ r.toRelease = t.toRelease
        /\ Times(r.toDecay, i) = n + 1
    BY <1>6, <1>12, <2>2, RegisterDoes
  <2>4. Filed(r, i) = Filed(s, i) /\ Lies(r, i) = Lies(s, i)
    BY <1>12, <2>3 DEF Filed, Lies
  <2>5. Counted(r, i, n + 1, x, h)
    <3>1. /\ r.refs[i] = s.refs[i] + 1 /\ r.where[i] = "world"
          /\ Lies(s, i) = 1 /\ r.dur[i] = DecayTime[ty]
      BY <1>1, <1>10, <2>1, <2>3 DEF Lies
    <3> QED BY <1>3, <1>7, <1>8, <1>11, <2>4, <3>1 DEF Counted
  <2>6. MarkedRight(r, i, n + 1, x)
    <3>1. Filed(r, i) + (n + 1) + x > 0 /\ r.dur[i] > 0
      BY <1>3, <1>16, <2>1, <2>3, <2>4
    <3>2. i \notin r.again => Filed(r, i) + (n + 1) + x <= 1
      BY <1>3, <1>13, <2>3, <2>4
    <3> QED BY <3>1, <3>2 DEF MarkedRight
  <2>7. ASSUME NEW b \in Bucket, Times(r.buckets[b], i) > 0 PROVE InBucket(r, i, pos[b])
    <3>1. pos[b] \in 0..3
      BY DEF Positions
    <3>2. i \in r.again
      BY <1>1, <1>3, <1>5, <2>3, <2>7
    <3> QED BY <1>8, <1>16, <2>1, <2>3, <3>1, <3>2 DEF InBucket
  <2>8. x > 0 => i \in r.again
    BY <1>13, <2>3
  <2>9. Timed(r, i, n + 1, x, lag, pos)
    BY <1>8, <1>16, <2>1, <2>3, <2>7, <2>8 DEF Timed
  <2>10. Touches(s, r, i)
    BY <1>1, <2>3, TouchesTwice
  <2> QED BY <1>1, <2>3, <2>5, <2>6, <2>9, <2>10 DEF ItemOk
<1> QED BY <1>8, <1>14, <1>15, <1>16

LEMMA InternalDecayOk ==
  ASSUME NEW s \in DcyState, NEW i \in Item, CanDecay(s, i), NEW r, r = InternalDecayItem(s, i),
         NEW x \in [Item -> Nat], NEW e \in [Item -> Nat], NEW lag \in {0, 2}, NEW pos \in Positions,
         ItemLoose(s, i, Times(s.toDecay, i), x[i], Times(s.toRelease, i) + e[i]),
         OthersOk(s, i, x, e, lag, pos)
  PROVE  r \in DcyState /\ r.missed = s.missed /\ AllOk(r, x, e, lag, pos)
<1> DEFINE ty == DecayTo[s.type[i]]
           h == Times(s.toRelease, i) + e[i]
           u == RemoveItem(s, i)
<1>1. s.where[i] = "world" /\ s.type[i] \in Type /\ ty \in Type \cup {"gone"}
  BY DecayTypes DEF CanDecay, DcyState
<1>2. x[i] \in Nat /\ h \in Nat /\ e[i] \in Nat /\ Times(s.toRelease, i) \in Nat
  BY Counts
<1>3. Touches(s, u, i) /\ u.where[i] = "removed" /\ Times(u.toRelease, i) = Times(s.toRelease, i) + 1
  BY RemoveDoes
<1>4. u \in DcyState /\ u.missed = s.missed
  BY <1>3 DEF Touches
<1>5. ItemOk(u, i, Times(u.toDecay, i), x[i], h + 1, lag, pos)
  <2> HIDE DEF h
  <2>1. ItemLoose(s, i, Times(s.toDecay, i), x[i], h) /\ u = RemoveItem(s, i)
    BY DEF h
  <2> HIDE DEF u
  <2> QED BY <1>1, <1>2, <2>1, RemoveOk
<1>6. AllOk(u, x, e, lag, pos)
  <2>1. h + 1 = Times(u.toRelease, i) + e[i]
    BY <1>2, <1>3
  <2>2. OthersOk(u, i, x, e, lag, pos)
    <3> HIDE DEF u
    <3> QED BY <1>3, TouchesOthers
  <2> HIDE DEF u, h
  <2> QED BY <1>5, <2>1, <2>2, OneAndOthers
<1>7. CASE r = u
  BY <1>4, <1>6, <1>7
<1>8. CASE ty \in Type /\ r = StartAnew(SetID(s, i, ty), i)
  <2> HIDE DEF h
  <2>1. ItemLoose(s, i, Times(s.toDecay, i), x[i], h)
    BY DEF h
  <2>2. Touches(s, r, i) /\ r.toRelease = s.toRelease /\ ItemOk(r, i, Times(r.toDecay, i), x[i], h, lag, pos)
    BY <1>1, <1>2, <1>8, <2>1, DecaySetOk
  <2>3. r \in DcyState /\ r.missed = s.missed /\ OthersOk(r, i, x, e, lag, pos)
    BY <2>2, TouchesOthers DEF Touches
  <2>4. h = Times(r.toRelease, i) + e[i]
    BY <2>2 DEF h
  <2> QED BY <2>2, <2>3, <2>4, OneAndOthers
<1>9. ASSUME ty \in Type, NEW j \in Freed(s), r = Replace(s, i, j, ty)
      PROVE  r \in DcyState /\ r.missed = s.missed /\ AllOk(r, x, e, lag, pos)
  <2> DEFINE v == Create(u, j, ty)
             g == Times(u.toRelease, j) + e[j]
  <2>1. j \in Item /\ s.where[j] = "none" /\ j # i
    BY <1>1 DEF Freed
  <2>2. u.where[j] = "none"
    BY <1>3, <2>1 DEF Touches, AsBefore
  <2>3. r = RegisterUnlessDone(v, j)
    BY <1>9 DEF Replace
  <2> HIDE DEF u
  <2>4. g \in Nat /\ x[j] \in Nat
    <3>1. Times(u.toRelease, j) \in Nat
      BY <1>4, Counts
    <3>2. e[j] \in Nat /\ x[j] \in Nat
      BY <2>1
    <3> QED BY <3>1, <3>2
  <2>5. ItemOk(u, j, Times(u.toDecay, j), x[j], g, lag, pos) /\ OthersOk(u, j, x, e, lag, pos)
    BY <1>6, <2>1, OneAndOthers
  <2>6. /\ Touches(u, v, j) /\ v.where[j] = "world" /\ v.toRelease = u.toRelease
    BY <1>4, <1>9, <2>1, CreateDoes
  <2>7. x[j] = 0 /\ g = 0 /\ ItemOk(v, j, Times(v.toDecay, j), 0, 0, lag, pos)
    <3>1. v = Create(u, j, ty)
      OBVIOUS
    <3> HIDE DEF v, g, ty
    <3> QED BY <1>4, <1>9, <2>1, <2>2, <2>4, <2>5, <3>1, CreateOk
  <2> HIDE DEF v
  <2>8. v \in DcyState /\ v.missed = s.missed /\ OthersOk(v, j, x, e, lag, pos)
    BY <1>4, <2>5, <2>6, TouchesOthers DEF Touches
  <2>9. /\ Touches(v, r, j) /\ r.toRelease = v.toRelease
        /\ ItemOk(r, j, Times(r.toDecay, j), 0, 0, lag, pos)
    BY <2>1, <2>3, <2>6, <2>7, <2>8, RegisterUnlessDoneOk
  <2>10. r \in DcyState /\ r.missed = s.missed /\ OthersOk(r, j, x, e, lag, pos)
    BY <2>8, <2>9, TouchesOthers DEF Touches
  <2>11. Times(r.toRelease, j) + e[j] = 0
    BY <2>6, <2>7, <2>9
  <2> HIDE DEF g
  <2> QED BY <2>1, <2>7, <2>9, <2>10, <2>11, OneAndOthers
<1>10. CASE ty = "gone" \/ (Class[ty] # Class[s.type[i]] /\ Freed(s) = {})
  BY <1>7, <1>10 DEF InternalDecayItem
<1>11. CASE ~(ty = "gone" \/ (Class[ty] # Class[s.type[i]] /\ Freed(s) = {}))
  <2>1. ty \in Type
    BY <1>1, <1>11
  <2>2. CASE Class[ty] = Class[s.type[i]]
    <3>1. r = StartAnew(SetID(s, i, ty), i)
      BY <1>11, <2>2 DEF InternalDecayItem
    <3> QED BY <1>8, <2>1, <3>1
  <2>3. CASE Class[ty] # Class[s.type[i]]
    <3>1. PICK j \in Freed(s) : r = Replace(s, i, j, ty)
      <4>1. Freed(s) # {}
        BY <1>11, <2>3
      <4>2. (CHOOSE j \in Freed(s) : TRUE) \in Freed(s)
        BY <4>1
      <4>3. r = Replace(s, i, CHOOSE j \in Freed(s) : TRUE, ty)
        BY <1>11, <2>3 DEF InternalDecayItem
      <4> QED BY <4>2, <4>3
    <3> QED BY <1>9, <2>1, <3>1
  <2> QED BY <2>2, <2>3
<1> QED BY <1>10, <1>11

-----------------------------------------------------------------------------
(* An entry is taken up *)

PutIn(s, i, b) == [s EXCEPT !.buckets[b] = Append(@, i)]
Shorter(s, i, d) == [s EXCEPT !.dur[i] = d]
MissedAre(s, m) == [s EXCEPT !.missed = m]

LEMMA PutDoes ==
  ASSUME NEW s \in DcyState, NEW i \in Item, NEW b \in Bucket, NEW t, t = PutIn(s, i, b)
  PROVE  /\ Touches(s, t, i)
         /\ t.where = s.where /\ t.type = s.type /\ t.dur = s.dur /\ t.decaying = s.decaying
         /\ t.refs = s.refs /\ t.left = s.left /\ t.again = s.again
         /\ t.toDecay = s.toDecay /\ t.toRelease = s.toRelease
         /\ \A c \in Bucket : Times(t.buckets[c], i) = Times(s.buckets[c], i) + (IF c = b THEN 1 ELSE 0)
         /\ Filed(t, i) = Filed(s, i) + 1
<1> DEFINE q == Append(s.buckets[b], i)
           bb == [s.buckets EXCEPT ![b] = q]
<1>1. s.buckets \in [Bucket -> Seq(Item)] /\ s.buckets[b] \in Seq(Item)
  BY DEF DcyState
<1>2. q \in Seq(Item)
  BY <1>1
<1>3. \A j : Times(q, j) = Times(s.buckets[b], j) + (IF j = i THEN 1 ELSE 0)
  BY <1>1, TimesAppend
<1>4. t = [where |-> s.where, type |-> s.type, dur |-> s.dur, decaying |-> s.decaying,
           refs |-> s.refs, toRelease |-> s.toRelease, toDecay |-> s.toDecay, buckets |-> bb,
           left |-> s.left, again |-> s.again, missed |-> s.missed]
  BY DEF DcyState, PutIn
<1> HIDE DEF q
<1>5. bb \in [Bucket -> Seq(Item)] /\ \A c \in Bucket : bb[c] = IF c = b THEN q ELSE s.buckets[c]
  BY <1>1, <1>2
<1> HIDE DEF bb
<1>6. t \in DcyState
  <2>1. bb \in [Bucket -> Seq(Item)]
    BY <1>5
  <2> QED BY <1>4, <2>1 DEF DcyState
<1>7. /\ t.where = s.where /\ t.type = s.type /\ t.dur = s.dur /\ t.decaying = s.decaying
      /\ t.refs = s.refs /\ t.left = s.left /\ t.again = s.again /\ t.missed = s.missed
      /\ t.toDecay = s.toDecay /\ t.toRelease = s.toRelease /\ t.buckets = bb
  BY <1>4
<1>8. \A c \in Bucket : Times(s.buckets[c], i) \in Nat
  BY Counts
<1>9. ASSUME NEW c \in Bucket PROVE Times(t.buckets[c], i) = Times(s.buckets[c], i) + (IF c = b THEN 1 ELSE 0)
  <2>1. CASE c = b
    <3>1. t.buckets[c] = q /\ Times(q, i) = Times(s.buckets[b], i) + 1
      BY <1>3, <1>5, <1>7, <2>1
    <3> QED BY <2>1, <3>1
  <2>2. CASE c # b
    <3>1. t.buckets[c] = s.buckets[c] /\ Times(s.buckets[c], i) \in Nat
      BY <1>5, <1>7, <1>8, <2>2
    <3> QED BY <2>2, <3>1
  <2> QED BY <2>1, <2>2
<1>10. ASSUME NEW j \in Item \ {i} PROVE AsBefore(s, t, j)
  <2>1. \A c \in Bucket : Times(s.buckets[c], j) \in Nat
    BY Counts
  <2>2. ASSUME NEW c \in Bucket PROVE Times(t.buckets[c], j) = Times(s.buckets[c], j)
    <3>1. CASE c = b
      <4>1. t.buckets[c] = q /\ Times(q, j) = Times(s.buckets[b], j) + 0
        BY <1>3, <1>5, <1>7, <3>1
      <4>2. Times(s.buckets[b], j) \in Nat
        BY <2>1
      <4>3. Times(t.buckets[c], j) = Times(s.buckets[b], j)
        BY <4>1, <4>2
      <4> QED BY <3>1, <4>3
    <3>2. CASE c # b
      <4>1. t.buckets[c] = s.buckets[c]
        BY <1>5, <1>7, <3>2
      <4> QED BY <4>1
    <3> QED BY <3>1, <3>2
  <2> QED BY <1>7, <2>2 DEF AsBefore
<1>11. Touches(s, t, i)
  BY <1>6, <1>7, <1>10 DEF Touches
<1>12. Filed(t, i) = Filed(s, i) + 1
  <2>1. /\ Times(s.buckets[0], i) \in Nat /\ Times(s.buckets[1], i) \in Nat
        /\ Times(s.buckets[2], i) \in Nat /\ Times(s.buckets[3], i) \in Nat
    BY <1>8, Buckets
  <2>2. /\ Times(t.buckets[0], i) = Times(s.buckets[0], i) + (IF 0 = b THEN 1 ELSE 0)
        /\ Times(t.buckets[1], i) = Times(s.buckets[1], i) + (IF 1 = b THEN 1 ELSE 0)
        /\ Times(t.buckets[2], i) = Times(s.buckets[2], i) + (IF 2 = b THEN 1 ELSE 0)
        /\ Times(t.buckets[3], i) = Times(s.buckets[3], i) + (IF 3 = b THEN 1 ELSE 0)
    BY <1>9, Buckets
  <2>3. b = 0 \/ b = 1 \/ b = 2 \/ b = 3
    BY Buckets
  <2> QED BY <2>1, <2>2, <2>3 DEF Filed
<1> QED BY <1>7, <1>9, <1>11, <1>12

LEMMA StopDoes ==
  ASSUME NEW s \in DcyState, NEW i \in Item, NEW t, t = Stopped(s, i)
  PROVE  /\ Touches(s, t, i)
         /\ t.where = s.where /\ t.type = s.type /\ t.dur = s.dur /\ i \notin t.decaying
         /\ t.refs = s.refs /\ t.again = s.again /\ t.buckets = s.buckets
         /\ t.toDecay = s.toDecay /\ t.toRelease = s.toRelease
         /\ Entries(s, i) > 0 => t.left[i] = s.left[i]
<1> DEFINE l == IF Entries(s, i) = 0 THEN 0 ELSE s.left[i]
           ll == [s.left EXCEPT ![i] = l]
           dec == s.decaying \ {i}
<1>1. Entries(s, i) > 0 => l = s.left[i]
  OBVIOUS
<1>2. l \in Int /\ s.left \in [Item -> Int] /\ dec \in SUBSET Item
  BY DEF DcyState
<1>3. t = [s EXCEPT !.decaying = dec, !.left[i] = l]
  BY DEF Stopped
<1> HIDE DEF l
<1>4. ll \in [Item -> Int] /\ ll[i] = l /\ \A j \in Item \ {i} : ll[j] = s.left[j]
  BY <1>2
<1>5. i \notin dec /\ \A j \in Item \ {i} : j \in dec <=> j \in s.decaying
  OBVIOUS
<1>6. t = [where |-> s.where, type |-> s.type, dur |-> s.dur, decaying |-> dec,
           refs |-> s.refs, toRelease |-> s.toRelease, toDecay |-> s.toDecay, buckets |-> s.buckets,
           left |-> ll, again |-> s.again, missed |-> s.missed]
  BY <1>3 DEF DcyState
<1> HIDE DEF ll, dec
<1>7. t \in DcyState
  <2>1. ll \in [Item -> Int]
    BY <1>4
  <2> QED BY <1>2, <1>6, <2>1 DEF DcyState
<1>8. /\ t.where = s.where /\ t.type = s.type /\ t.dur = s.dur /\ t.decaying = dec
      /\ t.refs = s.refs /\ t.left = ll /\ t.again = s.again /\ t.missed = s.missed
      /\ t.toDecay = s.toDecay /\ t.toRelease = s.toRelease /\ t.buckets = s.buckets
  BY <1>6
<1>9. \A j \in Item \ {i} : AsBefore(s, t, j)
  BY <1>4, <1>5, <1>8 DEF AsBefore
<1> QED BY <1>1, <1>4, <1>5, <1>7, <1>8, <1>9 DEF Touches

LEMMA ShortenDoes ==
  ASSUME NEW s \in DcyState, NEW i \in Item, NEW d \in Nat, NEW t, t = Shorter(s, i, d)
  PROVE  /\ Touches(s, t, i)
         /\ t.where = s.where /\ t.type = s.type /\ t.dur[i] = d /\ t.decaying = s.decaying
         /\ t.refs = s.refs /\ t.left = s.left /\ t.again = s.again /\ t.buckets = s.buckets
         /\ t.toDecay = s.toDecay /\ t.toRelease = s.toRelease
<1> DEFINE dd == [s.dur EXCEPT ![i] = d]
<1>1. dd \in [Item -> Nat \cup {-1}] /\ dd[i] = d /\ \A j \in Item \ {i} : dd[j] = s.dur[j]
  BY DEF DcyState
<1>2. t = [where |-> s.where, type |-> s.type, dur |-> dd, decaying |-> s.decaying,
           refs |-> s.refs, toRelease |-> s.toRelease, toDecay |-> s.toDecay, buckets |-> s.buckets,
           left |-> s.left, again |-> s.again, missed |-> s.missed]
  BY DEF DcyState, Shorter
<1> HIDE DEF dd
<1>3. t \in DcyState
  <2>1. dd \in [Item -> Nat \cup {-1}]
    BY <1>1
  <2> QED BY <1>2, <2>1 DEF DcyState
<1>4. /\ t.where = s.where /\ t.type = s.type /\ t.dur = dd /\ t.decaying = s.decaying
      /\ t.refs = s.refs /\ t.left = s.left /\ t.again = s.again /\ t.missed = s.missed
      /\ t.toDecay = s.toDecay /\ t.toRelease = s.toRelease /\ t.buckets = s.buckets
  BY <1>2
<1>5. \A j \in Item \ {i} : AsBefore(s, t, j)
  BY <1>1, <1>4 DEF AsBefore
<1> QED BY <1>1, <1>3, <1>4, <1>5 DEF Touches

LEMMA MissedDoes ==
  ASSUME NEW s \in DcyState, NEW m \in SUBSET Item, NEW t, t = MissedAre(s, m)
  PROVE  t \in DcyState /\ t.where = s.where /\ t.type = s.type /\ t.missed = m
<1>1. t = [where |-> s.where, type |-> s.type, dur |-> s.dur, decaying |-> s.decaying,
           refs |-> s.refs, toRelease |-> s.toRelease, toDecay |-> s.toDecay, buckets |-> s.buckets,
           left |-> s.left, again |-> s.again, missed |-> m]
  BY DEF DcyState, MissedAre
<1> QED BY <1>1 DEF DcyState

LEMMA RestIs ==
  ASSUME NEW s \in DcyState, NEW i \in Item
  PROVE  /\ Rest(s, i) \in Nat
         /\ \A rest \in Nat : rest < 8 => NewBucket(rest) \in {0, 1}
<1>1. s.dur[i] \in Nat \cup {-1}
  BY DEF DcyState
<1>2. Rest(s, i) = IF s.dur[i] > 8 THEN s.dur[i] - 8 ELSE 0
  BY Buckets DEF Rest
<1>3. Rest(s, i) \in Nat
  BY <1>1, <1>2
<1>4. ASSUME NEW rest \in Nat, rest < 8 PROVE NewBucket(rest) \in {0, 1}
  <2>1. (rest + 1) \div 8 \in {0, 1}
    BY <1>4
  <2> QED BY <2>1, Buckets DEF NewBucket
<1> QED BY <1>3, <1>4

Zero == [j \in Item |-> 0]
Later == [b \in Bucket |-> IF b = 0 THEN 3 ELSE b - 1]

\* What a step of checkDecay finds: the item at hand with all of its entries, and makes sound with one less.
LEMMA StopOk ==
  ASSUME NEW s \in DcyState, NEW i \in Item, ~CanDecay(s, i), NEW t, t = ReleaseItem(Stopped(s, i), i),
         NEW x \in Nat, NEW h \in Nat, NEW lag \in {0, 2}, NEW pos \in Positions,
         ItemOk(s, i, Times(s.toDecay, i), x + 1, h, lag, pos)
  PROVE  /\ Touches(s, t, i) /\ Times(t.toRelease, i) = Times(s.toRelease, i) + 1
         /\ ItemOk(t, i, Times(t.toDecay, i), x, h + 1, lag, pos)
<1> DEFINE n == Times(s.toDecay, i)
           u == Stopped(s, i)
<1>1. /\ Touches(s, u, i)
      /\ u.where = s.where /\ u.type = s.type /\ u.dur = s.dur /\ i \notin u.decaying
      /\ u.refs = s.refs /\ u.again = s.again /\ u.buckets = s.buckets
      /\ u.toDecay = s.toDecay /\ u.toRelease = s.toRelease
      /\ Entries(s, i) > 0 => u.left[i] = s.left[i]
  BY StopDoes
<1>2. t = ReleaseItem(u, i)
  OBVIOUS
<1> HIDE DEF u
<1>3. u \in DcyState
  BY <1>1 DEF Touches
<1>4. /\ Touches(u, t, i) /\ AsBefore(u, t, i)
      /\ Times(t.toDecay, i) = Times(u.toDecay, i)
      /\ Times(t.toRelease, i) = Times(u.toRelease, i) + 1
  BY <1>2, <1>3, ReleaseDoes
<1>5. Touches(s, t, i) /\ Times(t.toRelease, i) = Times(s.toRelease, i) + 1 /\ Times(t.toDecay, i) = n
  BY <1>1, <1>4, TouchesTwice
<1>6. Filed(s, i) \in Nat /\ n \in Nat /\ Entries(s, i) = Filed(s, i) + n
  BY Counts
<1>7. \A b \in Bucket : Times(s.buckets[b], i) \in Nat
  BY Counts
<1>8. \A b \in Bucket : Times(s.buckets[b], i) > 0 => Filed(s, i) > 0
  BY <1>7, Buckets DEF Filed
<1>9. Filed(u, i) = Filed(s, i) /\ Lies(u, i) = Lies(s, i) /\ TimeRuns(u, i) = TimeRuns(s, i) /\ ~CanDecay(u, i)
  BY <1>1 DEF Filed, Lies, TimeRuns, CanDecay
<1> HIDE DEF n
<1>10. Counted(s, i, n, x + 1, h) /\ MarkedRight(s, i, n, x + 1) /\ Timed(s, i, n, x + 1, lag, pos)
  BY DEF ItemOk, n
<1>11. s.refs[i] \in Nat
  BY DEF DcyState
<1>12. Counted(u, i, n, x, h + 1)
  BY <1>1, <1>6, <1>9, <1>10, <1>11 DEF Counted
<1>13. MarkedRight(u, i, n, x)
  BY <1>1, <1>6, <1>9, <1>10 DEF MarkedRight
<1>14. ASSUME TimeRuns(u, i), NEW b \in Bucket, Times(u.buckets[b], i) > 0 PROVE InBucket(u, i, pos[b])
  <2>1. InBucket(s, i, pos[b]) /\ u.left[i] = s.left[i]
    BY <1>1, <1>6, <1>8, <1>9, <1>10, <1>14 DEF Timed
  <2> QED BY <1>1, <2>1 DEF InBucket
<1>15. Timed(u, i, n, x, lag, pos)
  <2>1. n > 0 => u.left[i] = s.left[i]
    BY <1>1, <1>6
  <2> QED BY <1>1, <1>9, <1>10, <1>14, <2>1 DEF Timed
<1>16. ItemOk(t, i, n, x, h + 1, lag, pos)
  BY <1>4, <1>12, <1>13, <1>15, AsBeforeOk DEF ItemOk
<1> QED BY <1>5, <1>16

LEMMA KeepOk ==
  ASSUME NEW s \in DcyState, NEW i \in Item, CanDecay(s, i), NEW rest \in Nat, rest = Rest(s, i),
         rest > 0, rest >= 8 \/ NewBucket(rest) # 0,
         NEW t, t = PutIn(Shorter(s, i, rest), i, IF rest >= 8 THEN 0 ELSE NewBucket(rest)),
         NEW x \in Nat, NEW h \in Nat,
         ItemOk(s, i, Times(s.toDecay, i), x + 1, h, 2, Later)
  PROVE  /\ Touches(s, t, i) /\ Times(t.toRelease, i) = Times(s.toRelease, i)
         /\ ItemOk(t, i, Times(t.toDecay, i), x, h, 2, Later)
<1> DEFINE n == Times(s.toDecay, i)
           b == IF rest >= 8 THEN 0 ELSE NewBucket(rest)
           u == Shorter(s, i, rest)
<1>1. /\ s.dur[i] = rest + 8 /\ s.dur[i] \in Nat
      /\ (b = 0 /\ rest >= 8) \/ (b = 1 /\ rest = 7)
  <2>1. s.dur[i] \in Nat \cup {-1}
    BY DEF DcyState
  <2>2. s.dur[i] = rest + 8 /\ s.dur[i] \in Nat
    BY <2>1, Buckets DEF Rest
  <2>3. rest < 8 => NewBucket(rest) = (rest + 1) \div 8
    BY Buckets DEF NewBucket
  <2>4. rest < 8 => rest = 7 /\ NewBucket(rest) = 1
    <3>1. rest \in 1..6 => (rest + 1) \div 8 = 0
      OBVIOUS
    <3>2. (7 + 1) \div 8 = 1
      OBVIOUS
    <3> QED BY <2>3, <3>1, <3>2
  <2> QED BY <2>2, <2>4
<1>2. b \in Bucket
  BY <1>1, Buckets
<1>3. t = PutIn(u, i, b)
  OBVIOUS
<1>4. /\ Touches(s, u, i)
      /\ u.where = s.where /\ u.type = s.type /\ u.dur[i] = rest /\ u.decaying = s.decaying
      /\ u.refs = s.refs /\ u.left = s.left /\ u.again = s.again /\ u.buckets = s.buckets
      /\ u.toDecay = s.toDecay /\ u.toRelease = s.toRelease
  BY ShortenDoes
<1> HIDE DEF u, b
<1>5. u \in DcyState
  BY <1>4 DEF Touches
<1>6. /\ Touches(u, t, i)
      /\ t.where = u.where /\ t.type = u.type /\ t.dur = u.dur /\ t.decaying = u.decaying
      /\ t.refs = u.refs /\ t.left = u.left /\ t.again = u.again
      /\ t.toDecay = u.toDecay /\ t.toRelease = u.toRelease
      /\ \A c \in Bucket : Times(t.buckets[c], i) = Times(u.buckets[c], i) + (IF c = b THEN 1 ELSE 0)
      /\ Filed(t, i) = Filed(u, i) + 1
  BY <1>2, <1>3, <1>5, PutDoes
<1>7. Touches(s, t, i) /\ t.toRelease = s.toRelease /\ Times(t.toDecay, i) = n
  BY <1>4, <1>6, TouchesTwice
<1>8. Filed(s, i) \in Nat /\ n \in Nat
  BY Counts
<1>9. \A c \in Bucket : Times(s.buckets[c], i) \in Nat
  BY Counts
<1>10. \A c \in Bucket : Times(s.buckets[c], i) > 0 => Filed(s, i) > 0
  BY <1>9, Buckets DEF Filed
<1>11. /\ t.where = s.where /\ t.type = s.type /\ t.dur[i] = rest /\ t.decaying = s.decaying
       /\ t.refs = s.refs /\ t.left = s.left /\ t.again = s.again
       /\ Filed(t, i) = Filed(s, i) + 1
       /\ \A c \in Bucket : Times(t.buckets[c], i) = Times(s.buckets[c], i) + (IF c = b THEN 1 ELSE 0)
  BY <1>4, <1>6 DEF Filed
<1>12. Lies(t, i) = Lies(s, i) /\ CanDecay(t, i) /\ (TimeRuns(t, i) => TimeRuns(s, i))
  BY <1>1, <1>11 DEF Lies, CanDecay, TimeRuns, NoDuration
<1> HIDE DEF n
<1>13. Counted(s, i, n, x + 1, h) /\ MarkedRight(s, i, n, x + 1) /\ Timed(s, i, n, x + 1, 2, Later)
  BY DEF ItemOk, n
<1>14. s.left[i] \in Int /\ s.refs[i] \in Nat
  BY DEF DcyState
<1>15. /\ s.left[i] >= 0 - 3 /\ s.left[i] >= s.dur[i] - 10
       /\ i \notin s.again => s.left[i] <= s.dur[i] - 8 \/ s.left[i] <= 5
  BY <1>13 DEF Timed
<1>16. i \notin s.again => x = 0 /\ n = 0 /\ Filed(s, i) = 0
  BY <1>8, <1>13 DEF MarkedRight
<1>17. Counted(t, i, n, x, h)
  BY <1>8, <1>11, <1>12, <1>13, <1>14 DEF Counted
<1>18. MarkedRight(t, i, n, x)
  BY <1>8, <1>11, <1>12, <1>13 DEF MarkedRight
<1>19. ASSUME TimeRuns(t, i), NEW c \in Bucket, Times(t.buckets[c], i) > 0 PROVE InBucket(t, i, Later[c])
  <2>1. CASE c = b
    <3>1. Later[c] = IF rest >= 8 THEN 3 ELSE 0
      BY <1>1, <2>1, Buckets DEF Later
    <3> QED BY <1>1, <1>11, <1>14, <1>15, <3>1 DEF InBucket
  <2>2. CASE c # b
    <3>1. Times(s.buckets[c], i) > 0 /\ TimeRuns(s, i)
      BY <1>9, <1>11, <1>12, <1>19, <2>2
    <3>2. InBucket(s, i, Later[c]) /\ i \in s.again
      BY <1>10, <1>13, <1>16, <3>1 DEF Timed
    <3>3. Later[c] \in 0..3
      BY Buckets DEF Later
    <3> QED BY <1>1, <1>11, <1>14, <3>2, <3>3 DEF InBucket
  <2> QED BY <2>1, <2>2
<1>20. ASSUME TimeRuns(t, i), n > 0 PROVE t.left[i] >= 0 - 1 /\ t.left[i] >= t.dur[i] - 2 /\ i \in t.again
  BY <1>1, <1>8, <1>11, <1>12, <1>13, <1>14, <1>16, <1>20 DEF Timed
<1>21. x > 0 => t.left[i] >= 0 - 3 /\ t.left[i] >= t.dur[i] - 10 /\ i \in t.again
  BY <1>1, <1>11, <1>14, <1>15, <1>16
<1>22. Timed(t, i, n, x, 2, Later)
  BY <1>19, <1>20, <1>21 DEF Timed
<1> QED BY <1>7, <1>17, <1>18, <1>22 DEF ItemOk

LEMMA InternalDecayType ==
  ASSUME NEW s \in DcyState, NEW i \in Item, CanDecay(s, i)
  PROVE  InternalDecayItem(s, i) \in DcyState
<1> DEFINE ty == DecayTo[s.type[i]]
           u == RemoveItem(s, i)
           r == InternalDecayItem(s, i)
<1>1. ty \in Type \cup {"gone"}
  BY DecayTypes DEF CanDecay, DcyState
<1>2. u \in DcyState
  BY RemoveDoes DEF Touches
<1>3. ASSUME ty \in Type PROVE StartAnew(SetID(s, i, ty), i) \in DcyState
  <2> DEFINE t == SetID(s, i, ty)
  <2>1. t \in DcyState
    BY <1>3, SetIDDoes DEF Touches
  <2> HIDE DEF t
  <2>2. Register(t, i) \in DcyState
    BY <2>1, RegisterDoes DEF Touches
  <2>3. StartAnew(t, i) \in DcyState
    BY <2>1, <2>2 DEF StartAnew, RegisterUnlessDone
  <2> QED BY <2>3 DEF t
<1>4. ASSUME ty \in Type, NEW j \in Freed(s) PROVE Replace(s, i, j, ty) \in DcyState
  <2> DEFINE v == Create(u, j, ty)
  <2>1. j \in Item
    BY DEF Freed
  <2>2. v \in DcyState
    <3> HIDE DEF u
    <3> QED BY <1>2, <1>4, <2>1, CreateDoes DEF Touches
  <2>3. Replace(s, i, j, ty) = RegisterUnlessDone(v, j)
    BY DEF Replace
  <2> HIDE DEF v
  <2>4. Register(v, j) \in DcyState
    BY <2>1, <2>2, RegisterDoes DEF Touches
  <2> QED BY <2>2, <2>3, <2>4 DEF RegisterUnlessDone
<1>5. CASE ty = "gone" \/ (Class[ty] # Class[s.type[i]] /\ Freed(s) = {})
  <2>1. r = u
    BY <1>5 DEF InternalDecayItem
  <2> QED BY <1>2, <2>1
<1>6. CASE ~(ty = "gone" \/ (Class[ty] # Class[s.type[i]] /\ Freed(s) = {}))
  <2>1. ty \in Type
    BY <1>1, <1>6
  <2>2. CASE Class[ty] = Class[s.type[i]]
    <3>1. r = StartAnew(SetID(s, i, ty), i)
      BY <1>6, <2>2 DEF InternalDecayItem
    <3> QED BY <1>3, <2>1, <3>1
  <2>3. CASE Class[ty] # Class[s.type[i]]
    <3>1. Freed(s) # {}
      BY <1>6, <2>3
    <3>2. (CHOOSE j \in Freed(s) : TRUE) \in Freed(s)
      BY <3>1
    <3>3. r = Replace(s, i, CHOOSE j \in Freed(s) : TRUE, ty)
      BY <1>6, <2>3 DEF InternalDecayItem
    <3> QED BY <1>4, <2>1, <3>2, <3>3
  <2> QED BY <2>2, <2>3
<1> QED BY <1>5, <1>6

LEMMA TakeUpType ==
  ASSUME NEW s \in DcyState, NEW i \in Item
  PROVE  TakeUp(s, i) \in DcyState
<1> DEFINE rest == Rest(s, i)
           b == IF rest >= Round THEN 0 ELSE NewBucket(rest)
           u == Shorter(s, i, rest)
<1>1. rest \in Nat /\ b \in Bucket
  BY RestIs, Buckets
<1>2. u \in DcyState /\ u.where = s.where /\ u.type = s.type
  <2> HIDE DEF rest
  <2> QED BY <1>1, ShortenDoes DEF Touches
<1>3. CASE ~CanDecay(s, i)
  <2> DEFINE w == Stopped(s, i)
  <2>1. w \in DcyState
    BY StopDoes DEF Touches
  <2>2. TakeUp(s, i) = ReleaseItem(w, i)
    BY <1>3 DEF TakeUp, CheckEntry
  <2> HIDE DEF w
  <2>3. ReleaseItem(w, i) \in DcyState
    BY <2>1, ReleaseDoes DEF Touches
  <2> QED BY <2>2, <2>3
<1>4. CASE CanDecay(s, i) /\ rest > 0 /\ (rest >= Round \/ NewBucket(rest) # 0)
  <2>1. TakeUp(s, i) = PutIn(u, i, b)
    BY <1>4 DEF TakeUp, CheckEntry, PutIn, Shorter, DcyState
  <2> HIDE DEF u, b
  <2>2. PutIn(u, i, b) \in DcyState
    BY <1>1, <1>2, PutDoes DEF Touches
  <2> QED BY <2>1, <2>2
<1>5. CASE CanDecay(s, i) /\ ~(rest > 0 /\ (rest >= Round \/ NewBucket(rest) # 0))
  <2> DEFINE m == IF i \notin u.again /\ ~InTime(u, i) THEN u.missed \cup {i} ELSE u.missed
             v == MissedAre(u, m)
             w == InternalDecayItem(v, i)
  <2>1. TakeUp(s, i) = ReleaseItem(w, i)
    BY <1>5 DEF TakeUp, CheckEntry, TimeOver, MissedAre, Shorter
  <2> HIDE DEF u
  <2>2. m \in SUBSET Item
    BY <1>2 DEF DcyState
  <2> HIDE DEF m
  <2>3. v \in DcyState /\ v.where = u.where /\ v.type = u.type
    BY <1>2, <2>2, MissedDoes
  <2> HIDE DEF v
  <2>4. CanDecay(v, i)
    BY <1>2, <1>5, <2>3 DEF CanDecay
  <2>5. w \in DcyState
    BY <2>3, <2>4, InternalDecayType
  <2> HIDE DEF w
  <2>6. ReleaseItem(w, i) \in DcyState
    BY <2>5, ReleaseDoes DEF Touches
  <2> QED BY <2>1, <2>6
<1> QED BY <1>3, <1>4, <1>5

LEMMA OthersSame ==
  ASSUME NEW s, NEW i, NEW x, NEW e, NEW y, NEW f, NEW lag, NEW pos, OthersOk(s, i, x, e, lag, pos),
         \A j \in Item \ {i} : y[j] = x[j] /\ f[j] = e[j]
  PROVE  OthersOk(s, i, y, f, lag, pos)
<1> SUFFICES ASSUME NEW j \in Item \ {i}
             PROVE  ItemOk(s, j, Times(s.toDecay, j), y[j], Times(s.toRelease, j) + f[j], lag, pos)
  BY DEF OthersOk
<1>1. ItemOk(s, j, Times(s.toDecay, j), x[j], Times(s.toRelease, j) + e[j], lag, pos)
  BY DEF OthersOk
<1> QED BY <1>1

LEMMA TimeOverOk ==
  ASSUME NEW s \in DcyState, NEW i \in Item, CanDecay(s, i), NEW rest \in Nat, rest = Rest(s, i),
         ~(rest > 0 /\ (rest >= 8 \/ NewBucket(rest) # 0)),
         NEW t, t = TimeOver(Shorter(s, i, rest), i), NEW x \in [Item -> Nat],
         ItemOk(s, i, Times(s.toDecay, i), x[i] + 1, Times(s.toRelease, i), 2, Later),
         OthersOk(s, i, x, Zero, 2, Later)
  PROVE  t \in DcyState /\ t.missed = s.missed /\ AllOk(t, x, Zero, 2, Later)
<1> DEFINE n == Times(s.toDecay, i)
           h == Times(s.toRelease, i)
           u == Shorter(s, i, rest)
           w == InternalDecayItem(u, i)
           e == [Zero EXCEPT ![i] = 1]
<1>1. /\ Touches(s, u, i)
      /\ u.where = s.where /\ u.type = s.type /\ u.dur[i] = rest /\ u.decaying = s.decaying
      /\ u.refs = s.refs /\ u.left = s.left /\ u.again = s.again /\ u.buckets = s.buckets
      /\ u.toDecay = s.toDecay /\ u.toRelease = s.toRelease
  BY ShortenDoes
<1>2. t = TimeOver(u, i)
  OBVIOUS
<1> HIDE DEF u
<1>3. u \in DcyState /\ u.missed = s.missed
  BY <1>1 DEF Touches
<1>4. Counted(s, i, n, x[i] + 1, h) /\ MarkedRight(s, i, n, x[i] + 1) /\ Timed(s, i, n, x[i] + 1, 2, Later)
  BY DEF ItemOk
<1>5. Filed(s, i) \in Nat /\ n \in Nat /\ h \in Nat /\ x[i] \in Nat /\ s.refs[i] \in Nat /\ s.left[i] \in Int
  BY Counts DEF DcyState
<1>6. s.dur[i] \in Nat
  BY <1>4 DEF Counted, CanDecay, DcyState
<1>7. s.dur[i] <= 14
  <2>1. rest > 0 => rest < 8 /\ (rest + 1) \div 8 = 0
    BY Buckets DEF NewBucket
  <2>2. rest > 0 => rest <= 6
    <3>1. (7 + 1) \div 8 = 1
      OBVIOUS
    <3> QED BY <2>1, <3>1
  <2> QED BY <1>6, <2>2, Buckets DEF Rest
<1>8. /\ s.left[i] >= 0 - 3
      /\ i \notin s.again => s.left[i] <= s.dur[i] - 8 \/ s.left[i] <= 5
  BY <1>4, <1>5 DEF Timed
<1>9. i \in u.again \/ InTime(u, i)
  BY <1>1, <1>5, <1>6, <1>7, <1>8, Buckets DEF InTime
<1> HIDE DEF n, h
<1>10. t = ReleaseItem(w, i)
  <2>1. [u EXCEPT !.missed = u.missed] = u
    BY <1>3 DEF DcyState
  <2>2. TimeOver(u, i) = ReleaseItem(InternalDecayItem([u EXCEPT !.missed = u.missed], i), i)
    BY <1>9 DEF TimeOver
  <2> QED BY <1>2, <2>1, <2>2
<1>11. CanDecay(u, i)
  BY <1>1 DEF CanDecay
<1>12. Filed(u, i) = Filed(s, i) /\ Lies(u, i) = Lies(s, i) /\ Lies(s, i) \in Nat
  BY <1>1 DEF Filed, Lies
<1>13. ItemLoose(u, i, n, x[i], h + 1)
  <2>1. Counted(u, i, n, x[i], h + 1)
    BY <1>1, <1>4, <1>5, <1>12 DEF Counted
  <2>2. i \notin u.again => x[i] = 0 /\ Filed(u, i) + n <= 1
    <3>1. i \notin s.again => Filed(s, i) + n + (x[i] + 1) <= 1
      BY <1>4 DEF MarkedRight
    <3>2. u.again = s.again /\ Filed(u, i) = Filed(s, i)
      BY <1>1, <1>12
    <3>3. \A f, m, y \in Nat : f + m + (y + 1) <= 1 => y = 0 /\ f + m <= 1
      OBVIOUS
    <3>4. Filed(s, i) \in Nat /\ n \in Nat /\ x[i] \in Nat
      BY <1>5
    <3> QED BY <3>1, <3>2, <3>3, <3>4
  <2> QED BY <2>1, <2>2 DEF ItemLoose
<1>14. e \in [Item -> Nat] /\ e[i] = 1 /\ \A j \in Item \ {i} : e[j] = Zero[j]
  BY DEF Zero
<1> HIDE DEF e
<1>15. OthersOk(u, i, x, e, 2, Later)
  <2>1. OthersOk(u, i, x, Zero, 2, Later)
    BY <1>1, TouchesOthers
  <2> QED BY <1>14, <2>1, OthersSame
<1>16. ItemLoose(u, i, Times(u.toDecay, i), x[i], Times(u.toRelease, i) + e[i])
  BY <1>1, <1>13, <1>14 DEF n, h
<1>17. Later \in Positions
  BY Buckets DEF Later, Positions
<1>18. w \in DcyState /\ w.missed = u.missed /\ AllOk(w, x, e, 2, Later)
  <2> HIDE DEF w
  <2>1. w = InternalDecayItem(u, i)
    BY DEF w
  <2>2. \E l \in {0, 2} : l = 2
    OBVIOUS
  <2> QED BY <1>3, <1>11, <1>14, <1>15, <1>16, <1>17, <2>1, <2>2, InternalDecayOk
<1> HIDE DEF w
<1>19. /\ Touches(w, t, i) /\ AsBefore(w, t, i)
       /\ Times(t.toDecay, i) = Times(w.toDecay, i)
       /\ Times(t.toRelease, i) = Times(w.toRelease, i) + 1
  BY <1>10, <1>18, ReleaseDoes
<1>20. OthersOk(w, i, x, e, 2, Later) /\ ItemOk(w, i, Times(w.toDecay, i), x[i], Times(w.toRelease, i) + e[i], 2, Later)
  BY <1>18, OneAndOthers
<1>21. OthersOk(t, i, x, Zero, 2, Later)
  <2>1. OthersOk(t, i, x, e, 2, Later)
    BY <1>19, <1>20, TouchesOthers
  <2> QED BY <1>14, <2>1, OthersSame
<1>22. Times(w.toRelease, i) + e[i] = Times(t.toRelease, i) + Zero[i]
  <2>1. Times(w.toRelease, i) \in Nat
    BY <1>18, Counts
  <2> QED BY <1>14, <1>19, <2>1 DEF Zero
<1>23. ItemOk(t, i, Times(t.toDecay, i), x[i], Times(t.toRelease, i) + Zero[i], 2, Later)
  BY <1>19, <1>20, <1>22, AsBeforeOk
<1> QED BY <1>3, <1>18, <1>19, <1>21, <1>23, OneAndOthers DEF Touches

\* An entry of i is taken up: one less is at hand.
LEMMA TakeUpOk ==
  ASSUME NEW s \in DcyState, NEW i \in Item, NEW x \in [Item -> Nat], NEW y \in [Item -> Nat],
         x[i] = y[i] + 1, \A j \in Item \ {i} : y[j] = x[j],
         AllOk(s, x, Zero, 2, Later), NEW t, t = TakeUp(s, i)
  PROVE  t \in DcyState /\ t.missed = s.missed /\ AllOk(t, y, Zero, 2, Later)
<1> DEFINE rest == Rest(s, i)
           h == Times(s.toRelease, i)
<1>1. h \in Nat /\ y[i] \in Nat /\ Zero[i] = 0 /\ Later \in Positions
  BY Counts, Buckets DEF Zero, Later, Positions
<1>2. OthersOk(s, i, y, Zero, 2, Later)
  <2>1. OthersOk(s, i, x, Zero, 2, Later)
    BY OneAndOthers
  <2> QED BY <2>1, OthersSame
<1>3. ItemOk(s, i, Times(s.toDecay, i), y[i] + 1, h, 2, Later)
  <2>1. ItemOk(s, i, Times(s.toDecay, i), x[i], Times(s.toRelease, i) + Zero[i], 2, Later)
    BY OneAndOthers
  <2>2. x[i] = y[i] + 1 /\ Times(s.toRelease, i) + Zero[i] = h
    BY <1>1
  <2> QED BY <2>1, <2>2
<1>4. rest \in Nat
  BY RestIs
<1>5. CASE ~CanDecay(s, i)
  <2>1. t = ReleaseItem(Stopped(s, i), i)
    BY <1>5 DEF TakeUp, CheckEntry
  <2> HIDE DEF h
  <2>2. /\ Touches(s, t, i) /\ Times(t.toRelease, i) = Times(s.toRelease, i) + 1
        /\ ItemOk(t, i, Times(t.toDecay, i), y[i], h + 1, 2, Later)
    <3> DEFINE l == 2
               v == y[i]
    <3>1. l \in {0, 2} /\ v \in Nat /\ ItemOk(s, i, Times(s.toDecay, i), v + 1, h, l, Later)
      BY <1>1, <1>3
    <3> HIDE DEF l, v
    <3>2. /\ Touches(s, t, i) /\ Times(t.toRelease, i) = Times(s.toRelease, i) + 1
          /\ ItemOk(t, i, Times(t.toDecay, i), v, h + 1, l, Later)
      BY <1>1, <1>5, <2>1, <3>1, StopOk
    <3> QED BY <3>2 DEF l, v
  <2>3. h + 1 = Times(t.toRelease, i) + Zero[i]
    BY <1>1, <2>2 DEF h
  <2>4. OthersOk(t, i, y, Zero, 2, Later)
    BY <1>2, <2>2, TouchesOthers
  <2> QED BY <2>2, <2>3, <2>4, OneAndOthers DEF Touches
<1>6. CASE CanDecay(s, i) /\ rest > 0 /\ (rest >= 8 \/ NewBucket(rest) # 0)
  <2>1. t = PutIn(Shorter(s, i, rest), i, IF rest >= 8 THEN 0 ELSE NewBucket(rest))
    BY <1>6, Buckets DEF TakeUp, CheckEntry, PutIn, Shorter, DcyState
  <2> HIDE DEF h
  <2>2. /\ Touches(s, t, i) /\ Times(t.toRelease, i) = Times(s.toRelease, i)
        /\ ItemOk(t, i, Times(t.toDecay, i), y[i], h, 2, Later)
    <3> DEFINE v == y[i]
    <3>1. v \in Nat /\ ItemOk(s, i, Times(s.toDecay, i), v + 1, h, 2, Later) /\ rest = Rest(s, i)
      BY <1>1, <1>3
    <3> HIDE DEF v, rest
    <3>2. /\ Touches(s, t, i) /\ Times(t.toRelease, i) = Times(s.toRelease, i)
          /\ ItemOk(t, i, Times(t.toDecay, i), v, h, 2, Later)
      BY <1>1, <1>4, <1>6, <2>1, <3>1, KeepOk
    <3> QED BY <3>2 DEF v
  <2>3. h = Times(t.toRelease, i) + Zero[i]
    BY <1>1, <2>2 DEF h
  <2>4. OthersOk(t, i, y, Zero, 2, Later)
    BY <1>2, <2>2, TouchesOthers
  <2> QED BY <2>2, <2>3, <2>4, OneAndOthers DEF Touches
<1>7. CASE CanDecay(s, i) /\ ~(rest > 0 /\ (rest >= 8 \/ NewBucket(rest) # 0))
  <2>1. t = TimeOver(Shorter(s, i, rest), i)
    BY <1>7, Buckets DEF TakeUp, CheckEntry, Shorter
  <2>2. rest = Rest(s, i)
    OBVIOUS
  <2> HIDE DEF rest
  <2> QED BY <1>2, <1>3, <1>4, <1>7, <2>1, <2>2, TimeOverOk
<1> QED BY <1>5, <1>6, <1>7

-----------------------------------------------------------------------------
(* What cleanup does *)

LEMMA UnreferenceDoes ==
  ASSUME NEW s \in DcyState, NEW i \in Item, NEW t, t = Unreference(s, i)
  PROVE  /\ Touches(s, t, i)
         /\ t.buckets = s.buckets /\ t.toDecay = s.toDecay /\ t.toRelease = s.toRelease
         /\ s.refs[i] > 1 =>
              /\ t.refs[i] = s.refs[i] - 1 /\ t.where = s.where /\ t.type = s.type /\ t.dur = s.dur
              /\ t.decaying = s.decaying /\ t.left = s.left /\ t.again = s.again
         /\ s.refs[i] <= 1 => t.refs[i] = 0 /\ t.where[i] = "none" /\ i \notin t.decaying
<1> DEFINE w == IF s.refs[i] > 1 THEN s.where ELSE [s.where EXCEPT ![i] = "none"]
           ty == IF s.refs[i] > 1 THEN s.type ELSE [s.type EXCEPT ![i] = NoType]
           d == IF s.refs[i] > 1 THEN s.dur ELSE [s.dur EXCEPT ![i] = NoDuration]
           dec == IF s.refs[i] > 1 THEN s.decaying ELSE s.decaying \ {i}
           r == [s.refs EXCEPT ![i] = IF s.refs[i] > 1 THEN s.refs[i] - 1 ELSE 0]
           l == IF s.refs[i] > 1 THEN s.left ELSE [s.left EXCEPT ![i] = 0]
           a == IF s.refs[i] > 1 THEN s.again ELSE s.again \ {i}
<1>1. t = [where |-> w, type |-> ty, dur |-> d, decaying |-> dec,
           refs |-> r, toRelease |-> s.toRelease, toDecay |-> s.toDecay, buckets |-> s.buckets,
           left |-> l, again |-> a, missed |-> s.missed]
  BY DEF Unreference, DcyState
<1>2. NoType \in Type
  BY DecayTypes DEF NoType
<1>3. /\ s.where \in [Item -> {"none", "world", "removed"}] /\ s.type \in [Item -> Type]
      /\ s.dur \in [Item -> Nat \cup {-1}] /\ s.refs \in [Item -> Nat] /\ s.left \in [Item -> Int]
      /\ s.decaying \in SUBSET Item /\ s.again \in SUBSET Item
  BY DEF DcyState
<1>4. /\ w \in [Item -> {"none", "world", "removed"}] /\ ty \in [Item -> Type]
      /\ d \in [Item -> Nat \cup {-1}] /\ l \in [Item -> Int]
      /\ dec \in SUBSET Item /\ a \in SUBSET Item
  BY <1>2, <1>3 DEF NoDuration
<1>5. r \in [Item -> Nat]
  BY <1>3
<1>6. \A j \in Item \ {i} :
        /\ w[j] = s.where[j] /\ ty[j] = s.type[j] /\ d[j] = s.dur[j] /\ r[j] = s.refs[j] /\ l[j] = s.left[j]
        /\ j \in dec <=> j \in s.decaying
        /\ j \in a <=> j \in s.again
  BY <1>3
<1>7. s.refs[i] > 1 => /\ r[i] = s.refs[i] - 1 /\ w = s.where /\ ty = s.type /\ d = s.dur
                       /\ dec = s.decaying /\ l = s.left /\ a = s.again
  BY <1>3
<1>8. s.refs[i] <= 1 => r[i] = 0 /\ w[i] = "none" /\ i \notin dec
  BY <1>3
<1> HIDE DEF w, ty, d, dec, r, l, a
<1>9. t \in DcyState
  BY <1>1, <1>4, <1>5 DEF DcyState
<1>10. /\ t.where = w /\ t.type = ty /\ t.dur = d /\ t.decaying = dec
       /\ t.refs = r /\ t.left = l /\ t.again = a /\ t.missed = s.missed
       /\ t.toDecay = s.toDecay /\ t.toRelease = s.toRelease /\ t.buckets = s.buckets
  BY <1>1
<1>11. \A j \in Item \ {i} : AsBefore(s, t, j)
  BY <1>6, <1>10 DEF AsBefore
<1> QED BY <1>7, <1>8, <1>9, <1>10, <1>11 DEF Touches

LEMMA UnreferenceOk ==
  ASSUME NEW s \in DcyState, NEW i \in Item, NEW t, t = Unreference(s, i),
         NEW x \in Nat, NEW h \in Nat, NEW lag, NEW pos,
         ItemOk(s, i, Times(s.toDecay, i), x, h + 1, lag, pos)
  PROVE  ItemOk(t, i, Times(t.toDecay, i), x, h, lag, pos)
<1> DEFINE n == Times(s.toDecay, i)
<1>1. /\ t.buckets = s.buckets /\ t.toDecay = s.toDecay
      /\ s.refs[i] > 1 =>
           /\ t.refs[i] = s.refs[i] - 1 /\ t.where = s.where /\ t.type = s.type /\ t.dur = s.dur
           /\ t.decaying = s.decaying /\ t.left = s.left /\ t.again = s.again
      /\ s.refs[i] <= 1 => t.refs[i] = 0 /\ t.where[i] = "none" /\ i \notin t.decaying
  BY UnreferenceDoes
<1>2. Filed(s, i) \in Nat /\ n \in Nat /\ s.refs[i] \in Nat
  BY Counts DEF DcyState
<1>3. Filed(t, i) = Filed(s, i)
  BY <1>1 DEF Filed
<1>4. Lies(s, i) \in {0, 1}
  BY DEF Lies
<1> HIDE DEF n
<1>5. Counted(s, i, n, x, h + 1) /\ MarkedRight(s, i, n, x) /\ Timed(s, i, n, x, lag, pos)
  BY DEF ItemOk, n
<1>6. s.refs[i] = Filed(s, i) + n + x + (h + 1) + Lies(s, i)
  BY <1>5 DEF Counted
<1>7. CASE s.refs[i] > 1
  <2>1. Lies(t, i) = Lies(s, i)
    BY <1>1, <1>7 DEF Lies
  <2>2. t.refs[i] = Filed(t, i) + n + x + h + Lies(t, i) /\ t.refs[i] # 0 /\ s.refs[i] # 0
    BY <1>1, <1>2, <1>3, <1>4, <1>6, <1>7, <2>1
  <2>3. Counted(t, i, n, x, h)
    BY <1>1, <1>5, <1>7, <2>2 DEF Counted
  <2>4. MarkedRight(t, i, n, x)
    BY <1>1, <1>3, <1>5, <1>7 DEF MarkedRight
  <2>5. Timed(t, i, n, x, lag, pos)
    BY <1>1, <1>5, <1>7 DEF Timed, TimeRuns, CanDecay, InBucket
  <2> QED BY <1>1, <2>3, <2>4, <2>5 DEF ItemOk, n
<1>8. CASE s.refs[i] <= 1
  <2>1. Filed(t, i) = 0 /\ n = 0 /\ x = 0 /\ h = 0 /\ Lies(t, i) = 0
    <3>1. Lies(t, i) = 0
      BY <1>1, <1>8 DEF Lies
    <3>2. \A f, m, y, g, k \in Nat : f + m + y + (g + 1) + k <= 1 => f = 0 /\ m = 0 /\ y = 0 /\ g = 0
      OBVIOUS
    <3>3. Filed(s, i) = 0 /\ n = 0 /\ x = 0 /\ h = 0
      BY <1>2, <1>4, <1>6, <1>8, <3>2
    <3> QED BY <1>3, <3>1, <3>3
  <2>2. t.refs[i] = 0 /\ t.where[i] = "none" /\ i \notin t.decaying
    BY <1>1, <1>8
  <2>3. Counted(t, i, n, x, h)
    BY <2>1, <2>2 DEF Counted
  <2>4. MarkedRight(t, i, n, x)
    BY <2>1, <2>2 DEF MarkedRight
  <2>5. Timed(t, i, n, x, lag, pos)
    BY <2>2 DEF Timed, TimeRuns, CanDecay
  <2> QED BY <1>1, <2>3, <2>4, <2>5 DEF ItemOk, n
<1> QED BY <1>2, <1>7, <1>8

LEMMA FirstBucketIs ==
  ASSUME NEW s \in DcyState, NEW i \in Item
  PROVE  FirstBucket(s, i) = IF s.dur[i] >= 8 THEN 3 ELSE 0
<1>1. s.dur[i] \in Nat \cup {-1}
  BY DEF DcyState
<1>2. \A d \in 0..7 : d \div 8 = 0
  OBVIOUS
<1> QED BY <1>1, <1>2, Buckets DEF FirstBucket, NoDuration

Here == [b \in Bucket |-> b]

LEMMA PutInBucketOk ==
  ASSUME NEW s \in DcyState, NEW i \in Item, NEW t, t = PutInBucket(s, i),
         NEW m \in Nat, NEW n \in Nat, m = n + 1, NEW z \in {0}, NEW lag \in {0, 2}, ItemOk(s, i, m, z, z, lag, Here)
  PROVE  Touches(s, t, i) /\ t.toRelease = s.toRelease /\ ItemOk(t, i, n, z, z, lag, Here)
<1> DEFINE b == FirstBucket(s, i)
<1>1. b = (IF s.dur[i] >= 8 THEN 3 ELSE 0) /\ b \in Bucket
  BY FirstBucketIs, Buckets
<1>2. t = PutIn(s, i, b)
  BY DEF PutInBucket, PutIn
<1> HIDE DEF b
<1>3. /\ Touches(s, t, i)
      /\ t.where = s.where /\ t.type = s.type /\ t.dur = s.dur /\ t.decaying = s.decaying
      /\ t.refs = s.refs /\ t.left = s.left /\ t.again = s.again /\ t.toRelease = s.toRelease
      /\ \A c \in Bucket : Times(t.buckets[c], i) = Times(s.buckets[c], i) + (IF c = b THEN 1 ELSE 0)
      /\ Filed(t, i) = Filed(s, i) + 1
  BY <1>1, <1>2, PutDoes
<1>4. Counted(s, i, n + 1, 0, 0) /\ MarkedRight(s, i, n + 1, 0) /\ Timed(s, i, n + 1, 0, lag, Here)
  BY DEF ItemOk
<1>5. Filed(s, i) \in Nat /\ s.refs[i] \in Nat /\ s.left[i] \in Int /\ s.dur[i] \in Nat \cup {-1}
  BY Counts DEF DcyState
<1>6. Lies(t, i) = Lies(s, i) /\ TimeRuns(t, i) = TimeRuns(s, i)
  BY <1>3 DEF Lies, TimeRuns
<1>7. Lies(s, i) \in Nat
  BY DEF Lies
<1>8. Counted(t, i, n, 0, 0)
  BY <1>3, <1>4, <1>5, <1>6, <1>7 DEF Counted
<1>9. MarkedRight(t, i, n, 0)
  BY <1>3, <1>4, <1>5 DEF MarkedRight
<1>10. TimeRuns(s, i) => /\ s.left[i] >= 1 - lag /\ s.left[i] >= s.dur[i] - lag /\ s.dur[i] \in Nat
                         /\ i \notin s.again => s.left[i] <= s.dur[i]
  BY <1>4, <1>5 DEF Timed, TimeRuns, NoDuration
<1>11. ASSUME TimeRuns(t, i), NEW c \in Bucket, Times(t.buckets[c], i) > 0 PROVE InBucket(t, i, Here[c])
  <2>1. CASE c = b
    <3>1. Here[c] = IF s.dur[i] >= 8 THEN 3 ELSE 0
      BY <1>1, <2>1 DEF Here
    <3> QED BY <1>3, <1>5, <1>6, <1>10, <1>11, <3>1 DEF InBucket
  <2>2. CASE c # b
    <3>1. Times(s.buckets[c], i) \in Nat
      BY Counts
    <3>2. Times(s.buckets[c], i) > 0
      BY <1>3, <1>11, <2>2, <3>1
    <3>3. InBucket(s, i, Here[c])
      BY <1>4, <1>6, <1>11, <3>2 DEF Timed
    <3> QED BY <1>3, <3>3 DEF InBucket
  <2> QED BY <2>1, <2>2
<1>12. Timed(t, i, n, 0, lag, Here)
  BY <1>3, <1>6, <1>10, <1>11 DEF Timed
<1> QED BY <1>3, <1>8, <1>9, <1>12 DEF ItemOk

-----------------------------------------------------------------------------
(* Lists are gone through from the first entry to the last *)

\* f[Z] is what op makes of the entries at the places in Z, from base on.
IterOf(f, q, base, op) ==
  f = [Z \in SUBSET DOMAIN q |-> IF Z = {} THEN base
                                 ELSE LET x == Max(Z) IN op[q[x]][f[Z \ {x}]]]

LEMMA MaxUpTo == \A k \in Nat : k > 0 => Max(1..k) = k /\ (1..k) \ {k} = 1..(k - 1) /\ 1..k # {}
<1> SUFFICES ASSUME NEW k \in Nat, k > 0 PROVE Max(1..k) = k /\ (1..k) \ {k} = 1..(k - 1) /\ 1..k # {}
  OBVIOUS
<1>1. k \in 1..k /\ \A y \in 1..k : k >= y
  OBVIOUS
<1>2. \A x \in 1..k : (\A y \in 1..k : x >= y) => x = k
  OBVIOUS
<1>3. Max(1..k) = k
  BY <1>1, <1>2 DEF Max
<1> QED BY <1>1, <1>3

LEMMA MaxIn ==
  ASSUME NEW q \in Seq(Item), NEW Z \in SUBSET DOMAIN q, Z # {}
  PROVE  Max(Z) \in Z
<1>1. DOMAIN q = 1..Len(q) /\ Len(q) \in Nat
  OBVIOUS
<1>2. PICK m \in Z : \A y \in Z : m >= y
  <2> DEFINE K == {Len(q) - n : n \in Z}
  <2>1. K \in SUBSET Nat /\ \A n \in Z : Len(q) - n \in K
    BY <1>1
  <2>2. PICK z \in Z : TRUE
    OBVIOUS
  <2>3. Len(q) - z \in K
    BY <2>1
  <2> HIDE DEF K
  <2>4. PICK k \in K : \A j \in K : k <= j
    BY <2>1, <2>3, LeastNumber
  <2>5. PICK n \in Z : k = Len(q) - n
    BY <2>4 DEF K
  <2>6. \A y \in Z : n >= y
    <3>1. ASSUME NEW y \in Z PROVE n >= y
      <4>1. k <= Len(q) - y
        BY <2>1, <2>4
      <4> QED BY <1>1, <2>5, <4>1
    <3> QED BY <3>1
  <2> QED BY <2>6
<1> QED BY <1>2 DEF Max

LEMMA IterExists ==
  ASSUME NEW q \in Seq(Item), NEW Y, NEW base \in Y, NEW op \in [Item -> [Y -> Y]]
  PROVE  \E f \in [SUBSET DOMAIN q -> Y] : IterOf(f, q, base, op)
<1> DEFINE X == DOMAIN q
           e == [Z \in SUBSET X |-> Max(Z)]
           G == [Z \in SUBSET X |-> IF Z = {} THEN [y \in Y |-> y] ELSE op[q[Max(Z)]]]
<1>1. X = 1..Len(q) /\ Len(q) \in Nat /\ \A n \in X : q[n] \in Item
  OBVIOUS
<1>2. IsFiniteSet(X)
  BY <1>1, FS_Interval
<1>3. \A Z \in SUBSET X : Z # {} => Max(Z) \in Z
  BY MaxIn
<1>4. G \in [SUBSET X -> [Y -> Y]]
  <2>1. \A Z \in SUBSET X : Z # {} => op[q[Max(Z)]] \in [Y -> Y]
    BY <1>1, <1>3
  <2>2. [y \in Y |-> y] \in [Y -> Y]
    OBVIOUS
  <2> QED BY <2>1, <2>2
<1>5. \A Z \in SUBSET X : Z # {} => e[Z] \in Z
  BY <1>3
<1>6. \A Z \in SUBSET X : e[Z] = Max(Z) /\ (Z # {} => G[Z] = op[q[Max(Z)]])
  OBVIOUS
<1> HIDE DEF X, e, G
<1>7. PICK f \in [SUBSET X -> Y] : GotFrom(f, SUBSET X, base, G, e)
  BY <1>2, <1>4, <1>5, Recursion
<1>8. ASSUME NEW Z \in SUBSET X
      PROVE  f[Z] = IF Z = {} THEN base ELSE LET x == Max(Z) IN op[q[x]][f[Z \ {x}]]
  <2>1. f[Z] = IF Z = {} THEN base ELSE G[Z][f[Z \ {e[Z]}]]
    BY <1>7 DEF GotFrom
  <2> QED BY <1>6, <2>1
<1> QED BY <1>7, <1>8 DEF IterOf, X

LEMMA UnreferenceType ==
  ASSUME NEW s \in DcyState, NEW i \in Item
  PROVE  Unreference(s, i) \in DcyState
BY UnreferenceDoes DEF Touches

LEMMA PutInBucketType ==
  ASSUME NEW s \in DcyState, NEW i \in Item
  PROVE  PutInBucket(s, i) \in DcyState
<1> DEFINE b == FirstBucket(s, i)
<1>1. b \in Bucket
  BY FirstBucketIs, Buckets
<1>2. PutInBucket(s, i) = PutIn(s, i, b)
  BY DEF PutInBucket, PutIn
<1> HIDE DEF b
<1>3. PutIn(s, i, b) \in DcyState
  BY <1>1, PutDoes DEF Touches
<1> QED BY <1>2, <1>3

\* h[k] is what the first k entries of q have made of s.
LEMMA TakeUpFold ==
  ASSUME NEW q \in Seq(Item), NEW s \in DcyState
  PROVE  \E h : /\ h[0] = s /\ h[Len(q)] = FoldLeft(TakeUp, s, q)
                /\ \A k \in 1..Len(q) : h[k] = TakeUp(h[k - 1], q[k])
<1> DEFINE Raw(g) == g = [Z \in SUBSET DOMAIN q |-> IF Z = {} THEN s
                                                   ELSE LET x == Max(Z) IN TakeUp(g[Z \ {x}], q[x])]
           g == CHOOSE g : Raw(g)
           op == [i \in Item |-> [u \in DcyState |-> TakeUp(u, i)]]
           h == [k \in 0..Len(q) |-> g[1..k]]
<1>1. FoldLeft(TakeUp, s, q) = g[DOMAIN q]
  BY DEF FoldLeft, MapThenFoldSet
<1>2. \E f : Raw(f)
  <2>1. op \in [Item -> [DcyState -> DcyState]]
    BY TakeUpType
  <2>2. PICK f \in [SUBSET DOMAIN q -> DcyState] : IterOf(f, q, s, op)
    <3> DEFINE Y == DcyState
    <3>1. s \in Y /\ op \in [Item -> [Y -> Y]]
      BY <2>1
    <3> HIDE DEF Y, op
    <3> QED BY <3>1, IterExists DEF Y
  <2>3. ASSUME NEW Z \in SUBSET DOMAIN q
        PROVE  f[Z] = IF Z = {} THEN s ELSE LET x == Max(Z) IN TakeUp(f[Z \ {x}], q[x])
    <3>1. f[Z] = IF Z = {} THEN s ELSE LET x == Max(Z) IN op[q[x]][f[Z \ {x}]]
      <4> HIDE DEF op
      <4> QED BY <2>2 DEF IterOf
    <3>2. ASSUME Z # {} PROVE q[Max(Z)] \in Item /\ f[Z \ {Max(Z)}] \in DcyState
      <4>1. Max(Z) \in Z
        BY <3>2, MaxIn
      <4>2. Max(Z) \in DOMAIN q /\ Z \ {Max(Z)} \in SUBSET DOMAIN q
        BY <4>1
      <4>3. q[Max(Z)] \in Item
        BY <4>2
      <4> QED BY <2>2, <4>2, <4>3
    <3> QED BY <3>1, <3>2
  <2> QED BY <2>2, <2>3
<1>3. Raw(g)
  <2> HIDE DEF Raw
  <2> QED BY <1>2
<1> HIDE DEF g
<1>4. DOMAIN q = 1..Len(q) /\ Len(q) \in Nat
  OBVIOUS
<1>5. h[0] = s /\ h[Len(q)] = g[DOMAIN q]
  <2>1. 1..0 = {} /\ {} \in SUBSET DOMAIN q
    OBVIOUS
  <2>2. g[{}] = s
    BY <1>3, <2>1
  <2> QED BY <1>4, <2>1, <2>2
<1>6. ASSUME NEW k \in 1..Len(q) PROVE h[k] = TakeUp(h[k - 1], q[k])
  <2>1. k \in Nat /\ k > 0 /\ 1..k \in SUBSET DOMAIN q
    BY <1>4
  <2>2. Max(1..k) = k /\ (1..k) \ {k} = 1..(k - 1) /\ 1..k # {}
    BY <2>1, MaxUpTo
  <2>3. g[1..k] = TakeUp(g[(1..k) \ {k}], q[k])
    BY <1>3, <2>1, <2>2
  <2>4. h[k] = g[1..k] /\ h[k - 1] = g[1..(k - 1)]
    BY <1>4
  <2> QED BY <2>2, <2>3, <2>4
<1> QED BY <1>1, <1>5, <1>6

LEMMA UnreferenceFold ==
  ASSUME NEW q \in Seq(Item), NEW s \in DcyState
  PROVE  \E h : /\ h[0] = s /\ h[Len(q)] = FoldLeft(Unreference, s, q)
                /\ \A k \in 1..Len(q) : h[k] = Unreference(h[k - 1], q[k])
<1> DEFINE Raw(g) == g = [Z \in SUBSET DOMAIN q |-> IF Z = {} THEN s
                                                   ELSE LET x == Max(Z) IN Unreference(g[Z \ {x}], q[x])]
           g == CHOOSE g : Raw(g)
           op == [i \in Item |-> [u \in DcyState |-> Unreference(u, i)]]
           h == [k \in 0..Len(q) |-> g[1..k]]
<1>1. FoldLeft(Unreference, s, q) = g[DOMAIN q]
  BY DEF FoldLeft, MapThenFoldSet
<1>2. \E f : Raw(f)
  <2>1. op \in [Item -> [DcyState -> DcyState]]
    BY UnreferenceType
  <2>2. PICK f \in [SUBSET DOMAIN q -> DcyState] : IterOf(f, q, s, op)
    <3> DEFINE Y == DcyState
    <3>1. s \in Y /\ op \in [Item -> [Y -> Y]]
      BY <2>1
    <3> HIDE DEF Y, op
    <3> QED BY <3>1, IterExists DEF Y
  <2>3. ASSUME NEW Z \in SUBSET DOMAIN q
        PROVE  f[Z] = IF Z = {} THEN s ELSE LET x == Max(Z) IN Unreference(f[Z \ {x}], q[x])
    <3>1. f[Z] = IF Z = {} THEN s ELSE LET x == Max(Z) IN op[q[x]][f[Z \ {x}]]
      <4> HIDE DEF op
      <4> QED BY <2>2 DEF IterOf
    <3>2. ASSUME Z # {} PROVE q[Max(Z)] \in Item /\ f[Z \ {Max(Z)}] \in DcyState
      <4>1. Max(Z) \in Z
        BY <3>2, MaxIn
      <4>2. Max(Z) \in DOMAIN q /\ Z \ {Max(Z)} \in SUBSET DOMAIN q
        BY <4>1
      <4>3. q[Max(Z)] \in Item
        BY <4>2
      <4> QED BY <2>2, <4>2, <4>3
    <3> QED BY <3>1, <3>2
  <2> QED BY <2>2, <2>3
<1>3. Raw(g)
  <2> HIDE DEF Raw
  <2> QED BY <1>2
<1> HIDE DEF g
<1>4. DOMAIN q = 1..Len(q) /\ Len(q) \in Nat
  OBVIOUS
<1>5. h[0] = s /\ h[Len(q)] = g[DOMAIN q]
  <2>1. 1..0 = {} /\ {} \in SUBSET DOMAIN q
    OBVIOUS
  <2>2. g[{}] = s
    BY <1>3, <2>1
  <2> QED BY <1>4, <2>1, <2>2
<1>6. ASSUME NEW k \in 1..Len(q) PROVE h[k] = Unreference(h[k - 1], q[k])
  <2>1. k \in Nat /\ k > 0 /\ 1..k \in SUBSET DOMAIN q
    BY <1>4
  <2>2. Max(1..k) = k /\ (1..k) \ {k} = 1..(k - 1) /\ 1..k # {}
    BY <2>1, MaxUpTo
  <2>3. g[1..k] = Unreference(g[(1..k) \ {k}], q[k])
    BY <1>3, <2>1, <2>2
  <2>4. h[k] = g[1..k] /\ h[k - 1] = g[1..(k - 1)]
    BY <1>4
  <2> QED BY <2>2, <2>3, <2>4
<1> QED BY <1>1, <1>5, <1>6

LEMMA PutInBucketFold ==
  ASSUME NEW q \in Seq(Item), NEW s \in DcyState
  PROVE  \E h : /\ h[0] = s /\ h[Len(q)] = FoldLeft(PutInBucket, s, q)
                /\ \A k \in 1..Len(q) : h[k] = PutInBucket(h[k - 1], q[k])
<1> DEFINE Raw(g) == g = [Z \in SUBSET DOMAIN q |-> IF Z = {} THEN s
                                                   ELSE LET x == Max(Z) IN PutInBucket(g[Z \ {x}], q[x])]
           g == CHOOSE g : Raw(g)
           op == [i \in Item |-> [u \in DcyState |-> PutInBucket(u, i)]]
           h == [k \in 0..Len(q) |-> g[1..k]]
<1>1. FoldLeft(PutInBucket, s, q) = g[DOMAIN q]
  BY DEF FoldLeft, MapThenFoldSet
<1>2. \E f : Raw(f)
  <2>1. op \in [Item -> [DcyState -> DcyState]]
    BY PutInBucketType
  <2>2. PICK f \in [SUBSET DOMAIN q -> DcyState] : IterOf(f, q, s, op)
    <3> DEFINE Y == DcyState
    <3>1. s \in Y /\ op \in [Item -> [Y -> Y]]
      BY <2>1
    <3> HIDE DEF Y, op
    <3> QED BY <3>1, IterExists DEF Y
  <2>3. ASSUME NEW Z \in SUBSET DOMAIN q
        PROVE  f[Z] = IF Z = {} THEN s ELSE LET x == Max(Z) IN PutInBucket(f[Z \ {x}], q[x])
    <3>1. f[Z] = IF Z = {} THEN s ELSE LET x == Max(Z) IN op[q[x]][f[Z \ {x}]]
      <4> HIDE DEF op
      <4> QED BY <2>2 DEF IterOf
    <3>2. ASSUME Z # {} PROVE q[Max(Z)] \in Item /\ f[Z \ {Max(Z)}] \in DcyState
      <4>1. Max(Z) \in Z
        BY <3>2, MaxIn
      <4>2. Max(Z) \in DOMAIN q /\ Z \ {Max(Z)} \in SUBSET DOMAIN q
        BY <4>1
      <4>3. q[Max(Z)] \in Item
        BY <4>2
      <4> QED BY <2>2, <4>2, <4>3
    <3> QED BY <3>1, <3>2
  <2> QED BY <2>2, <2>3
<1>3. Raw(g)
  <2> HIDE DEF Raw
  <2> QED BY <1>2
<1> HIDE DEF g
<1>4. DOMAIN q = 1..Len(q) /\ Len(q) \in Nat
  OBVIOUS
<1>5. h[0] = s /\ h[Len(q)] = g[DOMAIN q]
  <2>1. 1..0 = {} /\ {} \in SUBSET DOMAIN q
    OBVIOUS
  <2>2. g[{}] = s
    BY <1>3, <2>1
  <2> QED BY <1>4, <2>1, <2>2
<1>6. ASSUME NEW k \in 1..Len(q) PROVE h[k] = PutInBucket(h[k - 1], q[k])
  <2>1. k \in Nat /\ k > 0 /\ 1..k \in SUBSET DOMAIN q
    BY <1>4
  <2>2. Max(1..k) = k /\ (1..k) \ {k} = 1..(k - 1) /\ 1..k # {}
    BY <2>1, MaxUpTo
  <2>3. g[1..k] = PutInBucket(g[(1..k) \ {k}], q[k])
    BY <1>3, <2>1, <2>2
  <2>4. h[k] = g[1..k] /\ h[k - 1] = g[1..(k - 1)]
    BY <1>4
  <2> QED BY <2>2, <2>3, <2>4
<1> QED BY <1>1, <1>5, <1>6

-----------------------------------------------------------------------------
(* The lists as a whole *)

AtHand(q, k) == [j \in Item |-> LeftOver(q, k, j)]

LEMMA AtHandIs ==
  ASSUME NEW q \in Seq(Item)
  PROVE  /\ \A k \in 0..Len(q) : AtHand(q, k) \in [Item -> Nat]
         /\ AtHand(q, 0) = [j \in Item |-> Times(q, j)] /\ AtHand(q, Len(q)) = Zero
         /\ \A k \in 1..Len(q) : /\ k - 1 \in 0..Len(q) /\ k \in 0..Len(q) /\ q[k] \in Item
                                 /\ AtHand(q, k - 1)[q[k]] = AtHand(q, k)[q[k]] + 1
                                 /\ \A j \in Item \ {q[k]} : AtHand(q, k)[j] = AtHand(q, k - 1)[j]
<1>1. ASSUME NEW j \in Item
      PROVE  /\ LeftOver(q, 0, j) = Times(q, j)
             /\ LeftOver(q, Len(q), j) = 0
             /\ \A k \in 0..Len(q) : LeftOver(q, k, j) \in Nat
             /\ \A k \in 1..Len(q) :
                  LeftOver(q, k - 1, j) = LeftOver(q, k, j) + (IF q[k] = j THEN 1 ELSE 0)
  BY LeftOverIs
<1>2. \A k \in 0..Len(q) : AtHand(q, k) \in [Item -> Nat]
  BY <1>1 DEF AtHand
<1>3. AtHand(q, 0) = [j \in Item |-> Times(q, j)] /\ AtHand(q, Len(q)) = Zero
  BY <1>1 DEF AtHand, Zero
<1>4. ASSUME NEW k \in 1..Len(q)
      PROVE  /\ k - 1 \in 0..Len(q) /\ k \in 0..Len(q) /\ q[k] \in Item
             /\ AtHand(q, k - 1)[q[k]] = AtHand(q, k)[q[k]] + 1
             /\ \A j \in Item \ {q[k]} : AtHand(q, k)[j] = AtHand(q, k - 1)[j]
  <2>1. k - 1 \in 0..Len(q) /\ k \in 0..Len(q) /\ q[k] \in Item
    OBVIOUS
  <2>2. \A j \in Item : /\ AtHand(q, k)[j] = LeftOver(q, k, j) /\ AtHand(q, k - 1)[j] = LeftOver(q, k - 1, j)
                        /\ LeftOver(q, k, j) \in Nat
    BY <1>1, <2>1 DEF AtHand
  <2>3. LeftOver(q, k - 1, q[k]) = LeftOver(q, k, q[k]) + 1
    BY <1>1, <2>1
  <2>4. ASSUME NEW j \in Item \ {q[k]} PROVE LeftOver(q, k, j) = LeftOver(q, k - 1, j)
    <3>1. LeftOver(q, k - 1, j) = LeftOver(q, k, j) + 0
      BY <1>1
    <3> QED BY <2>2, <3>1
  <2> QED BY <2>1, <2>2, <2>3, <2>4
<1> QED BY <1>2, <1>3, <1>4

\* The bucket at hand.
LEMMA TakeUpAll ==
  ASSUME NEW q \in Seq(Item), NEW s \in DcyState, AllOk(s, [j \in Item |-> Times(q, j)], Zero, 2, Later)
  PROVE  LET t == FoldLeft(TakeUp, s, q)
         IN  t \in DcyState /\ t.missed = s.missed /\ AllOk(t, Zero, Zero, 2, Later)
<1>1. PICK h : /\ h[0] = s /\ h[Len(q)] = FoldLeft(TakeUp, s, q)
               /\ \A k \in 1..Len(q) : h[k] = TakeUp(h[k - 1], q[k])
  BY TakeUpFold
<1> DEFINE Good(k) == h[k] \in DcyState /\ h[k].missed = s.missed /\ AllOk(h[k], AtHand(q, k), Zero, 2, Later)
           S == {k \in 0..Len(q) : Good(k)}
<1>2. Len(q) \in Nat
  OBVIOUS
<1>3. 0 \in S
  BY <1>1, <1>2, AtHandIs
<1>4. ASSUME NEW k \in 1..Len(q), k - 1 \in S PROVE k \in S
  <2> DEFINE x == AtHand(q, k - 1)
             y == AtHand(q, k)
             i == q[k]
             u == h[k - 1]
             t == h[k]
  <2>1. i \in Item /\ x \in [Item -> Nat] /\ y \in [Item -> Nat] /\ x[i] = y[i] + 1
    BY AtHandIs
  <2>2. \A j \in Item \ {i} : y[j] = x[j]
    BY AtHandIs
  <2>3. u \in DcyState /\ u.missed = s.missed /\ AllOk(u, x, Zero, 2, Later)
    BY <1>4
  <2>4. t = TakeUp(u, i)
    BY <1>1
  <2> HIDE DEF x, y, i, u, t
  <2>5. t \in DcyState /\ t.missed = u.missed /\ AllOk(t, y, Zero, 2, Later)
    BY <2>1, <2>2, <2>3, <2>4, TakeUpOk
  <2>6. k \in 0..Len(q)
    OBVIOUS
  <2> QED BY <2>3, <2>5, <2>6 DEF t, y
<1> HIDE DEF S
<1>5. Len(q) \in S
  BY <1>2, <1>3, <1>4, UpToTheEnd
<1> QED BY <1>1, <1>5, AtHandIs DEF S

\* What is due to be released, while the list stays as it was.
LEMMA UnreferenceAll ==
  ASSUME NEW s \in DcyState, NEW lag, NEW pos, AllOk(s, Zero, Zero, lag, pos)
  PROVE  LET t == FoldLeft(Unreference, s, s.toRelease)
         IN  /\ t \in DcyState /\ t.missed = s.missed /\ t.toDecay = s.toDecay
             /\ \A j \in Item : ItemOk(t, j, Times(s.toDecay, j), 0, 0, lag, pos)
<1> DEFINE q == s.toRelease
           e(k) == [j \in Item |-> AtHand(q, k)[j] - Times(q, j)]
<1>1. q \in Seq(Item)
  BY DEF DcyState
<1>2. PICK h : /\ h[0] = s /\ h[Len(q)] = FoldLeft(Unreference, s, q)
               /\ \A k \in 1..Len(q) : h[k] = Unreference(h[k - 1], q[k])
  <2> HIDE DEF q
  <2> QED BY <1>1, UnreferenceFold
<1>3. \A j \in Item : Times(q, j) \in Nat
  BY <1>1, TimesNat
<1>4. e(0) = Zero
  <2>1. \A j \in Item : AtHand(q, 0)[j] = Times(q, j)
    BY <1>1, AtHandIs
  <2> QED BY <1>3, <2>1 DEF Zero
<1> DEFINE Good(k) == /\ h[k] \in DcyState /\ h[k].missed = s.missed
                      /\ h[k].toDecay = s.toDecay /\ h[k].toRelease = q
                      /\ AllOk(h[k], Zero, e(k), lag, pos)
           S == {k \in 0..Len(q) : Good(k)}
<1>5. Len(q) \in Nat
  BY <1>1
<1>6. 0 \in S
  <2> HIDE DEF e
  <2> QED BY <1>2, <1>4, <1>5
<1>7. ASSUME NEW k \in 1..Len(q), k - 1 \in S PROVE k \in S
  <2> DEFINE i == q[k]
             u == h[k - 1]
             t == h[k]
             n == AtHand(q, k)[i]
             f == e(k - 1)
             g == e(k)
  <2>1. i \in Item /\ n \in Nat /\ k \in 0..Len(q)
    BY <1>1, AtHandIs
  <2>2. Times(q, i) + f[i] = n + 1 /\ Times(q, i) + g[i] = n
    <3>1. AtHand(q, k - 1)[i] = n + 1
      BY <1>1, AtHandIs
    <3>2. f[i] = AtHand(q, k - 1)[i] - Times(q, i) /\ g[i] = AtHand(q, k)[i] - Times(q, i)
      <4> DEFINE a == AtHand(q, k - 1)
                 b == AtHand(q, k)
                 c(j) == Times(q, j)
      <4>1. f = [j \in Item |-> a[j] - c(j)] /\ g = [j \in Item |-> b[j] - c(j)]
        OBVIOUS
      <4> HIDE DEF a, b, c, f, g
      <4>2. f[i] = a[i] - c(i) /\ g[i] = b[i] - c(i)
        BY <2>1, <4>1
      <4> QED BY <4>2 DEF a, b, c
    <3>3. f[i] = n + 1 - Times(q, i) /\ g[i] = n - Times(q, i)
      <4> DEFINE a == AtHand(q, k - 1)[i]
                 c == Times(q, i)
      <4>1. a = n + 1 /\ f[i] = a - c /\ g[i] = n - c
        BY <3>1, <3>2
      <4>2. n \in Nat /\ c \in Nat
        BY <1>3, <2>1
      <4> HIDE DEF f, g, n, a, c, i
      <4>3. f[i] = n + 1 - c /\ g[i] = n - c
        BY <4>1, <4>2
      <4> QED BY <4>3 DEF c
    <3> HIDE DEF n, f, g
    <3> QED BY <1>3, <2>1, <3>3
  <2>3. \A j \in Item \ {i} : g[j] = f[j]
    BY <1>1, AtHandIs
  <2>4. /\ u \in DcyState /\ u.missed = s.missed /\ u.toDecay = s.toDecay /\ u.toRelease = q
        /\ AllOk(u, Zero, f, lag, pos)
    BY <1>7
  <2>5. t = Unreference(u, i)
    BY <1>2
  <2> HIDE DEF i, u, t, n, f, g, e
  <2>6. OthersOk(u, i, Zero, f, lag, pos) /\ ItemOk(u, i, Times(u.toDecay, i), 0, n + 1, lag, pos)
    <3>1. ItemOk(u, i, Times(u.toDecay, i), Zero[i], Times(u.toRelease, i) + f[i], lag, pos)
      BY <2>1, <2>4, OneAndOthers
    <3>2. Zero[i] = 0 /\ Times(u.toRelease, i) + f[i] = n + 1
      BY <2>1, <2>2, <2>4 DEF Zero
    <3>3. OthersOk(u, i, Zero, f, lag, pos)
      BY <2>1, <2>4, OneAndOthers
    <3> QED BY <3>1, <3>2, <3>3
  <2>7. Touches(u, t, i) /\ t.toDecay = u.toDecay /\ t.toRelease = u.toRelease
    BY <2>1, <2>4, <2>5, UnreferenceDoes
  <2>8. ItemOk(t, i, Times(t.toDecay, i), 0, n, lag, pos)
    <3> DEFINE x == 0
    <3>1. x \in Nat /\ ItemOk(u, i, Times(u.toDecay, i), x, n + 1, lag, pos)
      BY <2>6
    <3> HIDE DEF x
    <3>2. ItemOk(t, i, Times(t.toDecay, i), x, n, lag, pos)
      BY <2>1, <2>4, <2>5, <3>1, UnreferenceOk
    <3> QED BY <3>2 DEF x
  <2>9. OthersOk(t, i, Zero, g, lag, pos)
    <3>1. OthersOk(t, i, Zero, f, lag, pos)
      BY <2>6, <2>7, TouchesOthers
    <3> QED BY <2>3, <3>1, OthersSame
  <2>10. AllOk(t, Zero, g, lag, pos)
    <3>1. Zero[i] = 0 /\ Times(t.toRelease, i) + g[i] = n
      BY <2>1, <2>2, <2>4, <2>7 DEF Zero
    <3> QED BY <2>1, <2>8, <2>9, <3>1, OneAndOthers
  <2>11. t \in DcyState /\ t.missed = s.missed /\ t.toDecay = s.toDecay /\ t.toRelease = q
    BY <2>4, <2>7 DEF Touches
  <2> QED BY <2>1, <2>10, <2>11 DEF t, g
<1> HIDE DEF S
<1>8. Len(q) \in S
  BY <1>5, <1>6, <1>7, UpToTheEnd
<1> DEFINE t == h[Len(q)]
<1>9. /\ t \in DcyState /\ t.missed = s.missed /\ t.toDecay = s.toDecay /\ t.toRelease = q
      /\ AllOk(t, Zero, e(Len(q)), lag, pos)
  BY <1>8 DEF S
<1>10. \A j \in Item : AtHand(q, Len(q))[j] = 0
  BY <1>1, AtHandIs DEF Zero
<1>11. ASSUME NEW j \in Item PROVE Times(q, j) + e(Len(q))[j] = 0
  BY <1>3, <1>10
<1> HIDE DEF t, e, q
<1>12. ASSUME NEW j \in Item PROVE ItemOk(t, j, Times(s.toDecay, j), 0, 0, lag, pos)
  <2>1. ItemOk(t, j, Times(t.toDecay, j), Zero[j], Times(t.toRelease, j) + e(Len(q))[j], lag, pos)
    BY <1>9 DEF AllOk
  <2>2. Zero[j] = 0
    BY DEF Zero
  <2> QED BY <1>9, <1>11, <2>1, <2>2
<1> QED BY <1>2, <1>9, <1>12 DEF t, q

LEMMA PutAll ==
  ASSUME NEW s \in DcyState, s.toRelease = <<>>, NEW q, q = s.toDecay, NEW lag \in {0, 2},
         \A j \in Item : ItemOk(s, j, Times(q, j), 0, 0, lag, Here)
  PROVE  LET t == FoldLeft(PutInBucket, s, q)
         IN  /\ t \in DcyState /\ t.missed = s.missed /\ t.toRelease = <<>>
             /\ \A j \in Item : ItemOk(t, j, 0, 0, 0, lag, Here)
<1>1. q \in Seq(Item)
  BY DEF DcyState
<1>2. PICK h : /\ h[0] = s /\ h[Len(q)] = FoldLeft(PutInBucket, s, q)
               /\ \A k \in 1..Len(q) : h[k] = PutInBucket(h[k - 1], q[k])
  BY <1>1, PutInBucketFold
<1> DEFINE Good(k) == /\ h[k] \in DcyState /\ h[k].missed = s.missed /\ h[k].toRelease = <<>>
                      /\ \A j \in Item : ItemOk(h[k], j, AtHand(q, k)[j], 0, 0, lag, Here)
           S == {k \in 0..Len(q) : Good(k)}
<1>3. Len(q) \in Nat
  BY <1>1
<1>4. 0 \in S
  <2>1. \A j \in Item : AtHand(q, 0)[j] = Times(q, j)
    BY <1>1, AtHandIs
  <2> QED BY <1>2, <1>3, <2>1
<1>5. ASSUME NEW k \in 1..Len(q), k - 1 \in S PROVE k \in S
  <2> DEFINE i == q[k]
             u == h[k - 1]
             t == h[k]
             n == AtHand(q, k)[i]
             x == AtHand(q, k - 1)
             y == AtHand(q, k)
  <2>1. i \in Item /\ n \in Nat /\ k \in 0..Len(q) /\ x[i] = n + 1 /\ y[i] = n
    BY <1>1, AtHandIs
  <2>2. \A j \in Item \ {i} : y[j] = x[j]
    BY <1>1, AtHandIs
  <2>3. /\ u \in DcyState /\ u.missed = s.missed /\ u.toRelease = <<>>
        /\ \A j \in Item : ItemOk(u, j, x[j], 0, 0, lag, Here)
    BY <1>5
  <2>4. t = PutInBucket(u, i)
    BY <1>2
  <2> HIDE DEF i, u, t, n, x, y
  <2>5. Touches(u, t, i) /\ t.toRelease = u.toRelease /\ ItemOk(t, i, n, 0, 0, lag, Here)
    <3> DEFINE m == x[i]
               z == 0
    <3>1. ItemOk(u, i, m, z, z, lag, Here) /\ m = n + 1 /\ m \in Nat
      BY <2>1, <2>3
    <3>2. u \in DcyState /\ i \in Item /\ n \in Nat
      BY <2>1, <2>3
    <3> HIDE DEF m
    <3>3. z \in {0}
      OBVIOUS
    <3> HIDE DEF z
    <3>4. Touches(u, t, i) /\ t.toRelease = u.toRelease /\ ItemOk(t, i, n, z, z, lag, Here)
      BY <2>4, <3>1, <3>2, <3>3, PutInBucketOk
    <3> QED BY <3>4 DEF z
  <2>6. ASSUME NEW j \in Item PROVE ItemOk(t, j, y[j], 0, 0, lag, Here)
    <3>1. CASE j = i
      BY <2>1, <2>5, <3>1
    <3>2. CASE j # i
      <4>1. AsBefore(u, t, j) /\ y[j] = x[j]
        BY <2>2, <2>5, <3>2 DEF Touches
      <4>2. ItemOk(u, j, x[j], 0, 0, lag, Here)
        BY <2>3
      <4> DEFINE z == 0
      <4>3. ItemOk(u, j, x[j], z, z, lag, Here)
        BY <4>2
      <4> HIDE DEF z
      <4>4. ItemOk(t, j, x[j], z, z, lag, Here)
        BY <4>1, <4>3, AsBeforeOk
      <4> QED BY <4>1, <4>4 DEF z
    <3> QED BY <3>1, <3>2
  <2>7. t \in DcyState /\ t.missed = s.missed /\ t.toRelease = <<>>
    BY <2>3, <2>5 DEF Touches
  <2> QED BY <2>1, <2>6, <2>7 DEF t, y
<1> HIDE DEF S
<1>6. Len(q) \in S
  BY <1>3, <1>4, <1>5, UpToTheEnd
<1> DEFINE t == h[Len(q)]
<1>7. /\ t \in DcyState /\ t.missed = s.missed /\ t.toRelease = <<>>
      /\ \A j \in Item : ItemOk(t, j, AtHand(q, Len(q))[j], 0, 0, lag, Here)
  BY <1>6 DEF S
<1>8. \A j \in Item : AtHand(q, Len(q))[j] = 0
  BY <1>1, AtHandIs DEF Zero
<1> HIDE DEF t
<1> QED BY <1>2, <1>7, <1>8 DEF t

-----------------------------------------------------------------------------
(* Cleanup as a whole *)

NoneToRelease(s) == [s EXCEPT !.toRelease = <<>>]
NoneToDecay(s) == [s EXCEPT !.toDecay = <<>>]

LEMMA NoneToReleaseDoes ==
  ASSUME NEW s \in DcyState, NEW t, t = NoneToRelease(s)
  PROVE  /\ t \in DcyState /\ t.missed = s.missed /\ t.toRelease = <<>> /\ t.toDecay = s.toDecay
         /\ \A j \in Item : AsBefore(s, t, j)
<1>1. t = [where |-> s.where, type |-> s.type, dur |-> s.dur, decaying |-> s.decaying,
           refs |-> s.refs, toRelease |-> <<>>, toDecay |-> s.toDecay, buckets |-> s.buckets,
           left |-> s.left, again |-> s.again, missed |-> s.missed]
  BY DEF NoneToRelease, DcyState
<1>2. t \in DcyState
  BY <1>1 DEF DcyState
<1> QED BY <1>1, <1>2 DEF AsBefore

LEMMA NoneToDecayDoes ==
  ASSUME NEW s \in DcyState, NEW t, t = NoneToDecay(s)
  PROVE  /\ t \in DcyState /\ t.missed = s.missed /\ t.toRelease = s.toRelease /\ t.toDecay = <<>>
         /\ \A j \in Item : AsBefore(s, t, j)
<1>1. t = [where |-> s.where, type |-> s.type, dur |-> s.dur, decaying |-> s.decaying,
           refs |-> s.refs, toRelease |-> s.toRelease, toDecay |-> <<>>, buckets |-> s.buckets,
           left |-> s.left, again |-> s.again, missed |-> s.missed]
  BY DEF NoneToDecay, DcyState
<1>2. t \in DcyState
  BY <1>1 DEF DcyState
<1> QED BY <1>1, <1>2 DEF AsBefore

\* Without entries that are registered, it does not matter when they were.
LEMMA LagFree ==
  ASSUME NEW s, NEW j, NEW lag, NEW pos, ItemOk(s, j, 0, 0, 0, lag, pos)
  PROVE  ItemOk(s, j, 0, 0, 0, 0, pos)
<1>1. Timed(s, j, 0, 0, 0, pos)
  BY DEF ItemOk, Timed
<1> QED BY <1>1 DEF ItemOk

LEMMA CleanedUpOk ==
  ASSUME NEW s \in DcyState, NEW lag \in {0, 2}, AllOk(s, Zero, Zero, lag, Here), NEW r, r = CleanedUp(s)
  PROVE  r \in DcyState /\ r.missed = s.missed /\ AllOk(r, Zero, Zero, 0, Here)
<1> DEFINE u == FoldLeft(Unreference, s, s.toRelease)
           t == NoneToRelease(u)
           v == FoldLeft(PutInBucket, t, t.toDecay)
           z == 0
<1>1. r = NoneToDecay(v)
  BY DEF CleanedUp, NoneToDecay, NoneToRelease
<1>2. /\ u \in DcyState /\ u.missed = s.missed /\ u.toDecay = s.toDecay
      /\ \A j \in Item : ItemOk(u, j, Times(s.toDecay, j), z, z, lag, Here)
  <2> HIDE DEF Here
  <2> QED BY UnreferenceAll
<1> HIDE DEF u
<1>3. /\ t \in DcyState /\ t.missed = u.missed /\ t.toRelease = <<>> /\ t.toDecay = u.toDecay
      /\ \A j \in Item : AsBefore(u, t, j)
  BY <1>2, NoneToReleaseDoes
<1> HIDE DEF t
<1>4. \A j \in Item : ItemOk(t, j, Times(t.toDecay, j), z, z, lag, Here)
  <2> SUFFICES ASSUME NEW j \in Item PROVE ItemOk(t, j, Times(t.toDecay, j), z, z, lag, Here)
    OBVIOUS
  <2> HIDE DEF z
  <2>1. AsBefore(u, t, j) /\ ItemOk(u, j, Times(s.toDecay, j), z, z, lag, Here)
    BY <1>2, <1>3
  <2>2. ItemOk(t, j, Times(s.toDecay, j), z, z, lag, Here)
    BY <2>1, AsBeforeOk
  <2> QED BY <1>2, <1>3, <2>2
<1>5. /\ v \in DcyState /\ v.missed = t.missed /\ v.toRelease = <<>>
      /\ \A j \in Item : ItemOk(v, j, 0, 0, 0, lag, Here)
  BY <1>3, <1>4, PutAll
<1> HIDE DEF v
<1>6. /\ r \in DcyState /\ r.missed = v.missed /\ r.toRelease = v.toRelease /\ r.toDecay = <<>>
      /\ \A j \in Item : AsBefore(v, r, j)
  BY <1>1, <1>5, NoneToDecayDoes
<1>7. ASSUME NEW j \in Item
      PROVE  ItemOk(r, j, Times(r.toDecay, j), Zero[j], Times(r.toRelease, j) + Zero[j], 0, Here)
  <2>1. AsBefore(v, r, j) /\ ItemOk(v, j, z, z, z, z, Here)
    BY <1>5, <1>6, LagFree
  <2>2. Times(r.toDecay, j) = z /\ Zero[j] = z /\ Times(r.toRelease, j) + Zero[j] = z
    BY <1>5, <1>6, TimesEmpty DEF Zero
  <2> HIDE DEF z
  <2>3. ItemOk(r, j, z, z, z, z, Here)
    BY <2>1, AsBeforeOk
  <2>4. ItemOk(r, j, Times(r.toDecay, j), Zero[j], Times(r.toRelease, j) + Zero[j], z, Here)
    BY <2>2, <2>3
  <2> QED BY <2>4 DEF z
<1> QED BY <1>2, <1>3, <1>5, <1>6, <1>7 DEF AllOk

-----------------------------------------------------------------------------
(* A check of the bucket that is due *)

TimePassed(s) ==
  [s EXCEPT !.left = [i \in Item |-> IF Entries(s, i) > 0 THEN @[i] - EVENT_DECAYINTERVAL ELSE @[i]],
            !.buckets[0] = <<>>]
Rotated(s) == [s EXCEPT !.buckets = [b \in Bucket |-> s.buckets[(b + 1) % EVENT_DECAY_BUCKETS]]]

LEMMA TimePassedDoes ==
  ASSUME NEW s \in DcyState, NEW t, t = TimePassed(s)
  PROVE  /\ t \in DcyState /\ t.missed = s.missed /\ t.toDecay = s.toDecay /\ t.toRelease = s.toRelease
         /\ t.where = s.where /\ t.type = s.type /\ t.dur = s.dur /\ t.refs = s.refs
         /\ t.decaying = s.decaying /\ t.again = s.again
         /\ \A j \in Item : t.left[j] = IF Entries(s, j) > 0 THEN s.left[j] - 2 ELSE s.left[j]
         /\ t.buckets[0] = <<>> /\ \A b \in Bucket \ {0} : t.buckets[b] = s.buckets[b]
<1> DEFINE l == [i \in Item |-> IF Entries(s, i) > 0 THEN s.left[i] - 2 ELSE s.left[i]]
           bb == [s.buckets EXCEPT ![0] = <<>>]
<1>1. s.left \in [Item -> Int] /\ s.buckets \in [Bucket -> Seq(Item)] /\ 0 \in Bucket
  BY Buckets DEF DcyState
<1>2. l \in [Item -> Int] /\ bb \in [Bucket -> Seq(Item)] /\ bb[0] = <<>> /\ \A b \in Bucket \ {0} : bb[b] = s.buckets[b]
  <2>1. ASSUME NEW i \in Item PROVE (IF Entries(s, i) > 0 THEN s.left[i] - 2 ELSE s.left[i]) \in Int
    BY <1>1
  <2>2. l \in [Item -> Int]
    BY <2>1
  <2>3. bb \in [Bucket -> Seq(Item)] /\ bb[0] = <<>> /\ \A b \in Bucket \ {0} : bb[b] = s.buckets[b]
    BY <1>1
  <2> QED BY <2>2, <2>3
<1>3. \A j \in Item : l[j] = IF Entries(s, j) > 0 THEN s.left[j] - 2 ELSE s.left[j]
  OBVIOUS
<1>4. t = [s EXCEPT !.left = l, !.buckets = bb]
  BY Buckets DEF TimePassed, DcyState
<1> HIDE DEF l, bb
<1>5. t = [where |-> s.where, type |-> s.type, dur |-> s.dur, decaying |-> s.decaying,
           refs |-> s.refs, toRelease |-> s.toRelease, toDecay |-> s.toDecay, buckets |-> bb,
           left |-> l, again |-> s.again, missed |-> s.missed]
  BY <1>4 DEF DcyState
<1>6. t \in DcyState
  BY <1>2, <1>5 DEF DcyState
<1>7. /\ t.missed = s.missed /\ t.toDecay = s.toDecay /\ t.toRelease = s.toRelease
      /\ t.where = s.where /\ t.type = s.type /\ t.dur = s.dur /\ t.refs = s.refs
      /\ t.decaying = s.decaying /\ t.again = s.again /\ t.left = l /\ t.buckets = bb
  BY <1>5
<1> QED BY <1>2, <1>3, <1>6, <1>7

LEMMA TimePassedOk ==
  ASSUME NEW s \in DcyState, AllOk(s, Zero, Zero, 0, Here), NEW t, t = TimePassed(s),
         NEW q, q = s.buckets[0]
  PROVE  t \in DcyState /\ t.missed = s.missed /\ AllOk(t, [j \in Item |-> Times(q, j)], Zero, 2, Later)
<1>1. /\ t \in DcyState /\ t.missed = s.missed /\ t.toDecay = s.toDecay /\ t.toRelease = s.toRelease
      /\ t.where = s.where /\ t.type = s.type /\ t.dur = s.dur /\ t.refs = s.refs
      /\ t.decaying = s.decaying /\ t.again = s.again
      /\ \A j \in Item : t.left[j] = IF Entries(s, j) > 0 THEN s.left[j] - 2 ELSE s.left[j]
      /\ t.buckets[0] = <<>> /\ \A b \in Bucket \ {0} : t.buckets[b] = s.buckets[b]
  BY TimePassedDoes
<1>2. ASSUME NEW i \in Item
      PROVE  ItemOk(t, i, Times(t.toDecay, i), Times(q, i), Times(t.toRelease, i) + Zero[i], 2, Later)
  <2> DEFINE n == Times(s.toDecay, i)
             h == Times(s.toRelease, i) + Zero[i]
             x == Times(q, i)
             c == s.buckets
  <2>1. ItemOk(s, i, n, Zero[i], h, 0, Here) /\ Zero[i] = 0
    BY DEF AllOk, Zero
  <2>2. /\ Times(c[0], i) \in Nat /\ Times(c[1], i) \in Nat /\ Times(c[2], i) \in Nat /\ Times(c[3], i) \in Nat
        /\ n \in Nat /\ Filed(s, i) \in Nat /\ Entries(s, i) = Filed(s, i) + n /\ Times(s.toRelease, i) \in Nat
    BY Counts, Buckets
  <2>3. /\ Filed(s, i) = Times(c[0], i) + Times(c[1], i) + Times(c[2], i) + Times(c[3], i)
        /\ Filed(t, i) = 0 + Times(c[1], i) + Times(c[2], i) + Times(c[3], i)
        /\ x = Times(c[0], i)
    <3>1. Times(t.buckets[0], i) = 0
      BY <1>1, TimesEmpty
    <3>2. t.buckets[1] = c[1] /\ t.buckets[2] = c[2] /\ t.buckets[3] = c[3]
      BY <1>1, Buckets
    <3>3. Filed(t, i) = 0 + Times(c[1], i) + Times(c[2], i) + Times(c[3], i)
      BY <3>1, <3>2 DEF Filed
    <3> QED BY <3>3 DEF Filed
  <2> DEFINE w0 == Times(c[0], i)
             w1 == Times(c[1], i)
             w2 == Times(c[2], i)
             w3 == Times(c[3], i)
  <2>4. Filed(t, i) + x = Filed(s, i) /\ x \in Nat /\ Filed(t, i) \in Nat
    <3>1. w0 \in Nat /\ w1 \in Nat /\ w2 \in Nat /\ w3 \in Nat /\ Filed(s, i) = w0 + w1 + w2 + w3
          /\ Filed(t, i) = 0 + w1 + w2 + w3 /\ x = w0
      BY <2>2, <2>3
    <3> HIDE DEF w0, w1, w2, w3, x
    <3> QED BY <3>1
  <2>5. /\ t.where[i] = s.where[i] /\ t.type[i] = s.type[i] /\ t.dur[i] = s.dur[i] /\ t.refs[i] = s.refs[i]
        /\ i \in t.decaying <=> i \in s.decaying
        /\ i \in t.again <=> i \in s.again
        /\ t.left[i] = IF Entries(s, i) > 0 THEN s.left[i] - 2 ELSE s.left[i]
    BY <1>1
  <2>6. /\ s.left[i] \in Int /\ s.dur[i] \in Nat \cup {-1} /\ s.refs[i] \in Nat
    BY DEF DcyState
  <2>7. Lies(t, i) = Lies(s, i) /\ Lies(s, i) \in Nat
    BY <2>5 DEF Lies
  <2>8. TimeRuns(t, i) = TimeRuns(s, i) /\ CanDecay(t, i) = CanDecay(s, i)
    BY <2>5 DEF TimeRuns, CanDecay
  <2>9. /\ t.toDecay = s.toDecay /\ t.toRelease = s.toRelease
        /\ \A b \in Bucket \ {0} : t.buckets[b] = s.buckets[b]
        /\ Times(t.buckets[0], i) = 0
    BY <1>1, TimesEmpty
  <2>10. h \in Nat /\ Times(t.toRelease, i) + Zero[i] = h /\ Times(t.toDecay, i) = n
    BY <2>1, <2>2, <2>9
  <2>11. x = Times(s.buckets[0], i)
    OBVIOUS
  <2> HIDE DEF n, h, x, c, w0, w1, w2, w3
  <2>12. Counted(s, i, n, 0, h) /\ MarkedRight(s, i, n, 0) /\ Timed(s, i, n, 0, 0, Here)
    BY <2>1 DEF ItemOk
  <2>13. Counted(t, i, n, x, h)
    <3>1. s.refs[i] = Filed(s, i) + n + 0 + h + Lies(s, i)
      BY <2>12 DEF Counted
    <3>2. t.refs[i] = Filed(t, i) + n + x + h + Lies(t, i)
      BY <2>2, <2>4, <2>5, <2>7, <2>10, <3>1
    <3> QED BY <2>5, <2>12, <3>2 DEF Counted
  <2>14. MarkedRight(t, i, n, x)
    <3>1. Filed(t, i) + n + x = Filed(s, i) + n + 0
      BY <2>2, <2>4
    <3> QED BY <2>5, <2>12, <3>1 DEF MarkedRight
  <2>15. ASSUME TimeRuns(t, i), NEW b \in Bucket, Times(t.buckets[b], i) > 0 PROVE InBucket(t, i, Later[b])
    <3>1. b # 0 /\ Later[b] = b - 1
      BY <2>9, <2>15 DEF Later
    <3>2. Times(s.buckets[b], i) > 0 /\ Here[b] = b
      BY <2>9, <2>15, <3>1 DEF Here
    <3>3. InBucket(s, i, b)
      BY <2>8, <2>12, <2>15, <3>2 DEF Timed
    <3>4. Entries(s, i) > 0
      BY <2>2, <3>1, <3>2, Buckets, <2>3 DEF c
    <3>5. b \in {1, 2, 3}
      BY <3>1, Buckets
    <3> QED BY <2>5, <2>6, <3>1, <3>3, <3>4, <3>5 DEF InBucket
  <2>16. ASSUME TimeRuns(t, i), n > 0
         PROVE  /\ t.left[i] >= 1 - 2 /\ t.left[i] >= t.dur[i] - 2
                /\ i \notin t.again => t.left[i] <= t.dur[i]
    <3>1. /\ s.left[i] >= 1 - 0 /\ s.left[i] >= s.dur[i] - 0
          /\ i \notin s.again => s.left[i] <= s.dur[i]
      BY <2>8, <2>12, <2>16 DEF Timed
    <3>2. t.left[i] = s.left[i] - 2
      BY <2>2, <2>5, <2>16
    <3> QED BY <2>5, <2>6, <3>1, <3>2
  <2>17. ASSUME x > 0, CanDecay(t, i)
         PROVE  /\ t.left[i] >= 0 - 3 /\ t.left[i] >= t.dur[i] - 10
                /\ i \notin t.again => t.left[i] <= t.dur[i] - 8 \/ t.left[i] <= 5
    <3>1. TimeRuns(s, i)
      <4>1. s.where[i] = "world" /\ DecayTime[s.type[i]] > 0
        BY <2>8, <2>17 DEF CanDecay
      <4>2. s.dur[i] >= 0
        BY <2>12, <4>1 DEF Counted
      <4>3. s.dur[i] # NoDuration
        BY <2>6, <4>2 DEF NoDuration
      <4>4. ~Undying(s.type[i])
        BY <4>1 DEF Undying
      <4> QED BY <4>1, <4>3, <4>4 DEF TimeRuns
    <3>2. InBucket(s, i, 0)
      <4>1. 0 \in Bucket /\ Here[0] = 0
        BY Buckets DEF Here
      <4> QED BY <2>11, <2>12, <2>17, <3>1, <4>1 DEF Timed
    <3>3. t.left[i] = s.left[i] - 2
      BY <2>2, <2>4, <2>5, <2>17
    <3> QED BY <2>5, <2>6, <3>2, <3>3 DEF InBucket
  <2>18. Timed(t, i, n, x, 2, Later)
    BY <2>15, <2>16, <2>17 DEF Timed
  <2> QED BY <2>10, <2>13, <2>14, <2>18 DEF ItemOk, x
<1> DEFINE y == [j \in Item |-> Times(q, j)]
<1>3. \A i \in Item : y[i] = Times(q, i)
  OBVIOUS
<1> HIDE DEF y
<1>4. AllOk(t, y, Zero, 2, Later)
  BY <1>2, <1>3 DEF AllOk
<1> QED BY <1>1, <1>4 DEF y

\* The bucket that is next is now the one at hand.
LEMMA RotatedOk ==
  ASSUME NEW s \in DcyState, AllOk(s, Zero, Zero, 2, Later), NEW t, t = Rotated(s)
  PROVE  t \in DcyState /\ t.missed = s.missed /\ AllOk(t, Zero, Zero, 2, Here)
<1> DEFINE bb == [b \in Bucket |-> s.buckets[(b + 1) % EVENT_DECAY_BUCKETS]]
<1>1. s.buckets \in [Bucket -> Seq(Item)]
  BY DEF DcyState
<1>2. \A b \in Bucket : bb[b] = s.buckets[IF b = 3 THEN 0 ELSE b + 1] /\ (IF b = 3 THEN 0 ELSE b + 1) \in Bucket
  BY Buckets
<1>3. t = [where |-> s.where, type |-> s.type, dur |-> s.dur, decaying |-> s.decaying,
           refs |-> s.refs, toRelease |-> s.toRelease, toDecay |-> s.toDecay, buckets |-> bb,
           left |-> s.left, again |-> s.again, missed |-> s.missed]
  BY DEF Rotated, DcyState
<1>4. bb \in [Bucket -> Seq(Item)]
  <2> DEFINE g(b) == s.buckets[(b + 1) % EVENT_DECAY_BUCKETS]
  <2>1. \A b \in Bucket : g(b) = bb[b]
    OBVIOUS
  <2>2. \A b \in Bucket : g(b) \in Seq(Item)
    <3> HIDE DEF g, bb
    <3> QED BY <1>1, <1>2, <2>1
  <2>3. bb = [b \in Bucket |-> g(b)]
    OBVIOUS
  <2> HIDE DEF g, bb
  <2> QED BY <2>2, <2>3
<1> HIDE DEF bb
<1>5. t \in DcyState
  BY <1>3, <1>4 DEF DcyState
<1>6. /\ t.missed = s.missed /\ t.toDecay = s.toDecay /\ t.toRelease = s.toRelease
      /\ t.where = s.where /\ t.type = s.type /\ t.dur = s.dur /\ t.refs = s.refs
      /\ t.decaying = s.decaying /\ t.again = s.again /\ t.left = s.left /\ t.buckets = bb
  BY <1>3
<1>7. ASSUME NEW i \in Item
      PROVE  ItemOk(t, i, Times(t.toDecay, i), Zero[i], Times(t.toRelease, i) + Zero[i], 2, Here)
  <2> DEFINE n == Times(s.toDecay, i)
             h == Times(s.toRelease, i) + Zero[i]
             x == Zero[i]
             c == s.buckets
  <2>1. ItemOk(s, i, n, x, h, 2, Later)
    BY DEF AllOk
  <2> HIDE DEF n, h, x
  <2>2. Counted(s, i, n, x, h) /\ MarkedRight(s, i, n, x) /\ Timed(s, i, n, x, 2, Later)
    BY <2>1 DEF ItemOk
  <2>3. /\ Times(c[0], i) \in Nat /\ Times(c[1], i) \in Nat /\ Times(c[2], i) \in Nat /\ Times(c[3], i) \in Nat
    BY Counts, Buckets
  <2>4. t.buckets[0] = c[1] /\ t.buckets[1] = c[2] /\ t.buckets[2] = c[3] /\ t.buckets[3] = c[0]
    BY <1>2, <1>6, Buckets
  <2>5. Filed(t, i) = Filed(s, i)
    <3> DEFINE w0 == Times(c[0], i)
               w1 == Times(c[1], i)
               w2 == Times(c[2], i)
               w3 == Times(c[3], i)
    <3>1. Filed(s, i) = w0 + w1 + w2 + w3 /\ Filed(t, i) = w1 + w2 + w3 + w0
      BY <2>4 DEF Filed
    <3>2. w0 \in Nat /\ w1 \in Nat /\ w2 \in Nat /\ w3 \in Nat
      BY <2>3
    <3> HIDE DEF w0, w1, w2, w3
    <3> QED BY <3>1, <3>2
  <2> HIDE DEF c
  <2>6. Lies(t, i) = Lies(s, i) /\ TimeRuns(t, i) = TimeRuns(s, i) /\ CanDecay(t, i) = CanDecay(s, i)
    BY <1>6 DEF Lies, TimeRuns, CanDecay
  <2>7. Counted(t, i, n, x, h)
    BY <1>6, <2>2, <2>5, <2>6 DEF Counted
  <2>8. MarkedRight(t, i, n, x)
    BY <1>6, <2>2, <2>5 DEF MarkedRight
  <2>9. ASSUME TimeRuns(t, i), NEW b \in Bucket, Times(t.buckets[b], i) > 0 PROVE InBucket(t, i, Here[b])
    <3> DEFINE p == IF b = 3 THEN 0 ELSE b + 1
    <3>1. p \in Bucket /\ t.buckets[b] = s.buckets[p] /\ Later[p] = b /\ Here[b] = b
      BY <1>2, <1>6, Buckets DEF Later, Here
    <3> HIDE DEF p
    <3>2. InBucket(s, i, Later[p])
      BY <2>2, <2>6, <2>9, <3>1 DEF Timed
    <3>3. InBucket(s, i, b)
      BY <3>1, <3>2
    <3>4. InBucket(t, i, b)
      BY <1>6, <3>3 DEF InBucket
    <3> QED BY <3>1, <3>4
  <2>10. Timed(t, i, n, x, 2, Here)
    BY <1>6, <2>2, <2>6, <2>9 DEF Timed
  <2>11. ItemOk(t, i, n, x, h, 2, Here)
    BY <2>7, <2>8, <2>10 DEF ItemOk
  <2> QED BY <1>6, <2>11 DEF n, h, x
<1> QED BY <1>5, <1>6, <1>7 DEF AllOk

-----------------------------------------------------------------------------
(* The steps *)

DecayInv(s) == s \in DcyState /\ s.missed = {} /\ AllOk(s, Zero, Zero, 0, Here)

LEMMA ZeroIs == Zero \in [Item -> Nat] /\ Here \in Positions /\ \A j \in Item : Zero[j] = 0
BY Buckets DEF Zero, Here, Positions

\* An operation on one item that leaves that item sound leaves all sound.
LEMMA OneStep ==
  ASSUME NEW s, DecayInv(s), NEW i \in Item, NEW t, Touches(s, t, i),
         NEW h, h = Times(t.toRelease, i), ItemOk(t, i, Times(t.toDecay, i), 0, h, 0, Here)
  PROVE  DecayInv(t)
<1> DEFINE z == Zero
           p == Here
           l == 0
<1>1. OthersOk(s, i, z, z, l, p)
  BY OneAndOthers DEF DecayInv
<1> HIDE DEF z, p, l
<1>2. OthersOk(t, i, z, z, l, p)
  BY <1>1, TouchesOthers
<1>3. z[i] = 0 /\ Times(t.toRelease, i) + z[i] = h
  <2>1. t \in DcyState
    BY DEF Touches
  <2>2. Times(t.toRelease, i) \in Nat
    BY <2>1, Counts
  <2> QED BY <2>2, ZeroIs DEF z
<1>4. ItemOk(t, i, Times(t.toDecay, i), z[i], Times(t.toRelease, i) + z[i], l, p)
  BY <1>3 DEF l, p
<1>5. AllOk(t, z, z, l, p)
  BY <1>2, <1>4, OneAndOthers
<1>6. t \in DcyState /\ t.missed = s.missed
  BY DEF Touches
<1> QED BY <1>5, <1>6 DEF DecayInv, z, l, p

\* What is there of one item.
LEMMA OneItem ==
  ASSUME NEW s, DecayInv(s), NEW i \in Item
  PROVE  /\ s \in DcyState /\ Times(s.toRelease, i) \in Nat
         /\ ItemOk(s, i, Times(s.toDecay, i), 0, Times(s.toRelease, i), 0, Here)
<1>1. s \in DcyState /\ ItemOk(s, i, Times(s.toDecay, i), Zero[i], Times(s.toRelease, i) + Zero[i], 0, Here)
  BY DEF DecayInv, AllOk
<1>2. Times(s.toRelease, i) \in Nat
  BY <1>1, Counts
<1>3. Zero[i] = 0 /\ Times(s.toRelease, i) + Zero[i] = Times(s.toRelease, i)
  BY <1>2, ZeroIs
<1> QED BY <1>1, <1>2, <1>3

LEMMA CheckDecayKeeps == DecayInv(dcy) /\ CheckDecay => DecayInv(dcy')
<1> SUFFICES ASSUME DecayInv(dcy), CheckDecay PROVE DecayInv(dcy')
  OBVIOUS
<1> DEFINE d == dcy
           r == dcy'
           q == d.buckets[0]
           s == TimePassed(d)
           t == FoldLeft(TakeUp, s, q)
           u == Rotated(t)
           x == [j \in Item |-> Times(q, j)]
<1>1. d \in DcyState /\ d.missed = {} /\ AllOk(d, Zero, Zero, 0, Here)
  BY DEF DecayInv
<1>2. r = CleanedUp(u)
  BY DEF CheckDecay, TimePassed, Rotated
<1> HIDE DEF d, r
<1>3. q \in Seq(Item)
  BY <1>1, Buckets DEF DcyState
<1> HIDE DEF q
<1>4. s \in DcyState /\ s.missed = d.missed /\ AllOk(s, x, Zero, 2, Later)
  BY <1>1, TimePassedOk DEF q
<1> HIDE DEF s
<1>5. t \in DcyState /\ t.missed = s.missed /\ AllOk(t, Zero, Zero, 2, Later)
  BY <1>3, <1>4, TakeUpAll
<1> HIDE DEF t
<1>6. u \in DcyState /\ u.missed = t.missed /\ AllOk(u, Zero, Zero, 2, Here)
  BY <1>5, RotatedOk
<1> HIDE DEF u
<1>7. r \in DcyState /\ r.missed = u.missed /\ AllOk(r, Zero, Zero, 0, Here)
  <2> DEFINE lag == 2
  <2>1. lag \in {0, 2} /\ AllOk(u, Zero, Zero, lag, Here)
    BY <1>6
  <2> HIDE DEF lag
  <2> QED BY <1>2, <1>6, <2>1, CleanedUpOk
<1> QED BY <1>1, <1>4, <1>5, <1>6, <1>7 DEF DecayInv, r

LEMMA CleanUpKeeps == DecayInv(dcy) /\ CleanUp => DecayInv(dcy')
<1> SUFFICES ASSUME DecayInv(dcy), CleanUp PROVE DecayInv(dcy')
  OBVIOUS
<1> DEFINE d == dcy
           r == dcy'
           lag == 0
<1>1. d \in DcyState /\ d.missed = {} /\ AllOk(d, Zero, Zero, lag, Here) /\ lag \in {0, 2}
  BY DEF DecayInv
<1>2. r = CleanedUp(d)
  BY DEF CleanUp
<1> HIDE DEF d, r, lag
<1>3. r \in DcyState /\ r.missed = d.missed /\ AllOk(r, Zero, Zero, 0, Here)
  BY <1>1, <1>2, CleanedUpOk
<1> QED BY <1>1, <1>3 DEF DecayInv, r

LEMMA MoveKeeps == DecayInv(dcy) /\ Move => DecayInv(dcy')
<1> SUFFICES ASSUME DecayInv(dcy), NEW i \in Item, dcy.where[i] = "world", dcy' = RegisterUnlessDone(dcy, i)
             PROVE  DecayInv(dcy')
  BY DEF Move
<1> DEFINE d == dcy
           r == dcy'
           h == Times(d.toRelease, i)
           l == 0
<1>1. /\ d \in DcyState /\ DecayInv(d) /\ d.where[i] = "world" /\ r = RegisterUnlessDone(d, i)
      /\ h \in Nat /\ l \in {0, 2} /\ ItemOk(d, i, Times(d.toDecay, i), 0, h, l, Here)
  BY OneItem
<1> HIDE DEF d, r, h, l
<1>2. Touches(d, r, i) /\ r.toRelease = d.toRelease /\ ItemOk(r, i, Times(r.toDecay, i), 0, h, l, Here)
  BY <1>1, ZeroIs, RegisterUnlessDoneOk
<1>3. h = Times(r.toRelease, i)
  BY <1>2 DEF h
<1>4. ItemOk(r, i, Times(r.toDecay, i), 0, h, 0, Here)
  BY <1>2 DEF l
<1>5. DecayInv(r)
  BY <1>1, <1>2, <1>3, <1>4, OneStep
<1> QED BY <1>5 DEF r

LEMMA TakeAwayKeeps == DecayInv(dcy) /\ TakeAway => DecayInv(dcy')
<1> SUFFICES ASSUME DecayInv(dcy), NEW i \in Item, dcy.where[i] = "world", dcy' = RemoveItem(dcy, i)
             PROVE  DecayInv(dcy')
  BY DEF TakeAway
<1> DEFINE d == dcy
           r == dcy'
           h == Times(d.toRelease, i)
           l == 0
           x == 0
<1>1. /\ d \in DcyState /\ DecayInv(d) /\ d.where[i] = "world" /\ r = RemoveItem(d, i)
      /\ h \in Nat /\ l \in {0, 2} /\ ItemOk(d, i, Times(d.toDecay, i), x, h, l, Here) /\ x = 0
  BY OneItem
<1> HIDE DEF d, r, h, l, x
<1>2. ItemLoose(d, i, Times(d.toDecay, i), x, h)
  <2>1. Filed(d, i) \in Nat /\ Times(d.toDecay, i) \in Nat
    BY <1>1, Counts
  <2> QED BY <1>1, <2>1 DEF ItemOk, MarkedRight, ItemLoose
<1>3. Touches(d, r, i) /\ Times(r.toRelease, i) = Times(d.toRelease, i) + 1
  BY <1>1, RemoveDoes
<1> DEFINE g == h + 1
<1>4. ItemOk(r, i, Times(r.toDecay, i), x, g, l, Here)
  <2>1. x \in Nat
    BY <1>1
  <2> QED BY <1>1, <1>2, <2>1, ZeroIs, RemoveOk
<1>5. g = Times(r.toRelease, i)
  BY <1>3 DEF h
<1> HIDE DEF g
<1>6. ItemOk(r, i, Times(r.toDecay, i), 0, g, 0, Here)
  BY <1>1, <1>4 DEF l
<1>7. DecayInv(r)
  BY <1>1, <1>3, <1>5, <1>6, OneStep
<1> QED BY <1>7 DEF r

\* StartDecay: an item whose time is over decays at once, the rest are registered.
LEMMA StartDecayKeeps ==
  ASSUME NEW s, DecayInv(s), NEW i \in Item, s.where[i] = "world", NEW t, t = StartDecay(s, i)
  PROVE  DecayInv(t)
<1> DEFINE h == Times(s.toRelease, i)
           l == 0
<1>1. s \in DcyState /\ h \in Nat /\ l \in {0, 2} /\ ItemOk(s, i, Times(s.toDecay, i), 0, h, l, Here)
  BY OneItem
<1>2. h = Times(s.toRelease, i) /\ l = 0
  OBVIOUS
<1> HIDE DEF h, l
<1>3. CASE CanDecay(s, i) /\ i \notin s.decaying /\ s.dur[i] <= 0
  <2>1. t = InternalDecayItem(s, i) /\ CanDecay(s, i)
    BY <1>3 DEF StartDecay
  <2> DEFINE z == Zero
             p == Here
  <2>2. z \in [Item -> Nat] /\ p \in Positions /\ z[i] = 0
    BY ZeroIs
  <2>3. OthersOk(s, i, z, z, l, p)
    BY <1>2, OneAndOthers DEF DecayInv
  <2>4. ItemLoose(s, i, Times(s.toDecay, i), 0, h)
    <3>1. Filed(s, i) \in Nat /\ Times(s.toDecay, i) \in Nat
      BY <1>1, Counts
    <3> QED BY <1>1, <3>1 DEF ItemOk, MarkedRight, ItemLoose
  <2> HIDE DEF z, p
  <2>5. ItemLoose(s, i, Times(s.toDecay, i), z[i], Times(s.toRelease, i) + z[i])
    BY <1>1, <1>2, <2>2, <2>4
  <2>6. t \in DcyState /\ t.missed = s.missed /\ AllOk(t, z, z, l, p)
    BY <1>1, <2>1, <2>2, <2>3, <2>5, InternalDecayOk
  <2> QED BY <1>2, <2>6 DEF DecayInv, z, p
<1>4. CASE ~(CanDecay(s, i) /\ i \notin s.decaying /\ s.dur[i] <= 0)
  <2>1. t = s \/ t = RegisterUnlessDone(s, i)
    BY <1>4 DEF StartDecay, StartAnew
  <2>2. CASE t = RegisterUnlessDone(s, i)
    <3>1. Touches(s, t, i) /\ t.toRelease = s.toRelease /\ ItemOk(t, i, Times(t.toDecay, i), 0, h, l, Here)
      BY <1>1, <2>2, ZeroIs, RegisterUnlessDoneOk
    <3>2. h = Times(t.toRelease, i) /\ ItemOk(t, i, Times(t.toDecay, i), 0, h, 0, Here)
      BY <1>2, <3>1
    <3> QED BY <3>1, <3>2, OneStep
  <2> QED BY <2>1, <2>2
<1> QED BY <1>3, <1>4

LEMMA DecaysKeeps == DecayInv(dcy) /\ Decays => DecayInv(dcy')
<1> SUFFICES ASSUME DecayInv(dcy), NEW i \in Item, dcy.where[i] = "world", dcy' = StartDecay(dcy, i)
             PROVE  DecayInv(dcy')
  BY DEF Decays
<1> DEFINE d == dcy
           r == dcy'
<1>1. DecayInv(d) /\ d.where[i] = "world" /\ r = StartDecay(d, i)
  OBVIOUS
<1> HIDE DEF d, r
<1>2. DecayInv(r)
  BY <1>1, StartDecayKeeps
<1> QED BY <1>2 DEF r

LEMMA SetIDKeeps ==
  ASSUME NEW s, DecayInv(s), NEW i \in Item, s.where[i] = "world", NEW ty \in Type, <<s.type[i], ty>> \in Turns,
         NEW t, t = SetID(s, i, ty)
  PROVE  DecayInv(t) /\ t.where[i] = "world"
<1> DEFINE h == Times(s.toRelease, i)
           l == 0
<1>1. s \in DcyState /\ h \in Nat /\ l \in {0, 2} /\ ItemOk(s, i, Times(s.toDecay, i), 0, h, l, Here)
  BY OneItem
<1>2. h = Times(s.toRelease, i) /\ l = 0
  OBVIOUS
<1> HIDE DEF h, l
<1>3. ty \in StopTime => DecayTime[s.type[i]] > 0 \/ DecayTo[s.type[i]] = "never"
  <2> DEFINE p == <<s.type[i], ty>>
  <2>1. p \in Turns /\ p[1] = s.type[i] /\ p[2] = ty
    OBVIOUS
  <2> HIDE DEF p
  <2>2. p[2] \in StopTime => DecayTime[p[1]] > 0 \/ DecayTo[p[1]] = "never"
    BY <2>1, TimeStops
  <2> QED BY <2>1, <2>2
<1>4. ItemOk(t, i, Times(t.toDecay, i), 0, h, l, Here)
  BY <1>1, <1>3, ZeroIs, SetIDOk
<1>5. Touches(s, t, i) /\ t.where = s.where /\ t.toRelease = s.toRelease
  BY <1>1, SetIDDoes
<1>6. h = Times(t.toRelease, i) /\ ItemOk(t, i, Times(t.toDecay, i), 0, h, 0, Here)
  BY <1>2, <1>4, <1>5
<1>7. DecayInv(t)
  BY <1>5, <1>6, OneStep
<1> QED BY <1>5, <1>7

LEMMA TurnKeeps == DecayInv(dcy) /\ Turn => DecayInv(dcy')
<1> SUFFICES ASSUME DecayInv(dcy), NEW i \in Item, NEW ty \in Type, <<dcy.type[i], ty>> \in Turns,
                    dcy.where[i] = "world",
                    dcy' = SetID(dcy, i, ty) \/ dcy' = StartDecay(SetID(dcy, i, ty), i)
             PROVE  DecayInv(dcy')
  BY DEF Turn
<1> DEFINE d == dcy
           r == dcy'
           t == SetID(d, i, ty)
<1>1. /\ DecayInv(d) /\ d.where[i] = "world" /\ <<d.type[i], ty>> \in Turns
      /\ r = t \/ r = StartDecay(t, i)
  OBVIOUS
<1> HIDE DEF d, r
<1>2. DecayInv(t) /\ t.where[i] = "world"
  BY <1>1, SetIDKeeps
<1> HIDE DEF t
<1>3. DecayInv(r)
  BY <1>1, <1>2, StartDecayKeeps
<1> QED BY <1>3 DEF r

\* A new item, of which nothing is listed.
LEMMA CreateKeeps ==
  ASSUME NEW s, DecayInv(s), NEW i \in Item, s.where[i] = "none", NEW ty \in Type, NEW t, t = Create(s, i, ty)
  PROVE  /\ DecayInv(t) /\ t \in DcyState /\ t.where[i] = "world" /\ t.type[i] = ty /\ t.decaying = s.decaying
         /\ i \notin t.decaying /\ Times(t.toDecay, i) = 0 /\ Times(t.toRelease, i) = 0 /\ Filed(t, i) = 0
         /\ \A b \in Bucket : Times(t.buckets[b], i) = 0
         /\ \A j \in Item \ {i} : t.dur[j] = s.dur[j]
<1> DEFINE h == Times(s.toRelease, i)
           l == 0
           x == 0
<1>1. s \in DcyState /\ h \in Nat /\ l \in {0, 2} /\ ItemOk(s, i, Times(s.toDecay, i), x, h, l, Here) /\ x \in Nat
  BY OneItem
<1>2. h = Times(s.toRelease, i) /\ l = 0
  OBVIOUS
<1> HIDE DEF h, l, x
<1>3. /\ h = 0 /\ i \notin s.decaying /\ Times(s.toDecay, i) = 0
      /\ \A b \in Bucket : Times(s.buckets[b], i) = 0
      /\ ItemOk(t, i, Times(t.toDecay, i), 0, 0, l, Here)
  BY <1>1, ZeroIs, CreateOk
<1>4. /\ Touches(s, t, i) /\ t.where[i] = "world" /\ t.type[i] = ty
      /\ i \in t.decaying <=> i \in s.decaying
      /\ t.buckets = s.buckets /\ t.toDecay = s.toDecay /\ t.toRelease = s.toRelease
  BY <1>1, CreateDoes
<1>5. Times(t.toRelease, i) = 0 /\ ItemOk(t, i, Times(t.toDecay, i), 0, 0, 0, Here)
  BY <1>2, <1>3, <1>4
<1>6. DecayInv(t)
  BY <1>4, <1>5, OneStep
<1>7. \A b \in Bucket : Times(t.buckets[b], i) = 0
  BY <1>3, <1>4
<1>8. Filed(t, i) = 0
  BY <1>7, Buckets DEF Filed
<1>9. t.decaying = s.decaying
  BY DEF Create, DcyState
<1>10. \A j \in Item \ {i} : t.dur[j] = s.dur[j]
  BY <1>4 DEF Touches, AsBefore
<1> QED BY <1>3, <1>4, <1>5, <1>6, <1>7, <1>8, <1>9, <1>10 DEF DecayInv

LEMMA RegisterKeeps ==
  ASSUME NEW s, DecayInv(s), NEW i \in Item, s.where[i] = "world", s.dur[i] > 0, NEW t, t = Register(s, i)
  PROVE  DecayInv(t) /\ t.where[i] = "world" /\ t.dur[i] > 0
<1> DEFINE h == Times(s.toRelease, i)
           l == 0
<1>1. s \in DcyState /\ h \in Nat /\ l \in {0, 2} /\ ItemOk(s, i, Times(s.toDecay, i), 0, h, l, Here)
  BY OneItem
<1>2. h = Times(s.toRelease, i) /\ l = 0
  OBVIOUS
<1> HIDE DEF h, l
<1>3. ItemOk(t, i, Times(t.toDecay, i), 0, h, l, Here)
  BY <1>1, ZeroIs, RegisterOk
<1>4. Touches(s, t, i) /\ t.where = s.where /\ t.dur = s.dur /\ t.toRelease = s.toRelease
  BY <1>1, RegisterDoes
<1>5. h = Times(t.toRelease, i) /\ ItemOk(t, i, Times(t.toDecay, i), 0, h, 0, Here)
  BY <1>2, <1>3, <1>4
<1>6. DecayInv(t)
  BY <1>4, <1>5, OneStep
<1> QED BY <1>4, <1>6

LEMMA PutDownKeeps == DecayInv(dcy) /\ PutDown => DecayInv(dcy')
<1> SUFFICES ASSUME DecayInv(dcy), NEW i \in Item, dcy.where[i] = "none", NEW ty \in Type,
                    dcy' = IF Create(dcy, i, ty).dur[i] > 0 THEN Register(Create(dcy, i, ty), i)
                           ELSE Create(dcy, i, ty)
             PROVE  DecayInv(dcy')
  BY DEF PutDown, Freed
<1> DEFINE d == dcy
           r == dcy'
           t == Create(d, i, ty)
<1>1. DecayInv(d) /\ d.where[i] = "none" /\ r = IF t.dur[i] > 0 THEN Register(t, i) ELSE t
  OBVIOUS
<1> HIDE DEF d, r
<1>2. DecayInv(t) /\ t.where[i] = "world"
  BY <1>1, CreateKeeps
<1> HIDE DEF t
<1>3. DecayInv(r)
  BY <1>1, <1>2, RegisterKeeps
<1> QED BY <1>3 DEF r

\* A new item is given another duration, and the mark of what it is copied from.
Copied(s, j, d, m) == [s EXCEPT !.dur[j] = d, !.decaying = m]

LEMMA CopiedDoes ==
  ASSUME NEW s \in DcyState, NEW j \in Item, NEW d \in Nat \cup {-1}, NEW m, m \in {s.decaying, s.decaying \cup {j}},
         NEW t, t = Copied(s, j, d, m)
  PROVE  /\ t = [where |-> s.where, type |-> s.type, dur |-> [s.dur EXCEPT ![j] = d], decaying |-> m,
                 refs |-> s.refs, toRelease |-> s.toRelease, toDecay |-> s.toDecay, buckets |-> s.buckets,
                 left |-> s.left, again |-> s.again, missed |-> s.missed]
         /\ Touches(s, t, j) /\ t.dur[j] = d
<1> DEFINE dd == [s.dur EXCEPT ![j] = d]
<1>1. dd \in [Item -> Nat \cup {-1}] /\ dd[j] = d /\ \A k \in Item \ {j} : dd[k] = s.dur[k]
  BY DEF DcyState
<1>2. m \in SUBSET Item /\ \A k \in Item \ {j} : k \in m <=> k \in s.decaying
  BY DEF DcyState
<1>3. t = [where |-> s.where, type |-> s.type, dur |-> dd, decaying |-> m,
           refs |-> s.refs, toRelease |-> s.toRelease, toDecay |-> s.toDecay, buckets |-> s.buckets,
           left |-> s.left, again |-> s.again, missed |-> s.missed]
  BY DEF Copied, DcyState
<1> HIDE DEF dd
<1>4. t \in DcyState
  BY <1>1, <1>2, <1>3 DEF DcyState
<1>5. \A k \in Item \ {j} : AsBefore(s, t, k)
  BY <1>1, <1>2, <1>3 DEF AsBefore
<1>6. Touches(s, t, j)
  BY <1>3, <1>4, <1>5 DEF Touches
<1> QED BY <1>1, <1>3, <1>6 DEF dd

\* Nothing is listed of it, so that its duration is free.
LEMMA CopiedKeeps ==
  ASSUME NEW s, DecayInv(s), s \in DcyState, NEW j \in Item, s.where[j] = "world", NEW d \in Nat \cup {-1},
         j \notin s.decaying, Filed(s, j) = 0, Times(s.toDecay, j) = 0, Times(s.toRelease, j) = 0,
         \A b \in Bucket : Times(s.buckets[b], j) = 0, DecayTime[s.type[j]] > 0 => d >= 0,
         NEW m, m \in {s.decaying, s.decaying \cup {j}}, j \in m => Undying(s.type[j]),
         NEW t, t = Copied(s, j, d, m)
  PROVE  DecayInv(t) /\ t.where[j] = "world" /\ t.dur[j] = d
<1>1. /\ Touches(s, t, j) /\ t.dur[j] = d /\ t.where = s.where /\ t.type = s.type /\ t.decaying = m
      /\ t.refs = s.refs /\ t.toRelease = s.toRelease /\ t.toDecay = s.toDecay /\ t.buckets = s.buckets
      /\ t.again = s.again
  BY CopiedDoes
<1>2. ItemOk(s, j, 0, 0, 0, 0, Here)
  BY OneItem
<1>3. Filed(t, j) = 0 /\ Lies(t, j) = Lies(s, j)
  BY <1>1 DEF Filed, Lies
<1>4. Counted(t, j, 0, 0, 0)
  BY <1>1, <1>2, <1>3 DEF ItemOk, Counted
<1>5. MarkedRight(t, j, 0, 0)
  BY <1>1, <1>3 DEF MarkedRight
<1>6. \A b \in Bucket : ~(Times(t.buckets[b], j) > 0)
  BY <1>1
<1>7. Timed(t, j, 0, 0, 0, Here)
  BY <1>6 DEF Timed
<1>8. ItemOk(t, j, 0, 0, 0, 0, Here)
  BY <1>4, <1>5, <1>7 DEF ItemOk
<1>9. DecayInv(t)
  <2>1. Times(t.toRelease, j) = 0 /\ ItemOk(t, j, Times(t.toDecay, j), 0, 0, 0, Here)
    BY <1>1, <1>8
  <2> QED BY <1>1, <2>1, OneStep
<1> QED BY <1>1, <1>9

LEMMA LoadKeeps == DecayInv(dcy) /\ Load => DecayInv(dcy')
<1> SUFFICES ASSUME DecayInv(dcy), NEW i \in Item, dcy.where[i] = "none", NEW ty \in Type, NEW n \in Durations,
                    dcy' = [Create(dcy, i, ty) EXCEPT !.dur[i] = n]
             PROVE  DecayInv(dcy')
  BY DEF Load, Freed
<1> DEFINE d == dcy
           r == dcy'
           t == Create(d, i, ty)
<1>1. DecayInv(d) /\ d.where[i] = "none" /\ r = [t EXCEPT !.dur[i] = n]
  OBVIOUS
<1> HIDE DEF d, r
<1>2. /\ DecayInv(t) /\ t \in DcyState /\ t.where[i] = "world"
      /\ i \notin t.decaying /\ Times(t.toDecay, i) = 0 /\ Times(t.toRelease, i) = 0 /\ Filed(t, i) = 0
      /\ \A b \in Bucket : Times(t.buckets[b], i) = 0
  BY <1>1, CreateKeeps
<1> HIDE DEF t
<1> DEFINE m == t.decaying
<1>3. r = Copied(t, i, n, m)
  <2>1. [t EXCEPT !.dur[i] = n] = [t EXCEPT !.dur[i] = n, !.decaying = m]
    BY <1>2 DEF DcyState
  <2> QED BY <1>1, <2>1 DEF Copied
<1>4. m \in {t.decaying, t.decaying \cup {i}} /\ i \notin m /\ n \in Nat /\ n \in Nat \cup {-1} /\ n >= 0
  BY <1>2, DecayTypes
<1> HIDE DEF m
<1>5. DecayInv(r)
  BY <1>2, <1>3, <1>4, CopiedKeeps
<1> QED BY <1>5 DEF r

LEMMA RegisterIs ==
  ASSUME NEW s \in DcyState, NEW j \in Item
  PROVE  Register(s, j) =
           [where |-> s.where, type |-> s.type, dur |-> s.dur, decaying |-> s.decaying \cup {j},
            refs |-> [s.refs EXCEPT ![j] = @ + 1], toRelease |-> s.toRelease,
            toDecay |-> <<j>> \o s.toDecay, buckets |-> s.buckets,
            left |-> [s.left EXCEPT ![j] = s.dur[j]],
            again |-> IF Entries(s, j) > 0 THEN s.again \cup {j} ELSE s.again, missed |-> s.missed]
<1> DEFINE rr == [s.refs EXCEPT ![j] = @ + 1]
           ll == [s.left EXCEPT ![j] = s.dur[j]]
           ag == IF Entries(s, j) > 0 THEN s.again \cup {j} ELSE s.again
           td == <<j>> \o s.toDecay
           dec == s.decaying \cup {j}
<1>1. Register(s, j) = [s EXCEPT !.refs = rr, !.decaying = dec, !.toDecay = td, !.left = ll, !.again = ag]
  BY DEF Register, DcyState
<1> HIDE DEF rr, ll, ag, td, dec
<1>2. Register(s, j) = [where |-> s.where, type |-> s.type, dur |-> s.dur, decaying |-> dec, refs |-> rr,
                        toRelease |-> s.toRelease, toDecay |-> td, buckets |-> s.buckets, left |-> ll,
                        again |-> ag, missed |-> s.missed]
  BY <1>1 DEF DcyState
<1> QED BY <1>2 DEF rr, ll, ag, td, dec

\* To register marks as well.
LEMMA RegisterMarks ==
  ASSUME NEW s \in DcyState, NEW j \in Item, NEW d \in Nat \cup {-1}
  PROVE  Register(Copied(s, j, d, s.decaying \cup {j}), j) = Register(Copied(s, j, d, s.decaying), j)
<1> DEFINE a == Copied(s, j, d, s.decaying \cup {j})
           c == Copied(s, j, d, s.decaying)
           dd == [s.dur EXCEPT ![j] = d]
           F(m) == [where |-> s.where, type |-> s.type, dur |-> dd, decaying |-> m,
                    refs |-> s.refs, toRelease |-> s.toRelease, toDecay |-> s.toDecay, buckets |-> s.buckets,
                    left |-> s.left, again |-> s.again, missed |-> s.missed]
<1>1. a = F(s.decaying \cup {j}) /\ a \in DcyState
  <2> DEFINE m == s.decaying \cup {j}
  <2>1. m \in {s.decaying, s.decaying \cup {j}}
    OBVIOUS
  <2> HIDE DEF m
  <2>2. Copied(s, j, d, m) = F(m) /\ Touches(s, Copied(s, j, d, m), j)
    BY <2>1, CopiedDoes
  <2>3. Copied(s, j, d, m) \in DcyState
    BY <2>2 DEF Touches
  <2> QED BY <2>2, <2>3 DEF m
<1>2. c = F(s.decaying) /\ c \in DcyState
  <2> DEFINE m == s.decaying
  <2>1. m \in {s.decaying, s.decaying \cup {j}}
    OBVIOUS
  <2> HIDE DEF m
  <2>2. Copied(s, j, d, m) = F(m) /\ Touches(s, Copied(s, j, d, m), j)
    BY <2>1, CopiedDoes
  <2>3. Copied(s, j, d, m) \in DcyState
    BY <2>2 DEF Touches
  <2> QED BY <2>2, <2>3 DEF m
<1> HIDE DEF a, c, dd
<1>3. /\ a.where = c.where /\ a.type = c.type /\ a.dur = c.dur /\ a.refs = c.refs
      /\ a.toRelease = c.toRelease /\ a.toDecay = c.toDecay /\ a.buckets = c.buckets
      /\ a.left = c.left /\ a.again = c.again /\ a.missed = c.missed
      /\ a.decaying = s.decaying \cup {j} /\ c.decaying = s.decaying
  BY <1>1, <1>2
<1>4. Entries(a, j) = Entries(c, j)
  BY <1>3 DEF Entries
<1>5. a.decaying \cup {j} = c.decaying \cup {j}
  BY <1>3
<1>6. Register(a, j) = Register(c, j)
  <2> HIDE DEF F
  <2> DEFINE R(u) == [where |-> u.where, type |-> u.type, dur |-> u.dur, decaying |-> u.decaying \cup {j},
            refs |-> [u.refs EXCEPT ![j] = @ + 1], toRelease |-> u.toRelease,
            toDecay |-> <<j>> \o u.toDecay, buckets |-> u.buckets,
            left |-> [u.left EXCEPT ![j] = u.dur[j]],
            again |-> IF Entries(u, j) > 0 THEN u.again \cup {j} ELSE u.again, missed |-> u.missed]
  <2>1. Register(a, j) = R(a) /\ Register(c, j) = R(c)
    BY <1>1, <1>2, RegisterIs
  <2>2. R(a) = R(c)
    BY <1>3, <1>4, <1>5
  <2> HIDE DEF R
  <2> QED BY <2>1, <2>2
<1> QED BY <1>6 DEF a, c

LEMMA CloneKeeps == DecayInv(dcy) /\ Clone => DecayInv(dcy')
<1> DEFINE CopyOf(d, i, j) == [Create(d, j, d.type[i]) EXCEPT !.dur[j] = d.dur[i],
                                  !.decaying = IF i \in @ THEN @ \cup {j} ELSE @]
<1> SUFFICES ASSUME DecayInv(dcy), NEW i \in Item, NEW j \in Item, dcy.where[j] = "none", dcy.where[i] = "world",
                    dcy' = IF CopyOf(dcy, i, j).dur[j] > 0 THEN Register(Register(CopyOf(dcy, i, j), j), j)
                           ELSE CopyOf(dcy, i, j)
             PROVE  DecayInv(dcy')
  BY DEF Clone, Freed
<1> DEFINE d == dcy
           r == dcy'
           ty == d.type[i]
           n == d.dur[i]
           t == Create(d, j, ty)
           w == CopyOf(d, i, j)
           m == IF i \in t.decaying THEN t.decaying \cup {j} ELSE t.decaying
           u == Copied(t, j, n, t.decaying)
<1>1. /\ DecayInv(d) /\ d.where[j] = "none" /\ d.where[i] = "world"
      /\ r = IF w.dur[j] > 0 THEN Register(Register(w, j), j) ELSE w
  OBVIOUS
<1>2. w = Copied(t, j, n, m)
  BY DEF Copied
<1> HIDE DEF d, r, w, CopyOf
<1>3. d \in DcyState /\ ty \in Type /\ n \in Nat \cup {-1}
  BY <1>1 DEF DecayInv, DcyState
<1>4. Counted(d, i, Times(d.toDecay, i), 0, Times(d.toRelease, i)) /\ MarkedRight(d, i, Times(d.toDecay, i), 0)
  BY <1>1, OneItem DEF ItemOk
<1>5. DecayTime[ty] > 0 => n >= 0
  BY <1>1, <1>4 DEF Counted
<1>6. i \in d.decaying /\ ~(n > 0) => Undying(ty)
  BY <1>1, <1>4 DEF MarkedRight
<1> HIDE DEF ty, n
<1>7. /\ DecayInv(t) /\ t \in DcyState /\ t.where[j] = "world" /\ t.type[j] = ty /\ t.decaying = d.decaying
      /\ j \notin t.decaying /\ Times(t.toDecay, j) = 0 /\ Times(t.toRelease, j) = 0 /\ Filed(t, j) = 0
      /\ \A b \in Bucket : Times(t.buckets[b], j) = 0
  BY <1>1, <1>3, CreateKeeps
<1> HIDE DEF t
<1>8. m \in {t.decaying, t.decaying \cup {j}} /\ (j \in m => i \in d.decaying)
  BY <1>7
<1> HIDE DEF m
<1>9. w.dur[j] = n
  BY <1>2, <1>3, <1>7, <1>8, CopiedDoes
<1>10. CASE ~(n > 0)
  <2>1. r = w
    BY <1>1, <1>9, <1>10
  <2>2. j \in m => Undying(t.type[j])
    BY <1>6, <1>7, <1>8, <1>10
  <2>3. DecayTime[t.type[j]] > 0 => n >= 0
    BY <1>5, <1>7
  <2>4. DecayInv(w)
    BY <1>2, <1>3, <1>7, <1>8, <2>2, <2>3, CopiedKeeps
  <2> QED BY <2>1, <2>4 DEF r
<1>11. CASE n > 0
  <2>1. r = Register(Register(w, j), j)
    BY <1>1, <1>9, <1>11
  <2>2. Register(w, j) = Register(u, j)
    <3>1. m = t.decaying \/ m = t.decaying \cup {j}
      BY <1>8
    <3>2. CASE m = t.decaying
      <4>1. w = u
        BY <1>2, <3>2
      <4> HIDE DEF u
      <4> QED BY <4>1
    <3>3. CASE m = t.decaying \cup {j}
      <4>1. w = Copied(t, j, n, t.decaying \cup {j})
        BY <1>2, <3>3
      <4>2. Register(Copied(t, j, n, t.decaying \cup {j}), j) = Register(Copied(t, j, n, t.decaying), j)
        BY <1>3, <1>7, RegisterMarks
      <4> QED BY <4>1, <4>2
    <3> QED BY <3>1, <3>2, <3>3
  <2>3. DecayInv(u) /\ u.where[j] = "world" /\ u.dur[j] = n
    <3> DEFINE g == t.decaying
    <3>1. g \in {t.decaying, t.decaying \cup {j}} /\ j \notin g /\ u = Copied(t, j, n, g)
      BY <1>7
    <3>2. DecayTime[t.type[j]] > 0 => n >= 0
      BY <1>5, <1>7
    <3> HIDE DEF g, u
    <3> QED BY <1>3, <1>7, <3>1, <3>2, CopiedKeeps
  <2> HIDE DEF u
  <2> DEFINE v == Register(u, j)
  <2>4. DecayInv(v) /\ v.where[j] = "world" /\ v.dur[j] > 0
    BY <1>11, <2>3, RegisterKeeps
  <2>5. r = Register(v, j)
    BY <2>1, <2>2
  <2> HIDE DEF v
  <2>6. DecayInv(r)
    BY <2>4, <2>5, RegisterKeeps
  <2> QED BY <2>6 DEF r
<1> QED BY <1>10, <1>11

-----------------------------------------------------------------------------
(* The theorem *)

LEMMA DecayInitially == DcyInit => DecayInv(dcy)
<1> SUFFICES ASSUME DcyInit PROVE DecayInv(dcy)
  OBVIOUS
<1>1. NoType \in Type
  BY DecayTypes DEF NoType
<1>2. dcy \in DcyState
  BY <1>1 DEF DcyInit, DcyState, NoDuration
<1>3. /\ dcy.toDecay = <<>> /\ dcy.toRelease = <<>> /\ \A b \in Bucket : dcy.buckets[b] = <<>>
      /\ dcy.decaying = {} /\ dcy.missed = {}
      /\ \A i \in Item : dcy.where[i] = "none" /\ dcy.refs[i] = 0
  BY DEF DcyInit
<1>4. ASSUME NEW i \in Item
      PROVE  ItemOk(dcy, i, Times(dcy.toDecay, i), Zero[i], Times(dcy.toRelease, i) + Zero[i], 0, Here)
  <2>1. /\ Times(dcy.toDecay, i) = 0 /\ Times(dcy.toRelease, i) + Zero[i] = 0 /\ Zero[i] = 0
        /\ \A b \in Bucket : Times(dcy.buckets[b], i) = 0
    BY <1>3, TimesEmpty, ZeroIs
  <2>2. Filed(dcy, i) = 0 /\ Lies(dcy, i) = 0
    BY <1>3, <2>1, Buckets DEF Filed, Lies
  <2>3. Counted(dcy, i, 0, 0, 0)
    BY <1>3, <2>2 DEF Counted
  <2>4. MarkedRight(dcy, i, 0, 0)
    BY <1>3, <2>2 DEF MarkedRight
  <2>5. Timed(dcy, i, 0, 0, 0, Here)
    BY <2>1 DEF Timed
  <2>6. ItemOk(dcy, i, 0, 0, 0, 0, Here)
    BY <2>3, <2>4, <2>5 DEF ItemOk
  <2> QED BY <2>1, <2>6
<1> QED BY <1>2, <1>3, <1>4 DEF DecayInv, AllOk

LEMMA DecayKept == DecayInv(dcy) /\ [DcyNext]_dcy => DecayInv(dcy)'
<1>1. DecayInv(dcy) /\ dcy' = dcy => DecayInv(dcy')
  OBVIOUS
<1> QED BY <1>1, PutDownKeeps, CloneKeeps, LoadKeeps, MoveKeeps, TakeAwayKeeps, DecaysKeeps, TurnKeeps,
           CheckDecayKeeps, CleanUpKeeps DEF DcyNext

LEMMA DecayImplies == DecayInv(dcy) => DecayAgrees
<1> SUFFICES ASSUME DecayInv(dcy) PROVE DecayAgrees
  OBVIOUS
<1> DEFINE d == dcy
<1>1. DecayInv(d) /\ d.missed = {}
  BY DEF DecayInv
<1>2. ASSUME NEW i \in Item
      PROVE  /\ d.refs[i] = Entries(d, i) + Times(d.toRelease, i) + (IF d.where[i] = "world" THEN 1 ELSE 0)
             /\ d.where[i] = "none" <=> d.refs[i] = 0
             /\ i \in d.decaying /\ CanDecay(d, i) => Entries(d, i) > 0
             /\ Entries(d, i) > 0 /\ CanDecay(d, i) => d.left[i] >= 0 - EVENT_DECAYINTERVAL
  <2> DEFINE n == Times(d.toDecay, i)
             h == Times(d.toRelease, i)
  <2> HIDE DEF d
  <2>1. d \in DcyState /\ h \in Nat /\ Counted(d, i, n, 0, h) /\ MarkedRight(d, i, n, 0) /\ Timed(d, i, n, 0, 0, Here)
    BY <1>1, OneItem DEF ItemOk
  <2>2. Filed(d, i) \in Nat /\ n \in Nat /\ Entries(d, i) = Filed(d, i) + n
    BY <2>1, Counts
  <2>3. Lies(d, i) = (IF d.where[i] = "world" THEN 1 ELSE 0) /\ Lies(d, i) \in Nat
    BY DEF Lies
  <2>4. d.left[i] \in Int /\ d.dur[i] \in Nat \cup {-1}
    BY <2>1 DEF DcyState
  <2>5. d.refs[i] = Entries(d, i) + h + Lies(d, i) /\ (d.where[i] = "none" <=> d.refs[i] = 0)
    <3>1. d.refs[i] = Filed(d, i) + n + 0 + h + Lies(d, i) /\ (d.where[i] = "none" <=> d.refs[i] = 0)
      BY <2>1 DEF Counted
    <3> HIDE DEF n, h
    <3>2. d.refs[i] = Entries(d, i) + h + Lies(d, i)
      BY <2>1, <2>2, <2>3, <3>1
    <3> QED BY <3>1, <3>2
  <2>6. CanDecay(d, i) => ~Undying(d.type[i]) /\ d.where[i] = "world"
    BY DEF CanDecay, Undying
  <2>7. i \in d.decaying /\ CanDecay(d, i) => Entries(d, i) > 0
    <3> HIDE DEF n
    <3> QED BY <2>1, <2>2, <2>6 DEF MarkedRight
  <2>8. ASSUME Entries(d, i) > 0, CanDecay(d, i) PROVE d.left[i] >= 0 - EVENT_DECAYINTERVAL
    <3>1. TimeRuns(d, i)
      <4>1. d.where[i] = "world" /\ DecayTime[d.type[i]] > 0
        BY <2>8 DEF CanDecay
      <4>2. d.dur[i] >= 0
        BY <2>1, <4>1 DEF Counted
      <4>3. d.dur[i] # NoDuration
        BY <2>4, <4>2 DEF NoDuration
      <4> QED BY <2>6, <2>8, <4>1, <4>3 DEF TimeRuns
    <3>2. CASE n > 0
      <4>1. d.left[i] >= 1 - 0
        BY <2>1, <3>1, <3>2 DEF Timed
      <4> QED BY <2>4, <4>1, Buckets
    <3>3. CASE ~(n > 0)
      <4>1. Filed(d, i) > 0
        <5> HIDE DEF n
        <5> QED BY <2>2, <2>8, <3>3
      <4>2. \A b \in Bucket : Times(d.buckets[b], i) \in Nat
        BY <2>1, Counts
      <4>3. PICK b \in Bucket : Times(d.buckets[b], i) > 0
        <5> DEFINE w0 == Times(d.buckets[0], i)
                   w1 == Times(d.buckets[1], i)
                   w2 == Times(d.buckets[2], i)
                   w3 == Times(d.buckets[3], i)
        <5>1. w0 \in Nat /\ w1 \in Nat /\ w2 \in Nat /\ w3 \in Nat /\ w0 + w1 + w2 + w3 > 0
          BY <4>1, <4>2, Buckets DEF Filed
        <5>2. w0 > 0 \/ w1 > 0 \/ w2 > 0 \/ w3 > 0
          <6> HIDE DEF w0, w1, w2, w3
          <6> QED BY <5>1
        <5> QED BY <5>2, Buckets
      <4>4. InBucket(d, i, Here[b]) /\ Here[b] \in {0, 1, 2, 3}
        BY <2>1, <3>1, <4>3, Buckets DEF Timed, Here
      <4> QED BY <2>4, <4>4, Buckets DEF InBucket
    <3> QED BY <3>2, <3>3
  <2> QED BY <2>3, <2>5, <2>7, <2>8
<1> QED BY <1>1, <1>2 DEF DecayAgrees

\* However items are put down, copied, moved, turned, taken away and cleaned up
\* between two checks, each reference to an item is one list or place that holds it,
\* and what decays does so in its time (game.cpp:4355-4427, 4490-4512).
THEOREM DecayKeepsItsBooks == DcySpec => []DecayAgrees
<1>1. DcySpec => []DecayInv(dcy)
  BY DecayInitially, DecayKept, PTL DEF DcySpec
<1> QED BY <1>1, DecayImplies, PTL

-----------------------------------------------------------------------------
(* The runs *)

\* The component that a behaviour has at work is as it should be.
WorldGood == /\ part = "saving" => SavGood(sav)
             /\ part = "conditions" => CondGood(cnd)
             /\ part = "fights" => Fights0(fgt)
             /\ part = "decay" => DecayInv(dcy)
             /\ part = "creatures" => Clean(cre)

WorldVars == <<part, inv, sav, cre, cnd, fgt, dcy>>

LEMMA WorldInitially == WorldStart => WorldGood
BY SavInitially, CondInitially, FightInitially, DecayInitially, CreInitially DEF WorldStart, WorldInit, WorldGood

LEMMA WorldKept == WorldGood /\ [WorldNext]_WorldVars => WorldGood'
<1> SUFFICES ASSUME WorldGood, [WorldNext]_WorldVars PROVE WorldGood'
  OBVIOUS
<1>1. part' = part
  BY DEF WorldNext, WorldVars
<1>2. part = "saving" => [SavNext]_sav
  BY DEF WorldNext, WorldVars
<1>3. part = "conditions" => [CndNext]_cnd
  BY DEF WorldNext, WorldVars
<1>4. part = "fights" => [FightNext]_fgt
  BY DEF WorldNext, WorldVars
<1>5. part = "decay" => [DcyNext]_dcy
  BY DEF WorldNext, WorldVars
<1>6. part = "creatures" => [CreNext]_cre
  BY DEF WorldNext, WorldVars
<1>7. part = "saving" => SavGood(sav)'
  BY <1>2, SavKept DEF WorldGood
<1>8. part = "conditions" => CondGood(cnd)'
  BY <1>3, CondKept DEF WorldGood
<1>9. part = "fights" => Fights0(fgt)'
  BY <1>4, FightsKept DEF WorldGood
<1>10. part = "decay" => DecayInv(dcy)'
  BY <1>5, DecayKept DEF WorldGood
<1>11. part = "creatures" => Clean(cre)'
  BY <1>6, CreaturesKept DEF WorldGood
<1> QED BY <1>1, <1>7, <1>8, <1>9, <1>10, <1>11 DEF WorldGood

LEMMA WorldStays == WorldSpec => []WorldGood
BY WorldInitially, WorldKept, PTL DEF WorldSpec, WorldVars

\* Where conditions are at work, speed, skills and visibility are those that the
\* conditions make up together.
THEOREM RunConditions == WorldSpec => []Effects
<1>1. WorldGood => Effects
  BY CondImplies DEF WorldGood, Effects
<1> QED BY <1>1, WorldStays, PTL

\* Where fights are, marks end and no blow ends a fight sooner.
THEOREM RunFights == WorldSpec => Fights
<1>1. WorldGood => (part = "fights" => MarksEnd)
  BY FightsImply DEF WorldGood
<1>2. WorldGood /\ [WorldNext]_WorldVars => [part = "fights" => FightGoesOn]_fgt
  <2> SUFFICES ASSUME WorldGood, [WorldNext]_WorldVars, part = "fights", fgt' # fgt PROVE FightGoesOn
    OBVIOUS
  <2>1. FightNext
    BY DEF WorldNext, WorldVars
  <2> QED BY <2>1, FightGoesOnStep DEF WorldGood
<1> QED BY <1>1, <1>2, WorldStays, PTL DEF WorldSpec, WorldVars, Fights

\* Where saves are at work, a save is there as a whole or not at all; where items
\* decay, the lists, the references and the times agree.
THEOREM RunRecords == WorldSpec => []Records
<1>1. WorldGood => Records
  BY SavImplies, DecayImplies DEF WorldGood, Records
<1> QED BY <1>1, WorldStays, PTL

\* Where creatures are at work, counters, aims and bonds are sound and wild
\* monsters notice players.
THEOREM RunBeings == WorldSpec => []Beings
<1>1. WorldGood => Beings
  BY CreaturesImply DEF WorldGood, Beings
<1> QED BY <1>1, WorldStays, PTL
=============================================================================
