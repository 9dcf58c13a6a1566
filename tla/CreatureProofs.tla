--------------------------- MODULE CreatureProofs ---------------------------
(***************************************************************************)
(* Proofs about Creatures, for any creatures and places: between two       *)
(* handlers every reference to a creature is counted, masters and summons  *)
(* know each other, attacks and pursuits are of creatures in sight, a      *)
(* creature that is gone holds nobody, and wild monsters notice players.   *)
(* Settled and Dead say it of the state between handlers; in the midst of  *)
(* one, Books, Ranks, Aimed and Noticing say what is left of it.           *)
(***************************************************************************)
EXTENDS Creatures, Integers, Sequences, FiniteSetTheorems, WellFoundedInduction, TLAPS

-----------------------------------------------------------------------------
(* Finite sets *)

\* Of the sets in T, one has no other as a subset; of numbers, one is least.
LEMMA LeastSet ==
  ASSUME NEW X, IsFiniteSet(X), NEW T \in SUBSET (SUBSET X), T # {}
  PROVE  \E Z \in T : \A R \in T : R \subseteq Z => R = Z
<1>1. FiniteSubsetsOf(X) = SUBSET X
  BY FS_FiniteSubsetsOfFinite
<1>2. IsWellFoundedOn(StrictSubsetOrdering(X), SUBSET X)
  BY <1>1, FS_StrictSubsetOrderingWellFounded
<1>3. PICK Z \in T : \A R \in T : <<R, Z>> \notin StrictSubsetOrdering(X)
  BY <1>2, WFMin
<1> QED BY <1>3 DEF StrictSubsetOrdering

LEMMA LeastNumber ==
  ASSUME NEW K \in SUBSET Nat, NEW n \in K
  PROVE  \E m \in K : \A k \in K : m <= k
<1> DEFINE J == {j \in K : j <= n}
           T == {1..k : k \in J}
<1>1. IsFiniteSet(1..n)
  BY FS_Interval
<1>2. \A k \in J : 1..k \in SUBSET (1..n)
  OBVIOUS
<1>3. T \in SUBSET (SUBSET (1..n)) /\ T # {}
  BY <1>2
<1>4. PICK Z \in T : \A R \in T : R \subseteq Z => R = Z
  <2> HIDE DEF T
  <2> DEFINE X == 1..n
  <2>1. IsFiniteSet(X) /\ T \in SUBSET (SUBSET X) /\ T # {}
    BY <1>1, <1>3
  <2> HIDE DEF X
  <2>2. \E Z \in T : \A R \in T : R \subseteq Z => R = Z
    BY <2>1, LeastSet
  <2> QED BY <2>2
<1>5. PICK m \in J : Z = 1..m
  BY <1>4
<1>6. ASSUME NEW k \in K, k < m PROVE FALSE
  <2>1. k \in J /\ 1..k \in T /\ 1..k \subseteq 1..m
    BY <1>5, <1>6
  <2>2. 1..k = 1..m
    <3> HIDE DEF T
    <3> QED BY <1>4, <1>5, <2>1
  <2>3. m \in 1..m /\ m \notin 1..k
    BY <1>5, <1>6
  <2> QED BY <2>2, <2>3
<1> QED BY <1>5, <1>6

\* A function on the subsets of X, each of whose values is got from that of a
\* smaller set, exists.
Below(X, n) == {Z \in SUBSET X : Cardinality(Z) <= n}

GotFrom(f, Dom, base, G, e) ==
  \A Z \in Dom : f[Z] = IF Z = {} THEN base ELSE G[Z][f[Z \ {e[Z]}]]

LEMMA Recursion ==
  ASSUME NEW X, IsFiniteSet(X), NEW Y, NEW base \in Y, NEW G \in [SUBSET X -> [Y -> Y]], NEW e,
         \A Z \in SUBSET X : Z # {} => e[Z] \in Z
  PROVE  \E f \in [SUBSET X -> Y] : GotFrom(f, SUBSET X, base, G, e)
<1> DEFINE Q(n) == \E f \in [Below(X, n) -> Y] : GotFrom(f, Below(X, n), base, G, e)
           K == {n \in Nat : ~Q(n)}
<1>1. \A Z \in SUBSET X : /\ IsFiniteSet(Z) /\ Cardinality(Z) \in Nat
                          /\ Cardinality(Z) <= Cardinality(X)
                          /\ Cardinality(Z) = 0 <=> Z = {}
  BY FS_Subset, FS_CardinalityType, FS_EmptySet
<1>2. Q(0)
  <2> DEFINE f == [Z \in Below(X, 0) |-> base]
  <2>1. \A Z \in Below(X, 0) : Z = {}
    BY <1>1 DEF Below
  <2>2. f \in [Below(X, 0) -> Y] /\ GotFrom(f, Below(X, 0), base, G, e)
    BY <2>1 DEF GotFrom
  <2> QED BY <2>2
<1>3. ASSUME NEW n \in Nat, n > 0, Q(n - 1) PROVE Q(n)
  <2>1. PICK f \in [Below(X, n - 1) -> Y] : GotFrom(f, Below(X, n - 1), base, G, e)
    BY <1>3
  <2> DEFINE g == [Z \in Below(X, n) |-> IF Z = {} THEN base ELSE G[Z][f[Z \ {e[Z]}]]]
  <2>2. ASSUME NEW Z \in Below(X, n), Z # {}
        PROVE  Z \in SUBSET X /\ Z \ {e[Z]} \in Below(X, n - 1) /\ Z \ {e[Z]} \in Below(X, n)
    <3>1. Z \in SUBSET X /\ e[Z] \in Z /\ Cardinality(Z) <= n /\ Cardinality(Z) \in Nat
      BY <1>1, <2>2 DEF Below
    <3>2. Cardinality(Z \ {e[Z]}) = Cardinality(Z) - 1
      BY <1>1, <3>1, FS_RemoveElement
    <3>3. Z \ {e[Z]} \in SUBSET X
      BY <3>1
    <3> QED BY <1>3, <3>1, <3>2, <3>3 DEF Below
  <2>3. g \in [Below(X, n) -> Y]
    <3>1. ASSUME NEW Z \in Below(X, n), Z # {} PROVE G[Z][f[Z \ {e[Z]}]] \in Y
      BY <2>1, <2>2, <3>1
    <3> QED BY <3>1
  <2>4. ASSUME NEW Z \in Below(X, n - 1) PROVE Z \in Below(X, n) /\ g[Z] = f[Z]
    <3>1. Z \in Below(X, n)
      BY <1>1, <1>3 DEF Below
    <3>2. f[Z] = IF Z = {} THEN base ELSE G[Z][f[Z \ {e[Z]}]]
      BY <2>1 DEF GotFrom
    <3> QED BY <3>1, <3>2
  <2>5. ASSUME NEW Z \in Below(X, n)
        PROVE  g[Z] = IF Z = {} THEN base ELSE G[Z][g[Z \ {e[Z]}]]
    <3>1. CASE Z = {}
      BY <3>1
    <3>2. CASE Z # {}
      <4>1. g[Z \ {e[Z]}] = f[Z \ {e[Z]}]
        BY <2>2, <2>4, <3>2
      <4>2. g[Z] = G[Z][f[Z \ {e[Z]}]]
        BY <3>2
      <4> HIDE DEF g
      <4> QED BY <3>2, <4>1, <4>2
    <3> QED BY <3>1, <3>2
  <2> HIDE DEF g
  <2>6. GotFrom(g, Below(X, n), base, G, e)
    BY <2>5 DEF GotFrom
  <2> QED BY <2>3, <2>6
<1> HIDE DEF Q
<1>4. K = {}
  <2> SUFFICES ASSUME NEW n \in K PROVE FALSE
    OBVIOUS
  <2>1. PICK m \in K : \A k \in K : m <= k
    BY LeastNumber
  <2>2. m \in Nat /\ m # 0 /\ m - 1 \in Nat /\ m - 1 \notin K
    BY <1>2, <2>1
  <2> QED BY <1>3, <2>2
<1>5. Q(Cardinality(X)) /\ Cardinality(X) \in Nat
  BY <1>1, <1>4
<1>6. Below(X, Cardinality(X)) = SUBSET X
  BY <1>1 DEF Below
<1> QED BY <1>5, <1>6 DEF Q

LEMMA UpToTheEnd ==
  ASSUME NEW n \in Nat, NEW S, 0 \in S, \A k \in 1..n : k - 1 \in S => k \in S
  PROVE  n \in S
<1> DEFINE K == {k \in 0..n : k \notin S}
<1> SUFFICES ASSUME n \notin S PROVE FALSE
  OBVIOUS
<1>1. n \in K /\ K \in SUBSET Nat
  OBVIOUS
<1>2. PICK m \in K : \A k \in K : m <= k
  <2> HIDE DEF K
  <2> QED BY <1>1, LeastNumber
<1>3. m \in 1..n /\ m - 1 \notin K
  BY <1>2
<1>4. m - 1 \in S
  BY <1>3
<1> QED BY <1>2, <1>3, <1>4

-----------------------------------------------------------------------------
(* Folds over finite sets *)

\* f[Z] is what op makes of the elements of Z, from base on.
FoldOf(f, X, base, op) ==
  f = [Z \in SUBSET X |-> IF Z = {} THEN base
                          ELSE LET x == CHOOSE x \in Z : TRUE IN op[x][f[Z \ {x}]]]

LEMMA FoldExists ==
  ASSUME NEW X, IsFiniteSet(X), NEW Y, NEW base \in Y, NEW op \in [X -> [Y -> Y]]
  PROVE  \E f \in [SUBSET X -> Y] : FoldOf(f, X, base, op)
<1> DEFINE e == [Z \in SUBSET X |-> CHOOSE x \in Z : TRUE]
           G == [Z \in SUBSET X |-> IF Z = {} THEN [y \in Y |-> y] ELSE op[e[Z]]]
<1>1. \A Z \in SUBSET X : Z # {} => e[Z] \in Z
  OBVIOUS
<1>2. G \in [SUBSET X -> [Y -> Y]]
  <2>1. \A Z \in SUBSET X : Z # {} => e[Z] \in X
    BY <1>1
  <2>2. \A Z \in SUBSET X : Z # {} => op[e[Z]] \in [Y -> Y]
    BY <2>1
  <2>3. [y \in Y |-> y] \in [Y -> Y]
    OBVIOUS
  <2> HIDE DEF e
  <2> QED BY <2>2, <2>3
<1> HIDE DEF G
<1>3. PICK f \in [SUBSET X -> Y] : GotFrom(f, SUBSET X, base, G, e)
  <2> HIDE DEF e
  <2> QED BY <1>1, <1>2, Recursion
<1>4. ASSUME NEW Z \in SUBSET X
      PROVE  f[Z] = IF Z = {} THEN base ELSE LET x == CHOOSE x \in Z : TRUE IN op[x][f[Z \ {x}]]
  <2>1. f[Z] = IF Z = {} THEN base ELSE G[Z][f[Z \ {e[Z]}]]
    BY <1>3 DEF GotFrom
  <2>2. e[Z] = CHOOSE x \in Z : TRUE
    OBVIOUS
  <2>3. Z # {} => G[Z] = op[e[Z]]
    BY DEF G
  <2> QED BY <2>1, <2>2, <2>3
<1> QED BY <1>3, <1>4 DEF FoldOf

LEMMA FoldStep ==
  ASSUME NEW X, NEW base, NEW op, NEW f, FoldOf(f, X, base, op), NEW Z \in SUBSET X
  PROVE  /\ Z = {} => f[Z] = base
         /\ Z # {} => \E x \in Z : x = (CHOOSE y \in Z : TRUE) /\ f[Z] = op[x][f[Z \ {x}]]
<1> DEFINE x == CHOOSE y \in Z : TRUE
<1>1. f[Z] = IF Z = {} THEN base ELSE op[x][f[Z \ {x}]]
  BY DEF FoldOf
<1>2. Z # {} => x \in Z
  OBVIOUS
<1>3. x = CHOOSE y \in Z : TRUE
  OBVIOUS
<1> HIDE DEF x
<1> QED BY <1>1, <1>2, <1>3

\* Two folds from one base agree on the sets that both are for.
LEMMA FoldsAgree ==
  ASSUME NEW X, IsFiniteSet(X), NEW W \in SUBSET X, NEW base, NEW op, NEW f, NEW g,
         FoldOf(f, X, base, op), FoldOf(g, W, base, op), NEW Z \in SUBSET W
  PROVE  f[Z] = g[Z]
<1> DEFINE T == {R \in SUBSET W : f[R] # g[R]}
<1>1. IsFiniteSet(W)
  BY FS_Subset
<1> SUFFICES ASSUME T # {} PROVE FALSE
  OBVIOUS
<1>2. PICK V \in T : \A R \in T : R \subseteq V => R = V
  <2>1. T \in SUBSET (SUBSET W)
    OBVIOUS
  <2> HIDE DEF T
  <2> QED BY <1>1, <2>1, LeastSet
<1>3. V \in SUBSET W /\ V \in SUBSET X /\ f[V] # g[V]
  BY <1>2
<1>4. V # {}
  BY <1>3, FoldStep
<1>5. PICK x \in V : x = (CHOOSE y \in V : TRUE) /\ f[V] = op[x][f[V \ {x}]]
  BY <1>3, <1>4, FoldStep
<1>6. f[V] = op[x][f[V \ {x}]] /\ g[V] = op[x][g[V \ {x}]]
  <2>1. \E z \in V : z = (CHOOSE y \in V : TRUE) /\ g[V] = op[z][g[V \ {z}]]
    BY <1>3, <1>4, FoldStep
  <2> QED BY <1>5, <2>1
<1>7. V \ {x} \notin T
  BY <1>2, <1>5
<1> QED BY <1>3, <1>6, <1>7

-----------------------------------------------------------------------------
(* Folds that stay within sets of states *)

Leads(X, J, op) ==
  \A Z \in SUBSET X, x \in X : x \notin Z => \A y \in J[Z] : op[x][y] \in J[Z \cup {x}]

\* A fold that goes, element by element, from one set of states to the next:
\* J[Z] holds the states after the elements of Z.
LEMMA FoldWithin ==
  ASSUME NEW X, IsFiniteSet(X), NEW Y, NEW J \in [SUBSET X -> SUBSET Y], NEW base \in J[{}],
         NEW op, Leads(X, J, op)
  PROVE  \E f : FoldOf(f, X, base, op) /\ \A Z \in SUBSET X : f[Z] \in J[Z]
<1> DEFINE e == [Z \in SUBSET X |-> CHOOSE x \in Z : TRUE]
           D == UNION {J[Z] : Z \in SUBSET X}
           G == [Z \in SUBSET X |-> [y \in D |->
                   IF Z # {} /\ y \in J[Z \ {e[Z]}] THEN op[e[Z]][y] ELSE y]]
<1>1. \A Z \in SUBSET X : Z # {} => e[Z] \in Z
  OBVIOUS
<1>2. base \in D
  OBVIOUS
<1>3. ASSUME NEW Z \in SUBSET X, Z # {}, NEW y \in J[Z \ {e[Z]}]
      PROVE  op[e[Z]][y] \in J[Z] /\ op[e[Z]][y] \in D /\ y \in D
  <2>1. e[Z] \in Z /\ e[Z] \in X /\ Z \ {e[Z]} \in SUBSET X /\ e[Z] \notin Z \ {e[Z]}
        /\ (Z \ {e[Z]}) \cup {e[Z]} = Z
    BY <1>1, <1>3
  <2>2. op[e[Z]][y] \in J[(Z \ {e[Z]}) \cup {e[Z]}]
    <3> DEFINE x == e[Z]
               V == Z \ {x}
    <3>1. x \in X /\ V \in SUBSET X /\ x \notin V /\ y \in J[V]
      BY <1>3, <2>1
    <3>2. op[x][y] \in J[V \cup {x}]
      <4> HIDE DEF x, V
      <4> QED BY <3>1 DEF Leads
    <3> QED BY <3>2
  <2>3. op[e[Z]][y] \in J[Z]
    BY <2>1, <2>2
  <2> HIDE DEF e
  <2>4. y \in D
    BY <1>3, <2>1
  <2> QED BY <2>3, <2>4
<1>4. G \in [SUBSET X -> [D -> D]]
  <2> HIDE DEF e, D
  <2>1. ASSUME NEW Z \in SUBSET X
        PROVE  [y \in D |-> IF Z # {} /\ y \in J[Z \ {e[Z]}] THEN op[e[Z]][y] ELSE y] \in [D -> D]
    BY <1>3
  <2> QED BY <2>1
<1>5. \A Z \in SUBSET X, y \in D : Z # {} /\ y \in J[Z \ {e[Z]}] => G[Z][y] = op[e[Z]][y]
  <2> HIDE DEF e, D
  <2> QED OBVIOUS
<1> HIDE DEF G
<1>6. PICK f \in [SUBSET X -> D] : GotFrom(f, SUBSET X, base, G, e)
  <2> HIDE DEF D, e
  <2> QED BY <1>1, <1>2, <1>4, Recursion
<1>7. \A Z \in SUBSET X : f[Z] = IF Z = {} THEN base ELSE G[Z][f[Z \ {e[Z]}]]
  BY <1>6 DEF GotFrom
<1>8. \A Z \in SUBSET X : f[Z] \in J[Z]
  <2> DEFINE T == {Z \in SUBSET X : f[Z] \notin J[Z]}
  <2> SUFFICES ASSUME T # {} PROVE FALSE
    OBVIOUS
  <2>1. PICK V \in T : \A R \in T : R \subseteq V => R = V
    <3>1. T \in SUBSET (SUBSET X)
      OBVIOUS
    <3> HIDE DEF T
    <3> QED BY <3>1, LeastSet
  <2>2. V \in SUBSET X /\ f[V] \notin J[V]
    BY <2>1
  <2>3. V # {}
    BY <1>7, <2>2
  <2>4. e[V] \in V
    BY <1>1, <2>2, <2>3
  <2> HIDE DEF e, D
  <2>5. V \ {e[V]} \in SUBSET X /\ V \ {e[V]} \notin T
    BY <2>1, <2>2, <2>4
  <2>6. f[V \ {e[V]}] \in J[V \ {e[V]}]
    BY <2>5
  <2>7. f[V] = op[e[V]][f[V \ {e[V]}]]
    BY <1>3, <1>5, <1>7, <2>2, <2>3, <2>6
  <2> QED BY <1>3, <2>2, <2>3, <2>6, <2>7
<1>9. ASSUME NEW Z \in SUBSET X, Z # {} PROVE f[Z] = op[e[Z]][f[Z \ {e[Z]}]]
  <2>1. Z \ {e[Z]} \in SUBSET X
    OBVIOUS
  <2> HIDE DEF e, D
  <2>2. f[Z \ {e[Z]}] \in J[Z \ {e[Z]}]
    BY <1>8, <2>1
  <2> QED BY <1>3, <1>5, <1>7, <1>9, <2>2
<1>10. FoldOf(f, X, base, op)
  <2>1. ASSUME NEW Z \in SUBSET X
        PROVE  f[Z] = IF Z = {} THEN base ELSE LET x == CHOOSE x \in Z : TRUE IN op[x][f[Z \ {x}]]
    <3>1. e[Z] = CHOOSE x \in Z : TRUE
      OBVIOUS
    <3> HIDE DEF e, D
    <3> QED BY <1>7, <1>9, <3>1
  <2>2. f = [Z \in SUBSET X |-> f[Z]]
    BY <1>6
  <2> HIDE DEF e, D
  <2> QED BY <2>1, <2>2 DEF FoldOf
<1> QED BY <1>8, <1>10

-----------------------------------------------------------------------------
(* How many hold a creature *)

Tally(F, c) == Cardinality({m \in Being : c \in F[m]})

LEMMA TallyIs ==
  ASSUME NEW F, NEW c
  PROVE  /\ IsFiniteSet({m \in Being : c \in F[m]}) /\ Tally(F, c) \in Nat
         /\ Tally(F, c) = 0 <=> \A m \in Being : c \notin F[m]
<1> DEFINE X == {m \in Being : c \in F[m]}
<1>1. X \subseteq Being
  OBVIOUS
<1>2. IsFiniteSet(X)
  BY <1>1, CreaturesAssumption, FS_Subset
<1>3. Cardinality(X) \in Nat /\ (Cardinality(X) = 0 <=> X = {})
  BY <1>2, FS_CardinalityType, FS_EmptySet
<1>4. X = {} <=> \A m \in Being : c \notin F[m]
  OBVIOUS
<1> QED BY <1>2, <1>3, <1>4 DEF Tally

Mark(c, S) == IF c \in S THEN 1 ELSE 0

\* When the entry of m alone changes.
LEMMA TallyMoves ==
  ASSUME NEW F, NEW G, NEW m \in Being, \A x \in Being \ {m} : G[x] = F[x], NEW c
  PROVE  Tally(G, c) = Tally(F, c) + Mark(c, G[m]) - Mark(c, F[m])
<1> DEFINE X == {x \in Being : c \in F[x]}
           Y == {x \in Being : c \in G[x]}
           a == Mark(c, G[m])
           b == Mark(c, F[m])
<1>1. IsFiniteSet(X) /\ Cardinality(X) \in Nat
  BY TallyIs, FS_CardinalityType
<1>2. \/ Y = X /\ a = b /\ a \in {0, 1}
      \/ Y = X \ {m} /\ m \in X /\ a = 0 /\ b = 1
      \/ Y = X \cup {m} /\ m \notin X /\ a = 1 /\ b = 0
  <2>1. CASE c \in F[m] <=> c \in G[m]
    <3>1. Y = X
      BY <2>1
    <3>3. a = b
      BY <2>1 DEF Mark
    <3>2. a \in {0, 1}
      BY DEF Mark
    <3> QED BY <3>1, <3>2, <3>3
  <2>2. CASE c \in F[m] /\ c \notin G[m]
    BY <2>2 DEF Mark
  <2>3. CASE c \notin F[m] /\ c \in G[m]
    BY <2>3 DEF Mark
  <2> QED BY <2>1, <2>2, <2>3
<1>3. Tally(F, c) = Cardinality(X) /\ Tally(G, c) = Cardinality(Y)
  BY DEF Tally
<1> HIDE DEF X, Y, a, b
<1>4. /\ m \in X => Cardinality(X \ {m}) = Cardinality(X) - 1
      /\ m \notin X => Cardinality(X \cup {m}) = Cardinality(X) + 1
  BY <1>1, FS_AddElement, FS_RemoveElement
<1>5. Cardinality(Y) = Cardinality(X) + a - b
  <2>1. CASE Y = X /\ a = b /\ a \in {0, 1}
    BY <1>1, <2>1
  <2>2. CASE Y = X \ {m} /\ m \in X /\ a = 0 /\ b = 1
    BY <1>1, <1>4, <2>2
  <2>3. CASE Y = X \cup {m} /\ m \notin X /\ a = 1 /\ b = 0
    BY <1>1, <1>4, <2>3
  <2> QED BY <1>2, <2>1, <2>2, <2>3
<1> QED BY <1>3, <1>5 DEF a, b

LEMMA TallyFalls ==
  ASSUME NEW F, NEW G, NEW m \in Being, G[m] = {}, \A x \in Being \ {m} : G[x] = F[x], NEW c
  PROVE  Tally(G, c) = Tally(F, c) - Mark(c, F[m])
<1>1. Tally(G, c) = Tally(F, c) + Mark(c, G[m]) - Mark(c, F[m])
  BY TallyMoves
<1>2. Mark(c, G[m]) = 0 /\ Mark(c, F[m]) \in {0, 1}
  BY DEF Mark
<1>3. Tally(F, c) \in Nat
  BY TallyIs
<1> QED BY <1>1, <1>2, <1>3

Present(s) == {c \in Being : s.stage[c] \in {"placed", "removed"}}

CountOf(s, c) == Tally(s.targets, c) + Tally(s.friends, c) + Tally(s.summons, c)
                   + Mark(c, Placed(s)) + Mark(c, s.listed) + s.releases[c]

\* Each counter is the number of those who hold, and only creatures that have
\* come and are not deleted are held.
Books(s) == /\ s \in CreState
            /\ \A c \in Being : /\ s.refs[c] = CountOf(s, c)
                                /\ c \notin Present(s) => s.refs[c] = 0

\* What a step leaves alone.
SameWorld(s, t) == /\ t.stage = s.stage /\ t.at = s.at /\ t.alive = s.alive
                   /\ t.deaths = s.deaths /\ t.releases = s.releases
SameBonds(s, t) == t.master = s.master /\ t.summons = s.summons
SameAims(s, t) == t.attacked = s.attacked /\ t.follow = s.follow
SameLists(s, t) == t.targets = s.targets /\ t.friends = s.friends
SameChecks(s, t) == t.listed = s.listed /\ t.check = s.check

\* The lists and the check of m alone may be other ones.
Sensing(s, t, m) ==
  /\ t \in CreState /\ SameWorld(s, t) /\ SameBonds(s, t) /\ SameAims(s, t)
  /\ \A d \in Being \ {m} : t.targets[d] = s.targets[d] /\ t.friends[d] = s.friends[d]
  /\ t.check \ {m} = s.check \ {m} /\ t.listed \ {m} = s.listed \ {m}

LEMMA SensingThen ==
  ASSUME NEW s, NEW t, NEW u, NEW m, Sensing(s, t, m), Sensing(t, u, m)
  PROVE  Sensing(s, u, m)
BY DEF Sensing, SameWorld, SameBonds, SameAims

LEMMA SensingNot ==
  ASSUME NEW s \in CreState, NEW m
  PROVE  Sensing(s, s, m)
BY DEF Sensing, SameWorld, SameBonds, SameAims

LEMMA HoldIs ==
  ASSUME NEW s \in CreState, NEW held, NEW t, t = Hold(s, held)
  PROVE  /\ t \in CreState /\ SameWorld(s, t) /\ SameBonds(s, t) /\ SameAims(s, t)
         /\ SameLists(s, t) /\ SameChecks(s, t)
         /\ \A c \in Being : t.refs[c] = s.refs[c] + Mark(c, held)
<1> DEFINE R == [c \in Being |-> s.refs[c] + IF c \in held THEN 1 ELSE 0]
<1>1. R \in [Being -> Nat] /\ \A c \in Being : R[c] = s.refs[c] + Mark(c, held)
  BY DEF CreState, Mark
<1>2. t = [s EXCEPT !.refs = R]
  BY DEF Hold
<1> HIDE DEF R
<1>3. t \in CreState /\ t.refs = R
  BY <1>1, <1>2 DEF CreState
<1>4. SameWorld(s, t) /\ SameBonds(s, t) /\ SameAims(s, t) /\ SameLists(s, t) /\ SameChecks(s, t)
  BY <1>2 DEF CreState, SameWorld, SameBonds, SameAims, SameLists, SameChecks
<1> QED BY <1>1, <1>3, <1>4

LEMMA LetGoIs ==
  ASSUME NEW s \in CreState, NEW held, \A c \in Being : c \in held => s.refs[c] >= 1,
         NEW t, t = LetGo(s, held)
  PROVE  /\ t \in CreState /\ SameWorld(s, t) /\ SameBonds(s, t) /\ SameAims(s, t)
         /\ SameLists(s, t) /\ SameChecks(s, t)
         /\ \A c \in Being : t.refs[c] = s.refs[c] - Mark(c, held)
<1> DEFINE R == [c \in Being |-> s.refs[c] - IF c \in held THEN 1 ELSE 0]
<1>1. R \in [Being -> Nat] /\ \A c \in Being : R[c] = s.refs[c] - Mark(c, held)
  BY DEF CreState, Mark
<1>2. CASE held = {}
  <2>1. t = s
    BY <1>2 DEF LetGo
  <2>2. \A c \in Being : s.refs[c] = s.refs[c] - Mark(c, held)
    BY <1>2 DEF CreState, Mark
  <2> QED BY <2>1, <2>2 DEF SameWorld, SameBonds, SameAims, SameLists, SameChecks
<1>3. CASE held # {}
  <2>1. t = [s EXCEPT !.refs = R]
    BY <1>3 DEF LetGo
  <2> HIDE DEF R
  <2>2. t \in CreState /\ t.refs = R
    BY <1>1, <2>1 DEF CreState
  <2>3. SameWorld(s, t) /\ SameBonds(s, t) /\ SameAims(s, t) /\ SameLists(s, t) /\ SameChecks(s, t)
    BY <2>1 DEF CreState, SameWorld, SameBonds, SameAims, SameLists, SameChecks
  <2> QED BY <1>1, <2>2, <2>3
<1> QED BY <1>2, <1>3

\* Another list of targets, or of friends, for m.
Targeting(s, m, L) == [s EXCEPT !.targets[m] = L]
Friendly(s, m, L) == [s EXCEPT !.friends[m] = L]

LEMMA TargetingIs ==
  ASSUME NEW s \in CreState, NEW m \in Being, NEW L \in SUBSET Being, NEW t, t = Targeting(s, m, L)
  PROVE  /\ Sensing(s, t, m) /\ t.targets[m] = L /\ t.friends = s.friends
         /\ SameChecks(s, t) /\ t.refs = s.refs
<1>1. t \in CreState /\ t.targets = [s.targets EXCEPT ![m] = L]
  BY DEF CreState, Targeting
<1>2. /\ SameWorld(s, t) /\ SameBonds(s, t) /\ SameAims(s, t) /\ SameChecks(s, t)
      /\ t.friends = s.friends /\ t.refs = s.refs
  BY DEF CreState, Targeting, SameWorld, SameBonds, SameAims, SameChecks
<1>3. s.targets \in [Being -> SUBSET Being]
  BY DEF CreState
<1> QED BY <1>1, <1>2, <1>3 DEF Sensing, SameChecks

LEMMA FriendlyIs ==
  ASSUME NEW s \in CreState, NEW m \in Being, NEW L \in SUBSET Being, NEW t, t = Friendly(s, m, L)
  PROVE  /\ Sensing(s, t, m) /\ t.friends[m] = L /\ t.targets = s.targets
         /\ SameChecks(s, t) /\ t.refs = s.refs
<1>1. t \in CreState /\ t.friends = [s.friends EXCEPT ![m] = L]
  BY DEF CreState, Friendly
<1>2. /\ SameWorld(s, t) /\ SameBonds(s, t) /\ SameAims(s, t) /\ SameChecks(s, t)
      /\ t.targets = s.targets /\ t.refs = s.refs
  BY DEF CreState, Friendly, SameWorld, SameBonds, SameAims, SameChecks
<1>3. s.friends \in [Being -> SUBSET Being]
  BY DEF CreState
<1> QED BY <1>1, <1>2, <1>3 DEF Sensing, SameChecks

LEMMA CountIs ==
  ASSUME NEW s \in CreState, NEW c \in Being
  PROVE  /\ CountOf(s, c) \in Nat /\ Tally(s.targets, c) \in Nat /\ Tally(s.friends, c) \in Nat
         /\ Tally(s.summons, c) \in Nat /\ Mark(c, Placed(s)) \in {0, 1}
         /\ Mark(c, s.listed) \in {0, 1} /\ s.releases[c] \in Nat /\ s.refs[c] \in Nat
<1>1. Mark(c, Placed(s)) \in {0, 1} /\ Mark(c, s.listed) \in {0, 1}
  BY DEF Mark
<1>2. s.releases[c] \in Nat /\ s.refs[c] \in Nat
  BY DEF CreState
<1>3. Tally(s.targets, c) \in Nat /\ Tally(s.friends, c) \in Nat /\ Tally(s.summons, c) \in Nat
  BY TallyIs
<1> QED BY <1>1, <1>2, <1>3 DEF CountOf

\* Who is held is there, and its counter says so.
LEMMA HeldIs ==
  ASSUME NEW s, Books(s), NEW c \in Being
  PROVE  /\ \A m \in Being : c \in s.targets[m] \/ c \in s.friends[m] \/ c \in s.summons[m]
                               => c \in Present(s) /\ s.refs[c] >= 1
         /\ c \in s.listed => c \in Present(s) /\ s.refs[c] >= 1
         /\ s.releases[c] > 0 => c \in Present(s)
         /\ s.refs[c] >= s.releases[c] /\ s.refs[c] \in Nat
         /\ c \in Placed(s) => s.refs[c] >= s.releases[c] + 1
<1>1. s \in CreState /\ s.refs[c] = CountOf(s, c) /\ (c \notin Present(s) => s.refs[c] = 0)
  BY DEF Books
<1> DEFINE T == Tally(s.targets, c)
           F == Tally(s.friends, c)
           S == Tally(s.summons, c)
           P == Mark(c, Placed(s))
           L == Mark(c, s.listed)
           R == s.releases[c]
           n == s.refs[c]
<1>2. T \in Nat /\ F \in Nat /\ S \in Nat /\ P \in {0, 1} /\ L \in {0, 1} /\ R \in Nat /\ n \in Nat
  BY <1>1, CountIs
<1>3. n = T + F + S + P + L + R
  BY <1>1 DEF CountOf
<1>4. \A m \in Being : /\ c \in s.targets[m] => T # 0
                       /\ c \in s.friends[m] => F # 0
                       /\ c \in s.summons[m] => S # 0
  BY TallyIs
<1>5. (c \in s.listed => L = 1) /\ (c \in Placed(s) => P = 1)
  BY DEF Mark
<1>6. n = 0 \/ c \in Present(s)
  BY <1>1
<1> HIDE DEF T, F, S, P, L, R, n
<1>7. \A m \in Being : c \in s.targets[m] \/ c \in s.friends[m] \/ c \in s.summons[m] => n >= 1
  BY <1>2, <1>3, <1>4
<1>8. (c \in s.listed => n >= 1) /\ n >= R /\ (c \in Placed(s) => n >= R + 1)
  BY <1>2, <1>3, <1>5
<1>9. R > 0 => n # 0
  BY <1>2, <1>8
<1>10. n >= 1 => c \in Present(s)
  BY <1>6
<1> QED BY <1>2, <1>6, <1>7, <1>8, <1>9, <1>10 DEF n, R

\* Those on the lists of one creature come and go, and are counted.
LEMMA ListsCount ==
  ASSUME NEW s, Books(s), NEW m \in Being, NEW t, Sensing(s, t, m), SameChecks(s, t),
         t.targets[m] \subseteq s.targets[m] \cup Present(s),
         t.friends[m] \subseteq s.friends[m] \cup Present(s),
         \A x \in Being : t.refs[x] = s.refs[x] + Mark(x, t.targets[m]) - Mark(x, s.targets[m])
                                        + Mark(x, t.friends[m]) - Mark(x, s.friends[m])
  PROVE  Books(t)
<1>1. s \in CreState /\ t \in CreState /\ Present(t) = Present(s) /\ Placed(t) = Placed(s)
  BY DEF Books, Sensing, SameWorld, Present, Placed
<1>2. ASSUME NEW x \in Being
      PROVE  t.refs[x] = CountOf(t, x) /\ (x \notin Present(t) => t.refs[x] = 0)
  <2>1. /\ Tally(t.targets, x) = Tally(s.targets, x) + Mark(x, t.targets[m]) - Mark(x, s.targets[m])
        /\ Tally(t.friends, x) = Tally(s.friends, x) + Mark(x, t.friends[m]) - Mark(x, s.friends[m])
    <3> DEFINE T1 == s.targets
               T2 == t.targets
               F1 == s.friends
               F2 == t.friends
    <3>1. \A d \in Being \ {m} : T2[d] = T1[d]
      BY DEF Sensing
    <3>4. \A d \in Being \ {m} : F2[d] = F1[d]
      BY DEF Sensing
    <3> HIDE DEF T1, T2, F1, F2
    <3>2. Tally(T2, x) = Tally(T1, x) + Mark(x, T2[m]) - Mark(x, T1[m])
      BY <3>1, TallyMoves
    <3>3. Tally(F2, x) = Tally(F1, x) + Mark(x, F2[m]) - Mark(x, F1[m])
      BY <3>4, TallyMoves
    <3> QED BY <3>2, <3>3 DEF T1, T2, F1, F2
  <2>2. t.summons = s.summons /\ t.listed = s.listed /\ t.releases = s.releases
    BY DEF Sensing, SameBonds, SameChecks, SameWorld
  <2>3. s.refs[x] = CountOf(s, x) /\ (x \notin Present(s) => s.refs[x] = 0)
    BY DEF Books
  <2>4. t.refs[x] = s.refs[x] + Mark(x, t.targets[m]) - Mark(x, s.targets[m])
                      + Mark(x, t.friends[m]) - Mark(x, s.friends[m])
    OBVIOUS
  <2> DEFINE a == Mark(x, t.targets[m])
             b == Mark(x, s.targets[m])
             c == Mark(x, t.friends[m])
             d == Mark(x, s.friends[m])
             T == Tally(s.targets, x)
             F == Tally(s.friends, x)
             S == Tally(s.summons, x)
             P == Mark(x, Placed(s))
             L == Mark(x, s.listed)
             R == s.releases[x]
  <2>5. a \in {0, 1} /\ b \in {0, 1} /\ c \in {0, 1} /\ d \in {0, 1}
    BY DEF Mark
  <2>6. T \in Nat /\ F \in Nat /\ S \in Nat /\ P \in {0, 1} /\ L \in {0, 1} /\ R \in Nat
        /\ CountOf(s, x) = T + F + S + P + L + R
    BY <1>1, CountIs DEF CountOf
  <2>7. CountOf(t, x) = (T + a - b) + (F + c - d) + S + P + L + R
    BY <1>1, <2>1, <2>2 DEF CountOf
  <2>8. x \notin Present(s) => a = b /\ c = d
    <3>1. x \notin Present(s) => x \notin s.targets[m] /\ x \notin s.friends[m]
      BY HeldIs
    <3>2. x \notin Present(s) => x \notin t.targets[m] /\ x \notin t.friends[m]
      BY <3>1
    <3> QED BY <3>1, <3>2 DEF Mark
  <2> HIDE DEF a, b, c, d, T, F, S, P, L, R
  <2>9. t.refs[x] = s.refs[x] + a - b + c - d
    BY <2>4 DEF a, b, c, d
  <2>10. t.refs[x] = CountOf(t, x)
    BY <2>3, <2>5, <2>6, <2>7, <2>9
  <2>11. x \notin Present(t) => t.refs[x] = 0
    BY <1>1, <2>3, <2>5, <2>8, <2>9
  <2> QED BY <2>10, <2>11
<1> QED BY <1>1, <1>2 DEF Books

LEMMA AddTargetIs ==
  ASSUME NEW s, Books(s), NEW m \in Being, NEW c \in Present(s), NEW t, t = AddTarget(s, m, c)
  PROVE  /\ Books(t) /\ Sensing(s, t, m) /\ SameChecks(s, t)
         /\ t.targets[m] = s.targets[m] \cup {c} /\ t.friends = s.friends
<1>1. s \in CreState /\ c \in Being /\ s.targets[m] \in SUBSET Being
  BY DEF Books, Present, CreState
<1>2. CASE c \in s.targets[m]
  <2>1. t = s
    BY <1>2 DEF AddTarget
  <2> QED BY <1>1, <1>2, <2>1, SensingNot DEF SameChecks
<1>3. CASE c \notin s.targets[m]
  <2> DEFINE L == s.targets[m] \cup {c}
             u == Targeting(s, m, L)
             held == {c}
  <2>1. t = Hold(u, held)
    BY <1>3 DEF AddTarget, Targeting
  <2>2. L \in SUBSET Being
    BY <1>1
  <2> HIDE DEF L, u, held
  <2>3. /\ Sensing(s, u, m) /\ u.targets[m] = L /\ u.friends = s.friends
        /\ SameChecks(s, u) /\ u.refs = s.refs
    BY <1>1, <2>2, TargetingIs DEF u
  <2>4. u \in CreState
    BY <2>3 DEF Sensing
  <2>5. /\ t \in CreState /\ SameWorld(u, t) /\ SameBonds(u, t) /\ SameAims(u, t)
        /\ SameLists(u, t) /\ SameChecks(u, t)
        /\ \A x \in Being : t.refs[x] = u.refs[x] + Mark(x, held)
    BY <2>1, <2>4, HoldIs
  <2>6. Sensing(u, t, m)
    BY <2>5 DEF Sensing, SameLists, SameChecks
  <2>7. Sensing(s, t, m) /\ SameChecks(s, t) /\ t.targets[m] = s.targets[m] \cup {c} /\ t.friends = s.friends
    BY <2>3, <2>5, <2>6, SensingThen DEF SameLists, SameChecks, L
  <2>8. ASSUME NEW x \in Being
        PROVE  t.refs[x] = s.refs[x] + Mark(x, t.targets[m]) - Mark(x, s.targets[m])
                             + Mark(x, t.friends[m]) - Mark(x, s.friends[m])
    <3>1. t.refs[x] = s.refs[x] + Mark(x, {c}) /\ s.refs[x] \in Nat
      BY <1>1, <2>3, <2>5 DEF CreState, held
    <3> QED BY <1>3, <2>7, <3>1 DEF Mark
  <2>9. t.targets[m] \subseteq s.targets[m] \cup Present(s) /\ t.friends[m] \subseteq s.friends[m] \cup Present(s)
    BY <2>7
  <2>10. Books(t)
    BY <2>7, <2>8, <2>9, ListsCount
  <2> QED BY <2>7, <2>10
<1> QED BY <1>2, <1>3

LEMMA AddFriendIs ==
  ASSUME NEW s, Books(s), NEW m \in Being, NEW c \in Present(s), NEW t, t = AddFriend(s, m, c)
  PROVE  /\ Books(t) /\ Sensing(s, t, m) /\ SameChecks(s, t) /\ t.targets = s.targets
<1>1. s \in CreState /\ c \in Being /\ s.friends[m] \in SUBSET Being
  BY DEF Books, Present, CreState
<1>2. CASE c \in s.friends[m]
  <2>1. t = s
    BY <1>2 DEF AddFriend
  <2> QED BY <1>1, <1>2, <2>1, SensingNot DEF SameChecks
<1>3. CASE c \notin s.friends[m]
  <2> DEFINE L == s.friends[m] \cup {c}
             u == Friendly(s, m, L)
             held == {c}
  <2>1. t = Hold(u, held)
    BY <1>3 DEF AddFriend, Friendly
  <2>2. L \in SUBSET Being
    BY <1>1
  <2> HIDE DEF L, u, held
  <2>3. /\ Sensing(s, u, m) /\ u.friends[m] = L /\ u.targets = s.targets
        /\ SameChecks(s, u) /\ u.refs = s.refs
    BY <1>1, <2>2, FriendlyIs DEF u
  <2>4. u \in CreState
    BY <2>3 DEF Sensing
  <2>5. /\ t \in CreState /\ SameWorld(u, t) /\ SameBonds(u, t) /\ SameAims(u, t)
        /\ SameLists(u, t) /\ SameChecks(u, t)
        /\ \A x \in Being : t.refs[x] = u.refs[x] + Mark(x, held)
    BY <2>1, <2>4, HoldIs
  <2>6. Sensing(u, t, m)
    BY <2>5 DEF Sensing, SameLists, SameChecks
  <2>7. Sensing(s, t, m) /\ SameChecks(s, t) /\ t.friends[m] = s.friends[m] \cup {c} /\ t.targets = s.targets
    BY <2>3, <2>5, <2>6, SensingThen DEF SameLists, SameChecks, L
  <2>8. ASSUME NEW x \in Being
        PROVE  t.refs[x] = s.refs[x] + Mark(x, t.targets[m]) - Mark(x, s.targets[m])
                             + Mark(x, t.friends[m]) - Mark(x, s.friends[m])
    <3>1. t.refs[x] = s.refs[x] + Mark(x, {c}) /\ s.refs[x] \in Nat
      BY <1>1, <2>3, <2>5 DEF CreState, held
    <3> QED BY <1>3, <2>7, <3>1 DEF Mark
  <2>9. t.targets[m] \subseteq s.targets[m] \cup Present(s) /\ t.friends[m] \subseteq s.friends[m] \cup Present(s)
    BY <2>7
  <2>10. Books(t)
    BY <2>7, <2>8, <2>9, ListsCount
  <2> QED BY <2>7, <2>10
<1> QED BY <1>2, <1>3

LEMMA RemoveTargetsIs ==
  ASSUME NEW s, Books(s), NEW m \in Being, NEW out, NEW t, t = RemoveTargets(s, m, out)
  PROVE  /\ Books(t) /\ Sensing(s, t, m) /\ SameChecks(s, t)
         /\ t.targets[m] = s.targets[m] \ out /\ t.friends = s.friends
<1>1. s \in CreState /\ s.targets[m] \in SUBSET Being
  BY DEF Books, CreState
<1> DEFINE L == s.targets[m] \ out
           u == Targeting(s, m, L)
           held == out \cap s.targets[m]
<1>2. t = LetGo(u, held)
  BY DEF RemoveTargets, Targeting
<1>3. L \in SUBSET Being
  BY <1>1
<1>4. \A x \in Being : x \in held => s.refs[x] >= 1
  BY HeldIs
<1> HIDE DEF L, u, held
<1>5. /\ Sensing(s, u, m) /\ u.targets[m] = L /\ u.friends = s.friends
      /\ SameChecks(s, u) /\ u.refs = s.refs
  BY <1>1, <1>3, TargetingIs DEF u
<1>6. u \in CreState
  BY <1>5 DEF Sensing
<1>7. /\ t \in CreState /\ SameWorld(u, t) /\ SameBonds(u, t) /\ SameAims(u, t)
      /\ SameLists(u, t) /\ SameChecks(u, t)
      /\ \A x \in Being : t.refs[x] = u.refs[x] - Mark(x, held)
  BY <1>2, <1>4, <1>5, <1>6, LetGoIs
<1>8. Sensing(u, t, m)
  BY <1>7 DEF Sensing, SameLists, SameChecks
<1>9. Sensing(s, t, m) /\ SameChecks(s, t) /\ t.targets[m] = s.targets[m] \ out /\ t.friends = s.friends
  BY <1>5, <1>7, <1>8, SensingThen DEF SameLists, SameChecks, L
<1>10. ASSUME NEW x \in Being
       PROVE  t.refs[x] = s.refs[x] + Mark(x, t.targets[m]) - Mark(x, s.targets[m])
                            + Mark(x, t.friends[m]) - Mark(x, s.friends[m])
  <2>1. t.refs[x] = s.refs[x] - Mark(x, held) /\ s.refs[x] \in Nat
    BY <1>1, <1>5, <1>7 DEF CreState
  <2>2. x \in held <=> x \in out /\ x \in s.targets[m]
    BY DEF held
  <2> QED BY <1>9, <2>1, <2>2 DEF Mark
<1>11. t.targets[m] \subseteq s.targets[m] \cup Present(s) /\ t.friends[m] \subseteq s.friends[m] \cup Present(s)
  BY <1>9
<1>12. Books(t)
  BY <1>9, <1>10, <1>11, ListsCount
<1> QED BY <1>9, <1>12

LEMMA RemoveFriendsIs ==
  ASSUME NEW s, Books(s), NEW m \in Being, NEW out, NEW t, t = RemoveFriends(s, m, out)
  PROVE  /\ Books(t) /\ Sensing(s, t, m) /\ SameChecks(s, t) /\ t.targets = s.targets
         /\ t.friends[m] = s.friends[m] \ out
<1>1. s \in CreState /\ s.friends[m] \in SUBSET Being
  BY DEF Books, CreState
<1> DEFINE L == s.friends[m] \ out
           u == Friendly(s, m, L)
           held == out \cap s.friends[m]
<1>2. t = LetGo(u, held)
  BY DEF RemoveFriends, Friendly
<1>3. L \in SUBSET Being
  BY <1>1
<1>4. \A x \in Being : x \in held => s.refs[x] >= 1
  BY HeldIs
<1> HIDE DEF L, u, held
<1>5. /\ Sensing(s, u, m) /\ u.friends[m] = L /\ u.targets = s.targets
      /\ SameChecks(s, u) /\ u.refs = s.refs
  BY <1>1, <1>3, FriendlyIs DEF u
<1>6. u \in CreState
  BY <1>5 DEF Sensing
<1>7. /\ t \in CreState /\ SameWorld(u, t) /\ SameBonds(u, t) /\ SameAims(u, t)
      /\ SameLists(u, t) /\ SameChecks(u, t)
      /\ \A x \in Being : t.refs[x] = u.refs[x] - Mark(x, held)
  BY <1>2, <1>4, <1>5, <1>6, LetGoIs
<1>8. Sensing(u, t, m)
  BY <1>7 DEF Sensing, SameLists, SameChecks
<1>9. Sensing(s, t, m) /\ SameChecks(s, t) /\ t.friends[m] = s.friends[m] \ out /\ t.targets = s.targets
  BY <1>5, <1>7, <1>8, SensingThen DEF SameLists, SameChecks, L
<1>10. ASSUME NEW x \in Being
       PROVE  t.refs[x] = s.refs[x] + Mark(x, t.targets[m]) - Mark(x, s.targets[m])
                            + Mark(x, t.friends[m]) - Mark(x, s.friends[m])
  <2>1. t.refs[x] = s.refs[x] - Mark(x, held) /\ s.refs[x] \in Nat
    BY <1>1, <1>5, <1>7 DEF CreState
  <2>2. x \in held <=> x \in out /\ x \in s.friends[m]
    BY DEF held
  <2> QED BY <1>9, <2>1, <2>2 DEF Mark
<1>11. t.targets[m] \subseteq s.targets[m] \cup Present(s) /\ t.friends[m] \subseteq s.friends[m] \cup Present(s)
  BY <1>9
<1>12. Books(t)
  BY <1>9, <1>10, <1>11, ListsCount
<1> QED BY <1>9, <1>12

\* The list of creatures to check, and whom it holds.
Checking(s, L, C) == [s EXCEPT !.listed = L, !.check = C]

LEMMA CheckingIs ==
  ASSUME NEW s \in CreState, NEW c \in Being, NEW L \in SUBSET Being, NEW C \in SUBSET Being,
         L \ {c} = s.listed \ {c}, C \ {c} = s.check \ {c}, NEW t, t = Checking(s, L, C)
  PROVE  /\ Sensing(s, t, c) /\ SameLists(s, t) /\ t.refs = s.refs
         /\ t.listed = L /\ t.check = C
<1>1. t \in CreState /\ t.listed = L /\ t.check = C
  BY DEF CreState, Checking
<1>2. /\ SameWorld(s, t) /\ SameBonds(s, t) /\ SameAims(s, t) /\ SameLists(s, t) /\ t.refs = s.refs
  BY DEF CreState, Checking, SameWorld, SameBonds, SameAims, SameLists
<1> QED BY <1>1, <1>2 DEF Sensing, SameLists

\* One that the list does not hold yet, or holds already, is put on it.
LEMMA ListedCount ==
  ASSUME NEW s, Books(s), NEW c \in Present(s), NEW t, Sensing(s, t, c), SameLists(s, t),
         t.listed = s.listed \cup {c},
         \A x \in Being : t.refs[x] = s.refs[x] + Mark(x, t.listed) - Mark(x, s.listed)
  PROVE  Books(t)
<1>1. s \in CreState /\ t \in CreState /\ Present(t) = Present(s) /\ Placed(t) = Placed(s)
  BY DEF Books, Sensing, SameWorld, Present, Placed
<1>2. ASSUME NEW x \in Being
      PROVE  t.refs[x] = CountOf(t, x) /\ (x \notin Present(t) => t.refs[x] = 0)
  <2>1. /\ t.targets = s.targets /\ t.friends = s.friends /\ t.summons = s.summons
        /\ t.releases = s.releases
    BY DEF Sensing, SameBonds, SameLists, SameWorld
  <2>2. s.refs[x] = CountOf(s, x) /\ (x \notin Present(s) => s.refs[x] = 0)
    BY DEF Books
  <2> DEFINE a == Mark(x, t.listed)
             b == Mark(x, s.listed)
             T == Tally(s.targets, x)
             F == Tally(s.friends, x)
             S == Tally(s.summons, x)
             P == Mark(x, Placed(s))
             R == s.releases[x]
  <2>3. a \in {0, 1} /\ b \in {0, 1}
    BY DEF Mark
  <2>4. T \in Nat /\ F \in Nat /\ S \in Nat /\ P \in {0, 1} /\ R \in Nat
        /\ CountOf(s, x) = T + F + S + P + b + R
    BY <1>1, CountIs DEF CountOf
  <2>5. CountOf(t, x) = T + F + S + P + a + R
    BY <1>1, <2>1 DEF CountOf
  <2>6. t.refs[x] = s.refs[x] + a - b
    OBVIOUS
  <2>7. x \notin Present(s) => a = b
    BY DEF Mark
  <2> HIDE DEF a, b, T, F, S, P, R
  <2>8. t.refs[x] = CountOf(t, x)
    BY <2>2, <2>3, <2>4, <2>5, <2>6
  <2>9. x \notin Present(t) => t.refs[x] = 0
    BY <1>1, <2>2, <2>3, <2>6, <2>7
  <2> QED BY <2>8, <2>9
<1> QED BY <1>1, <1>2 DEF Books

LEMMA AddCreatureCheckIs ==
  ASSUME NEW s, Books(s), NEW c \in Present(s), NEW t, t = AddCreatureCheck(s, c)
  PROVE  /\ Books(t) /\ Sensing(s, t, c) /\ SameLists(s, t) /\ t.check = s.check \cup {c}
<1> DEFINE L == s.listed \cup {c}
           C == s.check \cup {c}
           u == Checking(s, L, C)
           held == {c} \ s.listed
<1>1. s \in CreState /\ c \in Being /\ L \in SUBSET Being /\ C \in SUBSET Being
      /\ s.listed \in SUBSET Being
  BY DEF Books, Present, CreState
<1>2. L \ {c} = s.listed \ {c} /\ C \ {c} = s.check \ {c}
  OBVIOUS
<1>3. IF c \in s.listed THEN t = u /\ L = s.listed ELSE t = Hold(u, held)
  <2>1. CASE c \in s.listed
    <3>1. t = [s EXCEPT !.check = C] /\ L = s.listed
      BY <2>1 DEF AddCreatureCheck
    <3>2. u = [s EXCEPT !.check = C]
      <4> HIDE DEF C, L
      <4> QED BY <1>1, <3>1 DEF Checking, CreState
    <3> QED BY <2>1, <3>1, <3>2
  <2>2. CASE c \notin s.listed
    <3>1. held = {c}
      BY <2>2
    <3>2. t = Hold([[s EXCEPT !.check = C] EXCEPT !.listed = @ \cup {c}], {c})
      BY <2>2 DEF AddCreatureCheck
    <3>3. [[s EXCEPT !.check = C] EXCEPT !.listed = @ \cup {c}] = u
      BY <1>1 DEF Checking, CreState
    <3> HIDE DEF u, held
    <3> QED BY <2>2, <3>1, <3>2, <3>3
  <2> QED BY <2>1, <2>2
<1> HIDE DEF L, C, u
<1>4. /\ Sensing(s, u, c) /\ SameLists(s, u) /\ u.refs = s.refs /\ u.listed = L /\ u.check = C
      /\ u \in CreState
  <2>1. /\ Sensing(s, u, c) /\ SameLists(s, u) /\ u.refs = s.refs /\ u.listed = L /\ u.check = C
    BY <1>1, <1>2, CheckingIs DEF u
  <2> QED BY <2>1 DEF Sensing
<1>5. /\ Sensing(s, t, c) /\ SameLists(s, t) /\ t.listed = L /\ t.check = C
      /\ \A x \in Being : t.refs[x] = s.refs[x] + Mark(x, L) - Mark(x, s.listed)
  <2>1. CASE c \in s.listed
    <3>1. t = u /\ L = s.listed
      BY <1>3, <2>1
    <3>2. \A x \in Being : s.refs[x] = s.refs[x] + Mark(x, L) - Mark(x, s.listed)
      BY <1>1, <3>1 DEF CreState, Mark
    <3> QED BY <1>4, <3>1, <3>2
  <2>2. CASE c \notin s.listed
    <3>1. t = Hold(u, held)
      BY <1>3, <2>2
    <3> HIDE DEF held
    <3>2. /\ t \in CreState /\ SameWorld(u, t) /\ SameBonds(u, t) /\ SameAims(u, t)
          /\ SameLists(u, t) /\ SameChecks(u, t)
          /\ \A x \in Being : t.refs[x] = u.refs[x] + Mark(x, held)
      BY <1>4, <3>1, HoldIs
    <3>3. Sensing(u, t, c)
      BY <3>2 DEF Sensing, SameLists, SameChecks
    <3>4. Sensing(s, t, c) /\ SameLists(s, t) /\ t.listed = L /\ t.check = C
      BY <1>4, <3>2, <3>3, SensingThen DEF SameLists, SameChecks
    <3>5. ASSUME NEW x \in Being PROVE t.refs[x] = s.refs[x] + Mark(x, L) - Mark(x, s.listed)
      <4>1. t.refs[x] = s.refs[x] + Mark(x, held) /\ s.refs[x] \in Nat
        BY <1>1, <1>4, <3>2 DEF CreState
      <4>2. Mark(x, held) = Mark(x, L) - Mark(x, s.listed)
        BY <2>2 DEF Mark, held, L
      <4>3. Mark(x, L) \in {0, 1} /\ Mark(x, s.listed) \in {0, 1}
        BY DEF Mark
      <4> QED BY <4>1, <4>2, <4>3
    <3> QED BY <3>4, <3>5
  <2> QED BY <2>1, <2>2
<1>6. Books(t)
  BY <1>1, <1>5, ListedCount DEF L
<1> QED BY <1>5, <1>6 DEF C

LEMMA RemoveCreatureCheckIs ==
  ASSUME NEW s, Books(s), NEW c \in Being, NEW t, t = RemoveCreatureCheck(s, c)
  PROVE  /\ Books(t) /\ Sensing(s, t, c) /\ SameLists(s, t) /\ t.check = s.check \ {c}
         /\ t.listed = s.listed
<1> DEFINE L == s.listed
           C == s.check \ {c}
<1>1. s \in CreState /\ L \in SUBSET Being /\ C \in SUBSET Being
  BY DEF Books, CreState
<1>2. L \ {c} = s.listed \ {c} /\ C \ {c} = s.check \ {c}
  OBVIOUS
<1>3. t = Checking(s, L, C)
  BY <1>1 DEF RemoveCreatureCheck, Checking, CreState
<1>4. L = s.listed /\ C = s.check \ {c}
  OBVIOUS
<1> HIDE DEF L, C
<1>5. /\ Sensing(s, t, c) /\ SameLists(s, t) /\ t.refs = s.refs
      /\ t.listed = L /\ t.check = C
  BY <1>1, <1>2, <1>3, CheckingIs
<1>6. Placed(t) = Placed(s) /\ Present(t) = Present(s) /\ t \in CreState /\ t.listed = s.listed
      /\ t.releases = s.releases /\ t.summons = s.summons /\ t.targets = s.targets /\ t.friends = s.friends
  BY <1>4, <1>5 DEF Sensing, SameWorld, SameBonds, SameLists, Placed, Present
<1>7. \A x \in Being : CountOf(t, x) = CountOf(s, x)
  BY <1>6 DEF CountOf
<1> QED BY <1>4, <1>5, <1>6, <1>7 DEF Books

LEMMA ClearListsIs ==
  ASSUME NEW s, Books(s), NEW m \in Being, NEW t, t = ClearLists(s, m)
  PROVE  /\ Books(t) /\ Sensing(s, t, m) /\ SameChecks(s, t)
         /\ t.targets[m] = {} /\ t.friends[m] = {}
<1> DEFINE out == Being
           u == RemoveTargets(s, m, out)
<1>1. t = RemoveFriends(u, m, out)
  BY DEF ClearLists
<1>2. \A f \in CreState : f.targets[m] \subseteq out /\ f.friends[m] \subseteq out
  BY DEF CreState
<1> HIDE DEF out, u
<1>3. /\ Books(u) /\ Sensing(s, u, m) /\ SameChecks(s, u)
      /\ u.targets[m] = s.targets[m] \ out
  BY RemoveTargetsIs DEF u
<1>4. /\ Books(t) /\ Sensing(u, t, m) /\ SameChecks(u, t) /\ t.targets = u.targets
      /\ t.friends[m] = u.friends[m] \ out
  BY <1>1, <1>3, RemoveFriendsIs
<1>5. s.targets[m] \ out = {} /\ u.friends[m] \ out = {}
  BY <1>2, <1>3 DEF Books
<1> QED BY <1>3, <1>4, <1>5, SensingThen DEF SameChecks

LEMMA IdleIs ==
  ASSUME NEW s, Books(s), NEW m \in Being, NEW t, t = SetIdle(s, m, TRUE)
  PROVE  /\ Books(t) /\ Sensing(s, t, m)
         /\ t.targets[m] \subseteq s.targets[m]
<1>1. CASE m \notin Placed(s) \cap s.alive
  <2>1. t = s
    BY <1>1 DEF SetIdle
  <2> QED BY <2>1, SensingNot DEF Books
<1>2. CASE m \in Placed(s) \cap s.alive
  <2> DEFINE u == ClearLists(s, m)
  <2>1. t = RemoveCreatureCheck(u, m)
    BY <1>2 DEF SetIdle
  <2> HIDE DEF u
  <2>2. Books(u) /\ Sensing(s, u, m) /\ u.targets[m] = {}
    BY ClearListsIs DEF u
  <2>3. Books(t) /\ Sensing(u, t, m) /\ SameLists(u, t)
    BY <2>1, <2>2, RemoveCreatureCheckIs
  <2>4. Sensing(s, t, m)
    BY <2>2, <2>3, SensingThen
  <2> QED BY <2>2, <2>3, <2>4 DEF SameLists
<1> QED BY <1>1, <1>2

\* A monster with somebody on its target list, or with a master, is checked.
LEMMA UpdateIdleStatusIs ==
  ASSUME NEW s, Books(s), NEW m \in Being, NEW t, t = UpdateIdleStatus(s, m)
  PROVE  /\ Books(t) /\ Sensing(s, t, m) /\ t.targets[m] = s.targets[m]
         /\ s.targets[m] # {} /\ m \in s.check \cup (Placed(s) \cap s.alive) => m \in t.check
<1>1. CASE m \notin Placed(s) \cap s.alive
  <2>1. t = s
    BY <1>1 DEF UpdateIdleStatus, SetIdle
  <2> QED BY <1>1, <2>1, SensingNot DEF Books
<1>2. CASE m \in Placed(s) \cap s.alive /\ s.master[m] = NoOne /\ s.targets[m] = {}
  <2>1. t = SetIdle(s, m, TRUE)
    BY <1>2 DEF UpdateIdleStatus, SetIdle
  <2>2. Books(t) /\ Sensing(s, t, m) /\ t.targets[m] \subseteq s.targets[m]
    BY <2>1, IdleIs
  <2> QED BY <1>2, <2>2
<1>3. CASE m \in Placed(s) \cap s.alive /\ ~(s.master[m] = NoOne /\ s.targets[m] = {})
  <2>1. t = AddCreatureCheck(s, m) /\ m \in Present(s)
    BY <1>3 DEF UpdateIdleStatus, SetIdle, Present, Placed
  <2> QED BY <2>1, AddCreatureCheckIs DEF SameLists
<1> QED BY <1>1, <1>2, <1>3

\* Who is found is noted, and the monster is checked if it is an opponent.
LEMMA OnCreatureFoundIs ==
  ASSUME NEW s, Books(s), NEW m \in Being, NEW c \in Present(s), NEW t, t = OnCreatureFound(s, m, c)
  PROVE  /\ Books(t) /\ Sensing(s, t, m) /\ s.targets[m] \subseteq t.targets[m]
         /\ CanSee(s, m, c) /\ IsOpponent(s, m, c) => c \in t.targets[m]
         /\ m \in s.check /\ s.targets[m] # {} => m \in t.check
         /\ CanSee(s, m, c) /\ m \in Placed(s) \cap s.alive /\ t.targets[m] # {} => m \in t.check
<1>1. s \in CreState
  BY DEF Books
<1>2. CASE ~CanSee(s, m, c)
  <2>1. t = s
    BY <1>2 DEF OnCreatureFound
  <2> QED BY <1>1, <1>2, <2>1, SensingNot
<1>3. CASE CanSee(s, m, c)
  <2> DEFINE u == Befriend(s, m, c)
             v == Oppose(u, m, c)
  <2>1. t = UpdateIdleStatus(v, m)
    BY <1>3 DEF OnCreatureFound
  <2>2. Books(u) /\ Sensing(s, u, m) /\ SameChecks(s, u) /\ u.targets = s.targets
    <3>1. CASE IsFriend(s, m, c)
      BY <3>1, AddFriendIs DEF Befriend
    <3>2. CASE ~IsFriend(s, m, c)
      BY <1>1, <3>2, SensingNot DEF Befriend, SameChecks
    <3> QED BY <3>1, <3>2
  <2>3. c \in Present(u) /\ (IsOpponent(u, m, c) <=> IsOpponent(s, m, c)) /\ Placed(u) = Placed(s)
    <3> HIDE DEF u
    <3> QED BY <2>2 DEF Sensing, SameWorld, SameBonds, Present, IsOpponent, Placed
  <2> HIDE DEF u
  <2>4. /\ Books(v) /\ Sensing(u, v, m) /\ SameChecks(u, v) /\ u.targets[m] \subseteq v.targets[m]
        /\ IsOpponent(s, m, c) => c \in v.targets[m]
    <3>1. CASE IsOpponent(u, m, c)
      BY <2>2, <2>3, <3>1, AddTargetIs DEF Oppose
    <3>2. CASE ~IsOpponent(u, m, c)
      <4>1. v = u
        BY <3>2 DEF Oppose
      <4> QED BY <2>2, <2>3, <3>2, <4>1, SensingNot DEF SameChecks, Books
    <3> QED BY <3>1, <3>2
  <2> HIDE DEF v
  <2>5. /\ Books(t) /\ Sensing(v, t, m) /\ t.targets[m] = v.targets[m]
        /\ v.targets[m] # {} /\ m \in v.check \cup (Placed(v) \cap v.alive) => m \in t.check
    BY <2>1, <2>4, UpdateIdleStatusIs
  <2>6. Placed(v) = Placed(s) /\ v.alive = s.alive /\ v.check = s.check
    BY <2>2, <2>4 DEF Sensing, SameWorld, Placed, SameChecks
  <2>9. s.targets[m] \subseteq v.targets[m]
    BY <2>2, <2>4
  <2>7. Sensing(s, t, m)
    BY <2>2, <2>4, <2>5, SensingThen
  <2>8. m \in s.check /\ s.targets[m] # {} => m \in t.check
    BY <2>5, <2>6, <2>9
  <2> QED BY <1>3, <2>2, <2>4, <2>5, <2>6, <2>7, <2>8
<1> QED BY <1>2, <1>3

LEMMA OnCreatureLeaveIs ==
  ASSUME NEW s, Books(s), NEW m \in Being, NEW c \in Being, NEW t, t = OnCreatureLeave(s, m, c)
  PROVE  /\ Books(t) /\ Sensing(s, t, m) /\ s.targets[m] \ {c} \subseteq t.targets[m]
         /\ m \in s.check /\ s.targets[m] \ {c} # {} => m \in t.check
<1>1. s \in CreState
  BY DEF Books
<1> DEFINE u == IF IsFriend(s, m, c) THEN RemoveFriends(s, m, {c}) ELSE s
           v == RemoveTargets(u, m, {c})
<1>2. t = IF IsOpponent(s, m, c) THEN UpdateIdleStatus(v, m) ELSE u
  BY DEF OnCreatureLeave
<1>3. Books(u) /\ Sensing(s, u, m) /\ SameChecks(s, u) /\ u.targets = s.targets
  <2>1. CASE IsFriend(s, m, c)
    BY <2>1, RemoveFriendsIs
  <2>2. CASE ~IsFriend(s, m, c)
    BY <1>1, <2>2, SensingNot DEF SameChecks
  <2> QED BY <2>1, <2>2
<1> HIDE DEF u
<1>4. /\ Books(v) /\ Sensing(u, v, m) /\ SameChecks(u, v)
      /\ v.targets[m] = s.targets[m] \ {c}
  BY <1>3, RemoveTargetsIs
<1> HIDE DEF v
<1>5. CASE IsOpponent(s, m, c)
  <2>1. /\ Books(t) /\ Sensing(v, t, m) /\ t.targets[m] = v.targets[m]
        /\ v.targets[m] # {} /\ m \in v.check \cup (Placed(v) \cap v.alive) => m \in t.check
    BY <1>2, <1>4, <1>5, UpdateIdleStatusIs
  <2>2. Sensing(s, t, m)
    BY <1>3, <1>4, <2>1, SensingThen
  <2>3. v.check = s.check
    BY <1>3, <1>4 DEF SameChecks
  <2> QED BY <1>4, <2>1, <2>2, <2>3
<1>6. CASE ~IsOpponent(s, m, c)
  BY <1>2, <1>3, <1>6 DEF SameChecks
<1> QED BY <1>5, <1>6

Follows(g, X, D, op) ==
  \A Z \in SUBSET X : Z # {} => \E x \in Z : g[Z \ {x}] \in D => g[Z] = op[x][g[Z \ {x}]]

\* Whatever a fold computes, step by step, J[Z] holds it after the elements of Z.
LEMMA Folding ==
  ASSUME NEW X, IsFiniteSet(X), NEW D, NEW J \in [SUBSET X -> SUBSET D], NEW op, Leads(X, J, op),
         NEW g, g[{}] \in J[{}], Follows(g, X, D, op)
  PROVE  g[X] \in J[X]
<1> DEFINE T == {Z \in SUBSET X : g[Z] \notin J[Z]}
<1> SUFFICES ASSUME T # {} PROVE FALSE
  OBVIOUS
<1>1. PICK V \in T : \A R \in T : R \subseteq V => R = V
  <2>1. T \in SUBSET (SUBSET X)
    OBVIOUS
  <2> HIDE DEF T
  <2> QED BY <2>1, LeastSet
<1>2. V \in SUBSET X /\ g[V] \notin J[V] /\ V # {}
  BY <1>1
<1>3. PICK x \in V : g[V \ {x}] \in D => g[V] = op[x][g[V \ {x}]]
  BY <1>2 DEF Follows
<1>4. V \ {x} \in SUBSET X /\ V \ {x} \notin T /\ (V \ {x}) \cup {x} = V /\ x \in X
  BY <1>1, <1>2
<1> DEFINE W == V \ {x}
<1>5. W \in SUBSET X /\ g[W] \in J[W] /\ W \cup {x} = V /\ x \notin W
  BY <1>4
<1> HIDE DEF W, T
<1>6. g[W] \in D
  BY <1>5
<1>7. op[x][g[W]] \in J[V]
  BY <1>4, <1>5 DEF Leads
<1> QED BY <1>2, <1>3, <1>6, <1>7 DEF W

\* Monster::updateTargetList takes off those out of sight and finds the others.
LEMMA UpdateTargetListIs ==
  ASSUME NEW s, Books(s), NEW m \in Being, NEW t, t = UpdateTargetList(s, m)
  PROVE  /\ Books(t) /\ Sensing(s, t, m)
         /\ \A c \in Spectators(s, s.at[m]) \ {m} :
              IsOpponent(s, m, c) => /\ c \in t.targets[m]
                                     /\ m \in Placed(s) \cap s.alive => m \in t.check
<1> DEFINE out == {c \in Being : c \notin s.alive \/ ~CanSee(s, m, c)}
           v == RemoveFriends(s, m, out)
           b == RemoveTargets(v, m, out)
           X == Spectators(s, s.at[m]) \ {m}
           D == CreState
           op == [c \in X |-> [u \in D |-> OnCreatureFound(u, m, c)]]
           IsFold(f) == f = [Z \in SUBSET X |-> IF Z = {} THEN b
                               ELSE LET x == CHOOSE x \in Z : TRUE IN OnCreatureFound(f[Z \ {x}], m, x)]
           g == CHOOSE f : IsFold(f)
           Good(Z, u) == /\ Books(u) /\ Sensing(s, u, m)
                         /\ \A c \in Z : IsOpponent(s, m, c) =>
                              c \in u.targets[m] /\ (m \in Placed(s) \cap s.alive => m \in u.check)
           J == [Z \in SUBSET X |-> {u \in D : Good(Z, u)}]
<1>1. t = g[X]
  BY DEF UpdateTargetList, FoldSet, MapThenFoldSet
<1>2. IsFiniteSet(X) /\ X \subseteq Placed(s) /\ X \subseteq Being
  <2>1. X \subseteq Being /\ X \subseteq Placed(s)
    BY DEF Spectators, Placed
  <2> QED BY <2>1, CreaturesAssumption, FS_Subset
<1>3. Good({}, b)
  <2> HIDE DEF out
  <2>1. Books(v) /\ Sensing(s, v, m)
    BY RemoveFriendsIs
  <2> HIDE DEF v
  <2>2. Books(b) /\ Sensing(v, b, m)
    BY <2>1, RemoveTargetsIs
  <2> HIDE DEF b
  <2> QED BY <2>1, <2>2, SensingThen
<1> HIDE DEF b
<1>4. ASSUME NEW Z \in SUBSET X, NEW x \in X, NEW u, Good(Z, u)
      PROVE  Good(Z \cup {x}, OnCreatureFound(u, m, x))
  <2> DEFINE w == OnCreatureFound(u, m, x)
  <2>1. x \in Present(u) /\ Placed(u) = Placed(s) /\ u.alive = s.alive /\ u.at = s.at
        /\ u.master = s.master
    BY <1>2, <1>4 DEF Sensing, SameWorld, SameBonds, Present, Placed
  <2>2. CanSee(u, m, x) /\ (IsOpponent(u, m, x) <=> IsOpponent(s, m, x))
    BY <2>1 DEF CanSee, Spectators, IsOpponent
  <2> HIDE DEF w
  <2>3. /\ Books(w) /\ Sensing(u, w, m) /\ u.targets[m] \subseteq w.targets[m]
        /\ CanSee(u, m, x) /\ IsOpponent(u, m, x) => x \in w.targets[m]
        /\ m \in u.check /\ u.targets[m] # {} => m \in w.check
        /\ CanSee(u, m, x) /\ m \in Placed(u) \cap u.alive /\ w.targets[m] # {} => m \in w.check
    BY <1>4, <2>1, OnCreatureFoundIs DEF w
  <2>4. Sensing(s, w, m)
    BY <1>4, <2>3, SensingThen
  <2>5. ASSUME NEW c \in Z \cup {x}, IsOpponent(s, m, c)
        PROVE  c \in w.targets[m] /\ (m \in Placed(s) \cap s.alive => m \in w.check)
    <3>1. c \in w.targets[m]
      BY <1>4, <2>2, <2>3, <2>5
    <3> QED BY <2>1, <2>2, <2>3, <3>1
  <2> QED BY <2>3, <2>4, <2>5 DEF w
<1>5. Good(X, g[X])
  <2> HIDE DEF X, Good
  <2>1. J \in [SUBSET X -> SUBSET D]
    OBVIOUS
  <2>2. b \in J[{}]
    <3>1. b \in D
      BY <1>3 DEF Good, Books
    <3> QED BY <1>3, <3>1
  <2>3. Leads(X, J, op)
    <3> SUFFICES ASSUME NEW Z \in SUBSET X, NEW x \in X, NEW y \in J[Z] PROVE op[x][y] \in J[Z \cup {x}]
      BY DEF Leads
    <3>1. y \in D /\ Good(Z, y) /\ op[x][y] = OnCreatureFound(y, m, x) /\ Z \cup {x} \in SUBSET X
      OBVIOUS
    <3>2. Good(Z \cup {x}, op[x][y])
      BY <1>4, <3>1
    <3>3. op[x][y] \in D
      BY <3>2 DEF Good, Books
    <3> HIDE DEF op
    <3> QED BY <3>1, <3>2, <3>3
  <2> HIDE DEF J
  <2>4. PICK f : FoldOf(f, X, b, op) /\ \A Z \in SUBSET X : f[Z] \in J[Z]
    <3> HIDE DEF op
    <3> QED BY <1>2, <2>1, <2>2, <2>3, FoldWithin
  <2>5. IsFold(f)
    <3>1. ASSUME NEW Z \in SUBSET X, NEW x \in Z
          PROVE  op[x][f[Z \ {x}]] = OnCreatureFound(f[Z \ {x}], m, x)
      <4>1. x \in X /\ Z \ {x} \in SUBSET X
        OBVIOUS
      <4>2. f[Z \ {x}] \in D
        <5> HIDE DEF op
        <5> QED BY <2>1, <2>4, <4>1
      <4> QED BY <4>1, <4>2
    <3> HIDE DEF op
    <3>2. f = [Z \in SUBSET X |-> IF Z = {} THEN b
                  ELSE LET x == CHOOSE x \in Z : TRUE IN op[x][f[Z \ {x}]]]
      BY <2>4 DEF FoldOf
    <3> QED BY <3>1, <3>2
  <2>6. IsFold(g)
    <3> HIDE DEF IsFold
    <3> QED BY <2>5
  <2> HIDE DEF g
  <2>7. g[{}] = b
    BY <2>6
  <2>8. Follows(g, X, D, op)
    <3> SUFFICES ASSUME NEW Z \in SUBSET X, Z # {}
                 PROVE  \E x \in Z : g[Z \ {x}] \in D => g[Z] = op[x][g[Z \ {x}]]
      BY DEF Follows
    <3> DEFINE x == CHOOSE y \in Z : TRUE
    <3>1. x \in Z /\ g[Z] = OnCreatureFound(g[Z \ {x}], m, x)
      BY <2>6
    <3> HIDE DEF x, op
    <3>2. g[Z \ {x}] \in D => g[Z] = op[x][g[Z \ {x}]]
      <4>1. x \in X
        BY <3>1
      <4> QED BY <3>1, <4>1 DEF op
    <3> QED BY <3>1, <3>2
  <2>9. g[X] \in J[X]
    <3> HIDE DEF op, IsFold
    <3>1. g[{}] \in J[{}]
      BY <2>2, <2>7
    <3> QED BY <1>2, <2>1, <2>3, <2>8, <3>1, Folding
  <2> QED BY <2>9 DEF J
<1> HIDE DEF g
<1> QED BY <1>1, <1>5

-----------------------------------------------------------------------------
(* Ranks, aims and notice, in the midst of a handler *)

\* Masters and summons; b may be gone while its summons still are there.
Ranks(s, b) ==
  /\ \A c, d \in Being : s.master[c] = d <=> c \in s.summons[d]
  /\ \A c \in Man : s.master[c] = NoOne
  /\ \A c \in Being : s.master[c] # NoOne => s.summons[c] = {}
  /\ \A c \in Being : s.stage[c] = "none" =>
       s.attacked[c] = NoOne /\ s.follow[c] = NoOne /\ s.master[c] = NoOne
  /\ \A c \in Being \ Present(s) : s.summons[c] = {}
  /\ \A c \in Being \ {b} : s.stage[c] = "removed" => s.summons[c] \cap Placed(s) = {}
  /\ s.alive \cap s.deaths = {}

\* Whom those on the map attack and follow; those in U have yet to learn
\* that x has moved.
InSight(s, m, d, x, U) == \/ d \in Placed(s) /\ CanSee(s, m, d)
                          \/ d = x /\ m \in U
                          \/ m = x /\ x \in U /\ ~CanSee(s, m, d)

Aimed(s, x, U) ==
  \A m \in Placed(s) : /\ s.attacked[m] # NoOne => InSight(s, m, s.attacked[m], x, U)
                       /\ s.follow[m] # NoOne => InSight(s, m, s.follow[m], x, U)

Wild(s, m) == m \in Placed(s) \cap s.alive \cap Beast /\ s.master[m] = NoOne

\* Wild monsters have noted the players they see, but for the pairs in E.
Noticing(s, E) ==
  \A m, p \in Being : Wild(s, m) /\ p \in Placed(s) \cap Man /\ CanSee(s, m, p) /\ <<m, p>> \notin E
                        => p \in s.targets[m] /\ m \in s.check

Live(s, x, U, E, b) == Books(s) /\ Ranks(s, b) /\ Aimed(s, x, U) /\ Noticing(s, E)

LEMMA Kinds ==
  /\ Man \subseteq Being /\ Beast \subseteq Being /\ Man \cap Beast = {} /\ NoOne \notin Being
  /\ IsFiniteSet(Being) /\ NoOne \notin Man /\ Tame \subseteq Beast
BY CreaturesAssumption DEF Being

LEMMA PlacedIs ==
  ASSUME NEW s
  PROVE  /\ Placed(s) \subseteq Present(s) /\ Present(s) \subseteq Being
         /\ \A spot : Spectators(s, spot) \subseteq Placed(s)
BY DEF Placed, Present, Spectators

LEMMA SensingKeeps ==
  ASSUME NEW s, NEW t, NEW m, Sensing(s, t, m)
  PROVE  /\ Placed(t) = Placed(s) /\ Present(t) = Present(s) /\ t.at = s.at /\ t.alive = s.alive
         /\ t.master = s.master /\ t.summons = s.summons
         /\ \A c, d : CanSee(t, c, d) <=> CanSee(s, c, d)
         /\ \A c, d : IsOpponent(t, c, d) <=> IsOpponent(s, c, d)
         /\ \A c : Wild(t, c) <=> Wild(s, c)
         /\ \A b : Ranks(s, b) => Ranks(t, b)
         /\ \A x, U : Aimed(s, x, U) => Aimed(t, x, U)
<1>1. /\ t.stage = s.stage /\ t.at = s.at /\ t.alive = s.alive /\ t.deaths = s.deaths
      /\ t.master = s.master /\ t.summons = s.summons
      /\ t.attacked = s.attacked /\ t.follow = s.follow
  BY DEF Sensing, SameWorld, SameBonds, SameAims
<1>2. Placed(t) = Placed(s) /\ Present(t) = Present(s)
  BY <1>1 DEF Placed, Present
<1>3. \A c, d : (CanSee(t, c, d) <=> CanSee(s, c, d)) /\ (IsOpponent(t, c, d) <=> IsOpponent(s, c, d))
  BY <1>1 DEF CanSee, IsOpponent
<1>4. \A c : Wild(t, c) <=> Wild(s, c)
  BY <1>1, <1>2 DEF Wild
<1>5. \A b : Ranks(s, b) => Ranks(t, b)
  BY <1>1, <1>2 DEF Ranks
<1>6. \A x, U : Aimed(s, x, U) => Aimed(t, x, U)
  BY <1>1, <1>2, <1>3 DEF Aimed, InSight
<1> QED BY <1>1, <1>2, <1>3, <1>4, <1>5, <1>6

\* After m's lists have changed, those that m has yet to note are in F.
LEMMA SensingNotices ==
  ASSUME NEW s, NEW t, NEW m \in Being, Sensing(s, t, m), NEW E, NEW F, Noticing(s, E),
         \A d \in Being \ {m}, p \in Being : <<d, p>> \in E => <<d, p>> \in F,
         \A p \in Placed(s) \cap Man :
           Wild(s, m) /\ CanSee(s, m, p) /\ <<m, p>> \notin F => p \in t.targets[m] /\ m \in t.check
  PROVE  Noticing(t, F)
<1> SUFFICES ASSUME NEW d \in Being, NEW p \in Being, Wild(t, d), p \in Placed(t) \cap Man,
                    CanSee(t, d, p), <<d, p>> \notin F
             PROVE  p \in t.targets[d] /\ d \in t.check
  BY DEF Noticing
<1>1. Wild(s, d) /\ p \in Placed(s) \cap Man /\ CanSee(s, d, p)
  BY SensingKeeps
<1>2. CASE d = m
  BY <1>1, <1>2
<1>3. CASE d # m
  <2>1. <<d, p>> \notin E
    BY <1>3
  <2>2. p \in s.targets[d] /\ d \in s.check
    BY <1>1, <2>1 DEF Noticing
  <2> QED BY <1>3, <2>2 DEF Sensing
<1> QED BY <1>2, <1>3

LEMMA LiveSensed ==
  ASSUME NEW s, NEW x, NEW U, NEW E, NEW b, Live(s, x, U, E, b),
         NEW t, NEW m, Sensing(s, t, m), Books(t), NEW F, Noticing(t, F)
  PROVE  Live(t, x, U, F, b)
BY SensingKeeps DEF Live

LEMMA LiveFound ==
  ASSUME NEW s, NEW x, NEW U, NEW E, NEW b, Live(s, x, U, E, b), NEW m \in Being, NEW c \in Placed(s),
         NEW t, t = OnCreatureFound(s, m, c)
  PROVE  Live(t, x, U, E \ {<<m, c>>}, b) /\ Sensing(s, t, m)
<1>1. Books(s) /\ Noticing(s, E) /\ c \in Present(s)
  BY PlacedIs DEF Live
<1>2. /\ Books(t) /\ Sensing(s, t, m) /\ s.targets[m] \subseteq t.targets[m]
      /\ CanSee(s, m, c) /\ IsOpponent(s, m, c) => c \in t.targets[m]
      /\ m \in s.check /\ s.targets[m] # {} => m \in t.check
      /\ CanSee(s, m, c) /\ m \in Placed(s) \cap s.alive /\ t.targets[m] # {} => m \in t.check
  BY <1>1, OnCreatureFoundIs
<1> DEFINE F == E \ {<<m, c>>}
<1>3. \A d \in Being \ {m}, p \in Being : <<d, p>> \in E => <<d, p>> \in F
  OBVIOUS
<1>4. ASSUME NEW p \in Placed(s) \cap Man, Wild(s, m), CanSee(s, m, p), <<m, p>> \notin F
      PROVE  p \in t.targets[m] /\ m \in t.check
  <2>1. CASE p = c
    <3>1. IsOpponent(s, m, c)
      BY <1>4, <2>1, Kinds DEF Wild, IsOpponent
    <3> QED BY <1>2, <1>4, <2>1, <3>1 DEF Wild
  <2>2. CASE p # c
    <3>1. <<m, p>> \notin E /\ p \in Being
      BY <1>4, <2>2, Kinds
    <3>2. p \in s.targets[m] /\ m \in s.check
      BY <1>1, <1>4, <3>1 DEF Noticing
    <3> QED BY <1>2, <3>2
  <2> QED BY <2>1, <2>2
<1> HIDE DEF F
<1>5. Noticing(t, F)
  BY <1>1, <1>2, <1>3, <1>4, SensingNotices
<1>6. Live(t, x, U, F, b)
  BY <1>2, <1>5, LiveSensed
<1> QED BY <1>2, <1>6 DEF F

LEMMA LiveLeft ==
  ASSUME NEW s, NEW x, NEW U, NEW E, NEW b, Live(s, x, U, E, b), NEW m \in Being, NEW c \in Being,
         ~CanSee(s, m, c) \/ <<m, c>> \in E, NEW t, t = OnCreatureLeave(s, m, c)
  PROVE  Live(t, x, U, E, b) /\ Sensing(s, t, m)
<1>1. Books(s) /\ Noticing(s, E)
  BY DEF Live
<1>2. /\ Books(t) /\ Sensing(s, t, m) /\ s.targets[m] \ {c} \subseteq t.targets[m]
      /\ m \in s.check /\ s.targets[m] \ {c} # {} => m \in t.check
  BY <1>1, OnCreatureLeaveIs
<1>3. ASSUME NEW p \in Placed(s) \cap Man, Wild(s, m), CanSee(s, m, p), <<m, p>> \notin E
      PROVE  p \in t.targets[m] /\ m \in t.check
  <2>1. p # c /\ p \in Being
    BY <1>3, Kinds
  <2>2. p \in s.targets[m] /\ m \in s.check
    BY <1>1, <1>3, <2>1 DEF Noticing
  <2> QED BY <1>2, <2>1, <2>2
<1>4. Noticing(t, E)
  BY <1>1, <1>2, <1>3, SensingNotices
<1> QED BY <1>2, <1>4, LiveSensed

LEMMA LiveIdle ==
  ASSUME NEW s, NEW x, NEW U, NEW E, NEW b, Live(s, x, U, E, b), NEW m \in Being,
         NEW t, t = UpdateIdleStatus(s, m)
  PROVE  Live(t, x, U, E, b) /\ Sensing(s, t, m) /\ t.targets[m] = s.targets[m]
<1>1. Books(s) /\ Noticing(s, E)
  BY DEF Live
<1>2. /\ Books(t) /\ Sensing(s, t, m) /\ t.targets[m] = s.targets[m]
      /\ s.targets[m] # {} /\ m \in s.check \cup (Placed(s) \cap s.alive) => m \in t.check
  BY <1>1, UpdateIdleStatusIs
<1>3. ASSUME NEW p \in Placed(s) \cap Man, Wild(s, m), CanSee(s, m, p), <<m, p>> \notin E
      PROVE  p \in t.targets[m] /\ m \in t.check
  <2>1. p \in s.targets[m] /\ m \in s.check
    BY <1>1, <1>3, Kinds DEF Noticing
  <2> QED BY <1>2, <2>1
<1>4. Noticing(t, E)
  BY <1>1, <1>2, <1>3, SensingNotices
<1> QED BY <1>2, <1>4, LiveSensed

\* A monster that looks for whom it sees has noted all of them.
LEMMA LiveListed ==
  ASSUME NEW s, NEW x, NEW U, NEW E, NEW b, Live(s, x, U, E, b), NEW m \in Being,
         NEW t, t = UpdateTargetList(s, m)
  PROVE  Live(t, x, U, E \ ({m} \X Being), b) /\ Sensing(s, t, m)
<1>1. Books(s) /\ Noticing(s, E)
  BY DEF Live
<1>2. /\ Books(t) /\ Sensing(s, t, m)
      /\ \A c \in Spectators(s, s.at[m]) \ {m} :
           IsOpponent(s, m, c) => /\ c \in t.targets[m]
                                  /\ m \in Placed(s) \cap s.alive => m \in t.check
  BY <1>1, UpdateTargetListIs
<1> DEFINE F == E \ ({m} \X Being)
<1>3. \A d \in Being \ {m}, p \in Being : <<d, p>> \in E => <<d, p>> \in F
  OBVIOUS
<1>4. ASSUME NEW p \in Placed(s) \cap Man, Wild(s, m), CanSee(s, m, p)
      PROVE  p \in t.targets[m] /\ m \in t.check
  <2>1. p \in Spectators(s, s.at[m]) \ {m} /\ IsOpponent(s, m, p)
    BY <1>4, Kinds DEF Spectators, CanSee, Wild, IsOpponent
  <2> QED BY <1>2, <1>4, <2>1 DEF Wild
<1> HIDE DEF F
<1>5. Noticing(t, F)
  BY <1>1, <1>2, <1>3, <1>4, SensingNotices
<1>6. Live(t, x, U, F, b)
  BY <1>2, <1>5, LiveSensed
<1> QED BY <1>2, <1>6 DEF F

\* A monster that leaves forgets everybody.
LEMMA LiveForgets ==
  ASSUME NEW s, NEW x, NEW U, NEW E, NEW b, Live(s, x, U, E, b), NEW m \in Being,
         {m} \X Being \subseteq E, NEW t, t = SetIdle(s, m, TRUE)
  PROVE  Live(t, x, U, E, b) /\ Sensing(s, t, m)
<1>1. Books(s) /\ Noticing(s, E)
  BY DEF Live
<1>2. Books(t) /\ Sensing(s, t, m)
  BY <1>1, IdleIs
<1>3. \A p \in Placed(s) \cap Man : <<m, p>> \in E
  BY Kinds
<1>4. Noticing(t, E)
  BY <1>1, <1>2, <1>3, SensingNotices
<1> QED BY <1>2, <1>4, LiveSensed

-----------------------------------------------------------------------------
(* Whom creatures attack and follow *)

\* Aims are kept, given up, or turned on g, if it is in sight.
TurnsOn(s, d, old, new, g) ==
  new \in {old, NoOne} \/ (new = g /\ g \in Being /\ CanSee(s, d, g) /\ d \in Present(s))

Aiming(s, t, g) ==
  /\ t \in CreState /\ SameWorld(s, t) /\ SameBonds(s, t) /\ SameLists(s, t) /\ SameChecks(s, t)
  /\ t.refs = s.refs
  /\ \A d \in Being : /\ TurnsOn(s, d, s.attacked[d], t.attacked[d], g)
                      /\ TurnsOn(s, d, s.follow[d], t.follow[d], g)

LEMMA AimingKeeps ==
  ASSUME NEW s, NEW t, NEW g, Aiming(s, t, g)
  PROVE  /\ Placed(t) = Placed(s) /\ Present(t) = Present(s) /\ t.stage = s.stage
         /\ t.at = s.at /\ t.alive = s.alive
         /\ t.master = s.master /\ t.summons = s.summons /\ t.targets = s.targets
         /\ \A c, d : CanSee(t, c, d) <=> CanSee(s, c, d)
         /\ \A c, d : IsOpponent(t, c, d) <=> IsOpponent(s, c, d)
         /\ \A c : Wild(t, c) <=> Wild(s, c)
         /\ t.listed = s.listed /\ t.check = s.check /\ t.deaths = s.deaths /\ t.releases = s.releases
         /\ t.friends = s.friends
BY DEF Aiming, SameWorld, SameBonds, SameLists, SameChecks, Placed, Present, CanSee, IsOpponent, Wild

\* Those on the map have kept their aims.
Intent(s, t) == \A d \in Placed(s) : t.attacked[d] = s.attacked[d] /\ t.follow[d] = s.follow[d]

LEMMA LiveAimed ==
  ASSUME NEW s, NEW x, NEW U, NEW E, NEW b, Live(s, x, U, E, b),
         NEW t, NEW g, Aiming(s, t, g), (g \in Being => g \in Placed(s)) \/ Intent(s, t)
  PROVE  Live(t, x, U, E, b)
<1>1. /\ Placed(t) = Placed(s) /\ Present(t) = Present(s) /\ t.stage = s.stage
      /\ t.at = s.at /\ t.alive = s.alive
      /\ t.master = s.master /\ t.summons = s.summons /\ t.targets = s.targets
      /\ \A c, d : CanSee(t, c, d) <=> CanSee(s, c, d)
      /\ \A c : Wild(t, c) <=> Wild(s, c)
      /\ t.listed = s.listed /\ t.check = s.check /\ t.deaths = s.deaths /\ t.releases = s.releases
      /\ t.friends = s.friends /\ t.refs = s.refs /\ t \in CreState
  BY AimingKeeps DEF Aiming
<1>2. Books(t)
  <2>1. \A c : CountOf(t, c) = CountOf(s, c)
    BY <1>1 DEF CountOf
  <2> QED BY <1>1, <2>1 DEF Books, Live
<1>3. Ranks(t, b)
  <2>1. ASSUME NEW c \in Being, t.stage[c] = "none"
        PROVE  t.attacked[c] = NoOne /\ t.follow[c] = NoOne
    <3>1. c \notin Present(s) /\ s.attacked[c] = NoOne /\ s.follow[c] = NoOne
      BY <1>1, <2>1 DEF Live, Ranks, Present
    <3> QED BY <3>1 DEF Aiming, TurnsOn
  <2> QED BY <1>1, <2>1 DEF Live, Ranks
<1>4. ASSUME NEW m \in Placed(s), NEW old, NEW new, TurnsOn(s, m, old, new, g), new # NoOne,
             (g \in Being => g \in Placed(s)) \/ new = old,
             old # NoOne => InSight(s, m, old, x, U)
      PROVE  InSight(t, m, new, x, U)
  <2>1. CASE new = old
    BY <1>1, <1>4, <2>1 DEF InSight
  <2>2. CASE new # old
    <3>1. new \in Placed(s) /\ CanSee(s, m, new)
      BY <1>4, <2>2 DEF TurnsOn
    <3> QED BY <1>1, <3>1 DEF InSight
  <2> QED BY <2>1, <2>2
<1>5. Aimed(t, x, U)
  <2>1. ASSUME NEW m \in Placed(t)
        PROVE  /\ t.attacked[m] # NoOne => InSight(t, m, t.attacked[m], x, U)
               /\ t.follow[m] # NoOne => InSight(t, m, t.follow[m], x, U)
    <3>1. m \in Placed(s) /\ m \in Being
      BY <1>1, <2>1, PlacedIs
    <3>2. /\ s.attacked[m] # NoOne => InSight(s, m, s.attacked[m], x, U)
          /\ s.follow[m] # NoOne => InSight(s, m, s.follow[m], x, U)
      BY <3>1 DEF Live, Aimed
    <3>3. TurnsOn(s, m, s.attacked[m], t.attacked[m], g) /\ TurnsOn(s, m, s.follow[m], t.follow[m], g)
      BY <3>1 DEF Aiming
    <3>4. (g \in Being => g \in Placed(s)) \/ (t.attacked[m] = s.attacked[m] /\ t.follow[m] = s.follow[m])
      BY <3>1 DEF Intent
    <3> QED BY <1>4, <3>1, <3>2, <3>3, <3>4
  <2> QED BY <2>1 DEF Aimed
<1>6. Noticing(t, E)
  BY <1>1 DEF Live, Noticing
<1> QED BY <1>2, <1>3, <1>5, <1>6 DEF Live

Attacking(s, A) == [s EXCEPT !.attacked = A]

LEMMA AttackingIs ==
  ASSUME NEW s \in CreState, NEW A \in [Being -> Being \cup {NoOne}], NEW t, t = Attacking(s, A)
  PROVE  /\ t \in CreState /\ SameWorld(s, t) /\ SameBonds(s, t) /\ SameLists(s, t) /\ SameChecks(s, t)
         /\ t.refs = s.refs /\ t.attacked = A /\ t.follow = s.follow
<1>1. t \in CreState /\ t.attacked = A
  BY DEF CreState, Attacking
<1> QED BY <1>1 DEF CreState, Attacking, SameWorld, SameBonds, SameLists, SameChecks

Pursuing(s, A) == [s EXCEPT !.follow = A]

LEMMA PursuingIs ==
  ASSUME NEW s \in CreState, NEW A \in [Being -> Being \cup {NoOne}], NEW t, t = Pursuing(s, A)
  PROVE  /\ t \in CreState /\ SameWorld(s, t) /\ SameBonds(s, t) /\ SameLists(s, t) /\ SameChecks(s, t)
         /\ t.refs = s.refs /\ t.follow = A /\ t.attacked = s.attacked
<1>1. t \in CreState /\ t.follow = A
  BY DEF CreState, Pursuing
<1> QED BY <1>1 DEF CreState, Pursuing, SameWorld, SameBonds, SameLists, SameChecks

LEMMA SetAttackedCreatureIs ==
  ASSUME NEW s, Books(s), NEW c \in Being, NEW g \in Being \cup {NoOne},
         g # NoOne => c \in Present(s), NEW t, t = SetAttackedCreature(s, c, g)
  PROVE  /\ Aiming(s, t, g) /\ t.follow = s.follow /\ (g = NoOne => t.attacked[c] = NoOne)
         /\ g = NoOne => \A d \in Being : t.attacked[d] \in {s.attacked[d], NoOne}
<1> DEFINE Of(d) == IF g = NoOne \/ ~CanSee(s, d, g) THEN NoOne ELSE g
           band == {c} \cup IF g = NoOne \/ CanSee(s, c, g) THEN s.summons[c] ELSE {}
           A == [d \in Being |-> IF d \in band THEN Of(d) ELSE s.attacked[d]]
<1>1. s \in CreState /\ \A d \in Being : s.attacked[d] \in Being \cup {NoOne}
  BY DEF Books, CreState
<1>2. A \in [Being -> Being \cup {NoOne}]
  BY <1>1
<1>3. t = Attacking(s, A)
  BY <1>1 DEF SetAttackedCreature, Attacking, CreState
<1>4. ASSUME NEW d \in Being PROVE TurnsOn(s, d, s.attacked[d], A[d], g)
  <2>1. CASE d \in band
    <3>1. A[d] = Of(d)
      BY <2>1
    <3>2. d = c \/ d \in Present(s)
      BY <2>1, HeldIs
    <3> QED BY <3>1, <3>2 DEF TurnsOn
  <2>2. CASE d \notin band
    <3>1. A[d] = s.attacked[d]
      BY <2>2
    <3> QED BY <3>1 DEF TurnsOn
  <2> QED BY <2>1, <2>2
<1>5. g = NoOne => A[c] = NoOne
  OBVIOUS
<1> HIDE DEF A
<1>6. /\ t \in CreState /\ SameWorld(s, t) /\ SameBonds(s, t) /\ SameLists(s, t) /\ SameChecks(s, t)
      /\ t.refs = s.refs /\ t.attacked = A /\ t.follow = s.follow
  BY <1>1, <1>2, <1>3, AttackingIs
<1>7. \A d \in Being : TurnsOn(s, d, s.follow[d], s.follow[d], g)
  BY DEF TurnsOn
<1>8. Aiming(s, t, g)
  BY <1>4, <1>6, <1>7 DEF Aiming
<1>9. g = NoOne => \A d \in Being : A[d] \in {s.attacked[d], NoOne}
  BY <1>4 DEF TurnsOn
<1> QED BY <1>5, <1>6, <1>8, <1>9

LEMMA SetFollowCreatureIs ==
  ASSUME NEW s, Books(s), NEW c \in Being, NEW g \in Being \cup {NoOne},
         g # NoOne => c \in Present(s), NEW t, t = SetFollowCreature(s, c, g)
  PROVE  /\ Aiming(s, t, g) /\ t.attacked = s.attacked /\ (g = NoOne => t.follow[c] = NoOne)
         /\ \A d \in Being \ {c} : t.follow[d] = s.follow[d]
<1> DEFINE new == IF g # NoOne /\ CanSee(s, c, g) THEN g ELSE NoOne
           A == [s.follow EXCEPT ![c] = new]
<1>1. s \in CreState /\ s.follow \in [Being -> Being \cup {NoOne}]
  BY DEF Books, CreState
<1>2. A \in [Being -> Being \cup {NoOne}] /\ A[c] = new /\ \A d \in Being \ {c} : A[d] = s.follow[d]
  BY <1>1
<1>3. t = Pursuing(s, A)
  BY <1>1 DEF SetFollowCreature, Pursuing, CreState
<1> HIDE DEF A
<1>4. ASSUME NEW d \in Being PROVE TurnsOn(s, d, s.follow[d], A[d], g)
  BY <1>2 DEF TurnsOn
<1>6. /\ t \in CreState /\ SameWorld(s, t) /\ SameBonds(s, t) /\ SameLists(s, t) /\ SameChecks(s, t)
      /\ t.refs = s.refs /\ t.follow = A /\ t.attacked = s.attacked
  BY <1>1, <1>2, <1>3, PursuingIs
<1>7. \A d \in Being : TurnsOn(s, d, s.attacked[d], s.attacked[d], g)
  BY DEF TurnsOn
<1>8. Aiming(s, t, g)
  BY <1>4, <1>6, <1>7 DEF Aiming
<1> QED BY <1>2, <1>6, <1>8

\* Aims are given up only.
LEMMA AimingThen ==
  ASSUME NEW s, NEW t, NEW u, Aiming(s, t, NoOne), Aiming(t, u, NoOne)
  PROVE  Aiming(s, u, NoOne)
<1>1. NoOne \notin Being
  BY Kinds
<1>2. \A d \in Being : /\ t.attacked[d] \in {s.attacked[d], NoOne} /\ u.attacked[d] \in {t.attacked[d], NoOne}
                       /\ t.follow[d] \in {s.follow[d], NoOne} /\ u.follow[d] \in {t.follow[d], NoOne}
  BY <1>1 DEF Aiming, TurnsOn
<1>3. \A d \in Being : /\ TurnsOn(s, d, s.attacked[d], u.attacked[d], NoOne)
                       /\ TurnsOn(s, d, s.follow[d], u.follow[d], NoOne)
  BY <1>2 DEF TurnsOn
<1> QED BY <1>3 DEF Aiming, SameWorld, SameBonds, SameLists, SameChecks

LEMMA AimingNot ==
  ASSUME NEW s \in CreState, NEW g
  PROVE  Aiming(s, s, g)
BY DEF Aiming, TurnsOn, SameWorld, SameBonds, SameLists, SameChecks

LEMMA OnCreatureDisappearIs ==
  ASSUME NEW s, Books(s), NEW m \in Being, NEW c, NEW t, t = OnCreatureDisappear(s, m, c), c # NoOne
  PROVE  Aiming(s, t, NoOne) /\ t.attacked[m] # c /\ t.follow[m] # c /\ Books(t)
<1> DEFINE u == StopAttacking(s, m, c)
<1>1. t = StopFollowing(u, m, c)
  BY DEF OnCreatureDisappear
<1>2. s \in CreState
  BY DEF Books
<1>3. Aiming(s, u, NoOne) /\ u.attacked[m] # c
  <2>1. CASE s.attacked[m] = c
    <3>1. u = SetAttackedCreature(s, m, NoOne)
      BY <2>1 DEF StopAttacking
    <3> HIDE DEF u
    <3> QED BY <3>1, SetAttackedCreatureIs
  <2>2. CASE s.attacked[m] # c
    BY <1>2, <2>2, AimingNot DEF StopAttacking
  <2> QED BY <2>1, <2>2
<1> HIDE DEF u
<1>4. \A v : Aiming(s, v, NoOne) => Books(v)
  <2> SUFFICES ASSUME NEW v, Aiming(s, v, NoOne) PROVE Books(v)
    OBVIOUS
  <2>1. \A d : CountOf(v, d) = CountOf(s, d)
    BY AimingKeeps DEF CountOf
  <2> QED BY <2>1, AimingKeeps DEF Books, Aiming
<1>5. Aiming(u, t, NoOne) /\ t.attacked = u.attacked /\ t.follow[m] # c
  <2>1. CASE u.follow[m] = c
    <3>1. t = SetFollowCreature(u, m, NoOne)
      BY <1>1, <2>1 DEF StopFollowing
    <3> QED BY <1>3, <1>4, <3>1, SetFollowCreatureIs
  <2>2. CASE u.follow[m] # c
    <3>1. t = u
      BY <1>1, <2>2 DEF StopFollowing
    <3> QED BY <1>3, <2>2, <3>1, AimingNot DEF Aiming
  <2> QED BY <2>1, <2>2
<1>6. Aiming(s, t, NoOne)
  BY <1>3, <1>5, AimingThen
<1> QED BY <1>3, <1>4, <1>5, <1>6

LEMMA LiveSelected ==
  ASSUME NEW s, NEW x, NEW U, NEW E, NEW b, Live(s, x, U, E, b), NEW m \in Present(s), NEW c \in Being,
         NEW t, t = SelectTarget(s, m, c)
  PROVE  Live(t, x, U, E, b) /\ Aiming(s, t, c)
<1>1. CASE ~(c \in Placed(s) \cap s.targets[m] /\ CanSee(s, m, c))
  <2>1. t = s
    BY <1>1 DEF SelectTarget
  <2> QED BY <2>1, AimingNot DEF Live, Books
<1>2. CASE c \in Placed(s) \cap s.targets[m] /\ CanSee(s, m, c)
  <2> DEFINE u == SetAttackedCreature(s, m, c)
  <2>1. t = SetFollowCreature(u, m, c)
    BY <1>2 DEF SelectTarget
  <2>2. Books(s) /\ m \in Being
    BY PlacedIs DEF Live
  <2> HIDE DEF u
  <2>3. Aiming(s, u, c) /\ u.follow = s.follow
    BY <2>2, SetAttackedCreatureIs DEF u
  <2>4. Live(u, x, U, E, b) /\ Present(u) = Present(s) /\ Placed(u) = Placed(s)
    BY <1>2, <2>3, LiveAimed, AimingKeeps
  <2>5. Aiming(u, t, c) /\ t.attacked = u.attacked
    BY <2>1, <2>2, <2>4, SetFollowCreatureIs DEF Live
  <2>6. Live(t, x, U, E, b)
    BY <1>2, <2>4, <2>5, LiveAimed
  <2>7. \A d : CanSee(u, d, c) <=> CanSee(s, d, c)
    BY <2>3, AimingKeeps
  <2>8. Aiming(s, t, c)
    <3>1. \A d \in Being : /\ TurnsOn(s, d, s.attacked[d], t.attacked[d], c)
                           /\ TurnsOn(s, d, s.follow[d], t.follow[d], c)
      BY <2>3, <2>4, <2>5, <2>7 DEF Aiming, TurnsOn
    <3> QED BY <2>3, <2>5, <3>1 DEF Aiming, SameWorld, SameBonds, SameLists, SameChecks
  <2> QED BY <2>6, <2>8
<1> QED BY <1>1, <1>2

-----------------------------------------------------------------------------
(* Masters *)

\* c has another master, and is in its list of summons and in no other.
Bonded(s, c, boss, M, S) ==
  /\ M = [s.master EXCEPT ![c] = boss]
  /\ S = [d \in Being |-> IF d = boss THEN s.summons[d] \cup {c} ELSE s.summons[d] \ {c}]

Bonds(s, M, S) == [s EXCEPT !.master = M, !.summons = S]

LEMMA BondsIs ==
  ASSUME NEW s \in CreState, NEW M \in [Being -> Being \cup {NoOne}],
         NEW S \in [Being -> SUBSET Being], NEW t, t = Bonds(s, M, S)
  PROVE  /\ t \in CreState /\ SameWorld(s, t) /\ SameAims(s, t) /\ SameLists(s, t) /\ SameChecks(s, t)
         /\ t.refs = s.refs /\ t.master = M /\ t.summons = S
<1>1. t \in CreState /\ t.master = M /\ t.summons = S
  BY DEF CreState, Bonds
<1> QED BY <1>1 DEF CreState, Bonds, SameWorld, SameAims, SameLists, SameChecks

\* The bonds alone may be other ones.
Bonding(s, t) ==
  /\ t \in CreState /\ SameWorld(s, t) /\ SameAims(s, t) /\ SameLists(s, t) /\ SameChecks(s, t)

LEMMA SetMasterFields ==
  ASSUME NEW s, Books(s), NEW c \in Being, NEW boss \in Being \cup {NoOne},
         \A x, d \in Being : s.master[x] = d <=> x \in s.summons[d],
         s.master[c] = NoOne \/ s.master[c] # boss,
         NEW t, t = SetMaster(s, c, boss)
  PROVE  /\ Bonding(s, t) /\ Bonded(s, c, boss, t.master, t.summons)
         /\ \A x \in Being : t.refs[x] = s.refs[x] + (IF x = c /\ boss # NoOne THEN 1 ELSE 0)
                                          - (IF x = c /\ s.master[c] # NoOne THEN 1 ELSE 0)
<1> DEFINE old == s.master[c]
           M == [s.master EXCEPT ![c] = boss]
           S == [d \in Being |-> IF d = boss THEN s.summons[d] \cup {c} ELSE s.summons[d]]
           V == [d \in Being |-> IF d = boss THEN s.summons[d] \cup {c} ELSE s.summons[d] \ {c}]
           b == [s EXCEPT !.summons = S]
           a == IF boss = NoOne THEN s ELSE Hold(b, {c})
           u == [a EXCEPT !.master[c] = boss]
           w == [u EXCEPT !.summons[old] = @ \ {c}]
<1>1. /\ s \in CreState /\ s.summons \in [Being -> SUBSET Being]
      /\ s.master \in [Being -> Being \cup {NoOne}] /\ old \in Being \cup {NoOne} /\ NoOne \notin Being
      /\ s.refs \in [Being -> Nat]
  BY Kinds DEF Books, CreState
<1>2. \A d \in Being : c \in s.summons[d] <=> d = old
  BY <1>1
<1>3. S \in [Being -> SUBSET Being] /\ V \in [Being -> SUBSET Being] /\ M \in [Being -> Being \cup {NoOne}]
  BY <1>1
<1>4. old = NoOne => V = S
  <2> SUFFICES ASSUME old = NoOne PROVE V = S
    OBVIOUS
  <2>1. \A d \in Being : s.summons[d] \ {c} = s.summons[d]
    BY <1>1, <1>2
  <2> QED BY <2>1
<1>5. old # NoOne => old \in Being /\ V = [S EXCEPT ![old] = @ \ {c}]
  <2> SUFFICES ASSUME old # NoOne PROVE old \in Being /\ V = [S EXCEPT ![old] = @ \ {c}]
    OBVIOUS
  <2>1. old \in Being /\ old # boss
    BY <1>1
  <2>2. \A d \in Being \ {old} : s.summons[d] \ {c} = s.summons[d]
    BY <1>1, <1>2
  <2> DEFINE W == [S EXCEPT ![old] = @ \ {c}]
  <2>3. ASSUME NEW d \in Being PROVE V[d] = W[d]
    <3>1. CASE d = old
      <4>1. V[d] = s.summons[old] \ {c}
        BY <2>1, <3>1
      <4>2. S[old] = s.summons[old]
        BY <2>1
      <4>3. W[old] = S[old] \ {c}
        <5> HIDE DEF S
        <5> QED BY <1>3, <2>1
      <4> QED BY <3>1, <4>1, <4>2, <4>3
    <3>2. CASE d # old
      <4>1. V[d] = S[d]
        BY <2>2, <3>2
      <4>2. W[d] = S[d]
        <5> HIDE DEF S
        <5> QED BY <1>3, <2>1, <3>2
      <4> QED BY <4>1, <4>2
    <3> QED BY <3>1, <3>2
  <2>4. W \in [Being -> SUBSET Being]
    <3> HIDE DEF S
    <3> QED BY <1>3, <2>1
  <2> HIDE DEF S, V
  <2> QED BY <1>3, <2>1, <2>3, <2>4
<1>6. boss = NoOne => S = s.summons
  BY <1>1
<1>7. t = IF old = NoOne THEN u ELSE LetGo(w, {c})
  <2>1. boss # NoOne => [s EXCEPT !.summons[boss] = @ \cup {c}] = b
    <3>1. boss # NoOne => [s.summons EXCEPT ![boss] = @ \cup {c}] = S
      BY <1>1
    <3> HIDE DEF S
    <3> QED BY <1>1, <3>1 DEF CreState
  <2>2. t = LET t1 == IF boss = NoOne THEN s ELSE Hold([s EXCEPT !.summons[boss] = @ \cup {c}], {c})
                u1 == [t1 EXCEPT !.master[c] = boss]
            IN  IF old = NoOne THEN u1 ELSE LetGo([u1 EXCEPT !.summons[old] = @ \ {c}], {c})
    BY DEF SetMaster
  <2>3. (IF boss = NoOne THEN s ELSE Hold([s EXCEPT !.summons[boss] = @ \cup {c}], {c})) = a
    <3> HIDE DEF b
    <3> QED BY <2>1
  <2> HIDE DEF a
  <2> QED BY <2>2, <2>3
<1> HIDE DEF S, V, M
<1>8. /\ a \in CreState /\ SameWorld(s, a) /\ SameAims(s, a) /\ SameLists(s, a) /\ SameChecks(s, a)
      /\ a.master = s.master /\ a.summons = S
      /\ \A x \in Being : a.refs[x] = s.refs[x] + (IF x = c /\ boss # NoOne THEN 1 ELSE 0)
  <2>1. CASE boss = NoOne
    <3>1. a = s
      BY <2>1
    <3> QED BY <1>1, <1>6, <2>1, <3>1 DEF SameWorld, SameAims, SameLists, SameChecks
  <2>2. CASE boss # NoOne
    <3> DEFINE held == {c}
    <3>1. a = Hold(b, held)
      BY <2>2
    <3>2. /\ b \in CreState /\ SameWorld(s, b) /\ SameAims(s, b) /\ SameLists(s, b) /\ SameChecks(s, b)
          /\ b.master = s.master /\ b.summons = S /\ b.refs = s.refs
      BY <1>1, <1>3 DEF CreState, SameWorld, SameAims, SameLists, SameChecks
    <3> HIDE DEF b, held, a
    <3>3. /\ a \in CreState /\ SameWorld(b, a) /\ SameBonds(b, a) /\ SameAims(b, a)
          /\ SameLists(b, a) /\ SameChecks(b, a)
          /\ \A x \in Being : a.refs[x] = b.refs[x] + Mark(x, held)
      BY <3>1, <3>2, HoldIs
    <3>4. /\ SameWorld(s, a) /\ SameAims(s, a) /\ SameLists(s, a) /\ SameChecks(s, a)
          /\ a.master = s.master /\ a.summons = S
      BY <3>2, <3>3 DEF SameWorld, SameAims, SameLists, SameChecks, SameBonds
    <3>5. \A x \in Being : Mark(x, held) = IF x = c /\ boss # NoOne THEN 1 ELSE 0
      BY <2>2 DEF Mark, held
    <3> QED BY <3>2, <3>3, <3>4, <3>5
  <2> QED BY <2>1, <2>2
<1> HIDE DEF a
<1>9. /\ u \in CreState /\ SameWorld(s, u) /\ SameAims(s, u) /\ SameLists(s, u) /\ SameChecks(s, u)
      /\ u.master = M /\ u.summons = S /\ u.refs = a.refs
  <2>1. u = Bonds(a, M, S)
    BY <1>8 DEF Bonds, CreState, M
  <2> HIDE DEF u
  <2>2. /\ u \in CreState /\ SameWorld(a, u) /\ SameAims(a, u) /\ SameLists(a, u) /\ SameChecks(a, u)
        /\ u.refs = a.refs /\ u.master = M /\ u.summons = S
    BY <1>3, <1>8, <2>1, BondsIs
  <2> QED BY <1>8, <2>2 DEF SameWorld, SameAims, SameLists, SameChecks
<1> HIDE DEF u
<1>10. CASE old = NoOne
  <2>1. t = u /\ V = S
    BY <1>4, <1>7, <1>10
  <2>2. Bonding(s, t) /\ Bonded(s, c, boss, t.master, t.summons)
    BY <1>9, <2>1 DEF Bonding, Bonded, M, V
  <2>3. ASSUME NEW x \in Being
        PROVE  t.refs[x] = s.refs[x] + (IF x = c /\ boss # NoOne THEN 1 ELSE 0)
                                     - (IF x = c /\ s.master[c] # NoOne THEN 1 ELSE 0)
    <3>1. t.refs[x] = s.refs[x] + (IF x = c /\ boss # NoOne THEN 1 ELSE 0)
      BY <1>8, <1>9, <2>1
    <3>2. (IF x = c /\ s.master[c] # NoOne THEN 1 ELSE 0) = 0
      BY <1>10
    <3>3. s.refs[x] \in Nat
      BY <1>1
    <3> DEFINE i == IF x = c /\ boss # NoOne THEN 1 ELSE 0
               j == IF x = c /\ s.master[c] # NoOne THEN 1 ELSE 0
    <3>4. i \in {0, 1} /\ j = 0 /\ t.refs[x] = s.refs[x] + i
      BY <3>1, <3>2
    <3> HIDE DEF i, j
    <3>5. t.refs[x] = s.refs[x] + i - j
      BY <3>3, <3>4
    <3> QED BY <3>5 DEF i, j
  <2> QED BY <2>2, <2>3
<1>11. CASE old # NoOne
  <2> DEFINE held == {c}
  <2>1. t = LetGo(w, held)
    BY <1>7, <1>11
  <2>2. w = Bonds(u, M, V)
    BY <1>5, <1>9, <1>11 DEF Bonds, CreState
  <2> HIDE DEF w, held
  <2>3. /\ w \in CreState /\ SameWorld(u, w) /\ SameAims(u, w) /\ SameLists(u, w) /\ SameChecks(u, w)
        /\ w.refs = u.refs /\ w.master = M /\ w.summons = V
    BY <1>3, <1>9, <2>2, BondsIs
  <2>4. \A x \in Being : x \in held => w.refs[x] >= 1
    <3>1. c \in s.summons[old] /\ old \in Being
      BY <1>1, <1>2, <1>11
    <3>2. s.refs[c] >= 1
      BY <3>1, HeldIs
    <3>3. w.refs[c] = s.refs[c] + (IF boss # NoOne THEN 1 ELSE 0)
      BY <1>8, <1>9, <2>3
    <3>4. w.refs[c] >= 1
      BY <1>1, <3>2, <3>3
    <3> QED BY <3>4 DEF held
  <2>5. /\ t \in CreState /\ SameWorld(w, t) /\ SameBonds(w, t) /\ SameAims(w, t)
        /\ SameLists(w, t) /\ SameChecks(w, t)
        /\ \A x \in Being : t.refs[x] = w.refs[x] - Mark(x, held)
    BY <2>1, <2>3, <2>4, LetGoIs
  <2>6. Bonding(s, t)
    BY <1>9, <2>3, <2>5 DEF Bonding, SameWorld, SameAims, SameLists, SameChecks
  <2>7. Bonded(s, c, boss, t.master, t.summons)
    BY <2>3, <2>5 DEF Bonded, SameBonds, M, V
  <2>8. ASSUME NEW x \in Being
        PROVE  t.refs[x] = s.refs[x] + (IF x = c /\ boss # NoOne THEN 1 ELSE 0)
                                     - (IF x = c /\ s.master[c] # NoOne THEN 1 ELSE 0)
    <3>1. Mark(x, held) = IF x = c /\ s.master[c] # NoOne THEN 1 ELSE 0
      BY <1>11 DEF Mark, held
    <3>2. t.refs[x] = w.refs[x] - Mark(x, held) /\ w.refs[x] = u.refs[x] /\ u.refs[x] = a.refs[x]
      BY <1>9, <2>3, <2>5
    <3>3. a.refs[x] = s.refs[x] + (IF x = c /\ boss # NoOne THEN 1 ELSE 0)
      BY <1>8
    <3> DEFINE i == IF x = c /\ boss # NoOne THEN 1 ELSE 0
               j == IF x = c /\ s.master[c] # NoOne THEN 1 ELSE 0
    <3>4. /\ t.refs[x] = a.refs[x] - j /\ a.refs[x] = s.refs[x] + i
          /\ i \in {0, 1} /\ j \in {0, 1} /\ s.refs[x] \in Nat
      BY <1>1, <3>1, <3>2, <3>3
    <3> HIDE DEF i, j
    <3>5. t.refs[x] = s.refs[x] + i - j
      BY <3>4
    <3> QED BY <3>5 DEF i, j
  <2> QED BY <2>6, <2>7, <2>8
<1> QED BY <1>10, <1>11

LEMMA TallyOne ==
  ASSUME NEW F, NEW c, NEW z, \A d \in Being : c \in F[d] <=> d = z
  PROVE  Tally(F, c) = IF z \in Being THEN 1 ELSE 0
<1> DEFINE X == {d \in Being : c \in F[d]}
<1>1. CASE z \in Being
  <2>1. X = {z}
    BY <1>1
  <2> HIDE DEF X
  <2>2. Cardinality(X) = 1
    BY <2>1, FS_Singleton
  <2> QED BY <1>1, <2>2 DEF Tally, X
<1>2. CASE z \notin Being
  <2>1. X = {}
    BY <1>2
  <2> HIDE DEF X
  <2>2. Cardinality(X) = 0
    BY <2>1, FS_EmptySet
  <2> QED BY <1>2, <2>2 DEF Tally, X
<1> QED BY <1>1, <1>2

LEMMA TallySame ==
  ASSUME NEW F, NEW G, NEW c, \A d \in Being : c \in F[d] <=> c \in G[d]
  PROVE  Tally(F, c) = Tally(G, c)
<1>1. {d \in Being : c \in F[d]} = {d \in Being : c \in G[d]}
  OBVIOUS
<1> QED BY <1>1 DEF Tally

LEMMA BondedIs ==
  ASSUME NEW s \in CreState, NEW c \in Being, NEW boss \in Being \cup {NoOne},
         \A x, d \in Being : s.master[x] = d <=> x \in s.summons[d],
         s.master[c] = NoOne \/ s.master[c] # boss, NEW M, NEW S, Bonded(s, c, boss, M, S)
  PROVE  /\ M[c] = boss /\ \A x \in Being \ {c} : M[x] = s.master[x]
         /\ \A x, d \in Being : x # c => (x \in S[d] <=> x \in s.summons[d])
         /\ \A d \in Being : c \in S[d] <=> d = boss
         /\ \A d \in Being : S[d] \subseteq s.summons[d] \cup (IF d = boss THEN {c} ELSE {})
         /\ Tally(S, c) = Tally(s.summons, c) + (IF boss # NoOne THEN 1 ELSE 0)
                             - (IF s.master[c] # NoOne THEN 1 ELSE 0)
         /\ \A x \in Being \ {c} : Tally(S, x) = Tally(s.summons, x)
<1>1. /\ s.summons \in [Being -> SUBSET Being] /\ s.master \in [Being -> Being \cup {NoOne}]
      /\ NoOne \notin Being
  BY Kinds DEF CreState
<1>2. M[c] = boss /\ \A x \in Being \ {c} : M[x] = s.master[x]
  BY <1>1 DEF Bonded
<1>3. ASSUME NEW x \in Being, NEW d \in Being, x # c PROVE x \in S[d] <=> x \in s.summons[d]
  BY <1>1, <1>3 DEF Bonded
<1>4. ASSUME NEW d \in Being PROVE c \in S[d] <=> d = boss
  BY DEF Bonded
<1>5. ASSUME NEW d \in Being PROVE S[d] \subseteq s.summons[d] \cup (IF d = boss THEN {c} ELSE {})
  BY DEF Bonded
<1>6. Tally(S, c) = IF boss \in Being THEN 1 ELSE 0
  BY <1>4, TallyOne
<1>7. Tally(s.summons, c) = IF s.master[c] \in Being THEN 1 ELSE 0
  <2> DEFINE F == s.summons
             z == s.master[c]
  <2>1. \A d \in Being : c \in F[d] <=> d = z
    OBVIOUS
  <2> HIDE DEF F, z
  <2>2. Tally(F, c) = IF z \in Being THEN 1 ELSE 0
    BY <2>1, TallyOne
  <2> QED BY <2>2 DEF F, z
<1>8. (boss \in Being <=> boss # NoOne) /\ (s.master[c] \in Being <=> s.master[c] # NoOne)
  BY <1>1
<1>9. Tally(S, c) = Tally(s.summons, c) + (IF boss # NoOne THEN 1 ELSE 0)
                       - (IF s.master[c] # NoOne THEN 1 ELSE 0)
  BY <1>6, <1>7, <1>8
<1>10. ASSUME NEW x \in Being \ {c} PROVE Tally(S, x) = Tally(s.summons, x)
  BY <1>3, TallySame
<1> QED BY <1>2, <1>3, <1>4, <1>5, <1>9, <1>10

LEMMA BondingKeeps ==
  ASSUME NEW s, NEW t, Bonding(s, t)
  PROVE  /\ Placed(t) = Placed(s) /\ Present(t) = Present(s) /\ t.stage = s.stage
         /\ t.at = s.at /\ t.alive = s.alive /\ t.deaths = s.deaths /\ t.releases = s.releases
         /\ t.targets = s.targets /\ t.friends = s.friends /\ t.listed = s.listed /\ t.check = s.check
         /\ t.attacked = s.attacked /\ t.follow = s.follow /\ t \in CreState
         /\ \A c, d : CanSee(t, c, d) <=> CanSee(s, c, d)
         /\ \A x, U : Aimed(s, x, U) => Aimed(t, x, U)
<1>1. /\ Placed(t) = Placed(s) /\ Present(t) = Present(s) /\ t.stage = s.stage
      /\ t.at = s.at /\ t.alive = s.alive /\ t.deaths = s.deaths /\ t.releases = s.releases
      /\ t.targets = s.targets /\ t.friends = s.friends /\ t.listed = s.listed /\ t.check = s.check
      /\ t.attacked = s.attacked /\ t.follow = s.follow /\ t \in CreState
      /\ \A c, d : CanSee(t, c, d) <=> CanSee(s, c, d)
  BY DEF Bonding, SameWorld, SameLists, SameChecks, SameAims, Placed, Present, CanSee
<1>2. \A x, U : Aimed(s, x, U) => Aimed(t, x, U)
  BY <1>1 DEF Aimed, InSight
<1> QED BY <1>1, <1>2

\* A summon is released, or, on the map, follows another master there.
LEMMA LiveBonded ==
  ASSUME NEW s, NEW x, NEW U, NEW E, NEW b, Live(s, x, U, E, b), NEW c \in Being,
         NEW boss \in Being \cup {NoOne},
         IF boss = NoOne THEN c \notin Placed(s) \cap s.alive \cap Beast \/ {c} \X Being \subseteq E
         ELSE /\ {boss, c} \subseteq Placed(s) /\ c \in Beast /\ s.master[c] # boss /\ boss # c
              /\ s.summons[c] = {} /\ s.master[boss] = NoOne,
         NEW t, t = SetMaster(s, c, boss)
  PROVE  Live(t, x, U, E, b) /\ Bonding(s, t) /\ Bonded(s, c, boss, t.master, t.summons)
<1>1. Books(s) /\ s \in CreState /\ Ranks(s, b) /\ Aimed(s, x, U) /\ Noticing(s, E)
  BY DEF Live, Books
<1>2. \A y, d \in Being : s.master[y] = d <=> y \in s.summons[d]
  BY <1>1 DEF Ranks
<1>3. s.master[c] = NoOne \/ s.master[c] # boss
  OBVIOUS
<1>4. /\ Bonding(s, t) /\ Bonded(s, c, boss, t.master, t.summons)
      /\ \A y \in Being : t.refs[y] = s.refs[y] + (IF y = c /\ boss # NoOne THEN 1 ELSE 0)
                                       - (IF y = c /\ s.master[c] # NoOne THEN 1 ELSE 0)
  BY <1>1, <1>2, <1>3, SetMasterFields
<1> DEFINE M == t.master
           S == t.summons
<1>5. /\ M[c] = boss /\ \A y \in Being \ {c} : M[y] = s.master[y]
      /\ \A y, d \in Being : y # c => (y \in S[d] <=> y \in s.summons[d])
      /\ \A d \in Being : c \in S[d] <=> d = boss
      /\ \A d \in Being : S[d] \subseteq s.summons[d] \cup (IF d = boss THEN {c} ELSE {})
      /\ Tally(S, c) = Tally(s.summons, c) + (IF boss # NoOne THEN 1 ELSE 0)
                          - (IF s.master[c] # NoOne THEN 1 ELSE 0)
      /\ \A y \in Being \ {c} : Tally(S, y) = Tally(s.summons, y)
  <2> HIDE DEF M, S
  <2>1. Bonded(s, c, boss, M, S)
    BY <1>4 DEF M, S
  <2> QED BY <1>1, <1>2, <1>3, <2>1, BondedIs
<1>6. /\ Placed(t) = Placed(s) /\ Present(t) = Present(s) /\ t.stage = s.stage
      /\ t.at = s.at /\ t.alive = s.alive /\ t.deaths = s.deaths /\ t.releases = s.releases
      /\ t.targets = s.targets /\ t.friends = s.friends /\ t.listed = s.listed /\ t.check = s.check
      /\ t.attacked = s.attacked /\ t.follow = s.follow /\ t \in CreState
      /\ \A y, d : CanSee(t, y, d) <=> CanSee(s, y, d)
      /\ Aimed(t, x, U)
  BY <1>1, <1>4, BondingKeeps
<1>7. Books(t)
  <2>1. ASSUME NEW y \in Being PROVE t.refs[y] = CountOf(t, y)
    <3> DEFINE i == IF y = c /\ boss # NoOne THEN 1 ELSE 0
               j == IF y = c /\ s.master[c] # NoOne THEN 1 ELSE 0
               n == Tally(s.summons, y)
               k == Tally(S, y)
               T == Tally(s.targets, y)
               F == Tally(s.friends, y)
               P == Mark(y, Placed(s))
               L == Mark(y, s.listed)
               R == s.releases[y]
    <3>1. k = n + i - j
      <4>1. CASE y = c
        BY <1>5, <4>1
      <4>2. CASE y # c
        <5>1. k = n /\ i = 0 /\ j = 0
          BY <1>5, <4>2
        <5>2. n \in Nat
          BY TallyIs
        <5> HIDE DEF k, n, i, j
        <5> QED BY <5>1, <5>2
      <4> QED BY <4>1, <4>2
    <3>2. n \in Nat /\ T \in Nat /\ F \in Nat /\ P \in {0, 1} /\ L \in {0, 1} /\ R \in Nat
          /\ i \in {0, 1} /\ j \in {0, 1}
      BY <1>1, CountIs
    <3>3. s.refs[y] = T + F + n + P + L + R
      BY <1>1 DEF Books, CountOf
    <3>4. t.refs[y] = s.refs[y] + i - j
      BY <1>4
    <3>5. CountOf(t, y) = T + F + k + P + L + R
      BY <1>6 DEF CountOf
    <3> HIDE DEF i, j, n, k, T, F, P, L, R
    <3> QED BY <3>1, <3>2, <3>3, <3>4, <3>5
  <2>2. ASSUME NEW y \in Being, y \notin Present(t) PROVE t.refs[y] = 0
    <3>1. s.refs[y] = 0
      BY <1>1, <1>6, <2>2 DEF Books
    <3>2. CASE y = c
      <4>1. boss = NoOne
        BY <1>6, <2>2, <3>2, PlacedIs
      <4>2. s.master[c] = NoOne
        <5>1. s.stage[c] = "none" \/ \A d \in Being : c \notin s.summons[d]
          BY <1>1, <1>6, <2>2, <3>2, HeldIs
        <5>2. s.master[c] \in Being \cup {NoOne}
          BY <1>1 DEF CreState
        <5> QED BY <1>1, <1>2, <5>1, <5>2 DEF Ranks
      <4> QED BY <1>4, <3>1, <3>2, <4>1, <4>2
    <3>3. CASE y # c
      BY <1>4, <3>1, <3>3
    <3> QED BY <3>2, <3>3
  <2> QED BY <1>6, <2>1, <2>2 DEF Books
<1>8. Ranks(t, b)
  <2>1. ASSUME NEW y \in Being, NEW d \in Being PROVE M[y] = d <=> y \in S[d]
    <3>1. CASE y = c
      BY <1>5, <3>1
    <3>2. CASE y # c
      BY <1>2, <1>5, <3>2
    <3> QED BY <3>1, <3>2
  <2>2. ASSUME NEW y \in Man PROVE M[y] = NoOne
    <3>1. CASE y = c
      BY <1>5, <3>1, Kinds
    <3>2. CASE y # c
      BY <1>1, <1>5, <3>2, Kinds DEF Ranks
    <3> QED BY <3>1, <3>2
  <2>3. ASSUME NEW y \in Being, M[y] # NoOne PROVE S[y] = {}
    <3>1. s.summons[y] = {} /\ y # boss
      <4>1. CASE y = c
        <5>1. boss # NoOne
          BY <1>5, <2>3, <4>1
        <5> QED BY <4>1, <5>1
      <4>2. CASE y # c
        <5>1. M[y] = s.master[y]
          BY <1>5, <4>2
        <5>2. s.summons[y] = {}
          BY <1>1, <2>3, <5>1 DEF Ranks
        <5>3. boss # NoOne => y # boss
          BY <2>3, <5>1
        <5> QED BY <5>2, <5>3, Kinds
      <4> QED BY <4>1, <4>2
    <3> QED BY <1>5, <3>1
  <2>4. ASSUME NEW y \in Being, t.stage[y] = "none"
        PROVE  t.attacked[y] = NoOne /\ t.follow[y] = NoOne /\ M[y] = NoOne
    <3>1. s.attacked[y] = NoOne /\ s.follow[y] = NoOne /\ s.master[y] = NoOne
      BY <1>1, <1>6, <2>4 DEF Ranks
    <3>2. y = c => boss = NoOne
      BY <1>6, <2>4 DEF Placed
    <3> QED BY <1>5, <1>6, <3>1, <3>2
  <2>5. ASSUME NEW y \in Being \ Present(t) PROVE S[y] = {}
    <3>1. s.summons[y] = {} /\ y # boss
      BY <1>1, <1>6, PlacedIs, Kinds DEF Ranks
    <3> QED BY <1>5, <3>1
  <2>6. ASSUME NEW y \in Being \ {b}, t.stage[y] = "removed" PROVE S[y] \cap Placed(t) = {}
    <3>1. s.summons[y] \cap Placed(s) = {} /\ y # boss
      BY <1>1, <1>6, <2>6, Kinds DEF Ranks, Placed
    <3> QED BY <1>5, <1>6, <3>1
  <2>7. t.alive \cap t.deaths = {}
    BY <1>1, <1>6 DEF Ranks
  <2> QED BY <2>1, <2>2, <2>3, <2>4, <2>5, <2>6, <2>7 DEF Ranks
<1>9. Noticing(t, E)
  <2> SUFFICES ASSUME NEW m \in Being, NEW p \in Being, Wild(t, m), p \in Placed(t) \cap Man,
                      CanSee(t, m, p), <<m, p>> \notin E
               PROVE  p \in t.targets[m] /\ m \in t.check
    BY DEF Noticing
  <2>1. m # c
    <3> SUFFICES ASSUME m = c PROVE FALSE
      OBVIOUS
    <3>1. boss = NoOne
      BY <1>5 DEF Wild
    <3> QED BY <1>6, <3>1 DEF Wild
  <2>2. Wild(s, m)
    BY <1>5, <1>6, <2>1 DEF Wild
  <2> QED BY <1>1, <1>6, <2>2 DEF Noticing
<1> QED BY <1>4, <1>6, <1>7, <1>8, <1>9 DEF Live

-----------------------------------------------------------------------------
(* Removing a creature *)

Near(c) == ({c} \X Being) \cup (Being \X {c})

\* What the others make of c's leaving: they turn from it, and it may lose
\* its master.
Leaving(s, t, c) ==
  /\ t \in CreState /\ SameWorld(s, t)
  /\ \A d \in Being : /\ t.attacked[d] \in {s.attacked[d], NoOne}
                      /\ t.follow[d] \in {s.follow[d], NoOne}
                      /\ t.summons[d] \subseteq s.summons[d]
                      /\ t.summons[d] \ {c} = s.summons[d] \ {c}
  /\ \A d \in Being \ {c} : t.master[d] = s.master[d]

LEMMA LeavingThen ==
  ASSUME NEW s, NEW t, NEW u, NEW c, Leaving(s, t, c), Leaving(t, u, c)
  PROVE  Leaving(s, u, c)
<1>1. u \in CreState /\ SameWorld(s, u)
  BY DEF Leaving, SameWorld
<1>2. ASSUME NEW d \in Being
      PROVE  /\ u.attacked[d] \in {s.attacked[d], NoOne} /\ u.follow[d] \in {s.follow[d], NoOne}
             /\ u.summons[d] \subseteq s.summons[d] /\ u.summons[d] \ {c} = s.summons[d] \ {c}
  BY DEF Leaving
<1>3. \A d \in Being \ {c} : u.master[d] = s.master[d]
  BY DEF Leaving
<1> QED BY <1>1, <1>2, <1>3 DEF Leaving

LEMMA LeavingIs ==
  ASSUME NEW s, NEW t, NEW c
  PROVE  /\ s \in CreState => Leaving(s, s, c)
         /\ Aiming(s, t, NoOne) => Leaving(s, t, c)
         /\ \A m : Sensing(s, t, m) => Leaving(s, t, c)
         /\ s \in CreState /\ Bonding(s, t) /\ Bonded(s, c, NoOne, t.master, t.summons) => Leaving(s, t, c)
<1>1. s \in CreState => Leaving(s, s, c)
  BY DEF Leaving, SameWorld
<1>2. Aiming(s, t, NoOne) => Leaving(s, t, c)
  BY Kinds DEF Leaving, Aiming, TurnsOn, SameBonds
<1>3. \A m : Sensing(s, t, m) => Leaving(s, t, c)
  BY DEF Leaving, Sensing, SameBonds, SameAims
<1>4. ASSUME s \in CreState, Bonding(s, t), Bonded(s, c, NoOne, t.master, t.summons)
      PROVE  Leaving(s, t, c)
  <2>1. s.master \in [Being -> Being \cup {NoOne}] /\ NoOne \notin Being
    BY <1>4, Kinds DEF CreState
  <2>2. \A d \in Being \ {c} : t.master[d] = s.master[d]
    BY <1>4, <2>1 DEF Bonded
  <2>3. \A d \in Being : t.summons[d] = s.summons[d] \ {c}
    BY <1>4, <2>1 DEF Bonded
  <2> QED BY <1>4, <2>2, <2>3 DEF Leaving, Bonding, SameAims
<1> QED BY <1>1, <1>2, <1>3, <1>4

LEMMA ReleasedIs ==
  ASSUME NEW s, NEW x, NEW U, NEW E, NEW b, Live(s, x, U, E, b), NEW c \in Being,
         {c} \X Being \subseteq E, NEW t, t = Released(s, c)
  PROVE  Live(t, x, U, E, b) /\ Leaving(s, t, c)
<1>1. s \in CreState
  BY DEF Live, Books
<1>2. CASE s.master[c] \in Placed(s)
  <2> DEFINE boss == NoOne
  <2>1. t = SetMaster(s, c, boss)
    BY <1>2 DEF Released
  <2>2. IF boss = NoOne THEN c \notin Placed(s) \cap s.alive \cap Beast \/ {c} \X Being \subseteq E
        ELSE /\ {boss, c} \subseteq Placed(s) /\ c \in Beast /\ s.master[c] # boss /\ boss # c
             /\ s.summons[c] = {} /\ s.master[boss] = NoOne
    OBVIOUS
  <2>3. boss \in Being \cup {NoOne}
    OBVIOUS
  <2> HIDE DEF boss
  <2>4. Live(t, x, U, E, b) /\ Bonding(s, t) /\ Bonded(s, c, boss, t.master, t.summons)
    BY <2>1, <2>2, <2>3, LiveBonded
  <2> QED BY <1>1, <2>4, LeavingIs DEF boss
<1>3. CASE s.master[c] \notin Placed(s)
  BY <1>1, <1>3, LeavingIs DEF Released
<1> QED BY <1>2, <1>3

LEMMA OnRemoveCreatureIs ==
  ASSUME NEW s, NEW x, NEW U, NEW E, NEW b, Live(s, x, U, E, b), NEW m \in Being, NEW c \in Being,
         Near(c) \subseteq E, NEW t, t = OnRemoveCreature(s, m, c)
  PROVE  Live(t, x, U, E, b) /\ Leaving(s, t, c) /\ t.attacked[m] # c /\ t.follow[m] # c
<1> DEFINE u == OnCreatureDisappear(s, m, c)
<1>1. t = Removed(u, m, c)
  BY DEF OnRemoveCreature
<1>2. Books(s) /\ c # NoOne /\ {c} \X Being \subseteq E /\ <<m, c>> \in E
  BY Kinds DEF Live, Near
<1> HIDE DEF u
<1>3. Aiming(s, u, NoOne) /\ u.attacked[m] # c /\ u.follow[m] # c
  BY <1>2, OnCreatureDisappearIs DEF u
<1>4. Live(u, x, U, E, b) /\ Leaving(s, u, c)
  BY <1>3, LiveAimed, LeavingIs, Kinds
<1>5. Live(t, x, U, E, b) /\ Leaving(u, t, c)
  <2>1. CASE m \notin Beast /\ m = c
    <3>1. t = Released(u, c)
      BY <1>1, <2>1 DEF Removed
    <3> QED BY <1>2, <1>4, <3>1, ReleasedIs
  <2>2. CASE m \notin Beast /\ m # c
    <3>1. t = u
      BY <1>1, <2>2 DEF Removed
    <3> QED BY <1>4, <3>1, LeavingIs DEF Live, Books
  <2>3. CASE m \in Beast /\ m = c
    <3> DEFINE v == Released(u, c)
    <3>1. t = SetIdle(v, c, TRUE)
      BY <1>1, <2>3 DEF Removed
    <3> HIDE DEF v
    <3>2. Live(v, x, U, E, b) /\ Leaving(u, v, c)
      BY <1>2, <1>4, ReleasedIs DEF v
    <3>3. Live(t, x, U, E, b) /\ Sensing(v, t, c)
      BY <1>2, <3>1, <3>2, LiveForgets
    <3> QED BY <3>2, <3>3, LeavingIs, LeavingThen
  <2>4. CASE m \in Beast /\ m # c
    <3>1. t = OnCreatureLeave(u, m, c)
      BY <1>1, <2>4 DEF Removed
    <3>2. Live(t, x, U, E, b) /\ Sensing(u, t, m)
      BY <1>2, <1>4, <3>1, LiveLeft
    <3> QED BY <3>2, LeavingIs
  <2> QED BY <2>1, <2>2, <2>3, <2>4
<1>6. t.attacked[m] # c /\ t.follow[m] # c
  BY <1>2, <1>3, <1>5 DEF Leaving
<1> QED BY <1>4, <1>5, <1>6, LeavingThen

\* c is off the map, and waits for its release.
Gone(s, c) == [s EXCEPT !.stage[c] = "removed", !.releases[c] = @ + 1, !.deaths = @ \ {c},
                        !.check = @ \ {c}]

LEMMA GoneIs ==
  ASSUME NEW s \in CreState, NEW c \in Being, NEW t, t = Gone(s, c)
  PROVE  /\ t \in CreState /\ t.stage = [s.stage EXCEPT ![c] = "removed"] /\ t.at = s.at
         /\ t.alive = s.alive /\ t.deaths = s.deaths \ {c} /\ t.check = s.check \ {c}
         /\ t.releases[c] = s.releases[c] + 1
         /\ \A d \in Being \ {c} : t.releases[d] = s.releases[d]
         /\ t.listed = s.listed /\ t.refs = s.refs
         /\ SameBonds(s, t) /\ SameAims(s, t) /\ SameLists(s, t)
<1> DEFINE S == [s.stage EXCEPT ![c] = "removed"]
           R == [s.releases EXCEPT ![c] = @ + 1]
           T == s.deaths \ {c}
           C == s.check \ {c}
<1>1. /\ S \in [Being -> {"none", "placed", "removed", "freed"}] /\ R \in [Being -> Nat]
      /\ T \in SUBSET Being /\ C \in SUBSET Being
      /\ R[c] = s.releases[c] + 1 /\ \A d \in Being \ {c} : R[d] = s.releases[d]
  BY DEF CreState
<1>2. t = [s EXCEPT !.stage = S, !.releases = R, !.deaths = T, !.check = C]
  BY DEF Gone, CreState
<1>3. S = [s.stage EXCEPT ![c] = "removed"] /\ T = s.deaths \ {c} /\ C = s.check \ {c}
  OBVIOUS
<1> HIDE DEF S, R, T, C
<1>4. t \in CreState /\ t.stage = S /\ t.releases = R /\ t.deaths = T /\ t.check = C
  BY <1>1, <1>2 DEF CreState
<1>5. /\ t.at = s.at /\ t.alive = s.alive /\ t.listed = s.listed /\ t.refs = s.refs
      /\ SameBonds(s, t) /\ SameAims(s, t) /\ SameLists(s, t)
  BY <1>2 DEF CreState, SameBonds, SameAims, SameLists
<1> QED BY <1>1, <1>3, <1>4, <1>5

\* From s, c alone has been taken off the map, or was not there.
Parted(s, t, c) ==
  /\ t \in CreState /\ t.at = s.at /\ t.alive = s.alive /\ t.deaths \subseteq s.deaths
  /\ c \in Placed(s) => t.stage = [s.stage EXCEPT ![c] = "removed"]
  /\ c \notin Placed(s) => t.stage = s.stage
  /\ \A d \in Being : /\ t.summons[d] \subseteq s.summons[d]
                      /\ t.summons[d] \ {c} = s.summons[d] \ {c}

\* Those who see c leave turn from it.
TurnFrom(s, c) == FoldSet(LAMBDA m, u : OnRemoveCreature(u, m, c), s, Spectators(s, s.at[c]))

LEMMA AllTurnFrom ==
  ASSUME NEW s, NEW x, NEW U, NEW E, NEW b, Live(s, x, U, E, b), NEW c \in Being, Near(c) \subseteq E,
         NEW t, t = TurnFrom(s, c)
  PROVE  /\ Live(t, x, U, E, b) /\ Leaving(s, t, c)
         /\ \A m \in Spectators(s, s.at[c]) : t.attacked[m] # c /\ t.follow[m] # c
<1> DEFINE X == Spectators(s, s.at[c])
           D == CreState
           op == [e1 \in X |-> [v1 \in D |-> OnRemoveCreature(v1, e1, c)]]
           IsFold(f) == f = [Z \in SUBSET X |-> IF Z = {} THEN s
                               ELSE LET e1 == CHOOSE e1 \in Z : TRUE IN OnRemoveCreature(f[Z \ {e1}], e1, c)]
           g == CHOOSE f : IsFold(f)
           Good(Z, u) == /\ Live(u, x, U, E, b) /\ Leaving(s, u, c)
                         /\ \A m \in Z : u.attacked[m] # c /\ u.follow[m] # c
           J == [Z \in SUBSET X |-> {u \in D : Good(Z, u)}]
<1>1. t = g[X]
  BY DEF TurnFrom, FoldSet, MapThenFoldSet
<1>2. IsFiniteSet(X) /\ X \subseteq Being
  <2>1. X \subseteq Being
    BY PlacedIs
  <2> QED BY <2>1, Kinds, FS_Subset
<1>3. Good({}, s)
  BY LeavingIs DEF Live, Books
<1>4. ASSUME NEW Z \in SUBSET X, NEW e \in X, NEW u, Good(Z, u)
      PROVE  Good(Z \cup {e}, OnRemoveCreature(u, e, c))
  <2> DEFINE w == OnRemoveCreature(u, e, c)
  <2>1. e \in Being /\ Z \subseteq Being /\ c # NoOne
    BY <1>2, Kinds
  <2> HIDE DEF w, X
  <2>2. Live(w, x, U, E, b) /\ Leaving(u, w, c) /\ w.attacked[e] # c /\ w.follow[e] # c
    BY <1>4, <2>1, OnRemoveCreatureIs DEF w
  <2>3. Leaving(s, w, c)
    BY <1>4, <2>2, LeavingThen
  <2>4. ASSUME NEW m \in Z \cup {e} PROVE w.attacked[m] # c /\ w.follow[m] # c
    <3>1. m # e => u.attacked[m] # c /\ u.follow[m] # c
      BY <1>4
    <3>2. m \in Being
      BY <2>1
    <3>3. w.attacked[m] \in {u.attacked[m], NoOne} /\ w.follow[m] \in {u.follow[m], NoOne}
      BY <2>2, <3>2 DEF Leaving
    <3> HIDE DEF Good
    <3> QED BY <2>1, <2>2, <3>1, <3>3
  <2> QED BY <2>2, <2>3, <2>4 DEF w
<1>5. Good(X, g[X])
  <2> HIDE DEF X, Good
  <2>1. J \in [SUBSET X -> SUBSET D]
    OBVIOUS
  <2>2. s \in J[{}]
    <3>1. s \in D
      BY <1>3 DEF Good, Live, Books
    <3> QED BY <1>3, <3>1
  <2>3. Leads(X, J, op)
    <3> SUFFICES ASSUME NEW Z \in SUBSET X, NEW e \in X, e \notin Z, NEW y \in J[Z]
                 PROVE  op[e][y] \in J[Z \cup {e}]
      BY DEF Leads
    <3>1. y \in D /\ Good(Z, y) /\ op[e][y] = OnRemoveCreature(y, e, c) /\ Z \cup {e} \in SUBSET X
      OBVIOUS
    <3>2. Good(Z \cup {e}, op[e][y])
      BY <1>4, <3>1
    <3>3. op[e][y] \in D
      BY <3>2 DEF Good, Live, Books
    <3> HIDE DEF op
    <3> QED BY <3>1, <3>2, <3>3
  <2> HIDE DEF J
  <2>4. PICK f : FoldOf(f, X, s, op) /\ \A Z \in SUBSET X : f[Z] \in J[Z]
    <3> HIDE DEF op
    <3> QED BY <1>2, <2>1, <2>2, <2>3, FoldWithin
  <2>5. IsFold(f)
    <3>1. ASSUME NEW Z \in SUBSET X, NEW e \in Z
          PROVE  op[e][f[Z \ {e}]] = OnRemoveCreature(f[Z \ {e}], e, c)
      <4>1. e \in X /\ Z \ {e} \in SUBSET X
        OBVIOUS
      <4>2. f[Z \ {e}] \in D
        <5> HIDE DEF op
        <5> QED BY <2>1, <2>4, <4>1
      <4> QED BY <4>1, <4>2
    <3> HIDE DEF op
    <3>2. f = [Z \in SUBSET X |-> IF Z = {} THEN s
                  ELSE LET e == CHOOSE e \in Z : TRUE IN op[e][f[Z \ {e}]]]
      BY <2>4 DEF FoldOf
    <3> DEFINE e(Z) == CHOOSE e \in Z : TRUE
    <3>3. ASSUME NEW Z \in SUBSET X
          PROVE  (IF Z = {} THEN s ELSE op[e(Z)][f[Z \ {e(Z)}]])
                   = (IF Z = {} THEN s ELSE OnRemoveCreature(f[Z \ {e(Z)}], e(Z), c))
      <4>1. CASE Z = {}
        BY <4>1
      <4>2. CASE Z # {}
        <5>1. e(Z) \in Z
          BY <4>2
        <5> HIDE DEF e
        <5> QED BY <3>1, <4>2, <5>1
      <4> QED BY <4>1, <4>2
    <3> QED BY <3>2, <3>3
  <2>6. IsFold(g)
    <3> HIDE DEF IsFold
    <3> QED BY <2>5
  <2> HIDE DEF g
  <2>7. g[{}] = s
    BY <2>6
  <2>8. Follows(g, X, D, op)
    <3> SUFFICES ASSUME NEW Z \in SUBSET X, Z # {}
                 PROVE  \E e \in Z : g[Z \ {e}] \in D => g[Z] = op[e][g[Z \ {e}]]
      BY DEF Follows
    <3> DEFINE e == CHOOSE y \in Z : TRUE
    <3>1. e \in Z /\ g[Z] = OnRemoveCreature(g[Z \ {e}], e, c)
      BY <2>6
    <3> HIDE DEF e, op
    <3>2. g[Z \ {e}] \in D => g[Z] = op[e][g[Z \ {e}]]
      <4>1. e \in X
        BY <3>1
      <4> QED BY <3>1, <4>1 DEF op
    <3> QED BY <3>1, <3>2
  <2>9. g[X] \in J[X]
    <3> HIDE DEF op, IsFold
    <3>1. g[{}] \in J[{}]
      BY <2>2, <2>7
    <3> QED BY <1>2, <2>1, <2>3, <2>8, <3>1, Folding
  <2> QED BY <2>9 DEF J
<1> HIDE DEF g
<1> QED BY <1>1, <1>5

LEMMA RemoveOneIs ==
  ASSUME NEW s, NEW x, NEW U, NEW E, NEW b, Live(s, x, U, E, b), NEW c \in Being,
         b = c \/ s.summons[c] = {}, NEW t, t = RemoveOne(s, c)
  PROVE  Live(t, x, U, E, b) /\ Parted(s, t, c)
<1>1. CASE c \notin Placed(s)
  <2>1. t = s
    BY <1>1 DEF RemoveOne
  <2> QED BY <1>1, <2>1 DEF Parted, Live, Books
<1>2. CASE c \in Placed(s)
  <2> DEFINE F == E \cup Near(c)
             v == TurnFrom(s, c)
  <2>1. Live(s, x, U, F, b) /\ Near(c) \subseteq F
    BY DEF Live, Noticing
  <2> HIDE DEF F
  <2>2. /\ Live(v, x, U, F, b) /\ Leaving(s, v, c)
        /\ \A m \in Spectators(s, s.at[c]) : v.attacked[m] # c /\ v.follow[m] # c
    BY <2>1, AllTurnFrom
  <2>3. t = Gone(v, c)
    <3>1. t = RemoveCreatureCheck([v EXCEPT !.stage[c] = "removed", !.releases[c] = @ + 1,
                                            !.deaths = @ \ {c}], c)
      BY <1>2 DEF RemoveOne, TurnFrom, FoldSet, MapThenFoldSet
    <3> HIDE DEF v
    <3>2. v \in CreState
      BY <2>2 DEF Leaving
    <3> QED BY <3>1, <3>2 DEF RemoveCreatureCheck, Gone, CreState
  <2> HIDE DEF v
  <2>4. v \in CreState /\ v.stage = s.stage /\ Placed(v) = Placed(s) /\ Present(v) = Present(s)
        /\ v.at = s.at /\ v.alive = s.alive /\ v.deaths = s.deaths /\ v.releases = s.releases
    BY <2>2 DEF Leaving, SameWorld, Placed, Present
  <2>5. /\ t \in CreState /\ t.stage = [v.stage EXCEPT ![c] = "removed"] /\ t.at = v.at
        /\ t.alive = v.alive /\ t.deaths = v.deaths \ {c} /\ t.check = v.check \ {c}
        /\ t.releases[c] = v.releases[c] + 1
        /\ \A d \in Being \ {c} : t.releases[d] = v.releases[d]
        /\ t.listed = v.listed /\ t.refs = v.refs
        /\ t.master = v.master /\ t.summons = v.summons
        /\ t.attacked = v.attacked /\ t.follow = v.follow
        /\ t.targets = v.targets /\ t.friends = v.friends
    BY <2>3, <2>4, GoneIs DEF SameBonds, SameAims, SameLists
  <2>6. Parted(s, t, c)
    BY <1>2, <2>2, <2>4, <2>5 DEF Parted, Leaving
  <2>7. v.stage \in [Being -> {"none", "placed", "removed", "freed"}]
    BY <2>4 DEF CreState
  <2>8. Placed(t) = Placed(v) \ {c} /\ Present(t) = Present(v)
    BY <1>2, <2>4, <2>5, <2>7 DEF Placed, Present
  <2>9. Books(t)
    <3>1. ASSUME NEW y \in Being PROVE CountOf(t, y) = CountOf(v, y)
      <4> DEFINE T == Tally(v.targets, y)
                 G == Tally(v.friends, y)
                 S == Tally(v.summons, y)
                 P == Mark(y, Placed(v))
                 Q == Mark(y, Placed(t))
                 L == Mark(y, v.listed)
                 R == v.releases[y]
                 W == t.releases[y]
      <4>1. T \in Nat /\ G \in Nat /\ S \in Nat /\ P \in {0, 1} /\ L \in {0, 1} /\ R \in Nat
            /\ CountOf(v, y) = T + G + S + P + L + R
        BY <2>4, CountIs DEF CountOf
      <4>2. CountOf(t, y) = T + G + S + Q + L + W
        BY <2>5 DEF CountOf
      <4>3. (Q = P /\ W = R) \/ (Q = 0 /\ P = 1 /\ W = R + 1)
        <5>1. CASE y = c
          BY <1>2, <2>4, <2>5, <2>8, <5>1 DEF Mark
        <5>2. CASE y # c
          BY <2>5, <2>8, <5>2 DEF Mark
        <5> QED BY <5>1, <5>2
      <4> HIDE DEF T, G, S, P, Q, L, R, W
      <4> QED BY <4>1, <4>2, <4>3
    <3> QED BY <2>2, <2>5, <2>8, <3>1 DEF Live, Books
  <2>10. Ranks(t, b)
    <3>1. Ranks(v, b)
      BY <2>2 DEF Live
    <3>2. \A y \in Being : t.stage[y] = "none" => v.stage[y] = "none"
      BY <2>5, <2>7
    <3>3. ASSUME NEW y \in Being \ {b}, t.stage[y] = "removed" PROVE t.summons[y] \cap Placed(t) = {}
      <4>1. CASE y = c
        <5>1. s.summons[c] = {}
          BY <3>3, <4>1
        <5>2. v.summons[c] = {}
          BY <2>2, <5>1 DEF Leaving
        <5> QED BY <2>5, <4>1, <5>2
      <4>2. CASE y # c
        <5>1. v.stage[y] = "removed"
          BY <2>5, <2>7, <3>3, <4>2
        <5>2. v.summons[y] \cap Placed(v) = {}
          BY <3>1, <3>3, <5>1 DEF Ranks
        <5> QED BY <2>5, <2>8, <5>2
      <4> QED BY <4>1, <4>2
    <3>4. t.alive \cap t.deaths = {}
      BY <2>5, <3>1 DEF Ranks
    <3> QED BY <2>5, <2>8, <3>1, <3>2, <3>3, <3>4 DEF Ranks
  <2>11. Aimed(t, x, U)
    <3>1. ASSUME NEW m \in Placed(t), NEW d, d # c, InSight(v, m, d, x, U) PROVE InSight(t, m, d, x, U)
      BY <2>5, <2>8, <3>1 DEF InSight, CanSee
    <3>2. ASSUME NEW m \in Placed(t), NEW d, d = c, InSight(v, m, d, x, U),
                 d = v.attacked[m] \/ d = v.follow[m]
          PROVE  InSight(t, m, d, x, U)
      <4>1. m \in Placed(v) /\ m # c /\ m \in Being
        BY <2>8, PlacedIs
      <4>2. ~CanSee(v, m, d)
        <5>1. CanSee(v, m, d) => m \in Spectators(s, s.at[c])
          BY <2>4, <3>2, <4>1 DEF CanSee, Spectators
        <5> QED BY <2>2, <3>2, <5>1
      <4> QED BY <2>5, <3>2, <4>2 DEF InSight, CanSee
    <3>3. ASSUME NEW m \in Placed(t)
          PROVE  /\ t.attacked[m] # NoOne => InSight(t, m, t.attacked[m], x, U)
                 /\ t.follow[m] # NoOne => InSight(t, m, t.follow[m], x, U)
      <4>1. /\ v.attacked[m] # NoOne => InSight(v, m, v.attacked[m], x, U)
            /\ v.follow[m] # NoOne => InSight(v, m, v.follow[m], x, U)
        BY <2>2, <2>8 DEF Live, Aimed
      <4> QED BY <2>5, <3>1, <3>2, <4>1
    <3> QED BY <3>3 DEF Aimed
  <2>12. Noticing(t, E)
    <3> SUFFICES ASSUME NEW m \in Being, NEW p \in Being, Wild(t, m), p \in Placed(t) \cap Man,
                        CanSee(t, m, p), <<m, p>> \notin E
                 PROVE  p \in t.targets[m] /\ m \in t.check
      BY DEF Noticing
    <3>1. m # c /\ p # c
      BY <2>8 DEF Wild
    <3>2. <<m, p>> \notin F
      BY <3>1 DEF F, Near
    <3>3. Wild(v, m) /\ p \in Placed(v) \cap Man /\ CanSee(v, m, p)
      BY <2>5, <2>8 DEF Wild, CanSee
    <3>4. p \in v.targets[m] /\ m \in v.check
      BY <2>2, <3>2, <3>3 DEF Live, Noticing
    <3> QED BY <2>5, <3>1, <3>4
  <2> QED BY <2>6, <2>9, <2>10, <2>11, <2>12 DEF Live
<1> QED BY <1>1, <1>2

\* From s to t, some of R have been taken off the map.
Less(s, t, R) ==
  /\ t \in CreState /\ t.at = s.at /\ t.alive = s.alive /\ t.deaths \subseteq s.deaths
  /\ \A d \in Being : /\ t.summons[d] \subseteq s.summons[d]
                      /\ \/ t.stage[d] = s.stage[d]
                         \/ d \in R /\ s.stage[d] = "placed" /\ t.stage[d] = "removed"

LEMMA LessThen ==
  ASSUME NEW s, NEW t, NEW u, NEW R, Less(s, t, R), Less(t, u, R)
  PROVE  Less(s, u, R)
<1>1. /\ u \in CreState /\ u.at = s.at /\ u.alive = s.alive /\ u.deaths \subseteq s.deaths
  BY DEF Less
<1>2. ASSUME NEW d \in Being
      PROVE  /\ u.summons[d] \subseteq s.summons[d]
             /\ \/ u.stage[d] = s.stage[d]
                \/ d \in R /\ s.stage[d] = "placed" /\ u.stage[d] = "removed"
  BY DEF Less
<1> QED BY <1>1, <1>2 DEF Less

LEMMA LessIs ==
  ASSUME NEW s, NEW t, NEW R
  PROVE  /\ s \in CreState => Less(s, s, R)
         /\ Less(s, t, R) => /\ Placed(t) \subseteq Placed(s) /\ Placed(s) \ R \subseteq Placed(t)
                             /\ Present(t) = Present(s)
         /\ \A c \in R : Parted(s, t, c) /\ s \in CreState => Less(s, t, R)
         /\ \A Q : Less(s, t, R) /\ R \subseteq Q => Less(s, t, Q)
<1>1. s \in CreState => Less(s, s, R)
  BY DEF Less
<1>2. ASSUME Less(s, t, R)
      PROVE  /\ Placed(t) \subseteq Placed(s) /\ Placed(s) \ R \subseteq Placed(t)
             /\ Present(t) = Present(s)
  BY <1>2 DEF Less, Placed, Present
<1>3. ASSUME NEW c \in R, Parted(s, t, c), s \in CreState PROVE Less(s, t, R)
  <2>1. ASSUME NEW d \in Being
        PROVE  \/ t.stage[d] = s.stage[d]
               \/ d \in R /\ s.stage[d] = "placed" /\ t.stage[d] = "removed"
    <3>1. s.stage \in [Being -> {"none", "placed", "removed", "freed"}]
      BY <1>3 DEF CreState
    <3>2. CASE c \in Placed(s)
      BY <1>3, <3>1, <3>2 DEF Parted, Placed
    <3>3. CASE c \notin Placed(s)
      BY <1>3, <3>3 DEF Parted
    <3> QED BY <3>2, <3>3
  <2> QED BY <1>3, <2>1 DEF Less, Parted
<1>4. \A Q : Less(s, t, R) /\ R \subseteq Q => Less(s, t, Q)
  BY DEF Less
<1> QED BY <1>1, <1>2, <1>3, <1>4

LEMMA RemoveSummonsIs ==
  ASSUME NEW s, NEW x, NEW U, NEW E, NEW c \in Being, Live(s, x, U, E, c),
         NEW t, t = RemoveSummons(s, c)
  PROVE  Live(t, x, U, E, c) /\ Less(s, t, s.summons[c]) /\ s.summons[c] \cap Placed(t) = {}
<1> DEFINE X == s.summons[c]
           D == CreState
           op == [e1 \in X |-> [v1 \in D |-> RemoveOne(v1, e1)]]
           IsFold(f) == f = [Z \in SUBSET X |-> IF Z = {} THEN s
                               ELSE LET e1 == CHOOSE e1 \in Z : TRUE IN RemoveOne(f[Z \ {e1}], e1)]
           g == CHOOSE f : IsFold(f)
           Good(Z, u) == /\ Live(u, x, U, E, c) /\ Less(s, u, X) /\ Z \cap Placed(u) = {}
           J == [Z \in SUBSET X |-> {u \in D : Good(Z, u)}]
<1>1. t = g[X]
  BY DEF RemoveSummons, FoldSet, MapThenFoldSet
<1>0. s \in CreState /\ \A d \in X : s.summons[d] = {}
  <2>1. s \in CreState /\ Ranks(s, c) /\ X \subseteq Being
    BY DEF Live, Books, CreState
  <2> QED BY <2>1, Kinds DEF Ranks
<1>2. IsFiniteSet(X) /\ X \subseteq Being
  <2>1. X \subseteq Being
    BY <1>0 DEF CreState
  <2> QED BY <2>1, Kinds, FS_Subset
<1>3. Good({}, s)
  BY <1>0, LessIs
<1>4. ASSUME NEW Z \in SUBSET X, NEW e \in X, NEW u, Good(Z, u)
      PROVE  Good(Z \cup {e}, RemoveOne(u, e))
  <2> DEFINE w == RemoveOne(u, e)
  <2>1. e \in Being /\ u.summons[e] = {}
    BY <1>0, <1>2, <1>4 DEF Less
  <2> HIDE DEF w, X
  <2>2. Live(w, x, U, E, c) /\ Parted(u, w, e)
    BY <1>4, <2>1, RemoveOneIs DEF w
  <2>3. u \in CreState
    BY <1>4 DEF Less
  <2>4. Less(u, w, X)
    BY <2>2, <2>3, LessIs
  <2>5. Less(s, w, X)
    BY <1>4, <2>4, LessThen
  <2>6. Placed(w) \subseteq Placed(u) /\ e \notin Placed(w)
    <3>1. u.stage \in [Being -> {"none", "placed", "removed", "freed"}]
      BY <2>3 DEF CreState
    <3>2. e \notin Placed(w)
      BY <2>1, <2>2, <3>1 DEF Parted, Placed
    <3> QED BY <2>4, <3>2, LessIs
  <2> QED BY <1>4, <2>2, <2>5, <2>6 DEF w
<1>5. Good(X, g[X])
  <2> HIDE DEF X, Good
  <2>1. J \in [SUBSET X -> SUBSET D]
    OBVIOUS
  <2>2. s \in J[{}]
    <3>1. s \in D
      BY <1>3 DEF Good, Live, Books
    <3> QED BY <1>3, <3>1
  <2>3. Leads(X, J, op)
    <3> SUFFICES ASSUME NEW Z \in SUBSET X, NEW e \in X, e \notin Z, NEW y \in J[Z]
                 PROVE  op[e][y] \in J[Z \cup {e}]
      BY DEF Leads
    <3>1. y \in D /\ Good(Z, y) /\ op[e][y] = RemoveOne(y, e) /\ Z \cup {e} \in SUBSET X
      OBVIOUS
    <3>2. Good(Z \cup {e}, op[e][y])
      BY <1>4, <3>1
    <3>3. op[e][y] \in D
      BY <3>2 DEF Good, Live, Books
    <3> HIDE DEF op
    <3> QED BY <3>1, <3>2, <3>3
  <2> HIDE DEF J
  <2>4. PICK f : FoldOf(f, X, s, op) /\ \A Z \in SUBSET X : f[Z] \in J[Z]
    <3> HIDE DEF op
    <3> QED BY <1>2, <2>1, <2>2, <2>3, FoldWithin
  <2>5. IsFold(f)
    <3>1. ASSUME NEW Z \in SUBSET X, NEW e \in Z
          PROVE  op[e][f[Z \ {e}]] = RemoveOne(f[Z \ {e}], e)
      <4>1. e \in X /\ Z \ {e} \in SUBSET X
        OBVIOUS
      <4>2. f[Z \ {e}] \in D
        <5> HIDE DEF op
        <5> QED BY <2>1, <2>4, <4>1
      <4> QED BY <4>1, <4>2
    <3> HIDE DEF op
    <3>2. f = [Z \in SUBSET X |-> IF Z = {} THEN s
                  ELSE LET e == CHOOSE e \in Z : TRUE IN op[e][f[Z \ {e}]]]
      BY <2>4 DEF FoldOf
    <3> DEFINE e(Z) == CHOOSE e \in Z : TRUE
    <3>3. ASSUME NEW Z \in SUBSET X
          PROVE  (IF Z = {} THEN s ELSE op[e(Z)][f[Z \ {e(Z)}]])
                   = (IF Z = {} THEN s ELSE RemoveOne(f[Z \ {e(Z)}], e(Z)))
      <4>1. CASE Z = {}
        BY <4>1
      <4>2. CASE Z # {}
        <5>1. e(Z) \in Z
          BY <4>2
        <5> HIDE DEF e
        <5> QED BY <3>1, <4>2, <5>1
      <4> QED BY <4>1, <4>2
    <3> QED BY <3>2, <3>3
  <2>6. IsFold(g)
    <3> HIDE DEF IsFold
    <3> QED BY <2>5
  <2> HIDE DEF g
  <2>7. g[{}] = s
    BY <2>6
  <2>8. Follows(g, X, D, op)
    <3> SUFFICES ASSUME NEW Z \in SUBSET X, Z # {}
                 PROVE  \E e \in Z : g[Z \ {e}] \in D => g[Z] = op[e][g[Z \ {e}]]
      BY DEF Follows
    <3> DEFINE e == CHOOSE y \in Z : TRUE
    <3>1. e \in Z /\ g[Z] = RemoveOne(g[Z \ {e}], e)
      BY <2>6
    <3> HIDE DEF e, op
    <3>2. g[Z \ {e}] \in D => g[Z] = op[e][g[Z \ {e}]]
      <4>1. e \in X
        BY <3>1
      <4> QED BY <3>1, <4>1 DEF op
    <3> QED BY <3>1, <3>2
  <2>9. g[X] \in J[X]
    <3> HIDE DEF op, IsFold
    <3>1. g[{}] \in J[{}]
      BY <2>2, <2>7
    <3> QED BY <1>2, <2>1, <2>3, <2>8, <3>1, Folding
  <2> QED BY <2>9 DEF J
<1> HIDE DEF g
<1> QED BY <1>1, <1>5

LEMMA RemoveCreatureIs ==
  ASSUME NEW s, NEW x, NEW U, NEW E, Live(s, x, U, E, NoOne), NEW c \in Being,
         NEW t, t = RemoveCreature(s, c)
  PROVE  Live(t, x, U, E, NoOne) /\ Less(s, t, {c} \cup s.summons[c]) /\ c \notin Placed(t)
<1>1. s \in CreState
  BY DEF Live, Books
<1>2. CASE c \notin Placed(s)
  <2>1. t = s
    BY <1>2 DEF RemoveCreature
  <2> QED BY <1>1, <1>2, <2>1, LessIs
<1>3. CASE c \in Placed(s)
  <2> DEFINE v == RemoveOne(s, c)
             R == {c} \cup s.summons[c]
  <2>1. t = RemoveSummons(v, c)
    BY <1>3 DEF RemoveCreature
  <2>2. Live(s, x, U, E, c)
    BY Kinds DEF Live, Ranks
  <2> HIDE DEF v
  <2>3. Live(v, x, U, E, c) /\ Parted(s, v, c)
    BY <2>2, RemoveOneIs DEF v
  <2>4. Live(t, x, U, E, c) /\ Less(v, t, v.summons[c]) /\ v.summons[c] \cap Placed(t) = {}
    BY <2>1, <2>3, RemoveSummonsIs
  <2>5. v.summons[c] \subseteq R
    BY <2>3 DEF Parted
  <2>6. c \in R
    OBVIOUS
  <2> HIDE DEF R
  <2>7. Less(s, v, R) /\ Less(v, t, R)
    BY <1>1, <2>3, <2>4, <2>5, <2>6, LessIs
  <2>8. Less(s, t, R)
    BY <2>7, LessThen
  <2>9. c \notin Placed(t)
    <3>1. v.stage[c] = "removed"
      BY <1>1, <1>3, <2>3 DEF Parted, CreState
    <3>2. c \notin Placed(v)
      BY <3>1 DEF Placed
    <3> QED BY <2>7, <3>2, LessIs
  <2>10. t.summons[c] \cap Placed(t) = {}
    BY <2>4 DEF Less
  <2>11. Ranks(t, NoOne)
    BY <2>4, <2>10 DEF Live, Ranks
  <2> QED BY <2>4, <2>8, <2>9, <2>11 DEF Live, R
<1> QED BY <1>2, <1>3

LEMMA DropSummonsIs ==
  ASSUME NEW s, NEW x, NEW U, NEW E, Live(s, x, U, E, NoOne), NEW far \in SUBSET Being,
         \A d \in far : s.summons[d] = {}, NEW t, t = DropSummons(s, far)
  PROVE  Live(t, x, U, E, NoOne) /\ Less(s, t, far)
<1> DEFINE X == far
           D == CreState
           op == [e1 \in X |-> [v1 \in D |-> RemoveCreature(v1, e1)]]
           IsFold(f) == f = [Z \in SUBSET X |-> IF Z = {} THEN s
                               ELSE LET e1 == CHOOSE e1 \in Z : TRUE IN RemoveCreature(f[Z \ {e1}], e1)]
           g == CHOOSE f : IsFold(f)
           Good(Z, u) == /\ Live(u, x, U, E, NoOne) /\ Less(s, u, far)
           J == [Z \in SUBSET X |-> {u \in D : Good(Z, u)}]
<1>1. t = g[X]
  BY DEF DropSummons, FoldSet, MapThenFoldSet
<1>2. IsFiniteSet(X) /\ X \subseteq Being
  BY Kinds, FS_Subset
<1>3. Good({}, s)
  BY LessIs DEF Live, Books
<1>4. ASSUME NEW Z \in SUBSET X, NEW e \in X, NEW u, Good(Z, u)
      PROVE  Good(Z \cup {e}, RemoveCreature(u, e))
  <2> DEFINE w == RemoveCreature(u, e)
  <2>1. e \in Being /\ u.summons[e] = {}
    BY <1>2, <1>4 DEF Less
  <2> HIDE DEF w
  <2>2. Live(w, x, U, E, NoOne) /\ Less(u, w, {e} \cup u.summons[e])
    BY <1>4, <2>1, RemoveCreatureIs DEF w
  <2>3. {e} \cup u.summons[e] \subseteq far
    BY <2>1
  <2>4. Less(u, w, far)
    BY <2>2, <2>3, LessIs
  <2>5. Less(s, w, far)
    BY <1>4, <2>4, LessThen
  <2> QED BY <2>2, <2>5 DEF w
<1>5. Good(X, g[X])
  <2> HIDE DEF X, Good
  <2>1. J \in [SUBSET X -> SUBSET D]
    OBVIOUS
  <2>2. s \in J[{}]
    <3>1. s \in D
      BY <1>3 DEF Good, Live, Books
    <3> QED BY <1>3, <3>1
  <2>3. Leads(X, J, op)
    <3> SUFFICES ASSUME NEW Z \in SUBSET X, NEW e \in X, e \notin Z, NEW y \in J[Z]
                 PROVE  op[e][y] \in J[Z \cup {e}]
      BY DEF Leads
    <3>1. y \in D /\ Good(Z, y) /\ op[e][y] = RemoveCreature(y, e) /\ Z \cup {e} \in SUBSET X
      OBVIOUS
    <3>2. Good(Z \cup {e}, op[e][y])
      BY <1>4, <3>1
    <3>3. op[e][y] \in D
      BY <3>2 DEF Good, Live, Books
    <3> HIDE DEF op
    <3> QED BY <3>1, <3>2, <3>3
  <2> HIDE DEF J
  <2>4. PICK f : FoldOf(f, X, s, op) /\ \A Z \in SUBSET X : f[Z] \in J[Z]
    <3> HIDE DEF op
    <3> QED BY <1>2, <2>1, <2>2, <2>3, FoldWithin
  <2>5. IsFold(f)
    <3>1. ASSUME NEW Z \in SUBSET X, NEW e \in Z
          PROVE  op[e][f[Z \ {e}]] = RemoveCreature(f[Z \ {e}], e)
      <4>1. e \in X /\ Z \ {e} \in SUBSET X
        OBVIOUS
      <4>2. f[Z \ {e}] \in D
        <5> HIDE DEF op
        <5> QED BY <2>1, <2>4, <4>1
      <4> QED BY <4>1, <4>2
    <3> HIDE DEF op
    <3>2. f = [Z \in SUBSET X |-> IF Z = {} THEN s
                  ELSE LET e == CHOOSE e \in Z : TRUE IN op[e][f[Z \ {e}]]]
      BY <2>4 DEF FoldOf
    <3> DEFINE e(Z) == CHOOSE e \in Z : TRUE
    <3>3. ASSUME NEW Z \in SUBSET X
          PROVE  (IF Z = {} THEN s ELSE op[e(Z)][f[Z \ {e(Z)}]])
                   = (IF Z = {} THEN s ELSE RemoveCreature(f[Z \ {e(Z)}], e(Z)))
      <4>1. CASE Z = {}
        BY <4>1
      <4>2. CASE Z # {}
        <5>1. e(Z) \in Z
          BY <4>2
        <5> HIDE DEF e
        <5> QED BY <3>1, <4>2, <5>1
      <4> QED BY <4>1, <4>2
    <3> QED BY <3>2, <3>3
  <2>6. IsFold(g)
    <3> HIDE DEF IsFold
    <3> QED BY <2>5
  <2> HIDE DEF g
  <2>7. g[{}] = s
    BY <2>6
  <2>8. Follows(g, X, D, op)
    <3> SUFFICES ASSUME NEW Z \in SUBSET X, Z # {}
                 PROVE  \E e \in Z : g[Z \ {e}] \in D => g[Z] = op[e][g[Z \ {e}]]
      BY DEF Follows
    <3> DEFINE e == CHOOSE y \in Z : TRUE
    <3>1. e \in Z /\ g[Z] = RemoveCreature(g[Z \ {e}], e)
      BY <2>6
    <3> HIDE DEF e, op
    <3>2. g[Z \ {e}] \in D => g[Z] = op[e][g[Z \ {e}]]
      <4>1. e \in X
        BY <3>1
      <4> QED BY <3>1, <4>1 DEF op
    <3> QED BY <3>1, <3>2
  <2>9. g[X] \in J[X]
    <3> HIDE DEF op, IsFold
    <3>1. g[{}] \in J[{}]
      BY <2>2, <2>7
    <3> QED BY <1>2, <2>1, <2>3, <2>8, <3>1, Folding
  <2> QED BY <2>9 DEF J
<1> HIDE DEF g
<1> QED BY <1>1, <1>5

-----------------------------------------------------------------------------
(* Placing a creature *)

\* The pairs with c that those in W have yet to notice.
Yet(c, W) == Near(c) \cap (W \X Being)

Settled(s) == Live(s, NoOne, {}, {}, NoOne)

LEMMA NoticesLess ==
  ASSUME NEW s, NEW E, NEW F, Noticing(s, E),
         \A m, p \in Being : <<m, p>> \in E /\ <<m, p>> \notin F =>
           ~(Wild(s, m) /\ p \in Placed(s) \cap Man /\ CanSee(s, m, p))
  PROVE  Noticing(s, F)
BY DEF Noticing

LEMMA LiveLess ==
  ASSUME NEW s, NEW x, NEW U, NEW E, NEW b, Live(s, x, U, E, b), NEW F,
         \A m, p \in Being : <<m, p>> \in E /\ <<m, p>> \notin F =>
           ~(Wild(s, m) /\ p \in Placed(s) \cap Man /\ CanSee(s, m, p))
  PROVE  Live(s, x, U, F, b)
BY NoticesLess DEF Live

LEMMA YetIs ==
  ASSUME NEW c \in Being, NEW W, NEW m \in Being, NEW p \in Being
  PROVE  <<m, p>> \in Yet(c, W) <=> m \in W /\ (m = c \/ p = c)
BY DEF Yet, Near

\* Only lists and checks have changed.
Sensed(s, t) == t \in CreState /\ SameWorld(s, t) /\ SameBonds(s, t) /\ SameAims(s, t)

LEMMA SensedThen ==
  ASSUME NEW s, NEW t, NEW u, Sensed(s, t), Sensed(t, u)
  PROVE  Sensed(s, u)
BY DEF Sensed, SameWorld, SameBonds, SameAims

LEMMA SensedIs ==
  ASSUME NEW s, NEW t
  PROVE  /\ s \in CreState => Sensed(s, s)
         /\ \A m : Sensing(s, t, m) => Sensed(s, t)
         /\ Sensed(s, t) => /\ Placed(t) = Placed(s) /\ Present(t) = Present(s) /\ t.at = s.at
                            /\ \A m, p : CanSee(t, m, p) <=> CanSee(s, m, p)
                            /\ \A m : Wild(t, m) <=> Wild(s, m)
<1>1. s \in CreState => Sensed(s, s)
  BY DEF Sensed, SameWorld, SameBonds, SameAims
<1>2. \A m : Sensing(s, t, m) => Sensed(s, t)
  BY DEF Sensed, Sensing
<1>3. ASSUME Sensed(s, t)
      PROVE  /\ Placed(t) = Placed(s) /\ Present(t) = Present(s) /\ t.at = s.at
             /\ \A m, p : CanSee(t, m, p) <=> CanSee(s, m, p)
             /\ \A m : Wild(t, m) <=> Wild(s, m)
  BY <1>3 DEF Sensed, SameWorld, SameBonds, Placed, Present, CanSee, Wild
<1> QED BY <1>1, <1>2, <1>3

\* c comes to the spot, where nobody has noticed it yet.
Come(s, c, spot) == [s EXCEPT !.stage[c] = "placed", !.at[c] = spot]

LEMMA ComeIs ==
  ASSUME NEW s, Settled(s), NEW c \in Being, s.stage[c] = "none", NEW spot \in Place \cup {NoOne},
         NEW held, held = {c}, NEW t, t = Hold(Come(s, c, spot), held)
  PROVE  /\ Live(t, NoOne, {}, Yet(c, Spectators(t, spot)), NoOne)
         /\ t.stage = [s.stage EXCEPT ![c] = "placed"] /\ t.at = [s.at EXCEPT ![c] = spot]
         /\ t.alive = s.alive /\ t.deaths = s.deaths /\ SameBonds(s, t) /\ SameAims(s, t)
         /\ c \in Spectators(t, spot) /\ Placed(t) = Placed(s) \cup {c}
<1> DEFINE u == Come(s, c, spot)
           S == [s.stage EXCEPT ![c] = "placed"]
           A == [s.at EXCEPT ![c] = spot]
<1>1. /\ s \in CreState /\ s.stage \in [Being -> {"none", "placed", "removed", "freed"}]
      /\ s.at \in [Being -> Place \cup {NoOne}] /\ s.refs \in [Being -> Nat]
  BY DEF Settled, Live, Books, CreState
<1>2. S \in [Being -> {"none", "placed", "removed", "freed"}] /\ A \in [Being -> Place \cup {NoOne}]
  BY <1>1
<1>3. u = [s EXCEPT !.stage = S, !.at = A]
  BY <1>1 DEF Come, CreState
<1> HIDE DEF S, A, u
<1>4. u \in CreState /\ u.stage = S /\ u.at = A
  BY <1>1, <1>2, <1>3 DEF CreState
<1>5. /\ u.alive = s.alive /\ u.deaths = s.deaths /\ u.releases = s.releases /\ u.refs = s.refs
      /\ SameBonds(s, u) /\ SameAims(s, u) /\ SameLists(s, u) /\ SameChecks(s, u)
  BY <1>1, <1>3 DEF CreState, SameBonds, SameAims, SameLists, SameChecks
<1>6. /\ t \in CreState /\ SameWorld(u, t) /\ SameBonds(u, t) /\ SameAims(u, t)
      /\ SameLists(u, t) /\ SameChecks(u, t)
      /\ \A y \in Being : t.refs[y] = u.refs[y] + Mark(y, held)
  BY <1>4, HoldIs DEF u
<1>7. /\ t.stage = S /\ t.at = A /\ t.alive = s.alive /\ t.deaths = s.deaths /\ t.releases = s.releases
      /\ t.master = s.master /\ t.summons = s.summons /\ t.attacked = s.attacked /\ t.follow = s.follow
      /\ t.targets = s.targets /\ t.friends = s.friends /\ t.listed = s.listed /\ t.check = s.check
      /\ \A y \in Being : t.refs[y] = s.refs[y] + Mark(y, held)
  BY <1>4, <1>5, <1>6 DEF SameWorld, SameBonds, SameAims, SameLists, SameChecks
<1>8. /\ Placed(t) = Placed(s) \cup {c} /\ c \notin Placed(s)
      /\ Present(t) = Present(s) \cup {c} /\ c \notin Present(s)
  BY <1>1, <1>7 DEF Placed, Present, S
<1>9. A[c] = spot /\ \A y \in Being \ {c} : A[y] = s.at[y]
  BY <1>1 DEF A
<1>10. c \in Spectators(t, spot)
  BY <1>7, <1>8, <1>9 DEF Spectators
<1>11. Books(s) /\ Ranks(s, NoOne) /\ Aimed(s, NoOne, {}) /\ Noticing(s, {})
  BY DEF Settled, Live
<1>12. Books(t)
  <2>1. ASSUME NEW y \in Being PROVE t.refs[y] = CountOf(t, y)
    <3> DEFINE T == Tally(s.targets, y)
               G == Tally(s.friends, y)
               H == Tally(s.summons, y)
               P == Mark(y, Placed(s))
               Q == Mark(y, Placed(t))
               L == Mark(y, s.listed)
               R == s.releases[y]
               K == Mark(y, held)
    <3>1. T \in Nat /\ G \in Nat /\ H \in Nat /\ P \in {0, 1} /\ L \in {0, 1} /\ R \in Nat
          /\ CountOf(s, y) = T + G + H + P + L + R
      BY <1>1, CountIs DEF CountOf
    <3>2. CountOf(t, y) = T + G + H + Q + L + R
      BY <1>7 DEF CountOf
    <3>3. Q = P + K /\ K \in {0, 1}
      BY <1>8 DEF Mark
    <3>4. s.refs[y] = CountOf(s, y) /\ t.refs[y] = s.refs[y] + K
      BY <1>7, <1>11 DEF Books
    <3> HIDE DEF T, G, H, P, Q, L, R, K
    <3> QED BY <3>1, <3>2, <3>3, <3>4
  <2>2. ASSUME NEW y \in Being, y \notin Present(t) PROVE t.refs[y] = 0
    <3>1. s.refs[y] = 0 /\ Mark(y, held) = 0
      BY <1>8, <1>11, <2>2 DEF Books, Mark
    <3> QED BY <1>7, <3>1
  <2> QED BY <1>6, <2>1, <2>2 DEF Books
<1>13. s.attacked[c] = NoOne /\ s.follow[c] = NoOne /\ s.master[c] = NoOne /\ s.summons[c] = {}
  BY <1>8, <1>11 DEF Ranks
<1>14. \A d \in Being : c \notin s.summons[d]
  BY <1>11, <1>13, Kinds DEF Ranks
<1>15. Ranks(t, NoOne)
  <2>1. \A y \in Being : t.stage[y] = "none" => s.stage[y] = "none"
    BY <1>1, <1>7 DEF S
  <2>2. ASSUME NEW y \in Being \ {NoOne}, t.stage[y] = "removed" PROVE t.summons[y] \cap Placed(t) = {}
    <3>1. s.stage[y] = "removed"
      BY <1>1, <1>7, <2>2 DEF S
    <3> QED BY <1>7, <1>8, <1>11, <1>14, <3>1 DEF Ranks
  <2>0. /\ t.master = s.master /\ t.summons = s.summons /\ t.attacked = s.attacked
        /\ t.follow = s.follow /\ t.alive = s.alive /\ t.deaths = s.deaths
    BY <1>7
  <2>9. Ranks(s, NoOne)
    BY <1>11
  <2>3. ASSUME NEW y \in Being, t.stage[y] = "none"
        PROVE  t.attacked[y] = NoOne /\ t.follow[y] = NoOne /\ t.master[y] = NoOne
    <3>1. s.stage[y] = "none"
      BY <2>1, <2>3
    <3>2. s.attacked[y] = NoOne /\ s.follow[y] = NoOne /\ s.master[y] = NoOne
      BY <2>9, <3>1 DEF Ranks
    <3> QED BY <2>0, <3>2
  <2>4. \A y \in Being \ Present(t) : t.summons[y] = {}
    BY <1>7, <1>8, <1>11 DEF Ranks
  <2>5. \A y, d \in Being : t.master[y] = d <=> y \in t.summons[d]
    <3>1. \A y, d \in Being : s.master[y] = d <=> y \in s.summons[d]
      BY <2>9 DEF Ranks
    <3> QED BY <2>0, <3>1
  <2>6. \A y \in Man : t.master[y] = NoOne
    BY <2>0, <2>9 DEF Ranks
  <2>7. \A y \in Being : t.master[y] # NoOne => t.summons[y] = {}
    BY <2>0, <2>9 DEF Ranks
  <2>8. t.alive \cap t.deaths = {}
    BY <2>0, <2>9 DEF Ranks
  <2> QED BY <2>2, <2>3, <2>4, <2>5, <2>6, <2>7, <2>8 DEF Ranks
<1>16. Aimed(t, NoOne, {})
  <2> SUFFICES ASSUME NEW m \in Placed(t)
               PROVE  /\ t.attacked[m] # NoOne => InSight(t, m, t.attacked[m], NoOne, {})
                      /\ t.follow[m] # NoOne => InSight(t, m, t.follow[m], NoOne, {})
    BY DEF Aimed
  <2>1. CASE m = c
    BY <1>7, <1>13, <2>1
  <2>2. CASE m # c
    <3>1. m \in Placed(s) /\ m \in Being
      BY <1>8, <2>2, PlacedIs
    <3>2. ASSUME NEW d, InSight(s, m, d, NoOne, {}) PROVE InSight(t, m, d, NoOne, {})
      <4>1. d \in Placed(s) /\ CanSee(s, m, d) /\ d \in Being /\ d # c
        BY <1>8, <3>2, PlacedIs DEF InSight
      <4>2. CanSee(t, m, d)
        BY <1>7, <1>9, <2>2, <3>1, <4>1 DEF CanSee
      <4> QED BY <1>8, <4>1, <4>2 DEF InSight
    <3> QED BY <1>7, <1>11, <3>1, <3>2 DEF Aimed
  <2> QED BY <2>1, <2>2
<1>17. Noticing(t, Yet(c, Spectators(t, spot)))
  <2> SUFFICES ASSUME NEW m \in Being, NEW p \in Being, Wild(t, m), p \in Placed(t) \cap Man,
                      CanSee(t, m, p), <<m, p>> \notin Yet(c, Spectators(t, spot))
               PROVE  p \in t.targets[m] /\ m \in t.check
    BY DEF Noticing
  <2>1. m # c
    BY <1>10, YetIs
  <2>2. p # c
    <3> SUFFICES ASSUME p = c PROVE FALSE
      OBVIOUS
    <3>1. m \in Spectators(t, spot)
      BY <1>7, <1>9 DEF CanSee, Wild, Spectators
    <3> QED BY <3>1, YetIs
  <2>3. Wild(s, m) /\ p \in Placed(s) \cap Man /\ CanSee(s, m, p)
    BY <1>7, <1>8, <1>9, <2>1, <2>2 DEF Wild, CanSee
  <2> QED BY <1>7, <1>11, <2>3 DEF Noticing
<1> QED BY <1>7, <1>8, <1>10, <1>12, <1>15, <1>16, <1>17 DEF Live, SameBonds, SameAims, S, A

LEMMA OnCreatureAppearIs ==
  ASSUME NEW s, NEW x, NEW U, NEW b, NEW c \in Placed(s), NEW W, Live(s, x, U, Yet(c, W), b),
         NEW m \in Being, NEW t, t = OnCreatureAppear(s, m, c)
  PROVE  Live(t, x, U, Yet(c, W \ {m}), b) /\ Sensed(s, t)
<1>0. s \in CreState /\ c \in Being
  BY PlacedIs DEF Live, Books
<1> DEFINE E == Yet(c, W)
           F == Yet(c, W \ {m})
<1>1. \A y, p \in Being : /\ <<y, p>> \in E <=> y \in W /\ (y = c \/ p = c)
                          /\ <<y, p>> \in F <=> y \in W /\ y # m /\ (y = c \/ p = c)
  <2> SUFFICES ASSUME NEW y \in Being, NEW p \in Being
               PROVE  /\ <<y, p>> \in E <=> y \in W /\ (y = c \/ p = c)
                      /\ <<y, p>> \in F <=> y \in W /\ y # m /\ (y = c \/ p = c)
    OBVIOUS
  <2>1. <<y, p>> \in E <=> y \in W /\ (y = c \/ p = c)
    BY <1>0, YetIs
  <2> DEFINE V == W \ {m}
  <2>2. <<y, p>> \in Yet(c, V) <=> y \in V /\ (y = c \/ p = c)
    <3> HIDE DEF V
    <3> QED BY <1>0, YetIs
  <2> HIDE DEF E
  <2> QED BY <2>1, <2>2
<1> HIDE DEF E, F
<1>2. Live(s, x, U, E, b)
  BY DEF E
<1>3. CASE m \notin Beast
  <2>1. t = s
    BY <1>3 DEF OnCreatureAppear
  <2>2. Live(t, x, U, F, b)
    BY <1>1, <1>2, <1>3, <2>1, LiveLess DEF Wild
  <2> QED BY <1>0, <2>1, <2>2, SensedIs DEF F
<1>4. CASE m \in Beast /\ m = c
  <2> DEFINE u == UpdateTargetList(s, m)
  <2>1. t = UpdateIdleStatus(u, m)
    BY <1>4 DEF OnCreatureAppear
  <2> HIDE DEF u
  <2>2. Live(u, x, U, E \ ({m} \X Being), b) /\ Sensing(s, u, m)
    BY <1>2, LiveListed DEF u
  <2>3. Live(t, x, U, E \ ({m} \X Being), b) /\ Sensing(u, t, m)
    BY <2>1, <2>2, LiveIdle
  <2> DEFINE G == E \ ({m} \X Being)
  <2>4. \A y, p \in Being : <<y, p>> \in G => <<y, p>> \in F
    BY <1>1
  <2>5. Live(t, x, U, G, b)
    BY <2>3
  <2> HIDE DEF G
  <2>6. Live(t, x, U, F, b)
    BY <2>4, <2>5, LiveLess
  <2> QED BY <2>2, <2>3, <2>6, SensedIs, SensedThen DEF F
<1>5. CASE m \in Beast /\ m # c
  <2>1. t = OnCreatureFound(s, m, c)
    BY <1>5 DEF OnCreatureAppear
  <2> DEFINE G == E \ {<<m, c>>}
  <2>2. Live(t, x, U, G, b) /\ Sensing(s, t, m)
    BY <1>2, <2>1, LiveFound
  <2>3. \A y, p \in Being : <<y, p>> \in G => <<y, p>> \in F
    BY <1>1, <1>5
  <2> HIDE DEF G
  <2>4. Live(t, x, U, F, b)
    BY <2>2, <2>3, LiveLess
  <2> QED BY <2>2, <2>4, SensedIs DEF F
<1> QED BY <1>3, <1>4, <1>5

Appearing(s, c, spot) ==
  FoldSet(LAMBDA m, v : OnCreatureAppear(v, m, c), s, Spectators(s, spot))

LEMMA AppearingIs ==
  ASSUME NEW s, NEW x, NEW U, NEW b, NEW c \in Placed(s), NEW spot,
         Live(s, x, U, Yet(c, Spectators(s, spot)), b), NEW t, t = Appearing(s, c, spot)
  PROVE  Live(t, x, U, {}, b) /\ Sensed(s, t)
<1> DEFINE X == Spectators(s, spot)
           D == CreState
           op == [e1 \in X |-> [v1 \in D |-> OnCreatureAppear(v1, e1, c)]]
           IsFold(f) == f = [Z \in SUBSET X |-> IF Z = {} THEN s
                               ELSE LET e1 == CHOOSE e1 \in Z : TRUE IN OnCreatureAppear(f[Z \ {e1}], e1, c)]
           g == CHOOSE f : IsFold(f)
           Good(Z, u) == Live(u, x, U, Yet(c, X \ Z), b) /\ Sensed(s, u)
           J == [Z \in SUBSET X |-> {u \in D : Good(Z, u)}]
<1>1. t = g[X]
  BY DEF Appearing, FoldSet, MapThenFoldSet
<1>2. IsFiniteSet(X) /\ X \subseteq Being
  <2>1. X \subseteq Being
    BY PlacedIs
  <2> QED BY <2>1, Kinds, FS_Subset
<1>3. Good({}, s)
  <2>1. s \in CreState /\ X \ {} = X
    BY DEF Live, Books
  <2>2. Live(s, x, U, Yet(c, X \ {}), b)
    BY <2>1
  <2> HIDE DEF X
  <2> QED BY <2>1, <2>2, SensedIs
<1>4. ASSUME NEW Z \in SUBSET X, NEW e \in X, NEW u, Good(Z, u)
      PROVE  Good(Z \cup {e}, OnCreatureAppear(u, e, c))
  <2> DEFINE w == OnCreatureAppear(u, e, c)
             V == X \ Z
             V2 == X \ (Z \cup {e})
  <2>1. e \in Being /\ V2 = V \ {e}
    BY <1>2
  <2> HIDE DEF X
  <2>2. Live(u, x, U, Yet(c, V), b) /\ Sensed(s, u)
    BY <1>4
  <2> HIDE DEF w, V, V2
  <2>3. c \in Placed(u)
    BY <2>2, SensedIs
  <2>4. Live(w, x, U, Yet(c, V \ {e}), b) /\ Sensed(u, w)
    BY <2>1, <2>2, <2>3, OnCreatureAppearIs DEF w
  <2>5. Sensed(s, w)
    BY <2>2, <2>4, SensedThen
  <2> QED BY <2>1, <2>4, <2>5 DEF w, V2
<1>5. Good(X, g[X])
  <2> HIDE DEF X, Good
  <2>1. J \in [SUBSET X -> SUBSET D]
    OBVIOUS
  <2>2. s \in J[{}]
    <3>1. s \in D
      BY <1>3 DEF Good, Live, Books
    <3> QED BY <1>3, <3>1
  <2>3. Leads(X, J, op)
    <3> SUFFICES ASSUME NEW Z \in SUBSET X, NEW e \in X, e \notin Z, NEW y \in J[Z]
                 PROVE  op[e][y] \in J[Z \cup {e}]
      BY DEF Leads
    <3>1. y \in D /\ Good(Z, y) /\ op[e][y] = OnCreatureAppear(y, e, c) /\ Z \cup {e} \in SUBSET X
      OBVIOUS
    <3>2. Good(Z \cup {e}, op[e][y])
      BY <1>4, <3>1
    <3>3. op[e][y] \in D
      BY <3>2 DEF Good, Live, Books
    <3> HIDE DEF op
    <3> QED BY <3>1, <3>2, <3>3
  <2> HIDE DEF J
  <2>4. PICK f : FoldOf(f, X, s, op) /\ \A Z \in SUBSET X : f[Z] \in J[Z]
    <3> HIDE DEF op
    <3> QED BY <1>2, <2>1, <2>2, <2>3, FoldWithin
  <2>5. IsFold(f)
    <3>1. ASSUME NEW Z \in SUBSET X, NEW e \in Z
          PROVE  op[e][f[Z \ {e}]] = OnCreatureAppear(f[Z \ {e}], e, c)
      <4>1. e \in X /\ Z \ {e} \in SUBSET X
        OBVIOUS
      <4>2. f[Z \ {e}] \in D
        <5> HIDE DEF op
        <5> QED BY <2>1, <2>4, <4>1
      <4> QED BY <4>1, <4>2
    <3> HIDE DEF op
    <3>2. f = [Z \in SUBSET X |-> IF Z = {} THEN s
                  ELSE LET e == CHOOSE e \in Z : TRUE IN op[e][f[Z \ {e}]]]
      BY <2>4 DEF FoldOf
    <3> DEFINE e(Z) == CHOOSE e \in Z : TRUE
    <3>3. ASSUME NEW Z \in SUBSET X
          PROVE  (IF Z = {} THEN s ELSE op[e(Z)][f[Z \ {e(Z)}]])
                   = (IF Z = {} THEN s ELSE OnCreatureAppear(f[Z \ {e(Z)}], e(Z), c))
      <4>1. CASE Z = {}
        BY <4>1
      <4>2. CASE Z # {}
        <5>1. e(Z) \in Z
          BY <4>2
        <5> HIDE DEF e
        <5> QED BY <3>1, <4>2, <5>1
      <4> QED BY <4>1, <4>2
    <3> QED BY <3>2, <3>3
  <2>6. IsFold(g)
    <3> HIDE DEF IsFold
    <3> QED BY <2>5
  <2> HIDE DEF g
  <2>7. g[{}] = s
    BY <2>6
  <2>8. Follows(g, X, D, op)
    <3> SUFFICES ASSUME NEW Z \in SUBSET X, Z # {}
                 PROVE  \E e \in Z : g[Z \ {e}] \in D => g[Z] = op[e][g[Z \ {e}]]
      BY DEF Follows
    <3> DEFINE e == CHOOSE y \in Z : TRUE
    <3>1. e \in Z /\ g[Z] = OnCreatureAppear(g[Z \ {e}], e, c)
      BY <2>6
    <3> HIDE DEF e, op
    <3>2. g[Z \ {e}] \in D => g[Z] = op[e][g[Z \ {e}]]
      <4>1. e \in X
        BY <3>1
      <4> QED BY <3>1, <4>1 DEF op
    <3> QED BY <3>1, <3>2
  <2>9. g[X] \in J[X]
    <3> HIDE DEF op, IsFold
    <3>1. g[{}] \in J[{}]
      BY <2>2, <2>7
    <3> QED BY <1>2, <2>1, <2>3, <2>8, <3>1, Folding
  <2> QED BY <2>9 DEF J
<1> HIDE DEF g
<1>6. Yet(c, X \ X) = {}
  BY DEF Yet
<1> HIDE DEF X
<1> QED BY <1>1, <1>5, <1>6

LEMMA PlaceCreatureIs ==
  ASSUME NEW s, Settled(s), NEW c \in Being, s.stage[c] = "none", NEW spot \in Place \cup {NoOne},
         NEW t, t = PlaceCreature(s, c, spot)
  PROVE  /\ Settled(t) /\ t.stage = [s.stage EXCEPT ![c] = "placed"] /\ Placed(t) = Placed(s) \cup {c}
         /\ SameBonds(s, t) /\ t.alive = s.alive /\ t.at = [s.at EXCEPT ![c] = spot]
<1> DEFINE held == {c}
           u == Hold(Come(s, c, spot), held)
           v == Appearing(u, c, spot)
<1>1. t = AddCreatureCheck(v, c)
  BY DEF PlaceCreature, Appearing, Come, FoldSet, MapThenFoldSet
<1> HIDE DEF u, v, held
<1>2. held = {c}
  BY DEF held
<1>3. /\ Live(u, NoOne, {}, Yet(c, Spectators(u, spot)), NoOne)
      /\ u.stage = [s.stage EXCEPT ![c] = "placed"] /\ u.at = [s.at EXCEPT ![c] = spot]
      /\ u.alive = s.alive /\ u.deaths = s.deaths /\ SameBonds(s, u) /\ SameAims(s, u)
      /\ c \in Spectators(u, spot) /\ Placed(u) = Placed(s) \cup {c}
  BY <1>2, ComeIs DEF u
<1>4. Live(v, NoOne, {}, {}, NoOne) /\ Sensed(u, v)
  BY <1>3, AppearingIs DEF v
<1>5. c \in Present(v)
  BY <1>3, <1>4, SensedIs, PlacedIs
<1>6. Books(t) /\ Sensing(v, t, c) /\ SameLists(v, t) /\ t.check = v.check \cup {c}
  BY <1>1, <1>4, <1>5, AddCreatureCheckIs DEF Live
<1>7. Noticing(t, {})
  <2>1. Noticing(v, {})
    BY <1>4 DEF Live
  <2>2. \A m, p \in Being : Wild(t, m) /\ p \in Placed(t) \cap Man /\ CanSee(t, m, p)
                              => p \in t.targets[m] /\ m \in t.check
    BY <1>6, <2>1, SensingKeeps DEF Noticing, SameLists
  <2> QED BY <2>2 DEF Noticing
<1>8. Settled(t)
  BY <1>4, <1>6, <1>7, LiveSensed DEF Settled
<1>9. Sensed(u, t)
  BY <1>4, <1>6, SensedIs, SensedThen
<1> QED BY <1>3, <1>8, <1>9, SensedIs DEF Sensed, SameWorld, SameBonds

-----------------------------------------------------------------------------
(* Moving a creature *)

Step(s, c, spot) == [s EXCEPT !.at[c] = spot]

\* Whoever may be surprised by c's step is at its old spot or its new one.
LEMMA StepIs ==
  ASSUME NEW s, Settled(s), NEW c \in Placed(s), NEW spot \in Place, NEW t, t = Step(s, c, spot),
         NEW X, X = Spectators(s, s.at[c]) \cup Spectators(t, spot)
  PROVE  /\ Live(t, c, X, Yet(c, X), NoOne) /\ Placed(t) = Placed(s) /\ t.summons = s.summons
         /\ X \subseteq Placed(s) /\ t.alive = s.alive
<1> DEFINE A == [s.at EXCEPT ![c] = spot]
<1>1. s \in CreState /\ s.at \in [Being -> Place \cup {NoOne}] /\ c \in Being
  BY PlacedIs DEF Settled, Live, Books, CreState
<1>2. A \in [Being -> Place \cup {NoOne}] /\ A[c] = spot /\ \A y \in Being \ {c} : A[y] = s.at[y]
  BY <1>1
<1>3. t = [s EXCEPT !.at = A]
  BY <1>1 DEF Step, CreState
<1> HIDE DEF A
<1>4. t \in CreState /\ t.at = A
  BY <1>1, <1>2, <1>3 DEF CreState
<1>5. /\ t.stage = s.stage /\ t.alive = s.alive /\ t.deaths = s.deaths /\ t.releases = s.releases
      /\ t.refs = s.refs /\ t.master = s.master /\ t.summons = s.summons
      /\ t.attacked = s.attacked /\ t.follow = s.follow /\ t.targets = s.targets
      /\ t.friends = s.friends /\ t.listed = s.listed /\ t.check = s.check
  BY <1>1, <1>3 DEF CreState
<1>6. Placed(t) = Placed(s) /\ Present(t) = Present(s)
  BY <1>5 DEF Placed, Present
<1>7. Books(s) /\ Ranks(s, NoOne) /\ Aimed(s, NoOne, {}) /\ Noticing(s, {})
  BY DEF Settled, Live
<1>8. Books(t)
  <2>1. \A y \in Being : CountOf(t, y) = CountOf(s, y)
    BY <1>5, <1>6 DEF CountOf
  <2> QED BY <1>4, <1>5, <1>6, <1>7, <2>1 DEF Books
<1>9. Ranks(t, NoOne)
  BY <1>5, <1>6, <1>7 DEF Ranks
<1>10. c \in X /\ X \subseteq Placed(s)
  BY <1>1, <1>6 DEF Spectators
<1>11. Aimed(t, c, X)
  <2>1. ASSUME NEW m \in Placed(t), NEW d, InSight(s, m, d, NoOne, {})
        PROVE  InSight(t, m, d, c, X)
    <3>1. d \in Placed(s) /\ CanSee(s, m, d) /\ d \in Being /\ m \in Being /\ m \in Placed(s)
      BY <1>6, <2>1, PlacedIs DEF InSight
    <3>2. CASE d = c
      <4>1. m \in X
        BY <3>1, <3>2 DEF Spectators, CanSee
      <4> QED BY <3>2, <4>1 DEF InSight
    <3>3. CASE m = c
      <4>1. CanSee(t, m, d) \/ ~CanSee(t, m, d)
        OBVIOUS
      <4> QED BY <1>6, <1>10, <3>1, <3>3, <4>1 DEF InSight
    <3>4. CASE m # c /\ d # c
      <4>1. CanSee(t, m, d)
        BY <1>2, <1>4, <3>1, <3>4 DEF CanSee
      <4> QED BY <1>6, <3>1, <4>1 DEF InSight
    <3> QED BY <3>2, <3>3, <3>4
  <2>2. ASSUME NEW m \in Placed(t)
        PROVE  /\ t.attacked[m] # NoOne => InSight(t, m, t.attacked[m], c, X)
               /\ t.follow[m] # NoOne => InSight(t, m, t.follow[m], c, X)
    <3>1. /\ s.attacked[m] # NoOne => InSight(s, m, s.attacked[m], NoOne, {})
          /\ s.follow[m] # NoOne => InSight(s, m, s.follow[m], NoOne, {})
      BY <1>6, <1>7, <2>2 DEF Aimed
    <3> QED BY <1>5, <2>1, <2>2, <3>1
  <2> QED BY <2>2 DEF Aimed
<1>12. Noticing(t, Yet(c, X))
  <2> SUFFICES ASSUME NEW m \in Being, NEW p \in Being, Wild(t, m), p \in Placed(t) \cap Man,
                      CanSee(t, m, p), <<m, p>> \notin Yet(c, X)
               PROVE  p \in t.targets[m] /\ m \in t.check
    BY DEF Noticing
  <2>0. ~(m \in X /\ (m = c \/ p = c))
    BY <1>1, YetIs
  <2>1. m # c
    BY <1>10, <2>0
  <2>2. p # c
    <3> SUFFICES ASSUME p = c PROVE FALSE
      OBVIOUS
    <3>1. m \in Spectators(t, spot)
      BY <1>2, <1>4 DEF CanSee, Wild, Spectators
    <3> QED BY <2>0, <3>1
  <2>3. Wild(s, m) /\ p \in Placed(s) \cap Man /\ CanSee(s, m, p)
    BY <1>2, <1>4, <1>5, <1>6, <2>1, <2>2 DEF Wild, CanSee
  <2> QED BY <1>5, <1>7, <2>3 DEF Noticing
<1> QED BY <1>5, <1>6, <1>8, <1>9, <1>10, <1>11, <1>12 DEF Live

\* m has looked where c went, and at what it lost by it.
LEMMA LoseSightIs ==
  ASSUME NEW s, NEW c \in Placed(s), NEW W, NEW E, NEW b, Live(s, c, W, E, b), NEW m \in Being,
         NEW t, t = LoseSight(s, m, c)
  PROVE  Live(t, c, W \ {m}, E, b) /\ Aiming(s, t, NoOne)
<1> DEFINE u == LosePrey(s, m, c)
<1>1. t = LoseFoe(u, m, c)
  BY DEF LoseSight
<1>2. s \in CreState /\ Books(s) /\ NoOne \notin Being
  BY Kinds DEF Live, Books
<1>3. Aiming(s, u, NoOne) /\ ~Lost(u, m, c, u.follow[m]) /\ Live(u, c, W, E, b)
  <2>1. CASE Lost(s, m, c, s.follow[m])
    <3> DEFINE d == s.follow[m]
    <3>1. u = OnCreatureDisappear(s, m, d) /\ d # NoOne
      BY <2>1 DEF LosePrey, Lost
    <3>2. Aiming(s, u, NoOne) /\ u.follow[m] # d
      <4> HIDE DEF u, d
      <4> QED BY <1>2, <3>1, OnCreatureDisappearIs
    <3> HIDE DEF u
    <3>3. u.follow[m] = NoOne
      BY <1>2, <3>2 DEF Aiming, TurnsOn
    <3> QED BY <1>2, <3>2, <3>3, LiveAimed DEF Lost
  <2>2. CASE ~Lost(s, m, c, s.follow[m])
    <3>1. u = s
      BY <2>2 DEF LosePrey
    <3> QED BY <1>2, <2>2, <3>1, AimingNot
  <2> QED BY <2>1, <2>2
<1> HIDE DEF u
<1>4. u \in CreState /\ Books(u)
  BY <1>3 DEF Live, Books
<1>5. Aiming(u, t, NoOne) /\ ~Lost(t, m, c, t.attacked[m])
  <2>1. CASE Lost(u, m, c, u.attacked[m])
    <3> DEFINE d == u.attacked[m]
    <3>1. t = OnCreatureDisappear(u, m, d) /\ d # NoOne
      BY <1>1, <2>1 DEF LoseFoe, Lost
    <3>2. Aiming(u, t, NoOne) /\ t.attacked[m] # d
      <4> HIDE DEF d
      <4> QED BY <1>4, <3>1, OnCreatureDisappearIs
    <3>3. t.attacked[m] = NoOne
      BY <1>2, <3>2 DEF Aiming, TurnsOn
    <3> QED BY <3>2, <3>3 DEF Lost
  <2>2. CASE ~Lost(u, m, c, u.attacked[m])
    <3>1. t = u
      BY <1>1, <2>2 DEF LoseFoe
    <3> QED BY <1>4, <2>2, <3>1, AimingNot
  <2> QED BY <2>1, <2>2
<1>6. Aiming(s, t, NoOne)
  BY <1>3, <1>5, AimingThen
<1>7. Live(t, c, W, E, b)
  BY <1>2, <1>3, <1>5, LiveAimed
<1>8. ~Lost(t, m, c, t.follow[m])
  <2>1. t.follow[m] \in {u.follow[m], NoOne}
    BY <1>2, <1>5 DEF Aiming, TurnsOn
  <2>2. CanSee(t, m, u.follow[m]) <=> CanSee(u, m, u.follow[m])
    BY <1>5, AimingKeeps
  <2> QED BY <1>3, <2>1, <2>2 DEF Lost
<1>9. c \in Placed(t)
  BY <1>6, AimingKeeps
<1>10. Aimed(t, c, W \ {m})
  <2> DEFINE V == W \ {m}
  <2>1. ASSUME NEW y \in Placed(t), NEW d, d # NoOne, InSight(t, y, d, c, W), y = m => ~Lost(t, m, c, d)
        PROVE  InSight(t, y, d, c, V)
    <3>1. CASE y = m
      BY <1>9, <2>1, <3>1 DEF InSight, Lost
    <3>2. CASE y # m
      <4>1. y = c /\ c \in W => c \in V
        BY <3>2
      <4> QED BY <2>1, <3>2, <4>1 DEF InSight
    <3> QED BY <3>1, <3>2
  <2> HIDE DEF V
  <2>2. ASSUME NEW y \in Placed(t)
        PROVE  /\ t.attacked[y] # NoOne => InSight(t, y, t.attacked[y], c, V)
               /\ t.follow[y] # NoOne => InSight(t, y, t.follow[y], c, V)
    <3>1. /\ t.attacked[y] # NoOne => InSight(t, y, t.attacked[y], c, W)
          /\ t.follow[y] # NoOne => InSight(t, y, t.follow[y], c, W)
      BY <1>7, <2>2 DEF Live, Aimed
    <3> QED BY <1>5, <1>8, <2>1, <3>1
  <2>3. Aimed(t, c, V)
    BY <2>2 DEF Aimed
  <2> QED BY <2>3 DEF V
<1> QED BY <1>6, <1>7, <1>10 DEF Live

\* A monster notices the step, its own or another's.
LEMMA MovedIs ==
  ASSUME NEW s, NEW c \in Placed(s), NEW U, NEW W, NEW b, Live(s, c, U, Yet(c, W), b),
         NEW m \in Present(s), NEW left, NEW t, t = Moved(s, m, c, left)
  PROVE  /\ Live(t, c, U, Yet(c, W \ {m}), b) /\ SameWorld(s, t) /\ SameBonds(s, t)
<1>0. s \in CreState /\ c \in Being /\ m \in Being
  BY PlacedIs DEF Live, Books
<1> DEFINE E == Yet(c, W)
           F == Yet(c, W \ {m})
<1>1. ASSUME NEW y \in Being, NEW p \in Being
      PROVE  /\ <<y, p>> \in E <=> y \in W /\ (y = c \/ p = c)
             /\ <<y, p>> \in F <=> y \in W /\ y # m /\ (y = c \/ p = c)
  <2>1. <<y, p>> \in E <=> y \in W /\ (y = c \/ p = c)
    BY <1>0, YetIs
  <2> DEFINE V == W \ {m}
  <2>2. <<y, p>> \in Yet(c, V) <=> y \in V /\ (y = c \/ p = c)
    <3> HIDE DEF V
    <3> QED BY <1>0, YetIs
  <2> HIDE DEF E
  <2> QED BY <2>1, <2>2
<1> HIDE DEF E, F
<1>2. Live(s, c, U, E, b)
  BY DEF E
<1>3. CASE m \notin Beast
  <2>1. t = s
    BY <1>3 DEF Moved
  <2>2. Live(t, c, U, F, b)
    BY <1>1, <1>2, <1>3, <2>1, LiveLess DEF Wild
  <2> QED BY <2>1, <2>2 DEF F, SameWorld, SameBonds
<1>4. CASE m \in Beast
  <2> DEFINE u == Noticed(s, m, c, left)
             v == UpdateIdleStatus(u, m)
  <2>1. t = Hunt(v, m, c)
    BY <1>4 DEF Moved
  <2> HIDE DEF v
  <2>2. Live(u, c, U, F, b) /\ Sensing(s, u, m)
    <3>1. CASE m = c
      <4>1. u = UpdateTargetList(s, m)
        BY <3>1 DEF Noticed
      <4> HIDE DEF u
      <4> DEFINE G == E \ ({m} \X Being)
      <4>2. Live(u, c, U, G, b) /\ Sensing(s, u, m)
        BY <1>0, <1>2, <4>1, LiveListed
      <4>3. \A y, p \in Being : <<y, p>> \in G => <<y, p>> \in F
        BY <1>1
      <4> HIDE DEF G
      <4> QED BY <4>2, <4>3, LiveLess
    <3>2. CASE m # c /\ CanSee(s, m, c)
      <4>1. u = OnCreatureFound(s, m, c)
        BY <3>2 DEF Noticed
      <4> HIDE DEF u
      <4> DEFINE G == E \ {<<m, c>>}
      <4>2. Live(u, c, U, G, b) /\ Sensing(s, u, m)
        BY <1>0, <1>2, <4>1, LiveFound
      <4>3. \A y, p \in Being : <<y, p>> \in G => <<y, p>> \in F
        BY <1>1, <3>2
      <4> HIDE DEF G
      <4> QED BY <4>2, <4>3, LiveLess
    <3>3. CASE m # c /\ ~CanSee(s, m, c)
      <4>1. Live(u, c, U, E, b) /\ Sensing(s, u, m)
        <5>1. CASE s.at[m] = left
          <6>1. u = OnCreatureLeave(s, m, c)
            BY <3>3, <5>1 DEF Noticed
          <6> QED BY <1>0, <1>2, <3>3, <6>1, LiveLeft
        <5>2. CASE s.at[m] # left
          <6>1. u = s
            BY <3>3, <5>2 DEF Noticed
          <6> QED BY <1>0, <1>2, <6>1, SensingNot
        <5> QED BY <5>1, <5>2
      <4> HIDE DEF u
      <4>2. ~CanSee(u, m, c)
        BY <3>3, <4>1, SensingKeeps
      <4>3. \A y, p \in Being : <<y, p>> \in E /\ <<y, p>> \notin F =>
              ~(Wild(u, y) /\ p \in Placed(u) \cap Man /\ CanSee(u, y, p))
        BY <1>1, <3>3, <4>2
      <4> QED BY <4>1, <4>3, LiveLess
    <3> QED BY <3>1, <3>2, <3>3
  <2> HIDE DEF u
  <2>3. Live(v, c, U, F, b) /\ Sensing(u, v, m)
    BY <1>0, <2>2, LiveIdle DEF v
  <2>4. Sensing(s, v, m)
    BY <2>2, <2>3, SensingThen
  <2>5. Live(t, c, U, F, b) /\ SameWorld(v, t) /\ SameBonds(v, t)
    <3>1. CASE t = SelectTarget(v, m, c)
      <4>1. m \in Present(v)
        BY <2>4, SensingKeeps
      <4> QED BY <1>0, <2>3, <3>1, <4>1, LiveSelected DEF Aiming
    <3>2. CASE t = v
      BY <2>3, <3>2 DEF SameWorld, SameBonds
    <3> QED BY <2>1, <3>1, <3>2 DEF Hunt
  <2> QED BY <2>4, <2>5 DEF Sensing, SameWorld, SameBonds, F
<1> QED BY <1>3, <1>4

LEMMA OnCreatureMoveIs ==
  ASSUME NEW s, NEW c \in Placed(s), NEW W, Live(s, c, W, Yet(c, W), NoOne), NEW m \in Present(s),
         NEW left, NEW far \in SUBSET Being, c \notin far, \A d \in far : s.summons[d] = {},
         NEW t, t = OnCreatureMove(s, m, c, left, far)
  PROVE  Live(t, c, W \ {m}, Yet(c, W \ {m}), NoOne) /\ Less(s, t, far)
<1> DEFINE u == IF m = c THEN DropSummons(s, far) ELSE s
           v == LoseSight(u, m, c)
           E == Yet(c, W)
<1>1. t = Moved(v, m, c, left)
  BY DEF OnCreatureMove
<1>2. s \in CreState /\ m \in Being
  BY PlacedIs DEF Live, Books
<1> HIDE DEF v, E
<1>3. Live(u, c, W, E, NoOne) /\ Less(s, u, far)
  <2>1. CASE m = c
    <3>1. u = DropSummons(s, far)
      BY <2>1
    <3> HIDE DEF u
    <3>2. Live(s, c, W, E, NoOne)
      BY DEF E
    <3> QED BY <3>1, <3>2, DropSummonsIs
  <2>2. CASE m # c
    BY <1>2, <2>2, LessIs DEF E
  <2> QED BY <2>1, <2>2
<1> HIDE DEF u
<1>4. c \in Placed(u) /\ Present(u) = Present(s)
  BY <1>3, LessIs
<1>5. Live(v, c, W \ {m}, E, NoOne) /\ Aiming(u, v, NoOne)
  BY <1>2, <1>3, <1>4, LoseSightIs DEF v
<1>6. c \in Placed(v) /\ m \in Present(v)
  BY <1>4, <1>5, AimingKeeps
<1>7. Live(t, c, W \ {m}, Yet(c, W \ {m}), NoOne) /\ SameWorld(v, t) /\ SameBonds(v, t)
  <2> DEFINE U == W \ {m}
  <2>1. Live(v, c, U, Yet(c, W), NoOne)
    BY <1>5 DEF E
  <2> HIDE DEF U
  <2>2. Live(t, c, U, Yet(c, W \ {m}), NoOne) /\ SameWorld(v, t) /\ SameBonds(v, t)
    BY <1>1, <1>6, <2>1, MovedIs
  <2> QED BY <2>2 DEF U
<1>8. Less(s, t, far)
  <2>1. t \in CreState
    BY <1>7 DEF Live, Books
  <2> QED BY <1>3, <1>5, <1>7, <2>1 DEF Less, Aiming, SameWorld, SameBonds
<1> QED BY <1>7, <1>8

Moving(s, c, left, far, X) ==
  FoldSet(LAMBDA m, u : OnCreatureMove(u, m, c, left, far), s, X)

LEMMA MovingIs ==
  ASSUME NEW s, NEW c \in Placed(s), NEW V \in SUBSET Placed(s), Live(s, c, V, Yet(c, V), NoOne),
         NEW left, NEW far \in SUBSET Being, c \notin far, \A d \in far : s.summons[d] = {},
         NEW t, t = Moving(s, c, left, far, V)
  PROVE  Live(t, c, {}, {}, NoOne)
<1> DEFINE X == V
           D == CreState
           op == [e1 \in X |-> [v1 \in D |-> OnCreatureMove(v1, e1, c, left, far)]]
           IsFold(f) == f = [Z \in SUBSET X |-> IF Z = {} THEN s
                               ELSE LET e1 == CHOOSE e1 \in Z : TRUE IN OnCreatureMove(f[Z \ {e1}], e1, c, left, far)]
           g == CHOOSE f : IsFold(f)
           Good(Z, u) == /\ Live(u, c, X \ Z, Yet(c, X \ Z), NoOne) /\ Less(s, u, far)
           J == [Z \in SUBSET X |-> {u \in D : Good(Z, u)}]
<1>1. t = g[X]
  BY DEF Moving, FoldSet, MapThenFoldSet
<1>2. IsFiniteSet(X) /\ X \subseteq Present(s)
  <2>1. X \subseteq Being /\ X \subseteq Present(s)
    BY PlacedIs
  <2> QED BY <2>1, Kinds, FS_Subset
<1>3. Good({}, s)
  <2>1. s \in CreState /\ X \ {} = X
    BY DEF Live, Books
  <2>2. Live(s, c, X \ {}, Yet(c, X \ {}), NoOne)
    BY <2>1
  <2> HIDE DEF X
  <2> QED BY <2>1, <2>2, LessIs
<1>4. ASSUME NEW Z \in SUBSET X, NEW e \in X, NEW u, Good(Z, u)
      PROVE  Good(Z \cup {e}, OnCreatureMove(u, e, c, left, far))
  <2> DEFINE w == OnCreatureMove(u, e, c, left, far)
             W == X \ Z
             W2 == X \ (Z \cup {e})
  <2>1. W2 = W \ {e} /\ e \in Present(s)
    BY <1>2
  <2> HIDE DEF X
  <2>2. Live(u, c, W, Yet(c, W), NoOne) /\ Less(s, u, far)
    BY <1>4
  <2> HIDE DEF w, W, W2
  <2>3. c \in Placed(u) /\ e \in Present(u)
    BY <2>1, <2>2, LessIs
  <2>4. \A d \in far : u.summons[d] = {}
    BY <2>2 DEF Less
  <2>5. Live(w, c, W \ {e}, Yet(c, W \ {e}), NoOne) /\ Less(u, w, far)
    BY <2>2, <2>3, <2>4, OnCreatureMoveIs DEF w
  <2>6. Less(s, w, far)
    BY <2>2, <2>5, LessThen
  <2> QED BY <2>1, <2>5, <2>6 DEF w, W2
<1>5. Good(X, g[X])
  <2> HIDE DEF X, Good
  <2>1. J \in [SUBSET X -> SUBSET D]
    OBVIOUS
  <2>2. s \in J[{}]
    <3>1. s \in D
      BY <1>3 DEF Good, Live, Books
    <3> QED BY <1>3, <3>1
  <2>3. Leads(X, J, op)
    <3> SUFFICES ASSUME NEW Z \in SUBSET X, NEW e \in X, e \notin Z, NEW y \in J[Z]
                 PROVE  op[e][y] \in J[Z \cup {e}]
      BY DEF Leads
    <3>1. y \in D /\ Good(Z, y) /\ op[e][y] = OnCreatureMove(y, e, c, left, far) /\ Z \cup {e} \in SUBSET X
      OBVIOUS
    <3>2. Good(Z \cup {e}, op[e][y])
      BY <1>4, <3>1
    <3>3. op[e][y] \in D
      BY <3>2 DEF Good, Live, Books
    <3> HIDE DEF op
    <3> QED BY <3>1, <3>2, <3>3
  <2> HIDE DEF J
  <2>4. PICK f : FoldOf(f, X, s, op) /\ \A Z \in SUBSET X : f[Z] \in J[Z]
    <3> HIDE DEF op
    <3> QED BY <1>2, <2>1, <2>2, <2>3, FoldWithin
  <2>5. IsFold(f)
    <3>1. ASSUME NEW Z \in SUBSET X, NEW e \in Z
          PROVE  op[e][f[Z \ {e}]] = OnCreatureMove(f[Z \ {e}], e, c, left, far)
      <4>1. e \in X /\ Z \ {e} \in SUBSET X
        OBVIOUS
      <4>2. f[Z \ {e}] \in D
        <5> HIDE DEF op
        <5> QED BY <2>1, <2>4, <4>1
      <4> QED BY <4>1, <4>2
    <3> HIDE DEF op
    <3>2. f = [Z \in SUBSET X |-> IF Z = {} THEN s
                  ELSE LET e == CHOOSE e \in Z : TRUE IN op[e][f[Z \ {e}]]]
      BY <2>4 DEF FoldOf
    <3> DEFINE e(Z) == CHOOSE e \in Z : TRUE
    <3>3. ASSUME NEW Z \in SUBSET X
          PROVE  (IF Z = {} THEN s ELSE op[e(Z)][f[Z \ {e(Z)}]])
                   = (IF Z = {} THEN s ELSE OnCreatureMove(f[Z \ {e(Z)}], e(Z), c, left, far))
      <4>1. CASE Z = {}
        BY <4>1
      <4>2. CASE Z # {}
        <5>1. e(Z) \in Z
          BY <4>2
        <5> HIDE DEF e
        <5> QED BY <3>1, <4>2, <5>1
      <4> QED BY <4>1, <4>2
    <3> QED BY <3>2, <3>3
  <2>6. IsFold(g)
    <3> HIDE DEF IsFold
    <3> QED BY <2>5
  <2> HIDE DEF g
  <2>7. g[{}] = s
    BY <2>6
  <2>8. Follows(g, X, D, op)
    <3> SUFFICES ASSUME NEW Z \in SUBSET X, Z # {}
                 PROVE  \E e \in Z : g[Z \ {e}] \in D => g[Z] = op[e][g[Z \ {e}]]
      BY DEF Follows
    <3> DEFINE e == CHOOSE y \in Z : TRUE
    <3>1. e \in Z /\ g[Z] = OnCreatureMove(g[Z \ {e}], e, c, left, far)
      BY <2>6
    <3> HIDE DEF e, op
    <3>2. g[Z \ {e}] \in D => g[Z] = op[e][g[Z \ {e}]]
      <4>1. e \in X
        BY <3>1
      <4> QED BY <3>1, <4>1 DEF op
    <3> QED BY <3>1, <3>2
  <2>9. g[X] \in J[X]
    <3> HIDE DEF op, IsFold
    <3>1. g[{}] \in J[{}]
      BY <2>2, <2>7
    <3> QED BY <1>2, <2>1, <2>3, <2>8, <3>1, Folding
  <2> QED BY <2>9 DEF J
<1> HIDE DEF g
<1>6. Yet(c, X \ X) = {} /\ X \ X = {}
  BY DEF Yet
<1> HIDE DEF X
<1> QED BY <1>1, <1>5, <1>6

LEMMA MoveCreatureIs ==
  ASSUME NEW s, Settled(s), NEW c \in Placed(s), NEW spot \in Place, NEW far \in SUBSET s.summons[c],
         NEW t, t = MoveCreature(s, c, spot, far)
  PROVE  Settled(t)
<1> DEFINE left == s.at[c]
           u == Step(s, c, spot)
           X == Spectators(s, left) \cup Spectators(u, spot)
<1>1. t = Moving(u, c, left, far, X)
  BY DEF MoveCreature, Moving, Step, FoldSet, MapThenFoldSet
<1>2. /\ Live(u, c, X, Yet(c, X), NoOne) /\ Placed(u) = Placed(s) /\ u.summons = s.summons
      /\ X \subseteq Placed(s)
  <2> HIDE DEF u
  <2>1. u = Step(s, c, spot)
    BY DEF u
  <2> QED BY <2>1, StepIs
<1>3. s \in CreState /\ Ranks(s, NoOne) /\ c \in Being
  BY PlacedIs DEF Settled, Live, Books
<1>4. far \in SUBSET Being /\ c \notin far /\ \A d \in far : s.summons[d] = {}
  <2>1. far \in SUBSET Being
    BY <1>3 DEF CreState
  <2>2. ASSUME NEW d \in far PROVE s.master[d] = c /\ s.summons[d] = {}
    <3>1. s.master[d] = c
      BY <1>3, <2>1 DEF Ranks
    <3> QED BY <1>3, <2>1, <3>1, Kinds DEF Ranks
  <2>3. c \notin far
    BY <2>2
  <2> QED BY <2>1, <2>2, <2>3
<1> HIDE DEF left, u, X
<1>5. Live(t, c, {}, {}, NoOne)
  BY <1>1, <1>2, <1>4, MovingIs
<1>6. Aimed(t, NoOne, {})
  BY <1>5 DEF Live, Aimed, InSight
<1> QED BY <1>5, <1>6 DEF Settled, Live

-----------------------------------------------------------------------------
(* Deleting those that nobody holds *)

\* Nobody holds c.
Loose(s, c) == /\ \A m \in Being : c \notin s.targets[m] /\ c \notin s.friends[m] /\ c \notin s.summons[m]
               /\ c \notin Placed(s) /\ c \notin s.listed /\ s.releases[c] = 0

LEMMA LooseIs ==
  ASSUME NEW s, Books(s), NEW c \in Being
  PROVE  s.refs[c] = 0 <=> Loose(s, c)
<1>1. s \in CreState /\ s.refs[c] = CountOf(s, c)
  BY DEF Books
<1> DEFINE T == Tally(s.targets, c)
           F == Tally(s.friends, c)
           S == Tally(s.summons, c)
           P == Mark(c, Placed(s))
           L == Mark(c, s.listed)
           R == s.releases[c]
           n == s.refs[c]
<1>2. T \in Nat /\ F \in Nat /\ S \in Nat /\ P \in {0, 1} /\ L \in {0, 1} /\ R \in Nat /\ n \in Nat
  BY <1>1, CountIs
<1>3. n = T + F + S + P + L + R
  BY <1>1 DEF CountOf
<1>4. /\ T = 0 <=> \A m \in Being : c \notin s.targets[m]
      /\ F = 0 <=> \A m \in Being : c \notin s.friends[m]
      /\ S = 0 <=> \A m \in Being : c \notin s.summons[m]
  BY TallyIs
<1>5. /\ P = 0 <=> c \notin Placed(s)
      /\ L = 0 <=> c \notin s.listed
  BY DEF Mark
<1>6. Loose(s, c) <=> T = 0 /\ F = 0 /\ S = 0 /\ P = 0 /\ L = 0 /\ R = 0
  BY <1>4, <1>5 DEF Loose
<1> HIDE DEF T, F, S, P, L, R, n
<1>7. n = 0 <=> T = 0 /\ F = 0 /\ S = 0 /\ P = 0 /\ L = 0 /\ R = 0
  BY <1>2, <1>3
<1> QED BY <1>6, <1>7 DEF n

\* c is nobody any more, and its summons have no master.
Erased(s, c, S) == [s EXCEPT !.stage[c] = "freed", !.summons[c] = {}, !.at[c] = NoOne,
                             !.attacked[c] = NoOne, !.follow[c] = NoOne, !.alive = @ \ {c},
                             !.check = @ \ {c},
                             !.master = [d \in Being |-> IF d \in S \cup {c} THEN NoOne ELSE @[d]]]

Orphaned(s, t, c, S) ==
  /\ \A d \in Being \ {c} : /\ t.summons[d] = s.summons[d] /\ t.at[d] = s.at[d]
                            /\ t.attacked[d] = s.attacked[d] /\ t.follow[d] = s.follow[d]
  /\ \A d \in Being : t.master[d] = IF d \in S \cup {c} THEN NoOne ELSE s.master[d]

LEMMA ErasedIs ==
  ASSUME NEW s \in CreState, NEW c \in Being, NEW S, NEW t, t = Erased(s, c, S)
  PROVE  /\ t \in CreState /\ t.refs = s.refs /\ t.listed = s.listed /\ t.deaths = s.deaths
         /\ t.releases = s.releases /\ SameLists(s, t)
         /\ t.stage = [s.stage EXCEPT ![c] = "freed"]
         /\ t.summons[c] = {} /\ t.alive = s.alive \ {c} /\ t.check = s.check \ {c}
         /\ Orphaned(s, t, c, S)
<1> DEFINE G == [s.stage EXCEPT ![c] = "freed"]
           M == [s.summons EXCEPT ![c] = {}]
           A == [s.at EXCEPT ![c] = NoOne]
           K == [s.attacked EXCEPT ![c] = NoOne]
           F == [s.follow EXCEPT ![c] = NoOne]
           V == s.alive \ {c}
           C == s.check \ {c}
           O == [d \in Being |-> IF d \in S \cup {c} THEN NoOne ELSE s.master[d]]
<1>1. /\ G \in [Being -> {"none", "placed", "removed", "freed"}]
      /\ M \in [Being -> SUBSET Being] /\ A \in [Being -> Place \cup {NoOne}]
      /\ K \in [Being -> Being \cup {NoOne}] /\ F \in [Being -> Being \cup {NoOne}]
      /\ V \in SUBSET Being /\ C \in SUBSET Being /\ O \in [Being -> Being \cup {NoOne}]
      /\ M[c] = {}
      /\ \A d \in Being \ {c} : /\ M[d] = s.summons[d] /\ A[d] = s.at[d]
                                /\ K[d] = s.attacked[d] /\ F[d] = s.follow[d]
      /\ \A d \in Being : O[d] = IF d \in S \cup {c} THEN NoOne ELSE s.master[d]
  BY DEF CreState
<1>2. t = [s EXCEPT !.stage = G, !.summons = M, !.at = A, !.attacked = K, !.follow = F,
                    !.alive = V, !.check = C, !.master = O]
  BY DEF Erased, CreState
<1>3. G = [s.stage EXCEPT ![c] = "freed"] /\ V = s.alive \ {c} /\ C = s.check \ {c}
  OBVIOUS
<1> HIDE DEF G, M, A, K, F, V, C, O
<1> DEFINE u == [s EXCEPT !.stage = G, !.summons = M, !.at = A, !.attacked = K]
<1>4. u \in CreState /\ u.stage = G /\ u.summons = M /\ u.at = A /\ u.attacked = K
  BY <1>1 DEF CreState
<1>5. /\ u.refs = s.refs /\ u.listed = s.listed /\ u.deaths = s.deaths
      /\ u.releases = s.releases /\ SameLists(s, u) /\ u.master = s.master
  BY DEF CreState, SameLists
<1>6. t = [u EXCEPT !.follow = F, !.alive = V, !.check = C, !.master = O]
  BY <1>2 DEF CreState
<1> HIDE DEF u
<1>7. /\ t \in CreState /\ t.follow = F /\ t.alive = V /\ t.check = C /\ t.master = O
  <2>1. u \in CreState
    BY <1>4
  <2>2. t.follow = F /\ t.alive = V /\ t.check = C /\ t.master = O
    BY <1>6, <2>1 DEF CreState
  <2>3. /\ F \in [Being -> Being \cup {NoOne}] /\ V \in SUBSET Being /\ C \in SUBSET Being
        /\ O \in [Being -> Being \cup {NoOne}]
    BY <1>1
  <2>4. t \in CreState
    BY <1>6, <2>1, <2>3 DEF CreState
  <2> QED BY <2>2, <2>4
<1>8. /\ t.refs = u.refs /\ t.listed = u.listed /\ t.deaths = u.deaths /\ t.releases = u.releases
      /\ SameLists(u, t) /\ t.stage = u.stage /\ t.summons = u.summons /\ t.at = u.at
      /\ t.attacked = u.attacked
  BY <1>4, <1>6 DEF CreState, SameLists
<1>9. SameLists(s, t)
  BY <1>5, <1>8 DEF SameLists
<1> QED BY <1>1, <1>3, <1>4, <1>5, <1>7, <1>8, <1>9 DEF Orphaned

Freeing(s, c) == Erased(LetGo(ClearLists(s, c), s.summons[c]), c, s.summons[c])

\* A creature that is gone and held by nobody leaves no trace: whom it held is
\* let go of, and its summons, none of them on the map, lose their master.
LEMMA FreeingIs ==
  ASSUME NEW s, Settled(s), NEW c \in Being, s.stage[c] = "removed", s.refs[c] = 0,
         NEW t, t = Freeing(s, c)
  PROVE  /\ Settled(t) /\ t.stage = [s.stage EXCEPT ![c] = "freed"]
         /\ \A d \in Being : s.refs[d] = 0 => t.refs[d] = 0
<1> DEFINE S == s.summons[c]
           u == ClearLists(s, c)
           v == LetGo(u, S)
<1>1. s \in CreState /\ Books(s) /\ Ranks(s, NoOne) /\ Aimed(s, NoOne, {}) /\ Noticing(s, {})
  BY DEF Settled, Live, Books
<1>2. t = Erased(v, c, S)
  BY DEF Freeing
<1> HIDE DEF u, v
<1>3. Books(u) /\ Sensing(s, u, c) /\ SameChecks(s, u) /\ u.targets[c] = {} /\ u.friends[c] = {}
  BY <1>1, ClearListsIs DEF u
<1>4. u \in CreState /\ SameWorld(s, u) /\ SameBonds(s, u) /\ SameAims(s, u)
  BY <1>3 DEF Sensing
<1>5. \A d \in Being : d \in S => u.refs[d] >= 1 /\ d \in Present(u)
  BY <1>3, <1>4, HeldIs DEF SameBonds
<1>6. /\ v \in CreState /\ SameWorld(u, v) /\ SameBonds(u, v) /\ SameAims(u, v)
      /\ SameLists(u, v) /\ SameChecks(u, v)
      /\ \A d \in Being : v.refs[d] = u.refs[d] - Mark(d, S)
  <2> HIDE DEF S
  <2> QED BY <1>4, <1>5, LetGoIs DEF v
<1>7. /\ t \in CreState /\ t.refs = v.refs /\ t.listed = s.listed /\ t.deaths = s.deaths
      /\ t.releases = s.releases /\ t.targets = u.targets /\ t.friends = u.friends
      /\ t.stage = [s.stage EXCEPT ![c] = "freed"]
      /\ t.summons[c] = {} /\ t.alive = s.alive \ {c} /\ t.check = s.check \ {c}
  <2> HIDE DEF S
  <2> QED BY <1>2, <1>3, <1>4, <1>6, ErasedIs DEF SameWorld, SameBonds, SameAims, SameLists, SameChecks
<1>8. /\ \A d \in Being \ {c} : /\ t.summons[d] = s.summons[d] /\ t.at[d] = s.at[d]
                                /\ t.attacked[d] = s.attacked[d] /\ t.follow[d] = s.follow[d]
                                /\ t.targets[d] = s.targets[d] /\ t.friends[d] = s.friends[d]
      /\ \A d \in Being : t.master[d] = IF d \in S \cup {c} THEN NoOne ELSE s.master[d]
  <2> HIDE DEF S
  <2>0. v \in CreState
    BY <1>6
  <2>1. /\ \A d \in Being \ {c} : /\ t.summons[d] = v.summons[d] /\ t.at[d] = v.at[d]
                                  /\ t.attacked[d] = v.attacked[d] /\ t.follow[d] = v.follow[d]
        /\ \A d \in Being : t.master[d] = IF d \in S \cup {c} THEN NoOne ELSE v.master[d]
    <3>1. /\ v \in CreState /\ c \in Being /\ t = Erased(v, c, S)
      BY <1>2, <2>0
    <3> HIDE DEF S
    <3>2. Orphaned(v, t, c, S)
      BY <3>1, ErasedIs
    <3> QED BY <3>2 DEF Orphaned
  <2>2. v.summons = s.summons /\ v.at = s.at /\ v.attacked = s.attacked /\ v.follow = s.follow
        /\ v.master = s.master
    BY <1>4, <1>6 DEF SameWorld, SameBonds, SameAims
  <2>3. \A d \in Being \ {c} : u.targets[d] = s.targets[d] /\ u.friends[d] = s.friends[d]
    BY <1>3 DEF Sensing
  <2> QED BY <1>7, <2>1, <2>2, <2>3
<1>9. Loose(s, c) /\ c \notin S
  BY <1>1, LooseIs DEF Loose
<1>10. Placed(t) = Placed(s) /\ Present(t) = Present(s) \ {c} /\ c \notin Placed(s) /\ c # NoOne
  BY <1>1, <1>7, Kinds DEF Placed, Present, CreState
<1>11. \A d \in Being : d # c => t.stage[d] = s.stage[d]
  BY <1>1, <1>7 DEF CreState
<1>12. ASSUME NEW d \in Being
       PROVE  /\ Tally(t.summons, d) = Tally(s.summons, d) - Mark(d, S)
              /\ CountOf(t, d) = CountOf(u, d) - Mark(d, S)
  <2> DEFINE a == Tally(t.summons, d)
             b == Tally(s.summons, d)
             k == Mark(d, S)
  <2>1. Tally(t.summons, d) = Tally(s.summons, d) + Mark(d, t.summons[c]) - Mark(d, s.summons[c])
    <3> DEFINE F == s.summons
               G == t.summons
    <3>1. \A x \in Being \ {c} : G[x] = F[x]
      BY <1>8
    <3> HIDE DEF F, G
    <3>2. Tally(G, d) = Tally(F, d) + Mark(d, G[c]) - Mark(d, F[c])
      BY <3>1, TallyMoves
    <3> QED BY <3>2 DEF F, G
  <2>2. Mark(d, t.summons[c]) = 0
    BY <1>7 DEF Mark
  <2>3. a \in Nat /\ b \in Nat /\ k \in {0, 1} /\ a = b + 0 - k
    BY <2>1, <2>2, TallyIs DEF Mark
  <2> HIDE DEF a, b, k
  <2>4. a = b - k
    BY <2>3
  <2>5. /\ CountOf(t, d) = Tally(u.targets, d) + Tally(u.friends, d) + a
                             + Mark(d, Placed(s)) + Mark(d, s.listed) + s.releases[d]
        /\ CountOf(u, d) = Tally(u.targets, d) + Tally(u.friends, d) + b
                             + Mark(d, Placed(s)) + Mark(d, s.listed) + s.releases[d]
    <3>1. Placed(u) = Placed(s) /\ u.listed = s.listed /\ u.releases = s.releases /\ u.summons = s.summons
      BY <1>3, <1>4 DEF Placed, SameChecks, SameWorld, SameBonds
    <3> QED BY <1>7, <1>10, <3>1 DEF CountOf, a, b
  <2>6. /\ Tally(u.targets, d) \in Nat /\ Tally(u.friends, d) \in Nat
        /\ Mark(d, Placed(s)) \in Nat /\ Mark(d, s.listed) \in Nat /\ s.releases[d] \in Nat
    BY <1>1, <1>4, CountIs, TallyIs DEF Mark
  <2>7. CountOf(t, d) = CountOf(u, d) - k
    BY <2>3, <2>4, <2>5, <2>6
  <2> QED BY <2>4, <2>7 DEF a, b, k
<1>13. \A d \in Being : s.refs[d] = 0 => u.refs[d] = 0 /\ d \notin S
  <2> SUFFICES ASSUME NEW d \in Being, s.refs[d] = 0 PROVE u.refs[d] = 0 /\ d \notin S
    OBVIOUS
  <2>1. Loose(s, d)
    BY <1>1, LooseIs
  <2>2. Loose(u, d)
    <3>1. \A m \in Being : d \notin u.targets[m] /\ d \notin u.friends[m]
      <4> TAKE m \in Being
      <4>1. CASE m = c
        BY <1>3, <4>1
      <4>2. CASE m # c
        BY <1>3, <2>1, <4>2 DEF Loose, Sensing
      <4> QED BY <4>1, <4>2
    <3>2. Placed(u) = Placed(s) /\ u.listed = s.listed /\ u.releases = s.releases /\ u.summons = s.summons
      BY <1>3, <1>4 DEF Placed, SameChecks, SameWorld, SameBonds
    <3> QED BY <2>1, <3>1, <3>2 DEF Loose
  <2> QED BY <1>3, <2>1, <2>2, LooseIs DEF Loose
<1>14. \A d \in Being : s.refs[d] = 0 => t.refs[d] = 0
  <2> SUFFICES ASSUME NEW d \in Being, s.refs[d] = 0 PROVE t.refs[d] = 0
    OBVIOUS
  <2>1. u.refs[d] = 0 /\ Mark(d, S) = 0
    BY <1>13 DEF Mark
  <2> QED BY <1>6, <1>7, <2>1
<1>15. Books(t)
  <2>1. ASSUME NEW d \in Being PROVE t.refs[d] = CountOf(t, d)
    BY <1>3, <1>6, <1>7, <1>12 DEF Books
  <2>2. ASSUME NEW d \in Being, d \notin Present(t) PROVE t.refs[d] = 0
    <3>1. s.refs[d] = 0
      BY <1>1, <1>10, <2>2 DEF Books
    <3> QED BY <1>14, <3>1
  <2> QED BY <1>7, <2>1, <2>2 DEF Books
<1>16. \A d \in Being : s.master[d] = c <=> d \in S
  BY <1>1 DEF Ranks
<1>17. s.master[c] \notin Being
  BY <1>1, <1>9 DEF Ranks, Loose
<1>18. \A x, d \in Being : t.master[x] = d <=> x \in t.summons[d]
  <2> SUFFICES ASSUME NEW x \in Being, NEW d \in Being PROVE t.master[x] = d <=> x \in t.summons[d]
    OBVIOUS
  <2>1. s.master[x] = d <=> x \in s.summons[d]
    BY <1>1 DEF Ranks
  <2>2. d # NoOne
    BY Kinds
  <2>3. CASE d = c
    <3>1. t.master[x] # c
      BY <1>8, <1>16, <2>2, <2>3
    <3> QED BY <1>7, <2>3, <3>1
  <2>4. CASE d # c
    <3>1. t.summons[d] = s.summons[d]
      BY <1>8, <2>4
    <3>2. x \in S \cup {c} => s.master[x] # d
      BY <1>16, <1>17, <2>4
    <3> HIDE DEF S
    <3> QED BY <1>8, <2>1, <2>2, <3>1, <3>2
  <2> QED BY <2>3, <2>4
<1> HIDE DEF S
<1>19. Ranks(t, NoOne)
  <2>1. \A x \in Man : t.master[x] = NoOne
    BY <1>1, <1>8, Kinds DEF Ranks
  <2>2. \A x \in Being : t.master[x] # NoOne => t.summons[x] = {}
    <3> TAKE x \in Being
    <3>1. t.master[x] # NoOne => x # c /\ s.master[x] # NoOne
      BY <1>8
    <3> QED BY <1>1, <1>8, <3>1 DEF Ranks
  <2>3. \A x \in Being : t.stage[x] = "none" =>
          t.attacked[x] = NoOne /\ t.follow[x] = NoOne /\ t.master[x] = NoOne
    <3> SUFFICES ASSUME NEW x \in Being, t.stage[x] = "none"
                 PROVE  t.attacked[x] = NoOne /\ t.follow[x] = NoOne /\ t.master[x] = NoOne
      OBVIOUS
    <3>1. x # c
      BY <1>1, <1>7 DEF CreState
    <3>2. s.attacked[x] = NoOne /\ s.follow[x] = NoOne /\ s.master[x] = NoOne
      BY <1>1, <1>11, <3>1 DEF Ranks
    <3> QED BY <1>8, <3>1, <3>2
  <2>4. \A x \in Being \ Present(t) : t.summons[x] = {}
    <3> TAKE x \in Being \ Present(t)
    <3>1. CASE x = c
      BY <1>7, <3>1
    <3>2. CASE x # c
      BY <1>1, <1>8, <1>10, <3>2 DEF Ranks
    <3> QED BY <3>1, <3>2
  <2>5. \A x \in Being \ {NoOne} : t.stage[x] = "removed" => t.summons[x] \cap Placed(t) = {}
    <3> TAKE x \in Being \ {NoOne}
    <3>1. CASE x = c
      BY <1>7, <3>1
    <3>2. CASE x # c
      BY <1>1, <1>8, <1>10, <1>11, <3>2 DEF Ranks
    <3> QED BY <3>1, <3>2
  <2>6. t.alive \cap t.deaths = {}
    BY <1>1, <1>7 DEF Ranks
  <2> QED BY <1>18, <2>1, <2>2, <2>3, <2>4, <2>5, <2>6 DEF Ranks
<1>20. \A x, y \in Being \ {c} : CanSee(t, x, y) <=> CanSee(s, x, y)
  BY <1>8 DEF CanSee
<1>21. Aimed(t, NoOne, {})
  <2>1. ASSUME NEW m \in Placed(s), NEW d, InSight(s, m, d, NoOne, {})
        PROVE  InSight(t, m, d, NoOne, {})
    <3>1. d \in Placed(s) /\ CanSee(s, m, d) /\ d \in Being /\ m \in Being /\ d # c /\ m # c
      BY <1>10, <2>1, PlacedIs DEF InSight
    <3> QED BY <1>10, <1>20, <3>1 DEF InSight
  <2>2. ASSUME NEW m \in Placed(t)
        PROVE  /\ t.attacked[m] # NoOne => InSight(t, m, t.attacked[m], NoOne, {})
               /\ t.follow[m] # NoOne => InSight(t, m, t.follow[m], NoOne, {})
    <3>1. m \in Placed(s) /\ m \in Being /\ m # c
      BY <1>10, <2>2, PlacedIs
    <3>2. /\ s.attacked[m] # NoOne => InSight(s, m, s.attacked[m], NoOne, {})
          /\ s.follow[m] # NoOne => InSight(s, m, s.follow[m], NoOne, {})
      BY <1>1, <3>1 DEF Aimed
    <3>3. t.attacked[m] = s.attacked[m] /\ t.follow[m] = s.follow[m]
      BY <1>8, <3>1
    <3> QED BY <2>1, <3>1, <3>2, <3>3
  <2> QED BY <2>2 DEF Aimed
<1>22. Noticing(t, {})
  <2> SUFFICES ASSUME NEW m \in Being, NEW p \in Being, Wild(t, m), p \in Placed(t) \cap Man, CanSee(t, m, p)
               PROVE  p \in t.targets[m] /\ m \in t.check
    BY DEF Noticing
  <2>1. m \in Placed(s) /\ m # c /\ p # c /\ p \in Placed(s) \cap Man
    BY <1>10 DEF Wild
  <2>2. m \notin S
    <3>1. s.summons[c] \cap Placed(s) = {}
      BY <1>1, <1>10 DEF Ranks
    <3> QED BY <2>1, <3>1 DEF S
  <2>3. Wild(s, m)
    BY <1>7, <1>8, <2>1, <2>2 DEF Wild
  <2>4. p \in s.targets[m] /\ m \in s.check
    BY <1>1, <1>20, <2>1, <2>3 DEF Noticing
  <2> QED BY <1>7, <1>8, <2>1, <2>4
<1> QED BY <1>7, <1>14, <1>15, <1>19, <1>21, <1>22 DEF Settled, Live

FreeAll(s, X) == FoldSet(LAMBDA c, u : Freeing(u, c), s, X)

\* From s, those of K in Z are deleted, and nobody holds the others.
Erasing(s, K, Z, u) ==
  /\ Settled(u)
  /\ \A d \in Being : u.stage[d] = IF d \in Z THEN "freed" ELSE s.stage[d]
  /\ \A d \in K : u.refs[d] = 0

LEMMA FreeAllIs ==
  ASSUME NEW s, Settled(s), NEW K, K = Dead(s), NEW t, t = FreeAll(s, K)
  PROVE  /\ Settled(t) /\ \A d \in Being : t.stage[d] = IF d \in K THEN "freed" ELSE s.stage[d]
         /\ K = {} => t = s
<1> DEFINE X == K
           D == CreState
           op == [e1 \in X |-> [v1 \in D |-> Freeing(v1, e1)]]
           IsFold(f) == f = [Z \in SUBSET X |-> IF Z = {} THEN s
                               ELSE LET e1 == CHOOSE e1 \in Z : TRUE IN Freeing(f[Z \ {e1}], e1)]
           g == CHOOSE f : IsFold(f)
           Good(Z, u) == Erasing(s, K, Z, u)
           J == [Z \in SUBSET X |-> {u \in D : Good(Z, u)}]
<1>1. t = g[X]
  BY DEF FreeAll, FoldSet, MapThenFoldSet
<1>2. IsFiniteSet(X) /\ X \subseteq Being
  <2>1. X \subseteq Being
    BY DEF Dead
  <2> QED BY <2>1, Kinds, FS_Subset
<1>3. Good({}, s)
  BY DEF Dead, Erasing
<1>4. ASSUME NEW Z \in SUBSET X, NEW e \in X, NEW u, e \notin Z, Good(Z, u)
      PROVE  Good(Z \cup {e}, Freeing(u, e))
  <2> DEFINE w == Freeing(u, e)
  <2>1. e \in Being /\ s.stage[e] = "removed" /\ u.stage[e] = "removed" /\ u.refs[e] = 0 /\ Settled(u)
    <3>1. Settled(u) /\ u.refs[e] = 0 /\ u.stage[e] = s.stage[e]
      BY <1>2, <1>4 DEF Erasing
    <3>2. e \in Dead(s)
      OBVIOUS
    <3> QED BY <3>1, <3>2 DEF Dead
  <2> HIDE DEF w
  <2>2. /\ Settled(w) /\ w.stage = [u.stage EXCEPT ![e] = "freed"]
        /\ \A d \in Being : u.refs[d] = 0 => w.refs[d] = 0
    BY <2>1, FreeingIs DEF w
  <2>3. u \in CreState
    BY <2>1 DEF Settled, Live, Books
  <2>4. \A d \in Being : w.stage[d] = IF d = e THEN "freed" ELSE u.stage[d]
    BY <2>2, <2>3 DEF CreState
  <2>5. \A d \in Being : w.stage[d] = IF d \in Z \cup {e} THEN "freed" ELSE s.stage[d]
    BY <1>4, <2>4 DEF Erasing
  <2>6. \A d \in K : w.refs[d] = 0
    BY <1>2, <1>4, <2>2 DEF Erasing
  <2> QED BY <2>2, <2>5, <2>6 DEF w, Erasing
<1>5. Good(X, g[X]) /\ g[{}] = s
  <2> HIDE DEF X, Good
  <2>1. J \in [SUBSET X -> SUBSET D]
    OBVIOUS
  <2>2. s \in J[{}]
    <3>1. s \in D
      BY <1>3 DEF Good, Erasing, Settled, Live, Books
    <3> QED BY <1>3, <3>1
  <2>3. Leads(X, J, op)
    <3> SUFFICES ASSUME NEW Z \in SUBSET X, NEW e \in X, e \notin Z, NEW y \in J[Z]
                 PROVE  op[e][y] \in J[Z \cup {e}]
      BY DEF Leads
    <3>1. y \in D /\ Good(Z, y) /\ op[e][y] = Freeing(y, e) /\ Z \cup {e} \in SUBSET X
      OBVIOUS
    <3>2. Good(Z \cup {e}, op[e][y])
      BY <1>4, <3>1
    <3>3. op[e][y] \in D
      BY <3>2 DEF Good, Erasing, Settled, Live, Books
    <3> HIDE DEF op
    <3> QED BY <3>1, <3>2, <3>3
  <2> HIDE DEF J
  <2>4. PICK f : FoldOf(f, X, s, op) /\ \A Z \in SUBSET X : f[Z] \in J[Z]
    <3> HIDE DEF op
    <3> QED BY <1>2, <2>1, <2>2, <2>3, FoldWithin
  <2>5. IsFold(f)
    <3>1. ASSUME NEW Z \in SUBSET X, NEW e \in Z
          PROVE  op[e][f[Z \ {e}]] = Freeing(f[Z \ {e}], e)
      <4>1. e \in X /\ Z \ {e} \in SUBSET X
        OBVIOUS
      <4>2. f[Z \ {e}] \in D
        <5> HIDE DEF op
        <5> QED BY <2>1, <2>4, <4>1
      <4> QED BY <4>1, <4>2
    <3> HIDE DEF op
    <3>2. f = [Z \in SUBSET X |-> IF Z = {} THEN s
                  ELSE LET e == CHOOSE e \in Z : TRUE IN op[e][f[Z \ {e}]]]
      BY <2>4 DEF FoldOf
    <3> DEFINE e(Z) == CHOOSE e \in Z : TRUE
    <3>3. ASSUME NEW Z \in SUBSET X
          PROVE  (IF Z = {} THEN s ELSE op[e(Z)][f[Z \ {e(Z)}]])
                   = (IF Z = {} THEN s ELSE Freeing(f[Z \ {e(Z)}], e(Z)))
      <4>1. CASE Z = {}
        BY <4>1
      <4>2. CASE Z # {}
        <5>1. e(Z) \in Z
          BY <4>2
        <5> HIDE DEF e
        <5> QED BY <3>1, <4>2, <5>1
      <4> QED BY <4>1, <4>2
    <3> QED BY <3>2, <3>3
  <2>6. IsFold(g)
    <3> HIDE DEF IsFold
    <3> QED BY <2>5
  <2> HIDE DEF g
  <2>7. g[{}] = s
    BY <2>6
  <2>8. Follows(g, X, D, op)
    <3> SUFFICES ASSUME NEW Z \in SUBSET X, Z # {}
                 PROVE  \E e \in Z : g[Z \ {e}] \in D => g[Z] = op[e][g[Z \ {e}]]
      BY DEF Follows
    <3> DEFINE e == CHOOSE y \in Z : TRUE
    <3>1. e \in Z /\ g[Z] = Freeing(g[Z \ {e}], e)
      BY <2>6
    <3> HIDE DEF e, op
    <3>2. g[Z \ {e}] \in D => g[Z] = op[e][g[Z \ {e}]]
      <4>1. e \in X
        BY <3>1
      <4> QED BY <3>1, <4>1 DEF op
    <3> QED BY <3>1, <3>2
  <2>9. g[X] \in J[X]
    <3> HIDE DEF op, IsFold
    <3>1. g[{}] \in J[{}]
      BY <2>2, <2>7
    <3> QED BY <1>2, <2>1, <2>3, <2>8, <3>1, Folding
  <2> QED BY <2>7, <2>9 DEF J
<1> HIDE DEF g
<1>6. K = {} => t = s
  BY <1>1, <1>5
<1>7. Settled(t) /\ \A d \in Being : t.stage[d] = (IF d \in K THEN "freed" ELSE s.stage[d])
  BY <1>1, <1>5 DEF Erasing
<1> QED BY <1>6, <1>7

LEMMA DeleteIs ==
  ASSUME NEW s, Settled(s), NEW t, t = Delete(s)
  PROVE  /\ Settled(t) /\ \A d \in Being : t.stage[d] = IF d \in Dead(s) THEN "freed" ELSE s.stage[d]
         /\ Dead(s) = {} => t = s
<1> DEFINE K == Dead(s)
<1>1. t = FreeAll(s, K)
  BY DEF Delete, FreeAll, Freeing, Erased, FoldSet, MapThenFoldSet
<1> HIDE DEF K
<1>2. K = Dead(s)
  BY DEF K
<1> QED BY <1>1, <1>2, FreeAllIs

-----------------------------------------------------------------------------
(* Deleting until nobody is left to delete *)

\* f[k] is what k steps of G make of base.
StepsOf(f, n, base, G) == f = [k \in 0..n |-> IF k = 0 THEN base ELSE G[f[k - 1]]]

LEMMA StepsExist ==
  ASSUME NEW n \in Nat, NEW Y, NEW base \in Y, NEW G \in [Y -> Y]
  PROVE  \E f \in [0..n -> Y] : StepsOf(f, n, base, G)
<1> DEFINE X == 1..n
           e == [Z \in SUBSET X |-> IF Cardinality(Z) \in Z THEN Cardinality(Z) ELSE CHOOSE z \in Z : TRUE]
           H == [Z \in SUBSET X |-> G]
<1>1. IsFiniteSet(X)
  BY FS_Interval
<1>2. H \in [SUBSET X -> [Y -> Y]] /\ \A Z \in SUBSET X : Z # {} => e[Z] \in Z
  OBVIOUS
<1>3. ASSUME NEW k \in 1..n
      PROVE  /\ 1..k \in SUBSET X /\ 1..k # {} /\ e[1..k] = k /\ (1..k) \ {k} = 1..(k - 1)
             /\ H[1..k] = G /\ k - 1 \in 0..n
  <2>1. 1..k \in SUBSET X /\ k \in 1..k /\ (1..k) \ {k} = 1..(k - 1) /\ k - 1 \in 0..n
    OBVIOUS
  <2>2. Cardinality(1..k) = k
    BY FS_Interval
  <2> QED BY <2>1, <2>2
<1> HIDE DEF X, e, H
<1>4. PICK f \in [SUBSET X -> Y] : GotFrom(f, SUBSET X, base, H, e)
  BY <1>1, <1>2, Recursion
<1> DEFINE h == [k \in 0..n |-> f[1..k]]
<1>5. \A k \in 0..n : 1..k \in SUBSET X
  BY DEF X
<1>6. h \in [0..n -> Y] /\ \A k \in 0..n : h[k] = f[1..k]
  BY <1>5
<1> HIDE DEF h
<1>7. ASSUME NEW k \in 0..n
      PROVE  h[k] = IF k = 0 THEN base ELSE G[h[k - 1]]
  <2>1. CASE k = 0
    <3>1. 1..0 = {} /\ {} \in SUBSET X
      OBVIOUS
    <3> QED BY <1>4, <1>6, <2>1, <3>1 DEF GotFrom
  <2>2. CASE k # 0
    <3>1. k \in 1..n
      BY <2>2
    <3>2. f[1..k] = H[1..k][f[(1..k) \ {e[1..k]}]]
      BY <1>3, <1>4, <3>1 DEF GotFrom
    <3>3. f[1..k] = G[f[1..(k - 1)]]
      BY <1>3, <3>1, <3>2
    <3>4. h[k - 1] = f[1..(k - 1)] /\ h[k] = f[1..k]
      BY <1>3, <1>6, <3>1
    <3> QED BY <2>2, <3>3, <3>4
  <2> QED BY <2>1, <2>2
<1>8. StepsOf(h, n, base, G)
  BY <1>6, <1>7 DEF StepsOf
<1> QED BY <1>6, <1>8

Erasable(s) == {c \in Being : s.stage[c] = "freed"}

\* Each round deletes somebody or finds nobody to delete, so that as many
\* rounds as there are creatures are enough.
LEMMA RoundIs ==
  ASSUME NEW s, Settled(s), NEW k \in Nat, Dead(s) = {} \/ Cardinality(Erasable(s)) >= k,
         NEW t, t = Delete(s)
  PROVE  Settled(t) /\ (Dead(t) = {} \/ Cardinality(Erasable(t)) >= k + 1)
<1>1. /\ Settled(t) /\ \A d \in Being : t.stage[d] = IF d \in Dead(s) THEN "freed" ELSE s.stage[d]
      /\ Dead(s) = {} => t = s
  BY DeleteIs
<1>2. CASE Dead(s) = {}
  BY <1>1, <1>2
<1>3. CASE Dead(s) # {}
  <2> DEFINE A == Erasable(s)
             B == Erasable(t)
  <2>1. PICK c \in Being : c \in Dead(s)
    BY <1>3 DEF Dead
  <2>2. A \subseteq B /\ B \subseteq Being /\ c \in B /\ c \notin A
    BY <1>1, <2>1 DEF Erasable, Dead
  <2> HIDE DEF A, B
  <2>3. IsFiniteSet(A) /\ IsFiniteSet(B) /\ Cardinality(A) \in Nat /\ Cardinality(B) \in Nat
    <3>1. IsFiniteSet(B)
      BY <2>2, Kinds, FS_Subset
    <3> QED BY <2>2, <3>1, FS_Subset, FS_CardinalityType
  <2>4. Cardinality(A) <= Cardinality(B) /\ Cardinality(A) # Cardinality(B)
    BY <2>2, <2>3, FS_Subset
  <2>5. Cardinality(A) >= k
    BY <1>3 DEF A
  <2>6. Cardinality(B) >= k + 1
    BY <2>3, <2>4, <2>5
  <2> QED BY <1>1, <2>6 DEF B
<1> QED BY <1>2, <1>3

Clean(s) == Settled(s) /\ Dead(s) = {}

LEMMA DeletedIs ==
  ASSUME NEW s, Settled(s), NEW t, t = Deleted(s)
  PROVE  Clean(t)
<1> DEFINE n == Cardinality(Being)
           Y == {u \in CreState : Settled(u)}
           G == [u \in Y |-> Delete(u)]
           IsSteps(f) == f = [k \in 0..n |-> IF k = 0 THEN s ELSE Delete(f[k - 1])]
           g == CHOOSE f : IsSteps(f)
<1>1. t = IF Dead(s) = {} THEN s ELSE g[n]
  BY DEF Deleted
<1>2. n \in Nat
  BY Kinds, FS_CardinalityType
<1>3. s \in Y /\ G \in [Y -> Y]
  <2>1. \A u : Settled(u) => u \in CreState
    BY DEF Settled, Live, Books
  <2>2. \A u \in Y : Delete(u) \in Y
    <3> TAKE u \in Y
    <3>1. Settled(u)
      OBVIOUS
    <3> DEFINE w == Delete(u)
    <3>2. w = Delete(u)
      OBVIOUS
    <3> HIDE DEF w
    <3>3. Settled(w)
      BY <3>1, <3>2, DeleteIs
    <3> QED BY <2>1, <3>2, <3>3
  <2> QED BY <2>1, <2>2
<1>4. \A u \in Y : G[u] = Delete(u) /\ Settled(u)
  OBVIOUS
<1> HIDE DEF n, Y, G
<1>5. PICK f \in [0..n -> Y] : StepsOf(f, n, s, G)
  BY <1>2, <1>3, StepsExist
<1>6. IsSteps(f)
  <2>1. ASSUME NEW k \in 0..n
        PROVE  (IF k = 0 THEN s ELSE G[f[k - 1]]) = (IF k = 0 THEN s ELSE Delete(f[k - 1]))
    <3>1. CASE k = 0
      BY <3>1
    <3>2. CASE k # 0
      <4>1. k - 1 \in 0..n
        BY <1>2, <3>2
      <4>2. f[k - 1] \in Y
        BY <1>5, <4>1
      <4> QED BY <1>4, <3>2, <4>2
    <3> QED BY <3>1, <3>2
  <2> QED BY <1>5, <2>1 DEF StepsOf
<1>7. IsSteps(g)
  <2> HIDE DEF IsSteps
  <2> QED BY <1>6
<1> HIDE DEF g
<1>8. g[0] = s /\ \A k \in 1..n : g[k] = Delete(g[k - 1])
  <2>1. ASSUME NEW k \in 0..n
        PROVE  g[k] = IF k = 0 THEN s ELSE Delete(g[k - 1])
    BY <1>7
  <2>2. 0 \in 0..n /\ \A k \in 1..n : k \in 0..n /\ k # 0
    BY <1>2
  <2> QED BY <2>1, <2>2
<1> HIDE DEF IsSteps
<1> DEFINE K == {k \in 0..n : Settled(g[k]) /\ (Dead(g[k]) = {} \/ Cardinality(Erasable(g[k])) >= k)}
<1>9. 0 \in K
  <2>1. 0 \in 0..n
    BY <1>2
  <2>2. Cardinality(Erasable(s)) >= 0
    <3>1. IsFiniteSet(Erasable(s))
      BY Kinds, FS_Subset DEF Erasable
    <3>2. Cardinality(Erasable(s)) \in Nat
      BY <3>1, FS_CardinalityType
    <3> QED BY <3>2
  <2> QED BY <1>8, <2>1, <2>2
<1>10. ASSUME NEW k \in 1..n, k - 1 \in K PROVE k \in K
  <2> DEFINE u == g[k - 1]
             v == g[k]
             j == k - 1
  <2>1. v = Delete(u) /\ k \in 0..n /\ j \in Nat /\ j + 1 = k
    BY <1>2, <1>8
  <2>2. Settled(u) /\ (Dead(u) = {} \/ Cardinality(Erasable(u)) >= j)
    BY <1>10
  <2> HIDE DEF u, v, j
  <2>3. Settled(v) /\ (Dead(v) = {} \/ Cardinality(Erasable(v)) >= j + 1)
    BY <2>1, <2>2, RoundIs
  <2> QED BY <2>1, <2>3 DEF v
<1>11. n \in K
  <2> HIDE DEF K
  <2> QED BY <1>2, <1>9, <1>10, UpToTheEnd
<1>12. Clean(g[n])
  <2> DEFINE v == g[n]
  <2>1. Settled(v) /\ (Dead(v) = {} \/ Cardinality(Erasable(v)) >= n)
    BY <1>11
  <2> HIDE DEF v
  <2>2. CASE Dead(v) = {}
    BY <2>1, <2>2 DEF v, Clean
  <2>3. CASE Cardinality(Erasable(v)) >= n
    <3> DEFINE B == Erasable(v)
    <3>1. B \subseteq Being
      BY DEF Erasable
    <3>2. Cardinality(B) >= n /\ n = Cardinality(Being)
      BY <2>3 DEF n
    <3> HIDE DEF B
    <3>3. Cardinality(B) <= Cardinality(Being) /\ Cardinality(B) \in Nat /\ Cardinality(Being) \in Nat
      <4>1. IsFiniteSet(B)
        BY <3>1, Kinds, FS_Subset
      <4> QED BY <3>1, <4>1, Kinds, FS_Subset, FS_CardinalityType
    <3>4. Cardinality(B) = Cardinality(Being)
      BY <3>2, <3>3
    <3>5. B = Being
      BY <3>1, <3>4, Kinds, FS_Subset
    <3>6. Dead(v) = {}
      BY <3>5 DEF B, Erasable, Dead
    <3> QED BY <2>1, <3>6 DEF v, Clean
  <2> QED BY <2>1, <2>2, <2>3
<1> QED BY <1>1, <1>12 DEF Clean

\* Game::cleanup releases what ToReleaseCreatures holds.
Releasing(s) == [s EXCEPT !.refs = [c \in Being |-> @[c] - s.releases[c]],
                          !.releases = [c \in Being |-> 0]]

LEMMA ReleasingIs ==
  ASSUME NEW s, Settled(s), NEW t, t = Releasing(s)
  PROVE  Settled(t)
<1> DEFINE R == [c \in Being |-> s.refs[c] - s.releases[c]]
           Q == [c \in Being |-> 0]
<1>1. s \in CreState /\ Books(s) /\ Ranks(s, NoOne) /\ Aimed(s, NoOne, {}) /\ Noticing(s, {})
  BY DEF Settled, Live, Books
<1>2. \A c \in Being : /\ s.refs[c] >= s.releases[c] /\ s.refs[c] \in Nat /\ s.releases[c] \in Nat
  BY <1>1, HeldIs, CountIs
<1>3. R \in [Being -> Nat] /\ Q \in [Being -> Nat]
  BY <1>2
<1>4. \A c \in Being : R[c] = s.refs[c] - s.releases[c] /\ Q[c] = 0
  OBVIOUS
<1>5. t = [s EXCEPT !.refs = R, !.releases = Q]
  BY <1>1 DEF Releasing, CreState
<1> HIDE DEF R, Q
<1>6. t \in CreState /\ t.refs = R /\ t.releases = Q
  BY <1>1, <1>3, <1>5 DEF CreState
<1>7. /\ t.stage = s.stage /\ t.at = s.at /\ t.alive = s.alive /\ t.deaths = s.deaths
      /\ t.listed = s.listed /\ t.check = s.check
      /\ SameBonds(s, t) /\ SameAims(s, t) /\ SameLists(s, t)
  BY <1>1, <1>5 DEF CreState, SameBonds, SameAims, SameLists
<1>8. Placed(t) = Placed(s) /\ Present(t) = Present(s) /\ \A c, d : CanSee(t, c, d) <=> CanSee(s, c, d)
  BY <1>7 DEF Placed, Present, CanSee
<1>9. Books(t)
  <2>1. ASSUME NEW c \in Being
        PROVE  t.refs[c] = CountOf(t, c) /\ (c \notin Present(t) => t.refs[c] = 0)
    <3> DEFINE T == Tally(s.targets, c)
               F == Tally(s.friends, c)
               S == Tally(s.summons, c)
               P == Mark(c, Placed(s))
               L == Mark(c, s.listed)
               r == s.releases[c]
    <3>1. /\ T \in Nat /\ F \in Nat /\ S \in Nat /\ P \in {0, 1} /\ L \in {0, 1} /\ r \in Nat
          /\ s.refs[c] \in Nat
      BY <1>1, CountIs
    <3>2. s.refs[c] = T + F + S + P + L + r
      BY <1>1 DEF Books, CountOf
    <3>3. CountOf(t, c) = T + F + S + P + L + 0
      BY <1>4, <1>6, <1>7, <1>8 DEF CountOf, SameLists, SameBonds
    <3>4. t.refs[c] = s.refs[c] - r
      BY <1>4, <1>6
    <3>5. c \notin Present(t) => s.refs[c] = 0 /\ r = 0
      <4>1. c \notin Present(s) => s.refs[c] = 0
        BY <1>1 DEF Books
      <4>2. s.refs[c] = 0 => r = 0
        BY <1>2
      <4> QED BY <1>8, <4>1, <4>2
    <3> HIDE DEF T, F, S, P, L, r
    <3> QED BY <3>1, <3>2, <3>3, <3>4, <3>5
  <2> QED BY <1>6, <2>1 DEF Books
<1>10. Ranks(t, NoOne)
  BY <1>1, <1>7, <1>8 DEF Ranks, SameBonds, SameAims
<1>11. Aimed(t, NoOne, {})
  BY <1>1, <1>7, <1>8 DEF Aimed, InSight, SameAims
<1>12. Noticing(t, {})
  <2>1. \A m : Wild(t, m) <=> Wild(s, m)
    BY <1>7, <1>8 DEF Wild, SameBonds
  <2> QED BY <1>1, <1>7, <1>8, <2>1 DEF Noticing, SameLists
<1> QED BY <1>9, <1>10, <1>11, <1>12 DEF Settled, Live

LEMMA CleanupIs ==
  ASSUME NEW s, Settled(s), NEW t, t = Cleanup(s)
  PROVE  Clean(t)
<1> DEFINE u == Releasing(s)
<1>1. t = Deleted(u)
  BY DEF Cleanup, Releasing
<1> HIDE DEF u
<1>2. Settled(u)
  BY ReleasingIs DEF u
<1> QED BY <1>1, <1>2, DeletedIs

-----------------------------------------------------------------------------
(* Living, dying, and the list of creatures to check *)

\* Others live, and others are to die.
Vital(s, A, D) == [s EXCEPT !.alive = A, !.deaths = D]

LEMMA VitalIs ==
  ASSUME NEW s, Settled(s), NEW A \in SUBSET Being, NEW D \in SUBSET Being, A \cap D = {},
         A \cap Beast \subseteq s.alive, NEW t, t = Vital(s, A, D)
  PROVE  /\ Settled(t) /\ t.alive = A /\ t.deaths = D /\ Placed(t) = Placed(s) /\ t.stage = s.stage
         /\ t.at = s.at /\ SameBonds(s, t) /\ SameAims(s, t)
<1>1. s \in CreState /\ Books(s) /\ Ranks(s, NoOne) /\ Aimed(s, NoOne, {}) /\ Noticing(s, {})
  BY DEF Settled, Live, Books
<1>2. t \in CreState /\ t.alive = A /\ t.deaths = D
  BY <1>1 DEF Vital, CreState
<1>3. /\ t.stage = s.stage /\ t.at = s.at /\ t.refs = s.refs /\ t.releases = s.releases
      /\ t.listed = s.listed /\ t.check = s.check
      /\ SameBonds(s, t) /\ SameAims(s, t) /\ SameLists(s, t)
  BY <1>1 DEF Vital, CreState, SameBonds, SameAims, SameLists
<1>4. Placed(t) = Placed(s) /\ Present(t) = Present(s) /\ \A c, d : CanSee(t, c, d) <=> CanSee(s, c, d)
  BY <1>3 DEF Placed, Present, CanSee
<1>5. Books(t)
  <2>1. \A c \in Being : CountOf(t, c) = CountOf(s, c)
    BY <1>3, <1>4 DEF CountOf, SameLists, SameBonds
  <2> QED BY <1>1, <1>2, <1>3, <1>4, <2>1 DEF Books
<1>6. Ranks(t, NoOne)
  BY <1>1, <1>2, <1>3, <1>4 DEF Ranks, SameBonds, SameAims
<1>7. Aimed(t, NoOne, {})
  BY <1>1, <1>3, <1>4 DEF Aimed, InSight, SameAims
<1>8. Noticing(t, {})
  <2>1. \A m : Wild(t, m) => Wild(s, m)
    BY <1>2, <1>3, <1>4 DEF Wild, SameBonds
  <2> QED BY <1>1, <1>3, <1>4, <2>1 DEF Noticing, SameLists
<1> QED BY <1>2, <1>3, <1>4, <1>5, <1>6, <1>7, <1>8 DEF Settled, Live

\* Who comes off the list is released at the next cleanup.
Unlisting(s, L, R) == [s EXCEPT !.listed = L, !.releases = R]

LEMMA UnlistIs ==
  ASSUME NEW s, Settled(s), NEW t, t = Unlist(s)
  PROVE  Settled(t)
<1> DEFINE out == s.listed \ s.check
           L == s.listed \ out
           R == [c \in Being |-> s.releases[c] + IF c \in out THEN 1 ELSE 0]
<1>1. s \in CreState /\ Books(s) /\ Ranks(s, NoOne) /\ Aimed(s, NoOne, {}) /\ Noticing(s, {})
  BY DEF Settled, Live, Books
<1>2. L \in SUBSET Being /\ R \in [Being -> Nat]
  BY <1>1 DEF CreState
<1>3. \A c \in Being : R[c] = s.releases[c] + Mark(c, out)
  BY DEF Mark
<1>4. \A c \in Being : Mark(c, s.listed) = Mark(c, L) + Mark(c, out)
  BY DEF Mark
<1>5. t = Unlisting(s, L, R)
  BY <1>1 DEF Unlist, Unlisting, CreState
<1> HIDE DEF L, R, out
<1>6. t \in CreState /\ t.listed = L /\ t.releases = R
  BY <1>1, <1>2, <1>5 DEF Unlisting, CreState
<1>7. /\ t.stage = s.stage /\ t.at = s.at /\ t.refs = s.refs /\ t.alive = s.alive
      /\ t.deaths = s.deaths /\ t.check = s.check
      /\ SameBonds(s, t) /\ SameAims(s, t) /\ SameLists(s, t)
  BY <1>1, <1>5 DEF Unlisting, CreState, SameBonds, SameAims, SameLists
<1>8. Placed(t) = Placed(s) /\ Present(t) = Present(s) /\ \A c, d : CanSee(t, c, d) <=> CanSee(s, c, d)
  BY <1>7 DEF Placed, Present, CanSee
<1>9. Books(t)
  <2>1. ASSUME NEW c \in Being
        PROVE  CountOf(t, c) = CountOf(s, c)
    <3> DEFINE T == Tally(s.targets, c)
               F == Tally(s.friends, c)
               S == Tally(s.summons, c)
               P == Mark(c, Placed(s))
               l1 == Mark(c, s.listed)
               l2 == Mark(c, L)
               o == Mark(c, out)
               r == s.releases[c]
    <3>1. /\ T \in Nat /\ F \in Nat /\ S \in Nat /\ P \in {0, 1} /\ l1 \in {0, 1} /\ r \in Nat
          /\ l2 \in {0, 1} /\ o \in {0, 1} /\ l1 = l2 + o
      BY <1>1, <1>4, CountIs DEF Mark
    <3>2. CountOf(s, c) = T + F + S + P + l1 + r
      BY DEF CountOf
    <3>3. CountOf(t, c) = T + F + S + P + l2 + (r + o)
      BY <1>3, <1>6, <1>7, <1>8 DEF CountOf, SameLists, SameBonds
    <3> HIDE DEF T, F, S, P, l1, l2, o, r
    <3> QED BY <3>1, <3>2, <3>3
  <2> QED BY <1>1, <1>6, <1>7, <1>8, <2>1 DEF Books
<1>10. Ranks(t, NoOne)
  BY <1>1, <1>7, <1>8 DEF Ranks, SameBonds, SameAims
<1>11. Aimed(t, NoOne, {})
  BY <1>1, <1>7, <1>8 DEF Aimed, InSight, SameAims
<1>12. Noticing(t, {})
  <2>1. \A m : Wild(t, m) <=> Wild(s, m)
    BY <1>7, <1>8 DEF Wild, SameBonds
  <2> QED BY <1>1, <1>7, <1>8, <2>1 DEF Noticing, SameLists
<1> QED BY <1>9, <1>10, <1>11, <1>12 DEF Settled, Live

\* The summons of m are to die, and have no master.
Doomed(s, m, S) == [s EXCEPT !.alive = @ \ S, !.deaths = @ \cup S,
                             !.master = [d \in Being |-> IF d \in S THEN NoOne ELSE @[d]],
                             !.summons[m] = {}]

LEMMA DoomedIs ==
  ASSUME NEW s, Settled(s), NEW m \in Being, NEW S, S = s.summons[m],
         NEW t, t = LetGo(Doomed(s, m, S), S)
  PROVE  Settled(t) /\ t.alive \subseteq s.alive /\ Placed(t) = Placed(s)
<1> DEFINE V == s.alive \ S
           D == s.deaths \cup S
           O == [d \in Being |-> IF d \in S THEN NoOne ELSE s.master[d]]
           M == [s.summons EXCEPT ![m] = {}]
           u == Doomed(s, m, S)
<1>1. s \in CreState /\ Books(s) /\ Ranks(s, NoOne) /\ Aimed(s, NoOne, {}) /\ Noticing(s, {})
  BY DEF Settled, Live, Books
<1>2. /\ V \in SUBSET Being /\ D \in SUBSET Being /\ O \in [Being -> Being \cup {NoOne}]
      /\ M \in [Being -> SUBSET Being] /\ S \in SUBSET Being
  BY <1>1 DEF CreState
<1>3. /\ M[m] = {} /\ \A d \in Being \ {m} : M[d] = s.summons[d]
      /\ \A d \in Being : O[d] = IF d \in S THEN NoOne ELSE s.master[d]
      /\ V = s.alive \ S /\ D = s.deaths \cup S
  BY <1>1 DEF CreState
<1>4. u = [s EXCEPT !.alive = V, !.deaths = D, !.master = O, !.summons = M]
  BY <1>1 DEF Doomed, CreState
<1> HIDE DEF V, D, O, M, u
<1>5. u \in CreState /\ u.alive = V /\ u.deaths = D /\ u.master = O /\ u.summons = M
  <2>1. u \in CreState
    BY <1>1, <1>2, <1>4 DEF CreState
  <2>2. u.alive = V /\ u.deaths = D /\ u.master = O /\ u.summons = M
    BY <1>1, <1>4 DEF CreState
  <2> QED BY <2>1, <2>2
<1>6. /\ u.stage = s.stage /\ u.at = s.at /\ u.refs = s.refs /\ u.releases = s.releases
      /\ SameAims(s, u) /\ SameLists(s, u) /\ SameChecks(s, u)
  BY <1>1, <1>4 DEF CreState, SameAims, SameLists, SameChecks
<1>7. \A d \in Being : d \in S => u.refs[d] >= 1 /\ d \in Present(s)
  BY <1>1, <1>6, HeldIs
<1>8. /\ t \in CreState /\ SameWorld(u, t) /\ SameBonds(u, t) /\ SameAims(u, t)
      /\ SameLists(u, t) /\ SameChecks(u, t)
      /\ \A d \in Being : t.refs[d] = u.refs[d] - Mark(d, S)
  BY <1>5, <1>7, LetGoIs DEF u
<1>9. /\ t.stage = s.stage /\ t.at = s.at /\ t.releases = s.releases /\ t.alive = V /\ t.deaths = D
      /\ t.master = O /\ t.summons = M
      /\ SameAims(s, t) /\ SameLists(s, t) /\ SameChecks(s, t)
      /\ \A d \in Being : t.refs[d] = s.refs[d] - Mark(d, S)
  BY <1>5, <1>6, <1>8 DEF SameWorld, SameBonds, SameAims, SameLists, SameChecks
<1>10. Placed(t) = Placed(s) /\ Present(t) = Present(s) /\ \A c, d : CanSee(t, c, d) <=> CanSee(s, c, d)
  BY <1>9 DEF Placed, Present, CanSee
<1>11. Books(t)
  <2>1. ASSUME NEW d \in Being
        PROVE  t.refs[d] = CountOf(t, d) /\ (d \notin Present(t) => t.refs[d] = 0)
    <3> DEFINE F == s.summons
    <3>1. M[m] = {} /\ F[m] = S /\ \A x \in Being \ {m} : M[x] = F[x]
      BY <1>3
    <3>2. Tally(M, d) = Tally(F, d) - Mark(d, S)
      <4> HIDE DEF F
      <4>1. M[m] = {}
        BY <3>1
      <4>2. \A x \in Being \ {m} : M[x] = F[x]
        BY <3>1
      <4>3. Tally(M, d) = Tally(F, d) - Mark(d, F[m])
        BY ONLY <4>1, <4>2, m \in Being, TallyFalls
      <4> QED BY <3>1, <4>3
    <3> DEFINE k == Mark(d, S)
               a == Tally(M, d)
               b == Tally(F, d)
    <3> DEFINE T == Tally(s.targets, d)
               G == Tally(s.friends, d)
               P == Mark(d, Placed(s))
               l == Mark(d, s.listed)
               r == s.releases[d]
    <3>3. /\ T \in Nat /\ G \in Nat /\ b \in Nat /\ P \in {0, 1} /\ l \in {0, 1} /\ r \in Nat
          /\ k \in {0, 1} /\ a \in Nat /\ a = b - k
      BY <1>1, <3>2, CountIs, TallyIs DEF Mark
    <3>4. s.refs[d] = T + G + b + P + l + r
      BY <1>1 DEF Books, CountOf
    <3>5. CountOf(t, d) = T + G + a + P + l + r
      BY <1>9, <1>10 DEF CountOf, SameLists, SameChecks
    <3>6. t.refs[d] = s.refs[d] - k
      BY <1>9
    <3>7. d \notin Present(t) => s.refs[d] = 0 /\ k = 0
      BY <1>1, <1>7, <1>10 DEF Books, Mark
    <3> HIDE DEF a, b, k, T, G, P, l, r
    <3> QED BY <3>3, <3>4, <3>5, <3>6, <3>7
  <2> QED BY <1>8, <2>1 DEF Books
<1>12. \A d \in Being : s.master[d] = m <=> d \in S
  BY <1>1 DEF Ranks
<1>13. Ranks(t, NoOne)
  <2>1. \A x, d \in Being : t.master[x] = d <=> x \in t.summons[d]
    <3> SUFFICES ASSUME NEW x \in Being, NEW d \in Being PROVE O[x] = d <=> x \in M[d]
      BY <1>9
    <3>1. (s.master[x] = d <=> x \in s.summons[d]) /\ d # NoOne
      BY <1>1, Kinds DEF Ranks
    <3> QED BY <1>3, <1>12, <3>1
  <2>2. \A x \in Man : t.master[x] = NoOne
    BY <1>1, <1>3, <1>9, Kinds DEF Ranks
  <2>3. \A x \in Being : t.master[x] # NoOne => t.summons[x] = {}
    <3> TAKE x \in Being
    <3>1. O[x] # NoOne => s.master[x] # NoOne
      BY <1>3
    <3>2. s.summons[x] = {} => M[x] = {}
      BY <1>3
    <3> QED BY <1>1, <1>9, <3>1, <3>2 DEF Ranks
  <2>4. \A x \in Being : t.stage[x] = "none" =>
          t.attacked[x] = NoOne /\ t.follow[x] = NoOne /\ t.master[x] = NoOne
    <3> TAKE x \in Being
    <3>1. s.master[x] = NoOne => O[x] = NoOne
      BY <1>3
    <3> QED BY <1>1, <1>9, <3>1 DEF Ranks, SameAims
  <2>5. \A x \in Being \ Present(t) : t.summons[x] = {}
    <3> TAKE x \in Being \ Present(t)
    <3>1. s.summons[x] = {}
      BY <1>1, <1>10 DEF Ranks
    <3> QED BY <1>3, <1>9, <3>1
  <2>6. \A x \in Being \ {NoOne} : t.stage[x] = "removed" => t.summons[x] \cap Placed(t) = {}
    <3> TAKE x \in Being \ {NoOne}
    <3>1. t.summons[x] \subseteq s.summons[x]
      BY <1>3, <1>9
    <3>2. s.stage[x] = "removed" => s.summons[x] \cap Placed(s) = {}
      BY <1>1 DEF Ranks
    <3> QED BY <1>9, <1>10, <3>1, <3>2
  <2>7. t.alive \cap t.deaths = {}
    BY <1>1, <1>3, <1>9 DEF Ranks
  <2> QED BY <2>1, <2>2, <2>3, <2>4, <2>5, <2>6, <2>7 DEF Ranks
<1>14. Aimed(t, NoOne, {})
  BY <1>1, <1>9, <1>10 DEF Aimed, InSight, SameAims
<1>15. Noticing(t, {})
  <2>1. \A x \in Being : Wild(t, x) => Wild(s, x)
    BY <1>3, <1>9, <1>10 DEF Wild
  <2> QED BY <1>1, <1>9, <1>10, <2>1 DEF Noticing, SameLists, SameChecks
<1> QED BY <1>3, <1>9, <1>10, <1>11, <1>13, <1>14, <1>15 DEF Settled, Live

\* A monster dies: its summons will die, and it forgets everybody.
LEMMA PerishIs ==
  ASSUME NEW s, Settled(s), NEW m \in Being, m \notin s.alive, NEW t, t = Perish(s, m)
  PROVE  Settled(t) /\ m \notin t.alive /\ Placed(t) = Placed(s)
<1> DEFINE u == SetAttackedCreature(s, m, NoOne)
           S == u.summons[m]
           v == LetGo(Doomed(u, m, S), S)
<1>1. t = ClearLists(v, m)
  BY DEF Perish, Doomed
<1>2. Books(s) /\ NoOne \notin Being
  BY Kinds DEF Settled, Live
<1> HIDE DEF v, S, u
<1>3. Aiming(s, u, NoOne)
  BY <1>2, SetAttackedCreatureIs DEF u
<1>4. Settled(u)
  BY <1>2, <1>3, LiveAimed DEF Settled
<1>5. u.alive = s.alive /\ Placed(u) = Placed(s)
  BY <1>3, AimingKeeps
<1>6. Settled(v) /\ v.alive \subseteq u.alive /\ Placed(v) = Placed(u)
  BY <1>4, DoomedIs DEF v, S
<1>7. Books(v) /\ Noticing(v, {})
  BY <1>6 DEF Settled, Live
<1>8. Books(t) /\ Sensing(v, t, m)
  BY <1>1, <1>7, ClearListsIs
<1>9. ~Wild(v, m)
  BY <1>5, <1>6 DEF Wild
<1>10. Noticing(t, {})
  BY <1>7, <1>8, <1>9, SensingNotices
<1>11. Settled(t)
  BY <1>6, <1>8, <1>10, LiveSensed DEF Settled
<1>12. t.alive = v.alive /\ Placed(t) = Placed(v)
  BY <1>8, SensingKeeps
<1> QED BY <1>5, <1>6, <1>11, <1>12

LEMMA LiveAddTarget ==
  ASSUME NEW s, Settled(s), NEW m \in Being, NEW c \in Present(s), NEW t, t = AddTarget(s, m, c)
  PROVE  Settled(t) /\ Sensed(s, t)
<1>1. Books(s) /\ Noticing(s, {})
  BY DEF Settled, Live
<1>2. Books(t) /\ Sensing(s, t, m) /\ SameChecks(s, t) /\ t.targets[m] = s.targets[m] \cup {c}
  BY <1>1, AddTargetIs
<1>3. Noticing(t, {})
  <2>1. \A p \in Placed(s) \cap Man :
          Wild(s, m) /\ CanSee(s, m, p) => p \in t.targets[m] /\ m \in t.check
    BY <1>1, <1>2, PlacedIs DEF Noticing, SameChecks
  <2> QED BY <1>1, <1>2, <2>1, SensingNotices
<1> QED BY <1>2, <1>3, LiveSensed, SensedIs DEF Settled

\* notifySummonAppear
Notifying(s, c, X) == FoldSet(LAMBDA d, u : AddTarget(u, d, c), s, X)

LEMMA NotifyingIs ==
  ASSUME NEW s, Settled(s), NEW c \in Present(s), NEW V \in SUBSET Being, NEW t, t = Notifying(s, c, V)
  PROVE  Settled(t)
<1> DEFINE X == V
           D == CreState
           op == [e1 \in X |-> [v1 \in D |-> AddTarget(v1, e1, c)]]
           IsFold(f) == f = [Z \in SUBSET X |-> IF Z = {} THEN s
                               ELSE LET e1 == CHOOSE e1 \in Z : TRUE IN AddTarget(f[Z \ {e1}], e1, c)]
           g == CHOOSE f : IsFold(f)
           Good(Z, u) == Settled(u) /\ Sensed(s, u)
           J == [Z \in SUBSET X |-> {u \in D : Good(Z, u)}]
<1>1. t = g[X]
  BY DEF Notifying, FoldSet, MapThenFoldSet
<1>2. IsFiniteSet(X) /\ X \subseteq Being
  BY Kinds, FS_Subset
<1>3. Good({}, s)
  BY SensedIs DEF Settled, Live, Books
<1>4. ASSUME NEW Z \in SUBSET X, NEW e \in X, NEW u, Good(Z, u)
      PROVE  Good(Z \cup {e}, AddTarget(u, e, c))
  <2> DEFINE w == AddTarget(u, e, c)
  <2>1. Settled(u) /\ Sensed(s, u)
    BY <1>4
  <2>2. e \in Being /\ w = AddTarget(u, e, c)
    BY <1>2
  <2> HIDE DEF w
  <2>3. c \in Present(u)
    BY <2>1, SensedIs
  <2>4. Settled(w) /\ Sensed(u, w)
    BY <2>1, <2>2, <2>3, LiveAddTarget
  <2>5. Sensed(s, w)
    BY <2>1, <2>4, SensedThen
  <2> QED BY <2>2, <2>4, <2>5
<1>5. Good(X, g[X])
  <2> HIDE DEF X, Good
  <2>1. J \in [SUBSET X -> SUBSET D]
    OBVIOUS
  <2>2. s \in J[{}]
    <3>1. s \in D
      BY <1>3 DEF Good, Settled, Live, Books
    <3> QED BY <1>3, <3>1
  <2>3. Leads(X, J, op)
    <3> SUFFICES ASSUME NEW Z \in SUBSET X, NEW e \in X, e \notin Z, NEW y \in J[Z]
                 PROVE  op[e][y] \in J[Z \cup {e}]
      BY DEF Leads
    <3>1. y \in D /\ Good(Z, y) /\ op[e][y] = AddTarget(y, e, c) /\ Z \cup {e} \in SUBSET X
      OBVIOUS
    <3>2. Good(Z \cup {e}, op[e][y])
      BY <1>4, <3>1
    <3>3. op[e][y] \in D
      BY <3>2 DEF Good, Settled, Live, Books
    <3> HIDE DEF op
    <3> QED BY <3>1, <3>2, <3>3
  <2> HIDE DEF J
  <2>4. PICK f : FoldOf(f, X, s, op) /\ \A Z \in SUBSET X : f[Z] \in J[Z]
    <3> HIDE DEF op
    <3> QED BY <1>2, <2>1, <2>2, <2>3, FoldWithin
  <2>5. IsFold(f)
    <3>1. ASSUME NEW Z \in SUBSET X, NEW e \in Z
          PROVE  op[e][f[Z \ {e}]] = AddTarget(f[Z \ {e}], e, c)
      <4>1. e \in X /\ Z \ {e} \in SUBSET X
        OBVIOUS
      <4>2. f[Z \ {e}] \in D
        <5> HIDE DEF op
        <5> QED BY <2>1, <2>4, <4>1
      <4> QED BY <4>1, <4>2
    <3> HIDE DEF op
    <3>2. f = [Z \in SUBSET X |-> IF Z = {} THEN s
                  ELSE LET e == CHOOSE e \in Z : TRUE IN op[e][f[Z \ {e}]]]
      BY <2>4 DEF FoldOf
    <3> DEFINE e(Z) == CHOOSE e \in Z : TRUE
    <3>3. ASSUME NEW Z \in SUBSET X
          PROVE  (IF Z = {} THEN s ELSE op[e(Z)][f[Z \ {e(Z)}]])
                   = (IF Z = {} THEN s ELSE AddTarget(f[Z \ {e(Z)}], e(Z), c))
      <4>1. CASE Z = {}
        BY <4>1
      <4>2. CASE Z # {}
        <5>1. e(Z) \in Z
          BY <4>2
        <5> HIDE DEF e
        <5> QED BY <3>1, <4>2, <5>1
      <4> QED BY <4>1, <4>2
    <3> QED BY <3>2, <3>3
  <2>6. IsFold(g)
    <3> HIDE DEF IsFold
    <3> QED BY <2>5
  <2> HIDE DEF g
  <2>7. g[{}] = s
    BY <2>6
  <2>8. Follows(g, X, D, op)
    <3> SUFFICES ASSUME NEW Z \in SUBSET X, Z # {}
                 PROVE  \E e \in Z : g[Z \ {e}] \in D => g[Z] = op[e][g[Z \ {e}]]
      BY DEF Follows
    <3> DEFINE e == CHOOSE y \in Z : TRUE
    <3>1. e \in Z /\ g[Z] = AddTarget(g[Z \ {e}], e, c)
      BY <2>6
    <3> HIDE DEF e, op
    <3>2. g[Z \ {e}] \in D => g[Z] = op[e][g[Z \ {e}]]
      <4>1. e \in X
        BY <3>1
      <4> QED BY <3>1, <4>1 DEF op
    <3> QED BY <3>1, <3>2
  <2>9. g[X] \in J[X]
    <3> HIDE DEF op, IsFold
    <3>1. g[{}] \in J[{}]
      BY <2>2, <2>7
    <3> QED BY <1>2, <2>1, <2>3, <2>8, <3>1, Folding
  <2> QED BY <2>9 DEF J
<1> HIDE DEF g
<1> QED BY <1>1, <1>5

-----------------------------------------------------------------------------
(* The handlers *)

LEMMA CleanIs ==
  ASSUME NEW s, Clean(s)
  PROVE  /\ Settled(s) /\ Books(s) /\ Ranks(s, NoOne) /\ Aimed(s, NoOne, {}) /\ Noticing(s, {})
         /\ s \in CreState /\ Dead(s) = {}
BY DEF Clean, Settled, Live, Books

LEMMA EnterIs == ASSUME Clean(cre), NEW c \in Being, NEW spot \in Place, Enter(c, spot) PROVE Clean(cre')
<1> DEFINE s == PlaceCreature(cre, c, spot)
<1>1. cre.stage[c] = "none" /\ cre' = Deleted(s)
  BY DEF Enter
<1> HIDE DEF s
<1>2. Settled(s)
  BY <1>1, CleanIs, PlaceCreatureIs DEF s
<1> QED BY <1>1, <1>2, DeletedIs

\* The master of a monster on the map is there too.
LEMMA BossIs ==
  ASSUME NEW s, Settled(s), NEW m \in Placed(s), s.master[m] # NoOne
  PROVE  s.master[m] \in Placed(s)
<1> DEFINE b == s.master[m]
<1>1. s \in CreState /\ Ranks(s, NoOne) /\ m \in Being /\ NoOne \notin Being
  BY Kinds, PlacedIs DEF Settled, Live, Books
<1>2. b \in Being
  BY <1>1 DEF CreState
<1> HIDE DEF b
<1>3. m \in s.summons[b]
  BY <1>1, <1>2 DEF Ranks, b
<1>4. b \in Present(s)
  BY <1>1, <1>2, <1>3 DEF Ranks
<1>5. s.stage[b] # "removed"
  BY <1>1, <1>2, <1>3 DEF Ranks
<1> QED BY <1>2, <1>4, <1>5 DEF b, Present, Placed

LEMMA AddSummonIs ==
  ASSUME Clean(cre), NEW p \in Man, NEW m \in Tame, AddSummon(p, m)
  PROVE  Clean(cre')
<1> DEFINE u == SetAttackedCreature(cre, m, NoOne)
           v == SetFollowCreature(u, m, NoOne)
           s == SetMaster(v, m, p)
           X == (Spectators(s, s.at[m]) \cap Beast) \ {m}
           t == Notifying(s, m, X)
<1>1. /\ p \in Placed(cre) /\ m \in Placed(cre)
      /\ cre.summons[m] = {} /\ cre.master[m] # p /\ cre' = Deleted(t)
  BY DEF AddSummon, Notifying, FoldSet, MapThenFoldSet
<1>2. m \in Beast /\ m \in Being /\ p \in Being /\ NoOne \notin Being /\ p # m
  BY Kinds
<1>3. Settled(cre) /\ Books(cre) /\ cre \in CreState
  BY CleanIs
<1> HIDE DEF u, v, s, X, t
<1>4. Aiming(cre, u, NoOne)
  BY <1>2, <1>3, SetAttackedCreatureIs DEF u
<1>5. Settled(u)
  BY <1>2, <1>3, <1>4, LiveAimed DEF Settled
<1>6. Books(u)
  BY <1>5 DEF Settled, Live
<1>7. Aiming(u, v, NoOne)
  BY <1>2, <1>6, SetFollowCreatureIs DEF v
<1>8. Settled(v)
  BY <1>2, <1>5, <1>7, LiveAimed DEF Settled
<1>9. /\ Placed(v) = Placed(cre) /\ v.master = cre.master /\ v.summons = cre.summons
      /\ v.at = cre.at
  BY <1>4, <1>7, AimingKeeps
<1>10. v.master[p] = NoOne
  BY <1>8 DEF Settled, Live, Ranks
<1>11. {p, m} \subseteq Placed(v) /\ v.master[m] # p /\ v.summons[m] = {}
  BY <1>1, <1>9
<1>12. Settled(s) /\ Bonding(v, s)
  <2>1. Live(v, NoOne, {}, {}, NoOne)
    BY <1>8 DEF Settled
  <2>2. Live(s, NoOne, {}, {}, NoOne) /\ Bonding(v, s)
    BY <1>2, <1>10, <1>11, <2>1, LiveBonded DEF s
  <2> QED BY <2>2 DEF Settled
<1>13. m \in Present(s)
  BY <1>11, <1>12, BondingKeeps, PlacedIs
<1>14. X \subseteq Being
  BY Kinds DEF X
<1>15. Settled(t)
  BY <1>12, <1>13, <1>14, NotifyingIs DEF t
<1> QED BY <1>1, <1>15, DeletedIs

LEMMA MonsterSummonsIs ==
  ASSUME Clean(cre), NEW m \in Beast, NEW d \in Tame, MonsterSummons(m, d)
  PROVE  Clean(cre')
<1> DEFINE spot == cre.at[m]
           s == PlaceCreature(cre, d, spot)
           t == SetMaster(s, d, m)
<1>1. /\ m \in Placed(cre) /\ cre.master[m] = NoOne /\ cre.stage[d] = "none" /\ cre' = Deleted(t)
  BY DEF MonsterSummons
<1>2. m \in Being /\ d \in Being /\ d \in Beast /\ NoOne \notin Being
  BY Kinds
<1>3. Settled(cre) /\ Ranks(cre, NoOne) /\ cre \in CreState
  BY CleanIs
<1>4. spot \in Place \cup {NoOne} /\ m # d
  BY <1>1, <1>2, <1>3 DEF CreState, Placed
<1> HIDE DEF spot, s, t
<1>5. Settled(s) /\ Placed(s) = Placed(cre) \cup {d} /\ SameBonds(cre, s)
  BY <1>1, <1>2, <1>3, <1>4, PlaceCreatureIs DEF s
<1>6. s.master = cre.master /\ s.summons = cre.summons
  BY <1>5 DEF SameBonds
<1>7. cre.master[d] = NoOne /\ cre.summons[d] = {}
  BY <1>1, <1>2, <1>3 DEF Ranks, Present
<1>8. {m, d} \subseteq Placed(s) /\ s.master[d] # m /\ s.summons[d] = {} /\ s.master[m] = NoOne
  BY <1>1, <1>2, <1>5, <1>6, <1>7
<1>9. Settled(t)
  <2>1. Live(s, NoOne, {}, {}, NoOne)
    BY <1>5 DEF Settled
  <2>2. Live(t, NoOne, {}, {}, NoOne)
    BY <1>2, <1>4, <1>8, <2>1, LiveBonded DEF t
  <2> QED BY <2>2 DEF Settled
<1> QED BY <1>1, <1>9, DeletedIs

LEMMA WalkIs == ASSUME Clean(cre), NEW c \in Being, NEW spot \in Place, Walk(c, spot) PROVE Clean(cre')
<1>1. c \in Placed(cre) /\ \E far \in SUBSET OutOfRange(cre, c, spot) : cre' = Cleanup(MoveCreature(cre, c, spot, far))
  BY DEF Walk
<1>2. PICK far \in SUBSET OutOfRange(cre, c, spot) : cre' = Cleanup(MoveCreature(cre, c, spot, far))
  BY <1>1
<1> DEFINE s == MoveCreature(cre, c, spot, far)
<1>3. far \in SUBSET cre.summons[c]
  BY DEF OutOfRange
<1>4. cre' = Cleanup(s)
  BY <1>2
<1> HIDE DEF s
<1>5. Settled(s)
  BY <1>1, <1>3, CleanIs, MoveCreatureIs DEF s
<1> QED BY <1>4, <1>5, CleanupIs

\* One on the map turns on somebody else there, or on nobody.
LEMMA TurnedIs ==
  ASSUME NEW s, Settled(s), NEW c \in Placed(s), NEW g \in Placed(s) \cup {NoOne}
  PROVE  /\ \A t : t = SetAttackedCreature(s, c, g) => Settled(t) /\ Aiming(s, t, g)
         /\ \A t : t = SetFollowCreature(s, c, g) => Settled(t) /\ Aiming(s, t, g)
<1>1. Books(s) /\ c \in Being /\ c \in Present(s) /\ g \in Being \cup {NoOne} /\ NoOne \notin Being
  BY PlacedIs, Kinds DEF Settled, Live
<1>2. ASSUME NEW t, t = SetAttackedCreature(s, c, g) PROVE Settled(t) /\ Aiming(s, t, g)
  <2>1. Aiming(s, t, g)
    BY <1>1, <1>2, SetAttackedCreatureIs
  <2> QED BY <1>1, <2>1, LiveAimed DEF Settled
<1>3. ASSUME NEW t, t = SetFollowCreature(s, c, g) PROVE Settled(t) /\ Aiming(s, t, g)
  <2>1. Aiming(s, t, g)
    BY <1>1, <1>3, SetFollowCreatureIs
  <2> QED BY <1>1, <2>1, LiveAimed DEF Settled
<1> QED BY <1>2, <1>3

\* Nobody is deleted by a step that changes no counter.
LEMMA StillClean ==
  ASSUME NEW s, Clean(s), NEW t, Settled(t), t.stage = s.stage, t.refs = s.refs
  PROVE  Clean(t)
BY DEF Clean, Dead

LEMMA OrderIs ==
  ASSUME Clean(cre), NEW p \in Man, NEW t \in Being \cup {NoOne}, NEW chase, Order(p, t, chase)
  PROVE  Clean(cre')
<1> DEFINE h == IF chase THEN t ELSE NoOne
           u == SetAttackedCreature(cre, p, t)
           v == SetFollowCreature(u, p, h)
<1>1. p \in Placed(cre) /\ t \in Placed(cre) \cup {NoOne} /\ cre' = v
  BY DEF Order
<1>2. h \in {t, NoOne}
  OBVIOUS
<1> HIDE DEF h, u, v
<1>3. Settled(u) /\ Aiming(cre, u, t)
  BY <1>1, CleanIs, TurnedIs DEF u
<1>4. p \in Placed(u) /\ h \in Placed(u) \cup {NoOne}
  BY <1>1, <1>2, <1>3, AimingKeeps
<1>5. Settled(v) /\ Aiming(u, v, h)
  BY <1>3, <1>4, TurnedIs DEF v
<1>6. v.stage = cre.stage /\ v.refs = cre.refs
  BY <1>3, <1>5, AimingKeeps DEF Aiming
<1> QED BY <1>1, <1>5, <1>6, StillClean

LEMMA DrainIs == ASSUME Clean(cre), NEW c \in Being, Drain(c) PROVE Clean(cre')
<1> DEFINE A == cre.alive \ {c}
           D == cre.deaths \cup {c}
           t == Vital(cre, A, D)
<1>1. Settled(cre) /\ Ranks(cre, NoOne) /\ cre \in CreState
  BY CleanIs
<1>2. cre' = t
  BY <1>1 DEF Drain, Vital, CreState
<1>3. /\ A \in SUBSET Being /\ D \in SUBSET Being /\ A \cap D = {} /\ A \cap Beast \subseteq cre.alive
  BY <1>1 DEF CreState, Ranks
<1> HIDE DEF A, D
<1>4. t.refs = cre.refs
  BY <1>1 DEF Vital, CreState
<1> HIDE DEF t
<1>5. Settled(t) /\ t.stage = cre.stage
  BY <1>1, <1>3, VitalIs DEF t
<1> QED BY <1>2, <1>4, <1>5, StillClean

LEMMA ExecuteDeathIs == ASSUME Clean(cre), NEW c \in Being, ExecuteDeath(c) PROVE Clean(cre')
<1> DEFINE D == cre.deaths \ {c}
           A == cre.alive
           s == Vital(cre, A, D)
           t == IF c \in Beast THEN Perish(s, c) ELSE s
           u == SetMaster(t, c, NoOne)
           v == RemoveCreature(u, c)
<1>1. Settled(cre) /\ Ranks(cre, NoOne) /\ cre \in CreState
  BY CleanIs
<1>2. c \in cre.deaths /\ cre' = Deleted(IF c \in Placed(s) THEN v ELSE s)
  <2>1. s = [cre EXCEPT !.deaths = @ \ {c}]
    BY <1>1 DEF Vital, CreState
  <2> HIDE DEF s
  <2> QED BY <2>1 DEF ExecuteDeath
<1>3. /\ A \in SUBSET Being /\ D \in SUBSET Being /\ A \cap D = {} /\ A \cap Beast \subseteq cre.alive
      /\ c \notin A
  BY <1>1, <1>2 DEF CreState, Ranks
<1> HIDE DEF A, D, u, v
<1>4. Settled(s) /\ s.alive = A
  <2> HIDE DEF s, t
  <2> QED BY <1>1, <1>3, VitalIs DEF s
<1>5. Settled(t) /\ c \notin t.alive
  <2> HIDE DEF s
  <2>1. CASE c \in Beast
    <3>1. t = Perish(s, c)
      BY <2>1
    <3> HIDE DEF t
    <3> QED BY <1>3, <1>4, <3>1, PerishIs
  <2>2. CASE c \notin Beast
    BY <1>3, <1>4, <2>2
  <2> QED BY <2>1, <2>2
<1> HIDE DEF s, t
<1>6. Settled(u)
  <2>1. Live(t, NoOne, {}, {}, NoOne) /\ c \notin Placed(t) \cap t.alive \cap Beast
    BY <1>5 DEF Settled
  <2>2. Live(u, NoOne, {}, {}, NoOne)
    BY <2>1, LiveBonded DEF u
  <2> QED BY <2>2 DEF Settled
<1>7. Settled(v)
  BY <1>6, RemoveCreatureIs DEF v, Settled
<1> DEFINE w == IF c \in Placed(s) THEN v ELSE s
<1>8. Settled(w) /\ cre' = Deleted(w)
  BY <1>2, <1>4, <1>7
<1> HIDE DEF w
<1> QED BY <1>8, DeletedIs

LEMMA ReviveIs == ASSUME Clean(cre), NEW p \in Man, NEW spot \in Place, Revive(p, spot) PROVE Clean(cre')
<1> DEFINE D == cre.deaths \ {p}
           A == cre.alive \cup {p}
           s == Vital(cre, A, D)
           far == OutOfRange(s, p, spot)
           v == MoveCreature(s, p, spot, far)
           w == IF spot = s.at[p] THEN s ELSE v
<1>1. Settled(cre) /\ Ranks(cre, NoOne) /\ cre \in CreState /\ p \in Being /\ p \notin Beast
  BY CleanIs, Kinds
<1>2. p \in Placed(cre) /\ cre' = Deleted(w)
  <2>1. s = [cre EXCEPT !.deaths = @ \ {p}, !.alive = @ \cup {p}]
    BY <1>1 DEF Vital, CreState
  <2> HIDE DEF s
  <2> QED BY <2>1 DEF Revive
<1>3. A \in SUBSET Being /\ D \in SUBSET Being /\ A \cap D = {} /\ A \cap Beast \subseteq cre.alive
  BY <1>1 DEF CreState, Ranks
<1> HIDE DEF A, D, s, v
<1>4. Settled(s) /\ Placed(s) = Placed(cre)
  BY <1>1, <1>3, VitalIs DEF s
<1>5. far \in SUBSET s.summons[p] /\ p \in Placed(s)
  BY <1>2, <1>4 DEF OutOfRange
<1> HIDE DEF far
<1>6. Settled(v)
  BY <1>4, <1>5, MoveCreatureIs DEF v
<1>7. Settled(w)
  BY <1>4, <1>6
<1> HIDE DEF w
<1> QED BY <1>2, <1>7, DeletedIs

LEMMA LeaveIs == ASSUME Clean(cre), NEW c \in Being, Leave(c) PROVE Clean(cre')
<1> DEFINE s == RemoveCreature(cre, c)
<1>1. cre' = Deleted(s)
  BY DEF Leave
<1> HIDE DEF s
<1>2. Settled(s)
  BY CleanIs, RemoveCreatureIs DEF s, Settled
<1> QED BY <1>1, <1>2, DeletedIs

\* Whoever is off the map may follow whom it likes.
LEMMA FollowsIs ==
  ASSUME NEW s, Settled(s), NEW m \in Present(s), NEW g \in Being \cup {NoOne},
         m \in Placed(s) => g \in Placed(s), NEW t, t = SetFollowCreature(s, m, g)
  PROVE  Settled(t)
<1>1. Books(s) /\ m \in Being /\ NoOne \notin Being
  BY PlacedIs, Kinds DEF Settled, Live
<1>2. Aiming(s, t, g) /\ t.attacked = s.attacked /\ \A d \in Being \ {m} : t.follow[d] = s.follow[d]
  BY <1>1, SetFollowCreatureIs
<1>3. (g \in Being => g \in Placed(s)) \/ Intent(s, t)
  <2>1. CASE m \notin Placed(s)
    <3>1. \A d \in Placed(s) : d \in Being \ {m}
      BY <2>1, PlacedIs
    <3> QED BY <1>2, <3>1 DEF Intent
  <2> QED BY <2>1
<1> QED BY <1>2, <1>3, LiveAimed DEF Settled

LEMMA MonsterThinksIs ==
  ASSUME NEW s, Settled(s), NEW m \in Present(s), NEW path, NEW t \in MonsterThinks(s, m, path)
  PROVE  Settled(t)
<1> DEFINE r == IF s.follow[m] # NoOne /\ s.master[m] # NoOne /\ ~path
                THEN RemoveTargets(s, m, {s.follow[m]}) ELSE s
           u == UpdateIdleStatus(r, m)
           boss == u.master[m]
<1>1. \/ t = u
      \/ boss # NoOne /\ u.attacked[m] # NoOne /\ t = SetFollowCreature(u, m, u.attacked[m])
      \/ boss # NoOne /\ u.attacked[boss] # NoOne /\ t = SelectTarget(u, m, u.attacked[boss])
      \/ boss # NoOne /\ t = SetFollowCreature(u, m, boss)
      \/ \E t2 \in u.targets[m] : t = SelectTarget(u, m, t2)
  BY DEF MonsterThinks
<1>2. m \in Being /\ NoOne \notin Being /\ Books(s) /\ Noticing(s, {})
  BY PlacedIs, Kinds DEF Settled, Live
<1> HIDE DEF u, boss
<1>3. Settled(r) /\ Sensed(s, r)
  <2>1. CASE s.follow[m] # NoOne /\ s.master[m] # NoOne /\ ~path
    <3> DEFINE out == {s.follow[m]}
    <3>1. r = RemoveTargets(s, m, out)
      BY <2>1
    <3> HIDE DEF r, out
    <3>2. Books(r) /\ Sensing(s, r, m)
      BY <1>2, <3>1, RemoveTargetsIs
    <3>3. ~Wild(s, m)
      BY <2>1 DEF Wild
    <3>4. Noticing(r, {})
      BY <1>2, <3>2, <3>3, SensingNotices
    <3> QED BY <3>2, <3>4, LiveSensed, SensedIs DEF Settled
  <2>2. CASE ~(s.follow[m] # NoOne /\ s.master[m] # NoOne /\ ~path)
    <3>1. r = s
      BY <2>2
    <3> HIDE DEF r
    <3> QED BY <1>2, <3>1, SensedIs DEF Books
  <2> QED BY <2>1, <2>2
<1> HIDE DEF r
<1>4. Settled(u) /\ Sensing(r, u, m)
  BY <1>2, <1>3, LiveIdle DEF u, Settled
<1>5. m \in Present(u)
  BY <1>3, <1>4, SensedIs
<1>6. u \in CreState /\ Aimed(u, NoOne, {})
  BY <1>4 DEF Settled, Live, Books
<1>7. boss \in Being \cup {NoOne} /\ u.attacked[m] \in Being \cup {NoOne} /\ u.targets[m] \subseteq Being
  BY <1>2, <1>6 DEF CreState, boss
<1>8. ASSUME boss # NoOne, u.attacked[m] # NoOne, t = SetFollowCreature(u, m, u.attacked[m])
      PROVE  Settled(t)
  <2>1. m \in Placed(u) => u.attacked[m] \in Placed(u)
    BY <1>2, <1>6, <1>8 DEF Aimed, InSight
  <2> DEFINE g == u.attacked[m]
  <2>2. g \in Being \cup {NoOne} /\ (m \in Placed(u) => g \in Placed(u)) /\ t = SetFollowCreature(u, m, g)
    BY <1>7, <1>8, <2>1
  <2> HIDE DEF g
  <2> QED BY <1>4, <1>5, <2>2, FollowsIs
<1>9. ASSUME boss # NoOne, t = SetFollowCreature(u, m, boss) PROVE Settled(t)
  <2>1. m \in Placed(u) => boss \in Placed(u)
    BY <1>4, <1>9, BossIs DEF boss
  <2> QED BY <1>4, <1>5, <1>7, <1>9, <2>1, FollowsIs
<1>10. ASSUME NEW g \in Being, t = SelectTarget(u, m, g) PROVE Settled(t)
  BY <1>4, <1>5, <1>10, LiveSelected DEF Settled
<1>11. boss # NoOne /\ u.attacked[boss] # NoOne => u.attacked[boss] \in Being
  BY <1>6, <1>7 DEF CreState
<1> QED BY <1>1, <1>4, <1>7, <1>8, <1>9, <1>10, <1>11

LEMMA CheckCreaturesIs ==
  ASSUME Clean(cre), NEW m \in Beast, NEW path, NEW steps, CheckCreatures(m, path, steps)
  PROVE  Clean(cre')
<1>1. /\ m \in cre.listed /\ \E s \in MonsterThinks(cre, m, path) :
                                cre' = Cleanup(Unlist(IF steps THEN Cleanup(s) ELSE s))
  BY DEF CheckCreatures
<1>2. PICK s \in MonsterThinks(cre, m, path) : cre' = Cleanup(Unlist(IF steps THEN Cleanup(s) ELSE s))
  BY <1>1
<1>3. m \in Present(cre)
  BY <1>1, CleanIs, HeldIs, Kinds
<1>4. Settled(s)
  BY <1>3, CleanIs, MonsterThinksIs
<1> DEFINE v == Cleanup(s)
           u == IF steps THEN v ELSE s
           w == Unlist(u)
<1>5. Settled(v)
  <2> HIDE DEF v
  <2>1. Clean(v)
    BY <1>4, CleanupIs DEF v
  <2> QED BY <2>1 DEF Clean
<1>6. Settled(u)
  <2> HIDE DEF v
  <2> QED BY <1>4, <1>5
<1>7. cre' = Cleanup(w)
  BY <1>2
<1> HIDE DEF u, w
<1>8. Settled(w)
  BY <1>6, UnlistIs DEF w
<1> QED BY <1>7, <1>8, CleanupIs

LEMMA SweepCreaturesIs == ASSUME Clean(cre), SweepCreatures PROVE Clean(cre')
<1> DEFINE w == Unlist(cre)
<1>1. cre' = Cleanup(w)
  BY DEF SweepCreatures
<1> HIDE DEF w
<1>2. Settled(w)
  BY CleanIs, UnlistIs DEF w
<1> QED BY <1>1, <1>2, CleanupIs

LEMMA CreInitially == CreInit => Clean(cre)
<1> SUFFICES ASSUME CreInit PROVE Clean(cre)
  OBVIOUS
<1>1. /\ \A c \in Being : /\ cre.stage[c] = "none" /\ cre.refs[c] = 0 /\ cre.releases[c] = 0
                          /\ cre.master[c] = NoOne /\ cre.summons[c] = {} /\ cre.attacked[c] = NoOne
                          /\ cre.follow[c] = NoOne /\ cre.targets[c] = {} /\ cre.friends[c] = {}
      /\ cre.listed = {} /\ cre.check = {} /\ cre.alive = Being /\ cre.deaths = {}
  BY DEF CreInit
<1>2. cre \in CreState
  BY DEF CreInit, CreState
<1>3. Placed(cre) = {} /\ Present(cre) = {} /\ Dead(cre) = {}
  BY <1>1 DEF Placed, Present, Dead
<1>4. Books(cre)
  <2>1. ASSUME NEW c \in Being PROVE CountOf(cre, c) = 0
    <3>1. Tally(cre.targets, c) = 0 /\ Tally(cre.friends, c) = 0 /\ Tally(cre.summons, c) = 0
      <4> DEFINE T == cre.targets
                 F == cre.friends
                 S == cre.summons
      <4>1. \A m \in Being : c \notin T[m] /\ c \notin F[m] /\ c \notin S[m]
        BY <1>1
      <4> HIDE DEF T, F, S
      <4>2. Tally(T, c) = 0 /\ Tally(F, c) = 0 /\ Tally(S, c) = 0
        BY <4>1, TallyIs
      <4> QED BY <4>2 DEF T, F, S
    <3>2. Mark(c, Placed(cre)) = 0 /\ Mark(c, cre.listed) = 0
      BY <1>1, <1>3 DEF Mark
    <3> QED BY <1>1, <3>1, <3>2 DEF CountOf
  <2> QED BY <1>1, <1>2, <2>1 DEF Books
<1>5. Ranks(cre, NoOne)
  BY <1>1, <1>3, Kinds DEF Ranks
<1>6. Aimed(cre, NoOne, {}) /\ Noticing(cre, {})
  BY <1>3 DEF Aimed, Noticing
<1> QED BY <1>3, <1>4, <1>5, <1>6 DEF Clean, Settled, Live

LEMMA CreaturesKept == Clean(cre) /\ [CreNext]_cre => Clean(cre)'
<1>1. Clean(cre) /\ cre' = cre => Clean(cre')
  OBVIOUS
<1>2. Clean(cre) /\ CreNext => Clean(cre')
  <2> SUFFICES ASSUME Clean(cre), CreNext PROVE Clean(cre')
    OBVIOUS
  <2>1. ASSUME NEW c \in Being, Drain(c) \/ ExecuteDeath(c) \/ Leave(c) PROVE Clean(cre')
    BY <2>1, DrainIs, ExecuteDeathIs, LeaveIs
  <2>2. ASSUME NEW c \in Being, NEW spot \in Place, Enter(c, spot) \/ Walk(c, spot) PROVE Clean(cre')
    BY <2>2, EnterIs, WalkIs
  <2>3. ASSUME NEW p \in Man, NEW m \in Tame, AddSummon(p, m) PROVE Clean(cre')
    BY <2>3, AddSummonIs
  <2>4. ASSUME NEW p \in Man, NEW t \in Being \cup {NoOne}, NEW chase \in Chase, Order(p, t, chase)
        PROVE  Clean(cre')
    BY <2>4, OrderIs
  <2>5. ASSUME NEW p \in Man, NEW spot \in Place, Revive(p, spot) PROVE Clean(cre')
    BY <2>5, ReviveIs
  <2>6. ASSUME NEW m \in Beast, NEW d \in Tame, MonsterSummons(m, d) PROVE Clean(cre')
    BY <2>6, MonsterSummonsIs
  <2>7. ASSUME NEW m \in Beast, NEW path \in BOOLEAN, NEW steps \in BOOLEAN, CheckCreatures(m, path, steps)
        PROVE  Clean(cre')
    BY <2>7, CheckCreaturesIs
  <2>8. ASSUME SweepCreatures PROVE Clean(cre')
    BY <2>8, SweepCreaturesIs
  <2> QED BY <2>1, <2>2, <2>3, <2>4, <2>5, <2>6, <2>7, <2>8 DEF CreNext
<1> QED BY <1>1, <1>2

LEMMA CreaturesImply == Clean(cre) => CreaturesAgree /\ MonstersNotice
<1> SUFFICES ASSUME Clean(cre) PROVE CreaturesAgree /\ MonstersNotice
  OBVIOUS
<1>1. /\ Books(cre) /\ Ranks(cre, NoOne) /\ Aimed(cre, NoOne, {}) /\ Noticing(cre, {})
      /\ cre \in CreState /\ Dead(cre) = {} /\ NoOne \notin Being
  BY CleanIs, Kinds
<1>2. ASSUME NEW c \in Being
      PROVE  /\ cre.refs[c] = Holders(c)
             /\ cre.stage[c] \in {"none", "freed"} <=> cre.refs[c] = 0
  <2>1. \A S : Cardinality({c} \cap S) = Mark(c, S)
    <3> TAKE S
    <3>1. CASE c \in S
      <4>1. {c} \cap S = {c}
        BY <3>1
      <4> QED BY <3>1, <4>1, FS_Singleton DEF Mark
    <3>2. CASE c \notin S
      <4>1. {c} \cap S = {}
        BY <3>2
      <4> QED BY <3>2, <4>1, FS_EmptySet DEF Mark
    <3> QED BY <3>1, <3>2
  <2>2. Holders(c) = CountOf(cre, c)
    BY <2>1 DEF Holders, CountOf, Tally
  <2>3. cre.stage[c] \in {"none", "placed", "removed", "freed"} /\ cre.refs[c] \in Nat /\ cre.releases[c] \in Nat
    BY <1>1 DEF CreState
  <2>4. cre.stage[c] \in {"none", "freed"} => cre.refs[c] = 0
    BY <1>1 DEF Books, Present
  <2>5. cre.stage[c] = "placed" => cre.refs[c] >= 1
    BY <1>1, <2>3, HeldIs DEF Placed
  <2>6. cre.stage[c] = "removed" => cre.refs[c] # 0
    BY <1>1 DEF Dead
  <2> QED BY <1>1, <2>2, <2>3, <2>4, <2>5, <2>6 DEF Books
<1>3. CountersAgree
  BY <1>2 DEF CountersAgree
<1>4. NothingDangles
  <2> SUFFICES ASSUME NEW c \in Placed(cre)
               PROVE  /\ {cre.attacked[c], cre.follow[c]} \ {NoOne} \subseteq Spectators(cre, cre.at[c])
                      /\ cre.master[c] # NoOne => c \in cre.summons[cre.master[c]]
    BY DEF NothingDangles
  <2>1. c \in Being
    BY PlacedIs
  <2>2. ASSUME NEW d, InSight(cre, c, d, NoOne, {}) PROVE d \in Spectators(cre, cre.at[c])
    <3>1. d \in Placed(cre) /\ cre.at[c] = cre.at[d]
      BY <2>1, <2>2, <1>1 DEF InSight, CanSee
    <3> QED BY <3>1 DEF Spectators
  <2>3. /\ cre.attacked[c] # NoOne => cre.attacked[c] \in Spectators(cre, cre.at[c])
        /\ cre.follow[c] # NoOne => cre.follow[c] \in Spectators(cre, cre.at[c])
    BY <1>1, <2>2 DEF Aimed
  <2>4. cre.master[c] # NoOne => c \in cre.summons[cre.master[c]]
    <3>1. cre.master[c] \in Being \cup {NoOne}
      BY <1>1, <2>1 DEF CreState
    <3> QED BY <1>1, <2>1, <3>1 DEF Ranks
  <2> QED BY <2>3, <2>4
<1>5. MonstersNotice
  <2> SUFFICES ASSUME NEW m \in Placed(cre) \cap cre.alive \cap Beast, NEW p \in Placed(cre) \cap Man,
                      cre.master[m] = NoOne, CanSee(cre, m, p)
               PROVE  p \in cre.targets[m] /\ m \in cre.check
    BY DEF MonstersNotice
  <2>1. Wild(cre, m) /\ m \in Being /\ p \in Being
    BY PlacedIs DEF Wild
  <2> QED BY <1>1, <2>1 DEF Noticing
<1> QED BY <1>3, <1>4, <1>5 DEF CreaturesAgree

\* However creatures come, walk, summon, think, kill, die and leave, each counter
\* is the number of those who hold the creature and nobody is deleted while held,
\* whom a creature attacks or follows is in its sight, and a wild monster has
\* noted every player at its spot (creature.cpp:441-646, game.cpp:507-606, monster.cpp:284-406).
THEOREM CreaturesStaySound == CreSpec => [](CreaturesAgree /\ MonstersNotice)
<1>1. CreSpec => []Clean(cre)
  BY CreInitially, CreaturesKept, PTL DEF CreSpec
<1> QED BY <1>1, CreaturesImply, PTL
=============================================================================
