--------------------------- MODULE IsfsFileProofs ---------------------------
(***************************************************************************)
(* Proofs about IsfsFile and Ancast: what the path lookup finds, where a   *)
(* handle stands and what a read delivers, for every file table, chain,    *)
(* path and size; and the outcome of ancast_ppc_load, which makes the      *)
(* calls.                                                                  *)
(*                                                                         *)
(* IsfsFile has no behaviour of its own.  What is proved of it is what     *)
(* every call preserves (CallRight) and what follows from it               *)
(* (PropertiesHold).  The recursions over the file table descend by its    *)
(* rank: RecursionExists shows that the functions they define exist, and   *)
(* Least does the inductions over them.  The invariant of Ancast says at   *)
(* each step what the steps before it have made certain; HandlesRight is   *)
(* the part below it.                                                      *)
(***************************************************************************)
EXTENDS Ancast, WellFoundedInduction, SequenceTheorems, TLAPS

---------------------------------------------------------------------------
\* Induction and recursion: the provers have no induction over data, but a set of
\* naturals has a least element, and from that a recursion with a rank has a solution.

\* A nonempty set of naturals has a least element: what stands in for induction below.
LEMMA Least ==
  ASSUME NEW T, T \subseteq Nat, T # {}
  PROVE  \E x \in T : \A y \in T : x <= y
<1> DEFINE R == {ss \in Nat \X Nat : ss[1] < ss[2]}
<1>1. PICK x \in T : \A y \in T : ~ (<<y, x>> \in R)
  <2>1. IsWellFoundedOn(R, Nat)
    BY NatLessThanWellFounded DEF OpToRel
  <2> HIDE DEF R
  <2> QED
    BY <2>1, WFMin
<1>2. \A y \in T : ~(y < x)
  BY <1>1
<1> QED
  BY <1>1, <1>2

\* Induction over the naturals, for a set instead of a predicate.
LEMMA SetInduction ==
  ASSUME NEW T, 0 \in T, \A n \in Nat : n \in T => n + 1 \in T
  PROVE  Nat \subseteq T
<1> SUFFICES ASSUME Nat \ T # {} PROVE FALSE
  OBVIOUS
<1>1. PICK x \in Nat \ T : \A y \in Nat \ T : x <= y
  BY Least
<1>2. x # 0 /\ x - 1 \in Nat
  BY <1>1
<1>3. x - 1 \in T
  BY <1>1, <1>2
<1> QED
  BY <1>1, <1>2, <1>3

\* Rule is the body of a recursive function on D with values in V, and what it asks of
\* the function at x is only what the function returns where the rank is lower.
Descends(D, V, rank, Rule) ==
  /\ V # {} /\ rank \in [D -> Nat] /\ Rule \in [[D -> V] -> [D -> V]]
  /\ \A g, h \in [D -> V] : \A x \in D :
       (\A y \in D : rank[y] < rank[x] => g[y] = h[y]) => Rule[g][x] = Rule[h][x]

\* Such a recursion has a solution: the function the definition describes exists.
LEMMA RecursionExists ==
  ASSUME NEW D, NEW V, NEW rank, NEW Rule, Descends(D, V, rank, Rule)
  PROVE  \E g \in [D -> V] : g = Rule[g]
<1> USE DEF Descends
<1> DEFINE Upto(g, n) == \A x \in D : rank[x] < n => g[x] = Rule[g][x]
           Reached == {n \in Nat : \E g \in [D -> V] : Upto(g, n)}
<1>1. 0 \in Reached
  <2>1. [x \in D |-> CHOOSE w \in V : TRUE] \in [D -> V]
    OBVIOUS
  <2>2. \A g : Upto(g, 0)
    OBVIOUS
  <2> QED
    BY <2>1, <2>2
<1>2. ASSUME NEW n \in Nat, n \in Reached
      PROVE  n + 1 \in Reached
  <2>1. PICK g \in [D -> V] : Upto(g, n)
    BY <1>2
  <2>2. Rule[g] \in [D -> V]
    OBVIOUS
  <2>3. ASSUME NEW x \in D, rank[x] < n + 1
        PROVE  Rule[g][x] = Rule[Rule[g]][x]
    <3>1. \A y \in D : rank[y] < rank[x] => g[y] = Rule[g][y]
      BY <2>1, <2>3
    <3> QED
      BY <2>2, <3>1
  <2>4. Upto(Rule[g], n + 1)
    BY <2>3
  <2> QED
    BY <2>2, <2>4
<1>3. \A n \in Nat : \E g \in [D -> V] : Upto(g, n)
  <2>1. Nat \subseteq Reached
    <3> HIDE DEF Reached
    <3> QED
      BY <1>1, <1>2, SetInduction
  <2> QED
    BY <2>1
<1>4. ASSUME NEW n \in Nat, NEW g \in [D -> V], Upto(g, n), NEW h \in [D -> V], Upto(h, n)
      PROVE  \A x \in D : rank[x] < n => g[x] = h[x]
  <2> DEFINE Differ == {k \in Nat : k < n /\ \E x \in D : rank[x] = k /\ g[x] # h[x]}
  <2> SUFFICES ASSUME Differ # {} PROVE FALSE
    OBVIOUS
  <2>1. PICK k \in Differ : \A l \in Differ : k <= l
    <3>1. Differ \subseteq Nat
      OBVIOUS
    <3> HIDE DEF Differ
    <3> QED
      BY <3>1, Least
  <2>2. PICK x \in D : rank[x] = k /\ g[x] # h[x]
    OBVIOUS
  <2>3. \A y \in D : rank[y] < rank[x] => g[y] = h[y]
    BY <2>1, <2>2
  <2>4. Rule[g][x] = Rule[h][x]
    BY <2>3
  <2> QED
    BY <1>4, <2>1, <2>2, <2>4
<1> DEFINE To(n) == CHOOSE g \in [D -> V] : Upto(g, n)
           All == [x \in D |-> To(rank[x] + 1)[x]]
<1>5. \A n \in Nat : To(n) \in [D -> V] /\ Upto(To(n), n)
  BY <1>3
<1>6. All \in [D -> V]
  <2> HIDE DEF To
  <2> QED
    BY <1>5
<1>7. ASSUME NEW x \in D
      PROVE  All[x] = Rule[All][x]
  <2> DEFINE g == To(rank[x] + 1)
  <2>1. /\ rank[x] \in Nat /\ rank[x] + 1 \in Nat
        /\ g \in [D -> V] /\ Upto(g, rank[x] + 1)
    <3> HIDE DEF To, Upto
    <3> QED
      BY <1>5
  <2>2. All[x] = g[x]
    OBVIOUS
  <2> HIDE DEF g
  <2>3. ASSUME NEW y \in D, rank[y] < rank[x]
        PROVE  g[y] = All[y]
    <3>1. rank[y] \in Nat /\ rank[y] + 1 \in Nat
      OBVIOUS
    <3>2. Upto(g, rank[y] + 1)
      BY <2>1, <2>3, <3>1
    <3>3. All[y] = To(rank[y] + 1)[y]
      OBVIOUS
    <3>4. To(rank[y] + 1) \in [D -> V] /\ Upto(To(rank[y] + 1), rank[y] + 1)
      BY <1>5, <3>1
    <3> HIDE DEF To, All, Upto
    <3>5. g[y] = To(rank[y] + 1)[y]
      BY <1>4, <2>1, <3>1, <3>2, <3>4
    <3> QED
      BY <3>3, <3>5
  <2>4. g[x] = Rule[g][x]
    BY <2>1
  <2> HIDE DEF All
  <2>5. Rule[g][x] = Rule[All][x]
    BY <1>6, <2>1, <2>3
  <2> QED
    BY <2>2, <2>4, <2>5
<1>8. All = Rule[All]
  <2> HIDE DEF All
  <2>1. Rule[All] \in [D -> V]
    BY <1>6
  <2> QED
    BY <1>6, <1>7, <2>1
<1> QED
  BY <1>6, <1>8

---------------------------------------------------------------------------
\* Chains of clusters.

\* Follow takes one link of the FAT per step, as the loops of isfs.c do: fat[fat[... c]].
LEMMA FollowStep ==
  ASSUME NEW v, NEW c
  PROVE  /\ Follow(v, c, 0) = c
         /\ \A n \in Nat : Follow(v, c, n + 1) = NextCluster(v, Follow(v, c, n))
<1> DEFINE V == {c, Last} \cup {Fat[v][x] : x \in DOMAIN Fat[v]}
           Rule == [g \in [Nat -> V] |->
                      [k \in Nat |-> IF k = 0 THEN c ELSE NextCluster(v, g[k - 1])]]
           id == [k \in Nat |-> k]
           to == CHOOSE f : f = [k \in Nat |-> IF k = 0 THEN c ELSE NextCluster(v, f[k - 1])]
<1>1. \A w : NextCluster(v, w) \in V
  BY DEF NextCluster
<1>2. Rule \in [[Nat -> V] -> [Nat -> V]]
  <2>1. c \in V
    OBVIOUS
  <2> HIDE DEF V
  <2> QED
    BY <1>1, <2>1
<1>3. ASSUME NEW g \in [Nat -> V], NEW h \in [Nat -> V], NEW x \in Nat,
             \A y \in Nat : id[y] < id[x] => g[y] = h[y]
      PROVE  Rule[g][x] = Rule[h][x]
  <2>1. x # 0 => g[x - 1] = h[x - 1]
    BY <1>3
  <2> HIDE DEF V
  <2> QED
    BY <2>1
<1>4. V # {} /\ id \in [Nat -> Nat]
  OBVIOUS
<1>5. \E f \in [Nat -> V] : f = Rule[f]
  <2> HIDE DEF V, Rule, id
  <2>1. \A g, h \in [Nat -> V] : \A x \in Nat :
          (\A y \in Nat : id[y] < id[x] => g[y] = h[y]) => Rule[g][x] = Rule[h][x]
    BY <1>3
  <2>2. Descends(Nat, V, id, Rule)
    BY <1>2, <1>4, <2>1 DEF Descends
  <2> QED
    BY <2>2, RecursionExists
<1>6. \E f : f = [k \in Nat |-> IF k = 0 THEN c ELSE NextCluster(v, f[k - 1])]
  <2> HIDE DEF V
  <2> QED
    BY <1>5
<1>7. to = [k \in Nat |-> IF k = 0 THEN c ELSE NextCluster(v, to[k - 1])]
  BY <1>6, Zenon
<1>8. \A n : Follow(v, c, n) = to[n]
  BY Zenon DEF Follow
<1> HIDE DEF to
<1>9. to[0] = c
  BY <1>7
<1>10. ASSUME NEW n \in Nat
       PROVE  to[n + 1] = NextCluster(v, to[n])
  <2>1. n + 1 \in Nat /\ n + 1 # 0 /\ (n + 1) - 1 = n
    OBVIOUS
  <2> QED
    BY <1>7, <2>1
<1> QED
  BY <1>8, <1>9, <1>10

\* A chain can be followed in two parts: from where a read has left its handle on.
LEMMA FollowSum ==
  ASSUME NEW v, NEW c, NEW m \in Nat, NEW n \in Nat
  PROVE  Follow(v, Follow(v, c, m), n) = Follow(v, c, m + n)
<1> DEFINE T == {k \in Nat : Follow(v, Follow(v, c, m), k) = Follow(v, c, m + k)}
<1>1. 0 \in T
  BY FollowStep
<1>2. \A k \in Nat : k \in T => k + 1 \in T
  <2> TAKE k \in Nat
  <2>1. m + (k + 1) = (m + k) + 1 /\ m + k \in Nat
    OBVIOUS
  <2>2. Follow(v, c, (m + k) + 1) = NextCluster(v, Follow(v, c, m + k))
    BY <2>1, FollowStep
  <2>3. Follow(v, Follow(v, c, m), k + 1) = NextCluster(v, Follow(v, Follow(v, c, m), k))
    BY FollowStep
  <2> QED
    BY <2>1, <2>2, <2>3
<1>3. Nat \subseteq T
  <2> HIDE DEF T
  <2> QED
    BY <1>1, <1>2, SetInduction
<1> QED
  BY <1>3

\* Following a chain stays on the volume's clusters, or has reached its end.
LEMMA FollowType ==
  ASSUME NEW v \in Volume, NEW c \in DOMAIN Fat[v] \cup {Last}, NEW n \in Nat
  PROVE  Follow(v, c, n) \in DOMAIN Fat[v] \cup {Last}
<1> DEFINE T == {k \in Nat : Follow(v, c, k) \in DOMAIN Fat[v] \cup {Last}}
<1>1. 0 \in T
  BY FollowStep
<1>2. \A k \in Nat : k \in T => k + 1 \in T
  <2>1. \A x \in DOMAIN Fat[v] : Fat[v][x] \in DOMAIN Fat[v] \cup {Last}
    BY ONLY v \in Volume, IsfsFileAssumption
  <2>2. \A x : NextCluster(v, x) \in DOMAIN Fat[v] \cup {Last}
    BY <2>1 DEF NextCluster
  <2> QED
    BY <2>2, FollowStep
<1>3. Nat \subseteq T
  <2> HIDE DEF T
  <2> QED
    BY <1>1, <1>2, SetInduction
<1> QED
  BY <1>3

\* A quotient and its remainder, for the clusters an offset lies in.
LEMMA Division ==
  ASSUME NEW a \in Nat, NEW c \in Nat \ {0}
  PROVE  /\ a \div c \in Nat /\ a % c \in Nat /\ a % c < c
OBVIOUS

\* The clusters between two offsets, the later one's less the earlier one's.
LEMMA DivisionMonotone ==
  ASSUME NEW a \in Nat, NEW b \in Nat, a <= b, NEW c \in Nat \ {0}
  PROVE  b \div c - a \div c \in Nat /\ a \div c + (b \div c - a \div c) = b \div c
BY SMTT(30)

\* The block before one that is not a cluster's first is in the same cluster.
LEMMA DivisionBefore ==
  ASSUME NEW a \in Nat \ {0}, NEW c \in Nat \ {0}, a % c # 0
  PROVE  (a - 1) \div c = a \div c
BY SMTT(30)

\* Only offset 0 is the start of the first cluster.
LEMMA DivisionZero ==
  ASSUME NEW a \in Nat, NEW c \in Nat \ {0}
  PROVE  a % c = 0 /\ ~(a \div c > 0) <=> a = 0
BY SMTT(30)

---------------------------------------------------------------------------
\* Lists of siblings.

\* Appending an entry is concatenating the sequence of that entry.
LEMMA Singleton ==
  ASSUME NEW S, NEW a \in S, NEW s \in Seq(S)
  PROVE  /\ <<a>> \in Seq(S)
         /\ Append(s, a) \in Seq(S) /\ Append(s, a) = s \o <<a>>
OBVIOUS

\* An entry in front of a sequence, index by index.
LEMMA Prepend ==
  ASSUME NEW S, NEW a \in S, NEW s \in Seq(S)
  PROVE  /\ <<a>> \o s \in Seq(S) /\ Len(<<a>> \o s) = Len(s) + 1
         /\ (<<a>> \o s)[1] = a
         /\ \A k \in 1 .. Len(s) : (<<a>> \o s)[k + 1] = s[k]
<1>1. <<a>> \in Seq(S) /\ Len(<<a>>) = 1 /\ <<a>>[1] = a
  OBVIOUS
<1> DEFINE one == <<a>>
<1> HIDE DEF one
<1>2. /\ one \o s \in Seq(S) /\ Len(one \o s) = Len(one) + Len(s)
      /\ \A i \in 1 .. Len(one) + Len(s) :
           (one \o s)[i] = IF i <= Len(one) THEN one[i] ELSE s[i - Len(one)]
  BY <1>1, ConcatProperties, Zenon DEF one
<1>3. Len(s) \in Nat
  OBVIOUS
<1> QED
  BY <1>1, <1>2, <1>3 DEF one

\* What a mounted volume's file table is, from the assumption on it.
LEMMA TableFacts ==
  ASSUME NEW v \in Volume
  PROVE  /\ 0 \in DOMAIN Fst[v] /\ Nil \notin DOMAIN Fst[v]
         /\ Fst[v][0].type = "dir" /\ Fst[v][0].sib = Nil
         /\ \A n \in DOMAIN Fst[v] :
              /\ Fst[v][n].type \in {"file", "dir", "unknown"} /\ Fst[v][n].name # Empty
              /\ Fst[v][n].sib \in DOMAIN Fst[v] \cup {Nil}
              /\ Fst[v][n].type = "dir" => Fst[v][n].sub \in DOMAIN Fst[v] \cup {Nil}
              /\ Fst[v][n].type = "file" =>
                   Fst[v][n].size \in Nat /\ Fst[v][n].sub \in DOMAIN Fat[v] \cup {Last}
         /\ \E rank \in [DOMAIN Fst[v] -> Nat] : \A n \in DOMAIN Fst[v] :
              /\ Fst[v][n].sib # Nil => rank[Fst[v][n].sib] < rank[n]
              /\ Fst[v][n].type = "dir" /\ Fst[v][n].sub # Nil => rank[Fst[v][n].sub] < rank[n]
<1>1. /\ 0 \in DOMAIN Fst[v] /\ Nil \notin DOMAIN Fst[v]
      /\ Fst[v][0].type = "dir" /\ Fst[v][0].sib = Nil
  BY IsfsFileAssumption
<1>2. ASSUME NEW n \in DOMAIN Fst[v]
      PROVE  /\ Fst[v][n].type \in {"file", "dir", "unknown"} /\ Fst[v][n].name # Empty
             /\ Fst[v][n].sib \in DOMAIN Fst[v] \cup {Nil}
             /\ Fst[v][n].type = "dir" => Fst[v][n].sub \in DOMAIN Fst[v] \cup {Nil}
             /\ Fst[v][n].type = "file" =>
                  Fst[v][n].size \in Nat /\ Fst[v][n].sub \in DOMAIN Fat[v] \cup {Last}
  BY IsfsFileAssumption
<1>3. \E rank \in [DOMAIN Fst[v] -> Nat] : \A n \in DOMAIN Fst[v] :
        /\ Fst[v][n].sib # Nil => rank[Fst[v][n].sib] < rank[n]
        /\ Fst[v][n].type = "dir" /\ Fst[v][n].sub # Nil => rank[Fst[v][n].sub] < rank[n]
  <2>1. PICK rank \in [DOMAIN Fst[v] -> 0 .. Cardinality(DOMAIN Fst[v]) - 1] :
          \A n \in DOMAIN Fst[v] :
            /\ Fst[v][n].sib # Nil => rank[Fst[v][n].sib] < rank[n]
            /\ Fst[v][n].type = "dir" /\ Fst[v][n].sub # Nil => rank[Fst[v][n].sub] < rank[n]
    BY IsfsFileAssumption
  <2>2. rank \in [DOMAIN Fst[v] -> Nat]
    <3>1. 0 .. Cardinality(DOMAIN Fst[v]) - 1 \subseteq Nat
      OBVIOUS
    <3> QED
      BY ONLY <2>1, <3>1
  <2> QED
    BY <2>1, <2>2
<1> QED
  BY <1>1, <1>2, <1>3

\* A list of siblings is its first entry and then the list of that entry's sibling.
LEMMA SiblingsStep ==
  ASSUME NEW v \in Volume
  PROVE  /\ Siblings(v, Nil) = <<>>
         /\ \A n \in DOMAIN Fst[v] :
              /\ Siblings(v, n) = <<n>> \o Siblings(v, Fst[v][n].sib)
              /\ Siblings(v, n) \in Seq(DOMAIN Fst[v])
<1> DEFINE D == DOMAIN Fst[v] \cup {Nil}
           V == Seq(DOMAIN Fst[v])
           Rule == [g \in [D -> V] |->
                      [m \in D |-> IF m = Nil THEN <<>> ELSE <<m>> \o g[Fst[v][m].sib]]]
           from == CHOOSE f :
                     f = [m \in D |-> IF m = Nil THEN <<>> ELSE <<m>> \o f[Fst[v][m].sib]]
<1>1. PICK rank \in [DOMAIN Fst[v] -> Nat] :
        \A n \in DOMAIN Fst[v] : Fst[v][n].sib # Nil => rank[Fst[v][n].sib] < rank[n]
  BY TableFacts
<1> DEFINE level == [m \in D |-> IF m = Nil THEN 0 ELSE rank[m] + 1]
<1>2. \A m \in D : m # Nil => m \in DOMAIN Fst[v] /\ Fst[v][m].sib \in D
  BY TableFacts
<1>3. level \in [D -> Nat] /\ V # {}
  <2>1. <<>> \in V
    OBVIOUS
  <2>2. \A m \in D : m # Nil => rank[m] \in Nat
    BY <1>1, <1>2
  <2> HIDE DEF D, V
  <2> QED
    BY <2>1, <2>2
<1>4. Rule \in [[D -> V] -> [D -> V]]
  <2>1. ASSUME NEW g \in [D -> V], NEW m \in D, m # Nil
        PROVE  <<m>> \o g[Fst[v][m].sib] \in V
    <3>1. g[Fst[v][m].sib] \in V /\ m \in DOMAIN Fst[v]
      <4> HIDE DEF D, V
      <4> QED
        BY <1>2, <2>1
    <3> HIDE DEF D
    <3> QED
      BY <3>1, Prepend
  <2>2. <<>> \in V
    OBVIOUS
  <2> HIDE DEF V, D
  <2> QED
    BY <2>1, <2>2
<1>5. ASSUME NEW g \in [D -> V], NEW h \in [D -> V], NEW m \in D,
             \A y \in D : level[y] < level[m] => g[y] = h[y]
      PROVE  Rule[g][m] = Rule[h][m]
  <2>1. m # Nil => g[Fst[v][m].sib] = h[Fst[v][m].sib]
    <3>1. m # Nil => level[Fst[v][m].sib] < level[m]
      BY <1>1, <1>2
    <3> HIDE DEF level
    <3> QED
      BY <1>2, <1>5, <3>1
  <2> HIDE DEF V, D, level
  <2> QED
    BY <2>1
<1>6. \E f \in [D -> V] : f = Rule[f]
  <2> HIDE DEF D, V, Rule, level
  <2>1. \A g, h \in [D -> V] : \A m \in D :
          (\A y \in D : level[y] < level[m] => g[y] = h[y]) => Rule[g][m] = Rule[h][m]
    BY <1>5
  <2>2. Descends(D, V, level, Rule)
    BY <1>3, <1>4, <2>1 DEF Descends
  <2> QED
    BY <2>2, RecursionExists
<1>7. PICK f \in [D -> V] :
        f = [m \in D |-> IF m = Nil THEN <<>> ELSE <<m>> \o f[Fst[v][m].sib]]
  <2> HIDE DEF D, V
  <2> QED
    BY <1>6
<1>8. from = [m \in D |-> IF m = Nil THEN <<>> ELSE <<m>> \o from[Fst[v][m].sib]]
  BY <1>7, Zenon
<1>9. \A n : Siblings(v, n) = from[n]
  BY Zenon DEF Siblings
<1> HIDE DEF from
<1>10. from[Nil] = <<>> /\ \A n \in DOMAIN Fst[v] : from[n] = <<n>> \o from[Fst[v][n].sib]
  BY <1>8, TableFacts
<1>11. \A n \in D : from[n] \in V
  <2> DEFINE T == {k \in Nat : \A n \in D : level[n] <= k => from[n] \in V}
  <2>1. ASSUME NEW n \in D, level[n] = 0
        PROVE  from[n] \in V
    <3>1. n = Nil
      BY <1>1, <1>2, <2>1
    <3>2. <<>> \in Seq(DOMAIN Fst[v])
      OBVIOUS
    <3> QED
      BY ONLY <1>10, <3>1, <3>2
  <2>2. 0 \in T
    <3> HIDE DEF level, V
    <3> QED
      BY <1>3, <2>1
  <2>3. ASSUME NEW k \in Nat, k \in T, NEW n \in D, level[n] <= k + 1
        PROVE  from[n] \in V
    <3>1. CASE n = Nil
      <4>1. <<>> \in Seq(DOMAIN Fst[v])
        OBVIOUS
      <4> QED
        BY ONLY <1>10, <3>1, <4>1
    <3>2. CASE n # Nil
      <4>1. level[Fst[v][n].sib] <= k /\ Fst[v][n].sib \in D
        BY <1>1, <1>2, <2>3, <3>2
      <4>2. from[Fst[v][n].sib] \in V
        <5> HIDE DEF level, D, V
        <5> QED
          BY <2>3, <4>1
      <4>3. n \in DOMAIN Fst[v]
        BY <3>2
      <4>4. <<n>> \o from[Fst[v][n].sib] \in Seq(DOMAIN Fst[v])
        BY ONLY <4>2, <4>3, Prepend
      <4> QED
        BY ONLY <1>10, <4>3, <4>4
    <3> QED
      BY <3>1, <3>2
  <2>4. Nat \subseteq T
    <3>1. \A k \in Nat : k \in T => k + 1 \in T
      <4> HIDE DEF level, D, V
      <4> QED
        BY <2>3
    <3> HIDE DEF T
    <3> QED
      BY <2>2, <3>1, SetInduction
  <2>5. ASSUME NEW n \in D PROVE from[n] \in V
    <3>1. level[n] \in Nat /\ level[n] <= level[n] /\ level[n] \in T
      <4> HIDE DEF level, T
      <4> QED
        BY <1>3, <2>4
    <3> HIDE DEF level, V, D
    <3> QED
      BY <3>1
  <2> QED
    BY <2>5
<1> QED
  BY <1>9, <1>10, <1>11

---------------------------------------------------------------------------
\* isfs_find_fst.

\* Skipping slashes ends at a part that is not empty, or at the last one.
LEMMA SkipRight ==
  ASSUME NEW path \in Seq(STRING), NEW i \in 1 .. Len(path)
  PROVE  /\ SkipSlashes(path, i) \in i .. Len(path)
         /\ \A k \in i .. SkipSlashes(path, i) - 1 : path[k] = Empty
         /\ SkipSlashes(path, i) = Len(path) \/ path[SkipSlashes(path, i)] # Empty
<1> DEFINE T == {j \in i .. Len(path) : j = Len(path) \/ path[j] # Empty}
<1>1. PICK j \in T : \A k \in T : j <= k
  <2>1. Len(path) \in T /\ T \subseteq Nat
    OBVIOUS
  <2> HIDE DEF T
  <2> QED
    BY <2>1, Least
<1>2. \A k \in i .. j - 1 : path[k] = Empty
  BY <1>1
<1>3. \E m \in i .. Len(path) : /\ \A k \in i .. m - 1 : path[k] = Empty
                                /\ m = Len(path) \/ path[m] # Empty
  BY <1>1, <1>2
<1> QED
  BY <1>3 DEF SkipSlashes

\* Where isfs_find_fst is called: with an entry, and a part of the path.
Positions(v, path) == (DOMAIN Fst[v]) \X (1 .. Len(path))

\* What isfs_find_fst returns.
Found(v) == DOMAIN Fst[v] \cup {Nil}

\* Two answers for the children of n agree, whatever part of the path is next.
SameBelow(v, path, n, g, h) ==
  \A m \in DOMAIN Fst[v] : \A j \in 1 .. Len(path) :
    Fst[v][n].type = "dir" /\ Fst[v][n].sub = m => g[<<m, j>>] = h[<<m, j>>]

\* isfs_check_file and isfs_check_dir ask isfs_find_fst about the entry's children only.
LEMMA CheckLocal ==
  ASSUME NEW v \in Volume, NEW path \in Seq(STRING),
         NEW n \in DOMAIN Fst[v], NEW i \in 1 .. Len(path), NEW g, NEW h,
         SameBelow(v, path, n, g, h)
  PROVE  CheckEntry(v, path, n, i, g) = CheckEntry(v, path, n, i, h)
<1> DEFINE sub == Fst[v][n].sub
           j == SkipSlashes(path, i + 1)
<1>1. CASE Fst[v][n].type # "dir"
  BY <1>1 DEF CheckEntry
<1>2. CASE /\ Fst[v][n].type = "dir" /\ sub # Nil
           /\ i < Len(path) /\ ~(i + 1 = Len(path) /\ path[i + 1] = Empty)
  <2>1. sub \in DOMAIN Fst[v]
    BY <1>2, TableFacts
  <2>2. j \in 1 .. Len(path)
    <3>1. i + 1 \in 1 .. Len(path)
      BY <1>2
    <3>2. j \in i + 1 .. Len(path)
      BY <3>1, SkipRight
    <3> HIDE DEF j
    <3> QED
      BY <3>2
  <2>3. g[<<sub, j>>] = h[<<sub, j>>]
    <3> HIDE DEF j
    <3> QED
      BY <1>2, <2>1, <2>2 DEF SameBelow
  <2> QED
    BY ONLY <1>2, <2>3 DEF CheckEntry, isfs_check_dir
<1>3. CASE /\ Fst[v][n].type = "dir"
           /\ ~(sub # Nil /\ i < Len(path) /\ ~(i + 1 = Len(path) /\ path[i + 1] = Empty))
  BY ONLY <1>3, Zenon DEF CheckEntry, isfs_check_dir
<1> QED
  BY ONLY <1>1, <1>2, <1>3

\* They return an entry of the table, or none.
LEMMA CheckType ==
  ASSUME NEW v \in Volume, NEW path \in Seq(STRING),
         NEW n \in DOMAIN Fst[v], NEW i \in 1 .. Len(path),
         NEW g,
         Fst[v][n].type = "dir" /\ Fst[v][n].sub # Nil =>
           \A j \in 1 .. Len(path) : g[<<Fst[v][n].sub, j>>] \in Found(v)
  PROVE  CheckEntry(v, path, n, i, g) \in Found(v)
<1> DEFINE sub == Fst[v][n].sub
           j == SkipSlashes(path, i + 1)
<1>1. CASE /\ Fst[v][n].type = "dir" /\ sub # Nil /\ path[i] \in {Empty, Fst[v][n].name}
           /\ i < Len(path) /\ ~(i + 1 = Len(path) /\ path[i + 1] = Empty)
  <2>1. sub \in DOMAIN Fst[v]
    BY <1>1, TableFacts
  <2>2. j \in 1 .. Len(path)
    <3>1. i + 1 \in 1 .. Len(path)
      BY <1>1
    <3>2. j \in i + 1 .. Len(path)
      BY <3>1, SkipRight
    <3> HIDE DEF j
    <3> QED
      BY <3>2
  <2>3. g[<<sub, j>>] \in Found(v)
    <3> HIDE DEF j
    <3> QED
      BY <1>1, <2>2
  <2> QED
    BY ONLY <1>1, <2>3 DEF CheckEntry, isfs_check_dir
<1>2. n \in Found(v) /\ Nil \in Found(v)
  BY DEF Found
<1>3. CASE /\ Fst[v][n].type = "dir"
           /\ ~(/\ sub # Nil /\ path[i] \in {Empty, Fst[v][n].name}
                /\ i < Len(path) /\ ~(i + 1 = Len(path) /\ path[i + 1] = Empty))
  BY ONLY <1>2, <1>3, Zenon DEF CheckEntry, isfs_check_dir
<1>4. CASE Fst[v][n].type # "dir"
  BY ONLY <1>2, <1>4 DEF CheckEntry, isfs_check_file
<1> QED
  BY ONLY <1>1, <1>3, <1>4

\* isfs_find_fst returns: on an acyclic table its recursion has a solution.
LEMMA FindStep ==
  ASSUME NEW v \in Volume, NEW path \in Seq(STRING),
         NEW n \in DOMAIN Fst[v], NEW i \in 1 .. Len(path)
  PROVE  LET find == isfs_find_fst(v, path)
             sib == Fst[v][n].sib
             found == IF sib # Nil THEN find[<<sib, i>>] ELSE Nil
         IN  find[<<n, i>>] = IF found # Nil THEN found ELSE CheckEntry(v, path, n, i, find)
<1> DEFINE D == Positions(v, path)
           V == Found(v)
           Next(g, q) == LET sib == Fst[v][q[1]].sib
                             found == IF sib # Nil THEN g[<<sib, q[2]>>] ELSE Nil
                         IN  IF found # Nil THEN found ELSE CheckEntry(v, path, q[1], q[2], g)
           Rule == [g \in [D -> V] |-> [q \in D |-> Next(g, q)]]
           find == CHOOSE f : f = [q \in (DOMAIN Fst[v]) \X (1 .. Len(path)) |-> Next(f, q)]
<1>1. PICK rank \in [DOMAIN Fst[v] -> Nat] : \A m \in DOMAIN Fst[v] :
        /\ Fst[v][m].sib # Nil => rank[Fst[v][m].sib] < rank[m]
        /\ Fst[v][m].type = "dir" /\ Fst[v][m].sub # Nil => rank[Fst[v][m].sub] < rank[m]
  BY TableFacts
<1> DEFINE level == [q \in D |-> rank[q[1]]]
<1>2. level \in [D -> Nat] /\ V # {} /\ Nil \in V
  BY <1>1 DEF Positions, Found
<1>3. \A q \in D : /\ q[1] \in DOMAIN Fst[v] /\ q[2] \in 1 .. Len(path) /\ q = <<q[1], q[2]>>
                   /\ Fst[v][q[1]].sib # Nil => <<Fst[v][q[1]].sib, q[2]>> \in D
  BY TableFacts DEF Positions
<1>4. ASSUME NEW g \in [D -> V], NEW q \in D
      PROVE  Next(g, q) \in V
  <2>1. Fst[v][q[1]].sib # Nil => g[<<Fst[v][q[1]].sib, q[2]>>] \in V
    BY <1>3
  <2>2. CheckEntry(v, path, q[1], q[2], g) \in V
    <3> DEFINE n1 == q[1]
               i1 == q[2]
    <3>1. n1 \in DOMAIN Fst[v] /\ i1 \in 1 .. Len(path)
      BY <1>3
    <3> HIDE DEF n1, i1
    <3>2. \A j \in 1 .. Len(path) : Fst[v][n1].type = "dir" /\ Fst[v][n1].sub # Nil =>
            <<Fst[v][n1].sub, j>> \in D
      BY <3>1, TableFacts DEF Positions
    <3>3. CheckEntry(v, path, n1, i1, g) \in Found(v)
      BY <3>1, <3>2, CheckType
    <3> QED
      BY ONLY <3>3 DEF n1, i1
  <2> HIDE DEF V, D
  <2> QED
    BY <1>2, <2>1, <2>2
<1>5. Rule \in [[D -> V] -> [D -> V]]
  <2> HIDE DEF V, D, Next
  <2> QED
    BY <1>4
<1>6. ASSUME NEW g \in [D -> V], NEW h \in [D -> V], NEW q \in D,
             \A y \in D : level[y] < level[q] => g[y] = h[y]
      PROVE  Rule[g][q] = Rule[h][q]
  <2> DEFINE n1 == q[1]
             i1 == q[2]
  <2>0. n1 \in DOMAIN Fst[v] /\ i1 \in 1 .. Len(path)
    BY <1>3
  <2>1. ASSUME NEW m \in DOMAIN Fst[v], NEW j \in 1 .. Len(path), rank[m] < rank[n1]
        PROVE  g[<<m, j>>] = h[<<m, j>>]
    <3>1. <<m, j>> \in D /\ level[<<m, j>>] = rank[m] /\ level[q] = rank[q[1]]
      BY DEF Positions
    <3> HIDE DEF level, D
    <3> QED
      BY <1>6, <2>1, <3>1
  <2>2. Fst[v][q[1]].sib # Nil => g[<<Fst[v][q[1]].sib, q[2]>>] = h[<<Fst[v][q[1]].sib, q[2]>>]
    <3>1. Fst[v][q[1]].sib # Nil => Fst[v][q[1]].sib \in DOMAIN Fst[v]
      BY <1>3, TableFacts
    <3> QED
      BY <1>1, <1>3, <2>1, <3>1
  <2>3. CheckEntry(v, path, q[1], q[2], g) = CheckEntry(v, path, q[1], q[2], h)
    <3> HIDE DEF n1, i1
    <3>1. \A m \in DOMAIN Fst[v] : Fst[v][n1].type = "dir" /\ Fst[v][n1].sub = m =>
             rank[m] < rank[n1]
      BY <1>1, <2>0, TableFacts
    <3>2. SameBelow(v, path, n1, g, h)
      BY <2>1, <3>1 DEF SameBelow
    <3>3. CheckEntry(v, path, n1, i1, g) = CheckEntry(v, path, n1, i1, h)
      BY <2>0, <3>2, CheckLocal
    <3> QED
      BY ONLY <3>3 DEF n1, i1
  <2>4. Next(g, q) = Next(h, q)
    BY ONLY <2>2, <2>3
  <2>5. Rule[g][q] = Next(g, q) /\ Rule[h][q] = Next(h, q)
    <3> HIDE DEF D, V, Next
    <3> QED
      BY <1>6
  <2> QED
    BY ONLY <2>4, <2>5
<1>7. PICK f \in [D -> V] : f = [q \in D |-> Next(f, q)]
  <2>1. \E f \in [D -> V] : f = Rule[f]
    <3> HIDE DEF D, V, Rule, level
    <3>1. \A g, h \in [D -> V] : \A q \in D :
            (\A y \in D : level[y] < level[q] => g[y] = h[y]) => Rule[g][q] = Rule[h][q]
      BY <1>6
    <3>2. Descends(D, V, level, Rule)
      BY <1>2, <1>5, <3>1 DEF Descends
    <3> QED
      BY <3>2, RecursionExists
  <2> HIDE DEF D, V, Next
  <2> QED
    BY <2>1
<1>8. find = [q \in (DOMAIN Fst[v]) \X (1 .. Len(path)) |-> Next(find, q)]
  <2>1. f = [q \in (DOMAIN Fst[v]) \X (1 .. Len(path)) |-> Next(f, q)]
    BY ONLY <1>7, Zenon DEF Positions
  <2> QED
    BY ONLY <2>1, Zenon
<1>9. isfs_find_fst(v, path) = find
  BY Zenon DEF isfs_find_fst
<1> HIDE DEF find
<1>10. <<n, i>> \in (DOMAIN Fst[v]) \X (1 .. Len(path)) /\ <<n, i>>[1] = n /\ <<n, i>>[2] = i
  OBVIOUS
<1>11. find[<<n, i>>] = Next(find, <<n, i>>)
  <2> HIDE DEF Next
  <2> QED
    BY ONLY <1>8, <1>10
<1> QED
  BY ONLY <1>9, <1>10, <1>11

\* It returns an entry of the table, or none.
LEMMA FindType ==
  ASSUME NEW v \in Volume, NEW path \in Seq(STRING),
         NEW n \in DOMAIN Fst[v], NEW i \in 1 .. Len(path)
  PROVE  isfs_find_fst(v, path)[<<n, i>>] \in DOMAIN Fst[v] \cup {Nil}
<1> DEFINE find == isfs_find_fst(v, path)
           Typed(m) == \A j \in 1 .. Len(path) : find[<<m, j>>] \in Found(v)
<1>1. PICK rank \in [DOMAIN Fst[v] -> Nat] : \A m \in DOMAIN Fst[v] :
        /\ Fst[v][m].sib # Nil => rank[Fst[v][m].sib] < rank[m]
        /\ Fst[v][m].type = "dir" /\ Fst[v][m].sub # Nil => rank[Fst[v][m].sub] < rank[m]
  BY TableFacts
<1> DEFINE Bad == {k \in Nat : \E m \in DOMAIN Fst[v] : rank[m] = k /\ ~Typed(m)}
<1>2. Bad = {}
  <2> SUFFICES ASSUME Bad # {} PROVE FALSE
    OBVIOUS
  <2>1. PICK k \in Bad : \A l \in Bad : k <= l
    <3>1. Bad \subseteq Nat
      OBVIOUS
    <3> HIDE DEF Bad
    <3> QED
      BY <3>1, Least
  <2>2. PICK m \in DOMAIN Fst[v] : rank[m] = k /\ ~Typed(m)
    <3> HIDE DEF Typed
    <3> QED
      OBVIOUS
  <2>3. \A l \in DOMAIN Fst[v] : rank[l] < rank[m] => Typed(l)
    <3>1. k \in Nat /\ \A l \in DOMAIN Fst[v] : rank[l] \in Nat
      BY <1>1
    <3> HIDE DEF Typed
    <3> QED
      BY <2>1, <2>2, <3>1
  <2>4. ASSUME NEW j \in 1 .. Len(path)
        PROVE  find[<<m, j>>] \in Found(v)
    <3>1. Fst[v][m].sib # Nil => find[<<Fst[v][m].sib, j>>] \in Found(v)
      BY <1>1, <2>3, TableFacts
    <3>2. Fst[v][m].type = "dir" /\ Fst[v][m].sub # Nil =>
            \A l \in 1 .. Len(path) : find[<<Fst[v][m].sub, l>>] \in Found(v)
      BY <1>1, <2>3, TableFacts
    <3> HIDE DEF find
    <3>3. CheckEntry(v, path, m, j, find) \in Found(v)
      BY <3>2, CheckType
    <3>4. find[<<m, j>>] =
            LET found == IF Fst[v][m].sib # Nil THEN find[<<Fst[v][m].sib, j>>] ELSE Nil
            IN  IF found # Nil THEN found ELSE CheckEntry(v, path, m, j, find)
      BY FindStep DEF find
    <3> QED
      BY ONLY <3>1, <3>3, <3>4
  <2> QED
    BY ONLY <2>2, <2>4
<1>3. rank[n] \in Nat
  BY <1>1
<1>4. Typed(n)
  <2> HIDE DEF Typed
  <2> QED
    BY <1>2, <1>3
<1> QED
  BY <1>4 DEF Found

---------------------------------------------------------------------------
\* One list: the entry that has the name.

\* The entries of the list that begins with m.
InList(v, m) == {Siblings(v, m)[k] : k \in DOMAIN Siblings(v, m)}

\* A list has its first entry and those of the list that follows it.
LEMMA InListStep ==
  ASSUME NEW v \in Volume
  PROVE  /\ InList(v, Nil) = {}
         /\ \A m \in DOMAIN Fst[v] : /\ InList(v, m) = {m} \cup InList(v, Fst[v][m].sib)
                                     /\ InList(v, m) \subseteq DOMAIN Fst[v]
<1>1. InList(v, Nil) = {}
  BY SiblingsStep DEF InList
<1>2. ASSUME NEW m \in DOMAIN Fst[v]
      PROVE  /\ InList(v, m) = {m} \cup InList(v, Fst[v][m].sib)
             /\ InList(v, m) \subseteq DOMAIN Fst[v]
  <2> DEFINE s == Siblings(v, m)
             t == Siblings(v, Fst[v][m].sib)
  <2>1. t \in Seq(DOMAIN Fst[v])
    <3>1. Fst[v][m].sib \in DOMAIN Fst[v] \cup {Nil}
      BY TableFacts
    <3>2. <<>> \in Seq(DOMAIN Fst[v])
      OBVIOUS
    <3> QED
      BY ONLY v \in Volume, <3>1, <3>2, SiblingsStep
  <2>2. s = <<m>> \o t /\ s \in Seq(DOMAIN Fst[v])
    BY SiblingsStep
  <2> HIDE DEF s, t
  <2>3. /\ Len(s) = Len(t) + 1 /\ s[1] = m
        /\ \A k \in 1 .. Len(t) : s[k + 1] = t[k]
    BY <2>1, <2>2, Prepend
  <2>4. DOMAIN s = 1 .. Len(s) /\ DOMAIN t = 1 .. Len(t) /\ Len(t) \in Nat
    BY <2>1, <2>2
  <2>5. {s[k] : k \in DOMAIN s} = {m} \cup {t[k] : k \in DOMAIN t}
    <3>1. ASSUME NEW k \in DOMAIN s PROVE s[k] \in {m} \cup {t[l] : l \in DOMAIN t}
      <4>1. CASE k = 1
        BY <2>3, <4>1
      <4>2. CASE k # 1
        <5>1. k - 1 \in 1 .. Len(t) /\ (k - 1) + 1 = k
          BY <2>3, <2>4, <4>2
        <5> QED
          BY <2>3, <2>4, <5>1
      <4> QED
        BY <4>1, <4>2
    <3>2. ASSUME NEW k \in DOMAIN t PROVE t[k] \in {s[l] : l \in DOMAIN s}
      <4>1. k + 1 \in DOMAIN s
        BY <2>3, <2>4
      <4> QED
        BY <2>3, <2>4, <4>1
    <3>3. m \in {s[l] : l \in DOMAIN s}
      BY <2>3, <2>4
    <3> QED
      BY ONLY <3>1, <3>2, <3>3
  <2>6. \A k \in DOMAIN s : s[k] \in DOMAIN Fst[v]
    BY <2>2
  <2> QED
    BY <2>5, <2>6 DEF InList, s, t
<1> QED
  BY <1>1, <1>2

\* An entry with another name is not what a part of the path asks for.
LEMMA NotNamed ==
  ASSUME NEW v \in Volume, NEW path, NEW i, NEW find, NEW n,
         path[i] # Empty, ~IsNamed(v, n, path[i])
  PROVE  CheckEntry(v, path, n, i, find) = Nil
BY Zenon DEF CheckEntry, IsNamed, isfs_check_file, isfs_check_dir

\* At most one entry of the list has the name.
OneNamed(v, m, name) ==
  \A a, b \in InList(v, m) : IsNamed(v, a, name) /\ IsNamed(v, b, name) => a = b

\* Though isfs_find_fst tries the siblings from the last to the first, the entry that has
\* the name decides: the others are passed over, and without one nothing is found.
LEMMA FindInList ==
  ASSUME NEW v \in Volume, NEW path \in Seq(STRING), NEW i \in 1 .. Len(path),
         path[i] # Empty, NEW m \in DOMAIN Fst[v], OneNamed(v, m, path[i])
  PROVE  LET find == isfs_find_fst(v, path)
         IN  /\ \A s \in InList(v, m) :
                  IsNamed(v, s, path[i]) => find[<<m, i>>] = CheckEntry(v, path, s, i, find)
             /\ (\A s \in InList(v, m) : ~IsNamed(v, s, path[i])) => find[<<m, i>>] = Nil
<1> DEFINE find == isfs_find_fst(v, path)
           Right(n) == /\ \A s \in InList(v, n) :
                            IsNamed(v, s, path[i]) =>
                              find[<<n, i>>] = CheckEntry(v, path, s, i, find)
                       /\ (\A s \in InList(v, n) : ~IsNamed(v, s, path[i])) =>
                            find[<<n, i>>] = Nil
<1>1. PICK rank \in [DOMAIN Fst[v] -> Nat] :
        \A n \in DOMAIN Fst[v] : Fst[v][n].sib # Nil => rank[Fst[v][n].sib] < rank[n]
  BY TableFacts
<1> DEFINE Bad == {k \in Nat : \E n \in DOMAIN Fst[v] :
                                 rank[n] = k /\ OneNamed(v, n, path[i]) /\ ~Right(n)}
<1>2. Bad = {}
  <2> SUFFICES ASSUME Bad # {} PROVE FALSE
    OBVIOUS
  <2>1. PICK k \in Bad : \A l \in Bad : k <= l
    <3>1. Bad \subseteq Nat
      OBVIOUS
    <3> HIDE DEF Bad
    <3> QED
      BY <3>1, Least
  <2>2. PICK n \in DOMAIN Fst[v] : rank[n] = k /\ OneNamed(v, n, path[i]) /\ ~Right(n)
    <3> HIDE DEF Right
    <3> QED
      OBVIOUS
  <2> DEFINE sib == Fst[v][n].sib
             found == IF sib # Nil THEN find[<<sib, i>>] ELSE Nil
  <2>3. find[<<n, i>>] = IF found # Nil THEN found ELSE CheckEntry(v, path, n, i, find)
    BY FindStep
  <2>4. /\ InList(v, n) = {n} \cup InList(v, sib) /\ InList(v, Nil) = {}
        /\ sib \in DOMAIN Fst[v] \cup {Nil}
    BY InListStep, TableFacts
  <2>5. sib # Nil => Right(sib)
    <3>1. sib # Nil => rank[sib] \in Nat /\ rank[sib] < k
      BY <1>1, <2>2, <2>4
    <3>2. sib # Nil => OneNamed(v, sib, path[i])
      BY ONLY <2>2, <2>4 DEF OneNamed
    <3>3. \A l \in Bad : ~(l < k)
      <4>1. k \in Nat /\ Bad \subseteq Nat
        OBVIOUS
      <4> HIDE DEF Bad
      <4> QED
        BY <2>1, <4>1
    <3> HIDE DEF Right, sib, found
    <3> QED
      BY <2>4, <3>1, <3>2, <3>3
  <2>6. ~IsNamed(v, n, path[i]) => CheckEntry(v, path, n, i, find) = Nil
    BY NotNamed
  <2>7. Right(n)
    <3> DEFINE check == CheckEntry(v, path, n, i, find)
    <3>1. CASE \E s \in InList(v, sib) : IsNamed(v, s, path[i])
      <4>1. PICK s \in InList(v, sib) : IsNamed(v, s, path[i])
        BY <3>1
      <4>2. sib # Nil /\ found = CheckEntry(v, path, s, i, find)
        BY ONLY <2>4, <2>5, <4>1
      <4>3. \A t \in InList(v, n) : IsNamed(v, t, path[i]) => t = s
        BY ONLY <2>2, <2>4, <4>1 DEF OneNamed
      <4>4. find[<<n, i>>] = CheckEntry(v, path, s, i, find)
        <5>1. CASE found # Nil
          BY ONLY <2>3, <4>2, <5>1
        <5>2. CASE found = Nil /\ IsNamed(v, n, path[i])
          BY ONLY <2>3, <2>4, <4>3, <5>2
        <5>3. CASE found = Nil /\ ~IsNamed(v, n, path[i])
          BY ONLY <2>3, <2>6, <4>2, <5>3
        <5> QED
          BY ONLY <5>1, <5>2, <5>3
      <4> QED
        BY ONLY <2>4, <4>1, <4>3, <4>4
    <3>2. CASE \A s \in InList(v, sib) : ~IsNamed(v, s, path[i])
      <4>1. found = Nil
        BY ONLY <2>4, <2>5, <3>2
      <4> QED
        BY ONLY <2>3, <2>4, <2>6, <3>2, <4>1
    <3> QED
      BY ONLY <3>1, <3>2
  <2> QED
    BY ONLY <2>2, <2>7
<1>3. rank[m] \in Nat
  BY <1>1
<1>4. Right(m)
  <2> HIDE DEF Right
  <2> QED
    BY <1>2, <1>3
<1> QED
  BY ONLY <1>4

---------------------------------------------------------------------------
\* The walk down the tree, which the lookup is compared with.

\* A directory has at most one child of a name, and Child is that one.
LEMMA ChildRight ==
  ASSUME NEW v \in Volume, NEW n \in DOMAIN Fst[v], NEW name
  PROVE  LET sub == Fst[v][n].sub
             c == Child(v, n, name)
         IN  /\ Fst[v][n].type # "dir" \/ sub = Nil => c = Nil
             /\ c \in DOMAIN Fst[v] \cup {Nil}
             /\ Fst[v][n].type = "dir" /\ sub # Nil =>
                  /\ \A a, b \in InList(v, sub) :
                       IsNamed(v, a, name) /\ IsNamed(v, b, name) => a = b
                  /\ c # Nil => c \in InList(v, sub) /\ IsNamed(v, c, name)
                  /\ c = Nil => \A s \in InList(v, sub) : ~IsNamed(v, s, name)
<1> DEFINE sub == Fst[v][n].sub
           s == Siblings(v, sub)
           named == {k \in DOMAIN s : IsNamed(v, s[k], name)}
<1>1. CASE Fst[v][n].type # "dir"
  BY ONLY <1>1 DEF Child
<1>2. CASE Fst[v][n].type = "dir"
  <2>1. sub \in DOMAIN Fst[v] \cup {Nil}
    BY <1>2, TableFacts
  <2>2. Child(v, n, name) = IF named = {} THEN Nil ELSE s[CHOOSE k \in named : TRUE]
    <3>1. Child(v, n, name) = IF Fst[v][n].type # "dir" \/ named = {} THEN Nil
                              ELSE s[CHOOSE k \in named : TRUE]
      BY ONLY Zenon DEF Child, Children
    <3> HIDE DEF s, named
    <3> QED
      BY ONLY <1>2, <3>1
  <2>3. CASE sub = Nil
    <3>1. s = <<>>
      BY <2>3, SiblingsStep
    <3>2. named = {}
      BY <3>1
    <3> QED
      BY ONLY <2>2, <2>3, <3>2
  <2>4. CASE sub # Nil
    <3>1. /\ s \in Seq(DOMAIN Fst[v]) /\ InList(v, sub) = {s[k] : k \in DOMAIN s}
          /\ InList(v, sub) \subseteq DOMAIN Fst[v] /\ Nil \notin DOMAIN Fst[v]
      BY <2>1, <2>4, SiblingsStep, InListStep, TableFacts DEF InList
    <3>2. \A k, l \in DOMAIN s :
             Fst[v][s[l]].type # "unknown" /\ IsNamed(v, s[k], Fst[v][s[l]].name) => k = l
      BY ONLY v \in Volume, n \in DOMAIN Fst[v], <1>2, NamesAssumption, Zenon DEF Children
    <3> HIDE DEF s, sub
    <3>3. \A k, l \in DOMAIN s : IsNamed(v, s[k], name) /\ IsNamed(v, s[l], name) => k = l
      BY ONLY <3>2 DEF IsNamed
    <3>4. \A a, b \in InList(v, sub) : IsNamed(v, a, name) /\ IsNamed(v, b, name) => a = b
      BY ONLY <3>1, <3>3
    <3>5. CASE named = {}
      <4>1. Child(v, n, name) = Nil
        BY ONLY <2>2, <3>5
      <4>2. \A t \in InList(v, sub) : ~IsNamed(v, t, name)
        BY ONLY <3>1, <3>5
      <4> QED
        BY ONLY <1>2, <2>4, <3>4, <4>1, <4>2 DEF sub
    <3>6. CASE named # {}
      <4>1. PICK k \in named : Child(v, n, name) = s[k]
        BY ONLY <2>2, <3>6
      <4>2. s[k] \in InList(v, sub) /\ IsNamed(v, s[k], name)
        BY ONLY k \in named, <3>1
      <4>3. s[k] # Nil /\ s[k] \in DOMAIN Fst[v]
        BY ONLY <3>1, <4>2
      <4> QED
        BY ONLY <1>2, <2>4, <3>4, <4>1, <4>2, <4>3 DEF sub
    <3> QED
      BY ONLY <3>5, <3>6
  <2> QED
    BY ONLY <2>3, <2>4
<1> QED
  BY ONLY <1>1, <1>2

\* The walk goes down one level per part of the path that is not empty.
LEMMA WalkStep ==
  ASSUME NEW v \in Volume, NEW path
  PROVE  /\ Walk(v, path, 0) = 0
         /\ \A i \in Nat :
              /\ Walk(v, path, i) \in DOMAIN Fst[v] \cup {Nil}
              /\ Walk(v, path, i + 1) =
                   IF Walk(v, path, i) = Nil \/ path[i + 1] = Empty THEN Walk(v, path, i)
                   ELSE Child(v, Walk(v, path, i), path[i + 1])
<1> DEFINE V == DOMAIN Fst[v] \cup {Nil}
           Next(w, k) == IF w = Nil \/ path[k] = Empty THEN w ELSE Child(v, w, path[k])
           Rule == [g \in [Nat -> V] |-> [k \in Nat |-> IF k = 0 THEN 0 ELSE Next(g[k - 1], k)]]
           id == [k \in Nat |-> k]
           to == CHOOSE f : f = [k \in Nat |-> IF k = 0 THEN 0 ELSE Next(f[k - 1], k)]
<1>1. \A w \in V : \A k : Next(w, k) \in V
  BY ChildRight
<1>2. 0 \in V /\ V # {} /\ id \in [Nat -> Nat]
  BY TableFacts
<1>3. \A k \in Nat : k # 0 => k - 1 \in Nat
  OBVIOUS
<1>4. Rule \in [[Nat -> V] -> [Nat -> V]]
  <2> HIDE DEF V, Next
  <2> QED
    BY <1>1, <1>2, <1>3
<1>5. ASSUME NEW g \in [Nat -> V], NEW h \in [Nat -> V], NEW x \in Nat,
             \A y \in Nat : id[y] < id[x] => g[y] = h[y]
      PROVE  Rule[g][x] = Rule[h][x]
  <2>1. x # 0 => g[x - 1] = h[x - 1]
    BY <1>5
  <2> HIDE DEF V, Next
  <2> QED
    BY <2>1
<1>6. PICK f \in [Nat -> V] : f = [k \in Nat |-> IF k = 0 THEN 0 ELSE Next(f[k - 1], k)]
  <2>1. \E f \in [Nat -> V] : f = Rule[f]
    <3> HIDE DEF V, Rule, id
    <3>1. \A g, h \in [Nat -> V] : \A x \in Nat :
            (\A y \in Nat : id[y] < id[x] => g[y] = h[y]) => Rule[g][x] = Rule[h][x]
      BY <1>5
    <3>2. Descends(Nat, V, id, Rule)
      BY <1>2, <1>4, <3>1 DEF Descends
    <3> QED
      BY <3>2, RecursionExists
  <2> HIDE DEF V, Next
  <2> QED
    BY <2>1
<1>7. to = [k \in Nat |-> IF k = 0 THEN 0 ELSE Next(to[k - 1], k)]
  BY <1>6, Zenon
<1>8. \A i : Walk(v, path, i) = to[i]
  BY Zenon DEF Walk
<1> HIDE DEF to, V
<1>9. to[0] = 0
  BY <1>7
<1>10. ASSUME NEW i \in Nat
       PROVE  to[i + 1] = Next(to[i], i + 1)
  <2>1. i + 1 \in Nat /\ i + 1 # 0 /\ (i + 1) - 1 = i
    OBVIOUS
  <2> HIDE DEF Next
  <2> QED
    BY <1>7, <2>1
<1>11. \A i \in Nat : to[i] \in V
  <2> DEFINE T == {i \in Nat : to[i] \in V}
  <2>1. 0 \in T
    BY <1>2, <1>9
  <2>2. \A i \in Nat : i \in T => i + 1 \in T
    <3> HIDE DEF Next
    <3> QED
      BY <1>1, <1>10
  <2> HIDE DEF T
  <2>3. Nat \subseteq T
    BY <2>1, <2>2, SetInduction
  <2> QED
    BY <2>3 DEF T
<1> QED
  BY ONLY <1>8, <1>9, <1>10, <1>11 DEF V

\* From an entry without children of any name, the walk stays or fails.
LEMMA WalkStays ==
  ASSUME NEW v \in Volume, NEW path, NEW i \in Nat,
         LET w == Walk(v, path, i)
         IN  w # Nil => \A name : Child(v, w, name) = Nil,
         NEW k \in Nat, i <= k
  PROVE  Walk(v, path, k) \in {Walk(v, path, i), Nil}
<1> DEFINE T == {d \in Nat : Walk(v, path, i + d) \in {Walk(v, path, i), Nil}}
<1>1. 0 \in T
  OBVIOUS
<1>2. ASSUME NEW d \in Nat, d \in T
      PROVE  d + 1 \in T
  <2>1. i + d \in Nat /\ i + (d + 1) = (i + d) + 1
    OBVIOUS
  <2> QED
    BY <1>2, <2>1, WalkStep
<1>3. Nat \subseteq T
  <2> HIDE DEF T
  <2> QED
    BY <1>1, <1>2, SetInduction
<1>4. k - i \in Nat /\ i + (k - i) = k
  OBVIOUS
<1> QED
  BY <1>3, <1>4

\* Empty parts leave the walk where it is.
LEMMA WalkEmpty ==
  ASSUME NEW v \in Volume, NEW path, NEW i \in Nat, NEW k \in Nat, i <= k,
         \A j \in i + 1 .. k : path[j] = Empty
  PROVE  Walk(v, path, k) = Walk(v, path, i)
<1> DEFINE T == {d \in Nat : i + d <= k => Walk(v, path, i + d) = Walk(v, path, i)}
<1>1. 0 \in T
  OBVIOUS
<1>2. ASSUME NEW d \in Nat, d \in T
      PROVE  d + 1 \in T
  <2>1. i + d \in Nat /\ i + (d + 1) = (i + d) + 1
    OBVIOUS
  <2>2. (i + d) + 1 <= k => path[(i + d) + 1] = Empty /\ i + d <= k
    BY <2>1
  <2> QED
    BY <1>2, <2>1, <2>2, WalkStep
<1>3. Nat \subseteq T
  <2> HIDE DEF T
  <2> QED
    BY <1>1, <1>2, SetInduction
<1>4. k - i \in Nat /\ i + (k - i) = k
  OBVIOUS
<1> QED
  BY <1>3, <1>4

---------------------------------------------------------------------------
\* The lookup finds what the walk finds.

\* What a search that is to end at Named(v, path) may return.
Answers(v, path, r) ==
  /\ r # Nil /\ Fst[v][r].type = "file" => r = Named(v, path)
  /\ Named(v, path) # Nil => r = Named(v, path)

\* The walk has reached n by part i of the path, which has just matched n's name.
Passed(v, path, n, i) ==
  /\ Walk(v, path, i) = n
  /\ \/ Fst[v][n].type = "file" /\ path[i] = Fst[v][n].name
     \/ Fst[v][n].type = "dir" /\ path[i] \in {Empty, Fst[v][n].name}

\* From an entry without children a path leads nowhere, unless it ends there.
LEMMA DeadEnd ==
  ASSUME NEW v \in Volume, NEW path \in Seq(STRING), NEW i \in 1 .. Len(path),
         LET w == Walk(v, path, i)
         IN  w # Nil => \A name : Child(v, w, name) = Nil
  PROVE  LET w == Walk(v, path, i)
         IN  /\ Named(v, path) \in {w, Nil}
             /\ w # Nil /\ Fst[v][w].type # "dir" /\ i < Len(path) => Named(v, path) = Nil
<1> DEFINE w == Walk(v, path, i)
           l == Walk(v, path, Len(path))
<1>1. l \in {w, Nil}
  BY WalkStays
<1>2. Named(v, path) =
        IF l # Nil /\ path[Len(path)] = Empty /\ Fst[v][l].type # "dir" THEN Nil ELSE l
  BY Zenon DEF Named
<1>3. ASSUME w # Nil, Fst[v][w].type # "dir", i < Len(path), path[Len(path)] # Empty
      PROVE  l = Nil
  <2> DEFINE k == Len(path) - 1
  <2>1. k \in Nat /\ i <= k /\ k + 1 = Len(path) /\ i \in Nat
    BY <1>3
  <2>2. Walk(v, path, k) \in {w, Nil}
    <3> HIDE DEF k
    <3> QED
      BY <2>1, WalkStays
  <2>3. l = IF Walk(v, path, k) = Nil THEN Nil ELSE Child(v, Walk(v, path, k), path[Len(path)])
    <3> HIDE DEF k
    <3> QED
      BY <1>3, <2>1, WalkStep
  <2> QED
    BY <2>2, <2>3
<1> QED
  BY ONLY <1>1, <1>2, <1>3

\* The step of the search: when it is right for whatever the rest of the path leads to,
\* isfs_check_file and isfs_check_dir are right for an entry the walk has reached.
LEMMA CheckRight ==
  ASSUME NEW v \in Volume, NEW path \in Seq(STRING), ~EndsTwice(path),
         NEW i \in 1 .. Len(path), NEW n \in DOMAIN Fst[v], Passed(v, path, n, i),
         \A j \in i + 1 .. Len(path) : \A m \in DOMAIN Fst[v] :
           Passed(v, path, m, j) =>
             Answers(v, path, CheckEntry(v, path, m, j, isfs_find_fst(v, path)))
  PROVE  Answers(v, path, CheckEntry(v, path, n, i, isfs_find_fst(v, path)))
<1> DEFINE find == isfs_find_fst(v, path)
           sub == Fst[v][n].sub
           j == SkipSlashes(path, i + 1)
           down == sub # Nil /\ i < Len(path) /\ ~(i + 1 = Len(path) /\ path[i + 1] = Empty)
<1>0. /\ n # Nil /\ Fst[v][n].name # Empty /\ Walk(v, path, i) = n
      /\ Len(path) \in Nat /\ i \in Nat /\ i # 0
  BY TableFacts DEF Passed
<1>1. CASE Fst[v][n].type = "file"
  <2>1. path[i] = Fst[v][n].name
    BY <1>1 DEF Passed
  <2>2. CheckEntry(v, path, n, i, find) = IF i = Len(path) THEN n ELSE Nil
    BY ONLY <1>1, <2>1 DEF CheckEntry, isfs_check_file
  <2>3. \A name : Child(v, n, name) = Nil
    BY <1>1, ChildRight
  <2>4. CASE i = Len(path)
    <3>1. Named(v, path) = n
      BY ONLY <1>0, <2>1, <2>4 DEF Named
    <3> QED
      BY ONLY <2>2, <2>4, <3>1 DEF Answers
  <2>5. CASE i # Len(path)
    <3>1. Named(v, path) = Nil
      BY <1>0, <1>1, <2>3, <2>5, DeadEnd
    <3> QED
      BY ONLY <2>2, <2>5, <3>1 DEF Answers
  <2> QED
    BY ONLY <2>4, <2>5
<1>2. CASE Fst[v][n].type = "dir" /\ ~down
  <2>1. path[i] \in {Empty, Fst[v][n].name}
    BY <1>2 DEF Passed
  <2>2. CheckEntry(v, path, n, i, find) = n
    BY ONLY <1>2, <2>1, Zenon DEF CheckEntry, isfs_check_dir
  <2>3. Named(v, path) \in {n, Nil}
    <3>1. CASE sub = Nil
      <4>1. \A name : Child(v, n, name) = Nil
        BY <3>1, ChildRight
      <4> QED
        BY <1>0, <4>1, DeadEnd
    <3>2. CASE i = Len(path)
      BY ONLY <1>0, <1>2, <3>2 DEF Named
    <3>3. CASE i + 1 = Len(path) /\ path[i + 1] = Empty
      <4>1. Walk(v, path, Len(path)) = n
        BY <1>0, <3>3, WalkStep
      <4> QED
        BY ONLY <1>2, <4>1 DEF Named
    <3> QED
      BY <1>2, <3>1, <3>2, <3>3
  <2> QED
    BY ONLY <1>2, <2>2, <2>3 DEF Answers
<1>3. CASE Fst[v][n].type = "dir" /\ down
  <2>1. path[i] \in {Empty, Fst[v][n].name}
    BY <1>3 DEF Passed
  <2>2. CheckEntry(v, path, n, i, find) = find[<<sub, j>>]
    BY ONLY <1>3, <2>1, Zenon DEF CheckEntry, isfs_check_dir
  <2>3. /\ i + 1 \in 1 .. Len(path) /\ j \in i + 1 .. Len(path)
        /\ \A k \in i + 1 .. j - 1 : path[k] = Empty
        /\ j = Len(path) \/ path[j] # Empty
    <3>1. i + 1 \in 1 .. Len(path)
      BY <1>0, <1>3
    <3> QED
      BY ONLY path \in Seq(STRING), <3>1, SkipRight
  <2> HIDE DEF j
  <2>4. j \in 1 .. Len(path) /\ j \in Nat /\ j - 1 \in Nat /\ i <= j - 1 /\ (j - 1) + 1 = j
    BY <1>0, <2>3
  <2>5. path[j] # Empty
    <3> SUFFICES ASSUME path[j] = Empty PROVE FALSE
      OBVIOUS
    <3>1. j = Len(path) /\ i + 1 # Len(path)
      BY <1>3, <2>3
    <3>2. Len(path) > 2 /\ Len(path) - 1 \in i + 1 .. j - 1
      BY <1>0, <2>3, <3>1
    <3> QED
      BY <2>3, <3>1, <3>2 DEF EndsTwice
  <2>6. Walk(v, path, j) = Child(v, n, path[j])
    <3>1. Walk(v, path, j - 1) = n
      BY <1>0, <2>3, <2>4, WalkEmpty
    <3>2. Walk(v, path, (j - 1) + 1) = Child(v, n, path[(j - 1) + 1])
      BY <1>0, <2>4, <2>5, <3>1, WalkStep
    <3> QED
      BY ONLY <2>4, <3>2
  <2>7. /\ sub \in DOMAIN Fst[v] /\ OneNamed(v, sub, path[j])
        /\ InList(v, sub) \subseteq DOMAIN Fst[v]
    BY <1>3, TableFacts, ChildRight, InListStep DEF OneNamed
  <2> DEFINE c == Child(v, n, path[j])
  <2>8. CASE c = Nil
    <3>1. find[<<sub, j>>] = Nil
      BY <1>3, <2>4, <2>5, <2>7, <2>8, ChildRight, FindInList
    <3>2. Named(v, path) = Nil
      BY <2>4, <2>6, <2>8, DeadEnd
    <3> QED
      BY ONLY <2>2, <3>1, <3>2 DEF Answers
  <2>9. CASE c # Nil
    <3>1. c \in InList(v, sub) /\ IsNamed(v, c, path[j])
      BY <1>3, <2>9, ChildRight
    <3>2. find[<<sub, j>>] = CheckEntry(v, path, c, j, find)
      BY <2>4, <2>5, <2>7, <3>1, FindInList
    <3>3. c \in DOMAIN Fst[v]
      BY <2>7, <3>1
    <3>4. Passed(v, path, c, j)
      <4>1. Fst[v][c].type \in {"file", "dir", "unknown"}
        BY <3>3, TableFacts
      <4> QED
        BY <2>6, <3>1, <4>1 DEF Passed, IsNamed
    <3> QED
      BY <2>2, <2>3, <3>2, <3>3, <3>4
  <2> QED
    BY ONLY <2>8, <2>9
<1>4. Fst[v][n].type \in {"file", "dir"}
  BY DEF Passed
<1> QED
  BY ONLY <1>1, <1>2, <1>3, <1>4

\* The lookup is right for every file table and every path without two slashes at its
\* end: isfs_find_fst, which goes through siblings from the last to the first and takes an
\* empty part for any name, finds what walking down the tree finds; where that finds
\* nothing it never returns a file.
THEOREM LookupRight ==
  ASSUME NEW v \in Volume, NEW path \in Paths, ~EndsTwice(path)
  PROVE  Lookup(v, path) \in DOMAIN Fst[v] \cup {Nil} /\ Answers(v, path, Lookup(v, path))
<1> DEFINE find == isfs_find_fst(v, path)
           T == {d \in Nat : \A i \in 1 .. Len(path) : Len(path) - i <= d =>
                   \A n \in DOMAIN Fst[v] : Passed(v, path, n, i) =>
                     Answers(v, path, CheckEntry(v, path, n, i, find))}
<1>1. path \in Seq(STRING) /\ Len(path) \in Nat /\ 1 \in 1 .. Len(path) /\ path[1] = Empty
  BY IsfsFileAssumption
<1>2. 0 \in T
  <2>1. ASSUME NEW i \in 1 .. Len(path), Len(path) - i <= 0,
               NEW n \in DOMAIN Fst[v], Passed(v, path, n, i)
        PROVE  Answers(v, path, CheckEntry(v, path, n, i, find))
    <3>1. i + 1 .. Len(path) = {}
      BY <1>1, <2>1
    <3> QED
      BY <1>1, <2>1, <3>1, CheckRight
  <2> QED
    BY <2>1
<1>3. ASSUME NEW d \in Nat, d \in T
      PROVE  d + 1 \in T
  <2>1. ASSUME NEW i \in 1 .. Len(path), Len(path) - i <= d + 1,
               NEW n \in DOMAIN Fst[v], Passed(v, path, n, i)
        PROVE  Answers(v, path, CheckEntry(v, path, n, i, find))
    <3>1. \A j \in i + 1 .. Len(path) : j \in 1 .. Len(path) /\ Len(path) - j <= d
      BY <1>1, <2>1
    <3>2. \A j \in i + 1 .. Len(path) : \A m \in DOMAIN Fst[v] :
            Passed(v, path, m, j) => Answers(v, path, CheckEntry(v, path, m, j, find))
      <4> HIDE DEF find
      <4> QED
        BY <1>3, <3>1
    <3> QED
      BY <1>1, <2>1, <3>2, CheckRight
  <2> HIDE DEF find
  <2> QED
    BY <2>1
<1>4. Nat \subseteq T
  <2> HIDE DEF T
  <2> QED
    BY <1>2, <1>3, SetInduction
<1>5. \A n \in DOMAIN Fst[v] : Passed(v, path, n, 1) =>
        Answers(v, path, CheckEntry(v, path, n, 1, find))
  <2>1. Len(path) - 1 \in Nat
    BY <1>1
  <2>2. Len(path) - 1 \in T
    <3> HIDE DEF T
    <3> QED
      BY <1>4, <2>1
  <2> HIDE DEF find
  <2> QED
    BY <1>1, <2>2
<1>6. Passed(v, path, 0, 1)
  BY <1>1, WalkStep, TableFacts DEF Passed
<1>7. Lookup(v, path) = CheckEntry(v, path, 0, 1, find)
  BY <1>1, TableFacts, FindStep DEF Lookup
<1>8. Lookup(v, path) \in DOMAIN Fst[v] \cup {Nil}
  BY <1>1, TableFacts, FindType DEF Lookup
<1> HIDE DEF find
<1> QED
  BY <1>5, <1>6, <1>7, <1>8, TableFacts

---------------------------------------------------------------------------
\* Handles: what isfs_seek and isfs_read make of one.

\* The entries and the clusters of any volume.
Entries == UNION {DOMAIN Fst[v] : v \in Volume}
Clusters == (UNION {DOMAIN Fat[v] : v \in Volume}) \cup {Last}
SeekKinds == {"none", "inside", "boundary", "beyond"}
FileRecord == [open : {TRUE}, volume : Volume, fst : Entries, offset : Nat,
               cluster : Clusters, seek : SeekKinds]
DirRecord == [open : {TRUE}, volume : Volume, dir : Entries, child : Entries \cup {Nil},
              listed : Seq(Entries)]

\* A handle stands where its offset says, after the seeks that keep it there.
InPlace(f) == f.seek \in {"none", "inside"} => f.cluster = ClusterOf(f.volume, f.fst, f.offset)

\* An open file's handle: its entry is a file of its volume, and its place is right.
FileRight(f) ==
  /\ f \in FileRecord
  /\ f.fst \in DOMAIN Fst[f.volume] /\ Fst[f.volume][f.fst].type = "file"
  /\ f.cluster \in DOMAIN Fat[f.volume] \cup {Last}
  /\ InPlace(f)

\* An open directory's handle: what has been listed since it was opened or reset, and
\* what follows the child it stands at, are together the directory's children.
DirRight(r) ==
  /\ r \in DirRecord
  /\ r.dir \in DOMAIN Fst[r.volume] /\ Fst[r.volume][r.dir].type = "dir"
  /\ r.child \in DOMAIN Fst[r.volume] \cup {Nil} /\ r.listed \in Seq(DOMAIN Fst[r.volume])
  /\ r.listed \o Siblings(r.volume, r.child) = Children(r.volume, r.dir)

\* What follows for one open file.
LEMMA FileFacts ==
  ASSUME NEW f, FileRight(f)
  PROVE  /\ f.volume \in Volume /\ f.offset \in Nat /\ f.open /\ Size(f) \in Nat
         /\ f.fst \in DOMAIN Fst[f.volume]
         /\ Fst[f.volume][f.fst].sub \in DOMAIN Fat[f.volume] \cup {Last}
         /\ f.cluster \in DOMAIN Fat[f.volume] \cup {Last}
<1>1. f.volume \in Volume /\ f.offset \in Nat /\ f.open
  BY DEF FileRight, FileRecord
<1> QED
  BY <1>1, TableFacts DEF FileRight, Size

\* A cluster of one volume is a cluster.
LEMMA ClusterKnown ==
  ASSUME NEW v \in Volume, NEW c \in DOMAIN Fat[v] \cup {Last}
  PROVE  c \in Clusters
<1>1. CASE c \in DOMAIN Fat[v]
  <2>1. DOMAIN Fat[v] \in {DOMAIN Fat[w] : w \in Volume}
    OBVIOUS
  <2> QED
    BY ONLY <1>1, <2>1 DEF Clusters
<1>2. CASE c = Last
  <2>1. Last \in Clusters
    BY ONLY DEF Clusters
  <2> QED
    BY ONLY <1>2, <2>1
<1> QED
  BY <1>1, <1>2

\* isfs_seek leaves a handle that is right: its loop stops in the cluster of the new
\* offset, unless that is the start of a later cluster or beyond the end.
LEMMA SoughtRight ==
  ASSUME NEW f, FileRight(f), NEW to \in Nat
  PROVE  FileRight(Sought(f, to)) /\ Sought(f, to).volume = f.volume
         /\ Sought(f, to).fst = f.fst /\ Sought(f, to).offset = to
         /\ Sought(f, to).seek = SeekKind(f, to)
<1> DEFINE sub == Fst[f.volume][f.fst].sub
           g == Sought(f, to)
<1>1. Cluster \in Nat \ {0} /\ f \in FileRecord
  BY IsfsFileAssumption DEF FileRight
<1>2. ClustersBehind(to) \in Nat
  BY <1>1, Division DEF ClustersBehind
<1>3. Follow(f.volume, sub, ClustersBehind(to)) \in DOMAIN Fat[f.volume] \cup {Last}
  BY <1>2, FileFacts, FollowType
<1>4. SeekKind(f, to) \in {"inside", "boundary", "beyond"}
  BY DEF SeekKind
<1>5. /\ g \in FileRecord /\ g.volume = f.volume /\ g.fst = f.fst /\ g.offset = to
      /\ g.cluster = Follow(f.volume, sub, ClustersBehind(to)) /\ g.seek = SeekKind(f, to)
  <2>1. Follow(f.volume, sub, ClustersBehind(to)) \in Clusters
    BY <1>3, FileFacts, ClusterKnown
  <2>2. SeekKind(f, to) \in SeekKinds
    BY <1>4 DEF SeekKinds
  <2> QED
    <3> DEFINE c == Follow(f.volume, sub, ClustersBehind(to))
               s == SeekKind(f, to)
    <3>1. g = [f EXCEPT !.offset = to, !.seek = s, !.cluster = c]
      BY Zenon DEF Sought
    <3> HIDE DEF c, s, g
    <3>2. c \in Clusters /\ s \in SeekKinds
      BY <2>1, <2>2 DEF c, s
    <3>3. /\ g \in FileRecord /\ g.volume = f.volume /\ g.fst = f.fst /\ g.offset = to
          /\ g.cluster = c /\ g.seek = s
      BY ONLY <1>1, to \in Nat, <3>1, <3>2 DEF FileRecord
    <3> QED
      BY <3>3 DEF c, s
<1> HIDE DEF g
<1>6. SeekKind(f, to) = "inside" => ClustersBehind(to) = to \div Cluster
  <2>1. CASE to = 0
    BY <1>1, <2>1 DEF ClustersBehind
  <2>2. CASE to # 0 /\ to % Cluster # 0
    BY <1>1, <2>2, DivisionBefore DEF ClustersBehind
  <2>3. CASE to # 0 /\ to % Cluster = 0
    BY <2>3 DEF SeekKind
  <2> QED
    BY <2>1, <2>2, <2>3
<1>7. InPlace(g)
  BY <1>4, <1>5, <1>6 DEF InPlace, ClusterOf
<1>8. FileRight(g)
  BY <1>3, <1>5, <1>7 DEF FileRight
<1> QED
  BY <1>5, <1>8 DEF g

\* isfs_read leaves a handle that is right, wherever it stops: it has gone on by as many
\* clusters as its offset has.
LEMMA AdvancedRight ==
  ASSUME NEW f, FileRight(f), NEW done \in Nat
  PROVE  /\ FileRight(Advanced(f, done))
         /\ Advanced(f, done).volume = f.volume /\ Advanced(f, done).fst = f.fst
<1> DEFINE sub == Fst[f.volume][f.fst].sub
           more == (f.offset + done) \div Cluster - f.offset \div Cluster
           g == Advanced(f, done)
<1>1. Cluster \in Nat \ {0} /\ f \in FileRecord /\ f.offset \in Nat /\ f.offset + done \in Nat
  BY FileFacts, IsfsFileAssumption DEF FileRight
<1>2. /\ more \in Nat /\ f.offset \div Cluster \in Nat
      /\ f.offset \div Cluster + more = (f.offset + done) \div Cluster
  BY <1>1, Division, DivisionMonotone
<1> HIDE DEF more
<1>3. Follow(f.volume, f.cluster, more) \in DOMAIN Fat[f.volume] \cup {Last}
  BY <1>2, FileFacts, FollowType
<1>4. /\ g \in FileRecord /\ g.volume = f.volume /\ g.fst = f.fst /\ g.seek = f.seek
      /\ g.offset = f.offset + done /\ g.cluster = Follow(f.volume, f.cluster, more)
  <2>1. Follow(f.volume, f.cluster, more) \in Clusters
    BY <1>3, FileFacts, ClusterKnown
  <2>2. f.seek \in SeekKinds
    BY <1>1 DEF FileRecord
  <2> QED
    <3> DEFINE c == Follow(f.volume, f.cluster, more)
               o == f.offset + done
    <3>1. g = [f EXCEPT !.offset = o, !.cluster = c]
      BY Zenon DEF Advanced, more
    <3> HIDE DEF c, o, g
    <3>2. c \in Clusters /\ o \in Nat
      BY <1>1, <2>1 DEF c, o
    <3>3. /\ g \in FileRecord /\ g.volume = f.volume /\ g.fst = f.fst /\ g.seek = f.seek
          /\ g.offset = o /\ g.cluster = c
      BY ONLY <1>1, <2>2, <3>1, <3>2 DEF FileRecord
    <3> QED
      BY <3>3 DEF c, o
<1> HIDE DEF g
<1>5. f.seek \in {"none", "inside"} =>
        Follow(f.volume, f.cluster, more) = Follow(f.volume, sub, (f.offset + done) \div Cluster)
  BY <1>2, FollowSum DEF FileRight, InPlace, ClusterOf
<1>6. InPlace(g)
  BY <1>4, <1>5 DEF InPlace, ClusterOf
<1>7. FileRight(g)
  BY <1>3, <1>4, <1>6 DEF FileRight
<1> QED
  BY <1>4, <1>7 DEF g

\* A block comes out as it was stored, when bank and key are those of its volume.
LEMMA BlockRight ==
  ASSUME NEW v, NEW c, NEW u \in Nat
  PROVE  Block(v, v, c, u) = <<v, c, u>>
<1>1. AesMax \in Nat \ {0}
  BY IsfsFileAssumption
<1>2. IvAt(u) = IF u = 0 THEN "zero" ELSE "previous"
  BY <1>1, DivisionZero DEF IvAt, keep_iv
<1> QED
  BY <1>2 DEF Block

\* What a read copies is the file's own blocks, from where its handle stands.
LEMMA CopiedRight ==
  ASSUME NEW f, FileRight(f), f.seek \in {"none", "inside"}, NEW done \in Nat,
         done > 0 => bank' = f.volume /\ key' = f.volume
  PROVE  Copied(f, done) =
           [n \in 1 .. done |-> <<f.volume, ClusterOf(f.volume, f.fst, f.offset + n - 1),
                                  (f.offset + n - 1) % Cluster>>]
<1> DEFINE sub == Fst[f.volume][f.fst].sub
<1>1. Cluster \in Nat \ {0} /\ f.offset \in Nat
  BY FileFacts, IsfsFileAssumption
<1>2. ASSUME NEW n \in 1 .. done
      PROVE  Block(bank', key', Follow(f.volume, f.cluster,
                       (f.offset + n - 1) \div Cluster - f.offset \div Cluster),
                   (f.offset + n - 1) % Cluster)
               = <<f.volume, ClusterOf(f.volume, f.fst, f.offset + n - 1),
                   (f.offset + n - 1) % Cluster>>
  <2> DEFINE end == f.offset + n - 1
             more == end \div Cluster - f.offset \div Cluster
  <2>1. end \in Nat /\ f.offset <= end /\ end % Cluster \in Nat
    <3>1. end \in Nat /\ f.offset <= end
      BY <1>1
    <3> QED
      BY <1>1, <3>1, Division
  <2>2. /\ more \in Nat /\ f.offset \div Cluster \in Nat
        /\ f.offset \div Cluster + more = end \div Cluster
    <3> HIDE DEF end
    <3> QED
      BY <1>1, <2>1, Division, DivisionMonotone
  <2>3. Follow(f.volume, f.cluster, more) = ClusterOf(f.volume, f.fst, end)
    <3> HIDE DEF more, end
    <3> QED
      BY <2>2, FollowSum DEF FileRight, InPlace, ClusterOf
  <2>4. bank' = f.volume /\ key' = f.volume
    OBVIOUS
  <2> QED
    BY <2>1, <2>3, <2>4, BlockRight
<1> QED
  BY <1>2, Zenon DEF Copied

---------------------------------------------------------------------------
\* The inductive invariant and the calls.

\* The inductive invariant, part by part: the volumes and what the reads set up,
VolumesRight ==
  /\ initialized \in BOOLEAN /\ mounted \in [Volume -> BOOLEAN]
  /\ bank \in Volume \cup {Nil} /\ key \in Volume \cup {Nil}

\* the open files,
FilesRight ==
  /\ files \in [Files -> FileRecord \cup {ClosedFile}]
  /\ \A h \in Files : files[h].open => FileRight(files[h])

\* the open directories,
DirsRight ==
  /\ dirs \in [Dirs -> DirRecord \cup {ClosedDir}]
  /\ \A d \in Dirs : dirs[d].open => DirRight(dirs[d])

\* and what the last call has returned.
HandlesRight == VolumesRight /\ FilesRight /\ DirsRight /\ ReadIsRight /\ LookupIsRight

\* A call that changes one file leaves the others right.
LEMMA FileChanged ==
  ASSUME FilesRight, NEW h \in Files, NEW f, f = ClosedFile \/ FileRight(f),
         files' = [files EXCEPT ![h] = f]
  PROVE  FilesRight' /\ files'[h] = f /\ \A k \in Files \ {h} : files'[k] = files[k]
<1>1. f \in FileRecord \cup {ClosedFile}
  BY DEF FileRight
<1>2. /\ files' \in [Files -> FileRecord \cup {ClosedFile}]
      /\ files'[h] = f /\ \A k \in Files \ {h} : files'[k] = files[k]
  BY <1>1 DEF FilesRight
<1>3. ~ClosedFile.open
  BY DEF ClosedFile
<1>4. \A k \in Files : files'[k].open => FileRight(files'[k])
  BY <1>2, <1>3 DEF FilesRight
<1> QED
  BY <1>2, <1>4 DEF FilesRight, FileRight, InPlace, ClusterOf

\* A call that changes one directory leaves the others right.
LEMMA DirChanged ==
  ASSUME DirsRight, NEW d \in Dirs, NEW r, r = ClosedDir \/ DirRight(r),
         dirs' = [dirs EXCEPT ![d] = r]
  PROVE  DirsRight'
<1>1. r \in DirRecord \cup {ClosedDir}
  BY DEF DirRight
<1>2. /\ dirs' \in [Dirs -> DirRecord \cup {ClosedDir}]
      /\ dirs'[d] = r /\ \A k \in Dirs \ {d} : dirs'[k] = dirs[k]
  BY <1>1 DEF DirsRight
<1>3. ~ClosedDir.open
  BY DEF ClosedDir
<1>4. \A k \in Dirs : dirs'[k].open => DirRight(dirs'[k])
  BY <1>2, <1>3 DEF DirsRight
<1> QED
  BY <1>2, <1>4 DEF DirsRight, DirRight

\* Calls that leave the files, the directories or the volumes alone.
LEMMA FilesUnchanged ==
  ASSUME FilesRight, UNCHANGED files
  PROVE  FilesRight'
BY DEF FilesRight, FileRight, InPlace, ClusterOf

\* The directories are what they were.
LEMMA DirsUnchanged ==
  ASSUME DirsRight, UNCHANGED dirs
  PROVE  DirsRight'
BY DEF DirsRight, DirRight

\* The volumes, the bank and the key are what they were.
LEMMA VolumesUnchanged ==
  ASSUME VolumesRight, UNCHANGED <<initialized, mounted, bank, key>>
  PROVE  VolumesRight'
BY DEF VolumesRight

\* Calls that leave no result to compare.
LEMMA NoResult ==
  ASSUME last' = NoCall
  PROVE  ReadIsRight' /\ LookupIsRight'
BY DEF NoCall, ReadIsRight, LookupIsRight

\* Before isfs_init nothing is open.
LEMMA InitHandles ==
  ASSUME Init
  PROVE  HandlesRight
<1>1. VolumesRight
  BY DEF Init, VolumesRight
<1>2. FilesRight
  BY DEF Init, FilesRight, ClosedFile
<1>3. DirsRight
  BY DEF Init, DirsRight, ClosedDir
<1>4. ReadIsRight /\ LookupIsRight
  BY DEF Init, NoCall, ReadIsRight, LookupIsRight
<1> QED
  BY <1>1, <1>2, <1>3, <1>4 DEF HandlesRight

\* isfs_init and isfs_fini change no handle.
LEMMA MountCalls ==
  ASSUME HandlesRight, isfs_init \/ isfs_fini
  PROVE  HandlesRight'
<1>1. FilesRight' /\ DirsRight'
  BY FilesUnchanged, DirsUnchanged DEF isfs_init, isfs_fini, HandlesRight
<1>2. ReadIsRight' /\ LookupIsRight'
  BY NoResult DEF isfs_init, isfs_fini
<1>3. VolumesRight'
  <2>1. Volumes - 1 \in Volume
    BY IsfsFileAssumption DEF Volume
  <2> QED
    BY <2>1 DEF isfs_init, isfs_fini, HandlesRight, VolumesRight
<1> QED
  BY ONLY <1>1, <1>2, <1>3 DEF HandlesRight

\* A stat returns what the lookup finds.
LEMMA StatRight ==
  ASSUME HandlesRight, NEW v \in Volume, NEW path \in Paths, Stat(v, path)
  PROVE  HandlesRight'
<1>1. FilesRight' /\ DirsRight' /\ VolumesRight'
  BY FilesUnchanged, DirsUnchanged, VolumesUnchanged DEF Stat, HandlesRight
<1>2. last' = [op |-> "stat", volume |-> v, path |-> path, fst |-> Lookup(v, path)]
  BY DEF Stat
<1>3. ReadIsRight'
  BY <1>2 DEF ReadIsRight
<1>4. LookupIsRight'
  <2>1. ~EndsTwice(path) => Answers(v, path, Lookup(v, path))
    BY LookupRight
  <2> DEFINE found == Lookup(v, path)
  <2>2. last'.op = "stat" /\ last'.volume = v /\ last'.path = path /\ last'.fst = found
    BY <1>2
  <2> HIDE DEF found
  <2> QED
    BY <2>1, <2>2 DEF LookupIsRight, Answers, found
<1> QED
  BY ONLY <1>1, <1>3, <1>4 DEF HandlesRight

\* isfs_open: the new handle stands at the file's first cluster.
LEMMA OpenRight ==
  ASSUME HandlesRight, NEW h \in Files, NEW v \in Volume, NEW path \in Paths,
         isfs_open(h, v, path)
  PROVE  /\ HandlesRight'
         /\ files'[h].open => files'[h].volume = v /\ files'[h].fst = Lookup(v, path)
<1> DEFINE n == Lookup(v, path)
           ok == n # Nil /\ Fst[v][n].type = "file"
           f == [open |-> TRUE, volume |-> v, fst |-> n, offset |-> 0,
                 cluster |-> Fst[v][n].sub, seek |-> "none"]
<1>1. n \in DOMAIN Fst[v] \cup {Nil}
  <2>1. path \in Seq(STRING) /\ 1 \in 1 .. Len(path)
    BY IsfsFileAssumption
  <2> QED
    BY <2>1, TableFacts, FindType DEF Lookup
<1>2. ok => FileRight(f)
  <2> SUFFICES ASSUME ok PROVE FileRight(f)
    OBVIOUS
  <2>1. n \in DOMAIN Fst[v] /\ Fst[v][n].sub \in DOMAIN Fat[v] \cup {Last}
    BY <1>1, TableFacts
  <2>2. n \in Entries /\ Fst[v][n].sub \in Clusters
    <3>1. DOMAIN Fst[v] \in {DOMAIN Fst[w] : w \in Volume}
      OBVIOUS
    <3>2. n \in Entries
      BY ONLY <2>1, <3>1 DEF Entries
    <3> QED
      BY <2>1, <3>2, ClusterKnown
  <2> HIDE DEF n
  <2>3. f \in FileRecord
    BY <2>2 DEF FileRecord, SeekKinds
  <2>4. InPlace(f)
    <3>1. 0 \div Cluster = 0
      BY IsfsFileAssumption
    <3> QED
      BY <3>1, FollowStep DEF InPlace, ClusterOf
  <2> QED
    BY <2>1, <2>3, <2>4 DEF FileRight
<1>3. files' = IF ok THEN [files EXCEPT ![h] = f] ELSE files
  BY Zenon DEF isfs_open
<1>4. last' = [op |-> "open", volume |-> v, path |-> path, fst |-> IF ok THEN n ELSE Nil]
  BY Zenon DEF isfs_open
<1>5. DirsRight' /\ VolumesRight' /\ ~files[h].open
  BY DirsUnchanged, VolumesUnchanged DEF isfs_open, HandlesRight
<1> HIDE DEF f
<1>6. FilesRight' /\ files'[h] = IF ok THEN f ELSE files[h]
  <2>1. CASE ok
    <3>1. FileRight(f)
      BY <1>2, <2>1
    <3>2. files' = [files EXCEPT ![h] = f]
      BY <1>3, <2>1
    <3>3. FilesRight
      BY DEF HandlesRight
    <3>4. FilesRight' /\ files'[h] = f
      BY ONLY h \in Files, <3>1, <3>2, <3>3, FileChanged
    <3> QED
      BY <2>1, <3>4
  <2>2. CASE ~ok
    BY <1>3, <2>2, FilesUnchanged DEF HandlesRight
  <2> QED
    BY <2>1, <2>2
<1>7. ReadIsRight'
  BY <1>4 DEF ReadIsRight
<1>8. LookupIsRight'
  <2>1. ~EndsTwice(path) => Answers(v, path, n)
    BY LookupRight
  <2>2. last'.op = "open" /\ last'.volume = v /\ last'.path = path
        /\ last'.fst = IF ok THEN n ELSE Nil
    BY <1>4
  <2> HIDE DEF n
  <2> QED
    BY <2>1, <2>2 DEF LookupIsRight, Answers
<1>9. files'[h].open => files'[h].volume = v /\ files'[h].fst = n
  <2>1. f.volume = v /\ f.fst = n
    BY DEF f
  <2> HIDE DEF n
  <2> QED
    BY ONLY <1>5, <1>6, <2>1
<1> QED
  BY ONLY <1>5, <1>6, <1>7, <1>8, <1>9 DEF HandlesRight

\* isfs_close.
LEMMA CloseRight ==
  ASSUME HandlesRight, NEW h \in Files, isfs_close(h)
  PROVE  HandlesRight' /\ ~files'[h].open
<1>1. DirsRight' /\ VolumesRight' /\ FilesRight
  BY DirsUnchanged, VolumesUnchanged DEF isfs_close, HandlesRight
<1>2. FilesRight' /\ files'[h] = ClosedFile
  <2>1. files' = [files EXCEPT ![h] = ClosedFile]
    BY DEF isfs_close
  <2> QED
    BY ONLY h \in Files, <1>1, <2>1, FileChanged
<1>3. ReadIsRight' /\ LookupIsRight'
  BY NoResult DEF isfs_close
<1>4. ~files'[h].open
  BY ONLY <1>2 DEF ClosedFile
<1> QED
  BY ONLY <1>1, <1>2, <1>3, <1>4 DEF HandlesRight

\* isfs_seek, also when it fails; at offset 0 it always succeeds.
LEMMA SeekRight ==
  ASSUME HandlesRight, NEW h \in Files, NEW offset \in Int, NEW whence \in {"SET", "CUR", "END"},
         isfs_seek(h, offset, whence)
  PROVE  /\ HandlesRight' /\ files'[h].open
         /\ files'[h].volume = files[h].volume /\ files'[h].fst = files[h].fst
         /\ files'[h].offset \in Nat
         /\ offset = 0 /\ whence = "SET" => files'[h].offset = 0 /\ files'[h].seek = "inside"
<1> DEFINE f == files[h]
           to == SeekTarget(f, offset, whence)
<1>1. DirsRight' /\ VolumesRight' /\ FilesRight /\ f.open
  BY DirsUnchanged, VolumesUnchanged DEF isfs_seek, HandlesRight
<1>2. FileRight(f) /\ f.offset \in Nat /\ Size(f) \in Nat
  <2>1. FileRight(f)
    BY <1>1 DEF FilesRight
  <2> QED
    BY <2>1, FileFacts
<1>3. files' = IF SeekFails(f, offset, whence) THEN files ELSE [files EXCEPT ![h] = Sought(f, to)]
  BY Zenon DEF isfs_seek
<1>4. ReadIsRight' /\ LookupIsRight'
  BY NoResult DEF isfs_seek
<1>5. CASE SeekFails(f, offset, whence)
  <2>1. ~(offset = 0 /\ whence = "SET")
    BY <1>2, <1>5 DEF SeekFails
  <2>2. files' = files
    BY <1>3, <1>5
  <2>3. FilesRight'
    BY <1>1, <2>2, FilesUnchanged
  <2> QED
    BY <1>1, <1>2, <1>4, <2>1, <2>2, <2>3 DEF HandlesRight
<1>6. CASE ~SeekFails(f, offset, whence)
  <2>1. to \in Nat /\ (offset = 0 /\ whence = "SET" => to = 0)
    BY <1>2, <1>6 DEF SeekFails, SeekTarget
  <2> DEFINE g == Sought(f, to)
  <2>2. /\ FileRight(g) /\ g.volume = f.volume /\ g.fst = f.fst
        /\ g.offset = to /\ g.seek = SeekKind(f, to)
    BY <1>2, <2>1, SoughtRight
  <2>3. files' = [files EXCEPT ![h] = g]
    BY <1>3, <1>6
  <2> HIDE DEF g
  <2>4. FilesRight' /\ files'[h] = g
    BY ONLY h \in Files, <1>1, <2>2, <2>3, FileChanged
  <2>5. to = 0 => SeekKind(f, to) = "inside"
    BY <1>2 DEF SeekKind
  <2>6. g.open
    BY ONLY <2>2, FileFacts
  <2> HIDE DEF to, f
  <2>7. /\ files'[h].open /\ files'[h].volume = f.volume /\ files'[h].fst = f.fst
        /\ files'[h].offset \in Nat
        /\ offset = 0 /\ whence = "SET" => files'[h].offset = 0 /\ files'[h].seek = "inside"
    BY ONLY <2>1, <2>2, <2>4, <2>5, <2>6
  <2>8. HandlesRight'
    BY ONLY <1>1, <1>4, <2>4 DEF HandlesRight
  <2> QED
    BY ONLY <2>7, <2>8 DEF f
<1> QED
  BY ONLY <1>5, <1>6

\* isfs_read: whole, short at the end, or failed at any cluster.
LEMMA ReadRight ==
  ASSUME HandlesRight, NEW h \in Files, NEW asked \in Nat, isfs_read(h, asked)
  PROVE  /\ HandlesRight' /\ files'[h].open
         /\ files'[h].volume = files[h].volume /\ files'[h].fst = files[h].fst
         /\ last'.op = "read" /\ last'.file = files[h] /\ last'.asked = asked
         /\ last'.rc \in Int
<1> DEFINE f == files[h]
           left == Size(f) - f.offset
           size == IF asked + f.offset > Size(f) THEN left ELSE asked
<1>1. DirsRight' /\ FilesRight /\ f.open /\ f.offset <= Size(f) /\ VolumesRight
  BY DirsUnchanged DEF isfs_read, Readable, HandlesRight
<1>2. FileRight(f) /\ f.offset \in Nat /\ Size(f) \in Nat /\ f.volume \in Volume
  <2>1. FileRight(f)
    BY <1>1 DEF FilesRight
  <2> QED
    BY <2>1, FileFacts
<1>3. size \in Nat /\ size = IF asked < left THEN asked ELSE left
  BY <1>1, <1>2
<1>4. PICK done \in Nat, rc \in Int :
        /\ ReadTo(h, asked, done, rc)
        /\ rc >= 0 => rc = size /\ done = size
        /\ done > 0 => SetUp(f.volume)
        /\ SetUp(f.volume) \/ UNCHANGED <<bank, key>>
  <2>1. CASE size > 0 /\ SetUp(f.volume) /\ ReadTo(h, asked, size, size)
    BY <1>3, <2>1
  <2>2. CASE SetUp(f.volume) /\ \E done \in MayFailAt(f, size) : ReadTo(h, asked, done, -1)
    <3>1. MayFailAt(f, size) \subseteq Nat
      BY <1>3 DEF MayFailAt
    <3> QED
      BY <2>2, <3>1
  <2>3. CASE size = 0 /\ UNCHANGED <<bank, key>> /\ ReadTo(h, asked, 0, 0)
    BY <2>3
  <2>4. CASE UNCHANGED <<bank, key>> /\ ReadTo(h, asked, 0, -1)
    BY <2>4
  <2> HIDE DEF size, f
  <2> QED
    BY <2>1, <2>2, <2>3, <2>4 DEF isfs_read, size, f, left
<1> HIDE DEF size
<1>5. UNCHANGED <<initialized, mounted>>
  BY DEF isfs_read
<1>6. VolumesRight'
  BY <1>1, <1>2, <1>4, <1>5 DEF VolumesRight, SetUp
<1> DEFINE g == Advanced(f, done)
<1>7. FileRight(g) /\ g.volume = f.volume /\ g.fst = f.fst
  BY <1>2, AdvancedRight
<1>8. /\ files' = [files EXCEPT ![h] = g]
      /\ last' = [op |-> "read", file |-> f, asked |-> asked, rc |-> rc, data |-> Copied(f, done)]
  BY <1>4 DEF ReadTo
<1> HIDE DEF g
<1>9. FilesRight' /\ files'[h] = g
  BY ONLY h \in Files, <1>1, <1>7, <1>8, FileChanged
<1>10. f.seek \in {"none", "inside"} =>
         Copied(f, done) = [n \in 1 .. done |->
           <<f.volume, ClusterOf(f.volume, f.fst, f.offset + n - 1),
             (f.offset + n - 1) % Cluster>>]
  BY <1>2, <1>4, CopiedRight DEF SetUp
<1> DEFINE data == Copied(f, done)
<1>11. /\ last'.op = "read" /\ last'.file = f /\ last'.asked = asked /\ last'.rc = rc
       /\ last'.data = data
  BY <1>8
<1> HIDE DEF data, f
<1>12. ReadIsRight'
  BY <1>3, <1>4, <1>10, <1>11 DEF ReadIsRight, data, size, Size, ClusterOf
<1>13. LookupIsRight'
  BY <1>11 DEF LookupIsRight
<1>14. g.open
  BY ONLY <1>7, FileFacts
<1> QED
  BY ONLY <1>1, <1>6, <1>7, <1>9, <1>11, <1>12, <1>13, <1>14 DEF HandlesRight, f

\* isfs_diropen: everything is still to be listed.
LEMMA DiropenRight ==
  ASSUME HandlesRight, NEW d \in Dirs, NEW v \in Volume, NEW path \in Paths,
         isfs_diropen(d, v, path)
  PROVE  HandlesRight'
<1> DEFINE n == Lookup(v, path)
           r == [open |-> TRUE, volume |-> v, dir |-> n, child |-> Fst[v][n].sub, listed |-> <<>>]
<1>1. FilesRight' /\ VolumesRight' /\ DirsRight
  BY FilesUnchanged, VolumesUnchanged DEF isfs_diropen, HandlesRight
<1>2. ReadIsRight' /\ LookupIsRight'
  BY NoResult DEF isfs_diropen
<1>3. n \in DOMAIN Fst[v] /\ Fst[v][n].type = "dir" /\ Fst[v][n].sub \in DOMAIN Fst[v]
  <2>1. path \in Seq(STRING) /\ 1 \in 1 .. Len(path)
    BY IsfsFileAssumption
  <2>2. n \in DOMAIN Fst[v] \cup {Nil}
    BY <2>1, TableFacts, FindType DEF Lookup
  <2>3. n # Nil /\ Fst[v][n].type = "dir" /\ Fst[v][n].sub # Nil
    BY DEF isfs_diropen
  <2> QED
    BY <2>2, <2>3, TableFacts
<1>4. files = files /\ dirs' = [dirs EXCEPT ![d] = r]
  BY Zenon DEF isfs_diropen
<1> HIDE DEF n
<1>5. DirRight(r)
  <2>1. DOMAIN Fst[v] \in {DOMAIN Fst[w] : w \in Volume}
    OBVIOUS
  <2>2. n \in Entries /\ Fst[v][n].sub \in Entries
    BY ONLY <1>3, <2>1 DEF Entries
  <2>3. r \in DirRecord
    BY <2>2 DEF DirRecord
  <2>4. <<>> \o Siblings(v, Fst[v][n].sub) = Children(v, n)
    <3>1. Siblings(v, Fst[v][n].sub) \in Seq(DOMAIN Fst[v])
      BY <1>3, SiblingsStep
    <3> QED
      BY ONLY <3>1, ConcatEmptySeq DEF Children
  <2> QED
    BY <1>3, <2>3, <2>4 DEF DirRight
<1> HIDE DEF r
<1>6. DirsRight'
  BY ONLY d \in Dirs, <1>1, <1>4, <1>5, DirChanged
<1> QED
  BY ONLY <1>1, <1>2, <1>6 DEF HandlesRight

\* isfs_dirread: one child moves from what is to come to what has been listed.
LEMMA DirreadRight ==
  ASSUME HandlesRight, NEW d \in Dirs, isfs_dirread(d)
  PROVE  HandlesRight'
<1> DEFINE r == dirs[d]
           v == r.volume
           next == Fst[v][r.child].sib
           g == [r EXCEPT !.child = next, !.listed = Append(@, r.child)]
<1>1. FilesRight' /\ VolumesRight' /\ DirsRight
  BY FilesUnchanged, VolumesUnchanged DEF isfs_dirread, HandlesRight
<1>2. ReadIsRight' /\ LookupIsRight'
  BY NoResult DEF isfs_dirread
<1>3. DirRight(r)
  BY <1>1 DEF DirsRight, isfs_dirread
<1>4. CASE r.child = Nil
  <2>1. dirs' = dirs
    BY <1>4 DEF isfs_dirread
  <2> QED
    BY <1>1, <1>2, <2>1, DirsUnchanged DEF HandlesRight
<1>5. CASE r.child # Nil
  <2>1. /\ v \in Volume /\ r.child \in DOMAIN Fst[v] /\ next \in DOMAIN Fst[v] \cup {Nil}
        /\ r.listed \in Seq(DOMAIN Fst[v]) /\ r \in DirRecord
    <3>1. v \in Volume /\ r.child \in DOMAIN Fst[v] /\ r.listed \in Seq(DOMAIN Fst[v])
      BY <1>3, <1>5 DEF DirRight, DirRecord
    <3> QED
      BY <1>3, <3>1, TableFacts DEF DirRight
  <2> DEFINE listed == Append(r.listed, r.child)
  <2>2. listed \in Seq(DOMAIN Fst[v]) /\ listed = r.listed \o <<r.child>>
    BY ONLY <2>1, Singleton
  <2>3. next \in Entries \cup {Nil} /\ listed \in Seq(Entries)
    <3>1. DOMAIN Fst[v] \in {DOMAIN Fst[w] : w \in Volume}
      BY <2>1
    <3>2. DOMAIN Fst[v] \subseteq Entries
      BY ONLY <3>1 DEF Entries
    <3> HIDE DEF next, listed
    <3> QED
      BY ONLY <2>1, <2>2, <3>2
  <2>4. dirs' = [dirs EXCEPT ![d].child = next, ![d].listed = listed]
    BY <1>5 DEF isfs_dirread
  <2>5. dirs' = [dirs EXCEPT ![d] = g]
    BY <1>1, <2>4 DEF DirsRight
  <2>6. listed \o Siblings(v, next) = Children(v, r.dir)
    <3>1. Siblings(v, r.child) = <<r.child>> \o Siblings(v, next)
      BY <2>1, SiblingsStep
    <3>2. Siblings(v, next) \in Seq(DOMAIN Fst[v])
      <4>1. <<>> \in Seq(DOMAIN Fst[v])
        OBVIOUS
      <4> QED
        BY ONLY <2>1, <4>1, SiblingsStep
    <3>3. <<r.child>> \in Seq(DOMAIN Fst[v])
      BY ONLY <2>1, Singleton
    <3>4. r.listed \o (<<r.child>> \o Siblings(v, next))
            = (r.listed \o <<r.child>>) \o Siblings(v, next)
      <4> DEFINE S == DOMAIN Fst[v]
                 s == r.listed
                 t == <<r.child>>
                 u == Siblings(v, next)
      <4>1. s \in Seq(S) /\ t \in Seq(S) /\ u \in Seq(S)
        BY <2>1, <3>2, <3>3
      <4> HIDE DEF S, s, t, u
      <4>2. s \o (t \o u) = (s \o t) \o u
        BY ONLY <4>1, ConcatAssociative
      <4> QED
        BY ONLY <4>2 DEF s, t, u
    <3> QED
      BY <1>3, <2>2, <3>1, <3>4 DEF DirRight
  <2> HIDE DEF next, listed
  <2>7. DirRight(g)
    <3>1. /\ g \in DirRecord /\ g.volume = v /\ g.dir = r.dir /\ g.child = next
          /\ g.listed = listed
      BY <2>1, <2>3 DEF DirRecord, listed
    <3> QED
      BY ONLY <1>3, <2>1, <2>2, <2>6, <3>1 DEF DirRight
  <2> HIDE DEF g
  <2>8. DirsRight'
    BY ONLY d \in Dirs, <1>1, <2>5, <2>7, DirChanged
  <2> QED
    BY ONLY <1>1, <1>2, <2>8 DEF HandlesRight
<1> QED
  BY ONLY <1>4, <1>5

\* isfs_dirreset: everything is to be listed again.
LEMMA DirresetRight ==
  ASSUME HandlesRight, NEW d \in Dirs, isfs_dirreset(d)
  PROVE  HandlesRight'
<1> DEFINE r == dirs[d]
           v == r.volume
           first == Fst[v][r.dir].sub
           g == [r EXCEPT !.child = first, !.listed = <<>>]
<1>1. FilesRight' /\ VolumesRight' /\ DirsRight
  BY FilesUnchanged, VolumesUnchanged DEF isfs_dirreset, HandlesRight
<1>2. ReadIsRight' /\ LookupIsRight'
  BY NoResult DEF isfs_dirreset
<1>3. DirRight(r)
  BY <1>1 DEF DirsRight, isfs_dirreset
<1>4. v \in Volume /\ first \in DOMAIN Fst[v] \cup {Nil} /\ r \in DirRecord
  <2>1. v \in Volume /\ r \in DirRecord
    BY <1>3 DEF DirRight, DirRecord
  <2> QED
    BY <1>3, <2>1, TableFacts DEF DirRight
<1>5. dirs' = [dirs EXCEPT ![d].child = first, ![d].listed = <<>>]
  BY DEF isfs_dirreset
<1>6. dirs' = [dirs EXCEPT ![d] = g]
  BY <1>1, <1>5 DEF DirsRight
<1>7. first \in Entries \cup {Nil}
  <2>1. DOMAIN Fst[v] \in {DOMAIN Fst[w] : w \in Volume}
    BY <1>4
  <2> HIDE DEF first
  <2> QED
    BY ONLY <1>4, <2>1 DEF Entries
<1>8. <<>> \o Siblings(v, first) = Children(v, r.dir)
  <2>1. <<>> \in Seq(DOMAIN Fst[v])
    OBVIOUS
  <2>2. Siblings(v, first) \in Seq(DOMAIN Fst[v])
    BY ONLY <1>4, <2>1, SiblingsStep
  <2> QED
    BY ONLY <2>2, ConcatEmptySeq DEF Children
<1> HIDE DEF first
<1>9. DirRight(g)
  <2>1. /\ g \in DirRecord /\ g.volume = v /\ g.dir = r.dir /\ g.child = first
        /\ g.listed = <<>>
    <3> DEFINE none == <<>>
    <3>1. none \in Seq(Entries)
      OBVIOUS
    <3> HIDE DEF none
    <3>2. g = [r EXCEPT !.child = first, !.listed = none]
      BY DEF none
    <3>3. /\ g \in DirRecord /\ g.volume = v /\ g.dir = r.dir /\ g.child = first
          /\ g.listed = none
      BY <1>4, <1>7, <3>1, <3>2 DEF DirRecord
    <3> QED
      BY ONLY <3>3 DEF none
  <2> QED
    BY ONLY <1>3, <1>4, <1>8, <2>1 DEF DirRight
<1> HIDE DEF g
<1>10. DirsRight'
  BY ONLY d \in Dirs, <1>1, <1>6, <1>9, DirChanged
<1> QED
  BY ONLY <1>1, <1>2, <1>10 DEF HandlesRight

\* isfs_dirclose.
LEMMA DircloseRight ==
  ASSUME HandlesRight, NEW d \in Dirs, isfs_dirclose(d)
  PROVE  HandlesRight'
<1>1. FilesRight' /\ VolumesRight' /\ DirsRight
  BY FilesUnchanged, VolumesUnchanged DEF isfs_dirclose, HandlesRight
<1>2. ReadIsRight' /\ LookupIsRight'
  BY NoResult DEF isfs_dirclose
<1>3. dirs' = [dirs EXCEPT ![d] = ClosedDir]
  BY DEF isfs_dirclose
<1>4. DirsRight'
  BY ONLY d \in Dirs, <1>1, <1>3, DirChanged
<1> QED
  BY ONLY <1>1, <1>2, <1>4 DEF HandlesRight

---------------------------------------------------------------------------
\* The properties follow.

\* A sequence is the beginning of what it is continued to.
LEMMA PrefixOf ==
  ASSUME NEW S, NEW s \in Seq(S), NEW t \in Seq(S)
  PROVE  Len(s) <= Len(s \o t) /\ s = SubSeq(s \o t, 1, Len(s))
<1>1. /\ s \o t \in Seq(S) /\ Len(s \o t) = Len(s) + Len(t) /\ Len(s) \in Nat /\ Len(t) \in Nat
      /\ \A k \in 1 .. Len(s) : (s \o t)[k] = s[k]
  BY ConcatProperties
<1> DEFINE u == s \o t
<1> HIDE DEF u
<1>2. Len(s) <= Len(u)
  BY <1>1 DEF u
<1>3. s = SubSeq(u, 1, Len(s))
  <2>1. SubSeq(u, 1, Len(s)) \in Seq(S) /\ Len(SubSeq(u, 1, Len(s))) = Len(s)
    BY <1>1, <1>2 DEF u
  <2>2. \A k \in 1 .. Len(s) : SubSeq(u, 1, Len(s))[k] = s[k]
    BY <1>1, <1>2 DEF u
  <2> QED
    BY <2>1, <2>2
<1> QED
  BY <1>2, <1>3 DEF u

\* The inductive invariant implies the properties: types, the place of every handle, what
\* a read delivers, the lookup and the listings.
LEMMA PropertiesHold ==
  ASSUME HandlesRight
  PROVE  TypeOK /\ PlaceIsRight /\ ReadIsRight /\ TreeIsRight
<1>1. TypeOK
  <2>1. ASSUME NEW h \in Files, files[h].open
        PROVE  /\ files[h].volume \in Volume
               /\ files[h].fst \in DOMAIN Fst[files[h].volume]
               /\ files[h].offset \in Nat
               /\ files[h].cluster \in DOMAIN Fat[files[h].volume] \cup {Last}
    <3>1. FileRight(files[h])
      BY <2>1 DEF HandlesRight, FilesRight
    <3> QED
      BY ONLY <3>1, FileFacts
  <2>2. ASSUME NEW d \in Dirs, dirs[d].open
        PROVE  dirs[d].child \in DOMAIN Fst[dirs[d].volume] \cup {Nil}
    BY <2>2 DEF HandlesRight, DirsRight, DirRight
  <2> QED
    BY <2>1, <2>2 DEF TypeOK, HandlesRight, VolumesRight
<1>2. PlaceIsRight
  BY <1>1 DEF PlaceIsRight, HandlesRight, FilesRight, FileRight, InPlace
<1>3. ListedWhole
  <2> SUFFICES ASSUME NEW d \in Dirs, dirs[d].open
               PROVE  LET all == Children(dirs[d].volume, dirs[d].dir)
                      IN  /\ Len(dirs[d].listed) <= Len(all)
                          /\ dirs[d].listed = SubSeq(all, 1, Len(dirs[d].listed))
                          /\ dirs[d].child = Nil => dirs[d].listed = all
    BY DEF ListedWhole
  <2> DEFINE r == dirs[d]
             rest == Siblings(r.volume, r.child)
  <2>1. DirRight(r)
    BY DEF HandlesRight, DirsRight
  <2>2. /\ r.volume \in Volume /\ r.child \in DOMAIN Fst[r.volume] \cup {Nil}
        /\ r.listed \in Seq(DOMAIN Fst[r.volume])
        /\ r.listed \o rest = Children(r.volume, r.dir)
    BY <2>1 DEF DirRight, DirRecord
  <2>3. rest \in Seq(DOMAIN Fst[r.volume]) /\ (r.child = Nil => rest = <<>>)
    <3>1. <<>> \in Seq(DOMAIN Fst[r.volume])
      OBVIOUS
    <3> QED
      BY ONLY <2>2, <3>1, SiblingsStep
  <2> HIDE DEF rest
  <2>4. r.child = Nil => r.listed = Children(r.volume, r.dir)
    BY ONLY <2>2, <2>3, ConcatEmptySeq
  <2> QED
    BY ONLY <2>2, <2>3, <2>4, PrefixOf
<1> QED
  BY <1>1, <1>2, <1>3 DEF HandlesRight, TreeIsRight

\* Every call of the file system keeps the invariant, whoever makes it.
LEMMA CallRight ==
  ASSUME HandlesRight, NEW handles, handles \subseteq Files, Call(handles)
  PROVE  HandlesRight'
<1>1. CASE isfs_init \/ isfs_fini
  BY <1>1, MountCalls
<1>2. ASSUME NEW v \in Volume, NEW path \in Paths, PathCall(handles, v, path)
      PROVE  HandlesRight'
  <2>1. CASE Stat(v, path)
    BY <2>1, StatRight
  <2>2. ASSUME NEW h \in handles, isfs_open(h, v, path)
        PROVE  HandlesRight'
    BY <2>2, OpenRight
  <2>3. ASSUME NEW d \in Dirs, isfs_diropen(d, v, path)
        PROVE  HandlesRight'
    BY <2>3, DiropenRight
  <2> QED
    BY ONLY <1>2, <2>1, <2>2, <2>3 DEF PathCall
<1>3. ASSUME NEW h \in handles, FileCall(h)
      PROVE  HandlesRight'
  <2>1. CASE isfs_close(h)
    BY <2>1, CloseRight
  <2>2. ASSUME NEW n \in Sizes, isfs_read(h, n)
        PROVE  HandlesRight'
    <3>1. n \in Nat /\ h \in Files
      BY IsfsFileAssumption
    <3> QED
      BY ONLY HandlesRight, <2>2, <3>1, ReadRight
  <2>3. ASSUME NEW s \in Seeks, isfs_seek(h, s[1], s[2])
        PROVE  HandlesRight'
    <3>1. s[1] \in Int /\ s[2] \in {"SET", "CUR", "END"} /\ h \in Files
      BY IsfsFileAssumption
    <3> QED
      BY ONLY HandlesRight, <2>3, <3>1, SeekRight
  <2> QED
    BY ONLY <1>3, <2>1, <2>2, <2>3 DEF FileCall
<1>4. ASSUME NEW d \in Dirs, DirCall(d)
      PROVE  HandlesRight'
  BY <1>4, DirreadRight, DirresetRight, DircloseRight DEF DirCall
<1> QED
  BY ONLY Call(handles), <1>1, <1>2, <1>3, <1>4 DEF Call

---------------------------------------------------------------------------
\* What ancast_ppc_load knows at each of its steps.

\* Where ancast_ppc_load has the file open.
Reading == {"seek end", "rewind", "buffer", "rewind again", "judge", "rewind to load",
            "load", "hash", "short"}

\* What the checks before the load have established.
Accepted == seen /\ img.magic /\ img.header # Nil /\ ForThisProcessor

\* The entry of kernel.img.
ImageFst == Lookup(ImageVolume, ImagePath)

\* What is known at each step: the handle is on the image, at its start before each read;
\* a load begins only after the header was accepted; when it came back with all the
\* blocks they are the content, and else a read failed or the file is too short.
LoadRight ==
  /\ at \in Reading \cup {"none", "returned"}
  /\ length \in Nat
  /\ at = "none" => ~seen /\ ~vector
  /\ at \in Reading =>
       /\ img \in Images /\ ~vector
       /\ files[ImageFile].open
       /\ files[ImageFile].volume = ImageVolume /\ files[ImageFile].fst = ImageFst
  /\ at \in {"buffer", "judge", "load"} =>
       files[ImageFile].offset = 0 /\ files[ImageFile].seek = "inside"
  /\ at \in {"rewind to load", "load", "hash", "short"} => Accepted
  /\ at = "hash" => mem = Content
  /\ at = "short" => faulted \/ ~(Whole <= Fst[ImageVolume][ImageFst].size)
  /\ ImageIsRight

\* The inductive invariant, with that of the file system below.
AncastInv == HandlesRight /\ LoadRight

\* The types of the constants.
LEMMA ImageFacts ==
  /\ ImageFile \in Files /\ ImageVolume \in Volume /\ ImagePath \in Paths
  /\ \A i \in Images : /\ i.header \in {Nil} \cup 1 .. Buffer /\ i.body \in Nat
                       /\ i.header # Nil => i.header + i.body \in Nat
  /\ Buffer \in Nat
<1>1. Buffer \in Nat
  BY AncastAssumption, IsfsFileAssumption
<1>2. \A i \in Images : i.header \in {Nil} \cup 1 .. Buffer /\ i.body \in Nat
  BY AncastAssumption
<1> QED
  BY <1>1, <1>2, AncastAssumption

---------------------------------------------------------------------------
\* The steps.

\* What the outcome depends on, besides where the load is.
ImageVars == <<img, length, seen, mem, vector, faulted>>

\* A load that is on its way has no outcome yet.
LEMMA OnItsWay ==
  ASSUME at' \in Reading \cup {"none"}, ~vector'
  PROVE  ImageIsRight'
<1>1. at' # "returned"
  BY DEF Reading
<1> QED
  BY ONLY ~vector', <1>1 DEF ImageIsRight, VectorIsVerified, SoundIsLoaded, ClosedUnlessRejected

\* ancast_init opens the image: the handle stands at its start.
LEMMA OpenStep ==
  ASSUME AncastInv, Open
  PROVE  AncastInv'
<1>1. HandlesRight /\ LoadRight /\ at = "none" /\ ~seen /\ ~vector
  BY DEF AncastInv, LoadRight, Open, Step
<1>2. img' \in Images /\ length' = length /\ seen' = seen /\ vector' = vector /\ length' \in Nat
  BY <1>1 DEF Open, LoadRight
<1>3. CASE isfs_open(ImageFile, ImageVolume, ImagePath)
           /\ Step("none", IF files'[ImageFile].open THEN "seek end" ELSE "returned")
  <2>1. /\ HandlesRight'
        /\ files'[ImageFile].open =>
             files'[ImageFile].volume = ImageVolume /\ files'[ImageFile].fst = ImageFst
    BY <1>1, <1>3, ImageFacts, OpenRight DEF ImageFst
  <2>2. at' = IF files'[ImageFile].open THEN "seek end" ELSE "returned"
    BY <1>3 DEF Step
  <2>3. CASE files'[ImageFile].open
    <3>1. at' = "seek end"
      BY <2>2, <2>3
    <3>2. ImageIsRight'
      BY <1>1, <1>2, <3>1, OnItsWay DEF Reading
    <3> QED
      BY <1>1, <1>2, <2>1, <2>3, <3>1, <3>2 DEF AncastInv, LoadRight, Reading
  <2>4. CASE ~files'[ImageFile].open
    <3>1. at' = "returned"
      BY <2>2, <2>4
    <3>2. ImageIsRight'
      BY ONLY <1>1, <1>2, <2>4, <3>1
         DEF ImageIsRight, VectorIsVerified, SoundIsLoaded, ClosedUnlessRejected
    <3> QED
      BY <1>2, <2>1, <3>1, <3>2 DEF AncastInv, LoadRight, Reading
  <2> QED
    BY ONLY <2>3, <2>4
<1>4. CASE UNCHANGED vars /\ Step("none", "returned")
  <2>1. HandlesRight'
    BY <1>1, <1>4 DEF vars, HandlesRight, VolumesRight, FilesRight, FileRight, InPlace, ClusterOf,
                      DirsRight, DirRight, ReadIsRight, LookupIsRight
  <2>2. at' = "returned" /\ ~files'[ImageFile].open
    BY <1>4, ImageFacts DEF Open, Step, vars
  <2>3. ImageIsRight'
    BY ONLY <1>1, <1>2, <2>2
       DEF ImageIsRight, VectorIsVerified, SoundIsLoaded, ClosedUnlessRejected
  <2> QED
    BY <1>2, <2>1, <2>2, <2>3 DEF AncastInv, LoadRight, Reading
<1> QED
  BY ONLY Open, <1>3, <1>4 DEF Open

\* A step without a call of the file system.
LEMMA HandlesUnchanged ==
  ASSUME HandlesRight, UNCHANGED vars
  PROVE  HandlesRight'
BY DEF vars, HandlesRight, VolumesRight, FilesRight, FileRight, InPlace, ClusterOf,
       DirsRight, DirRight, ReadIsRight, LookupIsRight

\* fseek to the end: the length is a natural.
LEMMA SeekEndStep ==
  ASSUME AncastInv, SeekEnd
  PROVE  AncastInv'
<1>1. HandlesRight /\ LoadRight /\ at = "seek end" /\ at' = "rewind"
  BY DEF AncastInv, SeekEnd, Step
<1>2. /\ HandlesRight' /\ files'[ImageFile].open
      /\ files'[ImageFile].volume = files[ImageFile].volume
      /\ files'[ImageFile].fst = files[ImageFile].fst
      /\ files'[ImageFile].offset \in Nat
  <2>1. isfs_seek(ImageFile, 0, "END") /\ ImageFile \in Files
    BY ImageFacts DEF SeekEnd
  <2>2. 0 \in Int /\ "END" \in {"SET", "CUR", "END"}
    OBVIOUS
  <2> QED
    BY ONLY <1>1, <2>1, <2>2, SeekRight
<1>3. length' = files'[ImageFile].offset /\ img' = img /\ vector' = vector
  BY DEF SeekEnd
<1>4. /\ img \in Images /\ ~vector
      /\ files[ImageFile].volume = ImageVolume /\ files[ImageFile].fst = ImageFst
  BY <1>1 DEF LoadRight, Reading
<1>5. ImageIsRight'
  BY <1>1, <1>3, <1>4, OnItsWay DEF Reading
<1> QED
  BY ONLY <1>1, <1>2, <1>3, <1>4, <1>5
    DEF AncastInv, LoadRight, Reading, ImageFst, Lookup, isfs_find_fst

\* Each of the three rewinds brings the handle to its start, in the first cluster.
LEMMA RewindStep ==
  ASSUME AncastInv, Rewind
  PROVE  AncastInv'
<1>1. /\ HandlesRight /\ LoadRight
      /\ \/ at = "rewind" /\ at' = "buffer"
         \/ at = "rewind again" /\ at' = "judge"
         \/ at = "rewind to load" /\ at' = "load"
  BY DEF AncastInv, Rewind, Step
<1>2. /\ HandlesRight' /\ files'[ImageFile].open
      /\ files'[ImageFile].volume = files[ImageFile].volume
      /\ files'[ImageFile].fst = files[ImageFile].fst
      /\ files'[ImageFile].offset = 0 /\ files'[ImageFile].seek = "inside"
  <2>1. isfs_seek(ImageFile, 0, "SET") /\ ImageFile \in Files
    BY ImageFacts DEF Rewind
  <2>2. 0 \in Int /\ "SET" \in {"SET", "CUR", "END"}
    OBVIOUS
  <2> QED
    BY ONLY <1>1, <2>1, <2>2, SeekRight
<1>3. UNCHANGED <<img, length, seen, vector>>
  BY DEF Rewind
<1>4. /\ img \in Images /\ ~vector /\ length \in Nat
      /\ files[ImageFile].volume = ImageVolume /\ files[ImageFile].fst = ImageFst
      /\ at = "rewind to load" => Accepted
  BY <1>1 DEF LoadRight, Reading
<1>5. ImageIsRight'
  BY <1>1, <1>3, <1>4, OnItsWay DEF Reading
<1>6. at' = "load" => Accepted'
  BY ONLY <1>1, <1>3, <1>4 DEF Accepted, ForThisProcessor, HeaderRead
<1> QED
  BY ONLY <1>1, <1>2, <1>3, <1>4, <1>5, <1>6
     DEF AncastInv, LoadRight, Reading, ImageFst, Lookup, isfs_find_fst

\* The read of the header.
LEMMA ReadBufferStep ==
  ASSUME AncastInv, ReadBuffer
  PROVE  AncastInv'
<1>1. HandlesRight /\ LoadRight /\ at = "buffer" /\ at' = "rewind again"
  BY DEF AncastInv, ReadBuffer, Step
<1>2. /\ img \in Images /\ ~vector /\ length \in Nat
      /\ files[ImageFile].volume = ImageVolume /\ files[ImageFile].fst = ImageFst
  BY <1>1 DEF LoadRight, Reading
<1>3. /\ HandlesRight' /\ files'[ImageFile].open
      /\ files'[ImageFile].volume = files[ImageFile].volume
      /\ files'[ImageFile].fst = files[ImageFile].fst
  <2> DEFINE asked == IF Buffer < length THEN Buffer ELSE length
  <2>1. asked \in Nat /\ ImageFile \in Files
    BY <1>2, ImageFacts
  <2>2. isfs_read(ImageFile, asked)
    BY DEF ReadBuffer
  <2> HIDE DEF asked
  <2> QED
    BY ONLY <1>1, <2>1, <2>2, ReadRight
<1>4. UNCHANGED <<img, length, vector>>
  BY DEF ReadBuffer
<1>5. ImageIsRight'
  BY <1>1, <1>2, <1>4, OnItsWay DEF Reading
<1> QED
  BY ONLY <1>1, <1>2, <1>3, <1>4, <1>5
     DEF AncastInv, LoadRight, Reading, ImageFst, Lookup, isfs_find_fst

\* The read of the whole image: all its blocks, or a reason why not.
LEMMA LoadStep ==
  ASSUME AncastInv, Load
  PROVE  AncastInv'
<1> DEFINE f == files[ImageFile]
<1>1. HandlesRight /\ LoadRight /\ at = "load" /\ Accepted
  BY DEF AncastInv, LoadRight, Load, Step
<1>2. /\ img \in Images /\ ~vector /\ length \in Nat
      /\ f.open /\ f.volume = ImageVolume /\ f.fst = ImageFst
      /\ f.offset = 0 /\ f.seek = "inside"
  BY <1>1 DEF LoadRight, Reading
<1>3. Whole \in Nat
  BY <1>1, <1>2, ImageFacts DEF Whole, Accepted
<1>4. /\ HandlesRight' /\ files'[ImageFile].open
      /\ files'[ImageFile].volume = f.volume
      /\ files'[ImageFile].fst = f.fst
      /\ last'.op = "read" /\ last'.file = f /\ last'.asked = Whole /\ last'.rc \in Int
  <2>1. isfs_read(ImageFile, Whole) /\ ImageFile \in Files
    BY ImageFacts DEF Load
  <2> QED
    BY ONLY <1>1, <1>3, <2>1, ReadRight
<1>5. /\ at' = IF last'.rc = Whole THEN "hash" ELSE "short"
      /\ mem' = last'.data /\ faulted' = (faulted \/ last'.rc < 0)
      /\ UNCHANGED <<img, length, seen, vector>>
  BY DEF Load, Step
<1>6. Size(f) = Fst[ImageVolume][ImageFst].size /\ Size(f) \in Nat
  <2>1. FileRight(f)
    BY <1>1, <1>2, ImageFacts DEF HandlesRight, FilesRight
  <2> QED
    BY <1>2, <2>1, FileFacts DEF Size
<1>7. last'.rc >= 0 =>
        /\ last'.rc = IF Whole < Size(f) THEN Whole ELSE Size(f)
        /\ last'.data = [n \in 1 .. last'.rc |->
             <<ImageVolume, ClusterOf(ImageVolume, ImageFst, 0 + n - 1), (0 + n - 1) % Cluster>>]
  <2>1. ReadIsRight'
    BY ONLY <1>4 DEF HandlesRight
  <2>2. Size(f) - 0 = Size(f)
    BY <1>6
  <2> HIDE DEF f
  <2> QED
    BY ONLY <1>2, <1>4, <2>1, <2>2 DEF ReadIsRight, Size, ClusterOf, ImageFst
<1> HIDE DEF f
<1>8. at' = "hash" => mem' = Content
  <2>1. \A n \in 1 .. Whole : 0 + n - 1 = n - 1
    OBVIOUS
  <2>2. at' = "hash" => mem' = [n \in 1 .. Whole |->
          <<ImageVolume, ClusterOf(ImageVolume, ImageFst, 0 + n - 1), (0 + n - 1) % Cluster>>]
    <3> SUFFICES ASSUME at' = "hash"
                 PROVE  mem' = [n \in 1 .. Whole |-> <<ImageVolume,
                                  ClusterOf(ImageVolume, ImageFst, 0 + n - 1),
                                  (0 + n - 1) % Cluster>>]
      OBVIOUS
    <3>1. last'.rc = Whole /\ mem' = last'.data
      BY ONLY at' = "hash", <1>5
    <3>2. Whole >= 0
      BY ONLY <1>3
    <3> QED
      BY ONLY <1>7, <3>1, <3>2
  <2> QED
    BY ONLY <2>1, <2>2 DEF Content, ImageFst
<1>9. at' = "short" => faulted' \/ ~(Whole <= Fst[ImageVolume][ImageFst].size)
  <2>1. CASE last'.rc < 0
    BY ONLY <1>5, <2>1
  <2>2. CASE last'.rc >= 0 /\ last'.rc # Whole
    <3>1. ~(Whole <= Size(f))
      BY ONLY <1>3, <1>6, <1>7, <2>2
    <3> QED
      BY ONLY <1>6, <3>1
  <2>3. CASE last'.rc = Whole
    BY ONLY <1>5, <2>3
  <2> QED
    BY ONLY <1>4, <2>1, <2>2, <2>3
<1>10. Content' = Content /\ Whole' = Whole /\ ImageFst' = ImageFst
  BY ONLY <1>5 DEF Content, Whole, ImageFst, Lookup, isfs_find_fst, ClusterOf
<1>11. Accepted'
  BY ONLY <1>1, <1>5 DEF Accepted, ForThisProcessor, HeaderRead
<1>12. at' \in Reading /\ at' # "none"
  BY ONLY <1>5 DEF Reading
<1>13. ImageIsRight'
  BY <1>2, <1>5, <1>12, OnItsWay
<1>14. at' \in {"hash", "short"}
  BY ONLY <1>5
<1> QED
  BY ONLY <1>2, <1>4, <1>5, <1>8, <1>9, <1>10, <1>11, <1>12, <1>13, <1>14 DEF AncastInv, LoadRight

\* Returning without an address is right, for what has not been loaded.
LEMMA GiveUpRight ==
  ASSUME LoadRight, HandlesRight', at' = "returned", UNCHANGED ImageVars, ~vector,
         files'[ImageFile].open => ~seen \/ ~img.magic \/ img.header = Nil \/ ~img.hash,
         Accepted /\ img.hash => faulted \/ ~(Whole <= Fst[ImageVolume][ImageFst].size)
  PROVE  AncastInv'
<1>1. length \in Nat
  BY DEF LoadRight
<1>2. UNCHANGED <<Whole, ImageFst>>
  BY DEF ImageVars, Whole, ImageFst, Lookup, isfs_find_fst
<1>3. SoundIsLoaded' /\ ClosedUnlessRejected' /\ VectorIsVerified'
  BY ONLY UNCHANGED ImageVars, ~vector, <1>2,
          files'[ImageFile].open => ~seen \/ ~img.magic \/ img.header = Nil \/ ~img.hash,
          Accepted /\ img.hash => faulted \/ ~(Whole <= Fst[ImageVolume][ImageFst].size)
     DEF ImageVars, SoundIsLoaded, ClosedUnlessRejected, VectorIsVerified, Accepted,
         ForThisProcessor, HeaderRead, ImageFst
<1>4. at' \notin Reading /\ at' \notin {"none", "buffer", "judge", "load", "rewind to load",
                                        "hash", "short"}
  BY DEF Reading
<1> QED
  BY ONLY HandlesRight', at' = "returned", UNCHANGED ImageVars, <1>1, <1>3, <1>4
     DEF AncastInv, LoadRight, ImageIsRight, ImageVars

\* A file that is no image is given up and left open.
LEMMA NotAncastStep ==
  ASSUME AncastInv, NotAncast
  PROVE  AncastInv'
<1>1. /\ HandlesRight /\ LoadRight /\ at = "judge" /\ at' = "returned"
      /\ UNCHANGED ImageVars /\ UNCHANGED vars
      /\ ~seen \/ ~img.magic \/ img.header = Nil
  BY DEF AncastInv, NotAncast, GiveUp, Step, ImageVars
<1>2. ~vector
  BY <1>1 DEF LoadRight, Reading
<1>3. ~Accepted
  BY ONLY <1>1 DEF Accepted
<1> QED
  BY ONLY <1>1, <1>2, <1>3, HandlesUnchanged, GiveUpRight

\* The target and the device decide whether the image is loaded.
LEMMA JudgeStep ==
  ASSUME AncastInv, Judge
  PROVE  AncastInv'
<1>1. /\ HandlesRight /\ LoadRight /\ at = "judge" /\ UNCHANGED ImageVars
      /\ seen /\ img.magic /\ img.header # Nil
  BY DEF AncastInv, Judge, Step, ImageVars
<1>2. /\ img \in Images /\ ~vector /\ length \in Nat /\ files[ImageFile].open
      /\ files[ImageFile].volume = ImageVolume /\ files[ImageFile].fst = ImageFst
  BY <1>1 DEF LoadRight, Reading
<1>3. CASE ForThisProcessor
  <2>1. at' = "rewind to load" /\ UNCHANGED vars
    BY <1>3 DEF Judge, Step
  <2>2. HandlesRight'
    BY ONLY <1>1, <2>1, HandlesUnchanged
  <2>3. Accepted'
    BY ONLY <1>1, <1>3 DEF Accepted, ForThisProcessor, HeaderRead, ImageVars
  <2>4. ImageIsRight'
    BY <1>1, <1>2, <2>1, OnItsWay DEF Reading, ImageVars
  <2>5. files' = files
    BY <2>1 DEF vars
  <2> QED
    BY ONLY <1>1, <1>2, <2>1, <2>2, <2>3, <2>4, <2>5
       DEF AncastInv, LoadRight, Reading, ImageVars, ImageFst, Lookup, isfs_find_fst
<1>4. CASE ~ForThisProcessor
  <2>1. at' = "returned" /\ isfs_close(ImageFile)
    BY <1>4 DEF Judge, Step
  <2>2. HandlesRight' /\ ~files'[ImageFile].open
    BY <1>1, <2>1, ImageFacts, CloseRight
  <2>3. ~Accepted
    BY ONLY <1>4 DEF Accepted
  <2> QED
    BY ONLY <1>1, <1>2, <2>1, <2>2, <2>3, GiveUpRight
<1> QED
  BY ONLY <1>3, <1>4

\* A wrong hash: given up, and left open.
LEMMA WrongHashStep ==
  ASSUME AncastInv, WrongHash
  PROVE  AncastInv'
<1>1. /\ HandlesRight /\ LoadRight /\ at = "hash" /\ at' = "returned"
      /\ UNCHANGED ImageVars /\ UNCHANGED vars /\ ~HashMatches
  BY DEF AncastInv, WrongHash, GiveUp, Step, ImageVars
<1>2. ~vector /\ mem = Content
  BY <1>1 DEF LoadRight, Reading
<1>3. ~img.hash
  BY ONLY <1>1, <1>2 DEF HashMatches
<1> QED
  BY ONLY <1>1, <1>2, <1>3, HandlesUnchanged, GiveUpRight

\* A read that came back short: closed, and NULL is returned.
LEMMA ShortStep ==
  ASSUME AncastInv, Short
  PROVE  AncastInv'
<1>1. /\ HandlesRight /\ LoadRight /\ at = "short" /\ at' = "returned"
      /\ UNCHANGED ImageVars /\ isfs_close(ImageFile)
  BY DEF AncastInv, Short, GiveUp, Step, ImageVars
<1>2. ~vector /\ (faulted \/ ~(Whole <= Fst[ImageVolume][ImageFst].size))
  BY <1>1 DEF LoadRight, Reading
<1>3. HandlesRight' /\ ~files'[ImageFile].open
  BY <1>1, ImageFacts, CloseRight
<1> QED
  BY ONLY <1>1, <1>2, <1>3, GiveUpRight

\* The address is returned for what has been verified.
LEMMA ReturnVectorStep ==
  ASSUME AncastInv, ReturnVector
  PROVE  AncastInv'
<1>1. /\ HandlesRight /\ LoadRight /\ at = "hash" /\ at' = "returned" /\ vector'
      /\ UNCHANGED <<img, length, seen, mem, faulted>> /\ HashMatches /\ isfs_close(ImageFile)
  BY DEF AncastInv, ReturnVector, Step
<1>2. Accepted /\ mem = Content /\ length \in Nat
  BY <1>1 DEF LoadRight, Reading
<1>3. HandlesRight' /\ ~files'[ImageFile].open
  BY <1>1, ImageFacts, CloseRight
<1>4. Content' = Content
  BY ONLY <1>1 DEF Content, Whole, Lookup, isfs_find_fst, ClusterOf
<1>5. VectorIsVerified'
  BY ONLY <1>1, <1>2, <1>4
     DEF VectorIsVerified, Accepted, ForThisProcessor, HashMatches
<1>6. SoundIsLoaded' /\ ClosedUnlessRejected'
  BY ONLY <1>1, <1>3 DEF SoundIsLoaded, ClosedUnlessRejected
<1>7. at' \notin Reading /\ at' \notin {"none", "buffer", "judge", "load", "rewind to load",
                                        "hash", "short"}
  BY <1>1 DEF Reading
<1> QED
  BY ONLY <1>1, <1>2, <1>3, <1>5, <1>6, <1>7 DEF AncastInv, LoadRight, ImageIsRight

\* Another load starts over.
LEMMA AgainStep ==
  ASSUME AncastInv, Again
  PROVE  AncastInv'
<1>1. /\ HandlesRight /\ at' = "none" /\ length' = 0 /\ seen' = FALSE /\ vector' = FALSE
      /\ files' = [files EXCEPT ![ImageFile] = ClosedFile] /\ last' = NoCall
      /\ UNCHANGED <<initialized, mounted, bank, key, dirs>>
  BY DEF AncastInv, Again
<1>2. HandlesRight'
  <2>1. FilesRight'
    BY <1>1, ImageFacts, FileChanged DEF HandlesRight
  <2> QED
    BY <1>1, <2>1, DirsUnchanged, VolumesUnchanged, NoResult DEF HandlesRight
<1>3. ImageIsRight'
  BY <1>1, OnItsWay
<1>4. at' \notin Reading
  BY <1>1 DEF Reading
<1> QED
  BY ONLY <1>1, <1>2, <1>3, <1>4 DEF AncastInv, LoadRight

\* Other users of the volumes, before and after.
LEMMA OthersStep ==
  ASSUME AncastInv, Others
  PROVE  AncastInv'
<1>1. HandlesRight /\ LoadRight /\ at = "none" /\ UNCHANGED avars
  BY DEF AncastInv, Others
<1>2. HandlesRight'
  <2>1. Call(Files \ {ImageFile}) /\ Files \ {ImageFile} \subseteq Files
    BY DEF Others
  <2> QED
    BY ONLY <1>1, <2>1, CallRight
<1>3. /\ at' = "none" /\ length' \in Nat /\ ~seen' /\ ~vector'
  BY <1>1 DEF LoadRight, avars
<1>4. ImageIsRight'
  BY <1>3, OnItsWay
<1>5. at' \notin Reading
  BY <1>3 DEF Reading
<1> QED
  BY ONLY <1>2, <1>3, <1>4, <1>5 DEF AncastInv, LoadRight

\* Nothing changes.
LEMMA AncastStuttering ==
  ASSUME AncastInv, UNCHANGED allvars
  PROVE  AncastInv'
<1>1. HandlesRight'
  BY HandlesUnchanged DEF AncastInv, allvars
<1>2. LoadRight'
  BY DEF AncastInv, allvars, avars, vars, LoadRight, Accepted, ForThisProcessor, HeaderRead,
         Content,
         Whole, ImageFst, Lookup, isfs_find_fst, ClusterOf, ImageIsRight, VectorIsVerified,
         SoundIsLoaded, ClosedUnlessRejected
<1> QED
  BY <1>1, <1>2 DEF AncastInv

\* The initial states.
LEMMA AncastInitially ==
  ASSUME AncastInit
  PROVE  AncastInv
<1>1. HandlesRight
  BY InitHandles DEF AncastInit
<1>2. at = "none" /\ length = 0 /\ seen = FALSE /\ vector = FALSE
  BY DEF AncastInit
<1>3. ImageIsRight
  BY ONLY <1>2 DEF ImageIsRight, VectorIsVerified, SoundIsLoaded, ClosedUnlessRejected
<1>4. at \notin Reading
  BY <1>2 DEF Reading
<1> QED
  BY ONLY <1>1, <1>2, <1>3, <1>4 DEF AncastInv, LoadRight

\* The invariant of ancast_ppc_load on top of the ISFS calls.
THEOREM AncastInvariant == AncastSpec => []AncastInv
<1>1. AncastInit => AncastInv
  BY AncastInitially
<1>2. AncastInv /\ [AncastNext]_allvars => AncastInv'
  <2> SUFFICES ASSUME AncastInv, [AncastNext]_allvars
               PROVE  AncastInv'
    OBVIOUS
  <2>1. CASE Others
    BY ONLY AncastInv, <2>1, OthersStep
  <2>2. CASE Open
    BY ONLY AncastInv, <2>2, OpenStep
  <2>3. CASE AncastStep
    BY ONLY AncastInv, <2>3, SeekEndStep, RewindStep, ReadBufferStep, NotAncastStep, JudgeStep,
            LoadStep, WrongHashStep, ShortStep, ReturnVectorStep DEF AncastStep
  <2>4. CASE Again
    BY ONLY AncastInv, <2>4, AgainStep
  <2>5. CASE UNCHANGED allvars
    BY ONLY AncastInv, <2>5, AncastStuttering
  <2> QED
    BY ONLY [AncastNext]_allvars, <2>1, <2>2, <2>3, <2>4, <2>5 DEF AncastNext
<1> QED
  BY <1>1, <1>2, PTL DEF AncastSpec

---------------------------------------------------------------------------
\* What holds in every state, for every volume, image and pattern of failing reads.

\* A handle stands in the cluster its offset falls in, also after a read of the image
\* or of another file that failed half way (isfs_seek, isfs_read).
THEOREM PlacesAreRight == AncastSpec => []PlaceIsRight
<1>1. AncastInv => PlaceIsRight
  BY PropertiesHold DEF AncastInv
<1> QED
  BY <1>1, AncastInvariant, PTL

\* A read delivers the file's own blocks from where its handle stood, decrypted with the
\* volume's own key, whichever volume was read before (isfs_read, isfs_read_volume).
THEOREM ReadsAreRight == AncastSpec => []ReadIsRight
<1>1. AncastInv => ReadIsRight
  BY PropertiesHold DEF AncastInv
<1> QED
  BY <1>1, AncastInvariant, PTL

\* Every stat and every open finds what the path names, and every listing is the
\* directory's children in order (isfs_find_fst, isfs_dirread, isfs_dirreset).
THEOREM TreesAreRight == AncastSpec => []TreeIsRight
<1>1. AncastInv => TreeIsRight
  BY PropertiesHold DEF AncastInv
<1> QED
  BY <1>1, AncastInvariant, PTL

\* ancast_ppc_load returns an address only for an image that is in memory as it is on the
\* flash and verified; it returns one for every sound image unless a read fails; and it
\* closes the file of whatever it has not rejected.
THEOREM ImagesAreRight == AncastSpec => []ImageIsRight
<1>1. AncastInv => ImageIsRight
  BY DEF AncastInv, LoadRight
<1> QED
  BY <1>1, AncastInvariant, PTL
=============================================================================
