------------------------- MODULE DirectoryScanProofs -------------------------
(***************************************************************************)
(* Proofs about DirectoryScan, for trees of any shape and depth and any    *)
(* number of changes: no path is reported twice, a file not marked         *)
(* unstable was read from one version, what nothing disturbs is reported   *)
(* for what it is, the results keep the order of the walk by name, and a   *)
(* walk that nothing disturbs reports exactly what the recursive one does. *)
(***************************************************************************)
EXTENDS DirectoryScan, SequenceTheorems, FiniteSetTheorems, WellFoundedInduction, TLAPS

------------------------------------------------------------------------------
(* Paths.                                                                    *)

\* A path is below another when that is the beginning of it, name by name.
LEMMA BelowByName ==
    ASSUME NEW p \in Seq(Nat), NEW d \in Seq(Nat)
    PROVE  Below(p, d) <=> Len(d) <= Len(p) /\ \A i \in 1..Len(d) : p[i] = d[i]
<1>1. Len(p) \in Nat /\ Len(d) \in Nat
  OBVIOUS
<1>2. CASE Len(d) <= Len(p)
  <2>1. \A i \in 1..Len(d) : p[i] \in Nat
    BY <1>1, <1>2
  <2>2. /\ SubSeq(p, 1, Len(d)) \in Seq(Nat)
        /\ Len(SubSeq(p, 1, Len(d))) = Len(d)
        /\ \A i \in 1..Len(d) : SubSeq(p, 1, Len(d))[i] = p[i]
    BY <1>1, <2>1, SubSeqProperties
  <2>3. SubSeq(p, 1, Len(d)) = d <=> \A i \in 1..Len(d) : p[i] = d[i]
    BY <2>2, SeqEqual
  <2> QED
    BY <1>2, <2>3 DEF Below
<1> QED
  BY <1>2 DEF Below

LEMMA NodesArePaths ==
    /\ Paths \subseteq Nodes /\ Root \in Nodes
    /\ \A p \in Nodes : p \in Seq(Nat) /\ Len(p) \in Nat
    /\ \A p \in Paths : Len(p) > 0
<1>1. Root \in Seq(Nat)
  BY EmptySeq DEF Root
<1>2. \A p \in Nodes : p \in Seq(Nat)
  BY <1>1, PathsAssumption DEF Nodes
<1>3. \A p \in Seq(Nat) : Len(p) \in Nat
  BY LenProperties
<1>4. ASSUME NEW p \in Paths PROVE Len(p) > 0
  <2>1. p \in Seq(Nat) /\ p # <<>>
    BY PathsAssumption DEF Root
  <2>2. Len(p) \in Nat \ {0}
    BY <2>1, EmptySeq
  <2> QED
    BY <2>2
<1> QED
  BY <1>2, <1>3, <1>4 DEF Nodes

\* Being below is an order, and what two directories have in common below them is
\* below one through the other.
LEMMA BelowOrder ==
    /\ \A p \in Nodes : Below(p, p) /\ Below(p, Root)
    /\ \A p, q, d \in Nodes : Below(p, q) /\ Below(q, d) => Below(p, d)
    /\ \A p, q \in Nodes : Below(p, q) /\ Below(q, p) => p = q
    /\ \A p, c, d \in Nodes : Below(p, c) /\ Below(p, d) => Below(c, d) \/ Below(d, c)
<1>1. \A p, q \in Nodes : Below(p, q) <=> Len(q) <= Len(p) /\ \A i \in 1..Len(q) : p[i] = q[i]
  BY NodesArePaths, BelowByName
<1>2. \A p \in Nodes : Below(p, p) /\ Below(p, Root)
  <2>1. Len(Root) = 0
    BY DEF Root
  <2> QED
    BY <1>1, <2>1, NodesArePaths
<1>3. ASSUME NEW p \in Nodes, NEW q \in Nodes, NEW d \in Nodes, Below(p, q), Below(q, d)
      PROVE  Below(p, d)
  <2>1. Len(d) <= Len(q) /\ Len(q) <= Len(p) /\ Len(d) \in Nat /\ Len(q) \in Nat /\ Len(p) \in Nat
    BY <1>1, <1>3, NodesArePaths
  <2>2. \A i \in 1..Len(d) : p[i] = d[i]
    BY <1>1, <1>3, <2>1
  <2> QED
    BY <1>1, <2>1, <2>2
<1>4. ASSUME NEW p \in Nodes, NEW q \in Nodes, Below(p, q), Below(q, p)
      PROVE  p = q
  <2>1. Len(p) = Len(q)
    BY <1>1, <1>4, NodesArePaths
  <2> QED
    BY <1>1, <1>4, <2>1, NodesArePaths, SeqEqual
<1>5. ASSUME NEW p \in Nodes, NEW c \in Nodes, NEW d \in Nodes, Below(p, c), Below(p, d)
      PROVE  Below(c, d) \/ Below(d, c)
  <2>1. Len(c) \in Nat /\ Len(d) \in Nat
    BY NodesArePaths
  <2>2. CASE Len(c) <= Len(d)
    BY <1>1, <1>5, <2>1, <2>2
  <2>3. CASE Len(d) <= Len(c)
    BY <1>1, <1>5, <2>1, <2>3
  <2> QED
    BY <2>1, <2>2, <2>3
<1> QED
  BY <1>2, <1>3, <1>4, <1>5

\* What is in a directory is below it, and below nothing else than itself and what
\* the directory is below.
LEMMA BelowFront ==
    ASSUME NEW p \in Paths
    PROVE  /\ Front(p) \in Nodes /\ Below(p, Front(p)) /\ p # Front(p)
           /\ Len(p) = Len(Front(p)) + 1
           /\ \A i \in 1..Len(p) - 1 : Front(p)[i] = p[i]
           /\ \A d \in Nodes : Below(p, d) => d = p \/ Below(Front(p), d)
<1>0. p \in Seq(Nat) /\ Len(p) \in Nat /\ Len(p) > 0 /\ p \in Nodes
  BY NodesArePaths
<1>1. /\ Front(p) \in Seq(Nat) /\ Len(Front(p)) = Len(p) - 1
      /\ \A i \in 1..Len(p) - 1 : Front(p)[i] = p[i]
  <2>1. \A i \in 1..Len(p) - 1 : p[i] \in Nat
    BY <1>0
  <2> DEFINE n == Len(p) - 1
  <2>2. n \in Int /\ n - 1 + 1 = n /\ n >= 0 /\ (~(1 <= n) => n = 0)
    <3>1. \A l \in Nat : l > 0 => /\ l - 1 \in Int /\ l - 1 - 1 + 1 = l - 1 /\ l - 1 >= 0
                                  /\ ~(1 <= l - 1) => l - 1 = 0
      OBVIOUS
    <3> QED
      BY <1>0, <3>1
  <2>3. \A i \in 1..n : p[i] \in Nat /\ p[1 + i - 1] = p[i]
    <3>1. \A i \in Nat : 1 + i - 1 = i
      BY Z3
    <3>2. \A i \in 1..n : i \in Nat
      BY <1>0
    <3> QED
      BY <2>1, <3>1, <3>2
  <2> HIDE DEF n
  <2>4. /\ SubSeq(p, 1, n) \in Seq(Nat)
        /\ Len(SubSeq(p, 1, n)) = IF 1 <= n THEN n - 1 + 1 ELSE 0
        /\ \A i \in 1..n - 1 + 1 : SubSeq(p, 1, n)[i] = p[1 + i - 1]
    BY <2>2, <2>3, SubSeqProperties
  <2>5. Len(SubSeq(p, 1, n)) = n
    BY <2>2, <2>4
  <2>6. \A i \in 1..n : SubSeq(p, 1, n)[i] = p[i]
    BY <2>2, <2>3, <2>4
  <2> QED
    BY <2>4, <2>5, <2>6 DEF Front, n
<1>2. Front(p) \in Nodes
  <2>1. Len(p) - 1 \in 0..Len(p)
    BY <1>0
  <2>2. \A n \in 0..Len(p) : SubSeq(p, 1, n) \in Nodes
    BY PathsAssumption
  <2>3. SubSeq(p, 1, Len(p) - 1) \in Nodes
    BY <2>1, <2>2
  <2> QED
    BY <2>3 DEF Front
<1>3. Below(p, Front(p)) /\ p # Front(p)
  <2>1. Len(Front(p)) <= Len(p) /\ \A i \in 1..Len(Front(p)) : p[i] = Front(p)[i]
    BY <1>0, <1>1
  <2>2. Len(Front(p)) # Len(p)
    BY <1>0, <1>1
  <2>3. Below(p, Front(p))
    BY <1>0, <1>1, <2>1, BelowByName
  <2> QED
    BY <2>2, <2>3
<1>4. ASSUME NEW d \in Nodes, Below(p, d), d # p PROVE Below(Front(p), d)
  <2>1. d \in Seq(Nat) /\ Len(d) \in Nat
    BY NodesArePaths
  <2>2. Len(d) <= Len(p) /\ \A i \in 1..Len(d) : p[i] = d[i]
    BY <1>0, <1>4, <2>1, BelowByName
  <2>3. Len(d) # Len(p)
    BY <1>0, <1>4, <2>1, <2>2, SeqEqual
  <2>4. Len(d) <= Len(p) - 1
    BY <1>0, <2>1, <2>2, <2>3
  <2>5. \A i \in 1..Len(d) : Front(p)[i] = d[i]
    BY <1>0, <1>1, <2>1, <2>2, <2>4
  <2> QED
    BY <1>1, <2>1, <2>4, <2>5, BelowByName
<1> QED
  BY <1>0, <1>1, <1>2, <1>3, <1>4

\* Two entries of a directory are not below each other, and differ in their names.
LEMMA Siblings ==
    ASSUME NEW p \in Paths, NEW q \in Paths, Front(p) = Front(q), p # q
    PROVE  ~Below(p, q) /\ Last(p) # Last(q)
<1>0. /\ p \in Seq(Nat) /\ q \in Seq(Nat) /\ Len(p) \in Nat /\ Len(q) \in Nat /\ Len(p) > 0
  BY NodesArePaths
<1>1. Len(p) = Len(q)
  BY BelowFront
<1>2. \A i \in 1..Len(p) - 1 : p[i] = q[i]
  BY <1>1, BelowFront
<1>3. Last(p) # Last(q)
  <2> SUFFICES ASSUME p[Len(p)] = q[Len(p)] PROVE FALSE
    BY <1>1 DEF Last
  <2>1. \A i \in 1..Len(p) : p[i] = q[i]
    BY <1>0, <1>2
  <2> QED
    BY <1>0, <1>1, <2>1, SeqEqual
<1>4. Below(p, q) => p[Len(q)] = q[Len(q)]
  BY <1>0, <1>1, BelowByName
<1> QED
  BY <1>1, <1>3, <1>4 DEF Last

\* The way from a directory down to a path below it begins with an entry of it.
LEMMA WayDown ==
    ASSUME NEW p \in Paths, NEW d \in Nodes, Below(p, d), p # d
    PROVE  \E c \in Paths : Front(c) = d /\ Below(p, c)
<1>0. /\ p \in Seq(Nat) /\ Len(p) \in Nat /\ d \in Seq(Nat) /\ Len(d) \in Nat
      /\ Len(d) <= Len(p) /\ \A i \in 1..Len(d) : p[i] = d[i]
  BY NodesArePaths, BelowByName
<1>1. Len(d) < Len(p)
  <2>1. Len(d) # Len(p)
    BY <1>0, SeqEqual
  <2> QED
    BY <1>0, <2>1
<1> DEFINE c == SubSeq(p, 1, Len(d) + 1)
<1>2. /\ c \in Seq(Nat) /\ Len(c) = Len(d) + 1
      /\ \A i \in 1..Len(d) + 1 : c[i] = p[i]
  <2>1. \A i \in 1..Len(d) + 1 : p[i] \in Nat
    BY <1>0, <1>1
  <2>2. Len(d) + 1 \in Int /\ 1 <= Len(d) + 1
    BY <1>0
  <2> QED
    BY <1>0, <2>1, <2>2, SubSeqProperties
<1>3. c \in Nodes
  <2>1. Len(d) + 1 \in 0..Len(p)
    BY <1>0, <1>1
  <2> QED
    BY <2>1, PathsAssumption
<1> HIDE DEF c
<1>4. c \in Paths
  <2>1. c # Root
    BY <1>0, <1>2 DEF Root
  <2> QED
    BY <1>3, <2>1 DEF Nodes
<1>5. Front(c) = d
  <2>0. /\ Front(c) \in Nodes /\ Len(c) = Len(Front(c)) + 1
        /\ \A i \in 1..Len(c) - 1 : Front(c)[i] = c[i]
    BY <1>4, BelowFront
  <2>1. /\ Len(Front(c)) = Len(d) /\ Len(c) - 1 = Len(d)
        /\ \A i \in 1..Len(d) : Front(c)[i] = c[i]
    <3>1. Len(Front(c)) \in Nat
      BY <2>0, NodesArePaths
    <3>2. Len(Front(c)) = Len(d) /\ Len(c) - 1 = Len(d)
      BY <1>0, <1>2, <2>0, <3>1
    <3> QED
      BY <2>0, <3>2
  <2>2. \A i \in 1..Len(d) : c[i] = d[i]
    <3>1. \A i \in 1..Len(d) : i \in 1..Len(d) + 1
      BY <1>0
    <3> QED
      BY <1>0, <1>2, <3>1
  <2>3. \A i \in 1..Len(d) : Front(c)[i] = d[i]
    BY <2>1, <2>2
  <2>4. Front(c) \in Seq(Nat)
    BY <2>0, NodesArePaths
  <2> QED
    BY <1>0, <2>1, <2>3, <2>4, SeqEqual
<1>6. Below(p, c)
  <2>1. Len(c) <= Len(p)
    BY <1>0, <1>1, <1>2
  <2>2. \A i \in 1..Len(c) : p[i] = c[i]
    BY <1>2
  <2> QED
    BY <1>0, <1>2, <2>1, <2>2, BelowByName
<1> QED
  BY <1>4, <1>5, <1>6

------------------------------------------------------------------------------
(* The listing of a directory.                                               *)

\* Every set of naturals that is not empty has a least element.
LEMMA Least ==
    ASSUME NEW S \in SUBSET Nat, S # {}
    PROVE  \E k \in S : \A l \in S : k <= l
<1>1. \E k \in S : \A l \in S : <<l, k>> \notin OpToRel(<, Nat)
  BY NatLessThanWellFounded, WFMin
<1>2. PICK k \in S : \A l \in S : <<l, k>> \notin OpToRel(<, Nat)
  BY <1>1
<1>3. \A l \in S : ~(l < k)
  BY <1>2 DEF OpToRel
<1>4. \A l \in S : k <= l
  BY <1>3
<1> QED
  BY <1>4

\* A set of naturals with zero, and with the next of each, has them all.
LEMMA AllNaturals ==
    ASSUME NEW S, 0 \in S, \A n \in Nat : n \in S => n + 1 \in S
    PROVE  Nat \subseteq S
<1> DEFINE Bad == Nat \ S
<1> SUFFICES ASSUME Bad # {} PROVE FALSE
  OBVIOUS
<1>1. PICK n \in Bad : \A l \in Bad : n <= l
  <2>1. Bad \in SUBSET Nat
    OBVIOUS
  <2> HIDE DEF Bad
  <2> QED
    BY <2>1, Least
<1>2. n \in Nat /\ n # 0
  OBVIOUS
<1>3. n - 1 \in Nat /\ n - 1 + 1 = n /\ ~(n <= n - 1)
  BY <1>2
<1>4. n - 1 \in S
  BY <1>1, <1>3
<1> QED
  BY <1>1, <1>3, <1>4

\* s has the members of S, in the order of their names.
Sorted(s, S) ==
    /\ s \in [1..Cardinality(S) -> S]
    /\ \A p \in S : \E i \in DOMAIN s : s[i] = p
    /\ \A i, k \in DOMAIN s : i < k => Last(s[i]) < Last(s[k])

Distinct(S) == \A p, q \in S : p # q => Last(p) # Last(q)

\* The order of names can be made longer at its beginning.
LEMMA SortedLonger ==
    ASSUME NEW S \in SUBSET Paths, IsFiniteSet(S), NEW p \in S,
           \A q \in S \ {p} : Last(p) < Last(q), NEW t, Sorted(t, S \ {p})
    PROVE  \E s : Sorted(s, S)
<1> DEFINE n == Cardinality(S)
           s == [i \in 1..n |-> IF i = 1 THEN p ELSE t[i - 1]]
<1>1. n \in Nat /\ Cardinality(S \ {p}) = n - 1
  BY FS_CardinalityType, FS_RemoveElement
<1>2. n # 0
  BY FS_EmptySet
<1> HIDE DEF n
<1>3. /\ t \in [1..n - 1 -> S \ {p}]
      /\ \A q \in S \ {p} : \E i \in 1..n - 1 : t[i] = q
      /\ \A i, k \in 1..n - 1 : i < k => Last(t[i]) < Last(t[k])
  BY <1>1 DEF Sorted
<1>4. \A i \in 1..n : i # 1 => i - 1 \in 1..n - 1
  BY <1>1
<1>5. s \in [1..n -> S]
  <2>1. \A i \in 1..n : (IF i = 1 THEN p ELSE t[i - 1]) \in S
    BY <1>3, <1>4
  <2> QED
    BY <2>1
<1>6. \A q \in S : \E i \in 1..n : s[i] = q
  <2> TAKE q \in S
  <2>1. 1 \in 1..n
    BY <1>1, <1>2
  <2>2. CASE q = p
    BY <2>1, <2>2
  <2>3. CASE q # p
    <3>1. PICK i \in 1..n - 1 : t[i] = q
      BY <1>3, <2>3
    <3>2. i + 1 \in 1..n /\ i + 1 # 1 /\ i + 1 - 1 = i
      BY <1>1
    <3> QED
      BY <3>1, <3>2
  <2> QED
    BY <2>2, <2>3
<1>7. ASSUME NEW i \in 1..n, NEW k \in 1..n, i < k PROVE Last(s[i]) < Last(s[k])
  <2>1. k # 1 /\ s[k] = t[k - 1] /\ k - 1 \in 1..n - 1
    BY <1>1, <1>4, <1>7
  <2>2. CASE i = 1
    BY <1>3, <2>1, <2>2
  <2>3. CASE i # 1
    <3>1. s[i] = t[i - 1] /\ i - 1 \in 1..n - 1 /\ i - 1 < k - 1
      BY <1>1, <1>4, <1>7, <2>3
    <3> QED
      BY <1>3, <2>1, <3>1
  <2> QED
    BY <2>2, <2>3
<1>8. DOMAIN s = 1..n
  BY <1>5
<1> HIDE DEF s
<1>9. Sorted(s, S)
  BY <1>5, <1>6, <1>7, <1>8 DEF Sorted, n
<1> QED
  BY <1>9

\* Any paths with different names can be put in the order of their names: of the
\* numbers of paths for which they cannot there would be a least one.
LEMMA SortedExists ==
    ASSUME NEW S \in SUBSET Paths, Distinct(S)
    PROVE  \E s : Sorted(s, S)
<1> DEFINE Bad == {n \in Nat : \E T \in SUBSET Paths : /\ Distinct(T) /\ Cardinality(T) = n
                                                      /\ \A s : ~Sorted(s, T)}
<1>1. \A T \in SUBSET Paths : IsFiniteSet(T) /\ Cardinality(T) \in Nat
  BY PathsAssumption, FS_Subset, FS_CardinalityType
<1>2. Bad = {}
  <2> SUFFICES ASSUME Bad # {} PROVE FALSE
    OBVIOUS
  <2>1. PICK n \in Bad : \A l \in Bad : n <= l
    <3>1. Bad \in SUBSET Nat
      OBVIOUS
    <3> HIDE DEF Bad
    <3> QED
      BY <3>1, Least
  <2>2. PICK T \in SUBSET Paths : Distinct(T) /\ Cardinality(T) = n /\ \A s : ~Sorted(s, T)
    OBVIOUS
  <2>3. CASE T = {}
    <3>1. Cardinality(T) = 0 /\ 1..0 = {}
      BY <2>3, FS_EmptySet
    <3>2. Sorted([i \in 1..0 |-> i], T)
      BY <2>3, <3>1 DEF Sorted
    <3> QED
      BY <2>2, <3>2
  <2>4. CASE T # {}
    <3> DEFINE names == {Last(p) : p \in T}
    <3>1. \A p \in T : Last(p) \in Nat
      <4>1. \A p \in T : p \in Seq(Nat) /\ Len(p) \in Nat /\ Len(p) > 0
        BY NodesArePaths
      <4>2. \A p \in T : Len(p) \in 1..Len(p)
        BY <4>1
      <4> QED
        BY <4>1, <4>2, ElementOfSeq DEF Last
    <3>2. PICK m \in names : \A l \in names : m <= l
      <4>1. names \in SUBSET Nat /\ names # {}
        BY <2>4, <3>1
      <4> HIDE DEF names
      <4> QED
        BY <4>1, Least
    <3>3. PICK p \in T : Last(p) = m
      BY <3>2
    <3>4. \A q \in T \ {p} : Last(p) < Last(q)
      <4> TAKE q \in T \ {p}
      <4>1. Last(p) <= Last(q) /\ Last(p) # Last(q)
        BY <2>2, <3>2, <3>3 DEF Distinct
      <4> QED
        BY <3>1, <4>1
    <3>5. /\ T \ {p} \in SUBSET Paths /\ Distinct(T \ {p})
          /\ Cardinality(T \ {p}) = n - 1 /\ n - 1 \in Nat
      <4>1. Cardinality(T \ {p}) = n - 1
        BY <1>1, <2>2, <3>3, FS_RemoveElement
      <4> QED
        BY <1>1, <2>2, <4>1 DEF Distinct
    <3>6. n - 1 \notin Bad
      <4>1. n \in Nat /\ ~(n <= n - 1)
        OBVIOUS
      <4> HIDE DEF Bad
      <4> QED
        BY <2>1, <4>1
    <3>7. \E t : Sorted(t, T \ {p})
      BY <3>5, <3>6
    <3> QED
      BY <1>1, <2>2, <3>4, <3>7, SortedLonger
  <2> QED
    BY <2>3, <2>4
<1> QED
  BY <1>1, <1>2

\* The entries of a directory have one order.
LEMMA ByNameSorts ==
    ASSUME NEW S \in SUBSET Paths, \A p, q \in S : Front(p) = Front(q)
    PROVE  Sorted(ByName(S), S)
<1>1. Distinct(S)
  BY Siblings DEF Distinct
<1>2. \E s \in [1..Cardinality(S) -> S] :
         /\ \A p \in S : \E i \in DOMAIN s : s[i] = p
         /\ \A i, k \in DOMAIN s : i < k => Last(s[i]) < Last(s[k])
  BY <1>1, SortedExists DEF Sorted
<1> QED
  BY <1>2 DEF ByName, Sorted

------------------------------------------------------------------------------
(* Sequences of paths that are not below each other.                         *)

Apart(p, q) == ~Below(p, q) /\ ~Below(q, p)
AllApart(s) == \A i, k \in DOMAIN s : i # k => Apart(s[i], s[k])

Names(s) == [i \in 1..Len(s) |-> s[i].path]

\* What is left after the first.
LEMMA TailApart ==
    ASSUME NEW S, NEW s \in Seq(S), s # <<>>
    PROVE  /\ Head(s) \in S /\ Tail(s) \in Seq(S)
           /\ ToSet(s) = {Head(s)} \cup ToSet(Tail(s))
           /\ AllApart(s) => AllApart(Tail(s)) /\ \A q \in ToSet(Tail(s)) : Apart(Head(s), q)
<1>1. /\ Len(s) \in Nat /\ Len(s) > 0 /\ DOMAIN s = 1..Len(s) /\ Head(s) = s[1]
  BY EmptySeq, LenProperties
<1>2. /\ Head(s) \in S /\ Tail(s) \in Seq(S) /\ Len(Tail(s)) = Len(s) - 1
      /\ \A i \in 1..Len(Tail(s)) : Tail(s)[i] = s[i + 1]
  BY HeadTailProperties
<1>3. DOMAIN Tail(s) = 1..Len(s) - 1
  BY <1>2, LenProperties
<1>4. \A i \in 1..Len(s) - 1 : i + 1 \in 1..Len(s) /\ i + 1 # 1 /\ Tail(s)[i] = s[i + 1]
  BY <1>1, <1>2
<1>5. \A i \in 1..Len(s) : i # 1 => i - 1 \in 1..Len(s) - 1 /\ Tail(s)[i - 1] = s[i]
  <2> TAKE i \in 1..Len(s)
  <2>1. i # 1 => i - 1 \in 1..Len(s) - 1 /\ i - 1 + 1 = i
    BY <1>1
  <2> QED
    BY <1>4, <2>1
<1>6. ToSet(s) = {Head(s)} \cup ToSet(Tail(s))
  <2>1. 1 \in 1..Len(s)
    BY <1>1
  <2>2. \A x \in ToSet(s) : x \in {Head(s)} \cup ToSet(Tail(s))
    BY <1>1, <1>3, <1>5 DEF ToSet
  <2>3. \A x \in ToSet(Tail(s)) : x \in ToSet(s)
    BY <1>1, <1>3, <1>4 DEF ToSet
  <2>4. Head(s) \in ToSet(s)
    BY <1>1, <2>1 DEF ToSet
  <2> QED
    BY <2>2, <2>3, <2>4
<1>7. ASSUME AllApart(s)
      PROVE  AllApart(Tail(s)) /\ \A q \in ToSet(Tail(s)) : Apart(Head(s), q)
  <2>1. 1 \in 1..Len(s)
    BY <1>1
  <2>2. \A q \in ToSet(Tail(s)) : Apart(Head(s), q)
    BY <1>1, <1>3, <1>4, <1>7, <2>1 DEF AllApart, ToSet
  <2>3. \A i, k \in 1..Len(s) - 1 : i # k => i + 1 # k + 1
    OBVIOUS
  <2>4. AllApart(Tail(s))
    BY <1>1, <1>3, <1>4, <1>7, <2>3 DEF AllApart
  <2> QED
    BY <2>2, <2>4
<1> QED
  BY <1>2, <1>6, <1>7

\* What is left before the last.
LEMMA FrontParts ==
    ASSUME NEW S, NEW s \in Seq(S), s # <<>>
    PROVE  \E n \in Nat :
              /\ DOMAIN s = 1..n + 1 /\ Last(s) = s[n + 1] /\ Last(s) \in S
              /\ Front(s) \in Seq(S) /\ DOMAIN Front(s) = 1..n
              /\ \A i \in 1..n : Front(s)[i] = s[i]
<1> DEFINE n == Len(s) - 1
<1>1. Len(s) \in Nat /\ Len(s) > 0 /\ DOMAIN s = 1..Len(s)
  BY EmptySeq, LenProperties
<1>2. n \in Nat /\ Len(s) = n + 1 /\ n + 1 \in 1..n + 1
  BY <1>1
<1> HIDE DEF n
<1>3. \A i \in 1..n : i \in 1..n + 1 /\ i # n + 1
  BY <1>2
<1>4. \A i \in 1..n + 1 : i # n + 1 => i \in 1..n
  BY <1>2
<1>5. /\ Front(s) \in Seq(S) /\ DOMAIN Front(s) = 1..n
      /\ \A i \in 1..n : Front(s)[i] = s[i]
  <2>0. Front(s) = SubSeq(s, 1, n)
    BY DEF Front, n
  <2>1. \A i \in 1..n : s[i] \in S /\ 1 + i - 1 = i
    BY <1>1, <1>2, <1>3, ElementOfSeq
  <2>2. n \in Int /\ n - 1 + 1 = n /\ (IF 1 <= n THEN n ELSE 0) = n
    BY <1>2
  <2>3. /\ SubSeq(s, 1, n) \in Seq(S)
        /\ Len(SubSeq(s, 1, n)) = IF 1 <= n THEN n - 1 + 1 ELSE 0
        /\ \A i \in 1..n - 1 + 1 : SubSeq(s, 1, n)[i] = s[1 + i - 1]
    BY <2>1, <2>2, SubSeqProperties
  <2>4. Len(SubSeq(s, 1, n)) = n
    BY <2>2, <2>3
  <2> QED
    BY <2>0, <2>1, <2>2, <2>3, <2>4, LenProperties
<1>6. Last(s) = s[n + 1] /\ Last(s) \in S
  BY <1>2, ElementOfSeq DEF Last
<1> QED
  BY <1>1, <1>2, <1>5, <1>6

LEMMA FrontApart ==
    ASSUME NEW S, NEW s \in Seq(S), s # <<>>
    PROVE  /\ Last(s) \in S /\ Front(s) \in Seq(S)
           /\ ToSet(s) = {Last(s)} \cup ToSet(Front(s))
           /\ AllApart(s) => AllApart(Front(s)) /\ \A q \in ToSet(Front(s)) : Apart(Last(s), q)
<1>1. PICK n \in Nat :
         /\ DOMAIN s = 1..n + 1 /\ Last(s) = s[n + 1] /\ Last(s) \in S
         /\ Front(s) \in Seq(S) /\ DOMAIN Front(s) = 1..n
         /\ \A i \in 1..n : Front(s)[i] = s[i]
  BY FrontParts
<1>2. /\ n + 1 \in 1..n + 1 /\ \A i \in 1..n : i \in 1..n + 1 /\ i # n + 1
      /\ \A i \in 1..n + 1 : i # n + 1 => i \in 1..n
  OBVIOUS
<1>3. ToSet(s) = {Last(s)} \cup ToSet(Front(s))
  BY <1>1, <1>2 DEF ToSet
<1>4. ASSUME AllApart(s)
      PROVE  AllApart(Front(s)) /\ \A q \in ToSet(Front(s)) : Apart(Last(s), q)
  BY <1>1, <1>2, <1>4 DEF AllApart, ToSet
<1> QED
  BY <1>1, <1>3, <1>4

\* One more at the end.
LEMMA AppendApart ==
    ASSUME NEW S, NEW s \in Seq(S), NEW x \in S
    PROVE  /\ Append(s, x) \in Seq(S)
           /\ ToSet(Append(s, x)) = ToSet(s) \cup {x}
           /\ AllApart(s) /\ (\A q \in ToSet(s) : Apart(q, x)) => AllApart(Append(s, x))
<1>1. Len(s) \in Nat /\ DOMAIN s = 1..Len(s)
  BY LenProperties
<1>2. /\ Append(s, x) \in Seq(S) /\ DOMAIN Append(s, x) = 1..Len(s) + 1
      /\ \A i \in 1..Len(s) : Append(s, x)[i] = s[i]
      /\ Append(s, x)[Len(s) + 1] = x
  BY <1>1
<1>3. /\ Len(s) + 1 \in 1..Len(s) + 1
      /\ \A i \in 1..Len(s) : i \in 1..Len(s) + 1
      /\ \A i \in 1..Len(s) + 1 : i \in 1..Len(s) \/ i = Len(s) + 1
  BY <1>1
<1>4. ToSet(Append(s, x)) = ToSet(s) \cup {x}
  BY <1>1, <1>2, <1>3 DEF ToSet
<1>5. ASSUME AllApart(s), \A q \in ToSet(s) : Apart(q, x) PROVE AllApart(Append(s, x))
  <2>1. \A i \in 1..Len(s) : Apart(s[i], x) /\ Apart(x, s[i])
    BY <1>1, <1>5 DEF ToSet, Apart
  <2> QED
    BY <1>1, <1>2, <1>3, <1>5, <2>1 DEF AllApart
<1> QED
  BY <1>2, <1>4, <1>5

\* u is one sequence, of length m, after which another, of length n, is turned round.
TurnedRound(s, t, u, m, n) ==
    /\ DOMAIN s = 1..m /\ DOMAIN t = 1..n /\ DOMAIN u = 1..m + n
    /\ \A i \in 1..m : i \in 1..m + n /\ u[i] = s[i]
    /\ \A i \in 1..n : m + n - i + 1 \in 1..m + n /\ u[m + n - i + 1] = t[i]
    /\ \A i \in 1..m + n : i \in 1..m \/ \E k \in 1..n : i = m + n - k + 1

LEMMA ReverseParts ==
    ASSUME NEW S, NEW s \in Seq(S), NEW t \in Seq(S)
    PROVE  /\ s \o Reverse(t) \in Seq(S)
           /\ \E m, n \in Nat : TurnedRound(s, t, s \o Reverse(t), m, n)
<1> DEFINE r == Reverse(t)
           m == Len(s)
           n == Len(t)
<1>1. m \in Nat /\ n \in Nat /\ DOMAIN s = 1..m /\ DOMAIN t = 1..n
  BY LenProperties
<1>2. \A i \in 1..n : n - i + 1 \in 1..n /\ n - (n - i + 1) + 1 = i
  BY <1>1
<1>3. r \in Seq(S) /\ Len(r) = n /\ \A i \in 1..n : r[i] = t[n - i + 1]
  <2>1. r = [i \in 1..n |-> t[n - i + 1]]
    BY DEF Reverse
  <2>2. r \in [1..n -> S]
    BY <1>2, <2>1, ElementOfSeq
  <2> QED
    BY <1>1, <2>1, <2>2
<1> HIDE DEF r, m, n
<1> DEFINE u == s \o r
<1>4. /\ u \in Seq(S) /\ DOMAIN u = 1..m + n
      /\ \A i \in 1..m + n : u[i] = IF i <= m THEN s[i] ELSE r[i - m]
  <2>1. /\ u \in Seq(S) /\ Len(u) = Len(s) + Len(r)
        /\ \A i \in 1..Len(s) + Len(r) : u[i] = IF i <= Len(s) THEN s[i] ELSE r[i - Len(s)]
    BY <1>3, ConcatProperties
  <2>2. DOMAIN u = 1..Len(u)
    BY <2>1, LenProperties
  <2> HIDE DEF u
  <2> QED
    BY <1>3, <2>1, <2>2 DEF m
<1> HIDE DEF u
<1>5. \A i \in 1..m : i \in 1..m + n /\ u[i] = s[i]
  BY <1>1, <1>4
<1>6. \A i \in 1..n : m + n - i + 1 \in 1..m + n /\ ~(m + n - i + 1 <= m) /\ u[m + n - i + 1] = t[i]
  <2> TAKE i \in 1..n
  <2> DEFINE k == m + n - i + 1
             j == n - i + 1
  <2>1. k \in 1..m + n /\ ~(k <= m) /\ k - m = j /\ j \in 1..n /\ n - j + 1 = i
    BY <1>1
  <2> HIDE DEF k, j
  <2>2. u[k] = r[j]
    BY <1>4, <2>1
  <2>3. r[j] = t[i]
    BY <1>3, <2>1
  <2> QED
    BY <2>1, <2>2, <2>3 DEF k
<1>7. \A i \in 1..m + n : i \in 1..m \/ \E k \in 1..n : i = m + n - k + 1
  <2> SUFFICES ASSUME NEW i \in 1..m + n, i \notin 1..m
               PROVE  \E k \in 1..n : i = m + n - k + 1
    OBVIOUS
  <2>1. m + n - i + 1 \in 1..n /\ i = m + n - (m + n - i + 1) + 1
    BY <1>1
  <2> QED
    BY <2>1
<1>8. s \o Reverse(t) = u
  BY DEF u, r
<1>9. TurnedRound(s, t, u, m, n)
  BY <1>1, <1>4, <1>5, <1>6, <1>7 DEF TurnedRound
<1> QED
  BY <1>1, <1>4, <1>8, <1>9

LEMMA ReverseApart ==
    ASSUME NEW S, NEW s \in Seq(S), NEW t \in Seq(S)
    PROVE  /\ s \o Reverse(t) \in Seq(S)
           /\ ToSet(s \o Reverse(t)) = ToSet(s) \cup ToSet(t)
           /\ AllApart(s) /\ AllApart(t) /\ (\A p \in ToSet(s), q \in ToSet(t) : Apart(p, q))
                => AllApart(s \o Reverse(t))
<1> DEFINE u == s \o Reverse(t)
<1>1. u \in Seq(S) /\ \E m, n \in Nat : TurnedRound(s, t, u, m, n)
  BY ReverseParts
<1> HIDE DEF u
<1>2. PICK m, n \in Nat : TurnedRound(s, t, u, m, n)
  BY <1>1
<1>3. /\ DOMAIN s = 1..m /\ DOMAIN t = 1..n /\ DOMAIN u = 1..m + n
      /\ \A i \in 1..m : i \in 1..m + n /\ u[i] = s[i]
      /\ \A i \in 1..n : m + n - i + 1 \in 1..m + n /\ u[m + n - i + 1] = t[i]
      /\ \A i \in 1..m + n : i \in 1..m \/ \E k \in 1..n : i = m + n - k + 1
  BY <1>2 DEF TurnedRound
<1>4. ToSet(u) = ToSet(s) \cup ToSet(t)
  <2>1. ASSUME NEW x \in ToSet(u) PROVE x \in ToSet(s) \cup ToSet(t)
    <3>1. PICK i \in 1..m + n : x = u[i]
      BY <1>3, <2>1 DEF ToSet
    <3>2. CASE i \in 1..m
      BY <1>3, <3>1, <3>2 DEF ToSet
    <3>3. ASSUME NEW k \in 1..n, i = m + n - k + 1 PROVE x \in ToSet(t)
      <4>1. x = t[k] /\ k \in DOMAIN t
        BY <1>3, <3>1, <3>3
      <4> QED
        BY <4>1 DEF ToSet
    <3> QED
      BY <1>3, <3>2, <3>3
  <2>2. ASSUME NEW x \in ToSet(s) PROVE x \in ToSet(u)
    BY <1>3, <2>2 DEF ToSet
  <2>3. ASSUME NEW x \in ToSet(t) PROVE x \in ToSet(u)
    BY <1>3, <2>3 DEF ToSet
  <2> QED
    BY <2>1, <2>2, <2>3
<1>5. ASSUME AllApart(s), AllApart(t), \A p \in ToSet(s), q \in ToSet(t) : Apart(p, q)
      PROVE  AllApart(u)
  <2> SUFFICES ASSUME NEW i \in 1..m + n, NEW k \in 1..m + n, i # k
               PROVE  Apart(u[i], u[k])
    BY <1>3 DEF AllApart
  <2>0. \A a \in 1..m, b \in 1..n : Apart(s[a], t[b]) /\ Apart(t[b], s[a])
    BY <1>3, <1>5 DEF ToSet, Apart
  <2>1. CASE i \in 1..m /\ k \in 1..m
    BY <1>3, <1>5, <2>1 DEF AllApart
  <2>2. ASSUME i \in 1..m, NEW b \in 1..n, k = m + n - b + 1 PROVE Apart(u[i], u[k])
    BY <1>3, <2>0, <2>2
  <2>3. ASSUME NEW a \in 1..n, i = m + n - a + 1, k \in 1..m PROVE Apart(u[i], u[k])
    BY <1>3, <2>0, <2>3
  <2>4. ASSUME NEW a \in 1..n, i = m + n - a + 1, NEW b \in 1..n, k = m + n - b + 1
        PROVE  Apart(u[i], u[k])
    <3>1. a # b /\ u[i] = t[a] /\ u[k] = t[b]
      BY <1>3, <2>4
    <3> QED
      BY <1>3, <1>5, <3>1 DEF AllApart
  <2> QED
    BY <1>3, <2>1, <2>2, <2>3, <2>4
<1> QED
  BY <1>1, <1>4, <1>5 DEF u

\* Sequences whose members are in a relation R, each with all that come after it.
Rising(s, R) == \A i, k \in DOMAIN s : i < k => <<s[i], s[k]>> \in R

LEMMA TailRising ==
    ASSUME NEW S, NEW s \in Seq(S), s # <<>>, NEW R, Rising(s, R)
    PROVE  Rising(Tail(s), R) /\ \A q \in ToSet(Tail(s)) : <<Head(s), q>> \in R
<1>1. Len(s) \in Nat /\ Len(s) > 0 /\ DOMAIN s = 1..Len(s) /\ Head(s) = s[1]
  BY EmptySeq, LenProperties
<1>2. /\ Tail(s) \in Seq(S) /\ Len(Tail(s)) = Len(s) - 1
      /\ \A i \in 1..Len(Tail(s)) : Tail(s)[i] = s[i + 1]
  BY HeadTailProperties
<1>3. DOMAIN Tail(s) = 1..Len(s) - 1
  BY <1>2, LenProperties
<1>4. /\ \A i \in 1..Len(s) - 1 : i + 1 \in 1..Len(s) /\ 1 < i + 1 /\ Tail(s)[i] = s[i + 1]
      /\ 1 \in 1..Len(s)
  BY <1>1, <1>2
<1>5. \A q \in ToSet(Tail(s)) : <<Head(s), q>> \in R
  BY <1>1, <1>3, <1>4 DEF Rising, ToSet
<1>6. \A i, k \in 1..Len(s) - 1 : i < k => i + 1 < k + 1
  OBVIOUS
<1> QED
  BY <1>1, <1>3, <1>4, <1>5, <1>6 DEF Rising

LEMMA FrontRising ==
    ASSUME NEW S, NEW s \in Seq(S), s # <<>>, NEW R, Rising(s, R)
    PROVE  Rising(Front(s), R) /\ \A q \in ToSet(Front(s)) : <<q, Last(s)>> \in R
<1>1. PICK n \in Nat :
         /\ DOMAIN s = 1..n + 1 /\ Last(s) = s[n + 1] /\ Last(s) \in S
         /\ Front(s) \in Seq(S) /\ DOMAIN Front(s) = 1..n
         /\ \A i \in 1..n : Front(s)[i] = s[i]
  BY FrontParts
<1>2. n + 1 \in 1..n + 1 /\ \A i \in 1..n : i \in 1..n + 1 /\ i < n + 1
  OBVIOUS
<1> QED
  BY <1>1, <1>2 DEF Rising, ToSet

LEMMA AppendRising ==
    ASSUME NEW S, NEW s \in Seq(S), NEW x \in S, NEW R, Rising(s, R),
           \A q \in ToSet(s) : <<q, x>> \in R
    PROVE  Rising(Append(s, x), R)
<1>1. Len(s) \in Nat /\ DOMAIN s = 1..Len(s)
  BY LenProperties
<1>2. /\ DOMAIN Append(s, x) = 1..Len(s) + 1
      /\ \A i \in 1..Len(s) : Append(s, x)[i] = s[i]
      /\ Append(s, x)[Len(s) + 1] = x
  BY <1>1
<1>3. \A i, k \in 1..Len(s) + 1 :
         i < k => i \in 1..Len(s) /\ (k \in 1..Len(s) \/ k = Len(s) + 1)
  BY <1>1
<1>4. \A i \in 1..Len(s) : <<s[i], x>> \in R
  BY <1>1 DEF ToSet
<1> QED
  BY <1>1, <1>2, <1>3, <1>4 DEF Rising

LEMMA ReverseRising ==
    ASSUME NEW S, NEW s \in Seq(S), NEW t \in Seq(S), NEW R, Rising(s, R),
           \A i, k \in DOMAIN t : i < k => <<t[k], t[i]>> \in R,
           \A p \in ToSet(s), q \in ToSet(t) : <<p, q>> \in R
    PROVE  Rising(s \o Reverse(t), R)
<1> DEFINE u == s \o Reverse(t)
<1>1. \E m, n \in Nat : TurnedRound(s, t, u, m, n)
  BY ReverseParts
<1> HIDE DEF u
<1>2. PICK m, n \in Nat : TurnedRound(s, t, u, m, n)
  BY <1>1
<1>3. /\ DOMAIN s = 1..m /\ DOMAIN t = 1..n /\ DOMAIN u = 1..m + n
      /\ \A i \in 1..m : i \in 1..m + n /\ u[i] = s[i]
      /\ \A i \in 1..n : m + n - i + 1 \in 1..m + n /\ u[m + n - i + 1] = t[i]
      /\ \A i \in 1..m + n : i \in 1..m \/ \E k \in 1..n : i = m + n - k + 1
  BY <1>2 DEF TurnedRound
<1>4. ASSUME NEW i \in 1..m + n, NEW k \in 1..m + n, i < k PROVE <<u[i], u[k]>> \in R
  <2>0. \A a \in 1..m, b \in 1..n : <<s[a], t[b]>> \in R
    BY <1>3 DEF ToSet
  <2>1. CASE k \in 1..m
    <3>1. i \in 1..m
      BY <1>4, <2>1
    <3> QED
      BY <1>3, <1>4, <2>1, <3>1 DEF Rising
  <2>2. ASSUME i \in 1..m, NEW b \in 1..n, k = m + n - b + 1 PROVE <<u[i], u[k]>> \in R
    BY <1>3, <2>0, <2>2
  <2>3. ASSUME NEW a \in 1..n, i = m + n - a + 1, NEW b \in 1..n, k = m + n - b + 1
        PROVE  <<u[i], u[k]>> \in R
    <3>1. b < a /\ u[i] = t[a] /\ u[k] = t[b]
      BY <1>3, <1>4, <2>3
    <3> QED
      BY <1>3, <3>1
  <2> QED
    BY <1>3, <2>1, <2>2, <2>3
<1>5. Rising(u, R)
  BY <1>3, <1>4 DEF Rising
<1> QED
  BY <1>5 DEF u

------------------------------------------------------------------------------
(* Types.                                                                    *)

AllWarnings == Warnings \cup {"directory_unreadable", "path_unreadable", "file_unreadable",
                              "file_too_large", "limit_exceeded", "encoding_fallback_cp1252",
                              "unstable_file", "scan_failed"}
EntryType  == [path : Paths, kind : AllKinds]
ResultType == [path : Nodes, warnings : SUBSET AllWarnings, scanned : BOOLEAN, versions : SUBSET Nat]
InFile     == {"stat", "open", "read", "compare"}

TypeInv ==
    /\ kind \in [Nodes -> AllKinds] /\ version \in [Nodes -> Nat]
    /\ directories \in Seq(Nodes) /\ entries \in Seq(EntryType) /\ children \in Seq(Paths)
    /\ pc \in {"walk", "entry", "done", "aborted"} \cup InFile
    /\ pc \in {"walk", "done"} => entries = <<>> /\ children = <<>>
    /\ pc \in InFile => entries # <<>>
    /\ before \in Nat /\ encoding \in {"utf-8-sig", "cp1252"}
    /\ handle \in [kind : AllKinds, version : Nat, live : BOOLEAN]
    /\ chunk \in 0..Chunks /\ versions \in SUBSET Nat
    /\ results \in Seq(ResultType)
    /\ changes \in Nat /\ touched \in SUBSET Nodes

\* What os.scandir hands over: every entry that is there, as it is, once.
LEMMA ListingFits ==
    ASSUME kind \in [Nodes -> AllKinds], NEW d \in Nodes
    PROVE  /\ Listing(d) \in Seq(EntryType)
           /\ \A e \in ToSet(Listing(d)) :
                 Front(e.path) = d /\ e.kind = kind[e.path] /\ e.kind # "absent"
           /\ \A p \in Paths : Front(p) = d /\ kind[p] # "absent" =>
                 \E e \in ToSet(Listing(d)) : e.path = p
           /\ \A i, k \in DOMAIN Listing(d) :
                 /\ i # k => Apart(Listing(d)[i].path, Listing(d)[k].path)
                 /\ i < k => Last(Listing(d)[i].path) < Last(Listing(d)[k].path)
<1> DEFINE S == {p \in Paths : Front(p) = d /\ kind[p] # "absent"}
           names == ByName(S)
           l == [i \in 1..Len(names) |-> Entry(names[i])]
<1>0. Listing(d) = l
  BY DEF Listing
<1>1. Cardinality(S) \in Nat /\ Sorted(names, S)
  <2>1. S \in SUBSET Paths /\ \A p, q \in S : Front(p) = Front(q)
    OBVIOUS
  <2>2. IsFiniteSet(S)
    BY <2>1, PathsAssumption, FS_Subset
  <2> HIDE DEF S
  <2> QED
    BY <2>1, <2>2, ByNameSorts, FS_CardinalityType
<1> DEFINE n == Cardinality(S)
<1>2. /\ n \in Nat /\ names \in [1..n -> S] /\ Len(names) = n
      /\ \A p \in S : \E i \in 1..n : names[i] = p
      /\ \A i, k \in 1..n : i < k => Last(names[i]) < Last(names[k])
  <2> HIDE DEF S
  <2>1. names \in [1..n -> S] /\ n \in Nat
    BY <1>1 DEF Sorted
  <2> HIDE DEF names, n
  <2>2. DOMAIN names = 1..n /\ Len(names) = n
    BY <2>1
  <2> QED
    BY <1>1, <2>1, <2>2 DEF Sorted, n
<1> HIDE DEF names, n
<1>3. /\ DOMAIN l = 1..n
      /\ \A i \in 1..n : /\ l[i] = Entry(names[i]) /\ names[i] \in S
                         /\ l[i].path = names[i] /\ l[i].kind = kind[names[i]]
                         /\ l[i] \in EntryType
  BY <1>2, NodesArePaths DEF Entry, EntryType
<1>4. l \in Seq(EntryType)
  <2>1. l \in [1..n -> EntryType]
    BY <1>2, <1>3
  <2> HIDE DEF l
  <2> QED
    BY <1>2, <2>1
<1> HIDE DEF l
<1>5. \A e \in ToSet(l) : Front(e.path) = d /\ e.kind = kind[e.path] /\ e.kind # "absent"
  BY <1>3 DEF ToSet
<1>6. \A p \in S : \E e \in ToSet(l) : e.path = p
  <2> TAKE p \in S
  <2>1. PICK i \in 1..n : names[i] = p
    BY <1>2
  <2> QED
    BY <1>3, <2>1 DEF ToSet
<1>7. ASSUME NEW i \in 1..n, NEW k \in 1..n, i # k PROVE Apart(l[i].path, l[k].path)
  <2>1. /\ names[i] \in Paths /\ names[k] \in Paths /\ Front(names[i]) = Front(names[k])
        /\ l[i].path = names[i] /\ l[k].path = names[k]
    BY <1>3
  <2>2. names[i] # names[k]
    <3>1. \A j \in Paths : Last(j) \in Nat
      <4>1. \A j \in Paths : j \in Seq(Nat) /\ Len(j) \in Nat /\ Len(j) > 0
        BY NodesArePaths
      <4>2. \A j \in Paths : Len(j) \in 1..Len(j)
        BY <4>1
      <4> QED
        BY <4>1, <4>2, ElementOfSeq DEF Last
    <3>2. Last(names[i]) < Last(names[k]) \/ Last(names[k]) < Last(names[i])
      <4>1. i < k \/ k < i
        BY <1>2, <1>7
      <4> QED
        BY <1>2, <4>1
    <3> QED
      BY <2>1, <3>1, <3>2
  <2> QED
    BY <2>1, <2>2, Siblings DEF Apart
<1>8. \A i, k \in 1..n : i < k => Last(l[i].path) < Last(l[k].path)
  BY <1>2, <1>3
<1> QED
  BY <1>0, <1>3, <1>4, <1>5, <1>6, <1>7, <1>8

LEMMA TypeInit == Init => TypeInv
<1> SUFFICES ASSUME Init PROVE TypeInv
  OBVIOUS
<1>1. kind \in [Nodes -> AllKinds]
  BY PathsAssumption DEF Init, Trees
<1>2. Root \in Nodes
  BY DEF Nodes
<1>3. directories \in Seq(Nodes) /\ entries \in Seq(EntryType) /\ children \in Seq(Paths)
      /\ results \in Seq(ResultType)
  BY <1>2, EmptySeq DEF Init
<1> QED
  BY <1>1, <1>3, ScanBounds DEF Init, TypeInv, InFile, NoHandle, AllKinds

\* One more result.
LEMMA YieldType ==
    ASSUME TypeInv, NEW p \in Nodes, NEW w \in SUBSET AllWarnings, Yield(p, w)
    PROVE  results' \in Seq(ResultType)
BY DEF TypeInv, Yield, ResultType

\* A file is left with its result.
LEMMA EndFileType ==
    ASSUME TypeInv, pc \in InFile, EndFile, results' \in Seq(ResultType),
           kind' = kind, version' = version, changes' \in Nat, touched' \in SUBSET Nodes
    PROVE  TypeInv'
<1>1. Tail(entries) \in Seq(EntryType)
  BY HeadTailProperties DEF TypeInv
<1> QED
  BY <1>1, ScanBounds DEF TypeInv, EndFile, NextEntry, NoHandle, InFile, AllKinds

LEMMA TypeWalk ==
    ASSUME TypeInv,
           \/ ListDirectory \/ ListUnreadable \/ Descend \/ Finish
           \/ \E w \in Warnings : Skip(w)
           \/ KeepChild \/ PassOver \/ EntryFails \/ BeginFile
    PROVE  TypeInv'
<1> USE DEF tree, walk, scan
<1>1. /\ entries # <<>> => /\ Head(entries) \in EntryType /\ Tail(entries) \in Seq(EntryType)
                           /\ Head(entries).path \in Paths /\ Head(entries).path \in Nodes
      /\ directories # <<>> => Last(directories) \in Nodes /\ Front(directories) \in Seq(Nodes)
  <2>1. entries \in Seq(EntryType) /\ directories \in Seq(Nodes)
    BY DEF TypeInv
  <2>2. entries # <<>> => Head(entries) \in EntryType /\ Tail(entries) \in Seq(EntryType)
    BY <2>1, HeadTailProperties
  <2>3. directories # <<>> => Last(directories) \in Nodes /\ Front(directories) \in Seq(Nodes)
    BY <2>1, FrontApart
  <2> QED
    BY <2>2, <2>3, NodesArePaths DEF EntryType
<1>2. CASE ListDirectory
  <2>1. Listing(Last(directories)) \in Seq(EntryType)
    BY <1>1, <1>2, ListingFits DEF ListDirectory, TypeInv
  <2>2. <<>> \in Seq(Paths)
    BY EmptySeq
  <2> QED
    BY <1>1, <1>2, <2>1, <2>2 DEF ListDirectory, TypeInv, InFile
<1>3. CASE ListUnreadable
  <2>1. results' \in Seq(ResultType)
    BY <1>1, <1>3, YieldType DEF ListUnreadable, AllWarnings
  <2>2. changes' \in Nat /\ touched' \in SUBSET Nodes /\ kind' = kind /\ version' = version
    BY <1>1, <1>3 DEF ListUnreadable, IoError, TypeInv
  <2> QED
    BY <1>1, <1>3, <2>1, <2>2 DEF ListUnreadable, TypeInv
<1>4. CASE Descend
  <2>1. children \in Seq(Nodes)
    BY NodesArePaths, SeqMonotonic DEF TypeInv
  <2>2. directories \o Reverse(children) \in Seq(Nodes) /\ <<>> \in Seq(Paths)
    BY <2>1, ReverseApart, EmptySeq DEF TypeInv
  <2> QED
    BY <1>4, <2>2 DEF Descend, TypeInv, InFile
<1>5. CASE Finish
  BY <1>5 DEF Finish, TypeInv, InFile
<1>6. ASSUME NEW w \in Warnings, Skip(w) PROVE TypeInv'
  <2>1. results' \in Seq(ResultType)
    BY <1>1, <1>6, YieldType DEF Skip, AtEntry, AllWarnings
  <2> QED
    BY <1>1, <1>6, <2>1 DEF Skip, AtEntry, NextEntry, TypeInv, InFile
<1>7. CASE KeepChild
  <2>1. Append(children, Head(entries).path) \in Seq(Paths)
    BY <1>1, <1>7, AppendApart DEF KeepChild, AtEntry, TypeInv
  <2> QED
    BY <1>1, <1>7, <2>1 DEF KeepChild, AtEntry, NextEntry, TypeInv, InFile
<1>8. CASE PassOver
  BY <1>1, <1>8 DEF PassOver, AtEntry, NextEntry, TypeInv, InFile
<1>9. CASE EntryFails
  <2>1. results' \in Seq(ResultType)
    BY <1>1, <1>9, YieldType DEF EntryFails, AtEntry, AllWarnings
  <2>2. changes' \in Nat /\ touched' \in SUBSET Nodes /\ kind' = kind /\ version' = version
    BY <1>1, <1>9 DEF EntryFails, AtEntry, IoError, TypeInv
  <2> QED
    BY <1>1, <1>9, <2>1, <2>2 DEF EntryFails, AtEntry, NextEntry, TypeInv, InFile
<1>10. CASE BeginFile
  BY <1>10 DEF BeginFile, AtEntry, TypeInv, InFile
<1> QED
  BY <1>2, <1>3, <1>4, <1>5, <1>6, <1>7, <1>8, <1>9, <1>10

LEMMA TypeFile ==
    ASSUME TypeInv,
           \/ Stat \/ Open \/ OpenFails \/ Read \/ ReadWell \/ FallBack \/ ReadFails
           \/ ReadRaises \/ Compare \/ CompareGone
    PROVE  TypeInv'
<1> USE DEF tree, walk, scan, InFile
<1>1. pc \in InFile => file \in Nodes
  <2> SUFFICES ASSUME pc \in InFile PROVE file \in Nodes
    OBVIOUS
  <2>1. entries \in Seq(EntryType) /\ entries # <<>>
    BY DEF TypeInv
  <2>2. Head(entries) \in EntryType
    BY <2>1, HeadTailProperties
  <2> QED
    BY <2>2, NodesArePaths DEF EntryType, file
<1>2. ASSUME pc \in InFile, EndFile, NEW w \in AllWarnings, Yield(file, {w}),
             IoError(file) \/ UNCHANGED tree
      PROVE  TypeInv'
  <2>1. results' \in Seq(ResultType)
    BY <1>1, <1>2, YieldType
  <2>2. changes' \in Nat /\ touched' \in SUBSET Nodes /\ kind' = kind /\ version' = version
    BY <1>1, <1>2 DEF IoError, TypeInv
  <2> QED
    BY <1>2, <2>1, <2>2, EndFileType
<1>3. ASSUME pc \in InFile, NEW w \in AllWarnings, Rejected(w) PROVE TypeInv'
  BY <1>2, <1>3 DEF Rejected
<1>4. CASE Stat
  <2>1. CASE before' = version[file] /\ pc' = "open" /\ UNCHANGED <<tree, walk, encoding, handle, chunk, versions, results>>
    BY <1>1, <1>4, <2>1 DEF Stat, TypeInv
  <2> QED
    BY <1>3, <1>4, <2>1 DEF Stat, AllWarnings
<1>5. CASE Open
  <2>1. kind[file] \in AllKinds /\ version[file] \in Nat
    BY <1>1, <1>5 DEF Open, TypeInv
  <2> QED
    BY <1>5, <2>1, ScanBounds DEF Open, TypeInv
<1>6. CASE OpenFails
  BY <1>3, <1>6 DEF OpenFails, AllWarnings
<1>7. CASE Read
  <2>1. chunk + 1 \in 0..Chunks
    BY <1>7, ScanBounds DEF Read, TypeInv
  <2>2. handle.version \in Nat
    BY DEF TypeInv
  <2> QED
    BY <1>7, <2>1, <2>2 DEF Read, TypeInv
<1>8. CASE ReadWell
  BY <1>8 DEF ReadWell, AllRead, TypeInv
<1>9. CASE FallBack
  BY <1>9 DEF FallBack, AllRead, TypeInv
<1>10. CASE ReadFails
  BY <1>2, <1>3, <1>10 DEF ReadFails, AllWarnings
<1>11. CASE Compare
  <2>1. results' \in Seq(ResultType)
    BY <1>1, <1>11 DEF Compare, TypeInv, ResultType, AllWarnings
  <2> QED
    BY <1>11, <2>1, EndFileType DEF Compare, TypeInv
<1>12. CASE CompareGone
  BY <1>3, <1>12 DEF CompareGone, AllWarnings
<1>13. CASE ReadRaises
  BY <1>13 DEF ReadRaises, AllRead, TypeInv
<1> QED
  BY <1>4, <1>5, <1>6, <1>7, <1>8, <1>9, <1>10, <1>11, <1>12, <1>13

LEMMA TypeChanges ==
    ASSUME TypeInv, NEW p \in Nodes, NEW k \in Kinds, Rewrite(p, k) \/ Replace(p, k)
    PROVE  TypeInv'
<1> USE DEF walk, InFile
<1>1. /\ kind' \in [Nodes -> AllKinds] /\ version' \in [Nodes -> Nat]
      /\ changes' \in Nat /\ touched' \in SUBSET Nodes
  <2>1. CASE Rewrite(p, k)
    BY <2>1, PathsAssumption DEF Rewrite, Change, TypeInv
  <2>2. CASE Replace(p, k)
    <3>1. k \in AllKinds /\ "absent" \in AllKinds
      BY PathsAssumption DEF AllKinds
    <3> QED
      BY <2>2, <3>1 DEF Replace, Change, TypeInv
  <2> QED
    BY <2>1, <2>2
<1>2. handle' \in [kind : AllKinds, version : Nat, live : BOOLEAN]
  <2>1. k \in AllKinds /\ version[p] + 1 \in Nat
    BY PathsAssumption DEF TypeInv
  <2>2. CASE Rewrite(p, k)
    BY <2>1, <2>2 DEF Rewrite, TypeInv
  <2>3. CASE Replace(p, k)
    BY <2>3 DEF Replace, TypeInv
  <2> QED
    BY <2>2, <2>3
<1> QED
  BY <1>1, <1>2 DEF Rewrite, Replace, TypeInv

LEMMA TypeNext == TypeInv /\ [Next]_vars => TypeInv'
<1> SUFFICES ASSUME TypeInv, [Next]_vars PROVE TypeInv'
  OBVIOUS
<1>1. CASE UNCHANGED vars
  BY <1>1 DEF vars, tree, walk, scan, TypeInv
<1> QED
  BY <1>1, TypeWalk, TypeFile, TypeChanges DEF Next, Scan

LEMMA TypeAlways == Spec => []TypeInv
BY TypeInit, TypeNext, PTL DEF Spec

------------------------------------------------------------------------------
(* The walk.  What waits on the stack, among the children and in the listing *)
(* is apart from each other, and nothing at it or below it has been reported *)
(* yet.                                                                      *)

Stack  == ToSet(directories)
Kept   == ToSet(children)
Listed == ToSet(Names(entries))

Placed ==
    /\ AllApart(directories) /\ AllApart(children) /\ AllApart(Names(entries))
    /\ \A d \in Stack, q \in Kept \cup Listed : Apart(d, q)
    /\ \A c \in Kept, q \in Listed : Apart(c, q)
    /\ \A i \in 1..Len(results) : \A q \in Stack \cup Kept \cup Listed : ~Below(results[i].path, q)
    /\ EachPathOnce

\* The ways in which a step moves the walk on.
Reports(p) == \E r \in ResultType : r.path = p /\ results' = Append(results, r)

Opens ==
    /\ directories # <<>> /\ directories' = Front(directories)
    /\ entries = <<>> /\ entries' = Listing(Last(directories)) /\ children' = <<>>
    /\ results' = results

GivesUp ==
    /\ directories # <<>> /\ directories' = Front(directories)
    /\ entries = <<>> /\ entries' = entries /\ children = <<>> /\ children' = children
    /\ Reports(Last(directories))

Stacks ==
    /\ directories' = directories \o Reverse(children) /\ children' = <<>>
    /\ entries = <<>> /\ entries' = entries /\ results' = results

TakesEntry == entries # <<>> /\ entries' = Tail(entries) /\ directories' = directories

Keeps   == TakesEntry /\ children' = Append(children, Head(entries).path) /\ results' = results
Passes  == TakesEntry /\ children' = children /\ results' = results
Settles == TakesEntry /\ children' = children /\ Reports(Head(entries).path)
Rests   == UNCHANGED <<walk, results>>

\* The last of the results is the one a step adds.
LEMMA Added ==
    ASSUME TypeInv, NEW r \in ResultType, results' = Append(results, r)
    PROVE  /\ Len(results) \in Nat /\ Len(results') = Len(results) + 1
           /\ \A i \in 1..Len(results) : i \in 1..Len(results') /\ results'[i] = results[i]
           /\ Len(results') \in 1..Len(results') /\ results'[Len(results')] = r
           /\ \A i \in 1..Len(results') : i \in 1..Len(results) \/ i = Len(results')
<1>1. results \in Seq(ResultType) /\ Len(results) \in Nat
  BY DEF TypeInv
<1>2. /\ Len(results') = Len(results) + 1
      /\ \A i \in 1..Len(results) : results'[i] = results[i]
      /\ results'[Len(results) + 1] = r
  BY <1>1
<1> QED
  BY <1>1, <1>2

\* A result of the file at hand.
LEMMA YieldReports ==
    ASSUME NEW p \in Nodes, NEW w \in SUBSET AllWarnings, Yield(p, w)
    PROVE  Reports(p)
<1> DEFINE r == [path |-> p, warnings |-> w, scanned |-> FALSE, versions |-> {}]
<1>1. r \in ResultType /\ r.path = p /\ results' = Append(results, r)
  BY DEF ResultType, Yield
<1> QED
  BY <1>1 DEF Reports

LEMMA WalkSteps ==
    ASSUME TypeInv, [Next]_vars
    PROVE  Opens \/ GivesUp \/ Stacks \/ Keeps \/ Passes \/ Settles \/ Rests
<1> USE DEF walk, TakesEntry, NextEntry, AtEntry, AllWarnings
<1>0. /\ directories # <<>> => Last(directories) \in Nodes
      /\ entries # <<>> => Head(entries).path \in Nodes
      /\ pc = "walk" => entries = <<>> /\ children = <<>>
      /\ pc \in InFile => entries # <<>>
  <2>1. entries \in Seq(EntryType) /\ directories \in Seq(Nodes)
    BY DEF TypeInv
  <2>2. entries # <<>> => Head(entries) \in EntryType
    BY <2>1, HeadTailProperties
  <2>3. directories # <<>> => Last(directories) \in Nodes
    BY <2>1, FrontApart
  <2> QED
    BY <2>2, <2>3, NodesArePaths DEF EntryType, TypeInv
<1>1. CASE UNCHANGED vars
  BY <1>1 DEF vars, Rests
<1>2. ASSUME NEW p \in Nodes, NEW k \in Kinds, Rewrite(p, k) \/ Replace(p, k) PROVE Rests
  BY <1>2 DEF Rewrite, Replace, Rests
<1>3. CASE ListDirectory
  BY <1>0, <1>3 DEF ListDirectory, Opens
<1>4. CASE ListUnreadable
  <2>1. Reports(Last(directories))
    BY <1>0, <1>4, YieldReports DEF ListUnreadable
  <2> QED
    BY <1>0, <1>4, <2>1 DEF ListUnreadable, GivesUp
<1>5. CASE Descend
  BY <1>5 DEF Descend, Stacks
<1>6. CASE Finish \/ BeginFile \/ Open \/ Read \/ ReadWell \/ FallBack \/ ReadRaises
  BY <1>6 DEF Finish, BeginFile, Open, Read, ReadWell, FallBack, ReadRaises, Rests
<1>7. ASSUME NEW w \in Warnings, Skip(w) PROVE Settles
  <2>1. Reports(Head(entries).path)
    BY <1>0, <1>7, YieldReports DEF Skip
  <2> QED
    BY <1>7, <2>1 DEF Skip, Settles
<1>8. CASE KeepChild
  BY <1>8 DEF KeepChild, Keeps
<1>9. CASE PassOver
  BY <1>9 DEF PassOver, Passes
<1>10. CASE EntryFails
  <2>1. Reports(Head(entries).path)
    BY <1>0, <1>10, YieldReports DEF EntryFails
  <2> QED
    BY <1>10, <2>1 DEF EntryFails, Settles
<1>11. ASSUME pc \in InFile, EndFile, NEW w \in AllWarnings, Yield(file, {w}) PROVE Settles
  <2>1. Reports(Head(entries).path)
    BY <1>0, <1>11, YieldReports DEF file
  <2> QED
    BY <1>0, <1>11, <2>1 DEF EndFile, Settles
<1>12. ASSUME pc \in InFile, NEW w \in AllWarnings, Rejected(w) PROVE Settles
  BY <1>11, <1>12 DEF Rejected
<1>13. CASE Stat
  BY <1>12, <1>13 DEF Stat, InFile, Rests
<1>14. CASE OpenFails \/ CompareGone
  BY <1>12, <1>14 DEF OpenFails, CompareGone, InFile
<1>15. CASE ReadFails
  BY <1>11, <1>12, <1>15 DEF ReadFails, AllRead, InFile
<1>16. CASE Compare
  <2>1. file \in Nodes /\ versions \in SUBSET Nat
    BY <1>0, <1>16 DEF Compare, file, InFile, TypeInv
  <2> DEFINE fallback == IF encoding = "cp1252" THEN {"encoding_fallback_cp1252"} ELSE {}
             unstable == IF version[file] # before THEN {"unstable_file"} ELSE {}
             r == [path |-> file, warnings |-> fallback \cup unstable,
                   scanned |-> TRUE, versions |-> versions]
  <2>2. Reports(Head(entries).path)
    <3>1. r \in ResultType /\ r.path = file
      BY <2>1 DEF ResultType
    <3>2. results' = Append(results, r)
      BY <1>16 DEF Compare
    <3> QED
      BY <3>1, <3>2 DEF Reports, file
  <2> QED
    BY <1>0, <1>16, <2>2 DEF Compare, EndFile, Settles, InFile
<1> QED
  BY <1>1, <1>2, <1>3, <1>4, <1>5, <1>6, <1>7, <1>8, <1>9, <1>10, <1>13, <1>14, <1>15, <1>16
  DEF Next, Scan

\* The names of a listing, and what is left of them.
LEMMA NamesOf ==
    ASSUME NEW s \in Seq(EntryType)
    PROVE  /\ Names(s) \in Seq(Nodes) /\ ToSet(Names(s)) = {e.path : e \in ToSet(s)}
           /\ ToSet(Names(s)) \subseteq Paths
           /\ s # <<>> => /\ Names(s) # <<>> /\ Head(Names(s)) = Head(s).path
                          /\ Names(Tail(s)) = Tail(Names(s))
           /\ s = <<>> => ToSet(Names(s)) = {}
<1>1. Len(s) \in Nat /\ DOMAIN s = 1..Len(s) /\ \A i \in 1..Len(s) : s[i] \in EntryType
  BY LenProperties, ElementOfSeq
<1>2. \A i \in 1..Len(s) : s[i].path \in Paths /\ s[i].path \in Nodes
  BY <1>1, NodesArePaths DEF EntryType
<1>3. Names(s) \in [1..Len(s) -> Nodes] /\ \A i \in 1..Len(s) : Names(s)[i] = s[i].path
  BY <1>2 DEF Names
<1>4. Names(s) \in Seq(Nodes) /\ Len(Names(s)) = Len(s) /\ DOMAIN Names(s) = 1..Len(s)
  BY <1>1, <1>3
<1>5. ToSet(Names(s)) = {e.path : e \in ToSet(s)}
  BY <1>1, <1>3, <1>4 DEF ToSet
<1>6. ToSet(Names(s)) \subseteq Paths
  BY <1>2, <1>3, <1>4 DEF ToSet
<1>7. ASSUME s # <<>>
      PROVE  Names(s) # <<>> /\ Head(Names(s)) = Head(s).path /\ Names(Tail(s)) = Tail(Names(s))
  <2>1. Len(s) > 0 /\ 1 \in 1..Len(s)
    BY <1>1, <1>7, EmptySeq
  <2>2. Names(s) # <<>> /\ Head(Names(s)) = Head(s).path
    BY <1>3, <1>4, <2>1
  <2>3. /\ Tail(s) \in Seq(EntryType) /\ Len(Tail(s)) = Len(s) - 1
        /\ \A i \in 1..Len(s) - 1 : Tail(s)[i] = s[i + 1]
    BY <1>7, HeadTailProperties
  <2>4. /\ Tail(Names(s)) \in Seq(Nodes) /\ Len(Tail(Names(s))) = Len(s) - 1
        /\ \A i \in 1..Len(s) - 1 : Tail(Names(s))[i] = Names(s)[i + 1]
    BY <1>4, <2>2, HeadTailProperties
  <2>5. \A i \in 1..Len(s) - 1 : i + 1 \in 1..Len(s)
    BY <1>1
  <2>6. \A i \in 1..Len(s) - 1 : Tail(Names(s))[i] = Tail(s)[i].path
    BY <1>3, <2>3, <2>4, <2>5
  <2>7. Names(Tail(s)) = [i \in 1..Len(s) - 1 |-> Tail(s)[i].path]
    BY <2>3 DEF Names
  <2>8. Tail(Names(s)) = [i \in 1..Len(s) - 1 |-> Tail(Names(s))[i]]
    <3> DEFINE t == Tail(Names(s))
    <3>1. t \in Seq(Nodes) /\ Len(t) = Len(s) - 1
      BY <2>4
    <3> HIDE DEF t
    <3>2. t \in [1..Len(t) -> Nodes]
      BY <3>1, LenProperties
    <3>3. t = [i \in 1..Len(t) |-> t[i]]
      BY <3>2
    <3> QED
      BY <3>1, <3>3 DEF t
  <2> QED
    BY <2>2, <2>6, <2>7, <2>8
<1>8. s = <<>> => ToSet(Names(s)) = {}
  BY <1>5 DEF ToSet
<1> QED
  BY <1>4, <1>5, <1>6, <1>7, <1>8

\* A report of a path that waits adds nothing below what goes on waiting.
LEMMA ReportsKept ==
    ASSUME TypeInv, NEW p \in Nodes, Reports(p), EachPathOnce, NEW W \in SUBSET Nodes,
           \A i \in 1..Len(results) : \A q \in W \cup {p} : ~Below(results[i].path, q),
           \A q \in W : ~Below(p, q)
    PROVE  /\ \A i \in 1..Len(results') : \A q \in W : ~Below(results'[i].path, q)
           /\ EachPathOnce'
<1>1. PICK r \in ResultType : r.path = p /\ results' = Append(results, r)
  BY DEF Reports
<1>2. /\ \A i \in 1..Len(results) : i \in 1..Len(results') /\ results'[i] = results[i]
      /\ Len(results') \in 1..Len(results') /\ results'[Len(results')] = r
      /\ \A i \in 1..Len(results') : i \in 1..Len(results) \/ i = Len(results')
  BY <1>1, Added
<1>3. \A i \in 1..Len(results') : \A q \in W : ~Below(results'[i].path, q)
  BY <1>1, <1>2
<1>4. \A i \in 1..Len(results) : results[i].path # p
  BY BelowOrder
<1>5. EachPathOnce'
  BY <1>1, <1>2, <1>4 DEF EachPathOnce
<1> QED
  BY <1>3, <1>5

\* The entries of a directory are where it was.
LEMMA EntriesApart ==
    ASSUME NEW d \in Nodes, NEW c \in Paths, Front(c) = d
    PROVE  /\ \A q \in Nodes : Apart(q, d) => Apart(q, c)
           /\ \A q \in Nodes : ~Below(q, d) => ~Below(q, c)
<1>1. Below(c, d) /\ c \in Nodes /\ \A q \in Nodes : Below(c, q) => q = c \/ Below(d, q)
  BY BelowFront, NodesArePaths
<1>2. \A q \in Nodes : Below(q, c) => Below(q, d)
  BY <1>1, BelowOrder
<1>3. \A q \in Nodes : Below(c, q) /\ ~Below(q, d) => Below(d, q)
  BY <1>1
<1> QED
  BY <1>2, <1>3 DEF Apart

LEMMA PlacedNext == TypeInv /\ Placed /\ [Next]_vars => Placed'
<1> SUFFICES ASSUME TypeInv, Placed, [Next]_vars PROVE Placed'
  OBVIOUS
<1>0. /\ directories \in Seq(Nodes) /\ children \in Seq(Paths) /\ children \in Seq(Nodes)
      /\ entries \in Seq(EntryType) /\ kind \in [Nodes -> AllKinds] /\ TypeInv'
      /\ results \in Seq(ResultType)
  BY TypeNext, SeqMonotonic, NodesArePaths DEF TypeInv
<1>1. /\ Stack \subseteq Nodes /\ Kept \subseteq Nodes /\ Listed \subseteq Nodes
      /\ Names(entries) \in Seq(Nodes)
  <2>1. \A S : \A t \in Seq(S) : ToSet(t) \subseteq S
    BY LenProperties, ElementOfSeq DEF ToSet
  <2> QED
    BY <1>0, <2>1, NamesOf DEF Stack, Kept, Listed
<1>2. \A i \in 1..Len(results) : results[i].path \in Nodes
  <2>1. \A i \in 1..Len(results) : results[i] \in ResultType
    BY <1>0, ElementOfSeq
  <2> QED
    BY <2>1 DEF ResultType
<1>3. CASE Opens
  <2> DEFINE d == Last(directories)
  <2>1. /\ d \in Nodes /\ Stack = {d} \cup Stack' /\ AllApart(directories')
        /\ \A q \in Stack' : Apart(d, q)
    BY <1>0, <1>3, FrontApart DEF Opens, Stack, Placed
  <2>2. Kept' = {} /\ AllApart(children') /\ results' = results
    BY <1>3 DEF Opens, Kept, ToSet, AllApart
  <2>3. /\ entries' = Listing(d) /\ Listing(d) \in Seq(EntryType)
        /\ \A e \in ToSet(Listing(d)) : Front(e.path) = d
        /\ \A i, k \in DOMAIN Listing(d) : i # k => Apart(Listing(d)[i].path, Listing(d)[k].path)
    BY <1>0, <1>3, <2>1, ListingFits DEF Opens
  <2>4. AllApart(Names(entries'))
    <3>1. DOMAIN Listing(d) = 1..Len(Listing(d))
      BY <2>3, LenProperties
    <3> QED
      BY <2>3, <3>1 DEF AllApart, Names
  <2>5. \A q \in Listed' : q \in Paths /\ Front(q) = d
    BY <2>3, NamesOf DEF Listed
  <2>6. \A q \in Listed', x \in Stack' : Apart(x, q)
    BY <1>1, <2>1, <2>5, EntriesApart DEF Apart
  <2>7. \A i \in 1..Len(results) : \A q \in Listed' : ~Below(results[i].path, q)
    <3>1. \A i \in 1..Len(results) : ~Below(results[i].path, d)
      BY <2>1 DEF Placed
    <3> QED
      BY <1>2, <2>1, <2>5, <3>1, EntriesApart
  <2>8. \A i \in 1..Len(results) : \A q \in Stack' : ~Below(results[i].path, q)
    BY <2>1 DEF Placed
  <2>9. EachPathOnce'
    BY <2>2 DEF Placed, EachPathOnce
  <2> QED
    BY <2>1, <2>2, <2>4, <2>6, <2>7, <2>8, <2>9 DEF Placed
<1>4. CASE GivesUp
  <2> DEFINE d == Last(directories)
  <2>1. /\ d \in Nodes /\ Stack = {d} \cup Stack' /\ AllApart(directories')
        /\ \A q \in Stack' : Apart(d, q)
    BY <1>0, <1>4, FrontApart DEF GivesUp, Stack, Placed
  <2>2. Kept' = Kept /\ Listed' = Listed /\ Names(entries') = Names(entries) /\ children' = children
    BY <1>4 DEF GivesUp, Kept, Listed
  <2> DEFINE W == Stack' \cup Kept \cup Listed
  <2>3. W \in SUBSET Nodes /\ \A q \in W : Apart(d, q)
    BY <1>1, <2>1 DEF Placed
  <2>4. \A i \in 1..Len(results) : \A q \in W \cup {d} : ~Below(results[i].path, q)
    BY <2>1 DEF Placed
  <2> HIDE DEF W
  <2>5. /\ \A i \in 1..Len(results') : \A q \in W : ~Below(results'[i].path, q)
        /\ EachPathOnce'
    BY <1>4, <2>1, <2>3, <2>4, ReportsKept DEF GivesUp, Apart, Placed
  <2> QED
    BY <2>1, <2>2, <2>5 DEF Placed, W
<1>5. CASE Stacks
  <2>1. /\ Stack' = Stack \cup Kept /\ AllApart(directories')
    BY <1>0, <1>5, ReverseApart DEF Stacks, Stack, Kept, Placed
  <2>2. Kept' = {} /\ AllApart(children') /\ Names(entries') = Names(entries) /\ Listed' = Listed
        /\ results' = results
    BY <1>5 DEF Stacks, Kept, Listed, ToSet, AllApart
  <2>3. EachPathOnce'
    BY <2>2 DEF Placed, EachPathOnce
  <2> QED
    BY <2>1, <2>2, <2>3 DEF Placed
<1>6. ASSUME TakesEntry
      PROVE  LET p == Head(entries).path
             IN  /\ p \in Paths /\ p \in Nodes /\ Listed = {p} \cup Listed' /\ AllApart(Names(entries'))
                 /\ \A q \in Listed' : Apart(p, q)
                 /\ Stack' = Stack /\ directories' = directories
  <2>1. /\ Names(entries) # <<>> /\ Head(Names(entries)) = Head(entries).path
        /\ Names(entries') = Tail(Names(entries)) /\ Listed \subseteq Paths
    BY <1>0, <1>6, NamesOf DEF TakesEntry, Listed
  <2>2. Stack' = Stack /\ directories' = directories
    BY <1>6 DEF TakesEntry, Stack
  <2>3. /\ Listed = {Head(Names(entries))} \cup Listed' /\ AllApart(Names(entries'))
        /\ \A q \in Listed' : Apart(Head(Names(entries)), q)
    BY <1>1, <2>1, TailApart DEF Listed, Placed
  <2> QED
    BY <1>1, <2>1, <2>2, <2>3
<1>7. CASE Keeps
  <2> DEFINE p == Head(entries).path
  <2>1. /\ p \in Paths /\ Listed = {p} \cup Listed' /\ AllApart(Names(entries'))
        /\ \A q \in Listed' : Apart(p, q)
        /\ Stack' = Stack /\ directories' = directories /\ results' = results
    BY <1>6, <1>7 DEF Keeps
  <2>2. \A c \in Kept : Apart(c, p)
    BY <2>1 DEF Placed
  <2>3. Kept' = Kept \cup {p} /\ AllApart(children')
    BY <1>0, <1>7, <2>1, <2>2, AppendApart DEF Keeps, Kept, Placed
  <2>4. EachPathOnce'
    BY <2>1 DEF Placed, EachPathOnce
  <2> HIDE DEF p
  <2> QED
    BY <2>1, <2>3, <2>4 DEF Placed
<1>8. CASE Passes
  <2>1. /\ Listed' \subseteq Listed /\ AllApart(Names(entries'))
        /\ Stack' = Stack /\ directories' = directories /\ results' = results
        /\ Kept' = Kept /\ children' = children
    BY <1>6, <1>8 DEF Passes, Kept
  <2>2. EachPathOnce'
    BY <2>1 DEF Placed, EachPathOnce
  <2> QED
    BY <2>1, <2>2 DEF Placed
<1>9. CASE Settles
  <2> DEFINE p == Head(entries).path
             W == Stack \cup Kept \cup Listed'
  <2>1. /\ p \in Nodes /\ Listed = {p} \cup Listed' /\ AllApart(Names(entries'))
        /\ \A q \in Listed' : Apart(p, q)
        /\ Stack' = Stack /\ directories' = directories
        /\ Kept' = Kept /\ children' = children /\ Reports(p)
    BY <1>6, <1>9 DEF Settles, Kept
  <2>2. W \in SUBSET Nodes /\ \A q \in W : ~Below(p, q)
    BY <1>1, <2>1 DEF Placed, Apart
  <2>3. \A i \in 1..Len(results) : \A q \in W \cup {p} : ~Below(results[i].path, q)
    BY <2>1 DEF Placed
  <2> HIDE DEF W, p
  <2>4. /\ \A i \in 1..Len(results') : \A q \in W : ~Below(results'[i].path, q)
        /\ EachPathOnce'
    BY <2>1, <2>2, <2>3, ReportsKept DEF Placed
  <2> QED
    BY <2>1, <2>4 DEF Placed, W
<1>10. CASE Rests
  BY <1>10 DEF Rests, walk, Placed, Stack, Kept, Listed, EachPathOnce
<1> QED
  BY <1>3, <1>4, <1>5, <1>7, <1>8, <1>9, <1>10, WalkSteps

LEMMA PlacedAlways == Spec => [](TypeInv /\ Placed)
<1>1. Init => Placed
  <2> SUFFICES ASSUME Init PROVE Placed
    OBVIOUS
  <2>1. AllApart(directories) /\ AllApart(children) /\ AllApart(Names(entries))
    BY DEF Init, AllApart, Names
  <2>2. Kept = {} /\ Listed = {}
    BY DEF Init, Kept, Listed, Names, ToSet
  <2> QED
    BY <2>1, <2>2 DEF Init, Placed, EachPathOnce
<1> QED
  BY <1>1, TypeAlways, PlacedNext, PTL DEF Spec

\* No path is reported twice, in trees of any shape and however they change: what
\* waits to be reported is apart from everything else, and never below it.
THEOREM PathsAreReportedOnce == Spec => []EachPathOnce
<1>1. TypeInv /\ Placed => EachPathOnce
  BY DEF Placed
<1> QED
  BY <1>1, PlacedAlways, PTL

------------------------------------------------------------------------------
(* One version.  What a reading has seen lies between the version of the     *)
(* first stat and the present one, so that when the second stat finds the    *)
(* version of the first, every character is of that version.                 *)

FileVersions ==
    /\ pc \in {"open", "read", "compare"} => before <= version[file]
    /\ pc \in {"read", "compare"} =>
          /\ before <= handle.version /\ handle.version <= version[file]
          /\ \A v \in versions : before <= v /\ v <= version[file]
          /\ chunk > 0 => versions # {}
    /\ pc = "compare" => chunk = Chunks

OneVersion == FileVersions /\ StableMeansOneVersion

\* Changes of the tree never take a version back.
LEMMA VersionsGrow ==
    ASSUME TypeInv, NEW p \in Nodes, NEW k \in Kinds, Rewrite(p, k) \/ Replace(p, k)
    PROVE  \A q \in Nodes : version[q] <= version'[q]
<1>1. \A q \in Nodes : version[q] \in Nat
  BY DEF TypeInv
<1>2. CASE Rewrite(p, k)
  BY <1>1, <1>2 DEF Rewrite, TypeInv
<1>3. CASE Replace(p, k)
  BY <1>1, <1>3 DEF Replace
<1> QED
  BY <1>2, <1>3

\* A result that is not that of a whole reading says nothing of versions.
LEMMA YieldStable ==
    ASSUME TypeInv, StableMeansOneVersion, NEW p, NEW w, Yield(p, w)
    PROVE  StableMeansOneVersion'
<1> DEFINE r == [path |-> p, warnings |-> w, scanned |-> FALSE, versions |-> {}]
<1>1. results \in Seq(ResultType) /\ results' = Append(results, r) /\ Len(results) \in Nat
  BY DEF Yield, TypeInv
<1>2. /\ Len(results') = Len(results) + 1
      /\ \A i \in 1..Len(results) : results'[i] = results[i]
      /\ results'[Len(results) + 1] = r
  BY <1>1
<1>3. \A i \in 1..Len(results') : i \in 1..Len(results) \/ i = Len(results) + 1
  BY <1>1, <1>2
<1> QED
  BY <1>2, <1>3 DEF StableMeansOneVersion

LEMMA OneVersionFile ==
    ASSUME TypeInv, OneVersion,
           \/ Stat \/ Open \/ OpenFails \/ Read \/ ReadWell \/ FallBack \/ ReadFails
           \/ ReadRaises \/ Compare \/ CompareGone
    PROVE  OneVersion'
<1> USE DEF tree, walk, scan
<1>0. /\ pc \in InFile => file \in Nodes /\ version[file] \in Nat
      /\ before \in Nat /\ handle.version \in Nat /\ chunk \in Nat /\ Chunks \in Nat /\ Chunks > 0
      /\ results \in Seq(ResultType)
  <2>1. pc \in InFile => file \in Nodes
    <3>1. entries \in Seq(EntryType) /\ (pc \in InFile => entries # <<>>)
      BY DEF TypeInv
    <3>2. entries # <<>> => Head(entries) \in EntryType
      BY <3>1, HeadTailProperties
    <3> QED
      BY <3>1, <3>2, NodesArePaths DEF EntryType, file
  <2> QED
    BY <2>1, ScanBounds DEF TypeInv
<1>1. StableMeansOneVersion /\ FileVersions
  BY DEF OneVersion
<1>2. ASSUME EndFile, NEW w, Yield(file, w) PROVE OneVersion'
  <2>1. StableMeansOneVersion'
    BY <1>1, <1>2, YieldStable
  <2>2. FileVersions'
    BY <1>2 DEF EndFile, FileVersions
  <2> QED
    BY <2>1, <2>2 DEF OneVersion
<1>3. ASSUME NEW w, Rejected(w) PROVE OneVersion'
  BY <1>2, <1>3 DEF Rejected
<1>4. ASSUME results' = results, FileVersions' PROVE OneVersion'
  BY <1>1, <1>4 DEF OneVersion, StableMeansOneVersion
<1>5. CASE Stat
  <2>1. CASE /\ pc = "stat" /\ before' = version[file] /\ pc' = "open"
             /\ UNCHANGED <<tree, walk, encoding, handle, chunk, versions, results>>
    <3>1. file' = file /\ version' = version /\ results' = results
      BY <2>1 DEF file
    <3>2. before' <= version'[file']
      BY <1>0, <2>1, <3>1 DEF InFile
    <3> QED
      BY <1>4, <2>1, <3>1, <3>2 DEF FileVersions
  <2> QED
    BY <1>3, <1>5, <2>1 DEF Stat
<1>6. CASE Open
  <2>1. file' = file /\ results' = results /\ version' = version /\ before' = before
        /\ handle'.version = version[file] /\ versions' = {} /\ chunk' = 0 /\ pc = "open" /\ pc' = "read"
    BY <1>6 DEF Open, file
  <2>2. before <= version[file] /\ version[file] <= version[file]
    BY <1>0, <1>1, <2>1 DEF FileVersions, InFile
  <2> QED
    BY <1>4, <2>1, <2>2 DEF FileVersions
<1>7. CASE Read
  <2>1. /\ file' = file /\ results' = results /\ version' = version /\ before' = before
        /\ handle' = handle /\ versions' = versions \cup {handle.version}
        /\ pc = "read" /\ pc' = "read"
    BY <1>7 DEF Read, file
  <2>2. /\ before <= handle.version /\ handle.version <= version[file] /\ before <= version[file]
        /\ \A v \in versions : before <= v /\ v <= version[file]
    BY <1>1, <2>1 DEF FileVersions
  <2> QED
    BY <1>4, <2>1, <2>2 DEF FileVersions
<1>8. CASE ReadWell
  <2>1. /\ file' = file /\ results' = results /\ version' = version /\ before' = before
        /\ handle' = handle /\ versions' = versions /\ chunk' = chunk
        /\ pc = "read" /\ pc' = "compare" /\ chunk = Chunks
    BY <1>8 DEF ReadWell, AllRead, file
  <2> QED
    BY <1>1, <1>4, <2>1 DEF FileVersions
<1>9. CASE FallBack
  <2>1. /\ file' = file /\ results' = results /\ version' = version /\ before' = before
        /\ pc = "read" /\ pc' = "open"
    BY <1>9 DEF FallBack, AllRead, file
  <2> QED
    BY <1>1, <1>4, <2>1 DEF FileVersions
<1>10. CASE Compare
  <2> DEFINE fallback == IF encoding = "cp1252" THEN {"encoding_fallback_cp1252"} ELSE {}
             unstable == IF version[file] # before THEN {"unstable_file"} ELSE {}
             r == [path |-> file, warnings |-> fallback \cup unstable,
                   scanned |-> TRUE, versions |-> versions]
  <2>1. results' = Append(results, r) /\ pc = "compare" /\ pc' = "entry"
    BY <1>10 DEF Compare, EndFile
  <2>2. "unstable_file" \notin r.warnings => Cardinality(r.versions) = 1
    <3> SUFFICES ASSUME version[file] = before PROVE Cardinality(versions) = 1
      OBVIOUS
    <3>1. chunk > 0 /\ versions # {} /\ \A v \in versions : before <= v /\ v <= version[file]
      BY <1>0, <1>1, <2>1 DEF FileVersions
    <3>2. \A v \in versions : v = before
      <4>1. \A v \in versions : v \in Nat
        BY DEF TypeInv
      <4> QED
        BY <1>0, <3>1, <4>1
    <3>3. versions = {before}
      BY <3>1, <3>2
    <3> QED
      BY <3>3, FS_Singleton
  <2> HIDE DEF r
  <2>3. /\ Len(results) \in Nat /\ Len(results') = Len(results) + 1
        /\ \A i \in 1..Len(results) : results'[i] = results[i]
        /\ results'[Len(results) + 1] = r
    BY <1>0, <2>1
  <2>4. \A i \in 1..Len(results') : i \in 1..Len(results) \/ i = Len(results) + 1
    BY <2>3
  <2>5. StableMeansOneVersion'
    BY <1>1, <2>2, <2>3, <2>4 DEF StableMeansOneVersion
  <2> QED
    BY <2>1, <2>5 DEF OneVersion, FileVersions
<1>11. CASE OpenFails \/ CompareGone
  BY <1>3, <1>11 DEF OpenFails, CompareGone
<1>12. CASE ReadFails
  BY <1>2, <1>3, <1>12 DEF ReadFails
<1>13. CASE ReadRaises
  BY <1>4, <1>13 DEF ReadRaises, FileVersions, InFile
<1> QED
  BY <1>5, <1>6, <1>7, <1>8, <1>9, <1>10, <1>11, <1>12, <1>13

LEMMA OneVersionNext == TypeInv /\ OneVersion /\ [Next]_vars => OneVersion'
<1> SUFFICES ASSUME TypeInv, OneVersion, [Next]_vars PROVE OneVersion'
  OBVIOUS
<1> USE DEF tree, walk, scan
<1>1. StableMeansOneVersion /\ FileVersions
  BY DEF OneVersion
<1>2. CASE UNCHANGED vars
  BY <1>1, <1>2 DEF vars, OneVersion, FileVersions, StableMeansOneVersion, file
<1>3. ASSUME NEW p \in Nodes, NEW k \in Kinds, Rewrite(p, k) \/ Replace(p, k) PROVE OneVersion'
  <2>1. /\ pc' = pc /\ file' = file /\ before' = before /\ versions' = versions /\ chunk' = chunk
        /\ results' = results
    BY <1>3 DEF Rewrite, Replace, file
  <2>2. handle'.version = handle.version \/ (p = file /\ handle'.version = version'[file])
    BY <1>3 DEF Rewrite, Replace, TypeInv
  <2>3. /\ pc \in InFile => file \in Nodes
        /\ \A q \in Nodes : version[q] <= version'[q] /\ version[q] \in Nat /\ version'[q] \in Nat
    <3>1. entries \in Seq(EntryType) /\ (pc \in InFile => entries # <<>>)
      BY DEF TypeInv
    <3>2. entries # <<>> => Head(entries) \in EntryType
      BY <3>1, HeadTailProperties
    <3>3. TypeInv'
      BY TypeNext
    <3> QED
      BY <1>3, <3>1, <3>2, <3>3, VersionsGrow, NodesArePaths DEF EntryType, file, TypeInv
  <2>4. before \in Nat /\ handle.version \in Nat /\ \A v \in versions : v \in Nat
    BY DEF TypeInv
  <2>5. CASE pc \in InFile
    <3>1. version[file] <= version'[file] /\ version[file] \in Nat /\ version'[file] \in Nat
      BY <2>3, <2>5
    <3>2. before <= version[file] => before <= version'[file]
      BY <2>4, <3>1
    <3>3. \A v \in versions : v <= version[file] => v <= version'[file]
      BY <2>4, <3>1
    <3>4. before <= handle.version /\ handle.version <= version[file] /\ before <= version[file]
            => before <= handle'.version /\ handle'.version <= version'[file]
      BY <2>2, <2>4, <3>1
    <3>5. FileVersions'
      BY <1>1, <2>1, <3>2, <3>3, <3>4 DEF FileVersions
    <3> QED
      BY <1>1, <2>1, <3>5 DEF OneVersion, StableMeansOneVersion
  <2>6. CASE pc \notin InFile
    BY <1>1, <2>1, <2>6 DEF OneVersion, FileVersions, StableMeansOneVersion, InFile
  <2> QED
    BY <2>5, <2>6
<1>4. ASSUME pc' \notin InFile \/ pc' = "stat",
             results' = results \/ \E p, w : Yield(p, w)
      PROVE  OneVersion'
  <2>1. FileVersions'
    BY <1>4 DEF FileVersions, InFile
  <2>2. StableMeansOneVersion'
    BY <1>1, <1>4, YieldStable DEF StableMeansOneVersion
  <2> QED
    BY <2>1, <2>2 DEF OneVersion
<1>5. CASE \/ ListDirectory \/ Descend \/ Finish \/ KeepChild \/ PassOver \/ BeginFile
  BY <1>4, <1>5 DEF ListDirectory, Descend, Finish, KeepChild, PassOver, BeginFile, AtEntry, InFile
<1>6. CASE ListUnreadable \/ EntryFails \/ \E w \in Warnings : Skip(w)
  BY <1>4, <1>6 DEF ListUnreadable, EntryFails, Skip, AtEntry, InFile
<1> QED
  BY <1>2, <1>3, <1>5, <1>6, OneVersionFile DEF Next, Scan

\* A file that is not marked unstable was read from one version, from its first
\* character to its last, for any number of reads and changes and in whichever of
\* the two encodings.
THEOREM StableFilesHaveOneVersion == Spec => []StableMeansOneVersion
<1>1. Init => OneVersion
  BY DEF Init, OneVersion, FileVersions, StableMeansOneVersion
<1>2. OneVersion => StableMeansOneVersion
  BY DEF OneVersion
<1> QED
  BY <1>1, <1>2, TypeAlways, OneVersionNext, PTL DEF Spec
------------------------------------------------------------------------------
(* Nothing overlooked.  Of a path that nothing disturbs the walk knows the    *)
(* truth while it has it at hand, and once the walk is past it, it has been   *)
(* reported for what it is.                                                   *)

Steady(p) == Reached(p) /\ Undisturbed(p)

\* What was listed is still so, but for what was disturbed.
ListingHolds ==
    /\ \A e \in ToSet(entries) : e.path \notin touched => e.kind = kind[e.path] /\ e.kind # "absent"
    /\ \A d \in Stack \cup Kept : d \notin Hidden /\ (d \notin touched => kind[d] = "dir")
    /\ pc = "done" => directories = <<>>

\* So is what _scan_file has learnt of the file at hand.
FileIs(k) == kind[file] = k
ReadingHolds ==
    pc \in InFile =>
        /\ Visible(Head(entries)) /\ Head(entries).kind \in File /\ file \notin Unsupported
        /\ file \notin touched =>
              /\ pc # "stat" => before = version[file] /\ ~FileIs("huge")
              /\ pc \in {"read", "compare"} => handle.kind = kind[file]
              /\ encoding = "cp1252" => FileIs("legacy") \/ FileIs("broken")
              /\ pc = "compare" => \/ FileIs("utf8") /\ encoding = "utf-8-sig"
                                   \/ FileIs("legacy") /\ encoding = "cp1252"

\* The walk has yet to come to p.
Ahead(p) ==
    \/ \E q \in Listed : Below(p, q)
    \/ \E d \in Stack \cup Kept : Below(p, d) /\ d # p

Said(p) == {results[i].warnings : i \in {i \in 1..Len(results) : results[i].path = p}}

ToldSoFar == \A p \in Paths : Steady(p) /\ ~Ahead(p) => Said(p) = Expected(p)

\* A step of the scan leaves the tree alone, unless the device fails.
LEMMA QuietScan ==
    ASSUME Scan, ~\E p : IoError(p)
    PROVE  UNCHANGED tree
<1> USE DEF tree, walk, scan
<1>1. \A w : Rejected(w) => UNCHANGED tree
  BY DEF Rejected
<1>2. CASE ReadFails
  BY <1>1, <1>2 DEF ReadFails
<1>3. CASE ListUnreadable \/ EntryFails
  BY <1>3 DEF ListUnreadable, EntryFails
<1>4. CASE Stat \/ OpenFails \/ CompareGone
  BY <1>1, <1>4 DEF Stat, OpenFails, CompareGone
<1>5. CASE ListDirectory \/ Descend \/ Finish \/ (\E w \in Warnings : Skip(w))
  BY <1>5 DEF ListDirectory, Descend, Finish, Skip
<1>6. CASE KeepChild \/ PassOver \/ BeginFile \/ Open \/ Read \/ ReadWell \/ FallBack \/ ReadRaises
             \/ Compare
  BY <1>6 DEF KeepChild, PassOver, BeginFile, Open, Read, ReadWell, FallBack, ReadRaises, Compare
<1> QED
  BY <1>2, <1>3, <1>4, <1>5, <1>6 DEF Scan

\* What is not touched stays as it is, and what was touched stays so.
LEMMA TouchedChanges ==
    ASSUME TypeInv, [Next]_vars
    PROVE  /\ touched \subseteq touched'
           /\ \A q \in Nodes : q \notin touched' => kind'[q] = kind[q] /\ version'[q] = version[q]
<1> USE DEF tree, walk, scan
<1>1. CASE UNCHANGED vars
  BY <1>1 DEF vars
<1>2. ASSUME NEW p \in Nodes, NEW k \in Kinds, Rewrite(p, k)
      PROVE  /\ touched \subseteq touched'
             /\ \A q \in Nodes : q \notin touched' => kind'[q] = kind[q] /\ version'[q] = version[q]
  BY <1>2 DEF Rewrite, TypeInv
<1>3. ASSUME NEW p \in Nodes, NEW k \in Kinds, Replace(p, k)
      PROVE  /\ touched \subseteq touched'
             /\ \A q \in Nodes : q \notin touched' => kind'[q] = kind[q] /\ version'[q] = version[q]
  <2>1. Below(p, p)
    BY BelowOrder
  <2>2. \A q \in Nodes : q \notin touched' => ~Below(q, p)
    BY <1>3 DEF Replace
  <2> QED
    BY <1>3, <2>1, <2>2 DEF Replace
<1>4. CASE IoError(Last(directories)) \/ (AtEntry /\ IoError(Head(entries).path)) \/ IoError(file)
  BY <1>4 DEF IoError
<1>5. ASSUME Scan, ~\E p : IoError(p) PROVE UNCHANGED <<kind, version, touched>>
  BY <1>5, QuietScan
<1>6. ASSUME NEW p, IoError(p) PROVE touched \subseteq touched' /\ UNCHANGED <<kind, version>>
  BY <1>6 DEF IoError
<1> QED
  BY <1>1, <1>2, <1>3, <1>5, <1>6 DEF Next

LEMMA SteadyBefore ==
    ASSUME TypeInv, [Next]_vars, NEW p \in Paths, Steady(p)'
    PROVE  /\ Steady(p) /\ Expected(p)' = Expected(p)
           /\ \A d \in Nodes : Below(p, d) => d \notin touched /\ d \notin touched' /\ kind'[d] = kind[d]
<1>1. \A d \in Nodes : Below(p, d) => d \notin touched /\ d \notin touched' /\ kind'[d] = kind[d]
  BY TouchedChanges DEF Steady, Undisturbed
<1>2. p \in Nodes /\ Below(p, p) /\ Paths \subseteq Nodes
  BY BelowOrder, NodesArePaths
<1>3. Expected(p)' = Expected(p)
  BY <1>1, <1>2 DEF Expected
<1>4. Steady(p)
  BY <1>1, <1>2 DEF Steady, Reached, Undisturbed
<1> QED
  BY <1>1, <1>3, <1>4

LEMMA ExpectedIs ==
    ASSUME NEW p \in Paths
    PROVE  /\ kind[p] = "symlink" => Expected(p) = {{"symlink_skipped"}}
           /\ p \in Hidden /\ kind[p] \notin {"absent", "symlink"} =>
                 Expected(p) = {{"hidden_path_skipped"}}
           /\ kind[p] = "absent" => Expected(p) = {}
           /\ p \notin Hidden =>
                 /\ kind[p] \in {"dir", "special"} => Expected(p) = {}
                 /\ kind[p] \in File /\ p \in Unsupported => Expected(p) = {{"unsupported_file_skipped"}}
                 /\ kind[p] \in File /\ p \notin Unsupported => Expected(p) = {Reading[kind[p]]}
BY DEF Expected, File

\* A result that says what is at p, unless p was disturbed.
ReportsTruly(p) ==
    \E r \in ResultType :
        /\ r.path = p /\ results' = Append(results, r)
        /\ p \in touched' \/ (Expected(p) = {r.warnings} /\ (kind[p] # "dir" \/ p \in Hidden))

LEMMA YieldTruly ==
    ASSUME NEW p \in Nodes, NEW w \in SUBSET AllWarnings, Yield(p, w),
           p \in touched' \/ (Expected(p) = {w} /\ (kind[p] # "dir" \/ p \in Hidden))
    PROVE  ReportsTruly(p)
<1> DEFINE r == [path |-> p, warnings |-> w, scanned |-> FALSE, versions |-> {}]
<1>1. r \in ResultType /\ r.path = p /\ results' = Append(results, r) /\ r.warnings = w
  BY DEF ResultType, Yield
<1> HIDE DEF r
<1> QED
  BY <1>1 DEF ReportsTruly

\* What the entry at hand says, while nothing disturbed it.
LEMMA HeadHolds ==
    ASSUME TypeInv, ListingHolds, entries # <<>>
    PROVE  LET e == Head(entries)
           IN  /\ e \in EntryType /\ e.path \in Paths /\ e.path \in Nodes /\ e.kind \in AllKinds
               /\ e.path \notin touched => e.kind = kind[e.path] /\ e.kind # "absent"
<1>1. entries \in Seq(EntryType)
  BY DEF TypeInv
<1>2. Head(entries) \in EntryType /\ Head(entries) = entries[1] /\ 1 \in 1..Len(entries)
  <2>1. Len(entries) \in Nat \ {0}
    BY <1>1, EmptySeq
  <2> QED
    BY <1>1, <2>1, HeadTailProperties
<1>3. Head(entries) \in ToSet(entries)
  BY <1>1, <1>2 DEF ToSet
<1> QED
  BY <1>2, <1>3, NodesArePaths DEF EntryType, ListingHolds

LEMMA SkipsTruly ==
    ASSUME TypeInv, ListingHolds, [Next]_vars,
           NEW w \in Warnings, entries # <<>>, IsSkipped(Head(entries), w), Yield(Head(entries).path, {w})
    PROVE  ReportsTruly(Head(entries).path)
<1> DEFINE p == Head(entries).path
           k == Head(entries).kind
<1>1. /\ p \in Paths /\ p \in Nodes /\ k \in AllKinds /\ touched \subseteq touched'
      /\ p \notin touched => k = kind[p] /\ k # "absent"
  BY HeadHolds, TouchedChanges
<1>2. CASE p \in touched
  BY <1>1, <1>2, YieldTruly DEF AllWarnings
<1>3. CASE p \notin touched
  <2>1. k = kind[p] /\ k # "absent"
    BY <1>1, <1>3
  <2> HIDE DEF k
  <2>2. \/ k = "symlink" /\ w = "symlink_skipped"
        \/ k # "symlink" /\ p \in Hidden /\ w = "hidden_path_skipped"
        \/ k \in File /\ p \in Unsupported \ Hidden /\ w = "unsupported_file_skipped"
    BY DEF IsSkipped, k
  <2> HIDE DEF p
  <2>3. Expected(p) = {{w}} /\ (kind[p] # "dir" \/ p \in Hidden)
    <3>1. CASE k = "symlink" /\ w = "symlink_skipped"
      BY <1>1, <2>1, <3>1, ExpectedIs
    <3>2. CASE k # "symlink" /\ p \in Hidden /\ w = "hidden_path_skipped"
      BY <1>1, <2>1, <3>2, ExpectedIs
    <3>3. CASE k \in File /\ p \in Unsupported \ Hidden /\ w = "unsupported_file_skipped"
      BY <1>1, <2>1, <3>3, ExpectedIs DEF File
    <3> QED
      BY <2>2, <3>1, <3>2, <3>3
  <2>4. {w} \in SUBSET AllWarnings
    BY DEF AllWarnings
  <2> QED
    BY <1>1, <2>3, <2>4, YieldTruly DEF p
<1> QED
  BY <1>2, <1>3

\* The ways out of _scan_file.
LEMMA FileTruly ==
    ASSUME TypeInv, ListingHolds, ReadingHolds, [Next]_vars, pc \in InFile,
           NEW r \in ResultType, r.path = file, results' = Append(results, r),
           file \in touched' \/ Reading[kind[file]] = r.warnings
    PROVE  ReportsTruly(Head(entries).path)
<1>1. /\ file \in Paths /\ touched \subseteq touched' /\ entries # <<>>
      /\ file \notin touched => Head(entries).kind = kind[file]
  BY HeadHolds, TouchedChanges DEF file, TypeInv
<1>2. /\ file \notin Hidden /\ Head(entries).kind \in File /\ file \notin Unsupported
  BY DEF ReadingHolds, Visible, file
<1>3. ASSUME file \notin touched' PROVE Expected(file) = {r.warnings} /\ kind[file] # "dir"
  <2>1. kind[file] \in File
    BY <1>1, <1>2, <1>3
  <2>2. Expected(file) = {Reading[kind[file]]}
    BY <1>1, <1>2, <2>1, ExpectedIs
  <2>3. kind[file] # "dir"
    BY <2>1 DEF File
  <2>4. Reading[kind[file]] = r.warnings
    BY <1>3
  <2> QED
    BY <2>2, <2>3, <2>4
<1> QED
  BY <1>1, <1>3 DEF ReportsTruly, file

\* The steps of the walk again, with what each of them learns of the tree.
LEMMA HonestSteps ==
    ASSUME TypeInv, ListingHolds, ReadingHolds, [Next]_vars
    PROVE  \/ Opens /\ children = <<>> /\ kind[Last(directories)] = "dir"
           \/ GivesUp /\ Last(directories) \in touched'
           \/ Stacks
           \/ Keeps /\ Visible(Head(entries)) /\ Head(entries).kind = "dir"
           \/ Passes /\ Visible(Head(entries)) /\ Head(entries).kind = "special"
           \/ Settles /\ ReportsTruly(Head(entries).path)
           \/ Rests
<1> USE DEF walk, TakesEntry, NextEntry, AtEntry
<1>0. /\ pc = "walk" => entries = <<>> /\ children = <<>>
      /\ pc \in InFile => entries # <<>> /\ file \in Paths /\ file \in Nodes
      /\ entries # <<>> => Head(entries).path \in Nodes
      /\ directories # <<>> => Last(directories) \in Nodes /\ Last(directories) \in Stack
  <2>1. directories \in Seq(Nodes)
    BY DEF TypeInv
  <2>2. directories # <<>> => Last(directories) \in Nodes /\ Last(directories) \in Stack
    BY <2>1, FrontApart DEF Stack
  <2> QED
    BY <2>2, HeadHolds DEF TypeInv, file
<1>1. CASE UNCHANGED vars
  BY <1>1 DEF vars, Rests
<1>2. ASSUME NEW p \in Nodes, NEW k \in Kinds, Rewrite(p, k) \/ Replace(p, k) PROVE Rests
  BY <1>2 DEF Rewrite, Replace, Rests
<1>3. ASSUME ListDirectory PROVE Opens /\ children = <<>> /\ kind[Last(directories)] = "dir"
  BY <1>0, <1>3 DEF ListDirectory, Opens
<1>4. ASSUME ListUnreadable PROVE GivesUp /\ Last(directories) \in touched'
  <2>1. Reports(Last(directories))
    BY <1>0, <1>4, YieldReports DEF ListUnreadable, AllWarnings
  <2>2. Last(directories) \in touched'
    <3>1. kind[Last(directories)] # "dir" => Last(directories) \in touched
      BY <1>0, <1>4 DEF ListUnreadable, ListingHolds
    <3> QED
      BY <1>4, <3>1, TouchedChanges DEF ListUnreadable, IoError
  <2> QED
    BY <1>0, <1>4, <2>1, <2>2 DEF ListUnreadable, GivesUp
<1>5. CASE Descend
  BY <1>5 DEF Descend, Stacks
<1>6. CASE Finish \/ BeginFile \/ Open \/ Read \/ ReadWell \/ FallBack \/ ReadRaises
  BY <1>6 DEF Finish, BeginFile, Open, Read, ReadWell, FallBack, ReadRaises, Rests
<1>7. ASSUME NEW p \in Nodes, p = Head(entries).path, ReportsTruly(p), TakesEntry, children' = children
      PROVE  Settles /\ ReportsTruly(Head(entries).path)
  BY <1>7 DEF ReportsTruly, Reports, Settles
<1>8. ASSUME NEW w \in Warnings, Skip(w) PROVE Settles /\ ReportsTruly(Head(entries).path)
  <2>1. ReportsTruly(Head(entries).path)
    BY <1>8, SkipsTruly DEF Skip
  <2> QED
    BY <1>0, <1>7, <1>8, <2>1 DEF Skip
<1>9. ASSUME KeepChild PROVE Keeps /\ Visible(Head(entries)) /\ Head(entries).kind = "dir"
  BY <1>9 DEF KeepChild, Keeps
<1>10. ASSUME PassOver PROVE Passes /\ Visible(Head(entries)) /\ Head(entries).kind = "special"
  BY <1>10 DEF PassOver, Passes
<1>11. ASSUME EntryFails PROVE Settles /\ ReportsTruly(Head(entries).path)
  <2>1. ReportsTruly(Head(entries).path)
    BY <1>0, <1>11, YieldTruly DEF EntryFails, IoError, AllWarnings
  <2> QED
    BY <1>0, <1>7, <1>11, <2>1 DEF EntryFails
<1>12. ASSUME pc \in InFile, EndFile, NEW w \in AllWarnings, Yield(file, {w}),
              file \in touched' \/ Reading[kind[file]] = {w}
       PROVE  Settles /\ ReportsTruly(Head(entries).path)
  <2> DEFINE r == [path |-> file, warnings |-> {w}, scanned |-> FALSE, versions |-> {}]
  <2>1. r \in ResultType /\ r.path = file /\ r.warnings = {w} /\ results' = Append(results, r)
    BY <1>0, <1>12 DEF ResultType, Yield
  <2> HIDE DEF r
  <2>2. ReportsTruly(Head(entries).path)
    BY <1>12, <2>1, FileTruly
  <2> QED
    BY <1>0, <1>7, <1>12, <2>2 DEF EndFile
<1>13. ASSUME pc \in InFile, NEW w \in AllWarnings, Rejected(w),
              file \in touched' \/ Reading[kind[file]] = {w}
       PROVE  Settles /\ ReportsTruly(Head(entries).path)
  BY <1>12, <1>13 DEF Rejected
<1>14. ASSUME pc \in InFile, kind[file] \notin File PROVE file \in touched'
  <2>1. file \notin touched => Head(entries).kind = kind[file]
    BY <1>0, <1>14, HeadHolds DEF file
  <2>2. Head(entries).kind \in File
    BY <1>14 DEF ReadingHolds
  <2> QED
    BY <1>14, <2>1, <2>2, TouchedChanges
<1>15. CASE Stat
  <2>1. CASE kind[file] = "absent" /\ Rejected("file_unreadable")
    BY <1>13, <1>14, <1>15, <2>1 DEF Stat, InFile, File, AllWarnings
  <2>2. CASE kind[file] = "huge" /\ Rejected("file_too_large")
    <3>1. Reading[kind[file]] = {"file_too_large"}
      BY <2>2 DEF Reading
    <3> QED
      BY <1>13, <1>15, <2>2, <3>1 DEF Stat, InFile, AllWarnings
  <2> QED
    BY <1>15, <2>1, <2>2 DEF Stat, Rests
<1>16. CASE OpenFails \/ CompareGone
  BY <1>13, <1>14, <1>16 DEF OpenFails, CompareGone, InFile, File, AllWarnings
<1>17. CASE ReadFails
  <2>1. pc \in InFile /\ pc = "read"
    BY <1>17 DEF ReadFails, InFile
  <2>2. CASE IoError(file) /\ Yield(file, {"file_unreadable"}) /\ EndFile
    BY <1>12, <2>1, <2>2 DEF IoError, AllWarnings
  <2>3. file \in touched' \/ handle.kind = kind[file]
    BY <2>1, TouchedChanges DEF ReadingHolds
  <2>4. CASE handle.kind = "broken" /\ Rejected("file_unreadable")
    <3>1. file \in touched' \/ Reading[kind[file]] = {"file_unreadable"}
      BY <2>3, <2>4 DEF Reading
    <3> QED
      BY <1>13, <2>1, <2>4, <3>1 DEF AllWarnings
  <2>5. CASE handle.kind = "limit" /\ Rejected("limit_exceeded")
    <3>1. file \in touched' \/ Reading[kind[file]] = {"limit_exceeded"}
      BY <2>3, <2>5 DEF Reading
    <3> QED
      BY <1>13, <2>1, <2>5, <3>1 DEF AllWarnings
  <2> QED
    BY <1>17, <2>2, <2>4, <2>5 DEF ReadFails
<1>18. CASE Compare
  <2>0. pc \in InFile /\ pc = "compare"
    BY <1>18 DEF Compare, InFile
  <2>1. file \in Nodes /\ versions \in SUBSET Nat
    BY <1>0, <2>0 DEF TypeInv
  <2> DEFINE fallback == IF encoding = "cp1252" THEN {"encoding_fallback_cp1252"} ELSE {}
             unstable == IF version[file] # before THEN {"unstable_file"} ELSE {}
             r == [path |-> file, warnings |-> fallback \cup unstable,
                   scanned |-> TRUE, versions |-> versions]
  <2>2. /\ r \in ResultType /\ r.path = file /\ r.warnings = fallback \cup unstable
        /\ results' = Append(results, r)
    BY <1>18, <2>1 DEF ResultType, Compare, AllWarnings
  <2>3. file \in touched' \/ Reading[kind[file]] = fallback \cup unstable
    <3> SUFFICES ASSUME file \notin touched' PROVE Reading[kind[file]] = fallback \cup unstable
      OBVIOUS
    <3>1. /\ version[file] = before
          /\ \/ FileIs("utf8") /\ encoding = "utf-8-sig"
             \/ FileIs("legacy") /\ encoding = "cp1252"
      BY <2>0, TouchedChanges DEF ReadingHolds
    <3> QED
      BY <3>1 DEF FileIs, Reading
  <2> HIDE DEF r
  <2>4. ReportsTruly(Head(entries).path)
    BY <2>0, <2>2, <2>3, FileTruly
  <2> QED
    BY <1>0, <1>7, <1>18, <2>0, <2>4 DEF Compare, EndFile
<1> QED
  BY <1>1, <1>2, <1>3, <1>4, <1>5, <1>6, <1>8, <1>9, <1>10, <1>11, <1>15, <1>16, <1>17, <1>18
  DEF Next, Scan

\* What each kind of step does to what waits.
LEMMA Moves ==
    ASSUME TypeInv
    PROVE  /\ Stack \subseteq Nodes /\ Kept \subseteq Paths /\ Listed \subseteq Paths
           /\ Opens \/ GivesUp => Last(directories) \in Nodes /\ Stack = {Last(directories)} \cup Stack'
           /\ Opens => Kept' = {}
           /\ GivesUp => Kept' = Kept /\ Listed' = Listed
           /\ Stacks => Stack' = Stack \cup Kept /\ Kept' = {} /\ Listed' = Listed
           /\ TakesEntry => /\ Stack' = Stack
                            /\ ToSet(entries) = {Head(entries)} \cup ToSet(entries')
                            /\ Listed = {Head(entries).path} \cup Listed'
           /\ Keeps => Kept' = Kept \cup {Head(entries).path}
           /\ Passes \/ Settles => Kept' = Kept
           /\ Rests => Stack' = Stack /\ Kept' = Kept /\ Listed' = Listed
<1>1. /\ directories \in Seq(Nodes) /\ children \in Seq(Paths) /\ children \in Seq(Nodes)
      /\ entries \in Seq(EntryType)
  BY SeqMonotonic, NodesArePaths DEF TypeInv
<1>2. \A S : \A t \in Seq(S) : ToSet(t) \subseteq S
  BY LenProperties, ElementOfSeq DEF ToSet
<1>3. Stack \subseteq Nodes /\ Kept \subseteq Paths /\ Listed \subseteq Paths
  BY <1>1, <1>2, NamesOf DEF Stack, Kept, Listed
<1>4. Opens \/ GivesUp => Last(directories) \in Nodes /\ Stack = {Last(directories)} \cup Stack'
  BY <1>1, FrontApart DEF Opens, GivesUp, Stack
<1>5. Opens => Kept' = {}
  BY DEF Opens, Kept, ToSet
<1>6. GivesUp => Kept' = Kept /\ Listed' = Listed
  BY DEF GivesUp, Kept, Listed
<1>7. Stacks => Stack' = Stack \cup Kept /\ Kept' = {} /\ Listed' = Listed
  <2>1. Stacks => Kept' = {} /\ Listed' = Listed
    BY DEF Stacks, Kept, Listed, ToSet
  <2>2. Stacks => Stack' = Stack \cup Kept
    BY <1>1, ReverseApart DEF Stacks, Stack, Kept
  <2> QED
    BY <2>1, <2>2
<1>8. ASSUME TakesEntry
      PROVE  /\ Stack' = Stack
             /\ ToSet(entries) = {Head(entries)} \cup ToSet(entries')
             /\ Listed = {Head(entries).path} \cup Listed'
  <2>1. Stack' = Stack
    BY <1>8 DEF TakesEntry, Stack
  <2>2. ToSet(entries) = {Head(entries)} \cup ToSet(entries') /\ entries' \in Seq(EntryType)
    BY <1>1, <1>8, TailApart DEF TakesEntry
  <2>3. Listed = {e.path : e \in ToSet(entries)} /\ Listed' = {e.path : e \in ToSet(entries')}
    BY <1>1, <2>2, NamesOf DEF Listed
  <2> QED
    BY <2>1, <2>2, <2>3
<1>9. Keeps => Kept' = Kept \cup {Head(entries).path}
  <2> SUFFICES ASSUME Keeps PROVE Kept' = Kept \cup {Head(entries).path}
    OBVIOUS
  <2>1. Head(entries) \in EntryType
    BY <1>1, TailApart DEF Keeps, TakesEntry
  <2>2. Head(entries).path \in Paths
    BY <2>1 DEF EntryType
  <2> QED
    BY <1>1, <2>2, AppendApart DEF Keeps, Kept
<1>10. Passes \/ Settles => Kept' = Kept
  BY DEF Passes, Settles, Kept
<1>11. Rests => Stack' = Stack /\ Kept' = Kept /\ Listed' = Listed
  BY DEF Rests, walk, Stack, Kept, Listed
<1> QED
  BY <1>3, <1>4, <1>5, <1>6, <1>7, <1>8, <1>9, <1>10, <1>11

\* The walk is over only when nothing is left on the stack.
LEMMA DoneIsEmpty ==
    ASSUME TypeInv, pc = "done" => directories = <<>>, [Next]_vars
    PROVE  pc' = "done" => directories' = <<>>
<1> USE DEF tree, walk, scan, EndFile, Rejected, AtEntry, AllRead
<1>1. CASE UNCHANGED vars
  BY <1>1 DEF vars
<1>2. ASSUME NEW p \in Nodes, NEW k \in Kinds, Rewrite(p, k) \/ Replace(p, k) PROVE pc' # "done"
  BY <1>2 DEF Rewrite, Replace, Change
<1>3. CASE ListDirectory \/ ListUnreadable \/ Descend \/ Finish
  BY <1>3 DEF ListDirectory, ListUnreadable, Descend, Finish
<1>4. CASE (\E w \in Warnings : Skip(w)) \/ KeepChild \/ PassOver \/ EntryFails \/ BeginFile
  BY <1>4 DEF Skip, KeepChild, PassOver, EntryFails, BeginFile
<1>5. CASE Stat \/ Open \/ OpenFails \/ Read \/ ReadWell \/ FallBack
  BY <1>5 DEF Stat, Open, OpenFails, Read, ReadWell, FallBack
<1>6. CASE ReadFails \/ ReadRaises \/ Compare \/ CompareGone
  BY <1>6 DEF ReadFails, ReadRaises, Compare, CompareGone
<1> QED
  BY <1>1, <1>2, <1>3, <1>4, <1>5, <1>6 DEF Next, Scan

LEMMA ListingHoldsNext ==
    ASSUME TypeInv, ListingHolds, ReadingHolds, [Next]_vars
    PROVE  ListingHolds'
<1> DEFINE Fits(E) == \A e \in E : e.path \notin touched' => e.kind = kind'[e.path] /\ e.kind # "absent"
           Waits(D) == \A d \in D : d \notin Hidden /\ (d \notin touched' => kind'[d] = "dir")
<1>1. /\ touched \subseteq touched' /\ (pc' = "done" => directories' = <<>>)
      /\ \A q \in Nodes : q \notin touched' => kind'[q] = kind[q]
  BY TouchedChanges, DoneIsEmpty DEF ListingHolds
<1>2. \A e \in ToSet(entries) : e.path \in Nodes
  <2>1. entries \in Seq(EntryType)
    BY DEF TypeInv
  <2>2. \A e \in ToSet(entries) : e \in EntryType
    BY <2>1, LenProperties, ElementOfSeq DEF ToSet
  <2> QED
    BY <2>2, NodesArePaths DEF EntryType
<1>3. Fits(ToSet(entries))
  BY <1>1, <1>2 DEF ListingHolds
<1>4. Waits(Stack \cup Kept)
  <2>1. Stack \cup Kept \subseteq Nodes
    BY Moves, NodesArePaths
  <2> QED
    BY <1>1, <2>1 DEF ListingHolds
<1>5. ASSUME Fits(ToSet(entries')), Waits(Stack' \cup Kept') PROVE ListingHolds'
  BY <1>1, <1>5 DEF ListingHolds
<1>6. CASE Opens
  <2>1. Stack' \cup Kept' \subseteq Stack \cup Kept /\ Last(directories) \in Nodes
    BY <1>6, Moves
  <2>2. \A e \in ToSet(entries') : /\ e.path \in Nodes /\ e.kind = kind[e.path] /\ e.kind # "absent"
    <3>1. kind \in [Nodes -> AllKinds] /\ entries' = Listing(Last(directories))
      BY <1>6 DEF TypeInv, Opens
    <3>2. /\ entries' \in Seq(EntryType)
          /\ \A e \in ToSet(entries') : e.kind = kind[e.path] /\ e.kind # "absent"
      BY <2>1, <3>1, ListingFits
    <3>3. \A e \in ToSet(entries') : e \in EntryType
      BY <3>2, LenProperties, ElementOfSeq DEF ToSet
    <3> QED
      BY <3>2, <3>3, NodesArePaths DEF EntryType
  <2>3. Fits(ToSet(entries'))
    BY <1>1, <2>2
  <2> QED
    BY <1>4, <1>5, <2>1, <2>3
<1>7. CASE GivesUp \/ Stacks \/ Rests
  <2>1. Stack' \cup Kept' \subseteq Stack \cup Kept
    BY <1>7, Moves
  <2>2. ToSet(entries') = ToSet(entries)
    BY <1>7 DEF GivesUp, Stacks, Rests, walk
  <2> QED
    BY <1>3, <1>4, <1>5, <2>1, <2>2
<1>8. ASSUME TakesEntry PROVE Fits(ToSet(entries')) /\ Stack' = Stack
  BY <1>3, <1>8, Moves
<1>9. CASE Passes \/ Settles
  <2>1. Kept' = Kept /\ Stack' = Stack /\ TakesEntry
    BY <1>8, <1>9, Moves DEF Passes, Settles
  <2> QED
    BY <1>4, <1>5, <1>8, <2>1
<1>10. CASE Keeps /\ Visible(Head(entries)) /\ Head(entries).kind = "dir"
  <2> DEFINE p == Head(entries).path
  <2>1. Kept' = Kept \cup {p} /\ Stack' = Stack /\ TakesEntry
    BY <1>8, <1>10, Moves DEF Keeps
  <2>2. Head(entries) \in ToSet(entries)
    BY <2>1, Moves
  <2>3. p \notin Hidden /\ (p \notin touched' => kind'[p] = "dir")
    BY <1>3, <1>10, <2>2 DEF Visible
  <2> HIDE DEF p
  <2>4. Waits(Stack' \cup Kept')
    BY <1>4, <2>1, <2>3
  <2> QED
    BY <1>5, <1>8, <2>1, <2>4
<1> QED
  BY <1>6, <1>7, <1>9, <1>10, HonestSteps

LEMMA ReadingHoldsNext ==
    ASSUME TypeInv, ListingHolds, ReadingHolds, [Next]_vars
    PROVE  ReadingHolds'
<1> USE DEF tree, walk, scan
<1>1. touched \subseteq touched' /\ (pc \in InFile => file \in Nodes)
  BY HeadHolds, TouchedChanges DEF TypeInv, file
<1>2. ASSUME pc' \notin InFile PROVE ReadingHolds'
  BY <1>2 DEF ReadingHolds, InFile
<1>3. CASE ListDirectory \/ ListUnreadable \/ Descend \/ Finish \/ ReadRaises
  BY <1>2, <1>3 DEF ListDirectory, ListUnreadable, Descend, Finish, ReadRaises, InFile
<1>4. CASE (\E w \in Warnings : Skip(w)) \/ KeepChild \/ PassOver \/ EntryFails
  BY <1>2, <1>4 DEF Skip, KeepChild, PassOver, EntryFails, AtEntry, InFile
<1>5. ASSUME EndFile PROVE ReadingHolds'
  BY <1>2, <1>5 DEF EndFile, InFile
<1>6. CASE OpenFails \/ ReadFails \/ Compare \/ CompareGone
  BY <1>5, <1>6 DEF OpenFails, ReadFails, Compare, CompareGone, Rejected
<1>7. CASE BeginFile
  BY <1>7 DEF BeginFile, AtEntry, ReadingHolds, Visible, file, FileIs
<1>8. ASSUME UNCHANGED walk, pc \in InFile, \A q \in Nodes : q \notin touched' => UNCHANGED <<kind[q], version[q]>>
      PROVE  /\ file' = file /\ (file \notin touched' => kind'[file] = kind[file] /\ version'[file] = version[file])
             /\ Visible(Head(entries')) /\ Head(entries').kind \in File /\ file' \notin Unsupported
  BY <1>1, <1>8 DEF ReadingHolds, Visible, file
<1>9. CASE Stat
  <2>1. CASE Rejected("file_unreadable") \/ Rejected("file_too_large")
    BY <1>5, <2>1 DEF Rejected
  <2>2. CASE /\ kind[file] \notin {"absent", "huge"}
             /\ before' = version[file]
             /\ pc' = "open"
             /\ UNCHANGED <<tree, walk, encoding, handle, chunk, versions, results>>
    BY <1>8, <1>9, <2>2 DEF Stat, ReadingHolds, FileIs, InFile, file
  <2> QED
    BY <1>9, <2>1, <2>2 DEF Stat
<1>10. CASE Open
  BY <1>8, <1>10 DEF Open, ReadingHolds, FileIs, InFile, file
<1>11. CASE Read
  BY <1>8, <1>11 DEF Read, ReadingHolds, FileIs, InFile, file
<1>12. CASE ReadWell
  BY <1>8, <1>12 DEF ReadWell, AllRead, ReadingHolds, FileIs, InFile, file, TypeInv
<1>13. CASE FallBack
  BY <1>8, <1>13 DEF FallBack, AllRead, ReadingHolds, FileIs, InFile, file
<1>14. ASSUME UNCHANGED <<walk, before, encoding, pc>>, pc \in InFile,
              file \notin touched' => /\ kind'[file] = kind[file] /\ version'[file] = version[file]
                                     /\ handle'.kind = handle.kind
       PROVE  ReadingHolds'
  BY <1>1, <1>14 DEF ReadingHolds, Visible, FileIs, file
<1>15. ASSUME NEW p \in Nodes, NEW k \in Kinds, Rewrite(p, k) PROVE ReadingHolds'
  <2>1. CASE pc \in InFile
    <3>1. file \notin touched' => kind'[file] = kind[file] /\ version'[file] = version[file]
      BY <1>1, <2>1, TouchedChanges
    <3>2. file \notin touched' => handle' = handle
      BY <1>15 DEF Rewrite
    <3> QED
      BY <1>14, <1>15, <2>1, <3>1, <3>2 DEF Rewrite
  <2> QED
    BY <1>2, <1>15, <2>1 DEF Rewrite
<1>16. ASSUME NEW p \in Nodes, NEW k \in Kinds, Replace(p, k) PROVE ReadingHolds'
  <2>1. CASE pc \in InFile
    <3>1. file \notin touched' => kind'[file] = kind[file] /\ version'[file] = version[file]
      BY <1>1, <2>1, TouchedChanges
    <3>2. handle'.kind = handle.kind
      BY <1>16 DEF Replace, TypeInv
    <3> QED
      BY <1>14, <1>16, <2>1, <3>1, <3>2 DEF Replace
  <2> QED
    BY <1>2, <1>16, <2>1 DEF Replace
<1>17. CASE UNCHANGED vars
  <2>1. CASE pc \in InFile
    BY <1>14, <1>17, <2>1 DEF vars
  <2> QED
    BY <1>2, <1>17, <2>1 DEF vars
<1> QED
  BY <1>3, <1>4, <1>6, <1>7, <1>9, <1>10, <1>11, <1>12, <1>13, <1>15, <1>16, <1>17 DEF Next, Scan

\* What has been said of a path, after one more result.
LEMMA SaidMore ==
    ASSUME TypeInv, NEW p \in Nodes
    PROVE  /\ results' = results => Said(p)' = Said(p)
           /\ \A r \in ResultType : results' = Append(results, r) =>
                 /\ r.path # p => Said(p)' = Said(p)
                 /\ r.path = p => Said(p)' = Said(p) \cup {r.warnings}
           /\ (\A i \in 1..Len(results) : ~Below(results[i].path, p)) => Said(p) = {}
<1>1. results' = results => Said(p)' = Said(p)
  BY DEF Said
<1>2. ASSUME NEW r \in ResultType, results' = Append(results, r)
      PROVE  /\ r.path # p => Said(p)' = Said(p)
             /\ r.path = p => Said(p)' = Said(p) \cup {r.warnings}
  <2>1. /\ \A i \in 1..Len(results) : i \in 1..Len(results') /\ results'[i] = results[i]
        /\ Len(results') \in 1..Len(results') /\ results'[Len(results')] = r
        /\ \A i \in 1..Len(results') : i \in 1..Len(results) \/ i = Len(results')
    BY <1>2, Added
  <2> DEFINE I == {i \in 1..Len(results) : results[i].path = p}
             J == {i \in 1..Len(results') : results'[i].path = p}
  <2>2. Said(p) = {results[i].warnings : i \in I} /\ Said(p)' = {results'[i].warnings : i \in J}
    BY DEF Said
  <2>3. /\ \A i \in I : i \in J /\ results'[i] = results[i]
        /\ \A i \in J : i \in I \/ (i = Len(results') /\ results'[i] = r /\ r.path = p)
        /\ r.path = p => Len(results') \in J
    BY <2>1
  <2> HIDE DEF I, J
  <2> QED
    BY <2>1, <2>2, <2>3
<1>3. ASSUME \A i \in 1..Len(results) : ~Below(results[i].path, p) PROVE Said(p) = {}
  <2>1. \A i \in 1..Len(results) : results[i].path # p
    BY <1>3, BelowOrder
  <2> QED
    BY <2>1 DEF Said
<1> QED
  BY <1>1, <1>2, <1>3

\* A path that the walk is past stays as told, and one that it passes is told.
LEMMA ToldSoFarNext ==
    ASSUME TypeInv, Placed, ListingHolds, ReadingHolds, ToldSoFar, [Next]_vars
    PROVE  ToldSoFar'
<1> SUFFICES ASSUME NEW p \in Paths, Steady(p)', ~Ahead(p)' PROVE Said(p)' = Expected(p)'
  BY DEF ToldSoFar
<1>1. /\ Steady(p) /\ Expected(p)' = Expected(p) /\ p \in Nodes /\ Below(p, p)
      /\ \A d \in Nodes : Below(p, d) => d \notin touched /\ d \notin touched' /\ kind'[d] = kind[d]
      /\ \A d \in Paths : d # p /\ Below(p, d) => kind[d] = "dir" /\ d \notin Hidden
  BY SteadyBefore, NodesArePaths, BelowOrder DEF Steady, Reached
<1>2. /\ Stack \subseteq Nodes /\ Kept \subseteq Nodes /\ Listed \subseteq Nodes /\ Paths \subseteq Nodes
  BY Moves, NodesArePaths
<1>3. entries # <<>> => /\ Head(entries).path \in Paths /\ Head(entries).kind \in AllKinds
                        /\ Head(entries).path \notin touched => Head(entries).kind = kind[Head(entries).path]
  BY HeadHolds
<1>4. ~Ahead(p) => Said(p) = Expected(p)
  BY <1>1 DEF ToldSoFar
<1>5. \A q \in Stack \cup Kept \cup Listed : Below(p, q) => Said(p) = {}
  <2> SUFFICES ASSUME NEW q \in Stack \cup Kept \cup Listed, Below(p, q) PROVE Said(p) = {}
    OBVIOUS
  <2>1. \A i \in 1..Len(results) : results[i].path \in Nodes /\ ~Below(results[i].path, q)
    <3>1. results \in Seq(ResultType)
      BY DEF TypeInv
    <3>2. \A i \in 1..Len(results) : results[i] \in ResultType
      BY <3>1, ElementOfSeq
    <3>3. \A i \in 1..Len(results) : ~Below(results[i].path, q)
      BY DEF Placed
    <3> QED
      BY <3>2, <3>3 DEF ResultType
  <2>2. \A i \in 1..Len(results) : ~Below(results[i].path, p)
    BY <1>1, <1>2, <2>1, BelowOrder
  <2> QED
    BY <1>1, <2>2, SaidMore
<1>6. ASSUME results' = results, Said(p) = Expected(p) PROVE Said(p)' = Expected(p)'
  BY <1>1, <1>6, SaidMore
<1>7. CASE Opens /\ children = <<>>
  <2> DEFINE d == Last(directories)
  <2>1. d \in Nodes /\ d \in Stack /\ Stack = {d} \cup Stack' /\ Listed = {} /\ Kept = {}
        /\ results' = results
    <3>1. Listed = {} /\ Kept = {}
      BY <1>7 DEF Opens, Listed, Kept, Names, ToSet
    <3> QED
      BY <1>7, <3>1, Moves DEF Opens
  <2>2. CASE ~Ahead(p)
    BY <1>4, <1>6, <2>1, <2>2
  <2>3. CASE Ahead(p)
    <3>1. Below(p, d) /\ p # d
      BY <2>1, <2>3 DEF Ahead
    <3>2. PICK c \in Paths : Front(c) = d /\ Below(p, c)
      BY <2>1, <3>1, WayDown
    <3>3. kind[c] = "absent"
      <4> SUFFICES ASSUME kind[c] # "absent" PROVE FALSE
        OBVIOUS
      <4>1. kind \in [Nodes -> AllKinds] /\ entries' = Listing(d)
        BY <1>7 DEF Opens, TypeInv
      <4>2. entries' \in Seq(EntryType) /\ \E e \in ToSet(entries') : e.path = c
        BY <2>1, <3>2, <4>1, ListingFits
      <4>3. c \in Listed'
        BY <4>2, NamesOf DEF Listed
      <4> QED
        BY <3>2, <4>3 DEF Ahead
    <3>4. c = p
      BY <1>1, <3>2, <3>3
    <3>5. Expected(p) = {}
      BY <3>3, <3>4, ExpectedIs
    <3>6. Said(p) = {}
      BY <1>5, <2>1, <3>1
    <3> QED
      BY <1>6, <2>1, <3>5, <3>6
  <2> QED
    BY <2>2, <2>3
<1>8. CASE GivesUp /\ Last(directories) \in touched'
  <2> DEFINE d == Last(directories)
  <2>1. /\ d \in Nodes /\ Stack = {d} \cup Stack' /\ Kept' = Kept /\ Listed' = Listed
        /\ ~Below(p, d)
    BY <1>1, <1>8, Moves
  <2>2. ~Ahead(p)
    BY <2>1 DEF Ahead
  <2>3. PICK r \in ResultType : r.path = d /\ results' = Append(results, r)
    BY <1>8 DEF GivesUp, Reports
  <2>4. r.path # p
    BY <1>1, <2>1, <2>3
  <2>5. Said(p)' = Said(p)
    BY <1>1, <2>3, <2>4, SaidMore
  <2> QED
    BY <1>1, <1>4, <2>2, <2>5
<1>9. CASE Stacks
  <2>1. Stack' = Stack \cup Kept /\ Kept' = {} /\ Listed' = Listed /\ results' = results
    BY <1>9, Moves DEF Stacks
  <2>2. ~Ahead(p)
    BY <2>1 DEF Ahead
  <2> QED
    BY <1>4, <1>6, <2>1, <2>2
<1>10. CASE Rests
  <2>1. Stack' = Stack /\ Kept' = Kept /\ Listed' = Listed /\ results' = results
    BY <1>10, Moves DEF Rests
  <2>2. ~Ahead(p)
    BY <2>1 DEF Ahead
  <2> QED
    BY <1>4, <1>6, <2>1, <2>2
<1>11. ASSUME TakesEntry
       PROVE  LET e == Head(entries)
              IN  /\ e.path \in Paths /\ e.path \in Listed /\ Stack' = Stack
                  /\ Listed = {e.path} \cup Listed'
                  /\ Below(p, e.path) => e.kind = kind[e.path] /\ Said(p) = {}
                  /\ Below(p, e.path) /\ e.path # p => kind[e.path] = "dir" /\ e.path \notin Hidden
  <2>1. Stack' = Stack /\ Listed = {Head(entries).path} \cup Listed' /\ Head(entries).path \in Paths
    BY <1>3, <1>11, Moves DEF TakesEntry
  <2>2. Below(p, Head(entries).path) => Head(entries).path \notin touched
    BY <1>1, <1>2, <2>1
  <2> QED
    BY <1>1, <1>3, <1>5, <1>11, <2>1, <2>2 DEF TakesEntry
<1>12. CASE Keeps /\ Visible(Head(entries)) /\ Head(entries).kind = "dir"
  <2> DEFINE q == Head(entries).path
  <2>1. /\ TakesEntry /\ results' = results /\ Kept' = Kept \cup {q} /\ q \notin Hidden
    BY <1>12, Moves DEF Keeps, Visible
  <2>2. CASE Below(p, q)
    <3>1. p = q
      BY <2>1, <2>2 DEF Ahead
    <3>2. kind[p] = "dir" /\ p \notin Hidden /\ Said(p) = {}
      BY <1>11, <1>12, <2>1, <2>2, <3>1
    <3> QED
      BY <1>6, <2>1, <3>2, ExpectedIs
  <2>3. CASE ~Below(p, q)
    <3>1. ~Ahead(p)
      BY <1>11, <2>1, <2>3 DEF Ahead
    <3> QED
      BY <1>4, <1>6, <2>1, <3>1
  <2> QED
    BY <2>2, <2>3
<1>13. CASE Passes /\ Visible(Head(entries)) /\ Head(entries).kind = "special"
  <2> DEFINE q == Head(entries).path
  <2>1. /\ TakesEntry /\ results' = results /\ Kept' = Kept /\ q \notin Hidden
    BY <1>13, Moves DEF Passes, Visible
  <2>2. CASE Below(p, q)
    <3>1. kind[q] = "special" /\ Said(p) = {}
      BY <1>11, <1>13, <2>1, <2>2
    <3>2. p = q
      BY <1>11, <2>1, <2>2, <3>1
    <3> QED
      BY <1>6, <2>1, <3>1, <3>2, ExpectedIs
  <2>3. CASE ~Below(p, q)
    <3>1. ~Ahead(p)
      BY <1>11, <2>1, <2>3 DEF Ahead
    <3> QED
      BY <1>4, <1>6, <2>1, <3>1
  <2> QED
    BY <2>2, <2>3
<1>14. CASE Settles /\ ReportsTruly(Head(entries).path)
  <2> DEFINE q == Head(entries).path
  <2>1. TakesEntry /\ Kept' = Kept
    BY <1>14, Moves DEF Settles
  <2>2. PICK r \in ResultType :
           /\ r.path = q /\ results' = Append(results, r)
           /\ q \in touched' \/ (Expected(q) = {r.warnings} /\ (kind[q] # "dir" \/ q \in Hidden))
    BY <1>14 DEF ReportsTruly
  <2>3. CASE Below(p, q)
    <3>1. Expected(q) = {r.warnings} /\ (kind[q] # "dir" \/ q \in Hidden)
      BY <1>1, <1>2, <1>11, <2>1, <2>2, <2>3
    <3>2. p = q /\ Said(p) = {}
      BY <1>11, <2>1, <2>3, <3>1
    <3>3. Said(p)' = Said(p) \cup {r.warnings}
      BY <1>1, <2>2, <3>2, SaidMore
    <3>4. Expected(p) = {r.warnings}
      BY <3>1, <3>2
    <3> QED
      BY <1>1, <3>2, <3>3, <3>4
  <2>4. CASE ~Below(p, q)
    <3>1. ~Ahead(p)
      BY <1>11, <2>1, <2>4 DEF Ahead
    <3>2. r.path # p
      BY <1>1, <2>2, <2>4
    <3>3. Said(p)' = Said(p)
      BY <1>1, <2>2, <3>2, SaidMore
    <3> QED
      BY <1>1, <1>4, <3>1, <3>3
  <2> QED
    BY <2>3, <2>4
<1> QED
  BY <1>7, <1>8, <1>9, <1>10, <1>12, <1>13, <1>14, HonestSteps

LEMMA ToldInit == Init => ListingHolds /\ ReadingHolds /\ ToldSoFar
<1> SUFFICES ASSUME Init PROVE ListingHolds /\ ReadingHolds /\ ToldSoFar
  OBVIOUS
<1>1. Stack = {Root} /\ Kept = {} /\ ToSet(entries) = {}
  BY DEF Init, Stack, Kept, ToSet
<1>2. kind[Root] = "dir" /\ Root \notin Paths /\ Root \notin Hidden
  BY PathsAssumption DEF Init, Trees
<1>3. ListingHolds
  BY <1>1, <1>2 DEF Init, ListingHolds
<1>4. ReadingHolds
  BY DEF Init, ReadingHolds, InFile
<1>5. \A p \in Paths : Ahead(p)
  BY <1>1, <1>2, NodesArePaths, BelowOrder DEF Ahead
<1> QED
  BY <1>3, <1>4, <1>5 DEF ToldSoFar

LEMMA ToldAlways == Spec => [](TypeInv /\ ListingHolds /\ ReadingHolds /\ ToldSoFar)
<1>1. TypeInv /\ Placed /\ ListingHolds /\ ReadingHolds /\ ToldSoFar /\ [Next]_vars
         => ListingHolds' /\ ReadingHolds' /\ ToldSoFar'
  BY ListingHoldsNext, ReadingHoldsNext, ToldSoFarNext
<1> QED
  BY <1>1, ToldInit, PlacedAlways, PTL DEF Spec

\* Whatever changes around it, a path that stays as it was, in directories that
\* stay, is reported for what it is, once the walk is over: the walk is never past
\* a path without having said what was expected of it.
THEOREM NothingIsOverlooked == Spec => []NothingOverlooked
<1>1. TypeInv /\ ListingHolds /\ ToldSoFar => NothingOverlooked
  <2> SUFFICES ASSUME TypeInv, ListingHolds, ToldSoFar, pc = "done", NEW p \in Paths, Steady(p)
               PROVE  Said(p) = Expected(p)
    BY DEF NothingOverlooked, Steady, Said
  <2>1. directories = <<>> /\ entries = <<>> /\ children = <<>>
    BY DEF TypeInv, ListingHolds
  <2>2. ~Ahead(p)
    BY <2>1 DEF Ahead, Stack, Kept, Listed, Names, ToSet
  <2> QED
    BY <2>2 DEF ToldSoFar
<1> QED
  BY <1>1, ToldAlways, PTL

------------------------------------------------------------------------------
(* The order.  A path is met at an entry of its directory, or, as a          *)
(* directory, where its own entries would be; n says which, and is the       *)
(* length up to which the path then counts as inside.                        *)

AtEntryOf(p) == Len(p)
WithinOf(p)  == Len(p) + 1

\* p, met at m, goes before q, met at n.
Goes(p, m, q, n) ==
    \E l \in 1..Len(p) :
        /\ l <= Len(q)
        /\ \A i \in 1..l - 1 : p[i] = q[i]
        /\ p[l] # q[l]
        /\ \/ m <= l /\ n > l
           \/ (m > l <=> n > l) /\ p[l] < q[l]

Unlisted(r) == r.warnings = {"directory_unreadable"}
Met(r)      == IF Unlisted(r) THEN WithinOf(r.path) ELSE AtEntryOf(r.path)

LEMMA GoesPrecedes ==
    ASSUME NEW r \in ResultType, NEW s \in ResultType, Goes(r.path, Met(r), s.path, Met(s))
    PROVE  Precedes(r, s)
<1>1. /\ r.path \in Nodes /\ s.path \in Nodes
      /\ Len(r.path) \in Nat /\ Len(s.path) \in Nat
  BY NodesArePaths DEF ResultType
<1>2. PICK l \in 1..Len(r.path) :
         /\ l <= Len(s.path)
         /\ \A i \in 1..l - 1 : r.path[i] = s.path[i]
         /\ r.path[l] # s.path[l]
         /\ \/ Met(r) <= l /\ Met(s) > l
            \/ (Met(r) > l <=> Met(s) > l) /\ r.path[l] < s.path[l]
  BY DEF Goes
<1>3. l \in Nat /\ l <= Len(r.path) /\ l <= Len(s.path)
  BY <1>1, <1>2
<1>4. Met(r) > l <=> Inside(r, l)
  BY <1>1, <1>3 DEF Met, Unlisted, WithinOf, AtEntryOf, Inside
<1>5. Met(s) > l <=> Inside(s, l)
  BY <1>1, <1>3 DEF Met, Unlisted, WithinOf, AtEntryOf, Inside
<1>6. Met(r) \in Nat /\ (Met(r) <= l <=> ~(Met(r) > l))
  <2>1. Met(r) \in Nat
    BY <1>1 DEF Met, WithinOf, AtEntryOf
  <2> QED
    BY <1>3, <2>1
<1> QED
  BY <1>2, <1>4, <1>5, <1>6 DEF Precedes

\* What goes before or after a directory goes before or after what is in it.
LEMMA GoesInto ==
    ASSUME NEW d \in Nodes, NEW q \in Paths, Front(q) = d,
           NEW p \in Nodes, NEW m \in Nat, NEW n \in Nat, n >= Len(q)
    PROVE  /\ Goes(p, m, d, WithinOf(d)) => Goes(p, m, q, n)
           /\ Goes(d, WithinOf(d), p, m) => Goes(q, n, p, m)
<1>1. /\ Len(p) \in Nat /\ Len(d) \in Nat /\ Len(q) = Len(d) + 1
      /\ \A i \in 1..Len(d) : q[i] = d[i]
  <2>1. Len(q) = Len(d) + 1 /\ \A i \in 1..Len(q) - 1 : d[i] = q[i]
    BY BelowFront
  <2>2. Len(p) \in Nat /\ Len(d) \in Nat
    BY NodesArePaths
  <2>3. Len(q) - 1 = Len(d)
    BY <2>1, <2>2
  <2> QED
    BY <2>1, <2>2, <2>3
<1>2. ASSUME Goes(p, m, d, WithinOf(d)) PROVE Goes(p, m, q, n)
  <2>1. PICK l \in 1..Len(p) :
           /\ l <= Len(d)
           /\ \A i \in 1..l - 1 : p[i] = d[i]
           /\ p[l] # d[l]
           /\ \/ m <= l /\ Len(d) + 1 > l
              \/ (m > l <=> Len(d) + 1 > l) /\ p[l] < d[l]
    BY <1>2 DEF Goes, WithinOf
  <2>2. /\ l \in Nat /\ l \in 1..Len(d) /\ l <= Len(q) /\ n > l /\ Len(d) + 1 > l
        /\ \A i \in 1..l - 1 : i \in 1..Len(d)
    BY <1>1, <2>1
  <2>3. q[l] = d[l] /\ \A i \in 1..l - 1 : p[i] = q[i]
    BY <1>1, <2>1, <2>2
  <2> QED
    BY <2>1, <2>2, <2>3 DEF Goes
<1>3. ASSUME Goes(d, WithinOf(d), p, m) PROVE Goes(q, n, p, m)
  <2>1. PICK l \in 1..Len(d) :
           /\ l <= Len(p)
           /\ \A i \in 1..l - 1 : d[i] = p[i]
           /\ d[l] # p[l]
           /\ \/ Len(d) + 1 <= l /\ m > l
              \/ (Len(d) + 1 > l <=> m > l) /\ d[l] < p[l]
    BY <1>3 DEF Goes, WithinOf
  <2>2. /\ l \in Nat /\ l \in 1..Len(q) /\ n > l /\ Len(d) + 1 > l /\ ~(Len(d) + 1 <= l)
        /\ \A i \in 1..l - 1 : i \in 1..Len(d)
    BY <1>1, <2>1
  <2>3. q[l] = d[l] /\ \A i \in 1..l - 1 : q[i] = p[i]
    BY <1>1, <2>1, <2>2
  <2> QED
    BY <2>1, <2>2, <2>3 DEF Goes
<1> QED
  BY <1>2, <1>3

\* Two entries of a directory: met in the same way, the lesser name goes first; and
\* the entry goes before what is in a subdirectory.
ByLast == {e \in Paths \X Paths : Front(e[1]) = Front(e[2]) /\ Last(e[1]) < Last(e[2])}

LEMMA GoesBeside ==
    ASSUME NEW p \in Paths, NEW q \in Paths, Front(p) = Front(q), p # q
    PROVE  /\ Goes(p, AtEntryOf(p), q, WithinOf(q))
           /\ Last(p) < Last(q) => /\ Goes(p, AtEntryOf(p), q, AtEntryOf(q))
                                   /\ Goes(p, WithinOf(p), q, WithinOf(q))
<1> DEFINE l == Len(p)
<1>1. /\ l \in Nat /\ l > 0 /\ Len(q) = l /\ l \in 1..Len(p)
      /\ \A i \in 1..l - 1 : p[i] = q[i]
  <2>1. Len(p) = Len(q) /\ \A i \in 1..Len(p) - 1 : p[i] = q[i]
    BY BelowFront
  <2> QED
    BY <2>1, NodesArePaths
<1>2. p[l] # q[l] /\ Last(p) = p[l] /\ Last(q) = q[l]
  BY <1>1, Siblings DEF Last
<1> HIDE DEF l
<1>3. l <= l /\ l + 1 > l /\ ~(l > l)
  BY <1>1
<1>4. Len(p) = l
  BY DEF l
<1> QED
  BY <1>1, <1>2, <1>3, <1>4 DEF Goes, AtEntryOf, WithinOf

LEMMA ByLastGoes ==
    \A p, q \in Paths : <<p, q>> \in ByLast =>
        /\ Goes(p, AtEntryOf(p), q, WithinOf(q)) /\ Goes(p, AtEntryOf(p), q, AtEntryOf(q))
        /\ Goes(p, WithinOf(p), q, WithinOf(q)) /\ Goes(q, AtEntryOf(q), p, WithinOf(p))
<1> SUFFICES ASSUME NEW p \in Paths, NEW q \in Paths, <<p, q>> \in ByLast
             PROVE  /\ Goes(p, AtEntryOf(p), q, WithinOf(q)) /\ Goes(p, AtEntryOf(p), q, AtEntryOf(q))
                    /\ Goes(p, WithinOf(p), q, WithinOf(q)) /\ Goes(q, AtEntryOf(q), p, WithinOf(p))
  OBVIOUS
<1>1. Front(p) = Front(q) /\ Last(p) < Last(q)
  BY DEF ByLast
<1>2. p # q
  <2>1. p \in Seq(Nat) /\ Len(p) \in Nat /\ Len(p) > 0
    BY NodesArePaths
  <2>2. Len(p) \in 1..Len(p)
    BY <2>1
  <2>3. Last(p) \in Nat
    BY <2>1, <2>2, ElementOfSeq DEF Last
  <2> QED
    BY <1>1, <2>3
<1> QED
  BY <1>1, <1>2, GoesBeside

\* What is on the stack is in the order in which it will be popped, and so on.
StackOrder ==
    {e \in Nodes \X Nodes : Goes(e[2], WithinOf(e[2]), e[1], WithinOf(e[1]))}

Went(i, q, n) == Goes(results[i].path, Met(results[i]), q, n)

ReportsGo == \A i, k \in 1..Len(results) : i < k => Went(i, results[k].path, Met(results[k]))

RestIsLater ==
    \A i \in 1..Len(results) :
        /\ \A d \in Stack \cup Kept \cup Listed : Went(i, d, WithinOf(d))
        /\ \A q \in Listed : Went(i, q, AtEntryOf(q))

LinesRise ==
    /\ Rising(directories, StackOrder)
    /\ Rising(children, ByLast) /\ Rising(Names(entries), ByLast)
    /\ \A c \in Kept, q \in Listed : <<c, q>> \in ByLast

StackIsLater ==
    \A q \in Kept \cup Listed, d \in Stack :
        Goes(q, AtEntryOf(q), d, WithinOf(d)) /\ Goes(q, WithinOf(q), d, WithinOf(d))

Queued == ReportsGo /\ RestIsLater /\ LinesRise /\ StackIsLater

\* Of what a step reports: is it a directory that it cannot list, or an entry?
LEMMA ReportedAs ==
    ASSUME TypeInv, [Next]_vars, NEW r \in ResultType, results' = Append(results, r)
    PROVE  Unlisted(r) <=> entries = <<>>
<1> USE DEF tree, walk, scan
<1>0. results \in Seq(ResultType) /\ Len(results) \in Nat
  BY DEF TypeInv
<1>1. results' # results /\ \A x : results' = Append(results, x) => x = r
  <2>1. Append(results, r)[Len(results) + 1] = r /\ Len(Append(results, r)) = Len(results) + 1
    BY <1>0
  <2>2. \A x : Append(results, x)[Len(results) + 1] = x
    BY <1>0
  <2> QED
    BY <1>0, <2>1, <2>2
<1>2. ASSUME NEW q, NEW w, Yield(q, w) PROVE r.warnings = w
  BY <1>1, <1>2 DEF Yield
<1>3. /\ pc = "walk" => entries = <<>>
      /\ pc \in InFile => entries # <<>>
  BY DEF TypeInv
<1>4. CASE ListUnreadable
  BY <1>2, <1>3, <1>4 DEF ListUnreadable, Unlisted
<1>5. ASSUME NEW w \in Warnings, Skip(w) PROVE ~Unlisted(r) /\ entries # <<>>
  BY <1>2, <1>5 DEF Skip, AtEntry, Unlisted, Warnings
<1>6. CASE EntryFails
  BY <1>2, <1>6 DEF EntryFails, AtEntry, Unlisted
<1>7. CASE Stat \/ OpenFails \/ CompareGone
  BY <1>1, <1>2, <1>3, <1>7 DEF Stat, OpenFails, CompareGone, Rejected, InFile, Unlisted
<1>8. CASE ReadFails
  BY <1>2, <1>3, <1>8 DEF ReadFails, AllRead, Rejected, InFile, Unlisted
<1>9. CASE Compare
  <2> DEFINE fallback == IF encoding = "cp1252" THEN {"encoding_fallback_cp1252"} ELSE {}
             unstable == IF version[file] # before THEN {"unstable_file"} ELSE {}
             x == [path |-> file, warnings |-> fallback \cup unstable,
                   scanned |-> TRUE, versions |-> versions]
  <2>1. results' = Append(results, x) /\ entries # <<>>
    BY <1>3, <1>9 DEF Compare, InFile
  <2>2. "directory_unreadable" \notin x.warnings
    OBVIOUS
  <2> HIDE DEF x
  <2>3. r = x
    BY <1>1, <2>1
  <2> QED
    BY <2>1, <2>2, <2>3 DEF Unlisted
<1>10. ASSUME NEW p \in Nodes, NEW k \in Kinds, Rewrite(p, k) \/ Replace(p, k) PROVE FALSE
  BY <1>1, <1>10 DEF Rewrite, Replace
<1>11. CASE UNCHANGED vars
  BY <1>1, <1>11 DEF vars
<1>12. CASE ListDirectory \/ Descend \/ Finish \/ KeepChild \/ PassOver \/ BeginFile
  BY <1>1, <1>12 DEF ListDirectory, Descend, Finish, KeepChild, PassOver, BeginFile
<1>13. CASE Open \/ Read \/ ReadWell \/ FallBack \/ ReadRaises
  BY <1>1, <1>13 DEF Open, Read, ReadWell, FallBack, ReadRaises
<1> QED
  BY <1>4, <1>5, <1>6, <1>7, <1>8, <1>9, <1>10, <1>11, <1>12, <1>13 DEF Next, Scan

\* A report that goes after the others, and what it goes before.
LEMMA OneMoreGoes ==
    ASSUME TypeInv, ReportsGo, NEW r \in ResultType, results' = Append(results, r),
           \A i \in 1..Len(results) : Went(i, r.path, Met(r))
    PROVE  /\ ReportsGo'
           /\ \A q, n : /\ \A i \in 1..Len(results) : Went(i, q, n)
                        /\ Goes(r.path, Met(r), q, n)
                        => \A i \in 1..Len(results') : Goes(results'[i].path, Met(results'[i]), q, n)
<1>1. /\ Len(results) \in Nat /\ Len(results') = Len(results) + 1
      /\ \A i \in 1..Len(results) : results'[i] = results[i]
      /\ results'[Len(results')] = r
      /\ \A i \in 1..Len(results') : i \in 1..Len(results) \/ i = Len(results')
  BY Added
<1>2. ASSUME NEW i \in 1..Len(results'), NEW k \in 1..Len(results'), i < k
      PROVE  Goes(results'[i].path, Met(results'[i]), results'[k].path, Met(results'[k]))
  <2>1. i \in 1..Len(results) /\ results'[i] = results[i]
    BY <1>1, <1>2
  <2>2. CASE k \in 1..Len(results)
    BY <1>1, <1>2, <2>1, <2>2 DEF ReportsGo, Went
  <2>3. CASE k = Len(results')
    BY <1>1, <2>1, <2>3 DEF Went
  <2> QED
    BY <1>1, <2>2, <2>3
<1>3. ReportsGo'
  BY <1>2 DEF ReportsGo, Went
<1> QED
  BY <1>1, <1>3 DEF Went

\* The entries of a directory that was the last on the stack.
LEMMA QueuedOpens ==
    ASSUME TypeInv, Queued, Opens
    PROVE  Queued'
<1> DEFINE d == Last(directories)
<1>0. /\ directories \in Seq(Nodes) /\ directories # <<>> /\ directories' = Front(directories)
      /\ entries' = Listing(d) /\ children' = <<>> /\ results' = results
      /\ kind \in [Nodes -> AllKinds] /\ results \in Seq(ResultType)
  BY DEF TypeInv, Opens
<1>1. d \in Nodes /\ Stack = {d} \cup Stack' /\ Kept' = {} /\ Stack \subseteq Nodes
  BY Moves
<1> HIDE DEF d
<1>2. /\ entries' \in Seq(EntryType)
      /\ \A e \in ToSet(entries') : Front(e.path) = d
      /\ \A i, k \in DOMAIN entries' : i < k => Last(entries'[i].path) < Last(entries'[k].path)
  BY <1>0, <1>1, ListingFits
<1>3. /\ DOMAIN entries' = 1..Len(entries') /\ DOMAIN Names(entries)' = 1..Len(entries')
      /\ \A i \in 1..Len(entries') :
            /\ Names(entries)'[i] = entries'[i].path /\ entries'[i].path \in Paths
            /\ Front(entries'[i].path) = d
  <2>1. DOMAIN entries' = 1..Len(entries')
    BY <1>2, LenProperties
  <2>2. \A i \in 1..Len(entries') : entries'[i] \in EntryType /\ Front(entries'[i].path) = d
    BY <1>2, <2>1, ElementOfSeq DEF ToSet
  <2> QED
    BY <2>1, <2>2 DEF Names, EntryType
<1>4. \A q \in Listed' : q \in Paths /\ Front(q) = d /\ Len(q) \in Nat
  <2>1. \A q \in Listed' : q \in Paths /\ Front(q) = d
    BY <1>3 DEF Listed, ToSet
  <2> QED
    BY <2>1, NodesArePaths
<1>5. LinesRise'
  <2>1. Rising(directories', StackOrder)
    BY <1>0, FrontRising DEF Queued, LinesRise
  <2>2. Rising(children', ByLast)
    BY <1>0 DEF Rising
  <2>3. Rising(Names(entries)', ByLast)
    BY <1>2, <1>3 DEF Rising, ByLast
  <2> QED
    BY <1>1, <2>1, <2>2, <2>3 DEF LinesRise
<1>6. \A q \in Listed' : /\ AtEntryOf(q) \in Nat /\ AtEntryOf(q) >= Len(q)
                         /\ WithinOf(q) \in Nat /\ WithinOf(q) >= Len(q)
  BY <1>4 DEF AtEntryOf, WithinOf
<1>7. StackIsLater'
  <2>1. \A c \in Stack' : Goes(d, WithinOf(d), c, WithinOf(c))
    <3>1. \A c \in ToSet(directories') : <<c, d>> \in StackOrder
      BY <1>0, FrontRising DEF Queued, LinesRise, d
    <3> QED
      BY <3>1 DEF StackOrder, Stack
  <2>2. \A c \in Stack' : c \in Nodes /\ WithinOf(c) \in Nat
    BY <1>1, NodesArePaths DEF WithinOf
  <2>3. \A q \in Listed', c \in Stack' :
           Goes(q, AtEntryOf(q), c, WithinOf(c)) /\ Goes(q, WithinOf(q), c, WithinOf(c))
    BY <1>1, <1>4, <1>6, <2>1, <2>2, GoesInto
  <2> QED
    BY <1>1, <2>3 DEF StackIsLater
<1>8. RestIsLater'
  <2>1. \A i \in 1..Len(results) : /\ results[i].path \in Nodes /\ Met(results[i]) \in Nat
                                   /\ Goes(results[i].path, Met(results[i]), d, WithinOf(d))
    <3>1. \A i \in 1..Len(results) : results[i].path \in Nodes
      <4>1. \A i \in 1..Len(results) : results[i] \in ResultType
        BY <1>0, ElementOfSeq
      <4> QED
        BY <4>1 DEF ResultType
    <3>2. \A i \in 1..Len(results) : Met(results[i]) \in Nat
      BY <3>1, NodesArePaths DEF Met, WithinOf, AtEntryOf
    <3> QED
      BY <1>1, <3>1, <3>2 DEF Queued, RestIsLater, Went
  <2>2. \A i \in 1..Len(results), q \in Listed' :
           /\ Goes(results[i].path, Met(results[i]), q, WithinOf(q))
           /\ Goes(results[i].path, Met(results[i]), q, AtEntryOf(q))
    BY <1>1, <1>4, <1>6, <2>1, GoesInto
  <2>3. \A i \in 1..Len(results), c \in Stack' :
           Goes(results[i].path, Met(results[i]), c, WithinOf(c))
    BY <1>1 DEF Queued, RestIsLater, Went
  <2> QED
    BY <1>0, <1>1, <2>2, <2>3 DEF RestIsLater, Went
<1>9. ReportsGo'
  BY <1>0 DEF Queued, ReportsGo, Went
<1> QED
  BY <1>5, <1>7, <1>8, <1>9 DEF Queued

LEMMA QueuedGivesUp ==
    ASSUME TypeInv, Queued, GivesUp, [Next]_vars
    PROVE  Queued'
<1> DEFINE d == Last(directories)
<1>0. /\ directories \in Seq(Nodes) /\ directories # <<>> /\ directories' = Front(directories)
      /\ entries = <<>> /\ entries' = <<>> /\ children = <<>> /\ children' = <<>>
  BY DEF TypeInv, GivesUp
<1>1. d \in Nodes /\ Stack = {d} \cup Stack' /\ Kept' = {} /\ Listed' = {}
  <2>1. Kept' = {} /\ Listed' = {}
    BY <1>0 DEF Kept, Listed, Names, ToSet
  <2> QED
    BY <2>1, Moves
<1>2. PICK r \in ResultType : r.path = d /\ results' = Append(results, r)
  BY DEF GivesUp, Reports
<1> HIDE DEF d
<1>3. Met(r) = WithinOf(d)
  BY <1>0, <1>2, ReportedAs DEF Met
<1>4. \A i \in 1..Len(results) : Went(i, d, WithinOf(d))
  BY <1>1 DEF Queued, RestIsLater
<1>5. ReportsGo'
  BY <1>2, <1>3, <1>4, OneMoreGoes DEF Queued
<1>6. LinesRise'
  <2>1. Rising(directories', StackOrder)
    BY <1>0, FrontRising DEF Queued, LinesRise
  <2>2. Rising(children', ByLast) /\ Rising(Names(entries)', ByLast)
    BY <1>0 DEF Rising, Names
  <2> QED
    BY <1>1, <2>1, <2>2 DEF LinesRise
<1>7. RestIsLater'
  <2>1. \A c \in Stack' : Goes(d, WithinOf(d), c, WithinOf(c))
    <3>1. \A c \in ToSet(directories') : <<c, d>> \in StackOrder
      BY <1>0, FrontRising DEF Queued, LinesRise, d
    <3> QED
      BY <3>1 DEF StackOrder, Stack
  <2>2. \A c \in Stack' : \A i \in 1..Len(results) : Went(i, c, WithinOf(c))
    BY <1>1 DEF Queued, RestIsLater
  <2>3. \A c \in Stack' : \A i \in 1..Len(results') :
           Goes(results'[i].path, Met(results'[i]), c, WithinOf(c))
    BY <1>2, <1>3, <1>4, <2>1, <2>2, OneMoreGoes DEF Queued
  <2> QED
    BY <1>1, <2>3 DEF RestIsLater, Went
<1> QED
  BY <1>1, <1>5, <1>6, <1>7 DEF Queued, StackIsLater

\* The subdirectories, the last by name first.
LEMMA QueuedStacks ==
    ASSUME TypeInv, Queued, Stacks
    PROVE  Queued'
<1>0. /\ directories \in Seq(Nodes) /\ children \in Seq(Paths) /\ children \in Seq(Nodes)
      /\ directories' = directories \o Reverse(children)
      /\ entries' = entries /\ children' = <<>> /\ results' = results
  BY SeqMonotonic, NodesArePaths DEF TypeInv, Stacks
<1>1. /\ Stack' = Stack \cup Kept /\ Kept' = {} /\ Listed' = Listed
      /\ Stack \subseteq Nodes /\ Kept \subseteq Paths /\ Listed \subseteq Paths
  BY Moves
<1>2. \A p, q \in Paths : <<p, q>> \in ByLast =>
         Goes(p, WithinOf(p), q, WithinOf(q)) /\ p \in Nodes /\ q \in Nodes
  BY ByLastGoes, NodesArePaths
<1>3. Rising(directories', StackOrder)
  <2>1. \A i, k \in DOMAIN children : i < k => <<children[k], children[i]>> \in StackOrder
    <3>1. \A i \in DOMAIN children : children[i] \in Paths
      BY <1>0, LenProperties, ElementOfSeq
    <3> QED
      BY <1>2, <3>1 DEF Queued, LinesRise, Rising, StackOrder
  <2>2. \A p \in ToSet(directories), q \in ToSet(children) : <<p, q>> \in StackOrder
    BY <1>1, NodesArePaths DEF Queued, StackIsLater, StackOrder, Stack, Kept
  <2> QED
    BY <1>0, <2>1, <2>2, ReverseRising DEF Queued, LinesRise
<1>4. LinesRise'
  <2>1. Rising(children', ByLast)
    BY <1>0 DEF Rising
  <2> QED
    BY <1>0, <1>1, <1>3, <2>1 DEF Queued, LinesRise, Names
<1>5. Listed' = {}
  BY <1>1, NamesOf DEF Stacks, Listed, Names, ToSet
<1> QED
  BY <1>0, <1>1, <1>4, <1>5 DEF Queued, ReportsGo, RestIsLater, StackIsLater, Went

\* The next entry: kept, passed over or reported.
LEMMA QueuedTakes ==
    ASSUME TypeInv, Queued, Keeps \/ Passes \/ Settles, [Next]_vars
    PROVE  Queued'
<1> DEFINE e == Head(entries).path
<1>0. /\ entries \in Seq(EntryType) /\ entries # <<>> /\ entries' = Tail(entries)
      /\ directories' = directories /\ children \in Seq(Paths)
  BY DEF TypeInv, Keeps, Passes, Settles, TakesEntry
<1>1. /\ Stack' = Stack /\ Listed = {e} \cup Listed' /\ Listed \subseteq Paths
      /\ Kept \subseteq Paths /\ Kept' \subseteq Kept \cup {e}
  BY Moves DEF Keeps, Passes, Settles
<1>2. /\ Rising(Names(entries)', ByLast) /\ \A q \in Listed' : <<e, q>> \in ByLast
      /\ \A c \in Kept : <<c, e>> \in ByLast
  <2>1. /\ Names(entries) \in Seq(Nodes) /\ Names(entries) # <<>>
        /\ Head(Names(entries)) = e /\ Names(entries)' = Tail(Names(entries))
    <3>1. /\ Names(entries) \in Seq(Nodes) /\ Names(entries) # <<>>
          /\ Head(Names(entries)) = e /\ Names(Tail(entries)) = Tail(Names(entries))
      BY <1>0, NamesOf
    <3>2. Names(entries)' = Names(Tail(entries))
      BY <1>0 DEF Names
    <3> QED
      BY <3>1, <3>2
  <2>2. Rising(Names(entries), ByLast)
    BY DEF Queued, LinesRise
  <2>3. Rising(Names(entries)', ByLast) /\ \A q \in Listed' : <<e, q>> \in ByLast
    BY <2>1, <2>2, TailRising DEF Listed
  <2> QED
    BY <1>1, <2>3 DEF Queued, LinesRise
<1> HIDE DEF e
<1>3. Rising(children', ByLast)
  <2>1. CASE Keeps
    <3>1. children' = Append(children, e)
      BY <2>1 DEF Keeps, e
    <3>2. \A c \in ToSet(children) : <<c, e>> \in ByLast
      BY <1>2 DEF Kept
    <3> QED
      BY <1>0, <1>1, <3>1, <3>2, AppendRising DEF Queued, LinesRise
  <2>2. CASE Passes \/ Settles
    BY <2>2 DEF Passes, Settles, Queued, LinesRise
  <2> QED
    BY <2>1, <2>2
<1>4. LinesRise'
  <2>1. Rising(directories', StackOrder)
    BY <1>0 DEF Queued, LinesRise
  <2>2. \A c \in Kept', q \in Listed' : <<c, q>> \in ByLast
    BY <1>1, <1>2 DEF Queued, LinesRise
  <2> QED
    BY <1>2, <1>3, <2>1, <2>2 DEF LinesRise
<1>5. StackIsLater'
  BY <1>1 DEF Queued, StackIsLater
<1>6. CASE Keeps \/ Passes
  <2>1. results' = results
    BY <1>6 DEF Keeps, Passes
  <2>2. ReportsGo' /\ RestIsLater'
    BY <1>1, <2>1 DEF Queued, ReportsGo, RestIsLater, Went
  <2> QED
    BY <1>4, <1>5, <2>2 DEF Queued
<1>7. CASE Settles
  <2>1. PICK r \in ResultType : r.path = e /\ results' = Append(results, r)
    BY <1>7 DEF Settles, Reports, e
  <2>2. Met(r) = AtEntryOf(e)
    BY <1>0, <2>1, ReportedAs DEF Met
  <2>3. \A i \in 1..Len(results) : Went(i, e, AtEntryOf(e))
    BY <1>1 DEF Queued, RestIsLater
  <2>4. ReportsGo'
    BY <2>1, <2>2, <2>3, OneMoreGoes DEF Queued
  <2>5. Kept' = Kept
    BY <1>7, Moves
  <2>6. /\ \A d \in Stack' \cup Kept' \cup Listed' : Goes(e, AtEntryOf(e), d, WithinOf(d))
        /\ \A q \in Listed' : Goes(e, AtEntryOf(e), q, AtEntryOf(q))
    <3>1. \A d \in Stack' : Goes(e, AtEntryOf(e), d, WithinOf(d))
      BY <1>1 DEF Queued, StackIsLater
    <3>2. \A c \in Kept' : Goes(e, AtEntryOf(e), c, WithinOf(c))
      BY <1>1, <1>2, <2>5, ByLastGoes
    <3>3. \A q \in Listed' : /\ Goes(e, AtEntryOf(e), q, WithinOf(q))
                              /\ Goes(e, AtEntryOf(e), q, AtEntryOf(q))
      BY <1>1, <1>2, ByLastGoes
    <3> QED
      BY <3>1, <3>2, <3>3
  <2>7. /\ \A d \in Stack' \cup Kept' \cup Listed' : \A i \in 1..Len(results) : Went(i, d, WithinOf(d))
        /\ \A q \in Listed' : \A i \in 1..Len(results) : Went(i, q, AtEntryOf(q))
    BY <1>1, <2>5 DEF Queued, RestIsLater
  <2>8. /\ \A d \in Stack' \cup Kept' \cup Listed' : \A i \in 1..Len(results') :
              Goes(results'[i].path, Met(results'[i]), d, WithinOf(d))
        /\ \A q \in Listed' : \A i \in 1..Len(results') :
              Goes(results'[i].path, Met(results'[i]), q, AtEntryOf(q))
    BY <2>1, <2>2, <2>3, <2>6, <2>7, OneMoreGoes DEF Queued
  <2>9. RestIsLater'
    BY <2>8 DEF RestIsLater, Went
  <2> QED
    BY <1>4, <1>5, <2>4, <2>9 DEF Queued
<1> QED
  BY <1>6, <1>7

LEMMA QueuedNext == TypeInv /\ Queued /\ [Next]_vars => Queued'
<1> SUFFICES ASSUME TypeInv, Queued, [Next]_vars PROVE Queued'
  OBVIOUS
<1>1. CASE Rests
  <2>1. /\ results' = results /\ directories' = directories /\ children' = children
        /\ entries' = entries /\ Stack' = Stack /\ Kept' = Kept /\ Listed' = Listed
    BY <1>1, Moves DEF Rests, walk
  <2> QED
    BY <2>1 DEF Queued, ReportsGo, RestIsLater, LinesRise, StackIsLater, Went, Names
<1> QED
  BY <1>1, QueuedOpens, QueuedGivesUp, QueuedStacks, QueuedTakes, WalkSteps

LEMMA QueuedAlways == Spec => [](TypeInv /\ Queued)
<1>1. Init => Queued
  <2> SUFFICES ASSUME Init PROVE Queued
    OBVIOUS
  <2>1. /\ Len(results) = 0 /\ Kept = {} /\ Listed = {}
        /\ Len(children) = 0 /\ Len(entries) = 0 /\ DOMAIN directories = {1}
    BY DEF Init, Kept, Listed, Names, ToSet
  <2>2. LinesRise
    BY <2>1 DEF Init, LinesRise, Rising, Names
  <2> QED
    BY <2>1, <2>2 DEF Queued, ReportsGo, RestIsLater, StackIsLater
<1> QED
  BY <1>1, TypeAlways, QueuedNext, PTL DEF Spec

\* Results come in the order of the walk by name, whatever changes and fails meanwhile:
\* what waits is in that order, and every result goes before what waits.
THEOREM ReportsKeepOrder == Spec => []InOrder
<1>1. TypeInv /\ Queued => InOrder
  <2> SUFFICES ASSUME TypeInv, Queued, NEW i \in 1..Len(results), NEW k \in 1..Len(results), i < k
               PROVE  Precedes(results[i], results[k])
    BY DEF InOrder
  <2>1. results[i] \in ResultType /\ results[k] \in ResultType
    BY ElementOfSeq DEF TypeInv
  <2> QED
    BY <2>1, GoesPrecedes DEF Queued, ReportsGo, Went
<1> QED
  BY <1>1, QueuedAlways, PTL

------------------------------------------------------------------------------
(* Sequences put together, and their order.                                  *)

\* One sequence after another.
LEMMA ConcatRising ==
    ASSUME NEW S, NEW s \in Seq(S), NEW t \in Seq(S)
    PROVE  /\ s \o t \in Seq(S) /\ ToSet(s \o t) = ToSet(s) \cup ToSet(t)
           /\ \A R : /\ Rising(s, R) /\ Rising(t, R)
                     /\ \A x \in ToSet(s), y \in ToSet(t) : <<x, y>> \in R
                     => Rising(s \o t, R)
<1> DEFINE m == Len(s)
           n == Len(t)
           u == s \o t
<1>1. /\ m \in Nat /\ n \in Nat /\ DOMAIN s = 1..m /\ DOMAIN t = 1..n
      /\ u \in Seq(S) /\ Len(u) = m + n
      /\ \A i \in 1..m + n : u[i] = IF i <= m THEN s[i] ELSE t[i - m]
  BY LenProperties, ConcatProperties
<1>2. DOMAIN u = 1..m + n
  BY <1>1, LenProperties
<1> HIDE DEF m, n, u
<1>3. /\ \A i \in 1..m : i \in 1..m + n /\ u[i] = s[i]
      /\ \A i \in 1..n : m + i \in 1..m + n /\ u[m + i] = t[i]
      /\ \A i \in 1..m + n : i \in 1..m \/ (i - m \in 1..n /\ u[i] = t[i - m] /\ ~(i <= m))
  <2>1. \A i \in 1..m : i \in 1..m + n /\ i <= m
    BY <1>1
  <2>2. \A i \in 1..n : m + i \in 1..m + n /\ ~(m + i <= m) /\ m + i - m = i
    BY <1>1
  <2>3. \A i \in 1..m + n : i \in 1..m \/ (i - m \in 1..n /\ ~(i <= m))
    BY <1>1
  <2> QED
    BY <1>1, <2>1, <2>2, <2>3
<1>4. ToSet(u) = ToSet(s) \cup ToSet(t)
  <2>1. \A x \in ToSet(u) : x \in ToSet(s) \cup ToSet(t)
    BY <1>1, <1>2, <1>3 DEF ToSet
  <2>2. \A x \in ToSet(s) : x \in ToSet(u)
    BY <1>1, <1>2, <1>3 DEF ToSet
  <2>3. ASSUME NEW x \in ToSet(t) PROVE x \in ToSet(u)
    <3>1. PICK i \in 1..n : t[i] = x
      BY <1>1 DEF ToSet
    <3> QED
      BY <1>2, <1>3, <3>1 DEF ToSet
  <2> QED
    BY <2>1, <2>2, <2>3
<1>5. ASSUME NEW R, Rising(s, R), Rising(t, R),
             \A x \in ToSet(s), y \in ToSet(t) : <<x, y>> \in R
      PROVE  Rising(u, R)
  <2> SUFFICES ASSUME NEW i \in 1..m + n, NEW k \in 1..m + n, i < k PROVE <<u[i], u[k]>> \in R
    BY <1>2 DEF Rising
  <2>1. CASE k \in 1..m
    <3>1. i \in 1..m
      BY <1>1, <2>1
    <3> QED
      BY <1>1, <1>3, <1>5, <2>1, <3>1 DEF Rising
  <2>2. CASE i \in 1..m /\ k \notin 1..m
    <3>1. u[i] \in ToSet(s) /\ u[k] \in ToSet(t)
      BY <1>1, <1>3, <2>2 DEF ToSet
    <3> QED
      BY <1>5, <3>1
  <2>3. CASE i \notin 1..m
    <3>1. k \notin 1..m /\ i - m < k - m
      BY <1>1, <2>3
    <3>2. /\ i - m \in 1..n /\ k - m \in 1..n
          /\ u[i] = t[i - m] /\ u[k] = t[k - m]
      BY <1>3, <2>3, <3>1
    <3> QED
      BY <1>1, <1>5, <3>1, <3>2 DEF Rising
  <2> QED
    BY <2>1, <2>2, <2>3
<1> QED
  BY <1>1, <1>4, <1>5 DEF u

\* What FlattenSeq computes on its way.
Parts(s, f) == f = [i \in 1..Len(s) |-> IF i = 1 THEN s[i] ELSE f[i - 1] \o s[i]]

LEMMA FlattenParts ==
    ASSUME NEW S, NEW s \in Seq(S), Len(s) # 0
    PROVE  \E f : Parts(s, f) /\ FlattenSeq(s) = f[Len(s)]
<1> DEFINE Some(n) == \E f : f = [i \in 1..n |-> IF i = 1 THEN s[i] ELSE f[i - 1] \o s[i]]
           N == {n \in Nat : Some(n)}
<1>1. 0 \in N
  <2>1. [i \in 1..0 |-> s] = [i \in 1..0 |-> IF i = 1 THEN s[i] ELSE [k \in 1..0 |-> s][i - 1] \o s[i]]
    OBVIOUS
  <2>2. Some(0)
    BY <2>1
  <2> HIDE DEF Some
  <2> QED
    BY <2>2
<1>2. ASSUME NEW n \in Nat, n \in N PROVE n + 1 \in N
  <2>1. PICK f : f = [i \in 1..n |-> IF i = 1 THEN s[i] ELSE f[i - 1] \o s[i]]
    BY <1>2
  <2> DEFINE g == [i \in 1..n + 1 |-> IF i <= n THEN f[i] ELSE IF i = 1 THEN s[i] ELSE f[i - 1] \o s[i]]
  <2>2. \A i \in 1..n : f[i] = IF i = 1 THEN s[i] ELSE f[i - 1] \o s[i]
    BY <2>1
  <2>3. \A i \in 1..n : i \in 1..n + 1 /\ i <= n /\ g[i] = f[i]
    OBVIOUS
  <2>4. \A i \in 1..n + 1 : i # 1 => i - 1 \in 1..n
    OBVIOUS
  <2>5. \A i \in 1..n + 1 : i <= n => i \in 1..n
    OBVIOUS
  <2>6. \A i \in 1..n + 1 : g[i] = IF i = 1 THEN s[i] ELSE g[i - 1] \o s[i]
    BY <2>2, <2>3, <2>4, <2>5
  <2>7. g = [i \in 1..n + 1 |-> g[i]]
    OBVIOUS
  <2> HIDE DEF g
  <2>8. g = [i \in 1..n + 1 |-> IF i = 1 THEN s[i] ELSE g[i - 1] \o s[i]]
    BY <2>6, <2>7
  <2>9. Some(n + 1)
    BY <2>8
  <2> HIDE DEF Some
  <2> QED
    BY <2>9
<1>3. Nat \subseteq N
  <2> HIDE DEF N
  <2> QED
    BY <1>1, <1>2, AllNaturals
<1>4. \E f : Parts(s, f)
  <2>1. Len(s) \in Nat
    BY LenProperties
  <2>2. Some(Len(s))
    <3> HIDE DEF Some
    <3> QED
      BY <1>3, <2>1
  <2> QED
    BY <2>2 DEF Parts
<1>5. FlattenSeq(s) = (CHOOSE f : Parts(s, f))[Len(s)]
  BY DEF FlattenSeq, Parts
<1> QED
  BY <1>4, <1>5

\* Sequences that rise, each after the one before, rise when they are put together.
LEMMA FlattenRising ==
    ASSUME NEW T, NEW s \in Seq(Seq(T)), NEW R,
           \A i \in 1..Len(s) : Rising(s[i], R),
           \A i, k \in 1..Len(s) : i < k =>
              \A x \in ToSet(s[i]), y \in ToSet(s[k]) : <<x, y>> \in R
    PROVE  /\ FlattenSeq(s) \in Seq(T) /\ Rising(FlattenSeq(s), R)
           /\ ToSet(FlattenSeq(s)) = UNION {ToSet(s[i]) : i \in 1..Len(s)}
<1>1. CASE Len(s) = 0
  <2>1. s = <<>>
    BY <1>1, EmptySeq
  <2>2. FlattenSeq(s) = <<>>
    BY <1>1, <2>1 DEF FlattenSeq
  <2>3. <<>> \in Seq(T) /\ ToSet(<<>>) = {} /\ Rising(<<>>, R)
    BY EmptySeq DEF ToSet, Rising
  <2>4. 1..Len(s) = {}
    BY <1>1
  <2> QED
    BY <2>2, <2>3, <2>4
<1>2. CASE Len(s) # 0
  <2>0. /\ Len(s) \in Nat /\ Len(s) \in 1..Len(s)
        /\ \A i \in 1..Len(s) : s[i] \in Seq(T)
    <3>1. Len(s) \in Nat
      BY LenProperties
    <3> QED
      BY <1>2, <3>1, ElementOfSeq
  <2>1. PICK f : Parts(s, f) /\ FlattenSeq(s) = f[Len(s)]
    BY <1>2, FlattenParts
  <2>2. \A i \in 1..Len(s) : f[i] = IF i = 1 THEN s[i] ELSE f[i - 1] \o s[i]
    BY <2>1 DEF Parts
  <2> DEFINE Fine(n) == /\ f[n] \in Seq(T) /\ Rising(f[n], R)
                        /\ ToSet(f[n]) = UNION {ToSet(s[i]) : i \in 1..n}
             N == {n \in Nat : n \in 1..Len(s) => Fine(n)}
  <2>3. 0 \in N
    OBVIOUS
  <2>4. ASSUME NEW n \in Nat, n \in N PROVE n + 1 \in N
    <3> SUFFICES ASSUME n + 1 \in 1..Len(s) PROVE Fine(n + 1)
      <4> HIDE DEF Fine
      <4> QED
        OBVIOUS
    <3>1. /\ s[n + 1] \in Seq(T) /\ Rising(s[n + 1], R)
          /\ 1..n + 1 = 1..n \cup {n + 1} /\ n + 1 - 1 = n
          /\ \A i \in 1..n : i \in 1..Len(s) /\ i < n + 1
      BY <2>0
    <3>2. CASE n = 0
      <4>1. f[n + 1] = s[n + 1] /\ 1..n + 1 = {n + 1}
        BY <2>2, <3>2
      <4> QED
        BY <3>1, <4>1
    <3>3. CASE n # 0
      <4>1. n \in 1..Len(s) /\ n + 1 # 1
        BY <2>0, <3>3
      <4>2. Fine(n)
        <5> HIDE DEF Fine
        <5> QED
          BY <2>4, <4>1
      <4>3. f[n + 1] = f[n] \o s[n + 1]
        <5>1. f[n + 1] = IF n + 1 = 1 THEN s[n + 1] ELSE f[n + 1 - 1] \o s[n + 1]
          BY <2>2
        <5> QED
          BY <3>1, <4>1, <5>1
      <4>4. \A x \in ToSet(f[n]), y \in ToSet(s[n + 1]) : <<x, y>> \in R
        BY <3>1, <4>2
      <4>5. f[n + 1] \in Seq(T) /\ ToSet(f[n + 1]) = ToSet(f[n]) \cup ToSet(s[n + 1])
        BY <3>1, <4>2, <4>3, ConcatRising
      <4>6. Rising(f[n + 1], R)
        BY <3>1, <4>2, <4>3, <4>4, ConcatRising
      <4>7. UNION {ToSet(s[i]) : i \in 1..n + 1}
               = (UNION {ToSet(s[i]) : i \in 1..n}) \cup ToSet(s[n + 1])
        BY <3>1
      <4> QED
        BY <4>2, <4>5, <4>6, <4>7
    <3> QED
      BY <3>2, <3>3
  <2>5. Nat \subseteq N
    <3> HIDE DEF N
    <3> QED
      BY <2>3, <2>4, AllNaturals
  <2>6. Fine(Len(s))
    <3> HIDE DEF Fine
    <3> QED
      BY <2>0, <2>5
  <2> QED
    BY <2>1, <2>6
<1> QED
  BY <1>1, <1>2

\* Of two sequences with the same members, both in one order, neither has more.
LEMMA OneOrder ==
    ASSUME NEW T, NEW s \in Seq(T), NEW t \in Seq(T), NEW R,
           Rising(s, R), Rising(t, R), ToSet(s) = ToSet(t),
           \A x, y : <<x, y>> \in R => <<y, x>> \notin R
    PROVE  s = t
<1> DEFINE m == Len(s)
           n == Len(t)
<1>1. /\ m \in Nat /\ n \in Nat /\ DOMAIN s = 1..m /\ DOMAIN t = 1..n
  BY LenProperties
<1> HIDE DEF m, n
<1>2. /\ \A i, k \in 1..m : i < k => <<s[i], s[k]>> \in R /\ s[i] # s[k]
      /\ \A i, k \in 1..n : i < k => <<t[i], t[k]>> \in R /\ t[i] # t[k]
      /\ \A i \in 1..m : \E k \in 1..n : t[k] = s[i]
      /\ \A k \in 1..n : \E i \in 1..m : s[i] = t[k]
  <2>1. /\ \A i, k \in 1..m : i < k => <<s[i], s[k]>> \in R
        /\ \A i, k \in 1..n : i < k => <<t[i], t[k]>> \in R
    BY <1>1 DEF Rising
  <2>2. \A i \in 1..m : s[i] \in ToSet(t)
    BY <1>1 DEF ToSet
  <2>3. \A k \in 1..n : t[k] \in ToSet(s)
    BY <1>1 DEF ToSet
  <2>4. /\ \A i \in 1..m : \E k \in 1..n : t[k] = s[i]
        /\ \A k \in 1..n : \E i \in 1..m : s[i] = t[k]
    BY <1>1, <2>2, <2>3 DEF ToSet
  <2> QED
    BY <2>1, <2>4
\* They agree up to any length that one of them has.
<1> DEFINE Same(l) == (l <= m \/ l <= n) => l <= m /\ l <= n /\ s[l] = t[l]
           Agree(l) == \A k \in 1..l : Same(k)
           N == {l \in Nat : Agree(l)}
<1>3. 0 \in N
  OBVIOUS
<1>4. ASSUME NEW l \in Nat, l \in N PROVE l + 1 \in N
  <2>1. \A k \in 1..l : Same(k)
    <3> HIDE DEF Same
    <3> QED
      BY <1>4
  <2>2. ASSUME l + 1 <= m PROVE l + 1 <= n /\ s[l + 1] = t[l + 1]
    <3>1. PICK k \in 1..n : t[k] = s[l + 1]
      BY <1>1, <1>2, <2>2
    <3>2. ~(k < l + 1)
      <4> SUFFICES ASSUME k < l + 1 PROVE FALSE
        OBVIOUS
      <4>1. k \in 1..l /\ k <= m /\ k \in 1..m /\ l + 1 \in 1..m
        BY <1>1, <2>2
      <4>2. s[k] = t[k]
        BY <1>1, <2>1, <4>1
      <4> QED
        BY <1>2, <3>1, <4>1, <4>2
    <3>3. l + 1 \in 1..n /\ l + 1 \in 1..m /\ l + 1 <= n
      BY <1>1, <2>2, <3>2
    <3>4. PICK i \in 1..m : s[i] = t[l + 1]
      BY <1>2, <3>3
    <3>5. ~(i < l + 1)
      <4> SUFFICES ASSUME i < l + 1 PROVE FALSE
        OBVIOUS
      <4>1. i \in 1..l /\ i <= m /\ i <= n /\ i \in 1..n
        BY <1>1, <3>3
      <4>2. s[i] = t[i]
        BY <1>1, <2>1, <4>1
      <4> QED
        BY <1>2, <3>3, <3>4, <4>1, <4>2
    <3>6. CASE k = l + 1
      BY <3>1, <3>3, <3>6
    <3>7. CASE i = l + 1
      BY <3>4, <3>3, <3>7
    <3>8. CASE l + 1 < k /\ l + 1 < i
      <4>1. <<t[l + 1], t[k]>> \in R /\ <<s[l + 1], s[i]>> \in R
        BY <1>2, <3>3, <3>8
      <4> QED
        BY <3>1, <3>4, <4>1
    <3> QED
      BY <1>1, <3>2, <3>5, <3>6, <3>7, <3>8
  <2>3. ASSUME l + 1 <= n PROVE l + 1 <= m
    <3> SUFFICES ASSUME ~(l + 1 <= m) PROVE FALSE
      OBVIOUS
    <3>1. l + 1 \in 1..n /\ m <= l
      BY <1>1, <2>3
    <3>2. PICK i \in 1..m : s[i] = t[l + 1]
      BY <1>2, <3>1
    <3>3. i \in 1..l /\ i <= m /\ i \in 1..n /\ i < l + 1
      BY <1>1, <2>3, <3>1
    <3>4. s[i] = t[i]
      BY <1>1, <2>1, <3>3
    <3> QED
      BY <1>2, <3>1, <3>2, <3>3, <3>4
  <2>4. Same(l + 1)
    BY <2>2, <2>3
  <2>5. \A k \in 1..l + 1 : k \in 1..l \/ k = l + 1
    OBVIOUS
  <2>6. Agree(l + 1) /\ l + 1 \in Nat
    <3> HIDE DEF Same
    <3> QED
      BY <2>1, <2>4, <2>5
  <2> HIDE DEF Agree
  <2> QED
    BY <2>6
<1>5. Nat \subseteq N
  <2> HIDE DEF N
  <2> QED
    BY <1>3, <1>4, AllNaturals
<1>6. Agree(m) /\ Agree(n)
  <2> HIDE DEF Agree
  <2> QED
    BY <1>1, <1>5
<1>7. m = n
  BY <1>1, <1>6
<1>8. \A i \in 1..m : s[i] = t[i]
  BY <1>1, <1>6
<1> QED
  BY <1>7, <1>8, SeqEqual DEF m, n

------------------------------------------------------------------------------
(* The walk by name.  The recursive walk exists, because paths have an end,  *)
(* and its lines have one order.  What an undisturbed scan has reported are  *)
(* the same lines in the same order.                                         *)

\* No path is longer than some number.
LEMMA Depth == \E m \in Nat : \A p \in Nodes : Len(p) <= m
<1> DEFINE Bounded(T) == \E m \in Nat : \A p \in T : Len(p) <= m
           N == {n \in Nat : \A T \in SUBSET Nodes :
                                IsFiniteSet(T) /\ Cardinality(T) = n => Bounded(T)}
<1>1. 0 \in N
  <2>1. \A T \in SUBSET Nodes : IsFiniteSet(T) /\ Cardinality(T) = 0 => T = {}
    BY FS_EmptySet
  <2>2. Bounded({})
    OBVIOUS
  <2> HIDE DEF Bounded
  <2> QED
    BY <2>1, <2>2
<1>2. ASSUME NEW n \in Nat, n \in N PROVE n + 1 \in N
  <2> SUFFICES ASSUME NEW T \in SUBSET Nodes, IsFiniteSet(T), Cardinality(T) = n + 1
               PROVE  Bounded(T)
    <3> HIDE DEF Bounded
    <3> QED
      OBVIOUS
  <2>1. T # {}
    BY FS_EmptySet
  <2>2. PICK p \in T : TRUE
    BY <2>1
  <2>3. IsFiniteSet(T \ {p}) /\ Cardinality(T \ {p}) = n
    BY <2>2, FS_RemoveElement
  <2>4. Bounded(T \ {p})
    <3> HIDE DEF Bounded
    <3> QED
      BY <1>2, <2>3
  <2>5. PICK m \in Nat : \A q \in T \ {p} : Len(q) <= m
    BY <2>4
  <2>6. \A q \in T : Len(q) \in Nat
    BY NodesArePaths
  <2>7. m + Len(p) \in Nat /\ \A q \in T : Len(q) <= m + Len(p)
    BY <2>5, <2>6
  <2> QED
    BY <2>7
<1>3. Nat \subseteq N
  <2> HIDE DEF N
  <2> QED
    BY <1>1, <1>2, AllNaturals
<1>4. IsFiniteSet(Nodes) /\ Cardinality(Nodes) \in Nat
  BY PathsAssumption, FS_AddElement, FS_CardinalityType DEF Nodes
<1>5. Bounded(Nodes)
  <2> HIDE DEF Bounded
  <2> QED
    BY <1>3, <1>4
<1> QED
  BY <1>5

\* The entries of d by name, whether there is anything at them or not.
Entries(d) == ByName({p \in Paths : Front(p) = d})

Opened(p) == kind[p] = "dir" /\ p \notin Hidden

\* What is reported of p itself, and of d when f gives what its directories report.
Own(p) == SetToSeq({<<p, w>> : w \in Expected(p)})
Line(f, d) ==
    FlattenSeq([i \in 1..Len(Entries(d)) |-> Own(Entries(d)[i])])
    \o FlattenSeq([i \in 1..Len(Entries(d)) |->
                     IF Opened(Entries(d)[i]) THEN f[Entries(d)[i]] ELSE <<>>])

\* There is one for each path in d, by name.
LEMMA EntriesAre ==
    ASSUME NEW d \in Nodes
    PROVE  \E n \in Nat :
              /\ Entries(d) \in [1..n -> Paths] /\ Len(Entries(d)) = n
              /\ \A i \in 1..n : Front(Entries(d)[i]) = d /\ Len(Entries(d)[i]) = Len(d) + 1
              /\ \A p \in Paths : Front(p) = d => \E i \in 1..n : Entries(d)[i] = p
              /\ \A i, k \in 1..n : i < k => Last(Entries(d)[i]) < Last(Entries(d)[k])
<1> DEFINE S == {p \in Paths : Front(p) = d}
           n == Cardinality(S)
<1>1. S \in SUBSET Paths /\ n \in Nat
  <2>1. S \in SUBSET Paths
    OBVIOUS
  <2> HIDE DEF S
  <2> QED
    BY <2>1, PathsAssumption, FS_Subset, FS_CardinalityType
<1>2. Sorted(Entries(d), S)
  <2>1. Sorted(ByName(S), S)
    <3>1. \A p, q \in S : Front(p) = Front(q)
      OBVIOUS
    <3> HIDE DEF S
    <3> QED
      BY <1>1, <3>1, ByNameSorts
  <2> QED
    BY <2>1 DEF Entries
<1>3. \A p \in S : p \in Paths /\ Front(p) = d /\ Len(p) = Len(d) + 1
  BY BelowFront
<1>4. \A p \in Paths : Front(p) = d => p \in S
  OBVIOUS
<1> DEFINE s == Entries(d)
<1> HIDE DEF S, n, s
<1>5. /\ s \in [1..n -> S] /\ DOMAIN s = 1..n
      /\ \A p \in S : \E i \in 1..n : s[i] = p
      /\ \A i, k \in 1..n : i < k => Last(s[i]) < Last(s[k])
  BY <1>2 DEF Sorted, n, s
<1>6. Len(s) = n
  BY <1>1, <1>5
<1>7. s \in [1..n -> Paths] /\ \A i \in 1..n : Front(s[i]) = d /\ Len(s[i]) = Len(d) + 1
  BY <1>3, <1>5
<1>8. \A p \in Paths : Front(p) = d => \E i \in 1..n : s[i] = p
  BY <1>4, <1>5
<1> QED
  BY <1>1, <1>5, <1>6, <1>7, <1>8 DEF s

\* For d only what f gives one name further down matters.
LEMMA LineNeeds ==
    ASSUME NEW d \in Nodes, NEW f, NEW g, \A p \in Paths : Len(p) = Len(d) + 1 => f[p] = g[p]
    PROVE  Line(f, d) = Line(g, d)
<1>1. PICK n \in Nat :
         /\ Entries(d) \in [1..n -> Paths] /\ Len(Entries(d)) = n
         /\ \A i \in 1..n : Len(Entries(d)[i]) = Len(d) + 1
  BY EntriesAre
<1>2. \A i \in 1..n : f[Entries(d)[i]] = g[Entries(d)[i]]
  BY <1>1
<1>3. [i \in 1..n |-> IF Opened(Entries(d)[i]) THEN f[Entries(d)[i]] ELSE <<>>]
         = [i \in 1..n |-> IF Opened(Entries(d)[i]) THEN g[Entries(d)[i]] ELSE <<>>]
  BY <1>2
<1> QED
  BY <1>1, <1>3 DEF Line

\* There is such a walk: the directories below a depth have theirs, whatever the depth.
LEMMA WalkUnfolds == \A d \in Nodes : Walk[d] = Line(Walk, d)
<1>1. PICK m \in Nat : \A p \in Nodes : Len(p) <= m
  BY Depth
<1> DEFINE Deep(n) == {d \in Nodes : Len(d) + n > m}
           Some(n) == \E f : f = [d \in Deep(n) |-> Line(f, d)]
           N == {n \in Nat : Some(n)}
<1>0. \A p \in Nodes : Len(p) \in Nat
  BY NodesArePaths
<1>2. 0 \in N
  <2>1. Deep(0) = {}
    BY <1>0, <1>1
  <2>2. [d \in {} |-> d] = [d \in {} |-> Line([e \in {} |-> e], d)]
    OBVIOUS
  <2> HIDE DEF Deep
  <2>3. Some(0)
    BY <2>1, <2>2
  <2> HIDE DEF Some
  <2> QED
    BY <2>3
<1>3. ASSUME NEW n \in Nat, n \in N PROVE n + 1 \in N
  <2>1. Some(n)
    <3> HIDE DEF Some
    <3> QED
      BY <1>3
  <2>2. PICK f : f = [d \in Deep(n) |-> Line(f, d)]
    BY <2>1
  <2> DEFINE g == [d \in Deep(n + 1) |-> Line(f, d)]
  <2>3. Deep(n) \subseteq Deep(n + 1) /\ Deep(n + 1) \subseteq Nodes
    BY <1>0
  <2>4. \A d \in Deep(n + 1) : \A p \in Paths : Len(p) = Len(d) + 1 => p \in Deep(n)
    BY <1>0, NodesArePaths
  <2> HIDE DEF Deep
  <2>5. \A p \in Deep(n) : g[p] = f[p]
    BY <2>2, <2>3
  <2>6. \A d \in Deep(n + 1) : Line(f, d) = Line(g, d)
    <3> SUFFICES ASSUME NEW d \in Deep(n + 1) PROVE Line(f, d) = Line(g, d)
      OBVIOUS
    <3>1. \A p \in Paths : Len(p) = Len(d) + 1 => f[p] = g[p]
      BY <2>4, <2>5
    <3>2. d \in Nodes
      BY <2>3
    <3> HIDE DEF g
    <3> QED
      BY <3>1, <3>2, LineNeeds
  <2>7. g = [d \in Deep(n + 1) |-> Line(g, d)]
    <3> DEFINE h == g
    <3>1. \A d \in Deep(n + 1) : Line(f, d) = Line(h, d)
      BY <2>6
    <3>2. h = [d \in Deep(n + 1) |-> Line(f, d)]
      OBVIOUS
    <3> HIDE DEF h
    <3>3. h = [d \in Deep(n + 1) |-> Line(h, d)]
      BY <3>1, <3>2
    <3> QED
      BY <3>3 DEF h
  <2> HIDE DEF g
  <2>8. Some(n + 1)
    BY <2>7
  <2> HIDE DEF Some
  <2> QED
    BY <2>8
<1>4. Nat \subseteq N
  <2> HIDE DEF N
  <2> QED
    BY <1>2, <1>3, AllNaturals
<1>5. Some(m + 1)
  <2> HIDE DEF Some
  <2> QED
    BY <1>4
<1>6. Deep(m + 1) = Nodes
  BY <1>0
<1> HIDE DEF Deep
<1>7. \E f : f = [d \in Nodes |-> Line(f, d)]
  BY <1>5, <1>6
<1>8. Walk = CHOOSE f : f = [d \in Nodes |-> Line(f, d)]
  BY DEF Walk, Line, Entries, Own, Opened
<1>9. Walk = [d \in Nodes |-> Line(Walk, d)]
  BY <1>7, <1>8
<1> QED
  BY <1>9

\* The order of the lines of a walk: those of entries where the entries are met.
Pair         == Paths \X SUBSET AllWarnings
Sooner(p, q) == Goes(p, AtEntryOf(p), q, AtEntryOf(q))
LineOrder    == {e \in Pair \X Pair : Sooner(e[1][1], e[2][1])}

\* Of two paths not both go before the other.
LEMMA SoonerIsOneWay == \A p, q \in Nodes : Sooner(p, q) => ~Sooner(q, p)
<1> SUFFICES ASSUME NEW p \in Nodes, NEW q \in Nodes, Sooner(p, q), Sooner(q, p) PROVE FALSE
  OBVIOUS
<1>0. Len(p) \in Nat /\ Len(q) \in Nat /\ p \in Seq(Nat) /\ q \in Seq(Nat)
  BY NodesArePaths
<1>1. PICK l \in 1..Len(p) :
         /\ l <= Len(q)
         /\ \A i \in 1..l - 1 : p[i] = q[i]
         /\ p[l] # q[l]
         /\ \/ Len(p) <= l /\ Len(q) > l
            \/ (Len(p) > l <=> Len(q) > l) /\ p[l] < q[l]
  BY DEF Sooner, Goes, AtEntryOf
<1>2. PICK k \in 1..Len(q) :
         /\ k <= Len(p)
         /\ \A i \in 1..k - 1 : q[i] = p[i]
         /\ q[k] # p[k]
         /\ \/ Len(q) <= k /\ Len(p) > k
            \/ (Len(q) > k <=> Len(p) > k) /\ q[k] < p[k]
  BY DEF Sooner, Goes, AtEntryOf
<1>3. l \in Nat /\ k \in Nat /\ l >= 1 /\ k >= 1
  BY <1>0
<1>4. ~(l < k) /\ ~(k < l)
  <2>1. l < k => l \in 1..k - 1
    BY <1>3
  <2>2. k < l => k \in 1..l - 1
    BY <1>3
  <2> QED
    BY <1>1, <1>2, <2>1, <2>2
<1>5. l = k
  BY <1>3, <1>4
<1>6. l \in 1..Len(q)
  BY <1>5
<1>7. p[l] \in Nat /\ q[l] \in Nat
  BY <1>0, <1>1, <1>6, ElementOfSeq
<1> QED
  BY <1>0, <1>1, <1>2, <1>3, <1>5, <1>7

\* Two entries of a directory, and what is below them.
LEMMA SoonerBeside ==
    ASSUME NEW p \in Paths, NEW q \in Paths, Front(p) = Front(q), p # q
    PROVE  /\ Last(p) < Last(q) => Sooner(p, q)
           /\ \A y \in Paths : Below(y, q) /\ y # q => Sooner(p, y)
           /\ \A x, y \in Paths : /\ Last(p) < Last(q) /\ Below(x, p) /\ x # p
                                  /\ Below(y, q) /\ y # q
                                  => Sooner(x, y)
<1>0. /\ Len(p) \in Nat /\ Len(p) > 0 /\ Len(q) = Len(p)
      /\ p \in Seq(Nat) /\ q \in Seq(Nat)
      /\ \A i \in 1..Len(p) - 1 : p[i] = q[i]
      /\ p[Len(p)] # q[Len(p)] /\ Last(p) = p[Len(p)] /\ Last(q) = q[Len(p)]
  <2>1. Len(p) = Len(q) /\ \A i \in 1..Len(p) - 1 : p[i] = q[i]
    BY BelowFront
  <2> QED
    BY <2>1, NodesArePaths, Siblings DEF Last
<1> DEFINE l == Len(p)
<1>1. Last(p) < Last(q) => Sooner(p, q)
  BY GoesBeside DEF Sooner
<1>2. ASSUME NEW x \in Paths, NEW c \in Paths, c = p \/ c = q, Below(x, c), x # c
      PROVE  /\ Len(x) \in Nat /\ Len(x) > l /\ l \in 1..Len(x)
             /\ \A i \in 1..l : x[i] = c[i]
  <2>1. x \in Seq(Nat) /\ Len(x) \in Nat /\ c \in Seq(Nat) /\ Len(c) = l
    BY <1>0, <1>2, NodesArePaths
  <2>2. l <= Len(x) /\ \A i \in 1..l : x[i] = c[i]
    BY <1>2, <2>1, BelowByName
  <2>3. Len(x) # l
    BY <1>2, <2>1, <2>2, SeqEqual
  <2> QED
    BY <1>0, <2>1, <2>2, <2>3
<1> HIDE DEF l
<1>3. /\ l \in Nat /\ l > 0 /\ l \in 1..l /\ l \in 1..Len(p) /\ Len(p) = l
      /\ \A i \in 1..l - 1 : i \in 1..l
  BY <1>0 DEF l
<1>4. p[l] # q[l] /\ Last(p) = p[l] /\ Last(q) = q[l] /\ \A i \in 1..l - 1 : p[i] = q[i]
  BY <1>0 DEF l
<1>5. ASSUME NEW y \in Paths, Below(y, q), y # q PROVE Sooner(p, y)
  <2>1. Len(y) \in Nat /\ Len(y) > l /\ \A i \in 1..l : y[i] = q[i]
    BY <1>2, <1>5
  <2>2. /\ l \in 1..Len(p) /\ l <= Len(y) /\ Len(p) <= l /\ p[l] # y[l]
        /\ \A i \in 1..l - 1 : p[i] = y[i]
    BY <1>3, <1>4, <2>1
  <2> QED
    BY <2>1, <2>2 DEF Sooner, Goes, AtEntryOf
<1>6. ASSUME NEW x \in Paths, NEW y \in Paths, Last(p) < Last(q),
             Below(x, p), x # p, Below(y, q), y # q
      PROVE  Sooner(x, y)
  <2>1. /\ Len(x) > l /\ l \in 1..Len(x) /\ \A i \in 1..l : x[i] = p[i]
        /\ Len(y) \in Nat /\ Len(y) > l /\ \A i \in 1..l : y[i] = q[i]
    BY <1>2, <1>6
  <2>2. /\ l <= Len(y) /\ x[l] # y[l] /\ x[l] < y[l]
        /\ \A i \in 1..l - 1 : x[i] = y[i]
    BY <1>3, <1>4, <1>6, <2>1
  <2> QED
    BY <2>1, <2>2 DEF Sooner, Goes, AtEntryOf
<1> QED
  BY <1>1, <1>5, <1>6

\* At most one thing is expected of a path, and never that it could not be listed.
LEMMA ExpectedOnce ==
    ASSUME NEW p \in Paths, kind[p] \in AllKinds
    PROVE  \/ Expected(p) = {}
           \/ \E w \in SUBSET AllWarnings : Expected(p) = {w} /\ w # {"directory_unreadable"}
<1>1. /\ {"symlink_skipped"} \in SUBSET AllWarnings
      /\ {"hidden_path_skipped"} \in SUBSET AllWarnings
      /\ {"unsupported_file_skipped"} \in SUBSET AllWarnings
      /\ {"symlink_skipped"} # {"directory_unreadable"}
      /\ {"hidden_path_skipped"} # {"directory_unreadable"}
      /\ {"unsupported_file_skipped"} # {"directory_unreadable"}
  BY DEF AllWarnings, Warnings
<1>2. \A k \in File : Reading[k] \in SUBSET AllWarnings /\ Reading[k] # {"directory_unreadable"}
  <2>1. /\ Reading.utf8 = {} /\ Reading.legacy = {"encoding_fallback_cp1252"}
        /\ Reading.broken = {"file_unreadable"} /\ Reading.limit = {"limit_exceeded"}
        /\ Reading.huge = {"file_too_large"} /\ Reading.damaged = {"scan_failed"}
    BY DEF Reading
  <2>2. /\ {} \in SUBSET AllWarnings /\ {"encoding_fallback_cp1252"} \in SUBSET AllWarnings
        /\ {"file_unreadable"} \in SUBSET AllWarnings
        /\ {"limit_exceeded"} \in SUBSET AllWarnings /\ {"file_too_large"} \in SUBSET AllWarnings
        /\ {"scan_failed"} \in SUBSET AllWarnings
    BY DEF AllWarnings
  <2>3. /\ {} # {"directory_unreadable"}
        /\ {"encoding_fallback_cp1252"} # {"directory_unreadable"}
        /\ {"file_unreadable"} # {"directory_unreadable"}
        /\ {"limit_exceeded"} # {"directory_unreadable"}
        /\ {"file_too_large"} # {"directory_unreadable"}
        /\ {"scan_failed"} # {"directory_unreadable"}
    OBVIOUS
  <2> SUFFICES ASSUME NEW k \in File
               PROVE  Reading[k] \in SUBSET AllWarnings /\ Reading[k] # {"directory_unreadable"}
    OBVIOUS
  <2>4. CASE k = "utf8"
    BY <2>1, <2>2, <2>3, <2>4
  <2>5. CASE k = "legacy"
    BY <2>1, <2>2, <2>3, <2>5
  <2>6. CASE k = "broken"
    BY <2>1, <2>2, <2>3, <2>6
  <2>7. CASE k = "limit"
    BY <2>1, <2>2, <2>3, <2>7
  <2>8. CASE k = "huge"
    BY <2>1, <2>2, <2>3, <2>8
  <2>9. CASE k = "damaged"
    BY <2>1, <2>2, <2>3, <2>9
  <2> QED
    BY <2>4, <2>5, <2>6, <2>7, <2>8, <2>9 DEF File
<1>3. CASE kind[p] = "symlink" \/ p \in Hidden \/ kind[p] \in {"absent", "dir", "special"}
  BY <1>1, <1>3, ExpectedIs
<1>4. CASE p \notin Hidden /\ kind[p] \in File /\ p \in Unsupported
  BY <1>1, <1>4, ExpectedIs
<1>5. CASE p \notin Hidden /\ kind[p] \in File /\ p \notin Unsupported
  <2>1. Expected(p) = {Reading[kind[p]]}
    BY <1>5, ExpectedIs
  <2> QED
    BY <1>2, <1>5, <2>1
<1> QED
  BY <1>3, <1>4, <1>5 DEF AllKinds

\* So what is reported of it is in any order.
LEMMA OwnIs ==
    ASSUME NEW p \in Paths, kind[p] \in AllKinds
    PROVE  /\ Own(p) \in Seq(Pair) /\ ToSet(Own(p)) = {<<p, w>> : w \in Expected(p)}
           /\ \A R : Rising(Own(p), R)
<1> DEFINE S == {<<p, w>> : w \in Expected(p)}
           n == Cardinality(S)
           s == Own(p)
<1>1. /\ n \in {0, 1} /\ S \in SUBSET Pair
      /\ \E t : t \in [1..n -> S] /\ IsInjective(t)
      /\ \A t \in [1..n -> S] : {t[i] : i \in 1..n} = S
  <2>1. CASE Expected(p) = {}
    <3>1. S = {} /\ n = 0 /\ 1..0 = {}
      BY <2>1, FS_EmptySet
    <3> HIDE DEF S, n
    <3>2. [i \in 1..0 |-> i] \in [1..n -> S] /\ IsInjective([i \in 1..0 |-> i])
      BY <3>1 DEF IsInjective
    <3> QED
      BY <3>1, <3>2
  <2>2. CASE \E w \in SUBSET AllWarnings : Expected(p) = {w}
    <3>1. PICK w \in SUBSET AllWarnings : Expected(p) = {w}
      BY <2>2
    <3>2. S = {<<p, w>>} /\ <<p, w>> \in Pair
      BY <3>1 DEF Pair
    <3>3. n = 1 /\ 1..1 = {1}
      BY <3>2, FS_Singleton
    <3> HIDE DEF S, n
    <3>4. [i \in 1..1 |-> <<p, w>>] \in [1..n -> S] /\ IsInjective([i \in 1..1 |-> <<p, w>>])
      BY <3>2, <3>3 DEF IsInjective
    <3> QED
      BY <3>2, <3>3, <3>4
  <2> QED
    BY <2>1, <2>2, ExpectedOnce
<1>2. s \in [1..n -> S]
  <2>1. s = CHOOSE t \in [1..n -> S] : IsInjective(t)
    BY DEF Own, SetToSeq
  <2> HIDE DEF S, n, s
  <2> QED
    BY <1>1, <2>1
<1> HIDE DEF S, n, s
<1>3. DOMAIN s = 1..n /\ s \in Seq(Pair)
  BY <1>1, <1>2
<1>4. ToSet(s) = S
  BY <1>1, <1>2, <1>3 DEF ToSet
<1>5. \A R : Rising(s, R)
  BY <1>1, <1>3 DEF Rising
<1> QED
  BY <1>3, <1>4, <1>5 DEF s, S

\* The walk goes down from d to x: what lies between are directories that it enters.
ReachedFrom(x, d) ==
    /\ Below(x, d) /\ x # d
    /\ \A c \in Paths : Below(x, c) /\ x # c /\ Below(c, d) /\ c # d => Opened(c)

\* What is to be reported of all that the walk reaches from d.
Told(d) == {e \in Pair : ReachedFrom(e[1], d) /\ e[2] \in Expected(e[1])}

\* What the walk reaches from d is an entry of d, or reached from a directory in d.
LEMMA ReachedStep ==
    ASSUME NEW d \in Nodes, NEW x \in Paths
    PROVE  ReachedFrom(x, d) <=>
             \E p \in Paths : Front(p) = d /\ (x = p \/ (Opened(p) /\ ReachedFrom(x, p)))
<1> USE NodesArePaths
<1>1. ASSUME NEW p \in Paths, Front(p) = d PROVE Below(p, d) /\ p # d
  BY <1>1, BelowFront
<1>2. ASSUME NEW p \in Paths, Front(p) = d, NEW c \in Paths, Below(p, c), Below(c, d), c # d
      PROVE  c = p
  <2>1. c = p \/ Below(d, c)
    BY <1>2, BelowFront
  <2> QED
    BY <1>2, <2>1, BelowOrder
<1>3. ASSUME NEW p \in Paths, Front(p) = d, x = p PROVE ReachedFrom(x, d)
  BY <1>1, <1>2, <1>3 DEF ReachedFrom
<1>4. ASSUME NEW p \in Paths, Front(p) = d, Opened(p), ReachedFrom(x, p) PROVE ReachedFrom(x, d)
  <2>1. Below(x, p) /\ x # p
    BY <1>4 DEF ReachedFrom
  <2>2. Below(x, d)
    BY <1>1, <1>4, <2>1, BelowOrder
  <2>3. x # d
    BY <1>1, <1>4, <2>1, BelowOrder
  <2>4. ASSUME NEW c \in Paths, Below(x, c), x # c, Below(c, d), c # d PROVE Opened(c)
    <3>1. Below(c, p) \/ Below(p, c)
      BY <2>1, <2>4, BelowOrder
    <3>2. Below(p, c) => c = p
      BY <1>2, <1>4, <2>4
    <3>3. Below(c, p) /\ c # p => Opened(c)
      BY <1>4, <2>4 DEF ReachedFrom
    <3> QED
      BY <1>4, <3>1, <3>2, <3>3
  <2> QED
    BY <2>2, <2>3, <2>4 DEF ReachedFrom
<1>5. ASSUME ReachedFrom(x, d)
      PROVE  \E p \in Paths : Front(p) = d /\ (x = p \/ (Opened(p) /\ ReachedFrom(x, p)))
  <2>1. Below(x, d) /\ x # d
    BY <1>5 DEF ReachedFrom
  <2>2. PICK p \in Paths : Front(p) = d /\ Below(x, p)
    BY <2>1, WayDown
  <2>3. CASE x = p
    BY <2>2, <2>3
  <2>4. CASE x # p
    <3>1. Below(p, d) /\ p # d
      BY <1>1, <2>2
    <3>2. Opened(p)
      BY <1>5, <2>2, <2>4, <3>1 DEF ReachedFrom
    <3>3. ASSUME NEW c \in Paths, Below(x, c), x # c, Below(c, p), c # p PROVE Opened(c)
      <4>1. Below(c, d)
        BY <3>1, <3>3, BelowOrder
      <4>2. c # d
        BY <3>1, <3>3, BelowOrder
      <4> QED
        BY <1>5, <3>3, <4>1, <4>2 DEF ReachedFrom
    <3>4. ReachedFrom(x, p)
      BY <2>2, <2>4, <3>3 DEF ReachedFrom
    <3> QED
      BY <2>2, <3>2, <3>4
  <2> QED
    BY <2>3, <2>4
<1> QED
  BY <1>3, <1>4, <1>5

\* A walk has what is to be reported, once each, in its order.
Ordered(d) ==
    /\ Walk[d] \in Seq(Pair) /\ Rising(Walk[d], LineOrder) /\ ToSet(Walk[d]) = Told(d)

\* It does when those of the directories in d do.
LEMMA OrderedStep ==
    ASSUME kind \in [Nodes -> AllKinds], NEW d \in Nodes,
           \A p \in Paths : Front(p) = d => Ordered(p)
    PROVE  Ordered(d)
<1>0. \A p \in Paths : kind[p] \in AllKinds
  BY NodesArePaths
<1>1. PICK n \in Nat :
         /\ Entries(d) \in [1..n -> Paths] /\ Len(Entries(d)) = n
         /\ \A i \in 1..n : Front(Entries(d)[i]) = d /\ Len(Entries(d)[i]) = Len(d) + 1
         /\ \A p \in Paths : Front(p) = d => \E i \in 1..n : Entries(d)[i] = p
         /\ \A i, k \in 1..n : i < k => Last(Entries(d)[i]) < Last(Entries(d)[k])
  BY EntriesAre
<1> DEFINE e(i) == Entries(d)[i]
           own == [i \in 1..n |-> Own(e(i))]
           sub == [i \in 1..n |-> IF Opened(e(i)) THEN Walk[e(i)] ELSE <<>>]
<1>2. Walk[d] = FlattenSeq(own) \o FlattenSeq(sub)
  BY <1>1, WalkUnfolds DEF Line
<1>3. \A i \in 1..n : e(i) \in Paths /\ Front(e(i)) = d
  BY <1>1
<1>4. \A i, k \in 1..n : i < k => Last(e(i)) < Last(e(k)) /\ e(i) # e(k)
  <2>1. \A i \in 1..n : Last(e(i)) \in Nat
    <3>1. \A p \in Paths : Last(p) \in Nat
      <4>1. \A p \in Paths : p \in Seq(Nat) /\ Len(p) \in 1..Len(p)
        BY NodesArePaths
      <4> QED
        BY <4>1, ElementOfSeq DEF Last
    <3> QED
      BY <1>3, <3>1
  <2>2. \A i, k \in 1..n : i < k => Last(e(i)) < Last(e(k))
    BY <1>1
  <2> QED
    BY <2>1, <2>2
<1>5. \A p \in Paths : Front(p) = d => \E i \in 1..n : e(i) = p
  BY <1>1
<1> HIDE DEF e
<1>6. \A i \in 1..n : /\ own[i] \in Seq(Pair) /\ Rising(own[i], LineOrder)
                      /\ ToSet(own[i]) = {<<e(i), w>> : w \in Expected(e(i))}
  BY <1>0, <1>3, OwnIs
<1>7. \A i \in 1..n : /\ sub[i] \in Seq(Pair) /\ Rising(sub[i], LineOrder)
                      /\ ToSet(sub[i]) = IF Opened(e(i)) THEN Told(e(i)) ELSE {}
  <2> SUFFICES ASSUME NEW i \in 1..n
               PROVE  /\ sub[i] \in Seq(Pair) /\ Rising(sub[i], LineOrder)
                      /\ ToSet(sub[i]) = IF Opened(e(i)) THEN Told(e(i)) ELSE {}
    OBVIOUS
  <2>1. CASE Opened(e(i))
    BY <1>3, <2>1 DEF Ordered
  <2>2. CASE ~Opened(e(i))
    <3>1. sub[i] = <<>>
      BY <2>2
    <3> HIDE DEF sub
    <3>2. <<>> \in Seq(Pair) /\ ToSet(<<>>) = {} /\ Rising(<<>>, LineOrder)
      BY EmptySeq DEF ToSet, Rising
    <3> QED
      BY <2>2, <3>1, <3>2
  <2> QED
    BY <2>1, <2>2
<1>8. /\ own \in Seq(Seq(Pair)) /\ Len(own) = n /\ sub \in Seq(Seq(Pair)) /\ Len(sub) = n
  BY <1>6, <1>7
<1> HIDE DEF own, sub
\* How two of them lie.
<1>9. \A i, k \in 1..n : i < k =>
         \A x \in ToSet(own[i]), y \in ToSet(own[k]) : <<x, y>> \in LineOrder
  <2> SUFFICES ASSUME NEW i \in 1..n, NEW k \in 1..n, i < k,
                      NEW x \in ToSet(own[i]), NEW y \in ToSet(own[k])
               PROVE  <<x, y>> \in LineOrder
    OBVIOUS
  <2>1. x \in Pair /\ y \in Pair /\ x[1] = e(i) /\ y[1] = e(k)
    <3>1. /\ \A z \in ToSet(own[i]) : z \in Pair /\ z[1] = e(i)
          /\ \A z \in ToSet(own[k]) : z \in Pair /\ z[1] = e(k)
      BY <1>6, LenProperties, ElementOfSeq DEF ToSet
    <3> QED
      BY <3>1
  <2>2. Sooner(e(i), e(k))
    BY <1>3, <1>4, SoonerBeside
  <2> QED
    BY <2>1, <2>2 DEF LineOrder
<1>10. \A i, k \in 1..n : i < k =>
          \A x \in ToSet(sub[i]), y \in ToSet(sub[k]) : <<x, y>> \in LineOrder
  <2> SUFFICES ASSUME NEW i \in 1..n, NEW k \in 1..n, i < k,
                      NEW x \in ToSet(sub[i]), NEW y \in ToSet(sub[k])
               PROVE  <<x, y>> \in LineOrder
    OBVIOUS
  <2>1. x \in Told(e(i)) /\ y \in Told(e(k))
    BY <1>7
  <2>2. /\ x \in Pair /\ x[1] \in Paths /\ Below(x[1], e(i)) /\ x[1] # e(i)
        /\ y \in Pair /\ y[1] \in Paths /\ Below(y[1], e(k)) /\ y[1] # e(k)
    BY <2>1 DEF Told, ReachedFrom, Pair
  <2>3. Sooner(x[1], y[1])
    BY <1>3, <1>4, <2>2, SoonerBeside
  <2> QED
    BY <2>2, <2>3 DEF LineOrder
<1>11. \A i, k \in 1..n :
          \A x \in ToSet(own[i]), y \in ToSet(sub[k]) : <<x, y>> \in LineOrder
  <2> SUFFICES ASSUME NEW i \in 1..n, NEW k \in 1..n,
                      NEW x \in ToSet(own[i]), NEW y \in ToSet(sub[k])
               PROVE  <<x, y>> \in LineOrder
    OBVIOUS
  <2>1. x \in Pair /\ x[1] = e(i) /\ Expected(e(i)) # {}
    <3>1. \A z \in ToSet(own[i]) : z \in Pair
      BY <1>6, LenProperties, ElementOfSeq DEF ToSet
    <3>2. PICK w \in Expected(e(i)) : x = <<e(i), w>>
      BY <1>6
    <3> QED
      BY <3>1, <3>2
  <2>2. Opened(e(k)) /\ y \in Told(e(k))
    BY <1>7
  <2>3. y \in Pair /\ y[1] \in Paths /\ Below(y[1], e(k)) /\ y[1] # e(k)
    BY <2>2 DEF Told, ReachedFrom, Pair
  <2>4. i # k
    <3>1. Expected(e(k)) = {}
      BY <1>3, <2>2, ExpectedIs DEF Opened
    <3> QED
      BY <2>1, <3>1
  <2>5. e(i) # e(k)
    <3>1. i < k \/ k < i
      BY <2>4
    <3> QED
      BY <1>4, <3>1
  <2>6. Sooner(e(i), y[1])
    BY <1>3, <2>3, <2>5, SoonerBeside
  <2> QED
    BY <2>1, <2>3, <2>6 DEF LineOrder
\* What they have together.
<1>12. /\ FlattenSeq(own) \in Seq(Pair) /\ Rising(FlattenSeq(own), LineOrder)
       /\ ToSet(FlattenSeq(own)) = UNION {ToSet(own[i]) : i \in 1..n}
  BY <1>6, <1>8, <1>9, FlattenRising
<1>13. /\ FlattenSeq(sub) \in Seq(Pair) /\ Rising(FlattenSeq(sub), LineOrder)
       /\ ToSet(FlattenSeq(sub)) = UNION {ToSet(sub[i]) : i \in 1..n}
  BY <1>7, <1>8, <1>10, FlattenRising
<1>14. Walk[d] \in Seq(Pair) /\ Rising(Walk[d], LineOrder)
  <2>1. \A x \in ToSet(FlattenSeq(own)), y \in ToSet(FlattenSeq(sub)) : <<x, y>> \in LineOrder
    BY <1>11, <1>12, <1>13
  <2> QED
    BY <1>2, <1>12, <1>13, <2>1, ConcatRising
<1>15. \A x : x \in ToSet(Walk[d]) <=> \E i \in 1..n : x \in ToSet(own[i]) \/ x \in ToSet(sub[i])
  <2>1. ToSet(Walk[d]) = ToSet(FlattenSeq(own)) \cup ToSet(FlattenSeq(sub))
    BY <1>2, <1>12, <1>13, ConcatRising
  <2> QED
    BY <1>12, <1>13, <2>1
<1>16. \A x : x \in Told(d) <=> \E i \in 1..n : x \in ToSet(own[i]) \/ x \in ToSet(sub[i])
  <2>1. ASSUME NEW x \in Told(d) PROVE \E i \in 1..n : x \in ToSet(own[i]) \/ x \in ToSet(sub[i])
    <3>1. /\ x \in Pair /\ x[1] \in Paths /\ x = <<x[1], x[2]>>
          /\ ReachedFrom(x[1], d) /\ x[2] \in Expected(x[1])
      BY DEF Told, Pair
    <3>2. PICK p \in Paths : /\ Front(p) = d
                             /\ x[1] = p \/ (Opened(p) /\ ReachedFrom(x[1], p))
      BY <3>1, ReachedStep
    <3>3. PICK i \in 1..n : e(i) = p
      BY <1>5, <3>2
    <3>4. CASE x[1] = p
      BY <1>6, <3>1, <3>3, <3>4
    <3>5. CASE Opened(p) /\ ReachedFrom(x[1], p)
      <4>1. x \in Told(p)
        BY <3>1, <3>5 DEF Told
      <4> QED
        BY <1>7, <3>3, <3>5, <4>1
    <3> QED
      BY <3>2, <3>4, <3>5
  <2>2. ASSUME NEW i \in 1..n, NEW x \in ToSet(own[i]) PROVE x \in Told(d)
    <3>1. x \in Pair
      BY <1>6, LenProperties, ElementOfSeq DEF ToSet
    <3>2. PICK w \in Expected(e(i)) : x = <<e(i), w>>
      BY <1>6
    <3>3. ReachedFrom(e(i), d)
      BY <1>3, ReachedStep
    <3> QED
      BY <3>1, <3>2, <3>3 DEF Told
  <2>3. ASSUME NEW i \in 1..n, NEW x \in ToSet(sub[i]) PROVE x \in Told(d)
    <3>1. Opened(e(i)) /\ x \in Told(e(i))
      BY <1>7
    <3>2. /\ x \in Pair /\ x[1] \in Paths
          /\ ReachedFrom(x[1], e(i)) /\ x[2] \in Expected(x[1])
      BY <3>1 DEF Told, Pair
    <3>3. ReachedFrom(x[1], d)
      BY <1>3, <3>1, <3>2, ReachedStep
    <3> QED
      BY <3>2, <3>3 DEF Told
  <2> QED
    BY <2>1, <2>2, <2>3
<1>17. ToSet(Walk[d]) = Told(d)
  BY <1>15, <1>16
<1> QED
  BY <1>14, <1>17 DEF Ordered

\* So it does at every depth.
LEMMA WalkOrdered == kind \in [Nodes -> AllKinds] => \A d \in Nodes : Ordered(d)
<1> SUFFICES ASSUME kind \in [Nodes -> AllKinds] PROVE \A d \in Nodes : Ordered(d)
  OBVIOUS
<1>0. \A p \in Nodes : Len(p) \in Nat
  BY NodesArePaths
<1>1. PICK m \in Nat : \A p \in Nodes : Len(p) <= m
  BY Depth
<1> DEFINE N == {n \in Nat : \A d \in Nodes : Len(d) + n > m => Ordered(d)}
<1>2. 0 \in N
  BY <1>0, <1>1
<1>3. ASSUME NEW n \in Nat, n \in N PROVE n + 1 \in N
  <2> SUFFICES ASSUME NEW d \in Nodes, Len(d) + (n + 1) > m PROVE Ordered(d)
    OBVIOUS
  <2>1. ASSUME NEW p \in Paths, Front(p) = d PROVE Ordered(p)
    <3>1. p \in Nodes /\ Len(p) = Len(d) + 1
      BY <2>1, BelowFront, NodesArePaths
    <3>2. Len(p) + n > m
      BY <1>0, <3>1
    <3> QED
      BY <1>3, <3>1, <3>2
  <2> QED
    BY <2>1, OrderedStep
<1>4. Nat \subseteq N
  <2> HIDE DEF N
  <2> QED
    BY <1>2, <1>3, AllNaturals
<1>5. m + 1 \in N
  <2> HIDE DEF N
  <2> QED
    BY <1>4
<1> QED
  BY <1>0, <1>5

\* As long as nothing has changed, whatever the walk has is where it leads.
Reach == {p \in Nodes : Reached(p)}

Untroubled ==
    changes = 0 =>
        /\ touched = {}
        /\ Stack \cup Kept \cup Listed \subseteq Reach
        /\ \A i \in 1..Len(results) : results[i].path \in Paths \cap Reach

\* Whatever disturbs the tree is counted.
LEMMA ChangesCount ==
    ASSUME TypeInv, [Next]_vars, changes' = 0
    PROVE  changes = 0 /\ touched' = touched
<1> USE DEF tree, walk, scan
<1>0. changes \in Nat /\ changes + 1 # 0
  BY DEF TypeInv
<1>1. CASE UNCHANGED vars
  BY <1>1 DEF vars
<1>2. ASSUME NEW p \in Nodes, NEW k \in Kinds, Rewrite(p, k) \/ Replace(p, k) PROVE FALSE
  BY <1>0, <1>2 DEF Rewrite, Replace, Change
<1>3. ASSUME NEW p, IoError(p) PROVE FALSE
  BY <1>0, <1>3 DEF IoError
<1>4. ASSUME Scan, ~\E p : IoError(p) PROVE UNCHANGED <<changes, touched>>
  BY <1>4, QuietScan
<1> QED
  BY <1>1, <1>2, <1>3, <1>4 DEF Next

LEMMA UntroubledNext ==
    ASSUME TypeInv, ListingHolds, ReadingHolds, Untroubled, [Next]_vars
    PROVE  Untroubled'
<1> SUFFICES ASSUME changes' = 0
             PROVE  /\ Stack' \cup Kept' \cup Listed' \subseteq Reach'
                    /\ \A i \in 1..Len(results') : results'[i].path \in Paths \cap Reach'
  BY ChangesCount DEF Untroubled
<1>1. /\ touched = {} /\ touched' = {}
      /\ Stack \cup Kept \cup Listed \subseteq Reach
      /\ \A i \in 1..Len(results) : results[i].path \in Paths \cap Reach
  BY ChangesCount DEF Untroubled
<1>2. \A d \in Nodes : kind'[d] = kind[d]
  BY <1>1, TouchedChanges
<1>3. Reach' = Reach
  BY <1>2, NodesArePaths DEF Reach, Reached
<1>4. Stack \subseteq Nodes /\ Kept \subseteq Paths /\ Listed \subseteq Paths
  BY Moves
<1>5. ASSUME Stack' \cup Kept' \cup Listed' \subseteq Stack \cup Kept \cup Listed, results' = results
      PROVE  /\ Stack' \cup Kept' \cup Listed' \subseteq Reach'
             /\ \A i \in 1..Len(results') : results'[i].path \in Paths \cap Reach'
  BY <1>1, <1>3, <1>5
<1>6. CASE Opens /\ kind[Last(directories)] = "dir"
  <2> DEFINE d == Last(directories)
  <2>1. d \in Nodes /\ d \in Stack /\ Stack' \subseteq Stack /\ Kept' = {} /\ results' = results
    BY <1>6, Moves DEF Opens
  <2>2. kind[d] = "dir" /\ d \notin Hidden /\ Reached(d)
    BY <1>1, <1>6, <2>1 DEF ListingHolds, Reach
  <2>3. \A q \in Listed' : q \in Paths /\ Front(q) = d
    <3>1. entries' = Listing(d) /\ Listing(d) \in Seq(EntryType)
      BY <1>6, <2>1, ListingFits DEF Opens, TypeInv
    <3>2. Listed' = {e.path : e \in ToSet(Listing(d))} /\ Listed' \subseteq Paths
      BY <3>1, NamesOf DEF Listed
    <3> QED
      BY <2>1, <3>2, ListingFits DEF TypeInv
  <2>4. ASSUME NEW q \in Listed' PROVE q \in Reach
    <3> SUFFICES ASSUME NEW c \in Paths, c # q, Below(q, c) PROVE kind[c] = "dir" /\ c \notin Hidden
      BY <2>3, NodesArePaths DEF Reach, Reached
    <3>1. Below(d, c)
      BY <2>3, BelowFront, NodesArePaths
    <3>2. CASE c = d
      BY <2>2, <3>2
    <3>3. CASE c # d
      BY <2>2, <3>1, <3>3 DEF Reached
    <3> QED
      BY <3>2, <3>3
  <2> HIDE DEF d
  <2> QED
    BY <1>1, <1>3, <2>1, <2>4
<1>7. CASE GivesUp /\ Last(directories) \in touched'
  BY <1>1, <1>7
<1>8. CASE Stacks
  BY <1>1, <1>5, <1>8, Moves DEF Stacks
<1>9. CASE Keeps \/ Passes
  <2>1. Head(entries).path \in Listed /\ Listed' \subseteq Listed /\ Stack' = Stack
        /\ results' = results /\ Kept' \subseteq Kept \cup {Head(entries).path}
    BY <1>9, Moves DEF Keeps, Passes
  <2> QED
    BY <1>1, <1>5, <2>1
<1>10. CASE Settles
  <2>1. Head(entries).path \in Listed /\ Listed' \subseteq Listed /\ Stack' = Stack /\ Kept' = Kept
    BY <1>10, Moves DEF Settles
  <2>2. PICK r \in ResultType : r.path = Head(entries).path /\ results' = Append(results, r)
    BY <1>10 DEF Settles, Reports
  <2>3. r.path \in Paths \cap Reach
    BY <1>1, <1>4, <2>1, <2>2
  <2>4. /\ \A i \in 1..Len(results) : results'[i] = results[i]
        /\ results'[Len(results')] = r
        /\ \A i \in 1..Len(results') : i \in 1..Len(results) \/ i = Len(results')
    BY <2>2, Added
  <2>5. \A i \in 1..Len(results') : results'[i].path \in Paths \cap Reach
    BY <1>1, <2>3, <2>4
  <2> QED
    BY <1>1, <1>3, <2>1, <2>5
<1>11. CASE Rests
  <2>1. Stack' = Stack /\ Kept' = Kept /\ Listed' = Listed /\ results' = results
    BY <1>11, Moves DEF Rests
  <2> QED
    BY <1>1, <1>5, <2>1
<1> QED
  BY <1>1, <1>6, <1>7, <1>8, <1>9, <1>10, <1>11, HonestSteps

LEMMA UntroubledInit == Init => Untroubled
<1> SUFFICES ASSUME Init PROVE Untroubled
  OBVIOUS
<1>1. directories = <<Root>> /\ children = <<>> /\ Len(entries) = 0 /\ Len(results) = 0
      /\ touched = {}
  BY DEF Init
<1>2. Stack = {Root} /\ Kept = {} /\ Listed = {}
  BY <1>1 DEF Stack, Kept, Listed, Names, ToSet
<1>3. \A d \in Paths : ~Below(Root, d)
  <2>1. \A d \in Paths : Below(Root, d) => d = Root
    BY BelowOrder, NodesArePaths
  <2> QED
    BY <2>1, PathsAssumption
<1>4. Reached(Root)
  BY <1>3 DEF Reached
<1> QED
  BY <1>1, <1>2, <1>4, NodesArePaths DEF Untroubled, Reach

\* At the end of a walk that nothing disturbed.
LEMMA AllInOrder ==
    ASSUME TypeInv, ReportsGo, NothingOverlooked, Untroubled, pc = "done", changes = 0
    PROVE  [i \in 1..Len(results) |-> <<results[i].path, results[i].warnings>>] = Walk[Root]
<1> DEFINE n == Len(results)
           s == [i \in 1..n |-> <<results[i].path, results[i].warnings>>]
<1>0. /\ n \in Nat /\ \A i \in 1..n : results[i] \in ResultType
      /\ kind \in [Nodes -> AllKinds] /\ \A p \in Paths : kind[p] \in AllKinds
  <2>1. n \in Nat /\ \A i \in 1..n : results[i] \in ResultType
    BY LenProperties, ElementOfSeq DEF TypeInv
  <2> QED
    BY <2>1, NodesArePaths DEF TypeInv
<1>1. \A p \in Paths : Reached(p) => Said(p) = Expected(p)
  BY DEF NothingOverlooked, Untroubled, Undisturbed, Said
<1>2. \A i \in 1..n : results[i].path \in Paths /\ Reached(results[i].path)
  BY DEF Untroubled, Reach
<1>3. \A p \in Paths : Said(p) = {results[i].warnings : i \in {i \in 1..n : results[i].path = p}}
  BY DEF Said
<1> HIDE DEF n
<1>4. \A i \in 1..n : /\ results[i].warnings \in Expected(results[i].path)
                      /\ Met(results[i]) = AtEntryOf(results[i].path)
  <2> SUFFICES ASSUME NEW i \in 1..n
               PROVE  /\ results[i].warnings \in Expected(results[i].path)
                      /\ Met(results[i]) = AtEntryOf(results[i].path)
    OBVIOUS
  <2>1. results[i].warnings \in Expected(results[i].path)
    BY <1>1, <1>2, <1>3
  <2>2. results[i].warnings # {"directory_unreadable"}
    BY <1>0, <1>2, <2>1, ExpectedOnce
  <2> QED
    BY <2>1, <2>2 DEF Met, Unlisted
<1>5. \A p \in Paths : ReachedFrom(p, Root) <=> Reached(p)
  <2>1. \A p \in Paths : Below(p, Root) /\ p # Root
    BY BelowOrder, NodesArePaths, PathsAssumption
  <2> QED
    BY <2>1 DEF ReachedFrom, Reached, Opened
<1>6. \A i \in 1..n : s[i] = <<results[i].path, results[i].warnings>> /\ s[i] \in Pair
  BY <1>0, <1>2 DEF ResultType, Pair
<1>7. s \in Seq(Pair) /\ DOMAIN s = 1..n
  BY <1>0, <1>6
<1> HIDE DEF s
<1>8. Rising(s, LineOrder)
  <2> SUFFICES ASSUME NEW i \in 1..n, NEW k \in 1..n, i < k PROVE <<s[i], s[k]>> \in LineOrder
    BY <1>7 DEF Rising
  <2>1. Goes(results[i].path, Met(results[i]), results[k].path, Met(results[k]))
    BY DEF ReportsGo, Went, n
  <2>2. Sooner(results[i].path, results[k].path)
    BY <1>4, <2>1 DEF Sooner
  <2> QED
    BY <1>6, <2>2 DEF LineOrder
<1>9. ToSet(s) = Told(Root)
  <2>1. ASSUME NEW x \in ToSet(s) PROVE x \in Told(Root)
    <3>1. PICK i \in 1..n : x = s[i]
      BY <1>7 DEF ToSet
    <3> QED
      BY <1>2, <1>4, <1>5, <1>6, <3>1 DEF Told
  <2>2. ASSUME NEW x \in Told(Root) PROVE x \in ToSet(s)
    <3>1. /\ x \in Pair /\ x[1] \in Paths /\ x = <<x[1], x[2]>>
          /\ ReachedFrom(x[1], Root) /\ x[2] \in Expected(x[1])
      BY DEF Told, Pair
    <3>2. x[2] \in Said(x[1])
      BY <1>1, <1>5, <3>1
    <3>3. PICK i \in 1..n : results[i].path = x[1] /\ results[i].warnings = x[2]
      BY <1>3, <3>1, <3>2
    <3> QED
      BY <1>6, <1>7, <3>1, <3>3 DEF ToSet
  <2> QED
    BY <2>1, <2>2
<1>10. Ordered(Root)
  BY <1>0, WalkOrdered, NodesArePaths
<1>11. \A x, y : <<x, y>> \in LineOrder => <<y, x>> \notin LineOrder
  BY SoonerIsOneWay, NodesArePaths DEF LineOrder, Pair
<1>12. s = Walk[Root]
  BY <1>7, <1>8, <1>9, <1>10, <1>11, OneOrder DEF Ordered
<1> QED
  BY <1>12 DEF s, n

\* A walk that nothing disturbs reports what the recursive walk by name reports, and in
\* that order, whatever the shape and the depth of the tree.
THEOREM WalkIsByName == Spec => []WalksByName
<1>1. TypeInv /\ Queued /\ NothingOverlooked /\ Untroubled => WalksByName
  BY AllInOrder DEF WalksByName, Queued
<1>2. TypeInv /\ ListingHolds /\ ReadingHolds /\ Untroubled /\ [Next]_vars => Untroubled'
  BY UntroubledNext
<1> QED
  BY <1>1, <1>2, UntroubledInit, ToldAlways, QueuedAlways, NothingIsOverlooked, PTL DEF Spec
=============================================================================
