------------------------ MODULE WorkspaceShellProofs ------------------------
(***************************************************************************)
(* Proofs about WorkspaceShell, for any registry of tools, any aliases and *)
(* any saved documents.  However tools are docked, floated, dropped,       *)
(* arranged, closed, captured and restored, the tree on screen holds the   *)
(* docked tools, each once (ShellStaysInOrder, TreeAlwaysMatches), what is *)
(* captured comes back after a restart (CaptureAlwaysSurvives), and the    *)
(* tools nobody moved stay in order (OthersStayInOrder).                   *)
(*                                                                         *)
(* Every operation of the tree is recursive, so the proofs are inductions. *)
(* Listed is the least set that pairs each tree with the list of its       *)
(* tools, read from left to right: panes are in it, and so is the split of *)
(* two of its trees, with one list behind the other.  What holds of panes  *)
(* and passes from two trees to their split holds of every tree in Listed; *)
(* an operation is then described by what it does to the list.             *)
(***************************************************************************)
EXTENDS WorkspaceShell, FiniteSetTheorems, SequenceTheorems, WellFoundedInduction, TLAPS

-----------------------------------------------------------------------------
(* Numbers.                                                                 *)

\* A set of naturals that is not empty has a least element: what is left of the naturals
\* up to its elements is finite, and strict inclusion well-founded.
LEMMA LeastExists ==
  ASSUME NEW S \in SUBSET Nat, S # {}
  PROVE  \E m \in S : \A k \in S : m <= k
<1> DEFINE UpTo(m) == 0..m
           T == {UpTo(m) : m \in S}
<1>1. T \subseteq FiniteSubsetsOf(Nat) /\ T # {}
  <2>1. \A m \in S : IsFiniteSet(UpTo(m)) /\ UpTo(m) \subseteq Nat
    BY FS_Interval
  <2>. QED
    BY <2>1 DEF FiniteSubsetsOf
<1>2. \E x \in T : \A y \in T : <<y, x>> \notin StrictSubsetOrdering(Nat)
  BY <1>1, FS_StrictSubsetOrderingWellFounded, WFMin
<1>3. PICK m \in S : \A k \in S : <<UpTo(k), UpTo(m)>> \notin StrictSubsetOrdering(Nat)
  BY <1>2
<1>4. ASSUME NEW k \in S, k < m PROVE FALSE
  <2>1. UpTo(k) \subseteq Nat /\ UpTo(m) \subseteq Nat /\ UpTo(k) \subseteq UpTo(m)
    BY <1>4
  <2>2. m \in UpTo(m) /\ m \notin UpTo(k)
    BY <1>4
  <2>. HIDE DEF UpTo
  <2>3. <<UpTo(k), UpTo(m)>> \in StrictSubsetOrdering(Nat)
    BY <2>1, <2>2 DEF StrictSubsetOrdering
  <2>. QED
    BY <2>3, <1>3
<1>. QED
  BY <1>4

\* Induction over a set of naturals.
LEMMA Induction ==
  ASSUME NEW S, 0 \in S, \A n \in Nat : n \in S => n + 1 \in S
  PROVE  Nat \subseteq S
<1>1. SUFFICES ASSUME Nat \ S # {} PROVE FALSE
  OBVIOUS
<1>2. PICK m \in Nat \ S : \A k \in Nat \ S : m <= k
  BY <1>1, LeastExists
<1>3. m # 0 /\ m - 1 \in Nat /\ m - 1 \in S
  BY <1>2
<1>. QED
  BY <1>3

\* Sets of n + 1 integers have a greatest and a least element, by induction on n.
LEMMA Bounded ==
  ASSUME NEW S \in SUBSET Int, IsFiniteSet(S), S # {}
  PROVE  (\E m \in S : \A k \in S : m >= k) /\ (\E m \in S : \A k \in S : m <= k)
<1> DEFINE HasEnds(T) == (\E m \in T : \A k \in T : m >= k) /\ (\E m \in T : \A k \in T : m <= k)
           Sizes == {n \in Nat : \A T \in SUBSET S : Cardinality(T) = n + 1 => HasEnds(T)}
<1>1. 0 \in Sizes
  <2>1. SUFFICES ASSUME NEW T \in SUBSET S, Cardinality(T) = 1 PROVE HasEnds(T)
    OBVIOUS
  <2>2. IsFiniteSet(T)
    BY FS_Subset
  <2>3. PICK x : T = {x}
    BY <2>1, <2>2, FS_Singleton
  <2>. QED
    BY <2>3
<1>2. ASSUME NEW n \in Nat, n \in Sizes PROVE n + 1 \in Sizes
  <2>1. SUFFICES ASSUME NEW T \in SUBSET S, Cardinality(T) = n + 2 PROVE HasEnds(T)
    OBVIOUS
  <2>0. IsFiniteSet(T)
    BY FS_Subset
  <2>2. IsFiniteSet(T) /\ T # {}
    <3>1. Cardinality(T) # 0
      BY <2>1
    <3>. QED
      BY <3>1, <2>0, FS_EmptySet
  <2>3. PICK x \in T : TRUE
    BY <2>2
  <2>4. Cardinality(T \ {x}) = n + 1
    <3>1. Cardinality(T \ {x}) = Cardinality(T) - 1
      BY <2>2, <2>3, FS_RemoveElement
    <3>. QED
      BY <3>1, <2>1
  <2>5. HasEnds(T \ {x})
    BY <1>2, <2>4
  <2>6. PICK a \in T \ {x} : \A k \in T \ {x} : a >= k
    BY <2>5
  <2>7. PICK b \in T \ {x} : \A k \in T \ {x} : b <= k
    BY <2>5
  <2>8. T \subseteq Int
    OBVIOUS
  <2>9. (\E m \in T : \A k \in T : m >= k)
    <3>1. CASE a >= x
      BY <3>1, <2>6, <2>8
    <3>2. CASE a < x
      <4>1. \A k \in T : x >= k
        BY <3>2, <2>6, <2>8
      <4>. QED
        BY <4>1
    <3>. QED
      BY <3>1, <3>2, <2>3, <2>6, <2>8
  <2>10. (\E m \in T : \A k \in T : m <= k)
    <3>1. CASE b <= x
      BY <3>1, <2>7, <2>8
    <3>2. CASE b > x
      <4>1. \A k \in T : x <= k
        BY <3>2, <2>7, <2>8
      <4>. QED
        BY <4>1
    <3>. QED
      BY <3>1, <3>2, <2>3, <2>7, <2>8
  <2>. QED
    BY <2>9, <2>10
<1>. HIDE DEF Sizes
<1>3. Nat \subseteq Sizes
  BY <1>1, <1>2, Induction
<1>4. Cardinality(S) \in Nat /\ Cardinality(S) # 0
  BY FS_CardinalityType, FS_EmptySet
<1>5. Cardinality(S) - 1 \in Sizes
  BY <1>3, <1>4
<1>. QED
  BY <1>4, <1>5 DEF Sizes

-----------------------------------------------------------------------------
(* Lists of tools.                                                          *)

Members(s) == {s[i] : i \in 1..Len(s)}

\* The second list behind the first.
LEMMA Chained ==
  ASSUME NEW S, NEW p \in Seq(S), NEW q \in Seq(S)
  PROVE  /\ p \o q \in Seq(S) /\ Len(p) \in Nat /\ Len(q) \in Nat
         /\ Len(p \o q) = Len(p) + Len(q)
         /\ \A i \in 1..Len(p) : (p \o q)[i] = p[i]
         /\ \A i \in 1..Len(q) : (p \o q)[Len(p) + i] = q[i]
<1>1. /\ p \o q \in Seq(S) /\ Len(p) \in Nat /\ Len(q) \in Nat
      /\ Len(p \o q) = Len(p) + Len(q)
      /\ \A i \in 1..(Len(p) + Len(q)) :
           (p \o q)[i] = IF i <= Len(p) THEN p[i] ELSE q[i - Len(p)]
  BY ConcatProperties, LenProperties
<1>2. \A i \in 1..Len(p) : (p \o q)[i] = p[i]
  BY <1>1
<1>3. \A i \in 1..Len(q) : (p \o q)[Len(p) + i] = q[i]
  <2>. SUFFICES ASSUME NEW i \in 1..Len(q) PROVE (p \o q)[Len(p) + i] = q[i]
    OBVIOUS
  <2>1. /\ Len(p) + i \in 1..(Len(p) + Len(q)) /\ ~(Len(p) + i <= Len(p))
        /\ (Len(p) + i) - Len(p) = i
    BY <1>1
  <2>. QED
    BY <1>1, <2>1
<1>. QED
  BY <1>1, <1>2, <1>3

\* Each place of a joined list is a place of one of the two.
LEMMA Concatenated ==
  ASSUME NEW S, NEW p \in Seq(S), NEW q \in Seq(S)
  PROVE  /\ p \o q \in Seq(S) /\ Len(p) \in Nat /\ Len(q) \in Nat
         /\ Len(p \o q) = Len(p) + Len(q)
         /\ \A i \in 1..Len(p) : (p \o q)[i] = p[i]
         /\ \A i \in 1..Len(q) : (p \o q)[Len(p) + i] = q[i]
         /\ Members(p \o q) = Members(p) \cup Members(q)
         /\ Members(p) \subseteq S
         /\ IsInjective(p \o q) <=>
              IsInjective(p) /\ IsInjective(q) /\ Members(p) \cap Members(q) = {}
<1>1. /\ p \o q \in Seq(S) /\ Len(p) \in Nat /\ Len(q) \in Nat
      /\ Len(p \o q) = Len(p) + Len(q)
  BY Chained
<1>2. \A i \in 1..Len(p) : (p \o q)[i] = p[i] /\ i \in 1..(Len(p) + Len(q))
  <2>1. \A i \in 1..Len(p) : (p \o q)[i] = p[i]
    BY Chained
  <2>. QED
    BY <1>1, <2>1
<1>3. \A i \in 1..Len(q) : (p \o q)[Len(p) + i] = q[i] /\ Len(p) + i \in 1..(Len(p) + Len(q))
  <2>1. \A i \in 1..Len(q) : (p \o q)[Len(p) + i] = q[i]
    BY Chained
  <2>. QED
    BY <1>1, <2>1
<1>4. \A i \in 1..(Len(p) + Len(q)) :
        i \in 1..Len(p) \/ \E j \in 1..Len(q) : i = Len(p) + j
  <2>. SUFFICES ASSUME NEW i \in 1..(Len(p) + Len(q)), i \notin 1..Len(p)
                PROVE  \E j \in 1..Len(q) : i = Len(p) + j
    OBVIOUS
  <2>1. i - Len(p) \in 1..Len(q) /\ i = Len(p) + (i - Len(p))
    BY <1>1
  <2>. QED
    BY <2>1
<1>5. Members(p \o q) = Members(p) \cup Members(q)
  <2>1. Members(p \o q) \subseteq Members(p) \cup Members(q)
    BY <1>1, <1>2, <1>3, <1>4 DEF Members
  <2>2. Members(p) \subseteq Members(p \o q)
    BY <1>1, <1>2 DEF Members
  <2>3. Members(q) \subseteq Members(p \o q)
    BY <1>1, <1>3 DEF Members
  <2>. QED
    BY <2>1, <2>2, <2>3
<1>6. Members(p) \subseteq S
  BY LenProperties DEF Members
<1>7. DOMAIN p = 1..Len(p) /\ DOMAIN q = 1..Len(q) /\ DOMAIN (p \o q) = 1..(Len(p) + Len(q))
  BY <1>1, LenProperties
<1>8. ASSUME IsInjective(p \o q)
      PROVE  IsInjective(p) /\ IsInjective(q) /\ Members(p) \cap Members(q) = {}
  <2>0. \A i, j \in 1..(Len(p) + Len(q)) : (p \o q)[i] = (p \o q)[j] => i = j
    BY <1>7, <1>8 DEF IsInjective
  <2>1. IsInjective(p)
    BY <1>2, <1>7, <2>0 DEF IsInjective
  <2>2. IsInjective(q)
    <3>. SUFFICES ASSUME NEW i \in 1..Len(q), NEW j \in 1..Len(q), q[i] = q[j] PROVE i = j
      BY <1>7 DEF IsInjective
    <3>1. Len(p) + i = Len(p) + j
      BY <1>3, <2>0
    <3>. QED
      BY <1>1, <3>1
  <2>3. ASSUME NEW x \in Members(p), x \in Members(q) PROVE FALSE
    <3>1. PICK i \in 1..Len(p) : x = p[i]
      BY DEF Members
    <3>2. PICK j \in 1..Len(q) : x = q[j]
      BY <2>3 DEF Members
    <3>3. i = Len(p) + j
      BY <1>2, <1>3, <2>0, <3>1, <3>2
    <3>. QED
      BY <1>1, <3>3
  <2>. QED
    BY <2>1, <2>2, <2>3
<1>9. ASSUME IsInjective(p), IsInjective(q), Members(p) \cap Members(q) = {}
      PROVE  IsInjective(p \o q)
  <2>. SUFFICES ASSUME NEW i \in 1..(Len(p) + Len(q)), NEW j \in 1..(Len(p) + Len(q)),
                       (p \o q)[i] = (p \o q)[j]
                PROVE  i = j
    BY <1>7 DEF IsInjective
  <2>1. CASE i \in 1..Len(p) /\ j \in 1..Len(p)
    <3>1. p[i] = p[j] /\ i \in DOMAIN p /\ j \in DOMAIN p
      BY <1>2, <1>7, <2>1
    <3>. QED
      BY <1>9, <3>1 DEF IsInjective
  <2>2. ASSUME NEW k \in 1..Len(q), NEW l \in 1..Len(q), i = Len(p) + k, j = Len(p) + l
        PROVE  i = j
    <3>1. q[k] = q[l] /\ k \in DOMAIN q /\ l \in DOMAIN q
      BY <1>3, <1>7, <2>2
    <3>2. k = l
      BY <1>9, <3>1 DEF IsInjective
    <3>. QED
      BY <2>2, <3>2
  <2>3. \A k \in 1..Len(p), l \in 1..Len(q) : p[k] # q[l]
    BY <1>9 DEF Members
  <2>4. CASE i \in 1..Len(p) /\ \E l \in 1..Len(q) : j = Len(p) + l
    BY <1>2, <1>3, <2>3, <2>4
  <2>5. CASE j \in 1..Len(p) /\ \E k \in 1..Len(q) : i = Len(p) + k
    BY <1>2, <1>3, <2>3, <2>5
  <2>6. CASE (\E k \in 1..Len(q) : i = Len(p) + k) /\ (\E l \in 1..Len(q) : j = Len(p) + l)
    BY <2>2, <2>6
  <2>. QED
    BY <1>4, <2>1, <2>4, <2>5, <2>6
<1>. QED
  BY <1>1, <1>2, <1>3, <1>5, <1>6, <1>8, <1>9

\* Lists of one.
LEMMA ShortLists ==
  /\ \A t : Members(<<t>>) = {t} /\ IsInjective(<<t>>) /\ Len(<<t>>) = 1
  /\ Members(<<>>) = {} /\ IsInjective(<<>>) /\ Len(<<>>) = 0
<1>1. Members(<<>>) = {} /\ IsInjective(<<>>) /\ Len(<<>>) = 0
  BY DEF Members, IsInjective
<1>2. ASSUME NEW t PROVE Members(<<t>>) = {t} /\ IsInjective(<<t>>) /\ Len(<<t>>) = 1
  BY DEF Members, IsInjective
<1>. QED
  BY <1>1, <1>2

\* The first place of a value.
PlaceOf(s, t) == SelectInSeq(s, LAMBDA u : u = t)

\* The first place of a member.
LEMMA FirstPlace ==
  ASSUME NEW S, NEW s \in Seq(S), NEW t
  PROVE  /\ t \in Members(s) => /\ PlaceOf(s, t) \in 1..Len(s) /\ s[PlaceOf(s, t)] = t
                                /\ \A j \in 1..Len(s) : s[j] = t => PlaceOf(s, t) <= j
         /\ t \notin Members(s) => PlaceOf(s, t) = 0
<1> DEFINE I == {i \in 1..Len(s) : s[i] = t}
<1>1. PlaceOf(s, t) = IF I # {} THEN Min(I) ELSE 0
  BY DEF PlaceOf, SelectInSeq
<1>2. I \in SUBSET Nat /\ (I # {} <=> t \in Members(s))
  BY LenProperties DEF Members
<1>3. I # {} => Min(I) \in I /\ \A j \in I : Min(I) <= j
  <2>. HIDE DEF I
  <2>. QED
    BY <1>2, LeastExists DEF Min
<1>. QED
  BY <1>1, <1>2, <1>3

\* Around its first place a list splits in two.
LEMMA Around ==
  ASSUME NEW S, NEW s \in Seq(S), NEW t \in Members(s)
  PROVE  \E p, q \in Seq(S) : s = (p \o <<t>>) \o q /\ t \notin Members(p) /\ t \in S
<1> DEFINE i == PlaceOf(s, t)
           p == SubSeq(s, 1, i - 1)
           q == SubSeq(s, i + 1, Len(s))
<1>1. i \in 1..Len(s) /\ s[i] = t /\ \A j \in 1..Len(s) : s[j] = t => i <= j
  BY FirstPlace
<1>. HIDE DEF i
<1>2. Len(s) \in Nat /\ t \in S /\ DOMAIN s = 1..Len(s)
  BY <1>1, LenProperties
<1>3. /\ p \in Seq(S) /\ Len(p) = i - 1 /\ \A j \in 1..(i - 1) : p[j] = s[j]
  BY <1>1, <1>2, SubSeqProperties
<1>4. /\ q \in Seq(S) /\ Len(q) = Len(s) - i
      /\ \A j \in 1..(Len(s) - i) : q[j] = s[i + j]
  <2>1. /\ q \in Seq(S) /\ Len(q) = IF i + 1 <= Len(s) THEN Len(s) - (i + 1) + 1 ELSE 0
        /\ \A j \in 1..Len(q) : q[j] = s[(i + 1) + j - 1]
    <3>1. /\ i + 1 \in Int /\ Len(s) \in Int /\ Len(s) - (i + 1) + 1 = Len(s) - i
          /\ \A j \in (i + 1)..Len(s) : s[j] \in S
      BY <1>1, <1>2
    <3>2. /\ q \in Seq(S) /\ Len(q) = IF i + 1 <= Len(s) THEN Len(s) - (i + 1) + 1 ELSE 0
          /\ \A j \in 1..(Len(s) - (i + 1) + 1) : q[j] = s[(i + 1) + j - 1]
      BY <3>1, SubSeqProperties
    <3>. HIDE DEF q
    <3>3. CASE i + 1 <= Len(s)
      BY <3>2, <3>3
    <3>4. CASE ~(i + 1 <= Len(s))
      BY <3>2, <3>4
    <3>. QED
      BY <3>3, <3>4
  <2>2. Len(q) = Len(s) - i
    BY <1>1, <1>2, <2>1
  <2>. HIDE DEF q
  <2>4. ASSUME NEW j \in 1..Len(q) PROVE q[j] = s[i + j]
    <3>1. (i + 1) + j - 1 = i + j
      BY <1>1
    <3>2. q[j] = s[(i + 1) + j - 1]
      BY <2>1
    <3>. QED
      BY <3>1, <3>2
  <2>. QED
    BY <2>1, <2>2, <2>4
<1>. HIDE DEF p, q
<1>5. /\ p \o <<t>> \in Seq(S) /\ Len(p \o <<t>>) = i
      /\ \A j \in 1..(i - 1) : (p \o <<t>>)[j] = s[j]
      /\ (p \o <<t>>)[i] = t
  <2>1. <<t>> \in Seq(S) /\ Len(<<t>>) = 1 /\ <<t>>[1] = t
    BY <1>2
  <2>2. /\ p \o <<t>> \in Seq(S) /\ Len(p \o <<t>>) = Len(p) + Len(<<t>>)
        /\ \A j \in 1..Len(p) : (p \o <<t>>)[j] = p[j]
        /\ \A j \in 1..Len(<<t>>) : (p \o <<t>>)[Len(p) + j] = <<t>>[j]
    BY <1>3, <2>1, Chained
  <2>3. Len(p) + 1 = i /\ 1 \in 1..Len(<<t>>)
    BY <1>1, <1>3, <2>1
  <2>. QED
    BY <1>1, <1>3, <2>1, <2>2, <2>3
<1> DEFINE r == (p \o <<t>>) \o q
<1>6. /\ r \in Seq(S) /\ Len(r) = Len(s)
      /\ \A j \in 1..Len(s) : r[j] = s[j]
  <2>1. /\ r \in Seq(S) /\ Len(r) = i + Len(q)
        /\ \A j \in 1..i : r[j] = (p \o <<t>>)[j]
        /\ \A j \in 1..Len(q) : r[i + j] = q[j]
    <3> DEFINE m == p \o <<t>>
    <3>0. m \in Seq(S) /\ q \in Seq(S)
      BY <1>4, <1>5
    <3>. HIDE DEF m
    <3>1. /\ m \o q \in Seq(S) /\ Len(m \o q) = Len(m) + Len(q)
          /\ \A j \in 1..Len(m) : (m \o q)[j] = m[j]
          /\ \A j \in 1..Len(q) : (m \o q)[Len(m) + j] = q[j]
      BY <3>0, Chained
    <3>. USE DEF m
    <3>. QED
      BY <1>5, <3>1
  <2>. HIDE DEF r
  <2>2. ASSUME NEW j \in 1..Len(s) PROVE r[j] = s[j]
    <3>1. CASE j < i
      BY <1>1, <1>5, <2>1, <3>1
    <3>2. CASE j = i
      BY <1>1, <1>5, <2>1, <3>2
    <3>3. CASE j > i
      <4>1. j - i \in 1..Len(q) /\ i + (j - i) = j
        BY <1>1, <1>2, <1>4, <3>3
      <4>. QED
        BY <1>4, <2>1, <4>1
    <3>. QED
      BY <1>1, <3>1, <3>2, <3>3
  <2>. QED
    BY <1>1, <1>2, <1>4, <2>1, <2>2
<1>. HIDE DEF r
<1>7. r = s
  BY <1>6, SeqEqual
<1>8. t \notin Members(p)
  BY <1>1, <1>2, <1>3 DEF Members
<1>. QED
  BY <1>2, <1>3, <1>4, <1>7, <1>8 DEF r

\* What is left when a tool is taken out.
LEMMA TakingOut ==
  ASSUME NEW S, NEW p \in Seq(S), NEW q \in Seq(S), NEW t \in S, t \notin Members(p)
  PROVE  /\ Without((p \o <<t>>) \o q, t) = p \o q
         /\ Before((p \o <<t>>) \o q, t) = p
<1> DEFINE s == (p \o <<t>>) \o q
           n == Len(p)
           i == PlaceOf(s, t)
<1>1. <<t>> \in Seq(S) /\ Len(<<t>>) = 1 /\ <<t>>[1] = t
  OBVIOUS
<1>2. /\ p \o <<t>> \in Seq(S) /\ Len(p \o <<t>>) = n + 1 /\ n \in Nat
      /\ \A j \in 1..n : (p \o <<t>>)[j] = p[j]
      /\ (p \o <<t>>)[n + 1] = t
  <2>1. 1 \in 1..Len(<<t>>)
    BY <1>1
  <2>. QED
    BY <1>1, <2>1, Chained
<1>3. /\ s \in Seq(S) /\ Len(s) = n + 1 + Len(q) /\ Len(q) \in Nat
      /\ \A j \in 1..(n + 1) : s[j] = (p \o <<t>>)[j]
      /\ \A j \in 1..Len(q) : s[(n + 1) + j] = q[j]
  BY <1>2, Chained
<1>. HIDE DEF s
<1>4. /\ n + 1 \in 1..Len(s) /\ s[n + 1] = t
      /\ \A j \in 1..n : s[j] = p[j] /\ s[j] # t
  <2>1. n + 1 \in 1..Len(s) /\ n + 1 \in 1..(n + 1) /\ \A j \in 1..n : j \in 1..(n + 1)
    BY <1>2, <1>3
  <2>2. \A j \in 1..n : p[j] # t
    BY DEF Members
  <2>. QED
    BY <1>2, <1>3, <2>1, <2>2
<1>5. t \in Members(s)
  BY <1>4 DEF Members
<1>6. i = n + 1
  <2>1. i \in 1..Len(s) /\ s[i] = t /\ \A j \in 1..Len(s) : s[j] = t => i <= j
    BY <1>3, <1>5, FirstPlace
  <2>. HIDE DEF i
  <2>2. i <= n + 1 /\ ~(i \in 1..n)
    BY <1>4, <2>1
  <2>. QED
    BY <1>2, <2>1, <2>2
<1>7. SubSeq(s, 1, n) = p
  <2>1. /\ SubSeq(s, 1, n) \in Seq(S) /\ Len(SubSeq(s, 1, n)) = n
        /\ \A j \in 1..n : SubSeq(s, 1, n)[j] = s[j]
    BY <1>2, <1>3, SubSeqProperties
  <2>. QED
    BY <1>4, <2>1, SeqEqual
<1>8. SubSeq(s, (n + 1) + 1, Len(s)) = q
  <2> DEFINE r == SubSeq(s, (n + 1) + 1, Len(s))
  <2>1. /\ r \in Seq(S)
        /\ Len(r) = IF (n + 1) + 1 <= Len(s) THEN Len(s) - ((n + 1) + 1) + 1 ELSE 0
        /\ \A j \in 1..Len(r) : r[j] = s[((n + 1) + 1) + j - 1]
    BY <1>2, <1>3, SubSeqProperties
  <2>. HIDE DEF r
  <2>2. Len(r) = Len(q)
    BY <1>2, <1>3, <2>1
  <2>3. \A j \in 1..Len(q) : ((n + 1) + 1) + j - 1 = (n + 1) + j
    BY <1>2
  <2>4. \A j \in 1..Len(q) : r[j] = q[j]
    BY <1>3, <2>1, <2>2, <2>3
  <2>5. r = q
    BY <2>1, <2>2, <2>4, SeqEqual
  <2>. QED
    BY <2>5 DEF r
<1>9. (n + 1) - 1 = n
  BY <1>2
<1>10. Before(s, t) = p
  <2>1. Before(s, t) = SubSeq(s, 1, i - 1)
    BY DEF Before, PlaceOf
  <2>. HIDE DEF i
  <2>. QED
    BY <1>6, <1>7, <1>9, <2>1
<1>11. Without(s, t) = p \o q
  <2>1. \E j \in 1..Len(s) : s[j] = t
    BY <1>4
  <2>2. Without(s, t) = SubSeq(s, 1, i - 1) \o SubSeq(s, i + 1, Len(s))
    BY <2>1 DEF Without, RemoveFirst, RemoveAt, PlaceOf
  <2>. HIDE DEF i
  <2>. QED
    BY <1>6, <1>7, <1>8, <1>9, <2>2
<1>. QED
  BY <1>10, <1>11 DEF s

\* Lists one after another, and a list with another in it.
Cat(p, q) == p \o q
Between(a, m, b) == Cat(Cat(a, m), b)

\* Joining lists is associative.
LEMMA Regrouped ==
  ASSUME NEW S, NEW p \in Seq(S), NEW q \in Seq(S), NEW r \in Seq(S)
  PROVE  Cat(p, q) \in Seq(S) /\ Cat(Cat(p, q), r) = Cat(p, Cat(q, r))
BY ConcatAssociative, ConcatProperties DEF Cat

LEMMA Extended ==
  ASSUME NEW S, NEW x \in Seq(S), NEW y \in Seq(S), NEW z \in Seq(S), NEW w \in Seq(S)
  PROVE  /\ Between(x, y, z) \in Seq(S)
         /\ Cat(Between(x, y, z), w) = Between(x, y, Cat(z, w))
         /\ Cat(w, Between(x, y, z)) = Between(Cat(w, x), y, z)
BY Regrouped DEF Between

\* What is left of a list without one of its values.
LEMMA Leaving ==
  ASSUME NEW S, NEW s \in Seq(S), NEW t
  PROVE  /\ Without(s, t) \in Seq(S)
         /\ t \notin Members(s) => Without(s, t) = s
         /\ IsInjective(s) => /\ IsInjective(Without(s, t))
                              /\ Members(Without(s, t)) = Members(s) \ {t}
<1>1. CASE t \notin Members(s)
  <2>1. Without(s, t) = s
    BY <1>1 DEF Without, RemoveFirst, Members
  <2>. QED
    BY <1>1, <2>1
<1>2. CASE t \in Members(s)
  <2>1. PICK p \in Seq(S), q \in Seq(S) : s = (p \o <<t>>) \o q /\ t \notin Members(p) /\ t \in S
    BY <1>2, Around
  <2>2. Without(s, t) = p \o q
    BY <2>1, TakingOut
  <2>3. p \o q \in Seq(S) /\ Members(p \o q) = Members(p) \cup Members(q)
    BY Concatenated
  <2>4. IsInjective(p \o q) <=> IsInjective(p) /\ IsInjective(q) /\ Members(p) \cap Members(q) = {}
    BY Concatenated
  <2>5. <<t>> \in Seq(S) /\ Members(<<t>>) = {t}
    BY <2>1, ShortLists
  <2> DEFINE pt == p \o <<t>>
  <2>6. /\ pt \in Seq(S) /\ Members(pt) = Members(p) \cup {t}
        /\ IsInjective(pt) => IsInjective(p)
    BY <2>5, Concatenated
  <2>7. s = pt \o q
    BY <2>1
  <2>. HIDE DEF pt
  <2>8. /\ Members(s) = Members(pt) \cup Members(q)
        /\ IsInjective(s) => IsInjective(pt) /\ IsInjective(q) /\ Members(pt) \cap Members(q) = {}
    BY <2>6, <2>7, Concatenated
  <2>. QED
    BY <1>2, <2>1, <2>2, <2>3, <2>4, <2>6, <2>8
<1>. QED
  BY <1>1, <1>2

LEMMA LeavingEither ==
  ASSUME NEW S, NEW p \in Seq(S), NEW q \in Seq(S), IsInjective(p \o q), NEW t
  PROVE  Without(p \o q, t) = Without(p, t) \o Without(q, t)
<1>1. Members(p) \cap Members(q) = {} /\ Members(p \o q) = Members(p) \cup Members(q)
  BY Concatenated
<1>2. CASE t \in Members(p)
  <2>1. PICK a \in Seq(S), b \in Seq(S) : p = (a \o <<t>>) \o b /\ t \notin Members(a) /\ t \in S
    BY <1>2, Around
  <2>2. Without(p, t) = a \o b /\ Without(q, t) = q
    <3>1. Without(p, t) = a \o b
      BY <2>1, TakingOut
    <3>2. t \notin Members(q)
      BY <1>1, <1>2
    <3>. QED
      BY <3>1, <3>2, Leaving
  <2>3. <<t>> \in Seq(S) /\ a \o <<t>> \in Seq(S) /\ b \o q \in Seq(S)
    BY <2>1, ConcatProperties
  <2>4. p \o q = (a \o <<t>>) \o (b \o q)
    <3>1. ((a \o <<t>>) \o b) \o q = (a \o <<t>>) \o (b \o q)
      BY <2>3, ConcatAssociative
    <3>. QED
      BY <2>1, <3>1
  <2>5. Without(p \o q, t) = a \o (b \o q)
    <3>1. t \notin Members(a) /\ t \in S
      BY <2>1
    <3>2. Without((a \o <<t>>) \o (b \o q), t) = a \o (b \o q)
      BY <2>3, <3>1, TakingOut
    <3>. QED
      BY <2>4, <3>2
  <2>6. (a \o b) \o q = a \o (b \o q)
    BY ConcatAssociative
  <2>. QED
    BY <2>2, <2>5, <2>6
<1>3. CASE t \notin Members(p) /\ t \in Members(q)
  <2>1. PICK a \in Seq(S), b \in Seq(S) : q = (a \o <<t>>) \o b /\ t \notin Members(a) /\ t \in S
    BY <1>3, Around
  <2>2. Without(p, t) = p /\ Without(q, t) = a \o b
    BY <1>3, <2>1, Leaving, TakingOut
  <2>3. /\ <<t>> \in Seq(S) /\ a \o <<t>> \in Seq(S) /\ p \o a \in Seq(S)
        /\ Members(p \o a) = Members(p) \cup Members(a)
    BY <2>1, ConcatProperties, Concatenated
  <2>4. p \o q = (p \o (a \o <<t>>)) \o b
    <3> DEFINE c == a \o <<t>>
    <3>c. c \in Seq(S)
      BY <2>3
    <3>. HIDE DEF c
    <3>0. (p \o c) \o b = p \o (c \o b)
      BY <2>1, <3>c, ConcatAssociative
    <3>1. (p \o (a \o <<t>>)) \o b = p \o ((a \o <<t>>) \o b)
      BY <3>0 DEF c
    <3>. QED
      BY <2>1, <3>1
  <2>5. p \o (a \o <<t>>) = (p \o a) \o <<t>>
    BY <2>3, ConcatAssociative
  <2>6. Without(p \o q, t) = (p \o a) \o b
    <3>1. t \notin Members(p \o a) /\ t \in S
      BY <1>3, <2>1, <2>3
    <3>2. Without(((p \o a) \o <<t>>) \o b, t) = (p \o a) \o b
      BY <2>3, <3>1, TakingOut
    <3>. QED
      BY <2>4, <2>5, <3>2
  <2>7. (p \o a) \o b = p \o (a \o b)
    BY ConcatAssociative
  <2>. QED
    BY <2>2, <2>6, <2>7
<1>4. CASE t \notin Members(p) /\ t \notin Members(q)
  <2>1. t \notin Members(p \o q) /\ p \o q \in Seq(S)
    BY <1>1, <1>4, Concatenated
  <2>. QED
    BY <1>4, <2>1, Leaving
<1>. QED
  BY <1>2, <1>3, <1>4

\* A value put into a list, and what is left without it.
LEMMA Entering ==
  ASSUME NEW S, NEW p \in Seq(S), NEW q \in Seq(S), NEW t \in S,
         t \notin Members(p \o q), IsInjective(p \o q)
  PROVE  /\ (p \o <<t>>) \o q \in Seq(S) /\ IsInjective((p \o <<t>>) \o q)
         /\ Members((p \o <<t>>) \o q) = Members(p \o q) \cup {t}
         /\ Without((p \o <<t>>) \o q, t) = p \o q
<1>1. /\ Members(p \o q) = Members(p) \cup Members(q)
      /\ IsInjective(p) /\ IsInjective(q) /\ Members(p) \cap Members(q) = {}
  BY Concatenated
<1>2. <<t>> \in Seq(S) /\ Members(<<t>>) = {t} /\ IsInjective(<<t>>)
  BY ShortLists
<1> DEFINE pt == p \o <<t>>
<1>3. pt \in Seq(S) /\ Members(pt) = Members(p) \cup {t} /\ IsInjective(pt)
  <2>1. Members(p) \cap Members(<<t>>) = {}
    BY <1>1, <1>2
  <2>2. /\ p \o <<t>> \in Seq(S) /\ Members(p \o <<t>>) = Members(p) \cup Members(<<t>>)
        /\ IsInjective(p \o <<t>>) <=>
             IsInjective(p) /\ IsInjective(<<t>>) /\ Members(p) \cap Members(<<t>>) = {}
    BY <1>2, Concatenated
  <2>. QED
    BY <1>1, <1>2, <2>1, <2>2
<1>. HIDE DEF pt
<1>4. Members(pt) \cap Members(q) = {}
  BY <1>1, <1>3
<1>5. pt \o q \in Seq(S) /\ IsInjective(pt \o q) /\ Members(pt \o q) = Members(pt) \cup Members(q)
  BY <1>1, <1>3, <1>4, Concatenated
<1>6. Without((p \o <<t>>) \o q, t) = p \o q
  BY <1>1, TakingOut
<1>. QED
  BY <1>1, <1>3, <1>5, <1>6 DEF pt

\* Distinct tools are not more than the registered ones.
LEMMA DistinctTools ==
  ASSUME NEW s \in Seq(Tools), IsInjective(s)
  PROVE  Len(s) <= Len(Registry)
<1>1. /\ Registry \in Seq(Tools) /\ Len(Registry) \in Nat /\ DOMAIN Registry = 1..Len(Registry)
      /\ Registry \in [1..Len(Registry) -> Tools]
  BY LenProperties, WorkspaceAssumption
<1>2. Registry \in Surjection(1..Len(Registry), Tools)
  BY <1>1 DEF Surjection, Tools
<1>3. /\ IsFiniteSet(1..Len(Registry)) /\ Cardinality(1..Len(Registry)) = Len(Registry)
  <2>1. 1 \in Int /\ Len(Registry) \in Int
    BY <1>1
  <2>2. Cardinality(1..Len(Registry)) = IF 1 > Len(Registry) THEN 0 ELSE Len(Registry) - 1 + 1
    BY <2>1, FS_Interval
  <2>3. IsFiniteSet(1..Len(Registry))
    BY <2>1, FS_Interval
  <2>. QED
    BY <1>1, <2>2, <2>3
<1>4. IsFiniteSet(Tools) /\ Cardinality(Tools) <= Len(Registry) /\ Cardinality(Tools) \in Nat
  BY <1>2, <1>3, FS_Surjection, FS_CardinalityType
<1>5. Len(s) \in Nat /\ s \in Injection(1..Len(s), Tools)
  BY LenProperties DEF Injection
<1>6. Cardinality(1..Len(s)) <= Cardinality(Tools)
  BY <1>4, <1>5, FS_Injection
<1>7. Cardinality(1..Len(s)) = Len(s)
  <2>1. Cardinality(1..Len(s)) = IF 1 > Len(s) THEN 0 ELSE Len(s) - 1 + 1
    BY <1>5, FS_Interval
  <2>. QED
    BY <1>5, <2>1
<1>. QED
  BY <1>1, <1>4, <1>5, <1>6, <1>7

-----------------------------------------------------------------------------
(* Trees.                                                                   *)

\* The splits over given nodes.
SplitsOver(ratios, nodes) ==
  [split : {TRUE}, vertical : BOOLEAN, ratio : ratios, first : nodes, second : nodes]

Growing(f, panes, ratios, n) ==
  f = [k \in 0..n |-> IF k = 0 THEN panes ELSE panes \cup SplitsOver(ratios, f[k - 1])]

\* TreesOver is the recursion it says.
LEMMA TreesExist ==
  ASSUME NEW panes, NEW ratios
  PROVE  \A n \in Nat : \E f : Growing(f, panes, ratios, n)
<1> DEFINE Level(f, k) == IF k = 0 THEN panes ELSE panes \cup SplitsOver(ratios, f[k - 1])
           S == {n \in Nat : \E f : Growing(f, panes, ratios, n)}
<1>1. 0 \in S
  <2> DEFINE f == [k \in 0..0 |-> panes]
  <2>1. Growing(f, panes, ratios, 0)
    BY DEF Growing
  <2>. QED
    BY <2>1
<1>2. ASSUME NEW n \in Nat, n \in S PROVE n + 1 \in S
  <2>0. PICK f : Growing(f, panes, ratios, n)
    BY <1>2
  <2>1. f = [k \in 0..n |-> Level(f, k)]
    BY <2>0 DEF Growing
  <2> DEFINE g == [k \in 0..(n + 1) |-> IF k = n + 1 THEN panes \cup SplitsOver(ratios, f[n])
                                        ELSE f[k]]
  <2>2. ASSUME NEW k \in 0..(n + 1) PROVE g[k] = Level(g, k)
    <3>1. CASE k = n + 1
      <4>1. g[n] = f[n] /\ k - 1 = n /\ k # 0 /\ n \in 0..(n + 1) /\ n # n + 1
        BY <3>1
      <4>. QED
        BY <3>1, <4>1
    <3>2. CASE k # n + 1
      <4>0. k \in 0..n
        BY <3>2
      <4>1. k \in 0..n /\ g[k] = f[k] /\ f[k] = Level(f, k)
        <5>. HIDE DEF Level
        <5>. QED
          BY <3>2, <4>0, <2>1
      <4>2. k # 0 => k - 1 \in 0..(n + 1) /\ k - 1 # n + 1
        BY <4>1
      <4>3. k # 0 => g[k - 1] = f[k - 1]
        BY <4>2
      <4>. QED
        BY <4>1, <4>3
    <3>. QED
      BY <3>1, <3>2
  <2>3. g = [k \in 0..(n + 1) |-> Level(g, k)]
    BY <2>2
  <2>4. Growing(g, panes, ratios, n + 1)
    <3>. HIDE DEF g
    <3>. QED
      BY <2>3 DEF Growing
  <2>. HIDE DEF g, Level
  <2>. QED
    BY <2>4
<1>. HIDE DEF S
<1>3. Nat \subseteq S
  BY <1>1, <1>2, Induction
<1>. QED
  BY <1>3 DEF S

\* What TreesOver holds at each depth.
LEMMA TreesAre ==
  ASSUME NEW panes, NEW ratios
  PROVE  /\ TreesOver(panes, ratios)[0] = panes
         /\ \A k \in Nat : TreesOver(panes, ratios)[k + 1]
                             = panes \cup SplitsOver(ratios, TreesOver(panes, ratios)[k])
<1> DEFINE Level(f, k) == IF k = 0 THEN panes ELSE panes \cup SplitsOver(ratios, f[k - 1])
           Upto(n) == CHOOSE f : Growing(f, panes, ratios, n)
           T == [n \in Nat |-> Upto(n)[n]]
           Same == {k \in Nat : \A n \in Nat : k <= n => Upto(n)[k] = Upto(k)[k]}
<1>1. \A n \in Nat : Upto(n) = [k \in 0..n |-> Level(Upto(n), k)]
  <2>. SUFFICES ASSUME NEW n \in Nat PROVE Upto(n) = [k \in 0..n |-> Level(Upto(n), k)]
    OBVIOUS
  <2>1. \E f : Growing(f, panes, ratios, n)
    BY TreesExist
  <2>2. Growing(Upto(n), panes, ratios, n)
    BY <2>1
  <2>. HIDE DEF Upto
  <2>. QED
    BY <2>2 DEF Growing
<1>. HIDE DEF Upto
<1>2. 0 \in Same
  BY <1>1
<1>3. ASSUME NEW k \in Nat, k \in Same PROVE k + 1 \in Same
  <2>. SUFFICES ASSUME NEW n \in Nat, k + 1 <= n PROVE Upto(n)[k + 1] = Upto(k + 1)[k + 1]
    OBVIOUS
  <2>1. /\ k + 1 \in 0..n /\ k + 1 \in 0..(k + 1) /\ k + 1 # 0 /\ (k + 1) - 1 = k
        /\ k <= n /\ k <= k + 1 /\ k + 1 \in Nat
    OBVIOUS
  <2>2. Upto(n)[k] = Upto(k)[k] /\ Upto(k + 1)[k] = Upto(k)[k]
    BY <1>3, <2>1
  <2>3. Upto(n)[k + 1] = panes \cup SplitsOver(ratios, Upto(n)[k])
    BY <1>1, <2>1
  <2>4. Upto(k + 1)[k + 1] = panes \cup SplitsOver(ratios, Upto(k + 1)[k])
    BY <1>1, <2>1
  <2>. QED
    BY <2>2, <2>3, <2>4
<1>. HIDE DEF Same
<1>4. Nat \subseteq Same
  BY <1>2, <1>3, Induction
<1>5. ASSUME NEW k \in Nat PROVE T[k] = IF k = 0 THEN panes ELSE panes \cup SplitsOver(ratios, T[k - 1])
  <2>1. k # 0 => k - 1 \in Nat /\ k - 1 \in Same /\ k - 1 <= k
    BY <1>4
  <2>2. k # 0 => Upto(k)[k - 1] = Upto(k - 1)[k - 1]
    BY <2>1 DEF Same
  <2>3. k \in 0..k
    OBVIOUS
  <2>. QED
    BY <1>1, <2>1, <2>2, <2>3
<1>6. T = [k \in Nat |-> IF k = 0 THEN panes ELSE panes \cup SplitsOver(ratios, T[k - 1])]
  BY <1>5
<1>. HIDE DEF T
<1> DEFINE Recursion(f) == f = [k \in Nat |-> IF k = 0 THEN panes ELSE panes \cup SplitsOver(ratios, f[k - 1])]
<1>7. TreesOver(panes, ratios) = CHOOSE f : Recursion(f)
  BY DEF TreesOver, SplitsOver
<1>8. Recursion(TreesOver(panes, ratios))
  <2>1. Recursion(T)
    BY <1>6
  <2>. HIDE DEF Recursion
  <2>. QED
    BY <1>7, <2>1
<1>9. \A k \in Nat : k + 1 \in Nat /\ k + 1 # 0 /\ (k + 1) - 1 = k
  OBVIOUS
<1>. QED
  BY <1>8, <1>9

\* A tree of some depth is a tree of every greater one.
LEMMA DeeperTrees ==
  ASSUME NEW panes, NEW ratios, NEW m \in Nat
  PROVE  \A k \in 0..m : TreesOver(panes, ratios)[k] \subseteq TreesOver(panes, ratios)[m]
<1> DEFINE T == TreesOver(panes, ratios)
           S == {n \in Nat : T[n] \subseteq T[n + 1]}
           R == {n \in Nat : \A k \in 0..n : T[k] \subseteq T[n]}
<1>0. T[0] = panes /\ \A k \in Nat : T[k + 1] = panes \cup SplitsOver(ratios, T[k])
  BY TreesAre
<1>. HIDE DEF T
<1>1. 0 \in S
  BY <1>0
<1>2. ASSUME NEW n \in Nat, n \in S PROVE n + 1 \in S
  <2>1. T[n] \subseteq T[n + 1]
    BY <1>2
  <2>2. SplitsOver(ratios, T[n]) \subseteq SplitsOver(ratios, T[n + 1])
    BY <2>1 DEF SplitsOver
  <2>3. n + 1 \in Nat /\ T[n + 1] = panes \cup SplitsOver(ratios, T[n])
    BY <1>0
  <2>4. T[(n + 1) + 1] = panes \cup SplitsOver(ratios, T[n + 1])
    BY <1>0, <2>3
  <2>. QED
    BY <2>2, <2>3, <2>4
<1>. HIDE DEF S
<1>3. Nat \subseteq S
  BY <1>1, <1>2, Induction
<1>4. 0 \in R
  OBVIOUS
<1>5. ASSUME NEW n \in Nat, n \in R PROVE n + 1 \in R
  <2>. SUFFICES ASSUME NEW k \in 0..(n + 1) PROVE T[k] \subseteq T[n + 1]
    OBVIOUS
  <2>1. T[n] \subseteq T[n + 1]
    BY <1>3 DEF S
  <2>2. k = n + 1 \/ k \in 0..n
    OBVIOUS
  <2>. QED
    BY <1>5, <2>1, <2>2
<1>. HIDE DEF R
<1>6. Nat \subseteq R
  BY <1>4, <1>5, Induction
<1>. QED
  BY <1>6 DEF R, T

\* Induction over trees: panes first, then splits over what is there.
LEMMA TreeInduction ==
  ASSUME NEW panes, NEW ratios, NEW m \in Nat, NEW Q, panes \subseteq Q,
         \A n \in TreesOver(panes, ratios)[m] :
           n \in SplitsOver(ratios, TreesOver(panes, ratios)[m] \cap Q) => n \in Q
  PROVE  TreesOver(panes, ratios)[m] \subseteq Q
<1> DEFINE T == TreesOver(panes, ratios)
           S == {n \in Nat : n <= m => T[n] \subseteq Q}
<1>0. T[0] = panes /\ \A k \in Nat : T[k + 1] = panes \cup SplitsOver(ratios, T[k])
  BY TreesAre
<1>1. \A k \in 0..m : T[k] \subseteq T[m]
  BY DeeperTrees
<1>2. \A n \in T[m] : n \in SplitsOver(ratios, T[m] \cap Q) => n \in Q
  OBVIOUS
<1>. HIDE DEF T
<1>3. 0 \in S
  BY <1>0
<1>4. ASSUME NEW n \in Nat, n \in S PROVE n + 1 \in S
  <2>. SUFFICES ASSUME n + 1 <= m PROVE T[n + 1] \subseteq Q
    OBVIOUS
  <2>1. T[n] \subseteq Q /\ T[n] \subseteq T[m] /\ T[n + 1] \subseteq T[m]
    BY <1>1, <1>4
  <2>2. SplitsOver(ratios, T[n]) \subseteq SplitsOver(ratios, T[m] \cap Q)
    BY <2>1 DEF SplitsOver
  <2>. QED
    BY <1>0, <1>2, <2>1, <2>2
<1>. HIDE DEF S
<1>5. Nat \subseteq S
  BY <1>3, <1>4, Induction
<1>. QED
  BY <1>5 DEF S, T

\* Trees of more panes and ratios.
LEMMA MoreTrees ==
  ASSUME NEW panes, NEW ratios, NEW more, panes \subseteq more, NEW wider, ratios \subseteq wider
  PROVE  \A k \in Nat : TreesOver(panes, ratios)[k] \subseteq TreesOver(more, wider)[k]
<1> DEFINE T == TreesOver(panes, ratios)
           U == TreesOver(more, wider)
           S == {n \in Nat : T[n] \subseteq U[n]}
<1>0. /\ T[0] = panes /\ \A k \in Nat : T[k + 1] = panes \cup SplitsOver(ratios, T[k])
      /\ U[0] = more /\ \A k \in Nat : U[k + 1] = more \cup SplitsOver(wider, U[k])
  BY TreesAre
<1>. HIDE DEF T, U
<1>1. 0 \in S
  BY <1>0
<1>2. ASSUME NEW n \in Nat, n \in S PROVE n + 1 \in S
  <2>1. SplitsOver(ratios, T[n]) \subseteq SplitsOver(wider, U[n])
    BY <1>2 DEF SplitsOver
  <2>. QED
    BY <1>0, <2>1
<1>. HIDE DEF S
<1>3. Nat \subseteq S
  BY <1>1, <1>2, Induction
<1>. QED
  BY <1>3 DEF S, T, U

-----------------------------------------------------------------------------
(* Recursion over trees.                                                    *)

SplitTrees == {n \in Trees : n.split}

\* What base makes of panes and join of splits, over trees of some depth.
Folds(f, base, join, trees) ==
  \A n \in trees : f[n] = IF n.split THEN join[<<n, f[n.first], f[n.second]>>] ELSE base[n]

\* A node is a pane or a split of two shallower nodes.
LEMMA TreeNodes ==
  ASSUME MaxNesting \in Nat
  PROVE  /\ Panes \subseteq Trees /\ \A n \in Panes : ~n.split
         /\ \A n \in Trees : \/ n \in Panes /\ ~n.split
                             \/ /\ n.split /\ n \in SplitsOver(Int, Trees)
                                /\ n.first \in Trees /\ n.second \in Trees
<1> DEFINE T == TreesOver(Panes, Int)
<1>0. T[0] = Panes /\ \A k \in Nat : T[k + 1] = Panes \cup SplitsOver(Int, T[k])
  BY TreesAre
<1>1. \A k \in 0..MaxNesting : T[k] \subseteq T[MaxNesting]
  BY DeeperTrees
<1>2. Trees = T[MaxNesting]
  BY DEF Trees
<1>. HIDE DEF T
<1>3. Panes \subseteq Trees /\ \A n \in Panes : ~n.split
  <2>1. \A n \in Panes : ~n.split
    BY DEF Panes
  <2>. QED
    BY <1>0, <1>1, <1>2, <2>1
<1>4. ASSUME NEW n \in Trees
      PROVE  \/ n \in Panes /\ ~n.split
             \/ /\ n.split /\ n \in SplitsOver(Int, Trees)
                /\ n.first \in Trees /\ n.second \in Trees
  <2>1. CASE n \in Panes
    BY <2>1 DEF Panes
  <2>2. CASE n \notin Panes
    <3>1. MaxNesting # 0
      BY <1>0, <1>2, <2>2
    <3>2. MaxNesting - 1 \in Nat /\ (MaxNesting - 1) + 1 = MaxNesting
      BY <3>1
    <3>3. T[MaxNesting] = Panes \cup SplitsOver(Int, T[MaxNesting - 1])
      BY <1>0, <3>2
    <3>4. T[MaxNesting - 1] \subseteq Trees
      BY <1>1, <1>2, <3>2
    <3>5. n \in SplitsOver(Int, T[MaxNesting - 1])
      BY <1>2, <2>2, <3>3
    <3>. QED
      BY <3>4, <3>5 DEF SplitsOver
  <2>. QED
    BY <2>1, <2>2
<1>. QED
  BY <1>3, <1>4

\* A recursive definition over trees has the value its equation gives it.
LEMMA TreeRecursion ==
  ASSUME MaxNesting \in Nat, NEW V, NEW base \in [Panes -> V],
         NEW join \in [SplitTrees \X V \X V -> V]
  PROVE  \E f \in [Trees -> V] : Folds(f, base, join, Trees)
<1> DEFINE T == TreesOver(Panes, Int)
           Value(f, n) == IF n.split THEN join[<<n, f[n.first], f[n.second]>>] ELSE base[n]
           S == {k \in Nat : k <= MaxNesting => \E f \in [T[k] -> V] : Folds(f, base, join, T[k])}
<1>0. T[0] = Panes /\ \A k \in Nat : T[k + 1] = Panes \cup SplitsOver(Int, T[k])
  BY TreesAre
<1>1. \A k \in 0..MaxNesting : T[k] \subseteq T[MaxNesting]
  BY DeeperTrees
<1>2. Trees = T[MaxNesting]
  BY DEF Trees
<1>3. \A k \in Nat : T[k] \subseteq T[k + 1]
  <2>. SUFFICES ASSUME NEW k \in Nat PROVE T[k] \subseteq T[k + 1]
    OBVIOUS
  <2>1. k + 1 \in Nat /\ k \in 0..(k + 1)
    OBVIOUS
  <2>. QED
    BY <2>1, DeeperTrees
<1>. HIDE DEF T
<1>4. \A p \in Panes : ~p.split
  BY DEF Panes
<1>5. 0 \in S
  <2> DEFINE f == [n \in Panes |-> base[n]]
  <2>1. f \in [Panes -> V] /\ Folds(f, base, join, Panes)
    BY <1>4 DEF Folds
  <2>. QED
    BY <2>1, <1>0
<1>6. ASSUME NEW k \in Nat, k \in S PROVE k + 1 \in S
  <2>. SUFFICES ASSUME k + 1 <= MaxNesting
                PROVE  \E f \in [T[k + 1] -> V] : Folds(f, base, join, T[k + 1])
    BY DEF S
  <2>1. k <= MaxNesting /\ T[k] \subseteq Trees /\ T[k + 1] \subseteq Trees /\ T[k] \subseteq T[k + 1]
    BY <1>1, <1>2, <1>3
  <2>2. PICK f \in [T[k] -> V] : Folds(f, base, join, T[k])
    BY <1>6, <2>1
  <2> DEFINE g == [n \in T[k + 1] |-> Value(f, n)]
  <2>3. \A n \in T[k] : f[n] = Value(f, n) /\ g[n] = f[n]
    BY <2>1, <2>2 DEF Folds
  <2>4. ASSUME NEW n \in T[k + 1]
        PROVE  /\ g[n] \in V /\ g[n] = Value(g, n)
    <3>1. CASE n \in Panes
      <4>1. ~n.split
        BY <1>4, <3>1
      <4>. QED
        BY <3>1, <4>1
    <3>2. CASE n \in SplitsOver(Int, T[k])
      <4>1. n.split /\ n.first \in T[k] /\ n.second \in T[k]
        BY <3>2 DEF SplitsOver
      <4>2. g[n.first] = f[n.first] /\ g[n.second] = f[n.second]
        BY <4>1, <2>3
      <4>3. f[n.first] \in V /\ f[n.second] \in V /\ n \in Trees
        BY <4>1, <2>1, <2>2
      <4>4. <<n, f[n.first], f[n.second]>> \in SplitTrees \X V \X V
        BY <4>1, <4>3 DEF SplitTrees
      <4>5. join[<<n, f[n.first], f[n.second]>>] \in V
        BY <4>4
      <4>6. g[n] = join[<<n, f[n.first], f[n.second]>>]
        BY <4>1
      <4>. HIDE DEF g
      <4>. QED
        BY <4>1, <4>2, <4>5, <4>6
    <3>. QED
      BY <1>0, <3>1, <3>2
  <2>5. g \in [T[k + 1] -> V] /\ Folds(g, base, join, T[k + 1])
    <3>1. \A n \in T[k + 1] : g[n] \in V /\ g[n] = Value(g, n)
      BY <2>4
    <3>2. g = [n \in T[k + 1] |-> g[n]]
      OBVIOUS
    <3>. HIDE DEF g
    <3>. QED
      BY <3>1, <3>2 DEF Folds
  <2>. QED
    BY <2>5
<1>. HIDE DEF S
<1>7. Nat \subseteq S
  BY <1>5, <1>6, Induction
<1>. QED
  BY <1>2, <1>7 DEF S

\* Trees of any depth.
Forest == UNION {TreesOver(Panes, Int)[k] : k \in Nat}

LEMMA PanesInForest == Panes \subseteq Forest
<1>1. TreesOver(Panes, Int)[0] = Panes
  BY TreesAre
<1>. QED
  BY <1>1 DEF Forest

LEMMA SplitInForest ==
  ASSUME NEW v \in BOOLEAN, NEW r \in Int, NEW a \in Forest, NEW b \in Forest
  PROVE  SplitNode(v, r, a, b) \in Forest
<1> DEFINE T == TreesOver(Panes, Int)
<1>0. \A k \in Nat : T[k + 1] = Panes \cup SplitsOver(Int, T[k])
  BY TreesAre
<1>1. \A m \in Nat : \A k \in 0..m : T[k] \subseteq T[m]
  BY DeeperTrees
<1>2. PICK k \in Nat : a \in T[k]
  BY DEF Forest
<1>3. PICK l \in Nat : b \in T[l]
  BY DEF Forest
<1>. HIDE DEF T
<1>4. PICK m \in Nat : k \in 0..m /\ l \in 0..m
  <2>1. k <= l \/ l <= k
    OBVIOUS
  <2>. QED
    BY <2>1
<1>5. a \in T[m] /\ b \in T[m]
  BY <1>1, <1>2, <1>3, <1>4
<1>6. SplitNode(v, r, a, b) \in SplitsOver(Int, T[m])
  BY <1>5 DEF SplitsOver, SplitNode
<1>7. SplitNode(v, r, a, b) \in T[m + 1] /\ m + 1 \in Nat
  BY <1>0, <1>6
<1>. QED
  BY <1>7 DEF Forest, T

\* The tools of a tree.
LEMMA ToolsOfIs ==
  ASSUME MaxNesting \in Nat
  PROVE  \A n \in Trees :
           /\ ToolsOf(n) \in Seq(Ids)
           /\ n.split => ToolsOf(n) = ToolsOf(n.first) \o ToolsOf(n.second)
           /\ ~n.split => ToolsOf(n) = n.tools
<1> DEFINE V == Seq(Ids)
           P(p) == p.tools
           J(n, a, b) == a \o b
           Is(f) == f = [n \in Trees |-> IF n.split THEN J(n, f[n.first], f[n.second]) ELSE P(n)]
           fold == CHOOSE f : Is(f)
           base == [p \in Panes |-> P(p)]
           join == [x \in SplitTrees \X V \X V |-> J(x[1], x[2], x[3])]
           Q == {n \in Trees : fold[n] \in V}
<1>1. \A p \in Panes : P(p) \in V
  BY DEF Panes
<1>2. \A n \in SplitTrees, a \in V, b \in V : J(n, a, b) \in V
  OBVIOUS
<1>3. \A n \in Trees : ToolsOf(n) = fold[n]
  BY DEF ToolsOf, FoldTree, Both
<1>. HIDE DEF V, P, J
<1>4. base \in [Panes -> V] /\ join \in [SplitTrees \X V \X V -> V]
  BY <1>1, <1>2
<1>5. PICK f \in [Trees -> V] : Folds(f, base, join, Trees)
  <2>. HIDE DEF base, join
  <2>. QED
    BY <1>4, TreeRecursion
<1>6. ASSUME NEW n \in Trees
      PROVE  f[n] = IF n.split THEN J(n, f[n.first], f[n.second]) ELSE P(n)
  <2>1. CASE n.split
    <3>1. n.first \in Trees /\ n.second \in Trees /\ n \in SplitTrees
      BY <2>1, TreeNodes DEF SplitTrees
    <3>2. <<n, f[n.first], f[n.second]>> \in SplitTrees \X V \X V
      BY <3>1
    <3>. QED
      BY <1>5, <2>1, <3>2 DEF Folds
  <2>2. CASE ~n.split
    <3>1. n \in Panes
      BY <2>2, TreeNodes
    <3>. QED
      BY <1>5, <2>2, <3>1 DEF Folds
  <2>. QED
    BY <2>1, <2>2
<1>7. Is(fold)
  <2>1. Is(f)
    BY <1>5, <1>6
  <2>. HIDE DEF Is
  <2>. QED
    BY <2>1
<1>8. \A n \in Trees : fold[n] = IF n.split THEN J(n, fold[n.first], fold[n.second]) ELSE P(n)
  BY <1>7
<1>. HIDE DEF fold
<1>9. Trees \subseteq Q
  <2>1. ASSUME NEW n \in Panes PROVE n \in Q
    <3>1. n \in Trees /\ ~n.split
      BY TreeNodes
    <3>. QED
      BY <1>1, <1>8, <3>1
  <2>2. ASSUME NEW n \in Trees, n \in SplitsOver(Int, Trees \cap Q) PROVE n \in Q
    <3>1. n \in SplitTrees /\ n.split /\ fold[n.first] \in V /\ fold[n.second] \in V
      BY <2>2 DEF SplitsOver, SplitTrees
    <3>2. fold[n] = J(n, fold[n.first], fold[n.second])
      BY <1>8, <3>1
    <3>. QED
      BY <1>2, <3>1, <3>2
  <2>. HIDE DEF Q
  <2>. QED
    BY <2>1, <2>2, TreeInduction DEF Trees
<1>10. \A n \in Trees : n.split => n.first \in Trees /\ n.second \in Trees
  BY TreeNodes
<1>. QED
  BY <1>3, <1>8, <1>9, <1>10 DEF V, P, J

\* Its panes.
LEMMA PanesOfIs ==
  ASSUME MaxNesting \in Nat
  PROVE  \A n \in Trees :
           /\ PanesOf(n) \in Seq(Panes)
           /\ n.split => PanesOf(n) = PanesOf(n.first) \o PanesOf(n.second)
           /\ ~n.split => PanesOf(n) = IF n = NoTree THEN <<>> ELSE <<n>>
<1> DEFINE V == Seq(Panes)
           P(p) == IF p = NoTree THEN <<>> ELSE <<p>>
           J(n, a, b) == a \o b
           Is(f) == f = [n \in Trees |-> IF n.split THEN J(n, f[n.first], f[n.second]) ELSE P(n)]
           fold == CHOOSE f : Is(f)
           base == [p \in Panes |-> P(p)]
           join == [x \in SplitTrees \X V \X V |-> J(x[1], x[2], x[3])]
           Q == {n \in Trees : fold[n] \in V}
<1>1. \A p \in Panes : P(p) \in V
  OBVIOUS
<1>2. \A n \in SplitTrees, a \in V, b \in V : J(n, a, b) \in V
  OBVIOUS
<1>3. \A n \in Trees : PanesOf(n) = fold[n]
  BY DEF PanesOf, FoldTree, Both
<1>. HIDE DEF V, P, J
<1>4. base \in [Panes -> V] /\ join \in [SplitTrees \X V \X V -> V]
  BY <1>1, <1>2
<1>5. PICK f \in [Trees -> V] : Folds(f, base, join, Trees)
  <2>. HIDE DEF base, join
  <2>. QED
    BY <1>4, TreeRecursion
<1>6. ASSUME NEW n \in Trees
      PROVE  f[n] = IF n.split THEN J(n, f[n.first], f[n.second]) ELSE P(n)
  <2>1. CASE n.split
    <3>1. n.first \in Trees /\ n.second \in Trees /\ n \in SplitTrees
      BY <2>1, TreeNodes DEF SplitTrees
    <3>2. <<n, f[n.first], f[n.second]>> \in SplitTrees \X V \X V
      BY <3>1
    <3>. QED
      BY <1>5, <2>1, <3>2 DEF Folds
  <2>2. CASE ~n.split
    <3>1. n \in Panes
      BY <2>2, TreeNodes
    <3>. QED
      BY <1>5, <2>2, <3>1 DEF Folds
  <2>. QED
    BY <2>1, <2>2
<1>7. Is(fold)
  <2>1. Is(f)
    BY <1>5, <1>6
  <2>. HIDE DEF Is
  <2>. QED
    BY <2>1
<1>8. \A n \in Trees : fold[n] = IF n.split THEN J(n, fold[n.first], fold[n.second]) ELSE P(n)
  BY <1>7
<1>. HIDE DEF fold
<1>9. Trees \subseteq Q
  <2>1. ASSUME NEW n \in Panes PROVE n \in Q
    <3>1. n \in Trees /\ ~n.split
      BY TreeNodes
    <3>. QED
      BY <1>1, <1>8, <3>1
  <2>2. ASSUME NEW n \in Trees, n \in SplitsOver(Int, Trees \cap Q) PROVE n \in Q
    <3>1. n \in SplitTrees /\ n.split /\ fold[n.first] \in V /\ fold[n.second] \in V
      BY <2>2 DEF SplitsOver, SplitTrees
    <3>2. fold[n] = J(n, fold[n.first], fold[n.second])
      BY <1>8, <3>1
    <3>. QED
      BY <1>2, <3>1, <3>2
  <2>. HIDE DEF Q
  <2>. QED
    BY <2>1, <2>2, TreeInduction DEF Trees
<1>10. \A n \in Trees : n.split => n.first \in Trees /\ n.second \in Trees
  BY TreeNodes
<1>. QED
  BY <1>3, <1>8, <1>9, <1>10 DEF V, P, J

\* Its splits.
LEMMA SplitsOfIs ==
  ASSUME MaxNesting \in Nat
  PROVE  \A n \in Trees :
           /\ SplitsOf(n) \in SUBSET Trees
           /\ n.split => SplitsOf(n) = {n} \cup SplitsOf(n.first) \cup SplitsOf(n.second)
           /\ ~n.split => SplitsOf(n) = {}
<1> DEFINE V == SUBSET Trees
           P(p) == {}
           J(n, a, b) == {n} \cup a \cup b
           Is(f) == f = [n \in Trees |-> IF n.split THEN J(n, f[n.first], f[n.second]) ELSE P(n)]
           fold == CHOOSE f : Is(f)
           base == [p \in Panes |-> P(p)]
           join == [x \in SplitTrees \X V \X V |-> J(x[1], x[2], x[3])]
           Q == {n \in Trees : fold[n] \in V}
<1>1. \A p \in Panes : P(p) \in V
  OBVIOUS
<1>2. \A n \in SplitTrees, a \in V, b \in V : J(n, a, b) \in V
  BY DEF SplitTrees
<1>3. \A n \in Trees : SplitsOf(n) = fold[n]
  BY DEF SplitsOf, FoldTree
<1>. HIDE DEF V, P, J
<1>4. base \in [Panes -> V] /\ join \in [SplitTrees \X V \X V -> V]
  BY <1>1, <1>2
<1>5. PICK f \in [Trees -> V] : Folds(f, base, join, Trees)
  <2>. HIDE DEF base, join
  <2>. QED
    BY <1>4, TreeRecursion
<1>6. ASSUME NEW n \in Trees
      PROVE  f[n] = IF n.split THEN J(n, f[n.first], f[n.second]) ELSE P(n)
  <2>1. CASE n.split
    <3>1. n.first \in Trees /\ n.second \in Trees /\ n \in SplitTrees
      BY <2>1, TreeNodes DEF SplitTrees
    <3>2. <<n, f[n.first], f[n.second]>> \in SplitTrees \X V \X V
      BY <3>1
    <3>. QED
      BY <1>5, <2>1, <3>2 DEF Folds
  <2>2. CASE ~n.split
    <3>1. n \in Panes
      BY <2>2, TreeNodes
    <3>. QED
      BY <1>5, <2>2, <3>1 DEF Folds
  <2>. QED
    BY <2>1, <2>2
<1>7. Is(fold)
  <2>1. Is(f)
    BY <1>5, <1>6
  <2>. HIDE DEF Is
  <2>. QED
    BY <2>1
<1>8. \A n \in Trees : fold[n] = IF n.split THEN J(n, fold[n.first], fold[n.second]) ELSE P(n)
  BY <1>7
<1>. HIDE DEF fold
<1>9. Trees \subseteq Q
  <2>1. ASSUME NEW n \in Panes PROVE n \in Q
    <3>1. n \in Trees /\ ~n.split
      BY TreeNodes
    <3>. QED
      BY <1>1, <1>8, <3>1
  <2>2. ASSUME NEW n \in Trees, n \in SplitsOver(Int, Trees \cap Q) PROVE n \in Q
    <3>1. n \in SplitTrees /\ n.split /\ fold[n.first] \in V /\ fold[n.second] \in V
      BY <2>2 DEF SplitsOver, SplitTrees
    <3>2. fold[n] = J(n, fold[n.first], fold[n.second])
      BY <1>8, <3>1
    <3>. QED
      BY <1>2, <3>1, <3>2
  <2>. HIDE DEF Q
  <2>. QED
    BY <2>1, <2>2, TreeInduction DEF Trees
<1>10. \A n \in Trees : n.split => n.first \in Trees /\ n.second \in Trees
  BY TreeNodes
<1>. QED
  BY <1>3, <1>8, <1>9, <1>10 DEF V, P, J

\* A substitution.
LEMMA SubstituteIs ==
  ASSUME MaxNesting \in Nat, NEW old, NEW new \in Forest
  PROVE  \A n \in Trees :
           /\ Substitute(n, old, new) \in Forest
           /\ n.split => Substitute(n, old, new) = IF n = old THEN new ELSE SplitOf(n, Substitute(n.first, old, new), Substitute(n.second, old, new))
           /\ ~n.split => Substitute(n, old, new) = IF n = old THEN new ELSE n
<1> DEFINE V == Forest
           P(p) == IF p = old THEN new ELSE p
           J(n, a, b) == IF n = old THEN new ELSE SplitOf(n, a, b)
           Is(f) == f = [n \in Trees |-> IF n.split THEN J(n, f[n.first], f[n.second]) ELSE P(n)]
           fold == CHOOSE f : Is(f)
           base == [p \in Panes |-> P(p)]
           join == [x \in SplitTrees \X V \X V |-> J(x[1], x[2], x[3])]
           Q == {n \in Trees : fold[n] \in V}
<1>1. \A p \in Panes : P(p) \in V
  BY PanesInForest
<1>2. \A n \in SplitTrees, a \in V, b \in V : J(n, a, b) \in V
  BY SplitInForest, TreeNodes DEF SplitTrees, SplitsOver, SplitOf
<1>3. \A n \in Trees : Substitute(n, old, new) = fold[n]
  BY DEF Substitute, FoldTree
<1>. HIDE DEF V, P, J
<1>4. base \in [Panes -> V] /\ join \in [SplitTrees \X V \X V -> V]
  BY <1>1, <1>2
<1>5. PICK f \in [Trees -> V] : Folds(f, base, join, Trees)
  <2>. HIDE DEF base, join
  <2>. QED
    BY <1>4, TreeRecursion
<1>6. ASSUME NEW n \in Trees
      PROVE  f[n] = IF n.split THEN J(n, f[n.first], f[n.second]) ELSE P(n)
  <2>1. CASE n.split
    <3>1. n.first \in Trees /\ n.second \in Trees /\ n \in SplitTrees
      BY <2>1, TreeNodes DEF SplitTrees
    <3>2. <<n, f[n.first], f[n.second]>> \in SplitTrees \X V \X V
      BY <3>1
    <3>. QED
      BY <1>5, <2>1, <3>2 DEF Folds
  <2>2. CASE ~n.split
    <3>1. n \in Panes
      BY <2>2, TreeNodes
    <3>. QED
      BY <1>5, <2>2, <3>1 DEF Folds
  <2>. QED
    BY <2>1, <2>2
<1>7. Is(fold)
  <2>1. Is(f)
    BY <1>5, <1>6
  <2>. HIDE DEF Is
  <2>. QED
    BY <2>1
<1>8. \A n \in Trees : fold[n] = IF n.split THEN J(n, fold[n.first], fold[n.second]) ELSE P(n)
  BY <1>7
<1>. HIDE DEF fold
<1>9. Trees \subseteq Q
  <2>1. ASSUME NEW n \in Panes PROVE n \in Q
    <3>1. n \in Trees /\ ~n.split
      BY TreeNodes
    <3>. QED
      BY <1>1, <1>8, <3>1
  <2>2. ASSUME NEW n \in Trees, n \in SplitsOver(Int, Trees \cap Q) PROVE n \in Q
    <3>1. n \in SplitTrees /\ n.split /\ fold[n.first] \in V /\ fold[n.second] \in V
      BY <2>2 DEF SplitsOver, SplitTrees
    <3>2. fold[n] = J(n, fold[n.first], fold[n.second])
      BY <1>8, <3>1
    <3>. QED
      BY <1>2, <3>1, <3>2
  <2>. HIDE DEF Q
  <2>. QED
    BY <2>1, <2>2, TreeInduction DEF Trees
<1>10. \A n \in Trees : n.split => n.first \in Trees /\ n.second \in Trees
  BY TreeNodes
<1>. QED
  BY <1>3, <1>8, <1>9, <1>10 DEF V, P, J

\* What stands before a value of a list.
LEMMA BeforeIsAList ==
  ASSUME NEW S, NEW s \in Seq(S), NEW t
  PROVE  Before(s, t) \in Seq(S)
<1> DEFINE i == PlaceOf(s, t)
<1>1. i \in 0..Len(s) /\ Len(s) \in Nat
  <2>1. t \in Members(s) => i \in 1..Len(s)
    BY FirstPlace
  <2>3. t \notin Members(s) => i = 0
    BY FirstPlace
  <2>2. Len(s) \in Nat
    BY LenProperties
  <2>. HIDE DEF i
  <2>. QED
    BY <2>1, <2>2, <2>3
<1>2. Before(s, t) = SubSeq(s, 1, i - 1)
  BY DEF Before, PlaceOf
<1>. HIDE DEF i
<1>3. i - 1 \in Int /\ \A j \in 1..(i - 1) : s[j] \in S
  BY <1>1, LenProperties
<1>. QED
  BY <1>2, <1>3, SubSeqProperties

LEMMA NoTreeIsAPane == NoTree \in Panes
<1>1. <<>> \in Seq(Ids)
  OBVIOUS
<1>. QED
  BY <1>1 DEF NoTree, Pane, Panes

LEMMA BarePaneIsAPane ==
  ASSUME NEW p \in Panes
  PROVE  [p EXCEPT !.bar = <<>>] \in Panes
<1>1. <<>> \in Seq(Ids)
  OBVIOUS
<1>. QED
  BY <1>1 DEF Panes

\* What an operation makes of a pane is a pane.
LEMMA PaneWithoutIsAPane ==
  ASSUME NEW p \in Panes, NEW t
  PROVE  PaneWithout(p, t) \in Panes
<1>1. /\ p = [split |-> FALSE, tools |-> p.tools, active |-> p.active, bar |-> p.bar]
      /\ p.tools \in Seq(Ids) /\ p.active \in Ids \cup {NoTool} /\ p.bar \in Seq(Ids)
  BY DEF Panes
<1>2. Without(p.tools, t) \in Seq(Ids)
  BY <1>1, Leaving
<1>3. Without(p.tools, t) # <<>> => Head(Without(p.tools, t)) \in Ids
  BY <1>2, HeadTailProperties
<1>. QED
  BY <1>1, <1>2, <1>3, NoTreeIsAPane DEF PaneWithout, Panes

LEMMA ReshownIsAPane ==
  ASSUME NEW p \in Panes
  PROVE  Reshown(p) \in Panes
<1>1. /\ p = [split |-> FALSE, tools |-> p.tools, active |-> p.active, bar |-> p.bar]
      /\ p.tools \in Seq(Ids) /\ p.active \in Ids \cup {NoTool} /\ p.bar \in Seq(Ids)
  BY DEF Panes
<1> DEFINE I == {i \in 1..Len(p.bar) : HasTool(p, p.bar[i])}
           r == SelectInSeq(p.bar, LAMBDA t : HasTool(p, t))
           a == IF r = 0 THEN p.active ELSE p.bar[r]
<1>2. r = IF I # {} THEN Min(I) ELSE 0
  BY DEF SelectInSeq
<1>3. I \in SUBSET Nat /\ I \subseteq 1..Len(p.bar)
  BY <1>1, LenProperties
<1>4. I # {} => Min(I) \in I
  <2>. HIDE DEF I
  <2>. QED
    BY <1>3, LeastExists DEF Min
<1>5. r = 0 \/ r \in 1..Len(p.bar)
  BY <1>2, <1>3, <1>4
<1>6. a \in Ids \cup {NoTool}
  BY <1>1, <1>5, LenProperties
<1>7. Reshown(p) = [p EXCEPT !.active = a, !.bar = Before(p.tools, a)]
  BY DEF Reshown, SelectedIn
<1>8. Before(p.tools, a) \in Seq(Ids)
  BY <1>1, BeforeIsAList
<1>. HIDE DEF a
<1>. QED
  BY <1>1, <1>6, <1>7, <1>8 DEF Panes

\* A removal.
LEMMA TreeWithoutIs ==
  ASSUME MaxNesting \in Nat, NEW t
  PROVE  \A n \in Trees :
           /\ TreeWithout(n, t) \in Forest
           /\ n.split => TreeWithout(n, t) = Joined(n, TreeWithout(n.first, t), TreeWithout(n.second, t))
           /\ ~n.split => TreeWithout(n, t) = PaneWithout(n, t)
<1> DEFINE V == Forest
           P(p) == PaneWithout(p, t)
           J(n, a, b) == Joined(n, a, b)
           Is(f) == f = [n \in Trees |-> IF n.split THEN J(n, f[n.first], f[n.second]) ELSE P(n)]
           fold == CHOOSE f : Is(f)
           base == [p \in Panes |-> P(p)]
           join == [x \in SplitTrees \X V \X V |-> J(x[1], x[2], x[3])]
           Q == {n \in Trees : fold[n] \in V}
<1>1. \A p \in Panes : P(p) \in V
  BY PaneWithoutIsAPane, PanesInForest
<1>2. \A n \in SplitTrees, a \in V, b \in V : J(n, a, b) \in V
  BY SplitInForest, TreeNodes DEF SplitTrees, SplitsOver, SplitOf, Joined
<1>3. \A n \in Trees : TreeWithout(n, t) = fold[n]
  BY DEF TreeWithout, FoldTree
<1>. HIDE DEF V, P, J
<1>4. base \in [Panes -> V] /\ join \in [SplitTrees \X V \X V -> V]
  BY <1>1, <1>2
<1>5. PICK f \in [Trees -> V] : Folds(f, base, join, Trees)
  <2>. HIDE DEF base, join
  <2>. QED
    BY <1>4, TreeRecursion
<1>6. ASSUME NEW n \in Trees
      PROVE  f[n] = IF n.split THEN J(n, f[n.first], f[n.second]) ELSE P(n)
  <2>1. CASE n.split
    <3>1. n.first \in Trees /\ n.second \in Trees /\ n \in SplitTrees
      BY <2>1, TreeNodes DEF SplitTrees
    <3>2. <<n, f[n.first], f[n.second]>> \in SplitTrees \X V \X V
      BY <3>1
    <3>. QED
      BY <1>5, <2>1, <3>2 DEF Folds
  <2>2. CASE ~n.split
    <3>1. n \in Panes
      BY <2>2, TreeNodes
    <3>. QED
      BY <1>5, <2>2, <3>1 DEF Folds
  <2>. QED
    BY <2>1, <2>2
<1>7. Is(fold)
  <2>1. Is(f)
    BY <1>5, <1>6
  <2>. HIDE DEF Is
  <2>. QED
    BY <2>1
<1>8. \A n \in Trees : fold[n] = IF n.split THEN J(n, fold[n.first], fold[n.second]) ELSE P(n)
  BY <1>7
<1>. HIDE DEF fold
<1>9. Trees \subseteq Q
  <2>1. ASSUME NEW n \in Panes PROVE n \in Q
    <3>1. n \in Trees /\ ~n.split
      BY TreeNodes
    <3>. QED
      BY <1>1, <1>8, <3>1
  <2>2. ASSUME NEW n \in Trees, n \in SplitsOver(Int, Trees \cap Q) PROVE n \in Q
    <3>1. n \in SplitTrees /\ n.split /\ fold[n.first] \in V /\ fold[n.second] \in V
      BY <2>2 DEF SplitsOver, SplitTrees
    <3>2. fold[n] = J(n, fold[n.first], fold[n.second])
      BY <1>8, <3>1
    <3>. QED
      BY <1>2, <3>1, <3>2
  <2>. HIDE DEF Q
  <2>. QED
    BY <2>1, <2>2, TreeInduction DEF Trees
<1>10. \A n \in Trees : n.split => n.first \in Trees /\ n.second \in Trees
  BY TreeNodes
<1>. QED
  BY <1>3, <1>8, <1>9, <1>10 DEF V, P, J

\* Rebuilding.
LEMMA RebuiltIs ==
  ASSUME MaxNesting \in Nat
  PROVE  \A n \in Trees :
           /\ Rebuilt(n) \in Forest
           /\ n.split => Rebuilt(n) = SplitOf(n, Rebuilt(n.first), Rebuilt(n.second))
           /\ ~n.split => Rebuilt(n) = IF n = NoTree THEN n ELSE Reshown(n)
<1> DEFINE V == Forest
           P(p) == IF p = NoTree THEN p ELSE Reshown(p)
           J(n, a, b) == SplitOf(n, a, b)
           Is(f) == f = [n \in Trees |-> IF n.split THEN J(n, f[n.first], f[n.second]) ELSE P(n)]
           fold == CHOOSE f : Is(f)
           base == [p \in Panes |-> P(p)]
           join == [x \in SplitTrees \X V \X V |-> J(x[1], x[2], x[3])]
           Q == {n \in Trees : fold[n] \in V}
<1>1. \A p \in Panes : P(p) \in V
  BY ReshownIsAPane, PanesInForest
<1>2. \A n \in SplitTrees, a \in V, b \in V : J(n, a, b) \in V
  BY SplitInForest, TreeNodes DEF SplitTrees, SplitsOver, SplitOf
<1>3. \A n \in Trees : Rebuilt(n) = fold[n]
  BY DEF Rebuilt, FoldTree
<1>. HIDE DEF V, P, J
<1>4. base \in [Panes -> V] /\ join \in [SplitTrees \X V \X V -> V]
  BY <1>1, <1>2
<1>5. PICK f \in [Trees -> V] : Folds(f, base, join, Trees)
  <2>. HIDE DEF base, join
  <2>. QED
    BY <1>4, TreeRecursion
<1>6. ASSUME NEW n \in Trees
      PROVE  f[n] = IF n.split THEN J(n, f[n.first], f[n.second]) ELSE P(n)
  <2>1. CASE n.split
    <3>1. n.first \in Trees /\ n.second \in Trees /\ n \in SplitTrees
      BY <2>1, TreeNodes DEF SplitTrees
    <3>2. <<n, f[n.first], f[n.second]>> \in SplitTrees \X V \X V
      BY <3>1
    <3>. QED
      BY <1>5, <2>1, <3>2 DEF Folds
  <2>2. CASE ~n.split
    <3>1. n \in Panes
      BY <2>2, TreeNodes
    <3>. QED
      BY <1>5, <2>2, <3>1 DEF Folds
  <2>. QED
    BY <2>1, <2>2
<1>7. Is(fold)
  <2>1. Is(f)
    BY <1>5, <1>6
  <2>. HIDE DEF Is
  <2>. QED
    BY <2>1
<1>8. \A n \in Trees : fold[n] = IF n.split THEN J(n, fold[n.first], fold[n.second]) ELSE P(n)
  BY <1>7
<1>. HIDE DEF fold
<1>9. Trees \subseteq Q
  <2>1. ASSUME NEW n \in Panes PROVE n \in Q
    <3>1. n \in Trees /\ ~n.split
      BY TreeNodes
    <3>. QED
      BY <1>1, <1>8, <3>1
  <2>2. ASSUME NEW n \in Trees, n \in SplitsOver(Int, Trees \cap Q) PROVE n \in Q
    <3>1. n \in SplitTrees /\ n.split /\ fold[n.first] \in V /\ fold[n.second] \in V
      BY <2>2 DEF SplitsOver, SplitTrees
    <3>2. fold[n] = J(n, fold[n.first], fold[n.second])
      BY <1>8, <3>1
    <3>. QED
      BY <1>2, <3>1, <3>2
  <2>. HIDE DEF Q
  <2>. QED
    BY <2>1, <2>2, TreeInduction DEF Trees
<1>10. \A n \in Trees : n.split => n.first \in Trees /\ n.second \in Trees
  BY TreeNodes
<1>. QED
  BY <1>3, <1>8, <1>9, <1>10 DEF V, P, J

\* What is captured.
LEMMA BareIs ==
  ASSUME MaxNesting \in Nat
  PROVE  \A n \in Trees :
           /\ Bare(n) \in Forest
           /\ n.split => Bare(n) = SplitOf(n, Bare(n.first), Bare(n.second))
           /\ ~n.split => Bare(n) = [n EXCEPT !.bar = <<>>]
<1> DEFINE V == Forest
           P(p) == [p EXCEPT !.bar = <<>>]
           J(n, a, b) == SplitOf(n, a, b)
           Is(f) == f = [n \in Trees |-> IF n.split THEN J(n, f[n.first], f[n.second]) ELSE P(n)]
           fold == CHOOSE f : Is(f)
           base == [p \in Panes |-> P(p)]
           join == [x \in SplitTrees \X V \X V |-> J(x[1], x[2], x[3])]
           Q == {n \in Trees : fold[n] \in V}
<1>1. \A p \in Panes : P(p) \in V
  BY BarePaneIsAPane, PanesInForest
<1>2. \A n \in SplitTrees, a \in V, b \in V : J(n, a, b) \in V
  BY SplitInForest, TreeNodes DEF SplitTrees, SplitsOver, SplitOf
<1>3. \A n \in Trees : Bare(n) = fold[n]
  BY DEF Bare, FoldTree
<1>. HIDE DEF V, P, J
<1>4. base \in [Panes -> V] /\ join \in [SplitTrees \X V \X V -> V]
  BY <1>1, <1>2
<1>5. PICK f \in [Trees -> V] : Folds(f, base, join, Trees)
  <2>. HIDE DEF base, join
  <2>. QED
    BY <1>4, TreeRecursion
<1>6. ASSUME NEW n \in Trees
      PROVE  f[n] = IF n.split THEN J(n, f[n.first], f[n.second]) ELSE P(n)
  <2>1. CASE n.split
    <3>1. n.first \in Trees /\ n.second \in Trees /\ n \in SplitTrees
      BY <2>1, TreeNodes DEF SplitTrees
    <3>2. <<n, f[n.first], f[n.second]>> \in SplitTrees \X V \X V
      BY <3>1
    <3>. QED
      BY <1>5, <2>1, <3>2 DEF Folds
  <2>2. CASE ~n.split
    <3>1. n \in Panes
      BY <2>2, TreeNodes
    <3>. QED
      BY <1>5, <2>2, <3>1 DEF Folds
  <2>. QED
    BY <2>1, <2>2
<1>7. Is(fold)
  <2>1. Is(f)
    BY <1>5, <1>6
  <2>. HIDE DEF Is
  <2>. QED
    BY <2>1
<1>8. \A n \in Trees : fold[n] = IF n.split THEN J(n, fold[n.first], fold[n.second]) ELSE P(n)
  BY <1>7
<1>. HIDE DEF fold
<1>9. Trees \subseteq Q
  <2>1. ASSUME NEW n \in Panes PROVE n \in Q
    <3>1. n \in Trees /\ ~n.split
      BY TreeNodes
    <3>. QED
      BY <1>1, <1>8, <3>1
  <2>2. ASSUME NEW n \in Trees, n \in SplitsOver(Int, Trees \cap Q) PROVE n \in Q
    <3>1. n \in SplitTrees /\ n.split /\ fold[n.first] \in V /\ fold[n.second] \in V
      BY <2>2 DEF SplitsOver, SplitTrees
    <3>2. fold[n] = J(n, fold[n.first], fold[n.second])
      BY <1>8, <3>1
    <3>. QED
      BY <1>2, <3>1, <3>2
  <2>. HIDE DEF Q
  <2>. QED
    BY <2>1, <2>2, TreeInduction DEF Trees
<1>10. \A n \in Trees : n.split => n.first \in Trees /\ n.second \in Trees
  BY TreeNodes
<1>. QED
  BY <1>3, <1>8, <1>9, <1>10 DEF V, P, J

-----------------------------------------------------------------------------
(* Trees of tools.                                                          *)

\* Panes of tools, one of them active; and those on screen.
HeldPanes ==
  {p \in [split : {FALSE}, tools : Seq(Tools), active : Tools, bar : Seq(Tools)] :
     p.active \in Members(p.tools)}
ShownPanes == {p \in HeldPanes : p.bar = Before(p.tools, p.active)}

\* Trees of such panes, each with the list of its tools: the least set with the panes and
\* the splits.
Closed(C, panes) ==
  /\ \A p \in panes : <<p, p.tools>> \in C
  /\ \A v \in BOOLEAN, r \in 10..90 : \A a, b, s, t :
       <<a, s>> \in C /\ <<b, t>> \in C => <<SplitNode(v, r, a, b), s \o t>> \in C
Listed(panes) ==
  {x \in Forest \X Seq(Tools) : \A C : Closed(C, panes) => x \in C}

\* A tree, or none.
Laid(panes, n, s) == (n = NoTree /\ s = <<>>) \/ <<n, s>> \in Listed(panes)

\* What a pane of tools is.
LEMMA HeldPanesAre ==
  /\ HeldPanes \subseteq Panes /\ ShownPanes \subseteq HeldPanes /\ MaxNesting \in Nat
  /\ \A p \in HeldPanes :
       /\ p = [split |-> FALSE, tools |-> p.tools, active |-> p.active, bar |-> p.bar]
       /\ p.tools \in Seq(Tools) /\ p.tools # <<>> /\ Len(p.tools) \in Nat \ {0}
       /\ p.active \in Tools /\ p.active \in Members(p.tools) /\ p.bar \in Seq(Tools)
       /\ ~p.split /\ p # NoTree
       /\ \A t : HasTool(p, t) <=> t \in Members(p.tools)
<1>1. Tools \subseteq Ids /\ MaxNesting \in Nat
  BY WorkspaceAssumption
<1>2. ASSUME NEW p \in HeldPanes
      PROVE  /\ p = [split |-> FALSE, tools |-> p.tools, active |-> p.active, bar |-> p.bar]
             /\ p.tools \in Seq(Tools) /\ p.tools # <<>> /\ Len(p.tools) \in Nat \ {0}
             /\ p.active \in Tools /\ p.active \in Members(p.tools) /\ p.bar \in Seq(Tools)
             /\ ~p.split /\ p # NoTree
             /\ \A t : HasTool(p, t) <=> t \in Members(p.tools)
  <2>1. /\ p = [split |-> FALSE, tools |-> p.tools, active |-> p.active, bar |-> p.bar]
        /\ p.tools \in Seq(Tools) /\ ~p.split
        /\ p.active \in Tools /\ p.active \in Members(p.tools) /\ p.bar \in Seq(Tools)
    BY DEF HeldPanes
  <2>2. p.tools # <<>>
    BY <2>1, ShortLists
  <2>3. Len(p.tools) \in Nat \ {0}
    BY <2>1, <2>2, EmptySeq
  <2>4. NoTree.tools = <<>>
    BY DEF NoTree, Pane
  <2>5. DOMAIN p.tools = 1..Len(p.tools)
    BY <2>1, LenProperties
  <2>6. \A t : HasTool(p, t) <=> t \in Members(p.tools)
    BY <2>5 DEF HasTool, Members
  <2>. QED
    BY <2>1, <2>2, <2>3, <2>4, <2>6
<1>3. HeldPanes \subseteq Panes
  <2>. SUFFICES ASSUME NEW p \in HeldPanes PROVE p \in Panes
    OBVIOUS
  <2>1. p.tools \in Seq(Ids) /\ p.bar \in Seq(Ids) /\ p.active \in Ids
    BY <1>1, <1>2, SeqMonotonic
  <2>2. [split |-> FALSE, tools |-> p.tools, active |-> p.active, bar |-> p.bar] \in Panes
    BY <2>1 DEF Panes
  <2>. QED
    BY <1>2, <2>2
<1>. QED
  BY <1>1, <1>2, <1>3 DEF ShownPanes

\* Listed is closed under its two rules.
LEMMA ListedClosed ==
  ASSUME NEW panes \in SUBSET HeldPanes
  PROVE  Closed(Listed(panes), panes)
<1>1. ASSUME NEW p \in panes PROVE <<p, p.tools>> \in Listed(panes)
  <2>1. p \in Forest /\ p.tools \in Seq(Tools)
    BY HeldPanesAre, PanesInForest
  <2>2. \A C : Closed(C, panes) => <<p, p.tools>> \in C
    BY DEF Closed
  <2>. QED
    BY <2>1, <2>2 DEF Listed
<1>2. ASSUME NEW v \in BOOLEAN, NEW r \in 10..90, NEW a, NEW b, NEW s, NEW t,
             <<a, s>> \in Listed(panes), <<b, t>> \in Listed(panes)
      PROVE  <<SplitNode(v, r, a, b), s \o t>> \in Listed(panes)
  <2>1. a \in Forest /\ b \in Forest /\ s \in Seq(Tools) /\ t \in Seq(Tools)
    BY <1>2 DEF Listed
  <2>2. SplitNode(v, r, a, b) \in Forest /\ s \o t \in Seq(Tools)
    BY <2>1, SplitInForest, ConcatProperties
  <2>3. ASSUME NEW C, Closed(C, panes) PROVE <<SplitNode(v, r, a, b), s \o t>> \in C
    <3>1. <<a, s>> \in C /\ <<b, t>> \in C
      BY <1>2, <2>3 DEF Listed
    <3>. QED
      BY <2>3, <3>1 DEF Closed
  <2>. QED
    BY <2>2, <2>3 DEF Listed
<1>. QED
  BY <1>1, <1>2 DEF Closed

\* Induction: panes first, then splits of what is there.
LEMMA ListedInduction ==
  ASSUME NEW panes \in SUBSET HeldPanes, NEW C,
         \A p \in panes : <<p, p.tools>> \in C,
         \A v \in BOOLEAN, r \in 10..90 : \A a, b, s, t :
           /\ <<a, s>> \in C /\ <<a, s>> \in Listed(panes)
           /\ <<b, t>> \in C /\ <<b, t>> \in Listed(panes)
           => <<SplitNode(v, r, a, b), s \o t>> \in C
  PROVE  Listed(panes) \subseteq C
<1> DEFINE D == C \cap Listed(panes)
<1>1. Closed(D, panes)
  BY ListedClosed DEF Closed
<1>. QED
  BY <1>1 DEF Listed

\* More panes give more trees.
LEMMA MoreListed ==
  Listed(ShownPanes) \subseteq Listed(HeldPanes)
<1>1. ShownPanes \in SUBSET HeldPanes
  BY HeldPanesAre
<1>2. Closed(Listed(HeldPanes), HeldPanes)
  BY ListedClosed
<1>3. Closed(Listed(HeldPanes), ShownPanes)
  BY <1>1, <1>2 DEF Closed
<1>. QED
  BY <1>3 DEF Listed

\* No more splits inside one another than there are tools.
LEMMA ListedIsSmall ==
  ASSUME NEW n, NEW s, <<n, s>> \in Listed(HeldPanes)
  PROVE  /\ s \in Seq(Tools) /\ s # <<>> /\ n # NoTree
         /\ Len(s) <= MaxNesting => n \in Trees
         /\ IsInjective(s) => n \in Trees
         /\ n \in Trees => ToolsOf(n) = s
<1> DEFINE T == TreesOver(Panes, Int)
           C == {x \in Forest \X Seq(Tools) : Len(x[2]) >= 1 /\ x[1] \in T[Len(x[2]) - 1]}
           D == {x \in Forest \X Seq(Tools) : x[1] # NoTree /\ (x[1] \in Trees => ToolsOf(x[1]) = x[2])}
<1>0. HeldPanes \in SUBSET HeldPanes
  OBVIOUS
<1>1. T[0] = Panes /\ \A k \in Nat : T[k + 1] = Panes \cup SplitsOver(Int, T[k])
  BY TreesAre
<1>2. \A m \in Nat : \A k \in 0..m : T[k] \subseteq T[m]
  BY DeeperTrees
<1>. HIDE DEF T
<1>3. Closed(Listed(HeldPanes), HeldPanes) /\ Listed(HeldPanes) \subseteq Forest \X Seq(Tools)
  BY ListedClosed DEF Listed
<1>4. Listed(HeldPanes) \subseteq C
  <2>1. ASSUME NEW p \in HeldPanes PROVE <<p, p.tools>> \in C
    <3>1. p \in Panes /\ Len(p.tools) \in Nat \ {0}
      BY HeldPanesAre
    <3>2. Len(p.tools) - 1 \in Nat /\ 0 \in 0..(Len(p.tools) - 1) /\ Len(p.tools) >= 1
      BY <3>1
    <3>3. p \in T[Len(p.tools) - 1]
      BY <1>1, <1>2, <3>1, <3>2
    <3>4. <<p, p.tools>> \in Forest \X Seq(Tools)
      BY <1>3 DEF Closed
    <3>. QED
      BY <3>2, <3>3, <3>4
  <2>2. ASSUME NEW v \in BOOLEAN, NEW r \in 10..90, NEW a, NEW b, NEW q, NEW t,
               <<a, q>> \in C, <<a, q>> \in Listed(HeldPanes),
               <<b, t>> \in C, <<b, t>> \in Listed(HeldPanes)
        PROVE  <<SplitNode(v, r, a, b), q \o t>> \in C
    <3>1. <<SplitNode(v, r, a, b), q \o t>> \in Forest \X Seq(Tools)
      BY <1>3, <2>2 DEF Closed
    <3>2. /\ q \in Seq(Tools) /\ t \in Seq(Tools) /\ Len(q) >= 1 /\ Len(t) >= 1
          /\ a \in T[Len(q) - 1] /\ b \in T[Len(t) - 1]
      BY <2>2
    <3>3. Len(q \o t) = Len(q) + Len(t) /\ Len(q) \in Nat /\ Len(t) \in Nat
      BY <3>2, ConcatProperties, LenProperties
    <3> DEFINE k == Len(q) + Len(t) - 2
    <3>4. /\ k \in Nat /\ Len(q) - 1 \in 0..k /\ Len(t) - 1 \in 0..k /\ k + 1 = Len(q \o t) - 1
          /\ Len(q \o t) >= 1
      BY <3>2, <3>3
    <3>. HIDE DEF k
    <3>5. a \in T[k] /\ b \in T[k]
      BY <1>2, <3>2, <3>4
    <3>6. r \in Int
      OBVIOUS
    <3>7. SplitNode(v, r, a, b) \in T[k + 1]
      BY <1>1, <3>4, <3>5, <3>6 DEF SplitNode, SplitsOver
    <3>. QED
      BY <3>1, <3>4, <3>7
  <2>. HIDE DEF C
  <2>. QED
    BY <1>0, <2>1, <2>2, ListedInduction
<1>5. Listed(HeldPanes) \subseteq D
  <2>1. ASSUME NEW p \in HeldPanes PROVE <<p, p.tools>> \in D
    <3>1. <<p, p.tools>> \in Forest \X Seq(Tools)
      BY <1>3 DEF Closed
    <3>2. ~p.split /\ p # NoTree /\ MaxNesting \in Nat
      BY HeldPanesAre
    <3>3. p \in Trees => ToolsOf(p) = p.tools
      BY <3>2, ToolsOfIs
    <3>. QED
      BY <3>1, <3>2, <3>3
  <2>2. ASSUME NEW v \in BOOLEAN, NEW r \in 10..90, NEW a, NEW b, NEW q, NEW t,
               <<a, q>> \in D, <<a, q>> \in Listed(HeldPanes),
               <<b, t>> \in D, <<b, t>> \in Listed(HeldPanes)
        PROVE  <<SplitNode(v, r, a, b), q \o t>> \in D
    <3> DEFINE m == SplitNode(v, r, a, b)
    <3>1. <<m, q \o t>> \in Forest \X Seq(Tools)
      BY <1>3, <2>2 DEF Closed
    <3>2. m.split /\ m.first = a /\ m.second = b /\ MaxNesting \in Nat /\ m # NoTree
      BY HeldPanesAre DEF SplitNode, NoTree, Pane
    <3>. HIDE DEF m
    <3>3. m \in Trees => a \in Trees /\ b \in Trees /\ ToolsOf(m) = ToolsOf(a) \o ToolsOf(b)
      BY <3>2, TreeNodes, ToolsOfIs
    <3>. QED
      BY <2>2, <3>1, <3>2, <3>3 DEF m
  <2>. HIDE DEF D
  <2>. QED
    BY <1>0, <2>1, <2>2, ListedInduction
<1>6. s \in Seq(Tools) /\ Len(s) >= 1 /\ n \in T[Len(s) - 1] /\ n # NoTree
  BY <1>4, <1>5
<1>7. Len(s) \in Nat /\ s # <<>>
  BY <1>6, LenProperties, EmptySeq
<1>8. ASSUME Len(s) <= MaxNesting PROVE n \in Trees
  <2>1. MaxNesting \in Nat /\ Len(s) - 1 \in 0..MaxNesting
    BY <1>6, <1>7, <1>8, HeldPanesAre
  <2>. QED
    BY <1>2, <1>6, <2>1 DEF Trees, T
<1>9. IsInjective(s) => Len(s) <= MaxNesting
  <2>1. Len(Registry) <= MaxNesting /\ Len(Registry) \in Nat /\ MaxNesting \in Nat
    BY LenProperties, WorkspaceAssumption
  <2>. QED
    BY <1>6, <1>7, <2>1, DistinctTools
<1>. QED
  BY <1>5, <1>6, <1>7, <1>8, <1>9

\* A tree or none: it is one of the trees the recursions are over, with these tools.
LEMMA LaidIsATree ==
  ASSUME NEW n, NEW s, Laid(HeldPanes, n, s), IsInjective(s)
  PROVE  /\ n \in Trees /\ ToolsOf(n) = s /\ s \in Seq(Tools)
         /\ n = NoTree <=> s = <<>>
         /\ n # NoTree => <<n, s>> \in Listed(HeldPanes)
<1>1. CASE <<n, s>> \in Listed(HeldPanes)
  BY <1>1, ListedIsSmall
<1>2. CASE n = NoTree /\ s = <<>>
  <2>1. NoTree \in Trees /\ ~NoTree.split /\ NoTree.tools = <<>>
    BY HeldPanesAre, TreeNodes, NoTreeIsAPane DEF NoTree, Pane
  <2>2. ToolsOf(NoTree) = <<>>
    BY <2>1, HeldPanesAre, ToolsOfIs
  <2>3. <<>> \in Seq(Tools)
    OBVIOUS
  <2>. QED
    BY <1>2, <2>1, <2>2, <2>3
<1>. QED
  BY <1>1, <1>2 DEF Laid

\* A listed tree is a pane or a split of two listed trees.
Splitting(panes, n, s) ==
  \E v, r, a, b, p, q :
    /\ v \in BOOLEAN /\ r \in 10..90
    /\ n = SplitNode(v, r, a, b) /\ s = p \o q
    /\ <<a, p>> \in Listed(panes) /\ <<b, q>> \in Listed(panes)

\* What is listed is a pane or a split of two listed trees.
LEMMA ListedIs ==
  ASSUME NEW panes \in SUBSET HeldPanes, NEW n, NEW s,
         <<n, s>> \in Listed(panes)
  PROVE  (n \in panes /\ s = n.tools) \/ Splitting(panes, n, s)
<1> DEFINE C == {x \in Listed(panes) : (x[1] \in panes /\ x[2] = x[1].tools)
                                         \/ Splitting(panes, x[1], x[2])}
<1>0. Closed(Listed(panes), panes)
  BY ListedClosed
<1>1. \A p \in panes : <<p, p.tools>> \in C
  BY <1>0 DEF Closed
<1>2. ASSUME NEW v \in BOOLEAN, NEW r \in 10..90, NEW a, NEW b, NEW p, NEW q,
             <<a, p>> \in Listed(panes), <<b, q>> \in Listed(panes)
      PROVE  <<SplitNode(v, r, a, b), p \o q>> \in C
  <2>1. <<SplitNode(v, r, a, b), p \o q>> \in Listed(panes)
    BY <1>0, <1>2 DEF Closed
  <2>2. Splitting(panes, SplitNode(v, r, a, b), p \o q)
    BY <1>2 DEF Splitting
  <2>. QED
    BY <2>1, <2>2
<1>. HIDE DEF C
<1>3. Listed(panes) \subseteq C
  BY <1>1, <1>2, ListedInduction
<1>4. <<n, s>> \in C
  BY <1>3
<1>. QED
  BY <1>4 DEF C

\* The children of a split that is one of the trees, with their tools.
LEMMA SplitIs ==
  ASSUME NEW v, NEW r, NEW a, NEW b, SplitNode(v, r, a, b) \in Trees
  PROVE  LET n == SplitNode(v, r, a, b)
         IN /\ n.split /\ n.first = a /\ n.second = b /\ n.vertical = v /\ n.ratio = r
            /\ a \in Trees /\ b \in Trees /\ n \notin HeldPanes /\ n # NoTree
<1>1. /\ SplitNode(v, r, a, b).split /\ SplitNode(v, r, a, b).first = a
      /\ SplitNode(v, r, a, b).second = b
      /\ SplitNode(v, r, a, b).vertical = v /\ SplitNode(v, r, a, b).ratio = r
  BY DEF SplitNode
<1>2. ~NoTree.split
  BY DEF NoTree, Pane
<1>. QED
  BY <1>1, <1>2, HeldPanesAre, TreeNodes

\* Its panes hold its tools, each of them one.
LEMMA PanesListed ==
  ASSUME NEW panes \in SUBSET HeldPanes
  PROVE  \A x \in Listed(panes) : x[1] \in Trees =>
           /\ PanesOf(x[1]) \in Seq(panes) /\ PanesOf(x[1]) # <<>>
           /\ Members(x[2]) = UNION {Members(p.tools) : p \in Members(PanesOf(x[1]))}
<1> DEFINE C == {x \in Listed(panes) : x[1] \in Trees =>
                   /\ PanesOf(x[1]) \in Seq(panes) /\ PanesOf(x[1]) # <<>>
                   /\ Members(x[2]) = UNION {Members(p.tools) : p \in Members(PanesOf(x[1]))}}
<1>0. Closed(Listed(panes), panes) /\ Listed(panes) \subseteq Forest \X Seq(Tools)
  BY ListedClosed DEF Listed
<1>1. ASSUME NEW p \in panes PROVE <<p, p.tools>> \in C
  <2>1. <<p, p.tools>> \in Listed(panes)
    BY <1>0 DEF Closed
  <2>2. ~p.split /\ p # NoTree /\ MaxNesting \in Nat
    BY HeldPanesAre
  <2>3. p \in Trees => PanesOf(p) = <<p>>
    BY <2>2, PanesOfIs
  <2>4. <<p>> \in Seq(panes) /\ <<p>> # <<>> /\ Members(<<p>>) = {p}
    BY ShortLists
  <2>5. UNION {Members(q.tools) : q \in {p}} = Members(p.tools)
    OBVIOUS
  <2>. QED
    BY <2>1, <2>3, <2>4, <2>5
<1>2. ASSUME NEW v \in BOOLEAN, NEW r \in 10..90, NEW a, NEW b, NEW s, NEW t,
             <<a, s>> \in C, <<b, t>> \in C
      PROVE  <<SplitNode(v, r, a, b), s \o t>> \in C
  <2> DEFINE n == SplitNode(v, r, a, b)
  <2>1. <<n, s \o t>> \in Listed(panes)
    BY <1>0, <1>2 DEF Closed
  <2>2. ASSUME n \in Trees
        PROVE  /\ PanesOf(n) \in Seq(panes) /\ PanesOf(n) # <<>>
               /\ Members(s \o t) = UNION {Members(p.tools) : p \in Members(PanesOf(n))}
    <3>1. a \in Trees /\ b \in Trees /\ n.split /\ n.first = a /\ n.second = b
      BY <2>2, SplitIs
    <3>2. PanesOf(n) = PanesOf(a) \o PanesOf(b)
      BY <2>2, <3>1, HeldPanesAre, PanesOfIs
    <3> DEFINE A == PanesOf(a)
               B == PanesOf(b)
    <3>3. /\ A \in Seq(panes) /\ A # <<>> /\ B \in Seq(panes)
          /\ Members(s) = UNION {Members(p.tools) : p \in Members(A)}
          /\ Members(t) = UNION {Members(p.tools) : p \in Members(B)}
          /\ s \in Seq(Tools) /\ t \in Seq(Tools)
      BY <1>0, <1>2, <3>1
    <3>. HIDE DEF A, B
    <3>4. A \o B \in Seq(panes) /\ Members(A \o B) = Members(A) \cup Members(B)
      BY <3>3, Concatenated
    <3>5. Members(s \o t) = Members(s) \cup Members(t)
      BY <3>3, Concatenated
    <3>6. A \o B # <<>>
      BY <3>3, ConcatEqualIffEmpty
    <3>. QED
      BY <3>2, <3>3, <3>4, <3>5, <3>6 DEF A, B
  <2>. HIDE DEF n
  <2>. QED
    BY <2>1, <2>2 DEF n
<1>. HIDE DEF C
<1>3. Listed(panes) \subseteq C
  BY <1>1, <1>2, ListedInduction
<1>. QED
  BY <1>3 DEF C

\* The tools of a tree are those of its panes.
LEMMA PaneSetIs ==
  ASSUME NEW panes \in SUBSET HeldPanes, NEW n, NEW s,
         <<n, s>> \in Listed(panes), n \in Trees
  PROVE  /\ PaneSet(n) = Members(PanesOf(n)) /\ PaneSet(n) \subseteq panes
         /\ PanesOf(n) \in Seq(panes) /\ PanesOf(n) # <<>> /\ Head(PanesOf(n)) \in PaneSet(n)
         /\ \A p \in PaneSet(n) : Members(p.tools) \subseteq Members(s)
         /\ \A t \in Members(s) : \E p \in PaneSet(n) : t \in Members(p.tools)
         /\ \A v, r, a, b : n = SplitNode(v, r, a, b) => PaneSet(n) = PaneSet(a) \cup PaneSet(b)
<1>1. /\ PanesOf(n) \in Seq(panes) /\ PanesOf(n) # <<>>
      /\ Members(s) = UNION {Members(p.tools) : p \in Members(PanesOf(n))}
  BY PanesListed
<1>2. /\ DOMAIN PanesOf(n) = 1..Len(PanesOf(n)) /\ Len(PanesOf(n)) \in Nat \ {0}
      /\ PanesOf(n) \in [1..Len(PanesOf(n)) -> panes]
  BY <1>1, LenProperties, EmptySeq
<1>3. PaneSet(n) = Members(PanesOf(n)) /\ PaneSet(n) \subseteq panes
  BY <1>2 DEF PaneSet, Members
<1>4. Head(PanesOf(n)) \in PaneSet(n)
  <2>1. 1 \in 1..Len(PanesOf(n)) /\ Head(PanesOf(n)) = PanesOf(n)[1]
    BY <1>1, <1>2
  <2>. QED
    BY <1>3, <2>1 DEF Members
<1>5. ASSUME NEW v, NEW r, NEW a, NEW b, n = SplitNode(v, r, a, b)
      PROVE  PaneSet(n) = PaneSet(a) \cup PaneSet(b)
  <2>1. n.split /\ n.first = a /\ n.second = b /\ a \in Trees /\ b \in Trees /\ MaxNesting \in Nat
    BY <1>5, SplitIs, HeldPanesAre
  <2>2. /\ PanesOf(n) = PanesOf(a) \o PanesOf(b)
        /\ PanesOf(a) \in Seq(Panes) /\ PanesOf(b) \in Seq(Panes)
    BY <2>1, PanesOfIs
  <2>3. Members(PanesOf(a) \o PanesOf(b)) = Members(PanesOf(a)) \cup Members(PanesOf(b))
    BY <2>2, Concatenated
  <2>4. DOMAIN PanesOf(a) = 1..Len(PanesOf(a)) /\ DOMAIN PanesOf(b) = 1..Len(PanesOf(b))
    BY <2>2, LenProperties
  <2>5. PaneSet(a) = Members(PanesOf(a)) /\ PaneSet(b) = Members(PanesOf(b))
    BY <2>4 DEF PaneSet, Members
  <2>. QED
    BY <1>3, <2>2, <2>3, <2>5
<1>. QED
  BY <1>1, <1>3, <1>4, <1>5

\* Another node with the same tools in the place of a node.
LEMMA SameToolsSubstituted ==
  ASSUME NEW panes \in SUBSET HeldPanes,
         NEW old, NEW new, NEW m, <<new, m>> \in Listed(panes),
         old \in Trees => ToolsOf(old) = m
  PROVE  \A n, s : <<n, s>> \in Listed(panes) /\ n \in Trees
           => <<Substitute(n, old, new), s>> \in Listed(panes)
<1> DEFINE C == {x \in Listed(panes) :
                   x[1] \in Trees => <<Substitute(x[1], old, new), x[2]>> \in Listed(panes)}
<1>0. /\ Closed(Listed(panes), panes) /\ Listed(panes) \subseteq Forest \X Seq(Tools)
      /\ MaxNesting \in Nat /\ new \in Forest
  BY ListedClosed, HeldPanesAre DEF Listed
<1>s. \A n \in Trees :
        /\ n.split => Substitute(n, old, new) =
             IF n = old THEN new
             ELSE SplitOf(n, Substitute(n.first, old, new), Substitute(n.second, old, new))
        /\ ~n.split => Substitute(n, old, new) = IF n = old THEN new ELSE n
  BY <1>0, SubstituteIs
<1>t. \A x \in Listed(panes) : x[1] \in Trees => ToolsOf(x[1]) = x[2]
  <2>. SUFFICES ASSUME NEW x \in Listed(panes), x[1] \in Trees PROVE ToolsOf(x[1]) = x[2]
    OBVIOUS
  <2>1. x = <<x[1], x[2]>>
    BY <1>0
  <2>2. Listed(panes) \subseteq Listed(HeldPanes)
    <3>1. Closed(Listed(HeldPanes), panes)
      BY ListedClosed DEF Closed
    <3>. QED
      BY <3>1 DEF Listed
  <2>. QED
    BY <2>1, <2>2, ListedIsSmall
<1>1. ASSUME NEW p \in panes PROVE <<p, p.tools>> \in C
  <2>1. <<p, p.tools>> \in Listed(panes) /\ ~p.split
    BY <1>0, HeldPanesAre DEF Closed
  <2>2. p \in Trees => Substitute(p, old, new) = IF p = old THEN new ELSE p
    BY <1>s, <2>1
  <2>3. p \in Trees /\ p = old => p.tools = m
    BY <1>t, <2>1
  <2>. QED
    BY <2>1, <2>2, <2>3
<1>2. ASSUME NEW v \in BOOLEAN, NEW r \in 10..90, NEW a, NEW b, NEW s, NEW t,
             <<a, s>> \in C, <<b, t>> \in C
      PROVE  <<SplitNode(v, r, a, b), s \o t>> \in C
  <2> DEFINE n == SplitNode(v, r, a, b)
  <2>1. <<n, s \o t>> \in Listed(panes)
    BY <1>0, <1>2 DEF Closed
  <2>2. ASSUME n \in Trees PROVE <<Substitute(n, old, new), s \o t>> \in Listed(panes)
    <3>1. /\ n.split /\ n.first = a /\ n.second = b /\ n.vertical = v /\ n.ratio = r
          /\ a \in Trees /\ b \in Trees
      BY <2>2, SplitIs
    <3>2. CASE n = old
      <4>1. s \o t = m
        BY <1>t, <2>1, <2>2, <3>2
      <4>. QED
        BY <1>s, <2>2, <3>1, <3>2, <4>1
    <3>3. CASE n # old
      <4> DEFINE A == Substitute(a, old, new)
                 B == Substitute(b, old, new)
      <4>1. <<A, s>> \in Listed(panes) /\ <<B, t>> \in Listed(panes)
        BY <1>2, <3>1
      <4>2. Substitute(n, old, new) = SplitNode(v, r, A, B)
        BY <1>s, <2>2, <3>1, <3>3 DEF SplitOf
      <4>. HIDE DEF A, B, n
      <4>. QED
        BY <1>0, <4>1, <4>2 DEF Closed
    <3>. QED
      BY <3>2, <3>3
  <2>. HIDE DEF n
  <2>. QED
    BY <2>1, <2>2 DEF n
<1>. HIDE DEF C
<1>3. Listed(panes) \subseteq C
  BY <1>1, <1>2, ListedInduction
<1>. QED
  BY <1>3 DEF C

\* A pane that is not in a tree is not substituted in it.
LEMMA NotSubstituted ==
  ASSUME NEW panes \in SUBSET HeldPanes, NEW pane \in HeldPanes,
         NEW new \in Forest
  PROVE  \A n, s : /\ <<n, s>> \in Listed(panes) /\ n \in Trees
                   /\ Members(pane.tools) \cap Members(s) = {}
           => Substitute(n, pane, new) = n
<1> DEFINE C == {x \in Listed(panes) : x[1] \in Trees /\ Members(pane.tools) \cap Members(x[2]) = {}
                   => Substitute(x[1], pane, new) = x[1]}
<1>0. /\ Closed(Listed(panes), panes) /\ Listed(panes) \subseteq Forest \X Seq(Tools)
      /\ MaxNesting \in Nat /\ ~pane.split /\ pane.active \in Members(pane.tools)
  BY ListedClosed, HeldPanesAre DEF Listed
<1>s. \A n \in Trees :
        /\ n.split => Substitute(n, pane, new) =
             IF n = pane THEN new
             ELSE SplitOf(n, Substitute(n.first, pane, new), Substitute(n.second, pane, new))
        /\ ~n.split => Substitute(n, pane, new) = IF n = pane THEN new ELSE n
  BY <1>0, SubstituteIs
<1>1. ASSUME NEW p \in panes PROVE <<p, p.tools>> \in C
  <2>1. <<p, p.tools>> \in Listed(panes) /\ ~p.split
    BY <1>0, HeldPanesAre DEF Closed
  <2>2. p \in Trees => Substitute(p, pane, new) = IF p = pane THEN new ELSE p
    BY <1>s, <2>1
  <2>3. Members(pane.tools) \cap Members(p.tools) = {} => p # pane
    BY <1>0
  <2>. QED
    BY <2>1, <2>2, <2>3
<1>2. ASSUME NEW v \in BOOLEAN, NEW r \in 10..90, NEW a, NEW b, NEW s, NEW t,
             <<a, s>> \in C, <<b, t>> \in C
      PROVE  <<SplitNode(v, r, a, b), s \o t>> \in C
  <2> DEFINE n == SplitNode(v, r, a, b)
  <2>1. <<n, s \o t>> \in Listed(panes)
    BY <1>0, <1>2 DEF Closed
  <2>2. ASSUME n \in Trees, Members(pane.tools) \cap Members(s \o t) = {}
        PROVE  Substitute(n, pane, new) = n
    <3>1. /\ n.split /\ n.first = a /\ n.second = b /\ n.vertical = v /\ n.ratio = r
          /\ a \in Trees /\ b \in Trees /\ n # pane
      BY <1>0, <2>2, SplitIs
    <3>0. s \in Seq(Tools) /\ t \in Seq(Tools)
      BY <1>0, <1>2
    <3>2. Members(s \o t) = Members(s) \cup Members(t)
      BY <3>0, Concatenated
    <3>3. Substitute(a, pane, new) = a /\ Substitute(b, pane, new) = b
      BY <1>2, <2>2, <3>1, <3>2
    <3>4. Substitute(n, pane, new) = SplitNode(v, r, a, b)
      BY <1>s, <2>2, <3>1, <3>3 DEF SplitOf
    <3>. QED
      BY <3>4
  <2>. HIDE DEF n
  <2>. QED
    BY <2>1, <2>2 DEF n
<1>. HIDE DEF C
<1>3. Listed(panes) \subseteq C
  BY <1>1, <1>2, ListedInduction
<1>. QED
  BY <1>3 DEF C

\* A node in the place of a pane: its tools come where those of the pane were.
InPlaceOf(panes, pane, new, m, n, s) ==
  \E a, b \in Seq(Tools) : /\ s = Between(a, pane.tools, b)
                           /\ <<Substitute(n, pane, new), Between(a, m, b)>> \in Listed(panes)

\* What replaces a pane puts its list in place of that of the pane.
LEMMA PaneSubstituted ==
  ASSUME NEW panes \in SUBSET HeldPanes, NEW pane \in panes,
         NEW new, NEW m, <<new, m>> \in Listed(panes)
  PROVE  \A n, s : /\ <<n, s>> \in Listed(panes) /\ n \in Trees /\ IsInjective(s)
                   /\ pane \in PaneSet(n)
           => InPlaceOf(panes, pane, new, m, n, s)
<1> DEFINE C == {x \in Listed(panes) : x[1] \in Trees /\ IsInjective(x[2]) /\ pane \in PaneSet(x[1])
                   => InPlaceOf(panes, pane, new, m, x[1], x[2])}
<1>0. /\ Closed(Listed(panes), panes) /\ Listed(panes) \subseteq Forest \X Seq(Tools)
      /\ MaxNesting \in Nat /\ ~pane.split /\ pane.active \in Members(pane.tools)
      /\ pane.tools \in Seq(Tools) /\ new \in Forest /\ m \in Seq(Tools) /\ pane \in HeldPanes
  BY ListedClosed, HeldPanesAre DEF Listed
<1>s. \A n \in Trees :
        /\ n.split => Substitute(n, pane, new) =
             IF n = pane THEN new
             ELSE SplitOf(n, Substitute(n.first, pane, new), Substitute(n.second, pane, new))
        /\ ~n.split => Substitute(n, pane, new) = IF n = pane THEN new ELSE n
  BY <1>0, SubstituteIs
<1>e. <<>> \in Seq(Tools) /\ \A u \in Seq(Tools) : <<>> \o u = u /\ u \o <<>> = u
  BY ConcatEmptySeq
<1>1. ASSUME NEW p \in panes PROVE <<p, p.tools>> \in C
  <2>1. <<p, p.tools>> \in Listed(panes) /\ ~p.split /\ p # NoTree
    BY <1>0, HeldPanesAre DEF Closed
  <2>2. ASSUME p \in Trees, pane \in PaneSet(p)
        PROVE  InPlaceOf(panes, pane, new, m, p, p.tools)
    <3>1. PanesOf(p) = <<p>>
      BY <1>0, <2>1, <2>2, PanesOfIs
    <3>2. PaneSet(p) = Members(PanesOf(p))
      BY <2>1, <2>2, PaneSetIs
    <3>3. pane = p
      BY <2>2, <3>1, <3>2, ShortLists
    <3>4. Substitute(p, pane, new) = new
      BY <1>s, <2>1, <2>2, <3>3
    <3>5. p.tools = Between(<<>>, pane.tools, <<>>) /\ Between(<<>>, m, <<>>) = m
      BY <1>0, <1>e, <3>3 DEF Between, Cat
    <3>. QED
      BY <1>e, <3>4, <3>5 DEF InPlaceOf
  <2>. QED
    BY <2>1, <2>2
<1>2. ASSUME NEW v \in BOOLEAN, NEW r \in 10..90, NEW a, NEW b, NEW s, NEW t,
             <<a, s>> \in C, <<b, t>> \in C
      PROVE  <<SplitNode(v, r, a, b), s \o t>> \in C
  <2> DEFINE n == SplitNode(v, r, a, b)
  <2>1. <<n, s \o t>> \in Listed(panes)
    BY <1>0, <1>2 DEF Closed
  <2>2. ASSUME n \in Trees, IsInjective(s \o t), pane \in PaneSet(n)
        PROVE  InPlaceOf(panes, pane, new, m, n, s \o t)
    <3>1. /\ n.split /\ n.first = a /\ n.second = b /\ n.vertical = v /\ n.ratio = r
          /\ a \in Trees /\ b \in Trees /\ n # pane
      BY <1>0, <2>2, SplitIs
    <3>2. s \in Seq(Tools) /\ t \in Seq(Tools)
      BY <1>0, <1>2
    <3>3. IsInjective(s) /\ IsInjective(t) /\ Members(s) \cap Members(t) = {}
      BY <2>2, <3>2, Concatenated
    <3>4. PaneSet(n) = PaneSet(a) \cup PaneSet(b)
      BY <2>1, <2>2, PaneSetIs
    <3> DEFINE A == Substitute(a, pane, new)
               B == Substitute(b, pane, new)
    <3>5. Substitute(n, pane, new) = SplitNode(v, r, A, B)
      BY <1>s, <2>2, <3>1 DEF SplitOf
    <3>6. CASE pane \in PaneSet(a)
      <4>1. PICK c \in Seq(Tools), d \in Seq(Tools) :
              s = Between(c, pane.tools, d) /\ <<A, Between(c, m, d)>> \in Listed(panes)
        BY <1>2, <3>1, <3>3, <3>6 DEF InPlaceOf
      <4>2. Members(pane.tools) \subseteq Members(s)
        BY <1>2, <3>1, <3>6, PaneSetIs
      <4>3. B = b
        <5>1. Members(pane.tools) \cap Members(t) = {} /\ <<b, t>> \in Listed(panes)
          BY <1>2, <3>3, <4>2
        <5>. QED
          BY <1>0, <3>1, <5>1, NotSubstituted
      <4>. HIDE DEF A, B
      <4>4. <<SplitNode(v, r, A, B), (Between(c, m, d)) \o t>> \in Listed(panes)
        BY <1>0, <1>2, <4>1, <4>3 DEF Closed
      <4>5. /\ Cat(Between(c, m, d), t) = Between(c, m, Cat(d, t))
            /\ Cat(Between(c, pane.tools, d), t) = Between(c, pane.tools, Cat(d, t))
            /\ Cat(d, t) \in Seq(Tools)
        <5>1. c \in Seq(Tools) /\ d \in Seq(Tools) /\ m \in Seq(Tools) /\ pane.tools \in Seq(Tools)
          BY <1>0
        <5>2. \A u \in Seq(Tools) : Cat(Between(c, u, d), t) = Between(c, u, Cat(d, t))
          BY <3>2, Extended
        <5>3. Cat(d, t) \in Seq(Tools)
          BY <3>2, Regrouped
        <5>. QED
          BY <5>1, <5>2, <5>3
      <4>6. /\ Cat(Between(c, m, d), t) = Between(c, m, d) \o t
            /\ Cat(Between(c, pane.tools, d), t) = Between(c, pane.tools, d) \o t
        BY DEF Cat
      <4>. QED
        BY <3>5, <4>1, <4>4, <4>5, <4>6 DEF InPlaceOf
    <3>7. CASE pane \in PaneSet(b)
      <4>1. PICK c \in Seq(Tools), d \in Seq(Tools) :
              t = Between(c, pane.tools, d) /\ <<B, Between(c, m, d)>> \in Listed(panes)
        BY <1>2, <3>1, <3>3, <3>7 DEF InPlaceOf
      <4>2. Members(pane.tools) \subseteq Members(t)
        BY <1>2, <3>1, <3>7, PaneSetIs
      <4>3. A = a
        <5>1. Members(pane.tools) \cap Members(s) = {} /\ <<a, s>> \in Listed(panes)
          BY <1>2, <3>3, <4>2
        <5>. QED
          BY <1>0, <3>1, <5>1, NotSubstituted
      <4>. HIDE DEF A, B
      <4>4. <<SplitNode(v, r, A, B), s \o (Between(c, m, d))>> \in Listed(panes)
        BY <1>0, <1>2, <4>1, <4>3 DEF Closed
      <4>5. /\ Cat(s, Between(c, m, d)) = Between(Cat(s, c), m, d)
            /\ Cat(s, Between(c, pane.tools, d)) = Between(Cat(s, c), pane.tools, d)
            /\ Cat(s, c) \in Seq(Tools)
        <5>1. c \in Seq(Tools) /\ d \in Seq(Tools) /\ m \in Seq(Tools) /\ pane.tools \in Seq(Tools)
          BY <1>0
        <5>2. \A u \in Seq(Tools) : Cat(s, Between(c, u, d)) = Between(Cat(s, c), u, d)
          BY <3>2, Extended
        <5>3. Cat(s, c) \in Seq(Tools)
          BY <3>2, Regrouped
        <5>. QED
          BY <5>1, <5>2, <5>3
      <4>6. /\ Cat(s, Between(c, m, d)) = s \o Between(c, m, d)
            /\ Cat(s, Between(c, pane.tools, d)) = s \o Between(c, pane.tools, d)
        BY DEF Cat
      <4>. HIDE DEF n
      <4>. QED
        BY <3>5, <4>1, <4>4, <4>5, <4>6 DEF InPlaceOf
    <3>. QED
      BY <2>2, <3>4, <3>6, <3>7
  <2>. HIDE DEF n
  <2>. QED
    BY <2>1, <2>2 DEF n
<1>. HIDE DEF C
<1>3. Listed(panes) \subseteq C
  BY <1>1, <1>2, ListedInduction
<1>. QED
  BY <1>3 DEF C

\* The empty tree.
LEMMA NoTreeIs ==
  /\ NoTree \in Trees /\ ~NoTree.split /\ NoTree.tools = <<>>
  /\ \A t : ~HasTool(NoTree, t)
  /\ PanesOf(NoTree) = <<>> /\ PaneSet(NoTree) = {} /\ SplitsOf(NoTree) = {}
<1>1. NoTree \in Trees /\ ~NoTree.split /\ NoTree.tools = <<>> /\ MaxNesting \in Nat
  BY HeldPanesAre, TreeNodes, NoTreeIsAPane DEF NoTree, Pane
<1>2. \A t : ~HasTool(NoTree, t)
  BY <1>1 DEF HasTool
<1>3. PanesOf(NoTree) = <<>> /\ SplitsOf(NoTree) = {}
  BY <1>1, PanesOfIs, SplitsOfIs
<1>4. PaneSet(NoTree) = {}
  BY <1>3 DEF PaneSet
<1>. QED
  BY <1>1, <1>2, <1>3, <1>4

\* A pane with other tools, another active one, or another strip.
Retooled(p, w, a) == [p EXCEPT !.tools = w, !.active = a]
Activated(p, a, b) == [p EXCEPT !.active = a, !.bar = b]
Stripped(p) == [p EXCEPT !.bar = <<>>]

\* Changing one field of a pane.
LEMMA PaneRetooled ==
  ASSUME NEW p \in HeldPanes, NEW w \in Seq(Tools), NEW a \in Tools, a \in Members(w)
  PROVE  Retooled(p, w, a) \in HeldPanes /\ Retooled(p, w, a).tools = w
<1> DEFINE R == [split : {FALSE}, tools : Seq(Tools), active : Tools, bar : Seq(Tools)]
<1>1. p \in R
  BY DEF HeldPanes
<1>2. /\ Retooled(p, w, a) \in R /\ Retooled(p, w, a).tools = w
      /\ Retooled(p, w, a).active = a
  BY <1>1 DEF Retooled
<1>. QED
  BY <1>2 DEF HeldPanes

LEMMA PaneActivated ==
  ASSUME NEW p \in HeldPanes, NEW a \in Tools, NEW b \in Seq(Tools), a \in Members(p.tools)
  PROVE  /\ Activated(p, a, b) \in HeldPanes /\ Activated(p, a, b).tools = p.tools
         /\ Activated(p, a, b).active = a /\ Activated(p, a, b).bar = b
<1> DEFINE R == [split : {FALSE}, tools : Seq(Tools), active : Tools, bar : Seq(Tools)]
<1>1. p \in R
  BY DEF HeldPanes
<1>2. /\ Activated(p, a, b) \in R /\ Activated(p, a, b).tools = p.tools
      /\ Activated(p, a, b).active = a /\ Activated(p, a, b).bar = b
  BY <1>1 DEF Activated
<1>. QED
  BY <1>2 DEF HeldPanes

LEMMA PaneStripped ==
  ASSUME NEW p \in HeldPanes
  PROVE  Stripped(p) \in HeldPanes /\ Stripped(p).tools = p.tools
<1> DEFINE R == [split : {FALSE}, tools : Seq(Tools), active : Tools, bar : Seq(Tools)]
<1>0. <<>> \in Seq(Tools)
  OBVIOUS
<1>1. p \in R /\ p.active \in Members(p.tools)
  BY DEF HeldPanes
<1>2. /\ Stripped(p) \in R /\ Stripped(p).tools = p.tools
      /\ Stripped(p).active = p.active
  BY <1>0, <1>1 DEF Stripped
<1>. QED
  BY <1>1, <1>2 DEF HeldPanes

LEMMA LeafIs ==
  ASSUME NEW t \in Tools
  PROVE  Leaf(t) \in HeldPanes /\ Leaf(t).tools = <<t>> /\ <<Leaf(t), <<t>>>> \in Listed(HeldPanes)
<1>1. <<t>> \in Seq(Tools) /\ <<>> \in Seq(Tools) /\ t \in Members(<<t>>)
  BY ShortLists
<1>2. Leaf(t) \in HeldPanes /\ Leaf(t).tools = <<t>>
  BY <1>1 DEF Leaf, Pane, HeldPanes
<1>. QED
  BY <1>2, ListedClosed DEF Closed

-----------------------------------------------------------------------------
(* A tool taken out of a tree.                                              *)

\* A pane without the tool, or nothing when it was the last one.
LEMMA PaneWithoutTool ==
  ASSUME NEW p \in HeldPanes, IsInjective(p.tools), NEW t
  PROVE  Laid(HeldPanes, PaneWithout(p, t), Without(p.tools, t))
<1>0. /\ Closed(Listed(HeldPanes), HeldPanes)
      /\ p = [split |-> FALSE, tools |-> p.tools, active |-> p.active, bar |-> p.bar]
      /\ p.tools \in Seq(Tools) /\ p.active \in Tools /\ p.active \in Members(p.tools)
      /\ p.bar \in Seq(Tools) /\ (HasTool(p, t) <=> t \in Members(p.tools))
  BY ListedClosed, HeldPanesAre
<1> DEFINE w == Without(p.tools, t)
<1>1. w \in Seq(Tools) /\ Members(w) = Members(p.tools) \ {t}
  BY <1>0, Leaving
<1>2. CASE ~HasTool(p, t)
  <2>1. PaneWithout(p, t) = p /\ w = p.tools
    <3>1. w = p.tools
      BY <1>0, <1>2, Leaving
    <3>2. PaneWithout(p, t) = p
      BY <1>2, <3>1, HeldPanesAre DEF PaneWithout
    <3>. QED
      BY <3>1, <3>2
  <2>. QED
    BY <1>0, <2>1 DEF Laid, Closed
<1>3. CASE HasTool(p, t) /\ w = <<>>
  BY <1>3 DEF PaneWithout, Laid
<1>4. CASE HasTool(p, t) /\ w # <<>>
  <2> DEFINE a == IF p.active = t THEN Head(w) ELSE p.active
             q == Retooled(p, w, a)
  <2>1. PaneWithout(p, t) = q
    <3>1. PaneWithout(p, t) = [p EXCEPT !.tools = Without(@, t),
                                        !.active = IF @ = t THEN Head(w) ELSE @]
      BY <1>4 DEF PaneWithout
    <3>. QED
      BY <3>1 DEF Retooled
  <2>2. a \in Members(w) /\ a \in Tools
    <3>1. Len(w) \in Nat \ {0} /\ Head(w) = w[1] /\ Head(w) \in Tools
      BY <1>1, <1>4, EmptySeq, HeadTailProperties
    <3>2. Head(w) \in Members(w)
      BY <3>1 DEF Members
    <3>. QED
      BY <1>0, <1>1, <3>1, <3>2
  <2>. HIDE DEF a, w
  <2>4. q \in HeldPanes /\ q.tools = w
    BY <1>1, <2>2, PaneRetooled
  <2>5. <<q, w>> \in Listed(HeldPanes)
    <3>. HIDE DEF q
    <3>. QED
      BY <1>0, <2>4 DEF Closed
  <2>. QED
    BY <2>1, <2>5 DEF Laid, w
<1>. QED
  BY <1>2, <1>3, <1>4

\* What is left of a split when one side is gone.
LEMMA JoinedIs ==
  ASSUME NEW n, n.vertical \in BOOLEAN, n.ratio \in 10..90,
         NEW a, NEW p, Laid(HeldPanes, a, p), NEW b, NEW q, Laid(HeldPanes, b, q)
  PROVE  Laid(HeldPanes, Joined(n, a, b), p \o q)
<1>0. Closed(Listed(HeldPanes), HeldPanes)
  BY ListedClosed
<1>1. /\ p \in Seq(Tools) /\ (a = NoTree => p = <<>>)
      /\ q \in Seq(Tools) /\ (b = NoTree => q = <<>>)
  <2>1. <<>> \in Seq(Tools)
    OBVIOUS
  <2>. QED
    BY <2>1, ListedIsSmall DEF Laid
<1>2. p \o <<>> = p /\ <<>> \o q = q
  BY <1>1, ConcatEmptySeq
<1>3. CASE a = NoTree
  <2>1. Joined(n, a, b) = b
    BY <1>3 DEF Joined
  <2>. QED
    BY <1>1, <1>2, <1>3, <2>1
<1>4. CASE a # NoTree /\ b = NoTree
  <2>1. Joined(n, a, b) = a
    BY <1>4 DEF Joined
  <2>. QED
    BY <1>1, <1>2, <1>4, <2>1
<1>5. CASE a # NoTree /\ b # NoTree
  <2>1. Joined(n, a, b) = SplitNode(n.vertical, n.ratio, a, b)
    BY <1>5 DEF Joined, SplitOf
  <2>2. <<a, p>> \in Listed(HeldPanes) /\ <<b, q>> \in Listed(HeldPanes)
    BY <1>5 DEF Laid
  <2>3. <<SplitNode(n.vertical, n.ratio, a, b), p \o q>> \in Listed(HeldPanes)
    BY <1>0, <2>2 DEF Closed
  <2>. QED
    BY <2>1, <2>3 DEF Laid
<1>. QED
  BY <1>3, <1>4, <1>5

LEMMA ToolRemovedListed ==
  ASSUME NEW t
  PROVE  \A n, s : <<n, s>> \in Listed(HeldPanes) /\ IsInjective(s)
           => Laid(HeldPanes, TreeWithout(n, t), Without(s, t))
<1> DEFINE C == {x \in Listed(HeldPanes) : IsInjective(x[2])
                   => Laid(HeldPanes, TreeWithout(x[1], t), Without(x[2], t))}
<1>0. /\ Closed(Listed(HeldPanes), HeldPanes) /\ Listed(HeldPanes) \subseteq Forest \X Seq(Tools)
      /\ MaxNesting \in Nat /\ HeldPanes \in SUBSET HeldPanes
  BY ListedClosed, HeldPanesAre DEF Listed
<1>s. \A n \in Trees :
        /\ n.split => TreeWithout(n, t) =
                        Joined(n, TreeWithout(n.first, t), TreeWithout(n.second, t))
        /\ ~n.split => TreeWithout(n, t) = PaneWithout(n, t)
  BY <1>0, TreeWithoutIs
<1>1. ASSUME NEW p \in HeldPanes PROVE <<p, p.tools>> \in C
  <2>1. <<p, p.tools>> \in Listed(HeldPanes) /\ ~p.split
    BY <1>0, HeldPanesAre DEF Closed
  <2>2. ASSUME IsInjective(p.tools)
        PROVE  Laid(HeldPanes, TreeWithout(p, t), Without(p.tools, t))
    <3>1. p \in Trees
      BY <2>1, <2>2, ListedIsSmall
    <3>2. TreeWithout(p, t) = PaneWithout(p, t)
      BY <1>s, <2>1, <3>1
    <3>. QED
      BY <2>2, <3>2, PaneWithoutTool
  <2>. QED
    BY <2>1, <2>2
<1>2. ASSUME NEW v \in BOOLEAN, NEW r \in 10..90, NEW a, NEW b, NEW p, NEW q,
             <<a, p>> \in C, <<b, q>> \in C
      PROVE  <<SplitNode(v, r, a, b), p \o q>> \in C
  <2> DEFINE n == SplitNode(v, r, a, b)
             A == TreeWithout(a, t)
             B == TreeWithout(b, t)
             u == Without(p, t)
             w == Without(q, t)
  <2>1. <<n, p \o q>> \in Listed(HeldPanes)
    BY <1>0, <1>2 DEF Closed
  <2>2. ASSUME IsInjective(p \o q)
        PROVE  Laid(HeldPanes, TreeWithout(n, t), Without(p \o q, t))
    <3>0. n \in Trees
      BY <2>1, <2>2, ListedIsSmall
    <3>1. n.split /\ n.first = a /\ n.second = b /\ n.vertical = v /\ n.ratio = r
      BY <3>0, SplitIs
    <3>2. p \in Seq(Tools) /\ q \in Seq(Tools)
      BY <1>0, <1>2
    <3>3. IsInjective(p) /\ IsInjective(q)
      BY <2>2, <3>2, Concatenated
    <3>4. Laid(HeldPanes, A, u) /\ Laid(HeldPanes, B, w)
      BY <1>2, <3>3
    <3>5. u \in Seq(Tools) /\ w \in Seq(Tools)
      BY <3>2, Leaving
    <3>6. Without(p \o q, t) = u \o w
      BY <2>2, <3>2, LeavingEither
    <3>7. TreeWithout(n, t) = Joined(n, A, B)
      BY <1>s, <3>0, <3>1
    <3>8. n.vertical \in BOOLEAN /\ n.ratio \in 10..90
      BY <3>1
    <3>. HIDE DEF n, A, B, u, w
    <3>9. Laid(HeldPanes, Joined(n, A, B), u \o w)
      BY <3>4, <3>8, JoinedIs
    <3>. QED
      BY <3>6, <3>7, <3>9
  <2>. HIDE DEF n
  <2>. QED
    BY <2>1, <2>2 DEF n
<1>. HIDE DEF C
<1>3. Listed(HeldPanes) \subseteq C
  BY <1>0, <1>1, <1>2, ListedInduction
<1>. QED
  BY <1>3 DEF C

LEMMA ToolRemoved ==
  ASSUME NEW n, NEW s, Laid(HeldPanes, n, s), IsInjective(s), NEW t
  PROVE  /\ Laid(HeldPanes, TreeWithout(n, t), Without(s, t)) /\ IsInjective(Without(s, t))
         /\ Members(Without(s, t)) = Members(s) \ {t}
<1>0. s \in Seq(Tools)
  BY LaidIsATree
<1>1. CASE <<n, s>> \in Listed(HeldPanes)
  BY <1>0, <1>1, ToolRemovedListed, Leaving
<1>2. CASE n = NoTree /\ s = <<>>
  <2>1. TreeWithout(NoTree, t) = PaneWithout(NoTree, t) /\ PaneWithout(NoTree, t) = NoTree
    BY NoTreeIs, HeldPanesAre, TreeWithoutIs DEF PaneWithout
  <2>2. Without(s, t) = s /\ Members(s) = {}
    BY <1>0, <1>2, ShortLists, Leaving
  <2>. QED
    BY <1>2, <2>1, <2>2 DEF Laid
<1>. QED
  BY <1>1, <1>2 DEF Laid

-----------------------------------------------------------------------------
(* The strips.                                                              *)

\* A strip shows the tools before the active one once it is rebuilt.
LEMMA ReshownPane ==
  ASSUME NEW p \in HeldPanes
  PROVE  Reshown(p) \in ShownPanes /\ Reshown(p).tools = p.tools
<1>1. /\ p = [split |-> FALSE, tools |-> p.tools, active |-> p.active, bar |-> p.bar]
      /\ p.tools \in Seq(Tools) /\ p.active \in Tools /\ p.active \in Members(p.tools)
      /\ p.bar \in Seq(Tools) /\ \A t : HasTool(p, t) <=> t \in Members(p.tools)
  BY HeldPanesAre
<1> DEFINE I == {i \in 1..Len(p.bar) : HasTool(p, p.bar[i])}
           r == SelectInSeq(p.bar, LAMBDA t : HasTool(p, t))
           a == IF r = 0 THEN p.active ELSE p.bar[r]
<1>2. r = IF I # {} THEN Min(I) ELSE 0
  BY DEF SelectInSeq
<1>3. I \in SUBSET Nat /\ I \subseteq 1..Len(p.bar) /\ \A i \in I : HasTool(p, p.bar[i])
  BY <1>1, LenProperties
<1>4. I # {} => Min(I) \in I
  <2>. HIDE DEF I
  <2>. QED
    BY <1>3, LeastExists DEF Min
<1>5. r = 0 \/ (r \in 1..Len(p.bar) /\ HasTool(p, p.bar[r]))
  BY <1>2, <1>3, <1>4
<1>6. a \in Tools /\ a \in Members(p.tools)
  BY <1>1, <1>5, LenProperties
<1> DEFINE b == Before(p.tools, a)
<1>7. Reshown(p) = Activated(p, a, b)
  BY DEF Reshown, SelectedIn, Activated
<1>8. b \in Seq(Tools)
  <2>. HIDE DEF a
  <2>. QED
    BY <1>1, BeforeIsAList
<1>b. b = Before(p.tools, a)
  OBVIOUS
<1>. HIDE DEF a, b
<1>10. /\ Activated(p, a, b) \in HeldPanes /\ Activated(p, a, b).tools = p.tools
      /\ Activated(p, a, b).active = a /\ Activated(p, a, b).bar = b
  BY <1>6, <1>8, PaneActivated
<1>9. /\ Reshown(p) \in HeldPanes /\ Reshown(p).tools = p.tools
      /\ Reshown(p).active = a /\ Reshown(p).bar = Before(p.tools, a)
  BY <1>7, <1>10, <1>b
<1>. QED
  BY <1>9 DEF ShownPanes

LEMMA RebuiltListed ==
  \A n, s : <<n, s>> \in Listed(HeldPanes) /\ n \in Trees
    => <<Rebuilt(n), s>> \in Listed(ShownPanes)
<1> DEFINE C == {x \in Listed(HeldPanes) : x[1] \in Trees
                   => <<Rebuilt(x[1]), x[2]>> \in Listed(ShownPanes)}
<1>0. /\ Closed(Listed(HeldPanes), HeldPanes) /\ Closed(Listed(ShownPanes), ShownPanes)
      /\ MaxNesting \in Nat /\ HeldPanes \in SUBSET HeldPanes
  BY ListedClosed, HeldPanesAre
<1>s. \A n \in Trees :
        /\ n.split => Rebuilt(n) = SplitOf(n, Rebuilt(n.first), Rebuilt(n.second))
        /\ ~n.split => Rebuilt(n) = IF n = NoTree THEN n ELSE Reshown(n)
  BY <1>0, RebuiltIs
<1>1. ASSUME NEW p \in HeldPanes PROVE <<p, p.tools>> \in C
  <2>1. <<p, p.tools>> \in Listed(HeldPanes) /\ ~p.split /\ p # NoTree
    BY <1>0, HeldPanesAre DEF Closed
  <2>2. p \in Trees => Rebuilt(p) = Reshown(p)
    BY <1>s, <2>1
  <2>3. Reshown(p) \in ShownPanes /\ Reshown(p).tools = p.tools
    BY ReshownPane
  <2>4. <<Reshown(p), p.tools>> \in Listed(ShownPanes)
    BY <1>0, <2>3 DEF Closed
  <2>. QED
    BY <2>1, <2>2, <2>4
<1>2. ASSUME NEW v \in BOOLEAN, NEW r \in 10..90, NEW a, NEW b, NEW p, NEW q,
             <<a, p>> \in C, <<b, q>> \in C
      PROVE  <<SplitNode(v, r, a, b), p \o q>> \in C
  <2> DEFINE n == SplitNode(v, r, a, b)
             A == Rebuilt(a)
             B == Rebuilt(b)
  <2>1. <<n, p \o q>> \in Listed(HeldPanes)
    BY <1>0, <1>2 DEF Closed
  <2>2. ASSUME n \in Trees PROVE <<Rebuilt(n), p \o q>> \in Listed(ShownPanes)
    <3>1. /\ n.split /\ n.first = a /\ n.second = b /\ n.vertical = v /\ n.ratio = r
          /\ a \in Trees /\ b \in Trees
      BY <2>2, SplitIs
    <3>2. Rebuilt(n) = SplitNode(v, r, A, B)
      BY <1>s, <2>2, <3>1 DEF SplitOf
    <3>3. <<A, p>> \in Listed(ShownPanes) /\ <<B, q>> \in Listed(ShownPanes)
      BY <1>2, <3>1
    <3>. HIDE DEF n, A, B
    <3>. QED
      BY <1>0, <3>2, <3>3 DEF Closed
  <2>. HIDE DEF n
  <2>. QED
    BY <2>1, <2>2 DEF n
<1>. HIDE DEF C
<1>3. Listed(HeldPanes) \subseteq C
  BY <1>0, <1>1, <1>2, ListedInduction
<1>. QED
  BY <1>3 DEF C

\* Rebuilding the strips leaves the tools where they are.
LEMMA TreeRebuilt ==
  ASSUME NEW n, NEW s, Laid(HeldPanes, n, s), IsInjective(s)
  PROVE  Laid(ShownPanes, Rebuilt(n), s) /\ ToolsOf(Rebuilt(n)) = s
<1>0. Laid(ShownPanes, Rebuilt(n), s)
  <2>1. CASE <<n, s>> \in Listed(HeldPanes)
    BY <2>1, ListedIsSmall, RebuiltListed DEF Laid
  <2>2. CASE n = NoTree /\ s = <<>>
    BY <2>2, NoTreeIs, HeldPanesAre, RebuiltIs DEF Laid
  <2>. QED
    BY <2>1, <2>2 DEF Laid
<1>1. Laid(HeldPanes, Rebuilt(n), s)
  BY <1>0, MoreListed DEF Laid
<1>. QED
  BY <1>0, <1>1, LaidIsATree

(* A tool put in a tree.                                                    *)

\* The pane in which a tool is found.
LEMMA PaneWithIs ==
  ASSUME NEW panes \in SUBSET HeldPanes, NEW n, NEW s,
         <<n, s>> \in Listed(panes), n \in Trees, NEW t,
         t \in Members(s) \/ \E p \in PaneSet(n) : HasTool(p, t)
  PROVE  /\ PaneWith(n, t) \in PaneSet(n) /\ PaneWith(n, t) \in panes
         /\ t \in Members(PaneWith(n, t).tools) /\ t \in Members(s)
<1>1. /\ PaneSet(n) \subseteq panes /\ \A p \in PaneSet(n) : Members(p.tools) \subseteq Members(s)
      /\ \A u \in Members(s) : \E p \in PaneSet(n) : u \in Members(p.tools)
      /\ \A p \in panes : HasTool(p, t) <=> t \in Members(p.tools)
  BY PaneSetIs, HeldPanesAre
<1>2. \E p \in PaneSet(n) : HasTool(p, t)
  BY <1>1
<1>3. PaneWith(n, t) \in PaneSet(n) /\ HasTool(PaneWith(n, t), t)
  BY <1>2 DEF PaneWith
<1>. QED
  BY <1>1, <1>3

\* A tab that is torn off leaves the tools where they are.
LEMMA DetachedIs ==
  ASSUME NEW n, NEW s, Laid(HeldPanes, n, s), IsInjective(s), NEW t
  PROVE  Laid(HeldPanes, Detached(n, t), s)
<1>1. CASE ~\E p \in PaneSet(n) : p.active = t
  BY <1>1 DEF Detached
<1>2. CASE \E p \in PaneSet(n) : p.active = t
  <2>1. n # NoTree
    BY <1>2, NoTreeIs
  <2>2. <<n, s>> \in Listed(HeldPanes) /\ n \in Trees /\ HeldPanes \in SUBSET HeldPanes
    BY <2>1, LaidIsATree DEF Laid
  <2> DEFINE pane == PaneWith(n, t)
  <2>3. \E p \in PaneSet(n) : HasTool(p, t)
    BY <1>2, <2>2, PaneSetIs, HeldPanesAre
  <2>4. pane \in HeldPanes
    BY <2>2, <2>3, PaneWithIs
  <2>5. Detached(n, t) = Substitute(n, pane, Stripped(pane))
    BY <1>2 DEF Detached, Stripped
  <2>. HIDE DEF pane
  <2>6. Stripped(pane) \in HeldPanes /\ Stripped(pane).tools = pane.tools
    BY <2>4, PaneStripped
  <2>7. <<Stripped(pane), pane.tools>> \in Listed(HeldPanes) /\ <<pane, pane.tools>> \in Listed(HeldPanes)
    BY <2>4, <2>6, ListedClosed DEF Closed
  <2>8. pane \in Trees => ToolsOf(pane) = pane.tools
    BY <2>7, ListedIsSmall
  <2>9. <<Substitute(n, pane, Stripped(pane)), s>> \in Listed(HeldPanes)
    BY <2>2, <2>7, <2>8, SameToolsSubstituted
  <2>. QED
    BY <2>5, <2>9 DEF Laid
<1>. QED
  BY <1>1, <1>2

-----------------------------------------------------------------------------
(* A tool put into a tree: beside a pane, into its tab group, or at the end.*)

\* The tool stands in a list, wherever that is, and all else as it was.
Inserted(w, t, s) == \E p, q \in Seq(Tools) : w = Cat(p, q) /\ s = Between(p, <<t>>, q)

\* Before or behind the tools of a pane.
LEMMA BesideAPane ==
  ASSUME NEW t \in Tools, NEW a \in Seq(Tools), NEW m \in Seq(Tools), NEW b \in Seq(Tools)
  PROVE  /\ Inserted(Between(a, m, b), t, Between(a, Cat(m, <<t>>), b))
         /\ Inserted(Between(a, m, b), t, Between(a, Cat(<<t>>, m), b))
<1> DEFINE x == <<t>>
<1>0. x \in Seq(Tools)
  BY ShortLists
<1>. HIDE DEF x
<1>1. Inserted(Between(a, m, b), t, Between(a, Cat(m, x), b))
  <2>1. Cat(a, m) \in Seq(Tools)
    BY Regrouped
  <2>2. Between(a, m, b) = Cat(Cat(a, m), b)
    BY DEF Between
  <2>3. Cat(Cat(a, m), x) = Cat(a, Cat(m, x))
    BY <1>0, Regrouped
  <2>4. Between(a, Cat(m, x), b) = Between(Cat(a, m), x, b)
    BY <2>3 DEF Between
  <2>. QED
    BY <2>1, <2>2, <2>4 DEF Inserted, x
<1>2. Inserted(Between(a, m, b), t, Between(a, Cat(x, m), b))
  <2>1. Cat(m, b) \in Seq(Tools) /\ Cat(a, x) \in Seq(Tools)
    BY <1>0, Regrouped
  <2>2. Between(a, m, b) = Cat(a, Cat(m, b))
    BY Regrouped DEF Between
  <2>3. Cat(Cat(a, x), m) = Cat(a, Cat(x, m))
    BY <1>0, Regrouped
  <2>4. Cat(Cat(Cat(a, x), m), b) = Cat(Cat(a, x), Cat(m, b))
    BY <2>1, Regrouped
  <2>5. Between(a, Cat(x, m), b) = Between(a, x, Cat(m, b))
    BY <2>3, <2>4 DEF Between
  <2>. QED
    BY <2>1, <2>2, <2>5 DEF Inserted, x
<1>. QED
  BY <1>1, <1>2 DEF x

\* A pane split in two, with the tool in one half.
LEMMA HalvedIs ==
  ASSUME NEW pane \in HeldPanes, NEW t \in Tools, NEW zone
  PROVE  \/ <<Halved(pane, t, zone), Cat(pane.tools, <<t>>)>> \in Listed(HeldPanes)
         \/ <<Halved(pane, t, zone), Cat(<<t>>, pane.tools)>> \in Listed(HeldPanes)
<1> DEFINE v == zone \in {"top", "bottom"}
           old == Stripped(pane)
           L == Listed(HeldPanes)
<1>1. /\ <<old, pane.tools>> \in L /\ <<Leaf(t), <<t>>>> \in L
      /\ Closed(L, HeldPanes)
  <2>1. old \in HeldPanes /\ old.tools = pane.tools
    BY PaneStripped
  <2>. HIDE DEF old
  <2>2. Closed(L, HeldPanes)
    BY ListedClosed
  <2>3. <<old, old.tools>> \in L
    BY <2>1, <2>2 DEF Closed
  <2>. QED
    BY <2>1, <2>2, <2>3, LeafIs
<1>2. Halved(pane, t, zone) = SplitNode(v, 50, old, Leaf(t)) \/ Halved(pane, t, zone) = SplitNode(v, 50, Leaf(t), old)
  BY DEF Halved, Stripped
<1>3. v \in BOOLEAN /\ 50 \in 10..90
  OBVIOUS
<1>. HIDE DEF v, old, L
<1>4. <<SplitNode(v, 50, old, Leaf(t)), pane.tools \o <<t>>>> \in L
  BY <1>1, <1>3 DEF Closed
<1>5. <<SplitNode(v, 50, Leaf(t), old), <<t>> \o pane.tools>> \in L
  BY <1>1, <1>3 DEF Closed
<1>. QED
  BY <1>2, <1>4, <1>5 DEF Cat, L

\* A tool that joins a pane as its last tab.
LEMMA JoinedPaneIs ==
  ASSUME NEW pane \in HeldPanes, NEW t \in Tools
  PROVE  <<Retooled(pane, Append(pane.tools, t), t), Cat(pane.tools, <<t>>)>> \in Listed(HeldPanes)
<1> DEFINE m == Append(pane.tools, t)
<1>1. pane.tools \in Seq(Tools) /\ <<t>> \in Seq(Tools)
  BY HeldPanesAre, ShortLists
<1>2. m = pane.tools \o <<t>>
  BY <1>1
<1>3. m \in Seq(Tools) /\ t \in Members(m)
  <2>1. t \in Members(<<t>>)
    BY ShortLists
  <2>2. Members(pane.tools \o <<t>>) = Members(pane.tools) \cup Members(<<t>>)
        /\ pane.tools \o <<t>> \in Seq(Tools)
    BY <1>1, Concatenated
  <2>. QED
    BY <1>2, <2>1, <2>2
<1>. HIDE DEF m
<1>4. Retooled(pane, m, t) \in HeldPanes /\ Retooled(pane, m, t).tools = m
  BY <1>3, PaneRetooled
<1>5. <<Retooled(pane, m, t), m>> \in Listed(HeldPanes)
  BY <1>4, ListedClosed DEF Closed
<1>. QED
  BY <1>2, <1>5 DEF Cat, m

\* A tool placed at a pane of the tree.
LEMMA PlacedIs ==
  ASSUME NEW n, NEW w, <<n, w>> \in Listed(HeldPanes), IsInjective(w),
         NEW t \in Tools, NEW target, NEW zone
  PROVE  \E s : <<Placed(n, t, target, zone), s>> \in Listed(HeldPanes) /\ Inserted(w, t, s)
<1> DEFINE aimed == \E p \in PaneSet(n) : HasTool(p, target)
           pane == IF aimed THEN PaneWith(n, target) ELSE Head(PanesOf(n))
           halved == aimed /\ zone # "centre"
           new == IF halved THEN Halved(pane, t, zone) ELSE Retooled(pane, Append(pane.tools, t), t)
<1>1. n \in Trees /\ HeldPanes \in SUBSET HeldPanes
  BY ListedIsSmall
<1>2. pane \in PaneSet(n) /\ pane \in HeldPanes
  <2>1. CASE aimed
    <3>1. PaneWith(n, target) \in PaneSet(n) /\ PaneWith(n, target) \in HeldPanes
      BY <1>1, <2>1, PaneWithIs
    <3>. QED
      BY <2>1, <3>1
  <2>2. CASE ~aimed
    <3>1. Head(PanesOf(n)) \in PaneSet(n) /\ PaneSet(n) \subseteq HeldPanes
      BY <1>1, PaneSetIs
    <3>. QED
      BY <2>2, <3>1
  <2>. QED
    BY <2>1, <2>2
<1>3. Placed(n, t, target, zone) = Substitute(n, pane, new)
  BY DEF Placed, Retooled
<1>h. halved \in BOOLEAN
  OBVIOUS
<1>. HIDE DEF pane, halved
<1>4. \/ <<new, Cat(pane.tools, <<t>>)>> \in Listed(HeldPanes)
      \/ <<new, Cat(<<t>>, pane.tools)>> \in Listed(HeldPanes)
  BY <1>2, <1>h, HalvedIs, JoinedPaneIs
<1>. HIDE DEF new
<1>5. ASSUME NEW m, <<new, m>> \in Listed(HeldPanes)
      PROVE  InPlaceOf(HeldPanes, pane, new, m, n, w)
  BY <1>1, <1>2, <1>5, PaneSubstituted
<1>6. pane.tools \in Seq(Tools)
  BY <1>2, HeldPanesAre
<1>7. CASE <<new, Cat(pane.tools, <<t>>)>> \in Listed(HeldPanes)
  <2>1. InPlaceOf(HeldPanes, pane, new, Cat(pane.tools, <<t>>), n, w)
    BY <1>5, <1>7
  <2>2. PICK a \in Seq(Tools), b \in Seq(Tools) :
          /\ w = Between(a, pane.tools, b)
          /\ <<Substitute(n, pane, new), Between(a, Cat(pane.tools, <<t>>), b)>> \in Listed(HeldPanes)
    BY <2>1 DEF InPlaceOf
  <2>3. Inserted(w, t, Between(a, Cat(pane.tools, <<t>>), b))
    BY <1>6, <2>2, BesideAPane
  <2>. QED
    BY <1>3, <2>2, <2>3
<1>8. CASE <<new, Cat(<<t>>, pane.tools)>> \in Listed(HeldPanes)
  <2>1. InPlaceOf(HeldPanes, pane, new, Cat(<<t>>, pane.tools), n, w)
    BY <1>5, <1>8
  <2>2. PICK a \in Seq(Tools), b \in Seq(Tools) :
          /\ w = Between(a, pane.tools, b)
          /\ <<Substitute(n, pane, new), Between(a, Cat(<<t>>, pane.tools), b)>> \in Listed(HeldPanes)
    BY <2>1 DEF InPlaceOf
  <2>3. Inserted(w, t, Between(a, Cat(<<t>>, pane.tools), b))
    BY <1>6, <2>2, BesideAPane
  <2>. QED
    BY <1>3, <2>2, <2>3
<1>. QED
  BY <1>4, <1>7, <1>8

\* A tool taken out and put in: it is in the tree once, and the others keep their order
\* (WorkspaceLayout insertTool).
LEMMA ToolInserted ==
  ASSUME NEW n, NEW s, Laid(HeldPanes, n, s), IsInjective(s),
         NEW t \in Tools, NEW target, NEW zone, target = t => t \in Members(s)
  PROVE  \E w : /\ Laid(HeldPanes, InsertTool(n, t, target, zone), w) /\ IsInjective(w)
                /\ Members(w) = Members(s) \cup {t} /\ Without(w, t) = Without(s, t)
<1> DEFINE rest == TreeWithout(n, t)
           r == Without(s, t)
<1>1. Laid(HeldPanes, rest, r) /\ IsInjective(r) /\ Members(r) = Members(s) \ {t}
  BY ToolRemoved
<1>2. r \in Seq(Tools) /\ (rest = NoTree <=> r = <<>>) /\ (rest # NoTree => <<rest, r>> \in Listed(HeldPanes))
  <2>. HIDE DEF rest, r
  <2>. QED
    BY <1>1, LaidIsATree
<1>3. CASE target = t
  <2>1. InsertTool(n, t, target, zone) = n
    BY <1>3 DEF InsertTool
  <2>. QED
    BY <1>3, <2>1
<1>4. CASE target # t /\ rest = NoTree
  <2>1. InsertTool(n, t, target, zone) = Leaf(t)
    BY <1>4 DEF InsertTool
  <2>2. Laid(HeldPanes, Leaf(t), <<t>>)
    BY LeafIs DEF Laid
  <2>3. Members(s) \ {t} = {}
    BY <1>1, <1>2, <1>4, ShortLists
  <2>4. IsInjective(<<t>>) /\ Members(<<t>>) = {t} /\ <<t>> \in Seq(Tools)
    BY ShortLists
  <2>5. Without(<<t>>, t) = <<>>
    <3>1. Without(<<t>>, t) \in Seq(Tools) /\ Members(Without(<<t>>, t)) = {}
      BY <2>4, Leaving
    <3> DEFINE y == Without(<<t>>, t)
    <3>. HIDE DEF y
    <3>2. y \in Seq(Tools) /\ Members(y) = {}
      BY <3>1 DEF y
    <3>3. Len(y) \in Nat /\ (Len(y) > 0 => y[1] \in Members(y)) /\ (Len(y) = 0 => y = <<>>)
      BY <3>2, EmptySeq, LenProperties DEF Members
    <3>. QED
      BY <3>2, <3>3 DEF y
  <2>6. Members(<<t>>) = Members(s) \cup {t} /\ Without(<<t>>, t) = r
    BY <1>2, <1>4, <2>3, <2>4, <2>5
  <2>. QED
    BY <2>1, <2>2, <2>4, <2>6
<1>5. CASE target # t /\ rest # NoTree
  <2>1. InsertTool(n, t, target, zone) = Placed(rest, t, target, zone)
    BY <1>5 DEF InsertTool
  <2>. HIDE DEF rest
  <2>2. PICK w : <<Placed(rest, t, target, zone), w>> \in Listed(HeldPanes) /\ Inserted(r, t, w)
    BY <1>1, <1>2, <1>5, PlacedIs
  <2>3. PICK p \in Seq(Tools), q \in Seq(Tools) : r = Cat(p, q) /\ w = Between(p, <<t>>, q)
    BY <2>2 DEF Inserted
  <2>4. r = p \o q /\ w = (p \o <<t>>) \o q
    BY <2>3 DEF Between, Cat
  <2>. HIDE DEF r
  <2>5. IsInjective(w) /\ Members(w) = Members(r) \cup {t} /\ Without(w, t) = r
    <3>1. t \notin Members(p \o q) /\ IsInjective(p \o q)
      BY <1>1, <2>4
    <3>2. /\ IsInjective((p \o <<t>>) \o q)
          /\ Members((p \o <<t>>) \o q) = Members(p \o q) \cup {t}
          /\ Without((p \o <<t>>) \o q, t) = p \o q
      BY <2>3, <3>1, Entering
    <3>. QED
      BY <2>4, <3>2
  <2>6. Laid(HeldPanes, InsertTool(n, t, target, zone), w)
    BY <2>1, <2>2 DEF Laid
  <2>7. Members(w) = Members(s) \cup {t}
    BY <1>1, <2>5
  <2>. QED
    BY <2>5, <2>6, <2>7 DEF r
<1>. QED
  BY <1>3, <1>4, <1>5

(* Selecting, arranging, dragging a divider.                                *)

\* The focus goes to a tool of the tree.
LEMMA FocusFound ==
  ASSUME NEW n, NEW s, Laid(HeldPanes, n, s), IsInjective(s),
         NEW focus \in Tools
  PROVE  FocusAfter(n, focus) \in Tools
<1> DEFINE P == PanesOf(n)
           I == {i \in 1..Len(P) : P[i].bar # <<>>}
           r == SelectLastInSeq(P, LAMBDA p : p.bar # <<>>)
<1>1. P \in Seq(HeldPanes)
  <2>1. CASE n = NoTree
    <3>1. P = <<>>
      BY <2>1, NoTreeIs
    <3>. QED
      BY <3>1
  <2>2. CASE n # NoTree
    BY <2>2, LaidIsATree, PaneSetIs
  <2>. QED
    BY <2>1, <2>2
<1>2. r = IF I # {} THEN Max(I) ELSE 0
  BY DEF SelectLastInSeq
<1>. HIDE DEF P
<1>3. I \in SUBSET Nat /\ \A i \in I : i <= Len(P)
  BY <1>1, LenProperties
<1>4. I # {} => Max(I) \in I
  <2>1. I # {} => \E i \in I : \A j \in I : i >= j
    <3>1. IsFiniteSet(1..Len(P)) /\ I \subseteq 1..Len(P)
      BY <1>1, LenProperties, FS_Interval
    <3>2. IsFiniteSet(I) /\ I \in SUBSET Int
      BY <1>3, <3>1, FS_Subset
    <3>. HIDE DEF I
    <3>. QED
      BY <3>2, Bounded
  <2>. QED
    BY <2>1 DEF Max
<1>. HIDE DEF r
<1>5. CASE r = 0
  BY <1>5 DEF FocusAfter, P, r
<1>6. CASE r # 0
  <2>1. r \in 1..Len(P) /\ P[r].bar # <<>>
    BY <1>2, <1>4, <1>6
  <2>2. P[r] \in HeldPanes
    BY <1>1, <2>1, ElementOfSeq
  <2>3. P[r].bar \in Seq(Tools)
    BY <2>2, HeldPanesAre
  <2>4. Head(P[r].bar) \in Tools
    BY <2>1, <2>3, HeadTailProperties
  <2>5. FocusAfter(n, focus) = Head(P[r].bar)
    BY <1>6 DEF FocusAfter, P, r
  <2>. QED
    BY <2>4, <2>5
<1>. QED
  BY <1>5, <1>6

-----------------------------------------------------------------------------
(* Focus, arrangements, tabs and dividers.                                 *)

\* The splits of a tree are trees of two.
LEMMA SplitsListed ==
  ASSUME NEW panes \in SUBSET HeldPanes
  PROVE  \A x \in Listed(panes) : x[1] \in Trees =>
           \A n \in SplitsOf(x[1]) : \E m : <<n, m>> \in Listed(panes) /\ Splitting(panes, n, m)
<1> DEFINE C == {x \in Listed(panes) : x[1] \in Trees =>
                   \A n \in SplitsOf(x[1]) : \E m : <<n, m>> \in Listed(panes) /\ Splitting(panes, n, m)}
<1>0. /\ Closed(Listed(panes), panes) /\ MaxNesting \in Nat
  BY ListedClosed, HeldPanesAre
<1>s. \A n \in Trees :
        /\ n.split => SplitsOf(n) = {n} \cup SplitsOf(n.first) \cup SplitsOf(n.second)
        /\ ~n.split => SplitsOf(n) = {}
  BY <1>0, SplitsOfIs
<1>1. ASSUME NEW p \in panes PROVE <<p, p.tools>> \in C
  <2>1. <<p, p.tools>> \in Listed(panes) /\ ~p.split
    BY <1>0, HeldPanesAre DEF Closed
  <2>. QED
    BY <1>s, <2>1
<1>2. ASSUME NEW v \in BOOLEAN, NEW r \in 10..90, NEW a, NEW b, NEW p, NEW q,
             <<a, p>> \in C, <<b, q>> \in C
      PROVE  <<SplitNode(v, r, a, b), p \o q>> \in C
  <2> DEFINE y == SplitNode(v, r, a, b)
  <2>0. <<a, p>> \in Listed(panes) /\ <<b, q>> \in Listed(panes)
    BY <1>2
  <2>1. <<y, p \o q>> \in Listed(panes) /\ Splitting(panes, y, p \o q)
    BY <1>0, <2>0 DEF Closed, Splitting
  <2>2. ASSUME y \in Trees, NEW n \in SplitsOf(y)
        PROVE  \E m : <<n, m>> \in Listed(panes) /\ Splitting(panes, n, m)
    <3>1. y.split /\ y.first = a /\ y.second = b /\ a \in Trees /\ b \in Trees
      BY <2>2, SplitIs
    <3>. HIDE DEF y
    <3>2. n = y \/ n \in SplitsOf(a) \/ n \in SplitsOf(b)
      BY <1>s, <2>2, <3>1
    <3>3. n \in SplitsOf(a) => \E m : <<n, m>> \in Listed(panes) /\ Splitting(panes, n, m)
      BY <1>2, <3>1
    <3>4. n \in SplitsOf(b) => \E m : <<n, m>> \in Listed(panes) /\ Splitting(panes, n, m)
      BY <1>2, <3>1
    <3>. QED
      BY <2>1, <3>2, <3>3, <3>4
  <2>. HIDE DEF y
  <2>. QED
    BY <2>1, <2>2 DEF y
<1>. HIDE DEF C
<1>3. Listed(panes) \subseteq C
  BY <1>1, <1>2, ListedInduction
<1>. QED
  BY <1>3 DEF C

\* An arrangement keeps the tools, in their order.
LEMMA ArrangedIs ==
  ASSUME NEW n, NEW s, Laid(HeldPanes, n, s), IsInjective(s), NEW layout
  PROVE  Laid(HeldPanes, Arranged(n, layout), s)
<1>0. ToolsOf(n) = s /\ s \in Seq(Tools) /\ n \in Trees /\ Closed(Listed(HeldPanes), HeldPanes)
  BY LaidIsATree, ListedClosed
<1>1. CASE layout = "tabbed" /\ Len(ToolsOf(n)) > 1
  <2> DEFINE p == Pane(s, Head(s))
  <2>1. Arranged(n, layout) = p
    BY <1>0, <1>1 DEF Arranged
  <2>2. Len(s) \in Nat /\ Len(s) > 1 /\ s # <<>>
    BY <1>0, <1>1, EmptySeq, LenProperties
  <2>3. Head(s) \in Tools /\ Head(s) = s[1] /\ Head(s) \in Members(s)
    BY <1>0, <2>2, HeadTailProperties DEF Members
  <2>4. p \in HeldPanes /\ p.tools = s
    <3>1. <<>> \in Seq(Tools)
      OBVIOUS
    <3>. QED
      BY <1>0, <2>3, <3>1 DEF Pane, HeldPanes
  <2>. HIDE DEF p
  <2>5. <<p, s>> \in Listed(HeldPanes)
    BY <1>0, <2>4 DEF Closed
  <2>. QED
    BY <2>1, <2>5 DEF Laid
<1>2. CASE layout # "tabbed" /\ n.split
  <2>1. n # NoTree
    BY <1>2, NoTreeIs
  <2>2. <<n, s>> \in Listed(HeldPanes)
    BY <2>1 DEF Laid
  <2>3. Splitting(HeldPanes, n, s)
    BY <1>2, <2>2, ListedIs, HeldPanesAre
  <2>4. PICK v, r, a, b, p, q :
          /\ v \in BOOLEAN /\ r \in 10..90
          /\ n = SplitNode(v, r, a, b) /\ s = p \o q
          /\ <<a, p>> \in Listed(HeldPanes) /\ <<b, q>> \in Listed(HeldPanes)
    BY <2>3 DEF Splitting
  <2> DEFINE u == layout = "vertical"
  <2>5. Arranged(n, layout) = SplitNode(u, r, a, b)
    <3>1. Arranged(n, layout) = [n EXCEPT !.vertical = u]
      BY <1>2 DEF Arranged
    <3>. QED
      BY <2>4, <3>1 DEF SplitNode
  <2>6. u \in BOOLEAN
    OBVIOUS
  <2>. HIDE DEF u
  <2>7. <<SplitNode(u, r, a, b), p \o q>> \in Listed(HeldPanes)
    BY <1>0, <2>4, <2>6 DEF Closed
  <2>. QED
    BY <2>4, <2>5, <2>7 DEF Laid
<1>3. CASE ~(layout = "tabbed" /\ Len(ToolsOf(n)) > 1) /\ ~(layout # "tabbed" /\ n.split)
  <2>1. Arranged(n, layout) = n
    BY <1>3 DEF Arranged
  <2>. QED
    BY <2>1
<1>. QED
  BY <1>1, <1>2, <1>3

\* Choosing a tab leaves the tools where they are.
LEMMA TabSelected ==
  ASSUME NEW n, NEW s, Laid(ShownPanes, n, s), IsInjective(s),
         NEW t \in Tools, t \in Members(s)
  PROVE  Laid(ShownPanes, Substitute(n, PaneWith(n, t), SelectedIn(PaneWith(n, t), t)), s)
<1>1. <<n, s>> \in Listed(ShownPanes) /\ ShownPanes \in SUBSET HeldPanes
  BY ShortLists, HeldPanesAre DEF Laid
<1>2. n \in Trees
  BY <1>1, MoreListed, ListedIsSmall
<1> DEFINE pane == PaneWith(n, t)
<1>3. pane \in ShownPanes /\ pane \in HeldPanes /\ t \in Members(pane.tools)
  BY <1>1, <1>2, PaneWithIs
<1>. HIDE DEF pane
<1> DEFINE b == Before(pane.tools, t)
           new == Activated(pane, t, b)
<1>4. pane.tools \in Seq(Tools)
  BY <1>3, HeldPanesAre
<1>5. b \in Seq(Tools)
  BY <1>4, BeforeIsAList
<1>6. SelectedIn(pane, t) = new
  BY DEF SelectedIn, Activated
<1>7. new \in HeldPanes /\ new.tools = pane.tools /\ new.active = t /\ new.bar = b
  <2>. HIDE DEF b
  <2>. QED
    BY <1>3, <1>5, PaneActivated
<1>. HIDE DEF new
<1>8. new \in ShownPanes
  BY <1>7 DEF ShownPanes
<1>9. <<new, pane.tools>> \in Listed(ShownPanes) /\ <<pane, pane.tools>> \in Listed(ShownPanes)
  BY <1>1, <1>3, <1>7, <1>8, ListedClosed DEF Closed
<1>10. pane \in Trees => ToolsOf(pane) = pane.tools
  BY <1>9, MoreListed, ListedIsSmall
<1>11. <<Substitute(n, pane, new), s>> \in Listed(ShownPanes)
  BY <1>1, <1>2, <1>9, <1>10, SameToolsSubstituted
<1>. QED
  BY <1>6, <1>11 DEF Laid, pane

WithRatio(n, c) == [n EXCEPT !.ratio = c]

\* Another ratio leaves the tools where they are.
LEMMA OtherRatio ==
  ASSUME NEW v \in BOOLEAN, NEW r \in Int, NEW c \in Int, NEW a, NEW b,
         NEW x, x = SplitNode(v, r, a, b)
  PROVE  WithRatio(x, c) = SplitNode(v, c, a, b)
<1> DEFINE R == [split : {TRUE}, vertical : {v}, ratio : Int, first : {a}, second : {b}]
           y == [x EXCEPT !.ratio = c]
<1>1. x \in R
  BY DEF SplitNode
<1>2. y \in R /\ y.ratio = c
  BY <1>1
<1>3. y = [split |-> TRUE, vertical |-> v, ratio |-> c, first |-> a, second |-> b]
  <2>. HIDE DEF y
  <2>. QED
    BY <1>2
<1>. QED
  BY <1>3 DEF SplitNode, WithRatio

\* So does dragging a divider.
LEMMA DividerDragged ==
  ASSUME NEW n, NEW s, Laid(ShownPanes, n, s), IsInjective(s),
         NEW x \in SplitsOf(n), NEW stop \in Int
  PROVE  Laid(ShownPanes, Substitute(n, x, [x EXCEPT !.ratio = Clamped(stop)]), s)
<1>1. n # NoTree
  BY NoTreeIs
<1>2. <<n, s>> \in Listed(ShownPanes) /\ ShownPanes \in SUBSET HeldPanes
  BY <1>1, HeldPanesAre DEF Laid
<1>3. n \in Trees
  BY <1>2, MoreListed, ListedIsSmall
<1>4. PICK m : <<x, m>> \in Listed(ShownPanes) /\ Splitting(ShownPanes, x, m)
  BY <1>2, <1>3, SplitsListed
<1>5. PICK v, r, a, b, p, q :
          /\ v \in BOOLEAN /\ r \in 10..90
          /\ x = SplitNode(v, r, a, b) /\ m = p \o q
          /\ <<a, p>> \in Listed(ShownPanes) /\ <<b, q>> \in Listed(ShownPanes)
  BY <1>4 DEF Splitting
<1> DEFINE c == Clamped(stop)
           new == SplitNode(v, c, a, b)
<1>6. c \in 10..90
  BY DEF Clamped
<1>. HIDE DEF c
<1>7. [x EXCEPT !.ratio = c] = new
  <2>1. v \in BOOLEAN /\ r \in Int /\ c \in Int /\ x = SplitNode(v, r, a, b)
    BY <1>5, <1>6
  <2>2. WithRatio(x, c) = SplitNode(v, c, a, b)
    BY <2>1, OtherRatio
  <2>. QED
    BY <2>2 DEF WithRatio
<1>8. <<new, m>> \in Listed(ShownPanes)
  BY <1>2, <1>5, <1>6, ListedClosed DEF Closed
<1>. HIDE DEF new
<1>9. x \in Trees => ToolsOf(x) = m
  BY <1>4, MoreListed, ListedIsSmall
<1>10. <<Substitute(n, x, new), s>> \in Listed(ShownPanes)
  BY <1>2, <1>3, <1>8, <1>9, SameToolsSubstituted
<1>. QED
  BY <1>7, <1>10 DEF Laid, c

-----------------------------------------------------------------------------
(* A tree laid out of its tools is well formed, and so is one on screen.   *)

LEMMA LaidIsWellFormed ==
  ASSUME NEW n, NEW s, Laid(ShownPanes, n, s), IsInjective(s)
  PROVE  TreeIsWellFormed(n)
<1>1. Laid(HeldPanes, n, s) /\ ShownPanes \in SUBSET HeldPanes
  BY MoreListed, HeldPanesAre DEF Laid
<1>2. n \in Trees /\ ToolsOf(n) = s
  BY <1>1, LaidIsATree
<1>3. CASE n = NoTree
  BY <1>2, <1>3, NoTreeIs DEF TreeIsWellFormed
<1>4. CASE <<n, s>> \in Listed(ShownPanes)
  <2>1. ASSUME NEW p \in PaneSet(n) PROVE HasTool(p, p.active) /\ p.bar = Before(p.tools, p.active)
    <3>1. p \in ShownPanes /\ p \in HeldPanes
      BY <1>1, <1>2, <1>4, PaneSetIs
    <3>2. p.bar = Before(p.tools, p.active)
      BY <3>1 DEF ShownPanes
    <3>. QED
      BY <3>1, <3>2, HeldPanesAre
  <2>2. ASSUME NEW x \in SplitsOf(n)
        PROVE  x.ratio \in 10..90 /\ x.first # NoTree /\ x.second # NoTree
    <3>1. PICK m : <<x, m>> \in Listed(ShownPanes) /\ Splitting(ShownPanes, x, m)
      BY <1>1, <1>2, <1>4, SplitsListed
    <3>2. PICK v, r, a, b, p, q :
            /\ v \in BOOLEAN /\ r \in 10..90
            /\ x = SplitNode(v, r, a, b) /\ m = p \o q
            /\ <<a, p>> \in Listed(ShownPanes) /\ <<b, q>> \in Listed(ShownPanes)
      BY <3>1 DEF Splitting
    <3>3. x.ratio = r /\ x.first = a /\ x.second = b
      BY <3>2 DEF SplitNode
    <3>4. a # NoTree /\ b # NoTree
      BY <3>2, MoreListed, ListedIsSmall
    <3>. QED
      BY <3>2, <3>3, <3>4
  <2>. QED
    BY <1>2, <2>1, <2>2 DEF TreeIsWellFormed
<1>. QED
  BY <1>3, <1>4 DEF Laid

-----------------------------------------------------------------------------
(* Saved ids taken one by one.                                              *)

\* The greatest of the numbers left to take.
LEMMA GreatestNumber ==
  ASSUME NEW n \in Nat
  PROVE  /\ \A s \in SUBSET (1..n) : s # {} => Max(s) \in s
         /\ \A s \in SUBSET (1..(n + 1)) : n + 1 \in s => Max(s) = n + 1
<1>1. ASSUME NEW m \in Nat, NEW s \in SUBSET (1..m), s # {}
      PROVE  Max(s) \in s /\ \A k \in s : Max(s) >= k
  <2>1. IsFiniteSet(1..m)
    BY FS_Interval
  <2>2. IsFiniteSet(s) /\ s \in SUBSET Int
    <3>1. s \in SUBSET (1..m) /\ s \in SUBSET Int
      BY <1>1
    <3>. QED
      BY <2>1, <3>1, FS_Subset
  <2>3. \E x \in s : \A y \in s : x >= y
    BY <1>1, <2>2, Bounded
  <2>. QED
    BY <2>3 DEF Max
<1>2. ASSUME NEW s \in SUBSET (1..(n + 1)), n + 1 \in s PROVE Max(s) = n + 1
  <2>1. n + 1 \in Nat /\ s # {}
    BY <1>2
  <2>2. Max(s) \in s /\ \A y \in s : Max(s) >= y
    BY <2>1, <1>1
  <2>3. Max(s) \in 1..(n + 1) /\ Max(s) >= n + 1
    BY <1>2, <2>2
  <2>. QED
    BY <2>3
<1>. QED
  BY <1>1, <1>2

\* One id: the tool it names goes behind those taken before.
Took(order, id) ==
  IF Resolve(id) = NoTool \/ Contains(order, Resolve(id)) THEN order
  ELSE Append(order, Resolve(id))

Taking(g, base, ids, n) ==
  g = [s \in SUBSET (1..n) |->
         IF s = {} THEN base ELSE Took(g[s \ {Max(s)}], ids[Max(s)])]

\* The fold over the ids, as a recursion over the numbers of those left to take.
LEMMA TakingExists ==
  ASSUME NEW base, NEW ids
  PROVE  \A n \in Nat : \E g : Taking(g, base, ids, n)
<1> DEFINE S == {n \in Nat : \E g : Taking(g, base, ids, n)}
           Value(g, s) == IF s = {} THEN base ELSE Took(g[s \ {Max(s)}], ids[Max(s)])
<1>1. 0 \in S
  <2>1. Taking([s \in SUBSET (1..0) |-> base], base, ids, 0)
    BY DEF Taking
  <2>. QED
    BY <2>1
<1>2. ASSUME NEW n \in Nat, n \in S PROVE n + 1 \in S
  <2>1. PICK f : Taking(f, base, ids, n)
    BY <1>2
  <2> DEFINE g == [s \in SUBSET (1..(n + 1)) |->
                     IF n + 1 \in s THEN Took(f[s \ {n + 1}], ids[n + 1]) ELSE f[s]]
  <2>2. \A s \in SUBSET (1..n) : f[s] = Value(f, s)
    BY <2>1 DEF Taking
  <2>3. \A s \in SUBSET (1..(n + 1)) :
          /\ n + 1 \notin s => s \in SUBSET (1..n)
          /\ s \ {n + 1} \in SUBSET (1..n)
    OBVIOUS
  <2>4. \A s \in SUBSET (1..n) : s \in SUBSET (1..(n + 1)) /\ n + 1 \notin s /\ g[s] = f[s]
    OBVIOUS
  <2>. HIDE DEF Value
  <2>5. ASSUME NEW s \in SUBSET (1..(n + 1)) PROVE g[s] = Value(g, s)
    <3>1. CASE n + 1 \in s
      <4>1. Max(s) = n + 1
        BY <3>1, GreatestNumber
      <4>2. g[s] = Took(f[s \ {n + 1}], ids[n + 1])
        BY <3>1
      <4>3. g[s \ {n + 1}] = f[s \ {n + 1}]
        BY <2>3, <2>4
      <4>. HIDE DEF g
      <4>. QED
        BY <3>1, <4>1, <4>2, <4>3 DEF Value
    <3>2. CASE n + 1 \notin s
      <4>1. s \in SUBSET (1..n) /\ g[s] = f[s] /\ f[s] = Value(f, s)
        BY <2>2, <2>3, <2>4, <3>2
      <4>2. s # {} => Max(s) \in s
        BY <4>1, GreatestNumber
      <4>3. s \ {Max(s)} \in SUBSET (1..n)
        BY <4>1
      <4>4. g[s \ {Max(s)}] = f[s \ {Max(s)}]
        BY <2>4, <4>3
      <4>. HIDE DEF g
      <4>. QED
        BY <4>1, <4>4 DEF Value
    <3>. QED
      BY <3>1, <3>2
  <2>6. g = [s \in SUBSET (1..(n + 1)) |-> Value(g, s)]
    BY <2>5
  <2>7. Taking(g, base, ids, n + 1)
    BY <2>6 DEF Taking, Value
  <2>. QED
    BY <2>7
<1>. HIDE DEF S
<1>3. Nat \subseteq S
  BY <1>1, <1>2, Induction
<1>. QED
  BY <1>3 DEF S

\* They are taken id by id.
TakenBy(f, ids, base, n) ==
  /\ f[0] = base
  /\ \A i \in 0..(n - 1) : f[i + 1] = Took(f[i], ids[i + 1])
  /\ Taken(ids, base) = f[n]

\* Taking the ids one by one.
LEMMA TakenOneByOne ==
  ASSUME NEW n \in Nat, NEW ids, DOMAIN ids = 1..n, NEW base
  PROVE  \E f : TakenBy(f, ids, base, n)
<1>1. PICK g : /\ Taking(g, base, ids, n)
               /\ Taken(ids, base) = g[1..n]
  <2>1. \E h : Taking(h, base, ids, n)
    BY TakingExists
  <2>. QED
    BY <2>1 DEF Taking, Taken, Took, FoldLeft, MapThenFoldSet
<1> DEFINE f == [i \in 0..n |-> g[1..i]]
<1>2. f[0] = base
  <2>1. {} \in SUBSET (1..n) /\ 1..0 = {}
    OBVIOUS
  <2>. QED
    BY <1>1, <2>1 DEF Taking
<1>3. ASSUME NEW i \in 0..(n - 1) PROVE f[i + 1] = Took(f[i], ids[i + 1])
  <2>1. /\ i \in Nat /\ 1..(i + 1) \in SUBSET (1..n) /\ 1..(i + 1) # {}
        /\ (1..(i + 1)) \ {i + 1} = 1..i
        /\ i \in 0..n /\ i + 1 \in 0..n
    OBVIOUS
  <2>2. Max(1..(i + 1)) = i + 1
    BY <2>1, GreatestNumber
  <2>3. g[1..(i + 1)] = Took(g[1..i], ids[i + 1])
    BY <1>1, <2>1, <2>2 DEF Taking
  <2>. QED
    BY <2>1, <2>3
<1>4. f[n] = g[1..n]
  OBVIOUS
<1>. HIDE DEF f
<1>5. TakenBy(f, ids, base, n)
  BY <1>1, <1>2, <1>3, <1>4 DEF TakenBy
<1>. QED
  BY <1>5

\* The tools taken before stay, and those that follow are others.
Further(order, next) ==
  /\ next \in Seq(Tools) /\ (IsInjective(order) => IsInjective(next))
  /\ \E s \in Seq(Tools) : next = Cat(order, s)

\* Taking one more id continues the list, still without repetitions.
LEMMA TookOne ==
  ASSUME NEW order \in Seq(Tools), NEW next, Further(order, next),
         NEW id
  PROVE  Further(order, Took(next, id))
<1> DEFINE t == Resolve(id)
<1>0. t \in Tools \/ t = NoTool
  BY WorkspaceAssumption DEF Resolve
<1>1. CASE t = NoTool \/ Contains(next, t)
  BY <1>1 DEF Took
<1>2. CASE ~(t = NoTool \/ Contains(next, t))
  <2>0. t \in Tools
    BY <1>0, <1>2
  <2>1. Took(next, id) = Append(next, t)
    BY <1>2 DEF Took
  <2>2. t \notin Members(next)
    BY <1>2 DEF Contains, Members
  <2>. HIDE DEF t
  <2>3. PICK s \in Seq(Tools) : next = Cat(order, s)
    BY DEF Further
  <2>4. /\ next \in Seq(Tools) /\ (IsInjective(order) => IsInjective(next))
        /\ <<t>> \in Seq(Tools)
    BY <2>0, ShortLists DEF Further
  <2>5. Append(next, t) = next \o <<t>>
    BY <2>4
  <2>6. next \o <<t>> \in Seq(Tools) /\ (IsInjective(order) => IsInjective(next \o <<t>>))
    <3>1. IsInjective(<<t>>) /\ Members(next) \cap Members(<<t>>) = {}
      BY <2>2, ShortLists
    <3>. QED
      BY <2>4, <3>1, Concatenated
  <2> DEFINE x == <<t>>
  <2>7. x \in Seq(Tools)
    BY <2>4
  <2>8. next \o <<t>> = Cat(next, x)
    BY DEF Cat
  <2>. HIDE DEF x
  <2>9. Cat(next, x) = Cat(order, Cat(s, x)) /\ Cat(s, x) \in Seq(Tools)
    BY <2>3, <2>7, Regrouped
  <2>. QED
    BY <2>1, <2>5, <2>6, <2>8, <2>9 DEF Further
<1>. QED
  BY <1>1, <1>2

\* What is taken is a list of tools, without repetitions, that continues the list so far.
LEMMA TakenAre ==
  ASSUME NEW order \in Seq(Tools), NEW S, NEW ids \in Seq(S)
  PROVE  Further(order, Taken(ids, order))
<1>0. Len(ids) \in Nat /\ DOMAIN ids = 1..Len(ids)
  BY LenProperties
<1> DEFINE n == Len(ids)
<1>p. PICK f : TakenBy(f, ids, order, n)
  BY <1>0, TakenOneByOne
<1>1. /\ f[0] = order
      /\ \A i \in 0..(n - 1) : f[i + 1] = Took(f[i], ids[i + 1])
      /\ Taken(ids, order) = f[n]
  BY <1>p DEF TakenBy
<1> DEFINE Q == {k \in Nat : k <= n => Further(order, f[k])}
<1>2. 0 \in Q
  <2>1. <<>> \in Seq(Tools) /\ order = order \o <<>>
    BY ConcatEmptySeq
  <2>2. Further(order, order)
    BY <2>1 DEF Further, Cat
  <2>. QED
    BY <1>1, <2>2
<1>3. ASSUME NEW k \in Nat, k \in Q PROVE k + 1 \in Q
  <2>1. ASSUME k + 1 <= n PROVE Further(order, f[k + 1])
    <3>1. k \in 0..(n - 1) /\ Further(order, f[k])
      BY <1>0, <1>3, <2>1
    <3>2. f[k + 1] = Took(f[k], ids[k + 1])
      BY <1>1, <3>1
    <3>. QED
      BY <3>1, <3>2, TookOne
  <2>. QED
    BY <2>1
<1>. HIDE DEF Q
<1>4. Nat \subseteq Q
  BY <1>2, <1>3, Induction
<1>. QED
  BY <1>0, <1>1, <1>4 DEF Q

-----------------------------------------------------------------------------
(* A saved tree normalized.                                                 *)

LEMMA RatioClamped ==
  ASSUME NEW r \in Int
  PROVE  Clamped(r) \in 10..90
BY DEF Clamped

\* The tree that is left has the tools taken for it, behind those taken before.
PutIn(order, x) ==
  /\ x.order \in Seq(Tools) /\ (IsInjective(order) => IsInjective(x.order))
  /\ \E s \in Seq(Tools) : x.order = Cat(order, s) /\ Laid(HeldPanes, x.node, s)

Visits == Nat \X Seq(Tools)
Normalizings ==
  {f \in [Visits -> [node : Forest, order : Seq(Tools)]] : \A at \in Visits : PutIn(at[2], f[at])}

PanesAt(p) == [at \in Nat \X Seq(Tools) |-> PaneAt(p, at[1], at[2])]
SplitsAt(n, one, other) ==
  [at \in Nat \X Seq(Tools) |-> SplitAt(n, one, other, at[1], at[2])]

LEMMA LaidInForest ==
  ASSUME NEW n, NEW s, Laid(HeldPanes, n, s)
  PROVE  n \in Forest /\ s \in Seq(Tools)
<1>1. NoTree \in Forest /\ <<>> \in Seq(Tools)
  BY NoTreeIsAPane, PanesInForest
<1>. QED
  BY <1>1 DEF Laid, Listed

\* A node that is dropped takes nothing.
LEMMA NothingPut ==
  ASSUME NEW order \in Seq(Tools)
  PROVE  PutIn(order, Placing(NoTree, order))
<1>1. <<>> \in Seq(Tools) /\ order = order \o <<>>
  BY ConcatEmptySeq
<1>2. Laid(HeldPanes, NoTree, <<>>)
  BY DEF Laid
<1>. QED
  BY <1>1, <1>2 DEF PutIn, Placing, Cat

\* The pane of the tools that were taken.
LEMMA PaneOfTools ==
  ASSUME NEW s \in Seq(Tools), NEW id
  PROVE  Laid(HeldPanes, NormalPane(s, id), s)
<1>1. CASE s = <<>>
  BY <1>1 DEF NormalPane, Laid
<1>2. CASE s # <<>>
  <2> DEFINE a == IF Contains(s, Resolve(id)) THEN Resolve(id) ELSE Head(s)
             p == Pane(s, a)
  <2>1. Head(s) \in Tools /\ Head(s) = s[1] /\ Len(s) \in Nat /\ Len(s) > 0 /\ <<>> \in Seq(Tools)
    BY <1>2, HeadTailProperties, EmptySeq, LenProperties
  <2>2. a \in Members(s)
    BY <2>1 DEF Contains, Members
  <2>3. Members(s) \subseteq Tools
    BY LenProperties DEF Members
  <2>4. p = NormalPane(s, id)
    BY <1>2 DEF NormalPane
  <2>. HIDE DEF a
  <2>5. p \in HeldPanes /\ p.tools = s
    BY <2>1, <2>2, <2>3 DEF Pane, HeldPanes
  <2>. HIDE DEF p
  <2>6. <<p, s>> \in Listed(HeldPanes)
    BY <2>5, ListedClosed DEF Closed
  <2>. QED
    BY <2>4, <2>6 DEF Laid
<1>. QED
  BY <1>1, <1>2

\* What comes behind a list in a longer one.
LEMMA TheRest ==
  ASSUME NEW S, NEW p \in Seq(S), NEW s \in Seq(S)
  PROVE  SubSeq(Cat(p, s), Len(p) + 1, Len(Cat(p, s))) = s
<1> DEFINE q == p \o s
           r == SubSeq(q, Len(p) + 1, Len(q))
<1>1. /\ q \in Seq(S) /\ Len(q) = Len(p) + Len(s) /\ Len(p) \in Nat /\ Len(s) \in Nat
      /\ \A i \in 1..Len(s) : q[Len(p) + i] = s[i]
  BY Concatenated
<1>. HIDE DEF q
<1>2. r \in Seq(S) /\ Len(r) = Len(s)
  <2>1. \A i \in (Len(p) + 1)..Len(q) : q[i] \in S
    BY <1>1, ElementOfSeq
  <2>. QED
    BY <1>1, <2>1, SubSeqProperties
<1>3. \A i \in 1..Len(s) : r[i] = q[Len(p) + i]
  BY <1>1, SubSeqProperties
<1>. HIDE DEF r
<1>4. r = s
  BY <1>1, <1>2, <1>3, SeqEqual
<1>. QED
  BY <1>4 DEF r, q, Cat

\* A saved pane: its tools go behind those taken before.
LEMMA PanePut ==
  ASSUME NEW p \in Panes, NEW depth \in Nat, NEW order \in Seq(Tools)
  PROVE  PutIn(order, PaneAt(p, depth, order))
<1>1. CASE depth > MaximumDockDepth
  <2>1. PaneAt(p, depth, order) = Placing(NoTree, order)
    BY <1>1 DEF PaneAt
  <2>. QED
    BY <2>1, NothingPut
<1>2. CASE ~(depth > MaximumDockDepth)
  <2> DEFINE next == Taken(p.tools, order)
             s == SubSeq(next, Len(order) + 1, Len(next))
             node == NormalPane(s, p.active)
  <2>1. p.tools \in Seq(Ids)
    BY DEF Panes
  <2>2. Further(order, next)
    BY <2>1, TakenAre
  <2>3. PaneAt(p, depth, order) = Placing(node, next)
    BY <1>2 DEF PaneAt
  <2>. HIDE DEF next
  <2>4. PICK r \in Seq(Tools) : next = Cat(order, r)
    BY <2>2 DEF Further
  <2>5. s = r
    BY <2>4, TheRest
  <2>. HIDE DEF s
  <2>6. Laid(HeldPanes, node, r)
    BY <2>5, PaneOfTools
  <2>. HIDE DEF node
  <2>. QED
    BY <2>2, <2>3, <2>4, <2>6 DEF PutIn, Placing, Further
<1>. QED
  BY <1>1, <1>2

\* A saved split: those of its first side, then those of its second.
LEMMA SplitPut ==
  ASSUME NEW n \in SplitTrees, NEW one \in Normalizings,
         NEW other \in Normalizings, NEW depth \in Nat, NEW order \in Seq(Tools)
  PROVE  PutIn(order, SplitAt(n, one, other, depth, order))
<1>1. CASE depth > MaximumDockDepth
  <2>1. SplitAt(n, one, other, depth, order) = Placing(NoTree, order)
    BY <1>1 DEF SplitAt
  <2>. QED
    BY <2>1, NothingPut
<1>2. CASE ~(depth > MaximumDockDepth)
  <2> DEFINE x == one[<<depth + 1, order>>]
             y == other[<<depth + 1, x.order>>]
             m == WithRatio(n, Clamped(n.ratio))
             node == Joined(m, x.node, y.node)
  <2>1. SplitAt(n, one, other, depth, order) = Placing(node, y.order)
    BY <1>2 DEF SplitAt, WithRatio
  <2>2. PutIn(order, x)
    <3>1. <<depth + 1, order>> \in Visits /\ <<depth + 1, order>>[2] = order
      BY DEF Visits
    <3>. QED
      BY <3>1 DEF Normalizings
  <2>. HIDE DEF x
  <2>3. PICK s \in Seq(Tools) : x.order = Cat(order, s) /\ Laid(HeldPanes, x.node, s)
    BY <2>2 DEF PutIn
  <2>4. PutIn(x.order, y)
    <3>1. <<depth + 1, x.order>> \in Visits /\ <<depth + 1, x.order>>[2] = x.order
      BY <2>2 DEF Visits, PutIn
    <3>. QED
      BY <3>1 DEF Normalizings
  <2>. HIDE DEF y
  <2>5. PICK r \in Seq(Tools) : y.order = Cat(x.order, r) /\ Laid(HeldPanes, y.node, r)
    BY <2>4 DEF PutIn
  <2>6. m.vertical \in BOOLEAN /\ m.ratio \in 10..90
    <3>1. n.vertical \in BOOLEAN /\ n.ratio \in Int /\ n \in SplitsOver(Int, Trees)
      <4>1. n \in SplitsOver(Int, Trees)
        BY HeldPanesAre, TreeNodes DEF SplitTrees
      <4>. QED
        BY <4>1 DEF SplitsOver
    <3>2. m.vertical = n.vertical /\ m.ratio = Clamped(n.ratio)
      BY <3>1 DEF WithRatio, SplitsOver
    <3>3. Clamped(n.ratio) \in 10..90
      BY <3>1, RatioClamped
    <3>. QED
      BY <3>1, <3>2, <3>3
  <2>. HIDE DEF m
  <2>7. Laid(HeldPanes, node, s \o r)
    BY <2>3, <2>5, <2>6, JoinedIs
  <2>. HIDE DEF node
  <2>8. y.order = Cat(order, Cat(s, r)) /\ Cat(s, r) \in Seq(Tools)
    BY <2>3, <2>5, Regrouped
  <2>9. Laid(HeldPanes, node, Cat(s, r))
    BY <2>7 DEF Cat
  <2>. QED
    BY <2>1, <2>2, <2>4, <2>8, <2>9 DEF PutIn, Placing
<1>. QED
  BY <1>1, <1>2

LEMMA PanesNormalized ==
  \A p \in Panes : PanesAt(p) \in Normalizings
<1>. SUFFICES ASSUME NEW p \in Panes PROVE PanesAt(p) \in Normalizings
  OBVIOUS
<1>1. ASSUME NEW at \in Visits
      PROVE  /\ PanesAt(p)[at] \in [node : Forest, order : Seq(Tools)] /\ PutIn(at[2], PanesAt(p)[at])
  <2> DEFINE x == PaneAt(p, at[1], at[2])
  <2>1. PanesAt(p)[at] = x
    BY DEF PanesAt, Visits
  <2>2. PutIn(at[2], x)
    BY PanePut DEF Visits
  <2>3. x = Placing(x.node, x.order)
    BY DEF PaneAt, Placing
  <2>. HIDE DEF x
  <2>4. x.node \in Forest /\ x.order \in Seq(Tools)
    BY <2>2, LaidInForest DEF PutIn
  <2>5. x \in [node : Forest, order : Seq(Tools)]
    BY <2>3, <2>4 DEF Placing
  <2>. QED
    BY <2>1, <2>2, <2>5
<1>2. PanesAt(p) = [at \in Visits |-> PanesAt(p)[at]]
  BY DEF PanesAt, Visits
<1>. QED
  BY <1>1, <1>2 DEF Normalizings

LEMMA SplitsNormalized ==
  \A n \in SplitTrees, one \in Normalizings, other \in Normalizings :
    SplitsAt(n, one, other) \in Normalizings
<1>. SUFFICES ASSUME NEW n \in SplitTrees, NEW one \in Normalizings, NEW other \in Normalizings
              PROVE  SplitsAt(n, one, other) \in Normalizings
  OBVIOUS
<1> DEFINE f == SplitsAt(n, one, other)
<1>1. ASSUME NEW at \in Visits
      PROVE  f[at] \in [node : Forest, order : Seq(Tools)] /\ PutIn(at[2], f[at])
  <2> DEFINE x == SplitAt(n, one, other, at[1], at[2])
  <2>1. f[at] = x
    BY DEF SplitsAt, Visits
  <2>2. PutIn(at[2], x)
    BY SplitPut DEF Visits
  <2>3. x = Placing(x.node, x.order)
    BY DEF SplitAt, Placing
  <2>. HIDE DEF x, f
  <2>4. x.node \in Forest /\ x.order \in Seq(Tools)
    BY <2>2, LaidInForest DEF PutIn
  <2>5. x \in [node : Forest, order : Seq(Tools)]
    BY <2>3, <2>4 DEF Placing
  <2>. QED
    BY <2>1, <2>2, <2>5
<1>2. f = [at \in Visits |-> f[at]]
  BY DEF SplitsAt, Visits
<1>. HIDE DEF f
<1>3. f \in Normalizings
  BY <1>1, <1>2 DEF Normalizings
<1>. QED
  BY <1>3 DEF f

\* Normalizing.
LEMMA NormalNodeIs ==
  ASSUME MaxNesting \in Nat
  PROVE  \A n \in Trees :
           /\ NormalNode(n) \in Normalizings
           /\ n.split => NormalNode(n) = SplitsAt(n, NormalNode(n.first), NormalNode(n.second))
           /\ ~n.split => NormalNode(n) = PanesAt(n)
<1> DEFINE V == Normalizings
           P(p) == PanesAt(p)
           J(n, a, b) == SplitsAt(n, a, b)
           Is(f) == f = [n \in Trees |-> IF n.split THEN J(n, f[n.first], f[n.second]) ELSE P(n)]
           fold == CHOOSE f : Is(f)
           base == [p \in Panes |-> P(p)]
           join == [x \in SplitTrees \X V \X V |-> J(x[1], x[2], x[3])]
           Q == {n \in Trees : fold[n] \in V}
<1>1. \A p \in Panes : P(p) \in V
  BY PanesNormalized
<1>2. \A n \in SplitTrees, a \in V, b \in V : J(n, a, b) \in V
  BY SplitsNormalized
<1>3. \A n \in Trees : NormalNode(n) = fold[n]
  BY DEF NormalNode, FoldTree, PanesAt, SplitsAt
<1>. HIDE DEF V, P, J
<1>4. base \in [Panes -> V] /\ join \in [SplitTrees \X V \X V -> V]
  BY <1>1, <1>2
<1>5. PICK f \in [Trees -> V] : Folds(f, base, join, Trees)
  <2>. HIDE DEF base, join
  <2>. QED
    BY <1>4, TreeRecursion
<1>6. ASSUME NEW n \in Trees
      PROVE  f[n] = IF n.split THEN J(n, f[n.first], f[n.second]) ELSE P(n)
  <2>1. CASE n.split
    <3>1. n.first \in Trees /\ n.second \in Trees /\ n \in SplitTrees
      BY <2>1, TreeNodes DEF SplitTrees
    <3>2. <<n, f[n.first], f[n.second]>> \in SplitTrees \X V \X V
      BY <3>1
    <3>. QED
      BY <1>5, <2>1, <3>2 DEF Folds
  <2>2. CASE ~n.split
    <3>1. n \in Panes
      BY <2>2, TreeNodes
    <3>. QED
      BY <1>5, <2>2, <3>1 DEF Folds
  <2>. QED
    BY <2>1, <2>2
<1>7. Is(fold)
  <2>1. Is(f)
    BY <1>5, <1>6
  <2>. HIDE DEF Is
  <2>. QED
    BY <2>1
<1>8. \A n \in Trees : fold[n] = IF n.split THEN J(n, fold[n.first], fold[n.second]) ELSE P(n)
  BY <1>7
<1>. HIDE DEF fold
<1>9. Trees \subseteq Q
  <2>1. ASSUME NEW n \in Panes PROVE n \in Q
    <3>1. n \in Trees /\ ~n.split
      BY TreeNodes
    <3>. QED
      BY <1>1, <1>8, <3>1
  <2>2. ASSUME NEW n \in Trees, n \in SplitsOver(Int, Trees \cap Q) PROVE n \in Q
    <3>1. n \in SplitTrees /\ n.split /\ fold[n.first] \in V /\ fold[n.second] \in V
      BY <2>2 DEF SplitsOver, SplitTrees
    <3>2. fold[n] = J(n, fold[n.first], fold[n.second])
      BY <1>8, <3>1
    <3>. QED
      BY <1>2, <3>1, <3>2
  <2>. HIDE DEF Q
  <2>. QED
    BY <2>1, <2>2, TreeInduction DEF Trees
<1>10. \A n \in Trees : n.split => n.first \in Trees /\ n.second \in Trees
  BY TreeNodes
<1>. QED
  BY <1>3, <1>8, <1>9, <1>10 DEF V, P, J

(* Documents that are put in place.                                         *)

\* A tree on screen is a tree.
LEMMA ShownIs ==
  ASSUME NEW n, NEW s, Laid(ShownPanes, n, s), IsInjective(s)
  PROVE  Laid(HeldPanes, n, s) /\ ToolsOf(n) = s /\ n \in Trees /\ s \in Seq(Tools)
<1>1. Laid(HeldPanes, n, s)
  BY MoreListed DEF Laid
<1>. QED
  BY <1>1, LaidIsATree

-----------------------------------------------------------------------------
(* Documents.                                                              *)

Presentations == {"closed", "docked", "floating"}

\* A document of tools, with the list of those in its tree.
Usable(d, s) ==
  /\ Laid(HeldPanes, d.root, s) /\ d.root \in Trees /\ ToolsOf(d.root) = s
  /\ d.floating \in Seq(Tools) /\ d.settings \in [Configurable -> Carried] /\ d.focus \in Tools

\* Showing a document puts the shell in order.
LEMMA DocumentShown ==
  ASSUME NEW d, NEW s, Usable(d, s), IsInjective(s)
  PROVE  /\ Laid(ShownPanes, Rebuilt(d.root), s) /\ ToolsOf(Rebuilt(d.root)) = s
         /\ PlannedPresentation(d) \in [Tools -> Presentations]
         /\ \A t \in Tools : t \in Members(s) <=> PlannedPresentation(d)[t] = "docked"
<1>1. Laid(ShownPanes, Rebuilt(d.root), s) /\ ToolsOf(Rebuilt(d.root)) = s
  BY TreeRebuilt DEF Usable
<1>2. \A t : Contains(s, t) <=> t \in Members(s)
  BY DEF Contains, Members
<1>3. ToolsOf(d.root) = s
  BY DEF Usable
<1>4. \A t \in Tools : t \in Members(s) <=> PlannedPresentation(d)[t] = "docked"
  BY <1>2, <1>3 DEF PlannedPresentation
<1>5. PlannedPresentation(d) \in [Tools -> Presentations]
  BY DEF PlannedPresentation, Presentations
<1>. QED
  BY <1>1, <1>4, <1>5

\* A document of one tool.
LEMMA UsableLeaf ==
  ASSUME NEW t \in Tools
  PROVE  Laid(HeldPanes, Leaf(t), <<t>>) /\ Leaf(t) \in Trees /\ ToolsOf(Leaf(t)) = <<t>>
<1>1. Laid(HeldPanes, Leaf(t), <<t>>) /\ IsInjective(<<t>>)
  BY LeafIs, ShortLists DEF Laid
<1>. QED
  BY <1>1, LaidIsATree

\* Settings before any are carried.
LEMMA UnsetIs ==
  ASSUME NEW t, NEW x \in Carried
  PROVE  Unset \in [Configurable -> Carried] /\ [Unset EXCEPT ![t] = x] \in [Configurable -> Carried]
BY DEF Unset, Carried, NoSettings

\* The trees of the built-in workspaces have one split at most.
LEMMA OneSplit ==
  ASSUME NEW r \in 10..90, NEW p \in HeldPanes, NEW q \in HeldPanes
  PROVE  LET n == SplitNode(FALSE, r, p, q)
             s == p.tools \o q.tools
         IN Laid(HeldPanes, n, s) /\ n \in Trees /\ ToolsOf(n) = s
<1> DEFINE n == SplitNode(FALSE, r, p, q)
           s == p.tools \o q.tools
           T == TreesOver(Panes, Int)
<1>1. <<n, s>> \in Listed(HeldPanes)
  BY ListedClosed DEF Closed
<1>2. Registry \in Seq(Tools) /\ Tuner \in Tools /\ MaxNesting \in Nat /\ Len(Registry) <= MaxNesting
  BY WorkspaceAssumption
<1>3. 1 \in 0..MaxNesting
  <2>1. Registry # <<>>
    BY <1>2 DEF Tools
  <2>2. Len(Registry) \in Nat /\ Len(Registry) # 0
    BY <1>2, <2>1, EmptySeq, LenProperties
  <2>. QED
    BY <1>2, <2>2
<1>4. T[0] = Panes /\ \A k \in Nat : T[k + 1] = Panes \cup SplitsOver(Int, T[k])
  BY TreesAre
<1>5. \A k \in 0..MaxNesting : T[k] \subseteq T[MaxNesting]
  BY <1>2, DeeperTrees
<1>6. Trees = T[MaxNesting]
  BY DEF Trees
<1>7. p \in Panes /\ q \in Panes
  BY HeldPanesAre
<1>. HIDE DEF T
<1>8. n \in SplitsOver(Int, Panes)
  BY <1>7 DEF SplitsOver, SplitNode
<1>9. n \in T[1]
  <2>1. T[0 + 1] = Panes \cup SplitsOver(Int, T[0])
    BY <1>4
  <2>. HIDE DEF n
  <2>. QED
    BY <1>4, <1>8, <2>1
<1>10. n \in Trees
  BY <1>3, <1>5, <1>6, <1>9
<1>11. ToolsOf(n) = s
  BY <1>1, <1>10, ListedIsSmall
<1>. QED
  BY <1>1, <1>10, <1>11 DEF Laid

\* The built-in workspaces are documents of tools.
LEMMA BuiltInsAreUsable ==
  ASSUME NEW d \in BuiltIns
  PROVE  d.floating = <<>> /\ \E s : Usable(d, s)
<1>1. Tuner \in Tools /\ Spectrogram \in Tools /\ HarmonicAnalyzer \in Tools
  BY WorkspaceAssumption
<1>2. <<>> \in Seq(Tools) /\ {"instrument", "voice"} \subseteq Carried
  BY DEF Carried
<1>3. /\ Unset \in [Configurable -> Carried]
      /\ [Unset EXCEPT ![Tuner] = "instrument"] \in [Configurable -> Carried]
      /\ [Unset EXCEPT ![Tuner] = "voice"] \in [Configurable -> Carried]
  BY <1>2, UnsetIs
<1>4. ASSUME NEW root, NEW payloads \in [Configurable -> Carried], NEW focus \in Tools, NEW s,
             Laid(HeldPanes, root, s) /\ root \in Trees /\ ToolsOf(root) = s,
             d = Document(root, <<>>, payloads, focus)
      PROVE  d.floating = <<>> /\ \E w : Usable(d, w)
  <2>1. d.root = root /\ d.floating = <<>> /\ d.settings = payloads /\ d.focus = focus
    BY <1>4 DEF Document
  <2>2. Usable(d, s)
    BY <1>2, <1>4, <2>1 DEF Usable
  <2>. QED
    BY <2>1, <2>2
<1>5. /\ Leaf(Tuner) \in HeldPanes /\ Leaf(HarmonicAnalyzer) \in HeldPanes
      /\ Leaf(Spectrogram) \in HeldPanes
  BY <1>1, LeafIs
<1> DEFINE g == Pane(<<Spectrogram, HarmonicAnalyzer>>, Spectrogram)
<1>6. g \in HeldPanes
  <2> DEFINE w == <<Spectrogram, HarmonicAnalyzer>>
  <2>1. w \in Seq(Tools) /\ Len(w) = 2 /\ w[1] = Spectrogram
    BY <1>1
  <2>2. Spectrogram \in Members(w)
    BY <2>1 DEF Members
  <2>. HIDE DEF w
  <2>3. Pane(w, Spectrogram) \in HeldPanes
    BY <1>1, <1>2, <2>1, <2>2 DEF Pane, HeldPanes
  <2>. QED
    BY <2>3 DEF w
<1>. HIDE DEF g
<1>7. CASE d = Document(Leaf(Tuner), <<>>, [Unset EXCEPT ![Tuner] = "instrument"], Tuner)
  BY <1>1, <1>3, <1>4, <1>7, UsableLeaf
<1>8. CASE d = Document(SplitNode(FALSE, 50, Leaf(Tuner), Leaf(HarmonicAnalyzer)), <<>>,
                        [Unset EXCEPT ![Tuner] = "voice"], Tuner)
  <2> DEFINE root == SplitNode(FALSE, 50, Leaf(Tuner), Leaf(HarmonicAnalyzer))
             s == Leaf(Tuner).tools \o Leaf(HarmonicAnalyzer).tools
             payloads == [Unset EXCEPT ![Tuner] = "voice"]
  <2>1. Laid(HeldPanes, root, s) /\ root \in Trees /\ ToolsOf(root) = s
    <3>1. 50 \in 10..90
      OBVIOUS
    <3>. QED
      BY <1>5, <3>1, OneSplit
  <2>2. payloads \in [Configurable -> Carried] /\ Tuner \in Tools
    BY <1>1, <1>3
  <2>3. d = Document(root, <<>>, payloads, Tuner)
    BY <1>8
  <2>. HIDE DEF root, s, payloads
  <2>. QED
    BY <1>4, <2>1, <2>2, <2>3
<1>9. CASE d = Document(SplitNode(FALSE, 58, Leaf(Spectrogram), Leaf(HarmonicAnalyzer)), <<>>,
                        Unset, Spectrogram)
  <2> DEFINE root == SplitNode(FALSE, 58, Leaf(Spectrogram), Leaf(HarmonicAnalyzer))
             s == Leaf(Spectrogram).tools \o Leaf(HarmonicAnalyzer).tools
             payloads == Unset
  <2>1. Laid(HeldPanes, root, s) /\ root \in Trees /\ ToolsOf(root) = s
    <3>1. 58 \in 10..90
      OBVIOUS
    <3>. QED
      BY <1>5, <3>1, OneSplit
  <2>2. payloads \in [Configurable -> Carried] /\ Spectrogram \in Tools
    BY <1>1, <1>3
  <2>3. d = Document(root, <<>>, payloads, Spectrogram)
    BY <1>9
  <2>. HIDE DEF root, s, payloads
  <2>. QED
    BY <1>4, <2>1, <2>2, <2>3
<1>10. CASE d = Document(SplitNode(FALSE, 50, Leaf(Tuner), g), <<>>,
                         [Unset EXCEPT ![Tuner] = "instrument"], Tuner)
  <2> DEFINE root == SplitNode(FALSE, 50, Leaf(Tuner), g)
             s == Leaf(Tuner).tools \o g.tools
             payloads == [Unset EXCEPT ![Tuner] = "instrument"]
  <2>1. Laid(HeldPanes, root, s) /\ root \in Trees /\ ToolsOf(root) = s
    <3>1. 50 \in 10..90
      OBVIOUS
    <3>. QED
      BY <1>5, <1>6, <3>1, OneSplit
  <2>2. payloads \in [Configurable -> Carried] /\ Tuner \in Tools
    BY <1>1, <1>3
  <2>3. d = Document(root, <<>>, payloads, Tuner)
    BY <1>10
  <2>. HIDE DEF root, s, payloads
  <2>. QED
    BY <1>4, <2>1, <2>2, <2>3
<1>. QED
  BY <1>7, <1>8, <1>9, <1>10 DEF BuiltIns, PitchPractice, g

\* What the planner accepts names no tool twice.
LEMMA AcceptedOnce ==
  ASSUME NEW d, NEW s, Usable(d, s), Accepted(d)
  PROVE  IsInjective(s)
<1> DEFINE ids == s \o d.floating
<1>0. s \in Seq(Tools) /\ d.floating \in Seq(Tools)
  BY LaidInForest DEF Usable
<1>1. ids \in Seq(Tools)
  BY <1>0, Concatenated
<1>2. IsInjective([i \in DOMAIN ids |-> Resolve(ids[i])])
  BY DEF Accepted, Usable
<1>. HIDE DEF ids
<1>3. DOMAIN ids = 1..Len(ids) /\ \A i \in DOMAIN ids : ids[i] \in Tools
  BY <1>1, LenProperties, ElementOfSeq
<1>4. \A i \in DOMAIN ids : Resolve(ids[i]) = ids[i]
  BY <1>3 DEF Resolve
<1>5. IsInjective(ids)
  BY <1>2, <1>4 DEF IsInjective
<1>. QED
  BY <1>0, <1>5, Concatenated DEF ids

\* Whatever document was saved, what is made of it is a document of tools.
LEMMA NormalizedIsUsable ==
  ASSUME NEW d \in SavedDocuments
  PROVE  \E s : Usable(Normalized(d), s) /\ IsInjective(s \o Normalized(d).floating)
<1>0. /\ d.root \in Trees /\ d.floating \in Seq(Ids)
      /\ d.settings \in [Configurable -> Carried \cup {"otherVersion"}]
  BY WorkspaceAssumption
<1> DEFINE dock == NormalNode(d.root)[<<1, <<>>>>]
           order == Taken(d.floating, dock.order)
           focus == IF Contains(order, Resolve(d.focus)) THEN Resolve(d.focus) ELSE Head(order)
           payloads == [t \in Configurable |->
                          IF d.settings[t] = "otherVersion" THEN NoSettings ELSE d.settings[t]]
           floating == SubSeq(order, Len(dock.order) + 1, Len(order))
<1>1. PutIn(<<>>, dock)
  <2>1. NormalNode(d.root) \in Normalizings
    BY <1>0, HeldPanesAre, NormalNodeIs
  <2>2. <<1, <<>>>> \in Visits /\ <<1, <<>>>>[2] = <<>>
    <3>1. <<>> \in Seq(Tools)
      OBVIOUS
    <3>. QED
      BY <3>1 DEF Visits
  <2>. QED
    BY <2>1, <2>2 DEF Normalizings
<1>2. Normalized(d) = IF order = <<>> THEN PitchPractice
                      ELSE Document(dock.node, floating, payloads, focus)
  BY DEF Normalized
<1>. HIDE DEF dock
<1>3. PICK s \in Seq(Tools) : dock.order = Cat(<<>>, s) /\ Laid(HeldPanes, dock.node, s)
  BY <1>1 DEF PutIn
<1>4. dock.order = s /\ IsInjective(s)
  BY <1>1, <1>3, ConcatEmptySeq, ShortLists DEF PutIn, Cat
<1>5. Further(s, order)
  BY <1>0, <1>4, TakenAre
<1>. HIDE DEF order
<1>6. PICK r \in Seq(Tools) : order = Cat(s, r)
  BY <1>5 DEF Further
<1>7. floating = r
  BY <1>4, <1>6, TheRest
<1>8. order \in Seq(Tools) /\ IsInjective(order)
  BY <1>4, <1>5 DEF Further
<1>9. payloads \in [Configurable -> Carried]
  BY <1>0 DEF Carried, NoSettings
<1>10. CASE order = <<>>
  <2>1. PitchPractice \in BuiltIns
    BY DEF BuiltIns
  <2>2. Tuner \in Tools
    BY WorkspaceAssumption
  <2>3. /\ PitchPractice.root = Leaf(Tuner) /\ PitchPractice.floating = <<>>
        /\ PitchPractice.settings = [Unset EXCEPT ![Tuner] = "instrument"]
        /\ PitchPractice.focus = Tuner
    BY DEF PitchPractice, Document
  <2>4. "instrument" \in Carried /\ <<>> \in Seq(Tools)
    BY DEF Carried
  <2>5. Usable(PitchPractice, <<Tuner>>)
    BY <2>2, <2>3, <2>4, UsableLeaf, UnsetIs DEF Usable
  <2>6. IsInjective(<<Tuner>> \o <<>>)
    <3>1. <<Tuner>> \in Seq(Tools) /\ IsInjective(<<Tuner>>)
      BY <2>2, ShortLists
    <3>. QED
      BY <3>1, ConcatEmptySeq
  <2>. QED
    BY <1>2, <1>10, <2>3, <2>5, <2>6
<1>11. CASE order # <<>>
  <2>1. focus \in Tools
    <3>1. Head(order) \in Tools
      BY <1>8, <1>11, HeadTailProperties
    <3>2. Contains(order, Resolve(d.focus)) => Resolve(d.focus) \in Tools
      BY <1>8, ElementOfSeq DEF Contains
    <3>. QED
      BY <3>1, <3>2
  <2>. HIDE DEF focus, payloads, floating
  <2> DEFINE x == Normalized(d)
  <2>2. x.root = dock.node /\ x.floating = r /\ x.settings = payloads /\ x.focus = focus
    BY <1>2, <1>7, <1>11 DEF Document
  <2>. HIDE DEF x
  <2>3. dock.node \in Trees /\ ToolsOf(dock.node) = s
    BY <1>3, <1>4, LaidIsATree
  <2>4. Usable(x, s)
    BY <1>3, <1>9, <2>1, <2>2, <2>3 DEF Usable
  <2>5. IsInjective(s \o x.floating)
    BY <1>6, <1>8, <2>2 DEF Cat
  <2>. QED
    BY <2>4, <2>5 DEF x
<1>. QED
  BY <1>10, <1>11

-----------------------------------------------------------------------------
(* The shell.                                                               *)

\* The tree is one of tools on screen, each once: those that are docked.
Docking ==
  /\ Laid(ShownPanes, tree, ToolsOf(tree)) /\ IsInjective(ToolsOf(tree))
  /\ \A t \in Tools : t \in Members(ToolsOf(tree)) <=> placed[t] = "docked"
\* What is open has settings and the focus is on a tool.
Belongings ==
  /\ placed \in [Tools -> Presentations]
  /\ settings \in [Configurable -> Carried]
  /\ current \in Tools
  /\ \A t \in Configurable : placed[t] # "closed" => settings[t] # NoSettings
ShellInv == Docking /\ Belongings

\* The invariant gives the property the runs check.
LEMMA ShellInvSuffices ==
  ASSUME ShellInv
  PROVE  TreeMatchesPresentations
<1>1. TreeIsWellFormed(tree)
  BY LaidIsWellFormed DEF ShellInv, Docking
<1>2. \A t : Contains(ToolsOf(tree), t) <=> t \in Members(ToolsOf(tree))
  BY DEF Contains, Members
<1>. QED
  BY <1>1, <1>2 DEF ShellInv, Docking, Belongings, TreeMatchesPresentations, Presentations

\* A tree on screen with these tools, that differs from a list by one tool at most.
Moved(n, s, t, tools) ==
  \E w : /\ Laid(ShownPanes, n, w) /\ IsInjective(w) /\ ToolsOf(n) = w
         /\ Members(w) = tools /\ Without(w, t) = Without(s, t)

\* A tool taken out of the tree.
LEMMA TakenOut ==
  ASSUME NEW n, NEW s, Laid(HeldPanes, n, s), IsInjective(s), NEW t
  PROVE  Moved(Rebuilt(TreeWithout(n, t)), s, t, Members(s) \ {t})
<1> DEFINE w == Without(s, t)
           rest == TreeWithout(n, t)
<1>1. Laid(HeldPanes, rest, w) /\ IsInjective(w) /\ Members(w) = Members(s) \ {t}
  BY ToolRemoved
<1>2. s \in Seq(Tools) /\ w \in Seq(Tools)
  BY LaidInForest, Leaving
<1>. HIDE DEF rest, w
<1>3. Laid(ShownPanes, Rebuilt(rest), w) /\ ToolsOf(Rebuilt(rest)) = w
  BY <1>1, TreeRebuilt
<1>4. Without(w, t) = w
  <2>1. t \notin Members(w)
    BY <1>1
  <2>. QED
    BY <1>2, <2>1, Leaving
<1>. QED
  BY <1>1, <1>3, <1>4 DEF Moved, rest, w

\* A tool put into the tree.
LEMMA PutInPlace ==
  ASSUME NEW n, NEW s, Laid(HeldPanes, n, s), IsInjective(s),
         NEW t \in Tools, NEW target, NEW zone, target = t => t \in Members(s)
  PROVE  Moved(Rebuilt(InsertTool(n, t, target, zone)), s, t, Members(s) \cup {t})
<1> DEFINE m == InsertTool(n, t, target, zone)
<1>1. PICK w : /\ Laid(HeldPanes, m, w) /\ IsInjective(w)
               /\ Members(w) = Members(s) \cup {t} /\ Without(w, t) = Without(s, t)
  BY ToolInserted
<1>. HIDE DEF m
<1>2. Laid(ShownPanes, Rebuilt(m), w) /\ ToolsOf(Rebuilt(m)) = w
  BY <1>1, TreeRebuilt
<1>. QED
  BY <1>1, <1>2 DEF Moved, m

LEMMA NoToolIsNone ==
  ASSUME NEW t \in Tools
  PROVE  t # NoTool
BY WorkspaceAssumption

\* The tree after a tool is docked, floated or closed.
LEMMA PresentedIs ==
  ASSUME ShellInv, NEW t \in Tools
  PROVE  LET s == ToolsOf(tree)
         IN /\ Moved(Presented(t, "docked"), s, t, Members(s) \cup {t})
            /\ Moved(Presented(t, "floating"), s, t, Members(s) \ {t})
<1> DEFINE s == ToolsOf(tree)
           n == Detached(tree, t)
<1>1. Laid(HeldPanes, tree, s) /\ IsInjective(s)
  BY ShownIs DEF ShellInv, Docking
<1>. HIDE DEF s
<1>2. Laid(HeldPanes, n, s)
  BY <1>1, DetachedIs
<1>3. NoTool # t
  BY NoToolIsNone
<1>4. /\ Presented(t, "docked") = Rebuilt(InsertTool(n, t, NoTool, "centre"))
      /\ Presented(t, "floating") = Rebuilt(TreeWithout(n, t))
  BY DEF Presented
<1>. HIDE DEF n
<1>5. Moved(Rebuilt(InsertTool(n, t, NoTool, "centre")), s, t, Members(s) \cup {t})
  BY <1>1, <1>2, <1>3, PutInPlace
<1>6. Moved(Rebuilt(TreeWithout(n, t)), s, t, Members(s) \ {t})
  BY <1>1, <1>2, TakenOut
<1>. QED
  BY <1>4, <1>5, <1>6 DEF s

\* What a step owes.
OneMoved(t) == Without(ToolsOf(tree), t) = Without(ToolsOf(tree'), t)

\* When one tool moves and the rest keep their order, the shell stays in order.
LEMMA MovedTree ==
  ASSUME ShellInv, NEW t \in Tools, NEW p \in Presentations,
         placed' = [placed EXCEPT ![t] = p],
         Moved(tree', ToolsOf(tree), t,
               IF p = "docked" THEN Members(ToolsOf(tree)) \cup {t} ELSE Members(ToolsOf(tree)) \ {t})
  PROVE  Docking' /\ OneMoved(t) /\ placed' \in [Tools -> Presentations]
<1> DEFINE s == ToolsOf(tree)
           tools == IF p = "docked" THEN Members(s) \cup {t} ELSE Members(s) \ {t}
<1>1. PICK w : /\ Laid(ShownPanes, tree', w) /\ IsInjective(w) /\ ToolsOf(tree') = w
               /\ Members(w) = tools /\ Without(w, t) = Without(s, t)
  BY DEF Moved
<1>2. placed \in [Tools -> Presentations] /\ \A u \in Tools : u \in Members(s) <=> placed[u] = "docked"
  BY DEF ShellInv, Docking, Belongings
<1>. HIDE DEF s
<1>3. placed' \in [Tools -> Presentations]
  BY <1>2
<1>4. \A u \in Tools : u \in Members(w) <=> placed'[u] = "docked"
  BY <1>1, <1>2
<1>. QED
  BY <1>1, <1>3, <1>4 DEF Docking, OneMoved, s

\* The list of the tools stays.
LEMMA SameTools ==
  ASSUME ShellInv, Laid(ShownPanes, tree', ToolsOf(tree)), placed' = placed
  PROVE  Docking' /\ ToolsOf(tree) = ToolsOf(tree')
<1> DEFINE s == ToolsOf(tree)
<1>1. IsInjective(s) /\ \A u \in Tools : u \in Members(s) <=> placed[u] = "docked"
  BY DEF ShellInv, Docking
<1>. HIDE DEF s
<1>2. ToolsOf(tree') = s
  BY <1>1, ShownIs DEF s
<1>. QED
  BY <1>1, <1>2 DEF Docking, s

ToolsKept == ToolsOf(tree) = ToolsOf(tree')

\* A tool that is opened is given settings.
LEMMA OpenedBelongs ==
  ASSUME ShellInv, NEW t \in Tools, NEW p \in Presentations,
         placed' = [placed EXCEPT ![t] = p], settings' = Opened(t), current' \in Tools
  PROVE  Belongings'
<1>1. "default" \in Carried /\ "default" # NoSettings
  BY DEF Carried, NoSettings
<1>2. Configurable \subseteq Tools
  BY WorkspaceAssumption
<1>. QED
  BY <1>1, <1>2 DEF ShellInv, Belongings, Opened

\* Settings stay while nothing is opened.
LEMMA KeptBelongs ==
  ASSUME ShellInv, NEW t \in Tools, NEW p \in Presentations,
         placed[t] # "closed" \/ p = "closed",
         placed' = [placed EXCEPT ![t] = p], settings' = settings, current' \in Tools
  PROVE  Belongings'
<1>1. Configurable \subseteq Tools
  BY WorkspaceAssumption
<1>. QED
  BY <1>1 DEF ShellInv, Belongings

\* Docking or floating a tool.
LEMMA Presenting ==
  ASSUME ShellInv, NEW t \in Tools, NEW p \in {"docked", "floating"},
         PresentTool(t, p)
  PROVE  ShellInv' /\ OneMoved(t)
<1>1. p \in Presentations
  BY DEF Presentations
<1>2. /\ tree' = Presented(t, p) /\ placed' = [placed EXCEPT ![t] = p]
      /\ settings' = Opened(t) /\ current' = t
  BY DEF PresentTool
<1>3. Moved(tree', ToolsOf(tree), t,
            IF p = "docked" THEN Members(ToolsOf(tree)) \cup {t} ELSE Members(ToolsOf(tree)) \ {t})
  BY <1>2, PresentedIs
<1>4. Docking' /\ OneMoved(t)
  BY <1>1, <1>2, <1>3, MovedTree
<1>5. Belongings'
  BY <1>1, <1>2, OpenedBelongs
<1>. QED
  BY <1>4, <1>5 DEF ShellInv

\* Closing a tool.
LEMMA Closing ==
  ASSUME ShellInv, NEW t \in Tools, CloseTool(t)
  PROVE  ShellInv' /\ OneMoved(t)
<1> DEFINE s == ToolsOf(tree)
           n == Detached(tree, t)
<1>1. Laid(HeldPanes, tree, s) /\ IsInjective(s) /\ current \in Tools
  BY ShownIs DEF ShellInv, Docking, Belongings
<1>2. /\ tree' = Rebuilt(TreeWithout(n, t)) /\ placed' = [placed EXCEPT ![t] = "closed"]
      /\ settings' = settings /\ current' = FocusAfter(n, current)
  BY DEF CloseTool
<1>. HIDE DEF s
<1>3. Laid(HeldPanes, n, s)
  BY <1>1, DetachedIs
<1>. HIDE DEF n
<1>4. current' \in Tools
  BY <1>1, <1>2, <1>3, FocusFound
<1>5. Moved(tree', s, t, Members(s) \ {t})
  BY <1>1, <1>2, <1>3, TakenOut
<1> DEFINE p == "closed"
<1>6. p \in Presentations /\ p # "docked" /\ placed' = [placed EXCEPT ![t] = p]
  BY <1>2 DEF Presentations
<1>7. Docking' /\ OneMoved(t)
  <2>. HIDE DEF p
  <2>. QED
    BY <1>5, <1>6, MovedTree DEF s
<1>8. Belongings'
  BY <1>2, <1>4, <1>6, KeptBelongs
<1>. QED
  BY <1>7, <1>8 DEF ShellInv

\* A drag that ends on the Float target.
LEMMA DroppingFloat ==
  ASSUME ShellInv, NEW t \in Tools, DropFloating(t)
  PROVE  ShellInv' /\ OneMoved(t)
<1> DEFINE s == ToolsOf(tree)
           shown == IF placed[t] = "floating" THEN tree ELSE Presented(t, "floating")
           p == "floating"
<1>1. /\ Laid(ShownPanes, tree, s) /\ IsInjective(s) /\ s \in Seq(Tools)
      /\ (placed[t] = "floating" => t \notin Members(s))
  BY ShownIs DEF ShellInv, Docking
<1>2. /\ tree' = Rebuilt(shown) /\ current' = FocusAfter(shown, t) /\ placed[t] # "closed"
      /\ placed' = [placed EXCEPT ![t] = p] /\ settings' = settings
  BY DEF DropFloating
<1>3. Moved(shown, s, t, Members(s) \ {t})
  <2>1. CASE placed[t] = "floating"
    <3>1. shown = tree /\ Members(s) = Members(s) \ {t}
      BY <1>1, <2>1
    <3>2. Moved(tree, s, t, Members(s))
      BY <1>1 DEF Moved
    <3>. HIDE DEF s, shown
    <3>. QED
      BY <3>1, <3>2
  <2>2. CASE placed[t] # "floating"
    <3>1. shown = Presented(t, "floating")
      BY <2>2
    <3>. HIDE DEF shown
    <3>. QED
      BY <3>1, PresentedIs
  <2>. QED
    BY <2>1, <2>2
<1>. HIDE DEF s, shown
<1>4. PICK w : /\ Laid(ShownPanes, shown, w) /\ IsInjective(w)
               /\ Members(w) = Members(s) \ {t} /\ Without(w, t) = Without(s, t)
  BY <1>3 DEF Moved
<1>5. Laid(HeldPanes, shown, w)
  BY <1>4, ShownIs
<1>6. current' \in Tools
  BY <1>2, <1>4, <1>5, FocusFound
<1>7. Laid(ShownPanes, tree', w) /\ ToolsOf(tree') = w
  BY <1>2, <1>4, <1>5, TreeRebuilt
<1>8. Moved(tree', s, t, Members(s) \ {t})
  BY <1>4, <1>7 DEF Moved
<1>9. p \in Presentations /\ p # "docked"
  BY DEF Presentations
<1>10. Docking' /\ OneMoved(t)
  <2>. HIDE DEF p
  <2>. QED
    BY <1>2, <1>8, <1>9, MovedTree DEF s
<1>11. Belongings'
  <2>. HIDE DEF p
  <2>. QED
    BY <1>2, <1>6, <1>9, KeptBelongs
<1>. QED
  BY <1>10, <1>11 DEF ShellInv

\* A drag that ends on a pane.
LEMMA DroppingDocked ==
  ASSUME ShellInv, NEW t \in Tools, NEW target, NEW zone,
         DropDocked(t, target, zone)
  PROVE  ShellInv' /\ OneMoved(t)
<1> DEFINE s == ToolsOf(tree)
           shown == IF placed[t] = "docked" THEN tree ELSE Presented(t, "docked")
           p == "docked"
<1>1. /\ Laid(ShownPanes, tree, s) /\ IsInjective(s)
      /\ (placed[t] = "docked" => t \in Members(s))
  BY DEF ShellInv, Docking
<1>2. /\ tree' = Rebuilt(InsertTool(shown, t, target, zone)) /\ current' = FocusAfter(shown, t)
      /\ placed[t] # "closed" /\ placed' = [placed EXCEPT ![t] = p] /\ settings' = settings
  BY DEF DropDocked
<1>3. Moved(shown, s, t, Members(s) \cup {t})
  <2>1. CASE placed[t] = "docked"
    <3>1. shown = tree /\ Members(s) = Members(s) \cup {t}
      BY <1>1, <2>1
    <3>2. Moved(tree, s, t, Members(s))
      BY <1>1 DEF Moved
    <3>. HIDE DEF s, shown
    <3>. QED
      BY <3>1, <3>2
  <2>2. CASE placed[t] # "docked"
    <3>1. shown = Presented(t, "docked")
      BY <2>2
    <3>. HIDE DEF shown
    <3>. QED
      BY <3>1, PresentedIs
  <2>. QED
    BY <2>1, <2>2
<1>. HIDE DEF s, shown
<1>4. PICK w : /\ Laid(ShownPanes, shown, w) /\ IsInjective(w)
               /\ Members(w) = Members(s) \cup {t} /\ Without(w, t) = Without(s, t)
  BY <1>3 DEF Moved
<1>5. Laid(HeldPanes, shown, w)
  BY <1>4, ShownIs
<1>6. current' \in Tools
  BY <1>2, <1>4, <1>5, FocusFound
<1>7. Moved(tree', w, t, Members(w) \cup {t})
  <2>1. t \in Members(w)
    BY <1>4
  <2>. QED
    BY <1>2, <1>4, <1>5, <2>1, PutInPlace
<1>8. Moved(tree', s, t, Members(s) \cup {t})
  <2>1. Members(w) \cup {t} = Members(s) \cup {t}
    BY <1>4
  <2>. QED
    BY <1>4, <1>7, <2>1 DEF Moved
<1>9. p \in Presentations
  BY DEF Presentations
<1>10. Docking' /\ OneMoved(t)
  BY <1>2, <1>8, <1>9, MovedTree DEF s
<1>11. Belongings'
  <2>. HIDE DEF p
  <2>. QED
    BY <1>2, <1>6, <1>9, KeptBelongs
<1>. QED
  BY <1>10, <1>11 DEF ShellInv

\* Arranging the workspace.
LEMMA Arranging ==
  ASSUME ShellInv, NEW layout, SetWorkspaceLayout(layout)
  PROVE  ShellInv' /\ ToolsKept
<1> DEFINE s == ToolsOf(tree)
           n == Arranged(tree, layout)
<1>1. Laid(HeldPanes, tree, s) /\ IsInjective(s) /\ current \in Tools
  BY ShownIs DEF ShellInv, Docking, Belongings
<1>2. /\ tree' = Rebuilt(n) /\ current' = FocusAfter(tree, current)
      /\ placed' = placed /\ settings' = settings
  BY DEF SetWorkspaceLayout
<1>. HIDE DEF s
<1>3. Laid(HeldPanes, n, s)
  BY <1>1, ArrangedIs
<1>. HIDE DEF n
<1>4. Laid(ShownPanes, tree', s)
  BY <1>1, <1>2, <1>3, TreeRebuilt
<1>5. Docking' /\ ToolsKept
  BY <1>2, <1>4, SameTools DEF s, ToolsKept
<1>6. current' \in Tools
  BY <1>1, <1>2, FocusFound
<1>. QED
  BY <1>2, <1>5, <1>6 DEF ShellInv, Belongings

\* Choosing a tab.
LEMMA Selecting ==
  ASSUME ShellInv, NEW t \in Tools, SelectTab(t)
  PROVE  ShellInv' /\ ToolsKept
<1> DEFINE s == ToolsOf(tree)
<1>1. Laid(ShownPanes, tree, s) /\ IsInjective(s) /\ t \in Members(s)
  BY DEF ShellInv, Docking, SelectTab
<1>2. /\ tree' = Substitute(tree, PaneWith(tree, t), SelectedIn(PaneWith(tree, t), t))
      /\ current' = t /\ placed' = placed /\ settings' = settings
  BY DEF SelectTab
<1>. HIDE DEF s
<1>3. Laid(ShownPanes, tree', s)
  BY <1>1, <1>2, TabSelected
<1>4. Docking' /\ ToolsKept
  BY <1>2, <1>3, SameTools DEF s, ToolsKept
<1>. QED
  BY <1>2, <1>4 DEF ShellInv, Belongings

\* Dragging a divider.
LEMMA Dragging ==
  ASSUME ShellInv, NEW x \in SplitsOf(tree), NEW stop \in DividerStops,
         DragDivider(x, stop)
  PROVE  ShellInv' /\ ToolsKept
<1> DEFINE s == ToolsOf(tree)
<1>1. Laid(ShownPanes, tree, s) /\ IsInjective(s) /\ stop \in Int
  BY WorkspaceAssumption DEF ShellInv, Docking
<1>2. /\ tree' = Substitute(tree, x, [x EXCEPT !.ratio = Clamped(stop)])
      /\ current' = current /\ placed' = placed /\ settings' = settings
  BY DEF DragDivider
<1>. HIDE DEF s
<1>3. Laid(ShownPanes, tree', s)
  BY <1>1, <1>2, DividerDragged
<1>4. Docking' /\ ToolsKept
  BY <1>2, <1>3, SameTools DEF s, ToolsKept
<1>. QED
  BY <1>2, <1>4 DEF ShellInv, Belongings

\* What leaves the tree and the presentations alone.
LEMMA Staying ==
  ASSUME ShellInv, UNCHANGED <<tree, placed>>
  PROVE  Docking' /\ ToolsKept
BY DEF ShellInv, Docking, ToolsKept

\* Applying a saved or built-in workspace.
LEMMA Applying ==
  ASSUME ShellInv, NEW d \in BuiltIns, ApplyWorkspace(d)
  PROVE  ShellInv'
<1>1. PICK s : Usable(d, s)
  BY BuiltInsAreUsable
<1>2. Accepted(d) /\ tree' = Rebuilt(d.root) /\ placed' = PlannedPresentation(d)
      /\ settings' = PreparedSettings(d) /\ (d.focus # NoTool => current' = d.focus)
  BY DEF ApplyWorkspace
<1>3. IsInjective(s)
  BY <1>1, <1>2, AcceptedOnce
<1>4. Docking'
  BY <1>1, <1>2, <1>3, DocumentShown DEF Docking
<1>5. placed' \in [Tools -> Presentations]
  BY <1>1, <1>2, <1>3, DocumentShown
<1>6. current' \in Tools
  BY <1>1, <1>2, NoToolIsNone DEF Usable
<1>7. Configurable \subseteq Tools /\ {NoSettings, "default"} \subseteq Carried /\ "default" # NoSettings
  BY WorkspaceAssumption DEF Carried, NoSettings
<1>8. d.settings \in [Configurable -> Carried]
  BY <1>1 DEF Usable
<1>9. settings' \in [Configurable -> Carried]
  BY <1>2, <1>7, <1>8 DEF PreparedSettings, ShellInv, Belongings
<1>10. \A t \in Configurable : placed'[t] # "closed" => settings'[t] # NoSettings
  BY <1>2, <1>7, <1>8 DEF PreparedSettings, ShellInv, Belongings
<1>. QED
  BY <1>4, <1>5, <1>6, <1>9, <1>10 DEF ShellInv, Belongings

\* A start with a document, or without one.
LEMMA Starting ==
  ASSUME ShellInit
  PROVE  ShellInv
<1>1. PICK d \in SavedDocuments :
        LET start == Normalized(d)
        IN /\ tree = Rebuilt(start.root)
           /\ placed = PlannedPresentation(start)
           /\ settings = [t \in Configurable |->
                            IF start.settings[t] = NoSettings /\ placed[t] # "closed"
                            THEN "default" ELSE start.settings[t]]
           /\ current = start.focus
  BY DEF ShellInit
<1> DEFINE start == Normalized(d)
<1>2. PICK s : Usable(start, s) /\ IsInjective(s \o start.floating)
  BY NormalizedIsUsable
<1>. HIDE DEF start
<1>3. IsInjective(s)
  BY <1>2, LaidInForest, Concatenated DEF Usable
<1>4. Docking
  BY <1>1, <1>2, <1>3, DocumentShown DEF Docking, start
<1>5. placed \in [Tools -> Presentations]
  BY <1>1, <1>2, <1>3, DocumentShown DEF start
<1>6. Configurable \subseteq Tools /\ "default" \in Carried /\ "default" # NoSettings
  BY WorkspaceAssumption DEF Carried, NoSettings
<1>7. /\ start.settings \in [Configurable -> Carried] /\ start.focus \in Tools
  BY <1>2 DEF Usable
<1>8. /\ settings = [t \in Configurable |->
                       IF start.settings[t] = NoSettings /\ placed[t] # "closed"
                       THEN "default" ELSE start.settings[t]]
      /\ current = start.focus
  BY <1>1 DEF start
<1>9. Belongings
  BY <1>5, <1>6, <1>7, <1>8 DEF Belongings
<1>. QED
  BY <1>4, <1>9 DEF ShellInv

\* Every step keeps the invariant and moves at most one tool, unless it lays out anew.
LEMMA ShellStep ==
  ASSUME ShellInv, [ShellNext]_shell
  PROVE  /\ ShellInv'
         /\ ToolsKept \/ (\E t \in Tools : OneMoved(t)) \/ Moves \/ UNCHANGED shell
<1>1. ASSUME NEW t \in Tools, NEW p \in {"docked", "floating"}, PresentTool(t, p)
      PROVE  ShellInv' /\ OneMoved(t)
  BY <1>1, Presenting
<1>2. ASSUME NEW t \in Tools, FocusTool(t)
      PROVE  ShellInv' /\ ToolsKept
  <2>1. UNCHANGED <<tree, placed, settings>> /\ current' = t
    BY <1>2 DEF FocusTool
  <2>2. Docking' /\ ToolsKept
    BY <2>1, Staying
  <2>. QED
    BY <2>1, <2>2 DEF ShellInv, Belongings
<1>3. ASSUME NEW t \in Tools, CloseTool(t)
      PROVE  ShellInv' /\ OneMoved(t)
  BY <1>3, Closing
<1>4. ASSUME NEW t \in Tools, SelectTab(t)
      PROVE  ShellInv' /\ ToolsKept
  BY <1>4, Selecting
<1>5. ASSUME NEW t \in Tools, ChangeSettings(t)
      PROVE  ShellInv' /\ ToolsKept
  <2>1. UNCHANGED <<tree, placed, current>> /\ settings' = [settings EXCEPT ![t] = "changed"]
    BY <1>5 DEF ChangeSettings
  <2>2. Docking' /\ ToolsKept
    BY <2>1, Staying
  <2>3. "changed" \in Carried /\ "changed" # NoSettings
    BY DEF Carried, NoSettings
  <2>. QED
    BY <2>1, <2>2, <2>3 DEF ShellInv, Belongings
<1>6. ASSUME NEW t \in Tools, DropFloating(t)
      PROVE  ShellInv' /\ OneMoved(t)
  BY <1>6, DroppingFloat
<1>7. ASSUME NEW t \in Tools, NEW target, NEW zone, DropDocked(t, target, zone)
      PROVE  ShellInv' /\ OneMoved(t)
  BY <1>7, DroppingDocked
<1>8. ASSUME NEW layout, SetWorkspaceLayout(layout)
      PROVE  ShellInv' /\ ToolsKept
  BY <1>8, Arranging
<1>9. ASSUME NEW n \in SplitsOf(tree), NEW stop \in DividerStops, DragDivider(n, stop)
      PROVE  ShellInv' /\ ToolsKept
  BY <1>9, Dragging
<1>10. ASSUME ResetCurrentTool
       PROVE  ShellInv' /\ ToolsKept
  <2>1. UNCHANGED <<tree, placed, current>> /\ settings' = [settings EXCEPT ![current] = "default"]
    BY <1>10 DEF ResetCurrentTool
  <2>2. Docking' /\ ToolsKept
    BY <2>1, Staying
  <2>3. "default" \in Carried /\ "default" # NoSettings
    BY DEF Carried, NoSettings
  <2>. QED
    BY <2>1, <2>2, <2>3 DEF ShellInv, Belongings
<1>11. ASSUME NEW d \in BuiltIns, ApplyWorkspace(d)
       PROVE  ShellInv' /\ Moves
  BY <1>11, Applying DEF Moves
<1>12. ASSUME UNCHANGED shell
       PROVE  ShellInv'
  BY <1>12, Staying DEF ShellInv, Belongings, shell
<1>. QED
  BY <1>1, <1>2, <1>3, <1>4, <1>5, <1>6, <1>7, <1>8, <1>9, <1>10, <1>11, <1>12 DEF ShellNext

-----------------------------------------------------------------------------
(* Capturing: the floating tools, in the order of the registry.             *)

Gathered(tools, t) == IF placed[t] = "floating" THEN Append(tools, t) ELSE tools
Float(ids, base) ==
  FoldLeft(LAMBDA tools, t : IF placed[t] = "floating" THEN Append(tools, t) ELSE tools,
           base, ids)

Gathering(g, base, ids, n) ==
  g = [s \in SUBSET (1..n) |->
         IF s = {} THEN base ELSE Gathered(g[s \ {Max(s)}], ids[Max(s)])]

\* The fold over the registry, as a recursion over the numbers of its tools.
LEMMA GatheringExists ==
  ASSUME NEW base, NEW ids
  PROVE  \A n \in Nat : \E g : Gathering(g, base, ids, n)
<1> DEFINE S == {n \in Nat : \E g : Gathering(g, base, ids, n)}
           Value(g, s) == IF s = {} THEN base ELSE Gathered(g[s \ {Max(s)}], ids[Max(s)])
<1>1. 0 \in S
  <2>1. Gathering([s \in SUBSET (1..0) |-> base], base, ids, 0)
    BY DEF Gathering
  <2>. QED
    BY <2>1
<1>2. ASSUME NEW n \in Nat, n \in S PROVE n + 1 \in S
  <2>1. PICK f : Gathering(f, base, ids, n)
    BY <1>2
  <2> DEFINE g == [s \in SUBSET (1..(n + 1)) |->
                     IF n + 1 \in s THEN Gathered(f[s \ {n + 1}], ids[n + 1]) ELSE f[s]]
  <2>2. \A s \in SUBSET (1..n) : f[s] = Value(f, s)
    BY <2>1 DEF Gathering
  <2>3. \A s \in SUBSET (1..(n + 1)) :
          /\ n + 1 \notin s => s \in SUBSET (1..n)
          /\ s \ {n + 1} \in SUBSET (1..n)
    OBVIOUS
  <2>4. \A s \in SUBSET (1..n) : s \in SUBSET (1..(n + 1)) /\ n + 1 \notin s /\ g[s] = f[s]
    OBVIOUS
  <2>. HIDE DEF Value
  <2>5. ASSUME NEW s \in SUBSET (1..(n + 1)) PROVE g[s] = Value(g, s)
    <3>1. CASE n + 1 \in s
      <4>1. Max(s) = n + 1
        BY <3>1, GreatestNumber
      <4>2. g[s] = Gathered(f[s \ {n + 1}], ids[n + 1])
        BY <3>1
      <4>3. g[s \ {n + 1}] = f[s \ {n + 1}]
        BY <2>3, <2>4
      <4>. HIDE DEF g
      <4>. QED
        BY <3>1, <4>1, <4>2, <4>3 DEF Value
    <3>2. CASE n + 1 \notin s
      <4>1. s \in SUBSET (1..n) /\ g[s] = f[s] /\ f[s] = Value(f, s)
        BY <2>2, <2>3, <2>4, <3>2
      <4>2. s # {} => Max(s) \in s
        BY <4>1, GreatestNumber
      <4>3. s \ {Max(s)} \in SUBSET (1..n)
        BY <4>1
      <4>4. g[s \ {Max(s)}] = f[s \ {Max(s)}]
        BY <2>4, <4>3
      <4>. HIDE DEF g
      <4>. QED
        BY <4>1, <4>4 DEF Value
    <3>. QED
      BY <3>1, <3>2
  <2>6. g = [s \in SUBSET (1..(n + 1)) |-> Value(g, s)]
    BY <2>5
  <2>7. Gathering(g, base, ids, n + 1)
    BY <2>6 DEF Gathering, Value
  <2>. QED
    BY <2>7
<1>. HIDE DEF S
<1>3. Nat \subseteq S
  BY <1>1, <1>2, Induction
<1>. QED
  BY <1>3 DEF S

\* They are gathered tool by tool.
GatheredBy(f, ids, base, n) ==
  /\ f[0] = base
  /\ \A i \in 0..(n - 1) : f[i + 1] = Gathered(f[i], ids[i + 1])
  /\ Float(ids, base) = f[n]

\* Gathering the floating tools one by one.
LEMMA FloatingOneByOne ==
  ASSUME NEW n \in Nat, NEW ids, DOMAIN ids = 1..n, NEW base
  PROVE  \E f : GatheredBy(f, ids, base, n)
<1>1. PICK g : /\ Gathering(g, base, ids, n)
               /\ Float(ids, base) = g[1..n]
  <2>1. \E h : Gathering(h, base, ids, n)
    BY GatheringExists
  <2>. QED
    BY <2>1 DEF Gathering, Float, Gathered, FoldLeft, MapThenFoldSet
<1> DEFINE f == [i \in 0..n |-> g[1..i]]
<1>2. f[0] = base
  <2>1. {} \in SUBSET (1..n) /\ 1..0 = {}
    OBVIOUS
  <2>. QED
    BY <1>1, <2>1 DEF Gathering
<1>3. ASSUME NEW i \in 0..(n - 1) PROVE f[i + 1] = Gathered(f[i], ids[i + 1])
  <2>1. /\ i \in Nat /\ 1..(i + 1) \in SUBSET (1..n) /\ 1..(i + 1) # {}
        /\ (1..(i + 1)) \ {i + 1} = 1..i
        /\ i \in 0..n /\ i + 1 \in 0..n
    OBVIOUS
  <2>2. Max(1..(i + 1)) = i + 1
    BY <2>1, GreatestNumber
  <2>3. g[1..(i + 1)] = Gathered(g[1..i], ids[i + 1])
    BY <1>1, <2>1, <2>2 DEF Gathering
  <2>. QED
    BY <2>1, <2>3
<1>4. f[n] = g[1..n]
  OBVIOUS
<1>. HIDE DEF f
<1>5. GatheredBy(f, ids, base, n)
  BY <1>1, <1>2, <1>3, <1>4 DEF GatheredBy
<1>. QED
  BY <1>5

\* The floating tools, each once, in the order of the registry.
LEMMA FloatingIs ==
  /\ Floating \in Seq(Tools) /\ IsInjective(Floating)
  /\ Members(Floating) = {t \in Tools : placed[t] = "floating"}
<1> DEFINE n == Len(Registry)
           Fl(k) == {Registry[i] : i \in {i \in 1..k : placed[Registry[i]] = "floating"}}
           Are(w, k) == w \in Seq(Tools) /\ IsInjective(w) /\ Members(w) = Fl(k)
<1>0. /\ Registry \in Seq(Tools) /\ IsInjective(Registry) /\ n \in Nat /\ DOMAIN Registry = 1..n
      /\ \A i \in 1..n : Registry[i] \in Tools
  BY LenProperties, ElementOfSeq, WorkspaceAssumption
<1>p. PICK f : GatheredBy(f, Registry, <<>>, n)
  BY <1>0, FloatingOneByOne
<1>1. /\ f[0] = <<>>
      /\ \A i \in 0..(n - 1) : f[i + 1] = Gathered(f[i], Registry[i + 1])
      /\ Float(Registry, <<>>) = f[n]
  BY <1>p DEF GatheredBy
<1> DEFINE Q == {k \in Nat : k <= n => Are(f[k], k)}
<1>2. 0 \in Q
  <2>1. <<>> \in Seq(Tools) /\ Fl(0) = {}
    OBVIOUS
  <2>2. Are(<<>>, 0)
    BY <2>1, ShortLists
  <2>. HIDE DEF Are
  <2>. QED
    BY <1>1, <2>2
<1>3. ASSUME NEW k \in Nat, k \in Q PROVE k + 1 \in Q
  <2>. SUFFICES ASSUME k + 1 <= n PROVE Are(f[k + 1], k + 1)
    OBVIOUS
  <2> DEFINE w == f[k]
             t == Registry[k + 1]
  <2>1. k \in 0..(n - 1) /\ k + 1 \in 1..n
    BY <1>0
  <2>2. Are(w, k)
    BY <1>0, <1>3
  <2>3. t \in Tools /\ f[k + 1] = Gathered(w, t)
    BY <1>0, <1>1, <2>1
  <2>4. t \notin Fl(k)
    <3>1. \A i \in 1..k : i \in DOMAIN Registry /\ k + 1 \in DOMAIN Registry /\ i # k + 1
      BY <1>0, <2>1
    <3>. QED
      BY <1>0, <3>1 DEF IsInjective
  <2>5. \A i : i \in 1..(k + 1) <=> i \in 1..k \/ i = k + 1
    OBVIOUS
  <2>6. CASE placed[t] = "floating"
    <3>1. f[k + 1] = Append(w, t)
      BY <2>3, <2>6 DEF Gathered
    <3>2. Fl(k + 1) = Fl(k) \cup {t}
      BY <2>5, <2>6
    <3>. HIDE DEF w, t, Fl
    <3>3. w \in Seq(Tools) /\ <<t>> \in Seq(Tools) /\ Append(w, t) = w \o <<t>>
      BY <2>2, <2>3
    <3>4. IsInjective(w) /\ IsInjective(<<t>>) /\ Members(<<t>>) = {t} /\ Members(w) = Fl(k)
      BY <2>2, ShortLists
    <3>5. /\ w \o <<t>> \in Seq(Tools) /\ IsInjective(w \o <<t>>)
          /\ Members(w \o <<t>>) = Members(w) \cup Members(<<t>>)
      <4>1. Members(w) \cap Members(<<t>>) = {}
        BY <2>4, <3>4
      <4>. QED
        BY <3>3, <3>4, <4>1, Concatenated
    <3>. QED
      BY <3>1, <3>2, <3>3, <3>4, <3>5
  <2>7. CASE placed[t] # "floating"
    <3>1. f[k + 1] = w
      BY <2>3, <2>7 DEF Gathered
    <3>2. Fl(k + 1) = Fl(k)
      BY <2>5, <2>7
    <3>. HIDE DEF w, t, Fl
    <3>. QED
      BY <2>2, <3>1, <3>2
  <2>. QED
    BY <2>6, <2>7
<1>. HIDE DEF Q
<1>4. Nat \subseteq Q
  BY <1>2, <1>3, Induction
<1>5. Are(f[n], n)
  <2>1. n \in Q /\ n \in Nat
    BY <1>0, <1>4
  <2>. HIDE DEF Are, n
  <2>. QED
    BY <2>1 DEF Q
<1>6. Fl(n) = {t \in Tools : placed[t] = "floating"}
  BY <1>0 DEF Tools
<1>7. Floating = f[n]
  BY <1>1 DEF Floating, Float
<1>. QED
  BY <1>5, <1>6, <1>7

\* A list of tools that were not taken yet is taken as it is.
LEMMA TakenAsTheyAre ==
  ASSUME NEW order \in Seq(Tools), NEW ids \in Seq(Tools),
         IsInjective(order \o ids)
  PROVE  Taken(ids, order) = order \o ids
<1> DEFINE n == Len(ids)
           m == Len(order)
           all == order \o ids
           Upto(k) == SubSeq(all, 1, m + k)
<1>1. /\ all \in Seq(Tools) /\ m \in Nat /\ n \in Nat /\ Len(all) = m + n
      /\ \A i \in 1..m : all[i] = order[i]
      /\ \A i \in 1..n : all[m + i] = ids[i]
  BY Concatenated
<1>2. DOMAIN ids = 1..n /\ DOMAIN all = 1..(m + n) /\ \A i \in 1..(m + n) : all[i] \in Tools
  BY <1>1, LenProperties, ElementOfSeq
<1>i. \A i, j \in 1..(m + n) : all[i] = all[j] => i = j
  BY <1>2 DEF IsInjective
<1>n. n \in Nat /\ m \in Nat /\ DOMAIN ids = 1..n
  BY <1>1, <1>2
<1>. HIDE DEF all, m, n
<1>p. PICK f : TakenBy(f, ids, order, n)
  BY <1>n, TakenOneByOne
<1>3. /\ f[0] = order
      /\ \A i \in 0..(n - 1) : f[i + 1] = Took(f[i], ids[i + 1])
      /\ Taken(ids, order) = f[n]
  BY <1>p DEF TakenBy
<1>4. \A k \in 0..n : /\ Upto(k) \in Seq(Tools) /\ Len(Upto(k)) = m + k
                      /\ \A i \in 1..(m + k) : Upto(k)[i] = all[i]
  <2>. SUFFICES ASSUME NEW k \in 0..n
                PROVE  /\ Upto(k) \in Seq(Tools) /\ Len(Upto(k)) = m + k
                       /\ \A i \in 1..(m + k) : Upto(k)[i] = all[i]
    OBVIOUS
  <2>1. m + k \in Nat /\ m + k <= Len(all) /\ \A i \in 1..(m + k) : all[i] \in Tools
    BY <1>1, <1>2
  <2>. QED
    BY <1>1, <2>1, SubSeqProperties
<1> DEFINE Q == {k \in Nat : k <= n => f[k] = Upto(k)}
<1>5. 0 \in Q
  <2>1. 0 \in 0..n /\ m + 0 = m
    BY <1>1
  <2>2. /\ Upto(0) \in Seq(Tools) /\ Len(Upto(0)) = m
        /\ \A i \in 1..m : Upto(0)[i] = all[i]
    BY <1>4, <2>1
  <2>. HIDE DEF Upto
  <2>3. Upto(0) = order
    BY <1>1, <2>2, SeqEqual DEF m
  <2>. QED
    BY <1>3, <2>3
<1>6. ASSUME NEW k \in Nat, k \in Q PROVE k + 1 \in Q
  <2>. SUFFICES ASSUME k + 1 <= n PROVE f[k + 1] = Upto(k + 1)
    OBVIOUS
  <2> DEFINE t == ids[k + 1]
             w == Upto(k)
             v == Upto(k + 1)
  <2>1. k \in 0..(n - 1) /\ k \in 0..n /\ k + 1 \in 0..n /\ k + 1 \in 1..n /\ m + (k + 1) \in 1..(m + n)
    BY <1>1
  <2>2. /\ w \in Seq(Tools) /\ Len(w) = m + k /\ \A i \in 1..(m + k) : w[i] = all[i]
        /\ v \in Seq(Tools) /\ Len(v) = m + (k + 1)
        /\ \A i \in 1..(m + (k + 1)) : v[i] = all[i]
    BY <1>4, <2>1
  <2>3. t = all[m + (k + 1)] /\ t \in Tools
    BY <1>1, <1>2, <2>1
  <2>4. f[k + 1] = Took(w, t)
    <3>1. f[k + 1] = Took(f[k], t)
      BY <1>3, <2>1
    <3>2. f[k] = w
      BY <1>6, <2>1
    <3>. HIDE DEF w, t
    <3>. QED
      BY <3>1, <3>2
  <2>. HIDE DEF w, v, t
  <2>5. ~Contains(w, t)
    <3>. SUFFICES ASSUME NEW i \in 1..Len(w), w[i] = t PROVE FALSE
      BY DEF Contains
    <3>1. i \in 1..(m + k) /\ i \in 1..(m + n) /\ i # m + (k + 1)
      BY <1>1, <2>1, <2>2
    <3>2. all[i] = all[m + (k + 1)]
      BY <2>2, <2>3, <3>1
    <3>. QED
      BY <1>i, <2>1, <3>1, <3>2
  <2>6. Took(w, t) = Append(w, t)
    <3>1. Resolve(t) = t /\ t # NoTool
      BY <2>3, NoToolIsNone DEF Resolve
    <3>. QED
      BY <2>5, <3>1 DEF Took
  <2>7. Append(w, t) = v
    <3> DEFINE u == Append(w, t)
    <3>1. /\ u \in Seq(Tools) /\ Len(u) = m + k + 1
          /\ \A i \in 1..(m + k) : u[i] = w[i]
          /\ u[m + k + 1] = t
      BY <1>1, <2>2, <2>3, AppendProperties
    <3>. HIDE DEF u
    <3>2. \A i \in 1..Len(v) : u[i] = v[i]
      <4>. SUFFICES ASSUME NEW i \in 1..(m + (k + 1)) PROVE u[i] = v[i]
        BY <2>2
      <4>1. i \in 1..(m + k) \/ i = m + (k + 1)
        BY <1>n
      <4>2. m + (k + 1) = m + k + 1
        BY <1>1
      <4>. QED
        BY <2>2, <2>3, <3>1, <4>1, <4>2
    <3>3. Len(u) = Len(v)
      BY <1>1, <2>2, <3>1
    <3>. QED
      BY <2>2, <3>1, <3>2, <3>3, SeqEqual DEF u
  <2>. QED
    BY <2>4, <2>6, <2>7 DEF v
<1>. HIDE DEF Q
<1>7. Nat \subseteq Q
  BY <1>5, <1>6, Induction
<1>8. f[n] = Upto(n)
  BY <1>1, <1>7 DEF Q
<1>9. Upto(n) = all
  <2>1. n \in 0..n
    BY <1>1
  <2>2. Upto(n) \in Seq(Tools) /\ Len(Upto(n)) = m + n /\ \A i \in 1..(m + n) : Upto(n)[i] = all[i]
    BY <1>4, <2>1
  <2>. HIDE DEF Upto
  <2>. QED
    BY <1>1, <2>2, SeqEqual
<1>. QED
  BY <1>3, <1>8, <1>9 DEF all

(* A captured tree, and what a start makes of it.                           *)

BarePanes == {p \in HeldPanes : p.bar = <<>>}

\* Taking the strips off leaves the tools where they are.
LEMMA BareListed ==
  \A n, s : <<n, s>> \in Listed(ShownPanes) /\ n \in Trees
    => <<Bare(n), s>> \in Listed(BarePanes)
<1> DEFINE C == {x \in Listed(ShownPanes) : x[1] \in Trees
                   => <<Bare(x[1]), x[2]>> \in Listed(BarePanes)}
<1>0. /\ Closed(Listed(ShownPanes), ShownPanes) /\ Closed(Listed(BarePanes), BarePanes)
      /\ MaxNesting \in Nat /\ ShownPanes \in SUBSET HeldPanes
  BY ListedClosed, HeldPanesAre DEF BarePanes
<1>s. \A n \in Trees :
        /\ n.split => Bare(n) = SplitOf(n, Bare(n.first), Bare(n.second))
        /\ ~n.split => Bare(n) = [n EXCEPT !.bar = <<>>]
  BY <1>0, BareIs
<1>1. ASSUME NEW p \in ShownPanes PROVE <<p, p.tools>> \in C
  <2>1. <<p, p.tools>> \in Listed(ShownPanes) /\ ~p.split /\ p \in HeldPanes
    BY <1>0, HeldPanesAre DEF Closed
  <2>2. p \in Trees => Bare(p) = Stripped(p)
    BY <1>s, <2>1 DEF Stripped
  <2>3. Stripped(p) \in HeldPanes /\ Stripped(p).tools = p.tools
    BY <2>1, PaneStripped
  <2>4. Stripped(p).bar = <<>>
    <3>1. p \in [split : {FALSE}, tools : Seq(Tools), active : Tools, bar : Seq(Tools)]
      BY <2>1 DEF HeldPanes
    <3>. QED
      BY <3>1 DEF Stripped
  <2>5. Stripped(p) \in BarePanes
    BY <2>3, <2>4 DEF BarePanes
  <2>6. <<Stripped(p), p.tools>> \in Listed(BarePanes)
    BY <1>0, <2>3, <2>5 DEF Closed
  <2>. QED
    BY <2>1, <2>2, <2>6
<1>2. ASSUME NEW v \in BOOLEAN, NEW r \in 10..90, NEW a, NEW b, NEW p, NEW q,
             <<a, p>> \in C, <<b, q>> \in C
      PROVE  <<SplitNode(v, r, a, b), p \o q>> \in C
  <2> DEFINE n == SplitNode(v, r, a, b)
             A == Bare(a)
             B == Bare(b)
  <2>1. <<n, p \o q>> \in Listed(ShownPanes)
    BY <1>0, <1>2 DEF Closed
  <2>2. ASSUME n \in Trees PROVE <<Bare(n), p \o q>> \in Listed(BarePanes)
    <3>1. /\ n.split /\ n.first = a /\ n.second = b /\ n.vertical = v /\ n.ratio = r
          /\ a \in Trees /\ b \in Trees
      BY <2>2, SplitIs
    <3>2. Bare(n) = SplitNode(v, r, A, B)
      BY <1>s, <2>2, <3>1 DEF SplitOf
    <3>3. <<A, p>> \in Listed(BarePanes) /\ <<B, q>> \in Listed(BarePanes)
      BY <1>2, <3>1
    <3>. HIDE DEF n, A, B
    <3>. QED
      BY <1>0, <3>2, <3>3 DEF Closed
  <2>. HIDE DEF n
  <2>. QED
    BY <2>1, <2>2 DEF n
<1>. HIDE DEF C
<1>3. Listed(ShownPanes) \subseteq C
  BY <1>0, <1>1, <1>2, ListedInduction
<1>. QED
  BY <1>3 DEF C

\* Strips taken off and built again are what they were.
LEMMA BareShownAgain ==
  \A n, s : <<n, s>> \in Listed(ShownPanes) /\ n \in Trees /\ Bare(n) \in Trees
    => Rebuilt(Bare(n)) = n
<1> DEFINE C == {x \in Listed(ShownPanes) : x[1] \in Trees /\ Bare(x[1]) \in Trees
                   => Rebuilt(Bare(x[1])) = x[1]}
<1>0. /\ Closed(Listed(ShownPanes), ShownPanes)
      /\ MaxNesting \in Nat /\ ShownPanes \in SUBSET HeldPanes
  BY ListedClosed, HeldPanesAre
<1>s. \A n \in Trees :
        /\ n.split => Bare(n) = SplitOf(n, Bare(n.first), Bare(n.second))
        /\ ~n.split => Bare(n) = [n EXCEPT !.bar = <<>>]
  BY <1>0, BareIs
<1>r. \A n \in Trees :
        /\ n.split => Rebuilt(n) = SplitOf(n, Rebuilt(n.first), Rebuilt(n.second))
        /\ ~n.split => Rebuilt(n) = IF n = NoTree THEN n ELSE Reshown(n)
  BY <1>0, RebuiltIs
<1>1. ASSUME NEW p \in ShownPanes PROVE <<p, p.tools>> \in C
  <2>1. <<p, p.tools>> \in Listed(ShownPanes) /\ ~p.split /\ p \in HeldPanes
    BY <1>0, HeldPanesAre DEF Closed
  <2> DEFINE q == Stripped(p)
  <2>2. p \in Trees => Bare(p) = q
    BY <1>s, <2>1 DEF Stripped
  <2>3. q \in HeldPanes /\ q.tools = p.tools
    BY <2>1, PaneStripped
  <2>4. q.bar = <<>> /\ q.active = p.active
    <3>1. p \in [split : {FALSE}, tools : Seq(Tools), active : Tools, bar : Seq(Tools)]
      BY <2>1 DEF HeldPanes
    <3>. QED
      BY <3>1 DEF Stripped
  <2>. HIDE DEF q
  <2>5. q \in Trees => Rebuilt(q) = Reshown(q)
    BY <1>r, <2>3, HeldPanesAre
  <2>6. Reshown(q) = p
    <3> DEFINE r == SelectInSeq(q.bar, LAMBDA t : HasTool(q, t))
               I == {i \in 1..Len(q.bar) : HasTool(q, q.bar[i])}
               u == Activated(q, p.active, Before(p.tools, p.active))
    <3>1. I = {}
      BY <2>4, ShortLists
    <3>2. r = 0
      BY <3>1 DEF SelectInSeq
    <3>. HIDE DEF r
    <3>3. Reshown(q) = SelectedIn(q, q.active)
      BY <3>2 DEF Reshown, r
    <3>4. SelectedIn(q, q.active) = u
      BY <2>3, <2>4 DEF SelectedIn, Activated
    <3>5. Before(p.tools, p.active) = p.bar
      BY DEF ShownPanes
    <3>6. p.active \in Tools /\ p.bar \in Seq(Tools) /\ p.active \in Members(q.tools)
      BY <2>1, <2>3, HeldPanesAre
    <3>7. u \in HeldPanes /\ u.tools = p.tools /\ u.active = p.active /\ u.bar = p.bar
      BY <2>3, <3>5, <3>6, PaneActivated
    <3>. HIDE DEF u
    <3>8. /\ u = [split |-> FALSE, tools |-> u.tools, active |-> u.active, bar |-> u.bar]
          /\ p = [split |-> FALSE, tools |-> p.tools, active |-> p.active, bar |-> p.bar]
      BY <2>1, <3>7, HeldPanesAre
    <3>9. u = p
      BY <3>7, <3>8
    <3>. QED
      BY <3>3, <3>4, <3>9
  <2>. QED
    BY <2>1, <2>2, <2>5, <2>6
<1>2. ASSUME NEW v \in BOOLEAN, NEW r \in 10..90, NEW a, NEW b, NEW p, NEW q,
             <<a, p>> \in C, <<b, q>> \in C
      PROVE  <<SplitNode(v, r, a, b), p \o q>> \in C
  <2> DEFINE n == SplitNode(v, r, a, b)
             A == Bare(a)
             B == Bare(b)
             m == SplitNode(v, r, A, B)
  <2>1. <<n, p \o q>> \in Listed(ShownPanes)
    BY <1>0, <1>2 DEF Closed
  <2>2. ASSUME n \in Trees, Bare(n) \in Trees PROVE Rebuilt(Bare(n)) = n
    <3>1. /\ n.split /\ n.first = a /\ n.second = b /\ n.vertical = v /\ n.ratio = r
          /\ a \in Trees /\ b \in Trees
      BY <2>2, SplitIs
    <3>2. Bare(n) = m
      BY <1>s, <2>2, <3>1 DEF SplitOf
    <3>3. /\ m.split /\ m.first = A /\ m.second = B /\ m.vertical = v /\ m.ratio = r
          /\ A \in Trees /\ B \in Trees
      BY <2>2, <3>2, SplitIs
    <3>4. Rebuilt(A) = a /\ Rebuilt(B) = b
      BY <1>2, <3>1, <3>3
    <3>5. Rebuilt(m) = SplitNode(v, r, Rebuilt(A), Rebuilt(B))
      BY <1>r, <2>2, <3>2, <3>3 DEF SplitOf
    <3>. HIDE DEF m, A, B
    <3>. QED
      BY <3>2, <3>4, <3>5
  <2>. HIDE DEF n
  <2>. QED
    BY <2>1, <2>2 DEF n
<1>. HIDE DEF C
<1>3. Listed(ShownPanes) \subseteq C
  BY <1>0, <1>1, <1>2, ListedInduction
<1>. QED
  BY <1>3 DEF C

\* A bare tree that is not too deep is normal as it is.
LEMMA NormalPaneKept ==
  ASSUME NEW p \in BarePanes, NEW depth \in Nat, depth <= MaximumDockDepth,
         NEW order \in Seq(Tools), IsInjective(order \o p.tools)
  PROVE  PaneAt(p, depth, order) = Placing(p, Cat(order, p.tools))
<1>0. /\ p = [split |-> FALSE, tools |-> p.tools, active |-> p.active, bar |-> <<>>]
      /\ p.tools \in Seq(Tools) /\ p.tools # <<>> /\ p.active \in Tools
      /\ p.active \in Members(p.tools)
  BY HeldPanesAre DEF BarePanes
<1> DEFINE next == Taken(p.tools, order)
           s == SubSeq(next, Len(order) + 1, Len(next))
<1>1. next = Cat(order, p.tools)
  BY <1>0, TakenAsTheyAre DEF Cat
<1>2. PaneAt(p, depth, order) = Placing(NormalPane(s, p.active), next)
  <2>1. ~(depth > MaximumDockDepth)
    BY WorkspaceAssumption
  <2>. QED
    BY <2>1 DEF PaneAt
<1>. HIDE DEF next
<1>3. s = p.tools
  BY <1>0, <1>1, TheRest
<1>. HIDE DEF s
<1>4. NormalPane(p.tools, p.active) = Pane(p.tools, p.active)
  <2>1. Resolve(p.active) = p.active
    BY <1>0 DEF Resolve
  <2>2. Contains(p.tools, p.active)
    BY <1>0 DEF Contains, Members
  <2>. QED
    BY <1>0, <2>1, <2>2 DEF NormalPane
<1>5. Pane(p.tools, p.active) = p
  BY <1>0 DEF Pane
<1>. QED
  BY <1>1, <1>2, <1>3, <1>4, <1>5

NormalAlready(n, s) ==
  \A depth \in Nat, order \in Seq(Tools) :
    depth + Len(s) <= MaximumDockDepth + 1 /\ IsInjective(Cat(order, s)) =>
      NormalNode(n)[<<depth, order>>] = Placing(n, Cat(order, s))

\* So is a captured split of two such trees.
LEMMA NormalSplitKept ==
  ASSUME NEW v \in BOOLEAN, NEW r \in 10..90,
         NEW a, NEW p, <<a, p>> \in Listed(HeldPanes), NormalAlready(a, p),
         NEW b, NEW q, <<b, q>> \in Listed(HeldPanes), NormalAlready(b, q),
         SplitNode(v, r, a, b) \in Trees
  PROVE  NormalAlready(SplitNode(v, r, a, b), Cat(p, q))
<1> DEFINE n == SplitNode(v, r, a, b)
<1>. SUFFICES ASSUME NEW depth \in Nat, NEW order \in Seq(Tools),
                     depth + Len(Cat(p, q)) <= MaximumDockDepth + 1,
                     IsInjective(Cat(order, Cat(p, q)))
              PROVE  NormalNode(n)[<<depth, order>>] = Placing(n, Cat(order, Cat(p, q)))
  BY DEF NormalAlready
<1>1. /\ p \in Seq(Tools) /\ Len(p) \in Nat \ {0} /\ a # NoTree
      /\ q \in Seq(Tools) /\ Len(q) \in Nat \ {0} /\ b # NoTree
  BY ListedIsSmall, EmptySeq, LenProperties
<1>2. Len(Cat(p, q)) = Len(p) + Len(q) /\ MaximumDockDepth \in Nat
  BY <1>1, Concatenated, WorkspaceAssumption DEF Cat
<1>3. /\ n.split /\ n.first = a /\ n.second = b /\ n.vertical = v /\ n.ratio = r
  BY SplitIs
<1>n. n \in Trees
  OBVIOUS
<1> DEFINE x == NormalNode(a)[<<depth + 1, order>>]
           o == Cat(order, p)
           y == NormalNode(b)[<<depth + 1, o>>]
<1>4. /\ o \in Seq(Tools) /\ Cat(o, q) = Cat(order, Cat(p, q))
  BY <1>1, Regrouped
<1>5. IsInjective(Cat(order, p)) /\ IsInjective(Cat(o, q))
  <2>1. IsInjective(Cat(o, q))
    BY <1>4
  <2>. HIDE DEF o
  <2>2. IsInjective(o)
    BY <1>1, <1>4, <2>1, Concatenated DEF Cat
  <2>. QED
    BY <2>1, <2>2 DEF o
<1>6. depth + 1 + Len(p) <= MaximumDockDepth + 1 /\ depth + 1 + Len(q) <= MaximumDockDepth + 1
      /\ depth + 1 \in Nat /\ ~(depth > MaximumDockDepth)
  BY <1>1, <1>2
<1>7. x = Placing(a, o)
  BY <1>1, <1>5, <1>6 DEF NormalAlready
<1>. HIDE DEF o, x
<1>8. y = Placing(b, Cat(o, q))
  BY <1>4, <1>5, <1>6 DEF NormalAlready
<1>9. NormalNode(n)[<<depth, order>>] = SplitAt(n, NormalNode(a), NormalNode(b), depth, order)
  <2>1. NormalNode(n) = SplitsAt(n, NormalNode(a), NormalNode(b))
    BY <1>3, <1>n, HeldPanesAre, NormalNodeIs
  <2> DEFINE at == <<depth, order>>
  <2>2. at \in Nat \X Seq(Tools) /\ at[1] = depth /\ at[2] = order
    OBVIOUS
  <2>. HIDE DEF at, n
  <2>3. SplitsAt(n, NormalNode(a), NormalNode(b))[at] = SplitAt(n, NormalNode(a), NormalNode(b), at[1], at[2])
    BY <2>2 DEF SplitsAt
  <2>. QED
    BY <2>1, <2>2, <2>3 DEF at
<1>. HIDE DEF y
<1> DEFINE m == WithRatio(n, Clamped(n.ratio))
<1>10. SplitAt(n, NormalNode(a), NormalNode(b), depth, order) = Placing(Joined(m, x.node, y.node), y.order)
  <2>1. x.order = o
    BY <1>7 DEF Placing
  <2>2. y = NormalNode(b)[<<depth + 1, x.order>>]
    BY <2>1 DEF y
  <2>3. x = NormalNode(a)[<<depth + 1, order>>]
    BY DEF x
  <2>. HIDE DEF n
  <2>. QED
    BY <1>6, <2>2, <2>3 DEF SplitAt, WithRatio
<1>11. m = n
  <2>1. Clamped(r) = r
    BY DEF Clamped
  <2>2. r \in Int /\ n = SplitNode(v, r, a, b)
    OBVIOUS
  <2>3. WithRatio(n, r) = SplitNode(v, r, a, b)
    <3>. HIDE DEF n
    <3>. QED
      BY <2>2, OtherRatio
  <2>. QED
    BY <1>3, <2>1, <2>2, <2>3
<1>. HIDE DEF m
<1>12. Joined(m, a, b) = n
  BY <1>1, <1>3, <1>11 DEF Joined, SplitOf
<1>13. x.node = a /\ y.node = b /\ y.order = Cat(o, q)
  BY <1>7, <1>8 DEF Placing
<1>. QED
  BY <1>4, <1>9, <1>10, <1>12, <1>13

\* A captured tree is normal already.
LEMMA BareIsNormal ==
  \A n, s : <<n, s>> \in Listed(BarePanes) /\ n \in Trees => NormalAlready(n, s)
<1> DEFINE C == {x \in Listed(BarePanes) : x[1] \in Trees => NormalAlready(x[1], x[2])}
<1>0. /\ Closed(Listed(BarePanes), BarePanes) /\ Closed(Listed(HeldPanes), HeldPanes)
      /\ MaxNesting \in Nat /\ BarePanes \in SUBSET HeldPanes
  BY ListedClosed, HeldPanesAre DEF BarePanes
<1>l. Listed(BarePanes) \subseteq Listed(HeldPanes)
  <2>1. Closed(Listed(HeldPanes), BarePanes)
    BY <1>0 DEF Closed
  <2>. QED
    BY <2>1 DEF Listed
<1>1. ASSUME NEW p \in BarePanes PROVE <<p, p.tools>> \in C
  <2>1. <<p, p.tools>> \in Listed(BarePanes) /\ ~p.split /\ p.tools \in Seq(Tools)
        /\ Len(p.tools) \in Nat \ {0}
    BY <1>0, HeldPanesAre DEF Closed
  <2>2. ASSUME p \in Trees, NEW depth \in Nat, NEW order \in Seq(Tools),
               depth + Len(p.tools) <= MaximumDockDepth + 1, IsInjective(Cat(order, p.tools))
        PROVE  NormalNode(p)[<<depth, order>>] = Placing(p, Cat(order, p.tools))
    <3>1. NormalNode(p) = PanesAt(p)
      BY <1>0, <2>1, <2>2, NormalNodeIs
    <3> DEFINE at == <<depth, order>>
    <3>2. at \in Nat \X Seq(Tools) /\ at[1] = depth /\ at[2] = order
      OBVIOUS
    <3>. HIDE DEF at
    <3>3. PanesAt(p)[at] = PaneAt(p, at[1], at[2])
      BY <3>2 DEF PanesAt
    <3>4. depth <= MaximumDockDepth
      BY <2>1, <2>2, WorkspaceAssumption
    <3>5. PaneAt(p, depth, order) = Placing(p, Cat(order, p.tools))
      BY <2>2, <3>4, NormalPaneKept DEF Cat
    <3>. QED
      BY <3>1, <3>2, <3>3, <3>5 DEF at
  <2>3. p \in Trees => NormalAlready(p, p.tools)
    BY <2>2 DEF NormalAlready
  <2>. QED
    BY <2>1, <2>3
<1>2. ASSUME NEW v \in BOOLEAN, NEW r \in 10..90, NEW a, NEW b, NEW p, NEW q,
             <<a, p>> \in C, <<b, q>> \in C
      PROVE  <<SplitNode(v, r, a, b), p \o q>> \in C
  <2> DEFINE n == SplitNode(v, r, a, b)
  <2>0. <<a, p>> \in Listed(BarePanes) /\ <<b, q>> \in Listed(BarePanes)
    BY <1>2
  <2>1. <<n, p \o q>> \in Listed(BarePanes)
    BY <1>0, <2>0 DEF Closed
  <2>2. ASSUME n \in Trees PROVE NormalAlready(n, Cat(p, q))
    <3>1. a \in Trees /\ b \in Trees
      BY <2>2, SplitIs
    <3>2. NormalAlready(a, p) /\ NormalAlready(b, q)
      BY <1>2, <3>1
    <3>3. <<a, p>> \in Listed(HeldPanes) /\ <<b, q>> \in Listed(HeldPanes)
      BY <1>l, <2>0
    <3>. QED
      BY <2>2, <3>2, <3>3, NormalSplitKept
  <2>. HIDE DEF n
  <2>. QED
    BY <2>1, <2>2 DEF n, Cat
<1>. HIDE DEF C
<1>3. Listed(BarePanes) \subseteq C
  BY <1>0, <1>1, <1>2, ListedInduction
<1>. QED
  BY <1>3 DEF C

\* What is captured of the tree on screen comes back as it was.
LEMMA CapturedTree ==
  ASSUME NEW n, NEW s, Laid(ShownPanes, n, s), IsInjective(s)
  PROVE  /\ Bare(n) \in Trees /\ ToolsOf(Bare(n)) = s /\ Rebuilt(Bare(n)) = n
         /\ s \in Seq(Tools) /\ NormalNode(Bare(n))[<<1, <<>>>>] = Placing(Bare(n), s)
         /\ \A p \in PaneSet(Bare(n)) : HasTool(p, p.active)
<1>0. /\ MaxNesting \in Nat /\ MaximumDockDepth \in Nat /\ Len(Registry) <= MaximumDockDepth
      /\ Registry \in Seq(Tools) /\ {Tuner, Spectrogram, HarmonicAnalyzer} \subseteq Tools
  BY WorkspaceAssumption
<1>e. <<>> \in Seq(Tools)
  OBVIOUS
<1>t. Len(Registry) \in Nat /\ <<1, <<>>>> \in Nat \X Seq(Tools)
  BY <1>0, <1>e, LenProperties
<1> DEFINE b == Bare(n)
           at == <<1, <<>>>>
<1>1. CASE <<n, s>> \in Listed(ShownPanes)
  <2>1. <<n, s>> \in Listed(HeldPanes)
    BY <1>1, MoreListed
  <2>2. n \in Trees /\ s \in Seq(Tools)
    BY <2>1, ListedIsSmall
  <2>3. <<b, s>> \in Listed(BarePanes)
    BY <1>1, <2>2, BareListed
  <2>b. BarePanes \in SUBSET HeldPanes
    BY DEF BarePanes
  <2>. HIDE DEF b
  <2>4. <<b, s>> \in Listed(HeldPanes)
    <3>1. Closed(Listed(HeldPanes), HeldPanes)
      BY ListedClosed
    <3>2. Closed(Listed(HeldPanes), BarePanes)
      BY <2>b, <3>1 DEF Closed
    <3>. QED
      BY <2>3, <3>2 DEF Listed
  <2>5. b \in Trees /\ ToolsOf(b) = s
    BY <2>4, ListedIsSmall
  <2>6. Rebuilt(b) = n
    BY <1>1, <2>2, <2>5, BareShownAgain DEF b
  <2>7. NormalAlready(b, s)
    BY <2>3, <2>5, BareIsNormal
  <2>8. 1 + Len(s) <= MaximumDockDepth + 1 /\ <<>> \in Seq(Tools)
    <3>1. Len(s) <= Len(Registry) /\ Len(s) \in Nat
      BY <2>2, DistinctTools, LenProperties
    <3>. QED
      BY <1>0, <1>t, <3>1
  <2>9. Cat(<<>>, s) = s
    BY <2>2, ConcatEmptySeq DEF Cat
  <2>10. NormalNode(b)[<<1, <<>>>>] = Placing(b, s)
    BY <2>7, <2>8, <2>9 DEF NormalAlready
  <2>11. \A p \in PaneSet(b) : HasTool(p, p.active)
    <3>1. PaneSet(b) \subseteq BarePanes
      BY <2>b, <2>3, <2>5, PaneSetIs
    <3>. QED
      BY <2>b, <3>1, HeldPanesAre
  <2>. QED
    BY <2>2, <2>5, <2>6, <2>10, <2>11 DEF b
<1>2. CASE n = NoTree /\ s = <<>>
  <2>1. NoTree \in Trees /\ ~NoTree.split /\ NoTree.tools = <<>> /\ PaneSet(NoTree) = {}
    BY NoTreeIs
  <2>2. b = NoTree
    <3>1. b = [NoTree EXCEPT !.bar = <<>>]
      BY <1>0, <1>2, <2>1, BareIs
    <3>. QED
      BY <3>1 DEF NoTree, Pane
  <2>3. ToolsOf(NoTree) = <<>> /\ Rebuilt(NoTree) = NoTree
    BY <1>0, <2>1, ToolsOfIs, RebuiltIs
  <2>4. NormalNode(NoTree)[<<1, <<>>>>] = Placing(NoTree, <<>>)
    <3>1. NormalNode(NoTree) = PanesAt(NoTree)
      BY <1>0, <2>1, NormalNodeIs
    <3>2. at \in Nat \X Seq(Tools) /\ at[1] = 1 /\ at[2] = <<>>
      BY <1>t
    <3>. HIDE DEF at
    <3>3. PanesAt(NoTree)[at] = PaneAt(NoTree, at[1], at[2])
      BY <3>2 DEF PanesAt
    <3>4. PaneAt(NoTree, 1, <<>>) = Placing(NoTree, <<>>)
      <4> DEFINE next == Taken(<<>>, <<>>)
      <4>1. next = <<>>
        <5>1. <<>> \in Seq(Tools) /\ <<>> \o <<>> = <<>> /\ IsInjective(<<>>)
          BY ShortLists
        <5>. QED
          BY <5>1, TakenAsTheyAre
      <4>2. 1 <= MaximumDockDepth
        <5>1. Registry # <<>>
          BY <1>0 DEF Tools
        <5>. QED
          BY <1>0, <1>t, <5>1, EmptySeq
      <4>3. ~(1 > MaximumDockDepth)
        BY <1>0, <4>2
      <4>4. PaneAt(NoTree, 1, <<>>) = Placing(NormalPane(SubSeq(next, Len(<<>>) + 1, Len(next)), NoTree.active), next)
        BY <2>1, <4>3 DEF PaneAt
      <4>. HIDE DEF next
      <4>5. SubSeq(next, Len(<<>>) + 1, Len(next)) = <<>>
        BY <4>1
      <4>. QED
        BY <4>1, <4>4, <4>5 DEF NormalPane
    <3>. QED
      BY <3>1, <3>2, <3>3, <3>4 DEF at
  <2>5. <<>> \in Seq(Tools)
    OBVIOUS
  <2>. QED
    BY <1>2, <2>1, <2>2, <2>3, <2>4, <2>5
<1>. QED
  BY <1>1, <1>2 DEF Laid

LEMMA DocumentFields ==
  ASSUME NEW root, NEW rest, NEW payloads, NEW focus
  PROVE  LET d == Document(root, rest, payloads, focus)
         IN d.root = root /\ d.floating = rest /\ d.settings = payloads /\ d.focus = focus
BY DEF Document

\* Another focus changes nothing but the focus.
LEMMA OtherFocus ==
  ASSUME NEW r, NEW f, NEW p, NEW t, NEW u, NEW d, d = Document(r, f, p, u)
  PROVE  [d EXCEPT !.focus = t] = Document(r, f, p, t)
<1> DEFINE R == [root : {r}, floating : {f}, settings : {p}, focus : {t, u}]
           e == [d EXCEPT !.focus = t]
           c == Document(r, f, p, t)
<1>1. d \in R
  BY DEF Document
<1>2. e \in R /\ e.focus = t
  BY <1>1
<1>3. c \in R /\ c.focus = t
  BY DEF Document
<1>. HIDE DEF e, c
<1>4. /\ e = [root |-> e.root, floating |-> e.floating, settings |-> e.settings, focus |-> e.focus]
      /\ c = [root |-> c.root, floating |-> c.floating, settings |-> c.settings, focus |-> c.focus]
      /\ e.root = c.root /\ e.floating = c.floating /\ e.settings = c.settings
  BY <1>2, <1>3
<1>5. e = c
  BY <1>2, <1>3, <1>4
<1>. QED
  BY <1>5 DEF c, e

\* What can be captured is already normal, and shows what was captured.
LEMMA CaptureKept ==
  ASSUME ShellInv
  PROVE  CaptureSurvivesRestart
<1> DEFINE saved == Capture
           start == Normalized(saved)
           s == ToolsOf(tree)
           b == Bare(tree)
           order == Cat(s, Floating)
           focus == IF placed[current] = "closed" THEN NoTool ELSE current
           first == IF Contains(order, Resolve(focus)) THEN Resolve(focus) ELSE Head(order)
<1>. SUFFICES ASSUME \E t \in Tools : placed[t] # "closed"
              PROVE  /\ [start EXCEPT !.focus = saved.focus] = saved
                     /\ saved.focus # NoTool => start.focus = saved.focus
                     /\ Accepted(start)
                     /\ Rebuilt(start.root) = tree
                     /\ PlannedPresentation(start) = placed
  BY DEF CaptureSurvivesRestart
<1>1. /\ Laid(ShownPanes, tree, s) /\ IsInjective(s)
      /\ \A t \in Tools : t \in Members(s) <=> placed[t] = "docked"
      /\ placed \in [Tools -> Presentations] /\ settings \in [Configurable -> Carried]
      /\ current \in Tools
  BY DEF ShellInv, Docking, Belongings
<1>2. /\ b \in Trees /\ ToolsOf(b) = s /\ Rebuilt(b) = tree /\ s \in Seq(Tools)
      /\ NormalNode(b)[<<1, <<>>>>] = Placing(b, s)
      /\ \A p \in PaneSet(b) : HasTool(p, p.active)
  BY <1>1, CapturedTree
<1>3. /\ Floating \in Seq(Tools) /\ IsInjective(Floating)
      /\ Members(Floating) = {t \in Tools : placed[t] = "floating"}
  BY FloatingIs
<1>4. saved = Document(b, Floating, settings, focus)
  BY DEF Capture
<1>. HIDE DEF s, b, saved
<1>5. /\ order \in Seq(Tools) /\ IsInjective(order)
      /\ Members(order) = Members(s) \cup Members(Floating) /\ Len(order) = Len(s) + Len(Floating)
      /\ Len(s) \in Nat /\ Len(Floating) \in Nat /\ Members(s) \subseteq Tools
  <2>1. Members(s) \cap Members(Floating) = {}
    BY <1>1, <1>3
  <2>. QED
    BY <1>1, <1>2, <1>3, <2>1, Concatenated DEF Cat
<1>6. Taken(Floating, s) = order
  BY <1>2, <1>3, <1>5, TakenAsTheyAre DEF Cat
<1>. HIDE DEF order, focus
<1>7. \A t \in Tools : t \in Members(order) <=> placed[t] # "closed"
  BY <1>1, <1>3, <1>5 DEF Presentations
<1>8. order # <<>>
  BY <1>7, ShortLists
<1>9. start = Document(b, Floating, settings, first)
  <2>1. saved.root = b /\ saved.floating = Floating /\ saved.settings = settings /\ saved.focus = focus
    BY <1>4, DocumentFields
  <2> DEFINE dock == NormalNode(saved.root)[1, <<>>]
             all == Taken(saved.floating, dock.order)
             payloads == [t \in Configurable |->
                            IF saved.settings[t] = "otherVersion" THEN NoSettings ELSE saved.settings[t]]
             to == IF Contains(all, Resolve(saved.focus)) THEN Resolve(saved.focus) ELSE Head(all)
  <2>2. dock = Placing(b, s)
    BY <1>2, <2>1
  <2>4. start = IF all = <<>> THEN PitchPractice
                ELSE Document(dock.node, SubSeq(all, Len(dock.order) + 1, Len(all)), payloads, to)
    BY DEF Normalized
  <2>5. payloads = settings
    <3>1. \A t \in Configurable : settings[t] # "otherVersion"
      BY <1>1 DEF Carried, NoSettings
    <3>2. payloads = [t \in Configurable |-> settings[t]]
      BY <2>1, <3>1
    <3>. QED
      BY <1>1, <3>2
  <2>. HIDE DEF dock, payloads
  <2>3. dock.node = b /\ dock.order = s
    BY <2>2 DEF Placing
  <2>6. all = order
    BY <1>6, <2>1, <2>3
  <2>7. to = first
    BY <2>1, <2>6
  <2>. HIDE DEF all, to
  <2>8. SubSeq(all, Len(dock.order) + 1, Len(all)) = Floating
    BY <1>2, <1>3, <2>3, <2>6, TheRest DEF order
  <2>. QED
    BY <1>8, <2>3, <2>4, <2>5, <2>6, <2>7, <2>8
<1>. HIDE DEF start
<1>10. start.root = b /\ start.floating = Floating /\ start.settings = settings /\ start.focus = first
  BY <1>9, DocumentFields
<1>11. saved.focus = focus
  BY <1>4, DocumentFields
<1>12. [start EXCEPT !.focus = saved.focus] = saved
  BY <1>4, <1>9, <1>11, OtherFocus
<1>13. focus # NoTool => first = focus
  <2>. SUFFICES ASSUME focus # NoTool PROVE first = focus
    OBVIOUS
  <2>1. focus = current /\ placed[current] # "closed"
    BY DEF focus
  <2>2. Resolve(focus) = focus
    BY <1>1, <2>1 DEF Resolve
  <2>3. Contains(order, focus)
    BY <1>1, <1>7, <2>1 DEF Contains, Members
  <2>. QED
    BY <2>2, <2>3
<1>14. Accepted(start)
  <2>1. ToolsOf(start.root) \o start.floating = order
    BY <1>2, <1>10 DEF order, Cat
  <2>2. DOMAIN order = 1..Len(order) /\ \A i \in 1..Len(order) : order[i] \in Tools
    BY <1>5, LenProperties
  <2>3. \A i \in DOMAIN order : Resolve(order[i]) = order[i] /\ order[i] # NoTool
    BY <2>2, NoToolIsNone DEF Resolve
  <2>4. IsInjective([i \in DOMAIN order |-> Resolve(order[i])])
    <3>1. \A i, j \in DOMAIN order : order[i] = order[j] => i = j
      BY <1>5 DEF IsInjective
    <3>. QED
      BY <2>3, <3>1 DEF IsInjective
  <2>5. \A i \in DOMAIN order : Resolve(order[i]) # NoTool
    BY <2>3
  <2>6. \A p \in PaneSet(start.root) : HasTool(p, p.active)
    BY <1>2, <1>10
  <2>. QED
    BY <2>1, <2>4, <2>5, <2>6 DEF Accepted
<1>15. Rebuilt(start.root) = tree
  BY <1>2, <1>10
<1>16. PlannedPresentation(start) = placed
  <2> DEFINE shown == PlannedPresentation(start)
  <2>1. shown = [t \in Tools |-> IF Contains(s, t) THEN "docked"
                                 ELSE IF Contains(Floating, t) THEN "floating" ELSE "closed"]
    BY <1>2, <1>10 DEF PlannedPresentation
  <2>. HIDE DEF shown
  <2>2. \A t : (Contains(s, t) <=> t \in Members(s)) /\ (Contains(Floating, t) <=> t \in Members(Floating))
    BY DEF Contains, Members
  <2>3. ASSUME NEW t \in Tools PROVE shown[t] = placed[t]
    BY <1>1, <1>3, <2>1, <2>2 DEF Presentations
  <2>4. shown = [t \in Tools |-> placed[t]]
    BY <2>1, <2>3
  <2>. QED
    BY <1>1, <2>4 DEF shown
<1>. QED
  BY <1>10, <1>11, <1>12, <1>13, <1>14, <1>15, <1>16

-----------------------------------------------------------------------------
(* What the shell keeps, whatever its user does.                            *)

\* However tools were docked, floated, dropped, arranged, closed and restored, the tree is
\* laid out of the docked tools and every open tool has its settings.
THEOREM ShellStaysInOrder == ShellSpec => []ShellInv
<1>1. ShellInit => ShellInv
  BY Starting
<1>2. ShellInv /\ [ShellNext]_shell => ShellInv'
  BY ShellStep
<1>. QED
  BY <1>1, <1>2, PTL DEF ShellSpec

\* The tree and the presentations never part: the docked tools are exactly those of the
\* tree, each once, and the tree has no empty pane and no split without two children.
THEOREM TreeAlwaysMatches == ShellSpec => []TreeMatchesPresentations
<1>1. ShellInv => TreeMatchesPresentations
  BY ShellInvSuffices
<1>. QED
  BY <1>1, ShellStaysInOrder, PTL

\* Whatever the shell can reach is captured whole: the normalizer changes nothing of the
\* captured document, the planner accepts it, and a start from it shows the same workspace.
THEOREM CaptureAlwaysSurvives == ShellSpec => []CaptureSurvivesRestart
<1>1. ShellInv => CaptureSurvivesRestart
  BY CaptureKept
<1>. QED
  BY <1>1, ShellStaysInOrder, PTL

\* No operation on one tool changes the order of the others in the tree; only an
\* Apply of a whole workspace may.
THEOREM OthersStayInOrder == ShellSpec => OnlyOneToolMoves
<1>1. ShellInv /\ [ShellNext]_shell =>
        [\/ ToolsOf(tree) = ToolsOf(tree')
         \/ \E t \in Tools : Without(ToolsOf(tree), t) = Without(ToolsOf(tree'), t)
         \/ Moves]_shell
  BY ShellStep DEF ToolsKept, OneMoved
<1>. QED
  BY <1>1, ShellStaysInOrder, PTL DEF ShellSpec, OnlyOneToolMoves
=============================================================================
