------------------------- MODULE ScoreReadingProofs -------------------------
(***************************************************************************)
(* Every score the reader freezes is well formed, for every file: whatever *)
(* its notes, attributes, moves and parts are, and in whatever order they  *)
(* come.  Each repair pass adds one condition and keeps those before it,   *)
(* so the proof is a lemma for each pass over what the reader produces.    *)
(* And no repair makes a tie of its own, though events move after the ties *)
(* were resolved to places: they only move forward in their voice, and two *)
(* links of one voice and pitch never cross.  A file with nothing to       *)
(* repair is frozen as it stands, since a pass that is silent is idle.     *)
(***************************************************************************)
EXTENDS ScoreReading, FiniteSetTheorems, SequenceTheorems, WellFoundedInduction, TLAPS

-----------------------------------------------------------------------------
(* Numbers, finite sets and lists.                                          *)

\* A set of naturals that is not empty has a least element: what is left of the naturals
\* up to its elements is finite, and strict inclusion well-founded.
LEMMA LeastExists ==
  ASSUME NEW S \in SUBSET Nat, S # {}
  PROVE  \E m \in S : \A k \in S : m <= k
<1> DEFINE UpTo(m) == 0..m
           T == {UpTo(m) : m \in S}
<1>1. T \subseteq FiniteSubsetsOf(Nat) /\ T # {}
  <2>1. \A m \in S : IsFiniteSet(UpTo(m)) /\ UpTo(m) \subseteq Nat
    BY FS_Interval
  <2>. QED
    BY <2>1 DEF FiniteSubsetsOf
<1>2. \E x \in T : \A y \in T : <<y, x>> \notin StrictSubsetOrdering(Nat)
  BY <1>1, FS_StrictSubsetOrderingWellFounded, WFMin
<1>3. PICK m \in S : \A k \in S : <<UpTo(k), UpTo(m)>> \notin StrictSubsetOrdering(Nat)
  BY <1>2
<1>4. ASSUME NEW k \in S, k < m PROVE FALSE
  <2>1. UpTo(k) \subseteq Nat /\ UpTo(m) \subseteq Nat /\ UpTo(k) \subseteq UpTo(m)
    BY <1>4
  <2>2. m \in UpTo(m) /\ m \notin UpTo(k)
    BY <1>4
  <2>. HIDE DEF UpTo
  <2>3. <<UpTo(k), UpTo(m)>> \in StrictSubsetOrdering(Nat)
    BY <2>1, <2>2 DEF StrictSubsetOrdering
  <2>. QED
    BY <2>3, <1>3
<1>. QED
  BY <1>4

\* Induction over a set of naturals.
LEMMA Induction ==
  ASSUME NEW S, 0 \in S, \A n \in Nat : n \in S => n + 1 \in S
  PROVE  Nat \subseteq S
<1>1. SUFFICES ASSUME Nat \ S # {} PROVE FALSE
  OBVIOUS
<1>2. PICK m \in Nat \ S : \A k \in Nat \ S : m <= k
  BY <1>1, LeastExists
<1>3. m # 0 /\ m - 1 \in Nat /\ m - 1 \in S
  BY <1>2
<1>. QED
  BY <1>3

\* Sets of n + 1 integers have a greatest and a least element, by induction on n.
LEMMA Bounded ==
  ASSUME NEW S \in SUBSET Int, IsFiniteSet(S), S # {}
  PROVE  (\E m \in S : \A k \in S : m >= k) /\ (\E m \in S : \A k \in S : m <= k)
<1> DEFINE HasEnds(T) == (\E m \in T : \A k \in T : m >= k) /\ (\E m \in T : \A k \in T : m <= k)
           Sizes == {n \in Nat : \A T \in SUBSET S : Cardinality(T) = n + 1 => HasEnds(T)}
<1>1. 0 \in Sizes
  <2>1. SUFFICES ASSUME NEW T \in SUBSET S, Cardinality(T) = 1 PROVE HasEnds(T)
    OBVIOUS
  <2>2. IsFiniteSet(T)
    BY FS_Subset
  <2>3. PICK x : T = {x}
    BY <2>1, <2>2, FS_Singleton
  <2>. QED
    BY <2>3
<1>2. ASSUME NEW n \in Nat, n \in Sizes PROVE n + 1 \in Sizes
  <2>1. SUFFICES ASSUME NEW T \in SUBSET S, Cardinality(T) = n + 2 PROVE HasEnds(T)
    OBVIOUS
  <2>0. IsFiniteSet(T)
    BY FS_Subset
  <2>2. IsFiniteSet(T) /\ T # {}
    <3>1. Cardinality(T) # 0
      BY <2>1
    <3>. QED
      BY <3>1, <2>0, FS_EmptySet
  <2>3. PICK x \in T : TRUE
    BY <2>2
  <2>4. Cardinality(T \ {x}) = n + 1
    <3>1. Cardinality(T \ {x}) = Cardinality(T) - 1
      BY <2>2, <2>3, FS_RemoveElement
    <3>. QED
      BY <3>1, <2>1
  <2>5. HasEnds(T \ {x})
    BY <1>2, <2>4
  <2>6. PICK a \in T \ {x} : \A k \in T \ {x} : a >= k
    BY <2>5
  <2>7. PICK b \in T \ {x} : \A k \in T \ {x} : b <= k
    BY <2>5
  <2>8. T \subseteq Int
    OBVIOUS
  <2>9. (\E m \in T : \A k \in T : m >= k)
    <3>1. CASE a >= x
      BY <3>1, <2>6, <2>8
    <3>2. CASE a < x
      <4>1. \A k \in T : x >= k
        BY <3>2, <2>6, <2>8
      <4>. QED
        BY <4>1
    <3>. QED
      BY <3>1, <3>2, <2>3, <2>6, <2>8
  <2>10. (\E m \in T : \A k \in T : m <= k)
    <3>1. CASE b <= x
      BY <3>1, <2>7, <2>8
    <3>2. CASE b > x
      <4>1. \A k \in T : x <= k
        BY <3>2, <2>7, <2>8
      <4>. QED
        BY <4>1
    <3>. QED
      BY <3>1, <3>2, <2>3, <2>7, <2>8
  <2>. QED
    BY <2>9, <2>10
<1>. HIDE DEF Sizes
<1>3. Nat \subseteq Sizes
  BY <1>1, <1>2, Induction
<1>4. Cardinality(S) \in Nat /\ Cardinality(S) # 0
  BY FS_CardinalityType, FS_EmptySet
<1>5. Cardinality(S) - 1 \in Sizes
  BY <1>3, <1>4
<1>. QED
  BY <1>4, <1>5 DEF Sizes

LEMMA MaxOf ==
  ASSUME NEW S \in SUBSET Int, IsFiniteSet(S), S # {}
  PROVE  Max(S) \in S /\ \A k \in S : Max(S) >= k
BY Bounded DEF Max

LEMMA MinOf ==
  ASSUME NEW S \in SUBSET Int, IsFiniteSet(S), S # {}
  PROVE  Min(S) \in S /\ \A k \in S : Min(S) <= k
BY Bounded DEF Min

\* The values of a function on a finite set.
LEMMA FiniteValues ==
  ASSUME NEW f, IsFiniteSet(DOMAIN f), f = [x \in DOMAIN f |-> f[x]]
  PROVE  IsFiniteSet({f[x] : x \in DOMAIN f})
<1>1. f \in Surjection(DOMAIN f, {f[x] : x \in DOMAIN f})
  BY DEF Surjection
<1>. QED
  BY <1>1, FS_Surjection

\* A sequence, whatever it holds.
IsList(s) == Len(s) \in Nat /\ s = [i \in 1..Len(s) |-> s[i]]

LEMMA ListBySize ==
  ASSUME NEW n \in Nat, NEW s, s = [i \in 1..n |-> s[i]]
  PROVE  IsList(s) /\ Len(s) = n /\ DOMAIN s = 1..n
<1>1. s \in Seq({s[i] : i \in 1..n})
  BY DEF Seq
<1>2. DOMAIN s = 1..Len(s) /\ Len(s) \in Nat
  BY <1>1, LenProperties
<1>3. DOMAIN s = 1..n
  OBVIOUS
<1>4. Len(s) = n
  BY <1>2, <1>3
<1>. QED
  BY <1>2, <1>3, <1>4 DEF IsList

LEMMA ListIsASeq ==
  ASSUME NEW s, IsList(s)
  PROVE  /\ s \in Seq({s[i] : i \in DOMAIN s})
         /\ DOMAIN s = 1..Len(s)
         /\ s # <<>> <=> 1 \in DOMAIN s
<1>1. DOMAIN s = 1..Len(s) /\ Len(s) \in Nat
  BY DEF IsList
<1>2. s \in Seq({s[i] : i \in DOMAIN s})
  BY <1>1 DEF IsList, Seq
<1>3. s # <<>> => Len(s) \in Nat \ {0}
  BY <1>2, EmptySeq
<1>4. Len(<<>>) = 0
  BY EmptySeq
<1>. QED
  BY <1>1, <1>2, <1>3, <1>4

LEMMA SeqIsAList ==
  ASSUME NEW S, NEW s \in Seq(S)
  PROVE  IsList(s)
BY LenProperties DEF IsList

LEMMA AppendedList ==
  ASSUME NEW s, IsList(s), NEW x
  PROVE  /\ IsList(Append(s, x))
         /\ Len(Append(s, x)) = Len(s) + 1
         /\ \A i \in DOMAIN Append(s, x) : \/ i \in DOMAIN s /\ Append(s, x)[i] = s[i]
                                           \/ Append(s, x)[i] = x
<1> DEFINE S == {s[i] : i \in DOMAIN s} \cup {x}
<1>1. s \in Seq(S) /\ x \in S
  <2>1. s \in Seq({s[i] : i \in DOMAIN s})
    BY ListIsASeq
  <2>2. {s[i] : i \in DOMAIN s} \subseteq S /\ x \in S
    OBVIOUS
  <2>. HIDE DEF S
  <2>. QED
    BY <2>1, <2>2, SeqMonotonic
<1>2. /\ Append(s, x) \in Seq(S)
      /\ Len(Append(s, x)) = Len(s) + 1
      /\ \A i \in 1..Len(s) : Append(s, x)[i] = s[i]
      /\ Append(s, x)[Len(s) + 1] = x
  <2>. HIDE DEF S
  <2>. QED
    BY <1>1, LenProperties
<1>3. DOMAIN Append(s, x) = 1..(Len(s) + 1) /\ Len(s) \in Nat /\ DOMAIN s = 1..Len(s)
  BY <1>1, <1>2, LenProperties
<1>4. IsList(Append(s, x))
  BY <1>2, SeqIsAList
<1>. QED
  BY <1>2, <1>3, <1>4

LEMMA JoinedLists ==
  ASSUME NEW s, IsList(s), NEW t, IsList(t)
  PROVE  /\ IsList(s \o t)
         /\ \A i \in DOMAIN (s \o t) : \/ i \in DOMAIN s /\ (s \o t)[i] = s[i]
                                       \/ \E j \in DOMAIN t : (s \o t)[i] = t[j]
<1> DEFINE S == {s[i] : i \in DOMAIN s} \cup {t[i] : i \in DOMAIN t}
<1>1. s \in Seq(S) /\ t \in Seq(S)
  <2>1. s \in Seq({s[i] : i \in DOMAIN s}) /\ t \in Seq({t[i] : i \in DOMAIN t})
    BY ListIsASeq
  <2>2. {s[i] : i \in DOMAIN s} \subseteq S /\ {t[i] : i \in DOMAIN t} \subseteq S
    OBVIOUS
  <2>. HIDE DEF S
  <2>. QED
    BY <2>1, <2>2, SeqMonotonic
<1>. HIDE DEF S
<1>2. /\ s \o t \in Seq(S)
      /\ Len(s \o t) = Len(s) + Len(t)
      /\ \A i \in 1..(Len(s) + Len(t)) :
           (s \o t)[i] = IF i <= Len(s) THEN s[i] ELSE t[i - Len(s)]
  BY <1>1, ConcatProperties
<1>3. /\ DOMAIN (s \o t) = 1..(Len(s) + Len(t)) /\ Len(s) \in Nat /\ Len(t) \in Nat
      /\ DOMAIN s = 1..Len(s) /\ DOMAIN t = 1..Len(t)
  BY <1>1, <1>2, LenProperties
<1>4. IsList(s \o t)
  BY <1>2, SeqIsAList
<1>. QED
  BY <1>2, <1>3, <1>4

-----------------------------------------------------------------------------
(* Orders.                                                                  *)

\* The k-th of an order has k - 1 before it, and every element is one of them: how many are
\* before each are different numbers below the number of elements.
LEMMA Ranks ==
  ASSUME NEW P, IsFiniteSet(P), NEW E,
         \A i \in P : E[i] \in SUBSET P /\ i \notin E[i],
         \A i, j \in P : i \in E[j] => E[i] \subseteq E[j],
         \A i, j \in P : i # j => i \in E[j] \/ j \in E[i]
  PROVE  /\ Cardinality(P) \in Nat
         /\ \A i \in P : Cardinality(E[i]) \in 0..(Cardinality(P) - 1)
         /\ \A k \in 1..Cardinality(P) : \E i \in P : Cardinality(E[i]) = k - 1
         /\ \A i, j \in P : Cardinality(E[i]) = Cardinality(E[j]) => i = j
         /\ \A i, j \in P : Cardinality(E[i]) < Cardinality(E[j]) => i \in E[j]
<1> DEFINE n == Cardinality(P)
           rank == [i \in P |-> Cardinality(E[i])]
<1>1. n \in Nat
  BY FS_CardinalityType
<1>2. \A i \in P : IsFiniteSet(E[i]) /\ rank[i] \in Nat
  <2>. SUFFICES ASSUME NEW i \in P PROVE IsFiniteSet(E[i]) /\ rank[i] \in Nat
    OBVIOUS
  <2>. QED
    BY FS_Subset, FS_CardinalityType
<1>3. ASSUME NEW i \in P, NEW j \in P, i \in E[j] PROVE rank[i] < rank[j]
  <2>1. E[i] \in SUBSET E[j] /\ i \in E[j] /\ i \notin E[i]
    BY <1>3
  <2>2. /\ Cardinality(E[i]) <= Cardinality(E[j])
        /\ Cardinality(E[i]) # Cardinality(E[j])
    BY <1>2, <2>1, FS_Subset
  <2>. QED
    BY <1>2, <2>2
<1>4. \A i \in P : rank[i] \in 0..(n - 1)
  <2>. SUFFICES ASSUME NEW i \in P PROVE rank[i] <= n - 1
    BY <1>1, <1>2
  <2>1. Cardinality(E[i]) <= n /\ Cardinality(E[i]) # n
    BY FS_Subset
  <2>. QED
    BY <1>1, <1>2, <2>1
<1>5. \A i, j \in P : i # j => rank[i] # rank[j]
  <2>. SUFFICES ASSUME NEW i \in P, NEW j \in P, i # j PROVE rank[i] # rank[j]
    OBVIOUS
  <2>1. i \in E[j] \/ j \in E[i]
    OBVIOUS
  <2>. QED
    BY <1>2, <1>3, <2>1
<1>6. rank \in Surjection(P, 0..(n - 1))
  <2>1. rank \in Injection(P, 0..(n - 1))
    <3>1. rank \in [P -> 0..(n - 1)]
      BY <1>4
    <3>. QED
      BY <3>1, <1>5 DEF Injection, IsInjective
  <2>2. IsFiniteSet(0..(n - 1)) /\ Cardinality(0..(n - 1)) = n
    <3>1. n - 1 \in Int /\ 0 \in Int
      BY <1>1
    <3>2. /\ IsFiniteSet(0..(n - 1))
          /\ Cardinality(0..(n - 1)) = IF 0 > n - 1 THEN 0 ELSE (n - 1) - 0 + 1
      BY <3>1, FS_Interval
    <3>. QED
      BY <3>2, <1>1
  <2>. QED
    BY <2>1, <2>2, FS_Injection
<1>7. \A k \in 1..n : \E i \in P : rank[i] = k - 1
  <2>. SUFFICES ASSUME NEW k \in 1..n PROVE \E i \in P : rank[i] = k - 1
    OBVIOUS
  <2>1. k - 1 \in 0..(n - 1)
    BY <1>1
  <2>. QED
    BY <2>1, <1>6 DEF Surjection
<1>8. ASSUME NEW i \in P, NEW j \in P, rank[i] < rank[j] PROVE i \in E[j]
  <2>1. i # j /\ ~(rank[j] < rank[i])
    BY <1>2, <1>8
  <2>. QED
    BY <1>3, <2>1
<1>. QED
  BY <1>1, <1>4, <1>5, <1>7, <1>8

\* i stands before j: by the key, and by the place where the keys are equal.
Precedes(key, i, j) == key[i] < key[j] \/ (key[i] = key[j] /\ i < j)

Earlier(P, key, i) == {j \in P : Precedes(key, j, i)}

\* The stable order of places by their key.
LEMMA Ordered ==
  ASSUME NEW P \in SUBSET Int, IsFiniteSet(P), NEW key, \A i \in P : key[i] \in Int
  PROVE  /\ IsList(InOrder(P, key)) /\ Len(InOrder(P, key)) = Cardinality(P)
         /\ \A k \in DOMAIN InOrder(P, key) : InOrder(P, key)[k] \in P
         /\ \A k, l \in DOMAIN InOrder(P, key) :
              k < l => Precedes(key, InOrder(P, key)[k], InOrder(P, key)[l])
         /\ \A i \in P : \E k \in DOMAIN InOrder(P, key) : InOrder(P, key)[k] = i
<1> DEFINE n == Cardinality(P)
           order == InOrder(P, key)
           E == [i \in P |-> Earlier(P, key, i)]
<1>1. order = [k \in 1..n |-> CHOOSE i \in P : Cardinality(Earlier(P, key, i)) = k - 1]
  BY DEF InOrder, InOrderOf, Earlier, Precedes
<1>2. \A i \in P : E[i] = Earlier(P, key, i)
  OBVIOUS
<1>. HIDE DEF E, order, n
<1>3. \A i \in P : E[i] \in SUBSET P /\ i \notin E[i]
  BY <1>2 DEF Earlier, Precedes
<1>4. \A i, j \in P : i \in E[j] <=> Precedes(key, i, j)
  BY <1>2 DEF Earlier
<1>5. \A i, j \in P : i \in E[j] => E[i] \subseteq E[j]
  <2>. SUFFICES ASSUME NEW i \in P, NEW j \in P, i \in E[j], NEW h \in E[i] PROVE h \in E[j]
    OBVIOUS
  <2>1. h \in P /\ Precedes(key, h, i) /\ Precedes(key, i, j)
    BY <1>3, <1>4
  <2>2. i \in Int /\ j \in Int /\ h \in Int /\ key[i] \in Int /\ key[j] \in Int /\ key[h] \in Int
    BY <2>1
  <2>3. Precedes(key, h, j)
    BY <2>1, <2>2 DEF Precedes
  <2>. QED
    BY <1>4, <2>1, <2>3
<1>6. \A i, j \in P : i # j => i \in E[j] \/ j \in E[i]
  <2>. SUFFICES ASSUME NEW i \in P, NEW j \in P, i # j
                PROVE  Precedes(key, i, j) \/ Precedes(key, j, i)
    BY <1>4
  <2>. QED
    BY DEF Precedes
<1>7. /\ n \in Nat
      /\ \A i \in P : Cardinality(E[i]) \in 0..(n - 1)
      /\ \A k \in 1..n : \E i \in P : Cardinality(E[i]) = k - 1
      /\ \A i, j \in P : Cardinality(E[i]) = Cardinality(E[j]) => i = j
      /\ \A i, j \in P : Cardinality(E[i]) < Cardinality(E[j]) => i \in E[j]
  BY <1>3, <1>5, <1>6, Ranks DEF n
<1>8. \A k \in 1..n : order[k] \in P /\ Cardinality(E[order[k]]) = k - 1
  <2>. SUFFICES ASSUME NEW k \in 1..n
                PROVE  order[k] \in P /\ Cardinality(E[order[k]]) = k - 1
    OBVIOUS
  <2>1. \E i \in P : Cardinality(Earlier(P, key, i)) = k - 1
    BY <1>2, <1>7
  <2>2. order[k] = CHOOSE i \in P : Cardinality(Earlier(P, key, i)) = k - 1
    BY <1>1
  <2>3. order[k] \in P /\ Cardinality(Earlier(P, key, order[k])) = k - 1
    BY <2>1, <2>2
  <2>. QED
    BY <1>2, <2>3
<1>9. IsList(order) /\ Len(order) = n /\ DOMAIN order = 1..n
  BY <1>1, <1>7, ListBySize
<1>10. ASSUME NEW k \in 1..n, NEW l \in 1..n, k < l PROVE Precedes(key, order[k], order[l])
  <2>1. Cardinality(E[order[k]]) < Cardinality(E[order[l]])
    BY <1>7, <1>8, <1>10
  <2>. QED
    BY <1>4, <1>7, <1>8, <2>1
<1>11. ASSUME NEW i \in P PROVE \E k \in 1..n : order[k] = i
  <2>1. PICK k \in 1..n : k - 1 = Cardinality(E[i])
    <3>1. Cardinality(E[i]) \in 0..(n - 1) /\ n \in Nat
      BY <1>7
    <3>2. Cardinality(E[i]) + 1 \in 1..n /\ (Cardinality(E[i]) + 1) - 1 = Cardinality(E[i])
      BY <3>1
    <3>. QED
      BY <3>2
  <2>2. order[k] \in P /\ Cardinality(E[order[k]]) = Cardinality(E[i])
    BY <1>8, <2>1
  <2>. QED
    BY <1>7, <2>2
<1>. QED
  BY <1>8, <1>9, <1>10, <1>11 DEF n, order

\* What is left of a list, in its order.
LEMMA Left ==
  ASSUME NEW s, IsList(s), NEW P \in SUBSET DOMAIN s
  PROVE  /\ IsList(Remaining(s, P))
         /\ \E places : /\ places \in [DOMAIN Remaining(s, P) -> P]
                        /\ \A k \in DOMAIN Remaining(s, P) : Remaining(s, P)[k] = s[places[k]]
                        /\ \A k, l \in DOMAIN Remaining(s, P) : k < l => places[k] < places[l]
<1> DEFINE key == [i \in P |-> 0]
           order == InOrder(P, key)
<1>1. DOMAIN s = 1..Len(s) /\ Len(s) \in Nat
  BY ListIsASeq DEF IsList
<1>2. P \in SUBSET Int /\ IsFiniteSet(P) /\ \A i \in P : key[i] \in Int
  <2>1. IsFiniteSet(1..Len(s))
    BY <1>1, FS_Interval
  <2>2. IsFiniteSet(P) /\ P \in SUBSET Int
    BY <1>1, <2>1, FS_Subset
  <2>. QED
    BY <2>2
<1>3. /\ IsList(order) /\ \A k \in DOMAIN order : order[k] \in P
      /\ \A k, l \in DOMAIN order : k < l => Precedes(key, order[k], order[l])
  <2>. HIDE DEF key
  <2>. QED
    BY <1>2, Ordered
<1>. HIDE DEF order
<1>4. \A k, l \in DOMAIN order : k < l => order[k] < order[l]
  BY <1>3 DEF Precedes
<1>5. Remaining(s, P) = [k \in DOMAIN order |-> s[order[k]]]
  BY DEF Remaining, Picked, order
<1>6. DOMAIN order = 1..Len(order) /\ Len(order) \in Nat /\ order \in [DOMAIN order -> P]
  BY <1>3 DEF IsList
<1>7. IsList(Remaining(s, P)) /\ DOMAIN Remaining(s, P) = DOMAIN order
  BY <1>5, <1>6, ListBySize
<1>. QED
  BY <1>4, <1>5, <1>6, <1>7

-----------------------------------------------------------------------------
(* What the reader hands to the passes, and what each of them adds: the     *)
(* stage of a score is the number of conditions its events meet.            *)

IsNotes(s) ==
  IsList(s) /\ \A n \in DOMAIN s : {"to", "from", "sounding", "id"} \subseteq DOMAIN s[n]

IsEvent(x) ==
  /\ {"onset", "duration", "isGrace", "notes"} \subseteq DOMAIN x
  /\ x.onset \in Int /\ x.duration \in Int /\ x.isGrace \in BOOLEAN /\ IsNotes(x.notes)

IsEvents(s) == IsList(s) /\ \A e \in DOMAIN s : IsEvent(s[e])

Lasting(s) == \A e \in DOMAIN s : s[e].duration >= 0

Sequential(s) ==
  \A e, f \in DOMAIN s :
    e < f => s[e].onset <= s[f].onset /\ (s[e].isGrace \/ EndOf(s[e]) <= s[f].onset)

Inside(limit, s) == \A e \in DOMAIN s : EndOf(s[e]) <= limit

Meets(stage, limit, s) ==
  /\ IsEvents(s)
  /\ stage >= 1 => Lasting(s)
  /\ stage >= 2 => Sequential(s)
  /\ stage >= 3 => Inside(limit, s)

\* Removing events changes nothing about the others.
LEMMA RemovingKeeps ==
  ASSUME NEW stage \in 0..3, NEW limit \in Int, NEW s, Meets(stage, limit, s),
         NEW P \in SUBSET DOMAIN s
  PROVE  /\ Meets(stage, limit, Remaining(s, P))
         /\ \A k \in DOMAIN Remaining(s, P) : \E e \in P : Remaining(s, P)[k] = s[e]
<1> DEFINE r == Remaining(s, P)
<1>1. IsList(s)
  BY DEF Meets, IsEvents
<1>2. IsList(r) /\ \E places : /\ places \in [DOMAIN r -> P]
                               /\ \A k \in DOMAIN r : r[k] = s[places[k]]
                               /\ \A k, l \in DOMAIN r : k < l => places[k] < places[l]
  BY <1>1, Left
<1>. HIDE DEF r
<1>3. PICK places : /\ places \in [DOMAIN r -> P]
                    /\ \A k \in DOMAIN r : r[k] = s[places[k]]
                    /\ \A k, l \in DOMAIN r : k < l => places[k] < places[l]
  BY <1>2
<1>4. \A k \in DOMAIN r : places[k] \in P /\ places[k] \in DOMAIN s /\ r[k] = s[places[k]]
  BY <1>3
<1>5. IsEvents(r)
  BY <1>2, <1>4 DEF Meets, IsEvents
<1>6. stage >= 1 => Lasting(r)
  BY <1>4 DEF Meets, Lasting
<1>7. stage >= 2 => Sequential(r)
  <2>. SUFFICES ASSUME stage >= 2, NEW k \in DOMAIN r, NEW l \in DOMAIN r, k < l
                PROVE  r[k].onset <= r[l].onset /\ (r[k].isGrace \/ EndOf(r[k]) <= r[l].onset)
    BY DEF Sequential
  <2>1. places[k] < places[l]
    BY <1>3
  <2>. QED
    BY <2>1, <1>4 DEF Meets, Sequential
<1>8. stage >= 3 => Inside(limit, r)
  BY <1>4 DEF Meets, Inside
<1>. QED
  BY <1>4, <1>5, <1>6, <1>7, <1>8 DEF Meets, r

\* A negative duration becomes a grace note of none.
LEMMA Clamping ==
  ASSUME NEW limit \in Int, NEW s, Meets(0, limit, s)
  PROVE  Meets(1, limit, [e \in DOMAIN s |-> NonNegative(s[e])])
<1> DEFINE c == [e \in DOMAIN s |-> NonNegative(s[e])]
<1>1. DOMAIN s = 1..Len(s) /\ Len(s) \in Nat
  BY DEF Meets, IsEvents, IsList
<1>2. IsList(c) /\ DOMAIN c = DOMAIN s
  BY <1>1, ListBySize
<1>3. \A e \in DOMAIN s : IsEvent(NonNegative(s[e])) /\ NonNegative(s[e]).duration >= 0
  <2>. SUFFICES ASSUME NEW e \in DOMAIN s
                PROVE  IsEvent(NonNegative(s[e])) /\ NonNegative(s[e]).duration >= 0
    OBVIOUS
  <2> DEFINE x == s[e]
  <2>1. IsEvent(x)
    BY DEF Meets, IsEvents
  <2>. HIDE DEF x
  <2>2. CASE x.duration >= 0
    BY <2>1, <2>2 DEF NonNegative, x
  <2>3. CASE ~(x.duration >= 0)
    <3>1. NonNegative(x) = [x EXCEPT !.duration = 0, !.isGrace = TRUE]
      BY <2>3 DEF NonNegative
    <3>2. /\ DOMAIN NonNegative(x) = DOMAIN x
          /\ NonNegative(x).duration = 0 /\ NonNegative(x).isGrace \in BOOLEAN
          /\ NonNegative(x).onset = x.onset /\ NonNegative(x).notes = x.notes
      BY <2>1, <3>1 DEF IsEvent
    <3>3. IsEvent(NonNegative(x)) /\ NonNegative(x).duration >= 0
      BY <2>1, <3>2 DEF IsEvent
    <3>. QED
      BY <3>3 DEF x
  <2>. QED
    BY <2>2, <2>3
<1>. QED
  BY <1>2, <1>3 DEF Meets, IsEvents, Lasting

\* The sort puts the onsets in order.
LEMMA Sorting ==
  ASSUME NEW limit \in Int, NEW stage \in {0, 1}, NEW s, Meets(stage, limit, s)
  PROVE  /\ Meets(stage, limit, InTimeOrder(s))
         /\ \A e, f \in DOMAIN InTimeOrder(s) :
              e < f => InTimeOrder(s)[e].onset <= InTimeOrder(s)[f].onset
<1> DEFINE key == [e \in DOMAIN s |-> s[e].onset]
           order == InOrder(DOMAIN s, key)
           t == InTimeOrder(s)
<1>1. DOMAIN s = 1..Len(s) /\ Len(s) \in Nat
  BY DEF Meets, IsEvents, IsList
<1>2. DOMAIN s \in SUBSET Int /\ IsFiniteSet(DOMAIN s)
  BY <1>1, FS_Interval
<1>3. \A e \in DOMAIN s : key[e] = s[e].onset /\ s[e].onset \in Int
  BY DEF Meets, IsEvents, IsEvent
<1>. HIDE DEF key
<1>4. \A e \in DOMAIN s : key[e] \in Int
  BY <1>3
<1>5. /\ IsList(order) /\ \A k \in DOMAIN order : order[k] \in DOMAIN s
      /\ \A k, l \in DOMAIN order : k < l => Precedes(key, order[k], order[l])
  BY <1>2, <1>4, Ordered
<1>. HIDE DEF order
<1>6. t = [k \in DOMAIN order |-> s[order[k]]]
  BY DEF InTimeOrder, Picked, order, key
<1>7. DOMAIN order = 1..Len(order) /\ Len(order) \in Nat
  BY <1>5 DEF IsList
<1>8. IsList(t) /\ DOMAIN t = DOMAIN order
  BY <1>6, <1>7, ListBySize
<1>. HIDE DEF t
<1>9. \A k \in DOMAIN t : order[k] \in DOMAIN s /\ t[k] = s[order[k]]
  BY <1>5, <1>6, <1>8
<1>10. IsEvents(t) /\ (stage >= 1 => Lasting(t))
  BY <1>8, <1>9 DEF Meets, IsEvents, Lasting
<1>11. \A k, l \in DOMAIN t : k < l => t[k].onset <= t[l].onset
  <2>. SUFFICES ASSUME NEW k \in DOMAIN t, NEW l \in DOMAIN t, k < l
                PROVE  t[k].onset <= t[l].onset
    OBVIOUS
  <2>1. Precedes(key, order[k], order[l])
    BY <1>5, <1>8
  <2>. QED
    BY <2>1, <1>3, <1>9 DEF Precedes
<1>. QED
  BY <1>10, <1>11 DEF Meets, t

LEMMA MaxOfTwo ==
  ASSUME NEW a \in Int, NEW b \in Int
  PROVE  Max({a, b}) = IF a >= b THEN a ELSE b
<1>1. {a, b} \in SUBSET Int /\ IsFiniteSet({a, b}) /\ {a, b} # {}
  <2>1. {a, b} = {a} \cup {b}
    OBVIOUS
  <2>2. IsFiniteSet({a}) /\ IsFiniteSet({b})
    BY FS_Singleton
  <2>3. IsFiniteSet({a} \cup {b})
    BY <2>2, FS_Union
  <2>. QED
    BY <2>1, <2>3
<1>2. Max({a, b}) \in {a, b} /\ \A k \in {a, b} : Max({a, b}) >= k
  BY <1>1, MaxOf
<1>. QED
  BY <1>2

\* An event ends before the next begins.
LEMMA Shortening ==
  ASSUME NEW limit \in Int, NEW s, Meets(1, limit, s),
         \A e, f \in DOMAIN s : e < f => s[e].onset <= s[f].onset
  PROVE  Meets(2, limit, Shortened(s))
<1> DEFINE t == Shortened(s)
<1>1. DOMAIN s = 1..Len(s) /\ Len(s) \in Nat
  BY DEF Meets, IsEvents, IsList
<1>2. IsList(t) /\ DOMAIN t = DOMAIN s
  BY <1>1, ListBySize DEF Shortened
<1>3. ASSUME NEW e \in DOMAIN s
      PROVE  /\ IsEvent(t[e]) /\ t[e].duration >= 0
             /\ t[e].onset = s[e].onset /\ t[e].isGrace = s[e].isGrace
             /\ e + 1 \in DOMAIN s => t[e].isGrace \/ EndOf(t[e]) <= s[e + 1].onset
  <2> DEFINE x == s[e]
             d == Max({0, s[e + 1].onset - s[e].onset})
  <2>1. IsEvent(x) /\ x.duration >= 0
    BY DEF Meets, IsEvents, Lasting
  <2>2. CASE ~Overlaps(s, e)
    <3>1. t[e] = x
      BY <2>2 DEF Shortened
    <3>2. e + 1 \in DOMAIN s => IsEvent(s[e + 1])
      BY DEF Meets, IsEvents
    <3>. QED
      BY <2>1, <2>2, <3>1, <3>2 DEF Overlaps, EndOf, IsEvent
  <2>3. CASE Overlaps(s, e)
    <3>1. e + 1 \in DOMAIN s /\ IsEvent(s[e + 1]) /\ s[e].onset <= s[e + 1].onset
      BY <1>1, <2>3 DEF Overlaps, Meets, IsEvents
    <3>2. d = s[e + 1].onset - s[e].onset /\ d \in Nat
      <4>1. s[e + 1].onset - s[e].onset \in Nat
        BY <2>1, <3>1 DEF IsEvent
      <4>. QED
        BY <4>1, MaxOfTwo
    <3>. HIDE DEF d
    <3>3. t[e] = [x EXCEPT !.duration = d]
      BY <2>3 DEF Shortened, d
    <3>. HIDE DEF t, x
    <3>4. /\ DOMAIN t[e] = DOMAIN x /\ t[e].duration = d /\ t[e].onset = x.onset
          /\ t[e].isGrace = x.isGrace /\ t[e].notes = x.notes
      BY <2>1, <3>3 DEF IsEvent
    <3>5. IsEvent(t[e])
      BY <2>1, <3>2, <3>4 DEF IsEvent
    <3>6. EndOf(t[e]) = s[e + 1].onset
      BY <2>1, <3>1, <3>2, <3>4 DEF EndOf, IsEvent, x
    <3>. QED
      BY <3>1, <3>2, <3>4, <3>5, <3>6 DEF x, IsEvent
  <2>. QED
    BY <2>2, <2>3
<1>. HIDE DEF t
<1>4. Sequential(t)
  <2>. SUFFICES ASSUME NEW e \in DOMAIN s, NEW f \in DOMAIN s, e < f
                PROVE  t[e].onset <= t[f].onset /\ (t[e].isGrace \/ EndOf(t[e]) <= t[f].onset)
    BY <1>2 DEF Sequential
  <2>1. e + 1 \in DOMAIN s /\ (e + 1 = f \/ e + 1 < f)
    BY <1>1
  <2>2. IsEvent(s[e + 1]) /\ IsEvent(s[f]) /\ IsEvent(t[e])
    BY <2>1, <1>3 DEF Meets, IsEvents
  <2>3. s[e + 1].onset <= s[f].onset /\ s[e].onset <= s[f].onset
    BY <2>1, <2>2 DEF IsEvent
  <2>4. t[e].onset = s[e].onset /\ t[f].onset = s[f].onset
    BY <1>3
  <2>5. t[e].isGrace \/ EndOf(t[e]) <= s[e + 1].onset
    BY <1>3, <2>1
  <2>. QED
    BY <2>2, <2>3, <2>4, <2>5 DEF IsEvent, EndOf
<1>. QED
  BY <1>2, <1>3, <1>4 DEF Meets, IsEvents, Lasting, t

\* What is cut at the bar line ends there, and nothing grows.
LEMMA Cutting ==
  ASSUME NEW limit \in Int, NEW s, Meets(2, limit, s),
         \A e \in DOMAIN s : s[e].onset < limit
  PROVE  Meets(3, limit, [e \in DOMAIN s |-> WithinBar(s[e], limit)])
<1> DEFINE t == [e \in DOMAIN s |-> WithinBar(s[e], limit)]
<1>1. DOMAIN s = 1..Len(s) /\ Len(s) \in Nat
  BY DEF Meets, IsEvents, IsList
<1>2. IsList(t) /\ DOMAIN t = DOMAIN s
  BY <1>1, ListBySize
<1>3. ASSUME NEW e \in DOMAIN s
      PROVE  /\ IsEvent(t[e]) /\ t[e].duration >= 0
             /\ t[e].onset = s[e].onset /\ t[e].isGrace = s[e].isGrace
             /\ EndOf(t[e]) <= limit /\ EndOf(t[e]) <= EndOf(s[e])
  <2> DEFINE x == s[e]
             d == IF EndOf(x) <= limit THEN x.duration ELSE limit - x.onset
  <2>1. IsEvent(x) /\ x.duration >= 0 /\ x.onset < limit
    BY DEF Meets, IsEvents, Lasting
  <2>2. /\ d \in Nat /\ x.onset + d <= limit /\ x.onset + d <= EndOf(x)
    BY <2>1 DEF IsEvent, EndOf
  <2>3. t[e] = [x EXCEPT !.duration = d]
    BY DEF WithinBar
  <2>. HIDE DEF d, t
  <2>. HIDE DEF x
  <2>4. /\ DOMAIN t[e] = DOMAIN x /\ t[e].duration = d /\ t[e].onset = x.onset
        /\ t[e].isGrace = x.isGrace /\ t[e].notes = x.notes
    BY <2>1, <2>3 DEF IsEvent
  <2>5. IsEvent(t[e])
    BY <2>1, <2>2, <2>4 DEF IsEvent
  <2>6. EndOf(t[e]) = x.onset + d
    BY <2>4 DEF EndOf
  <2>. QED
    BY <2>2, <2>4, <2>5, <2>6 DEF x
<1>. HIDE DEF t
<1>4. Sequential(t)
  <2>. SUFFICES ASSUME NEW e \in DOMAIN s, NEW f \in DOMAIN s, e < f
                PROVE  t[e].onset <= t[f].onset /\ (t[e].isGrace \/ EndOf(t[e]) <= t[f].onset)
    BY <1>2 DEF Sequential
  <2>1. /\ IsEvent(s[e]) /\ IsEvent(s[f]) /\ IsEvent(t[e]) /\ s[e].onset <= s[f].onset
        /\ s[e].isGrace \/ EndOf(s[e]) <= s[f].onset
    BY <1>3 DEF Meets, IsEvents, Sequential
  <2>2. /\ t[e].onset = s[e].onset /\ t[f].onset = s[f].onset /\ t[e].isGrace = s[e].isGrace
        /\ EndOf(t[e]) <= EndOf(s[e])
    BY <1>3
  <2>. QED
    BY <2>1, <2>2 DEF IsEvent, EndOf
<1>. QED
  BY <1>2, <1>3, <1>4 DEF Meets, IsEvents, Lasting, Inside, t

-----------------------------------------------------------------------------
(* The passes that go voice by voice.                                       *)

IsVoice(stage, limit, x) ==
  {"number", "events"} \subseteq DOMAIN x /\ x.number \in Int /\ Meets(stage, limit, x.events)

IsBar(stage, x) ==
  /\ {"nominal", "start", "voices"} \subseteq DOMAIN x
  /\ x.nominal \in Nat \ {0} /\ IsList(x.voices)
  /\ \A v \in DOMAIN x.voices : IsVoice(stage, x.nominal, x.voices[v])

IsPart(stage, x) ==
  /\ {"id", "measures"} \subseteq DOMAIN x /\ IsList(x.measures)
  /\ \A m \in DOMAIN x.measures : IsBar(stage, x.measures[m])

IsScore(stage, x) ==
  /\ {"parts", "repairs"} \subseteq DOMAIN x /\ IsList(x.parts)
  /\ \A p \in DOMAIN x.parts : IsPart(stage, x.parts[p])

LEMMA Mapped ==
  ASSUME NEW s, IsList(s), NEW t, t = [i \in DOMAIN s |-> t[i]]
  PROVE  IsList(t) /\ DOMAIN t = DOMAIN s
<1>1. DOMAIN s = 1..Len(s) /\ Len(s) \in Nat
  BY DEF IsList
<1>. QED
  BY <1>1, ListBySize

LEMMA ReportedScore ==
  ASSUME NEW stage, NEW s, IsScore(stage, s), NEW kinds
  PROVE  IsScore(stage, Reported(s, kinds)) /\ Reported(s, kinds).parts = s.parts
<1>1. Reported(s, kinds).parts = s.parts /\ DOMAIN Reported(s, kinds) = DOMAIN s
  BY DEF Reported, IsScore
<1>. QED
  BY <1>1 DEF IsScore

LEMMA WithEvents ==
  ASSUME NEW stage, NEW limit, NEW x, NEW k, IsVoice(k, limit, x),
         NEW s, Meets(stage, limit, s)
  PROVE  IsVoice(stage, limit, [x EXCEPT !.events = s])
<1> DEFINE y == [x EXCEPT !.events = s]
<1>1. DOMAIN y = DOMAIN x /\ y.events = s /\ y.number = x.number
  BY DEF IsVoice
<1>. HIDE DEF y
<1>2. IsVoice(stage, limit, y)
  BY <1>1 DEF IsVoice
<1>. QED
  BY <1>2 DEF y

Clamped(measure, voice) == [voice EXCEPT !.events = [e \in DOMAIN @ |-> NonNegative(@[e])]]

Thinned(measure, voice) ==
  [voice EXCEPT !.events = Remaining(@, {e \in DOMAIN @ : Takes(@[e])})]

Arranged(measure, voice) == [voice EXCEPT !.events = Shortened(InTimeOrder(@))]

Beginning(voice, limit) == {e \in DOMAIN voice.events : voice.events[e].onset < limit}

Fitted(measure, voice) ==
  LET kept == Remaining(voice.events, Beginning(voice, measure.nominal))
  IN IF measure.nominal <= 0 THEN voice
     ELSE [voice EXCEPT !.events = [e \in DOMAIN kept |-> WithinBar(kept[e], measure.nominal)]]

\* Each event lasts at least no time.
LEMMA ClampedScore ==
  ASSUME NEW s, IsScore(0, s)
  PROVE  IsScore(1, EachVoice(s, Clamped))
<1> DEFINE Revoiced(x) == [x EXCEPT !.voices = [v \in DOMAIN @ |-> Clamped(x, @[v])]]
           Parted(x) == [x EXCEPT !.measures = [m \in DOMAIN @ |-> Revoiced(@[m])]]
           t == EachVoice(s, Clamped)
<1>1. ASSUME NEW x, IsBar(0, x), NEW v \in DOMAIN x.voices
      PROVE  IsVoice(1, x.nominal, Clamped(x, x.voices[v]))
  <2> DEFINE y == x.voices[v]
             s2 == [e \in DOMAIN y.events |-> NonNegative(y.events[e])]
  <2>1. IsVoice(0, x.nominal, y) /\ x.nominal \in Int
    BY <1>1 DEF IsBar
  <2>. HIDE DEF y
  <2>2. Meets(1, x.nominal, s2)
    BY <2>1, Clamping DEF IsVoice
  <2>. HIDE DEF s2
  <2>3. IsVoice(1, x.nominal, [y EXCEPT !.events = s2])
    BY <2>1, <2>2, WithEvents
  <2>. QED
    BY <2>3 DEF s2, y, Clamped
<1>2. ASSUME NEW x, IsBar(0, x) PROVE IsBar(1, Revoiced(x))
  <2> DEFINE y == Revoiced(x)
             ys == [v \in DOMAIN x.voices |-> Clamped(x, x.voices[v])]
  <2>1. IsList(ys) /\ DOMAIN ys = DOMAIN x.voices
    BY <1>2, Mapped DEF IsBar
  <2>2. \A v \in DOMAIN ys : IsVoice(1, x.nominal, ys[v])
    BY <1>1, <1>2
  <2>. HIDE DEF ys
  <2>3. y = [x EXCEPT !.voices = ys]
    BY DEF ys
  <2>. HIDE DEF y
  <2>4. DOMAIN y = DOMAIN x /\ y.voices = ys /\ y.nominal = x.nominal
    BY <1>2, <2>3 DEF IsBar
  <2>5. IsBar(1, y)
    BY <1>2, <2>1, <2>2, <2>4 DEF IsBar
  <2>. QED
    BY <2>5 DEF y
<1>. HIDE DEF Revoiced
<1>3. ASSUME NEW x, IsPart(0, x) PROVE IsPart(1, Parted(x))
  <2> DEFINE y == Parted(x)
             ms == [m \in DOMAIN x.measures |-> Revoiced(x.measures[m])]
  <2>1. IsList(ms) /\ DOMAIN ms = DOMAIN x.measures
    BY <1>3, Mapped DEF IsPart
  <2>2. \A m \in DOMAIN ms : IsBar(1, ms[m])
    BY <1>2, <1>3, <2>1 DEF IsPart
  <2>. HIDE DEF ms
  <2>3. y = [x EXCEPT !.measures = ms]
    BY DEF ms
  <2>. HIDE DEF y
  <2>4. DOMAIN y = DOMAIN x /\ y.measures = ms
    BY <1>3, <2>3 DEF IsPart
  <2>5. IsPart(1, y)
    BY <1>3, <2>1, <2>2, <2>4 DEF IsPart
  <2>. QED
    BY <2>5 DEF y
<1>4. t = [s EXCEPT !.parts = [p \in DOMAIN @ |-> Parted(@[p])]]
  BY DEF EachVoice, Revoiced
<1>. HIDE DEF Parted
<1>5. DOMAIN t = DOMAIN s /\ t.parts = [p \in DOMAIN s.parts |-> Parted(s.parts[p])]
  BY <1>4 DEF IsScore
<1>. HIDE DEF t
<1>6. IsList(t.parts) /\ DOMAIN t.parts = DOMAIN s.parts
  BY <1>5, Mapped DEF IsScore
<1>7. \A p \in DOMAIN s.parts : t.parts[p] = Parted(s.parts[p]) /\ IsPart(1, t.parts[p])
  BY <1>3, <1>5 DEF IsScore
<1>. QED
  BY <1>5, <1>6, <1>7 DEF IsScore, t

\* Dropping what takes no time leaves the rest as it was.
LEMMA ThinnedScore ==
  ASSUME NEW s, IsScore(1, s)
  PROVE  IsScore(1, EachVoice(s, Thinned))
<1> DEFINE Revoiced(x) == [x EXCEPT !.voices = [v \in DOMAIN @ |-> Thinned(x, @[v])]]
           Parted(x) == [x EXCEPT !.measures = [m \in DOMAIN @ |-> Revoiced(@[m])]]
           t == EachVoice(s, Thinned)
<1>1. ASSUME NEW x, IsBar(1, x), NEW v \in DOMAIN x.voices
      PROVE  IsVoice(1, x.nominal, Thinned(x, x.voices[v]))
  <2> DEFINE y == x.voices[v]
             P == {e \in DOMAIN y.events : Takes(y.events[e])}
             s2 == Remaining(y.events, P)
  <2>1. IsVoice(1, x.nominal, y) /\ x.nominal \in Int
    BY <1>1 DEF IsBar
  <2>. HIDE DEF y
  <2>2. P \in SUBSET DOMAIN y.events
    OBVIOUS
  <2>. HIDE DEF P
  <2>3. Meets(1, x.nominal, s2)
    BY <2>1, <2>2, RemovingKeeps DEF IsVoice
  <2>. HIDE DEF s2
  <2>4. IsVoice(1, x.nominal, [y EXCEPT !.events = s2])
    BY <2>1, <2>3, WithEvents
  <2>. QED
    BY <2>4 DEF s2, P, y, Thinned
<1>2. ASSUME NEW x, IsBar(1, x) PROVE IsBar(1, Revoiced(x))
  <2> DEFINE y == Revoiced(x)
             ys == [v \in DOMAIN x.voices |-> Thinned(x, x.voices[v])]
  <2>1. IsList(ys) /\ DOMAIN ys = DOMAIN x.voices
    BY <1>2, Mapped DEF IsBar
  <2>2. \A v \in DOMAIN ys : IsVoice(1, x.nominal, ys[v])
    BY <1>1, <1>2
  <2>. HIDE DEF ys
  <2>3. y = [x EXCEPT !.voices = ys]
    BY DEF ys
  <2>. HIDE DEF y
  <2>4. DOMAIN y = DOMAIN x /\ y.voices = ys /\ y.nominal = x.nominal
    BY <1>2, <2>3 DEF IsBar
  <2>5. IsBar(1, y)
    BY <1>2, <2>1, <2>2, <2>4 DEF IsBar
  <2>. QED
    BY <2>5 DEF y
<1>. HIDE DEF Revoiced
<1>3. ASSUME NEW x, IsPart(1, x) PROVE IsPart(1, Parted(x))
  <2> DEFINE y == Parted(x)
             ms == [m \in DOMAIN x.measures |-> Revoiced(x.measures[m])]
  <2>1. IsList(ms) /\ DOMAIN ms = DOMAIN x.measures
    BY <1>3, Mapped DEF IsPart
  <2>2. \A m \in DOMAIN ms : IsBar(1, ms[m])
    BY <1>2, <1>3, <2>1 DEF IsPart
  <2>. HIDE DEF ms
  <2>3. y = [x EXCEPT !.measures = ms]
    BY DEF ms
  <2>. HIDE DEF y
  <2>4. DOMAIN y = DOMAIN x /\ y.measures = ms
    BY <1>3, <2>3 DEF IsPart
  <2>5. IsPart(1, y)
    BY <1>3, <2>1, <2>2, <2>4 DEF IsPart
  <2>. QED
    BY <2>5 DEF y
<1>4. t = [s EXCEPT !.parts = [p \in DOMAIN @ |-> Parted(@[p])]]
  BY DEF EachVoice, Revoiced
<1>. HIDE DEF Parted
<1>5. DOMAIN t = DOMAIN s /\ t.parts = [p \in DOMAIN s.parts |-> Parted(s.parts[p])]
  BY <1>4 DEF IsScore
<1>. HIDE DEF t
<1>6. IsList(t.parts) /\ DOMAIN t.parts = DOMAIN s.parts
  BY <1>5, Mapped DEF IsScore
<1>7. \A p \in DOMAIN s.parts : t.parts[p] = Parted(s.parts[p]) /\ IsPart(1, t.parts[p])
  BY <1>3, <1>5 DEF IsScore
<1>. QED
  BY <1>5, <1>6, <1>7 DEF IsScore, t

\* A voice in order, without overlaps.
LEMMA ArrangedScore ==
  ASSUME NEW s, IsScore(1, s)
  PROVE  IsScore(2, EachVoice(s, Arranged))
<1> DEFINE Revoiced(x) == [x EXCEPT !.voices = [v \in DOMAIN @ |-> Arranged(x, @[v])]]
           Parted(x) == [x EXCEPT !.measures = [m \in DOMAIN @ |-> Revoiced(@[m])]]
           t == EachVoice(s, Arranged)
<1>1. ASSUME NEW x, IsBar(1, x), NEW v \in DOMAIN x.voices
      PROVE  IsVoice(2, x.nominal, Arranged(x, x.voices[v]))
  <2> DEFINE y == x.voices[v]
             s2 == InTimeOrder(y.events)
  <2>1. IsVoice(1, x.nominal, y) /\ x.nominal \in Int
    BY <1>1 DEF IsBar
  <2>. HIDE DEF y
  <2>2. Meets(1, x.nominal, s2) /\ \A e, f \in DOMAIN s2 : e < f => s2[e].onset <= s2[f].onset
    BY <2>1, Sorting DEF IsVoice
  <2>. HIDE DEF s2
  <2>3. Meets(2, x.nominal, Shortened(s2))
    BY <2>1, <2>2, Shortening
  <2>4. IsVoice(2, x.nominal, [y EXCEPT !.events = Shortened(s2)])
    BY <2>1, <2>3, WithEvents
  <2>. QED
    BY <2>4 DEF s2, y, Arranged
<1>2. ASSUME NEW x, IsBar(1, x) PROVE IsBar(2, Revoiced(x))
  <2> DEFINE y == Revoiced(x)
             ys == [v \in DOMAIN x.voices |-> Arranged(x, x.voices[v])]
  <2>1. IsList(ys) /\ DOMAIN ys = DOMAIN x.voices
    BY <1>2, Mapped DEF IsBar
  <2>2. \A v \in DOMAIN ys : IsVoice(2, x.nominal, ys[v])
    BY <1>1, <1>2
  <2>. HIDE DEF ys
  <2>3. y = [x EXCEPT !.voices = ys]
    BY DEF ys
  <2>. HIDE DEF y
  <2>4. DOMAIN y = DOMAIN x /\ y.voices = ys /\ y.nominal = x.nominal
    BY <1>2, <2>3 DEF IsBar
  <2>5. IsBar(2, y)
    BY <1>2, <2>1, <2>2, <2>4 DEF IsBar
  <2>. QED
    BY <2>5 DEF y
<1>. HIDE DEF Revoiced
<1>3. ASSUME NEW x, IsPart(1, x) PROVE IsPart(2, Parted(x))
  <2> DEFINE y == Parted(x)
             ms == [m \in DOMAIN x.measures |-> Revoiced(x.measures[m])]
  <2>1. IsList(ms) /\ DOMAIN ms = DOMAIN x.measures
    BY <1>3, Mapped DEF IsPart
  <2>2. \A m \in DOMAIN ms : IsBar(2, ms[m])
    BY <1>2, <1>3, <2>1 DEF IsPart
  <2>. HIDE DEF ms
  <2>3. y = [x EXCEPT !.measures = ms]
    BY DEF ms
  <2>. HIDE DEF y
  <2>4. DOMAIN y = DOMAIN x /\ y.measures = ms
    BY <1>3, <2>3 DEF IsPart
  <2>5. IsPart(2, y)
    BY <1>3, <2>1, <2>2, <2>4 DEF IsPart
  <2>. QED
    BY <2>5 DEF y
<1>4. t = [s EXCEPT !.parts = [p \in DOMAIN @ |-> Parted(@[p])]]
  BY DEF EachVoice, Revoiced
<1>. HIDE DEF Parted
<1>5. DOMAIN t = DOMAIN s /\ t.parts = [p \in DOMAIN s.parts |-> Parted(s.parts[p])]
  BY <1>4 DEF IsScore
<1>. HIDE DEF t
<1>6. IsList(t.parts) /\ DOMAIN t.parts = DOMAIN s.parts
  BY <1>5, Mapped DEF IsScore
<1>7. \A p \in DOMAIN s.parts : t.parts[p] = Parted(s.parts[p]) /\ IsPart(2, t.parts[p])
  BY <1>3, <1>5 DEF IsScore
<1>. QED
  BY <1>5, <1>6, <1>7 DEF IsScore, t

\* No event begins or ends beyond its bar.
LEMMA FittedScore ==
  ASSUME NEW s, IsScore(2, s)
  PROVE  IsScore(3, EachVoice(s, Fitted))
<1> DEFINE Revoiced(x) == [x EXCEPT !.voices = [v \in DOMAIN @ |-> Fitted(x, @[v])]]
           Parted(x) == [x EXCEPT !.measures = [m \in DOMAIN @ |-> Revoiced(@[m])]]
           t == EachVoice(s, Fitted)
<1>1. ASSUME NEW x, IsBar(2, x), NEW v \in DOMAIN x.voices
      PROVE  IsVoice(3, x.nominal, Fitted(x, x.voices[v]))
  <2> DEFINE y == x.voices[v]
             P == Beginning(y, x.nominal)
             s2 == Remaining(y.events, P)
             s3 == [e \in DOMAIN s2 |-> WithinBar(s2[e], x.nominal)]
  <2>1. IsVoice(2, x.nominal, y) /\ x.nominal \in Int /\ ~(x.nominal <= 0)
    BY <1>1 DEF IsBar
  <2>. HIDE DEF y
  <2>2. P \in SUBSET DOMAIN y.events /\ \A e \in P : y.events[e].onset < x.nominal
    BY DEF Beginning
  <2>. HIDE DEF P
  <2>3. /\ Meets(2, x.nominal, s2)
        /\ \A k \in DOMAIN s2 : \E e \in P : s2[k] = y.events[e]
    BY <2>1, <2>2, RemovingKeeps DEF IsVoice
  <2>. HIDE DEF s2
  <2>4. Meets(3, x.nominal, s3)
    BY <2>1, <2>2, <2>3, Cutting
  <2>. HIDE DEF s3
  <2>5. IsVoice(3, x.nominal, [y EXCEPT !.events = s3])
    BY <2>1, <2>4, WithEvents
  <2>. QED
    BY <2>1, <2>5 DEF s3, s2, P, y, Fitted
<1>2. ASSUME NEW x, IsBar(2, x) PROVE IsBar(3, Revoiced(x))
  <2> DEFINE y == Revoiced(x)
             ys == [v \in DOMAIN x.voices |-> Fitted(x, x.voices[v])]
  <2>1. IsList(ys) /\ DOMAIN ys = DOMAIN x.voices
    BY <1>2, Mapped DEF IsBar
  <2>2. \A v \in DOMAIN ys : IsVoice(3, x.nominal, ys[v])
    BY <1>1, <1>2
  <2>. HIDE DEF ys
  <2>3. y = [x EXCEPT !.voices = ys]
    BY DEF ys
  <2>. HIDE DEF y
  <2>4. DOMAIN y = DOMAIN x /\ y.voices = ys /\ y.nominal = x.nominal
    BY <1>2, <2>3 DEF IsBar
  <2>5. IsBar(3, y)
    BY <1>2, <2>1, <2>2, <2>4 DEF IsBar
  <2>. QED
    BY <2>5 DEF y
<1>. HIDE DEF Revoiced
<1>3. ASSUME NEW x, IsPart(2, x) PROVE IsPart(3, Parted(x))
  <2> DEFINE y == Parted(x)
             ms == [m \in DOMAIN x.measures |-> Revoiced(x.measures[m])]
  <2>1. IsList(ms) /\ DOMAIN ms = DOMAIN x.measures
    BY <1>3, Mapped DEF IsPart
  <2>2. \A m \in DOMAIN ms : IsBar(3, ms[m])
    BY <1>2, <1>3, <2>1 DEF IsPart
  <2>. HIDE DEF ms
  <2>3. y = [x EXCEPT !.measures = ms]
    BY DEF ms
  <2>. HIDE DEF y
  <2>4. DOMAIN y = DOMAIN x /\ y.measures = ms
    BY <1>3, <2>3 DEF IsPart
  <2>5. IsPart(3, y)
    BY <1>3, <2>1, <2>2, <2>4 DEF IsPart
  <2>. QED
    BY <2>5 DEF y
<1>4. t = [s EXCEPT !.parts = [p \in DOMAIN @ |-> Parted(@[p])]]
  BY DEF EachVoice, Revoiced
<1>. HIDE DEF Parted
<1>5. DOMAIN t = DOMAIN s /\ t.parts = [p \in DOMAIN s.parts |-> Parted(s.parts[p])]
  BY <1>4 DEF IsScore
<1>. HIDE DEF t
<1>6. IsList(t.parts) /\ DOMAIN t.parts = DOMAIN s.parts
  BY <1>5, Mapped DEF IsScore
<1>7. \A p \in DOMAIN s.parts : t.parts[p] = Parted(s.parts[p]) /\ IsPart(3, t.parts[p])
  BY <1>3, <1>5 DEF IsScore
<1>. QED
  BY <1>5, <1>6, <1>7 DEF IsScore, t

LEMMA DurationsPass ==
  ASSUME NEW s, IsScore(0, s)
  PROVE  IsScore(1, NonNegativeDurations(s))
<1> DEFINE c == EachVoice(s, Clamped)
           t == EachVoice(c, Thinned)
<1>1. IsScore(1, t)
  BY ClampedScore, ThinnedScore
<1>2. \E kinds : NonNegativeDurations(s) = Reported(t, kinds)
  BY DEF NonNegativeDurations, Clamped, Thinned
<1>. HIDE DEF t
<1>. QED
  BY <1>1, <1>2, ReportedScore

LEMMA OrderingPass ==
  ASSUME NEW s, IsScore(1, s)
  PROVE  IsScore(2, VoiceOrdering(s))
<1> DEFINE t == EachVoice(s, Arranged)
<1>1. IsScore(2, t)
  BY ArrangedScore
<1>2. \E kinds : VoiceOrdering(s) = Reported(t, kinds)
  BY DEF VoiceOrdering, Arranged
<1>. HIDE DEF t
<1>. QED
  BY <1>1, <1>2, ReportedScore

LEMMA BoundsPass ==
  ASSUME NEW s, IsScore(2, s)
  PROVE  IsScore(3, MeasureBounds(s))
<1> DEFINE t == EachVoice(s, Fitted)
<1>1. IsScore(3, t)
  BY FittedScore
<1>2. \E kinds : MeasureBounds(s) = Reported(t, kinds)
  BY DEF MeasureBounds, Fitted, Beginning
<1>. HIDE DEF t
<1>. QED
  BY <1>1, <1>2, ReportedScore

-----------------------------------------------------------------------------
(* Bars of one position: the same start and length in every part.           *)

LEMMA SumsExist ==
  ASSUME NEW n \in Nat, NEW c
  PROVE  \E f : f = [m \in 1..n |-> IF m = 1 THEN 0 ELSE f[m - 1] + c[m - 1]]
<1> DEFINE After(f, m) == IF m = 1 THEN 0 ELSE f[m - 1] + c[m - 1]
           S == {k \in Nat : \E f : f = [m \in 1..k |-> After(f, m)]}
<1>1. 0 \in S
  <2>1. [m \in 1..0 |-> 0] = [m \in 1..0 |-> After([m2 \in 1..0 |-> 0], m)]
    OBVIOUS
  <2>. QED
    BY <2>1
<1>2. ASSUME NEW k \in Nat, k \in S PROVE k + 1 \in S
  <2>1. PICK f : f = [m \in 1..k |-> After(f, m)]
    BY <1>2
  <2> DEFINE g == [m \in 1..(k + 1) |-> IF m = k + 1 THEN After(f, m) ELSE f[m]]
  <2>2. \A m \in 1..(k + 1) : g[m] = After(g, m)
    <3>. SUFFICES ASSUME NEW m \in 1..(k + 1) PROVE g[m] = After(g, m)
      OBVIOUS
    <3>1. m # 1 => m - 1 \in 1..k /\ g[m - 1] = f[m - 1]
      OBVIOUS
    <3>2. After(g, m) = After(f, m)
      BY <3>1
    <3>3. m # k + 1 => m \in 1..k
      OBVIOUS
    <3>4. m # k + 1 => f[m] = After(f, m)
      BY <2>1, <3>3
    <3>. QED
      BY <3>2, <3>4
  <2>3. DOMAIN g = 1..(k + 1) /\ g = [m \in 1..(k + 1) |-> g[m]]
    OBVIOUS
  <2>. HIDE DEF g, After
  <2>4. g = [m \in 1..(k + 1) |-> After(g, m)]
    BY <2>2, <2>3
  <2>. QED
    BY <2>4
<1>. HIDE DEF S
<1>3. n \in S
  BY <1>1, <1>2, Induction
<1>. QED
  BY <1>3 DEF S

LEMMA SumsAreNumbers ==
  ASSUME NEW n \in Nat, NEW c, \A m \in 1..n : c[m] \in Nat,
         NEW f, f = [m \in 1..n |-> IF m = 1 THEN 0 ELSE f[m - 1] + c[m - 1]]
  PROVE  \A m \in 1..n : f[m] \in Nat
<1> DEFINE S == {k \in Nat : k \in 1..n => f[k] \in Nat}
<1>1. 0 \in S
  OBVIOUS
<1>2. ASSUME NEW k \in Nat, k \in S PROVE k + 1 \in S
  <2>. SUFFICES ASSUME k + 1 \in 1..n PROVE f[k + 1] \in Nat
    OBVIOUS
  <2>1. f[k + 1] = IF k + 1 = 1 THEN 0 ELSE f[(k + 1) - 1] + c[(k + 1) - 1]
    OBVIOUS
  <2>2. CASE k = 0
    BY <2>1, <2>2
  <2>3. CASE k # 0
    <3>1. k \in 1..n /\ (k + 1) - 1 = k
      BY <2>3
    <3>2. f[k] \in Nat /\ c[k] \in Nat
      BY <1>2, <3>1
    <3>. QED
      BY <2>1, <2>3, <3>1, <3>2
  <2>. QED
    BY <2>2, <2>3
<1>. HIDE DEF S
<1>3. Nat \subseteq S
  BY <1>1, <1>2, Induction
<1>. QED
  BY <1>3 DEF S

Lengths(s) == {Len(s.parts[p].measures) : p \in DOMAIN s.parts}
Claimants(s, m) == {p \in DOMAIN s.parts : m \in DOMAIN s.parts[p].measures}

LEMMA LongestPart ==
  ASSUME NEW stage, NEW s, IsScore(stage, s)
  PROVE  /\ Max({0} \cup Lengths(s)) \in Nat
         /\ \A p \in DOMAIN s.parts : Len(s.parts[p].measures) <= Max({0} \cup Lengths(s))
         /\ Max({0} \cup Lengths(s)) # 0 =>
              \E p \in DOMAIN s.parts : Len(s.parts[p].measures) = Max({0} \cup Lengths(s))
<1> DEFINE f == [p \in DOMAIN s.parts |-> Len(s.parts[p].measures)]
<1>1. \A p \in DOMAIN s.parts : Len(s.parts[p].measures) \in Nat
  BY DEF IsScore, IsPart, IsList
<1>2. IsFiniteSet(Lengths(s))
  <2>1. DOMAIN s.parts = 1..Len(s.parts) /\ Len(s.parts) \in Nat
    BY DEF IsScore, IsList
  <2>2. IsFiniteSet(DOMAIN f)
    BY <2>1, FS_Interval
  <2>3. IsFiniteSet({f[x] : x \in DOMAIN f})
    BY <2>2, FiniteValues
  <2>4. {f[x] : x \in DOMAIN f} = Lengths(s)
    BY DEF Lengths
  <2>. QED
    BY <2>3, <2>4
<1>3. {0} \cup Lengths(s) \in SUBSET Int /\ {0} \cup Lengths(s) # {}
  BY <1>1 DEF Lengths
<1>4. IsFiniteSet({0} \cup Lengths(s))
  <2>1. IsFiniteSet({0})
    BY FS_Singleton
  <2>. QED
    BY <1>2, <2>1, FS_Union
<1>5. /\ Max({0} \cup Lengths(s)) \in {0} \cup Lengths(s)
      /\ \A k \in {0} \cup Lengths(s) : Max({0} \cup Lengths(s)) >= k
  BY <1>3, <1>4, MaxOf
<1>. QED
  BY <1>1, <1>5 DEF Lengths

LEMMA Claim ==
  ASSUME NEW stage, NEW s, IsScore(stage, s), NEW m
  PROVE  /\ LongestClaim(s, m) \in Nat
         /\ \A p \in Claimants(s, m) : s.parts[p].measures[m].nominal <= LongestClaim(s, m)
         /\ Claimants(s, m) # {} => LongestClaim(s, m) # 0
<1> DEFINE f == [p \in Claimants(s, m) |-> s.parts[p].measures[m].nominal]
           T == {f[x] : x \in DOMAIN f}
<1>1. \A p \in Claimants(s, m) : s.parts[p].measures[m].nominal \in Nat \ {0}
  BY DEF IsScore, IsPart, IsBar, Claimants
<1>2. IsFiniteSet(T)
  <2>1. DOMAIN s.parts = 1..Len(s.parts) /\ Len(s.parts) \in Nat
    BY DEF IsScore, IsList
  <2>2. IsFiniteSet(DOMAIN s.parts) /\ Claimants(s, m) \in SUBSET DOMAIN s.parts
    BY <2>1, FS_Interval DEF Claimants
  <2>3. IsFiniteSet(DOMAIN f)
    BY <2>2, FS_Subset
  <2>. QED
    BY <2>3, FiniteValues
<1>3. T \subseteq Nat /\ \A p \in Claimants(s, m) : s.parts[p].measures[m].nominal \in T
  BY <1>1
<1>4. LongestClaim(s, m) = Max({0} \cup T)
  <2>1. T = {s.parts[p].measures[m].nominal : p \in Claimants(s, m)}
    OBVIOUS
  <2>. HIDE DEF T
  <2>. QED
    BY <2>1 DEF LongestClaim, Claimants
<1>. HIDE DEF T
<1>5. IsFiniteSet({0} \cup T)
  <2>1. IsFiniteSet({0})
    BY FS_Singleton
  <2>. QED
    BY <1>2, <2>1, FS_Union
<1>6. Max({0} \cup T) \in {0} \cup T /\ \A k \in {0} \cup T : Max({0} \cup T) >= k
  <2>1. {0} \cup T \in SUBSET Int /\ {0} \cup T # {}
    BY <1>3
  <2>. QED
    BY <1>5, <2>1, MaxOf
<1>7. Max({0} \cup T) \in Nat /\ \A k \in T : Max({0} \cup T) >= k
  <2>0. {0} \cup T \subseteq Nat
    BY <1>3
  <2>1. Max({0} \cup T) \in Nat
    BY <2>0, <1>6
  <2>2. \A k \in T : k \in {0} \cup T
    OBVIOUS
  <2>. QED
    BY <2>1, <2>2, <1>6
<1>8. \A p \in Claimants(s, m) : /\ s.parts[p].measures[m].nominal <= LongestClaim(s, m)
                                 /\ LongestClaim(s, m) # 0
  <2>. SUFFICES ASSUME NEW p \in Claimants(s, m)
                PROVE  /\ s.parts[p].measures[m].nominal <= LongestClaim(s, m)
                       /\ LongestClaim(s, m) # 0
    OBVIOUS
  <2> DEFINE x == s.parts[p].measures[m].nominal
  <2>1. x \in T /\ x \in Nat \ {0}
    BY <1>1, <1>3
  <2>. HIDE DEF x
  <2>2. x <= Max({0} \cup T)
    BY <2>1, <1>7
  <2>. QED
    BY <2>1, <2>2, <1>4, <1>7 DEF x
<1>. QED
  BY <1>4, <1>7, <1>8

\* All parts have as many bars, with the same starts and lengths, one behind the other.
Keeps(s, n, starts, claims) ==
  /\ \A m \in 1..n : /\ starts[m] \in Nat /\ claims[m] \in Nat
                     /\ m > 1 => starts[m] = starts[m - 1] + claims[m - 1]
  /\ \A p \in DOMAIN s.parts :
       /\ Len(s.parts[p].measures) = n
       /\ \A m \in 1..n : /\ s.parts[p].measures[m].start = starts[m]
                          /\ s.parts[p].measures[m].nominal = claims[m]

InStep(s) == \E n \in Nat : \E starts, claims : Keeps(s, n, starts, claims)

LEMMA Singleton ==
  ASSUME NEW x
  PROVE  IsList(<<x>>) /\ DOMAIN <<x>> = {1} /\ <<x>>[1] = x
<1>1. <<x>> \in Seq({x}) /\ Len(<<x>>) = 1
  OBVIOUS
<1>2. IsList(<<x>>)
  BY <1>1, SeqIsAList
<1>. QED
  BY <1>1, <1>2

LEMMA NoElements == IsList(<<>>) /\ DOMAIN <<>> = {} /\ Len(<<>>) = 0
<1>1. <<>> \in Seq({}) /\ Len(<<>>) = 0
  BY EmptySeq
<1>2. DOMAIN <<>> = 1..0 /\ 1..0 = {}
  BY <1>1, LenProperties
<1>3. IsList(<<>>)
  BY <1>1, SeqIsAList
<1>. QED
  BY <1>1, <1>2, <1>3

LEMMA NothingBefore ==
  ASSUME NEW t, IsList(t)
  PROVE  <<>> \o t = t
<1>1. t \in Seq({t[i] : i \in DOMAIN t})
  BY ListIsASeq
<1> DEFINE S == {t[i] : i \in DOMAIN t}
<1>. HIDE DEF S
<1>2. t \in Seq(S)
  BY <1>1 DEF S
<1>. QED
  BY <1>2, ConcatEmptySeq

\* What is joined to a list follows it.
LEMMA JoinedPlaces ==
  ASSUME NEW s, IsList(s), NEW t, IsList(t)
  PROVE  /\ DOMAIN s \subseteq DOMAIN (s \o t)
         /\ \A i \in DOMAIN s : (s \o t)[i] = s[i]
         /\ \A i \in DOMAIN (s \o t) \ DOMAIN s : \E j \in DOMAIN t : (s \o t)[i] = t[j]
<1> DEFINE S == {s[i] : i \in DOMAIN s} \cup {t[i] : i \in DOMAIN t}
           m == Len(s)
           n == Len(t)
           j == s \o t
<1>1. s \in Seq(S) /\ t \in Seq(S)
  <2>1. s \in Seq({s[i] : i \in DOMAIN s}) /\ t \in Seq({t[i] : i \in DOMAIN t})
    BY ListIsASeq
  <2>2. {s[i] : i \in DOMAIN s} \subseteq S /\ {t[i] : i \in DOMAIN t} \subseteq S
    OBVIOUS
  <2>. QED
    BY <2>1, <2>2, SeqMonotonic
<1>. HIDE DEF S
<1>2. /\ Len(j) = m + n /\ DOMAIN j = 1..Len(j)
      /\ \A i \in 1..(m + n) : j[i] = IF i <= m THEN s[i] ELSE t[i - m]
  BY <1>1, ConcatProperties, LenProperties
<1>3. DOMAIN s = 1..m /\ DOMAIN t = 1..n /\ m \in Nat /\ n \in Nat
  BY DEF IsList
<1>. HIDE DEF j, m, n
<1>4. DOMAIN s \subseteq DOMAIN j /\ \A i \in DOMAIN s : j[i] = s[i]
  BY <1>2, <1>3
<1>5. ASSUME NEW i \in DOMAIN j \ DOMAIN s PROVE \E k \in DOMAIN t : j[i] = t[k]
  <2>1. i \in 1..(m + n) /\ ~(i <= m) /\ i - m \in 1..n
    BY <1>2, <1>3
  <2>2. j[i] = t[i - m]
    BY <1>2, <2>1
  <2>. QED
    BY <1>3, <2>1, <2>2
<1>. QED
  BY <1>4, <1>5 DEF j

LEMMA Padding ==
  ASSUME NEW length \in Nat \ {0}
  PROVE  IsBar(3, PaddingBar(length)) /\ PaddingBar(length).nominal = length
<1> DEFINE event == [onset |-> 0, duration |-> length, isGrace |-> FALSE, notes |-> <<>>]
           voice == [number |-> 1, events |-> <<event>>]
           bar == [nominal |-> length, start |-> 0, voices |-> <<voice>>]
<1>1. IsEvent(event) /\ event.duration = length /\ EndOf(event) = length
  <2>1. IsNotes(<<>>)
    BY NoElements DEF IsNotes
  <2>. QED
    BY <2>1 DEF IsEvent, EndOf
<1>. HIDE DEF event
<1>2. Meets(3, length, <<event>>)
  BY <1>1, Singleton DEF Meets, IsEvents, Lasting, Sequential, Inside
<1>3. IsVoice(3, length, voice)
  BY <1>2 DEF IsVoice
<1>. HIDE DEF voice
<1>4. IsBar(3, bar)
  BY <1>3, Singleton DEF IsBar
<1>5. PaddingBar(length) = bar
  BY DEF PaddingBar, bar, voice, event
<1>. QED
  BY <1>4, <1>5

LEMMA AlignmentPass ==
  ASSUME NEW s, IsScore(3, s)
  PROVE  IsScore(3, MeasureAlignment(s)) /\ InStep(MeasureAlignment(s))
<1> DEFINE longest == Max({0} \cup Lengths(s))
           claims == [m \in 1..longest |-> LongestClaim(s, m)]
           Starts(f) == f = [m \in 1..longest |->
                               IF m = 1 THEN 0 ELSE f[m - 1] + LongestClaim(s, m - 1)]
           starts == CHOOSE f : Starts(f)
           Bar(part, m) == IF m \in DOMAIN part.measures THEN part.measures[m]
                           ELSE PaddingBar(LongestClaim(s, m))
           Placed(part, m) == [Bar(part, m) EXCEPT !.start = starts[m],
                                                   !.nominal = LongestClaim(s, m)]
           Aligned(part) == [part EXCEPT !.measures = [m \in 1..longest |-> Placed(part, m)]]
           t == [s EXCEPT !.parts = [p \in DOMAIN @ |-> Aligned(@[p])]]
<1>1. /\ longest \in Nat
      /\ \A p \in DOMAIN s.parts : Len(s.parts[p].measures) <= longest
      /\ longest # 0 => \E p \in DOMAIN s.parts : Len(s.parts[p].measures) = longest
  BY LongestPart, SMTT(30)
<1>2. \E kinds : MeasureAlignment(s) = Reported(t, kinds)
  BY Zenon DEF MeasureAlignment, Lengths
<1>. HIDE DEF longest
<1>3. \A p \in DOMAIN s.parts : /\ IsPart(3, s.parts[p]) /\ IsList(s.parts[p].measures)
                                /\ DOMAIN s.parts[p].measures = 1..Len(s.parts[p].measures)
                                /\ Len(s.parts[p].measures) \in Nat
  BY DEF IsScore, IsPart, IsList
<1>4. \A m \in 1..longest : claims[m] = LongestClaim(s, m) /\ claims[m] \in Nat \ {0}
  <2>. SUFFICES ASSUME NEW m \in 1..longest PROVE LongestClaim(s, m) \in Nat \ {0}
    OBVIOUS
  <2>1. longest # 0
    BY <1>1
  <2>2. PICK p \in DOMAIN s.parts : Len(s.parts[p].measures) = longest
    BY <1>1, <2>1
  <2>3. p \in Claimants(s, m)
    BY <1>3, <2>2 DEF Claimants
  <2>. QED
    BY <2>3, Claim
<1>5. Starts(starts)
  <2>1. PICK f : f = [m \in 1..longest |-> IF m = 1 THEN 0 ELSE f[m - 1] + claims[m - 1]]
    BY <1>1, SumsExist
  <2>2. \A m \in 1..longest : m # 1 => m - 1 \in 1..longest
    BY <1>1
  <2>3. \A m \in 1..longest : m # 1 => claims[m - 1] = LongestClaim(s, m - 1)
    BY <2>2
  <2>. HIDE DEF claims
  <2>4. Starts(f)
    BY <2>1, <2>3
  <2>. QED
    BY <2>4
<1>. HIDE DEF starts
<1>6. \A m \in 1..longest : /\ starts[m] \in Nat
                            /\ m > 1 => starts[m] = starts[m - 1] + claims[m - 1]
  <2>1. \A m \in 1..longest : m # 1 => m - 1 \in 1..longest
    BY <1>1
  <2>2. \A m \in 1..longest : m # 1 => claims[m - 1] = LongestClaim(s, m - 1)
    BY <2>1
  <2>. HIDE DEF claims
  <2>3. starts = [m \in 1..longest |-> IF m = 1 THEN 0 ELSE starts[m - 1] + claims[m - 1]]
    BY <1>5, <2>2
  <2>4. \A m \in 1..longest : starts[m] \in Nat
    BY <1>1, <1>4, <2>3, SumsAreNumbers
  <2>5. \A m \in 1..longest : m > 1 => starts[m] = starts[m - 1] + claims[m - 1]
    BY <1>1, <2>3
  <2>. QED
    BY <2>4, <2>5
<1>7. ASSUME NEW p \in DOMAIN s.parts, NEW m \in 1..longest
      PROVE  /\ IsBar(3, Placed(s.parts[p], m))
             /\ Placed(s.parts[p], m).start = starts[m]
             /\ Placed(s.parts[p], m).nominal = claims[m]
  <2> DEFINE x == Bar(s.parts[p], m)
             c == LongestClaim(s, m)
             y == [x EXCEPT !.start = starts[m], !.nominal = c]
  <2>1. c \in Nat \ {0} /\ c = claims[m]
    BY <1>4
  <2>2. IsBar(3, x) /\ x.nominal <= c
    <3>1. CASE m \in DOMAIN s.parts[p].measures
      <4>1. x = s.parts[p].measures[m] /\ IsBar(3, x)
        BY <1>3, <3>1 DEF IsPart
      <4>2. p \in Claimants(s, m)
        BY <3>1 DEF Claimants
      <4>. QED
        BY <4>1, <4>2, Claim
    <3>2. CASE m \notin DOMAIN s.parts[p].measures
      BY <2>1, <3>2, Padding
    <3>. QED
      BY <3>1, <3>2
  <2>. HIDE DEF c, x
  <2>3. /\ DOMAIN y = DOMAIN x /\ y.start = starts[m] /\ y.nominal = c /\ y.voices = x.voices
    BY <2>2 DEF IsBar
  <2>4. \A v \in DOMAIN x.voices : IsVoice(3, c, x.voices[v])
    <3>. SUFFICES ASSUME NEW v \in DOMAIN x.voices PROVE IsVoice(3, c, x.voices[v])
      OBVIOUS
    <3>1. IsVoice(3, x.nominal, x.voices[v]) /\ x.nominal \in Nat
      BY <2>2 DEF IsBar
    <3>2. \A e \in DOMAIN x.voices[v].events :
            /\ EndOf(x.voices[v].events[e]) \in Int
            /\ EndOf(x.voices[v].events[e]) <= x.nominal
      BY <3>1 DEF IsVoice, Meets, IsEvents, IsEvent, EndOf, Inside
    <3>3. Inside(c, x.voices[v].events)
      BY <3>1, <3>2, <2>1, <2>2 DEF Inside
    <3>. QED
      BY <3>1, <3>3 DEF IsVoice, Meets
  <2>. HIDE DEF y
  <2>5. IsBar(3, y)
    BY <2>1, <2>2, <2>3, <2>4 DEF IsBar
  <2>. QED
    BY <2>1, <2>3, <2>5 DEF y, x, c
<1>. HIDE DEF Placed, claims
<1>8. ASSUME NEW p \in DOMAIN s.parts
      PROVE  /\ IsPart(3, Aligned(s.parts[p])) /\ Len(Aligned(s.parts[p]).measures) = longest
             /\ \A m \in 1..longest : /\ Aligned(s.parts[p]).measures[m].start = starts[m]
                                      /\ Aligned(s.parts[p]).measures[m].nominal = claims[m]
  <2> DEFINE x == s.parts[p]
             ms == [m \in 1..longest |-> Placed(x, m)]
             y == [x EXCEPT !.measures = ms]
  <2>1. IsList(ms) /\ Len(ms) = longest /\ DOMAIN ms = 1..longest
    BY <1>1, ListBySize
  <2>2. \A m \in 1..longest : /\ IsBar(3, ms[m]) /\ ms[m].start = starts[m]
                              /\ ms[m].nominal = claims[m]
    BY <1>7
  <2>. HIDE DEF ms
  <2>3. DOMAIN y = DOMAIN x /\ y.measures = ms
    BY <1>3 DEF IsPart
  <2>4. y = Aligned(x)
    BY DEF ms
  <2>. HIDE DEF y
  <2>5. IsPart(3, y)
    BY <1>3, <2>1, <2>2, <2>3 DEF IsPart
  <2>. HIDE DEF Aligned
  <2>. QED
    BY <2>1, <2>2, <2>3, <2>4, <2>5
<1>. HIDE DEF Aligned
<1>9. DOMAIN t = DOMAIN s /\ t.parts = [p \in DOMAIN s.parts |-> Aligned(s.parts[p])]
  BY DEF IsScore
<1>. HIDE DEF t
<1>10. IsList(t.parts) /\ DOMAIN t.parts = DOMAIN s.parts
  BY <1>9, Mapped DEF IsScore
<1>11. \A p \in DOMAIN s.parts :
         /\ IsPart(3, t.parts[p]) /\ Len(t.parts[p].measures) = longest
         /\ \A m \in 1..longest : /\ t.parts[p].measures[m].start = starts[m]
                                  /\ t.parts[p].measures[m].nominal = claims[m]
  BY <1>8, <1>9
<1>12. IsScore(3, t)
  BY <1>9, <1>10, <1>11 DEF IsScore
<1>13. Keeps(t, longest, starts, claims)
  <2>1. \A m \in 1..longest : /\ starts[m] \in Nat /\ claims[m] \in Nat
                              /\ m > 1 => starts[m] = starts[m - 1] + claims[m - 1]
    BY <1>4, <1>6
  <2>. QED
    BY <2>1, <1>10, <1>11 DEF Keeps
<1>14. PICK kinds : MeasureAlignment(s) = Reported(t, kinds)
  BY <1>2 DEF t
<1>15. IsScore(3, Reported(t, kinds)) /\ Reported(t, kinds).parts = t.parts
  BY <1>12, ReportedScore
<1>16. Keeps(Reported(t, kinds), longest, starts, claims)
  BY <1>13, <1>15 DEF Keeps
<1>. QED
  BY <1>1, <1>14, <1>15, <1>16 DEF InStep

-----------------------------------------------------------------------------
(* Part identifiers.                                                        *)

\* There are more numbers to try than identifiers to avoid.
LEMMA GeneratedIsFree ==
  ASSUME NEW seen, IsFiniteSet(seen), NEW p
  PROVE  Generated(p, seen) \notin seen /\ Generated(p, seen) # <<>>
<1> DEFINE n == Cardinality(seen)
           free == {xs \in 0..n : <<"P", p, xs>> \notin seen}
           f == [xs \in 0..n |-> <<"P", p, xs>>]
<1>1. n \in Nat
  BY FS_CardinalityType
<1>2. free # {}
  <2>1. SUFFICES ASSUME \A xs \in 0..n : f[xs] \in seen PROVE FALSE
    OBVIOUS
  <2>2. IsFiniteSet(0..n) /\ Cardinality(0..n) = n + 1
    <3>1. IsFiniteSet(0..n) /\ Cardinality(0..n) = IF 0 > n THEN 0 ELSE n - 0 + 1
      BY <1>1, FS_Interval
    <3>. QED
      BY <1>1, <3>1
  <2>3. f \in [0..n -> seen]
    BY <2>1
  <2>4. \A x, y \in 0..n : f[x] = f[y] => x = y
    OBVIOUS
  <2>5. Cardinality(seen) < Cardinality(0..n)
    BY <1>1, <2>2
  <2>. HIDE DEF f, n
  <2>6. \E x, y \in 0..n : x # y /\ f[x] = f[y]
    BY <2>2, <2>3, <2>5, FS_PigeonHole
  <2>. QED
    BY <2>4, <2>6
<1>3. IsFiniteSet(free) /\ free \in SUBSET Int
  <2>1. IsFiniteSet(0..n)
    BY <1>1, FS_Interval
  <2>2. free \in SUBSET (0..n)
    OBVIOUS
  <2>. HIDE DEF free
  <2>3. IsFiniteSet(free)
    BY <2>1, <2>2, FS_Subset
  <2>. QED
    BY <1>1, <2>2, <2>3
<1>4. Min(free) \in free
  BY <1>2, <1>3, MinOf
<1>5. Generated(p, seen) = <<"P", p, Min(free)>>
  BY DEF Generated
<1>6. <<"P", p, Min(free)>> # <<>>
  OBVIOUS
<1>. QED
  BY <1>4, <1>5, <1>6

IdOf(s, p, seen) ==
  IF s.parts[p].id # <<>> /\ s.parts[p].id \notin seen THEN s.parts[p].id
  ELSE Generated(p, seen)

Renames(s, n, ids) == ids = [p \in 1..n |-> IdOf(s, p, {ids[q] : q \in 1..(p - 1)})]

LEMMA IdsExist ==
  ASSUME NEW s, NEW n \in Nat
  PROVE  \E ids : Renames(s, n, ids)
<1> DEFINE S == {k \in Nat : \E f : Renames(s, k, f)}
<1>1. 0 \in S
  <2>1. Renames(s, 0, [p \in 1..0 |-> 0])
    BY DEF Renames
  <2>. QED
    BY <2>1
<1>2. ASSUME NEW k \in Nat, k \in S PROVE k + 1 \in S
  <2>1. PICK f : Renames(s, k, f)
    BY <1>2
  <2> DEFINE Before(h, p) == {h[q] : q \in 1..(p - 1)}
             g == [p \in 1..(k + 1) |-> IF p = k + 1 THEN IdOf(s, p, Before(f, p)) ELSE f[p]]
  <2>2. \A p \in 1..(k + 1) : Before(g, p) = Before(f, p)
    <3>1. \A p \in 1..(k + 1) : \A q \in 1..(p - 1) : q \in 1..(k + 1) /\ g[q] = f[q]
      OBVIOUS
    <3>. HIDE DEF g
    <3>. QED
      BY <3>1
  <2>3. \A p \in 1..(k + 1) : g[p] = IdOf(s, p, Before(g, p))
    <3>. SUFFICES ASSUME NEW p \in 1..(k + 1) PROVE g[p] = IdOf(s, p, Before(f, p))
      BY <2>2
    <3>1. CASE p = k + 1
      BY <3>1
    <3>2. CASE p # k + 1
      <4>1. p \in 1..k
        BY <3>2
      <4>2. f[p] = IdOf(s, p, Before(f, p))
        BY <2>1, <4>1 DEF Renames
      <4>. QED
        BY <3>2, <4>2
    <3>. QED
      BY <3>1, <3>2
  <2>4. DOMAIN g = 1..(k + 1) /\ g = [p \in 1..(k + 1) |-> g[p]]
    OBVIOUS
  <2>. HIDE DEF g, Before
  <2>5. g = [p \in 1..(k + 1) |-> IdOf(s, p, Before(g, p))]
    BY <2>3, <2>4
  <2>6. Renames(s, k + 1, g)
    BY <2>5 DEF Renames, Before
  <2>. QED
    BY <2>6
<1>. HIDE DEF S
<1>3. n \in S
  BY <1>1, <1>2, Induction
<1>. QED
  BY <1>3 DEF S

NamedApart(s) ==
  /\ \A p \in DOMAIN s.parts : s.parts[p].id # <<>>
  /\ \A p, q \in DOMAIN s.parts : s.parts[p].id = s.parts[q].id => p = q

LEMMA NamingPass ==
  ASSUME NEW s, IsScore(3, s), InStep(s)
  PROVE  /\ IsScore(3, UniquePartIds(s)) /\ InStep(UniquePartIds(s))
         /\ NamedApart(UniquePartIds(s))
<1> DEFINE n == Len(s.parts)
           Names(f) == f = [p \in DOMAIN s.parts |-> IdOf(s, p, {f[q] : q \in 1..(p - 1)})]
           ids == CHOOSE f : Names(f)
           t == [s EXCEPT !.parts = [p \in DOMAIN @ |-> [@[p] EXCEPT !.id = ids[p]]]]
<1>1. n \in Nat /\ DOMAIN s.parts = 1..n
  BY DEF IsScore, IsList
<1>2. \E kinds : UniquePartIds(s) = Reported(t, kinds)
  BY DEF UniquePartIds, IdOf
<1>3. Renames(s, n, ids)
  <2>0. PICK f : Renames(s, n, f)
    BY <1>1, IdsExist
  <2>1. Names(f)
    BY <1>1, <2>0 DEF Renames
  <2>2. Names(ids)
    BY <2>1
  <2>. QED
    BY <1>1, <2>2 DEF Renames
<1>. HIDE DEF ids, n
<1> DEFINE Before(p) == {ids[q] : q \in 1..(p - 1)}
<1>4. \A p \in 1..n : ids[p] \notin Before(p) /\ ids[p] # <<>>
  <2>. SUFFICES ASSUME NEW p \in 1..n PROVE ids[p] \notin Before(p) /\ ids[p] # <<>>
    OBVIOUS
  <2>1. IsFiniteSet(Before(p))
    <3> DEFINE f == [q \in 1..(p - 1) |-> ids[q]]
    <3>1. IsFiniteSet(DOMAIN f)
      BY FS_Interval
    <3>2. IsFiniteSet({f[q] : q \in DOMAIN f})
      BY <3>1, FiniteValues
    <3>3. {f[q] : q \in DOMAIN f} = Before(p)
      OBVIOUS
    <3>. QED
      BY <3>2, <3>3
  <2>2. ids[p] = IdOf(s, p, Before(p))
    BY <1>3 DEF Renames
  <2>. HIDE DEF Before
  <2>. QED
    BY <2>1, <2>2, GeneratedIsFree DEF IdOf
<1>5. \A p, q \in 1..n : ids[p] = ids[q] => p = q
  <2>. SUFFICES ASSUME NEW p \in 1..n, NEW q \in 1..n, p < q PROVE ids[p] # ids[q]
    BY <1>1
  <2>1. p \in 1..(q - 1)
    OBVIOUS
  <2>. QED
    BY <2>1, <1>4
<1>6. DOMAIN t = DOMAIN s /\ t.parts = [p \in DOMAIN s.parts |-> [s.parts[p] EXCEPT !.id = ids[p]]]
  BY DEF IsScore
<1>. HIDE DEF t
<1>7. IsList(t.parts) /\ DOMAIN t.parts = DOMAIN s.parts
  BY <1>6, Mapped DEF IsScore
<1>8. \A p \in DOMAIN s.parts : /\ DOMAIN t.parts[p] = DOMAIN s.parts[p]
                                /\ t.parts[p].id = ids[p]
                                /\ t.parts[p].measures = s.parts[p].measures
  <2>. SUFFICES ASSUME NEW p \in DOMAIN s.parts
                PROVE  /\ DOMAIN t.parts[p] = DOMAIN s.parts[p]
                       /\ t.parts[p].id = ids[p]
                       /\ t.parts[p].measures = s.parts[p].measures
    OBVIOUS
  <2> DEFINE x == s.parts[p]
  <2>1. {"id", "measures"} \subseteq DOMAIN x /\ t.parts[p] = [x EXCEPT !.id = ids[p]]
    BY <1>6 DEF IsScore, IsPart
  <2>. HIDE DEF x
  <2>2. /\ DOMAIN t.parts[p] = DOMAIN x /\ t.parts[p].id = ids[p]
        /\ t.parts[p].measures = x.measures
    BY <2>1
  <2>. QED
    BY <2>2 DEF x
<1>9. IsScore(3, t)
  BY <1>6, <1>7, <1>8 DEF IsScore, IsPart
<1>10. NamedApart(t)
  BY <1>1, <1>4, <1>5, <1>7, <1>8 DEF NamedApart
<1>11. PICK m \in Nat : \E starts, claims : Keeps(s, m, starts, claims)
  BY DEF InStep
<1>12. PICK starts, claims : Keeps(s, m, starts, claims)
  BY <1>11
<1>13. Keeps(t, m, starts, claims)
  BY <1>7, <1>8, <1>12 DEF Keeps
<1>14. PICK kinds : UniquePartIds(s) = Reported(t, kinds)
  BY <1>2 DEF t
<1>15. IsScore(3, Reported(t, kinds)) /\ Reported(t, kinds).parts = t.parts
  BY <1>9, ReportedScore
<1>16. Keeps(Reported(t, kinds), m, starts, claims) /\ NamedApart(Reported(t, kinds))
  BY <1>10, <1>13, <1>15 DEF Keeps, NamedApart
<1>. QED
  BY <1>14, <1>15, <1>16 DEF InStep

-----------------------------------------------------------------------------
(* Ties: what changes when only the links of notes do.                      *)

LikeNotes(s, t) == t = [n \in DOMAIN s |-> t[n]] /\ \A n \in DOMAIN s : DOMAIN t[n] = DOMAIN s[n]

LikeEvents(s, t) ==
  /\ t = [e \in DOMAIN s |-> [s[e] EXCEPT !.notes = t[e].notes]]
  /\ \A e \in DOMAIN s : LikeNotes(s[e].notes, t[e].notes)

LikeVoices(s, t) ==
  /\ t = [v \in DOMAIN s |-> [s[v] EXCEPT !.events = t[v].events]]
  /\ \A v \in DOMAIN s : LikeEvents(s[v].events, t[v].events)

LikeBars(s, t) ==
  /\ t = [m \in DOMAIN s |-> [s[m] EXCEPT !.voices = t[m].voices]]
  /\ \A m \in DOMAIN s : LikeVoices(s[m].voices, t[m].voices)

LEMMA RelinkedEvents ==
  ASSUME NEW stage \in 0..3, NEW limit, NEW s, Meets(stage, limit, s), NEW t, LikeEvents(s, t)
  PROVE  /\ Meets(stage, limit, t) /\ DOMAIN t = DOMAIN s
         /\ \A e \in DOMAIN s : DOMAIN t[e].notes = DOMAIN s[e].notes
<1>1. IsList(s) /\ \A e \in DOMAIN s : IsEvent(s[e])
  BY DEF Meets, IsEvents
<1>2. DOMAIN t = DOMAIN s /\ \A e \in DOMAIN s : t[e] = [s[e] EXCEPT !.notes = t[e].notes]
  BY DEF LikeEvents
<1>3. t = [e \in DOMAIN s |-> t[e]]
  BY <1>2 DEF LikeEvents
<1>4. IsList(t)
  BY <1>1, <1>3, Mapped
<1>5. ASSUME NEW e \in DOMAIN s
      PROVE  /\ IsEvent(t[e]) /\ t[e].onset = s[e].onset /\ t[e].duration = s[e].duration
             /\ t[e].isGrace = s[e].isGrace /\ DOMAIN t[e].notes = DOMAIN s[e].notes
  <2> DEFINE x == s[e]
             y == t[e]
             ns == t[e].notes
  <2>1. IsEvent(x) /\ y = [x EXCEPT !.notes = ns] /\ LikeNotes(x.notes, ns)
    BY <1>1, <1>2 DEF LikeEvents
  <2>2. IsNotes(ns) /\ DOMAIN ns = DOMAIN x.notes
    <3>1. IsList(x.notes) /\ ns = [n \in DOMAIN x.notes |-> ns[n]]
      BY <2>1 DEF IsEvent, IsNotes, LikeNotes
    <3>2. IsList(ns) /\ DOMAIN ns = DOMAIN x.notes
      BY <3>1, Mapped
    <3>. QED
      BY <2>1, <3>2 DEF IsEvent, IsNotes, LikeNotes
  <2>. HIDE DEF x, y, ns
  <2>3. /\ DOMAIN y = DOMAIN x /\ y.onset = x.onset /\ y.duration = x.duration
        /\ y.isGrace = x.isGrace /\ y.notes = ns
    BY <2>1 DEF IsEvent
  <2>4. IsEvent(y)
    BY <2>1, <2>2, <2>3 DEF IsEvent
  <2>. QED
    BY <2>2, <2>3, <2>4 DEF x, y, ns
<1>6. IsEvents(t)
  BY <1>2, <1>4, <1>5 DEF IsEvents
<1>7. stage >= 1 => Lasting(t)
  BY <1>2, <1>5 DEF Meets, Lasting
<1>8. stage >= 2 => Sequential(t)
  BY <1>2, <1>5 DEF Meets, Sequential, EndOf
<1>9. stage >= 3 => Inside(limit, t)
  BY <1>2, <1>5 DEF Meets, Inside, EndOf
<1>. QED
  BY <1>2, <1>5, <1>6, <1>7, <1>8, <1>9 DEF Meets

LEMMA RelinkedBar ==
  ASSUME NEW stage \in 0..3, NEW x, IsBar(stage, x),
         NEW y, y = [x EXCEPT !.voices = y.voices], LikeVoices(x.voices, y.voices)
  PROVE  /\ IsBar(stage, y) /\ y.start = x.start /\ y.nominal = x.nominal
         /\ DOMAIN y.voices = DOMAIN x.voices
         /\ \A v \in DOMAIN x.voices : DOMAIN y.voices[v].events = DOMAIN x.voices[v].events
         /\ \A v \in DOMAIN x.voices : \A e \in DOMAIN x.voices[v].events :
              DOMAIN y.voices[v].events[e].notes = DOMAIN x.voices[v].events[e].notes
<1> DEFINE vs == y.voices
<1>. HIDE DEF vs
<1>0. y = [x EXCEPT !.voices = vs] /\ LikeVoices(x.voices, vs)
  BY DEF vs
<1>1. /\ DOMAIN y = DOMAIN x /\ y.voices = vs /\ y.start = x.start /\ y.nominal = x.nominal
  BY <1>0 DEF IsBar
<1>2. /\ DOMAIN vs = DOMAIN x.voices
      /\ \A v \in DOMAIN x.voices : vs[v] = [x.voices[v] EXCEPT !.events = vs[v].events]
  BY <1>0 DEF LikeVoices
<1>3. vs = [v \in DOMAIN x.voices |-> vs[v]]
  BY <1>0, <1>2 DEF LikeVoices
<1>4. IsList(vs)
  BY <1>3, Mapped DEF IsBar
<1>5. ASSUME NEW v \in DOMAIN x.voices
      PROVE  /\ IsVoice(stage, x.nominal, vs[v])
             /\ DOMAIN vs[v].events = DOMAIN x.voices[v].events
             /\ \A e \in DOMAIN x.voices[v].events :
                  DOMAIN vs[v].events[e].notes = DOMAIN x.voices[v].events[e].notes
  <2> DEFINE a == x.voices[v]
             es == vs[v].events
  <2>1. IsVoice(stage, x.nominal, a) /\ LikeEvents(a.events, es)
    BY <1>0 DEF IsBar, LikeVoices
  <2>2. vs[v] = [a EXCEPT !.events = es]
    BY <1>2
  <2>. HIDE DEF a, es
  <2>3. Meets(stage, x.nominal, a.events)
    BY <2>1 DEF IsVoice
  <2>4. /\ Meets(stage, x.nominal, es) /\ DOMAIN es = DOMAIN a.events
        /\ \A e \in DOMAIN a.events : DOMAIN es[e].notes = DOMAIN a.events[e].notes
    BY <2>1, <2>3, RelinkedEvents
  <2>5. IsVoice(stage, x.nominal, vs[v])
    BY <2>1, <2>2, <2>4, WithEvents
  <2>. QED
    BY <2>4, <2>5 DEF a, es
<1>6. IsBar(stage, y)
  BY <1>1, <1>2, <1>4, <1>5 DEF IsBar
<1>. QED
  BY <1>1, <1>2, <1>5, <1>6

LEMMA RelinkedBars ==
  ASSUME NEW stage \in 0..3, NEW x, IsList(x.measures),
         \A m \in DOMAIN x.measures : IsBar(stage, x.measures[m]),
         NEW y, LikeBars(x.measures, y.measures)
  PROVE  /\ IsList(y.measures) /\ DOMAIN y.measures = DOMAIN x.measures
         /\ \A m \in DOMAIN x.measures : /\ IsBar(stage, y.measures[m])
                                         /\ y.measures[m].start = x.measures[m].start
                                         /\ y.measures[m].nominal = x.measures[m].nominal
         /\ Refs(y) = Refs(x)
<1> DEFINE s == x.measures
           t == y.measures
<1>1. /\ DOMAIN t = DOMAIN s
      /\ \A m \in DOMAIN s : t[m] = [s[m] EXCEPT !.voices = t[m].voices]
  BY DEF LikeBars
<1>2. t = [m \in DOMAIN s |-> t[m]]
  BY <1>1 DEF LikeBars
<1>3. IsList(t)
  BY <1>2, Mapped
<1>4. ASSUME NEW m \in DOMAIN s
      PROVE  /\ IsBar(stage, t[m]) /\ t[m].start = s[m].start /\ t[m].nominal = s[m].nominal
             /\ DOMAIN t[m].voices = DOMAIN s[m].voices
             /\ \A v \in DOMAIN s[m].voices :
                  DOMAIN t[m].voices[v].events = DOMAIN s[m].voices[v].events
             /\ \A v \in DOMAIN s[m].voices : \A e \in DOMAIN s[m].voices[v].events :
                  DOMAIN t[m].voices[v].events[e].notes = DOMAIN s[m].voices[v].events[e].notes
  <2> DEFINE a == s[m]
             b == t[m]
  <2>1. IsBar(stage, a) /\ LikeVoices(a.voices, b.voices) /\ b = [a EXCEPT !.voices = b.voices]
    BY <1>1 DEF LikeBars
  <2>. HIDE DEF a, b
  <2>2. /\ IsBar(stage, b) /\ b.start = a.start /\ b.nominal = a.nominal
        /\ DOMAIN b.voices = DOMAIN a.voices
        /\ \A v \in DOMAIN a.voices : DOMAIN b.voices[v].events = DOMAIN a.voices[v].events
        /\ \A v \in DOMAIN a.voices : \A e \in DOMAIN a.voices[v].events :
             DOMAIN b.voices[v].events[e].notes = DOMAIN a.voices[v].events[e].notes
    BY <2>1, RelinkedBar
  <2>. QED
    BY <2>2 DEF a, b
<1>5. Refs(y) = Refs(x)
  BY <1>1, <1>4 DEF Refs
<1>. QED
  BY <1>1, <1>3, <1>4, <1>5

\* Relinked(x, links), level by level.
LEMMA RelinkingLinks ==
  ASSUME NEW stage \in 0..3, NEW x, "measures" \in DOMAIN x, IsList(x.measures),
         \A m \in DOMAIN x.measures : IsBar(stage, x.measures[m]), NEW links
  PROVE  /\ DOMAIN Relinked(x, links) = DOMAIN x
         /\ \A key \in DOMAIN x \ {"measures"} : Relinked(x, links)[key] = x[key]
         /\ LikeBars(x.measures, Relinked(x, links).measures)
         /\ \A ref \in Refs(x) : /\ NoteAt(Relinked(x, links), ref).to = links[ref].to
                                 /\ NoteAt(Relinked(x, links), ref).from = links[ref].from
                                 /\ NoteAt(Relinked(x, links), ref).sounding
                                      = NoteAt(x, ref).sounding
                                 /\ NoteAt(Relinked(x, links), ref).id = NoteAt(x, ref).id
<1> DEFINE y == Relinked(x, links)
           OldNotes(m, v, e) == x.measures[m].voices[v].events[e].notes
           OldEvents(m, v) == x.measures[m].voices[v].events
           OldVoices(m) == x.measures[m].voices
           Note(m, v, e, n) == [OldNotes(m, v, e)[n] EXCEPT !.to = links[<<m, v, e, n>>].to,
                                                            !.from = links[<<m, v, e, n>>].from]
           NewNotes(m, v, e) == [n \in DOMAIN OldNotes(m, v, e) |-> Note(m, v, e, n)]
           NewEvents(m, v) == [e \in DOMAIN OldEvents(m, v) |->
                                [OldEvents(m, v)[e] EXCEPT !.notes = NewNotes(m, v, e)]]
           NewVoices(m) == [v \in DOMAIN OldVoices(m) |->
                             [OldVoices(m)[v] EXCEPT !.events = NewEvents(m, v)]]
           NewBars == [m \in DOMAIN x.measures |->
                        [x.measures[m] EXCEPT !.voices = NewVoices(m)]]
           Voiced(m) == m \in DOMAIN x.measures
           Held(m, v) == Voiced(m) /\ v \in DOMAIN OldVoices(m)
           Sounded(m, v, e) == Held(m, v) /\ e \in DOMAIN OldEvents(m, v)
<1>1. y = [x EXCEPT !.measures = NewBars]
  BY DEF Relinked
<1>2. \A m : Voiced(m) =>
        /\ "voices" \in DOMAIN x.measures[m]
        /\ \A v \in DOMAIN OldVoices(m) :
             /\ "events" \in DOMAIN OldVoices(m)[v]
             /\ \A e \in DOMAIN OldEvents(m, v) :
                  /\ "notes" \in DOMAIN OldEvents(m, v)[e]
                  /\ \A n \in DOMAIN OldNotes(m, v, e) :
                       {"to", "from", "sounding", "id"} \subseteq DOMAIN OldNotes(m, v, e)[n]
  BY SMTT(30) DEF IsBar, IsVoice, Meets, IsEvents, IsEvent, IsNotes
<1>3. \A m, v, e : Sounded(m, v, e) =>
        /\ LikeNotes(OldNotes(m, v, e), NewNotes(m, v, e))
        /\ \A n \in DOMAIN OldNotes(m, v, e) :
             /\ Note(m, v, e, n).to = links[<<m, v, e, n>>].to
             /\ Note(m, v, e, n).from = links[<<m, v, e, n>>].from
             /\ Note(m, v, e, n).sounding = OldNotes(m, v, e)[n].sounding
             /\ Note(m, v, e, n).id = OldNotes(m, v, e)[n].id
             /\ NewNotes(m, v, e)[n] = Note(m, v, e, n)
  <2>. SUFFICES ASSUME NEW m, NEW v, NEW e, Sounded(m, v, e)
                PROVE  /\ LikeNotes(OldNotes(m, v, e), NewNotes(m, v, e))
                       /\ \A n \in DOMAIN OldNotes(m, v, e) :
                            /\ Note(m, v, e, n).to = links[<<m, v, e, n>>].to
                            /\ Note(m, v, e, n).from = links[<<m, v, e, n>>].from
                            /\ Note(m, v, e, n).sounding = OldNotes(m, v, e)[n].sounding
                            /\ Note(m, v, e, n).id = OldNotes(m, v, e)[n].id
                            /\ NewNotes(m, v, e)[n] = Note(m, v, e, n)
    BY ZenonT(30)
  <2> DEFINE ns == OldNotes(m, v, e)
  <2>1. \A n \in DOMAIN ns : {"to", "from", "sounding", "id"} \subseteq DOMAIN ns[n]
    BY <1>2
  <2>. HIDE DEF ns
  <2>2. \A n \in DOMAIN ns :
          /\ DOMAIN Note(m, v, e, n) = DOMAIN ns[n]
          /\ Note(m, v, e, n).to = links[<<m, v, e, n>>].to
          /\ Note(m, v, e, n).from = links[<<m, v, e, n>>].from
          /\ Note(m, v, e, n).sounding = ns[n].sounding
          /\ Note(m, v, e, n).id = ns[n].id
    BY <2>1 DEF ns
  <2>. HIDE DEF Note
  <2>3. NewNotes(m, v, e) = [n \in DOMAIN ns |-> Note(m, v, e, n)]
    BY DEF ns
  <2>. HIDE DEF NewNotes
  <2>4. LikeNotes(ns, NewNotes(m, v, e))
    BY <2>2, <2>3 DEF LikeNotes
  <2>. QED
    BY <2>2, <2>3, <2>4, ZenonT(30) DEF ns
<1>. HIDE DEF Note, NewNotes
<1>4. \A m, v : Held(m, v) =>
        /\ LikeEvents(OldEvents(m, v), NewEvents(m, v))
        /\ \A e \in DOMAIN OldEvents(m, v) : NewEvents(m, v)[e].notes = NewNotes(m, v, e)
  <2>. SUFFICES ASSUME NEW m, NEW v, Held(m, v)
                PROVE  /\ LikeEvents(OldEvents(m, v), NewEvents(m, v))
                       /\ \A e \in DOMAIN OldEvents(m, v) :
                            NewEvents(m, v)[e].notes = NewNotes(m, v, e)
    OBVIOUS
  <2> DEFINE es == OldEvents(m, v)
             t == NewEvents(m, v)
  <2>1. \A e \in DOMAIN es : /\ "notes" \in DOMAIN es[e]
                             /\ LikeNotes(es[e].notes, NewNotes(m, v, e))
    BY <1>2, <1>3
  <2>2. t = [e \in DOMAIN es |-> [es[e] EXCEPT !.notes = NewNotes(m, v, e)]]
    OBVIOUS
  <2>. HIDE DEF es, t
  <2>3. \A e \in DOMAIN es : t[e].notes = NewNotes(m, v, e)
    BY <2>1, <2>2
  <2>4. LikeEvents(es, t)
    BY <2>1, <2>2, <2>3 DEF LikeEvents
  <2>. QED
    BY <2>3, <2>4 DEF es, t
<1>. HIDE DEF NewEvents
<1>5. \A m : Voiced(m) =>
        /\ LikeVoices(OldVoices(m), NewVoices(m))
        /\ \A v \in DOMAIN OldVoices(m) : NewVoices(m)[v].events = NewEvents(m, v)
  <2>. SUFFICES ASSUME NEW m, Voiced(m)
                PROVE  /\ LikeVoices(OldVoices(m), NewVoices(m))
                       /\ \A v \in DOMAIN OldVoices(m) : NewVoices(m)[v].events = NewEvents(m, v)
    OBVIOUS
  <2> DEFINE vs == OldVoices(m)
             t == NewVoices(m)
  <2>1. \A v \in DOMAIN vs : /\ "events" \in DOMAIN vs[v]
                             /\ LikeEvents(vs[v].events, NewEvents(m, v))
    BY <1>2, <1>4
  <2>2. t = [v \in DOMAIN vs |-> [vs[v] EXCEPT !.events = NewEvents(m, v)]]
    OBVIOUS
  <2>. HIDE DEF vs, t
  <2>3. \A v \in DOMAIN vs : t[v].events = NewEvents(m, v)
    BY <2>1, <2>2
  <2>4. LikeVoices(vs, t)
    BY <2>1, <2>2, <2>3 DEF LikeVoices
  <2>. QED
    BY <2>3, <2>4 DEF vs, t
<1>. HIDE DEF NewVoices
<1>6. /\ LikeBars(x.measures, NewBars)
      /\ \A m \in DOMAIN x.measures : NewBars[m].voices = NewVoices(m)
  <2> DEFINE ms == x.measures
             t == NewBars
  <2>1. \A m \in DOMAIN ms : /\ "voices" \in DOMAIN ms[m]
                             /\ LikeVoices(ms[m].voices, NewVoices(m))
    BY <1>2, <1>5
  <2>2. t = [m \in DOMAIN ms |-> [ms[m] EXCEPT !.voices = NewVoices(m)]]
    OBVIOUS
  <2>. HIDE DEF ms, t
  <2>3. \A m \in DOMAIN ms : t[m].voices = NewVoices(m)
    BY <2>1, <2>2
  <2>4. LikeBars(ms, t)
    BY <2>1, <2>2, <2>3 DEF LikeBars
  <2>. QED
    BY <2>3, <2>4 DEF ms, t
<1>. HIDE DEF NewBars
<1>7. /\ DOMAIN y = DOMAIN x /\ y.measures = NewBars
      /\ \A key \in DOMAIN x \ {"measures"} : y[key] = x[key]
  BY <1>1
<1>. HIDE DEF y
<1>8. \A ref \in Refs(x) : /\ NoteAt(y, ref).to = links[ref].to
                           /\ NoteAt(y, ref).from = links[ref].from
                           /\ NoteAt(y, ref).sounding = NoteAt(x, ref).sounding
                           /\ NoteAt(y, ref).id = NoteAt(x, ref).id
  <2>. SUFFICES ASSUME NEW ref \in Refs(x)
                PROVE  /\ NoteAt(y, ref).to = links[ref].to
                       /\ NoteAt(y, ref).from = links[ref].from
                       /\ NoteAt(y, ref).sounding = NoteAt(x, ref).sounding
                       /\ NoteAt(y, ref).id = NoteAt(x, ref).id
    OBVIOUS
  <2>1. PICK m \in DOMAIN x.measures :
          \E v \in DOMAIN OldVoices(m) : \E e \in DOMAIN OldEvents(m, v) :
            \E n \in DOMAIN OldNotes(m, v, e) : ref = <<m, v, e, n>>
    BY DEF Refs
  <2>2. PICK v \in DOMAIN OldVoices(m) : \E e \in DOMAIN OldEvents(m, v) :
          \E n \in DOMAIN OldNotes(m, v, e) : ref = <<m, v, e, n>>
    BY <2>1
  <2>3. PICK e \in DOMAIN OldEvents(m, v) :
          \E n \in DOMAIN OldNotes(m, v, e) : ref = <<m, v, e, n>>
    BY <2>2
  <2>4. PICK n \in DOMAIN OldNotes(m, v, e) : ref = <<m, v, e, n>>
    BY <2>3
  <2>5. NoteAt(y, ref) = NewNotes(m, v, e)[n]
    BY <1>4, <1>5, <1>6, <1>7, <2>4 DEF NoteAt
  <2>6. NoteAt(x, ref) = OldNotes(m, v, e)[n]
    BY <2>4 DEF NoteAt
  <2>. QED
    BY <1>3, <2>4, <2>5, <2>6
<1>. QED
  BY <1>6, <1>7, <1>8 DEF y

\* A link and its mirror fail together: what is kept is mirrored by what is kept.
LEMMA TiesPass ==
  ASSUME NEW x, IsPart(3, x)
  PROVE  /\ IsPart(3, TiesKept(x)) /\ TiesKept(x).id = x.id
         /\ DOMAIN TiesKept(x).measures = DOMAIN x.measures
         /\ \A m \in DOMAIN x.measures :
              /\ TiesKept(x).measures[m].start = x.measures[m].start
              /\ TiesKept(x).measures[m].nominal = x.measures[m].nominal
         /\ \A ref \in Refs(TiesKept(x)) :
              /\ NoteAt(TiesKept(x), ref).to # NoRef => Holds(TiesKept(x), ref, TRUE)
              /\ NoteAt(TiesKept(x), ref).from # NoRef => Holds(TiesKept(x), ref, FALSE)
<1> DEFINE Kept(ref, forward, link) == IF Holds(x, ref, forward) THEN link ELSE NoRef
           links == [ref \in Refs(x) |-> [to |-> Kept(ref, TRUE, NoteAt(x, ref).to),
                                          from |-> Kept(ref, FALSE, NoteAt(x, ref).from)]]
           y == TiesKept(x)
<1>1. y = Relinked(x, links)
  BY DEF TiesKept
<1>2. /\ {"id", "measures"} \subseteq DOMAIN x /\ IsList(x.measures)
      /\ \A m \in DOMAIN x.measures : IsBar(3, x.measures[m])
  BY DEF IsPart
<1>3. \A ref \in Refs(x) : /\ links[ref].to = Kept(ref, TRUE, NoteAt(x, ref).to)
                           /\ links[ref].from = Kept(ref, FALSE, NoteAt(x, ref).from)
  OBVIOUS
<1>. HIDE DEF links, y
<1>4. /\ DOMAIN y = DOMAIN x
      /\ \A key \in DOMAIN x \ {"measures"} : y[key] = x[key]
      /\ LikeBars(x.measures, y.measures)
      /\ \A ref \in Refs(x) : /\ NoteAt(y, ref).to = links[ref].to
                              /\ NoteAt(y, ref).from = links[ref].from
                              /\ NoteAt(y, ref).sounding = NoteAt(x, ref).sounding
  BY <1>1, <1>2, RelinkingLinks
<1>5. /\ IsList(y.measures) /\ DOMAIN y.measures = DOMAIN x.measures
      /\ \A m \in DOMAIN x.measures : /\ IsBar(3, y.measures[m])
                                      /\ y.measures[m].start = x.measures[m].start
                                      /\ y.measures[m].nominal = x.measures[m].nominal
      /\ Refs(y) = Refs(x)
  BY <1>2, <1>4, RelinkedBars
<1>6. y.id = x.id
  BY <1>2, <1>4
<1>7. IsPart(3, y)
  BY <1>2, <1>4, <1>5 DEF IsPart
<1>8. ASSUME NEW ref \in Refs(x), NoteAt(y, ref).to # NoRef PROVE Holds(y, ref, TRUE)
  <2> DEFINE link == NoteAt(x, ref).to
  <2>1. Holds(x, ref, TRUE) /\ NoteAt(y, ref).to = link
    BY <1>3, <1>4, <1>8
  <2>. HIDE DEF link
  <2>2. /\ link \in Refs(x) /\ ref = NoteAt(x, link).from
        /\ NoteAt(x, ref).sounding = NoteAt(x, link).sounding
    BY <2>1 DEF Holds, Mirrored, SameSound, Resolves, link
  <2>3. Holds(x, link, FALSE)
    BY <2>2 DEF Holds, Mirrored, SameSound, Resolves, link
  <2>4. NoteAt(y, link).from = ref
    BY <1>3, <1>4, <2>2, <2>3
  <2>5. NoteAt(y, ref).sounding = NoteAt(y, link).sounding
    BY <1>4, <2>2
  <2>. QED
    BY <1>5, <2>1, <2>2, <2>4, <2>5 DEF Holds, Mirrored, SameSound, Resolves
<1>9. ASSUME NEW ref \in Refs(x), NoteAt(y, ref).from # NoRef PROVE Holds(y, ref, FALSE)
  <2> DEFINE link == NoteAt(x, ref).from
  <2>1. Holds(x, ref, FALSE) /\ NoteAt(y, ref).from = link
    BY <1>3, <1>4, <1>9
  <2>. HIDE DEF link
  <2>2. /\ link \in Refs(x) /\ ref = NoteAt(x, link).to
        /\ NoteAt(x, ref).sounding = NoteAt(x, link).sounding
    BY <2>1 DEF Holds, Mirrored, SameSound, Resolves, link
  <2>3. Holds(x, link, TRUE)
    BY <2>2 DEF Holds, Mirrored, SameSound, Resolves, link
  <2>4. NoteAt(y, link).to = ref
    BY <1>3, <1>4, <2>2, <2>3
  <2>5. NoteAt(y, ref).sounding = NoteAt(y, link).sounding
    BY <1>4, <2>2
  <2>. QED
    BY <1>5, <2>1, <2>2, <2>4, <2>5 DEF Holds, Mirrored, SameSound, Resolves
<1>. QED
  BY <1>5, <1>6, <1>7, <1>8, <1>9 DEF y

LinksHold(s) ==
  \A p \in DOMAIN s.parts : \A ref \in Refs(s.parts[p]) :
    /\ NoteAt(s.parts[p], ref).to # NoRef => Holds(s.parts[p], ref, TRUE)
    /\ NoteAt(s.parts[p], ref).from # NoRef => Holds(s.parts[p], ref, FALSE)

LEMMA LinkingPass ==
  ASSUME NEW s, IsScore(3, s), InStep(s), NamedApart(s)
  PROVE  /\ IsScore(3, TieIntegrity(s)) /\ InStep(TieIntegrity(s))
         /\ NamedApart(TieIntegrity(s)) /\ LinksHold(TieIntegrity(s))
<1> DEFINE t == [s EXCEPT !.parts = [p \in DOMAIN @ |-> TiesKept(@[p])]]
<1>1. \E kinds : TieIntegrity(s) = Reported(t, kinds)
  BY DEF TieIntegrity
<1>2. DOMAIN t = DOMAIN s /\ t.parts = [p \in DOMAIN s.parts |-> TiesKept(s.parts[p])]
  BY DEF IsScore
<1>. HIDE DEF t
<1>3. IsList(t.parts) /\ DOMAIN t.parts = DOMAIN s.parts
  BY <1>2, Mapped DEF IsScore
<1>4. ASSUME NEW p \in DOMAIN s.parts
      PROVE  /\ IsPart(3, t.parts[p]) /\ t.parts[p].id = s.parts[p].id
             /\ Len(t.parts[p].measures) = Len(s.parts[p].measures)
             /\ DOMAIN t.parts[p].measures = DOMAIN s.parts[p].measures
             /\ \A m \in DOMAIN s.parts[p].measures :
                  /\ t.parts[p].measures[m].start = s.parts[p].measures[m].start
                  /\ t.parts[p].measures[m].nominal = s.parts[p].measures[m].nominal
             /\ \A ref \in Refs(t.parts[p]) :
                  /\ NoteAt(t.parts[p], ref).to # NoRef => Holds(t.parts[p], ref, TRUE)
                  /\ NoteAt(t.parts[p], ref).from # NoRef => Holds(t.parts[p], ref, FALSE)
  <2> DEFINE x == s.parts[p]
  <2>1. IsPart(3, x) /\ t.parts[p] = TiesKept(x)
    BY <1>2 DEF IsScore
  <2>. HIDE DEF x
  <2>2. /\ IsPart(3, TiesKept(x)) /\ TiesKept(x).id = x.id
        /\ DOMAIN TiesKept(x).measures = DOMAIN x.measures
        /\ \A m \in DOMAIN x.measures :
             /\ TiesKept(x).measures[m].start = x.measures[m].start
             /\ TiesKept(x).measures[m].nominal = x.measures[m].nominal
        /\ \A ref \in Refs(TiesKept(x)) :
             /\ NoteAt(TiesKept(x), ref).to # NoRef => Holds(TiesKept(x), ref, TRUE)
             /\ NoteAt(TiesKept(x), ref).from # NoRef => Holds(TiesKept(x), ref, FALSE)
    BY <2>1, TiesPass
  <2>3. Len(TiesKept(x).measures) = Len(x.measures)
    <3>1. /\ DOMAIN TiesKept(x).measures = 1..Len(TiesKept(x).measures)
          /\ Len(TiesKept(x).measures) \in Nat
      BY <2>2 DEF IsPart, IsList
    <3>2. DOMAIN x.measures = 1..Len(x.measures) /\ Len(x.measures) \in Nat
      BY <2>1 DEF IsPart, IsList
    <3>3. 1..Len(TiesKept(x).measures) = 1..Len(x.measures)
      BY <2>2, <3>1, <3>2
    <3>. QED
      BY <3>1, <3>2, <3>3
  <2>. QED
    BY <2>1, <2>2, <2>3 DEF x
<1>5. IsScore(3, t)
  BY <1>2, <1>3, <1>4 DEF IsScore
<1>6. NamedApart(t)
  BY <1>3, <1>4 DEF NamedApart
<1>7. LinksHold(t)
  BY <1>3, <1>4 DEF LinksHold
<1>8. PICK m \in Nat : \E starts, claims : Keeps(s, m, starts, claims)
  BY DEF InStep
<1>9. PICK starts, claims : Keeps(s, m, starts, claims)
  BY <1>8
<1>10. \A p \in DOMAIN s.parts : DOMAIN s.parts[p].measures = 1..m
  BY <1>9 DEF Keeps, IsScore, IsPart, IsList
<1>11. Keeps(t, m, starts, claims)
  <2>1. ASSUME NEW p \in DOMAIN t.parts
        PROVE  /\ Len(t.parts[p].measures) = m
               /\ \A k \in 1..m : /\ t.parts[p].measures[k].start = starts[k]
                                  /\ t.parts[p].measures[k].nominal = claims[k]
    <3>1. /\ p \in DOMAIN s.parts /\ Len(s.parts[p].measures) = m
          /\ \A k \in 1..m : /\ s.parts[p].measures[k].start = starts[k]
                             /\ s.parts[p].measures[k].nominal = claims[k]
      BY <1>3, <1>9 DEF Keeps
    <3>2. DOMAIN s.parts[p].measures = 1..m
      BY <1>10, <3>1
    <3>. QED
      BY <1>4, <3>1, <3>2
  <2>. QED
    BY <1>9, <2>1 DEF Keeps
<1>12. PICK kinds : TieIntegrity(s) = Reported(t, kinds)
  BY <1>1 DEF t
<1>13. IsScore(3, Reported(t, kinds)) /\ Reported(t, kinds).parts = t.parts
  BY <1>5, ReportedScore
<1>14. Keeps(Reported(t, kinds), m, starts, claims)
  BY <1>11, <1>13 DEF Keeps
<1>15. NamedApart(Reported(t, kinds)) /\ LinksHold(Reported(t, kinds))
  BY <1>6, <1>7, <1>13 DEF NamedApart, LinksHold
<1>. QED
  BY <1>12, <1>13, <1>14, <1>15 DEF InStep

\* What the six passes make of any score with bars and numbers in it.
IsRepaired(s) == IsScore(3, s) /\ InStep(s) /\ NamedApart(s) /\ LinksHold(s)

LEMMA PassesRepair ==
  ASSUME NEW s, IsScore(0, s)
  PROVE  IsRepaired(EnforceInvariants(s))
<1>1. IsScore(1, NonNegativeDurations(s))
  BY DurationsPass
<1>2. IsScore(2, VoiceOrdering(NonNegativeDurations(s)))
  BY <1>1, OrderingPass
<1>3. IsScore(3, MeasureBounds(VoiceOrdering(NonNegativeDurations(s))))
  BY <1>2, BoundsPass
<1> DEFINE a == MeasureAlignment(MeasureBounds(VoiceOrdering(NonNegativeDurations(s))))
<1>4. IsScore(3, a) /\ InStep(a)
  BY <1>3, AlignmentPass
<1>5. EnforceInvariants(s) = TieIntegrity(UniquePartIds(a))
  BY DEF EnforceInvariants
<1>. HIDE DEF a
<1> DEFINE b == UniquePartIds(a)
<1>6. IsScore(3, b) /\ InStep(b) /\ NamedApart(b)
  BY <1>4, NamingPass
<1>. HIDE DEF b
<1>7. IsRepaired(TieIntegrity(b))
  BY <1>6, LinkingPass DEF IsRepaired
<1>. QED
  BY <1>5, <1>7 DEF b

LEMMA RepairedIsWellFormed ==
  ASSUME NEW s, IsRepaired(s)
  PROVE  WellFormed(s)
<1>1. PICK n \in Nat : \E starts, claims : Keeps(s, n, starts, claims)
  BY DEF IsRepaired, InStep
<1>2. PICK starts, claims : Keeps(s, n, starts, claims)
  BY <1>1
<1>3. \A p \in DOMAIN s.parts : /\ IsPart(3, s.parts[p]) /\ s.parts[p].id # <<>>
                                /\ DOMAIN s.parts[p].measures = 1..n
  BY <1>2 DEF IsRepaired, NamedApart, IsScore, IsPart, IsList, Keeps
<1>4. ASSUME NEW p \in DOMAIN s.parts
      PROVE  WellFormedPart(s.parts[p])
  <2> DEFINE x == s.parts[p]
  <2>1. ASSUME NEW m \in DOMAIN x.measures, m > 1
        PROVE  x.measures[m].start = x.measures[m - 1].start + x.measures[m - 1].nominal
    <3>1. m \in 1..n /\ m - 1 \in 1..n
      BY <1>3, <2>1, SMTT(30)
    <3>. QED
      BY <3>1, <1>2, <2>1 DEF Keeps
  <2>2. ASSUME NEW m \in DOMAIN x.measures, NEW v \in DOMAIN x.measures[m].voices
        PROVE  /\ EventsInOrder(x.measures[m].voices[v])
               /\ \A e \in DOMAIN x.measures[m].voices[v].events :
                    EndOf(x.measures[m].voices[v].events[e]) <= x.measures[m].nominal
    <3> DEFINE es == x.measures[m].voices[v].events
    <3>1. Meets(3, x.measures[m].nominal, es)
      BY <1>3 DEF IsPart, IsBar, IsVoice
    <3>. HIDE DEF es
    <3>2. Lasting(es) /\ Sequential(es) /\ Inside(x.measures[m].nominal, es)
      BY <3>1 DEF Meets
    <3>3. DOMAIN es \subseteq Nat
      BY <3>1 DEF Meets, IsEvents, IsList
    <3>4. \A e \in DOMAIN es :
            /\ es[e].duration >= 0
            /\ e + 1 \in DOMAIN es =>
                 /\ es[e].onset <= es[e + 1].onset
                 /\ es[e].isGrace \/ EndOf(es[e]) <= es[e + 1].onset
      BY <3>2, <3>3 DEF Lasting, Sequential
    <3>. QED
      BY <3>2, <3>4, ZenonT(30) DEF EventsInOrder, Inside, es
  <2>3. \A ref \in Refs(x) : /\ NoteAt(x, ref).to # NoRef => Holds(x, ref, TRUE)
                             /\ NoteAt(x, ref).from # NoRef => Holds(x, ref, FALSE)
    BY DEF IsRepaired, LinksHold
  <2>. HIDE DEF x
  <2>4. WellFormedPart(x)
    BY <2>1, <2>2, <2>3 DEF WellFormedPart
  <2>. QED
    BY <2>4 DEF x
<1>5. ASSUME NEW p \in DOMAIN s.parts, NEW q \in DOMAIN s.parts
      PROVE  /\ s.parts[p].id = s.parts[q].id => p = q
             /\ Len(s.parts[p].measures) = Len(s.parts[q].measures)
             /\ \A m \in DOMAIN s.parts[p].measures :
                  /\ s.parts[p].measures[m].start = s.parts[q].measures[m].start
                  /\ s.parts[p].measures[m].nominal = s.parts[q].measures[m].nominal
  BY <1>2, <1>3 DEF IsRepaired, NamedApart, Keeps
<1>. QED
  BY <1>3, <1>4, <1>5 DEF WellFormed

\* The six passes of enforceInvariants, one after the other, make any score well formed whose
\* ticks are numbers and whose bars have a length: whatever its events, links and identifiers
\* are, and whatever an earlier pass left behind.
THEOREM EnforcedIsWellFormed ==
  ASSUME NEW s, IsScore(0, s)
  PROVE  WellFormed(EnforceInvariants(s))
<1>. HIDE DEF EnforceInvariants
<1>. QED
  BY PassesRepair, RepairedIsWellFormed

-----------------------------------------------------------------------------
(* The note that the target-note tool selects.                              *)

\* The least by two keys and by the place.
LEMMA LeastByKeys ==
  ASSUME NEW V \in SUBSET Int, IsFiniteSet(V), V # {},
         NEW f, NEW g, \A v \in V : f[v] \in Int /\ g[v] \in Int
  PROVE  \E v \in V : \A w \in V \ {v} : \/ f[v] < f[w]
                                         \/ f[v] = f[w] /\ g[v] < g[w]
                                         \/ f[v] = f[w] /\ g[v] = g[w] /\ v < w
<1>1. ASSUME NEW W \in SUBSET V, W # {}, NEW key, \A w \in W : key[w] \in Int
      PROVE  \E v \in W : \A w \in W : key[v] <= key[w]
  <2> DEFINE h == [w \in W |-> key[w]]
             T == {h[w] : w \in DOMAIN h}
  <2>1. IsFiniteSet(DOMAIN h)
    <3>1. IsFiniteSet(W)
      BY FS_Subset
    <3>. QED
      BY <3>1
  <2>2. IsFiniteSet(T)
    BY <2>1, FiniteValues
  <2>3. T \in SUBSET Int /\ T # {}
    BY <1>1
  <2>4. T = {key[w] : w \in W}
    OBVIOUS
  <2>. HIDE DEF T, h
  <2>5. PICK t \in T : \A k \in T : t <= k
    BY <2>2, <2>3, Bounded
  <2>. QED
    BY <2>4, <2>5
<1>2. PICK a \in V : \A w \in V : f[a] <= f[w]
  BY <1>1
<1> DEFINE V1 == {w \in V : f[w] = f[a]}
<1>3. PICK b \in V1 : \A w \in V1 : g[b] <= g[w]
  BY <1>1
<1> DEFINE V2 == {w \in V1 : g[w] = g[b]}
           spot == [w \in V2 |-> w]
<1>4. \E c \in V2 : \A w \in V2 : spot[c] <= spot[w]
  <2>1. V2 \in SUBSET V /\ V2 # {} /\ \A w \in V2 : spot[w] \in Int
    BY <1>3
  <2>. HIDE DEF V2, spot
  <2>. QED
    BY <2>1, <1>1
<1>5. PICK c \in V2 : \A w \in V2 : c <= w
  BY <1>4
<1>6. c \in V /\ f[c] = f[a] /\ g[c] = g[b] /\ \A w \in V : f[c] <= f[w]
  BY <1>2, <1>3, <1>5
<1>7. \A w \in V : f[c] = f[w] => g[c] <= g[w]
  BY <1>3, <1>6
<1>8. \A w \in V : f[c] = f[w] /\ g[c] = g[w] => c <= w
  BY <1>5, <1>6
<1>9. ASSUME NEW w \in V \ {c}
      PROVE  \/ f[c] < f[w]
             \/ f[c] = f[w] /\ g[c] < g[w]
             \/ f[c] = f[w] /\ g[c] = g[w] /\ c < w
  <2>1. /\ f[c] \in Int /\ f[w] \in Int /\ g[c] \in Int /\ g[w] \in Int
        /\ c \in Int /\ w \in Int /\ c # w
    BY <1>6
  <2>. QED
    BY <2>1, <1>6, <1>7, <1>8
<1>. QED
  BY <1>6, <1>9

TargetsOf(voice) == {e \in DOMAIN voice.events : IsTargetable(voice.events[e])}

\* The first target of a voice begins before the others do.
LEMMA FirstTarget ==
  ASSUME NEW limit, NEW x, IsVoice(3, limit, x)
  PROVE  /\ TargetsOf(x) = {} => FirstIn(x) = {}
         /\ TargetsOf(x) # {} =>
              /\ FirstIn(x) = {Min(TargetsOf(x))} /\ Min(TargetsOf(x)) \in TargetsOf(x)
              /\ \A e \in TargetsOf(x) : x.events[Min(TargetsOf(x))].onset <= x.events[e].onset
<1>1. FirstIn(x) = IF TargetsOf(x) = {} THEN {} ELSE {Min(TargetsOf(x))}
  BY DEF FirstIn, TargetsOf
<1>2. IsEvents(x.events) /\ Sequential(x.events)
  BY DEF IsVoice, Meets
<1>3. DOMAIN x.events = 1..Len(x.events) /\ Len(x.events) \in Nat
  BY <1>2 DEF IsEvents, IsList
<1>4. IsFiniteSet(TargetsOf(x)) /\ TargetsOf(x) \in SUBSET Int
  <2>1. IsFiniteSet(1..Len(x.events)) /\ TargetsOf(x) \in SUBSET (1..Len(x.events))
    BY <1>3, FS_Interval DEF TargetsOf
  <2>2. IsFiniteSet(TargetsOf(x))
    BY <2>1, FS_Subset
  <2>. QED
    BY <2>1, <2>2
<1>5. ASSUME TargetsOf(x) # {}
      PROVE  /\ Min(TargetsOf(x)) \in TargetsOf(x)
             /\ \A e \in TargetsOf(x) : Min(TargetsOf(x)) <= e
  BY <1>4, <1>5, MinOf
<1>6. ASSUME TargetsOf(x) # {}, NEW e \in TargetsOf(x)
      PROVE  x.events[Min(TargetsOf(x))].onset <= x.events[e].onset
  <2> DEFINE i == Min(TargetsOf(x))
  <2>1. i \in TargetsOf(x) /\ i <= e
    BY <1>5, <1>6
  <2>. HIDE DEF i
  <2>2. i \in DOMAIN x.events /\ e \in DOMAIN x.events /\ i \in Int /\ e \in Int
    BY <2>1, <1>3 DEF TargetsOf
  <2>3. x.events[e].onset \in Int
    BY <2>2, <1>2 DEF IsEvents, IsEvent
  <2>4. x.events[i].onset <= x.events[e].onset
    <3>1. CASE i = e
      BY <3>1, <2>3
    <3>2. CASE i < e
      BY <3>2, <2>2, <1>2 DEF Sequential
    <3>. QED
      BY <3>1, <3>2, <2>1, <2>2
  <2>. QED
    BY <2>4 DEF i
<1>. QED
  BY <1>1, <1>5, <1>6

TargetsIn(bar) ==
  UNION {{<<v, e>> : e \in TargetsOf(bar.voices[v])} : v \in DOMAIN bar.voices}

OnsetIn(bar, c) == bar.voices[c[1]].events[c[2]].onset

\* A bar with a target has one earliest, and no target of the bar begins before it.
LEMMA EarliestTarget ==
  ASSUME NEW x, IsBar(3, x)
  PROVE  /\ TargetsIn(x) = {} => EarliestIn(x) = {}
         /\ TargetsIn(x) # {} =>
              \E c \in TargetsIn(x) : /\ EarliestIn(x) = {c}
                                      /\ \A d \in TargetsIn(x) : OnsetIn(x, c) <= OnsetIn(x, d)
<1> DEFINE V == {v \in DOMAIN x.voices : TargetsOf(x.voices[v]) # {}}
           first(v) == Min(TargetsOf(x.voices[v]))
           candidates == UNION {{<<v, e>> : e \in FirstIn(x.voices[v])} : v \in DOMAIN x.voices}
           Onset(c) == x.voices[c[1]].events[c[2]].onset
           Number(c) == x.voices[c[1]].number
           Beats(c, d) == \/ Onset(c) < Onset(d)
                          \/ Onset(c) = Onset(d) /\ Number(c) < Number(d)
                          \/ Onset(c) = Onset(d) /\ Number(c) = Number(d) /\ c[1] < d[1]
<1>1. EarliestIn(x) = {c \in candidates : \A d \in candidates \ {c} : Beats(c, d)}
  BY DEF EarliestIn
<1>2. ASSUME NEW v \in DOMAIN x.voices
      PROVE  /\ TargetsOf(x.voices[v]) = {} => FirstIn(x.voices[v]) = {}
             /\ TargetsOf(x.voices[v]) # {} =>
                  /\ FirstIn(x.voices[v]) = {first(v)} /\ first(v) \in TargetsOf(x.voices[v])
                  /\ \A e \in TargetsOf(x.voices[v]) :
                       x.voices[v].events[first(v)].onset <= x.voices[v].events[e].onset
  <2> DEFINE a == x.voices[v]
  <2>1. IsVoice(3, x.nominal, a)
    BY DEF IsBar
  <2>. HIDE DEF a
  <2>2. /\ TargetsOf(a) = {} => FirstIn(a) = {}
        /\ TargetsOf(a) # {} =>
             /\ FirstIn(a) = {Min(TargetsOf(a))} /\ Min(TargetsOf(a)) \in TargetsOf(a)
             /\ \A e \in TargetsOf(a) : a.events[Min(TargetsOf(a))].onset <= a.events[e].onset
    BY <2>1, FirstTarget
  <2>. QED
    BY <2>2 DEF a
<1>. HIDE DEF first
<1>3. candidates = {<<v, first(v)>> : v \in V}
  BY <1>2
<1>4. \A v \in DOMAIN x.voices : \A e \in TargetsOf(x.voices[v]) :
        /\ x.voices[v].events[e].onset \in Int /\ x.voices[v].number \in Int
  BY DEF IsBar, IsVoice, Meets, IsEvents, IsEvent, TargetsOf
<1>. HIDE DEF candidates
<1>5. ASSUME TargetsIn(x) = {} PROVE EarliestIn(x) = {}
  <2>1. V = {}
    <3>. SUFFICES ASSUME NEW v \in DOMAIN x.voices, TargetsOf(x.voices[v]) # {} PROVE FALSE
      OBVIOUS
    <3>1. PICK e : e \in TargetsOf(x.voices[v])
      OBVIOUS
    <3>2. <<v, e>> \in TargetsIn(x)
      BY <3>1 DEF TargetsIn
    <3>. QED
      BY <3>2, <1>5
  <2>2. candidates = {}
    BY <2>1, <1>3
  <2>. QED
    BY <2>2, <1>1
<1>6. ASSUME TargetsIn(x) # {}
      PROVE  \E c \in TargetsIn(x) : /\ EarliestIn(x) = {c}
                                     /\ \A d \in TargetsIn(x) : OnsetIn(x, c) <= OnsetIn(x, d)
  <2> DEFINE f == [v \in V |-> x.voices[v].events[first(v)].onset]
             g == [v \in V |-> x.voices[v].number]
  <2>1. V \in SUBSET Int /\ IsFiniteSet(V) /\ V # {}
    <3>1. DOMAIN x.voices = 1..Len(x.voices) /\ Len(x.voices) \in Nat
      BY DEF IsBar, IsList
    <3>2. IsFiniteSet(1..Len(x.voices)) /\ V \in SUBSET (1..Len(x.voices))
      BY <3>1, FS_Interval
    <3>3. IsFiniteSet(V)
      BY <3>2, FS_Subset
    <3>4. V # {}
      BY <1>6 DEF TargetsIn
    <3>. QED
      BY <3>1, <3>2, <3>3, <3>4
  <2>2. \A v \in V : /\ f[v] = x.voices[v].events[first(v)].onset /\ g[v] = x.voices[v].number
                     /\ f[v] \in Int /\ g[v] \in Int /\ v \in Int
    BY <1>2, <1>4, <2>1
  <2>3. V \subseteq DOMAIN x.voices /\ \A v \in V : TargetsOf(x.voices[v]) # {}
    OBVIOUS
  <2>4. \A v \in DOMAIN x.voices : TargetsOf(x.voices[v]) # {} => v \in V
    OBVIOUS
  <2>. HIDE DEF V, f, g
  <2>5. PICK v \in V : \A w \in V \ {v} :
          \/ f[v] < f[w]
          \/ f[v] = f[w] /\ g[v] < g[w]
          \/ f[v] = f[w] /\ g[v] = g[w] /\ v < w
    BY <2>1, <2>2, LeastByKeys
  <2> DEFINE c == <<v, first(v)>>
  <2>6. \A w \in V : /\ Onset(<<w, first(w)>>) = f[w] /\ Number(<<w, first(w)>>) = g[w]
                     /\ <<w, first(w)>>[1] = w
    BY <2>2
  <2>7. c \in TargetsIn(x)
    BY <1>2, <2>3 DEF TargetsIn
  <2>8. EarliestIn(x) = {c}
    <3>1. c \in EarliestIn(x)
      <4>1. c \in candidates
        BY <1>3
      <4>2. ASSUME NEW d \in candidates \ {c} PROVE Beats(c, d)
        <5>1. PICK w \in V : d = <<w, first(w)>>
          BY <1>3
        <5>2. w # v
          BY <5>1
        <5>. QED
          BY <5>1, <5>2, <2>5, <2>6
      <4>. QED
        BY <4>1, <4>2, <1>1
    <3>2. ASSUME NEW d \in EarliestIn(x), d # c PROVE FALSE
      <4>1. d \in candidates /\ Beats(d, c)
        <5>1. c \in candidates
          BY <1>3
        <5>. QED
          BY <5>1, <3>2, <1>1
      <4>2. PICK w \in V : d = <<w, first(w)>>
        BY <1>3, <4>1
      <4>3. w # v
        BY <4>2, <3>2
      <4>4. \/ f[w] < f[v]
            \/ f[w] = f[v] /\ g[w] < g[v]
            \/ f[w] = f[v] /\ g[w] = g[v] /\ w < v
        BY <4>1, <4>2, <2>6
      <4>5. \/ f[v] < f[w]
            \/ f[v] = f[w] /\ g[v] < g[w]
            \/ f[v] = f[w] /\ g[v] = g[w] /\ v < w
        BY <4>3, <2>5
      <4>6. /\ f[v] \in Int /\ f[w] \in Int /\ g[v] \in Int /\ g[w] \in Int
            /\ v \in Int /\ w \in Int
        BY <2>2
      <4>. QED
        BY <4>4, <4>5, <4>6
    <3>. QED
      BY <3>1, <3>2
  <2>9. ASSUME NEW d \in TargetsIn(x) PROVE OnsetIn(x, c) <= OnsetIn(x, d)
    <3>1. PICK w \in DOMAIN x.voices : \E e \in TargetsOf(x.voices[w]) : d = <<w, e>>
      BY DEF TargetsIn
    <3>2. PICK e \in TargetsOf(x.voices[w]) : d = <<w, e>>
      BY <3>1
    <3>3. w \in V
      BY <2>4
    <3>4. f[w] <= x.voices[w].events[e].onset /\ x.voices[w].events[e].onset \in Int
      BY <1>2, <1>4, <2>2, <3>3
    <3>5. f[v] <= f[w] /\ f[v] \in Int /\ f[w] \in Int
      BY <2>2, <2>5, <3>3
    <3>6. OnsetIn(x, c) = f[v] /\ OnsetIn(x, d) = x.voices[w].events[e].onset
      BY <2>2, <3>2 DEF OnsetIn
    <3>. QED
      BY <3>4, <3>5, <3>6
  <2>. QED
    BY <2>7, <2>8, <2>9
<1>. QED
  BY <1>5, <1>6

\* Bars that follow one another: the later begins where the earlier ends or after it.
LEMMA LaterBarsBegin ==
  ASSUME NEW s, NEW n \in Nat, NEW starts, NEW claims, Keeps(s, n, starts, claims),
         NEW m \in 1..n, NEW k \in 1..n, m < k
  PROVE  starts[m] + claims[m] <= starts[k]
<1> DEFINE S == {d \in Nat : m + 1 + d <= n => starts[m] + claims[m] <= starts[m + 1 + d]}
<1>1. \A i \in 1..n : /\ starts[i] \in Nat /\ claims[i] \in Nat
                      /\ i > 1 => starts[i] = starts[i - 1] + claims[i - 1]
  BY DEF Keeps
<1>2. 0 \in S
  <2>. SUFFICES ASSUME m + 1 <= n PROVE starts[m] + claims[m] <= starts[m + 1]
    OBVIOUS
  <2>1. m + 1 \in 1..n /\ m + 1 > 1 /\ (m + 1) - 1 = m
    OBVIOUS
  <2>2. starts[m + 1] = starts[m] + claims[m] /\ starts[m + 1] \in Nat
    BY <1>1, <2>1
  <2>. QED
    BY <2>2
<1>3. ASSUME NEW d \in Nat, d \in S PROVE d + 1 \in S
  <2>. SUFFICES ASSUME m + 1 + (d + 1) <= n
                PROVE  starts[m] + claims[m] <= starts[m + 1 + (d + 1)]
    OBVIOUS
  <2> DEFINE i == m + 1 + d
  <2>1. i \in 1..n /\ i + 1 \in 1..n /\ i + 1 > 1 /\ (i + 1) - 1 = i /\ i <= n
    OBVIOUS
  <2>2. starts[m] + claims[m] <= starts[i]
    BY <1>3, <2>1
  <2>3. i + 1 = m + 1 + (d + 1)
    OBVIOUS
  <2>. HIDE DEF i
  <2>4. starts[i + 1] = starts[i] + claims[i]
    BY <1>1, <2>1
  <2>5. /\ starts[i] \in Nat /\ claims[i] \in Nat /\ starts[m] \in Nat /\ claims[m] \in Nat
    BY <1>1, <2>1
  <2>6. starts[m] + claims[m] <= starts[i + 1]
    BY <2>2, <2>4, <2>5
  <2>. QED
    BY <2>3, <2>6
<1>. HIDE DEF S
<1>4. k - m - 1 \in S
  <2>1. Nat \subseteq S
    BY <1>2, <1>3, Induction
  <2>. QED
    BY <2>1
<1>5. m + 1 + (k - m - 1) = k
  OBVIOUS
<1>. QED
  BY <1>4, <1>5 DEF S

\* The events that can be targets, by bar, voice and place.
TargetsAll(x) ==
  UNION {UNION {{<<m, v, e>> :
    e \in {i \in DOMAIN x.measures[m].voices[v].events :
             IsTargetable(x.measures[m].voices[v].events[i])}} :
    v \in DOMAIN x.measures[m].voices} : m \in DOMAIN x.measures}

LEMMA TargetsByBar ==
  ASSUME NEW x
  PROVE  /\ \A at \in TargetsAll(x) : \E m \in DOMAIN x.measures :
              \E c \in TargetsIn(x.measures[m]) : at = <<m, c[1], c[2]>>
         /\ \A m \in DOMAIN x.measures : \A c \in TargetsIn(x.measures[m]) :
              <<m, c[1], c[2]>> \in TargetsAll(x)
<1>1. TargetsAll(x) =
        UNION {UNION {{<<m, v, e>> : e \in TargetsOf(x.measures[m].voices[v])} :
                 v \in DOMAIN x.measures[m].voices} : m \in DOMAIN x.measures}
  BY DEF TargetsAll, TargetsOf
<1>2. ASSUME NEW at \in TargetsAll(x)
      PROVE  \E m \in DOMAIN x.measures :
               \E c \in TargetsIn(x.measures[m]) : at = <<m, c[1], c[2]>>
  <2>1. PICK m \in DOMAIN x.measures : \E v \in DOMAIN x.measures[m].voices :
          \E e \in TargetsOf(x.measures[m].voices[v]) : at = <<m, v, e>>
    BY <1>1, <1>2
  <2>2. PICK v \in DOMAIN x.measures[m].voices :
          \E e \in TargetsOf(x.measures[m].voices[v]) : at = <<m, v, e>>
    BY <2>1
  <2>3. PICK e \in TargetsOf(x.measures[m].voices[v]) : at = <<m, v, e>>
    BY <2>2
  <2>4. <<v, e>> \in TargetsIn(x.measures[m])
    BY <2>3 DEF TargetsIn
  <2>. QED
    BY <2>3, <2>4
<1>3. ASSUME NEW m \in DOMAIN x.measures, NEW c \in TargetsIn(x.measures[m])
      PROVE  <<m, c[1], c[2]>> \in TargetsAll(x)
  <2>1. PICK v \in DOMAIN x.measures[m].voices :
          \E e \in TargetsOf(x.measures[m].voices[v]) : c = <<v, e>>
    BY <1>3 DEF TargetsIn
  <2>2. PICK e \in TargetsOf(x.measures[m].voices[v]) : c = <<v, e>>
    BY <2>1
  <2>. QED
    BY <1>1, <2>2
<1>. QED
  BY <1>2, <1>3

\* Onsets of targets, and the end of their bar.
LEMMA TargetsEndInTheirBar ==
  ASSUME NEW x, IsBar(3, x), NEW c \in TargetsIn(x)
  PROVE  OnsetIn(x, c) \in Int /\ OnsetIn(x, c) <= x.nominal
<1>1. PICK v \in DOMAIN x.voices : \E e \in TargetsOf(x.voices[v]) : c = <<v, e>>
  BY DEF TargetsIn
<1>2. PICK e \in TargetsOf(x.voices[v]) : c = <<v, e>>
  BY <1>1
<1> DEFINE es == x.voices[v].events
<1>3. Meets(3, x.nominal, es) /\ e \in DOMAIN es /\ x.nominal \in Int
  BY <1>2 DEF IsBar, IsVoice, TargetsOf
<1>4. OnsetIn(x, c) = es[e].onset
  BY <1>2 DEF OnsetIn
<1>. HIDE DEF es
<1>5. IsEvent(es[e]) /\ es[e].duration >= 0 /\ EndOf(es[e]) <= x.nominal
  BY <1>3 DEF Meets, IsEvents, Lasting, Inside
<1>. QED
  BY <1>3, <1>4, <1>5 DEF IsEvent, EndOf

LEMMA RepairedSelectsTheFirst ==
  ASSUME NEW s, IsRepaired(s)
  PROVE  SelectedIsTheFirst(s)
<1>. SUFFICES ASSUME s.parts # <<>>
              PROVE  /\ Cardinality(Selected(s)) = (IF TargetsAll(s.parts[1]) = {} THEN 0 ELSE 1)
                     /\ \A at \in Selected(s) : at \in TargetsAll(s.parts[1]) /\
                          \A other \in TargetsAll(s.parts[1]) :
                            s.parts[1].measures[other[1]].start <= StartOf(s.parts[1], other) =>
                              StartOf(s.parts[1], at) <= StartOf(s.parts[1], other)
  BY Zenon DEF SelectedIsTheFirst, TargetsAll
<1> DEFINE x == s.parts[1]
           ms == x.measures
           sounding == {m \in DOMAIN ms : EarliestIn(ms[m]) # {}}
<1>1. 1 \in DOMAIN s.parts /\ IsPart(3, x)
  <2>1. IsList(s.parts)
    BY DEF IsRepaired, IsScore
  <2>2. 1 \in DOMAIN s.parts
    BY <2>1, ListIsASeq
  <2>. QED
    BY <2>2 DEF IsRepaired, IsScore
<1>2. Selected(s) = IF sounding = {} THEN {}
                    ELSE {<<Min(sounding), c[1], c[2]>> : c \in EarliestIn(ms[Min(sounding)])}
  BY DEF Selected
<1>3. PICK n \in Nat : \E starts, claims : Keeps(s, n, starts, claims)
  BY DEF IsRepaired, InStep
<1>4. PICK starts, claims : Keeps(s, n, starts, claims)
  BY <1>3
<1>5. /\ DOMAIN ms = 1..n
      /\ \A m \in 1..n : /\ ms[m].start = starts[m] /\ ms[m].nominal = claims[m]
                         /\ starts[m] \in Nat /\ claims[m] \in Nat
  BY <1>1, <1>4 DEF Keeps, IsPart, IsList
<1>6. \A m \in 1..n : IsBar(3, ms[m])
  BY <1>1, <1>5 DEF IsPart
<1>7. ASSUME NEW m \in 1..n
      PROVE  /\ TargetsIn(ms[m]) = {} => EarliestIn(ms[m]) = {}
             /\ TargetsIn(ms[m]) # {} =>
                  \E c \in TargetsIn(ms[m]) :
                    /\ EarliestIn(ms[m]) = {c}
                    /\ \A d \in TargetsIn(ms[m]) : OnsetIn(ms[m], c) <= OnsetIn(ms[m], d)
  BY <1>6, EarliestTarget
<1>8. sounding \in SUBSET Int /\ IsFiniteSet(sounding) /\ sounding \subseteq 1..n
  <2>1. sounding \in SUBSET (1..n)
    BY <1>5
  <2>. HIDE DEF sounding
  <2>2. IsFiniteSet(1..n)
    BY FS_Interval
  <2>3. IsFiniteSet(sounding)
    BY <2>1, <2>2, FS_Subset
  <2>. QED
    BY <2>1, <2>3
<1>9. \A at \in TargetsAll(x) : \E m \in sounding :
        \E c \in TargetsIn(ms[m]) : at = <<m, c[1], c[2]>>
  <2>. SUFFICES ASSUME NEW at \in TargetsAll(x)
                PROVE  \E m \in sounding : \E c \in TargetsIn(ms[m]) : at = <<m, c[1], c[2]>>
    OBVIOUS
  <2>. HIDE DEF x
  <2>1. PICK m \in DOMAIN ms : \E c \in TargetsIn(ms[m]) : at = <<m, c[1], c[2]>>
    BY TargetsByBar
  <2>2. EarliestIn(ms[m]) # {}
    BY <1>5, <1>7, <2>1
  <2>. QED
    BY <2>1, <2>2
<1>10. \A m \in sounding : TargetsIn(ms[m]) # {}
  BY <1>7, <1>8
<1>11. \A m \in DOMAIN ms : \A c \in TargetsIn(ms[m]) : <<m, c[1], c[2]>> \in TargetsAll(x)
  <2>. HIDE DEF x
  <2>. QED
    BY TargetsByBar
<1>12. \A m \in DOMAIN ms : \A c : StartOf(x, <<m, c[1], c[2]>>) = ms[m].start + OnsetIn(ms[m], c)
  BY DEF StartOf, OnsetIn
<1>. HIDE DEF x, ms, sounding
<1>13. CASE sounding = {}
  <2>1. TargetsAll(x) = {} /\ Selected(s) = {}
    BY <1>2, <1>9, <1>13
  <2>. QED
    BY <2>1, FS_EmptySet DEF x
<1>14. CASE sounding # {}
  <2> DEFINE m == Min(sounding)
  <2>1. m \in sounding /\ \A k \in sounding : m <= k
    BY <1>8, <1>14, MinOf
  <2>2. Selected(s) = {<<m, c[1], c[2]>> : c \in EarliestIn(ms[m])}
    BY <1>2, <1>14
  <2>. HIDE DEF m
  <2>3. PICK c \in TargetsIn(ms[m]) :
          /\ EarliestIn(ms[m]) = {c}
          /\ \A d \in TargetsIn(ms[m]) : OnsetIn(ms[m], c) <= OnsetIn(ms[m], d)
    BY <1>7, <1>8, <1>10, <2>1
  <2> DEFINE at == <<m, c[1], c[2]>>
  <2>4. Selected(s) = {at}
    BY <2>2, <2>3
  <2>5. at \in TargetsAll(x)
    BY <1>5, <1>8, <1>11, <2>1, <2>3
  <2>6. Cardinality(Selected(s)) = 1
    BY <2>4, FS_Singleton
  <2>7. ASSUME NEW other \in TargetsAll(x), ms[other[1]].start <= StartOf(x, other)
        PROVE  StartOf(x, at) <= StartOf(x, other)
    <3>1. PICK k \in sounding : \E d \in TargetsIn(ms[k]) : other = <<k, d[1], d[2]>>
      BY <1>9, <2>7
    <3>2. PICK d \in TargetsIn(ms[k]) : other = <<k, d[1], d[2]>>
      BY <3>1
    <3>3. m \in 1..n /\ k \in 1..n /\ m <= k /\ other[1] = k
      BY <1>8, <2>1, <3>2
    <3>4. /\ StartOf(x, at) = starts[m] + OnsetIn(ms[m], c)
          /\ StartOf(x, other) = starts[k] + OnsetIn(ms[k], d)
      BY <1>5, <1>12, <3>2, <3>3
    <3>5. /\ OnsetIn(ms[m], c) \in Int /\ OnsetIn(ms[m], c) <= claims[m]
          /\ OnsetIn(ms[k], d) \in Int
      BY <1>5, <1>6, <3>3, TargetsEndInTheirBar
    <3>6. starts[m] \in Nat /\ claims[m] \in Nat /\ starts[k] \in Nat
      BY <1>5, <3>3
    <3>7. CASE m = k
      <4>1. OnsetIn(ms[m], c) <= OnsetIn(ms[k], d)
        BY <2>3, <3>7
      <4>. QED
        BY <4>1, <3>4, <3>5, <3>6, <3>7
    <3>8. CASE m < k
      <4>1. starts[m] + claims[m] <= starts[k]
        BY <1>4, <3>3, <3>8, LaterBarsBegin
      <4>2. starts[k] <= StartOf(x, other)
        BY <1>5, <2>7, <3>3
      <4>. QED
        BY <4>1, <4>2, <3>4, <3>5, <3>6
    <3>. QED
      BY <3>3, <3>7, <3>8
  <2>8. TargetsAll(x) # {}
    BY <2>5
  <2>. QED
    BY <2>4, <2>5, <2>6, <2>7, <2>8 DEF x, ms
<1>. QED
  BY <1>13, <1>14, SMTT(30)

-----------------------------------------------------------------------------
(* What the reader keeps of the measure it is in.                           *)

IsVoices(s) == IsList(s) /\ \A v \in DOMAIN s : IsVoice(0, 0, s[v])

IsBars(s) == IsList(s) /\ \A m \in DOMAIN s : IsBar(0, s[m])

LEMMA RoundedIsANumber ==
  ASSUME state.divisions \in Nat \ {0}, NEW source \in Int
  PROVE  Rounded(source) \in Int
<1> DEFINE d == state.divisions
           numerator == source * TicksPerQuarter
           Half(n) == (2 * n + d) \div (2 * d)
<1>1. numerator \in Int
  <2>1. TicksPerQuarter \in Nat \ {0}
    BY ReadingAssumption
  <2>. QED
    BY <2>1
<1>2. Rounded(source) = IF numerator >= 0 THEN Half(numerator) ELSE -Half(-numerator)
  BY DEF Rounded
<1>. HIDE DEF numerator, d
<1>3. ASSUME NEW n \in Int PROVE Half(n) \in Int
  <2>1. 2 * n + d \in Int /\ 2 * d \in Int /\ 2 * d > 0
    BY DEF d
  <2>. QED
    BY <2>1
<1>. HIDE DEF Half
<1>4. Half(numerator) \in Int /\ Half(-numerator) \in Int
  BY <1>1, <1>3
<1>. QED
  BY <1>2, <1>4

LEMMA ChosenAreNotes ==
  ASSUME NEW note
  PROVE  IsNotes(Chosen(note))
<1>1. {"to", "from", "sounding", "id"} \subseteq DOMAIN SoundingNote(note)
  BY DEF SoundingNote
<1>2. IsNotes(<<SoundingNote(note)>>)
  BY <1>1, Singleton DEF IsNotes
<1>3. IsNotes(<<>>)
  BY NoElements DEF IsNotes
<1>. QED
  BY <1>2, <1>3 DEF Chosen

LEMMA JoinedNotes ==
  ASSUME NEW s, IsNotes(s), NEW t, IsNotes(t)
  PROVE  IsNotes(s \o t)
<1>1. IsList(s) /\ IsList(t)
  BY DEF IsNotes
<1>2. /\ IsList(s \o t)
      /\ \A i \in DOMAIN (s \o t) : \/ i \in DOMAIN s /\ (s \o t)[i] = s[i]
                                    \/ \E j \in DOMAIN t : (s \o t)[i] = t[j]
  BY <1>1, JoinedLists
<1> DEFINE u == s \o t
<1>. HIDE DEF u
<1>3. IsNotes(u)
  BY <1>2 DEF IsNotes, u
<1>. QED
  BY <1>3 DEF u

\* A tone joins the last event of a voice.
LEMMA JoinedVoices ==
  ASSUME NEW s, IsVoices(s), NEW v \in DOMAIN s, NEW extra, IsNotes(extra),
         NEW t, t = [s EXCEPT ![v].events[Len(s[v].events)].notes = @ \o extra]
  PROVE  IsVoices(t)
<1> DEFINE x == s[v]
           es == x.events
           last == Len(es)
           event == [es[last] EXCEPT !.notes = @ \o extra]
           fs == [es EXCEPT ![last] = event]
           y == [x EXCEPT !.events = fs]
<1>1. t = [s EXCEPT ![v] = y]
  OBVIOUS
<1>2. IsVoice(0, 0, x) /\ IsEvents(es)
  BY DEF IsVoices, IsVoice, Meets
<1>3. IsVoice(0, 0, y)
  <2>1. ASSUME last \in DOMAIN es PROVE IsEvent(event)
    <3>1. IsEvent(es[last])
      BY <1>2, <2>1 DEF IsEvents
    <3>2. IsNotes(es[last].notes \o extra)
      BY <3>1, JoinedNotes DEF IsEvent
    <3>3. /\ DOMAIN event = DOMAIN es[last] /\ event.notes = es[last].notes \o extra
          /\ event.onset = es[last].onset /\ event.duration = es[last].duration
          /\ event.isGrace = es[last].isGrace
      BY <3>1 DEF IsEvent
    <3>. HIDE DEF event
    <3>. QED
      BY <3>1, <3>2, <3>3 DEF IsEvent
  <2>. HIDE DEF event, es, last, x
  <2>2. DOMAIN fs = DOMAIN es /\ \A e \in DOMAIN es : fs[e] = IF e = last THEN event ELSE es[e]
    OBVIOUS
  <2>3. fs = [e \in DOMAIN es |-> fs[e]]
    BY <2>2
  <2>. HIDE DEF fs
  <2>4. IsList(fs)
    BY <1>2, <2>3, Mapped DEF IsEvents
  <2>5. IsEvents(fs)
    BY <1>2, <2>1, <2>2, <2>4 DEF IsEvents
  <2>6. Meets(0, 0, fs)
    BY <2>5 DEF Meets
  <2>. QED
    BY <1>2, <2>6, WithEvents
<1>. HIDE DEF y
<1>4. DOMAIN t = DOMAIN s /\ \A w \in DOMAIN s : t[w] = IF w = v THEN y ELSE s[w]
  BY <1>1
<1>5. t = [w \in DOMAIN s |-> t[w]]
  BY <1>1
<1>6. IsList(t)
  BY <1>5, Mapped DEF IsVoices
<1>. QED
  BY <1>3, <1>4, <1>6 DEF IsVoices

LEMMA AppendedEvents ==
  ASSUME NEW s, IsEvents(s), NEW x, IsEvent(x)
  PROVE  IsEvents(Append(s, x))
BY AppendedList DEF IsEvents

\* An event is appended to the voices of its number, or begins one.
WithEvent(s, V, number, x) ==
  IF V = {} THEN Append(s, [number |-> number, events |-> <<x>>])
  ELSE [v \in DOMAIN s |-> IF v \in V THEN [s[v] EXCEPT !.events = Append(@, x)] ELSE s[v]]

LEMMA AppendedVoices ==
  ASSUME NEW s, IsVoices(s), NEW x, IsEvent(x), NEW number \in Int, NEW V,
         NEW t, t = WithEvent(s, V, number, x)
  PROVE  IsVoices(t)
<1>1. CASE V = {}
  <2> DEFINE y == [number |-> number, events |-> <<x>>]
  <2>1. IsEvents(<<x>>)
    BY Singleton DEF IsEvents
  <2>2. IsVoice(0, 0, y)
    BY <2>1 DEF IsVoice, Meets
  <2>3. t = Append(s, y)
    BY <1>1 DEF WithEvent
  <2>. HIDE DEF y
  <2>. QED
    BY <2>2, <2>3, AppendedList DEF IsVoices
<1>2. CASE V # {}
  <2>1. t = [v \in DOMAIN s |-> IF v \in V THEN [s[v] EXCEPT !.events = Append(@, x)] ELSE s[v]]
    BY <1>2 DEF WithEvent
  <2>2. t = [v \in DOMAIN s |-> t[v]] /\ DOMAIN t = DOMAIN s
    BY <2>1
  <2>3. IsList(t)
    BY <2>2, Mapped DEF IsVoices
  <2>4. ASSUME NEW v \in DOMAIN s PROVE IsVoice(0, 0, t[v])
    <3> DEFINE y == s[v]
               es == Append(y.events, x)
    <3>1. t[v] = [y EXCEPT !.events = es] \/ t[v] = y
      BY <2>1
    <3>2. IsVoice(0, 0, y)
      BY DEF IsVoices
    <3>. HIDE DEF y
    <3>3. IsEvents(es)
      BY <3>2, AppendedEvents DEF IsVoice, Meets
    <3>. HIDE DEF es
    <3>4. Meets(0, 0, es)
      BY <3>3 DEF Meets
    <3>5. IsVoice(0, 0, [y EXCEPT !.events = es])
      BY <3>2, <3>4, WithEvents
    <3>. QED
      BY <3>1, <3>2, <3>5
  <2>. QED
    BY <2>2, <2>3, <2>4 DEF IsVoices
<1>. QED
  BY <1>1, <1>2

\* Where the music of the bar ends.
LEMMA OccupiedIsANumber ==
  ASSUME IsVoices(pending)
  PROVE  Occupied \in Int
<1> DEFINE EndsOf(v) == {EndOf(pending[v].events[e]) : e \in DOMAIN pending[v].events}
           byVoice == [v \in DOMAIN pending |-> EndsOf(v)]
           S == {byVoice[v] : v \in DOMAIN byVoice}
           all == {0} \cup UNION S
<1>1. Occupied = Max(all)
  <2>1. S = {EndsOf(v) : v \in DOMAIN pending}
    OBVIOUS
  <2>. QED
    BY <2>1 DEF Occupied
<1>2. ASSUME NEW v \in DOMAIN pending PROVE IsFiniteSet(EndsOf(v)) /\ EndsOf(v) \in SUBSET Int
  <2> DEFINE es == pending[v].events
             f == [e \in DOMAIN es |-> EndOf(es[e])]
  <2>1. IsEvents(es)
    BY DEF IsVoices, IsVoice, Meets
  <2>. HIDE DEF es
  <2>2. DOMAIN es = 1..Len(es) /\ Len(es) \in Nat
    BY <2>1 DEF IsEvents, IsList
  <2>3. IsFiniteSet(DOMAIN f)
    BY <2>2, FS_Interval
  <2>4. IsFiniteSet({f[e] : e \in DOMAIN f})
    BY <2>3, FiniteValues
  <2>5. EndsOf(v) = {f[e] : e \in DOMAIN f}
    BY DEF es
  <2>6. \A e \in DOMAIN es : EndOf(es[e]) \in Int
    BY <2>1 DEF IsEvents, IsEvent, EndOf
  <2>7. EndsOf(v) \in SUBSET Int
    BY <2>6 DEF es
  <2>. QED
    BY <2>4, <2>5, <2>7
<1>. HIDE DEF EndsOf
<1>3. IsFiniteSet(S)
  <2>1. DOMAIN pending = 1..Len(pending) /\ Len(pending) \in Nat
    BY DEF IsVoices, IsList
  <2>2. IsFiniteSet(DOMAIN byVoice)
    BY <2>1, FS_Interval
  <2>. HIDE DEF byVoice
  <2>3. byVoice = [v \in DOMAIN byVoice |-> byVoice[v]]
    BY DEF byVoice
  <2>. QED
    BY <2>2, <2>3, FiniteValues
<1>4. \A T \in S : IsFiniteSet(T) /\ T \in SUBSET Int
  BY <1>2
<1>. HIDE DEF S
<1>5. IsFiniteSet(UNION S) /\ UNION S \in SUBSET Int
  BY <1>3, <1>4, FS_UNION
<1>6. IsFiniteSet({0})
  BY FS_Singleton
<1>7. IsFiniteSet(all)
  BY <1>5, <1>6, FS_Union
<1>8. all \in SUBSET Int /\ all # {}
  BY <1>5
<1>. HIDE DEF all
<1>9. Max(all) \in all
  BY <1>7, <1>8, MaxOf
<1>. QED
  BY <1>1, <1>8, <1>9

\* Voices by number, their events by onset.
LEMMA FrozenVoices ==
  ASSUME NEW s, IsVoices(s)
  PROVE  IsVoices(Frozen(s))
<1> DEFINE key == [v \in DOMAIN s |-> s[v].number]
           order == InOrder(DOMAIN s, key)
<1>1. DOMAIN s = 1..Len(s) /\ Len(s) \in Nat
  BY DEF IsVoices, IsList
<1>2. DOMAIN s \in SUBSET Int /\ IsFiniteSet(DOMAIN s)
  BY <1>1, FS_Interval
<1>3. \A v \in DOMAIN s : key[v] \in Int
  BY DEF IsVoices, IsVoice
<1>. HIDE DEF key
<1>4. IsList(order) /\ \A k \in DOMAIN order : order[k] \in DOMAIN s
  BY <1>2, <1>3, Ordered
<1>5. Frozen(s) = [i \in DOMAIN order |->
                     [s[order[i]] EXCEPT !.events = InTimeOrder(s[order[i]].events)]]
  BY DEF Frozen, key
<1>. HIDE DEF order
<1>6. Frozen(s) = [i \in DOMAIN order |-> Frozen(s)[i]] /\ DOMAIN Frozen(s) = DOMAIN order
  BY <1>5
<1>7. IsList(Frozen(s))
  BY <1>4, <1>6, Mapped
<1>8. ASSUME NEW i \in DOMAIN order PROVE IsVoice(0, 0, Frozen(s)[i])
  <2> DEFINE x == s[order[i]]
             es == InTimeOrder(x.events)
  <2>1. Frozen(s)[i] = [x EXCEPT !.events = es]
    BY <1>5
  <2>2. IsVoice(0, 0, x)
    BY <1>4 DEF IsVoices
  <2>. HIDE DEF x
  <2>3. Meets(0, 0, x.events) /\ 0 \in Int /\ 0 \in {0, 1}
    BY <2>2 DEF IsVoice
  <2>4. Meets(0, 0, es)
    BY <2>3, Sorting
  <2>. HIDE DEF es
  <2>. QED
    BY <2>1, <2>2, <2>4, WithEvents
<1>. QED
  BY <1>6, <1>7, <1>8 DEF IsVoices

\* A bar of the voices read, of any length.
LEMMA BarOfVoices ==
  ASSUME NEW s, IsVoices(s), NEW length \in Nat \ {0}, NEW begin
  PROVE  IsBar(0, [nominal |-> length, start |-> begin, voices |-> s])
BY DEF IsBar, IsVoices, IsVoice, Meets

LEMMA TiedBars ==
  ASSUME NEW ms, IsBars(ms), NEW links
  PROVE  IsBars(Tied([measures |-> ms], links).measures)
<1> DEFINE x == [measures |-> ms]
<1>1. "measures" \in DOMAIN x /\ x.measures = ms
  OBVIOUS
<1>. HIDE DEF x
<1>2. \E ends : Tied(x, links) = Relinked(x, ends)
  BY DEF Tied
<1>3. PICK ends : Tied(x, links) = Relinked(x, ends)
  BY <1>2
<1> DEFINE y == Relinked(x, ends)
<1>4. IsList(x.measures) /\ \A m \in DOMAIN x.measures : IsBar(0, x.measures[m])
  BY <1>1 DEF IsBars
<1>5. LikeBars(x.measures, y.measures)
  BY <1>1, <1>4, RelinkingLinks
<1>. HIDE DEF y
<1>6. /\ IsList(y.measures) /\ DOMAIN y.measures = DOMAIN x.measures
      /\ \A m \in DOMAIN x.measures : IsBar(0, y.measures[m])
  BY <1>4, <1>5, RelinkedBars
<1>7. IsBars(y.measures)
  BY <1>6 DEF IsBars
<1>. QED
  BY <1>3, <1>7 DEF x, y

\* The bars of the other part.
LEMMA BarsOfLengths ==
  ASSUME NEW lengths \in Seq(Nat \ {0})
  PROVE  IsBars(Bars(lengths))
<1> DEFINE Begin(m) == LET before[i \in 0..Len(lengths)] ==
                             IF i = 0 THEN 0 ELSE before[i - 1] + lengths[i]
                       IN before[m - 1]
<1>1. Bars(lengths) = [m \in DOMAIN lengths |->
                         [PaddingBar(lengths[m]) EXCEPT !.start = Begin(m)]]
  BY DEF Bars
<1>. HIDE DEF Begin
<1> DEFINE ms == Bars(lengths)
<1>2. IsList(lengths)
  BY SeqIsAList
<1>3. ms = [m \in DOMAIN lengths |-> ms[m]] /\ DOMAIN ms = DOMAIN lengths
  BY <1>1
<1>4. IsList(ms)
  BY <1>2, <1>3, Mapped
<1>5. ASSUME NEW m \in DOMAIN lengths PROVE IsBar(0, ms[m])
  <2> DEFINE x == PaddingBar(lengths[m])
             y == [x EXCEPT !.start = Begin(m)]
  <2>1. lengths[m] \in Nat \ {0}
    OBVIOUS
  <2>2. IsBar(3, x)
    BY <2>1, Padding
  <2>3. ms[m] = y
    BY <1>1
  <2>. HIDE DEF x
  <2>4. DOMAIN y = DOMAIN x /\ y.nominal = x.nominal /\ y.voices = x.voices
    BY <2>2 DEF IsBar
  <2>. HIDE DEF y
  <2>5. IsBar(0, y)
    BY <2>2, <2>4 DEF IsBar, IsVoice, Meets
  <2>. QED
    BY <2>3, <2>5
<1>. QED
  BY <1>3, <1>4, <1>5 DEF IsBars

-----------------------------------------------------------------------------
(* Ties stay with their notes.  The passes only drop events, so an event    *)
(* that moves takes the place of one before it.                             *)

InTime(s) == \A e, f \in DOMAIN s : e < f => s[e].onset <= s[f].onset

\* Every event of a list has the notes of one that stood at its place or after it.
Descends(s, t) == \A e \in DOMAIN t : \E d \in DOMAIN s : d >= e /\ t[e].notes = s[d].notes

\* A rising sequence of places is never below its index.
LEMMA RisingPlaces ==
  ASSUME NEW n \in Nat, NEW places, \A k \in 1..n : places[k] \in Nat \ {0},
         \A k, l \in 1..n : k < l => places[k] < places[l]
  PROVE  \A k \in 1..n : places[k] >= k
<1> DEFINE S == {k \in Nat : k \in 1..n => places[k] >= k}
<1>1. 0 \in S
  OBVIOUS
<1>2. ASSUME NEW k \in Nat, k \in S PROVE k + 1 \in S
  <2>. SUFFICES ASSUME k + 1 \in 1..n PROVE places[k + 1] >= k + 1
    OBVIOUS
  <2>1. CASE k = 0
    BY <2>1
  <2>2. CASE k # 0
    <3>1. k \in 1..n /\ k < k + 1
      BY <2>2
    <3>2. places[k] >= k /\ places[k] < places[k + 1] /\ places[k] \in Nat /\ places[k + 1] \in Nat
      BY <1>2, <3>1
    <3>. QED
      BY <3>2
  <2>. QED
    BY <2>1, <2>2
<1>. HIDE DEF S
<1>3. Nat \subseteq S
  BY <1>1, <1>2, Induction
<1>. QED
  BY <1>3 DEF S

LEMMA RemainingDescends ==
  ASSUME NEW s, IsList(s), NEW P \in SUBSET DOMAIN s
  PROVE  /\ Descends(s, Remaining(s, P))
         /\ InTime(s) => InTime(Remaining(s, P))
<1> DEFINE r == Remaining(s, P)
<1>1. IsList(r) /\ \E places : /\ places \in [DOMAIN r -> P]
                               /\ \A k \in DOMAIN r : r[k] = s[places[k]]
                               /\ \A k, l \in DOMAIN r : k < l => places[k] < places[l]
  BY Left
<1>. HIDE DEF r
<1>2. PICK places : /\ places \in [DOMAIN r -> P]
                    /\ \A k \in DOMAIN r : r[k] = s[places[k]]
                    /\ \A k, l \in DOMAIN r : k < l => places[k] < places[l]
  BY <1>1
<1>3. DOMAIN r = 1..Len(r) /\ Len(r) \in Nat /\ DOMAIN s = 1..Len(s) /\ Len(s) \in Nat
  BY <1>1 DEF IsList
<1>4. \A k \in DOMAIN r : places[k] \in P /\ places[k] \in DOMAIN s /\ places[k] \in Nat \ {0}
  BY <1>2, <1>3
<1>5. \A k \in DOMAIN r : places[k] >= k
  BY <1>2, <1>3, <1>4, RisingPlaces
<1>6. Descends(s, r)
  BY <1>2, <1>4, <1>5 DEF Descends
<1>7. ASSUME InTime(s) PROVE InTime(r)
  BY <1>2, <1>4, <1>7 DEF InTime
<1>. QED
  BY <1>6, <1>7 DEF r

\* Events in time stay where they are when they are sorted.
LEMMA SortingInTime ==
  ASSUME NEW s, IsEvents(s), InTime(s)
  PROVE  Descends(s, InTimeOrder(s))
<1> DEFINE key == [e \in DOMAIN s |-> s[e].onset]
           order == InOrder(DOMAIN s, key)
           t == InTimeOrder(s)
<1>1. DOMAIN s = 1..Len(s) /\ Len(s) \in Nat
  BY DEF IsEvents, IsList
<1>2. DOMAIN s \in SUBSET Int /\ IsFiniteSet(DOMAIN s)
  BY <1>1, FS_Interval
<1>3. \A e \in DOMAIN s : key[e] = s[e].onset /\ s[e].onset \in Int
  BY DEF IsEvents, IsEvent
<1>. HIDE DEF key
<1>4. /\ IsList(order) /\ \A k \in DOMAIN order : order[k] \in DOMAIN s
      /\ \A k, l \in DOMAIN order : k < l => Precedes(key, order[k], order[l])
  BY <1>2, <1>3, Ordered
<1>5. t = [k \in DOMAIN order |-> s[order[k]]]
  BY DEF InTimeOrder, Picked, key
<1>. HIDE DEF order, t
<1>6. \A k \in DOMAIN order : order[k] \in DOMAIN s /\ order[k] \in Nat \ {0}
  BY <1>1, <1>4
<1>7. \A k, l \in DOMAIN order : k < l => order[k] < order[l]
  <2>. SUFFICES ASSUME NEW k \in DOMAIN order, NEW l \in DOMAIN order, k < l,
                       order[l] < order[k] \/ order[l] = order[k]
                PROVE  FALSE
    BY <1>6
  <2>1. Precedes(key, order[k], order[l]) /\ order[k] \in DOMAIN s /\ order[l] \in DOMAIN s
    BY <1>4
  <2>2. s[order[k]].onset \in Int /\ s[order[l]].onset \in Int
    BY <1>3, <2>1
  <2>3. order[l] < order[k] => s[order[l]].onset <= s[order[k]].onset
    BY <2>1 DEF InTime
  <2>. QED
    BY <1>3, <1>6, <2>1, <2>2, <2>3 DEF Precedes
<1>8. DOMAIN order = 1..Len(order) /\ Len(order) \in Nat
  BY <1>4 DEF IsList
<1>9. \A k \in DOMAIN order : order[k] >= k
  BY <1>6, <1>7, <1>8, RisingPlaces
<1>10. Descends(s, t)
  BY <1>5, <1>6, <1>9 DEF Descends
<1>. QED
  BY <1>10 DEF t

LEMMA ClampingDescends ==
  ASSUME NEW s, IsEvents(s)
  PROVE  /\ Descends(s, [e \in DOMAIN s |-> NonNegative(s[e])])
         /\ InTime(s) => InTime([e \in DOMAIN s |-> NonNegative(s[e])])
<1> DEFINE c == [e \in DOMAIN s |-> NonNegative(s[e])]
<1>1. \A e \in DOMAIN s : c[e].notes = s[e].notes /\ c[e].onset = s[e].onset
  BY DEF IsEvents, IsEvent, NonNegative
<1>2. DOMAIN c = DOMAIN s /\ DOMAIN s \subseteq Int
  BY DEF IsEvents, IsList
<1>. HIDE DEF c
<1>3. Descends(s, c) /\ (InTime(s) => InTime(c))
  BY <1>1, <1>2 DEF Descends, InTime
<1>. QED
  BY <1>3 DEF c

LEMMA ShorteningDescends ==
  ASSUME NEW s, IsEvents(s), InTime(s)
  PROVE  Descends(s, Shortened(InTimeOrder(s)))
<1> DEFINE r == InTimeOrder(s)
           t == Shortened(r)
<1>1. IsEvents(r)
  <2>1. Meets(0, 0, s)
    BY DEF Meets
  <2>2. Meets(0, 0, r)
    BY <2>1, Sorting
  <2>. QED
    BY <2>2 DEF Meets
<1>2. Descends(s, r)
  BY SortingInTime
<1>. HIDE DEF r
<1>3. DOMAIN t = DOMAIN r /\ \A e \in DOMAIN r : t[e].notes = r[e].notes
  <2>1. DOMAIN t = DOMAIN r
    BY DEF Shortened
  <2>2. ASSUME NEW e \in DOMAIN r PROVE t[e].notes = r[e].notes
    <3> DEFINE x == r[e]
               d == Max({0, r[e + 1].onset - r[e].onset})
    <3>1. "notes" \in DOMAIN x
      BY <1>1 DEF IsEvents, IsEvent
    <3>2. t[e] = IF Overlaps(r, e) THEN [x EXCEPT !.duration = d] ELSE x
      BY DEF Shortened
    <3>. HIDE DEF x, d
    <3>3. t[e].notes = x.notes
      BY <3>1, <3>2
    <3>. QED
      BY <3>3 DEF x
  <2>. QED
    BY <2>1, <2>2
<1>. HIDE DEF t
<1>4. Descends(s, t)
  BY <1>2, <1>3 DEF Descends
<1>. QED
  BY <1>4 DEF t, r

LEMMA CuttingDescends ==
  ASSUME NEW s, IsEvents(s), NEW P \in SUBSET DOMAIN s, NEW limit
  PROVE  Descends(s, [e \in DOMAIN Remaining(s, P) |-> WithinBar(Remaining(s, P)[e], limit)])
<1> DEFINE r == Remaining(s, P)
           t == [e \in DOMAIN r |-> WithinBar(r[e], limit)]
<1>1. IsEvents(r)
  <2>1. Meets(0, 0, s) /\ 0 \in 0..3 /\ 0 \in Int
    BY DEF Meets
  <2>2. Meets(0, 0, r)
    BY <2>1, RemovingKeeps
  <2>. QED
    BY <2>2 DEF Meets
<1>2. Descends(s, r)
  BY RemainingDescends DEF IsEvents
<1>. HIDE DEF r
<1>3. DOMAIN t = DOMAIN r /\ \A e \in DOMAIN r : t[e].notes = r[e].notes
  BY <1>1 DEF WithinBar, IsEvents, IsEvent
<1>. HIDE DEF t
<1>4. Descends(s, t)
  BY <1>2, <1>3 DEF Descends
<1>. QED
  BY <1>4 DEF t, r

\* What a pass makes of a part: where it has notes in a voice, they descend from that voice.
PartDescends(x, y) ==
  \A m \in DOMAIN y.measures : \A v \in DOMAIN y.measures[m].voices :
    \/ \A e \in DOMAIN y.measures[m].voices[v].events :
         y.measures[m].voices[v].events[e].notes = <<>>
    \/ /\ m \in DOMAIN x.measures /\ v \in DOMAIN x.measures[m].voices
       /\ Descends(x.measures[m].voices[v].events, y.measures[m].voices[v].events)

ScoreDescends(s, t) ==
  /\ DOMAIN t.parts = DOMAIN s.parts
  /\ \A p \in DOMAIN s.parts : PartDescends(s.parts[p], t.parts[p])

Chronological(x) ==
  \A m \in DOMAIN x.measures : \A v \in DOMAIN x.measures[m].voices :
    InTime(x.measures[m].voices[v].events)

AllChronological(s) == \A p \in DOMAIN s.parts : Chronological(s.parts[p])

LEMMA EventPlaces ==
  ASSUME NEW x, IsPart(0, x), NEW m \in DOMAIN x.measures, NEW v \in DOMAIN x.measures[m].voices
  PROVE  DOMAIN x.measures[m].voices[v].events \subseteq Int
<1> DEFINE es == x.measures[m].voices[v].events
<1>1. IsBar(0, x.measures[m])
  BY DEF IsPart
<1>2. IsVoice(0, x.measures[m].nominal, x.measures[m].voices[v])
  BY <1>1 DEF IsBar
<1>3. IsList(es)
  BY <1>2 DEF IsVoice, Meets, IsEvents
<1>. HIDE DEF es
<1>4. DOMAIN es \subseteq Int
  BY <1>3, SMTT(30) DEF IsList
<1>. QED
  BY <1>4 DEF es

LEMMA DescendsTwice ==
  ASSUME NEW s, NEW t, NEW u, IsScore(0, s), IsScore(0, t), IsScore(0, u),
         ScoreDescends(s, t), ScoreDescends(t, u)
  PROVE  ScoreDescends(s, u)
<1>. SUFFICES ASSUME NEW p \in DOMAIN s.parts PROVE PartDescends(s.parts[p], u.parts[p])
  BY DEF ScoreDescends
<1> DEFINE x == s.parts[p]
           y == t.parts[p]
           z == u.parts[p]
<1>1. /\ PartDescends(x, y) /\ PartDescends(y, z)
      /\ IsPart(0, x) /\ IsPart(0, y) /\ IsPart(0, z)
  BY SMTT(30) DEF ScoreDescends, IsScore
<1>. HIDE DEF x, y, z
<1>2. SUFFICES ASSUME NEW m \in DOMAIN z.measures, NEW v \in DOMAIN z.measures[m].voices
               PROVE  \/ \A e \in DOMAIN z.measures[m].voices[v].events :
                           z.measures[m].voices[v].events[e].notes = <<>>
                      \/ /\ m \in DOMAIN x.measures /\ v \in DOMAIN x.measures[m].voices
                         /\ Descends(x.measures[m].voices[v].events,
                                     z.measures[m].voices[v].events)
  BY Zenon DEF PartDescends, x, z
<1> DEFINE es == z.measures[m].voices[v].events
           ds == y.measures[m].voices[v].events
           cs == x.measures[m].voices[v].events
<1>3. \A e \in DOMAIN es : e \in Int
  BY <1>1, EventPlaces
<1>4. \/ \A e \in DOMAIN es : es[e].notes = <<>>
      \/ m \in DOMAIN y.measures /\ v \in DOMAIN y.measures[m].voices /\ Descends(ds, es)
  BY <1>1, SMTT(30) DEF PartDescends
<1>5. ASSUME m \in DOMAIN y.measures, v \in DOMAIN y.measures[m].voices, Descends(ds, es)
      PROVE  \/ \A e \in DOMAIN es : es[e].notes = <<>>
             \/ m \in DOMAIN x.measures /\ v \in DOMAIN x.measures[m].voices /\ Descends(cs, es)
  <2>1. \A d \in DOMAIN ds : d \in Int
    BY <1>1, <1>5, EventPlaces, SMTT(30)
  <2>2. \/ \A d \in DOMAIN ds : ds[d].notes = <<>>
        \/ m \in DOMAIN x.measures /\ v \in DOMAIN x.measures[m].voices /\ Descends(cs, ds)
    BY <1>1, <1>5 DEF PartDescends
  <2>3. CASE \A d \in DOMAIN ds : ds[d].notes = <<>>
    BY <1>5, <2>3 DEF Descends
  <2>4. CASE m \in DOMAIN x.measures /\ v \in DOMAIN x.measures[m].voices /\ Descends(cs, ds)
    <3>1. \A c \in DOMAIN cs : c \in Int
      BY <1>1, <2>4, EventPlaces
    <3>. HIDE DEF cs, ds, es
    <3>2. Descends(cs, es)
      BY <1>3, <1>5, <2>1, <2>4, <3>1 DEF Descends
    <3>. QED
      BY <2>4, <3>2
  <2>. QED
    BY <2>2, <2>3, <2>4, Zenon
<1>. QED
  BY <1>4, <1>5, Zenon

\* The passes that go voice by voice.
LEMMA ClampedDescends ==
  ASSUME NEW s, IsScore(0, s)
  PROVE  /\ ScoreDescends(s, EachVoice(s, Clamped))
         /\ AllChronological(s) => AllChronological(EachVoice(s, Clamped))
<1> DEFINE Revoiced(x) == [x EXCEPT !.voices = [v \in DOMAIN @ |-> Clamped(x, @[v])]]
           Parted(x) == [x EXCEPT !.measures = [m \in DOMAIN @ |-> Revoiced(@[m])]]
           t == EachVoice(s, Clamped)
<1>1. ASSUME NEW x, NEW y, IsVoice(0, x.nominal, y)
      PROVE  /\ Descends(y.events, Clamped(x, y).events)
             /\ InTime(y.events) => InTime(Clamped(x, y).events)
  <2>1. Clamped(x, y).events = [e \in DOMAIN y.events |-> NonNegative(y.events[e])]
    BY <1>1 DEF Clamped, IsVoice
  <2>2. IsEvents(y.events)
    BY <1>1 DEF IsVoice, Meets
  <2>. QED
    BY <2>1, <2>2, ClampingDescends
<1>2. ASSUME NEW x, IsBar(0, x)
      PROVE  Revoiced(x).voices = [v \in DOMAIN x.voices |-> Clamped(x, x.voices[v])]
  BY <1>2 DEF IsBar
<1>3. t = [s EXCEPT !.parts = [p \in DOMAIN @ |-> Parted(@[p])]]
  BY DEF EachVoice
<1>. HIDE DEF Revoiced
<1>4. ASSUME NEW x, IsPart(0, x)
      PROVE  Parted(x).measures = [m \in DOMAIN x.measures |-> Revoiced(x.measures[m])]
  BY <1>4 DEF IsPart
<1>. HIDE DEF Parted
<1>5. t.parts = [p \in DOMAIN s.parts |-> Parted(s.parts[p])]
  BY <1>3 DEF IsScore
<1>. HIDE DEF t
<1>6. ASSUME NEW p \in DOMAIN s.parts
      PROVE  /\ PartDescends(s.parts[p], t.parts[p])
             /\ Chronological(s.parts[p]) => Chronological(t.parts[p])
  <2> DEFINE x == s.parts[p]
             y == t.parts[p]
  <2>1. IsPart(0, x) /\ y = Parted(x)
    BY <1>5 DEF IsScore
  <2>. HIDE DEF x, y
  <2>2. y.measures = [m \in DOMAIN x.measures |-> Revoiced(x.measures[m])]
    BY <1>4, <2>1
  <2>3. \A m \in DOMAIN x.measures : IsBar(0, x.measures[m])
    BY <2>1 DEF IsPart
  <2>4. \A m \in DOMAIN x.measures :
          y.measures[m].voices = [v \in DOMAIN x.measures[m].voices |->
                                    Clamped(x.measures[m], x.measures[m].voices[v])]
    BY <1>2, <2>2, <2>3
  <2>5. \A m \in DOMAIN y.measures : \A v \in DOMAIN y.measures[m].voices :
          /\ m \in DOMAIN x.measures /\ v \in DOMAIN x.measures[m].voices
          /\ Descends(x.measures[m].voices[v].events, y.measures[m].voices[v].events)
          /\ InTime(x.measures[m].voices[v].events) => InTime(y.measures[m].voices[v].events)
    <3>. SUFFICES ASSUME NEW m \in DOMAIN y.measures, NEW v \in DOMAIN y.measures[m].voices
                  PROVE  /\ m \in DOMAIN x.measures /\ v \in DOMAIN x.measures[m].voices
                         /\ Descends(x.measures[m].voices[v].events,
                                     y.measures[m].voices[v].events)
                         /\ InTime(x.measures[m].voices[v].events)
                              => InTime(y.measures[m].voices[v].events)
      OBVIOUS
    <3>1. m \in DOMAIN x.measures
      BY <2>2
    <3>2. /\ v \in DOMAIN x.measures[m].voices
          /\ y.measures[m].voices[v] = Clamped(x.measures[m], x.measures[m].voices[v])
      BY <2>4, <3>1
    <3>3. IsVoice(0, x.measures[m].nominal, x.measures[m].voices[v])
      BY <2>3, <3>1, <3>2 DEF IsBar
    <3>. QED
      BY <1>1, <3>1, <3>2, <3>3
  <2>6. PartDescends(x, y) /\ (Chronological(x) => Chronological(y))
    BY <2>5 DEF PartDescends, Chronological
  <2>. QED
    BY <2>6 DEF x, y
<1>7. DOMAIN t.parts = DOMAIN s.parts
  BY <1>5
<1>. QED
  BY <1>6, <1>7 DEF ScoreDescends, AllChronological, t

LEMMA ThinnedDescends ==
  ASSUME NEW s, IsScore(1, s)
  PROVE  /\ ScoreDescends(s, EachVoice(s, Thinned))
         /\ AllChronological(s) => AllChronological(EachVoice(s, Thinned))
<1> DEFINE Revoiced(x) == [x EXCEPT !.voices = [v \in DOMAIN @ |-> Thinned(x, @[v])]]
           Parted(x) == [x EXCEPT !.measures = [m \in DOMAIN @ |-> Revoiced(@[m])]]
           t == EachVoice(s, Thinned)
<1>1. ASSUME NEW x, NEW y, IsVoice(1, x.nominal, y)
      PROVE  /\ Descends(y.events, Thinned(x, y).events)
             /\ InTime(y.events) => InTime(Thinned(x, y).events)
  <2> DEFINE P == {e \in DOMAIN y.events : Takes(y.events[e])}
  <2>1. Thinned(x, y).events = Remaining(y.events, P)
    BY <1>1 DEF Thinned, IsVoice
  <2>2. IsList(y.events) /\ P \in SUBSET DOMAIN y.events
    BY <1>1 DEF IsVoice, Meets, IsEvents
  <2>. HIDE DEF P
  <2>. QED
    BY <2>1, <2>2, RemainingDescends
<1>2. ASSUME NEW x, IsBar(1, x)
      PROVE  Revoiced(x).voices = [v \in DOMAIN x.voices |-> Thinned(x, x.voices[v])]
  BY <1>2 DEF IsBar
<1>3. t = [s EXCEPT !.parts = [p \in DOMAIN @ |-> Parted(@[p])]]
  BY DEF EachVoice
<1>. HIDE DEF Revoiced
<1>4. ASSUME NEW x, IsPart(1, x)
      PROVE  Parted(x).measures = [m \in DOMAIN x.measures |-> Revoiced(x.measures[m])]
  BY <1>4 DEF IsPart
<1>. HIDE DEF Parted
<1>5. t.parts = [p \in DOMAIN s.parts |-> Parted(s.parts[p])]
  BY <1>3 DEF IsScore
<1>. HIDE DEF t
<1>6. ASSUME NEW p \in DOMAIN s.parts
      PROVE  /\ PartDescends(s.parts[p], t.parts[p])
             /\ Chronological(s.parts[p]) => Chronological(t.parts[p])
  <2> DEFINE x == s.parts[p]
             y == t.parts[p]
  <2>1. IsPart(1, x) /\ y = Parted(x)
    BY <1>5 DEF IsScore
  <2>. HIDE DEF x, y
  <2>2. y.measures = [m \in DOMAIN x.measures |-> Revoiced(x.measures[m])]
    BY <1>4, <2>1
  <2>3. \A m \in DOMAIN x.measures : IsBar(1, x.measures[m])
    BY <2>1 DEF IsPart
  <2>4. \A m \in DOMAIN x.measures :
          y.measures[m].voices = [v \in DOMAIN x.measures[m].voices |->
                                    Thinned(x.measures[m], x.measures[m].voices[v])]
    BY <1>2, <2>2, <2>3
  <2>5. \A m \in DOMAIN y.measures : \A v \in DOMAIN y.measures[m].voices :
          /\ m \in DOMAIN x.measures /\ v \in DOMAIN x.measures[m].voices
          /\ Descends(x.measures[m].voices[v].events, y.measures[m].voices[v].events)
          /\ InTime(x.measures[m].voices[v].events) => InTime(y.measures[m].voices[v].events)
    <3>. SUFFICES ASSUME NEW m \in DOMAIN y.measures, NEW v \in DOMAIN y.measures[m].voices
                  PROVE  /\ m \in DOMAIN x.measures /\ v \in DOMAIN x.measures[m].voices
                         /\ Descends(x.measures[m].voices[v].events,
                                     y.measures[m].voices[v].events)
                         /\ InTime(x.measures[m].voices[v].events)
                              => InTime(y.measures[m].voices[v].events)
      OBVIOUS
    <3>1. m \in DOMAIN x.measures
      BY <2>2
    <3>2. /\ v \in DOMAIN x.measures[m].voices
          /\ y.measures[m].voices[v] = Thinned(x.measures[m], x.measures[m].voices[v])
      BY <2>4, <3>1
    <3>3. IsVoice(1, x.measures[m].nominal, x.measures[m].voices[v])
      BY <2>3, <3>1, <3>2 DEF IsBar
    <3>. QED
      BY <1>1, <3>1, <3>2, <3>3
  <2>6. PartDescends(x, y) /\ (Chronological(x) => Chronological(y))
    BY <2>5 DEF PartDescends, Chronological
  <2>. QED
    BY <2>6 DEF x, y
<1>7. DOMAIN t.parts = DOMAIN s.parts
  BY <1>5
<1>. QED
  BY <1>6, <1>7 DEF ScoreDescends, AllChronological, t

LEMMA ArrangedDescends ==
  ASSUME NEW s, IsScore(1, s), AllChronological(s)
  PROVE  ScoreDescends(s, EachVoice(s, Arranged))
<1> DEFINE Revoiced(x) == [x EXCEPT !.voices = [v \in DOMAIN @ |-> Arranged(x, @[v])]]
           Parted(x) == [x EXCEPT !.measures = [m \in DOMAIN @ |-> Revoiced(@[m])]]
           t == EachVoice(s, Arranged)
<1>1. ASSUME NEW x, NEW y, IsVoice(1, x.nominal, y), InTime(y.events)
      PROVE  Descends(y.events, Arranged(x, y).events)
  <2>1. Arranged(x, y).events = Shortened(InTimeOrder(y.events))
    BY <1>1 DEF Arranged, IsVoice
  <2>2. IsEvents(y.events)
    BY <1>1 DEF IsVoice, Meets
  <2>. QED
    BY <1>1, <2>1, <2>2, ShorteningDescends
<1>2. ASSUME NEW x, IsBar(1, x)
      PROVE  Revoiced(x).voices = [v \in DOMAIN x.voices |-> Arranged(x, x.voices[v])]
  BY <1>2 DEF IsBar
<1>3. t = [s EXCEPT !.parts = [p \in DOMAIN @ |-> Parted(@[p])]]
  BY DEF EachVoice
<1>. HIDE DEF Revoiced
<1>4. ASSUME NEW x, IsPart(1, x)
      PROVE  Parted(x).measures = [m \in DOMAIN x.measures |-> Revoiced(x.measures[m])]
  BY <1>4 DEF IsPart
<1>. HIDE DEF Parted
<1>5. t.parts = [p \in DOMAIN s.parts |-> Parted(s.parts[p])]
  BY <1>3 DEF IsScore
<1>. HIDE DEF t
<1>6. ASSUME NEW p \in DOMAIN s.parts
      PROVE  PartDescends(s.parts[p], t.parts[p])
  <2> DEFINE x == s.parts[p]
             y == t.parts[p]
  <2>1. IsPart(1, x) /\ y = Parted(x) /\ Chronological(x)
    BY <1>5 DEF IsScore, AllChronological
  <2>. HIDE DEF x, y
  <2>2. y.measures = [m \in DOMAIN x.measures |-> Revoiced(x.measures[m])]
    BY <1>4, <2>1
  <2>3. \A m \in DOMAIN x.measures : IsBar(1, x.measures[m])
    BY <2>1 DEF IsPart
  <2>4. \A m \in DOMAIN x.measures :
          y.measures[m].voices = [v \in DOMAIN x.measures[m].voices |->
                                    Arranged(x.measures[m], x.measures[m].voices[v])]
    BY <1>2, <2>2, <2>3
  <2>5. ASSUME NEW m \in DOMAIN y.measures, NEW v \in DOMAIN y.measures[m].voices
        PROVE  /\ m \in DOMAIN x.measures /\ v \in DOMAIN x.measures[m].voices
               /\ Descends(x.measures[m].voices[v].events, y.measures[m].voices[v].events)
    <3>1. m \in DOMAIN x.measures
      BY <2>2
    <3>2. /\ v \in DOMAIN x.measures[m].voices
          /\ y.measures[m].voices[v] = Arranged(x.measures[m], x.measures[m].voices[v])
      BY <2>4, <3>1
    <3>3. IsVoice(1, x.measures[m].nominal, x.measures[m].voices[v])
      BY <2>3, <3>1, <3>2 DEF IsBar
    <3>. QED
      BY <1>1, <2>1, <3>1, <3>2, <3>3 DEF Chronological
  <2>6. PartDescends(x, y)
    BY <2>5 DEF PartDescends
  <2>. QED
    BY <2>6 DEF x, y
<1>7. DOMAIN t.parts = DOMAIN s.parts
  BY <1>5
<1>. QED
  BY <1>6, <1>7 DEF ScoreDescends, t

LEMMA FittedDescends ==
  ASSUME NEW s, IsScore(2, s)
  PROVE  ScoreDescends(s, EachVoice(s, Fitted))
<1> DEFINE Revoiced(x) == [x EXCEPT !.voices = [v \in DOMAIN @ |-> Fitted(x, @[v])]]
           Parted(x) == [x EXCEPT !.measures = [m \in DOMAIN @ |-> Revoiced(@[m])]]
           t == EachVoice(s, Fitted)
<1>1. ASSUME NEW x, NEW y, IsVoice(2, x.nominal, y), x.nominal \in Nat \ {0}
      PROVE  Descends(y.events, Fitted(x, y).events)
  <2> DEFINE P == Beginning(y, x.nominal)
             kept == Remaining(y.events, P)
             cut == [e \in DOMAIN kept |-> WithinBar(kept[e], x.nominal)]
  <2>1. IsEvents(y.events) /\ P \in SUBSET DOMAIN y.events
    BY <1>1 DEF IsVoice, Meets, Beginning
  <2>2. Fitted(x, y) = [y EXCEPT !.events = cut]
    BY <1>1 DEF Fitted
  <2>. HIDE DEF P
  <2>3. Descends(y.events, cut)
    BY <2>1, CuttingDescends
  <2>. HIDE DEF cut
  <2>4. Fitted(x, y).events = cut
    BY <1>1, <2>2 DEF IsVoice
  <2>. QED
    BY <2>3, <2>4
<1>2. ASSUME NEW x, IsBar(2, x)
      PROVE  Revoiced(x).voices = [v \in DOMAIN x.voices |-> Fitted(x, x.voices[v])]
  BY <1>2 DEF IsBar
<1>3. t = [s EXCEPT !.parts = [p \in DOMAIN @ |-> Parted(@[p])]]
  BY DEF EachVoice
<1>. HIDE DEF Revoiced
<1>4. ASSUME NEW x, IsPart(2, x)
      PROVE  Parted(x).measures = [m \in DOMAIN x.measures |-> Revoiced(x.measures[m])]
  BY <1>4 DEF IsPart
<1>. HIDE DEF Parted
<1>5. t.parts = [p \in DOMAIN s.parts |-> Parted(s.parts[p])]
  BY <1>3 DEF IsScore
<1>. HIDE DEF t
<1>6. ASSUME NEW p \in DOMAIN s.parts
      PROVE  PartDescends(s.parts[p], t.parts[p])
  <2> DEFINE x == s.parts[p]
             y == t.parts[p]
  <2>1. IsPart(2, x) /\ y = Parted(x)
    BY <1>5 DEF IsScore
  <2>. HIDE DEF x, y
  <2>2. y.measures = [m \in DOMAIN x.measures |-> Revoiced(x.measures[m])]
    BY <1>4, <2>1
  <2>3. \A m \in DOMAIN x.measures : IsBar(2, x.measures[m])
    BY <2>1 DEF IsPart
  <2>4. \A m \in DOMAIN x.measures :
          y.measures[m].voices = [v \in DOMAIN x.measures[m].voices |->
                                    Fitted(x.measures[m], x.measures[m].voices[v])]
    BY <1>2, <2>2, <2>3
  <2>5. ASSUME NEW m \in DOMAIN y.measures, NEW v \in DOMAIN y.measures[m].voices
        PROVE  /\ m \in DOMAIN x.measures /\ v \in DOMAIN x.measures[m].voices
               /\ Descends(x.measures[m].voices[v].events, y.measures[m].voices[v].events)
    <3>1. m \in DOMAIN x.measures
      BY <2>2
    <3>2. /\ v \in DOMAIN x.measures[m].voices
          /\ y.measures[m].voices[v] = Fitted(x.measures[m], x.measures[m].voices[v])
      BY <2>4, <3>1
    <3>3. /\ IsVoice(2, x.measures[m].nominal, x.measures[m].voices[v])
          /\ x.measures[m].nominal \in Nat \ {0}
      BY <2>3, <3>1, <3>2 DEF IsBar
    <3>. QED
      BY <1>1, <2>1, <3>1, <3>2, <3>3
  <2>6. PartDescends(x, y)
    BY <2>5 DEF PartDescends
  <2>. QED
    BY <2>6 DEF x, y
<1>7. DOMAIN t.parts = DOMAIN s.parts
  BY <1>5
<1>. QED
  BY <1>6, <1>7 DEF ScoreDescends, t

LEMMA FromStage ==
  ASSUME NEW stage \in 0..3, NEW s, IsScore(stage, s)
  PROVE  IsScore(0, s)
<1>1. \A limit, es : Meets(stage, limit, es) => Meets(0, limit, es)
  BY DEF Meets
<1>2. \A limit, x : IsVoice(stage, limit, x) => IsVoice(0, limit, x)
  BY <1>1 DEF IsVoice
<1>3. \A x : IsBar(stage, x) => IsBar(0, x)
  BY <1>2 DEF IsBar
<1>4. \A x : IsPart(stage, x) => IsPart(0, x)
  BY <1>3 DEF IsPart
<1>. QED
  BY <1>4 DEF IsScore

LEMMA SilentPadding ==
  ASSUME NEW length
  PROVE  \A v \in DOMAIN PaddingBar(length).voices :
           \A e \in DOMAIN PaddingBar(length).voices[v].events :
             PaddingBar(length).voices[v].events[e].notes = <<>>
BY DEF PaddingBar

LEMMA DurationsDescend ==
  ASSUME NEW s, IsScore(0, s), AllChronological(s)
  PROVE  /\ ScoreDescends(s, NonNegativeDurations(s))
         /\ AllChronological(NonNegativeDurations(s))
<1> DEFINE c == EachVoice(s, Clamped)
           t == EachVoice(c, Thinned)
<1>1. IsScore(1, c) /\ ScoreDescends(s, c) /\ AllChronological(c)
  BY ClampedScore, ClampedDescends
<1>2. PICK kinds : NonNegativeDurations(s) = Reported(t, kinds)
  BY DEF NonNegativeDurations, Clamped, Thinned
<1>. HIDE DEF c
<1>3. IsScore(1, t) /\ ScoreDescends(c, t) /\ AllChronological(t)
  BY <1>1, ThinnedScore, ThinnedDescends
<1>. HIDE DEF t
<1>4. IsScore(0, c) /\ IsScore(0, t)
  <2>1. 1 \in 0..3
    OBVIOUS
  <2>. QED
    BY <1>1, <1>3, <2>1, FromStage
<1>5. ScoreDescends(s, t)
  BY <1>1, <1>3, <1>4, DescendsTwice
<1>6. Reported(t, kinds).parts = t.parts
  BY <1>3, ReportedScore
<1>. QED
  BY <1>2, <1>3, <1>5, <1>6 DEF ScoreDescends, AllChronological

LEMMA OrderingDescends ==
  ASSUME NEW s, IsScore(1, s), AllChronological(s)
  PROVE  ScoreDescends(s, VoiceOrdering(s))
<1> DEFINE t == EachVoice(s, Arranged)
<1>1. IsScore(2, t) /\ ScoreDescends(s, t)
  BY ArrangedScore, ArrangedDescends
<1>2. PICK kinds : VoiceOrdering(s) = Reported(t, kinds)
  BY DEF VoiceOrdering, Arranged
<1>. HIDE DEF t
<1>3. Reported(t, kinds).parts = t.parts
  BY <1>1, ReportedScore
<1>. QED
  BY <1>1, <1>2, <1>3 DEF ScoreDescends

LEMMA BoundsDescend ==
  ASSUME NEW s, IsScore(2, s)
  PROVE  ScoreDescends(s, MeasureBounds(s))
<1> DEFINE t == EachVoice(s, Fitted)
<1>1. IsScore(3, t) /\ ScoreDescends(s, t)
  BY FittedScore, FittedDescends
<1>2. PICK kinds : MeasureBounds(s) = Reported(t, kinds)
  BY DEF MeasureBounds, Fitted, Beginning
<1>. HIDE DEF t
<1>3. Reported(t, kinds).parts = t.parts
  BY <1>1, ReportedScore
<1>. QED
  BY <1>1, <1>2, <1>3 DEF ScoreDescends

LEMMA AlignmentDescends ==
  ASSUME NEW s, IsScore(3, s)
  PROVE  ScoreDescends(s, MeasureAlignment(s))
<1> DEFINE longest == Max({0} \cup {Len(s.parts[p].measures) : p \in DOMAIN s.parts})
           Starts(f) == f = [m \in 1..longest |->
                               IF m = 1 THEN 0 ELSE f[m - 1] + LongestClaim(s, m - 1)]
           starts == CHOOSE f : Starts(f)
           Bar(part, m) == IF m \in DOMAIN part.measures THEN part.measures[m]
                           ELSE PaddingBar(LongestClaim(s, m))
           Placed(part, m) == [Bar(part, m) EXCEPT !.start = starts[m],
                                                   !.nominal = LongestClaim(s, m)]
           Aligned(part) == [part EXCEPT !.measures = [m \in 1..longest |-> Placed(part, m)]]
           t == [s EXCEPT !.parts = [p \in DOMAIN @ |-> Aligned(@[p])]]
<1>1. PICK kinds : MeasureAlignment(s) = Reported(t, kinds)
  BY Zenon DEF MeasureAlignment
<1>. HIDE DEF longest, starts
<1>2. ASSUME NEW x, IsPart(3, x), NEW m
      PROVE  Placed(x, m).voices = Bar(x, m).voices
  <2> DEFINE b == Bar(x, m)
  <2>1. "voices" \in DOMAIN b
    <3>1. CASE m \in DOMAIN x.measures
      BY <1>2, <3>1 DEF IsPart, IsBar
    <3>2. CASE m \notin DOMAIN x.measures
      BY <3>2 DEF PaddingBar
    <3>. QED
      BY <3>1, <3>2
  <2>. HIDE DEF b
  <2>2. Placed(x, m) = [b EXCEPT !.start = starts[m], !.nominal = LongestClaim(s, m)]
    BY DEF b
  <2>3. Placed(x, m).voices = b.voices
    BY <2>1, <2>2
  <2>. QED
    BY <2>3 DEF b
<1>. HIDE DEF Placed
<1>3. ASSUME NEW x, IsPart(3, x) PROVE PartDescends(x, Aligned(x))
  <2> DEFINE y == Aligned(x)
  <2>1. y.measures = [m \in 1..longest |-> Placed(x, m)]
    BY <1>3 DEF IsPart
  <2>. HIDE DEF y
  <2>2. ASSUME NEW m \in DOMAIN y.measures, NEW v \in DOMAIN y.measures[m].voices
        PROVE  \/ \A e \in DOMAIN y.measures[m].voices[v].events :
                    y.measures[m].voices[v].events[e].notes = <<>>
               \/ /\ m \in DOMAIN x.measures /\ v \in DOMAIN x.measures[m].voices
                  /\ Descends(x.measures[m].voices[v].events, y.measures[m].voices[v].events)
    <3>1. y.measures[m].voices = Bar(x, m).voices
      BY <1>2, <1>3, <2>1
    <3>2. CASE m \in DOMAIN x.measures
      <4>1. y.measures[m].voices = x.measures[m].voices
        BY <3>1, <3>2
      <4> DEFINE es == x.measures[m].voices[v].events
      <4>2. IsPart(0, x)
        <5>1. \A limit, fs : Meets(3, limit, fs) => Meets(0, limit, fs)
          BY DEF Meets
        <5>2. \A limit, z : IsVoice(3, limit, z) => IsVoice(0, limit, z)
          BY <5>1 DEF IsVoice
        <5>3. \A z : IsBar(3, z) => IsBar(0, z)
          BY <5>2 DEF IsBar
        <5>. QED
          BY <1>3, <5>3 DEF IsPart
      <4>3. DOMAIN es \subseteq Int
        BY <3>2, <4>1, <4>2, EventPlaces
      <4>. HIDE DEF es
      <4>4. Descends(es, es)
        BY <4>3 DEF Descends
      <4>. QED
        BY <3>2, <4>1, <4>4 DEF es
    <3>3. CASE m \notin DOMAIN x.measures
      <4>1. y.measures[m].voices = PaddingBar(LongestClaim(s, m)).voices
        BY <3>1, <3>3
      <4>. QED
        BY <4>1, SilentPadding
    <3>. QED
      BY <3>2, <3>3
  <2>3. PartDescends(x, y)
    BY <2>2 DEF PartDescends
  <2>. QED
    BY <2>3 DEF y
<1>. HIDE DEF Aligned
<1>4. DOMAIN t = DOMAIN s /\ t.parts = [p \in DOMAIN s.parts |-> Aligned(s.parts[p])]
  BY DEF IsScore
<1>5. Reported(t, kinds).parts = t.parts
  BY <1>4 DEF Reported, IsScore
<1>. HIDE DEF t
<1>6. ScoreDescends(s, t)
  BY <1>3, <1>4 DEF ScoreDescends, IsScore
<1>. QED
  BY <1>1, <1>5, <1>6, SMTT(30) DEF ScoreDescends

LEMMA NamingKeepsMeasures ==
  ASSUME NEW s, IsScore(3, s)
  PROVE  /\ DOMAIN UniquePartIds(s).parts = DOMAIN s.parts
         /\ \A p \in DOMAIN s.parts : UniquePartIds(s).parts[p].measures = s.parts[p].measures
<1> DEFINE Names(f) == f = [p \in DOMAIN s.parts |-> IdOf(s, p, {f[q] : q \in 1..(p - 1)})]
           ids == CHOOSE f : Names(f)
           t == [s EXCEPT !.parts = [p \in DOMAIN @ |-> [@[p] EXCEPT !.id = ids[p]]]]
<1>1. \E kinds : UniquePartIds(s) = Reported(t, kinds)
  BY DEF UniquePartIds, IdOf
<1>. HIDE DEF ids
<1>2. PICK kinds : UniquePartIds(s) = Reported(t, kinds)
  BY <1>1
<1>3. DOMAIN t = DOMAIN s /\ t.parts = [p \in DOMAIN s.parts |-> [s.parts[p] EXCEPT !.id = ids[p]]]
  BY DEF IsScore
<1>. HIDE DEF t
<1>4. Reported(t, kinds).parts = t.parts
  BY <1>3 DEF Reported, IsScore
<1>5. \A p \in DOMAIN s.parts : t.parts[p].measures = s.parts[p].measures
  <2>. SUFFICES ASSUME NEW p \in DOMAIN s.parts
                PROVE  t.parts[p].measures = s.parts[p].measures
    OBVIOUS
  <2> DEFINE x == s.parts[p]
  <2>1. "measures" \in DOMAIN x /\ t.parts[p] = [x EXCEPT !.id = ids[p]]
    BY <1>3 DEF IsScore, IsPart
  <2>. HIDE DEF x
  <2>2. t.parts[p].measures = x.measures
    BY <2>1
  <2>. QED
    BY <2>2 DEF x
<1>. QED
  BY <1>2, <1>3, <1>4, <1>5 DEF t

-----------------------------------------------------------------------------
(* Links that do not cross.                                                *)

\* The same place, or one before it in the same voice.
Below(a, b) == a[1] = b[1] /\ a[2] = b[2] /\ a[3] <= b[3] /\ a[4] = b[4]

\* The links of a part are among the given pairs, and no two of them cross in a way that
\* moving notes forward in their voice could make one link of both.
Straight(x, pairs) ==
  /\ \A a \in Refs(x) : NoteAt(x, a).to # NoRef =>
       /\ NoteAt(x, a).to \in Refs(x)
       /\ <<NoteAt(x, a).id, NoteAt(x, NoteAt(x, a).to).id>> \in pairs
  /\ \A a, b \in Refs(x) :
       /\ NoteAt(x, a).to # NoRef /\ NoteAt(x, b).from # NoRef
       /\ NoteAt(x, a).sounding = NoteAt(x, b).sounding
       /\ Below(NoteAt(x, b).from, a) /\ Below(NoteAt(x, a).to, b)
       => NoteAt(x, b).from = a /\ NoteAt(x, a).to = b

LEMMA PlaceOfRef ==
  ASSUME NEW x, NEW ref \in Refs(x)
  PROVE  \E m \in DOMAIN x.measures : \E v \in DOMAIN x.measures[m].voices :
           \E e \in DOMAIN x.measures[m].voices[v].events :
             \E n \in DOMAIN x.measures[m].voices[v].events[e].notes : ref = <<m, v, e, n>>
BY DEF Refs

LEMMA RefOfPlace ==
  ASSUME NEW x, NEW m \in DOMAIN x.measures, NEW v \in DOMAIN x.measures[m].voices,
         NEW e \in DOMAIN x.measures[m].voices[v].events,
         NEW n \in DOMAIN x.measures[m].voices[v].events[e].notes
  PROVE  <<m, v, e, n>> \in Refs(x)
BY DEF Refs

\* The note at a place comes from the place it had.
LEMMA Origin ==
  ASSUME NEW x, NEW y, PartDescends(x, y), NEW ref \in Refs(y)
  PROVE  \E a \in Refs(x) : Below(ref, a) /\ NoteAt(x, a) = NoteAt(y, ref)
<1>1. PICK m \in DOMAIN y.measures : \E v \in DOMAIN y.measures[m].voices :
        \E e \in DOMAIN y.measures[m].voices[v].events :
          \E n \in DOMAIN y.measures[m].voices[v].events[e].notes : ref = <<m, v, e, n>>
  BY PlaceOfRef
<1>2. PICK v \in DOMAIN y.measures[m].voices :
        \E e \in DOMAIN y.measures[m].voices[v].events :
          \E n \in DOMAIN y.measures[m].voices[v].events[e].notes : ref = <<m, v, e, n>>
  BY <1>1
<1>3. PICK e \in DOMAIN y.measures[m].voices[v].events :
        \E n \in DOMAIN y.measures[m].voices[v].events[e].notes : ref = <<m, v, e, n>>
  BY <1>2
<1>4. PICK n \in DOMAIN y.measures[m].voices[v].events[e].notes : ref = <<m, v, e, n>>
  BY <1>3
<1>5. y.measures[m].voices[v].events[e].notes # <<>>
  BY <1>4, EmptySeq
<1>6. /\ m \in DOMAIN x.measures /\ v \in DOMAIN x.measures[m].voices
      /\ Descends(x.measures[m].voices[v].events, y.measures[m].voices[v].events)
  BY <1>5 DEF PartDescends
<1>7. PICK d \in DOMAIN x.measures[m].voices[v].events :
        /\ d >= e
        /\ y.measures[m].voices[v].events[e].notes = x.measures[m].voices[v].events[d].notes
  BY <1>6, SMTT(30) DEF Descends
<1>8. <<m, v, d, n>> \in Refs(x)
  BY <1>4, <1>6, <1>7, RefOfPlace, ZenonT(30)
<1>9. NoteAt(x, <<m, v, d, n>>) = NoteAt(y, ref)
  BY <1>4, <1>7 DEF NoteAt
<1>10. Below(ref, <<m, v, d, n>>)
  BY <1>4, <1>7 DEF Below
<1>. QED
  BY <1>8, <1>9, <1>10

LEMMA RefIsSome ==
  ASSUME NEW x, NEW ref \in Refs(x)
  PROVE  ref # NoRef
BY PlaceOfRef DEF NoRef

\* A link that survives the passes joins two notes that were linked: were a note at one of
\* its ends not where it was, two links of one voice and pitch would have crossed.
LEMMA KeptLinksWereThere ==
  ASSUME NEW o, NEW pairs, Straight(o, pairs), NEW x, PartDescends(o, x), IsPart(3, x)
  PROVE  Links(TiesKept(x)) \subseteq pairs
<1> DEFINE Kept(ref, forward, link) == IF Holds(x, ref, forward) THEN link ELSE NoRef
           links == [ref \in Refs(x) |-> [to |-> Kept(ref, TRUE, NoteAt(x, ref).to),
                                          from |-> Kept(ref, FALSE, NoteAt(x, ref).from)]]
           y == TiesKept(x)
<1>1. y = Relinked(x, links)
  BY DEF TiesKept
<1>2. /\ "measures" \in DOMAIN x /\ IsList(x.measures)
      /\ \A m \in DOMAIN x.measures : IsBar(3, x.measures[m])
  BY DEF IsPart
<1>3. \A ref \in Refs(x) : /\ links[ref].to = Kept(ref, TRUE, NoteAt(x, ref).to)
                           /\ links[ref].from = Kept(ref, FALSE, NoteAt(x, ref).from)
  OBVIOUS
<1>. HIDE DEF links, y
<1>4. /\ LikeBars(x.measures, y.measures)
      /\ \A ref \in Refs(x) : /\ NoteAt(y, ref).to = links[ref].to
                              /\ NoteAt(y, ref).from = links[ref].from
                              /\ NoteAt(y, ref).id = NoteAt(x, ref).id
  BY <1>1, <1>2, RelinkingLinks
<1>5. Refs(y) = Refs(x)
  BY <1>2, <1>4, RelinkedBars
<1>6. ASSUME NEW ref \in Refs(x), Holds(x, ref, TRUE), NoteAt(x, ref).to # NoRef
      PROVE  /\ NoteAt(x, ref).to \in Refs(x)
             /\ <<NoteAt(x, ref).id, NoteAt(x, NoteAt(x, ref).to).id>> \in pairs
  <2> DEFINE link == NoteAt(x, ref).to
  <2>1. /\ link \in Refs(x) /\ ref = NoteAt(x, link).from
        /\ NoteAt(x, ref).sounding = NoteAt(x, link).sounding
    BY <1>6 DEF Holds, Mirrored, SameSound, Resolves
  <2>2. PICK a \in Refs(o) : Below(ref, a) /\ NoteAt(o, a) = NoteAt(x, ref)
    BY Origin
  <2>3. PICK b \in Refs(o) : Below(link, b) /\ NoteAt(o, b) = NoteAt(x, link)
    BY <2>1, Origin
  <2>4. ref # NoRef
    BY RefIsSome
  <2>5. ref = a /\ link = b
    BY <1>6, <2>1, <2>2, <2>3, <2>4 DEF Straight
  <2>6. <<NoteAt(o, a).id, NoteAt(o, b).id>> \in pairs
    BY <1>6, <2>2, <2>5 DEF Straight
  <2>. QED
    BY <2>1, <2>2, <2>3, <2>6
<1>7. ASSUME NEW ref \in Refs(y), NoteAt(y, ref).to # NoRef
      PROVE  <<NoteAt(y, ref).id, NoteAt(y, NoteAt(y, ref).to).id>> \in pairs
  <2>1. /\ ref \in Refs(x) /\ Holds(x, ref, TRUE)
        /\ NoteAt(y, ref).to = NoteAt(x, ref).to
    BY <1>3, <1>4, <1>5, <1>7
  <2>. QED
    BY <1>4, <1>6, <1>7, <2>1
<1>8. ASSUME NEW ref \in Refs(y), NoteAt(y, ref).from # NoRef
      PROVE  <<NoteAt(y, NoteAt(y, ref).from).id, NoteAt(y, ref).id>> \in pairs
  <2> DEFINE link == NoteAt(x, ref).from
  <2>1. /\ ref \in Refs(x) /\ Holds(x, ref, FALSE) /\ NoteAt(y, ref).from = link
    BY <1>3, <1>4, <1>5, <1>8
  <2>2. /\ link \in Refs(x) /\ ref = NoteAt(x, link).to
        /\ NoteAt(x, ref).sounding = NoteAt(x, link).sounding
    BY <2>1 DEF Holds, Mirrored, SameSound, Resolves
  <2>3. Holds(x, link, TRUE)
    BY <2>1, <2>2 DEF Holds, Mirrored, SameSound, Resolves
  <2>4. ref # NoRef
    BY <2>1, RefIsSome
  <2>5. <<NoteAt(x, link).id, NoteAt(x, ref).id>> \in pairs
    BY <1>6, <2>2, <2>3, <2>4
  <2>. QED
    BY <1>4, <2>1, <2>2, <2>5
<1>9. Links(y) \subseteq pairs
  BY <1>7, <1>8 DEF Links
<1>. QED
  BY <1>9 DEF y

\* Positions before and after the passes.
LEMMA PassesKeepTies ==
  ASSUME NEW s, IsScore(0, s), AllChronological(s), NEW pairs,
         \A p \in DOMAIN s.parts : Straight(s.parts[p], pairs)
  PROVE  \A p \in DOMAIN EnforceInvariants(s).parts :
           Links(EnforceInvariants(s).parts[p]) \subseteq pairs
<1> DEFINE a == NonNegativeDurations(s)
<1>1. IsScore(1, a) /\ ScoreDescends(s, a) /\ AllChronological(a)
  BY DurationsPass, DurationsDescend
<1>. HIDE DEF a
<1> DEFINE b == VoiceOrdering(a)
<1>2. IsScore(2, b) /\ ScoreDescends(a, b)
  BY <1>1, OrderingPass, OrderingDescends
<1>. HIDE DEF b
<1> DEFINE c == MeasureBounds(b)
<1>3. IsScore(3, c) /\ ScoreDescends(b, c)
  BY <1>2, BoundsPass, BoundsDescend
<1>. HIDE DEF c
<1> DEFINE d == MeasureAlignment(c)
<1>4. IsScore(3, d) /\ InStep(d) /\ ScoreDescends(c, d)
  BY <1>3, AlignmentPass, AlignmentDescends
<1>. HIDE DEF d
<1> DEFINE e == UniquePartIds(d)
<1>5. /\ IsScore(3, e) /\ DOMAIN e.parts = DOMAIN d.parts
      /\ \A p \in DOMAIN d.parts : e.parts[p].measures = d.parts[p].measures
  BY <1>4, NamingPass, NamingKeepsMeasures
<1>. HIDE DEF e
<1>6. EnforceInvariants(s) = TieIntegrity(e)
  BY DEF EnforceInvariants, a, b, c, d, e
<1>7. IsScore(0, a) /\ IsScore(0, b) /\ IsScore(0, c) /\ IsScore(0, d)
  <2>1. 1 \in 0..3 /\ 2 \in 0..3 /\ 3 \in 0..3
    OBVIOUS
  <2>. QED
    BY <1>1, <1>2, <1>3, <1>4, <2>1, FromStage
<1>8. ScoreDescends(s, b)
  BY <1>1, <1>2, <1>7, DescendsTwice
<1>9. ScoreDescends(s, c)
  BY <1>3, <1>7, <1>8, DescendsTwice
<1>10. ScoreDescends(s, d)
  BY <1>4, <1>7, <1>9, DescendsTwice, SMTT(30)
<1>11. ScoreDescends(s, e)
  BY <1>5, <1>10, ZenonT(30) DEF ScoreDescends, PartDescends
<1>12. TieIntegrity(e).parts = [p \in DOMAIN e.parts |-> TiesKept(e.parts[p])]
  <2> DEFINE t == [e EXCEPT !.parts = [p \in DOMAIN @ |-> TiesKept(@[p])]]
  <2>1. \E kinds : TieIntegrity(e) = Reported(t, kinds)
    BY DEF TieIntegrity
  <2>2. DOMAIN t = DOMAIN e /\ t.parts = [p \in DOMAIN e.parts |-> TiesKept(e.parts[p])]
    BY <1>5 DEF IsScore
  <2>. HIDE DEF t
  <2>3. \A kinds : Reported(t, kinds).parts = t.parts
    BY <1>5, <2>2 DEF Reported, IsScore
  <2>. QED
    BY <2>1, <2>2, <2>3
<1>13. ASSUME NEW p \in DOMAIN e.parts PROVE Links(TiesKept(e.parts[p])) \subseteq pairs
  <2>1. Straight(s.parts[p], pairs) /\ PartDescends(s.parts[p], e.parts[p]) /\ IsPart(3, e.parts[p])
    BY <1>5, <1>11 DEF ScoreDescends, IsScore
  <2>. QED
    BY <2>1, KeptLinksWereThere
<1>. QED
  BY <1>6, <1>12, <1>13

-----------------------------------------------------------------------------
(* Ties as they are resolved.                                               *)

LEMMA FiniteUnion ==
  ASSUME NEW f, IsFiniteSet(DOMAIN f), f = [x \in DOMAIN f |-> f[x]],
         \A x \in DOMAIN f : IsFiniteSet(f[x])
  PROVE  IsFiniteSet(UNION {f[x] : x \in DOMAIN f})
<1> DEFINE S == {f[x] : x \in DOMAIN f}
<1>1. IsFiniteSet(S)
  BY FiniteValues
<1>2. \A T \in S : IsFiniteSet(T)
  OBVIOUS
<1>. HIDE DEF S
<1>3. IsFiniteSet(UNION S)
  BY <1>1, <1>2, FS_UNION
<1>. QED
  BY <1>3 DEF S

LEMMA FiniteDomain ==
  ASSUME NEW s, IsList(s)
  PROVE  IsFiniteSet(DOMAIN s)
<1>1. DOMAIN s = 1..Len(s) /\ Len(s) \in Nat
  BY DEF IsList
<1>. QED
  BY <1>1, FS_Interval

LEMMA RefsAreFinite ==
  ASSUME NEW x, IsBars(x.measures)
  PROVE  IsFiniteSet(Refs(x))
<1> DEFINE ms == x.measures
           Vs(m) == ms[m].voices
           Es(m, v) == Vs(m)[v].events
           Ns(m, v, e) == Es(m, v)[e].notes
           OfEvent(m, v, e) == {<<m, v, e, n>> : n \in DOMAIN Ns(m, v, e)}
           OfVoice(m, v) == UNION {OfEvent(m, v, e) : e \in DOMAIN Es(m, v)}
           OfBar(m) == UNION {OfVoice(m, v) : v \in DOMAIN Vs(m)}
<1>1. IsList(ms) /\ \A m \in DOMAIN ms : IsBar(0, ms[m])
  BY DEF IsBars
<1>2. \A m \in DOMAIN ms : IsList(Vs(m)) /\ \A v \in DOMAIN Vs(m) : IsEvents(Es(m, v))
  BY <1>1 DEF IsBar, IsVoice, Meets
<1>3. \A m \in DOMAIN ms : \A v \in DOMAIN Vs(m) :
        IsList(Es(m, v)) /\ \A e \in DOMAIN Es(m, v) : IsList(Ns(m, v, e))
  BY <1>2, ZenonT(30) DEF IsEvents, IsEvent, IsNotes
<1>4. Refs(x) = UNION {OfBar(m) : m \in DOMAIN ms}
  BY DEF Refs
<1>5. ASSUME NEW m \in DOMAIN ms, NEW v \in DOMAIN Vs(m), NEW e \in DOMAIN Es(m, v)
      PROVE  IsFiniteSet(OfEvent(m, v, e))
  <2> DEFINE f == [n \in DOMAIN Ns(m, v, e) |-> <<m, v, e, n>>]
  <2>1. IsFiniteSet(DOMAIN f)
    BY <1>3, FiniteDomain, SMTT(30)
  <2>2. IsFiniteSet({f[n] : n \in DOMAIN f})
    BY <2>1, FiniteValues, ZenonT(30)
  <2>3. {f[n] : n \in DOMAIN f} = OfEvent(m, v, e)
    OBVIOUS
  <2>. QED
    BY <2>2, <2>3, Zenon
<1>. HIDE DEF OfEvent, Ns
<1>6. ASSUME NEW m \in DOMAIN ms, NEW v \in DOMAIN Vs(m)
      PROVE  IsFiniteSet(OfVoice(m, v))
  <2> DEFINE f == [e \in DOMAIN Es(m, v) |-> OfEvent(m, v, e)]
  <2>1. IsFiniteSet(DOMAIN f) /\ \A e \in DOMAIN f : IsFiniteSet(f[e])
    BY <1>3, <1>5, FiniteDomain
  <2>2. IsFiniteSet(UNION {f[e] : e \in DOMAIN f})
    BY <2>1, FiniteUnion
  <2>3. {f[e] : e \in DOMAIN f} = {OfEvent(m, v, e) : e \in DOMAIN Es(m, v)}
    OBVIOUS
  <2>. QED
    BY <2>2, <2>3
<1>. HIDE DEF OfVoice, Es
<1>7. ASSUME NEW m \in DOMAIN ms PROVE IsFiniteSet(OfBar(m))
  <2> DEFINE f == [v \in DOMAIN Vs(m) |-> OfVoice(m, v)]
  <2>1. IsFiniteSet(DOMAIN f) /\ \A v \in DOMAIN f : IsFiniteSet(f[v])
    BY <1>2, <1>6, FiniteDomain
  <2>2. IsFiniteSet(UNION {f[v] : v \in DOMAIN f})
    BY <2>1, FiniteUnion
  <2>3. {f[v] : v \in DOMAIN f} = {OfVoice(m, v) : v \in DOMAIN Vs(m)}
    OBVIOUS
  <2>. QED
    BY <2>2, <2>3
<1>. HIDE DEF OfBar, Vs
<1>8. IsFiniteSet(UNION {OfBar(m) : m \in DOMAIN ms})
  <2> DEFINE f == [m \in DOMAIN ms |-> OfBar(m)]
  <2>1. IsFiniteSet(DOMAIN f) /\ \A m \in DOMAIN f : IsFiniteSet(f[m])
    BY <1>1, <1>7, FiniteDomain
  <2>2. IsFiniteSet(UNION {f[m] : m \in DOMAIN f})
    BY <2>1, FiniteUnion
  <2>3. {f[m] : m \in DOMAIN f} = {OfBar(m) : m \in DOMAIN ms}
    OBVIOUS
  <2>. QED
    BY <2>2, <2>3
<1>. QED
  BY <1>4, <1>8

\* Bar, voice, event and note of a reference are numbers.
LEMMA RefsAreNumbers ==
  ASSUME NEW x, IsBars(x.measures), NEW ref \in Refs(x)
  PROVE  /\ ref = <<ref[1], ref[2], ref[3], ref[4]>>
         /\ ref[1] \in Int /\ ref[2] \in Int /\ ref[3] \in Int /\ ref[4] \in Int
<1>1. PICK m \in DOMAIN x.measures : \E v \in DOMAIN x.measures[m].voices :
        \E e \in DOMAIN x.measures[m].voices[v].events :
          \E n \in DOMAIN x.measures[m].voices[v].events[e].notes : ref = <<m, v, e, n>>
  BY PlaceOfRef
<1>2. PICK v \in DOMAIN x.measures[m].voices :
        \E e \in DOMAIN x.measures[m].voices[v].events :
          \E n \in DOMAIN x.measures[m].voices[v].events[e].notes : ref = <<m, v, e, n>>
  BY <1>1
<1>3. PICK e \in DOMAIN x.measures[m].voices[v].events :
        \E n \in DOMAIN x.measures[m].voices[v].events[e].notes : ref = <<m, v, e, n>>
  BY <1>2
<1>4. PICK n \in DOMAIN x.measures[m].voices[v].events[e].notes : ref = <<m, v, e, n>>
  BY <1>3
<1>5. IsBar(0, x.measures[m]) /\ m \in Int
  BY DEF IsBars, IsList
<1>6. v \in Int /\ IsVoice(0, x.measures[m].nominal, x.measures[m].voices[v])
  BY <1>5 DEF IsBar, IsList
<1>7. IsEvents(x.measures[m].voices[v].events)
  BY <1>6 DEF IsVoice, Meets
<1>8. e \in Int /\ IsEvent(x.measures[m].voices[v].events[e])
  BY <1>7 DEF IsEvents, IsList
<1>9. n \in Int
  <2> DEFINE ns == x.measures[m].voices[v].events[e].notes
  <2>1. IsList(ns) /\ n \in DOMAIN ns
    BY <1>4, <1>8, Zenon DEF IsEvent, IsNotes
  <2>. HIDE DEF ns
  <2>. QED
    BY <2>1, SMTT(30) DEF IsList
<1>. QED
  BY <1>4, <1>5, <1>6, <1>8, <1>9

LEMMA RefOrderIsLexical ==
  ASSUME NEW a, NEW b
  PROVE  RefOrder(a, b) <=>
           \/ a[1] < b[1]
           \/ a[1] = b[1] /\ a[2] < b[2]
           \/ a[1] = b[1] /\ a[2] = b[2] /\ a[3] < b[3]
           \/ a[1] = b[1] /\ a[2] = b[2] /\ a[3] = b[3] /\ a[4] < b[4]
<1> DEFINE Differs(i) == a[i] < b[i] /\ \A j \in 1..(i - 1) : a[j] = b[j]
<1>1. RefOrder(a, b) <=> Differs(1) \/ Differs(2) \/ Differs(3) \/ Differs(4)
  <2>1. 1..4 = {1, 2, 3, 4}
    OBVIOUS
  <2>2. RefOrder(a, b) <=> \E i \in {1, 2, 3, 4} : Differs(i)
    BY <2>1 DEF RefOrder
  <2>. HIDE DEF Differs
  <2>. QED
    BY <2>2
<1>2. Differs(1) <=> a[1] < b[1]
  OBVIOUS
<1>3. Differs(2) <=> a[1] = b[1] /\ a[2] < b[2]
  <2>1. 1..(2 - 1) = {1}
    OBVIOUS
  <2>. QED
    BY <2>1
<1>4. Differs(3) <=> a[1] = b[1] /\ a[2] = b[2] /\ a[3] < b[3]
  <2>1. 1..(3 - 1) = {1, 2}
    OBVIOUS
  <2>. QED
    BY <2>1
<1>5. Differs(4) <=> a[1] = b[1] /\ a[2] = b[2] /\ a[3] = b[3] /\ a[4] < b[4]
  <2>1. 1..(4 - 1) = {1, 2, 3}
    OBVIOUS
  <2>. QED
    BY <2>1
<1>. HIDE DEF Differs
<1>. QED
  BY <1>1, <1>2, <1>3, <1>4, <1>5

\* The order of the references of a part.
LEMMA RefsInOrder ==
  ASSUME NEW x, IsBars(x.measures)
  PROVE  /\ \A a \in Refs(x) : ~RefOrder(a, a)
         /\ \A a, b \in Refs(x) : a = b \/ RefOrder(a, b) \/ RefOrder(b, a)
         /\ \A a, b, c \in Refs(x) : RefOrder(a, b) /\ RefOrder(b, c) => RefOrder(a, c)
         /\ \A a, b \in Refs(x) : Below(a, b) => a = b \/ RefOrder(a, b)
<1>1. \A a \in Refs(x) : /\ a = <<a[1], a[2], a[3], a[4]>>
                         /\ a[1] \in Int /\ a[2] \in Int /\ a[3] \in Int /\ a[4] \in Int
  BY RefsAreNumbers
<1>2. \A a \in Refs(x) : ~RefOrder(a, a)
  BY <1>1, RefOrderIsLexical
<1>3. ASSUME NEW a \in Refs(x), NEW b \in Refs(x) PROVE a = b \/ RefOrder(a, b) \/ RefOrder(b, a)
  <2>1. \/ a[1] = b[1] /\ a[2] = b[2] /\ a[3] = b[3] /\ a[4] = b[4]
        \/ RefOrder(a, b) \/ RefOrder(b, a)
    BY <1>1, RefOrderIsLexical
  <2>2. a[1] = b[1] /\ a[2] = b[2] /\ a[3] = b[3] /\ a[4] = b[4] => a = b
    BY <1>1
  <2>. QED
    BY <2>1, <2>2
<1>4. ASSUME NEW a \in Refs(x), NEW b \in Refs(x), NEW c \in Refs(x),
             RefOrder(a, b), RefOrder(b, c)
      PROVE  RefOrder(a, c)
  <2>1. /\ a[1] \in Int /\ a[2] \in Int /\ a[3] \in Int /\ a[4] \in Int
        /\ b[1] \in Int /\ b[2] \in Int /\ b[3] \in Int /\ b[4] \in Int
        /\ c[1] \in Int /\ c[2] \in Int /\ c[3] \in Int /\ c[4] \in Int
    BY <1>1
  <2>. QED
    BY <1>4, <2>1, RefOrderIsLexical
<1>5. ASSUME NEW a \in Refs(x), NEW b \in Refs(x), Below(a, b) PROVE a = b \/ RefOrder(a, b)
  <2>1. ~RefOrder(b, a)
    <3>1. a[3] \in Int /\ b[3] \in Int /\ a[1] \in Int /\ a[2] \in Int /\ a[4] \in Int
      BY <1>1
    <3>. QED
      BY <1>5, <3>1, RefOrderIsLexical DEF Below
  <2>. QED
    BY <1>3, <2>1
<1>. QED
  BY <1>2, <1>3, <1>4, <1>5

LEMMA RefsVisited ==
  ASSUME NEW x, IsBars(x.measures)
  PROVE  LET V == InOrderOf(Refs(x), RefOrder)
         IN /\ IsList(V) /\ \A k \in DOMAIN V : V[k] \in Refs(x)
            /\ \A k, l \in DOMAIN V : k < l => RefOrder(V[k], V[l])
            /\ \A a \in Refs(x) : \E k \in DOMAIN V : V[k] = a
<1> DEFINE P == Refs(x)
           n == Cardinality(P)
           V == InOrderOf(P, RefOrder)
           Before(a) == {b \in P : RefOrder(b, a)}
           E == [a \in P |-> Before(a)]
<1>1. V = [k \in 1..n |-> CHOOSE a \in P : Cardinality(Before(a)) = k - 1]
  BY DEF InOrderOf
<1>2. \A a \in P : E[a] = Before(a)
  OBVIOUS
<1>3. /\ IsFiniteSet(P)
      /\ \A a \in P : ~RefOrder(a, a)
      /\ \A a, b \in P : a = b \/ RefOrder(a, b) \/ RefOrder(b, a)
      /\ \A a, b, c \in P : RefOrder(a, b) /\ RefOrder(b, c) => RefOrder(a, c)
  BY RefsAreFinite, RefsInOrder
<1>. HIDE DEF E, V, P, n
<1>4. \A a, b \in P : b \in E[a] <=> RefOrder(b, a)
  BY <1>2
<1>5. \A a \in P : E[a] \in SUBSET P /\ a \notin E[a]
  BY <1>2, <1>3
<1>6. \A a, b \in P : a \in E[b] => E[a] \subseteq E[b]
  <2>. SUFFICES ASSUME NEW a \in P, NEW b \in P, a \in E[b], NEW c \in E[a] PROVE c \in E[b]
    OBVIOUS
  <2>1. c \in P /\ RefOrder(c, a) /\ RefOrder(a, b)
    BY <1>4, <1>5
  <2>. QED
    BY <1>3, <1>4, <2>1
<1>7. \A a, b \in P : a # b => a \in E[b] \/ b \in E[a]
  BY <1>3, <1>4
<1>8. /\ n \in Nat
      /\ \A a \in P : Cardinality(E[a]) \in 0..(n - 1)
      /\ \A k \in 1..n : \E a \in P : Cardinality(E[a]) = k - 1
      /\ \A a, b \in P : Cardinality(E[a]) = Cardinality(E[b]) => a = b
      /\ \A a, b \in P : Cardinality(E[a]) < Cardinality(E[b]) => a \in E[b]
  BY <1>3, <1>5, <1>6, <1>7, Ranks DEF n
<1>9. \A k \in 1..n : V[k] \in P /\ Cardinality(E[V[k]]) = k - 1
  <2>. SUFFICES ASSUME NEW k \in 1..n
                PROVE  V[k] \in P /\ Cardinality(E[V[k]]) = k - 1
    OBVIOUS
  <2>1. \E a \in P : Cardinality(Before(a)) = k - 1
    BY <1>2, <1>8
  <2>2. V[k] = CHOOSE a \in P : Cardinality(Before(a)) = k - 1
    BY <1>1
  <2>. HIDE DEF Before
  <2>3. V[k] \in P /\ Cardinality(Before(V[k])) = k - 1
    BY <2>1, <2>2
  <2>. QED
    BY <1>2, <2>3
<1>10. IsList(V) /\ DOMAIN V = 1..n
  BY <1>1, <1>8, ListBySize
<1>11. ASSUME NEW k \in 1..n, NEW l \in 1..n, k < l PROVE RefOrder(V[k], V[l])
  <2>1. Cardinality(E[V[k]]) < Cardinality(E[V[l]])
    BY <1>8, <1>9, <1>11
  <2>. QED
    BY <1>4, <1>8, <1>9, <2>1
<1>12. ASSUME NEW a \in P PROVE \E k \in 1..n : V[k] = a
  <2>1. PICK k \in 1..n : k - 1 = Cardinality(E[a])
    <3>1. Cardinality(E[a]) \in 0..(n - 1) /\ n \in Nat
      BY <1>8
    <3>2. Cardinality(E[a]) + 1 \in 1..n /\ (Cardinality(E[a]) + 1) - 1 = Cardinality(E[a])
      BY <3>1
    <3>. QED
      BY <3>2
  <2>2. V[k] \in P /\ Cardinality(E[V[k]]) = Cardinality(E[a])
    BY <1>9, <2>1
  <2>. QED
    BY <1>8, <2>2
<1>. QED
  BY <1>9, <1>10, <1>11, <1>12 DEF V, P

Unlinked == [starts |-> {}, links |-> {}, loose |-> FALSE]

Visits(x, V, n, f) ==
  f = [i \in 0..n |-> IF i = 0 THEN Unlinked ELSE TieStep(x, f[i - 1], V[i])]

LEMMA VisitsExist ==
  ASSUME NEW x, NEW V, NEW n \in Nat
  PROVE  \E f : Visits(x, V, n, f)
<1> DEFINE S == {k \in Nat : \E f : Visits(x, V, k, f)}
<1>1. 0 \in S
  <2> DEFINE f == [i \in 0..0 |-> Unlinked]
  <2>1. f = [i \in 0..0 |-> IF i = 0 THEN Unlinked ELSE TieStep(x, f[i - 1], V[i])]
    OBVIOUS
  <2>. HIDE DEF f
  <2>2. Visits(x, V, 0, f)
    BY <2>1 DEF Visits
  <2>. QED
    BY <2>2
<1>2. ASSUME NEW k \in Nat, k \in S PROVE k + 1 \in S
  <2>1. PICK f : Visits(x, V, k, f)
    BY <1>2
  <2> DEFINE g == [i \in 0..(k + 1) |-> IF i = k + 1 THEN TieStep(x, f[k], V[i]) ELSE f[i]]
  <2>2. \A i \in 0..k : f[i] = IF i = 0 THEN Unlinked ELSE TieStep(x, f[i - 1], V[i])
    BY <2>1 DEF Visits
  <2>3. \A i \in 0..(k + 1) : g[i] = IF i = 0 THEN Unlinked ELSE TieStep(x, g[i - 1], V[i])
    <3>. SUFFICES ASSUME NEW i \in 0..(k + 1)
                  PROVE  g[i] = IF i = 0 THEN Unlinked ELSE TieStep(x, g[i - 1], V[i])
      OBVIOUS
    <3>1. CASE i = k + 1
      <4>1. i # 0 /\ i - 1 = k /\ g[i - 1] = f[k] /\ g[i] = TieStep(x, f[k], V[i])
        BY <3>1
      <4>. QED
        BY <4>1
    <3>2. CASE i # k + 1
      <4>1. i \in 0..k /\ g[i] = f[i]
        BY <3>2
      <4>2. i # 0 => g[i - 1] = f[i - 1]
        BY <4>1
      <4>. QED
        BY <2>2, <4>1, <4>2
    <3>. QED
      BY <3>1, <3>2
  <2>4. g = [i \in 0..(k + 1) |-> g[i]]
    OBVIOUS
  <2>. HIDE DEF g
  <2>5. Visits(x, V, k + 1, g)
    BY <2>3, <2>4 DEF Visits
  <2>. QED
    BY <2>5
<1>. HIDE DEF S
<1>3. n \in S
  BY <1>1, <1>2, Induction
<1>. QED
  BY <1>3 DEF S

\* Of the first n places of a list, j holds a marked note that no later marked one of its key
\* follows before k.
Open(x, V, j, k) ==
  /\ NoteAt(x, V[j]).marks # {}
  /\ \A h \in Int : j < h /\ h < k /\ TieKey(x, V[h]) = TieKey(x, V[j])
                      => NoteAt(x, V[h]).marks = {}

\* A start at place j that is still open at k, and a stop at k that closes it.
Begins(x, V, j, k) == "start" \in NoteAt(x, V[j]).marks /\ Open(x, V, j, k)
Closes(x, V, j, k) ==
  /\ j < k /\ Begins(x, V, j, k)
  /\ TieKey(x, V[j]) = TieKey(x, V[k]) /\ "stop" \in NoteAt(x, V[k]).marks

\* After n notes the starts that wait are those still open, and the links join each stop
\* with the start it closes.
LinkedUpTo(x, V, n, acc) ==
  /\ \A begun \in acc.starts : \E j \in 1..n : begun = V[j] /\ Begins(x, V, j, n + 1)
  /\ \A link \in acc.links : \E j, k \in 1..n : link = <<V[j], V[k]>> /\ Closes(x, V, j, k)
  /\ \A j \in 1..n : Begins(x, V, j, n + 1) => V[j] \in acc.starts
  /\ \A j, k \in 1..n : Closes(x, V, j, k) => <<V[j], V[k]>> \in acc.links

LEMMA LinkingStep ==
  ASSUME NEW x, NEW V, NEW n \in Nat, NEW acc, LinkedUpTo(x, V, n, acc)
  PROVE  LinkedUpTo(x, V, n + 1, TieStep(x, acc, V[n + 1]))
<1> DEFINE ref == V[n + 1]
           marks == NoteAt(x, ref).marks
           waiting == {opened \in acc.starts : TieKey(x, opened) = TieKey(x, ref)}
           next == TieStep(x, acc, ref)
<1>1. /\ next.starts = (IF marks = {} THEN acc.starts ELSE acc.starts \ waiting)
                         \cup When("start" \in marks, ref)
      /\ next.links = acc.links \cup (IF "stop" \in marks THEN waiting \X {ref} ELSE {})
  BY DEF TieStep
<1>. HIDE DEF next
<1>2. \A j \in 1..n : Begins(x, V, j, (n + 1) + 1)
        <=> /\ Begins(x, V, j, n + 1)
            /\ TieKey(x, V[n + 1]) = TieKey(x, V[j]) => NoteAt(x, V[n + 1]).marks = {}
  <2>. SUFFICES ASSUME NEW j \in 1..n
                PROVE  Open(x, V, j, (n + 1) + 1)
                  <=> /\ Open(x, V, j, n + 1)
                      /\ TieKey(x, V[n + 1]) = TieKey(x, V[j]) => NoteAt(x, V[n + 1]).marks = {}
    BY DEF Begins
  <2>1. \A h \in Int : j < h /\ h < (n + 1) + 1 <=> (j < h /\ h < n + 1) \/ h = n + 1
    OBVIOUS
  <2>2. n + 1 \in Int
    OBVIOUS
  <2>. QED
    BY <2>1, <2>2 DEF Open
<1>3. Begins(x, V, n + 1, (n + 1) + 1) <=> "start" \in marks
  <2>1. \A h \in Int : ~(n + 1 < h /\ h < (n + 1) + 1)
    OBVIOUS
  <2>2. "start" \in marks => NoteAt(x, V[n + 1]).marks # {}
    OBVIOUS
  <2>. QED
    BY <2>1, <2>2 DEF Begins, Open
<1>4. ASSUME NEW begun \in next.starts
      PROVE  \E j \in 1..(n + 1) : begun = V[j] /\ Begins(x, V, j, (n + 1) + 1)
  <2>1. CASE begun \in acc.starts /\ (marks = {} \/ begun \notin waiting)
    <3>1. PICK j \in 1..n : begun = V[j] /\ Begins(x, V, j, n + 1)
      BY <2>1 DEF LinkedUpTo
    <3>2. TieKey(x, V[n + 1]) = TieKey(x, V[j]) => NoteAt(x, V[n + 1]).marks = {}
      BY <2>1, <3>1
    <3>. QED
      BY <1>2, <3>1, <3>2
  <2>2. CASE "start" \in marks /\ begun = ref
    BY <1>3, <2>2
  <2>. QED
    BY <1>1, <2>1, <2>2 DEF When
<1>5. ASSUME NEW j \in 1..(n + 1), Begins(x, V, j, (n + 1) + 1)
      PROVE  V[j] \in next.starts
  <2>1. CASE j = n + 1
    BY <1>1, <1>3, <1>5, <2>1 DEF When
  <2>2. CASE j # n + 1
    <3>1. j \in 1..n
      BY <2>2
    <3>2. /\ Begins(x, V, j, n + 1)
          /\ TieKey(x, V[n + 1]) = TieKey(x, V[j]) => NoteAt(x, V[n + 1]).marks = {}
      BY <1>2, <1>5, <3>1
    <3>3. V[j] \in acc.starts
      BY <3>1, <3>2 DEF LinkedUpTo
    <3>. QED
      BY <1>1, <3>2, <3>3
  <2>. QED
    BY <2>1, <2>2
<1>6. ASSUME NEW link \in next.links
      PROVE  \E j, k \in 1..(n + 1) : link = <<V[j], V[k]>> /\ Closes(x, V, j, k)
  <2>1. CASE link \in acc.links
    <3>1. PICK j \in 1..n, k \in 1..n : link = <<V[j], V[k]>> /\ Closes(x, V, j, k)
      BY <2>1 DEF LinkedUpTo
    <3>2. j \in 1..(n + 1) /\ k \in 1..(n + 1)
      OBVIOUS
    <3>. QED
      BY <3>1, <3>2
  <2>2. CASE "stop" \in marks /\ link \in waiting \X {ref}
    <3>1. PICK begun \in waiting : link = <<begun, ref>>
      BY <2>2
    <3>2. PICK j \in 1..n : begun = V[j] /\ Begins(x, V, j, n + 1)
      BY <3>1 DEF LinkedUpTo
    <3>3. j \in 1..(n + 1) /\ n + 1 \in 1..(n + 1) /\ j < n + 1
      OBVIOUS
    <3>4. Closes(x, V, j, n + 1)
      BY <2>2, <3>1, <3>2, <3>3 DEF Closes
    <3>. QED
      BY <3>1, <3>2, <3>3, <3>4
  <2>. QED
    BY <1>1, <2>1, <2>2
<1>7. ASSUME NEW j \in 1..(n + 1), NEW k \in 1..(n + 1), Closes(x, V, j, k)
      PROVE  <<V[j], V[k]>> \in next.links
  <2>1. j < k /\ j \in 1..n
    BY <1>7 DEF Closes
  <2>2. CASE k = n + 1
    <3>1. /\ Begins(x, V, j, n + 1) /\ TieKey(x, V[j]) = TieKey(x, ref) /\ "stop" \in marks
      BY <1>7, <2>2 DEF Closes
    <3>2. V[j] \in acc.starts
      BY <2>1, <3>1 DEF LinkedUpTo
    <3>. QED
      BY <1>1, <2>2, <3>1, <3>2
  <2>3. CASE k # n + 1
    <3>1. k \in 1..n
      BY <2>3
    <3>2. <<V[j], V[k]>> \in acc.links
      BY <1>7, <2>1, <3>1 DEF LinkedUpTo
    <3>. QED
      BY <1>1, <3>2
  <2>. QED
    BY <2>2, <2>3
<1>. QED
  BY <1>4, <1>5, <1>6, <1>7 DEF LinkedUpTo, next

LEMMA ResolvedLinks ==
  ASSUME NEW x, NEW V, IsList(V), V = InOrderOf(Refs(x), RefOrder)
  PROVE  LinkedUpTo(x, V, Len(V), ResolvedTies(x))
<1> DEFINE n == Len(V)
           Steps(f) == f = [i \in 0..n |-> IF i = 0 THEN Unlinked ELSE TieStep(x, f[i - 1], V[i])]
           upTo == CHOOSE f : Steps(f)
<1>1. n \in Nat
  BY DEF IsList
<1>2. ResolvedTies(x) = upTo[n]
  BY DEF ResolvedTies, Unlinked
<1>3. Visits(x, V, n, upTo)
  <2>1. PICK f : Visits(x, V, n, f)
    BY <1>1, VisitsExist
  <2>2. Steps(f)
    BY <2>1 DEF Visits
  <2>3. Steps(upTo)
    BY <2>2
  <2>. QED
    BY <2>3 DEF Visits
<1>. HIDE DEF upTo, n
<1> DEFINE S == {i \in Nat : i <= n => LinkedUpTo(x, V, i, upTo[i])}
<1>4. upTo[0] = Unlinked /\ \A i \in 0..n : i # 0 => upTo[i] = TieStep(x, upTo[i - 1], V[i])
  BY <1>1, <1>3 DEF Visits
<1>5. 0 \in S
  BY <1>4 DEF LinkedUpTo, Unlinked
<1>6. ASSUME NEW i \in Nat, i \in S PROVE i + 1 \in S
  <2>. SUFFICES ASSUME i + 1 <= n PROVE LinkedUpTo(x, V, i + 1, upTo[i + 1])
    OBVIOUS
  <2>1. i + 1 \in 0..n /\ i + 1 # 0 /\ (i + 1) - 1 = i /\ i <= n
    BY <1>1
  <2>2. LinkedUpTo(x, V, i, upTo[i])
    BY <1>6, <2>1
  <2>3. upTo[i + 1] = TieStep(x, upTo[i], V[i + 1])
    BY <1>4, <2>1
  <2>. QED
    BY <2>2, <2>3, LinkingStep
<1>. HIDE DEF S
<1>7. n \in S
  BY <1>1, <1>5, <1>6, Induction
<1>. QED
  BY <1>1, <1>2, <1>7 DEF S, n

\* The links of a part as it is resolved are the ties the file writes.
LEMMA LinksAreTies ==
  ASSUME NEW x, IsBars(x.measures)
  PROVE  LET L == ResolvedTies(x).links
         IN /\ \A link \in L : /\ link = <<link[1], link[2]>>
                              /\ link[1] \in Refs(x) /\ link[2] \in Refs(x)
                              /\ TieBetween(x, link[1], link[2])
            /\ \A p, q \in Refs(x) : TieBetween(x, p, q) => <<p, q>> \in L
<1> DEFINE V == InOrderOf(Refs(x), RefOrder)
           n == Len(V)
           L == ResolvedTies(x).links
<1>1. /\ IsList(V) /\ \A k \in DOMAIN V : V[k] \in Refs(x)
      /\ \A k, l \in DOMAIN V : k < l => RefOrder(V[k], V[l])
      /\ \A a \in Refs(x) : \E k \in DOMAIN V : V[k] = a
  BY RefsVisited
<1>2. LinkedUpTo(x, V, n, ResolvedTies(x))
  BY <1>1, ResolvedLinks
<1>. HIDE DEF V
<1>3. DOMAIN V = 1..n /\ n \in Nat
  BY <1>1 DEF IsList
<1>. HIDE DEF n
<1>4. /\ \A a \in Refs(x) : ~RefOrder(a, a)
      /\ \A a, b, c \in Refs(x) : RefOrder(a, b) /\ RefOrder(b, c) => RefOrder(a, c)
  BY RefsInOrder
<1>5. \A j, k \in 1..n : RefOrder(V[j], V[k]) <=> j < k
  <2>. SUFFICES ASSUME NEW j \in 1..n, NEW k \in 1..n, RefOrder(V[j], V[k]) PROVE j < k
    BY <1>1, <1>3
  <2>1. V[j] \in Refs(x) /\ V[k] \in Refs(x)
    BY <1>1, <1>3
  <2>2. j # k
    BY <1>4, <2>1
  <2>3. ~(k < j)
    BY <1>1, <1>3, <1>4, <2>1
  <2>. QED
    BY <2>2, <2>3
<1>6. ASSUME NEW j \in 1..n, NEW k \in 1..n PROVE Closes(x, V, j, k) <=> TieBetween(x, V[j], V[k])
  <2>1. V[j] \in Refs(x) /\ V[k] \in Refs(x) /\ (RefOrder(V[j], V[k]) <=> j < k)
    BY <1>1, <1>3, <1>5
  <2>2. ASSUME Closes(x, V, j, k) PROVE TieBetween(x, V[j], V[k])
    <3>1. /\ j < k /\ "start" \in NoteAt(x, V[j]).marks /\ Open(x, V, j, k)
          /\ TieKey(x, V[j]) = TieKey(x, V[k]) /\ "stop" \in NoteAt(x, V[k]).marks
      BY <2>2 DEF Closes, Begins
    <3>2. ASSUME NEW c \in Refs(x), RefOrder(V[j], c), RefOrder(c, V[k]),
                 TieKey(x, c) = TieKey(x, V[j])
          PROVE  NoteAt(x, c).marks = {}
      <4>1. PICK h \in 1..n : V[h] = c
        BY <1>1, <1>3
      <4>2. j < h /\ h < k /\ h \in Int
        BY <1>5, <3>2, <4>1
      <4>. QED
        BY <3>1, <3>2, <4>1, <4>2 DEF Open
    <3>. QED
      BY <2>1, <3>1, <3>2 DEF TieBetween
  <2>3. ASSUME TieBetween(x, V[j], V[k]) PROVE Closes(x, V, j, k)
    <3>1. /\ j < k /\ "start" \in NoteAt(x, V[j]).marks
          /\ TieKey(x, V[j]) = TieKey(x, V[k]) /\ "stop" \in NoteAt(x, V[k]).marks
      BY <2>1, <2>3 DEF TieBetween
    <3>2. ASSUME NEW h \in Int, j < h, h < k, TieKey(x, V[h]) = TieKey(x, V[j])
          PROVE  NoteAt(x, V[h]).marks = {}
      <4>1. h \in 1..n
        BY <1>3, <3>2
      <4>2. V[h] \in Refs(x) /\ RefOrder(V[j], V[h]) /\ RefOrder(V[h], V[k])
        BY <1>1, <1>3, <1>5, <3>2, <4>1
      <4>. QED
        BY <2>3, <3>2, <4>2 DEF TieBetween
    <3>3. Open(x, V, j, k)
      BY <3>1, <3>2 DEF Open
    <3>. QED
      BY <3>1, <3>3 DEF Closes, Begins
  <2>. QED
    BY <2>2, <2>3
<1>7. ASSUME NEW link \in L
      PROVE  /\ link = <<link[1], link[2]>>
             /\ link[1] \in Refs(x) /\ link[2] \in Refs(x)
             /\ TieBetween(x, link[1], link[2])
  <2>1. PICK j \in 1..n, k \in 1..n : link = <<V[j], V[k]>> /\ Closes(x, V, j, k)
    BY <1>2 DEF LinkedUpTo
  <2>2. link[1] = V[j] /\ link[2] = V[k]
    BY <2>1
  <2>. QED
    BY <1>1, <1>3, <1>6, <2>1, <2>2
<1>8. ASSUME NEW p \in Refs(x), NEW q \in Refs(x), TieBetween(x, p, q) PROVE <<p, q>> \in L
  <2>1. PICK j \in 1..n, k \in 1..n : V[j] = p /\ V[k] = q
    BY <1>1, <1>3
  <2>2. Closes(x, V, j, k)
    BY <1>6, <1>8, <2>1
  <2>. QED
    BY <1>2, <2>1, <2>2 DEF LinkedUpTo
<1>. HIDE DEF L
<1>. QED
  BY <1>7, <1>8 DEF L

ArePairs(L) == \A link \in L : link = <<link[1], link[2]>> /\ link[2] # NoRef

\* The notes of the part as it is tied: each has the ends of its links.
HasEnds(x, L, y) ==
  \A ref \in Refs(x) :
    /\ NoteAt(y, ref).to # NoRef => <<ref, NoteAt(y, ref).to>> \in L
    /\ NoteAt(y, ref).from # NoRef => <<NoteAt(y, ref).from, ref>> \in L
    /\ (\E q : <<ref, q>> \in L) => NoteAt(y, ref).to # NoRef
    /\ NoteAt(y, ref).sounding = NoteAt(x, ref).sounding
    /\ NoteAt(y, ref).id = NoteAt(x, ref).id

LEMMA TiedNotes ==
  ASSUME NEW x, "measures" \in DOMAIN x, IsBars(x.measures), NEW L, ArePairs(L)
  PROVE  /\ Refs(Tied(x, L)) = Refs(x)
         /\ LikeBars(x.measures, Tied(x, L).measures)
         /\ HasEnds(x, L, Tied(x, L))
<1> DEFINE Ends(ref, side) == {link \in L : link[side] = ref}
           End(ref, side) == IF Ends(ref, side) = {} THEN NoRef
                             ELSE (CHOOSE link \in Ends(ref, side) : TRUE)[3 - side]
           ends == [ref \in Refs(x) |-> [to |-> End(ref, 1), from |-> End(ref, 2)]]
           y == Tied(x, L)
<1>1. y = Relinked(x, ends)
  BY DEF Tied
<1>2. ASSUME NEW ref
      PROVE  /\ End(ref, 1) # NoRef => <<ref, End(ref, 1)>> \in L
             /\ End(ref, 2) # NoRef => <<End(ref, 2), ref>> \in L
             /\ (\E q : <<ref, q>> \in L) => End(ref, 1) # NoRef
  <2>1. ASSUME End(ref, 1) # NoRef PROVE <<ref, End(ref, 1)>> \in L
    <3>1. PICK link \in Ends(ref, 1) : End(ref, 1) = link[3 - 1]
      BY <2>1
    <3>2. link \in L /\ link[1] = ref /\ End(ref, 1) = link[2]
      BY <3>1
    <3>. QED
      BY <3>2 DEF ArePairs
  <2>2. ASSUME End(ref, 2) # NoRef PROVE <<End(ref, 2), ref>> \in L
    <3>1. PICK link \in Ends(ref, 2) : End(ref, 2) = link[3 - 2]
      BY <2>2
    <3>2. link \in L /\ link[2] = ref /\ End(ref, 2) = link[1]
      BY <3>1
    <3>. QED
      BY <3>2 DEF ArePairs
  <2>3. ASSUME NEW q, <<ref, q>> \in L PROVE End(ref, 1) # NoRef
    <3>1. <<ref, q>>[1] = ref
      OBVIOUS
    <3>2. Ends(ref, 1) # {}
      BY <2>3, <3>1
    <3>3. PICK link \in Ends(ref, 1) : End(ref, 1) = link[3 - 1]
      BY <3>2
    <3>4. link \in L /\ End(ref, 1) = link[2]
      BY <3>3
    <3>. QED
      BY <3>4 DEF ArePairs
  <2>. QED
    BY <2>1, <2>2, <2>3
<1>. HIDE DEF End, y
<1>3. \A ref \in Refs(x) : ends[ref].to = End(ref, 1) /\ ends[ref].from = End(ref, 2)
  OBVIOUS
<1>. HIDE DEF ends
<1>4. 0 \in 0..3 /\ IsList(x.measures) /\ \A m \in DOMAIN x.measures : IsBar(0, x.measures[m])
  BY DEF IsBars
<1>5. /\ LikeBars(x.measures, y.measures)
      /\ \A ref \in Refs(x) : /\ NoteAt(y, ref).to = ends[ref].to
                              /\ NoteAt(y, ref).from = ends[ref].from
                              /\ NoteAt(y, ref).sounding = NoteAt(x, ref).sounding
                              /\ NoteAt(y, ref).id = NoteAt(x, ref).id
  BY <1>1, <1>4, RelinkingLinks
<1>6. Refs(y) = Refs(x)
  BY <1>4, <1>5, RelinkedBars
<1>. QED
  BY <1>2, <1>3, <1>5, <1>6 DEF y, HasEnds

\* Links lead to notes of the part.
EndsInside(x) ==
  \A a \in Refs(x) : /\ NoteAt(x, a).to # NoRef => NoteAt(x, a).to \in Refs(x)
                     /\ NoteAt(x, a).from # NoRef => NoteAt(x, a).from \in Refs(x)

\* The links of the part as it is read are the ties of the file, and they do not cross: a note
\* of the key of a link, between its ends, would have ended it or taken its place.
LEMMA TiesAreStraight ==
  ASSUME NEW x, "measures" \in DOMAIN x, IsBars(x.measures)
  PROVE  LET y == Tied(x, ResolvedTies(x).links)
         IN Straight(y, TiesOf(x)) /\ Links(y) = TiesOf(x) /\ EndsInside(y)
<1> DEFINE L == ResolvedTies(x).links
           y == Tied(x, L)
<1>1. /\ \A link \in L : /\ link = <<link[1], link[2]>>
                         /\ link[1] \in Refs(x) /\ link[2] \in Refs(x)
                         /\ TieBetween(x, link[1], link[2])
      /\ \A p, q \in Refs(x) : TieBetween(x, p, q) => <<p, q>> \in L
  BY LinksAreTies
<1>. HIDE DEF L
<1>2. ArePairs(L)
  BY <1>1, RefIsSome DEF ArePairs
<1>3. /\ Refs(y) = Refs(x)
      /\ \A ref \in Refs(x) :
           /\ NoteAt(y, ref).to # NoRef => <<ref, NoteAt(y, ref).to>> \in L
           /\ NoteAt(y, ref).from # NoRef => <<NoteAt(y, ref).from, ref>> \in L
           /\ (\E q : <<ref, q>> \in L) => NoteAt(y, ref).to # NoRef
           /\ NoteAt(y, ref).sounding = NoteAt(x, ref).sounding
           /\ NoteAt(y, ref).id = NoteAt(x, ref).id
  <2>1. Refs(y) = Refs(x) /\ HasEnds(x, L, y)
    BY <1>2, TiedNotes
  <2>. HIDE DEF y
  <2>. QED
    BY <2>1 DEF HasEnds
<1>4. \A p, q : <<p, q>> \in L =>
        /\ p \in Refs(x) /\ q \in Refs(x) /\ TieBetween(x, p, q)
        /\ RefOrder(p, q) /\ TieKey(x, p) = TieKey(x, q)
        /\ NoteAt(x, p).marks # {} /\ NoteAt(x, q).marks # {}
        /\ \A r \in Refs(x) :
             RefOrder(p, r) /\ RefOrder(r, q) /\ TieKey(x, r) = TieKey(x, p)
               => NoteAt(x, r).marks = {}
  <2>. SUFFICES ASSUME NEW p, NEW q, <<p, q>> \in L
                PROVE  p \in Refs(x) /\ q \in Refs(x) /\ TieBetween(x, p, q)
    BY DEF TieBetween
  <2>1. <<p, q>>[1] = p /\ <<p, q>>[2] = q
    OBVIOUS
  <2>. QED
    BY <1>1, <2>1
<1>. HIDE DEF y
<1>5. ASSUME NEW a \in Refs(y), NoteAt(y, a).to # NoRef
      PROVE  /\ NoteAt(y, a).to \in Refs(y)
             /\ <<NoteAt(y, a).id, NoteAt(y, NoteAt(y, a).to).id>> \in Links(y)
  BY <1>3, <1>4, <1>5 DEF Links
<1>6. ASSUME NEW a \in Refs(y), NEW b \in Refs(y),
             NoteAt(y, a).to # NoRef, NoteAt(y, b).from # NoRef,
             NoteAt(y, a).sounding = NoteAt(y, b).sounding,
             Below(NoteAt(y, b).from, a), Below(NoteAt(y, a).to, b)
      PROVE  NoteAt(y, b).from = a /\ NoteAt(y, a).to = b
  <2> DEFINE t == NoteAt(y, a).to
             r == NoteAt(y, b).from
  <2>1. a \in Refs(x) /\ b \in Refs(x) /\ <<a, t>> \in L /\ <<r, b>> \in L
    BY <1>3, <1>6
  <2>2. NoteAt(x, a).sounding = NoteAt(x, b).sounding
    BY <1>3, <1>6, <2>1
  <2>3. Below(r, a) /\ Below(t, b)
    BY <1>6
  <2>. HIDE DEF t, r
  <2>4. /\ t \in Refs(x) /\ r \in Refs(x) /\ RefOrder(a, t) /\ RefOrder(r, b)
        /\ TieKey(x, a) = TieKey(x, t) /\ TieKey(x, r) = TieKey(x, b)
        /\ NoteAt(x, a).marks # {} /\ NoteAt(x, t).marks # {}
    BY <1>4, <2>1
  <2>5. TieKey(x, a) = TieKey(x, r)
    <3>1. NoteAt(x, r).sounding = NoteAt(x, a).sounding
      BY <2>2, <2>4 DEF TieKey
    <3>. QED
      BY <2>3, <3>1 DEF TieKey, Below
  <2>6. /\ \A i, j \in Refs(x) : Below(i, j) => i = j \/ RefOrder(i, j)
        /\ \A i, j, k \in Refs(x) : RefOrder(i, j) /\ RefOrder(j, k) => RefOrder(i, k)
    BY RefsInOrder
  <2>7. RefOrder(a, b)
    BY <2>1, <2>3, <2>4, <2>6
  <2>8. \A i \in Refs(x) : RefOrder(r, i) /\ RefOrder(i, b) /\ TieKey(x, i) = TieKey(x, r)
                             => NoteAt(x, i).marks = {}
    BY <1>4, <2>1
  <2>9. r = a
    BY <2>1, <2>3, <2>4, <2>5, <2>6, <2>7, <2>8
  <2>10. t = b
    BY <2>1, <2>3, <2>4, <2>5, <2>6, <2>8, <2>9
  <2>. QED
    BY <2>9, <2>10 DEF t, r
<1>7. ASSUME NEW a, NEW b, <<a, b>> \in L
      PROVE  <<NoteAt(y, a).id, NoteAt(y, b).id>> \in TiesOf(x)
  <2>1. a \in Refs(x) /\ b \in Refs(x) /\ TieBetween(x, a, b)
    BY <1>4, <1>7
  <2>2. /\ <<a, b>> \in {ends \in Refs(x) \X Refs(x) : TieBetween(x, ends[1], ends[2])}
        /\ <<a, b>>[1] = a /\ <<a, b>>[2] = b
    BY <2>1
  <2>3. NoteAt(y, a).id = NoteAt(x, a).id /\ NoteAt(y, b).id = NoteAt(x, b).id
    BY <1>3, <2>1
  <2>. QED
    BY <2>2, <2>3 DEF TiesOf
<1>8. Links(y) \subseteq TiesOf(x)
  <2>. SUFFICES ASSUME NEW link \in Links(y) PROVE link \in TiesOf(x)
    OBVIOUS
  <2>1. CASE \E a \in Refs(y) : /\ NoteAt(y, a).to # NoRef
                                /\ link = <<NoteAt(y, a).id, NoteAt(y, NoteAt(y, a).to).id>>
    BY <1>3, <1>7, <2>1
  <2>2. CASE \E a \in Refs(y) : /\ NoteAt(y, a).from # NoRef
                                /\ link = <<NoteAt(y, NoteAt(y, a).from).id, NoteAt(y, a).id>>
    BY <1>3, <1>7, <2>2
  <2>. QED
    BY <2>1, <2>2 DEF Links
<1>9. TiesOf(x) \subseteq Links(y)
  <2>. SUFFICES ASSUME NEW tie \in TiesOf(x) PROVE tie \in Links(y)
    OBVIOUS
  <2>1. PICK a \in Refs(x), b \in Refs(x) :
          TieBetween(x, a, b) /\ tie = <<NoteAt(x, a).id, NoteAt(x, b).id>>
    BY DEF TiesOf
  <2>2. <<a, b>> \in L
    BY <1>1, <2>1
  <2> DEFINE c == NoteAt(y, a).to
  <2>3. c # NoRef /\ <<a, c>> \in L
    BY <1>3, <2>2
  <2>. HIDE DEF c
  <2>4. c \in Refs(x) /\ TieBetween(x, a, c)
    BY <1>4, <2>3
  <2>5. b = c
    <3>1. b = c \/ RefOrder(b, c) \/ RefOrder(c, b)
      BY <2>4, RefsInOrder
    <3>2. NoteAt(x, b).marks # {} /\ NoteAt(x, c).marks # {}
      BY <1>4, <2>2, <2>3
    <3>. QED
      BY <2>1, <2>4, <3>1, <3>2 DEF TieBetween
  <2>6. tie = <<NoteAt(y, a).id, NoteAt(y, NoteAt(y, a).to).id>>
    BY <1>3, <2>1, <2>5 DEF c
  <2>. QED
    BY <1>3, <2>3, <2>6 DEF Links, c
<1>10. Links(y) = TiesOf(x)
  BY <1>8, <1>9
<1>11. Straight(y, Links(y))
  BY <1>5, <1>6 DEF Straight
<1>12. EndsInside(y)
  BY <1>3, <1>4 DEF EndsInside
<1>. QED
  BY <1>10, <1>11, <1>12 DEF y, L

\* What is said of the notes of a part is said of its bars.
LEMMA SameBars ==
  ASSUME NEW x, NEW y, y.measures = x.measures
  PROVE  /\ Refs(y) = Refs(x) /\ \A ref : NoteAt(y, ref) = NoteAt(x, ref)
         /\ Chronological(x) => Chronological(y)
         /\ \A pairs : Straight(x, pairs) => Straight(y, pairs)
<1>1. Refs(y) = Refs(x) /\ \A ref : NoteAt(y, ref) = NoteAt(x, ref)
  BY DEF Refs, NoteAt
<1>2. \A pairs : Straight(x, pairs) => Straight(y, pairs)
  BY <1>1 DEF Straight
<1>. QED
  BY <1>1, <1>2 DEF Chronological

\* The bars of the other <part> hold one rest each.
IsSilent(bar) ==
  \A v \in DOMAIN bar.voices :
    /\ InTime(bar.voices[v].events)
    /\ \A e \in DOMAIN bar.voices[v].events : bar.voices[v].events[e].notes = <<>>

LEMMA SilentBars ==
  ASSUME NEW lengths \in Seq(Nat \ {0})
  PROVE  \A m \in DOMAIN Bars(lengths) : IsSilent(Bars(lengths)[m])
<1> DEFINE Begin(m) == LET before[i \in 0..Len(lengths)] ==
                             IF i = 0 THEN 0 ELSE before[i - 1] + lengths[i]
                       IN before[m - 1]
           ms == Bars(lengths)
<1>1. ms = [m \in DOMAIN lengths |-> [PaddingBar(lengths[m]) EXCEPT !.start = Begin(m)]]
  BY DEF Bars
<1>. HIDE DEF Begin
<1>2. ASSUME NEW m \in DOMAIN ms, NEW v \in DOMAIN ms[m].voices
      PROVE  /\ InTime(ms[m].voices[v].events)
             /\ \A e \in DOMAIN ms[m].voices[v].events : ms[m].voices[v].events[e].notes = <<>>
  <2> DEFINE pad == PaddingBar(lengths[m])
             bar == [pad EXCEPT !.start = Begin(m)]
  <2>1. m \in DOMAIN lengths /\ ms[m] = bar
    BY <1>1
  <2>2. bar.voices = pad.voices
    BY DEF PaddingBar
  <2>. HIDE DEF bar
  <2> DEFINE rest == <<[onset |-> 0, duration |-> lengths[m], isGrace |-> FALSE,
                        notes |-> <<>>]>>
             voice == [number |-> 1, events |-> rest]
  <2>3. pad.voices = <<voice>>
    BY DEF PaddingBar
  <2>. HIDE DEF pad, ms, voice
  <2>4. ms[m].voices = pad.voices
    BY <2>1, <2>2
  <2>5. ms[m].voices[v] = voice
    BY <2>3, <2>4, Singleton
  <2>6. voice.events = rest
    BY DEF voice
  <2> DEFINE es == ms[m].voices[v].events
  <2>7. es = rest /\ DOMAIN es = {1}
    BY <2>5, <2>6, Singleton
  <2>. HIDE DEF es
  <2>8. InTime(es) /\ \A e \in DOMAIN es : es[e].notes = <<>>
    BY <2>7 DEF InTime
  <2>. QED
    BY <2>8 DEF es
<1>. HIDE DEF ms
<1>3. \A m \in DOMAIN ms : IsSilent(ms[m])
  BY <1>2 DEF IsSilent
<1>. QED
  BY <1>3 DEF ms

\* Rests that follow add no note to a part and untie none.
RestsFollow(x, z) ==
  /\ DOMAIN x.measures \subseteq DOMAIN z.measures
  /\ \A m \in DOMAIN x.measures : z.measures[m] = x.measures[m]
  /\ \A m \in DOMAIN z.measures \ DOMAIN x.measures : IsSilent(z.measures[m])

LEMMA FollowedByRests ==
  ASSUME NEW x, NEW z, RestsFollow(x, z)
  PROVE  /\ Chronological(x) => Chronological(z)
         /\ \A pairs : Straight(x, pairs) => Straight(z, pairs)
         /\ EndsInside(x) => Links(z) = Links(x)
<1>1. Refs(z) \subseteq Refs(x)
  <2>. SUFFICES ASSUME NEW ref \in Refs(z) PROVE ref \in Refs(x)
    OBVIOUS
  <2>1. PICK m \in DOMAIN z.measures : \E v \in DOMAIN z.measures[m].voices :
          \E e \in DOMAIN z.measures[m].voices[v].events :
            \E n \in DOMAIN z.measures[m].voices[v].events[e].notes : ref = <<m, v, e, n>>
    BY PlaceOfRef
  <2>2. CASE m \in DOMAIN x.measures
    <3>1. z.measures[m] = x.measures[m]
      BY <2>2 DEF RestsFollow
    <3>2. \E v \in DOMAIN x.measures[m].voices :
            \E e \in DOMAIN x.measures[m].voices[v].events :
              \E n \in DOMAIN x.measures[m].voices[v].events[e].notes : ref = <<m, v, e, n>>
      BY <2>1, <3>1
    <3>. QED
      BY <2>2, <3>2, RefOfPlace
  <2>3. CASE m \notin DOMAIN x.measures
    <3>1. IsSilent(z.measures[m])
      BY <2>3 DEF RestsFollow
    <3>2. \E notes : notes = <<>> /\ \E n \in DOMAIN notes : TRUE
      BY <2>1, <3>1 DEF IsSilent
    <3>. QED
      BY <3>2, NoElements
  <2>. QED
    BY <2>2, <2>3
<1>2. ASSUME NEW ref \in Refs(x)
      PROVE  ref \in Refs(z) /\ NoteAt(z, ref) = NoteAt(x, ref)
  <2>1. PICK m \in DOMAIN x.measures : \E v \in DOMAIN x.measures[m].voices :
          \E e \in DOMAIN x.measures[m].voices[v].events :
            \E n \in DOMAIN x.measures[m].voices[v].events[e].notes : ref = <<m, v, e, n>>
    BY PlaceOfRef
  <2>2. m \in DOMAIN z.measures /\ z.measures[m] = x.measures[m]
    BY DEF RestsFollow
  <2>3. \E v \in DOMAIN z.measures[m].voices :
          \E e \in DOMAIN z.measures[m].voices[v].events :
            \E n \in DOMAIN z.measures[m].voices[v].events[e].notes : ref = <<m, v, e, n>>
    BY <2>1, <2>2
  <2>4. ref \in Refs(z)
    BY <2>2, <2>3, RefOfPlace
  <2>5. ref[1] = m
    BY <2>1
  <2>6. NoteAt(z, ref) = NoteAt(x, ref)
    BY <2>2, <2>5 DEF NoteAt
  <2>. QED
    BY <2>4, <2>6
<1>3. Refs(z) = Refs(x) /\ \A ref \in Refs(x) : NoteAt(z, ref) = NoteAt(x, ref)
  BY <1>1, <1>2
<1>4. ASSUME Chronological(x) PROVE Chronological(z)
  <2>. SUFFICES ASSUME NEW m \in DOMAIN z.measures, NEW v \in DOMAIN z.measures[m].voices
                PROVE  InTime(z.measures[m].voices[v].events)
    BY DEF Chronological
  <2>1. CASE m \in DOMAIN x.measures
    BY <1>4, <2>1 DEF RestsFollow, Chronological
  <2>2. CASE m \notin DOMAIN x.measures
    BY <2>2 DEF RestsFollow, IsSilent
  <2>. QED
    BY <2>1, <2>2
<1>5. ASSUME NEW pairs, Straight(x, pairs) PROVE Straight(z, pairs)
  BY <1>3, <1>5 DEF Straight
<1>6. ASSUME EndsInside(x) PROVE Links(z) = Links(x)
  <2> DEFINE Onward(part) ==
               {<<NoteAt(part, ref).id, NoteAt(part, NoteAt(part, ref).to).id>> :
                  ref \in {r \in Refs(part) : NoteAt(part, r).to # NoRef}}
             Backward(part) ==
               {<<NoteAt(part, NoteAt(part, ref).from).id, NoteAt(part, ref).id>> :
                  ref \in {r \in Refs(part) : NoteAt(part, r).from # NoRef}}
  <2>1. \A ref \in Refs(x) :
          /\ NoteAt(x, ref).to # NoRef =>
               NoteAt(z, NoteAt(z, ref).to).id = NoteAt(x, NoteAt(x, ref).to).id
          /\ NoteAt(x, ref).from # NoRef =>
               NoteAt(z, NoteAt(z, ref).from).id = NoteAt(x, NoteAt(x, ref).from).id
    BY <1>3, <1>6 DEF EndsInside
  <2>2. Onward(z) = Onward(x)
    BY <1>3, <2>1
  <2>3. Backward(z) = Backward(x)
    BY <1>3, <2>1
  <2>. QED
    BY <2>2, <2>3 DEF Links
<1>. QED
  BY <1>4, <1>5, <1>6

\* Bars of rest that follow the bars of a part.
LEMMA BarsOfRestFollow ==
  ASSUME NEW x, IsList(x.measures), NEW lengths \in Seq(Nat \ {0}),
         NEW z, z.measures = x.measures \o Bars(lengths)
  PROVE  RestsFollow(x, z)
<1> DEFINE s == x.measures
           t == Bars(lengths)
<1>1. IsList(t) /\ \A m \in DOMAIN t : IsSilent(t[m])
  <2>1. IsBars(Bars(lengths))
    BY BarsOfLengths
  <2>2. \A m \in DOMAIN Bars(lengths) : IsSilent(Bars(lengths)[m])
    BY SilentBars
  <2>. QED
    BY <2>1, <2>2 DEF IsBars
<1>2. IsList(s) /\ z.measures = s \o t
  OBVIOUS
<1>. HIDE DEF s, t
<1>3. /\ DOMAIN s \subseteq DOMAIN (s \o t) /\ \A i \in DOMAIN s : (s \o t)[i] = s[i]
      /\ \A i \in DOMAIN (s \o t) \ DOMAIN s : \E j \in DOMAIN t : (s \o t)[i] = t[j]
  BY <1>1, <1>2, JoinedPlaces
<1>4. \A i \in DOMAIN z.measures \ DOMAIN s : IsSilent(z.measures[i])
  BY <1>1, <1>2, <1>3
<1>. QED
  BY <1>2, <1>3, <1>4 DEF RestsFollow, s

LEMMA NoBars ==
  LET x == [measures |-> <<>>]
  IN Chronological(x) /\ \A pairs : Straight(x, pairs)
<1> DEFINE x == [measures |-> <<>>]
<1>1. DOMAIN x.measures = {}
  BY NoElements
<1>. HIDE DEF x
<1>2. Chronological(x)
  BY <1>1 DEF Chronological
<1>3. Refs(x) = {}
  BY <1>1 DEF Refs
<1>4. \A pairs : Straight(x, pairs)
  BY <1>3 DEF Straight
<1>. QED
  BY <1>2, <1>4 DEF x

\* Tying the notes of a part moves no event.
LEMMA TyingKeepsTime ==
  ASSUME NEW x, IsBars(x.measures), Chronological(x), NEW y, LikeBars(x.measures, y.measures)
  PROVE  Chronological(y)
<1> DEFINE s == x.measures
           t == y.measures
<1>1. DOMAIN t = DOMAIN s
  BY DEF LikeBars
<1>2. ASSUME NEW m \in DOMAIN s PROVE DOMAIN t[m].voices = DOMAIN s[m].voices
  BY DEF LikeBars, LikeVoices
<1>3. ASSUME NEW m \in DOMAIN s, NEW v \in DOMAIN s[m].voices
      PROVE  InTime(t[m].voices[v].events)
  <2> DEFINE a == s[m].voices[v].events
             b == t[m].voices[v].events
  <2>1. LikeEvents(a, b)
    BY DEF LikeBars, LikeVoices
  <2>2. IsEvents(a) /\ InTime(a)
    BY DEF IsBars, IsBar, IsVoice, Meets, Chronological
  <2>. HIDE DEF a, b
  <2>3. DOMAIN b = DOMAIN a /\ \A e \in DOMAIN a : b[e] = [a[e] EXCEPT !.notes = b[e].notes]
    BY <2>1 DEF LikeEvents
  <2>4. \A e \in DOMAIN a : b[e].onset = a[e].onset
    <3>. SUFFICES ASSUME NEW e \in DOMAIN a PROVE b[e].onset = a[e].onset
      OBVIOUS
    <3> DEFINE i == a[e]
               ns == b[e].notes
    <3>1. IsEvent(i) /\ b[e] = [i EXCEPT !.notes = ns]
      BY <2>2, <2>3 DEF IsEvents
    <3>. HIDE DEF i, ns
    <3>2. b[e].onset = i.onset
      BY <3>1 DEF IsEvent
    <3>. QED
      BY <3>2 DEF i
  <2>5. InTime(b)
    BY <2>2, <2>3, <2>4 DEF InTime
  <2>. QED
    BY <2>5 DEF b
<1>. QED
  BY <1>1, <1>2, <1>3 DEF Chronological

\* The events of a bar are frozen by onset.
LEMMA FrozenInTime ==
  ASSUME NEW s, IsVoices(s)
  PROVE  \A v \in DOMAIN Frozen(s) : InTime(Frozen(s)[v].events)
<1> DEFINE key == [v \in DOMAIN s |-> s[v].number]
           order == InOrder(DOMAIN s, key)
<1>1. DOMAIN s = 1..Len(s) /\ Len(s) \in Nat
  BY DEF IsVoices, IsList
<1>2. DOMAIN s \in SUBSET Int /\ IsFiniteSet(DOMAIN s)
  BY <1>1, FS_Interval
<1>3. \A v \in DOMAIN s : key[v] \in Int
  BY DEF IsVoices, IsVoice
<1>. HIDE DEF key
<1>4. \A k \in DOMAIN order : order[k] \in DOMAIN s
  BY <1>2, <1>3, Ordered
<1>5. Frozen(s) = [i \in DOMAIN order |->
                     [s[order[i]] EXCEPT !.events = InTimeOrder(s[order[i]].events)]]
  BY DEF Frozen, key
<1>. HIDE DEF order
<1>6. ASSUME NEW i \in DOMAIN order PROVE InTime(Frozen(s)[i].events)
  <2> DEFINE x == s[order[i]]
             es == InTimeOrder(x.events)
  <2>1. Frozen(s)[i] = [x EXCEPT !.events = es]
    BY <1>5
  <2>2. IsVoice(0, 0, x)
    BY <1>4 DEF IsVoices
  <2>. HIDE DEF x
  <2>3. Meets(0, 0, x.events) /\ 0 \in Int /\ 0 \in {0, 1}
    BY <2>2 DEF IsVoice
  <2>4. InTime(es)
    BY <2>3, Sorting DEF InTime
  <2>. HIDE DEF es
  <2>5. Frozen(s)[i].events = es
    BY <2>1, <2>2 DEF IsVoice
  <2>. QED
    BY <2>4, <2>5
<1>. QED
  BY <1>5, <1>6

-----------------------------------------------------------------------------
(* The list of parts.                                                       *)

\* The bars of every part of the list are some of those in M.
IsPartOf(M, x) == {"id", "measures"} \subseteq DOMAIN x /\ x.measures \in M

IsPartList(M, list) ==
  /\ {"parts", "serial", "index", "repairs"} \subseteq DOMAIN list
  /\ IsList(list.parts) /\ \A p \in DOMAIN list.parts : IsPartOf(M, list.parts[p])

NoParts == [parts |-> <<>>, serial |-> 0, index |-> <<>>, repairs |-> {}]

\* A part declared after those before it.
Declared(acc, id) ==
  LET renamed == id = <<>> \/ id \in DOMAIN acc.index
      serial == acc.serial + (IF renamed THEN 1 ELSE 0)
      own == IF renamed THEN GeneratedId(serial) ELSE id
  IN [parts |-> Append(acc.parts, [id |-> own, measures |-> <<>>]), serial |-> serial,
      index |-> [x \in DOMAIN acc.index \cup {id} |->
                   IF x \in DOMAIN acc.index THEN acc.index[x] ELSE Len(acc.parts) + 1],
      repairs |-> acc.repairs \cup When(renamed, "score-part")]

Declares(ids, n, f) ==
  f = [i \in 0..n |-> IF i = 0 THEN NoParts ELSE Declared(f[i - 1], ids[i])]

LEMMA DeclarationsExist ==
  ASSUME NEW ids, NEW n \in Nat
  PROVE  \E f : Declares(ids, n, f)
<1> DEFINE S == {k \in Nat : \E f : Declares(ids, k, f)}
<1>1. 0 \in S
  <2> DEFINE f == [i \in 0..0 |-> NoParts]
  <2>1. f = [i \in 0..0 |-> IF i = 0 THEN NoParts ELSE Declared(f[i - 1], ids[i])]
    OBVIOUS
  <2>. HIDE DEF f
  <2>2. Declares(ids, 0, f)
    BY <2>1 DEF Declares
  <2>. QED
    BY <2>2
<1>2. ASSUME NEW k \in Nat, k \in S PROVE k + 1 \in S
  <2>1. PICK f : Declares(ids, k, f)
    BY <1>2
  <2> DEFINE g == [i \in 0..(k + 1) |-> IF i = k + 1 THEN Declared(f[k], ids[i]) ELSE f[i]]
  <2>2. \A i \in 0..k : f[i] = IF i = 0 THEN NoParts ELSE Declared(f[i - 1], ids[i])
    BY <2>1 DEF Declares
  <2>3. \A i \in 0..(k + 1) : g[i] = IF i = 0 THEN NoParts ELSE Declared(g[i - 1], ids[i])
    <3>. SUFFICES ASSUME NEW i \in 0..(k + 1)
                  PROVE  g[i] = IF i = 0 THEN NoParts ELSE Declared(g[i - 1], ids[i])
      OBVIOUS
    <3>1. CASE i = k + 1
      <4>1. i # 0 /\ i - 1 = k /\ g[i - 1] = f[k] /\ g[i] = Declared(f[k], ids[i])
        BY <3>1
      <4>. QED
        BY <4>1
    <3>2. CASE i # k + 1
      <4>1. i \in 0..k /\ g[i] = f[i]
        BY <3>2
      <4>2. i # 0 => g[i - 1] = f[i - 1]
        BY <4>1
      <4>. QED
        BY <2>2, <4>1, <4>2
    <3>. QED
      BY <3>1, <3>2
  <2>4. g = [i \in 0..(k + 1) |-> g[i]]
    OBVIOUS
  <2>. HIDE DEF g
  <2>5. Declares(ids, k + 1, g)
    BY <2>3, <2>4 DEF Declares
  <2>. QED
    BY <2>5
<1>. HIDE DEF S
<1>3. n \in S
  BY <1>1, <1>2, Induction
<1>. QED
  BY <1>3 DEF S

LEMMA DeclaredPart ==
  ASSUME NEW M, <<>> \in M, NEW acc, IsPartList(M, acc), NEW id
  PROVE  IsPartList(M, Declared(acc, id))
<1> DEFINE y == Declared(acc, id)
<1>1. /\ {"parts", "serial", "index", "repairs"} \subseteq DOMAIN y
      /\ \E name : y.parts = Append(acc.parts, [id |-> name, measures |-> <<>>])
  BY DEF Declared
<1>2. PICK name : y.parts = Append(acc.parts, [id |-> name, measures |-> <<>>])
  BY <1>1
<1>3. IsPartOf(M, [id |-> name, measures |-> <<>>])
  BY DEF IsPartOf
<1>. HIDE DEF y
<1>4. IsPartList(M, y)
  BY <1>1, <1>2, <1>3, AppendedList DEF IsPartList
<1>. QED
  BY <1>4 DEF y

LEMMA PartListIsOne ==
  ASSUME NEW M, <<>> \in M, NEW ids, IsList(ids)
  PROVE  IsPartList(M, PartList(ids))
<1> DEFINE n == Len(ids)
           Lists(f) == f = [i \in 0..n |-> IF i = 0 THEN NoParts ELSE Declared(f[i - 1], ids[i])]
           upTo == CHOOSE f : Lists(f)
<1>1. n \in Nat
  BY DEF IsList
<1>2. PartList(ids) = upTo[n]
  BY DEF PartList, Declared, NoParts
<1>3. Declares(ids, n, upTo)
  <2>1. PICK f : Declares(ids, n, f)
    BY <1>1, DeclarationsExist
  <2>2. Lists(f)
    BY <2>1 DEF Declares
  <2>3. Lists(upTo)
    BY <2>2
  <2>. QED
    BY <2>3 DEF Declares
<1>. HIDE DEF upTo, n
<1> DEFINE S == {i \in Nat : i <= n => IsPartList(M, upTo[i])}
<1>4. upTo[0] = NoParts /\ \A i \in 0..n : i # 0 => upTo[i] = Declared(upTo[i - 1], ids[i])
  BY <1>1, <1>3 DEF Declares
<1>5. 0 \in S
  BY <1>4, NoElements DEF IsPartList, NoParts
<1>6. ASSUME NEW i \in Nat, i \in S PROVE i + 1 \in S
  <2>. SUFFICES ASSUME i + 1 <= n PROVE IsPartList(M, upTo[i + 1])
    OBVIOUS
  <2>1. i + 1 \in 0..n /\ i + 1 # 0 /\ (i + 1) - 1 = i /\ i <= n
    BY <1>1
  <2>2. IsPartList(M, upTo[i])
    BY <1>6, <2>1
  <2>3. upTo[i + 1] = Declared(upTo[i], ids[i + 1])
    BY <1>4, <2>1
  <2>. QED
    BY <2>2, <2>3, DeclaredPart
<1>. HIDE DEF S
<1>7. n \in S
  BY <1>1, <1>5, <1>6, Induction
<1>. QED
  BY <1>1, <1>2, <1>7 DEF S

LEMMA PartListWithMusic ==
  ASSUME NEW M, NEW N, M \subseteq N, NEW bars \in N, \A ms \in M : ms \o bars \in N,
         NEW list, IsPartList(M, list), NEW id
  PROVE  IsPartList(N, WithMusic(list, id, bars))
<1> DEFINE y == WithMusic(list, id, bars)
<1>1. CASE id \in DOMAIN list.index
  <2> DEFINE k == list.index[id]
             s == list.parts
             t == [s EXCEPT ![k].measures = @ \o bars]
  <2>1. y = [list EXCEPT !.parts = t]
    BY <1>1 DEF WithMusic
  <2>. HIDE DEF k
  <2>2. DOMAIN y = DOMAIN list /\ y.parts = t
    BY <2>1 DEF IsPartList
  <2>3. IsList(s) /\ \A p \in DOMAIN s : IsPartOf(M, s[p])
    BY DEF IsPartList
  <2>. HIDE DEF s
  <2>4. /\ DOMAIN t = DOMAIN s /\ t = [p \in DOMAIN s |-> t[p]]
        /\ \A p \in DOMAIN s : t[p] = IF p = k THEN [s[p] EXCEPT !.measures = @ \o bars] ELSE s[p]
    OBVIOUS
  <2>. HIDE DEF t
  <2>5. IsList(t)
    BY <2>3, <2>4, Mapped
  <2>6. ASSUME NEW p \in DOMAIN s PROVE IsPartOf(N, t[p])
    <3> DEFINE x == s[p]
               z == [x EXCEPT !.measures = @ \o bars]
    <3>1. IsPartOf(M, x) /\ t[p] \in {x, z}
      BY <2>3, <2>4
    <3>. HIDE DEF x
    <3>2. DOMAIN z = DOMAIN x /\ z.measures = x.measures \o bars
      BY <3>1 DEF IsPartOf
    <3>. HIDE DEF z
    <3>3. IsPartOf(N, z) /\ IsPartOf(N, x)
      BY <3>1, <3>2 DEF IsPartOf
    <3>. QED
      BY <3>1, <3>3
  <2>. HIDE DEF y
  <2>7. IsPartList(N, y)
    BY <2>2, <2>4, <2>5, <2>6 DEF IsPartList
  <2>. QED
    BY <2>7 DEF y
<1>2. CASE id \notin DOMAIN list.index
  <2> DEFINE x == [id |-> GeneratedId(list.serial + 1), measures |-> bars]
  <2>1. y = [list EXCEPT !.parts = Append(@, x), !.serial = @ + 1, !.repairs = @ \cup {"part"}]
    BY <1>2 DEF WithMusic
  <2>2. IsPartOf(N, x) /\ \A z : IsPartOf(M, z) => IsPartOf(N, z)
    BY DEF IsPartOf
  <2>. HIDE DEF x, y
  <2>3. DOMAIN y = DOMAIN list /\ y.parts = Append(list.parts, x)
    BY <2>1 DEF IsPartList
  <2>4. IsPartList(N, y)
    BY <2>2, <2>3, AppendedList DEF IsPartList
  <2>. QED
    BY <2>4 DEF y
<1>. QED
  BY <1>1, <1>2

-----------------------------------------------------------------------------
(* The reader.                                                              *)

\* Divisions and time are positive, and what is collected so far is made of numbers: the
\* passes need no more of a score than that.
ReaderInv ==
  /\ state.divisions \in Nat \ {0} /\ state.time \in Nat \ {0} /\ nominal \in Nat \ {0}
  /\ cursor \in Int /\ lastVoice \in Int
  /\ IsVoices(pending) /\ IsBars(measures)
  /\ phase = "read" => IsScore(0, score)
  /\ phase = "done" => IsRepaired(score)

LEMMA ReaderInit == Init => ReaderInv
<1>. SUFFICES ASSUME Init PROVE ReaderInv
  OBVIOUS
<1>1. CommonTime \in Nat \ {0}
  BY ReadingAssumption
<1>2. IsVoices(<<>>) /\ IsBars(<<>>)
  BY NoElements DEF IsVoices, IsBars
<1>. QED
  BY <1>1, <1>2 DEF Init, ReaderInv

LEMMA ReadingANote ==
  ASSUME ReaderInv, NEW note \in Notes, ReadNote(note)
  PROVE  ReaderInv'
<1>1. note.voice \in Int /\ note.duration \in Int /\ note.isGrace \in BOOLEAN
  BY ReadingAssumption
<1>2. NumberOf(note) \in Int
  BY <1>1 DEF NumberOf, ReaderInv
<1>3. Rounded(note.duration) \in Int
  BY <1>1, RoundedIsANumber DEF ReaderInv
<1>4. DurationOf(note) \in Int
  <2>1. DurationOf(note) \in {0, nominal, Rounded(note.duration)}
    BY <1>1 DEF DurationOf
  <2>. QED
    BY <1>3, <2>1 DEF ReaderInv
<1>5. IsNotes(Chosen(note))
  BY ChosenAreNotes
<1>6. cursor' \in Int /\ lastVoice' \in Int /\ IsVoices(pending')
  <2>1. CASE JoinChord(note)
    <3>1. PICK v \in VoiceAt(NumberOf(note)) :
            pending' = [pending EXCEPT ![v].events[Len(pending[v].events)].notes
                                         = @ \o Chosen(note)]
      BY <2>1 DEF JoinChord
    <3>2. v \in DOMAIN pending
      BY DEF VoiceAt
    <3>3. IsVoices(pending')
      BY <1>5, <3>1, <3>2, JoinedVoices DEF ReaderInv
    <3>. QED
      BY <1>2, <2>1, <3>3 DEF JoinChord, ReaderInv
  <2>2. CASE AppendEvent(note)
    <3> DEFINE event == [onset |-> cursor, duration |-> DurationOf(note),
                         isGrace |-> note.isGrace, notes |-> Chosen(note), at |-> exact,
                         length |-> LengthOf(note)]
    <3>1. IsEvent(event)
      BY <1>1, <1>4, <1>5 DEF IsEvent, ReaderInv
    <3>2. pending' = WithEvent(pending, VoiceAt(NumberOf(note)), NumberOf(note), event)
      BY <2>2 DEF AppendEvent, WithEvent
    <3>. HIDE DEF event
    <3>3. IsVoices(pending')
      BY <1>2, <3>1, <3>2, AppendedVoices DEF ReaderInv
    <3>4. cursor' = cursor + DurationOf(note) /\ lastVoice' = NumberOf(note)
      BY <2>2 DEF AppendEvent
    <3>. QED
      BY <1>2, <1>4, <3>3, <3>4 DEF ReaderInv
  <2>. QED
    BY <2>1, <2>2 DEF ReadNote
<1>7. UNCHANGED <<state, nominal, measures, phase, score>>
  BY DEF ReadNote, result
<1>. QED
  BY <1>6, <1>7 DEF ReaderInv

LEMMA ReadingAttributes ==
  ASSUME ReaderInv, NEW a \in Attributes, ReadAttributes(a)
  PROVE  ReaderInv'
<1>1. a.divisions \in Int /\ a.time \in Int
  BY ReadingAssumption
<1>2. /\ state'.divisions = IF a.divisions > 0 THEN a.divisions ELSE state.divisions
      /\ state'.time = IF a.time > 0 THEN a.time ELSE state.time
      /\ nominal' = state'.time
  BY DEF ReadAttributes
<1>3. state'.divisions \in Nat \ {0} /\ state'.time \in Nat \ {0}
  BY <1>1, <1>2 DEF ReaderInv
<1>4. UNCHANGED <<cursor, lastVoice, pending, measures, phase, score>>
  BY DEF ReadAttributes, place, result
<1>. QED
  BY <1>2, <1>3, <1>4 DEF ReaderInv

LEMMA MovingTheCursor ==
  ASSUME ReaderInv, NEW source \in CursorMoves, Backup(source) \/ Forward(source)
  PROVE  ReaderInv'
<1>1. source \in Int
  BY ReadingAssumption
<1>2. Rounded(source) \in Int
  BY <1>1, RoundedIsANumber DEF ReaderInv
<1>3. cursor' \in Int
  <2>1. Max({0, cursor - Rounded(source)}) \in Int
    <3>1. 0 \in Int /\ cursor - Rounded(source) \in Int
      BY <1>2 DEF ReaderInv
    <3>. QED
      BY <3>1, MaxOfTwo
  <2>2. cursor' = Max({0, cursor - Rounded(source)}) \/ cursor' = cursor + Rounded(source)
    BY DEF Backup, Forward
  <2>. QED
    BY <1>2, <2>1, <2>2 DEF ReaderInv
<1>4. UNCHANGED <<lastVoice, state, pending, nominal, measures, phase, score>>
  BY DEF Backup, Forward, result
<1>. QED
  BY <1>3, <1>4 DEF ReaderInv

LEMMA EndingAMeasure ==
  ASSUME ReaderInv, EndMeasure
  PROVE  ReaderInv'
<1> DEFINE length == Max({nominal, Occupied})
           bar == [nominal |-> length, start |-> start, voices |-> Frozen(pending)]
<1>1. Occupied \in Int
  BY OccupiedIsANumber DEF ReaderInv
<1>2. length \in Nat \ {0}
  <2>1. nominal \in Int /\ nominal > 0
    BY DEF ReaderInv
  <2>2. length = IF nominal >= Occupied THEN nominal ELSE Occupied
    BY <1>1, <2>1, MaxOfTwo
  <2>. QED
    BY <1>1, <2>1, <2>2
<1>3. IsVoices(Frozen(pending))
  BY FrozenVoices DEF ReaderInv
<1>4. measures' = Append(measures, bar)
  BY DEF EndMeasure
<1>. HIDE DEF length
<1>5. IsBar(0, bar)
  BY <1>2, <1>3, BarOfVoices
<1>. HIDE DEF bar
<1>6. IsBars(measures')
  BY <1>4, <1>5, AppendedList DEF IsBars, ReaderInv
<1>7. /\ cursor' = 0 /\ lastVoice' = 1 /\ pending' = <<>> /\ nominal' = state.time
      /\ UNCHANGED <<state, phase, score>>
  BY DEF EndMeasure, result
<1>8. IsVoices(<<>>)
  BY NoElements DEF IsVoices
<1>. QED
  BY <1>6, <1>7, <1>8 DEF ReaderInv

\* The score that is handed to the passes: each part has the bars read, those of the other
\* <part>, both or none.
Handed(ties, around) ==
  LET own == Tied([measures |-> measures], ties.links).measures
  IN {<<>>, own, Bars(around.bars), own \o Bars(around.bars)}

LEMMA JoinedBars ==
  ASSUME NEW s, IsBars(s), NEW t, IsBars(t)
  PROVE  IsBars(s \o t)
<1>1. /\ IsList(s \o t)
      /\ \A i \in DOMAIN (s \o t) : \/ i \in DOMAIN s /\ (s \o t)[i] = s[i]
                                    \/ \E j \in DOMAIN t : (s \o t)[i] = t[j]
  BY JoinedLists DEF IsBars
<1>2. \A i \in DOMAIN (s \o t) : IsBar(0, (s \o t)[i])
  BY <1>1 DEF IsBars
<1>. QED
  BY <1>1, <1>2 DEF IsBars

LEMMA EndingThePart ==
  ASSUME ReaderInv, NEW around \in Surroundings, EndPart(around)
  PROVE  /\ ReaderInv'
         /\ \A p \in DOMAIN score'.parts :
              score'.parts[p].measures \in Handed(ResolvedTies([measures |-> measures]), around)
<1> DEFINE ties == ResolvedTies([measures |-> measures])
           part == Tied([measures |-> measures], ties.links)
           first == WithMusic(PartList(around.declared), OwnId, part.measures)
           list == WithMusic(first, around.other, Bars(around.bars))
           M == Handed(ties, around)
           M0 == {<<>>}
           M1 == {<<>>, part.measures}
<1>1. IsBars(part.measures)
  <2> DEFINE links == ties.links
  <2>. HIDE DEF links
  <2>1. IsBars(Tied([measures |-> measures], links).measures)
    BY TiedBars DEF ReaderInv
  <2>. QED
    BY <2>1 DEF links
<1>2. IsBars(Bars(around.bars))
  <2>1. around.bars \in Seq(Nat \ {0})
    BY ReadingAssumption
  <2>. QED
    BY <2>1, BarsOfLengths
<1>3. M = {<<>>, part.measures, Bars(around.bars), part.measures \o Bars(around.bars)}
  BY DEF Handed
<1>4. \A bars \in M : IsBars(bars)
  <2>1. IsBars(part.measures \o Bars(around.bars))
    BY <1>1, <1>2, JoinedBars
  <2>2. IsBars(<<>>)
    BY NoElements DEF IsBars
  <2> DEFINE own == part.measures
             rests == Bars(around.bars)
             both == own \o rests
  <2>3. IsBars(own) /\ IsBars(rests) /\ IsBars(both) /\ M = {<<>>, own, rests, both}
    BY <1>1, <1>2, <1>3, <2>1
  <2>. HIDE DEF M, own, rests, both
  <2>. QED
    BY <2>2, <2>3
<1>5. /\ score'.parts = list.parts /\ {"parts", "repairs"} \subseteq DOMAIN score'
      /\ phase' = "read"
      /\ UNCHANGED <<state, cursor, lastVoice, pending, nominal, measures>>
  BY DEF EndPart, place
<1>. HIDE DEF M, part
<1>6. IsPartList(M0, PartList(around.declared))
  <2>1. around.declared \in Seq({around.declared[i] : i \in DOMAIN around.declared})
    BY ReadingAssumption
  <2>2. IsList(around.declared)
    BY <2>1, SeqIsAList
  <2>. QED
    BY <2>2, PartListIsOne
<1>7. IsPartList(M1, first)
  <2>1. <<>> \o part.measures = part.measures
    BY <1>1, NothingBefore DEF IsBars
  <2>. HIDE DEF ties
  <2>2. M0 \subseteq M1 /\ part.measures \in M1 /\ \A ms \in M0 : ms \o part.measures \in M1
    BY <2>1
  <2>. HIDE DEF M0, M1
  <2>. QED
    BY <1>6, <2>2, PartListWithMusic
<1>. HIDE DEF first
<1>8. IsPartList(M, list)
  <2> DEFINE bars == Bars(around.bars)
  <2>1. <<>> \o bars = bars
    BY <1>2, NothingBefore DEF IsBars
  <2>2. M1 \subseteq M /\ bars \in M /\ \A ms \in M1 : ms \o bars \in M
    BY <1>3, <2>1
  <2>. HIDE DEF M0, M1, bars
  <2>3. IsPartList(M, WithMusic(first, around.other, bars))
    BY <1>7, <2>2, PartListWithMusic
  <2>. QED
    BY <2>3 DEF bars
<1>. HIDE DEF list
<1>9. \A p \in DOMAIN score'.parts : IsPartOf(M, score'.parts[p])
  BY <1>5, <1>8 DEF IsPartList
<1>10. IsScore(0, score')
  BY <1>4, <1>5, <1>8, <1>9 DEF IsScore, IsPart, IsPartList, IsPartOf, IsBars
<1>11. ReaderInv'
  BY <1>5, <1>10 DEF ReaderInv
<1>. QED
  BY <1>9, <1>11 DEF IsPartOf, M

LEMMA Freezing ==
  ASSUME ReaderInv, Freeze
  PROVE  ReaderInv'
<1>1. phase' = "done" => score' = EnforceInvariants(score)
  BY DEF Freeze
<1>2. IsScore(0, score)
  BY DEF Freeze, ReaderInv
<1>3. IsRepaired(EnforceInvariants(score))
  BY <1>2, PassesRepair
<1>4. phase' # "read" /\ UNCHANGED <<state, cursor, lastVoice, pending, nominal, measures>>
  BY DEF Freeze, place
<1>. QED
  BY <1>1, <1>3, <1>4 DEF ReaderInv

LEMMA ReaderNext == ReaderInv /\ [Next]_vars => ReaderInv'
<1>. SUFFICES ASSUME ReaderInv, [Next]_vars PROVE ReaderInv'
  OBVIOUS
<1>1. ASSUME NEW note \in Notes, ReadNote(note) PROVE ReaderInv'
  BY <1>1, ReadingANote
<1>2. ASSUME NEW a \in Attributes, ReadAttributes(a) PROVE ReaderInv'
  BY <1>2, ReadingAttributes
<1>3. ASSUME NEW source \in CursorMoves, Backup(source) \/ Forward(source) PROVE ReaderInv'
  BY <1>3, MovingTheCursor
<1>4. ASSUME NEW mark \in Tempos, ReadDirection(mark) PROVE ReaderInv'
  BY <1>4 DEF ReadDirection, place, result, ReaderInv
<1>5. CASE EndMeasure
  BY <1>5, EndingAMeasure
<1>6. ASSUME NEW around \in Surroundings, EndPart(around) PROVE ReaderInv'
  BY <1>6, EndingThePart
<1>7. CASE Freeze
  BY <1>7, Freezing
<1>8. CASE Finished \/ UNCHANGED vars
  BY <1>8 DEF Finished, vars, ReaderInv
<1>. QED
  BY <1>1, <1>2, <1>3, <1>4, <1>5, <1>6, <1>7, <1>8 DEF Next

\* The reader keeps divisions, times and places numbers, and hands the passes a score of
\* them: what every repair takes for granted of a part.
THEOREM ReaderKeepsNumbers == Spec => []ReaderInv
BY ReaderInit, ReaderNext, PTL DEF Spec

\* enforceInvariants makes a well-formed score of whatever the reader hands it, and the
\* target-note tool finds its first note: for every file, of any notes, attributes and
\* moves in any order, and any list of parts.
THEOREM FrozenScoreStaysWellFormed == Spec => []FrozenScoreIsWellFormed
<1>1. ReaderInv => FrozenScoreIsWellFormed
  BY RepairedIsWellFormed, RepairedSelectsTheFirst DEF ReaderInv, FrozenScoreIsWellFormed
<1>. QED
  BY <1>1, ReaderKeepsNumbers, PTL

-----------------------------------------------------------------------------
(* Ties.                                                                   *)

\* The bars read are in time, and the links handed to the passes do not cross.
TieInv ==
  /\ Chronological([measures |-> measures])
  /\ phase = "read" => /\ AllChronological(score)
                       /\ \A p \in DOMAIN score.parts : Straight(score.parts[p], FileTies)
  /\ TiesJoinWhatWasTied

LEMMA TieInit == Init => TieInv
<1>. SUFFICES ASSUME Init PROVE TieInv
  OBVIOUS
<1>1. measures = <<>> /\ phase = "reading"
  BY DEF Init
<1>. QED
  BY <1>1, NoBars DEF TieInv, TiesJoinWhatWasTied

LEMMA TiesAfterAMeasure ==
  ASSUME ReaderInv, TieInv, EndMeasure
  PROVE  TieInv'
<1> DEFINE bar == [nominal |-> Max({nominal, Occupied}), start |-> start,
                   voices |-> Frozen(pending)]
           x == [measures |-> measures]
           y == [measures |-> Append(measures, bar)]
<1>1. measures' = Append(measures, bar) /\ phase = "reading" /\ phase' = "reading"
  BY DEF EndMeasure, result
<1>2. \A v \in DOMAIN bar.voices : InTime(bar.voices[v].events)
  <2>1. bar.voices = Frozen(pending)
    OBVIOUS
  <2>. QED
    BY <2>1, FrozenInTime DEF ReaderInv
<1>. HIDE DEF bar
<1>3. IsList(measures)
  BY DEF ReaderInv, IsBars
<1>4. \A m \in DOMAIN Append(measures, bar) :
        \/ m \in DOMAIN measures /\ Append(measures, bar)[m] = measures[m]
        \/ Append(measures, bar)[m] = bar
  BY <1>3, AppendedList
<1>5. Chronological(x)
  BY DEF TieInv
<1>6. x.measures = measures /\ y.measures = Append(measures, bar)
  OBVIOUS
<1>. HIDE DEF x, y
<1>7. Chronological(y)
  BY <1>2, <1>4, <1>5, <1>6 DEF Chronological
<1>8. Chronological([measures |-> measures'])
  BY <1>1, <1>7 DEF y
<1>. QED
  BY <1>1, <1>8 DEF TieInv, TiesJoinWhatWasTied

LEMMA TiesOfThePart ==
  ASSUME ReaderInv, TieInv, NEW around \in Surroundings, EndPart(around)
  PROVE  TieInv'
<1> DEFINE x == [measures |-> measures]
           y == Tied(x, ResolvedTies(x).links)
           bars == Bars(around.bars)
<1>1. /\ phase' = "read" /\ measures' = measures
      /\ \A p \in DOMAIN score'.parts :
           score'.parts[p].measures \in Handed(ResolvedTies(x), around)
  BY EndingThePart DEF EndPart
<1>2. "measures" \in DOMAIN x /\ x.measures = measures /\ FileTies' = TiesOf(x)
  BY <1>1 DEF FileTies
<1>3. Handed(ResolvedTies(x), around) = {<<>>, y.measures, bars, y.measures \o bars}
  BY DEF Handed
<1>4. IsBars(x.measures) /\ Chronological(x)
  BY <1>2 DEF ReaderInv, TieInv
<1>5. around.bars \in Seq(Nat \ {0})
  BY ReadingAssumption
<1>. HIDE DEF x
<1>6. Straight(y, TiesOf(x))
  BY <1>2, <1>4, TiesAreStraight
<1>7. Chronological(y) /\ IsList(y.measures)
  <2> DEFINE L == ResolvedTies(x).links
  <2>1. ArePairs(L)
    BY <1>4, LinksAreTies, RefIsSome DEF ArePairs
  <2>. HIDE DEF L
  <2>2. LikeBars(x.measures, Tied(x, L).measures)
    BY <1>2, <1>4, <2>1, TiedNotes
  <2>3. Chronological(Tied(x, L))
    BY <1>4, <2>2, TyingKeepsTime
  <2>4. IsBars(Tied(x, L).measures)
    BY <1>2, <1>4, TiedBars DEF x
  <2>. QED
    BY <2>3, <2>4 DEF L, IsBars
<1>. HIDE DEF y
<1>8. ASSUME NEW p \in DOMAIN score'.parts
      PROVE  Chronological(score'.parts[p]) /\ Straight(score'.parts[p], TiesOf(x))
  <2> DEFINE z == score'.parts[p]
             none == [measures |-> <<>>]
  <2>1. z.measures \in {<<>>, y.measures, bars, y.measures \o bars}
    BY <1>1, <1>3
  <2>. SUFFICES Chronological(z) /\ Straight(z, TiesOf(x))
    OBVIOUS
  <2>. HIDE DEF z
  <2>2. /\ none.measures = <<>> /\ Chronological(none) /\ \A pairs : Straight(none, pairs)
        /\ IsList(none.measures)
    BY NoBars, NoElements
  <2>. HIDE DEF none
  <2>3. CASE z.measures = <<>>
    BY <2>2, <2>3, SameBars
  <2>4. CASE z.measures = y.measures
    BY <1>6, <1>7, <2>4, SameBars
  <2>5. CASE z.measures = bars
    <3>1. bars = <<>> \o bars
      BY <1>5, BarsOfLengths, NothingBefore DEF IsBars
    <3>2. RestsFollow(none, z)
      BY <1>5, <2>2, <2>5, <3>1, BarsOfRestFollow
    <3>. QED
      BY <2>2, <3>2, FollowedByRests
  <2>6. CASE z.measures = y.measures \o bars
    <3>1. RestsFollow(y, z)
      BY <1>5, <1>7, <2>6, BarsOfRestFollow
    <3>. QED
      BY <1>6, <1>7, <3>1, FollowedByRests
  <2>. QED
    BY <2>1, <2>3, <2>4, <2>5, <2>6
<1>9. AllChronological(score')
  BY <1>8 DEF AllChronological
<1>10. Chronological([measures |-> measures'])
  BY <1>1, <1>4 DEF x
<1>. HIDE DEF bars
<1>. QED
  BY <1>1, <1>2, <1>8, <1>9, <1>10 DEF TieInv, TiesJoinWhatWasTied

LEMMA TiesAfterThePasses ==
  ASSUME ReaderInv, TieInv, Freeze
  PROVE  TieInv'
<1>1. /\ phase = "read" /\ phase' \in {"done", "structurallyInvalid"}
      /\ phase' = "done" => score' = EnforceInvariants(score)
      /\ measures' = measures /\ FileTies' = FileTies
  BY DEF Freeze, FileTies
<1>2. IsScore(0, score)
  BY <1>1 DEF ReaderInv
<1>3. AllChronological(score) /\ \A p \in DOMAIN score.parts : Straight(score.parts[p], FileTies)
  BY <1>1 DEF TieInv
<1>4. \A p \in DOMAIN EnforceInvariants(score).parts :
        Links(EnforceInvariants(score).parts[p]) \subseteq FileTies
  BY <1>2, <1>3, PassesKeepTies
<1>5. TiesJoinWhatWasTied'
  BY <1>1, <1>4 DEF TiesJoinWhatWasTied
<1>. QED
  BY <1>1, <1>5 DEF TieInv

LEMMA TieNext == ReaderInv /\ TieInv /\ [Next]_vars => TieInv'
<1>. SUFFICES ASSUME ReaderInv, TieInv, [Next]_vars PROVE TieInv'
  OBVIOUS
<1>1. ASSUME UNCHANGED <<measures, phase, score>> PROVE TieInv'
  <2>1. FileTies' = FileTies
    BY <1>1 DEF FileTies
  <2>. QED
    BY <1>1, <2>1 DEF TieInv, TiesJoinWhatWasTied
<1>2. ASSUME NEW note \in Notes, ReadNote(note) PROVE TieInv'
  BY <1>1, <1>2 DEF ReadNote, result
<1>3. ASSUME NEW a \in Attributes, ReadAttributes(a) PROVE TieInv'
  BY <1>1, <1>3 DEF ReadAttributes, result
<1>4. ASSUME NEW source \in CursorMoves, Backup(source) \/ Forward(source) PROVE TieInv'
  BY <1>1, <1>4 DEF Backup, Forward, result
<1>5. ASSUME NEW mark \in Tempos, ReadDirection(mark) PROVE TieInv'
  BY <1>1, <1>5 DEF ReadDirection, result
<1>6. CASE EndMeasure
  BY <1>6, TiesAfterAMeasure
<1>7. ASSUME NEW around \in Surroundings, EndPart(around) PROVE TieInv'
  BY <1>7, TiesOfThePart
<1>8. CASE Freeze
  BY <1>8, TiesAfterThePasses
<1>9. CASE Finished \/ UNCHANGED vars
  BY <1>1, <1>9 DEF Finished, vars
<1>. QED
  BY <1>2, <1>3, <1>4, <1>5, <1>6, <1>7, <1>8, <1>9 DEF Next

\* No repair makes a tie of its own: a link of the frozen score joins two notes that the marks
\* of the file tie, however many events the passes dropped before its ends, for every file
\* whose notes stand in one <part>; another <part>, also of the same id, holds rests.
THEOREM TiesStayWithTheirNotes == Spec => []TiesJoinWhatWasTied
<1>1. ReaderInv /\ TieInv /\ [Next]_vars => TieInv'
  BY TieNext
<1>2. TieInv => TiesJoinWhatWasTied
  BY DEF TieInv
<1>. QED
  BY TieInit, <1>1, <1>2, ReaderKeepsNumbers, PTL DEF Spec

-----------------------------------------------------------------------------
(* A clean import.  A pass that reports nothing changes nothing, so what is *)
(* to be shown of a file without repairs is about the reader alone.         *)

\* What a pass leaves of a part when it has nothing to repair: its events, with bars of rest
\* after them at most.
PartKeeps(x, y) ==
  /\ y.id = x.id /\ DOMAIN x.measures \subseteq DOMAIN y.measures
  /\ \A m \in DOMAIN x.measures :
       /\ DOMAIN y.measures[m].voices = DOMAIN x.measures[m].voices
       /\ \A v \in DOMAIN x.measures[m].voices :
            y.measures[m].voices[v].events = x.measures[m].voices[v].events
  /\ \A m \in DOMAIN y.measures \ DOMAIN x.measures :
       \A v \in DOMAIN y.measures[m].voices : \A e \in DOMAIN y.measures[m].voices[v].events :
         y.measures[m].voices[v].events[e].notes = <<>>

ScoreKeeps(s, t) ==
  /\ DOMAIN t.parts = DOMAIN s.parts
  /\ \A p \in DOMAIN s.parts : PartKeeps(s.parts[p], t.parts[p])

LEMMA PartKeepsTwice ==
  ASSUME NEW x, NEW y, NEW z, PartKeeps(x, y), PartKeeps(y, z)
  PROVE  PartKeeps(x, z)
<1>1. ASSUME NEW m \in DOMAIN z.measures \ DOMAIN x.measures,
             NEW v \in DOMAIN z.measures[m].voices, NEW e \in DOMAIN z.measures[m].voices[v].events
      PROVE  z.measures[m].voices[v].events[e].notes = <<>>
  <2>1. CASE m \in DOMAIN y.measures
    <3>1. /\ DOMAIN z.measures[m].voices = DOMAIN y.measures[m].voices
          /\ z.measures[m].voices[v].events = y.measures[m].voices[v].events
      BY <2>1 DEF PartKeeps
    <3>2. m \in DOMAIN y.measures \ DOMAIN x.measures
      BY <2>1
    <3>. QED
      BY <3>1, <3>2 DEF PartKeeps
  <2>2. CASE m \notin DOMAIN y.measures
    BY <2>2 DEF PartKeeps
  <2>. QED
    BY <2>1, <2>2
<1>2. ASSUME NEW m \in DOMAIN x.measures
      PROVE  /\ DOMAIN z.measures[m].voices = DOMAIN x.measures[m].voices
             /\ \A v \in DOMAIN x.measures[m].voices :
                  z.measures[m].voices[v].events = x.measures[m].voices[v].events
  BY DEF PartKeeps
<1>3. z.id = x.id /\ DOMAIN x.measures \subseteq DOMAIN z.measures
  BY DEF PartKeeps
<1>. QED
  BY <1>1, <1>2, <1>3 DEF PartKeeps

LEMMA KeepsTwice ==
  ASSUME NEW s, NEW t, NEW u, ScoreKeeps(s, t), ScoreKeeps(t, u)
  PROVE  ScoreKeeps(s, u)
BY PartKeepsTwice DEF ScoreKeeps

\* The passes that go voice by voice.
LEMMA ClampedKeeps ==
  ASSUME NEW s, IsScore(0, s),
         \A p \in DOMAIN s.parts : \A m \in DOMAIN s.parts[p].measures :
           \A v \in DOMAIN s.parts[p].measures[m].voices :
             Clamped(s.parts[p].measures[m], s.parts[p].measures[m].voices[v]).events
               = s.parts[p].measures[m].voices[v].events
  PROVE  ScoreKeeps(s, EachVoice(s, Clamped)) /\ EachVoice(s, Clamped).repairs = s.repairs
<1> DEFINE Revoiced(x) == [x EXCEPT !.voices = [v \in DOMAIN @ |-> Clamped(x, @[v])]]
           Parted(x) == [x EXCEPT !.measures = [m \in DOMAIN @ |-> Revoiced(@[m])]]
           t == EachVoice(s, Clamped)
<1>1. ASSUME NEW x, IsBar(0, x)
      PROVE  Revoiced(x).voices = [v \in DOMAIN x.voices |-> Clamped(x, x.voices[v])]
  BY <1>1 DEF IsBar
<1>2. t = [s EXCEPT !.parts = [p \in DOMAIN @ |-> Parted(@[p])]]
  BY DEF EachVoice
<1>. HIDE DEF Revoiced
<1>3. ASSUME NEW x, IsPart(0, x)
      PROVE  /\ Parted(x).measures = [m \in DOMAIN x.measures |-> Revoiced(x.measures[m])]
             /\ Parted(x).id = x.id
  BY <1>3 DEF IsPart
<1>. HIDE DEF Parted
<1>4. t.parts = [p \in DOMAIN s.parts |-> Parted(s.parts[p])] /\ t.repairs = s.repairs
  BY <1>2 DEF IsScore
<1>. HIDE DEF t
<1>5. ASSUME NEW p \in DOMAIN s.parts PROVE PartKeeps(s.parts[p], t.parts[p])
  <2> DEFINE x == s.parts[p]
             y == t.parts[p]
  <2>1. IsPart(0, x) /\ y = Parted(x)
    BY <1>4 DEF IsScore
  <2>2. \A m \in DOMAIN x.measures : \A v \in DOMAIN x.measures[m].voices :
          Clamped(x.measures[m], x.measures[m].voices[v]).events = x.measures[m].voices[v].events
    OBVIOUS
  <2>. HIDE DEF x, y
  <2>3. y.measures = [m \in DOMAIN x.measures |-> Revoiced(x.measures[m])] /\ y.id = x.id
    BY <1>3, <2>1
  <2>4. \A m \in DOMAIN x.measures : IsBar(0, x.measures[m])
    BY <2>1 DEF IsPart
  <2>5. \A m \in DOMAIN x.measures :
          y.measures[m].voices = [v \in DOMAIN x.measures[m].voices |->
                                    Clamped(x.measures[m], x.measures[m].voices[v])]
    BY <1>1, <2>3, <2>4
  <2>6. PartKeeps(x, y)
    BY <2>2, <2>3, <2>5, ZenonT(30) DEF PartKeeps
  <2>. QED
    BY <2>6 DEF x, y
<1>6. DOMAIN t.parts = DOMAIN s.parts
  BY <1>4
<1>. QED
  BY <1>4, <1>5, <1>6 DEF ScoreKeeps, t

LEMMA ThinnedKeeps ==
  ASSUME NEW s, IsScore(1, s),
         \A p \in DOMAIN s.parts : \A m \in DOMAIN s.parts[p].measures :
           \A v \in DOMAIN s.parts[p].measures[m].voices :
             Thinned(s.parts[p].measures[m], s.parts[p].measures[m].voices[v]).events
               = s.parts[p].measures[m].voices[v].events
  PROVE  ScoreKeeps(s, EachVoice(s, Thinned)) /\ EachVoice(s, Thinned).repairs = s.repairs
<1> DEFINE Revoiced(x) == [x EXCEPT !.voices = [v \in DOMAIN @ |-> Thinned(x, @[v])]]
           Parted(x) == [x EXCEPT !.measures = [m \in DOMAIN @ |-> Revoiced(@[m])]]
           t == EachVoice(s, Thinned)
<1>1. ASSUME NEW x, IsBar(1, x)
      PROVE  Revoiced(x).voices = [v \in DOMAIN x.voices |-> Thinned(x, x.voices[v])]
  BY <1>1 DEF IsBar
<1>2. t = [s EXCEPT !.parts = [p \in DOMAIN @ |-> Parted(@[p])]]
  BY DEF EachVoice
<1>. HIDE DEF Revoiced
<1>3. ASSUME NEW x, IsPart(1, x)
      PROVE  /\ Parted(x).measures = [m \in DOMAIN x.measures |-> Revoiced(x.measures[m])]
             /\ Parted(x).id = x.id
  BY <1>3 DEF IsPart
<1>. HIDE DEF Parted
<1>4. t.parts = [p \in DOMAIN s.parts |-> Parted(s.parts[p])] /\ t.repairs = s.repairs
  BY <1>2 DEF IsScore
<1>. HIDE DEF t
<1>5. ASSUME NEW p \in DOMAIN s.parts PROVE PartKeeps(s.parts[p], t.parts[p])
  <2> DEFINE x == s.parts[p]
             y == t.parts[p]
  <2>1. IsPart(1, x) /\ y = Parted(x)
    BY <1>4 DEF IsScore
  <2>2. \A m \in DOMAIN x.measures : \A v \in DOMAIN x.measures[m].voices :
          Thinned(x.measures[m], x.measures[m].voices[v]).events = x.measures[m].voices[v].events
    OBVIOUS
  <2>. HIDE DEF x, y
  <2>3. y.measures = [m \in DOMAIN x.measures |-> Revoiced(x.measures[m])] /\ y.id = x.id
    BY <1>3, <2>1
  <2>4. \A m \in DOMAIN x.measures : IsBar(1, x.measures[m])
    BY <2>1 DEF IsPart
  <2>5. \A m \in DOMAIN x.measures :
          y.measures[m].voices = [v \in DOMAIN x.measures[m].voices |->
                                    Thinned(x.measures[m], x.measures[m].voices[v])]
    BY <1>1, <2>3, <2>4
  <2>6. PartKeeps(x, y)
    BY <2>2, <2>3, <2>5, ZenonT(30) DEF PartKeeps
  <2>. QED
    BY <2>6 DEF x, y
<1>6. DOMAIN t.parts = DOMAIN s.parts
  BY <1>4
<1>. QED
  BY <1>4, <1>5, <1>6 DEF ScoreKeeps, t

LEMMA ArrangedKeeps ==
  ASSUME NEW s, IsScore(1, s),
         \A p \in DOMAIN s.parts : \A m \in DOMAIN s.parts[p].measures :
           \A v \in DOMAIN s.parts[p].measures[m].voices :
             Arranged(s.parts[p].measures[m], s.parts[p].measures[m].voices[v]).events
               = s.parts[p].measures[m].voices[v].events
  PROVE  ScoreKeeps(s, EachVoice(s, Arranged)) /\ EachVoice(s, Arranged).repairs = s.repairs
<1> DEFINE Revoiced(x) == [x EXCEPT !.voices = [v \in DOMAIN @ |-> Arranged(x, @[v])]]
           Parted(x) == [x EXCEPT !.measures = [m \in DOMAIN @ |-> Revoiced(@[m])]]
           t == EachVoice(s, Arranged)
<1>1. ASSUME NEW x, IsBar(1, x)
      PROVE  Revoiced(x).voices = [v \in DOMAIN x.voices |-> Arranged(x, x.voices[v])]
  BY <1>1 DEF IsBar
<1>2. t = [s EXCEPT !.parts = [p \in DOMAIN @ |-> Parted(@[p])]]
  BY DEF EachVoice
<1>. HIDE DEF Revoiced
<1>3. ASSUME NEW x, IsPart(1, x)
      PROVE  /\ Parted(x).measures = [m \in DOMAIN x.measures |-> Revoiced(x.measures[m])]
             /\ Parted(x).id = x.id
  BY <1>3 DEF IsPart
<1>. HIDE DEF Parted
<1>4. t.parts = [p \in DOMAIN s.parts |-> Parted(s.parts[p])] /\ t.repairs = s.repairs
  BY <1>2 DEF IsScore
<1>. HIDE DEF t
<1>5. ASSUME NEW p \in DOMAIN s.parts PROVE PartKeeps(s.parts[p], t.parts[p])
  <2> DEFINE x == s.parts[p]
             y == t.parts[p]
  <2>1. IsPart(1, x) /\ y = Parted(x)
    BY <1>4 DEF IsScore
  <2>2. \A m \in DOMAIN x.measures : \A v \in DOMAIN x.measures[m].voices :
          Arranged(x.measures[m], x.measures[m].voices[v]).events = x.measures[m].voices[v].events
    OBVIOUS
  <2>. HIDE DEF x, y
  <2>3. y.measures = [m \in DOMAIN x.measures |-> Revoiced(x.measures[m])] /\ y.id = x.id
    BY <1>3, <2>1
  <2>4. \A m \in DOMAIN x.measures : IsBar(1, x.measures[m])
    BY <2>1 DEF IsPart
  <2>5. \A m \in DOMAIN x.measures :
          y.measures[m].voices = [v \in DOMAIN x.measures[m].voices |->
                                    Arranged(x.measures[m], x.measures[m].voices[v])]
    BY <1>1, <2>3, <2>4
  <2>6. PartKeeps(x, y)
    BY <2>2, <2>3, <2>5, ZenonT(30) DEF PartKeeps
  <2>. QED
    BY <2>6 DEF x, y
<1>6. DOMAIN t.parts = DOMAIN s.parts
  BY <1>4
<1>. QED
  BY <1>4, <1>5, <1>6 DEF ScoreKeeps, t

LEMMA FittedKeeps ==
  ASSUME NEW s, IsScore(2, s),
         \A p \in DOMAIN s.parts : \A m \in DOMAIN s.parts[p].measures :
           \A v \in DOMAIN s.parts[p].measures[m].voices :
             Fitted(s.parts[p].measures[m], s.parts[p].measures[m].voices[v]).events
               = s.parts[p].measures[m].voices[v].events
  PROVE  ScoreKeeps(s, EachVoice(s, Fitted)) /\ EachVoice(s, Fitted).repairs = s.repairs
<1> DEFINE Revoiced(x) == [x EXCEPT !.voices = [v \in DOMAIN @ |-> Fitted(x, @[v])]]
           Parted(x) == [x EXCEPT !.measures = [m \in DOMAIN @ |-> Revoiced(@[m])]]
           t == EachVoice(s, Fitted)
<1>1. ASSUME NEW x, IsBar(2, x)
      PROVE  Revoiced(x).voices = [v \in DOMAIN x.voices |-> Fitted(x, x.voices[v])]
  BY <1>1 DEF IsBar
<1>2. t = [s EXCEPT !.parts = [p \in DOMAIN @ |-> Parted(@[p])]]
  BY DEF EachVoice
<1>. HIDE DEF Revoiced
<1>3. ASSUME NEW x, IsPart(2, x)
      PROVE  /\ Parted(x).measures = [m \in DOMAIN x.measures |-> Revoiced(x.measures[m])]
             /\ Parted(x).id = x.id
  BY <1>3 DEF IsPart
<1>. HIDE DEF Parted
<1>4. t.parts = [p \in DOMAIN s.parts |-> Parted(s.parts[p])] /\ t.repairs = s.repairs
  BY <1>2 DEF IsScore
<1>. HIDE DEF t
<1>5. ASSUME NEW p \in DOMAIN s.parts PROVE PartKeeps(s.parts[p], t.parts[p])
  <2> DEFINE x == s.parts[p]
             y == t.parts[p]
  <2>1. IsPart(2, x) /\ y = Parted(x)
    BY <1>4 DEF IsScore
  <2>2. \A m \in DOMAIN x.measures : \A v \in DOMAIN x.measures[m].voices :
          Fitted(x.measures[m], x.measures[m].voices[v]).events = x.measures[m].voices[v].events
    OBVIOUS
  <2>. HIDE DEF x, y
  <2>3. y.measures = [m \in DOMAIN x.measures |-> Revoiced(x.measures[m])] /\ y.id = x.id
    BY <1>3, <2>1
  <2>4. \A m \in DOMAIN x.measures : IsBar(2, x.measures[m])
    BY <2>1 DEF IsPart
  <2>5. \A m \in DOMAIN x.measures :
          y.measures[m].voices = [v \in DOMAIN x.measures[m].voices |->
                                    Fitted(x.measures[m], x.measures[m].voices[v])]
    BY <1>1, <2>3, <2>4
  <2>6. PartKeeps(x, y)
    BY <2>2, <2>3, <2>5, ZenonT(30) DEF PartKeeps
  <2>. QED
    BY <2>6 DEF x, y
<1>6. DOMAIN t.parts = DOMAIN s.parts
  BY <1>4
<1>. QED
  BY <1>4, <1>5, <1>6 DEF ScoreKeeps, t

\* What may be reported of a file that is read as it stands.
Harmless == {"widened", "padded"}

\* Of a list from which nothing is removed all is left.
LEMMA AllRemain ==
  ASSUME NEW s, IsList(s)
  PROVE  Remaining(s, DOMAIN s) = s
<1> DEFINE n == Len(s)
           P == DOMAIN s
           key == [i \in P |-> 0]
           order == InOrder(P, key)
<1>1. n \in Nat /\ P = 1..n /\ s = [i \in 1..n |-> s[i]]
  BY DEF IsList
<1>2. P \in SUBSET Int /\ IsFiniteSet(P) /\ Cardinality(P) = n
  BY <1>1, FS_Interval
<1>3. \A i \in P : key[i] \in Int
  OBVIOUS
<1>4. \A i \in P : key[i] = 0
  OBVIOUS
<1>5. Remaining(s, P) = Picked(s, order)
  BY DEF Remaining
<1>. HIDE DEF P, key
<1>6. /\ IsList(order) /\ Len(order) = n
      /\ \A k \in DOMAIN order : order[k] \in P
      /\ \A k, l \in DOMAIN order : k < l => Precedes(key, order[k], order[l])
  BY <1>2, <1>3, Ordered
<1>. HIDE DEF order
<1>7. DOMAIN order = 1..n
  BY <1>6 DEF IsList
<1>8. \A k, l \in 1..n : k < l => order[k] < order[l]
  <2>. SUFFICES ASSUME NEW k \in 1..n, NEW l \in 1..n, k < l PROVE order[k] < order[l]
    OBVIOUS
  <2>1. order[k] \in P /\ order[l] \in P /\ Precedes(key, order[k], order[l])
    BY <1>6, <1>7
  <2>. QED
    BY <1>4, <2>1 DEF Precedes
<1>9. \A k \in 1..n : order[k] \in 1..n
  BY <1>1, <1>6, <1>7
<1>. HIDE DEF n
<1>10. \A k \in 1..n : order[k] >= k
  <2>1. \A k \in 1..n : order[k] \in Nat \ {0}
    BY <1>1, <1>9
  <2>. QED
    BY <1>1, <1>8, <2>1, RisingPlaces
<1>11. \A k \in 1..n : order[k] <= k
  <2> DEFINE mirror == [k \in 1..n |-> n + 1 - order[n + 1 - k]]
  <2>1. \A k \in 1..n : n + 1 - k \in 1..n
    BY <1>1
  <2>2. \A k \in 1..n : mirror[k] \in Nat \ {0}
    BY <1>1, <1>9, <2>1
  <2>3. \A k, l \in 1..n : k < l => mirror[k] < mirror[l]
    <3>. SUFFICES ASSUME NEW k \in 1..n, NEW l \in 1..n, k < l PROVE mirror[k] < mirror[l]
      OBVIOUS
    <3>1. n + 1 - l < n + 1 - k
      BY <1>1
    <3>2. order[n + 1 - l] < order[n + 1 - k]
      BY <1>8, <2>1, <3>1
    <3>. QED
      BY <1>1, <1>9, <2>1, <3>2
  <2>4. \A k \in 1..n : mirror[k] = n + 1 - order[n + 1 - k]
    OBVIOUS
  <2>. HIDE DEF mirror
  <2>5. \A k \in 1..n : mirror[k] >= k
    BY <1>1, <2>2, <2>3, RisingPlaces
  <2>. SUFFICES ASSUME NEW k \in 1..n PROVE order[k] <= k
    OBVIOUS
  <2>6. n + 1 - k \in 1..n /\ n + 1 - (n + 1 - k) = k
    BY <1>1
  <2>7. mirror[n + 1 - k] >= n + 1 - k /\ mirror[n + 1 - k] = n + 1 - order[k]
    BY <2>4, <2>5, <2>6
  <2>. QED
    BY <1>1, <1>9, <2>7
<1>12. \A k \in 1..n : order[k] = k
  BY <1>1, <1>9, <1>10, <1>11
<1>13. Picked(s, order) = [k \in 1..n |-> s[k]]
  BY <1>7, <1>12 DEF Picked
<1>. QED
  BY <1>1, <1>5, <1>13 DEF P

\* What is reported, and by which pass.
LEMMA ReportedRepairs ==
  ASSUME NEW s, "repairs" \in DOMAIN s, NEW kinds
  PROVE  Reported(s, kinds).repairs = s.repairs \cup kinds
BY DEF Reported

LEMMA KeptParts ==
  ASSUME NEW s, NEW t, NEW u, ScoreKeeps(s, t), u.parts = t.parts
  PROVE  ScoreKeeps(s, u)
BY DEF ScoreKeeps

IsNegative(measure, voice) == \E e \in DOMAIN voice.events : voice.events[e].duration < 0
IsInstant(measure, voice) == \E e \in DOMAIN voice.events : ~Takes(voice.events[e])

LEMMA NothingNegative ==
  ASSUME NEW s, IsScore(0, s), ~SomeVoice(s, IsNegative)
  PROVE  ScoreKeeps(s, EachVoice(s, Clamped)) /\ EachVoice(s, Clamped).repairs = s.repairs
<1>1. ASSUME NEW p \in DOMAIN s.parts, NEW m \in DOMAIN s.parts[p].measures,
             NEW v \in DOMAIN s.parts[p].measures[m].voices
      PROVE  Clamped(s.parts[p].measures[m], s.parts[p].measures[m].voices[v]).events
               = s.parts[p].measures[m].voices[v].events
  <2> DEFINE bar == s.parts[p].measures[m]
             x == s.parts[p].measures[m].voices[v]
  <2>1. ~IsNegative(bar, x)
    BY DEF SomeVoice
  <2>2. IsVoice(0, bar.nominal, x)
    BY DEF IsScore, IsPart, IsBar
  <2>. HIDE DEF bar, x
  <2>3. \A e \in DOMAIN x.events : x.events[e].duration \in Int /\ x.events[e].duration >= 0
    <3>1. \A e \in DOMAIN x.events : x.events[e].duration \in Int
      BY <2>2 DEF IsVoice, Meets, IsEvents, IsEvent
    <3>2. \A e \in DOMAIN x.events : ~(x.events[e].duration < 0)
      BY <2>1 DEF IsNegative
    <3>. QED
      BY <3>1, <3>2
  <2>4. \A e \in DOMAIN x.events : NonNegative(x.events[e]) = x.events[e]
    BY <2>3 DEF NonNegative
  <2>5. x.events = [e \in DOMAIN x.events |-> x.events[e]]
    BY <2>2 DEF IsVoice, Meets, IsEvents, IsList
  <2>6. Clamped(bar, x).events = [e \in DOMAIN x.events |-> NonNegative(x.events[e])]
    BY <2>2 DEF Clamped, IsVoice
  <2>7. Clamped(bar, x).events = x.events
    BY <2>4, <2>5, <2>6
  <2>. QED
    BY <2>7 DEF bar, x
<1>. QED
  BY <1>1, ClampedKeeps

LEMMA NothingInstant ==
  ASSUME NEW s, IsScore(1, s), ~SomeVoice(s, IsInstant)
  PROVE  ScoreKeeps(s, EachVoice(s, Thinned)) /\ EachVoice(s, Thinned).repairs = s.repairs
<1>1. ASSUME NEW p \in DOMAIN s.parts, NEW m \in DOMAIN s.parts[p].measures,
             NEW v \in DOMAIN s.parts[p].measures[m].voices
      PROVE  Thinned(s.parts[p].measures[m], s.parts[p].measures[m].voices[v]).events
               = s.parts[p].measures[m].voices[v].events
  <2> DEFINE bar == s.parts[p].measures[m]
             x == s.parts[p].measures[m].voices[v]
             P == {e \in DOMAIN x.events : Takes(x.events[e])}
  <2>1. ~IsInstant(bar, x)
    BY DEF SomeVoice
  <2>2. IsVoice(1, bar.nominal, x)
    BY DEF IsScore, IsPart, IsBar
  <2>. HIDE DEF bar, x
  <2>3. P = DOMAIN x.events
    BY <2>1 DEF IsInstant
  <2>4. Thinned(bar, x).events = Remaining(x.events, P)
    BY <2>2 DEF Thinned, IsVoice
  <2>. HIDE DEF P
  <2>5. Thinned(bar, x).events = x.events
    BY <2>2, <2>3, <2>4, AllRemain DEF IsVoice, Meets, IsEvents
  <2>. QED
    BY <2>5 DEF bar, x
<1>. QED
  BY <1>1, ThinnedKeeps

LEMMA DurationsKeep ==
  ASSUME NEW s, IsScore(0, s), NonNegativeDurations(s).repairs \subseteq Harmless
  PROVE  ScoreKeeps(s, NonNegativeDurations(s)) /\ s.repairs \subseteq Harmless
<1> DEFINE c == EachVoice(s, Clamped)
           t == EachVoice(c, Thinned)
           kinds == When(SomeVoice(s, IsNegative), "negative duration")
                      \cup When(SomeVoice(c, IsInstant), "dropped zero length")
<1>1. NonNegativeDurations(s) = Reported(t, kinds)
  BY DEF NonNegativeDurations, Clamped, Thinned, IsNegative, IsInstant
<1>2. IsScore(1, c)
  BY ClampedScore
<1>. HIDE DEF c
<1>3. IsScore(1, t)
  BY <1>2, ThinnedScore
<1>. HIDE DEF t
<1>4. t.repairs \cup kinds \subseteq Harmless
  <2>. HIDE DEF kinds
  <2>. QED
    BY <1>1, <1>3, ReportedRepairs DEF IsScore
<1>5. ~SomeVoice(s, IsNegative) /\ ~SomeVoice(c, IsInstant)
  BY <1>4 DEF When, Harmless
<1>6. ScoreKeeps(s, c) /\ c.repairs = s.repairs
  BY <1>5, NothingNegative DEF c
<1>7. ScoreKeeps(c, t) /\ t.repairs = c.repairs
  BY <1>2, <1>5, NothingInstant DEF t
<1>. HIDE DEF kinds
<1>8. NonNegativeDurations(s).parts = t.parts
  BY <1>1, <1>3, ReportedScore
<1>. QED
  BY <1>4, <1>6, <1>7, <1>8, KeepsTwice, KeptParts

IsUnordered(measure, voice) == InTimeOrder(voice.events) # voice.events
IsOverlapping(measure, voice) ==
  \E e \in DOMAIN voice.events : Overlaps(InTimeOrder(voice.events), e)

LEMMA OrderingKeeps ==
  ASSUME NEW s, IsScore(1, s), VoiceOrdering(s).repairs \subseteq Harmless
  PROVE  ScoreKeeps(s, VoiceOrdering(s)) /\ s.repairs \subseteq Harmless
<1> DEFINE t == EachVoice(s, Arranged)
           kinds == When(SomeVoice(s, IsUnordered), "reordered")
                      \cup When(SomeVoice(s, IsOverlapping), "shortened overlap")
<1>1. VoiceOrdering(s) = Reported(t, kinds)
  BY DEF VoiceOrdering, Arranged, IsUnordered, IsOverlapping
<1>2. IsScore(2, t)
  BY ArrangedScore
<1>. HIDE DEF t
<1>3. t.repairs \cup kinds \subseteq Harmless
  <2>. HIDE DEF kinds
  <2>. QED
    BY <1>1, <1>2, ReportedRepairs DEF IsScore
<1>4. ~SomeVoice(s, IsUnordered) /\ ~SomeVoice(s, IsOverlapping)
  BY <1>3 DEF When, Harmless
<1>5. ASSUME NEW p \in DOMAIN s.parts, NEW m \in DOMAIN s.parts[p].measures,
             NEW v \in DOMAIN s.parts[p].measures[m].voices
      PROVE  Arranged(s.parts[p].measures[m], s.parts[p].measures[m].voices[v]).events
               = s.parts[p].measures[m].voices[v].events
  <2> DEFINE bar == s.parts[p].measures[m]
             x == s.parts[p].measures[m].voices[v]
  <2>1. ~IsUnordered(bar, x) /\ ~IsOverlapping(bar, x)
    BY <1>4 DEF SomeVoice
  <2>2. IsVoice(1, bar.nominal, x)
    BY DEF IsScore, IsPart, IsBar
  <2>. HIDE DEF bar, x
  <2>3. x.events = [e \in DOMAIN x.events |-> x.events[e]]
    BY <2>2 DEF IsVoice, Meets, IsEvents, IsList
  <2>4. InTimeOrder(x.events) = x.events /\ \A e \in DOMAIN x.events : ~Overlaps(x.events, e)
    BY <2>1 DEF IsUnordered, IsOverlapping
  <2>5. Arranged(bar, x).events = Shortened(x.events)
    BY <2>2, <2>4 DEF Arranged, IsVoice
  <2>6. Shortened(x.events) = [e \in DOMAIN x.events |-> x.events[e]]
    BY <2>4 DEF Shortened
  <2>7. Arranged(bar, x).events = x.events
    BY <2>3, <2>5, <2>6
  <2>. QED
    BY <2>7 DEF bar, x
<1>6. ScoreKeeps(s, t) /\ t.repairs = s.repairs
  BY <1>5, ArrangedKeeps DEF t
<1>. HIDE DEF kinds
<1>7. VoiceOrdering(s).parts = t.parts
  BY <1>1, <1>2, ReportedScore
<1>. QED
  BY <1>3, <1>6, <1>7, KeptParts

IsBeyond(measure, voice) == Fitted(measure, voice) # voice

LEMMA BoundsKeep ==
  ASSUME NEW s, IsScore(2, s), MeasureBounds(s).repairs \subseteq Harmless
  PROVE  ScoreKeeps(s, MeasureBounds(s)) /\ s.repairs \subseteq Harmless
<1> DEFINE t == EachVoice(s, Fitted)
           kinds == When(SomeVoice(s, IsBeyond), "cut at the bar line")
<1>1. MeasureBounds(s) = Reported(t, kinds)
  BY DEF MeasureBounds, Fitted, Beginning, IsBeyond
<1>2. IsScore(3, t)
  BY FittedScore
<1>. HIDE DEF t
<1>3. t.repairs \cup kinds \subseteq Harmless
  <2>. HIDE DEF kinds
  <2>. QED
    BY <1>1, <1>2, ReportedRepairs DEF IsScore
<1>4. ~SomeVoice(s, IsBeyond)
  BY <1>3 DEF When, Harmless
<1>5. \A p \in DOMAIN s.parts : \A m \in DOMAIN s.parts[p].measures :
        \A v \in DOMAIN s.parts[p].measures[m].voices :
          Fitted(s.parts[p].measures[m], s.parts[p].measures[m].voices[v])
            = s.parts[p].measures[m].voices[v]
  BY <1>4 DEF SomeVoice, IsBeyond
<1>6. ScoreKeeps(s, t) /\ t.repairs = s.repairs
  BY <1>5, FittedKeeps DEF t
<1>. HIDE DEF kinds
<1>7. MeasureBounds(s).parts = t.parts
  BY <1>1, <1>2, ReportedScore
<1>. QED
  BY <1>3, <1>6, <1>7, KeptParts

LEMMA AlignmentKeeps ==
  ASSUME NEW s, IsScore(3, s)
  PROVE  ScoreKeeps(s, MeasureAlignment(s)) /\ s.repairs \subseteq MeasureAlignment(s).repairs
<1> DEFINE longest == Max({0} \cup {Len(s.parts[p].measures) : p \in DOMAIN s.parts})
           Starts(f) == f = [m \in 1..longest |->
                               IF m = 1 THEN 0 ELSE f[m - 1] + LongestClaim(s, m - 1)]
           starts == CHOOSE f : Starts(f)
           Bar(part, m) == IF m \in DOMAIN part.measures THEN part.measures[m]
                           ELSE PaddingBar(LongestClaim(s, m))
           Placed(part, m) == [Bar(part, m) EXCEPT !.start = starts[m],
                                                   !.nominal = LongestClaim(s, m)]
           Aligned(part) == [part EXCEPT !.measures = [m \in 1..longest |-> Placed(part, m)]]
           t == [s EXCEPT !.parts = [p \in DOMAIN @ |-> Aligned(@[p])]]
<1>1. PICK kinds : MeasureAlignment(s) = Reported(t, kinds)
  BY DEF MeasureAlignment
<1>2. \A p \in DOMAIN s.parts : Len(s.parts[p].measures) <= longest /\ longest \in Nat
  <2>1. 3 \in 0..3
    OBVIOUS
  <2>. QED
    BY <2>1, LongestPart DEF Lengths
<1>. HIDE DEF longest, starts
<1>3. ASSUME NEW x, IsPart(3, x), NEW m
      PROVE  Placed(x, m).voices = Bar(x, m).voices
  <2> DEFINE b == Bar(x, m)
  <2>1. "voices" \in DOMAIN b
    <3>1. CASE m \in DOMAIN x.measures
      BY <1>3, <3>1 DEF IsPart, IsBar
    <3>2. CASE m \notin DOMAIN x.measures
      BY <3>2 DEF PaddingBar
    <3>. QED
      BY <3>1, <3>2
  <2>. HIDE DEF b
  <2>2. Placed(x, m) = [b EXCEPT !.start = starts[m], !.nominal = LongestClaim(s, m)]
    BY DEF b
  <2>3. Placed(x, m).voices = b.voices
    BY <2>1, <2>2
  <2>. QED
    BY <2>3 DEF b
<1>. HIDE DEF Placed
<1>4. ASSUME NEW x, IsPart(3, x), Len(x.measures) <= longest, longest \in Nat
      PROVE  PartKeeps(x, Aligned(x))
  <2> DEFINE y == Aligned(x)
  <2>1. y.measures = [m \in 1..longest |-> Placed(x, m)] /\ y.id = x.id
    BY <1>4 DEF IsPart
  <2>. HIDE DEF y
  <2>2. DOMAIN x.measures \subseteq DOMAIN y.measures
    <3>1. DOMAIN x.measures = 1..Len(x.measures) /\ Len(x.measures) \in Nat
      BY <1>4 DEF IsPart, IsList
    <3>. QED
      BY <1>4, <2>1, <3>1
  <2>3. \A m \in DOMAIN y.measures : y.measures[m].voices = Bar(x, m).voices
    BY <1>3, <1>4, <2>1
  <2>4. \A m \in DOMAIN x.measures : y.measures[m].voices = x.measures[m].voices
    BY <2>2, <2>3
  <2>5. \A m \in DOMAIN y.measures \ DOMAIN x.measures :
          y.measures[m].voices = PaddingBar(LongestClaim(s, m)).voices
    BY <2>3
  <2>6. \A m \in DOMAIN y.measures \ DOMAIN x.measures :
          \A v \in DOMAIN y.measures[m].voices :
            \A e \in DOMAIN y.measures[m].voices[v].events :
              y.measures[m].voices[v].events[e].notes = <<>>
    BY <2>5, SilentPadding
  <2>7. PartKeeps(x, y)
    BY <2>1, <2>2, <2>4, <2>6 DEF PartKeeps
  <2>. QED
    BY <2>7 DEF y
<1>. HIDE DEF Aligned
<1>5. /\ DOMAIN t = DOMAIN s /\ t.parts = [p \in DOMAIN s.parts |-> Aligned(s.parts[p])]
      /\ t.repairs = s.repairs
  BY DEF IsScore
<1>. HIDE DEF t
<1>6. Reported(t, kinds).parts = t.parts /\ Reported(t, kinds).repairs = t.repairs \cup kinds
  BY <1>5 DEF Reported, IsScore
<1>7. ScoreKeeps(s, t)
  BY <1>2, <1>4, <1>5 DEF ScoreKeeps, IsScore
<1>. QED
  BY <1>1, <1>5, <1>6, <1>7, KeptParts

LEMMA NamingKeeps ==
  ASSUME NEW s, IsScore(3, s), UniquePartIds(s).repairs \subseteq Harmless
  PROVE  ScoreKeeps(s, UniquePartIds(s)) /\ s.repairs \subseteq Harmless
<1> DEFINE Names(f) == f = [p \in DOMAIN s.parts |-> IdOf(s, p, {f[q] : q \in 1..(p - 1)})]
           ids == CHOOSE f : Names(f)
           t == [s EXCEPT !.parts = [p \in DOMAIN @ |-> [@[p] EXCEPT !.id = ids[p]]]]
           kinds == {"renamed part" : p \in {q \in DOMAIN ids : ids[q] # s.parts[q].id}}
<1>1. UniquePartIds(s) = Reported(t, kinds)
  BY DEF UniquePartIds, IdOf
<1>2. DOMAIN ids = DOMAIN s.parts
  <2>1. DOMAIN s.parts = 1..Len(s.parts) /\ Len(s.parts) \in Nat
    BY DEF IsScore, IsList
  <2>2. PICK f : Renames(s, Len(s.parts), f)
    BY <2>1, IdsExist
  <2>3. Names(f)
    BY <2>1, <2>2 DEF Renames
  <2>4. Names(ids)
    BY <2>3
  <2>. HIDE DEF ids
  <2>. QED
    BY <2>4
<1>. HIDE DEF ids
<1>3. /\ DOMAIN t = DOMAIN s /\ t.repairs = s.repairs
      /\ t.parts = [p \in DOMAIN s.parts |-> [s.parts[p] EXCEPT !.id = ids[p]]]
  BY DEF IsScore
<1>. HIDE DEF t
<1>4. Reported(t, kinds).parts = t.parts /\ Reported(t, kinds).repairs = t.repairs \cup kinds
  BY <1>3 DEF Reported, IsScore
<1>5. \A p \in DOMAIN s.parts : ids[p] = s.parts[p].id
  <2>1. "renamed part" \notin kinds
    <3>. HIDE DEF kinds
    <3>1. kinds \subseteq Harmless
      BY <1>1, <1>4
    <3>2. "renamed part" \notin Harmless
      BY Zenon DEF Harmless
    <3>. QED
      BY <3>1, <3>2, Zenon
  <2>. QED
    BY <1>2, <2>1
<1>6. ASSUME NEW p \in DOMAIN s.parts PROVE PartKeeps(s.parts[p], t.parts[p])
  <2> DEFINE x == s.parts[p]
             y == t.parts[p]
  <2>1. IsPart(3, x) /\ y = [x EXCEPT !.id = x.id]
    BY <1>3, <1>5 DEF IsScore
  <2>. HIDE DEF x, y
  <2>2. y.id = x.id /\ y.measures = x.measures
    BY <2>1 DEF IsPart
  <2>3. PartKeeps(x, y)
    BY <2>2 DEF PartKeeps
  <2>. QED
    BY <2>3 DEF x, y
<1>7. ScoreKeeps(s, t)
  BY <1>3, <1>6 DEF ScoreKeeps
<1>. HIDE DEF kinds
<1>. QED
  BY <1>1, <1>3, <1>4, <1>7, KeptParts

LEMMA LinkingKeeps ==
  ASSUME NEW s, IsScore(3, s), TieIntegrity(s).repairs \subseteq Harmless
  PROVE  ScoreKeeps(s, TieIntegrity(s)) /\ s.repairs \subseteq Harmless
<1> DEFINE t == [s EXCEPT !.parts = [p \in DOMAIN @ |-> TiesKept(@[p])]]
           kinds == {"dropped tie" : p \in {q \in DOMAIN s.parts :
                                              TiesKept(s.parts[q]) # s.parts[q]}}
<1>1. TieIntegrity(s) = Reported(t, kinds)
  BY DEF TieIntegrity
<1>2. /\ DOMAIN t = DOMAIN s /\ t.repairs = s.repairs
      /\ t.parts = [p \in DOMAIN s.parts |-> TiesKept(s.parts[p])]
  BY DEF IsScore
<1>. HIDE DEF t
<1>3. Reported(t, kinds).parts = t.parts /\ Reported(t, kinds).repairs = t.repairs \cup kinds
  BY <1>2 DEF Reported, IsScore
<1>4. \A p \in DOMAIN s.parts : TiesKept(s.parts[p]) = s.parts[p]
  <2>1. "dropped tie" \notin kinds
    <3>. HIDE DEF kinds
    <3>1. kinds \subseteq Harmless
      BY <1>1, <1>3
    <3>2. "dropped tie" \notin Harmless
      BY Zenon DEF Harmless
    <3>. QED
      BY <3>1, <3>2, Zenon
  <2>. QED
    BY <2>1
<1>5. \A x : PartKeeps(x, x)
  BY DEF PartKeeps
<1>6. ScoreKeeps(s, t)
  BY <1>2, <1>4, <1>5 DEF ScoreKeeps
<1>. HIDE DEF kinds
<1>. QED
  BY <1>1, <1>2, <1>3, <1>6, KeptParts

\* When nothing but padding is reported the passes leave every event where it was.
LEMMA PassesKeep ==
  ASSUME NEW s, IsScore(0, s), EnforceInvariants(s).repairs \subseteq Harmless
  PROVE  ScoreKeeps(s, EnforceInvariants(s)) /\ s.repairs \subseteq Harmless
<1> DEFINE a == NonNegativeDurations(s)
           b == VoiceOrdering(a)
           c == MeasureBounds(b)
           d == MeasureAlignment(c)
           e == UniquePartIds(d)
<1>1. IsScore(1, a)
  BY DurationsPass
<1>2. IsScore(2, b)
  BY <1>1, OrderingPass
<1>3. IsScore(3, c)
  BY <1>2, BoundsPass
<1>4. IsScore(3, d) /\ InStep(d)
  BY <1>3, AlignmentPass
<1>5. IsScore(3, e)
  BY <1>4, NamingPass
<1>6. EnforceInvariants(s) = TieIntegrity(e)
  BY DEF EnforceInvariants
<1>7. ScoreKeeps(e, TieIntegrity(e)) /\ e.repairs \subseteq Harmless
  <2>. HIDE DEF e
  <2>. QED
    BY <1>5, <1>6, LinkingKeeps
<1>8. ScoreKeeps(d, e) /\ d.repairs \subseteq Harmless
  <2>. HIDE DEF d
  <2>. QED
    BY <1>4, <1>7, NamingKeeps
<1>9. ScoreKeeps(c, d) /\ c.repairs \subseteq Harmless
  <2>. HIDE DEF c
  <2>. QED
    BY <1>3, <1>8, AlignmentKeeps
<1>10. ScoreKeeps(b, c) /\ b.repairs \subseteq Harmless
  <2>. HIDE DEF b
  <2>. QED
    BY <1>2, <1>9, BoundsKeep
<1>11. ScoreKeeps(a, b) /\ a.repairs \subseteq Harmless
  <2>. HIDE DEF a
  <2>. QED
    BY <1>1, <1>10, OrderingKeeps
<1>12. ScoreKeeps(s, a) /\ s.repairs \subseteq Harmless
  BY <1>11, DurationsKeep
<1>. HIDE DEF a, b, c, d, e
<1>. QED
  BY <1>6, <1>7, <1>8, <1>9, <1>10, <1>11, <1>12, KeepsTwice

\* The notes and links of a part that is kept.
LEMMA KeptNotes ==
  ASSUME NEW x, NEW y, PartKeeps(x, y)
  PROVE  Refs(y) = Refs(x) /\ \A ref \in Refs(x) : NoteAt(y, ref) = NoteAt(x, ref)
<1>1. ASSUME NEW ref \in Refs(x) PROVE ref \in Refs(y) /\ NoteAt(y, ref) = NoteAt(x, ref)
  <2>a. PICK m \in DOMAIN x.measures : \E v \in DOMAIN x.measures[m].voices :
          \E e \in DOMAIN x.measures[m].voices[v].events :
            \E n \in DOMAIN x.measures[m].voices[v].events[e].notes : ref = <<m, v, e, n>>
    BY PlaceOfRef
  <2>b. PICK v \in DOMAIN x.measures[m].voices : \E e \in DOMAIN x.measures[m].voices[v].events :
          \E n \in DOMAIN x.measures[m].voices[v].events[e].notes : ref = <<m, v, e, n>>
    BY <2>a
  <2>c. PICK e \in DOMAIN x.measures[m].voices[v].events :
          \E n \in DOMAIN x.measures[m].voices[v].events[e].notes : ref = <<m, v, e, n>>
    BY <2>b
  <2>1. PICK n \in DOMAIN x.measures[m].voices[v].events[e].notes : ref = <<m, v, e, n>>
    BY <2>c
  <2>2. /\ m \in DOMAIN y.measures /\ v \in DOMAIN y.measures[m].voices
        /\ y.measures[m].voices[v].events = x.measures[m].voices[v].events
    BY DEF PartKeeps
  <2>. QED
    BY <2>1, <2>2, RefOfPlace DEF NoteAt
<1>2. ASSUME NEW ref \in Refs(y) PROVE ref \in Refs(x)
  <2>a. PICK m \in DOMAIN y.measures : \E v \in DOMAIN y.measures[m].voices :
          \E e \in DOMAIN y.measures[m].voices[v].events :
            \E n \in DOMAIN y.measures[m].voices[v].events[e].notes : ref = <<m, v, e, n>>
    BY PlaceOfRef
  <2>b. PICK v \in DOMAIN y.measures[m].voices : \E e \in DOMAIN y.measures[m].voices[v].events :
          \E n \in DOMAIN y.measures[m].voices[v].events[e].notes : ref = <<m, v, e, n>>
    BY <2>a
  <2>c. PICK e \in DOMAIN y.measures[m].voices[v].events :
          \E n \in DOMAIN y.measures[m].voices[v].events[e].notes : ref = <<m, v, e, n>>
    BY <2>b
  <2>1. PICK n \in DOMAIN y.measures[m].voices[v].events[e].notes : ref = <<m, v, e, n>>
    BY <2>c
  <2>2. m \in DOMAIN x.measures
    <3>1. y.measures[m].voices[v].events[e].notes # <<>>
      BY NoElements
    <3>. QED
      BY <3>1 DEF PartKeeps
  <2>3. /\ v \in DOMAIN x.measures[m].voices
        /\ y.measures[m].voices[v].events = x.measures[m].voices[v].events
    BY <2>2 DEF PartKeeps
  <2>. QED
    BY <2>1, <2>2, <2>3, RefOfPlace
<1>. QED
  BY <1>1, <1>2

LEMMA KeptLinks ==
  ASSUME NEW x, NEW y, PartKeeps(x, y),
         \A ref \in Refs(y) : /\ NoteAt(y, ref).to # NoRef => Holds(y, ref, TRUE)
                              /\ NoteAt(y, ref).from # NoRef => Holds(y, ref, FALSE)
  PROVE  Links(y) = Links(x)
<1>1. Refs(y) = Refs(x) /\ \A ref \in Refs(x) : NoteAt(y, ref) = NoteAt(x, ref)
  BY KeptNotes
<1>2. \A ref \in Refs(x) : /\ NoteAt(y, ref).to # NoRef => NoteAt(y, ref).to \in Refs(x)
                           /\ NoteAt(y, ref).from # NoRef => NoteAt(y, ref).from \in Refs(x)
  BY <1>1 DEF Holds, Mirrored, Resolves
<1>. QED
  BY <1>1, <1>2 DEF Links

\* Quotient of a multiple, and rounding it.
LEMMA QuotientOfMultiple ==
  ASSUME NEW d \in Nat \ {0}, NEW q \in Int, NEW r \in Int, 0 <= r, r < d
  PROVE  (d * q + r) \div d = q
<1> DEFINE a == d * q + r
           k == a \div d
           m == a % d
<1>1. a \in Int /\ k \in Int /\ m \in Int
  OBVIOUS
<1>2. a = d * k + m /\ 0 <= m /\ m < d
  BY <1>1
<1>. QED
  BY <1>1, <1>2

LEMMA ExactIsRounded ==
  ASSUME state.divisions \in Nat \ {0}, NEW source \in Int, Inexact(source) = {}
  PROVE  Rounded(source) \in Int /\ Rounded(source) * Fraction = Exact(source)
<1> DEFINE d == state.divisions
           a == source * TicksPerQuarter
           q == a \div d
           Half(n) == (2 * n + d) \div (2 * d)
<1>1. d \in Nat \ {0} /\ a \in Int /\ Fraction \in Nat
  <2>1. TicksPerQuarter \in Nat \ {0} /\ Fraction \in Nat
    BY ReadingAssumption
  <2>. QED
    BY <2>1
<1>2. a % d = 0
  BY DEF Inexact, When
<1>3. Rounded(source) = IF a >= 0 THEN Half(a) ELSE -Half(-a)
  BY DEF Rounded
<1>4. Exact(source) = (a * Fraction) \div d
  BY DEF Exact
<1>. HIDE DEF a, d
<1>5. q \in Int /\ a = d * q
  BY <1>1, <1>2
<1>. HIDE DEF q
<1>6. ASSUME NEW n \in Int PROVE Half(d * n) = n
  <2>1. 2 * d \in Nat \ {0} /\ d \in Int /\ 0 <= d /\ d < 2 * d
    BY <1>1
  <2>2. ((2 * d) * n + d) \div (2 * d) = n
    BY <2>1, QuotientOfMultiple
  <2>3. 2 * (d * n) = (2 * d) * n
    BY <1>1
  <2>. QED
    BY <2>2, <2>3
<1>. HIDE DEF Half
<1>7. Half(a) = q /\ Half(-a) = -q
  <2>1. -a = d * (-q) /\ -q \in Int
    BY <1>1, <1>5
  <2>. QED
    BY <1>5, <1>6, <2>1
<1>8. Rounded(source) = q
  BY <1>1, <1>3, <1>5, <1>7
<1>9. (a * Fraction) \div d = q * Fraction
  <2>1. q * Fraction \in Int /\ 0 \in Int /\ 0 <= 0 /\ 0 < d
    BY <1>1, <1>5
  <2>2. (d * (q * Fraction) + 0) \div d = q * Fraction
    BY <1>1, <2>1, QuotientOfMultiple
  <2>3. a * Fraction = d * (q * Fraction) + 0
    BY <1>1, <1>5
  <2>. QED
    BY <2>2, <2>3
<1>. QED
  BY <1>4, <1>5, <1>8, <1>9

-----------------------------------------------------------------------------
(* The list of parts when nothing of it is reported.                        *)

LEMMA NotHarmless ==
  ASSUME NEW kinds, kinds \subseteq Harmless
  PROVE  /\ "score-part" \notin kinds /\ "part" \notin kinds
         /\ "rounded duration" \notin kinds /\ "backup before the bar" \notin kinds
<1>1. \A kind \in kinds : kind \in Harmless
  OBVIOUS
<1>2. /\ "score-part" \notin Harmless /\ "part" \notin Harmless
      /\ "rounded duration" \notin Harmless /\ "backup before the bar" \notin Harmless
  BY Zenon DEF Harmless
<1>. QED
  BY <1>1, <1>2, Zenon

LEMMA AppendedPlaces ==
  ASSUME NEW s, IsList(s), NEW x
  PROVE  /\ DOMAIN Append(s, x) = 1..(Len(s) + 1) /\ Len(s) \in Nat /\ DOMAIN s = 1..Len(s)
         /\ \A i \in DOMAIN s : Append(s, x)[i] = s[i]
         /\ Append(s, x)[Len(s) + 1] = x
<1> DEFINE S == {s[i] : i \in DOMAIN s} \cup {x}
<1>1. s \in Seq(S) /\ x \in S
  <2>1. s \in Seq({s[i] : i \in DOMAIN s})
    BY ListIsASeq
  <2>2. {s[i] : i \in DOMAIN s} \subseteq S /\ x \in S
    OBVIOUS
  <2>. HIDE DEF S
  <2>. QED
    BY <2>1, <2>2, SeqMonotonic
<1>. HIDE DEF S
<1>2. /\ Append(s, x) \in Seq(S)
      /\ Len(Append(s, x)) = Len(s) + 1
      /\ \A i \in 1..Len(s) : Append(s, x)[i] = s[i]
      /\ Append(s, x)[Len(s) + 1] = x
  BY <1>1, LenProperties
<1>3. DOMAIN Append(s, x) = 1..(Len(s) + 1) /\ Len(s) \in Nat /\ DOMAIN s = 1..Len(s)
  BY <1>1, <1>2, LenProperties
<1>. QED
  BY <1>2, <1>3

\* Of a list with nothing to report every identifier points at the part that has it.
Pointing(list) ==
  /\ IsList(list.parts)
  /\ \A id \in DOMAIN list.index : /\ list.index[id] \in DOMAIN list.parts
                                   /\ "measures" \in DOMAIN list.parts[list.index[id]]
                                   /\ "id" \in DOMAIN list.parts[list.index[id]]
                                   /\ list.parts[list.index[id]].id = id

LEMMA DeclaringPoints ==
  ASSUME NEW acc, Pointing(acc), NEW id, Declared(acc, id).repairs \subseteq Harmless
  PROVE  Pointing(Declared(acc, id)) /\ acc.repairs \subseteq Harmless
<1> DEFINE renamed == id = <<>> \/ id \in DOMAIN acc.index
           name == IF renamed THEN GeneratedId(acc.serial + (IF renamed THEN 1 ELSE 0)) ELSE id
           x == [id |-> name, measures |-> <<>>]
           n == Len(acc.parts) + 1
           y == Declared(acc, id)
<1>1. /\ y.parts = Append(acc.parts, x)
      /\ y.index = [i \in DOMAIN acc.index \cup {id} |->
                      IF i \in DOMAIN acc.index THEN acc.index[i] ELSE n]
      /\ y.repairs = acc.repairs \cup When(renamed, "score-part")
  BY DEF Declared
<1>2. ~renamed
  <2>1. "score-part" \notin y.repairs
    BY NotHarmless
  <2>. HIDE DEF y, renamed
  <2>. QED
    BY <1>1, <2>1, Zenon DEF When
<1>3. name = id
  BY <1>2
<1>4. x.id = id /\ "measures" \in DOMAIN x /\ "id" \in DOMAIN x
  BY <1>3
<1>5. acc.repairs \subseteq Harmless
  <2>1. y.repairs \subseteq Harmless
    OBVIOUS
  <2>. HIDE DEF y, renamed, Harmless
  <2>. QED
    BY <1>1, <2>1
<1>. HIDE DEF x, y, renamed, n
<1>6. /\ DOMAIN y.parts = 1..(Len(acc.parts) + 1)
      /\ Len(acc.parts) \in Nat /\ DOMAIN acc.parts = 1..Len(acc.parts)
      /\ \A i \in DOMAIN acc.parts : y.parts[i] = acc.parts[i]
      /\ y.parts[n] = x
  BY <1>1, AppendedPlaces DEF Pointing, n
<1>7. IsList(y.parts)
  BY <1>1, AppendedList DEF Pointing
<1>8. ASSUME NEW i \in DOMAIN y.index
      PROVE  /\ y.index[i] \in DOMAIN y.parts
             /\ "measures" \in DOMAIN y.parts[y.index[i]]
             /\ "id" \in DOMAIN y.parts[y.index[i]]
             /\ y.parts[y.index[i]].id = i
  <2>1. CASE i \in DOMAIN acc.index
    <3>1. y.index[i] = acc.index[i]
      BY <1>1, <2>1
    <3>2. acc.index[i] \in DOMAIN acc.parts
      BY <2>1 DEF Pointing
    <3>3. y.parts[acc.index[i]] = acc.parts[acc.index[i]]
      BY <1>6, <3>2
    <3>4. acc.index[i] \in DOMAIN y.parts
      BY <1>6, <3>2
    <3>. QED
      BY <2>1, <3>1, <3>3, <3>4 DEF Pointing
  <2>2. CASE i \notin DOMAIN acc.index
    <3>1. i = id /\ y.index[i] = n
      BY <1>1, <2>2
    <3>2. n \in DOMAIN y.parts
      BY <1>6 DEF n
    <3>. QED
      BY <1>4, <1>6, <3>1, <3>2
  <2>. QED
    BY <2>1, <2>2
<1>9. Pointing(y)
  BY <1>7, <1>8 DEF Pointing
<1>. QED
  BY <1>5, <1>9 DEF y

LEMMA PartListPoints ==
  ASSUME NEW ids, IsList(ids), PartList(ids).repairs \subseteq Harmless
  PROVE  Pointing(PartList(ids))
<1> DEFINE n == Len(ids)
           Lists(f) == f = [i \in 0..n |-> IF i = 0 THEN NoParts ELSE Declared(f[i - 1], ids[i])]
           upTo == CHOOSE f : Lists(f)
<1>1. n \in Nat
  BY DEF IsList
<1>2. PartList(ids) = upTo[n]
  BY DEF PartList, Declared, NoParts
<1>3. Declares(ids, n, upTo)
  <2>1. PICK f : Declares(ids, n, f)
    BY <1>1, DeclarationsExist
  <2>2. Lists(f)
    BY <2>1 DEF Declares
  <2>3. Lists(upTo)
    BY <2>2
  <2>. QED
    BY <2>3 DEF Declares
<1>. HIDE DEF upTo, n
<1> DEFINE S == {i \in Nat : i <= n /\ upTo[i].repairs \subseteq Harmless => Pointing(upTo[i])}
<1>4. upTo[0] = NoParts /\ \A i \in 0..n : i # 0 => upTo[i] = Declared(upTo[i - 1], ids[i])
  BY <1>1, <1>3 DEF Declares
<1>5. 0 \in S
  BY <1>4, NoElements DEF Pointing, NoParts
<1>6. ASSUME NEW i \in Nat, i \in S PROVE i + 1 \in S
  <2>. SUFFICES ASSUME i + 1 <= n, upTo[i + 1].repairs \subseteq Harmless
                PROVE  Pointing(upTo[i + 1])
    OBVIOUS
  <2>1. i + 1 \in 0..n /\ i + 1 # 0 /\ (i + 1) - 1 = i /\ i <= n
    BY <1>1
  <2>2. upTo[i + 1] = Declared(upTo[i], ids[i + 1])
    BY <1>4, <2>1
  <2>3. upTo[i].repairs \subseteq Harmless
    <3>1. Declared(upTo[i], ids[i + 1]).repairs
            = upTo[i].repairs \cup When(ids[i + 1] = <<>> \/ ids[i + 1] \in DOMAIN upTo[i].index,
                                        "score-part")
      BY DEF Declared
    <3>. QED
      BY <2>2, <3>1
  <2>4. Pointing(upTo[i])
    BY <1>6, <2>1, <2>3
  <2>. QED
    BY <2>2, <2>4, DeclaringPoints
<1>. HIDE DEF S
<1>7. n \in S
  BY <1>1, <1>5, <1>6, Induction
<1>8. n <= n /\ upTo[n].repairs \subseteq Harmless
  BY <1>1, <1>2
<1>. QED
  BY <1>2, <1>7, <1>8 DEF S

\* Music that is declared stands in its part, and in no other.
Adds(list, id, bars, y) ==
  LET k == list.index[id]
  IN /\ DOMAIN y = DOMAIN list /\ y.repairs = list.repairs /\ y.index = list.index
     /\ Pointing(y)
     /\ id \in DOMAIN list.index /\ y.parts[k].measures = list.parts[k].measures \o bars
     /\ \A p \in DOMAIN list.parts : p # k => y.parts[p] = list.parts[p]

LEMMA MusicOfADeclaredPart ==
  ASSUME NEW list, {"parts", "serial", "index", "repairs"} \subseteq DOMAIN list,
         Pointing(list), NEW id, NEW bars,
         WithMusic(list, id, bars).repairs \subseteq Harmless
  PROVE  Adds(list, id, bars, WithMusic(list, id, bars))
<1> DEFINE y == WithMusic(list, id, bars)
           x == [id |-> GeneratedId(list.serial + 1), measures |-> bars]
<1>1. id \in DOMAIN list.index
  <2>. SUFFICES ASSUME id \notin DOMAIN list.index PROVE FALSE
    OBVIOUS
  <2>1. y = [list EXCEPT !.parts = Append(@, x), !.serial = @ + 1, !.repairs = @ \cup {"part"}]
    BY DEF WithMusic
  <2>2. "part" \notin y.repairs
    BY NotHarmless
  <2>. HIDE DEF x, y
  <2>3. y.repairs = list.repairs \cup {"part"}
    BY <2>1
  <2>. QED
    BY <2>2, <2>3
<1> DEFINE k == list.index[id]
           s == list.parts
           z == [s[k] EXCEPT !.measures = @ \o bars]
           t == [s EXCEPT ![k] = z]
<1>2. y = [list EXCEPT !.parts = t]
  BY <1>1 DEF WithMusic
<1>3. /\ IsList(s) /\ k \in DOMAIN s
      /\ "measures" \in DOMAIN s[k] /\ "id" \in DOMAIN s[k] /\ s[k].id = id
  BY <1>1 DEF Pointing
<1>4. /\ DOMAIN z = DOMAIN s[k] /\ z.measures = s[k].measures \o bars /\ z.id = id
  <2> DEFINE u == s[k]
  <2>1. "measures" \in DOMAIN u /\ "id" \in DOMAIN u /\ u.id = id
    BY <1>3
  <2>. HIDE DEF u
  <2>2. LET w == [u EXCEPT !.measures = @ \o bars]
        IN DOMAIN w = DOMAIN u /\ w.measures = u.measures \o bars /\ w.id = id
    BY <2>1
  <2>. QED
    BY <2>2 DEF u
<1>. HIDE DEF z, y
<1>5. /\ DOMAIN t = DOMAIN s /\ t = [p \in DOMAIN s |-> t[p]]
      /\ t[k] = z /\ \A p \in DOMAIN s : p # k => t[p] = s[p]
  BY <1>3
<1>. HIDE DEF t
<1>6. /\ DOMAIN y = DOMAIN list /\ y.parts = t
      /\ y.repairs = list.repairs /\ y.index = list.index
  BY <1>2
<1>7. IsList(t)
  BY <1>3, <1>5, Mapped
<1>8. ASSUME NEW i \in DOMAIN list.index
      PROVE  /\ list.index[i] \in DOMAIN t
             /\ "measures" \in DOMAIN t[list.index[i]] /\ "id" \in DOMAIN t[list.index[i]]
             /\ t[list.index[i]].id = i
  <2>1. /\ list.index[i] \in DOMAIN s /\ s[list.index[i]].id = i
        /\ "measures" \in DOMAIN s[list.index[i]] /\ "id" \in DOMAIN s[list.index[i]]
    BY DEF Pointing
  <2>2. CASE list.index[i] = k
    BY <1>3, <1>4, <1>5, <2>1, <2>2
  <2>3. CASE list.index[i] # k
    BY <1>5, <2>1, <2>3
  <2>. QED
    BY <2>2, <2>3
<1>9. Pointing(y)
  BY <1>6, <1>7, <1>8 DEF Pointing
<1>. QED
  BY <1>1, <1>4, <1>5, <1>6, <1>9 DEF y, Adds

\* The part that is read stands in the score with its bars, alone or before those of another
\* <part> of its id.
LEMMA OwnPartIsThere ==
  ASSUME NEW ids, IsList(ids), NEW music, IsList(music), NEW other, NEW bars,
         WithMusic(WithMusic(PartList(ids), OwnId, music), other, bars).repairs
           \subseteq Harmless
  PROVE  LET parts == WithMusic(WithMusic(PartList(ids), OwnId, music), other, bars).parts
         IN \E p \in DOMAIN parts : /\ parts[p].id = OwnId
                                   /\ parts[p].measures \in {music, music \o bars}
<1> DEFINE list == PartList(ids)
           one == WithMusic(list, OwnId, music)
           both == WithMusic(one, other, bars)
<1>1. /\ {"parts", "serial", "index", "repairs"} \subseteq DOMAIN list
      /\ \A p \in DOMAIN list.parts : list.parts[p].measures = <<>>
  <2>1. IsPartList({<<>>}, list)
    BY PartListIsOne
  <2>. QED
    BY <2>1 DEF IsPartList, IsPartOf
<1>2. ASSUME NEW l, {"parts", "serial", "index", "repairs"} \subseteq DOMAIN l, NEW id, NEW ms
      PROVE  l.repairs \subseteq WithMusic(l, id, ms).repairs
             /\ {"parts", "serial", "index", "repairs"} \subseteq DOMAIN WithMusic(l, id, ms)
  <2>1. CASE id \in DOMAIN l.index
    <3>1. WithMusic(l, id, ms) = [l EXCEPT !.parts = [l.parts EXCEPT ![l.index[id]].measures = @ \o ms]]
      BY <2>1 DEF WithMusic
    <3> DEFINE ps == [l.parts EXCEPT ![l.index[id]].measures = @ \o ms]
    <3>. HIDE DEF ps
    <3>2. WithMusic(l, id, ms) = [l EXCEPT !.parts = ps]
      BY <3>1 DEF ps
    <3>. QED
      BY <1>2, <3>2
  <2>2. CASE id \notin DOMAIN l.index
    <3> DEFINE x == [id |-> GeneratedId(l.serial + 1), measures |-> ms]
               ps == Append(l.parts, x)
               r == l.repairs \cup {"part"}
    <3>1. WithMusic(l, id, ms) = [l EXCEPT !.parts = ps, !.serial = @ + 1, !.repairs = r]
      BY <2>2 DEF WithMusic
    <3>2. l.repairs \subseteq r
      OBVIOUS
    <3>. HIDE DEF ps, r
    <3>. QED
      BY <1>2, <3>1, <3>2
  <2>. QED
    BY <2>1, <2>2
<1>. HIDE DEF list
<1>3. /\ list.repairs \subseteq one.repairs /\ one.repairs \subseteq both.repairs
      /\ {"parts", "serial", "index", "repairs"} \subseteq DOMAIN one
  <2>1. /\ list.repairs \subseteq one.repairs
        /\ {"parts", "serial", "index", "repairs"} \subseteq DOMAIN one
    BY <1>1, <1>2
  <2>. HIDE DEF one
  <2>2. one.repairs \subseteq both.repairs
    BY <1>2, <2>1
  <2>. QED
    BY <2>1, <2>2
<1>4. both.repairs \subseteq Harmless
  BY DEF list
<1>5. list.repairs \subseteq Harmless /\ one.repairs \subseteq Harmless
  <2>. HIDE DEF one, both, Harmless
  <2>. QED
    BY <1>3, <1>4
<1>6. Pointing(list)
  BY <1>5, PartListPoints DEF list
<1> DEFINE k == list.index[OwnId]
<1>7. /\ one.index = list.index /\ Pointing(one) /\ OwnId \in DOMAIN list.index
      /\ one.parts[k].measures = list.parts[k].measures \o music
  <2>1. Adds(list, OwnId, music, one)
    BY <1>1, <1>5, <1>6, MusicOfADeclaredPart
  <2>. HIDE DEF one
  <2>. QED
    BY <2>1 DEF Adds
<1>8. one.parts[k].measures = music
  <2>1. k \in DOMAIN list.parts
    BY <1>6, <1>7 DEF Pointing
  <2>2. one.parts[k].measures = <<>> \o music
    BY <1>1, <1>7, <2>1
  <2>. QED
    BY <2>2, NothingBefore
<1>. HIDE DEF one
<1>9. /\ both.index = one.index /\ Pointing(both) /\ other \in DOMAIN one.index
      /\ both.parts[one.index[other]].measures = one.parts[one.index[other]].measures \o bars
      /\ \A p \in DOMAIN one.parts : p # one.index[other] => both.parts[p] = one.parts[p]
  <2>1. Adds(one, other, bars, both)
    BY <1>3, <1>4, <1>7, MusicOfADeclaredPart
  <2>. HIDE DEF both
  <2>. QED
    BY <2>1 DEF Adds
<1>. HIDE DEF both
<1>10. k \in DOMAIN one.parts /\ k \in DOMAIN both.parts /\ both.parts[k].id = OwnId
  BY <1>7, <1>9 DEF Pointing
<1>11. both.parts[k].measures \in {music, music \o bars}
  BY <1>8, <1>9, <1>10
<1>. QED
  BY <1>10, <1>11 DEF list, one, both

-----------------------------------------------------------------------------
(* What sounds in a bar, and when.                                          *)

NotesSound(s, b) == {[id |-> s[n].id, bar |-> b] : n \in DOMAIN s}
EventsSound(s, b) == UNION {NotesSound(s[e].notes, b) : e \in DOMAIN s}
VoicesSound(s, b) == UNION {EventsSound(s[v].events, b) : v \in DOMAIN s}
BarsSound(s) == UNION {VoicesSound(s[m].voices, m) : m \in DOMAIN s}

\* An event has the place and the time the file gives it.
IsExact(x) ==
  {"at", "length"} \subseteq DOMAIN x /\ x.onset * Fraction = x.at /\ x.duration * Fraction = x.length
ExactEvents(s) == \A e \in DOMAIN s : IsExact(s[e])
ExactVoices(s) == \A v \in DOMAIN s : ExactEvents(s[v].events)
ExactBars(s) == \A m \in DOMAIN s : ExactVoices(s[m].voices)

\* A voice begins with an event.
Begun(s) == \A v \in DOMAIN s : DOMAIN s[v].events # {}

LEMMA JoinedSound ==
  ASSUME NEW s, IsList(s), NEW t, IsList(t), NEW b
  PROVE  NotesSound(s \o t, b) = NotesSound(s, b) \cup NotesSound(t, b)
<1> DEFINE S == {s[i] : i \in DOMAIN s} \cup {t[i] : i \in DOMAIN t}
           u == s \o t
<1>1. s \in Seq(S) /\ t \in Seq(S)
  <2>1. s \in Seq({s[i] : i \in DOMAIN s}) /\ t \in Seq({t[i] : i \in DOMAIN t})
    BY ListIsASeq
  <2>2. {s[i] : i \in DOMAIN s} \subseteq S /\ {t[i] : i \in DOMAIN t} \subseteq S
    OBVIOUS
  <2>. HIDE DEF S
  <2>. QED
    BY <2>1, <2>2, SeqMonotonic
<1>. HIDE DEF S
<1>2. /\ DOMAIN s = 1..Len(s) /\ Len(s) \in Nat /\ DOMAIN t = 1..Len(t) /\ Len(t) \in Nat
      /\ DOMAIN u = 1..(Len(s) + Len(t))
      /\ \A i \in 1..Len(s) : u[i] = s[i]
      /\ \A i \in 1..Len(t) : u[Len(s) + i] = t[i]
  <2>1. /\ Len(u) = Len(s) + Len(t) /\ u \in Seq(S)
        /\ \A i \in 1..Len(s) + Len(t) : u[i] = IF i <= Len(s) THEN s[i] ELSE t[i - Len(s)]
    BY <1>1, ConcatProperties
  <2>. HIDE DEF u
  <2>2. DOMAIN s = 1..Len(s) /\ Len(s) \in Nat /\ DOMAIN t = 1..Len(t) /\ Len(t) \in Nat
    BY <1>1, LenProperties
  <2>3. DOMAIN u = 1..(Len(s) + Len(t))
    BY <2>1, LenProperties
  <2>4. ASSUME NEW i \in 1..Len(s) PROVE u[i] = s[i]
    <3>1. i \in 1..(Len(s) + Len(t)) /\ i <= Len(s)
      BY <2>2
    <3>. QED
      BY <2>1, <3>1
  <2>5. ASSUME NEW i \in 1..Len(t) PROVE u[Len(s) + i] = t[i]
    <3>1. /\ Len(s) + i \in 1..(Len(s) + Len(t)) /\ ~(Len(s) + i <= Len(s))
          /\ (Len(s) + i) - Len(s) = i
      BY <2>2
    <3>. QED
      BY <2>1, <3>1
  <2>. QED
    BY <2>2, <2>3, <2>4, <2>5
<1>. HIDE DEF u
<1>3. ASSUME NEW i \in DOMAIN u
      PROVE  [id |-> u[i].id, bar |-> b] \in NotesSound(s, b) \cup NotesSound(t, b)
  <2>1. CASE i \in 1..Len(s)
    <3>1. u[i] = s[i] /\ i \in DOMAIN s
      BY <1>2, <2>1
    <3>. QED
      BY <3>1 DEF NotesSound
  <2>2. CASE i \notin 1..Len(s)
    <3>1. i - Len(s) \in 1..Len(t) /\ Len(s) + (i - Len(s)) = i
      BY <1>2, <2>2
    <3>2. u[i] = t[i - Len(s)] /\ i - Len(s) \in DOMAIN t
      BY <1>2, <3>1
    <3>. QED
      BY <3>2 DEF NotesSound
  <2>. QED
    BY <2>1, <2>2
<1>4. ASSUME NEW i \in DOMAIN s PROVE [id |-> s[i].id, bar |-> b] \in NotesSound(u, b)
  <2>1. i \in DOMAIN u /\ u[i] = s[i]
    BY <1>2
  <2>. QED
    BY <2>1 DEF NotesSound
<1>5. ASSUME NEW i \in DOMAIN t PROVE [id |-> t[i].id, bar |-> b] \in NotesSound(u, b)
  <2>1. Len(s) + i \in DOMAIN u /\ u[Len(s) + i] = t[i]
    BY <1>2
  <2>. QED
    BY <2>1 DEF NotesSound
<1>6. NotesSound(u, b) \subseteq NotesSound(s, b) \cup NotesSound(t, b)
  BY <1>3 DEF NotesSound
<1>7. NotesSound(s, b) \subseteq NotesSound(u, b) /\ NotesSound(t, b) \subseteq NotesSound(u, b)
  BY <1>4, <1>5 DEF NotesSound
<1>. QED
  BY <1>6, <1>7 DEF u

LEMMA AppendedSound ==
  ASSUME NEW s, IsList(s), NEW x, NEW b
  PROVE  /\ EventsSound(Append(s, x), b) = EventsSound(s, b) \cup NotesSound(x.notes, b)
         /\ ExactEvents(s) /\ IsExact(x) => ExactEvents(Append(s, x))
         /\ DOMAIN Append(s, x) # {}
<1> DEFINE t == Append(s, x)
           n == Len(s) + 1
<1>1. /\ DOMAIN t = 1..n /\ Len(s) \in Nat /\ DOMAIN s = 1..Len(s)
      /\ \A i \in DOMAIN s : t[i] = s[i]
      /\ t[n] = x
  BY AppendedPlaces
<1>2. DOMAIN t = DOMAIN s \cup {n}
  BY <1>1
<1>. HIDE DEF t, n
<1>3. EventsSound(t, b) = EventsSound(s, b) \cup NotesSound(x.notes, b)
  BY <1>1, <1>2 DEF EventsSound
<1>4. ExactEvents(s) /\ IsExact(x) => ExactEvents(t)
  BY <1>1, <1>2 DEF ExactEvents
<1>. QED
  BY <1>2, <1>3, <1>4 DEF t

\* Sorting keeps every event.
LEMMA SortedSound ==
  ASSUME NEW s, IsEvents(s), NEW b
  PROVE  /\ EventsSound(InTimeOrder(s), b) = EventsSound(s, b)
         /\ ExactEvents(s) => ExactEvents(InTimeOrder(s))
<1> DEFINE key == [e \in DOMAIN s |-> s[e].onset]
           order == InOrder(DOMAIN s, key)
           t == InTimeOrder(s)
<1>1. DOMAIN s \in SUBSET Int /\ IsFiniteSet(DOMAIN s)
  <2>1. DOMAIN s = 1..Len(s) /\ Len(s) \in Nat
    BY DEF IsEvents, IsList
  <2>. QED
    BY <2>1, FS_Interval
<1>2. \A e \in DOMAIN s : key[e] \in Int
  BY DEF IsEvents, IsEvent
<1>3. t = Picked(s, order)
  BY DEF InTimeOrder
<1>. HIDE DEF key, t
<1>4. /\ \A k \in DOMAIN order : order[k] \in DOMAIN s
      /\ \A e \in DOMAIN s : \E k \in DOMAIN order : order[k] = e
  BY <1>1, <1>2, Ordered
<1>. HIDE DEF order
<1>5. DOMAIN t = DOMAIN order /\ \A k \in DOMAIN order : t[k] = s[order[k]]
  BY <1>3 DEF Picked
<1>6. EventsSound(t, b) \subseteq EventsSound(s, b)
  BY <1>4, <1>5 DEF EventsSound
<1>7. EventsSound(s, b) \subseteq EventsSound(t, b)
  <2>. SUFFICES ASSUME NEW e \in DOMAIN s, NEW y \in NotesSound(s[e].notes, b)
                PROVE  y \in EventsSound(t, b)
    BY DEF EventsSound
  <2>1. PICK k \in DOMAIN order : order[k] = e
    BY <1>4
  <2>. QED
    BY <1>5, <2>1 DEF EventsSound
<1>8. ExactEvents(s) => ExactEvents(t)
  BY <1>4, <1>5 DEF ExactEvents
<1>. QED
  BY <1>6, <1>7, <1>8 DEF t

\* More sounds in some voices.
Gains(s, t, V, b, more) ==
  /\ V \subseteq DOMAIN s /\ V # {} /\ DOMAIN t = DOMAIN s
  /\ \A v \in V : EventsSound(t[v].events, b) = EventsSound(s[v].events, b) \cup more
  /\ \A v \in DOMAIN s \ V : t[v] = s[v]

LEMMA MoreSound ==
  ASSUME NEW s, NEW t, NEW V, NEW b, NEW more, Gains(s, t, V, b, more)
  PROVE  VoicesSound(t, b) = VoicesSound(s, b) \cup more
<1>. USE DEF Gains
<1>1. VoicesSound(t, b) \subseteq VoicesSound(s, b) \cup more
  <2>. SUFFICES ASSUME NEW v \in DOMAIN s, NEW y \in EventsSound(t[v].events, b)
                PROVE  y \in VoicesSound(s, b) \cup more
    BY DEF VoicesSound
  <2>1. y \in EventsSound(s[v].events, b) \cup more
    BY Zenon
  <2>. QED
    BY <2>1 DEF VoicesSound
<1>2. VoicesSound(s, b) \subseteq VoicesSound(t, b)
  <2>. SUFFICES ASSUME NEW v \in DOMAIN s, NEW y \in EventsSound(s[v].events, b)
                PROVE  y \in VoicesSound(t, b)
    BY DEF VoicesSound
  <2>1. y \in EventsSound(t[v].events, b)
    OBVIOUS
  <2>. QED
    BY <2>1 DEF VoicesSound
<1>3. more \subseteq VoicesSound(t, b)
  <2>1. PICK v \in V : TRUE
    OBVIOUS
  <2>2. v \in DOMAIN t /\ more \subseteq EventsSound(t[v].events, b)
    BY <2>1
  <2>. QED
    BY <2>2 DEF VoicesSound
<1>. QED
  BY <1>1, <1>2, <1>3

\* A tone joins the last event of a voice.
WithTone(s, v, extra, t) ==
  /\ IsVoices(s) /\ Begun(s) /\ v \in DOMAIN s /\ IsNotes(extra)
  /\ t = [s EXCEPT ![v].events[Len(s[v].events)].notes = @ \o extra]

LEMMA ToneSounds ==
  ASSUME NEW s, NEW v, NEW extra, NEW t, WithTone(s, v, extra, t), NEW b
  PROVE  /\ VoicesSound(t, b) = VoicesSound(s, b) \cup NotesSound(extra, b)
         /\ ExactVoices(s) => ExactVoices(t)
         /\ Begun(t)
<1> DEFINE x == s[v]
           es == x.events
           last == Len(es)
           event == [es[last] EXCEPT !.notes = @ \o extra]
           fs == [es EXCEPT ![last] = event]
           y == [x EXCEPT !.events = fs]
<1>1. /\ IsVoices(s) /\ Begun(s) /\ v \in DOMAIN s /\ IsNotes(extra)
      /\ t = [s EXCEPT ![v] = y]
  BY DEF WithTone
<1>2. IsVoice(0, 0, x) /\ IsEvents(es) /\ DOMAIN es # {}
  BY <1>1 DEF IsVoices, IsVoice, Meets, Begun
<1>3. last \in DOMAIN es
  <2>. HIDE DEF es
  <2>1. DOMAIN es = 1..Len(es) /\ Len(es) \in Nat
    BY <1>2, SMTT(30) DEF IsEvents, IsList
  <2>. QED
    BY <1>2, <2>1
<1>4. /\ event.notes = es[last].notes \o extra
      /\ NotesSound(event.notes, b) = NotesSound(es[last].notes, b) \cup NotesSound(extra, b)
      /\ IsExact(es[last]) => IsExact(event)
  <2> DEFINE z == es[last]
  <2>1. IsEvent(z)
    BY <1>2, <1>3 DEF IsEvents
  <2>. HIDE DEF z
  <2>2. LET w == [z EXCEPT !.notes = @ \o extra]
        IN /\ DOMAIN w = DOMAIN z /\ w.notes = z.notes \o extra
           /\ w.onset = z.onset /\ w.duration = z.duration
           /\ {"at", "length"} \subseteq DOMAIN z => w.at = z.at /\ w.length = z.length
    BY <2>1 DEF IsEvent
  <2>3. NotesSound(z.notes \o extra, b) = NotesSound(z.notes, b) \cup NotesSound(extra, b)
    BY <1>1, <2>1, JoinedSound DEF IsEvent, IsNotes
  <2> DEFINE w == [z EXCEPT !.notes = @ \o extra]
  <2>. HIDE DEF w
  <2>4. IsExact(z) => IsExact(w)
    BY <2>2 DEF IsExact, w
  <2>. QED
    BY <2>2, <2>3, <2>4 DEF w, z
<1>. HIDE DEF event, last, es
<1>5. DOMAIN fs = DOMAIN es /\ \A e \in DOMAIN es : fs[e] = IF e = last THEN event ELSE es[e]
  OBVIOUS
<1>. HIDE DEF fs
<1>6. EventsSound(fs, b) = EventsSound(es, b) \cup NotesSound(extra, b)
  <2>1. EventsSound(fs, b) \subseteq EventsSound(es, b) \cup NotesSound(extra, b)
    <3>. SUFFICES ASSUME NEW e \in DOMAIN es, NEW i \in NotesSound(fs[e].notes, b)
                  PROVE  i \in EventsSound(es, b) \cup NotesSound(extra, b)
      BY <1>5 DEF EventsSound
    <3>1. i \in NotesSound(es[e].notes, b) \cup NotesSound(extra, b)
      BY <1>4, <1>5
    <3>. QED
      BY <3>1 DEF EventsSound
  <2>2. EventsSound(es, b) \subseteq EventsSound(fs, b)
    <3>. SUFFICES ASSUME NEW e \in DOMAIN es, NEW i \in NotesSound(es[e].notes, b)
                  PROVE  i \in EventsSound(fs, b)
      BY DEF EventsSound
    <3>1. i \in NotesSound(fs[e].notes, b)
      BY <1>4, <1>5
    <3>. QED
      BY <1>5, <3>1 DEF EventsSound
  <2>3. NotesSound(extra, b) \subseteq EventsSound(fs, b)
    <3>1. NotesSound(extra, b) \subseteq NotesSound(fs[last].notes, b)
      BY <1>3, <1>4, <1>5
    <3>. QED
      BY <1>3, <1>5, <3>1 DEF EventsSound
  <2>. QED
    BY <2>1, <2>2, <2>3
<1>7. ExactEvents(es) => ExactEvents(fs)
  BY <1>3, <1>4, <1>5 DEF ExactEvents
<1>8. y.events = fs
  BY <1>2 DEF IsVoice
<1>. HIDE DEF y
<1>9. DOMAIN t = DOMAIN s /\ t[v] = y /\ \A w \in DOMAIN s \ {v} : t[w] = s[w]
  BY <1>1
<1>10. VoicesSound(t, b) = VoicesSound(s, b) \cup NotesSound(extra, b)
  <2> DEFINE V == {v}
             more == NotesSound(extra, b)
  <2>1. V \subseteq DOMAIN s /\ V # {}
    BY <1>1
  <2>2. \A w \in V : EventsSound(t[w].events, b) = EventsSound(s[w].events, b) \cup more
    BY <1>6, <1>8, <1>9 DEF es
  <2>3. DOMAIN t = DOMAIN s /\ \A w \in DOMAIN s \ V : t[w] = s[w]
    BY <1>9
  <2>. HIDE DEF V, more
  <2>4. Gains(s, t, V, b, more)
    BY <2>1, <2>2, <2>3 DEF Gains
  <2>5. VoicesSound(t, b) = VoicesSound(s, b) \cup more
    BY <2>4, MoreSound
  <2>. QED
    BY <2>5 DEF more
<1>11. ExactVoices(s) => ExactVoices(t)
  <2>. SUFFICES ASSUME ExactVoices(s), NEW w \in DOMAIN s PROVE ExactEvents(t[w].events)
    BY <1>9 DEF ExactVoices
  <2>. QED
    BY <1>7, <1>8, <1>9 DEF ExactVoices, es
<1>12. Begun(t)
  BY <1>1, <1>2, <1>5, <1>8, <1>9 DEF Begun
<1>. QED
  BY <1>10, <1>11, <1>12

\* An event is appended.
LEMMA EventSounds ==
  ASSUME NEW s, IsVoices(s), Begun(s), NEW x, NEW number, NEW V \in SUBSET DOMAIN s,
         NEW t, t = WithEvent(s, V, number, x), NEW b
  PROVE  /\ VoicesSound(t, b) = VoicesSound(s, b) \cup NotesSound(x.notes, b)
         /\ ExactVoices(s) /\ IsExact(x) => ExactVoices(t)
         /\ Begun(t)
<1>1. CASE V = {}
  <2> DEFINE y == [number |-> number, events |-> <<x>>]
             n == Len(s) + 1
  <2>1. t = Append(s, y)
    BY <1>1 DEF WithEvent
  <2>2. y.events = <<x>>
    OBVIOUS
  <2>. HIDE DEF y
  <2>3. /\ DOMAIN t = 1..n /\ Len(s) \in Nat /\ DOMAIN s = 1..Len(s)
        /\ \A i \in DOMAIN s : t[i] = s[i]
        /\ t[n] = y
    BY <2>1, AppendedPlaces DEF IsVoices
  <2>4. DOMAIN t = DOMAIN s \cup {n}
    BY <2>3
  <2>. HIDE DEF n
  <2>5. DOMAIN y.events = {1} /\ y.events[1] = x
    BY <2>2
  <2>6. EventsSound(y.events, b) = NotesSound(x.notes, b)
    BY <2>5 DEF EventsSound
  <2>7. VoicesSound(t, b) = VoicesSound(s, b) \cup NotesSound(x.notes, b)
    <3>1. \A v \in DOMAIN s : EventsSound(t[v].events, b) = EventsSound(s[v].events, b)
      BY <2>3
    <3>2. EventsSound(t[n].events, b) = NotesSound(x.notes, b)
      BY <2>3, <2>6
    <3>3. VoicesSound(t, b) \subseteq VoicesSound(s, b) \cup NotesSound(x.notes, b)
      <4>. SUFFICES ASSUME NEW v \in DOMAIN t, NEW i \in EventsSound(t[v].events, b)
                    PROVE  i \in VoicesSound(s, b) \cup NotesSound(x.notes, b)
        BY DEF VoicesSound
      <4>1. CASE v \in DOMAIN s
        BY <3>1, <4>1 DEF VoicesSound
      <4>2. CASE v = n
        BY <3>2, <4>2
      <4>. QED
        BY <2>4, <4>1, <4>2
    <3>4. VoicesSound(s, b) \subseteq VoicesSound(t, b)
      <4>. SUFFICES ASSUME NEW v \in DOMAIN s, NEW i \in EventsSound(s[v].events, b)
                    PROVE  i \in VoicesSound(t, b)
        BY DEF VoicesSound
      <4>1. i \in EventsSound(t[v].events, b) /\ v \in DOMAIN t
        BY <2>4, <3>1
      <4>. QED
        BY <4>1 DEF VoicesSound
    <3>5. NotesSound(x.notes, b) \subseteq VoicesSound(t, b)
      <4>1. n \in DOMAIN t
        BY <2>4
      <4>. QED
        BY <3>2, <4>1 DEF VoicesSound
    <3>. QED
      BY <3>3, <3>4, <3>5
  <2>8. ExactVoices(s) /\ IsExact(x) => ExactVoices(t)
    BY <2>3, <2>4, <2>5, ZenonT(30) DEF ExactVoices, ExactEvents
  <2>9. Begun(t)
    BY <2>3, <2>4, <2>5 DEF Begun
  <2>. QED
    BY <2>7, <2>8, <2>9
<1>2. CASE V # {}
  <2>1. t = [v \in DOMAIN s |-> IF v \in V THEN [s[v] EXCEPT !.events = Append(@, x)] ELSE s[v]]
    BY <1>2 DEF WithEvent
  <2>2. DOMAIN t = DOMAIN s /\ \A v \in DOMAIN s \ V : t[v] = s[v]
    BY <2>1
  <2>3. ASSUME NEW v \in V
        PROVE  /\ EventsSound(t[v].events, b)
                    = EventsSound(s[v].events, b) \cup NotesSound(x.notes, b)
               /\ ExactEvents(s[v].events) /\ IsExact(x) => ExactEvents(t[v].events)
               /\ DOMAIN t[v].events # {}
    <3> DEFINE y == s[v]
               es == y.events
               fs == Append(es, x)
    <3>1. t[v] = [y EXCEPT !.events = fs]
      BY <2>1
    <3>2. IsVoice(0, 0, y)
      BY DEF IsVoices
    <3>. HIDE DEF y, fs
    <3>3. t[v].events = fs
      BY <3>1, <3>2 DEF IsVoice
    <3>4. IsList(es)
      BY <3>2 DEF IsVoice, Meets, IsEvents
    <3>. HIDE DEF es
    <3>5. /\ EventsSound(fs, b) = EventsSound(es, b) \cup NotesSound(x.notes, b)
          /\ ExactEvents(es) /\ IsExact(x) => ExactEvents(fs)
          /\ DOMAIN fs # {}
      BY <3>4, AppendedSound DEF fs
    <3>. QED
      BY <3>3, <3>5 DEF es, y
  <2>4. VoicesSound(t, b) = VoicesSound(s, b) \cup NotesSound(x.notes, b)
    <3> DEFINE more == NotesSound(x.notes, b)
    <3>1. V \subseteq DOMAIN s /\ V # {}
      BY <1>2
    <3>2. \A v \in V : EventsSound(t[v].events, b) = EventsSound(s[v].events, b) \cup more
      BY <2>3
    <3>. HIDE DEF more
    <3>3. Gains(s, t, V, b, more)
      BY <2>2, <3>1, <3>2 DEF Gains
    <3>4. VoicesSound(t, b) = VoicesSound(s, b) \cup more
      BY <3>3, MoreSound
    <3>. QED
      BY <3>4 DEF more
  <2>5. ExactVoices(s) /\ IsExact(x) => ExactVoices(t)
    <3>. SUFFICES ASSUME ExactVoices(s), IsExact(x), NEW v \in DOMAIN s
                  PROVE  ExactEvents(t[v].events)
      BY <2>2 DEF ExactVoices
    <3>1. ExactEvents(s[v].events)
      BY DEF ExactVoices
    <3>. QED
      BY <2>2, <2>3, <3>1
  <2>6. Begun(t)
    <3>. SUFFICES ASSUME NEW v \in DOMAIN s PROVE DOMAIN t[v].events # {}
      BY <2>2 DEF Begun
    <3>. QED
      BY <2>2, <2>3 DEF Begun
  <2>. QED
    BY <2>4, <2>5, <2>6
<1>. QED
  BY <1>1, <1>2

\* The bar line: events by onset, voices by number.
LEMMA FrozenSound ==
  ASSUME NEW s, IsVoices(s), NEW b
  PROVE  /\ VoicesSound(Frozen(s), b) = VoicesSound(s, b)
         /\ ExactVoices(s) => ExactVoices(Frozen(s))
<1> DEFINE key == [v \in DOMAIN s |-> s[v].number]
           order == InOrder(DOMAIN s, key)
           t == Frozen(s)
<1>1. DOMAIN s \in SUBSET Int /\ IsFiniteSet(DOMAIN s)
  <2>1. DOMAIN s = 1..Len(s) /\ Len(s) \in Nat
    BY DEF IsVoices, IsList
  <2>. QED
    BY <2>1, FS_Interval
<1>2. \A v \in DOMAIN s : key[v] \in Int
  BY DEF IsVoices, IsVoice
<1>3. t = [i \in DOMAIN order |-> [s[order[i]] EXCEPT !.events = InTimeOrder(s[order[i]].events)]]
  BY DEF Frozen
<1>. HIDE DEF key, t
<1>4. /\ \A k \in DOMAIN order : order[k] \in DOMAIN s
      /\ \A v \in DOMAIN s : \E k \in DOMAIN order : order[k] = v
  BY <1>1, <1>2, Ordered
<1>. HIDE DEF order
<1>5. DOMAIN t = DOMAIN order
  BY <1>3
<1>6. ASSUME NEW k \in DOMAIN order
      PROVE  /\ EventsSound(t[k].events, b) = EventsSound(s[order[k]].events, b)
             /\ ExactEvents(s[order[k]].events) => ExactEvents(t[k].events)
  <2> DEFINE x == s[order[k]]
             es == x.events
             fs == InTimeOrder(es)
  <2>1. t[k] = [x EXCEPT !.events = fs]
    BY <1>3
  <2>2. IsVoice(0, 0, x)
    BY <1>4 DEF IsVoices
  <2>. HIDE DEF x, fs
  <2>3. t[k].events = fs
    BY <2>1, <2>2 DEF IsVoice
  <2>4. IsEvents(es)
    BY <2>2 DEF IsVoice, Meets
  <2>. HIDE DEF es
  <2>5. EventsSound(fs, b) = EventsSound(es, b) /\ (ExactEvents(es) => ExactEvents(fs))
    BY <2>4, SortedSound DEF fs
  <2>. QED
    BY <2>3, <2>5 DEF es, x
<1>7. VoicesSound(t, b) \subseteq VoicesSound(s, b)
  BY <1>4, <1>5, <1>6 DEF VoicesSound
<1>8. VoicesSound(s, b) \subseteq VoicesSound(t, b)
  <2>. SUFFICES ASSUME NEW v \in DOMAIN s, NEW y \in EventsSound(s[v].events, b)
                PROVE  y \in VoicesSound(t, b)
    BY DEF VoicesSound
  <2>1. PICK k \in DOMAIN order : order[k] = v
    BY <1>4
  <2>. QED
    BY <1>5, <1>6, <2>1 DEF VoicesSound
<1>9. ExactVoices(s) => ExactVoices(t)
  BY <1>4, <1>5, <1>6 DEF ExactVoices
<1>. QED
  BY <1>7, <1>8, <1>9 DEF t

LEMMA AnotherBarSounds ==
  ASSUME NEW s, IsList(s), NEW bar
  PROVE  /\ BarsSound(Append(s, bar)) = BarsSound(s) \cup VoicesSound(bar.voices, Len(s) + 1)
         /\ ExactBars(s) /\ ExactVoices(bar.voices) => ExactBars(Append(s, bar))
         /\ Len(Append(s, bar)) = Len(s) + 1
<1> DEFINE t == Append(s, bar)
           n == Len(s) + 1
<1>1. /\ DOMAIN t = 1..n /\ Len(s) \in Nat /\ DOMAIN s = 1..Len(s)
      /\ \A i \in DOMAIN s : t[i] = s[i]
      /\ t[n] = bar
  BY AppendedPlaces
<1>2. Len(t) = n
  BY AppendedList
<1>3. DOMAIN t = DOMAIN s \cup {n}
  BY <1>1
<1>. HIDE DEF t, n
<1>4. BarsSound(t) \subseteq BarsSound(s) \cup VoicesSound(bar.voices, n)
  <2>. SUFFICES ASSUME NEW m \in DOMAIN t, NEW i \in VoicesSound(t[m].voices, m)
                PROVE  i \in BarsSound(s) \cup VoicesSound(bar.voices, n)
    BY DEF BarsSound
  <2>1. CASE m \in DOMAIN s
    <3>1. i \in VoicesSound(s[m].voices, m)
      BY <1>1, <2>1
    <3>. QED
      BY <2>1, <3>1 DEF BarsSound
  <2>2. CASE m = n
    BY <1>1, <2>2
  <2>. QED
    BY <1>3, <2>1, <2>2
<1>5. BarsSound(s) \subseteq BarsSound(t)
  <2>. SUFFICES ASSUME NEW m \in DOMAIN s, NEW i \in VoicesSound(s[m].voices, m)
                PROVE  i \in BarsSound(t)
    BY DEF BarsSound
  <2>1. m \in DOMAIN t /\ i \in VoicesSound(t[m].voices, m)
    BY <1>1, <1>3
  <2>. QED
    BY <2>1 DEF BarsSound
<1>6. VoicesSound(bar.voices, n) \subseteq BarsSound(t)
  <2>1. n \in DOMAIN t /\ t[n].voices = bar.voices
    BY <1>1, <1>3
  <2>2. VoicesSound(t[n].voices, n) \subseteq BarsSound(t)
    BY <2>1 DEF BarsSound
  <2>. QED
    BY <2>1, <2>2
<1>7. ExactBars(s) /\ ExactVoices(bar.voices) => ExactBars(t)
  <2>. SUFFICES ASSUME ExactBars(s), ExactVoices(bar.voices), NEW m \in DOMAIN t
                PROVE  ExactVoices(t[m].voices)
    BY DEF ExactBars
  <2>. QED
    BY <1>1, <1>3 DEF ExactBars
<1>8. BarsSound(t) = BarsSound(s) \cup VoicesSound(bar.voices, n)
  BY <1>4, <1>5, <1>6
<1>. QED
  BY <1>2, <1>7, <1>8 DEF t, n

\* Notes that only change their links sound where they did.
LEMMA LikeSound ==
  ASSUME NEW s, NEW t, DOMAIN t = DOMAIN s,
         \A v \in DOMAIN s : /\ DOMAIN t[v].events = DOMAIN s[v].events
                             /\ \A e \in DOMAIN s[v].events :
                                  /\ DOMAIN t[v].events[e].notes = DOMAIN s[v].events[e].notes
                                  /\ \A n \in DOMAIN s[v].events[e].notes :
                                       t[v].events[e].notes[n].id = s[v].events[e].notes[n].id,
         NEW b
  PROVE  VoicesSound(t, b) = VoicesSound(s, b)
<1>1. ASSUME NEW v \in DOMAIN s PROVE EventsSound(t[v].events, b) = EventsSound(s[v].events, b)
  <2> DEFINE es == s[v].events
             fs == t[v].events
  <2>1. /\ DOMAIN fs = DOMAIN es
        /\ \A e \in DOMAIN es : /\ DOMAIN fs[e].notes = DOMAIN es[e].notes
                                /\ \A n \in DOMAIN es[e].notes :
                                     fs[e].notes[n].id = es[e].notes[n].id
    OBVIOUS
  <2>. HIDE DEF es, fs
  <2>2. \A e \in DOMAIN es : NotesSound(fs[e].notes, b) = NotesSound(es[e].notes, b)
    BY <2>1 DEF NotesSound
  <2>3. EventsSound(fs, b) = EventsSound(es, b)
    BY <2>1, <2>2 DEF EventsSound
  <2>. QED
    BY <2>3 DEF es, fs
<1>. QED
  BY <1>1 DEF VoicesSound

LEMMA TyingKeepsSound ==
  ASSUME NEW x, "measures" \in DOMAIN x, IsBars(x.measures), NEW L
  PROVE  /\ DOMAIN Tied(x, L).measures = DOMAIN x.measures
         /\ \A m \in DOMAIN x.measures :
              /\ VoicesSound(Tied(x, L).measures[m].voices, m) = VoicesSound(x.measures[m].voices, m)
              /\ ExactVoices(x.measures[m].voices) => ExactVoices(Tied(x, L).measures[m].voices)
<1>1. PICK ends : Tied(x, L) = Relinked(x, ends)
  <2>1. \E ends : Tied(x, L) = Relinked(x, ends)
    BY DEF Tied
  <2>. QED
    BY <2>1
<1> DEFINE y == Tied(x, L)
           s == x.measures
           t == y.measures
<1>2. 0 \in 0..3 /\ IsList(x.measures) /\ \A m \in DOMAIN x.measures : IsBar(0, x.measures[m])
  BY DEF IsBars
<1>3. /\ LikeBars(s, t)
      /\ \A ref \in Refs(x) : NoteAt(y, ref).id = NoteAt(x, ref).id
  BY <1>1, <1>2, RelinkingLinks
<1>. HIDE DEF y
<1>4. DOMAIN t = DOMAIN s
  BY <1>3 DEF LikeBars
<1>5. ASSUME NEW m \in DOMAIN s
      PROVE  /\ VoicesSound(t[m].voices, m) = VoicesSound(s[m].voices, m)
             /\ ExactVoices(s[m].voices) => ExactVoices(t[m].voices)
  <2>1. LikeVoices(s[m].voices, t[m].voices)
    BY <1>3 DEF LikeBars
  <2>2. DOMAIN t[m].voices = DOMAIN s[m].voices
    BY <2>1 DEF LikeVoices
  <2>3. ASSUME NEW v \in DOMAIN s[m].voices
        PROVE  LikeEvents(s[m].voices[v].events, t[m].voices[v].events)
    BY <2>1, Zenon DEF LikeVoices
  <2>4. ASSUME NEW v \in DOMAIN s[m].voices
        PROVE  /\ DOMAIN t[m].voices[v].events = DOMAIN s[m].voices[v].events
               /\ \A e \in DOMAIN s[m].voices[v].events :
                    /\ DOMAIN t[m].voices[v].events[e].notes = DOMAIN s[m].voices[v].events[e].notes
                    /\ \A n \in DOMAIN s[m].voices[v].events[e].notes :
                         t[m].voices[v].events[e].notes[n].id = s[m].voices[v].events[e].notes[n].id
    <3>1. DOMAIN t[m].voices[v].events = DOMAIN s[m].voices[v].events
      BY <2>3 DEF LikeEvents
    <3>2. ASSUME NEW e \in DOMAIN s[m].voices[v].events
          PROVE  DOMAIN t[m].voices[v].events[e].notes = DOMAIN s[m].voices[v].events[e].notes
      <4> DEFINE a == s[m].voices[v].events[e].notes
                 c == t[m].voices[v].events[e].notes
      <4>1. LikeNotes(a, c)
        BY <2>3 DEF LikeEvents
      <4>. HIDE DEF a, c
      <4>2. DOMAIN c = DOMAIN a
        BY <4>1 DEF LikeNotes
      <4>. QED
        BY <4>2 DEF a, c
    <3>3. ASSUME NEW e \in DOMAIN s[m].voices[v].events,
                 NEW n \in DOMAIN s[m].voices[v].events[e].notes
          PROVE  t[m].voices[v].events[e].notes[n].id = s[m].voices[v].events[e].notes[n].id
      <4>1. <<m, v, e, n>> \in Refs(x)
        BY RefOfPlace
      <4>2. NoteAt(y, <<m, v, e, n>>).id = NoteAt(x, <<m, v, e, n>>).id
        BY <1>3, <4>1
      <4>. QED
        BY <4>2 DEF NoteAt
    <3>. QED
      BY <3>1, <3>2, <3>3, Zenon
  <2>5. VoicesSound(t[m].voices, m) = VoicesSound(s[m].voices, m)
    <3> DEFINE S == s[m].voices
               T == t[m].voices
    <3>1. DOMAIN T = DOMAIN S
      BY <2>2
    <3>2. \A v \in DOMAIN S : /\ DOMAIN T[v].events = DOMAIN S[v].events
                              /\ \A e \in DOMAIN S[v].events :
                                   /\ DOMAIN T[v].events[e].notes = DOMAIN S[v].events[e].notes
                                   /\ \A n \in DOMAIN S[v].events[e].notes :
                                        T[v].events[e].notes[n].id = S[v].events[e].notes[n].id
      BY <2>4
    <3>. HIDE DEF S, T
    <3>3. VoicesSound(T, m) = VoicesSound(S, m)
      BY <3>1, <3>2, LikeSound
    <3>. QED
      BY <3>3 DEF S, T
  <2>6. ASSUME ExactVoices(s[m].voices), NEW v \in DOMAIN s[m].voices,
               NEW e \in DOMAIN s[m].voices[v].events
        PROVE  IsExact(t[m].voices[v].events[e])
    <3> DEFINE z == s[m].voices[v].events[e]
               w == t[m].voices[v].events[e]
    <3>1. w = [z EXCEPT !.notes = w.notes]
      BY <2>3 DEF LikeEvents
    <3>2. IsExact(z)
      BY <2>6 DEF ExactVoices, ExactEvents
    <3>3. IsEvent(z)
      BY DEF IsBars, IsBar, IsVoice, Meets, IsEvents
    <3>. HIDE DEF z, w
    <3>4. /\ DOMAIN w = DOMAIN z /\ w.onset = z.onset /\ w.duration = z.duration
          /\ w.at = z.at /\ w.length = z.length
      BY <3>1, <3>2, <3>3 DEF IsExact, IsEvent
    <3>5. IsExact(w)
      BY <3>2, <3>4 DEF IsExact
    <3>. QED
      BY <3>5 DEF w
  <2>7. ExactVoices(s[m].voices) => ExactVoices(t[m].voices)
    BY <2>2, <2>4, <2>6 DEF ExactVoices, ExactEvents
  <2>. QED
    BY <2>5, <2>7
<1>. QED
  BY <1>4, <1>5 DEF y

-----------------------------------------------------------------------------
(* A part as the file has it.                                               *)

\* The part has every note said of its first n bars, each in its place, and the ties.
Bears(x, n, all, links) ==
  /\ 1..n \subseteq DOMAIN x.measures
  /\ all = UNION {VoicesSound(x.measures[m].voices, m) : m \in 1..n}
  /\ \A m \in 1..n : ExactVoices(x.measures[m].voices)
  /\ Links(x) = links

IsClean(s, n, all, links) ==
  \E p \in DOMAIN s.parts : s.parts[p].id = OwnId /\ Bears(s.parts[p], n, all, links)

LEMMA KeptPartBears ==
  ASSUME NEW x, NEW y, PartKeeps(x, y), NEW n, NEW all, NEW links, Bears(x, n, all, links),
         \A ref \in Refs(y) : /\ NoteAt(y, ref).to # NoRef => Holds(y, ref, TRUE)
                              /\ NoteAt(y, ref).from # NoRef => Holds(y, ref, FALSE)
  PROVE  Bears(y, n, all, links)
<1>1. Links(y) = links
  BY KeptLinks DEF Bears
<1>2. 1..n \subseteq DOMAIN y.measures
  BY DEF Bears, PartKeeps
<1>3. ASSUME NEW m \in 1..n
      PROVE  /\ VoicesSound(y.measures[m].voices, m) = VoicesSound(x.measures[m].voices, m)
             /\ ExactVoices(y.measures[m].voices)
  <2> DEFINE s == x.measures[m].voices
             t == y.measures[m].voices
  <2>1. m \in DOMAIN x.measures /\ ExactVoices(s)
    BY DEF Bears
  <2>2. DOMAIN t = DOMAIN s /\ \A v \in DOMAIN s : t[v].events = s[v].events
    BY <2>1 DEF PartKeeps
  <2>. HIDE DEF s, t
  <2>3. VoicesSound(t, m) = VoicesSound(s, m)
    BY <2>2 DEF VoicesSound
  <2>4. ExactVoices(t)
    BY <2>1, <2>2 DEF ExactVoices
  <2>. QED
    BY <2>3, <2>4 DEF s, t
<1>4. all = UNION {VoicesSound(y.measures[m].voices, m) : m \in 1..n}
  <2>1. {VoicesSound(y.measures[m].voices, m) : m \in 1..n}
          = {VoicesSound(x.measures[m].voices, m) : m \in 1..n}
    BY <1>3
  <2>. QED
    BY <2>1 DEF Bears
<1>. QED
  BY <1>1, <1>2, <1>3, <1>4 DEF Bears

\* The passes leave a clean part as it is.
LEMMA PassesKeepClean ==
  ASSUME NEW s, IsScore(0, s), EnforceInvariants(s).repairs \subseteq Harmless,
         NEW n, NEW all, NEW links, s.repairs \subseteq Harmless => IsClean(s, n, all, links)
  PROVE  IsClean(EnforceInvariants(s), n, all, links)
<1> DEFINE t == EnforceInvariants(s)
<1>1. ScoreKeeps(s, t) /\ s.repairs \subseteq Harmless
  BY PassesKeep
<1>2. LinksHold(t)
  BY PassesRepair DEF IsRepaired
<1>. HIDE DEF t
<1>3. PICK p \in DOMAIN s.parts : s.parts[p].id = OwnId /\ Bears(s.parts[p], n, all, links)
  BY <1>1 DEF IsClean
<1>4. p \in DOMAIN t.parts /\ PartKeeps(s.parts[p], t.parts[p])
  BY <1>1 DEF ScoreKeeps
<1>5. t.parts[p].id = OwnId
  BY <1>3, <1>4 DEF PartKeeps
<1>6. Bears(t.parts[p], n, all, links)
  BY <1>2, <1>3, <1>4, KeptPartBears DEF LinksHold
<1>. QED
  BY <1>4, <1>5, <1>6 DEF IsClean, t

\* What the frozen score has of the part is what was said of it.
LEMMA CleanIsExact ==
  ASSUME NamedApart(score), IsClean(score, Len(measures), said, FileTies)
  PROVE  /\ said = UNION {{[id |-> note.id, bar |-> x.bar] : note \in Range(x.event.notes)} :
                            x \in OwnEvents}
         /\ \A x \in OwnEvents : /\ x.event.onset * Fraction = x.event.at
                                 /\ x.event.duration * Fraction = x.event.length
         /\ Links(Own) = FileTies
<1> DEFINE n == Len(measures)
<1>1. PICK p \in DOMAIN score.parts :
        score.parts[p].id = OwnId /\ Bears(score.parts[p], n, said, FileTies)
  BY DEF IsClean
<1> DEFINE y == score.parts[p]
<1>2. Own = y
  <2>1. \A q \in DOMAIN score.parts : score.parts[q].id = OwnId => q = p
    BY <1>1 DEF NamedApart
  <2>. QED
    BY <1>1, <2>1 DEF Own
<1>3. Bears(y, n, said, FileTies)
  BY <1>1
<1>. HIDE DEF y, n
<1> DEFINE EventIn(m, v, e) == [bar |-> m, event |-> y.measures[m].voices[v].events[e]]
           Said(x) == {[id |-> note.id, bar |-> x.bar] : note \in Range(x.event.notes)}
<1>4. \A x : x \in OwnEvents <=>
        \E m \in 1..n : \E v \in DOMAIN y.measures[m].voices :
          \E e \in DOMAIN y.measures[m].voices[v].events : x = EventIn(m, v, e)
  BY <1>2 DEF OwnEvents, n
<1>5. \A m, v, e : /\ EventIn(m, v, e).bar = m
                   /\ EventIn(m, v, e).event = y.measures[m].voices[v].events[e]
  OBVIOUS
<1>6. \A m, v, e : Said(EventIn(m, v, e)) = NotesSound(y.measures[m].voices[v].events[e].notes, m)
  <2>. SUFFICES ASSUME NEW m, NEW v, NEW e
                PROVE  Said(EventIn(m, v, e))
                         = NotesSound(y.measures[m].voices[v].events[e].notes, m)
    OBVIOUS
  <2> DEFINE x == EventIn(m, v, e)
             ns == y.measures[m].voices[v].events[e].notes
  <2>1. x.bar = m /\ x.event.notes = ns
    OBVIOUS
  <2>. HIDE DEF x, ns
  <2>2. Said(x) = NotesSound(ns, m)
    BY <2>1 DEF NotesSound, Range
  <2>. QED
    BY <2>2 DEF x, ns
<1>. HIDE DEF EventIn, Said
<1>7. ASSUME NEW i \in said PROVE i \in UNION {Said(x) : x \in OwnEvents}
  <2>1. PICK m \in 1..n : i \in VoicesSound(y.measures[m].voices, m)
    BY <1>3 DEF Bears
  <2>2. PICK v \in DOMAIN y.measures[m].voices : i \in EventsSound(y.measures[m].voices[v].events, m)
    BY <2>1 DEF VoicesSound
  <2>3. PICK e \in DOMAIN y.measures[m].voices[v].events :
          i \in NotesSound(y.measures[m].voices[v].events[e].notes, m)
    BY <2>2 DEF EventsSound
  <2>4. EventIn(m, v, e) \in OwnEvents /\ i \in Said(EventIn(m, v, e))
    BY <1>4, <1>6, <2>3
  <2>. QED
    BY <2>4
<1>8. ASSUME NEW x \in OwnEvents, NEW i \in Said(x) PROVE i \in said
  <2>1. PICK m \in 1..n : \E v \in DOMAIN y.measures[m].voices :
          \E e \in DOMAIN y.measures[m].voices[v].events : x = EventIn(m, v, e)
    BY <1>4
  <2>2. PICK v \in DOMAIN y.measures[m].voices :
          \E e \in DOMAIN y.measures[m].voices[v].events : x = EventIn(m, v, e)
    BY <2>1
  <2>3. PICK e \in DOMAIN y.measures[m].voices[v].events : x = EventIn(m, v, e)
    BY <2>2
  <2>4. i \in NotesSound(y.measures[m].voices[v].events[e].notes, m)
    BY <1>6, <2>3
  <2>5. i \in EventsSound(y.measures[m].voices[v].events, m)
    BY <2>4 DEF EventsSound
  <2>6. i \in VoicesSound(y.measures[m].voices, m)
    BY <2>5 DEF VoicesSound
  <2>. QED
    BY <1>3, <2>6 DEF Bears
<1>9. said = UNION {Said(x) : x \in OwnEvents}
  BY <1>7, <1>8
<1>10. ASSUME NEW x \in OwnEvents
       PROVE  /\ x.event.onset * Fraction = x.event.at
              /\ x.event.duration * Fraction = x.event.length
  <2>1. PICK m \in 1..n : \E v \in DOMAIN y.measures[m].voices :
          \E e \in DOMAIN y.measures[m].voices[v].events : x = EventIn(m, v, e)
    BY <1>4
  <2>2. PICK v \in DOMAIN y.measures[m].voices :
          \E e \in DOMAIN y.measures[m].voices[v].events : x = EventIn(m, v, e)
    BY <2>1
  <2>3. PICK e \in DOMAIN y.measures[m].voices[v].events : x = EventIn(m, v, e)
    BY <2>2
  <2>4. x.event = y.measures[m].voices[v].events[e]
    BY <1>5, <2>3
  <2>5. IsExact(y.measures[m].voices[v].events[e])
    BY <1>3 DEF Bears, ExactVoices, ExactEvents
  <2>. QED
    BY <2>4, <2>5 DEF IsExact
<1>11. Links(Own) = FileTies
  BY <1>2, <1>3 DEF Bears
<1>. QED
  BY <1>9, <1>10, <1>11 DEF Said

-----------------------------------------------------------------------------
(* The reader of a file with nothing to report.                             *)

\* What is said of the notes stands in the bars read and the one being read; with nothing
\* to report the ghosts agree with the ticks, and the part handed over is clean.
CleanInv ==
  /\ repairs \subseteq Harmless =>
       exact = cursor * Fraction /\ ExactVoices(pending) /\ ExactBars(measures)
  /\ Begun(pending)
  /\ said = BarsSound(measures) \cup VoicesSound(pending, Len(measures) + 1)
  /\ phase \in {"read", "done"} /\ score.repairs \subseteq Harmless =>
       IsClean(score, Len(measures), said, FileTies)

LEMMA NothingSounds ==
  /\ \A b : VoicesSound(<<>>, b) = {}
  /\ BarsSound(<<>>) = {} /\ ExactVoices(<<>>) /\ ExactBars(<<>>) /\ Begun(<<>>)
BY NoElements DEF VoicesSound, BarsSound, ExactVoices, ExactBars, Begun

LEMMA CleanInit == Init => CleanInv
<1>. SUFFICES ASSUME Init PROVE CleanInv
  OBVIOUS
<1>1. /\ exact = 0 /\ cursor = 0 /\ pending = <<>> /\ measures = <<>> /\ said = {}
      /\ phase = "reading"
  BY DEF Init
<1>2. 0 = 0 * Fraction
  <2>1. Fraction \in Nat
    BY ReadingAssumption
  <2>. QED
    BY <2>1
<1>. QED
  BY <1>1, <1>2, NothingSounds DEF CleanInv

LEMMA ChosenSounds ==
  ASSUME NEW note, NEW b
  PROVE  NotesSound(Chosen(note), b) = When(note.kind = "note", [id |-> eventCount + 1, bar |-> b])
<1> DEFINE x == SoundingNote(note)
<1>1. x.id = eventCount + 1
  BY DEF SoundingNote
<1>. HIDE DEF x
<1>2. CASE note.kind = "note"
  <2> DEFINE s == <<x>>
  <2>1. Chosen(note) = s
    BY <1>2 DEF Chosen, x
  <2>2. DOMAIN s = {1} /\ s[1] = x
    OBVIOUS
  <2>. HIDE DEF s
  <2>3. NotesSound(s, b) = {[id |-> eventCount + 1, bar |-> b]}
    BY <1>1, <2>2 DEF NotesSound
  <2>. QED
    BY <1>2, <2>1, <2>3 DEF When
<1>3. CASE note.kind # "note"
  <2>1. Chosen(note) = <<>>
    BY <1>3 DEF Chosen
  <2>2. NotesSound(<<>>, b) = {}
    BY NoElements DEF NotesSound
  <2>. QED
    BY <1>3, <2>1, <2>2 DEF When
<1>. QED
  BY <1>2, <1>3

\* A duration that is not reported is exact.
LEMMA UnreportedIsExact ==
  ASSUME ReaderInv, NEW source \in Int, NEW kinds, kinds \subseteq Harmless,
         Inexact(source) \subseteq kinds
  PROVE  Rounded(source) \in Int /\ Rounded(source) * Fraction = Exact(source)
<1>1. "rounded duration" \notin kinds
  BY NotHarmless
<1>2. Inexact(source) = {}
  <2>. SUFFICES ASSUME NEW x \in Inexact(source) PROVE FALSE
    OBVIOUS
  <2>1. x = "rounded duration"
    BY Zenon DEF Inexact, When
  <2>2. x \in kinds
    OBVIOUS
  <2>. QED
    BY <1>1, <2>1, <2>2, Zenon
<1>. QED
  BY <1>2, ExactIsRounded DEF ReaderInv

LEMMA NotedDuration ==
  ASSUME ReaderInv, NEW note \in Notes, NEW kinds, kinds \subseteq Harmless,
         (IF Measured(note) THEN Inexact(note.duration) ELSE {}) \subseteq kinds
  PROVE  DurationOf(note) \in Int /\ DurationOf(note) * Fraction = LengthOf(note)
<1>1. note.duration \in Int /\ note.isGrace \in BOOLEAN
  BY ReadingAssumption
<1>2. \/ DurationOf(note) = 0 /\ LengthOf(note) = 0
      \/ DurationOf(note) = nominal /\ LengthOf(note) = nominal * Fraction
      \/ /\ Measured(note)
         /\ DurationOf(note) = Rounded(note.duration) /\ LengthOf(note) = Exact(note.duration)
  BY <1>1, Zenon DEF DurationOf, LengthOf, Measured
<1>3. CASE DurationOf(note) = 0 /\ LengthOf(note) = 0
  <2>1. Fraction \in Nat
    BY ReadingAssumption
  <2>. QED
    BY <1>3, <2>1
<1>4. CASE DurationOf(note) = nominal /\ LengthOf(note) = nominal * Fraction
  BY <1>4 DEF ReaderInv
<1>5. CASE /\ Measured(note)
           /\ DurationOf(note) = Rounded(note.duration) /\ LengthOf(note) = Exact(note.duration)
  <2>1. Inexact(note.duration) \subseteq kinds
    BY <1>5
  <2>. QED
    BY <1>1, <1>5, <2>1, UnreportedIsExact
<1>. QED
  BY <1>2, <1>3, <1>4, <1>5

LEMMA CleanAfterANote ==
  ASSUME ReaderInv, CleanInv, NEW note \in Notes, ReadNote(note)
  PROVE  CleanInv'
<1> DEFINE b == Len(measures) + 1
           more == NotesSound(Chosen(note), b)
<1>1. /\ measures' = measures /\ phase = "reading" /\ phase' = phase
      /\ said' = said \cup When(note.kind = "note", [id |-> eventCount + 1, bar |-> b])
  BY DEF ReadNote, Reading, result
<1>2. more = When(note.kind = "note", [id |-> eventCount + 1, bar |-> b])
  BY ChosenSounds
<1>3. said' = said \cup more
  BY <1>1, <1>2
<1>4. IsVoices(pending) /\ Begun(pending) /\ IsNotes(Chosen(note))
  BY ChosenAreNotes DEF ReaderInv, CleanInv
<1>. HIDE DEF b
<1>5. /\ VoicesSound(pending', b) = VoicesSound(pending, b) \cup more
      /\ Begun(pending')
      /\ repairs' \subseteq Harmless =>
           exact' = cursor' * Fraction /\ ExactVoices(pending') /\ ExactBars(measures)
  <2>1. CASE JoinChord(note)
    <3>1. PICK v \in VoiceAt(NumberOf(note)) :
            pending' = [pending EXCEPT ![v].events[Len(pending[v].events)].notes
                                         = @ \o Chosen(note)]
      BY <2>1 DEF JoinChord
    <3>2. v \in DOMAIN pending
      BY DEF VoiceAt
    <3>3. /\ VoicesSound(pending', b) = VoicesSound(pending, b) \cup more
          /\ ExactVoices(pending) => ExactVoices(pending')
          /\ Begun(pending')
      <4> DEFINE s == pending
                 t == pending'
                 extra == Chosen(note)
      <4>1. IsVoices(s) /\ Begun(s) /\ IsNotes(extra) /\ v \in DOMAIN s
        BY <1>4, <3>2
      <4>2. t = [s EXCEPT ![v].events[Len(s[v].events)].notes = @ \o extra]
        BY <3>1
      <4>. HIDE DEF s, t, extra
      <4>3. WithTone(s, v, extra, t)
        BY <4>1, <4>2 DEF WithTone
      <4>4. /\ VoicesSound(t, b) = VoicesSound(s, b) \cup NotesSound(extra, b)
            /\ ExactVoices(s) => ExactVoices(t)
            /\ Begun(t)
        BY <4>3, ToneSounds
      <4>. QED
        BY <4>4 DEF s, t, extra
    <3>4. cursor' = cursor /\ exact' = exact /\ repairs' = repairs
      BY <2>1 DEF JoinChord
    <3>. HIDE DEF more
    <3>. QED
      BY <3>3, <3>4 DEF CleanInv
  <2>2. CASE AppendEvent(note)
    <3> DEFINE event == [onset |-> cursor, duration |-> DurationOf(note),
                         isGrace |-> note.isGrace, notes |-> Chosen(note), at |-> exact,
                         length |-> LengthOf(note)]
               V == VoiceAt(NumberOf(note))
    <3>1. pending' = WithEvent(pending, V, NumberOf(note), event)
      BY <2>2 DEF AppendEvent, WithEvent
    <3>2. V \in SUBSET DOMAIN pending
      BY DEF VoiceAt
    <3>3. /\ cursor' = cursor + DurationOf(note) /\ exact' = exact + LengthOf(note)
          /\ repairs \subseteq repairs'
          /\ (IF Measured(note) THEN Inexact(note.duration) ELSE {}) \subseteq repairs'
      <4> DEFINE other == When(note.chord, "chord of nothing")
                            \cup When(note.kind = "unreadable", "step")
                 rounding == IF Measured(note) THEN Inexact(note.duration) ELSE {}
      <4>1. repairs' = repairs \cup other \cup rounding
        BY <2>2 DEF AppendEvent
      <4>2. cursor' = cursor + DurationOf(note) /\ exact' = exact + LengthOf(note)
        BY <2>2 DEF AppendEvent
      <4>. HIDE DEF other, rounding
      <4>3. repairs \subseteq repairs' /\ rounding \subseteq repairs'
        BY <4>1
      <4>. QED
        BY <4>2, <4>3 DEF rounding
    <3>4. event.notes = Chosen(note)
      OBVIOUS
    <3>5. ASSUME repairs' \subseteq Harmless
          PROVE  /\ DurationOf(note) \in Int /\ DurationOf(note) * Fraction = LengthOf(note)
                 /\ exact = cursor * Fraction /\ ExactVoices(pending) /\ ExactBars(measures)
      <4>1. DurationOf(note) \in Int /\ DurationOf(note) * Fraction = LengthOf(note)
        BY <3>3, <3>5, NotedDuration
      <4>2. repairs \subseteq Harmless
        BY <3>3, <3>5
      <4>. QED
        BY <4>1, <4>2 DEF CleanInv
    <3>6. ASSUME repairs' \subseteq Harmless PROVE IsExact(event)
      <4>1. /\ {"at", "length"} \subseteq DOMAIN event
            /\ event.onset = cursor /\ event.at = exact
            /\ event.duration = DurationOf(note) /\ event.length = LengthOf(note)
        OBVIOUS
      <4>. HIDE DEF event
      <4>. QED
        BY <3>5, <3>6, <4>1 DEF IsExact
    <3>. HIDE DEF event, V
    <3>7. /\ VoicesSound(pending', b) = VoicesSound(pending, b) \cup NotesSound(event.notes, b)
          /\ ExactVoices(pending) /\ IsExact(event) => ExactVoices(pending')
          /\ Begun(pending')
      BY <1>4, <3>1, <3>2, EventSounds
    <3>8. ASSUME repairs' \subseteq Harmless PROVE exact' = cursor' * Fraction
      <4>1. cursor \in Int /\ Fraction \in Nat
        BY ReadingAssumption DEF ReaderInv
      <4>2. (cursor + DurationOf(note)) * Fraction = cursor * Fraction + DurationOf(note) * Fraction
        BY <3>5, <3>8, <4>1
      <4>. QED
        BY <3>3, <3>5, <3>8, <4>2
    <3>. QED
      BY <3>4, <3>5, <3>6, <3>7, <3>8
  <2>. QED
    BY <2>1, <2>2 DEF ReadNote
<1>6. said' = BarsSound(measures') \cup VoicesSound(pending', Len(measures') + 1)
  <2>1. said = BarsSound(measures) \cup VoicesSound(pending, b)
    BY DEF CleanInv, b
  <2>. HIDE DEF more
  <2>2. said' = BarsSound(measures) \cup VoicesSound(pending', b)
    BY <1>3, <1>5, <2>1
  <2>. QED
    BY <1>1, <2>2 DEF b
<1>. QED
  BY <1>1, <1>5, <1>6 DEF CleanInv

LEMMA CleanAfterAMove ==
  ASSUME ReaderInv, CleanInv, NEW source \in CursorMoves, Backup(source) \/ Forward(source)
  PROVE  CleanInv'
<1>1. /\ UNCHANGED <<pending, measures, phase, score, said, FileTies>>
      /\ repairs \subseteq repairs' /\ Inexact(source) \subseteq repairs'
  BY DEF Backup, Forward, result, FileTies
<1>2. source \in Int /\ Fraction \in Nat /\ cursor \in Int
  BY ReadingAssumption DEF ReaderInv
<1>3. ASSUME repairs' \subseteq Harmless PROVE exact' = cursor' * Fraction
  <2>1. Rounded(source) \in Int /\ Rounded(source) * Fraction = Exact(source)
    BY <1>1, <1>2, <1>3, UnreportedIsExact
  <2>2. exact = cursor * Fraction
    <3>1. repairs \subseteq Harmless
      BY <1>1, <1>3
    <3>. QED
      BY <3>1 DEF CleanInv
  <2> DEFINE r == Rounded(source)
             x == Exact(source)
  <2>3. CASE Forward(source)
    <3>1. cursor' = cursor + r /\ exact' = exact + x
      BY <2>3 DEF Forward
    <3>. HIDE DEF r, x
    <3>2. r \in Int /\ r * Fraction = x
      BY <2>1 DEF r, x
    <3>. QED
      BY <1>2, <2>2, <3>1, <3>2
  <2>4. CASE Backup(source)
    <3>1. /\ cursor' = Max({0, cursor - r}) /\ exact' = Max({0, exact - x})
          /\ When(cursor < r, "backup before the bar") \subseteq repairs'
      BY <2>4 DEF Backup
    <3>2. "backup before the bar" \notin repairs'
      BY <1>3, NotHarmless
    <3>. HIDE DEF r, x
    <3>3. r \in Int /\ r * Fraction = x
      BY <2>1 DEF r, x
    <3>4. ~(cursor < r)
      <4> DEFINE before == cursor < r
      <4>1. When(before, "backup before the bar") \subseteq repairs'
        BY <3>1
      <4>. HIDE DEF before
      <4>2. ~before
        BY <3>2, <4>1, Zenon DEF When
      <4>. QED
        BY <4>2 DEF before
    <3> DEFINE c == cursor - r
    <3>5. c \in Nat /\ exact - x = c * Fraction
      <4>1. (cursor - r) * Fraction = cursor * Fraction - r * Fraction
        BY <1>2, <3>3
      <4>. QED
        BY <1>2, <2>2, <3>3, <3>4, <4>1
    <3>6. cursor' = Max({0, c})
      BY <3>1
    <3>. HIDE DEF c
    <3>7. c * Fraction \in Nat
      BY <1>2, <3>5
    <3>8. Max({0, c}) = c
      <4>1. 0 \in Int /\ c \in Int
        BY <3>5
      <4>2. Max({0, c}) = IF 0 >= c THEN 0 ELSE c
        BY <4>1, MaxOfTwo
      <4>. QED
        BY <3>5, <4>2
    <3>9. Max({0, c * Fraction}) = c * Fraction
      <4> DEFINE d == c * Fraction
      <4>1. 0 \in Int /\ d \in Int /\ d \in Nat
        BY <3>7
      <4>. HIDE DEF d
      <4>2. Max({0, d}) = IF 0 >= d THEN 0 ELSE d
        BY <4>1, MaxOfTwo
      <4>3. Max({0, d}) = d
        BY <4>1, <4>2
      <4>. QED
        BY <4>3 DEF d
    <3>. QED
      BY <3>1, <3>5, <3>6, <3>8, <3>9
  <2>. QED
    BY <2>3, <2>4
<1>4. repairs' \subseteq Harmless => repairs \subseteq Harmless
  BY <1>1
<1>. QED
  BY <1>1, <1>3, <1>4 DEF CleanInv

LEMMA CleanAfterAMeasure ==
  ASSUME ReaderInv, CleanInv, EndMeasure
  PROVE  CleanInv'
<1> DEFINE bar == [nominal |-> Max({nominal, Occupied}), start |-> start,
                   voices |-> Frozen(pending)]
           n == Len(measures) + 1
<1>1. /\ measures' = Append(measures, bar) /\ pending' = <<>> /\ said' = said
      /\ cursor' = 0 /\ exact' = 0 /\ phase' = "reading" /\ repairs \subseteq repairs'
  BY DEF EndMeasure, result
<1>2. bar.voices = Frozen(pending)
  OBVIOUS
<1>. HIDE DEF bar
<1>3. IsVoices(pending) /\ IsList(measures)
  BY DEF ReaderInv, IsBars
<1>4. VoicesSound(bar.voices, n) = VoicesSound(pending, n)
  BY <1>2, <1>3, FrozenSound
<1>5. /\ BarsSound(measures') = BarsSound(measures) \cup VoicesSound(bar.voices, n)
      /\ ExactBars(measures) /\ ExactVoices(bar.voices) => ExactBars(measures')
  BY <1>1, <1>3, AnotherBarSounds
<1>. HIDE DEF n
<1>6. said' = BarsSound(measures') \cup VoicesSound(pending', Len(measures') + 1)
  <2>1. said = BarsSound(measures) \cup VoicesSound(pending, n)
    BY DEF CleanInv, n
  <2>2. VoicesSound(pending', Len(measures') + 1) = {}
    BY <1>1, NothingSounds
  <2>. QED
    BY <1>1, <1>4, <1>5, <2>1, <2>2
<1>7. ASSUME repairs' \subseteq Harmless
      PROVE  exact' = cursor' * Fraction /\ ExactVoices(pending') /\ ExactBars(measures')
  <2>1. ExactVoices(pending) /\ ExactBars(measures)
    <3>1. repairs \subseteq Harmless
      BY <1>1, <1>7
    <3>. QED
      BY <3>1 DEF CleanInv
  <2>2. ExactVoices(bar.voices)
    BY <1>2, <1>3, <2>1, FrozenSound
  <2>3. 0 = 0 * Fraction
    <3>1. Fraction \in Nat
      BY ReadingAssumption
    <3>. QED
      BY <3>1
  <2>. QED
    BY <1>1, <1>5, <2>1, <2>2, <2>3, NothingSounds
<1>8. Begun(pending')
  BY <1>1, NothingSounds
<1>. QED
  BY <1>1, <1>6, <1>7, <1>8 DEF CleanInv

LEMMA CleanAfterThePart ==
  ASSUME ReaderInv, CleanInv, NEW around \in Surroundings, EndPart(around)
  PROVE  CleanInv'
<1> DEFINE x == [measures |-> measures]
           ties == ResolvedTies(x)
           part == Tied(x, ties.links)
           list == WithMusic(WithMusic(PartList(around.declared), OwnId, part.measures),
                             around.other, Bars(around.bars))
           n == Len(measures)
<1>1. /\ phase' = "read" /\ pending = <<>>
      /\ UNCHANGED <<cursor, exact, pending, measures, said>>
      /\ repairs \subseteq repairs' /\ list.repairs \subseteq repairs'
      /\ score'.parts = list.parts /\ score'.repairs = repairs'
  <2> DEFINE loose == When(ties.loose, "tie without start")
             starts == When(ties.starts # {}, "tie without stop")
  <2>1. repairs' = repairs \cup list.repairs \cup loose \cup starts
    BY DEF EndPart
  <2>2. /\ phase' = "read" /\ pending = <<>>
        /\ UNCHANGED <<cursor, exact, pending, measures, said>>
    BY DEF EndPart, place
  <2>3. score'.parts = list.parts /\ score'.repairs = repairs'
    BY DEF EndPart
  <2>. HIDE DEF loose, starts, list, part
  <2>. QED
    BY <2>1, <2>2, <2>3
<1>2. x.measures = measures /\ "measures" \in DOMAIN x /\ FileTies' = TiesOf(x)
  BY <1>1 DEF FileTies
<1>3. IsBars(measures) /\ DOMAIN measures = 1..n
  BY DEF ReaderInv, IsBars, IsList
<1>. HIDE DEF x, n
<1>4. /\ DOMAIN part.measures = DOMAIN measures
      /\ \A m \in DOMAIN measures :
           /\ VoicesSound(part.measures[m].voices, m) = VoicesSound(measures[m].voices, m)
           /\ ExactVoices(measures[m].voices) => ExactVoices(part.measures[m].voices)
  <2> DEFINE L == ties.links
  <2>. HIDE DEF L
  <2>1. /\ DOMAIN Tied(x, L).measures = DOMAIN x.measures
        /\ \A m \in DOMAIN x.measures :
             /\ VoicesSound(Tied(x, L).measures[m].voices, m) = VoicesSound(x.measures[m].voices, m)
             /\ ExactVoices(x.measures[m].voices) => ExactVoices(Tied(x, L).measures[m].voices)
    BY <1>2, <1>3, TyingKeepsSound
  <2>. QED
    BY <1>2, <2>1 DEF L
<1>5. said = BarsSound(measures)
  <2>1. VoicesSound(pending, Len(measures) + 1) = {}
    BY <1>1, NothingSounds
  <2>. QED
    BY <2>1 DEF CleanInv
<1>6. said = UNION {VoicesSound(part.measures[m].voices, m) : m \in 1..n}
  <2>. HIDE DEF part
  <2>1. {VoicesSound(part.measures[m].voices, m) : m \in 1..n}
          = {VoicesSound(measures[m].voices, m) : m \in 1..n}
    BY <1>3, <1>4
  <2>. QED
    BY <1>3, <1>5, <2>1 DEF BarsSound
<1>7. IsList(part.measures) /\ Links(part) = TiesOf(x) /\ EndsInside(part)
  <2> DEFINE L == ties.links
  <2>1. Links(part) = TiesOf(x) /\ EndsInside(part)
    BY <1>2, <1>3, TiesAreStraight
  <2>2. part.measures = Tied([measures |-> measures], L).measures
    BY DEF x
  <2>. HIDE DEF L
  <2>3. IsBars(Tied([measures |-> measures], L).measures)
    BY <1>3, TiedBars
  <2>. QED
    BY <2>1, <2>2, <2>3 DEF IsBars
<1>8. ASSUME repairs' \subseteq Harmless PROVE IsClean(score', n, said, FileTies')
  <2>1. repairs \subseteq Harmless /\ list.repairs \subseteq Harmless
    <3>. HIDE DEF list, Harmless
    <3>. QED
      BY <1>1, <1>8
  <2>2. ExactBars(measures)
    BY <2>1 DEF CleanInv
  <2>3. IsList(around.declared)
    <3>1. around.declared \in Seq({around.declared[i] : i \in DOMAIN around.declared})
      BY ReadingAssumption
    <3>. QED
      BY <3>1, SeqIsAList
  <2>. HIDE DEF part
  <2> DEFINE bars == Bars(around.bars)
  <2>4. \E p \in DOMAIN list.parts :
          /\ list.parts[p].id = OwnId
          /\ list.parts[p].measures \in {part.measures, part.measures \o bars}
    BY <1>7, <2>1, <2>3, OwnPartIsThere
  <2>. HIDE DEF bars
  <2>5. PICK p \in DOMAIN list.parts :
          /\ list.parts[p].id = OwnId
          /\ list.parts[p].measures \in {part.measures, part.measures \o bars}
    BY <2>4
  <2>. HIDE DEF list
  <2> DEFINE y == score'.parts[p]
  <2>6. /\ p \in DOMAIN score'.parts /\ y.id = OwnId
        /\ y.measures \in {part.measures, part.measures \o bars}
    BY <1>1, <2>5
  <2>. HIDE DEF y
  <2>7. RestsFollow(part, y)
    <3>1. CASE y.measures = part.measures
      BY <3>1 DEF RestsFollow
    <3>2. CASE y.measures = part.measures \o bars
      <4>1. around.bars \in Seq(Nat \ {0})
        BY ReadingAssumption
      <4>. QED
        BY <1>7, <3>2, <4>1, BarsOfRestFollow DEF bars
    <3>. QED
      BY <2>6, <3>1, <3>2
  <2>8. Links(y) = FileTies'
    BY <1>2, <1>7, <2>7, FollowedByRests
  <2>9. /\ 1..n \subseteq DOMAIN y.measures
        /\ \A m \in 1..n : y.measures[m] = part.measures[m]
    BY <1>3, <1>4, <2>7 DEF RestsFollow
  <2>10. said = UNION {VoicesSound(y.measures[m].voices, m) : m \in 1..n}
    <3>1. {VoicesSound(y.measures[m].voices, m) : m \in 1..n}
            = {VoicesSound(part.measures[m].voices, m) : m \in 1..n}
      BY <2>9
    <3>. QED
      BY <1>6, <3>1
  <2>11. \A m \in 1..n : ExactVoices(y.measures[m].voices)
    BY <1>3, <1>4, <2>2, <2>9 DEF ExactBars
  <2>12. Bears(y, n, said, FileTies')
    BY <2>8, <2>9, <2>10, <2>11 DEF Bears
  <2>. QED
    BY <2>6, <2>12 DEF IsClean, y
<1>9. repairs' \subseteq Harmless =>
        exact' = cursor' * Fraction /\ ExactVoices(pending') /\ ExactBars(measures')
  <2>. SUFFICES ASSUME repairs' \subseteq Harmless
                PROVE  exact = cursor * Fraction /\ ExactVoices(pending) /\ ExactBars(measures)
    BY <1>1
  <2>1. repairs \subseteq Harmless
    <3>. HIDE DEF list, part
    <3>. QED
      BY <1>1
  <2>. QED
    BY <2>1 DEF CleanInv
<1>. HIDE DEF list, part
<1>10. Begun(pending')
  BY <1>1 DEF CleanInv
<1>11. said' = BarsSound(measures') \cup VoicesSound(pending', Len(measures') + 1)
  BY <1>1 DEF CleanInv
<1>12. score'.repairs \subseteq Harmless => IsClean(score', Len(measures'), said', FileTies')
  BY <1>1, <1>8 DEF n
<1>. QED
  BY <1>9, <1>10, <1>11, <1>12 DEF CleanInv

LEMMA CleanAfterThePasses ==
  ASSUME ReaderInv, CleanInv, Freeze
  PROVE  CleanInv'
<1>1. /\ phase = "read" /\ phase' \in {"done", "structurallyInvalid"}
      /\ phase' = "done" => score' = EnforceInvariants(score)
      /\ UNCHANGED <<cursor, exact, pending, measures, repairs, said, FileTies>>
  BY DEF Freeze, place, FileTies
<1>2. IsScore(0, score)
  BY <1>1 DEF ReaderInv
<1>3. score.repairs \subseteq Harmless => IsClean(score, Len(measures), said, FileTies)
  BY <1>1 DEF CleanInv
<1>4. ASSUME phase' \in {"read", "done"}, score'.repairs \subseteq Harmless
      PROVE  IsClean(score', Len(measures), said, FileTies)
  <2>1. score' = EnforceInvariants(score)
    BY <1>1, <1>4
  <2>2. EnforceInvariants(score).repairs \subseteq Harmless
    BY <1>4, <2>1
  <2>3. IsClean(EnforceInvariants(score), Len(measures), said, FileTies)
    BY <1>2, <1>3, <2>2, PassesKeepClean
  <2>. QED
    BY <2>1, <2>3
<1>. QED
  BY <1>1, <1>4 DEF CleanInv

LEMMA CleanNext == ReaderInv /\ CleanInv /\ [Next]_vars => CleanInv'
<1>. SUFFICES ASSUME ReaderInv, CleanInv, [Next]_vars PROVE CleanInv'
  OBVIOUS
<1>1. ASSUME UNCHANGED <<cursor, exact, pending, measures, phase, score, said>>,
             repairs \subseteq repairs'
      PROVE  CleanInv'
  <2>1. repairs' \subseteq Harmless => repairs \subseteq Harmless
    BY <1>1
  <2>2. FileTies' = FileTies
    BY <1>1 DEF FileTies
  <2>. QED
    BY <1>1, <2>1, <2>2 DEF CleanInv
<1>2. ASSUME NEW note \in Notes, ReadNote(note) PROVE CleanInv'
  BY <1>2, CleanAfterANote
<1>3. ASSUME NEW a \in Attributes, ReadAttributes(a) PROVE CleanInv'
  <2>1. /\ UNCHANGED <<cursor, exact, pending, measures, phase, score, said>>
        /\ repairs \subseteq repairs'
    BY <1>3 DEF ReadAttributes, place, result
  <2>. QED
    BY <1>1, <2>1
<1>4. ASSUME NEW source \in CursorMoves, Backup(source) \/ Forward(source) PROVE CleanInv'
  BY <1>4, CleanAfterAMove
<1>5. ASSUME NEW mark \in Tempos, ReadDirection(mark) PROVE CleanInv'
  <2>1. /\ UNCHANGED <<cursor, exact, pending, measures, phase, score, said>>
        /\ repairs \subseteq repairs'
    BY <1>5 DEF ReadDirection, place, result
  <2>. QED
    BY <1>1, <2>1
<1>6. CASE EndMeasure
  BY <1>6, CleanAfterAMeasure
<1>7. ASSUME NEW around \in Surroundings, EndPart(around) PROVE CleanInv'
  BY <1>7, CleanAfterThePart
<1>8. CASE Freeze
  BY <1>8, CleanAfterThePasses
<1>9. CASE Finished \/ UNCHANGED vars
  <2>1. UNCHANGED <<cursor, exact, pending, measures, phase, score, said>>
        /\ repairs \subseteq repairs'
    BY <1>9 DEF Finished, vars
  <2>. QED
    BY <1>1, <2>1
<1>. QED
  BY <1>2, <1>3, <1>4, <1>5, <1>6, <1>7, <1>8, <1>9 DEF Next

\* A file that is imported with nothing to report but widened or padded bars is in the frozen
\* score as it stands: no note with a readable pitch is lost, moved or shortened, and the links
\* are the ties its marks write, neither more nor less, after the reader and all the passes,
\* whatever its divisions, voices, moves and list of parts.  As in the theorem on ties, the
\* notes of the file stand in one <part>.
THEOREM CleanImportStaysExact == Spec => []CleanImportIsExact
<1>1. ReaderInv /\ CleanInv /\ [Next]_vars => CleanInv'
  BY CleanNext
<1>2. ReaderInv /\ CleanInv => CleanImportIsExact
  <2>. SUFFICES ASSUME ReaderInv, CleanInv, phase = "done", score.repairs \subseteq Harmless
                PROVE  /\ said = UNION {{[id |-> note.id, bar |-> x.bar] :
                                            note \in Range(x.event.notes)} : x \in OwnEvents}
                       /\ \A x \in OwnEvents : /\ x.event.onset * Fraction = x.event.at
                                               /\ x.event.duration * Fraction = x.event.length
                       /\ Links(Own) = FileTies
    BY Zenon DEF CleanImportIsExact, Harmless
  <2>1. NamedApart(score)
    BY DEF ReaderInv, IsRepaired
  <2>2. IsClean(score, Len(measures), said, FileTies)
    BY DEF CleanInv
  <2>. QED
    BY <2>1, <2>2, CleanIsExact
<1>. QED
  BY CleanInit, <1>1, <1>2, ReaderKeepsNumbers, PTL DEF Spec

=============================================================================
