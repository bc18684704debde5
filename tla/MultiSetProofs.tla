--------------------------- MODULE MultiSetProofs ---------------------------
(***************************************************************************)
(* MultiSetWithVersion for any tree, any items, any number of workers and  *)
(* any interleaving of its goroutines. First the paths of the keys through *)
(* the tree, the numbers of the internal hashes on them, and what the      *)
(* model's operators on hashes compute; then the shape of every state, and *)
(* what the call leaves behind.                                            *)
(***************************************************************************)
EXTENDS MultiSet, SequenceTheorems, TLAPS

\* The node at a depth on the path of a key.
P(k, d) == SubSeq(k, 1, d)

\* The keys that are set.
ItemKeys == {g.key : g \in Items}

----------------------------------------------------------------------------
(* Paths.                                                                  *)

LEMMA KeyFacts ==
    ASSUME NEW k \in Keys
    PROVE  /\ k \in Seq(0 .. 15) /\ Len(k) = Levels /\ Levels \in Nat \ {0}
           /\ \A i \in 1 .. Levels : k[i] \in 0 .. 15
<1>1. (CHOOSE kk \in Keys : TRUE) \in Keys OBVIOUS
<1>2. k \in Seq(0 .. 15) /\ Len(k) > 0 /\ Len(k) = Levels BY <1>1, MultiSetAssumption DEF Levels
<1> QED BY <1>2, ElementOfSeq

\* The prefix of a key: its length, its fields, where it is in the tree.
LEMMA PathFacts ==
    ASSUME NEW k \in Keys, NEW d \in 0 .. Levels
    PROVE  /\ P(k, d) \in Seq(0 .. 15) /\ Len(P(k, d)) = d
           /\ \A i \in 1 .. d : P(k, d)[i] = k[i]
           /\ P(k, d) \in Prefixes(k)
<1>1. k \in Seq(0 .. 15) /\ Len(k) = Levels /\ Levels \in Nat BY KeyFacts
<1>2. P(k, d) \in Seq(0 .. 15) /\ Len(P(k, d)) = d /\ \A i \in 1 .. d : P(k, d)[i] = k[i]
    BY <1>1 DEF P
<1>3. P(k, d) \in Prefixes(k) BY <1>1 DEF P, Prefixes
<1> QED BY <1>2, <1>3

LEMMA FullPath ==
    ASSUME NEW k \in Keys PROVE P(k, Levels) = k
<1>1. k \in Seq(0 .. 15) /\ Len(k) = Levels /\ Levels \in 0 .. Levels BY KeyFacts
<1>2. P(k, Levels) \in Seq(0 .. 15) /\ Len(P(k, Levels)) = Levels
      /\ \A i \in 1 .. Levels : P(k, Levels)[i] = k[i]
    BY <1>1, PathFacts
<1> QED BY <1>1, <1>2, SeqEqual

LEMMA EmptyPath ==
    ASSUME NEW k \in Keys PROVE P(k, 0) = <<>>
<1>1. 0 \in 0 .. Levels BY KeyFacts
<1>2. P(k, 0) \in Seq(0 .. 15) /\ Len(P(k, 0)) = 0 BY <1>1, PathFacts
<1> QED BY <1>2, EmptySeq

\* A node is a prefix of a key at its own depth only.
LEMMA PrefixIff ==
    ASSUME NEW k \in Keys, NEW n
    PROVE  /\ n \in Prefixes(k) => Len(n) \in 0 .. Levels /\ n = P(k, Len(n))
           /\ \A d \in 0 .. Levels : n = P(k, d) => n \in Prefixes(k) /\ Len(n) = d
<1>1. Len(k) = Levels BY KeyFacts
<1>2. ASSUME n \in Prefixes(k) PROVE Len(n) \in 0 .. Levels /\ n = P(k, Len(n))
    <2>1. PICK d \in 0 .. Levels : n = P(k, d) BY <1>1, <1>2 DEF Prefixes, P
    <2>2. Len(n) = d BY <2>1, PathFacts
    <2> QED BY <2>1, <2>2
<1> QED BY <1>2, PathFacts

\* The nodes with children are the proper prefixes of the keys.
LEMMA InnerFacts ==
    /\ \A k \in Keys, d \in 0 .. Levels : d < Levels => P(k, d) \in Inner
    /\ \A n \in Inner :
          /\ n \notin Keys /\ Len(n) \in Nat /\ Len(n) < Levels /\ n \in Seq(0 .. 15)
          /\ \E k \in Keys : n = P(k, Len(n))
<1>1. ASSUME NEW k \in Keys, NEW d \in 0 .. Levels, d < Levels PROVE P(k, d) \in Inner
    <2>1. P(k, d) \in Prefixes(k) /\ Len(P(k, d)) = d BY PathFacts
    <2>2. Len(k) = Levels /\ Levels \in Nat BY KeyFacts
    <2>3. P(k, d) # k BY <1>1, <2>1, <2>2
    <2> QED BY <2>1, <2>3 DEF Inner
<1>2. ASSUME NEW n \in Inner
      PROVE  /\ n \notin Keys /\ Len(n) \in Nat /\ Len(n) < Levels /\ n \in Seq(0 .. 15)
             /\ \E k \in Keys : n = P(k, Len(n))
    <2>1. PICK k \in Keys : n \in Prefixes(k) /\ n # k BY DEF Inner
    <2>2. Len(n) \in 0 .. Levels /\ n = P(k, Len(n)) BY <2>1, PrefixIff
    <2>3. Len(n) # Levels BY <2>1, <2>2, FullPath
    <2>4. Levels \in Nat /\ n \in Seq(0 .. 15) BY <2>2, KeyFacts, PathFacts
    <2>5. n \notin Keys BY <2>3, KeyFacts
    <2> QED BY <2>2, <2>3, <2>4, <2>5
<1> QED BY <1>1, <1>2

\* Paths that meet in a node agree above it.
LEMMA PathsMeet ==
    ASSUME NEW k \in Keys, NEW kk \in Keys, NEW d \in 0 .. Levels, P(k, d) = P(kk, d)
    PROVE  /\ \A e \in 0 .. d : P(k, e) = P(kk, e)
           /\ \A e \in 1 .. d : k[e] = kk[e]
<1>0. Levels \in Nat BY KeyFacts
<1>1. \A e \in 1 .. d : k[e] = kk[e] BY PathFacts
<1>2. ASSUME NEW e \in 0 .. d PROVE P(k, e) = P(kk, e)
    <2>1. e \in 0 .. Levels BY <1>0
    <2>2. /\ P(k, e) \in Seq(0 .. 15) /\ Len(P(k, e)) = e
          /\ P(kk, e) \in Seq(0 .. 15) /\ Len(P(kk, e)) = e
          /\ \A i \in 1 .. e : P(k, e)[i] = k[i] /\ P(kk, e)[i] = kk[i]
        BY <2>1, PathFacts
    <2>3. \A i \in 1 .. e : P(k, e)[i] = P(kk, e)[i] BY <1>0, <1>1, <2>2
    <2> QED BY <2>2, <2>3, SeqEqual
<1> QED BY <1>1, <1>2

LEMMA PathsGoOn ==
    ASSUME NEW k \in Keys, NEW kk \in Keys, NEW d \in 1 .. Levels,
           P(k, d - 1) = P(kk, d - 1), k[d] = kk[d]
    PROVE  P(k, d) = P(kk, d)
<1>0. Levels \in Nat /\ d - 1 \in 0 .. Levels /\ d \in 0 .. Levels BY KeyFacts
<1>1. \A e \in 1 .. d - 1 : k[e] = kk[e] BY <1>0, PathsMeet
<1>2. \A e \in 1 .. d : k[e] = kk[e] BY <1>0, <1>1
<1>3. /\ P(k, d) \in Seq(0 .. 15) /\ Len(P(k, d)) = d
      /\ P(kk, d) \in Seq(0 .. 15) /\ Len(P(kk, d)) = d
      /\ \A i \in 1 .. d : P(k, d)[i] = k[i] /\ P(kk, d)[i] = kk[i]
    BY <1>0, PathFacts
<1>4. \A i \in 1 .. d : P(k, d)[i] = P(kk, d)[i] BY <1>2, <1>3
<1> QED BY <1>3, <1>4, SeqEqual

\* Parent and sibling of a node on a path.
LEMMA ParentFacts ==
    ASSUME NEW k \in Keys, NEW e \in 1 .. Levels
    PROVE  /\ ParentOf(P(k, e)) = P(k, e - 1)
           /\ Nibble(P(k, e)) = k[e] /\ k[e] \in 0 .. 15
<1>0. Levels \in Nat /\ e - 1 \in 0 .. Levels /\ e \in 0 .. Levels BY KeyFacts
<1> DEFINE c == P(k, e)
           p == P(k, e - 1)
<1>1. c \in Seq(0 .. 15) /\ Len(c) = e /\ \A i \in 1 .. e : c[i] = k[i] BY <1>0, PathFacts
<1>2. p \in Seq(0 .. 15) /\ Len(p) = e - 1 /\ \A i \in 1 .. e - 1 : p[i] = k[i]
    BY <1>0, PathFacts
<1> HIDE DEF c, p
<1>3. ParentOf(c) \in Seq(0 .. 15) /\ Len(ParentOf(c)) = e - 1
      /\ \A i \in 1 .. e - 1 : ParentOf(c)[i] = c[i]
    BY <1>0, <1>1 DEF ParentOf
<1>4. \A i \in 1 .. e - 1 : ParentOf(c)[i] = p[i] BY <1>0, <1>1, <1>2, <1>3
<1>5. ParentOf(c) = p BY <1>2, <1>3, <1>4, SeqEqual
<1>6. Nibble(c) = k[e] BY <1>0, <1>1 DEF Nibble
<1>7. k[e] \in 0 .. 15 BY KeyFacts
<1> QED BY <1>5, <1>6, <1>7 DEF c, p

LEMMA SiblingFacts ==
    ASSUME NEW k \in Keys, NEW e \in 1 .. Levels, NEW kk \in Keys
    PROVE  /\ SiblingOf(P(k, e)) \in Prefixes(kk) <=>
                 P(kk, e - 1) = P(k, e - 1) /\ kk[e] = Flip(k[e])
           /\ SiblingOf(P(k, e)) \in Prefixes(kk) => SiblingOf(P(k, e)) = P(kk, e)
           /\ Len(SiblingOf(P(k, e))) = e
<1>0. Levels \in Nat /\ e - 1 \in 0 .. Levels /\ e \in 0 .. Levels BY KeyFacts
<1> DEFINE s == SiblingOf(P(k, e))
           p == P(k, e - 1)
           x == Flip(k[e])
           S == (0 .. 15) \cup {x}
<1>1. s = Append(p, x) BY ParentFacts DEF SiblingOf
<1>2. p \in Seq(0 .. 15) /\ Len(p) = e - 1 BY <1>0, PathFacts
<1>3. p \in Seq(S) /\ x \in S BY <1>2, SeqMonotonic
<1> HIDE DEF p, x, S, s
<1>4. s \in Seq(S) /\ Len(s) = e /\ s[e] = x /\ \A i \in 1 .. e - 1 : s[i] = p[i]
    BY <1>0, <1>1, <1>2, <1>3, AppendProperties
<1>5. /\ P(kk, e) \in Seq(0 .. 15) /\ Len(P(kk, e)) = e /\ \A i \in 1 .. e : P(kk, e)[i] = kk[i]
      /\ P(kk, e - 1) \in Seq(0 .. 15) /\ Len(P(kk, e - 1)) = e - 1
      /\ \A i \in 1 .. e - 1 : P(kk, e - 1)[i] = kk[i]
    BY <1>0, PathFacts
<1>6. s \in Prefixes(kk) => s = P(kk, e) BY <1>4, PrefixIff
<1>7. ASSUME s = P(kk, e) PROVE P(kk, e - 1) = p /\ kk[e] = x
    <2>1. \A i \in 1 .. e - 1 : P(kk, e - 1)[i] = p[i] BY <1>0, <1>4, <1>5, <1>7
    <2>2. P(kk, e - 1) = p BY <1>2, <1>5, <2>1, SeqEqual
    <2> QED BY <1>0, <1>4, <1>5, <1>7, <2>2
<1>8. ASSUME P(kk, e - 1) = p, kk[e] = x PROVE s = P(kk, e)
    <2>1. \A i \in 1 .. e : s[i] = P(kk, e)[i] BY <1>0, <1>4, <1>5, <1>8
    <2>2. P(kk, e) \in Seq(S)
        <3>1. 0 .. 15 \subseteq S BY DEF S
        <3> QED BY <1>5, <3>1, SeqMonotonic
    <2> QED BY <1>4, <1>5, <2>1, <2>2, SeqEqual
<1>9. s = P(kk, e) => s \in Prefixes(kk) BY <1>0, PrefixIff
<1> QED BY <1>4, <1>6, <1>7, <1>8, <1>9 DEF s, p, x

----------------------------------------------------------------------------
(* Nibbles and internals.                                                  *)

Nibbles == 0 .. 15

\* The hash that is set at a stage of the way from child x to its node: an
\* internal in stages 1 to 3, the node's own hash (14) in stage 4.
Slot(st, x) == IF st = 4 THEN 14 ELSE Internal(st, x)

LEMMA InternalValues ==
    ASSUME NEW x \in Nibbles
    PROVE  /\ Internal(1, x) = 6 + x \div 2 /\ Internal(2, x) = 2 + x \div 4
           /\ Internal(3, x) = x \div 8
           /\ x \div 2 \in 0 .. 7 /\ x \div 4 \in 0 .. 3 /\ x \div 8 \in 0 .. 1
BY DEF Internal, Nibbles

LEMMA SlotValues ==
    ASSUME NEW x \in Nibbles
    PROVE  /\ Slot(1, x) = 6 + x \div 2 /\ Slot(2, x) = 2 + x \div 4 /\ Slot(3, x) = x \div 8
           /\ Slot(4, x) = 14
           /\ Slot(1, x) \in 6 .. 13 /\ Slot(2, x) \in 2 .. 5 /\ Slot(3, x) \in 0 .. 1
BY InternalValues DEF Slot

\* leafInternalMap lists the internals of stages 1 to 3.
LEMMA MapIsSlots ==
    ASSUME NEW x \in Nibbles
    PROVE  /\ leafInternalMap[x] = {Slot(1, x), Slot(2, x), Slot(3, x)}
           /\ leafInternalMap[x] \subseteq 0 .. 13
<1>1. leafInternalMap[x] = {x \div 8, 2 + x \div 4, 6 + x \div 2}
    BY DEF leafInternalMap, Nibbles
<1> HIDE DEF Nibbles
<1>2. leafInternalMap[x] = {Slot(1, x), Slot(2, x), Slot(3, x)} BY <1>1, SlotValues
<1>3. Slot(1, x) \in 0 .. 13 /\ Slot(2, x) \in 0 .. 13 /\ Slot(3, x) \in 0 .. 13
    BY SlotValues
<1> QED BY <1>2, <1>3

LEMMA FlipFacts ==
    ASSUME NEW x \in Nibbles
    PROVE  /\ Flip(x) \in Nibbles /\ Flip(x) # x /\ Flip(Flip(x)) = x
           /\ Slot(1, Flip(x)) = Slot(1, x)
           /\ \A y \in Nibbles : Slot(1, y) = Slot(1, x) => y = x \/ y = Flip(x)
<1>1. Flip(x) \in Nibbles /\ Flip(x) # x /\ Flip(Flip(x)) = x /\ Flip(x) \div 2 = x \div 2
    BY DEF Flip, Nibbles
<1>2. \A y \in Nibbles : y \div 2 = x \div 2 => y = x \/ y = Flip(x)
    BY DEF Flip, Nibbles
<1> HIDE DEF Nibbles
<1>3. /\ Slot(1, x) = 6 + x \div 2 /\ Slot(1, Flip(x)) = 6 + Flip(x) \div 2
      /\ x \div 2 \in 0 .. 7
    BY <1>1, SlotValues, InternalValues
<1>4. Slot(1, Flip(x)) = Slot(1, x) BY <1>1, <1>3
<1>5. ASSUME NEW y \in Nibbles, Slot(1, y) = Slot(1, x) PROVE y = x \/ y = Flip(x)
    <2>1. Slot(1, y) = 6 + y \div 2 /\ y \div 2 \in 0 .. 7 BY SlotValues, InternalValues
    <2>2. y \div 2 = x \div 2 BY <1>3, <1>5, <2>1
    <2> QED BY <1>2, <2>2
<1> QED BY <1>1, <1>4, <1>5

\* Siblings among the internals share the next stage, and nothing else does.
LEMMA SlotSiblings ==
    ASSUME NEW x \in Nibbles, NEW y \in Nibbles, NEW st \in 1 .. 3
    PROVE  /\ Flip(Slot(st, x)) \in 0 .. 13 /\ Flip(Slot(st, x)) # Slot(st, x)
           /\ Slot(st, y) = Slot(st, x) => Slot(st + 1, y) = Slot(st + 1, x)
           /\ Slot(st, y) = Flip(Slot(st, x)) => Slot(st + 1, y) = Slot(st + 1, x)
           /\ Slot(st + 1, y) = Slot(st + 1, x) =>
                 Slot(st, y) = Slot(st, x) \/ Slot(st, y) = Flip(Slot(st, x))
<1>1. CASE st = 1
    <2>1. /\ Flip(6 + x \div 2) \in 0 .. 13 /\ Flip(6 + x \div 2) # 6 + x \div 2
          /\ 6 + y \div 2 = 6 + x \div 2 => y \div 4 = x \div 4
          /\ 6 + y \div 2 = Flip(6 + x \div 2) => y \div 4 = x \div 4
          /\ y \div 4 = x \div 4 => \/ 6 + y \div 2 = 6 + x \div 2
                                    \/ 6 + y \div 2 = Flip(6 + x \div 2)
        BY DEF Flip, Nibbles
    <2>2. Slot(1, x) = 6 + x \div 2 /\ Slot(1, y) = 6 + y \div 2
          /\ Slot(2, x) = 2 + x \div 4 /\ Slot(2, y) = 2 + y \div 4
          /\ x \div 4 \in 0 .. 3 /\ y \div 4 \in 0 .. 3
        BY SlotValues, InternalValues
    <2>3. Slot(2, y) = Slot(2, x) <=> y \div 4 = x \div 4 BY <2>2
    <2> HIDE DEF Nibbles
    <2> QED BY <1>1, <2>1, <2>2, <2>3
<1>2. CASE st = 2
    <2>1. /\ Flip(2 + x \div 4) \in 0 .. 13 /\ Flip(2 + x \div 4) # 2 + x \div 4
          /\ 2 + y \div 4 = 2 + x \div 4 => y \div 8 = x \div 8
          /\ 2 + y \div 4 = Flip(2 + x \div 4) => y \div 8 = x \div 8
          /\ y \div 8 = x \div 8 => \/ 2 + y \div 4 = 2 + x \div 4
                                    \/ 2 + y \div 4 = Flip(2 + x \div 4)
        BY DEF Flip, Nibbles
    <2>2. Slot(2, x) = 2 + x \div 4 /\ Slot(2, y) = 2 + y \div 4
          /\ Slot(3, x) = x \div 8 /\ Slot(3, y) = y \div 8
        BY SlotValues
    <2> HIDE DEF Nibbles
    <2> QED BY <1>2, <2>1, <2>2
<1>3. CASE st = 3
    <2>1. /\ Flip(x \div 8) \in 0 .. 13 /\ Flip(x \div 8) # x \div 8
          /\ y \div 8 = x \div 8 \/ y \div 8 = Flip(x \div 8)
        BY DEF Flip, Nibbles
    <2>2. Slot(3, x) = x \div 8 /\ Slot(3, y) = y \div 8 /\ Slot(4, x) = 14 /\ Slot(4, y) = 14
        BY SlotValues
    <2> HIDE DEF Nibbles
    <2> QED BY <1>3, <2>1, <2>2
<1> QED BY <1>1, <1>2, <1>3

\* An internal of a stage is on the way of the children of that stage only.
LEMMA StageOfSlot ==
    ASSUME NEW x \in Nibbles, NEW y \in Nibbles, NEW st \in 1 .. 3
    PROVE  /\ Slot(st, x) \in leafInternalMap[y] <=> Slot(st, y) = Slot(st, x)
           /\ Flip(Slot(st, x)) \in leafInternalMap[y] <=> Slot(st, y) = Flip(Slot(st, x))
<1>1. /\ Slot(1, x) \in 6 .. 13 /\ Slot(2, x) \in 2 .. 5 /\ Slot(3, x) \in 0 .. 1
      /\ Slot(1, y) \in 6 .. 13 /\ Slot(2, y) \in 2 .. 5 /\ Slot(3, y) \in 0 .. 1
    BY SlotValues
<1>2. /\ Flip(Slot(1, x)) \in 6 .. 13 /\ Flip(Slot(2, x)) \in 2 .. 5
      /\ Flip(Slot(3, x)) \in 0 .. 1
    <2> DEFINE a == Slot(1, x)
               b == Slot(2, x)
               c == Slot(3, x)
    <2>1. a \in 6 .. 13 /\ b \in 2 .. 5 /\ c \in 0 .. 1 BY <1>1
    <2> HIDE DEF a, b, c
    <2>2. Flip(a) \in 6 .. 13 BY <2>1 DEF Flip
    <2>3. Flip(b) \in 2 .. 5 BY <2>1 DEF Flip
    <2>4. Flip(c) \in 0 .. 1 BY <2>1 DEF Flip
    <2> QED BY <2>2, <2>3, <2>4 DEF a, b, c
<1>3. leafInternalMap[y] = {Slot(1, y), Slot(2, y), Slot(3, y)} BY MapIsSlots
<1>4. \A z : z \in leafInternalMap[y] <=> z = Slot(1, y) \/ z = Slot(2, y) \/ z = Slot(3, y)
    BY <1>3
<1>5. CASE st = 1 BY <1>1, <1>2, <1>4, <1>5
<1>6. CASE st = 2 BY <1>1, <1>2, <1>4, <1>6
<1>7. CASE st = 3 BY <1>1, <1>2, <1>4, <1>7
<1> QED BY <1>5, <1>6, <1>7

----------------------------------------------------------------------------
(* What Hash computes.                                                     *)

\* The halves of a content have the type of a content.
LEMMA ContentTypes ==
    ASSUME NEW c, \A k \in Keys : c[k] \in Values, NEW n, NEW i
    PROVE  Below(c, n) \in Content /\ InternalContent(c, n, i) \in Content
BY DEF Below, InternalContent, Content, Values

LEMMA HashType ==
    ASSUME NEW l \in Content, NEW r \in Content PROVE Hash(l, r) \in Content
BY DEF Hash, Merge, Content, Values

\* Two siblings make the internal above them.
LEMMA MergeOfChildren ==
    ASSUME NEW c, NEW k \in Keys, NEW e \in 1 .. Levels
    PROVE  Merge(Below(c, P(k, e)), Below(c, SiblingOf(P(k, e)))) =
               InternalContent(c, P(k, e - 1), Slot(1, k[e]))
<1> DEFINE m == P(k, e)
           s == SiblingOf(m)
           n == P(k, e - 1)
           l == Below(c, m)
           r == Below(c, s)
<1>0. Levels \in Nat /\ e \in 0 .. Levels /\ e - 1 \in 0 .. Levels /\ k[e] \in Nibbles
    BY KeyFacts DEF Nibbles
<1>1. ASSUME NEW kk \in Keys
      PROVE  Merge(l, r)[kk] = InternalContent(c, n, Slot(1, k[e]))[kk]
    <2>0. kk[e] \in Nibbles BY <1>0, KeyFacts DEF Nibbles
    <2>1. Len(n) + 1 = e /\ kk[e] \in Nibbles
        <3>1. Len(n) = e - 1 BY <1>0, PathFacts
        <3> QED BY <1>0, <2>0, <3>1
    <2>2. n \in Prefixes(kk) <=> P(kk, e - 1) = n
        <3>1. Len(n) = e - 1 BY <1>0, PathFacts
        <3> HIDE DEF n
        <3> QED BY <1>0, <3>1, PrefixIff
    <2>3. m \in Prefixes(kk) <=> P(kk, e - 1) = n /\ kk[e] = k[e]
        <3>1. m \in Prefixes(kk) <=> P(kk, e) = m BY <1>0, PathFacts, PrefixIff
        <3>2. P(kk, e) = P(k, e) => P(kk, e - 1) = n /\ kk[e] = k[e]
            BY <1>0, PathsMeet
        <3> QED BY <3>1, <3>2, PathsGoOn
    <2>4. s \in Prefixes(kk) <=> P(kk, e - 1) = n /\ kk[e] = Flip(k[e]) BY SiblingFacts
    <2>5. Slot(1, k[e]) \in leafInternalMap[kk[e]] <=> kk[e] = k[e] \/ kk[e] = Flip(k[e])
        BY <1>0, <2>1, StageOfSlot, FlipFacts
    <2>6. InternalContent(c, n, Slot(1, k[e]))[kk] =
              IF n \in Prefixes(kk) /\ Slot(1, k[e]) \in leafInternalMap[kk[e]]
              THEN c[kk] ELSE Nil
        BY <2>1 DEF InternalContent
    <2>7. /\ l[kk] = IF m \in Prefixes(kk) THEN c[kk] ELSE Nil
          /\ r[kk] = IF s \in Prefixes(kk) THEN c[kk] ELSE Nil
        BY DEF Below
    <2>8. Merge(l, r)[kk] = IF l[kk] # Nil THEN l[kk] ELSE r[kk] BY DEF Merge
    <2> HIDE DEF l, r, m, s, n
    <2> QED BY <2>2, <2>3, <2>4, <2>5, <2>6, <2>7, <2>8
<1>2. /\ Merge(l, r) = [kk \in Keys |-> Merge(l, r)[kk]]
      /\ InternalContent(c, n, Slot(1, k[e])) =
             [kk \in Keys |-> InternalContent(c, n, Slot(1, k[e]))[kk]]
    BY DEF Merge, InternalContent
<1> HIDE DEF l, r, m, s, n
<1>3. Merge(l, r) = InternalContent(c, n, Slot(1, k[e])) BY <1>1, <1>2
<1> QED BY <1>3 DEF l, r, m, s, n

\* Two sibling internals make the one above them, and the last two the node.
LEMMA MergeOfInternals ==
    ASSUME NEW c, NEW n \in Inner, NEW x \in Nibbles, NEW st \in 1 .. 3
    PROVE  LET h == Merge(InternalContent(c, n, Slot(st, x)),
                         InternalContent(c, n, Flip(Slot(st, x))))
           IN  /\ st < 3 => h = InternalContent(c, n, Slot(st + 1, x))
               /\ st = 3 => h = Below(c, n)
<1> DEFINE i == Slot(st, x)
           l == InternalContent(c, n, i)
           r == InternalContent(c, n, Flip(i))
           h == Merge(l, r)
<1>1. ASSUME NEW kk \in Keys
      PROVE  /\ st < 3 => h[kk] = InternalContent(c, n, Slot(st + 1, x))[kk]
             /\ st = 3 => h[kk] = Below(c, n)[kk]
    <2> DEFINE y == kk[Len(n) + 1]
    <2>1. y \in Nibbles
        <3>1. Len(n) + 1 \in 1 .. Levels BY InnerFacts, KeyFacts
        <3> QED BY <3>1, KeyFacts DEF Nibbles
    <2> HIDE DEF y
    <2>2. /\ i \in leafInternalMap[y] <=> Slot(st, y) = Slot(st, x)
          /\ Flip(i) \in leafInternalMap[y] <=> Slot(st, y) = Flip(Slot(st, x))
        BY <2>1, StageOfSlot
    <2>3. Slot(st + 1, y) = Slot(st + 1, x) <=>
              Slot(st, y) = Slot(st, x) \/ Slot(st, y) = Flip(Slot(st, x))
        BY <2>1, SlotSiblings
    <2>4. /\ l[kk] = IF n \in Prefixes(kk) /\ i \in leafInternalMap[y] THEN c[kk] ELSE Nil
          /\ r[kk] = IF n \in Prefixes(kk) /\ Flip(i) \in leafInternalMap[y] THEN c[kk] ELSE Nil
          /\ InternalContent(c, n, Slot(st + 1, x))[kk] =
                 IF n \in Prefixes(kk) /\ Slot(st + 1, x) \in leafInternalMap[y]
                 THEN c[kk] ELSE Nil
          /\ Below(c, n)[kk] = IF n \in Prefixes(kk) THEN c[kk] ELSE Nil
          /\ h[kk] = IF l[kk] # Nil THEN l[kk] ELSE r[kk]
        BY DEF InternalContent, Below, Merge, y
    <2> HIDE DEF h, l, r, i
    <2>5. CASE st < 3
        <3>1. st + 1 \in 1 .. 3 BY <2>5
        <3>2. Slot(st + 1, x) \in leafInternalMap[y] <=> Slot(st + 1, y) = Slot(st + 1, x)
            BY <2>1, <3>1, StageOfSlot
        <3> QED BY <2>2, <2>3, <2>4, <2>5, <3>2
    <2>6. CASE st = 3
        <3>1. Slot(4, y) = 14 /\ Slot(4, x) = 14 BY <2>1, SlotValues
        <3>2. i \in leafInternalMap[y] \/ Flip(i) \in leafInternalMap[y]
            BY <2>2, <2>3, <2>6, <3>1
        <3> QED BY <2>4, <2>6, <3>2
    <2> QED BY <2>5, <2>6
<1>2. /\ h = [kk \in Keys |-> h[kk]]
      /\ InternalContent(c, n, Slot(st + 1, x)) =
             [kk \in Keys |-> InternalContent(c, n, Slot(st + 1, x))[kk]]
      /\ Below(c, n) = [kk \in Keys |-> Below(c, n)[kk]]
    BY DEF Merge, InternalContent, Below
<1> HIDE DEF h
<1>3. CASE st < 3 BY <1>1, <1>2, <1>3 DEF h
<1>4. CASE st = 3 BY <1>1, <1>2, <1>4 DEF h
<1> QED BY <1>3, <1>4 DEF h, l, r, i

\* Keys below a node come in the order of the children they are below.
LEMMA InOrder ==
    ASSUME NEW n \in Inner, NEW k \in Keys, NEW kk \in Keys, n \in Prefixes(k),
           n \in Prefixes(kk), k[Len(n) + 1] < kk[Len(n) + 1]
    PROVE  Precedes(k, kk)
<1>1. Len(n) \in Nat /\ Len(n) + 1 \in 1 .. Levels BY InnerFacts, KeyFacts
<1>2. P(k, Len(n)) = n /\ P(kk, Len(n)) = n
    <2>1. Len(n) \in 0 .. Levels BY <1>1, KeyFacts
    <2> QED BY <2>1, PrefixIff
<1>3. Len(n) + 1 \in 1 .. Len(k) /\ (Len(n) + 1) - 1 = Len(n) BY <1>1, KeyFacts
<1> QED BY <1>2, <1>3 DEF Precedes, P

\* l and r are parts of c below n, and l is to the left of r.
Halves(c, n, l, r) ==
    /\ \A k \in Keys : (l[k] # Nil => l[k] = c[k]) /\ (r[k] # Nil => r[k] = c[k])
    /\ \A k \in Keys : l[k] # Nil \/ r[k] # Nil => n \in Prefixes(k)
    /\ \A k, kk \in Keys : l[k] # Nil /\ r[kk] # Nil => k[Len(n) + 1] < kk[Len(n) + 1]

LEMMA HashOfHalves ==
    ASSUME NEW c, NEW n \in Inner, NEW l, NEW r, Halves(c, n, l, r)
    PROVE  Hash(l, r) = Merge(l, r) /\ Hash(l, r) = Merge(r, l)
<1>1. \A k, kk \in Keys : l[k] # Nil /\ r[kk] # Nil => Precedes(k, kk)
    BY InOrder DEF Halves
<1>2. Merge(l, r) = Merge(r, l)
    <2>1. \A k \in Keys : (IF l[k] # Nil THEN l[k] ELSE r[k]) = (IF r[k] # Nil THEN r[k] ELSE l[k])
        BY DEF Halves
    <2> QED BY <2>1 DEF Merge
<1> QED BY <1>1, <1>2 DEF Hash

\* The parities recompute looks at are those of the places in Children and
\* Internals.
LEMMA LeftIsEven ==
    ASSUME NEW x \in Nibbles
    PROVE  /\ Flip(x) = IF OnLeft(1, x) THEN x + 1 ELSE x - 1
           /\ Flip(Slot(1, x)) = IF OnLeft(2, x) THEN Slot(1, x) + 1 ELSE Slot(1, x) - 1
           /\ Flip(Slot(2, x)) = IF OnLeft(3, x) THEN Slot(2, x) + 1 ELSE Slot(2, x) - 1
<1>1. /\ OnLeft(1, x) <=> x % 2 = 0
      /\ OnLeft(2, x) <=> (x \div 2) % 2 = 0
      /\ OnLeft(3, x) <=> (x \div 4) % 2 = 0
    BY DEF OnLeft
<1>2. Slot(1, x) = 6 + x \div 2 /\ Slot(2, x) = 2 + x \div 4 BY SlotValues
<1>3. /\ (6 + x \div 2) % 2 = 0 <=> (x \div 2) % 2 = 0
      /\ (2 + x \div 4) % 2 = 0 <=> (x \div 4) % 2 = 0
    BY DEF Nibbles
<1> QED BY <1>1, <1>2, <1>3 DEF Flip

\* The children below a left internal are to the left.
LEMMA SlotOrder ==
    ASSUME NEW x \in Nibbles, NEW y \in Nibbles, NEW st \in 1 .. 3, Slot(st, x) < Slot(st, y)
    PROVE  x < y
<1>1. /\ Slot(1, x) = 6 + x \div 2 /\ Slot(1, y) = 6 + y \div 2
      /\ Slot(2, x) = 2 + x \div 4 /\ Slot(2, y) = 2 + y \div 4
      /\ Slot(3, x) = x \div 8 /\ Slot(3, y) = y \div 8
    BY SlotValues
<1>2. /\ 6 + x \div 2 < 6 + y \div 2 => x < y
      /\ 2 + x \div 4 < 2 + y \div 4 => x < y
      /\ x \div 8 < y \div 8 => x < y
    BY DEF Nibbles
<1> QED BY <1>1, <1>2

\* A child and its sibling, in the order of their places.
LEMMA HashOfChildren ==
    ASSUME NEW c, NEW k \in Keys, NEW e \in 1 .. Levels
    PROVE  LET own == Below(c, P(k, e))
               other == Below(c, SiblingOf(P(k, e)))
           IN  (IF OnLeft(1, k[e]) THEN Hash(own, other) ELSE Hash(other, own)) =
                   InternalContent(c, P(k, e - 1), Slot(1, k[e]))
<1> DEFINE n == P(k, e - 1)
           x == k[e]
           own == Below(c, P(k, e))
           other == Below(c, SiblingOf(P(k, e)))
<1>0. Levels \in Nat /\ e \in 0 .. Levels /\ e - 1 \in 0 .. Levels - 1 /\ x \in Nibbles
    BY KeyFacts DEF Nibbles
<1>1. n \in Inner /\ Len(n) = e - 1 /\ Len(n) + 1 = e
    <2>1. Len(n) = e - 1 BY <1>0, PathFacts
    <2>2. e - 1 \in 0 .. Levels /\ e - 1 < Levels BY <1>0
    <2> QED BY <2>1, <2>2, InnerFacts
<1>2. ASSUME NEW kk \in Keys
      PROVE  /\ own[kk] # Nil => own[kk] = c[kk] /\ n \in Prefixes(kk) /\ kk[e] = x
             /\ other[kk] # Nil => other[kk] = c[kk] /\ n \in Prefixes(kk) /\ kk[e] = Flip(x)
    <2>1. /\ own[kk] = IF P(k, e) \in Prefixes(kk) THEN c[kk] ELSE Nil
          /\ other[kk] = IF SiblingOf(P(k, e)) \in Prefixes(kk) THEN c[kk] ELSE Nil
        BY DEF Below
    <2>2. n \in Prefixes(kk) <=> P(kk, e - 1) = n
        <3>1. e - 1 \in 0 .. Levels BY <1>0
        <3> HIDE DEF n
        <3> QED BY <1>1, <3>1, PrefixIff
    <2>3. P(k, e) \in Prefixes(kk) => P(kk, e - 1) = n /\ kk[e] = x
        <3>1. P(k, e) \in Prefixes(kk) <=> P(kk, e) = P(k, e) BY <1>0, PathFacts, PrefixIff
        <3> QED BY <1>0, <3>1, PathsMeet
    <2>4. SiblingOf(P(k, e)) \in Prefixes(kk) <=> P(kk, e - 1) = n /\ kk[e] = Flip(x)
        BY SiblingFacts
    <2> HIDE DEF own, other, n, x
    <2> QED BY <2>1, <2>2, <2>3, <2>4
<1>3. Merge(own, other) = InternalContent(c, n, Slot(1, x)) BY MergeOfChildren
<1>4. x \in Nat /\ Flip(x) = IF OnLeft(1, x) THEN x + 1 ELSE x - 1 BY <1>0, LeftIsEven DEF Nibbles
<1> HIDE DEF own, other, n, x
<1>5. CASE OnLeft(1, x)
    <2>1. Halves(c, n, own, other) BY <1>1, <1>2, <1>4, <1>5 DEF Halves
    <2> QED BY <1>1, <1>3, <1>5, <2>1, HashOfHalves DEF own, other, n, x
<1>6. CASE ~OnLeft(1, x)
    <2>1. Halves(c, n, other, own) BY <1>1, <1>2, <1>4, <1>6 DEF Halves
    <2> QED BY <1>1, <1>3, <1>6, <2>1, HashOfHalves DEF own, other, n, x
<1> QED BY <1>5, <1>6

\* Two internals of a node, the first to the left of the second.
LEMMA InternalHalves ==
    ASSUME NEW c, NEW n \in Inner, NEW x \in Nibbles, NEW st \in 1 .. 3, NEW i, NEW j,
           {i, j} = {Slot(st, x), Flip(Slot(st, x))}, i \in Nat, j \in Nat, i < j
    PROVE  Halves(c, n, InternalContent(c, n, i), InternalContent(c, n, j))
<1> DEFINE l == InternalContent(c, n, i)
           r == InternalContent(c, n, j)
<1>1. Len(n) + 1 \in 1 .. Levels BY InnerFacts, KeyFacts
<1>2. ASSUME NEW kk \in Keys
      PROVE  /\ kk[Len(n) + 1] \in Nibbles
             /\ l[kk] # Nil => l[kk] = c[kk] /\ n \in Prefixes(kk) /\ Slot(st, kk[Len(n) + 1]) = i
             /\ r[kk] # Nil => r[kk] = c[kk] /\ n \in Prefixes(kk) /\ Slot(st, kk[Len(n) + 1]) = j
    <2> DEFINE y == kk[Len(n) + 1]
    <2>1. y \in Nibbles BY <1>1, KeyFacts DEF Nibbles
    <2>2. /\ l[kk] = IF n \in Prefixes(kk) /\ i \in leafInternalMap[y] THEN c[kk] ELSE Nil
          /\ r[kk] = IF n \in Prefixes(kk) /\ j \in leafInternalMap[y] THEN c[kk] ELSE Nil
        BY DEF InternalContent
    <2> HIDE DEF y, l, r
    <2>3. /\ i \in leafInternalMap[y] <=> Slot(st, y) = i
          /\ j \in leafInternalMap[y] <=> Slot(st, y) = j
        BY <2>1, StageOfSlot
    <2>4. y \in Nibbles /\ (l[kk] # Nil => l[kk] = c[kk] /\ n \in Prefixes(kk) /\ Slot(st, y) = i)
          /\ (r[kk] # Nil => r[kk] = c[kk] /\ n \in Prefixes(kk) /\ Slot(st, y) = j)
        BY <2>1, <2>2, <2>3
    <2> QED BY <2>4 DEF y
<1> HIDE DEF l, r
<1>3. ASSUME NEW k \in Keys, NEW kk \in Keys, l[k] # Nil, r[kk] # Nil
      PROVE  k[Len(n) + 1] < kk[Len(n) + 1]
    <2>1. Slot(st, k[Len(n) + 1]) < Slot(st, kk[Len(n) + 1]) BY <1>2, <1>3
    <2> QED BY <1>2, <2>1, SlotOrder
<1>4. Halves(c, n, l, r) BY <1>2, <1>3 DEF Halves
<1> QED BY <1>4 DEF l, r

\* Two sibling internals, in the order of their places.
LEMMA HashOfInternals ==
    ASSUME NEW c, NEW n \in Inner, NEW x \in Nibbles, NEW st \in 1 .. 2
    PROVE  LET own == InternalContent(c, n, Slot(st, x))
               other == InternalContent(c, n, Flip(Slot(st, x)))
           IN  (IF OnLeft(st + 1, x) THEN Hash(own, other) ELSE Hash(other, own)) =
                   InternalContent(c, n, Slot(st + 1, x))
<1> DEFINE i == Slot(st, x)
           j == Flip(Slot(st, x))
           own == InternalContent(c, n, i)
           other == InternalContent(c, n, j)
<1>0. st \in 1 .. 3 /\ st < 3 OBVIOUS
<1>1. i \in Nat /\ j \in Nat
    <2>1. j \in 0 .. 13 BY <1>0, SlotSiblings
    <2>2. i \in 0 .. 13 BY SlotValues
    <2> QED BY <2>1, <2>2
<1>2. j = IF OnLeft(st + 1, x) THEN i + 1 ELSE i - 1
    <2>1. CASE st = 1 BY <2>1, LeftIsEven
    <2>2. CASE st = 2 BY <2>2, LeftIsEven
    <2> QED BY <2>1, <2>2
<1>3. Merge(own, other) = InternalContent(c, n, Slot(st + 1, x)) BY <1>0, MergeOfInternals
<1>4. {i, j} = {Slot(st, x), Flip(Slot(st, x))} /\ {j, i} = {Slot(st, x), Flip(Slot(st, x))}
    OBVIOUS
<1> HIDE DEF i, j
<1>5. CASE OnLeft(st + 1, x)
    <2>1. i < j BY <1>1, <1>2, <1>5
    <2>2. Halves(c, n, own, other) BY <1>0, <1>1, <1>4, <2>1, InternalHalves
    <2> HIDE DEF own, other
    <2>3. Hash(own, other) = InternalContent(c, n, Slot(st + 1, x)) BY <1>3, <2>2, HashOfHalves
    <2> QED BY <1>5, <2>3 DEF own, other, i, j
<1>6. CASE ~OnLeft(st + 1, x)
    <2>1. j < i BY <1>1, <1>2, <1>6
    <2>2. Halves(c, n, other, own) BY <1>0, <1>1, <1>4, <2>1, InternalHalves
    <2> HIDE DEF own, other
    <2>3. Hash(other, own) = InternalContent(c, n, Slot(st + 1, x)) BY <1>3, <2>2, HashOfHalves
    <2> QED BY <1>6, <2>3 DEF own, other, i, j
<1> QED BY <1>5, <1>6

LEMMA HashOfNode ==
    ASSUME NEW c, NEW n \in Inner
    PROVE  Hash(InternalContent(c, n, 0), InternalContent(c, n, 1)) = Below(c, n)
<1> DEFINE l == InternalContent(c, n, 0)
           r == InternalContent(c, n, 1)
<1>1. 0 \in Nibbles /\ 3 \in 1 .. 3 BY DEF Nibbles
<1>2. Slot(3, 0) = 0 BY <1>1, SlotValues
<1>3. Flip(0) = 1 BY DEF Flip
<1>4. Merge(l, r) = Below(c, n) BY <1>1, <1>2, <1>3, MergeOfInternals
<1>5. {0, 1} = {Slot(3, 0), Flip(Slot(3, 0))} /\ 0 < 1 /\ 0 \in Nat /\ 1 \in Nat BY <1>2, <1>3
<1>6. Halves(c, n, l, r) BY <1>1, <1>5, InternalHalves
<1> HIDE DEF l, r
<1>7. Hash(l, r) = Below(c, n) BY <1>4, <1>6, HashOfHalves
<1> QED BY <1>7 DEF l, r

----------------------------------------------------------------------------
(* The inductive invariant: the shape of the state.                        *)

\* Where an item is on its path; the nodes above it are copied.
ItemOK(it, g, nodes) ==
    /\ it.at = "queued" => it.level = 0
    /\ it.at \in {"queued", "copy", "mark", "error"} => it.level < Levels
    /\ it.at \in {"leaf", "lookup", "register", "end"} => it.level = Levels
    /\ \A d \in 0 .. Levels - 1 :
           d < it.level \/ (d = it.level /\ it.at = "mark") => nodes[P(g.key, d)] # Null

Active(c) == c.at \notin {"idle", "end"}

\* Where a climber is on the path of its key; what it has set, or found set,
\* is there.
ClimberOK(c, k, nodes) ==
    LET e == Len(c.child)
        n == nodes[P(k, e - 1)]
    IN  Active(c) =>
          /\ k \in ItemKeys /\ e \in 1 .. Levels /\ c.child = P(k, e)
          /\ c.at \in {"read", "set", "get"} => c.own \in Content
          /\ c.at = "set" => c.other \in Content
          /\ c.at = "get" => n.internals[Slot(c.round, k[e])] # Null
          /\ c.at \in {"publish", "store"} => n.internals[0] # Null /\ n.internals[1] # Null

Shape ==
    /\ TypeOK
    /\ \A g \in Items : ItemOK(item[g], g, inner)
    /\ \A k \in Keys : leaves[k] # Null <=> \E g \in Items : g.key = k /\ item[g].at = "end"
    /\ phase \in {"items", "failed"} => \A k \in Keys : climber[k] = Idle
    /\ phase \in {"leaves", "done"} => \A g \in Items : item[g].at = "end"
    /\ phase = "leaves" => \A k \in Keys : ClimberOK(climber[k], k, inner)
    /\ phase = "done" => \A k \in Keys : climber[k].at = "end"

----------------------------------------------------------------------------
(* The shape of the state: facts.                                          *)

LEMMA ItemKeyFacts ==
    /\ ItemKeys \subseteq Keys
    /\ \A g \in Items : g.key \in ItemKeys /\ g.key \in Keys /\ g.val \in Values
BY MultiSetAssumption DEF ItemKeys, Values

\* A depth below the leaves.
LEMMA DepthFacts ==
    ASSUME NEW k \in Keys, NEW d \in 0 .. Levels - 1
    PROVE  /\ Levels \in Nat \ {0} /\ d \in Nat /\ d < Levels /\ d \in 0 .. Levels
           /\ d + 1 \in 1 .. Levels /\ d + 1 \in 0 .. Levels
           /\ P(k, d) \in Inner /\ P(k, d) \in Prefixes(k) /\ Len(P(k, d)) = d
           /\ k[d + 1] \in Nibbles
<1>1. Levels \in Nat \ {0} BY KeyFacts
<1>2. d \in Nat /\ d < Levels /\ d \in 0 .. Levels /\ d + 1 \in 1 .. Levels /\ d + 1 \in 0 .. Levels
    BY <1>1
<1>3. k[d + 1] \in Nibbles BY <1>2, KeyFacts DEF Nibbles
<1>4. P(k, d) \in Inner BY <1>2, InnerFacts
<1>5. P(k, d) \in Prefixes(k) /\ Len(P(k, d)) = d BY <1>2, PathFacts
<1> QED BY <1>1, <1>2, <1>3, <1>4, <1>5

\* The old node, and a node without some of its internals.
LEMMA OldNodeType ==
    ASSUME NEW n \in Inner PROVE OldNode(n) \in Node /\ OldNode(n) # Null
<1>1. \A k \in Keys : Base[k] \in Values BY DEF Values
<1>2. Below(Base, n) \in Content /\ \A i \in 0 .. 13 : InternalContent(Base, n, i) \in Content
    BY <1>1, ContentTypes
<1>3. [i \in 0 .. 13 |-> InternalContent(Base, n, i)] \in [0 .. 13 -> Content \cup {Null}]
    BY <1>2
<1>4. (\E k \in Prior : n \in Prefixes(k)) \in BOOLEAN OBVIOUS
<1>5. OldNode(n) \in Node BY <1>2, <1>3, <1>4, Zenon DEF OldNode, Node
<1> QED BY <1>5, MultiSetAssumption

\* All nodes on the paths of the items are there once the items have ended.
LEMMA Copied ==
    ASSUME Shape, phase \in {"leaves", "done"}, NEW k \in ItemKeys, NEW d \in 0 .. Levels - 1
    PROVE  inner[P(k, d)] # Null /\ inner[P(k, d)] \in Node
<1>1. PICK g \in Items : k = g.key BY DEF ItemKeys
<1>2. item[g].at = "end" /\ ItemOK(item[g], g, inner) BY DEF Shape
<1>3. k \in Keys BY <1>1, ItemKeyFacts
<1>4. d < Levels /\ P(k, d) \in Inner BY <1>3, DepthFacts
<1>5. inner[P(k, d)] # Null BY <1>1, <1>2, <1>4 DEF ItemOK
<1>6. inner[P(k, d)] \in Node \cup {Null} BY <1>4 DEF Shape, TypeOK
<1> QED BY <1>5, <1>6

\* Where an active climber is.
LEMMA ClimbFacts ==
    ASSUME Shape, NEW k \in Keys, Active(climber[k])
    PROVE  LET c == climber[k]
               e == Len(c.child)
               n == P(k, e - 1)
           IN  /\ phase = "leaves" /\ climber \in [Keys -> ClimberState] /\ c \in ClimberState
               /\ k \in ItemKeys /\ e \in 1 .. Levels /\ c.child = P(k, e)
               /\ e - 1 \in 0 .. Levels - 1 /\ e \in 0 .. Levels
               /\ ParentOf(c.child) = n /\ Nibble(c.child) = k[e] /\ k[e] \in Nibbles
               /\ n \in Inner /\ inner[n] # Null /\ inner[n] \in Node
               /\ ClimberOK(c, k, inner) /\ c.round \in 1 .. 3
<1> DEFINE c == climber[k]
           e == Len(c.child)
<1>1. climber \in [Keys -> ClimberState] BY DEF Shape, TypeOK
<1>2. phase = "leaves"
    <2>1. phase \notin {"items", "failed"} BY DEF Shape, Active, Idle
    <2>2. phase # "done" BY DEF Shape, Active
    <2>3. phase \in {"items", "leaves", "done", "failed"} BY DEF Shape, TypeOK
    <2> QED BY <2>1, <2>2, <2>3
<1>3. ClimberOK(c, k, inner) BY <1>2 DEF Shape
<1>4. k \in ItemKeys /\ e \in 1 .. Levels /\ c.child = P(k, e) BY <1>3 DEF ClimberOK
<1>5. ParentOf(c.child) = P(k, e - 1) /\ Nibble(c.child) = k[e] /\ k[e] \in Nibbles
    <2> HIDE DEF e, c
    <2> QED BY <1>4, ParentFacts DEF Nibbles
<1>6. Levels \in Nat BY KeyFacts
<1>7. e - 1 \in 0 .. Levels - 1 /\ e \in 0 .. Levels BY <1>4, <1>6
<1>8. P(k, e - 1) \in Inner BY <1>7, DepthFacts
<1>9. inner[P(k, e - 1)] # Null /\ inner[P(k, e - 1)] \in Node BY <1>2, <1>4, <1>7, Copied
<1>10. c \in ClimberState /\ c.round \in 1 .. 3 BY <1>1 DEF ClimberState
<1> QED BY <1>1, <1>2, <1>3, <1>4, <1>5, <1>7, <1>8, <1>9, <1>10

----------------------------------------------------------------------------
(* The shape of the state: the steps.                                      *)

\* A step of one item.
LEMMA ItemShape ==
    ASSUME Shape, NEW g \in Items, NEW it \in ItemState, item[g].at # "end",
           item' = [item EXCEPT ![g] = it], UNCHANGED <<phase, climber>>,
           inner' \in [Inner -> Node \cup {Null}],
           \A n \in Inner : inner[n] # Null => inner'[n] # Null,
           leaf' \in [Keys -> Values \cup {Null}], leaves' \in [Keys -> Values \cup {Null}],
           \A k \in Keys : leaves'[k] # Null <=>
               leaves[k] # Null \/ (k = g.key /\ it.at = "end"),
           ItemOK(it, g, inner')
    PROVE  Shape'
<1>0. phase \in {"items", "failed"} BY DEF Shape, TypeOK
<1>1. /\ item' \in [Items -> ItemState] /\ item'[g] = it
      /\ \A h \in Items \ {g} : item'[h] = item[h]
    BY DEF Shape, TypeOK
<1>2. TypeOK' BY <1>1 DEF Shape, TypeOK
<1>3. ASSUME NEW h \in Items PROVE ItemOK(item'[h], h, inner')
    <2>1. CASE h = g BY <1>1, <2>1
    <2>2. CASE h # g
        <3>1. ItemOK(item[h], h, inner) /\ item'[h] = item[h] BY <1>1, <2>2 DEF Shape
        <3>2. h.key \in Keys BY ItemKeyFacts
        <3>3. \A d \in 0 .. Levels - 1 : P(h.key, d) \in Inner BY <3>2, DepthFacts
        <3> QED BY <3>1, <3>3 DEF ItemOK
    <2> QED BY <2>1, <2>2
<1>4. \A k \in Keys : leaves'[k] # Null <=> \E h \in Items : h.key = k /\ item'[h].at = "end"
    BY <1>1 DEF Shape
<1>5. phase' \in {"items", "failed"} /\ \A k \in Keys : climber'[k] = Idle BY <1>0 DEF Shape
<1> QED BY <1>2, <1>3, <1>4, <1>5 DEF Shape

\* A step of one climber: it takes away no hash of a node.
LEMMA ClimberShape ==
    ASSUME Shape, phase = "leaves", NEW k \in Keys, NEW c \in ClimberState,
           climber' = [climber EXCEPT ![k] = c], UNCHANGED <<phase, item, leaf, leaves>>,
           inner' \in [Inner -> Node \cup {Null}],
           \A n \in Inner : inner[n] # Null =>
               /\ inner'[n] # Null
               /\ \A i \in 0 .. 13 : inner[n].internals[i] # Null => inner'[n].internals[i] # Null,
           ClimberOK(c, k, inner')
    PROVE  Shape'
<1>1. /\ climber' \in [Keys -> ClimberState] /\ climber'[k] = c
      /\ \A kk \in Keys \ {k} : climber'[kk] = climber[kk]
    BY DEF Shape, TypeOK
<1>2. TypeOK' BY <1>1 DEF Shape, TypeOK
<1>3. ASSUME NEW h \in Items PROVE ItemOK(item'[h], h, inner')
    <2>1. ItemOK(item[h], h, inner) BY DEF Shape
    <2>2. h.key \in Keys BY ItemKeyFacts
    <2>3. \A d \in 0 .. Levels - 1 : P(h.key, d) \in Inner BY <2>2, DepthFacts
    <2> QED BY <2>1, <2>3 DEF ItemOK
<1>4. ASSUME NEW kk \in Keys PROVE ClimberOK(climber'[kk], kk, inner')
    <2>1. CASE kk = k BY <1>1, <2>1
    <2>2. CASE kk # k
        <3> DEFINE b == climber[kk]
                   e == Len(b.child)
                   n == P(kk, e - 1)
        <3>1. climber'[kk] = b /\ ClimberOK(b, kk, inner) BY <1>1, <2>2 DEF Shape
        <3>2. ASSUME Active(b)
              PROVE  /\ n \in Inner /\ inner[n] # Null
                     /\ Slot(b.round, kk[e]) \in 0 .. 13
            <4>1. n \in Inner /\ inner[n] # Null /\ kk[e] \in Nibbles /\ b.round \in 1 .. 3
                BY <3>2, ClimbFacts
            <4>2. /\ Slot(1, kk[e]) \in 0 .. 13 /\ Slot(2, kk[e]) \in 0 .. 13
                  /\ Slot(3, kk[e]) \in 0 .. 13
                BY <4>1, SlotValues
            <4>3. b.round = 1 \/ b.round = 2 \/ b.round = 3 BY <4>1
            <4> QED BY <4>1, <4>2, <4>3
        <3>3. 0 \in 0 .. 13 /\ 1 \in 0 .. 13 OBVIOUS
        <3> HIDE DEF b
        <3> QED BY <3>1, <3>2, <3>3 DEF ClimberOK
    <2> QED BY <2>1, <2>2
<1> QED BY <1>2, <1>3, <1>4 DEF Shape

LEMMA InitShape == Init => Shape
<1> SUFFICES ASSUME Init PROVE Shape OBVIOUS
<1>1. Idle \in ClimberState /\ Idle.at = "idle"
    <2>1. 1 \in 1 .. 3 OBVIOUS
    <2> QED BY <2>1, Zenon DEF Idle, ClimberState
<1>2. ASSUME NEW g \in Items
      PROVE  item[g] \in ItemState /\ item[g].at = "queued" /\ item[g].level = 0 /\ 0 < Levels
    <2>1. Levels \in Nat \ {0} BY KeyFacts, ItemKeyFacts
    <2> QED BY <2>1 DEF Init, ItemState
<1>3. TypeOK BY <1>1, <1>2 DEF Init, TypeOK
<1>4. \A g \in Items : ItemOK(item[g], g, inner) BY <1>2, ItemKeyFacts, KeyFacts DEF ItemOK
<1>5. \A k \in Keys : leaves[k] = Null /\ climber[k] = Idle BY DEF Init
<1>6. \A g \in Items : item[g].at # "end" BY <1>2
<1> QED BY <1>3, <1>4, <1>5, <1>6 DEF Shape, Init

\* An item's record.
LEMMA ItemFacts ==
    ASSUME Shape, NEW g \in Items
    PROVE  /\ item \in [Items -> ItemState] /\ item[g] \in ItemState
           /\ item[g].level \in 0 .. Levels /\ ItemOK(item[g], g, inner)
           /\ g.key \in Keys /\ g.key \in ItemKeys /\ Levels \in Nat \ {0}
           /\ inner \in [Inner -> Node \cup {Null}]
           /\ leaf \in [Keys -> Values \cup {Null}] /\ leaves \in [Keys -> Values \cup {Null}]
<1>1. item[g] \in ItemState BY DEF Shape, TypeOK
<1>2. item[g].level \in 0 .. Levels BY <1>1 DEF ItemState
<1>3. Levels \in Nat \ {0} BY ItemKeyFacts, KeyFacts
<1> QED BY <1>1, <1>2, <1>3, ItemKeyFacts DEF Shape, TypeOK

\* Steps of an item that only change where it is.
LEMMA MoveShape ==
    ASSUME Shape, NEW g \in Items, NEW to \in {"copy", "error", "end", "lookup", "register"},
           item' = [item EXCEPT ![g].at = to], UNCHANGED <<phase, climber, inner>>,
           leaf' \in [Keys -> Values \cup {Null}], leaves' \in [Keys -> Values \cup {Null}],
           \A k \in Keys : leaves'[k] # Null <=>
               leaves[k] # Null \/ (k = g.key /\ to = "end"),
           \/ item[g].at = "queued" /\ to = "copy"
           \/ item[g].at = "mark" /\ to = "error"
           \/ item[g].at \in {"leaf", "lookup", "register"} /\ to \in {"lookup", "register", "end"}
    PROVE  Shape'
<1> DEFINE it == [item[g] EXCEPT !.at = to]
<1>1. item[g] \in ItemState /\ ItemOK(item[g], g, inner) BY ItemFacts
<1>2. it \in ItemState BY <1>1, Zenon DEF ItemState
<1>3. it.at = to /\ it.level = item[g].level BY <1>1 DEF ItemState
<1>4. item' = [item EXCEPT ![g] = it] BY ItemFacts
<1> HIDE DEF it
<1>5. ItemOK(it, g, inner) BY <1>1, <1>3 DEF ItemOK
<1>6. inner' \in [Inner -> Node \cup {Null}] /\ \A n \in Inner : inner[n] # Null => inner'[n] # Null
    BY ItemFacts
<1>7. ItemOK(it, g, inner') BY <1>5
<1>8. item[g].at # "end" OBVIOUS
<1>9. \A k \in Keys : leaves'[k] # Null <=> leaves[k] # Null \/ (k = g.key /\ it.at = "end")
    BY <1>3
<1> QED BY <1>2, <1>4, <1>6, <1>7, <1>8, <1>9, ItemShape

LEMMA CopyNodeShape == ASSUME Shape, NEW g \in Items, CopyNode(g) PROVE Shape'
<1> DEFINE it == [item[g] EXCEPT !.at = "mark"]
           n == P(g.key, item[g].level)
<1>1. item[g] \in ItemState /\ ItemOK(item[g], g, inner) /\ item[g].at = "copy"
    BY ItemFacts DEF CopyNode
<1>2. it \in ItemState BY <1>1, Zenon DEF ItemState
<1>3. it.at = "mark" /\ it.level = item[g].level BY <1>1 DEF ItemState
<1>4. item' = [item EXCEPT ![g] = it] /\ UNCHANGED <<phase, climber, leaf, leaves>>
    BY ItemFacts DEF CopyNode
<1>5. item[g].level \in 0 .. Levels - 1 BY <1>1, ItemFacts DEF ItemOK
<1>6. n \in Inner BY <1>5, ItemFacts, DepthFacts
<1>7. inner' = IF inner[n] = Null THEN [inner EXCEPT ![n] = OldNode(n)] ELSE inner
    BY DEF CopyNode, P
<1> HIDE DEF it, n
<1>8. /\ inner' \in [Inner -> Node \cup {Null}] /\ inner'[n] # Null
      /\ \A m \in Inner : inner[m] # Null => inner'[m] # Null
    BY <1>6, <1>7, ItemFacts, OldNodeType
<1>9. ItemOK(it, g, inner')
    <2>1. \A d \in 0 .. Levels - 1 : P(g.key, d) \in Inner BY ItemFacts, DepthFacts
    <2> QED BY <1>1, <1>3, <1>8, <2>1 DEF ItemOK, n
<1> QED BY <1>1, <1>2, <1>3, <1>4, <1>8, <1>9, ItemFacts, ItemShape

\* mark clears the internals on the way down.
Unmarked(node, x) ==
    [i \in 0 .. 13 |-> IF i \in leafInternalMap[x] THEN Null ELSE node.internals[i]]

LEMMA MarkFacts ==
    ASSUME Shape, NEW g \in Items, Mark(g)
    PROVE  LET d == item[g].level
               n == P(g.key, d)
               it == [at |-> IF d + 1 = Levels THEN "leaf" ELSE "copy", level |-> d + 1]
               node == [inner[n] EXCEPT !.internals = Unmarked(inner[n], g.key[d + 1])]
           IN  /\ item[g].at = "mark" /\ d \in 0 .. Levels - 1 /\ n \in Inner
               /\ inner[n] \in Node /\ inner[n] # Null
               /\ it \in ItemState /\ item' = [item EXCEPT ![g] = it]
               /\ node \in Node /\ node # Null /\ inner' = [inner EXCEPT ![n] = node]
               /\ node.current = inner[n].current /\ node.torn = inner[n].torn
               /\ node.internals = Unmarked(inner[n], g.key[d + 1])
               /\ UNCHANGED <<phase, climber, leaf, leaves>>
<1> DEFINE d == item[g].level
           n == P(g.key, d)
           it == [at |-> IF d + 1 = Levels THEN "leaf" ELSE "copy", level |-> d + 1]
           ints == Unmarked(inner[n], g.key[d + 1])
           node == [inner[n] EXCEPT !.internals = ints]
<1>1. /\ item[g] \in ItemState /\ ItemOK(item[g], g, inner) /\ item[g].at = "mark"
      /\ UNCHANGED <<phase, climber, leaf, leaves>>
    BY ItemFacts DEF Mark
<1>2. d \in 0 .. Levels - 1 /\ inner[n] # Null BY <1>1, ItemFacts DEF ItemOK
<1>3. n \in Inner BY <1>2, ItemFacts, DepthFacts
<1>4. inner[n] \in Node BY <1>2, <1>3, ItemFacts
<1>5. ints \in [0 .. 13 -> Content \cup {Null}] BY <1>4 DEF Node, Unmarked
<1>6. node \in Node /\ node # Null
    <2> HIDE DEF ints
    <2>1. node \in Node BY <1>4, <1>5, Zenon DEF Node
    <2> QED BY <2>1, MultiSetAssumption
<1>7. d + 1 \in 0 .. Levels BY <1>2, ItemFacts
<1>8. it \in ItemState BY <1>7, Zenon DEF ItemState
<1>9. item' = [item EXCEPT ![g] = it] BY ItemFacts DEF Mark
<1>10. inner' = [inner EXCEPT ![n] = node]
    <2>1. inner' = [inner EXCEPT ![n].internals = [i \in 0 .. 13 |->
                        IF i \in leafInternalMap[g.key[d + 1]] THEN Null ELSE @[i]]]
        BY DEF Mark, P
    <2>2. ints = [i \in 0 .. 13 |->
                     IF i \in leafInternalMap[g.key[d + 1]] THEN Null ELSE inner[n].internals[i]]
        BY DEF Unmarked
    <2> HIDE DEF ints, n, d
    <2> QED BY <2>1, <2>2, <1>3, ItemFacts
<1>11. node.internals = ints
    <2> HIDE DEF ints
    <2> QED BY <1>4 DEF Node
<1>12. node.current = inner[n].current BY <1>4 DEF Node
<1>13. node.torn = inner[n].torn BY <1>4 DEF Node
<1> HIDE DEF node, it, ints
<1> QED BY <1>1, <1>2, <1>3, <1>4, <1>6, <1>8, <1>9, <1>10, <1>11, <1>12, <1>13 DEF node, it, ints

LEMMA MarkShape == ASSUME Shape, NEW g \in Items, Mark(g) PROVE Shape'
<1> DEFINE d == item[g].level
           n == P(g.key, d)
           it == [at |-> IF d + 1 = Levels THEN "leaf" ELSE "copy", level |-> d + 1]
           node == [inner[n] EXCEPT !.internals = Unmarked(inner[n], g.key[d + 1])]
<1>1. /\ item[g].at = "mark" /\ d \in 0 .. Levels - 1 /\ n \in Inner /\ inner[n] # Null
      /\ it \in ItemState /\ item' = [item EXCEPT ![g] = it]
      /\ node \in Node /\ node # Null /\ inner' = [inner EXCEPT ![n] = node]
      /\ UNCHANGED <<phase, climber, leaf, leaves>>
    BY MarkFacts
<1>2. it.at = (IF d + 1 = Levels THEN "leaf" ELSE "copy") /\ it.level = d + 1 OBVIOUS
<1>3. d \in Nat /\ Levels \in Nat /\ d < Levels BY <1>1, ItemFacts
<1> HIDE DEF node, it
<1>4. /\ inner' \in [Inner -> Node \cup {Null}] /\ inner'[n] # Null
      /\ \A m \in Inner : inner[m] # Null => inner'[m] # Null
    BY <1>1, ItemFacts
<1>5. ItemOK(it, g, inner')
    <2>1. \A dd \in 0 .. Levels - 1 : P(g.key, dd) \in Inner BY ItemFacts, DepthFacts
    <2>2. ItemOK(item[g], g, inner) BY ItemFacts
    <2>3. ASSUME NEW dd \in 0 .. Levels - 1, dd < it.level PROVE inner'[P(g.key, dd)] # Null
        <3>1. dd < d \/ dd = d BY <1>2, <1>3, <2>3
        <3>2. inner[P(g.key, dd)] # Null BY <1>1, <2>2, <3>1 DEF ItemOK
        <3> QED BY <1>4, <2>1, <3>2
    <2>4. it.at = "leaf" => it.level = Levels BY <1>2, <1>3
    <2>5. it.at = "copy" => it.level < Levels BY <1>2, <1>3
    <2> QED BY <1>2, <2>3, <2>4, <2>5 DEF ItemOK
<1>6. it.at # "end" BY <1>2
<1> QED BY <1>1, <1>4, <1>5, <1>6, ItemFacts, ItemShape

\* SubmitItem, ExtendFails, SetLeaf, LookupLeaf and RegisterLeaf.
LEMMA ItemMovesShape ==
    ASSUME Shape, NEW g \in Items,
           SubmitItem(g) \/ ExtendFails(g) \/ SetLeaf(g) \/ LookupLeaf(g) \/ RegisterLeaf(g)
    PROVE  Shape'
<1>0. g.key \in Keys /\ g.val \in Values /\ g.val # Null
    BY ItemKeyFacts, MultiSetAssumption
<1>t. leaf \in [Keys -> Values \cup {Null}] /\ leaves \in [Keys -> Values \cup {Null}]
    BY ItemFacts
<1>1. CASE SubmitItem(g) BY <1>1, <1>t, MoveShape DEF SubmitItem
<1>2. CASE ExtendFails(g) BY <1>2, <1>t, MoveShape DEF ExtendFails
<1>3. CASE SetLeaf(g)
    <2>1. leaf' \in [Keys -> Values \cup {Null}] BY <1>0, <1>3, <1>t DEF SetLeaf
    <2> QED BY <1>3, <1>t, <2>1, MoveShape DEF SetLeaf
<1>4. CASE LookupLeaf(g)
    <2>1. CASE leaves[g.key] = Null
        <3>1. item' = [item EXCEPT ![g].at = "register"] BY <1>4, <2>1 DEF LookupLeaf
        <3> QED BY <1>4, <1>t, <3>1, MoveShape DEF LookupLeaf
    <2>2. CASE leaves[g.key] # Null
        <3>1. item' = [item EXCEPT ![g].at = "end"] BY <1>4, <2>2 DEF LookupLeaf
        <3>2. \A k \in Keys : leaves'[k] # Null <=> leaves[k] # Null \/ k = g.key
            BY <1>4, <2>2 DEF LookupLeaf
        <3> QED BY <1>4, <1>t, <3>1, <3>2, MoveShape DEF LookupLeaf
    <2> QED BY <2>1, <2>2
<1>5. CASE RegisterLeaf(g)
    <2>1. /\ leaves' \in [Keys -> Values \cup {Null}]
          /\ \A k \in Keys : leaves'[k] # Null <=> leaves[k] # Null \/ k = g.key
        BY <1>0, <1>5, <1>t DEF RegisterLeaf
    <2> QED BY <1>5, <1>t, <2>1, MoveShape DEF RegisterLeaf
<1> QED BY <1>1, <1>2, <1>3, <1>4, <1>5

\* The caller: an error is returned, or the second phase starts or ends.
LEMMA CallerShape ==
    ASSUME Shape, RejectKey \/ ReturnError \/ StartClimbing \/ Finish PROVE Shape'
<1>1. CASE RejectKey \/ ReturnError
    BY <1>1 DEF RejectKey, ReturnError, Shape, TypeOK
<1>2. CASE Finish BY <1>2 DEF Finish, Shape, TypeOK
<1>3. CASE StartClimbing
    <2>0. /\ phase' = "leaves" /\ UNCHANGED <<item, inner, leaf, leaves>>
          /\ \A g \in Items : item[g].at = "end"
          /\ climber' = [k \in Keys |-> IF leaves[k] = Null THEN [Idle EXCEPT !.at = "end"]
                                        ELSE [Idle EXCEPT !.at = "queued", !.child = k]]
        BY <1>3 DEF StartClimbing
    <2>1. ASSUME NEW k \in Keys
          PROVE  climber'[k] \in ClimberState /\ ClimberOK(climber'[k], k, inner')
        <3>0. 1 \in 1 .. 3 OBVIOUS
        <3>1. CASE leaves[k] = Null
            <4>1. climber'[k] = [Idle EXCEPT !.at = "end"] BY <2>0, <3>1
            <4>2. climber'[k] \in ClimberState BY <3>0, <4>1, Zenon DEF Idle, ClimberState
            <4>3. climber'[k].at = "end" BY <4>1 DEF Idle
            <4> QED BY <4>2, <4>3 DEF ClimberOK, Active
        <3>2. CASE leaves[k] # Null
            <4>1. climber'[k] = [Idle EXCEPT !.at = "queued", !.child = k] BY <2>0, <3>2
            <4>2. climber'[k] \in ClimberState BY <3>0, <4>1, Zenon DEF Idle, ClimberState
            <4>3. climber'[k].at = "queued" /\ climber'[k].child = k BY <4>1 DEF Idle
            <4>4. k \in ItemKeys BY <3>2 DEF Shape, ItemKeys
            <4>5. Len(k) = Levels /\ Levels \in 1 .. Levels /\ k = P(k, Levels)
                BY KeyFacts, FullPath
            <4> QED BY <4>2, <4>3, <4>4, <4>5 DEF ClimberOK
        <3> QED BY <3>1, <3>2
    <2>2. climber' \in [Keys -> ClimberState]
        <3>1. climber' = [k \in Keys |-> climber'[k]] BY <2>0
        <3> QED BY <2>1, <3>1
    <2>3. TypeOK' BY <2>0, <2>2 DEF Shape, TypeOK
    <2> QED BY <2>0, <2>1, <2>3 DEF Shape
<1> QED BY <1>1, <1>2, <1>3

----------------------------------------------------------------------------
(* What a step of a climber does.                                          *)

\* A climber that is made another one.
Becomes(k, c) == c \in ClimberState /\ climber' = [climber EXCEPT ![k] = c]

LEMMA EndFacts ==
    ASSUME Shape, NEW k \in Keys, Active(climber[k]), End(k)
    PROVE  \E c : Becomes(k, c) /\ c.at = "end"
<1> DEFINE c == [climber[k] EXCEPT !.at = "end"]
<1>1. climber[k] \in ClimberState /\ climber \in [Keys -> ClimberState] BY ClimbFacts
<1>2. c \in ClimberState BY <1>1, Zenon DEF ClimberState
<1>3. climber' = [climber EXCEPT ![k] = c] /\ c.at = "end" BY <1>1 DEF End, ClimberState
<1> HIDE DEF c
<1> QED BY <1>2, <1>3 DEF Becomes

LEMMA SubmitFacts ==
    ASSUME Shape, NEW k \in Keys, SubmitLeaf(k)
    PROVE  /\ climber[k].at = "queued" /\ UNCHANGED <<phase, item, inner, leaf, leaves>>
           /\ \E c : Becomes(k, c) /\ c.at = "sibling" /\ c.child = climber[k].child
<1> DEFINE c == [climber[k] EXCEPT !.at = "sibling"]
<1>0. climber[k].at = "queued" /\ UNCHANGED <<phase, item, inner, leaf, leaves>>
    BY DEF SubmitLeaf
<1>1. climber[k] \in ClimberState /\ climber \in [Keys -> ClimberState]
    BY <1>0, ClimbFacts DEF Active
<1>2. c \in ClimberState BY <1>1, Zenon DEF ClimberState
<1>3. /\ climber' = [climber EXCEPT ![k] = c] /\ c.at = "sibling"
      /\ c.child = climber[k].child
    BY <1>1 DEF SubmitLeaf, ClimberState
<1> HIDE DEF c
<1> QED BY <1>0, <1>2, <1>3 DEF Becomes

\* The leaf of an item has been registered.
LEMMA LeafRegistered ==
    ASSUME Shape, phase = "leaves", NEW k \in ItemKeys
    PROVE  leaves[k] # Null /\ leaves[k] \in Values
<1>1. PICK g \in Items : g.key = k BY DEF ItemKeys
<1>2. k \in Keys /\ leaves[k] # Null BY <1>1, ItemKeyFacts DEF Shape
<1> QED BY <1>2 DEF Shape, TypeOK

LEMMA ChildHashType ==
    ASSUME Shape, NEW k \in Keys, Active(climber[k]) PROVE ChildHash(k) \in Content
<1> DEFINE n == climber[k].child
           e == Len(n)
<1>1. phase = "leaves" /\ k \in ItemKeys /\ e \in 1 .. Levels /\ n = P(k, e) BY ClimbFacts
<1>2. CASE n = k
    <2>1. leaves[k] \in Values BY <1>1, LeafRegistered
    <2> QED BY <1>2, <2>1 DEF ChildHash, Content, Values
<1>3. CASE n # k
    <2> HIDE DEF n
    <2>1. e # Levels BY <1>1, <1>3, FullPath
    <2>2. e \in 0 .. Levels - 1 BY <1>1, <2>1, KeyFacts
    <2>3. inner[n] \in Node BY <1>1, <2>2, Copied
    <2> QED BY <1>3, <2>3 DEF ChildHash, Node, n
<1> QED BY <1>2, <1>3

LEMMA CheckFacts ==
    ASSUME Shape, NEW k \in Keys, CheckSibling(k)
    PROVE  LET n == SiblingOf(climber[k].child)
               stop == IsCopied(n) /\ (Unfinished(n) \/ ReadsNothing(n))
           IN  /\ climber[k].at = "sibling" /\ UNCHANGED <<phase, item, inner, leaf, leaves>>
               /\ \E c : /\ Becomes(k, c)
                         /\ \/ stop /\ c.at = "end"
                            \/ /\ ~stop /\ c.at = "read" /\ c.child = climber[k].child
                               /\ c.own = ChildHash(k) /\ c.own \in Content
<1> DEFINE n == SiblingOf(climber[k].child)
           stop == IsCopied(n) /\ (Unfinished(n) \/ ReadsNothing(n))
           c == [climber[k] EXCEPT !.at = "read", !.own = ChildHash(k)]
<1>0. climber[k].at = "sibling" /\ UNCHANGED <<phase, item, inner, leaf, leaves>>
    BY DEF CheckSibling
<1>1. Active(climber[k]) BY <1>0 DEF Active
<1>2. climber[k] \in ClimberState /\ climber \in [Keys -> ClimberState] BY <1>1, ClimbFacts
<1>3. ChildHash(k) \in Content BY <1>1, ChildHashType
<1>4. IF stop THEN End(k) ELSE climber' = [climber EXCEPT ![k].at = "read", ![k].own = ChildHash(k)]
    BY DEF CheckSibling
<1>5. CASE stop
    <2> HIDE DEF stop
    <2>1. End(k) BY <1>4, <1>5
    <2>2. PICK b : Becomes(k, b) /\ b.at = "end" BY <1>1, <2>1, EndFacts
    <2> QED BY <1>0, <1>5, <2>2 DEF stop
<1>6. CASE ~stop
    <2> HIDE DEF stop
    <2> DEFINE h == ChildHash(k)
    <2>0. h \in Content BY <1>3
    <2> HIDE DEF h
    <2>1. c \in ClimberState BY <1>2, <2>0, Zenon DEF ClimberState, h
    <2>2. /\ climber' = [climber EXCEPT ![k] = c] /\ c.at = "read"
          /\ c.child = climber[k].child /\ c.own = h
        BY <1>2, <1>4, <1>6 DEF ClimberState, h
    <2> HIDE DEF c
    <2>3. Becomes(k, c) BY <2>1, <2>2 DEF Becomes
    <2> QED BY <1>0, <1>6, <2>0, <2>2, <2>3 DEF stop, h
<1> QED BY <1>5, <1>6

\* What a climber reads as the hash of the sibling.
SiblingHash(n) ==
    IF n \in Keys /\ leaf[n] # Null
    THEN [kk \in Keys |-> IF kk = n THEN leaf[n] ELSE Nil]
    ELSE IF n \in Inner /\ inner[n] # Null
    THEN inner[n].hash
    ELSE Below(Base, n)

LEMMA ReadFacts ==
    ASSUME Shape, NEW k \in Keys, ReadSibling(k)
    PROVE  /\ climber[k].at = "read" /\ UNCHANGED <<phase, item, inner, leaf, leaves>>
           /\ \E c : /\ Becomes(k, c) /\ c.at = "set" /\ c.round = 1
                     /\ c.child = climber[k].child /\ c.own = climber[k].own
                     /\ c.other = SiblingHash(SiblingOf(climber[k].child))
                     /\ c.own \in Content /\ c.other \in Content
<1> DEFINE n == SiblingOf(climber[k].child)
           h == SiblingHash(n)
           c == [climber[k] EXCEPT !.at = "set", !.round = 1, !.other = h]
<1>0. /\ climber[k].at = "read" /\ UNCHANGED <<phase, item, inner, leaf, leaves>>
      /\ climber' = [climber EXCEPT ![k].at = "set", ![k].round = 1, ![k].other = h]
    BY DEF ReadSibling, SiblingHash
<1>1. /\ climber[k] \in ClimberState /\ climber \in [Keys -> ClimberState]
      /\ ClimberOK(climber[k], k, inner)
    BY <1>0, ClimbFacts DEF Active
<1>2. climber[k].own \in Content BY <1>0, <1>1 DEF ClimberOK, Active
<1>3. h \in Content
    <2> HIDE DEF n
    <2>1. CASE n \in Keys /\ leaf[n] # Null
        <3>1. leaf[n] \in Values BY <2>1 DEF Shape, TypeOK
        <3> QED BY <2>1, <3>1 DEF SiblingHash, Content, Values
    <2>2. CASE ~(n \in Keys /\ leaf[n] # Null) /\ n \in Inner /\ inner[n] # Null
        <3>1. inner[n] \in Node BY <2>2 DEF Shape, TypeOK
        <3> QED BY <2>2, <3>1 DEF SiblingHash, Node
    <2>3. CASE ~(n \in Keys /\ leaf[n] # Null) /\ ~(n \in Inner /\ inner[n] # Null)
        <3>1. Below(Base, n) \in Content BY ContentTypes DEF Values
        <3> QED BY <2>3, <3>1 DEF SiblingHash
    <2> QED BY <2>1, <2>2, <2>3
<1> HIDE DEF h
<1>4. 1 \in 1 .. 3 OBVIOUS
<1>5. c \in ClimberState BY <1>1, <1>3, <1>4, Zenon DEF ClimberState
<1>6. /\ climber' = [climber EXCEPT ![k] = c] /\ c.at = "set" /\ c.round = 1
      /\ c.child = climber[k].child /\ c.own = climber[k].own /\ c.other = h
    BY <1>0, <1>1 DEF ClimberState
<1> HIDE DEF c
<1>7. Becomes(k, c) BY <1>5, <1>6 DEF Becomes
<1> QED BY <1>0, <1>2, <1>3, <1>6, <1>7 DEF h

\* Node n is made another one.
NodeBecomes(n, node) == node \in Node /\ node # Null /\ inner' = [inner EXCEPT ![n] = node]

\* The internal a climber sets, by the stages of its path.
LEMMA SlotOfClimber ==
    ASSUME Shape, NEW k \in Keys, Active(climber[k])
    PROVE  LET c == climber[k]
               i == Slot(c.round, k[Len(c.child)])
           IN  Internal(c.round, Nibble(c.child)) = i /\ i \in 0 .. 13 /\ Flip(i) \in 0 .. 13
<1> DEFINE c == climber[k]
           x == k[Len(c.child)]
<1>1. c.round \in 1 .. 3 /\ x \in Nibbles /\ Nibble(c.child) = x BY ClimbFacts
<1> HIDE DEF c, x
<1>2. Internal(c.round, x) = Slot(c.round, x) BY <1>1 DEF Slot
<1>3. Slot(c.round, x) \in 0 .. 13
    <2>1. Slot(1, x) \in 0 .. 13 /\ Slot(2, x) \in 0 .. 13 /\ Slot(3, x) \in 0 .. 13
        BY <1>1, SlotValues
    <2>2. c.round = 1 \/ c.round = 2 \/ c.round = 3 BY <1>1
    <2> QED BY <2>1, <2>2
<1>4. Flip(Slot(c.round, x)) \in 0 .. 13 BY <1>1, SlotSiblings
<1> QED BY <1>1, <1>2, <1>3, <1>4 DEF c, x

LEMMA SetFacts ==
    ASSUME Shape, NEW k \in Keys, SetInternal(k)
    PROVE  LET b == climber[k]
               n == P(k, Len(b.child) - 1)
               i == Slot(b.round, k[Len(b.child)])
               h == Combined(b)
           IN  /\ b.at = "set" /\ UNCHANGED <<phase, item, leaf, leaves>>
               /\ \/ /\ inner[n].internals[i] # Null /\ inner' = inner
                     /\ \E c : Becomes(k, c) /\ c.at = "end"
                  \/ /\ inner[n].internals[i] = Null /\ h \in Content
                     /\ \E node : /\ NodeBecomes(n, node)
                                  /\ node.internals = [inner[n].internals EXCEPT ![i] = h]
                                  /\ node.current = inner[n].current
                                  /\ node.torn = inner[n].torn /\ node.hash = inner[n].hash
                     /\ \E c : /\ Becomes(k, c) /\ c.at = "get" /\ c.child = b.child
                               /\ c.round = b.round /\ c.own = h
<1> DEFINE b == climber[k]
           n == P(k, Len(b.child) - 1)
           i == Slot(b.round, k[Len(b.child)])
           h == Combined(b)
           ints == [inner[n].internals EXCEPT ![i] = h]
           node == [inner[n] EXCEPT !.internals = ints]
           c == [b EXCEPT !.at = "get", !.own = h]
<1>0. b.at = "set" /\ UNCHANGED <<phase, item, leaf, leaves>> BY DEF SetInternal
<1>1. Active(b) BY <1>0 DEF Active
<1>2. /\ b \in ClimberState /\ climber \in [Keys -> ClimberState] /\ ParentOf(b.child) = n
      /\ n \in Inner /\ inner[n] \in Node /\ ClimberOK(b, k, inner)
    BY <1>1, ClimbFacts
<1>3. Internal(b.round, Nibble(b.child)) = i /\ i \in 0 .. 13 BY <1>1, SlotOfClimber
<1>4. h \in Content BY <1>0, <1>1, <1>2, HashType DEF ClimberOK, Combined
<1>5. IF inner[n].internals[i] # Null
      THEN End(k) /\ UNCHANGED inner
      ELSE /\ inner' = [inner EXCEPT ![n].internals[i] = h]
           /\ climber' = [climber EXCEPT ![k].at = "get", ![k].own = h]
    BY <1>2, <1>3 DEF SetInternal
<1>i. inner \in [Inner -> Node \cup {Null}] BY DEF Shape, TypeOK
<1> HIDE DEF h, i, n, b
<1>6. CASE inner[n].internals[i] # Null
    <2>1. End(k) /\ inner' = inner BY <1>5, <1>6
    <2>2. PICK d : Becomes(k, d) /\ d.at = "end" BY <1>1, <2>1, EndFacts DEF b
    <2> QED BY <1>0, <1>6, <2>1, <2>2 DEF b, n, i, h
<1>7. CASE inner[n].internals[i] = Null
    <2>1. ints \in [0 .. 13 -> Content \cup {Null}] BY <1>2, <1>3, <1>4 DEF Node
    <2>2. inner' = [inner EXCEPT ![n] = node] BY <1>2, <1>5, <1>7, <1>i DEF Node
    <2> HIDE DEF ints
    <2>3. node \in Node BY <1>2, <2>1, Zenon DEF Node
    <2>4. node.internals = ints BY <1>2 DEF Node
    <2>5. node.current = inner[n].current BY <1>2 DEF Node
    <2>6. node.torn = inner[n].torn BY <1>2 DEF Node
    <2>7. node.hash = inner[n].hash BY <1>2 DEF Node
    <2>8. NodeBecomes(n, node) BY <2>2, <2>3, MultiSetAssumption DEF NodeBecomes
    <2>9. c \in ClimberState BY <1>2, <1>4, Zenon DEF ClimberState
    <2>10. /\ climber' = [climber EXCEPT ![k] = c] /\ c.at = "get" /\ c.child = b.child
           /\ c.round = b.round /\ c.own = h
        BY <1>2, <1>5, <1>7 DEF ClimberState, b
    <2> HIDE DEF node, c
    <2>11. Becomes(k, c) BY <2>9, <2>10 DEF Becomes
    <2>12. \E nd : /\ NodeBecomes(n, nd)
                   /\ nd.internals = [inner[n].internals EXCEPT ![i] = h]
                   /\ nd.current = inner[n].current
                   /\ nd.torn = inner[n].torn /\ nd.hash = inner[n].hash
        BY <2>4, <2>5, <2>6, <2>7, <2>8 DEF ints
    <2>13. \E d : /\ Becomes(k, d) /\ d.at = "get" /\ d.child = b.child
                  /\ d.round = b.round /\ d.own = h
        BY <2>10, <2>11
    <2> QED BY <1>0, <1>4, <1>7, <2>12, <2>13 DEF b, n, i, h
<1> QED BY <1>6, <1>7

LEMMA GetFacts ==
    ASSUME Shape, NEW k \in Keys, GetInternal(k)
    PROVE  LET b == climber[k]
               n == P(k, Len(b.child) - 1)
               i == Slot(b.round, k[Len(b.child)])
               h == inner[n].internals[Flip(i)]
           IN  /\ b.at = "get" /\ UNCHANGED <<phase, item, inner, leaf, leaves>>
               /\ \E c : /\ Becomes(k, c)
                         /\ \/ h = Null /\ c.at = "end"
                            \/ /\ h # Null /\ b.round = 3 /\ c.at = "publish"
                               /\ c.child = b.child
                            \/ /\ h # Null /\ b.round < 3 /\ c.at = "set"
                               /\ c.child = b.child /\ c.round = b.round + 1
                               /\ c.own = b.own /\ c.other = h /\ h \in Content
<1> DEFINE b == climber[k]
           n == P(k, Len(b.child) - 1)
           i == Slot(b.round, k[Len(b.child)])
           h == inner[n].internals[Flip(i)]
<1>0. b.at = "get" /\ UNCHANGED <<phase, item, inner, leaf, leaves>> BY DEF GetInternal
<1>1. Active(b) BY <1>0 DEF Active
<1>2. /\ b \in ClimberState /\ climber \in [Keys -> ClimberState] /\ ParentOf(b.child) = n
      /\ n \in Inner /\ inner[n] \in Node /\ b.round \in 1 .. 3
    BY <1>1, ClimbFacts
<1>3. Internal(b.round, Nibble(b.child)) = i /\ Flip(i) \in 0 .. 13 BY <1>1, SlotOfClimber
<1>4. h \in Content \cup {Null} BY <1>2, <1>3 DEF Node
<1>5. IF h = Null THEN End(k)
      ELSE IF b.round = 3 THEN climber' = [climber EXCEPT ![k].at = "publish"]
      ELSE climber' = [climber EXCEPT ![k].at = "set", ![k].other = h, ![k].round = b.round + 1]
    BY <1>2, <1>3 DEF GetInternal
<1> HIDE DEF h, i, n
<1>6. CASE h = Null
    <2>1. PICK c : Becomes(k, c) /\ c.at = "end" BY <1>1, <1>5, <1>6, EndFacts
    <2> QED BY <1>0, <1>6, <2>1 DEF b, n, i, h
<1>7. CASE h # Null /\ b.round = 3
    <2> DEFINE c == [b EXCEPT !.at = "publish"]
    <2>1. c \in ClimberState BY <1>2, Zenon DEF ClimberState
    <2>2. climber' = [climber EXCEPT ![k] = c] /\ c.at = "publish" /\ c.child = b.child
        BY <1>2, <1>5, <1>7 DEF ClimberState
    <2> HIDE DEF c
    <2>3. Becomes(k, c) BY <2>1, <2>2 DEF Becomes
    <2> QED BY <1>0, <1>7, <2>2, <2>3 DEF b, n, i, h
<1>8. CASE h # Null /\ b.round # 3
    <2>0. b.round + 1 \in 1 .. 3 /\ b.round < 3 /\ h \in Content BY <1>2, <1>4, <1>8
    <2> DEFINE r == b.round + 1
    <2>r. r \in 1 .. 3 BY <2>0
    <2> HIDE DEF r
    <2> DEFINE c == [b EXCEPT !.at = "set", !.other = h, !.round = r]
    <2>1. c \in ClimberState BY <1>2, <2>0, <2>r, Zenon DEF ClimberState
    <2>2. /\ climber' = [climber EXCEPT ![k] = c] /\ c.at = "set" /\ c.child = b.child
          /\ c.round = r /\ c.own = b.own /\ c.other = h
        BY <1>2, <1>5, <1>8 DEF ClimberState, r
    <2> HIDE DEF c
    <2>3. Becomes(k, c) BY <2>1, <2>2 DEF Becomes
    <2> QED BY <1>0, <1>8, <2>0, <2>2, <2>3 DEF b, n, i, h, r
<1> QED BY <1>6, <1>7, <1>8

\* To the parent, or past the root.
LEMMA ToParentFacts ==
    ASSUME Shape, NEW k \in Keys, Active(climber[k]), ToParent(k)
    PROVE  LET n == P(k, Len(climber[k].child) - 1)
           IN  \E c : /\ Becomes(k, c) /\ c.child = n
                      /\ c.at = IF n = <<>> THEN "end" ELSE "sibling"
<1> DEFINE b == climber[k]
           n == P(k, Len(b.child) - 1)
           c == [b EXCEPT !.child = n, !.at = IF n = <<>> THEN "end" ELSE "sibling"]
<1>1. /\ b \in ClimberState /\ climber \in [Keys -> ClimberState] /\ ParentOf(b.child) = n
      /\ n \in Inner
    BY ClimbFacts
<1>2. climber' = [climber EXCEPT ![k].child = n, ![k].at = IF n = <<>> THEN "end" ELSE "sibling"]
    BY <1>1 DEF ToParent
<1> HIDE DEF n
<1>3. c \in ClimberState
    <2>1. [b EXCEPT !.child = n] \in ClimberState BY <1>1, Zenon DEF ClimberState
    <2> QED BY <1>1, <2>1, Zenon DEF ClimberState
<1>4. /\ climber' = [climber EXCEPT ![k] = c] /\ c.child = n
      /\ c.at = IF n = <<>> THEN "end" ELSE "sibling"
    BY <1>1, <1>2 DEF ClimberState
<1> HIDE DEF c
<1>5. Becomes(k, c) BY <1>3, <1>4 DEF Becomes
<1> QED BY <1>4, <1>5 DEF n

\* The hash of a node whose internals are there.
LEMMA NodeHashType ==
    ASSUME Shape, NEW k \in Keys, climber[k].at \in {"publish", "store"}
    PROVE  LET n == P(k, Len(climber[k].child) - 1)
           IN  /\ NodeHash(n) \in Content
               /\ inner[n].internals[0] # Null /\ inner[n].internals[1] # Null
<1> DEFINE n == P(k, Len(climber[k].child) - 1)
<1>1. Active(climber[k]) BY DEF Active
<1>2. inner[n] \in Node /\ ClimberOK(climber[k], k, inner) BY <1>1, ClimbFacts
<1>3. inner[n].internals[0] # Null /\ inner[n].internals[1] # Null
    BY <1>1, <1>2 DEF ClimberOK
<1>4. inner[n].internals[0] \in Content /\ inner[n].internals[1] \in Content
    BY <1>2, <1>3 DEF Node
<1> QED BY <1>3, <1>4, HashType DEF NodeHash

LEMMA PublishFacts ==
    ASSUME Shape, NEW k \in Keys, Publish(k)
    PROVE  LET b == climber[k]
               n == P(k, Len(b.child) - 1)
           IN  /\ b.at = "publish" /\ UNCHANGED <<phase, item, leaf, leaves>>
               /\ \/ /\ inner[n].torn /\ inner' = inner
                     /\ \E c : Becomes(k, c) /\ c.at = "end"
                  \/ /\ ~inner[n].torn /\ inner[n].current
                     /\ \E node : /\ NodeBecomes(n, node) /\ node.current /\ ~node.torn
                                  /\ node.internals = inner[n].internals
                                  /\ node.hash = NodeHash(n)
                     /\ \E c : /\ Becomes(k, c) /\ c.child = n
                               /\ c.at = IF n = <<>> THEN "end" ELSE "sibling"
                  \/ /\ ~inner[n].torn /\ ~inner[n].current
                     /\ \E node : /\ NodeBecomes(n, node) /\ ~node.current /\ node.torn
                                  /\ node.internals = inner[n].internals
                     /\ \E c : Becomes(k, c) /\ c.child = b.child /\ c.at = "store"
<1> DEFINE b == climber[k]
           n == P(k, Len(b.child) - 1)
           h == NodeHash(n)
<1>0. b.at = "publish" /\ UNCHANGED <<phase, item, leaf, leaves>> BY DEF Publish
<1>1. Active(b) BY <1>0 DEF Active
<1>2. /\ b \in ClimberState /\ climber \in [Keys -> ClimberState] /\ ParentOf(b.child) = n
      /\ n \in Inner /\ inner[n] \in Node
    BY <1>1, ClimbFacts
<1>3. h \in Content BY <1>0, NodeHashType
<1>i. inner \in [Inner -> Node \cup {Null}] BY DEF Shape, TypeOK
<1>4. IF inner[n].torn THEN End(k) /\ UNCHANGED inner
      ELSE IF inner[n].current
      THEN inner' = [inner EXCEPT ![n].hash = h] /\ ToParent(k)
      ELSE /\ inner' = [inner EXCEPT ![n].torn = TRUE]
           /\ climber' = [climber EXCEPT ![k].at = "store"]
    BY <1>2 DEF Publish, ReadsNothing
<1> HIDE DEF n, h
<1>5. CASE inner[n].torn
    <2>1. PICK c : Becomes(k, c) /\ c.at = "end" BY <1>1, <1>4, <1>5, EndFacts
    <2> QED BY <1>0, <1>4, <1>5, <2>1 DEF n
<1>6. CASE ~inner[n].torn /\ inner[n].current
    <2> DEFINE node == [inner[n] EXCEPT !.hash = h]
    <2>1. node \in Node BY <1>2, <1>3, Zenon DEF Node
    <2>2. inner' = [inner EXCEPT ![n] = node] BY <1>2, <1>4, <1>6, <1>i
    <2>3. node.internals = inner[n].internals /\ node.hash = h BY <1>2 DEF Node
    <2>4. node.current = inner[n].current BY <1>2 DEF Node
    <2>5. node.torn = inner[n].torn BY <1>2 DEF Node
    <2> HIDE DEF node
    <2>6. NodeBecomes(n, node) BY <2>1, <2>2, MultiSetAssumption DEF NodeBecomes
    <2>7. \E nd : /\ NodeBecomes(n, nd) /\ nd.current /\ ~nd.torn
                  /\ nd.internals = inner[n].internals /\ nd.hash = h
        BY <1>6, <2>3, <2>4, <2>5, <2>6
    <2>8. ToParent(k) BY <1>4, <1>6
    <2>9. \E c : /\ Becomes(k, c) /\ c.child = n
                 /\ c.at = IF n = <<>> THEN "end" ELSE "sibling"
        BY <1>1, <2>8, ToParentFacts DEF n
    <2> QED BY <1>0, <1>6, <2>7, <2>9 DEF n, h
<1>7. CASE ~inner[n].torn /\ ~inner[n].current
    <2> DEFINE node == [inner[n] EXCEPT !.torn = TRUE]
               c == [b EXCEPT !.at = "store"]
    <2>1. node \in Node BY <1>2, Zenon DEF Node
    <2>2. inner' = [inner EXCEPT ![n] = node] BY <1>2, <1>4, <1>7, <1>i
    <2>3. node.internals = inner[n].internals BY <1>2 DEF Node
    <2>4. node.current = inner[n].current BY <1>2 DEF Node
    <2>5. node.torn = TRUE BY <1>2 DEF Node
    <2> HIDE DEF node
    <2>6. NodeBecomes(n, node) BY <2>1, <2>2, MultiSetAssumption DEF NodeBecomes
    <2>7. c \in ClimberState BY <1>2, Zenon DEF ClimberState
    <2>8. climber' = [climber EXCEPT ![k] = c] /\ c.at = "store" /\ c.child = b.child
        BY <1>2, <1>4, <1>7 DEF ClimberState
    <2> HIDE DEF c
    <2>9. Becomes(k, c) BY <2>7, <2>8 DEF Becomes
    <2>10. \E nd : /\ NodeBecomes(n, nd) /\ ~nd.current /\ nd.torn
                   /\ nd.internals = inner[n].internals
        BY <1>7, <2>3, <2>4, <2>5, <2>6
    <2> QED BY <1>0, <1>7, <2>8, <2>9, <2>10 DEF n
<1> QED BY <1>5, <1>6, <1>7

LEMMA StoreFacts ==
    ASSUME Shape, NEW k \in Keys, Store(k)
    PROVE  LET b == climber[k]
               n == P(k, Len(b.child) - 1)
           IN  /\ b.at = "store" /\ UNCHANGED <<phase, item, leaf, leaves>>
               /\ \E node : /\ NodeBecomes(n, node) /\ node.current /\ ~node.torn
                            /\ node.internals = inner[n].internals /\ node.hash = NodeHash(n)
               /\ \E c : /\ Becomes(k, c) /\ c.child = n
                         /\ c.at = IF n = <<>> THEN "end" ELSE "sibling"
<1> DEFINE b == climber[k]
           n == P(k, Len(b.child) - 1)
           h == NodeHash(n)
           node == [inner[n] EXCEPT !.hash = h, !.current = TRUE, !.torn = FALSE]
<1>0. b.at = "store" /\ UNCHANGED <<phase, item, leaf, leaves>> BY DEF Store
<1>1. Active(b) BY <1>0 DEF Active
<1>2. ParentOf(b.child) = n /\ n \in Inner /\ inner[n] \in Node BY <1>1, ClimbFacts
<1>3. h \in Content BY <1>0, NodeHashType
<1>i. inner \in [Inner -> Node \cup {Null}] BY DEF Shape, TypeOK
<1>4. inner' = [inner EXCEPT ![n].hash = h, ![n].current = TRUE, ![n].torn = FALSE] /\ ToParent(k)
    BY <1>2 DEF Store
<1> HIDE DEF n, h
<1>5. node \in Node BY <1>2, <1>3, Zenon DEF Node
<1>6. inner' = [inner EXCEPT ![n] = node] BY <1>2, <1>4, <1>i
<1>7. node.internals = inner[n].internals /\ node.hash = h BY <1>2 DEF Node
<1>8. node.current = TRUE BY <1>2 DEF Node
<1>9. node.torn = FALSE BY <1>2 DEF Node
<1> HIDE DEF node
<1>10. NodeBecomes(n, node) BY <1>5, <1>6, MultiSetAssumption DEF NodeBecomes
<1>11. \E nd : /\ NodeBecomes(n, nd) /\ nd.current /\ ~nd.torn
               /\ nd.internals = inner[n].internals /\ nd.hash = h
    BY <1>7, <1>8, <1>9, <1>10
<1>12. \E c : /\ Becomes(k, c) /\ c.child = n
              /\ c.at = IF n = <<>> THEN "end" ELSE "sibling"
    BY <1>1, <1>4, ToParentFacts DEF n
<1> QED BY <1>0, <1>11, <1>12 DEF n, h

----------------------------------------------------------------------------
(* The shape of the state: the steps of a climber, and the theorem.        *)

\* A climber's step that changes no node.
LEMMA MoveClimberShape ==
    ASSUME Shape, NEW k \in Keys, Active(climber[k]), NEW c, Becomes(k, c),
           UNCHANGED <<phase, item, inner, leaf, leaves>>, ClimberOK(c, k, inner)
    PROVE  Shape'
<1>1. phase = "leaves" BY ClimbFacts
<1>2. inner' \in [Inner -> Node \cup {Null}] BY DEF Shape, TypeOK
<1>3. ClimberOK(c, k, inner') OBVIOUS
<1> QED BY <1>1, <1>2, <1>3, ClimberShape DEF Becomes

\* A climber's step that changes the node above its child.
LEMMA ChangeNodeShape ==
    ASSUME Shape, NEW k \in Keys, Active(climber[k]), NEW c, Becomes(k, c), NEW node,
           NodeBecomes(P(k, Len(climber[k].child) - 1), node),
           \A i \in 0 .. 13 :
               inner[P(k, Len(climber[k].child) - 1)].internals[i] # Null =>
                   node.internals[i] # Null,
           UNCHANGED <<phase, item, leaf, leaves>>, ClimberOK(c, k, inner')
    PROVE  /\ Shape'
           /\ inner'[P(k, Len(climber[k].child) - 1)] = node
           /\ \A m \in Inner : m # P(k, Len(climber[k].child) - 1) => inner'[m] = inner[m]
<1> DEFINE n == P(k, Len(climber[k].child) - 1)
<1>1. phase = "leaves" /\ n \in Inner BY ClimbFacts
<1>2. inner \in [Inner -> Node \cup {Null}] BY DEF Shape, TypeOK
<1> HIDE DEF n
<1>n. NodeBecomes(n, node) /\ \A i \in 0 .. 13 : inner[n].internals[i] # Null => node.internals[i] # Null
    BY DEF n
<1>3. /\ inner' \in [Inner -> Node \cup {Null}] /\ inner'[n] = node /\ node # Null
      /\ \A m \in Inner : m # n => inner'[m] = inner[m]
    BY <1>1, <1>2, <1>n DEF NodeBecomes
<1>4. \A m \in Inner : inner[m] # Null =>
          /\ inner'[m] # Null
          /\ \A i \in 0 .. 13 : inner[m].internals[i] # Null => inner'[m].internals[i] # Null
    BY <1>3, <1>n
<1>5. Shape' BY <1>1, <1>3, <1>4, ClimberShape DEF Becomes
<1> QED BY <1>3, <1>5 DEF n

\* A climber that has ended, or that starts at the next node.
LEMMA EndOK == ASSUME NEW c, c.at = "end", NEW k, NEW nodes PROVE ClimberOK(c, k, nodes)
BY DEF ClimberOK, Active

LEMMA NextNodeOK ==
    ASSUME Shape, NEW k \in Keys, Active(climber[k]), NEW c, NEW nodes,
           c.child = P(k, Len(climber[k].child) - 1),
           c.at = IF P(k, Len(climber[k].child) - 1) = <<>> THEN "end" ELSE "sibling"
    PROVE  ClimberOK(c, k, nodes)
<1> DEFINE e == Len(climber[k].child)
           n == P(k, e - 1)
<1>1. k \in ItemKeys /\ e - 1 \in 0 .. Levels - 1 /\ e \in 1 .. Levels BY ClimbFacts
<1> HIDE DEF e
<1>2. Len(n) = e - 1 /\ e - 1 \in 0 .. Levels BY <1>1, DepthFacts
<1>3. CASE n = <<>> BY <1>3, EndOK DEF e
<1>4. CASE n # <<>>
    <2>1. e - 1 # 0 BY <1>4, EmptyPath
    <2>2. e - 1 \in 1 .. Levels BY <1>1, <1>2, <2>1, KeyFacts
    <2>3. c.at = "sibling" /\ c.child = n BY <1>4 DEF e
    <2> HIDE DEF n
    <2> QED BY <1>1, <1>2, <2>2, <2>3 DEF ClimberOK, n
<1> QED BY <1>3, <1>4

LEMMA ClimberStepShape ==
    ASSUME Shape, NEW k \in Keys, SubmitLeaf(k) \/ ClimberStep(k) PROVE Shape'
<1> DEFINE b == climber[k]
           e == Len(b.child)
           n == P(k, e - 1)
<1>1. CASE SubmitLeaf(k)
    <2>1. b.at = "queued" /\ UNCHANGED <<phase, item, inner, leaf, leaves>> BY <1>1, SubmitFacts
    <2>2. PICK c : Becomes(k, c) /\ c.at = "sibling" /\ c.child = b.child BY <1>1, SubmitFacts
    <2>3. Active(b) BY <2>1 DEF Active
    <2>4. ClimberOK(c, k, inner) BY <2>2, <2>3, ClimbFacts DEF ClimberOK
    <2> QED BY <2>1, <2>2, <2>3, <2>4, MoveClimberShape
<1>2. CASE CheckSibling(k)
    <2>1. b.at = "sibling" /\ UNCHANGED <<phase, item, inner, leaf, leaves>> BY <1>2, CheckFacts
    <2>2. Active(b) BY <2>1 DEF Active
    <2>3. PICK c : /\ Becomes(k, c)
                   /\ \/ c.at = "end"
                      \/ c.at = "read" /\ c.child = b.child /\ c.own \in Content
        BY <1>2, CheckFacts
    <2>4. ClimberOK(c, k, inner)
        <3>1. CASE c.at = "end" BY <3>1, EndOK
        <3>2. CASE c.at = "read" /\ c.child = b.child /\ c.own \in Content
            BY <2>2, <3>2, ClimbFacts DEF ClimberOK
        <3> QED BY <2>3, <3>1, <3>2
    <2> QED BY <2>1, <2>2, <2>3, <2>4, MoveClimberShape
<1>3. CASE ReadSibling(k)
    <2>1. b.at = "read" /\ UNCHANGED <<phase, item, inner, leaf, leaves>> BY <1>3, ReadFacts
    <2>2. Active(b) BY <2>1 DEF Active
    <2>3. PICK c : /\ Becomes(k, c) /\ c.at = "set" /\ c.child = b.child
                   /\ c.own \in Content /\ c.other \in Content
        BY <1>3, ReadFacts
    <2>4. ClimberOK(c, k, inner) BY <2>2, <2>3, ClimbFacts DEF ClimberOK
    <2> QED BY <2>1, <2>2, <2>3, <2>4, MoveClimberShape
<1>4. CASE SetInternal(k)
    <2> DEFINE i == Slot(b.round, k[e])
               h == Combined(b)
    <2>1. b.at = "set" /\ UNCHANGED <<phase, item, leaf, leaves>> BY <1>4, SetFacts
    <2>2. Active(b) BY <2>1 DEF Active
    <2>3. i \in 0 .. 13 BY <2>2, SlotOfClimber
    <2>4. /\ inner[n] \in Node /\ n \in Inner /\ k \in ItemKeys /\ e \in 1 .. Levels
          /\ b.child = P(k, e)
        BY <2>2, ClimbFacts
    <2>5. CASE inner[n].internals[i] # Null
        <3>1. inner' = inner BY <1>4, <2>5, SetFacts
        <3>2. PICK c : Becomes(k, c) /\ c.at = "end" BY <1>4, <2>5, SetFacts
        <3> QED BY <2>1, <2>2, <3>1, <3>2, EndOK, MoveClimberShape
    <2>6. CASE inner[n].internals[i] = Null
        <3>0. h \in Content /\ h # Null
            <4>1. h \in Content BY <1>4, <2>6, SetFacts
            <4> HIDE DEF h
            <4> QED BY <4>1, MultiSetAssumption
        <3>1. PICK node : NodeBecomes(n, node) /\ node.internals = [inner[n].internals EXCEPT ![i] = h]
            BY <1>4, <2>6, SetFacts
        <3>2. PICK c : /\ Becomes(k, c) /\ c.at = "get" /\ c.child = b.child /\ c.round = b.round
                       /\ c.own = h
            BY <1>4, <2>6, SetFacts
        <3> HIDE DEF h
        <3>3. /\ node.internals[i] # Null
              /\ \A j \in 0 .. 13 : inner[n].internals[j] # Null => node.internals[j] # Null
            BY <2>3, <2>4, <3>0, <3>1 DEF Node
        <3>4. inner'[n] = node BY <2>4, <3>1 DEF NodeBecomes, Shape, TypeOK
        <3>5. ClimberOK(c, k, inner') BY <2>4, <3>0, <3>2, <3>3, <3>4 DEF ClimberOK
        <3> QED BY <2>1, <2>2, <3>1, <3>2, <3>3, <3>5, ChangeNodeShape
    <2> QED BY <2>5, <2>6
<1>5. CASE GetInternal(k)
    <2> DEFINE i == Slot(b.round, k[e])
    <2>1. b.at = "get" /\ UNCHANGED <<phase, item, inner, leaf, leaves>> BY <1>5, GetFacts
    <2>2. Active(b) BY <2>1 DEF Active
    <2>3. PICK c : /\ Becomes(k, c)
                   /\ \/ c.at = "end"
                      \/ /\ inner[n].internals[Flip(i)] # Null /\ b.round = 3 /\ c.at = "publish"
                         /\ c.child = b.child
                      \/ /\ c.at = "set" /\ c.child = b.child /\ c.round = b.round + 1
                         /\ c.own = b.own /\ c.other \in Content
        BY <1>5, GetFacts
    <2>4. /\ ClimberOK(b, k, inner) /\ k[e] \in Nibbles /\ k \in ItemKeys /\ e \in 1 .. Levels
          /\ b.child = P(k, e) /\ b \in ClimberState /\ b.round \in 1 .. 3
        BY <2>2, ClimbFacts
    <2>5. inner[n].internals[i] # Null BY <2>1, <2>2, <2>4 DEF ClimberOK
    <2>6. ClimberOK(c, k, inner)
        <3>1. CASE c.at = "end" BY <3>1, EndOK
        <3>2. CASE inner[n].internals[Flip(i)] # Null /\ b.round = 3 /\ c.at = "publish"
                   /\ c.child = b.child
            <4>1. (i = 0 /\ Flip(i) = 1) \/ (i = 1 /\ Flip(i) = 0)
                <5>1. i = 0 \/ i = 1 BY <2>4, <3>2, SlotValues
                <5>2. Flip(0) = 1 /\ Flip(1) = 0 BY DEF Flip
                <5> HIDE DEF i
                <5> QED BY <5>1, <5>2
            <4>2. inner[n].internals[0] # Null /\ inner[n].internals[1] # Null
                BY <2>5, <3>2, <4>1
            <4> QED BY <2>4, <3>2, <4>2 DEF ClimberOK
        <3>3. CASE c.at = "set" /\ c.child = b.child /\ c.own = b.own /\ c.other \in Content
            <4>1. b.own \in Content BY <2>1, <2>2, <2>4 DEF ClimberOK
            <4> QED BY <2>4, <3>3, <4>1 DEF ClimberOK
        <3> QED BY <2>3, <3>1, <3>2, <3>3
    <2> QED BY <2>1, <2>2, <2>3, <2>6, MoveClimberShape
<1>6. CASE Publish(k)
    <2>1. b.at = "publish" /\ UNCHANGED <<phase, item, leaf, leaves>> BY <1>6, PublishFacts
    <2>2. Active(b) BY <2>1 DEF Active
    <2>3. /\ inner[n] \in Node /\ n \in Inner /\ k \in ItemKeys /\ e \in 1 .. Levels
          /\ b.child = P(k, e)
        BY <2>2, ClimbFacts
    <2>4. CASE inner[n].torn
        <3>1. PICK c : Becomes(k, c) /\ c.at = "end" BY <1>6, <2>4, PublishFacts
        <3>2. inner' = inner BY <1>6, <2>4, PublishFacts
        <3> QED BY <2>1, <2>2, <3>1, <3>2, EndOK, MoveClimberShape
    <2>5. CASE ~inner[n].torn /\ inner[n].current
        <3>1. PICK node : NodeBecomes(n, node) /\ node.internals = inner[n].internals
            BY <1>6, <2>5, PublishFacts
        <3>2. PICK c : /\ Becomes(k, c) /\ c.child = n
                       /\ c.at = IF n = <<>> THEN "end" ELSE "sibling"
            BY <1>6, <2>5, PublishFacts
        <3>3. ClimberOK(c, k, inner') BY <2>2, <3>2, NextNodeOK
        <3> QED BY <2>1, <2>2, <3>1, <3>2, <3>3, ChangeNodeShape
    <2>6. CASE ~inner[n].torn /\ ~inner[n].current
        <3>1. PICK node : NodeBecomes(n, node) /\ node.internals = inner[n].internals
            BY <1>6, <2>6, PublishFacts
        <3>2. PICK c : Becomes(k, c) /\ c.child = b.child /\ c.at = "store"
            BY <1>6, <2>6, PublishFacts
        <3>3. inner[n].internals[0] # Null /\ inner[n].internals[1] # Null
            BY <2>1, NodeHashType
        <3>4. inner'[n] = node BY <2>3, <3>1 DEF NodeBecomes, Shape, TypeOK
        <3>5. ClimberOK(c, k, inner') BY <2>3, <3>1, <3>2, <3>3, <3>4 DEF ClimberOK
        <3> QED BY <2>1, <2>2, <3>1, <3>2, <3>5, ChangeNodeShape
    <2> QED BY <2>4, <2>5, <2>6
<1>7. CASE Store(k)
    <2>1. b.at = "store" /\ UNCHANGED <<phase, item, leaf, leaves>> BY <1>7, StoreFacts
    <2>2. Active(b) BY <2>1 DEF Active
    <2>3. PICK node : NodeBecomes(n, node) /\ node.internals = inner[n].internals
        BY <1>7, StoreFacts
    <2>4. PICK c : /\ Becomes(k, c) /\ c.child = n
                   /\ c.at = IF n = <<>> THEN "end" ELSE "sibling"
        BY <1>7, StoreFacts
    <2>5. ClimberOK(c, k, inner') BY <2>2, <2>4, NextNodeOK
    <2> QED BY <2>1, <2>2, <2>3, <2>4, <2>5, ChangeNodeShape
<1> QED BY <1>1, <1>2, <1>3, <1>4, <1>5, <1>6, <1>7 DEF ClimberStep

LEMMA NextShape == Shape /\ [Next]_vars => Shape'
<1> SUFFICES ASSUME Shape, [Next]_vars PROVE Shape' OBVIOUS
<1>1. CASE UNCHANGED vars BY <1>1 DEF Shape, TypeOK, vars
<1>2. ASSUME NEW g \in Items, SubmitItem(g) \/ ItemStep(g) PROVE Shape'
    BY <1>2, ItemMovesShape, CopyNodeShape, MarkShape DEF ItemStep
<1>3. CASE RejectKey \/ ReturnError \/ StartClimbing \/ Finish BY <1>3, CallerShape
<1>4. CASE Returned BY <1>1, <1>4 DEF Returned
<1> QED BY <1>1, <1>2, <1>3, <1>4, ClimberStepShape DEF Next

LEMMA ShapeHolds == Spec => []Shape
BY InitShape, NextShape, PTL DEF Spec

\* Types, for any items and any keys set before: a climber never combines a
\* hash that is not there, and never looks beyond the internals of a node or
\* above the root (recompute, tree_node.go).
THEOREM TypeCorrect == Spec => []TypeOK
<1>1. Shape => TypeOK BY DEF Shape
<1> QED BY <1>1, ShapeHolds, PTL

----------------------------------------------------------------------------
(* What the call leaves behind: the hashes that setting the items one by   *)
(* one gives. The keys must not have been set before in the same version:  *)
(* run multiset_after_set shows what happens then.                         *)

\* "also check no duplicated keys" (smt.go 521), which the code leaves to its
\* caller: two items with one key race for its leaf.
DistinctKeys == \A g, h \in Items : g.key = h.key => g = h

----------------------------------------------------------------------------
(* The inductive invariant, first phase.                                   *)

\* The hash at slot i of node n changes in this call.
Dirty(n, i) == \E k \in ItemKeys : n \in Prefixes(k) /\ i \in leafInternalMap[k[Len(n) + 1]]

\* A copied node is the old one without what changes.
Cleared(n, node) ==
    /\ Touched(n) /\ ~node.current /\ ~node.torn
    /\ \A i \in 0 .. 13 : \/ node.internals[i] = Null /\ Dirty(n, i)
                          \/ node.internals[i] = InternalContent(Base, n, i)

\* The nodes an item has been through are without what it changes.
Marked(it, g, nodes) ==
    \A d \in 0 .. Levels - 1 :
        d < it.level => \A i \in leafInternalMap[g.key[d + 1]] :
                            nodes[P(g.key, d)].internals[i] = Null

LeafSet(it, g, lf, lfs) ==
    /\ it.at \in {"lookup", "register", "end"} => lf[g.key] = g.val
    /\ it.at = "end" => lfs[g.key] = g.val

Preparing ==
    /\ \A n \in Inner : inner[n] # Null => Cleared(n, inner[n])
    /\ \A g \in Items : Marked(item[g], g, inner) /\ LeafSet(item[g], g, leaf, leaves)
    /\ \A k \in Keys \ ItemKeys : leaf[k] = Null

----------------------------------------------------------------------------
(* The inductive invariant, second phase.                                  *)

\* What is there is final.
Final(n, node) ==
    /\ node.current => node.hash = Below(Result, n)
    /\ node.torn => ~node.current
    /\ \A i \in 0 .. 13 : \/ node.internals[i] = Null /\ Dirty(n, i)
                          \/ node.internals[i] = InternalContent(Result, n, i)

\* The hash of stage st on the way of key k to its node at depth d is not
\* there. The stages of a path are ordered from the leaf to the root.
Missing(nodes, k, d, st) ==
    IF st = 4 THEN ~nodes[P(k, d)].current
    ELSE nodes[P(k, d)].internals[Slot(st, k[d + 1])] = Null

Ahead(d, st, dd, ss) == dd < d \/ (dd = d /\ ss >= st)

\* Two keys have that stage in common.
Same(k, kk, d, st) == P(k, d) = P(kk, d) /\ Slot(st, k[d + 1]) = Slot(st, kk[d + 1])

\* What the hash of a stage is made of is there.
Ready(nodes, k, d, st) ==
    \A q \in ItemKeys :
        Same(q, k, d, st) =>
            /\ st = 1 /\ d + 1 < Levels => ~Missing(nodes, q, d + 1, 4)
            /\ st > 1 => ~Missing(nodes, q, d, st - 1)

\* Nothing is there before what it is made of.
Monotone(nodes) ==
    \A k \in ItemKeys, d \in 0 .. Levels - 1, st \in 1 .. 4 :
        Missing(nodes, k, d, st) =>
            /\ st < 4 => Missing(nodes, k, d, st + 1)
            /\ st = 4 /\ d > 0 => Missing(nodes, k, d - 1, 1)

\* The node and the stage a climber works for.
Depth(c) == Len(c.child) - 1

Stage(c) == CASE c.at = "set" -> c.round
              [] c.at = "get" -> c.round + 1
              [] c.at \in {"publish", "store"} -> 4
              [] OTHER -> 1

\* A climber finds what it combines.
Prepared(c, k, nodes) ==
    /\ c.at \in {"queued", "sibling"} /\ Len(c.child) < Levels => nodes[c.child].current
    /\ c.at \in {"read", "set", "publish", "store"} => Ready(nodes, k, Depth(c), Stage(c))

\* What a climber holds is final.
Holds(c, k) ==
    LET p == P(k, Depth(c))
        x == k[Len(c.child)]
        i == Slot(c.round - 1, x)
    IN  /\ c.at = "read" \/ (c.at = "set" /\ c.round = 1) => c.own = Below(Result, c.child)
        /\ c.at = "set" /\ c.round = 1 => c.other = Below(Result, SiblingOf(c.child))
        /\ c.at = "set" /\ c.round > 1 =>
              /\ c.own = InternalContent(Result, p, i)
              /\ c.other = InternalContent(Result, p, Flip(i))
        /\ c.at = "get" => c.own = InternalContent(Result, p, Slot(c.round, x))

\* torn: exactly one climber is about to store the entry.
TornOK(cl, nodes) ==
    /\ \A n \in Inner : nodes[n] # Null /\ nodes[n].torn =>
           \E k \in ItemKeys : cl[k].at = "store" /\ P(k, Depth(cl[k])) = n
    /\ \A k \in Keys : cl[k].at = "store" => nodes[P(k, Depth(cl[k]))].torn
    /\ \A k, kk \in Keys :
           cl[k].at = "store" /\ cl[kk].at = "store" /\ P(k, Depth(cl[k])) = P(kk, Depth(cl[kk]))
               => k = kk

\* A climber that works for a hash that is not there.
Healthy(c, k, nodes) == Active(c) /\ Missing(nodes, k, Depth(c), Stage(c))

\* It will have to set the hash of stage st at depth d on the way of key k.
InCharge(c, kk, nodes, k, d, st) ==
    /\ Healthy(c, kk, nodes)
    /\ Ahead(Depth(c), Stage(c), d, st)
    /\ Same(k, kk, d, st)

\* For every hash that is not there a climber is on its way to it.
Charged(cl, nodes) ==
    \A k \in ItemKeys, d \in 0 .. Levels - 1, st \in 1 .. 4 :
        Missing(nodes, k, d, st) => \E kk \in ItemKeys : InCharge(cl[kk], kk, nodes, k, d, st)

Climbing ==
    /\ \A n \in Inner : inner[n] # Null => Touched(n) /\ Final(n, inner[n])
    /\ \A k \in ItemKeys : leaf[k] = Result[k] /\ leaves[k] = Result[k]
    /\ \A k \in Keys \ ItemKeys : leaf[k] = Null
    /\ \A k \in Keys : Active(climber[k]) =>
           Prepared(climber[k], k, inner) /\ Holds(climber[k], k)
    /\ TornOK(climber, inner) /\ Monotone(inner) /\ Charged(climber, inner)

Inv ==
    /\ phase \in {"items", "failed"} => Preparing
    /\ phase \in {"leaves", "done"} => Climbing

----------------------------------------------------------------------------
(* Stages of paths.                                                        *)

LEMMA SameSymmetric ==
    ASSUME NEW k, NEW kk, NEW d, NEW st, Same(k, kk, d, st) PROVE Same(kk, k, d, st)
BY DEF Same

LEMMA SameTransitive ==
    ASSUME NEW k, NEW kk, NEW q, NEW d, NEW st, Same(k, kk, d, st), Same(kk, q, d, st)
    PROVE  Same(k, q, d, st)
BY DEF Same

LEMMA SameMissing ==
    ASSUME NEW k, NEW kk, NEW d, NEW st, Same(k, kk, d, st), NEW nodes
    PROVE  Missing(nodes, k, d, st) <=> Missing(nodes, kk, d, st)
BY DEF Same, Missing

\* Keys that have a stage in common have everything ahead of it in common.
LEMMA SameAhead ==
    ASSUME NEW k \in Keys, NEW kk \in Keys, NEW d \in 0 .. Levels - 1, NEW st \in 1 .. 4,
           NEW dd \in 0 .. Levels - 1, NEW ss \in 1 .. 4,
           Same(k, kk, d, st), Ahead(d, st, dd, ss)
    PROVE  Same(k, kk, dd, ss)
<1>0. P(k, d) = P(kk, d) /\ d \in 0 .. Levels /\ Levels \in Nat BY KeyFacts DEF Same
<1>1. CASE dd < d
    <2>1. dd \in 0 .. d /\ dd + 1 \in 1 .. d BY <1>0, <1>1
    <2>2. P(k, dd) = P(kk, dd) /\ k[dd + 1] = kk[dd + 1] BY <1>0, <2>1, PathsMeet
    <2> QED BY <2>2 DEF Same
<1>2. CASE dd = d /\ ss >= st
    <2> DEFINE x == k[d + 1]
               y == kk[d + 1]
    <2>1. x \in Nibbles /\ y \in Nibbles BY DepthFacts
    <2>2. Slot(st, x) = Slot(st, y) BY DEF Same
    <2> HIDE DEF x, y
    <2>3. /\ Slot(1, x) = Slot(1, y) => Slot(2, x) = Slot(2, y)
          /\ Slot(2, x) = Slot(2, y) => Slot(3, x) = Slot(3, y)
          /\ Slot(4, x) = Slot(4, y)
        <3>1. 1 \in 1 .. 3 /\ 2 \in 1 .. 3 OBVIOUS
        <3>2. Slot(1, x) = Slot(1, y) => Slot(1 + 1, x) = Slot(1 + 1, y)
            BY <2>1, <3>1, SlotSiblings
        <3>3. Slot(2, x) = Slot(2, y) => Slot(2 + 1, x) = Slot(2 + 1, y)
            BY <2>1, <3>1, SlotSiblings
        <3>4. Slot(4, x) = Slot(4, y) BY DEF Slot
        <3> QED BY <3>2, <3>3, <3>4
    <2>4. Slot(ss, x) = Slot(ss, y)
        <3>1. CASE st = 1 BY <1>2, <2>2, <2>3, <3>1
        <3>2. CASE st = 2 BY <1>2, <2>2, <2>3, <3>2
        <3>3. CASE st = 3 BY <1>2, <2>2, <2>3, <3>3
        <3>4. CASE st = 4 BY <1>2, <2>2, <2>3, <3>4
        <3> QED BY <3>1, <3>2, <3>3, <3>4
    <2> QED BY <1>0, <1>2, <2>4 DEF Same, x, y
<1> QED BY <1>1, <1>2 DEF Ahead

\* The stages that a stage is made of.
LEMMA SamePrevious ==
    ASSUME NEW k \in Keys, NEW q \in Keys, NEW d \in 0 .. Levels - 1
    PROVE  /\ \A st \in 1 .. 3 :
                 Same(q, k, d, st + 1) <=>
                    /\ P(q, d) = P(k, d)
                    /\ \/ Slot(st, q[d + 1]) = Slot(st, k[d + 1])
                       \/ Slot(st, q[d + 1]) = Flip(Slot(st, k[d + 1]))
           /\ Same(q, k, d, 1) <=>
                 \/ P(q, d + 1) = P(k, d + 1)
                 \/ SiblingOf(P(k, d + 1)) \in Prefixes(q)
<1>1. /\ k[d + 1] \in Nibbles /\ q[d + 1] \in Nibbles /\ d + 1 \in 1 .. Levels
      /\ d + 1 \in 0 .. Levels /\ d \in 0 .. d + 1 /\ d \in Nat /\ d + 1 \in 1 .. d + 1
    BY DepthFacts
<1>2. ASSUME NEW st \in 1 .. 3
      PROVE  Same(q, k, d, st + 1) <=>
                    /\ P(q, d) = P(k, d)
                    /\ \/ Slot(st, q[d + 1]) = Slot(st, k[d + 1])
                       \/ Slot(st, q[d + 1]) = Flip(Slot(st, k[d + 1]))
    BY <1>1, SlotSiblings DEF Same
<1>3. Same(q, k, d, 1) <=>
          P(q, d) = P(k, d) /\ (q[d + 1] = k[d + 1] \/ q[d + 1] = Flip(k[d + 1]))
    BY <1>1, FlipFacts DEF Same
<1>4. P(q, d + 1) = P(k, d + 1) <=> P(q, d) = P(k, d) /\ q[d + 1] = k[d + 1]
    <2>1. P(q, d + 1) = P(k, d + 1) => P(q, d) = P(k, d) /\ q[d + 1] = k[d + 1]
        BY <1>1, PathsMeet
    <2>2. (d + 1) - 1 = d BY <1>1
    <2>3. P(q, d) = P(k, d) /\ q[d + 1] = k[d + 1] => P(q, d + 1) = P(k, d + 1)
        BY <1>1, <2>2, PathsGoOn
    <2> QED BY <2>1, <2>3
<1>5. SiblingOf(P(k, d + 1)) \in Prefixes(q) <=> P(q, d) = P(k, d) /\ q[d + 1] = Flip(k[d + 1])
    <2>1. (d + 1) - 1 = d BY <1>1
    <2> QED BY <1>1, <2>1, SiblingFacts
<1> QED BY <1>2, <1>3, <1>4, <1>5

----------------------------------------------------------------------------
(* Who is in charge.                                                       *)

\* Active climbers are on their way.
Placed(cl) ==
    \A k \in ItemKeys : Active(cl[k]) => Depth(cl[k]) \in 0 .. Levels - 1 /\ Stage(cl[k]) \in 1 .. 4

\* Only the climber of one key moves.
Moves(cl, new, k0) == \A k \in ItemKeys : k # k0 => new[k] = cl[k]

\* It does not change what is there, and keeps its place or gives up one
\* where it had nothing to do.
LEMMA ChargedMove ==
    ASSUME NEW cl, NEW new, NEW nodes, NEW nodes2, NEW k0 \in ItemKeys,
           Charged(cl, nodes), Placed(cl), Moves(cl, new, k0),
           \A q \in ItemKeys, d \in 0 .. Levels - 1, st \in 1 .. 4 :
               Missing(nodes2, q, d, st) <=> Missing(nodes, q, d, st),
           \/ ~Healthy(cl[k0], k0, nodes)
           \/ /\ Active(new[k0]) /\ Depth(new[k0]) = Depth(cl[k0])
              /\ Stage(new[k0]) = Stage(cl[k0])
    PROVE  Charged(new, nodes2)
<1> SUFFICES ASSUME NEW k \in ItemKeys, NEW d \in 0 .. Levels - 1, NEW st \in 1 .. 4,
                    Missing(nodes2, k, d, st)
             PROVE  \E kk \in ItemKeys : InCharge(new[kk], kk, nodes2, k, d, st)
    BY DEF Charged
<1>1. PICK kk \in ItemKeys : InCharge(cl[kk], kk, nodes, k, d, st) BY DEF Charged
<1>2. /\ Active(cl[kk]) /\ Missing(nodes, kk, Depth(cl[kk]), Stage(cl[kk]))
      /\ Ahead(Depth(cl[kk]), Stage(cl[kk]), d, st) /\ Same(k, kk, d, st)
    BY <1>1 DEF InCharge, Healthy
<1>3. Missing(nodes2, kk, Depth(cl[kk]), Stage(cl[kk])) BY <1>2 DEF Placed
<1>4. /\ Active(new[kk]) /\ Depth(new[kk]) = Depth(cl[kk]) /\ Stage(new[kk]) = Stage(cl[kk])
    <2>1. CASE kk = k0 BY <1>2, <2>1 DEF Healthy
    <2>2. CASE kk # k0 BY <1>2, <2>2 DEF Moves
    <2> QED BY <2>1, <2>2
<1>5. InCharge(new[kk], kk, nodes2, k, d, st) BY <1>2, <1>3, <1>4 DEF InCharge, Healthy
<1> QED BY <1>5

\* It stops, and another one is in charge of what it was working for.
LEMMA ChargedQuit ==
    ASSUME NEW cl, NEW new, NEW nodes, NEW k0 \in ItemKeys, NEW k1 \in ItemKeys, k1 # k0,
           Charged(cl, nodes), Placed(cl), Moves(cl, new, k0), Active(cl[k0]),
           InCharge(cl[k1], k1, nodes, k0, Depth(cl[k0]), Stage(cl[k0]))
    PROVE  Charged(new, nodes)
<1> SUFFICES ASSUME NEW k \in ItemKeys, NEW d \in 0 .. Levels - 1, NEW st \in 1 .. 4,
                    Missing(nodes, k, d, st)
             PROVE  \E kk \in ItemKeys : InCharge(new[kk], kk, nodes, k, d, st)
    BY DEF Charged
<1>1. PICK kk \in ItemKeys : InCharge(cl[kk], kk, nodes, k, d, st) BY DEF Charged
<1>2. CASE kk # k0
    <2>1. new[kk] = cl[kk] BY <1>2 DEF Moves
    <2> QED BY <1>1, <2>1
<1>3. CASE kk = k0
    <2> DEFINE d0 == Depth(cl[k0])
               s0 == Stage(cl[k0])
               d1 == Depth(cl[k1])
               s1 == Stage(cl[k1])
    <2>1. Ahead(d0, s0, d, st) /\ Same(k, k0, d, st) BY <1>1, <1>3 DEF InCharge
    <2>2. Ahead(d1, s1, d0, s0) /\ Same(k0, k1, d0, s0) /\ Healthy(cl[k1], k1, nodes)
        BY DEF InCharge
    <2>3. d0 \in 0 .. Levels - 1 /\ s0 \in 1 .. 4 /\ d1 \in 0 .. Levels - 1 /\ s1 \in 1 .. 4
        BY <2>2 DEF Placed, Healthy
    <2> HIDE DEF d0, s0, d1, s1
    <2>4. k0 \in Keys /\ k1 \in Keys /\ Levels \in Nat BY ItemKeyFacts, KeyFacts
    <2>5. Same(k0, k1, d, st) BY <2>1, <2>2, <2>3, <2>4, SameAhead
    <2>6. Same(k, k1, d, st) BY <2>1, <2>5, SameTransitive
    <2>7. Ahead(d1, s1, d, st) BY <2>1, <2>2, <2>3, <2>4 DEF Ahead
    <2>8. new[k1] = cl[k1] BY DEF Moves
    <2>9. InCharge(new[k1], k1, nodes, k, d, st) BY <2>2, <2>6, <2>7, <2>8 DEF InCharge, d1, s1
    <2> QED BY <2>9
<1> QED BY <1>2, <1>3

\* Exactly the hash of one stage is set.
Sets(nodes, nodes2, k0, d0, s0) ==
    \A q \in ItemKeys, d \in 0 .. Levels - 1, st \in 1 .. 4 :
        Missing(nodes2, q, d, st) <=>
            Missing(nodes, q, d, st) /\ ~(d = d0 /\ st = s0 /\ Same(q, k0, d0, s0))

\* It sets the hash it was working for and goes on to the next one: it takes
\* over from those who were waiting to set the same.
LEMMA ChargedAdvance ==
    ASSUME NEW cl, NEW new, NEW nodes, NEW nodes2, NEW k0 \in ItemKeys,
           Charged(cl, nodes), Placed(cl), Moves(cl, new, k0), Monotone(nodes),
           Healthy(cl[k0], k0, nodes),
           Sets(nodes, nodes2, k0, Depth(cl[k0]), Stage(cl[k0])),
           LET d0 == Depth(cl[k0])
               s0 == Stage(cl[k0])
           IN  \/ s0 < 4 /\ Active(new[k0]) /\ Depth(new[k0]) = d0 /\ Stage(new[k0]) = s0 + 1
               \/ s0 = 4 /\ d0 > 0 /\ Active(new[k0]) /\ Depth(new[k0]) = d0 - 1 /\ Stage(new[k0]) = 1
               \/ s0 = 4 /\ d0 = 0
    PROVE  Charged(new, nodes2)
<1> DEFINE d0 == Depth(cl[k0])
           s0 == Stage(cl[k0])
           d1 == Depth(new[k0])
           s1 == Stage(new[k0])
<1>0. d0 \in 0 .. Levels - 1 /\ s0 \in 1 .. 4 /\ Missing(nodes, k0, d0, s0) BY DEF Healthy, Placed
<1>k. k0 \in Keys /\ Levels \in Nat BY ItemKeyFacts, KeyFacts
<1>s. Sets(nodes, nodes2, k0, d0, s0) OBVIOUS
<1>n. \/ s0 < 4 /\ Active(new[k0]) /\ d1 = d0 /\ s1 = s0 + 1
      \/ s0 = 4 /\ d0 > 0 /\ Active(new[k0]) /\ d1 = d0 - 1 /\ s1 = 1
      \/ s0 = 4 /\ d0 = 0
    OBVIOUS
<1> HIDE DEF d0, s0, d1, s1
<1> SUFFICES ASSUME NEW k \in ItemKeys, NEW d \in 0 .. Levels - 1, NEW st \in 1 .. 4,
                    Missing(nodes2, k, d, st)
             PROVE  \E kk \in ItemKeys : InCharge(new[kk], kk, nodes2, k, d, st)
    BY DEF Charged
<1>1. Missing(nodes, k, d, st) /\ ~(d = d0 /\ st = s0 /\ Same(k, k0, d0, s0)) BY <1>s DEF Sets
<1>2. PICK kk \in ItemKeys : InCharge(cl[kk], kk, nodes, k, d, st) BY <1>1 DEF Charged
<1>3. ASSUME Ahead(d0, s0, d, st), Same(k, k0, d, st)
      PROVE  InCharge(new[k0], k0, nodes2, k, d, st)
    <2>1. ~(d = d0 /\ st = s0) BY <1>1, <1>3
    <2>2. ~(s0 = 4 /\ d0 = 0) BY <1>0, <1>3, <1>k, <2>1 DEF Ahead
    <2>3. /\ Active(new[k0]) /\ d1 \in 0 .. Levels - 1 /\ s1 \in 1 .. 4
          /\ Ahead(d1, s1, d, st) /\ ~(d1 = d0 /\ s1 = s0)
        BY <1>0, <1>3, <1>k, <1>n, <2>1, <2>2 DEF Ahead
    <2>4. Missing(nodes, k0, d1, s1) BY <1>0, <1>n, <2>2 DEF Monotone
    <2>5. Missing(nodes2, k0, d1, s1) BY <1>s, <2>3, <2>4 DEF Sets
    <2> QED BY <1>3, <2>3, <2>5 DEF InCharge, Healthy, d1, s1
<1>4. CASE kk = k0
    <2>1. Ahead(d0, s0, d, st) /\ Same(k, k0, d, st) BY <1>2, <1>4 DEF InCharge, d0, s0
    <2> QED BY <1>3, <2>1
<1>5. CASE kk # k0
    <2> DEFINE dd == Depth(cl[kk])
               ss == Stage(cl[kk])
    <2>0. /\ Active(cl[kk]) /\ Missing(nodes, kk, dd, ss) /\ Ahead(dd, ss, d, st)
          /\ Same(k, kk, d, st)
        BY <1>2 DEF InCharge, Healthy
    <2>1. dd \in 0 .. Levels - 1 /\ ss \in 1 .. 4 /\ kk \in Keys BY <2>0, ItemKeyFacts DEF Placed
    <2>2. new[kk] = cl[kk] BY <1>5 DEF Moves
    <2> HIDE DEF dd, ss
    <2>3. CASE dd = d0 /\ ss = s0 /\ Same(kk, k0, d0, s0)
        <3>1. Ahead(d0, s0, d, st) BY <2>0, <2>3
        <3>2. Same(kk, k0, d, st) BY <1>0, <1>k, <2>1, <2>3, <3>1, SameAhead
        <3>3. Same(k, k0, d, st) BY <2>0, <3>2, SameTransitive
        <3> QED BY <1>3, <3>1, <3>3
    <2>4. CASE ~(dd = d0 /\ ss = s0 /\ Same(kk, k0, d0, s0))
        <3>1. Missing(nodes2, kk, dd, ss) BY <1>s, <2>0, <2>1, <2>4 DEF Sets
        <3>2. InCharge(new[kk], kk, nodes2, k, d, st)
            BY <2>0, <2>2, <3>1 DEF InCharge, Healthy, dd, ss
        <3> QED BY <3>2
    <2> QED BY <2>3, <2>4
<1> QED BY <1>4, <1>5

LEMMA MonotoneKept ==
    ASSUME NEW nodes, NEW nodes2, Monotone(nodes),
           \A q \in ItemKeys, d \in 0 .. Levels - 1, st \in 1 .. 4 :
               Missing(nodes2, q, d, st) <=> Missing(nodes, q, d, st)
    PROVE  Monotone(nodes2)
<1> SUFFICES ASSUME NEW k \in ItemKeys, NEW d \in 0 .. Levels - 1, NEW st \in 1 .. 4,
                    Missing(nodes2, k, d, st)
             PROVE  /\ st < 4 => Missing(nodes2, k, d, st + 1)
                    /\ st = 4 /\ d > 0 => Missing(nodes2, k, d - 1, 1)
    BY DEF Monotone
<1>1. Missing(nodes, k, d, st) OBVIOUS
<1>2. st < 4 => st + 1 \in 1 .. 4 OBVIOUS
<1>3. d > 0 => d - 1 \in 0 .. Levels - 1 /\ 1 \in 1 .. 4
    <2>1. Levels \in Nat BY ItemKeyFacts, KeyFacts
    <2> QED BY <2>1
<1> QED BY <1>1, <1>2, <1>3 DEF Monotone

\* Nothing is set before what it is made of.
LEMMA MonotoneAdvance ==
    ASSUME NEW nodes, NEW nodes2, NEW k0 \in ItemKeys, NEW d0 \in 0 .. Levels - 1,
           NEW s0 \in 1 .. 4, Monotone(nodes), Sets(nodes, nodes2, k0, d0, s0),
           Ready(nodes, k0, d0, s0)
    PROVE  Monotone(nodes2)
<1>k. k0 \in Keys /\ Levels \in Nat BY ItemKeyFacts, KeyFacts
<1> SUFFICES ASSUME NEW k \in ItemKeys, NEW d \in 0 .. Levels - 1, NEW st \in 1 .. 4,
                    Missing(nodes2, k, d, st)
             PROVE  /\ st < 4 => Missing(nodes2, k, d, st + 1)
                    /\ st = 4 /\ d > 0 => Missing(nodes2, k, d - 1, 1)
    BY DEF Monotone
<1>1. Missing(nodes, k, d, st) BY DEF Sets
<1>2. ASSUME st < 4 PROVE Missing(nodes2, k, d, st + 1)
    <2>1. st + 1 \in 1 .. 4 /\ Missing(nodes, k, d, st + 1) /\ (st + 1) - 1 = st /\ st + 1 > 1
        BY <1>1, <1>2 DEF Monotone
    <2>2. ~(d = d0 /\ st + 1 = s0 /\ Same(k, k0, d0, s0))
        <3> SUFFICES ASSUME d = d0, st + 1 = s0, Same(k, k0, d0, s0) PROVE FALSE OBVIOUS
        <3>1. ~Missing(nodes, k, d0, s0 - 1) BY <2>1 DEF Ready
        <3> QED BY <1>1, <2>1, <3>1
    <2> QED BY <2>1, <2>2 DEF Sets
<1>3. ASSUME st = 4, d > 0 PROVE Missing(nodes2, k, d - 1, 1)
    <2>1. d - 1 \in 0 .. Levels - 1 /\ (d - 1) + 1 = d /\ d < Levels /\ 1 \in 1 .. 4 BY <1>3, <1>k
    <2>2. Missing(nodes, k, d - 1, 1) BY <1>1, <1>3 DEF Monotone
    <2>3. ~(d - 1 = d0 /\ 1 = s0 /\ Same(k, k0, d0, s0))
        <3> SUFFICES ASSUME d - 1 = d0, 1 = s0, Same(k, k0, d0, s0) PROVE FALSE OBVIOUS
        <3>1. d0 + 1 = d /\ d0 + 1 < Levels BY <2>1
        <3>2. ~Missing(nodes, k, d0 + 1, 4) BY <3>1 DEF Ready
        <3> QED BY <1>1, <1>3, <3>1, <3>2
    <2> QED BY <2>1, <2>2, <2>3 DEF Sets
<1> QED BY <1>2, <1>3

----------------------------------------------------------------------------
(* First phase: copying and marking.                                       *)

LEMMA ResultFacts ==
    /\ \A k \in Keys : Result[k] \in Values /\ Result[k] # Null
    /\ \A k \in Keys \ ItemKeys : Result[k] = Base[k]
    /\ DistinctKeys => \A g \in Items : Result[g.key] = g.val
<1>1. ASSUME NEW k \in Keys
      PROVE  /\ Result[k] \in Values
             /\ k \notin ItemKeys => Result[k] = Base[k]
             /\ DistinctKeys => \A g \in Items : g.key = k => Result[k] = g.val
    <2>1. CASE \E g \in Items : g.key = k
        <3> DEFINE h == CHOOSE g \in Items : g.key = k
        <3>1. h \in Items /\ h.key = k BY <2>1
        <3>2. Result[k] = h.val BY <2>1 DEF Result
        <3> HIDE DEF h
        <3> QED BY <2>1, <3>1, <3>2 DEF Values, ItemKeys, DistinctKeys
    <2>2. CASE ~\E g \in Items : g.key = k BY <2>2 DEF Result, Values
    <2> QED BY <2>1, <2>2
<1>2. \A k \in Keys : Result[k] # Null BY <1>1, MultiSetAssumption
<1> QED BY <1>1, <1>2, ItemKeyFacts

LEMMA TouchedFacts == \A n : Touched(n) <=> \E k \in ItemKeys : n \in Prefixes(k)
BY DEF Touched, ItemKeys

\* A touched node with children is on the path of an item.
LEMMA TouchedPath ==
    ASSUME NEW n \in Inner, NEW k \in ItemKeys, n \in Prefixes(k)
    PROVE  k \in Keys /\ Len(n) \in 0 .. Levels - 1 /\ n = P(k, Len(n))
<1>1. k \in Keys /\ Len(n) < Levels BY ItemKeyFacts, InnerFacts
<1>2. Len(n) \in 0 .. Levels /\ n = P(k, Len(n)) BY <1>1, PrefixIff
<1> QED BY <1>1, <1>2, KeyFacts

LEMMA InitPrepares == Init => Preparing
<1> SUFFICES ASSUME Init PROVE Preparing OBVIOUS
<1>1. \A n \in Inner : inner[n] = Null BY DEF Init
<1>2. ASSUME NEW g \in Items PROVE Marked(item[g], g, inner) /\ LeafSet(item[g], g, leaf, leaves)
    <2>1. item[g].at = "queued" /\ item[g].level = 0 BY DEF Init
    <2> QED BY <2>1 DEF Marked, LeafSet
<1>3. \A k \in Keys : leaf[k] = Null BY DEF Init
<1> QED BY <1>1, <1>2, <1>3 DEF Preparing

\* A step of one item clears, and disturbs no other item.
LEMMA ItemPrepares ==
    ASSUME DistinctKeys, Shape, Preparing, NEW g \in Items, NEW it,
           item' = [item EXCEPT ![g] = it],
           \A n \in Inner : inner'[n] # Null => Cleared(n, inner'[n]),
           \A n \in Inner, i \in 0 .. 13 :
               inner[n] # Null /\ inner[n].internals[i] = Null => inner'[n].internals[i] = Null,
           Marked(it, g, inner'), LeafSet(it, g, leaf', leaves'),
           \A k \in Keys : k # g.key => leaf'[k] = leaf[k] /\ leaves'[k] = leaves[k]
    PROVE  Preparing'
<1>1. item'[g] = it /\ \A h \in Items : h # g => item'[h] = item[h] BY ItemFacts
<1>2. ASSUME NEW h \in Items
      PROVE  Marked(item'[h], h, inner') /\ LeafSet(item'[h], h, leaf', leaves')
    <2>1. CASE h = g BY <1>1, <2>1
    <2>2. CASE h # g
        <3>1. item'[h] = item[h] /\ h.key # g.key /\ h.key \in Keys
            BY <1>1, <2>2, ItemKeyFacts DEF DistinctKeys
        <3>2. Marked(item[h], h, inner) /\ LeafSet(item[h], h, leaf, leaves) BY DEF Preparing
        <3>3. LeafSet(item[h], h, leaf', leaves') BY <3>1, <3>2 DEF LeafSet
        <3>4. ItemOK(item[h], h, inner) BY DEF Shape
        <3>5. ASSUME NEW d \in 0 .. Levels - 1, d < item[h].level,
                     NEW i \in leafInternalMap[h.key[d + 1]]
              PROVE  inner'[P(h.key, d)].internals[i] = Null
            <4>1. P(h.key, d) \in Inner /\ h.key[d + 1] \in Nibbles BY <3>1, DepthFacts
            <4>2. inner[P(h.key, d)] # Null BY <3>4, <3>5 DEF ItemOK
            <4>3. i \in 0 .. 13 BY <4>1, MapIsSlots
            <4>4. inner[P(h.key, d)].internals[i] = Null BY <3>2, <3>5 DEF Marked
            <4> QED BY <4>1, <4>2, <4>3, <4>4
        <3>6. Marked(item[h], h, inner') BY <3>5 DEF Marked
        <3> QED BY <3>1, <3>3, <3>6
    <2> QED BY <2>1, <2>2
<1>3. \A k \in Keys \ ItemKeys : leaf'[k] = Null BY ItemKeyFacts DEF Preparing
<1> QED BY <1>2, <1>3 DEF Preparing

\* SubmitItem, ExtendFails, SetLeaf, LookupLeaf and RegisterLeaf.
LEMMA MovePrepares ==
    ASSUME DistinctKeys, Shape, Preparing, NEW g \in Items, NEW to,
           item' = [item EXCEPT ![g].at = to], inner' = inner,
           to \in {"lookup", "register", "end"} => leaf'[g.key] = g.val,
           to = "end" => leaves'[g.key] = g.val,
           \A k \in Keys : k # g.key => leaf'[k] = leaf[k] /\ leaves'[k] = leaves[k]
    PROVE  Preparing'
<1> DEFINE it == [item[g] EXCEPT !.at = to]
<1>1. item[g] \in ItemState /\ item' = [item EXCEPT ![g] = it] BY ItemFacts
<1>2. it.at = to /\ it.level = item[g].level BY <1>1 DEF ItemState
<1> HIDE DEF it
<1>3. Marked(it, g, inner')
    <2>1. Marked(item[g], g, inner) BY DEF Preparing
    <2>2. Marked(it, g, inner) BY <1>2, <2>1 DEF Marked
    <2> QED BY <2>2
<1>4. LeafSet(it, g, leaf', leaves') BY <1>2 DEF LeafSet
<1>5. \A n \in Inner : inner'[n] # Null => Cleared(n, inner'[n]) BY DEF Preparing
<1> QED BY <1>1, <1>3, <1>4, <1>5, ItemPrepares

LEMMA ItemMovesPrepare ==
    ASSUME DistinctKeys, Shape, Preparing, NEW g \in Items,
           SubmitItem(g) \/ ExtendFails(g) \/ SetLeaf(g) \/ LookupLeaf(g) \/ RegisterLeaf(g)
    PROVE  Preparing'
<1>0. /\ g.key \in Keys /\ leaf \in [Keys -> Values \cup {Null}]
      /\ leaves \in [Keys -> Values \cup {Null}] /\ LeafSet(item[g], g, leaf, leaves)
    BY ItemKeyFacts, ItemFacts DEF Preparing
<1>1. CASE SubmitItem(g) BY <1>1, MovePrepares DEF SubmitItem
<1>2. CASE ExtendFails(g) BY <1>2, MovePrepares DEF ExtendFails
<1>3. CASE SetLeaf(g)
    <2>1. leaf'[g.key] = g.val /\ \A k \in Keys : k # g.key => leaf'[k] = leaf[k]
        BY <1>0, <1>3 DEF SetLeaf
    <2> QED BY <1>3, <2>1, MovePrepares DEF SetLeaf
<1>4. CASE LookupLeaf(g)
    <2>1. leaves[g.key] = Null
        <3> SUFFICES ASSUME leaves[g.key] # Null PROVE FALSE OBVIOUS
        <3>1. PICK h \in Items : h.key = g.key /\ item[h].at = "end" BY <1>0 DEF Shape
        <3>2. h = g BY <3>1 DEF DistinctKeys
        <3> QED BY <1>4, <3>1, <3>2 DEF LookupLeaf
    <2>2. item' = [item EXCEPT ![g].at = "register"] BY <1>4, <2>1 DEF LookupLeaf
    <2>3. leaf[g.key] = g.val BY <1>0, <1>4 DEF LookupLeaf, LeafSet
    <2> QED BY <1>4, <2>2, <2>3, MovePrepares DEF LookupLeaf
<1>5. CASE RegisterLeaf(g)
    <2>1. leaves'[g.key] = g.val /\ \A k \in Keys : k # g.key => leaves'[k] = leaves[k]
        BY <1>0, <1>5 DEF RegisterLeaf
    <2>2. leaf[g.key] = g.val BY <1>0, <1>5 DEF RegisterLeaf, LeafSet
    <2> QED BY <1>5, <2>1, <2>2, MovePrepares DEF RegisterLeaf
<1> QED BY <1>1, <1>2, <1>3, <1>4, <1>5

LEMMA CopyNodePrepares ==
    ASSUME DistinctKeys, Prior = {}, Shape, Preparing, NEW g \in Items, CopyNode(g)
    PROVE  Preparing'
<1> DEFINE it == [item[g] EXCEPT !.at = "mark"]
           n == P(g.key, item[g].level)
<1>1. item[g] \in ItemState /\ ItemOK(item[g], g, inner) /\ item[g].at = "copy"
    BY ItemFacts DEF CopyNode
<1>2. it.at = "mark" /\ it.level = item[g].level BY <1>1 DEF ItemState
<1>3. item' = [item EXCEPT ![g] = it] /\ UNCHANGED <<leaf, leaves>> BY ItemFacts DEF CopyNode
<1>4. item[g].level \in 0 .. Levels - 1 BY <1>1, ItemFacts DEF ItemOK
<1>5. n \in Inner /\ n \in Prefixes(g.key) BY <1>4, ItemFacts, DepthFacts
<1>6. inner' = IF inner[n] = Null THEN [inner EXCEPT ![n] = OldNode(n)] ELSE inner
    BY DEF CopyNode, P
<1>7. Cleared(n, OldNode(n))
    <2>1. Touched(n) BY <1>5 DEF Touched
    <2>2. ~OldNode(n).current BY DEF OldNode
    <2>3. ~OldNode(n).torn BY DEF OldNode
    <2>4. \A i \in 0 .. 13 : OldNode(n).internals[i] = InternalContent(Base, n, i) BY DEF OldNode
    <2> QED BY <2>1, <2>2, <2>3, <2>4 DEF Cleared
<1> HIDE DEF it, n
<1>8. inner \in [Inner -> Node \cup {Null}] BY ItemFacts
<1>9. \A m \in Inner : inner[m] # Null => inner'[m] = inner[m] BY <1>5, <1>6, <1>8
<1>10. \A m \in Inner : inner'[m] # Null => Cleared(m, inner'[m])
    BY <1>5, <1>6, <1>7, <1>8 DEF Preparing
<1>11. Marked(it, g, inner')
    <2>1. Marked(item[g], g, inner) BY DEF Preparing
    <2>2. ASSUME NEW d \in 0 .. Levels - 1, d < it.level
          PROVE  inner'[P(g.key, d)] = inner[P(g.key, d)]
        <3>1. inner[P(g.key, d)] # Null BY <1>1, <1>2, <2>2 DEF ItemOK
        <3>2. P(g.key, d) \in Inner BY ItemFacts, DepthFacts
        <3> QED BY <1>9, <3>1, <3>2
    <2> QED BY <1>2, <2>1, <2>2 DEF Marked
<1>12. LeafSet(it, g, leaf', leaves') BY <1>2 DEF LeafSet
<1> QED BY <1>3, <1>9, <1>10, <1>11, <1>12, ItemPrepares

LEMMA MarkPrepares ==
    ASSUME DistinctKeys, Shape, Preparing, NEW g \in Items, Mark(g) PROVE Preparing'
<1> DEFINE d == item[g].level
           x == g.key[d + 1]
           n == P(g.key, d)
           it == [at |-> IF d + 1 = Levels THEN "leaf" ELSE "copy", level |-> d + 1]
           node == [inner[n] EXCEPT !.internals = Unmarked(inner[n], x)]
<1>1. /\ d \in 0 .. Levels - 1 /\ n \in Inner /\ inner[n] \in Node /\ inner[n] # Null
      /\ item' = [item EXCEPT ![g] = it] /\ inner' = [inner EXCEPT ![n] = node]
      /\ UNCHANGED <<leaf, leaves>>
    BY MarkFacts
<1>2. node.internals = Unmarked(inner[n], x) BY MarkFacts
<1>3. node.current = inner[n].current BY MarkFacts
<1>4. node.torn = inner[n].torn BY MarkFacts
<1>5. it.at \in {"leaf", "copy"} /\ it.level = d + 1 OBVIOUS
<1>k. /\ g.key \in Keys /\ g.key \in ItemKeys /\ x \in Nibbles /\ n \in Prefixes(g.key)
      /\ Len(n) = d /\ d \in Nat
    BY <1>1, ItemKeyFacts, DepthFacts
<1>6. inner \in [Inner -> Node \cup {Null}] BY ItemFacts
<1> HIDE DEF d, x, n, it, node
<1>7. \A i \in 0 .. 13 : node.internals[i] = IF i \in leafInternalMap[x] THEN Null
                                             ELSE inner[n].internals[i]
    BY <1>2 DEF Unmarked
<1>8. \A i \in leafInternalMap[x] : Dirty(n, i) BY <1>k DEF Dirty, x
<1>9. Cleared(n, inner[n]) BY <1>1 DEF Preparing
<1>10. Cleared(n, node) BY <1>3, <1>4, <1>7, <1>8, <1>9 DEF Cleared
<1>11. inner'[n] = node /\ \A m \in Inner : m # n => inner'[m] = inner[m] BY <1>1, <1>6
<1>12. \A m \in Inner : inner'[m] # Null => Cleared(m, inner'[m]) BY <1>10, <1>11 DEF Preparing
<1>13. \A m \in Inner, i \in 0 .. 13 :
           inner[m] # Null /\ inner[m].internals[i] = Null => inner'[m].internals[i] = Null
    BY <1>7, <1>11
<1>14. Marked(it, g, inner')
    <2>1. Marked(item[g], g, inner) BY DEF Preparing
    <2>2. ASSUME NEW dd \in 0 .. Levels - 1, dd < it.level,
                 NEW i \in leafInternalMap[g.key[dd + 1]]
          PROVE  inner'[P(g.key, dd)].internals[i] = Null
        <3>1. P(g.key, dd) \in Inner /\ g.key[dd + 1] \in Nibbles BY <1>k, DepthFacts
        <3>2. i \in 0 .. 13 BY <3>1, MapIsSlots
        <3>3. dd < d \/ dd = d BY <1>5, <1>k, <2>2
        <3>4. CASE dd = d BY <1>7, <1>11, <3>2, <3>4 DEF n, x
        <3>5. CASE dd < d
            <4>1. inner[P(g.key, dd)] # Null BY <3>5, ItemFacts DEF ItemOK, d
            <4>2. inner[P(g.key, dd)].internals[i] = Null BY <2>1, <3>5 DEF Marked, d
            <4> QED BY <1>13, <3>1, <3>2, <4>1, <4>2
        <3> QED BY <3>3, <3>4, <3>5
    <2> QED BY <2>2 DEF Marked
<1>15. LeafSet(it, g, leaf', leaves') BY <1>5 DEF LeafSet
<1> QED BY <1>1, <1>12, <1>13, <1>14, <1>15, ItemPrepares

----------------------------------------------------------------------------
(* The second phase starts: every hash that changes is missing, and every  *)
(* item has a climber at its leaf.                                         *)

\* What does not change is final already.
LEMMA CleanIsFinal ==
    ASSUME NEW n, NEW i, ~Dirty(n, i)
    PROVE  InternalContent(Base, n, i) = InternalContent(Result, n, i)
<1>1. ASSUME NEW k \in Keys, n \in Prefixes(k), i \in leafInternalMap[k[Len(n) + 1]]
      PROVE  Base[k] = Result[k]
    <2>1. k \notin ItemKeys BY <1>1 DEF Dirty
    <2> QED BY <2>1, ResultFacts
<1> QED BY <1>1 DEF InternalContent

LEMMA StageValues ==
    ASSUME NEW c
    PROVE  /\ c.at \in {"queued", "sibling", "read"} => Stage(c) = 1
           /\ c.at = "set" => Stage(c) = c.round
           /\ c.at = "get" => Stage(c) = c.round + 1
           /\ c.at \in {"publish", "store"} => Stage(c) = 4
BY DEF Stage

LEMMA StartClimbs ==
    ASSUME DistinctKeys, Shape, Preparing, StartClimbing PROVE Climbing'
<1>0. /\ \A g \in Items : item[g].at = "end"
      /\ UNCHANGED <<inner, leaf, leaves>>
      /\ climber' = [k \in Keys |-> IF leaves[k] = Null THEN [Idle EXCEPT !.at = "end"]
                                    ELSE [Idle EXCEPT !.at = "queued", !.child = k]]
    BY DEF StartClimbing
<1>1. ASSUME NEW k \in ItemKeys
      PROVE  /\ k \in Keys /\ leaf[k] = Result[k] /\ leaves[k] = Result[k] /\ leaves[k] # Null
             /\ climber'[k].at = "queued" /\ climber'[k].child = k
    <2>1. PICK g \in Items : k = g.key BY DEF ItemKeys
    <2>2. LeafSet(item[g], g, leaf, leaves) BY DEF Preparing
    <2>3. leaf[k] = g.val /\ leaves[k] = g.val BY <1>0, <2>1, <2>2 DEF LeafSet
    <2>4. k \in Keys /\ Result[k] = g.val /\ Result[k] # Null BY <2>1, ItemKeyFacts, ResultFacts
    <2>5. climber'[k] = [Idle EXCEPT !.at = "queued", !.child = k] BY <1>0, <2>3, <2>4
    <2> QED BY <2>3, <2>4, <2>5 DEF Idle
<1>2. ASSUME NEW k \in Keys \ ItemKeys PROVE climber'[k].at = "end"
    <2>1. leaves[k] = Null BY DEF Shape, ItemKeys
    <2>2. climber'[k] = [Idle EXCEPT !.at = "end"] BY <1>0, <2>1
    <2> QED BY <2>2 DEF Idle
<1>3. ASSUME NEW k \in ItemKeys, NEW d \in 0 .. Levels - 1
      PROVE  /\ P(k, d) \in Inner /\ inner[P(k, d)] # Null /\ ~inner[P(k, d)].current
             /\ \A i \in leafInternalMap[k[d + 1]] : inner[P(k, d)].internals[i] = Null
    <2>1. PICK g \in Items : k = g.key BY DEF ItemKeys
    <2>2. ItemOK(item[g], g, inner) /\ Marked(item[g], g, inner) BY DEF Shape, Preparing
    <2>3. item[g].level = Levels BY <1>0, <2>2 DEF ItemOK
    <2>4. P(k, d) \in Inner /\ d < Levels BY <1>1, DepthFacts
    <2>5. inner[P(k, d)] # Null BY <2>1, <2>2, <2>3, <2>4 DEF ItemOK
    <2>6. ~inner[P(k, d)].current BY <2>4, <2>5 DEF Preparing, Cleared
    <2>7. \A i \in leafInternalMap[k[d + 1]] : inner[P(k, d)].internals[i] = Null
        BY <2>1, <2>2, <2>3, <2>4 DEF Marked
    <2> QED BY <2>4, <2>5, <2>6, <2>7
<1>4. ASSUME NEW k \in ItemKeys, NEW d \in 0 .. Levels - 1, NEW st \in 1 .. 4
      PROVE  Missing(inner, k, d, st)
    <2>1. CASE st = 4 BY <1>3, <2>1 DEF Missing
    <2>2. CASE st # 4
        <3>1. st = 1 \/ st = 2 \/ st = 3 BY <2>2
        <3>2. k[d + 1] \in Nibbles BY <1>1, DepthFacts
        <3>3. Slot(st, k[d + 1]) \in leafInternalMap[k[d + 1]] BY <3>1, <3>2, MapIsSlots
        <3> QED BY <1>3, <2>2, <3>3 DEF Missing
    <2> QED BY <2>1, <2>2
<1>5. ASSUME NEW n \in Inner, inner[n] # Null
      PROVE  Touched(n) /\ Final(n, inner[n]) /\ ~inner[n].torn
    <2>1. Cleared(n, inner[n]) BY <1>5 DEF Preparing
    <2>2. Touched(n) /\ ~inner[n].current /\ ~inner[n].torn BY <2>1 DEF Cleared
    <2>3. ASSUME NEW i \in 0 .. 13
          PROVE  \/ inner[n].internals[i] = Null /\ Dirty(n, i)
                 \/ inner[n].internals[i] = InternalContent(Result, n, i)
        <3>1. CASE Dirty(n, i)
            <4>1. PICK k \in ItemKeys : n \in Prefixes(k) /\ i \in leafInternalMap[k[Len(n) + 1]]
                BY <3>1 DEF Dirty
            <4>2. Len(n) \in 0 .. Levels - 1 /\ n = P(k, Len(n)) BY <4>1, TouchedPath
            <4>3. inner[n].internals[i] = Null BY <1>3, <4>1, <4>2
            <4> QED BY <3>1, <4>3
        <3>2. CASE ~Dirty(n, i) BY <2>1, <3>2, CleanIsFinal DEF Cleared
        <3> QED BY <3>1, <3>2
    <2> QED BY <2>2, <2>3 DEF Final
<1>6. ASSUME NEW k \in Keys, Active(climber'[k])
      PROVE  Prepared(climber'[k], k, inner) /\ Holds(climber'[k], k)
    <2>1. k \in ItemKeys BY <1>2, <1>6 DEF Active
    <2>2. climber'[k].at = "queued" /\ Len(climber'[k].child) = Levels BY <1>1, <2>1, KeyFacts
    <2>3. ~(Levels < Levels) BY KeyFacts
    <2> QED BY <2>2, <2>3 DEF Prepared, Holds
<1>7. TornOK(climber', inner)
    <2>1. \A k \in Keys : climber'[k].at # "store" BY <1>1, <1>2
    <2> QED BY <1>5, <2>1 DEF TornOK
<1>8. Monotone(inner)
    <2> SUFFICES ASSUME NEW k \in ItemKeys, NEW d \in 0 .. Levels - 1, NEW st \in 1 .. 4
                 PROVE  /\ st < 4 => Missing(inner, k, d, st + 1)
                        /\ st = 4 /\ d > 0 => Missing(inner, k, d - 1, 1)
        BY DEF Monotone
    <2>1. Levels \in Nat BY <1>1, KeyFacts
    <2>2. st < 4 => st + 1 \in 1 .. 4 OBVIOUS
    <2>3. d > 0 => d - 1 \in 0 .. Levels - 1 /\ 1 \in 1 .. 4 BY <2>1
    <2> QED BY <1>4, <2>2, <2>3
<1>9. Charged(climber', inner)
    <2> SUFFICES ASSUME NEW k \in ItemKeys, NEW d \in 0 .. Levels - 1, NEW st \in 1 .. 4
                 PROVE  InCharge(climber'[k], k, inner, k, d, st)
        BY DEF Charged
    <2>1. climber'[k].at = "queued" /\ climber'[k].child = k BY <1>1
    <2>2. Len(k) = Levels /\ Levels \in Nat \ {0} BY <1>1, KeyFacts
    <2>3. Depth(climber'[k]) = Levels - 1 /\ Stage(climber'[k]) = 1
        BY <2>1, <2>2, StageValues DEF Depth
    <2>4. Levels - 1 \in 0 .. Levels - 1 /\ 1 \in 1 .. 4 BY <2>2
    <2>5. Missing(inner, k, Levels - 1, 1) BY <1>4, <2>4
    <2>6. Ahead(Levels - 1, 1, d, st) BY <2>2 DEF Ahead
    <2>7. Active(climber'[k]) BY <2>1 DEF Active
    <2>8. Same(k, k, d, st) BY DEF Same
    <2> QED BY <2>3, <2>5, <2>6, <2>7, <2>8 DEF InCharge, Healthy
<1>10. \A k \in Keys \ ItemKeys : leaf[k] = Null BY DEF Preparing
<1>11. /\ TornOK(climber', inner') /\ Monotone(inner') /\ Charged(climber', inner')
       /\ \A k \in Keys : Active(climber'[k]) =>
              Prepared(climber'[k], k, inner') /\ Holds(climber'[k], k)
    BY <1>0, <1>6, <1>7, <1>8, <1>9
<1> QED BY <1>0, <1>1, <1>5, <1>10, <1>11 DEF Climbing

----------------------------------------------------------------------------
(* Second phase: the steps of a climber, by what they do.                  *)

\* Where an active climber is, by stages.
LEMMA PlaceFacts ==
    ASSUME Shape, NEW k \in Keys, Active(climber[k])
    PROVE  LET c == climber[k]
           IN  /\ phase = "leaves" /\ k \in ItemKeys /\ Levels \in Nat
               /\ Depth(c) \in 0 .. Levels - 1 /\ Stage(c) \in 1 .. 4
               /\ Depth(c) + 1 = Len(c.child) /\ c.child = P(k, Depth(c) + 1)
               /\ P(k, Depth(c)) \in Inner /\ inner[P(k, Depth(c))] # Null
               /\ inner[P(k, Depth(c))] \in Node /\ c.round \in 1 .. 3 /\ k[Depth(c) + 1] \in Nibbles
<1> DEFINE c == climber[k]
           e == Len(c.child)
<1>1. /\ phase = "leaves" /\ k \in ItemKeys /\ e \in 1 .. Levels /\ c.child = P(k, e)
      /\ e - 1 \in 0 .. Levels - 1 /\ P(k, e - 1) \in Inner /\ inner[P(k, e - 1)] # Null
      /\ inner[P(k, e - 1)] \in Node /\ c.round \in 1 .. 3 /\ c \in ClimberState /\ k[e] \in Nibbles
    BY ClimbFacts
<1>2. Levels \in Nat BY KeyFacts
<1>3. c.at \in {"queued", "sibling", "read", "set", "get", "publish", "store"}
    BY <1>1 DEF ClimberState, Active
<1>4. Stage(c) \in 1 .. 4
    <2> HIDE DEF c
    <2> QED BY <1>1, <1>3, StageValues
<1> HIDE DEF e
<1>5. Depth(c) = e - 1 /\ (e - 1) + 1 = e BY <1>1, <1>2 DEF Depth, e
<1> QED BY <1>1, <1>2, <1>4, <1>5 DEF e

LEMMA AllPlaced == ASSUME Shape PROVE Placed(climber)
BY PlaceFacts, ItemKeyFacts DEF Placed

\* What a climber has prepared stays there.
LEMMA StaysPrepared ==
    ASSUME Shape, NEW k \in Keys, Active(climber[k]), NEW nodes,
           \A q \in ItemKeys, d \in 0 .. Levels - 1, st \in 1 .. 4 :
               Missing(nodes, q, d, st) => Missing(inner, q, d, st),
           Prepared(climber[k], k, inner)
    PROVE  Prepared(climber[k], k, nodes)
<1> DEFINE c == climber[k]
           d == Depth(c)
           st == Stage(c)
<1>1. /\ k \in ItemKeys /\ Levels \in Nat /\ d \in 0 .. Levels - 1 /\ st \in 1 .. 4
      /\ d + 1 = Len(c.child) /\ c.child = P(k, d + 1)
    BY PlaceFacts
<1>2. Prepared(c, k, inner) OBVIOUS
<1> HIDE DEF c, d, st
<1>3. ASSUME Len(c.child) < Levels, inner[c.child].current PROVE nodes[c.child].current
    <2>1. d + 1 \in 0 .. Levels - 1 /\ 4 \in 1 .. 4 BY <1>1, <1>3
    <2>2. ~Missing(inner, k, d + 1, 4) BY <1>1, <1>3 DEF Missing
    <2>3. ~Missing(nodes, k, d + 1, 4) BY <1>1, <2>1, <2>2
    <2> QED BY <1>1, <2>3 DEF Missing
<1>4. ASSUME Ready(inner, k, d, st) PROVE Ready(nodes, k, d, st)
    <2> SUFFICES ASSUME NEW q \in ItemKeys, Same(q, k, d, st)
                 PROVE  /\ st = 1 /\ d + 1 < Levels => ~Missing(nodes, q, d + 1, 4)
                        /\ st > 1 => ~Missing(nodes, q, d, st - 1)
        BY DEF Ready
    <2>1. ASSUME st = 1, d + 1 < Levels PROVE ~Missing(nodes, q, d + 1, 4)
        <3>1. d + 1 \in 0 .. Levels - 1 /\ 4 \in 1 .. 4 BY <1>1, <2>1
        <3>2. ~Missing(inner, q, d + 1, 4) BY <1>4, <2>1 DEF Ready
        <3> QED BY <3>1, <3>2
    <2>2. ASSUME st > 1 PROVE ~Missing(nodes, q, d, st - 1)
        <3>1. st - 1 \in 1 .. 4 BY <1>1, <2>2
        <3>2. ~Missing(inner, q, d, st - 1) BY <1>4, <2>2 DEF Ready
        <3> QED BY <1>1, <3>1, <3>2
    <2> QED BY <2>1, <2>2
<1>5. Prepared(c, k, nodes) BY <1>2, <1>3, <1>4 DEF Prepared, d, st
<1> QED BY <1>5 DEF c

\* The invariant after a step of one climber.
LEMMA StepClimbs ==
    ASSUME Shape, Climbing, NEW k0 \in Keys, Active(climber[k0]), NEW c, Becomes(k0, c),
           UNCHANGED <<leaf, leaves>>,
           \A n \in Inner : inner'[n] # Null => Touched(n) /\ Final(n, inner'[n]),
           \A q \in ItemKeys, d \in 0 .. Levels - 1, st \in 1 .. 4 :
               Missing(inner', q, d, st) => Missing(inner, q, d, st),
           Active(c) => Prepared(c, k0, inner') /\ Holds(c, k0),
           TornOK(climber', inner'), Monotone(inner'), Charged(climber', inner')
    PROVE  Climbing'
<1>1. climber \in [Keys -> ClimberState] BY DEF Shape, TypeOK
<1>2. climber'[k0] = c /\ \A k \in Keys : k # k0 => climber'[k] = climber[k]
    BY <1>1 DEF Becomes
<1>3. ASSUME NEW k \in Keys, Active(climber'[k])
      PROVE  Prepared(climber'[k], k, inner') /\ Holds(climber'[k], k)
    <2>1. CASE k = k0 BY <1>2, <1>3, <2>1
    <2>2. CASE k # k0
        <3>1. climber'[k] = climber[k] BY <1>2, <2>2
        <3>2. Prepared(climber[k], k, inner) /\ Holds(climber[k], k) BY <1>3, <3>1 DEF Climbing
        <3>3. Prepared(climber[k], k, inner') BY <1>3, <3>1, <3>2, StaysPrepared
        <3> QED BY <3>1, <3>2, <3>3
    <2> QED BY <2>1, <2>2
<1>4. /\ \A k \in ItemKeys : leaf'[k] = Result[k] /\ leaves'[k] = Result[k]
      /\ \A k \in Keys \ ItemKeys : leaf'[k] = Null
    BY DEF Climbing
<1> QED BY <1>3, <1>4 DEF Climbing

\* A climber that neither comes from nor goes to the store leaves torn alone.
LEMMA TornKept ==
    ASSUME Shape, TornOK(climber, inner), NEW k0 \in Keys, NEW c, Becomes(k0, c),
           climber[k0].at # "store", c.at # "store",
           \A n \in Inner : inner'[n] # Null <=> inner[n] # Null,
           \A n \in Inner : inner[n] # Null => (inner'[n].torn <=> inner[n].torn)
    PROVE  TornOK(climber', inner')
<1>1. climber \in [Keys -> ClimberState] BY DEF Shape, TypeOK
<1>2. climber'[k0] = c /\ \A k \in Keys : k # k0 => climber'[k] = climber[k]
    BY <1>1 DEF Becomes
<1>3. \A k \in Keys : /\ climber'[k].at = "store" <=> climber[k].at = "store"
                      /\ climber[k].at = "store" => climber'[k] = climber[k]
    BY <1>2
<1>4. ASSUME NEW n \in Inner, inner'[n] # Null, inner'[n].torn
      PROVE  \E k \in ItemKeys : climber'[k].at = "store" /\ P(k, Depth(climber'[k])) = n
    <2>1. PICK k \in ItemKeys : climber[k].at = "store" /\ P(k, Depth(climber[k])) = n
        BY <1>4 DEF TornOK
    <2>2. k \in Keys BY ItemKeyFacts
    <2> QED BY <1>3, <2>1, <2>2
<1>5. ASSUME NEW k \in Keys, climber'[k].at = "store"
      PROVE  inner'[P(k, Depth(climber'[k]))].torn
    <2>1. climber[k].at = "store" /\ climber'[k] = climber[k] BY <1>3, <1>5
    <2>2. Active(climber[k]) BY <2>1 DEF Active
    <2>3. P(k, Depth(climber[k])) \in Inner /\ inner[P(k, Depth(climber[k]))] # Null
        BY <2>2, PlaceFacts
    <2>4. inner[P(k, Depth(climber[k]))].torn BY <2>1 DEF TornOK
    <2> QED BY <2>1, <2>3, <2>4
<1>6. \A k, kk \in Keys :
          /\ climber'[k].at = "store" /\ climber'[kk].at = "store"
          /\ P(k, Depth(climber'[k])) = P(kk, Depth(climber'[kk]))
          => k = kk
    BY <1>3 DEF TornOK
<1> QED BY <1>4, <1>5, <1>6 DEF TornOK

LEMMA OthersStay ==
    ASSUME Shape, NEW k0 \in Keys, NEW c, Becomes(k0, c)
    PROVE  climber'[k0] = c /\ Moves(climber, climber', k0)
<1>1. climber \in [Keys -> ClimberState] BY DEF Shape, TypeOK
<1> QED BY <1>1, ItemKeyFacts DEF Becomes, Moves

\* Nothing is set, and the climber keeps its place.
LEMMA MoveClimbs ==
    ASSUME Shape, Climbing, NEW k \in Keys, Active(climber[k]), NEW c, Becomes(k, c),
           UNCHANGED <<inner, leaf, leaves>>, climber[k].at # "store", c.at # "store",
           Active(c), c.child = climber[k].child, Stage(c) = Stage(climber[k]),
           Prepared(c, k, inner), Holds(c, k)
    PROVE  Climbing'
<1>1. TornOK(climber, inner) /\ Monotone(inner) /\ Charged(climber, inner) BY DEF Climbing
<1>2. climber'[k] = c /\ Moves(climber, climber', k) /\ k \in ItemKeys BY OthersStay, PlaceFacts
<1>3. Depth(c) = Depth(climber[k]) BY DEF Depth
<1>4. Placed(climber) BY AllPlaced
<1>5. Charged(climber', inner) BY <1>1, <1>2, <1>3, <1>4, ChargedMove
<1>6. TornOK(climber', inner') BY <1>1, TornKept
<1>7. \A n \in Inner : inner'[n] # Null => Touched(n) /\ Final(n, inner'[n]) BY DEF Climbing
<1>8. Prepared(c, k, inner') /\ Monotone(inner') /\ Charged(climber', inner') BY <1>1, <1>5
<1>9. \A q \in ItemKeys, d \in 0 .. Levels - 1, st \in 1 .. 4 :
          Missing(inner', q, d, st) => Missing(inner, q, d, st)
    OBVIOUS
<1> QED BY <1>6, <1>7, <1>8, <1>9, StepClimbs

\* The climber stops: there was nothing left to do, or another is in charge.
LEMMA QuitClimbs ==
    ASSUME Shape, Climbing, NEW k \in Keys, Active(climber[k]), NEW c, Becomes(k, c),
           UNCHANGED <<inner, leaf, leaves>>, climber[k].at # "store", c.at = "end",
           \/ ~Healthy(climber[k], k, inner)
           \/ \E k1 \in ItemKeys :
                 /\ k1 # k
                 /\ InCharge(climber[k1], k1, inner, k, Depth(climber[k]), Stage(climber[k]))
    PROVE  Climbing'
<1>1. TornOK(climber, inner) /\ Monotone(inner) /\ Charged(climber, inner) BY DEF Climbing
<1>2. climber'[k] = c /\ Moves(climber, climber', k) /\ k \in ItemKeys BY OthersStay, PlaceFacts
<1>3. Placed(climber) BY AllPlaced
<1>4. Charged(climber', inner)
    <2>1. CASE ~Healthy(climber[k], k, inner) BY <1>1, <1>2, <1>3, <2>1, ChargedMove
    <2>2. ASSUME NEW k1 \in ItemKeys, k1 # k,
                 InCharge(climber[k1], k1, inner, k, Depth(climber[k]), Stage(climber[k]))
          PROVE  Charged(climber', inner)
        BY <1>1, <1>2, <1>3, <2>2, ChargedQuit
    <2> QED BY <2>1, <2>2
<1>5. TornOK(climber', inner') BY <1>1, TornKept
<1>6. \A n \in Inner : inner'[n] # Null => Touched(n) /\ Final(n, inner'[n]) BY DEF Climbing
<1>7. ~Active(c) /\ Monotone(inner') /\ Charged(climber', inner') BY <1>1, <1>4 DEF Active
<1>8. \A q \in ItemKeys, d \in 0 .. Levels - 1, st \in 1 .. 4 :
          Missing(inner', q, d, st) => Missing(inner, q, d, st)
    OBVIOUS
<1> QED BY <1>5, <1>6, <1>7, <1>8, StepClimbs

\* A node is changed: its neighbours are not.
LEMMA NodeChange ==
    ASSUME Shape, NEW k \in Keys, Active(climber[k]), NEW node,
           NodeBecomes(P(k, Depth(climber[k])), node)
    PROVE  LET n == P(k, Depth(climber[k]))
           IN  /\ n \in Inner /\ inner[n] # Null /\ node # Null /\ inner'[n] = node
               /\ \A m \in Inner : m # n => inner'[m] = inner[m]
               /\ \A m \in Inner : inner'[m] # Null <=> inner[m] # Null
<1> DEFINE n == P(k, Depth(climber[k]))
<1>1. n \in Inner /\ inner[n] # Null BY PlaceFacts
<1>2. inner \in [Inner -> Node \cup {Null}] BY DEF Shape, TypeOK
<1>3. NodeBecomes(n, node) OBVIOUS
<1> HIDE DEF n
<1>4. inner'[n] = node /\ node # Null /\ \A m \in Inner : m # n => inner'[m] = inner[m]
    BY <1>1, <1>2, <1>3 DEF NodeBecomes
<1> QED BY <1>1, <1>4 DEF n

\* The node at a depth of a path has that depth.
LEMMA SameNode ==
    ASSUME NEW k \in Keys, NEW q \in Keys, NEW d \in 0 .. Levels - 1, NEW dd \in 0 .. Levels - 1,
           P(q, dd) = P(k, d)
    PROVE  dd = d
<1>1. Len(P(q, dd)) = dd /\ Len(P(k, d)) = d BY DepthFacts
<1> QED BY <1>1

\* Internals of different stages are different.
LEMMA StagesDiffer ==
    ASSUME NEW x \in Nibbles, NEW y \in Nibbles, NEW st \in 1 .. 3, NEW ss \in 1 .. 3,
           Slot(st, x) = Slot(ss, y)
    PROVE  st = ss
<1>1. /\ Slot(1, x) \in 6 .. 13 /\ Slot(2, x) \in 2 .. 5 /\ Slot(3, x) \in 0 .. 1
      /\ Slot(1, y) \in 6 .. 13 /\ Slot(2, y) \in 2 .. 5 /\ Slot(3, y) \in 0 .. 1
    BY SlotValues
<1>2. CASE st = 1 BY <1>1, <1>2
<1>3. CASE st = 2 BY <1>1, <1>3
<1>4. CASE st = 3 BY <1>1, <1>4
<1> QED BY <1>2, <1>3, <1>4

LEMMA SetsInternal ==
    ASSUME NEW nodes, NEW nodes2, NEW k0 \in ItemKeys, NEW d0 \in 0 .. Levels - 1,
           NEW s0 \in 1 .. 3, NEW h, h # Null,
           nodes[P(k0, d0)].internals \in [0 .. 13 -> Content \cup {Null}],
           \A m \in Inner : m # P(k0, d0) => nodes2[m] = nodes[m],
           nodes2[P(k0, d0)].internals =
               [nodes[P(k0, d0)].internals EXCEPT ![Slot(s0, k0[d0 + 1])] = h],
           nodes2[P(k0, d0)].current <=> nodes[P(k0, d0)].current
    PROVE  Sets(nodes, nodes2, k0, d0, s0)
<1> SUFFICES ASSUME NEW q \in ItemKeys, NEW d \in 0 .. Levels - 1, NEW st \in 1 .. 4
             PROVE  Missing(nodes2, q, d, st) <=>
                        Missing(nodes, q, d, st) /\ ~(d = d0 /\ st = s0 /\ Same(q, k0, d0, s0))
    BY DEF Sets
<1> DEFINE n == P(k0, d0)
           x == k0[d0 + 1]
           y == q[d + 1]
<1>1. k0 \in Keys /\ q \in Keys BY ItemKeyFacts
<1>2. n \in Inner /\ P(q, d) \in Inner /\ x \in Nibbles /\ y \in Nibbles BY <1>1, DepthFacts
<1>3. CASE P(q, d) # n
    <2>1. nodes2[P(q, d)] = nodes[P(q, d)] BY <1>2, <1>3
    <2>2. ~(d = d0 /\ Same(q, k0, d0, s0)) BY <1>3 DEF Same
    <2> QED BY <2>1, <2>2 DEF Missing
<1>4. CASE P(q, d) = n
    <2>1. d = d0 BY <1>1, <1>4, SameNode
    <2>2. CASE st = 4 BY <1>4, <2>2 DEF Missing
    <2>3. CASE st \in 1 .. 3
        <3>0. Slot(st, y) \in 0 .. 13 /\ Slot(s0, x) \in 0 .. 13
            <4>1. /\ Slot(1, x) \in 6 .. 13 /\ Slot(2, x) \in 2 .. 5 /\ Slot(3, x) \in 0 .. 1
                  /\ Slot(1, y) \in 6 .. 13 /\ Slot(2, y) \in 2 .. 5 /\ Slot(3, y) \in 0 .. 1
                BY <1>2, SlotValues
            <4>2. (st = 1 \/ st = 2 \/ st = 3) /\ (s0 = 1 \/ s0 = 2 \/ s0 = 3) BY <2>3
            <4>3. Slot(st, y) \in 0 .. 13 BY <4>1, <4>2
            <4>4. Slot(s0, x) \in 0 .. 13 BY <4>1, <4>2
            <4> QED BY <4>3, <4>4
        <3>1. Slot(st, y) = Slot(s0, x) <=> st = s0 /\ Same(q, k0, d0, s0)
            BY <1>2, <1>4, <2>1, <2>3, StagesDiffer DEF Same
        <3>a. st # 4 /\ nodes2[P(q, d)] = nodes2[n] BY <1>4, <2>3
        <3>2. Missing(nodes2, q, d, st) <=> nodes2[n].internals[Slot(st, y)] = Null
            BY <3>a, Zenon DEF Missing
        <3>3. Missing(nodes, q, d, st) <=> nodes[n].internals[Slot(st, y)] = Null
            BY <1>4, <3>a DEF Missing
        <3>4. nodes2[n].internals = [nodes[n].internals EXCEPT ![Slot(s0, x)] = h]
              /\ nodes[n].internals \in [0 .. 13 -> Content \cup {Null}]
            OBVIOUS
        <3> HIDE DEF n, x, y
        <3>5. nodes2[n].internals[Slot(st, y)] = Null <=>
                 nodes[n].internals[Slot(st, y)] = Null /\ Slot(st, y) # Slot(s0, x)
            BY <3>0, <3>4
        <3> QED BY <2>1, <3>1, <3>2, <3>3, <3>5
    <2> QED BY <2>2, <2>3
<1> QED BY <1>3, <1>4

LEMMA SetsNode ==
    ASSUME NEW nodes, NEW nodes2, NEW k0 \in ItemKeys, NEW d0 \in 0 .. Levels - 1,
           \A m \in Inner : m # P(k0, d0) => nodes2[m] = nodes[m],
           nodes2[P(k0, d0)].internals = nodes[P(k0, d0)].internals,
           nodes2[P(k0, d0)].current
    PROVE  Sets(nodes, nodes2, k0, d0, 4)
<1> SUFFICES ASSUME NEW q \in ItemKeys, NEW d \in 0 .. Levels - 1, NEW st \in 1 .. 4
             PROVE  Missing(nodes2, q, d, st) <=>
                        Missing(nodes, q, d, st) /\ ~(d = d0 /\ st = 4 /\ Same(q, k0, d0, 4))
    BY DEF Sets
<1>1. k0 \in Keys /\ q \in Keys BY ItemKeyFacts
<1>2. P(q, d) \in Inner BY <1>1, DepthFacts
<1>3. CASE P(q, d) # P(k0, d0)
    <2>1. nodes2[P(q, d)] = nodes[P(q, d)] BY <1>2, <1>3
    <2>2. ~(d = d0 /\ Same(q, k0, d0, 4)) BY <1>3 DEF Same
    <2> QED BY <2>1, <2>2 DEF Missing
<1>4. CASE P(q, d) = P(k0, d0)
    <2>1. d = d0 BY <1>1, <1>4, SameNode
    <2>2. CASE st = 4
        <3>1. Same(q, k0, d0, 4) BY <1>4, <2>1 DEF Same, Slot
        <3> QED BY <1>4, <2>1, <2>2, <3>1 DEF Missing
    <2>3. CASE st # 4 BY <1>4, <2>3 DEF Missing
    <2> QED BY <2>2, <2>3
<1> QED BY <1>3, <1>4

----------------------------------------------------------------------------
(* Second phase: what the climbers read is final.                          *)

LEMMA LeafBelow ==
    ASSUME NEW k \in Keys, NEW c
    PROVE  Below(c, k) = [kk \in Keys |-> IF kk = k THEN c[k] ELSE Nil]
<1>1. ASSUME NEW kk \in Keys PROVE k \in Prefixes(kk) <=> kk = k
    <2>1. Len(k) = Levels BY KeyFacts
    <2>2. P(kk, Levels) = kk /\ Levels \in 0 .. Levels BY FullPath, KeyFacts
    <2> QED BY <2>1, <2>2, PrefixIff
<1> QED BY <1>1 DEF Below

LEMMA ChildIsFinal ==
    ASSUME Shape, Climbing, NEW k \in Keys, climber[k].at = "sibling"
    PROVE  ChildHash(k) = Below(Result, climber[k].child)
<1> DEFINE n == climber[k].child
           d == Depth(climber[k])
<1>0. Active(climber[k]) BY DEF Active
<1>1. /\ k \in ItemKeys /\ Levels \in Nat /\ d \in 0 .. Levels - 1 /\ d + 1 = Len(n)
      /\ n = P(k, d + 1) /\ phase = "leaves"
    BY <1>0, PlaceFacts
<1>2. CASE n = k
    <2>1. leaves[k] = Result[k] BY <1>1 DEF Climbing
    <2>2. ChildHash(k) = [kk \in Keys |-> IF kk = k THEN leaves[k] ELSE Nil]
        BY <1>2 DEF ChildHash
    <2> QED BY <1>2, <2>1, <2>2, LeafBelow
<1>3. CASE n # k
    <2>1. Prepared(climber[k], k, inner) BY <1>0 DEF Climbing
    <2> HIDE DEF d
    <2>2. d + 1 # Levels BY <1>1, <1>3, FullPath
    <2>3. d + 1 \in 0 .. Levels - 1 /\ Len(n) < Levels BY <1>1, <2>2
    <2>4. inner[n].current BY <2>1, <2>3 DEF Prepared
    <2>5. n \in Inner /\ inner[n] # Null BY <1>1, <2>3, Copied, DepthFacts
    <2>6. Final(n, inner[n]) BY <2>5 DEF Climbing
    <2> QED BY <1>3, <2>4, <2>6 DEF Final, ChildHash
<1> QED BY <1>2, <1>3

LEMMA SiblingIsFinal ==
    ASSUME Shape, Climbing, NEW k \in Keys, climber[k].at = "read"
    PROVE  SiblingHash(SiblingOf(climber[k].child)) = Below(Result, SiblingOf(climber[k].child))
<1> DEFINE d == Depth(climber[k])
           s == SiblingOf(P(k, d + 1))
<1>0. Active(climber[k]) BY DEF Active
<1>1. /\ k \in ItemKeys /\ Levels \in Nat /\ d \in 0 .. Levels - 1 /\ d + 1 \in 1 .. Levels
      /\ climber[k].child = P(k, d + 1) /\ phase = "leaves"
    BY <1>0, PlaceFacts
<1>2. Prepared(climber[k], k, inner) BY <1>0 DEF Climbing
<1>3. Ready(inner, k, d, 1) BY <1>2, StageValues DEF Prepared
<1> HIDE DEF d
<1>4. \A q \in Keys : s \in Prefixes(q) => s = P(q, d + 1) /\ Len(s) = d + 1
    BY <1>1, SiblingFacts
<1>s. \A q \in Keys : s \in Prefixes(q) => Same(q, k, d, 1) BY <1>1, SamePrevious
<1> HIDE DEF s
<1>5. CASE s \in Keys /\ leaf[s] # Null
    <2>1. s \in ItemKeys /\ leaf[s] = Result[s] BY <1>5 DEF Climbing
    <2>2. SiblingHash(s) = [kk \in Keys |-> IF kk = s THEN leaf[s] ELSE Nil]
        BY <1>5 DEF SiblingHash
    <2>3. SiblingHash(s) = Below(Result, s) BY <1>5, <2>1, <2>2, LeafBelow
    <2> QED BY <1>1, <2>3 DEF s
<1>6. CASE ~(s \in Keys /\ leaf[s] # Null) /\ s \in Inner /\ inner[s] # Null
    <2>1. Touched(s) /\ Final(s, inner[s]) BY <1>6 DEF Climbing
    <2>2. PICK q \in ItemKeys : s \in Prefixes(q) BY <2>1, TouchedFacts
    <2>3. q \in Keys /\ Len(s) < Levels BY <1>6, ItemKeyFacts, InnerFacts
    <2>4. s = P(q, d + 1) /\ Same(q, k, d, 1) /\ d + 1 < Levels BY <1>4, <1>s, <2>2, <2>3
    <2>5. ~Missing(inner, q, d + 1, 4) BY <1>3, <2>4 DEF Ready
    <2>6. inner[s].current BY <2>4, <2>5 DEF Missing
    <2>7. SiblingHash(s) = Below(Result, s) BY <1>6, <2>1, <2>6 DEF SiblingHash, Final
    <2> QED BY <1>1, <2>7 DEF s
<1>7. CASE ~(s \in Keys /\ leaf[s] # Null) /\ ~(s \in Inner /\ inner[s] # Null)
    <2>1. ASSUME NEW q \in Keys, s \in Prefixes(q) PROVE Result[q] = Base[q]
        <3>1. s = P(q, d + 1) BY <1>4, <2>1
        <3>2. q \notin ItemKeys
            <4> SUFFICES ASSUME q \in ItemKeys PROVE FALSE OBVIOUS
            <4>1. CASE d + 1 = Levels
                <5>1. s = q BY <3>1, <4>1, FullPath
                <5>2. leaf[q] = Result[q] /\ Result[q] # Null BY ResultFacts DEF Climbing
                <5> QED BY <1>7, <5>1, <5>2
            <4>2. CASE d + 1 # Levels
                <5>1. d + 1 \in 0 .. Levels - 1 BY <1>1, <4>2
                <5>2. s \in Inner /\ inner[s] # Null BY <1>1, <3>1, <5>1, Copied, DepthFacts
                <5> QED BY <1>7, <5>2
            <4> QED BY <4>1, <4>2
        <3> QED BY <3>2, ResultFacts
    <2>2. Below(Base, s) = Below(Result, s) BY <2>1 DEF Below
    <2>3. SiblingHash(s) = Below(Result, s) BY <1>7, <2>2 DEF SiblingHash
    <2> QED BY <1>1, <2>3 DEF s
<1> QED BY <1>5, <1>6, <1>7

----------------------------------------------------------------------------
(* Second phase: the steps of a climber.                                   *)

LEMMA SubmitLeafClimbs ==
    ASSUME Shape, Climbing, NEW k \in Keys, SubmitLeaf(k) PROVE Climbing'
<1> DEFINE b == climber[k]
<1>1. b.at = "queued" /\ UNCHANGED <<phase, item, inner, leaf, leaves>> BY SubmitFacts
<1>2. PICK c : Becomes(k, c) /\ c.at = "sibling" /\ c.child = b.child BY SubmitFacts
<1>3. Active(b) /\ Active(c) BY <1>1, <1>2 DEF Active
<1>4. Stage(c) = Stage(b) BY <1>1, <1>2, StageValues
<1>5. Prepared(b, k, inner) BY <1>3 DEF Climbing
<1>6. Prepared(c, k, inner) BY <1>1, <1>2, <1>5 DEF Prepared
<1>7. Holds(c, k) BY <1>2 DEF Holds
<1> QED BY <1>1, <1>2, <1>3, <1>4, <1>6, <1>7, MoveClimbs

LEMMA CheckSiblingClimbs ==
    ASSUME Shape, Climbing, NEW k \in Keys, CheckSibling(k) PROVE Climbing'
<1> DEFINE b == climber[k]
           d == Depth(b)
           s == SiblingOf(b.child)
           stop == IsCopied(s) /\ (Unfinished(s) \/ ReadsNothing(s))
<1>1. b.at = "sibling" /\ UNCHANGED <<phase, item, inner, leaf, leaves>> BY CheckFacts
<1>2. PICK c : /\ Becomes(k, c)
               /\ \/ stop /\ c.at = "end"
                  \/ ~stop /\ c.at = "read" /\ c.child = b.child /\ c.own = ChildHash(k)
    BY CheckFacts
<1>3. Active(b) BY <1>1 DEF Active
<1>4. /\ k \in ItemKeys /\ Levels \in Nat /\ d \in 0 .. Levels - 1 /\ d + 1 = Len(b.child)
      /\ b.child = P(k, d + 1) /\ d + 1 \in 1 .. Levels /\ phase = "leaves"
      /\ k[d + 1] \in Nibbles
    BY <1>3, PlaceFacts
<1>5. Stage(b) = 1 BY <1>1, StageValues
<1>6. s = SiblingOf(P(k, d + 1)) BY <1>4
<1>p. Prepared(b, k, inner) BY <1>3 DEF Climbing
<1> HIDE DEF d, s
<1>7. \A q \in Keys : s \in Prefixes(q) => /\ s = P(q, d + 1) /\ Len(s) = d + 1
                                           /\ q[d + 1] = Flip(k[d + 1])
    BY <1>4, <1>6, SiblingFacts
<1>8. CASE stop
    <2>1. s \in Inner /\ s \notin Keys BY <1>8, InnerFacts DEF Unfinished, ReadsNothing
    <2>2. inner[s] # Null BY <1>8, <2>1 DEF IsCopied
    <2>3. Touched(s) /\ Final(s, inner[s]) BY <2>1, <2>2 DEF Climbing
    <2>4. ~inner[s].current BY <1>8, <2>3 DEF Unfinished, ReadsNothing, Final
    <2>5. PICK q \in ItemKeys : s \in Prefixes(q) BY <2>3, TouchedFacts
    <2>6. q \in Keys /\ Len(s) < Levels BY <2>1, ItemKeyFacts, InnerFacts
    <2>7. s = P(q, d + 1) /\ d + 1 \in 0 .. Levels - 1 /\ 4 \in 1 .. 4
        BY <1>4, <1>7, <2>5, <2>6
    <2>8. Missing(inner, q, d + 1, 4) BY <2>4, <2>7 DEF Missing
    <2>9. PICK k1 \in ItemKeys : InCharge(climber[k1], k1, inner, q, d + 1, 4)
        BY <2>7, <2>8 DEF Climbing, Charged
    <2>10. k1 \in Keys /\ P(k1, d + 1) = s BY <2>7, <2>9, ItemKeyFacts DEF InCharge, Same
    <2>11. s \in Prefixes(k1) BY <1>4, <2>10, PathFacts
    <2>12. k1 # k BY <1>4, <1>7, <2>10, <2>11, FlipFacts
    <2>13. Same(k1, k, d, 1) BY <1>4, <1>6, <2>10, <2>11, SamePrevious
    <2>14. Same(k, k1, d, 1) BY <2>13, SameSymmetric
    <2>15. /\ Healthy(climber[k1], k1, inner)
           /\ Ahead(Depth(climber[k1]), Stage(climber[k1]), d + 1, 4)
        BY <2>9 DEF InCharge
    <2>16. Depth(climber[k1]) \in 0 .. Levels - 1 /\ Stage(climber[k1]) \in 1 .. 4
        BY <2>10, <2>15, PlaceFacts DEF Healthy
    <2>17. Ahead(Depth(climber[k1]), Stage(climber[k1]), d, 1)
        <3> DEFINE d1 == Depth(climber[k1])
                   s1 == Stage(climber[k1])
        <3>1. Ahead(d1, s1, d + 1, 4) /\ d1 \in 0 .. Levels - 1 BY <2>15, <2>16
        <3> HIDE DEF d1, s1
        <3>2. d < d1 BY <1>4, <3>1 DEF Ahead
        <3>3. Ahead(d1, s1, d, 1) BY <3>2 DEF Ahead
        <3> QED BY <3>3 DEF d1, s1
    <2>18. InCharge(climber[k1], k1, inner, k, Depth(b), Stage(b))
        BY <1>5, <2>14, <2>15, <2>17 DEF InCharge, d
    <2>19. c.at = "end" BY <1>2, <1>8
    <2> QED BY <1>1, <1>2, <1>3, <2>12, <2>18, <2>19, QuitClimbs
<1>9. CASE ~stop
    <2>0. c.at = "read" /\ c.child = b.child /\ c.own = ChildHash(k) BY <1>2, <1>9
    <2>1. Stage(c) = 1 /\ Depth(c) = d /\ Active(c) BY <2>0, StageValues DEF Depth, d, Active
    <2>2. ASSUME NEW q \in ItemKeys, Same(q, k, d, 1), d + 1 < Levels
          PROVE  ~Missing(inner, q, d + 1, 4)
        <3>1. q \in Keys /\ d + 1 \in 0 .. Levels - 1 BY <1>4, <2>2, ItemKeyFacts
        <3>2. P(q, d + 1) \in Inner /\ inner[P(q, d + 1)] # Null BY <1>4, <3>1, Copied, DepthFacts
        <3>3. CASE P(q, d + 1) = P(k, d + 1)
            <4>1. inner[b.child].current BY <1>1, <1>4, <1>p, <2>2 DEF Prepared
            <4> QED BY <1>4, <3>3, <4>1 DEF Missing
        <3>4. CASE s \in Prefixes(q)
            <4>1. P(q, d + 1) = s BY <1>7, <3>1, <3>4
            <4>2. IsCopied(s) BY <3>2, <4>1, InnerFacts DEF IsCopied
            <4>3. inner[s].current BY <1>9, <3>2, <4>1, <4>2 DEF Unfinished, ReadsNothing
            <4> QED BY <4>1, <4>3 DEF Missing
        <3> QED BY <1>4, <1>6, <2>2, <3>1, <3>3, <3>4, SamePrevious
    <2>3. Ready(inner, k, d, 1) BY <2>2 DEF Ready
    <2>4. Prepared(c, k, inner) BY <2>0, <2>1, <2>3 DEF Prepared
    <2>5. c.own = Below(Result, c.child) BY <1>1, <2>0, ChildIsFinal
    <2>6. Holds(c, k) BY <2>0, <2>5 DEF Holds
    <2> QED BY <1>1, <1>2, <1>3, <1>5, <2>0, <2>1, <2>4, <2>6, MoveClimbs
<1> QED BY <1>8, <1>9

LEMMA ReadSiblingClimbs ==
    ASSUME Shape, Climbing, NEW k \in Keys, ReadSibling(k) PROVE Climbing'
<1> DEFINE b == climber[k]
<1>1. b.at = "read" /\ UNCHANGED <<phase, item, inner, leaf, leaves>> BY ReadFacts
<1>2. PICK c : /\ Becomes(k, c) /\ c.at = "set" /\ c.round = 1 /\ c.child = b.child
               /\ c.own = b.own /\ c.other = SiblingHash(SiblingOf(b.child))
    BY ReadFacts
<1>3. Active(b) /\ Active(c) BY <1>1, <1>2 DEF Active
<1>4. Stage(b) = 1 /\ Stage(c) = 1 /\ Depth(c) = Depth(b) BY <1>1, <1>2, StageValues DEF Depth
<1>5. Prepared(b, k, inner) /\ Holds(b, k) BY <1>3 DEF Climbing
<1>6. Prepared(c, k, inner) BY <1>1, <1>2, <1>4, <1>5 DEF Prepared
<1>7. b.own = Below(Result, b.child) BY <1>1, <1>5 DEF Holds
<1>8. c.other = Below(Result, SiblingOf(b.child)) BY <1>1, <1>2, SiblingIsFinal
<1>9. Holds(c, k) BY <1>2, <1>7, <1>8 DEF Holds
<1> QED BY <1>1, <1>2, <1>3, <1>4, <1>6, <1>9, MoveClimbs

LEMMA GetInternalClimbs ==
    ASSUME Shape, Climbing, NEW k \in Keys, GetInternal(k) PROVE Climbing'
<1> DEFINE b == climber[k]
           d == Depth(b)
           r == b.round
           x == k[d + 1]
           n == P(k, d)
           i == Slot(r, x)
           h == inner[n].internals[Flip(i)]
<1>0. Active(b) BY DEF GetInternal, Active
<1>1. /\ k \in ItemKeys /\ Levels \in Nat /\ d \in 0 .. Levels - 1 /\ d + 1 = Len(b.child)
      /\ b.child = P(k, d + 1) /\ phase = "leaves" /\ n \in Inner /\ inner[n] # Null
      /\ inner[n] \in Node /\ r \in 1 .. 3 /\ x \in Nibbles /\ d = Len(b.child) - 1
    BY <1>0, PlaceFacts DEF Depth
<1>2. /\ b.at = "get" /\ UNCHANGED <<phase, item, inner, leaf, leaves>>
      /\ \E c : /\ Becomes(k, c)
                /\ \/ h = Null /\ c.at = "end"
                   \/ h # Null /\ r = 3 /\ c.at = "publish" /\ c.child = b.child
                   \/ /\ h # Null /\ r < 3 /\ c.at = "set" /\ c.child = b.child
                      /\ c.round = r + 1 /\ c.own = b.own /\ c.other = h
    BY <1>1, GetFacts
<1>3. PICK c : /\ Becomes(k, c)
               /\ \/ h = Null /\ c.at = "end"
                  \/ h # Null /\ r = 3 /\ c.at = "publish" /\ c.child = b.child
                  \/ /\ h # Null /\ r < 3 /\ c.at = "set" /\ c.child = b.child
                     /\ c.round = r + 1 /\ c.own = b.own /\ c.other = h
    BY <1>2
<1>4. Stage(b) = r + 1 BY <1>2, StageValues
<1>5. inner[n].internals[i] # Null BY <1>0, <1>1, <1>2, ClimbFacts DEF ClimberOK
<1>6. Touched(n) /\ Final(n, inner[n]) BY <1>1 DEF Climbing
<1>7. b.own = InternalContent(Result, n, i) BY <1>0, <1>1, <1>2 DEF Climbing, Holds
<1>k. Len(n) = d BY <1>1, DepthFacts
<1> HIDE DEF d, r, x, n, i, h
<1>8. Flip(i) \in 0 .. 13 /\ Flip(i) # i BY <1>1, SlotSiblings DEF i
<1>9. CASE h = Null
    <2>1. Dirty(n, Flip(i))
        <3>1. InternalContent(Result, n, Flip(i)) # Null
            BY ContentTypes, ResultFacts, MultiSetAssumption
        <3> QED BY <1>6, <1>8, <1>9, <3>1 DEF Final, h
    <2>2. PICK q \in ItemKeys : n \in Prefixes(q) /\ Flip(i) \in leafInternalMap[q[d + 1]]
        BY <1>k, <2>1 DEF Dirty
    <2>3. q \in Keys /\ n = P(q, d) BY <1>1, <1>k, <2>2, TouchedPath
    <2>4. q[d + 1] \in Nibbles BY <1>1, <2>3, DepthFacts
    <2>5. Slot(r, q[d + 1]) = Flip(i) BY <1>1, <2>2, <2>4, StageOfSlot DEF i
    <2>6. Missing(inner, q, d, r) /\ r \in 1 .. 4
        BY <1>1, <1>9, <2>3, <2>5 DEF Missing, h
    <2>7. PICK k1 \in ItemKeys : InCharge(climber[k1], k1, inner, q, d, r)
        BY <1>1, <2>6 DEF Climbing, Charged
    <2>8. k1 \in Keys /\ P(k1, d) = n /\ Slot(r, k1[d + 1]) = Flip(i)
        BY <2>3, <2>5, <2>7, ItemKeyFacts DEF InCharge, Same
    <2>9. k1 # k BY <1>8, <2>8 DEF i, x
    <2>10. Same(k1, k, d, r + 1) BY <1>1, <2>8, SamePrevious DEF i, x, n
    <2>11. Same(k, k1, d, r + 1) BY <2>10, SameSymmetric
    <2>12. /\ Healthy(climber[k1], k1, inner)
           /\ Ahead(Depth(climber[k1]), Stage(climber[k1]), d, r)
        BY <2>7 DEF InCharge
    <2>13. Ahead(Depth(climber[k1]), Stage(climber[k1]), d, r + 1)
        <3> DEFINE d1 == Depth(climber[k1])
                   s1 == Stage(climber[k1])
        <3>1. Ahead(d1, s1, d, r) /\ d1 \in 0 .. Levels - 1 /\ s1 \in 1 .. 4
            BY <2>8, <2>12, PlaceFacts DEF Healthy
        <3> HIDE DEF d1, s1
        <3>2. Ahead(d1, s1, d, r + 1) BY <1>1, <3>1 DEF Ahead
        <3> QED BY <3>2 DEF d1, s1
    <2>14. InCharge(climber[k1], k1, inner, k, Depth(b), Stage(b))
        BY <1>4, <2>11, <2>12, <2>13 DEF InCharge, d
    <2>15. c.at = "end" BY <1>3, <1>9
    <2> QED BY <1>0, <1>2, <1>3, <2>9, <2>14, <2>15, QuitClimbs
<1>10. CASE h # Null
    <2>1. ASSUME NEW q \in ItemKeys, Same(q, k, d, r + 1) PROVE ~Missing(inner, q, d, r)
        <3>1. q \in Keys /\ r # 4 BY <1>1, ItemKeyFacts
        <3>2. /\ P(q, d) = n
              /\ Slot(r, q[d + 1]) = i \/ Slot(r, q[d + 1]) = Flip(i)
            BY <1>1, <2>1, <3>1, SamePrevious DEF i, x, n
        <3>3. inner[n].internals[Slot(r, q[d + 1])] # Null BY <1>5, <1>10, <3>2 DEF h
        <3> QED BY <3>1, <3>2, <3>3 DEF Missing
    <2>2. Ready(inner, k, d, r + 1)
        <3>1. (r + 1) - 1 = r /\ r + 1 # 1 BY <1>1
        <3> QED BY <2>1, <3>1 DEF Ready
    <2>3. CASE r = 3 /\ c.at = "publish" /\ c.child = b.child
        <3>1. Stage(c) = r + 1 /\ Depth(c) = d BY <2>3, StageValues DEF Depth, d
        <3>2. Prepared(c, k, inner) BY <2>2, <2>3, <3>1 DEF Prepared
        <3>3. Holds(c, k) BY <2>3 DEF Holds
        <3>4. Active(c) BY <2>3 DEF Active
        <3> QED BY <1>0, <1>2, <1>3, <1>4, <2>3, <3>1, <3>2, <3>3, <3>4, MoveClimbs
    <2>4. CASE /\ r < 3 /\ c.at = "set" /\ c.child = b.child
               /\ c.round = r + 1 /\ c.own = b.own /\ c.other = h
        <3>1. Stage(c) = r + 1 /\ Depth(c) = d BY <2>4, StageValues DEF Depth, d
        <3>2. Prepared(c, k, inner) BY <2>2, <2>4, <3>1 DEF Prepared
        <3>3. h = InternalContent(Result, n, Flip(i)) BY <1>6, <1>8, <1>10 DEF Final, h
        <3>4. c.round - 1 = r /\ c.round # 1 /\ k[Len(c.child)] = x BY <1>1, <2>4 DEF x, d
        <3>5. P(k, Depth(c)) = n BY <3>1 DEF n
        <3>6. Holds(c, k)
            BY <1>7, <2>4, <3>3, <3>4, <3>5 DEF Holds, i
        <3>7. Active(c) BY <2>4 DEF Active
        <3> QED BY <1>0, <1>2, <1>3, <1>4, <2>4, <3>1, <3>2, <3>6, <3>7, MoveClimbs
    <2> QED BY <1>3, <1>10, <2>3, <2>4
<1> QED BY <1>9, <1>10

LEMMA SetInternalClimbs ==
    ASSUME Shape, Climbing, NEW k \in Keys, SetInternal(k) PROVE Climbing'
<1> DEFINE b == climber[k]
           d == Depth(b)
           r == b.round
           x == k[d + 1]
           n == P(k, d)
           i == Slot(r, x)
           h == Combined(b)
<1>0. Active(b) BY DEF SetInternal, Active
<1>1. /\ k \in ItemKeys /\ Levels \in Nat /\ d \in 0 .. Levels - 1 /\ d + 1 = Len(b.child)
      /\ b.child = P(k, d + 1) /\ phase = "leaves" /\ n \in Inner /\ inner[n] # Null
      /\ inner[n] \in Node /\ r \in 1 .. 3 /\ x \in Nibbles /\ d = Len(b.child) - 1
    BY <1>0, PlaceFacts DEF Depth
<1>2. /\ b.at = "set" /\ UNCHANGED <<phase, item, leaf, leaves>>
      /\ \/ /\ inner[n].internals[i] # Null /\ inner' = inner
            /\ \E c : Becomes(k, c) /\ c.at = "end"
         \/ /\ inner[n].internals[i] = Null /\ h \in Content
            /\ \E node : /\ NodeBecomes(n, node)
                         /\ node.internals = [inner[n].internals EXCEPT ![i] = h]
                         /\ node.current = inner[n].current
                         /\ node.torn = inner[n].torn /\ node.hash = inner[n].hash
            /\ \E c : /\ Becomes(k, c) /\ c.at = "get" /\ c.child = b.child
                      /\ c.round = r /\ c.own = h
    BY <1>1, SetFacts
<1>3. Stage(b) = r /\ r # 4 BY <1>1, <1>2, StageValues
<1>4. Prepared(b, k, inner) /\ Holds(b, k) BY <1>0 DEF Climbing
<1>5. Ready(inner, k, d, r) BY <1>2, <1>3, <1>4 DEF Prepared
<1>6. TornOK(climber, inner) /\ Monotone(inner) /\ Charged(climber, inner) BY DEF Climbing
<1>7. i \in 0 .. 13 BY <1>0, <1>1, SlotOfClimber
<1>8. CASE inner[n].internals[i] # Null
    <2>1. PICK c : Becomes(k, c) /\ c.at = "end" BY <1>2, <1>8
    <2>2. inner' = inner BY <1>2, <1>8
    <2>3. ~Healthy(b, k, inner) BY <1>3, <1>8 DEF Healthy, Missing
    <2> QED BY <1>0, <1>2, <2>1, <2>2, <2>3, QuitClimbs
<1>9. CASE inner[n].internals[i] = Null
    <2>1. PICK node : /\ NodeBecomes(n, node)
                      /\ node.internals = [inner[n].internals EXCEPT ![i] = h]
                      /\ node.current = inner[n].current
                      /\ node.torn = inner[n].torn /\ node.hash = inner[n].hash
        BY <1>2, <1>9
    <2>2. PICK c : /\ Becomes(k, c) /\ c.at = "get" /\ c.child = b.child
                   /\ c.round = r /\ c.own = h
        BY <1>2, <1>9
    <2>3. h # Null
        <3>1. h \in Content BY <1>2, <1>9
        <3> HIDE DEF h
        <3> QED BY <3>1, MultiSetAssumption
    <2>4. /\ inner'[n] = node /\ \A m \in Inner : m # n => inner'[m] = inner[m]
          /\ \A m \in Inner : inner'[m] # Null <=> inner[m] # Null
        BY <1>0, <2>1, NodeChange
    <2>5. h = InternalContent(Result, n, i)
        <3>1. CASE r = 1
            <4>1. b.own = Below(Result, b.child) /\ b.other = Below(Result, SiblingOf(b.child))
                BY <1>2, <1>4, <3>1 DEF Holds
            <4>2. d + 1 \in 1 .. Levels /\ (d + 1) - 1 = d BY <1>1
            <4>3. (IF OnLeft(1, k[d + 1])
                   THEN Hash(Below(Result, P(k, d + 1)), Below(Result, SiblingOf(P(k, d + 1))))
                   ELSE Hash(Below(Result, SiblingOf(P(k, d + 1))), Below(Result, P(k, d + 1)))) =
                      InternalContent(Result, P(k, (d + 1) - 1), Slot(1, k[d + 1]))
                BY <4>2, HashOfChildren
            <4>4. Nibble(b.child) = k[d + 1] BY <1>0, <1>1, ClimbFacts
            <4> QED BY <1>1, <3>1, <4>1, <4>2, <4>3, <4>4 DEF Combined
        <3>2. CASE r # 1
            <4>1. r > 1 /\ r - 1 \in 1 .. 2 /\ (r - 1) + 1 = r BY <1>1, <3>2
            <4>2. /\ b.own = InternalContent(Result, n, Slot(r - 1, x))
                  /\ b.other = InternalContent(Result, n, Flip(Slot(r - 1, x)))
                BY <1>1, <1>2, <1>4, <4>1 DEF Holds
            <4>3. (IF OnLeft((r - 1) + 1, x)
                   THEN Hash(InternalContent(Result, n, Slot(r - 1, x)),
                             InternalContent(Result, n, Flip(Slot(r - 1, x))))
                   ELSE Hash(InternalContent(Result, n, Flip(Slot(r - 1, x))),
                             InternalContent(Result, n, Slot(r - 1, x)))) =
                      InternalContent(Result, n, Slot((r - 1) + 1, x))
                BY <1>1, <4>1, HashOfInternals
            <4>4. Nibble(b.child) = x BY <1>0, <1>1, ClimbFacts
            <4> QED BY <4>1, <4>2, <4>3, <4>4 DEF Combined
        <3> QED BY <3>1, <3>2
    <2>6. inner[n].internals \in [0 .. 13 -> Content \cup {Null}] BY <1>1 DEF Node
    <2>s. Sets(inner, inner', k, d, r)
        <3>1. /\ inner[P(k, d)].internals \in [0 .. 13 -> Content \cup {Null}]
              /\ \A m \in Inner : m # P(k, d) => inner'[m] = inner[m]
            BY <2>4, <2>6
        <3>2. inner'[P(k, d)].internals = [inner[P(k, d)].internals EXCEPT ![Slot(r, k[d + 1])] = h]
            BY <2>1, <2>4
        <3>3. inner'[P(k, d)].current <=> inner[P(k, d)].current BY <2>1, <2>4
        <3>4. k \in ItemKeys /\ d \in 0 .. Levels - 1 /\ r \in 1 .. 3 BY <1>1
        <3> HIDE DEF h, d, r, b
        <3> QED BY <2>3, <3>1, <3>2, <3>3, <3>4, SetsInternal
    <2> HIDE DEF d, r, x, n, i, h
    <2>7. \A m \in Inner : inner'[m] # Null => Touched(m) /\ Final(m, inner'[m])
        <3>1. Touched(n) /\ Final(n, inner[n]) BY <1>1 DEF Climbing
        <3>2. \A j \in 0 .. 13 : node.internals[j] = IF j = i THEN h ELSE inner[n].internals[j]
            BY <1>7, <2>1, <2>6
        <3>3. Final(n, node) BY <2>1, <2>5, <3>1, <3>2 DEF Final
        <3> QED BY <2>4, <3>1, <3>3 DEF Climbing
    <2>8. Monotone(inner') BY <1>1, <1>5, <1>6, <2>s, MonotoneAdvance
    <2>9. Healthy(b, k, inner) BY <1>0, <1>3, <1>9 DEF Healthy, Missing, d, n, i, x
    <2>10. Stage(c) = r + 1 /\ Depth(c) = d /\ Active(c) BY <2>2, StageValues DEF Depth, Active, d
    <2>11. Charged(climber', inner')
        <3>1. climber'[k] = c /\ Moves(climber, climber', k) /\ Placed(climber)
            BY <2>2, OthersStay, AllPlaced
        <3>2. r < 4 BY <1>1
        <3> QED BY <1>1, <1>3, <1>6, <2>s, <2>9, <2>10, <3>1, <3>2, ChargedAdvance DEF d
    <2>12. TornOK(climber', inner')
        <3>1. \A m \in Inner : inner[m] # Null => (inner'[m].torn <=> inner[m].torn) BY <2>1, <2>4
        <3> QED BY <1>2, <1>6, <2>2, <2>4, <3>1, TornKept
    <2>13. Prepared(c, k, inner') BY <2>2 DEF Prepared
    <2>14. Holds(c, k)
        <3>1. P(k, Depth(c)) = n /\ k[Len(c.child)] = x BY <1>1, <2>2, <2>10 DEF n, x
        <3> QED BY <2>2, <2>5, <3>1 DEF Holds, i
    <2>15. \A q \in ItemKeys, dd \in 0 .. Levels - 1, st \in 1 .. 4 :
               Missing(inner', q, dd, st) => Missing(inner, q, dd, st)
        BY <2>s DEF Sets
    <2> QED BY <1>0, <1>2, <2>2, <2>7, <2>8, <2>11, <2>12, <2>13, <2>14, <2>15, StepClimbs
<1> QED BY <1>8, <1>9

\* The hash a node is given is the final one.
LEMMA NodeHashIsFinal ==
    ASSUME Shape, Climbing, NEW k \in Keys, climber[k].at \in {"publish", "store"}
    PROVE  NodeHash(P(k, Depth(climber[k]))) = Below(Result, P(k, Depth(climber[k])))
<1> DEFINE n == P(k, Depth(climber[k]))
<1>0. Active(climber[k]) BY DEF Active
<1>1. n \in Inner /\ inner[n] # Null BY <1>0, PlaceFacts
<1>2. inner[n].internals[0] # Null /\ inner[n].internals[1] # Null
    BY <1>0, ClimbFacts DEF ClimberOK, Depth
<1>3. Final(n, inner[n]) BY <1>1 DEF Climbing
<1> HIDE DEF n
<1>4. 0 \in 0 .. 13 /\ 1 \in 0 .. 13 OBVIOUS
<1>5. /\ inner[n].internals[0] = InternalContent(Result, n, 0)
      /\ inner[n].internals[1] = InternalContent(Result, n, 1)
    BY <1>2, <1>3, <1>4 DEF Final
<1>6. NodeHash(n) = Below(Result, n) BY <1>1, <1>5, HashOfNode DEF NodeHash
<1> QED BY <1>6 DEF n

\* A climber that comes to the next node: it has just finished its child.
LEMMA NextClimb ==
    ASSUME Shape, NEW k \in Keys, Active(climber[k]), NEW c, NEW nodes,
           c.child = P(k, Depth(climber[k])),
           c.at = IF P(k, Depth(climber[k])) = <<>> THEN "end" ELSE "sibling",
           nodes[P(k, Depth(climber[k]))].current
    PROVE  /\ Active(c) => Prepared(c, k, nodes) /\ Holds(c, k)
           /\ c.at # "store" /\ Stage(c) = 1 /\ Depth(c) = Depth(climber[k]) - 1
           /\ Depth(climber[k]) > 0 => Active(c)
<1> DEFINE d == Depth(climber[k])
<1>1. d \in 0 .. Levels - 1 /\ Levels \in Nat BY PlaceFacts
<1>2. c.child = P(k, d) /\ nodes[P(k, d)].current OBVIOUS
<1>3. c.at = IF P(k, d) = <<>> THEN "end" ELSE "sibling" OBVIOUS
<1> HIDE DEF d
<1>4. Len(P(k, d)) = d BY <1>1, DepthFacts
<1>5. d > 0 => P(k, d) # <<>>
    <2>1. Len(<<>>) = 0 OBVIOUS
    <2> QED BY <1>1, <1>4, <2>1
<1>6. c.at \in {"end", "sibling"} /\ (d > 0 => c.at = "sibling") BY <1>3, <1>5
<1>7. Stage(c) = 1 BY <1>6 DEF Stage
<1>8. Depth(c) = d - 1 BY <1>2, <1>4 DEF Depth
<1>9. Prepared(c, k, nodes) /\ Holds(c, k) BY <1>2, <1>6 DEF Prepared, Holds
<1>10. d > 0 => Active(c) BY <1>6 DEF Active
<1> QED BY <1>6, <1>7, <1>8, <1>9, <1>10 DEF d

LEMMA StoreClimbs ==
    ASSUME Shape, Climbing, NEW k \in Keys, Store(k) PROVE Climbing'
<1> DEFINE b == climber[k]
           d == Depth(b)
           n == P(k, d)
<1>0. b.at = "store" /\ Active(b) BY DEF Store, Active
<1>1. /\ k \in ItemKeys /\ Levels \in Nat /\ d \in 0 .. Levels - 1 /\ phase = "leaves"
      /\ n \in Inner /\ inner[n] # Null /\ inner[n] \in Node /\ d = Len(b.child) - 1
    BY <1>0, PlaceFacts DEF Depth
<1>2. PICK node : /\ NodeBecomes(n, node) /\ node.current /\ ~node.torn
                  /\ node.internals = inner[n].internals /\ node.hash = NodeHash(n)
    BY <1>1, StoreFacts
<1>3. PICK c : /\ Becomes(k, c) /\ c.child = n
               /\ c.at = IF n = <<>> THEN "end" ELSE "sibling"
    BY <1>1, StoreFacts
<1>4. UNCHANGED <<leaf, leaves>> BY StoreFacts
<1>5. Stage(b) = 4 /\ Ready(inner, k, d, 4)
    <2>1. Stage(b) = 4 BY <1>0, StageValues
    <2>2. Prepared(b, k, inner) BY <1>0 DEF Climbing
    <2> QED BY <1>0, <2>1, <2>2 DEF Prepared
<1>6. TornOK(climber, inner) /\ Monotone(inner) /\ Charged(climber, inner) BY DEF Climbing
<1>7. /\ inner'[n] = node /\ \A m \in Inner : m # n => inner'[m] = inner[m]
      /\ \A m \in Inner : inner'[m] # Null <=> inner[m] # Null
    BY <1>0, <1>2, NodeChange
<1>8. /\ Active(c) => Prepared(c, k, inner') /\ Holds(c, k)
      /\ c.at # "store" /\ Stage(c) = 1 /\ Depth(c) = d - 1 /\ (d > 0 => Active(c))
    BY <1>0, <1>2, <1>3, <1>7, NextClimb
<1>9. node.hash = Below(Result, n) BY <1>0, <1>2, NodeHashIsFinal
<1>f. Touched(n) /\ Final(n, inner[n]) BY <1>1 DEF Climbing
<1>h. Healthy(b, k, inner)
    <2>1. inner[n].torn BY <1>0, <1>6 DEF TornOK
    <2>2. ~inner[n].current BY <1>f, <2>1 DEF Final
    <2> QED BY <1>0, <1>5, <2>2 DEF Healthy, Missing
<1>s. Sets(inner, inner', k, d, 4)
    <2> HIDE DEF d
    <2> QED BY <1>1, <1>2, <1>7, SetsNode DEF n
<1>o. climber'[k] = c /\ Moves(climber, climber', k) /\ Placed(climber)
    BY <1>3, OthersStay, AllPlaced
<1>10. Charged(climber', inner')
    <2>1. d > 0 \/ d = 0
        <3>1. d \in 0 .. Levels - 1 /\ Levels \in Nat BY <1>1
        <3> HIDE DEF d
        <3> QED BY <3>1
    <2>2. \/ 4 = 4 /\ d > 0 /\ Active(climber'[k]) /\ Depth(climber'[k]) = d - 1
             /\ Stage(climber'[k]) = 1
          \/ 4 = 4 /\ d = 0
        BY <1>8, <1>o, <2>1
    <2> QED BY <1>1, <1>5, <1>6, <1>h, <1>s, <1>o, <2>2, ChargedAdvance
<1> HIDE DEF d, n
<1>11. Monotone(inner')
    <2>1. 4 \in 1 .. 4 OBVIOUS
    <2> QED BY <1>1, <1>5, <1>6, <1>s, <2>1, MonotoneAdvance
<1>12. \A m \in Inner : inner'[m] # Null => Touched(m) /\ Final(m, inner'[m])
    <2>1. Final(n, node) BY <1>2, <1>9, <1>f DEF Final
    <2> QED BY <1>7, <1>f, <2>1 DEF Climbing
<1>13. \A q \in ItemKeys, dd \in 0 .. Levels - 1, st \in 1 .. 4 :
           Missing(inner', q, dd, st) => Missing(inner, q, dd, st)
    BY <1>s DEF Sets
<1>14. TornOK(climber', inner')
    <2>0. \A kk \in Keys : kk # k => climber'[kk] = climber[kk]
        <3>1. climber \in [Keys -> ClimberState] BY DEF Shape, TypeOK
        <3> QED BY <1>3, <3>1 DEF Becomes
    <2>1. ASSUME NEW m \in Inner, inner'[m] # Null, inner'[m].torn
          PROVE  \E kk \in ItemKeys : climber'[kk].at = "store" /\ P(kk, Depth(climber'[kk])) = m
        <3>1. m # n BY <1>2, <1>7, <2>1
        <3>2. PICK kk \in ItemKeys : climber[kk].at = "store" /\ P(kk, Depth(climber[kk])) = m
            BY <1>6, <1>7, <2>1, <3>1 DEF TornOK
        <3>3. kk # k /\ kk \in Keys BY <3>1, <3>2, ItemKeyFacts DEF n, d
        <3> QED BY <2>0, <3>2, <3>3
    <2>2. \A kk \in Keys : climber'[kk].at = "store" =>
              kk # k /\ climber'[kk] = climber[kk]
        BY <1>8, <1>o, <2>0
    <2>3. ASSUME NEW kk \in Keys, climber'[kk].at = "store"
          PROVE  inner'[P(kk, Depth(climber'[kk]))].torn
        <3>1. kk # k /\ climber'[kk] = climber[kk] /\ climber[kk].at = "store" BY <2>2, <2>3
        <3>2. P(kk, Depth(climber[kk])) # n BY <1>0, <1>6, <3>1 DEF TornOK, n, d
        <3>3. P(kk, Depth(climber[kk])) \in Inner BY <3>1, PlaceFacts DEF Active
        <3>4. inner[P(kk, Depth(climber[kk]))].torn BY <1>6, <3>1 DEF TornOK
        <3> QED BY <1>7, <3>1, <3>2, <3>3, <3>4
    <2>4. \A k1, k2 \in Keys :
              /\ climber'[k1].at = "store" /\ climber'[k2].at = "store"
              /\ P(k1, Depth(climber'[k1])) = P(k2, Depth(climber'[k2]))
              => k1 = k2
        BY <1>6, <2>2 DEF TornOK
    <2> QED BY <2>1, <2>3, <2>4 DEF TornOK
<1> QED BY <1>0, <1>3, <1>4, <1>8, <1>10, <1>11, <1>12, <1>13, <1>14, StepClimbs

LEMMA PublishClimbs ==
    ASSUME Shape, Climbing, NEW k \in Keys, Publish(k) PROVE Climbing'
<1> DEFINE b == climber[k]
           d == Depth(b)
           n == P(k, d)
<1>0. b.at = "publish" /\ Active(b) BY DEF Publish, Active
<1>1. /\ k \in ItemKeys /\ Levels \in Nat /\ d \in 0 .. Levels - 1 /\ phase = "leaves"
      /\ n \in Inner /\ inner[n] # Null /\ inner[n] \in Node /\ d = Len(b.child) - 1
    BY <1>0, PlaceFacts DEF Depth
<1>4. UNCHANGED <<leaf, leaves>> BY PublishFacts
<1>5. Stage(b) = 4 BY <1>0, StageValues
<1>p. Prepared(b, k, inner) BY <1>0 DEF Climbing
<1>6. TornOK(climber, inner) /\ Monotone(inner) /\ Charged(climber, inner) BY DEF Climbing
<1>f. Touched(n) /\ Final(n, inner[n]) BY <1>1 DEF Climbing
<1>7. CASE inner[n].torn
    <2>1. PICK c : Becomes(k, c) /\ c.at = "end" BY <1>1, <1>7, PublishFacts
    <2>2. inner' = inner BY <1>1, <1>7, PublishFacts
    <2>3. PICK k1 \in ItemKeys : climber[k1].at = "store" /\ P(k1, Depth(climber[k1])) = n
        BY <1>1, <1>6, <1>7 DEF TornOK
    <2>4. k1 # k /\ k1 \in Keys /\ Active(climber[k1]) BY <1>0, <2>3, ItemKeyFacts DEF Active
    <2>5. Depth(climber[k1]) \in 0 .. Levels - 1 /\ Stage(climber[k1]) = 4
        BY <2>3, <2>4, PlaceFacts, StageValues
    <2>6. Depth(climber[k1]) = d
        <3> HIDE DEF d
        <3> QED BY <1>1, <2>3, <2>4, <2>5, SameNode DEF n
    <2>7. ~inner[n].current BY <1>7, <1>f DEF Final
    <2>8. Healthy(climber[k1], k1, inner) BY <2>3, <2>4, <2>5, <2>7 DEF Healthy, Missing
    <2>9. Same(k, k1, d, 4) BY <2>3, <2>6 DEF Same, Slot
    <2>10. Ahead(Depth(climber[k1]), Stage(climber[k1]), d, 4) BY <2>5, <2>6 DEF Ahead
    <2>11. InCharge(climber[k1], k1, inner, k, Depth(b), Stage(b))
        BY <1>5, <2>8, <2>9, <2>10 DEF InCharge
    <2> QED BY <1>0, <1>4, <2>1, <2>2, <2>4, <2>11, QuitClimbs
<1>8. CASE ~inner[n].torn /\ inner[n].current
    <2>1. PICK node : /\ NodeBecomes(n, node) /\ node.current /\ ~node.torn
                      /\ node.internals = inner[n].internals /\ node.hash = NodeHash(n)
        BY <1>1, <1>8, PublishFacts
    <2>2. PICK c : /\ Becomes(k, c) /\ c.child = n
                   /\ c.at = IF n = <<>> THEN "end" ELSE "sibling"
        BY <1>1, <1>8, PublishFacts
    <2>3. /\ inner'[n] = node /\ \A m \in Inner : m # n => inner'[m] = inner[m]
          /\ \A m \in Inner : inner'[m] # Null <=> inner[m] # Null
        BY <1>0, <2>1, NodeChange
    <2>4. /\ Active(c) => Prepared(c, k, inner') /\ Holds(c, k)
          /\ c.at # "store"
        BY <1>0, <2>1, <2>2, <2>3, NextClimb
    <2>5. node.hash = Below(Result, n) BY <1>0, <2>1, NodeHashIsFinal
    <2>6. ~Healthy(b, k, inner) BY <1>5, <1>8 DEF Healthy, Missing
    <2>o. climber'[k] = c /\ Moves(climber, climber', k) /\ Placed(climber)
        BY <2>2, OthersStay, AllPlaced
    <2> HIDE DEF n
    <2>7. \A q \in ItemKeys, dd \in 0 .. Levels - 1, st \in 1 .. 4 :
              Missing(inner', q, dd, st) <=> Missing(inner, q, dd, st)
        <3> SUFFICES ASSUME NEW q \in ItemKeys, NEW dd \in 0 .. Levels - 1, NEW st \in 1 .. 4
                     PROVE  Missing(inner', q, dd, st) <=> Missing(inner, q, dd, st)
            OBVIOUS
        <3>1. P(q, dd) \in Inner BY ItemKeyFacts, DepthFacts
        <3>2. CASE P(q, dd) = n BY <1>8, <2>1, <2>3, <3>2 DEF Missing
        <3>3. CASE P(q, dd) # n BY <2>3, <3>1, <3>3 DEF Missing
        <3> QED BY <3>2, <3>3
    <2>8. Charged(climber', inner') BY <1>1, <1>6, <2>6, <2>7, <2>o, ChargedMove
    <2>9. Monotone(inner') BY <1>6, <2>7, MonotoneKept
    <2>10. \A m \in Inner : inner'[m] # Null => Touched(m) /\ Final(m, inner'[m])
        <3>1. Final(n, node) BY <2>1, <2>5, <1>f DEF Final
        <3> QED BY <2>3, <1>f, <3>1 DEF Climbing
    <2>11. TornOK(climber', inner')
        <3>1. \A m \in Inner : inner[m] # Null => (inner'[m].torn <=> inner[m].torn)
            BY <1>8, <2>1, <2>3
        <3> QED BY <1>0, <1>6, <2>2, <2>3, <2>4, <3>1, TornKept
    <2> QED BY <1>0, <1>4, <2>2, <2>4, <2>7, <2>8, <2>9, <2>10, <2>11, StepClimbs
<1>9. CASE ~inner[n].torn /\ ~inner[n].current
    <2>1. PICK node : /\ NodeBecomes(n, node) /\ ~node.current /\ node.torn
                      /\ node.internals = inner[n].internals
        BY <1>1, <1>9, PublishFacts
    <2>2. PICK c : Becomes(k, c) /\ c.child = b.child /\ c.at = "store"
        BY <1>1, <1>9, PublishFacts
    <2>3. /\ inner'[n] = node /\ \A m \in Inner : m # n => inner'[m] = inner[m]
          /\ \A m \in Inner : inner'[m] # Null <=> inner[m] # Null
        BY <1>0, <2>1, NodeChange
    <2>4. Active(c) /\ Stage(c) = Stage(b) /\ Depth(c) = Depth(b)
        BY <1>5, <2>2, StageValues DEF Active, Depth
    <2>o. climber'[k] = c /\ Moves(climber, climber', k) /\ Placed(climber)
        BY <2>2, OthersStay, AllPlaced
    <2> HIDE DEF n
    <2>7. \A q \in ItemKeys, dd \in 0 .. Levels - 1, st \in 1 .. 4 :
              Missing(inner', q, dd, st) <=> Missing(inner, q, dd, st)
        <3> SUFFICES ASSUME NEW q \in ItemKeys, NEW dd \in 0 .. Levels - 1, NEW st \in 1 .. 4
                     PROVE  Missing(inner', q, dd, st) <=> Missing(inner, q, dd, st)
            OBVIOUS
        <3>1. P(q, dd) \in Inner BY ItemKeyFacts, DepthFacts
        <3>2. CASE P(q, dd) = n BY <1>9, <2>1, <2>3, <3>2 DEF Missing
        <3>3. CASE P(q, dd) # n BY <2>3, <3>1, <3>3 DEF Missing
        <3> QED BY <3>2, <3>3
    <2>8. Charged(climber', inner') BY <1>1, <1>6, <2>4, <2>7, <2>o, ChargedMove
    <2>9. Monotone(inner') BY <1>6, <2>7, MonotoneKept
    <2>10. \A m \in Inner : inner'[m] # Null => Touched(m) /\ Final(m, inner'[m])
        <3>1. Final(n, node) BY <2>1, <1>f DEF Final
        <3> QED BY <2>3, <1>f, <3>1 DEF Climbing
    <2>11. Prepared(c, k, inner') /\ Holds(c, k)
        <3>1. Prepared(b, k, inner') BY <1>0, <1>p, <2>7, StaysPrepared
        <3>2. Prepared(c, k, inner') BY <1>0, <2>2, <2>4, <3>1 DEF Prepared
        <3>3. Holds(c, k) BY <2>2 DEF Holds
        <3> QED BY <3>2, <3>3
    <2>12. TornOK(climber', inner')
        <3>0. \A kk \in Keys : kk # k => climber'[kk] = climber[kk]
            <4>1. climber \in [Keys -> ClimberState] BY DEF Shape, TypeOK
            <4> QED BY <2>2, <4>1 DEF Becomes
        <3>k. P(k, Depth(climber'[k])) = n /\ climber'[k].at = "store"
            BY <2>2, <2>4, <2>o DEF n
        <3>1. ASSUME NEW m \in Inner, inner'[m] # Null, inner'[m].torn
              PROVE  \E kk \in ItemKeys : /\ climber'[kk].at = "store"
                                          /\ P(kk, Depth(climber'[kk])) = m
            <4>1. CASE m = n BY <1>1, <3>k, <4>1
            <4>2. CASE m # n
                <5>1. PICK kk \in ItemKeys : /\ climber[kk].at = "store"
                                             /\ P(kk, Depth(climber[kk])) = m
                    BY <1>6, <2>3, <3>1, <4>2 DEF TornOK
                <5>2. kk # k /\ kk \in Keys BY <1>0, <5>1, ItemKeyFacts
                <5> QED BY <3>0, <5>1, <5>2
            <4> QED BY <4>1, <4>2
        <3>2. ASSUME NEW kk \in Keys, kk # k, climber'[kk].at = "store"
              PROVE  /\ climber'[kk] = climber[kk] /\ climber[kk].at = "store"
                     /\ P(kk, Depth(climber[kk])) # n /\ P(kk, Depth(climber[kk])) \in Inner
                     /\ inner[P(kk, Depth(climber[kk]))].torn
            <4>1. climber'[kk] = climber[kk] /\ climber[kk].at = "store" BY <3>0, <3>2
            <4>2. inner[P(kk, Depth(climber[kk]))].torn BY <1>6, <4>1 DEF TornOK
            <4>3. P(kk, Depth(climber[kk])) \in Inner BY <4>1, PlaceFacts DEF Active
            <4> QED BY <1>9, <4>1, <4>2, <4>3
        <3>3. ASSUME NEW kk \in Keys, climber'[kk].at = "store"
              PROVE  inner'[P(kk, Depth(climber'[kk]))].torn
            <4>1. CASE kk = k BY <2>1, <2>3, <3>k, <4>1
            <4>2. CASE kk # k BY <2>3, <3>2, <3>3, <4>2
            <4> QED BY <4>1, <4>2
        <3>4. ASSUME NEW k1 \in Keys, NEW k2 \in Keys,
                     climber'[k1].at = "store", climber'[k2].at = "store",
                     P(k1, Depth(climber'[k1])) = P(k2, Depth(climber'[k2]))
              PROVE  k1 = k2
            <4>1. CASE k1 = k /\ k2 # k BY <3>2, <3>4, <3>k, <4>1
            <4>2. CASE k1 # k /\ k2 = k BY <3>2, <3>4, <3>k, <4>2
            <4>3. CASE k1 # k /\ k2 # k
                <5>1. climber'[k1] = climber[k1] /\ climber'[k2] = climber[k2] BY <3>0, <4>3
                <5> QED BY <1>6, <3>4, <5>1 DEF TornOK
            <4> QED BY <4>1, <4>2, <4>3
        <3> QED BY <3>1, <3>3, <3>4 DEF TornOK
    <2>13. \A q \in ItemKeys, dd \in 0 .. Levels - 1, st \in 1 .. 4 :
               Missing(inner', q, dd, st) => Missing(inner, q, dd, st)
        BY <2>7
    <2> QED BY <1>0, <1>4, <2>2, <2>8, <2>9, <2>10, <2>11, <2>12, <2>13, StepClimbs
<1> QED BY <1>7, <1>8, <1>9

----------------------------------------------------------------------------
(* The theorems.                                                           *)

LEMMA NextInv ==
    ASSUME DistinctKeys, Prior = {}, Shape, Inv, [Next]_vars PROVE Inv'
<1>0. phase \in {"items", "leaves", "done", "failed"} BY DEF Shape, TypeOK
<1>1. CASE UNCHANGED vars
    BY <1>1 DEF Inv, Preparing, Climbing, vars
<1>2. ASSUME NEW g \in Items, SubmitItem(g) \/ ItemStep(g) PROVE Inv'
    <2>1. item[g].at # "end" /\ phase' = phase
        BY <1>2 DEF SubmitItem, ItemStep, CopyNode, Mark, ExtendFails, SetLeaf, LookupLeaf,
                    RegisterLeaf
    <2>2. phase \in {"items", "failed"} BY <1>0, <2>1 DEF Shape
    <2>3. Preparing BY <2>2 DEF Inv
    <2>4. Preparing' BY <1>2, <2>3, ItemMovesPrepare, CopyNodePrepares, MarkPrepares DEF ItemStep
    <2> QED BY <2>1, <2>2, <2>4 DEF Inv
<1>3. CASE RejectKey \/ ReturnError
    <2>1. /\ phase \in {"items", "failed"} /\ phase' = "failed"
          /\ UNCHANGED <<item, climber, inner, leaf, leaves>>
        BY <1>3 DEF RejectKey, ReturnError
    <2>2. Preparing' BY <2>1 DEF Inv, Preparing
    <2> QED BY <2>1, <2>2 DEF Inv
<1>4. CASE StartClimbing
    <2>1. phase = "items" /\ phase' = "leaves" BY <1>4 DEF StartClimbing
    <2>2. Climbing' BY <1>4, <2>1, StartClimbs DEF Inv
    <2> QED BY <2>1, <2>2 DEF Inv
<1>5. ASSUME NEW k \in Keys, SubmitLeaf(k) \/ ClimberStep(k) PROVE Inv'
    <2>1. Active(climber[k]) /\ phase' = phase
        BY <1>5 DEF SubmitLeaf, ClimberStep, CheckSibling, ReadSibling, SetInternal, GetInternal,
                    Publish, Store, Active
    <2>2. phase = "leaves" BY <2>1, ClimbFacts
    <2>3. Climbing BY <2>2 DEF Inv
    <2>4. Climbing'
        BY <1>5, <2>3, SubmitLeafClimbs, CheckSiblingClimbs, ReadSiblingClimbs, SetInternalClimbs,
           GetInternalClimbs, PublishClimbs, StoreClimbs DEF ClimberStep
    <2> QED BY <2>1, <2>2, <2>4 DEF Inv
<1>6. CASE Finish
    <2>1. /\ phase = "leaves" /\ phase' = "done"
          /\ UNCHANGED <<item, climber, inner, leaf, leaves>>
        BY <1>6 DEF Finish
    <2>2. Climbing' BY <2>1 DEF Inv, Climbing
    <2> QED BY <2>1, <2>2 DEF Inv
<1>7. CASE Returned BY <1>1, <1>7 DEF Returned
<1> QED BY <1>1, <1>2, <1>3, <1>4, <1>5, <1>6, <1>7 DEF Next

LEMMA InvHolds ==
    ASSUME DistinctKeys, Prior = {} PROVE Spec => [](Shape /\ Inv)
<1>1. Init => Shape /\ Inv BY InitShape, InitPrepares DEF Init, Inv
<1>2. Shape /\ Inv /\ [Next]_vars => (Shape /\ Inv)' BY NextShape, NextInv
<1> QED BY <1>1, <1>2, PTL DEF Spec

\* When all climbers have ended nothing is missing.
LEMMA NothingMissing ==
    ASSUME Shape, Climbing, phase = "done", NEW k \in ItemKeys, NEW d \in 0 .. Levels - 1,
           NEW st \in 1 .. 4
    PROVE  ~Missing(inner, k, d, st)
<1> SUFFICES ASSUME Missing(inner, k, d, st) PROVE FALSE OBVIOUS
<1>1. PICK kk \in ItemKeys : InCharge(climber[kk], kk, inner, k, d, st) BY DEF Climbing, Charged
<1>2. Active(climber[kk]) BY <1>1 DEF InCharge, Healthy
<1>3. climber[kk].at = "end" BY ItemKeyFacts DEF Shape
<1> QED BY <1>2, <1>3 DEF Active

LEMMA DoneIsSequential == ASSUME Shape, Inv PROVE ResultIsSequential
<1> SUFFICES ASSUME phase = "done", NEW n \in Inner, Touched(n)
             PROVE  /\ inner[n].current /\ ~inner[n].torn
                    /\ inner[n].hash = Below(Result, n)
                    /\ \A i \in 0 .. 13 :
                           inner[n].internals[i] = InternalContent(Result, n, i)
    BY DEF ResultIsSequential
<1>0. Climbing BY DEF Inv
<1>1. PICK k \in ItemKeys : n \in Prefixes(k) BY TouchedFacts
<1>2. Len(n) \in 0 .. Levels - 1 /\ n = P(k, Len(n)) BY <1>1, TouchedPath
<1>3. inner[n] # Null BY <1>2, Copied
<1>4. Final(n, inner[n]) BY <1>0, <1>3 DEF Climbing
<1>5. inner[n].current
    <2>1. 4 \in 1 .. 4 OBVIOUS
    <2>2. ~Missing(inner, k, Len(n), 4) BY <1>0, <1>2, <2>1, NothingMissing
    <2> QED BY <1>2, <2>2 DEF Missing
<1>6. ASSUME NEW i \in 0 .. 13 PROVE inner[n].internals[i] = InternalContent(Result, n, i)
    <2> SUFFICES ASSUME inner[n].internals[i] = Null, Dirty(n, i) PROVE FALSE
        BY <1>4 DEF Final
    <2>1. PICK q \in ItemKeys : n \in Prefixes(q) /\ i \in leafInternalMap[q[Len(n) + 1]]
        BY DEF Dirty
    <2>2. q \in Keys /\ n = P(q, Len(n)) BY <2>1, TouchedPath
    <2>3. q[Len(n) + 1] \in Nibbles BY <1>2, <2>2, DepthFacts
    <2>4. PICK st \in 1 .. 3 : i = Slot(st, q[Len(n) + 1])
        <3>1. 1 \in 1 .. 3 /\ 2 \in 1 .. 3 /\ 3 \in 1 .. 3 OBVIOUS
        <3> QED BY <2>1, <2>3, <3>1, MapIsSlots
    <2>5. st \in 1 .. 4 /\ st # 4 OBVIOUS
    <2>6. ~Missing(inner, q, Len(n), st) BY <1>0, <1>2, <2>5, NothingMissing
    <2> QED BY <2>2, <2>4, <2>5, <2>6 DEF Missing
<1> QED BY <1>4, <1>5, <1>6 DEF Final

\* The call does what setting its items one by one does: when it returns
\* without an error, the root and every node on the path of an item carry the
\* new version, and their hashes and internals are those of the new content.
\* No climber stops that nobody has taken over from.
THEOREM MultiSetIsSequential ==
    ASSUME DistinctKeys, Prior = {} PROVE Spec => []ResultIsSequential
<1>1. Shape /\ Inv => ResultIsSequential BY DoneIsSequential
<1> QED BY <1>1, InvHolds, PTL

\* No hash that a climber sets, at any time and in any order of the climbers,
\* has to be corrected later: setInternal, newVersion.
THEOREM HashesAreFinal ==
    ASSUME DistinctKeys, Prior = {} PROVE Spec => []PublishedIsFinal
<1>1. Shape /\ Inv => PublishedIsFinal
    BY DEF Inv, Climbing, Final, PublishedIsFinal
<1> QED BY <1>1, InvHolds, PTL
=============================================================================
