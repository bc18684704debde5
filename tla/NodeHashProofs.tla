--------------------------- MODULE NodeHashProofs ---------------------------
(***************************************************************************)
(* The hashes of the tree are those of a Merkle tree, for any hash         *)
(* function, any keys of one length and any sequence of sets, resets,      *)
(* commits and rollbacks.                                                  *)
(***************************************************************************)
EXTENDS NodeHash, VersionListProofs

----------------------------------------------------------------------------
(* The recursive functions of the model exist.                             *)

\* f is nilHashes on a .. m.
NilChain(f, a, m) ==
    /\ f = [d \in a .. m |-> f[d]]
    /\ f[m] = NilLeaf
    /\ \A d \in a .. m : d # m => f[d] = Hash(f[d + 1], f[d + 1])

LEMMA NilChainExists ==
    ASSUME NEW m \in Nat PROVE \E f : NilChain(f, 0, m)
<1> DEFINE Good(i) == \E f : NilChain(f, m - i, m)
           Bad == {i \in Nat : i <= m /\ ~Good(i)}
<1>1. Good(0)
    <2> DEFINE f == [d \in m .. m |-> NilLeaf]
    <2>1. NilChain(f, m, m) BY DEF NilChain
    <2> QED BY <2>1
<1>2. ASSUME NEW i \in Nat, i + 1 <= m, Good(i) PROVE Good(i + 1)
    <2>1. PICK f : NilChain(f, m - i, m) BY <1>2
    <2> DEFINE g == [d \in m - (i + 1) .. m |->
                        IF d = m - (i + 1) THEN Hash(f[m - i], f[m - i]) ELSE f[d]]
    <2>2. /\ \A d \in m - (i + 1) .. m : d # m - (i + 1) => d \in m - i .. m /\ g[d] = f[d]
          /\ g[m - (i + 1)] = Hash(f[m - i], f[m - i])
        BY <1>2
    <2>3. \A d \in m - (i + 1) .. m : d # m =>
              d + 1 \in m - (i + 1) .. m /\ d + 1 # m - (i + 1)
        BY <1>2
    <2>4. g = [d \in m - (i + 1) .. m |-> g[d]] OBVIOUS
    <2>5. m \in m - (i + 1) .. m /\ m # m - (i + 1) BY <1>2
    <2>6. (m - (i + 1)) + 1 = m - i BY <1>2
    <2> HIDE DEF g
    <2>7. ASSUME NEW d \in m - (i + 1) .. m, d # m PROVE g[d] = Hash(g[d + 1], g[d + 1])
        <3>1. g[d + 1] = f[d + 1] BY <2>2, <2>3, <2>7
        <3>2. CASE d = m - (i + 1) BY <3>1, <3>2, <2>2, <2>6
        <3>3. CASE d # m - (i + 1) BY <3>1, <3>3, <2>1, <2>2, <2>7 DEF NilChain
        <3> QED BY <3>2, <3>3
    <2>8. g[m] = NilLeaf BY <2>1, <2>2, <2>5 DEF NilChain
    <2> QED BY <2>4, <2>7, <2>8 DEF NilChain
<1>3. Bad = {}
    <2> SUFFICES ASSUME Bad # {} PROVE FALSE OBVIOUS
    <2>1. Bad \in SUBSET Nat OBVIOUS
    <2> HIDE DEF Good
    <2>2. PICK i \in Bad : \A j \in Bad : i <= j BY <2>1, LeastNatural
    <2>3. i # 0 BY <1>1, <2>2
    <2>4. i - 1 \in Nat /\ (i - 1) + 1 = i /\ i <= m /\ ~Good(i) BY <2>2, <2>3
    <2>5. i - 1 \notin Bad BY <2>2, <2>4
    <2>6. Good(i - 1) BY <2>4, <2>5
    <2> QED BY <1>2, <2>4, <2>6
<1>4. Good(m)
    <2> HIDE DEF Good
    <2> QED BY <1>3
<1>5. m - m = 0 OBVIOUS
<1> QED BY <1>4, <1>5

LEMMA LevelsType == Levels \in Nat /\ Levels > 0 /\ \A k \in Keys : Len(k) = Levels
BY NodeHashAssumption DEF Levels

\* constructNilHashes: one level of empty subtrees hashes to the next.
LEMMA NilHashes ==
    /\ nilHashes[4 * Levels] = NilLeaf
    /\ \A d \in 0 .. (4 * Levels) : d # 4 * Levels =>
           nilHashes[d] = Hash(nilHashes[d + 1], nilHashes[d + 1])
<1> DEFINE m == 4 * Levels
<1>0. m \in Nat BY LevelsType
<1> HIDE DEF m
<1>1. PICK f : NilChain(f, 0, m) BY <1>0, NilChainExists
<1>2. f = [d \in 0 .. m |-> IF d = m THEN NilLeaf ELSE Hash(f[d + 1], f[d + 1])]
    BY <1>1, <1>0 DEF NilChain
<1> DEFINE g == CHOOSE g : g = [d \in 0 .. m |-> IF d = m THEN NilLeaf ELSE Hash(g[d + 1], g[d + 1])]
<1>3. g = [d \in 0 .. m |-> IF d = m THEN NilLeaf ELSE Hash(g[d + 1], g[d + 1])]
    BY <1>2
<1>4. nilHashes = g BY DEF nilHashes, m
<1> HIDE DEF g
<1>5. m \in 0 .. m BY <1>0
<1>6. g[m] = NilLeaf BY <1>3, <1>5
<1>7. ASSUME NEW d \in 0 .. m, d # m PROVE g[d] = Hash(g[d + 1], g[d + 1])
    BY <1>3, <1>7
<1> QED BY <1>4, <1>6, <1>7 DEF m

----------------------------------------------------------------------------
(* The slots of a node.                                                    *)

\* ComputeInternalHash sets every slot to the hash of what is below it.
LEMMA ComputedSlots ==
    ASSUME NEW vs, NEW n
    PROVE  LET s == ComputeInternalHash(vs, n)
           IN  /\ s = [i \in Slots |-> s[i]]
               /\ \A i \in 6 .. 13 :
                      s[i] = Hash(ChildHash(vs, n, 2 * (i - 6)), ChildHash(vs, n, 2 * (i - 6) + 1))
               /\ \A i \in 0 .. 5 : s[i] = Hash(s[2 * i + 2], s[2 * i + 3])
<1> DEFINE Bottom(i) == Hash(ChildHash(vs, n, 2 * (i - 6)), ChildHash(vs, n, 2 * (i - 6) + 1))
           Middle(i) == Hash(Bottom(2 * i + 2), Bottom(2 * i + 3))
           Top(i) == Hash(Middle(2 * i + 2), Middle(2 * i + 3))
           f == [i \in Slots |-> IF i >= 6 THEN Bottom(i) ELSE IF i >= 2 THEN Middle(i) ELSE Top(i)]
           s == CHOOSE s : s = [i \in Slots |-> IF i >= 6 THEN Bottom(i)
                                                ELSE Hash(s[2 * i + 2], s[2 * i + 3])]
<1>0. s = ComputeInternalHash(vs, n) BY DEF ComputeInternalHash
<1> HIDE DEF Bottom
<1>1. \A i \in Slots : i < 6 => 2 * i + 2 \in Slots /\ 2 * i + 3 \in Slots BY DEF Slots
<1>2. ASSUME NEW i \in Slots
      PROVE  f[i] = IF i >= 6 THEN Bottom(i) ELSE Hash(f[2 * i + 2], f[2 * i + 3])
    <2>1. CASE i >= 6 BY <2>1
    <2>2. CASE i \in 2 .. 5
        <3>1. 2 * i + 2 >= 6 /\ 2 * i + 3 >= 6 /\ ~(i >= 6) /\ i >= 2 BY <2>2
        <3>2. 2 * i + 2 \in Slots /\ 2 * i + 3 \in Slots BY <1>1, <2>2
        <3>3. f[2 * i + 2] = Bottom(2 * i + 2) /\ f[2 * i + 3] = Bottom(2 * i + 3) BY <3>1, <3>2
        <3>4. f[i] = Middle(i) BY <3>1
        <3> QED BY <3>1, <3>3, <3>4
    <2>3. CASE i \in 0 .. 1
        <3>1. /\ 2 * i + 2 >= 2 /\ 2 * i + 3 >= 2 /\ ~(i >= 6) /\ ~(i >= 2)
              /\ ~(2 * i + 2 >= 6) /\ ~(2 * i + 3 >= 6)
            BY <2>3
        <3>2. 2 * i + 2 \in Slots /\ 2 * i + 3 \in Slots BY <1>1, <2>3
        <3> HIDE DEF Middle
        <3>3. f[2 * i + 2] = Middle(2 * i + 2) /\ f[2 * i + 3] = Middle(2 * i + 3) BY <3>1, <3>2
        <3>4. f[i] = Top(i) BY <3>1
        <3> QED BY <3>1, <3>3, <3>4
    <2> QED BY <2>1, <2>2, <2>3 DEF Slots
<1>3. f = [i \in Slots |-> IF i >= 6 THEN Bottom(i) ELSE Hash(f[2 * i + 2], f[2 * i + 3])]
    <2>1. f = [i \in Slots |-> f[i]] OBVIOUS
    <2> HIDE DEF f
    <2> QED BY <1>2, <2>1
<1>4. s = [i \in Slots |-> IF i >= 6 THEN Bottom(i) ELSE Hash(s[2 * i + 2], s[2 * i + 3])]
    <2> HIDE DEF f
    <2> QED BY <1>3
<1> HIDE DEF s
<1>5. s = [i \in Slots |-> s[i]] BY <1>4
<1>6. \A i \in 6 .. 13 : s[i] = Bottom(i)
    <2>1. \A i \in 6 .. 13 : i \in Slots /\ i >= 6 BY DEF Slots
    <2> QED BY <1>4, <2>1
<1>7. \A i \in 0 .. 5 : s[i] = Hash(s[2 * i + 2], s[2 * i + 3])
    <2>1. \A i \in 0 .. 5 : i \in Slots /\ ~(i >= 6) BY DEF Slots
    <2> QED BY <1>4, <2>1
<1> QED BY <1>0, <1>5, <1>6, <1>7 DEF Bottom

\* The slots above a child.
Above(nibble) == {6 + nibble \div 2, 2 + nibble \div 4, nibble \div 8}

\* Slot i is the hash of what is below it.
SlotOK(vs, ins, n, i) == ins[n][i] = Hash(Below(vs, ins, n, i, 0), Below(vs, ins, n, i, 1))

\* The slots above a child, the pairs they are in, and the slots and children
\* that are read by no slot but those.
LEMMA AboveFacts ==
    ASSUME NEW b \in 0 .. 15
    PROVE  /\ 6 + b \div 2 \in 6 .. 13 /\ 2 + b \div 4 \in 2 .. 5 /\ b \div 8 \in 0 .. 1
           /\ Flip(b) \in 0 .. 15 /\ Flip(b) # b
           /\ Flip(6 + b \div 2) \in 6 .. 13 /\ Flip(6 + b \div 2) # 6 + b \div 2
           /\ Flip(2 + b \div 4) \in 2 .. 5 /\ Flip(2 + b \div 4) # 2 + b \div 4
           /\ \A i \in Slots \ Above(b), s \in {0, 1} :
                  /\ i >= 6 => 2 * (i - 6) + s # b
                  /\ i < 6 => 2 * i + 2 + s \in Slots \ Above(b)
BY DEF Flip, Above, Slots

\* The two members of a pair, in order.
LEMMA PairFacts ==
    ASSUME NEW b \in 0 .. 15, NEW f
    PROVE  /\ Pair(b, f[b], f[Flip(b)]) = Hash(f[2 * (b \div 2)], f[2 * (b \div 2) + 1])
           /\ LET i == 6 + b \div 2
                  j == 2 + b \div 4
              IN  /\ 2 * (i - 6) = 2 * (b \div 2)
                  /\ Pair(b \div 2, f[i], f[Flip(i)]) = Hash(f[2 * j + 2], f[2 * j + 3])
                  /\ Pair(b \div 4, f[j], f[Flip(j)])
                         = Hash(f[2 * (b \div 8) + 2], f[2 * (b \div 8) + 3])
<1>1. b % 2 = 0 => b = 2 * (b \div 2) /\ Flip(b) = 2 * (b \div 2) + 1 BY DEF Flip
<1>2. b % 2 # 0 => b = 2 * (b \div 2) + 1 /\ Flip(b) = 2 * (b \div 2) BY DEF Flip
<1> DEFINE i == 6 + b \div 2
           j == 2 + b \div 4
<1>3. (b \div 2) % 2 = 0 => i = 2 * j + 2 /\ Flip(i) = 2 * j + 3 BY DEF Flip
<1>4. (b \div 2) % 2 # 0 => i = 2 * j + 3 /\ Flip(i) = 2 * j + 2 BY DEF Flip
<1>5. (b \div 4) % 2 = 0 => j = 2 * (b \div 8) + 2 /\ Flip(j) = 2 * (b \div 8) + 3 BY DEF Flip
<1>6. (b \div 4) % 2 # 0 => j = 2 * (b \div 8) + 3 /\ Flip(j) = 2 * (b \div 8) + 2 BY DEF Flip
<1>7. Pair(b, f[b], f[Flip(b)]) = Hash(f[2 * (b \div 2)], f[2 * (b \div 2) + 1])
    BY <1>1, <1>2 DEF Pair
<1>8. 2 * (i - 6) = 2 * (b \div 2) OBVIOUS
<1> HIDE DEF i, j
<1>9. Pair(b \div 2, f[i], f[Flip(i)]) = Hash(f[2 * j + 2], f[2 * j + 3])
    BY <1>3, <1>4 DEF Pair
<1>10. Pair(b \div 4, f[j], f[Flip(j)]) = Hash(f[2 * (b \div 8) + 2], f[2 * (b \div 8) + 3])
    BY <1>5, <1>6 DEF Pair
<1> QED BY <1>7, <1>8, <1>9, <1>10 DEF i, j

----------------------------------------------------------------------------
(* The nodes of the tree.                                                  *)

Up(n) == SubSeq(n, 1, Len(n) - 1)

Last(n) == n[Len(n)]

LEMMA NodeType ==
    ASSUME NEW n \in Nodes
    PROVE  /\ n \in Seq(0 .. 15) /\ Len(n) \in 0 .. Levels
           /\ \A i \in 0 .. Len(n) : SubSeq(n, 1, i) \in Nodes /\ Len(SubSeq(n, 1, i)) = i
           /\ n \in Inner <=> Len(n) < Levels
<1>0. PICK k \in Keys : n \in {SubSeq(k, 1, i) : i \in 0 .. Len(k)} BY DEF Nodes
<1>1. PICK i \in 0 .. Len(k) : n = SubSeq(k, 1, i) BY <1>0
<1>2. k \in Seq(0 .. 15) /\ Len(k) = Levels /\ Levels \in Nat BY LevelsType, NodeHashAssumption
<1>3. n \in Seq(0 .. 15) /\ Len(n) = i BY <1>1, <1>2
<1>4. ASSUME NEW j \in 0 .. Len(n) PROVE SubSeq(n, 1, j) \in Nodes /\ Len(SubSeq(n, 1, j)) = j
    <2>1. SubSeq(n, 1, j) = SubSeq(k, 1, j) BY <1>1, <1>2, <1>3
    <2>2. j \in 0 .. Len(k) BY <1>2, <1>3
    <2> QED BY <1>3, <2>1, <2>2 DEF Nodes
<1>5. n \in Keys <=> Len(n) = Levels
    <2>1. i = Len(k) => n = k BY <1>1, <1>2
    <2> QED BY <1>2, <1>3, <2>1, LevelsType
<1> QED BY <1>2, <1>3, <1>4, <1>5 DEF Inner

LEMMA RootType == RootNode \in Inner /\ RootNode \in Nodes /\ Len(RootNode) = 0
<1>1. PICK k \in Keys : TRUE BY NodeHashAssumption
<1>2. k \in Seq(0 .. 15) /\ Len(k) = Levels /\ Levels > 0 /\ Levels \in Nat
    BY LevelsType, NodeHashAssumption
<1>3. SubSeq(k, 1, 0) = <<>> /\ 0 \in 0 .. Len(k) BY <1>2
<1>4. RootNode \in Nodes BY <1>3 DEF Nodes, RootNode
<1> QED BY <1>2, <1>4, NodeType DEF RootNode

\* A node other than the root is a child of an inner node.
LEMMA UpType ==
    ASSUME NEW n \in Nodes, n # RootNode
    PROVE  /\ Up(n) \in Inner /\ Last(n) \in 0 .. 15 /\ Append(Up(n), Last(n)) = n
           /\ Len(n) \in Nat /\ Len(n) > 0 /\ Len(Up(n)) = Len(n) - 1
<1>1. n \in Seq(0 .. 15) /\ Len(n) \in 0 .. Levels /\ Levels \in Nat BY NodeType, LevelsType
<1>2. Len(n) > 0 BY <1>1 DEF RootNode
<1>3. Len(n) - 1 \in 0 .. Len(n) BY <1>1, <1>2
<1>4. Up(n) \in Nodes /\ Len(Up(n)) = Len(n) - 1 BY <1>3, NodeType DEF Up
<1>5. Up(n) \in Inner BY <1>1, <1>2, <1>4, NodeType
<1> QED BY <1>1, <1>2, <1>4, <1>5 DEF Up, Last

\* The children of an inner node.
LEMMA ChildType ==
    ASSUME NEW n \in Inner, NEW b \in 0 .. 15
    PROVE  LET c == Append(n, b)
           IN  /\ c # RootNode /\ Up(c) = n /\ Last(c) = b /\ Len(c) = Len(n) + 1
               /\ Len(n) \in Nat /\ Len(n) < Levels /\ n \in Nodes
               /\ c \in Nodes => \A i \in 0 .. Len(n) : SubSeq(c, 1, i) = SubSeq(n, 1, i)
<1>1. n \in Nodes BY DEF Inner
<1>2. n \in Seq(0 .. 15) /\ Len(n) \in Nat /\ Len(n) < Levels BY <1>1, NodeType
<1> QED BY <1>1, <1>2 DEF Up, Last, RootNode

----------------------------------------------------------------------------
(* Version lists.                                                          *)

IsList(vs) == \E H : vs \in Seq(VersionInfo(H))

Vers(vs) == {vs[i].ver : i \in 1 .. Len(vs)}

Upto(vs, v) == \A i \in 1 .. Len(vs) : vs[i].ver <= v

\* vs is the saved list us, or us with an entry of block b.
Edit(vs, us, b) == vs = us \/ \E h : vs = Append(us, Info(b, h))

LEMMA ListFacts ==
    ASSUME NEW vs, IsList(vs)
    PROVE  Len(vs) \in Nat /\ \A i \in 1 .. Len(vs) : vs[i].ver \in Nat
<1>1. PICK H : vs \in Seq(VersionInfo(H)) BY DEF IsList
<1> QED BY <1>1, EntryType

\* newVersion twice in one block.
LEMMA AppendLatest ==
    ASSUME NEW us, IsList(us), Sorted(us), NEW v \in Nat, Upto(us, v),
           NEW b \in Nat, b > v, NEW h
    PROVE  /\ LatestVersion(Append(us, Info(b, h))) = b
           /\ \A g : NewVersion(Append(us, Info(b, h)), Info(b, g)) = Append(us, Info(b, g))
<1> DEFINE x == Info(b, h)
           vs == Append(us, x)
<1>1. PICK G : us \in Seq(VersionInfo(G)) BY DEF IsList
<1> DEFINE H == G \cup {h}
<1>2. us \in Seq(VersionInfo(H)) /\ x \in VersionInfo(H)
    <2>1. VersionInfo(G) \subseteq VersionInfo(H) BY DEF VersionInfo
    <2>2. x \in VersionInfo(H) BY DEF VersionInfo, Info
    <2> HIDE DEF H
    <2> QED BY <1>1, <2>1, <2>2
<1>3. x.ver = b /\ x.hash = h BY DEF Info
<1> HIDE DEF x, H
<1>4. /\ vs \in Seq(VersionInfo(H)) /\ Len(us) \in Nat /\ Len(vs) = Len(us) + 1
      /\ vs[Len(vs)] = x /\ \A i \in 1 .. Len(us) : vs[i] = us[i]
    BY <1>2
<1>5. \A i \in 1 .. Len(us) : us[i].ver \in Nat /\ us[i].ver <= v /\ us[i].ver < b
    BY <1>2, EntryType DEF Upto
<1> HIDE DEF vs
<1>6. vs # <<>> BY <1>4
<1>7. LatestVersion(vs) = b BY <1>3, <1>4, <1>6 DEF LatestVersion
<1>8. ASSUME NEW g PROVE NewVersion(vs, Info(b, g)) = Append(us, Info(b, g))
    <2> DEFINE y == Info(b, g)
               L == H \cup {g}
    <2>1. us \in Seq(VersionInfo(L)) /\ x \in VersionInfo(L) /\ y \in VersionInfo(L)
        <3>1. VersionInfo(H) \subseteq VersionInfo(L) BY DEF VersionInfo
        <3>2. y \in VersionInfo(L) BY DEF VersionInfo, Info
        <3> HIDE DEF L, y
        <3> QED BY <1>2, <3>1, <3>2
    <2>2. y.ver = b BY DEF Info
    <2> HIDE DEF y, L
    <2>3. [Append(us, x) EXCEPT ![Len(Append(us, x))] = y] = Append(us, y)
        BY <2>1, OverwriteLast
    <2>4. NewVersion(vs, y) = [vs EXCEPT ![Len(vs)] = y]
        BY <1>3, <1>4, <1>6, <2>2 DEF NewVersion
    <2> QED BY <2>3, <2>4 DEF vs, y
<1> QED BY <1>7, <1>8 DEF vs, x

\* A list with one more entry, of a later version.
Appended(vs, us, b, h, nil) ==
    /\ IsList(vs) /\ Sorted(vs) /\ Upto(vs, b) /\ vs # us
    /\ Vers(vs) = Vers(us) \cup {b}
    /\ LatestHash(vs, nil) = h
    /\ \A w \in Nat : HashAt(vs, w, nil) = IF w < b THEN HashAt(us, w, nil) ELSE h
    /\ NewVersion(us, Info(b, h)) = vs

LEMMA AppendFacts ==
    ASSUME NEW us, IsList(us), Sorted(us), NEW v \in Nat, Upto(us, v),
           NEW b \in Nat, b > v, NEW h, NEW nil
    PROVE  Appended(Append(us, Info(b, h)), us, b, h, nil)
<1> DEFINE x == Info(b, h)
           vs == Append(us, x)
<1>1. PICK G : us \in Seq(VersionInfo(G)) BY DEF IsList
<1> DEFINE H == G \cup {h}
<1>2. us \in Seq(VersionInfo(H)) /\ x \in VersionInfo(H)
    <2>1. VersionInfo(G) \subseteq VersionInfo(H) BY DEF VersionInfo
    <2>2. x \in VersionInfo(H) BY DEF VersionInfo, Info
    <2> HIDE DEF H
    <2> QED BY <1>1, <2>1, <2>2
<1>3. x.ver = b /\ x.hash = h BY DEF Info
<1> HIDE DEF x, H
<1>4. /\ vs \in Seq(VersionInfo(H)) /\ Len(us) \in Nat /\ Len(vs) = Len(us) + 1
      /\ vs[Len(vs)] = x /\ \A i \in 1 .. Len(us) : vs[i] = us[i]
    BY <1>2
<1>5. \A i \in 1 .. Len(us) : us[i].ver \in Nat /\ us[i].ver <= v /\ us[i].ver < b
    BY <1>2, EntryType DEF Upto
<1>6. /\ Sorted(vs)
      /\ \A w \in Int : w < b => HashAt(vs, w, nil) = HashAt(us, w, nil)
    BY <1>2, <1>3, <1>5, AppendKeepsReads
<1> HIDE DEF vs
<1>7. IsList(vs) BY <1>4 DEF IsList
<1>8. Upto(vs, b) BY <1>3, <1>4, <1>5 DEF Upto
<1>9. vs # us BY <1>4
<1>10. Vers(vs) = Vers(us) \cup {b}
    <2>1. \A i \in 1 .. Len(vs) : i \in 1 .. Len(us) \/ i = Len(vs) BY <1>4
    <2>2. \A i \in 1 .. Len(us) : i \in 1 .. Len(vs) BY <1>4
    <2>3. Len(vs) \in 1 .. Len(vs) BY <1>4
    <2> QED BY <1>3, <1>4, <2>1, <2>2, <2>3 DEF Vers
<1>11. vs # <<>> BY <1>4
<1>12. LatestHash(vs, nil) = h
    BY <1>3, <1>4, <1>11 DEF LatestHash
<1>13. ASSUME NEW w \in Nat PROVE HashAt(vs, w, nil) = IF w < b THEN HashAt(us, w, nil) ELSE h
    <2>1. CASE w < b BY <1>6, <2>1
    <2>2. CASE ~(w < b)
        <3>1. \A i \in 1 .. Len(vs) : vs[i].ver <= w
            BY <2>2, <1>3, <1>4, <1>5
        <3>2. HashAt(vs, w, nil) = LatestHash(vs, nil) BY <1>4, <1>6, <3>1, LatestIsVisible
        <3> QED BY <2>2, <3>2, <1>12
    <2> QED BY <2>1, <2>2
<1>14. NewVersion(us, x) = vs
    <2>1. us # <<>> => us[Len(us)].ver # x.ver
        <3> SUFFICES ASSUME us # <<>> PROVE us[Len(us)].ver # b BY <1>3
        <3>1. Len(us) \in 1 .. Len(us) BY <1>2
        <3> QED BY <1>5, <3>1
    <2> QED BY <2>1 DEF NewVersion, vs
<1> QED BY <1>6, <1>7, <1>8, <1>9, <1>10, <1>12, <1>13, <1>14 DEF Appended, vs, x

----------------------------------------------------------------------------
(* The inductive invariant.                                                *)

\* The hash of a node with the children's hashes f.
Fold16(f) ==
    LET Two(i) == Hash(f[i], f[i + 1])
        Four(i) == Hash(Two(i), Two(i + 2))
        Eight(i) == Hash(Four(i), Four(i + 4))
    IN  Hash(Eight(0), Eight(8))

\* The hashes of the children of n now, and as they were in version w.
ChildHashes(vs, n) == [b \in 0 .. 15 |-> ChildHash(vs, n, b)]

ChildHashesAt(vs, n, w) ==
    [b \in 0 .. 15 |-> LET c == Append(n, b)
                       IN  IF c \in Nodes THEN HashAt(vs[c], w, NilHash(c))
                           ELSE nilHashes[4 * Len(n) + 4]]

\* A node had in every version the hash of what its children had then. This
\* is what makes the slots agree that Rollback computes.
History(vs, n) ==
    \A w \in Nat : HashAt(vs[n], w, NilHash(n)) = Fold16(ChildHashesAt(vs, n, w))

\* Lists of a tree with latest version v: a version of a node is one of its
\* parent, so Rollback may leave a node that drops nothing.
Listed(vs, v) ==
    /\ vs = [n \in Nodes |-> vs[n]]
    /\ \A n \in Nodes :
           /\ IsList(vs[n]) /\ Sorted(vs[n]) /\ Upto(vs[n], v)
           /\ n # RootNode => Vers(vs[n]) \subseteq Vers(vs[Up(n)])

HasSlots(ins) == ins = [n \in Inner |-> [i \in Slots |-> ins[n][i]]]

\* The next node SetWithVersion comes to, when it has hashed node c.
Due(c, n) == c # RootNode /\ n = Up(c)

\* The working tree vs: edits of block b over the saved tree us, in which v is
\* the latest version. SetWithVersion has come to node c.
EditedIn(b, vs, us, v, c) ==
    /\ b > v
    /\ \A n \in Nodes : Edit(vs[n], us[n], b)
    /\ \A n \in Nodes \ {RootNode} : vs[n] # us[n] /\ n # c => vs[Up(n)] # us[Up(n)]
    /\ c # RootNode => vs[c] # us[c]

\* Every slot is right, but for those above node c, which has just been hashed.
MerkleBut(vs, ins, c) ==
    \A n \in Inner :
        /\ \A i \in Slots : SlotOK(vs, ins, n, i) \/ (Due(c, n) /\ i \in Above(Last(c)))
        /\ ~Due(c, n) => Root(vs, n) = Hash(ins[n][0], ins[n][1])

Inv ==
    /\ version \in Nat /\ climbing \in Nodes
    /\ versions = [n \in Nodes |-> versions[n]]
    /\ HasSlots(internals) /\ HasSlots(savedInternals)
    /\ Listed(savedVersions, version)
    /\ \E b \in Nat : EditedIn(b, versions, savedVersions, version, climbing)
    /\ MerkleBut(versions, internals, climbing)
    /\ \A n \in Inner : Merkle(savedVersions, savedInternals, n) /\ History(savedVersions, n)

----------------------------------------------------------------------------
(* Slots and hashes of one node.                                           *)

LEMMA BelowFacts ==
    ASSUME NEW vs, NEW ins, NEW n, NEW s \in {0, 1}
    PROVE  /\ \A i \in 6 .. 13 : Below(vs, ins, n, i, s) = ChildHash(vs, n, 2 * (i - 6) + s)
           /\ \A i \in 0 .. 5 : Below(vs, ins, n, i, s) = ins[n][2 * i + 2 + s]
BY DEF Below

\* Every slot right: the node's hash is that of its children's.
LEMMA SlotsFold ==
    ASSUME NEW vs, NEW ins, NEW n, \A i \in Slots : SlotOK(vs, ins, n, i)
    PROVE  Hash(ins[n][0], ins[n][1]) = Fold16(ChildHashes(vs, n))
<1> DEFINE f == ChildHashes(vs, n)
           s == ins[n]
<1>1. /\ s[6] = Hash(f[0], f[1]) /\ s[7] = Hash(f[2], f[3])
      /\ s[8] = Hash(f[4], f[5]) /\ s[9] = Hash(f[6], f[7])
      /\ s[10] = Hash(f[8], f[9]) /\ s[11] = Hash(f[10], f[11])
      /\ s[12] = Hash(f[12], f[13]) /\ s[13] = Hash(f[14], f[15])
    <2>1. ASSUME NEW i \in 6 .. 13 PROVE s[i] = Hash(f[2 * (i - 6)], f[2 * (i - 6) + 1])
        <3>1. SlotOK(vs, ins, n, i) BY DEF Slots
        <3>2. 2 * (i - 6) \in 0 .. 15 /\ 2 * (i - 6) + 1 \in 0 .. 15 /\ 2 * (i - 6) + 0 = 2 * (i - 6)
            OBVIOUS
        <3>3. s[i] = Hash(ChildHash(vs, n, 2 * (i - 6) + 0), ChildHash(vs, n, 2 * (i - 6) + 1))
            BY <3>1, BelowFacts DEF SlotOK
        <3> QED BY <3>2, <3>3 DEF ChildHashes
    <2> HIDE DEF f, s
    <2>2. s[6] = Hash(f[0], f[1]) BY <2>1
    <2>3. s[7] = Hash(f[2], f[3]) BY <2>1
    <2>4. s[8] = Hash(f[4], f[5]) BY <2>1
    <2>5. s[9] = Hash(f[6], f[7]) BY <2>1
    <2>6. s[10] = Hash(f[8], f[9]) BY <2>1
    <2>7. s[11] = Hash(f[10], f[11]) BY <2>1
    <2>8. s[12] = Hash(f[12], f[13]) BY <2>1
    <2>9. s[13] = Hash(f[14], f[15]) BY <2>1
    <2> QED BY <2>2, <2>3, <2>4, <2>5, <2>6, <2>7, <2>8, <2>9
<1>2. /\ s[0] = Hash(s[2], s[3]) /\ s[1] = Hash(s[4], s[5])
      /\ s[2] = Hash(s[6], s[7]) /\ s[3] = Hash(s[8], s[9])
      /\ s[4] = Hash(s[10], s[11]) /\ s[5] = Hash(s[12], s[13])
    <2>1. ASSUME NEW i \in 0 .. 5 PROVE s[i] = Hash(s[2 * i + 2], s[2 * i + 3])
        <3>1. SlotOK(vs, ins, n, i) BY DEF Slots
        <3>2. 2 * i + 2 + 0 = 2 * i + 2 /\ 2 * i + 2 + 1 = 2 * i + 3 OBVIOUS
        <3> QED BY <3>1, <3>2, BelowFacts DEF SlotOK
    <2> HIDE DEF s
    <2> QED BY <2>1
<1> HIDE DEF f, s
<1>3. Hash(s[0], s[1]) = Fold16(f) BY <1>1, <1>2 DEF Fold16
<1> QED BY <1>3 DEF f, s

LEMMA ComputedOK ==
    ASSUME NEW vs, NEW ins, NEW n, ins[n] = ComputeInternalHash(vs, n)
    PROVE  \A i \in Slots : SlotOK(vs, ins, n, i)
<1> DEFINE s == ComputeInternalHash(vs, n)
<1>1. /\ \A i \in 6 .. 13 :
             s[i] = Hash(ChildHash(vs, n, 2 * (i - 6)), ChildHash(vs, n, 2 * (i - 6) + 1))
      /\ \A i \in 0 .. 5 : s[i] = Hash(s[2 * i + 2], s[2 * i + 3])
    BY ComputedSlots
<1> HIDE DEF s
<1>0. ins[n] = s BY DEF s
<1>2. ASSUME NEW i \in 6 .. 13 PROVE SlotOK(vs, ins, n, i)
    <2>1. 2 * (i - 6) + 0 = 2 * (i - 6) OBVIOUS
    <2> QED BY <1>0, <1>1, <2>1, BelowFacts DEF SlotOK
<1>3. ASSUME NEW i \in 0 .. 5 PROVE SlotOK(vs, ins, n, i)
    <2>1. 2 * i + 2 + 0 = 2 * i + 2 /\ 2 * i + 2 + 1 = 2 * i + 3 OBVIOUS
    <2> QED BY <1>0, <1>1, <2>1, BelowFacts DEF SlotOK
<1> QED BY <1>2, <1>3 DEF Slots

\* A slot that is not above a child does not depend on it.
LEMMA SlotFrame ==
    ASSUME NEW vs, NEW us, NEW ins, NEW jns, NEW n, NEW x \in 0 .. 15,
           \A b \in 0 .. 15 : b # x => ChildHash(us, n, b) = ChildHash(vs, n, b),
           jns[n] = ins[n], NEW i \in Slots \ Above(x), SlotOK(vs, ins, n, i)
    PROVE  SlotOK(us, jns, n, i)
<1>1. ASSUME NEW s \in {0, 1} PROVE Below(us, jns, n, i, s) = Below(vs, ins, n, i, s)
    <2>1. CASE i \in 6 .. 13
        <3>1. 2 * (i - 6) + s \in 0 .. 15 BY <2>1
        <3>2. 2 * (i - 6) + s # x BY <2>1, AboveFacts
        <3> QED BY <2>1, <3>1, <3>2, BelowFacts
    <2>2. CASE i \in 0 .. 5 BY <2>2, BelowFacts
    <2> QED BY <2>1, <2>2 DEF Slots
<1> QED BY <1>1 DEF SlotOK

LEMMA NodeFrame ==
    ASSUME NEW vs, NEW us, NEW ins, NEW jns, NEW n,
           \A b \in 0 .. 15 : ChildHash(us, n, b) = ChildHash(vs, n, b),
           jns[n] = ins[n], NEW i \in Slots, SlotOK(vs, ins, n, i)
    PROVE  SlotOK(us, jns, n, i)
<1>1. ASSUME NEW s \in {0, 1} PROVE Below(us, jns, n, i, s) = Below(vs, ins, n, i, s)
    <2>1. CASE i \in 6 .. 13
        <3>1. 2 * (i - 6) + s \in 0 .. 15 BY <2>1
        <3> QED BY <2>1, <3>1, BelowFacts
    <2>2. CASE i \in 0 .. 5 BY <2>2, BelowFacts
    <2> QED BY <2>1, <2>2 DEF Slots
<1> QED BY <1>1 DEF SlotOK

\* SetChildren makes the slots above the child right.
LEMMA SetChildrenOK ==
    ASSUME NEW vs, NEW jns, NEW n \in Inner, NEW x \in 0 .. 15, HasSlots(internals),
           \A i \in Slots \ Above(x) : SlotOK(vs, internals, n, i),
           jns[n] = SetChildren(vs, n, x)
    PROVE  \A i \in Slots : SlotOK(vs, jns, n, i)
<1> DEFINE old == internals[n]
           i3 == 6 + x \div 2
           i2 == 2 + x \div 4
           i1 == x \div 8
           h3 == Pair(x, ChildHash(vs, n, x), ChildHash(vs, n, Flip(x)))
           h2 == Pair(x \div 2, h3, old[Flip(i3)])
           h1 == Pair(x \div 4, h2, old[Flip(i2)])
           new == [old EXCEPT ![i3] = h3, ![i2] = h2, ![i1] = h1]
           f == ChildHashes(vs, n)
<1>1. jns[n] = new BY DEF SetChildren
<1>2. old = [i \in Slots |-> old[i]] BY DEF HasSlots
<1>3. /\ i3 \in 6 .. 13 /\ i2 \in 2 .. 5 /\ i1 \in 0 .. 1
      /\ Flip(x) \in 0 .. 15
      /\ Flip(i3) \in 6 .. 13 /\ Flip(i3) # i3 /\ Flip(i2) \in 2 .. 5 /\ Flip(i2) # i2
      /\ Above(x) = {i3, i2, i1}
    BY AboveFacts DEF Above
<1>4. /\ h3 = Hash(f[2 * (x \div 2)], f[2 * (x \div 2) + 1])
      /\ 2 * (i3 - 6) = 2 * (x \div 2)
      /\ f[x] = ChildHash(vs, n, x) /\ f[Flip(x)] = ChildHash(vs, n, Flip(x))
    <2>1. f[x] = ChildHash(vs, n, x) /\ f[Flip(x)] = ChildHash(vs, n, Flip(x))
        BY <1>3 DEF ChildHashes
    <2> HIDE DEF f
    <2> QED BY <2>1, PairFacts
<1> HIDE DEF h3
<1>5. /\ new = [i \in Slots |-> new[i]]
      /\ \A i \in Slots \ Above(x) : new[i] = old[i]
      /\ new[i3] = h3 /\ new[i2] = h2 /\ new[i1] = h1
      /\ new[Flip(i3)] = old[Flip(i3)] /\ new[Flip(i2)] = old[Flip(i2)]
    <2> HIDE DEF old, i3, i2, i1, h2, h1
    <2>1. i3 \in Slots /\ i2 \in Slots /\ i1 \in Slots /\ Flip(i3) \in Slots /\ Flip(i2) \in Slots
        BY <1>3 DEF Slots
    <2>2. i3 # i2 /\ i3 # i1 /\ i2 # i1 /\ Flip(i3) # i2 /\ Flip(i3) # i1 /\ Flip(i2) # i3 /\ Flip(i2) # i1
        BY <1>3
    <2> QED BY <1>2, <1>3, <2>1, <2>2
<1>6. Pair(x \div 2, new[i3], new[Flip(i3)]) = Hash(new[2 * i2 + 2], new[2 * i2 + 3])
    <2> HIDE DEF new
    <2> QED BY PairFacts
<1>7. Pair(x \div 4, new[i2], new[Flip(i2)]) = Hash(new[2 * i1 + 2], new[2 * i1 + 3])
    <2> HIDE DEF new
    <2> QED BY PairFacts
<1>8. h2 = Hash(new[2 * i2 + 2], new[2 * i2 + 3]) BY <1>5, <1>6
<1>9. h1 = Hash(new[2 * i1 + 2], new[2 * i1 + 3]) BY <1>5, <1>7
<1> HIDE DEF new, h2, h1, old
<1>10. SlotOK(vs, jns, n, i3)
    <2>1. 2 * (i3 - 6) \in 0 .. 15 /\ 2 * (i3 - 6) + 1 \in 0 .. 15 /\ 2 * (i3 - 6) + 0 = 2 * (i3 - 6)
        BY <1>3
    <2>2. h3 = Hash(ChildHash(vs, n, 2 * (i3 - 6) + 0), ChildHash(vs, n, 2 * (i3 - 6) + 1))
        BY <1>4, <2>1 DEF ChildHashes
    <2> HIDE DEF i3, f
    <2> QED BY <1>1, <1>3, <1>5, <2>2, BelowFacts DEF SlotOK
<1>11. SlotOK(vs, jns, n, i2)
    <2>1. 2 * i2 + 2 + 0 = 2 * i2 + 2 /\ 2 * i2 + 2 + 1 = 2 * i2 + 3 /\ i2 \in 0 .. 5 BY <1>3
    <2> HIDE DEF i2
    <2> QED BY <1>1, <1>5, <1>8, <2>1, BelowFacts DEF SlotOK
<1>12. SlotOK(vs, jns, n, i1)
    <2>1. 2 * i1 + 2 + 0 = 2 * i1 + 2 /\ 2 * i1 + 2 + 1 = 2 * i1 + 3 /\ i1 \in 0 .. 5 BY <1>3
    <2> HIDE DEF i1
    <2> QED BY <1>1, <1>5, <1>9, <2>1, BelowFacts DEF SlotOK
<1>13. ASSUME NEW i \in Slots \ Above(x) PROVE SlotOK(vs, jns, n, i)
    <2>1. new[i] = internals[n][i] BY <1>5 DEF old
    <2>2. SlotOK(vs, internals, n, i) OBVIOUS
    <2>3. ASSUME NEW s \in {0, 1} PROVE Below(vs, jns, n, i, s) = Below(vs, internals, n, i, s)
        <3>1. CASE i \in 6 .. 13 BY <3>1, BelowFacts
        <3>2. CASE i \in 0 .. 5
            <4>1. i < 6 BY <3>2
            <4>2. 2 * i + 2 + s \in Slots \ Above(x) BY <4>1, AboveFacts
            <4>3. new[2 * i + 2 + s] = internals[n][2 * i + 2 + s] BY <1>5, <4>2 DEF old
            <4> QED BY <1>1, <3>2, <4>3, BelowFacts
        <3> QED BY <3>1, <3>2 DEF Slots
    <2> QED BY <1>1, <2>1, <2>2, <2>3 DEF SlotOK
<1> QED BY <1>3, <1>10, <1>11, <1>12, <1>13

----------------------------------------------------------------------------
(* Nodes and their children.                                               *)

\* A change of one node is seen by its parent only.
LEMMA ChildFrame ==
    ASSUME NEW vs, NEW us, NEW m \in Nodes, \A n \in Nodes : n # m => us[n] = vs[n],
           NEW n \in Inner, NEW b \in 0 .. 15, m = RootNode \/ n # Up(m) \/ b # Last(m)
    PROVE  ChildHash(us, n, b) = ChildHash(vs, n, b)
<1>1. Append(n, b) # m BY ChildType
<1> QED BY <1>1 DEF ChildHash, Root

\* A node whose children are as they were.
LEMMA MerkleFrame ==
    ASSUME NEW vs, NEW us, NEW ins, NEW jns, NEW n \in Inner, Merkle(vs, ins, n),
           us[n] = vs[n], jns[n] = ins[n],
           \A b \in 0 .. 15 : ChildHash(us, n, b) = ChildHash(vs, n, b)
    PROVE  Merkle(us, jns, n)
<1>1. \A i \in Slots : SlotOK(vs, ins, n, i) BY DEF Merkle, SlotOK
<1>2. \A i \in Slots : SlotOK(us, jns, n, i) BY <1>1, NodeFrame
<1> QED BY <1>2 DEF Merkle, SlotOK, Root

\* The latest version of a tree whose nodes are right.
LEMMA MerkleNow ==
    ASSUME NEW vs, NEW ins, NEW n \in Inner, Merkle(vs, ins, n), NEW w \in Nat,
           \A m \in Nodes : IsList(vs[m]) /\ Sorted(vs[m]) /\ Upto(vs[m], w)
    PROVE  HashAt(vs[n], w, NilHash(n)) = Fold16(ChildHashesAt(vs, n, w))
<1>1. ASSUME NEW m \in Nodes PROVE HashAt(vs[m], w, NilHash(m)) = Root(vs, m)
    <2>1. PICK H : vs[m] \in Seq(VersionInfo(H)) BY DEF IsList
    <2>2. w \in Int /\ Sorted(vs[m]) /\ \A i \in 1 .. Len(vs[m]) : vs[m][i].ver <= w BY DEF Upto
    <2> QED BY <2>1, <2>2, LatestIsVisible DEF Root
<1>2. ChildHashesAt(vs, n, w) = ChildHashes(vs, n)
    BY <1>1 DEF ChildHashesAt, ChildHashes, ChildHash
<1>3. n \in Nodes BY DEF Inner
<1>4. \A i \in Slots : SlotOK(vs, ins, n, i) BY DEF Merkle, SlotOK
<1>5. Root(vs, n) = Fold16(ChildHashes(vs, n)) BY <1>4, SlotsFold DEF Merkle
<1> QED BY <1>1, <1>2, <1>3, <1>5

LEMMA EmptyList ==
    /\ IsList(<<>>) /\ Sorted(<<>>) /\ Vers(<<>>) = {} /\ \A v : Upto(<<>>, v)
    /\ \A nil : LatestHash(<<>>, nil) = nil
<1>1. <<>> \in Seq(VersionInfo({})) /\ Len(<<>>) = 0 OBVIOUS
<1>2. 1 .. Len(<<>>) = {} BY <1>1
<1> QED BY <1>1, <1>2 DEF IsList, Sorted, Vers, Upto, LatestHash

\* NewTreeNode: an empty tree is a Merkle tree.
LEMMA InitInv == Init => Inv
<1> SUFFICES ASSUME Init PROVE Inv OBVIOUS
<1>1. /\ version = 0 /\ climbing = RootNode /\ savedVersions = versions
      /\ versions = [n \in Nodes |-> <<>>] /\ savedInternals = internals
      /\ internals = [n \in Inner |-> [i \in Slots |-> nilHashes[4 * Len(n) + SlotDepth(i)]]]
    BY DEF Init
<1>2. ASSUME NEW n \in Inner PROVE Merkle(versions, internals, n)
    <2> DEFINE a == 4 * Len(n)
    <2>1. /\ Len(n) \in Nat /\ Len(n) < Levels /\ n \in Nodes
          /\ \A b \in 0 .. 15 : Len(Append(n, b)) = Len(n) + 1
        <3>1. 0 \in 0 .. 15 OBVIOUS
        <3> QED BY <3>1, ChildType
    <2>2. a \in Nat /\ a + 4 \in Nat /\ a + 4 <= 4 * Levels /\ Levels \in Nat BY <2>1, LevelsType
    <2>3. ASSUME NEW b \in 0 .. 15 PROVE ChildHash(versions, n, b) = nilHashes[a + 4]
        <3> DEFINE c == Append(n, b)
        <3>1. CASE c \notin Nodes BY <3>1 DEF ChildHash
        <3>2. CASE c \in Nodes
            <4>1. ChildHash(versions, n, b) = Root(versions, c) BY <3>2 DEF ChildHash
            <4>2. Root(versions, c) = nilHashes[4 * Len(c)] BY <1>1, <3>2, EmptyList DEF Root, NilHash
            <4>3. 4 * Len(c) = a + 4 BY <2>1
            <4> QED BY <4>1, <4>2, <4>3
        <3> QED BY <3>1, <3>2
    <2>4. Root(versions, n) = nilHashes[a] BY <1>1, <2>1, EmptyList DEF Root, NilHash
    <2>5. \A i \in Slots : internals[n][i] = nilHashes[a + SlotDepth(i)] BY <1>1
    <2> HIDE DEF a
    <2>6. \A d \in 0 .. 3 : nilHashes[a + d] = Hash(nilHashes[a + d + 1], nilHashes[a + d + 1])
        <3>1. \A d \in 0 .. 3 : a + d \in 0 .. 4 * Levels /\ a + d # 4 * Levels BY <2>2
        <3> QED BY <3>1, NilHashes
    <2>7. ASSUME NEW i \in Slots, NEW s \in {0, 1}
          PROVE  Below(versions, internals, n, i, s) = nilHashes[a + SlotDepth(i) + 1]
        <3>1. CASE i \in 6 .. 13
            <4>1. 2 * (i - 6) + s \in 0 .. 15 /\ a + SlotDepth(i) + 1 = a + 4
                BY <2>2, <3>1 DEF SlotDepth
            <4> QED BY <2>3, <3>1, <4>1, BelowFacts
        <3>2. CASE i \in 0 .. 5
            <4>1. 2 * i + 2 + s \in Slots BY <3>2 DEF Slots
            <4>2. a + SlotDepth(2 * i + 2 + s) = a + SlotDepth(i) + 1
                BY <2>2, <3>2 DEF SlotDepth
            <4> QED BY <2>5, <3>2, <4>1, <4>2, BelowFacts
        <3> QED BY <3>1, <3>2 DEF Slots
    <2>8. ASSUME NEW i \in Slots
          PROVE  internals[n][i] = Hash(Below(versions, internals, n, i, 0), Below(versions, internals, n, i, 1))
        <3>1. SlotDepth(i) \in 0 .. 3 BY DEF SlotDepth
        <3> QED BY <2>5, <2>6, <2>7, <3>1
    <2>9. Root(versions, n) = Hash(internals[n][0], internals[n][1])
        <3>1. 0 \in Slots /\ 1 \in Slots /\ SlotDepth(0) = 1 /\ SlotDepth(1) = 1 /\ 0 \in 0 .. 3
            BY DEF Slots, SlotDepth
        <3>2. a + 0 = a /\ a + 0 + 1 = a + 1 BY <2>2
        <3> QED BY <2>4, <2>5, <2>6, <3>1, <3>2
    <2> QED BY <2>8, <2>9 DEF Merkle
<1>3. \A n \in Nodes : /\ versions[n] = <<>> /\ IsList(versions[n]) /\ Sorted(versions[n])
                       /\ Vers(versions[n]) = {} /\ \A v : Upto(versions[n], v)
    BY <1>1, EmptyList
<1>4. ASSUME NEW n \in Inner PROVE History(versions, n)
    BY <1>2, <1>3, MerkleNow DEF History
<1>5. Listed(savedVersions, version) BY <1>1, <1>3 DEF Listed
<1>6. EditedIn(1, versions, savedVersions, version, climbing)
    BY <1>1, <1>3 DEF EditedIn, Edit
<1>7. MerkleBut(versions, internals, climbing)
    <2>1. \A n : ~Due(climbing, n) BY <1>1 DEF Due
    <2> QED BY <1>2, <2>1 DEF MerkleBut, Merkle, SlotOK
<1>8. HasSlots(internals) /\ HasSlots(savedInternals) BY <1>1 DEF HasSlots
<1>9. version \in Nat /\ climbing \in Nodes /\ versions = [n \in Nodes |-> versions[n]]
    BY <1>1, RootType
<1>10. \A n \in Inner : Merkle(savedVersions, savedInternals, n) /\ History(savedVersions, n)
    BY <1>1, <1>2, <1>4
<1> QED BY <1>5, <1>6, <1>7, <1>8, <1>9, <1>10 DEF Inv

----------------------------------------------------------------------------
(* SetWithVersion.                                                         *)

\* The root is edited when any node is: the parent of the edited node nearest
\* to the root would be nearer.
LEMMA RootEdited ==
    ASSUME NEW b, NEW vs, NEW us, NEW v, EditedIn(b, vs, us, v, RootNode),
           NEW m \in Nodes, vs[m] # us[m]
    PROVE  vs[RootNode] # us[RootNode]
<1> DEFINE D == {Len(n) : n \in {n \in Nodes : vs[n] # us[n]}}
<1>0. \A n \in Nodes : Len(n) \in Nat BY NodeType, LevelsType
<1>1. D \in SUBSET Nat /\ D # {} BY <1>0
<1>2. PICK d \in D : \A e \in D : d <= e BY <1>1, LeastNatural
<1>3. PICK n \in Nodes : vs[n] # us[n] /\ d = Len(n) OBVIOUS
<1>4. CASE n # RootNode
    <2>1. Up(n) \in Nodes /\ Len(Up(n)) = Len(n) - 1 /\ Len(n) \in Nat BY <1>4, UpType DEF Inner
    <2>2. vs[Up(n)] # us[Up(n)] BY <1>3, <1>4 DEF EditedIn
    <2>3. Len(n) - 1 \in D BY <2>1, <2>2
    <2> QED BY <1>2, <1>3, <2>1, <2>3
<1> QED BY <1>3, <1>4

\* All sets of a block have one version.
LEMMA BlockIs ==
    ASSUME Inv, Idle, NEW v \in Nat, v > version, BlockVersion(v)
    PROVE  EditedIn(v, versions, savedVersions, version, climbing)
<1>1. PICK b \in Nat : EditedIn(b, versions, savedVersions, version, climbing) BY DEF Inv
<1>2. climbing = RootNode BY DEF Idle
<1>3. CASE versions = savedVersions BY <1>2, <1>3 DEF EditedIn, Edit
<1>4. CASE versions # savedVersions
    <2>1. PICK m \in Nodes : versions[m] # savedVersions[m]
        BY <1>4 DEF Inv, Listed
    <2>2. versions[RootNode] # savedVersions[RootNode] BY <1>1, <1>2, <2>1, RootEdited
    <2>3. Edit(versions[RootNode], savedVersions[RootNode], b) BY <1>1, RootType DEF EditedIn
    <2>4. PICK h : versions[RootNode] = Append(savedVersions[RootNode], Info(b, h))
        BY <2>2, <2>3 DEF Edit
    <2>5. /\ IsList(savedVersions[RootNode]) /\ Sorted(savedVersions[RootNode])
          /\ Upto(savedVersions[RootNode], version) /\ version \in Nat /\ b > version
        BY <1>1, RootType DEF Inv, Listed, EditedIn
    <2>6. LatestVersion(versions[RootNode]) = b BY <2>4, <2>5, AppendLatest
    <2>7. v = b BY <1>4, <2>6 DEF BlockVersion
    <2> QED BY <1>1, <2>7
<1> QED BY <1>3, <1>4

\* newVersion in a node of the working tree: a second entry of the block
\* replaces the first.
LEMMA EditFacts ==
    ASSUME NEW us, IsList(us), Sorted(us), NEW v \in Nat, Upto(us, v),
           NEW b \in Nat, b > v, NEW vs, Edit(vs, us, b), NEW h, NEW nil
    PROVE  LET new == NewVersion(vs, Info(b, h))
           IN  /\ Edit(new, us, b) /\ new # us /\ LatestHash(new, nil) = h
               /\ vs # us => LatestVersion(vs) = b
<1> DEFINE new == NewVersion(vs, Info(b, h))
<1>1. new = Append(us, Info(b, h)) /\ (vs # us => LatestVersion(vs) = b)
    <2>1. CASE vs = us
        <3>1. Appended(Append(us, Info(b, h)), us, b, h, nil) BY AppendFacts
        <3> QED BY <2>1, <3>1 DEF Appended
    <2>2. CASE vs # us
        <3>1. PICK g : vs = Append(us, Info(b, g)) BY <2>2 DEF Edit
        <3> QED BY <3>1, AppendLatest
    <2> QED BY <2>1, <2>2
<1> HIDE DEF new
<1>2. Edit(new, us, b) BY <1>1 DEF Edit
<1>3. Appended(new, us, b, h, nil) BY <1>1, AppendFacts
<1> QED BY <1>1, <1>2, <1>3 DEF new, Appended

\* A node m is hashed that is a leaf or the parent of the node hashed before:
\* its parent is due next.
LEMMA StepMerkle ==
    ASSUME NEW vs, NEW ins, NEW c, MerkleBut(vs, ins, c),
           NEW m \in Nodes, NEW ws, \A n \in Nodes : n # m => ws[n] = vs[n],
           NEW jns, \A n \in Inner : n # m => jns[n] = ins[n],
           m \in Inner => (\A i \in Slots : SlotOK(vs, jns, m, i))
                              /\ Root(ws, m) = Hash(jns[m][0], jns[m][1]),
           \A n \in Inner : Due(c, n) => n = m
    PROVE  MerkleBut(ws, jns, m)
<1> SUFFICES ASSUME NEW n \in Inner
             PROVE  /\ \A i \in Slots :
                           SlotOK(ws, jns, n, i) \/ (Due(m, n) /\ i \in Above(Last(m)))
                    /\ ~Due(m, n) => Root(ws, n) = Hash(jns[n][0], jns[n][1])
    BY DEF MerkleBut
<1>0. n \in Nodes BY DEF Inner
<1>1. \A i \in Slots : SlotOK(vs, jns, n, i)
    <2>1. CASE n = m BY <2>1
    <2>2. CASE n # m
        <3>1. \A i \in Slots : SlotOK(vs, ins, n, i) BY <2>2 DEF MerkleBut
        <3>2. \A b \in 0 .. 15 : ChildHash(vs, n, b) = ChildHash(vs, n, b) OBVIOUS
        <3>3. jns[n] = ins[n] BY <2>2
        <3> QED BY <3>1, <3>2, <3>3, NodeFrame
    <2> QED BY <2>1, <2>2
<1>2. ~Due(m, n) => Root(ws, n) = Hash(jns[n][0], jns[n][1])
    <2>1. CASE n = m BY <2>1
    <2>2. CASE n # m
        <3>1. Root(vs, n) = Hash(ins[n][0], ins[n][1]) BY <2>2 DEF MerkleBut
        <3> QED BY <1>0, <2>2, <3>1 DEF Root
    <2> QED BY <2>1, <2>2
<1>3. CASE Due(m, n)
    <2>1. m # RootNode /\ n = Up(m) /\ Last(m) \in 0 .. 15 BY <1>3, UpType DEF Due
    <2>2. \A b \in 0 .. 15 : b # Last(m) => ChildHash(ws, n, b) = ChildHash(vs, n, b)
        BY ChildFrame
    <2>3. ASSUME NEW i \in Slots \ Above(Last(m)) PROVE SlotOK(ws, jns, n, i)
        BY <1>1, <2>1, <2>2, SlotFrame
    <2> QED BY <1>3, <2>3
<1>4. CASE ~Due(m, n)
    <2>1. m = RootNode \/ n # Up(m) BY <1>4 DEF Due
    <2>2. \A b \in 0 .. 15 : ChildHash(ws, n, b) = ChildHash(vs, n, b) BY <2>1, ChildFrame
    <2>3. \A i \in Slots : SlotOK(ws, jns, n, i) BY <1>1, <2>2, NodeFrame
    <2> QED BY <1>2, <2>3
<1> QED BY <1>2, <1>3, <1>4

\* The same step for the lists.
LEMMA StepEdited ==
    ASSUME NEW us, NEW v \in Nat, Listed(us, v), NEW b \in Nat, NEW vs, NEW c \in Nodes,
           EditedIn(b, vs, us, v, c),
           NEW m \in Nodes, c = RootNode \/ m = Up(c),
           NEW h, NEW ws, ws[m] = NewVersion(vs[m], Info(b, h)),
           \A n \in Nodes : n # m => ws[n] = vs[n]
    PROVE  EditedIn(b, ws, us, v, m) /\ Root(ws, m) = h
<1>1. /\ IsList(us[m]) /\ Sorted(us[m]) /\ Upto(us[m], v) /\ b > v /\ Edit(vs[m], us[m], b)
    BY DEF Listed, EditedIn
<1>2. Edit(ws[m], us[m], b) /\ ws[m] # us[m] /\ LatestHash(ws[m], NilHash(m)) = h
    BY <1>1, EditFacts
<1>3. \A n \in Nodes : Edit(ws[n], us[n], b) BY <1>2 DEF EditedIn
<1>4. ASSUME NEW n \in Nodes \ {RootNode}, ws[n] # us[n], n # m
      PROVE  ws[Up(n)] # us[Up(n)]
    <2>1. Up(n) \in Nodes BY UpType DEF Inner
    <2>2. CASE n = c BY <1>2, <2>2
    <2>3. CASE n # c
        <3>1. vs[Up(n)] # us[Up(n)] BY <1>4, <2>3 DEF EditedIn
        <3> QED BY <1>2, <2>1, <3>1
    <2> QED BY <2>2, <2>3
<1> QED BY <1>1, <1>2, <1>3, <1>4 DEF EditedIn, Root

LEMMA SetLeafInv ==
    ASSUME Inv, NEW k \in Keys, NEW val, NEW v \in Nat, BlockVersion(v), SetLeaf(k, val, v)
    PROVE  Inv'
<1>1. /\ Idle /\ v > version /\ climbing' = k
      /\ versions' = [versions EXCEPT ![k] = NewVersion(versions[k], Info(v, val))]
      /\ UNCHANGED <<version, internals, savedVersions, savedInternals>>
    BY DEF SetLeaf
<1>2. k \in Nodes /\ k \notin Inner
    <2>1. Len(k) \in Nat /\ k \in Seq(0 .. 15) BY NodeHashAssumption
    <2>2. SubSeq(k, 1, Len(k)) = k /\ Len(k) \in 0 .. Len(k) BY <2>1
    <2>3. k \in {SubSeq(k, 1, i) : i \in 0 .. Len(k)} BY <2>2
    <2>4. k \in Nodes BY <2>3 DEF Nodes
    <2> QED BY <2>4 DEF Inner
<1>3. /\ versions = [n \in Nodes |-> versions[n]] /\ version \in Nat
      /\ Listed(savedVersions, version) /\ climbing \in Nodes
      /\ MerkleBut(versions, internals, climbing)
    BY DEF Inv
<1>4. EditedIn(v, versions, savedVersions, version, climbing) BY <1>1, BlockIs
<1>5. /\ versions' = [n \in Nodes |-> versions'[n]]
      /\ versions'[k] = NewVersion(versions[k], Info(v, val))
      /\ \A n \in Nodes : n # k => versions'[n] = versions[n]
    BY <1>1, <1>2, <1>3
<1>6. climbing = RootNode BY <1>1 DEF Idle
<1>7. EditedIn(v, versions', savedVersions, version, k)
    BY <1>2, <1>3, <1>4, <1>5, <1>6, StepEdited
<1>8. MerkleBut(versions', internals, k)
    <2>1. \A n \in Inner : Due(climbing, n) => n = k BY <1>6 DEF Due
    <2> QED BY <1>2, <1>3, <1>5, <2>1, StepMerkle
<1> QED BY <1>1, <1>2, <1>5, <1>7, <1>8 DEF Inv

LEMMA SetParentInv ==
    ASSUME Inv, SetParent PROVE Inv'
<1> DEFINE c == climbing
           n == Up(c)
           slots == SetChildren(versions, n, Last(c))
           b == LatestVersion(versions[c])
           h == Hash(slots[0], slots[1])
<1>1. /\ ~Idle /\ climbing' = n
      /\ internals' = [internals EXCEPT ![n] = slots]
      /\ versions' = [versions EXCEPT ![n] = NewVersion(versions[n], Info(b, h))]
      /\ UNCHANGED <<version, savedVersions, savedInternals>>
    BY DEF SetParent, Up, Last
<1>2. /\ versions = [m \in Nodes |-> versions[m]] /\ version \in Nat
      /\ Listed(savedVersions, version) /\ c \in Nodes
      /\ MerkleBut(versions, internals, c) /\ HasSlots(internals)
    BY DEF Inv
<1>3. c # RootNode BY <1>1 DEF Idle
<1>4. n \in Inner /\ n \in Nodes /\ Last(c) \in 0 .. 15 BY <1>2, <1>3, UpType DEF Inner
<1>5. b \in Nat /\ EditedIn(b, versions, savedVersions, version, c)
    <2>1. PICK e \in Nat : EditedIn(e, versions, savedVersions, version, c) BY DEF Inv
    <2>2. versions[c] # savedVersions[c] /\ Edit(versions[c], savedVersions[c], e) /\ e > version
        BY <1>2, <1>3, <2>1 DEF EditedIn
    <2>3. PICK g : versions[c] = Append(savedVersions[c], Info(e, g)) BY <2>2 DEF Edit
    <2>4. IsList(savedVersions[c]) /\ Sorted(savedVersions[c]) /\ Upto(savedVersions[c], version)
        BY <1>2 DEF Listed
    <2> HIDE DEF c
    <2>5. LatestVersion(Append(savedVersions[c], Info(e, g))) = e BY <1>2, <2>2, <2>4, AppendLatest
    <2>6. b = e BY <2>3, <2>5
    <2> QED BY <2>1, <2>6
<1>6. internals'[n] = slots /\ \A m \in Inner : m # n => internals'[m] = internals[m]
    BY <1>1, <1>2, <1>4 DEF HasSlots
<1>7. \A i \in Slots : SlotOK(versions, internals', n, i)
    <2>1. \A i \in Slots \ Above(Last(c)) : SlotOK(versions, internals, n, i)
        BY <1>2, <1>4 DEF MerkleBut
    <2> QED BY <1>2, <1>4, <1>6, <2>1, SetChildrenOK
<1>8. HasSlots(internals')
    <2>1. internals' = [m \in Inner |-> internals'[m]] BY <1>1, <1>2 DEF HasSlots
    <2>2. slots = [i \in Slots |-> slots[i]]
        BY <1>2, <1>4 DEF SetChildren, HasSlots
    <2>3. ASSUME NEW m \in Inner PROVE internals'[m] = [i \in Slots |-> internals'[m][i]]
        BY <1>2, <1>6, <2>2 DEF HasSlots
    <2> QED BY <2>1, <2>3 DEF HasSlots
<1> HIDE DEF slots, b, h
<1>9. /\ versions' = [m \in Nodes |-> versions'[m]]
      /\ versions'[n] = NewVersion(versions[n], Info(b, h))
      /\ \A m \in Nodes : m # n => versions'[m] = versions[m]
    BY <1>1, <1>2, <1>4
<1>10. EditedIn(b, versions', savedVersions, version, n) /\ Root(versions', n) = h
    BY <1>2, <1>4, <1>5, <1>9, StepEdited
<1>11. MerkleBut(versions', internals', n)
    <2>1. Root(versions', n) = Hash(internals'[n][0], internals'[n][1]) BY <1>6, <1>10 DEF h
    <2>2. \A m \in Inner : Due(c, m) => m = n BY DEF Due
    <2> HIDE DEF n, c
    <2> QED BY <1>2, <1>4, <1>6, <1>7, <1>9, <2>1, <2>2, StepMerkle
<1> QED BY <1>1, <1>4, <1>5, <1>8, <1>9, <1>10, <1>11 DEF Inv

----------------------------------------------------------------------------
(* Reset and Commit.                                                       *)

LEMMA EditedList ==
    ASSUME NEW us, IsList(us), Sorted(us), NEW v \in Nat, Upto(us, v),
           NEW b \in Nat, b > v, NEW vs, Edit(vs, us, b), NEW nil
    PROVE  /\ IsList(vs) /\ Sorted(vs) /\ Upto(vs, b)
           /\ Vers(us) \subseteq Vers(vs) /\ Vers(vs) \subseteq Vers(us) \cup {b}
           /\ vs # us => b \in Vers(vs)
           /\ \A w \in Nat : w < b => HashAt(vs, w, nil) = HashAt(us, w, nil)
<1>1. CASE vs = us
    <2>1. Upto(us, b) BY ListFacts DEF Upto
    <2> QED BY <1>1, <2>1
<1>2. CASE vs # us
    <2>1. PICK h : vs = Append(us, Info(b, h)) BY <1>2 DEF Edit
    <2>2. Appended(vs, us, b, h, nil) BY <2>1, AppendFacts
    <2> QED BY <2>2 DEF Appended
<1> QED BY <1>1, <1>2

LEMMA ResetInv ==
    ASSUME Inv, Reset PROVE Inv'
<1>1. /\ climbing = RootNode /\ versions' = savedVersions /\ internals' = savedInternals
      /\ UNCHANGED <<version, savedVersions, savedInternals, climbing>>
    BY DEF Reset, Idle
<1>2. /\ version \in Nat /\ climbing \in Nodes /\ Listed(savedVersions, version)
      /\ HasSlots(savedInternals)
      /\ \A n \in Inner : Merkle(savedVersions, savedInternals, n) /\ History(savedVersions, n)
    BY DEF Inv
<1>3. savedVersions = [n \in Nodes |-> savedVersions[n]] BY <1>2 DEF Listed
<1>4. MerkleBut(savedVersions, savedInternals, climbing)
    BY <1>1, <1>2 DEF MerkleBut, Merkle, SlotOK, Due
<1>5. version + 1 \in Nat /\ EditedIn(version + 1, savedVersions, savedVersions, version, climbing)
    BY <1>1, <1>2 DEF EditedIn, Edit
<1> QED BY <1>1, <1>2, <1>3, <1>4, <1>5 DEF Inv

LEMMA CommitInv ==
    ASSUME Inv, NEW v \in Nat, BlockVersion(v), Commit(v) PROVE Inv'
<1>1. /\ Idle /\ climbing = RootNode /\ v > version /\ version' = v
      /\ savedVersions' = versions /\ savedInternals' = internals
      /\ UNCHANGED <<versions, internals, climbing>>
    BY DEF Commit, Idle
<1>2. /\ version \in Nat /\ climbing \in Nodes /\ Listed(savedVersions, version)
      /\ HasSlots(internals) /\ versions = [n \in Nodes |-> versions[n]]
      /\ MerkleBut(versions, internals, climbing)
      /\ \A n \in Inner : History(savedVersions, n)
    BY DEF Inv
<1>3. EditedIn(v, versions, savedVersions, version, climbing) BY <1>1, BlockIs
<1>4. ASSUME NEW n \in Nodes, NEW nil
      PROVE  /\ IsList(versions[n]) /\ Sorted(versions[n]) /\ Upto(versions[n], v)
             /\ Vers(savedVersions[n]) \subseteq Vers(versions[n])
             /\ Vers(versions[n]) \subseteq Vers(savedVersions[n]) \cup {v}
             /\ versions[n] # savedVersions[n] => v \in Vers(versions[n])
             /\ \A w \in Nat : w < v =>
                    HashAt(versions[n], w, nil) = HashAt(savedVersions[n], w, nil)
    <2>1. /\ IsList(savedVersions[n]) /\ Sorted(savedVersions[n])
          /\ Upto(savedVersions[n], version)
        BY <1>2 DEF Listed
    <2>2. Edit(versions[n], savedVersions[n], v) BY <1>3 DEF EditedIn
    <2> QED BY <1>1, <1>2, <2>1, <2>2, EditedList
<1>5. Listed(versions, v)
    <2>1. ASSUME NEW n \in Nodes, n # RootNode
          PROVE  Vers(versions[n]) \subseteq Vers(versions[Up(n)])
        <3>1. Up(n) \in Nodes BY <2>1, UpType DEF Inner
        <3>2. Vers(savedVersions[n]) \subseteq Vers(savedVersions[Up(n)])
            BY <1>2, <2>1 DEF Listed
        <3>3. Vers(savedVersions[Up(n)]) \subseteq Vers(versions[Up(n)]) BY <1>4, <3>1
        <3>4. CASE versions[n] = savedVersions[n] BY <3>2, <3>3, <3>4
        <3>5. CASE versions[n] # savedVersions[n]
            <4>1. versions[Up(n)] # savedVersions[Up(n)] BY <1>1, <1>3, <2>1, <3>5 DEF EditedIn
            <4>2. v \in Vers(versions[Up(n)]) BY <1>4, <3>1, <4>1
            <4>3. Vers(versions[n]) \subseteq Vers(savedVersions[n]) \cup {v} BY <1>4
            <4> QED BY <3>2, <3>3, <4>2, <4>3
        <3> QED BY <3>4, <3>5
    <2> QED BY <1>2, <1>4, <2>1 DEF Listed
<1>6. \A n \in Inner : Merkle(versions, internals, n)
    BY <1>1, <1>2 DEF MerkleBut, Merkle, SlotOK, Due
<1>7. ASSUME NEW n \in Inner PROVE History(versions, n)
    <2> SUFFICES ASSUME NEW w \in Nat
                 PROVE  HashAt(versions[n], w, NilHash(n)) = Fold16(ChildHashesAt(versions, n, w))
        BY DEF History
    <2>0. n \in Nodes BY DEF Inner
    <2>1. CASE w < v
        <3>1. \A m \in Nodes : HashAt(versions[m], w, NilHash(m)) = HashAt(savedVersions[m], w, NilHash(m))
            BY <1>4, <2>1
        <3>2. ChildHashesAt(versions, n, w) = ChildHashesAt(savedVersions, n, w)
            BY <3>1 DEF ChildHashesAt
        <3>3. HashAt(savedVersions[n], w, NilHash(n)) = Fold16(ChildHashesAt(savedVersions, n, w))
            BY <1>2 DEF History
        <3> QED BY <2>0, <3>1, <3>2, <3>3
    <2>2. CASE ~(w < v)
        <3>1. ASSUME NEW m \in Nodes
              PROVE  IsList(versions[m]) /\ Sorted(versions[m]) /\ Upto(versions[m], w)
            <4>1. IsList(versions[m]) /\ Sorted(versions[m]) /\ Upto(versions[m], v) BY <1>4
            <4>2. Upto(versions[m], w) BY <2>2, <4>1, ListFacts DEF Upto
            <4> QED BY <4>1, <4>2
        <3> QED BY <1>6, <3>1, MerkleNow
    <2> QED BY <2>1, <2>2
<1>8. v + 1 \in Nat /\ EditedIn(v + 1, versions, versions, v, climbing)
    BY <1>1, <1>2 DEF EditedIn, Edit
<1> QED BY <1>1, <1>2, <1>5, <1>6, <1>7, <1>8 DEF Inv

----------------------------------------------------------------------------
(* Rollback.                                                               *)

\* What Rollback leaves of a list, and what is read from it.
Rolled(vs, us, t, nil) ==
    /\ IsList(vs) /\ Sorted(vs) /\ Upto(vs, t)
    /\ Vers(vs) = {x \in Vers(us) : x <= t}
    /\ LatestHash(vs, nil) = HashAt(us, t, nil)
    /\ \A w \in Nat : HashAt(vs, w, nil) = HashAt(us, IF w <= t THEN w ELSE t, nil)

LEMMA RolledList ==
    ASSUME NEW us, IsList(us), Sorted(us), NEW t \in Nat, NEW nil
    PROVE  Rolled(NodeRollback(us, t), us, t, nil)
<1> DEFINE vs == NodeRollback(us, t)
           i == VisibleIndex(us, t)
<1>1. PICK H : us \in Seq(VersionInfo(H)) BY DEF IsList
<1>2. t \in Int OBVIOUS
<1>3. /\ i \in 0 .. Len(us) /\ (i = 0 \/ us[i].ver <= t)
      /\ \A j \in (i + 1) .. Len(us) : us[j].ver > t
    BY <1>1, <1>2, VisibleIndexSpec
<1>4. vs \in Seq(VersionInfo(H)) BY <1>1, <1>2, NodeRollbackType
<1>5. /\ Sorted(vs) /\ \A j \in 1 .. Len(vs) : vs[j].ver <= t
      /\ \A w \in Int : w <= t => HashAt(vs, w, nil) = HashAt(us, w, nil)
    BY <1>1, <1>2, RollbackKeepsReads
<1>6. Len(vs) = i /\ \A j \in 1 .. i : vs[j] = us[j]
    BY <1>1, <1>3 DEF NodeRollback
<1>7. \A j \in 1 .. Len(us) : us[j].ver \in Nat BY <1>1, EntryType
<1> HIDE DEF vs, i
<1>8. Vers(vs) = {x \in Vers(us) : x <= t}
    <2>1. \A j \in 1 .. Len(vs) : j \in 1 .. Len(us) /\ vs[j] = us[j] BY <1>1, <1>3, <1>6
    <2>2. \A j \in 1 .. Len(us) : us[j].ver <= t => j \in 1 .. Len(vs)
        BY <1>1, <1>3, <1>6, <1>7
    <2> QED BY <1>5, <2>1, <2>2 DEF Vers
<1>9. ASSUME NEW w \in Nat, ~(w < t) PROVE HashAt(vs, w, nil) = LatestHash(vs, nil)
    <2>1. \A j \in 1 .. Len(vs) : vs[j].ver \in Nat BY <1>4, EntryType
    <2>2. \A j \in 1 .. Len(vs) : vs[j].ver <= w BY <1>5, <1>9, <2>1
    <2> QED BY <1>4, <1>5, <2>2, LatestIsVisible
<1>10. LatestHash(vs, nil) = HashAt(us, t, nil) BY <1>5, <1>9
<1>11. ASSUME NEW w \in Nat PROVE HashAt(vs, w, nil) = HashAt(us, IF w <= t THEN w ELSE t, nil)
    BY <1>5, <1>9, <1>10
<1>12. IsList(vs) /\ Upto(vs, t) BY <1>4, <1>5 DEF IsList, Upto
<1> QED BY <1>5, <1>8, <1>10, <1>11, <1>12 DEF Rolled, vs

\* A list with nothing above the target is left as it is.
LEMMA KeptList ==
    ASSUME NEW us, IsList(us), Sorted(us), NEW t \in Nat
    PROVE  /\ Upto(us, t) => NodeRollback(us, t) = us
           /\ ~DropsAny(us, t) => Upto(us, t)
<1>1. PICK H : us \in Seq(VersionInfo(H)) BY DEF IsList
<1>2. t \in Int /\ Len(us) \in Nat BY <1>1
<1>3. /\ VisibleIndex(us, t) \in 0 .. Len(us)
      /\ VisibleIndex(us, t) = 0 \/ us[VisibleIndex(us, t)].ver <= t
      /\ \A j \in (VisibleIndex(us, t) + 1) .. Len(us) : us[j].ver > t
    BY <1>1, <1>2, VisibleIndexSpec
<1>4. \A j \in 1 .. Len(us) : us[j].ver \in Nat BY <1>1, EntryType
<1>5. ASSUME Upto(us, t) PROVE NodeRollback(us, t) = us
    <2>1. VisibleIndex(us, t) = Len(us)
        <3> SUFFICES ASSUME VisibleIndex(us, t) # Len(us) PROVE FALSE OBVIOUS
        <3>1. Len(us) \in (VisibleIndex(us, t) + 1) .. Len(us) /\ Len(us) \in 1 .. Len(us)
            BY <1>2, <1>3
        <3> QED BY <1>3, <1>4, <1>5, <3>1 DEF Upto
    <2> QED BY <1>1, <2>1 DEF NodeRollback
<1>6. ASSUME ~DropsAny(us, t) PROVE Upto(us, t)
    <2>1. VisibleIndex(us, t) = Len(us) BY <1>2, <1>3, <1>6 DEF DropsAny
    <2>2. ASSUME NEW j \in 1 .. Len(us) PROVE us[j].ver <= t
        <3>1. Len(us) \in 1 .. Len(us) /\ us[Len(us)].ver <= t BY <1>2, <1>3, <2>1
        <3>2. j = Len(us) \/ us[j].ver < us[Len(us)].ver BY <1>2, <3>1 DEF Sorted
        <3> QED BY <1>4, <3>1, <3>2
    <2> QED BY <2>2 DEF Upto
<1> QED BY <1>5, <1>6

\* A version of a node is one of every node above it.
LEMMA AncestorVers ==
    ASSUME NEW us, NEW v, Listed(us, v), NEW n \in Nodes, NEW i \in 0 .. Len(n)
    PROVE  Vers(us[n]) \subseteq Vers(us[SubSeq(n, 1, i)])
<1> DEFINE At(j) == us[SubSeq(n, 1, i + j)]
           Good(j) == Vers(At(j)) \subseteq Vers(At(0))
           Bad == {j \in Nat : i + j <= Len(n) /\ ~Good(j)}
<1>0. n \in Seq(0 .. 15) /\ Len(n) \in Nat BY NodeType, LevelsType
<1>1. ASSUME NEW j \in Nat, i + j + 1 <= Len(n)
      PROVE  Vers(At(j + 1)) \subseteq Vers(At(j))
    <2> DEFINE m == SubSeq(n, 1, i + (j + 1))
    <2>1. i + (j + 1) \in 0 .. Len(n) /\ i + (j + 1) > 0 BY <1>0, <1>1
    <2>2. m \in Nodes /\ Len(m) = i + (j + 1) BY <2>1, NodeType
    <2>3. m # RootNode BY <2>1, <2>2, RootType
    <2>4. Up(m) = SubSeq(n, 1, i + j) BY <1>0, <2>1, <2>2 DEF Up
    <2> QED BY <2>2, <2>3, <2>4 DEF Listed
<1>2. Bad = {}
    <2> SUFFICES ASSUME Bad # {} PROVE FALSE OBVIOUS
    <2>1. Bad \in SUBSET Nat OBVIOUS
    <2> HIDE DEF At
    <2>2. PICK j \in Bad : \A l \in Bad : j <= l BY <2>1, LeastNatural
    <2>3. j # 0 BY <2>2
    <2>4. j - 1 \in Nat /\ (j - 1) + 1 = j /\ i + j <= Len(n) /\ ~Good(j) BY <2>2, <2>3
    <2>5. i + (j - 1) + 1 <= Len(n) /\ i + (j - 1) <= Len(n) BY <1>0, <2>4
    <2>6. Vers(At(j)) \subseteq Vers(At(j - 1)) BY <1>1, <2>4, <2>5
    <2>7. j - 1 \notin Bad BY <2>2, <2>4
    <2>8. Good(j - 1) BY <2>4, <2>5, <2>7
    <2> QED BY <2>4, <2>6, <2>8
<1>3. Len(n) - i \in Nat /\ i + (Len(n) - i) = Len(n) /\ i + 0 = i BY <1>0
<1>4. Good(Len(n) - i)
    <2> HIDE DEF Good
    <2> QED BY <1>0, <1>2, <1>3
<1>5. SubSeq(n, 1, Len(n)) = n BY <1>0
<1> QED BY <1>3, <1>4, <1>5

\* The rollback visits node n: every node above it and n itself drop entries.
Drops(us, n, t) == \A i \in 0 .. Len(n) : DropsAny(us[SubSeq(n, 1, i)], t)

\* All lists are cut at the target, although rollback stops at the first node
\* that drops nothing.
LEMMA AllRolled ==
    ASSUME NEW us, NEW v \in Nat, Listed(us, v), NEW t \in Nat, NEW n \in Nodes,
           ~Drops(us, n, t)
    PROVE  NodeRollback(us[n], t) = us[n]
<1>1. PICK i \in 0 .. Len(n) : ~DropsAny(us[SubSeq(n, 1, i)], t) BY DEF Drops
<1> DEFINE a == SubSeq(n, 1, i)
<1>2. a \in Nodes BY NodeType
<1>3. Upto(us[a], t) BY <1>1, <1>2, KeptList DEF Listed
<1>4. Vers(us[n]) \subseteq Vers(us[a]) BY AncestorVers
<1> HIDE DEF a
<1>5. \A x \in Vers(us[n]) : x <= t BY <1>3, <1>4 DEF Vers, Upto
<1>6. Upto(us[n], t) BY <1>5 DEF Vers, Upto
<1> QED BY <1>6, KeptList DEF Listed

LEMMA RollbackInv ==
    ASSUME Inv, NEW t \in Nat, Rollback(t) PROVE Inv'
<1> DEFINE us == savedVersions
           D(n) == Drops(us, n, t)
<1>1. /\ climbing = RootNode /\ t <= version /\ version' = t
      /\ versions' = [n \in Nodes |-> IF D(n) THEN NodeRollback(us[n], t) ELSE us[n]]
      /\ internals' = [n \in Inner |-> IF D(n) THEN ComputeInternalHash(versions', n)
                                       ELSE savedInternals[n]]
      /\ savedVersions' = versions' /\ savedInternals' = internals'
      /\ UNCHANGED climbing
    BY DEF Rollback, Idle, Drops
<1>2. /\ version \in Nat /\ climbing \in Nodes /\ Listed(us, version) /\ HasSlots(savedInternals)
      /\ \A n \in Inner : Merkle(us, savedInternals, n) /\ History(us, n)
    BY DEF Inv
<1> HIDE DEF us
<1>3. ASSUME NEW n \in Nodes PROVE versions'[n] = NodeRollback(us[n], t)
    <2>1. ~D(n) => NodeRollback(us[n], t) = us[n] BY <1>2, AllRolled
    <2> HIDE DEF D
    <2> QED BY <1>1, <2>1
<1>4. versions' = [n \in Nodes |-> versions'[n]]
    <2> HIDE DEF D
    <2> QED BY <1>1
<1>5. ASSUME NEW n \in Nodes, NEW nil PROVE Rolled(versions'[n], us[n], t, nil)
    BY <1>2, <1>3, RolledList DEF Listed
<1>6. Listed(versions', t)
    <2>1. ASSUME NEW n \in Nodes
          PROVE  /\ IsList(versions'[n]) /\ Sorted(versions'[n]) /\ Upto(versions'[n], t)
                 /\ Vers(versions'[n]) = {x \in Vers(us[n]) : x <= t}
        <3>1. Rolled(versions'[n], us[n], t, 0) BY <1>5
        <3> QED BY <3>1 DEF Rolled
    <2>2. ASSUME NEW n \in Nodes, n # RootNode
          PROVE  Vers(versions'[n]) \subseteq Vers(versions'[Up(n)])
        <3>1. Up(n) \in Nodes BY <2>2, UpType DEF Inner
        <3>2. Vers(us[n]) \subseteq Vers(us[Up(n)]) BY <1>2, <2>2 DEF Listed
        <3> QED BY <2>1, <3>1, <3>2
    <2> QED BY <1>4, <2>1, <2>2 DEF Listed
<1>7. ASSUME NEW n \in Inner PROVE History(versions', n)
    <2> SUFFICES ASSUME NEW w \in Nat
                 PROVE  HashAt(versions'[n], w, NilHash(n)) = Fold16(ChildHashesAt(versions', n, w))
        BY DEF History
    <2> DEFINE x == IF w <= t THEN w ELSE t
    <2>0. n \in Nodes /\ x \in Nat BY DEF Inner
    <2>1. ASSUME NEW m \in Nodes, NEW nil PROVE HashAt(versions'[m], w, nil) = HashAt(us[m], x, nil)
        BY <1>5 DEF Rolled
    <2> HIDE DEF x
    <2>2. ChildHashesAt(versions', n, w) = ChildHashesAt(us, n, x) BY <2>1 DEF ChildHashesAt
    <2>3. HashAt(us[n], x, NilHash(n)) = Fold16(ChildHashesAt(us, n, x))
        BY <1>2, <2>0 DEF History
    <2> QED BY <2>0, <2>1, <2>2, <2>3
<1>8. ASSUME NEW n \in Inner PROVE Merkle(versions', internals', n)
    <2>0. n \in Nodes BY DEF Inner
    <2>1. CASE D(n)
        <3>1. internals'[n] = ComputeInternalHash(versions', n)
            <4> HIDE DEF D
            <4> QED BY <1>1, <2>1
        <3>2. \A i \in Slots : SlotOK(versions', internals', n, i) BY <3>1, ComputedOK
        <3>3. Hash(internals'[n][0], internals'[n][1]) = Fold16(ChildHashes(versions', n))
            BY <3>2, SlotsFold
        <3>4. \A m \in Nodes : Root(versions', m) = HashAt(us[m], t, NilHash(m))
            BY <1>5 DEF Rolled, Root
        <3>5. ChildHashes(versions', n) = ChildHashesAt(us, n, t)
            BY <3>4 DEF ChildHashes, ChildHashesAt, ChildHash
        <3>6. HashAt(us[n], t, NilHash(n)) = Fold16(ChildHashesAt(us, n, t)) BY <1>2 DEF History
        <3>7. Root(versions', n) = Hash(internals'[n][0], internals'[n][1])
            BY <2>0, <3>3, <3>4, <3>5, <3>6
        <3> QED BY <3>2, <3>7 DEF Merkle, SlotOK
    <2>2. CASE ~D(n)
        <3>1. ASSUME NEW m \in Nodes, ~D(m) PROVE versions'[m] = us[m]
            <4> HIDE DEF D
            <4> QED BY <1>1, <3>1
        <3>2. internals'[n] = savedInternals[n]
            <4> HIDE DEF D
            <4> QED BY <1>1, <2>2
        <3>3. ASSUME NEW b \in 0 .. 15 PROVE ChildHash(versions', n, b) = ChildHash(us, n, b)
            <4> DEFINE c == Append(n, b)
            <4>1. CASE c \notin Nodes BY <4>1 DEF ChildHash
            <4>2. CASE c \in Nodes
                <5>1. PICK i \in 0 .. Len(n) : ~DropsAny(us[SubSeq(n, 1, i)], t) BY <2>2 DEF Drops
                <5>2. SubSeq(c, 1, i) = SubSeq(n, 1, i) BY <4>2, ChildType
                <5>3. i \in 0 .. Len(c) BY ChildType
                <5>4. ~D(c) BY <5>1, <5>2, <5>3 DEF Drops
                <5>5. versions'[c] = us[c] BY <3>1, <4>2, <5>4
                <5> QED BY <5>5 DEF ChildHash, Root
            <4> QED BY <4>1, <4>2
        <3> QED BY <1>2, <2>0, <2>2, <3>1, <3>2, <3>3, MerkleFrame
    <2> QED BY <2>1, <2>2
<1>9. HasSlots(internals')
    <2> HIDE DEF D
    <2>1. internals' = [n \in Inner |-> internals'[n]] BY <1>1
    <2>2. ASSUME NEW n \in Inner PROVE internals'[n] = [i \in Slots |-> internals'[n][i]]
        <3>1. CASE D(n)
            <4>1. internals'[n] = ComputeInternalHash(versions', n) BY <1>1, <3>1
            <4> QED BY <4>1, ComputedSlots
        <3>2. CASE ~D(n)
            <4>1. internals'[n] = savedInternals[n] BY <1>1, <3>2
            <4> QED BY <4>1, <1>2 DEF HasSlots
        <3> QED BY <3>1, <3>2
    <2> QED BY <2>1, <2>2 DEF HasSlots
<1>10. MerkleBut(versions', internals', climbing)
    BY <1>1, <1>8 DEF MerkleBut, Merkle, SlotOK, Due
<1>11. t + 1 \in Nat /\ EditedIn(t + 1, versions', versions', t, climbing)
    BY <1>1 DEF EditedIn, Edit
<1>12. climbing' = climbing /\ savedVersions' = versions' /\ savedInternals' = internals' /\ version' = t
    BY <1>1
<1> QED BY <1>2, <1>4, <1>6, <1>7, <1>8, <1>9, <1>10, <1>11, <1>12 DEF Inv

----------------------------------------------------------------------------
LEMMA NextInv == Inv /\ [Next]_vars => Inv'
<1> SUFFICES ASSUME Inv, [Next]_vars PROVE Inv' OBVIOUS
<1>0. \A v \in 0 .. MaxVersion : v \in Nat BY NodeHashAssumption
<1>1. ASSUME NEW k \in Keys, NEW val \in Value, NEW v \in 1 .. MaxVersion,
             BlockVersion(v), SetLeaf(k, val, v)
      PROVE  Inv'
    <2>1. v \in Nat BY <1>0, NodeHashAssumption
    <2> QED BY <1>1, <2>1, SetLeafInv
<1>2. CASE SetParent BY <1>2, SetParentInv
<1>3. CASE Reset BY <1>3, ResetInv
<1>4. ASSUME NEW v \in 1 .. MaxVersion, BlockVersion(v), Commit(v) PROVE Inv'
    <2>1. v \in Nat BY <1>0, NodeHashAssumption
    <2> QED BY <1>4, <2>1, CommitInv
<1>5. ASSUME NEW target \in 0 .. MaxVersion, Rollback(target) PROVE Inv'
    BY <1>0, <1>5, RollbackInv
<1>6. CASE UNCHANGED vars BY <1>6 DEF vars, Inv
<1> QED BY <1>1, <1>2, <1>3, <1>4, <1>5, <1>6 DEF Next

LEMMA InvHolds == Spec => []Inv
BY InitInv, NextInv, PTL DEF Spec

\* Every slot of every node is the hash of what is below it, for any hash
\* function and keys, after any sequence of Set, Reset, Commit and Rollback
\* (SetChildren and ComputeInternalHash, tree_node.go).
THEOREM SlotsAreMerkle == Spec => []InternalsAreMerkle
<1>1. Inv => InternalsAreMerkle
    <2> SUFFICES ASSUME Inv PROVE InternalsAreMerkle OBVIOUS
    <2>1. ASSUME NEW n \in Inner, Idle \/ n # SubSeq(climbing, 1, Len(climbing) - 1)
          PROVE  Merkle(versions, internals, n)
        <3>1. ~Due(climbing, n) BY <2>1 DEF Due, Idle, Up
        <3>2. MerkleBut(versions, internals, climbing) BY DEF Inv
        <3> QED BY <3>1, <3>2 DEF MerkleBut, Merkle, SlotOK
    <2>2. \A n \in Inner : Merkle(savedVersions, savedInternals, n) BY DEF Inv
    <2> QED BY <2>1, <2>2 DEF InternalsAreMerkle
<1> QED BY <1>1, InvHolds, PTL

----------------------------------------------------------------------------
(* Proofs: GetProof and VerifyProof, in a tree that is hashed.             *)

Hashed == \A n \in Inner : Merkle(versions, internals, n)

\* The hash at depth d on the path of key k: the root of a node, or a slot.
PathHash(k, d) ==
    LET n == SubSeq(k, 1, d \div 4)
    IN  IF d % 4 = 0 THEN Root(versions, n)
        ELSE internals[n][<<0, 2, 6>>[d % 4] + BitsTo(k, d)]

\* Bit j of a key: the node q it belongs to and the position r in it.
LEMMA BitFacts ==
    ASSUME NEW k \in Keys, NEW q \in 0 .. Levels - 1, NEW r \in 0 .. 3
    PROVE  /\ SubSeq(k, 1, q) \in Inner /\ k[q + 1] \in 0 .. 15
           /\ SubSeq(k, 1, q + 1) \in Nodes
           /\ Append(SubSeq(k, 1, q), k[q + 1]) = SubSeq(k, 1, q + 1)
           /\ ((4 * q + r + 1) - 1) \div 4 = q /\ ((4 * q + r + 1) - 1) % 4 = r
           /\ NibbleOf(k, 4 * q + r + 1) = k[q + 1]
           /\ BitsTo(k, 4 * q + r + 1) = k[q + 1] \div (2 ^ (3 - r))
<1>1. k \in Seq(0 .. 15) /\ Len(k) = Levels /\ Levels \in Nat BY LevelsType, NodeHashAssumption
<1>2. q \in Nat /\ q < Levels BY <1>1
<1>3. k \in {SubSeq(k, 1, i) : i \in 0 .. Len(k)}
    <2>1. SubSeq(k, 1, Len(k)) = k /\ Len(k) \in 0 .. Len(k) BY <1>1
    <2> QED BY <2>1
<1>4. k \in Nodes BY <1>3 DEF Nodes
<1>5. q \in 0 .. Len(k) /\ q + 1 \in 0 .. Len(k) BY <1>1, <1>2
<1>6. SubSeq(k, 1, q) \in Nodes /\ Len(SubSeq(k, 1, q)) = q /\ SubSeq(k, 1, q + 1) \in Nodes
    BY <1>4, <1>5, NodeType
<1>7. SubSeq(k, 1, q) \in Inner BY <1>2, <1>6, NodeType
<1>8. k[q + 1] \in 0 .. 15 /\ Append(SubSeq(k, 1, q), k[q + 1]) = SubSeq(k, 1, q + 1)
    BY <1>1, <1>2
<1>9. ((4 * q + r + 1) - 1) \div 4 = q /\ ((4 * q + r + 1) - 1) % 4 = r BY <1>2
<1>10. NibbleOf(k, 4 * q + r + 1) = k[q + 1] BY <1>9 DEF NibbleOf
<1> QED BY <1>6, <1>7, <1>8, <1>9, <1>10 DEF BitsTo

\* One step of VerifyProof goes from a hash on the path to the one above it.
LEMMA PathStep ==
    ASSUME Hashed, NEW k \in Keys, NEW j \in 1 .. 4 * Levels
    PROVE  PathHash(k, j - 1) = Pair(BitsTo(k, j), PathHash(k, j), Neighbour(k, j))
<1> DEFINE q == (j - 1) \div 4
           r == (j - 1) % 4
<1>1. q \in 0 .. Levels - 1 /\ r \in 0 .. 3 /\ j = 4 * q + r + 1 /\ j - 1 = 4 * q + r
    BY LevelsType
<1> HIDE DEF q, r
<1> DEFINE n == SubSeq(k, 1, q)
           x == k[q + 1]
           s == internals[n]
<1>2. /\ n \in Inner /\ x \in 0 .. 15 /\ Append(n, x) = SubSeq(k, 1, q + 1)
      /\ SubSeq(k, 1, q + 1) \in Nodes
      /\ (j - 1) \div 4 = q /\ (j - 1) % 4 = r /\ BitsTo(k, j) = x \div (2 ^ (3 - r))
    BY <1>1, BitFacts
<1>3. Merkle(versions, internals, n) BY <1>2 DEF Hashed
<1>4. q \in Nat BY <1>1
<1>5. /\ 6 + x \div 2 \in 6 .. 13 /\ 2 + x \div 4 \in 2 .. 5 /\ x \div 8 \in 0 .. 1
      /\ Flip(x) \in 0 .. 15
    BY <1>2, AboveFacts
<1>6. \A i \in 0 .. 5 : s[i] = Hash(s[2 * i + 2], s[2 * i + 3])
    <2> SUFFICES ASSUME NEW i \in 0 .. 5 PROVE s[i] = Hash(s[2 * i + 2], s[2 * i + 3]) OBVIOUS
    <2>1. i \in Slots BY DEF Slots
    <2>2. s[i] = Hash(Below(versions, internals, n, i, 0), Below(versions, internals, n, i, 1))
        BY <1>3, <2>1 DEF Merkle
    <2>3. 2 * i + 2 + 0 = 2 * i + 2 /\ 2 * i + 2 + 1 = 2 * i + 3 OBVIOUS
    <2> QED BY <2>2, <2>3, BelowFacts
<1>slot. ASSUME NEW d, NEW e \in 1 .. 3, d % 4 = e, d \div 4 = q
         PROVE  PathHash(k, d) = s[<<0, 2, 6>>[e] + BitsTo(k, d)]
    <2>1. e # 0 OBVIOUS
    <2> QED BY <1>slot, <2>1 DEF PathHash
<1>7. CASE r = 0
    <2>1. BitsTo(k, j) = x \div 8 BY <1>2, <1>7
    <2>2. (j - 1) % 4 = 0 /\ j \div 4 = q /\ j % 4 = 1 BY <1>1, <1>4, <1>7
    <2>3. PathHash(k, j - 1) = Hash(s[0], s[1]) BY <1>2, <1>3, <2>2 DEF PathHash, Merkle
    <2>4. PathHash(k, j) = s[0 + x \div 8] BY <1>slot, <2>1, <2>2
    <2>5. Neighbour(k, j) = s[Flip(0 + x \div 8)] BY <1>2, <1>7, <2>1 DEF Neighbour
    <2>6. \/ 0 + x \div 8 = 0 /\ Flip(0 + x \div 8) = 1 /\ (x \div 8) % 2 = 0
          \/ 0 + x \div 8 = 1 /\ Flip(0 + x \div 8) = 0 /\ (x \div 8) % 2 # 0
        BY <1>5 DEF Flip
    <2> HIDE DEF n, x, s
    <2> QED BY <2>1, <2>3, <2>4, <2>5, <2>6 DEF Pair
<1>8. CASE r = 1
    <2>1. BitsTo(k, j) = x \div 4 BY <1>2, <1>8
    <2>2. (j - 1) % 4 = 1 /\ j \div 4 = q /\ j % 4 = 2 /\ (j - 1) - 1 = 4 * q + 0 BY <1>1, <1>4, <1>8
    <2>3. BitsTo(k, j - 1) = x \div 8
        <3>1. j - 1 = 4 * q + 0 + 1 /\ 0 \in 0 .. 3 BY <1>1, <1>4, <1>8
        <3>2. BitsTo(k, j - 1) = x \div (2 ^ (3 - 0)) BY <1>1, <3>1, BitFacts
        <3> QED BY <3>2
    <2>4. PathHash(k, j - 1) = s[0 + x \div 8]
        <3>1. PathHash(k, j - 1) = s[<<0, 2, 6>>[1] + BitsTo(k, j - 1)]
            <4> HIDE DEF n, x, s
            <4>1. (j - 1) % 4 = 1 /\ (j - 1) \div 4 = q /\ 1 \in 1 .. 3 BY <1>2, <2>2
            <4> QED BY <1>slot, <4>1
        <3> QED BY <2>3, <3>1
    <2>5. PathHash(k, j) = s[2 + x \div 4] BY <1>slot, <2>1, <2>2
    <2>6. Neighbour(k, j) = s[Flip(2 + x \div 4)] BY <1>2, <1>8, <2>1 DEF Neighbour
    <2>7. 0 + x \div 8 = x \div 8 /\ x \div 8 \in 0 .. 5 BY <1>5
    <2> HIDE DEF n, x, s
    <2>8. Pair(x \div 4, s[2 + x \div 4], s[Flip(2 + x \div 4)])
              = Hash(s[2 * (x \div 8) + 2], s[2 * (x \div 8) + 3])
        BY <1>2, PairFacts
    <2> QED BY <1>6, <2>1, <2>4, <2>5, <2>6, <2>7, <2>8
<1>9. CASE r = 2
    <2>1. BitsTo(k, j) = x \div 2 BY <1>2, <1>9
    <2>2. (j - 1) % 4 = 2 /\ j \div 4 = q /\ j % 4 = 3 BY <1>1, <1>4, <1>9
    <2>3. BitsTo(k, j - 1) = x \div 4
        <3>1. j - 1 = 4 * q + 1 + 1 /\ 1 \in 0 .. 3 BY <1>1, <1>4, <1>9
        <3>2. BitsTo(k, j - 1) = x \div (2 ^ (3 - 1)) BY <1>1, <3>1, BitFacts
        <3> QED BY <3>2
    <2>4. PathHash(k, j - 1) = s[2 + x \div 4]
        <3>1. PathHash(k, j - 1) = s[<<0, 2, 6>>[2] + BitsTo(k, j - 1)]
            <4> HIDE DEF n, x, s
            <4>1. (j - 1) % 4 = 2 /\ (j - 1) \div 4 = q /\ 2 \in 1 .. 3 BY <1>2, <2>2
            <4> QED BY <1>slot, <4>1
        <3> QED BY <2>3, <3>1
    <2>5. PathHash(k, j) = s[6 + x \div 2] BY <1>slot, <2>1, <2>2
    <2>6. Neighbour(k, j) = s[Flip(6 + x \div 2)] BY <1>2, <1>9, <2>1 DEF Neighbour
    <2>7. 2 + x \div 4 \in 0 .. 5 BY <1>5
    <2> HIDE DEF n, x, s
    <2>8. Pair(x \div 2, s[6 + x \div 2], s[Flip(6 + x \div 2)])
              = Hash(s[2 * (2 + x \div 4) + 2], s[2 * (2 + x \div 4) + 3])
        BY <1>2, PairFacts
    <2> QED BY <1>6, <2>1, <2>4, <2>5, <2>6, <2>7, <2>8
<1>10. CASE r = 3
    <2> DEFINE f == ChildHashes(versions, n)
               i == 6 + x \div 2
    <2>1. BitsTo(k, j) = x
        <3>1. BitsTo(k, j) = x \div (2 ^ (3 - 3)) BY <1>2, <1>10
        <3> HIDE DEF x
        <3>2. x \div (2 ^ (3 - 3)) = x BY <1>2
        <3> QED BY <3>1, <3>2
    <2>2. (j - 1) % 4 = 3 /\ j \div 4 = q + 1 /\ j % 4 = 0 BY <1>1, <1>4, <1>10
    <2>3. BitsTo(k, j - 1) = x \div 2
        <3>1. j - 1 = 4 * q + 2 + 1 /\ 2 \in 0 .. 3 BY <1>1, <1>4, <1>10
        <3>2. BitsTo(k, j - 1) = x \div (2 ^ (3 - 2)) BY <1>1, <3>1, BitFacts
        <3> QED BY <3>2
    <2>4. PathHash(k, j - 1) = s[i]
        <3>1. PathHash(k, j - 1) = s[<<0, 2, 6>>[3] + BitsTo(k, j - 1)]
            <4> HIDE DEF n, x, s
            <4>1. (j - 1) % 4 = 3 /\ (j - 1) \div 4 = q /\ 3 \in 1 .. 3 BY <1>2, <2>2
            <4> QED BY <1>slot, <4>1
        <3> QED BY <2>3, <3>1
    <2>5. PathHash(k, j) = f[x] BY <1>2, <2>2 DEF PathHash, ChildHashes, ChildHash
    <2>6. Neighbour(k, j) = f[Flip(x)] BY <1>2, <1>5, <1>10, <2>1 DEF Neighbour, ChildHashes
    <2>7. s[i] = Hash(f[2 * (x \div 2)], f[2 * (x \div 2) + 1])
        <3> HIDE DEF x
        <3>1. i \in 6 .. 13 /\ i \in Slots /\ 2 * (i - 6) = 2 * (x \div 2)
            BY <1>2, <1>5 DEF Slots
        <3>2. 2 * (x \div 2) \in 0 .. 15 /\ 2 * (x \div 2) + 1 \in 0 .. 15
              /\ 2 * (x \div 2) + 0 = 2 * (x \div 2)
            BY <1>2
        <3>3. s[i] = Hash(Below(versions, internals, n, i, 0), Below(versions, internals, n, i, 1))
            BY <1>3, <3>1 DEF Merkle
        <3>4. s[i] = Hash(ChildHash(versions, n, 2 * (x \div 2) + 0),
                          ChildHash(versions, n, 2 * (x \div 2) + 1))
            BY <3>1, <3>3, BelowFacts
        <3> QED BY <3>2, <3>4 DEF ChildHashes
    <2> HIDE DEF f, n, x, s
    <2>8. Pair(x, f[x], f[Flip(x)]) = Hash(f[2 * (x \div 2)], f[2 * (x \div 2) + 1])
        BY <1>2, PairFacts
    <2> QED BY <2>1, <2>4, <2>5, <2>6, <2>7, <2>8
<1> QED BY <1>1, <1>7, <1>8, <1>9, <1>10

\* f is what VerifyProof computes for value val, up to entry m of the proof.
ProofChain(f, m, k, val, proof) ==
    /\ f = [i \in 0 .. m |-> f[i]]
    /\ f[0] = val
    /\ \A i \in 0 .. m : i # 0 =>
           f[i] = Pair(BitsTo(k, 4 * Levels + 1 - i), f[i - 1], proof[i])

LEMMA ProofChainExists ==
    ASSUME NEW k, NEW val, NEW proof, NEW m \in Nat
    PROVE  \E f : ProofChain(f, m, k, val, proof)
<1> DEFINE Good(i) == \E f : ProofChain(f, i, k, val, proof)
           Bad == {i \in Nat : ~Good(i)}
<1>1. Good(0)
    <2> DEFINE f == [i \in 0 .. 0 |-> val]
    <2>1. ProofChain(f, 0, k, val, proof) BY DEF ProofChain
    <2> QED BY <2>1
<1>2. ASSUME NEW i \in Nat, Good(i) PROVE Good(i + 1)
    <2>1. PICK f : ProofChain(f, i, k, val, proof) BY <1>2
    <2> DEFINE top == Pair(BitsTo(k, 4 * Levels + 1 - (i + 1)), f[i], proof[i + 1])
               g == [j \in 0 .. i + 1 |-> IF j = i + 1 THEN top ELSE f[j]]
    <2> HIDE DEF top
    <2>2. /\ \A j \in 0 .. i + 1 : j # i + 1 => j \in 0 .. i /\ g[j] = f[j]
          /\ g[i + 1] = top /\ g = [j \in 0 .. i + 1 |-> g[j]]
        OBVIOUS
    <2> HIDE DEF g
    <2>3. g[0] = val
        <3>1. 0 \in 0 .. i + 1 /\ 0 # i + 1 OBVIOUS
        <3>2. f[0] = val BY <2>1 DEF ProofChain
        <3> QED BY <2>2, <3>1, <3>2
    <2>4. ASSUME NEW j \in 0 .. i + 1, j # 0
          PROVE  g[j] = Pair(BitsTo(k, 4 * Levels + 1 - j), g[j - 1], proof[j])
        <3>1. j - 1 \in 0 .. i + 1 /\ j - 1 # i + 1 BY <2>4
        <3>2. g[j - 1] = f[j - 1] BY <2>2, <3>1
        <3>3. CASE j = i + 1
            <4>1. j - 1 = i BY <3>3
            <4> QED BY <2>2, <3>2, <3>3, <4>1 DEF top
        <3>4. CASE j # i + 1
            <4>1. j \in 0 .. i /\ g[j] = f[j] BY <2>2, <3>4
            <4>2. f[j] = Pair(BitsTo(k, 4 * Levels + 1 - j), f[j - 1], proof[j])
                BY <2>1, <2>4, <4>1 DEF ProofChain
            <4> QED BY <3>2, <4>1, <4>2
        <3> QED BY <3>3, <3>4
    <2> QED BY <2>2, <2>3, <2>4 DEF ProofChain
<1>3. Bad = {}
    <2> SUFFICES ASSUME Bad # {} PROVE FALSE OBVIOUS
    <2>1. Bad \in SUBSET Nat OBVIOUS
    <2> HIDE DEF Good
    <2>2. PICK i \in Bad : \A j \in Bad : i <= j BY <2>1, LeastNatural
    <2>3. i # 0 BY <1>1, <2>2
    <2>4. i - 1 \in Nat /\ (i - 1) + 1 = i /\ ~Good(i) BY <2>2, <2>3
    <2>5. i - 1 \notin Bad BY <2>2, <2>4
    <2> QED BY <1>2, <2>4, <2>5
<1> QED BY <1>3

\* VerifyProof compares the end of this chain with the root.
LEMMA VerifyChain ==
    ASSUME NEW k, NEW val, NEW proof
    PROVE  \E f : /\ ProofChain(f, 4 * Levels, k, val, proof)
                  /\ VerifyProof(k, val, proof) <=> f[4 * Levels] = Root(versions, RootNode)
<1> DEFINE m == 4 * Levels
           B(i) == BitsTo(k, 4 * Levels + 1 - i)
           g == CHOOSE g : g = [i \in 0 .. m |-> IF i = 0 THEN val
                                                 ELSE Pair(B(i), g[i - 1], proof[i])]
<1>0. m \in Nat BY LevelsType
<1>1. VerifyProof(k, val, proof) <=> g[m] = Root(versions, RootNode) BY DEF VerifyProof
<1>2. PICK f : ProofChain(f, m, k, val, proof) BY <1>0, ProofChainExists
<1>3. /\ f = [i \in 0 .. m |-> f[i]] /\ f[0] = val
      /\ \A i \in 0 .. m : i # 0 => f[i] = Pair(B(i), f[i - 1], proof[i])
    BY <1>2 DEF ProofChain
<1> HIDE DEF m, B
<1>4. f = [i \in 0 .. m |-> IF i = 0 THEN val ELSE Pair(B(i), f[i - 1], proof[i])]
    BY <1>3
<1>5. g = [i \in 0 .. m |-> IF i = 0 THEN val ELSE Pair(B(i), g[i - 1], proof[i])]
    BY <1>4
<1> HIDE DEF g
<1>6. 0 \in 0 .. m BY <1>0
<1>7. /\ g = [i \in 0 .. m |-> g[i]] /\ g[0] = val
      /\ \A i \in 0 .. m : i # 0 => g[i] = Pair(B(i), g[i - 1], proof[i])
    BY <1>5, <1>6
<1>8. ProofChain(g, m, k, val, proof) BY <1>7 DEF ProofChain, B
<1> QED BY <1>1, <1>8 DEF m

\* The hash function has no collisions.
Collisionless == \A a, b, c, d : Hash(a, b) = Hash(c, d) => a = c /\ b = d

LEMMA PairInjective ==
    ASSUME Collisionless, NEW i, NEW a, NEW b, NEW c, NEW d, Pair(i, a, b) = Pair(i, c, d)
    PROVE  a = c /\ b = d
<1>1. CASE i % 2 = 0 BY <1>1 DEF Pair, Collisionless
<1>2. CASE i % 2 # 0 BY <1>2 DEF Pair, Collisionless
<1> QED BY <1>1, <1>2

LEMMA PathEnds ==
    ASSUME NEW k \in Keys
    PROVE  PathHash(k, 0) = Root(versions, RootNode) /\ PathHash(k, 4 * Levels) = Root(versions, k)
<1>1. k \in Seq(0 .. 15) /\ Len(k) = Levels /\ Levels \in Nat BY LevelsType, NodeHashAssumption
<1>2. SubSeq(k, 1, 0) = RootNode /\ SubSeq(k, 1, Levels) = k BY <1>1 DEF RootNode
<1>3. (4 * Levels) \div 4 = Levels /\ (4 * Levels) % 4 = 0 /\ 0 \div 4 = 0 /\ 0 % 4 = 0 BY <1>1
<1> QED BY <1>2, <1>3 DEF PathHash

\* The root is that of an empty tree only if everything is empty: the
\* proof GetProof makes up of nilHashes is the one it would collect.
LEMMA EmptyPath ==
    ASSUME Hashed, Collisionless, NEW k \in Keys, Root(versions, RootNode) = NilHash(RootNode),
           NEW j \in 1 .. 4 * Levels
    PROVE  Neighbour(k, j) = nilHashes[j]
<1> DEFINE m == 4 * Levels
           Good(d) == PathHash(k, d) = nilHashes[d]
           Bad == {d \in Nat : d <= m /\ ~Good(d)}
<1>0. m \in Nat BY LevelsType
<1>1. ASSUME NEW d \in 1 .. m, Good(d - 1) PROVE Good(d) /\ Neighbour(k, d) = nilHashes[d]
    <2>1. PathHash(k, d - 1) = Pair(BitsTo(k, d), PathHash(k, d), Neighbour(k, d))
        BY <1>1, PathStep
    <2>2. nilHashes[d - 1] = Hash(nilHashes[d], nilHashes[d])
        <3>1. d - 1 \in 0 .. m /\ d - 1 # m /\ (d - 1) + 1 = d BY <1>0
        <3> QED BY <3>1, NilHashes
    <2>3. nilHashes[d - 1] = Pair(BitsTo(k, d), nilHashes[d], nilHashes[d]) BY <2>2 DEF Pair
    <2> QED BY <1>1, <2>1, <2>3, PairInjective
<1>2. Good(0)
    <2>1. NilHash(RootNode) = nilHashes[0]
        <3>1. 4 * Len(RootNode) = 0 BY RootType
        <3> QED BY <3>1 DEF NilHash
    <2> QED BY <2>1, PathEnds
<1> HIDE DEF m, Good
<1>3. Bad = {}
    <2> SUFFICES ASSUME Bad # {} PROVE FALSE OBVIOUS
    <2>1. Bad \in SUBSET Nat OBVIOUS
    <2>2. PICK d \in Bad : \A e \in Bad : d <= e BY <2>1, LeastNatural
    <2>3. d # 0 BY <1>2, <2>2
    <2>4. d \in 1 .. m /\ d - 1 \in Nat /\ d - 1 <= m BY <1>0, <2>2, <2>3
    <2>5. d - 1 \notin Bad BY <2>2, <2>4
    <2> QED BY <1>1, <2>2, <2>4, <2>5
<1>4. j \in 1 .. m /\ j - 1 \in Nat /\ j - 1 <= m BY <1>0 DEF m
<1>5. Good(j - 1) BY <1>3, <1>4
<1> QED BY <1>1, <1>4, <1>5

LEMMA ProofEntries ==
    ASSUME Hashed, Collisionless, NEW k \in Keys, NEW i \in 1 .. 4 * Levels
    PROVE  GetProof(k)[i] = Neighbour(k, 4 * Levels + 1 - i)
<1>1. 4 * Levels + 1 - i \in 1 .. 4 * Levels BY LevelsType
<1> QED BY <1>1, EmptyPath DEF GetProof

LEMMA ExactInHashedTree ==
    ASSUME Hashed, Collisionless, NEW k \in Keys, NEW val
    PROVE  VerifyProof(k, val, GetProof(k)) <=> val = Root(versions, k)
<1> DEFINE m == 4 * Levels
<1>0. m \in Nat BY LevelsType
<1>1. PICK f : /\ ProofChain(f, m, k, val, GetProof(k))
               /\ VerifyProof(k, val, GetProof(k)) <=> f[m] = Root(versions, RootNode)
    BY VerifyChain
<1> DEFINE Good(i) == f[i] = PathHash(k, m - i) <=> val = Root(versions, k)
           Bad == {i \in Nat : i <= m /\ ~Good(i)}
<1>2. Good(0)
    <2>1. f[0] = val /\ m - 0 = m BY <1>0, <1>1 DEF ProofChain
    <2> QED BY <2>1, PathEnds
<1>3. ASSUME NEW i \in Nat, i + 1 <= m, Good(i) PROVE Good(i + 1)
    <2> DEFINE j == m - i
    <2>1. j \in 1 .. m /\ m + 1 - (i + 1) = j /\ j - 1 = m - (i + 1) /\ i + 1 \in 1 .. m
          /\ i + 1 \in 0 .. m /\ i + 1 # 0 /\ (i + 1) - 1 = i
        BY <1>0, <1>3
    <2>2. f[i + 1] = Pair(BitsTo(k, j), f[i], GetProof(k)[i + 1])
        <3>1. f[i + 1] = Pair(BitsTo(k, m + 1 - (i + 1)), f[(i + 1) - 1], GetProof(k)[i + 1])
            BY <1>1, <2>1 DEF ProofChain
        <3> QED BY <2>1, <3>1
    <2>3. GetProof(k)[i + 1] = Neighbour(k, j)
        <3>1. GetProof(k)[i + 1] = Neighbour(k, m + 1 - (i + 1)) BY <2>1, ProofEntries
        <3> QED BY <2>1, <3>1
    <2>4. PathHash(k, m - (i + 1)) = Pair(BitsTo(k, j), PathHash(k, j), Neighbour(k, j))
        <3>1. PathHash(k, j - 1) = Pair(BitsTo(k, j), PathHash(k, j), Neighbour(k, j))
            BY <2>1, PathStep
        <3> QED BY <2>1, <3>1
    <2> HIDE DEF j, m
    <2>5. f[i + 1] = PathHash(k, m - (i + 1)) <=> f[i] = PathHash(k, j)
        BY <2>2, <2>3, <2>4, PairInjective
    <2> QED BY <1>3, <2>5 DEF j
<1> HIDE DEF m, Good
<1>4. Bad = {}
    <2> SUFFICES ASSUME Bad # {} PROVE FALSE OBVIOUS
    <2>1. Bad \in SUBSET Nat OBVIOUS
    <2>2. PICK i \in Bad : \A l \in Bad : i <= l BY <2>1, LeastNatural
    <2>3. i # 0 BY <1>2, <2>2
    <2>4. i - 1 \in Nat /\ (i - 1) + 1 = i /\ i <= m /\ i - 1 <= m /\ ~Good(i) BY <1>0, <2>2, <2>3
    <2>5. i - 1 \notin Bad BY <2>2, <2>4
    <2> QED BY <1>3, <2>4, <2>5
<1>5. Good(m) BY <1>0, <1>4
<1>6. m - m = 0 BY <1>0
<1>7. f[m] = Root(versions, RootNode) <=> val = Root(versions, k)
    BY <1>5, <1>6, PathEnds DEF Good
<1> QED BY <1>1, <1>7

\* A proof that GetProof collects verifies for the value of its key and for no
\* other, in every tree that is hashed, set or empty (GetProof, VerifyProof).
THEOREM ProofsExact ==
    ASSUME Collisionless PROVE Spec => []ProofsAreExact
<1>1. Inv => ProofsAreExact
    <2> SUFFICES ASSUME Inv, Idle, NEW k \in Keys, NEW val \in Value
                 PROVE  VerifyProof(k, val, GetProof(k)) <=> val = Root(versions, k)
        BY DEF ProofsAreExact
    <2>1. Hashed BY DEF Hashed, Inv, MerkleBut, Due, Idle, Merkle, SlotOK
    <2> QED BY <2>1, ExactInHashedTree
<1> QED BY <1>1, InvHolds, PTL

----------------------------------------------------------------------------
(* The plain Merkle tree: positions.                                       *)

Path == Seq(0 .. 15)

\* f is num in Number(s).
NumberChain(f, s) ==
    /\ f = [i \in 0 .. Len(s) |-> f[i]]
    /\ f[0] = 0
    /\ \A i \in 0 .. Len(s) : i # 0 => f[i] = 16 * f[i - 1] + s[i]

LEMMA NumberChainExists ==
    ASSUME NEW s \in Path PROVE \E f : NumberChain(f, s)
<1> DEFINE Made(f, i) == /\ f = [j \in 0 .. i |-> f[j]] /\ f[0] = 0
                         /\ \A j \in 0 .. i : j # 0 => f[j] = 16 * f[j - 1] + s[j]
           Good(i) == \E f : Made(f, i)
           Bad == {i \in Nat : ~Good(i)}
<1>1. Good(0)
    <2>1. Made([j \in 0 .. 0 |-> 0], 0) OBVIOUS
    <2> HIDE DEF Made
    <2> QED BY <2>1
<1>2. ASSUME NEW i \in Nat, Good(i) PROVE Good(i + 1)
    <2>1. PICK f : Made(f, i)
        <3> HIDE DEF Made
        <3> QED BY <1>2
    <2> DEFINE top == 16 * f[i] + s[i + 1]
               g == [j \in 0 .. i + 1 |-> IF j = i + 1 THEN top ELSE f[j]]
    <2> HIDE DEF top
    <2>2. /\ \A j \in 0 .. i + 1 : j # i + 1 => j \in 0 .. i /\ g[j] = f[j]
          /\ g[i + 1] = top /\ g = [j \in 0 .. i + 1 |-> g[j]]
        OBVIOUS
    <2> HIDE DEF g
    <2>3. 0 \in 0 .. i + 1 /\ 0 # i + 1 OBVIOUS
    <2>4. g[0] = 0 BY <2>1, <2>2, <2>3
    <2>5. ASSUME NEW j \in 0 .. i + 1, j # 0 PROVE g[j] = 16 * g[j - 1] + s[j]
        <3>1. j - 1 \in 0 .. i + 1 /\ j - 1 # i + 1 BY <2>5
        <3>2. g[j - 1] = f[j - 1] BY <2>2, <3>1
        <3>3. CASE j = i + 1
            <4>1. j - 1 = i BY <3>3
            <4> QED BY <2>2, <3>2, <3>3, <4>1 DEF top
        <3>4. CASE j # i + 1
            <4>1. j \in 0 .. i /\ g[j] = f[j] BY <2>2, <3>4
            <4>2. f[j] = 16 * f[j - 1] + s[j] BY <2>1, <2>5, <4>1
            <4> QED BY <3>2, <4>1, <4>2
        <3> QED BY <3>3, <3>4
    <2>6. \A j \in 0 .. i + 1 : j # 0 => g[j] = 16 * g[j - 1] + s[j] BY <2>5
    <2>7. g = [j \in 0 .. i + 1 |-> g[j]] BY <2>2
    <2>8. Made(g, i + 1) BY <2>4, <2>6, <2>7
    <2> HIDE DEF Made
    <2> QED BY <2>8
<1>3. Bad = {}
    <2> SUFFICES ASSUME Bad # {} PROVE FALSE OBVIOUS
    <2>1. Bad \in SUBSET Nat OBVIOUS
    <2> HIDE DEF Good
    <2>2. PICK i \in Bad : \A j \in Bad : i <= j BY <2>1, LeastNatural
    <2>3. i # 0 BY <1>1, <2>2
    <2>4. i - 1 \in Nat /\ (i - 1) + 1 = i /\ ~Good(i) BY <2>2, <2>3
    <2>5. i - 1 \notin Bad BY <2>2, <2>4
    <2> QED BY <1>2, <2>4, <2>5
<1>4. Len(s) \in Nat BY DEF Path
<1>5. Good(Len(s))
    <2> HIDE DEF Good
    <2> QED BY <1>3, <1>4
<1> QED BY <1>5 DEF NumberChain

LEMMA NumberIsChain ==
    ASSUME NEW s \in Path
    PROVE  \E f : NumberChain(f, s) /\ Number(s) = f[Len(s)]
<1> DEFINE l == Len(s)
           g == CHOOSE g : g = [i \in 0 .. l |-> IF i = 0 THEN 0 ELSE 16 * g[i - 1] + s[i]]
<1>0. l \in Nat BY DEF Path
<1>1. Number(s) = g[l] BY DEF Number
<1>2. PICK f : NumberChain(f, s) BY NumberChainExists
<1>3. /\ f = [i \in 0 .. l |-> f[i]] /\ f[0] = 0
      /\ \A i \in 0 .. l : i # 0 => f[i] = 16 * f[i - 1] + s[i]
    BY <1>2 DEF NumberChain
<1> HIDE DEF l
<1>4. f = [i \in 0 .. l |-> IF i = 0 THEN 0 ELSE 16 * f[i - 1] + s[i]] BY <1>3
<1>5. g = [i \in 0 .. l |-> IF i = 0 THEN 0 ELSE 16 * g[i - 1] + s[i]] BY <1>4
<1> HIDE DEF g
<1>6. 0 \in 0 .. l BY <1>0
<1>7. /\ g = [i \in 0 .. l |-> g[i]] /\ g[0] = 0
      /\ \A i \in 0 .. l : i # 0 => g[i] = 16 * g[i - 1] + s[i]
    BY <1>5, <1>6
<1>8. NumberChain(g, s) BY <1>7 DEF NumberChain, l
<1> QED BY <1>1, <1>8 DEF l

\* Chains of two sequences agree as far as the sequences do.
LEMMA NumberChainsAgree ==
    ASSUME NEW s \in Path, NEW t \in Path, Len(s) <= Len(t),
           \A i \in 1 .. Len(s) : t[i] = s[i],
           NEW f, NumberChain(f, s), NEW g, NumberChain(g, t)
    PROVE  f[Len(s)] = g[Len(s)] /\ f[Len(s)] \in Nat
<1> DEFINE Good(i) == f[i] = g[i] /\ f[i] \in Nat
           Bad == {i \in Nat : i <= Len(s) /\ ~Good(i)}
<1>0. Len(s) \in Nat /\ Len(t) \in Nat BY DEF Path
<1>1. Good(0) BY DEF NumberChain
<1>2. ASSUME NEW i \in Nat, i + 1 <= Len(s), Good(i) PROVE Good(i + 1)
    <2>1. /\ i + 1 \in 0 .. Len(s) /\ i + 1 \in 0 .. Len(t) /\ i + 1 # 0 /\ (i + 1) - 1 = i
          /\ i + 1 \in 1 .. Len(s)
        BY <1>0, <1>2
    <2>2. f[i + 1] = 16 * f[(i + 1) - 1] + s[i + 1] BY <2>1 DEF NumberChain
    <2>3. g[i + 1] = 16 * g[(i + 1) - 1] + t[i + 1] BY <2>1 DEF NumberChain
    <2>4. s[i + 1] \in 0 .. 15 /\ t[i + 1] = s[i + 1] BY <2>1 DEF Path
    <2>5. f[i + 1] = 16 * f[i] + s[i + 1] /\ g[i + 1] = 16 * g[i] + s[i + 1]
        BY <2>1, <2>2, <2>3, <2>4
    <2>6. \A a \in Nat, b \in 0 .. 15 : 16 * a + b \in Nat OBVIOUS
    <2>7. 16 * f[i] + s[i + 1] \in Nat BY <1>2, <2>4, <2>6
    <2> QED BY <1>2, <2>5, <2>7
<1> HIDE DEF Good
<1>3. Bad = {}
    <2> SUFFICES ASSUME Bad # {} PROVE FALSE OBVIOUS
    <2>1. Bad \in SUBSET Nat OBVIOUS
    <2>2. PICK i \in Bad : \A j \in Bad : i <= j BY <2>1, LeastNatural
    <2>3. i # 0 BY <1>1, <2>2
    <2>4. i - 1 \in Nat /\ (i - 1) + 1 = i /\ i <= Len(s) /\ i - 1 <= Len(s) /\ ~Good(i)
        BY <1>0, <2>2, <2>3
    <2>5. i - 1 \notin Bad BY <2>2, <2>4
    <2> QED BY <1>2, <2>4, <2>5
<1>4. Good(Len(s)) BY <1>0, <1>3
<1> QED BY <1>4 DEF Good

\* The positions of the children of a node.
LEMMA NumberStep ==
    ASSUME NEW s \in Path, NEW b \in 0 .. 15
    PROVE  Number(s) \in Nat /\ Number(Append(s, b)) = 16 * Number(s) + b
<1> DEFINE t == Append(s, b)
<1>1. t \in Path /\ Len(s) \in Nat /\ Len(t) = Len(s) + 1 /\ t[Len(t)] = b
      /\ \A i \in 1 .. Len(s) : t[i] = s[i]
    BY DEF Path
<1> HIDE DEF t
<1>2. PICK f : NumberChain(f, s) /\ Number(s) = f[Len(s)] BY NumberIsChain
<1>3. PICK g : NumberChain(g, t) /\ Number(t) = g[Len(t)] BY <1>1, NumberIsChain
<1>4. f[Len(s)] = g[Len(s)] /\ f[Len(s)] \in Nat
    BY <1>1, <1>2, <1>3, NumberChainsAgree
<1>5. Len(t) \in 0 .. Len(t) /\ Len(t) # 0 /\ Len(t) - 1 = Len(s) BY <1>1
<1>6. g[Len(t)] = 16 * g[Len(t) - 1] + t[Len(t)] BY <1>3, <1>5 DEF NumberChain
<1> QED BY <1>1, <1>2, <1>3, <1>4, <1>5, <1>6 DEF t

LEMMA NumberOfRoot == Number(<<>>) = 0
<1>1. <<>> \in Path /\ Len(<<>>) = 0 BY DEF Path
<1>2. PICK f : NumberChain(f, <<>>) /\ Number(<<>>) = f[Len(<<>>)] BY <1>1, NumberIsChain
<1> QED BY <1>1, <1>2 DEF NumberChain

LEMMA DigitsApart ==
    ASSUME NEW a \in Nat, NEW c \in Nat, NEW b \in 0 .. 15, NEW d \in 0 .. 15,
           16 * a + b = 16 * c + d
    PROVE  a = c /\ b = d
OBVIOUS

\* No two paths of one length have the same position.
LEMMA NumberInjective ==
    ASSUME NEW s \in Path, NEW t \in Path, Len(s) = Len(t), Number(s) = Number(t)
    PROVE  s = t
<1> DEFINE Good(l) == \A u, v \in Path :
                          Len(u) = l /\ Len(v) = l /\ Number(u) = Number(v) => u = v
           Bad == {l \in Nat : ~Good(l)}
<1>1. Good(0)
    <2>1. \A u \in Path : Len(u) = 0 => u = <<>> BY DEF Path
    <2> QED BY <2>1
<1>2. ASSUME NEW l \in Nat, Good(l) PROVE Good(l + 1)
    <2> SUFFICES ASSUME NEW u \in Path, NEW v \in Path, Len(u) = l + 1, Len(v) = l + 1,
                        Number(u) = Number(v)
                 PROVE  u = v
        OBVIOUS
    <2>1. ASSUME NEW w \in Path, Len(w) = l + 1
          PROVE  /\ Up(w) \in Path /\ Len(Up(w)) = l /\ Last(w) \in 0 .. 15
                 /\ w = Append(Up(w), Last(w))
        BY <2>1 DEF Up, Last, Path
    <2>2. ASSUME NEW w \in Path, Len(w) = l + 1
          PROVE  Number(Up(w)) \in Nat /\ Number(w) = 16 * Number(Up(w)) + Last(w)
        <3>1. Number(Append(Up(w), Last(w))) = 16 * Number(Up(w)) + Last(w) /\ Number(Up(w)) \in Nat
            BY <2>1, <2>2, NumberStep
        <3> QED BY <2>1, <2>2, <3>1
    <2>3. 16 * Number(Up(u)) + Last(u) = 16 * Number(Up(v)) + Last(v) BY <2>2
    <2>types. /\ Number(Up(u)) \in Nat /\ Number(Up(v)) \in Nat
          /\ Last(u) \in 0 .. 15 /\ Last(v) \in 0 .. 15
        BY <2>1, <2>2
    <2>apart. ASSUME NEW a, NEW b, NEW c, NEW d, a = Number(Up(u)), b = Last(u),
                 c = Number(Up(v)), d = Last(v)
          PROVE  a = c /\ b = d
        <3>1. a \in Nat /\ b \in 0 .. 15 /\ c \in Nat /\ d \in 0 .. 15 BY <2>types, <2>apart
        <3>2. 16 * a + b = 16 * c + d BY <2>3, <2>apart
        <3> QED BY <3>1, <3>2, DigitsApart
    <2>4. Number(Up(u)) = Number(Up(v)) /\ Last(u) = Last(v) BY <2>apart, Zenon
    <2>5. Up(u) = Up(v) BY <1>2, <2>1, <2>4
    <2> QED BY <2>1, <2>4, <2>5
<1> HIDE DEF Good
<1>3. Bad = {}
    <2> SUFFICES ASSUME Bad # {} PROVE FALSE OBVIOUS
    <2>1. Bad \in SUBSET Nat OBVIOUS
    <2>2. PICK i \in Bad : \A j \in Bad : i <= j BY <2>1, LeastNatural
    <2>3. i # 0 BY <1>1, <2>2
    <2>4. i - 1 \in Nat /\ (i - 1) + 1 = i /\ ~Good(i) BY <2>2, <2>3
    <2>5. i - 1 \notin Bad BY <2>2, <2>4
    <2> QED BY <1>2, <2>4, <2>5
<1>4. Len(s) \in Nat BY DEF Path
<1>5. Good(Len(s)) BY <1>3, <1>4
<1> QED BY <1>5 DEF Good

----------------------------------------------------------------------------
(* The plain Merkle tree: hashes.                                          *)

\* f is m in PlainMerkle, from depth a on.
PlainChain(f, a, m) ==
    /\ f = [d \in a .. m |-> [p \in Nat |-> f[d][p]]]
    /\ \A p \in Nat : f[m][p] = LeafAt(p)
    /\ \A d \in a .. m : d # m =>
           \A p \in Nat : f[d][p] = Hash(f[d + 1][2 * p], f[d + 1][2 * p + 1])

LEMMA PlainChainExists ==
    ASSUME NEW m \in Nat PROVE \E f : PlainChain(f, 0, m)
<1> DEFINE Good(i) == \E f : PlainChain(f, m - i, m)
           Bad == {i \in Nat : i <= m /\ ~Good(i)}
<1>1. Good(0)
    <2> DEFINE f == [d \in m .. m |-> [p \in Nat |-> LeafAt(p)]]
    <2>1. PlainChain(f, m, m) BY DEF PlainChain
    <2> QED BY <2>1
<1>2. ASSUME NEW i \in Nat, i + 1 <= m, Good(i) PROVE Good(i + 1)
    <2>1. PICK f : PlainChain(f, m - i, m) BY <1>2
    <2> DEFINE e == m - (i + 1)
               top == [p \in Nat |-> Hash(f[m - i][2 * p], f[m - i][2 * p + 1])]
               g == [d \in e .. m |-> IF d = e THEN top ELSE f[d]]
    <2>0. e \in Nat /\ e + 1 = m - i /\ e < m BY <1>2
    <2>2. \A p \in Nat : top[p] = Hash(f[m - i][2 * p], f[m - i][2 * p + 1]) OBVIOUS
    <2>3. top = [p \in Nat |-> top[p]] OBVIOUS
    <2> HIDE DEF top, e
    <2>4. /\ \A d \in e .. m : d # e => d \in m - i .. m /\ g[d] = f[d]
          /\ g[e] = top /\ g = [d \in e .. m |-> g[d]]
        BY <2>0
    <2> HIDE DEF g
    <2>5. ASSUME NEW d \in e .. m PROVE g[d] = [p \in Nat |-> g[d][p]]
        <3>1. CASE d = e BY <2>3, <2>4, <3>1
        <3>2. CASE d # e
            <4>1. d \in m - i .. m /\ g[d] = f[d] BY <2>4, <3>2
            <4>2. f[d] = [p \in Nat |-> f[d][p]] BY <2>1, <4>1 DEF PlainChain
            <4> QED BY <4>1, <4>2
        <3> QED BY <3>1, <3>2
    <2>6. ASSUME NEW d \in e .. m, d # m, NEW p \in Nat
          PROVE  g[d][p] = Hash(g[d + 1][2 * p], g[d + 1][2 * p + 1])
        <3>1. d + 1 \in e .. m /\ d + 1 # e BY <2>0, <2>6
        <3>2. g[d + 1] = f[d + 1] BY <2>4, <3>1
        <3>3. CASE d = e BY <2>0, <2>2, <2>4, <3>2, <3>3
        <3>4. CASE d # e
            <4>1. d \in m - i .. m /\ g[d] = f[d] BY <2>4, <3>4
            <4>2. f[d][p] = Hash(f[d + 1][2 * p], f[d + 1][2 * p + 1])
                BY <2>1, <2>6, <4>1 DEF PlainChain
            <4> QED BY <3>2, <4>1, <4>2
        <3> QED BY <3>3, <3>4
    <2>7. ASSUME NEW p \in Nat PROVE g[m][p] = LeafAt(p)
        <3>1. m \in e .. m /\ m # e BY <2>0
        <3> QED BY <2>1, <2>4, <3>1 DEF PlainChain
    <2>8. g = [d \in e .. m |-> [p \in Nat |-> g[d][p]]] BY <2>4, <2>5
    <2>9. PlainChain(g, e, m) BY <2>6, <2>7, <2>8 DEF PlainChain
    <2> QED BY <2>9 DEF e
<1>3. Bad = {}
    <2> SUFFICES ASSUME Bad # {} PROVE FALSE OBVIOUS
    <2>1. Bad \in SUBSET Nat OBVIOUS
    <2> HIDE DEF Good
    <2>2. PICK i \in Bad : \A j \in Bad : i <= j BY <2>1, LeastNatural
    <2>3. i # 0 BY <1>1, <2>2
    <2>4. i - 1 \in Nat /\ (i - 1) + 1 = i /\ i <= m /\ ~Good(i) BY <2>2, <2>3
    <2>5. i - 1 \notin Bad BY <2>2, <2>4
    <2>6. Good(i - 1) BY <2>4, <2>5
    <2> QED BY <1>2, <2>4, <2>6
<1>4. Good(m)
    <2> HIDE DEF Good
    <2> QED BY <1>3
<1>5. m - m = 0 OBVIOUS
<1> QED BY <1>4, <1>5

LEMMA PlainIsChain == \E f : PlainChain(f, 0, 4 * Levels) /\ PlainMerkle = f[0][0]
<1> DEFINE m == 4 * Levels
           g == CHOOSE g : g = [d \in 0 .. m |->
                    [p \in Nat |-> IF d = m THEN LeafAt(p)
                                   ELSE Hash(g[d + 1][2 * p], g[d + 1][2 * p + 1])]]
<1>0. m \in Nat BY LevelsType
<1>1. PlainMerkle = g[0][0] BY DEF PlainMerkle
<1>2. PICK f : PlainChain(f, 0, m) BY <1>0, PlainChainExists
<1> HIDE DEF m
<1>3. f = [d \in 0 .. m |-> [p \in Nat |-> IF d = m THEN LeafAt(p)
                                           ELSE Hash(f[d + 1][2 * p], f[d + 1][2 * p + 1])]]
    <2>1. \A d \in 0 .. m : \A p \in Nat :
              f[d][p] = IF d = m THEN LeafAt(p) ELSE Hash(f[d + 1][2 * p], f[d + 1][2 * p + 1])
        BY <1>2 DEF PlainChain
    <2>2. f = [d \in 0 .. m |-> [p \in Nat |-> f[d][p]]] BY <1>2 DEF PlainChain
    <2> QED BY <2>1, <2>2
<1>4. g = [d \in 0 .. m |-> [p \in Nat |-> IF d = m THEN LeafAt(p)
                                           ELSE Hash(g[d + 1][2 * p], g[d + 1][2 * p + 1])]]
    BY <1>3
<1> HIDE DEF g
<1>5. \A d \in 0 .. m : \A p \in Nat :
          g[d][p] = IF d = m THEN LeafAt(p) ELSE Hash(g[d + 1][2 * p], g[d + 1][2 * p + 1])
    <2> TAKE d \in 0 .. m
    <2>1. g[d] = [p \in Nat |-> IF d = m THEN LeafAt(p)
                                ELSE Hash(g[d + 1][2 * p], g[d + 1][2 * p + 1])]
        BY <1>4
    <2> QED BY <2>1
<1>6. g = [d \in 0 .. m |-> [p \in Nat |-> g[d][p]]]
    <2>1. g = [d \in 0 .. m |-> g[d]] BY <1>4
    <2>2. \A d \in 0 .. m : g[d] = [p \in Nat |-> g[d][p]] BY <1>4
    <2> QED BY <2>1, <2>2
<1>7. m \in 0 .. m BY <1>0
<1>8. PlainChain(g, 0, m) BY <1>5, <1>6, <1>7 DEF PlainChain
<1> QED BY <1>1, <1>8 DEF m

\* The sixteen hashes four levels below a position.
Sixteen(f, d, p) == [b \in 0 .. 15 |-> f[d + 4][16 * p + b]]

\* Four levels of the plain tree are one node.
LEMMA FourLevels ==
    ASSUME NEW m \in Nat, NEW f, PlainChain(f, 0, m), NEW d \in Nat, d + 4 <= m, NEW p \in Nat
    PROVE  f[d][p] = Fold16(Sixteen(f, d, p))
<1>1. ASSUME NEW e \in d .. d + 3, NEW x \in Nat
      PROVE  f[e][x] = Hash(f[e + 1][2 * x], f[e + 1][2 * x + 1])
    <2>1. e \in 0 .. m /\ e # m OBVIOUS
    <2> QED BY <2>1 DEF PlainChain
<1> DEFINE h == f[d + 4]
<1>2. /\ d \in d .. d + 3 /\ d + 1 \in d .. d + 3 /\ d + 2 \in d .. d + 3 /\ d + 3 \in d .. d + 3
      /\ (d + 1) + 1 = d + 2 /\ (d + 2) + 1 = d + 3 /\ (d + 3) + 1 = d + 4
    OBVIOUS
<1>3. ASSUME NEW x \in Nat PROVE f[d + 3][x] = Hash(h[2 * x], h[2 * x + 1]) BY <1>1, <1>2
<1> HIDE DEF h
<1>4. ASSUME NEW x \in Nat
      PROVE  f[d + 2][x] = Hash(Hash(h[4 * x], h[4 * x + 1]), Hash(h[4 * x + 2], h[4 * x + 3]))
    <2>1. f[d + 2][x] = Hash(f[d + 3][2 * x], f[d + 3][2 * x + 1]) BY <1>1, <1>2
    <2>2. /\ 2 * x \in Nat /\ 2 * x + 1 \in Nat /\ 2 * (2 * x) = 4 * x
          /\ 2 * (2 * x + 1) = 4 * x + 2 /\ 2 * (2 * x + 1) + 1 = 4 * x + 3
        OBVIOUS
    <2>3. f[d + 3][2 * x] = Hash(h[2 * (2 * x)], h[2 * (2 * x) + 1]) BY <1>3, <2>2
    <2>4. f[d + 3][2 * x + 1] = Hash(h[2 * (2 * x + 1)], h[2 * (2 * x + 1) + 1]) BY <1>3, <2>2
    <2> QED BY <2>1, <2>2, <2>3, <2>4
<1> DEFINE Four(y) == Hash(Hash(h[y], h[y + 1]), Hash(h[y + 2], h[y + 3]))
<1>5. ASSUME NEW x \in Nat PROVE f[d + 1][x] = Hash(Four(8 * x), Four(8 * x + 4))
    <2>1. f[d + 1][x] = Hash(f[d + 2][2 * x], f[d + 2][2 * x + 1]) BY <1>1, <1>2
    <2>2. /\ 2 * x \in Nat /\ 2 * x + 1 \in Nat /\ 4 * (2 * x) = 8 * x
          /\ 4 * (2 * x + 1) = 8 * x + 4
          /\ 4 * (2 * x + 1) + 1 = 8 * x + 4 + 1 /\ 4 * (2 * x + 1) + 2 = 8 * x + 4 + 2
          /\ 4 * (2 * x + 1) + 3 = 8 * x + 4 + 3
        OBVIOUS
    <2>3. f[d + 2][2 * x] = Four(4 * (2 * x)) BY <1>4, <2>2
    <2>4. f[d + 2][2 * x + 1] = Four(4 * (2 * x + 1)) BY <1>4, <2>2
    <2> HIDE DEF Four
    <2> QED BY <2>1, <2>2, <2>3, <2>4
<1>6. f[d][p] = Hash(Hash(Four(16 * p), Four(16 * p + 4)), Hash(Four(16 * p + 8), Four(16 * p + 12)))
    <2>1. f[d][p] = Hash(f[d + 1][2 * p], f[d + 1][2 * p + 1]) BY <1>1, <1>2
    <2>2. /\ 2 * p \in Nat /\ 2 * p + 1 \in Nat /\ 8 * (2 * p) = 16 * p
          /\ 8 * (2 * p + 1) = 16 * p + 8 /\ 8 * (2 * p + 1) + 4 = 16 * p + 12
        OBVIOUS
    <2> HIDE DEF Four
    <2>3. f[d + 1][2 * p] = Hash(Four(8 * (2 * p)), Four(8 * (2 * p) + 4)) BY <1>5, <2>2
    <2>4. f[d + 1][2 * p + 1] = Hash(Four(8 * (2 * p + 1)), Four(8 * (2 * p + 1) + 4))
        BY <1>5, <2>2
    <2> QED BY <2>1, <2>2, <2>3, <2>4
<1> DEFINE c == [b \in 0 .. 15 |-> h[16 * p + b]]
           CFour(i) == Hash(Hash(c[i], c[i + 1]), Hash(c[i + 2], c[i + 3]))
<1>7. \A b \in 0 .. 15 : c[b] = h[16 * p + b] OBVIOUS
<1> HIDE DEF c
<1>8. ASSUME NEW b \in {0, 4, 8, 12} PROVE CFour(b) = Four(16 * p + b)
    <2>1. b \in 0 .. 15 /\ b + 1 \in 0 .. 15 /\ b + 2 \in 0 .. 15 /\ b + 3 \in 0 .. 15 OBVIOUS
    <2>2. /\ 16 * p + b + 1 = 16 * p + (b + 1) /\ 16 * p + b + 2 = 16 * p + (b + 2)
          /\ 16 * p + b + 3 = 16 * p + (b + 3)
        OBVIOUS
    <2> QED BY <1>7, <2>1, <2>2
<1>9. Fold16(c) = Hash(Hash(CFour(0), CFour(4)), Hash(CFour(8), CFour(12))) BY DEF Fold16
<1>10. 16 * p + 0 = 16 * p OBVIOUS
<1>11. Fold16(c) = f[d][p]
    <2> HIDE DEF Four, CFour
    <2> QED BY <1>6, <1>8, <1>9, <1>10
<1> QED BY <1>11 DEF c, h, Sixteen

----------------------------------------------------------------------------
(* The tree of nodes is the plain tree, four levels at a time.             *)

\* The hash of the subtree at a path: that of its node if it has one.
PlaceHash(n) == IF n \in Nodes THEN Root(versions, n) ELSE nilHashes[4 * Len(n)]

\* A leaf is at the position of its key and at no other.
LEMMA LeafAtKey ==
    ASSUME NEW n \in Path, Len(n) = Levels
    PROVE  LeafAt(Number(n)) = PlaceHash(n)
<1>1. Keys \subseteq Path /\ \A k \in Keys : Len(k) = Levels
    BY LevelsType, NodeHashAssumption DEF Path
<1> DEFINE held == {k \in Keys : Number(k) = Number(n)}
<1>2. \A k \in held : k = n BY <1>1, NumberInjective
<1>3. n \in Nodes <=> n \in Keys
    <2>1. n \in Nodes => n \in Keys BY NodeType, LevelsType DEF Inner
    <2>2. ASSUME n \in Keys PROVE n \in Nodes
        <3>1. SubSeq(n, 1, Len(n)) = n /\ Len(n) \in 0 .. Len(n) BY LevelsType DEF Path
        <3> QED BY <2>2, <3>1 DEF Nodes
    <2> QED BY <2>1, <2>2
<1>4. CASE n \in Keys
    <2>1. held = {n} BY <1>2, <1>4
    <2>2. (CHOOSE k \in held : TRUE) = n BY <2>1
    <2> QED BY <1>3, <1>4, <2>1, <2>2 DEF LeafAt, PlaceHash
<1>5. CASE n \notin Keys
    <2>1. held = {} BY <1>2, <1>5
    <2> QED BY <1>3, <1>5, <2>1, NilHashes DEF LeafAt, PlaceHash
<1> QED BY <1>4, <1>5

\* A subtree without a node is empty: sixteen nil hashes make the nil hash
\* four levels up.
LEMMA NilFold ==
    ASSUME NEW q \in Nat, q < Levels, NEW c, \A b \in 0 .. 15 : c[b] = nilHashes[4 * q + 4]
    PROVE  Fold16(c) = nilHashes[4 * q]
<1>0. Levels \in Nat BY LevelsType
<1> DEFINE d == 4 * q
<1>1. ASSUME NEW e \in {d, d + 1, d + 2, d + 3}
      PROVE  nilHashes[e] = Hash(nilHashes[e + 1], nilHashes[e + 1])
    <2>1. e \in 0 .. (4 * Levels) /\ e # 4 * Levels BY <1>0
    <2> QED BY <2>1, NilHashes
<1>2. d \in Nat /\ (d + 1) + 1 = d + 2 /\ (d + 2) + 1 = d + 3 /\ (d + 3) + 1 = d + 4 OBVIOUS
<1>3. \A b \in 0 .. 15 : c[b] = nilHashes[d + 4] OBVIOUS
<1> HIDE DEF d
<1>4. /\ nilHashes[d + 3] = Hash(nilHashes[d + 4], nilHashes[d + 4])
      /\ nilHashes[d + 2] = Hash(nilHashes[d + 3], nilHashes[d + 3])
      /\ nilHashes[d + 1] = Hash(nilHashes[d + 2], nilHashes[d + 2])
      /\ nilHashes[d] = Hash(nilHashes[d + 1], nilHashes[d + 1])
    BY <1>1, <1>2
<1>5. Fold16(c) = nilHashes[d] BY <1>3, <1>4 DEF Fold16
<1> QED BY <1>5 DEF d

\* The hash at a place is that of the sixteen places below it.
LEMMA PlaceStep ==
    ASSUME Hashed, NEW n \in Path, Len(n) < Levels
    PROVE  PlaceHash(n) = Fold16([b \in 0 .. 15 |-> PlaceHash(Append(n, b))])
<1> DEFINE c == [b \in 0 .. 15 |-> PlaceHash(Append(n, b))]
<1>0. Len(n) \in Nat /\ \A b \in 0 .. 15 : Len(Append(n, b)) = Len(n) + 1 BY DEF Path
<1>depth. 4 * (Len(n) + 1) = 4 * Len(n) + 4 BY <1>0
<1>1. CASE n \in Nodes
    <2>1. n \in Inner BY <1>1, NodeType
    <2>2. Merkle(versions, internals, n) BY <2>1 DEF Hashed
    <2>3. Root(versions, n) = Fold16(ChildHashes(versions, n))
        BY <2>2, SlotsFold DEF Merkle, SlotOK
    <2>4. ASSUME NEW b \in 0 .. 15 PROVE ChildHash(versions, n, b) = PlaceHash(Append(n, b))
        BY <1>0, <1>depth DEF ChildHash, PlaceHash
    <2>5. ChildHashes(versions, n) = c BY <2>4 DEF ChildHashes
    <2> QED BY <1>1, <2>3, <2>5 DEF PlaceHash
<1>2. CASE n \notin Nodes
    <2>1. ASSUME NEW b \in 0 .. 15 PROVE Append(n, b) \notin Nodes
        <3> SUFFICES ASSUME Append(n, b) \in Nodes PROVE FALSE OBVIOUS
        <3>1. SubSeq(Append(n, b), 1, Len(n)) = n /\ Len(n) \in 0 .. Len(Append(n, b))
            BY DEF Path
        <3> QED BY <1>2, <3>1, NodeType
    <2>2. \A b \in 0 .. 15 : c[b] = nilHashes[4 * Len(n) + 4]
        BY <1>0, <1>depth, <2>1 DEF PlaceHash
    <2> HIDE DEF c
    <2>3. Fold16(c) = nilHashes[4 * Len(n)] BY <1>0, <2>2, NilFold
    <2> QED BY <1>2, <2>3 DEF PlaceHash, c
<1> QED BY <1>1, <1>2

\* A node has the hash the plain tree has at its position.
LEMMA PlainAtPlace ==
    ASSUME Hashed, NEW f, PlainChain(f, 0, 4 * Levels), NEW s \in Path, Len(s) <= Levels
    PROVE  f[4 * Len(s)][Number(s)] = PlaceHash(s)
<1> DEFINE Good(i) == \A n \in Path : Len(n) = Levels - i => f[4 * Len(n)][Number(n)] = PlaceHash(n)
           Bad == {i \in Nat : i <= Levels /\ ~Good(i)}
<1>0. Levels \in Nat BY LevelsType
<1>types. \A n \in Path : Number(n) \in Nat /\ Len(n) \in Nat
    <2> TAKE n \in Path
    <2>1. 0 \in 0 .. 15 OBVIOUS
    <2> QED BY <2>1, NumberStep DEF Path
<1>1. Good(0)
    <2> SUFFICES ASSUME NEW n \in Path, Len(n) = Levels - 0
                 PROVE  f[4 * Len(n)][Number(n)] = PlaceHash(n)
        OBVIOUS
    <2>1. Len(n) = Levels BY <1>0
    <2>2. f[4 * Levels][Number(n)] = LeafAt(Number(n)) BY <1>types DEF PlainChain
    <2> QED BY <2>1, <2>2, LeafAtKey
<1>2. ASSUME NEW i \in Nat, i + 1 <= Levels, Good(i) PROVE Good(i + 1)
    <2> SUFFICES ASSUME NEW n \in Path, Len(n) = Levels - (i + 1)
                 PROVE  f[4 * Len(n)][Number(n)] = PlaceHash(n)
        OBVIOUS
    <2>1. Len(n) \in Nat /\ Len(n) < Levels /\ Len(n) + 1 = Levels - i BY <1>0, <1>2, <1>types
    <2>2. 4 * Levels \in Nat /\ 4 * Len(n) \in Nat /\ 4 * Len(n) + 4 <= 4 * Levels
        BY <1>0, <2>1
    <2>3. f[4 * Len(n)][Number(n)] = Fold16(Sixteen(f, 4 * Len(n), Number(n)))
        <3>1. Number(n) \in Nat BY <1>types
        <3> QED BY <2>2, <3>1, FourLevels
    <2>4. ASSUME NEW b \in 0 .. 15
          PROVE  f[4 * Len(n) + 4][16 * Number(n) + b] = PlaceHash(Append(n, b))
        <3>1. Append(n, b) \in Path /\ Len(Append(n, b)) = Len(n) + 1 BY DEF Path
        <3>2. f[4 * Len(Append(n, b))][Number(Append(n, b))] = PlaceHash(Append(n, b))
            BY <1>2, <2>1, <3>1
        <3>3. Number(Append(n, b)) = 16 * Number(n) + b BY NumberStep
        <3>4. 4 * Len(Append(n, b)) = 4 * Len(n) + 4 BY <2>1, <3>1
        <3> QED BY <3>2, <3>3, <3>4
    <2>5. Sixteen(f, 4 * Len(n), Number(n)) = [b \in 0 .. 15 |-> PlaceHash(Append(n, b))]
        BY <2>4 DEF Sixteen
    <2>6. PlaceHash(n) = Fold16([b \in 0 .. 15 |-> PlaceHash(Append(n, b))])
        BY <2>1, PlaceStep
    <2> QED BY <2>3, <2>5, <2>6
<1> HIDE DEF Good
<1>3. Bad = {}
    <2> SUFFICES ASSUME Bad # {} PROVE FALSE OBVIOUS
    <2>1. Bad \in SUBSET Nat OBVIOUS
    <2>2. PICK i \in Bad : \A j \in Bad : i <= j BY <2>1, LeastNatural
    <2>3. i # 0 BY <1>1, <2>2
    <2>4. i - 1 \in Nat /\ (i - 1) + 1 = i /\ i <= Levels /\ i - 1 <= Levels /\ ~Good(i)
        BY <1>0, <2>2, <2>3
    <2>5. i - 1 \notin Bad BY <2>2, <2>4
    <2>6. Good(i - 1) BY <2>4, <2>5
    <2> QED BY <1>2, <2>4, <2>6
<1>4. Levels - Len(s) \in Nat /\ Levels - Len(s) <= Levels /\ Len(s) = Levels - (Levels - Len(s))
    BY <1>0, <1>types
<1>5. Good(Levels - Len(s)) BY <1>3, <1>4
<1> QED BY <1>4, <1>5 DEF Good

\* The root is that of the plain binary Merkle tree over the leaves, for any
\* hash function, any set of keys and any history of sets, resets, commits and
\* rollbacks (TreeNode.SetChildren, TreeNode.Rollback): a root says which
\* leaves the tree has, not how it came to have them.
THEOREM RootPlain == Spec => []RootIsPlainMerkle
<1>1. Inv => RootIsPlainMerkle
    <2> SUFFICES ASSUME Inv, Idle PROVE Root(versions, RootNode) = PlainMerkle
        BY DEF RootIsPlainMerkle
    <2>1. Hashed BY DEF Hashed, Inv, MerkleBut, Due, Idle, Merkle, SlotOK
    <2>2. PICK f : PlainChain(f, 0, 4 * Levels) /\ PlainMerkle = f[0][0] BY PlainIsChain
    <2>3. RootNode \in Path /\ Len(RootNode) = 0 /\ RootNode \in Nodes /\ 0 <= Levels
        BY RootType, LevelsType DEF Path, RootNode
    <2>4. Number(RootNode) = 0 BY NumberOfRoot DEF RootNode
    <2>5. f[4 * Len(RootNode)][Number(RootNode)] = PlaceHash(RootNode)
        BY <2>1, <2>2, <2>3, PlainAtPlace
    <2>6. 4 * Len(RootNode) = 0 BY <2>3
    <2> QED BY <2>2, <2>3, <2>4, <2>5, <2>6 DEF PlaceHash
<1> QED BY <1>1, InvHolds, PTL
============================================================================
