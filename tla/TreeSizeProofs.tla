--------------------------- MODULE TreeSizeProofs ---------------------------
(***************************************************************************)
(* The size the tree keeps of its nodes in memory, and the garbage         *)
(* collection it decides on, for any keys, thresholds and widths.          *)
(***************************************************************************)
EXTENDS TreeSize, SMTRecords, FiniteSetTheorems

----------------------------------------------------------------------------
(* Sums over finite sets.                                                  *)

\* Induction over the subsets of a finite set, G being the good ones.
LEMMA SubsetInduction ==
    ASSUME NEW S, IsFiniteSet(S), NEW G, {} \in G,
           ASSUME NEW T \in SUBSET S, T # {}, \A x \in T : T \ {x} \in G PROVE T \in G
    PROVE  \A T \in SUBSET S : T \in G
<1> DEFINE Bad == {Cardinality(T) : T \in {T \in SUBSET S : T \notin G}}
<1>1. \A T \in SUBSET S : IsFiniteSet(T) /\ Cardinality(T) \in Nat
    BY FS_Subset, FS_CardinalityType
<1>2. Bad = {}
    <2> SUFFICES ASSUME Bad # {} PROVE FALSE OBVIOUS
    <2>1. Bad \in SUBSET Nat BY <1>1
    <2>2. PICK n \in Bad : \A m \in Bad : n <= m BY <2>1, LeastNatural
    <2>3. PICK T \in SUBSET S : T \notin G /\ Cardinality(T) = n OBVIOUS
    <2>4. ASSUME NEW x \in T PROVE T \ {x} \in G
        <3>1. T \ {x} \in SUBSET S OBVIOUS
        <3>2. Cardinality(T \ {x}) = Cardinality(T) - 1 BY <1>1, FS_RemoveElement
        <3>3. n \in Nat BY <2>1
        <3>4. Cardinality(T \ {x}) \notin Bad BY <2>2, <2>3, <3>2, <3>3
        <3> QED BY <3>1, <3>4
    <2>5. T # {} BY <2>3
    <2> QED BY <2>3, <2>4, <2>5
<1> QED BY <1>2

Pick(T) == CHOOSE x \in T : TRUE

\* h is the function by which SumFunctionOnSet(f, S) is defined, on the
\* subsets in D.
SumChain(h, f, D) ==
    /\ h = [T \in D |-> h[T]]
    /\ \A T \in D : h[T] = IF T = {} THEN 0 ELSE f[Pick(T)] + h[T \ {Pick(T)}]

LEMMA SumChainExists ==
    ASSUME NEW f, NEW S, IsFiniteSet(S)
    PROVE  \E h : SumChain(h, f, SUBSET S)
<1> DEFINE Within(i) == {T \in SUBSET S : Cardinality(T) <= i}
           Good(i) == \E h : SumChain(h, f, Within(i))
           Bad == {i \in Nat : ~Good(i)}
<1>0. \A T \in SUBSET S : IsFiniteSet(T) /\ Cardinality(T) \in Nat /\ Cardinality(T) <= Cardinality(S)
    BY FS_Subset, FS_CardinalityType
<1>1. Good(0)
    <2> DEFINE h == [T \in Within(0) |-> 0]
    <2>1. \A T \in Within(0) : T = {} BY <1>0, FS_EmptySet
    <2>2. SumChain(h, f, Within(0)) BY <2>1 DEF SumChain
    <2> QED BY <2>2
<1>2. ASSUME NEW i \in Nat, Good(i) PROVE Good(i + 1)
    <2>1. PICK h : SumChain(h, f, Within(i)) BY <1>2
    <2> DEFINE g == [T \in Within(i + 1) |-> IF T = {} THEN 0 ELSE f[Pick(T)] + h[T \ {Pick(T)}]]
    <2>2. ASSUME NEW T \in Within(i) PROVE T \in Within(i + 1) /\ g[T] = h[T]
        <3>1. T \in Within(i + 1) BY <1>0
        <3> QED BY <2>1, <3>1 DEF SumChain
    <2>3. ASSUME NEW T \in Within(i + 1), T # {} PROVE T \ {Pick(T)} \in Within(i)
        <3>1. Pick(T) \in T BY <2>3 DEF Pick
        <3>2. Cardinality(T \ {Pick(T)}) = Cardinality(T) - 1 BY <1>0, <3>1, FS_RemoveElement
        <3> QED BY <1>0, <3>2
    <2>4. g = [T \in Within(i + 1) |-> g[T]] OBVIOUS
    <2>5. \A T \in Within(i + 1) : g[T] = IF T = {} THEN 0 ELSE f[Pick(T)] + h[T \ {Pick(T)}] OBVIOUS
    <2> HIDE DEF g, Within
    <2>6. \A T \in Within(i + 1) : g[T] = IF T = {} THEN 0 ELSE f[Pick(T)] + g[T \ {Pick(T)}]
        BY <2>2, <2>3, <2>5
    <2>7. SumChain(g, f, Within(i + 1)) BY <2>4, <2>6 DEF SumChain
    <2> QED BY <2>7
<1>3. Bad = {}
    <2> HIDE DEF Good
    <2> SUFFICES ASSUME Bad # {} PROVE FALSE OBVIOUS
    <2>1. Bad \in SUBSET Nat OBVIOUS
    <2>2. PICK i \in Bad : \A j \in Bad : i <= j BY <2>1, LeastNatural
    <2>3. i # 0 BY <1>1, <2>2
    <2>4. i - 1 \in Nat /\ (i - 1) + 1 = i /\ ~Good(i) BY <2>2, <2>3
    <2>5. i - 1 \notin Bad BY <2>2, <2>4
    <2> QED BY <1>2, <2>4, <2>5
<1>4. Cardinality(S) \in Nat BY FS_CardinalityType
<1>5. Within(Cardinality(S)) = SUBSET S BY <1>0
<1>6. Good(Cardinality(S))
    <2> HIDE DEF Good
    <2> QED BY <1>3, <1>4
<1> QED BY <1>5, <1>6

Chain(h, f, S) == SumChain(h, f, SUBSET S)

LEMMA SumIsChain ==
    ASSUME NEW f, NEW S, IsFiniteSet(S)
    PROVE  \E h : Chain(h, f, S) /\ SumFunctionOnSet(f, S) = h[S]
<1> DEFINE g == CHOOSE g : g = [T \in SUBSET S |-> IF T = {} THEN 0
                                                   ELSE f[Pick(T)] + g[T \ {Pick(T)}]]
<1>1. SumFunctionOnSet(f, S) = g[S]
    BY DEF SumFunctionOnSet, FoldFunctionOnSet, MapThenFoldSet, Pick
<1>2. PICK h : Chain(h, f, S) BY SumChainExists DEF Chain
<1>3. h = [T \in SUBSET S |-> IF T = {} THEN 0 ELSE f[Pick(T)] + h[T \ {Pick(T)}]]
    BY <1>2 DEF Chain, SumChain
<1>4. g = [T \in SUBSET S |-> IF T = {} THEN 0 ELSE f[Pick(T)] + g[T \ {Pick(T)}]] BY <1>3
<1> HIDE DEF g
<1>5. Chain(g, f, S) BY <1>4 DEF Chain, SumChain
<1> QED BY <1>1, <1>5

Agree(f, e, S) == \A x \in S : f[x] = e[x]

\* The chains of functions that agree are the same.
LEMMA ChainsAgree ==
    ASSUME NEW S, IsFiniteSet(S), NEW A, NEW B, S \subseteq A, S \subseteq B,
           NEW f, NEW e, Agree(f, e, S),
           NEW h, Chain(h, f, A), NEW g, Chain(g, e, B)
    PROVE  h[S] = g[S]
<1> DEFINE G == {T \in SUBSET S : h[T] = g[T]}
<1>1. \A T \in SUBSET S : T \in SUBSET A /\ T \in SUBSET B OBVIOUS
<1>2. {} \in G BY <1>1 DEF Chain, SumChain
<1>3. ASSUME NEW T \in SUBSET S, T # {}, \A x \in T : T \ {x} \in G PROVE T \in G
    <2>1. Pick(T) \in T BY <1>3 DEF Pick
    <2>2. h[T] = f[Pick(T)] + h[T \ {Pick(T)}] /\ g[T] = e[Pick(T)] + g[T \ {Pick(T)}]
        BY <1>1, <1>3 DEF Chain, SumChain
    <2>3. h[T \ {Pick(T)}] = g[T \ {Pick(T)}] /\ f[Pick(T)] = e[Pick(T)] BY <1>3, <2>1 DEF Agree
    <2> QED BY <2>2, <2>3
<1> HIDE DEF G
<1>4. \A T \in SUBSET S : T \in G BY <1>2, <1>3, SubsetInduction
<1> QED BY <1>4 DEF G

Whole(f, S) == \A x \in S : f[x] \in Int

TakesAny(h, f, S) ==
    \A T \in SUBSET S : h[T] \in Int /\ \A y \in T : h[T] = f[y] + h[T \ {y}]

\* It does not matter which element a sum takes first.
LEMMA ChainTakes ==
    ASSUME NEW S, IsFiniteSet(S), NEW f, Whole(f, S), NEW h, Chain(h, f, S)
    PROVE  TakesAny(h, f, S)
<1>0. \A x \in S : f[x] \in Int BY DEF Whole
<1> DEFINE I == {T \in SUBSET S : h[T] \in Int}
           G == {T \in SUBSET S : \A y \in T : h[T] = f[y] + h[T \ {y}]}
<1>1. ASSUME NEW T \in SUBSET S, T # {}
      PROVE  Pick(T) \in T /\ h[T] = f[Pick(T)] + h[T \ {Pick(T)}]
    BY <1>1 DEF Pick, Chain, SumChain
<1>2. \A T \in SUBSET S : T \in I
    <2>1. {} \in SUBSET S /\ h[{}] = 0 BY DEF Chain, SumChain
    <2>2. ASSUME NEW T \in SUBSET S, T # {}, \A x \in T : T \ {x} \in I PROVE T \in I
        <3> DEFINE p == Pick(T)
        <3>0. p \in T /\ h[T] = f[p] + h[T \ {p}] BY <1>1, <2>2
        <3> HIDE DEF p
        <3>1. f[p] \in Int /\ h[T \ {p}] \in Int BY <1>0, <2>2, <3>0
        <3>2. h[T] \in Int BY <3>0, <3>1
        <3> QED BY <3>2
    <2>3. {} \in I BY <2>1
    <2> HIDE DEF I
    <2> QED BY <2>2, <2>3, SubsetInduction
<1>3. \A T \in SUBSET S : T \in G
    <2>1. {} \in G OBVIOUS
    <2>2. ASSUME NEW T \in SUBSET S, T # {}, \A x \in T : T \ {x} \in G PROVE T \in G
        <3> DEFINE p == Pick(T)
        <3>1. p \in T /\ h[T] = f[p] + h[T \ {p}] BY <1>1, <2>2
        <3> HIDE DEF p
        <3>2. ASSUME NEW y \in T, y # p PROVE h[T] = f[y] + h[T \ {y}]
            <4>1. y \in T \ {p} /\ p \in T \ {y} BY <3>1, <3>2
            <4>2. (T \ {p}) \ {y} = (T \ {y}) \ {p} OBVIOUS
            <4>3. h[T \ {p}] = f[y] + h[(T \ {y}) \ {p}] BY <2>2, <3>1, <4>1, <4>2
            <4>4. h[T \ {y}] = f[p] + h[(T \ {y}) \ {p}] BY <2>2, <4>1
            <4>5. f[p] \in Int /\ f[y] \in Int /\ h[(T \ {y}) \ {p}] \in Int
                BY <1>0, <1>2, <3>1
            <4> QED BY <3>1, <4>3, <4>4, <4>5
        <3> QED BY <3>1, <3>2
    <2> HIDE DEF G
    <2> QED BY <2>1, <2>2, SubsetInduction
<1> QED BY <1>2, <1>3 DEF TakesAny

LEMMA SumEmpty == ASSUME NEW f PROVE SumFunctionOnSet(f, {}) = 0
<1>1. IsFiniteSet({}) BY FS_EmptySet
<1>2. PICK h : Chain(h, f, {}) /\ SumFunctionOnSet(f, {}) = h[{}] BY <1>1, SumIsChain
<1> QED BY <1>2 DEF Chain, SumChain

LEMMA SumTakes ==
    ASSUME NEW f, NEW S, IsFiniteSet(S), \A x \in S : f[x] \in Int
    PROVE  /\ SumFunctionOnSet(f, S) \in Int
           /\ \A y \in S : SumFunctionOnSet(f, S) = f[y] + SumFunctionOnSet(f, S \ {y})
<1>0. Whole(f, S) BY DEF Whole
<1>1. PICK h : Chain(h, f, S) /\ SumFunctionOnSet(f, S) = h[S] BY SumIsChain
<1>2. h[S] \in Int /\ \A y \in S : h[S] = f[y] + h[S \ {y}]
    <2>1. TakesAny(h, f, S) BY <1>0, <1>1, ChainTakes
    <2>2. S \in SUBSET S OBVIOUS
    <2> QED BY <2>1, <2>2 DEF TakesAny
<1>3. ASSUME NEW y \in S PROVE h[S \ {y}] = SumFunctionOnSet(f, S \ {y})
    <2> DEFINE R == S \ {y}
    <2>1. IsFiniteSet(R) BY FS_RemoveElement
    <2>2. PICK g : Chain(g, f, R) /\ SumFunctionOnSet(f, R) = g[R] BY <2>1, SumIsChain
    <2>3. R \subseteq S /\ R \subseteq R /\ Agree(f, f, R) BY DEF Agree
    <2> HIDE DEF R
    <2>4. h[R] = g[R] BY <1>1, <2>1, <2>2, <2>3, ChainsAgree
    <2> QED BY <2>2, <2>4 DEF R
<1> QED BY <1>1, <1>2, <1>3

LEMMA SumSame ==
    ASSUME NEW S, IsFiniteSet(S), NEW f, NEW e, \A x \in S : f[x] = e[x]
    PROVE  SumFunctionOnSet(f, S) = SumFunctionOnSet(e, S)
<1>1. PICK h : Chain(h, f, S) /\ SumFunctionOnSet(f, S) = h[S] BY SumIsChain
<1>2. PICK g : Chain(g, e, S) /\ SumFunctionOnSet(e, S) = g[S] BY SumIsChain
<1>3. S \subseteq S /\ Agree(f, e, S) BY DEF Agree
<1> QED BY <1>1, <1>2, <1>3, ChainsAgree

\* The sum of a function is that of another and of what it is more by, on the
\* elements where it differs.
LEMMA SumChanges ==
    ASSUME NEW S, IsFiniteSet(S), NEW J \in SUBSET S, NEW f, NEW e, NEW d,
           \A x \in S : f[x] \in Int /\ e[x] \in Int,
           \A x \in J : d[x] \in Int /\ e[x] = f[x] + d[x],
           \A x \in S \ J : e[x] = f[x]
    PROVE  SumFunctionOnSet(e, S) = SumFunctionOnSet(f, S) + SumFunctionOnSet(d, J)
<1> DEFINE Sum(g, T) == SumFunctionOnSet(g, T)
           G == {T \in SUBSET S : Sum(e, T) = Sum(f, T) + Sum(d, T \cap J)}
<1>1. {} \in G
    <2>1. {} \cap J = {} OBVIOUS
    <2> QED BY <2>1, SumEmpty
<1>2. ASSUME NEW T \in SUBSET S, T # {}, \A x \in T : T \ {x} \in G PROVE T \in G
    <2>1. PICK x \in T : TRUE BY <1>2
    <2>2. IsFiniteSet(T) /\ IsFiniteSet(T \ {x}) /\ IsFiniteSet(T \cap J)
        BY FS_Subset, FS_RemoveElement
    <2>3. Sum(e, T \ {x}) = Sum(f, T \ {x}) + Sum(d, (T \ {x}) \cap J) BY <1>2, <2>1
    <2>4. /\ Sum(e, T) = e[x] + Sum(e, T \ {x}) /\ Sum(f, T) = f[x] + Sum(f, T \ {x})
          /\ Sum(f, T \ {x}) \in Int /\ Sum(e, T \ {x}) \in Int
        BY <2>2, SumTakes
    <2>5. IsFiniteSet((T \ {x}) \cap J) BY <2>2, FS_Subset
    <2>6. Sum(d, (T \ {x}) \cap J) \in Int BY <2>5, SumTakes
    <2> SUFFICES Sum(e, T) = Sum(f, T) + Sum(d, T \cap J) OBVIOUS
    <2> HIDE DEF Sum
    <2>7. CASE x \in J
        <3>1. Sum(d, T \cap J) = d[x] + Sum(d, (T \cap J) \ {x}) BY <2>2, <2>7, SumTakes DEF Sum
        <3>2. (T \cap J) \ {x} = (T \ {x}) \cap J OBVIOUS
        <3>3. e[x] = f[x] + d[x] /\ f[x] \in Int /\ d[x] \in Int BY <2>7
        <3>4. ASSUME NEW a, NEW b, NEW c, a = Sum(e, T \ {x}), b = Sum(f, T \ {x}),
                     c = Sum(d, (T \ {x}) \cap J)
              PROVE  Sum(e, T) = Sum(f, T) + Sum(d, T \cap J)
            <4>1. a = b + c /\ a \in Int /\ b \in Int /\ c \in Int BY <2>3, <2>4, <2>6, <3>4
            <4>2. Sum(e, T) = e[x] + a /\ Sum(f, T) = f[x] + b /\ Sum(d, T \cap J) = d[x] + c
                BY <2>4, <3>1, <3>2, <3>4
            <4> HIDE <3>4
            <4> QED BY <3>3, <4>1, <4>2
        <3> QED BY <3>4
    <2>8. CASE x \notin J
        <3>1. T \cap J = (T \ {x}) \cap J BY <2>8
        <3>2. e[x] = f[x] /\ f[x] \in Int BY <2>8
        <3>4. ASSUME NEW a, NEW b, NEW c, a = Sum(e, T \ {x}), b = Sum(f, T \ {x}),
                     c = Sum(d, (T \ {x}) \cap J)
              PROVE  Sum(e, T) = Sum(f, T) + Sum(d, T \cap J)
            <4>1. a = b + c /\ a \in Int /\ b \in Int /\ c \in Int BY <2>3, <2>4, <2>6, <3>4
            <4>2. Sum(e, T) = e[x] + a /\ Sum(f, T) = f[x] + b /\ Sum(d, T \cap J) = c
                BY <2>4, <3>1, <3>4
            <4> HIDE <3>4
            <4> QED BY <3>2, <4>1, <4>2
        <3> QED BY <3>4
    <2> QED BY <2>7, <2>8
<1> HIDE DEF G
<1>3. \A T \in SUBSET S : T \in G BY <1>1, <1>2, SubsetInduction
<1>4. S \cap J = J OBVIOUS
<1> QED BY <1>3, <1>4 DEF G

\* Elements that count nothing may be left out.
LEMMA SumOfPart ==
    ASSUME NEW S, IsFiniteSet(S), NEW J \in SUBSET S, NEW e, NEW d,
           \A x \in J : d[x] \in Int /\ e[x] = d[x], \A x \in S \ J : e[x] = 0
    PROVE  SumFunctionOnSet(e, S) = SumFunctionOnSet(d, J)
<1> DEFINE f == [x \in S |-> 0]
           G == {T \in SUBSET S : SumFunctionOnSet(f, T) = 0}
<1>1. {} \in G BY SumEmpty
<1>2. ASSUME NEW T \in SUBSET S, T # {}, \A x \in T : T \ {x} \in G PROVE T \in G
    <2>1. PICK x \in T : TRUE BY <1>2
    <2>2. IsFiniteSet(T) BY FS_Subset
    <2>3. \A y \in T : f[y] \in Int OBVIOUS
    <2>4. f[x] = 0 BY <2>1
    <2> HIDE DEF f
    <2>5. SumFunctionOnSet(f, T) = f[x] + SumFunctionOnSet(f, T \ {x}) BY <2>1, <2>2, <2>3, SumTakes
    <2> QED BY <1>2, <2>1, <2>4, <2>5
<1>3. \A x \in S : f[x] = 0 OBVIOUS
<1> HIDE DEF G, f
<1>4. \A T \in SUBSET S : T \in G BY <1>1, <1>2, SubsetInduction
<1>5. SumFunctionOnSet(f, S) = 0 BY <1>4 DEF G
<1>6. SumFunctionOnSet(e, S) = SumFunctionOnSet(f, S) + SumFunctionOnSet(d, J)
    BY <1>3, SumChanges
<1>7. SumFunctionOnSet(d, J) \in Int
    <2>1. IsFiniteSet(J) BY FS_Subset
    <2> QED BY <2>1, SumTakes
<1> QED BY <1>5, <1>6, <1>7

\* A sum of natural numbers is not below any of them.
LEMMA SumBounds ==
    ASSUME NEW S, IsFiniteSet(S), NEW f, \A x \in S : f[x] \in Nat
    PROVE  SumFunctionOnSet(f, S) \in Nat /\ \A x \in S : f[x] <= SumFunctionOnSet(f, S)
<1> DEFINE Sum(T) == SumFunctionOnSet(f, T)
           G == {T \in SUBSET S : Sum(T) \in Nat}
<1>1. {} \in G BY SumEmpty
<1>2. ASSUME NEW T \in SUBSET S, NEW x \in T, T \ {x} \in G
      PROVE  T \in G /\ f[x] <= Sum(T)
    <2>1. IsFiniteSet(T) BY FS_Subset
    <2>2. Sum(T) = f[x] + Sum(T \ {x}) BY <2>1, SumTakes
    <2>3. f[x] \in Nat /\ Sum(T \ {x}) \in Nat BY <1>2
    <2> HIDE DEF Sum
    <2>4. Sum(T) \in Nat /\ f[x] <= Sum(T) BY <2>2, <2>3
    <2> QED BY <2>4
<1>3. ASSUME NEW T \in SUBSET S, T # {}, \A x \in T : T \ {x} \in G PROVE T \in G
    BY <1>2, <1>3
<1> HIDE DEF G
<1>4. \A T \in SUBSET S : T \in G BY <1>1, <1>3, SubsetInduction
<1>5. S \in SUBSET S /\ \A x \in S : S \ {x} \in SUBSET S OBVIOUS
<1>6. \A x \in S : f[x] <= Sum(S) BY <1>2, <1>4, <1>5
<1> QED BY <1>4, <1>5, <1>6 DEF G

----------------------------------------------------------------------------
(* The nodes are finitely many.                                            *)

Short(i) == {s \in Seq(0 .. 15) : Len(s) <= i}

LEMMA ShortGrows ==
    ASSUME NEW i \in Nat, IsFiniteSet(Short(i)) PROVE IsFiniteSet(Short(i + 1))
<1> DEFINE D == Short(i) \X (0 .. 15)
           R == {s \in Seq(0 .. 15) : Len(s) <= i + 1 /\ s # <<>>}
           f == [p \in D |-> Append(p[1], p[2])]
<1>1. IsFiniteSet(0 .. 15)
    <2>1. 0 .. 15 \in SUBSET Nat /\ \A b \in 0 .. 15 : b <= 15 OBVIOUS
    <2> QED BY <2>1, FS_BoundedSetOfNaturals
<1>2. IsFiniteSet(D) BY <1>1, FS_Product
<1>3. ASSUME NEW p \in D PROVE f[p] \in R
    <2>1. f[p] = Append(p[1], p[2]) OBVIOUS
    <2>4. p[1] \in Short(i) /\ p[2] \in 0 .. 15 OBVIOUS
    <2>2. p[1] \in Seq(0 .. 15) /\ Len(p[1]) <= i BY <2>4 DEF Short
    <2>3. ASSUME NEW s \in Seq(0 .. 15), NEW b \in 0 .. 15, Len(s) <= i PROVE Append(s, b) \in R
        <3>1. Append(s, b) \in Seq(0 .. 15) /\ Len(Append(s, b)) = Len(s) + 1 OBVIOUS
        <3>2. Append(s, b) # <<>> BY <3>1
        <3> QED BY <2>3, <3>1, <3>2
    <2> QED BY <2>1, <2>2, <2>3, <2>4
<1>4. ASSUME NEW s \in R PROVE \E p \in D : f[p] = s
    <2> DEFINE u == SubSeq(s, 1, Len(s) - 1)
    <2>1. s \in Seq(0 .. 15) /\ Len(s) \in Nat /\ Len(s) > 0 /\ Len(s) <= i + 1 OBVIOUS
    <2>2. u \in Seq(0 .. 15) BY <2>1
    <2>6. Len(u) = Len(s) - 1
        <3>1. Len(s) - 1 \in 0 .. Len(s) BY <2>1
        <3>2. ASSUME NEW m \in 0 .. Len(s) PROVE Len(SubSeq(s, 1, m)) = m BY <2>1
        <3> QED BY <3>1, <3>2
    <2>3. s[Len(s)] \in 0 .. 15 BY <2>1
    <2>5. Append(u, s[Len(s)]) = s BY <2>1, <2>2, <2>3
    <2> HIDE DEF u
    <2>7. u \in Short(i) BY <2>1, <2>2, <2>6 DEF Short
    <2>4. <<u, s[Len(s)]>> \in D BY <2>3, <2>7
    <2> QED BY <2>4, <2>5
<1>5. f \in Surjection(D, R) BY <1>3, <1>4 DEF Surjection
<1> HIDE DEF D, R, f
<1>6. IsFiniteSet(R) BY <1>2, <1>5, FS_Surjection
<1>7. Short(i + 1) = R \cup {<<>>}
    <2>1. <<>> \in Short(i + 1) BY DEF Short
    <2>2. \A s \in Short(i + 1) : s \in R \cup {<<>>} BY DEF Short, R
    <2>3. \A s \in R : s \in Short(i + 1) BY DEF Short, R
    <2> QED BY <2>1, <2>2, <2>3
<1> QED BY <1>6, <1>7, FS_AddElement

\* Keys have one length, so there are finitely many of them, and of nodes.
LEMMA NodesFinite == IsFiniteSet(Nodes)
<1> DEFINE Bad == {i \in Nat : ~IsFiniteSet(Short(i))}
<1>1. IsFiniteSet(Short(0))
    <2>0. <<>> \in Short(0) /\ \A s \in Short(0) : s = <<>> BY DEF Short
    <2>1. Short(0) = {<<>>} BY <2>0
    <2> QED BY <2>1, FS_Singleton
<1>2. Bad = {}
    <2> SUFFICES ASSUME Bad # {} PROVE FALSE OBVIOUS
    <2>1. Bad \in SUBSET Nat OBVIOUS
    <2>2. PICK i \in Bad : \A j \in Bad : i <= j BY <2>1, LeastNatural
    <2>3. i # 0 BY <1>1, <2>2
    <2>4. i - 1 \in Nat /\ (i - 1) + 1 = i BY <2>2, <2>3
    <2>5. i - 1 \notin Bad BY <2>2, <2>4
    <2> QED BY <2>2, <2>4, <2>5, ShortGrows
<1>3. PICK k \in Keys : TRUE BY SMTAssumption
<1>4. Len(k) \in Nat /\ \A kk \in Keys : kk \in Seq(0 .. 15) /\ Len(kk) = Len(k) BY SMTAssumption
<1>5. ASSUME NEW n \in Nodes PROVE n \in Short(Len(k))
    <2>1. CASE n = RootNode BY <1>4, <2>1 DEF RootNode, Short
    <2>2. CASE n # RootNode
        <3>1. PICK kk \in Keys : n \in Prefixes(kk) BY <2>2 DEF Nodes
        <3>2. PICK i \in 0 .. Len(kk) : n = SubSeq(kk, 1, i) BY <3>1 DEF Prefixes
        <3>3. Len(n) <= Len(k) BY <1>4, <3>2
        <3> QED BY <3>3, NodesClosed DEF Short
    <2> QED BY <2>1, <2>2
<1>6. IsFiniteSet(Short(Len(k))) BY <1>2, <1>4
<1>7. Nodes \in SUBSET Short(Len(k)) BY <1>5
<1> QED BY <1>6, <1>7, FS_Subset

----------------------------------------------------------------------------
(* Arithmetic and extrema.                                                 *)

LEMMA WidthFacts ==
    /\ Width \in Nat /\ Width > 10 /\ Threshold \in Nat /\ Threshold < Width /\ Threshold >= 10
    /\ \A a \in Int : a % Width \in 0 .. (Width - 1)
    /\ \A a \in 0 .. (Width - 1) : a % Width = a
BY TreeSizeAssumption

\* Remainders add up.
LEMMA AddRemainders ==
    ASSUME NEW a \in Int, NEW b \in Int
    PROVE  ((a % Width) + b) % Width = (a + b) % Width
BY WidthFacts

LEMMA MinOfTwo ==
    ASSUME NEW a \in Nat PROVE Min({a, 9}) \in Classes /\ (a <= 9 => Min({a, 9}) = a)
<1> DEFINE m == IF a <= 9 THEN a ELSE 9
<1>1. m \in {a, 9} /\ \A y \in {a, 9} : m <= y OBVIOUS
<1>2. \A x \in {a, 9} : (\A y \in {a, 9} : x <= y) => x = m OBVIOUS
<1>3. Min({a, 9}) = m BY <1>1, <1>2 DEF Min
<1> QED BY <1>3 DEF Classes

LEMMA LeastClass ==
    ASSUME NEW S \in SUBSET Classes, S # {}
    PROVE  Min(S) \in S
<1>1. S \in SUBSET Nat BY DEF Classes
<1>2. \E m \in S : \A n \in S : m <= n BY <1>1, LeastNatural
<1> QED BY <1>2 DEF Min

LEMMA GreatestClass ==
    ASSUME NEW S \in SUBSET Classes, S # {}
    PROVE  Max(S) \in S
<1> DEFINE R == {9 - i : i \in S}
<1>0. \A i \in S : i \in Int /\ 9 - i \in Nat BY DEF Classes
<1>1. S \subseteq Int /\ R \in SUBSET Nat /\ R # {} BY <1>0
<1>2. PICK m \in R : \A n \in R : m <= n BY <1>1, LeastNatural
<1>3. PICK i \in S : m = 9 - i BY <1>2
<1>4. \A j \in S : 9 - j \in R OBVIOUS
<1>5. ASSUME NEW j \in S PROVE j <= i
    <2>1. m <= 9 - j BY <1>2, <1>4
    <2> QED BY <1>1, <1>3, <2>1
<1>6. \E x \in S : \A y \in S : x >= y BY <1>1, <1>5
<1> QED BY <1>6 DEF Max

----------------------------------------------------------------------------
(* Sizes.                                                                  *)

\* The size of a node.
LEMMA SizeType ==
    ASSUME NEW node \in Node
    PROVE  Size(node) \in Nat /\ Len(node.versions) \in Nat
<1>1. node.versions \in Seq(VersionInfo(Content)) BY DEF Node, Versions
<1>2. Len(node.versions) \in Nat BY <1>1
<1>3. versionSize = 40 /\ internalsSize = 448 BY DEF versionSize, internalsSize
<1>4. \A a \in Nat : a * 40 + 448 \in Nat /\ a * 40 + 0 \in Nat OBVIOUS
<1>5. CASE Resident(node) BY <1>2, <1>3, <1>4, <1>5 DEF Size
<1>6. CASE ~Resident(node) BY <1>2, <1>3, <1>4, <1>6 DEF Size
<1> QED BY <1>2, <1>5, <1>6

\* A sum of whole numbers is one.
LEMMA SumWhole ==
    ASSUME NEW S \in SUBSET Nodes, NEW f, DOMAIN f = S, \A n \in S : f[n] \in Int
    PROVE  SumFunction(f) = SumFunctionOnSet(f, S) /\ SumFunction(f) \in Int
<1>1. IsFiniteSet(S) BY NodesFinite, FS_Subset
<1>2. SumFunction(f) = SumFunctionOnSet(f, S) BY DEF SumFunction
<1> QED BY <1>1, <1>2, SumTakes

\* What Release counts fits the width.
LEMMA SizeOfTreeType ==
    ASSUME NEW t \in Tree PROVE SizeOfTree(t) \in 0 .. (Width - 1)
<1> DEFINE S == {m \in Nodes : t[m].state # "nil"}
           f == [n \in S |-> Size(t[n])]
<1>1. \A n \in S : f[n] \in Int BY SizeType DEF Tree
<1>2. S \in SUBSET Nodes /\ DOMAIN f = S OBVIOUS
<1> HIDE DEF S, f
<1>3. SumFunction(f) \in Int BY <1>1, <1>2, SumWhole
<1>4. SizeOfTree(t) = SumFunction(f) % Width BY DEF SizeOfTree, f, S
<1> QED BY <1>3, <1>4, WidthFacts

----------------------------------------------------------------------------
(* gcStatus.                                                               *)

Status == [sizes : [Classes -> 0 .. (Width - 1)], versions : [Classes -> 0 .. MaxVersion],
           latestGCVersion : 0 .. MaxVersion]

GoodStatus(stat) ==
    /\ stat \in Status
    /\ \A i \in Classes :
           /\ stat.sizes[i] > 0 <=> stat.versions[i] > 0
           /\ stat.sizes[i] > 0 => Min({stat.sizes[i] \div Segment, 9}) = i

LEMMA SegmentType ==
    /\ Segment \in Nat \ {0}
    /\ \A a \in Nat : a \div Segment \in Nat
<1>1. Segment \in Nat \ {0} BY TreeSizeAssumption DEF Segment
<1>2. \A s \in Nat \ {0} : \A a \in Nat : a \div s \in Nat OBVIOUS
<1> QED BY <1>1, <1>2

LEMMA EmptyStatusGood == GoodStatus(EmptyStatus)
BY SMTAssumption, WidthFacts DEF GoodStatus, Status, EmptyStatus

\* add records a commit in one class, and leaves the version last released.
LEMMA AddGood ==
    ASSUME NEW stat, GoodStatus(stat), NEW v \in 0 .. MaxVersion, NEW size \in 0 .. (Width - 1)
    PROVE  /\ GoodStatus(add(stat, v, size))
           /\ add(stat, v, size).latestGCVersion = stat.latestGCVersion
           /\ Recorded(stat) # {} => Recorded(add(stat, v, size)) # {}
           /\ v > 0 /\ size > 0 => Recorded(add(stat, v, size)) # {}
<1> DEFINE i == Min({size \div Segment, 9})
           new == [stat EXCEPT !.sizes[i] = size, !.versions[i] = v]
<1>0. size \in Nat /\ v \in Nat BY WidthFacts, SMTAssumption
<1>1. i \in Classes BY <1>0, SegmentType, MinOfTwo
<1>2. add(stat, v, size) = IF v = 0 \/ size = 0 THEN stat ELSE new BY DEF add
<1>3. stat \in Status BY DEF GoodStatus
<1>4. CASE v = 0 \/ size = 0 BY <1>0, <1>2, <1>4
<1>5. CASE v # 0 /\ size # 0
    <2>1. /\ new \in Status /\ new.latestGCVersion = stat.latestGCVersion
          /\ new.sizes = [stat.sizes EXCEPT ![i] = size]
          /\ new.versions = [stat.versions EXCEPT ![i] = v]
        BY <1>1, <1>3 DEF Status
    <2>2. Min({size \div Segment, 9}) = i OBVIOUS
    <2> HIDE DEF new, i
    <2>3. /\ new.sizes[i] = size /\ new.versions[i] = v
          /\ \A j \in Classes \ {i} : new.sizes[j] = stat.sizes[j] /\ new.versions[j] = stat.versions[j]
        BY <1>1, <1>3, <2>1 DEF Status
    <2>4. ASSUME NEW j \in Classes
          PROVE  /\ new.sizes[j] > 0 <=> new.versions[j] > 0
                 /\ new.sizes[j] > 0 => Min({new.sizes[j] \div Segment, 9}) = j
        <3>1. CASE j = i
            <4>1. new.sizes[j] = size /\ new.versions[j] = v BY <2>3, <3>1
            <4> QED BY <1>0, <1>5, <2>2, <3>1, <4>1
        <3>2. CASE j # i BY <2>3, <3>2 DEF GoodStatus
        <3> QED BY <3>1, <3>2
    <2>5. GoodStatus(new) BY <2>1, <2>4 DEF GoodStatus
    <2>6. i \in Recorded(new) BY <1>0, <1>1, <1>5, <2>3 DEF Recorded
    <2> QED BY <1>2, <1>5, <2>1, <2>5, <2>6
<1> QED BY <1>4, <1>5

\* A size that is not above the threshold after the release of nothing is not
\* enough: what pop finds enough was recorded.
LEMMA EnoughRecorded ==
    ASSUME NEW stat, GoodStatus(stat), NEW size \in 0 .. (Width - 1), size >= Threshold
    PROVE  Enough(stat, size) \subseteq Recorded(stat)
<1>1. ASSUME NEW i \in Classes, (size - stat.sizes[i]) % Width < Threshold
      PROVE  stat.sizes[i] > 0
    <2>1. stat.sizes[i] \in 0 .. (Width - 1) BY DEF GoodStatus, Status
    <2>2. size \in Int /\ size - 0 = size BY WidthFacts
    <2>3. (size - 0) % Width = size BY <2>2, WidthFacts
    <2>4. stat.sizes[i] # 0 BY <1>1, <2>2, <2>3, WidthFacts
    <2> QED BY <2>1, <2>4, WidthFacts
<1> QED BY <1>1 DEF Enough, Recorded

\* pop releases a version when the size has reached the threshold and some
\* commit was recorded.
LEMMA PopReleases ==
    ASSUME NEW stat, GoodStatus(stat), NEW size \in 0 .. (Width - 1)
    PROVE  /\ ReleaseVersion(stat, size) \in 0 .. MaxVersion
           /\ ReleaseVersion(stat, size) > 0 <=> size >= Threshold /\ Recorded(stat) # {}
<1>0. Enough(stat, size) \in SUBSET Classes /\ Recorded(stat) \in SUBSET Classes
    BY DEF Enough, Recorded
<1>1. CASE size < Threshold
    <2>1. Chosen(stat, size) = {} BY <1>1 DEF Chosen
    <2>2. ReleaseVersion(stat, size) = 0 BY <2>1 DEF ReleaseVersion
    <2> QED BY <1>1, <2>2, WidthFacts, SMTAssumption
<1>2. CASE Recorded(stat) = {}
    <2>1. Chosen(stat, size) = {} BY <1>2 DEF Chosen
    <2>2. ReleaseVersion(stat, size) = 0 BY <2>1 DEF ReleaseVersion
    <2> QED BY <1>2, <2>2, SMTAssumption
<1>3. CASE ~(size < Threshold) /\ Recorded(stat) # {}
    <2>1. size >= Threshold BY <1>3, WidthFacts
    <2>2. PICK i \in Recorded(stat) : Chosen(stat, size) = {i}
        <3>1. CASE Enough(stat, size) # {}
            <4>1. Chosen(stat, size) = {Min(Enough(stat, size))} BY <1>3, <3>1 DEF Chosen
            <4>2. Min(Enough(stat, size)) \in Enough(stat, size) BY <1>0, <3>1, LeastClass
            <4> QED BY <2>1, <4>1, <4>2, EnoughRecorded
        <3>2. CASE Enough(stat, size) = {}
            <4>1. Chosen(stat, size) = {Max(Recorded(stat))} BY <1>3, <3>2 DEF Chosen
            <4>2. Max(Recorded(stat)) \in Recorded(stat) BY <1>0, <1>3, GreatestClass
            <4> QED BY <4>1, <4>2
        <3> QED BY <3>1, <3>2
    <2>3. i \in Classes /\ stat.sizes[i] > 0 BY <2>2 DEF Recorded
    <2>4. Max({i}) = i
        <3>1. i \in Int BY <2>3 DEF Classes
        <3>2. \E x \in {i} : \A y \in {i} : x >= y BY <3>1
        <3> QED BY <3>2 DEF Max
    <2>5. ReleaseVersion(stat, size) = stat.versions[i] BY <2>2, <2>4 DEF ReleaseVersion
    <2>6. stat.versions[i] \in 0 .. MaxVersion /\ stat.versions[i] > 0
        BY <2>3 DEF GoodStatus, Status
    <2> QED BY <1>3, <2>1, <2>5, <2>6
<1> QED BY <1>1, <1>2, <1>3

LEMMA CleanGood ==
    ASSUME NEW stat, GoodStatus(stat), NEW index \in Int, NEW r \in 0 .. MaxVersion
    PROVE  GoodStatus([clean(stat, index) EXCEPT !.latestGCVersion = r])
<1>1. stat \in Status BY DEF GoodStatus
<1> DEFINE c == [clean(stat, index) EXCEPT !.latestGCVersion = r]
           sizes == [i \in Classes |-> IF i <= index THEN 0 ELSE stat.sizes[i]]
           versions == [i \in Classes |-> IF i <= index THEN 0 ELSE stat.versions[i]]
<1>2. /\ c.sizes = sizes /\ c.versions = versions
      /\ c = [sizes |-> c.sizes, versions |-> c.versions, latestGCVersion |-> r]
    <2>1. clean(stat, index) = [stat EXCEPT !.sizes = sizes, !.versions = versions] BY DEF clean
    <2> HIDE DEF sizes, versions
    <2>2. clean(stat, index) = [sizes |-> sizes, versions |-> versions,
                                latestGCVersion |-> stat.latestGCVersion]
        BY <1>1, <2>1 DEF Status
    <2>3. c = [sizes |-> sizes, versions |-> versions, latestGCVersion |-> r] BY <2>2
    <2> HIDE DEF c
    <2> QED BY <2>3
<1> HIDE DEF c
<1>3. \A i \in Classes : stat.sizes[i] \in 0 .. (Width - 1) /\ stat.versions[i] \in 0 .. MaxVersion
    BY <1>1 DEF Status
<1>4. c.sizes \in [Classes -> 0 .. (Width - 1)] /\ c.versions \in [Classes -> 0 .. MaxVersion]
    <2>1. 0 \in 0 .. (Width - 1) /\ 0 \in 0 .. MaxVersion BY WidthFacts, SMTAssumption
    <2>2. sizes \in [Classes -> 0 .. (Width - 1)] BY <1>3, <2>1
    <2>3. versions \in [Classes -> 0 .. MaxVersion] BY <1>3, <2>1
    <2> QED BY <1>2, <2>2, <2>3
<1>5. c \in Status BY <1>2, <1>4 DEF Status
<1>6. ASSUME NEW i \in Classes
      PROVE  /\ c.sizes[i] > 0 <=> c.versions[i] > 0
             /\ c.sizes[i] > 0 => Min({c.sizes[i] \div Segment, 9}) = i
    <2>1. CASE i <= index BY <1>2, <2>1
    <2>2. CASE ~(i <= index) BY <1>2, <2>2 DEF GoodStatus
    <2> QED BY <2>1, <2>2
<1> QED BY <1>5, <1>6 DEF GoodStatus, c

LEMMA PopGood ==
    ASSUME NEW stat, GoodStatus(stat), NEW size \in 0 .. (Width - 1)
    PROVE  /\ GoodStatus(StatusAfterPop(stat, size))
           /\ StatusAfterPop(stat, size).latestGCVersion =
                  IF size < Threshold THEN stat.latestGCVersion ELSE ReleaseVersion(stat, size)
           /\ size < Threshold => StatusAfterPop(stat, size) = stat
<1> DEFINE index == IF Enough(stat, size) = {} THEN 9 ELSE Min(Enough(stat, size))
           r == ReleaseVersion(stat, size)
<1>1. index \in Int
    <2>1. Enough(stat, size) \in SUBSET Classes BY DEF Enough
    <2> QED BY <2>1, LeastClass DEF Classes
<1>2. r \in 0 .. MaxVersion BY PopReleases
<1>3. StatusAfterPop(stat, size) =
        IF size < Threshold THEN stat ELSE [clean(stat, index) EXCEPT !.latestGCVersion = r]
    BY DEF StatusAfterPop
<1> HIDE DEF index, r
<1>4. [clean(stat, index) EXCEPT !.latestGCVersion = r].latestGCVersion = r
    <2>1. stat \in Status BY DEF GoodStatus
    <2> QED BY <2>1 DEF clean, Status
<1> QED BY <1>1, <1>2, <1>3, <1>4, CleanGood DEF r

----------------------------------------------------------------------------
(* The types of the sizes.                                                 *)

SizesOK ==
    /\ rootSize \in 0 .. (Width - 1) /\ lastSaveRootSize \in 0 .. (Width - 1)
    /\ GoodStatus(gcStatus)
    /\ disturbed \in Nat

LEMMA SizesOKType == SizesOK => SizeTypeOK
BY DEF SizesOK, SizeTypeOK, GoodStatus, Status

\* What a commit adds to the size.
CommitChange(recent) ==
    SumFunction([n \in journal |-> Changed(n, Len(Pruned(recent, journal)[n].versions))])

CurrentSize(recent) == (rootSize + CommitChange(recent)) % Width

LEMMA ChangedType ==
    ASSUME TypeOK, NEW n \in Nodes, NEW kept \in Nat PROVE Changed(n, kept) \in Int
<1>1. Size(root[n]) \in Nat /\ Len(root[n].versions) \in Nat BY SizeType DEF TypeOK
<1>2. \A a, b \in Int : a - 40 * b \in Int OBVIOUS
<1> QED BY <1>1, <1>2 DEF Changed, versionSize

LEMMA CommitChangeType ==
    ASSUME TypeOK, NEW recent \in NoVersion .. MaxVersion
    PROVE  CommitChange(recent) \in Int
<1> DEFINE t == Pruned(recent, journal)
           f == [n \in journal |-> Changed(n, Len(t[n].versions))]
<1>1. journal \in SUBSET Nodes /\ t \in Tree BY PrunedType DEF TypeOK
<1> HIDE DEF t
<1>2. ASSUME NEW n \in journal PROVE f[n] \in Int
    <2>1. Len(t[n].versions) \in Nat BY <1>1, SizeType DEF Tree
    <2> QED BY <1>1, <2>1, ChangedType
<1>3. DOMAIN f = journal OBVIOUS
<1>4. CommitChange(recent) = SumFunction(f) BY DEF CommitChange, t
<1> HIDE DEF f
<1> QED BY <1>1, <1>2, <1>3, <1>4, SumWhole

LEMMA CurrentSizeType ==
    ASSUME TypeOK, SizesOK, NEW recent \in NoVersion .. MaxVersion
    PROVE  CurrentSize(recent) \in 0 .. (Width - 1)
<1>1. rootSize \in Int BY WidthFacts DEF SizesOK
<1> QED BY <1>1, CommitChangeType, WidthFacts DEF CurrentSize

\* A commit, its steps named.
LEMMA CommitSteps ==
    ASSUME NEW recent, NEW v, NEW late, SizedCommit(recent, v, late)
    PROVE  LET release == ReleaseVersion(gcStatus, CurrentSize(recent))
           IN  /\ CallCommit(recent, v, release, late)
               /\ rootSize' = IF release > 0 THEN SizeOfTree(root') ELSE CurrentSize(recent)
               /\ gcStatus' = add(StatusAfterPop(gcStatus, CurrentSize(recent)), v, rootSize')
               /\ lastSaveRootSize' = rootSize
               /\ UNCHANGED disturbed
BY DEF SizedCommit, CurrentSize, CommitChange

LEMMA SizedCommitType ==
    ASSUME TypeOK, SizesOK, NEW recent \in NoVersion .. MaxVersion, NEW v \in Bounded, NEW late,
           SizedCommit(recent, v, late)
    PROVE  TypeOK' /\ SizesOK'
<1> DEFINE cur == CurrentSize(recent)
           release == ReleaseVersion(gcStatus, cur)
           pop == StatusAfterPop(gcStatus, cur)
<1>1. /\ CallCommit(recent, v, release, late)
      /\ rootSize' = IF release > 0 THEN SizeOfTree(root') ELSE cur
      /\ gcStatus' = add(pop, v, rootSize')
      /\ lastSaveRootSize' = rootSize
      /\ UNCHANGED disturbed
    BY CommitSteps
<1>2. cur \in 0 .. (Width - 1) BY CurrentSizeType
<1>3. GoodStatus(gcStatus) BY DEF SizesOK
<1> HIDE DEF cur
<1>4. release \in 0 .. MaxVersion /\ GoodStatus(pop) BY <1>2, <1>3, PopReleases, PopGood
<1> HIDE DEF release, pop
<1>5. release \in Nat /\ v \in Nat /\ v \in 0 .. MaxVersion BY <1>4, SMTAssumption DEF Bounded
<1>6. TypeOK' BY <1>1, <1>5, CommitType DEF CallCommit
<1>7. root' \in Tree BY <1>6 DEF TypeOK, Tree
<1>8. rootSize' \in 0 .. (Width - 1) BY <1>1, <1>2, <1>7, SizeOfTreeType
<1>9. GoodStatus(gcStatus') BY <1>1, <1>4, <1>5, <1>8, AddGood
<1> QED BY <1>1, <1>6, <1>8, <1>9 DEF SizesOK

\* What a rollback takes off the size.
LEMMA RollbackChangeType ==
    ASSUME TypeOK, NEW target \in Nat
    PROVE  versionSize * SumFunction([n \in Dropping(target) |->
               Len(LoadedVersions(n)) - Len(NodeRollback(LoadedVersions(n), target))]) \in Int
<1> DEFINE D == Dropping(target)
           f == [n \in D |-> Len(LoadedVersions(n)) - Len(NodeRollback(LoadedVersions(n), target))]
<1>1. D \in SUBSET Nodes /\ DOMAIN f = D BY DEF Dropping
<1>2. ASSUME NEW n \in Nodes
      PROVE  Len(LoadedVersions(n)) - Len(NodeRollback(LoadedVersions(n), target)) \in Int
    <2>1. LoadedVersions(n) \in Seq(VersionInfo(Content))
        BY DEF LoadedVersions, TypeOK, Node, Versions
    <2>2. NodeRollback(LoadedVersions(n), target) \in Seq(VersionInfo(Content))
        BY <2>1, NodeRollbackType
    <2> QED BY <2>1, <2>2
<1>3. \A n \in D : f[n] \in Int BY <1>1, <1>2
<1> HIDE DEF f, D
<1>4. SumFunction(f) \in Int BY <1>1, <1>3, SumWhole
<1>5. versionSize * SumFunction(f) \in Int BY <1>4 DEF versionSize
<1> QED BY <1>5 DEF f, D

LEMMA DisturbType ==
    ASSUME SizesOK, Disturb PROVE disturbed' \in Nat /\ disturbed' > 0
BY DEF SizesOK, Disturb

LEMMA SizedRollbackType ==
    ASSUME TypeOK, SizesOK, NEW target \in 0 .. MaxVersion,
           SizedRollback(target) \/ SizedRollbackFails(target)
    PROVE  TypeOK' /\ SizesOK'
<1>0. target \in Nat BY SMTAssumption
<1>1. CASE SizedRollback(target)
    <2> DEFINE changed == versionSize * SumFunction([n \in Dropping(target) |->
                   Len(LoadedVersions(n)) - Len(NodeRollback(LoadedVersions(n), target))])
    <2>1. /\ CallRollback(target) /\ rootSize' = (lastSaveRootSize - changed) % Width
          /\ Disturb /\ UNCHANGED <<lastSaveRootSize, gcStatus>>
        BY <1>1 DEF SizedRollback
    <2>2. changed \in Int BY <1>0, RollbackChangeType
    <2> HIDE DEF changed
    <2>3. lastSaveRootSize - changed \in Int BY <2>2, WidthFacts DEF SizesOK
    <2>4. rootSize' \in 0 .. (Width - 1) BY <2>1, <2>3, WidthFacts
    <2>5. TypeOK' BY <1>0, <2>1, RollbackType DEF CallRollback
    <2> QED BY <2>1, <2>4, <2>5, DisturbType DEF SizesOK
<1>2. CASE SizedRollbackFails(target)
    <2>1. TypeOK' BY <1>0, <1>2, RollbackFailsType DEF SizedRollbackFails, CallRollbackFails
    <2>2. SizesOK' BY <1>2, DisturbType DEF SizesOK, SizedRollbackFails
    <2> QED BY <2>1, <2>2
<1> QED BY <1>1, <1>2

LEMMA SizedReopenType ==
    ASSUME TypeOK, SizesOK, SizedReopen PROVE TypeOK' /\ SizesOK' /\ disturbed' > 0
<1>1. TypeOK' BY ReopenType DEF SizedReopen
<1>2. root' \in Tree BY <1>1 DEF TypeOK, Tree
<1>3. rootSize' \in 0 .. (Width - 1) BY <1>2, SizeOfTreeType, WidthFacts DEF SizedReopen
<1>4. disturbed' \in Nat /\ disturbed' > 0
    <2>1. disturbed \in Nat BY DEF SizesOK
    <2> DEFINE m == IF disturbed >= 1 THEN disturbed ELSE 1
    <2>2. m \in {disturbed, 1} /\ \A y \in {disturbed, 1} : m >= y BY <2>1
    <2>3. \A x \in {disturbed, 1} : (\A y \in {disturbed, 1} : x >= y) => x = m BY <2>1
    <2>4. Max({disturbed, 1}) = m BY <2>2, <2>3 DEF Max
    <2> QED BY <2>1, <2>4 DEF SizedReopen
<1>5. gcStatus' = EmptyStatus /\ lastSaveRootSize' = 0 BY DEF SizedReopen
<1>6. GoodStatus(gcStatus') BY <1>5, EmptyStatusGood
<1> QED BY <1>1, <1>3, <1>4, <1>5, <1>6, WidthFacts DEF SizesOK

\* Every step keeps the types and the classes of gcStatus.
LEMMA SizedNextType ==
    ASSUME TypeOK, SizesOK, [SizedNext]_allVars PROVE TypeOK' /\ SizesOK'
<1>0. \A v \in Bounded : v \in Nat BY SMTAssumption DEF Bounded
<1>1. ASSUME UNCHANGED sizeVars PROVE SizesOK' BY <1>1 DEF sizeVars, SizesOK
<1>2. ASSUME NEW k \in Keys, NEW val \in Vals, NEW v \in Bounded, SizedSet(k, val, v)
      PROVE  TypeOK' /\ SizesOK'
    <2>1. Item(k, val) \in [{k} -> Value] /\ {k} \in (SUBSET Keys) \ {{}} BY DEF Item, Value
    <2>2. SetItems(Item(k, val), v) BY <1>2 DEF SizedSet, CallSet, SetWithVersion
    <2>3. TypeOK' BY <1>0, <2>1, <2>2, SetItemsType
    <2> QED BY <1>1, <1>2, <2>3 DEF SizedSet
<1>3. ASSUME NEW S \in (SUBSET Keys) \ {{}}, NEW items \in [S -> Vals], NEW v \in Bounded,
             SizedMultiSet(items, v)
      PROVE  TypeOK' /\ SizesOK'
    <2>1. items \in [S -> Value] BY DEF Value
    <2>2. SetItems(items, v) BY <1>3 DEF SizedMultiSet, CallMultiSet, MultiSetWithVersion
    <2>3. TypeOK' BY <1>0, <2>1, <2>2, SetItemsType
    <2> QED BY <1>1, <1>3, <2>3 DEF SizedMultiSet
<1>4. ASSUME NEW k \in Keys, SizedGetProof(k) PROVE TypeOK' /\ SizesOK'
    <2>1. TypeOK' BY <1>4, GetProofType DEF SizedGetProof, CallGetProof
    <2> QED BY <1>4, <2>1, DisturbType DEF SizedGetProof, SizesOK
<1>5. ASSUME NEW recent \in NoVersion .. MaxVersion, NEW v \in Bounded, NEW late,
             SizedCommit(recent, v, late)
      PROVE  TypeOK' /\ SizesOK'
    BY <1>5, SizedCommitType
<1>6. ASSUME NEW recent \in NoVersion .. MaxVersion, NEW v \in Bounded, SizedCommitFails(recent, v)
      PROVE  TypeOK' /\ SizesOK'
    <2>1. TypeOK' BY <1>0, <1>6, CommitFailsType DEF SizedCommitFails, CallCommitFails
    <2> QED BY <1>6, <2>1, DisturbType DEF SizedCommitFails, SizesOK
<1>7. ASSUME SizedReset PROVE TypeOK' /\ SizesOK'
    <2>1. TypeOK' BY <1>7, ResetType DEF SizedReset, CallReset
    <2> QED BY <1>7, <2>1, DisturbType DEF SizedReset, SizesOK
<1>8. ASSUME NEW target \in 0 .. MaxVersion, SizedRollback(target) \/ SizedRollbackFails(target)
      PROVE  TypeOK' /\ SizesOK'
    BY <1>8, SizedRollbackType
<1>9. ASSUME SizedReopen PROVE TypeOK' /\ SizesOK' BY <1>9, SizedReopenType
<1>10. ASSUME UNCHANGED allVars PROVE TypeOK' /\ SizesOK'
    BY <1>1, <1>10 DEF allVars, vars, TypeOK
<1> QED BY <1>2, <1>3, <1>4, <1>5, <1>6, <1>7, <1>8, <1>9, <1>10 DEF SizedNext

LEMMA SizedInitType == SizedInit => TypeOK /\ SizesOK
BY InitType, EmptyStatusGood, WidthFacts DEF SizedInit, SizesOK

\* Sizes stay within their width and gcStatus keeps in each class a size of
\* that class with the version that had it, after any calls, failed writes,
\* drifted or wrapped sizes included (smt.go 239-305, 726-776).
THEOREM SizesTyped == SizedSpec => []SizeTypeOK
<1>1. SizedInit => TypeOK /\ SizesOK BY SizedInitType
<1>2. TypeOK /\ SizesOK /\ [SizedNext]_allVars => (TypeOK /\ SizesOK)' BY SizedNextType
<1>3. SizesOK => SizeTypeOK BY SizesOKType
<1> QED BY <1>1, <1>2, <1>3, PTL DEF SizedSpec

\* The types hold throughout, for the theorems that follow.
LEMMA SizedTypes == SizedSpec => [](TypeOK /\ SizesOK)
<1>1. SizedInit => TypeOK /\ SizesOK BY SizedInitType
<1>2. TypeOK /\ SizesOK /\ [SizedNext]_allVars => (TypeOK /\ SizesOK)' BY SizedNextType
<1> QED BY <1>1, <1>2, PTL DEF SizedSpec

----------------------------------------------------------------------------
(* A large size is a counted one.                                          *)

\* A step that gives the tree a higher version is a commit or a restart.
LEMMA OthersKeepVersion ==
    ASSUME TypeOK, SizesOK, SizedNext, version' > version
    PROVE  \/ \E recent \in NoVersion .. MaxVersion, v \in Bounded :
                 \E late : SizedCommit(recent, v, late)
           \/ SizedReopen
<1>0. version \in Nat /\ ~(version > version) BY DEF TypeOK
<1>1. ASSUME NEW k \in Keys, NEW val \in Vals, NEW v \in Bounded, SizedSet(k, val, v) PROVE FALSE
    BY <1>0, <1>1 DEF SizedSet, CallSet, SetWithVersion, SetItems
<1>2. ASSUME NEW items, NEW v \in Bounded, SizedMultiSet(items, v) PROVE FALSE
    BY <1>0, <1>2 DEF SizedMultiSet, CallMultiSet, MultiSetWithVersion, SetItems
<1>3. ASSUME NEW k \in Keys, SizedGetProof(k) PROVE FALSE
    BY <1>0, <1>3 DEF SizedGetProof, CallGetProof, GetProof
<1>4. ASSUME NEW recent \in NoVersion .. MaxVersion, NEW v \in Bounded, SizedCommitFails(recent, v)
      PROVE  FALSE
    BY <1>0, <1>4 DEF SizedCommitFails, CallCommitFails, CommitFails
<1>5. ASSUME SizedReset PROVE FALSE BY <1>0, <1>5 DEF SizedReset, CallReset, Reset
<1>6. ASSUME NEW target \in 0 .. MaxVersion, SizedRollback(target) PROVE FALSE
    <2>1. version' = target /\ target <= version
        BY <1>6 DEF SizedRollback, CallRollback, Rollback, RollbackAccepted
    <2>2. target \in Int BY SMTAssumption
    <2> QED BY <1>0, <2>1, <2>2
<1>7. ASSUME NEW target \in 0 .. MaxVersion, SizedRollbackFails(target) PROVE FALSE
    BY <1>0, <1>7 DEF SizedRollbackFails, CallRollbackFails, RollbackFails
<1> QED BY <1>1, <1>2, <1>3, <1>4, <1>5, <1>6, <1>7 DEF SizedNext

\* Once a commit has been recorded, a commit that leaves a size of at least
\* the threshold has released nodes and taken the size Release counted: no
\* drift survives it (smt.go 598-612).
THEOREM LargeTreesRecounted == SizedSpec => LargeTreeIsRecounted
<1>1. TypeOK /\ SizesOK /\ [SizedNext]_allVars
          => [version' > version /\ Recorded(gcStatus) # {} /\ rootSize' >= Threshold
                 => rootSize' = SizeOfTree(root')]_allVars
    <2> SUFFICES ASSUME TypeOK, SizesOK, SizedNext, version' > version,
                        Recorded(gcStatus) # {}, rootSize' >= Threshold
                 PROVE  rootSize' = SizeOfTree(root')
        OBVIOUS
    <2>1. ASSUME NEW recent \in NoVersion .. MaxVersion, NEW v \in Bounded, NEW late,
                 SizedCommit(recent, v, late)
          PROVE  rootSize' = SizeOfTree(root')
        <3> DEFINE cur == CurrentSize(recent)
                   release == ReleaseVersion(gcStatus, cur)
        <3>1. rootSize' = IF release > 0 THEN SizeOfTree(root') ELSE cur
            BY <2>1, CommitSteps
        <3>2. cur \in 0 .. (Width - 1) BY CurrentSizeType
        <3> HIDE DEF cur
        <3>3. release > 0 <=> cur >= Threshold /\ Recorded(gcStatus) # {}
            BY <3>2, PopReleases DEF SizesOK
        <3> HIDE DEF release
        <3> QED BY <3>1, <3>3
    <2>2. ASSUME SizedReopen PROVE rootSize' = SizeOfTree(root')
        BY <2>2, WidthFacts DEF SizedReopen
    <2> QED BY <2>1, <2>2, OthersKeepVersion
<1> QED BY <1>1, SizedTypes, PTL DEF SizedSpec, LargeTreeIsRecounted

----------------------------------------------------------------------------
(* The size is exact.                                                      *)

\* No entry is of version 0.
Positive(vs) == \A i \in 1 .. Len(vs) : vs[i].ver > 0

\* As long as nothing was released, dropped or loaded, a node is either in
\* memory or was never set.
AllInMemory(t, d) ==
    /\ Resident(t[RootNode])
    /\ \A n \in Nodes :
           /\ Resident(t[n]) \/ (t[n] = NilNode /\ ~d[n].found)
           /\ Resident(t[n]) /\ n # RootNode => t[n].versions # <<>>

\* The latest entries of the nodes of the journal are those of the block, all
\* others were committed.
Dated(t, J, ver) ==
    \A n \in Nodes :
        /\ Positive(t[n].versions)
        /\ n \notin J => LatestVersion(t[n].versions) <= ver
        /\ n \in J => /\ t[n].versions # <<>> /\ RootNode \in J
                      /\ LatestVersion(t[n].versions) = LatestVersion(t[RootNode].versions)
                      /\ LatestVersion(t[n].versions) > ver

\* What rootSize counts for a node: a pending entry is not counted yet, and a
\* node that has no other entry is not counted at all.
PendingWeight(node) == IF Len(node.versions) <= 1 THEN 0 ELSE Size(node) - versionSize

CommittedWeight(node) == IF node.versions = <<>> THEN 0 ELSE Size(node)

Weight(t, J, n) == IF n \in J THEN PendingWeight(t[n]) ELSE CommittedWeight(t[n])

Weights(t, J) == [n \in Nodes |-> Weight(t, J, n)]

Counted ==
    /\ AllInMemory(root, db)
    /\ Dated(root, journal, version)
    /\ rootSize = SumFunctionOnSet(Weights(root, journal), Nodes) % Width

\* The inductive invariant. It is about trees that only grew by being set; a
\* release that was recorded as version 0 would be forgotten.
ExactInv ==
    disturbed = 0 =>
        /\ Resident(root[RootNode])
        /\ gcStatus.latestGCVersion = 0 \/ Recorded(gcStatus) # {}
        /\ gcStatus.latestGCVersion = 0 => Counted

\* The nodes in memory take fewer bytes than a size can count.
Fits(t) ==
    SumFunction([n \in {m \in Nodes : t[m].state # "nil"} |-> Size(t[n])]) < Width

TreeFits == Fits(root)

LEMMA WeightType ==
    ASSUME NEW t \in Tree, NEW J, NEW n \in Nodes
    PROVE  Weight(t, J, n) \in Int
<1>1. Size(t[n]) \in Nat BY SizeType DEF Tree
<1> QED BY <1>1 DEF Weight, PendingWeight, CommittedWeight, versionSize

LEMMA SetExactly ==
    ASSUME NEW vs \in Seq(VersionInfo(Content)), NEW info \in VersionInfo(Content),
           info.ver > 0, Positive(vs)
    PROVE  LET us == NewVersion(vs, info)
           IN  /\ us \in Seq(VersionInfo(Content)) /\ us # <<>> /\ Positive(us)
               /\ LatestVersion(us) = info.ver
               /\ Len(us) = IF vs # <<>> /\ LatestVersion(vs) = info.ver THEN Len(vs)
                            ELSE Len(vs) + 1
<1> DEFINE us == NewVersion(vs, info)
<1>0. us \in Seq(VersionInfo(Content)) BY NewVersionType
<1>1. CASE vs # <<>> /\ LatestVersion(vs) = info.ver
    <2>1. us = [vs EXCEPT ![Len(vs)] = info] BY <1>1 DEF NewVersion, LatestVersion
    <2>2. Len(vs) \in Nat /\ Len(vs) > 0 BY <1>1
    <2>3. Len(us) = Len(vs) /\ us[Len(vs)] = info
          /\ \A i \in 1 .. Len(vs) : us[i] = info \/ us[i] = vs[i]
        BY <2>1, <2>2
    <2>4. us # <<>> BY <2>2, <2>3
    <2> HIDE DEF us
    <2>5. Positive(us) BY <2>3 DEF Positive
    <2>6. LatestVersion(us) = info.ver BY <2>3, <2>4 DEF LatestVersion
    <2> QED BY <1>0, <1>1, <2>3, <2>4, <2>5, <2>6 DEF us
<1>2. CASE ~(vs # <<>> /\ LatestVersion(vs) = info.ver)
    <2>1. us = Append(vs, info) BY <1>2 DEF NewVersion, LatestVersion
    <2>2. Len(vs) \in Nat OBVIOUS
    <2>3. Len(us) = Len(vs) + 1 /\ us[Len(vs) + 1] = info
          /\ \A i \in 1 .. Len(vs) : us[i] = vs[i]
        BY <2>1, <2>2
    <2>4. us # <<>> BY <2>2, <2>3
    <2> HIDE DEF us
    <2>5. Positive(us) BY <2>2, <2>3 DEF Positive
    <2>6. LatestVersion(us) = info.ver BY <2>3, <2>4 DEF LatestVersion
    <2> QED BY <1>0, <1>2, <2>3, <2>4, <2>5, <2>6 DEF us
<1> QED BY <1>1, <1>2

\* Every path starts at the root.
LEMMA RootOnPaths ==
    ASSUME NEW S \in (SUBSET Keys) \ {{}} PROVE RootNode \in Paths[S]
<1>1. PICK k \in S : TRUE OBVIOUS
<1>2. k \in Seq(0 .. 15) /\ k \in Nodes BY SMTAssumption, NodesClosed
<1>3. RootNode = SubSeq(k, 1, 0) /\ 0 \in 0 .. Len(k) BY <1>2 DEF RootNode
<1>4. Path[k] = Prefixes(k) BY <1>2, NodesClosed
<1>5. RootNode \in Path[k] BY <1>3, <1>4 DEF Prefixes
<1>6. S \in SUBSET Keys OBVIOUS
<1> QED BY <1>5, <1>6, PathsNodes

\* Loading finds no record for a node that is not in memory.
LEMMA LoadsNothing ==
    ASSUME TypeOK, AllInMemory(root, db), NEW S, NEW n \in Nodes
    PROVE  Extend(root, S)[n] = IF ~Resident(root[n]) /\ n \in S THEN NewTreeNode ELSE root[n]
<1>1. CASE Resident(root[n]) BY <1>1 DEF Extend
<1>2. CASE ~Resident(root[n]) /\ n \in S BY <1>2 DEF Extend, AllInMemory
<1>3. CASE ~Resident(root[n]) /\ n \notin S
    <2>1. root[n] = NilNode BY <1>3 DEF AllInMemory
    <2>2. CASE n # RootNode /\ Parent[n] \in S /\ ~Resident(root[Parent[n]])
        <3>1. Parent[n] \in Nodes BY <2>2, NodesClosed
        <3>2. ~db[Parent[n]].found BY <2>2, <3>1 DEF AllInMemory
        <3> QED BY <1>3, <2>1, <2>2, <3>2 DEF Extend
    <2>3. CASE ~(n # RootNode /\ Parent[n] \in S /\ ~Resident(root[Parent[n]]))
        BY <1>3, <2>3 DEF Extend
    <2> QED BY <2>2, <2>3
<1> QED BY <1>1, <1>2, <1>3

\* The versions a set writes.
NewBlock(v) == v \in Nat /\ v > 0 /\ v > version
              /\ (journal # {} => v = LatestVersion(root[RootNode].versions))

\* A node that a set gives an entry: not counted more than before.
LEMMA SetNodeExactly ==
    ASSUME TypeOK, AllInMemory(root, db), Dated(root, journal, version), NEW v, NewBlock(v),
           NEW n \in Nodes, NEW node \in Node, node = IF Resident(root[n]) THEN root[n] ELSE NewTreeNode,
           NEW info \in VersionInfo(Content), info.ver = v
    PROVE  LET new == [node EXCEPT !.versions = NewVersion(@, info)]
           IN  /\ Resident(new) /\ new.versions # <<>> /\ Positive(new.versions)
               /\ LatestVersion(new.versions) = v
               /\ PendingWeight(new) = Weight(root, journal, n)
<1> DEFINE vs == node.versions
           us == NewVersion(vs, info)
           new == [node EXCEPT !.versions = us]
<1>1. vs \in Seq(VersionInfo(Content)) BY DEF Node, Versions
<1>2. vs = root[n].versions
    <2>1. CASE Resident(root[n]) BY <2>1
    <2>2. CASE ~Resident(root[n])
        <3>1. root[n] = NilNode BY <2>2 DEF AllInMemory
        <3>2. node = NewTreeNode BY <2>2
        <3> QED BY <3>1, <3>2 DEF NewTreeNode, NilNode
    <2> QED BY <2>1, <2>2
<1>3. Positive(vs) BY <1>2 DEF Dated
<1>4. v > 0 /\ v \in Nat BY DEF NewBlock
<1>5. Resident(node) BY DEF NewTreeNode, Resident
<1>6. new.versions = us /\ new.state = node.state BY DEF Node
<1> HIDE DEF us, vs
<1>7. /\ us \in Seq(VersionInfo(Content)) /\ us # <<>> /\ Positive(us) /\ LatestVersion(us) = v
      /\ Len(us) = IF vs # <<>> /\ LatestVersion(vs) = v THEN Len(vs) ELSE Len(vs) + 1
    BY <1>1, <1>3, <1>4, SetExactly DEF us
<1>8. Resident(new) BY <1>5, <1>6 DEF Resident
<1>9. Len(vs) \in Nat /\ (vs = <<>> <=> Len(vs) = 0) BY <1>1
<1>10. Len(us) \in Nat /\ (us = <<>> <=> Len(us) = 0) BY <1>7
<1>11. Size(new) = Len(us) * 40 + 448 BY <1>6, <1>8 DEF Size, versionSize, internalsSize
<1>12. root[n].versions # <<>> => Size(root[n]) = Len(vs) * 40 + 448
    <2> HAVE root[n].versions # <<>>
    <2>1. Resident(root[n]) BY DEF AllInMemory, NilNode
    <2> QED BY <1>2, <2>1 DEF Size, versionSize, internalsSize
<1> HIDE DEF new
<1>13. PendingWeight(new) = IF Len(us) <= 1 THEN 0 ELSE Len(us) * 40 + 448 - 40
    BY <1>6, <1>11 DEF PendingWeight, versionSize
<1>14. PendingWeight(new) = Weight(root, journal, n)
    <2>1. CASE n \in journal
        <3>1. vs # <<>> /\ LatestVersion(vs) = v BY <1>2, <2>1 DEF Dated, NewBlock
        <3>2. Len(us) = Len(vs) BY <1>7, <3>1
        <3>3. PendingWeight(root[n]) = IF Len(vs) <= 1 THEN 0 ELSE Len(vs) * 40 + 448 - 40
            BY <1>2, <1>12, <3>1 DEF PendingWeight, versionSize
        <3> QED BY <1>13, <2>1, <3>2, <3>3 DEF Weight
    <2>2. CASE n \notin journal
        <3>1. ~(vs # <<>> /\ LatestVersion(vs) = v)
            <4>1. LatestVersion(vs) <= version /\ v > version BY <1>2, <2>2 DEF Dated, NewBlock
            <4>2. vs # <<>> => LatestVersion(vs) \in Nat
                BY <1>1, <1>9, EntryType DEF LatestVersion
            <4> QED BY <1>4, <4>1, <4>2 DEF TypeOK
        <3>2. Len(us) = Len(vs) + 1 BY <1>7, <3>1
        <3>3. CommittedWeight(root[n]) = IF Len(vs) = 0 THEN 0 ELSE Len(vs) * 40 + 448
            BY <1>2, <1>9, <1>12 DEF CommittedWeight
        <3>4. \A a \in Nat : (a + 1 <= 1 <=> a = 0) /\ (a + 1) * 40 + 448 - 40 = a * 40 + 448
            OBVIOUS
        <3> QED BY <1>9, <1>13, <2>2, <3>2, <3>3, <3>4 DEF Weight
    <2> QED BY <2>1, <2>2
<1> QED BY <1>6, <1>7, <1>8, <1>14 DEF new, us, vs

\* Set and MultiSet leave the count of every node as it is.
LEMMA SetItemsExactly ==
    ASSUME TypeOK, Counted, NEW S \in (SUBSET Keys) \ {{}}, NEW items \in [S -> Value],
           NEW v, NewBlock(v), SetItems(items, v), UNCHANGED rootSize
    PROVE  Counted'
<1> DEFINE t == Extend(root, Paths[S])
           P == Paths[S]
           NewInfo(n) == Info(v, SetChildren(t, n, items))
           Old(n) == IF Resident(root[n]) THEN root[n] ELSE NewTreeNode
<1>0. DOMAIN items = S /\ S \in SUBSET Keys OBVIOUS
<1>1. t \in Tree BY ExtendType DEF TypeOK, Tree
<1>2. AllInMemory(root, db) /\ Dated(root, journal, version) BY DEF Counted
<1>3. \A n \in Nodes : t[n] = IF ~Resident(root[n]) /\ n \in P THEN NewTreeNode ELSE root[n]
    BY <1>2, LoadsNothing
<1> HIDE DEF t
<1>4. \A n \in Nodes : NewInfo(n) \in VersionInfo(Content) /\ NewInfo(n).ver = v
    BY <1>1, SetChildrenType DEF Info, VersionInfo, NewBlock
<1>5. root' = [n \in Nodes |-> IF n \in P
                               THEN [t[n] EXCEPT !.versions = NewVersion(@, NewInfo(n))]
                               ELSE t[n]]
    BY <1>0 DEF SetItems, t
<1>6. /\ journal' = journal \cup P /\ db' = db /\ version' = version
      /\ P \subseteq Nodes /\ RootNode \in P
    BY <1>0, PathsNodes, RootOnPaths DEF SetItems
<1> HIDE DEF NewInfo, P
<1>7. ASSUME NEW n \in P
      PROVE  /\ Resident(root'[n]) /\ root'[n].versions # <<>> /\ Positive(root'[n].versions)
             /\ LatestVersion(root'[n].versions) = v
             /\ PendingWeight(root'[n]) = Weight(root, journal, n)
    <2>1. n \in Nodes BY <1>6
    <2>2. t[n] = Old(n) /\ t[n] \in Node BY <1>1, <1>3, <2>1 DEF Tree
    <2>3. root'[n] = [t[n] EXCEPT !.versions = NewVersion(@, NewInfo(n))] BY <1>5, <2>1
    <2> DEFINE node == t[n]
               info == NewInfo(n)
    <2>4. node \in Node /\ node = (IF Resident(root[n]) THEN root[n] ELSE NewTreeNode)
          /\ info \in VersionInfo(Content) /\ info.ver = v /\ root'[n] = [node EXCEPT !.versions = NewVersion(@, info)]
        BY <1>4, <2>1, <2>2, <2>3
    <2> HIDE DEF node, info
    <2>5. LET new == [node EXCEPT !.versions = NewVersion(@, info)]
          IN  /\ Resident(new) /\ new.versions # <<>> /\ Positive(new.versions)
              /\ LatestVersion(new.versions) = v
              /\ PendingWeight(new) = Weight(root, journal, n)
        BY <1>2, <2>1, <2>4, SetNodeExactly
    <2> QED BY <2>4, <2>5
<1>8. \A n \in Nodes \ P : root'[n] = root[n] BY <1>3, <1>5
<1>9. AllInMemory(root', db')
    <2>1. Resident(root'[RootNode]) BY <1>6, <1>7
    <2>2. ASSUME NEW n \in Nodes
          PROVE  /\ Resident(root'[n]) \/ (root'[n] = NilNode /\ ~db'[n].found)
                 /\ Resident(root'[n]) /\ n # RootNode => root'[n].versions # <<>>
        BY <1>2, <1>6, <1>7, <1>8 DEF AllInMemory
    <2> QED BY <2>1, <2>2 DEF AllInMemory
<1>10. Dated(root', journal', version')
    <2>1. LatestVersion(root'[RootNode].versions) = v /\ v > version BY <1>6, <1>7 DEF NewBlock
    <2>2. ASSUME NEW n \in P
          PROVE  /\ Positive(root'[n].versions) /\ n \in journal' /\ root'[n].versions # <<>>
                 /\ LatestVersion(root'[n].versions) = LatestVersion(root'[RootNode].versions)
                 /\ LatestVersion(root'[n].versions) > version'
        BY <1>6, <1>7, <2>1
    <2>3. ASSUME NEW n \in Nodes \ P, n \in journal
          PROVE  /\ Positive(root'[n].versions) /\ root'[n].versions # <<>>
                 /\ LatestVersion(root'[n].versions) = LatestVersion(root'[RootNode].versions)
                 /\ LatestVersion(root'[n].versions) > version'
        BY <1>2, <1>6, <1>8, <2>1, <2>3 DEF Dated, NewBlock
    <2>4. ASSUME NEW n \in Nodes \ P, n \notin journal
          PROVE  /\ Positive(root'[n].versions) /\ n \notin journal'
                 /\ LatestVersion(root'[n].versions) <= version'
        BY <1>2, <1>6, <1>8, <2>4 DEF Dated
    <2>5. RootNode \in journal' BY <1>6
    <2> QED BY <1>6, <2>2, <2>3, <2>4, <2>5 DEF Dated
<1>11. Weights(root', journal') = Weights(root, journal)
    <2>1. ASSUME NEW n \in Nodes
          PROVE  Weight(root', journal', n) = Weight(root, journal, n)
        <3>1. CASE n \in P BY <1>6, <1>7, <3>1 DEF Weight
        <3>2. CASE n \notin P BY <1>6, <1>8, <3>2 DEF Weight
        <3> QED BY <3>1, <3>2
    <2> QED BY <2>1 DEF Weights
<1> QED BY <1>9, <1>10, <1>11 DEF Counted

\* Pruning shortens the list of a journal node at its old end.
LEMMA PrunedExactly ==
    ASSUME TypeOK, NEW recent \in NoVersion .. MaxVersion, NEW n \in Nodes,
           root[n].versions # <<>>, Positive(root[n].versions)
    PROVE  LET vs == Pruned(recent, journal)[n].versions
           IN  /\ Pruned(recent, journal)[n].state = root[n].state
               /\ vs \in Seq(VersionInfo(Content)) /\ vs # <<>> /\ Positive(vs)
               /\ LatestVersion(vs) = LatestVersion(root[n].versions)
<1> DEFINE us == root[n].versions
           node == Pruned(recent, journal)[n]
           vs == node.versions
<1>0. root[n] \in Node /\ us \in Seq(VersionInfo(Content)) BY DEF TypeOK, Node, Versions
<1>1. CASE n \in journal /\ recent # NoVersion
    <2>1. node = [root[n] EXCEPT !.versions = Prune(us, recent)] BY <1>1 DEF Pruned
    <2>2. node.state = root[n].state /\ vs = Prune(us, recent) BY <1>0, <2>1 DEF Node
    <2>3. recent \in Int BY SMTAssumption DEF NoVersion
    <2> HIDE DEF us, node, vs
    <2>4. PICK s \in 1 .. Len(us) : Prune(us, recent) = SubSeq(us, s, Len(us))
        BY <1>0, <2>3, PruneSuffix DEF us
    <2>5. vs \in Seq(VersionInfo(Content)) /\ Len(us) \in Nat BY <1>0, <2>2, <2>4
    <2>6. Len(vs) = Len(us) - s + 1 /\ \A i \in 1 .. Len(vs) : vs[i] = us[s + i - 1]
        BY <1>0, <2>2, <2>4
    <2>7. vs # <<>> /\ us # <<>> BY <2>4, <2>5, <2>6 DEF us
    <2>8. Positive(vs)
        <3>1. \A i \in 1 .. Len(vs) : s + i - 1 \in 1 .. Len(us) BY <2>4, <2>5, <2>6
        <3> QED BY <2>6, <3>1 DEF Positive, us
    <2>9. LatestVersion(vs) = LatestVersion(us)
        <3>1. Len(vs) \in 1 .. Len(vs) /\ s + Len(vs) - 1 = Len(us) BY <2>4, <2>5, <2>6
        <3>2. vs[Len(vs)] = us[Len(us)] BY <2>6, <3>1
        <3> QED BY <2>7, <3>2 DEF LatestVersion
    <2> QED BY <2>2, <2>5, <2>7, <2>8, <2>9 DEF us, vs, node
<1>2. CASE ~(n \in journal /\ recent # NoVersion)
    <2>1. node = root[n] BY <1>2 DEF Pruned
    <2> QED BY <1>0, <2>1
<1> QED BY <1>1, <1>2

\* What writeNode returns is what the count of the node rises by.
LEMMA ChangedExactly ==
    ASSUME NEW n, NEW a \in Nat, NEW b \in Nat, a > 0, b > 0,
           Len(root[n].versions) = a, Resident(root[n]), Positive(root[n].versions),
           root[n].versions # <<>>, gcStatus.latestGCVersion = 0,
           NEW node, Resident(node), node.versions # <<>>, Len(node.versions) = b
    PROVE  CommittedWeight(node) = PendingWeight(root[n]) + Changed(n, b)
<1>1. Size(root[n]) = a * 40 + 448 /\ Size(node) = b * 40 + 448
    BY DEF Size, versionSize, internalsSize
<1>2. CommittedWeight(node) = b * 40 + 448 BY <1>1 DEF CommittedWeight
<1>3. CASE a <= 1
    <2>1. PendingWeight(root[n]) = 0 /\ PreviousVersion(root[n].versions) = 0
        BY <1>3 DEF PendingWeight, PreviousVersion
    <2>2. Changed(n, b) = (a * 40 + 448) - 40 * (a - b) BY <1>1, <2>1 DEF Changed, versionSize
    <2> QED BY <1>2, <2>1, <2>2
<1>4. CASE a > 1
    <2>1. a - 1 \in 1 .. Len(root[n].versions) BY <1>4
    <2>2. PreviousVersion(root[n].versions) > 0
        BY <1>4, <2>1 DEF PreviousVersion, Positive
    <2>3. PendingWeight(root[n]) = a * 40 + 448 - 40
        BY <1>1, <1>4 DEF PendingWeight, versionSize
    <2>4. Changed(n, b) = 40 - 40 * (a - b) BY <2>2 DEF Changed, versionSize
    <2> QED BY <1>2, <2>3, <2>4
<1> QED BY <1>3, <1>4

\* A commit that releases nothing counts every entry.
LEMMA CommitExactly ==
    ASSUME TypeOK, SizesOK, Counted, gcStatus.latestGCVersion = 0,
           NEW recent \in NoVersion .. MaxVersion, NEW v \in Bounded, NEW late,
           CallCommit(recent, v, 0, late), rootSize' = CurrentSize(recent)
    PROVE  Counted'
<1> DEFINE t == Pruned(recent, journal)
           d == [n \in journal |-> Changed(n, Len(t[n].versions))]
<1>0. /\ v \in Nat /\ v > version /\ version \in Nat /\ root \in Tree /\ journal \in SUBSET Nodes
      /\ journal # {} => v = LatestVersion(root[RootNode].versions)
    BY SMTAssumption DEF CallCommit, BlockVersion, Bounded, TypeOK, Tree
<1>1. AllInMemory(root, db) /\ Dated(root, journal, version)
      /\ rootSize = SumFunctionOnSet(Weights(root, journal), Nodes) % Width
    BY DEF Counted
<1>2. /\ root' = t /\ journal' = {} /\ version' = v /\ db' = Stored(journal, t)
    BY DEF CallCommit, CommitWithNewVersion
<1>3. t \in Tree BY PrunedType
<1>4. CommitChange(recent) = SumFunction(d) BY DEF CommitChange
<1>5. \A n \in Nodes \ journal : t[n] = root[n] BY DEF Pruned
<1>6. ASSUME NEW n \in journal
      PROVE  /\ t[n].versions \in Seq(VersionInfo(Content)) /\ t[n].versions # <<>>
             /\ Resident(root[n]) /\ Resident(t[n]) /\ Positive(t[n].versions)
             /\ LatestVersion(t[n].versions) = v
    <2>1. n \in Nodes BY <1>0
    <2>2. /\ root[n].versions # <<>> /\ Positive(root[n].versions)
          /\ LatestVersion(root[n].versions) = v
        BY <1>0, <1>1, <2>1 DEF Dated
    <2>3. Resident(root[n]) BY <1>1, <2>1, <2>2 DEF AllInMemory, NilNode
    <2>4. LET vs == t[n].versions
          IN  /\ t[n].state = root[n].state
              /\ vs \in Seq(VersionInfo(Content)) /\ vs # <<>> /\ Positive(vs)
              /\ LatestVersion(vs) = LatestVersion(root[n].versions)
        BY <2>1, <2>2, PrunedExactly
    <2> QED BY <2>2, <2>3, <2>4 DEF Resident
<1>7. ASSUME NEW n \in journal
      PROVE  /\ d[n] \in Int
             /\ Weight(t, {}, n) = Weight(root, journal, n) + d[n]
    <2> DEFINE a == Len(root[n].versions)
               b == Len(t[n].versions)
    <2>1. n \in Nodes /\ root[n].versions # <<>> /\ Positive(root[n].versions) BY <1>0, <1>1 DEF Dated
    <2>2. a \in Nat /\ a > 0
        <3>1. root[n].versions \in Seq(VersionInfo(Content)) BY <1>0, <2>1 DEF Tree, Node, Versions
        <3> QED BY <2>1, <3>1
    <2>3. b \in Nat /\ b > 0 BY <1>6
    <2>4. d[n] = Changed(n, b) OBVIOUS
    <2>5. d[n] \in Int BY <2>1, <2>3, <2>4, ChangedType
    <2>6. Resident(root[n]) /\ Resident(t[n]) /\ t[n].versions # <<>> BY <1>6
    <2> DEFINE node == t[n]
    <2>7. Resident(node) /\ node.versions # <<>> /\ Len(node.versions) = b /\ Len(root[n].versions) = a
        BY <2>6
    <2> HIDE DEF node, a, b, t, d
    <2>8. CommittedWeight(node) = PendingWeight(root[n]) + Changed(n, b)
        BY <2>1, <2>2, <2>3, <2>6, <2>7, ChangedExactly
    <2> QED BY <2>4, <2>5, <2>8 DEF Weight, node
<1>8. DOMAIN d = journal OBVIOUS
<1> HIDE DEF t, d
<1>9. \A n \in Nodes \ journal : Weight(t, {}, n) = Weight(root, journal, n)
    BY <1>5 DEF Weight
<1>10. \A n \in Nodes : Weight(root, journal, n) \in Int /\ Weight(t, {}, n) \in Int
    BY <1>0, <1>3, WeightType
<1> DEFINE f == Weights(root, journal)
           e == Weights(t, {})
           A == SumFunctionOnSet(f, Nodes)
           B == SumFunctionOnSet(d, journal)
<1>11. \A n \in Nodes : f[n] = Weight(root, journal, n) /\ e[n] = Weight(t, {}, n) BY DEF Weights
<1> HIDE DEF f, e
<1>12. SumFunctionOnSet(e, Nodes) = A + B
    <2>1. \A n \in Nodes : f[n] \in Int /\ e[n] \in Int BY <1>10, <1>11
    <2>2. \A n \in journal : d[n] \in Int /\ e[n] = f[n] + d[n] BY <1>0, <1>7, <1>11
    <2>3. \A n \in Nodes \ journal : e[n] = f[n] BY <1>9, <1>11
    <2> QED BY <1>0, <2>1, <2>2, <2>3, NodesFinite, SumChanges
<1>13. A \in Int
    <2>1. \A n \in Nodes : f[n] \in Int BY <1>10, <1>11
    <2> QED BY <2>1, NodesFinite, SumTakes
<1>14. SumFunction(d) = B /\ B \in Int BY <1>0, <1>7, <1>8, SumWhole
<1>15. rootSize' = SumFunctionOnSet(Weights(root', journal'), Nodes) % Width
    <2>1. rootSize = A % Width BY <1>1 DEF f
    <2>2. rootSize' = ((A % Width) + B) % Width BY <1>4, <1>14, <2>1 DEF CurrentSize
    <2> HIDE DEF A, B
    <2>3. rootSize' = (A + B) % Width BY <1>13, <1>14, <2>2, AddRemainders
    <2>4. Weights(root', journal') = e BY <1>2 DEF e
    <2> QED BY <1>12, <2>3, <2>4
<1>16. AllInMemory(root', db')
    <2>1. ASSUME NEW n \in Nodes
          PROVE  /\ Resident(t[n]) \/ (t[n] = NilNode /\ ~db'[n].found)
                 /\ Resident(t[n]) /\ n # RootNode => t[n].versions # <<>>
        <3>1. CASE n \in journal BY <1>6, <3>1
        <3>2. CASE n \notin journal
            <4>1. db'[n] = db[n] BY <1>2, <3>2 DEF Stored
            <4> QED BY <1>1, <1>5, <3>2, <4>1 DEF AllInMemory
        <3> QED BY <3>1, <3>2
    <2>2. Resident(t[RootNode])
        <3>1. RootNode \in Nodes BY NodesClosed
        <3> QED BY <1>1, <1>5, <1>6, <3>1 DEF AllInMemory
    <2> QED BY <1>2, <2>1, <2>2 DEF AllInMemory
<1>17. Dated(root', journal', version')
    <2>1. ASSUME NEW n \in Nodes PROVE Positive(t[n].versions) /\ LatestVersion(t[n].versions) <= v
        <3>1. CASE n \in journal BY <1>0, <1>6, <3>1
        <3>2. CASE n \notin journal
            <4>1. t[n] = root[n] /\ Positive(root[n].versions) /\ LatestVersion(root[n].versions) <= version
                BY <1>1, <1>5, <3>2 DEF Dated
            <4>2. LatestVersion(root[n].versions) \in Nat
                <5>1. root[n].versions \in Seq(VersionInfo(Content))
                    BY <1>0 DEF Tree, Node, Versions
                <5>2. root[n].versions # <<>> => Len(root[n].versions) \in 1 .. Len(root[n].versions)
                    BY <5>1
                <5> QED BY <5>1, <5>2, EntryType DEF LatestVersion
            <4> QED BY <1>0, <4>1, <4>2
        <3> QED BY <3>1, <3>2
    <2> QED BY <1>2, <2>1 DEF Dated
<1> QED BY <1>15, <1>16, <1>17 DEF Counted

\* A tree that fits does not count as empty.
LEMMA FittingTreeCounts ==
    ASSUME NEW t \in Tree, Fits(t), Resident(t[RootNode]) PROVE SizeOfTree(t) > 0
<1> DEFINE S == {m \in Nodes : t[m].state # "nil"}
           f == [n \in S |-> Size(t[n])]
<1>1. RootNode \in S BY NodesClosed DEF Resident
<1>2. S \in SUBSET Nodes /\ DOMAIN f = S /\ \A n \in S : f[n] \in Nat
    BY SizeType DEF Tree
<1>3. f[RootNode] > 0
    <2>1. t[RootNode] \in Node BY NodesClosed DEF Tree
    <2>2. Len(t[RootNode].versions) \in Nat BY <2>1, SizeType
    <2>3. Size(t[RootNode]) = Len(t[RootNode].versions) * 40 + 448
        BY DEF Size, versionSize, internalsSize
    <2>4. f[RootNode] = Size(t[RootNode]) BY <1>1
    <2> HIDE DEF f
    <2> QED BY <2>2, <2>3, <2>4
<1>4. SizeOfTree(t) = SumFunction(f) % Width /\ SumFunction(f) < Width
    BY DEF SizeOfTree, Fits
<1> HIDE DEF f, S
<1>5. IsFiniteSet(S) BY <1>2, NodesFinite, FS_Subset
<1>6. SumFunction(f) = SumFunctionOnSet(f, S)
    <2>1. \A n \in S : f[n] \in Int BY <1>2
    <2> QED BY <1>2, <2>1, SumWhole
<1>7. SumFunction(f) \in Nat /\ f[RootNode] <= SumFunction(f) BY <1>1, <1>2, <1>5, <1>6, SumBounds
<1>8. SumFunction(f) % Width = SumFunction(f) BY <1>4, <1>7, WidthFacts
<1>9. f[RootNode] \in Nat BY <1>1, <1>2
<1> QED BY <1>3, <1>4, <1>7, <1>8, <1>9

\* With nothing pending, what is counted is what Release would count.
LEMMA CountedIsExact ==
    ASSUME TypeOK, Counted, journal = {}, root[RootNode].versions # <<>>
    PROVE  rootSize = SizeOfTree(root)
<1> DEFINE S == {m \in Nodes : root[m].state # "nil"}
           f == [n \in S |-> Size(root[n])]
           e == Weights(root, journal)
<1>1. rootSize = SumFunctionOnSet(e, Nodes) % Width /\ AllInMemory(root, db) BY DEF Counted
<1>2. SizeOfTree(root) = SumFunction(f) % Width BY DEF SizeOfTree
<1>3. ASSUME NEW n \in S PROVE f[n] \in Int /\ e[n] = f[n]
    <2>1. root[n] # NilNode BY DEF NilNode
    <2>2. Resident(root[n]) BY <1>1, <2>1 DEF AllInMemory
    <2>3. root[n].versions # <<>> BY <1>1, <2>2 DEF AllInMemory
    <2>4. e[n] = Size(root[n]) BY <2>3 DEF Weights, Weight, CommittedWeight
    <2>5. Size(root[n]) \in Int BY SizeType DEF TypeOK
    <2> QED BY <2>4, <2>5
<1>4. ASSUME NEW n \in Nodes \ S PROVE e[n] = 0
    <2>1. ~Resident(root[n]) BY DEF Resident
    <2>2. root[n].versions = <<>> BY <1>1, <2>1 DEF AllInMemory, NilNode
    <2> QED BY <2>2 DEF Weights, Weight, CommittedWeight
<1>5. S \in SUBSET Nodes /\ DOMAIN f = S OBVIOUS
<1> HIDE DEF S, f, e
<1>6. SumFunctionOnSet(e, Nodes) = SumFunctionOnSet(f, S)
    BY <1>3, <1>4, <1>5, NodesFinite, SumOfPart
<1>7. SumFunction(f) = SumFunctionOnSet(f, S) BY <1>3, <1>5, SumWhole
<1> QED BY <1>1, <1>2, <1>6, <1>7

\* A commit, with or without a release.
LEMMA CommitExactInv ==
    ASSUME TypeOK, SizesOK, ExactInv, TypeOK', TreeFits', disturbed = 0,
           NEW recent \in NoVersion .. MaxVersion, NEW v \in Bounded, NEW late,
           SizedCommit(recent, v, late)
    PROVE  ExactInv'
<1> DEFINE cur == CurrentSize(recent)
           release == ReleaseVersion(gcStatus, cur)
           pop == StatusAfterPop(gcStatus, cur)
           t == Pruned(recent, journal)
<1>1. /\ CallCommit(recent, v, release, late)
      /\ rootSize' = IF release > 0 THEN SizeOfTree(root') ELSE cur
      /\ gcStatus' = add(pop, v, rootSize')
    BY CommitSteps
<1>2. cur \in 0 .. (Width - 1) BY CurrentSizeType
<1>3. GoodStatus(gcStatus) BY DEF SizesOK
<1>4. v \in 0 .. MaxVersion /\ v > 0 BY SMTAssumption DEF Bounded
<1>5. root' = IF release > 0 THEN Released(t, release) ELSE t
    BY <1>1 DEF CallCommit, CommitWithNewVersion
<1>6. Resident(root[RootNode]) /\ (gcStatus.latestGCVersion = 0 \/ Recorded(gcStatus) # {})
    BY DEF ExactInv
<1>7. Resident(root'[RootNode])
    <2>1. RootNode \in Nodes BY NodesClosed
    <2>2. Resident(t[RootNode])
        <3>1. root[RootNode] \in Node BY <2>1 DEF TypeOK
        <3>2. t[RootNode].state = root[RootNode].state BY <2>1, <3>1 DEF Pruned, Node
        <3> QED BY <1>6, <3>2 DEF Resident
    <2>3. Path[RootNode] \ {RootNode, RootNode} = {}
        <3>1. Path[RootNode] = Prefixes(RootNode) BY <2>1, NodesClosed
        <3>2. \A i \in 0 .. Len(RootNode) : SubSeq(RootNode, 1, i) = RootNode BY DEF RootNode
        <3> QED BY <3>1, <3>2 DEF Prefixes
    <2> HIDE DEF t
    <2>4. Released(t, release)[RootNode] = t[RootNode] BY <2>1, <2>3 DEF Released
    <2> QED BY <1>5, <2>2, <2>4
<1> HIDE DEF cur, t
<1>8. /\ release \in 0 .. MaxVersion
      /\ release > 0 <=> cur >= Threshold /\ Recorded(gcStatus) # {}
      /\ GoodStatus(pop)
      /\ pop.latestGCVersion = IF cur < Threshold THEN gcStatus.latestGCVersion ELSE release
      /\ cur < Threshold => pop = gcStatus
    BY <1>2, <1>3, PopReleases, PopGood
<1> HIDE DEF release, pop
<1>9. rootSize' \in 0 .. (Width - 1)
    <2>1. root' \in Tree BY DEF TypeOK, Tree
    <2> QED BY <1>1, <1>2, <2>1, SizeOfTreeType
<1>10. /\ gcStatus'.latestGCVersion = pop.latestGCVersion
       /\ Recorded(pop) # {} => Recorded(gcStatus') # {}
       /\ rootSize' > 0 => Recorded(gcStatus') # {}
    BY <1>1, <1>4, <1>8, <1>9, AddGood
<1>11. CASE release > 0
    <2>1. SizeOfTree(root') > 0
        <3>1. root' \in Tree /\ Fits(root') BY DEF TypeOK, Tree, TreeFits
        <3> QED BY <1>7, <3>1, FittingTreeCounts
    <2>2. Recorded(gcStatus') # {} BY <1>1, <1>10, <1>11, <2>1
    <2>3. ~(cur < Threshold) BY <1>2, <1>8, <1>11, WidthFacts
    <2>4. gcStatus'.latestGCVersion # 0 BY <1>8, <1>10, <1>11, <2>3
    <2> QED BY <1>7, <2>2, <2>4 DEF ExactInv
<1>12. CASE ~(release > 0)
    <2>1. release = 0 BY <1>8, <1>12, SMTAssumption
    <2>2. CASE gcStatus.latestGCVersion = 0
        <3>1. Counted BY <2>2 DEF ExactInv
        <3>2. Counted' BY <1>1, <2>1, <2>2, <3>1, CommitExactly DEF cur
        <3>3. gcStatus'.latestGCVersion = 0 BY <1>8, <1>10, <2>1, <2>2
        <3> QED BY <1>7, <3>2, <3>3 DEF ExactInv
    <2>3. CASE gcStatus.latestGCVersion # 0
        <3>1. Recorded(gcStatus) # {} BY <1>6, <2>3
        <3>2. cur < Threshold BY <1>2, <1>8, <1>12, <3>1, WidthFacts
        <3>3. Recorded(gcStatus') # {} /\ gcStatus'.latestGCVersion # 0
            BY <1>8, <1>10, <2>3, <3>1, <3>2
        <3> QED BY <1>7, <3>3 DEF ExactInv
    <2> QED BY <2>2, <2>3
<1> QED BY <1>11, <1>12

\* A call of Set or MultiSet.
LEMMA SetExactInv ==
    ASSUME TypeOK, ExactInv, disturbed = 0, NEW S \in (SUBSET Keys) \ {{}},
           NEW items \in [S -> Value], NEW v \in Bounded, BlockVersion(v), SetItems(items, v),
           UNCHANGED sizeVars
    PROVE  ExactInv'
<1>1. NewBlock(v) BY SMTAssumption DEF NewBlock, BlockVersion, Bounded
<1>2. UNCHANGED <<rootSize, gcStatus, disturbed>> BY DEF sizeVars
<1>3. Resident(root'[RootNode])
    <2> DEFINE t == Extend(root, Paths[S])
               us == NewVersion(t[RootNode].versions, Info(v, SetChildren(t, RootNode, items)))
    <2>0. DOMAIN items = S OBVIOUS
    <2>1. RootNode \in Nodes /\ t \in Tree BY NodesClosed, ExtendType DEF TypeOK, Tree
    <2>2. RootNode \in Paths[S] BY RootOnPaths
    <2>3. t[RootNode] = root[RootNode] /\ Resident(root[RootNode]) BY <2>1 DEF ExactInv, Extend
    <2>4. root'[RootNode] = [t[RootNode] EXCEPT !.versions = us]
        BY <2>0, <2>1, <2>2 DEF SetItems
    <2> HIDE DEF t, us
    <2>5. t[RootNode] \in Node BY <2>1 DEF Tree
    <2>6. root'[RootNode].state = t[RootNode].state BY <2>4, <2>5 DEF Node
    <2> QED BY <2>3, <2>6 DEF Resident
<1>4. gcStatus.latestGCVersion = 0 => Counted'
    BY <1>1, <1>2, SetItemsExactly DEF ExactInv
<1> QED BY <1>2, <1>3, <1>4 DEF ExactInv

\* A call that changes no node in memory.
LEMMA SameExactInv ==
    ASSUME ExactInv, UNCHANGED <<root, journal, version, db, rootSize, gcStatus, disturbed>>
    PROVE  ExactInv'
BY DEF ExactInv, Counted

\* A call that makes the size inexact.
LEMMA DisturbExactInv ==
    ASSUME disturbed' > 0 PROVE ExactInv'
BY DEF ExactInv

LEMMA ExactNext ==
    ASSUME TypeOK, SizesOK, ExactInv, TypeOK', TreeFits', [SizedNext]_allVars
    PROVE  ExactInv'
<1>0. CASE disturbed # 0
    <2>1. disturbed \in Nat /\ disturbed > 0 BY <1>0 DEF SizesOK
    <2>2. disturbed' = disturbed \/ Disturb \/ SizedReopen
        BY DEF SizedNext, allVars, sizeVars, SizedSet, SizedMultiSet, SizedGetProof, SizedCommit,
               SizedCommitFails, SizedReset, SizedRollback, SizedRollbackFails
    <2>3. disturbed' > 0 BY <2>1, <2>2, DisturbType, SizedReopenType
    <2> QED BY <2>3, DisturbExactInv
<1>1. CASE disturbed = 0
    <2>1. ASSUME NEW k \in Keys, NEW val \in Vals, NEW v \in Bounded, SizedSet(k, val, v)
          PROVE  ExactInv'
        <3>1. Item(k, val) \in [{k} -> Value] /\ {k} \in (SUBSET Keys) \ {{}} BY DEF Item, Value
        <3>2. SetItems(Item(k, val), v) /\ BlockVersion(v) /\ UNCHANGED sizeVars
            BY <2>1 DEF SizedSet, CallSet, SetWithVersion
        <3> QED BY <1>1, <3>1, <3>2, SetExactInv
    <2>2. ASSUME NEW S \in (SUBSET Keys) \ {{}}, NEW items \in [S -> Vals], NEW v \in Bounded,
                 SizedMultiSet(items, v)
          PROVE  ExactInv'
        <3>1. items \in [S -> Value] BY DEF Value
        <3>2. SetItems(items, v) /\ BlockVersion(v) /\ UNCHANGED sizeVars
            BY <2>2 DEF SizedMultiSet, CallMultiSet, MultiSetWithVersion
        <3> QED BY <1>1, <3>1, <3>2, SetExactInv
    <2>3. ASSUME NEW k \in Keys, SizedGetProof(k) PROVE ExactInv'
        <3>1. CASE root' = root
            <4>1. UNCHANGED <<root, journal, version, db, rootSize, gcStatus, disturbed>>
                BY <2>3, <3>1 DEF SizedGetProof, CallGetProof, GetProof
            <4> QED BY <4>1, SameExactInv
        <3>2. CASE root' # root BY <2>3, <3>2, DisturbType, DisturbExactInv DEF SizedGetProof
        <3> QED BY <3>1, <3>2
    <2>4. ASSUME NEW recent \in NoVersion .. MaxVersion, NEW v \in Bounded, NEW late,
                 SizedCommit(recent, v, late)
          PROVE  ExactInv'
        BY <1>1, <2>4, CommitExactInv
    <2>5. ASSUME NEW recent \in NoVersion .. MaxVersion, NEW v \in Bounded, SizedCommitFails(recent, v)
          PROVE  ExactInv'
        <3>1. CASE root' = root
            <4>1. db' = Stored({}, Pruned(recent, journal))
                  /\ UNCHANGED <<root, journal, version, rootSize, gcStatus, disturbed>>
                BY <2>5, <3>1 DEF SizedCommitFails, CallCommitFails, CommitFails
            <4>2. db' = db BY <4>1 DEF Stored, TypeOK
            <4> QED BY <4>1, <4>2, SameExactInv
        <3>2. CASE root' # root BY <2>5, <3>2, DisturbType, DisturbExactInv DEF SizedCommitFails
        <3> QED BY <3>1, <3>2
    <2>6. ASSUME SizedReset PROVE ExactInv' BY <2>6, DisturbType, DisturbExactInv DEF SizedReset
    <2>7. ASSUME NEW target \in 0 .. MaxVersion, SizedRollback(target) \/ SizedRollbackFails(target)
          PROVE  ExactInv'
        BY <2>7, DisturbType, DisturbExactInv DEF SizedRollback, SizedRollbackFails
    <2>8. ASSUME SizedReopen PROVE ExactInv' BY <2>8, SizedReopenType, DisturbExactInv
    <2>9. ASSUME UNCHANGED allVars PROVE ExactInv'
        BY <2>9, SameExactInv DEF allVars, vars, sizeVars
    <2> QED BY <2>1, <2>2, <2>3, <2>4, <2>5, <2>6, <2>7, <2>8, <2>9 DEF SizedNext
<1> QED BY <1>0, <1>1

\* An empty tree counts nothing.
LEMMA ExactInit == SizedInit => ExactInv
<1> SUFFICES ASSUME SizedInit PROVE ExactInv OBVIOUS
<1>1. /\ Init /\ rootSize = 0 /\ gcStatus = EmptyStatus /\ disturbed = 0 BY DEF SizedInit
<1>2. /\ root = [n \in Nodes |-> IF n = RootNode THEN NewTreeNode ELSE NilNode]
      /\ journal = {} /\ version = InitVersion
      /\ db = [n \in Nodes |-> [found |-> FALSE, versions |-> <<>>]]
    BY <1>1 DEF Init
<1>3. RootNode \in Nodes /\ root[RootNode] = NewTreeNode BY <1>2, NodesClosed
<1>4. Resident(root[RootNode]) BY <1>3 DEF NewTreeNode, Resident
<1>5. \A n \in Nodes : root[n].versions = <<>> BY <1>2 DEF NewTreeNode, NilNode
<1>6. AllInMemory(root, db)
    <2>1. \A n \in Nodes \ {RootNode} : root[n] = NilNode /\ ~db[n].found /\ ~Resident(root[n])
        BY <1>2 DEF NilNode, Resident
    <2> QED BY <1>4, <2>1 DEF AllInMemory
<1>7. Dated(root, journal, version)
    BY <1>2, <1>5, SMTAssumption DEF Dated, Positive, LatestVersion
<1>8. SumFunctionOnSet(Weights(root, journal), Nodes) = 0
    <2> DEFINE e == Weights(root, journal)
    <2>1. \A n \in Nodes : e[n] = 0 BY <1>2, <1>5 DEF Weights, Weight, CommittedWeight
    <2> HIDE DEF e
    <2>2. {} \in SUBSET Nodes /\ Nodes \ {} = Nodes OBVIOUS
    <2>3. SumFunctionOnSet(e, Nodes) = SumFunctionOnSet(e, {})
        BY <2>1, <2>2, NodesFinite, SumOfPart
    <2> QED BY <2>3, SumEmpty DEF e
<1>9. 0 % Width = 0 BY WidthFacts
<1> QED BY <1>1, <1>4, <1>6, <1>7, <1>8, <1>9 DEF ExactInv, Counted, EmptyStatus

\* While the nodes in memory got there by being set and the tree takes fewer
\* bytes than a size counts, rootSize is after every commit the size of the
\* nodes in memory: the unsigned differences of writeNode, which may be
\* negative, add up, in whatever order the journal is visited, and the guess
\* from a node's previous version is right (smt.go 726-776).
THEOREM AccountingExact == SizedSpec /\ []TreeFits => []AccountingIsExact
<1>1. SizedInit => ExactInv BY ExactInit
<1>2. TypeOK /\ SizesOK /\ ExactInv /\ TypeOK' /\ TreeFits' /\ [SizedNext]_allVars => ExactInv'
    BY ExactNext
<1>3. TypeOK /\ ExactInv => AccountingIsExact
    BY CountedIsExact DEF ExactInv, AccountingIsExact
<1> QED BY <1>1, <1>2, <1>3, SizedTypes, PTL DEF SizedSpec

----------------------------------------------------------------------------
(* What pop answers is one of the answers SMT lets it give.                *)

LEMMA SizedStep ==
    ASSUME TypeOK, SizesOK, [SizedNext]_allVars PROVE [Next]_vars
<1>1. ASSUME NEW k \in Keys, NEW val \in Vals, NEW v \in Bounded, SizedSet(k, val, v) PROVE Next
    <2>1. val \in Value /\ CallSet(k, val, v) BY <1>1 DEF SizedSet, Value
    <2> QED BY <2>1 DEF Next
<1>2. ASSUME NEW S \in (SUBSET Keys) \ {{}}, NEW items \in [S -> Vals], NEW v \in Bounded,
             SizedMultiSet(items, v)
      PROVE  Next
    <2>1. items \in [S -> Value] /\ CallMultiSet(items, v) BY <1>2 DEF SizedMultiSet, Value
    <2> QED BY <2>1 DEF Next
<1>3. ASSUME NEW k \in Keys, SizedGetProof(k) PROVE Next BY <1>3 DEF SizedGetProof, Next
<1>4. ASSUME NEW recent \in NoVersion .. MaxVersion, NEW late \in SUBSET Shortened(recent),
             NEW v \in Bounded, SizedCommit(recent, v, late)
      PROVE  Next
    <2> DEFINE release == ReleaseVersion(gcStatus, CurrentSize(recent))
    <2>1. CallCommit(recent, v, release, late) BY <1>4, CommitSteps
    <2>2. release \in 0 .. MaxVersion BY CurrentSizeType, PopReleases DEF SizesOK
    <2> HIDE DEF release
    <2> QED BY <2>1, <2>2 DEF Next
<1>5. ASSUME NEW recent \in NoVersion .. MaxVersion, NEW v \in Bounded, SizedCommitFails(recent, v)
      PROVE  Next
    BY <1>5 DEF SizedCommitFails, Next
<1>6. ASSUME SizedReset PROVE Next BY <1>6 DEF SizedReset, Next
<1>7. ASSUME NEW target \in 0 .. MaxVersion, SizedRollback(target) \/ SizedRollbackFails(target)
      PROVE  Next
    BY <1>7 DEF SizedRollback, SizedRollbackFails, Next
<1>8. ASSUME SizedReopen PROVE Next BY <1>8 DEF SizedReopen, Next
<1>9. ASSUME UNCHANGED allVars PROVE UNCHANGED vars BY <1>9 DEF allVars
<1> QED BY <1>1, <1>2, <1>3, <1>4, <1>5, <1>6, <1>7, <1>8, <1>9 DEF SizedNext

\* The tree that decides on garbage collection by its size is the tree of
\* module SMT, in which any commit may release any version: what is proved
\* there holds with the real gcStatus.
THEOREM SizedIsTree == SizedSpec => Spec
<1>1. SizedInit => Init BY DEF SizedInit
<1>2. TypeOK /\ SizesOK /\ [SizedNext]_allVars => [Next]_vars BY SizedStep
<1> QED BY <1>1, <1>2, SizedTypes, PTL DEF SizedSpec, Spec

\* Whatever a collection has archived can be loaded again with the hash the
\* tree used for it, also when the archived node was pruned after its parent
\* was stored (smt.go 598-612, 726-776).
THEOREM CollectedNodesReload ==
    ASSUME RedoneCalls PROVE SizedSpec => []NodesCanBeReloaded
BY SizedIsTree, NodesReload, PTL
============================================================================
