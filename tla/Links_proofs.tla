----------------------------- MODULE Links_proofs -----------------------------
(***************************************************************************)
(* Lemmas for chains of records, of any number, for what is defined by     *)
(* recursion over numbers, and for sequences taken apart and put together: *)
(* the proofs about the page map and about the services share them.        *)
(***************************************************************************)
EXTENDS Links, SequencesExt, FiniteSetTheorems, SequenceTheorems, WellFoundedInduction, TLAPS

(* Numbers: least elements, induction, functions given step by step.       *)

(* A set of numbers has a least one.                                       *)
LEMMA Least ==
  ASSUME NEW T \in SUBSET Nat, T # {}
  PROVE  \E x \in T : \A y \in T : x <= y
<1>1. PICK x \in T : \A y \in T : ~ (<<y, x>> \in OpToRel(<, Nat))
  BY NatLessThanWellFounded, WFMin
<1>2. \A y \in T : <<y, x>> \in OpToRel(<, Nat) <=> y < x
  BY DEF OpToRel
<1>. QED
  <2>1. \A y \in T : ~(y < x)
    BY <1>1, <1>2
  <2>. QED
    BY <2>1

(* Induction over the natural numbers, for a set.                          *)
LEMMA Induct ==
  ASSUME NEW T \in SUBSET Nat, 0 \in T, \A n \in T : n + 1 \in T
  PROVE  T = Nat
<1>. SUFFICES ASSUME Nat \ T # {} PROVE FALSE
  OBVIOUS
<1>1. PICK x \in Nat \ T : \A y \in Nat \ T : x <= y
  BY Least, Nat \ T \in SUBSET Nat
<1>2. x # 0 /\ x - 1 \in Nat /\ x - 1 \notin Nat \ T
  BY <1>1
<1>. QED
  BY <1>2

(* The least of a set of numbers.                                          *)
LEMMA LeastIs ==
  ASSUME NEW T \in SUBSET Nat, T # {}
  PROVE  Min(T) \in T /\ \A y \in T : Min(T) <= y
<1>1. PICK x \in T : \A y \in T : x <= y
  BY Least
<1>. QED
  BY <1>1 DEF Min

(* A function that is given by its value at 0 and by a step.               *)
IteratesFrom(f, a, G) ==
  /\ f = [k \in Nat |-> f[k]] /\ f[0] = a
  /\ \A k \in Nat : f[k + 1] = G[<<k + 1, f[k]>>]

(* Such a function exists.                                                 *)
LEMMA Iterates == \A a, G : \E f : IteratesFrom(f, a, G)
<1>. SUFFICES ASSUME NEW a, NEW G
              PROVE  \E f : /\ f = [k \in Nat |-> f[k]] /\ f[0] = a
                            /\ \A k \in Nat : f[k + 1] = G[<<k + 1, f[k]>>]
  BY DEF IteratesFrom
<1>. DEFINE Up(f, n) == \A k \in 0 .. n : f[k] = IF k = 0 THEN a ELSE G[<<k, f[k - 1]>>]
            T == {n \in Nat : \E f : Up(f, n)}
<1>1. 0 \in T
  <2>1. Up([k \in Nat |-> a], 0)
    OBVIOUS
  <2>. QED
    BY <2>1
<1>2. ASSUME NEW n \in T PROVE n + 1 \in T
  <2>1. PICK f : Up(f, n)
    OBVIOUS
  <2>. DEFINE g == [k \in Nat |-> IF k = n + 1 THEN G[<<k, f[n]>>] ELSE f[k]]
  <2>2. Up(g, n + 1)
    <3>. SUFFICES ASSUME NEW k \in 0 .. n + 1
                  PROVE  g[k] = IF k = 0 THEN a ELSE G[<<k, g[k - 1]>>]
      OBVIOUS
    <3>1. CASE k = n + 1
      <4>1. g[n] = f[n] /\ k # 0 /\ k - 1 = n
        BY <3>1
      <4>. QED
        BY <3>1, <4>1
    <3>2. CASE k # n + 1
      <4>1. k \in 0 .. n /\ g[k] = f[k] /\ (k # 0 => k - 1 \in Nat /\ k - 1 # n + 1 /\ g[k - 1] = f[k - 1])
        BY <3>2
      <4>2. f[k] = IF k = 0 THEN a ELSE G[<<k, f[k - 1]>>]
        BY <2>1, <4>1
      <4>. HIDE DEF g
      <4>. QED
        BY <4>1, <4>2
    <3>. QED
      BY <3>1, <3>2
  <2>. HIDE DEF g
  <2>. QED
    BY <2>2
<1>3. T = Nat
  <2>1. T \in SUBSET Nat
    OBVIOUS
  <2>. HIDE DEF T
  <2>. QED
    BY <1>1, <1>2, <2>1, Induct
<1>4. \A n \in Nat : \E f : Up(f, n)
  BY <1>3
<1>. DEFINE F == [n \in Nat |-> CHOOSE f : Up(f, n)]
            h == [n \in Nat |-> F[n][n]]
<1>5. \A n \in Nat : Up(F[n], n)
  BY <1>4
<1>. HIDE DEF F
<1>6. ASSUME NEW n \in Nat, NEW m \in Nat, NEW k \in Nat, k <= n, k <= m PROVE F[n][k] = F[m][k]
  <2>. DEFINE S == {i \in Nat : i <= n /\ i <= m => F[n][i] = F[m][i]}
  <2>0. Up(F[n], n) /\ Up(F[m], m) /\ 0 \in 0 .. n /\ 0 \in 0 .. m
    BY <1>5
  <2>1. 0 \in S
    <3>1. F[n][0] = a /\ F[m][0] = a
      BY <2>0
    <3>. QED
      BY <3>1
  <2>2. ASSUME NEW i \in S PROVE i + 1 \in S
    <3>. SUFFICES ASSUME i + 1 <= n, i + 1 <= m PROVE F[n][i + 1] = F[m][i + 1]
      OBVIOUS
    <3>1. i + 1 \in 0 .. n /\ i + 1 \in 0 .. m /\ i + 1 # 0 /\ (i + 1) - 1 = i /\ F[n][i] = F[m][i]
      OBVIOUS
    <3>2. /\ F[n][i + 1] = G[<<i + 1, F[n][(i + 1) - 1]>>]
          /\ F[m][i + 1] = G[<<i + 1, F[m][(i + 1) - 1]>>]
      BY <1>5, <3>1
    <3>. QED
      BY <3>1, <3>2
  <2>3. S = Nat
    <3>1. S \in SUBSET Nat
      OBVIOUS
    <3>. HIDE DEF S
    <3>. QED
      BY <2>1, <2>2, <3>1, Induct
  <2>4. k \in S
    <3>. HIDE DEF S
    <3>. QED
      BY <2>3
  <2>. QED
    BY <1>6, <2>4
<1>7. ASSUME NEW k \in Nat PROVE h[k] = IF k = 0 THEN a ELSE G[<<k, h[k - 1]>>]
  <2>1. F[k][k] = IF k = 0 THEN a ELSE G[<<k, F[k][k - 1]>>]
    BY <1>5
  <2>2. k # 0 => k - 1 \in Nat /\ F[k][k - 1] = F[k - 1][k - 1]
    BY <1>6
  <2>. QED
    BY <2>1, <2>2
<1>8. h = [k \in Nat |-> h[k]]
  OBVIOUS
<1>. HIDE DEF h
<1>9. \A k \in Nat : k + 1 \in Nat /\ k + 1 # 0 /\ (k + 1) - 1 = k
  OBVIOUS
<1>10. h[0] = a /\ \A k \in Nat : h[k + 1] = G[<<k + 1, h[k]>>]
  BY <1>7, <1>9
<1>. QED
  BY <1>8, <1>10

-----------------------------------------------------------------------------
(* Chains: the nodes from the first, each leading to the next.             *)

(* The nodes of a sequence, the first one, and the one after the i-th.     *)
In(s) == {s[i] : i \in 1 .. Len(s)}
Starts(s) == IF Len(s) = 0 THEN 0 ELSE s[1]
Follows(s, i) == IF i = Len(s) THEN 0 ELSE s[i + 1]

(* The chain that starts with n, among the nodes nd, is s.                 *)
IsChain(nd, s, n) ==
  /\ s \in Seq(DOMAIN nd)
  /\ \A i, k \in 1 .. Len(s) : s[i] = s[k] => i = k
  /\ n = Starts(s)
  /\ \A i \in 1 .. Len(s) : nd[s[i]].next = Follows(s, i)

(* The elements of a sequence.                                             *)
LEMMA SeqIs ==
  ASSUME NEW S, NEW s \in Seq(S)
  PROVE  /\ Len(s) \in Nat /\ DOMAIN s = 1 .. Len(s) /\ s = [k \in 1 .. Len(s) |-> s[k]]
         /\ \A i \in 1 .. Len(s) : s[i] \in S
<1>1. Len(s) \in Nat /\ s \in [1 .. Len(s) -> S]
  BY LenProperties
<1>. QED
  BY <1>1

(* A chain of distinct nodes is not longer than there are nodes.           *)
LEMMA ChainLength ==
  ASSUME NEW N \in Nat, NEW s \in Seq(1 .. N),
         \A i, k \in 1 .. Len(s) : s[i] = s[k] => i = k
  PROVE  /\ Len(s) <= N
         /\ IsFiniteSet(In(s)) /\ Cardinality(In(s)) = Len(s)
<1>1. s \in [1 .. Len(s) -> In(s)] /\ Len(s) \in Nat /\ In(s) \subseteq 1 .. N
  BY DEF In
<1>2. s \in Injection(1 .. Len(s), In(s)) /\ s \in Surjection(1 .. Len(s), In(s))
  BY <1>1 DEF Injection, Surjection, IsInjective, In
<1>3. \A n \in Nat : IsFiniteSet(1 .. n) /\ Cardinality(1 .. n) = n
  <2>. SUFFICES ASSUME NEW n \in Nat PROVE IsFiniteSet(1 .. n) /\ Cardinality(1 .. n) = n
    OBVIOUS
  <2>. QED
    BY FS_Interval
<1>4. IsFiniteSet(In(s)) /\ Cardinality(In(s)) <= N
  <2>1. In(s) \in SUBSET (1 .. N)
    BY <1>1
  <2>. QED
    BY <1>3, <2>1, FS_Subset
<1>5. IsFiniteSet(1 .. Len(s)) /\ Cardinality(1 .. Len(s)) = Len(s)
  BY <1>1, <1>3
<1>6. Cardinality(In(s)) = Len(s)
  <2>1. Cardinality(1 .. Len(s)) <= Cardinality(In(s))
    BY <1>2, <1>4, FS_Injection
  <2>2. Cardinality(In(s)) <= Cardinality(1 .. Len(s))
    BY <1>2, <1>5, FS_Surjection
  <2>3. Cardinality(In(s)) \in Nat
    BY <1>4, FS_CardinalityType
  <2>. QED
    BY <1>1, <1>5, <2>1, <2>2, <2>3
<1>. QED
  BY <1>4, <1>6

(* The walk from record to record, and that there is one.                  *)
Walks(f, nd, n) ==
  f = [k \in Nat |-> IF k = 0 THEN n ELSE LET m == f[k - 1] IN
                    IF m = 0 THEN 0 ELSE nd[m].next]

LEMMA WalkIs ==
  ASSUME NEW L \in Nat, NEW nd, DOMAIN nd = 1 .. L,
         \A m \in 1 .. L : nd[m].next \in 0 .. L,
         NEW n \in 0 .. L
  PROVE  \E f : Walks(f, nd, n)
<1>. DEFINE G == [x \in Nat \X (0 .. L) |-> IF x[2] = 0 THEN 0 ELSE nd[x[2]].next]
<1>0. L \in Nat
  OBVIOUS
<1>1. ASSUME NEW k \in Nat, NEW v \in 0 .. L
      PROVE  /\ G[<<k, v>>] = IF v = 0 THEN 0 ELSE nd[v].next
             /\ G[<<k, v>>] \in 0 .. L
  <2>1. G[<<k, v>>] = IF v = 0 THEN 0 ELSE nd[v].next
    OBVIOUS
  <2>2. v # 0 => v \in 1 .. L
    OBVIOUS
  <2>. HIDE DEF G
  <2>. QED
    BY <2>1, <2>2
<1>. HIDE DEF G
<1>2. PICK f : /\ f = [k \in Nat |-> f[k]] /\ f[0] = n
               /\ \A k \in Nat : f[k + 1] = G[<<k + 1, f[k]>>]
  <2>1. \E f : IteratesFrom(f, n, G)
    BY Iterates
  <2>. QED
    BY <2>1, Zenon DEF IteratesFrom
<1>2a. \A i \in Nat : f[i + 1] = G[<<i + 1, f[i]>>]
  BY <1>2
<1>3. \A k \in Nat : f[k] \in 0 .. L
  <2>. DEFINE T == {k \in Nat : f[k] \in 0 .. L}
  <2>1. 0 \in T
    BY <1>2
  <2>2. ASSUME NEW k \in T PROVE k + 1 \in T
    <3>0. k \in Nat /\ f[k] \in 0 .. L
      OBVIOUS
    <3>1. k + 1 \in Nat /\ f[k + 1] = G[<<k + 1, f[k]>>] /\ f[k] \in 0 .. L
      BY <1>2a, <3>0
    <3>2. G[<<k + 1, f[k]>>] \in 0 .. L
      BY <1>1, <3>1
    <3>. QED
      BY <3>1, <3>2
  <2>3. T = Nat
    <3>1. T \in SUBSET Nat
      OBVIOUS
    <3>. HIDE DEF T
    <3>. QED
      BY <2>1, <2>2, <3>1, Induct
  <2>. QED
    BY <2>3
<1>4. \A k \in Nat : f[k] = IF k = 0 THEN n ELSE LET m == f[k - 1] IN
                                   IF m = 0 THEN 0 ELSE nd[m].next
  <2>. SUFFICES ASSUME NEW k \in Nat, k # 0
                PROVE  f[k] = IF f[k - 1] = 0 THEN 0 ELSE nd[f[k - 1]].next
    BY <1>2
  <2>1. k - 1 \in Nat /\ (k - 1) + 1 = k
    OBVIOUS
  <2>2. f[k] = G[<<k, f[k - 1]>>] /\ f[k - 1] \in 0 .. L
    BY <1>2, <1>3, <2>1
  <2>. QED
    BY <1>1, <2>2
<1>. QED
  BY <1>2, <1>4 DEF Walks

(* What is chained is what ChainFrom finds.                                *)
LEMMA ChainFromIs ==
  ASSUME NEW L \in Nat, NEW nd, DOMAIN nd = 1 .. L,
         \A m \in 1 .. L : nd[m].next \in 0 .. L,
         NEW s, NEW n, IsChain(nd, s, n)
  PROVE  ChainFrom(nd, L, n) = s
<1>. DEFINE at[k \in Nat] == IF k = 0 THEN n ELSE LET m == at[k - 1] IN
                                   IF m = 0 THEN 0 ELSE nd[m].next
            K == {k \in 0 .. L : at[k] = 0}
<1>0. /\ L \in Nat /\ DOMAIN nd = 1 .. L /\ s \in Seq(1 .. L) /\ Len(s) \in Nat
      /\ s = [k \in 1 .. Len(s) |-> s[k]] /\ \A i \in 1 .. Len(s) : s[i] \in 1 .. L
  <2>1. DOMAIN nd = 1 .. L /\ s \in Seq(1 .. L)
    BY DEF IsChain
  <2>. QED
    BY <2>1, SeqIs
<1>1. n \in 0 .. L
  BY <1>0, SMTT(30) DEF IsChain, Starts
<1>2. at = [k \in Nat |-> IF k = 0 THEN n ELSE LET m == at[k - 1] IN
                                   IF m = 0 THEN 0 ELSE nd[m].next]
  <2>1. \E f : Walks(f, nd, n)
    <3>. HIDE DEF at, K
    <3>. QED
      BY <1>1, WalkIs
  <2>. QED
    BY <2>1 DEF Walks
<1>3. ChainFrom(nd, L, n) = [k \in 1 .. Min(K) |-> at[k - 1]]
  BY DEF ChainFrom
<1>. HIDE DEF at
<1>4. \A k \in Nat : k <= Len(s) => at[k] = IF k = Len(s) THEN 0 ELSE s[k + 1]
  <2>. DEFINE T == {k \in Nat : k <= Len(s) => at[k] = IF k = Len(s) THEN 0 ELSE s[k + 1]}
  <2>1. 0 \in T
    BY <1>0, <1>2 DEF IsChain, Starts
  <2>2. ASSUME NEW k \in T PROVE k + 1 \in T
    <3>. SUFFICES ASSUME k + 1 <= Len(s)
                  PROVE  at[k + 1] = IF k + 1 = Len(s) THEN 0 ELSE s[k + 2]
      BY <1>0
    <3>1. k + 1 \in 1 .. Len(s) /\ k \in Nat /\ at[k] = s[k + 1] /\ s[k + 1] # 0
      BY <1>0
    <3>2. at[k + 1] = nd[s[k + 1]].next
      BY <1>2, <3>1
    <3>3. nd[s[k + 1]].next = Follows(s, k + 1)
      BY <3>1 DEF IsChain
    <3>4. (k + 1) + 1 = k + 2
      BY <3>1
    <3>. QED
      BY <3>2, <3>3, <3>4 DEF Follows
  <2>3. T = Nat
    <3>1. T \in SUBSET Nat
      OBVIOUS
    <3>. HIDE DEF T
    <3>. QED
      BY <2>1, <2>2, <3>1, Induct
  <2>. QED
    BY <2>3
<1>5. Len(s) <= L
  BY <1>0, ChainLength DEF IsChain
<1>6. Len(s) \in K /\ \A k \in K : Len(s) <= k
  BY <1>0, <1>4, <1>5
<1>7. Min(K) = Len(s)
  <2>1. \A x \in K : (\A y \in K : x =< y) => x = Len(s)
    BY <1>0, <1>6
  <2>. HIDE DEF K
  <2>. QED
    BY <1>6, <2>1 DEF Min
<1>8. \A k \in 1 .. Len(s) : at[k - 1] = s[k]
  <2>. SUFFICES ASSUME NEW k \in 1 .. Len(s) PROVE at[k - 1] = s[k]
    OBVIOUS
  <2>1. k - 1 \in Nat /\ k - 1 <= Len(s) /\ k - 1 # Len(s) /\ (k - 1) + 1 = k
    BY <1>0
  <2>. QED
    BY <1>4, <2>1
<1>. HIDE DEF K
<1>. QED
  BY <1>0, <1>3, <1>7, <1>8

-----------------------------------------------------------------------------
(* Chains under the stores that InsertPage and RemovePage make.            *)

LEMMA ChainParts ==
  ASSUME NEW nd, NEW s, NEW n, IsChain(nd, s, n)
  PROVE  /\ Len(s) \in Nat /\ s = [k \in 1 .. Len(s) |-> s[k]]
         /\ \A i \in 1 .. Len(s) : s[i] \in DOMAIN nd
         /\ In(s) \subseteq DOMAIN nd
<1>1. s \in Seq(DOMAIN nd)
  BY DEF IsChain
<1>2. /\ Len(s) \in Nat /\ s = [k \in 1 .. Len(s) |-> s[k]]
      /\ \A i \in 1 .. Len(s) : s[i] \in DOMAIN nd
  BY <1>1, SeqIs
<1>. QED
  BY <1>2 DEF In

(* A chain is untouched by what happens to other nodes.                    *)
LEMMA ChainKept ==
  ASSUME NEW nd, NEW nd2, NEW s, NEW n, IsChain(nd, s, n),
         DOMAIN nd \subseteq DOMAIN nd2,
         \A m \in In(s) : nd2[m].next = nd[m].next
  PROVE  IsChain(nd2, s, n)
<1>1. s \in Seq(DOMAIN nd)
  BY DEF IsChain
<1>2. s \in Seq(DOMAIN nd2)
  BY <1>1, SeqMonotonic
<1>3. \A i \in 1 .. Len(s) : s[i] \in In(s)
  BY DEF In
<1>. QED
  BY <1>2, <1>3 DEF IsChain

(* A node that leads to the first of a chain goes before it.               *)
LEMMA ChainPush ==
  ASSUME NEW nd, NEW s, NEW n, IsChain(nd, s, n),
         NEW m \in DOMAIN nd, m \notin In(s), nd[m].next = n
  PROVE  IsChain(nd, <<m>> \o s, m) /\ In(<<m>> \o s) = In(s) \union {m}
<1>. DEFINE t == <<m>> \o s
            D == DOMAIN nd
<1>0. /\ Len(s) \in Nat /\ s \in Seq(D) /\ \A i \in 1 .. Len(s) : s[i] \in D
      /\ \A i, k \in 1 .. Len(s) : s[i] = s[k] => i = k
      /\ n = Starts(s)
      /\ \A i \in 1 .. Len(s) : nd[s[i]].next = Follows(s, i)
  BY ChainParts DEF IsChain
<1>1. /\ t \in Seq(D) /\ Len(t) = Len(s) + 1
      /\ \A i \in 1 .. Len(s) + 1 : t[i] = IF i = 1 THEN m ELSE s[i - 1]
  <2>1. <<m>> \in Seq(D) /\ Len(<<m>>) = 1 /\ <<m>>[1] = m
    OBVIOUS
  <2>2. /\ t \in Seq(D) /\ Len(t) = Len(<<m>>) + Len(s)
        /\ \A i \in 1 .. Len(<<m>>) + Len(s) :
             t[i] = IF i <= Len(<<m>>) THEN <<m>>[i] ELSE s[i - Len(<<m>>)]
    BY <1>0, <2>1, ConcatProperties
  <2>. HIDE DEF t
  <2>. QED
    BY <1>0, <2>1, <2>2
<1>. HIDE DEF t
<1>2. \A i \in 1 .. Len(s) : i + 1 \in 1 .. Len(t) /\ t[i + 1] = s[i]
  <2>. SUFFICES ASSUME NEW i \in 1 .. Len(s) PROVE i + 1 \in 1 .. Len(t) /\ t[i + 1] = s[i]
    OBVIOUS
  <2>1. i + 1 \in 1 .. Len(s) + 1 /\ i + 1 # 1 /\ (i + 1) - 1 = i
    BY <1>0
  <2>. QED
    BY <1>1, <2>1
<1>3. \A i \in 1 .. Len(t) : i = 1 \/ i - 1 \in 1 .. Len(s)
  BY <1>0, <1>1
<1>4. t[1] = m /\ 1 \in 1 .. Len(t) /\ Len(t) # 0
  BY <1>0, <1>1
<1>5. In(t) = In(s) \union {m}
  <2>1. In(t) \subseteq In(s) \union {m}
    BY <1>0, <1>1, <1>3 DEF In
  <2>2. In(s) \subseteq In(t)
    BY <1>2 DEF In
  <2>3. m \in In(t)
    BY <1>4 DEF In
  <2>. QED
    BY <2>1, <2>2, <2>3
<1>6. \A i, k \in 1 .. Len(t) : t[i] = t[k] => i = k
  <2>. SUFFICES ASSUME NEW i \in 1 .. Len(t), NEW k \in 1 .. Len(t), t[i] = t[k] PROVE i = k
    OBVIOUS
  <2>1. \A l \in 1 .. Len(t) : l # 1 => t[l] = s[l - 1] /\ l - 1 \in 1 .. Len(s) /\ t[l] # m
    BY <1>0, <1>1, <1>3 DEF In
  <2>2. CASE i = 1 \/ k = 1
    BY <1>4, <2>1, <2>2
  <2>3. CASE i # 1 /\ k # 1
    <3>1. i - 1 \in 1 .. Len(s) /\ k - 1 \in 1 .. Len(s) /\ s[i - 1] = s[k - 1]
      BY <2>1, <2>3
    <3>2. i - 1 = k - 1
      BY <1>0, <3>1
    <3>. QED
      BY <1>0, <1>1, <3>2
  <2>. QED
    BY <2>2, <2>3
<1>7. m = Starts(t)
  BY <1>4 DEF Starts
<1>8. ASSUME NEW i \in 1 .. Len(t) PROVE nd[t[i]].next = Follows(t, i)
  <2>1. CASE i = 1
    <3>1. CASE Len(s) = 0
      BY <1>0, <1>1, <1>4, <2>1, <3>1 DEF Starts, Follows
    <3>2. CASE Len(s) # 0
      <4>1. 1 \in 1 .. Len(s) /\ Len(t) # 1
        BY <1>0, <1>1, <3>2
      <4>. QED
        BY <1>0, <1>2, <1>4, <2>1, <3>2, <4>1 DEF Starts, Follows
    <3>. QED
      BY <3>1, <3>2
  <2>2. CASE i # 1
    <3>1. i - 1 \in 1 .. Len(s) /\ t[i] = s[i - 1] /\ (i - 1) + 1 = i
      BY <1>0, <1>1, <1>3, <2>2
    <3>2. nd[t[i]].next = IF i - 1 = Len(s) THEN 0 ELSE s[i]
      BY <1>0, <3>1 DEF Follows
    <3>3. (i - 1 = Len(s)) <=> (i = Len(t))
      BY <1>0, <1>1
    <3>4. i - 1 # Len(s) => i \in 1 .. Len(s)
      BY <1>0, <3>1
    <3>. QED
      BY <1>2, <3>2, <3>3, <3>4 DEF Follows
  <2>. QED
    BY <2>1, <2>2
<1>. QED
  BY <1>1, <1>5, <1>6, <1>7, <1>8 DEF IsChain, t

(* The k-th node of a chain taken out.                                     *)
Without(s, k) == [i \in 1 .. Len(s) - 1 |-> IF i < k THEN s[i] ELSE s[i + 1]]

LEMMA WithoutIs ==
  ASSUME NEW nd, NEW s, NEW n, IsChain(nd, s, n), NEW k \in 1 .. Len(s)
  PROVE  /\ Without(s, k) \in Seq(DOMAIN nd) /\ Len(Without(s, k)) = Len(s) - 1
         /\ \A i \in 1 .. Len(s) - 1 : Without(s, k)[i] = IF i < k THEN s[i] ELSE s[i + 1]
         /\ \A i, l \in 1 .. Len(s) - 1 : Without(s, k)[i] = Without(s, k)[l] => i = l
         /\ In(Without(s, k)) = In(s) \ {s[k]}
<1>. DEFINE D == DOMAIN nd
            N == Len(s) - 1
            t == Without(s, k)
<1>0. /\ Len(s) \in Nat /\ \A i \in 1 .. Len(s) : s[i] \in D
      /\ \A i, l \in 1 .. Len(s) : s[i] = s[l] => i = l
  BY ChainParts DEF IsChain
<1>1. N \in Nat /\ \A i \in 1 .. N : i \in 1 .. Len(s) /\ i + 1 \in 1 .. Len(s)
  BY <1>0
<1>2. t = [i \in 1 .. N |-> IF i < k THEN s[i] ELSE s[i + 1]]
  BY DEF Without
<1>3. \A i \in 1 .. N : t[i] = (IF i < k THEN s[i] ELSE s[i + 1]) /\ t[i] \in D
  BY <1>0, <1>1, <1>2
<1>4. t \in Seq(D) /\ Len(t) = N
  <2>1. t \in [1 .. N -> D]
    BY <1>0, <1>1, <1>2
  <2>. HIDE DEF t, N, D
  <2>. QED
    BY <1>1, <2>1
<1>. HIDE DEF t
<1>5. \A i, l \in 1 .. N : t[i] = t[l] => i = l
  <2>. SUFFICES ASSUME NEW i \in 1 .. N, NEW l \in 1 .. N, t[i] = t[l] PROVE i = l
    OBVIOUS
  <2>. QED
    BY <1>0, <1>1, <1>3
<1>6. In(t) = In(s) \ {s[k]}
  <2>1. ASSUME NEW i \in 1 .. N PROVE t[i] \in In(s) \ {s[k]}
    BY <1>0, <1>1, <1>3 DEF In
  <2>2. ASSUME NEW i \in 1 .. Len(s), i # k PROVE \E l \in 1 .. N : t[l] = s[i]
    <3>1. CASE i < k
      BY <1>0, <1>3, <3>1
    <3>2. CASE i > k
      <4>1. i - 1 \in 1 .. N /\ ~(i - 1 < k) /\ (i - 1) + 1 = i
        BY <1>0, <3>2
      <4>. QED
        BY <1>3, <4>1
    <3>. QED
      BY <2>2, <3>1, <3>2, <1>0
  <2>3. In(t) \subseteq In(s) \ {s[k]}
    BY <1>4, <2>1 DEF In
  <2>4. ASSUME NEW x \in In(s) \ {s[k]} PROVE x \in In(t)
    <3>1. PICK i \in 1 .. Len(s) : x = s[i]
      BY DEF In
    <3>2. PICK l \in 1 .. N : t[l] = s[i]
      BY <2>2, <3>1
    <3>. QED
      BY <1>4, <3>1, <3>2 DEF In
  <2>. QED
    BY <2>3, <2>4
<1>. QED
  BY <1>3, <1>4, <1>5, <1>6 DEF t

(* The first node of a chain taken out.                                    *)
LEMMA ChainPop ==
  ASSUME NEW nd, NEW s, NEW n, IsChain(nd, s, n), Len(s) # 0
  PROVE  IsChain(nd, Without(s, 1), nd[n].next) /\ n \in In(s) /\ s[1] = n
<1>. DEFINE t == Without(s, 1)
            N == Len(s) - 1
<1>0. /\ Len(s) \in Nat /\ n = s[1] /\ 1 \in 1 .. Len(s)
      /\ \A i \in 1 .. Len(s) : nd[s[i]].next = Follows(s, i)
  BY ChainParts DEF IsChain, Starts
<1>1. /\ t \in Seq(DOMAIN nd) /\ Len(t) = N
      /\ \A i \in 1 .. N : t[i] = IF i < 1 THEN s[i] ELSE s[i + 1]
      /\ \A i, l \in 1 .. N : t[i] = t[l] => i = l
  <2>1. /\ Without(s, 1) \in Seq(DOMAIN nd) /\ Len(Without(s, 1)) = Len(s) - 1
        /\ \A i \in 1 .. Len(s) - 1 : Without(s, 1)[i] = IF i < 1 THEN s[i] ELSE s[i + 1]
        /\ \A i, l \in 1 .. Len(s) - 1 : Without(s, 1)[i] = Without(s, 1)[l] => i = l
    <3>1. PICK k : k = 1
      OBVIOUS
    <3>2. k \in 1 .. Len(s)
      BY <1>0, <3>1
    <3>3. /\ Without(s, k) \in Seq(DOMAIN nd) /\ Len(Without(s, k)) = Len(s) - 1
          /\ \A i \in 1 .. Len(s) - 1 : Without(s, k)[i] = IF i < k THEN s[i] ELSE s[i + 1]
          /\ \A i, l \in 1 .. Len(s) - 1 : Without(s, k)[i] = Without(s, k)[l] => i = l
      BY ONLY IsChain(nd, s, n), <3>2, WithoutIs
    <3>. QED
      BY ONLY <3>1, <3>3
  <2>. QED
    BY ONLY <2>1 DEF t, N
<1>2. \A i \in 1 .. N : t[i] = s[i + 1] /\ i + 1 \in 1 .. Len(s)
  BY <1>0, <1>1
<1>. HIDE DEF t
<1>3. nd[n].next = Starts(t)
  BY <1>0, <1>1, <1>2 DEF Follows, Starts
<1>4. ASSUME NEW i \in 1 .. N PROVE nd[t[i]].next = Follows(t, i)
  <2>1. nd[t[i]].next = IF i + 1 = Len(s) THEN 0 ELSE s[(i + 1) + 1]
    BY <1>0, <1>2 DEF Follows
  <2>2. i # N => i + 1 \in 1 .. N
    BY <1>0
  <2>3. (i + 1 = Len(s)) <=> (i = N)
    BY <1>0
  <2>. QED
    BY <1>1, <1>2, <2>1, <2>2, <2>3 DEF Follows
<1>5. n \in In(s)
  BY <1>0 DEF In
<1>. QED
  BY <1>0, <1>1, <1>3, <1>4, <1>5 DEF IsChain, t

(* A later node of a chain taken out.                                      *)
LEMMA ChainCut ==
  ASSUME NEW nd, NEW nd2, NEW s, NEW n, IsChain(nd, s, n),
         NEW k \in 2 .. Len(s), DOMAIN nd2 = DOMAIN nd,
         nd2[s[k - 1]].next = nd[s[k]].next,
         \A m \in In(s) : m # s[k - 1] => nd2[m].next = nd[m].next
  PROVE  IsChain(nd2, Without(s, k), n)
<1>. DEFINE t == Without(s, k)
            N == Len(s) - 1
<1>0. /\ Len(s) \in Nat /\ n = Starts(s) /\ k \in 1 .. Len(s) /\ k - 1 \in 1 .. N
      /\ \A i \in 1 .. Len(s) : nd[s[i]].next = Follows(s, i)
      /\ \A i, l \in 1 .. Len(s) : s[i] = s[l] => i = l
  BY ChainParts DEF IsChain
<1>1. /\ t \in Seq(DOMAIN nd2) /\ Len(t) = N
      /\ \A i \in 1 .. N : t[i] = IF i < k THEN s[i] ELSE s[i + 1]
      /\ \A i, l \in 1 .. N : t[i] = t[l] => i = l
  <2>1. /\ t \in Seq(DOMAIN nd) /\ Len(t) = N
        /\ \A i \in 1 .. N : t[i] = IF i < k THEN s[i] ELSE s[i + 1]
        /\ \A i, l \in 1 .. N : t[i] = t[l] => i = l
    BY <1>0, WithoutIs, SMTT(30)
  <2>. QED
    BY <2>1
<1>. HIDE DEF t
<1>2. n = Starts(t)
  BY <1>0, <1>1 DEF Starts
<1>3. \A i \in 1 .. Len(s) : s[i] \in In(s)
  BY DEF In
<1>4. ASSUME NEW i \in 1 .. N PROVE nd2[t[i]].next = Follows(t, i)
  <2>0. i \in 1 .. Len(s) /\ i + 1 \in 1 .. Len(s) /\ (i # N => i + 1 \in 1 .. N)
    BY <1>0
  <2>1. CASE i < k - 1
    <3>1. t[i] = s[i] /\ t[i + 1] = s[i + 1] /\ i # N /\ i # Len(s) /\ i # k - 1
      BY <1>0, <1>1, <2>0, <2>1
    <3>2. nd2[s[i]].next = nd[s[i]].next
      BY <1>0, <1>3, <2>0, <3>1
    <3>. QED
      BY <1>0, <1>1, <2>0, <3>1, <3>2 DEF Follows
  <2>2. CASE i = k - 1
    <3>1. t[i] = s[k - 1] /\ nd2[t[i]].next = Follows(s, k) /\ i + 1 = k
      <4>1. i < k /\ i + 1 = k
        BY <1>0, <2>0, <2>2
      <4>2. t[i] = s[k - 1]
        BY <1>1, <2>2, <4>1
      <4>3. nd2[s[k - 1]].next = Follows(s, k)
        BY <1>0
      <4>. QED
        BY <4>1, <4>2, <4>3
    <3>2. (k = Len(s)) <=> (i = N)
      BY <1>0, <2>2
    <3>3. i # N => t[i + 1] = s[k + 1]
      BY <1>0, <1>1, <2>0, <2>2
    <3>. QED
      BY <1>1, <3>1, <3>2, <3>3 DEF Follows
  <2>3. CASE i > k - 1
    <3>1. t[i] = s[i + 1] /\ i + 1 # k - 1 /\ ((i + 1 = Len(s)) <=> (i = N))
      BY <1>0, <1>1, <2>0, <2>3
    <3>2. nd2[s[i + 1]].next = nd[s[i + 1]].next
      BY <1>0, <1>3, <2>0, <3>1
    <3>3. i # N => t[i + 1] = s[(i + 1) + 1]
      BY <1>0, <1>1, <2>0, <2>3
    <3>. QED
      BY <1>0, <1>1, <2>0, <3>1, <3>2, <3>3 DEF Follows
  <2>. QED
    BY <1>0, <2>1, <2>2, <2>3
<1>. QED
  BY <1>1, <1>2, <1>4 DEF IsChain, t

-----------------------------------------------------------------------------
(* Flattening: all chains of a table as one sequence.                      *)

(* What FlattenSeq appends step by step exists.                            *)
Flattened(q, g) == g = [i \in 1 .. Len(q) |-> IF i = 1 THEN q[i] ELSE g[i - 1] \o q[i]]

LEMMA FlattenExists ==
  ASSUME NEW D, NEW q \in Seq(Seq(D)), Len(q) # 0
  PROVE  \E g : Flattened(q, g)
<1>. DEFINE c == Len(q)
            G == [x \in Nat \X Seq(D) |-> IF x[1] < c THEN x[2] \o q[x[1] + 1] ELSE x[2]]
<1>0. c \in Nat /\ \A i \in 1 .. c : q[i] \in Seq(D)
  BY SeqIs
<1>1. ASSUME NEW k \in Nat, NEW v \in Seq(D)
      PROVE  /\ G[<<k, v>>] = IF k < c THEN v \o q[k + 1] ELSE v
             /\ G[<<k, v>>] \in Seq(D)
  <2>1. G[<<k, v>>] = IF k < c THEN v \o q[k + 1] ELSE v
    OBVIOUS
  <2>2. k < c => k + 1 \in 1 .. c
    BY <1>0
  <2>3. k < c => v \o q[k + 1] \in Seq(D)
    BY <1>0, <2>2, ConcatProperties
  <2>. HIDE DEF G
  <2>. QED
    BY <2>1, <2>3
<1>. HIDE DEF G
<1>2. PICK f : /\ f = [k \in Nat |-> f[k]] /\ f[0] = q[1]
               /\ \A k \in Nat : f[k + 1] = G[<<k + 1, f[k]>>]
  <2>1. \E f : IteratesFrom(f, q[1], G)
    BY Iterates
  <2>. QED
    BY <2>1, Zenon DEF IteratesFrom
<1>3. f[0] = q[1] /\ \A i \in Nat : f[i + 1] = G[<<i + 1, f[i]>>]
  BY <1>2
<1>4. \A k \in Nat : f[k] \in Seq(D)
  <2>. DEFINE T == {k \in Nat : f[k] \in Seq(D)}
  <2>1. 0 \in T
    <3>1. 1 \in 1 .. c
      BY <1>0
    <3>. QED
      BY <1>0, <1>3, <3>1
  <2>2. ASSUME NEW k \in T PROVE k + 1 \in T
    <3>1. k + 1 \in Nat /\ f[k + 1] = G[<<k + 1, f[k]>>] /\ f[k] \in Seq(D)
      BY <1>3
    <3>2. G[<<k + 1, f[k]>>] \in Seq(D)
      BY <1>1, <3>1
    <3>. QED
      BY <3>1, <3>2
  <2>3. T = Nat
    <3>1. T \in SUBSET Nat
      OBVIOUS
    <3>. HIDE DEF T
    <3>. QED
      BY <2>1, <2>2, <3>1, Induct
  <2>. QED
    BY <2>3
<1>. DEFINE g == [i \in 1 .. c |-> f[i - 1]]
<1>5. ASSUME NEW i \in 1 .. c PROVE g[i] = IF i = 1 THEN q[i] ELSE g[i - 1] \o q[i]
  <2>1. CASE i = 1
    BY <1>3, <2>1
  <2>2. CASE i # 1
    <3>1. i - 1 \in 1 .. c /\ i - 2 \in Nat /\ (i - 2) + 1 = i - 1 /\ (i - 1) - 1 = i - 2
          /\ i - 1 < c /\ (i - 1) + 1 = i /\ i - 1 \in Nat
      BY <1>0, <2>2
    <3>2. g[i] = f[i - 1] /\ g[i - 1] = f[i - 2]
      BY <3>1
    <3>3. f[i - 1] = G[<<i - 1, f[i - 2]>>]
      BY <1>3, <3>1
    <3>4. G[<<i - 1, f[i - 2]>>] = f[i - 2] \o q[i]
      BY <1>1, <1>4, <3>1, ZenonT(60)
    <3>. QED
      BY <2>2, <3>2, <3>3, <3>4
  <2>. QED
    BY <2>1, <2>2
<1>6. g = [i \in 1 .. c |-> g[i]]
  OBVIOUS
<1>. HIDE DEF g
<1>7. g = [i \in 1 .. c |-> IF i = 1 THEN q[i] ELSE g[i - 1] \o q[i]]
  BY <1>5, <1>6
<1>. QED
  BY <1>7 DEF Flattened

(* What FlattenSeq gives is the last of the sequences built up.            *)
LEMMA FlattenParts ==
  ASSUME NEW D, NEW q \in Seq(Seq(D)), Len(q) # 0
  PROVE  \E f : /\ FlattenSeq(q) = f[Len(q)]
                /\ \A i \in 1 .. Len(q) : f[i] = IF i = 1 THEN q[i] ELSE f[i - 1] \o q[i]
<1>. DEFINE c == Len(q)
            flatten[i \in 1 .. c] == IF i = 1 THEN q[i] ELSE flatten[i - 1] \o q[i]
<1>1. FlattenSeq(q) = flatten[c]
  BY DEF FlattenSeq
<1>2. flatten = [i \in 1 .. c |-> IF i = 1 THEN q[i] ELSE flatten[i - 1] \o q[i]]
  <2>1. \E g : Flattened(q, g)
    BY FlattenExists
  <2>2. \E g : g = [i \in 1 .. c |-> IF i = 1 THEN q[i] ELSE g[i - 1] \o q[i]]
    BY <2>1, Zenon DEF Flattened
  <2>. QED
    BY <2>2, Zenon
<1>. HIDE DEF flatten
<1>3. \A i \in 1 .. c : flatten[i] = IF i = 1 THEN q[i] ELSE flatten[i - 1] \o q[i]
  BY <1>2
<1>. QED
  BY <1>1, <1>3

(* One more sequence is appended.                                          *)
LEMMA FlattenAppend ==
  ASSUME NEW D, NEW q \in Seq(Seq(D)), NEW x \in Seq(D)
  PROVE  FlattenSeq(Append(q, x)) = FlattenSeq(q) \o x
<1>1. PICK r : r = Append(q, x)
  OBVIOUS
<1>2. PICK c : c = Len(q)
  OBVIOUS
<1>3. /\ c \in Nat /\ r \in Seq(Seq(D)) /\ Len(r) = c + 1 /\ r[c + 1] = x
      /\ \A i \in 1 .. c : r[i] = q[i]
  BY <1>1, <1>2
<1>4. PICK g : /\ FlattenSeq(r) = g[c + 1]
               /\ \A i \in 1 .. c + 1 : g[i] = IF i = 1 THEN r[i] ELSE g[i - 1] \o r[i]
  <2>1. Len(r) # 0
    BY <1>3
  <2>2. \E g : /\ FlattenSeq(r) = g[Len(r)]
               /\ \A i \in 1 .. Len(r) : g[i] = IF i = 1 THEN r[i] ELSE g[i - 1] \o r[i]
    BY <1>3, <2>1, FlattenParts
  <2>3. Len(r) = c + 1
    BY <1>3
  <2>. QED
    BY <2>2, <2>3
<1>5. CASE c = 0
  <2>1. q = <<>> /\ FlattenSeq(q) = q
    BY <1>2, <1>5, EmptySeq DEF FlattenSeq
  <2>2. FlattenSeq(r) = x
    <3>1. 1 \in 1 .. c + 1 /\ c + 1 = 1
      BY <1>5
    <3>. QED
      BY <1>3, <1>4, <3>1
  <2>3. <<>> \o x = x
    BY ConcatEmptySeq
  <2>. QED
    BY <1>1, <2>1, <2>2, <2>3
<1>6. CASE c # 0
  <2>1. PICK f : /\ FlattenSeq(q) = f[c]
                 /\ \A i \in 1 .. c : f[i] = IF i = 1 THEN q[i] ELSE f[i - 1] \o q[i]
    BY <1>2, <1>6, FlattenParts
  <2>. DEFINE T == {k \in Nat : k \in 1 .. c => g[k] = f[k]}
  <2>2. 0 \in T
    OBVIOUS
  <2>3. ASSUME NEW k \in T PROVE k + 1 \in T
    <3>. SUFFICES ASSUME k + 1 \in 1 .. c PROVE g[k + 1] = f[k + 1]
      OBVIOUS
    <3>1. k \in Nat /\ k + 1 \in 1 .. c + 1 /\ (k + 1) - 1 = k /\ r[k + 1] = q[k + 1]
      BY <1>3
    <3>2. k # 0 => k \in 1 .. c /\ g[k] = f[k] /\ k + 1 # 1
      BY <1>3
    <3>3. g[k + 1] = IF k + 1 = 1 THEN q[k + 1] ELSE g[k] \o q[k + 1]
      BY <1>4, <3>1
    <3>4. f[k + 1] = IF k + 1 = 1 THEN q[k + 1] ELSE f[k] \o q[k + 1]
      BY <2>1, <3>1
    <3>. HIDE DEF T
    <3>. QED
      BY <3>2, <3>3, <3>4
  <2>4. T = Nat
    <3>1. T \in SUBSET Nat
      OBVIOUS
    <3>. HIDE DEF T
    <3>. QED
      BY <2>2, <2>3, <3>1, Induct
  <2>5. g[c] = f[c]
    <3>1. c \in Nat
      BY <1>3
    <3>2. c \in 1 .. c
      BY <1>6, <3>1
    <3>3. c \in T
      BY <2>4, <3>1
    <3>. QED
      BY <3>2, <3>3
  <2>6. g[c + 1] = g[c] \o x
    <3>0. c \in Nat
      BY <1>3
    <3>1. c + 1 \in 1 .. c + 1 /\ c + 1 # 1 /\ (c + 1) - 1 = c
      BY <1>6, <3>0
    <3>. QED
      BY <1>3, <1>4, <3>1
  <2>. QED
    BY <1>1, <1>4, <2>1, <2>5, <2>6
<1>. QED
  BY <1>5, <1>6

(* Sequences of distinct elements, with none in two of them, give one.     *)
LEMMA FlattenIs ==
  ASSUME NEW D, NEW q \in Seq(Seq(D)),
         \A k \in 1 .. Len(q) : \A i, l \in 1 .. Len(q[k]) : q[k][i] = q[k][l] => i = l,
         \A k, m \in 1 .. Len(q) : k # m => In(q[k]) \cap In(q[m]) = {}
  PROVE  LET s == FlattenSeq(q)
         IN  /\ s \in Seq(D)
             /\ \A i, l \in 1 .. Len(s) : s[i] = s[l] => i = l
             /\ In(s) = UNION {In(q[k]) : k \in 1 .. Len(q)}
<1>. DEFINE c == Len(q)
            Good(s, k) == /\ s \in Seq(D)
                          /\ \A i, l \in 1 .. Len(s) : s[i] = s[l] => i = l
                          /\ In(s) = UNION {In(q[m]) : m \in 1 .. k}
<1>0. c \in Nat /\ \A i \in 1 .. c : q[i] \in Seq(D)
  BY SeqIs
<1>1. CASE c = 0
  <2>1. FlattenSeq(q) = q
    BY <1>1 DEF FlattenSeq
  <2>2. q = <<>>
    BY <1>1, EmptySeq
  <2>3. Len(q) = 0 /\ q \in Seq(D) /\ 1 .. 0 = {}
    BY <1>1, <2>2
  <2>. QED
    BY <2>1, <2>3 DEF In
<1>2. CASE c # 0
  <2>1. PICK flatten :
          /\ FlattenSeq(q) = flatten[c]
          /\ \A i \in 1 .. c : flatten[i] = IF i = 1 THEN q[i] ELSE flatten[i - 1] \o q[i]
    BY <1>2, FlattenParts
  <2>4. \A k \in Nat : k \in 1 .. c => Good(flatten[k], k)
    <3>. DEFINE T == {k \in Nat : k \in 1 .. c => Good(flatten[k], k)}
    <3>1. 0 \in T
      OBVIOUS
    <3>2. ASSUME NEW k \in T PROVE k + 1 \in T
      <4>0. k \in Nat /\ (k \in 1 .. c => Good(flatten[k], k))
        OBVIOUS
      <4>. SUFFICES ASSUME k + 1 \in 1 .. c PROVE Good(flatten[k + 1], k + 1)
        BY <4>0
      <4>. DEFINE s == flatten[k]
                  u == q[k + 1]
      <4>1. CASE k = 0
        <5>0. 1 \in 1 .. c
          BY <1>0, <1>2
        <5>1. flatten[1] = q[1] /\ 1 \in 1 .. c
          BY <2>1, <5>0
        <5>2. 1 .. 1 = {1}
          OBVIOUS
        <5>3. UNION {In(q[m]) : m \in 1 .. 1} = In(q[1])
          BY <5>2
        <5>4. Good(q[1], 1)
          BY <1>0, <5>1, <5>3
        <5>5. k + 1 = 1
          BY <4>1
        <5>. HIDE DEF Good
        <5>. QED
          BY <5>1, <5>4, <5>5
      <4>2. CASE k # 0
        <5>1. k \in 1 .. c /\ k + 1 # 1 /\ (k + 1) - 1 = k
          BY <4>0, <4>2, <1>0
        <5>2. flatten[k + 1] = s \o u
          BY <2>1, <5>1
        <5>3. Good(s, k)
          BY <4>0, <5>1
        <5>4. u \in Seq(D) /\ Len(u) \in Nat /\ Len(s) \in Nat
          BY <1>0, <5>3, SeqIs
        <5>a. s \in Seq(D) /\ In(s) = UNION {In(q[m]) : m \in 1 .. k}
              /\ \A i, l \in 1 .. Len(s) : s[i] = s[l] => i = l
          BY <5>3
        <5>b. \A m \in 1 .. k : In(q[m]) \cap In(u) = {}
          <6>1. \A m \in 1 .. k : m \in 1 .. c /\ m # k + 1
            BY <1>0, <4>0
          <6>. QED
            BY <6>1
        <5>c. \A i, l \in 1 .. Len(u) : u[i] = u[l] => i = l
          OBVIOUS
        <5>. HIDE DEF s, u
        <5>5. /\ s \o u \in Seq(D) /\ Len(s \o u) = Len(s) + Len(u)
              /\ \A i \in 1 .. Len(s) + Len(u) :
                   (s \o u)[i] = IF i <= Len(s) THEN s[i] ELSE u[i - Len(s)]
          BY <5>a, <5>4, ConcatProperties
        <5>6. In(s) \cap In(u) = {}
          BY <5>a, <5>b
        <5>. DEFINE w == s \o u
        <5>. HIDE DEF w
        <5>7. \A i \in 1 .. Len(w) : i <= Len(s) => w[i] = s[i] /\ w[i] \in In(s)
          BY <5>4, <5>5 DEF In, w
        <5>8. \A i \in 1 .. Len(w) : ~(i <= Len(s)) =>
                i - Len(s) \in 1 .. Len(u) /\ w[i] = u[i - Len(s)] /\ w[i] \in In(u)
          BY <5>4, <5>5 DEF In, w
        <5>9. In(w) = In(s) \union In(u)
          <6>1. In(w) \subseteq In(s) \union In(u)
            BY <5>7, <5>8 DEF In
          <6>2. In(s) \subseteq In(w)
            <7>1. \A i \in 1 .. Len(s) : i \in 1 .. Len(w) /\ i <= Len(s)
              BY <5>4, <5>5 DEF w
            <7>. QED
              BY <5>7, <7>1 DEF In
          <6>3. In(u) \subseteq In(w)
            <7>1. \A i \in 1 .. Len(u) : i + Len(s) \in 1 .. Len(w) /\ ~(i + Len(s) <= Len(s))
                                         /\ (i + Len(s)) - Len(s) = i
              BY <5>4, <5>5 DEF w
            <7>2. \A i \in 1 .. Len(u) : w[i + Len(s)] = u[i]
              BY <5>8, <7>1
            <7>3. ASSUME NEW i \in 1 .. Len(u) PROVE u[i] \in In(w)
              BY <7>1, <7>2, Zenon DEF In
            <7>. QED
              BY <7>3 DEF In
          <6>. QED
            BY <6>1, <6>2, <6>3
        <5>10. ASSUME NEW i \in 1 .. Len(w), NEW l \in 1 .. Len(w), w[i] = w[l] PROVE i = l
          <6>1. CASE i <= Len(s) /\ l <= Len(s)
            <7>1. i \in 1 .. Len(s) /\ l \in 1 .. Len(s) /\ s[i] = s[l]
              BY <5>4, <5>7, <5>10, <6>1
            <7>. QED
              BY <5>a, <7>1
          <6>2. CASE ~(i <= Len(s)) /\ ~(l <= Len(s))
            <7>1. u[i - Len(s)] = u[l - Len(s)] /\ i - Len(s) \in 1 .. Len(u)
                  /\ l - Len(s) \in 1 .. Len(u)
              BY <5>8, <5>10, <6>2
            <7>2. i - Len(s) = l - Len(s)
              BY <5>c, <7>1
            <7>. QED
              BY <5>4, <5>5, <7>2 DEF w
          <6>. QED
            BY <5>6, <5>7, <5>8, <5>10, <6>1, <6>2
        <5>11. UNION {In(q[m]) : m \in 1 .. k + 1} = In(s) \union In(u)
          <6>1. \A m : m \in 1 .. k + 1 <=> m \in 1 .. k \/ m = k + 1
            BY <4>0
          <6>2. In(u) = In(q[k + 1])
            BY DEF u
          <6>. HIDE DEF c
          <6>3. \A x : x \in In(s) <=> \E m \in 1 .. k : x \in In(q[m])
            BY <5>a
          <6>4. \A x : x \in UNION {In(q[m]) : m \in 1 .. k + 1} <=> \E m \in 1 .. k + 1 : x \in In(q[m])
            OBVIOUS
          <6>5. \A x : (\E m \in 1 .. k + 1 : x \in In(q[m])) <=> x \in In(s) \/ x \in In(u)
            BY <6>1, <6>2, <6>3
          <6>. QED
            BY <6>4, <6>5
        <5>. QED
          BY <5>2, <5>5, <5>9, <5>10, <5>11 DEF w
      <4>. QED
        BY <4>1, <4>2
    <3>3. T = Nat
      <4>1. T \in SUBSET Nat
        OBVIOUS
      <4>. HIDE DEF T
      <4>. QED
        BY <3>1, <3>2, <4>1, Induct
    <3>. QED
      BY <3>3
  <2>5. Good(flatten[c], c)
    <3>1. c \in 1 .. c
      BY <1>0, <1>2
    <3>. HIDE DEF Good, c
    <3>. QED
      BY <1>0, <2>4, <3>1
  <2>. QED
    BY <2>1, <2>5
<1>. QED
  BY <1>1, <1>2

-----------------------------------------------------------------------------
(* The chain t holds what is not in B of s[i], s[i + 1], ..., in order.    *)
IsCulled(t, s, i, B) ==
  /\ In(t) = {s[a] : a \in i .. Len(s)} \ B
  /\ \A j, k \in 1 .. Len(t) : \A a, b \in 1 .. Len(s) :
       j < k /\ t[j] = s[a] /\ t[k] = s[b] => a < b

(* The records in B are taken out of the chain s: each of the others goes  *)
(* to the next that stays, which F finds from a place on.                  *)
LEMMA ChainCull ==
  ASSUME NEW nd, NEW s \in Seq(DOMAIN nd), NEW B, NEW F,
         \A i, k \in 1 .. Len(s) : s[i] = s[k] => i = k,
         F[Len(s) + 1] = 0,
         \A i \in 1 .. Len(s) : F[i] = IF s[i] \in B THEN F[i + 1] ELSE s[i],
         \A i \in 1 .. Len(s) : s[i] \notin B => nd[s[i]].next = F[i + 1]
  PROVE  \E t : IsChain(nd, t, F[1]) /\ IsCulled(t, s, 1, B)
<1>. DEFINE At(n) == Len(s) + 1 - n
            T == {n \in Nat : n <= Len(s) =>
                    \E t : IsChain(nd, t, F[At(n)]) /\ IsCulled(t, s, At(n), B)}
<1>0. Len(s) \in Nat /\ \A i \in 1 .. Len(s) : s[i] \in DOMAIN nd
  BY SeqIs
<1>1. 0 \in T
  <2>1. PICK e : e = <<>>
    OBVIOUS
  <2>2. e \in Seq(DOMAIN nd) /\ Len(e) = 0
    BY <2>1
  <2>3. Starts(e) = 0 /\ In(e) = {}
    BY <2>2 DEF Starts, In
  <2>4. IsChain(nd, e, 0)
    BY <2>2, <2>3 DEF IsChain
  <2>5. IsCulled(e, s, Len(s) + 1, B)
    <3>1. {s[a] : a \in Len(s) + 1 .. Len(s)} = {}
      BY <1>0
    <3>. QED
      BY <2>2, <2>3, <3>1 DEF IsCulled
  <2>6. At(0) = Len(s) + 1
    BY <1>0
  <2>7. IsChain(nd, e, F[At(0)]) /\ IsCulled(e, s, At(0), B)
    BY <2>4, <2>5, <2>6
  <2>. QED
    BY <2>7
<1>2. ASSUME NEW n \in T PROVE n + 1 \in T
  <2>. SUFFICES ASSUME n + 1 <= Len(s)
                PROVE  \E t : IsChain(nd, t, F[At(n + 1)]) /\ IsCulled(t, s, At(n + 1), B)
    BY SMTT(30)
  <2>1. n \in Nat /\ n <= Len(s)
    BY <1>0
  <2>2. PICK t : IsChain(nd, t, F[At(n)]) /\ IsCulled(t, s, At(n), B)
    BY <2>1
  <2>3. PICK i : i = At(n + 1)
    OBVIOUS
  <2>4. i \in 1 .. Len(s) /\ At(n) = i + 1
    BY <1>0, <2>1, <2>3
  <2>. HIDE DEF T, At
  <2>5. IsChain(nd, t, F[i + 1]) /\ IsCulled(t, s, i + 1, B)
    BY <2>2, <2>4
  <2>6. {s[a] : a \in i .. Len(s)} = {s[a] : a \in i + 1 .. Len(s)} \union {s[i]}
    <3>1. i .. Len(s) = (i + 1 .. Len(s)) \union {i}
      BY <1>0, <2>4
    <3>. QED
      BY <3>1
  <2>7. CASE s[i] \in B
    <3>1. F[i] = F[i + 1]
      BY <2>4, <2>7
    <3>2. IsCulled(t, s, i, B)
      BY <2>5, <2>6, <2>7 DEF IsCulled
    <3>. QED
      BY <2>3, <2>5, <3>1, <3>2
  <2>8. CASE s[i] \notin B
    <3>1. F[i] = s[i] /\ nd[s[i]].next = F[i + 1] /\ s[i] \in DOMAIN nd
      BY <1>0, <2>4, <2>8
    <3>2. \A a \in i + 1 .. Len(s) : a \in 1 .. Len(s) /\ i < a /\ a # i
      BY <1>0, <2>4
    <3>3. s[i] \notin In(t)
      BY <2>4, <2>5, <3>2 DEF IsCulled
    <3>4. PICK u : u = <<s[i]>> \o t
      OBVIOUS
    <3>5. IsChain(nd, u, F[i]) /\ In(u) = In(t) \union {s[i]}
      BY <2>5, <3>1, <3>3, <3>4, ChainPush
    <3>6. /\ t \in Seq(DOMAIN nd) /\ Len(t) \in Nat /\ Len(u) = Len(t) + 1 /\ u[1] = s[i]
          /\ \A j \in 2 .. Len(u) : u[j] = t[j - 1] /\ j - 1 \in 1 .. Len(t)
      <4>1. t \in Seq(DOMAIN nd) /\ Len(t) \in Nat
        BY <2>5, ChainParts DEF IsChain
      <4>2. <<s[i]>> \in Seq(DOMAIN nd) /\ Len(<<s[i]>>) = 1 /\ <<s[i]>>[1] = s[i]
        BY <3>1
      <4>3. /\ Len(u) = Len(<<s[i]>>) + Len(t)
            /\ \A j \in 1 .. Len(<<s[i]>>) + Len(t) :
                 u[j] = IF j <= Len(<<s[i]>>) THEN <<s[i]>>[j] ELSE t[j - Len(<<s[i]>>)]
        BY <3>4, <4>1, <4>2, ConcatProperties
      <4>. QED
        BY <4>1, <4>2, <4>3
    <3>7. \A j \in 1 .. Len(t) : \E a \in i + 1 .. Len(s) : t[j] = s[a]
      <4>1. \A j \in 1 .. Len(t) : t[j] \in In(t)
        BY DEF In
      <4>2. In(t) \subseteq {s[a] : a \in i + 1 .. Len(s)}
        BY <2>5 DEF IsCulled
      <4>. QED
        BY <4>1, <4>2
    <3>8. ASSUME NEW j \in 1 .. Len(u), NEW k \in 1 .. Len(u), NEW a \in 1 .. Len(s),
                 NEW b \in 1 .. Len(s), j < k, u[j] = s[a], u[k] = s[b]
          PROVE  a < b
      <4>1. k \in 2 .. Len(u) /\ u[k] = t[k - 1] /\ k - 1 \in 1 .. Len(t)
        BY <3>6, <3>8
      <4>2. CASE j = 1
        <5>1. a = i
          BY <2>4, <3>6, <3>8, <4>2
        <5>2. PICK c \in i + 1 .. Len(s) : t[k - 1] = s[c]
          BY <3>7, <4>1
        <5>3. b = c
          BY <3>2, <3>8, <4>1, <5>2
        <5>. QED
          BY <3>2, <5>1, <5>3
      <4>3. CASE j # 1
        <5>1. j \in 2 .. Len(u) /\ u[j] = t[j - 1] /\ j - 1 \in 1 .. Len(t) /\ j - 1 < k - 1
          BY <3>6, <3>8, <4>3
        <5>2. \A x, y \in 1 .. Len(t) : \A c, d \in 1 .. Len(s) :
                x < y /\ t[x] = s[c] /\ t[y] = s[d] => c < d
          BY <2>5 DEF IsCulled
        <5>3. t[j - 1] = s[a] /\ t[k - 1] = s[b]
          BY <3>8, <4>1, <5>1
        <5>4. PICK x \in 1 .. Len(t), y \in 1 .. Len(t) : x = j - 1 /\ y = k - 1
          BY <4>1, <5>1
        <5>5. t[x] = s[a] /\ t[y] = s[b] /\ x < y
          BY <5>1, <5>3, <5>4
        <5>. QED
          BY ONLY a \in 1 .. Len(s), b \in 1 .. Len(s), x \in 1 .. Len(t), y \in 1 .. Len(t),
                  <5>2, <5>5
      <4>. QED
        BY <4>2, <4>3
    <3>9. IsCulled(u, s, i, B)
      BY <2>5, <2>6, <2>8, <3>5, <3>8 DEF IsCulled
    <3>. QED
      BY <2>3, <3>5, <3>9
  <2>. QED
    BY <2>7, <2>8
<1>3. T = Nat
  <2>. HIDE DEF T
  <2>. QED
    BY <1>1, <1>2, Induct DEF T
<1>4. PICK t : IsChain(nd, t, F[At(Len(s))]) /\ IsCulled(t, s, At(Len(s)), B)
  BY <1>0, <1>3
<1>5. At(Len(s)) = 1
  BY <1>0
<1>. QED
  BY <1>4, <1>5

-----------------------------------------------------------------------------
(* Parts of sequences.                                                     *)

(* A sequence that goes on where another ends is that with one appended.   *)
LEMMA AppendedIs ==
  ASSUME NEW S, NEW q \in Seq(S), NEW x \in S, NEW c \in Nat, c = Len(q),
         NEW r \in [1 .. c + 1 -> S], r[c + 1] = x, \A i \in 1 .. c : r[i] = q[i]
  PROVE  r = Append(q, x)
<1>1. \A i \in 1 .. c + 1 : i \in 1 .. c \/ i = c + 1
  OBVIOUS
<1>2. /\ Append(q, x) \in Seq(S) /\ Len(Append(q, x)) = c + 1
      /\ Append(q, x)[c + 1] = x /\ \A i \in 1 .. c : Append(q, x)[i] = q[i]
  OBVIOUS
<1>3. r \in Seq(S) /\ Len(r) = c + 1
  <2>1. c + 1 \in Nat
    OBVIOUS
  <2>. QED
    BY <2>1
<1>4. \A i \in 1 .. c + 1 : r[i] = Append(q, x)[i]
  BY <1>1, <1>2
<1>. QED
  BY <1>2, <1>3, <1>4, SeqEqual

(* A part of a sequence: its elements, and two parts put together.         *)
LEMMA PartIs ==
  ASSUME NEW D, NEW s \in Seq(D), NEW p \in Nat, NEW q \in Nat, q <= Len(s) \/ q <= p
  PROVE  /\ SubSeq(s, p + 1, q) \in Seq(D)
         /\ Len(SubSeq(s, p + 1, q)) = IF p <= q THEN q - p ELSE 0
         /\ \A i \in 1 .. q - p : SubSeq(s, p + 1, q)[i] = s[p + i]
<1>0. Len(s) \in Nat
  BY SeqIs
<1>1. \A i \in p + 1 .. q : s[i] \in D
  <2>1. \A i \in p + 1 .. q : i \in 1 .. Len(s)
    BY <1>0
  <2>. QED
    BY <2>1, SeqIs
<1>2. /\ SubSeq(s, p + 1, q) \in Seq(D)
      /\ Len(SubSeq(s, p + 1, q)) = IF p + 1 <= q THEN q - (p + 1) + 1 ELSE 0
      /\ \A i \in 1 .. q - (p + 1) + 1 : SubSeq(s, p + 1, q)[i] = s[(p + 1) + i - 1]
  BY <1>1, p + 1 \in Int, q \in Int, SubSeqProperties
<1>3. q - (p + 1) + 1 = q - p
  OBVIOUS
<1>4. \A i \in 1 .. q - p : (p + 1) + i - 1 = p + i
  OBVIOUS
<1>. QED
  BY <1>2, <1>3, <1>4

LEMMA PartsJoin ==
  ASSUME NEW D, NEW s \in Seq(D), NEW p \in Nat, NEW q \in Nat, NEW r \in Nat,
         p <= q, q <= r, r <= Len(s) \/ p = r
  PROVE  SubSeq(s, p + 1, q) \o SubSeq(s, q + 1, r) = SubSeq(s, p + 1, r)
<1>0. Len(s) \in Nat
  BY SeqIs
<1>1. PICK a, b, c : a = SubSeq(s, p + 1, q) /\ b = SubSeq(s, q + 1, r) /\ c = SubSeq(s, p + 1, r)
  OBVIOUS
<1>2. a \in Seq(D) /\ Len(a) = q - p /\ \A i \in 1 .. q - p : a[i] = s[p + i]
  BY <1>0, <1>1, PartIs
<1>3. b \in Seq(D) /\ Len(b) = r - q /\ \A i \in 1 .. r - q : b[i] = s[q + i]
  BY <1>0, <1>1, PartIs
<1>4. c \in Seq(D) /\ Len(c) = r - p /\ \A i \in 1 .. r - p : c[i] = s[p + i]
  BY <1>0, <1>1, PartIs
<1>5. /\ a \o b \in Seq(D) /\ Len(a \o b) = Len(a) + Len(b)
      /\ \A i \in 1 .. Len(a) + Len(b) : (a \o b)[i] = IF i <= Len(a) THEN a[i] ELSE b[i - Len(a)]
  BY <1>2, <1>3, ConcatProperties
<1>6. Len(a \o b) = r - p
  BY <1>2, <1>3, <1>5
<1>7. ASSUME NEW i \in 1 .. r - p PROVE (a \o b)[i] = c[i]
  <2>1. CASE i <= q - p
    <3>1. i \in 1 .. q - p /\ i \in 1 .. Len(a) + Len(b)
      BY <1>2, <1>3, <2>1
    <3>. QED
      BY <1>2, <1>4, <1>5, <2>1, <3>1
  <2>2. CASE ~(i <= q - p)
    <3>1. i - (q - p) \in 1 .. r - q /\ i \in 1 .. Len(a) + Len(b) /\ q + (i - (q - p)) = p + i
      BY <1>2, <1>3, <2>2
    <3>. QED
      BY <1>2, <1>3, <1>4, <1>5, <2>2, <3>1
  <2>. QED
    BY <2>1, <2>2
<1>8. a \o b = c
  BY <1>4, <1>5, <1>6, <1>7, SeqEqual
<1>. QED
  BY <1>1, <1>8

=============================================================================
