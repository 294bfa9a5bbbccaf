------------------------- MODULE HostsFile_proofs --------------------------
(***************************************************************************)
(* Theorems about HostsFile: types are kept, the user's lines survive, and *)
(* an undisturbed run of apply_managed_blocks settles its hostnames and is *)
(* idempotent.                                                             *)
(*                                                                         *)
(* The user's lines need more than themselves: remove_managed_blocks drops *)
(* what stands in a block, so the invariant is that every block is closed, *)
(* with only hosts between its markers, and that the lines stand outside   *)
(* (Keeps).  Each rewriting of the file keeps that, for it moves lines in  *)
(* their order, takes no END line alone, and adds hosts or whole blocks    *)
(* (Carries).                                                              *)
(*                                                                         *)
(* What a run settles holds for any file, closed or not.  Removing the     *)
(* blocks that it has added brings back what it added them to (Restores),  *)
(* so a second run computes the same; and the hosts in them are the        *)
(* entries that were missing, each in its own block (Placed).              *)
(***************************************************************************)
EXTENDS HostsFile, FiniteSetTheorems, WellFoundedInduction, SequenceTheorems, TLAPS

---------------------------------------------------------------------------
(* Induction, for a set in place of a predicate *)

LessThan == {ss \in Nat \X Nat : ss[1] < ss[2]}

LEMMA LeastNumber ==
    ASSUME NEW S, S \subseteq Nat, S # {}
    PROVE  \E n \in S : \A m \in S : n <= m
  <1>1. IsWellFoundedOn(LessThan, Nat)
    BY NatLessThanWellFounded DEF OpToRel, LessThan
  <1>2. PICK n \in S : \A m \in S : <<m, n>> \notin LessThan
    BY <1>1, WFMin
  <1>3. \A m \in S : ~(m < n)
    BY <1>2 DEF LessThan
  <1> QED BY <1>3

LEMMA Induct ==
    ASSUME NEW S, 0 \in S, \A n \in Nat : n \in S => n + 1 \in S
    PROVE  Nat \subseteq S
  <1> SUFFICES ASSUME Nat \ S # {} PROVE FALSE
    OBVIOUS
  <1>1. PICK n \in Nat \ S : \A m \in Nat \ S : n <= m
    BY LeastNumber
  <1>2. n # 0 /\ n - 1 \in Nat /\ n - 1 \notin Nat \ S
    BY <1>1
  <1> QED BY <1>2

LEMMA GreatestNumber ==
    ASSUME NEW S, NEW n \in Nat, S \subseteq 0 .. n, S # {}
    PROVE  \E m \in S : \A k \in S : m >= k
  <1> DEFINE T == {n - m : m \in S}
  <1>1. PICK t \in T : \A u \in T : t <= u
    <2>1. \A m \in S : n - m \in Nat
      OBVIOUS
    <2>2. T \subseteq Nat /\ T # {}
      BY <2>1
    <2> HIDE DEF T
    <2> QED BY <2>2, LeastNumber
  <1>2. PICK m \in S : t = n - m
    OBVIOUS
  <1>3. \A k \in S : n - m <= n - k
    BY <1>1, <1>2
  <1> QED BY <1>3

---------------------------------------------------------------------------
(* Some of the lines of a file *)

\* How many of the positions in I are not behind i.
UpTo(I, i) == I \cap 1 .. i
Rank(I, i) == Cardinality(UpTo(I, i))

LEMMA UpToNext ==
    ASSUME NEW I, I \subseteq Nat, NEW i \in Nat
    PROVE  /\ IsFiniteSet(UpTo(I, i)) /\ Rank(I, i) \in Nat
           /\ Rank(I, 0) = 0
           /\ Rank(I, i + 1) = IF i + 1 \in I THEN Rank(I, i) + 1 ELSE Rank(I, i)
  <1>1. IsFiniteSet(UpTo(I, i))
    <2>1. IsFiniteSet(1 .. i) /\ UpTo(I, i) \in SUBSET (1 .. i)
      BY FS_Interval DEF UpTo
    <2> QED BY <2>1, FS_Subset
  <1>2. UpTo(I, 0) = {}
    BY DEF UpTo
  <1>3. UpTo(I, i + 1) = IF i + 1 \in I THEN UpTo(I, i) \cup {i + 1} ELSE UpTo(I, i)
    BY DEF UpTo
  <1>4. i + 1 \notin UpTo(I, i)
    BY DEF UpTo
  <1>5. Cardinality(UpTo(I, i)) \in Nat
    BY <1>1, FS_CardinalityType
  <1>6. Cardinality(UpTo(I, i) \cup {i + 1}) = Cardinality(UpTo(I, i)) + 1
    BY <1>1, <1>4, FS_AddElement
  <1>7. Cardinality(UpTo(I, 0)) = 0
    BY <1>2, FS_EmptySet
  <1> QED BY <1>1, <1>3, <1>5, <1>6, <1>7 DEF Rank

\* The positions are counted in order.
LEMMA RankGrows ==
    ASSUME NEW I, I \subseteq Nat, NEW i \in Nat, NEW j \in Nat, i <= j
    PROVE  /\ Rank(I, i) <= Rank(I, j)
           /\ i < j /\ j \in I => Rank(I, i) < Rank(I, j)
  <1> DEFINE Below(n) == Rank(I, i) <= Rank(I, i + n)
             S == {n \in Nat : Below(n)}
  <1>0. \A n \in Nat : /\ Rank(I, n) \in Nat
                        /\ Rank(I, n + 1) = IF n + 1 \in I THEN Rank(I, n) + 1 ELSE Rank(I, n)
    BY UpToNext
  <1>1. Nat \subseteq S
    <2>1. 0 \in S
      BY <1>0
    <2>2. \A n \in Nat : n \in S => n + 1 \in S
      <3> SUFFICES ASSUME NEW n \in Nat, Below(n) PROVE Below(n + 1)
        OBVIOUS
      <3>1. i + n \in Nat /\ i + (n + 1) = (i + n) + 1
        OBVIOUS
      <3>2. Rank(I, (i + n) + 1) >= Rank(I, i + n)
        BY <3>1, <1>0
      <3> QED BY <1>0, <3>1, <3>2
    <2> HIDE DEF S
    <2> QED BY <2>1, <2>2, Induct
  <1>2. \A n \in Nat : Below(n)
    BY <1>1
  <1>3. Rank(I, i) <= Rank(I, j)
    <2>1. j - i \in Nat /\ i + (j - i) = j
      OBVIOUS
    <2> QED BY <1>2, <2>1
  <1>4. ASSUME i < j, j \in I PROVE Rank(I, i) < Rank(I, j)
    <2>1. j - 1 \in Nat /\ (j - 1) - i \in Nat /\ i + ((j - 1) - i) = j - 1 /\ (j - 1) + 1 = j
      BY <1>4
    <2>2. Rank(I, i) <= Rank(I, j - 1)
      BY <1>2, <2>1
    <2>3. Rank(I, (j - 1) + 1) = Rank(I, j - 1) + 1
      BY <1>0, <1>4, <2>1
    <2> QED BY <1>0, <2>1, <2>2, <2>3
  <1> QED BY <1>3, <1>4

\* Only(f, I) has the line at each position in I, at the position's rank, and no other.
LEMMA OnlyThose ==
    ASSUME NEW S, NEW f \in Seq(S), NEW I, I \subseteq DOMAIN f
    PROVE  /\ Only(f, I) \in Seq(S)
           /\ \A i \in I : Rank(I, i) \in DOMAIN Only(f, I) /\ Only(f, I)[Rank(I, i)] = f[i]
           /\ \A k \in DOMAIN Only(f, I) : \E i \in I : Rank(I, i) = k
           /\ \A i, j \in I : i < j => Rank(I, i) < Rank(I, j)
  <1> DEFINE n == Cardinality(I)
             nth(k) == CHOOSE i \in I : Cardinality(I \cap 1 .. i) = k
  <1>1. I \subseteq Nat /\ DOMAIN f = 1 .. Len(f) /\ Len(f) \in Nat
    OBVIOUS
  <1>2. Rank(I, 0) = 0 /\ \A i \in Nat : Rank(I, i) \in Nat
    BY <1>1, UpToNext
  <1>3. n = Rank(I, Len(f)) /\ n \in Nat
    <2>1. I \cap 1 .. Len(f) = I
      BY <1>1
    <2> QED BY <1>1, <1>2, <2>1 DEF Rank, UpTo
  <1>4. \A i, j \in I : i < j => Rank(I, i) < Rank(I, j)
    BY <1>1, RankGrows
  <1>5. \A i \in I : Rank(I, i) \in 1 .. n
    <2> SUFFICES ASSUME NEW i \in I PROVE Rank(I, i) \in 1 .. n
      OBVIOUS
    <2>1. Rank(I, i) <= Rank(I, Len(f))
      BY <1>1, RankGrows
    <2>2. Rank(I, 0) < Rank(I, i)
      BY <1>1, RankGrows
    <2>3. Rank(I, i) \in Nat
      BY <1>1, <1>2
    <2> QED BY <1>2, <1>3, <2>1, <2>2, <2>3
  <1>6. \A k \in 1 .. n : \E i \in I : Rank(I, i) = k
    <2> SUFFICES ASSUME NEW k \in 1 .. n PROVE \E i \in I : Rank(I, i) = k
      OBVIOUS
    <2>1. PICK i \in {m \in Nat : Rank(I, m) >= k} :
              \A m \in {l \in Nat : Rank(I, l) >= k} : i <= m
      <3>1. Len(f) \in {m \in Nat : Rank(I, m) >= k}
        BY <1>1, <1>2, <1>3
      <3>2. {m \in Nat : Rank(I, m) >= k} \subseteq Nat
        OBVIOUS
      <3> QED BY <3>1, <3>2, LeastNumber
    <2>2. i \in Nat /\ Rank(I, i) >= k /\ i # 0
      BY <1>2, <2>1
    <2>3. i - 1 \in Nat /\ ~(Rank(I, i - 1) >= k)
      BY <2>1, <2>2
    <2>4. Rank(I, i) = IF i \in I THEN Rank(I, i - 1) + 1 ELSE Rank(I, i - 1)
      <3>1. (i - 1) + 1 = i
        BY <2>2
      <3>2. Rank(I, (i - 1) + 1) = IF (i - 1) + 1 \in I THEN Rank(I, i - 1) + 1
                                   ELSE Rank(I, i - 1)
        BY <1>1, <2>3, UpToNext
      <3> QED BY <3>1, <3>2
    <2>5. Rank(I, i) \in Nat /\ Rank(I, i - 1) \in Nat
      BY <1>2, <2>2, <2>3
    <2> QED BY <2>2, <2>3, <2>4, <2>5
  <1>7. \A i \in I : nth(Rank(I, i)) = i
    <2> SUFFICES ASSUME NEW i \in I PROVE nth(Rank(I, i)) = i
      OBVIOUS
    <2>1. \A j \in I : Cardinality(I \cap 1 .. j) = Rank(I, j)
      BY DEF Rank, UpTo
    <2>2. nth(Rank(I, i)) \in I /\ Rank(I, nth(Rank(I, i))) = Rank(I, i)
      BY <2>1
    <2>3. ASSUME NEW j \in I, Rank(I, j) = Rank(I, i) PROVE j = i
      <3>1. ~(Rank(I, j) < Rank(I, i)) /\ ~(Rank(I, i) < Rank(I, j))
        BY <1>1, <1>2, <2>3
      <3> QED BY <1>1, <1>4, <3>1
    <2> QED BY <2>2, <2>3
  <1>8. Only(f, I) = [k \in 1 .. n |-> f[nth(k)]]
    BY DEF Only
  <1>9. Only(f, I) \in Seq(S) /\ DOMAIN Only(f, I) = 1 .. n
    <2>1. \A k \in 1 .. n : nth(k) \in I
      <3> HIDE DEF nth
      <3> QED BY <1>6, <1>7
    <2>2. \A k \in 1 .. n : f[nth(k)] \in S
      BY <1>1, <2>1
    <2> HIDE DEF nth, n
    <2>3. Only(f, I) \in [1 .. n -> S]
      BY <1>8, <2>2
    <2> QED BY <1>3, <1>8, <2>3, SeqDef
  <1>10. \A i \in I : Only(f, I)[Rank(I, i)] = f[i]
    <2> HIDE DEF nth, n
    <2> QED BY <1>5, <1>7, <1>8
  <1> HIDE DEF n
  <1> QED BY <1>4, <1>5, <1>6, <1>9, <1>10

\* TrimEnd cuts the blank lines at the end, and nothing else.
LEMMA TrimEndCuts ==
    ASSUME NEW S, NEW f \in Seq(S)
    PROVE  \E n \in 0 .. Len(f) : /\ TrimEnd(f) = SubSeq(f, 1, n)
                                  /\ \A i \in n + 1 .. Len(f) : f[i] = Blank
                                  /\ n # 0 => f[n] # Blank
  <1> DEFINE I == {i \in 1 .. Len(f) : f[i] # Blank}
             n == IF I # {} THEN Max(I) ELSE 0
  <1>1. TrimEnd(f) = SubSeq(f, 1, n)
    BY DEF TrimEnd, SelectLastInSeq
  <1>2. CASE I = {}
    <2>1. n = 0
      BY <1>2
    <2> HIDE DEF n
    <2> QED BY <1>1, <1>2, <2>1
  <1>3. CASE I # {}
    <2>1. I \subseteq 0 .. Len(f) /\ Len(f) \in Nat
      OBVIOUS
    <2>2. \E m \in I : \A k \in I : m >= k
      <3> HIDE DEF I
      <3> QED BY <1>3, <2>1, GreatestNumber
    <2>3. n \in I /\ \A k \in I : n >= k
      <3> HIDE DEF I
      <3> QED BY <1>3, <2>2 DEF Max
    <2> HIDE DEF n
    <2>4. \A i \in n + 1 .. Len(f) : i \in 1 .. Len(f) /\ i \notin I
      BY <2>1, <2>3
    <2>5. n \in 0 .. Len(f) /\ f[n] # Blank
      BY <2>3
    <2> QED BY <1>1, <2>4, <2>5
  <1> QED BY <1>2, <1>3

\* The recursive function is well-defined.
LEMMA SkippingStep ==
    ASSUME NEW f, Len(f) \in Nat, NEW names
    PROVE  /\ SkippingUntil(f, names)[0] = None
           /\ \A i \in 1 .. Len(f) : SkippingUntil(f, names)[i] =
                 UntilAfter(f[i], SkippingUntil(f, names)[i - 1], names)
  <1> DEFINE After(g, i) == IF i = 0 THEN None ELSE UntilAfter(f[i], g[i - 1], names)
             Fits(g, n) == g = [i \in 0 .. n |-> After(g, i)]
             S == {n \in Nat : \E g : Fits(g, n)}
  <1>1. Nat \subseteq S
    <2>1. 0 \in S
      <3>1. Fits([i \in 0 .. 0 |-> None], 0)
        OBVIOUS
      <3> QED BY <3>1
    <2>2. \A n \in Nat : n \in S => n + 1 \in S
      <3> SUFFICES ASSUME NEW n \in Nat, NEW g, Fits(g, n) PROVE \E h : Fits(h, n + 1)
        <4> HIDE DEF Fits
        <4> QED OBVIOUS
      <3> DEFINE h == [i \in 0 .. n + 1 |-> IF i <= n THEN g[i] ELSE After(g, n + 1)]
      <3>1. \A i \in 0 .. n : h[i] = g[i] /\ g[i] = After(g, i)
        OBVIOUS
      <3>2. h[n + 1] = After(g, n + 1)
        OBVIOUS
      <3>3. \A i \in 0 .. n + 1 : h[i] = After(h, i)
        <4> HIDE DEF h
        <4>1. \A i \in 1 .. n + 1 : i - 1 \in 0 .. n
          OBVIOUS
        <4> QED BY <3>1, <3>2, <4>1
      <3>4. Fits(h, n + 1)
        <4>1. h = [i \in 0 .. n + 1 |-> h[i]]
          OBVIOUS
        <4> HIDE DEF h, After
        <4> QED BY <3>3, <4>1
      <3> QED BY <3>4
    <2> HIDE DEF S
    <2> QED BY <2>1, <2>2, Induct
  <1>2. PICK g : Fits(g, Len(f))
    BY <1>1
  <1>3. Fits(SkippingUntil(f, names), Len(f))
    BY <1>2 DEF SkippingUntil
  <1> DEFINE u == SkippingUntil(f, names)
  <1>4. \A i \in 0 .. Len(f) : u[i] = After(u, i)
    <2> HIDE DEF After, u
    <2> QED BY <1>3 DEF u
  <1> QED BY <1>4

---------------------------------------------------------------------------
(* Files whose blocks are closed *)

\* Line i stands in no block.
Outside(f, i) == \A b \in BlockNames : ~InBlock(f, i, b)

\* Every block has its END line, and nothing but hosts before it.
Closed(f) ==
    \A k \in DOMAIN f : \A b \in BlockNames :
        f[k] = Begin(b) => \E e \in k + 1 .. Len(f) :
                              /\ f[e] = End(b)
                              /\ \A m \in k + 1 .. e - 1 : IsHost(f[m])

\* The lines in X stand outside of the blocks.
Keeps(f, X) ==
    /\ Closed(f)
    /\ \A x \in X : \E i \in DOMAIN f : f[i] = x /\ Outside(f, i)

\* Lines that mark the same.
Alike(x, y) ==
    /\ IsHost(x) => IsHost(y)
    /\ \A b \in BlockNames : (x = Begin(b) <=> y = Begin(b)) /\ (x = End(b) <=> y = End(b))

LEMMA Marks ==
    ASSUME NEW b
    PROVE  /\ ~IsHost(Begin(b)) /\ ~IsHost(End(b)) /\ ~IsHost(Blank) /\ Begin(b) # End(b)
           /\ Blank # Begin(b) /\ Blank # End(b)
           /\ \A c : Begin(b) # End(c) /\ (End(b) = End(c) => b = c)
           /\ \A t : Header(t) # Begin(b) /\ Header(t) # End(b) /\ ~IsHost(Header(t))
  BY DEF IsHost, Begin, End, Blank, Header

\* A block with its BEGIN line in I has its END line in I.
WholeBlocks(f, I) ==
    \A b \in BlockNames : \A k \in I : \A e \in k + 1 .. Len(f) :
        f[k] = Begin(b) /\ f[e] = End(b) /\ (\A m \in k + 1 .. e - 1 : IsHost(f[m]))
            => e \in I

\* The lines of f at the positions in I are in g, at h, in their order, and the other
\* lines of g are hosts; what is outside of the blocks of f and in X is among them.
Carries(f, g, I, h, X) ==
    /\ I \subseteq DOMAIN f /\ WholeBlocks(f, I)
    /\ \A i \in I : h[i] \in DOMAIN g /\ Alike(f[i], g[h[i]])
    /\ \A i, j \in I : i < j => h[i] < h[j]
    /\ \A k \in DOMAIN g : IsHost(g[k]) \/ \E i \in I : h[i] = k
    /\ \A i \in DOMAIN f : f[i] \in X /\ Outside(f, i) => i \in I /\ g[h[i]] = f[i]

\* When lines go, and hosts come, the blocks stay closed and what stood outside of them
\* still does, if no block loses its END line alone.
LEMMA Carried ==
    ASSUME NEW S, NEW f \in Seq(S), NEW T, NEW g \in Seq(T), NEW I, NEW h, NEW X,
           Carries(f, g, I, h, X), Keeps(f, X)
    PROVE  Keeps(g, X)
  <1>a. /\ I \subseteq DOMAIN f /\ WholeBlocks(f, I)
        /\ \A i \in I : h[i] \in DOMAIN g
        /\ \A i \in I : Alike(f[i], g[h[i]])
    BY DEF Carries
  <1>b. \A i, j \in I : i < j => h[i] < h[j]
    BY DEF Carries
  <1>c. \A k \in DOMAIN g : IsHost(g[k]) \/ \E i \in I : h[i] = k
    BY DEF Carries
  <1>d. \A i \in DOMAIN f : f[i] \in X /\ Outside(f, i) => i \in I /\ g[h[i]] = f[i]
    BY DEF Carries
  <1>1. DOMAIN f = 1 .. Len(f) /\ Len(f) \in Nat /\ DOMAIN g = 1 .. Len(g) /\ Len(g) \in Nat
    OBVIOUS
  <1>2. \A i \in I : i \in 1 .. Len(f) /\ h[i] \in 1 .. Len(g)
    BY <1>1, <1>a
  <1>3. \A i, j \in I : h[i] < h[j] => i < j
    <2> SUFFICES ASSUME NEW i \in I, NEW j \in I, h[i] < h[j], ~(i < j) PROVE FALSE
      OBVIOUS
    <2>1. CASE i = j
      BY <1>2, <2>1
    <2>2. CASE j < i
      <3>1. h[j] < h[i]
        BY <1>b, <2>2
      <3> QED BY <1>2, <3>1
    <2> QED BY <1>2, <2>1, <2>2
  \* A block of g is what a block of f has become.
  <1>4. ASSUME NEW k \in DOMAIN g, NEW b \in BlockNames, g[k] = Begin(b)
        PROVE  \E i, e \in I : /\ h[i] = k /\ f[i] = Begin(b) /\ f[e] = End(b) /\ i < e
                               /\ \A m \in i + 1 .. e - 1 : IsHost(f[m])
    <2>1. PICK i \in I : h[i] = k
      BY <1>4, <1>c, Marks
    <2>2. f[i] = Begin(b)
      BY <1>4, <1>a, <2>1 DEF Alike
    <2>3. PICK e \in i + 1 .. Len(f) : f[e] = End(b) /\ \A m \in i + 1 .. e - 1 : IsHost(f[m])
      BY <1>1, <1>2, <2>2 DEF Keeps, Closed
    <2>4. e \in I
      BY <1>a, <2>2, <2>3 DEF WholeBlocks
    <2> QED BY <1>2, <2>1, <2>2, <2>3, <2>4
  <1>5. Closed(g)
    <2> SUFFICES ASSUME NEW k \in DOMAIN g, NEW b \in BlockNames, g[k] = Begin(b)
                 PROVE  \E e \in k + 1 .. Len(g) :
                           /\ g[e] = End(b)
                           /\ \A m \in k + 1 .. e - 1 : IsHost(g[m])
      BY DEF Closed
    <2>1. PICK i \in I, e \in I : /\ h[i] = k /\ f[i] = Begin(b) /\ f[e] = End(b) /\ i < e
                                  /\ \A m \in i + 1 .. e - 1 : IsHost(f[m])
      BY <1>4
    <2>2. h[e] \in k + 1 .. Len(g) /\ g[h[e]] = End(b)
      <3>1. h[i] < h[e]
        BY <1>b, <2>1
      <3>2. g[h[e]] = End(b)
        BY <1>a, <2>1 DEF Alike
      <3> QED BY <1>2, <2>1, <3>1, <3>2
    <2>3. ASSUME NEW m \in k + 1 .. h[e] - 1 PROVE IsHost(g[m])
      <3>1. m \in DOMAIN g /\ h[i] < m /\ m < h[e]
        BY <1>1, <1>2, <2>1, <2>2
      <3>2. CASE \E j \in I : h[j] = m
        <4>1. PICK j \in I : h[j] = m
          BY <3>2
        <4>2. i < j /\ j < e
          BY <1>3, <3>1, <4>1
        <4>3. j \in i + 1 .. e - 1
          BY <1>2, <4>2
        <4> QED BY <1>a, <2>1, <4>1, <4>3 DEF Alike
      <3> QED BY <1>c, <3>1, <3>2
    <2> QED BY <2>2, <2>3
  <1>6. ASSUME NEW i \in I, Outside(f, i) PROVE Outside(g, h[i])
    <2> SUFFICES ASSUME NEW b \in BlockNames, InBlock(g, h[i], b) PROVE FALSE
      BY DEF Outside
    <2>1. PICK k \in 1 .. h[i] - 1 :
              g[k] = Begin(b) /\ \A m \in k + 1 .. h[i] - 1 : g[m] # End(b)
      BY DEF InBlock
    <2>2. k \in DOMAIN g /\ k < h[i]
      BY <1>1, <1>2
    <2>3. PICK j \in I, e \in I : /\ h[j] = k /\ f[j] = Begin(b) /\ f[e] = End(b) /\ j < e
                                  /\ \A m \in j + 1 .. e - 1 : IsHost(f[m])
      BY <1>4, <2>1, <2>2
    <2>4. j < i /\ h[j] < h[e] /\ g[h[e]] = End(b)
      BY <1>a, <1>b, <1>3, <2>2, <2>3 DEF Alike
    <2>5. ~(e < i)
      <3> SUFFICES ASSUME e < i PROVE FALSE
        OBVIOUS
      <3>1. h[e] < h[i]
        BY <1>b
      <3>2. h[e] \in k + 1 .. h[i] - 1
        BY <1>2, <2>3, <2>4, <3>1
      <3> QED BY <2>1, <2>4, <3>2
    <2>6. \A m \in j + 1 .. i - 1 : m \in j + 1 .. e - 1
      BY <1>2, <2>5
    <2>7. \A m \in j + 1 .. i - 1 : f[m] # End(b)
      BY <2>3, <2>6, Marks
    <2>8. j \in 1 .. i - 1
      BY <1>2, <2>4
    <2>9. InBlock(f, i, b)
      BY <2>3, <2>7, <2>8 DEF InBlock
    <2> QED BY <1>6, <2>9 DEF Outside
  <1>7. \A x \in X : \E i \in DOMAIN g : g[i] = x /\ Outside(g, i)
    <2> SUFFICES ASSUME NEW x \in X PROVE \E i \in DOMAIN g : g[i] = x /\ Outside(g, i)
      OBVIOUS
    <2>1. PICK i \in DOMAIN f : f[i] = x /\ Outside(f, i)
      BY DEF Keeps
    <2>2. i \in I /\ g[h[i]] = x
      BY <1>d, <2>1
    <2> QED BY <1>a, <1>6, <2>1, <2>2
  <1> QED BY <1>5, <1>7 DEF Keeps

LEMMA TrimEndKeeps ==
    ASSUME NEW S, NEW f \in Seq(S)
    PROVE  /\ TrimEnd(f) \in Seq(S)
           /\ \A X : Blank \notin X /\ Keeps(f, X) => Keeps(TrimEnd(f), X)
  <1>1. PICK n \in 0 .. Len(f) : /\ TrimEnd(f) = SubSeq(f, 1, n)
                                 /\ \A i \in n + 1 .. Len(f) : f[i] = Blank
    BY TrimEndCuts
  <1> DEFINE g == TrimEnd(f)
             I == 1 .. n
             h == [i \in I |-> i]
  <1>2. g \in Seq(S) /\ DOMAIN g = 1 .. n /\ DOMAIN f = 1 .. Len(f) /\ Len(f) \in Nat
        /\ \A i \in 1 .. n : g[i] = f[i]
    BY <1>1
  <1> SUFFICES ASSUME NEW X, Blank \notin X, Keeps(f, X) PROVE Keeps(g, X)
    BY <1>2
  <1> HIDE DEF g
  <1>3. \A i \in DOMAIN f : f[i] # Blank => i \in I
    BY <1>1, <1>2
  <1>4. \A i \in I : Alike(f[i], g[h[i]])
    BY <1>2 DEF Alike
  <1>5. WholeBlocks(f, I)
    BY <1>2, <1>3, Marks DEF WholeBlocks
  <1>6. /\ I \subseteq DOMAIN f /\ \A i \in I : h[i] \in DOMAIN g
        /\ \A i, j \in I : i < j => h[i] < h[j]
        /\ \A k \in DOMAIN g : \E i \in I : h[i] = k
        /\ \A i \in DOMAIN f : f[i] \in X => i \in I /\ g[h[i]] = f[i]
    BY <1>1, <1>2, <1>3
  <1> HIDE DEF h, I
  <1>7. Carries(f, g, I, h, X)
    BY <1>4, <1>5, <1>6 DEF Carries
  <1> QED BY <1>2, <1>7, Carried

\* The same for a selection of the lines, after changes to hosts.
LEMMA OnlyKeeps ==
    ASSUME NEW S, NEW f \in Seq(S), NEW T, NEW g \in Seq(T), DOMAIN g = DOMAIN f,
           NEW I, I \subseteq DOMAIN f,
           WholeBlocks(f, I), \A i \in I : Alike(f[i], g[i]),
           NEW X, \A i \in DOMAIN f : f[i] \in X /\ Outside(f, i) => i \in I /\ g[i] = f[i],
           Keeps(f, X)
    PROVE  Keeps(Only(g, I), X)
  <1> DEFINE o == Only(g, I)
             h == [i \in I |-> Rank(I, i)]
  <1>1. /\ o \in Seq(T)
        /\ \A i \in I : Rank(I, i) \in DOMAIN o /\ o[Rank(I, i)] = g[i]
        /\ \A k \in DOMAIN o : \E i \in I : Rank(I, i) = k
        /\ \A i, j \in I : i < j => Rank(I, i) < Rank(I, j)
    BY OnlyThose
  <1> HIDE DEF o
  <1>2. /\ \A i \in I : h[i] \in DOMAIN o /\ o[h[i]] = g[i]
        /\ \A k \in DOMAIN o : \E i \in I : h[i] = k
        /\ \A i, j \in I : i < j => h[i] < h[j]
    BY <1>1
  <1>3. \A i \in I : Alike(f[i], o[h[i]])
    BY <1>2
  <1>4. \A i \in DOMAIN f : f[i] \in X /\ Outside(f, i) => i \in I /\ o[h[i]] = f[i]
    BY <1>2
  <1> HIDE DEF h
  <1>5. Carries(f, o, I, h, X)
    BY <1>2, <1>3, <1>4 DEF Carries
  <1>6. Keeps(o, X)
    BY <1>1, <1>5, Carried
  <1> QED BY <1>6 DEF o

\* What is written behind the last line is outside of the blocks before it.
LEMMA BehindIsOutside ==
    ASSUME NEW S, NEW f \in Seq(S), NEW t \in Seq(S), Closed(f)
    PROVE  /\ \A i \in DOMAIN f : Outside(f, i) => Outside(f \o t, i)
           /\ t # <<>> => Outside(f \o t, Len(f) + 1)
           /\ Closed(t) => Closed(f \o t)
  <1> DEFINE g == f \o t
  <1>1. /\ g \in Seq(S) /\ Len(g) = Len(f) + Len(t) /\ Len(f) \in Nat /\ Len(t) \in Nat
        /\ DOMAIN f = 1 .. Len(f) /\ DOMAIN t = 1 .. Len(t) /\ DOMAIN g = 1 .. Len(g)
    OBVIOUS
  <1>2. \A i \in 1 .. Len(f) : g[i] = f[i]
    OBVIOUS
  <1>3. \A i \in 1 .. Len(t) : g[Len(f) + i] = t[i]
    OBVIOUS
  <1> HIDE DEF g
  <1>4. \A i \in DOMAIN f : Outside(f, i) => Outside(g, i)
    <2> SUFFICES ASSUME NEW i \in DOMAIN f, NEW b \in BlockNames, InBlock(g, i, b)
                 PROVE  InBlock(f, i, b)
      BY DEF Outside
    <2>1. \A k \in 1 .. i - 1 : k \in 1 .. Len(f)
      BY <1>1
    <2>2. PICK k \in 1 .. i - 1 : g[k] = Begin(b) /\ \A m \in k + 1 .. i - 1 : g[m] # End(b)
      BY DEF InBlock
    <2>3. \A m \in k + 1 .. i - 1 : m \in 1 .. i - 1
      BY <1>1
    <2>4. f[k] = Begin(b) /\ \A m \in k + 1 .. i - 1 : f[m] # End(b)
      BY <1>2, <2>1, <2>2, <2>3
    <2> QED BY <2>4 DEF InBlock
  <1>5. \A k \in 1 .. Len(f) : \A b \in BlockNames : g[k] = Begin(b) =>
           \E e \in k + 1 .. Len(f) : g[e] = End(b) /\ \A m \in k + 1 .. e - 1 : IsHost(g[m])
    <2> SUFFICES ASSUME NEW k \in 1 .. Len(f), NEW b \in BlockNames, f[k] = Begin(b)
                 PROVE  \E e \in k + 1 .. Len(f) :
                           g[e] = End(b) /\ \A m \in k + 1 .. e - 1 : IsHost(g[m])
      BY <1>2
    <2>1. PICK e \in k + 1 .. Len(f) : f[e] = End(b) /\ \A m \in k + 1 .. e - 1 : IsHost(f[m])
      BY <1>1 DEF Closed
    <2>2. e \in 1 .. Len(f) /\ \A m \in k + 1 .. e - 1 : m \in 1 .. Len(f)
      BY <1>1
    <2> QED BY <1>2, <2>1, <2>2
  <1>6. Outside(g, Len(f) + 1)
    <2> SUFFICES ASSUME NEW b \in BlockNames, InBlock(g, Len(f) + 1, b) PROVE FALSE
      BY DEF Outside
    <2>1. PICK k \in 1 .. Len(f) : g[k] = Begin(b) /\ \A m \in k + 1 .. Len(f) : g[m] # End(b)
      BY <1>1 DEF InBlock
    <2> QED BY <1>5, <2>1
  <1>7. ASSUME Closed(t) PROVE Closed(g)
    <2> SUFFICES ASSUME NEW k \in DOMAIN g, NEW b \in BlockNames, g[k] = Begin(b)
                 PROVE  \E e \in k + 1 .. Len(g) :
                           g[e] = End(b) /\ \A m \in k + 1 .. e - 1 : IsHost(g[m])
      BY DEF Closed
    <2>1. CASE k <= Len(f)
      <3>1. k \in 1 .. Len(f)
        BY <1>1, <2>1
      <3>2. PICK e \in k + 1 .. Len(f) :
                g[e] = End(b) /\ \A m \in k + 1 .. e - 1 : IsHost(g[m])
        BY <1>5, <3>1
      <3>3. e \in k + 1 .. Len(g)
        BY <1>1, <3>1
      <3> QED BY <3>2, <3>3
    <2>2. CASE k > Len(f)
      <3> DEFINE j == k - Len(f)
      <3>1. j \in 1 .. Len(t) /\ Len(f) + j = k
        BY <1>1, <2>2
      <3>2. t[j] = Begin(b)
        BY <1>3, <3>1
      <3> HIDE DEF j
      <3>3. PICK e \in j + 1 .. Len(t) :
                t[e] = End(b) /\ \A m \in j + 1 .. e - 1 : IsHost(t[m])
        BY <1>1, <1>7, <3>1, <3>2 DEF Closed
      <3>4. Len(f) + e \in k + 1 .. Len(g) /\ g[Len(f) + e] = End(b)
        <4>1. e \in 1 .. Len(t) /\ Len(f) + e \in k + 1 .. Len(g)
          BY <1>1, <3>1
        <4> QED BY <1>3, <3>3, <4>1
      <3>5. ASSUME NEW m \in k + 1 .. (Len(f) + e) - 1 PROVE IsHost(g[m])
        <4>1. m - Len(f) \in j + 1 .. e - 1 /\ m - Len(f) \in 1 .. Len(t)
              /\ Len(f) + (m - Len(f)) = m
          BY <1>1, <3>1
        <4> QED BY <1>3, <3>3, <4>1
      <3> QED BY <3>4, <3>5
    <2> QED BY <1>1, <2>1, <2>2
  <1> QED BY <1>4, <1>6, <1>7 DEF g

LEMMA AppendKeeps ==
    ASSUME NEW S, NEW f \in Seq(S), NEW t \in Seq(S), Closed(t), NEW X, Keeps(f, X)
    PROVE  Keeps(f \o t, X)
  <1>1. Closed(f)
    BY DEF Keeps
  <1>2. \A i \in DOMAIN f : i \in DOMAIN (f \o t) /\ (f \o t)[i] = f[i]
    OBVIOUS
  <1>3. \A i \in DOMAIN f : Outside(f, i) => Outside(f \o t, i)
    BY <1>1, BehindIsOutside
  <1>4. Closed(f \o t)
    BY <1>1, BehindIsOutside
  <1> QED BY <1>2, <1>3, <1>4 DEF Keeps

\* The user's new line is kept as well.
LEMMA UserLineKept ==
    ASSUME NEW S, NEW f \in Seq(S), NEW x \in S, \A b \in BlockNames : x # Begin(b),
           NEW X, Keeps(f, X)
    PROVE  Keeps(Append(f, x), X \cup {x})
  <1>1. <<x>> \in Seq(S) /\ Append(f, x) = f \o <<x>> /\ <<x>> # <<>> /\ Closed(f)
    BY DEF Keeps
  <1>2. Closed(<<x>>)
    BY DEF Closed
  <1>3. Keeps(f \o <<x>>, X)
    BY <1>1, <1>2, AppendKeeps
  <1>4. Len(f) + 1 \in DOMAIN (f \o <<x>>) /\ (f \o <<x>>)[Len(f) + 1] = x
    OBVIOUS
  <1>5. Outside(f \o <<x>>, Len(f) + 1)
    BY <1>1, BehindIsOutside
  <1> QED BY <1>1, <1>3, <1>4, <1>5 DEF Keeps

---------------------------------------------------------------------------
(* What the operators on files keep *)

\* Lines of the user's kind.
Plain(X) == \A x \in X : x # Blank /\ \A b : x # Begin(b)

\* Within a block that it removes, and only there, the reader waits for an END line.
LEMMA WaitsInBlock ==
    ASSUME NEW S, NEW f \in Seq(S), NEW names
    PROVE  LET until == SkippingUntil(f, names) IN
           \A i \in 0 .. Len(f) : until[i] # None =>
              \E b \in names : \E k \in 1 .. i :
                 f[k] = Begin(b) /\ until[i] = End(b) /\ \A m \in k + 1 .. i : f[m] # End(b)
  <1> DEFINE until == SkippingUntil(f, names)
             Waits(i) == until[i] # None => \E b \in names : \E k \in 1 .. i :
                            /\ f[k] = Begin(b) /\ until[i] = End(b)
                            /\ \A m \in k + 1 .. i : f[m] # End(b)
             T == {i \in Nat : i <= Len(f) => Waits(i)}
  <1>1. Len(f) \in Nat
    OBVIOUS
  <1>2. until[0] = None
        /\ \A i \in 1 .. Len(f) : until[i] = UntilAfter(f[i], until[i - 1], names)
    BY <1>1, SkippingStep
  <1> HIDE DEF until
  <1>3. 0 \in T
    BY <1>2
  <1>4. \A i \in Nat : i \in T => i + 1 \in T
    <2> SUFFICES ASSUME NEW i \in Nat, i \in T, i + 1 <= Len(f), until[i + 1] # None
                 PROVE  \E b \in names : \E k \in 1 .. i + 1 :
                            /\ f[k] = Begin(b) /\ until[i + 1] = End(b)
                            /\ \A m \in k + 1 .. i + 1 : f[m] # End(b)
      OBVIOUS
    <2>1. until[i + 1] = UntilAfter(f[i + 1], until[i], names)
      BY <1>1, <1>2
    <2>2. CASE until[i] # None
      <3>1. until[i + 1] = until[i] /\ f[i + 1] # until[i]
        BY <2>1, <2>2 DEF UntilAfter
      <3>2. i <= Len(f)
        BY <1>1
      <3>3. PICK b \in names, k \in 1 .. i :
                f[k] = Begin(b) /\ until[i] = End(b) /\ \A m \in k + 1 .. i : f[m] # End(b)
        BY <2>2, <3>2
      <3>4. \A m \in k + 1 .. i + 1 : m \in k + 1 .. i \/ m = i + 1
        OBVIOUS
      <3>5. k \in 1 .. i + 1 /\ \A m \in k + 1 .. i + 1 : f[m] # End(b)
        BY <3>1, <3>3, <3>4
      <3> QED BY <3>1, <3>3, <3>5
    <2>3. CASE until[i] = None
      <3>1. PICK b \in names : f[i + 1] = Begin(b) /\ until[i + 1] = End(b)
        <4>1. PICK b \in names : f[i + 1] = Begin(b)
          BY <2>1, <2>3 DEF UntilAfter
        <4>2. until[i + 1] = End(f[i + 1].block)
          BY <2>1, <2>3, <4>1 DEF UntilAfter
        <4>3. Begin(b).block = b
          BY DEF Begin
        <4> QED BY <4>1, <4>2, <4>3
      <3>2. i + 1 \in 1 .. i + 1 /\ \A m \in (i + 1) + 1 .. i + 1 : f[m] # End(b)
        OBVIOUS
      <3> QED BY <3>1, <3>2
    <2> QED BY <2>2, <2>3
  <1>5. Nat \subseteq T
    <2> HIDE DEF T
    <2> QED BY <1>3, <1>4, Induct
  <1>6. \A i \in 0 .. Len(f) : Waits(i)
    BY <1>1, <1>5
  <1> QED BY <1>6 DEF until

LEMMA WithoutBlocksKeeps ==
    ASSUME NEW S, NEW f \in Seq(S), NEW names, names \subseteq BlockNames
    PROVE  /\ WithoutBlocks(f, names) \in Seq(S)
           /\ \A X : Plain(X) /\ Keeps(f, X) => Keeps(WithoutBlocks(f, names), X)
  <1>1. CASE names = {}
    BY <1>1 DEF WithoutBlocks
  <1>2. CASE names # {}
    <2> DEFINE until == SkippingUntil(f, names)
               I == {i \in DOMAIN f : until[i - 1] = None /\ until[i] = None}
    <2>1. WithoutBlocks(f, names) = TrimEnd(Only(f, I))
      BY <1>2 DEF WithoutBlocks
    <2>2. Len(f) \in Nat /\ DOMAIN f = 1 .. Len(f) /\ I \subseteq DOMAIN f
      OBVIOUS
    <2>3. Only(f, I) \in Seq(S) /\ TrimEnd(Only(f, I)) \in Seq(S)
      <3> HIDE DEF I
      <3> QED BY <2>2, OnlyThose, TrimEndKeeps
    <2>4. \A i \in 1 .. Len(f) : until[i] = UntilAfter(f[i], until[i - 1], names)
      BY <2>2, SkippingStep
    <2>5. \A i \in 0 .. Len(f) : until[i] # None =>
              \E b \in names : \E k \in 1 .. i :
                 f[k] = Begin(b) /\ until[i] = End(b) /\ \A m \in k + 1 .. i : f[m] # End(b)
      BY WaitsInBlock
    <2> HIDE DEF until
    <2>6. \A i \in DOMAIN f : Outside(f, i) => until[i - 1] = None
      <3> SUFFICES ASSUME NEW i \in DOMAIN f, until[i - 1] # None PROVE ~Outside(f, i)
        OBVIOUS
      <3>1. i - 1 \in 0 .. Len(f)
        BY <2>2
      <3>2. PICK b \in names, k \in 1 .. i - 1 :
                f[k] = Begin(b) /\ \A m \in k + 1 .. i - 1 : f[m] # End(b)
        BY <2>5, <3>1
      <3> QED BY <3>2 DEF Outside, InBlock
    <2>7. \A i \in DOMAIN f : until[i - 1] = None /\ (\A b \in names : f[i] # Begin(b))
              => until[i] = None
      BY <2>2, <2>4 DEF UntilAfter
    <2>8. WholeBlocks(f, I)
      <3> SUFFICES ASSUME NEW b \in BlockNames, NEW k \in I, NEW e \in k + 1 .. Len(f),
                          f[k] = Begin(b), f[e] = End(b),
                          \A m \in k + 1 .. e - 1 : IsHost(f[m])
                   PROVE  e \in I
        BY DEF WholeBlocks
      <3> DEFINE T == {n \in Nat : k + n <= e => until[k + n] = None}
      <3>1. k \in 1 .. Len(f) /\ until[k] = None
        BY <2>2
      <3>2. 0 \in T
        BY <3>1
      <3>3. \A n \in Nat : n \in T => n + 1 \in T
        <4> SUFFICES ASSUME NEW n \in Nat, n \in T, k + (n + 1) <= e
                     PROVE  until[k + (n + 1)] = None
          OBVIOUS
        <4>1. until[k + n] = None /\ k + (n + 1) \in DOMAIN f /\ (k + (n + 1)) - 1 = k + n
          BY <2>2, <3>1
        <4>2. k + (n + 1) = e \/ k + (n + 1) \in k + 1 .. e - 1
          <5>1. k \in Nat /\ e \in Nat
            BY <2>2, <3>1
          <5> HIDE DEF T
          <5> QED BY <5>1
        <4>3. \A c \in names : f[k + (n + 1)] # Begin(c)
          BY <4>2, Marks
        <4> QED BY <2>7, <4>1, <4>3
      <3>4. Nat \subseteq T
        <4> HIDE DEF T
        <4> QED BY <3>2, <3>3, Induct
      <3>5. e - k \in Nat /\ (e - 1) - k \in Nat /\ k + (e - k) = e /\ k + ((e - 1) - k) = e - 1
        BY <3>1
      <3>6. until[e] = None /\ until[e - 1] = None
        <4>1. e - k \in T /\ (e - 1) - k \in T
          BY <3>4, <3>5
        <4>2. until[k + (e - k)] = None
          BY <3>1, <3>5, <4>1
        <4>3. until[k + ((e - 1) - k)] = None
          BY <3>1, <3>5, <4>1
        <4> QED BY <3>5, <4>2, <4>3
      <3> QED BY <2>2, <3>1, <3>6
    <2>9. ASSUME NEW X, Plain(X), Keeps(f, X) PROVE Keeps(TrimEnd(Only(f, I)), X)
      <3>1. \A i \in DOMAIN f : f[i] \in X /\ Outside(f, i) => i \in I
        BY <2>6, <2>7, <2>9 DEF Plain
      <3>2. \A i \in I : Alike(f[i], f[i])
        BY DEF Alike
      <3> HIDE DEF I
      <3>3. Keeps(Only(f, I), X)
        BY <2>2, <2>8, <2>9, <3>1, <3>2, OnlyKeeps
      <3> QED BY <2>3, <2>9, <3>3, TrimEndKeeps DEF Plain
    <2> QED BY <2>1, <2>3, <2>9
  <1> QED BY <1>1, <1>2

\* Lines that remain such when hostnames are taken out.
Reducible(L) ==
    \A x \in L : IsHost(x) => /\ x = Host(x.address, x.names)
                              /\ \A n \in SUBSET x.names : Host(x.address, n) \in L

LEMMA WithoutHostnamesKeeps ==
    ASSUME NEW L, Reducible(L), NEW f \in Seq(L), NEW names
    PROVE  /\ WithoutHostnames(f, names) \in Seq(L)
           /\ \A X : /\ Plain(X) /\ Keeps(f, X)
                     /\ \A x \in X : IsHost(x) => x.names # {} /\ x.names \cap names = {}
                     => Keeps(WithoutHostnames(f, names), X)
  <1>1. CASE names = {}
    BY <1>1 DEF WithoutHostnames
  <1>2. CASE names # {}
    <2> DEFINE less(x) == IF IsHost(x) THEN Host(x.address, x.names \ names) ELSE x
               g == [i \in DOMAIN f |-> less(f[i])]
               I == {i \in DOMAIN f : IsHost(f[i]) => less(f[i]).names # {}}
    <2>1. WithoutHostnames(f, names) = TrimEnd(Only(g, I))
      BY <1>2 DEF WithoutHostnames
    <2>2. DOMAIN g = DOMAIN f /\ I \subseteq DOMAIN f /\ \A i \in DOMAIN f : g[i] = less(f[i])
      OBVIOUS
    <2>3. \A x \in L : less(x) \in L /\ Alike(x, less(x))
      <3> SUFFICES ASSUME NEW x \in L, IsHost(x) PROVE less(x) \in L /\ Alike(x, less(x))
        BY DEF Alike
      <3>1. less(x) = Host(x.address, x.names \ names)
        OBVIOUS
      <3>2. Host(x.address, x.names \ names) \in L
        BY DEF Reducible
      <3>3. IsHost(less(x))
        BY <3>1 DEF Host, IsHost
      <3> HIDE DEF less
      <3> QED BY <3>1, <3>2, <3>3, Marks DEF Alike
    <2>4. g \in Seq(L)
      <3>1. \A i \in DOMAIN f : f[i] \in L
        OBVIOUS
      <3>2. DOMAIN f = 1 .. Len(f) /\ Len(f) \in Nat
        OBVIOUS
      <3>3. \A i \in 1 .. Len(f) : less(f[i]) \in L
        BY <2>3, <3>1, <3>2
      <3> HIDE DEF less
      <3>4. g \in [1 .. Len(f) -> L]
        BY <3>2, <3>3
      <3> QED BY <3>2, <3>4, SeqDef
    <2>5. \A i \in I : i \in DOMAIN f /\ f[i] \in L
      OBVIOUS
    <2>6. \A i \in DOMAIN f : (\E b : f[i] = End(b)) => i \in I
      BY Marks
    <2>7. WholeBlocks(f, I)
      <3>1. \A k \in I : \A e \in k + 1 .. Len(f) : e \in DOMAIN f
        <4>1. \A k \in I : k \in 1 .. Len(f)
          BY <2>5
        <4> HIDE DEF I
        <4> QED BY <4>1
      <3> HIDE DEF I
      <3> QED BY <2>6, <3>1 DEF WholeBlocks
    <2>8. Only(g, I) \in Seq(L) /\ TrimEnd(Only(g, I)) \in Seq(L)
      <3> HIDE DEF I, g
      <3> QED BY <2>2, <2>4, OnlyThose, TrimEndKeeps
    <2>9. ASSUME NEW X, Plain(X), Keeps(f, X),
                 \A x \in X : IsHost(x) => x.names # {} /\ x.names \cap names = {}
          PROVE  Keeps(TrimEnd(Only(g, I)), X)
      <3>1. ASSUME NEW x \in X, x \in L
            PROVE  less(x) = x /\ (IsHost(x) => less(x).names # {})
        <4> SUFFICES ASSUME IsHost(x) PROVE less(x) = x /\ less(x).names # {}
          OBVIOUS
        <4>1. x.names # {} /\ x.names \ names = x.names
          BY <2>9
        <4>2. x = Host(x.address, x.names)
          BY <3>1 DEF Reducible
        <4> QED BY <4>1, <4>2
      <3>2. \A i \in DOMAIN f : f[i] \in X => i \in I /\ g[i] = f[i]
        <4> SUFFICES ASSUME NEW i \in DOMAIN f, f[i] \in X PROVE i \in I /\ g[i] = f[i]
          OBVIOUS
        <4>1. f[i] \in L
          OBVIOUS
        <4> HIDE DEF less
        <4> QED BY <2>2, <3>1, <4>1
      <3>3. \A i \in I : Alike(f[i], g[i])
        BY <2>2, <2>3, <2>5
      <3> HIDE DEF I, g
      <3>4. Keeps(Only(g, I), X)
        BY <2>2, <2>4, <2>7, <2>9, <3>2, <3>3, OnlyKeeps
      <3> QED BY <2>8, <2>9, <3>4, TrimEndKeeps DEF Plain
    <2> QED BY <2>1, <2>8, <2>9
  <1> QED BY <1>1, <1>2

\* A block of hosts is closed.
LEMMA BlockClosed ==
    ASSUME NEW L, NEW entries \in Seq(L), \A i \in DOMAIN entries : IsHost(entries[i]),
           NEW b \in BlockNames, Begin(b) \in L, End(b) \in L
    PROVE  /\ <<Begin(b)>> \o entries \o <<End(b)>> \in Seq(L)
           /\ Closed(<<Begin(b)>> \o entries \o <<End(b)>>)
  <1> DEFINE n == Len(entries)
             t == <<Begin(b)>> \o entries \o <<End(b)>>
  <1>1. t \in Seq(L) /\ Len(t) = n + 2 /\ n \in Nat /\ DOMAIN t = 1 .. n + 2
    OBVIOUS
  <1>2. t[1] = Begin(b) /\ t[n + 2] = End(b)
    OBVIOUS
  <1>3. \A i \in 2 .. n + 1 : i - 1 \in DOMAIN entries /\ t[i] = entries[i - 1]
    OBVIOUS
  <1> HIDE DEF t, n
  <1>4. \A i \in 2 .. n + 1 : IsHost(t[i])
    BY <1>3
  <1>5. Closed(t)
    <2> SUFFICES ASSUME NEW k \in DOMAIN t, NEW c \in BlockNames, t[k] = Begin(c)
                 PROVE  \E e \in k + 1 .. Len(t) :
                           t[e] = End(c) /\ \A m \in k + 1 .. e - 1 : IsHost(t[m])
      BY DEF Closed
    <2>1. k \notin 2 .. n + 1 /\ k # n + 2
      BY <1>2, <1>4, Marks
    <2>2. k = 1
      BY <1>1, <2>1
    <2>3. c = b
      BY <1>2, <2>2 DEF Begin
    <2>4. n + 2 \in k + 1 .. Len(t) /\ \A m \in k + 1 .. (n + 2) - 1 : m \in 2 .. n + 1
      BY <1>1, <2>2
    <2> QED BY <1>2, <1>4, <2>3, <2>4
  <1> QED BY <1>1, <1>5 DEF t

LEMMA UpsertedKeeps ==
    ASSUME NEW L, NEW f \in Seq(L), NEW entries \in Seq(L),
           \A i \in DOMAIN entries : IsHost(entries[i]),
           NEW b \in BlockNames, Begin(b) \in L, End(b) \in L, Blank \in L
    PROVE  /\ Upserted(f, b, entries) \in Seq(L)
           /\ \A X : Plain(X) /\ Keeps(f, X) => Keeps(Upserted(f, b, entries), X)
  <1> DEFINE t == <<Begin(b)>> \o entries \o <<End(b)>>
             start == IF TrimEnd(f) = <<>> THEN <<>> ELSE Append(TrimEnd(f), Blank)
  <1>1. t \in Seq(L) /\ Closed(t)
    BY BlockClosed
  <1>2. TrimEnd(f) \in Seq(L) /\ start \in Seq(L)
    BY TrimEndKeeps
  <1>3. Upserted(f, b, entries) = start \o t
    <2>1. <<Begin(b)>> \in Seq(L) /\ <<End(b)>> \in Seq(L)
      OBVIOUS
    <2>2. Upserted(f, b, entries) = start \o <<Begin(b)>> \o entries \o <<End(b)>>
      BY DEF Upserted
    <2> HIDE DEF start
    <2>3. (start \o <<Begin(b)>>) \o entries = start \o (<<Begin(b)>> \o entries)
      BY <1>2, <2>1, ConcatAssociative
    <2>4. <<Begin(b)>> \o entries \in Seq(L)
      BY <2>1
    <2>5. (start \o (<<Begin(b)>> \o entries)) \o <<End(b)>>
              = start \o ((<<Begin(b)>> \o entries) \o <<End(b)>>)
      BY <1>2, <2>1, <2>4, ConcatAssociative
    <2> QED BY <2>2, <2>3, <2>5
  <1>4. ASSUME NEW X, Plain(X), Keeps(f, X) PROVE Keeps(start, X)
    <2>1. Keeps(TrimEnd(f), X)
      BY <1>4, TrimEndKeeps DEF Plain
    <2>2. CASE TrimEnd(f) = <<>>
      BY <2>1, <2>2
    <2>3. CASE TrimEnd(f) # <<>>
      <3>1. <<Blank>> \in Seq(L) /\ start = TrimEnd(f) \o <<Blank>>
        BY <1>2, <2>3
      <3>2. Closed(<<Blank>>)
        BY Marks DEF Closed
      <3> QED BY <1>2, <2>1, <3>1, <3>2, AppendKeeps
    <2> QED BY <2>2, <2>3
  <1> HIDE DEF start, t
  <1>5. start \o t \in Seq(L)
    BY <1>1, <1>2
  <1> QED BY <1>1, <1>2, <1>3, <1>4, <1>5, AppendKeeps

---------------------------------------------------------------------------
(* The lines of the framework *)

LEMMA EntriesAreHosts ==
    /\ \A e \in FrameworkEntries : IsHost(e) /\ e = Host(e.address, e.names) /\ e.names # {}
    /\ \A c \in Configs : \A b \in BlockNames : EntriesOf[c][b] \in Seq(FrameworkEntries)
  <1>1. ASSUME NEW c \in Configs, NEW b \in BlockNames
        PROVE  /\ EntriesOf[c][b] \in Seq(ToSet(EntriesOf[c][b]))
               /\ \A e \in ToSet(EntriesOf[c][b]) : \E h \in e.names : e = Host(e.address, {h})
    BY EntriesAssumption
  <1>2. ASSUME NEW c \in Configs, NEW b \in BlockNames
        PROVE  ToSet(EntriesOf[c][b]) \subseteq FrameworkEntries
    BY DEF FrameworkEntries
  <1>3. ASSUME NEW e \in FrameworkEntries
        PROVE  IsHost(e) /\ e = Host(e.address, e.names) /\ e.names # {}
    <2>1. PICK c \in Configs, b \in BlockNames : e \in ToSet(EntriesOf[c][b])
      BY DEF FrameworkEntries
    <2>2. PICK h \in e.names : e = Host(e.address, {h})
      BY <1>1, <2>1
    <2>3. e.names = {h} /\ e.line = "host"
      BY <2>2 DEF Host
    <2> QED BY <2>2, <2>3 DEF IsHost
  <1>4. ASSUME NEW c \in Configs, NEW b \in BlockNames
        PROVE  EntriesOf[c][b] \in Seq(FrameworkEntries)
    <2> DEFINE es == EntriesOf[c][b]  T == ToSet(es)
    <2>1. es \in Seq(T) /\ T \subseteq FrameworkEntries
      BY <1>1, <1>2
    <2> HIDE DEF es, T
    <2>2. es \in Seq(FrameworkEntries)
      BY <2>1
    <2> QED BY <2>2 DEF es
  <1> QED BY <1>3, <1>4

LEMMA MissingAreHosts ==
    ASSUME NEW c \in Configs, NEW b \in BlockNames, NEW f
    PROVE  /\ Missing(EntriesOf[c][b], f) \in Seq(FrameworkEntries)
           /\ \A i \in DOMAIN Missing(EntriesOf[c][b], f) : IsHost(Missing(EntriesOf[c][b], f)[i])
  <1> DEFINE es == EntriesOf[c][b]
             I == {i \in DOMAIN es : es[i].names \cap HostnamesIn(f) = {}}
  <1>1. es \in Seq(FrameworkEntries) /\ \A e \in FrameworkEntries : IsHost(e)
    BY EntriesAreHosts
  <1>2. Missing(es, f) = Only(es, I) /\ I \subseteq DOMAIN es
    BY DEF Missing
  <1> HIDE DEF I, es
  <1>3. Only(es, I) \in Seq(FrameworkEntries)
    BY <1>1, <1>2, OnlyThose
  <1>4. \A i \in DOMAIN Only(es, I) : Only(es, I)[i] \in FrameworkEntries
    BY <1>3
  <1> QED BY <1>1, <1>2, <1>3, <1>4 DEF es

\* What every file is made of.
LinesOf(L) == Reducible(L) /\ FrameworkLines \subseteq L

LEMMA AllUpsertedKeeps ==
    ASSUME NEW L, LinesOf(L), NEW f \in Seq(L), NEW c \in Configs, NEW bs, NEW base
    PROVE  /\ AllUpserted(f, c, bs, base) \in Seq(L)
           /\ \A X : Plain(X) /\ Keeps(f, X) => Keeps(AllUpserted(f, c, bs, base), X)
  <1> DEFINE with(b, g) == LET missing == Missing(EntriesOf[c][b], base) IN
                           IF b \notin bs \/ missing = <<>> THEN g ELSE Upserted(g, b, missing)
  <1>1. /\ FrameworkEntries \subseteq L /\ Blank \in L
        /\ \A b \in BlockNames : Begin(b) \in L /\ End(b) \in L
    BY DEF LinesOf, FrameworkLines
  <1>2. ASSUME NEW b \in BlockNames, NEW g \in Seq(L)
        PROVE  /\ with(b, g) \in Seq(L)
               /\ \A X : Plain(X) /\ Keeps(g, X) => Keeps(with(b, g), X)
    <2> DEFINE missing == Missing(EntriesOf[c][b], base)
    <2>1. missing \in Seq(FrameworkEntries) /\ \A i \in DOMAIN missing : IsHost(missing[i])
      BY MissingAreHosts
    <2>2. with(b, g) = IF b \notin bs \/ missing = <<>> THEN g ELSE Upserted(g, b, missing)
      OBVIOUS
    <2> HIDE DEF missing, with
    <2>3. missing \in Seq(L)
      BY <1>1, <2>1
    <2>4. /\ Upserted(g, b, missing) \in Seq(L)
          /\ \A X : Plain(X) /\ Keeps(g, X) => Keeps(Upserted(g, b, missing), X)
      BY <1>1, <2>1, <2>3, UpsertedKeeps
    <2> QED BY <2>2, <2>4
  <1>3. AllUpserted(f, c, bs, base) =
            with("components", with("connectors", with("dataspace", with("common", f))))
    BY DEF AllUpserted
  <1> DEFINE f1 == with("common", f)  f2 == with("dataspace", f1)  f3 == with("connectors", f2)
             f4 == with("components", f3)
  <1>4. AllUpserted(f, c, bs, base) = f4
    BY <1>3
  <1> HIDE DEF with
  <1>5. /\ "common" \in BlockNames /\ "dataspace" \in BlockNames
        /\ "connectors" \in BlockNames /\ "components" \in BlockNames
    BY DEF BlockNames
  <1>6. f1 \in Seq(L) /\ \A X : Plain(X) /\ Keeps(f, X) => Keeps(f1, X)
    BY <1>2, <1>5
  <1> HIDE DEF f1
  <1>7. f2 \in Seq(L) /\ \A X : Plain(X) /\ Keeps(f1, X) => Keeps(f2, X)
    BY <1>2, <1>5, <1>6
  <1> HIDE DEF f2
  <1>8. f3 \in Seq(L) /\ \A X : Plain(X) /\ Keeps(f2, X) => Keeps(f3, X)
    BY <1>2, <1>5, <1>7
  <1> HIDE DEF f3
  <1>9. f4 \in Seq(L) /\ \A X : Plain(X) /\ Keeps(f3, X) => Keeps(f4, X)
    BY <1>2, <1>5, <1>8
  <1> HIDE DEF f4
  <1> QED BY <1>4, <1>6, <1>7, <1>8, <1>9

\* The user's lines with no hostname that the framework claims.
Unclaimed(X) == /\ Plain(X) /\ DefaultHeader \notin X
                /\ \A x \in X : ~Claimed(x) /\ (IsHost(x) => x.names # {})

LEMMA MergedKeeps ==
    ASSUME NEW L, LinesOf(L), NEW f \in Seq(L), NEW c \in Configs, NEW l
    PROVE  /\ Merged(f, c, l) \in Seq(L)
           /\ \A X : Unclaimed(X) /\ Keeps(f, X) => Keeps(Merged(f, c, l), X)
  <1> DEFINE bs == BlocksOf(c, l)
             own == WithoutBlocks(f, bs)
             names == ToReconcile(c, bs, own)
             base == WithoutHostnames(own, names)
  <1>1. Merged(f, c, l) = AllUpserted(base, c, bs, base)
    BY DEF Merged
  <1>2. bs \subseteq BlockNames /\ names \subseteq PublicOf[c]
    BY DEF BlocksOf, ToReconcile
  <1> HIDE DEF bs
  <1>3. own \in Seq(L) /\ \A X : Plain(X) /\ Keeps(f, X) => Keeps(own, X)
    BY <1>2, WithoutBlocksKeeps
  <1> HIDE DEF own, names
  <1>4. /\ base \in Seq(L)
        /\ \A X : /\ Plain(X) /\ Keeps(own, X)
                  /\ \A x \in X : IsHost(x) => x.names # {} /\ x.names \cap names = {}
                  => Keeps(base, X)
    BY <1>3, WithoutHostnamesKeeps DEF LinesOf
  <1> HIDE DEF base
  <1>5. /\ AllUpserted(base, c, bs, base) \in Seq(L)
        /\ \A X : Plain(X) /\ Keeps(base, X) => Keeps(AllUpserted(base, c, bs, base), X)
    BY <1>4, AllUpsertedKeeps
  <1>6. ASSUME NEW X, Unclaimed(X)
        PROVE  \A x \in X : IsHost(x) => x.names # {} /\ x.names \cap names = {}
    BY <1>2, <1>6 DEF Unclaimed, Claimed
  <1> QED BY <1>1, <1>3, <1>4, <1>5, <1>6 DEF Unclaimed

LEMMA HeadersAreComments ==
    ASSUME NEW l
    PROVE  /\ \E t : HeaderOf(l) = Header(t)
           /\ IsComment(HeaderOf(l)) /\ ~IsHost(HeaderOf(l)) /\ HeaderOf(l) # Blank
           /\ \A b : HeaderOf(l) # Begin(b) /\ HeaderOf(l) # End(b)
  <1>1. \E t : HeaderOf(l) = Header(t)
    <2>1. \/ HeaderOf(l) = Header("Components")
          \/ HeaderOf(l) = Header("Dataspace Connector Hosts")
          \/ HeaderOf(l) = Header("Dataspace Local Deployment")
      BY DEF HeaderOf, DefaultHeader
    <2> QED BY <2>1
  <1> QED BY <1>1 DEF Header, IsComment, IsHost, Blank, Begin, End

LEMMA OwnLinesArePlain ==
    /\ Plain(OwnLines)
    /\ \A x \in OwnLines : /\ x # DefaultHeader
                           /\ IsHost(x) => x = Host(x.address, x.names) /\ x.names # {}
  <1>1. ASSUME NEW x \in OwnLines
        PROVE  \/ IsHost(x) /\ x = Host(x.address, x.names) /\ x.names # {}
               \/ IsComment(x) /\ x = Header(x.text) /\ x # DefaultHeader
    BY UserAssumption
  <1>2. ASSUME NEW x \in OwnLines, IsHost(x)
        PROVE  x = Host(x.address, x.names) /\ x.names # {}
    BY <1>1, <1>2, Marks
  <1>3. ASSUME NEW x \in OwnLines
        PROVE  x # DefaultHeader /\ x # Blank /\ \A b : x # Begin(b)
    <2>1. CASE IsHost(x)
      BY <2>1, Marks DEF DefaultHeader
    <2>2. CASE x = Header(x.text) /\ x # DefaultHeader
      BY <2>2, Marks DEF Header, Blank
    <2> QED BY <1>1, <2>1, <2>2
  <1> QED BY <1>2, <1>3 DEF Plain

LEMMA LinesFit ==
    ASSUME NEW own \in SUBSET OwnLines
    PROVE  /\ LinesOf(LinesWith(own)) /\ own \subseteq LinesWith(own)
           /\ \A more : own \subseteq more => LinesWith(own) \subseteq LinesWith(more)
  <1> DEFINE L == LinesWith(own)
  <1>1. \A y \in FrameworkLines \cup own : y \in LinesLeft(y) /\ LinesLeft(y) \subseteq L
    BY DEF LinesLeft, LinesWith
  <1>2. ASSUME NEW y \in FrameworkLines \cup own, IsHost(y) PROVE y = Host(y.address, y.names)
    <2>1. CASE y \in FrameworkEntries
      BY <2>1, EntriesAreHosts
    <2>2. CASE y \in {Host(Loopback, e.names) : e \in FrameworkEntries}
      BY <2>2 DEF Host
    <2>3. CASE y \in {Begin(b) : b \in BlockNames} \cup {End(b) : b \in BlockNames}
                     \cup {HeaderOf(j.level) : j \in Jobs} \cup {Blank}
      BY <1>2, <2>3, Marks, HeadersAreComments
    <2>4. CASE y \in own
      BY <1>2, <2>4, OwnLinesArePlain
    <2> QED BY <2>1, <2>2, <2>3, <2>4 DEF FrameworkLines
  <1>3. ASSUME NEW x \in L, IsHost(x), NEW n \in SUBSET x.names
        PROVE  x = Host(x.address, x.names) /\ Host(x.address, n) \in L
    <2>1. PICK y \in FrameworkLines \cup own : x \in LinesLeft(y)
      BY DEF LinesWith
    <2>2. CASE x = y
      <3>1. Host(x.address, n) \in LinesLeft(y)
        BY <1>3, <2>2 DEF LinesLeft
      <3> QED BY <1>1, <1>2, <1>3, <2>2, <3>1
    <2>3. CASE x # y
      <3>1. IsHost(y) /\ \E m \in SUBSET y.names : x = Host(y.address, m)
        BY <2>1, <2>3 DEF LinesLeft
      <3>2. PICK m \in SUBSET y.names : x = Host(y.address, m)
        BY <3>1
      <3>3. x.names = m /\ x.address = y.address
        BY <3>2 DEF Host
      <3>4. n \in SUBSET y.names
        BY <3>3
      <3>5. Host(y.address, n) \in LinesLeft(y)
        BY <3>1, <3>4 DEF LinesLeft
      <3> QED BY <1>1, <3>2, <3>3, <3>5
    <2> QED BY <2>2, <2>3
  <1>4. Reducible(L)
    <2> HIDE DEF L
    <2>1. ASSUME NEW x \in L, IsHost(x) PROVE x = Host(x.address, x.names)
      <3>1. {} \in SUBSET x.names
        OBVIOUS
      <3> QED BY <1>3, <2>1, <3>1
    <2> QED BY <1>3, <2>1 DEF Reducible
  <1>5. \A more : own \subseteq more => L \subseteq LinesWith(more)
    BY DEF LinesWith
  <1> QED BY <1>1, <1>4, <1>5 DEF LinesOf

LEMMA DesiredAreHosts ==
    ASSUME NEW c \in Configs, NEW l, NEW L, LinesOf(L)
    PROVE  Desired(c, l) \in Seq({x \in L : IsHost(x)})
  <1> DEFINE H == {x \in L : IsHost(x)}
             local(es) == [i \in DOMAIN es |-> [es[i] EXCEPT !.address = Loopback]]
  <1>1. ASSUME NEW b \in BlockNames PROVE local(EntriesOf[c][b]) \in Seq(H)
    <2> DEFINE es == EntriesOf[c][b]
    <2>1. es \in Seq(FrameworkEntries)
      BY EntriesAreHosts
    <2> HIDE DEF es
    <2>2. ASSUME NEW i \in DOMAIN es PROVE [es[i] EXCEPT !.address = Loopback] \in H
      <3>1. es[i] \in FrameworkEntries
        BY <2>1
      <3>2. es[i] = Host(es[i].address, es[i].names)
        BY <3>1, EntriesAreHosts
      <3>3. [es[i] EXCEPT !.address = Loopback] = Host(Loopback, es[i].names)
        <4>1. \A a, n : [Host(a, n) EXCEPT !.address = Loopback] = Host(Loopback, n)
          BY DEF Host
        <4> QED BY <3>2, <4>1
      <3>4. Host(Loopback, es[i].names) \in FrameworkLines
        BY <3>1 DEF FrameworkLines
      <3> QED BY <3>3, <3>4 DEF LinesOf, Host, IsHost
    <2>3. DOMAIN es = 1 .. Len(es) /\ Len(es) \in Nat
      BY <2>1
    <2> HIDE DEF H
    <2>4. local(es) \in [1 .. Len(es) -> H]
      BY <2>2, <2>3
    <2> QED BY <2>3, <2>4, SeqDef DEF es
  <1>2. Desired(c, l) = CASE l = 2 -> local(EntriesOf[c]["common"]) \o local(EntriesOf[c]["dataspace"])
                          [] l = 5 -> local(EntriesOf[c]["components"])
                          [] OTHER -> local(EntriesOf[c]["connectors"])
    BY DEF Desired
  <1> HIDE DEF local, H
  <1>3. /\ local(EntriesOf[c]["common"]) \in Seq(H) /\ local(EntriesOf[c]["dataspace"]) \in Seq(H)
        /\ local(EntriesOf[c]["components"]) \in Seq(H)
        /\ local(EntriesOf[c]["connectors"]) \in Seq(H)
    BY <1>1 DEF BlockNames
  <1>4. local(EntriesOf[c]["common"]) \o local(EntriesOf[c]["dataspace"]) \in Seq(H)
    BY <1>3
  <1> QED BY <1>2, <1>3, <1>4 DEF H

---------------------------------------------------------------------------
(* What the steps of manage_hosts_entries keep *)

LEMMA RenamedKeeps ==
    ASSUME NEW L, NEW f \in Seq(L), NEW entries, NEW l, HeaderOf(l) \in L
    PROVE  /\ Renamed(f, entries, HeaderOf(l)) \in Seq(L)
           /\ \A X : DefaultHeader \notin X /\ Keeps(f, X)
                     => Keeps(Renamed(f, entries, HeaderOf(l)), X)
  <1> DEFINE g == Renamed(f, entries, HeaderOf(l))
             I == DOMAIN f
             h == [i \in I |-> i]
  <1>1. DOMAIN f = 1 .. Len(f) /\ Len(f) \in Nat
    OBVIOUS
  <1>2. DOMAIN g = DOMAIN f
        /\ \A i \in DOMAIN f : g[i] = f[i] \/ (f[i] = DefaultHeader /\ g[i] = HeaderOf(l))
    BY DEF Renamed
  <1>3. g = [i \in DOMAIN f |-> g[i]]
    BY DEF Renamed
  <1> HIDE DEF g
  <1>4. g \in Seq(L)
    <2>1. \A i \in DOMAIN f : g[i] \in L
      BY <1>2
    <2>2. g \in [1 .. Len(f) -> L]
      BY <1>1, <1>3, <2>1
    <2> QED BY <1>1, <2>2, SeqDef
  <1>5. ASSUME NEW i \in DOMAIN f PROVE Alike(f[i], g[i])
    <2>1. CASE g[i] = f[i]
      BY <2>1 DEF Alike
    <2>2. CASE f[i] = DefaultHeader /\ g[i] = HeaderOf(l)
      <3>1. ~IsHost(f[i]) /\ \A b : f[i] # Begin(b) /\ f[i] # End(b)
        BY <2>2, Marks DEF DefaultHeader
      <3>2. \A b : g[i] # Begin(b) /\ g[i] # End(b)
        BY <2>2, HeadersAreComments
      <3> QED BY <3>1, <3>2 DEF Alike
    <2> QED BY <1>2, <2>1, <2>2
  <1>6. ASSUME NEW X, DefaultHeader \notin X, Keeps(f, X) PROVE Keeps(g, X)
    <2>1. WholeBlocks(f, I)
      BY <1>1 DEF WholeBlocks
    <2>2. /\ I \subseteq DOMAIN f
          /\ \A i \in I : h[i] \in DOMAIN g /\ Alike(f[i], g[h[i]])
          /\ \A i, j \in I : i < j => h[i] < h[j]
          /\ \A k \in DOMAIN g : \E i \in I : h[i] = k
          /\ \A i \in DOMAIN f : f[i] \in X => i \in I /\ g[h[i]] = f[i]
      BY <1>2, <1>5, <1>6
    <2> HIDE DEF I, h
    <2>3. Carries(f, g, I, h, X)
      BY <2>1, <2>2 DEF Carries
    <2> QED BY <1>4, <1>6, <2>3, Carried
  <1> QED BY <1>4, <1>6 DEF g

LEMMA CleanedKeeps ==
    ASSUME NEW L, NEW f \in Seq(L),
           NEW j \in Jobs, j.op = "manage", HeaderOf(j.level) # DefaultHeader
    PROVE  LET new == Cleaned(f, Desired(j.config, j.level), HeaderOf(j.level)) IN
           /\ new \in Seq(L)
           /\ \A X : Unclaimed(X) /\ Keeps(f, X) => Keeps(new, X)
  <1> DEFINE entries == Desired(j.config, j.level)
             I == {i \in DOMAIN f : (\E e \in ToSet(entries) : Matches(f[i], e))
                                    => HeaderAbove(f, i) = HeaderOf(j.level)}
  <1>1. Cleaned(f, entries, HeaderOf(j.level)) = Only(f, I) /\ I \subseteq DOMAIN f
    BY DEF Cleaned
  <1>2. \A i \in DOMAIN f : i \in I \/ \E e \in ToSet(entries) : Matches(f[i], e)
    OBVIOUS
  <1>3. \A i \in DOMAIN f : i \in I \/ (IsHost(f[i]) /\ Claimed(f[i]))
    <2> HIDE DEF I
    <2> SUFFICES ASSUME NEW i \in DOMAIN f, i \notin I PROVE IsHost(f[i]) /\ Claimed(f[i])
      OBVIOUS
    <2>1. PICK e \in ToSet(entries) : Matches(f[i], e)
      BY <1>2
    <2>2. IsHost(f[i])
      BY <2>1 DEF Matches
    <2> QED BY <2>1, <2>2 DEF Claimed
  <1> HIDE DEF I, entries
  <1>4. Only(f, I) \in Seq(L)
    BY <1>1, OnlyThose
  <1>5. WholeBlocks(f, I)
    <2>1. \A k \in I : k \in 1 .. Len(f)
      BY <1>1
    <2>2. \A k \in I : \A e \in k + 1 .. Len(f) : e \in DOMAIN f
      BY <2>1
    <2> QED BY <1>3, <2>2, Marks DEF WholeBlocks
  <1>6. ASSUME NEW X, Unclaimed(X), Keeps(f, X) PROVE Keeps(Only(f, I), X)
    <2>1. \A i \in DOMAIN f : f[i] \in X => i \in I
      BY <1>3, <1>6 DEF Unclaimed
    <2>2. \A i \in I : Alike(f[i], f[i])
      BY DEF Alike
    <2> QED BY <1>1, <1>5, <1>6, <2>1, <2>2, OnlyKeeps
  <1> QED BY <1>1, <1>4, <1>6 DEF entries

\* Hosts may be put between any two lines.
LEMMA InsertKeeps ==
    ASSUME NEW L, NEW f \in Seq(L), NEW hosts \in Seq(L),
           \A i \in DOMAIN hosts : IsHost(hosts[i]), NEW at \in 0 .. Len(f)
    PROVE  LET new == SubSeq(f, 1, at) \o hosts \o SubSeq(f, at + 1, Len(f)) IN
           /\ new \in Seq(L)
           /\ \A X : Keeps(f, X) => Keeps(new, X)
  <1> DEFINE a == SubSeq(f, 1, at)
             z == SubSeq(f, at + 1, Len(f))
             n == Len(hosts)
             g == a \o hosts \o z
             I == DOMAIN f
             h == [i \in I |-> IF i <= at THEN i ELSE i + n]
  <1>1. Len(f) \in Nat /\ n \in Nat /\ at \in Nat /\ at <= Len(f)
        /\ DOMAIN f = 1 .. Len(f) /\ DOMAIN hosts = 1 .. n
    OBVIOUS
  <1>2. a \in Seq(L) /\ Len(a) = at /\ \A i \in 1 .. at : a[i] = f[i]
    BY <1>1
  <1>3. z \in Seq(L) /\ Len(z) = Len(f) - at /\ \A i \in 1 .. Len(f) - at : z[i] = f[at + i]
    <2>1. \A i \in at + 1 .. Len(f) : f[i] \in L
      BY <1>1
    <2>2. /\ z \in Seq(L)
          /\ Len(z) = IF at + 1 <= Len(f) THEN Len(f) - (at + 1) + 1 ELSE 0
          /\ \A i \in 1 .. Len(f) - (at + 1) + 1 : z[i] = f[(at + 1) + i - 1]
      BY <1>1, <2>1, SubSeqProperties
    <2> HIDE DEF z
    <2>3. Len(z) = Len(f) - at
      <3>1. CASE at = Len(f)
        <4>1. ~(at + 1 <= Len(f)) /\ Len(f) - at = 0
          BY <1>1, <3>1
        <4> QED BY <2>2, <4>1
      <3>2. CASE at < Len(f)
        <4>1. at + 1 <= Len(f) /\ Len(f) - (at + 1) + 1 = Len(f) - at
          BY <1>1, <3>2
        <4> QED BY <2>2, <4>1
      <3>3. at = Len(f) \/ at < Len(f)
        <4>1. \A m, k \in Nat : m <= k => m = k \/ m < k
          OBVIOUS
        <4> QED BY <1>1, <4>1
      <3> QED BY <3>1, <3>2, <3>3
    <2>4. ASSUME NEW i \in 1 .. Len(f) - at PROVE z[i] = f[at + i]
      <3>1. i \in 1 .. Len(f) - (at + 1) + 1 /\ (at + 1) + i - 1 = at + i
        BY <1>1
      <3>2. z[i] = f[(at + 1) + i - 1]
        BY <2>2, <3>1
      <3> QED BY <3>1, <3>2
    <2> QED BY <2>2, <2>3, <2>4
  <1>4. g \in Seq(L)
    BY <1>2, <1>3
  <1>5. /\ Len(g) = Len(f) + n
        /\ \A i \in 1 .. at : g[i] = f[i]
        /\ \A i \in at + 1 .. at + n : IsHost(g[i])
        /\ \A i \in at + 1 .. Len(f) : g[i + n] = f[i]
    <2> HIDE DEF a, z, n
    <2> DEFINE ah == a \o hosts
    <2>1. /\ ah \in Seq(L) /\ Len(ah) = at + n
          /\ \A i \in 1 .. at + n : ah[i] = IF i <= at THEN a[i] ELSE hosts[i - at]
      BY <1>1, <1>2, ConcatProperties DEF n
    <2> HIDE DEF ah
    <2>2. g = ah \o z
      BY DEF ah
    <2>3. /\ Len(ah \o z) = Len(ah) + Len(z)
          /\ \A i \in 1 .. Len(ah) + Len(z) :
                (ah \o z)[i] = IF i <= Len(ah) THEN ah[i] ELSE z[i - Len(ah)]
      BY <1>3, <2>1, ConcatProperties
    <2>4. Len(g) = Len(f) + n
      BY <1>1, <1>3, <2>1, <2>2, <2>3
    <2>5. \A i \in 1 .. at + n : g[i] = IF i <= at THEN a[i] ELSE hosts[i - at]
      BY <1>1, <1>3, <2>1, <2>2, <2>3
    <2>6. \A i \in (at + n) + 1 .. Len(f) + n : g[i] = z[i - (at + n)]
      BY <1>1, <1>3, <2>1, <2>2, <2>3
    <2> HIDE DEF g
    <2>8. \A i \in 1 .. at : g[i] = f[i]
      BY <1>1, <1>2, <2>5
    <2>9. ASSUME NEW i \in at + 1 .. at + n PROVE IsHost(g[i])
      <3>1. i - at \in 1 .. n /\ ~(i <= at) /\ i \in 1 .. at + n
        BY <1>1
      <3>2. g[i] = hosts[i - at]
        BY <2>5, <3>1
      <3> QED BY <1>1, <3>1, <3>2
    <2>10. ASSUME NEW i \in at + 1 .. Len(f) PROVE g[i + n] = f[i]
      <3>1. /\ i - at \in 1 .. Len(f) - at /\ at + (i - at) = i
            /\ i + n \in (at + n) + 1 .. Len(f) + n /\ (i + n) - (at + n) = i - at
        BY <1>1
      <3> QED BY <1>3, <2>6, <3>1
    <2> QED BY <2>4, <2>8, <2>9, <2>10
  <1>6. DOMAIN g = 1 .. Len(g)
    BY <1>4
  <1> HIDE DEF g, n, a, z
  <1>7. ASSUME NEW i \in I PROVE h[i] \in DOMAIN g /\ g[h[i]] = f[i]
    <2>1. CASE i <= at
      BY <1>1, <1>5, <1>6, <2>1
    <2>2. CASE i > at
      <3>1. h[i] = i + n /\ i \in at + 1 .. Len(f) /\ i + n \in 1 .. Len(f) + n
        BY <1>1, <2>2
      <3> QED BY <1>5, <1>6, <3>1
    <2> QED BY <1>1, <2>1, <2>2
  <1>8. \A i, j \in I : i < j => h[i] < h[j]
    BY <1>1
  <1>9. ASSUME NEW k \in DOMAIN g PROVE IsHost(g[k]) \/ \E i \in I : h[i] = k
    <2>1. CASE k <= at
      <3>1. k \in I /\ h[k] = k
        BY <1>1, <1>6, <2>1
      <3> QED BY <3>1
    <2>2. CASE k \in at + 1 .. at + n
      BY <1>5, <2>2
    <2>3. CASE k > at + n
      <3>1. k - n \in I /\ k - n > at /\ (k - n) + n = k
        BY <1>1, <1>5, <1>6, <2>3
      <3>2. h[k - n] = k
        BY <1>1, <3>1
      <3> QED BY <3>1, <3>2
    <2> QED BY <1>1, <1>5, <1>6, <2>1, <2>2, <2>3
  <1>10. WholeBlocks(f, I)
    BY <1>1 DEF WholeBlocks
  <1>11. \A i \in I : Alike(f[i], g[h[i]])
    BY <1>7 DEF Alike
  <1>12. ASSUME NEW X, Keeps(f, X) PROVE Keeps(g, X)
    <2>1. I \subseteq DOMAIN f /\ \A i \in DOMAIN f : i \in I
      OBVIOUS
    <2> HIDE DEF h, I
    <2>2. Carries(f, g, I, h, X)
      BY <1>7, <1>8, <1>9, <1>10, <1>11, <2>1 DEF Carries
    <2> QED BY <1>4, <1>12, <2>2, Carried
  <1> QED BY <1>4, <1>12 DEF g, a, z

LEMMA HeaderFits ==
    ASSUME NEW L, LinesOf(L), NEW j \in Jobs
    PROVE  Blank \in L /\ HeaderOf(j.level) \in L
  BY DEF LinesOf, FrameworkLines

LEMMA UnmarkedIsClosed ==
    ASSUME NEW S, NEW f \in Seq(S), \A x \in S : \A b \in BlockNames : x # Begin(b)
    PROVE  Closed(f)
  BY DEF Closed

LEMMA AddedIsClosed ==
    ASSUME NEW L, LinesOf(L), NEW j \in Jobs, NEW f
    PROVE  /\ Added(f, j.config, j.level) \in Seq(L)
           /\ Closed(Added(f, j.config, j.level))
  <1> DEFINE entries == Desired(j.config, j.level)
             I == {i \in DOMAIN entries : ~Present(f, entries[i])}
             missing == Only(entries, I)
             h == HeaderOf(j.level)
             H == {x \in L : IsHost(x)}
             U == H \cup {Blank, h}
  <1>1. entries \in Seq(H) /\ I \subseteq DOMAIN entries
    BY DesiredAreHosts, JobsAssumption
  <1>2. Blank \in L /\ h \in L
    BY HeaderFits
  <1>3. Added(f, j.config, j.level) = IF missing = <<>> THEN <<>> ELSE <<Blank, h>> \o missing
    BY DEF Added
  <1>4. missing \in Seq(H)
    <2> HIDE DEF entries, I, H
    <2> QED BY <1>1, OnlyThose
  <1>5. \A x \in U : \A b \in BlockNames : x # Begin(b)
    BY Marks, HeadersAreComments
  <1>6. U \subseteq L
    BY <1>2
  <1> HIDE DEF missing, h
  <1>7. missing \in Seq(U)
    <2>1. H \subseteq U
      OBVIOUS
    <2> HIDE DEF U, H
    <2> QED BY <1>4, <2>1
  <1>8. Blank \in U /\ h \in U
    OBVIOUS
  <1> HIDE DEF U
  <1>9. <<Blank, h>> \o missing \in Seq(U) /\ <<>> \in Seq(U)
    BY <1>7, <1>8
  <1>10. Added(f, j.config, j.level) \in Seq(U)
    BY <1>3, <1>9
  <1> HIDE DEF entries
  <1>11. Added(f, j.config, j.level) \in Seq(L)
    BY <1>6, <1>10
  <1> QED BY <1>5, <1>10, <1>11, UnmarkedIsClosed

LEMMA MigratedKeeps ==
    ASSUME NEW L, LinesOf(L), NEW f \in Seq(L),
           NEW j \in Jobs, j.op = "manage", HeaderOf(j.level) # DefaultHeader
    PROVE  LET new == Migrated(f, j.config, j.level) IN
           /\ new \in Seq(L)
           /\ \A X : Unclaimed(X) /\ Keeps(f, X) => Keeps(new, X)
  <1> DEFINE h == HeaderOf(j.level)
             entries == Desired(j.config, j.level)
             renamed == Renamed(f, entries, h)
             cleaned == Cleaned(renamed, entries, h)
             I == {i \in DOMAIN entries : ~PresentUnder(cleaned, entries[i], h)}
             absent == Only(entries, I)
             ready == IF h \in ToSet(cleaned) THEN cleaned
                      ELSE (IF cleaned # <<>> /\ Last(cleaned) # Blank
                            THEN Append(cleaned, Blank) ELSE cleaned) \o <<h>>
             top == SelectLastInSeq(ready, LAMBDA x : x = h)
             next == SelectInSubSeq(ready, top + 1, Len(ready), IsComment)
             at == IF next = 0 THEN Len(ready) ELSE next - 1
             all == SubSeq(ready, 1, at) \o absent \o SubSeq(ready, at + 1, Len(ready))
             new == IF absent = <<>> THEN cleaned ELSE all
  <1>1. Migrated(f, j.config, j.level) = TrimEnd(new)
    BY DEF Migrated
  <1>2. Blank \in L /\ h \in L
    BY HeaderFits
  <1>3. /\ renamed \in Seq(L)
        /\ \A X : DefaultHeader \notin X /\ Keeps(f, X) => Keeps(renamed, X)
    BY <1>2, RenamedKeeps
  <1> HIDE DEF renamed
  <1>4. /\ cleaned \in Seq(L)
        /\ \A X : Unclaimed(X) /\ Keeps(renamed, X) => Keeps(cleaned, X)
    BY <1>3, CleanedKeeps
  <1> HIDE DEF cleaned
  <1>5. absent \in Seq(L) /\ \A i \in DOMAIN absent : IsHost(absent[i])
    <2> DEFINE H == {x \in L : IsHost(x)}
    <2>1. entries \in Seq(H) /\ I \subseteq DOMAIN entries
      BY DesiredAreHosts, JobsAssumption
    <2>2. \A x \in H : x \in L /\ IsHost(x)
      OBVIOUS
    <2> HIDE DEF entries, I, H
    <2>3. absent \in Seq(H)
      BY <2>1, OnlyThose
    <2> HIDE DEF absent
    <2> QED BY <2>2, <2>3
  <1>6. ready \in Seq(L) /\ \A X : Keeps(cleaned, X) => Keeps(ready, X)
    <2> DEFINE spaced == IF cleaned # <<>> /\ Last(cleaned) # Blank
                         THEN Append(cleaned, Blank) ELSE cleaned
    <2>1. <<Blank>> \in Seq(L) /\ <<h>> \in Seq(L)
      BY <1>2
    <2>2. Closed(<<Blank>>) /\ Closed(<<h>>)
      <3>1. <<Blank>> \in Seq({Blank}) /\ <<h>> \in Seq({h})
        OBVIOUS
      <3>2. \A x \in {Blank} \cup {h} : \A b \in BlockNames : x # Begin(b)
        BY Marks, HeadersAreComments
      <3> QED BY <3>1, <3>2, UnmarkedIsClosed
    <2>3. spaced = cleaned \/ spaced = cleaned \o <<Blank>>
      BY <1>4
    <2>4. ready = cleaned \/ ready = spaced \o <<h>>
      OBVIOUS
    <2> HIDE DEF h, spaced, ready
    <2>5. spaced \in Seq(L) /\ \A X : Keeps(cleaned, X) => Keeps(spaced, X)
      <3>1. cleaned \o <<Blank>> \in Seq(L)
        BY <1>4, <2>1
      <3>2. \A X : Keeps(cleaned, X) => Keeps(cleaned \o <<Blank>>, X)
        BY <1>4, <2>1, <2>2, AppendKeeps
      <3> QED BY <1>4, <2>3, <3>1, <3>2
    <2>6. spaced \o <<h>> \in Seq(L)
      BY <2>1, <2>5
    <2>7. \A X : Keeps(spaced, X) => Keeps(spaced \o <<h>>, X)
      BY <2>1, <2>2, <2>5, AppendKeeps
    <2> QED BY <1>4, <2>4, <2>5, <2>6, <2>7
  <1> HIDE DEF ready
  <1>7. Len(ready) \in Nat
    BY <1>6
  <1>8. top \in 0 .. Len(ready)
    <2> DEFINE T == {i \in 1 .. Len(ready) : ready[i] = h}
    <2>1. top = IF T # {} THEN Max(T) ELSE 0
      BY DEF SelectLastInSeq
    <2>2. T \subseteq 0 .. Len(ready)
      BY <1>7
    <2> HIDE DEF T, top
    <2>3. CASE T # {}
      <3>1. \E m \in T : \A k \in T : m >= k
        BY <1>7, <2>2, <2>3, GreatestNumber
      <3>2. Max(T) \in T
        BY <3>1 DEF Max
      <3> QED BY <2>1, <2>2, <2>3, <3>2
    <2> QED BY <1>7, <2>1, <2>3
  <1> HIDE DEF top
  <1>9. next \in 0 .. Len(ready)
    <2> DEFINE T == {i \in top + 1 .. Len(ready) : IsComment(ready[i])}
    <2>1. next = IF T # {} THEN Min(T) ELSE 0
      BY DEF SelectInSubSeq
    <2>2. T \subseteq 0 .. Len(ready) /\ T \subseteq Nat
      BY <1>7, <1>8
    <2> HIDE DEF T, next
    <2>3. CASE T # {}
      <3>1. \E m \in T : \A k \in T : m <= k
        BY <2>2, <2>3, LeastNumber
      <3>2. Min(T) \in T
        BY <3>1 DEF Min
      <3> QED BY <2>1, <2>2, <2>3, <3>2
    <2> QED BY <1>7, <2>1, <2>3
  <1> HIDE DEF next
  <1>10. at \in 0 .. Len(ready)
    BY <1>7, <1>9
  <1> HIDE DEF at, absent
  <1>11. all \in Seq(L) /\ \A X : Keeps(ready, X) => Keeps(all, X)
    BY <1>5, <1>6, <1>10, InsertKeeps
  <1> HIDE DEF all
  <1>12. new \in Seq(L) /\ \A X : Keeps(cleaned, X) => Keeps(new, X)
    BY <1>4, <1>6, <1>11
  <1> HIDE DEF new
  <1>13. /\ TrimEnd(new) \in Seq(L)
         /\ \A X : Blank \notin X /\ Keeps(new, X) => Keeps(TrimEnd(new), X)
    BY <1>12, TrimEndKeeps
  <1>14. \A X : Unclaimed(X) => DefaultHeader \notin X /\ Blank \notin X
    BY DEF Unclaimed, Plain
  <1> QED BY <1>1, <1>3, <1>4, <1>12, <1>13, <1>14

---------------------------------------------------------------------------
(* The invariant *)

\* The user's lines that the framework has no reason to touch.
Untouched == {x \in mine : ~Claimed(x)}

IInv ==
    /\ TypeOK
    /\ \A p \in Processes : pc[p] = "read" => job[p] \in Jobs
    /\ tears = 0 /\ ~raced => Keeps(file, Untouched)

LEMMA UntouchedIsUnclaimed ==
    ASSUME mine \subseteq OwnLines
    PROVE  Unclaimed(Untouched)
  <1>1. Plain(Untouched) /\ DefaultHeader \notin Untouched
    BY OwnLinesArePlain DEF Plain, Untouched
  <1>2. \A x \in Untouched : ~Claimed(x) /\ (IsHost(x) => x.names # {})
    BY OwnLinesArePlain DEF Untouched
  <1> QED BY <1>1, <1>2 DEF Unclaimed

\* What a run writes is made of the same lines, and keeps what it was made from.
LEMMA ContentKeeps ==
    ASSUME NEW p \in Processes, TypeOK, job[p] \in Jobs
    PROVE  /\ Content(p) \in Seq(LinesWith(mine))
           /\ \A X : Unclaimed(X) /\ Keeps(IF Replaces(p) THEN seen[p] ELSE file, X)
                     => Keeps(Content(p), X)
  <1> DEFINE j == job[p]
             L == LinesWith(mine)
  <1>1. LinesOf(L) /\ file \in Seq(L) /\ seen[p] \in Seq(L)
    BY LinesFit DEF TypeOK, OwnLines
  <1>2. j \in Jobs /\ j.op \in {"apply", "manage"} /\ j.config \in Configs
    BY JobsAssumption
  <1> HIDE DEF L
  <1>3. CASE j.op = "apply"
    <2>1. Content(p) = Merged(seen[p], j.config, j.level) /\ Replaces(p)
      BY <1>3 DEF Content, Replaces
    <2> QED BY <1>1, <1>2, <2>1, MergedKeeps DEF L
  <1>4. CASE j.op # "apply" /\ Replaces(p)
    <2>1. Content(p) = Migrated(seen[p], j.config, j.level) /\ HeaderOf(j.level) # DefaultHeader
      BY <1>4 DEF Content, Replaces, Migrates
    <2>2. j.op = "manage"
      BY <1>2, <1>4
    <2> HIDE DEF j
    <2>3. LET new == Migrated(seen[p], j.config, j.level) IN
          /\ new \in Seq(L)
          /\ \A X : Unclaimed(X) /\ Keeps(seen[p], X) => Keeps(new, X)
      BY <1>1, <1>2, <2>1, <2>2, MigratedKeeps
    <2> QED BY <1>4, <2>1, <2>3 DEF L
  <1>5. CASE j.op # "apply" /\ ~Replaces(p)
    <2> DEFINE added == Added(seen[p], j.config, j.level)
    <2>1. Content(p) = file \o added
      BY <1>5 DEF Content
    <2>2. added \in Seq(L) /\ Closed(added)
      BY <1>1, <1>2, AddedIsClosed
    <2> HIDE DEF added
    <2>3. file \o added \in Seq(L)
      BY <1>1, <2>2
    <2>4. \A X : Keeps(file, X) => Keeps(file \o added, X)
      BY <1>1, <2>2, AppendKeeps
    <2> QED BY <1>5, <2>1, <2>3, <2>4 DEF L
  <1> QED BY <1>3, <1>4, <1>5

LEMMA InitInv == Init => IInv
  <1> SUFFICES ASSUME Init PROVE IInv
    OBVIOUS
  <1>1. file \in FirstFiles /\ mine = ToSet(file) \ {Blank} /\ file \in Seq(mine \cup {Blank})
    <2>1. file \in Seq(ToSet(file)) /\ ToSet(file) \subseteq (ToSet(file) \ {Blank}) \cup {Blank}
      BY UserAssumption DEF Init
    <2> QED BY <2>1 DEF Init
  <1>2. mine \subseteq OwnLines
    <2> DEFINE first == UNION {ToSet(f) : f \in FirstFiles}
    <2>1. ToSet(file) \subseteq first
      BY <1>1
    <2>2. OwnLines = UserLines \cup (first \ {Blank})
      BY DEF OwnLines
    <2> HIDE DEF first
    <2> QED BY <1>1, <2>1, <2>2
  <1>3. mine \cup {Blank} \subseteq LinesWith(mine)
    BY <1>2, LinesFit DEF LinesOf, FrameworkLines
  <1>4. TypeOK
    <2>1. file \in Seq(LinesWith(mine)) /\ <<>> \in Seq(LinesWith(mine))
      <3> DEFINE own == mine \cup {Blank}
      <3>1. file \in Seq(own) /\ own \subseteq LinesWith(mine)
        BY <1>1, <1>3
      <3> HIDE DEF own
      <3> QED BY <3>1
    <2>2. seen \in [Processes -> Seq(LinesWith(mine))]
      BY <2>1 DEF Init
    <2>3. runs \in 0 .. MaxRuns /\ tears \in 0 .. MaxTears /\ raced \in BOOLEAN
      <3>1. 0 \in 0 .. MaxRuns /\ 0 \in 0 .. MaxTears
        BY BoundsAssumption
      <3> QED BY <3>1 DEF Init
    <2> QED BY <1>2, <2>1, <2>2, <2>3 DEF Init, TypeOK, OwnLines
  <1>5. Keeps(file, Untouched)
    <2>1. \A i \in DOMAIN file : \A b : file[i] # Begin(b)
      BY <1>1, <1>2, OwnLinesArePlain, Marks DEF Plain
    <2>2. DOMAIN file = 1 .. Len(file) /\ Len(file) \in Nat
      BY <1>1
    <2>3. Closed(file)
      BY <2>1 DEF Closed
    <2>4. \A i \in DOMAIN file : Outside(file, i)
      <3>1. \A i \in DOMAIN file : \A k \in 1 .. i - 1 : k \in DOMAIN file
        BY <2>2
      <3> QED BY <2>1, <3>1 DEF Outside, InBlock
    <2>5. \A x \in mine : \E i \in DOMAIN file : file[i] = x
      BY <1>1 DEF ToSet
    <2> QED BY <2>3, <2>4, <2>5 DEF Keeps, Untouched
  <1> QED BY <1>4, <1>5 DEF Init, IInv

LEMMA NextInv == IInv /\ [Next]_vars => IInv'
  <1> SUFFICES ASSUME IInv, [Next]_vars PROVE IInv'
    OBVIOUS
  <1>1. /\ TypeOK /\ mine \subseteq OwnLines
        /\ \A p \in Processes : pc[p] = "read" => job[p] \in Jobs
        /\ tears = 0 /\ ~raced => Keeps(file, Untouched)
    BY DEF IInv, TypeOK, OwnLines
  <1>2. ASSUME NEW p \in Processes, NEW j \in Jobs, Read(p, j) PROVE IInv'
    <2>1. TypeOK'
      BY <1>1, <1>2, BoundsAssumption DEF TypeOK, Read
    <2>2. UNCHANGED <<file, Untouched, tears, raced>>
      BY <1>2 DEF Read, Untouched
    <2>3. \A q \in Processes : pc'[q] = "read" => job'[q] \in Jobs
      BY <1>1, <1>2 DEF Read, TypeOK
    <2> QED BY <1>1, <2>1, <2>2, <2>3 DEF IInv
  \* The end of a run, whatever it leaves in the file.
  <1>3. ASSUME NEW p \in Processes, Rest(p), file' \in Seq(LinesWith(mine)),
               tears' \in 0 .. MaxTears, raced' \in BOOLEAN,
               tears' = 0 /\ ~raced' => Keeps(file', Untouched)
        PROVE  IInv'
    <2>1. TypeOK'
      BY <1>1, <1>3 DEF TypeOK, Rest
    <2>2. Untouched' = Untouched
      BY <1>3 DEF Rest, Untouched
    <2>3. \A q \in Processes : pc'[q] = "read" => job'[q] \in Jobs
      BY <1>1, <1>3 DEF Rest, TypeOK
    <2> QED BY <1>3, <2>1, <2>2, <2>3 DEF IInv
  <1>4. ASSUME NEW p \in Processes, pc[p] = "read"
        PROVE  /\ Content(p) \in Seq(LinesWith(mine))
               /\ Keeps(IF Replaces(p) THEN seen[p] ELSE file, Untouched)
                     => Keeps(Content(p), Untouched)
    <2>1. job[p] \in Jobs
      BY <1>1, <1>4
    <2>2. Unclaimed(Untouched)
      BY <1>1, UntouchedIsUnclaimed
    <2> QED BY <1>1, <2>1, <2>2, ContentKeeps
  <1>5. ASSUME NEW p \in Processes, Write(p) PROVE IInv'
    <2> DEFINE new == Content(p)
               changed == new # seen[p]
    <2>1. /\ pc[p] = "read" /\ Rest(p) /\ tears' = tears
          /\ file' = IF changed THEN new ELSE file
          /\ raced' = (raced \/ (changed /\ file # seen[p] /\ Replaces(p)))
      BY <1>5 DEF Write
    <2>2. /\ new \in Seq(LinesWith(mine))
          /\ Keeps(IF Replaces(p) THEN seen[p] ELSE file, Untouched) => Keeps(new, Untouched)
      BY <1>4, <2>1
    <2> HIDE DEF new
    <2>3. file' \in Seq(LinesWith(mine)) /\ tears' \in 0 .. MaxTears
      BY <1>1, <2>1, <2>2 DEF TypeOK
    <2>4. raced' \in BOOLEAN
      <3>1. raced \in BOOLEAN
        BY <1>1 DEF TypeOK
      <3> QED BY <2>1, <3>1
    <2>5. ASSUME tears' = 0, ~raced' PROVE Keeps(file', Untouched)
      <3>1. tears = 0 /\ ~raced /\ ~(changed /\ file # seen[p] /\ Replaces(p))
        BY <2>1, <2>5
      <3>2. Keeps(file, Untouched)
        BY <1>1, <3>1
      <3>3. CASE changed
        <4>1. (IF Replaces(p) THEN seen[p] ELSE file) = file
          BY <3>1, <3>3
        <4> QED BY <2>1, <2>2, <3>2, <3>3, <4>1
      <3> QED BY <2>1, <3>2, <3>3
    <2> QED BY <1>3, <2>1, <2>3, <2>4, <2>5
  <1>6. ASSUME NEW p \in Processes, Tear(p) PROVE IInv'
    <2>1. /\ pc[p] = "read" /\ tears < MaxTears /\ tears' = tears + 1
          /\ Rest(p) /\ raced' = raced
      BY <1>6 DEF Tear
    <2>2. Content(p) \in Seq(LinesWith(mine))
      BY <1>4, <2>1
    <2>3. PICK k \in (IF Replaces(p) THEN 0 ELSE Len(file)) .. Len(Content(p)) :
              file' = SubSeq(Content(p), 1, k)
      BY <1>6 DEF Tear
    <2>4. Len(file) \in Nat
      BY <1>1 DEF TypeOK
    <2>5. k \in 0 .. Len(Content(p))
      BY <2>3, <2>4
    <2> DEFINE new == Content(p)
    <2> HIDE DEF new
    <2>6. file' \in Seq(LinesWith(mine))
      <3>1. new \in Seq(LinesWith(mine)) /\ k \in 0 .. Len(new) /\ file' = SubSeq(new, 1, k)
        BY <2>2, <2>3, <2>5 DEF new
      <3> QED BY <3>1
    <2>7. tears' \in 0 .. MaxTears /\ tears' # 0 /\ raced' \in BOOLEAN
      <3>1. tears \in 0 .. MaxTears /\ raced \in BOOLEAN
        BY <1>1 DEF TypeOK
      <3>2. tears' \in 0 .. MaxTears /\ tears' # 0
        BY <2>1, <3>1, BoundsAssumption
      <3> QED BY <2>1, <3>1, <3>2
    <2> QED BY <1>3, <2>1, <2>6, <2>7
  <1>7. ASSUME NEW p \in Processes, Refuse(p) PROVE IInv'
    <2>1. Rest(p) /\ UNCHANGED <<file, tears, raced>>
      BY <1>7 DEF Refuse
    <2> QED BY <1>1, <1>3, <2>1 DEF TypeOK
  <1>8. ASSUME NEW x \in UserLines, UserAdds(x) PROVE IInv'
    <2> DEFINE L == LinesWith(mine')
    <2>1. /\ mine' = mine \cup {x} /\ file' = Append(file, x)
          /\ UNCHANGED <<pc, job, seen, runs, tears, raced>>
      BY <1>8 DEF UserAdds
    <2>2. mine' \subseteq OwnLines /\ x \in OwnLines
      BY <1>1, <2>1 DEF OwnLines
    <2>3. LinesWith(mine) \subseteq L /\ x \in L
      <3>1. mine' \subseteq L
        BY <2>2, LinesFit
      <3> QED BY <1>1, <2>1, <3>1, LinesFit
    <2> HIDE DEF L
    <2>4. file \in Seq(L) /\ seen \in [Processes -> Seq(L)]
      <3>1. Seq(LinesWith(mine)) \subseteq Seq(L)
        BY <2>3
      <3> QED BY <1>1, <3>1 DEF TypeOK
    <2>5. file' \in Seq(L)
      BY <2>1, <2>3, <2>4
    <2>6. TypeOK'
      BY <1>1, <2>1, <2>2, <2>4, <2>5 DEF TypeOK, L, OwnLines
    <2>7. ASSUME tears' = 0, ~raced' PROVE Keeps(file', Untouched')
      <3>1. Keeps(file, Untouched)
        BY <1>1, <2>1, <2>7
      <3>2. \A b \in BlockNames : x # Begin(b)
        BY <2>2, OwnLinesArePlain DEF Plain
      <3>3. Keeps(Append(file, x), Untouched \cup {x})
        BY <2>3, <2>4, <3>1, <3>2, UserLineKept
      <3>4. Untouched' \subseteq Untouched \cup {x}
        BY <2>1 DEF Untouched
      <3> QED BY <2>1, <3>3, <3>4 DEF Keeps
    <2> QED BY <1>1, <2>1, <2>6, <2>7 DEF IInv
  <1>9. CASE UNCHANGED vars
    BY <1>1, <1>9 DEF vars, IInv, TypeOK, Untouched
  <1> QED BY <1>2, <1>5, <1>6, <1>7, <1>8, <1>9 DEF Next

\* The invariant: the file is made of the framework's lines and the user's, a process
\* that has read it has a run to do, and, unless a write was torn or a run replaced a
\* file that had changed, every BEGIN line has its END line with only hosts between
\* them and each line of the user that the framework does not claim stands outside of
\* the blocks.
THEOREM Invariant == Spec => []IInv
  <1> QED BY InitInv, NextInv, PTL DEF Spec

\* The types hold for any processes, runs, configurations and lines of the user: no
\* rewriting of the file makes a line that is not the framework's or the user's, but for
\* hostnames that are taken out.
THEOREM TypeCorrect == Spec => []TypeOK
  <1>1. IInv => TypeOK
    BY DEF IInv
  <1> QED BY <1>1, Invariant, PTL

\* No sequence of runs, of both kinds, for any levels and configurations, loses a line of
\* the user with no hostname that the framework claims, unless a write was torn or a run
\* replaced a file that had changed since it was read (remove_managed_blocks,
\* remove_hostnames, migrate_hosts_section).
THEOREM LinesSurvive == Spec => []UserLinesSurvive
  <1>1. IInv => UserLinesSurvive
    <2> SUFFICES ASSUME IInv, tears = 0, ~raced, NEW x \in mine, ~Claimed(x)
                 PROVE  x \in ToSet(file)
      BY DEF UserLinesSurvive
    <2>1. x \in Untouched /\ Keeps(file, Untouched)
      BY DEF IInv, Untouched
    <2> QED BY <2>1 DEF Keeps, ToSet
  <1> QED BY <1>1, Invariant, PTL

---------------------------------------------------------------------------
(* What apply_managed_blocks makes of any file, closed blocks or not *)

Trimmed(f) == f # <<>> => f[Len(f)] # Blank

LEMMA TrimEndTrims ==
    ASSUME NEW S, NEW f \in Seq(S)
    PROVE  /\ TrimEnd(f) \in Seq(S) /\ Trimmed(TrimEnd(f))
           /\ \A k \in DOMAIN TrimEnd(f) : k \in DOMAIN f /\ TrimEnd(f)[k] = f[k]
           /\ Trimmed(f) => TrimEnd(f) = f
  <1>1. PICK n \in 0 .. Len(f) : /\ TrimEnd(f) = SubSeq(f, 1, n)
                                 /\ \A i \in n + 1 .. Len(f) : f[i] = Blank
                                 /\ n # 0 => f[n] # Blank
    BY TrimEndCuts
  <1>0. n \in Nat /\ n \in 0 .. Len(f) /\ Len(f) \in Nat
    OBVIOUS
  <1> DEFINE g == TrimEnd(f)
  <1>2. g \in Seq(S) /\ Len(g) = n /\ DOMAIN f = 1 .. Len(f) /\ Len(f) \in Nat /\ DOMAIN g = 1 .. n
        /\ \A i \in 1 .. n : g[i] = f[i]
    BY <1>1
  <1> HIDE DEF g
  <1>3. \A k \in DOMAIN g : k \in DOMAIN f /\ g[k] = f[k]
    BY <1>2
  <1>4. Trimmed(g)
    <2> SUFFICES ASSUME g # <<>> PROVE g[n] # Blank
      BY <1>2 DEF Trimmed
    <2>1. n # 0
      BY <1>2
    <2>2. n \in 1 .. n
      BY <2>1
    <2> QED BY <1>1, <1>2, <2>1, <2>2
  <1>5. ASSUME Trimmed(f) PROVE g = f
    <2>1. n = Len(f)
      <3> SUFFICES ASSUME n # Len(f) PROVE FALSE
        OBVIOUS
      <3>1. Len(f) \in n + 1 .. Len(f) /\ Len(f) # 0
        <4>1. \A m, k \in Nat : m \in 0 .. k /\ m # k => k \in m + 1 .. k /\ k # 0
          OBVIOUS
        <4> QED BY <1>0, <4>1
      <3>2. f # <<>> /\ f[Len(f)] = Blank
        BY <1>1, <3>1
      <3> QED BY <1>5, <3>2 DEF Trimmed
    <2>2. f \in Seq(S) /\ Len(g) = Len(f) /\ \A i \in 1 .. Len(f) : g[i] = f[i]
      BY <1>2, <2>1
    <2> QED BY <1>2, <2>2, SeqEqual
  <1> QED BY <1>2, <1>3, <1>4, <1>5 DEF g

\* The lines that remove_managed_blocks keeps.
Kept(f, names) ==
    {i \in DOMAIN f : SkippingUntil(f, names)[i - 1] = None /\ SkippingUntil(f, names)[i] = None}

LEMMA NoMarkIsNone ==
    ASSUME NEW b
    PROVE  Begin(b) # None /\ End(b) # None
  BY DEF Begin, End, None

\* What the reader waits for depends on the lines so far.
LEMMA UntilOfPrefix ==
    ASSUME NEW S, NEW f \in Seq(S), NEW T, NEW g \in Seq(T), Len(f) <= Len(g),
           \A i \in 1 .. Len(f) : g[i] = f[i], NEW names
    PROVE  \A i \in 0 .. Len(f) : SkippingUntil(g, names)[i] = SkippingUntil(f, names)[i]
  <1> DEFINE u == SkippingUntil(f, names)
             v == SkippingUntil(g, names)
             Q == {i \in Nat : i <= Len(f) => v[i] = u[i]}
  <1>1. Len(f) \in Nat /\ Len(g) \in Nat
    OBVIOUS
  <1>2. u[0] = None /\ \A i \in 1 .. Len(f) : u[i] = UntilAfter(f[i], u[i - 1], names)
    BY <1>1, SkippingStep
  <1>3. v[0] = None /\ \A i \in 1 .. Len(g) : v[i] = UntilAfter(g[i], v[i - 1], names)
    BY <1>1, SkippingStep
  <1> HIDE DEF u, v
  <1>4. 0 \in Q
    BY <1>2, <1>3
  <1>5. \A i \in Nat : i \in Q => i + 1 \in Q
    <2> SUFFICES ASSUME NEW i \in Nat, i \in Q, i + 1 <= Len(f) PROVE v[i + 1] = u[i + 1]
      OBVIOUS
    <2>1. i + 1 \in 1 .. Len(f) /\ i + 1 \in 1 .. Len(g) /\ (i + 1) - 1 = i /\ v[i] = u[i]
      BY <1>1
    <2>2. g[i + 1] = f[i + 1]
      BY <2>1
    <2> QED BY <1>2, <1>3, <2>1, <2>2
  <1>6. Nat \subseteq Q
    <2> HIDE DEF Q
    <2> QED BY <1>4, <1>5, Induct
  <1>7. \A i \in 0 .. Len(f) : v[i] = u[i]
    BY <1>1, <1>6
  <1> QED BY <1>7 DEF u, v

\* Nothing is removed from a file without a BEGIN line of those blocks.
LEMMA NothingToSkip ==
    ASSUME NEW S, NEW f \in Seq(S), NEW names,
           \A i \in DOMAIN f : \A b \in names : f[i] # Begin(b)
    PROVE  \A i \in 0 .. Len(f) : SkippingUntil(f, names)[i] = None
  <1> SUFFICES ASSUME NEW i \in 0 .. Len(f), SkippingUntil(f, names)[i] # None PROVE FALSE
    OBVIOUS
  <1>1. PICK b \in names, k \in 1 .. i : f[k] = Begin(b)
    BY WaitsInBlock
  <1>2. k \in DOMAIN f
    OBVIOUS
  <1> QED BY <1>1, <1>2

\* What is left holds none either.
LEMMA WithoutBlocksLines ==
    ASSUME NEW S, NEW f \in Seq(S), NEW names, names # {}
    PROVE  LET new == WithoutBlocks(f, names) IN
           /\ new \in Seq(S) /\ Trimmed(new)
           /\ \A i \in DOMAIN new : \A b \in names : new[i] # Begin(b)
  <1> DEFINE I == Kept(f, names)
             o == Only(f, I)
  <1>1. WithoutBlocks(f, names) = TrimEnd(o)
    BY DEF WithoutBlocks, Kept
  <1>2. I \subseteq DOMAIN f /\ Len(f) \in Nat /\ DOMAIN f = 1 .. Len(f)
    BY DEF Kept
  <1>3. /\ o \in Seq(S)
        /\ \A i \in I : o[Rank(I, i)] = f[i]
        /\ \A k \in DOMAIN o : \E i \in I : Rank(I, i) = k
    <2> HIDE DEF I
    <2> QED BY <1>2, OnlyThose
  <1>4. ASSUME NEW i \in I, NEW b \in names PROVE f[i] # Begin(b)
    <2> SUFFICES ASSUME f[i] = Begin(b) PROVE FALSE
      OBVIOUS
    <2>1. i \in 1 .. Len(f) /\ SkippingUntil(f, names)[i - 1] = None
          /\ SkippingUntil(f, names)[i] = None
      BY <1>2 DEF Kept
    <2>2. SkippingUntil(f, names)[i] = UntilAfter(f[i], SkippingUntil(f, names)[i - 1], names)
      BY <1>2, <2>1, SkippingStep
    <2>3. UntilAfter(f[i], None, names) = End(f[i].block)
      BY DEF UntilAfter
    <2> QED BY <2>1, <2>2, <2>3, NoMarkIsNone
  <1> HIDE DEF I, o
  <1>5. /\ TrimEnd(o) \in Seq(S) /\ Trimmed(TrimEnd(o))
        /\ \A k \in DOMAIN TrimEnd(o) : k \in DOMAIN o /\ TrimEnd(o)[k] = o[k]
    BY <1>3, TrimEndTrims
  <1>6. \A k \in DOMAIN o : \A b \in names : o[k] # Begin(b)
    BY <1>3, <1>4
  <1> QED BY <1>1, <1>5, <1>6

\* A line without some hostnames.
Less(x, names) == IF IsHost(x) THEN Host(x.address, x.names \ names) ELSE x

LEMMA WithoutHostnamesLines ==
    ASSUME NEW L, Reducible(L), NEW f \in Seq(L), Trimmed(f), NEW names
    PROVE  LET new == WithoutHostnames(f, names) IN
           /\ new \in Seq(L) /\ Trimmed(new)
           /\ \A k \in DOMAIN new : \E i \in DOMAIN f : new[k] = Less(f[i], names)
  <1> DEFINE new == WithoutHostnames(f, names)
             less(x) == IF IsHost(x) THEN Host(x.address, x.names \ names) ELSE x
  <1> SUFFICES /\ new \in Seq(L) /\ Trimmed(new)
               /\ \A k \in DOMAIN new : \E i \in DOMAIN f : new[k] = less(f[i])
    <2>1. \A x : less(x) = Less(x, names)
      BY DEF Less
    <2> HIDE DEF less, new
    <2>2. /\ new \in Seq(L) /\ Trimmed(new)
          /\ \A k \in DOMAIN new : \E i \in DOMAIN f : new[k] = Less(f[i], names)
      BY <2>1
    <2> QED BY <2>2 DEF new
  <1>1. CASE names = {}
    <2>1. new = f
      BY <1>1 DEF WithoutHostnames
    <2>2. \A x \in L : less(x) = x
      <3> SUFFICES ASSUME NEW x \in L, IsHost(x) PROVE Host(x.address, x.names \ names) = x
        OBVIOUS
      <3>1. x = Host(x.address, x.names) /\ x.names \ names = x.names
        BY <1>1 DEF Reducible
      <3> QED BY <3>1
    <2>3. \A i \in DOMAIN f : f[i] \in L
      OBVIOUS
    <2> HIDE DEF less, new
    <2> QED BY <2>1, <2>2, <2>3
  <1>2. CASE names # {}
    <2> DEFINE g == [i \in DOMAIN f |-> less(f[i])]
               I == {i \in DOMAIN f : IsHost(f[i]) => less(f[i]).names # {}}
    <2>1. new = TrimEnd(Only(g, I))
      BY <1>2 DEF WithoutHostnames
    <2>2. DOMAIN g = DOMAIN f /\ I \subseteq DOMAIN f /\ \A i \in DOMAIN f : g[i] = less(f[i])
      OBVIOUS
    <2> DEFINE T == {less(f[i]) : i \in DOMAIN f}  o == Only(g, I)
    <2>3. g \in Seq(T)
      <3>1. DOMAIN f = 1 .. Len(f) /\ Len(f) \in Nat
        OBVIOUS
      <3>2. g \in [1 .. Len(f) -> T]
        BY <3>1
      <3> HIDE DEF g, T
      <3> QED BY <3>1, <3>2, SeqDef
    <2> HIDE DEF g, I, less, new, T
    <2>4. o \in Seq(T) /\ (\A i \in I : o[Rank(I, i)] = g[i])
          /\ \A k \in DOMAIN o : \E i \in I : Rank(I, i) = k
      BY <2>2, <2>3, OnlyThose
    <2> HIDE DEF o
    <2>5. /\ Trimmed(TrimEnd(o))
          /\ \A k \in DOMAIN TrimEnd(o) : k \in DOMAIN o /\ TrimEnd(o)[k] = o[k]
      BY <2>4, TrimEndTrims
    <2>6. new = TrimEnd(o) /\ new \in Seq(L)
      BY <2>1, WithoutHostnamesKeeps DEF o, new
    <2>7. ASSUME NEW k \in DOMAIN new PROVE \E i \in DOMAIN f : new[k] = less(f[i])
      <3>1. k \in DOMAIN o /\ new[k] = o[k]
        BY <2>5, <2>6
      <3>2. PICK i \in I : Rank(I, i) = k
        BY <2>4, <3>1
      <3> QED BY <2>2, <2>4, <3>1, <3>2
    <2> QED BY <2>5, <2>6, <2>7
  <1> QED BY <1>1, <1>2

\* The lines of g that are not in the blocks are base, and blank lines behind it.
Restores(g, base, names) ==
    /\ Len(base) <= Len(g) /\ SkippingUntil(g, names)[Len(g)] = None
    /\ \A i \in 1 .. Len(base) : i \in Kept(g, names) /\ g[i] = base[i]
    /\ \A i \in Kept(g, names) : i > Len(base) => g[i] = Blank

\* Then removing the blocks restores base.
LEMMA RestoresBase ==
    ASSUME NEW S, NEW g \in Seq(S), NEW base \in Seq(S), NEW names, names # {},
           Trimmed(base), Restores(g, base, names)
    PROVE  WithoutBlocks(g, names) = base
  <1> DEFINE I == Kept(g, names)
             o == Only(g, I)
             n == Len(base)
  <1>1. WithoutBlocks(g, names) = TrimEnd(o)
    BY DEF WithoutBlocks, Kept
  <1>2. /\ I \subseteq DOMAIN g /\ I \subseteq Nat
        /\ DOMAIN g = 1 .. Len(g) /\ Len(g) \in Nat /\ n \in Nat
    BY DEF Kept
  <1>3. /\ \A i \in 1 .. n : i \in I /\ g[i] = base[i]
        /\ \A i \in I : i > n => g[i] = Blank
    BY DEF Restores
  <1> HIDE DEF I
  <1>4. /\ o \in Seq(S)
        /\ \A i \in I : Rank(I, i) \in DOMAIN o /\ o[Rank(I, i)] = g[i]
        /\ \A k \in DOMAIN o : \E i \in I : Rank(I, i) = k
    BY <1>2, OnlyThose
  <1>5. \A i \in 0 .. n : Rank(I, i) = i
    <2> DEFINE Q == {i \in Nat : i <= n => Rank(I, i) = i}
    <2>1. 0 \in Q
      BY <1>2, UpToNext
    <2>2. \A i \in Nat : i \in Q => i + 1 \in Q
      <3> SUFFICES ASSUME NEW i \in Nat, i \in Q, i + 1 <= n PROVE Rank(I, i + 1) = i + 1
        OBVIOUS
      <3>1. i <= n /\ i + 1 \in 1 .. n
        BY <1>2
      <3>2. Rank(I, i) = i /\ i + 1 \in I
        BY <1>3, <3>1
      <3>3. Rank(I, i + 1) = IF i + 1 \in I THEN Rank(I, i) + 1 ELSE Rank(I, i)
        BY <1>2, UpToNext
      <3> QED BY <3>2, <3>3
    <2>3. Nat \subseteq Q
      <3> HIDE DEF Q
      <3> QED BY <2>1, <2>2, Induct
    <2> QED BY <1>2, <2>3
  <1>6. \A k \in 1 .. n : k \in DOMAIN o /\ o[k] = base[k]
    BY <1>3, <1>4, <1>5
  <1>7. DOMAIN o = 1 .. Len(o) /\ Len(o) \in Nat
    BY <1>4
  <1>8. ASSUME NEW k \in DOMAIN o, k > n PROVE o[k] = Blank
    <2>1. PICK i \in I : Rank(I, i) = k
      BY <1>4
    <2>2. i \in Nat /\ i # 0
      BY <1>2, <2>1, UpToNext
    <2>3. i > n
      <3>1. CASE i <= n
        <4>1. i \in 0 .. n
          BY <1>2, <2>2, <3>1
        <4>2. k = i
          BY <1>5, <2>1, <4>1
        <4> QED BY <1>8, <3>1, <4>2, <1>2, <2>2
      <3> QED BY <1>2, <2>2, <3>1
    <2> QED BY <1>3, <1>4, <2>1, <2>3
  <1> HIDE DEF o
  <1>9. PICK m \in 0 .. Len(o) : /\ TrimEnd(o) = SubSeq(o, 1, m)
                                 /\ \A i \in m + 1 .. Len(o) : o[i] = Blank
                                 /\ m # 0 => o[m] # Blank
    BY <1>4, TrimEndCuts
  <1>10. m \in Nat /\ m <= Len(o) /\ (m # 0 => m \in DOMAIN o)
    BY <1>7, <1>9
  <1>11. ~(m > n)
    BY <1>2, <1>8, <1>9, <1>10
  <1>12. ~(m < n)
    <2> SUFFICES ASSUME m < n PROVE FALSE
      OBVIOUS
    <2>1. n \in 1 .. n /\ n # 0
      BY <1>2, <1>10
    <2>2. n \in m + 1 .. Len(o) /\ o[n] = base[n]
      BY <1>2, <1>6, <1>7, <1>10, <2>1
    <2>3. base[n] = Blank
      BY <1>9, <2>2
    <2>4. base # <<>>
      BY <2>1
    <2> QED BY <2>3, <2>4 DEF Trimmed
  <1>13. m = n
    BY <1>2, <1>10, <1>11, <1>12
  <1>14. TrimEnd(o) \in Seq(S) /\ Len(TrimEnd(o)) = n /\ \A i \in 1 .. n : TrimEnd(o)[i] = base[i]
    <2>1. TrimEnd(o) = SubSeq(o, 1, n) /\ n \in 0 .. Len(o)
      BY <1>9, <1>13
    <2>2. SubSeq(o, 1, n) \in Seq(S) /\ Len(SubSeq(o, 1, n)) = n
          /\ \A i \in 1 .. n : SubSeq(o, 1, n)[i] = o[i]
      BY <1>4, <2>1
    <2> QED BY <1>6, <2>1, <2>2
  <1> QED BY <1>1, <1>14, SeqEqual

\* Where the lines of a new block are.
LEMMA UpsertedLines ==
    ASSUME NEW S, NEW g \in Seq(S), Trimmed(g), NEW entries \in Seq(S), NEW b
    PROVE  LET new == Upserted(g, b, entries)  n == Len(entries) IN
           \E m \in {Len(g), Len(g) + 1} :
              /\ new \in Seq(S \cup {Begin(b), End(b), Blank}) /\ Len(new) = m + n + 2
              /\ \A i \in 1 .. Len(g) : new[i] = g[i]
              /\ m = Len(g) + 1 => new[m] = Blank
              /\ new[m + 1] = Begin(b)
              /\ \A k \in 1 .. n : new[m + 1 + k] = entries[k]
              /\ new[m + n + 2] = End(b)
  <1> DEFINE T == S \cup {Begin(b), End(b), Blank}
             n == Len(entries)
             start == IF g = <<>> THEN <<>> ELSE Append(g, Blank)
             m == Len(start)
             new == ((start \o <<Begin(b)>>) \o entries) \o <<End(b)>>
  <1>1. Upserted(g, b, entries) = new
    <2>1. TrimEnd(g) = g
      BY TrimEndTrims
    <2> QED BY <2>1 DEF Upserted
  <1>2. S \subseteq T /\ Begin(b) \in T /\ End(b) \in T /\ Blank \in T
    OBVIOUS
  <1> HIDE DEF T
  <1>3. g \in Seq(T) /\ entries \in Seq(T)
    BY <1>2
  <1>4. /\ start \in Seq(T) /\ m \in {Len(g), Len(g) + 1}
        /\ \A i \in 1 .. Len(g) : start[i] = g[i]
        /\ m = Len(g) + 1 => start[m] = Blank
    <2>1. CASE g = <<>>
      BY <1>3, <2>1
    <2>2. CASE g # <<>>
      BY <1>2, <1>3, <2>2
    <2> QED BY <2>1, <2>2
  <1>5. Len(g) \in Nat /\ n \in Nat /\ m \in Nat /\ m >= Len(g)
    BY <1>3, <1>4
  <1> HIDE DEF start
  <1> DEFINE p == start \o <<Begin(b)>>
             q == p \o entries
  <1>6. /\ p \in Seq(T) /\ Len(p) = m + 1
        /\ \A i \in 1 .. m : p[i] = start[i]
        /\ p[m + 1] = Begin(b)
    BY <1>2, <1>4
  <1> HIDE DEF p
  <1>7. /\ q \in Seq(T) /\ Len(q) = (m + 1) + n
        /\ \A i \in 1 .. (m + 1) + n : q[i] = IF i <= m + 1 THEN p[i] ELSE entries[i - (m + 1)]
    <2>1. /\ q \in Seq(T) /\ Len(q) = Len(p) + Len(entries)
          /\ \A i \in 1 .. Len(p) + Len(entries) :
                q[i] = IF i <= Len(p) THEN p[i] ELSE entries[i - Len(p)]
      <3> HIDE DEF m, n
      <3> QED BY <1>3, <1>6, ConcatProperties
    <2> HIDE DEF q, m
    <2> QED BY <1>6, <2>1
  <1> HIDE DEF q
  <1>8. new = q \o <<End(b)>>
    BY DEF p, q
  <1> HIDE DEF new
  <1>9. /\ new \in Seq(T) /\ Len(new) = ((m + 1) + n) + 1
        /\ \A i \in 1 .. (m + 1) + n : new[i] = q[i]
        /\ new[((m + 1) + n) + 1] = End(b)
    <2> DEFINE z == <<End(b)>>
    <2>1. z \in Seq(T) /\ Len(z) = 1 /\ z[1] = End(b)
      BY <1>2
    <2> HIDE DEF z, m, n
    <2>2. /\ q \o z \in Seq(T) /\ Len(q \o z) = Len(q) + Len(z)
          /\ \A i \in 1 .. Len(q) + Len(z) :
                (q \o z)[i] = IF i <= Len(q) THEN q[i] ELSE z[i - Len(q)]
      BY <1>7, <2>1, ConcatProperties
    <2>3. new = q \o z
      BY <1>8 DEF z
    <2>4. Len(q) = (m + 1) + n /\ Len(q) \in Nat
      BY <1>5, <1>7
    <2> QED BY <2>1, <2>2, <2>3, <2>4
  <1> HIDE DEF m, n
  <1>10. Len(new) = m + n + 2 /\ new[m + n + 2] = End(b)
    <2>1. ((m + 1) + n) + 1 = m + n + 2
      BY <1>5
    <2> QED BY <1>9, <2>1
  <1>11. \A i \in 1 .. m + 1 : new[i] = p[i]
    BY <1>5, <1>7, <1>9
  <1>12. \A k \in 1 .. n : new[m + 1 + k] = entries[k]
    <2> SUFFICES ASSUME NEW k \in 1 .. n PROVE new[m + 1 + k] = entries[k]
      OBVIOUS
    <2>1. /\ m + 1 + k \in 1 .. (m + 1) + n /\ ~(m + 1 + k <= m + 1)
          /\ (m + 1 + k) - (m + 1) = k
      BY <1>5
    <2> QED BY <1>7, <1>9, <2>1
  <1>13. \A i \in 1 .. Len(g) : new[i] = g[i]
    <2>1. \A i \in 1 .. Len(g) : i \in 1 .. m + 1 /\ i \in 1 .. m
      BY <1>5
    <2> QED BY <1>4, <1>6, <1>11, <2>1
  <1>14. new[m + 1] = Begin(b) /\ (m = Len(g) + 1 => new[m] = Blank)
    <2>1. m + 1 \in 1 .. m + 1 /\ (m = Len(g) + 1 => m \in 1 .. m /\ m \in 1 .. m + 1)
      BY <1>5
    <2> QED BY <1>4, <1>6, <1>11, <2>1 DEF m
  <1>15. m \in {Len(g), Len(g) + 1}
    BY <1>4 DEF m
  <1> QED BY <1>1, <1>9, <1>10, <1>12, <1>13, <1>14, <1>15 DEF T, n

LEMMA UpsertedRestores ==
    ASSUME NEW S, NEW g \in Seq(S), Trimmed(g), NEW base \in Seq(S),
           NEW entries \in Seq(S), \A i \in DOMAIN entries : IsHost(entries[i]),
           NEW names, NEW b \in names, Restores(g, base, names)
    PROVE  /\ Trimmed(Upserted(g, b, entries))
           /\ Restores(Upserted(g, b, entries), base, names)
  <1> DEFINE new == Upserted(g, b, entries)
             n == Len(entries)
             T == S \cup {Begin(b), End(b), Blank}
             G == Len(g)
             W == Len(new)
             B == Len(base)
             u == SkippingUntil(new, names)
             v == SkippingUntil(g, names)
  <1>1. PICK m \in {Len(g), Len(g) + 1} :
              /\ new \in Seq(T) /\ Len(new) = m + n + 2
              /\ \A i \in 1 .. Len(g) : new[i] = g[i]
              /\ m = Len(g) + 1 => new[m] = Blank
              /\ new[m + 1] = Begin(b)
              /\ \A k \in 1 .. n : new[m + 1 + k] = entries[k]
              /\ new[m + n + 2] = End(b)
    BY UpsertedLines
  <1>2. /\ DOMAIN new = 1 .. W /\ DOMAIN g = 1 .. G
        /\ \A k \in 1 .. n : IsHost(entries[k])
    BY <1>1
  <1>a. /\ G \in Nat /\ n \in Nat /\ m \in Nat /\ W \in Nat /\ B \in Nat
        /\ (m = G \/ m = G + 1) /\ W = m + n + 2
    BY <1>1
  <1>b. Len(g) <= Len(new)
    <2> HIDE DEF G, W
    <2>1. G <= W
      BY <1>a
    <2> QED BY <2>1 DEF G, W
  <1>c. \A i \in 1 .. Len(g) : new[i] = g[i]
    BY <1>1
  <1> HIDE DEF new, T, n
  <1>g. new \in Seq(T)
    BY <1>1
  <1>3. \A i \in 0 .. G : u[i] = v[i]
    <2>1. \A i \in 0 .. Len(g) : SkippingUntil(new, names)[i] = SkippingUntil(g, names)[i]
      BY <1>b, <1>c, <1>g, UntilOfPrefix
    <2> QED BY <2>1
  <1>4. \A i \in 1 .. W : u[i] = UntilAfter(new[i], u[i - 1], names)
    <2>1. W \in Nat
      BY <1>a
    <2> QED BY <2>1, SkippingStep
  <1>5. /\ B <= G /\ v[G] = None
        /\ \A i \in 1 .. B : i \in Kept(g, names) /\ g[i] = base[i]
        /\ \A i \in Kept(g, names) : i > B => g[i] = Blank
    BY DEF Restores
  <1>6. \A i \in Kept(g, names) : i \in 1 .. G /\ v[i - 1] = None /\ v[i] = None
    BY <1>2 DEF Kept
  <1>7. \A i \in 1 .. G : v[i - 1] = None /\ v[i] = None => i \in Kept(g, names)
    BY <1>2 DEF Kept
  <1>8. Kept(new, names) = {i \in 1 .. W : u[i - 1] = None /\ u[i] = None}
    BY <1>2 DEF Kept
  <1>d. new[m + 1] = Begin(b) /\ new[W] = End(b) /\ (m = G + 1 => new[m] = Blank)
        /\ \A k \in 1 .. n : new[m + 1 + k] = entries[k]
    BY <1>1
  <1>e. /\ \A i \in 1 .. G : new[i] = g[i]
        /\ \A k \in 1 .. n : IsHost(entries[k])
    BY <1>1, <1>2
  <1> HIDE DEF u, v, G, W, B
  <1>f. B <= G
    BY <1>5
  <1>9. u[m] = None
    <2>1. u[G] = None
      BY <1>a, <1>f, <1>3, <1>5
    <2>2. CASE m = G + 1
      <3>1. m \in 1 .. W /\ m - 1 = G /\ new[m] = Blank
        BY <1>a, <1>d, <1>e, <2>2
      <3>2. u[m] = UntilAfter(Blank, None, names)
        BY <1>4, <2>1, <3>1
      <3> QED BY <3>2, Marks DEF UntilAfter
    <2> QED BY <1>a, <1>d, <1>e, <2>1, <2>2
  <1>10. u[m + 1] = End(b)
    <2>1. m + 1 \in 1 .. W /\ (m + 1) - 1 = m
      BY <1>a, <1>d, <1>e
    <2>2. u[m + 1] = UntilAfter(Begin(b), None, names)
      BY <1>a, <1>d, <1>e, <1>4, <1>9, <2>1
    <2>3. Begin(b).block = b
      BY DEF Begin
    <2> QED BY <2>2, <2>3 DEF UntilAfter
  <1>11. \A k \in 0 .. n : u[m + 1 + k] = End(b)
    <2> DEFINE Q == {k \in Nat : k <= n => u[m + 1 + k] = End(b)}
    <2>1. 0 \in Q
      BY <1>a, <1>f, <1>10
    <2>2. \A k \in Nat : k \in Q => k + 1 \in Q
      <3> SUFFICES ASSUME NEW k \in Nat, k \in Q, k + 1 <= n
                   PROVE  u[m + 1 + (k + 1)] = End(b)
        OBVIOUS
      <3>1. /\ u[m + 1 + k] = End(b) /\ (m + 1 + (k + 1)) - 1 = m + 1 + k
            /\ k + 1 \in 1 .. n /\ m + 1 + (k + 1) \in 1 .. m + n + 2
        BY <1>a, <1>f
      <3>2. IsHost(new[m + 1 + (k + 1)])
        BY <1>a, <1>d, <1>e, <3>1
      <3>3. u[m + 1 + (k + 1)] = UntilAfter(new[m + 1 + (k + 1)], End(b), names)
        BY <1>a, <1>d, <1>e, <1>4, <3>1
      <3> QED BY <3>2, <3>3, Marks, NoMarkIsNone DEF UntilAfter
    <2>3. Nat \subseteq Q
      <3> HIDE DEF Q
      <3> QED BY <2>1, <2>2, Induct
    <2>4. \A k \in 0 .. n : k \in Nat /\ k <= n
      BY <1>a
    <2> QED BY <2>3, <2>4
  <1>12. u[m + n + 2] = None
    <2>1. /\ m + n + 2 \in 1 .. W /\ (m + n + 2) - 1 = m + 1 + n /\ n \in 0 .. n
      BY <1>a, <1>d, <1>e
    <2>2. u[m + 1 + n] = End(b) /\ new[m + n + 2] = End(b)
      BY <1>a, <1>d, <1>11, <2>1
    <2>3. u[m + n + 2] = UntilAfter(new[m + n + 2], u[(m + n + 2) - 1], names)
      BY <1>4, <2>1
    <2>4. u[m + n + 2] = UntilAfter(End(b), End(b), names)
      BY <2>1, <2>2, <2>3
    <2> QED BY <2>4, NoMarkIsNone DEF UntilAfter
  <1>13. ASSUME NEW i \in Kept(new, names)
         PROVE  i \in Kept(g, names) \/ (i = G + 1 /\ new[i] = Blank)
    <2>1. i \in 1 .. W /\ u[i - 1] = None /\ u[i] = None
      BY <1>8
    <2>2. CASE i <= G
      <3>1. i \in 1 .. G /\ i - 1 \in 0 .. G /\ i \in 0 .. G
        BY <1>a, <1>f, <2>1, <2>2
      <3> QED BY <1>3, <1>7, <2>1, <3>1
    <2>3. CASE i > G /\ i <= m
      BY <1>a, <1>d, <1>e, <2>1, <2>3
    <2>4. CASE i > m /\ i <= m + 1 + n
      <3>1. i - (m + 1) \in 0 .. n /\ m + 1 + (i - (m + 1)) = i
        BY <1>a, <1>f, <2>1, <2>4
      <3>2. u[i] = End(b)
        BY <1>11, <3>1
      <3> QED BY <2>1, <3>2, NoMarkIsNone
    <2>5. CASE i > m + 1 + n
      <3>1. i - 1 = m + 1 + n /\ n \in 0 .. n
        BY <1>a, <1>d, <1>e, <2>1, <2>5
      <3>2. u[i - 1] = End(b)
        BY <1>11, <3>1
      <3> QED BY <2>1, <3>2, NoMarkIsNone
    <2> QED BY <1>a, <1>f, <2>1, <2>2, <2>3, <2>4, <2>5
  <1>14. \A i \in 1 .. B : i \in Kept(new, names) /\ new[i] = base[i]
    <2> SUFFICES ASSUME NEW i \in 1 .. B
                 PROVE  i \in Kept(new, names) /\ new[i] = base[i]
      OBVIOUS
    <2>1. i \in 1 .. G /\ i \in 1 .. W /\ i - 1 \in 0 .. G /\ i \in 0 .. G
      BY <1>a, <1>f, <1>5
    <2>2. v[i - 1] = None /\ v[i] = None /\ g[i] = base[i]
      BY <1>5, <1>6
    <2> QED BY <1>a, <1>d, <1>e, <1>3, <1>8, <2>1, <2>2
  <1>15. \A i \in Kept(new, names) : i > B => new[i] = Blank
    BY <1>a, <1>d, <1>e, <1>5, <1>6, <1>13
  <1>16. Restores(new, base, names)
    <2>1. u[W] = None /\ B <= W
      BY <1>a, <1>d, <1>e, <1>5, <1>12
    <2> QED BY <1>14, <1>15, <2>1 DEF Restores, u, W, B
  <1>17. Trimmed(new)
    <2>1. new[W] # Blank
      BY <1>d, Marks
    <2> QED BY <2>1 DEF Trimmed, W
  <1> QED BY <1>16, <1>17 DEF new

\* Behind the first n lines, the hosts are those of the entries ms of the blocks done, each
\* in its block, and no two have a name in common.
Placed(g, n, ms, done) ==
    /\ \A i \in DOMAIN g : i > n /\ IsHost(g[i]) =>
          \E b \in done : InBlock(g, i, b) /\ g[i] \in ToSet(ms[b])
    /\ \A b \in done : \A e \in ToSet(ms[b]) :
          \E i \in DOMAIN g : i > n /\ g[i] = e /\ InBlock(g, i, b)
    /\ \A i, j \in DOMAIN g :
          i > n /\ j > n /\ IsHost(g[i]) /\ IsHost(g[j]) /\ g[i].names \cap g[j].names # {}
              => i = j

\* The entries for block b have no name in common, nor one with those of other blocks.
Apart(ms, b, done) ==
    /\ \A x, y \in DOMAIN ms[b] : ms[b][x].names \cap ms[b][y].names # {} => x = y
    /\ \A d \in done : \A e \in ToSet(ms[d]) : \A x \in DOMAIN ms[b] :
          e.names \cap ms[b][x].names = {}

LEMMA UpsertedPlaces ==
    ASSUME NEW S, NEW g \in Seq(S), Trimmed(g), NEW low \in Nat, low <= Len(g),
           NEW ms, NEW b, ms[b] \in Seq(S), \A i \in DOMAIN ms[b] : IsHost(ms[b][i]),
           NEW done, Placed(g, low, ms, done), Apart(ms, b, done)
    PROVE  Placed(Upserted(g, b, ms[b]), low, ms, done \cup {b})
  <1> DEFINE entries == ms[b]
             new == Upserted(g, b, entries)
             n == Len(entries)
             T == S \cup {Begin(b), End(b), Blank}
             G == Len(g)
             W == Len(new)
  <1>1. PICK m \in {Len(g), Len(g) + 1} :
              /\ new \in Seq(T) /\ Len(new) = m + n + 2
              /\ \A i \in 1 .. Len(g) : new[i] = g[i]
              /\ m = Len(g) + 1 => new[m] = Blank
              /\ new[m + 1] = Begin(b)
              /\ \A k \in 1 .. n : new[m + 1 + k] = entries[k]
              /\ new[m + n + 2] = End(b)
    <2>1. entries \in Seq(S)
      OBVIOUS
    <2> HIDE DEF entries
    <2> QED BY <2>1, UpsertedLines
  <1>2. DOMAIN new = 1 .. W /\ DOMAIN g = 1 .. G /\ DOMAIN entries = 1 .. n
    BY <1>1
  <1>3. /\ G \in Nat /\ n \in Nat /\ m \in Nat /\ W \in Nat /\ low \in Nat /\ low <= G
        /\ (m = G \/ m = G + 1) /\ W = m + n + 2
    BY <1>1
  <1>4. /\ \A i \in 1 .. G : new[i] = g[i]
        /\ m = G + 1 => new[m] = Blank
        /\ new[m + 1] = Begin(b) /\ new[W] = End(b)
        /\ \A k \in 1 .. n : new[m + 1 + k] = entries[k]
    BY <1>1
  <1>5. /\ \A i \in DOMAIN g : i > low /\ IsHost(g[i]) =>
              \E d \in done : InBlock(g, i, d) /\ g[i] \in ToSet(ms[d])
        /\ \A d \in done : \A e \in ToSet(ms[d]) :
              \E i \in DOMAIN g : i > low /\ g[i] = e /\ InBlock(g, i, d)
        /\ \A i, j \in DOMAIN g :
              i > low /\ j > low /\ IsHost(g[i]) /\ IsHost(g[j]) /\ g[i].names \cap g[j].names # {}
                  => i = j
    BY DEF Placed
  <1>6. /\ \A x, y \in DOMAIN entries : entries[x].names \cap entries[y].names # {} => x = y
        /\ \A d \in done : \A e \in ToSet(ms[d]) : \A x \in DOMAIN entries :
              e.names \cap entries[x].names = {}
    BY DEF Apart
  <1>7. /\ \A k \in 1 .. n : IsHost(entries[k])
        /\ ToSet(ms[b]) = {entries[k] : k \in 1 .. n}
    BY <1>2 DEF ToSet
  <1> HIDE DEF new, T, n, G, W, entries
  \* The lines before the block stand in the blocks that they stood in.
  <1>8. ASSUME NEW i \in 1 .. G, NEW d, InBlock(g, i, d) PROVE InBlock(new, i, d)
    <2>1. \A k \in 1 .. i - 1 : k \in 1 .. G /\ \A l \in k + 1 .. i - 1 : l \in 1 .. G
      BY <1>3
    <2> QED BY <1>4, <1>8, <2>1 DEF InBlock
  <1>9. ASSUME NEW k \in 1 .. n
        PROVE  /\ m + 1 + k \in 1 .. W /\ m + 1 + k > low
               /\ new[m + 1 + k] = entries[k] /\ IsHost(entries[k])
               /\ InBlock(new, m + 1 + k, b)
    <2>1. m + 1 + k \in 1 .. W /\ m + 1 + k > low
      BY <1>3
    <2>2. m + 1 \in 1 .. (m + 1 + k) - 1
      BY <1>3
    <2>3. \A l \in (m + 1) + 1 .. (m + 1 + k) - 1 : l - (m + 1) \in 1 .. n /\ m + 1 + (l - (m + 1)) = l
      BY <1>3
    <2>4. \A l \in (m + 1) + 1 .. (m + 1 + k) - 1 : IsHost(new[l])
      BY <1>4, <1>7, <2>3
    <2>5. InBlock(new, m + 1 + k, b)
      BY <1>4, <2>2, <2>4, Marks DEF InBlock
    <2> QED BY <1>4, <1>7, <2>1, <2>5
  \* A host is a line of g or an entry of the block.
  <1>10. ASSUME NEW i \in 1 .. W, IsHost(new[i])
         PROVE  i \in 1 .. G \/ \E k \in 1 .. n : i = m + 1 + k
    <2>1. i # m + 1 /\ i # W /\ ~(m = G + 1 /\ i = m)
      BY <1>4, <1>10, Marks
    <2>2. CASE i > m + 1
      <3>1. i - (m + 1) \in 1 .. n /\ i = m + 1 + (i - (m + 1))
        BY <1>3, <2>1, <2>2
      <3> QED BY <3>1
    <2>3. CASE i < m + 1
      BY <1>3, <2>1, <2>3
    <2>4. i < m + 1 \/ i > m + 1
      BY <1>3, <2>1
    <2> QED BY <2>2, <2>3, <2>4
  <1>11. ASSUME NEW i \in 1 .. W, i > low, IsHost(new[i])
         PROVE  \E d \in done \cup {b} : InBlock(new, i, d) /\ new[i] \in ToSet(ms[d])
    <2>1. CASE i \in 1 .. G
      <3>1. PICK d \in done : InBlock(g, i, d) /\ g[i] \in ToSet(ms[d])
        BY <1>2, <1>4, <1>5, <1>11, <2>1
      <3> QED BY <1>4, <1>8, <2>1, <3>1
    <2>2. CASE \E k \in 1 .. n : i = m + 1 + k
      <3>1. PICK k \in 1 .. n : i = m + 1 + k
        BY <2>2
      <3>2. InBlock(new, i, b) /\ new[i] = entries[k]
        BY <1>9, <3>1
      <3> QED BY <1>7, <3>2
    <2> QED BY <1>10, <1>11, <2>1, <2>2
  <1>12. ASSUME NEW d \in done \cup {b}, NEW e \in ToSet(ms[d])
         PROVE  \E i \in 1 .. W : i > low /\ new[i] = e /\ InBlock(new, i, d)
    <2>1. CASE d \in done
      <3>1. PICK i \in 1 .. G : i > low /\ g[i] = e /\ InBlock(g, i, d)
        BY <1>2, <1>5, <2>1
      <3>2. i \in 1 .. W
        BY <1>3
      <3> QED BY <1>4, <1>8, <3>1, <3>2
    <2>2. CASE d = b
      <3>1. PICK k \in 1 .. n : e = entries[k]
        BY <1>7, <2>2
      <3>2. m + 1 + k \in 1 .. W /\ m + 1 + k > low /\ new[m + 1 + k] = e /\ InBlock(new, m + 1 + k, d)
        BY <1>9, <2>2, <3>1
      <3> QED BY <3>2
    <2> QED BY <2>1, <2>2
  \* A name of an entry is in no other line behind the first ones.
  <1>13. ASSUME NEW i \in 1 .. G, i > low, IsHost(new[i]), NEW k \in 1 .. n
         PROVE  new[i].names \cap new[m + 1 + k].names = {}
    <2>1. PICK d \in done : g[i] \in ToSet(ms[d])
      BY <1>2, <1>4, <1>5, <1>13
    <2>2. new[i] = g[i] /\ new[m + 1 + k] = entries[k]
      BY <1>4
    <2> QED BY <1>2, <1>6, <2>1, <2>2
  <1>14. ASSUME NEW i \in 1 .. W, NEW j \in 1 .. W, i > low, j > low, IsHost(new[i]), IsHost(new[j]),
                new[i].names \cap new[j].names # {}
         PROVE  i = j
    <2>1. CASE i \in 1 .. G /\ j \in 1 .. G
      <3>1. new[i] = g[i] /\ new[j] = g[j]
        BY <1>4, <2>1
      <3> QED BY <1>2, <1>5, <1>14, <2>1, <3>1
    <2>2. CASE i \in 1 .. G /\ \E k \in 1 .. n : j = m + 1 + k
      BY <1>13, <1>14, <2>2
    <2>3. CASE j \in 1 .. G /\ \E k \in 1 .. n : i = m + 1 + k
      <3>1. PICK k \in 1 .. n : i = m + 1 + k
        BY <2>3
      <3>2. new[j].names \cap new[m + 1 + k].names = {}
        BY <1>13, <1>14, <2>3
      <3>3. new[i].names \cap new[j].names = {}
        BY <3>1, <3>2
      <3> QED BY <1>14, <3>3
    <2>4. CASE \E k, l \in 1 .. n : i = m + 1 + k /\ j = m + 1 + l
      <3>1. PICK k \in 1 .. n, l \in 1 .. n : i = m + 1 + k /\ j = m + 1 + l
        BY <2>4
      <3>2. entries[k].names \cap entries[l].names # {}
        BY <1>4, <1>14, <3>1
      <3>3. k = l
        BY <1>2, <1>6, <3>2
      <3> QED BY <3>1, <3>3
    <2>5. i \in 1 .. G \/ \E k \in 1 .. n : i = m + 1 + k
      BY <1>10, <1>14
    <2>6. j \in 1 .. G \/ \E k \in 1 .. n : j = m + 1 + k
      BY <1>10, <1>14
    <2> QED BY <2>1, <2>2, <2>3, <2>4, <2>5, <2>6
  <1>15. Placed(new, low, ms, done \cup {b})
    BY <1>2, <1>11, <1>12, <1>14 DEF Placed
  <1> QED BY <1>15 DEF new, entries

LEMMA MissingLines ==
    ASSUME NEW c \in Configs, NEW b \in BlockNames, NEW f
    PROVE  LET entries == EntriesOf[c][b]  ms == Missing(entries, f) IN
           /\ \A e : e \in ToSet(ms) <=> e \in ToSet(entries) /\ e.names \cap HostnamesIn(f) = {}
           /\ \A x, y \in DOMAIN ms : ms[x].names \cap ms[y].names # {} => x = y
           /\ \A d \in BlockNames : d # b => \A e \in ToSet(EntriesOf[c][d]) : \A x \in DOMAIN ms :
                 e.names \cap ms[x].names = {}
  <1> DEFINE entries == EntriesOf[c][b]
             I == {i \in DOMAIN entries : entries[i].names \cap HostnamesIn(f) = {}}
             ms == Only(entries, I)
  <1>1. Missing(entries, f) = ms
    BY DEF Missing
  <1>2. entries \in Seq(FrameworkEntries) /\ I \subseteq DOMAIN entries
    BY EntriesAreHosts
  <1>3. /\ \A i \in I : Rank(I, i) \in DOMAIN ms /\ ms[Rank(I, i)] = entries[i]
        /\ \A k \in DOMAIN ms : \E i \in I : Rank(I, i) = k
    <2> HIDE DEF I, entries
    <2> QED BY <1>2, OnlyThose
  <1>4. \A i, k \in I : entries[i].names \cap entries[k].names # {} => i = k
    BY <1>2, HostnamesAssumption
  <1>5. \A d \in BlockNames : d # b => \A e \in ToSet(EntriesOf[c][d]) : \A i \in I :
           e.names \cap entries[i].names = {}
    <2> SUFFICES ASSUME NEW d \in BlockNames, d # b, NEW e \in ToSet(EntriesOf[c][d]), NEW i \in I
                 PROVE  e.names \cap entries[i].names = {}
      OBVIOUS
    <2>1. PICK k \in DOMAIN EntriesOf[c][d] : EntriesOf[c][d][k] = e
      BY DEF ToSet
    <2>2. i \in DOMAIN EntriesOf[c][b]
      OBVIOUS
    <2>3. EntriesOf[c][d][k].names \cap EntriesOf[c][b][i].names # {} => d = b
      BY <2>2, HostnamesAssumption
    <2> QED BY <2>1, <2>3
  <1>6. \A i : i \in I <=> i \in DOMAIN entries /\ entries[i].names \cap HostnamesIn(f) = {}
    OBVIOUS
  <1> HIDE DEF I, entries, ms
  <1>7. ASSUME NEW e
        PROVE  e \in ToSet(ms) <=> e \in ToSet(entries) /\ e.names \cap HostnamesIn(f) = {}
    <2>1. ASSUME e \in ToSet(ms) PROVE e \in ToSet(entries) /\ e.names \cap HostnamesIn(f) = {}
      <3>1. PICK k \in DOMAIN ms : ms[k] = e
        BY <2>1 DEF ToSet
      <3>2. PICK i \in I : Rank(I, i) = k
        BY <1>3
      <3> QED BY <1>3, <1>6, <3>1, <3>2 DEF ToSet
    <2>2. ASSUME e \in ToSet(entries), e.names \cap HostnamesIn(f) = {} PROVE e \in ToSet(ms)
      <3>1. PICK i \in DOMAIN entries : entries[i] = e
        BY <2>2 DEF ToSet
      <3>2. i \in I
        BY <1>6, <2>2, <3>1
      <3> QED BY <1>3, <3>1, <3>2 DEF ToSet
    <2> QED BY <2>1, <2>2
  <1>8. ASSUME NEW x \in DOMAIN ms, NEW y \in DOMAIN ms, ms[x].names \cap ms[y].names # {}
        PROVE  x = y
    <2>1. PICK i \in I, k \in I : Rank(I, i) = x /\ Rank(I, k) = y
      BY <1>3
    <2>2. i = k
      BY <1>3, <1>4, <1>8, <2>1
    <2> QED BY <2>1, <2>2
  <1>9. ASSUME NEW d \in BlockNames, d # b, NEW e \in ToSet(EntriesOf[c][d]), NEW x \in DOMAIN ms
        PROVE  e.names \cap ms[x].names = {}
    <2>1. PICK i \in I : Rank(I, i) = x
      BY <1>3
    <2> QED BY <1>3, <1>5, <1>9, <2>1
  <1> QED BY <1>1, <1>7, <1>8, <1>9 DEF entries

\* The blocks that are put behind base hold its missing entries, and can be taken away.
LEMMA AllUpsertedPlaces ==
    ASSUME NEW L, LinesOf(L), NEW base \in Seq(L), Trimmed(base),
           NEW c \in Configs, NEW bs \in SUBSET BlockNames,
           \A i \in DOMAIN base : \A b \in bs : base[i] # Begin(b)
    PROVE  LET g == AllUpserted(base, c, bs, base) IN
           /\ g \in Seq(L) /\ Restores(g, base, bs)
           /\ Placed(g, Len(base), [b \in BlockNames |-> Missing(EntriesOf[c][b], base)], bs)
  <1> DEFINE with(b, g) == LET missing == Missing(EntriesOf[c][b], base) IN
                           IF b \notin bs \/ missing = <<>> THEN g ELSE Upserted(g, b, missing)
             ms == [b \in BlockNames |-> Missing(EntriesOf[c][b], base)]
             n == Len(base)
             Good(g, done) == /\ g \in Seq(L) /\ Trimmed(g) /\ Restores(g, base, bs)
                              /\ Placed(g, n, ms, done)
  <1>0. \A b \in BlockNames : ms[b] = Missing(EntriesOf[c][b], base)
    OBVIOUS
  <1>1. \A b \in BlockNames : ms[b] \in Seq(L) /\ \A i \in DOMAIN ms[b] : IsHost(ms[b][i])
    <2> SUFFICES ASSUME NEW b \in BlockNames
                 PROVE  ms[b] \in Seq(L) /\ \A i \in DOMAIN ms[b] : IsHost(ms[b][i])
      OBVIOUS
    <2>1. ms[b] \in Seq(FrameworkEntries) /\ \A i \in DOMAIN ms[b] : IsHost(ms[b][i])
      BY MissingAreHosts
    <2>2. FrameworkEntries \subseteq L
      BY DEF LinesOf, FrameworkLines
    <2> HIDE DEF ms
    <2> QED BY <2>1, <2>2
  <1>2. Blank \in L /\ \A b \in BlockNames : Begin(b) \in L /\ End(b) \in L
    BY DEF LinesOf, FrameworkLines
  <1>3. \A b \in BlockNames : \A done \in SUBSET (BlockNames \ {b}) : Apart(ms, b, done)
    <2> SUFFICES ASSUME NEW b \in BlockNames, NEW done \in SUBSET (BlockNames \ {b})
                 PROVE  Apart(ms, b, done)
      OBVIOUS
    <2>1. \A x, y \in DOMAIN ms[b] : ms[b][x].names \cap ms[b][y].names # {} => x = y
      BY MissingLines
    <2>2. \A d \in done : \A e \in ToSet(ms[d]) : e \in ToSet(EntriesOf[c][d])
      BY MissingLines
    <2>3. \A d \in BlockNames : d # b => \A e \in ToSet(EntriesOf[c][d]) : \A x \in DOMAIN ms[b] :
             e.names \cap ms[b][x].names = {}
      BY MissingLines
    <2> HIDE DEF ms
    <2> QED BY <2>1, <2>2, <2>3 DEF Apart
  <1> HIDE DEF ms
  <1>4. ASSUME NEW b \in BlockNames, NEW done \in SUBSET (BlockNames \ {b}), NEW g, Good(g, done)
        PROVE  Good(with(b, g), done \cup ({b} \cap bs))
    <2>0. with(b, g) = IF b \notin bs \/ ms[b] = <<>> THEN g ELSE Upserted(g, b, ms[b])
      BY <1>0
    <2>1. CASE b \notin bs
      <3>1. with(b, g) = g /\ done \cup ({b} \cap bs) = done
        BY <2>0, <2>1
      <3> HIDE DEF with, Good
      <3> QED BY <1>4, <3>1
    <2>2. CASE b \in bs /\ ms[b] = <<>>
      <3>1. with(b, g) = g /\ done \cup ({b} \cap bs) = done \cup {b}
        BY <2>0, <2>2
      <3>2. ToSet(ms[b]) = {}
        BY <2>2 DEF ToSet
      <3>3. Placed(g, n, ms, done \cup {b})
        BY <1>4, <3>2 DEF Placed
      <3> HIDE DEF with
      <3> QED BY <1>4, <3>1, <3>3
    <2>3. CASE b \in bs /\ ms[b] # <<>>
      <3> HIDE DEF with
      <3>1. with(b, g) = Upserted(g, b, ms[b]) /\ done \cup ({b} \cap bs) = done \cup {b}
        BY <2>0, <2>3
      <3>2. n \in Nat /\ n <= Len(g) /\ g \in Seq(L) /\ Trimmed(g) /\ Restores(g, base, bs)
        BY <1>4 DEF Restores
      <3>3. Upserted(g, b, ms[b]) \in Seq(L)
        BY <1>1, <1>2, <3>2, UpsertedKeeps
      <3>4. Trimmed(Upserted(g, b, ms[b])) /\ Restores(Upserted(g, b, ms[b]), base, bs)
        BY <1>1, <2>3, <3>2, UpsertedRestores
      <3>5. Placed(Upserted(g, b, ms[b]), n, ms, done \cup {b})
        <4>1. Apart(ms, b, done) /\ Placed(g, n, ms, done)
          BY <1>3, <1>4
        <4> HIDE DEF n, Good
        <4> QED BY <1>1, <3>2, <4>1, UpsertedPlaces DEF n
      <3> QED BY <3>1, <3>3, <3>4, <3>5
    <2> QED BY <2>1, <2>2, <2>3
  <1>5. Good(base, {})
    <2>1. \A i \in 0 .. n : SkippingUntil(base, bs)[i] = None
      BY NothingToSkip
    <2>2. n \in Nat /\ DOMAIN base = 1 .. n
      OBVIOUS
    <2>3. Restores(base, base, bs)
      <3>1. \A i \in 1 .. n : i \in Kept(base, bs)
        BY <2>1, <2>2 DEF Kept
      <3>2. \A i \in Kept(base, bs) : ~(i > n)
        BY <2>2 DEF Kept
      <3> QED BY <2>1, <2>2, <3>1, <3>2 DEF Restores
    <2>4. Placed(base, n, ms, {})
      BY <2>2 DEF Placed
    <2> QED BY <2>3, <2>4
  <1>6. AllUpserted(base, c, bs, base) =
            with("components", with("connectors", with("dataspace", with("common", base))))
    BY DEF AllUpserted
  <1> DEFINE g1 == with("common", base)  g2 == with("dataspace", g1)
             g3 == with("connectors", g2)  g4 == with("components", g3)
             d1 == {"common"} \cap bs  d2 == d1 \cup ({"dataspace"} \cap bs)
             d3 == d2 \cup ({"connectors"} \cap bs)  d4 == d3 \cup ({"components"} \cap bs)
  <1>7. AllUpserted(base, c, bs, base) = g4
    BY <1>6
  <1>8. /\ "common" \in BlockNames /\ "dataspace" \in BlockNames
        /\ "connectors" \in BlockNames /\ "components" \in BlockNames
    BY DEF BlockNames
  <1>9. /\ d1 \in SUBSET (BlockNames \ {"dataspace"}) /\ d2 \in SUBSET (BlockNames \ {"connectors"})
        /\ d3 \in SUBSET (BlockNames \ {"components"}) /\ d4 = bs /\ d1 = {} \cup ({"common"} \cap bs)
    BY DEF BlockNames
  <1> HIDE DEF with, Good
  <1>10. Good(g1, d1)
    BY <1>4, <1>5, <1>8, <1>9
  <1> HIDE DEF g1, d1
  <1>11. Good(g2, d2)
    BY <1>4, <1>8, <1>9, <1>10
  <1> HIDE DEF g2, d2
  <1>12. Good(g3, d3)
    BY <1>4, <1>8, <1>9, <1>11
  <1> HIDE DEF g3, d3
  <1>13. Good(g4, d4)
    BY <1>4, <1>8, <1>9, <1>12
  <1> HIDE DEF g4, d4
  <1>14. Good(AllUpserted(base, c, bs, base), bs)
    BY <1>7, <1>9, <1>13
  <1> QED BY <1>14 DEF Good, ms

LEMMA PlacedSettles ==
    ASSUME NEW L, NEW g \in Seq(L), NEW base \in Seq(L), NEW c \in Configs, NEW l,
           \A i \in DOMAIN base : \A b \in BlocksOf(c, l) : base[i] # Begin(b),
           Restores(g, base, BlocksOf(c, l)),
           Placed(g, Len(base), [b \in BlockNames |-> Missing(EntriesOf[c][b], base)],
                  BlocksOf(c, l))
    PROVE  Settled(g, c, l)
  <1> DEFINE bs == BlocksOf(c, l)
             ms == [b \in BlockNames |-> Missing(EntriesOf[c][b], base)]
             n == Len(base)
             outside(h) == \E i \in DOMAIN g :
                               /\ IsHost(g[i]) /\ h \in g[i].names
                               /\ \A b \in bs : ~InBlock(g, i, b)
             at(h) == {i \in DOMAIN g : IsHost(g[i]) /\ h \in g[i].names
                                        /\ \E d \in bs : InBlock(g, i, d)}
  <1>1. bs \subseteq BlockNames
    BY DEF BlocksOf
  <1>2. \A b \in bs : \A e : e \in ToSet(ms[b]) <=>
            e \in ToSet(EntriesOf[c][b]) /\ e.names \cap HostnamesIn(base) = {}
    BY <1>1, MissingLines
  <1> HIDE DEF ms
  <1>3. /\ \A i \in DOMAIN g : i > n /\ IsHost(g[i]) =>
              \E b \in bs : InBlock(g, i, b) /\ g[i] \in ToSet(ms[b])
        /\ \A b \in bs : \A e \in ToSet(ms[b]) :
              \E i \in DOMAIN g : i > n /\ g[i] = e /\ InBlock(g, i, b)
        /\ \A i, j \in DOMAIN g :
              i > n /\ j > n /\ IsHost(g[i]) /\ IsHost(g[j]) /\ g[i].names \cap g[j].names # {}
                  => i = j
    BY DEF Placed, ms
  <1>4. /\ n \in Nat /\ DOMAIN base = 1 .. n
        /\ \A i \in 1 .. n : i \in DOMAIN g /\ g[i] = base[i]
        /\ \A i \in DOMAIN g : i \in Nat /\ i > 0
    BY DEF Restores, Kept
  <1>5. \A i \in DOMAIN base : \A b \in bs : base[i] # Begin(b)
    OBVIOUS
  <1> HIDE DEF n, bs
  <1>6. ASSUME NEW i \in 1 .. n, NEW b \in bs PROVE ~InBlock(g, i, b)
    <2>1. \A k \in 1 .. i - 1 : k \in 1 .. n
      BY <1>4
    <2> QED BY <1>4, <1>5, <2>1 DEF InBlock
  <1>7. \A i \in DOMAIN g : i \in 1 .. n \/ i > n
    BY <1>4
  <1>8. \A h : h \in HostnamesIn(base) <=> \E i \in 1 .. n : IsHost(base[i]) /\ h \in base[i].names
    BY <1>4 DEF HostnamesIn, ToSet
  <1>9. \A h : outside(h) <=> h \in HostnamesIn(base)
    <2> SUFFICES ASSUME NEW h PROVE outside(h) <=> h \in HostnamesIn(base)
      OBVIOUS
    <2>1. ASSUME outside(h) PROVE h \in HostnamesIn(base)
      <3>1. PICK i \in DOMAIN g : /\ IsHost(g[i]) /\ h \in g[i].names
                                  /\ \A b \in bs : ~InBlock(g, i, b)
        BY <2>1
      <3>2. i \in 1 .. n
        BY <1>3, <1>7, <3>1
      <3> QED BY <1>4, <1>8, <3>1, <3>2
    <2>2. ASSUME h \in HostnamesIn(base) PROVE outside(h)
      BY <1>4, <1>6, <1>8, <2>2
    <2> QED BY <2>1, <2>2
  <1>10. ASSUME NEW h, NEW i \in at(h)
         PROVE  /\ i \in DOMAIN g /\ i > n /\ IsHost(g[i]) /\ h \in g[i].names
                /\ h \notin HostnamesIn(base)
    <2>1. i \in DOMAIN g /\ IsHost(g[i]) /\ h \in g[i].names /\ \E d \in bs : InBlock(g, i, d)
      OBVIOUS
    <2>2. i > n
      BY <1>6, <1>7, <2>1
    <2>3. PICK b \in bs : g[i] \in ToSet(ms[b])
      BY <1>3, <2>1, <2>2
    <2>4. g[i].names \cap HostnamesIn(base) = {}
      BY <1>2, <2>3
    <2> QED BY <2>1, <2>2, <2>4
  <1>11. ASSUME NEW b \in bs, NEW e \in ToSet(EntriesOf[c][b]), NEW h \in e.names
         PROVE  IF outside(h) THEN at(h) = {}
                ELSE \E i \in DOMAIN g : at(h) = {i} /\ g[i] = e /\ InBlock(g, i, b)
    <2>1. CASE outside(h)
      <3> HIDE DEF outside, at
      <3> QED BY <1>9, <1>10, <2>1
    <2>2. CASE ~outside(h)
      <3>1. h \notin HostnamesIn(base)
        BY <1>9, <2>2
      <3>2. IsHost(e) /\ e.names = {h}
        <4>1. PICK k \in e.names : e = Host(e.address, {k})
          BY <1>1, EntriesAssumption
        <4> QED BY <4>1 DEF Host, IsHost
      <3>3. e \in ToSet(ms[b])
        BY <1>2, <3>1, <3>2
      <3>4. PICK i \in DOMAIN g : i > n /\ g[i] = e /\ InBlock(g, i, b)
        BY <1>3, <3>3
      <3>5. i \in at(h)
        BY <3>2, <3>4
      <3>6. \A j \in at(h) : j = i
        BY <1>3, <1>10, <3>2, <3>4
      <3>7. at(h) = {i}
        <4> HIDE DEF at
        <4> QED BY <3>5, <3>6
      <3> HIDE DEF outside, at
      <3> QED BY <2>2, <3>4, <3>7
    <2> HIDE DEF outside, at
    <2> QED BY <2>1, <2>2
  <1> QED BY <1>11 DEF Settled, bs

\* Whatever is in the file, a run puts the entries of its blocks where they belong, and
\* another run finds nothing to do.
LEMMA MergedSettles ==
    ASSUME NEW L, LinesOf(L), NEW f \in Seq(L), NEW c \in Configs, NEW l
    PROVE  Settled(Merged(f, c, l), c, l) /\ Merged(Merged(f, c, l), c, l) = Merged(f, c, l)
  <1> DEFINE bs == BlocksOf(c, l)
             own == WithoutBlocks(f, bs)
             names == ToReconcile(c, bs, own)
             base == WithoutHostnames(own, names)
             g == AllUpserted(base, c, bs, base)
  <1>1. Merged(f, c, l) = g
    BY DEF Merged
  <1>2. bs \in SUBSET BlockNames
    BY DEF BlocksOf
  <1>3. Merged(g, c, l) = LET o == WithoutBlocks(g, bs)
                              b == WithoutHostnames(o, ToReconcile(c, bs, o))
                          IN AllUpserted(b, c, bs, b)
    BY DEF Merged
  <1>4. CASE bs = {}
    <2>1. ASSUME NEW x \in Seq(L) PROVE ToReconcile(c, {}, x) = {}
      BY DEF ToReconcile
    <2>2. \A x : WithoutBlocks(x, {}) = x /\ WithoutHostnames(x, {}) = x
      BY DEF WithoutBlocks, WithoutHostnames
    <2>3. \A x : AllUpserted(x, c, {}, x) = x
      BY DEF AllUpserted
    <2>4. own = f /\ names = {} /\ base = f /\ g = f
      <3>1. own = f
        BY <1>4, <2>2
      <3>2. names = {}
        BY <1>4, <2>1, <3>1
      <3>3. base = f
        BY <2>2, <3>1, <3>2
      <3> HIDE DEF own, names, base
      <3> QED BY <1>4, <2>3, <3>1, <3>2, <3>3
    <2>5. Merged(g, c, l) = g
      <3> HIDE DEF own, names, base, g, bs
      <3> QED BY <1>3, <1>4, <2>1, <2>2, <2>3, <2>4
    <2>6. Settled(g, c, l)
      <3> HIDE DEF g
      <3> QED BY <1>4 DEF Settled
    <2> QED BY <1>1, <2>5, <2>6
  <1>5. CASE bs # {}
    <2> HIDE DEF bs
    <2>1. /\ own \in Seq(L) /\ Trimmed(own)
          /\ \A i \in DOMAIN own : \A b \in bs : own[i] # Begin(b)
      BY <1>5, WithoutBlocksLines
    <2> HIDE DEF own
    <2>2. /\ base \in Seq(L) /\ Trimmed(base)
          /\ \A k \in DOMAIN base : \E i \in DOMAIN own : base[k] = Less(own[i], names)
      <3>1. Reducible(L)
        BY DEF LinesOf
      <3> HIDE DEF names
      <3>2. own \in Seq(L) /\ Trimmed(own)
        BY <2>1
      <3>3. LET new == WithoutHostnames(own, names) IN
            /\ new \in Seq(L) /\ Trimmed(new)
            /\ \A k \in DOMAIN new : \E i \in DOMAIN own : new[k] = Less(own[i], names)
        BY <3>1, <3>2, WithoutHostnamesLines
      <3> QED BY <3>3
    <2>3. ASSUME NEW x \in ToSet(base), IsHost(x)
          PROVE  /\ x.names \cap names = {}
                 /\ \E y \in ToSet(own) : IsHost(y) /\ y.address = x.address /\ x.names \subseteq y.names
      <3> HIDE DEF base, names
      <3>1. PICK k \in DOMAIN base : base[k] = x
        BY DEF ToSet
      <3>2. PICK i \in DOMAIN own : base[k] = Less(own[i], names)
        BY <2>2
      <3>3. IsHost(own[i]) /\ x = Host(own[i].address, own[i].names \ names)
        BY <2>3, <3>1, <3>2 DEF Less
      <3>4. x.address = own[i].address /\ x.names = own[i].names \ names
        BY <3>3 DEF Host
      <3>5. own[i] \in ToSet(own)
        BY DEF ToSet
      <3> QED BY <3>3, <3>4, <3>5
    <2>4. \A k \in DOMAIN base : \A b \in bs : base[k] # Begin(b)
      <3> HIDE DEF base, names
      <3> SUFFICES ASSUME NEW k \in DOMAIN base, NEW b \in bs PROVE base[k] # Begin(b)
        OBVIOUS
      <3>1. PICK i \in DOMAIN own : base[k] = Less(own[i], names)
        BY <2>2
      <3>2. \A a, m : Host(a, m) # Begin(b)
        BY DEF Host, Begin
      <3> QED BY <2>1, <3>1, <3>2 DEF Less
    <2>5. ToReconcile(c, bs, base) = {}
      <3> SUFFICES ASSUME NEW h \in ToReconcile(c, bs, base) PROVE FALSE
        OBVIOUS
      <3> HIDE DEF base
      <3>1. PICK x \in ToSet(base) : IsHost(x) /\ h \in x.names /\ x.address # PublicAddress
        BY DEF ToReconcile
      <3>2. PICK y \in ToSet(own) : IsHost(y) /\ y.address = x.address /\ x.names \subseteq y.names
        BY <2>3, <3>1
      <3>3. h \in names
        BY <3>1, <3>2 DEF ToReconcile
      <3> QED BY <2>3, <3>1, <3>3
    <2> HIDE DEF base
    <2>6. /\ g \in Seq(L) /\ Restores(g, base, bs)
          /\ Placed(g, Len(base), [b \in BlockNames |-> Missing(EntriesOf[c][b], base)], bs)
      BY <1>2, <2>2, <2>4, AllUpsertedPlaces
    <2>7. WithoutBlocks(g, bs) = base
      <3> HIDE DEF g
      <3> QED BY <1>5, <2>2, <2>6, RestoresBase
    <2>8. WithoutHostnames(base, {}) = base
      BY DEF WithoutHostnames
    <2>9. Merged(g, c, l) = g
      <3> DEFINE o == WithoutBlocks(g, bs)
                 b == WithoutHostnames(o, ToReconcile(c, bs, o))
      <3>1. Merged(g, c, l) = AllUpserted(b, c, bs, b)
        BY <1>3
      <3>2. o = base
        BY <2>7
      <3> HIDE DEF o, g
      <3>3. b = base
        BY <2>5, <2>8, <3>2
      <3> HIDE DEF b
      <3> QED BY <3>1, <3>3 DEF g
    <2>10. Settled(g, c, l)
      <3> HIDE DEF g
      <3> QED BY <2>2, <2>4, <2>6, PlacedSettles DEF bs
    <2> QED BY <1>1, <2>9, <2>10
  <1> QED BY <1>4, <1>5

\* An undisturbed run of apply_managed_blocks settles the hostnames of its blocks, on
\* whatever file earlier runs, users and torn writes have left, and is idempotent
\* (merge_missing_managed_blocks).
THEOREM RunsSettle == Spec => ApplySettles
  <1> DEFINE Right(p) == /\ Settled(file', job[p].config, job[p].level)
                         /\ Merged(file', job[p].config, job[p].level) = file'
  <1>1. ASSUME IInv, NEW p \in Processes, pc[p] = "read",
               file' = Merged(file, job[p].config, job[p].level)
        PROVE  Right(p)
    <2>1. job[p] \in Jobs /\ job[p].config \in Configs
      BY <1>1, JobsAssumption DEF IInv
    <2>2. LinesOf(LinesWith(mine)) /\ file \in Seq(LinesWith(mine))
      BY <1>1, LinesFit DEF IInv, TypeOK
    <2> DEFINE L == LinesWith(mine)  c == job[p].config  l == job[p].level
    <2> HIDE DEF L, c, l
    <2>3. Settled(Merged(file, c, l), c, l) /\ Merged(Merged(file, c, l), c, l) = Merged(file, c, l)
      BY <2>1, <2>2, MergedSettles DEF L, c
    <2> QED BY <1>1, <2>3 DEF c, l
  <1> HIDE DEF Right
  <1>2. IInv => [\A p \in Processes :
                    pc[p] = "read" /\ pc'[p] = "idle" /\ job[p].op = "apply"
                      /\ file = seen[p] /\ file' = Merged(file, job[p].config, job[p].level) =>
                         Right(p)]_vars
    BY <1>1
  <1> QED BY <1>2, Invariant, PTL DEF ApplySettles, Right
============================================================================
