------------------------------ MODULE Induction ------------------------------
(***************************************************************************)
(* Induction and recursion, stated with sets and functions in place of     *)
(* predicates and operators: a lemma is used by naming a set of numbers or *)
(* a function, which every prover can do.  And what SequenceTheorems does  *)
(* not say of sequences that are cut and put together.                     *)
(***************************************************************************)
EXTENDS Integers, WellFoundedInduction, SequenceTheorems, TLAPS

\* A set of natural numbers has a least element.
LEMMA LeastNatural ==
    ASSUME NEW T, T \subseteq Nat, T # {}
    PROVE  \E n \in T : \A m \in T : n <= m
<1>1. \E x \in T : \A y \in T : ~ (<<y, x>> \in OpToRel(<, Nat))
  BY NatLessThanWellFounded, WFMin, Zenon
<1>2. \A x, y \in T : y < x => <<y, x>> \in OpToRel(<, Nat)
  BY DEF OpToRel
<1>3. PICK x \in T : \A y \in T : ~ (y < x)
  BY <1>1, <1>2
<1> QED BY <1>3

\* A set that holds 0, and with a number the next, holds them all.
LEMMA SetOfAllNaturals ==
    ASSUME NEW T, 0 \in T, \A n \in Nat : n \in T => n + 1 \in T
    PROVE  Nat \subseteq T
<1> SUFFICES ASSUME Nat \ T # {} PROVE FALSE
  OBVIOUS
<1>1. PICK n \in Nat \ T : \A m \in Nat \ T : n <= m
  BY LeastNatural
<1>2. n # 0 /\ n - 1 \in Nat
  OBVIOUS
<1>3. n - 1 \in T
  BY <1>1, <1>2
<1> QED BY <1>2, <1>3

\* A set that holds each x of S, once it holds those of lower rank, holds them all.
LEMMA SetOfAllRanked ==
    ASSUME NEW S, NEW rank \in [S -> Nat], NEW T,
           \A x \in S : (\A y \in S : rank[y] < rank[x] => y \in T) => x \in T
    PROVE  S \subseteq T
<1> SUFFICES ASSUME NEW x \in S, x \notin T PROVE FALSE
  OBVIOUS
<1> DEFINE R == {n \in Nat : \E y \in S \ T : rank[y] = n}
<1>1. R \subseteq Nat /\ R # {}
  BY Zenon
<1> HIDE DEF R
<1>2. PICK n \in R : \A m \in R : n <= m
  BY <1>1, LeastNatural
<1> USE DEF R
<1>3. PICK y \in S \ T : rank[y] = n
  OBVIOUS
<1>4. \A z \in S \ T : rank[y] <= rank[z]
  BY <1>2, <1>3
<1>5. \A z \in S : rank[z] < rank[y] => z \in T
  BY <1>4
<1> QED BY <1>3, <1>5

(***************************************************************************)
(* Recursion over whatever has a rank: "def" takes a function on S, of     *)
(* which it uses at x the values of lower rank only, to its right-hand     *)
(* side.  The equation then has a solution.                                *)
(***************************************************************************)
UsesLowerRanks(def, S, T, rank) ==
    \A g, h \in [S -> T], x \in S :
        (\A y \in S : rank[y] < rank[x] => g[y] = h[y]) => def[g][x] = def[h][x]

WellDefined(def, S, T, rank) ==
    /\ T # {} /\ rank \in [S -> Nat] /\ def \in [[S -> T] -> [S -> T]]
    /\ UsesLowerRanks(def, S, T, rank)

\* The values at ranks below n are those of any two functions that solve the equation
\* there; put together they solve it everywhere.
LEMMA RecursionSolved ==
    ASSUME NEW S, NEW T, NEW rank, NEW def, WellDefined(def, S, T, rank)
    PROVE  \E f : f \in [S -> T] /\ f = def[f]
<1> USE DEF WellDefined
<1> DEFINE Solves(g, n) == \A x \in S : rank[x] < n => g[x] = def[g][x]
<1>0. ASSUME NEW g \in [S -> T], NEW h \in [S -> T], NEW x \in S,
             \A y \in S : rank[y] < rank[x] => g[y] = h[y]
      PROVE  def[g][x] = def[h][x]
  BY <1>0 DEF UsesLowerRanks
<1>1. \A n \in Nat : \E g \in [S -> T] : Solves(g, n)
  <2> DEFINE A == {n \in Nat : \E g \in [S -> T] : Solves(g, n)}
  <2>1. 0 \in A
    <3>1. PICK t : t \in T
      OBVIOUS
    <3>2. [x \in S |-> t] \in [S -> T] /\ Solves([x \in S |-> t], 0)
      BY <3>1
    <3> QED BY <3>2
  <2>2. ASSUME NEW n \in Nat, n \in A
        PROVE  n + 1 \in A
    <3>1. PICK g \in [S -> T] : Solves(g, n)
      BY <2>2
    <3> DEFINE h == def[g]
    <3>2. h \in [S -> T]
      OBVIOUS
    <3>3. ASSUME NEW x \in S, rank[x] < n + 1
          PROVE  h[x] = def[h][x]
      <4>1. \A y \in S : rank[y] < rank[x] => rank[y] < n
        BY <3>3
      <4>2. \A y \in S : rank[y] < rank[x] => g[y] = h[y]
        BY <3>1, <4>1
      <4> QED BY <1>0, <3>2, <4>2
    <3> QED BY <3>2, <3>3
  <2> HIDE DEF A
  <2>3. Nat \subseteq A
    BY <2>1, <2>2, SetOfAllNaturals
  <2> QED BY <2>3 DEF A
<1>2. \A n \in Nat : \A g, h \in [S -> T] :
         Solves(g, n) /\ Solves(h, n) => \A x \in S : rank[x] < n => g[x] = h[x]
  <2> DEFINE B == {n \in Nat : \A g, h \in [S -> T] :
                     Solves(g, n) /\ Solves(h, n) => \A x \in S : rank[x] < n => g[x] = h[x]}
  <2>1. 0 \in B
    OBVIOUS
  <2>2. ASSUME NEW n \in Nat, n \in B
        PROVE  n + 1 \in B
    <3> SUFFICES ASSUME NEW g \in [S -> T], NEW h \in [S -> T],
                        Solves(g, n + 1), Solves(h, n + 1), NEW x \in S, rank[x] < n + 1
                 PROVE  g[x] = h[x]
      OBVIOUS
    <3>1. Solves(g, n) /\ Solves(h, n)
      OBVIOUS
    <3>2. \A y \in S : rank[y] < n => g[y] = h[y]
      BY <2>2, <3>1
    <3>3. \A y \in S : rank[y] < rank[x] => rank[y] < n
      OBVIOUS
    <3>4. \A y \in S : rank[y] < rank[x] => g[y] = h[y]
      BY <3>2, <3>3
    <3>5. def[g][x] = def[h][x]
      BY <1>0, <3>4
    <3> QED BY <3>5
  <2> HIDE DEF B
  <2>3. Nat \subseteq B
    BY <2>1, <2>2, SetOfAllNaturals
  <2> QED BY <2>3 DEF B
<1> DEFINE Part(n) == CHOOSE g \in [S -> T] : Solves(g, n)
           f == [x \in S |-> Part(rank[x] + 1)[x]]
<1>3. \A n \in Nat : Part(n) \in [S -> T] /\ Solves(Part(n), n)
  BY <1>1
<1> HIDE DEF Part
<1>4. f \in [S -> T]
  BY <1>3
<1>5. ASSUME NEW x \in S
      PROVE  f[x] = def[f][x]
  <2> DEFINE p == Part(rank[x] + 1)
  <2>1. p \in [S -> T] /\ Solves(p, rank[x] + 1) /\ rank[x] < rank[x] + 1
    BY <1>3
  <2>2. ASSUME NEW y \in S, rank[y] < rank[x]
        PROVE  f[y] = p[y]
    <3> DEFINE q == Part(rank[y] + 1)
    <3>1. q \in [S -> T] /\ Solves(q, rank[y] + 1) /\ rank[y] < rank[y] + 1
      BY <1>3
    <3>2. Solves(p, rank[y] + 1)
      BY <2>1, <2>2
    <3>3. rank[y] + 1 \in Nat
      OBVIOUS
    <3>4. q[y] = p[y]
      BY <1>2, <2>1, <3>1, <3>2, <3>3
    <3> QED BY <3>4
  <2>3. def[f][x] = def[p][x]
    BY <1>0, <1>4, <2>1, <2>2
  <2>4. f[x] = p[x] /\ p[x] = def[p][x]
    BY <2>1
  <2> QED BY <2>3, <2>4
<1>6. f = def[f]
  <2> HIDE DEF f
  <2>1. def[f] \in [S -> T]
    BY <1>4
  <2> QED BY <1>4, <1>5, <2>1
<1> QED BY <1>4, <1>6

-----------------------------------------------------------------------------
\* The first n elements of a sequence, or of what holds as many.
LEMMA SubSeqFirst ==
    ASSUME NEW M, NEW b, NEW n \in Nat, \A i \in 1 .. n : b[i] \in M
    PROVE  /\ SubSeq(b, 1, n) \in Seq(M) /\ Len(SubSeq(b, 1, n)) = n
           /\ \A i \in 1 .. n : SubSeq(b, 1, n)[i] = b[i]
<1> DEFINE s == SubSeq(b, 1, n)
<1>1. /\ s \in Seq(M) /\ Len(s) = IF 1 <= n THEN n - 1 + 1 ELSE 0
      /\ \A i \in 1 .. n - 1 + 1 : s[i] = b[1 + i - 1]
  BY SubSeqProperties
<1> HIDE DEF s
<1>2. n - 1 + 1 = n /\ (~ (1 <= n) => n = 0) /\ \A i \in 1 .. n : 1 + i - 1 = i
  OBVIOUS
<1>3. \A i \in 1 .. n : s[i] = b[i]
  BY <1>1, <1>2
<1> QED BY <1>1, <1>2, <1>3 DEF s

\* A message behind the second of two sequences is behind both.
LEMMA AppendedLast ==
    ASSUME NEW M, NEW a \in Seq(M), NEW b \in Seq(M), NEW x \in M
    PROVE  a \o Append(b, x) = Append(a \o b, x)
<1> DEFINE u == a \o Append(b, x)
           v == Append(a \o b, x)
<1>1. Len(a) \in Nat /\ Len(b) \in Nat
  OBVIOUS
<1>2. /\ Append(b, x) \in Seq(M) /\ Len(Append(b, x)) = Len(b) + 1
      /\ \A i \in 1 .. Len(b) : Append(b, x)[i] = b[i]
      /\ Append(b, x)[Len(b) + 1] = x
  BY AppendProperties
<1>3. /\ a \o b \in Seq(M) /\ Len(a \o b) = Len(a) + Len(b)
      /\ \A i \in 1 .. Len(a) + Len(b) :
            (a \o b)[i] = IF i <= Len(a) THEN a[i] ELSE b[i - Len(a)]
  BY ConcatProperties
<1>4. /\ u \in Seq(M) /\ Len(u) = Len(a) + (Len(b) + 1)
      /\ \A i \in 1 .. Len(a) + (Len(b) + 1) :
            u[i] = IF i <= Len(a) THEN a[i] ELSE Append(b, x)[i - Len(a)]
  BY <1>2, ConcatProperties
<1>5. /\ v \in Seq(M) /\ Len(v) = (Len(a) + Len(b)) + 1
      /\ \A i \in 1 .. Len(a) + Len(b) : v[i] = (a \o b)[i]
      /\ v[(Len(a) + Len(b)) + 1] = x
  BY <1>3, AppendProperties
<1> HIDE DEF u, v
<1>6. ASSUME NEW i \in 1 .. Len(u)
      PROVE  u[i] = v[i]
  <2>a. \A p, q \in Nat : \A j \in 1 .. p + (q + 1) :
           /\ j <= p => j \in 1 .. p + q
           /\ j <= p \/ (j > p /\ j <= p + q) \/ j = (p + q) + 1
    OBVIOUS
  <2>b. i \in 1 .. Len(a) + (Len(b) + 1)
    BY <1>4
  <2>1. CASE i <= Len(a)
    <3>1. i \in 1 .. Len(a) + Len(b)
      BY <1>1, <2>a, <2>b, <2>1
    <3> QED BY <1>3, <1>4, <1>5, <2>b, <2>1, <3>1
  <2>2. CASE i > Len(a) /\ i <= Len(a) + Len(b)
    <3>1. i - Len(a) \in 1 .. Len(b) /\ i \in 1 .. Len(a) + Len(b) /\ ~ (i <= Len(a))
      BY <1>1, <1>4, <2>2
    <3> QED BY <1>2, <1>3, <1>4, <1>5, <3>1
  <2>3. CASE i = (Len(a) + Len(b)) + 1
    <3>1. i - Len(a) = Len(b) + 1 /\ ~ (i <= Len(a))
      BY <1>1, <2>3
    <3> QED BY <1>2, <1>4, <1>5, <2>3, <3>1
  <2>4. \/ i <= Len(a) \/ (i > Len(a) /\ i <= Len(a) + Len(b)) \/ i = (Len(a) + Len(b)) + 1
    BY <1>1, <2>a, <2>b
  <2> QED BY <2>1, <2>2, <2>3, <2>4
<1>7. Len(u) = Len(v)
  BY <1>1, <1>4, <1>5
<1>8. u = v
  BY <1>4, <1>5, <1>6, <1>7, SeqEqual
<1> QED BY <1>8 DEF u, v
=============================================================================
