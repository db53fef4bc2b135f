---------------------------- MODULE DataLemmas ----------------------------
(***************************************************************************)
(* Facts about data that several of the proofs share: induction over the   *)
(* numbers and the recursive functions it makes sense of, division with a  *)
(* rest, how a queue that is cut in two behaves as one, and what keeps the *)
(* pointers of the transactions in a queue distinct.                       *)
(***************************************************************************)
EXTENDS Integers, Sequences, Functions, SequencesExt, Selection, SequenceTheorems,
        WellFoundedInduction, NaturalsInduction, TLAPS

-----------------------------------------------------------------------------
(* Induction, stated for sets of numbers: for the set of those that have a *)
(* property it is the usual principle.                                     *)

LEMMA Least ==
  ASSUME NEW S \in SUBSET Nat, S # {}
  PROVE  \E x \in S : \A y \in S : x <= y
<1> DEFINE R == {p \in Nat \X Nat : p[1] < p[2]}
<1>1. IsWellFoundedOn(R, Nat)
  BY NatLessThanWellFounded DEF OpToRel
<1> HIDE DEF R
<1>2. PICK x \in S : \A y \in S : <<y, x>> \notin R
  BY <1>1, WFMin
<1>3. \A y \in S : ~(y < x)
  BY <1>2 DEF R
<1> QED BY <1>2, <1>3

LEMMA Induction ==
  ASSUME NEW S, 0 \in S, \A n \in Nat : n \in S => n + 1 \in S
  PROVE  Nat \subseteq S
<1> DEFINE T == {n \in Nat : n \notin S}
<1> SUFFICES ASSUME T # {} PROVE FALSE
  OBVIOUS
<1>1. PICK x \in T : \A y \in T : x <= y
  BY Least
<1>2. x # 0 /\ x - 1 \in Nat /\ x - 1 \notin T
  BY <1>1
<1> QED BY <1>2

\* What a function has computed after n steps of a recursion.
Computes(g, n, D, base, step) ==
  /\ g \in [0 .. n -> D] /\ g[0] = base
  /\ \A k \in Nat : k < n => g[k + 1] = step[<<g[k], k>>]

LEMMA ComputesOnce ==
  ASSUME NEW D, NEW base, NEW step, NEW m \in Nat, NEW n \in Nat, m <= n,
         NEW g, NEW h, Computes(g, m, D, base, step), Computes(h, n, D, base, step)
  PROVE  g[m] = h[m]
<1> DEFINE S == {k \in Nat : k <= m => g[k] = h[k]}
<1>1. 0 \in S
  BY DEF Computes
<1>2. ASSUME NEW k \in Nat, k \in S PROVE k + 1 \in S
  <2>1. CASE k + 1 <= m
    <3>1. k < m /\ k < n /\ k <= m
      BY <2>1
    <3>2. g[k] = h[k]
      BY <1>2, <3>1
    <3>3. g[k + 1] = step[<<g[k], k>>] /\ h[k + 1] = step[<<h[k], k>>]
      BY <3>1 DEF Computes
    <3> QED BY <3>2, <3>3
  <2>2. CASE ~(k + 1 <= m)
    BY <2>2
  <2> QED BY <2>1, <2>2
<1> HIDE DEF S
<1>3. m \in S
  BY <1>1, <1>2, Induction
<1> QED BY <1>3 DEF S

LEMMA ComputesAlways ==
  ASSUME NEW D, NEW base \in D, NEW step \in [D \X Nat -> D]
  PROVE  \A n \in Nat : \E g : Computes(g, n, D, base, step)
<1> DEFINE S == {n \in Nat : \E g : Computes(g, n, D, base, step)}
<1>1. 0 \in S
  <2> DEFINE g == [k \in 0 .. 0 |-> base]
  <2>1. Computes(g, 0, D, base, step)
    BY DEF Computes
  <2> QED BY <2>1
<1>2. ASSUME NEW n \in Nat, n \in S PROVE n + 1 \in S
  <2>1. PICK g : Computes(g, n, D, base, step)
    BY <1>2
  <2> DEFINE h == [k \in 0 .. n + 1 |-> IF k = n + 1 THEN step[<<g[n], n>>] ELSE g[k]]
  <2>2. g[n] \in D /\ step[<<g[n], n>>] \in D
    BY <2>1 DEF Computes
  <2>3. h \in [0 .. n + 1 -> D] /\ h[0] = base
    BY <2>1, <2>2 DEF Computes
  <2>4. ASSUME NEW k \in Nat, k < n + 1 PROVE h[k + 1] = step[<<h[k], k>>]
    <3>1. h[k] = g[k] /\ k \in 0 .. n /\ k + 1 \in 0 .. n + 1
      BY <2>4
    <3>2. CASE k = n
      <4>1. h[k + 1] = step[<<g[n], n>>]
        BY <3>1, <3>2
      <4> QED BY <3>1, <3>2, <4>1
    <3>3. CASE k < n
      BY <2>1, <3>1, <3>3 DEF Computes
    <3> QED BY <3>1, <3>2, <3>3
  <2> HIDE DEF h
  <2>5. Computes(h, n + 1, D, base, step)
    BY <2>3, <2>4 DEF Computes
  <2> QED BY <2>5
<1> HIDE DEF S
<1>3. Nat \subseteq S
  BY <1>1, <1>2, Induction
<1> QED BY <1>3 DEF S

\* A recursion on the numbers defines a function.
Solves(f, D, base, step) ==
  /\ f \in [Nat -> D] /\ f[0] = base
  /\ \A n \in Nat : f[n + 1] = step[<<f[n], n>>]

LEMMA Recursion ==
  ASSUME NEW D, NEW base \in D, NEW step \in [D \X Nat -> D]
  PROVE  \E f : Solves(f, D, base, step)
<1> DEFINE G(n) == CHOOSE g : Computes(g, n, D, base, step)
           f == [n \in Nat |-> G(n)[n]]
<1>1. \A n \in Nat : Computes(G(n), n, D, base, step)
  BY ComputesAlways
<1> HIDE DEF G
<1>2. f \in [Nat -> D] /\ f[0] = base
  BY <1>1 DEF Computes
<1>3. ASSUME NEW n \in Nat PROVE f[n + 1] = step[<<f[n], n>>]
  <2>1. G(n)[n] = G(n + 1)[n]
    BY <1>1, ComputesOnce
  <2>2. G(n + 1)[n + 1] = step[<<G(n + 1)[n], n>>]
    BY <1>1 DEF Computes
  <2> QED BY <2>1, <2>2
<1> HIDE DEF f
<1>4. Solves(f, D, base, step)
  BY <1>2, <1>3 DEF Solves
<1> QED BY <1>4

\* Induction over the sequences that Append builds.
LEMMA InductionOnSequences ==
  ASSUME NEW S, NEW T, <<>> \in T, \A s \in Seq(S) : \A e \in S : s \in T => Append(s, e) \in T
  PROVE  Seq(S) \subseteq T
<1> DEFINE U == {n \in Nat : \A s \in Seq(S) : Len(s) = n => s \in T}
<1>1. 0 \in U
  BY EmptySeq
<1>2. ASSUME NEW n \in Nat, n \in U PROVE n + 1 \in U
  <2> SUFFICES ASSUME NEW s \in Seq(S), Len(s) = n + 1 PROVE s \in T
    OBVIOUS
  <2> DEFINE front == [k \in 1 .. n |-> s[k]]
  <2>1. s[n + 1] \in S /\ \A k \in 1 .. n : s[k] \in S
    BY ElementOfSeq
  <2>2. front \in Seq(S) /\ Len(front) = n
    BY <2>1
  <2>3. front \in T
    BY <1>2, <2>2
  <2>4. s = Append(front, s[n + 1])
    <3>1. /\ Append(front, s[n + 1]) \in Seq(S) /\ Len(Append(front, s[n + 1])) = n + 1
          /\ \A k \in 1 .. n : Append(front, s[n + 1])[k] = front[k]
          /\ Append(front, s[n + 1])[n + 1] = s[n + 1]
      BY <2>1, <2>2, AppendProperties
    <3>2. \A k \in 1 .. n + 1 : Append(front, s[n + 1])[k] = s[k]
      BY <3>1
    <3> HIDE DEF front
    <3> QED BY <3>1, <3>2, SeqEqual
  <2> HIDE DEF front
  <2> QED BY <2>1, <2>2, <2>3, <2>4
<1> HIDE DEF U
<1>3. Nat \subseteq U
  BY <1>1, <1>2, Induction
<1> QED BY <1>3, LenProperties DEF U

-----------------------------------------------------------------------------
(* Division with a rest.                                                    *)

\* Multiplication preserves order; the quotients of two multiples apart differ.
LEMMA ProductOrder ==
  ASSUME NEW d \in Nat, NEW m \in Nat, NEW n \in Nat, m < n
  PROVE  d * m \in Nat /\ d * n \in Nat /\ d * m + d <= d * n
<1>1. n - m - 1 \in Nat
  OBVIOUS
<1>2. \A x, y, z \in Nat : x * (y + z + 1) = x * y + x * z + x /\ x * y \in Nat /\ x * z \in Nat
  OBVIOUS
<1>3. d * (m + (n - m - 1) + 1) = d * m + d * (n - m - 1) + d
  BY <1>1, <1>2
<1>4. d * m \in Nat /\ d * n \in Nat /\ d * (n - m - 1) \in Nat
  BY <1>1, <1>2
<1> QED BY <1>3, <1>4

\* What \div and % compute.
LEMMA Division ==
  ASSUME NEW n \in Nat, NEW d \in Nat, d > 0
  PROVE  /\ n \div d \in Nat /\ n % d \in Nat /\ n % d < d
         /\ d * (n \div d) \in Nat /\ n = d * (n \div d) + (n % d)
  OBVIOUS

\* There is one way only to write a number as a multiple and a rest.
LEMMA DivisionUnique ==
  ASSUME NEW d \in Nat, d > 0, NEW q \in Nat, NEW r \in Nat, r < d,
         NEW n \in Nat, n = d * q + r
  PROVE  n \div d = q /\ n % d = r
<1> DEFINE p == n \div d
           s == n % d
<1>1. p \in Nat /\ s \in Nat /\ s < d /\ d * p \in Nat /\ n = d * p + s
  BY Division
<1>0. d * q \in Nat
  OBVIOUS
<1> HIDE DEF p, s
<1>2. ~(p < q)
  BY <1>0, <1>1, ProductOrder
<1>3. ~(q < p)
  BY <1>0, <1>1, ProductOrder
<1>4. p = q
  BY <1>1, <1>2, <1>3
<1>5. s = r
  BY <1>0, <1>1, <1>4
<1> QED BY <1>4, <1>5 DEF p, s

-----------------------------------------------------------------------------
(* What Only keeps of a queue.                                             *)

LEMMA OnlyComputed ==
  ASSUME NEW s, NEW K
  PROVE  \E f \in [Nat -> Seq(K)] :
           /\ f[0] = <<>>
           /\ \A n \in Nat :
                f[n + 1] = IF s[n + 1] \in K THEN Append(f[n], s[n + 1]) ELSE f[n]
           /\ Only(s, K) = f[Len(s)]
<1> DEFINE D == Seq(K)
           base == <<>>
           step == [x \in D \X Nat |->
                      IF s[x[2] + 1] \in K THEN Append(x[1], s[x[2] + 1]) ELSE x[1]]
           E(f) == [n \in Nat |->
                      IF n = 0 THEN <<>>
                      ELSE IF s[n] \in K THEN Append(f[n - 1], s[n]) ELSE f[n - 1]]
<1>1. base \in D /\ step \in [D \X Nat -> D]
  OBVIOUS
<1>2. \A d \in D : \A n \in Nat :
        step[<<d, n>>] = IF s[n + 1] \in K THEN Append(d, s[n + 1]) ELSE d
  OBVIOUS
<1>0. base = <<>>
  OBVIOUS
<1> HIDE DEF D, base, step
<1>3. PICK f : Solves(f, D, base, step)
  BY <1>1, Recursion
<1>4. f = E(f)
  <2>1. ASSUME NEW n \in Nat PROVE f[n] = E(f)[n]
    <3>1. CASE n = 0
      BY <1>0, <1>3, <3>1 DEF Solves
    <3>2. CASE n # 0
      <4>1. n - 1 \in Nat /\ (n - 1) + 1 = n
        BY <3>2
      <4>2. f[n] = step[<<f[n - 1], n - 1>>]
        BY <1>3, <4>1 DEF Solves
      <4>3. f[n - 1] \in D
        BY <1>3, <4>1 DEF Solves
      <4>4. step[<<f[n - 1], n - 1>>]
              = IF s[n] \in K THEN Append(f[n - 1], s[n]) ELSE f[n - 1]
        BY <1>2, <4>1, <4>3
      <4> QED BY <3>2, <4>2, <4>4
    <3> QED BY <3>1, <3>2
  <2> QED BY <1>3, <2>1 DEF Solves
<1> DEFINE g == CHOOSE h : h = E(h)
<1>5. g = E(g)
  BY <1>4
<1>6. Only(s, K) = g[Len(s)]
  BY DEF Only
<1> HIDE DEF g
<1>7. g[0] = <<>>
  BY <1>5
<1>8. ASSUME NEW n \in Nat
      PROVE  g[n + 1] = IF s[n + 1] \in K THEN Append(g[n], s[n + 1]) ELSE g[n]
  <2>1. n + 1 \in Nat /\ n + 1 # 0 /\ (n + 1) - 1 = n
    OBVIOUS
  <2> QED BY <1>5, <2>1
<1>9. g \in [Nat -> Seq(K)]
  <2> DEFINE U == {n \in Nat : g[n] \in Seq(K)}
  <2>0. <<>> \in Seq(K)
    OBVIOUS
  <2>1. 0 \in U
    BY <1>7, <2>0
  <2>2. ASSUME NEW n \in Nat, n \in U PROVE n + 1 \in U
    <3>1. g[n] \in Seq(K) /\ (s[n + 1] \in K => Append(g[n], s[n + 1]) \in Seq(K))
      BY <2>2
    <3>2. g[n + 1] = IF s[n + 1] \in K THEN Append(g[n], s[n + 1]) ELSE g[n]
      BY <1>8
    <3>3. g[n + 1] \in Seq(K)
      BY <3>1, <3>2
    <3> QED BY <3>3
  <2> HIDE DEF U
  <2>3. Nat \subseteq U
    BY <2>1, <2>2, Induction
  <2> QED BY <1>5, <2>3 DEF U
<1> QED BY <1>6, <1>7, <1>8, <1>9

LEMMA OnlyTyped ==
  ASSUME NEW S, NEW s \in Seq(S), NEW K
  PROVE  Only(s, K) \in Seq(K)
<1>1. \E f \in [Nat -> Seq(K)] : Only(s, K) = f[Len(s)]
  BY OnlyComputed
<1>2. Len(s) \in Nat
  BY LenProperties
<1> QED BY <1>1, <1>2

LEMMA OnlyEmpty ==
  ASSUME NEW K
  PROVE  Only(<<>>, K) = <<>>
<1>1. \E f \in [Nat -> Seq(K)] : f[0] = <<>> /\ Only(<<>>, K) = f[Len(<<>>)]
  BY OnlyComputed
<1>2. Len(<<>>) = 0
  OBVIOUS
<1> QED BY <1>1, <1>2

LEMMA OnlyAppend ==
  ASSUME NEW S, NEW s \in Seq(S), NEW e \in S, NEW K
  PROVE  Only(Append(s, e), K) = IF e \in K THEN Append(Only(s, K), e) ELSE Only(s, K)
<1> DEFINE t == Append(s, e)
<1>1. /\ t \in Seq(S) /\ Len(t) = Len(s) + 1 /\ Len(s) \in Nat /\ t[Len(s) + 1] = e
      /\ \A n \in 1 .. Len(s) : t[n] = s[n]
  BY AppendProperties, LenProperties
<1> HIDE DEF t
<1>2. PICK f \in [Nat -> Seq(K)] :
        /\ f[0] = <<>>
        /\ \A n \in Nat : f[n + 1] = IF s[n + 1] \in K THEN Append(f[n], s[n + 1]) ELSE f[n]
        /\ Only(s, K) = f[Len(s)]
  BY OnlyComputed
<1>3. PICK g \in [Nat -> Seq(K)] :
        /\ g[0] = <<>>
        /\ \A n \in Nat : g[n + 1] = IF t[n + 1] \in K THEN Append(g[n], t[n + 1]) ELSE g[n]
        /\ Only(t, K) = g[Len(t)]
  BY OnlyComputed
<1> DEFINE U == {n \in Nat : n <= Len(s) => f[n] = g[n]}
<1>4. 0 \in U
  BY <1>2, <1>3
<1>5. ASSUME NEW n \in Nat, n \in U PROVE n + 1 \in U
  <2> SUFFICES ASSUME n + 1 <= Len(s) PROVE f[n + 1] = g[n + 1]
    OBVIOUS
  <2>1. n <= Len(s) /\ n + 1 \in 1 .. Len(s)
    BY <1>1
  <2>2. f[n] = g[n] /\ t[n + 1] = s[n + 1]
    BY <1>1, <1>5, <2>1
  <2> QED BY <1>2, <1>3, <2>2
<1> HIDE DEF U
<1>6. Len(s) \in U
  BY <1>1, <1>4, <1>5, Induction
<1>7. f[Len(s)] = g[Len(s)]
  BY <1>1, <1>6 DEF U
<1>8. g[Len(s) + 1] = IF e \in K THEN Append(g[Len(s)], e) ELSE g[Len(s)]
  BY <1>1, <1>3
<1>9. Only(t, K) = IF e \in K THEN Append(Only(s, K), e) ELSE Only(s, K)
  BY <1>1, <1>2, <1>3, <1>7, <1>8
<1> QED BY <1>9 DEF t

LEMMA OnlySingle ==
  ASSUME NEW S, NEW e \in S, NEW K
  PROVE  Only(<<e>>, K) = IF e \in K THEN <<e>> ELSE <<>>
<1>1. <<e>> = Append(<<>>, e) /\ <<>> \in Seq(S)
  OBVIOUS
<1>2. Only(Append(<<>>, e), K) = IF e \in K THEN Append(Only(<<>>, K), e) ELSE Only(<<>>, K)
  BY <1>1, OnlyAppend
<1> QED BY <1>1, <1>2, OnlyEmpty

LEMMA OnlyConcat ==
  ASSUME NEW S, NEW s \in Seq(S), NEW t \in Seq(S), NEW K
  PROVE  Only(s \o t, K) = Only(s, K) \o Only(t, K)
<1> DEFINE T == {u \in Seq(S) : Only(s \o u, K) = Only(s, K) \o Only(u, K)}
<1>1. <<>> \in T
  <2>1. s \o <<>> = s /\ Only(s, K) \o <<>> = Only(s, K) /\ <<>> \in Seq(S)
    BY OnlyTyped
  <2> QED BY <2>1, OnlyEmpty
<1>2. ASSUME NEW u \in Seq(S), NEW e \in S, u \in T PROVE Append(u, e) \in T
  <2>1. /\ s \o Append(u, e) = Append(s \o u, e) /\ s \o u \in Seq(S)
        /\ Append(u, e) \in Seq(S)
    OBVIOUS
  <2>2. /\ Only(Append(u, e), K) = IF e \in K THEN Append(Only(u, K), e) ELSE Only(u, K)
        /\ Only(Append(s \o u, e), K)
             = IF e \in K THEN Append(Only(s \o u, K), e) ELSE Only(s \o u, K)
    BY <2>1, OnlyAppend
  <2>3. Only(s, K) \in Seq(K) /\ Only(u, K) \in Seq(K)
    BY OnlyTyped
  <2>4. e \in K => Only(s, K) \o Append(Only(u, K), e) = Append(Only(s, K) \o Only(u, K), e)
    BY <2>3
  <2> QED BY <1>2, <2>1, <2>2, <2>4
<1> HIDE DEF T
<1>3. t \in T
  BY <1>1, <1>2, InductionOnSequences
<1> QED BY <1>3 DEF T

\* Only the elements of the queue matter for what is kept of it.
LEMMA OnlySame ==
  ASSUME NEW S, NEW s \in Seq(S), NEW K, NEW L, \A e \in ToSet(s) : e \in K <=> e \in L
  PROVE  Only(s, K) = Only(s, L)
<1> DEFINE T == {u \in Seq(S) : (\A e \in ToSet(u) : e \in K <=> e \in L) => Only(u, K) = Only(u, L)}
<1>1. <<>> \in T
  BY OnlyEmpty
<1>2. ASSUME NEW u \in Seq(S), NEW e \in S, u \in T PROVE Append(u, e) \in T
  <2> SUFFICES ASSUME \A x \in ToSet(Append(u, e)) : x \in K <=> x \in L
               PROVE  Only(Append(u, e), K) = Only(Append(u, e), L)
    OBVIOUS
  <2>1. /\ Append(u, e) \in Seq(S) /\ Len(u) \in Nat /\ DOMAIN u = 1 .. Len(u)
        /\ DOMAIN Append(u, e) = 1 .. Len(u) + 1
        /\ \A n \in 1 .. Len(u) : Append(u, e)[n] = u[n]
        /\ Append(u, e)[Len(u) + 1] = e
    BY AppendProperties, LenProperties
  <2>2. ToSet(u) \subseteq ToSet(Append(u, e)) /\ e \in ToSet(Append(u, e))
    BY <2>1 DEF ToSet
  <2>3. Only(u, K) = Only(u, L) /\ (e \in K <=> e \in L)
    BY <1>2, <2>2
  <2>4. /\ Only(Append(u, e), K) = IF e \in K THEN Append(Only(u, K), e) ELSE Only(u, K)
        /\ Only(Append(u, e), L) = IF e \in L THEN Append(Only(u, L), e) ELSE Only(u, L)
    BY OnlyAppend
  <2> QED BY <2>3, <2>4
<1> HIDE DEF T
<1>3. s \in T
  BY <1>1, <1>2, InductionOnSequences
<1> QED BY <1>3 DEF T

LEMMA OnlyNothing ==
  ASSUME NEW S, NEW s \in Seq(S), NEW K, ToSet(s) \cap K = {}
  PROVE  Only(s, K) = <<>>
<1>1. Only(s, K) = Only(s, {})
  BY OnlySame
<1>2. Only(s, {}) \in Seq({})
  BY OnlyTyped
<1>3. ASSUME NEW u \in Seq({}), u # <<>> PROVE FALSE
  BY <1>3, HeadTailProperties
<1> QED BY <1>1, <1>2, <1>3

-----------------------------------------------------------------------------
(* Queues.                                                                 *)

\* The pointers of the transactions in a queue.
PointersOf(s) == [n \in DOMAIN s |-> s[n].ptr]

\* A singleton is a sequence of one element.
LEMMA Singleton ==
  ASSUME NEW S, NEW e \in S
  PROVE  <<e>> \in Seq(S) /\ Len(<<e>>) = 1 /\ <<e>>[1] = e
  OBVIOUS

\* A queue whose head is held in a register of its own is still the queue.
LEMMA HeadThenTail ==
  ASSUME NEW S, NEW s \in Seq(S), s # <<>>
  PROVE  <<Head(s)>> \o Tail(s) = s
<1>1. /\ Head(s) \in S /\ Tail(s) \in Seq(S) /\ Len(Tail(s)) = Len(s) - 1
      /\ \A i \in 1 .. Len(Tail(s)) : Tail(s)[i] = s[i + 1]
      /\ Head(s) = s[1]
  BY HeadTailProperties
<1>2. Len(s) \in Nat \ {0}
  BY EmptySeq
<1> DEFINE t == <<Head(s)>> \o Tail(s)
<1>3. /\ t \in Seq(S)
      /\ Len(t) = Len(s)
      /\ \A i \in 1 .. Len(s) : t[i] = IF i <= 1 THEN Head(s) ELSE Tail(s)[i - 1]
  BY <1>1, <1>2, Singleton, ConcatProperties
<1>4. ASSUME NEW i \in 1 .. Len(s)
      PROVE  t[i] = s[i]
  <2>1. CASE i = 1
    BY <1>1, <1>3, <2>1
  <2>2. CASE i # 1
    <3>1. i - 1 \in 1 .. Len(Tail(s)) /\ (i - 1) + 1 = i
      BY <1>1, <1>2, <2>2
    <3>2. Tail(s)[i - 1] = s[i]
      BY <1>1, <3>1
    <3>3. QED
      BY <1>3, <2>2, <3>2
  <2>3. QED
    BY <2>1, <2>2
<1> HIDE DEF t
<1>5. QED
  <2>1. t = s
    BY <1>2, <1>3, <1>4, SeqEqual
  <2>2. QED
    BY <2>1 DEF t

\* A queue cut in two is taken from at its first part.
LEMMA TakeFromFirst ==
  ASSUME NEW S, NEW a \in Seq(S), NEW b \in Seq(S), a # <<>>
  PROVE  a \o b # <<>> /\ Head(a \o b) = Head(a) /\ Tail(a \o b) = Tail(a) \o b
<1>1. Head(a) \in S /\ Tail(a) \in Seq(S) /\ <<Head(a)>> \in Seq(S)
  BY HeadTailProperties, Singleton
<1> DEFINE t == Tail(a) \o b
<1>2. t \in Seq(S)
  BY <1>1, ConcatProperties
<1>3. a \o b = <<Head(a)>> \o t
  <2>1. a = <<Head(a)>> \o Tail(a)
    BY HeadThenTail
  <2>2. (<<Head(a)>> \o Tail(a)) \o b = <<Head(a)>> \o (Tail(a) \o b)
    BY <1>1, ConcatAssociative
  <2>3. QED
    BY <2>1, <2>2
<1> HIDE DEF t
<1>4. /\ <<Head(a)>> \o t # <<>>
      /\ Head(<<Head(a)>> \o t) = Head(a)
      /\ Tail(<<Head(a)>> \o t) = t
  BY <1>1, <1>2
<1>5. QED
  BY <1>3, <1>4 DEF t

\* A new pointer at the end keeps the pointers of a queue distinct.
LEMMA AppendKeepsDistinct ==
  ASSUME NEW S, NEW s \in Seq(S), NEW e \in S,
         IsInjective(PointersOf(s)), \A n \in DOMAIN s : s[n].ptr # e.ptr
  PROVE  IsInjective(PointersOf(Append(s, e)))
<1>1. /\ Append(s, e) \in Seq(S) /\ Len(Append(s, e)) = Len(s) + 1 /\ Len(s) \in Nat
      /\ DOMAIN s = 1 .. Len(s) /\ DOMAIN Append(s, e) = 1 .. Len(s) + 1
      /\ \A n \in 1 .. Len(s) : Append(s, e)[n] = s[n]
      /\ Append(s, e)[Len(s) + 1] = e
  BY AppendProperties, LenProperties
<1>2. QED
  BY <1>1 DEF IsInjective, PointersOf

\* So does taking the oldest away.
LEMMA TailKeepsDistinct ==
  ASSUME NEW S, NEW s \in Seq(S), s # <<>>, IsInjective(PointersOf(s))
  PROVE  IsInjective(PointersOf(Tail(s)))
<1>1. /\ Tail(s) \in Seq(S) /\ Len(Tail(s)) = Len(s) - 1 /\ Len(s) \in Nat \ {0}
      /\ DOMAIN s = 1 .. Len(s) /\ DOMAIN Tail(s) = 1 .. Len(s) - 1
      /\ \A n \in 1 .. Len(s) - 1 : Tail(s)[n] = s[n + 1]
  BY HeadTailProperties, LenProperties, EmptySeq
<1>2. ASSUME NEW m \in 1 .. Len(s) - 1, NEW n \in 1 .. Len(s) - 1,
             Tail(s)[m].ptr = Tail(s)[n].ptr
      PROVE  m = n
  <2>1. m + 1 \in DOMAIN s /\ n + 1 \in DOMAIN s /\ s[m + 1].ptr = s[n + 1].ptr
    BY <1>1, <1>2
  <2>2. m + 1 = n + 1
    BY <2>1 DEF IsInjective, PointersOf
  <2>3. QED
    BY <1>1, <2>2
<1>3. QED
  BY <1>1, <1>2 DEF IsInjective, PointersOf

\* And so does a transaction that gets its answer where it is.
LEMMA AnswerKeepsPointers ==
  ASSUME NEW S, NEW a \in Seq(S), NEW b \in Seq(S), NEW x \in S, NEW y \in S,
         x.ptr = y.ptr
  PROVE  PointersOf((a \o <<x>>) \o b) = PointersOf((a \o <<y>>) \o b)
<1> DEFINE s(e) == (a \o <<e>>) \o b
<1>1. ASSUME NEW e \in S
      PROVE  /\ s(e) \in Seq(S) /\ Len(s(e)) = Len(a) + 1 + Len(b)
             /\ DOMAIN s(e) = 1 .. Len(a) + 1 + Len(b)
             /\ \A n \in 1 .. Len(a) + 1 + Len(b) :
                  s(e)[n] = IF n <= Len(a) THEN a[n]
                            ELSE IF n = Len(a) + 1 THEN e ELSE b[n - (Len(a) + 1)]
  <2>1. Len(a) \in Nat /\ Len(b) \in Nat
    BY LenProperties
  <2>2. /\ a \o <<e>> \in Seq(S) /\ Len(a \o <<e>>) = Len(a) + 1
        /\ \A n \in 1 .. Len(a) + 1 : (a \o <<e>>)[n] = IF n <= Len(a) THEN a[n] ELSE e
    <3>1. <<e>> \in Seq(S) /\ Len(<<e>>) = 1 /\ <<e>>[1] = e
      BY Singleton
    <3>2. /\ a \o <<e>> \in Seq(S) /\ Len(a \o <<e>>) = Len(a) + 1
          /\ \A n \in 1 .. Len(a) + 1 :
               (a \o <<e>>)[n] = IF n <= Len(a) THEN a[n] ELSE <<e>>[n - Len(a)]
      BY <3>1, ConcatProperties
    <3>3. \A n \in 1 .. Len(a) + 1 : ~(n <= Len(a)) => n - Len(a) = 1
      BY <2>1
    <3>4. QED
      BY <3>1, <3>2, <3>3
  <2>3. /\ s(e) \in Seq(S) /\ Len(s(e)) = Len(a) + 1 + Len(b)
        /\ \A n \in 1 .. Len(a) + 1 + Len(b) :
             s(e)[n] = IF n <= Len(a) + 1 THEN (a \o <<e>>)[n] ELSE b[n - (Len(a) + 1)]
    BY <2>2, ConcatProperties
  <2> HIDE DEF s
  <2>4. DOMAIN s(e) = 1 .. Len(a) + 1 + Len(b)
    BY <2>3, LenProperties
  <2>5. QED
    BY <2>1, <2>2, <2>3, <2>4
<1> HIDE DEF s
<1>2. Len(a) \in Nat /\ Len(b) \in Nat
  BY LenProperties
<1>3. \A n \in 1 .. Len(a) + 1 + Len(b) : s(x)[n].ptr = s(y)[n].ptr
  BY <1>1, <1>2
<1>4. PointersOf(s(x)) = PointersOf(s(y))
  BY <1>1, <1>3 DEF PointersOf
<1>5. QED
  BY <1>4 DEF s
=============================================================================
