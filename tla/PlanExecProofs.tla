-------------------------- MODULE PlanExecProofs ---------------------------
(* A plan that fits is executed as it means: every buffer stands for the rows *)
(* of its node.  Words first, then rows in any order, then the steps.         *)
EXTENDS RunQuery, PagesProofs, FiniteSetTheorems, FunctionTheorems

-----------------------------------------------------------------------------
(* Powers of two.                                                          *)

IsPow2(f, n) == f = [m \in 0 .. n |-> IF m = 0 THEN 1 ELSE 2 * f[m - 1]]

LEMMA PrefixUnique ==
  ASSUME NEW n \in Nat, NEW f, IsPow2(f, n), NEW m \in Nat, m >= n, NEW g, IsPow2(g, m)
  PROVE  f[n] = g[n]
<1>. DEFINE S == {k \in Nat : k <= n => f[k] = g[k]}
<1>1. 0 \in S
  BY DEF IsPow2
<1>2. ASSUME NEW k \in Nat, k \in S PROVE k + 1 \in S
  <2>. SUFFICES ASSUME k + 1 <= n PROVE f[k + 1] = g[k + 1]
    OBVIOUS
  <2>1. f[k] = g[k]
    BY <1>2
  <2>2. k + 1 \in 0 .. n /\ k + 1 \in 0 .. m /\ k + 1 # 0 /\ (k + 1) - 1 = k
    OBVIOUS
  <2>3. f[k + 1] = 2 * f[k]
    BY <2>2 DEF IsPow2
  <2>4. g[k + 1] = 2 * g[k]
    BY <2>2 DEF IsPow2
  <2>. QED
    BY <2>1, <2>3, <2>4
<1>. HIDE DEF S
<1>3. n \in S
  BY <1>1, <1>2, Induction
<1>. QED
  BY <1>3 DEF S

LEMMA PrefixDefined ==
  ASSUME NEW n \in Nat
  PROVE  \E f : IsPow2(f, n)
<1>. DEFINE S == {k \in Nat : \E f : IsPow2(f, k)}
<1>1. 0 \in S
  <2>1. IsPow2([m \in 0 .. 0 |-> 1], 0)
    BY DEF IsPow2
  <2>. QED
    BY <2>1
<1>2. ASSUME NEW k \in Nat, k \in S PROVE k + 1 \in S
  <2>1. PICK f : IsPow2(f, k)
    BY <1>2
  <2>. DEFINE g == [m \in 0 .. k + 1 |-> IF m = k + 1 THEN 2 * f[k] ELSE f[m]]
  <2>2. ASSUME NEW m \in 0 .. k + 1 PROVE g[m] = IF m = 0 THEN 1 ELSE 2 * g[m - 1]
    <3>1. CASE m = 0
      BY <2>1, <3>1 DEF IsPow2
    <3>2. CASE m = k + 1
      <4>1. m - 1 = k /\ k \in 0 .. k + 1 /\ k # k + 1 /\ m # 0
        BY <3>2
      <4>. QED
        BY <3>2, <4>1
    <3>3. CASE m # 0 /\ m # k + 1
      <4>1. m \in 0 .. k /\ m - 1 \in 0 .. k + 1 /\ m - 1 # k + 1
        BY <3>3
      <4>2. f[m] = 2 * f[m - 1]
        BY <2>1, <3>3, <4>1 DEF IsPow2
      <4>. QED
        BY <3>3, <4>1, <4>2
    <3>. QED
      BY <3>1, <3>2, <3>3
  <2>3. IsPow2(g, k + 1)
    BY <2>2 DEF IsPow2
  <2>. QED
    BY <2>3
<1>. HIDE DEF S
<1>3. n \in S
  BY <1>1, <1>2, Induction
<1>. QED
  BY <1>3 DEF S

LEMMA Pow2Defined == Pow2 = [n \in Nat |-> IF n = 0 THEN 1 ELSE 2 * Pow2[n - 1]]
<1>. DEFINE F(n) == CHOOSE f : IsPow2(f, n)
            G == [n \in Nat |-> F(n)[n]]
<1>1. ASSUME NEW n \in Nat PROVE IsPow2(F(n), n)
  BY PrefixDefined
<1>. HIDE DEF F
<1>2. ASSUME NEW n \in Nat PROVE G[n] = IF n = 0 THEN 1 ELSE 2 * G[n - 1]
  <2>1. CASE n = 0
    BY <1>1, <2>1 DEF IsPow2
  <2>2. CASE n # 0
    <3>1. n - 1 \in Nat /\ n \in 0 .. n /\ n >= n - 1
      BY <2>2
    <3>2. IsPow2(F(n), n) /\ IsPow2(F(n - 1), n - 1)
      BY <1>1, <3>1
    <3>3. F(n)[n] = 2 * F(n)[n - 1]
      BY <2>2, <3>1, <3>2 DEF IsPow2
    <3>4. F(n - 1)[n - 1] = F(n)[n - 1]
      BY <3>1, <3>2, PrefixUnique
    <3>. QED
      BY <2>2, <3>1, <3>3, <3>4
  <2>. QED
    BY <2>1, <2>2
<1>. HIDE DEF G
<1>3. G = [n \in Nat |-> IF n = 0 THEN 1 ELSE 2 * G[n - 1]]
  <2>1. G = [n \in Nat |-> G[n]]
    BY DEF G
  <2>. QED
    BY <1>2, <2>1
<1>. QED
  BY <1>3 DEF Pow2

LEMMA Pow2Positive == \A n \in Nat : Pow2[n] \in Nat \ {0}
<1>. DEFINE S == {k \in Nat : Pow2[k] \in Nat \ {0}}
<1>1. 0 \in S
  BY Pow2Defined
<1>2. ASSUME NEW k \in Nat, k \in S PROVE k + 1 \in S
  <2>1. k + 1 # 0 /\ (k + 1) - 1 = k
    OBVIOUS
  <2>2. Pow2[k + 1] = 2 * Pow2[k]
    BY <2>1, Pow2Defined
  <2>. QED
    BY <1>2, <2>2
<1>. HIDE DEF S
<1>3. \A n \in Nat : n \in S
  BY <1>1, <1>2, Induction
<1>. QED
  BY <1>3 DEF S

LEMMA Pow2Next ==
  ASSUME NEW n \in Nat
  PROVE  Pow2[n + 1] = 2 * Pow2[n]
<1>1. n + 1 \in Nat /\ n + 1 # 0 /\ (n + 1) - 1 = n
  OBVIOUS
<1>. QED
  BY <1>1, Pow2Defined

LEMMA Pow2Sum ==
  ASSUME NEW a \in Nat, NEW b \in Nat
  PROVE  Pow2[a + b] = Pow2[a] * Pow2[b]
<1>. DEFINE S == {k \in Nat : Pow2[a + k] = Pow2[a] * Pow2[k]}
<1>1. 0 \in S
  <2>1. Pow2[0] = 1 /\ a + 0 = a
    BY Pow2Defined
  <2>2. Pow2[a] * 1 = Pow2[a]
    BY Pow2Positive
  <2>. QED
    BY <2>1, <2>2
<1>2. ASSUME NEW k \in Nat, k \in S PROVE k + 1 \in S
  <2>1. a + (k + 1) = (a + k) + 1 /\ a + k \in Nat
    OBVIOUS
  <2>2. Pow2[(a + k) + 1] = 2 * Pow2[a + k] /\ Pow2[k + 1] = 2 * Pow2[k]
    BY <2>1, Pow2Next
  <2>3. Pow2[a + k] = Pow2[a] * Pow2[k]
    BY <1>2
  <2>4. Pow2[a] \in Nat /\ Pow2[k] \in Nat
    BY Pow2Positive
  <2>5. \A x, y \in Nat : 2 * (x * y) = x * (2 * y)
    OBVIOUS
  <2>. QED
    BY <2>1, <2>2, <2>3, <2>4, <2>5
<1>. HIDE DEF S
<1>3. b \in S
  BY <1>1, <1>2, Induction
<1>. QED
  BY <1>3 DEF S

-----------------------------------------------------------------------------
(* Words.                                                                  *)

\* A number is known by quotient and remainder.
LEMMA Division ==
  ASSUME NEW b \in Nat \ {0}, NEW q \in Int, NEW r \in 0 .. b - 1, NEW a \in Int, a = b * q + r
  PROVE  a % b = r /\ a \div b = q
<1>1. b * q \in Int
  OBVIOUS
<1>2. b * q <= a /\ a < b * q + b
  BY <1>1
<1>3. a \div b = q
  BY <1>1, <1>2, Quotient
<1>4. a % b = a - b * (a \div b)
  OBVIOUS
<1>. QED
  BY <1>1, <1>3, <1>4

\* A word and an integer: P words, Q integers, K times as many words.
LEMMA SignExtension ==
  ASSUME NEW H \in Nat \ {0}, NEW K \in Nat, K >= 2,
         NEW v \in -H .. H - 1
  PROVE  LET Q == 2 * H
             P == Q * K
             w == v % P
         IN  /\ w \in 0 .. P - 1
             /\ v # -1 => w # P - 1
             /\ (IF (w % Q) >= H THEN (w % Q) - Q ELSE (w % Q)) = v
<1>. DEFINE Q == 2 * H
            P == Q * K
            w == v % P
<1>1. Q \in Nat \ {0} /\ K - 1 \in Nat /\ K - 1 >= 1
  OBVIOUS
<1>2. P = Q * (K - 1) + Q /\ Q * (K - 1) \in Nat /\ Q * (K - 1) >= Q
  BY <1>1
<1>. HIDE DEF Q
<1>3. P \in Nat \ {0} /\ P >= 2 * Q
  BY <1>1, <1>2
<1>4. CASE v >= 0
  <2>1. v \in 0 .. P - 1 /\ v \in 0 .. Q - 1 /\ P * 0 + v = v /\ Q * 0 + v = v /\ v # P - 1
    BY <1>1, <1>3, <1>4 DEF Q
  <2>. HIDE DEF P
  <2>2. w = v
    BY <1>3, <2>1, Division
  <2>3. v % Q = v
    BY <1>1, <2>1, Division
  <2>. QED
    BY <1>1, <1>4, <2>1, <2>2, <2>3 DEF Q
<1>5. CASE v < 0
  <2>1. v + P \in 0 .. P - 1 /\ P * (-1) + (v + P) = v
    BY <1>1, <1>3, <1>5 DEF Q
  <2>2. v + Q \in 0 .. Q - 1 /\ Q * (K - 1) + (v + Q) = v + P
    BY <1>1, <1>2, <1>5 DEF Q
  <2>. HIDE DEF P
  <2>3. w = v + P
    BY <1>3, <2>1, Division
  <2>. DEFINE q == K - 1
              d == v + Q
              a == v + P
  <2>. HIDE DEF q, d, a
  <2>4. Q \in Nat \ {0} /\ q \in Int /\ d \in 0 .. Q - 1 /\ a \in Int /\ a = Q * q + d
    BY <1>1, <1>3, <2>2 DEF q, d, a
  <2>5. a % Q = d
    BY <2>4, Division
  <2>. QED
    BY <1>1, <1>5, <2>1, <2>2, <2>3, <2>5 DEF Q, a, d
<1>. QED
  BY <1>4, <1>5 DEF Q

LEMMA Widths ==
  /\ Pow2[IntBits - 1] \in Nat \ {0}
  /\ Pow2[IntBits] = 2 * Pow2[IntBits - 1]
  /\ Pow2[RawBits - IntBits] \in Nat /\ Pow2[RawBits - IntBits] >= 2
  /\ Pow2[RawBits] = Pow2[IntBits] * Pow2[RawBits - IntBits]
  /\ Pow2[RawBits] \in Nat \ {0}
<1>1. IntBits - 1 \in Nat /\ (IntBits - 1) + 1 = IntBits
  BY WidthAssumption
<1>2. RawBits - IntBits \in Nat /\ IntBits + (RawBits - IntBits) = RawBits
  BY WidthAssumption
<1>3. (RawBits - IntBits) - 1 \in Nat /\ ((RawBits - IntBits) - 1) + 1 = RawBits - IntBits
  BY WidthAssumption
<1>4. Pow2[IntBits - 1] \in Nat \ {0} /\ Pow2[(RawBits - IntBits) - 1] \in Nat \ {0}
  BY <1>1, <1>3, Pow2Positive
<1>5. Pow2[IntBits] = 2 * Pow2[IntBits - 1]
  BY <1>1, Pow2Next
<1>6. Pow2[RawBits - IntBits] = 2 * Pow2[(RawBits - IntBits) - 1]
  BY <1>3, Pow2Next
<1>7. Pow2[RawBits] = Pow2[IntBits] * Pow2[RawBits - IntBits]
  BY <1>2, Pow2Sum, WidthAssumption
<1>8. Pow2[RawBits] \in Nat \ {0}
  BY Pow2Positive, WidthAssumption
<1>. QED
  BY <1>4, <1>5, <1>6, <1>7, <1>8

\* An integer other than -1 comes back from its word, which is not that of NULL.
LEMMA IntegerWord ==
  ASSUME NEW v \in Int32 \ {-1}
  PROVE  make_i32(v) \in Raw /\ ~is_null(make_i32(v)) /\ as_i32(make_i32(v)) = v
<1>1. v \in -Pow2[IntBits - 1] .. Pow2[IntBits - 1] - 1 /\ v # -1
  BY DEF Int32
<1>. DEFINE H == Pow2[IntBits - 1]
            K == Pow2[RawBits - IntBits]
<1>2. LET Q == 2 * H
          P == Q * K
          w == v % P
      IN  /\ w \in 0 .. P - 1
          /\ v # -1 => w # P - 1
          /\ (IF (w % Q) >= H THEN (w % Q) - Q ELSE (w % Q)) = v
  <2>1. H \in Nat \ {0} /\ K \in Nat /\ K >= 2 /\ v \in -H .. H - 1
    BY <1>1, Widths
  <2>. HIDE DEF H, K
  <2>. QED
    BY ONLY <2>1, SignExtension, ZenonT(30)
<1>. QED
  BY <1>1, <1>2, Widths DEF make_i32, Raw, is_null, make_null, as_i32

LEMMA NullWord == make_null \in Raw /\ is_null(make_null)
BY Widths DEF make_null, Raw, is_null

\* A reference names the place it was made of, and is not NULL.
LEMMA ReferenceWord ==
  ASSUME NEW t, NEW c, NEW s, Referable(t, c, s)
  PROVE  LET raw == make_str_ref(t, c, s)
         IN  /\ raw \in Raw /\ ~is_null(raw)
             /\ ref_table(raw) = t /\ ref_col(raw) = c /\ ref_slot(raw) = s
<1>. DEFINE C == Pow2[ColBits]
            S == Pow2[SlotBits]
            raw == make_str_ref(t, c, s)
<1>1. C \in Nat \ {0} /\ S \in Nat \ {0}
  BY WidthAssumption, Pow2Positive
<1>2. t \in Nat /\ c \in 0 .. C - 1 /\ s \in 0 .. S - 1 /\ raw = (t * C + c) * S + s /\ raw < make_null
  BY DEF Referable, make_str_ref
<1>3. Pow2[SlotBits + ColBits] = S * C
  BY WidthAssumption, Pow2Sum
<1>. HIDE DEF C, S, raw
<1>. DEFINE u == t * C + c
<1>4. u \in Nat /\ u = C * t + c
  BY <1>1, <1>2
<1>. HIDE DEF u
<1>5. u % C = c /\ u \div C = t
  <2>1. C \in Nat \ {0} /\ t \in Int /\ c \in 0 .. C - 1 /\ u \in Int /\ u = C * t + c
    BY <1>1, <1>2, <1>4
  <2>. QED
    BY <2>1, Division
<1>6. raw = S * u + s
  BY <1>1, <1>2, <1>4 DEF u
<1>7. raw % S = s /\ raw \div S = u
  <2>1. S \in Nat \ {0} /\ u \in Int /\ s \in 0 .. S - 1 /\ raw \in Int /\ raw = S * u + s
    BY <1>1, <1>2, <1>4, <1>6
  <2>. QED
    BY <2>1, Division
<1>8. raw \div (S * C) = t
  <2>1. \A x, y, z \in Nat : x * (y * z) = (x * y) * z
    OBVIOUS
  <2>2. S * u = (S * C) * t + S * c
    <3>1. \A x, y, z \in Nat : x * (y + z) = x * y + x * z
      OBVIOUS
    <3>. QED
      BY <1>1, <1>2, <1>4, <2>1, <3>1
  <2>3. S * c + s \in 0 .. S * C - 1
    <3>1. S * c <= S * (C - 1) /\ S * (C - 1) = S * C - S
      BY <1>1, <1>2
    <3>. QED
      BY <1>1, <1>2, <3>1
  <2>4. S * C \in Nat \ {0}
    BY <1>1
  <2>5. raw = (S * C) * t + (S * c + s)
    BY <1>1, <1>2, <1>6, <2>2
  <2>. DEFINE b == S * C
              d == S * c + s
  <2>. HIDE DEF b, d
  <2>6. b \in Nat \ {0} /\ t \in Int /\ d \in 0 .. b - 1 /\ raw = b * t + d
    BY <1>2, <2>3, <2>4, <2>5 DEF b, d
  <2>7. raw \in Int
    BY <2>6
  <2>8. raw \div b = t
    BY <2>6, <2>7, Division
  <2>. QED
    BY <2>8 DEF b
<1>9. raw \in Raw /\ ~is_null(raw)
  <2>1. raw \in Nat
    BY <1>1, <1>2, <1>4, <1>6
  <2>. QED
    BY <1>2, <2>1, Widths DEF Raw, is_null, make_null
<1>. QED
  BY <1>3, <1>5, <1>7, <1>8, <1>9 DEF ref_table, ref_col, ref_slot, C, S, raw

-----------------------------------------------------------------------------
(* Rows in any order.                                                      *)

\* t has the elements of s, each as often, in some order.
Permuted(s, t) ==
  \E f \in Bijection(DOMAIN s, DOMAIN t) : \A k \in DOMAIN s : s[k] = t[f[k]]

LEMMA PermutedIncluded ==
  ASSUME NEW s, NEW t, IsFiniteSet(DOMAIN s), Permuted(s, t)
  PROVE  Included(s, t) /\ Included(t, s)
<1>1. PICK f \in Bijection(DOMAIN s, DOMAIN t) : \A k \in DOMAIN s : s[k] = t[f[k]]
  BY DEF Permuted
<1>2. /\ f \in [DOMAIN s -> DOMAIN t]
      /\ \A a, b \in DOMAIN s : f[a] = f[b] => a = b
      /\ \A b \in DOMAIN t : \E a \in DOMAIN s : f[a] = b
  BY <1>1, Fun_BijectionProperties
<1>. DEFINE S(row) == {k \in DOMAIN s : s[k] = row}
            T(row) == {k \in DOMAIN t : t[k] = row}
<1>3. ASSUME NEW row PROVE Cardinality(S(row)) = Cardinality(T(row))
  <2>. DEFINE g == [k \in S(row) |-> f[k]]
  <2>1. g \in [S(row) -> T(row)]
    BY <1>1, <1>2
  <2>2. \A a, b \in S(row) : g[a] = g[b] => a = b
    BY <1>2
  <2>3. \A b \in T(row) : \E a \in S(row) : g[a] = b
    BY <1>1, <1>2
  <2>4. IsFiniteSet(S(row))
    BY FS_Subset
  <2>. HIDE DEF g, S, T
  <2>5. g \in Bijection(S(row), T(row))
    BY <2>1, <2>2, <2>3, Fun_IsBij
  <2>. QED
    BY <2>4, <2>5, FS_Bijection DEF ExistsBijection
<1>4. ASSUME NEW row PROVE Cardinality(S(row)) <= Cardinality(T(row)) /\ Cardinality(T(row)) <= Cardinality(S(row))
  <2>1. Cardinality(S(row)) \in Nat
    BY FS_Subset, FS_CardinalityType
  <2>. HIDE DEF S, T
  <2>. QED
    BY <1>3, <2>1
<1>. QED
  BY <1>4 DEF Included

LEMMA PermutedSame == \A s : Permuted(s, s)
<1>. TAKE s
<1>. DEFINE D == DOMAIN s
            f == [k \in D |-> k]
<1>1. f \in [D -> D] /\ \A a, b \in D : f[a] = f[b] => a = b
  OBVIOUS
<1>2. \A b \in D : \E a \in D : f[a] = b
  OBVIOUS
<1>3. \A k \in D : s[k] = s[f[k]]
  OBVIOUS
<1>. HIDE DEF f
<1>4. f \in Bijection(D, D)
  BY <1>1, <1>2, Fun_IsBij
<1>. QED
  BY <1>3, <1>4 DEF Permuted

\* Both ways to put a finite set in a sequence name each element once.
LEMMA SomeSequence ==
  ASSUME NEW S, IsFiniteSet(S)
  PROVE  /\ SetToSeq(S) \in Bijection(1 .. Cardinality(S), S)
         /\ DOMAIN SetToSeq(S) = 1 .. Cardinality(S)
<1>1. Cardinality(S) \in Nat /\ ExistsBijection(1 .. Cardinality(S), S)
  BY FS_CardinalityType
<1>2. PICK f : f \in Bijection(1 .. Cardinality(S), S)
  BY <1>1 DEF ExistsBijection
<1>3. f \in [1 .. Cardinality(S) -> S] /\ IsInjective(f)
  BY <1>2 DEF Bijection, Injection
<1>4. SetToSeq(S) \in [1 .. Cardinality(S) -> S] /\ IsInjective(SetToSeq(S))
  BY <1>3 DEF SetToSeq
<1>5. SetToSeq(S) \in Injection(1 .. Cardinality(S), S)
  BY <1>4 DEF Injection
<1>6. IsFiniteSet(1 .. Cardinality(S)) /\ Cardinality(1 .. Cardinality(S)) = Cardinality(S)
  BY <1>1, FS_Interval
<1>7. SetToSeq(S) \in Surjection(1 .. Cardinality(S), S)
  BY <1>5, <1>6, FS_Injection
<1>. QED
  BY <1>4, <1>5, <1>7 DEF Bijection

LEMMA AnySequence ==
  ASSUME NEW S, IsFiniteSet(S), NEW seq \in SetToSeqs(S)
  PROVE  /\ Cardinality(S) \in Nat
         /\ seq \in Seq(S) /\ Len(seq) = Cardinality(S)
         /\ seq \in Bijection(1 .. Cardinality(S), S)
<1>1. Cardinality(S) \in Nat
  BY FS_CardinalityType
<1>2. /\ seq \in [1 .. Cardinality(S) -> S]
      /\ \A i, j \in 1 .. Cardinality(S) : i # j => seq[i] # seq[j]
  BY DEF SetToSeqs
<1>3. IsInjective(seq)
  BY <1>2 DEF IsInjective
<1>4. seq \in Injection(1 .. Cardinality(S), S)
  BY <1>2, <1>3 DEF Injection
<1>6. IsFiniteSet(1 .. Cardinality(S)) /\ Cardinality(1 .. Cardinality(S)) = Cardinality(S)
  BY <1>1, FS_Interval
<1>7. seq \in Surjection(1 .. Cardinality(S), S)
  BY <1>4, <1>6, FS_Injection
<1>8. seq \in Seq(S) /\ Len(seq) = Cardinality(S)
  BY <1>1, <1>2
<1>. QED
  BY <1>1, <1>4, <1>7, <1>8 DEF Bijection

\* The pairs of rows, from 0, of two lists whose attributes la and ra are equal.
MatchingRows(s, t, la, ra) ==
  {p \in [lidx : 0 .. Len(s) - 1, ridx : 0 .. Len(t) - 1] :
     s[p.lidx + 1][la] # Null /\ s[p.lidx + 1][la] = t[p.ridx + 1][ra]}

LEMMA FinitelyManyPairs ==
  ASSUME NEW m \in Nat, NEW n \in Nat
  PROVE  IsFiniteSet([lidx : 0 .. m - 1, ridx : 0 .. n - 1])
<1>. DEFINE D == (0 .. m - 1) \X (0 .. n - 1)
            R == [lidx : 0 .. m - 1, ridx : 0 .. n - 1]
            f == [p \in D |-> [lidx |-> p[1], ridx |-> p[2]]]
<1>1. IsFiniteSet(D)
  <2>1. m - 1 \in Int /\ n - 1 \in Int
    OBVIOUS
  <2>2. IsFiniteSet(0 .. m - 1) /\ IsFiniteSet(0 .. n - 1)
    BY <2>1, FS_Interval
  <2>. QED
    BY <2>2, FS_Product
<1>2. f \in [D -> R]
  OBVIOUS
<1>3. ASSUME NEW r \in R PROVE \E p \in D : f[p] = r
  <2>1. <<r.lidx, r.ridx>> \in D /\ r = [lidx |-> r.lidx, ridx |-> r.ridx]
    OBVIOUS
  <2>. QED
    BY <2>1
<1>. HIDE DEF f, D, R
<1>4. f \in Surjection(D, R)
  BY <1>2, <1>3, Fun_IsSurj
<1>5. IsFiniteSet(R)
  BY <1>1, <1>4, FS_Surjection
<1>. QED
  BY <1>5 DEF R

LEMMA InverseOfBijection ==
  ASSUME NEW S, NEW T, NEW f \in Bijection(S, T)
  PROVE  \A y \in T : f[Inverse(f, S, T)[y]] = y /\ Inverse(f, S, T)[y] \in S
<1>1. f \in [S -> T] /\ f \in Surjection(S, T)
  BY Fun_BijectionProperties
<1>2. Range(f) = T
  BY <1>1, Fun_SurjectionProperties
<1>3. \A y \in T : f[Inverse(f, S, T)[y]] = y
  BY <1>1, <1>2, Fun_InverseProperties
<1>4. Inverse(f, S, T) \in Bijection(T, S)
  BY Fun_BijInverse
<1>5. Inverse(f, S, T) \in [T -> S]
  BY <1>4, Fun_BijectionProperties
<1>. QED
  BY <1>3, <1>5

LEMMA BijectionParts ==
  ASSUME NEW S, NEW T, NEW f \in Bijection(S, T)
  PROVE  /\ f \in [S -> T]
         /\ \A a, b \in S : f[a] = f[b] => a = b
         /\ \A b \in T : \E a \in S : f[a] = b
BY Fun_BijectionProperties

IsList(s) == Len(s) \in Nat /\ DOMAIN s = 1 .. Len(s)

\* The output rows of pairs of rows of s and t.
PairRows(node, s, t, pairs) ==
  [o \in 1 .. Len(pairs) |->
     [a \in DOMAIN node.attrs |->
        (s[pairs[o].lidx + 1] \o t[pairs[o].ridx + 1])[node.attrs[a].src]]]

\* A join of two lists in any order has the rows of the join of the lists, in any
\* order.
LEMMA JoinPermuted ==
  ASSUME NEW node, NEW s, NEW t, NEW l, NEW r,
         IsList(s), IsList(t), Permuted(s, l), Permuted(t, r),
         NEW pairs \in SetToSeqs(MatchingRows(s, t, node.left_attr, node.right_attr))
  PROVE  Permuted(PairRows(node, s, t, pairs), JoinRows(node, l, r))
<1>s. Len(s) \in Nat /\ DOMAIN s = 1 .. Len(s) /\ Len(t) \in Nat /\ DOMAIN t = 1 .. Len(t)
  BY DEF IsList
<1>f. PICK f \in Bijection(DOMAIN s, DOMAIN l) : \A k \in DOMAIN s : s[k] = l[f[k]]
  BY DEF Permuted
<1>g. PICK g \in Bijection(DOMAIN t, DOMAIN r) : \A k \in DOMAIN t : t[k] = r[g[k]]
  BY DEF Permuted
<1>. USE <1>s, <1>f, <1>g
<1>. DEFINE M == MatchingRows(s, t, node.left_attr, node.right_attr)
            J == {p \in (DOMAIN l) \X (DOMAIN r) :
                    /\ l[p[1]][node.left_attr] # Null
                    /\ l[p[1]][node.left_attr] = r[p[2]][node.right_attr]}
            order == SetToSeq(J)
            image == [p \in M |-> <<f[p.lidx + 1], g[p.ridx + 1]>>]
<1>1. /\ f \in [DOMAIN s -> DOMAIN l]
      /\ \A a, b \in DOMAIN s : f[a] = f[b] => a = b
      /\ \A b \in DOMAIN l : \E a \in DOMAIN s : f[a] = b
  BY ONLY <1>f, BijectionParts
<1>2. /\ g \in [DOMAIN t -> DOMAIN r]
      /\ \A a, b \in DOMAIN t : g[a] = g[b] => a = b
      /\ \A b \in DOMAIN r : \E a \in DOMAIN t : g[a] = b
  BY ONLY <1>g, BijectionParts
<1>3. ASSUME NEW p \in M
      PROVE  /\ p \in [lidx : 0 .. Len(s) - 1, ridx : 0 .. Len(t) - 1]
             /\ p.lidx + 1 \in DOMAIN s /\ p.ridx + 1 \in DOMAIN t
             /\ s[p.lidx + 1][node.left_attr] # Null
             /\ s[p.lidx + 1][node.left_attr] = t[p.ridx + 1][node.right_attr]
  BY DEF MatchingRows
<1>4. ASSUME NEW p \in M PROVE image[p] \in J
  <2>1. f[p.lidx + 1] \in DOMAIN l /\ g[p.ridx + 1] \in DOMAIN r
    BY <1>1, <1>2, <1>3
  <2>2. l[f[p.lidx + 1]] = s[p.lidx + 1] /\ r[g[p.ridx + 1]] = t[p.ridx + 1]
    BY <1>3
  <2>. QED
    BY <1>3, <2>1, <2>2
<1>5. ASSUME NEW p \in M, NEW q \in M, image[p] = image[q] PROVE p = q
  <2>1. p.lidx + 1 = q.lidx + 1 /\ p.ridx + 1 = q.ridx + 1
    BY <1>1, <1>2, <1>3, <1>5, SMTT(60)
  <2>2. p.lidx \in Int /\ q.lidx \in Int /\ p.ridx \in Int /\ q.ridx \in Int
    BY <1>3
  <2>3. p.lidx = q.lidx /\ p.ridx = q.ridx
    BY ONLY <2>1, <2>2
  <2>. QED
    BY <1>3, <2>3
<1>6. ASSUME NEW j \in J PROVE \E p \in M : image[p] = j
  <2>1. j[1] \in DOMAIN l /\ j[2] \in DOMAIN r /\ j = <<j[1], j[2]>>
    OBVIOUS
  <2>2. PICK a \in DOMAIN s : f[a] = j[1]
    BY <1>1, <2>1
  <2>3. PICK b \in DOMAIN t : g[b] = j[2]
    BY <1>2, <2>1
  <2>. DEFINE p == [lidx |-> a - 1, ridx |-> b - 1]
  <2>4. a - 1 \in 0 .. Len(s) - 1 /\ b - 1 \in 0 .. Len(t) - 1 /\ (a - 1) + 1 = a /\ (b - 1) + 1 = b
    OBVIOUS
  <2>5. s[a] = l[j[1]] /\ t[b] = r[j[2]]
    BY <2>2, <2>3
  <2>6. p \in M
    BY <2>4, <2>5 DEF MatchingRows
  <2>7. image[p] = j
    BY <2>1, <2>2, <2>3, <2>4, <2>6
  <2>. QED
    BY <2>6, <2>7
<1>7. IsFiniteSet(M)
  BY FinitelyManyPairs, FS_Subset DEF MatchingRows
<1>8. JoinRows(node, l, r) =
        [o \in DOMAIN order |->
           [a \in DOMAIN node.attrs |-> (l[order[o][1]] \o r[order[o][2]])[node.attrs[a].src]]]
  BY DEF JoinRows
<1>9. ASSUME NEW p \in M PROVE l[image[p][1]] = s[p.lidx + 1] /\ r[image[p][2]] = t[p.ridx + 1]
  BY <1>3
<1>. HIDE DEF J, M
<1>10. image \in [M -> J]
  BY <1>4
<1>. HIDE DEF image
<1>11. image \in Bijection(M, J)
  BY <1>5, <1>6, <1>10, Fun_IsBij
<1>12. IsFiniteSet(J)
  BY <1>7, <1>11, FS_Bijection DEF ExistsBijection
<1>13. order \in Bijection(1 .. Cardinality(J), J) /\ DOMAIN order = 1 .. Cardinality(J)
  BY <1>12, SomeSequence
<1>14. pairs \in Bijection(1 .. Len(pairs), M)
  BY <1>7, AnySequence DEF M
<1>. DEFINE N == 1 .. Cardinality(J)
            back == Inverse(order, N, J)
            both == [o \in 1 .. Len(pairs) |-> image[pairs[o]]]
            h == [o \in 1 .. Len(pairs) |-> back[both[o]]]
<1>. HIDE DEF order
<1>15. back \in Bijection(J, N)
  BY <1>13, Fun_BijInverse
<1>16. \A j \in J : order[back[j]] = j /\ back[j] \in N
  BY ONLY <1>13, InverseOfBijection
<1>17. both \in Bijection(1 .. Len(pairs), J)
  BY <1>11, <1>14, Fun_BijTransitive
<1>. HIDE DEF back, N, both
<1>18. h \in Bijection(1 .. Len(pairs), N)
  BY <1>15, <1>17, Fun_BijTransitive
<1>19. ASSUME NEW o \in 1 .. Len(pairs)
       PROVE  JoinRows(node, l, r)[h[o]] =
               [a \in DOMAIN node.attrs |->
                  (s[pairs[o].lidx + 1] \o t[pairs[o].ridx + 1])[node.attrs[a].src]]
  <2>1. pairs[o] \in M
    BY <1>14, Fun_BijectionProperties
  <2>2. both[o] = image[pairs[o]] /\ image[pairs[o]] \in J
    BY <1>10, <2>1 DEF both
  <2>3. h[o] \in N /\ order[h[o]] = image[pairs[o]]
    BY <1>16, <2>2
  <2>4. l[order[h[o]][1]] = s[pairs[o].lidx + 1] /\ r[order[h[o]][2]] = t[pairs[o].ridx + 1]
    BY <1>9, <2>1, <2>3
  <2>. HIDE DEF h
  <2>5. JoinRows(node, l, r)[h[o]] =
          [a \in DOMAIN node.attrs |-> (l[order[h[o]][1]] \o r[order[h[o]][2]])[node.attrs[a].src]]
    BY <1>8, <1>13, <2>3 DEF N
  <2>. QED
    BY <2>4, <2>5
<1>20. DOMAIN JoinRows(node, l, r) = N
  BY <1>8, <1>13 DEF N
<1>. HIDE DEF h
<1>21. PairRows(node, s, t, pairs) =
         [o \in 1 .. Len(pairs) |->
            [a \in DOMAIN node.attrs |->
               (s[pairs[o].lidx + 1] \o t[pairs[o].ridx + 1])[node.attrs[a].src]]]
  BY DEF PairRows
<1>22. /\ DOMAIN PairRows(node, s, t, pairs) = 1 .. Len(pairs)
       /\ \A o \in 1 .. Len(pairs) : PairRows(node, s, t, pairs)[o] = JoinRows(node, l, r)[h[o]]
  BY <1>19, <1>21, ZenonT(60)
<1>. QED
  BY ONLY <1>18, <1>20, <1>22 DEF Permuted

-----------------------------------------------------------------------------
(* The rows of the nodes.                                                  *)

NodeRows(p, in, rows, n) ==
  IF p.nodes[n].kind = "scan" THEN ScanRows(in, p.nodes[n])
  ELSE JoinRows(p.nodes[n], rows[p.nodes[n].left], rows[p.nodes[n].right])

\* The children of a join come before it.
ChildrenFirst(p) ==
  \A n \in DOMAIN p.nodes :
    p.nodes[n].kind # "scan" => p.nodes[n].left \in 1 .. n - 1 /\ p.nodes[n].right \in 1 .. n - 1

LEMMA RelationalRowsDefined ==
  ASSUME NEW p, NEW in, Len(p.nodes) \in Nat, DOMAIN p.nodes = 1 .. Len(p.nodes), ChildrenFirst(p)
  PROVE  \A n \in DOMAIN p.nodes :
           RelationalRows(p, in)[n] = NodeRows(p, in, RelationalRows(p, in), n)
<1>. DEFINE Is(f, k) == f = [n \in 1 .. k |-> NodeRows(p, in, f, n)]
            S == {k \in Nat : k <= Len(p.nodes) => \E f : Is(f, k)}
<1>1. 0 \in S
  <2>. DEFINE f == [n \in 1 .. 0 |-> 0]
  <2>1. Is(f, 0)
    OBVIOUS
  <2>. QED
    BY <2>1
<1>2. ASSUME NEW k \in Nat, k \in S PROVE k + 1 \in S
  <2>. SUFFICES ASSUME k + 1 <= Len(p.nodes) PROVE \E f : Is(f, k + 1)
    OBVIOUS
  <2>1. PICK f : Is(f, k)
    BY <1>2
  <2>. DEFINE g == [n \in 1 .. k + 1 |-> IF n = k + 1 THEN NodeRows(p, in, f, k + 1) ELSE f[n]]
  <2>2. ASSUME NEW n \in 1 .. k + 1 PROVE g[n] = NodeRows(p, in, g, n)
    <3>1. g[n] = NodeRows(p, in, f, n)
      <4>1. CASE n = k + 1
        BY <4>1
      <4>2. CASE n # k + 1
        <5>1. n \in 1 .. k
          BY <4>2
        <5>2. f[n] = NodeRows(p, in, f, n)
          BY <2>1, <5>1
        <5>. QED
          BY <4>2, <5>2
      <4>. QED
        BY <4>1, <4>2
    <3>2. ASSUME NEW m \in 1 .. n - 1 PROVE g[m] = f[m]
      OBVIOUS
    <3>3. n \in DOMAIN p.nodes
      OBVIOUS
    <3>. HIDE DEF g
    <3>4. NodeRows(p, in, g, n) = NodeRows(p, in, f, n)
      BY <3>2, <3>3 DEF NodeRows, ChildrenFirst
    <3>. QED
      BY <3>1, <3>4
  <2>3. Is(g, k + 1)
    <3>1. g = [n \in 1 .. k + 1 |-> g[n]]
      OBVIOUS
    <3>. HIDE DEF g
    <3>. QED
      BY <2>2, <3>1
  <2>. HIDE DEF g
  <2>. QED
    BY <2>3
<1>. HIDE DEF S
<1>3. Len(p.nodes) \in S
  BY <1>1, <1>2, Induction
<1>4. PICK f : f = [n \in DOMAIN p.nodes |-> NodeRows(p, in, f, n)]
  BY <1>3 DEF S
<1>. DEFINE all == CHOOSE rows : rows = [n \in DOMAIN p.nodes |-> NodeRows(p, in, rows, n)]
<1>5. all = [n \in DOMAIN p.nodes |-> NodeRows(p, in, all, n)]
  BY <1>4
<1>6. RelationalRows(p, in) = all
  BY DEF RelationalRows, NodeRows
<1>. HIDE DEF all
<1>7. \A n \in DOMAIN p.nodes : all[n] = NodeRows(p, in, all, n)
  BY <1>5
<1>. QED
  BY <1>6, <1>7

-----------------------------------------------------------------------------
(* Buffers.                                                                *)

\* RowsOf for given inputs.
CellIn(in, type, raw) ==
  IF is_null(raw) THEN Null
  ELSE IF type = "INT32" THEN as_i32(raw)
  ELSE in[ref_table(raw)].columns[ref_col(raw)].cells[ref_slot(raw)]

RowsIn(in, buffer) ==
  [r \in 1 .. buffer.num_rows |->
     [a \in DOMAIN buffer.columns |-> CellIn(in, buffer.types[a], Get(buffer.columns[a], r - 1))]]

LEMMA RowsOfIn == \A buffer : RowsOf(buffer) = RowsIn(inputs, buffer)
BY DEF RowsOf, RowsIn, Cell, CellIn, Resolve

\* A column of n rows: its words are in range, and a column that is not copied has
\* integers that are no word's NULL.
ColumnFits(column, type, n) ==
  IF column.zero_copy
    THEN /\ type = "INT32"
         /\ DOMAIN column.cells = 1 .. n
         /\ \A r \in 1 .. n : column.cells[r] \in Int32 \ {-1}
    ELSE /\ DOMAIN column.values = 1 .. n
         /\ \A r \in 1 .. n : column.values[r] \in Raw

BufferFits(buffer, attrs) ==
  /\ buffer.num_rows \in Nat
  /\ buffer.columns = [a \in DOMAIN attrs |-> buffer.columns[a]]
  /\ \A a \in DOMAIN attrs :
       /\ buffer.types[a] = attrs[a].type
       /\ ColumnFits(buffer.columns[a], attrs[a].type, buffer.num_rows)

\* A word of a scan stands for the cell it was made of.
LEMMA ScannedWord ==
  ASSUME InputsFit, NEW t \in DOMAIN inputs, NEW c \in DOMAIN inputs[t].columns,
         NEW r \in 1 .. inputs[t].num_rows
  PROVE  /\ Materialised(t, c, r) \in Raw
         /\ CellIn(inputs, inputs[t].columns[c].type, Materialised(t, c, r))
              = inputs[t].columns[c].cells[r]
<1>. DEFINE column == inputs[t].columns[c]
            cell == column.cells[r]
<1>1. /\ column.type \in {"INT32", "VARCHAR"}
      /\ cell # Null => IF column.type = "INT32" THEN cell \in Int32 \ {-1} ELSE Referable(t, c, r)
  BY DEF InputsFit
<1>2. CASE cell = Null
  BY <1>2, NullWord DEF Materialised, CellIn
<1>3. CASE cell # Null /\ column.type = "INT32"
  <2>1. cell \in Int32 \ {-1}
    BY <1>1, <1>3
  <2>2. Materialised(t, c, r) = make_i32(cell)
    BY <1>3 DEF Materialised
  <2>. QED
    BY <1>3, <2>1, <2>2, IntegerWord DEF CellIn
<1>4. CASE cell # Null /\ column.type # "INT32"
  <2>1. Referable(t, c, r)
    BY <1>1, <1>4
  <2>2. Materialised(t, c, r) = make_str_ref(t, c, r)
    BY <1>4 DEF Materialised
  <2>. QED
    BY <1>4, <2>1, <2>2, ReferenceWord DEF CellIn
<1>. QED
  BY <1>2, <1>3, <1>4

LEMMA ScannedColumn ==
  ASSUME InputsFit, NEW t \in DOMAIN inputs, NEW c \in DOMAIN inputs[t].columns
  PROVE  LET column == inputs[t].columns[c]
             n == inputs[t].num_rows
         IN  /\ ColumnFits(ScanColumn(t, c), column.type, n)
             /\ \A r \in 1 .. n :
                  CellIn(inputs, column.type, Get(ScanColumn(t, c), r - 1)) = column.cells[r]
<1>. DEFINE column == inputs[t].columns[c]
            n == inputs[t].num_rows
<1>1. n \in Nat /\ DOMAIN column.cells = 1 .. n
  BY DEF InputsFit
<1>2. CASE column.type = "INT32" /\ ~HasNulls(column.cells)
  <2>1. ScanColumn(t, c) = [zero_copy |-> TRUE, cells |-> column.cells, values |-> <<>>]
    BY <1>2 DEF ScanColumn
  <2>2. ASSUME NEW r \in 1 .. n PROVE column.cells[r] \in Int32 \ {-1}
    BY <1>1, <1>2 DEF InputsFit, HasNulls
  <2>3. ASSUME NEW r \in 1 .. n
        PROVE  CellIn(inputs, column.type, Get(ScanColumn(t, c), r - 1)) = column.cells[r]
    <3>1. (r - 1) + 1 = r
      BY <1>1
    <3>2. Get(ScanColumn(t, c), r - 1) = make_i32(column.cells[r])
      BY <2>1, <3>1 DEF Get
    <3>. QED
      BY <1>2, <2>2, <3>2, IntegerWord DEF CellIn
  <2>4. ColumnFits(ScanColumn(t, c), column.type, n)
    BY <1>1, <1>2, <2>1, <2>2 DEF ColumnFits
  <2>. QED
    BY <2>3, <2>4
<1>3. CASE ~(column.type = "INT32" /\ ~HasNulls(column.cells))
  <2>1. ScanColumn(t, c) = [zero_copy |-> FALSE, cells |-> <<>>,
                            values |-> [r \in 1 .. n |-> Materialised(t, c, r)]]
    BY <1>1, <1>3 DEF ScanColumn
  <2>2. ASSUME NEW r \in 1 .. n
        PROVE  CellIn(inputs, column.type, Get(ScanColumn(t, c), r - 1)) = column.cells[r]
    <3>1. (r - 1) + 1 = r
      BY <1>1
    <3>2. Get(ScanColumn(t, c), r - 1) = Materialised(t, c, r)
      BY <2>1, <3>1 DEF Get
    <3>. QED
      BY <3>2, ScannedWord
  <2>3. ColumnFits(ScanColumn(t, c), column.type, n)
    BY <2>1, ScannedWord DEF ColumnFits
  <2>. QED
    BY <2>2, <2>3
<1>. QED
  BY <1>2, <1>3

ScanBuffer(node) ==
  [num_rows |-> inputs[node.table].num_rows,
   types    |-> [a \in DOMAIN node.attrs |-> node.attrs[a].type],
   columns  |-> [a \in DOMAIN node.attrs |-> ScanColumn(node.table, node.attrs[a].src)]]

LEMMA ScanCorrect ==
  ASSUME InputsFit, NEW node, ScanFits(node)
  PROVE  /\ BufferFits(ScanBuffer(node), node.attrs)
         /\ RowsIn(inputs, ScanBuffer(node)) = ScanRows(inputs, node)
<1>. DEFINE t == node.table
            n == inputs[t].num_rows
            buffer == ScanBuffer(node)
<1>1. t \in DOMAIN inputs /\ n \in Nat
  BY DEF ScanFits, InputsFit
<1>2. ASSUME NEW a \in DOMAIN node.attrs
      PROVE  /\ node.attrs[a].src \in DOMAIN inputs[t].columns
             /\ node.attrs[a].type = inputs[t].columns[node.attrs[a].src].type
  BY DEF ScanFits
<1>3. /\ buffer.num_rows = n
      /\ DOMAIN buffer.columns = DOMAIN node.attrs
      /\ buffer.columns = [a \in DOMAIN node.attrs |-> buffer.columns[a]]
      /\ \A a \in DOMAIN node.attrs :
           /\ buffer.types[a] = node.attrs[a].type
           /\ buffer.columns[a] = ScanColumn(t, node.attrs[a].src)
  BY DEF ScanBuffer
<1>. HIDE DEF buffer, t, n
<1>4. BufferFits(buffer, node.attrs)
  BY <1>1, <1>2, <1>3, ScannedColumn DEF BufferFits, n
<1>5. ASSUME NEW r \in 1 .. n, NEW a \in DOMAIN node.attrs
      PROVE  CellIn(inputs, buffer.types[a], Get(buffer.columns[a], r - 1))
               = inputs[t].columns[node.attrs[a].src].cells[r]
  <2>. DEFINE c == node.attrs[a].src
  <2>1. c \in DOMAIN inputs[t].columns
    BY <1>2
  <2>2. \A k \in 1 .. inputs[t].num_rows :
          CellIn(inputs, inputs[t].columns[c].type, Get(ScanColumn(t, c), k - 1))
            = inputs[t].columns[c].cells[k]
    BY <1>1, <2>1, ScannedColumn
  <2>3. CellIn(inputs, inputs[t].columns[c].type, Get(ScanColumn(t, c), r - 1))
          = inputs[t].columns[c].cells[r]
    BY <2>2 DEF n
  <2>. QED
    BY <1>2, <1>3, <2>3
<1>6. RowsIn(inputs, buffer) =
        [r \in 1 .. n |-> [a \in DOMAIN node.attrs |->
           CellIn(inputs, buffer.types[a], Get(buffer.columns[a], r - 1))]]
  BY <1>3 DEF RowsIn
<1>7. RowsIn(inputs, buffer) =
        [r \in 1 .. n |-> [a \in DOMAIN node.attrs |->
           inputs[t].columns[node.attrs[a].src].cells[r]]]
  BY <1>5, <1>6
<1>. QED
  BY <1>4, <1>7 DEF ScanRows, buffer, t, n

\* The key run_int32 sees is the cell.
LEMMA KeyIsCell ==
  ASSUME NEW in, NEW column, NEW n \in Nat, ColumnFits(column, "INT32", n), NEW r \in 1 .. n
  PROVE  Key(column, r - 1) = CellIn(in, "INT32", Get(column, r - 1))
<1>1. (r - 1) + 1 = r
  OBVIOUS
<1>2. CASE column.zero_copy
  <2>1. column.cells[r] \in Int32 \ {-1}
    BY <1>2 DEF ColumnFits
  <2>2. Key(column, r - 1) = column.cells[r] /\ Get(column, r - 1) = make_i32(column.cells[r])
    BY <1>1, <1>2 DEF Key, Get
  <2>. QED
    BY <2>1, <2>2, IntegerWord DEF CellIn
<1>3. CASE ~column.zero_copy
  BY <1>1, <1>3 DEF Key, Get, CellIn
<1>. QED
  BY <1>2, <1>3

\* Any word that is copied from a column is a word.
LEMMA WordRead ==
  ASSUME NEW column, NEW type, NEW n \in Nat, ColumnFits(column, type, n), NEW r \in 1 .. n
  PROVE  Get(column, r - 1) \in Raw
<1>1. (r - 1) + 1 = r
  OBVIOUS
<1>. QED
  BY <1>1, IntegerWord DEF ColumnFits, Get

LEMMA SequencesJoined ==
  ASSUME NEW V, NEW s \in Seq(V), NEW t \in Seq(V), NEW m, NEW n, Len(s) = m, Len(t) = n
  PROVE  /\ s \o t \in Seq(V)
         /\ Len(s \o t) = m + n
         /\ \A i \in 1 .. m : (s \o t)[i] = s[i]
         /\ \A i \in 1 .. n : (s \o t)[m + i] = t[i]
<1>1. /\ s \o t \in Seq(V)
      /\ Len(s \o t) = Len(s) + Len(t)
      /\ \A i \in 1 .. Len(s) : (s \o t)[i] = s[i]
      /\ \A i \in 1 .. Len(t) : (s \o t)[Len(s) + i] = t[i]
  BY ONLY s \in Seq(V), t \in Seq(V), Concatenation
<1>. QED
  BY <1>1

\* Two lists of known length, one behind the other.
LEMMA BothSides ==
  ASSUME NEW m \in Nat, NEW n \in Nat, NEW s, NEW t,
         s = [i \in 1 .. m |-> s[i]], t = [i \in 1 .. n |-> t[i]]
  PROVE  /\ Len(s) = m /\ Len(t) = n
         /\ DOMAIN (s \o t) = 1 .. m + n
         /\ \A i \in 1 .. m + n : (s \o t)[i] = IF i <= m THEN s[i] ELSE t[i - m]
<1>. DEFINE V == {s[i] : i \in 1 .. m} \union {t[i] : i \in 1 .. n}
<1>1. s \in [1 .. m -> V] /\ t \in [1 .. n -> V]
  OBVIOUS
<1>. HIDE DEF V
<1>2. s \in Seq(V) /\ t \in Seq(V) /\ Len(s) = m /\ Len(t) = n
  BY <1>1
<1>3. /\ s \o t \in Seq(V)
      /\ Len(s \o t) = m + n
      /\ \A i \in 1 .. m : (s \o t)[i] = s[i]
      /\ \A i \in 1 .. n : (s \o t)[m + i] = t[i]
  <2>1. /\ s \o t \in Seq(V)
        /\ Len(s \o t) = Len(s) + Len(t)
        /\ \A i \in 1 .. Len(s) : (s \o t)[i] = s[i]
        /\ \A i \in 1 .. Len(t) : (s \o t)[Len(s) + i] = t[i]
    <3>1. s \in Seq(V) /\ t \in Seq(V)
      BY <1>2
    <3>. QED
      BY ONLY <3>1, Concatenation
  <2>. QED
    BY ONLY <1>2, <2>1
<1>4. DOMAIN (s \o t) = 1 .. m + n
  BY <1>3
<1>5. ASSUME NEW i \in 1 .. m + n, ~(i <= m) PROVE (s \o t)[i] = t[i - m]
  <2>1. i - m \in 1 .. n /\ m + (i - m) = i
    BY <1>5
  <2>. QED
    BY <1>3, <2>1
<1>. QED
  BY <1>2, <1>3, <1>4, <1>5

JoinBuffer(node, lbuf, rbuf, pairs) ==
  [num_rows |-> Len(pairs),
   types    |-> [a \in DOMAIN node.attrs |-> node.attrs[a].type],
   columns  |-> [a \in DOMAIN node.attrs |->
                   OutputColumn(lbuf, rbuf, node.attrs[a].src, pairs)]]

\* The pairs of a join on integers are those of the rows the buffers stand for.
LEMMA MatchingCells ==
  ASSUME NEW in, NEW lbuf, NEW rbuf, NEW lattrs, NEW rattrs, NEW la \in DOMAIN lattrs, NEW ra \in DOMAIN rattrs,
         BufferFits(lbuf, lattrs), BufferFits(rbuf, rattrs),
         lattrs[la].type = "INT32", rattrs[ra].type = "INT32"
  PROVE  Join(Keys(lbuf, la), Keys(rbuf, ra))!Matching
           = MatchingRows(RowsIn(in, lbuf), RowsIn(in, rbuf), la, ra)
<1>. DEFINE m == lbuf.num_rows
            n == rbuf.num_rows
            s == RowsIn(in, lbuf)
            t == RowsIn(in, rbuf)
            lk == Keys(lbuf, la)
            rk == Keys(rbuf, ra)
<1>1. m \in Nat /\ n \in Nat
  BY DEF BufferFits
<1>2. /\ ColumnFits(lbuf.columns[la], "INT32", m) /\ lbuf.types[la] = "INT32" /\ la \in DOMAIN lbuf.columns
      /\ ColumnFits(rbuf.columns[ra], "INT32", n) /\ rbuf.types[ra] = "INT32" /\ ra \in DOMAIN rbuf.columns
  BY DEF BufferFits
<1>3. lk = [r \in 1 .. m |-> lk[r]] /\ rk = [r \in 1 .. n |-> rk[r]]
  BY DEF Keys
<1>4. s = [r \in 1 .. m |-> s[r]] /\ t = [r \in 1 .. n |-> t[r]]
  BY DEF RowsIn
<1>5. ASSUME NEW r \in 1 .. m PROVE lk[r] = s[r][la]
  <2>1. lk[r] = Key(lbuf.columns[la], r - 1)
    BY DEF Keys
  <2>2. s[r][la] = CellIn(in, "INT32", Get(lbuf.columns[la], r - 1))
    BY <1>2 DEF RowsIn
  <2>. QED
    BY <1>1, <1>2, <2>1, <2>2, KeyIsCell
<1>6. ASSUME NEW r \in 1 .. n PROVE rk[r] = t[r][ra]
  <2>1. rk[r] = Key(rbuf.columns[ra], r - 1)
    BY DEF Keys
  <2>2. t[r][ra] = CellIn(in, "INT32", Get(rbuf.columns[ra], r - 1))
    BY <1>2 DEF RowsIn
  <2>. QED
    BY <1>1, <1>2, <2>1, <2>2, KeyIsCell
<1>. HIDE DEF m, n, s, t, lk, rk
<1>7. Len(lk) = m /\ Len(rk) = n /\ Len(s) = m /\ Len(t) = n
  BY <1>1, <1>3, <1>4, BothSides
<1>8. Join(lk, rk)!Matching =
        {p \in [lidx : 0 .. m - 1, ridx : 0 .. n - 1] :
           lk[p.lidx + 1] # Null /\ lk[p.lidx + 1] = rk[p.ridx + 1]}
  BY <1>7 DEF Join!Matching, Join!Pair
<1>9. ASSUME NEW p \in [lidx : 0 .. m - 1, ridx : 0 .. n - 1]
      PROVE  lk[p.lidx + 1] = s[p.lidx + 1][la] /\ rk[p.ridx + 1] = t[p.ridx + 1][ra]
  <2>1. p.lidx + 1 \in 1 .. m /\ p.ridx + 1 \in 1 .. n
    BY <1>1
  <2>. QED
    BY <1>5, <1>6, <2>1
<1>10. Join(lk, rk)!Matching = MatchingRows(s, t, la, ra)
  BY <1>7, <1>8, <1>9 DEF MatchingRows
<1>. QED
  BY <1>10 DEF s, t, lk, rk

LEMMA JoinCorrect ==
  ASSUME NEW in, NEW node, NEW lattrs \in Seq(Attribute), NEW rattrs \in Seq(Attribute),
         NEW lbuf, NEW rbuf, NEW l, NEW r,
         JoinFits(node, lattrs, rattrs), lattrs[node.left_attr].type = "INT32",
         BufferFits(lbuf, lattrs), BufferFits(rbuf, rattrs),
         Permuted(RowsIn(in, lbuf), l), Permuted(RowsIn(in, rbuf), r),
         NEW pairs \in SetToSeqs(Join(Keys(lbuf, node.left_attr), Keys(rbuf, node.right_attr))!Matching)
  PROVE  /\ BufferFits(JoinBuffer(node, lbuf, rbuf, pairs), node.attrs)
         /\ Permuted(RowsIn(in, JoinBuffer(node, lbuf, rbuf, pairs)), JoinRows(node, l, r))
<1>. DEFINE m == lbuf.num_rows
            n == rbuf.num_rows
            s == RowsIn(in, lbuf)
            t == RowsIn(in, rbuf)
            lc == Len(lattrs)
            rc == Len(rattrs)
            buffer == JoinBuffer(node, lbuf, rbuf, pairs)
            M == MatchingRows(s, t, node.left_attr, node.right_attr)
<1>1. m \in Nat /\ n \in Nat
  BY DEF BufferFits
<1>2. lc \in Nat /\ rc \in Nat /\ DOMAIN lattrs = 1 .. lc /\ DOMAIN rattrs = 1 .. rc
  OBVIOUS
<1>3. lattrs = [a \in 1 .. lc |-> lattrs[a]] /\ rattrs = [a \in 1 .. rc |-> rattrs[a]]
  OBVIOUS
<1>4. /\ DOMAIN (lattrs \o rattrs) = 1 .. lc + rc
      /\ \A i \in 1 .. lc + rc : (lattrs \o rattrs)[i] = IF i <= lc THEN lattrs[i] ELSE rattrs[i - lc]
  BY <1>2, <1>3, BothSides
<1>5. /\ lbuf.columns = [a \in 1 .. lc |-> lbuf.columns[a]]
      /\ rbuf.columns = [a \in 1 .. rc |-> rbuf.columns[a]]
      /\ \A a \in 1 .. lc : lbuf.types[a] = lattrs[a].type /\ ColumnFits(lbuf.columns[a], lattrs[a].type, m)
      /\ \A a \in 1 .. rc : rbuf.types[a] = rattrs[a].type /\ ColumnFits(rbuf.columns[a], rattrs[a].type, n)
  BY <1>2 DEF BufferFits
<1>6. Len(lbuf.columns) = lc
  BY <1>2, <1>5, BothSides
<1>7. s = [k \in 1 .. m |-> [a \in 1 .. lc |-> s[k][a]]] /\ t = [k \in 1 .. n |-> [a \in 1 .. rc |-> t[k][a]]]
  <2>1. DOMAIN lbuf.columns = 1 .. lc /\ DOMAIN rbuf.columns = 1 .. rc
    BY <1>5
  <2>. QED
    BY <2>1 DEF RowsIn
<1>8. ASSUME NEW k \in 1 .. m, NEW a \in 1 .. lc
      PROVE  s[k][a] = CellIn(in, lattrs[a].type, Get(lbuf.columns[a], k - 1))
  BY <1>5 DEF RowsIn
<1>9. ASSUME NEW k \in 1 .. n, NEW a \in 1 .. rc
      PROVE  t[k][a] = CellIn(in, rattrs[a].type, Get(rbuf.columns[a], k - 1))
  BY <1>5 DEF RowsIn
<1>10. Join(Keys(lbuf, node.left_attr), Keys(rbuf, node.right_attr))!Matching = M
  <2>1. /\ node.left_attr \in DOMAIN lattrs /\ node.right_attr \in DOMAIN rattrs
        /\ rattrs[node.right_attr].type = "INT32"
    BY DEF JoinFits
  <2>. QED
    BY <2>1, MatchingCells
<1>. HIDE DEF s, t, m, n, lc, rc
<1>11. /\ s = [k \in 1 .. m |-> s[k]] /\ DOMAIN s = 1 .. m
       /\ t = [k \in 1 .. n |-> t[k]] /\ DOMAIN t = 1 .. n
  BY <1>7
<1>12. Len(s) = m /\ Len(t) = n
  BY <1>1, <1>11, BothSides
<1>13. pairs \in SetToSeqs(M)
  BY <1>10
<1>14. IsFiniteSet(M)
  BY <1>1, <1>12, FinitelyManyPairs, FS_Subset DEF MatchingRows
<1>15. pairs \in Seq(M) /\ Len(pairs) \in Nat
  BY <1>13, <1>14, AnySequence
<1>16. ASSUME NEW o \in 1 .. Len(pairs)
       PROVE  /\ pairs[o].lidx \in Int /\ pairs[o].lidx + 1 \in 1 .. m
              /\ pairs[o].ridx \in Int /\ pairs[o].ridx + 1 \in 1 .. n
  <2>1. pairs[o] \in M
    BY <1>15
  <2>2. pairs[o] \in [lidx : 0 .. m - 1, ridx : 0 .. n - 1]
    BY <1>12, <2>1 DEF MatchingRows
  <2>. QED
    BY <1>1, <2>2
\* The words of a column of the output.
<1>17. ASSUME NEW o \in 1 .. Len(pairs), NEW a \in DOMAIN node.attrs
       PROVE  LET raw == OutputColumn(lbuf, rbuf, node.attrs[a].src, pairs).values[o]
              IN  /\ raw \in Raw
                  /\ CellIn(in, node.attrs[a].type, raw) =
                       (s[pairs[o].lidx + 1] \o t[pairs[o].ridx + 1])[node.attrs[a].src]
  <2>. DEFINE src == node.attrs[a].src
              i == pairs[o].lidx
              j == pairs[o].ridx
              raw == OutputColumn(lbuf, rbuf, src, pairs).values[o]
              both == s[i + 1] \o t[j + 1]
  <2>1. src \in 1 .. lc + rc /\ node.attrs[a].type = (lattrs \o rattrs)[src].type
    BY <1>4 DEF JoinFits
  <2>2. i \in Int /\ i + 1 \in 1 .. m /\ (i + 1) - 1 = i /\ j \in Int /\ j + 1 \in 1 .. n /\ (j + 1) - 1 = j
    BY <1>16
  <2>3. DOMAIN pairs = 1 .. Len(pairs)
    BY <1>15
  <2>4. raw = IF src <= lc THEN Get(lbuf.columns[src], i) ELSE Get(rbuf.columns[src - lc], j)
    BY <1>6, <2>3 DEF OutputColumn
  <2>. HIDE DEF src, i, j, raw
  <2>5. s[i + 1] = [k \in 1 .. lc |-> s[i + 1][k]] /\ t[j + 1] = [k \in 1 .. rc |-> t[j + 1][k]]
    BY <1>7, <2>2
  <2>6. both[src] = IF src <= lc THEN s[i + 1][src] ELSE t[j + 1][src - lc]
    BY <1>2, <2>1, <2>5, BothSides DEF lc, rc
  <2>. HIDE DEF both
  <2>7. CASE src <= lc
    <3>1. src \in 1 .. lc
      BY <1>2, <2>1, <2>7 DEF lc, rc
    <3>2. raw = Get(lbuf.columns[src], (i + 1) - 1) /\ both[src] = s[i + 1][src]
      BY <2>2, <2>4, <2>6, <2>7
    <3>3. node.attrs[a].type = lattrs[src].type
      BY <1>4, <2>1, <2>7
    <3>4. ColumnFits(lbuf.columns[src], lattrs[src].type, m)
      BY <1>5, <3>1
    <3>5. raw \in Raw
      BY <1>1, <2>2, <3>2, <3>4, WordRead
    <3>6. s[i + 1][src] = CellIn(in, lattrs[src].type, Get(lbuf.columns[src], (i + 1) - 1))
      BY <1>8, <2>2, <3>1
    <3>. QED
      BY <3>2, <3>3, <3>5, <3>6 DEF raw, both, src, i, j
  <2>8. CASE ~(src <= lc)
    <3>. DEFINE b == src - lc
    <3>1. b \in 1 .. rc
      BY <1>2, <2>1, <2>8 DEF lc, rc
    <3>2. raw = Get(rbuf.columns[b], (j + 1) - 1) /\ both[src] = t[j + 1][b]
      BY <2>2, <2>4, <2>6, <2>8
    <3>3. node.attrs[a].type = rattrs[b].type
      BY <1>4, <2>1, <2>8
    <3>. HIDE DEF b
    <3>4. ColumnFits(rbuf.columns[b], rattrs[b].type, n)
      BY <1>5, <3>1
    <3>5. raw \in Raw
      BY <1>1, <2>2, <3>2, <3>4, WordRead
    <3>6. t[j + 1][b] = CellIn(in, rattrs[b].type, Get(rbuf.columns[b], (j + 1) - 1))
      BY <1>9, <2>2, <3>1
    <3>. QED
      BY <3>2, <3>3, <3>5, <3>6 DEF raw, both, src, i, j
  <2>. QED
    BY <2>7, <2>8
<1>18. /\ buffer.num_rows = Len(pairs)
       /\ DOMAIN buffer.columns = DOMAIN node.attrs
       /\ buffer.columns = [a \in DOMAIN node.attrs |-> buffer.columns[a]]
       /\ \A a \in DOMAIN node.attrs :
            /\ buffer.types[a] = node.attrs[a].type
            /\ buffer.columns[a] = OutputColumn(lbuf, rbuf, node.attrs[a].src, pairs)
  BY DEF JoinBuffer
<1>19. DOMAIN pairs = 1 .. Len(pairs)
  BY <1>15
<1>20. ASSUME NEW a \in DOMAIN node.attrs
       PROVE  /\ ~buffer.columns[a].zero_copy
              /\ DOMAIN buffer.columns[a].values = 1 .. Len(pairs)
              /\ \A o \in 1 .. Len(pairs) : buffer.columns[a].values[o] \in Raw
  <2>1. buffer.columns[a] = OutputColumn(lbuf, rbuf, node.attrs[a].src, pairs)
    BY <1>18
  <2>2. /\ ~OutputColumn(lbuf, rbuf, node.attrs[a].src, pairs).zero_copy
        /\ DOMAIN OutputColumn(lbuf, rbuf, node.attrs[a].src, pairs).values = 1 .. Len(pairs)
    BY <1>19 DEF OutputColumn
  <2>. QED
    BY <1>17, <2>1, <2>2
<1>. HIDE DEF buffer, M
<1>21. BufferFits(buffer, node.attrs)
  BY <1>15, <1>18, <1>20 DEF BufferFits, ColumnFits
<1>22. RowsIn(in, buffer) =
         [o \in 1 .. Len(pairs) |->
            [a \in DOMAIN node.attrs |->
               (s[pairs[o].lidx + 1] \o t[pairs[o].ridx + 1])[node.attrs[a].src]]]
  <2>1. RowsIn(in, buffer) =
          [o \in 1 .. Len(pairs) |->
             [a \in DOMAIN node.attrs |-> CellIn(in, buffer.types[a], Get(buffer.columns[a], o - 1))]]
    BY <1>18 DEF RowsIn
  <2>2. ASSUME NEW o \in 1 .. Len(pairs), NEW a \in DOMAIN node.attrs
        PROVE  CellIn(in, buffer.types[a], Get(buffer.columns[a], o - 1)) =
                 (s[pairs[o].lidx + 1] \o t[pairs[o].ridx + 1])[node.attrs[a].src]
    <3>1. (o - 1) + 1 = o
      BY <1>15
    <3>2. Get(buffer.columns[a], o - 1) = buffer.columns[a].values[o]
      BY <1>20, <3>1 DEF Get
    <3>3. buffer.columns[a] = OutputColumn(lbuf, rbuf, node.attrs[a].src, pairs)
          /\ buffer.types[a] = node.attrs[a].type
      BY <1>18
    <3>. DEFINE raw == OutputColumn(lbuf, rbuf, node.attrs[a].src, pairs).values[o]
    <3>4. CellIn(in, node.attrs[a].type, raw) =
            (s[pairs[o].lidx + 1] \o t[pairs[o].ridx + 1])[node.attrs[a].src]
      BY <1>17
    <3>5. Get(buffer.columns[a], o - 1) = raw
      BY <3>2, <3>3
    <3>. HIDE DEF raw
    <3>. QED
      BY <3>3, <3>4, <3>5
  <2>. QED
    BY <2>1, <2>2
<1>23. Permuted(RowsIn(in, buffer), JoinRows(node, l, r))
  <2>1. IsList(s) /\ IsList(t)
    BY <1>1, <1>11, <1>12 DEF IsList
  <2>2. pairs \in SetToSeqs(MatchingRows(s, t, node.left_attr, node.right_attr))
    BY <1>13 DEF M
  <2>3. Permuted(s, l) /\ Permuted(t, r)
    BY DEF s, t
  <2>4. Permuted(PairRows(node, s, t, pairs), JoinRows(node, l, r))
    BY ONLY <2>1, <2>2, <2>3, JoinPermuted
  <2>. QED
    BY <1>22, <2>4 DEF PairRows
<1>. QED
  BY <1>21, <1>23 DEF buffer

-----------------------------------------------------------------------------
(* The execution.                                                          *)

\* The buffer of a node has the node's columns and rows.
BufferMeans(p, in, n, buffer) ==
  /\ n \in DOMAIN p.nodes
  /\ BufferFits(buffer, p.nodes[n].attrs)
  /\ Permuted(RowsIn(in, buffer), RelationalRows(p, in)[n])

ExecInv ==
  /\ outcome \in {"loading", "running", "threw", "done"}
  /\ outcome = "loading" => calls = <<>> /\ DOMAIN buffers = {}
  /\ calls \in Seq(DOMAIN plan.nodes)
  /\ \A n \in DOMAIN buffers : BufferMeans(plan, inputs, n, buffers[n])

\* What a plan that fits says of the node of the current call.
LEMMA CurrentNode ==
  ASSUME PlanFits, ExecInv, calls # <<>>
  PROVE  LET n == calls[Len(calls)]
         IN  /\ n \in DOMAIN plan.nodes /\ Node = plan.nodes[n]
             /\ InputsFit
             /\ Node.attrs \in Seq(Attribute)
             /\ Node.kind = "scan" => ScanFits(Node)
             /\ Node.kind # "scan" =>
                  /\ Node.left \in DOMAIN plan.nodes /\ Node.right \in DOMAIN plan.nodes
                  /\ plan.nodes[Node.left].attrs \in Seq(Attribute)
                  /\ plan.nodes[Node.right].attrs \in Seq(Attribute)
                  /\ JoinFits(Node, plan.nodes[Node.left].attrs, plan.nodes[Node.right].attrs)
             /\ RelationalRows(plan, inputs)[n] = NodeRows(plan, inputs, RelationalRows(plan, inputs), n)
<1>. DEFINE n == calls[Len(calls)]
<1>1. calls \in Seq(DOMAIN plan.nodes)
  BY DEF ExecInv
<1>2. n \in DOMAIN plan.nodes /\ Node = plan.nodes[n]
  BY <1>1 DEF Node
<1>3. Len(plan.nodes) \in Nat /\ DOMAIN plan.nodes = 1 .. Len(plan.nodes)
  BY DEF PlanFits
<1>4. ChildrenFirst(plan)
  BY DEF PlanFits, ChildrenFirst
<1>5. \A k \in DOMAIN plan.nodes :
        RelationalRows(plan, inputs)[k] = NodeRows(plan, inputs, RelationalRows(plan, inputs), k)
  BY <1>3, <1>4, RelationalRowsDefined
<1>. HIDE DEF n
<1>6. /\ Node.attrs \in Seq(Attribute)
      /\ Node.kind = "scan" => ScanFits(Node)
      /\ Node.kind # "scan" =>
           /\ Node.left \in 1 .. n - 1 /\ Node.right \in 1 .. n - 1
           /\ JoinFits(Node, plan.nodes[Node.left].attrs, plan.nodes[Node.right].attrs)
  BY <1>2 DEF PlanFits
<1>7. Node.kind # "scan" => Node.left \in DOMAIN plan.nodes /\ Node.right \in DOMAIN plan.nodes
  BY <1>2, <1>3, <1>6
<1>8. InputsFit /\ \A k \in DOMAIN plan.nodes : plan.nodes[k].attrs \in Seq(Attribute)
  BY DEF PlanFits
<1>. QED
  BY <1>2, <1>5, <1>6, <1>7, <1>8 DEF n

LEMMA ListSteps ==
  ASSUME NEW S
  PROVE  /\ \A s \in Seq(S) : s # <<>> => SubSeq(s, 1, Len(s) - 1) \in Seq(S)
         /\ \A s \in Seq(S), x \in S : Append(s, x) \in Seq(S)
         /\ \A x \in S : <<x>> \in Seq(S)
<1>1. ASSUME NEW s \in Seq(S), s # <<>> PROVE SubSeq(s, 1, Len(s) - 1) \in Seq(S)
  <2>1. Len(s) - 1 \in Nat /\ Len(s) - 1 <= Len(s)
    BY <1>1
  <2>. QED
    BY <2>1
<1>. QED
  BY <1>1

\* A call that returns what its node means.
LEMMA Returned ==
  ASSUME PlanFits, ExecInv, outcome = "running", calls # <<>>,
         NEW buffer, Return(buffer), BufferMeans(plan, inputs, calls[Len(calls)], buffer)
  PROVE  ExecInv'
<1>. DEFINE n == calls[Len(calls)]
<1>1. /\ plan' = plan /\ inputs' = inputs /\ outcome' = outcome
      /\ calls' = SubSeq(calls, 1, Len(calls) - 1)
      /\ buffers' = [k \in DOMAIN buffers \union {n} |-> IF k = n THEN buffer ELSE buffers[k]]
  BY DEF Return
<1>. HIDE DEF n
<1>2. calls' \in Seq(DOMAIN plan.nodes)
  <2>1. calls \in Seq(DOMAIN plan.nodes)
    BY DEF ExecInv
  <2>. QED
    BY <1>1, <2>1, ListSteps
<1>3. ASSUME NEW k \in DOMAIN buffers' PROVE BufferMeans(plan, inputs, k, buffers'[k])
  BY <1>1, <1>3 DEF ExecInv, n
<1>. QED
  BY <1>1, <1>2, <1>3 DEF ExecInv

LEMMA ScanStep ==
  ASSUME PlanFits, ExecInv, ExecuteScan
  PROVE  ExecInv'
<1>. DEFINE n == calls[Len(calls)]
<1>1. outcome = "running" /\ calls # <<>> /\ Node.kind = "scan" /\ Return(ScanBuffer(Node))
  BY DEF ExecuteScan, ScanBuffer
<1>2. /\ n \in DOMAIN plan.nodes /\ Node = plan.nodes[n] /\ InputsFit /\ ScanFits(Node)
      /\ RelationalRows(plan, inputs)[n] = NodeRows(plan, inputs, RelationalRows(plan, inputs), n)
  BY <1>1, CurrentNode
<1>3. BufferFits(ScanBuffer(Node), Node.attrs) /\ RowsIn(inputs, ScanBuffer(Node)) = ScanRows(inputs, Node)
  BY <1>2, ScanCorrect
<1>4. RelationalRows(plan, inputs)[n] = ScanRows(inputs, Node)
  BY <1>1, <1>2 DEF NodeRows
<1>5. Permuted(ScanRows(inputs, Node), ScanRows(inputs, Node))
  BY PermutedSame
<1>6. BufferMeans(plan, inputs, n, ScanBuffer(Node))
  BY <1>2, <1>3, <1>4, <1>5 DEF BufferMeans
<1>. QED
  BY <1>1, <1>6, Returned

LEMMA JoinStep ==
  ASSUME PlanFits, ExecInv, ExecuteJoin
  PROVE  ExecInv'
<1>. DEFINE n == calls[Len(calls)]
            lattrs == plan.nodes[Node.left].attrs
            rattrs == plan.nodes[Node.right].attrs
            lbuf == buffers[Node.left]
            rbuf == buffers[Node.right]
            rows == RelationalRows(plan, inputs)
<1>1. /\ outcome = "running" /\ calls # <<>> /\ Node.kind = "join"
      /\ Node.left \in DOMAIN buffers /\ Node.right \in DOMAIN buffers
      /\ BuildKeyType = "INT32"
  BY DEF ExecuteJoin, Finished
<1>2. PICK pairs \in SetToSeqs(Join(Keys(lbuf, Node.left_attr), Keys(rbuf, Node.right_attr))!Matching) :
        Return(JoinBuffer(Node, lbuf, rbuf, pairs))
  BY DEF ExecuteJoin, JoinBuffer
<1>3. /\ n \in DOMAIN plan.nodes /\ Node = plan.nodes[n]
      /\ lattrs \in Seq(Attribute) /\ rattrs \in Seq(Attribute)
      /\ JoinFits(Node, lattrs, rattrs)
      /\ rows[n] = NodeRows(plan, inputs, rows, n)
  BY <1>1, CurrentNode
<1>4. lattrs[Node.left_attr].type = "INT32"
  BY <1>1, <1>3 DEF BuildKeyType, JoinFits
<1>5. BufferMeans(plan, inputs, Node.left, lbuf) /\ BufferMeans(plan, inputs, Node.right, rbuf)
  BY <1>1 DEF ExecInv
<1>6. /\ BufferFits(lbuf, lattrs) /\ BufferFits(rbuf, rattrs)
      /\ Permuted(RowsIn(inputs, lbuf), rows[Node.left])
      /\ Permuted(RowsIn(inputs, rbuf), rows[Node.right])
  BY <1>5 DEF BufferMeans
<1>7. rows[n] = JoinRows(Node, rows[Node.left], rows[Node.right])
  BY <1>1, <1>3 DEF NodeRows
<1>. HIDE DEF lattrs, rattrs, lbuf, rbuf, rows
<1>8. /\ BufferFits(JoinBuffer(Node, lbuf, rbuf, pairs), Node.attrs)
      /\ Permuted(RowsIn(inputs, JoinBuffer(Node, lbuf, rbuf, pairs)),
                  JoinRows(Node, rows[Node.left], rows[Node.right]))
  BY ONLY <1>2, <1>3, <1>4, <1>6, JoinCorrect
<1>9. BufferMeans(plan, inputs, n, JoinBuffer(Node, lbuf, rbuf, pairs))
  BY <1>3, <1>7, <1>8 DEF BufferMeans, rows
<1>. QED
  BY <1>1, <1>2, <1>9, Returned

LEMMA OtherSteps ==
  ASSUME PlanFits, ExecInv, CallChild \/ Throw \/ Finalize \/ UNCHANGED vars
  PROVE  ExecInv'
<1>1. CASE CallChild
  <2>1. /\ outcome = "running" /\ calls # <<>> /\ Node.kind # "scan"
        /\ calls' = Append(calls, IF Finished(Node.left) THEN Node.right ELSE Node.left)
        /\ plan' = plan /\ inputs' = inputs /\ buffers' = buffers /\ outcome' = outcome
    BY <1>1 DEF CallChild
  <2>2. Node.left \in DOMAIN plan.nodes /\ Node.right \in DOMAIN plan.nodes
    BY <2>1, CurrentNode
  <2>3. calls' \in Seq(DOMAIN plan.nodes)
    <3>1. calls \in Seq(DOMAIN plan.nodes)
      BY DEF ExecInv
    <3>. QED
      BY <2>1, <2>2, <3>1, ListSteps
  <2>. QED
    BY <2>1, <2>3 DEF ExecInv, BufferMeans
<1>2. CASE Throw
  BY <1>2 DEF Throw, ExecInv, BufferMeans
<1>3. CASE Finalize
  BY <1>3 DEF Finalize, ExecInv, BufferMeans
<1>4. CASE UNCHANGED vars
  BY <1>4 DEF vars, ExecInv, BufferMeans
<1>. QED
  BY <1>1, <1>2, <1>3, <1>4

LEMMA ExecInitially == RunInit => ExecInv
BY DEF RunInit, Start, ExecInv

LEMMA ExecStep ==
  ASSUME PlanFits, PlanFits', ExecInv, [RunNext]_runVars
  PROVE  ExecInv'
<1>1. CASE LoadPlan
  <2>1. PICK p, in : outcome = "loading" /\ Execute(p, in)
    BY <1>1 DEF LoadPlan
  <2>2. /\ plan' = p /\ calls' = <<p.root>> /\ outcome' = "running" /\ buffers' = buffers
    BY <2>1 DEF Execute
  <2>3. plan'.root \in DOMAIN plan'.nodes
    BY <2>2 DEF PlanFits
  <2>4. calls' \in Seq(DOMAIN plan'.nodes)
    BY <2>2, <2>3, ListSteps
  <2>. QED
    BY <2>1, <2>2, <2>4 DEF ExecInv
<1>2. CASE Reject
  BY <1>2 DEF Reject, ExecInv, BufferMeans
<1>3. CASE Next
  BY <1>3, ScanStep, JoinStep, OtherSteps DEF Next
<1>4. CASE UNCHANGED runVars
  BY <1>4, OtherSteps DEF runVars
<1>. QED
  BY <1>1, <1>2, <1>3, <1>4 DEF RunNext

LEMMA ExecHolds == RunSpec /\ []PlanFits => []ExecInv
<1>1. PlanFits /\ PlanFits' /\ ExecInv /\ [RunNext]_runVars => ExecInv'
  BY ExecStep
<1>. QED
  BY ExecInitially, <1>1, PTL DEF RunSpec

\* Whatever the query, as long as the plans its clauses give fit: calls name nodes and
\* words keep their width (execute_impl, value_t).
THEOREM ExecTypeCorrect == RunSpec /\ []PlanFits => []TypeOK
<1>1. PlanFits /\ ExecInv => TypeOK
  <2>. SUFFICES ASSUME PlanFits, ExecInv PROVE TypeOK
    OBVIOUS
  <2>1. \A k \in DOMAIN calls : calls[k] \in DOMAIN plan.nodes
    BY DEF ExecInv
  <2>2. ASSUME NEW n \in DOMAIN buffers, NEW c \in DOMAIN buffers[n].columns
        PROVE  LET column == buffers[n].columns[c]
               IN  IF column.zero_copy
                     THEN \A r \in DOMAIN column.cells : column.cells[r] \in Int
                     ELSE \A r \in DOMAIN column.values : column.values[r] \in Raw
    <3>. DEFINE attrs == plan.nodes[n].attrs
    <3>1. BufferFits(buffers[n], attrs)
      BY DEF ExecInv, BufferMeans
    <3>2. c \in DOMAIN attrs
      BY <3>1 DEF BufferFits
    <3>3. ColumnFits(buffers[n].columns[c], attrs[c].type, buffers[n].num_rows)
      BY <3>1, <3>2 DEF BufferFits
    <3>4. Int32 \subseteq Int
      BY Widths DEF Int32
    <3>. QED
      BY <3>3, <3>4 DEF ColumnFits
  <2>3. outcome \in {"loading", "running", "threw", "done"}
    BY DEF ExecInv
  <2>. QED
    BY <2>1, <2>2, <2>3 DEF TypeOK
<1>. QED
  BY ExecHolds, <1>1, PTL

\* Every buffer stands for the rows its node means, as often as they are there,
\* through any number of joins, whichever order a join returns its rows in and
\* whichever columns stay where they are (execute_impl, run_int32, value_t).
THEOREM ExecBuffersCorrect == RunSpec /\ []PlanFits => []BuffersCorrect
<1>1. ExecInv => BuffersCorrect
  <2>. SUFFICES ASSUME ExecInv, NEW n \in DOMAIN buffers
                PROVE  LET meant == RelationalRows(plan, inputs)[n]
                       IN  Included(RowsOf(buffers[n]), meant) /\ Included(meant, RowsOf(buffers[n]))
    BY DEF BuffersCorrect
  <2>. DEFINE rows == RowsOf(buffers[n])
              meant == RelationalRows(plan, inputs)[n]
  <2>1. Permuted(rows, meant) /\ rows = RowsIn(inputs, buffers[n]) /\ buffers[n].num_rows \in Nat
    BY RowsOfIn DEF ExecInv, BufferMeans, BufferFits
  <2>2. IsFiniteSet(DOMAIN rows)
    <3>1. DOMAIN rows = 1 .. buffers[n].num_rows
      BY <2>1 DEF RowsIn
    <3>. QED
      BY <2>1, <3>1, FS_Interval
  <2>. HIDE DEF rows, meant
  <2>3. Included(rows, meant) /\ Included(meant, rows)
    BY <2>1, <2>2, PermutedIncluded
  <2>. QED
    BY <2>3 DEF rows, meant
<1>. QED
  BY ExecHolds, <1>1, PTL
=============================================================================
