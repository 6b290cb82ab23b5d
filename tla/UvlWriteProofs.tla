--------------------------- MODULE UvlWriteProofs ---------------------------
(***************************************************************************)
(* What UvlWrite guarantees of the bytes that are written to a console,    *)
(* for every segment size, send buffer, window and sequence of requests.   *)
(***************************************************************************)
EXTENDS UvlWrite, WellFoundedInduction, TLAPS

-----------------------------------------------------------------------------
(* Natural numbers *)

\* Every set of natural numbers has a least element.
LEMMA LeastNat ==
  ASSUME NEW S \in SUBSET Nat, S # {}
  PROVE  \E m \in S : \A k \in S : m <= k
<1> DEFINE R == OpToRel(<, Nat)
<1>1. IsWellFoundedOn(R, Nat)
  BY NatLessThanWellFounded
<1>2. \A x, y \in Nat : x < y => <<x, y>> \in R
  BY DEF OpToRel
<1> HIDE DEF R
<1>3. PICK m \in S : \A y \in S : ~ (<<y, m>> \in R)
  BY <1>1, WFMin
<1>4. \A y \in S : ~ (y < m)
  BY <1>2, <1>3
<1> QED  BY <1>4

\* Induction, for the members of a set: a set that holds 0 and with n also
\* n + 1 holds every natural number.
LEMMA SetInduction ==
  ASSUME NEW S, 0 \in S, \A n \in Nat : n \in S => n + 1 \in S
  PROVE  Nat \subseteq S
<1> SUFFICES ASSUME Nat \ S # {} PROVE FALSE
  OBVIOUS
<1>1. PICK m \in Nat \ S : \A k \in Nat \ S : m <= k
  BY LeastNat
<1>2. m # 0 /\ m - 1 \in Nat
  BY <1>1
<1>3. m - 1 \in S
  BY <1>1, <1>2
<1>4. (m - 1) + 1 \in S
  BY <1>2, <1>3
<1> QED  BY <1>1, <1>4

\* Max of a bounded set of natural numbers is what its name says.
LEMMA BoundedMax ==
  ASSUME NEW n \in Nat, NEW S \in SUBSET (0..n), S # {}
  PROVE  Max(S) \in S /\ \A k \in S : k <= Max(S)
<1> DEFINE T == {n - k : k \in S}
<1>1. T \in SUBSET Nat /\ T # {}
  <2>1. \A k \in S : n - k \in Nat
    OBVIOUS
  <2>2. \A t \in T : t \in Nat
    BY <2>1
  <2>3. T # {}
    BY Zenon
  <2> QED  BY <2>2, <2>3
<1>2. PICK t \in T : \A u \in T : t <= u
  BY <1>1, LeastNat
<1>3. PICK m \in S : t = n - m
  BY <1>2
<1>4. \A k \in S : t <= n - k
  BY <1>2
<1>5. \A k \in S : m >= k
  BY <1>3, <1>4
<1>6. \E x \in S : \A y \in S : x >= y
  BY <1>5
<1>7. Max(S) \in S /\ \A y \in S : Max(S) >= y
  BY <1>6 DEF Max
<1> QED  BY <1>7

\* The length of the longest prefix with a property, given as a set P of
\* indices; S is the set of the lengths of such prefixes.
LEMMA LongestPrefix ==
  ASSUME NEW n \in Nat, NEW P, NEW S,
         \A m : m \in S <=> m \in 0..n /\ \A i \in 1..m : i \in P
  PROVE  /\ Max(S) \in 0..n
         /\ \A i \in 1..Max(S) : i \in P
         /\ Max(S) < n => Max(S) + 1 \notin P
<1> DEFINE k == Max(S)
<1>1. S \in SUBSET (0..n) /\ 0 \in S
  OBVIOUS
<1>2. k \in S /\ \A m \in S : m <= k
  BY <1>1, BoundedMax
<1> HIDE DEF k
<1>4. k \in 0..n /\ \A i \in 1..k : i \in P
  BY <1>2
<1>5. ASSUME k < n, k + 1 \in P PROVE FALSE
  <2>1. k + 1 \in 0..n /\ \A i \in 1..k + 1 : i \in 1..k \/ i = k + 1
    BY <1>4, <1>5
  <2>2. k + 1 \in S
    BY <1>4, <1>5, <2>1
  <2> QED  BY <1>2, <1>4, <2>2
<1> QED  BY <1>4, <1>5 DEF k

\* A sequence with one element replaced.
LEMMA SeqExcept ==
  ASSUME NEW S, NEW q \in Seq(S), NEW i \in 1..Len(q), NEW v \in S
  PROVE  /\ [q EXCEPT ![i] = v] \in Seq(S) /\ Len([q EXCEPT ![i] = v]) = Len(q)
         /\ \A j \in 1..Len(q) : [q EXCEPT ![i] = v][j] = IF j = i THEN v ELSE q[j]
OBVIOUS

-----------------------------------------------------------------------------
(* Sums *)

\* The recursive function of SumSeq exists.
LEMMA SumExists ==
  ASSUME NEW s, NEW N \in Nat
  PROVE  \E g : g = [n \in 0..N |-> IF n = 0 THEN 0 ELSE g[n - 1] + s[n]]
<1> DEFINE S == {m \in Nat : \E g : g = [n \in 0..m |-> IF n = 0 THEN 0 ELSE g[n - 1] + s[n]]}
<1>1. 0 \in S
  <2> DEFINE g == [n \in 0..0 |-> 0]
  <2>1. g = [n \in 0..0 |-> IF n = 0 THEN 0 ELSE g[n - 1] + s[n]]
    OBVIOUS
  <2> QED  BY <2>1
<1>2. ASSUME NEW m \in Nat, m \in S PROVE m + 1 \in S
  <2>1. PICK g : g = [n \in 0..m |-> IF n = 0 THEN 0 ELSE g[n - 1] + s[n]]
    BY <1>2
  <2> DEFINE h == [n \in 0..m + 1 |-> IF n = m + 1 THEN g[m] + s[m + 1] ELSE g[n]]
  <2>2. \A n \in 0..m : g[n] = IF n = 0 THEN 0 ELSE g[n - 1] + s[n]
    BY <2>1
  <2>3. \A n \in 0..m + 1 : h[n] = IF n = m + 1 THEN g[m] + s[m + 1] ELSE g[n]
    OBVIOUS
  <2>4. ASSUME NEW n \in 0..m + 1
        PROVE  h[n] = IF n = 0 THEN 0 ELSE h[n - 1] + s[n]
    <3> HIDE DEF h
    <3>1. CASE n = 0
      BY <2>2, <2>3, <3>1
    <3>2. CASE n = m + 1
      <4>1. h[n] = g[m] + s[n] /\ n - 1 = m /\ n # 0
        BY <2>3, <3>2
      <4>2. h[m] = g[m]
        BY <2>3
      <4> QED  BY <4>1, <4>2
    <3>3. CASE n # 0 /\ n # m + 1
      <4>1. n \in 0..m /\ n - 1 \in 0..m + 1 /\ n - 1 # m + 1
        BY <3>3
      <4>2. h[n] = g[n] /\ h[n - 1] = g[n - 1]
        BY <2>3, <3>3, <4>1
      <4>3. g[n] = g[n - 1] + s[n]
        BY <2>2, <3>3, <4>1
      <4> QED  BY <3>3, <4>2, <4>3
    <3> QED  BY <3>1, <3>2, <3>3
  <2>5. h = [n \in 0..m + 1 |-> IF n = 0 THEN 0 ELSE h[n - 1] + s[n]]
    BY <2>4
  <2>6. \E k : k = [n \in 0..m + 1 |-> IF n = 0 THEN 0 ELSE k[n - 1] + s[n]]
    BY <2>5
  <2> QED  BY <2>6
<1> HIDE DEF S
<1>3. Nat \subseteq S
  BY <1>1, <1>2, SetInduction
<1> QED  BY <1>3 DEF S

\* The sum is the last of the partial sums.
LEMMA PartialSums ==
  ASSUME NEW s \in Seq(Int)
  PROVE  \E g \in [0..Len(s) -> Int] :
           /\ g[0] = 0 /\ \A i \in 1..Len(s) : g[i] = g[i - 1] + s[i]
           /\ SumSeq(s) = g[Len(s)]
<1> DEFINE N == Len(s)
           E(g) == g = [n \in 0..N |-> IF n = 0 THEN 0 ELSE g[n - 1] + s[n]]
           a == CHOOSE g : E(g)
<1>1. N \in Nat
  OBVIOUS
<1>2. SumSeq(s) = a[N]
  BY DEF SumSeq
<1>3. E(a)
  <2> HIDE DEF N
  <2>1. \E g : E(g)
    BY <1>1, SumExists
  <2> HIDE DEF E
  <2> QED  BY <2>1
<1> HIDE DEF a
<1>4. \A n \in 0..N : a[n] = IF n = 0 THEN 0 ELSE a[n - 1] + s[n]
  <2> HIDE DEF N
  <2> QED  BY <1>3
<1>5. DOMAIN a = 0..N /\ a = [n \in 0..N |-> a[n]]
  <2> HIDE DEF N
  <2> QED  BY <1>3
<1> HIDE DEF E
<1> DEFINE S == {m \in Nat : m <= N => a[m] \in Int}
<1>6. 0 \in S
  BY <1>1, <1>4
<1>7. ASSUME NEW m \in Nat, m \in S PROVE m + 1 \in S
  <2>1. CASE m + 1 <= N
    <3>1. a[m] \in Int /\ s[m + 1] \in Int /\ m + 1 \in 0..N /\ (m + 1) - 1 = m /\ m + 1 # 0
      BY <1>1, <1>7, <2>1
    <3>2. a[m + 1] = a[m] + s[m + 1]
      BY <1>4, <3>1
    <3> QED  BY <3>1, <3>2
  <2> QED  BY <2>1
<1> HIDE DEF S
<1>8. Nat \subseteq S
  BY <1>6, <1>7, SetInduction
<1>9. \A m \in 0..N : a[m] \in Int
  BY <1>1, <1>8 DEF S
<1>10. a \in [0..N -> Int]
  BY <1>5, <1>9
<1>11. \A i \in 1..N : a[i] = a[i - 1] + s[i]
  BY <1>1, <1>4
<1>12. a[0] = 0
  BY <1>1, <1>4
<1> QED  BY <1>2, <1>10, <1>11, <1>12

\* A sum of differences.
LEMMA Telescope ==
  ASSUME NEW s \in Seq(Int), NEW f, \A i \in 0..Len(s) : f[i] \in Int,
         \A i \in 1..Len(s) : s[i] = f[i] - f[i - 1]
  PROVE  SumSeq(s) = f[Len(s)] - f[0] /\ SumSeq(s) \in Int
<1> DEFINE N == Len(s)
<1>1. PICK g \in [0..N -> Int] : /\ g[0] = 0 /\ \A i \in 1..N : g[i] = g[i - 1] + s[i]
                                /\ SumSeq(s) = g[N]
  BY PartialSums
<1>2. N \in Nat /\ \A i \in 0..N : f[i] \in Int /\ g[i] \in Int
  OBVIOUS
<1>3. \A i \in 1..N : s[i] = f[i] - f[i - 1]
  OBVIOUS
<1> HIDE DEF N
<1> DEFINE S == {m \in Nat : m <= N => g[m] = f[m] - f[0]}
<1>4. 0 \in S
  BY <1>1, <1>2
<1>5. ASSUME NEW m \in Nat, m \in S PROVE m + 1 \in S
  <2>1. CASE m + 1 <= N
    <3>1. /\ m \in 0..N /\ m + 1 \in 1..N /\ m + 1 \in 0..N /\ (m + 1) - 1 = m /\ 0 \in 0..N
          /\ g[m] = f[m] - f[0]
      BY <1>2, <1>5, <2>1
    <3>2. g[m + 1] = g[m] + s[m + 1] /\ s[m + 1] = f[m + 1] - f[m]
      BY <1>1, <1>3, <3>1
    <3>3. f[m + 1] \in Int /\ f[m] \in Int /\ f[0] \in Int
      BY <1>2, <3>1
    <3>4. g[m + 1] = f[m + 1] - f[0]
      BY <3>1, <3>2, <3>3
    <3> QED  BY <3>4
  <2> QED  BY <2>1
<1> HIDE DEF S
<1>6. N \in S
  BY <1>2, <1>4, <1>5, SetInduction
<1>7. g[N] = f[N] - f[0] /\ g[N] \in Int
  BY <1>2, <1>6 DEF S
<1> QED  BY <1>1, <1>7 DEF N

\* The sum over two sequences.
LEMMA SumConcat ==
  ASSUME NEW s \in Seq(Int), NEW t \in Seq(Int)
  PROVE  SumSeq(s \o t) = SumSeq(s) + SumSeq(t) /\ SumSeq(s) \in Int /\ SumSeq(t) \in Int
<1> DEFINE N == Len(s)
           M == Len(t)
<1>1. PICK g \in [0..N -> Int] : /\ g[0] = 0 /\ \A i \in 1..N : g[i] = g[i - 1] + s[i]
                                /\ SumSeq(s) = g[N]
  BY PartialSums
<1>2. PICK h \in [0..M -> Int] : /\ h[0] = 0 /\ \A i \in 1..M : h[i] = h[i - 1] + t[i]
                                /\ SumSeq(t) = h[M]
  BY PartialSums
<1> DEFINE u == s \o t
           f == [i \in 0..N + M |-> IF i <= N THEN g[i] ELSE g[N] + h[i - N]]
<1>3. /\ N \in Nat /\ M \in Nat /\ u \in Seq(Int) /\ Len(u) = N + M
      /\ \A i \in 1..N : u[i] = s[i] /\ s[i] \in Int
      /\ \A i \in 1..M : u[N + i] = t[i] /\ t[i] \in Int
  OBVIOUS
<1>4. /\ \A i \in 0..N : g[i] \in Int
      /\ \A i \in 0..M : h[i] \in Int
  OBVIOUS
<1> HIDE DEF N, M, u
<1>5. \A i \in 0..N + M : f[i] = IF i <= N THEN g[i] ELSE g[N] + h[i - N]
  OBVIOUS
<1> HIDE DEF f
<1>6. ASSUME NEW i \in 0..N + M PROVE f[i] \in Int
  <2>1. CASE i <= N
    BY <1>3, <1>4, <1>5, <2>1
  <2>2. CASE ~(i <= N)
    <3>1. i - N \in 0..M /\ N \in 0..N
      BY <1>3, <2>2
    <3>2. h[i - N] \in Int /\ g[N] \in Int
      BY ONLY <1>4, <3>1
    <3>3. f[i] = g[N] + h[i - N]
      BY <1>5, <2>2
    <3> QED  BY <3>2, <3>3
  <2> QED  BY <2>1, <2>2
<1>7. ASSUME NEW i \in 1..N + M PROVE u[i] = f[i] - f[i - 1]
  <2>1. CASE i <= N
    <3>1. i \in 1..N /\ i \in 0..N /\ i - 1 \in 0..N /\ i \in 0..N + M /\ i - 1 \in 0..N + M
          /\ i - 1 <= N
      BY <1>3, <2>1
    <3>2. f[i] = g[i] /\ f[i - 1] = g[i - 1] /\ u[i] = s[i] /\ g[i] = g[i - 1] + s[i]
      BY <1>1, <1>3, <1>5, <2>1, <3>1
    <3> QED  BY <1>3, <1>4, <3>1, <3>2, SMTT(30)
  <2>2. CASE i = N + 1
    <3>1. /\ i \in 0..N + M /\ N \in 0..N + M /\ i - 1 = N /\ ~(i <= N) /\ i - N = 1
          /\ 1 \in 1..M /\ N \in 0..N /\ 0 \in 0..M /\ 1 \in 0..M /\ i = N + 1
      BY <1>3, <2>2
    <3>0. i \in 0..N + M /\ ~(i <= N)
      BY <3>1
    <3>2. f[i] = g[N] + h[i - N]
      BY <1>5, <3>0
    <3>3. f[N] = g[N]
      <4>1. N \in 0..N + M /\ N <= N
        BY <1>3
      <4> QED  BY <1>5, <4>1
    <3>4. u[N + 1] = t[1] /\ t[1] \in Int
      BY <1>3, <3>1
    <3>5. h[1] = h[1 - 1] + t[1]
      BY <1>2, <3>1
    <3>6. h[0] = 0 /\ g[N] \in Int
      BY <1>2, <1>4, <3>1
    <3>7. h[1] = t[1]
      BY <3>4, <3>5, <3>6
    <3>8. f[i] = g[N] + t[1] /\ f[i - 1] = g[N] /\ u[i] = t[1]
      BY <3>1, <3>2, <3>3, <3>4, <3>7
    <3> QED  BY <3>4, <3>6, <3>8
  <2>3. CASE i > N + 1
    <3>1. /\ i \in 0..N + M /\ i - 1 \in 0..N + M /\ ~(i - 1 <= N) /\ ~(i <= N)
          /\ i - N \in 1..M /\ i - N \in 0..M /\ (i - 1) - N \in 0..M /\ N + (i - N) = i
          /\ (i - N) - 1 = (i - 1) - N /\ N \in 0..N
      BY <1>3, <2>3
    <3>2. f[i] = g[N] + h[i - N] /\ f[i - 1] = g[N] + h[(i - 1) - N]
      BY <1>5, <3>1
    <3>3. u[i] = t[i - N]
      BY <1>3, <3>1
    <3>4. h[i - N] = h[(i - N) - 1] + t[i - N]
      BY <1>2, <3>1
    <3>5. h[(i - 1) - N] \in Int /\ g[N] \in Int /\ t[i - N] \in Int
      BY <1>3, <1>4, <3>1
    <3>6. h[i - N] = h[(i - 1) - N] + t[i - N]
      BY <3>1, <3>4
    <3> QED  BY <3>2, <3>3, <3>5, <3>6
  <2> QED  BY <1>3, <2>1, <2>2, <2>3
<1>8. SumSeq(u) = f[N + M] - f[0]
  <2>1. \A i \in 0..Len(u) : f[i] \in Int
    BY <1>3, <1>6
  <2>2. \A i \in 1..Len(u) : u[i] = f[i] - f[i - 1]
    BY <1>3, <1>7
  <2>3. SumSeq(u) = f[Len(u)] - f[0]
    BY <1>3, <2>1, <2>2, Telescope
  <2> QED  BY <1>3, <2>3
<1>9. f[0] = 0 /\ f[N + M] = g[N] + h[M] /\ g[N] \in Int /\ h[M] \in Int
  <2>1. /\ 0 \in 0..N + M /\ 0 <= N /\ N + M \in 0..N + M /\ N \in 0..N /\ M \in 0..M /\ 0 \in 0..M
        /\ (N + M) - N = M
    BY <1>3
  <2>2. f[0] = 0
    BY <1>1, <1>5, <2>1
  <2>3. CASE M = 0
    BY <1>2, <1>3, <1>4, <1>5, <2>1, <2>2, <2>3
  <2>4. CASE M # 0
    BY <1>3, <1>4, <1>5, <2>1, <2>2, <2>4
  <2> QED  BY <2>3, <2>4
<1>10. SumSeq(u) = g[N] + h[M]
  BY <1>8, <1>9
<1> QED  BY <1>1, <1>2, <1>9, <1>10 DEF u


\* Small sums.
LEMMA SumSmall ==
  /\ SumSeq(<<>>) = 0
  /\ \A x \in Int : SumSeq(<<x>>) = x
<1>1. SumSeq(<<>>) = 0
  <2> DEFINE f == [i \in {0} |-> 0]
             s == <<>>
  <2>1. s \in Seq(Int) /\ Len(s) = 0 /\ f[0] = 0
    OBVIOUS
  <2>2. (\A i \in 0..Len(s) : f[i] \in Int) /\ (\A i \in 1..Len(s) : s[i] = f[i] - f[i - 1])
    BY <2>1
  <2> HIDE DEF f, s
  <2>3. SumSeq(s) = f[Len(s)] - f[0]
    BY <2>1, <2>2, Telescope
  <2>4. SumSeq(s) = 0
    BY <2>1, <2>3
  <2> QED  BY <2>4 DEF s
<1>2. ASSUME NEW x \in Int PROVE SumSeq(<<x>>) = x
  <2> DEFINE f == [i \in {0, 1} |-> IF i = 0 THEN 0 ELSE x]
             s == <<x>>
  <2>1. s \in Seq(Int) /\ Len(s) = 1 /\ f[0] = 0 /\ f[1] = x /\ s[1] = x
    OBVIOUS
  <2>2. 0..Len(s) = {0, 1} /\ 1..Len(s) = {1} /\ 1 - 1 = 0
    BY <2>1
  <2> HIDE DEF f, s
  <2>3. (\A i \in 0..Len(s) : f[i] \in Int) /\ (\A i \in 1..Len(s) : s[i] = f[i] - f[i - 1])
    BY <2>1, <2>2
  <2>4. SumSeq(s) = f[Len(s)] - f[0]
    BY <2>1, <2>3, Telescope
  <2>5. SumSeq(s) = x
    BY <2>1, <2>4
  <2> QED  BY <2>5 DEF s
<1> QED  BY <1>1, <1>2

\* A sum of natural numbers is one, and none of them is larger.
LEMMA SumNat ==
  ASSUME NEW s \in Seq(Nat)
  PROVE  SumSeq(s) \in Nat /\ \A i \in 1..Len(s) : s[i] <= SumSeq(s)
<1> DEFINE N == Len(s)
<1>1. s \in Seq(Int)
  OBVIOUS
<1>2. PICK g \in [0..N -> Int] : /\ g[0] = 0 /\ \A i \in 1..N : g[i] = g[i - 1] + s[i]
                                /\ SumSeq(s) = g[N]
  BY <1>1, PartialSums
<1>3. N \in Nat /\ \A i \in 1..N : s[i] \in Nat
  OBVIOUS
<1>4. \A i \in 0..N : g[i] \in Int
  OBVIOUS
<1> HIDE DEF N
<1> DEFINE S == {m \in Nat : m <= N => g[m] \in Nat /\ \A i \in 1..m : s[i] <= g[m]}
<1>5. 0 \in S
  BY <1>2
<1>6. ASSUME NEW m \in Nat, m \in S PROVE m + 1 \in S
  <2>1. CASE m + 1 <= N
    <3>1. /\ m + 1 \in 1..N /\ (m + 1) - 1 = m /\ g[m] \in Nat
          /\ \A i \in 1..m : s[i] <= g[m]
      BY <1>3, <1>6, <2>1
    <3>2. g[m + 1] = g[m] + s[m + 1] /\ s[m + 1] \in Nat
      BY <1>2, <1>3, <3>1
    <3>3. g[m + 1] \in Nat /\ s[m + 1] <= g[m + 1]
      BY <3>1, <3>2
    <3>4. ASSUME NEW i \in 1..m PROVE s[i] <= g[m + 1]
      <4>1. i \in 1..N
        BY <1>3, <2>1
      <4>2. s[i] \in Nat /\ s[i] <= g[m]
        BY <1>3, <3>1, <4>1
      <4> QED  BY <3>1, <3>2, <4>2
    <3>5. \A i \in 1..m + 1 : i \in 1..m \/ i = m + 1
      OBVIOUS
    <3>6. \A i \in 1..m + 1 : s[i] <= g[m + 1]
      BY <3>3, <3>4, <3>5
    <3> QED  BY <3>3, <3>6
  <2> QED  BY <2>1
<1> HIDE DEF S
<1>7. N \in S
  BY <1>3, <1>5, <1>6, SetInduction
<1> QED  BY <1>2, <1>3, <1>7 DEF S, N

-----------------------------------------------------------------------------
(* The pcb *)

Seg == [seqno : Int, len : Int, fin : BOOLEAN, n : Int]
SentSeg == [seqno : Int, len : Int, fin : BOOLEAN]

\* A pcb, up to the ranges of its numbers.
Pcb == [state : {"ESTABLISHED", "FIN_WAIT_1", "CLOSED"},
        unsent : Seq(Seg), unacked : Seq(Seg), unsent_oversize : Int,
        lastack : Int, snd_nxt : Int, snd_lbb : Int, snd_buf : Int,
        snd_queuelen : Int, snd_wnd : Int, snd_wl2 : Int,
        cwnd : Nat \ {0}, ssthresh : Nat \ {0}, dupacks : Int, nrtx : Int, rtime : BOOLEAN,
        persist : BOOLEAN, infr : BOOLEAN, memerr : BOOLEAN, fin : BOOLEAN,
        out : SUBSET SentSeg]

\* The smaller and the larger of two numbers.
LEMMA MinMax ==
  ASSUME NEW a \in Int, NEW b \in Int
  PROVE  /\ MinOf(a, b) \in Int /\ MinOf(a, b) <= a /\ MinOf(a, b) <= b
         /\ MinOf(a, b) = a \/ MinOf(a, b) = b
         /\ MaxOf(a, b) \in Int /\ MaxOf(a, b) >= a /\ MaxOf(a, b) >= b
         /\ MaxOf(a, b) = a \/ MaxOf(a, b) = b
BY DEF MinOf, MaxOf

\* What TcpOutAssumption says of the options.
LEMMA Options ==
  /\ TCP_MSS \in Nat /\ TCP_MSS >= 1 /\ TCP_SND_BUF \in Nat /\ TCP_SND_BUF >= TCP_MSS + TCP_MSS
  /\ TCP_SND_QUEUELEN \in Nat /\ TCP_MAXRTX \in Nat /\ TCP_MAXRTX >= 1
  /\ DupMod \in Nat /\ DupMod > 4 /\ CwndMod \in Nat /\ CwndMod > 5 * TCP_MSS
BY TcpOutAssumption

\* The end of a segment.
LEMMA EndFacts ==
  ASSUME NEW s, s.seqno \in Int, s.len \in Int, s.fin \in BOOLEAN
  PROVE  /\ TCP_TCPLEN(s) = s.len + (IF s.fin THEN 1 ELSE 0)
         /\ EndOf(s) = s.seqno + s.len + (IF s.fin THEN 1 ELSE 0)
         /\ EndOf(s) \in Int
BY DEF EndOf, TCP_TCPLEN

-----------------------------------------------------------------------------
(* tcp_output *)

\* The place of a segment in a queue.
LEMMA PlaceFacts ==
  ASSUME NEW q, Len(q) \in Nat, NEW seqno
  PROVE  /\ Place(q, seqno) \in 0..Len(q)
         /\ \A i \in 1..Place(q, seqno) : q[i].seqno < seqno
         /\ Place(q, seqno) < Len(q) => ~(q[Place(q, seqno) + 1].seqno < seqno)
<1> DEFINE N == Len(q)
           k == Place(q, seqno)
           P == {i \in 1..N : q[i].seqno < seqno}
           S == {m \in 0..N : \A i \in 1..m : q[i].seqno < seqno}
<1>1. N \in Nat
  OBVIOUS
<1>2. \A m : m \in S <=> m \in 0..N /\ \A i \in 1..m : i \in P
  <2>1. \A m \in 0..N : \A i \in 1..m : i \in 1..N
    BY <1>1
  <2>2. \A m : m \in S <=> m \in 0..N /\ \A i \in 1..m : q[i].seqno < seqno
    OBVIOUS
  <2> HIDE DEF S
  <2> QED  BY <2>1, <2>2
<1>3. k = Max(S)
  BY DEF Place
<1>4. \A i \in 1..N : i \in P <=> q[i].seqno < seqno
  OBVIOUS
<1> HIDE DEF k, P, N, S
<1>5. k \in 0..N /\ (\A i \in 1..k : i \in P) /\ (k < N => k + 1 \notin P)
  BY <1>1, <1>2, <1>3, LongestPrefix
<1>6. (\A i \in 1..k : i \in 1..N) /\ (k < N => k + 1 \in 1..N)
  BY <1>1, <1>5
<1>7. (\A i \in 1..k : q[i].seqno < seqno) /\ (k < N => ~(q[k + 1].seqno < seqno))
  BY <1>4, <1>5, <1>6
<1> QED  BY <1>5, <1>7 DEF k, N

\* It is put on the queue.
LEMMA PlacedSeg ==
  ASSUME NEW q \in Seq(Seg), NEW s \in Seg
  PROVE  Placed(q, s) \in Seq(Seg) /\ Placed(q, s) # <<>>
<1> DEFINE k == Place(q, s.seqno)
           a == SubSeq(q, 1, k)
           b == SubSeq(q, k + 1, Len(q))
<1>1. k \in 0..Len(q)
  BY PlaceFacts
<1>2. Placed(q, s) = a \o <<s>> \o b
  BY DEF Placed
<1> HIDE DEF k
<1>3. a \in Seq(Seg) /\ b \in Seq(Seg) /\ <<s>> \in Seq(Seg)
  BY <1>1
<1> HIDE DEF a, b
<1>4. a \o <<s>> \o b \in Seq(Seg) /\ Len(a \o <<s>> \o b) > 0
  BY <1>3
<1> QED  BY <1>2, <1>4


\* The loop of tcp_output, step by step.
LEMMA PlacedSteps ==
  ASSUME NEW queue, NEW sent, Len(sent) \in Nat
  PROVE  \E g : /\ g[0] = queue
                /\ \A i \in 1..Len(sent) : g[i] = Placed(g[i - 1], sent[i])
                /\ PlacedAll(queue, sent) = g[Len(sent)]
<1> DEFINE N == Len(sent)
           E(g) == g = [n \in 0..N |-> IF n = 0 THEN queue ELSE Placed(g[n - 1], sent[n])]
           a == CHOOSE g : E(g)
<1>1. N \in Nat
  OBVIOUS
<1>2. PlacedAll(queue, sent) = a[N]
  BY DEF PlacedAll
<1>3. E(a)
  <2> DEFINE S == {m \in Nat : \E g : g = [n \in 0..m |-> IF n = 0 THEN queue ELSE Placed(g[n - 1], sent[n])]}
  <2>1. 0 \in S
    <3> DEFINE g == [n \in 0..0 |-> queue]
    <3>1. g = [n \in 0..0 |-> IF n = 0 THEN queue ELSE Placed(g[n - 1], sent[n])]
      OBVIOUS
    <3> QED  BY <3>1
  <2>2. ASSUME NEW m \in Nat, m \in S PROVE m + 1 \in S
    <3>1. PICK g : g = [n \in 0..m |-> IF n = 0 THEN queue ELSE Placed(g[n - 1], sent[n])]
      BY <2>2
    <3> DEFINE h == [n \in 0..m + 1 |-> IF n = m + 1 THEN Placed(g[m], sent[m + 1]) ELSE g[n]]
    <3>2. \A n \in 0..m : g[n] = IF n = 0 THEN queue ELSE Placed(g[n - 1], sent[n])
      BY <3>1
    <3>3. \A n \in 0..m + 1 : h[n] = IF n = m + 1 THEN Placed(g[m], sent[m + 1]) ELSE g[n]
      OBVIOUS
    <3>4. ASSUME NEW n \in 0..m + 1
          PROVE  h[n] = IF n = 0 THEN queue ELSE Placed(h[n - 1], sent[n])
      <4> HIDE DEF h
      <4>1. CASE n = 0
        BY <3>2, <3>3, <4>1
      <4>2. CASE n = m + 1
        <5>1. h[n] = Placed(g[m], sent[n]) /\ n - 1 = m /\ n # 0
          BY <3>3, <4>2
        <5>2. h[m] = g[m]
          BY <3>3
        <5> QED  BY <5>1, <5>2
      <4>3. CASE n # 0 /\ n # m + 1
        <5>1. n \in 0..m /\ n - 1 \in 0..m + 1 /\ n - 1 # m + 1
          BY <4>3
        <5>2. h[n] = g[n] /\ h[n - 1] = g[n - 1]
          BY <3>3, <4>3, <5>1
        <5>3. g[n] = Placed(g[n - 1], sent[n])
          BY <3>2, <4>3, <5>1
        <5> QED  BY <4>3, <5>2, <5>3
      <4> QED  BY <4>1, <4>2, <4>3
    <3>5. h = [n \in 0..m + 1 |-> IF n = 0 THEN queue ELSE Placed(h[n - 1], sent[n])]
      BY <3>4
    <3>6. \E k : k = [n \in 0..m + 1 |-> IF n = 0 THEN queue ELSE Placed(k[n - 1], sent[n])]
      BY <3>5
    <3> QED  BY <3>6
  <2> HIDE DEF S
  <2>3. Nat \subseteq S
    BY <2>1, <2>2, SetInduction
  <2>4. N \in S
    BY <1>1, <2>3
  <2>5. \E g : E(g)
    BY <2>4 DEF S
  <2> HIDE DEF E
  <2> QED  BY <2>5
<1> HIDE DEF a
<1>4. \A n \in 0..N : a[n] = IF n = 0 THEN queue ELSE Placed(a[n - 1], sent[n])
  <2> HIDE DEF N
  <2> QED  BY <1>3
<1>5. a[0] = queue
  BY <1>1, <1>4
<1>6. \A i \in 1..N : a[i] = Placed(a[i - 1], sent[i])
  BY <1>1, <1>4
<1> QED  BY <1>2, <1>5, <1>6

\* The queue after it.
LEMMA PlacedAllSeg ==
  ASSUME NEW queue \in Seq(Seg), NEW sent \in Seq(Seg)
  PROVE  /\ PlacedAll(queue, sent) \in Seq(Seg)
         /\ sent = <<>> => PlacedAll(queue, sent) = queue
         /\ sent # <<>> => PlacedAll(queue, sent) # <<>>
<1> DEFINE N == Len(sent)
<1>1. N \in Nat /\ (\A i \in 1..N : sent[i] \in Seg) /\ (sent = <<>> <=> N = 0)
  OBVIOUS
<1>2. PICK g : /\ g[0] = queue /\ \A i \in 1..N : g[i] = Placed(g[i - 1], sent[i])
               /\ PlacedAll(queue, sent) = g[N]
  BY PlacedSteps
<1> HIDE DEF N
<1> DEFINE S == {m \in Nat : m <= N => g[m] \in Seq(Seg)}
<1>3. 0 \in S
  BY <1>2
<1>4. ASSUME NEW m \in Nat, m \in S PROVE m + 1 \in S
  <2>1. CASE m + 1 <= N
    <3>1. m + 1 \in 1..N /\ (m + 1) - 1 = m /\ g[m] \in Seq(Seg)
      BY <1>1, <1>4, <2>1
    <3>2. g[m + 1] = Placed(g[m], sent[m + 1]) /\ sent[m + 1] \in Seg
      BY <1>1, <1>2, <3>1
    <3>3. g[m + 1] \in Seq(Seg)
      BY <3>1, <3>2, PlacedSeg
    <3> QED  BY <3>3
  <2> QED  BY <2>1
<1> HIDE DEF S
<1>5. N \in S
  BY <1>1, <1>3, <1>4, SetInduction
<1>6. ASSUME N # 0 PROVE g[N] # <<>>
  <2>1. N \in 1..N /\ N - 1 \in Nat /\ N - 1 <= N
    BY <1>1, <1>6
  <2>2. g[N - 1] \in Seq(Seg)
    <3>1. N - 1 \in S
      BY <1>3, <1>4, <2>1, SetInduction
    <3> QED  BY <2>1, <3>1 DEF S
  <2>3. g[N] = Placed(g[N - 1], sent[N]) /\ sent[N] \in Seg
    BY <1>1, <1>2, <2>1
  <2> QED  BY <2>2, <2>3, PlacedSeg
<1> QED  BY <1>1, <1>2, <1>5, <1>6 DEF S

\* How many segments tcp_output sends.
Sendable(p) ==
  Max({j \in 0..Len(p.unsent) : \A i \in 1..j : Fits(p, p.unsent[i]) /\ MaySend(p, i)})

\* It sends the first k.
Sent(p, k) ==
  [p EXCEPT !.unsent = SubSeq(p.unsent, k + 1, Len(p.unsent)),
            !.unacked = PlacedAll(@, SubSeq(p.unsent, 1, k)),
            !.unsent_oversize = IF SubSeq(p.unsent, k + 1, Len(p.unsent)) = <<>> THEN 0 ELSE @,
            !.snd_nxt = IF k > 0 THEN MaxOf(@, EndOf(SubSeq(p.unsent, 1, k)[k])) ELSE @,
            !.rtime = @ \/ k > 0,
            !.memerr = FALSE,
            !.out = @ \cup {[seqno |-> s.seqno, len |-> s.len, fin |-> s.fin] :
                              s \in Range(SubSeq(p.unsent, 1, k))}]
Persists(p) == [p EXCEPT !.persist = TRUE, !.memerr = FALSE]

\* The outcomes of tcp_output.
LEMMA OutputCases ==
  ASSUME NEW p, NEW acknow
  PROVE  \/ tcp_output(p, acknow) = p
         \/ tcp_output(p, acknow) = Persists(p)
         \/ tcp_output(p, acknow) = Sent(p, Sendable(p))
BY DEF tcp_output, Persists, Sent, Sendable

\* The segments that are sent fit the window.
LEMMA SendableFacts ==
  ASSUME NEW p, Len(p.unsent) \in Nat
  PROVE  /\ Sendable(p) \in 0..Len(p.unsent)
         /\ \A i \in 1..Sendable(p) : Fits(p, p.unsent[i]) /\ MaySend(p, i)
         /\ Sendable(p) < Len(p.unsent)
              => ~(Fits(p, p.unsent[Sendable(p) + 1]) /\ MaySend(p, Sendable(p) + 1))
<1> DEFINE N == Len(p.unsent)
           k == Sendable(p)
           P == {i \in 1..N : Fits(p, p.unsent[i]) /\ MaySend(p, i)}
           S == {m \in 0..N : \A i \in 1..m : Fits(p, p.unsent[i]) /\ MaySend(p, i)}
<1>1. N \in Nat
  OBVIOUS
<1>2. \A m : m \in S <=> m \in 0..N /\ \A i \in 1..m : i \in P
  <2>1. \A m \in 0..N : \A i \in 1..m : i \in 1..N
    BY <1>1
  <2>2. \A m : m \in S <=> m \in 0..N /\ \A i \in 1..m : Fits(p, p.unsent[i]) /\ MaySend(p, i)
    OBVIOUS
  <2> HIDE DEF S
  <2> QED  BY <2>1, <2>2
<1>3. k = Max(S)
  BY DEF Sendable
<1>4. \A i \in 1..N : i \in P <=> Fits(p, p.unsent[i]) /\ MaySend(p, i)
  OBVIOUS
<1> HIDE DEF k, P, N, S
<1>5. k \in 0..N /\ (\A i \in 1..k : i \in P) /\ (k < N => k + 1 \notin P)
  BY <1>1, <1>2, <1>3, LongestPrefix
<1>6. (\A i \in 1..k : i \in 1..N) /\ (k < N => k + 1 \in 1..N)
  BY <1>1, <1>5
<1>7. /\ \A i \in 1..k : Fits(p, p.unsent[i]) /\ MaySend(p, i)
      /\ k < N => ~(Fits(p, p.unsent[k + 1]) /\ MaySend(p, k + 1))
  BY <1>4, <1>5, <1>6
<1> QED  BY <1>5, <1>7 DEF k, N

\* The fields of a pcb.
LEMMA PcbFields ==
  ASSUME NEW p \in Pcb
  PROVE  /\ p.state \in {"ESTABLISHED", "FIN_WAIT_1", "CLOSED"}
         /\ p.unsent \in Seq(Seg) /\ p.unacked \in Seq(Seg) /\ p.unsent_oversize \in Int
         /\ p.lastack \in Int /\ p.snd_nxt \in Int /\ p.snd_lbb \in Int /\ p.snd_buf \in Int
         /\ p.snd_queuelen \in Int /\ p.snd_wnd \in Int /\ p.snd_wl2 \in Int
         /\ p.cwnd \in Nat /\ p.cwnd > 0 /\ p.ssthresh \in Nat /\ p.ssthresh > 0
         /\ p.dupacks \in Int /\ p.nrtx \in Int /\ p.rtime \in BOOLEAN
         /\ p.persist \in BOOLEAN /\ p.infr \in BOOLEAN /\ p.memerr \in BOOLEAN
         /\ p.fin \in BOOLEAN /\ p.out \in SUBSET SentSeg
         /\ Len(p.unsent) \in Nat /\ Len(p.unacked) \in Nat
BY DEF Pcb

\* What neither tcp_output nor the zero window probe changes.
SameScalars(q, p) ==
  /\ q.state = p.state /\ q.lastack = p.lastack /\ q.snd_lbb = p.snd_lbb
  /\ q.snd_buf = p.snd_buf /\ q.snd_queuelen = p.snd_queuelen
  /\ q.snd_wnd = p.snd_wnd /\ q.snd_wl2 = p.snd_wl2
  /\ q.cwnd = p.cwnd /\ q.ssthresh = p.ssthresh /\ q.dupacks = p.dupacks /\ q.nrtx = p.nrtx
  /\ q.infr = p.infr /\ q.fin = p.fin

\* The pcb after the first k segments were sent.
LEMMA SentPcb ==
  ASSUME NEW p \in Pcb, NEW k \in 0..Len(p.unsent)
  PROVE  /\ Sent(p, k) \in Pcb /\ SameScalars(Sent(p, k), p)
         /\ Sent(p, k).unsent = SubSeq(p.unsent, k + 1, Len(p.unsent))
         /\ Sent(p, k).unacked = PlacedAll(p.unacked, SubSeq(p.unsent, 1, k))
         /\ Sent(p, k).unsent_oversize = IF k = Len(p.unsent) THEN 0 ELSE p.unsent_oversize
         /\ k > 0 => Sent(p, k).snd_nxt = MaxOf(p.snd_nxt, EndOf(p.unsent[k]))
         /\ k = 0 => Sent(p, k).snd_nxt = p.snd_nxt /\ Sent(p, k).unacked = p.unacked
         /\ Sent(p, k).rtime <=> (p.rtime \/ k > 0)
         /\ Sent(p, k).persist <=> p.persist
         /\ \A s \in Sent(p, k).out :
              \/ s \in p.out
              \/ \E i \in 1..k : /\ s.seqno = p.unsent[i].seqno /\ s.len = p.unsent[i].len
                                 /\ s.fin = p.unsent[i].fin
<1> DEFINE a == SubSeq(p.unsent, 1, k)
           b == SubSeq(p.unsent, k + 1, Len(p.unsent))
           u == PlacedAll(p.unacked, a)
           o == IF b = <<>> THEN 0 ELSE p.unsent_oversize
           x == IF k > 0 THEN MaxOf(p.snd_nxt, EndOf(a[k])) ELSE p.snd_nxt
           t == p.out \cup {[seqno |-> s.seqno, len |-> s.len, fin |-> s.fin] : s \in Range(a)}
           q == Sent(p, k)
<1>1. /\ p.unsent \in Seq(Seg) /\ p.unacked \in Seq(Seg) /\ p.unsent_oversize \in Int
      /\ p.snd_nxt \in Int /\ p.out \in SUBSET SentSeg /\ p.rtime \in BOOLEAN
  BY PcbFields
<1>2. /\ a \in Seq(Seg) /\ b \in Seq(Seg) /\ Len(a) = k /\ (\A i \in 1..k : a[i] = p.unsent[i])
      /\ (b = <<>> <=> k = Len(p.unsent)) /\ (k = 0 => a = <<>>)
  <2>1. Len(b) = Len(p.unsent) - k /\ b \in Seq(Seg)
    BY <1>1
  <2>2. a \in Seq(Seg) /\ Len(a) = k /\ \A i \in 1..k : a[i] = p.unsent[i]
    BY <1>1
  <2>3. Len(p.unsent) \in Nat
    BY <1>1
  <2> HIDE DEF a, b
  <2>4. b = <<>> <=> k = Len(p.unsent)
    BY <2>1, <2>3
  <2>5. k = 0 => a = <<>>
    BY <2>2
  <2> QED  BY <2>1, <2>2, <2>4, <2>5
<1>3. q = [p EXCEPT !.unsent = b, !.unacked = u, !.unsent_oversize = o, !.snd_nxt = x,
                    !.rtime = p.rtime \/ k > 0, !.memerr = FALSE, !.out = t]
  BY DEF Sent, Pcb
<1>4. u \in Seq(Seg) /\ (k = 0 => u = p.unacked)
  <2> HIDE DEF a
  <2> QED  BY <1>1, <1>2, PlacedAllSeg
<1>5. \A i \in 1..k : a[i] = p.unsent[i] /\ a[i] \in Seg
  BY <1>1, <1>2
<1>6. o \in Int /\ o = IF k = Len(p.unsent) THEN 0 ELSE p.unsent_oversize
  BY <1>1, <1>2
<1>7. x \in Int /\ (k > 0 => x = MaxOf(p.snd_nxt, EndOf(p.unsent[k]))) /\ (k = 0 => x = p.snd_nxt)
  <2>1. CASE k = 0
    BY <1>1, <2>1
  <2>2. CASE k > 0
    <3>1. k \in 1..k /\ a[k] = p.unsent[k] /\ a[k] \in Seg
      BY <1>5, <2>2
    <3>2. EndOf(a[k]) \in Int
      BY <3>1, EndFacts DEF Seg
    <3>3. MaxOf(p.snd_nxt, EndOf(a[k])) \in Int
      BY <1>1, <3>2, MinMax
    <3> QED  BY <2>2, <3>1, <3>3
  <2> QED  BY <2>1, <2>2
<1>8. \A s \in t : \/ s \in p.out
                   \/ \E i \in 1..k : /\ s = [seqno |-> a[i].seqno, len |-> a[i].len, fin |-> a[i].fin]
  <2> HIDE DEF a
  <2>0. DOMAIN a = 1..k
    BY <1>2
  <2>1. Range(a) = {a[i] : i \in 1..k}
    BY <2>0 DEF Range
  <2> QED  BY <2>1
<1>9. t \in SUBSET SentSeg
  <2>1. \A i \in 1..k : [seqno |-> a[i].seqno, len |-> a[i].len, fin |-> a[i].fin] \in SentSeg
    BY <1>5 DEF Seg, SentSeg
  <2> QED  BY <1>1, <1>8, <2>1
<1>10. \A s \in t : \/ s \in p.out
                    \/ \E i \in 1..k : /\ s.seqno = p.unsent[i].seqno /\ s.len = p.unsent[i].len
                                       /\ s.fin = p.unsent[i].fin
  BY <1>5, <1>8
<1> HIDE DEF a, b, u, o, x, t, q
<1>11. q \in Pcb
  <2>1. b \in Seq(Seg) /\ u \in Seq(Seg) /\ o \in Int /\ x \in Int /\ t \in SUBSET SentSeg
    BY <1>2, <1>4, <1>6, <1>7, <1>9
  <2> QED  BY ONLY p \in Pcb, <1>3, <2>1 DEF Pcb
<1>12. SameScalars(q, p)
  BY <1>3 DEF Pcb, SameScalars
<1>13. /\ q.unsent = b /\ q.unacked = u /\ q.unsent_oversize = o /\ q.snd_nxt = x
       /\ q.rtime = (p.rtime \/ k > 0) /\ q.out = t /\ q.persist = p.persist
  BY <1>3 DEF Pcb
<1>14. u = PlacedAll(p.unacked, SubSeq(p.unsent, 1, k)) /\ b = SubSeq(p.unsent, k + 1, Len(p.unsent))
  BY DEF u, a, b
<1>15. k > 0 => q.snd_nxt = MaxOf(p.snd_nxt, EndOf(p.unsent[k]))
  BY <1>7, <1>13
<1>16. k = 0 => q.snd_nxt = p.snd_nxt /\ q.unacked = p.unacked
  BY <1>4, <1>7, <1>13
<1>17. \A s \in q.out :
         \/ s \in p.out
         \/ \E i \in 1..k : /\ s.seqno = p.unsent[i].seqno /\ s.len = p.unsent[i].len
                            /\ s.fin = p.unsent[i].fin
  BY <1>10, <1>13
<1> QED  BY <1>6, <1>11, <1>12, <1>13, <1>14, <1>15, <1>16, <1>17 DEF q

\* What the console has shown: the end of the window that it offered and the
\* byte that it expects; and the probes that a step may send.
Limits == [edge : Int, nxt : Int, probes : SUBSET SentSeg]

\* The window, the timers and what was sent.  The window is one that the console
\* offered with the acknowledgement snd_wl2, perhaps an older one than lastack.
WindowOK(p, lim) ==
  /\ p.snd_wl2 + p.snd_wnd <= lim.edge
  /\ p.lastack <= lim.nxt /\ p.snd_wnd >= 0 /\ p.snd_wnd <= PeerWnd
  /\ p.unacked # <<>> => p.rtime
  /\ p.snd_wnd = 0 => p.persist
  /\ \A s \in p.out : s.seqno + s.len <= p.lastack + p.snd_wnd \/ s \in lim.probes

\* What fits ends within the window.
LEMMA FitsFacts ==
  ASSUME NEW p \in Pcb, NEW s \in Seg, Fits(p, s)
  PROVE  s.seqno + s.len <= p.lastack + p.snd_wnd
<1>1. p.lastack \in Int /\ p.snd_wnd \in Int /\ p.cwnd \in Int /\ s.seqno \in Int /\ s.len \in Int
  BY PcbFields DEF Seg
<1>2. MinOf(p.snd_wnd, p.cwnd) <= p.snd_wnd /\ MinOf(p.snd_wnd, p.cwnd) \in Int
  BY <1>1, MinMax
<1>3. s.seqno - p.lastack + s.len <= MinOf(p.snd_wnd, p.cwnd)
  BY DEF Fits
<1> QED  BY <1>1, <1>2, <1>3

\* tcp_output.
LEMMA OutputWindow ==
  ASSUME NEW p \in Pcb, NEW lim \in Limits, WindowOK(p, lim), NEW acknow
  PROVE  /\ tcp_output(p, acknow) \in Pcb
         /\ SameScalars(tcp_output(p, acknow), p)
         /\ WindowOK(tcp_output(p, acknow), lim)
<1> DEFINE q == tcp_output(p, acknow)
<1>1. CASE q = p
  BY <1>1 DEF SameScalars
<1>2. CASE q = Persists(p)
  <2>1. /\ q \in Pcb /\ q.unacked = p.unacked /\ q.rtime = p.rtime /\ q.out = p.out
        /\ q.persist = TRUE
    BY <1>2 DEF Persists, Pcb
  <2>2. SameScalars(q, p)
    BY <1>2 DEF Persists, Pcb, SameScalars
  <2> HIDE DEF q
  <2>3. WindowOK(q, lim)
    BY <2>1, <2>2 DEF WindowOK, SameScalars
  <2> QED  BY <2>1, <2>2, <2>3 DEF q
<1>3. CASE q = Sent(p, Sendable(p))
  <2> DEFINE k == Sendable(p)
  <2>1. k \in 0..Len(p.unsent) /\ \A i \in 1..k : Fits(p, p.unsent[i])
    BY PcbFields, SendableFacts
  <2>2. q = Sent(p, k)
    BY <1>3
  <2> HIDE DEF k, q
  <2>3. /\ q \in Pcb /\ SameScalars(q, p)
        /\ k = 0 => q.unacked = p.unacked
        /\ q.rtime <=> (p.rtime \/ k > 0)
        /\ q.persist <=> p.persist
        /\ \A s \in q.out :
             \/ s \in p.out
             \/ \E i \in 1..k : s.seqno = p.unsent[i].seqno /\ s.len = p.unsent[i].len
    BY <2>1, <2>2, SentPcb
  <2>4. p.lastack \in Int /\ p.snd_wnd \in Int /\ p.unsent \in Seq(Seg)
    BY PcbFields
  <2>5. ASSUME NEW s \in q.out
        PROVE  s.seqno + s.len <= p.lastack + p.snd_wnd \/ s \in lim.probes
    <3>1. CASE s \in p.out
      BY <3>1 DEF WindowOK
    <3>2. CASE \E i \in 1..k : s.seqno = p.unsent[i].seqno /\ s.len = p.unsent[i].len
      <4>1. PICK i \in 1..k : s.seqno = p.unsent[i].seqno /\ s.len = p.unsent[i].len
        BY <3>2
      <4>2. p.unsent[i] \in Seg /\ Fits(p, p.unsent[i])
        BY <2>1, <2>4
      <4> QED  BY <4>1, <4>2, FitsFacts
    <3> QED  BY <2>3, <3>1, <3>2
  <2>6. q.unacked # <<>> => q.rtime
    <3>1. CASE k = 0
      BY <2>3, <3>1 DEF WindowOK
    <3>2. CASE k # 0
      BY <2>1, <2>3, <3>2
    <3> QED  BY <3>1, <3>2
  <2>7. WindowOK(q, lim)
    BY <2>3, <2>5, <2>6 DEF WindowOK, SameScalars
  <2> QED  BY <2>3, <2>7 DEF q
<1> QED  BY <1>1, <1>2, <1>3, OutputCases

-----------------------------------------------------------------------------
(* tcp_write *)

WriteSpace(p) == IF p.unsent = <<>> THEN 0 ELSE TCP_MSS - p.unsent[Len(p.unsent)].len
WriteUsed(p, len) == MinOf(WriteSpace(p), MinOf(p.unsent_oversize, len))
WriteCat(p, len) ==
  IF p.unsent # <<>> /\ p.unsent[Len(p.unsent)].len > 0
  THEN MinOf(WriteSpace(p), len) - WriteUsed(p, len) ELSE 0
WritePos(p, len) == WriteUsed(p, len) + WriteCat(p, len)
WriteK(p, len) == (len - WritePos(p, len) + TCP_MSS - 1) \div TCP_MSS
NewSegment(lbb, pos, len, i) ==
  [seqno |-> lbb + pos + (i - 1) * TCP_MSS,
   len |-> MinOf(TCP_MSS, len - pos - (i - 1) * TCP_MSS),
   fin |-> FALSE, n |-> 1]
WriteNew(p, len) ==
  [i \in 1..WriteK(p, len) |-> NewSegment(p.snd_lbb, WritePos(p, len), len, i)]
Extended(q, pos, m) == [q EXCEPT ![Len(q)].len = @ + pos, ![Len(q)].n = @ + m]
WriteOld(p, len) ==
  IF p.unsent = <<>> THEN <<>>
  ELSE Extended(p.unsent, WritePos(p, len), IF WriteCat(p, len) > 0 THEN 1 ELSE 0)
WriteLeft(p, len) ==
  IF WriteK(p, len) > 0
  THEN IF p.unsent = <<>> /\ p.unacked = <<>> /\ WriteK(p, len) = 1 THEN 0
       ELSE TCP_MSS - WriteNew(p, len)[WriteK(p, len)].len
  ELSE IF WriteCat(p, len) > 0 THEN WriteSpace(p) - WritePos(p, len)
  ELSE p.unsent_oversize - WriteUsed(p, len)
WriteQueuelen(p, len) ==
  p.snd_queuelen + WriteK(p, len) + (IF WriteCat(p, len) > 0 THEN 1 ELSE 0)
WriteFails(p, len) ==
  \/ len > p.snd_buf
  \/ p.snd_queuelen >= TCP_SND_QUEUELEN
  \/ WriteK(p, len) > 0 /\ WriteQueuelen(p, len) > TCP_SND_QUEUELEN
MemErr(p) == [p EXCEPT !.memerr = TRUE]
WriteDone(p, len, unsent, oversize, queuelen) ==
  [p EXCEPT !.unsent = unsent, !.unsent_oversize = oversize,
            !.snd_lbb = @ + len, !.snd_buf = @ - len, !.snd_queuelen = queuelen]

\* tcp_write, in these words.
LEMMA WriteCases ==
  ASSUME NEW p, NEW len
  PROVE  tcp_write(p, len) =
           IF WriteFails(p, len) THEN [ok |-> FALSE, pcb |-> MemErr(p)]
           ELSE [ok |-> TRUE,
                 pcb |-> WriteDone(p, len, WriteOld(p, len) \o WriteNew(p, len),
                                   WriteLeft(p, len), WriteQueuelen(p, len))]
BY DEF tcp_write, WriteSpace, WriteUsed, WriteCat, WritePos, WriteK, NewSegment, WriteNew,
       Extended, WriteOld, WriteLeft, WriteQueuelen, WriteFails, MemErr, WriteDone

\* A segment of a queue is made longer.
LEMMA ExtendedSeg ==
  ASSUME NEW q \in Seq(Seg), q # <<>>, NEW pos \in Int, NEW m \in Int
  PROVE  /\ Extended(q, pos, m) \in Seq(Seg) /\ Len(Extended(q, pos, m)) = Len(q)
         /\ \A i \in 1..Len(q) :
              /\ i < Len(q) => Extended(q, pos, m)[i] = q[i]
              /\ Extended(q, pos, m)[i].seqno = q[i].seqno
              /\ Extended(q, pos, m)[i].fin = q[i].fin
         /\ Extended(q, pos, m)[Len(q)].len = q[Len(q)].len + pos
         /\ Extended(q, pos, m)[Len(q)].n = q[Len(q)].n + m
<1> DEFINE n == Len(q)
           s == q[n]
           t == [s EXCEPT !.len = s.len + pos, !.n = s.n + m]
           e == Extended(q, pos, m)
<1>1. n \in 1..n /\ n \in Nat /\ n > 0 /\ DOMAIN q = 1..n /\ \A i \in 1..n : q[i] \in Seg
  OBVIOUS
<1>2. e = [q EXCEPT ![n] = t]
  <2> HIDE DEF n
  <2>1. e = [q EXCEPT ![n].len = @ + pos, ![n].n = @ + m]
    BY DEF Extended, n
  <2> QED  BY <1>1, <2>1 DEF Seg
<1>3. t \in Seg /\ t.seqno = s.seqno /\ t.fin = s.fin /\ t.len = s.len + pos /\ t.n = s.n + m
  <2>1. s \in Seg
    BY <1>1
  <2> HIDE DEF s
  <2>2. s.len + pos \in Int /\ s.n + m \in Int
    BY <2>1 DEF Seg
  <2>3. t \in Seg
    BY <2>1, <2>2 DEF Seg
  <2>4. t.seqno = s.seqno /\ t.len = s.len + pos /\ t.n = s.n + m
    BY <2>1 DEF Seg
  <2>5. t.fin = s.fin
    BY <2>1 DEF Seg
  <2> QED  BY <2>3, <2>4, <2>5
<1> HIDE DEF t, e
<1>4. e \in Seq(Seg) /\ Len(e) = n /\ e[n] = t /\ \A i \in 1..n : i < n => e[i] = q[i]
  <2>1. e \in Seq(Seg) /\ Len(e) = n
    BY <1>1, <1>2, <1>3, SeqExcept
  <2>2. \A i \in 1..n : e[i] = IF i = n THEN t ELSE q[i]
    BY <1>1, <1>2
  <2> HIDE DEF n
  <2>3. n \in 1..n /\ \A i \in 1..n : i < n => i # n
    <3>1. \A i \in 1..n : i < n => i # n
      OBVIOUS
    <3> QED  BY <1>1, <3>1
  <2> QED  BY <2>1, <2>2, <2>3
<1>5. \A i \in 1..n : e[i].seqno = q[i].seqno /\ e[i].fin = q[i].fin
  BY <1>1, <1>3, <1>4
<1> QED  BY <1>3, <1>4, <1>5 DEF e

\* The numbers of tcp_write.
LEMMA WriteNumbers ==
  ASSUME NEW p \in Pcb, NEW len \in Int
  PROVE  /\ WriteSpace(p) \in Int /\ WriteUsed(p, len) \in Int /\ WriteCat(p, len) \in Int
         /\ WritePos(p, len) \in Int /\ WriteK(p, len) \in Int /\ WriteQueuelen(p, len) \in Int
<1>1. TCP_MSS \in Nat /\ TCP_MSS > 0 /\ p.unsent_oversize \in Int /\ p.snd_queuelen \in Int
  BY PcbFields, Options
<1>2. WriteSpace(p) \in Int
  <2>1. CASE p.unsent = <<>>
    BY <2>1 DEF WriteSpace
  <2>2. CASE p.unsent # <<>>
    <3>1. p.unsent[Len(p.unsent)] \in Seg
      BY <2>2, PcbFields
    <3> QED  BY <1>1, <2>2, <3>1 DEF WriteSpace, Seg
  <2> QED  BY <2>1, <2>2
<1>3. WriteUsed(p, len) \in Int
  BY <1>1, <1>2, MinMax DEF WriteUsed
<1>4. WriteCat(p, len) \in Int
  <2>1. MinOf(WriteSpace(p), len) \in Int
    BY <1>2, MinMax
  <2>2. MinOf(WriteSpace(p), len) - WriteUsed(p, len) \in Int
    BY <1>3, <2>1
  <2> QED  BY <2>2 DEF WriteCat
<1>5. WritePos(p, len) \in Int
  BY <1>3, <1>4 DEF WritePos
<1>6. WriteK(p, len) \in Int
  BY <1>1, <1>5 DEF WriteK
<1>7. WriteQueuelen(p, len) \in Int
  BY <1>1, <1>6 DEF WriteQueuelen
<1> QED  BY <1>2, <1>3, <1>4, <1>5, <1>6, <1>7

\* A new segment.
LEMMA NewSegmentSeg ==
  ASSUME NEW lbb \in Int, NEW pos \in Int, NEW len \in Int, NEW i \in Int
  PROVE  NewSegment(lbb, pos, len, i) \in Seg
<1>1. TCP_MSS \in Int
  BY Options
<1>2. (i - 1) * TCP_MSS \in Int
  BY <1>1
<1> DEFINE x == (i - 1) * TCP_MSS
<1> HIDE DEF x
<1>3. MinOf(TCP_MSS, len - pos - x) \in Int
  BY <1>1, <1>2, MinMax DEF x
<1> QED  BY <1>2, <1>3 DEF NewSegment, Seg, x

\* The segments of tcp_write.
LEMMA WriteSegs ==
  ASSUME NEW p \in Pcb, NEW len \in Int
  PROVE  /\ WriteNew(p, len) \in Seq(Seg) /\ WriteOld(p, len) \in Seq(Seg)
         /\ WriteK(p, len) >= 0 => Len(WriteNew(p, len)) = WriteK(p, len)
         /\ WriteLeft(p, len) \in Int
<1> DEFINE k == WriteK(p, len)
           pos == WritePos(p, len)
           new == WriteNew(p, len)
<1>1. k \in Int /\ pos \in Int /\ p.snd_lbb \in Int
  BY PcbFields, WriteNumbers
<1>2. new = [i \in 1..k |-> NewSegment(p.snd_lbb, pos, len, i)]
  BY DEF WriteNew
<1> HIDE DEF k, pos, new
<1>3. \A i \in 1..k : NewSegment(p.snd_lbb, pos, len, i) \in Seg
  BY <1>1, NewSegmentSeg
<1>4. new \in Seq(Seg) /\ (k >= 0 => Len(new) = k)
  <2>1. PICK m \in Nat : 1..k = 1..m /\ (k >= 0 => m = k)
    <3>1. CASE k >= 0
      BY <1>1, <3>1
    <3>2. CASE k < 0
      <4>1. 1..k = 1..0
        BY <1>1, <3>2
      <4> QED  BY <1>1, <3>2, <4>1
    <3> QED  BY <1>1, <3>1, <3>2
  <2>2. new = [i \in 1..m |-> NewSegment(p.snd_lbb, pos, len, i)]
    BY <1>2, <2>1
  <2>3. \A i \in 1..m : NewSegment(p.snd_lbb, pos, len, i) \in Seg
    BY <1>3, <2>1
  <2>4. new \in Seq(Seg) /\ Len(new) = m
    BY <2>2, <2>3
  <2> QED  BY <2>1, <2>4
<1>5. WriteOld(p, len) \in Seq(Seg)
  <2>1. CASE p.unsent = <<>>
    BY <2>1 DEF WriteOld
  <2>2. CASE p.unsent # <<>>
    <3> DEFINE m == IF WriteCat(p, len) > 0 THEN 1 ELSE 0
    <3>1. m \in Int
      OBVIOUS
    <3>2. WriteOld(p, len) = Extended(p.unsent, pos, m)
      BY <2>2 DEF WriteOld, pos
    <3> HIDE DEF m
    <3> QED  BY <1>1, <2>2, <3>1, <3>2, ExtendedSeg, PcbFields
  <2> QED  BY <2>1, <2>2
<1>6. WriteLeft(p, len) \in Int
  <2>1. CASE k > 0
    <3>1. new[k] \in Seg
      BY <1>1, <1>4, <2>1
    <3>2. TCP_MSS - new[k].len \in Int
      BY <3>1, Options DEF Seg
    <3> QED  BY <2>1, <3>2 DEF WriteLeft, k, new
  <2>2. CASE ~(k > 0)
    <3>1. WriteSpace(p) - WritePos(p, len) \in Int /\ p.unsent_oversize - WriteUsed(p, len) \in Int
      BY WriteNumbers, PcbFields
    <3> QED  BY <2>2, <3>1 DEF WriteLeft, k
  <2> QED  BY <2>1, <2>2
<1> QED  BY <1>4, <1>5, <1>6 DEF new, k

\* The pcb after tcp_write.
LEMMA WritePcb ==
  ASSUME NEW p \in Pcb, NEW len \in Int
  PROVE  LET r == tcp_write(p, len)
         IN /\ r.ok \in BOOLEAN /\ r.pcb \in Pcb
            /\ ~r.ok => r.pcb = MemErr(p)
            /\ ~r.ok <=> WriteFails(p, len)
            /\ r.pcb.unacked = p.unacked /\ r.pcb.lastack = p.lastack
            /\ r.pcb.snd_nxt = p.snd_nxt /\ r.pcb.snd_wnd = p.snd_wnd
            /\ r.pcb.snd_wl2 = p.snd_wl2 /\ r.pcb.out = p.out /\ r.pcb.state = p.state
            /\ r.pcb.rtime = p.rtime /\ r.pcb.persist = p.persist /\ r.pcb.fin = p.fin
            /\ r.pcb.infr = p.infr /\ r.pcb.nrtx = p.nrtx /\ r.pcb.dupacks = p.dupacks
            /\ r.pcb.cwnd = p.cwnd /\ r.pcb.ssthresh = p.ssthresh
            /\ r.ok => /\ r.pcb.unsent = WriteOld(p, len) \o WriteNew(p, len)
                       /\ r.pcb.unsent_oversize = WriteLeft(p, len)
                       /\ r.pcb.snd_lbb = p.snd_lbb + len /\ r.pcb.snd_buf = p.snd_buf - len
                       /\ r.pcb.snd_queuelen = WriteQueuelen(p, len)
<1> DEFINE r == tcp_write(p, len)
           u == WriteOld(p, len) \o WriteNew(p, len)
           o == WriteLeft(p, len)
           l == WriteQueuelen(p, len)
<1>1. r = IF WriteFails(p, len) THEN [ok |-> FALSE, pcb |-> MemErr(p)]
          ELSE [ok |-> TRUE, pcb |-> WriteDone(p, len, u, o, l)]
  BY WriteCases
<1>2. WriteOld(p, len) \in Seq(Seg) /\ WriteNew(p, len) \in Seq(Seg) /\ o \in Int /\ l \in Int
  BY WriteSegs, WriteNumbers
<1>3. u \in Seq(Seg)
  BY <1>2
<1> HIDE DEF r, u, o, l
<1>4. CASE WriteFails(p, len)
  <2>1. r.ok = FALSE /\ r.pcb = MemErr(p)
    BY <1>1, <1>4
  <2>2. MemErr(p) \in Pcb
    BY DEF MemErr, Pcb
  <2> QED  BY <1>4, <2>1, <2>2 DEF r, MemErr, Pcb
<1>5. CASE ~WriteFails(p, len)
  <2>1. r.ok = TRUE /\ r.pcb = WriteDone(p, len, u, o, l)
    BY <1>1, <1>5
  <2>2. WriteDone(p, len, u, o, l) \in Pcb
    <3> DEFINE x == p.snd_lbb + len
               y == p.snd_buf - len
    <3>1. x \in Int /\ y \in Int
      BY PcbFields
    <3> DEFINE z == [p EXCEPT !.unsent = u, !.unsent_oversize = o]
    <3>2. WriteDone(p, len, u, o, l) = [z EXCEPT !.snd_lbb = x, !.snd_buf = y, !.snd_queuelen = l]
      BY DEF WriteDone, Pcb
    <3> HIDE DEF x, y
    <3>3. u \in Seq(Seg) /\ o \in Int /\ l \in Int
      BY <1>2, <1>3
    <3>4. z \in Pcb
      BY ONLY p \in Pcb, <3>3 DEF Pcb
    <3> HIDE DEF z
    <3>5. [z EXCEPT !.snd_lbb = x, !.snd_buf = y, !.snd_queuelen = l] \in Pcb
      BY ONLY <3>1, <3>3, <3>4 DEF Pcb
    <3> QED  BY ONLY <3>2, <3>5
  <2>3. LET d == WriteDone(p, len, u, o, l)
        IN /\ d.unacked = p.unacked /\ d.lastack = p.lastack
           /\ d.snd_nxt = p.snd_nxt /\ d.snd_wnd = p.snd_wnd
           /\ d.snd_wl2 = p.snd_wl2 /\ d.out = p.out /\ d.state = p.state
           /\ d.rtime = p.rtime /\ d.persist = p.persist /\ d.fin = p.fin
           /\ d.infr = p.infr /\ d.nrtx = p.nrtx /\ d.dupacks = p.dupacks
           /\ d.cwnd = p.cwnd /\ d.ssthresh = p.ssthresh
           /\ d.unsent = u /\ d.unsent_oversize = o
           /\ d.snd_lbb = p.snd_lbb + len /\ d.snd_buf = p.snd_buf - len
           /\ d.snd_queuelen = l
    BY DEF WriteDone, Pcb
  <2> QED  BY <1>5, <2>1, <2>2, <2>3 DEF r, u, o, l
<1> QED  BY <1>4, <1>5

\* tcp_write changes neither the window nor the timers.
LEMMA WriteWindow ==
  ASSUME NEW p \in Pcb, NEW lim \in Limits, WindowOK(p, lim), NEW len \in Int
  PROVE  WindowOK(tcp_write(p, len).pcb, lim)
<1> DEFINE q == tcp_write(p, len).pcb
<1>1. /\ q.unacked = p.unacked /\ q.lastack = p.lastack /\ q.snd_wnd = p.snd_wnd
      /\ q.snd_wl2 = p.snd_wl2 /\ q.out = p.out /\ q.rtime = p.rtime /\ q.persist = p.persist
  BY WritePcb
<1> HIDE DEF q
<1>2. WindowOK(q, lim)
  BY <1>1 DEF WindowOK
<1> QED  BY <1>2 DEF q

-----------------------------------------------------------------------------
(* tcp_close and the timers *)

WithFin(q) == [q EXCEPT ![Len(q)].fin = TRUE]
FinSegment(seqno) == [seqno |-> seqno, len |-> 0, fin |-> TRUE, n |-> 1]

\* The last segment of a queue gets the FIN.
LEMMA WithFinSeg ==
  ASSUME NEW q \in Seq(Seg), q # <<>>
  PROVE  /\ WithFin(q) \in Seq(Seg) /\ Len(WithFin(q)) = Len(q)
         /\ \A i \in 1..Len(q) :
              /\ i < Len(q) => WithFin(q)[i] = q[i]
              /\ WithFin(q)[i].seqno = q[i].seqno /\ WithFin(q)[i].len = q[i].len
              /\ WithFin(q)[i].n = q[i].n
         /\ WithFin(q)[Len(q)].fin = TRUE
<1> DEFINE n == Len(q)
           s == q[n]
           t == [s EXCEPT !.fin = TRUE]
           e == WithFin(q)
<1>1. n \in 1..n /\ n \in Nat /\ n > 0 /\ DOMAIN q = 1..n /\ \A i \in 1..n : q[i] \in Seg
  OBVIOUS
<1>2. e = [q EXCEPT ![n] = t]
  <2> HIDE DEF n
  <2>1. e = [q EXCEPT ![n].fin = TRUE]
    BY DEF WithFin, n
  <2> QED  BY <1>1, <2>1 DEF Seg
<1>3. t \in Seg /\ t.seqno = s.seqno /\ t.fin = TRUE /\ t.len = s.len /\ t.n = s.n
  <2>1. s \in Seg
    BY <1>1
  <2> HIDE DEF s
  <2> QED  BY <2>1 DEF Seg
<1> HIDE DEF t, e
<1>4. e \in Seq(Seg) /\ Len(e) = n /\ e[n] = t /\ \A i \in 1..n : i < n => e[i] = q[i]
  <2>1. e \in Seq(Seg) /\ Len(e) = n
    BY <1>1, <1>2, <1>3, SeqExcept
  <2>2. \A i \in 1..n : e[i] = IF i = n THEN t ELSE q[i]
    BY <1>1, <1>2
  <2> HIDE DEF n
  <2>3. n \in 1..n /\ \A i \in 1..n : i < n => i # n
    <3>1. \A i \in 1..n : i < n => i # n
      OBVIOUS
    <3> QED  BY <1>1, <3>1
  <2> QED  BY <2>1, <2>2, <2>3
<1>5. \A i \in 1..n : e[i].seqno = q[i].seqno /\ e[i].len = q[i].len /\ e[i].n = q[i].n
  BY <1>1, <1>3, <1>4
<1> QED  BY <1>3, <1>4, <1>5 DEF e

\* The pcb after tcp_send_fin, in the state of a closed connection.
Finned(p) == [tcp_send_fin(p) EXCEPT !.state = "FIN_WAIT_1"]

\* What neither tcp_send_fin nor tcp_rexmit_rto changes.
SamePeer(q, p) ==
  /\ q.lastack = p.lastack /\ q.snd_nxt = p.snd_nxt
  /\ q.snd_buf = p.snd_buf /\ q.snd_wnd = p.snd_wnd /\ q.snd_wl2 = p.snd_wl2
  /\ q.dupacks = p.dupacks /\ q.rtime = p.rtime /\ q.persist = p.persist
  /\ q.infr = p.infr /\ q.memerr = p.memerr /\ q.out = p.out

\* The pcb after the FIN was queued.
LEMMA FinPcb ==
  ASSUME NEW p \in Pcb
  PROVE  /\ Finned(p) \in Pcb /\ SamePeer(Finned(p), p)
         /\ Finned(p).unacked = p.unacked /\ Finned(p).fin = TRUE
         /\ Finned(p).state = "FIN_WAIT_1"
         /\ Finned(p).nrtx = p.nrtx /\ Finned(p).cwnd = p.cwnd /\ Finned(p).ssthresh = p.ssthresh
         /\ p.unsent # <<>> =>
              /\ Finned(p).unsent = WithFin(p.unsent)
              /\ Finned(p).unsent_oversize = p.unsent_oversize /\ Finned(p).snd_lbb = p.snd_lbb
              /\ Finned(p).snd_queuelen = p.snd_queuelen
         /\ p.unsent = <<>> =>
              /\ Finned(p).unsent = <<FinSegment(p.snd_lbb)>>
              /\ Finned(p).unsent_oversize = 0 /\ Finned(p).snd_lbb = p.snd_lbb + 1
              /\ Finned(p).snd_queuelen = p.snd_queuelen + 1
<1> DEFINE q == Finned(p)
<1>1. CASE p.unsent # <<>>
  <2> DEFINE u == WithFin(p.unsent)
  <2>1. u \in Seq(Seg)
    BY <1>1, PcbFields, WithFinSeg
  <2>2. q = [p EXCEPT !.unsent = u, !.fin = TRUE, !.state = "FIN_WAIT_1"]
    BY <1>1 DEF Finned, tcp_send_fin, WithFin, Pcb
  <2> HIDE DEF u, q
  <2>3. q \in Pcb
    BY <2>1, <2>2 DEF Pcb
  <2>4. SamePeer(q, p)
    BY <2>2 DEF Pcb, SamePeer
  <2>5. /\ q.unacked = p.unacked /\ q.fin = TRUE /\ q.unsent = u
        /\ q.unsent_oversize = p.unsent_oversize /\ q.snd_lbb = p.snd_lbb
        /\ q.snd_queuelen = p.snd_queuelen /\ q.nrtx = p.nrtx
        /\ q.cwnd = p.cwnd /\ q.ssthresh = p.ssthresh /\ q.state = "FIN_WAIT_1"
    BY <2>2 DEF Pcb
  <2> QED  BY <1>1, <2>3, <2>4, <2>5 DEF q, u
<1>2. CASE p.unsent = <<>>
  <2> DEFINE s == FinSegment(p.snd_lbb)
             x == p.snd_lbb + 1
             y == p.snd_queuelen + 1
  <2>1. x \in Int /\ y \in Int /\ p.snd_lbb \in Int
    BY PcbFields
  <2>2. s \in Seg
    BY <2>1 DEF FinSegment, Seg
  <2> DEFINE z == <<s>>
  <2>3. q = [p EXCEPT !.unsent = z, !.unsent_oversize = 0, !.snd_lbb = x,
                      !.snd_queuelen = y, !.fin = TRUE, !.state = "FIN_WAIT_1"]
    BY <1>2 DEF Finned, tcp_send_fin, FinSegment, Pcb
  <2>4. z \in Seq(Seg) /\ 0 \in Int
    BY <2>2
  <2> HIDE DEF s, x, y, z, q
  <2>5. q \in Pcb
    BY <2>1, <2>3, <2>4 DEF Pcb
  <2>6. SamePeer(q, p)
    BY <2>3 DEF Pcb, SamePeer
  <2>7. /\ q.unacked = p.unacked /\ q.fin = TRUE /\ q.unsent = z
        /\ q.unsent_oversize = 0 /\ q.snd_lbb = x /\ q.snd_queuelen = y /\ q.nrtx = p.nrtx
        /\ q.cwnd = p.cwnd /\ q.ssthresh = p.ssthresh /\ q.state = "FIN_WAIT_1"
    BY <2>3 DEF Pcb
  <2> QED  BY <1>2, <2>5, <2>6, <2>7 DEF q, s, x, y, z
<1> QED  BY <1>1, <1>2

\* The pcb of a retransmission timeout, before tcp_output.
TimedOut(p) ==
  [p EXCEPT !.ssthresh = MaxOf(MinOf(p.cwnd, p.snd_wnd) \div 2, 2 * TCP_MSS),
            !.cwnd = TCP_MSS, !.unsent = p.unacked \o p.unsent, !.unacked = <<>>,
            !.nrtx = p.nrtx + 1]

\* The number that ssthresh is set to.
LEMMA HalfFacts ==
  ASSUME NEW p \in Pcb
  PROVE  /\ MaxOf(MinOf(p.cwnd, p.snd_wnd) \div 2, 2 * TCP_MSS) \in Nat \ {0}
         /\ MaxOf(MinOf(p.cwnd, p.snd_wnd) \div 2, 2 * TCP_MSS) >= 2 * TCP_MSS
<1> DEFINE m == MinOf(p.cwnd, p.snd_wnd)
           d == m \div 2
           e == 2 * TCP_MSS
<1>1. m \in Int
  <2>1. p.cwnd \in Int /\ p.snd_wnd \in Int
    BY PcbFields
  <2> QED  BY <2>1, MinMax
<1> HIDE DEF m
<1>2. d \in Int
  BY <1>1
<1>3. e \in Nat /\ e > 0
  BY Options
<1> HIDE DEF d, e
<1>4. MaxOf(d, e) \in Int /\ MaxOf(d, e) >= e
  BY <1>2, <1>3, MinMax
<1>5. MaxOf(d, e) \in Nat \ {0}
  BY <1>3, <1>4
<1> QED  BY <1>4, <1>5 DEF d, e, m

\* The pcb then.
LEMMA TimedOutPcb ==
  ASSUME NEW p \in Pcb
  PROVE  /\ TimedOut(p) \in Pcb /\ SamePeer(TimedOut(p), p)
         /\ TimedOut(p).state = p.state /\ TimedOut(p).fin = p.fin
         /\ TimedOut(p).unsent_oversize = p.unsent_oversize
         /\ TimedOut(p).snd_lbb = p.snd_lbb /\ TimedOut(p).snd_queuelen = p.snd_queuelen
         /\ TimedOut(p).unsent = p.unacked \o p.unsent /\ TimedOut(p).unacked = <<>>
         /\ TimedOut(p).nrtx = p.nrtx + 1 /\ TimedOut(p).cwnd = TCP_MSS
         /\ TimedOut(p).ssthresh = MaxOf(MinOf(p.cwnd, p.snd_wnd) \div 2, 2 * TCP_MSS)
<1> DEFINE u == p.unacked \o p.unsent
           x == p.nrtx + 1
           h == MaxOf(MinOf(p.cwnd, p.snd_wnd) \div 2, 2 * TCP_MSS)
           e == <<>>
           q == TimedOut(p)
<1>1. u \in Seq(Seg) /\ x \in Int /\ e \in Seq(Seg)
  BY PcbFields
<1>2. h \in Nat \ {0} /\ TCP_MSS \in Nat \ {0}
  BY HalfFacts, Options
<1>3. q = [p EXCEPT !.ssthresh = h, !.cwnd = TCP_MSS, !.unsent = u, !.unacked = e, !.nrtx = x]
  BY DEF TimedOut
<1> HIDE DEF u, x, h, e, q
<1>4. q \in Pcb
  BY <1>1, <1>2, <1>3 DEF Pcb
<1>5. SamePeer(q, p)
  BY <1>3 DEF Pcb, SamePeer
<1>6. /\ q.state = p.state /\ q.fin = p.fin /\ q.unsent_oversize = p.unsent_oversize
      /\ q.snd_lbb = p.snd_lbb /\ q.snd_queuelen = p.snd_queuelen
      /\ q.unsent = u /\ q.unacked = e /\ q.nrtx = x /\ q.cwnd = TCP_MSS /\ q.ssthresh = h
  BY <1>3 DEF Pcb
<1> QED  BY <1>4, <1>5, <1>6 DEF q, u, x, h, e

\* The segment of a probe.
ProbeSeg(seg) ==
  [seqno |-> seg.seqno, len |-> IF seg.fin /\ seg.len = 0 THEN 0 ELSE 1,
   fin |-> seg.fin /\ seg.len = 0]

\* The pcb after a probe.
LEMMA ProbePcb ==
  ASSUME NEW p \in Pcb
  PROVE  LET q == tcp_zero_window_probe(p)
             all == p.unacked \o p.unsent
         IN \/ q = p
            \/ /\ all # <<>> /\ q \in Pcb /\ SameScalars(q, p)
               /\ q.unacked = p.unacked /\ q.unsent = p.unsent
               /\ q.unsent_oversize = p.unsent_oversize
               /\ q.snd_nxt = MaxOf(p.snd_nxt, all[1].seqno + 1)
               /\ q.out = p.out \cup {ProbeSeg(all[1])}
               /\ q.rtime = p.rtime /\ q.persist = p.persist
<1> DEFINE q == tcp_zero_window_probe(p)
           all == p.unacked \o p.unsent
           s == all[1]
           x == MaxOf(p.snd_nxt, s.seqno + 1)
           o == p.out \cup {ProbeSeg(s)}
<1>1. CASE all = <<>>
  <2>1. q = p
    BY <1>1 DEF tcp_zero_window_probe
  <2> QED  BY <2>1
<1>2. CASE all # <<>>
  <2>1. all \in Seq(Seg)
    BY PcbFields
  <2>2. s \in Seg /\ Head(all) = s
    <3> HIDE DEF all
    <3>1. Len(all) \in Nat /\ Len(all) >= 1
      BY <1>2, <2>1
    <3> QED  BY <1>2, <2>1, <3>1
  <2>3. q = [p EXCEPT !.snd_nxt = x, !.out = o]
    <3>1. q = [p EXCEPT !.snd_nxt = MaxOf(@, Head(all).seqno + 1),
                        !.out = @ \cup {[seqno |-> Head(all).seqno,
                                         len |-> IF Head(all).fin /\ Head(all).len = 0 THEN 0 ELSE 1,
                                         fin |-> Head(all).fin /\ Head(all).len = 0]}]
      BY <1>2 DEF tcp_zero_window_probe
    <3> HIDE DEF all
    <3> QED  BY <2>2, <3>1 DEF Pcb, ProbeSeg
  <2> HIDE DEF s, q, all
  <2>4. x \in Int
    <3>1. s.seqno + 1 \in Int /\ p.snd_nxt \in Int
      BY <2>2, PcbFields DEF Seg
    <3> QED  BY <3>1, MinMax
  <2>5. o \in SUBSET SentSeg
    <3>1. s.seqno \in Int /\ s.len \in Int /\ s.fin \in BOOLEAN
      BY <2>2 DEF Seg
    <3>2. (IF s.fin /\ s.len = 0 THEN 0 ELSE 1) \in Int /\ (s.fin /\ s.len = 0) \in BOOLEAN
      BY <3>1
    <3>3. ProbeSeg(s) \in SentSeg
      BY <3>1, <3>2 DEF ProbeSeg, SentSeg
    <3> QED  BY <3>3, PcbFields
  <2> HIDE DEF x, o
  <2>6. q \in Pcb
    BY <2>3, <2>4, <2>5 DEF Pcb
  <2>7. SameScalars(q, p)
    BY <2>3 DEF Pcb, SameScalars
  <2>8. /\ q.unacked = p.unacked /\ q.unsent = p.unsent
        /\ q.unsent_oversize = p.unsent_oversize
        /\ q.snd_nxt = x /\ q.out = o /\ q.rtime = p.rtime /\ q.persist = p.persist
    BY <2>3 DEF Pcb
  <2> QED  BY <1>2, <2>6, <2>7, <2>8 DEF q, all, s, x, o
<1> QED  BY <1>1, <1>2

\* The flag of a tcp_output that could not send.
LEMMA MemErrWindow ==
  ASSUME NEW p \in Pcb, NEW lim \in Limits, WindowOK(p, lim)
  PROVE  MemErr(p) \in Pcb /\ WindowOK(MemErr(p), lim)
<1> DEFINE q == MemErr(p)
<1>1. /\ q \in Pcb /\ q.lastack = p.lastack /\ q.snd_wl2 = p.snd_wl2
      /\ q.snd_wnd = p.snd_wnd /\ q.unacked = p.unacked /\ q.rtime = p.rtime
      /\ q.persist = p.persist /\ q.out = p.out
  BY DEF MemErr, Pcb
<1> HIDE DEF q
<1>2. WindowOK(q, lim)
  BY <1>1 DEF WindowOK
<1> QED  BY <1>1, <1>2 DEF q

-----------------------------------------------------------------------------
(* Acknowledgements *)

Lengths(q) == [i \in 1..Len(q) |-> q[i].len]
Pbufs(q) == [i \in 1..Len(q) |-> q[i].n]

\* The sums over a queue.
LEMMA SumsOf ==
  ASSUME NEW q \in Seq(Seg)
  PROVE  /\ Lengths(q) \in Seq(Int) /\ Pbufs(q) \in Seq(Int)
         /\ Len(Lengths(q)) = Len(q) /\ Len(Pbufs(q)) = Len(q)
         /\ SumOf(q, LenOf) = SumSeq(Lengths(q)) /\ SumOf(q, PbufsOf) = SumSeq(Pbufs(q))
         /\ SumSeq(Lengths(q)) \in Int /\ SumSeq(Pbufs(q)) \in Int
<1>1. /\ Lengths(q) \in Seq(Int) /\ Pbufs(q) \in Seq(Int)
      /\ Len(Lengths(q)) = Len(q) /\ Len(Pbufs(q)) = Len(q)
  <2>1. \A i \in 1..Len(q) : q[i].len \in Int /\ q[i].n \in Int
    <3>1. \A i \in 1..Len(q) : q[i] \in Seg
      OBVIOUS
    <3>2. \A s \in Seg : s.len \in Int /\ s.n \in Int
      BY DEF Seg
    <3> QED  BY <3>1, <3>2
  <2> QED  BY <2>1 DEF Lengths, Pbufs
<1>2. SumOf(q, LenOf) = SumSeq(Lengths(q)) /\ SumOf(q, PbufsOf) = SumSeq(Pbufs(q))
  BY DEF SumOf, LenOf, PbufsOf, Lengths, Pbufs
<1>3. SumSeq(Lengths(q)) \in Int /\ SumSeq(Pbufs(q)) \in Int
  BY <1>1, SumConcat
<1> QED  BY <1>1, <1>2, <1>3

\* How many segments at the head of a queue an acknowledgement covers.
LEMMA AckedFacts ==
  ASSUME NEW q, Len(q) \in Nat, NEW ackno
  PROVE  /\ Acked(q, ackno) \in 0..Len(q)
         /\ \A i \in 1..Acked(q, ackno) : EndOf(q[i]) <= ackno
         /\ Acked(q, ackno) < Len(q) => ~(EndOf(q[Acked(q, ackno) + 1]) <= ackno)
<1> DEFINE N == Len(q)
           k == Acked(q, ackno)
           P == {i \in 1..N : EndOf(q[i]) <= ackno}
           S == {m \in 0..N : \A i \in 1..m : EndOf(q[i]) <= ackno}
<1>1. N \in Nat
  OBVIOUS
<1>2. \A m : m \in S <=> m \in 0..N /\ \A i \in 1..m : i \in P
  <2>1. \A m \in 0..N : \A i \in 1..m : i \in 1..N
    BY <1>1
  <2>2. \A m : m \in S <=> m \in 0..N /\ \A i \in 1..m : EndOf(q[i]) <= ackno
    OBVIOUS
  <2> HIDE DEF S
  <2> QED  BY <2>1, <2>2
<1>3. k = Max(S)
  BY DEF Acked
<1>4. \A i \in 1..N : i \in P <=> EndOf(q[i]) <= ackno
  OBVIOUS
<1> HIDE DEF k, P, N, S
<1>5. k \in 0..N /\ (\A i \in 1..k : i \in P) /\ (k < N => k + 1 \notin P)
  BY <1>1, <1>2, <1>3, LongestPrefix
<1>6. (\A i \in 1..k : i \in 1..N) /\ (k < N => k + 1 \in 1..N)
  BY <1>1, <1>5
<1>7. (\A i \in 1..k : EndOf(q[i]) <= ackno) /\ (k < N => ~(EndOf(q[k + 1]) <= ackno))
  BY <1>4, <1>5, <1>6
<1> QED  BY <1>5, <1>7 DEF k, N

\* What remains of a queue.
LEMMA UnackedSeg ==
  ASSUME NEW q \in Seq(Seg), NEW ackno
  PROVE  /\ Unacked(q, ackno) \in Seq(Seg)
         /\ Len(Unacked(q, ackno)) = Len(q) - Acked(q, ackno)
         /\ \A i \in 1..Len(q) - Acked(q, ackno) : Unacked(q, ackno)[i] = q[Acked(q, ackno) + i]
<1> DEFINE k == Acked(q, ackno)
<1>1. k \in 0..Len(q)
  BY AckedFacts
<1>2. Unacked(q, ackno) = SubSeq(q, k + 1, Len(q))
  BY DEF Unacked
<1> HIDE DEF k
<1>3. /\ SubSeq(q, k + 1, Len(q)) \in Seq(Seg) /\ Len(SubSeq(q, k + 1, Len(q))) = Len(q) - k
      /\ \A i \in 1..Len(q) - k : SubSeq(q, k + 1, Len(q))[i] = q[k + i]
  BY <1>1
<1> QED  BY <1>2, <1>3 DEF k

\* What the window update leaves alone.
SameQueues(q, p) ==
  /\ q.state = p.state /\ q.unsent = p.unsent /\ q.unacked = p.unacked
  /\ q.unsent_oversize = p.unsent_oversize /\ q.lastack = p.lastack /\ q.snd_nxt = p.snd_nxt
  /\ q.snd_lbb = p.snd_lbb /\ q.snd_buf = p.snd_buf /\ q.snd_queuelen = p.snd_queuelen
  /\ q.nrtx = p.nrtx /\ q.rtime = p.rtime /\ q.infr = p.infr /\ q.memerr = p.memerr
  /\ q.fin = p.fin /\ q.out = p.out

\* The window update.
LEMMA UpdatePcb ==
  ASSUME NEW p \in Pcb, NEW ackno \in Int, NEW wnd \in Int, NEW order
  PROVE  LET q == UpdateWindow(p, ackno, wnd, order)
         IN /\ q \in Pcb /\ SameQueues(q, p)
            /\ q.cwnd = p.cwnd /\ q.ssthresh = p.ssthresh /\ q.dupacks = p.dupacks
            /\ \/ q.snd_wnd = wnd /\ q.snd_wl2 = ackno /\ (q.persist <=> wnd = 0)
               \/ q = p
<1> DEFINE q == UpdateWindow(p, ackno, wnd, order)
           b == (wnd = 0)
<1>1. CASE q = p
  <2> HIDE DEF q
  <2>1. SameQueues(p, p)
    BY DEF SameQueues
  <2> QED  BY <1>1, <2>1 DEF q
<1>2. CASE q = [p EXCEPT !.snd_wnd = wnd, !.snd_wl2 = ackno, !.persist = b]
  <2>1. b \in BOOLEAN /\ (b <=> wnd = 0)
    OBVIOUS
  <2> HIDE DEF q, b
  <2>2. q \in Pcb
    BY <1>2, <2>1 DEF Pcb
  <2>3. SameQueues(q, p)
    BY <1>2 DEF Pcb, SameQueues
  <2>4. q.snd_wnd = wnd /\ q.snd_wl2 = ackno /\ q.persist = b
    BY <1>2 DEF Pcb
  <2>5. q.cwnd = p.cwnd /\ q.ssthresh = p.ssthresh /\ q.dupacks = p.dupacks
    BY <1>2 DEF Pcb
  <2> QED  BY <1>2, <2>1, <2>2, <2>3, <2>4, <2>5 DEF q
<1> QED  BY <1>1, <1>2 DEF UpdateWindow

\* A pcb after a duplicate acknowledgement was counted.
Counted(q, d, c) == [q EXCEPT !.dupacks = d, !.cwnd = c]
\* A pcb after the first segment was taken back to be sent again.
Fast(q, d, half) ==
  [q EXCEPT !.dupacks = d, !.unacked = Tail(@), !.unsent = Placed(@, Head(q.unacked)),
            !.unsent_oversize =
               IF Place(q.unsent, Head(q.unacked).seqno) = Len(q.unsent) THEN 0 ELSE @,
            !.nrtx = @ + 1, !.ssthresh = half, !.cwnd = half + 3 * TCP_MSS,
            !.infr = TRUE, !.rtime = TRUE]
Half(q) == MaxOf(MinOf(q.cwnd, q.snd_wnd) \div 2, 2 * TCP_MSS)
DupCount(q) == IF (q.dupacks + 1) % DupMod > q.dupacks THEN q.dupacks + 1 ELSE q.dupacks

\* The outcomes of a duplicate acknowledgement.
LEMMA DuplicateCases ==
  ASSUME NEW p, NEW q \in Pcb, NEW ackno, NEW data
  PROVE  LET r == DuplicateAck(p, q, ackno, data)
         IN \/ r = Counted(q, 0, q.cwnd)
            \/ r = Counted(q, DupCount(q), Inflate(q.cwnd))
            \/ r = Counted(q, DupCount(q), q.cwnd)
            \/ q.unacked # <<>> /\ ~q.infr /\ r = Fast(q, DupCount(q), Half(q))
<1> DEFINE r == DuplicateAck(p, q, ackno, data)
           d == DupCount(q)
           x == [q EXCEPT !.dupacks = d]
<1>1. \/ r = [q EXCEPT !.dupacks = 0]
      \/ r = [x EXCEPT !.cwnd = Inflate(@)]
      \/ r = tcp_rexmit_fast(x)
      \/ r = x
  BY DEF DuplicateAck, DupCount
<1> HIDE DEF d, r
<1>2. /\ x.cwnd = q.cwnd /\ x.unacked = q.unacked /\ x.unsent = q.unsent /\ x.infr = q.infr
      /\ x.snd_wnd = q.snd_wnd /\ x.unsent_oversize = q.unsent_oversize /\ x.nrtx = q.nrtx
  BY DEF Pcb
<1>3. x = Counted(q, d, q.cwnd)
  BY DEF Counted, Pcb
<1>4. [q EXCEPT !.dupacks = 0] = Counted(q, 0, q.cwnd)
  BY DEF Counted, Pcb
<1>5. [x EXCEPT !.cwnd = Inflate(@)] = Counted(q, d, Inflate(q.cwnd))
  BY <1>2 DEF Counted, Pcb
<1>6. CASE r = tcp_rexmit_fast(x)
  <2>1. CASE x.unacked = <<>> \/ x.infr
    <3>1. tcp_rexmit_fast(x) = x
      BY <2>1 DEF tcp_rexmit_fast
    <3>2. r = Counted(q, d, q.cwnd)
      BY <1>3, <1>6, <3>1
    <3> QED  BY <3>2 DEF r, d
  <2>2. CASE ~(x.unacked = <<>> \/ x.infr)
    <3>1. tcp_rexmit_fast(x)
            = [tcp_rexmit(x) EXCEPT !.ssthresh = Half(x), !.cwnd = Half(x) + 3 * TCP_MSS,
                                    !.infr = TRUE, !.rtime = TRUE]
      BY <2>2 DEF tcp_rexmit_fast, Half
    <3>2. Half(x) = Half(q)
      BY <1>2 DEF Half
    <3> DEFINE h == Half(q)
               c == h + 3 * TCP_MSS
               u == Tail(q.unacked)
               v == Placed(q.unsent, Head(q.unacked))
               o == IF Place(q.unsent, Head(q.unacked).seqno) = Len(q.unsent) THEN 0
                    ELSE q.unsent_oversize
               n == q.nrtx + 1
    <3>3. tcp_rexmit(x) = [x EXCEPT !.unacked = u, !.unsent = v, !.unsent_oversize = o, !.nrtx = n]
      BY <1>2 DEF tcp_rexmit
    <3>4. Fast(q, d, h) = [q EXCEPT !.dupacks = d, !.unacked = u, !.unsent = v,
                                    !.unsent_oversize = o, !.nrtx = n,
                                    !.ssthresh = h, !.cwnd = c, !.infr = TRUE, !.rtime = TRUE]
      BY DEF Fast
    <3>5. r = [tcp_rexmit(x) EXCEPT !.ssthresh = h, !.cwnd = c, !.infr = TRUE, !.rtime = TRUE]
      BY <1>6, <3>1, <3>2
    <3> HIDE DEF h, c, u, v, o, n
    <3>6. r = Fast(q, d, h)
      BY <3>3, <3>4, <3>5 DEF Pcb
    <3>7. q.unacked # <<>> /\ ~q.infr
      BY <1>2, <2>2
    <3> QED  BY <3>6, <3>7 DEF r, d, h
  <2> QED  BY <2>1, <2>2
<1>7. CASE r = [q EXCEPT !.dupacks = 0]
  BY <1>4, <1>7 DEF r
<1>8. CASE r = [x EXCEPT !.cwnd = Inflate(@)]
  BY <1>5, <1>8 DEF r, d
<1>9. CASE r = x
  BY <1>3, <1>9 DEF r, d
<1> QED  BY <1>1, <1>6, <1>7, <1>8, <1>9

\* cwnd and dupacks after an acknowledgement.
LEMMA CwndFacts ==
  ASSUME NEW cwnd \in Nat \ {0}, NEW ssthresh \in Nat \ {0}
  PROVE  /\ Inflate(cwnd) \in Nat \ {0} /\ Inflate(cwnd) >= cwnd
         /\ OpenCwnd(cwnd, ssthresh) \in Nat \ {0} /\ OpenCwnd(cwnd, ssthresh) >= cwnd
         /\ cwnd < CwndMod => Inflate(cwnd) < CwndMod /\ OpenCwnd(cwnd, ssthresh) < CwndMod
<1>1. TCP_MSS \in Nat /\ CwndMod \in Nat /\ CwndMod > 0
  BY Options
<1> DEFINE a == (cwnd + TCP_MSS) % CwndMod
           e == (TCP_MSS * TCP_MSS) \div cwnd
           b == (cwnd + e) % CwndMod
<1>2. a \in Nat /\ a < CwndMod
  BY <1>1
<1>3. e \in Nat
  <2>1. TCP_MSS * TCP_MSS \in Nat
    BY <1>1
  <2> DEFINE m == TCP_MSS * TCP_MSS
  <2> HIDE DEF m
  <2>2. m \div cwnd \in Nat
    BY <2>1 DEF m
  <2> QED  BY <2>2 DEF m
<1> HIDE DEF e
<1>4. b \in Nat /\ b < CwndMod
  BY <1>1, <1>3
<1>5. Inflate(cwnd) = MaxOf(cwnd, a)
  BY DEF Inflate
<1>6. OpenCwnd(cwnd, ssthresh) = MaxOf(cwnd, IF cwnd < ssthresh THEN a ELSE b)
  BY DEF OpenCwnd, e
<1> HIDE DEF a, b
<1> QED  BY <1>1, <1>2, <1>4, <1>5, <1>6 DEF MaxOf

\* dupacks is an unsigned char that does not wrap.
LEMMA DupCountFacts ==
  ASSUME NEW q \in Pcb
  PROVE  /\ DupCount(q) \in Int
         /\ q.dupacks \in 0..DupMod - 1 => DupCount(q) \in 0..DupMod - 1
<1>1. DupMod \in Nat /\ DupMod > 0 /\ q.dupacks \in Int
  BY Options, PcbFields
<1> DEFINE x == q.dupacks
           y == (x + 1) % DupMod
<1>2. y \in 0..DupMod - 1 /\ (x \in 0..DupMod - 1 /\ y > x => x + 1 \in 0..DupMod - 1)
  <2>1. y \in 0..DupMod - 1
    BY <1>1
  <2>2. ASSUME x = DupMod - 1 PROVE y = 0
    <3>1. x + 1 = DupMod
      BY <1>1, <2>2
    <3>2. DupMod % DupMod = 0
      BY <1>1
    <3> QED  BY <3>1, <3>2
  <2> HIDE DEF y
  <2> QED  BY <1>1, <2>1, <2>2
<1>3. DupCount(q) = IF y > x THEN x + 1 ELSE x
  BY DEF DupCount
<1> HIDE DEF y
<1> QED  BY <1>1, <1>2, <1>3

\* The pcb after a duplicate acknowledgement was counted.
LEMMA CountedPcb ==
  ASSUME NEW q \in Pcb, NEW d \in Int, NEW c \in Nat \ {0}
  PROVE  /\ Counted(q, d, c) \in Pcb /\ SameQueues(Counted(q, d, c), q)
         /\ Counted(q, d, c).dupacks = d /\ Counted(q, d, c).cwnd = c
         /\ Counted(q, d, c).ssthresh = q.ssthresh
         /\ Counted(q, d, c).snd_wnd = q.snd_wnd /\ Counted(q, d, c).snd_wl2 = q.snd_wl2
         /\ Counted(q, d, c).persist = q.persist
BY DEF Counted, Pcb, SameQueues

\* The pcb of a fast retransmission.
LEMMA FastPcb ==
  ASSUME NEW q \in Pcb, q.unacked # <<>>, NEW d \in Int
  PROVE  LET r == Fast(q, d, Half(q))
             h == Head(q.unacked)
         IN /\ r \in Pcb /\ h = q.unacked[1] /\ h \in Seg /\ Tail(q.unacked) \in Seq(Seg)
            /\ r.unacked = Tail(q.unacked) /\ r.unsent = Placed(q.unsent, h)
            /\ r.unsent_oversize
                 = IF Place(q.unsent, h.seqno) = Len(q.unsent) THEN 0 ELSE q.unsent_oversize
            /\ r.nrtx = q.nrtx + 1 /\ r.ssthresh = Half(q) /\ r.cwnd = Half(q) + 3 * TCP_MSS
            /\ r.infr = TRUE /\ r.rtime = TRUE /\ r.dupacks = d
            /\ r.state = q.state /\ r.lastack = q.lastack /\ r.snd_nxt = q.snd_nxt
            /\ r.snd_lbb = q.snd_lbb /\ r.snd_buf = q.snd_buf /\ r.snd_queuelen = q.snd_queuelen
            /\ r.snd_wnd = q.snd_wnd /\ r.snd_wl2 = q.snd_wl2 /\ r.persist = q.persist
            /\ r.memerr = q.memerr /\ r.fin = q.fin /\ r.out = q.out
<1> DEFINE r == Fast(q, d, Half(q))
           s == Head(q.unacked)
           h == Half(q)
           c == h + 3 * TCP_MSS
           u == Tail(q.unacked)
           v == Placed(q.unsent, s)
           o == IF Place(q.unsent, s.seqno) = Len(q.unsent) THEN 0 ELSE q.unsent_oversize
           n == q.nrtx + 1
<1>1. q.unacked \in Seq(Seg) /\ q.unsent \in Seq(Seg) /\ q.unsent_oversize \in Int /\ q.nrtx \in Int
  BY PcbFields
<1>2. s \in Seg /\ s = q.unacked[1] /\ u \in Seq(Seg) /\ n \in Int /\ o \in Int
  BY <1>1
<1>3. v \in Seq(Seg)
  BY <1>1, <1>2, PlacedSeg
<1>4. h \in Nat \ {0} /\ c \in Nat \ {0}
  <2>1. h \in Nat \ {0}
    BY HalfFacts DEF Half
  <2> HIDE DEF h
  <2> QED  BY <2>1, Options
<1>5. r = [q EXCEPT !.dupacks = d, !.unacked = u, !.unsent = v,
                    !.unsent_oversize = o, !.nrtx = n,
                    !.ssthresh = h, !.cwnd = c, !.infr = TRUE, !.rtime = TRUE]
  BY DEF Fast
<1> HIDE DEF h, c, u, v, o, n, r
<1>6. r \in Pcb
  BY <1>2, <1>3, <1>4, <1>5 DEF Pcb
<1>7. /\ r.unacked = u /\ r.unsent = v /\ r.unsent_oversize = o
      /\ r.nrtx = n /\ r.ssthresh = h /\ r.cwnd = c
      /\ r.infr = TRUE /\ r.rtime = TRUE /\ r.dupacks = d
      /\ r.state = q.state /\ r.lastack = q.lastack /\ r.snd_nxt = q.snd_nxt
      /\ r.snd_lbb = q.snd_lbb /\ r.snd_buf = q.snd_buf /\ r.snd_queuelen = q.snd_queuelen
      /\ r.snd_wnd = q.snd_wnd /\ r.snd_wl2 = q.snd_wl2 /\ r.persist = q.persist
      /\ r.memerr = q.memerr /\ r.fin = q.fin /\ r.out = q.out
  BY <1>5 DEF Pcb
<1> QED  BY <1>2, <1>6, <1>7 DEF r, u, v, o, n, h, c

\* The pcb after an acknowledgement of something new.
LEMMA NewAckPcb ==
  ASSUME NEW q \in Pcb, NEW ackno \in Int
  PROVE  LET r == NewAck(q, ackno)
         IN /\ r \in Pcb /\ r.unacked = Unacked(q.unacked, ackno)
            /\ r.rtime = (Unacked(q.unacked, ackno) # <<>>)
            /\ r.infr = FALSE /\ r.nrtx = 0 /\ r.dupacks = 0 /\ r.lastack = ackno
            /\ r.cwnd = OpenCwnd(IF q.infr THEN q.ssthresh ELSE q.cwnd, q.ssthresh)
            /\ r.ssthresh = q.ssthresh
            /\ r.state = q.state /\ r.unsent = q.unsent /\ r.unsent_oversize = q.unsent_oversize
            /\ r.snd_nxt = q.snd_nxt /\ r.snd_lbb = q.snd_lbb /\ r.snd_buf = q.snd_buf
            /\ r.snd_queuelen = q.snd_queuelen /\ r.snd_wnd = q.snd_wnd
            /\ r.snd_wl2 = q.snd_wl2 /\ r.persist = q.persist
            /\ r.memerr = q.memerr /\ r.fin = q.fin /\ r.out = q.out
<1> DEFINE r == NewAck(q, ackno)
           u == Unacked(q.unacked, ackno)
           b == (u # <<>>)
           x == IF q.infr THEN q.ssthresh ELSE q.cwnd
           c == OpenCwnd(x, q.ssthresh)
<1>1. u \in Seq(Seg)
  BY PcbFields, UnackedSeg
<1>2. x \in Nat \ {0} /\ q.ssthresh \in Nat \ {0}
  BY PcbFields
<1> HIDE DEF x
<1>3. c \in Nat \ {0}
  BY <1>2, CwndFacts
<1>4. r = [q EXCEPT !.infr = FALSE, !.nrtx = 0, !.dupacks = 0, !.lastack = ackno,
                    !.cwnd = c, !.unacked = u, !.rtime = b]
  BY DEF NewAck, x
<1>5. b \in BOOLEAN /\ 0 \in Int
  OBVIOUS
<1> HIDE DEF u, b, c, r
<1>6. r \in Pcb
  BY <1>1, <1>3, <1>4, <1>5 DEF Pcb
<1>7. /\ r.unacked = u /\ r.rtime = b
      /\ r.infr = FALSE /\ r.nrtx = 0 /\ r.dupacks = 0 /\ r.lastack = ackno
      /\ r.cwnd = c /\ r.ssthresh = q.ssthresh
      /\ r.state = q.state /\ r.unsent = q.unsent /\ r.unsent_oversize = q.unsent_oversize
      /\ r.snd_nxt = q.snd_nxt /\ r.snd_lbb = q.snd_lbb /\ r.snd_buf = q.snd_buf
      /\ r.snd_queuelen = q.snd_queuelen /\ r.snd_wnd = q.snd_wnd
      /\ r.snd_wl2 = q.snd_wl2 /\ r.persist = q.persist
      /\ r.memerr = q.memerr /\ r.fin = q.fin /\ r.out = q.out
  BY <1>4 DEF Pcb
<1> QED  BY <1>6, <1>7 DEF r, u, b, c, x

\* The end of tcp_receive: what was unsent and is acknowledged, and the sums.
Settled(r, unsent, len, n) ==
  [r EXCEPT !.unsent = unsent,
            !.unsent_oversize = IF unsent = <<>> THEN 0 ELSE @,
            !.snd_queuelen = @ - n, !.snd_buf = @ + len]

\* The pcb then.
LEMMA SettledPcb ==
  ASSUME NEW r \in Pcb, NEW unsent \in Seq(Seg), NEW len \in Int, NEW n \in Int
  PROVE  LET s == Settled(r, unsent, len, n)
         IN /\ s \in Pcb /\ s.unsent = unsent
            /\ s.unsent_oversize = IF unsent = <<>> THEN 0 ELSE r.unsent_oversize
            /\ s.snd_queuelen = r.snd_queuelen - n /\ s.snd_buf = r.snd_buf + len
            /\ s.state = r.state /\ s.unacked = r.unacked /\ s.lastack = r.lastack
            /\ s.snd_nxt = r.snd_nxt /\ s.snd_lbb = r.snd_lbb
            /\ s.snd_wnd = r.snd_wnd /\ s.snd_wl2 = r.snd_wl2 /\ s.persist = r.persist
            /\ s.cwnd = r.cwnd /\ s.ssthresh = r.ssthresh /\ s.dupacks = r.dupacks
            /\ s.nrtx = r.nrtx /\ s.rtime = r.rtime /\ s.infr = r.infr
            /\ s.memerr = r.memerr /\ s.fin = r.fin /\ s.out = r.out
<1> DEFINE s == Settled(r, unsent, len, n)
           o == IF unsent = <<>> THEN 0 ELSE r.unsent_oversize
           x == r.snd_queuelen - n
           y == r.snd_buf + len
<1>1. o \in Int /\ x \in Int /\ y \in Int
  BY PcbFields
<1>2. s = [r EXCEPT !.unsent = unsent, !.unsent_oversize = o, !.snd_queuelen = x, !.snd_buf = y]
  BY DEF Settled, Pcb
<1> HIDE DEF s, o, x, y
<1>3. s \in Pcb
  BY <1>1, <1>2 DEF Pcb
<1>4. /\ s.unsent = unsent /\ s.unsent_oversize = o /\ s.snd_queuelen = x /\ s.snd_buf = y
      /\ s.state = r.state /\ s.unacked = r.unacked /\ s.lastack = r.lastack
      /\ s.snd_nxt = r.snd_nxt /\ s.snd_lbb = r.snd_lbb
      /\ s.snd_wnd = r.snd_wnd /\ s.snd_wl2 = r.snd_wl2 /\ s.persist = r.persist
      /\ s.cwnd = r.cwnd /\ s.ssthresh = r.ssthresh /\ s.dupacks = r.dupacks
      /\ s.nrtx = r.nrtx /\ s.rtime = r.rtime /\ s.infr = r.infr
      /\ s.memerr = r.memerr /\ s.fin = r.fin /\ s.out = r.out
  BY <1>2 DEF Pcb
<1> QED  BY <1>3, <1>4 DEF s, o, x, y

\* tcp_receive, in these words.
LEMMA ReceiveCases ==
  ASSUME NEW p, NEW ackno, NEW wnd, NEW data, NEW order
  PROVE  LET q == UpdateWindow(p, ackno, wnd, order)
             r == IF ackno <= p.lastack THEN DuplicateAck(p, q, ackno, data) ELSE NewAck(q, ackno)
             unsent == IF ackno <= r.snd_nxt THEN Unacked(r.unsent, ackno) ELSE r.unsent
             before == q.unacked \o q.unsent
             after == r.unacked \o unsent
         IN tcp_receive_ack(p, ackno, wnd, data, order)
              = Settled(r, unsent, SumOf(before, LenOf) - SumOf(after, LenOf),
                        SumOf(before, PbufsOf) - SumOf(after, PbufsOf))
BY DEF tcp_receive_ack, Settled

\* tcp_receive: the window and the timers, whether or not the segment brings its
\* window.
LEMMA ReceiveWindow ==
  ASSUME NEW p \in Pcb, NEW lim \in Limits, WindowOK(p, lim),
         NEW ackno \in Int, NEW wnd \in Int, NEW data \in BOOLEAN, NEW order,
         ackno + wnd <= lim.edge, ackno <= lim.nxt, wnd >= 0, wnd <= PeerWnd, p.out = {}
  PROVE  LET s == tcp_receive_ack(p, ackno, wnd, data, order)
         IN s \in Pcb /\ WindowOK(s, lim) /\ s.state = p.state /\ s.out = p.out
<1> DEFINE q == UpdateWindow(p, ackno, wnd, order)
           r == IF ackno <= p.lastack THEN DuplicateAck(p, q, ackno, data) ELSE NewAck(q, ackno)
           unsent == IF ackno <= r.snd_nxt THEN Unacked(r.unsent, ackno) ELSE r.unsent
           before == q.unacked \o q.unsent
           after == r.unacked \o unsent
           x == SumOf(before, LenOf) - SumOf(after, LenOf)
           y == SumOf(before, PbufsOf) - SumOf(after, PbufsOf)
           s == tcp_receive_ack(p, ackno, wnd, data, order)
<1>1. s = Settled(r, unsent, x, y)
  BY ReceiveCases
<1>2. p.lastack \in Int /\ p.snd_wnd \in Int /\ p.snd_wl2 \in Int
  BY PcbFields
<1>3. /\ q \in Pcb /\ SameQueues(q, p)
      /\ \/ q.snd_wnd = wnd /\ q.snd_wl2 = ackno /\ (q.persist <=> wnd = 0)
         \/ q = p
  <2> HIDE DEF r, unsent, before, after, x, y, s
  <2>1. /\ q \in Pcb /\ SameQueues(q, p)
        /\ q.cwnd = p.cwnd /\ q.ssthresh = p.ssthresh /\ q.dupacks = p.dupacks
        /\ \/ q.snd_wnd = wnd /\ q.snd_wl2 = ackno /\ (q.persist <=> wnd = 0)
           \/ q = p
    BY ONLY p \in Pcb, ackno \in Int, wnd \in Int, UpdatePcb
  <2> HIDE DEF q
  <2> QED  BY <2>1
<1>4. /\ q.snd_wl2 + q.snd_wnd <= lim.edge /\ q.snd_wnd >= 0 /\ q.snd_wnd <= PeerWnd
      /\ q.snd_wnd = 0 => q.persist
  BY <1>2, <1>3 DEF WindowOK
<1> DEFINE last == MaxOf(p.lastack, ackno)
<1>10. last <= lim.nxt
  BY <1>2 DEF WindowOK, MaxOf
<1> HIDE DEF q
<1> DEFINE OK == /\ r \in Pcb /\ r.lastack = MaxOf(p.lastack, ackno)
                 /\ r.snd_wl2 = q.snd_wl2 /\ r.snd_wnd = q.snd_wnd /\ r.persist = q.persist
                 /\ r.unacked # <<>> => r.rtime
                 /\ r.out = p.out /\ r.state = p.state
<1>5. OK
  <2>1. CASE ackno <= p.lastack
    <3>1. p.lastack = MaxOf(p.lastack, ackno)
      BY <1>2, <2>1 DEF MaxOf
    <3>2. \/ r = Counted(q, 0, q.cwnd)
          \/ r = Counted(q, DupCount(q), Inflate(q.cwnd))
          \/ r = Counted(q, DupCount(q), q.cwnd)
          \/ q.unacked # <<>> /\ r = Fast(q, DupCount(q), Half(q))
      BY <1>3, <2>1, DuplicateCases
    <3> HIDE DEF r
    <3>3. DupCount(q) \in Int /\ q.cwnd \in Nat \ {0} /\ Inflate(q.cwnd) \in Nat \ {0} /\ 0 \in Int
      <4>1. q.cwnd \in Nat \ {0} /\ q.ssthresh \in Nat \ {0}
        BY <1>3, PcbFields
      <4> QED  BY <1>3, <4>1, DupCountFacts, CwndFacts
    <3>4. q.unacked # <<>> => q.rtime
      BY <1>3 DEF SameQueues, WindowOK
    <3>5. ASSUME NEW d \in Int, NEW c \in Nat \ {0}, r = Counted(q, d, c)
          PROVE  OK
      <4>1. /\ r \in Pcb /\ SameQueues(r, q)
            /\ r.snd_wnd = q.snd_wnd /\ r.snd_wl2 = q.snd_wl2 /\ r.persist = q.persist
        <5> HIDE DEF OK
        <5>1. q \in Pcb /\ r = Counted(q, d, c)
          BY <1>3, <3>5
        <5>2. r \in Pcb /\ SameQueues(r, q) /\ r.snd_wnd = q.snd_wnd /\ r.snd_wl2 = q.snd_wl2
          BY ONLY <5>1, d \in Int, c \in Nat \ {0}, CountedPcb
        <5>3. r.persist = q.persist
          BY ONLY <5>1 DEF Counted, Pcb
        <5> QED  BY <5>2, <5>3
      <4> QED  BY <1>3, <3>1, <3>4, <4>1 DEF SameQueues
    <3>6. ASSUME q.unacked # <<>>, r = Fast(q, DupCount(q), Half(q))
          PROVE  OK
      <4>1. /\ r \in Pcb /\ r.rtime = TRUE /\ r.lastack = q.lastack /\ r.out = q.out
            /\ r.snd_wnd = q.snd_wnd /\ r.snd_wl2 = q.snd_wl2 /\ r.persist = q.persist
            /\ r.state = q.state
        <5>1. q \in Pcb /\ DupCount(q) \in Int
          BY <1>3, <3>3
        <5> HIDE DEF OK
        <5> QED  BY <3>6, <5>1, FastPcb
      <4> QED  BY <1>3, <3>1, <4>1 DEF SameQueues
    <3> HIDE DEF OK
    <3>7. CASE r = Counted(q, 0, q.cwnd)
      BY <3>3, <3>5, <3>7
    <3>8. CASE r = Counted(q, DupCount(q), Inflate(q.cwnd))
      BY <3>3, <3>5, <3>8
    <3>9. CASE r = Counted(q, DupCount(q), q.cwnd)
      BY <3>3, <3>5, <3>9
    <3> QED  BY <3>2, <3>6, <3>7, <3>8, <3>9
  <2>2. CASE ~(ackno <= p.lastack)
    <3>1. ackno = MaxOf(p.lastack, ackno)
      BY <1>2, <2>2 DEF MaxOf
    <3>2. r = NewAck(q, ackno)
      BY <2>2
    <3> HIDE DEF r
    <3>3. /\ r \in Pcb /\ r.lastack = ackno /\ r.out = q.out /\ r.state = q.state
          /\ r.unacked = Unacked(q.unacked, ackno)
          /\ r.rtime = (Unacked(q.unacked, ackno) # <<>>)
          /\ r.snd_wnd = q.snd_wnd /\ r.snd_wl2 = q.snd_wl2 /\ r.persist = q.persist
      BY <1>3, <3>2, NewAckPcb
    <3> QED  BY <1>3, <3>1, <3>3 DEF SameQueues
  <2> QED  BY <2>1, <2>2
<1> HIDE DEF r
<1>6. unsent \in Seq(Seg)
  <2>1. r.unsent \in Seq(Seg)
    BY <1>5, PcbFields
  <2> QED  BY <2>1, UnackedSeg
<1> HIDE DEF unsent
<1>7. x \in Int /\ y \in Int
  <2>1. before \in Seq(Seg)
    <3>1. q.unacked \in Seq(Seg) /\ q.unsent \in Seq(Seg)
      BY <1>3, PcbFields
    <3> QED  BY <3>1
  <2>2. after \in Seq(Seg)
    <3>1. r.unacked \in Seq(Seg)
      BY <1>5, PcbFields
    <3> QED  BY <1>6, <3>1
  <2> HIDE DEF before, after
  <2>3. /\ SumOf(before, LenOf) = SumSeq(Lengths(before))
        /\ SumOf(before, PbufsOf) = SumSeq(Pbufs(before))
        /\ SumSeq(Lengths(before)) \in Int /\ SumSeq(Pbufs(before)) \in Int
    BY <2>1, SumsOf
  <2>4. /\ SumOf(after, LenOf) = SumSeq(Lengths(after))
        /\ SumOf(after, PbufsOf) = SumSeq(Pbufs(after))
        /\ SumSeq(Lengths(after)) \in Int /\ SumSeq(Pbufs(after)) \in Int
    BY <2>2, SumsOf
  <2> QED  BY <2>3, <2>4
<1> HIDE DEF x, y, s
<1>8. /\ s \in Pcb /\ s.state = r.state /\ s.unacked = r.unacked /\ s.lastack = r.lastack
      /\ s.snd_wnd = r.snd_wnd /\ s.snd_wl2 = r.snd_wl2 /\ s.persist = r.persist
      /\ s.rtime = r.rtime /\ s.out = r.out
  BY <1>1, <1>5, <1>6, <1>7, SettledPcb
<1>9. WindowOK(s, lim)
  <2>1. /\ s.snd_wl2 + s.snd_wnd <= lim.edge /\ s.snd_wnd >= 0 /\ s.snd_wnd <= PeerWnd
        /\ s.lastack <= lim.nxt
    BY <1>4, <1>5, <1>8, <1>10
  <2>2. (s.unacked # <<>> => s.rtime) /\ (s.snd_wnd = 0 => s.persist)
    BY <1>4, <1>5, <1>8
  <2>3. s.out = {}
    BY <1>5, <1>8
  <2> QED  BY <2>1, <2>2, <2>3 DEF WindowOK
<1> QED  BY <1>5, <1>8, <1>9 DEF s

-----------------------------------------------------------------------------
(* The loop of uvl_imp_write_to_tcp *)

Req == [first : Int, len : Int, sent : Int, sent_bufs : Int, pending : Int, total_sent : Int]
Client == [queue : Seq(Req), closed : BOOLEAN, closing : BOOLEAN, write_req : BOOLEAN]
Work == [c : Client, p : Pcb, stream : Seq(Int), more : BOOLEAN]

\* How many bytes of the i-th request are given to tcp_write.
ToWrite(w, i) == MinOf(w.c.queue[i].len - w.c.queue[i].sent, w.p.snd_buf)

\* The request after n more bytes of it were given to tcp_write.
ReqGiven(req, n) ==
  [req EXCEPT !.sent = @ + n, !.pending = @ + n, !.total_sent = @ + n]
\* The request after its buffer was given to tcp_write.
ReqFinal(req) == [req EXCEPT !.sent = 0, !.sent_bufs = @ + 1]

WithReq(c, i, req) == [c EXCEPT !.queue[i] = req]

\* The outcomes of uvl_imp_write_buf_to_tcp: w after it.
GiveFailed(w, p) == [w EXCEPT !.p = p, !.more = FALSE]
GiveWritten(w, i, req, p, bytes, more) ==
  [c |-> WithReq(w.c, i, req), p |-> p, stream |-> w.stream \o bytes, more |-> more]

\* The fields of the state of the loop.
LEMMA WorkFields ==
  ASSUME NEW w \in Work, NEW i \in 1..Len(w.c.queue)
  PROVE  /\ w.c \in Client /\ w.p \in Pcb /\ w.stream \in Seq(Int) /\ w.more \in BOOLEAN
         /\ w.c.queue \in Seq(Req) /\ Len(w.c.queue) \in Nat
         /\ w.c.queue[i] \in Req /\ w.c.queue[i].len \in Int /\ w.c.queue[i].sent \in Int
         /\ ToWrite(w, i) \in Int
<1>1. w.c \in Client /\ w.p \in Pcb /\ w.stream \in Seq(Int) /\ w.more \in BOOLEAN
  BY DEF Work
<1>2. w.c.queue \in Seq(Req)
  BY <1>1 DEF Client
<1>3. w.c.queue[i] \in Req /\ Len(w.c.queue) \in Nat
  BY <1>2
<1>4. w.c.queue[i].len \in Int /\ w.c.queue[i].sent \in Int
  BY <1>3 DEF Req
<1>5. w.p.snd_buf \in Int
  BY <1>1, PcbFields
<1>6. ToWrite(w, i) \in Int
  <2>1. w.c.queue[i].len - w.c.queue[i].sent \in Int
    BY <1>4
  <2> QED  BY <1>5, <2>1, MinMax DEF ToWrite
<1> QED  BY <1>1, <1>2, <1>3, <1>4, <1>6

\* A request is replaced.
LEMMA WithReqFields ==
  ASSUME NEW c \in Client, NEW i \in 1..Len(c.queue), NEW req \in Req
  PROVE  /\ WithReq(c, i, req) \in Client
         /\ WithReq(c, i, req).queue \in Seq(Req) /\ Len(WithReq(c, i, req).queue) = Len(c.queue)
         /\ \A j \in 1..Len(c.queue) :
              WithReq(c, i, req).queue[j] = IF j = i THEN req ELSE c.queue[j]
         /\ WithReq(c, i, req).closed = c.closed /\ WithReq(c, i, req).closing = c.closing
         /\ WithReq(c, i, req).write_req = c.write_req
<1> DEFINE q == c.queue
           r == [q EXCEPT ![i] = req]
           d == WithReq(c, i, req)
<1>1. q \in Seq(Req) /\ i \in 1..Len(q)
  BY DEF Client
<1>2. d = [c EXCEPT !.queue = r]
  BY DEF WithReq, Client
<1> HIDE DEF q
<1>3. r \in Seq(Req) /\ Len(r) = Len(q) /\ \A j \in 1..Len(q) : r[j] = IF j = i THEN req ELSE q[j]
  BY <1>1, SeqExcept
<1> HIDE DEF r, d
<1>4. d \in Client /\ d.queue = r
  BY <1>2, <1>3 DEF Client
<1>5. d.closed = c.closed /\ d.closing = c.closing /\ d.write_req = c.write_req
  BY <1>2 DEF Client
<1> QED  BY <1>3, <1>4, <1>5 DEF d, q

\* A request after bytes of it were given to lwIP, and after all of them were.
LEMMA ReqFields ==
  ASSUME NEW req \in Req, NEW n \in Int
  PROVE  /\ ReqGiven(req, n) \in Req /\ ReqFinal(req) \in Req
         /\ ReqGiven(req, n).first = req.first /\ ReqGiven(req, n).len = req.len
         /\ ReqGiven(req, n).sent = req.sent + n /\ ReqGiven(req, n).pending = req.pending + n
         /\ ReqGiven(req, n).total_sent = req.total_sent + n
         /\ ReqGiven(req, n).sent_bufs = req.sent_bufs
         /\ ReqFinal(req).first = req.first /\ ReqFinal(req).len = req.len
         /\ ReqFinal(req).sent = 0 /\ ReqFinal(req).pending = req.pending
         /\ ReqFinal(req).total_sent = req.total_sent
         /\ ReqFinal(req).sent_bufs = req.sent_bufs + 1
<1> DEFINE a == req.sent + n
           b == req.pending + n
           c == req.total_sent + n
           d == req.sent_bufs + 1
<1>1. a \in Int /\ b \in Int /\ c \in Int /\ d \in Int
  BY DEF Req
<1>2. ReqGiven(req, n) = [req EXCEPT !.sent = a, !.pending = b, !.total_sent = c]
  BY DEF Req, ReqGiven
<1>3. ReqFinal(req) = [req EXCEPT !.sent = 0, !.sent_bufs = d]
  BY DEF Req, ReqFinal
<1> HIDE DEF a, b, c, d
<1>4. /\ ReqGiven(req, n) \in Req
      /\ ReqGiven(req, n).first = req.first /\ ReqGiven(req, n).len = req.len
      /\ ReqGiven(req, n).sent = a /\ ReqGiven(req, n).pending = b
      /\ ReqGiven(req, n).total_sent = c
      /\ ReqGiven(req, n).sent_bufs = req.sent_bufs
  BY <1>1, <1>2 DEF Req
<1>5. /\ ReqFinal(req) \in Req
      /\ ReqFinal(req).first = req.first /\ ReqFinal(req).len = req.len
      /\ ReqFinal(req).sent = 0 /\ ReqFinal(req).pending = req.pending
      /\ ReqFinal(req).total_sent = req.total_sent
      /\ ReqFinal(req).sent_bufs = d
  <2>1. 0 \in Int
    OBVIOUS
  <2>2. ReqFinal(req) \in Req
    BY <1>1, <1>3, <2>1 DEF Req
  <2> QED  BY <1>3, <2>2 DEF Req
<1> QED  BY <1>4, <1>5 DEF a, b, c, d

\* The bytes of a request.
LEMMA CopiedFields ==
  ASSUME NEW req \in Req, NEW n \in Int
  PROVE  /\ Copied(req, n) \in Seq(Int)
         /\ n >= 0 => /\ Len(Copied(req, n)) = n
                      /\ \A j \in 1..n : Copied(req, n)[j] = req.first + req.sent + j - 1
<1>1. PICK m \in Nat : 1..n = 1..m /\ (n >= 0 => m = n)
  <2>1. CASE n >= 0
    BY <2>1
  <2>2. CASE n < 0
    <3>1. 1..n = 1..0
      BY <2>2
    <3> QED  BY <2>2, <3>1
  <2> QED  BY <2>1, <2>2
<1>2. \A j \in 1..m : req.first + req.sent + j - 1 \in Int
  BY DEF Req
<1>3. Copied(req, n) = [j \in 1..m |-> req.first + req.sent + j - 1]
  BY <1>1 DEF Copied
<1> DEFINE f == [j \in 1..m |-> req.first + req.sent + j - 1]
<1>4. f \in Seq(Int) /\ Len(f) = m /\ \A j \in 1..m : f[j] = req.first + req.sent + j - 1
  BY <1>2
<1> HIDE DEF f
<1>5. Copied(req, n) = f
  BY <1>3 DEF f
<1> QED  BY <1>1, <1>4, <1>5

\* The assignments to a request, as one.
LEMMA RequestDone ==
  ASSUME NEW x \in Work, NEW i \in 1..Len(x.c.queue)
  PROVE  [x EXCEPT !.c.queue[i].sent = 0, !.c.queue[i].sent_bufs = @ + 1]
           = [x EXCEPT !.c = WithReq(x.c, i, ReqFinal(x.c.queue[i]))]
<1> DEFINE c == x.c
           q == c.queue
           r == q[i]
           r1 == [r EXCEPT !.sent = 0]
           q1 == [q EXCEPT ![i] = r1]
           c1 == [c EXCEPT !.queue = q1]
           x1 == [x EXCEPT !.c = c1]
           r2 == [r1 EXCEPT !.sent_bufs = r1.sent_bufs + 1]
           q2 == [q1 EXCEPT ![i] = r2]
           c2 == [c1 EXCEPT !.queue = q2]
           x2 == [x1 EXCEPT !.c = c2]
<1>1. c \in Client /\ q \in Seq(Req) /\ r \in Req /\ i \in DOMAIN q
  BY WorkFields
<1>2. [x EXCEPT !.c.queue[i].sent = 0, !.c.queue[i].sent_bufs = @ + 1]
        = [x1 EXCEPT !.c.queue[i].sent_bufs = x1.c.queue[i].sent_bufs + 1]
  OBVIOUS
<1>3. x1.c = c1 /\ DOMAIN x1 = DOMAIN x
  BY DEF Work
<1>4. c1.queue = q1
  BY <1>1 DEF Client
<1>5. q1[i] = r1
  BY <1>1
<1>6. [x EXCEPT !.c.queue[i].sent = 0, !.c.queue[i].sent_bufs = @ + 1] = x2
  BY <1>2, <1>3, <1>4, <1>5
<1>7. r2 = ReqFinal(r)
  BY <1>1 DEF Req, ReqFinal
<1> HIDE DEF r, r1, r2
<1>8. q2 = [q EXCEPT ![i] = r2]
  BY <1>1
<1> HIDE DEF q, q1, q2
<1>9. c2 = [c EXCEPT !.queue = q2]
  BY <1>1 DEF Client
<1> HIDE DEF c, c1, c2
<1>10. x2 = [x EXCEPT !.c = c2]
  BY DEF Work
<1>11. c2 = WithReq(c, i, r2)
  BY <1>8, <1>9 DEF WithReq, q
<1> HIDE DEF x1, x2
<1> QED  BY <1>6, <1>7, <1>10, <1>11 DEF c, q, r

\* uvl_imp_write_buf_to_tcp, case by case: nothing was left to give; tcp_write
\* failed; it took n bytes.
LEMMA GiveCases ==
  ASSUME NEW w \in Work, NEW i \in 1..Len(w.c.queue)
  PROVE  LET req == w.c.queue[i]
             n == ToWrite(w, i)
             res == tcp_write(w.p, n)
             r == uvl_imp_write_buf_to_tcp(w, i)
         IN /\ n > 0 /\ ~res.ok => r = GiveFailed(w, res.pcb)
            /\ n = 0 => r = IF w.p.snd_buf = 0 THEN [w EXCEPT !.more = FALSE]
                            ELSE [w EXCEPT !.c = WithReq(w.c, i, ReqFinal(req))]
            /\ n # 0 /\ (n > 0 => res.ok) =>
                 r = IF res.pcb.snd_buf = 0
                     THEN GiveWritten(w, i, ReqGiven(req, n), res.pcb, Copied(req, n), FALSE)
                     ELSE GiveWritten(w, i, ReqFinal(ReqGiven(req, n)), res.pcb,
                                      Copied(req, n), w.more)
<1> DEFINE req == w.c.queue[i]
           n == ToWrite(w, i)
           res == tcp_write(w.p, n)
           r == uvl_imp_write_buf_to_tcp(w, i)
           done == ReqGiven(req, n)
           v == IF n = 0 THEN w
                ELSE [w EXCEPT !.p = res.pcb, !.c.queue[i] = done,
                               !.stream = @ \o Copied(req, n)]
<1>1. r = IF n > 0 /\ ~res.ok THEN [w EXCEPT !.p = res.pcb, !.more = FALSE]
          ELSE IF v.p.snd_buf = 0 THEN [v EXCEPT !.more = FALSE]
          ELSE [v EXCEPT !.c.queue[i].sent = 0, !.c.queue[i].sent_bufs = @ + 1]
  BY DEF uvl_imp_write_buf_to_tcp, ToWrite, ReqGiven
<1>2. /\ w.c \in Client /\ w.p \in Pcb /\ w.stream \in Seq(Int) /\ w.more \in BOOLEAN
      /\ req \in Req /\ n \in Int
  BY WorkFields
<1>3. done \in Req
  BY <1>2, ReqFields
<1>4. CASE n > 0 /\ ~res.ok
  <2>1. r = GiveFailed(w, res.pcb)
    BY <1>1, <1>4 DEF GiveFailed
  <2>2. n # 0
    BY <1>2, <1>4
  <2> HIDE DEF r, n, v, done, res
  <2>3. /\ n > 0 /\ ~res.ok => r = GiveFailed(w, res.pcb)
        /\ ~(n = 0) /\ ~(n # 0 /\ (n > 0 => res.ok))
    BY <1>4, <2>1, <2>2
  <2> QED  BY <2>3 DEF r, n, res
<1>5. CASE n = 0
  <2>1. v = w /\ ~(n > 0)
    BY <1>5
  <2>2. r = IF w.p.snd_buf = 0 THEN [w EXCEPT !.more = FALSE]
            ELSE [w EXCEPT !.c.queue[i].sent = 0, !.c.queue[i].sent_bufs = @ + 1]
    BY <1>1, <2>1
  <2> HIDE DEF v, r, res, n
  <2>3. r = IF w.p.snd_buf = 0 THEN [w EXCEPT !.more = FALSE]
            ELSE [w EXCEPT !.c = WithReq(w.c, i, ReqFinal(req))]
    BY <2>2, RequestDone
  <2> QED  BY <1>5, <2>1, <2>3 DEF r, n
<1>6. CASE n # 0 /\ (n > 0 => res.ok)
  <2> DEFINE c1 == WithReq(w.c, i, done)
             st == w.stream \o Copied(req, n)
  <2>1. /\ c1 \in Client /\ c1.queue[i] = done /\ i \in 1..Len(c1.queue)
    BY <1>2, <1>3, WithReqFields
  <2>2. res.pcb \in Pcb
    BY <1>2, WritePcb
  <2>3. st \in Seq(Int)
    BY <1>2, CopiedFields
  <2>4. v = [w EXCEPT !.p = res.pcb, !.c = c1, !.stream = st]
    BY <1>6 DEF WithReq, Work
  <2>5. r = IF v.p.snd_buf = 0 THEN [v EXCEPT !.more = FALSE]
            ELSE [v EXCEPT !.c.queue[i].sent = 0, !.c.queue[i].sent_bufs = @ + 1]
    BY <1>1, <1>6
  <2> DEFINE p1 == res.pcb
  <2> HIDE DEF v, r, c1, st, done, p1
  <2>6. v = [w EXCEPT !.p = p1, !.c = c1, !.stream = st]
    BY <2>4 DEF p1
  <2>7. p1 \in Pcb
    BY <2>2 DEF p1
  <2>8. v = [c |-> c1, p |-> p1, stream |-> st, more |-> w.more]
    BY <2>6 DEF Work
  <2>9. v \in Work /\ v.c = c1 /\ v.p = p1
    BY <1>2, <2>1, <2>3, <2>7, <2>8 DEF Work
  <2>10. CASE p1.snd_buf = 0
    <3>1. r = [c |-> c1, p |-> p1, stream |-> st, more |-> FALSE]
      BY <2>5, <2>8, <2>9, <2>10
    <3>2. r = GiveWritten(w, i, done, p1, Copied(req, n), FALSE)
      BY <3>1 DEF GiveWritten, c1, st
    <3> QED  BY <1>6, <2>10, <3>2 DEF r, done, p1
  <2>11. CASE p1.snd_buf # 0
    <3>1. r = [v EXCEPT !.c = WithReq(c1, i, ReqFinal(done))]
      <4>1. r = [v EXCEPT !.c.queue[i].sent = 0, !.c.queue[i].sent_bufs = @ + 1]
        BY <2>5, <2>9, <2>11
      <4>2. v.c.queue[i] = done /\ i \in 1..Len(v.c.queue)
        BY <2>1, <2>9
      <4>3. [v EXCEPT !.c.queue[i].sent = 0, !.c.queue[i].sent_bufs = @ + 1]
              = [v EXCEPT !.c = WithReq(v.c, i, ReqFinal(v.c.queue[i]))]
        BY <2>9, <4>2, RequestDone
      <4> QED  BY <2>9, <4>1, <4>2, <4>3
    <3>2. WithReq(c1, i, ReqFinal(done)) = WithReq(w.c, i, ReqFinal(done))
      <4>1. DOMAIN w.c = {"queue", "closed", "closing", "write_req"} /\ w.c.queue \in Seq(Req)
        BY <1>2 DEF Client
      <4> QED  BY <1>2, <4>1 DEF c1, WithReq, Client
    <3>3. r = [c |-> WithReq(w.c, i, ReqFinal(done)), p |-> p1, stream |-> st, more |-> w.more]
      BY <2>8, <3>1, <3>2
    <3>4. r = GiveWritten(w, i, ReqFinal(done), p1, Copied(req, n), w.more)
      BY <3>3 DEF GiveWritten, st
    <3> QED  BY <1>6, <2>11, <3>4 DEF r, done, p1
  <2> QED  BY <2>10, <2>11
<1> QED  BY <1>2, <1>4, <1>5, <1>6


\* The loop of uvl_imp_write_to_tcp, step by step.
LEMMA GiveSteps ==
  ASSUME NEW c, NEW p, Len(c.queue) \in Nat
  PROVE  \E g : /\ g[0] = [c |-> c, p |-> p, stream |-> stream, more |-> TRUE]
                /\ \A i \in 1..Len(c.queue) : g[i] = GiveOne(g[i - 1], i)
                /\ GiveToTcp(c, p) = g[Len(c.queue)]
<1> DEFINE N == Len(c.queue)
           base == [c |-> c, p |-> p, stream |-> stream, more |-> TRUE]
           E(g) == g = [n \in 0..N |-> IF n = 0 THEN base ELSE GiveOne(g[n - 1], n)]
           a == CHOOSE g : E(g)
<1>1. N \in Nat
  OBVIOUS
<1>2. GiveToTcp(c, p) = a[N]
  BY DEF GiveToTcp
<1> HIDE DEF base
<1>3. E(a)
  <2> DEFINE S == {m \in Nat : \E g : g = [n \in 0..m |-> IF n = 0 THEN base ELSE GiveOne(g[n - 1], n)]}
  <2>1. 0 \in S
    <3> DEFINE g == [n \in 0..0 |-> base]
    <3>1. g = [n \in 0..0 |-> IF n = 0 THEN base ELSE GiveOne(g[n - 1], n)]
      OBVIOUS
    <3> QED  BY <3>1
  <2>2. ASSUME NEW m \in Nat, m \in S PROVE m + 1 \in S
    <3>1. PICK g : g = [n \in 0..m |-> IF n = 0 THEN base ELSE GiveOne(g[n - 1], n)]
      BY <2>2
    <3> DEFINE h == [n \in 0..m + 1 |-> IF n = m + 1 THEN GiveOne(g[m], m + 1) ELSE g[n]]
    <3>2. \A n \in 0..m : g[n] = IF n = 0 THEN base ELSE GiveOne(g[n - 1], n)
      BY <3>1
    <3>3. \A n \in 0..m + 1 : h[n] = IF n = m + 1 THEN GiveOne(g[m], m + 1) ELSE g[n]
      OBVIOUS
    <3>4. ASSUME NEW n \in 0..m + 1
          PROVE  h[n] = IF n = 0 THEN base ELSE GiveOne(h[n - 1], n)
      <4> HIDE DEF h
      <4>1. CASE n = 0
        BY <3>2, <3>3, <4>1
      <4>2. CASE n = m + 1
        <5>1. h[n] = GiveOne(g[m], n) /\ n - 1 = m /\ n # 0
          BY <3>3, <4>2
        <5>2. h[m] = g[m]
          BY <3>3
        <5> QED  BY <5>1, <5>2
      <4>3. CASE n # 0 /\ n # m + 1
        <5>1. n \in 0..m /\ n - 1 \in 0..m + 1 /\ n - 1 # m + 1
          BY <4>3
        <5>2. h[n] = g[n] /\ h[n - 1] = g[n - 1]
          BY <3>3, <4>3, <5>1
        <5>3. g[n] = GiveOne(g[n - 1], n)
          BY <3>2, <4>3, <5>1
        <5> QED  BY <4>3, <5>2, <5>3
      <4> QED  BY <4>1, <4>2, <4>3
    <3>5. h = [n \in 0..m + 1 |-> IF n = 0 THEN base ELSE GiveOne(h[n - 1], n)]
      BY <3>4
    <3>6. \E k : k = [n \in 0..m + 1 |-> IF n = 0 THEN base ELSE GiveOne(k[n - 1], n)]
      BY <3>5
    <3> QED  BY <3>6
  <2> HIDE DEF S
  <2>3. Nat \subseteq S
    BY <2>1, <2>2, SetInduction
  <2>4. N \in S
    BY <1>1, <2>3
  <2>5. \E g : E(g)
    BY <2>4 DEF S
  <2> HIDE DEF E
  <2> QED  BY <2>5
<1> HIDE DEF a
<1>4. \A n \in 0..N : a[n] = IF n = 0 THEN base ELSE GiveOne(a[n - 1], n)
  <2> HIDE DEF N
  <2> QED  BY <1>3
<1>5. a[0] = base
  BY <1>1, <1>4
<1>6. \A i \in 1..N : a[i] = GiveOne(a[i - 1], i)
  BY <1>1, <1>4
<1> QED  BY <1>2, <1>5, <1>6 DEF base

\* What a step of the loop leaves alone.
SameClient(d, c) ==
  /\ Len(d.queue) = Len(c.queue)
  /\ d.closed = c.closed /\ d.closing = c.closing /\ d.write_req = c.write_req

\* A step of the loop: the window and the timers.
LEMMA GiveWindow ==
  ASSUME NEW w \in Work, NEW i \in 1..Len(w.c.queue), NEW lim \in Limits, WindowOK(w.p, lim)
  PROVE  /\ GiveOne(w, i) \in Work /\ WindowOK(GiveOne(w, i).p, lim)
         /\ SameClient(GiveOne(w, i).c, w.c)
         /\ GiveOne(w, i).p.state = w.p.state
<1> DEFINE req == w.c.queue[i]
           n == ToWrite(w, i)
           res == tcp_write(w.p, n)
           r == uvl_imp_write_buf_to_tcp(w, i)
           q == res.pcb
<1>1. CASE GiveOne(w, i) = w
  BY <1>1 DEF SameClient
<1>2. CASE GiveOne(w, i) = r
  <2>1. /\ w.c \in Client /\ w.p \in Pcb /\ w.stream \in Seq(Int) /\ w.more \in BOOLEAN
        /\ req \in Req /\ n \in Int
    BY WorkFields
  <2>2. q \in Pcb /\ WindowOK(q, lim) /\ q.state = w.p.state /\ res.ok \in BOOLEAN
    BY <2>1, WritePcb, WriteWindow
  <2>3. ReqGiven(req, n) \in Req /\ ReqFinal(req) \in Req /\ ReqFinal(ReqGiven(req, n)) \in Req
    BY <2>1, ReqFields
  <2>4. Copied(req, n) \in Seq(Int)
    BY <2>1, CopiedFields
  <2>5. w.stream \o Copied(req, n) \in Seq(Int)
    BY <2>1, <2>4
  <2>6. ASSUME NEW x \in Req
        PROVE  WithReq(w.c, i, x) \in Client /\ SameClient(WithReq(w.c, i, x), w.c)
    BY <2>1, WithReqFields DEF SameClient
  <2>7. /\ n > 0 /\ ~res.ok => r = GiveFailed(w, q)
        /\ n = 0 => r = IF w.p.snd_buf = 0 THEN [w EXCEPT !.more = FALSE]
                        ELSE [w EXCEPT !.c = WithReq(w.c, i, ReqFinal(req))]
        /\ n # 0 /\ (n > 0 => res.ok) =>
             r = IF q.snd_buf = 0
                 THEN GiveWritten(w, i, ReqGiven(req, n), q, Copied(req, n), FALSE)
                 ELSE GiveWritten(w, i, ReqFinal(ReqGiven(req, n)), q, Copied(req, n), w.more)
    BY GiveCases
  <2>8. SameClient(w.c, w.c)
    BY DEF SameClient
  <2> HIDE DEF r, n, res, q, req
  <2>9. CASE n > 0 /\ ~res.ok
    <3>1. r = GiveFailed(w, q)
      BY <2>7, <2>9
    <3>2. r \in Work /\ r.c = w.c /\ r.p = q
      BY <2>2, <3>1 DEF GiveFailed, Work
    <3> QED  BY <1>2, <2>2, <2>8, <3>2
  <2>10. CASE n = 0 /\ w.p.snd_buf = 0
    <3>1. r = [w EXCEPT !.more = FALSE]
      BY <2>7, <2>10
    <3>2. r \in Work /\ r.c = w.c /\ r.p = w.p
      BY <3>1 DEF Work
    <3> QED  BY <1>2, <2>8, <3>2
  <2>11. CASE n = 0 /\ w.p.snd_buf # 0
    <3> DEFINE d == WithReq(w.c, i, ReqFinal(req))
    <3>1. r = [w EXCEPT !.c = d]
      BY <2>7, <2>11
    <3>2. d \in Client /\ SameClient(d, w.c)
      BY <2>3, <2>6
    <3> HIDE DEF d
    <3>3. r \in Work /\ r.c = d /\ r.p = w.p
      BY <3>1, <3>2 DEF Work
    <3> QED  BY <1>2, <3>2, <3>3
  <2>12. CASE n # 0 /\ (n > 0 => res.ok)
    <3>1. PICK x \in Req, m \in BOOLEAN : r = GiveWritten(w, i, x, q, Copied(req, n), m)
      BY <2>1, <2>3, <2>7, <2>12
    <3>2. WithReq(w.c, i, x) \in Client /\ SameClient(WithReq(w.c, i, x), w.c)
      BY <2>6
    <3>3. r \in Work /\ r.c = WithReq(w.c, i, x) /\ r.p = q
      BY <2>2, <2>5, <3>1, <3>2 DEF GiveWritten, Work
    <3> QED  BY <1>2, <2>2, <3>2, <3>3
  <2> QED  BY <2>1, <2>9, <2>10, <2>11, <2>12
<1> QED  BY <1>1, <1>2 DEF GiveOne

\* The loop: the window and the timers.
LEMMA GiveToTcpWindow ==
  ASSUME NEW c \in Client, NEW p \in Pcb, stream \in Seq(Int), NEW lim \in Limits, WindowOK(p, lim)
  PROVE  /\ GiveToTcp(c, p) \in Work /\ WindowOK(GiveToTcp(c, p).p, lim)
         /\ SameClient(GiveToTcp(c, p).c, c)
         /\ GiveToTcp(c, p).p.state = p.state
<1> DEFINE N == Len(c.queue)
           OK(w) == /\ w \in Work /\ WindowOK(w.p, lim) /\ SameClient(w.c, c)
                    /\ w.p.state = p.state
<1>1. N \in Nat
  BY DEF Client
<1>2. PICK g : /\ g[0] = [c |-> c, p |-> p, stream |-> stream, more |-> TRUE]
               /\ \A i \in 1..N : g[i] = GiveOne(g[i - 1], i)
               /\ GiveToTcp(c, p) = g[N]
  BY <1>1, GiveSteps
<1> HIDE DEF N
<1> DEFINE S == {m \in Nat : m <= N => OK(g[m])}
<1>3. 0 \in S
  <2>1. g[0] \in Work /\ g[0].c = c /\ g[0].p = p
    BY <1>2 DEF Work
  <2>2. OK(g[0])
    BY <2>1 DEF SameClient
  <2> QED  BY <2>2
<1>4. ASSUME NEW m \in Nat, m \in S PROVE m + 1 \in S
  <2>1. CASE m + 1 <= N
    <3> DEFINE w == g[m]
               v == g[m + 1]
    <3>1. m + 1 \in 1..N /\ (m + 1) - 1 = m /\ OK(w)
      BY <1>1, <1>4, <2>1
    <3>2. v = GiveOne(w, m + 1)
      BY <1>2, <3>1
    <3>3. m + 1 \in 1..Len(w.c.queue)
      BY <3>1 DEF SameClient, N
    <3> HIDE DEF w, v
    <3>4. v \in Work /\ WindowOK(v.p, lim) /\ SameClient(v.c, w.c) /\ v.p.state = w.p.state
      BY <3>1, <3>2, <3>3, GiveWindow
    <3>5. OK(v)
      BY <3>1, <3>4 DEF SameClient
    <3> QED  BY <3>5 DEF v
  <2> QED  BY <2>1
<1> HIDE DEF S
<1>5. N \in S
  BY <1>1, <1>3, <1>4, SetInduction
<1>6. OK(g[N])
  BY <1>1, <1>5 DEF S
<1> QED  BY <1>2, <1>6

-----------------------------------------------------------------------------
(* tcp_close and the timers *)

\* tcp_close.
LEMMA CloseWindow ==
  ASSUME NEW p \in Pcb, NEW lim \in Limits, WindowOK(p, lim)
  PROVE  tcp_close(p) \in Pcb /\ WindowOK(tcp_close(p), lim)
<1> DEFINE q == Finned(p)
<1>1. q \in Pcb /\ SamePeer(q, p) /\ q.unacked = p.unacked
  BY FinPcb
<1>2. tcp_close(p) = tcp_output(q, FALSE)
  BY DEF tcp_close, Finned
<1> HIDE DEF q
<1>3. WindowOK(q, lim)
  BY <1>1 DEF WindowOK, SamePeer
<1> QED  BY <1>1, <1>2, <1>3, OutputWindow

\* tcp_rexmit_rto of tcp_slowtmr.
LEMMA ExpiredCases ==
  ASSUME NEW p \in Pcb
  PROVE  /\ p.persist => TimerExpired(p) = tcp_zero_window_probe(p)
         /\ ~p.persist => TimerExpired(p) = tcp_output(TimedOut(p), FALSE)
<1> DEFINE h == MaxOf(MinOf(p.cwnd, p.snd_wnd) \div 2, 2 * TCP_MSS)
           r == [p EXCEPT !.ssthresh = h, !.cwnd = TCP_MSS]
           q == [r EXCEPT !.unsent = r.unacked \o @, !.unacked = <<>>, !.nrtx = @ + 1]
<1>1. /\ p.persist => TimerExpired(p) = tcp_zero_window_probe(p)
      /\ ~p.persist => TimerExpired(p) = tcp_output(q, FALSE)
  BY DEF TimerExpired, tcp_rexmit_rto
<1>2. TimedOut(p) = [p EXCEPT !.ssthresh = h, !.cwnd = TCP_MSS, !.unsent = p.unacked \o p.unsent,
                              !.unacked = <<>>, !.nrtx = p.nrtx + 1]
  BY DEF TimedOut
<1> HIDE DEF h
<1>3. r.unacked = p.unacked /\ r.unsent = p.unsent /\ r.nrtx = p.nrtx
  BY DEF Pcb
<1>4. q = [r EXCEPT !.unsent = p.unacked \o p.unsent, !.unacked = <<>>, !.nrtx = p.nrtx + 1]
  BY <1>3 DEF Pcb
<1>5. q = TimedOut(p)
  BY <1>2, <1>4 DEF Pcb
<1> QED  BY <1>1, <1>5

\* A timer.
LEMMA ExpiredWindow ==
  ASSUME NEW p \in Pcb, NEW lim \in Limits, WindowOK(p, lim),
         p.persist => tcp_zero_window_probe(p).out \subseteq lim.probes
  PROVE  TimerExpired(p) \in Pcb /\ WindowOK(TimerExpired(p), lim)
<1>1. CASE p.persist
  <2> DEFINE q == tcp_zero_window_probe(p)
             s == (p.unacked \o p.unsent)[1]
  <2>1. TimerExpired(p) = q
    BY <1>1, ExpiredCases
  <2>2. \/ q = p
        \/ /\ q \in Pcb /\ SameScalars(q, p) /\ q.unacked = p.unacked
           /\ q.out = p.out \cup {ProbeSeg(s)}
           /\ q.rtime = p.rtime /\ q.persist = p.persist
    BY ProbePcb
  <2>3. q.out \subseteq lim.probes
    BY <1>1
  <2> HIDE DEF q, s
  <2>4. CASE q = p
    BY <2>1, <2>4
  <2>5. CASE q # p
    <3>1. WindowOK(q, lim)
      BY <2>2, <2>3, <2>5 DEF WindowOK, SameScalars
    <3> QED  BY <2>1, <2>2, <2>5, <3>1
  <2> QED  BY <2>4, <2>5
<1>2. CASE ~p.persist
  <2> DEFINE q == TimedOut(p)
  <2>1. TimerExpired(p) = tcp_output(q, FALSE)
    BY <1>2, ExpiredCases
  <2>2. q \in Pcb /\ SamePeer(q, p) /\ q.unacked = <<>>
    BY TimedOutPcb
  <2> HIDE DEF q
  <2>3. WindowOK(q, lim)
    BY <2>2 DEF WindowOK, SamePeer
  <2> QED  BY <2>1, <2>2, <2>3, OutputWindow
<1> QED  BY <1>1, <1>2

-----------------------------------------------------------------------------
(* The requests *)

Pendings(q) == [i \in 1..Len(q) |-> q[i].pending]

\* How much of len acknowledged bytes uvl_client_sent_func takes off the i-th
\* request, and what it leaves.
TakenOff(q, i, len) ==
  MinOf(q[i].pending, MaxOf(0, len - SumSeq(Pendings(SubSeq(q, 1, i - 1)))))
ReqAcked(req, n) == [req EXCEPT !.pending = @ - n]

\* The sum of what requests wait for.
LEMMA PendingSum ==
  ASSUME NEW q \in Seq(Req)
  PROVE  /\ Pendings(q) \in Seq(Int) /\ Len(Pendings(q)) = Len(q)
         /\ SumSeq(Pendings(q)) \in Int
         /\ SumOf(q, LAMBDA req : req.pending) = SumSeq(Pendings(q))
<1>1. \A i \in 1..Len(q) : q[i].pending \in Int
  <2>1. \A i \in 1..Len(q) : q[i] \in Req
    OBVIOUS
  <2>2. \A s \in Req : s.pending \in Int
    BY DEF Req
  <2> QED  BY <2>1, <2>2
<1>2. Pendings(q) \in Seq(Int) /\ Len(Pendings(q)) = Len(q)
  BY <1>1 DEF Pendings
<1>3. SumSeq(Pendings(q)) \in Int
  BY <1>2, SumConcat
<1>4. SumOf(q, LAMBDA req : req.pending) = SumSeq(Pendings(q))
  BY DEF SumOf, Pendings
<1> QED  BY <1>2, <1>3, <1>4

\* uvl_client_sent_func.
LEMMA SentFuncClient ==
  ASSUME NEW c \in Client, NEW len \in Int
  PROVE  LET d == uvl_client_sent_func(c, len)
         IN /\ d \in Client /\ Len(d.queue) = Len(c.queue)
            /\ d.closed = c.closed /\ d.closing = c.closing /\ d.write_req = TRUE
            /\ \A i \in 1..Len(c.queue) :
                 /\ TakenOff(c.queue, i, len) \in Int
                 /\ d.queue[i] = ReqAcked(c.queue[i], TakenOff(c.queue, i, len))
<1> DEFINE q == c.queue
           N == Len(q)
           Off(i) == TakenOff(q, i, len)
           e == [i \in 1..N |-> ReqAcked(q[i], Off(i))]
           d == uvl_client_sent_func(c, len)
<1>1. q \in Seq(Req) /\ N \in Nat
  BY DEF Client
<1>2. ASSUME NEW i \in 1..N
      PROVE  Off(i) \in Int /\ q[i] \in Req /\ ReqAcked(q[i], Off(i)) \in Req
  <2>1. q[i] \in Req /\ q[i].pending \in Int /\ SubSeq(q, 1, i - 1) \in Seq(Req)
    <3>1. q[i] \in Req
      BY <1>1
    <3>2. SubSeq(q, 1, i - 1) \in Seq(Req)
      BY <1>1
    <3> QED  BY <3>1, <3>2 DEF Req
  <2>2. SumSeq(Pendings(SubSeq(q, 1, i - 1))) \in Int
    BY <2>1, PendingSum
  <2>3. Off(i) \in Int
    BY <2>1, <2>2 DEF TakenOff, MinOf, MaxOf
  <2>4. \A r \in Req, n \in Int : ReqAcked(r, n) \in Req
    BY DEF ReqAcked, Req
  <2> HIDE DEF Off, q
  <2> QED  BY <2>1, <2>3, <2>4
<1>3. d = [c EXCEPT !.queue = e, !.write_req = TRUE]
  <2>1. \A i \in 1..N :
          MinOf(q[i].pending,
                MaxOf(0, len - SumOf(SubSeq(q, 1, i - 1), LAMBDA req : req.pending)))
            = Off(i)
    <3>1. \A i \in 1..N : SubSeq(q, 1, i - 1) \in Seq(Req)
      BY <1>1
    <3>2. \A i \in 1..N : SumOf(SubSeq(q, 1, i - 1), LAMBDA req : req.pending)
                            = SumSeq(Pendings(SubSeq(q, 1, i - 1)))
      BY <3>1, PendingSum
    <3> QED  BY <3>2 DEF TakenOff
  <2> DEFINE Own(i) ==
        MinOf(q[i].pending,
              MaxOf(0, len - SumOf(SubSeq(q, 1, i - 1), LAMBDA req : req.pending)))
             f == [i \in 1..N |-> [q[i] EXCEPT !.pending = @ - Own(i)]]
  <2>2. d = [c EXCEPT !.queue = f, !.write_req = TRUE]
    BY DEF uvl_client_sent_func
  <2>3. \A i \in 1..N : Own(i) = Off(i)
    BY <2>1
  <2> HIDE DEF Off, Own
  <2>4. f = e
    BY <2>3 DEF ReqAcked
  <2> QED  BY <2>2, <2>4
<1>4. e \in Seq(Req) /\ Len(e) = N /\ \A i \in 1..N : e[i] = ReqAcked(q[i], Off(i))
  <2>1. \A i \in 1..N : ReqAcked(q[i], Off(i)) \in Req
    BY <1>2
  <2> HIDE DEF Off
  <2>2. e \in [1..N -> Req]
    BY <2>1
  <2> QED  BY <1>1, <2>2
<1> HIDE DEF e, d, Off
<1>5. /\ d \in Client /\ d.queue = e /\ d.closed = c.closed /\ d.closing = c.closing
      /\ d.write_req = TRUE
  BY <1>3, <1>4 DEF Client
<1> QED  BY <1>2, <1>4, <1>5 DEF d, Off

\* The requests that leave the queue.
LEMMA FinishedFacts ==
  ASSUME NEW c \in Client
  PROVE  /\ Finished(c) \in 0..Len(c.queue)
         /\ \A i \in 1..Finished(c) : c.queue[i].total_sent = c.queue[i].len
                                      /\ c.queue[i].pending = 0
         /\ Finished(c) < Len(c.queue) =>
              LET r == c.queue[Finished(c) + 1] IN ~(r.total_sent = r.len /\ r.pending = 0)
<1> DEFINE q == c.queue
           N == Len(q)
           Done(i) == q[i].total_sent = q[i].len /\ q[i].pending = 0
           P == {i \in 1..N : Done(i)}
           k == Finished(c)
           S == {m \in 0..N : \A i \in 1..m : Done(i)}
<1>1. N \in Nat
  BY DEF Client
<1>2. \A m : m \in S <=> m \in 0..N /\ \A i \in 1..m : i \in P
  <2>1. \A m \in 0..N : \A i \in 1..m : i \in 1..N
    BY <1>1
  <2>2. \A m : m \in S <=> m \in 0..N /\ \A i \in 1..m : Done(i)
    OBVIOUS
  <2> HIDE DEF S, Done
  <2> QED  BY <2>1, <2>2
<1>3. k = Max(S)
  BY DEF Finished
<1>4. \A i \in 1..N : i \in P <=> Done(i)
  OBVIOUS
<1> HIDE DEF k, P, N, S, Done
<1>5. k \in 0..N /\ (\A i \in 1..k : i \in P) /\ (k < N => k + 1 \notin P)
  BY <1>1, <1>2, <1>3, LongestPrefix
<1>6. (\A i \in 1..k : i \in 1..N) /\ (k < N => k + 1 \in 1..N)
  BY <1>1, <1>5
<1>7. (\A i \in 1..k : Done(i)) /\ (k < N => ~Done(k + 1))
  BY <1>4, <1>5, <1>6
<1> QED  BY <1>5, <1>7 DEF k, N, Done

\* The client after they left.
LEMMA PoppedClient ==
  ASSUME NEW c \in Client
  PROVE  /\ Popped(c) \in Client /\ Popped(c).closed = c.closed /\ Popped(c).closing = c.closing
         /\ Popped(c).write_req = FALSE
         /\ Len(Popped(c).queue) = Len(c.queue) - Finished(c)
         /\ \A i \in 1..Len(c.queue) - Finished(c) :
              Popped(c).queue[i] = c.queue[Finished(c) + i]
<1> DEFINE q == c.queue
           k == Finished(c)
           e == SubSeq(q, k + 1, Len(q))
<1>1. q \in Seq(Req) /\ Len(q) \in Nat
  BY DEF Client
<1>2. k \in 0..Len(q)
  BY FinishedFacts
<1>3. Popped(c) = [c EXCEPT !.queue = e, !.write_req = FALSE]
  BY DEF Popped
<1> HIDE DEF k, q
<1>4. e \in Seq(Req) /\ Len(e) = Len(q) - k /\ \A i \in 1..Len(q) - k : e[i] = q[k + i]
  BY <1>1, <1>2
<1> HIDE DEF e
<1> USE DEF q
<1>5. /\ Popped(c) \in Client /\ Popped(c).queue = e /\ Popped(c).closed = c.closed
      /\ Popped(c).closing = c.closing /\ Popped(c).write_req = FALSE
  BY <1>3, <1>4 DEF Client
<1> QED  BY <1>4, <1>5 DEF k

\* uvl_cancel_reqs.
LEMMA CancelClient ==
  ASSUME NEW c \in Client
  PROVE  /\ uvl_cancel_reqs(c) \in Client /\ uvl_cancel_reqs(c).queue = <<>>
         /\ uvl_cancel_reqs(c).closed = c.closed /\ uvl_cancel_reqs(c).closing = c.closing
         /\ uvl_cancel_reqs(c).write_req = c.write_req
<1>1. <<>> \in Seq(Req)
  OBVIOUS
<1> QED  BY <1>1 DEF Client, uvl_cancel_reqs

\* uvl_write and the flags of the client.
LEMMA ClientSteps ==
  ASSUME NEW c \in Client, NEW r \in Req, NEW b1 \in BOOLEAN, NEW b2 \in BOOLEAN, NEW b3 \in BOOLEAN
  PROVE  /\ [c EXCEPT !.queue = Append(@, r), !.write_req = TRUE] \in Client
         /\ [uvl_cancel_reqs(c) EXCEPT !.closed = b1, !.closing = b2, !.write_req = b3] \in Client
         /\ [c EXCEPT !.closed = b1] \in Client
<1>1. c.queue \in Seq(Req)
  BY DEF Client
<1> DEFINE q == Append(c.queue, r)
<1>2. q \in Seq(Req)
  BY <1>1
<1>3. [c EXCEPT !.queue = Append(@, r), !.write_req = TRUE] = [c EXCEPT !.queue = q, !.write_req = TRUE]
  BY DEF Client
<1> HIDE DEF q
<1>4. [c EXCEPT !.queue = q, !.write_req = TRUE] \in Client
  BY <1>2 DEF Client
<1>5. uvl_cancel_reqs(c) \in Client
  BY CancelClient
<1> HIDE DEF Client
<1>6. \A d \in Client : [d EXCEPT !.closed = b1, !.closing = b2, !.write_req = b3] \in Client
  BY DEF Client
<1>7. [c EXCEPT !.closed = b1] \in Client
  BY DEF Client
<1> QED  BY <1>3, <1>4, <1>5, <1>6, <1>7

-----------------------------------------------------------------------------
(* The window and the timers, in every state *)

Ack == [ackno : Int, wnd : Int]

\* The limits of a step, and the probes that it may send.
Offered(probes) == [edge |-> console.edge, nxt |-> console.nxt, probes |-> probes]

\* The inductive invariant: lwIP's window was offered by the console, with an
\* acknowledgement that it sent, as was every window under way; and the console
\* offers no more than it has room for.
WindowInv ==
  /\ pcb \in Pcb /\ pcb.out = {} /\ WindowOK(pcb, Offered({}))
  /\ client \in Client /\ stream \in Seq(Int) /\ lens \in Seq(Int)
  /\ console \in [nxt : Int, edge : Int]
  /\ console.nxt <= console.edge /\ console.edge <= console.nxt + PeerWnd
  /\ net \subseteq SentSeg
  /\ acks \subseteq Ack
  /\ \A a \in acks : /\ a.ackno <= console.nxt /\ a.ackno + a.wnd <= console.edge
                     /\ a.wnd >= 0 /\ a.wnd <= PeerWnd

\* The fields of the limits.
LEMMA OfferedFields ==
  ASSUME WindowInv, NEW probes \in SUBSET SentSeg
  PROVE  /\ Offered(probes) \in Limits
         /\ Offered(probes).edge = console.edge /\ Offered(probes).nxt = console.nxt
         /\ Offered(probes).probes = probes
         /\ WindowOK(pcb, Offered(probes))
<1>1. console.nxt \in Int /\ console.edge \in Int
  BY DEF WindowInv
<1>2. /\ Offered(probes) \in Limits
      /\ Offered(probes).edge = console.edge /\ Offered(probes).nxt = console.nxt
      /\ Offered(probes).probes = probes
  BY <1>1 DEF Offered, Limits
<1>3. Offered({}).edge = console.edge /\ Offered({}).nxt = console.nxt
  BY DEF Offered
<1>4. WindowOK(pcb, Offered({})) /\ pcb.out = {}
  BY DEF WindowInv
<1> QED  BY <1>2, <1>3, <1>4 DEF WindowOK

\* A step that ends with a pcb whose segments are within the window or probes.
LEMMA CommitWindow ==
  ASSUME WindowInv, NEW probes \in SUBSET SentSeg,
         NEW p \in Pcb, WindowOK(p, Offered(probes)), Commit(p),
         client' \in Client, stream' \in Seq(Int), lens' \in Seq(Int),
         UNCHANGED console, acks' \subseteq acks,
         probes # {} => /\ pcb.persist /\ tcp_slowtmr(TRUE)
                        /\ probes \subseteq tcp_zero_window_probe(pcb).out
  PROVE  WindowInv' /\ SendsWithin
<1> DEFINE q == [p EXCEPT !.out = {}]
<1>1. pcb' = q /\ net' = net \cup p.out
  BY DEF Commit
<1>2. /\ q \in Pcb /\ q.out = {} /\ q.lastack = p.lastack /\ q.snd_wl2 = p.snd_wl2
      /\ q.snd_wnd = p.snd_wnd /\ q.unacked = p.unacked /\ q.rtime = p.rtime
      /\ q.persist = p.persist
  BY DEF Pcb
<1>3. p.out \subseteq SentSeg
  BY DEF Pcb
<1> HIDE DEF q
<1>4. /\ Offered(probes).edge = console.edge /\ Offered(probes).nxt = console.nxt
      /\ Offered(probes).probes = probes
  BY OfferedFields
<1>5. Offered({})'.edge = console.edge /\ Offered({})'.nxt = console.nxt
  BY DEF Offered
<1>6. WindowOK(q, Offered({})')
  BY <1>2, <1>4, <1>5 DEF WindowOK
<1>7. WindowInv'
  <2>1. WindowOK(pcb, Offered({}))'
    BY <1>1, <1>6 DEF WindowOK
  <2> QED  BY <1>1, <1>2, <1>3, <2>1 DEF WindowInv
<1>8. ASSUME NEW seg \in net' \ net
      PROVE  \/ pcb.persist /\ tcp_slowtmr(TRUE) /\ seg \in tcp_zero_window_probe(pcb).out
             \/ /\ seg.seqno + seg.len <= console.nxt + PeerWnd
                /\ pcb'.snd_wl2 = pcb'.lastack => seg.seqno + seg.len <= console.edge
  <2>1. seg \in p.out /\ seg.seqno \in Int /\ seg.len \in Int
    BY <1>1, <1>3 DEF SentSeg
  <2>2. CASE seg \in probes
    BY <2>2
  <2>3. CASE seg \notin probes
    <3>1. /\ seg.seqno + seg.len <= p.lastack + p.snd_wnd
          /\ p.snd_wl2 + p.snd_wnd <= console.edge
          /\ p.lastack <= console.nxt /\ p.snd_wnd <= PeerWnd
      BY <1>4, <2>1, <2>3 DEF WindowOK
    <3>2. /\ p.lastack \in Int /\ p.snd_wnd \in Int /\ p.snd_wl2 \in Int
          /\ console.nxt \in Int /\ console.edge \in Int /\ PeerWnd \in Int
      BY PcbFields, UvlWriteAssumption DEF WindowInv
    <3>3. pcb'.snd_wl2 = p.snd_wl2 /\ pcb'.lastack = p.lastack
      BY <1>1, <1>2
    <3>4. /\ seg.seqno + seg.len <= console.nxt + PeerWnd
          /\ p.snd_wl2 = p.lastack => seg.seqno + seg.len <= console.edge
      BY ONLY <2>1, <3>1, <3>2
    <3> QED  BY <3>3, <3>4
  <2> QED  BY <2>2, <2>3
<1> QED  BY <1>7, <1>8 DEF SendsWithin

\* A step that sends nothing.
LEMMA SendsNothing == net' \subseteq net => SendsWithin
BY DEF SendsWithin

\* Init.
LEMMA WindowInit == Init => WindowInv
<1> SUFFICES ASSUME Init PROVE WindowInv
  OBVIOUS
<1>1. PICK wnd \in FirstWnd : pcb = tcp_alloc(wnd) /\ console = [nxt |-> 1, edge |-> 1 + wnd]
  BY DEF Init
<1>2. wnd \in Nat
  BY UvlWriteAssumption
<1> DEFINE c == 4 * TCP_MSS
           b == (wnd = 0)
<1>3. /\ c \in Nat \ {0} /\ TCP_SND_BUF \in Nat \ {0} /\ b \in BOOLEAN /\ (b <=> wnd = 0)
  BY TcpOutAssumption
<1>4. pcb = [state |-> "ESTABLISHED", unsent |-> <<>>, unacked |-> <<>>, unsent_oversize |-> 0,
             lastack |-> 1, snd_nxt |-> 1, snd_lbb |-> 1,
             snd_buf |-> TCP_SND_BUF, snd_queuelen |-> 0, snd_wnd |-> wnd, snd_wl2 |-> 1,
             cwnd |-> c, ssthresh |-> TCP_SND_BUF, dupacks |-> 0, nrtx |-> 0,
             rtime |-> FALSE, persist |-> b, infr |-> FALSE, memerr |-> FALSE,
             fin |-> FALSE, out |-> {}]
  BY <1>1 DEF tcp_alloc
<1> HIDE DEF c, b
<1>5. <<>> \in Seq(Seg)
  OBVIOUS
<1>6. pcb \in Pcb
  BY <1>2, <1>3, <1>4, <1>5 DEF Pcb
<1>7. /\ pcb.out = {} /\ pcb.lastack = 1 /\ pcb.snd_wl2 = 1 /\ pcb.snd_wnd = wnd
      /\ pcb.unacked = <<>> /\ pcb.persist = b
  BY <1>4
<1>8. /\ console.edge = 1 + wnd /\ console.nxt = 1 /\ console \in [nxt : Int, edge : Int]
      /\ wnd <= PeerWnd /\ PeerWnd \in Nat
  BY <1>1, <1>2, UvlWriteAssumption
<1>9. WindowOK(pcb, Offered({}))
  <2>1. Offered({}).edge = console.edge /\ Offered({}).nxt = console.nxt
    BY DEF Offered
  <2> QED  BY <1>2, <1>3, <1>7, <1>8, <2>1 DEF WindowOK
<1>10. client \in Client /\ stream \in Seq(Int) /\ lens \in Seq(Int)
  <2>1. <<>> \in Seq(Req) /\ <<>> \in Seq(Int)
    OBVIOUS
  <2> QED  BY <2>1 DEF Init, Client
<1> QED  BY <1>2, <1>6, <1>7, <1>8, <1>9, <1>10 DEF Init, WindowInv

\* A step that leaves the pcb and the console alone.
LEMMA SameOffer ==
  ASSUME WindowInv, UNCHANGED <<pcb, console>>
  PROVE  WindowOK(pcb, Offered({}))'
<1>1. WindowOK(pcb, Offered({}))
  BY DEF WindowInv
<1> QED  BY <1>1 DEF WindowOK, Offered

\* The user.
LEMMA WindowUvlWrite ==
  ASSUME WindowInv, NEW n \in Int, uvl_write(n)
  PROVE  WindowInv' /\ SendsWithin
<1> DEFINE r == [first |-> Written + 1, len |-> n, sent |-> 0, sent_bufs |-> 0,
                 pending |-> 0, total_sent |-> 0]
<1>1. Written \in Int
  BY SumConcat DEF Written, WindowInv
<1>2. r \in Req
  BY <1>1 DEF Req
<1>3. client' \in Client
  <2>1. client' = [client EXCEPT !.queue = Append(@, r), !.write_req = TRUE]
    BY DEF uvl_write
  <2> HIDE DEF r
  <2> QED  BY <1>2, <2>1, ClientSteps DEF WindowInv
<1>4. lens' \in Seq(Int)
  BY DEF uvl_write, WindowInv
<1>5. UNCHANGED <<pcb, net, acks, console, stream>>
  BY DEF uvl_write
<1> QED  BY <1>3, <1>4, <1>5, SendsNothing, SameOffer DEF WindowInv

\* What uvl_async_tcp_write_cb gives to lwIP.
LEMMA WindowGiven ==
  ASSUME WindowInv
  PROVE  LET w == GiveToTcp(Popped(client), pcb)
         IN /\ Popped(client) \in Client
            /\ w.c \in Client /\ w.p \in Pcb /\ w.stream \in Seq(Int)
            /\ WindowOK(w.p, Offered({}))
<1> DEFINE c == Popped(client)
           w == GiveToTcp(c, pcb)
<1>1. c \in Client
  BY PoppedClient DEF WindowInv
<1> HIDE DEF c
<1>2. Offered({}) \in Limits /\ pcb \in Pcb /\ stream \in Seq(Int) /\ WindowOK(pcb, Offered({}))
  BY OfferedFields DEF WindowInv
<1>3. w \in Work /\ WindowOK(w.p, Offered({}))
  BY <1>1, <1>2, GiveToTcpWindow
<1> HIDE DEF w
<1> QED  BY <1>1, <1>3 DEF Work, w, c

\* The callback of the loop.
LEMMA WindowWriteCb ==
  ASSUME WindowInv, uvl_async_tcp_write_cb
  PROVE  WindowInv' /\ SendsWithin
<1> DEFINE c == Popped(client)
           w == GiveToTcp(c, pcb)
           p == tcp_output(w.p, FALSE)
<1>1. /\ c \in Client /\ w.c \in Client /\ w.p \in Pcb /\ w.stream \in Seq(Int)
      /\ WindowOK(w.p, Offered({}))
  BY WindowGiven
<1>2. UNCHANGED <<acks, console, lens>>
  BY DEF uvl_async_tcp_write_cb
<1>3. \/ client' = uvl_cancel_reqs(c) /\ UNCHANGED <<pcb, net, stream>>
      \/ client' = c /\ UNCHANGED <<pcb, net, stream>>
      \/ client' = w.c /\ stream' = w.stream /\ Commit(p)
  BY DEF uvl_async_tcp_write_cb
<1> HIDE DEF c, w
<1>4. Offered({}) \in Limits /\ {} \in SUBSET SentSeg
  BY OfferedFields
<1>5. p \in Pcb /\ WindowOK(p, Offered({}))
  BY <1>1, <1>4, OutputWindow
<1>6. uvl_cancel_reqs(c) \in Client
  BY <1>1, CancelClient
<1> HIDE DEF p
<1>7. CASE client' \in Client /\ UNCHANGED <<pcb, net, stream>>
  BY <1>2, <1>7, SendsNothing, SameOffer DEF WindowInv
<1>8. CASE client' = w.c /\ stream' = w.stream /\ Commit(p)
  <2>1. lens' \in Seq(Int) /\ acks' \subseteq acks
    BY <1>2 DEF WindowInv
  <2> QED  BY <1>1, <1>2, <1>4, <1>5, <1>8, <2>1, CommitWindow
<1> QED  BY <1>1, <1>3, <1>6, <1>7, <1>8

\* The same callback when the interface refuses.
LEMMA WindowSendFails ==
  ASSUME WindowInv, SendFails
  PROVE  WindowInv' /\ SendsWithin
<1> DEFINE w == GiveToTcp(Popped(client), pcb)
           p == tcp_close(MemErr(w.p))
<1>1. /\ w.c \in Client /\ w.p \in Pcb /\ w.stream \in Seq(Int)
      /\ WindowOK(w.p, Offered({}))
  BY WindowGiven
<1>2. /\ client' = [w.c EXCEPT !.closed = TRUE] /\ stream' = w.stream /\ Commit(p)
      /\ UNCHANGED <<acks, console, lens>>
  BY DEF SendFails, MemErr
<1> HIDE DEF w
<1>3. Offered({}) \in Limits /\ {} \in SUBSET SentSeg
  BY OfferedFields
<1>4. p \in Pcb /\ WindowOK(p, Offered({}))
  BY <1>1, <1>3, MemErrWindow, CloseWindow
<1> HIDE DEF p
<1>5. client' \in Client
  BY <1>1, <1>2 DEF Client
<1>6. lens' \in Seq(Int) /\ acks' \subseteq acks
  BY <1>2 DEF WindowInv
<1> QED  BY <1>1, <1>2, <1>3, <1>4, <1>5, <1>6, CommitWindow

\* uvl_tcp_close.
LEMMA WindowTcpClose ==
  ASSUME WindowInv, uvl_tcp_close
  PROVE  WindowInv' /\ SendsWithin
<1>1. /\ client' = [uvl_cancel_reqs(client) EXCEPT !.closed = TRUE, !.closing = TRUE,
                                                   !.write_req = FALSE]
      /\ UNCHANGED <<acks, console, stream, lens>>
      /\ UNCHANGED <<pcb, net>> \/ Commit(tcp_close(pcb))
  BY DEF uvl_tcp_close
<1>2. client' \in Client
  <2>1. uvl_cancel_reqs(client) \in Client
    BY CancelClient DEF WindowInv
  <2> QED  BY <1>1, <2>1 DEF Client
<1>3. /\ lens' \in Seq(Int) /\ acks' \subseteq acks /\ stream' \in Seq(Int)
      /\ Offered({}) \in Limits /\ pcb \in Pcb /\ WindowOK(pcb, Offered({}))
      /\ {} \in SUBSET SentSeg
  BY <1>1, OfferedFields DEF WindowInv
<1>4. tcp_close(pcb) \in Pcb /\ WindowOK(tcp_close(pcb), Offered({}))
  BY <1>3, CloseWindow
<1>5. CASE UNCHANGED <<pcb, net>>
  BY <1>1, <1>2, <1>5, SendsNothing, SameOffer DEF WindowInv
<1>6. CASE Commit(tcp_close(pcb))
  BY <1>1, <1>2, <1>3, <1>4, <1>6, CommitWindow
<1> QED  BY <1>1, <1>5, <1>6

\* An acknowledgement arrives.
LEMMA WindowAckArrives ==
  ASSUME WindowInv, AckArrives
  PROVE  WindowInv' /\ SendsWithin
<1>1. PICK ack \in acks, order \in {"before", "same", "after"}, keep \in BOOLEAN, data \in BOOLEAN,
           acknow \in BOOLEAN :
        /\ acks' = IF keep THEN acks ELSE acks \ {ack}
        /\ tcp_input(ack, data, order, acknow)
  BY DEF AckArrives
<1> DEFINE p == tcp_receive_ack(pcb, ack.ackno, ack.wnd, data, order)
           n == p.snd_buf - pcb.snd_buf
           q == tcp_output(p, acknow)
<1>2. /\ UNCHANGED <<console, stream, lens>>
      /\ client' = IF n > 0 /\ ~client.closed THEN uvl_client_sent_func(client, n) ELSE client
      /\ Commit(q)
  BY <1>1 DEF tcp_input
<1>3. /\ Offered({}) \in Limits /\ {} \in SUBSET SentSeg
      /\ Offered({}).edge = console.edge /\ Offered({}).nxt = console.nxt
  BY OfferedFields
<1>4. /\ pcb \in Pcb /\ WindowOK(pcb, Offered({})) /\ pcb.out = {} /\ client \in Client
      /\ lens' \in Seq(Int) /\ stream' \in Seq(Int)
      /\ ack.ackno \in Int /\ ack.wnd \in Int /\ ack.wnd >= 0 /\ ack.wnd <= PeerWnd
      /\ ack.ackno <= console.nxt /\ ack.ackno + ack.wnd <= console.edge
  BY <1>2 DEF WindowInv, Ack
<1>5. p \in Pcb /\ WindowOK(p, Offered({}))
  BY <1>3, <1>4, ReceiveWindow
<1> HIDE DEF p
<1>6. q \in Pcb /\ WindowOK(q, Offered({}))
  BY <1>3, <1>5, OutputWindow
<1>7. client' \in Client
  <2>1. n \in Int
    BY <1>4, <1>5, PcbFields
  <2> HIDE DEF n
  <2>2. uvl_client_sent_func(client, n) \in Client
    BY <1>4, <2>1, SentFuncClient
  <2> QED  BY <1>2, <1>4, <2>2
<1>8. acks' \subseteq acks
  BY <1>1
<1> HIDE DEF q
<1> QED  BY <1>2, <1>3, <1>4, <1>6, <1>7, <1>8, CommitWindow

\* lwIP gives up.
LEMMA WindowGiveUp ==
  ASSUME WindowInv, GiveUp
  PROVE  WindowInv' /\ SendsWithin
<1>1. /\ pcb' = [pcb EXCEPT !.state = "CLOSED", !.unsent = <<>>, !.unacked = <<>>]
      /\ client' = [client EXCEPT !.closed = TRUE]
      /\ UNCHANGED <<net, acks, console, stream, lens>>
  BY DEF GiveUp
<1>2. pcb \in Pcb /\ WindowOK(pcb, Offered({})) /\ client \in Client /\ pcb.out = {}
  BY DEF WindowInv
<1>3. <<>> \in Seq(Seg)
  OBVIOUS
<1>4. pcb' \in Pcb
  BY <1>1, <1>2, <1>3 DEF Pcb
<1>5. /\ pcb'.lastack = pcb.lastack /\ pcb'.snd_wl2 = pcb.snd_wl2 /\ pcb'.snd_wnd = pcb.snd_wnd
      /\ pcb'.unacked = <<>> /\ pcb'.persist = pcb.persist /\ pcb'.out = pcb.out
  BY <1>1, <1>2 DEF Pcb
<1>6. WindowOK(pcb, Offered({}))'
  BY <1>1, <1>2, <1>5 DEF WindowOK, Offered
<1>7. client' \in Client
  BY <1>1, <1>2 DEF Client
<1> QED  BY <1>1, <1>2, <1>4, <1>5, <1>6, <1>7, SendsNothing DEF WindowInv

\* The timers.
LEMMA WindowSlowtmr ==
  ASSUME WindowInv, NEW expired \in BOOLEAN, tcp_slowtmr(expired)
  PROVE  WindowInv' /\ SendsWithin
<1> DEFINE p == IF expired THEN TimerExpired(pcb) ELSE pcb
           q == tcp_output(p, FALSE)
           probes == IF expired /\ pcb.persist THEN tcp_zero_window_probe(pcb).out ELSE {}
<1>1. UNCHANGED <<client, acks, console, stream, lens>> /\ Commit(q)
  BY DEF tcp_slowtmr
<1>2. /\ pcb \in Pcb /\ client' \in Client /\ lens' \in Seq(Int) /\ stream' \in Seq(Int)
      /\ acks' \subseteq acks
  BY <1>1 DEF WindowInv
<1>3. probes \in SUBSET SentSeg
  <2>1. tcp_zero_window_probe(pcb) \in Pcb
    BY <1>2, ProbePcb
  <2>2. tcp_zero_window_probe(pcb).out \in SUBSET SentSeg
    BY <2>1 DEF Pcb
  <2> QED  BY <2>2
<1>4. probes # {} => /\ pcb.persist /\ tcp_slowtmr(TRUE)
                     /\ probes \subseteq tcp_zero_window_probe(pcb).out
  <2>1. CASE expired
    <3>1. expired = TRUE
      BY <2>1
    <3> QED  BY <3>1
  <2> QED  BY <2>1
<1>5. expired /\ pcb.persist => tcp_zero_window_probe(pcb).out \subseteq probes
  OBVIOUS
<1> HIDE DEF probes
<1>6. /\ Offered(probes) \in Limits /\ Offered(probes).probes = probes
      /\ WindowOK(pcb, Offered(probes))
  BY <1>3, OfferedFields
<1>7. p \in Pcb /\ WindowOK(p, Offered(probes))
  BY <1>2, <1>5, <1>6, ExpiredWindow
<1> HIDE DEF p
<1>8. q \in Pcb /\ WindowOK(q, Offered(probes))
  BY <1>6, <1>7, OutputWindow
<1> HIDE DEF q
<1> QED  BY <1>1, <1>2, <1>3, <1>4, <1>8, CommitWindow

\* The console: what it expects and its window only grow, and a new
\* acknowledgement tells them.
LEMMA ConsoleWindow ==
  ASSUME WindowInv, NEW nxt \in Int, NEW edge \in Int, console.nxt <= nxt, console.edge <= edge,
         nxt <= edge, edge <= nxt + PeerWnd,
         console' = [nxt |-> nxt, edge |-> edge], net' \subseteq net,
         acks' = acks \cup {[ackno |-> nxt, wnd |-> edge - nxt]},
         UNCHANGED <<pcb, client, stream, lens>>
  PROVE  WindowInv' /\ SendsWithin
<1> DEFINE a == [ackno |-> nxt, wnd |-> edge - nxt]
<1>1. PeerWnd \in Int
  BY UvlWriteAssumption
<1>2. /\ a \in Ack /\ a.ackno = nxt /\ a.ackno + a.wnd = edge
      /\ a.wnd >= 0 /\ a.wnd <= PeerWnd
  BY <1>1 DEF Ack
<1>3. /\ console'.edge = edge /\ console'.nxt = nxt /\ console' \in [nxt : Int, edge : Int]
      /\ console.edge \in Int /\ console.nxt \in Int
  BY DEF WindowInv
<1>4. WindowOK(pcb, Offered({}))'
  <2>1. /\ WindowOK(pcb, Offered({})) /\ pcb.out = {}
        /\ pcb.lastack \in Int /\ pcb.snd_wnd \in Int /\ pcb.snd_wl2 \in Int
    BY PcbFields DEF WindowInv
  <2>2. Offered({}).edge = console.edge /\ Offered({}).nxt = console.nxt
    BY DEF Offered
  <2>3. Offered({})'.edge = edge /\ Offered({})'.nxt = nxt
    BY <1>3 DEF Offered
  <2>4. /\ pcb.snd_wl2 + pcb.snd_wnd <= edge /\ pcb.lastack <= nxt
        /\ pcb.snd_wnd >= 0 /\ pcb.snd_wnd <= PeerWnd
        /\ pcb.unacked # <<>> => pcb.rtime
        /\ pcb.snd_wnd = 0 => pcb.persist
    BY <1>3, <2>1, <2>2 DEF WindowOK
  <2> QED  BY <2>1, <2>3, <2>4 DEF WindowOK
<1>5. \A b \in acks' : /\ b \in Ack /\ b.ackno <= nxt /\ b.ackno + b.wnd <= edge
                       /\ b.wnd >= 0 /\ b.wnd <= PeerWnd
  <2>1. \A b \in acks : /\ b \in Ack /\ b.ackno <= nxt /\ b.ackno + b.wnd <= edge
                        /\ b.wnd >= 0 /\ b.wnd <= PeerWnd
    BY <1>3 DEF WindowInv, Ack
  <2> HIDE DEF a
  <2> QED  BY <1>2, <2>1 DEF a
<1> HIDE DEF a
<1> QED  BY <1>3, <1>4, <1>5, SendsNothing DEF WindowInv

\* A segment arrives.
LEMMA WindowSegmentArrives ==
  ASSUME WindowInv, SegmentArrives
  PROVE  WindowInv' /\ SendsWithin
<1>1. PICK seg \in net : Receive(seg)
  BY DEF SegmentArrives
<1>2. /\ console.nxt \in Int /\ console.edge \in Int /\ console \in [nxt : Int, edge : Int]
      /\ console.nxt <= console.edge /\ console.edge <= console.nxt + PeerWnd
      /\ seg.seqno \in Int /\ seg.len \in Int /\ seg.fin \in BOOLEAN /\ PeerWnd \in Nat
  BY UvlWriteAssumption DEF WindowInv, SentSeg
<1> DEFINE data == MaxOf(console.nxt, MinOf(seg.seqno + seg.len, console.edge))
           fin == seg.fin /\ data = seg.seqno + seg.len
           nxt == IF seg.seqno > console.nxt \/ EndOf(seg) <= console.nxt THEN console.nxt
                  ELSE data + (IF fin THEN 1 ELSE 0)
           edge == MaxOf(console.edge, nxt)
<1>3. /\ net' = net \ {seg} /\ UNCHANGED <<pcb, client, stream, lens>>
      /\ console' = [console EXCEPT !.nxt = nxt, !.edge = MaxOf(@, nxt)]
      /\ acks' = acks \cup {[ackno |-> nxt, wnd |-> console'.edge - nxt]}
  BY <1>1 DEF Receive
<1>4. data \in Int /\ console.nxt <= data
  BY <1>2 DEF MinOf, MaxOf
<1> HIDE DEF data
<1>5. nxt \in Int /\ console.nxt <= nxt
  BY <1>2, <1>4
<1> HIDE DEF nxt
<1>6. edge \in Int /\ console.edge <= edge /\ nxt <= edge /\ edge <= nxt + PeerWnd
  BY <1>2, <1>5 DEF MaxOf
<1>7. console' = [nxt |-> nxt, edge |-> edge]
  BY <1>2, <1>3
<1> HIDE DEF edge
<1>8. console'.edge = edge
  BY <1>7
<1>9. net' \subseteq net
  BY <1>3
<1> QED  BY <1>3, <1>5, <1>9, <1>6, <1>7, <1>8, ConsoleWindow

\* The console reads.
LEMMA WindowConsoleReads ==
  ASSUME WindowInv, ConsoleReads
  PROVE  WindowInv' /\ SendsWithin
<1>1. PICK edge \in console.edge + TCP_MSS .. console.nxt + PeerWnd :
        console' = [console EXCEPT !.edge = edge]
  BY DEF ConsoleReads
<1>2. /\ console.nxt \in Int /\ console.edge \in Int /\ console \in [nxt : Int, edge : Int]
      /\ TCP_MSS \in Nat /\ PeerWnd \in Nat
  BY TcpOutAssumption, UvlWriteAssumption DEF WindowInv
<1>3. /\ edge \in Int /\ console.edge <= edge /\ console.nxt <= edge
      /\ edge <= console.nxt + PeerWnd /\ console.nxt <= console.nxt
  BY <1>2 DEF WindowInv
<1>4. console' = [nxt |-> console.nxt, edge |-> edge] /\ console'.edge = edge
  BY <1>1, <1>2
<1>5. /\ acks' = acks \cup {[ackno |-> console.nxt, wnd |-> edge - console.nxt]}
      /\ UNCHANGED <<pcb, client, net, stream, lens>>
  BY <1>4 DEF ConsoleReads
<1> QED  BY <1>2, <1>3, <1>4, <1>5, ConsoleWindow

\* The network loses something.
LEMMA WindowLose ==
  ASSUME WindowInv, Lose
  PROVE  WindowInv' /\ SendsWithin
<1>1. /\ UNCHANGED <<pcb, client, console, stream, lens>>
      /\ net' \subseteq net /\ acks' \subseteq acks
  BY DEF Lose
<1> QED  BY <1>1, SendsNothing, SameOffer DEF WindowInv

\* Every step keeps the invariant and sends within the window.
LEMMA WindowStep == WindowInv /\ [Next]_vars => WindowInv' /\ (SendsWithin \/ UNCHANGED vars)
<1> SUFFICES ASSUME WindowInv, [Next]_vars PROVE WindowInv' /\ (SendsWithin \/ UNCHANGED vars)
  OBVIOUS
<1>1. CASE Len(lens) < Len(Lens) /\ uvl_write(Lens[Len(lens) + 1])
  <2>1. Len(lens) \in Nat /\ Lens \in Seq(Nat \ {0})
    BY UvlWriteAssumption DEF WindowInv
  <2>2. Lens[Len(lens) + 1] \in Int
    BY <1>1, <2>1
  <2> QED  BY <1>1, <2>2, WindowUvlWrite
<1>2. CASE uvl_async_tcp_write_cb
  BY <1>2, WindowWriteCb
<1>3. CASE SendFails
  BY <1>3, WindowSendFails
<1>4. CASE uvl_tcp_close
  BY <1>4, WindowTcpClose
<1>5. CASE AckArrives
  BY <1>5, WindowAckArrives
<1>6. CASE GiveUp
  BY <1>6, WindowGiveUp
<1>7. CASE tcp_slowtmr(TRUE)
  BY <1>7, WindowSlowtmr
<1>8. CASE tcp_slowtmr(FALSE)
  BY <1>8, WindowSlowtmr
<1>9. CASE SegmentArrives
  BY <1>9, WindowSegmentArrives
<1>10. CASE ConsoleReads
  BY <1>10, WindowConsoleReads
<1>11. CASE Lose
  BY <1>11, WindowLose
<1>12. CASE UNCHANGED vars
  BY <1>12, SameOffer DEF vars, WindowInv
<1> QED  BY <1>1, <1>2, <1>3, <1>4, <1>5, <1>6, <1>7, <1>8, <1>9, <1>10, <1>11, <1>12 DEF Next

\* lwIP sends nothing beyond the window that the console offered, except a zero
\* window probe, and where it has an older window, nothing beyond the room that
\* the console has: tcp_output (tcp_out.c) for whatever tcp_receive, the timers
\* and uvl_imp_write_to_tcp do to the pcb, with any number of acknowledgements
\* lost, repeated and out of order, whether or not the console sends data again.
THEOREM WithinWindowAlways == Spec => WithinWindow
<1>1. WindowInv /\ [Next]_vars => [SendsWithin]_vars
  BY WindowStep
<1>2. WindowInv /\ [Next]_vars => WindowInv'
  BY WindowStep
<1> QED  BY <1>1, <1>2, WindowInit, PTL DEF Spec, WithinWindow

\* What tcp_output does with data that nothing unacknowledged precedes: it sends
\* some of it, or the window is too small and the persist timer starts.
LEMMA OutputGoesOn ==
  ASSUME NEW p \in Pcb, p.unsent # <<>>, p.unacked = <<>>, p.snd_wnd > 0, p.snd_wnd <= p.cwnd
  PROVE  tcp_output(p, FALSE).persist \/ tcp_output(p, FALSE).unacked # <<>>
<1> DEFINE q == tcp_output(p, FALSE)
           k == Sendable(p)
<1>1. /\ p.unsent \in Seq(Seg) /\ Len(p.unsent) \in Nat /\ Len(p.unsent) >= 1
      /\ p.snd_wnd \in Int /\ p.cwnd \in Int
  BY PcbFields
<1>2. MinOf(p.snd_wnd, p.cwnd) = p.snd_wnd
  BY <1>1 DEF MinOf
<1>3. CASE ~Fits(p, p.unsent[1])
  <2>1. q = Persists(p)
    BY <1>2, <1>3 DEF tcp_output, Persists
  <2> HIDE DEF q
  <2>2. q.persist
    BY <2>1 DEF Persists, Pcb
  <2> QED  BY <2>2 DEF q
<1>4. CASE Fits(p, p.unsent[1])
  <2>1. q = Sent(p, k)
    BY <1>4 DEF tcp_output, Sent, Sendable
  <2>2. MaySend(p, 1)
    BY DEF MaySend
  <2>3. k \in 0..Len(p.unsent) /\ (k < Len(p.unsent) => ~(Fits(p, p.unsent[k + 1]) /\ MaySend(p, k + 1)))
    BY <1>1, SendableFacts
  <2> HIDE DEF q, k
  <2>4. k >= 1
    BY <1>1, <1>4, <2>2, <2>3
  <2>5. q.unacked = PlacedAll(p.unacked, SubSeq(p.unsent, 1, k))
    BY <2>1, <2>3, SentPcb
  <2>6. SubSeq(p.unsent, 1, k) \in Seq(Seg) /\ Len(SubSeq(p.unsent, 1, k)) = k
    BY <1>1, <2>3
  <2>7. PlacedAll(p.unacked, SubSeq(p.unsent, 1, k)) # <<>>
    <3>1. p.unacked \in Seq(Seg)
      BY PcbFields
    <3>2. SubSeq(p.unsent, 1, k) # <<>>
      BY <2>4, <2>6
    <3> QED  BY <2>6, <3>1, <3>2, PlacedAllSeg
  <2> QED  BY <2>5, <2>7 DEF q
<1> QED  BY <1>3, <1>4

\* What is not acknowledged is under a timer: tcp_output starts the
\* retransmission timer for what it sends and tcp_receive stops it only with an
\* empty unacked queue; and where the console's window and not the congestion
\* window holds unsent data back, closed or just too small for it, the persist
\* timer runs or the next poll starts it.
THEOREM UnderATimerAlways ==
  Spec => [](UnackedTimed /\ (pcb.snd_wnd <= pcb.cwnd => UnderATimer))
<1>1. WindowInv => UnackedTimed /\ (pcb.snd_wnd <= pcb.cwnd => UnderATimer)
  <2> SUFFICES ASSUME WindowInv
               PROVE  UnackedTimed /\ (pcb.snd_wnd <= pcb.cwnd => UnderATimer)
    OBVIOUS
  <2>1. /\ pcb \in Pcb /\ pcb.snd_wnd \in Int /\ pcb.snd_wnd >= 0
        /\ pcb.unacked # <<>> => pcb.rtime
        /\ pcb.snd_wnd = 0 => pcb.persist
    BY PcbFields DEF WindowInv, WindowOK
  <2>2. UnackedTimed
    BY <2>1 DEF UnackedTimed
  <2>3. ASSUME pcb.snd_wnd <= pcb.cwnd, pcb.state # "CLOSED", pcb.unsent # <<>>, ~TimerRuns
        PROVE  tcp_output(pcb, FALSE).persist \/ tcp_output(pcb, FALSE).unacked # <<>>
    <3>1. ~pcb.persist /\ pcb.unacked = <<>>
      BY <2>1, <2>3 DEF TimerRuns
    <3>2. pcb.snd_wnd > 0
      BY <2>1, <3>1
    <3> QED  BY <2>1, <2>3, <3>1, <3>2, OutputGoesOn
  <2> QED  BY <2>2, <2>3 DEF UnderATimer
<1> QED  BY <1>1, WindowInit, WindowStep, PTL DEF Spec
=============================================================================
