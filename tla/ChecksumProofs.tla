--------------------------- MODULE ChecksumProofs ---------------------------
(***************************************************************************)
(* Which packets a receiver accepts with the checksums of the two clients, *)
(* for buffers of every length and bytes of every base.                    *)
(*                                                                         *)
(* The two loops that bring a sum down to a word, the subtraction of       *)
(* calc_checksum and the end-around carry of calculateUdpChecksum, are     *)
(* shown to compute the same function Residue; the rest is arithmetic on   *)
(* sums of words.                                                          *)
(***************************************************************************)
EXTENDS Checksum, WellFoundedInduction, TLAPS

-----------------------------------------------------------------------------
(* Natural numbers and sums *)

\* Every set of natural numbers has a least element.
LEMMA LeastNat ==
  ASSUME NEW S \in SUBSET Nat, S # {}
  PROVE  \E m \in S : \A k \in S : m <= k
<1> DEFINE R == OpToRel(<, Nat)
<1>1. IsWellFoundedOn(R, Nat)
  BY NatLessThanWellFounded
<1>2. \A x, y \in Nat : x < y => <<x, y>> \in R
  BY DEF OpToRel
<1> HIDE DEF R
<1>3. PICK m \in S : \A y \in S : ~ (<<y, m>> \in R)
  BY <1>1, WFMin
<1>4. \A y \in S : ~ (y < m)
  BY <1>2, <1>3
<1> QED  BY <1>4

\* Induction, for the members of a set: a set that holds 0 and with n also
\* n + 1 holds every natural number.
LEMMA SetInduction ==
  ASSUME NEW S, 0 \in S, \A n \in Nat : n \in S => n + 1 \in S
  PROVE  Nat \subseteq S
<1> SUFFICES ASSUME Nat \ S # {} PROVE FALSE
  OBVIOUS
<1>1. PICK m \in Nat \ S : \A k \in Nat \ S : m <= k
  BY LeastNat
<1>2. m # 0 /\ m - 1 \in Nat
  BY <1>1
<1>3. m - 1 \in S
  BY <1>1, <1>2
<1>4. (m - 1) + 1 \in S
  BY <1>2, <1>3
<1> QED  BY <1>1, <1>4

\* The recursive function of SumSeq exists.
LEMMA SumExists ==
  ASSUME NEW s, NEW N \in Nat
  PROVE  \E g : g = [n \in 0..N |-> IF n = 0 THEN 0 ELSE g[n - 1] + s[n]]
<1> DEFINE S == {m \in Nat : \E g : g = [n \in 0..m |-> IF n = 0 THEN 0 ELSE g[n - 1] + s[n]]}
<1>1. 0 \in S
  <2> DEFINE g == [n \in 0..0 |-> 0]
  <2>1. g = [n \in 0..0 |-> IF n = 0 THEN 0 ELSE g[n - 1] + s[n]]
    OBVIOUS
  <2> QED  BY <2>1
<1>2. ASSUME NEW m \in Nat, m \in S PROVE m + 1 \in S
  <2>1. PICK g : g = [n \in 0..m |-> IF n = 0 THEN 0 ELSE g[n - 1] + s[n]]
    BY <1>2
  <2> DEFINE h == [n \in 0..m + 1 |-> IF n = m + 1 THEN g[m] + s[m + 1] ELSE g[n]]
  <2>2. \A n \in 0..m : g[n] = IF n = 0 THEN 0 ELSE g[n - 1] + s[n]
    BY <2>1
  <2>3. \A n \in 0..m + 1 : h[n] = IF n = m + 1 THEN g[m] + s[m + 1] ELSE g[n]
    OBVIOUS
  <2>4. ASSUME NEW n \in 0..m + 1
        PROVE  h[n] = IF n = 0 THEN 0 ELSE h[n - 1] + s[n]
    <3> HIDE DEF h
    <3>1. CASE n = 0
      BY <2>2, <2>3, <3>1
    <3>2. CASE n = m + 1
      <4>1. h[n] = g[m] + s[n] /\ n - 1 = m /\ n # 0
        BY <2>3, <3>2
      <4>2. h[m] = g[m]
        BY <2>3
      <4> QED  BY <4>1, <4>2
    <3>3. CASE n # 0 /\ n # m + 1
      <4>1. n \in 0..m /\ n - 1 \in 0..m + 1 /\ n - 1 # m + 1
        BY <3>3
      <4>2. h[n] = g[n] /\ h[n - 1] = g[n - 1]
        BY <2>3, <3>3, <4>1
      <4>3. g[n] = g[n - 1] + s[n]
        BY <2>2, <3>3, <4>1
      <4> QED  BY <3>3, <4>2, <4>3
    <3> QED  BY <3>1, <3>2, <3>3
  <2>5. h = [n \in 0..m + 1 |-> IF n = 0 THEN 0 ELSE h[n - 1] + s[n]]
    BY <2>4
  <2>6. \E k : k = [n \in 0..m + 1 |-> IF n = 0 THEN 0 ELSE k[n - 1] + s[n]]
    BY <2>5
  <2> QED  BY <2>6
<1> HIDE DEF S
<1>3. Nat \subseteq S
  BY <1>1, <1>2, SetInduction
<1> QED  BY <1>3 DEF S

\* The sum is the last of the partial sums.
LEMMA PartialSums ==
  ASSUME NEW s \in Seq(Int)
  PROVE  \E g \in [0..Len(s) -> Int] :
           /\ g[0] = 0 /\ \A i \in 1..Len(s) : g[i] = g[i - 1] + s[i]
           /\ SumSeq(s) = g[Len(s)]
<1> DEFINE N == Len(s)
           E(g) == g = [n \in 0..N |-> IF n = 0 THEN 0 ELSE g[n - 1] + s[n]]
           a == CHOOSE g : E(g)
<1>1. N \in Nat
  OBVIOUS
<1>2. SumSeq(s) = a[N]
  BY DEF SumSeq
<1>3. E(a)
  <2> HIDE DEF N
  <2>1. \E g : E(g)
    BY <1>1, SumExists
  <2> HIDE DEF E
  <2> QED  BY <2>1
<1> HIDE DEF a
<1>4. \A n \in 0..N : a[n] = IF n = 0 THEN 0 ELSE a[n - 1] + s[n]
  <2> HIDE DEF N
  <2> QED  BY <1>3
<1>5. DOMAIN a = 0..N /\ a = [n \in 0..N |-> a[n]]
  <2> HIDE DEF N
  <2> QED  BY <1>3
<1> HIDE DEF E
<1> DEFINE S == {m \in Nat : m <= N => a[m] \in Int}
<1>6. 0 \in S
  BY <1>1, <1>4
<1>7. ASSUME NEW m \in Nat, m \in S PROVE m + 1 \in S
  <2>1. CASE m + 1 <= N
    <3>1. a[m] \in Int /\ s[m + 1] \in Int /\ m + 1 \in 0..N /\ (m + 1) - 1 = m /\ m + 1 # 0
      BY <1>1, <1>7, <2>1
    <3>2. a[m + 1] = a[m] + s[m + 1]
      BY <1>4, <3>1
    <3> QED  BY <3>1, <3>2
  <2> QED  BY <2>1
<1> HIDE DEF S
<1>8. Nat \subseteq S
  BY <1>6, <1>7, SetInduction
<1>9. \A m \in 0..N : a[m] \in Int
  BY <1>1, <1>8 DEF S
<1>10. a \in [0..N -> Int]
  BY <1>5, <1>9
<1>11. \A i \in 1..N : a[i] = a[i - 1] + s[i]
  BY <1>1, <1>4
<1>12. a[0] = 0
  BY <1>1, <1>4
<1> QED  BY <1>2, <1>10, <1>11, <1>12

\* A sum of differences.
LEMMA Telescope ==
  ASSUME NEW s \in Seq(Int), NEW f, \A i \in 0..Len(s) : f[i] \in Int,
         \A i \in 1..Len(s) : s[i] = f[i] - f[i - 1]
  PROVE  SumSeq(s) = f[Len(s)] - f[0] /\ SumSeq(s) \in Int
<1> DEFINE N == Len(s)
<1>1. PICK g \in [0..N -> Int] : /\ g[0] = 0 /\ \A i \in 1..N : g[i] = g[i - 1] + s[i]
                                /\ SumSeq(s) = g[N]
  BY PartialSums
<1>2. N \in Nat /\ \A i \in 0..N : f[i] \in Int /\ g[i] \in Int
  OBVIOUS
<1>3. \A i \in 1..N : s[i] = f[i] - f[i - 1]
  OBVIOUS
<1> HIDE DEF N
<1> DEFINE S == {m \in Nat : m <= N => g[m] = f[m] - f[0]}
<1>4. 0 \in S
  BY <1>1, <1>2
<1>5. ASSUME NEW m \in Nat, m \in S PROVE m + 1 \in S
  <2>1. CASE m + 1 <= N
    <3>1. /\ m \in 0..N /\ m + 1 \in 1..N /\ m + 1 \in 0..N /\ (m + 1) - 1 = m /\ 0 \in 0..N
          /\ g[m] = f[m] - f[0]
      BY <1>2, <1>5, <2>1
    <3>2. g[m + 1] = g[m] + s[m + 1] /\ s[m + 1] = f[m + 1] - f[m]
      BY <1>1, <1>3, <3>1
    <3>3. f[m + 1] \in Int /\ f[m] \in Int /\ f[0] \in Int
      BY <1>2, <3>1
    <3>4. g[m + 1] = f[m + 1] - f[0]
      BY <3>1, <3>2, <3>3
    <3> QED  BY <3>4
  <2> QED  BY <2>1
<1> HIDE DEF S
<1>6. N \in S
  BY <1>2, <1>4, <1>5, SetInduction
<1>7. g[N] = f[N] - f[0] /\ g[N] \in Int
  BY <1>2, <1>6 DEF S
<1> QED  BY <1>1, <1>7 DEF N

\* A sum of natural numbers is one.
LEMMA SumNat ==
  ASSUME NEW s \in Seq(Nat)
  PROVE  SumSeq(s) \in Nat
<1> DEFINE N == Len(s)
<1>1. s \in Seq(Int)
  OBVIOUS
<1>2. PICK g \in [0..N -> Int] : /\ g[0] = 0 /\ \A i \in 1..N : g[i] = g[i - 1] + s[i]
                                /\ SumSeq(s) = g[N]
  BY <1>1, PartialSums
<1>3. N \in Nat /\ \A i \in 1..N : s[i] \in Nat
  OBVIOUS
<1> HIDE DEF N
<1> DEFINE S == {m \in Nat : m <= N => g[m] \in Nat}
<1>4. 0 \in S
  BY <1>2
<1>5. ASSUME NEW m \in Nat, m \in S PROVE m + 1 \in S
  <2>1. CASE m + 1 <= N
    <3>1. m + 1 \in 1..N /\ (m + 1) - 1 = m /\ g[m] \in Nat
      BY <1>3, <1>5, <2>1
    <3>2. g[m + 1] = g[m] + s[m + 1] /\ s[m + 1] \in Nat
      BY <1>2, <1>3, <3>1
    <3> QED  BY <3>1, <3>2
  <2> QED  BY <2>1
<1> HIDE DEF S
<1>6. N \in S
  BY <1>3, <1>4, <1>5, SetInduction
<1> QED  BY <1>2, <1>3, <1>6 DEF S

\* The sum of two numbers.
LEMMA SumTwo ==
  ASSUME NEW x \in Int, NEW y \in Int
  PROVE  SumSeq(<<x, y>>) = x + y
<1> DEFINE f == [i \in {0, 1, 2} |-> IF i = 0 THEN 0 ELSE IF i = 1 THEN x ELSE x + y]
           s == <<x, y>>
<1>1. s \in Seq(Int) /\ Len(s) = 2 /\ s[1] = x /\ s[2] = y
  OBVIOUS
<1>2. f[0] = 0 /\ f[1] = x /\ f[2] = x + y
  OBVIOUS
<1>3. 0..Len(s) = {0, 1, 2} /\ 1..Len(s) = {1, 2} /\ 1 - 1 = 0 /\ 2 - 1 = 1
  BY <1>1
<1> HIDE DEF f, s
<1>4. (\A i \in 0..Len(s) : f[i] \in Int) /\ (\A i \in 1..Len(s) : s[i] = f[i] - f[i - 1])
  BY <1>1, <1>2, <1>3
<1>5. SumSeq(s) = f[Len(s)] - f[0]
  BY <1>1, <1>4, Telescope
<1>6. SumSeq(s) = x + y
  BY <1>1, <1>2, <1>5
<1> QED  BY <1>6 DEF s

-----------------------------------------------------------------------------
(* Residues *)

\* The remainder of a division is the only one.
LEMMA ModUnique ==
  ASSUME NEW m \in Nat \ {0}, NEW r \in 0..m - 1, NEW k \in Int
  PROVE  (k * m + r) % m = r
<1> DEFINE a == k * m + r
           q == a \div m
           t == a % m
<1>0. k * m \in Int
  OBVIOUS
<1>1. a \in Int /\ q \in Int /\ t \in 0..m - 1 /\ a = m * q + t
  <2>1. a \in Int
    BY <1>0
  <2> HIDE DEF a
  <2> QED  BY <2>1
<1>2. k * m + r = m * q + t
  BY <1>1
<1> HIDE DEF a, q, t
<1>3. r - t = m * (q - k)
  BY <1>0, <1>1, <1>2
<1>4. q = k
  <2>1. CASE q - k >= 1
    <3>1. m * (q - k) >= m
      BY <1>1, <2>1
    <3> QED  BY <1>1, <1>3, <3>1
  <2>2. CASE q - k <= -1
    <3>1. m * (q - k) <= -m
      BY <1>1, <2>2
    <3> QED  BY <1>1, <1>3, <3>1
  <2> QED  BY <1>1, <2>1, <2>2
<1>5. t = r
  BY <1>0, <1>1, <1>2, <1>4
<1> QED  BY <1>5 DEF a, t

\* Ones is a positive number and one word is one more.
LEMMA OnesFacts ==
  /\ Base \in Nat /\ Base >= 2 /\ Ones \in Nat \ {0} /\ Ones = Base * Base - 1
  /\ \A b \in Byte : b * (Base - 1) \in 0..Ones - 1 /\ (b * (Base - 1) = 0 <=> b = 0)
<1>1. Base \in Nat /\ Base >= 2
  BY ChecksumAssumption
<1>2. Base * Base >= 2 * Base /\ Base * Base \in Nat
  BY <1>1
<1>3. Ones \in Nat \ {0} /\ Ones = Base * Base - 1
  BY <1>1, <1>2 DEF Ones
<1>4. ASSUME NEW b \in Byte
      PROVE  b * (Base - 1) \in 0..Ones - 1 /\ (b * (Base - 1) = 0 <=> b = 0)
  <2>1. b \in Nat /\ b <= Base - 1
    BY <1>1 DEF Byte
  <2>2. b * (Base - 1) <= (Base - 1) * (Base - 1) /\ b * (Base - 1) \in Nat
    BY <1>1, <2>1
  <2>3. (Base - 1) * (Base - 1) = Base * Base - 2 * Base + 1
    BY <1>1
  <2>4. (Base - 1) * (Base - 1) <= Ones - 1
    BY <1>1, <1>2, <1>3, <2>3
  <2>5. b # 0 => b * (Base - 1) # 0
    BY <1>1, <2>1
  <2>6. b = 0 => b * (Base - 1) = 0
    BY <1>1
  <2>7. (Base - 1) * (Base - 1) \in Int
    BY <1>1
  <2> QED  BY <1>3, <2>2, <2>4, <2>5, <2>6, <2>7
<1> QED  BY <1>1, <1>3, <1>4

\* What is left of a sum of words: the sum modulo Ones, where only 0 is 0.
Residue(sum) == IF sum = 0 THEN 0 ELSE ((sum - 1) % Ones) + 1

\* A residue is a word that differs from the sum by a multiple of Ones.
LEMMA ResidueFacts ==
  ASSUME NEW s \in Nat
  PROVE  /\ Residue(s) \in 0..Ones /\ (Residue(s) = 0 <=> s = 0)
         /\ \E k \in Nat : s = Residue(s) + k * Ones
<1> DEFINE m == Ones
<1>0. m \in Nat \ {0}
  BY OnesFacts
<1> HIDE DEF m
<1>1. CASE s = 0
  <2>1. Residue(s) = 0 /\ 0 = 0 + 0 * m
    BY <1>0, <1>1 DEF Residue
  <2> QED  BY <1>0, <1>1, <2>1 DEF m
<1>2. CASE s # 0
  <2> DEFINE q == (s - 1) \div m
             t == (s - 1) % m
  <2>1. s - 1 \in Nat
    BY <1>2
  <2>2. q \in Int /\ t \in 0..m - 1 /\ s - 1 = m * q + t
    BY <1>0, <2>1
  <2>3. Residue(s) = t + 1
    BY <1>2 DEF Residue, m
  <2> HIDE DEF q, t
  <2>4. q >= 0
    <3> SUFFICES ASSUME q <= -1 PROVE FALSE
      BY <2>2
    <3>1. m * q <= -m
      BY <1>0, <2>2
    <3> QED  BY <1>0, <2>1, <2>2, <3>1
  <2>5. m * q = q * m /\ q * m \in Int
    BY <1>0, <2>2
  <2>6. q \in Nat /\ s = (t + 1) + q * m
    BY <2>2, <2>4, <2>5
  <2> QED  BY <1>0, <1>2, <2>2, <2>3, <2>6 DEF m
<1> QED  BY <1>1, <1>2

\* And it is the only such word.
LEMMA ResidueUnique ==
  ASSUME NEW s \in Nat, NEW r \in 1..Ones, NEW k \in Nat, s = r + k * Ones
  PROVE  Residue(s) = r
<1> DEFINE m == Ones
<1>0. m \in Nat \ {0}
  BY OnesFacts
<1>1. r \in 1..m /\ s = r + k * m
  OBVIOUS
<1>2. Residue(s) = IF s = 0 THEN 0 ELSE ((s - 1) % m) + 1
  BY DEF Residue
<1> HIDE DEF m
<1>3. k * m \in Nat
  BY <1>0
<1>4. s # 0 /\ s - 1 = k * m + (r - 1) /\ r - 1 \in 0..m - 1
  BY <1>0, <1>1, <1>3
<1>5. \A x \in 0..m - 1 : (k * m + x) % m = x
  BY <1>0, ModUnique
<1>6. (k * m + (r - 1)) % m = r - 1
  BY <1>4, <1>5
<1>7. Residue(s) = ((s - 1) % m) + 1
  BY <1>2, <1>4
<1>8. (s - 1) % m = r - 1
  BY <1>4, <1>6
<1> QED  BY <1>1, <1>7, <1>8

\* A multiple of Ones less does not change it.
LEMMA ResidueLess ==
  ASSUME NEW s \in Nat, NEW u \in Nat, NEW k \in Nat, u # 0, s = u + k * Ones
  PROVE  Residue(s) = Residue(u)
<1> DEFINE m == Ones
           r == Residue(u)
<1>0. m \in Nat \ {0} /\ s = u + k * m
  BY OnesFacts
<1>1. r \in 1..m
  BY <1>0, ResidueFacts
<1>2. PICK j \in Nat : u = r + j * m
  BY ResidueFacts
<1>3. r \in 1..Ones
  BY <1>1
<1>4. \A i \in Nat : s = r + i * m => Residue(s) = r
  BY <1>3, ResidueUnique
<1> HIDE DEF m, r
<1>5. j * m + k * m = (j + k) * m /\ j * m \in Nat /\ k * m \in Nat /\ j + k \in Nat
  BY <1>0
<1>6. s = r + (j + k) * m
  BY <1>0, <1>1, <1>2, <1>5
<1> QED  BY <1>4, <1>5, <1>6 DEF r

\* A word is its own residue.
LEMMA ResidueWord ==
  ASSUME NEW s \in Nat, s <= Ones
  PROVE  Residue(s) = s
<1> DEFINE m == Ones
<1>0. m \in Nat \ {0}
  BY OnesFacts
<1>1. CASE s = 0
  BY <1>1 DEF Residue
<1>2. CASE s # 0
  <2>1. 0 * m = 0 /\ s = s + 0 /\ s \in 1..m
    BY <1>0, <1>2
  <2>2. s = s + 0 * Ones
    BY <2>1
  <2> QED  BY <2>1, <2>2, ResidueUnique
<1> QED  BY <1>1, <1>2

\* calc_checksum's loop, which subtracts Ones, computes the residue.
LEMMA ReduceResidue ==
  ASSUME NEW s \in Nat
  PROVE  Reduce[s] = Residue(s)
<1> DEFINE E(g) == g = [sum \in Nat |-> IF sum > Ones THEN g[sum - Ones] ELSE sum]
           w == [sum \in Nat |-> Residue(sum)]
<1>0. Ones \in Nat \ {0}
  BY OnesFacts
<1>1. ASSUME NEW x \in Nat
      PROVE  Residue(x) = IF x > Ones THEN Residue(x - Ones) ELSE x
  <2>1. CASE x > Ones
    <3>1. x - Ones \in Nat /\ x - Ones # 0 /\ x = (x - Ones) + 1 * Ones
      BY <1>0, <2>1
    <3>2. Residue(x) = Residue(x - Ones)
      BY <3>1, ResidueLess
    <3> QED  BY <2>1, <3>2
  <2>2. CASE ~(x > Ones)
    <3>1. x <= Ones
      BY <1>0, <2>2
    <3> QED  BY <2>2, <3>1, ResidueWord
  <2> QED  BY <2>1, <2>2
<1>2. ASSUME NEW x \in Nat PROVE w[x] = IF x > Ones THEN w[x - Ones] ELSE x
  <2>1. x > Ones => x - Ones \in Nat
    BY <1>0
  <2>2. w[x] = Residue(x) /\ (x - Ones \in Nat => w[x - Ones] = Residue(x - Ones))
    OBVIOUS
  <2> HIDE DEF w
  <2> QED  BY <1>1, <2>1, <2>2
<1>3. E(w)
  BY <1>2
<1>4. Reduce = CHOOSE g : E(g)
  BY DEF Reduce
<1> HIDE DEF w
<1>5. E(Reduce)
  <2> HIDE DEF E
  <2> QED  BY <1>3, <1>4
<1>6. \A x \in Nat : Reduce[x] = IF x > Ones THEN Reduce[x - Ones] ELSE x
  BY <1>5
<1> HIDE DEF E
<1> DEFINE Bad == {x \in Nat : Reduce[x] # Residue(x)}
<1>7. ASSUME Bad # {} PROVE FALSE
  <2>1. PICK x \in Bad : \A y \in Bad : x <= y
    <3>1. Bad \in SUBSET Nat
      OBVIOUS
    <3> HIDE DEF Bad
    <3> QED  BY <1>7, <3>1, LeastNat
  <2>2. x \in Nat /\ Reduce[x] # Residue(x)
    BY <2>1
  <2>3. CASE x > Ones
    <3>1. x - Ones \in Nat /\ ~(x <= x - Ones)
      BY <1>0, <2>2, <2>3
    <3>2. x - Ones \notin Bad
      BY <2>1, <3>1
    <3>3. Reduce[x - Ones] = Residue(x - Ones)
      BY <3>1, <3>2
    <3> QED  BY <1>1, <1>6, <2>2, <2>3, <3>3
  <2>4. CASE ~(x > Ones)
    BY <1>1, <1>6, <2>2, <2>4
  <2> QED  BY <2>3, <2>4
<1> QED  BY <1>7

\* The end-around carry: what is carried adds up to less than the sum, by a
\* multiple of Ones.
LEMMA CarryFacts ==
  ASSUME NEW s \in Nat, s \div (Ones + 1) # 0
  PROVE  LET u == (s % (Ones + 1)) + (s \div (Ones + 1))
         IN  u \in Nat /\ u # 0 /\ u < s /\ Residue(s) = Residue(u)
<1> DEFINE m == Ones + 1
           q == s \div m
           t == s % m
           u == t + q
<1>0. Ones \in Nat \ {0} /\ m \in Nat \ {0} /\ m = Ones + 1
  BY OnesFacts
<1>1. q \in Int /\ t \in 0..m - 1 /\ s = m * q + t /\ q # 0
  <2> HIDE DEF m
  <2>1. q \in Int /\ t \in 0..m - 1 /\ s = m * q + t
    BY <1>0
  <2> QED  BY <2>1 DEF m
<1> HIDE DEF m, q, t
<1>2. q >= 1
  <2> SUFFICES ASSUME q <= -1 PROVE FALSE
    BY <1>1
  <2>1. m * q <= -m
    BY <1>0, <1>1
  <2> QED  BY <1>0, <1>1, <2>1
<1>3. m * q = q * Ones + q /\ q * Ones >= 1 /\ q * Ones \in Int
  BY <1>0, <1>1, <1>2
<1>4. u \in Nat /\ u # 0 /\ u < s /\ s = u + q * Ones /\ q \in Nat
  BY <1>0, <1>1, <1>2, <1>3
<1>5. Residue(s) = Residue(u)
  <2> HIDE DEF u
  <2> QED  BY <1>4, ResidueLess
<1> QED  BY <1>4, <1>5 DEF m, q, t

\* calculateUdpChecksum's loop, which adds the carries, computes it too.
LEMMA FoldResidue ==
  ASSUME NEW s \in Nat
  PROVE  Fold[s] = Residue(s)
<1> DEFINE Carry(x) == (x % (Ones + 1)) + (x \div (Ones + 1))
           High(x) == x \div (Ones + 1) # 0
           E(g) == g = [sum \in Nat |-> IF High(sum) THEN g[Carry(sum)] ELSE sum]
           w == [sum \in Nat |-> Residue(sum)]
<1>0. Ones \in Nat \ {0}
  BY OnesFacts
<1>1. ASSUME NEW x \in Nat, High(x)
      PROVE  Carry(x) \in Nat /\ Carry(x) < x /\ Residue(x) = Residue(Carry(x))
  BY <1>1, CarryFacts
<1>2. ASSUME NEW x \in Nat, ~High(x) PROVE Residue(x) = x
  <2> DEFINE m == Ones + 1
  <2>0. m \in Nat \ {0} /\ m = Ones + 1
    BY <1>0
  <2>1. x \div m = 0
    BY <1>2
  <2> HIDE DEF m
  <2>2. x % m \in 0..m - 1 /\ x = m * (x \div m) + (x % m)
    BY <2>0
  <2>3. m * 0 = 0
    BY <2>0
  <2>4. x <= Ones
    BY <1>0, <2>0, <2>1, <2>2, <2>3
  <2> QED  BY <2>4, ResidueWord
<1>3. Fold = CHOOSE g : E(g)
  BY DEF Fold
<1> HIDE DEF Carry, High
<1>4. ASSUME NEW x \in Nat PROVE w[x] = IF High(x) THEN w[Carry(x)] ELSE x
  <2>1. w[x] = Residue(x) /\ (Carry(x) \in Nat => w[Carry(x)] = Residue(Carry(x)))
    OBVIOUS
  <2> HIDE DEF w
  <2> QED  BY <1>1, <1>2, <2>1
<1>5. E(w)
  BY <1>4
<1> HIDE DEF w
<1>6. E(Fold)
  <2> HIDE DEF E
  <2> QED  BY <1>3, <1>5
<1>7. \A x \in Nat : Fold[x] = IF High(x) THEN Fold[Carry(x)] ELSE x
  BY <1>6
<1> HIDE DEF E
<1> DEFINE Bad == {x \in Nat : Fold[x] # Residue(x)}
<1>8. ASSUME Bad # {} PROVE FALSE
  <2>1. PICK x \in Bad : \A y \in Bad : x <= y
    <3>1. Bad \in SUBSET Nat
      OBVIOUS
    <3> HIDE DEF Bad
    <3> QED  BY <1>8, <3>1, LeastNat
  <2>2. x \in Nat /\ Fold[x] # Residue(x)
    BY <2>1
  <2>3. CASE High(x)
    <3>1. Carry(x) \in Nat /\ ~(x <= Carry(x)) /\ Residue(x) = Residue(Carry(x))
      BY <1>1, <2>2, <2>3
    <3>2. Carry(x) \notin Bad
      BY <2>1, <3>1
    <3>3. Fold[Carry(x)] = Residue(Carry(x))
      BY <3>1, <3>2
    <3> QED  BY <1>7, <2>2, <2>3, <3>1, <3>3
  <2>4. CASE ~High(x)
    BY <1>2, <1>7, <2>2, <2>4
  <2> QED  BY <2>3, <2>4
<1> QED  BY <1>8

-----------------------------------------------------------------------------
(* Words *)

\* What each byte counts, with a byte without a partner at the high end.
LEMMA WeightFacts ==
  ASSUME NEW i \in Nat, NEW n \in Nat
  PROVE  /\ Weight(i, n, Base) = (IF IsOdd(i) THEN Base ELSE 1)
         /\ Weight(i, n, 1) = (IF IsOdd(i) /\ i # n THEN Base ELSE 1)
         /\ Weight(i, n, Base) = Weight(i, n, 1) \/ (IsOdd(i) /\ i = n)
         /\ Weight(i, n, Base) \in Nat /\ Weight(i, n, 1) \in Nat
BY OnesFacts DEF Weight

\* The terms of a sum of words are natural numbers, and so is the sum.
LEMMA WordSumNat ==
  ASSUME NEW buf \in Seq(Byte), NEW last \in {1, Base}
  PROVE  /\ [i \in 1..Len(buf) |-> buf[i] * Weight(i, Len(buf), last)] \in Seq(Nat)
         /\ WordSum(buf, last) \in Nat
<1> DEFINE n == Len(buf)
           s == [i \in 1..n |-> buf[i] * Weight(i, n, last)]
<1>1. n \in Nat
  OBVIOUS
<1>2. ASSUME NEW i \in 1..n PROVE buf[i] * Weight(i, n, last) \in Nat
  <2>1. buf[i] \in Nat
    <3>1. buf[i] \in Byte
      OBVIOUS
    <3> QED  BY <3>1, OnesFacts DEF Byte
  <2>2. Weight(i, n, last) \in Nat
    <3>1. i \in Nat
      BY <1>1
    <3>2. Weight(i, n, Base) \in Nat /\ Weight(i, n, 1) \in Nat
      BY <1>1, <3>1, WeightFacts
    <3> QED  BY <3>2
  <2> QED  BY <2>1, <2>2
<1>3. WordSum(buf, last) = SumSeq(s)
  BY DEF WordSum
<1> HIDE DEF n
<1>4. s \in Seq(Nat)
  BY <1>1, <1>2
<1> HIDE DEF s
<1>5. SumSeq(s) \in Nat
  BY <1>4, SumNat
<1> QED  BY <1>3, <1>4, <1>5 DEF s, n

\* A byte without a partner counts 1 in calc_checksum and Base for a receiver.
LEMMA LastByte ==
  ASSUME NEW buf \in Seq(Byte)
  PROVE  WordSum(buf, Base) = WordSum(buf, 1)
                              + (IF IsOdd(Len(buf)) THEN buf[Len(buf)] * (Base - 1) ELSE 0)
<1> DEFINE n == Len(buf)
           s == [i \in 1..n |-> buf[i] * Weight(i, n, Base)]
           t == [i \in 1..n |-> buf[i] * Weight(i, n, 1)]
           d == IF IsOdd(n) THEN buf[n] * (Base - 1) ELSE 0
<1>1. n \in Nat /\ Base \in Nat
  BY OnesFacts
<1>2. \A i \in 1..n : buf[i] \in Nat
  <2>1. \A i \in 1..n : buf[i] \in Byte
    OBVIOUS
  <2> QED  BY <2>1, OnesFacts DEF Byte
<1>3. WordSum(buf, Base) = SumSeq(s) /\ WordSum(buf, 1) = SumSeq(t)
  BY DEF WordSum
<1>4. s \in Seq(Nat) /\ t \in Seq(Nat)
  BY WordSumNat
<1> HIDE DEF n
<1>5. Len(s) = n /\ Len(t) = n /\ s \in Seq(Int) /\ t \in Seq(Int)
  BY <1>1, <1>4
<1>6. /\ \A i \in 1..n : s[i] = buf[i] * Weight(i, n, Base) /\ t[i] = buf[i] * Weight(i, n, 1)
  OBVIOUS
<1>7. /\ IsOdd(n) => n \in 1..n
      /\ d \in Int
  <2>1. IsOdd(n) => n # 0
    BY <1>1 DEF IsOdd
  <2>2. IsOdd(n) => n \in 1..n
    BY <1>1, <2>1
  <2>3. IsOdd(n) => buf[n] * (Base - 1) \in Int
    BY <1>1, <1>2, <2>2
  <2> QED  BY <2>2, <2>3
<1> HIDE DEF s, t
<1>8. PICK g \in [0..n -> Int] : /\ g[0] = 0 /\ \A i \in 1..n : g[i] = g[i - 1] + s[i]
                                /\ SumSeq(s) = g[n]
  BY <1>5, PartialSums
<1> DEFINE f == [i \in 0..n |-> IF i = n THEN g[n] - d ELSE g[i]]
<1>9. \A i \in 0..n : f[i] = (IF i = n THEN g[n] - d ELSE g[i]) /\ f[i] \in Int
  <2>1. \A i \in 0..n : g[i] \in Int
    OBVIOUS
  <2> HIDE DEF d
  <2> QED  BY <1>1, <1>7, <2>1
<1> HIDE DEF f
<1>10. ASSUME NEW i \in 1..n PROVE t[i] = f[i] - f[i - 1]
  <2>1. /\ i \in 0..n /\ i - 1 \in 0..n /\ i - 1 # n /\ g[i] = g[i - 1] + s[i]
        /\ g[i - 1] \in Int /\ i \in Nat
    BY <1>1, <1>8
  <2>2. f[i - 1] = g[i - 1] /\ f[i] = IF i = n THEN g[n] - d ELSE g[i]
    BY <1>9, <2>1
  <2>3. CASE IsOdd(i) /\ i = n
    <3>1. d = buf[i] * (Base - 1) /\ s[i] = buf[i] * Base /\ t[i] = buf[i] * 1
      BY <1>1, <1>6, <2>1, <2>3, WeightFacts
    <3> HIDE DEF d
    <3>2. buf[i] \in Nat /\ buf[i] * Base \in Int
      BY <1>1, <1>2
    <3>3. buf[i] * (Base - 1) = buf[i] * Base - buf[i]
      <4>1. \A x \in Nat : x * (Base - 1) = x * Base - x
        BY <1>1
      <4> QED  BY <3>2, <4>1
    <3>4. t[i] = s[i] - d /\ s[i] \in Int /\ d \in Int
      BY <1>1, <1>7, <3>1, <3>2, <3>3
    <3>5. f[i] = g[i - 1] + s[i] - d
      BY <2>1, <2>2, <2>3, <3>4
    <3> QED  BY <2>1, <2>2, <3>4, <3>5
  <2>4. CASE ~(IsOdd(i) /\ i = n)
    <3>1. Weight(i, n, Base) = Weight(i, n, 1) /\ Weight(i, n, 1) \in Nat
      BY <1>1, <2>1, <2>4, WeightFacts
    <3>2. t[i] = s[i] /\ s[i] \in Int
      <4>1. buf[i] * Weight(i, n, Base) \in Int
        BY <1>2, <3>1
      <4> QED  BY <1>6, <3>1, <4>1
    <3>3. f[i] = g[i]
      <4>1. i = n => d = 0
        BY <2>4
      <4> HIDE DEF d
      <4> QED  BY <2>1, <2>2, <3>2, <4>1
    <3> QED  BY <2>1, <2>2, <3>2, <3>3
  <2> QED  BY <2>3, <2>4
<1>11. SumSeq(t) = f[n] - f[0] /\ SumSeq(t) \in Int
  BY <1>5, <1>9, <1>10, Telescope
<1>12. f[n] = g[n] - d /\ f[0] = 0 /\ g[n] \in Int
  <2>1. n \in 0..n /\ 0 \in 0..n
    BY <1>1
  <2>2. n = 0 => d = 0
    BY DEF IsOdd
  <2> HIDE DEF d
  <2> QED  BY <1>8, <1>9, <2>1, <2>2
<1>13. SumSeq(s) = SumSeq(t) + d
  <2> HIDE DEF d
  <2> QED  BY <1>7, <1>8, <1>11, <1>12
<1> QED  BY <1>3, <1>13 DEF n

\* A buffer may be cut at a word: the words of the two parts are its words.
LEMMA WordSumSplit ==
  ASSUME NEW buf \in Seq(Byte), NEW h \in 0..Len(buf), ~IsOdd(h)
  PROVE  LET a == SubSeq(buf, 1, h)
             b == SubSeq(buf, h + 1, Len(buf))
         IN  /\ a \in Seq(Byte) /\ Len(a) = h
             /\ b \in Seq(Byte) /\ Len(b) = Len(buf) - h
             /\ WordSum(buf, Base) = WordSum(a, Base) + WordSum(b, Base)
<1> DEFINE n == Len(buf)
           m == n - h
           a == SubSeq(buf, 1, h)
           b == SubSeq(buf, h + 1, n)
           s == [i \in 1..n |-> buf[i] * Weight(i, n, Base)]
           t == [i \in 1..h |-> a[i] * Weight(i, h, Base)]
           u == [i \in 1..m |-> b[i] * Weight(i, m, Base)]
<1>1. n \in Nat /\ h \in Nat /\ h <= n /\ m \in Nat /\ m = n - h
  OBVIOUS
<1>2. a \in Seq(Byte) /\ Len(a) = h /\ \A i \in 1..h : a[i] = buf[i]
  BY <1>1
<1>3. b \in Seq(Byte) /\ Len(b) = m /\ \A i \in 1..m : b[i] = buf[h + i]
  BY <1>1
<1> HIDE DEF a, b
<1>4. WordSum(buf, Base) = SumSeq(s) /\ WordSum(a, Base) = SumSeq(t) /\ WordSum(b, Base) = SumSeq(u)
  BY <1>2, <1>3 DEF WordSum
<1>5. s \in Seq(Nat) /\ t \in Seq(Nat) /\ u \in Seq(Nat)
  BY <1>2, <1>3, WordSumNat
<1> HIDE DEF n, m
<1>6. /\ \A i \in 1..n : s[i] = buf[i] * Weight(i, n, Base)
      /\ \A i \in 1..h : t[i] = a[i] * Weight(i, h, Base)
      /\ \A i \in 1..m : u[i] = b[i] * Weight(i, m, Base)
  OBVIOUS
<1>7. /\ s \in Seq(Int) /\ t \in Seq(Int) /\ u \in Seq(Int)
      /\ Len(s) = n /\ Len(t) = h /\ Len(u) = m
  BY <1>1, <1>5
<1> HIDE DEF s, t, u
<1>8. \A i \in Nat : IsOdd(h + i) <=> IsOdd(i)
  BY <1>1 DEF IsOdd
<1>9. ASSUME NEW i \in 1..h PROVE i \in 1..n /\ t[i] = s[i]
  <2>1. i \in Nat /\ i \in 1..n
    BY <1>1
  <2>2. Weight(i, n, Base) = Weight(i, h, Base)
    <3>1. Weight(i, n, Base) = IF IsOdd(i) THEN Base ELSE 1
      BY ONLY <1>1, <2>1, WeightFacts
    <3>2. Weight(i, h, Base) = IF IsOdd(i) THEN Base ELSE 1
      BY ONLY <1>1, <2>1, WeightFacts
    <3> QED  BY ONLY <3>1, <3>2
  <2> QED  BY <1>2, <1>6, <2>1, <2>2
<1>10. ASSUME NEW i \in 1..m PROVE h + i \in 1..n /\ u[i] = s[h + i]
  <2>1. i \in Nat /\ h + i \in Nat /\ h + i \in 1..n
    BY <1>1
  <2>2. Weight(h + i, n, Base) = Weight(i, m, Base)
    <3>1. Weight(h + i, n, Base) = IF IsOdd(h + i) THEN Base ELSE 1
      BY ONLY <1>1, <2>1, WeightFacts
    <3>2. Weight(i, m, Base) = IF IsOdd(i) THEN Base ELSE 1
      BY ONLY <1>1, <2>1, WeightFacts
    <3> QED  BY ONLY <1>8, <2>1, <3>1, <3>2
  <2> QED  BY <1>3, <1>6, <2>1, <2>2
<1>11. PICK g \in [0..n -> Int] : /\ g[0] = 0 /\ \A i \in 1..n : g[i] = g[i - 1] + s[i]
                                 /\ SumSeq(s) = g[n]
  BY <1>7, PartialSums
<1>12. /\ \A i \in 1..n : s[i] \in Int
       /\ \A i \in 0..n : g[i] \in Int
  <2>1. \A i \in 1..n : s[i] \in Int
    BY ONLY <1>7
  <2> QED  BY <2>1
<1>13. SumSeq(t) = g[h] - g[0]
  <2>1. \A i \in 0..h : g[i] \in Int
    BY <1>1, <1>12
  <2>2. ASSUME NEW i \in 1..h PROVE t[i] = g[i] - g[i - 1]
    <3>1. i \in 1..n /\ i - 1 \in 0..n
      BY <1>1
    <3>2. g[i] = g[i - 1] + s[i] /\ g[i - 1] \in Int /\ s[i] \in Int /\ t[i] = s[i]
      BY <1>9, <1>11, <1>12, <3>1
    <3> QED  BY <3>2
  <2> QED  BY <1>7, <2>1, <2>2, Telescope
<1>14. SumSeq(u) = g[n] - g[h]
  <2> DEFINE f == [i \in 0..m |-> g[h + i]]
  <2>1. \A i \in 0..m : f[i] = g[h + i] /\ h + i \in 0..n
    BY <1>1
  <2> HIDE DEF f
  <2>2. \A i \in 0..m : f[i] \in Int
    BY <1>12, <2>1
  <2>3. ASSUME NEW i \in 1..m PROVE u[i] = f[i] - f[i - 1]
    <3>1. /\ i \in 0..m /\ i - 1 \in 0..m /\ h + i \in 1..n /\ h + (i - 1) = (h + i) - 1
          /\ (h + i) - 1 \in 0..n
      BY <1>1
    <3>2. g[h + i] = g[(h + i) - 1] + s[h + i]
      BY <1>11, <3>1
    <3>3. f[i] = g[h + i] /\ f[i - 1] = g[(h + i) - 1] /\ u[i] = s[h + i]
      BY <1>10, <2>1, <3>1
    <3>4. g[(h + i) - 1] \in Int /\ s[h + i] \in Int
      BY <1>12, <3>1
    <3> QED  BY <3>2, <3>3, <3>4
  <2>4. SumSeq(u) = f[m] - f[0]
    BY <1>7, <2>2, <2>3, Telescope
  <2>5. f[m] = g[n] /\ f[0] = g[h]
    <3>1. m \in 0..m /\ 0 \in 0..m /\ h + m = n /\ h + 0 = h
      BY <1>1
    <3> QED  BY <2>1, <3>1
  <2> QED  BY <2>4, <2>5
<1>15. SumSeq(s) = SumSeq(t) + SumSeq(u)
  <2>1. h \in 0..n /\ n \in 0..n
    BY <1>1
  <2>2. g[h] \in Int /\ g[n] \in Int
    BY <1>12, <2>1
  <2> QED  BY <1>11, <1>13, <1>14, <2>2
<1> QED  BY <1>2, <1>3, <1>4, <1>15 DEF n, m, a, b

\* Zeros add up to 0, and an empty buffer does.
LEMMA WordSumZero ==
  ASSUME NEW buf \in Seq(Byte), \A i \in 1..Len(buf) : buf[i] = 0
  PROVE  WordSum(buf, Base) = 0
<1> DEFINE n == Len(buf)
           s == [i \in 1..n |-> buf[i] * Weight(i, n, Base)]
           f == [i \in 0..n |-> 0]
<1>1. n \in Nat /\ \A i \in 1..n : buf[i] = 0
  OBVIOUS
<1>2. WordSum(buf, Base) = SumSeq(s)
  BY DEF WordSum
<1>3. s \in Seq(Nat)
  BY WordSumNat
<1> HIDE DEF n
<1>4. ASSUME NEW i \in 1..n PROVE s[i] = 0
  <2>0. i \in Nat
    BY <1>1
  <2>1. s[i] = buf[i] * Weight(i, n, Base) /\ Weight(i, n, Base) \in Nat
    BY <1>1, <2>0, WeightFacts
  <2> HIDE DEF s
  <2> QED  BY <1>1, <2>1
<1>5. s \in Seq(Int) /\ Len(s) = n
  BY <1>1, <1>3
<1>6. \A i \in 0..n : f[i] = 0
  OBVIOUS
<1> HIDE DEF s, f
<1>7. (\A i \in 0..n : f[i] \in Int) /\ (\A i \in 1..n : s[i] = f[i] - f[i - 1])
  BY <1>1, <1>4, <1>6
<1>8. SumSeq(s) = f[n] - f[0]
  BY <1>5, <1>7, Telescope
<1>9. f[n] = 0 /\ f[0] = 0
  BY <1>1, <1>6
<1> QED  BY <1>2, <1>8, <1>9

-----------------------------------------------------------------------------
(* The checksums *)

\* The buffer is a sequence of bytes.
BufferOK == buffer \in Seq(Byte)

\* BufferOK holds in every state.
LEMMA BufferInvariant == Spec => []BufferOK
<1>1. Init => BufferOK
  BY DEF Init, BufferOK
<1>2. BufferOK /\ [Next]_buffer => BufferOK'
  BY DEF Next, BufferOK
<1> QED  BY <1>1, <1>2, PTL DEF Spec

\* The complement of a sum's residue completes it to a multiple of Ones.
LEMMA Completed ==
  ASSUME NEW s \in Nat
  PROVE  /\ Ones - Residue(s) \in 0..Ones
         /\ \E j \in Nat \ {0} : s + (Ones - Residue(s)) = j * Ones
<1> DEFINE m == Ones
           r == Residue(s)
<1>0. m \in Nat \ {0}
  BY OnesFacts
<1>1. r \in 0..m
  BY ResidueFacts
<1>2. PICK k \in Nat : s = r + k * m
  BY ResidueFacts
<1> HIDE DEF m, r
<1>3. (k + 1) * m = k * m + m /\ k * m \in Nat
  BY <1>0
<1>4. m - r \in 0..m
  BY <1>0, <1>1
<1>5. s + (m - r) = (k + 1) * m
  BY <1>0, <1>1, <1>2, <1>3
<1>6. k + 1 \in Nat \ {0}
  OBVIOUS
<1>7. \E j \in Nat \ {0} : s + (m - r) = j * m
  BY <1>5, <1>6
<1> QED  BY <1>4, <1>7 DEF m, r

\* What a receiver makes of a sum that is d more than a multiple of Ones.
LEMMA Accepted ==
  ASSUME NEW j \in Nat \ {0}, NEW d \in Nat
  PROVE  (j * Ones + d # 0 /\ (j * Ones + d) % Ones = 0) <=> d % Ones = 0
<1> DEFINE m == Ones
           q == d \div m
           t == d % m
<1>0. m \in Nat \ {0}
  BY OnesFacts
<1> HIDE DEF m
<1>1. q \in Int /\ t \in 0..m - 1 /\ d = m * q + t
  BY <1>0
<1> HIDE DEF q, t
<1>2. m * q \in Int /\ j * m \in Int /\ j * m > 0 /\ j * m + m * q = (j + q) * m /\ j + q \in Int
  BY <1>0, <1>1
<1>3. j * m + d = (j + q) * m + t /\ j * m + d # 0
  BY <1>0, <1>1, <1>2
<1>4. \A k \in Int : (k * m + t) % m = t
  BY <1>0, <1>1, ModUnique
<1>5. (j * m + d) % m = t
  BY <1>2, <1>3, <1>4
<1> QED  BY <1>3, <1>5 DEF m, t

\* The words of a buffer and of what follows it, with the checksum of the
\* buffer: a receiver accepts them when what follows is a multiple of Ones.
LEMMA AcceptedRest ==
  ASSUME NEW s \in Nat, NEW d \in Nat
  PROVE  (s + d + (Ones - Residue(s)) # 0 /\ (s + d + (Ones - Residue(s))) % Ones = 0)
           <=> d % Ones = 0
<1> DEFINE c == Ones - Residue(s)
<1>1. PICK j \in Nat \ {0} : s + c = j * Ones
  BY Completed
<1>2. c \in Int
  BY OnesFacts, Completed
<1> HIDE DEF c
<1>3. s + d + c = j * Ones + d
  <2>1. j * Ones \in Int
    BY OnesFacts
  <2> QED  BY <1>1, <1>2, <2>1
<1>4. (j * Ones + d # 0 /\ (j * Ones + d) % Ones = 0) <=> d % Ones = 0
  BY Accepted
<1> QED  BY <1>3, <1>4 DEF c

\* The remainders of 0 and of numbers below Ones.
LEMMA SmallMod ==
  ASSUME NEW d \in 0..Ones - 1
  PROVE  d % Ones = d
<1> DEFINE m == Ones
<1>0. m \in Nat \ {0} /\ d \in 0..m - 1 /\ d \in Int
  BY OnesFacts
<1> HIDE DEF m
<1>1. (0 * m + d) % m = d
  BY <1>0, ModUnique
<1>2. 0 * m + d = d
  BY <1>0
<1> QED  BY <1>1, <1>2 DEF m

\* A receiver accepts what calc_checksum yields for every buffer of even
\* length, and for one of odd length exactly when its last byte is 0: for
\* buffers of every length and bytes of every base.
THEOREM AcceptedUnlessOddAlways == Spec => []AcceptedUnlessOdd
<1>1. ASSUME BufferOK PROVE AcceptedUnlessOdd
  <2> DEFINE n == Len(buffer)
             s == WordSum(buffer, 1)
             d == IF IsOdd(n) THEN buffer[n] * (Base - 1) ELSE 0
  <2>1. buffer \in Seq(Byte) /\ n \in Nat
    BY <1>1 DEF BufferOK
  <2>2. s \in Nat
    BY <2>1, WordSumNat
  <2>3. WordSum(buffer, Base) = s + d
    BY <2>1, LastByte
  <2>4. calc_checksum(buffer) = Ones - Residue(s)
    BY <2>2, ReduceResidue DEF calc_checksum
  <2>5. d \in 0..Ones - 1 /\ (d = 0 <=> ~IsOdd(n) \/ buffer[n] = 0)
    <3>1. CASE IsOdd(n)
      <4>1. n # 0
        BY <3>1 DEF IsOdd
      <4>2. n \in 1..n
        BY <2>1, <4>1
      <4>3. buffer[n] \in Byte
        BY <2>1, <4>2
      <4> QED  BY <3>1, <4>3, OnesFacts
    <3>2. CASE ~IsOdd(n)
      BY <3>2, OnesFacts
    <3> QED  BY <3>1, <3>2
  <2> HIDE DEF s, d
  <2>6. d \in Nat /\ d % Ones = d
    BY <2>5, SmallMod
  <2>7. Verifies(buffer, Ones - Residue(s)) <=> d % Ones = 0
    BY <2>2, <2>3, <2>6, AcceptedRest DEF Verifies
  <2>8. Verifies(buffer, calc_checksum(buffer)) <=> ~IsOdd(n) \/ buffer[n] = 0
    BY <2>4, <2>5, <2>6, <2>7
  <2> QED  BY <2>8 DEF AcceptedUnlessOdd
<1> QED  BY <1>1, BufferInvariant, PTL

\* calculateUdpChecksum and the rest of a packet: a receiver accepts them when
\* the words of the rest are a multiple of Ones.
LEMMA UdpRest ==
  ASSUME NEW buf \in Seq(Byte), NEW d \in Nat
  PROVE  LET sum == WordSum(buf, Base) + d + calculateUdpChecksum(buf)
         IN  (sum # 0 /\ sum % Ones = 0) <=> d % Ones = 0
<1> DEFINE s == WordSum(buf, Base)
           c == Ones - Residue(s)
           u == calculateUdpChecksum(buf)
<1>0. Ones \in Nat \ {0}
  BY OnesFacts
<1>1. s \in Nat
  BY WordSumNat
<1>2. u = IF c = 0 THEN Ones ELSE c
  BY <1>1, FoldResidue DEF calculateUdpChecksum
<1>3. (s + d + c # 0 /\ (s + d + c) % Ones = 0) <=> d % Ones = 0
  BY <1>1, AcceptedRest
<1>4. c \in 0..Ones
  BY <1>1, Completed
<1>5. PICK j \in Nat \ {0} : s + c = j * Ones
  BY <1>1, Completed
<1> HIDE DEF s, c, u
<1>6. CASE c # 0
  BY <1>2, <1>3, <1>6 DEF s, u
<1>7. CASE c = 0
  <2>1. (j + 1) * Ones = j * Ones + Ones /\ j * Ones \in Int /\ j + 1 \in Nat \ {0}
    BY <1>0
  <2>2. u = Ones
    BY <1>2, <1>7
  <2>3. s + d + u = (j + 1) * Ones + d
    BY <1>0, <1>1, <1>5, <1>7, <2>1, <2>2
  <2>4. \A k \in Nat \ {0} : (k * Ones + d # 0 /\ (k * Ones + d) % Ones = 0) <=> d % Ones = 0
    BY Accepted
  <2> QED  BY <2>1, <2>3, <2>4 DEF s, u
<1> QED  BY <1>6, <1>7

\* A receiver accepts the UDP checksums of both clients, for payloads of even
\* and of odd length: calculateUdpChecksum's of a complete packet, and that of
\* the gateway's send_udp_ex wherever, at a word, the payload begins.
THEOREM UdpVerifiesAlways == Spec => []UdpVerifies
<1>1. ASSUME BufferOK PROVE UdpVerifies
  <2> DEFINE s == WordSum(buffer, Base)
  <2>1. buffer \in Seq(Byte) /\ s \in Nat
    BY <1>1, WordSumNat DEF BufferOK
  <2>2. 0 % Ones = 0 /\ 0 \in Nat
    BY OnesFacts, SmallMod
  <2>3. Verifies(buffer, calculateUdpChecksum(buffer))
    <3> DEFINE u == calculateUdpChecksum(buffer)
    <3>1. s + 0 + u # 0 /\ (s + 0 + u) % Ones = 0
      BY <2>1, <2>2, UdpRest
    <3>2. s + 0 = s
      BY <2>1
    <3> HIDE DEF s, u
    <3>3. s + u # 0 /\ (s + u) % Ones = 0
      BY <3>1, <3>2
    <3> QED  BY <3>3 DEF Verifies, s, u
  <2>4. ASSUME NEW h \in 0..Len(buffer), ~IsOdd(h)
        PROVE  Verifies(buffer, send_udp_ex(h, buffer))
    <3> DEFINE a == SubSeq(buffer, 1, h)
               b == SubSeq(buffer, h + 1, Len(buffer))
               parts == <<a, b>>
               x == WordSum(a, Base)
               y == WordSum(b, Base)
    <3>1. a \in Seq(Byte) /\ b \in Seq(Byte) /\ s = x + y
      BY <2>1, <2>4, WordSumSplit
    <3>2. x \in Nat /\ y \in Nat
      BY <3>1, WordSumNat
    <3>3. send_udp_ex(h, buffer) = calc_payload_checksum(parts)
      BY DEF send_udp_ex
    <3> HIDE DEF a, b, s
    <3>4. [i \in 1..Len(parts) |-> WordSum(parts[i], Base)] = <<x, y>>
      OBVIOUS
    <3>5. SumSeq(<<x, y>>) = x + y
      BY <3>2, SumTwo
    <3>6. calc_payload_checksum(parts) = Ones - Reduce[x + y]
      BY <3>4, <3>5 DEF calc_payload_checksum
    <3> HIDE DEF x, y, parts
    <3>7. send_udp_ex(h, buffer) = Ones - Residue(s)
      BY <2>1, <3>1, <3>3, <3>6, ReduceResidue
    <3>8. s + 0 + (Ones - Residue(s)) # 0 /\ (s + 0 + (Ones - Residue(s))) % Ones = 0
      BY <2>1, <2>2, AcceptedRest
    <3>9. s + 0 = s
      BY <2>1
    <3>10. s + (Ones - Residue(s)) # 0 /\ (s + (Ones - Residue(s))) % Ones = 0
      BY <3>8, <3>9
    <3> QED  BY <3>7, <3>10 DEF Verifies, s
  <2> QED  BY <2>3, <2>4 DEF UdpVerifies
<1> QED  BY <1>1, BufferInvariant, PTL

\* The checksum of buildRawUdpPacket leaves the payload out: a receiver accepts
\* the packet exactly when the words of the payload add up to a multiple of
\* Ones, for every packet.
THEOREM PayloadLeftOutAlways == Spec => []PayloadLeftOut
<1>1. ASSUME BufferOK PROVE PayloadLeftOut
  <2> DEFINE n == Len(buffer)
             head == [i \in DOMAIN buffer |-> IF i <= 2 THEN buffer[i] ELSE 0]
             rest == SubSeq(buffer, 3, n)
  <2>1. buffer \in Seq(Byte) /\ n \in Nat /\ DOMAIN buffer = 1..n
    BY <1>1 DEF BufferOK
  <2>2. \A i \in 1..n : buffer[i] \in Byte
    BY <2>1
  <2>3. 0 \in Byte
    BY OnesFacts DEF Byte
  <2>4. /\ head \in Seq(Byte) /\ Len(head) = n
        /\ \A i \in 1..n : head[i] = IF i <= 2 THEN buffer[i] ELSE 0
    <3> HIDE DEF n
    <3> QED  BY <2>1, <2>2, <2>3
  <2>5. buildRawUdpPacket_checksum(buffer) = calculateUdpChecksum(head)
    BY DEF buildRawUdpPacket_checksum
  <2> HIDE DEF head
  <2>6. rest \in Seq(Byte) /\ WordSum(buffer, Base) = WordSum(head, Base) + WordSum(rest, Base)
    <3>1. CASE n < 2
      <4>1. rest = <<>>
        BY <2>1, <3>1
      <4>2. rest \in Seq(Byte) /\ WordSum(rest, Base) = 0
        <5> HIDE DEF rest
        <5>1. rest \in Seq(Byte) /\ \A i \in 1..Len(rest) : rest[i] = 0
          BY <4>1
        <5> QED  BY <5>1, WordSumZero
      <4>3. head = buffer
        BY <2>1, <2>4, <3>1
      <4>4. WordSum(buffer, Base) \in Nat
        BY <2>1, WordSumNat
      <4> QED  BY <4>2, <4>3, <4>4
    <3>2. CASE n >= 2
      <4> DEFINE a == SubSeq(buffer, 1, 2)
                 b == SubSeq(head, 1, 2)
                 z == SubSeq(head, 3, n)
      <4>1. 2 \in 0..n /\ ~IsOdd(2) /\ 2 + 1 = 3
        BY <2>1, <3>2 DEF IsOdd
      <4>2. rest \in Seq(Byte) /\ WordSum(buffer, Base) = WordSum(a, Base) + WordSum(rest, Base)
        BY <2>1, <4>1, WordSumSplit
      <4>3. /\ b \in Seq(Byte) /\ z \in Seq(Byte) /\ Len(z) = n - 2
            /\ WordSum(head, Base) = WordSum(b, Base) + WordSum(z, Base)
        BY <2>4, <4>1, WordSumSplit
      <4>4. a = b
        BY <2>1, <2>4, <3>2
      <4>5. \A i \in 1..n - 2 : z[i] = 0
        BY <2>1, <2>4, <3>2
      <4> HIDE DEF a, b, z
      <4>6. WordSum(z, Base) = 0 /\ WordSum(b, Base) \in Nat
        <5>1. \A i \in 1..Len(z) : z[i] = 0
          BY <4>3, <4>5
        <5>2. WordSum(z, Base) = 0
          BY <4>3, <5>1, WordSumZero
        <5> QED  BY <4>3, <5>2, WordSumNat
      <4> QED  BY <4>2, <4>3, <4>4, <4>6
    <3> QED  BY <2>1, <3>1, <3>2
  <2>7. WordSum(rest, Base) \in Nat
    BY <2>6, WordSumNat
  <2> DEFINE d == WordSum(rest, Base)
             sum == WordSum(head, Base) + d + calculateUdpChecksum(head)
  <2>8. (sum # 0 /\ sum % Ones = 0) <=> d % Ones = 0
    BY <2>4, <2>7, UdpRest
  <2>9. Verifies(buffer, buildRawUdpPacket_checksum(buffer)) <=> d % Ones = 0
    BY <2>5, <2>6, <2>8 DEF Verifies
  <2> QED  BY <2>9 DEF PayloadLeftOut
<1> QED  BY <1>1, BufferInvariant, PTL

=============================================================================
