------------------------------ MODULE CanalProofs ------------------------------
(***************************************************************************)
(* The invariants of CanalProps, and the steps of ImplementaCola, for      *)
(* every set of messages and every way the network cuts them.  Bytes is    *)
(* Seq(Byte) and ++ is \o, left unexpanded where only their laws are used. *)
(***************************************************************************)
EXTENDS CanalProps, FiniteSetTheorems, SequenceTheorems, TLAPS

-----------------------------------------------------------------------------
(* Induction over the naturals.  A set has a least element because its     *)
(* initial segments are finite, and strict inclusion of finite sets is     *)
(* well-founded; an induction hypothesis is then a subset of Nat.          *)

\* A set of naturals that is not empty has a least element.
LEMMA Minimo ==
  ASSUME NEW T \in SUBSET Nat, T # {}
  PROVE  \E x \in T : \A y \in T : x <= y
<1> DEFINE F == {0..n : n \in T}
<1>1. F \subseteq FiniteSubsetsOf(Nat) /\ F # {}
  <2>1. ASSUME NEW n \in T PROVE 0..n \in SUBSET Nat /\ IsFiniteSet(0..n)
    <3>1. 0 \in Int /\ n \in Int
      OBVIOUS
    <3>2. IsFiniteSet(0..n)
      BY <3>1, FS_Interval
    <3> QED
      BY <3>2
  <2> QED
    BY <2>1 DEF FiniteSubsetsOf
<1>2. PICK f \in F : \A g \in F : <<g, f>> \notin StrictSubsetOrdering(Nat)
  <2> HIDE DEF F
  <2> QED
    BY <1>1, WFMin, FS_StrictSubsetOrderingWellFounded
<1>3. PICK x \in T : f = 0..x
  OBVIOUS
<1>4. ASSUME NEW y \in T, ~(x <= y) PROVE FALSE
  <2>1. /\ 0..y \in SUBSET Nat /\ 0..x \in SUBSET Nat
        /\ 0..y \subseteq 0..x /\ 0..y # 0..x
    BY <1>3, <1>4
  <2>2. 0..y \in F
    OBVIOUS
  <2> QED
    BY <1>2, <1>3, <2>1, <2>2 DEF StrictSubsetOrdering
<1> QED
  BY <1>4

\* Induction, for a set of naturals.
LEMMA Induccion ==
  ASSUME NEW S \in SUBSET Nat, 0 \in S, \A n \in Nat : n \in S => n + 1 \in S
  PROVE  \A n \in Nat : n \in S
<1> SUFFICES ASSUME Nat \ S # {} PROVE FALSE
  OBVIOUS
<1>1. PICK x \in Nat \ S : \A y \in Nat \ S : x <= y
  BY Minimo
<1>2. x \in Nat /\ x # 0 /\ x \notin S
  BY <1>1
<1>3. x - 1 \in Nat /\ ~(x <= x - 1) /\ (x - 1) + 1 = x
  BY <1>2
<1>4. x - 1 \in S
  BY <1>1, <1>3
<1> QED
  BY <1>2, <1>3, <1>4

-----------------------------------------------------------------------------
(* Sequences of bytes, and FlattenSeq, which concatenates a sequence of    *)
(* them.                                                                   *)

Bytes == Seq(Byte)

\* The laws of concatenation for bytes.
LEMMA Concatenacion ==
  /\ \A a, b, c \in Bytes : (a \o b) \o c = a \o (b \o c)
  /\ \A a \in Bytes : a \o <<>> = a /\ <<>> \o a = a
  /\ \A a, b \in Bytes : a \o b \in Bytes
  /\ <<>> \in Bytes
<1>1. ASSUME NEW a \in Seq(Byte), NEW b \in Seq(Byte), NEW c \in Seq(Byte)
      PROVE  (a \o b) \o c = a \o (b \o c)
  BY ConcatAssociative
<1>2. ASSUME NEW a \in Seq(Byte) PROVE a \o <<>> = a /\ <<>> \o a = a
  BY ConcatEmptySeq
<1>3. ASSUME NEW a \in Seq(Byte), NEW b \in Seq(Byte) PROVE a \o b \in Seq(Byte)
  OBVIOUS
<1> QED
  BY <1>1, <1>2, <1>3 DEF Bytes

\* f[i] is the concatenation of the first i.
EsPrefijo(f, s, n) == \A i \in 1..n : f[i] = IF i = 1 THEN s[i] ELSE f[i - 1] \o s[i]

\* There is such a function for any pieces.
LEMMA HayPrefijo ==
  ASSUME NEW k \in Nat, NEW s \in [1..k -> Bytes]
  PROVE  \E f \in [1..k -> Bytes] : EsPrefijo(f, s, k)
<1> DEFINE S == {n \in Nat : n <= k => \E f \in [1..n -> Bytes] : EsPrefijo(f, s, n)}
<1>1. 0 \in S
  <2> DEFINE f == [i \in 1..0 |-> <<>>]
  <2>1. f \in [1..0 -> Bytes]
    OBVIOUS
  <2>2. EsPrefijo(f, s, 0)
    BY DEF EsPrefijo
  <2> QED
    BY <2>1, <2>2
<1>2. ASSUME NEW n \in Nat, n \in S PROVE n + 1 \in S
  <2> SUFFICES ASSUME n + 1 <= k
               PROVE  \E f \in [1..(n + 1) -> Bytes] : EsPrefijo(f, s, n + 1)
    OBVIOUS
  <2>1. PICK f \in [1..n -> Bytes] : EsPrefijo(f, s, n)
    BY <1>2
  <2> DEFINE ult == IF n = 0 THEN s[1] ELSE f[n] \o s[n + 1]
             g == [i \in 1..(n + 1) |-> IF i = n + 1 THEN ult ELSE f[i]]
  <2>2. ult \in Bytes
    BY Concatenacion
  <2>3. g \in [1..(n + 1) -> Bytes]
    BY <2>2
  <2>4. ASSUME NEW i \in 1..(n + 1) PROVE g[i] = IF i = 1 THEN s[i] ELSE g[i - 1] \o s[i]
    <3>1. CASE i = n + 1
      <4>1. i # 1 => i - 1 \in 1..n /\ g[i - 1] = f[n] /\ n # 0
        BY <3>1
      <4>2. g[i] = ult
        BY <3>1
      <4> QED
        BY <3>1, <4>1, <4>2
    <3>2. CASE i # n + 1
      <4>1. i \in 1..n /\ (i # 1 => i - 1 \in 1..n)
        BY <3>2
      <4>2. g[i] = f[i] /\ (i # 1 => g[i - 1] = f[i - 1])
        BY <3>2, <4>1
      <4>3. f[i] = IF i = 1 THEN s[i] ELSE f[i - 1] \o s[i]
        BY <2>1, <4>1 DEF EsPrefijo
      <4> QED
        BY <4>1, <4>2, <4>3
    <3> QED
      BY <3>1, <3>2
  <2> HIDE DEF g
  <2>5. EsPrefijo(g, s, n + 1)
    BY <2>4 DEF EsPrefijo
  <2> QED
    BY <2>3, <2>5
<1> HIDE DEF S
<1>3. \A n \in Nat : n \in S
  <2>1. S \in SUBSET Nat
    BY DEF S
  <2> QED
    BY <1>1, <1>2, <2>1, Induccion
<1> QED
  BY <1>3 DEF S

\* The recursive function of FlattenSeq exists, and is that one.
LEMMA FlattenPrefijo ==
  ASSUME NEW k \in Nat \ {0}, NEW s \in [1..k -> Bytes]
  PROVE  \E f \in [1..k -> Bytes] : EsPrefijo(f, s, k) /\ FlattenSeq(s) = f[k]
<1> DEFINE R(f) == f = [i \in 1..k |-> IF i = 1 THEN s[i] ELSE f[i - 1] \o s[i]]
           g == CHOOSE f : R(f)
           S == {n \in Nat : n + 1 <= k => g[n + 1] \in Bytes}
<1>0. Len(s) = k
  OBVIOUS
<1>1. \E f : R(f)
  <2> HIDE DEF R, g, S
  <2>1. PICK f \in [1..k -> Bytes] : EsPrefijo(f, s, k)
    BY HayPrefijo
  <2>2. R(f)
    BY <2>1 DEF EsPrefijo, R
  <2> QED
    BY <2>2
<1>2. R(g)
  <2> HIDE DEF R
  <2> QED
    BY <1>1
<1>3. FlattenSeq(s) = g[k]
  BY <1>0 DEF FlattenSeq
<1> HIDE DEF g
<1>4. EsPrefijo(g, s, k)
  BY <1>2 DEF EsPrefijo
<1>5. g = [i \in 1..k |-> g[i]]
  <2>1. PICK e : e = [i \in 1..k |-> IF i = 1 THEN s[i] ELSE g[i - 1] \o s[i]]
    OBVIOUS
  <2>2. g = [i \in 1..k |-> e[i]]
    BY <1>2, <2>1
  <2> QED
    BY <2>2
<1>6. 0 \in S
  BY <1>4 DEF EsPrefijo
<1>7. ASSUME NEW n \in Nat, n \in S PROVE n + 1 \in S
  <2> SUFFICES ASSUME n + 2 <= k PROVE g[n + 2] \in Bytes
    OBVIOUS
  <2>1. g[n + 1] \in Bytes
    BY <1>7
  <2>2. n + 2 \in 1..k /\ n + 2 # 1 /\ (n + 2) - 1 = n + 1 /\ s[n + 2] \in Bytes
    OBVIOUS
  <2>3. g[n + 2] = g[n + 1] \o s[n + 2]
    BY <1>4, <2>2 DEF EsPrefijo
  <2> QED
    BY <2>1, <2>2, <2>3, Concatenacion
<1>8. \A i \in 1..k : g[i] \in Bytes
  <2>1. \A n \in Nat : n \in S
    <3> HIDE DEF S
    <3>1. S \in SUBSET Nat
      BY DEF S
    <3> QED
      BY <1>6, <1>7, <3>1, Induccion
  <2> TAKE i \in 1..k
  <2>2. i - 1 \in Nat /\ (i - 1) + 1 = i
    OBVIOUS
  <2> QED
    BY <2>1, <2>2
<1>9. g \in [1..k -> Bytes]
  BY <1>5, <1>8
<1> QED
  BY <1>3, <1>4, <1>9

\* There is only one.
LEMMA PrefijoUnico ==
  ASSUME NEW k \in Nat \ {0}, NEW s, NEW f, NEW g, EsPrefijo(f, s, k), EsPrefijo(g, s, k)
  PROVE  f[k] = g[k]
<1> DEFINE S == {n \in Nat : n + 1 <= k => f[n + 1] = g[n + 1]}
<1>1. 0 \in S
  BY DEF EsPrefijo
<1>2. ASSUME NEW n \in Nat, n \in S PROVE n + 1 \in S
  <2> SUFFICES ASSUME n + 2 <= k PROVE f[n + 2] = g[n + 2]
    OBVIOUS
  <2>1. f[n + 1] = g[n + 1]
    BY <1>2
  <2>2. n + 2 \in 1..k /\ n + 2 # 1 /\ (n + 2) - 1 = n + 1
    OBVIOUS
  <2>3. f[n + 2] = f[n + 1] \o s[n + 2] /\ g[n + 2] = g[n + 1] \o s[n + 2]
    BY <2>2 DEF EsPrefijo
  <2> QED
    BY <2>1, <2>3
<1> HIDE DEF S
<1>3. \A n \in Nat : n \in S
  <2>1. S \in SUBSET Nat
    BY DEF S
  <2> QED
    BY <1>1, <1>2, <2>1, Induccion
<1>4. k - 1 \in Nat /\ (k - 1) + 1 = k /\ k <= k
  OBVIOUS
<1> QED
  BY <1>3, <1>4 DEF S

\* FlattenSeq of nothing.
LEMMA FlattenVacio == FlattenSeq([j \in 1..0 |-> <<>>]) = <<>>
<1>1. Len([j \in 1..0 |-> <<>>]) = 0 /\ [j \in 1..0 |-> <<>>] = <<>>
  OBVIOUS
<1> QED
  BY <1>1 DEF FlattenSeq

\* FlattenSeq of pieces of bytes is bytes.
LEMMA FlattenBytes ==
  ASSUME NEW k \in Nat, NEW s \in [1..k -> Bytes]
  PROVE  FlattenSeq(s) \in Bytes
<1>1. CASE k = 0
  <2>1. s = [j \in 1..0 |-> <<>>]
    BY <1>1
  <2> QED
    BY <2>1, FlattenVacio, Concatenacion
<1>2. CASE k # 0
  BY <1>2, FlattenPrefijo
<1> QED
  BY <1>1, <1>2

\* The last piece goes last.
LEMMA FlattenUltimo ==
  ASSUME NEW k \in Nat, NEW s \in [1..(k + 1) -> Bytes]
  PROVE  FlattenSeq(s) = FlattenSeq([j \in 1..k |-> s[j]]) \o s[k + 1]
<1> DEFINE r == [j \in 1..k |-> s[j]]
<1>1. PICK f \in [1..(k + 1) -> Bytes] : EsPrefijo(f, s, k + 1) /\ FlattenSeq(s) = f[k + 1]
  BY FlattenPrefijo
<1>2. r \in [1..k -> Bytes] /\ s[k + 1] \in Bytes
  OBVIOUS
<1>3. CASE k = 0
  <2>1. r = [j \in 1..0 |-> <<>>]
    BY <1>3
  <2>2. FlattenSeq(r) = <<>>
    BY <2>1, FlattenVacio
  <2>3. FlattenSeq(s) = s[k + 1]
    BY <1>1, <1>3 DEF EsPrefijo
  <2> HIDE DEF r
  <2>4. <<>> \o s[k + 1] = s[k + 1]
    BY <1>2, Concatenacion
  <2> QED
    BY <2>2, <2>3, <2>4 DEF r
<1>4. CASE k # 0
  <2>1. EsPrefijo(f, r, k)
    <3>1. ASSUME NEW i \in 1..k PROVE f[i] = IF i = 1 THEN r[i] ELSE f[i - 1] \o r[i]
      <4>1. i \in 1..(k + 1) /\ r[i] = s[i]
        OBVIOUS
      <4> QED
        BY <1>1, <4>1 DEF EsPrefijo
    <3> QED
      BY <3>1 DEF EsPrefijo
  <2> HIDE DEF r
  <2>2. PICK g \in [1..k -> Bytes] : EsPrefijo(g, r, k) /\ FlattenSeq(r) = g[k]
    BY <1>2, <1>4, FlattenPrefijo
  <2>3. g[k] = f[k]
    BY <1>4, <2>1, <2>2, PrefijoUnico
  <2>4. k + 1 \in 1..(k + 1) /\ k + 1 # 1 /\ (k + 1) - 1 = k
    BY <1>4
  <2>5. f[k + 1] = f[k] \o s[k + 1]
    BY <1>1, <2>4 DEF EsPrefijo
  <2> QED
    BY <1>1, <2>2, <2>3, <2>5 DEF r
<1> QED
  BY <1>3, <1>4

\* And the first piece, first.
LEMMA FlattenPrimero ==
  ASSUME NEW k \in Nat, NEW s \in [1..(k + 1) -> Bytes]
  PROVE  FlattenSeq(s) = s[1] \o FlattenSeq([j \in 1..k |-> s[j + 1]])
<1> DEFINE P(t, n) == FlattenSeq(t) = t[1] \o FlattenSeq([j \in 1..n |-> t[j + 1]])
           S == {n \in Nat : \A t \in [1..(n + 1) -> Bytes] : P(t, n)}
<1>1. 0 \in S
  <2> SUFFICES ASSUME NEW t \in [1..(0 + 1) -> Bytes] PROVE P(t, 0)
    OBVIOUS
  <2>1. /\ [j \in 1..0 |-> t[j]] = [j \in 1..0 |-> <<>>]
        /\ [j \in 1..0 |-> t[j + 1]] = [j \in 1..0 |-> <<>>]
        /\ t[0 + 1] = t[1] /\ t[1] \in Bytes
    OBVIOUS
  <2>2. FlattenSeq(t) = FlattenSeq([j \in 1..0 |-> t[j]]) \o t[0 + 1]
    BY FlattenUltimo
  <2>3. FlattenSeq(t) = <<>> \o t[1]
    BY <2>1, <2>2, FlattenVacio
  <2>4. <<>> \o t[1] = t[1] \o <<>>
    BY <2>1, Concatenacion
  <2> QED
    BY <2>1, <2>3, <2>4, FlattenVacio
<1>2. ASSUME NEW n \in Nat, n \in S PROVE n + 1 \in S
  <2> SUFFICES ASSUME NEW t \in [1..((n + 1) + 1) -> Bytes] PROVE P(t, n + 1)
    OBVIOUS
  <2> DEFINE u == [j \in 1..(n + 1) |-> t[j]]
             v == [j \in 1..(n + 1) |-> t[j + 1]]
             w == [j \in 1..n |-> t[j + 1]]
             z == t[(n + 1) + 1]
  <2>1. /\ u \in [1..(n + 1) -> Bytes] /\ v \in [1..(n + 1) -> Bytes] /\ w \in [1..n -> Bytes]
        /\ z \in Bytes /\ t[1] \in Bytes /\ u[1] = t[1] /\ v[n + 1] = z
    OBVIOUS
  <2>2. [j \in 1..n |-> u[j + 1]] = w /\ [j \in 1..n |-> v[j]] = w
    OBVIOUS
  <2>3. FlattenSeq(t) = FlattenSeq(u) \o z
    <3>1. n + 1 \in Nat
      OBVIOUS
    <3>2. FlattenSeq(t) = FlattenSeq([j \in 1..(n + 1) |-> t[j]]) \o t[(n + 1) + 1]
      BY <3>1, FlattenUltimo
    <3> QED
      BY <3>2
  <2>4. P(u, n)
    BY <1>2, <2>1
  <2> HIDE DEF u, v, w, z, S
  <2>5. FlattenSeq(u) = t[1] \o FlattenSeq(w)
    BY <2>1, <2>2, <2>4
  <2>6. FlattenSeq(v) = FlattenSeq(w) \o z
    <3>1. FlattenSeq(v) = FlattenSeq([j \in 1..n |-> v[j]]) \o v[n + 1]
      BY <2>1, FlattenUltimo
    <3> QED
      BY <2>1, <2>2, <3>1
  <2>7. FlattenSeq(w) \in Bytes
    BY <2>1, FlattenBytes
  <2>8. ASSUME NEW a \in Bytes, NEW b \in Bytes, NEW c \in Bytes,
               a = t[1], b = FlattenSeq(w), c = z
        PROVE  (a \o b) \o c = a \o (b \o c)
    <3>1. \A d, e, f \in Bytes : (d \o e) \o f = d \o (e \o f)
      BY Concatenacion
    <3> QED
      BY <3>1
  <2>9. FlattenSeq(t) = t[1] \o FlattenSeq(v)
    <3>1. t[1] \in Bytes /\ z \in Bytes
      BY <2>1
    <3>2. (t[1] \o FlattenSeq(w)) \o z = t[1] \o (FlattenSeq(w) \o z)
      BY <2>7, <2>8, <3>1
    <3> QED
      BY <2>3, <2>5, <2>6, <3>2
  <2> QED
    BY <2>9 DEF v
<1> HIDE DEF S
<1>3. \A n \in Nat : n \in S
  <2>1. S \in SUBSET Nat
    BY DEF S
  <2> QED
    BY <1>1, <1>2, <2>1, Induccion
<1> QED
  BY <1>3 DEF S

\* Concatenation as these proofs use it: by these facts, and not by its definition.
a ++ b == a \o b

\* The same laws for ++.
LEMMA Pegar ==
  /\ \A a, b, c \in Bytes : (a ++ b) ++ c = a ++ (b ++ c)
  /\ \A a \in Bytes : a ++ <<>> = a /\ <<>> ++ a = a
  /\ \A a, b \in Bytes : a ++ b \in Bytes
  /\ <<>> \in Bytes /\ Len(<<>>) = 0
  BY Concatenacion DEF ++

-----------------------------------------------------------------------------
(* What is behind the first k of n pieces.                                 *)

Desde(s, n, k) == FlattenSeq([j \in 1..(n - k) |-> s[k + j]])

LEMMA DesdeTodo ==
  ASSUME NEW n \in Nat, NEW s \in [1..n -> Bytes]
  PROVE  Desde(s, n, 0) = FlattenSeq(s)
<1>1. [j \in 1..(n - 0) |-> s[0 + j]] = s
  OBVIOUS
<1> QED
  BY <1>1 DEF Desde

LEMMA DesdeFin ==
  ASSUME NEW n \in Nat, NEW s
  PROVE  Desde(s, n, n) = <<>>
<1>1. [j \in 1..(n - n) |-> s[n + j]] = [j \in 1..0 |-> <<>>]
  OBVIOUS
<1> QED
  BY <1>1, FlattenVacio DEF Desde

LEMMA DesdeBytes ==
  ASSUME NEW n \in Nat, NEW s \in [1..n -> Bytes], NEW k \in 0..n
  PROVE  Desde(s, n, k) \in Bytes
<1> DEFINE r == [j \in 1..(n - k) |-> s[k + j]]
<1>1. n - k \in Nat /\ r \in [1..(n - k) -> Bytes]
  OBVIOUS
<1> HIDE DEF r
<1>2. FlattenSeq(r) \in Bytes
  BY <1>1, FlattenBytes
<1> QED
  BY <1>2 DEF Desde, r

LEMMA DesdePaso ==
  ASSUME NEW n \in Nat, NEW s \in [1..n -> Bytes], NEW k \in 0..n, k < n
  PROVE  Desde(s, n, k) = s[k + 1] ++ Desde(s, n, k + 1)
<1> DEFINE m == n - (k + 1)
           r == [j \in 1..(m + 1) |-> s[k + j]]
<1>1. m \in Nat /\ r \in [1..(m + 1) -> Bytes] /\ r[1] = s[k + 1] /\ m + 1 = n - k
  OBVIOUS
<1>2. [j \in 1..m |-> r[j + 1]] = [j \in 1..m |-> s[(k + 1) + j]]
  OBVIOUS
<1> HIDE DEF m, r
<1>3. FlattenSeq(r) = r[1] \o FlattenSeq([j \in 1..m |-> r[j + 1]])
  BY <1>1, FlattenPrimero
<1>4. Desde(s, n, k) = FlattenSeq(r)
  BY <1>1 DEF Desde, r
<1>5. Desde(s, n, k + 1) = FlattenSeq([j \in 1..m |-> s[(k + 1) + j]])
  BY DEF Desde, m
<1> QED
  BY <1>1, <1>2, <1>3, <1>4, <1>5 DEF ++

LEMMA DesdeUnoMas ==
  ASSUME NEW n \in Nat, NEW s, NEW r \in [1..(n + 1) -> Bytes], NEW k \in 0..n,
         \A i \in 1..n : r[i] = s[i]
  PROVE  Desde(r, n + 1, k) = Desde(s, n, k) ++ r[n + 1]
<1> DEFINE m == n - k
           t == [j \in 1..(m + 1) |-> r[k + j]]
<1>1. /\ m \in Nat /\ t \in [1..(m + 1) -> Bytes] /\ m + 1 = (n + 1) - k
      /\ t[m + 1] = r[n + 1]
  OBVIOUS
<1>2. [j \in 1..m |-> t[j]] = [j \in 1..m |-> s[k + j]]
  OBVIOUS
<1> HIDE DEF m, t
<1>3. FlattenSeq(t) = FlattenSeq([j \in 1..m |-> t[j]]) \o t[m + 1]
  BY <1>1, FlattenUltimo
<1>4. Desde(r, n + 1, k) = FlattenSeq(t)
  BY <1>1 DEF Desde, t
<1>5. Desde(s, n, k) = FlattenSeq([j \in 1..m |-> s[k + j]])
  BY DEF Desde, m
<1> QED
  BY <1>1, <1>2, <1>3, <1>4, <1>5 DEF ++

-----------------------------------------------------------------------------
(* What recv does to the bytes, and what Int32 and Entero do to a length.  *)

\* Bytes cut in two, and put together again.
LEMMA Partir ==
  \A s \in Bytes : \A n \in 0..Len(s) :
     /\ SubSeq(s, 1, n) \in Bytes /\ SubSeq(s, n + 1, Len(s)) \in Bytes
     /\ Len(SubSeq(s, 1, n)) = n /\ Len(SubSeq(s, n + 1, Len(s))) = Len(s) - n
     /\ SubSeq(s, 1, n) \o SubSeq(s, n + 1, Len(s)) = s
<1> SUFFICES ASSUME NEW s \in Seq(Byte), NEW n \in 0..Len(s)
             PROVE  /\ SubSeq(s, 1, n) \in Seq(Byte) /\ SubSeq(s, n + 1, Len(s)) \in Seq(Byte)
                    /\ Len(SubSeq(s, 1, n)) = n /\ Len(SubSeq(s, n + 1, Len(s))) = Len(s) - n
                    /\ SubSeq(s, 1, n) \o SubSeq(s, n + 1, Len(s)) = s
  BY DEF Bytes
<1> DEFINE a == SubSeq(s, 1, n)
           b == SubSeq(s, n + 1, Len(s))
<1>1. /\ a \in Seq(Byte) /\ b \in Seq(Byte) /\ Len(a) = n /\ Len(b) = Len(s) - n
      /\ \A i \in 1..n : a[i] = s[i]
      /\ \A i \in 1..(Len(s) - n) : b[i] = s[n + i]
  OBVIOUS
<1> HIDE DEF a, b
<1>2. Len(a \o b) = Len(s) /\ a \o b \in Seq(Byte)
  <2>1. Len(a \o b) = Len(a) + Len(b) /\ a \o b \in Seq(Byte)
    BY <1>1, ConcatProperties
  <2>2. n + (Len(s) - n) = Len(s)
    OBVIOUS
  <2> QED
    BY <1>1, <2>1, <2>2
<1>3. ASSUME NEW i \in 1..Len(s) PROVE (a \o b)[i] = s[i]
  <2>1. CASE i <= n
    <3>1. (a \o b)[i] = a[i]
      BY <1>1, <2>1
    <3> QED
      BY <1>1, <2>1, <3>1
  <2>2. CASE i > n
    <3>1. (a \o b)[i] = b[i - n] /\ i - n \in 1..(Len(s) - n) /\ n + (i - n) = i
      BY <1>1, <2>2
    <3> QED
      BY <1>1, <3>1
  <2>3. i <= n \/ i > n
    OBVIOUS
  <2> QED
    BY <2>1, <2>2, <2>3, Zenon
<1>4. a \o b = s
  BY <1>2, <1>3, SeqEqual
<1> QED
  BY <1>1, <1>4 DEF a, b

\* A position behind the first m of m + n, and the one it is among the other n.
LEMMA MasAlla ==
  \A m, n \in Nat : \A i \in 1..n :
     m + i \in 1..(m + n) /\ ~(m + i <= m) /\ (m + i) - m = i
  OBVIOUS

\* The length of a concatenation.
LEMMA LargoConcatenado ==
  \A a, b \in Seq(Byte) : Len(a \o b) = Len(a) + Len(b)
  OBVIOUS

\* The positions of a concatenation: those of its first part, then those of the second.
LEMMA PrefijoConcatenado ==
  ASSUME NEW a \in Seq(Byte), NEW b \in Seq(Byte), NEW i \in 1..Len(a)
  PROVE  (a \o b)[i] = a[i]
  OBVIOUS

LEMMA SufijoConcatenado ==
  ASSUME NEW a \in Seq(Byte), NEW b \in Seq(Byte), NEW j \in 1..(Len(a) + Len(b)),
         ~(j <= Len(a))
  PROVE  (a \o b)[j] = b[j - Len(a)]
  OBVIOUS

\* The same bytes, cut at the same place, are the same two parts.
LEMMA Corte ==
  \A a, b, c, d \in Bytes : a \o b = c \o d /\ Len(a) = Len(c) => a = c /\ b = d
<1> SUFFICES ASSUME NEW a \in Seq(Byte), NEW b \in Seq(Byte), NEW c \in Seq(Byte),
                    NEW d \in Seq(Byte), a \o b = c \o d, Len(a) = Len(c)
             PROVE  a = c /\ b = d
  BY DEF Bytes
<1>1. \A i \in 1..Len(a) : a[i] = (a \o b)[i] /\ c[i] = (c \o d)[i]
  BY PrefijoConcatenado
<1>2. a = c
  BY <1>1, SeqEqual
<1>3. Len(b) = Len(d)
  <2>1. Len(a \o b) = Len(a) + Len(b) /\ Len(c \o d) = Len(c) + Len(d)
    BY LargoConcatenado
  <2> QED
    BY <2>1
<1>4. \A i \in 1..Len(b) : b[i] = (a \o b)[Len(a) + i] /\ d[i] = (c \o d)[Len(a) + i]
  <2> TAKE i \in 1..Len(b)
  <2> DEFINE j == Len(a) + i
  <2>1. j \in 1..(Len(a) + Len(b)) /\ ~(j <= Len(a)) /\ j - Len(a) = i
    <3>1. Len(a) \in Nat /\ Len(b) \in Nat
      OBVIOUS
    <3> QED
      BY <3>1, MasAlla
  <2> HIDE DEF j
  <2>2. (a \o b)[j] = b[j - Len(a)]
    BY <2>1, SufijoConcatenado
  <2>3. (c \o d)[j] = d[j - Len(c)]
    BY <1>3, <2>1, SufijoConcatenado
  <2> QED
    BY <2>1, <2>2, <2>3 DEF j
<1>5. b = d
  BY <1>3, <1>4, SeqEqual
<1> QED
  BY <1>2, <1>5

\* Lengths of bytes.
LEMMA LenBytes ==
  /\ \A a \in Bytes : Len(a) \in Nat
  /\ \A a, b \in Bytes : Len(a ++ b) = Len(a) + Len(b)
<1>1. ASSUME NEW a \in Seq(Byte) PROVE Len(a) \in Nat
  OBVIOUS
<1>2. ASSUME NEW a \in Seq(Byte), NEW b \in Seq(Byte) PROVE Len(a \o b) = Len(a) + Len(b)
  OBVIOUS
<1> QED
  BY <1>1, <1>2 DEF Bytes, ++

\* The same, for ++.
LEMMA Cortar ==
  \A a, b, c, d \in Bytes : a ++ b = c ++ d /\ Len(a) = Len(c) => a = c /\ b = d
  BY Corte DEF ++

LEMMA LenTres ==
  \A a, b, c \in Bytes :
     (a ++ b) ++ c \in Bytes /\ Len((a ++ b) ++ c) = Len(a) + Len(b) + Len(c)
<1> TAKE a, b, c \in Bytes
<1>1. a ++ b \in Bytes
  BY Pegar
<1>2. (a ++ b) ++ c \in Bytes
  BY <1>1, Pegar
<1>3. Len(a ++ b) = Len(a) + Len(b)
  BY LenBytes
<1>4. Len((a ++ b) ++ c) = Len(a ++ b) + Len(c)
  BY <1>1, LenBytes
<1> QED
  BY <1>2, <1>3, <1>4

\* The length of a value fits an int, and so does that of a string with its final zero.
LEMMA MaxIntNat == MaxInt \in Nat /\ 8 < MaxInt
  BY DEF MaxInt

LEMMA Cabe == \A k \in Nat : k < MaxInt - 8 => k < MaxInt /\ k + 1 < MaxInt
  BY MaxIntNat

\* A string and its final zero.
LEMMA Terminada ==
  \A a, b \in Bytes :
     Len(a) < MaxInt - 8 /\ Len(b) = 1 => a ++ b \in Bytes /\ Len(a ++ b) < MaxInt
<1> TAKE a, b \in Bytes
<1>1. a ++ b \in Bytes
  BY Pegar
<1>2. Len(a) \in Nat
  BY LenBytes
<1>3. Len(a ++ b) = Len(a) + Len(b)
  BY LenBytes
<1> QED
  BY <1>1, <1>2, <1>3, Cabe

\* The four bytes of an int, one after the other.
LEMMA Divide ==
  \A n \in Nat : /\ n \div 256 \in Nat /\ n % 256 \in 0..255
                /\ (n % 256) + 256 * (n \div 256) = n
  OBVIOUS

\* The length that Int32 writes is the one that Entero reads.
LEMMA Enteros ==
  ASSUME NEW n \in Nat, n < MaxInt
  PROVE  Int32(n) \in Bytes /\ Len(Int32(n)) = 4 /\ Entero(Int32(n)) = n
<1> DEFINE a == n \div 256
           b == a \div 256
           c == b \div 256
           x == n % 256
           y == a % 256
           z == b % 256
<1>1. /\ a \in Nat /\ b \in Nat /\ c \in Nat /\ x \in 0..255 /\ y \in 0..255 /\ z \in 0..255
      /\ x + 256 * a = n /\ y + 256 * b = a /\ z + 256 * c = b
  <2>1. a \in Nat /\ x \in 0..255 /\ x + 256 * a = n
    BY Divide
  <2>2. b \in Nat /\ y \in 0..255 /\ y + 256 * b = a
    BY <2>1, Divide
  <2>3. c \in Nat /\ z \in 0..255 /\ z + 256 * c = b
    BY <2>2, Divide
  <2> QED
    BY <2>1, <2>2, <2>3
<1>2. Int32(n) = <<x, y, z, c>>
  BY DEF Int32
<1> HIDE DEF a, b, c, x, y, z
<1>3. c < 128
  BY <1>1 DEF MaxInt
<1>4. c \in 0..255
  BY <1>1, <1>3
<1>5. Int32(n) \in Bytes /\ Len(Int32(n)) = 4
  <2>1. <<x, y, z, c>> \in Seq(0..255) /\ Len(<<x, y, z, c>>) = 4
    BY <1>1, <1>4
  <2> QED
    BY <1>2, <2>1 DEF Byte, Bytes
<1>6. Entero(<<x, y, z, c>>) = x + 256 * (y + 256 * (z + 256 * c))
  BY <1>3 DEF Entero
<1>7. x + 256 * (y + 256 * (z + 256 * c)) = n
  BY <1>1
<1> QED
  BY <1>2, <1>5, <1>6, <1>7

LEMMA ByteNat == \A b \in Byte : b \in Nat
  BY DEF Byte

LEMMA EnteroInt == \A s \in Bytes : Entero(s) \in Int
<1> SUFFICES ASSUME NEW s \in Seq(Byte) PROVE Entero(s) \in Int
  BY DEF Bytes
<1> DEFINE b(i) == IF i <= Len(s) THEN s[i] ELSE 0
           signo == IF b(4) < 128 THEN b(4) ELSE b(4) - 256
<1>1. b(1) \in Nat /\ b(2) \in Nat /\ b(3) \in Nat /\ b(4) \in Nat
  <2>1. \A i \in 1..Len(s) : s[i] \in Nat
    <3> TAKE i \in 1..Len(s)
    <3>1. s[i] \in Byte
      OBVIOUS
    <3> QED
      BY <3>1, ByteNat
  <2>2. \A i \in Nat \ {0} : i <= Len(s) => i \in 1..Len(s)
    OBVIOUS
  <2> QED
    BY <2>1, <2>2
<1>2. Entero(s) = b(1) + 256 * (b(2) + 256 * (b(3) + 256 * signo))
  BY DEF Entero
<1> HIDE DEF b
<1>3. signo \in Int
  BY <1>1
<1> HIDE DEF signo
<1> QED
  BY <1>1, <1>2, <1>3

-----------------------------------------------------------------------------
(* The frame of a message, and the invariant.                              *)

Plan(c) == Emisor[c].campos
Codigo(c) == IF c \in Streams THEN Emisor[c].op
             ELSE IF c = "mensaje" THEN MENSAJE ELSE PAQUETE
Cabecera(c) == IF c \in Streams THEN <<Codigo(c)>> ELSE Int32(Codigo(c))
Enviable(c) == [op : {Codigo(c)}, campos : Mensajes[c]]

\* The pieces of the buffer of a message, as they are packed, and what the other end
\* makes of the i-th.
Piezas(c, m) ==
  IF c \in Streams THEN [i \in 1..Len(Plan(c)) |-> CampoEmpaquetado(Plan(c)[i], m.campos)]
  ELSE IF c = "paquete" THEN [i \in 1..Len(m.campos) |-> agregar_a_paquete(m.campos[i])]
  ELSE [i \in 1..1 |-> m.campos[1] ++ <<0>>]
Desempacado(c, m, i) ==
  IF c \in Streams THEN <<Plan(c)[i][1], m.campos[Plan(c)[i][1]]>> ELSE m.campos[i]

Cuerpo(c, m) == FlattenSeq(Piezas(c, m))
Trama(c, m) == (Cabecera(c) ++ Int32(Len(Cuerpo(c, m)))) ++ Cuerpo(c, m)

\* The frames behind the first k messages of s, and the pieces behind the first k of m.
Siguientes(c, s, k) == Desde([i \in 1..Len(s) |-> Trama(c, s[i])], Len(s), k)
Restan(c, m, k) == Desde(Piezas(c, m), Len(Piezas(c, m)), k)

EnCamino == llegado ++ red
Numero == Len(recibidos) + 1

\* The message being read, and where in its frame and in its fields the reader is.
Leyendo(m) ==
  /\ op = Codigo(canal)
  /\ receptor \in {"tamanio", "cuerpo", "desempaquetar"}
  /\ receptor # "desempaquetar" => campos = <<>>
  /\ receptor = "tamanio" =>
        EnCamino = (Int32(Len(Cuerpo(canal, m))) ++ Cuerpo(canal, m))
                     ++ Siguientes(canal, enviados, Numero)
  /\ receptor = "cuerpo" =>
        /\ EnCamino = Cuerpo(canal, m) ++ Siguientes(canal, enviados, Numero)
        /\ buffer.size = Len(Cuerpo(canal, m))
  /\ receptor = "desempaquetar" =>
        /\ EnCamino = Siguientes(canal, enviados, Numero)
        /\ buffer.size = Len(buffer.datos) /\ buffer.datos = Restan(canal, m, Len(campos))
        /\ Len(campos) <= Len(Piezas(canal, m)) /\ (canal = "mensaje" => campos = <<>>)
        /\ \A i \in 1..Len(campos) : campos[i] = Desempacado(canal, m, i)

Flujo ==
  IF receptor = "header"
  THEN /\ Len(recibidos) <= Len(enviados) /\ campos = <<>>
       /\ EnCamino = Siguientes(canal, enviados, Len(recibidos))
  ELSE Numero <= Len(enviados) /\ Leyendo(enviados[Numero])

\* The bookkeeping of the receiver, whatever a recv has done.
Secuencia(s) == \E T : s \in Seq(T)
Tipos ==
  /\ enviados \in Seq(Enviable(canal)) /\ Secuencia(recibidos) /\ Secuencia(campos)
  /\ buffer = [size |-> buffer.size, datos |-> buffer.datos]
  /\ receptor = "cuerpo" => buffer.size \in Nat
  /\ canal \in Streams => Len(campos) < Len(Plan(canal))

CInv == TypeOK /\ Tipos /\ (~Roto => Flujo)

\* What Append does to a sequence of anything.
LEMMA Anexar ==
  ASSUME NEW s, Secuencia(s), NEW x
  PROVE  /\ Len(s) \in Nat /\ Secuencia(Append(s, x)) /\ Len(Append(s, x)) = Len(s) + 1
         /\ \A i \in 1..Len(s) : Append(s, x)[i] = s[i]
         /\ Append(s, x)[Len(s) + 1] = x
<1>1. PICK T : s \in Seq(T)
  BY DEF Secuencia
<1>2. s \in Seq(T \union {x}) /\ x \in T \union {x}
  BY <1>1
<1>3. Append(s, x) \in Seq(T \union {x})
  BY <1>2
<1> QED
  BY <1>2, <1>3 DEF Secuencia

\* Both ends of a stream agree on its header and on its fields.
PlanCorrecto(plan) ==
  /\ Len(plan) \in 1..3
  /\ \A i \in 1..Len(plan) :
        /\ plan[i][2] \in {"int", "byte", "string"}
        /\ \A j \in 1..Len(plan) : plan[i][1] = plan[j][1] => i = j

LEMMA Acuerdo ==
  ASSUME NEW c \in Streams
  PROVE  /\ Emisor[c].op \in Byte /\ Emisor[c].op \in Receptor[c].acepta
         /\ Emisor[c].campos = Receptor[c].campos
         /\ PlanCorrecto(Emisor[c].campos)
<1>1. c \in {"proceso_nuevo", "contexto", "fetch", "instruccion", "interfaz"}
  BY DEF Streams, Emisor
<1>2. CASE c = "proceso_nuevo"
  <2> DEFINE plan == <<<<"pid", "int">>, <<"path", "string">>>>
  <2>1. /\ Emisor[c].op = 17 /\ Emisor[c].campos = plan
        /\ Receptor[c].campos = plan /\ 17 \in Receptor[c].acepta
    BY <1>2 DEF Emisor, Receptor, Byte, iniciar_proceso_en_memoria, atender_proceso_nuevo,
                PROCESO_NUEVO
  <2>2. 17 \in Byte /\ PlanCorrecto(plan)
    BY DEF Byte, PlanCorrecto
  <2> HIDE DEF plan
  <2> QED
    BY <2>1, <2>2
<1>3. CASE c = "contexto"
  <2> DEFINE plan == <<<<"pid", "int">>, <<"programCounter", "int">>, <<"AX", "byte">>>>
  <2>1. /\ Emisor[c].op = 19 /\ Emisor[c].campos = plan
        /\ Receptor[c].campos = plan /\ 19 \in Receptor[c].acepta
    BY <1>3 DEF Emisor, Receptor, Byte, kernel_enviar_pcb_a_cpu, atender_peticiones_kernel,
                HEADER_proceso_a_ejecutar
  <2>2. 19 \in Byte /\ PlanCorrecto(plan)
    BY DEF Byte, PlanCorrecto
  <2> HIDE DEF plan
  <2> QED
    BY <2>1, <2>2
<1>4. CASE c = "fetch"
  <2> DEFINE plan == <<<<"pid", "int">>, <<"programCounter", "int">>>>
  <2>1. /\ Emisor[c].op = 21 /\ Emisor[c].campos = plan
        /\ Receptor[c].campos = plan /\ 21 \in Receptor[c].acepta
    BY <1>4 DEF Emisor, Receptor, Byte, pedir_instruccion, enviar_instruccion_a_Cpu,
                HEADER_CPU_FETCH
  <2>2. 21 \in Byte /\ PlanCorrecto(plan)
    BY DEF Byte, PlanCorrecto
  <2> HIDE DEF plan
  <2> QED
    BY <2>1, <2>2
<1>5. CASE c = "instruccion"
  <2> DEFINE plan == <<<<"instruccion", "string">>>>
  <2>1. /\ Emisor[c].op = 0 /\ Emisor[c].campos = plan
        /\ Receptor[c].campos = plan /\ 0 \in Receptor[c].acepta
    BY <1>5 DEF Emisor, Receptor, Byte, devolver_instruccion, rastrear_instruccion, SET
  <2>2. 0 \in Byte /\ PlanCorrecto(plan)
    BY DEF Byte, PlanCorrecto
  <2> HIDE DEF plan
  <2> QED
    BY <2>1, <2>2
<1>6. CASE c = "interfaz"
  <2> DEFINE plan == <<<<"nombre", "string">>>>
  <2>1. /\ Emisor[c].op = 1 /\ Emisor[c].campos = plan
        /\ Receptor[c].campos = plan /\ 1 \in Receptor[c].acepta
    BY <1>6 DEF Emisor, Receptor, Byte, enviarDatosAServidor, escuchar_conexiones_IO
  <2>2. 1 \in Byte /\ PlanCorrecto(plan)
    BY DEF Byte, PlanCorrecto
  <2> HIDE DEF plan
  <2> QED
    BY <2>1, <2>2
<1> QED
  BY <1>1, <1>2, <1>3, <1>4, <1>5, <1>6

\* A value as long as a caller may have, as a fact without its numeral.
Breve(s) == Len(s) < MaxInt - 8

\* The fields of a message of a stream.
Valor(c, m, i) == m.campos[Plan(c)[i][1]]
Pieza(c, m, i) == CampoEmpaquetado(Plan(c)[i], m.campos)
PiezaString(v) == (Int32(Len(v) + 1) ++ v) ++ <<0>>

LEMMA CamposStream ==
  ASSUME NEW c \in Streams, NEW m \in Enviable(c), NEW i \in 1..Len(Plan(c))
  PROVE  /\ Valor(c, m, i) \in Bytes /\ Breve(Valor(c, m, i)) /\ Pieza(c, m, i) \in Bytes
         /\ Plan(c)[i][2] # "string" =>
               /\ Pieza(c, m, i) = Valor(c, m, i) /\ Plan(c)[i][2] \in {"int", "byte"}
               /\ Len(Valor(c, m, i)) = Ancho[Plan(c)[i][2]]
         /\ Plan(c)[i][2] = "string" =>
               Pieza(c, m, i) = PiezaString(Valor(c, m, i)) /\ SinCeros(Valor(c, m, i))
<1> DEFINE v == Valor(c, m, i)
           e == Pieza(c, m, i)
<1>1. m.campos \in Mensajes[c]
  BY DEF Enviable
<1>2. /\ m.campos \in [{Plan(c)[j][1] : j \in 1..Len(Plan(c))} -> Corta]
      /\ IF Plan(c)[i][2] = "string" THEN SinCeros(v) ELSE Len(v) = Ancho[Plan(c)[i][2]]
  BY <1>1, MensajesAssumption DEF Plan, Valor
<1>3. v \in Corta
  BY <1>2 DEF Valor
<1>4. v \in Bytes /\ Len(v) < MaxInt - 8
  BY <1>3 DEF Corta, Bytes
<1>5. Plan(c)[i][2] \in {"int", "byte", "string"}
  BY Acuerdo DEF Plan, PlanCorrecto
<1>6. Plan(c)[i][2] # "string" => e = v
  BY DEF CampoEmpaquetado, Pieza, Valor
<1>7. Plan(c)[i][2] = "string" => e = PiezaString(v)
  BY DEF CampoEmpaquetado, buffer_empaquetar_string, Pieza, PiezaString, Valor, ++
<1>8. PiezaString(v) \in Bytes
  <2>1. Len(v) \in Nat
    BY <1>4 DEF Bytes
  <2>2. Len(v) + 1 \in Nat /\ Len(v) + 1 < MaxInt
    BY <1>4, <2>1, Cabe
  <2>3. Int32(Len(v) + 1) \in Bytes
    BY <2>2, Enteros
  <2>4. <<0>> \in Bytes
    BY DEF Bytes, Byte
  <2> QED
    BY <1>4, <2>3, <2>4, Pegar DEF PiezaString
<1> HIDE DEF v, e
<1>9. /\ v \in Bytes /\ Breve(v) /\ e \in Bytes
      /\ Plan(c)[i][2] # "string" =>
            e = v /\ Plan(c)[i][2] \in {"int", "byte"} /\ Len(v) = Ancho[Plan(c)[i][2]]
      /\ Plan(c)[i][2] = "string" => e = PiezaString(v) /\ SinCeros(v)
  BY <1>2, <1>4, <1>5, <1>6, <1>7, <1>8 DEF Breve
<1> QED
  BY <1>9 DEF v, e

\* The pieces of a message, for each of the three ways to pack one.
PiezasCorrectas(c, m) ==
  /\ Len(Piezas(c, m)) \in Nat /\ Piezas(c, m) \in [1..Len(Piezas(c, m)) -> Bytes]
  /\ Cuerpo(c, m) \in Bytes /\ Len(Cuerpo(c, m)) < MaxInt

LEMMA PiezasStream ==
  ASSUME NEW c \in Streams, NEW m \in Enviable(c)
  PROVE  /\ PiezasCorrectas(c, m) /\ Len(Piezas(c, m)) = Len(Plan(c))
         /\ Cuerpo(c, m) = Empaquetado(Plan(c), m.campos)
         /\ \A i \in 1..Len(Plan(c)) : Piezas(c, m)[i] = Pieza(c, m, i)
<1> DEFINE p == [i \in 1..Len(Plan(c)) |-> Pieza(c, m, i)]
<1>1. Len(Plan(c)) \in Nat
  BY Acuerdo DEF Plan, PlanCorrecto
<1>2. \A i \in 1..Len(Plan(c)) : Pieza(c, m, i) \in Bytes
  BY CamposStream
<1>3. p \in [1..Len(Plan(c)) -> Bytes] /\ Len(p) = Len(Plan(c))
  BY <1>1, <1>2
<1>4. Piezas(c, m) = p
  BY DEF Piezas, Pieza
<1>5. Cuerpo(c, m) = Empaquetado(Plan(c), m.campos)
  BY <1>4 DEF Cuerpo, Empaquetado, Pieza
<1>6. Empaquetado(Plan(c), m.campos) \in Corta
  <2>1. m.campos \in Mensajes[c]
    BY DEF Enviable
  <2> QED
    BY <2>1, MensajesAssumption DEF Plan
<1>7. Cuerpo(c, m) \in Bytes /\ Len(Cuerpo(c, m)) < MaxInt
  <2>1. Cuerpo(c, m) \in Seq(Byte) /\ Len(Cuerpo(c, m)) < MaxInt - 8
    BY <1>5, <1>6 DEF Corta
  <2>2. Len(Cuerpo(c, m)) \in Nat
    BY <2>1
  <2> HIDE DEF p
  <2> QED
    BY <2>1, <2>2, Cabe DEF Bytes
<1>8. \A i \in 1..Len(Plan(c)) : p[i] = Pieza(c, m, i)
  OBVIOUS
<1> HIDE DEF p
<1> QED
  BY <1>1, <1>3, <1>4, <1>5, <1>7, <1>8 DEF PiezasCorrectas

\* The values of a package, each behind its length.
LEMMA PiezasPaquete ==
  ASSUME NEW c, c = "paquete", NEW m \in Enviable(c)
  PROVE  /\ PiezasCorrectas(c, m) /\ Len(Piezas(c, m)) = Len(m.campos) /\ m.campos \in Seq(Corta)
         /\ Cuerpo(c, m) = Agregados(m.campos)
         /\ \A i \in 1..Len(m.campos) : Piezas(c, m)[i] = agregar_a_paquete(m.campos[i])
<1> DEFINE v == m.campos
           p == [i \in 1..Len(v) |-> agregar_a_paquete(v[i])]
<1>1. v \in Mensajes["paquete"] /\ c \notin Streams
  BY DEF Enviable, Streams, Emisor
<1>2. v \in Seq(Corta) /\ Agregados(v) \in Corta
  BY <1>1, MensajesAssumption
<1> HIDE DEF v
<1>3. Len(v) \in Nat /\ \A i \in 1..Len(v) : v[i] \in Corta
  BY <1>2
<1>4. \A i \in 1..Len(v) : agregar_a_paquete(v[i]) \in Bytes
  <2> TAKE i \in 1..Len(v)
  <2>1. v[i] \in Bytes /\ Len(v[i]) \in Nat /\ Len(v[i]) < MaxInt
    <3>1. v[i] \in Seq(Byte) /\ Len(v[i]) < MaxInt - 8
      BY <1>3 DEF Corta
    <3>2. Len(v[i]) \in Nat
      BY <3>1
    <3> QED
      BY <3>1, <3>2, Cabe DEF Bytes
  <2>2. Int32(Len(v[i])) \in Bytes
    BY <2>1, Enteros
  <2> QED
    BY <2>1, <2>2, Pegar DEF agregar_a_paquete, ++
<1>5. p \in [1..Len(v) -> Bytes] /\ Len(p) = Len(v)
  BY <1>3, <1>4
<1>6. Piezas(c, m) = p
  BY <1>1 DEF Piezas, v
<1>7. Cuerpo(c, m) = Agregados(v)
  BY <1>6 DEF Cuerpo, Agregados
<1>8. Cuerpo(c, m) \in Bytes /\ Len(Cuerpo(c, m)) < MaxInt
  <2>1. Cuerpo(c, m) \in Seq(Byte) /\ Len(Cuerpo(c, m)) < MaxInt - 8
    BY <1>2, <1>7 DEF Corta
  <2>2. Len(Cuerpo(c, m)) \in Nat
    BY <2>1
  <2> QED
    BY <2>1, <2>2, Cabe DEF Bytes
<1>9. \A i \in 1..Len(v) : p[i] = agregar_a_paquete(v[i])
  OBVIOUS
<1> HIDE DEF p
<1>10. /\ PiezasCorrectas(c, m) /\ Len(Piezas(c, m)) = Len(v) /\ v \in Seq(Corta)
       /\ Cuerpo(c, m) = Agregados(v)
       /\ \A i \in 1..Len(v) : Piezas(c, m)[i] = agregar_a_paquete(v[i])
  BY <1>2, <1>3, <1>5, <1>6, <1>7, <1>8, <1>9 DEF PiezasCorrectas
<1> QED
  BY <1>10 DEF v

\* A mensaje is one piece.
LEMMA PiezasMensaje ==
  ASSUME NEW c, c = "mensaje", NEW m \in Enviable(c)
  PROVE  /\ PiezasCorrectas(c, m) /\ Len(Piezas(c, m)) = 1 /\ m.campos = <<m.campos[1]>>
         /\ m.campos[1] \in Bytes /\ SinCeros(m.campos[1])
         /\ Cuerpo(c, m) = m.campos[1] ++ <<0>>
<1> DEFINE v == m.campos[1]
           p == [i \in 1..1 |-> v ++ <<0>>]
<1>1. m.campos \in Mensajes["mensaje"] /\ c \notin Streams
  BY DEF Enviable, Streams, Emisor
<1>2. m.campos = <<v>> /\ v \in Corta /\ SinCeros(v)
  BY <1>1, MensajesAssumption
<1>3. Piezas(c, m) = p
  BY <1>1 DEF Piezas
<1> HIDE DEF v
<1>4. v \in Bytes /\ <<0>> \in Bytes /\ v ++ <<0>> \in Bytes /\ Len(v ++ <<0>>) < MaxInt
  <2>1. v \in Bytes /\ Len(v) < MaxInt - 8
    BY <1>2 DEF Corta, Bytes
  <2>2. <<0>> \in Bytes /\ Len(<<0>>) = 1
    BY DEF Bytes, Byte
  <2> QED
    BY <2>1, <2>2, Terminada
<1>5. p \in [1..1 -> Bytes] /\ Len(p) = 1 /\ p[1] = v ++ <<0>>
  BY <1>4
<1> HIDE DEF p
<1>6. FlattenSeq(p) = v ++ <<0>>
  <2>1. FlattenSeq(p) = Desde(p, 1, 0)
    BY <1>5, DesdeTodo
  <2>2. Desde(p, 1, 0) = p[0 + 1] ++ Desde(p, 1, 0 + 1)
    <3>1. 0 \in 0..1 /\ 0 < 1 /\ 1 \in Nat
      OBVIOUS
    <3> QED
      BY <1>5, <3>1, DesdePaso
  <2>3. Desde(p, 1, 0 + 1) = <<>>
    BY DesdeFin
  <2>4. (v ++ <<0>>) ++ <<>> = v ++ <<0>>
    BY <1>4, Pegar
  <2> QED
    BY <1>5, <2>1, <2>2, <2>3, <2>4
<1>7. Cuerpo(c, m) = v ++ <<0>> /\ PiezasCorrectas(c, m) /\ Len(Piezas(c, m)) = 1
  <2>1. Cuerpo(c, m) = v ++ <<0>>
    BY <1>3, <1>6 DEF Cuerpo
  <2>2. Piezas(c, m) \in [1..Len(Piezas(c, m)) -> Bytes] /\ Len(Piezas(c, m)) = 1
    BY <1>3, <1>5
  <2>3. Cuerpo(c, m) \in Bytes /\ Len(Cuerpo(c, m)) < MaxInt
    <3> HIDE DEF v
    <3>1. ASSUME NEW w, w \in Bytes, Len(w) < MaxInt, Cuerpo(c, m) = w
          PROVE  Cuerpo(c, m) \in Bytes /\ Len(Cuerpo(c, m)) < MaxInt
      BY <3>1
    <3> QED
      BY <1>4, <2>1, <3>1
  <2>4. Len(Piezas(c, m)) \in Nat
    BY <2>2
  <2>5. PiezasCorrectas(c, m)
    BY <2>2, <2>3, <2>4 DEF PiezasCorrectas
  <2> QED
    BY <2>1, <2>2, <2>5
<1> QED
  BY <1>2, <1>4, <1>7 DEF v

\* The frame of any message, whatever its kind.
LEMMA Tramas ==
  ASSUME NEW c \in Canales, NEW m \in Enviable(c)
  PROVE  /\ PiezasCorrectas(c, m) /\ Trama(c, m) \in Bytes /\ Cabecera(c) \in Bytes
         /\ Int32(Len(Cuerpo(c, m))) \in Bytes /\ Len(Int32(Len(Cuerpo(c, m)))) = 4
         /\ Entero(Int32(Len(Cuerpo(c, m)))) = Len(Cuerpo(c, m))
<1>1. PiezasCorrectas(c, m)
  <2>1. c \in Streams \/ c = "paquete" \/ c = "mensaje"
    BY DEF Canales
  <2> QED
    BY <2>1, PiezasStream, PiezasPaquete, PiezasMensaje
<1>2. Len(Cuerpo(c, m)) \in Nat /\ Len(Cuerpo(c, m)) < MaxInt /\ Cuerpo(c, m) \in Bytes
  BY <1>1, LenBytes DEF PiezasCorrectas
<1>3. /\ Int32(Len(Cuerpo(c, m))) \in Bytes /\ Len(Int32(Len(Cuerpo(c, m)))) = 4
      /\ Entero(Int32(Len(Cuerpo(c, m)))) = Len(Cuerpo(c, m))
  BY <1>2, Enteros
<1>4. Cabecera(c) \in Bytes
  <2>1. CASE c \in Streams
    <3>1. Emisor[c].op \in Byte
      BY <2>1, Acuerdo
    <3>2. Cabecera(c) = <<Emisor[c].op>>
      BY <2>1 DEF Cabecera, Codigo
    <3> QED
      BY <3>1, <3>2 DEF Bytes
  <2>2. CASE c \notin Streams
    <3>1. Cabecera(c) = Int32(1) \/ Cabecera(c) = Int32(2)
      BY <2>2 DEF Cabecera, Codigo, MENSAJE, PAQUETE
    <3>2. Int32(1) \in Bytes /\ Int32(2) \in Bytes
      BY Enteros, MaxIntNat
    <3> QED
      BY <3>1, <3>2
  <2> QED
    BY <2>1, <2>2
<1> QED
  BY <1>1, <1>2, <1>3, <1>4, Pegar DEF Trama

\* The frames behind the first k messages: the next one first, a new one last.
LEMMA SiguientesPaso ==
  ASSUME NEW c \in Canales, NEW s \in Seq(Enviable(c)), NEW k \in 0..Len(s)
  PROVE  /\ Siguientes(c, s, k) \in Bytes
         /\ k = Len(s) => Siguientes(c, s, k) = <<>>
         /\ k < Len(s) => Siguientes(c, s, k) = Trama(c, s[k + 1]) ++ Siguientes(c, s, k + 1)
<1> DEFINE t == [i \in 1..Len(s) |-> Trama(c, s[i])]
<1>1. Len(s) \in Nat /\ \A i \in 1..Len(s) : s[i] \in Enviable(c)
  OBVIOUS
<1>2. \A i \in 1..Len(s) : Trama(c, s[i]) \in Bytes
  BY <1>1, Tramas
<1>3. t \in [1..Len(s) -> Bytes] /\ \A i \in 1..Len(s) : t[i] = Trama(c, s[i])
  BY <1>2
<1>4. \A j : Siguientes(c, s, j) = Desde(t, Len(s), j)
  BY DEF Siguientes
<1> HIDE DEF t
<1>5. Siguientes(c, s, k) \in Bytes
  BY <1>1, <1>3, <1>4, DesdeBytes
<1>6. k = Len(s) => Siguientes(c, s, k) = <<>>
  BY <1>1, <1>4, DesdeFin
<1>7. ASSUME k < Len(s)
      PROVE  Siguientes(c, s, k) = Trama(c, s[k + 1]) ++ Siguientes(c, s, k + 1)
  <2>1. k + 1 \in 1..Len(s)
    BY <1>1, <1>7
  <2>2. Desde(t, Len(s), k) = t[k + 1] ++ Desde(t, Len(s), k + 1)
    BY <1>1, <1>3, <1>7, DesdePaso
  <2> QED
    BY <1>3, <1>4, <2>1, <2>2
<1> QED
  BY <1>5, <1>6, <1>7

LEMMA SiguientesMas ==
  ASSUME NEW c \in Canales, NEW s \in Seq(Enviable(c)), NEW m \in Enviable(c),
         NEW k \in 0..Len(s)
  PROVE  Siguientes(c, Append(s, m), k) = Siguientes(c, s, k) ++ Trama(c, m)
<1> DEFINE r == Append(s, m)
           n == Len(s)
           t == [i \in 1..n |-> Trama(c, s[i])]
           u == [i \in 1..(n + 1) |-> Trama(c, r[i])]
<1>1. /\ n \in Nat /\ Len(r) = n + 1 /\ r[n + 1] = m /\ \A i \in 1..n : r[i] = s[i]
      /\ \A i \in 1..(n + 1) : r[i] \in Enviable(c)
  OBVIOUS
<1> HIDE DEF r, n
<1>2. \A i \in 1..(n + 1) : Trama(c, r[i]) \in Bytes
  BY <1>1, Tramas
<1>3. u \in [1..(n + 1) -> Bytes] /\ u[n + 1] = Trama(c, m) /\ \A i \in 1..n : u[i] = t[i]
  BY <1>1, <1>2
<1>4. Siguientes(c, r, k) = Desde(u, n + 1, k) /\ Siguientes(c, s, k) = Desde(t, n, k)
  BY <1>1 DEF Siguientes, n
<1>5. k \in 0..n
  BY DEF n
<1> HIDE DEF t, u
<1>6. Desde(u, n + 1, k) = Desde(t, n, k) ++ u[n + 1]
  BY <1>1, <1>3, <1>5, DesdeUnoMas
<1> QED
  BY <1>3, <1>4, <1>6 DEF r

\* And the pieces behind the first k.
LEMMA RestanPaso ==
  ASSUME NEW c, NEW m, PiezasCorrectas(c, m), NEW k \in 0..Len(Piezas(c, m))
  PROVE  /\ Restan(c, m, k) \in Bytes /\ Restan(c, m, 0) = Cuerpo(c, m)
         /\ k = Len(Piezas(c, m)) => Restan(c, m, k) = <<>>
         /\ k < Len(Piezas(c, m)) =>
               Restan(c, m, k) = Piezas(c, m)[k + 1] ++ Restan(c, m, k + 1)
<1> DEFINE p == Piezas(c, m)
           n == Len(Piezas(c, m))
<1>1. n \in Nat /\ p \in [1..n -> Bytes]
  BY DEF PiezasCorrectas
<1>2. \A j : Restan(c, m, j) = Desde(p, n, j)
  BY DEF Restan
<1> HIDE DEF p, n
<1>3. k \in 0..n
  BY DEF n
<1>4. Desde(p, n, k) \in Bytes
  BY <1>1, <1>3, DesdeBytes
<1>5. Desde(p, n, 0) = Cuerpo(c, m)
  <2>1. Desde(p, n, 0) = FlattenSeq(p)
    BY <1>1, DesdeTodo
  <2> QED
    BY <2>1 DEF Cuerpo, p
<1>6. k = n => Desde(p, n, k) = <<>>
  BY <1>1, DesdeFin
<1>7. k < n => Desde(p, n, k) = p[k + 1] ++ Desde(p, n, k + 1)
  BY <1>1, <1>3, DesdePaso
<1> QED
  BY <1>2, <1>4, <1>5, <1>6, <1>7 DEF p, n

-----------------------------------------------------------------------------
(* Sending, and what the network does.                                     *)

\* A frame more at the end of what is on the way.
LEMMA ConservaEnvio ==
  ASSUME CInv, NEW m \in Enviable(canal), enviados' = Append(enviados, m),
         red' = red ++ Trama(canal, m),
         UNCHANGED <<canal, recibidos, llegado, receptor, op, buffer, campos, corto>>
  PROVE  CInv'
<1> DEFINE t == Trama(canal, m)
<1>1. /\ canal \in Canales /\ red \in Bytes /\ llegado \in Bytes /\ t \in Bytes
      /\ enviados \in Seq(Enviable(canal)) /\ Len(enviados) \in Nat
      /\ Len(recibidos) \in Nat
  BY Tramas, Anexar DEF CInv, TypeOK, Tipos, Bytes
<1>2. TypeOK'
  <2>1. red' \in Seq(Byte)
    BY <1>1, Pegar DEF Bytes
  <2> QED
    BY <2>1 DEF CInv, TypeOK
<1>3. Tipos'
  <2>1. enviados' \in Seq(Enviable(canal))
    BY <1>1
  <2> QED
    BY <2>1 DEF CInv, Tipos, Secuencia
<1>4. EnCamino' = EnCamino ++ t /\ EnCamino \in Bytes
  <2>1. EnCamino' = llegado ++ (red ++ t)
    BY DEF EnCamino
  <2> HIDE DEF t
  <2>2. (llegado ++ red) ++ t = llegado ++ (red ++ t)
    BY <1>1, Pegar
  <2>3. llegado ++ red \in Bytes
    BY <1>1, Pegar
  <2> QED
    BY <2>1, <2>2, <2>3 DEF EnCamino
<1>5. /\ Len(enviados') = Len(enviados) + 1
      /\ \A i \in 1..Len(enviados) : enviados'[i] = enviados[i]
      /\ \A k \in 0..Len(enviados) :
            /\ Siguientes(canal, enviados, k) \in Bytes
            /\ Siguientes(canal, enviados', k) = Siguientes(canal, enviados, k) ++ t
  <2>1. /\ Len(enviados') = Len(enviados) + 1
        /\ \A i \in 1..Len(enviados) : enviados'[i] = enviados[i]
    BY <1>1
  <2>2. ASSUME NEW k \in 0..Len(enviados)
        PROVE  /\ Siguientes(canal, enviados, k) \in Bytes
               /\ Siguientes(canal, enviados', k) = Siguientes(canal, enviados, k) ++ t
    BY <1>1, SiguientesMas, SiguientesPaso
  <2> QED
    BY <2>1, <2>2
<1> HIDE DEF t
<1>6. ASSUME ~Roto' PROVE Flujo'
  <2>1. Flujo
    BY <1>6 DEF CInv, Roto
  <2>2. CASE receptor = "header"
    <3>1. Len(recibidos) \in 0..Len(enviados)
      BY <1>1, <2>1, <2>2 DEF Flujo
    <3> QED
      BY <1>1, <1>4, <1>5, <2>1, <2>2, <3>1 DEF Flujo
  <2>3. CASE receptor # "header"
    <3> DEFINE n == Numero
               x == enviados[Numero]
               sig == Siguientes(canal, enviados, Numero)
    <3>1. n \in 1..Len(enviados) /\ n \in 0..Len(enviados) /\ Leyendo(x)
      BY <1>1, <2>1, <2>3 DEF Flujo, Numero
    <3>2. n' = n /\ n' <= Len(enviados') /\ x' = x
      BY <1>1, <1>5, <3>1 DEF Numero
    <3>3. Siguientes(canal, enviados', n) = sig ++ t /\ sig \in Bytes
      BY <1>5, <3>1
    <3>4. x \in Enviable(canal)
      BY <1>1, <3>1
    <3>5. /\ Cuerpo(canal, x) \in Bytes /\ Int32(Len(Cuerpo(canal, x))) \in Bytes
          /\ Int32(Len(Cuerpo(canal, x))) ++ Cuerpo(canal, x) \in Bytes
      <4>1. Cuerpo(canal, x) \in Bytes /\ Int32(Len(Cuerpo(canal, x))) \in Bytes
        <5> HIDE DEF x
        <5> QED
          BY <1>1, <3>4, Tramas DEF PiezasCorrectas
      <4> QED
        BY <4>1, Pegar, Zenon
    <3>6. \A b \in Bytes : EnCamino = b ++ sig => EnCamino' = b ++ (sig ++ t)
      BY <1>1, <1>4, <3>3, Pegar
    <3> HIDE DEF n, x, sig
    <3>7. Leyendo(x)'
      <4>1. receptor = "tamanio" =>
               EnCamino' = (Int32(Len(Cuerpo(canal, x))) ++ Cuerpo(canal, x)) ++ (sig ++ t)
        BY <3>1, <3>5, <3>6 DEF Leyendo, sig
      <4>2. receptor = "cuerpo" => EnCamino' = Cuerpo(canal, x) ++ (sig ++ t)
        BY <3>1, <3>5, <3>6 DEF Leyendo, sig
      <4>3. receptor = "desempaquetar" => EnCamino' = sig ++ t
        BY <1>4, <3>1 DEF Leyendo, sig
      <4> QED
        BY <3>1, <3>2, <3>3, <4>1, <4>2, <4>3 DEF Leyendo, n
    <3> QED
      BY <2>3, <3>2, <3>7 DEF Flujo, n, x
  <2> QED
    BY <2>2, <2>3
<1> QED
  BY <1>2, <1>3, <1>6 DEF CInv

\* What the abstract connection may do in a step.
PasoDeCola == [Cola!Next]_(Cola!vars)

LEMMA EnvioEnCola ==
  ASSUME CInv, NEW m \in Enviable(canal), enviados' = Append(enviados, m),
         UNCHANGED <<canal, recibidos, corto>>
  PROVE  PasoDeCola
<1>1. enviados \in Seq(Enviable(canal))
  BY DEF CInv, Tipos
<1>2. Len(enviados') = Len(enviados) + 1 /\ SubSeq(enviados', 1, Len(enviados)) = enviados
  BY <1>1
<1>3. UNCHANGED <<recibidos, Roto>>
  BY DEF Roto
<1> QED
  BY <1>2, <1>3 DEF PasoDeCola, Cola!Next, Cola!Enviar

\* The three ways of sending put a frame behind the others.
LEMMA PasoEnviarStream == CInv /\ EnviarStream => CInv' /\ PasoDeCola
<1> SUFFICES ASSUME CInv, EnviarStream PROVE CInv' /\ PasoDeCola
  OBVIOUS
<1>1. canal \in Streams
  BY DEF EnviarStream
<1>2. PICK valores \in Mensajes[canal] :
         Envia(Emisor[canal].op, valores,
               stream_enviar(StreamCrear(Emisor[canal].op, Empaquetado(Plan(canal), valores)),
                             Len(Empaquetado(Plan(canal), valores))))
  BY DEF EnviarStream, Plan
<1> DEFINE m == [op |-> Emisor[canal].op, campos |-> valores]
           buf == Empaquetado(Plan(canal), valores)
           cab == <<Emisor[canal].op>>
           largo == Int32(Len(buf))
<1>3. m \in Enviable(canal) /\ m.campos = valores
  BY <1>1 DEF Enviable, Codigo
<1> HIDE DEF m
<1>4. Cuerpo(canal, m) = buf /\ Cabecera(canal) = cab
  BY <1>1, <1>3, PiezasStream DEF Cabecera, Codigo
<1> HIDE DEF buf, cab
<1>5. Trama(canal, m) = (cab ++ largo) ++ buf
  BY <1>4 DEF Trama
<1>6. cab \in Bytes /\ Len(cab) = 1
  <2>1. Emisor[canal].op \in Byte
    BY <1>1, Acuerdo
  <2> QED
    BY <2>1 DEF cab, Bytes
<1>7. buf \in Bytes /\ largo \in Bytes /\ Len(largo) = 4 /\ (cab ++ largo) ++ buf \in Bytes
  <2>1. canal \in Canales
    BY <1>1 DEF Canales
  <2> QED
    BY <1>3, <1>4, <1>5, <2>1, Tramas DEF PiezasCorrectas
<1> HIDE DEF largo
<1>8. Len((cab ++ largo) ++ buf) = 1 + 4 + Len(buf)
  <2>1. cab ++ largo \in Bytes
    BY <1>6, <1>7, Pegar
  <2>2. Len(cab ++ largo) = Len(cab) + Len(largo)
    BY <1>6, <1>7, LenBytes
  <2>3. Len((cab ++ largo) ++ buf) = Len(cab ++ largo) + Len(buf)
    BY <1>7, <2>1, LenBytes
  <2> QED
    BY <1>6, <1>7, <2>2, <2>3
<1>9. stream_enviar((cab ++ largo) ++ buf, Len(buf)) = (cab ++ largo) ++ buf
  <2>1. \A s \in Bytes : SubSeq(s, 1, Len(s)) = s
    BY DEF Bytes
  <2> QED
    BY <1>7, <1>8, <2>1 DEF stream_enviar
<1>10. StreamCrear(Emisor[canal].op, buf) = (cab ++ largo) ++ buf
  BY DEF StreamCrear, cab, largo, ++
<1>11. Envia(Emisor[canal].op, valores, Trama(canal, m))
  BY <1>2, <1>5, <1>9, <1>10 DEF buf
<1>12. enviados' = Append(enviados, m) /\ red' = red ++ Trama(canal, m)
  BY <1>11 DEF Envia, m, ++
<1>13. UNCHANGED <<canal, recibidos, llegado, receptor, op, buffer, campos, corto>>
  BY <1>11 DEF Envia
<1> QED
  BY <1>3, <1>12, <1>13, ConservaEnvio, EnvioEnCola

LEMMA PasoEnviarMensaje == CInv /\ EnviarMensaje => CInv' /\ PasoDeCola
<1> SUFFICES ASSUME CInv, EnviarMensaje PROVE CInv' /\ PasoDeCola
  OBVIOUS
<1>1. canal = "mensaje" /\ canal \notin Streams
  BY DEF EnviarMensaje, Streams, Emisor
<1>2. PICK valores \in Mensajes[canal] : Envia(MENSAJE, valores, enviar_mensaje(valores[1]))
  BY DEF EnviarMensaje
<1> DEFINE m == [op |-> MENSAJE, campos |-> valores]
<1>3. m \in Enviable(canal) /\ m.campos = valores
  BY <1>1 DEF Enviable, Codigo
<1> HIDE DEF m
<1>4. Cuerpo(canal, m) = valores[1] ++ <<0>> /\ Cabecera(canal) = Int32(MENSAJE)
  BY <1>1, <1>3, PiezasMensaje DEF Cabecera, Codigo
<1>5. Trama(canal, m) = enviar_mensaje(valores[1])
  BY <1>4 DEF Trama, enviar_mensaje, serializar_paquete, ++
<1>6. enviados' = Append(enviados, m) /\ red' = red ++ Trama(canal, m)
  BY <1>2, <1>5 DEF Envia, m, ++
<1>7. UNCHANGED <<canal, recibidos, llegado, receptor, op, buffer, campos, corto>>
  BY <1>2 DEF Envia
<1> QED
  BY <1>3, <1>6, <1>7, ConservaEnvio, EnvioEnCola

LEMMA PasoEnviarPaquete == CInv /\ EnviarPaquete => CInv' /\ PasoDeCola
<1> SUFFICES ASSUME CInv, EnviarPaquete PROVE CInv' /\ PasoDeCola
  OBVIOUS
<1>1. canal = "paquete" /\ canal \notin Streams
  BY DEF EnviarPaquete, Streams, Emisor
<1>2. PICK valores \in Mensajes[canal] : Envia(PAQUETE, valores, enviar_paquete(valores))
  BY DEF EnviarPaquete
<1> DEFINE m == [op |-> PAQUETE, campos |-> valores]
<1>3. m \in Enviable(canal) /\ m.campos = valores
  BY <1>1 DEF Enviable, Codigo
<1> HIDE DEF m
<1>4. Cuerpo(canal, m) = Agregados(valores) /\ Cabecera(canal) = Int32(PAQUETE)
  BY <1>1, <1>3, PiezasPaquete DEF Cabecera, Codigo
<1>5. Trama(canal, m) = enviar_paquete(valores)
  BY <1>4 DEF Trama, enviar_paquete, serializar_paquete, ++
<1>6. enviados' = Append(enviados, m) /\ red' = red ++ Trama(canal, m)
  BY <1>2, <1>5 DEF Envia, m, ++
<1>7. UNCHANGED <<canal, recibidos, llegado, receptor, op, buffer, campos, corto>>
  BY <1>2 DEF Envia
<1> QED
  BY <1>3, <1>6, <1>7, ConservaEnvio, EnvioEnCola

\* What changes hands between the network and the receiver is the same bytes.
LEMMA PasoLlega == CInv /\ Llega => CInv' /\ PasoDeCola
<1> SUFFICES ASSUME CInv, Llega PROVE CInv' /\ PasoDeCola
  OBVIOUS
<1>1. PICK n \in 1..Len(red) : /\ llegado' = llegado ++ SubSeq(red, 1, n)
                               /\ red' = SubSeq(red, n + 1, Len(red))
  BY DEF Llega, ++
<1>2. UNCHANGED <<canal, enviados, recibidos, receptor, op, buffer, campos, corto>>
  BY DEF Llega
<1>3. red \in Bytes /\ llegado \in Bytes
  BY DEF CInv, TypeOK, Bytes
<1> DEFINE a == SubSeq(red, 1, n)
           b == SubSeq(red, n + 1, Len(red))
<1>4. a \in Bytes /\ b \in Bytes /\ a ++ b = red
  <2>1. n \in 0..Len(red)
    BY <1>3, LenBytes
  <2> QED
    BY <1>3, <2>1, Partir DEF ++
<1> HIDE DEF a, b
<1>5. llegado' \in Bytes /\ red' \in Bytes
  BY <1>1, <1>3, <1>4, Pegar DEF a, b
<1>6. EnCamino' = EnCamino
  <2>1. EnCamino' = (llegado ++ a) ++ b
    BY <1>1 DEF EnCamino, a, b
  <2> QED
    BY <1>3, <1>4, <2>1, Pegar DEF EnCamino
<1>7. TypeOK' /\ Tipos'
  BY <1>2, <1>5 DEF CInv, TypeOK, Tipos, Secuencia, Bytes
<1>8. Roto' = Roto
  BY <1>2 DEF Roto
<1>9. Flujo' = Flujo
  BY <1>2, <1>6 DEF Flujo, Leyendo, Numero
<1>10. PasoDeCola
  BY <1>2, <1>8 DEF PasoDeCola, Cola!vars
<1> QED
  BY <1>7, <1>8, <1>9, <1>10 DEF CInv

-----------------------------------------------------------------------------
(* Receiving a frame: each recv takes what is at the front of EnCamino.    *)

\* What a recv takes is the beginning of the bytes on the way.
LEMMA Lectura ==
  ASSUME CInv, NEW n \in Nat, Len(llegado) >= 1 \/ n = 0, red' = red,
         llegado' = SubSeq(llegado, Len(Leidos(n)) + 1, Len(llegado))
  PROVE  /\ Leidos(n) \in Bytes /\ llegado' \in Bytes /\ Len(Leidos(n)) <= n
         /\ EnCamino' \in Bytes /\ EnCamino = Leidos(n) ++ EnCamino'
         /\ Len(llegado) >= n => Len(Leidos(n)) = n
<1> DEFINE k == IF n < Len(llegado) THEN n ELSE Len(llegado)
           a == SubSeq(llegado, 1, k)
           b == SubSeq(llegado, k + 1, Len(llegado))
<1>1. llegado \in Bytes /\ red \in Bytes /\ Len(llegado) \in Nat
  <2>1. llegado \in Bytes /\ red \in Bytes
    BY DEF CInv, TypeOK, Bytes
  <2> QED
    BY <2>1, LenBytes
<1>2. k \in 0..Len(llegado) /\ k <= n /\ (Len(llegado) >= n => k = n)
  BY <1>1
<1>3. Leidos(n) = a
  BY DEF Leidos
<1> HIDE DEF k
<1>4. a \in Bytes /\ b \in Bytes /\ Len(a) = k /\ a ++ b = llegado
  BY <1>1, <1>2, Partir DEF ++
<1> HIDE DEF a
<1>5. llegado' = b
  BY <1>3, <1>4
<1> HIDE DEF b
<1>6. EnCamino' = b ++ red /\ EnCamino = (a ++ b) ++ red
  BY <1>4, <1>5 DEF EnCamino
<1>7. EnCamino = a ++ EnCamino' /\ EnCamino' \in Bytes
  BY <1>1, <1>4, <1>6, Pegar
<1> QED
  BY <1>2, <1>3, <1>4, <1>5, <1>7

\* The state of a receiver that is not between frames.
LEMMA EnTrama ==
  ASSUME CInv, ~Roto, receptor # "header"
  PROVE  /\ canal \in Canales /\ Numero \in 1..Len(enviados) /\ Len(enviados) \in Nat
         /\ enviados[Numero] \in Enviable(canal) /\ Leyendo(enviados[Numero])
         /\ Siguientes(canal, enviados, Numero) \in Bytes
<1>1. /\ canal \in Canales /\ enviados \in Seq(Enviable(canal)) /\ Len(recibidos) \in Nat
      /\ Numero <= Len(enviados) /\ Leyendo(enviados[Numero])
  BY Anexar DEF CInv, TypeOK, Tipos, Flujo
<1>2. Len(enviados) \in Nat /\ Numero \in 1..Len(enviados) /\ Numero \in 0..Len(enviados)
  BY <1>1 DEF Numero
<1>3. Siguientes(canal, enviados, Numero) \in Bytes
  BY <1>1, <1>2, SiguientesPaso
<1> QED
  BY <1>1, <1>2, <1>3

\* A whole header is that of the next message.
LEMMA HeaderLeido ==
  ASSUME CInv, ~Roto, receptor = "header", NEW n \in Nat, n = Len(Cabecera(canal)), n >= 1,
         Len(llegado) >= n, UNCHANGED <<red, canal, enviados, recibidos>>,
         llegado' = SubSeq(llegado, Len(Leidos(n)) + 1, Len(llegado))
  PROVE  /\ canal \in Canales /\ campos = <<>> /\ Numero <= Len(enviados)
         /\ enviados[Numero] \in Enviable(canal) /\ Leidos(n) = Cabecera(canal)
         /\ EnCamino' = (Int32(Len(Cuerpo(canal, enviados[Numero])))
                           ++ Cuerpo(canal, enviados[Numero]))
                          ++ Siguientes(canal, enviados, Numero)
<1> DEFINE r == Len(recibidos)
           x == enviados[Numero]
           cab == Cabecera(canal)
           largo == Int32(Len(Cuerpo(canal, x)))
           cuerpo == Cuerpo(canal, x)
           sig == Siguientes(canal, enviados, Numero)
<1>1. /\ canal \in Canales /\ enviados \in Seq(Enviable(canal)) /\ r \in Nat
      /\ r <= Len(enviados) /\ campos = <<>> /\ EnCamino = Siguientes(canal, enviados, r)
  BY Anexar DEF CInv, TypeOK, Tipos, Flujo
<1>2. /\ Leidos(n) \in Bytes /\ EnCamino' \in Bytes /\ EnCamino = Leidos(n) ++ EnCamino'
      /\ Len(Leidos(n)) = n
  <2>1. Len(llegado) >= 1
    <3>1. Len(llegado) \in Nat
      BY DEF CInv, TypeOK
    <3> QED
      BY <3>1
  <2> QED
    BY <2>1, Lectura
<1>3. Len(enviados) \in Nat /\ r \in 0..Len(enviados) /\ Numero = r + 1
  BY <1>1 DEF Numero
<1>4. r # Len(enviados)
  <2> SUFFICES ASSUME r = Len(enviados) PROVE FALSE
    OBVIOUS
  <2>1. EnCamino = <<>>
    BY <1>1, <1>3, SiguientesPaso
  <2>2. Len(EnCamino) = n + Len(EnCamino') /\ Len(EnCamino') \in Nat
    BY <1>2, LenBytes
  <2> QED
    BY <2>1, <2>2
<1>5. Numero <= Len(enviados) /\ Numero \in 0..Len(enviados) /\ r < Len(enviados)
      /\ x \in Enviable(canal)
  BY <1>1, <1>3, <1>4
<1>6. EnCamino = Trama(canal, x) ++ sig
  BY <1>1, <1>3, <1>5, SiguientesPaso
<1>7. sig \in Bytes
  BY <1>1, <1>5, SiguientesPaso
<1>8. cab \in Bytes /\ largo \in Bytes /\ cuerpo \in Bytes
  <2> HIDE DEF x
  <2> QED
    BY <1>1, <1>5, Tramas DEF PiezasCorrectas
<1>9. Trama(canal, x) = (cab ++ largo) ++ cuerpo
  BY DEF Trama
<1> HIDE DEF cab, largo, cuerpo, sig, x, r
<1>10. EnCamino = cab ++ ((largo ++ cuerpo) ++ sig) /\ (largo ++ cuerpo) ++ sig \in Bytes
  BY <1>6, <1>7, <1>8, <1>9, Pegar
<1>11. Leidos(n) = cab /\ EnCamino' = (largo ++ cuerpo) ++ sig
  <2>1. Len(Leidos(n)) = Len(cab)
    BY <1>2 DEF cab
  <2>2. Leidos(n) ++ EnCamino' = cab ++ ((largo ++ cuerpo) ++ sig)
    BY <1>2, <1>10
  <2>3. Leidos(n) \in Bytes /\ EnCamino' \in Bytes
    BY <1>2
  <2> DEFINE resto == (largo ++ cuerpo) ++ sig
  <2>4. resto \in Bytes /\ Leidos(n) ++ EnCamino' = cab ++ resto
    BY <1>10, <2>2
  <2> HIDE DEF resto
  <2>5. Leidos(n) = cab /\ EnCamino' = resto
    BY <1>8, <2>1, <2>3, <2>4, Cortar
  <2> QED
    BY <2>5 DEF resto
<1> QED
  BY <1>1, <1>5, <1>11 DEF cab, largo, cuerpo, sig, x

\* And a whole length, that of its body.
LEMMA TamanioLeido ==
  ASSUME CInv, ~Roto, receptor = "tamanio", Len(llegado) >= 4,
         UNCHANGED <<red, canal, enviados, recibidos>>,
         llegado' = SubSeq(llegado, Len(Leidos(4)) + 1, Len(llegado))
  PROVE  /\ Entero(Leidos(4)) = Len(Cuerpo(canal, enviados[Numero]))
         /\ EnCamino' = Cuerpo(canal, enviados[Numero]) ++ Siguientes(canal, enviados, Numero)
<1> DEFINE x == enviados[Numero]
           largo == Int32(Len(Cuerpo(canal, x)))
           cuerpo == Cuerpo(canal, x)
           sig == Siguientes(canal, enviados, Numero)
<1>1. canal \in Canales /\ x \in Enviable(canal) /\ Leyendo(x) /\ sig \in Bytes
  BY EnTrama
<1>2. EnCamino = (largo ++ cuerpo) ++ sig
  BY <1>1 DEF Leyendo
<1>3. /\ Leidos(4) \in Bytes /\ EnCamino' \in Bytes /\ EnCamino = Leidos(4) ++ EnCamino'
      /\ Len(Leidos(4)) = 4
  <2>1. Len(llegado) >= 1
    <3>1. Len(llegado) \in Nat
      BY DEF CInv, TypeOK
    <3> QED
      BY <3>1
  <2> QED
    BY <2>1, Lectura
<1>4. largo \in Bytes /\ cuerpo \in Bytes /\ Len(largo) = 4 /\ Entero(largo) = Len(cuerpo)
  <2> HIDE DEF x
  <2> QED
    BY <1>1, Tramas DEF PiezasCorrectas
<1> HIDE DEF largo, cuerpo, sig, x
<1>5. EnCamino = largo ++ (cuerpo ++ sig) /\ cuerpo ++ sig \in Bytes
  BY <1>1, <1>2, <1>4, Pegar
<1>6. Leidos(4) = largo /\ EnCamino' = cuerpo ++ sig
  <2>1. Len(Leidos(4)) = Len(largo)
    BY <1>3, <1>4
  <2> QED
    BY <1>3, <1>4, <1>5, <2>1, Cortar
<1> QED
  BY <1>4, <1>6 DEF largo, cuerpo, sig, x

\* And a whole body, it.
LEMMA CuerpoLeido ==
  ASSUME CInv, ~Roto, receptor = "cuerpo", Len(llegado) >= 1 \/ buffer.size = 0,
         Len(llegado) >= buffer.size, UNCHANGED <<red, canal, enviados, recibidos>>,
         llegado' = SubSeq(llegado, Len(Leidos(buffer.size)) + 1, Len(llegado))
  PROVE  /\ Leidos(buffer.size) = Cuerpo(canal, enviados[Numero])
         /\ buffer.size = Len(Leidos(buffer.size))
         /\ EnCamino' = Siguientes(canal, enviados, Numero)
<1> DEFINE x == enviados[Numero]
           n == buffer.size
           cuerpo == Cuerpo(canal, x)
           sig == Siguientes(canal, enviados, Numero)
<1>1. canal \in Canales /\ x \in Enviable(canal) /\ Leyendo(x) /\ sig \in Bytes
  BY EnTrama
<1>2. EnCamino = cuerpo ++ sig /\ n = Len(cuerpo)
  BY <1>1 DEF Leyendo
<1>3. /\ Leidos(n) \in Bytes /\ EnCamino' \in Bytes /\ EnCamino = Leidos(n) ++ EnCamino'
      /\ Len(Leidos(n)) = n
  <2>1. n \in Nat
    BY DEF CInv, Tipos
  <2> QED
    BY <2>1, Lectura
<1>4. cuerpo \in Bytes
  <2> HIDE DEF x
  <2> QED
    BY <1>1, Tramas DEF PiezasCorrectas
<1> HIDE DEF n, cuerpo, sig
<1>5. Leidos(n) = cuerpo /\ EnCamino' = sig
  BY <1>1, <1>2, <1>3, <1>4, Cortar
<1> QED
  BY <1>2, <1>3, <1>5 DEF n, cuerpo, sig

\* A step that delivers nothing either leaves the connection as it was or breaks it.
LEMMA NadaEnCola ==
  ASSUME corto \in BOOLEAN, corto' \in BOOLEAN, corto => corto',
         UNCHANGED <<canal, enviados, recibidos>>
  PROVE  PasoDeCola
<1>1. CASE Roto'
  BY <1>1 DEF PasoDeCola, Cola!Next, Cola!Romperse
<1>2. CASE ~Roto'
  <2>1. ~Roto
    BY <1>2 DEF Roto
  <2>2. Roto' = Roto
    BY <1>2, <2>1 DEF Roto
  <2> QED
    BY <2>2 DEF PasoDeCola, Cola!vars
<1> QED
  BY <1>1, <1>2

\* The header of a stream.
LEMMA PasoHeaderStream == CInv /\ stream_recibir_header => CInv' /\ PasoDeCola
<1> SUFFICES ASSUME CInv, stream_recibir_header PROVE CInv' /\ PasoDeCola
  OBVIOUS
<1>1. /\ canal \in Streams /\ Len(llegado) >= 1 /\ receptor = "header"
      /\ receptor' = IF Head(llegado) \in Receptor[canal].acepta THEN "tamanio"
                     ELSE Receptor[canal].otro
      /\ op' = Head(llegado)
      /\ llegado' = SubSeq(llegado, Len(Leidos(1)) + 1, Len(llegado))
  BY DEF stream_recibir_header, HayPara, Recv
<1>2. UNCHANGED <<canal, enviados, recibidos, red, campos, buffer, corto>>
  BY DEF stream_recibir_header, Recv
<1>3. /\ Leidos(1) \in Bytes /\ llegado' \in Bytes /\ Len(Leidos(1)) = 1
  BY <1>1, <1>2, Lectura
<1>4. Leidos(1) = <<Head(llegado)>> /\ Head(llegado) \in Byte
  <2>1. llegado \in Seq(Byte) /\ Len(llegado) \in Nat
    BY DEF CInv, TypeOK
  <2>2. Leidos(1) = SubSeq(llegado, 1, 1)
    BY <1>1, <2>1 DEF Leidos
  <2> QED
    BY <1>1, <2>1, <2>2
<1>5. receptor' \in {"header", "tamanio", "caido"}
  <2>1. canal \in {"proceso_nuevo", "contexto", "fetch", "instruccion", "interfaz"}
    BY <1>1 DEF Streams, Emisor
  <2>2. Receptor[canal].otro \in {"header", "caido"}
    BY <2>1 DEF Receptor, atender_proceso_nuevo, atender_peticiones_kernel,
                enviar_instruccion_a_Cpu, rastrear_instruccion, escuchar_conexiones_IO
  <2> QED
    BY <1>1, <2>2
<1>6. TypeOK'
  <2>1. op' \in Nat
    BY <1>1, <1>4, ByteNat
  <2> QED
    BY <1>2, <1>3, <1>5, <2>1 DEF CInv, TypeOK, Bytes
<1>7. Tipos'
  BY <1>2, <1>5 DEF CInv, Tipos, Secuencia
<1>8. ASSUME ~Roto' PROVE Flujo'
  <2> DEFINE x == enviados[Numero]
  <2>1. ~Roto
    BY <1>2, <1>8 DEF Roto
  <2>2. Cabecera(canal) = <<Codigo(canal)>> /\ Len(Cabecera(canal)) = 1
    BY <1>1 DEF Cabecera
  <2>3. /\ campos = <<>> /\ Numero <= Len(enviados) /\ Leidos(1) = Cabecera(canal)
        /\ EnCamino' = (Int32(Len(Cuerpo(canal, x))) ++ Cuerpo(canal, x))
                         ++ Siguientes(canal, enviados, Numero)
    BY <1>1, <1>2, <2>1, <2>2, HeaderLeido
  <2>4. op' = Codigo(canal)
    BY <1>1, <1>4, <2>2, <2>3
  <2>5. receptor' = "tamanio"
    <3>1. op' \in Receptor[canal].acepta
      BY <1>1, <2>4, Acuerdo DEF Codigo
    <3> QED
      BY <1>1, <3>1
  <2> QED
    BY <1>2, <2>3, <2>4, <2>5 DEF Flujo, Leyendo, Numero
<1>9. PasoDeCola
  BY <1>2, NadaEnCola DEF CInv, TypeOK
<1> QED
  BY <1>6, <1>7, <1>8, <1>9 DEF CInv

\* The length of a stream, and zero for what has not arrived of it.
LEMMA PasoTamanioStream == CInv /\ stream_recibir_buffer_size => CInv' /\ PasoDeCola
<1> SUFFICES ASSUME CInv, stream_recibir_buffer_size PROVE CInv' /\ PasoDeCola
  OBVIOUS
<1> DEFINE n == Entero(Leidos(4))
<1>1. /\ canal \in Streams /\ Len(llegado) >= 1 /\ receptor = "tamanio"
      /\ receptor' = (IF n > 0 THEN "cuerpo" ELSE "desempaquetar")
      /\ buffer' = [size |-> n, datos |-> <<>>]
      /\ corto' = (corto \/ Len(llegado) < 4)
      /\ llegado' = SubSeq(llegado, Len(Leidos(4)) + 1, Len(llegado))
  BY DEF stream_recibir_buffer_size, HayPara, Recv
<1>2. UNCHANGED <<canal, enviados, recibidos, red, campos, op>>
  BY DEF stream_recibir_buffer_size, Recv
<1>3. Leidos(4) \in Bytes /\ llegado' \in Bytes
  BY <1>1, <1>2, Lectura
<1>4. n \in Int
  BY <1>3, EnteroInt
<1> HIDE DEF n
<1>5. TypeOK'
  <2>1. buffer'.size \in Int /\ buffer'.datos \in Seq(Dato) /\ buffer'.datos = <<>>
    BY <1>1, <1>4
  <2> QED
    BY <1>1, <1>2, <1>3, <2>1 DEF CInv, TypeOK, Bytes
<1>6. Tipos'
  <2>1. buffer' = [size |-> buffer'.size, datos |-> buffer'.datos]
    BY <1>1
  <2>2. receptor' = "cuerpo" => buffer'.size \in Nat
    BY <1>1, <1>4
  <2> QED
    BY <1>2, <2>1, <2>2 DEF CInv, Tipos, Secuencia
<1>7. ASSUME ~Roto' PROVE Flujo'
  <2> DEFINE x == enviados[Numero]
             cuerpo == Cuerpo(canal, x)
             sig == Siguientes(canal, enviados, Numero)
  <2>1. ~Roto /\ ~(Len(llegado) < 4)
    BY <1>1, <1>2, <1>7 DEF Roto
  <2>2. Len(llegado) >= 4
    <3>1. Len(llegado) \in Nat
      BY DEF CInv, TypeOK
    <3> QED
      BY <2>1, <3>1
  <2>3. n = Len(cuerpo) /\ EnCamino' = cuerpo ++ sig
    BY <1>1, <1>2, <2>1, <2>2, TamanioLeido DEF n
  <2>4. /\ Numero \in 1..Len(enviados) /\ Len(enviados) \in Nat /\ Leyendo(x) /\ sig \in Bytes
        /\ PiezasCorrectas(canal, x)
    <3>1. /\ Numero \in 1..Len(enviados) /\ Len(enviados) \in Nat /\ Leyendo(x)
          /\ sig \in Bytes /\ canal \in Canales /\ x \in Enviable(canal)
      BY <1>1, <2>1, EnTrama
    <3> HIDE DEF x
    <3> QED
      BY <3>1, Tramas
  <2>5. op = Codigo(canal) /\ campos = <<>>
    BY <1>1, <2>4 DEF Leyendo
  <2>6. x' = x /\ Numero' = Numero /\ sig' = sig /\ cuerpo' = cuerpo
    BY <1>2 DEF Numero
  <2> HIDE DEF x, sig
  <2>7. Leyendo(x)'
    <3>1. CASE n > 0
      <4>1. receptor' = "cuerpo" /\ buffer'.size = n
        BY <1>1, <3>1
      <4> QED
        BY <1>2, <2>3, <2>5, <2>6, <4>1 DEF Leyendo, sig
    <3>2. CASE ~(n > 0)
      <4> DEFINE largo == Len(cuerpo)
      <4>0. n = 0
        <5>1. largo \in Nat /\ n = largo
          BY <2>3, <2>4 DEF PiezasCorrectas, Bytes
        <5> HIDE DEF largo
        <5> QED
          BY <3>2, <5>1
      <4>1. receptor' = "desempaquetar" /\ buffer'.size = 0 /\ buffer'.datos = <<>>
        BY <1>1, <3>2, <4>0
      <4>2. cuerpo = <<>>
        <5>1. Len(cuerpo) = 0 /\ cuerpo \in Seq(Byte)
          BY <2>3, <2>4, <4>0 DEF PiezasCorrectas, Bytes
        <5> HIDE DEF cuerpo
        <5> QED
          BY <5>1
      <4>3. EnCamino' = sig
        BY <2>3, <2>4, <4>2, Pegar
      <4>4. Len(campos) = 0 /\ 0 <= Len(Piezas(canal, x)) /\ 0 \in 0..Len(Piezas(canal, x))
        BY <2>4, <2>5 DEF PiezasCorrectas
      <4>5. Restan(canal, x, Len(campos)) = <<>>
        BY <2>4, <4>2, <4>4, RestanPaso
      <4>6. buffer'.size = Len(buffer'.datos)
        BY <4>1
      <4> QED
        BY <1>2, <2>5, <2>6, <4>1, <4>3, <4>4, <4>5, <4>6 DEF Leyendo, sig
    <3> QED
      BY <3>1, <3>2
  <2> QED
    BY <1>1, <1>2, <2>4, <2>6, <2>7 DEF Flujo, x
<1>8. PasoDeCola
  <2>1. corto \in BOOLEAN /\ corto' \in BOOLEAN
    BY <1>1 DEF CInv, TypeOK
  <2> QED
    BY <1>1, <1>2, <2>1, NadaEnCola
<1> QED
  BY <1>5, <1>6, <1>7, <1>8 DEF CInv

\* With the whole body in the buffer, all its pieces are left to unpack.
LEMMA PasoCuerpo ==
  ASSUME CInv, receptor = "cuerpo", receptor' = "desempaquetar",
         Len(llegado) >= 1 \/ buffer.size = 0, corto' \in BOOLEAN, corto => corto',
         ~Roto' => Len(llegado) >= buffer.size,
         UNCHANGED <<canal, enviados, recibidos, red, campos, op>>,
         buffer' = [buffer EXCEPT !.datos = Leidos(buffer.size)],
         llegado' = SubSeq(llegado, Len(Leidos(buffer.size)) + 1, Len(llegado))
  PROVE  CInv' /\ PasoDeCola
<1>1. buffer.size \in Nat
  BY DEF CInv, Tipos
<1>2. /\ Leidos(buffer.size) \in Bytes /\ llegado' \in Bytes
      /\ Len(Leidos(buffer.size)) <= buffer.size
  BY <1>1, Lectura
<1>3. /\ buffer' = [size |-> buffer'.size, datos |-> buffer'.datos]
      /\ buffer'.size = buffer.size /\ buffer'.datos = Leidos(buffer.size)
  <2>1. buffer = [size |-> buffer.size, datos |-> buffer.datos]
    BY DEF CInv, Tipos
  <2> QED
    BY <2>1
<1>4. TypeOK'
  <2>1. buffer'.datos \in Seq(Dato)
    <3>1. Leidos(buffer.size) \in Seq(Byte)
      BY <1>2 DEF Bytes
    <3> QED
      BY <1>3, <3>1 DEF Dato
  <2> QED
    BY <1>1, <1>2, <1>3, <2>1 DEF CInv, TypeOK, Bytes
<1>5. Tipos'
  BY <1>3 DEF CInv, Tipos, Secuencia
<1>6. ASSUME ~Roto' PROVE Flujo'
  <2> DEFINE x == enviados[Numero]
             sig == Siguientes(canal, enviados, Numero)
  <2>1. ~Roto
    BY <1>6 DEF Roto
  <2>2. /\ Leidos(buffer.size) = Cuerpo(canal, x) /\ buffer.size = Len(Leidos(buffer.size))
        /\ EnCamino' = sig
    BY <1>6, <2>1, CuerpoLeido
  <2>3. /\ Numero \in 1..Len(enviados) /\ Len(enviados) \in Nat /\ Leyendo(x)
        /\ PiezasCorrectas(canal, x)
    <3>1. /\ Numero \in 1..Len(enviados) /\ Len(enviados) \in Nat /\ Leyendo(x)
          /\ canal \in Canales /\ x \in Enviable(canal)
      BY <2>1, EnTrama
    <3> HIDE DEF x
    <3> QED
      BY <3>1, Tramas
  <2>4. op = Codigo(canal) /\ campos = <<>>
    BY <2>3 DEF Leyendo
  <2>5. x' = x /\ Numero' = Numero /\ sig' = sig
    BY DEF Numero
  <2> HIDE DEF x, sig
  <2>6. Len(campos) = 0 /\ 0 <= Len(Piezas(canal, x)) /\ 0 \in 0..Len(Piezas(canal, x))
    BY <2>3, <2>4 DEF PiezasCorrectas
  <2>7. Restan(canal, x, Len(campos)) = Cuerpo(canal, x)
    BY <2>3, <2>6, RestanPaso
  <2>8. Leyendo(x)'
    BY <1>3, <2>2, <2>4, <2>5, <2>6, <2>7 DEF Leyendo, sig
  <2> QED
    BY <2>3, <2>5, <2>8 DEF Flujo, x
<1>7. PasoDeCola
  BY NadaEnCola DEF CInv, TypeOK
<1> QED
  BY <1>4, <1>5, <1>6, <1>7 DEF CInv

LEMMA PasoCuerpoStream == CInv /\ stream_recibir_buffer_stream => CInv' /\ PasoDeCola
<1> SUFFICES ASSUME CInv, stream_recibir_buffer_stream PROVE CInv' /\ PasoDeCola
  OBVIOUS
<1>1. /\ receptor = "cuerpo" /\ receptor' = "desempaquetar" /\ Len(llegado) >= 1
      /\ UNCHANGED <<canal, enviados, recibidos, red, campos, op>>
      /\ buffer' = [buffer EXCEPT !.datos = Leidos(buffer.size)]
      /\ llegado' = SubSeq(llegado, Len(Leidos(buffer.size)) + 1, Len(llegado))
      /\ corto' = (corto \/ Len(llegado) < buffer.size) /\ canal \in Streams
  BY DEF stream_recibir_buffer_stream, HayPara, Recv
<1>2. ~Roto' => Len(llegado) >= buffer.size
  <2>1. Len(llegado) \in Nat /\ buffer.size \in Nat
    BY <1>1 DEF CInv, TypeOK, Tipos
  <2>2. ~Roto' => ~(Len(llegado) < buffer.size)
    BY <1>1 DEF Roto
  <2> QED
    BY <2>1, <2>2
<1>3. corto' \in BOOLEAN /\ (corto => corto')
  BY <1>1
<1> QED
  BY <1>1, <1>2, <1>3, PasoCuerpo

LEMMA PasoCuerpoPaquete == CInv /\ recibir_buffer_stream => CInv' /\ PasoDeCola
<1> SUFFICES ASSUME CInv, recibir_buffer_stream PROVE CInv' /\ PasoDeCola
  OBVIOUS
<1>1. /\ receptor = "cuerpo" /\ receptor' = "desempaquetar" /\ Len(llegado) >= buffer.size
      /\ UNCHANGED <<canal, enviados, recibidos, red, campos, op, corto>>
      /\ buffer' = [buffer EXCEPT !.datos = Leidos(buffer.size)]
      /\ llegado' = SubSeq(llegado, Len(Leidos(buffer.size)) + 1, Len(llegado))
  BY DEF recibir_buffer_stream, HayPara, Recv
<1>2. Len(llegado) >= 1 \/ buffer.size = 0
  <2>1. Len(llegado) \in Nat /\ buffer.size \in Nat
    BY <1>1 DEF CInv, TypeOK, Tipos
  <2> QED
    BY <1>1, <2>1
<1>3. corto' \in BOOLEAN /\ (corto => corto')
  BY <1>1 DEF CInv, TypeOK
<1> QED
  BY <1>1, <1>2, <1>3, PasoCuerpo

\* The code and the length of a mensaje or a paquete, which arrive whole.
LEMMA PasoOperacion == CInv /\ recibir_operacion => CInv' /\ PasoDeCola
<1> SUFFICES ASSUME CInv, recibir_operacion PROVE CInv' /\ PasoDeCola
  OBVIOUS
<1>1. /\ canal \notin Streams /\ Len(llegado) >= 4 /\ receptor = "header"
      /\ receptor' = "tamanio" /\ op' = Entero(Leidos(4))
      /\ llegado' = SubSeq(llegado, Len(Leidos(4)) + 1, Len(llegado))
  BY DEF recibir_operacion, HayPara, Recv
<1>2. UNCHANGED <<canal, enviados, recibidos, red, campos, buffer, corto>>
  BY DEF recibir_operacion, Recv
<1>3. Leidos(4) \in Bytes /\ llegado' \in Bytes
  <2>1. Len(llegado) \in Nat
    BY DEF CInv, TypeOK
  <2>2. Len(llegado) >= 1
    BY <1>1, <2>1
  <2> QED
    BY <1>1, <1>2, <2>2, Lectura
<1>4. TypeOK'
  <2>1. op' \in Int
    BY <1>1, <1>3, EnteroInt
  <2> QED
    BY <1>1, <1>2, <1>3, <2>1 DEF CInv, TypeOK, Bytes
<1>5. Tipos'
  BY <1>1, <1>2 DEF CInv, Tipos, Secuencia
<1>6. ~Roto /\ ~Roto'
  BY <1>1, <1>2 DEF Roto
<1>7. Flujo'
  <2> DEFINE x == enviados[Numero]
  <2>1. /\ Cabecera(canal) = Int32(Codigo(canal)) /\ Len(Cabecera(canal)) = 4
        /\ Entero(Cabecera(canal)) = Codigo(canal)
    <3>1. Cabecera(canal) = Int32(Codigo(canal)) /\ Codigo(canal) \in {1, 2}
      BY <1>1 DEF Cabecera, Codigo, MENSAJE, PAQUETE
    <3> QED
      BY <3>1, Enteros, MaxIntNat
  <2>2. /\ campos = <<>> /\ Numero <= Len(enviados) /\ Leidos(4) = Cabecera(canal)
        /\ EnCamino' = (Int32(Len(Cuerpo(canal, x))) ++ Cuerpo(canal, x))
                         ++ Siguientes(canal, enviados, Numero)
    BY <1>1, <1>2, <1>6, <2>1, HeaderLeido
  <2>3. op' = Codigo(canal)
    BY <1>1, <2>1, <2>2
  <2> QED
    BY <1>1, <1>2, <2>2, <2>3 DEF Flujo, Leyendo, Numero
<1>8. PasoDeCola
  BY <1>2, NadaEnCola DEF CInv, TypeOK
<1> QED
  BY <1>4, <1>5, <1>7, <1>8 DEF CInv

LEMMA PasoTamanioPaquete == CInv /\ recibir_buffer_size => CInv' /\ PasoDeCola
<1> SUFFICES ASSUME CInv, recibir_buffer_size PROVE CInv' /\ PasoDeCola
  OBVIOUS
<1> DEFINE n == Entero(Leidos(4))
<1>1. /\ canal \notin Streams /\ Len(llegado) >= 4 /\ receptor = "tamanio"
      /\ receptor' = "cuerpo" /\ buffer' = [size |-> n, datos |-> <<>>]
      /\ llegado' = SubSeq(llegado, Len(Leidos(4)) + 1, Len(llegado))
  BY DEF recibir_buffer_size, HayPara, Recv
<1>2. UNCHANGED <<canal, enviados, recibidos, red, campos, op, corto>>
  BY DEF recibir_buffer_size, Recv
<1>3. Leidos(4) \in Bytes /\ llegado' \in Bytes
  <2>1. Len(llegado) \in Nat
    BY DEF CInv, TypeOK
  <2>2. Len(llegado) >= 1
    BY <1>1, <2>1
  <2> QED
    BY <1>1, <1>2, <2>2, Lectura
<1>4. n \in Nat
  <2>1. ~Roto
    BY <1>1 DEF Roto
  <2>2. n = Len(Cuerpo(canal, enviados[Numero]))
    BY <1>1, <1>2, <2>1, TamanioLeido
  <2>3. PICK x \in Enviable(canal) : x = enviados[Numero]
    BY <1>1, <2>1, EnTrama
  <2>4. canal \in Canales
    BY DEF CInv, TypeOK
  <2>5. Cuerpo(canal, x) \in Bytes
    BY <2>4, Tramas DEF PiezasCorrectas
  <2> QED
    BY <2>2, <2>3, <2>5, LenBytes
<1> HIDE DEF n
<1>5. TypeOK'
  <2>1. /\ buffer'.size = n /\ buffer'.size \in Nat /\ buffer'.datos \in Seq(Dato)
        /\ Len(buffer'.datos) <= buffer'.size
    BY <1>1, <1>4
  <2> QED
    BY <1>1, <1>2, <1>3, <2>1 DEF CInv, TypeOK, Bytes
<1>6. Tipos'
  <2>1. buffer' = [size |-> buffer'.size, datos |-> buffer'.datos]
    BY <1>1
  <2>2. buffer'.size \in Nat
    BY <1>1, <1>4
  <2> QED
    BY <1>2, <2>1, <2>2 DEF CInv, Tipos, Secuencia
<1>7. ~Roto /\ ~Roto'
  BY <1>1, <1>2 DEF Roto
<1>8. Flujo'
  <2> DEFINE x == enviados[Numero]
             cuerpo == Cuerpo(canal, x)
             sig == Siguientes(canal, enviados, Numero)
  <2>1. n = Len(cuerpo) /\ EnCamino' = cuerpo ++ sig
    BY <1>1, <1>2, <1>7, TamanioLeido DEF n
  <2>2. Numero \in 1..Len(enviados) /\ Len(enviados) \in Nat /\ Leyendo(x)
    BY <1>1, <1>7, EnTrama
  <2>3. op = Codigo(canal) /\ campos = <<>>
    BY <1>1, <2>2 DEF Leyendo
  <2>4. x' = x /\ Numero' = Numero /\ sig' = sig /\ cuerpo' = cuerpo
    BY <1>2 DEF Numero
  <2>5. buffer'.size = n
    BY <1>1
  <2> HIDE DEF x, sig
  <2>6. Leyendo(x)'
    BY <1>1, <1>2, <2>1, <2>3, <2>4, <2>5 DEF Leyendo, sig
  <2> QED
    BY <1>1, <1>2, <2>2, <2>4, <2>6 DEF Flujo, x
<1>9. PasoDeCola
  BY <1>2, NadaEnCola DEF CInv, TypeOK
<1> QED
  BY <1>5, <1>6, <1>8, <1>9 DEF CInv

-----------------------------------------------------------------------------
(* Unpacking: what is at the front of the buffer.                          *)

\* The second of two sequences, taken out of both.
LEMMA Juntos ==
  \A a, b \in Bytes :
     /\ \A i \in 1..Len(a) : (a ++ b)[i] = a[i]
     /\ \A i \in 1..Len(b) : (a ++ b)[Len(a) + i] = b[i]
     /\ SubSeq(a ++ b, Len(a) + 1, Len(a) + Len(b)) = b
<1> SUFFICES ASSUME NEW a \in Seq(Byte), NEW b \in Seq(Byte)
             PROVE  /\ \A i \in 1..Len(a) : (a \o b)[i] = a[i]
                    /\ \A i \in 1..Len(b) : (a \o b)[Len(a) + i] = b[i]
                    /\ SubSeq(a \o b, Len(a) + 1, Len(a) + Len(b)) = b
  BY DEF Bytes, ++
<1>1. \A i \in 1..Len(a) : (a \o b)[i] = a[i]
  BY PrefijoConcatenado
<1>2. \A i \in 1..Len(b) : (a \o b)[Len(a) + i] = b[i]
  <2> TAKE i \in 1..Len(b)
  <2> DEFINE j == Len(a) + i
  <2>1. j \in 1..(Len(a) + Len(b)) /\ ~(j <= Len(a)) /\ j - Len(a) = i
    <3>1. Len(a) \in Nat /\ Len(b) \in Nat
      OBVIOUS
    <3> QED
      BY <3>1, MasAlla
  <2> HIDE DEF j
  <2>2. (a \o b)[j] = b[j - Len(a)]
    BY <2>1, SufijoConcatenado
  <2> QED
    BY <2>1, <2>2 DEF j
<1>3. SubSeq(a \o b, Len(a) + 1, Len(a) + Len(b)) = b
  <2> DEFINE s == a \o b
             p == SubSeq(s, 1, Len(a))
             q == SubSeq(s, Len(a) + 1, Len(s))
  <2>1. s \in Bytes /\ Len(s) = Len(a) + Len(b) /\ Len(a) \in 0..Len(s)
    BY DEF Bytes
  <2> HIDE DEF s
  <2>2. p \in Bytes /\ q \in Bytes /\ Len(p) = Len(a) /\ p \o q = s
    BY <2>1, Partir
  <2>3. a \in Bytes /\ b \in Bytes
    BY DEF Bytes
  <2> HIDE DEF p, q
  <2>4. q = b
    BY <2>2, <2>3, Corte DEF s
  <2> QED
    BY <2>1, <2>4 DEF q, s
<1> QED
  BY <1>1, <1>2, <1>3

\* Sequences that agree up to n agree on every stretch that ends there.
LEMMA MismoTramo ==
  ASSUME NEW s \in Seq(Byte), NEW c \in Seq(Byte), NEW m \in Nat, NEW n \in Nat,
         n <= Len(s), n <= Len(c), \A i \in 1..n : s[i] = c[i]
  PROVE  SubSeq(s, m + 1, n) = SubSeq(c, m + 1, n)
<1> DEFINE p == SubSeq(s, m + 1, n)
           q == SubSeq(c, m + 1, n)
<1>1. \A i \in (m + 1)..n : s[i] = c[i] /\ s[i] \in Byte /\ c[i] \in Byte
  OBVIOUS
<1>2. m + 1 \in Int /\ n \in Int
  OBVIOUS
<1>3. /\ p \in Seq(Byte) /\ Len(p) = IF m + 1 <= n THEN n - (m + 1) + 1 ELSE 0
      /\ \A i \in 1..(n - (m + 1) + 1) : p[i] = s[(m + 1) + i - 1]
  BY <1>1, <1>2, SubSeqProperties
<1>4. /\ q \in Seq(Byte) /\ Len(q) = IF m + 1 <= n THEN n - (m + 1) + 1 ELSE 0
      /\ \A i \in 1..(n - (m + 1) + 1) : q[i] = c[(m + 1) + i - 1]
  BY <1>1, <1>2, SubSeqProperties
<1> HIDE DEF p, q
<1>5. \A i \in 1..Len(p) : p[i] = q[i]
  <2> TAKE i \in 1..Len(p)
  <2>1. i \in 1..(n - (m + 1) + 1) /\ (m + 1) + i - 1 \in (m + 1)..n
    BY <1>3
  <2> QED
    BY <1>1, <1>3, <1>4, <2>1
<1>6. p = q
  BY <1>3, <1>4, <1>5, SeqEqual
<1> QED
  BY <1>6 DEF p, q

LEMMA Medio ==
  \A a, v, b \in Bytes :
     SubSeq((a ++ v) ++ b, Len(a) + 1, Len(a) + Len(v)) = v
<1> TAKE a, v, b \in Bytes
<1> DEFINE c == a ++ v
           s == c ++ b
           n == Len(a) + Len(v)
<1>1. Len(a) \in Nat /\ Len(v) \in Nat /\ Len(b) \in Nat
  BY LenBytes
<1>2. c \in Bytes /\ s \in Bytes
  BY Pegar
<1>3. Len(c) = n
  BY LenBytes
<1>4. SubSeq(c, Len(a) + 1, n) = v
  BY Juntos
<1> HIDE DEF c
<1>5. Len(s) = n + Len(b)
  <2>1. Len(s) = Len(c) + Len(b)
    BY <1>2, LenBytes
  <2> QED
    BY <1>3, <2>1
<1>6. \A i \in 1..n : s[i] = c[i]
  <2>1. \A i \in 1..Len(c) : (c ++ b)[i] = c[i]
    BY <1>2, Juntos
  <2> QED
    BY <1>3, <2>1
<1> HIDE DEF s
<1>7. SubSeq(s, Len(a) + 1, n) = SubSeq(c, Len(a) + 1, n)
  <2>1. s \in Seq(Byte) /\ c \in Seq(Byte) /\ n \in Nat /\ n <= Len(s)
    BY <1>1, <1>2, <1>5 DEF Bytes
  <2> HIDE DEF n
  <2> QED
    BY <1>1, <1>3, <1>6, <2>1, MismoTramo, n <= Len(c)
<1> QED
  BY <1>4, <1>7 DEF s, c

LEMMA Tomar ==
  ASSUME NEW a \in Bytes, NEW b \in Bytes, buffer.datos = a ++ b,
         buffer.size = Len(buffer.datos)
  PROVE  /\ Tomados(Len(a)) = a /\ Resto(Len(a)) = [size |-> Len(b), datos |-> b]
         /\ buffer.size = Len(a) + Len(b)
<1>1. Len(a) \in Nat /\ Len(b) \in Nat
  BY LenBytes
<1>2. Len(a ++ b) = Len(a) + Len(b)
  BY LenBytes
<1>3. \A i \in 1..Len(a) : (a ++ b)[i] = a[i]
  BY Juntos
<1>4. SubSeq(a ++ b, Len(a) + 1, Len(a) + Len(b)) = b
  BY Juntos
<1> DEFINE d == buffer.datos
<1>5. d = a ++ b
  OBVIOUS
<1> HIDE DEF d
<1>6. Tomados(Len(a)) = a
  <2>1. Tomados(Len(a)) = [i \in 1..Len(a) |-> IF i <= Len(d) THEN d[i] ELSE BASURA]
    BY DEF Tomados, d
  <2>2. \A i \in 1..Len(a) : i <= Len(d) /\ d[i] = a[i]
    <3> TAKE i \in 1..Len(a)
    <3>1. i <= Len(a) + Len(b)
      BY <1>1
    <3>2. Len(d) = Len(a) + Len(b)
      BY <1>2, <1>5
    <3>3. d[i] = a[i]
      BY <1>3, <1>5
    <3> QED
      BY <3>1, <3>2, <3>3
  <2>3. Tomados(Len(a)) = [i \in 1..Len(a) |-> a[i]]
    BY <2>1, <2>2
  <2>4. a = [i \in 1..Len(a) |-> a[i]]
    BY DEF Bytes
  <2> QED
    BY <2>3, <2>4
<1>7. buffer.size - Len(a) = Len(b) /\ Len(d) = Len(a) + Len(b) /\ buffer.size = Len(a) + Len(b)
  <2>1. Len(d) = Len(a) + Len(b)
    BY <1>2, <1>5
  <2>2. buffer.size = Len(d)
    BY DEF d
  <2> QED
    BY <1>1, <2>1, <2>2
<1>8. SubSeq(d, Len(a) + 1, Len(d)) = b
  BY <1>4, <1>5, <1>7
<1> QED
  BY <1>6, <1>7, <1>8 DEF Resto, d

\* Up to the final zero, whose place is the first with a zero.
LEMMA CadenaEntera ==
  ASSUME NEW a \in Bytes, NEW v \in Bytes, NEW b \in Bytes, SinCeros(v),
         buffer.datos = ((a ++ v) ++ << 0 >>) ++ b
  PROVE  Cadena(Len(a), Len(v) + 1) = v
<1> DEFINE d == buffer.datos
           c == a ++ v
           n == Len(a) + Len(v)
           z == n + 1
           fin == IF Len(a) + (Len(v) + 1) < Len(d) THEN Len(a) + (Len(v) + 1) ELSE Len(d)
           ceros == {i \in (Len(a) + 1)..fin : d[i] = 0}
<1>1. Len(a) \in Nat /\ Len(v) \in Nat /\ Len(b) \in Nat
  BY LenBytes
<1>2. c \in Bytes /\ <<0>> \in Bytes /\ Len(<<0>>) = 1 /\ <<0>>[1] = 0
  <2>1. c \in Bytes
    BY Pegar
  <2>2. <<0>> \in Bytes /\ Len(<<0>>) = 1 /\ <<0>>[1] = 0
    BY DEF Bytes, Byte
  <2> QED
    BY <2>1, <2>2
<1>3. Len(c) = n /\ (\A i \in 1..Len(v) : c[Len(a) + i] = v[i])
  <2>1. Len(c) = n
    BY LenBytes
  <2>2. \A i \in 1..Len(v) : c[Len(a) + i] = v[i]
    BY Juntos
  <2> QED
    BY <2>1, <2>2
<1> HIDE DEF c
<1>4. PICK cola \in Bytes : cola = <<0>> ++ b /\ cola[1] = 0 /\ Len(cola) = 1 + Len(b)
  <2>1. \A u \in Bytes : Len(u) = 1 /\ u[1] = 0 =>
           u ++ b \in Bytes /\ (u ++ b)[1] = 0 /\ Len(u ++ b) = 1 + Len(b)
    <3> TAKE u \in Bytes
    <3> HAVE Len(u) = 1 /\ u[1] = 0
    <3>1. u ++ b \in Bytes
      BY Pegar
    <3>2. Len(u ++ b) = Len(u) + Len(b)
      BY LenBytes
    <3>3. \A i \in 1..Len(u) : (u ++ b)[i] = u[i]
      BY Juntos
    <3>4. 1 \in 1..Len(u)
      OBVIOUS
    <3> QED
      BY <3>1, <3>2, <3>3, <3>4
  <2> QED
    BY <1>2, <2>1
<1>5. d = c ++ cola
  <2>1. \A u \in Bytes : (c ++ u) ++ b = c ++ (u ++ b)
    BY <1>2, Pegar
  <2> QED
    BY <1>2, <1>4, <2>1 DEF c
<1>6. Len(d) = n + (1 + Len(b)) /\ (\A i \in 1..n : d[i] = c[i]) /\ d[z] = 0
      /\ SubSeq(d, Len(a) + 1, n) = v
  <2>1. Len(c ++ cola) = Len(c) + Len(cola)
    BY <1>2, LenBytes
  <2>2. \A i \in 1..Len(c) : (c ++ cola)[i] = c[i]
    BY <1>2, Juntos
  <2>3. \A i \in 1..Len(cola) : (c ++ cola)[Len(c) + i] = cola[i]
    BY <1>2, Juntos
  <2>4. 1 \in 1..Len(cola)
    BY <1>1, <1>4
  <2>5. SubSeq((a ++ v) ++ cola, Len(a) + 1, Len(a) + Len(v)) = v
    BY Medio
  <2>6. (c ++ cola)[Len(c) + 1] = 0
    BY <1>4, <2>3, <2>4
  <2> HIDE DEF d
  <2> QED
    BY <1>3, <1>4, <1>5, <2>1, <2>2, <2>5, <2>6 DEF c
<1> HIDE DEF d
<1>7. fin = z /\ z \in (Len(a) + 1)..fin
  <2>1. \A la, lv, lb, ld \in Nat : ld = (la + lv) + (1 + lb) =>
           (IF la + (lv + 1) < ld THEN la + (lv + 1) ELSE ld) = (la + lv) + 1
    OBVIOUS
  <2>2. Len(d) = (Len(a) + Len(v)) + (1 + Len(b)) /\ Len(d) \in Nat
    BY <1>1, <1>6
  <2>3. fin = z
    BY <1>1, <2>1, <2>2
  <2>4. z \in (Len(a) + 1)..z
    BY <1>1
  <2> HIDE DEF fin, z
  <2> QED
    BY <2>3, <2>4
<1>8. \A i \in (Len(a) + 1)..n : d[i] # 0
  <2> TAKE i \in (Len(a) + 1)..n
  <2> DEFINE j == i - Len(a)
  <2>1. j \in 1..Len(v) /\ Len(a) + j = i /\ i \in 1..n
    BY <1>1
  <2>2. d[i] = c[i]
    BY <1>6, <2>1
  <2> HIDE DEF j
  <2>3. c[Len(a) + j] = v[j] /\ v[j] # 0
    BY <1>3, <2>1 DEF SinCeros
  <2> QED
    BY <2>1, <2>2, <2>3
<1>9. ceros = {z}
  <2>1. z \in ceros
    BY <1>6, <1>7
  <2>2. ASSUME NEW i \in ceros PROVE i = z
    <3>1. i \in (Len(a) + 1)..z /\ d[i] = 0
      BY <1>7
    <3>2. i \notin (Len(a) + 1)..n
      BY <1>8, <3>1
    <3> QED
      BY <1>1, <3>1, <3>2
  <2> HIDE DEF ceros
  <2> QED
    BY <2>1, <2>2
<1>10. (CHOOSE i \in ceros : \A j \in ceros : i <= j) - 1 = n
  <2>1. z <= z /\ z - 1 = n
    BY <1>1
  <2> HIDE DEF ceros, z
  <2>2. (CHOOSE i \in ceros : \A j \in ceros : i <= j) = z
    BY <1>9, <2>1
  <2> QED
    BY <2>1, <2>2
<1>11. Cadena(Len(a), Len(v) + 1) =
         IF ceros = {} THEN Append(SubSeq(d, Len(a) + 1, fin), BASURA)
         ELSE SubSeq(d, Len(a) + 1, (CHOOSE i \in ceros : \A j \in ceros : i <= j) - 1)
  BY DEF Cadena, d
<1> HIDE DEF ceros, fin
<1>12. ceros # {}
  BY <1>9
<1> QED
  BY <1>6, <1>10, <1>11, <1>12

\* A message delivered is the next one that was sent.
LEMMA PasoEntrega ==
  ASSUME CInv, NEW valores, receptor = "desempaquetar", Entrega(valores),
         UNCHANGED <<canal, enviados, red, llegado, corto>>,
         ~Roto => [op |-> op, campos |-> valores] = enviados[Numero]
  PROVE  CInv' /\ PasoDeCola
<1>1. /\ recibidos' = Append(recibidos, [op |-> op, campos |-> valores])
      /\ receptor' = "header" /\ op' = 0 /\ campos' = <<>>
      /\ buffer' = [size |-> 0, datos |-> <<>>]
  BY DEF Entrega, BufferVacio
<1>2. Secuencia(recibidos)
  BY DEF CInv, Tipos
<1>3. Len(recibidos) \in Nat /\ Secuencia(recibidos') /\ Len(recibidos') = Len(recibidos) + 1
  BY <1>1, <1>2, Anexar
<1>4. Roto' = Roto
  BY DEF Roto
<1>5. TypeOK'
  <2>1. /\ buffer'.size \in Nat /\ buffer'.datos \in Seq(Dato)
        /\ Len(buffer'.datos) <= buffer'.size /\ op' \in Int
    BY <1>1
  <2> QED
    BY <1>1, <2>1 DEF CInv, TypeOK
<1>6. Tipos'
  <2>1. campos' \in Seq({}) /\ Len(campos') = 0
    BY <1>1
  <2>2. Secuencia(campos')
    BY <2>1 DEF Secuencia
  <2>3. ASSUME canal \in Streams PROVE 0 < Len(Plan(canal))
    <3>1. Len(Plan(canal)) \in 1..3
      BY <2>3, Acuerdo DEF Plan, PlanCorrecto
    <3>2. \A k \in 1..3 : 0 < k
      OBVIOUS
    <3> QED
      BY <3>1, <3>2
  <2>4. buffer' = [size |-> buffer'.size, datos |-> buffer'.datos]
    BY <1>1
  <2> QED
    BY <1>1, <1>3, <2>1, <2>2, <2>3, <2>4 DEF CInv, Tipos, Secuencia
<1>7. ASSUME ~Roto PROVE /\ Numero <= Len(enviados) /\ Len(enviados) \in Nat
                         /\ EnCamino = Siguientes(canal, enviados, Numero)
  BY <1>7, EnTrama DEF Leyendo
<1>8. ASSUME ~Roto' PROVE Flujo'
  <2>1. Len(recibidos') = Numero
    BY <1>3 DEF Numero
  <2>2. EnCamino' = EnCamino
    BY DEF EnCamino
  <2> QED
    BY <1>1, <1>4, <1>7, <1>8, <2>1, <2>2 DEF Flujo
<1>9. PasoDeCola
  <2>1. CASE Roto
    BY <1>4, <2>1 DEF PasoDeCola, Cola!Next, Cola!Romperse
  <2>2. CASE ~Roto
    <3>1. Len(recibidos) < Len(enviados)
      BY <1>3, <1>7, <2>2 DEF Numero
    <3>2. recibidos' = Append(recibidos, enviados[Len(recibidos) + 1])
      BY <1>1, <2>2 DEF Numero
    <3> QED
      BY <1>4, <2>2, <3>1, <3>2 DEF PasoDeCola, Cola!Next, Cola!Entregar
  <2> QED
    BY <2>1, <2>2
<1> QED
  BY <1>5, <1>6, <1>8, <1>9 DEF CInv

\* The buffer of a reader that unpacks begins with the next piece.
LEMMA EnBuffer ==
  ASSUME CInv, ~Roto, receptor = "desempaquetar"
  PROVE  LET x == enviados[Numero]
             k == Len(campos)
         IN /\ canal \in Canales /\ x \in Enviable(canal) /\ op = Codigo(canal)
            /\ PiezasCorrectas(canal, x) /\ k \in 0..Len(Piezas(canal, x))
            /\ Len(Piezas(canal, x)) \in Nat
            /\ EnCamino = Siguientes(canal, enviados, Numero)
            /\ Numero \in 1..Len(enviados)
            /\ buffer.size = Len(buffer.datos)
            /\ buffer.datos = Restan(canal, x, k)
            /\ \A i \in 1..k : campos[i] = Desempacado(canal, x, i)
            /\ k < Len(Piezas(canal, x)) =>
                  /\ Piezas(canal, x)[k + 1] \in Bytes /\ Restan(canal, x, k + 1) \in Bytes
                  /\ buffer.datos = Piezas(canal, x)[k + 1] ++ Restan(canal, x, k + 1)
<1> DEFINE x == enviados[Numero]
           k == Len(campos)
           n == Len(Piezas(canal, x))
<1>1. /\ canal \in Canales /\ x \in Enviable(canal) /\ Leyendo(x)
      /\ Numero \in 1..Len(enviados)
  BY EnTrama
<1> HIDE DEF x
<1>2. PiezasCorrectas(canal, x) /\ n \in Nat
  BY <1>1, Tramas DEF PiezasCorrectas
<1>3. k \in Nat
  BY Anexar DEF CInv, Tipos
<1>4. /\ op = Codigo(canal) /\ k <= n /\ EnCamino = Siguientes(canal, enviados, Numero)
      /\ buffer.size = Len(buffer.datos) /\ buffer.datos = Restan(canal, x, k)
      /\ \A i \in 1..k : campos[i] = Desempacado(canal, x, i)
  BY <1>1 DEF Leyendo
<1>5. k \in 0..n
  BY <1>2, <1>3, <1>4
<1>6. ASSUME k < n
      PROVE  /\ Piezas(canal, x)[k + 1] \in Bytes /\ Restan(canal, x, k + 1) \in Bytes
             /\ buffer.datos = Piezas(canal, x)[k + 1] ++ Restan(canal, x, k + 1)
  <2>1. k + 1 \in 0..n /\ k + 1 \in 1..n
    BY <1>2, <1>3, <1>6
  <2>2. Piezas(canal, x)[k + 1] \in Bytes
    BY <1>2, <2>1 DEF PiezasCorrectas
  <2>3. Restan(canal, x, k + 1) \in Bytes
    BY <1>2, <2>1, RestanPaso
  <2>4. Restan(canal, x, k) = Piezas(canal, x)[k + 1] ++ Restan(canal, x, k + 1)
    BY <1>2, <1>5, <1>6, RestanPaso
  <2> QED
    BY <1>4, <2>2, <2>3, <2>4
<1> QED
  BY <1>1, <1>2, <1>4, <1>5, <1>6 DEF x

\* A field taken is put with the others, or is the last and they are delivered.
LEMMA PasoCampo ==
  ASSUME CInv, canal \in Streams, receptor = "desempaquetar", NEW valor, NEW resto,
         Desempaqueta(valor, resto), resto = [size |-> resto.size, datos |-> resto.datos],
         resto.size \in Nat, resto.datos \in Seq(Dato), Len(resto.datos) <= resto.size,
         ~Roto => /\ valor = Valor(canal, enviados[Numero], Len(campos) + 1)
                  /\ resto.datos = Restan(canal, enviados[Numero], Len(campos) + 1)
                  /\ resto.size = Len(resto.datos)
  PROVE  CInv' /\ PasoDeCola
<1> DEFINE x == enviados[Numero]
           k == Len(campos)
           plan == Plan(canal)
           completos == Append(campos, <<Campo[1], valor>>)
           nombres == {completos[i][1] : i \in 1..Len(completos)}
           porNombre == [c \in nombres |->
              completos[CHOOSE i \in 1..Len(completos) : completos[i][1] = c][2]]
<1>1. plan = Receptor[canal].campos /\ Campo = plan[k + 1] /\ Len(plan) \in Nat
  BY Acuerdo DEF Plan, PlanCorrecto, Campo
<1>2. /\ IF Len(completos) < Len(plan)
         THEN campos' = completos /\ buffer' = resto /\ UNCHANGED <<receptor, op, recibidos>>
         ELSE Entrega(porNombre)
      /\ UNCHANGED <<canal, enviados, red, llegado, corto>>
  BY <1>1 DEF Desempaqueta
<1>3. /\ k \in Nat /\ Secuencia(completos) /\ Len(completos) = k + 1
      /\ \A i \in 1..k : completos[i] = campos[i]
      /\ completos[k + 1] = <<Campo[1], valor>>
  BY Anexar DEF CInv, Tipos
<1>4. k < Len(plan)
  BY DEF CInv, Tipos
<1> HIDE DEF completos
<1>5. ASSUME ~Roto
      PROVE  /\ x \in Enviable(canal) /\ op = Codigo(canal) /\ Numero \in 1..Len(enviados)
             /\ EnCamino = Siguientes(canal, enviados, Numero)
             /\ Len(Piezas(canal, x)) = Len(plan)
             /\ \A i \in 1..(k + 1) : completos[i] = <<plan[i][1], x.campos[plan[i][1]]>>
  <2>1. /\ x \in Enviable(canal) /\ op = Codigo(canal) /\ Numero \in 1..Len(enviados)
        /\ EnCamino = Siguientes(canal, enviados, Numero)
        /\ \A i \in 1..k : campos[i] = Desempacado(canal, x, i)
    BY <1>5, EnBuffer
  <2>2. Len(Piezas(canal, x)) = Len(plan)
    <3> HIDE DEF x
    <3> QED
      BY <2>1, PiezasStream
  <2>3. valor = x.campos[plan[k + 1][1]]
    BY <1>5 DEF Valor
  <2>4. \A i \in 1..k : completos[i] = <<plan[i][1], x.campos[plan[i][1]]>>
    BY <1>3, <2>1 DEF Desempacado
  <2>5. completos[k + 1] = <<plan[k + 1][1], x.campos[plan[k + 1][1]]>>
    BY <1>1, <1>3, <2>3
  <2>6. \A i \in 1..(k + 1) : i \in 1..k \/ i = k + 1
    BY <1>3
  <2> HIDE DEF x, k, plan
  <2> QED
    BY <2>1, <2>2, <2>4, <2>5, <2>6
<1>6. CASE Len(completos) < Len(plan)
  <2>1. campos' = completos /\ buffer' = resto
    BY <1>2, <1>6
  <2>2. UNCHANGED <<receptor, op, recibidos, canal, enviados, red, llegado, corto>>
    BY <1>2, <1>6
  <2>3. TypeOK'
    BY <2>1, <2>2 DEF CInv, TypeOK
  <2>4. Tipos'
    BY <1>3, <1>6, <2>1, <2>2 DEF CInv, Tipos, Secuencia
  <2>5. Roto' = Roto
    BY <2>2 DEF Roto
  <2>6. ASSUME ~Roto PROVE Flujo'
    <3>1. Numero' = Numero /\ x' = x /\ EnCamino' = EnCamino
      BY <2>2 DEF Numero, EnCamino
    <3>2. Len(campos') = k + 1 /\ k + 1 <= Len(Piezas(canal, x))
      BY <1>3, <1>5, <1>6, <2>1, <2>6
    <3>3. \A i \in 1..Len(campos') : campos'[i] = Desempacado(canal, x, i)
      BY <1>3, <1>5, <2>1, <2>6 DEF Desempacado
    <3>4. buffer'.size = Len(buffer'.datos) /\ buffer'.datos = Restan(canal, x, Len(campos'))
      BY <2>1, <2>6, <3>2
    <3>5. canal # "mensaje"
      BY DEF Streams, Emisor
    <3>6. op = Codigo(canal) /\ EnCamino = Siguientes(canal, enviados, Numero)
          /\ Numero <= Len(enviados)
      <4>1. enviados \in Seq(Enviable(canal))
        BY DEF CInv, Tipos
      <4> QED
        BY <1>5, <2>6, <4>1
    <3> HIDE DEF x
    <3>7. Leyendo(x)'
      BY <2>2, <3>1, <3>2, <3>3, <3>4, <3>5, <3>6 DEF Leyendo
    <3> QED
      BY <2>2, <3>1, <3>6, <3>7 DEF Flujo, x
  <2>7. PasoDeCola
    BY <2>2, <2>5 DEF PasoDeCola, Cola!vars
  <2> QED
    BY <2>3, <2>4, <2>5, <2>6, <2>7 DEF CInv
<1>7. CASE ~(Len(completos) < Len(plan))
  <2>1. Entrega(porNombre) /\ UNCHANGED <<canal, enviados, red, llegado, corto>>
    BY <1>2, <1>7
  <2>2. k + 1 = Len(plan)
    BY <1>1, <1>3, <1>4, <1>7
  <2>3. ASSUME ~Roto PROVE [op |-> op, campos |-> porNombre] = x
    <3> DEFINE claves == {plan[i][1] : i \in 1..Len(plan)}
    <3>1. /\ x \in Enviable(canal) /\ op = Codigo(canal) /\ Len(completos) = Len(plan)
          /\ \A i \in 1..Len(plan) : completos[i] = <<plan[i][1], x.campos[plan[i][1]]>>
      BY <1>3, <1>5, <2>2, <2>3
    <3>2. x = [op |-> op, campos |-> x.campos] /\ x.campos \in Mensajes[canal]
      BY <3>1 DEF Enviable
    <3>3. x.campos \in [claves -> Corta]
      BY <3>2, MensajesAssumption DEF Plan
    <3> HIDE DEF x, plan
    <3>4. nombres = claves
      BY <3>1
    <3>5. ASSUME NEW c \in claves PROVE porNombre[c] = x.campos[c]
      <4> DEFINE i == CHOOSE j \in 1..Len(completos) : completos[j][1] = c
      <4>1. i \in 1..Len(completos) /\ completos[i][1] = c
        <5>1. PICK j \in 1..Len(plan) : plan[j][1] = c
          OBVIOUS
        <5>2. j \in 1..Len(completos) /\ completos[j][1] = c
          BY <3>1, <5>1
        <5> QED
          BY <5>2
      <4>2. porNombre[c] = completos[i][2]
        BY <3>4
      <4> HIDE DEF i
      <4>3. i \in 1..Len(plan)
        BY <3>1, <4>1
      <4>4. completos[i][1] = plan[i][1] /\ completos[i][2] = x.campos[plan[i][1]]
        BY <3>1, <4>3
      <4> QED
        BY <4>1, <4>2, <4>4
    <3>6. porNombre = [c \in claves |-> porNombre[c]]
      <4> DEFINE elegido(c) == CHOOSE i \in 1..Len(completos) : completos[i][1] = c
      <4>1. porNombre = [c \in nombres |-> completos[elegido(c)][2]]
        OBVIOUS
      <4> HIDE DEF elegido, porNombre, nombres, claves
      <4> QED
        BY <3>4, <4>1
    <3>7. x.campos = [c \in claves |-> x.campos[c]]
      BY <3>3
    <3> HIDE DEF porNombre, claves
    <3>8. porNombre = x.campos
      BY <3>5, <3>6, <3>7
    <3> QED
      BY <3>2, <3>8
  <2> HIDE DEF porNombre
  <2> QED
    BY <2>1, <2>3, PasoEntrega
<1> QED
  BY <1>6, <1>7

\* What is left of a buffer is a buffer.
LEMMA RestoCorrecto ==
  ASSUME CInv, NEW n \in Nat, n <= buffer.size
  PROVE  /\ Resto(n) = [size |-> Resto(n).size, datos |-> Resto(n).datos]
         /\ Resto(n).size \in Nat /\ Resto(n).datos \in Seq(Dato)
         /\ Len(Resto(n).datos) <= Resto(n).size
<1> DEFINE d == buffer.datos
           s == buffer.size
<1>1. d \in Seq(Dato) /\ s \in Nat /\ Len(d) <= s /\ Len(d) \in Nat
  <2>1. d \in Seq(Dato) /\ s \in Int /\ (d = <<>> \/ Len(d) <= s)
    BY DEF CInv, TypeOK
  <2> HIDE DEF d
  <2> QED
    BY <2>1 DEF s
<1>2. Resto(n) = [size |-> s - n, datos |-> SubSeq(d, n + 1, Len(d))]
  BY DEF Resto
<1> HIDE DEF d, s
<1>3. SubSeq(d, n + 1, Len(d)) \in Seq(Dato) /\ s - n \in Nat
  BY <1>1 DEF s
<1>4. Len(SubSeq(d, n + 1, Len(d))) <= s - n
  <2>1. CASE n + 1 <= Len(d)
    <3>1. Len(SubSeq(d, n + 1, Len(d))) = Len(d) - n
      BY <1>1, <2>1
    <3> QED
      BY <1>1, <3>1
  <2>2. CASE ~(n + 1 <= Len(d))
    <3>1. Len(SubSeq(d, n + 1, Len(d))) = 0
      BY <1>1, <2>2
    <3> QED
      BY <1>3, <3>1
  <2> QED
    BY <2>1, <2>2
<1> QED
  BY <1>2, <1>3, <1>4

\* The next field of a stream, at both ends.
LEMMA CampoDelPlan ==
  ASSUME CInv, canal \in Streams
  PROVE  /\ Campo = Plan(canal)[Len(campos) + 1]
         /\ Len(campos) + 1 \in 1..Len(Plan(canal)) /\ Len(campos) \in Nat
         /\ Campo[2] \in {"int", "byte", "string"}
<1>1. /\ Plan(canal) = Receptor[canal].campos /\ Len(Plan(canal)) \in Nat
      /\ \A i \in 1..Len(Plan(canal)) : Plan(canal)[i][2] \in {"int", "byte", "string"}
  BY Acuerdo DEF Plan, PlanCorrecto
<1>2. Campo = Plan(canal)[Len(campos) + 1]
  BY <1>1 DEF Campo
<1>3. Len(campos) \in Nat /\ Len(campos) < Len(Plan(canal))
  BY Anexar DEF CInv, Tipos
<1>4. Len(campos) + 1 \in 1..Len(Plan(canal))
  BY <1>1, <1>3
<1> QED
  BY <1>1, <1>2, <1>3, <1>4

\* The pieces of a stream in its buffer, by the kind of the field.
LEMMA CampoEnBuffer ==
  ASSUME CInv, ~Roto, canal \in Streams, receptor = "desempaquetar"
  PROVE  LET x == enviados[Numero]
             k == Len(campos)
             v == Valor(canal, x, k + 1)
             b == Restan(canal, x, k + 1)
         IN /\ v \in Bytes /\ Breve(v) /\ b \in Bytes /\ buffer.size = Len(buffer.datos)
            /\ Campo[2] # "string" =>
                  buffer.datos = v ++ b /\ Len(v) = Ancho[Campo[2]]
            /\ Campo[2] = "string" =>
                  buffer.datos = PiezaString(v) ++ b /\ SinCeros(v)
<1> DEFINE x == enviados[Numero]
           k == Len(campos)
           v == Valor(canal, x, k + 1)
           b == Restan(canal, x, k + 1)
           e == Pieza(canal, x, k + 1)
           t == Campo[2]
<1>1. Campo = Plan(canal)[k + 1] /\ k + 1 \in 1..Len(Plan(canal)) /\ k \in Nat
  BY CampoDelPlan
<1>2. /\ x \in Enviable(canal) /\ buffer.size = Len(buffer.datos)
      /\ k < Len(Piezas(canal, x)) =>
            /\ Restan(canal, x, k + 1) \in Bytes
            /\ buffer.datos = Piezas(canal, x)[k + 1] ++ Restan(canal, x, k + 1)
  BY EnBuffer
<1> HIDE DEF x, k
<1>3. Len(Piezas(canal, x)) = Len(Plan(canal)) /\ Piezas(canal, x)[k + 1] = e
  BY <1>1, <1>2, PiezasStream
<1>4. /\ v \in Bytes /\ Breve(v)
      /\ t # "string" => e = v /\ Len(v) = Ancho[t]
      /\ t = "string" => e = PiezaString(v) /\ SinCeros(v)
  BY <1>1, <1>2, CamposStream
<1>5. k < Len(Piezas(canal, x))
  <2>1. k < Len(Plan(canal))
    <3>1. Len(Plan(canal)) \in Nat
      BY Acuerdo DEF Plan, PlanCorrecto
    <3> QED
      BY <1>1, <3>1
  <2> QED
    BY <1>3, <2>1
<1>6. b \in Bytes /\ buffer.datos = e ++ b
  BY <1>2, <1>3, <1>5
<1> HIDE DEF v, b, e, t
<1>7. /\ t # "string" => buffer.datos = v ++ b /\ Len(v) = Ancho[t]
      /\ t = "string" => buffer.datos = PiezaString(v) ++ b /\ SinCeros(v)
  BY <1>4, <1>6
<1> QED
  BY <1>2, <1>4, <1>6, <1>7 DEF x, k, v, b, t

\* The sizes of the fields that are not strings.
LEMMA Anchos == \A t \in {"int", "byte"} : Ancho[t] \in {1, 4}
  BY DEF Ancho

\* An int or a register.
LEMMA PasoDesempaquetar == CInv /\ buffer_desempaquetar => CInv' /\ PasoDeCola
<1> SUFFICES ASSUME CInv, buffer_desempaquetar PROVE CInv' /\ PasoDeCola
  OBVIOUS
<1> DEFINE n == Ancho[Campo[2]]
           x == enviados[Numero]
           k == Len(campos)
<1>1. /\ canal \in Streams /\ receptor = "desempaquetar" /\ Campo[2] # "string"
      /\ n <= buffer.size /\ Desempaqueta(Tomados(n), Resto(n))
  BY DEF buffer_desempaquetar, Alcanza
<1>2. n \in Nat
  <2>1. Campo[2] \in {"int", "byte"}
    BY <1>1, CampoDelPlan
  <2>2. n \in {1, 4}
    BY <2>1, Anchos
  <2> QED
    BY <2>2
<1>3. ASSUME ~Roto
      PROVE  /\ Tomados(n) = Valor(canal, x, k + 1) /\ Resto(n).datos = Restan(canal, x, k + 1)
             /\ Resto(n).size = Len(Resto(n).datos)
  <2> DEFINE v == Valor(canal, x, k + 1)
             b == Restan(canal, x, k + 1)
  <2>1. /\ v \in Bytes /\ b \in Bytes /\ buffer.size = Len(buffer.datos)
        /\ buffer.datos = v ++ b /\ Len(v) = n
    BY <1>1, <1>3, CampoEnBuffer
  <2> HIDE DEF v, b, n
  <2>2. Tomados(Len(v)) = v /\ Resto(Len(v)) = [size |-> Len(b), datos |-> b]
    BY <2>1, Tomar
  <2>3. Tomados(n) = v /\ Resto(n).size = Len(b) /\ Resto(n).datos = b
    BY <2>1, <2>2
  <2> QED
    BY <2>3 DEF v, b, n
<1> HIDE DEF n
<1>4. /\ Resto(n) = [size |-> Resto(n).size, datos |-> Resto(n).datos]
      /\ Resto(n).size \in Nat /\ Resto(n).datos \in Seq(Dato)
      /\ Len(Resto(n).datos) <= Resto(n).size
  BY <1>1, <1>2, RestoCorrecto
<1> QED
  BY <1>1, <1>3, <1>4, PasoCampo

\* A string whole in the buffer is unpacked as it was packed, without its zero.
LEMMA StringEntera ==
  ASSUME NEW v \in Bytes, Breve(v), NEW b \in Bytes, SinCeros(v),
         buffer.datos = PiezaString(v) ++ b, buffer.size = Len(buffer.datos)
  PROVE  /\ Len(v) \in Nat /\ Largos = {Len(v) + 1} /\ Cadena(4, Len(v) + 1) = v
         /\ Resto(4 + (Len(v) + 1)) = [size |-> Len(b), datos |-> b]
         /\ buffer.size - 4 >= Len(v) + 1 /\ buffer.size > 4
<1> DEFINE largo == Int32(Len(v) + 1)
           p == PiezaString(v)
<1>1. Len(v) \in Nat /\ Len(b) \in Nat
  BY LenBytes
<1>2. largo \in Bytes
  <2>1. Len(v) + 1 \in Nat /\ Len(v) + 1 < MaxInt
    BY <1>1, Cabe DEF Breve
  <2> QED
    BY <2>1, Enteros
<1>3. Len(largo) = 4 /\ Entero(largo) = Len(v) + 1
  <2>1. Len(v) + 1 \in Nat /\ Len(v) + 1 < MaxInt
    BY <1>1, Cabe DEF Breve
  <2> QED
    BY <2>1, Enteros
<1>4. PICK cero \in Bytes : cero = <<0>> /\ Len(cero) = 1
  <2>1. <<0>> \in Bytes /\ Len(<<0>>) = 1
    BY DEF Bytes, Byte
  <2> QED
    BY <2>1
<1>5. p = (largo ++ v) ++ cero
  BY <1>4 DEF PiezaString
<1> HIDE DEF largo, p
<1>6. p \in Bytes /\ Len(p) = 4 + (Len(v) + 1)
  <2>1. p \in Bytes /\ Len(p) = Len(largo) + Len(v) + Len(cero)
    BY <1>2, <1>5, LenTres
  <2>2. Len(largo) + Len(v) + Len(cero) = 4 + (Len(v) + 1)
    BY <1>1, <1>3, <1>4
  <2> QED
    BY <2>1, <2>2
<1>7. buffer.datos = p ++ b
  BY DEF p
<1>8. Resto(Len(p)) = [size |-> Len(b), datos |-> b] /\ buffer.size = Len(p) + Len(b)
  BY <1>6, <1>7, Tomar
<1>9. PICK cola \in Bytes : buffer.datos = largo ++ cola
  <2>1. /\ v ++ (cero ++ b) \in Bytes
        /\ ((largo ++ v) ++ cero) ++ b = largo ++ (v ++ (cero ++ b))
    BY <1>2, Pegar
  <2> QED
    BY <1>5, <1>7, <2>1
<1>10. Tomados(4) = largo
  <2>1. Tomados(Len(largo)) = largo
    BY <1>2, <1>9, Tomar
  <2> QED
    BY <1>3, <2>1
<1>11. Largos = {Len(v) + 1}
  <2>1. BASURA \notin Range(largo)
    <3>1. largo \in Seq(Byte)
      BY <1>2 DEF Bytes
    <3>2. \A i \in DOMAIN largo : largo[i] \in Byte
      BY <3>1
    <3> QED
      BY <3>2, CanalAssumption DEF Range
  <2> QED
    BY <1>10, <1>3, <2>1 DEF Largos
<1>12. Cadena(4, Len(v) + 1) = v
  <2>1. buffer.datos = ((largo ++ v) ++ <<0>>) ++ b
    BY <1>4, <1>5, <1>7
  <2>2. Cadena(Len(largo), Len(v) + 1) = v
    BY <1>2, <2>1, CadenaEntera
  <2> QED
    BY <1>3, <2>2
<1>13. buffer.size - 4 >= Len(v) + 1 /\ buffer.size > 4
  BY <1>1, <1>6, <1>8
<1>14. Resto(4 + (Len(v) + 1)) = [size |-> Len(b), datos |-> b]
  BY <1>6, <1>8
<1> QED
  BY <1>1, <1>11, <1>12, <1>13, <1>14

LEMMA FuncionBytes ==
  ASSUME NEW n \in Nat, NEW f \in [1..n -> Byte]
  PROVE  f \in Bytes
<1>1. Len(f) = n
  OBVIOUS
<1>2. f \in Seq(Byte)
  OBVIOUS
<1> QED
  BY <1>2 DEF Bytes

LEMMA LargosInt == CInv => \A n \in Largos : n \in Int
<1> SUFFICES ASSUME CInv, NEW n \in Largos PROVE n \in Int
  OBVIOUS
<1>1. buffer.size \in Int /\ buffer.datos \in Seq(Dato)
  BY DEF CInv, TypeOK
<1> DEFINE t == Tomados(4)
<1>2. CASE BASURA \in Range(t)
  <2>1. n \in {0, 1, buffer.size}
    BY <1>2 DEF Largos
  <2> QED
    BY <1>1, <2>1
<1>3. CASE BASURA \notin Range(t)
  <2>1. n = Entero(t)
    BY <1>3 DEF Largos
  <2>2. t \in [1..4 -> Dato]
    BY <1>1 DEF Tomados, Dato
  <2> HIDE DEF t
  <2>3. \A i \in 1..4 : t[i] \in Dato /\ t[i] # BASURA
    BY <1>3, <2>2 DEF Range
  <2>4. t \in [1..4 -> Byte]
    BY <2>2, <2>3 DEF Dato
  <2>5. t \in Bytes
    BY <2>4, FuncionBytes
  <2> QED
    BY <2>1, <2>5, EnteroInt
<1> QED
  BY <1>2, <1>3

\* A string: its length, its bytes and its zero.
LEMMA PasoDesempaquetarString == CInv /\ buffer_desempaquetar_string => CInv' /\ PasoDeCola
<1> SUFFICES ASSUME CInv, buffer_desempaquetar_string PROVE CInv' /\ PasoDeCola
  OBVIOUS
<1> DEFINE x == enviados[Numero]
           k == Len(campos)
<1>1. canal \in Streams /\ receptor = "desempaquetar" /\ Campo[2] = "string"
  BY DEF buffer_desempaquetar_string
<1>2. PICK largo \in Largos :
         largo > 0 /\ largo <= buffer.size - 4 /\ Desempaqueta(Cadena(4, largo), Resto(4 + largo))
  BY DEF buffer_desempaquetar_string, Alcanza
<1>3. largo \in Nat /\ 4 + largo \in Nat /\ 4 + largo <= buffer.size
  <2>1. largo \in Int /\ buffer.size \in Int
    BY LargosInt DEF CInv, TypeOK
  <2> QED
    BY <1>2, <2>1
<1>4. ASSUME ~Roto
      PROVE  /\ Cadena(4, largo) = Valor(canal, x, k + 1)
             /\ Resto(4 + largo).datos = Restan(canal, x, k + 1)
             /\ Resto(4 + largo).size = Len(Resto(4 + largo).datos)
  <2> DEFINE v == Valor(canal, x, k + 1)
             b == Restan(canal, x, k + 1)
  <2>1. /\ v \in Bytes /\ Breve(v) /\ b \in Bytes /\ buffer.size = Len(buffer.datos)
        /\ buffer.datos = PiezaString(v) ++ b /\ SinCeros(v)
    BY <1>1, <1>4, CampoEnBuffer
  <2> HIDE DEF v, b
  <2>2. /\ Largos = {Len(v) + 1} /\ Cadena(4, Len(v) + 1) = v
        /\ Resto(4 + (Len(v) + 1)) = [size |-> Len(b), datos |-> b]
    BY <2>1, StringEntera
  <2>3. largo = Len(v) + 1
    BY <2>2
  <2>4. /\ Cadena(4, largo) = v /\ Resto(4 + largo).datos = b
        /\ Resto(4 + largo).size = Len(b)
    BY <2>2, <2>3
  <2> QED
    BY <2>4 DEF v, b
<1> DEFINE resto == Resto(4 + largo)
<1>5. /\ resto = [size |-> resto.size, datos |-> resto.datos]
      /\ resto.size \in Nat /\ resto.datos \in Seq(Dato) /\ Len(resto.datos) <= resto.size
  BY <1>3, RestoCorrecto
<1> HIDE DEF resto
<1>6. Desempaqueta(Cadena(4, largo), resto)
  BY <1>2 DEF resto
<1>7. ~Roto => /\ Cadena(4, largo) = Valor(canal, x, k + 1)
               /\ resto.datos = Restan(canal, x, k + 1) /\ resto.size = Len(resto.datos)
  BY <1>4 DEF resto
<1> QED
  BY <1>1, <1>5, <1>6, <1>7, PasoCampo

\* A whole frame never breaks the reader.
LEMMA PasoRompe == CInv /\ DesempaquetarRompe => CInv' /\ PasoDeCola
<1> SUFFICES ASSUME CInv, DesempaquetarRompe PROVE CInv' /\ PasoDeCola
  OBVIOUS
<1>1. canal \in Streams /\ receptor = "desempaquetar" /\ receptor' = "caido"
  BY DEF DesempaquetarRompe
<1>2. UNCHANGED <<canal, enviados, recibidos, red, llegado, op, buffer, campos, corto>>
  BY DEF DesempaquetarRompe
<1>3. Roto
  <2> SUFFICES ASSUME ~Roto PROVE FALSE
    OBVIOUS
  <2> DEFINE x == enviados[Numero]
             k == Len(campos)
             v == Valor(canal, x, k + 1)
             b == Restan(canal, x, k + 1)
  <2>1. /\ v \in Bytes /\ Breve(v) /\ b \in Bytes /\ buffer.size = Len(buffer.datos)
        /\ Campo[2] # "string" => buffer.datos = v ++ b /\ Len(v) = Ancho[Campo[2]]
        /\ Campo[2] = "string" => buffer.datos = PiezaString(v) ++ b /\ SinCeros(v)
    BY <1>1, CampoEnBuffer
  <2> HIDE DEF v, b
  <2>2. CASE Campo[2] # "string"
    <3>1. Len(v) \in {1, 4} /\ Len(v) = Ancho[Campo[2]]
      <4>1. Campo[2] \in {"int", "byte"}
        BY <1>1, <2>2, CampoDelPlan
      <4>2. Ancho[Campo[2]] \in {1, 4}
        BY <4>1, Anchos
      <4>3. Len(v) = Ancho[Campo[2]]
        BY <2>1, <2>2, Zenon
      <4> QED
        BY <4>2, <4>3, Zenon
    <3>2. buffer.size = Len(v) + Len(b)
      <4>1. buffer.datos = v ++ b
        BY <2>1, <2>2, Zenon
      <4>2. v \in Bytes /\ b \in Bytes /\ buffer.size = Len(buffer.datos)
        BY <2>1, Zenon
      <4> QED
        BY <4>1, <4>2, Tomar
    <3>3. Len(b) \in Nat
      BY <2>1, LenBytes
    <3>4. Alcanza(Len(v), buffer.size)
      BY <3>1, <3>2, <3>3 DEF Alcanza
    <3>5. ~Alcanza(Ancho[Campo[2]], buffer.size)
      BY <2>2 DEF DesempaquetarRompe
    <3> QED
      BY <3>1, <3>4, <3>5
  <2>3. CASE Campo[2] = "string"
    <3>1. /\ Len(v) \in Nat /\ Largos = {Len(v) + 1}
          /\ buffer.size - 4 >= Len(v) + 1 /\ buffer.size > 4
      <4>1. buffer.datos = PiezaString(v) ++ b /\ SinCeros(v)
        BY <2>1, <2>3, Zenon
      <4>2. /\ v \in Bytes /\ Breve(v) /\ b \in Bytes
            /\ buffer.size = Len(buffer.datos)
        BY <2>1, Zenon
      <4> HIDE DEF x, k
      <4> QED
        BY <4>1, <4>2, StringEntera
    <3>2. buffer.size \in Int
      BY DEF CInv, TypeOK
    <3>3. /\ Alcanza(4, buffer.size) /\ Alcanza(Len(v) + 1, buffer.size - 4)
          /\ ~(Len(v) + 1 <= 0)
      BY <3>1, <3>2 DEF Alcanza
    <3>4. Alcanza(4, buffer.size)
             => \E largo \in Largos : largo <= 0 \/ ~Alcanza(largo, buffer.size - 4)
      BY <2>3 DEF DesempaquetarRompe
    <3> QED
      BY <3>1, <3>3, <3>4
  <2> QED
    BY <2>2, <2>3
<1>4. Roto' = Roto
  BY <1>2 DEF Roto
<1>5. TypeOK' /\ Tipos'
  BY <1>1, <1>2 DEF CInv, TypeOK, Tipos, Secuencia
<1>6. PasoDeCola
  BY <1>2, <1>4 DEF PasoDeCola, Cola!vars
<1> QED
  BY <1>3, <1>4, <1>5, <1>6 DEF CInv

\* A mensaje is delivered as it was sent.
LEMMA PasoMensaje == CInv /\ recibir_mensaje => CInv' /\ PasoDeCola
<1> SUFFICES ASSUME CInv, recibir_mensaje PROVE CInv' /\ PasoDeCola
  OBVIOUS
<1> DEFINE x == enviados[Numero]
           k == Len(campos)
<1>1. /\ canal \notin Streams /\ receptor = "desempaquetar" /\ op = 1
      /\ Entrega(<<Cadena(0, buffer.size)>>)
      /\ UNCHANGED <<canal, enviados, red, llegado, corto>>
  BY DEF recibir_mensaje, MENSAJE
<1>2. ~Roto
  BY <1>1 DEF Roto
<1>3. /\ canal \in Canales /\ x \in Enviable(canal) /\ op = Codigo(canal)
      /\ PiezasCorrectas(canal, x) /\ buffer.datos = Restan(canal, x, k)
      /\ buffer.size = Len(buffer.datos) /\ Leyendo(x)
  BY <1>1, <1>2, EnBuffer, EnTrama
<1>4. canal = "mensaje" /\ k = 0
  <2>1. canal = "mensaje"
    BY <1>1, <1>3 DEF Canales, Codigo, PAQUETE
  <2>2. campos = <<>>
    BY <1>1, <1>3, <2>1 DEF Leyendo
  <2> QED
    BY <2>1, <2>2
<1> HIDE DEF x
<1> DEFINE v == x.campos[1]
<1>5. x.campos = <<v>> /\ v \in Bytes /\ SinCeros(v) /\ Cuerpo(canal, x) = v ++ <<0>>
      /\ Len(Piezas(canal, x)) = 1
  BY <1>3, <1>4, PiezasMensaje
<1> HIDE DEF v
<1>6. buffer.datos = v ++ <<0>>
  <2>1. 0 \in 0..Len(Piezas(canal, x))
    BY <1>5
  <2>2. Restan(canal, x, 0) = Cuerpo(canal, x)
    BY <1>3, <2>1, RestanPaso
  <2> QED
    BY <1>3, <1>4, <1>5, <2>2
<1>7. PICK cero \in Bytes : cero = <<0>> /\ Len(cero) = 1
  <2>1. <<0>> \in Bytes /\ Len(<<0>>) = 1
    BY DEF Bytes, Byte
  <2> QED
    BY <2>1
<1>8. Cadena(0, Len(v) + 1) = v
  <2>1. <<>> \in Bytes /\ Len(<<>>) = 0
    BY Pegar
  <2>2. (<<>> ++ v) ++ cero = v ++ cero /\ (v ++ cero) ++ <<>> = v ++ cero
    BY <1>5, Pegar
  <2>3. buffer.datos = ((<<>> ++ v) ++ <<0>>) ++ <<>>
    BY <1>6, <1>7, <2>2
  <2>4. Cadena(Len(<<>>), Len(v) + 1) = v
    BY <1>5, <2>1, <2>3, CadenaEntera
  <2> QED
    BY <2>1, <2>4
<1>9. buffer.size = Len(v) + 1
  <2>1. Len(v ++ cero) = Len(v) + Len(cero)
    BY <1>5, LenBytes
  <2> QED
    BY <1>3, <1>6, <1>7, <2>1
<1>10. [op |-> op, campos |-> <<Cadena(0, buffer.size)>>] = x
  <2>1. x = [op |-> op, campos |-> x.campos]
    BY <1>3 DEF Enviable
  <2> QED
    BY <1>5, <1>8, <1>9, <2>1
<1> QED
  BY <1>1, <1>10, PasoEntrega DEF x

\* A value of a package at the front of the buffer.
LEMMA ValorEnBuffer ==
  ASSUME CInv, canal = "paquete", receptor = "desempaquetar",
         Len(campos) < Len(Piezas(canal, enviados[Numero]))
  PROVE  LET v == enviados[Numero].campos[Len(campos) + 1]
             b == Restan(canal, enviados[Numero], Len(campos) + 1)
         IN /\ v \in Bytes /\ b \in Bytes /\ Len(v) \in Nat /\ Len(b) \in Nat
            /\ Entero(Tomados(4)) = Len(v) /\ SubSeq(Tomados(4 + Len(v)), 5, 4 + Len(v)) = v
            /\ Resto(4 + Len(v)) = [size |-> Len(b), datos |-> b]
            /\ buffer.size = (4 + Len(v)) + Len(b)
<1> DEFINE x == enviados[Numero]
           k == Len(campos)
           v == x.campos[k + 1]
           b == Restan(canal, x, k + 1)
           largo == Int32(Len(v))
           p == largo ++ v
<1>1. ~Roto
  BY DEF Roto, Streams, Emisor
<1>2. /\ x \in Enviable(canal) /\ buffer.size = Len(buffer.datos)
      /\ k \in 0..Len(Piezas(canal, x)) /\ Len(Piezas(canal, x)) \in Nat
      /\ b \in Bytes /\ buffer.datos = Piezas(canal, x)[k + 1] ++ b
  BY <1>1, EnBuffer
<1>3. k + 1 \in 1..Len(Piezas(canal, x))
  BY <1>2
<1> HIDE DEF x
<1>4. v \in Corta /\ Piezas(canal, x)[k + 1] = agregar_a_paquete(v)
  <2>1. /\ Len(Piezas(canal, x)) = Len(x.campos) /\ x.campos \in Seq(Corta)
        /\ \A i \in 1..Len(x.campos) : Piezas(canal, x)[i] = agregar_a_paquete(x.campos[i])
    BY <1>2, PiezasPaquete
  <2> QED
    BY <1>3, <2>1
<1>5. Piezas(canal, x)[k + 1] = p
  BY <1>4 DEF agregar_a_paquete, ++
<1>6. v \in Bytes
  BY <1>4 DEF Corta, Bytes
<1>7. Len(v) \in Nat /\ Len(b) \in Nat
  BY <1>2, <1>6, LenBytes
<1>8. largo \in Bytes
  <2>1. Len(v) < MaxInt
    BY <1>4, <1>7, Cabe DEF Corta
  <2> QED
    BY <1>7, <2>1, Enteros
<1>9. Len(largo) = 4 /\ Entero(largo) = Len(v)
  <2>1. Len(v) < MaxInt
    BY <1>4, <1>7, Cabe DEF Corta
  <2> QED
    BY <1>7, <2>1, Enteros
<1>10. b \in Bytes /\ buffer.size = Len(buffer.datos) /\ buffer.datos = p ++ b
  BY <1>2, <1>5
<1> HIDE DEF v, b, largo, p
<1>11. p \in Bytes
  BY <1>6, <1>8, Pegar DEF p
<1>12. Len(p) = 4 + Len(v)
  <2>1. Len(p) = Len(largo) + Len(v)
    BY <1>6, <1>8, LenBytes DEF p
  <2> QED
    BY <1>9, <2>1
<1>13. /\ Tomados(Len(p)) = p /\ Resto(Len(p)) = [size |-> Len(b), datos |-> b]
       /\ buffer.size = Len(p) + Len(b)
  BY <1>10, <1>11, Tomar
<1>14. Entero(Tomados(4)) = Len(v)
  <2>1. buffer.datos = largo ++ (v ++ b) /\ v ++ b \in Bytes
    BY <1>6, <1>8, <1>10, Pegar DEF p
  <2>2. Tomados(Len(largo)) = largo
    BY <1>8, <1>10, <2>1, Tomar
  <2> QED
    BY <1>9, <2>2
<1>15. SubSeq(p, 5, 4 + Len(v)) = v
  <2>1. SubSeq(largo ++ v, Len(largo) + 1, Len(largo) + Len(v)) = v
    BY <1>6, <1>8, Juntos
  <2> QED
    BY <1>9, <2>1 DEF p
<1>16. /\ SubSeq(Tomados(4 + Len(v)), 5, 4 + Len(v)) = v
       /\ Resto(4 + Len(v)) = [size |-> Len(b), datos |-> b]
       /\ buffer.size = (4 + Len(v)) + Len(b)
  BY <1>12, <1>13, <1>15
<1> QED
  BY <1>6, <1>7, <1>10, <1>14, <1>16 DEF x, v, b

\* One value of a package.
LEMMA PasoPaqueteValor == CInv /\ recibir_paquete_valor => CInv' /\ PasoDeCola
<1> SUFFICES ASSUME CInv, recibir_paquete_valor PROVE CInv' /\ PasoDeCola
  OBVIOUS
<1> DEFINE x == enviados[Numero]
           k == Len(campos)
           n == Len(Piezas(canal, x))
           v == x.campos[k + 1]
           b == Restan(canal, x, k + 1)
           tamanio == Entero(Tomados(4))
<1>1. /\ canal \notin Streams /\ receptor = "desempaquetar" /\ op = 2 /\ buffer.size > 0
      /\ campos' = Append(campos, SubSeq(Tomados(4 + tamanio), 5, 4 + tamanio))
      /\ buffer' = Resto(4 + tamanio)
  BY DEF recibir_paquete_valor, PAQUETE
<1>2. UNCHANGED <<canal, enviados, recibidos, red, llegado, receptor, op, corto>>
  BY DEF recibir_paquete_valor
<1>3. ~Roto /\ ~Roto'
  BY <1>1, <1>2 DEF Roto
<1>4. /\ canal \in Canales /\ x \in Enviable(canal) /\ op = Codigo(canal)
      /\ PiezasCorrectas(canal, x) /\ buffer.datos = Restan(canal, x, k)
      /\ buffer.size = Len(buffer.datos) /\ k \in 0..n /\ n \in Nat
      /\ EnCamino = Siguientes(canal, enviados, Numero) /\ Numero \in 1..Len(enviados)
      /\ \A i \in 1..k : campos[i] = Desempacado(canal, x, i)
  BY <1>1, <1>3, EnBuffer
<1>5. canal = "paquete"
  BY <1>1, <1>4 DEF Canales, Codigo, MENSAJE
<1>6. k < n
  <2> SUFFICES ASSUME k = n PROVE FALSE
    BY <1>4
  <2>1. buffer.datos = <<>>
    BY <1>4, RestanPaso
  <2> QED
    BY <1>1, <1>4, <2>1
<1>7. /\ b \in Bytes /\ tamanio = Len(v) /\ SubSeq(Tomados(4 + Len(v)), 5, 4 + Len(v)) = v
      /\ Resto(4 + Len(v)) = [size |-> Len(b), datos |-> b] /\ Len(b) \in Nat
  BY <1>1, <1>5, <1>6, ValorEnBuffer
<1> HIDE DEF tamanio, v, b
<1>8. campos' = Append(campos, v) /\ buffer' = [size |-> Len(b), datos |-> b]
  BY <1>1, <1>7
<1>9. /\ Secuencia(campos') /\ Len(campos') = k + 1
      /\ \A i \in 1..k : campos'[i] = campos[i]
      /\ campos'[k + 1] = v
  <2>1. Secuencia(campos)
    BY DEF CInv, Tipos
  <2> QED
    BY <1>8, <2>1, Anexar
<1>10. buffer'.size = Len(b) /\ buffer'.datos = b
  BY <1>8
<1>11. TypeOK'
  <2>1. b \in Seq(Dato)
    <3>1. b \in Seq(Byte)
      BY <1>7 DEF Bytes
    <3> QED
      BY <3>1 DEF Dato
  <2>2. Len(b) <= Len(b)
    BY <1>7
  <2> QED
    BY <1>2, <1>7, <1>10, <2>1, <2>2 DEF CInv, TypeOK
<1>12. Tipos'
  BY <1>1, <1>2, <1>8, <1>9, <1>10 DEF CInv, Tipos, Secuencia
<1>13. Flujo'
  <2>1. Numero' = Numero /\ x' = x /\ EnCamino' = EnCamino /\ canal # "mensaje"
    BY <1>2, <1>5 DEF Numero, EnCamino
  <2>2. \A i \in 1..Len(campos') : campos'[i] = Desempacado(canal, x, i)
    <3>1. \A i \in 1..k : campos'[i] = Desempacado(canal, x, i)
      BY <1>4, <1>9
    <3>2. campos'[k + 1] = Desempacado(canal, x, k + 1)
      BY <1>1, <1>9 DEF Desempacado, v
    <3>3. \A i \in 1..(k + 1) : i \in 1..k \/ i = k + 1
      BY <1>4
    <3> HIDE DEF x, k
    <3> QED
      BY <1>9, <3>1, <3>2, <3>3
  <2>3. Len(campos') <= n
    BY <1>4, <1>6, <1>9
  <2>4. buffer'.size = Len(buffer'.datos) /\ buffer'.datos = Restan(canal, x, Len(campos'))
    BY <1>9, <1>10 DEF b
  <2>5. Numero <= Len(enviados)
    BY <1>4
  <2> HIDE DEF x
  <2>6. Leyendo(x)'
    BY <1>1, <1>2, <1>4, <2>1, <2>2, <2>3, <2>4 DEF Leyendo
  <2> QED
    BY <1>1, <1>2, <2>1, <2>5, <2>6 DEF Flujo, x
<1>14. PasoDeCola
  BY <1>2, NadaEnCola DEF CInv, TypeOK
<1> QED
  BY <1>11, <1>12, <1>13, <1>14 DEF CInv

\* The end of the values of a package.
LEMMA PasoPaquete == CInv /\ recibir_paquete => CInv' /\ PasoDeCola
<1> SUFFICES ASSUME CInv, recibir_paquete PROVE CInv' /\ PasoDeCola
  OBVIOUS
<1> DEFINE x == enviados[Numero]
           k == Len(campos)
           n == Len(Piezas(canal, x))
<1>1. /\ canal \notin Streams /\ receptor = "desempaquetar" /\ op = 2 /\ buffer.size = 0
      /\ Entrega(campos) /\ UNCHANGED <<canal, enviados, red, llegado, corto>>
  BY DEF recibir_paquete, PAQUETE
<1>2. ~Roto
  BY <1>1 DEF Roto
<1>3. /\ canal \in Canales /\ x \in Enviable(canal) /\ op = Codigo(canal)
      /\ k \in 0..n /\ n \in Nat
      /\ \A i \in 1..k : campos[i] = Desempacado(canal, x, i)
  BY <1>1, <1>2, EnBuffer
<1>4. canal = "paquete"
  BY <1>1, <1>3 DEF Canales, Codigo, MENSAJE
<1>5. k = n
  <2> SUFFICES ASSUME k < n PROVE FALSE
    BY <1>3
  <2> DEFINE v == x.campos[k + 1]
             b == Restan(canal, x, k + 1)
  <2>1. Len(v) \in Nat /\ Len(b) \in Nat /\ buffer.size = (4 + Len(v)) + Len(b)
    BY <1>1, <1>4, ValorEnBuffer
  <2> HIDE DEF v, b
  <2> QED
    BY <1>1, <2>1
<1>6. campos = x.campos
  <2> HIDE DEF x
  <2>1. n = Len(x.campos) /\ x.campos \in Seq(Corta)
    BY <1>3, <1>4, PiezasPaquete
  <2> DEFINE c == x.campos
  <2>2. \A i \in 1..k : campos[i] = c[i]
    BY <1>1, <1>3 DEF Desempacado
  <2>3. PICK T : campos \in Seq(T)
    BY DEF CInv, Tipos, Secuencia
  <2>4. c \in Seq(Corta \union T) /\ campos \in Seq(Corta \union T) /\ Len(c) = Len(campos)
    BY <1>5, <2>1, <2>3
  <2> HIDE DEF c
  <2> QED
    BY <2>2, <2>4, SeqEqual DEF c
<1>7. [op |-> op, campos |-> campos] = x
  <2>1. x = [op |-> op, campos |-> x.campos]
    BY <1>3 DEF Enviable
  <2> QED
    BY <1>6, <2>1
<1> QED
  BY <1>1, <1>7, PasoEntrega

-----------------------------------------------------------------------------
(* The invariant of the system, and what follows.                          *)

\* The invariant holds at the start.
LEMMA CInvInit == Init => CInv
<1> SUFFICES ASSUME Init PROVE CInv
  OBVIOUS
<1>1. /\ canal \in Canales /\ enviados = <<>> /\ recibidos = <<>> /\ red = <<>>
      /\ llegado = <<>> /\ receptor = "header" /\ op = 0 /\ campos = <<>>
      /\ buffer = [size |-> 0, datos |-> <<>>] /\ corto = FALSE
  BY DEF Init, BufferVacio
<1>2. TypeOK
  <2>1. buffer.size \in Int /\ buffer.datos \in Seq(Dato) /\ buffer.datos = <<>>
    BY <1>1
  <2>2. red \in Seq(Byte) /\ llegado \in Seq(Byte) /\ op \in Int
    BY <1>1
  <2> QED
    BY <1>1, <2>1, <2>2 DEF TypeOK
<1>3. Tipos
  <2>1. <<>> \in Seq({}) /\ Len(<<>>) = 0
    OBVIOUS
  <2>2. Secuencia(recibidos) /\ Secuencia(campos)
    BY <1>1, <2>1 DEF Secuencia
  <2>3. ASSUME canal \in Streams PROVE 0 < Len(Plan(canal))
    <3>1. Len(Plan(canal)) \in 1..3
      BY <2>3, Acuerdo DEF Plan, PlanCorrecto
    <3> QED
      BY <3>1
  <2>4. enviados \in Seq(Enviable(canal))
    BY <1>1
  <2>5. buffer = [size |-> buffer.size, datos |-> buffer.datos]
    BY <1>1
  <2> QED
    BY <1>1, <2>1, <2>2, <2>3, <2>4, <2>5 DEF Tipos
<1>4. Flujo
  <2>1. enviados \in Seq(Enviable(canal)) /\ Len(enviados) = 0 /\ Len(recibidos) = 0
    BY <1>1
  <2>2. 0 \in 0..Len(enviados)
    BY <2>1
  <2>3. Siguientes(canal, enviados, 0) = <<>>
    BY <1>1, <2>1, <2>2, SiguientesPaso
  <2>4. EnCamino = <<>>
    <3>1. <<>> ++ <<>> = <<>>
      BY Pegar
    <3> QED
      BY <1>1, <3>1 DEF EnCamino
  <2> QED
    BY <1>1, <2>1, <2>3, <2>4 DEF Flujo
<1> QED
  BY <1>2, <1>3, <1>4 DEF CInv

\* Every step keeps the invariant, and is a step of ColaDeMensajes or none.
LEMMA CInvPaso == CInv /\ [Next]_vars => CInv' /\ PasoDeCola
<1> SUFFICES ASSUME CInv, [Next]_vars PROVE CInv' /\ PasoDeCola
  OBVIOUS
<1>1. CASE Emite
  BY <1>1, PasoEnviarStream, PasoEnviarMensaje, PasoEnviarPaquete DEF Emite
<1>2. CASE Llega
  BY <1>2, PasoLlega
<1>3. CASE Recibe
  BY <1>3, PasoHeaderStream, PasoTamanioStream, PasoCuerpoStream, PasoDesempaquetar,
     PasoDesempaquetarString, PasoRompe, PasoOperacion, PasoTamanioPaquete,
     PasoCuerpoPaquete, PasoMensaje, PasoPaqueteValor, PasoPaquete DEF Recibe
<1>4. CASE UNCHANGED vars
  <2>1. UNCHANGED <<canal, enviados, recibidos, red, llegado, receptor, op, buffer,
                    campos, corto>>
    BY <1>4 DEF vars
  <2>2. TypeOK' /\ Tipos'
    BY <2>1 DEF CInv, TypeOK, Tipos, Secuencia
  <2>3. Roto' = Roto
    BY <2>1 DEF Roto
  <2>4. Flujo' = Flujo
    BY <2>1 DEF Flujo, Leyendo, Numero, EnCamino
  <2>5. PasoDeCola
    BY <2>1, <2>3 DEF PasoDeCola, Cola!vars
  <2> QED
    BY <2>2, <2>3, <2>4, <2>5 DEF CInv
<1> QED
  BY <1>1, <1>2, <1>3, <1>4 DEF Next

\* The types, the bookkeeping of the receiver and, while no recv of a stream has been short,
\* what Flujo says of the bytes on the way (utils/stream.c, utils/mensajes.c).
THEOREM InvarianteCanal == Spec => []CInv
<1> QED
  BY CInvInit, CInvPaso, PTL DEF Spec

\* A t_buffer never holds more than was allocated for it, whatever a recv returned: every
\* one asks for no more than the size (utils/stream.c:40, utils/mensajes.c:91).
THEOREM TipoCanal == Spec => []TypeOK
<1>1. CInv => TypeOK
  BY DEF CInv
<1> QED
  BY <1>1, InvarianteCanal, PTL

\* Unless a recv has been cut short, the reader between two messages is between two
\* frames: it has read what was sent to the last byte (utils/stream.c, utils/mensajes.c).
THEOREM FronteraCanal == Spec => []FronteraDeTrama
<1>1. CInv => FronteraDeTrama
  <2> SUFFICES ASSUME CInv, receptor = "header", Len(recibidos) = Len(enviados), ~Roto
               PROVE  red = <<>> /\ llegado = <<>>
    BY DEF FronteraDeTrama
  <2>1. /\ canal \in Canales /\ enviados \in Seq(Enviable(canal))
        /\ EnCamino = Siguientes(canal, enviados, Len(enviados))
    BY DEF CInv, TypeOK, Tipos, Flujo
  <2>2. Len(enviados) \in 0..Len(enviados)
    BY <2>1
  <2>3. EnCamino = <<>>
    BY <2>1, <2>2, SiguientesPaso
  <2>4. llegado \in Seq(Byte) /\ red \in Seq(Byte) /\ llegado \o red = <<>>
    BY <2>3 DEF CInv, TypeOK, EnCamino, ++
  <2>5. Len(llegado \o red) = Len(llegado) + Len(red)
    BY <2>4
  <2>6. Len(llegado) = 0 /\ Len(red) = 0
    BY <2>4, <2>5
  <2> QED
    BY <2>4, <2>6
<1> QED
  BY <1>1, InvarianteCanal, PTL

\* Every message sent arrives, once, in order and unaltered, for as long as no recv of a
\* stream returns less than it asked for, and always for the paquete functions: the safety
\* of ImplementaCola, for any messages (utils/stream.c, utils/mensajes.c).
THEOREM ImplementaColaSegura == Spec => Cola!Init /\ [][Cola!Next]_(Cola!vars)
<1>1. Init => Cola!Init
  BY DEF Init, Cola!Init, Roto
<1>2. CInv /\ [Next]_vars => [Cola!Next]_(Cola!vars)
  BY CInvPaso DEF PasoDeCola
<1> QED
  BY <1>1, <1>2, InvarianteCanal, PTL DEF Spec

\* What was received is the beginning of what was sent.
Recibido ==
  ~Roto => /\ Len(recibidos) <= Len(enviados)
           /\ \A i \in 1..Len(recibidos) : recibidos[i] = enviados[i]

LEMMA RecibidoPaso == CInv /\ CInv' /\ Recibido /\ PasoDeCola => Recibido'
<1> SUFFICES ASSUME CInv, CInv', Recibido, PasoDeCola, ~Roto' PROVE Recibido'
  BY DEF Recibido
<1>1. Len(enviados) \in Nat /\ Len(enviados') \in Nat /\ Len(recibidos) \in Nat
  <2>1. enviados \in Seq(Enviable(canal)) /\ enviados' \in Seq(Enviable(canal'))
    BY DEF CInv, Tipos, Enviable
  <2>2. Secuencia(recibidos)
    BY DEF CInv, Tipos
  <2> QED
    BY <2>1, <2>2, Anexar
<1>2. CASE Cola!Enviar
  <2>1. /\ Len(enviados') = Len(enviados) + 1
        /\ SubSeq(enviados', 1, Len(enviados)) = enviados
        /\ recibidos' = recibidos /\ ~Roto
    BY <1>2 DEF Cola!Enviar
  <2>2. \A i \in 1..Len(enviados) : enviados[i] = enviados'[i]
    <3> TAKE i \in 1..Len(enviados)
    <3>1. SubSeq(enviados', 1, Len(enviados))[i] = enviados'[i]
      BY <1>1
    <3> QED
      BY <2>1, <3>1
  <2>3. Len(recibidos) <= Len(enviados) /\ \A i \in 1..Len(recibidos) : recibidos[i] = enviados[i]
    BY <2>1 DEF Recibido
  <2>4. \A i \in 1..Len(recibidos) : i \in 1..Len(enviados)
    BY <1>1, <2>3
  <2>5. \A i \in 1..Len(recibidos) : recibidos[i] = enviados'[i]
    BY <2>2, <2>3, <2>4
  <2>6. Len(recibidos) <= Len(enviados')
    BY <1>1, <2>1, <2>3
  <2> QED
    BY <2>1, <2>5, <2>6 DEF Recibido
<1>3. CASE Cola!Entregar
  <2>1. /\ ~Roto /\ Len(recibidos) < Len(enviados) /\ enviados' = enviados
        /\ recibidos' = Append(recibidos, enviados[Len(recibidos) + 1])
    BY <1>3 DEF Cola!Entregar
  <2>2. /\ Len(recibidos') = Len(recibidos) + 1
        /\ \A i \in 1..Len(recibidos) : recibidos'[i] = recibidos[i]
        /\ recibidos'[Len(recibidos) + 1] = enviados[Len(recibidos) + 1]
    <3>1. Secuencia(recibidos)
      BY DEF CInv, Tipos
    <3> QED
      BY <2>1, <3>1, Anexar
  <2>3. \A i \in 1..Len(recibidos') : i \in 1..Len(recibidos) \/ i = Len(recibidos) + 1
    BY <1>1, <2>2
  <2>4. \A i \in 1..Len(recibidos) : recibidos[i] = enviados[i]
    BY <2>1 DEF Recibido
  <2>5. \A i \in 1..Len(recibidos') : recibidos'[i] = enviados'[i]
    BY <2>1, <2>2, <2>3, <2>4
  <2>6. Len(recibidos') <= Len(enviados')
    BY <1>1, <2>1, <2>2
  <2> QED
    BY <2>5, <2>6 DEF Recibido
<1>4. CASE Cola!Romperse
  BY <1>4 DEF Cola!Romperse
<1>5. CASE UNCHANGED Cola!vars
  <2>1. enviados' = enviados /\ recibidos' = recibidos /\ ~Roto
    BY <1>5 DEF Cola!vars
  <2> QED
    BY <2>1 DEF Recibido
<1> QED
  BY <1>2, <1>3, <1>4, <1>5 DEF PasoDeCola, Cola!Next

\* What a reader has received is the beginning of what was sent, message by message,
\* unless a recv of a stream was cut short; of mensajes and paquetes, always
\* (utils/mensajes.c:91, 106, 108).
THEOREM RecibidoEsEnviado == Spec => []Recibido
<1>1. Init => Recibido
  <2> SUFFICES ASSUME Init PROVE Recibido
    OBVIOUS
  <2>1. enviados = <<>> /\ recibidos = <<>>
    BY DEF Init
  <2>2. Len(recibidos) = 0 /\ Len(enviados) = 0
    BY <2>1
  <2> QED
    BY <2>2 DEF Recibido
<1>2. CInv /\ CInv' /\ [Next]_vars /\ Recibido => Recibido'
  BY CInvPaso, RecibidoPaso
<1> QED
  BY <1>1, <1>2, InvarianteCanal, PTL DEF Spec

\* The exit and the faults of buffer_desempaquetar (utils/mensajes.c:174), and the end of the
\* CPU on a header it does not know (cpu/src/atender_kernel.c), do not reach a reader
\* that no recv has cut short, and never one of a mensaje or a paquete.
THEOREM SoloLoCortaUnRecv == Spec => [](receptor = "caido" => Roto)
<1>1. CInv => (receptor = "caido" => Roto)
  BY DEF CInv, Flujo, Leyendo
<1> QED
  BY <1>1, InvarianteCanal, PTL
=============================================================================
