------------------------- MODULE SharedMutexProofs -------------------------
(***************************************************************************)
(* Proofs about shared_mutex for any number of threads and any width of    *)
(* the fields of its word that has room for them.                          *)
(*                                                                         *)
(* The word is taken apart into numbers first: Arith says how it is made   *)
(* of readers, writers, waiters and the signal, and what these have to do  *)
(* with each other, and one lemma for each way of changing the word says   *)
(* that Arith is kept.  The steps of the threads then only have to be      *)
(* shown to change the word and the numbers together.                      *)
(***************************************************************************)
EXTENDS SharedMutex, FiniteSetTheorems, TLAPS

N == Cardinality(Threads)

\* k writers and waiters, and the signal, in the word.
C(k) == c_one * k
Sg(s) == IF s = 1 THEN c_sig ELSE 0

\* The word v stands for r readers, w writers, q waiters and the signal s, while
\* g threads are about to set the signal.
Arith(v, r, w, q, g, s) ==
  /\ v = r + C(w + q) + Sg(s)
  /\ r < c_one
  /\ w <= 1
  /\ w = 1 => r = 0
  /\ g + s = IF q > 0 /\ r = 0 /\ w = 0 THEN 1 ELSE 0

\* How many threads are where the labels say, when f says where they are.
At(f, L) == {t \in Threads : f[t] \in L}
Num(f, L) == Cardinality(At(f, L))

RL == {"reader"}
WL == {"writer", "downgrade", "pass"}
QL == {"wait", "asleep"}
GL == {"signal"}

Counts(v, f, s) == Arith(v, Num(f, RL), Num(f, WL), Num(f, QL), Num(f, GL), s)

\* A signal that is set is seen by somebody.
Heard(v, f) == v >= c_sig => \E t \in Threads : f[t] \in {"wait", "notify"}

\* Whoever was inside when t called lock_unlock and is so still keeps the number
\* of writers and waiters from falling below what t saw.
PassInv ==
  \A t \in Threads :
    /\ ahead[t] \subseteq Inside
    /\ pc[t] = "look" /\ ahead[t] # {} => max[t] <= 1 + Cardinality(Waiters)

\* The inductive invariant.
IInv ==
  /\ TypeOK
  /\ \E s \in {0, 1} : Counts(m_value, pc, s)
  /\ Heard(m_value, pc)
  /\ PassInv

----------------------------------------------------------------------------
\* Threads that there is room for leave the signal bit alone.
LEMMA Fields ==
  /\ c_one \in Nat /\ c_one > 1 /\ c_sig \in Nat /\ N \in Nat
  /\ C(0) = 0
  /\ \A k \in Nat : C(k) \in Nat /\ C(k + 1) = C(k) + c_one
  /\ \A k \in Nat : k > 0 => C(k) >= c_one /\ C(k - 1) = C(k) - c_one
  /\ \A k \in Nat : k <= N => C(k) + c_one <= c_sig
  /\ \A k \in Nat : C(k) = 0 <=> k = 0
  <1>1. c_one \in Nat /\ c_one > 1 /\ c_sig \in Nat /\ N \in Nat
    BY Zenon, SharedMutexAssumption, FS_CardinalityType DEF N
  <1>2. C(0) = 0
    BY <1>1 DEF C
  <1>3. ASSUME NEW k \in Nat PROVE C(k) \in Nat /\ C(k + 1) = C(k) + c_one
    BY <1>1 DEF C
  <1>4. ASSUME NEW k \in Nat, k > 0
        PROVE  C(k) >= c_one /\ C(k - 1) = C(k) - c_one
    <2>1. k - 1 \in Nat /\ (k - 1) + 1 = k
      BY <1>4
    <2>2. C(k - 1) \in Nat /\ C(k) = C(k - 1) + c_one
      BY Zenon, <1>3, <2>1
    <2> QED  BY <1>1, <2>2
  <1>5. ASSUME NEW k \in Nat, k <= N PROVE C(k) + c_one <= c_sig
    <2>1. N - k \in Nat /\ k + (N - k) = N
      BY <1>1, <1>5
    <2>2. c_one * (N - k) \in Nat /\ c_one * k \in Nat
      BY <1>1, <2>1
    <2>3. c_one * (k + (N - k)) = c_one * k + c_one * (N - k)
      BY <1>1, <2>1
    <2>4. (N + 1) * c_one = c_one * N + c_one
      BY <1>1
    <2>5. (N + 1) * c_one <= c_sig
      BY Zenon, SharedMutexAssumption DEF N
    <2> QED  BY <1>1, <2>1, <2>2, <2>3, <2>4, <2>5 DEF C
  <1>6. ASSUME NEW k \in Nat PROVE C(k) = 0 <=> k = 0
    <2>1. CASE k = 0
      BY Zenon, <1>2, <2>1
    <2>2. CASE k > 0
      BY <1>1, <1>3, <1>4, <2>2
    <2> QED  BY <2>1, <2>2
  <1> QED  BY Zenon, <1>1, <1>2, <1>3, <1>4, <1>5, <1>6

\* Division by c_one takes the readers and the others apart.
LEMMA Parts ==
  ASSUME NEW q \in Nat, NEW r \in Nat, r < c_one
  PROVE  (r + C(q)) % c_one = r /\ (r + C(q)) \div c_one = q
  <1> DEFINE x == r + C(q)
             d == x \div c_one
             e == x % c_one
  <1>1. c_one \in Nat /\ c_one > 1
    BY Zenon, Fields
  <1>2. x \in Nat
    <2>1. C(q) \in Nat
      BY Zenon, Fields
    <2> QED  BY <2>1
  <1>3. d \in Nat /\ e \in Nat /\ e < c_one /\ x = c_one * d + e
    BY <1>1, <1>2
  <1>4. ASSUME NEW a \in Nat, NEW b \in Nat, a < b PROVE c_one * a + c_one <= c_one * b
    <2>1. (b - a) - 1 \in Nat /\ a + 1 + ((b - a) - 1) = b
      BY <1>4
    <2>2. c_one * ((b - a) - 1) \in Nat /\ c_one * a \in Nat
      BY <1>1, <2>1
    <2>3. c_one * (a + 1 + ((b - a) - 1)) = c_one * a + c_one + c_one * ((b - a) - 1)
      BY <1>1, <2>1
    <2> QED  BY <1>1, <2>1, <2>2, <2>3
  <1>5. c_one * d \in Nat /\ c_one * q \in Nat
    BY <1>1, <1>3
  <1>6. c_one * d + e = r + c_one * q
    BY Zenon, <1>3 DEF C
  <1>7. ~(d < q)
    <2> SUFFICES ASSUME d < q PROVE FALSE
      BY Zenon
    <2>1. c_one * d + c_one <= c_one * q
      BY Zenon, <1>3, <1>4
    <2> HIDE DEF d, e
    <2> QED  BY <1>1, <1>3, <1>5, <1>6, <2>1
  <1>8. ~(q < d)
    <2> SUFFICES ASSUME q < d PROVE FALSE
      BY Zenon
    <2>1. c_one * q + c_one <= c_one * d
      BY Zenon, <1>3, <1>4
    <2> HIDE DEF d, e
    <2> QED  BY <1>1, <1>3, <1>5, <1>6, <2>1
  <1>9. d = q
    <2> HIDE DEF d
    <2> QED  BY <1>3, <1>7, <1>8
  <1>10. e = r
    <2> HIDE DEF d, e
    <2> QED  BY <1>1, <1>3, <1>5, <1>6, <1>9
  <1> QED  BY Zenon, <1>9, <1>10

\* What a look at the word tells.
Tells(v, r, w, q, s) ==
  /\ v \in Nat /\ v < 2 * c_sig
  /\ v >= c_sig <=> s = 1
  /\ v >= c_one <=> w + q > 0
  /\ v = 0 <=> r = 0 /\ w = 0 /\ q = 0
  /\ v % c_one = r
  /\ s = 0 => v \div c_one = w + q

\* A word that stands for these numbers tells them.
LEMMA Look ==
  ASSUME NEW v, NEW r \in Nat, NEW w \in Nat, NEW q \in Nat, NEW g \in Nat,
         NEW s \in {0, 1}, w + q <= N, Arith(v, r, w, q, g, s)
  PROVE  Tells(v, r, w, q, s)
  <1> DEFINE k == w + q
  <1>1. k \in Nat /\ k <= N
    OBVIOUS
  <1>2. /\ C(k) \in Nat /\ C(k) + c_one <= c_sig
        /\ k = 0 => C(k) = 0
        /\ k > 0 => C(k) >= c_one
    BY Zenon, <1>1, Fields
  <1>3. c_one \in Nat /\ c_one > 1 /\ c_sig \in Nat
    BY Zenon, Fields
  <1>4. v = r + C(k) + Sg(s) /\ r < c_one /\ (s = 1 => q > 0)
    BY DEF Arith
  <1>5. /\ v \in Nat /\ v < 2 * c_sig
        /\ v >= c_sig <=> s = 1
        /\ v >= c_one <=> k > 0
        /\ v = 0 <=> r = 0 /\ k = 0
    <2> HIDE DEF k
    <2>1. CASE s = 0
      BY <1>1, <1>2, <1>3, <1>4, <2>1 DEF Sg
    <2>2. CASE s = 1
      <3>1. k > 0
        BY <1>4, <2>2 DEF k
      <3> QED  BY <1>1, <1>2, <1>3, <1>4, <2>2, <3>1 DEF Sg
    <2> QED  BY Zenon, <2>1, <2>2
  <1>6. (r + C(k)) % c_one = r /\ (r + C(k)) \div c_one = k
    BY Zenon, <1>1, <1>4, Parts
  <1>7. v % c_one = r /\ (s = 0 => v \div c_one = k)
    <2>1. CASE s = 0
      <3>1. v = r + C(k)
        BY <1>2, <1>4, <2>1 DEF Sg
      <3> QED  BY Zenon, <1>6, <3>1
    <2>2. CASE s = 1
      <3> DEFINE p == c_sig \div c_one
      <3>1. p \in Nat /\ c_sig = C(p)
        <4>1. c_sig = c_one * p + (c_sig % c_one) /\ p \in Nat
          BY <1>3
        <4> QED  BY <1>3, <4>1, SharedMutexAssumption DEF C
      <3>2. C(k) + C(p) = C(k + p)
        BY <1>1, <1>3, <3>1 DEF C
      <3> HIDE DEF p, k
      <3>3. v = r + C(k + p) /\ k + p \in Nat
        BY <1>1, <1>2, <1>3, <1>4, <2>2, <3>1, <3>2 DEF Sg
      <3> QED  BY <1>4, <2>2, <3>3, Parts
    <2> QED  BY Zenon, <2>1, <2>2
  <1>8. k = 0 <=> w = 0 /\ q = 0
    OBVIOUS
  <1> QED  BY Zenon, <1>5, <1>7, <1>8 DEF Tells

\* Each way of changing the word, with what becomes of the numbers it stands for.
Keeps(v, r, w, q, g, s) ==
  /\ v < c_one - 1 => Arith(v + 1, r + 1, w, q, g, s)
  /\ v >= c_sig => Arith(v - c_sig + 1, r + 1, w, q, g, 0)
  /\ v >= c_sig => Arith(v - c_sig + c_one, r, w + 1, q, g, 0)
  /\ v >= c_sig /\ q > 0 => Arith(v - c_sig, r, w + 1, q - 1, g, 0)
  /\ v = 0 => Arith(v + c_one, r, w + 1, q, g, s)
  /\ v # 0 => Arith(v + c_one, r, w, q + 1, g, s)
  /\ w > 0 => Arith(v - (c_one - 1), r + 1, w - 1, q, g, s)
  /\ w > 0 => Arith(v - c_one, r, w - 1, q,
                    IF v # c_one THEN g + 1 ELSE g, s)
  /\ r > 0 => Arith(v - 1, r - 1, w, q,
                    IF v >= c_one /\ (v - 1) % c_one = 0
                    THEN g + 1 ELSE g, s)
  /\ r > 0 /\ v % c_one = 1 => Arith(v + (c_one - 1), r - 1, w + 1, q, g, s)
  /\ r > 0 /\ v % c_one # 1 => Arith(v + (c_one - 1), r - 1, w, q + 1, g, s)
  /\ g > 0 => Arith(v + c_sig, r, w, q, g - 1, 1)

\* Every change keeps the word and the numbers in agreement.
LEMMA Changes ==
  ASSUME NEW v, NEW r \in Nat, NEW w \in Nat, NEW q \in Nat, NEW g \in Nat,
         NEW s \in {0, 1}, w + q <= N, Arith(v, r, w, q, g, s)
  PROVE  Keeps(v, r, w, q, g, s)
  <1> DEFINE k == w + q
  <1>1. k \in Nat
    OBVIOUS
  <1>2. /\ c_one \in Nat /\ c_one > 1 /\ c_sig \in Nat
        /\ C(k) \in Nat /\ C(k) + c_one <= c_sig
        /\ k = 0 => C(k) = 0
        /\ k > 0 => C(k) >= c_one /\ C(k - 1) = C(k) - c_one
        /\ C(k + 1) = C(k) + c_one
    BY Zenon, <1>1, Fields
  <1>3. /\ v = r + C(k) + Sg(s) /\ r < c_one /\ w <= 1 /\ (w = 1 => r = 0)
        /\ g + s = IF q > 0 /\ r = 0 /\ w = 0 THEN 1 ELSE 0
    BY Zenon DEF Arith
  <1>t. Tells(v, r, w, q, s)
    BY Zenon, Look
  <1>4. /\ v \in Nat
        /\ v >= c_sig <=> s = 1
        /\ v >= c_one <=> w + q > 0
        /\ v = 0 <=> r = 0 /\ w = 0 /\ q = 0
    BY Zenon, <1>t DEF Tells
  <1>r. v % c_one = r
    BY Zenon, <1>t DEF Tells
  <1>5. /\ (w + 1) + q = k + 1 /\ w + (q + 1) = k + 1
        /\ w > 0 => (w - 1) + q = k - 1
        /\ q > 0 => (w + 1) + (q - 1) = k
    OBVIOUS
  <1>6. k = 0 <=> w = 0 /\ q = 0
    OBVIOUS
  <1> HIDE DEF k
  <1>7. ASSUME v < c_one - 1 PROVE Arith(v + 1, r + 1, w, q, g, s)
    BY <1>1, <1>2, <1>3, <1>4, <1>6, <1>7 DEF Arith, Sg, k
  <1>8. ASSUME v >= c_sig PROVE Arith(v - c_sig + 1, r + 1, w, q, g, 0)
    BY <1>1, <1>2, <1>3, <1>4, <1>6, <1>8 DEF Arith, Sg, k
  <1>9. ASSUME v >= c_sig PROVE Arith(v - c_sig + c_one, r, w + 1, q, g, 0)
    BY <1>1, <1>2, <1>3, <1>4, <1>5, <1>9 DEF Arith, Sg
  <1>10. ASSUME v >= c_sig, q > 0
         PROVE  Arith(v - c_sig, r, w + 1, q - 1, g, 0)
    BY <1>1, <1>2, <1>3, <1>4, <1>5, <1>10 DEF Arith, Sg
  <1>11. ASSUME v = 0 PROVE Arith(v + c_one, r, w + 1, q, g, s)
    BY <1>1, <1>2, <1>3, <1>4, <1>5, <1>6, <1>11 DEF Arith, Sg
  <1>12. ASSUME v # 0 PROVE Arith(v + c_one, r, w, q + 1, g, s)
    BY <1>1, <1>2, <1>3, <1>4, <1>5, <1>6, <1>12 DEF Arith, Sg
  <1>13. ASSUME w > 0 PROVE Arith(v - (c_one - 1), r + 1, w - 1, q, g, s)
    BY <1>1, <1>2, <1>3, <1>4, <1>5, <1>6, <1>13 DEF Arith, Sg
  <1>14. ASSUME w > 0
         PROVE  Arith(v - c_one, r, w - 1, q, IF v # c_one THEN g + 1 ELSE g, s)
    <2>1. s = 0 /\ w = 1 /\ r = 0 /\ g = 0 /\ v = C(k) /\ k > 0
      BY <1>1, <1>2, <1>3, <1>6, <1>14 DEF Sg
    <2>2. v = c_one <=> q = 0
      <3>1. C(k - 1) = 0 <=> k - 1 = 0
        BY <1>1, <2>1, Fields
      <3> QED  BY <1>1, <1>2, <2>1, <3>1 DEF k
    <2> QED  BY <1>1, <1>2, <1>3, <1>5, <2>1, <2>2 DEF Arith, Sg
  <1>15. ASSUME r > 0
         PROVE  Arith(v - 1, r - 1, w, q,
                      IF v >= c_one /\ (v - 1) % c_one = 0 THEN g + 1 ELSE g, s)
    <2>1. s = 0 /\ w = 0 /\ g = 0 /\ v = r + C(k)
      BY <1>1, <1>2, <1>3, <1>15 DEF Sg
    <2>2. v - 1 = (r - 1) + C(k) /\ r - 1 \in Nat /\ r - 1 < c_one
      BY <1>2, <1>3, <1>15, <2>1
    <2>3. (v - 1) % c_one = r - 1
      BY Zenon, <1>1, <2>2, Parts
    <2>4. v >= c_one <=> q > 0
      BY <1>4, <2>1 DEF k
    <2> QED  BY <1>2, <1>3, <1>15, <2>1, <2>2, <2>3, <2>4 DEF Arith, Sg, k
  <1>16. ASSUME r > 0, v % c_one = 1
         PROVE  Arith(v + (c_one - 1), r - 1, w + 1, q, g, s)
    BY <1>1, <1>2, <1>3, <1>r, <1>5, <1>16 DEF Arith, Sg
  <1>17. ASSUME r > 0, v % c_one # 1
         PROVE  Arith(v + (c_one - 1), r - 1, w, q + 1, g, s)
    BY <1>1, <1>2, <1>3, <1>r, <1>5, <1>17 DEF Arith, Sg
  <1>18. ASSUME g > 0 PROVE Arith(v + c_sig, r, w, q, g - 1, 1)
    BY <1>1, <1>2, <1>3, <1>4, <1>18 DEF Arith, Sg, k
  <1> QED  BY Zenon, <1>7, <1>8, <1>9, <1>10, <1>11, <1>12, <1>13, <1>14, <1>15, <1>16,
              <1>17, <1>18 DEF Keeps

----------------------------------------------------------------------------
\* Counting threads: one that goes from f[t] to l counts there and no longer here.
In(l, L) == IF l \in L THEN 1 ELSE 0

Moved(f, h, a, l, L) == Num(h, L) = Num(f, L) + In(l, L) - In(a, L)

\* The threads at some labels can be counted.
LEMMA NumType ==
  ASSUME NEW f, NEW L
  PROVE  IsFiniteSet(At(f, L)) /\ Num(f, L) \in Nat
  <1>1. At(f, L) \subseteq Threads
    BY Zenon DEF At
  <1>2. IsFiniteSet(At(f, L))
    BY Zenon, <1>1, SharedMutexAssumption, FS_Subset
  <1> QED  BY Zenon, <1>2, FS_CardinalityType DEF Num

\* A move of one thread changes the numbers by one or not at all.
LEMMA Move ==
  ASSUME NEW S, NEW f \in [Threads -> S], NEW t \in Threads, NEW l, NEW L
  PROVE  /\ Moved(f, [f EXCEPT ![t] = l], f[t], l, L)
         /\ f[t] \in L => Num(f, L) > 0
  <1> DEFINE h == [f EXCEPT ![t] = l]
             A == At(f, L)
             B == At(h, L)
  <1>1. IsFiniteSet(A) /\ Cardinality(A) \in Nat /\ Num(f, L) = Cardinality(A)
    BY Zenon, NumType DEF Num
  <1>2. IsFiniteSet(B) /\ Cardinality(B) \in Nat /\ Num(h, L) = Cardinality(B)
    BY Zenon, NumType DEF Num
  <1>3. t \in A <=> f[t] \in L
    BY Zenon DEF At
  <1>4. t \in B <=> l \in L
    BY Zenon DEF At
  <1>5. A \ {t} = B \ {t}
    BY Zenon DEF At
  <1> HIDE DEF A, B, h
  <1>6. /\ t \in A => Cardinality(A \ {t}) = Cardinality(A) - 1
        /\ t \in B => Cardinality(B \ {t}) = Cardinality(B) - 1
    BY Zenon, <1>1, <1>2, FS_RemoveElement
  <1>7. /\ t \notin A => A \ {t} = A
        /\ t \notin B => B \ {t} = B
    BY Zenon
  <1>8. t \in A => Cardinality(A) > 0
    <2>1. A # {} => Cardinality(A) # 0
      BY Zenon, <1>1, FS_EmptySet
    <2> QED  BY <1>1, <2>1
  <1>9. Num(h, L) = Num(f, L) + In(l, L) - In(f[t], L)
    <2>1. CASE t \in A /\ t \in B
      BY <1>1, <1>2, <1>3, <1>4, <1>5, <1>6, <2>1 DEF In
    <2>2. CASE t \in A /\ t \notin B
      <3>1. Cardinality(A \ {t}) = Cardinality(B)
        BY Zenon, <1>5, <1>7, <2>2
      <3> QED  BY <1>1, <1>2, <1>3, <1>4, <1>6, <2>2, <3>1 DEF In
    <2>3. CASE t \notin A /\ t \in B
      <3>1. Cardinality(B \ {t}) = Cardinality(A)
        BY Zenon, <1>5, <1>7, <2>3
      <3> QED  BY <1>1, <1>2, <1>3, <1>4, <1>6, <2>3, <3>1 DEF In
    <2>4. CASE t \notin A /\ t \notin B
      <3>1. Cardinality(A) = Cardinality(B)
        BY Zenon, <1>5, <1>7, <2>4
      <3> QED  BY <1>1, <1>2, <1>3, <1>4, <2>4, <3>1 DEF In
    <2> QED  BY Zenon, <2>1, <2>2, <2>3, <2>4
  <1> QED  BY Zenon, <1>1, <1>3, <1>8, <1>9 DEF Moved, h

\* There are no more writers and waiters than threads.
LEMMA Room ==
  ASSUME NEW f
  PROVE  Num(f, WL) + Num(f, QL) <= N
  <1> DEFINE A == At(f, WL)
             B == At(f, QL)
  <1>1. A \cap B = {} /\ A \cup B \subseteq Threads
    BY Zenon DEF At, WL, QL
  <1>2. /\ IsFiniteSet(A) /\ IsFiniteSet(B)
        /\ Num(f, WL) = Cardinality(A) /\ Num(f, QL) = Cardinality(B)
        /\ Cardinality(A) \in Nat /\ Cardinality(B) \in Nat
    BY Zenon, NumType DEF Num
  <1> HIDE DEF A, B
  <1>3. Cardinality(A \cup B) = Cardinality(A) + Cardinality(B) - Cardinality(A \cap B)
    BY Zenon, <1>2, FS_Union
  <1>4. Cardinality(A \cap B) = 0
    BY Zenon, <1>1, FS_EmptySet
  <1>5. Cardinality(A \cup B) <= N
    BY Zenon, <1>1, SharedMutexAssumption, FS_Subset DEF N
  <1> QED  BY <1>2, <1>3, <1>4, <1>5

\* What becomes of the four numbers when t goes from a to l.
Goes(f, h, a, l) ==
  /\ Moved(f, h, a, l, RL) /\ Moved(f, h, a, l, WL)
  /\ Moved(f, h, a, l, QL) /\ Moved(f, h, a, l, GL)

\* What the word says of the threads, and what each change of the word allows to
\* be said of their numbers.
LEMMA Numbers ==
  ASSUME IInv
  PROVE  \E s \in {0, 1} :
           /\ Arith(m_value, Num(pc, RL), Num(pc, WL), Num(pc, QL), Num(pc, GL), s)
           /\ Tells(m_value, Num(pc, RL), Num(pc, WL), Num(pc, QL), s)
  <1>1. PICK s \in {0, 1} :
          Arith(m_value, Num(pc, RL), Num(pc, WL), Num(pc, QL), Num(pc, GL), s)
    BY Zenon DEF IInv, Counts
  <1>2. Num(pc, WL) + Num(pc, QL) <= N
    BY Zenon, Room
  <1>3. /\ Num(pc, RL) \in Nat /\ Num(pc, WL) \in Nat
        /\ Num(pc, QL) \in Nat /\ Num(pc, GL) \in Nat
    BY Zenon, NumType
  <1> QED  BY Zenon, <1>1, <1>2, <1>3, Look

\* A step keeps the word and the threads in agreement.
LEMMA CountsStep ==
  ASSUME IInv, NEW t \in Threads, Begin(t) \/ Step(t)
  PROVE  \E s \in {0, 1} : Counts(m_value', pc', s)
  <1> DEFINE r == Num(pc, RL)
             w == Num(pc, WL)
             q == Num(pc, QL)
             g == Num(pc, GL)
  <1>1. PICK s \in {0, 1} : Arith(m_value, r, w, q, g, s) /\ Tells(m_value, r, w, q, s)
    BY Zenon, Numbers
  <1>2. r \in Nat /\ w \in Nat /\ q \in Nat /\ g \in Nat /\ w + q <= N
    BY Zenon, NumType, Room
  <1>3. TypeOK
    BY Zenon DEF IInv
  <1>4. ASSUME NEW l, Goto(t, l)
        PROVE  Goes(pc, pc', pc[t], l)
    BY Zenon, <1>3, <1>4, Move DEF TypeOK, Goto, Goes
  <1>5. /\ pc[t] \in RL => r > 0
        /\ pc[t] \in WL => w > 0
        /\ pc[t] \in QL => q > 0
        /\ pc[t] \in GL => g > 0
    BY Zenon, <1>3, Move DEF TypeOK
  <1> HIDE DEF r, w, q, g
  <1>k. m_value \in Nat /\ Keeps(m_value, r, w, q, g, s)
    BY <1>1, <1>2, Changes DEF Tells
  <1>6. ASSUME NEW a \in Nat, NEW b \in Nat, NEW c \in Nat, NEW d \in Nat,
               NEW z \in {0, 1}, Arith(m_value', a, b, c, d, z),
               NEW l, Goto(t, l),
               a = r + In(l, RL) - In(pc[t], RL), b = w + In(l, WL) - In(pc[t], WL),
               c = q + In(l, QL) - In(pc[t], QL), d = g + In(l, GL) - In(pc[t], GL)
        PROVE  \E x \in {0, 1} : Counts(m_value', pc', x)
    <2>1. a = Num(pc', RL) /\ b = Num(pc', WL) /\ c = Num(pc', QL) /\ d = Num(pc', GL)
      BY Zenon, <1>4, <1>6 DEF Goes, Moved, r, w, q, g
    <2> QED  BY Zenon, <1>6, <2>1 DEF Counts
  <1>7. CASE LockShared(t)
    <2>1. Arith(m_value', r + 1, w, q, g, s)
      BY Zenon, <1>2, <1>5, <1>k, <1>7 DEF LockShared, Keeps, RL, WL, QL, GL
    <2> QED  BY <1>2, <1>5, <1>6, <1>7, <2>1 DEF LockShared, In, RL, WL, QL, GL
  <1>8. CASE LockSharedSlow(t)
    BY <1>1, <1>2, <1>5, <1>6, <1>8 DEF LockSharedSlow, In, RL, WL, QL, GL
  <1>9. CASE StealShared(t)
    <2>1. Arith(m_value', r + 1, w, q, g, 0)
      BY Zenon, <1>2, <1>5, <1>k, <1>9 DEF StealShared, Keeps, RL, WL, QL, GL
    <2> QED  BY <1>2, <1>5, <1>6, <1>9, <2>1 DEF StealShared, In, RL, WL, QL, GL
  <1>10. CASE AddShared(t)
    <2>1. CASE m_value = 0
      <3>1. Arith(m_value', r, w + 1, q, g, s) /\ Goto(t, "downgrade")
        BY Zenon, <1>2, <1>5, <1>k, <1>10, <2>1 DEF AddShared, Keeps, RL, WL, QL, GL
      <3> QED  BY <1>2, <1>5, <1>6, <1>10, <3>1 DEF AddShared, In, RL, WL, QL, GL
    <2>2. CASE ~(m_value = 0)
      <3>1. Arith(m_value', r, w, q + 1, g, s) /\ Goto(t, "wait")
        BY Zenon, <1>2, <1>5, <1>k, <1>10, <2>2 DEF AddShared, Keeps, RL, WL, QL, GL
      <3> QED  BY <1>2, <1>5, <1>6, <1>10, <3>1 DEF AddShared, In, RL, WL, QL, GL
    <2> QED  BY Zenon, <2>1, <2>2
  <1>11. CASE Downgrade(t)
    <2>1. Arith(m_value', r + 1, w - 1, q, g, s)
      BY Zenon, <1>2, <1>5, <1>k, <1>11 DEF Downgrade, Keeps, RL, WL, QL, GL
    <2>2. /\ In(pc[t], RL) = 0 /\ In(pc[t], WL) = 1 /\ In(pc[t], QL) = 0
          /\ In(pc[t], GL) = 0 /\ w > 0
      BY Zenon, <1>5, <1>11 DEF Downgrade, In, RL, WL, QL, GL
    <2>3. Goes(pc, pc', pc[t], "reader")
      BY Zenon, <1>4, <1>11 DEF Downgrade
    <2>4. /\ Num(pc', RL) = r + 1 /\ Num(pc', WL) = w - 1
          /\ Num(pc', QL) = q /\ Num(pc', GL) = g
      BY <1>2, <2>2, <2>3 DEF Goes, Moved, In, RL, WL, QL, GL, r, w, q, g
    <2> QED  BY Zenon, <2>1, <2>4 DEF Counts
  <1>12. CASE UnlockShared(t)
    <2>1. CASE m_value >= c_one /\ (m_value - 1) % c_one = 0
      <3>1. Arith(m_value', r - 1, w, q, g + 1, s) /\ Goto(t, "signal")
        BY Zenon, <1>2, <1>5, <1>k, <1>12, <2>1 DEF UnlockShared, Keeps, RL, WL, QL, GL
      <3> QED  BY <1>2, <1>5, <1>6, <1>12, <3>1 DEF UnlockShared, In, RL, WL, QL, GL
    <2>2. CASE ~(m_value >= c_one /\ (m_value - 1) % c_one = 0)
      <3>1. Arith(m_value', r - 1, w, q, g, s) /\ Goto(t, "idle")
        BY Zenon, <1>2, <1>5, <1>k, <1>12, <2>2 DEF UnlockShared, Keeps, RL, WL, QL, GL
      <3> QED  BY <1>2, <1>5, <1>6, <1>12, <3>1 DEF UnlockShared, In, RL, WL, QL, GL
    <2> QED  BY Zenon, <2>1, <2>2
  <1>13. CASE Lock(t)
    <2>1. m_value' = m_value + c_one
      BY <1>13, Fields DEF Lock
    <2>2. Arith(m_value', r, w + 1, q, g, s)
      BY Zenon, <1>k, <1>13, <2>1 DEF Lock, Keeps
    <2> QED  BY <1>2, <1>5, <1>6, <1>13, <2>2 DEF Lock, In, RL, WL, QL, GL
  <1>14. CASE LockSlow(t)
    BY <1>1, <1>2, <1>5, <1>6, <1>14 DEF LockSlow, In, RL, WL, QL, GL
  <1>15. CASE Steal(t)
    <2>1. Arith(m_value', r, w + 1, q, g, 0)
      BY Zenon, <1>2, <1>5, <1>k, <1>15 DEF Steal, Keeps, RL, WL, QL, GL
    <2> QED  BY <1>2, <1>5, <1>6, <1>15, <2>1 DEF Steal, In, RL, WL, QL, GL
  <1>16. CASE Add(t)
    <2>1. CASE m_value = 0
      <3>1. Arith(m_value', r, w + 1, q, g, s) /\ Goto(t, "writer")
        BY Zenon, <1>2, <1>5, <1>k, <1>16, <2>1 DEF Add, Keeps, RL, WL, QL, GL
      <3> QED  BY <1>2, <1>5, <1>6, <1>16, <3>1 DEF Add, In, RL, WL, QL, GL
    <2>2. CASE ~(m_value = 0)
      <3>1. Arith(m_value', r, w, q + 1, g, s) /\ Goto(t, "wait")
        BY Zenon, <1>2, <1>5, <1>k, <1>16, <2>2 DEF Add, Keeps, RL, WL, QL, GL
      <3> QED  BY <1>2, <1>5, <1>6, <1>16, <3>1 DEF Add, In, RL, WL, QL, GL
    <2> QED  BY Zenon, <2>1, <2>2
  <1>17. CASE Unlock(t)
    <2>0. /\ In(pc[t], RL) = 0 /\ In(pc[t], WL) = 1 /\ In(pc[t], QL) = 0
          /\ In(pc[t], GL) = 0 /\ w > 0
      BY Zenon, <1>5, <1>17 DEF Unlock, In, RL, WL, QL, GL
    <2>1. CASE m_value # c_one
      <3>1. Arith(m_value', r, w - 1, q, g + 1, s) /\ Goto(t, "signal")
        BY Zenon, <1>k, <1>17, <2>0, <2>1 DEF Unlock, Keeps
      <3> QED  BY <1>2, <1>6, <2>0, <3>1 DEF In, RL, WL, QL, GL
    <2>2. CASE ~(m_value # c_one)
      <3>1. Arith(m_value', r, w - 1, q, g, s) /\ Goto(t, "idle")
        BY Zenon, <1>k, <1>17, <2>0, <2>2 DEF Unlock, Keeps
      <3> QED  BY <1>2, <1>6, <2>0, <3>1 DEF In, RL, WL, QL, GL
    <2> QED  BY Zenon, <2>1, <2>2
  <1>18. CASE Upgrade(t)
    <2>1. CASE m_value % c_one = 1
      <3>1. Arith(m_value', r - 1, w + 1, q, g, s) /\ Goto(t, "writer")
        BY Zenon, <1>2, <1>5, <1>k, <1>18, <2>1 DEF Upgrade, Keeps, RL, WL, QL, GL
      <3> QED  BY <1>2, <1>5, <1>6, <1>18, <3>1 DEF Upgrade, In, RL, WL, QL, GL
    <2>2. CASE ~(m_value % c_one = 1)
      <3>1. Arith(m_value', r - 1, w, q + 1, g, s) /\ Goto(t, "wait")
        BY Zenon, <1>2, <1>5, <1>k, <1>18, <2>2 DEF Upgrade, Keeps, RL, WL, QL, GL
      <3> QED  BY <1>2, <1>5, <1>6, <1>18, <3>1 DEF Upgrade, In, RL, WL, QL, GL
    <2> QED  BY Zenon, <2>1, <2>2
  <1>19. CASE WaitTake(t)
    <2>1. Arith(m_value', r, w + 1, q - 1, g, 0)
      BY Zenon, <1>2, <1>5, <1>k, <1>19 DEF WaitTake, Keeps, QL
    <2>2. Granted(want[t]) \in WL
      BY Zenon DEF Granted, WL
    <2>3. Goto(t, Granted(want[t])) /\ pc[t] = "wait"
      BY Zenon, <1>19 DEF WaitTake
    <2>4. /\ In(Granted(want[t]), RL) = 0 /\ In(Granted(want[t]), WL) = 1
          /\ In(Granted(want[t]), QL) = 0 /\ In(Granted(want[t]), GL) = 0
      BY Zenon, <2>2 DEF In, RL, WL, QL, GL
    <2>5. /\ In(pc[t], RL) = 0 /\ In(pc[t], WL) = 0 /\ In(pc[t], QL) = 1
          /\ In(pc[t], GL) = 0 /\ q > 0
      BY Zenon, <1>5, <2>3 DEF In, RL, WL, QL, GL
    <2>6. Goes(pc, pc', pc[t], Granted(want[t]))
      BY Zenon, <1>4, <2>3
    <2>7. /\ Num(pc', RL) = r /\ Num(pc', WL) = w + 1
          /\ Num(pc', QL) = q - 1 /\ Num(pc', GL) = g
      BY <1>2, <2>4, <2>5, <2>6 DEF Goes, Moved, r, w, q, g
    <2> QED  BY Zenon, <2>1, <2>7 DEF Counts
  <1>20. CASE WaitSleep(t)
    BY <1>1, <1>2, <1>5, <1>6, <1>20 DEF WaitSleep, In, RL, WL, QL, GL
  <1>21. CASE Signal(t)
    <2>1. Arith(m_value', r, w, q, g - 1, 1)
      BY Zenon, <1>2, <1>5, <1>k, <1>21 DEF Signal, Keeps, RL, WL, QL, GL
    <2> QED  BY <1>2, <1>5, <1>6, <1>21, <2>1 DEF Signal, In, RL, WL, QL, GL
  <1>22. CASE Notify(t)
    <2>1. CASE Goto(t, "idle")
      BY <1>1, <1>2, <1>6, <1>22, <2>1 DEF Notify, In, RL, WL, QL, GL
    <2>2. CASE \E u \in Threads :
                 /\ pc[u] = "asleep"
                 /\ pc' = [pc EXCEPT ![t] = "idle", ![u] = "wait"]
      <3>1. PICK u \in Threads : /\ pc[u] = "asleep"
                                 /\ pc' = [pc EXCEPT ![t] = "idle", ![u] = "wait"]
        BY Zenon, <2>2
      <3> DEFINE h == [pc EXCEPT ![t] = "idle"]
      <3>2. /\ pc[t] = "notify" /\ h[u] = "asleep"
            /\ pc' = [h EXCEPT ![u] = "wait"] /\ m_value' = m_value
        BY Zenon, <1>3, <1>22, <3>1 DEF Notify, TypeOK
      <3>3. PICK S : h \in [Threads -> S] /\ pc \in [Threads -> S]
        BY Zenon, <1>3 DEF TypeOK
      <3>4. ASSUME NEW L
            PROVE  Moved(pc, h, "notify", "idle", L) /\ Moved(h, pc', "asleep", "wait", L)
        <4>1. Moved(pc, h, pc[t], "idle", L)
          BY Zenon, <3>3, Move
        <4> HIDE DEF h
        <4>2. Moved(h, [h EXCEPT ![u] = "wait"], h[u], "wait", L)
          BY Zenon, <3>3, Move
        <4> QED  BY Zenon, <3>2, <4>1, <4>2
      <3> HIDE DEF h
      <3>5. r = Num(pc', RL) /\ w = Num(pc', WL) /\ q = Num(pc', QL) /\ g = Num(pc', GL)
        <4>1. /\ Num(h, RL) \in Nat /\ Num(h, WL) \in Nat
              /\ Num(h, QL) \in Nat /\ Num(h, GL) \in Nat
          BY Zenon, NumType
        <4>2. r = Num(h, RL) /\ w = Num(h, WL) /\ q = Num(h, QL) /\ g = Num(h, GL)
          BY <1>2, <3>4, <4>1 DEF Moved, In, RL, WL, QL, GL, r, w, q, g
        <4>3. /\ Num(pc', RL) = Num(h, RL) /\ Num(pc', WL) = Num(h, WL)
              /\ Num(pc', QL) = Num(h, QL) /\ Num(pc', GL) = Num(h, GL)
          BY <3>4, <4>1 DEF Moved, In, RL, WL, QL, GL
        <4> QED  BY Zenon, <4>2, <4>3
      <3> QED  BY Zenon, <1>1, <3>2, <3>5 DEF Counts
    <2> QED  BY Zenon, <1>22, <2>1, <2>2 DEF Notify
  <1>23. CASE PassCall(t)
    BY <1>1, <1>2, <1>5, <1>6, <1>23 DEF PassCall, In, RL, WL, QL, GL
  <1>24. CASE PassReturn(t)
    BY <1>1, <1>2, <1>5, <1>6, <1>24 DEF PassReturn, In, RL, WL, QL, GL
  <1>25. CASE PassLook(t)
    BY Zenon, <1>1, <1>25 DEF PassLook, Counts, r, w, q, g
  <1>26. CASE PassAdd(t)
    <2>1. CASE m_value = 0
      <3>1. Arith(m_value', r, w + 1, q, g, s) /\ Goto(t, "pass")
        BY Zenon, <1>2, <1>5, <1>k, <1>26, <2>1 DEF PassAdd, Keeps, RL, WL, QL, GL
      <3> QED  BY <1>2, <1>5, <1>6, <1>26, <3>1 DEF PassAdd, In, RL, WL, QL, GL
    <2>2. CASE ~(m_value = 0)
      <3>1. Arith(m_value', r, w, q + 1, g, s) /\ Goto(t, "wait")
        BY Zenon, <1>2, <1>5, <1>k, <1>26, <2>2 DEF PassAdd, Keeps, RL, WL, QL, GL
      <3> QED  BY <1>2, <1>5, <1>6, <1>26, <3>1 DEF PassAdd, In, RL, WL, QL, GL
    <2> QED  BY Zenon, <2>1, <2>2
  <1> QED  BY Zenon, <1>7, <1>8, <1>9, <1>10, <1>11, <1>12, <1>13, <1>14, <1>15, <1>16,
              <1>17, <1>18, <1>19, <1>20, <1>21, <1>22, <1>23, <1>24, <1>25, <1>26
           DEF Begin, Step

----------------------------------------------------------------------------
\* What the word and the numbers mean for the threads themselves.
Seen(v, f) ==
  /\ v \in Nat /\ v < 2 * c_sig /\ Num(f, RL) < c_one
  /\ v = Num(f, RL) + C(Num(f, WL) + Num(f, QL)) + Sg(IF v >= c_sig THEN 1 ELSE 0)
  /\ v % c_one = Num(f, RL)
  /\ v < c_sig => v \div c_one = Num(f, WL) + Num(f, QL)
  /\ Num(f, WL) <= 1
  /\ At(f, WL) # {} => At(f, RL) = {}
  /\ v >= c_sig => At(f, RL) \cup At(f, WL) = {} /\ At(f, QL) # {} /\ At(f, GL) = {}
  /\ At(f, QL) # {} /\ At(f, RL) \cup At(f, WL) = {} /\ v < c_sig => Num(f, GL) = 1
  /\ At(f, QL) = {} \/ At(f, RL) \cup At(f, WL) # {} => At(f, GL) = {}

\* A word that agrees with the threads means that for them.
LEMMA Sees ==
  ASSUME NEW v, NEW f, \E s \in {0, 1} : Counts(v, f, s)
  PROVE  Seen(v, f)
  <1> DEFINE r == Num(f, RL)
             w == Num(f, WL)
             q == Num(f, QL)
             g == Num(f, GL)
  <1>1. PICK s \in {0, 1} : Arith(v, r, w, q, g, s)
    BY Zenon DEF Counts
  <1>2. r \in Nat /\ w \in Nat /\ q \in Nat /\ g \in Nat /\ w + q <= N
    BY Zenon, NumType, Room
  <1>3. Tells(v, r, w, q, s)
    BY Zenon, <1>1, <1>2, Look
  <1>4. /\ At(f, RL) = {} <=> r = 0
        /\ At(f, WL) = {} <=> w = 0
        /\ At(f, QL) = {} <=> q = 0
        /\ At(f, GL) = {} <=> g = 0
    BY Zenon, NumType, FS_EmptySet DEF Num
  <1>5. c_sig \in Nat
    BY Zenon, Fields
  <1> HIDE DEF r, w, q, g
  <1>6. v \in Nat /\ v < 2 * c_sig /\ (v >= c_sig <=> s = 1)
    BY Zenon, <1>3 DEF Tells
  <1>7. r < c_one /\ w <= 1 /\ (w = 1 => r = 0) /\ v = r + C(w + q) + Sg(s)
    BY Zenon, <1>1 DEF Arith
  <1>8. g + s = IF q > 0 /\ r = 0 /\ w = 0 THEN 1 ELSE 0
    BY Zenon, <1>1 DEF Arith
  <1>9. v = r + C(w + q) + Sg(IF v >= c_sig THEN 1 ELSE 0)
    <2>1. s = IF v >= c_sig THEN 1 ELSE 0
      BY Zenon, <1>6
    <2> QED  BY Zenon, <1>7, <2>1
  <1>10. v % c_one = r /\ (v < c_sig => v \div c_one = w + q)
    <2>1. v < c_sig => s = 0
      BY <1>5, <1>6
    <2> QED  BY Zenon, <1>3, <2>1 DEF Tells
  <1>11. /\ v >= c_sig => r = 0 /\ w = 0 /\ q # 0 /\ g = 0
         /\ q # 0 /\ r = 0 /\ w = 0 /\ v < c_sig => g = 1
         /\ q = 0 \/ ~(r = 0 /\ w = 0) => g = 0
         /\ w # 0 => r = 0
    BY <1>2, <1>5, <1>6, <1>7, <1>8
  <1>12. At(f, RL) \cup At(f, WL) = {} <=> r = 0 /\ w = 0
    BY Zenon, <1>4
  <1>13. /\ At(f, WL) # {} => At(f, RL) = {}
         /\ v >= c_sig => At(f, RL) \cup At(f, WL) = {} /\ At(f, QL) # {} /\ At(f, GL) = {}
         /\ At(f, QL) # {} /\ At(f, RL) \cup At(f, WL) = {} /\ v < c_sig => g = 1
         /\ At(f, QL) = {} \/ At(f, RL) \cup At(f, WL) # {} => At(f, GL) = {}
    BY Zenon, <1>4, <1>11, <1>12
  <1> QED  BY Zenon, <1>6, <1>7, <1>9, <1>10, <1>13 DEF Seen, r, w, q, g

\* The types are kept.
LEMMA TypeStep ==
  ASSUME IInv, NEW t \in Threads, Begin(t) \/ Step(t)
  PROVE  TypeOK'
  <1>1. TypeOK
    BY Zenon DEF IInv
  <1>2. m_value' \in Nat
    BY Zenon, CountsStep, Sees DEF Seen
  <1>3. m_value \div c_one \in Nat
    <2>1. c_one \in Nat /\ c_one > 1 /\ m_value \in Nat
      BY Zenon, <1>1, Fields DEF TypeOK
    <2> QED  BY <2>1
  <1>4. ASSUME NEW u \in Threads PROVE Granted(want[u]) \in {"downgrade", "pass", "writer"}
    BY Zenon DEF Granted
  <1>5. CASE Begin(t)
    BY <1>1, <1>2, <1>5 DEF TypeOK, Begin, LockShared, LockSharedSlow, Lock,
       LockSlow, PassCall, Goto, Inside
  <1>6. CASE StealShared(t) \/ AddShared(t) \/ Downgrade(t) \/ Steal(t) \/ Add(t)
    BY Zenon, <1>1, <1>2, <1>6 DEF TypeOK, StealShared, AddShared, Downgrade, Steal, Add,
       Goto, Wants
  <1>7. CASE UnlockShared(t) \/ Unlock(t) \/ Upgrade(t)
    BY <1>1, <1>2, <1>7 DEF TypeOK, UnlockShared, Unlock, Upgrade, Goto, Leave, Wants
  <1>8. CASE WaitTake(t)
    BY Zenon, <1>1, <1>2, <1>4, <1>8 DEF TypeOK, WaitTake, Goto, Wants
  <1>9. CASE WaitSleep(t) \/ Signal(t) \/ Notify(t)
    BY Zenon, <1>1, <1>2, <1>9 DEF TypeOK, WaitSleep, Signal, Notify, Goto
  <1>10. CASE PassReturn(t) \/ PassLook(t) \/ PassAdd(t)
    BY <1>1, <1>2, <1>3, <1>10 DEF TypeOK, PassReturn, PassLook, PassAdd, Goto, Wants
  <1> QED  BY Zenon, <1>5, <1>6, <1>7, <1>8, <1>9, <1>10 DEF Step

\* A signal stays heard.
LEMMA HeardStep ==
  ASSUME IInv, NEW t \in Threads, Begin(t) \/ Step(t)
  PROVE  Heard(m_value', pc')
  <1> SUFFICES ASSUME m_value' >= c_sig
               PROVE  \E u \in Threads : pc'[u] \in {"wait", "notify"}
    BY Zenon DEF Heard
  <1>1. TypeOK /\ TypeOK' /\ Seen(m_value, pc) /\ Seen(m_value', pc') /\ Heard(m_value, pc)
    BY Zenon, TypeStep, CountsStep, Sees DEF IInv
  <1>2. pc'[t] \notin RL \cup WL
    BY Zenon, <1>1 DEF Seen, At
  <1>3. c_sig \in Nat /\ c_one \in Nat /\ c_one > 1
    BY Zenon, Fields
  <1>4. m_value >= c_sig => pc[t] \notin RL \cup WL
    BY Zenon, <1>1 DEF Seen, At
  <1>5. CASE pc'[t] = "wait" \/ pc'[t] = "notify"
    BY Zenon, <1>5
  <1>6. CASE UnlockShared(t) \/ Unlock(t)
    <2>1. m_value >= c_sig
      BY <1>1, <1>3, <1>6 DEF UnlockShared, Unlock, TypeOK
    <2> QED  BY Zenon, <1>4, <1>6, <2>1 DEF UnlockShared, Unlock, RL, WL
  <1>7. CASE WaitSleep(t)
    BY <1>1, <1>3, <1>7 DEF WaitSleep, TypeOK
  <1>8. CASE \/ LockSharedSlow(t) \/ LockSlow(t) \/ PassCall(t)
             \/ PassReturn(t) \/ PassLook(t)
    <2>1. m_value' = m_value /\ pc[t] \notin {"wait", "notify"}
      BY Zenon, <1>8 DEF LockSharedSlow, LockSlow, PassCall, PassReturn, PassLook
    <2>2. PICK u \in Threads : pc[u] \in {"wait", "notify"}
      BY Zenon, <1>1, <2>1 DEF Heard
    <2>3. pc'[u] = pc[u]
      BY Zenon, <1>1, <1>8, <2>1, <2>2 DEF LockSharedSlow, LockSlow, PassCall, PassReturn,
         PassLook, Goto, TypeOK
    <2> QED  BY Zenon, <2>2, <2>3
  <1>9. CASE Notify(t)
    <2>1. m_value' = m_value /\ pc[t] = "notify"
      BY Zenon, <1>9 DEF Notify
    <2>2. PICK u \in Threads : pc[u] \in {"wait", "asleep"}
      BY Zenon, <1>1, <2>1 DEF Seen, At, QL
    <2>3. CASE \E x \in Threads :
                 /\ pc[x] = "asleep"
                 /\ pc' = [pc EXCEPT ![t] = "idle", ![x] = "wait"]
      BY Zenon, <1>1, <2>3 DEF TypeOK
    <2>4. CASE /\ \A x \in Threads : pc[x] # "asleep"
               /\ Goto(t, "idle")
      BY Zenon, <1>1, <2>1, <2>2, <2>4 DEF TypeOK, Goto
    <2> QED  BY Zenon, <1>9, <2>3, <2>4 DEF Notify
  <1>10. CASE \/ LockShared(t) \/ StealShared(t) \/ Downgrade(t) \/ Lock(t) \/ Steal(t)
    BY Zenon, <1>1, <1>2, <1>10 DEF LockShared, StealShared, Downgrade, Lock, Steal, Goto,
       TypeOK, RL, WL
  <1>11. CASE \/ AddShared(t) \/ Add(t) \/ Upgrade(t) \/ PassAdd(t) \/ Signal(t)
    BY <1>1, <1>2, <1>11 DEF AddShared, Add, Upgrade, PassAdd, Signal, Goto,
       TypeOK, RL, WL
  <1>12. CASE WaitTake(t)
    BY Zenon, <1>1, <1>2, <1>12 DEF WaitTake, Granted, Goto, TypeOK, RL, WL
  <1> QED  BY Zenon, <1>6, <1>7, <1>8, <1>9, <1>10, <1>11, <1>12 DEF Begin, Step

\* lock_unlock keeps track of those it waits for.
LEMMA PassStep ==
  ASSUME IInv, NEW t \in Threads, Begin(t) \/ Step(t)
  PROVE  PassInv'
  <1>1. TypeOK /\ TypeOK' /\ Seen(m_value, pc) /\ PassInv
    BY Zenon, TypeStep, Sees DEF IInv
  <1>2. Inside \subseteq At(pc, RL) \cup At(pc, WL)
    BY Zenon DEF Inside, At, RL, WL
  <1>3. \A u \in Threads : ahead'[u] \subseteq Inside'
    <2>1. CASE Begin(t)
      BY <1>1, <2>1 DEF TypeOK, PassInv, Inside, Begin, LockShared, LockSharedSlow,
         Lock, LockSlow, PassCall, Goto
    <2>2. CASE StealShared(t) \/ AddShared(t) \/ Downgrade(t) \/ Steal(t) \/ Add(t)
      BY Zenon, <1>1, <2>2 DEF TypeOK, PassInv, Inside, StealShared, AddShared, Downgrade,
         Steal, Add, Goto
    <2>3. CASE UnlockShared(t) \/ Unlock(t) \/ Upgrade(t)
      BY <1>1, <2>3 DEF TypeOK, PassInv, Inside, UnlockShared, Unlock, Upgrade, Goto,
         Leave
    <2>4. CASE WaitTake(t) \/ WaitSleep(t) \/ Signal(t) \/ Notify(t)
      BY Zenon, <1>1, <2>4 DEF TypeOK, PassInv, Inside, WaitTake, WaitSleep, Signal, Notify,
         Goto
    <2>5. CASE PassReturn(t) \/ PassLook(t) \/ PassAdd(t)
      BY Zenon, <1>1, <2>5 DEF TypeOK, PassInv, Inside, PassReturn, PassLook, PassAdd, Goto
    <2> QED  BY Zenon, <2>1, <2>2, <2>3, <2>4, <2>5 DEF Step
  <1>4. Waiters = At(pc, QL) /\ Waiters' = At(pc', QL)
    BY Zenon DEF Waiters, At, QL
  <1>5. Cardinality(Waiters) \in Nat /\ Cardinality(Waiters') \in Nat /\ IsFiniteSet(Waiters')
    BY Zenon, <1>4, NumType DEF Num
  <1>6. ~WaitTake(t) => Cardinality(Waiters) <= Cardinality(Waiters')
    <2> SUFFICES ASSUME ~WaitTake(t) PROVE Waiters \subseteq Waiters'
      BY Zenon, <1>5, FS_Subset
    <2>1. CASE Begin(t)
      BY Zenon, <1>1, <2>1 DEF TypeOK, Waiters, Begin, LockShared, LockSharedSlow,
         Lock, LockSlow, PassCall, Goto
    <2>2. CASE StealShared(t) \/ AddShared(t) \/ Downgrade(t) \/ Steal(t) \/ Add(t)
      BY Zenon, <1>1, <2>2 DEF TypeOK, Waiters, StealShared, AddShared, Downgrade,
         Steal, Add, Goto
    <2>3. CASE UnlockShared(t) \/ Unlock(t) \/ Upgrade(t)
      BY Zenon, <1>1, <2>3 DEF TypeOK, Waiters, UnlockShared, Unlock, Upgrade, Goto
    <2>4. CASE WaitSleep(t) \/ Signal(t) \/ Notify(t)
      BY Zenon, <1>1, <2>4 DEF TypeOK, Waiters, WaitSleep, Signal, Notify, Goto
    <2>5. CASE PassReturn(t) \/ PassLook(t) \/ PassAdd(t)
      BY Zenon, <1>1, <2>5 DEF TypeOK, Waiters, PassReturn, PassLook, PassAdd, Goto
    <2> QED  BY Zenon, <2>1, <2>2, <2>3, <2>4, <2>5 DEF Step
  <1>7. ASSUME NEW u \in Threads, pc'[u] = "look", ahead'[u] # {}
        PROVE  max'[u] <= 1 + Cardinality(Waiters')
    <2>1. CASE PassCall(t) /\ u = t
      BY <1>1, <1>5, <2>1 DEF PassCall, TypeOK
    <2>2. CASE PassLook(t) /\ u = t
      <3>1. ahead[t] # {} /\ max'[t] = m_value \div c_one /\ pc' = pc
        BY Zenon, <1>1, <1>7, <2>2 DEF PassLook, TypeOK
      <3>2. Inside # {}
        BY Zenon, <1>1, <3>1 DEF PassInv
      <3>3. m_value < c_sig
        <4>1. ~(m_value >= c_sig)
          BY Zenon, <1>1, <1>2, <3>2 DEF Seen
        <4> QED  BY <1>1, <4>1, Fields DEF TypeOK
      <3>4. m_value \div c_one = Num(pc, WL) + Num(pc, QL) /\ Num(pc, WL) <= 1
        BY Zenon, <1>1, <3>3 DEF Seen
      <3>5. Num(pc, QL) = Cardinality(Waiters') /\ Num(pc, WL) \in Nat
        BY Zenon, <1>4, <3>1, NumType DEF Num
      <3> QED  BY <1>5, <2>2, <3>1, <3>4, <3>5
    <2>3. CASE ~(PassCall(t) /\ u = t) /\ ~(PassLook(t) /\ u = t)
      <3>1. pc[u] = "look" /\ max'[u] = max[u] /\ ahead[u] # {}
        <4>1. CASE Begin(t)
          BY <1>1, <1>7, <2>3, <4>1 DEF TypeOK, Begin, LockShared, LockSharedSlow,
             Lock, LockSlow, PassCall, Goto
        <4>2. CASE StealShared(t) \/ AddShared(t) \/ Downgrade(t) \/ Steal(t) \/ Add(t)
          BY Zenon, <1>1, <1>7, <4>2 DEF TypeOK, StealShared, AddShared, Downgrade, Steal,
             Add, Goto
        <4>3. CASE UnlockShared(t) \/ Unlock(t) \/ Upgrade(t)
          BY <1>1, <1>7, <4>3 DEF TypeOK, UnlockShared, Unlock, Upgrade, Goto, Leave
        <4>4. CASE WaitTake(t) \/ WaitSleep(t) \/ Signal(t) \/ Notify(t)
          BY Zenon, <1>1, <1>7, <4>4 DEF TypeOK, WaitTake, Granted, WaitSleep, Signal,
             Notify, Goto
        <4>5. CASE PassReturn(t) \/ PassLook(t) \/ PassAdd(t)
          BY <1>1, <1>7, <2>3, <4>5 DEF TypeOK, PassReturn, PassLook, PassAdd, Goto
        <4> QED  BY Zenon, <4>1, <4>2, <4>3, <4>4, <4>5 DEF Step
      <3>2. ~WaitTake(t)
        <4>1. Inside # {}
          BY Zenon, <1>1, <3>1 DEF PassInv
        <4>2. ~(m_value >= c_sig)
          BY Zenon, <1>1, <1>2, <4>1 DEF Seen
        <4> QED  BY Zenon, <4>2 DEF WaitTake
      <3>3. max[u] <= 1 + Cardinality(Waiters) /\ max[u] \in Nat
        BY Zenon, <1>1, <3>1 DEF PassInv, TypeOK
      <3> QED  BY <1>5, <1>6, <3>1, <3>2, <3>3
    <2> QED  BY Zenon, <2>1, <2>2, <2>3
  <1> QED  BY Zenon, <1>3, <1>7 DEF PassInv

----------------------------------------------------------------------------
\* What the inductive invariant gives.
LEMMA Consequences ==
  ASSUME IInv
  PROVE  ValueAgrees /\ MutualExclusion /\ NoLostSignal
  <1>1. Seen(m_value, pc)
    BY Zenon, Sees DEF IInv
  <1>2. /\ Readers = At(pc, RL) /\ Writers = At(pc, WL)
        /\ Waiters = At(pc, QL) /\ Signalling = At(pc, GL)
    BY Zenon DEF Readers, Writers, Waiters, Signalling, At, RL, WL, QL, GL
  <1>3. /\ Cardinality(Readers) = Num(pc, RL) /\ Cardinality(Writers) = Num(pc, WL)
        /\ Cardinality(Waiters) = Num(pc, QL) /\ Cardinality(Signalling) = Num(pc, GL)
        /\ Num(pc, GL) \in Nat /\ IsFiniteSet(Writers)
    BY Zenon, <1>2, NumType DEF Num
  <1>4. c_sig \in Nat /\ m_value \in Nat
    BY Zenon, <1>1, Fields DEF Seen
  <1>5. Signals \in {0, 1} /\ (Signals = 1 <=> m_value >= c_sig)
    BY DEF Signals
  <1>6. ValueAgrees
    <2>1. Sg(IF m_value >= c_sig THEN 1 ELSE 0) = c_sig * Signals
      BY <1>4 DEF Sg, Signals
    <2>2. C(Num(pc, WL) + Num(pc, QL)) = c_one * (Num(pc, WL) + Num(pc, QL))
      BY Zenon DEF C
    <2> QED  BY Zenon, <1>1, <1>3, <2>1, <2>2 DEF Seen, ValueAgrees
  <1>7. MutualExclusion
    <2> SUFFICES ASSUME NEW t \in Writers PROVE Readers = {} /\ Writers = {t}
      BY Zenon DEF MutualExclusion
    <2>1. Readers = {}
      BY Zenon, <1>1, <1>2 DEF Seen
    <2>2. Cardinality(Writers) <= 1 /\ Cardinality(Writers) \in Nat
      BY Zenon, <1>1, <1>3, FS_CardinalityType DEF Seen
    <2>3. Cardinality(Writers \ {t}) = Cardinality(Writers) - 1
      BY Zenon, <1>3, FS_RemoveElement
    <2>4. IsFiniteSet(Writers \ {t}) /\ Cardinality(Writers \ {t}) \in Nat
      BY Zenon, <1>3, FS_RemoveElement, FS_CardinalityType
    <2>5. Cardinality(Writers \ {t}) = 0
      BY <2>2, <2>3, <2>4
    <2>6. Writers \ {t} = {}
      BY Zenon, <2>4, <2>5, FS_EmptySet
    <2> QED  BY Zenon, <2>1, <2>6
  <1>8. NoLostSignal
    <2>1. Waiters # {} /\ Readers \cup Writers = {} => Cardinality(Signalling) + Signals = 1
      <3>1. CASE m_value >= c_sig
        <4>1. Signalling = {}
          BY Zenon, <1>1, <1>2, <3>1 DEF Seen
        <4> QED  BY <1>5, <3>1, <4>1, FS_EmptySet
      <3>2. CASE m_value < c_sig
        BY <1>1, <1>2, <1>3, <1>4, <1>5, <3>2 DEF Seen
      <3> QED  BY <1>4, <3>1, <3>2
    <2>2. Waiters = {} \/ Readers \cup Writers # {} => Signalling = {} /\ Signals = 0
      BY Zenon, <1>1, <1>2, <1>5 DEF Seen
    <2>3. Signals = 1 => \E t \in Threads : pc[t] \in {"wait", "notify"}
      BY Zenon, <1>5 DEF IInv, Heard
    <2> QED  BY Zenon, <2>1, <2>2, <2>3 DEF NoLostSignal
  <1> QED  BY Zenon, <1>6, <1>7, <1>8

\* The invariant holds at first.
LEMMA Start == Init => IInv
  <1> SUFFICES ASSUME Init PROVE IInv
    BY Zenon
  <1>1. TypeOK
    BY Zenon DEF Init, TypeOK, Wants
  <1>2. \A L : "idle" \notin L => Num(pc, L) = 0
    <2> TAKE L
    <2> HAVE "idle" \notin L
    <2>1. At(pc, L) = {}
      BY Zenon DEF Init, At
    <2> QED  BY Zenon, <2>1, FS_EmptySet DEF Num
  <1>3. Num(pc, RL) = 0 /\ Num(pc, WL) = 0 /\ Num(pc, QL) = 0 /\ Num(pc, GL) = 0
    BY Zenon, <1>2 DEF RL, WL, QL, GL
  <1>4. Counts(m_value, pc, 0)
    BY <1>3, Fields DEF Init, Counts, Arith, Sg
  <1>5. Heard(m_value, pc)
    <2>1. c_sig > 0
      <3>1. C(0) + c_one <= c_sig
        BY Fields
      <3> QED  BY <3>1, Fields
    <2> QED  BY <2>1, Fields DEF Init, Heard
  <1>6. PassInv
    BY Zenon DEF Init, PassInv
  <1> QED  BY Zenon, <1>1, <1>4, <1>5, <1>6 DEF IInv

\* Every step keeps the invariant.
LEMMA Inductive == IInv /\ [Next]_vars => IInv'
  <1> SUFFICES ASSUME IInv, [Next]_vars PROVE IInv'
    BY Zenon
  <1>1. ASSUME NEW t \in Threads, Begin(t) \/ Step(t) PROVE IInv'
    BY Zenon, <1>1, TypeStep, CountsStep, HeardStep, PassStep DEF IInv
  <1>2. CASE UNCHANGED vars
    BY Zenon, <1>2 DEF vars, IInv, TypeOK, Counts, Heard, PassInv, Inside, Waiters, Wants
  <1> QED  BY Zenon, <1>1, <1>2 DEF Next

\* The invariant behind the theorems below.
THEOREM Invariance == Spec => []IInv
  BY Start, Inductive, PTL DEF Spec

\* m_value of shared_mutex counts its readers, writers and waiters exactly.
THEOREM SharedMutexValue == Spec => []ValueAgrees
  <1>1. IInv => ValueAgrees
    BY Zenon, Consequences
  <1> QED  BY <1>1, Invariance, PTL

\* A writer is alone, however it came in.
THEOREM SharedMutexExclusion == Spec => []MutualExclusion
  <1>1. IInv => MutualExclusion
    BY Zenon, Consequences
  <1> QED  BY <1>1, Invariance, PTL

\* There is a signal, on its way or heard by somebody, whenever there are waiters
\* and nobody inside, and only then.
THEOREM SharedMutexSignal == Spec => []NoLostSignal
  <1>1. IInv => NoLostSignal
    BY Zenon, Consequences
  <1> QED  BY <1>1, Invariance, PTL

\* lock_unlock does not return before everybody it found inside has left.
THEOREM SharedMutexPass == Spec => PassWaits
  <1> DEFINE Waited == \A t \in Threads :
                         pc[t] \in {"look", "pass"} /\ pc'[t] \in {"idle", "signal"} =>
                           ahead[t] = {}
  <1>1. IInv /\ [Next]_vars => [Waited]_vars
    <2> SUFFICES ASSUME IInv, Next, NEW t \in Threads,
                        pc[t] \in {"look", "pass"}, pc'[t] \in {"idle", "signal"}
                 PROVE  ahead[t] = {}
      BY Zenon DEF Waited
    <2>1. TypeOK /\ Seen(m_value, pc) /\ PassInv /\ MutualExclusion
      BY Zenon, Sees, Consequences DEF IInv
    <2>2. CASE pc[t] = "pass"
      <3>1. Writers = {t} /\ Readers = {}
        BY Zenon, <2>1, <2>2 DEF MutualExclusion, Writers
      <3>2. Inside = {}
        BY Zenon, <2>2, <3>1 DEF Inside, Writers, Readers
      <3> QED  BY Zenon, <2>1, <3>2 DEF PassInv
    <2>3. CASE pc[t] = "look"
      <3>1. Passable(t)
        <4>1. PICK u \in Threads : Begin(u) \/ Step(u)
          BY Zenon DEF Next
        <4>2. CASE u = t
          BY Zenon, <2>1, <2>3, <4>1, <4>2 DEF TypeOK, Begin, Step, LockShared,
             LockSharedSlow, Lock, LockSlow, PassCall, StealShared, AddShared,
             Downgrade, UnlockShared, Steal, Add, Unlock, Upgrade, WaitTake,
             WaitSleep, Signal, Notify, PassReturn, PassLook, PassAdd, Goto
        <4>3. CASE u # t
          <5>1. pc'[t] = pc[t] \/ pc[t] = "asleep"
            <6>1. CASE Notify(u)
              BY Zenon, <2>1, <4>3, <6>1 DEF TypeOK, Notify, Goto
            <6>2. CASE ~Notify(u)
              BY Zenon, <2>1, <4>1, <4>3, <6>2 DEF TypeOK, Begin, Step, LockShared,
                 LockSharedSlow, Lock, LockSlow, PassCall, StealShared, AddShared,
                 Downgrade, UnlockShared, Steal, Add, Unlock, Upgrade, WaitTake,
                 WaitSleep, Signal, PassReturn, PassLook, PassAdd, Goto
            <6> QED  BY Zenon, <6>1, <6>2
          <5> QED  BY Zenon, <2>3, <5>1
        <4> QED  BY Zenon, <4>2, <4>3
      <3>2. At(pc, RL) = {}
        <4>1. Num(pc, RL) = 0
          BY Zenon, <2>1, <3>1 DEF Seen, Passable
        <4> QED  BY Zenon, <4>1, NumType, FS_EmptySet DEF Num
      <3>3. CASE m_value >= c_sig
        <4>1. Inside = {}
          BY Zenon, <2>1, <3>3 DEF Seen, Inside, At, RL, WL
        <4> QED  BY Zenon, <2>1, <4>1 DEF PassInv
      <3>4. CASE ~(m_value >= c_sig)
        <4> SUFFICES ASSUME ahead[t] # {} PROVE FALSE
          BY Zenon
        <4>1. Inside # {} /\ max[t] <= 1 + Cardinality(Waiters) /\ max[t] \in Nat
          BY Zenon, <2>1, <2>3 DEF PassInv, TypeOK
        <4>2. At(pc, WL) # {}
          BY Zenon, <3>2, <4>1 DEF Inside, At, RL, WL
        <4>3. Num(pc, WL) \in Nat /\ Num(pc, WL) # 0 /\ Num(pc, QL) \in Nat
          BY Zenon, <4>2, NumType, FS_EmptySet DEF Num
        <4>4. Cardinality(Waiters) = Num(pc, QL)
          BY Zenon DEF Waiters, Num, At, QL
        <4>5. m_value < c_sig
          BY <2>1, <3>4, Fields DEF TypeOK
        <4>6. m_value \div c_one = Num(pc, WL) + Num(pc, QL)
          BY Zenon, <2>1, <4>5 DEF Seen
        <4>7. m_value \div c_one < max[t]
          BY Zenon, <3>1, <3>4 DEF Passable
        <4> QED  BY <4>1, <4>3, <4>4, <4>6, <4>7
      <3> QED  BY Zenon, <3>3, <3>4
    <2> QED  BY Zenon, <2>2, <2>3
  <1>2. Spec => [][Waited]_vars
    BY <1>1, Invariance, PTL DEF Spec
  <1> QED  BY Zenon, <1>2 DEF PassWaits
=============================================================================
