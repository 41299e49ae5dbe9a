---------------------------- MODULE QueueLemmas ----------------------------
(***************************************************************************)
(* What the operations on an lv2 wait queue do to the set of queued        *)
(* threads and to the length of the queue.                                 *)
(***************************************************************************)
EXTENDS Lv2Sync, TLAPS

\* Removing a position keeps the other elements in order (unqueue and schedule
\* in sys_sync.h relink one node).
LEMMA RemoveAtElements ==
  ASSUME NEW S, NEW s \in Seq(S), NEW i \in DOMAIN s
  PROVE  /\ RemoveAt(s, i) \in Seq(S)
         /\ Len(RemoveAt(s, i)) = Len(s) - 1
         /\ \A j \in 1..(Len(s) - 1) :
              RemoveAt(s, i)[j] = IF j < i THEN s[j] ELSE s[j + 1]
  <1> DEFINE a == SubSeq(s, 1, i - 1)
             b == SubSeq(s, i + 1, Len(s))
  <1>1. i \in 1..Len(s) /\ Len(s) \in Nat
    OBVIOUS
  <1>2. /\ a \in Seq(S)
        /\ Len(a) = i - 1
        /\ \A j \in 1..(i - 1) : a[j] = s[j]
    BY <1>1
  <1>3. /\ b \in Seq(S)
        /\ Len(b) = Len(s) - i
        /\ \A j \in 1..(Len(s) - i) : b[j] = s[i + j]
    BY <1>1
  <1>4. RemoveAt(s, i) = a \o b
    BY DEF RemoveAt
  <1> HIDE DEF a, b
  <1>0. a \in Seq(S) /\ b \in Seq(S)
    BY <1>2, <1>3
  <1>5. a \o b \in Seq(S) /\ Len(a \o b) = Len(a) + Len(b)
    BY <1>0
  <1>6. \A j \in 1..(Len(a) + Len(b)) :
          (a \o b)[j] = IF j <= Len(a) THEN a[j] ELSE b[j - Len(a)]
    BY <1>0
  <1>7. Len(a \o b) = Len(s) - 1
    BY <1>1, <1>2, <1>3, <1>5
  <1>8. ASSUME NEW j \in 1..(Len(s) - 1)
        PROVE  (a \o b)[j] = IF j < i THEN s[j] ELSE s[j + 1]
    <2>0. j \in 1..(Len(a) + Len(b))
      BY <1>1, <1>2, <1>3
    <2>1. CASE j < i
      BY <1>1, <1>2, <1>6, <2>0, <2>1
    <2>2. CASE ~(j < i)
      <3> DEFINE k == j - Len(a)
      <3>1. k \in 1..(Len(s) - i) /\ i + k = j + 1 /\ ~(j <= Len(a))
        BY <1>1, <1>2, <2>2
      <3>2. (a \o b)[j] = b[k]
        BY <1>6, <2>0, <3>1
      <3>3. b[k] = s[i + k]
        BY <1>3, <3>1
      <3> QED  BY <2>2, <3>1, <3>2, <3>3
    <2> QED  BY Zenon, <2>1, <2>2
  <1> QED  BY <1>4, <1>5, <1>7, <1>8

\* A thread is queued at most once, so removing its position removes it from
\* the set of queued threads and nothing else.
LEMMA RemoveAtSet ==
  ASSUME NEW S, NEW s \in Seq(S), NEW i \in DOMAIN s, NoDuplicates(s)
  PROVE  /\ Range(RemoveAt(s, i)) = Range(s) \ {s[i]}
         /\ NoDuplicates(RemoveAt(s, i))
  <1> DEFINE r == RemoveAt(s, i)
  <1>1. /\ r \in Seq(S)
        /\ Len(r) = Len(s) - 1
        /\ \A j \in 1..(Len(s) - 1) : r[j] = IF j < i THEN s[j] ELSE s[j + 1]
    BY RemoveAtElements
  <1> HIDE DEF r
  <1>2. Range(r) \subseteq Range(s) \ {s[i]}
    BY <1>1 DEF Range, NoDuplicates
  <1>3. ASSUME NEW k \in DOMAIN s, k # i
        PROVE  s[k] \in Range(r)
    <2>1. CASE k < i
      <3>1. k \in 1..(Len(s) - 1) /\ r[k] = s[k]
        BY <1>1, <2>1
      <3> QED  BY <3>1, <1>1 DEF Range
    <2>2. CASE k > i
      <3>1. k - 1 \in 1..(Len(s) - 1) /\ r[k - 1] = s[k]
        BY <1>1, <2>2
      <3> QED  BY <3>1, <1>1 DEF Range
    <2> QED  BY <1>3, <2>1, <2>2
  <1>4. Range(s) \ {s[i]} \subseteq Range(r)
    BY <1>3 DEF Range
  <1>5. NoDuplicates(r)
    <2> SUFFICES ASSUME NEW j \in DOMAIN r, NEW k \in DOMAIN r, r[j] = r[k]
                 PROVE  j = k
      BY DEF NoDuplicates
    <2> DEFINE At(n) == IF n < i THEN n ELSE n + 1
    <2>1. /\ j \in 1..(Len(s) - 1) /\ k \in 1..(Len(s) - 1)
          /\ Len(s) \in Nat /\ i \in 1..Len(s)
      BY <1>1
    <2>2. At(j) \in DOMAIN s /\ At(k) \in DOMAIN s
      BY <2>1
    <2>3. s[At(j)] = s[At(k)]
      BY <1>1, <2>1
    <2>4. At(j) = At(k)
      BY <2>2, <2>3 DEF NoDuplicates
    <2> QED  BY <2>1, <2>4
  <1> QED  BY <1>2, <1>4, <1>5 DEF r

\* unqueue finds a queued thread and removes it.
LEMMA UnqueueSet ==
  ASSUME NEW S, NEW s \in Seq(S), NEW t \in Range(s), NoDuplicates(s)
  PROVE  /\ unqueue(s, t) \in Seq(S)
         /\ Len(unqueue(s, t)) = Len(s) - 1
         /\ Range(unqueue(s, t)) = Range(s) \ {t}
         /\ NoDuplicates(unqueue(s, t))
  <1> DEFINE i == CHOOSE k \in DOMAIN s : s[k] = t
  <1>1. i \in DOMAIN s /\ s[i] = t
    BY DEF Range
  <1> HIDE DEF i
  <1>2. unqueue(s, t) = RemoveAt(s, i)
    BY DEF unqueue, i
  <1> QED  BY <1>1, <1>2, RemoveAtElements, RemoveAtSet

\* emplace adds the thread to the queue.
LEMMA EmplaceSet ==
  ASSUME NEW S, NEW s \in Seq(S), NEW t \in S
  PROVE  /\ emplace(s, t) \in Seq(S)
         /\ Len(emplace(s, t)) = Len(s) + 1
         /\ Range(emplace(s, t)) = Range(s) \cup {t}
         /\ t \notin Range(s) /\ NoDuplicates(s) => NoDuplicates(emplace(s, t))
  <1> DEFINE e == emplace(s, t)
  <1>1. /\ e \in Seq(S)
        /\ Len(e) = Len(s) + 1
        /\ e[1] = t
        /\ \A j \in 1..Len(s) : e[j + 1] = s[j]
    BY DEF emplace
  <1> HIDE DEF e
  <1>2. \A j \in 2..Len(e) : e[j] = s[j - 1] /\ j - 1 \in DOMAIN s
    BY <1>1
  <1>3. Range(e) \subseteq Range(s) \cup {t}
    <2> SUFFICES ASSUME NEW j \in DOMAIN e  PROVE e[j] \in Range(s) \cup {t}
      BY DEF Range
    <2>1. j = 1 \/ j \in 2..Len(e)
      BY <1>1
    <2> QED  BY <1>1, <1>2, <2>1 DEF Range
  <1>4. t \in Range(e)
    BY <1>1 DEF Range
  <1>5. ASSUME NEW j \in DOMAIN s  PROVE s[j] \in Range(e)
    <2>1. j + 1 \in DOMAIN e /\ e[j + 1] = s[j]
      BY <1>1
    <2> QED  BY <2>1 DEF Range
  <1>6. Range(e) = Range(s) \cup {t}
    BY Zenon, <1>3, <1>4, <1>5 DEF Range
  <1>7. t \notin Range(s) /\ NoDuplicates(s) => NoDuplicates(e)
    <2> SUFFICES ASSUME t \notin Range(s), NoDuplicates(s),
                        NEW j \in DOMAIN e, NEW k \in DOMAIN e, e[j] = e[k]
                 PROVE  j = k
      BY DEF NoDuplicates
    <2>1. (j = 1 \/ j \in 2..Len(e)) /\ (k = 1 \/ k \in 2..Len(e))
      BY <1>1
    <2>2. \A n \in 2..Len(e) : e[n] # t
      BY <1>2 DEF Range
    <2>3. CASE j \in 2..Len(e) /\ k \in 2..Len(e)
      <3>1. j - 1 = k - 1
        BY <1>2, <2>3 DEF NoDuplicates
      <3> QED  BY <2>3, <3>1
    <2> QED  BY <1>1, <2>1, <2>2, <2>3
  <1> QED  BY <1>1, <1>6, <1>7 DEF e

\* Nobody is queued in an empty queue.
LEMMA EmptyQueue ==
  ASSUME NEW S, NEW s \in Seq(S)
  PROVE  s = <<>> <=> Range(s) = {}
  BY DEF Range

\* Clearing a queue leaves nobody in it.
LEMMA ClearedQueue == Range(<<>>) = {}
  BY DEF Range

\* lv2_obj::schedule with the FIFO protocol takes the tail of the list.
LEMMA FrontSet ==
  ASSUME NEW S, NEW s \in Seq(S), s # <<>>, NoDuplicates(s)
  PROVE  /\ Last(s) \in Range(s)
         /\ Front(s) \in Seq(S) /\ NoDuplicates(Front(s))
         /\ Range(Front(s)) = Range(s) \ {Last(s)}
  <1>1. Len(s) \in Nat /\ Len(s) >= 1 /\ Len(s) \in DOMAIN s
    OBVIOUS
  <1> DEFINE f == Front(s)
  <1>2. /\ f \in Seq(S) /\ Len(f) = Len(s) - 1
        /\ \A i \in 1..(Len(s) - 1) : f[i] = s[i]
    <2> DEFINE m == Len(s) - 1
    <2>1. m \in 0..Len(s) /\ m + 1 <= Len(s) + 1
      BY <1>1
    <2>2. f = SubSeq(s, 1, m)
      BY DEF Front
    <2> HIDE DEF m, f
    <2>3. f \in Seq(S) /\ Len(f) = m /\ \A i \in 1..m : f[i] = s[i]
      BY <1>1, <2>1, <2>2
    <2> QED  BY <2>3 DEF m
  <1> HIDE DEF f
  <1>3. \A i \in DOMAIN s : i = Len(s) \/ (i \in DOMAIN f /\ f[i] = s[i])
    BY <1>1, <1>2
  <1>4. \A i \in DOMAIN f : i \in DOMAIN s /\ f[i] = s[i] /\ i # Len(s)
    BY <1>1, <1>2
  <1>5. Last(s) \in Range(s)
    BY <1>1 DEF Range, Last
  <1>6. Range(f) = Range(s) \ {Last(s)}
    BY <1>1, <1>3, <1>4 DEF Range, Last, NoDuplicates
  <1>7. NoDuplicates(f)
    BY <1>4 DEF NoDuplicates
  <1> QED  BY <1>2, <1>5, <1>6, <1>7 DEF f

----------------------------------------------------------------------------
(* Sequences of events. *)

\* Only threads are queued, and only events are stored.
LEMMA Members ==
  ASSUME NEW S, NEW s \in Seq(S), NEW w \in Range(s)
  PROVE  w \in S
  BY DEF Range

\* events.pop_front().
LEMMA TakeOne ==
  ASSUME NEW S, NEW s \in Seq(S), s # <<>>
  PROVE  /\ Head(s) \in S /\ Head(s) \in Range(s)
         /\ Tail(s) \in Seq(S) /\ Len(Tail(s)) = Len(s) - 1
         /\ Range(Tail(s)) \subseteq Range(s)
  <1>1. Len(s) \in Nat /\ Len(s) >= 1
    OBVIOUS
  <1>2. /\ Tail(s) \in Seq(S) /\ Len(Tail(s)) = Len(s) - 1
        /\ \A i \in 1..(Len(s) - 1) : Tail(s)[i] = s[i + 1]
    OBVIOUS
  <1>3. Head(s) = s[1] /\ s[1] \in S
    BY <1>1
  <1>4. DOMAIN s = 1..Len(s) /\ DOMAIN Tail(s) = 1..(Len(s) - 1)
    BY <1>1, <1>2
  <1>5. ASSUME NEW i \in 1..(Len(s) - 1)  PROVE s[i + 1] \in Range(s)
    BY <1>1, <1>4 DEF Range
  <1>6. s[1] \in Range(s)
    BY <1>1, <1>4 DEF Range
  <1>7. ASSUME NEW x \in Range(Tail(s))  PROVE x \in Range(s)
    BY <1>2, <1>4, <1>5 DEF Range
  <1> QED  BY <1>2, <1>3, <1>6, <1>7

\* emplace_back.
LEMMA AddOne ==
  ASSUME NEW S, NEW s \in Seq(S), NEW e \in S
  PROVE  /\ Append(s, e) \in Seq(S) /\ Len(Append(s, e)) = Len(s) + 1
         /\ Range(Append(s, e)) = Range(s) \cup {e}
         /\ Append(s, e) # <<>>
  <1>1. /\ Append(s, e) \in Seq(S) /\ Len(Append(s, e)) = Len(s) + 1
        /\ \A i \in 1..Len(s) : Append(s, e)[i] = s[i]
        /\ Append(s, e)[Len(s) + 1] = e
    OBVIOUS
  <1>2. Len(s) \in Nat /\ DOMAIN s = 1..Len(s)
        /\ DOMAIN Append(s, e) = 1..(Len(s) + 1)
    BY <1>1
  <1>3. ASSUME NEW x \in Range(Append(s, e))  PROVE x \in Range(s) \cup {e}
    BY <1>1, <1>2 DEF Range
  <1>4. ASSUME NEW x \in Range(s)  PROVE x \in Range(Append(s, e))
    <2>1. PICK i \in 1..Len(s) : x = s[i]
      BY <1>2 DEF Range
    <2> QED  BY <1>1, <1>2, <2>1 DEF Range
  <1>5. e \in Range(Append(s, e))
    BY <1>1, <1>2 DEF Range
  <1> QED  BY <1>1, <1>2, <1>3, <1>4, <1>5

\* It takes all of them or leaves some.
LEMMA AllOrLess ==
  ASSUME NEW l \in Nat, NEW n \in 0..l
  PROVE  n = l \/ n + 1 <= l
  OBVIOUS

\* The loop of sys_event_queue_tryreceive takes the first n events.
LEMMA TakeSome ==
  ASSUME NEW S, NEW s \in Seq(S), NEW n \in 0..Len(s)
  PROVE  /\ SubSeq(s, 1, n) \in Seq(S) /\ Range(SubSeq(s, 1, n)) \subseteq Range(s)
         /\ SubSeq(s, n + 1, Len(s)) \in Seq(S)
         /\ Len(SubSeq(s, n + 1, Len(s))) = Len(s) - n
         /\ Range(SubSeq(s, n + 1, Len(s))) \subseteq Range(s)
  <1> DEFINE a == SubSeq(s, 1, n)
             b == SubSeq(s, n + 1, Len(s))
  <1>1. Len(s) \in Nat /\ DOMAIN s = 1..Len(s)
    OBVIOUS
  <1>2. a \in Seq(S) /\ Len(a) = n /\ \A i \in 1..n : a[i] = s[i]
    BY <1>1
  <1>3. /\ b \in Seq(S) /\ Len(b) = Len(s) - n
        /\ \A i \in 1..(Len(s) - n) : b[i] = s[n + i]
    <2>1. \A i \in (n + 1)..Len(s) : s[i] \in S
      BY <1>1
    <2>2. /\ b \in Seq(S)
          /\ Len(b) = IF n + 1 <= Len(s) THEN Len(s) - (n + 1) + 1 ELSE 0
          /\ \A i \in 1..(Len(s) - (n + 1) + 1) : b[i] = s[(n + 1) + i - 1]
      BY <1>1, <2>1
    <2>3. Len(s) - (n + 1) + 1 = Len(s) - n
      BY <1>1
    <2>4. \A i \in 1..(Len(s) - n) : (n + 1) + i - 1 = n + i
      BY <1>1
    <2> HIDE DEF b
    <2>5. CASE n = Len(s)
      BY <1>1, <2>2, <2>3, <2>4, <2>5
    <2>6. CASE n + 1 <= Len(s)
      BY <1>1, <2>2, <2>3, <2>4, <2>6
    <2>7. n = Len(s) \/ n + 1 <= Len(s)
      BY <1>1, AllOrLess
    <2> QED  BY <2>5, <2>6, <2>7
  <1>4. DOMAIN a = 1..n /\ DOMAIN b = 1..(Len(s) - n)
    BY <1>2, <1>3
  <1> HIDE DEF a, b
  <1>5. Range(a) \subseteq Range(s)
    BY <1>1, <1>2, <1>4 DEF Range
  <1>6. ASSUME NEW i \in 1..(Len(s) - n)  PROVE s[n + i] \in Range(s)
    BY <1>1 DEF Range
  <1>7. Range(b) \subseteq Range(s)
    BY <1>3, <1>4, <1>6 DEF Range
  <1> QED  BY <1>2, <1>3, <1>5, <1>7 DEF a, b

\* What two sequences hold.
LEMMA JoinSets ==
  ASSUME NEW S, NEW r \in Seq(S), NEW s \in Seq(S)
  PROVE  r \o s \in Seq(S) /\ Range(r \o s) = Range(r) \cup Range(s)
  <1>1. /\ r \o s \in Seq(S) /\ Len(r \o s) = Len(r) + Len(s)
        /\ \A i \in 1..(Len(r) + Len(s)) :
             (r \o s)[i] = IF i <= Len(r) THEN r[i] ELSE s[i - Len(r)]
    OBVIOUS
  <1>2. /\ Len(r) \in Nat /\ DOMAIN r = 1..Len(r)
        /\ Len(s) \in Nat /\ DOMAIN s = 1..Len(s)
        /\ DOMAIN (r \o s) = 1..(Len(r) + Len(s))
    BY <1>1
  <1>3. ASSUME NEW x \in Range(r \o s)  PROVE x \in Range(r) \cup Range(s)
    <2>1. PICK i \in 1..(Len(r) + Len(s)) : x = (r \o s)[i]
      BY <1>2 DEF Range
    <2>2. CASE i <= Len(r)
      BY <1>1, <1>2, <2>1, <2>2 DEF Range
    <2>3. CASE i > Len(r)
      <3>1. x = s[i - Len(r)] /\ i - Len(r) \in 1..Len(s)
        BY <1>1, <1>2, <2>1, <2>3
      <3> QED  BY <1>2, <3>1 DEF Range
    <2> QED  BY <1>2, <2>2, <2>3
  <1>4. ASSUME NEW x \in Range(r)  PROVE x \in Range(r \o s)
    <2>1. PICK i \in 1..Len(r) : x = r[i]
      BY <1>2 DEF Range
    <2>2. i \in 1..(Len(r) + Len(s)) /\ (r \o s)[i] = x
      BY <1>1, <1>2, <2>1
    <2> QED  BY <1>2, <2>2 DEF Range
  <1>5. ASSUME NEW x \in Range(s)  PROVE x \in Range(r \o s)
    <2>1. PICK i \in 1..Len(s) : x = s[i]
      BY <1>2 DEF Range
    <2>2. Len(r) + i \in 1..(Len(r) + Len(s)) /\ (r \o s)[Len(r) + i] = x
      BY <1>1, <1>2, <2>1
    <2> QED  BY <1>2, <2>2 DEF Range
  <1> QED  BY <1>1, <1>3, <1>4, <1>5

\* The first event alone.
LEMMA FirstOnly ==
  ASSUME NEW S, NEW s \in Seq(S), s # <<>>
  PROVE  SubSeq(s, 1, 1) = <<Head(s)>>
  <1>1. Len(s) \in Nat /\ Len(s) >= 1 /\ Head(s) = s[1]
    OBVIOUS
  <1>2. s[1] \in S
    BY <1>1
  <1>3. \A i \in 1..1 : s[i] \in S
    BY <1>2
  <1> DEFINE r == SubSeq(s, 1, 1)
  <1>4. r \in Seq(S) /\ Len(r) = 1 /\ r[1] = s[1]
    BY <1>3
  <1> HIDE DEF r
  <1>5. r = <<s[1]>>
    BY <1>4
  <1> QED  BY <1>1, <1>5 DEF r

\* What popping all of a queue, or nothing of it, leaves.
LEMMA WholeOrNothing ==
  ASSUME NEW S, NEW r \in Seq(S), NEW s \in Seq(S)
  PROVE  /\ r \o <<>> = r /\ SubSeq(s, 1, 0) = <<>>
         /\ SubSeq(s, 1, Len(s)) = s
  OBVIOUS

\* pop_front and emplace_back of one event in terms of subsequences.
LEMMA OneAtATime ==
  ASSUME NEW S, NEW r \in Seq(S), NEW s \in Seq(S), s # <<>>
  PROVE  /\ Append(r, Head(s)) = r \o <<Head(s)>>
         /\ Tail(s) = SubSeq(s, 2, Len(s))
  OBVIOUS

=============================================================================
