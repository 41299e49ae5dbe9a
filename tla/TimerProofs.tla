---------------------------- MODULE TimerProofs ----------------------------
(***************************************************************************)
(* For any timers, callers, bases, periods and times: the first expiration *)
(* that _sys_timer_start computes without a loop is the one that the loop  *)
(* of the firmware finds, and the timer thread sends every expiration from *)
(* there on, each of them once and none early.                             *)
(***************************************************************************)
EXTENDS Timer, TLAPS

\* What a system call was given and has read.
Requested(r) ==
  /\ r.op \in Ops \cup {"idle", "enlist", "start", "notify", "delist"}
  /\ r.op \in {"enlist", "delist"} => r.timer \in Timers
  /\ r.op \in Ops \cup {"start"} =>
       r.timer \in Timers /\ r.now \in Nat /\ r.now <= clock
  /\ r.op = "start" => r.base \in 0..UMax /\ r.period \in 0..UMax

\* What the timer thread has read and has still to look at.
Scanning ==
  /\ thread.at \in {"sleep", "scan", "turn", "look", "lock"}
  /\ thread.at # "sleep" =>
       thread.now \in Nat /\ thread.now <= clock /\ thread.todo \subseteq Timers
  /\ thread.at \in {"turn", "look", "lock"} =>
       /\ thread.timer \in Timers
       /\ thread = [at |-> thread.at, now |-> thread.now, todo |-> thread.todo,
                    timer |-> thread.timer]

\* The expirations from the first one, f, to the one before e.
Between(f, e, p) == {x \in f .. (e - 1) : (x - f) % p = 0}

\* The timer was started with its present period, and has sent every expiration
\* from some first one to the one before the next.
Exact(t) ==
  /\ fired[t] \subseteq Nat
  /\ \A x \in fired[t] : x <= clock
  /\ state[t] = "run" /\ fired[t] # {} =>
       /\ period[t] # 0
       /\ \E f \in fired[t] :
            /\ fired[t] = Between(f, expire[t], period[t])
            /\ expire[t] = UMax \/ (expire[t] - f) % period[t] = 0

\* All timers.
Objects ==
  /\ state \in [Timers -> {"stop", "run"}]
  /\ expire \in [Timers -> 0..UMax] /\ period \in [Timers -> 0..UMax]
  /\ DOMAIN fired = Timers
  /\ \A t \in Timers : Exact(t)

\* The invariant of every step, of which the properties are consequences.
IInv ==
  /\ TypeOK
  /\ DOMAIN call = Callers
  /\ \A c \in Callers : Requested(call[c])
  /\ Scanning
  /\ Objects

----------------------------------------------------------------------------
\* Division leaves nothing of a multiple.
LEMMA Multiple ==
  ASSUME NEW p \in Nat, p > 0, NEW k \in Int
  PROVE  (p * k) % p = 0
  <1> DEFINE x == p * k
             d == x \div p
             e == x % p
  <1>1. x \in Int
    OBVIOUS
  <1>2. d \in Int /\ e \in Int /\ e >= 0 /\ e < p /\ x = p * d + e
    <2> HIDE DEF x
    <2> QED  BY <1>1
  <1>3. p * (k - d) = e /\ k - d \in Int
    <2>1. p * (k - d) = p * k - p * d
      BY <1>2
    <2>2. p * k \in Int /\ p * d \in Int
      BY <1>2
    <2> HIDE DEF d, e
    <2> QED  BY <1>2, <2>1, <2>2
  <1> DEFINE j == k - d
  <1> HIDE DEF x, d, e
  <1>4. CASE j >= 1
    <2>1. p * j = p + p * (j - 1) /\ p * (j - 1) >= 0
      BY <1>3, <1>4
    <2> QED  BY <1>2, <1>3, <2>1
  <1>5. CASE j <= -1
    <2>1. p * j = -p - p * (-1 - j) /\ p * (-1 - j) >= 0
      BY <1>3, <1>5
    <2> QED  BY <1>2, <1>3, <2>1
  <1>6. CASE j = 0
    <2>1. p * j = 0
      BY <1>6
    <2> QED  BY Zenon, <1>3, <2>1 DEF e, x
  <1> QED  BY <1>3, <1>4, <1>5, <1>6

\* A sum is cut off at UMax.
LEMMA Saturated ==
  ASSUME NEW x \in Nat
  PROVE  /\ Saturate(x) \in 0..UMax
         /\ x <= UMax => Saturate(x) = x
         /\ x > UMax => Saturate(x) = UMax
  BY TimerAssumption DEF Saturate

\* Aligning, without regard to UMax, finds the end of the loop once the first
\* period from the base has passed.
LEMMA Aligned ==
  ASSUME NEW b \in Nat, NEW p \in Nat, p > 0, NEW now \in Nat, now >= b + p,
         NEW r \in Nat, r = now - (now % p) + (b % p),
         NEW x \in Nat, x = r + (IF r < now THEN p ELSE 0)
  PROVE  LoopEnds(b, p, now, x)
  <1> DEFINE u == now \div p
             m == now % p
             v == b \div p
             n == b % p
  <1>1. u \in Int /\ m \in Nat /\ m < p /\ now = p * u + m
    OBVIOUS
  <1>2. v \in Int /\ n \in Nat /\ n < p /\ b = p * v + n
    OBVIOUS
  <1>3. r = now - m + n
    BY Zenon
  <1> HIDE DEF u, m, v, n
  <1>4. r - b = p * (u - v) /\ (r + p) - b = p * (u - v + 1)
    <2>1. p * u \in Int /\ p * v \in Int
      BY <1>1, <1>2
    <2>2. p * (u - v) = p * u - p * v /\ p * (u - v + 1) = p * u - p * v + p
      BY <1>1, <1>2
    <2> QED  BY <1>1, <1>2, <1>3, <2>1, <2>2
  <1>5. (r - b) % p = 0 /\ ((r + p) - b) % p = 0
    <2>1. u - v \in Int /\ u - v + 1 \in Int
      BY <1>1, <1>2
    <2>2. (p * (u - v)) % p = 0 /\ (p * (u - v + 1)) % p = 0
      BY Zenon, <2>1, Multiple
    <2> QED  BY Zenon, <1>4, <2>2
  <1>6. x >= now /\ x - p < now /\ (x = r \/ x = r + p)
    BY <1>1, <1>2, <1>3
  <1>7. (x - b) % p = 0
    <2>1. CASE x = r
      BY Zenon, <1>5, <2>1
    <2>2. CASE x = r + p
      <3>1. x - b = (r + p) - b
        BY Zenon, <2>2
      <3> QED  BY Zenon, <1>5, <3>1
    <2> QED  BY Zenon, <1>6, <2>1, <2>2
  <1>8. x >= b + p
    BY <1>6
  <1> QED  BY Zenon, <1>6, <1>7, <1>8 DEF LoopEnds

\* x is where the loop ends, and e what it is as a u64.
Ends(b, p, now, e) ==
  \E x \in (b + p) .. (b + p + now) : LoopEnds(b, p, now, x) /\ e = Saturate(x)

\* Align finds the same, although it adds up two times.
LEMMA AlignEnds ==
  ASSUME NEW b \in Nat, NEW p \in Nat, p > 0, NEW now \in Nat, now >= b + p, now < UMax
  PROVE  Ends(b, p, now, Align(b, p, now))
  <1> DEFINE m == now % p
             n == b % p
             s == now - m + n
             y == s + (IF s < now THEN p ELSE 0)
             q == Saturate(s)
  <1>1. m \in Nat /\ n \in Nat /\ m < p /\ n < p /\ m <= now
    OBVIOUS
  <1>2. Align(b, p, now) = Saturate(q + (IF q < now THEN p ELSE 0))
    BY Zenon DEF Align
  <1>3. s = now - (now % p) + (b % p)
    BY Zenon
  <1> HIDE DEF m, n
  <1>4. s \in Nat
    BY <1>1
  <1> HIDE DEF s
  <1>5. y \in Nat
    BY <1>4
  <1>6. LoopEnds(b, p, now, y)
    BY <1>3, <1>4, <1>5, Aligned
  <1>7. Align(b, p, now) = Saturate(y)
    <2>1. CASE s <= UMax
      <3>1. q = s
        BY Zenon, <1>4, <2>1, Saturated
      <3> QED  BY Zenon, <1>2, <3>1
    <2>2. CASE s > UMax
      <3>1. q = UMax
        BY Zenon, <1>4, <2>2, Saturated
      <3>2. y = s /\ q + (IF q < now THEN p ELSE 0) = UMax
        BY TimerAssumption, <1>4, <2>2, <3>1
      <3>3. Saturate(s) = UMax
        BY Zenon, <1>4, <2>2, Saturated
      <3>4. Saturate(UMax) = UMax
        BY TimerAssumption, Saturated
      <3> QED  BY Zenon, <1>2, <3>2, <3>3, <3>4
    <2> QED  BY TimerAssumption, <1>4, <2>1, <2>2
  <1> HIDE DEF y
  <1>8. y \in (b + p) .. (b + p + now)
    BY <1>5, <1>6 DEF LoopEnds
  <1> QED  BY Zenon, <1>6, <1>7, <1>8 DEF Ends

\* The first expiration of a periodic timer with a base.
LEMMA FirstIsAligned ==
  ASSUME NEW b \in 0..UMax, b # 0, NEW p \in 0..UMax, p # 0, NEW now \in Nat, now < UMax
  PROVE  Ends(b, p, now, FirstExpire(b, p, now))
  <1>0. b \in Nat /\ p \in Nat /\ p > 0 /\ b + p \in Nat /\ UMax \in Nat
    BY TimerAssumption
  <1>1. CASE now < Saturate(b + p)
    <2>1. FirstExpire(b, p, now) = Saturate(b + p)
      BY Zenon, <1>1 DEF FirstExpire
    <2>2. (b + p) - b = p * 1 /\ (p * 1) % p = 0
      BY <1>0, Multiple
    <2>3. ((b + p) - b) % p = 0
      BY Zenon, <2>2
    <2>4. now < b + p
      BY <1>0, <1>1 DEF Saturate
    <2>5. LoopEnds(b, p, now, b + p) /\ b + p \in (b + p) .. (b + p + now)
      BY <1>0, <2>3, <2>4 DEF LoopEnds
    <2> QED  BY Zenon, <2>1, <2>5 DEF Ends
  <1>2. CASE ~(now < Saturate(b + p))
    <2>1. FirstExpire(b, p, now) = Align(b, p, now)
      BY Zenon, <1>2 DEF FirstExpire
    <2>2. now >= b + p
      BY <1>0, <1>2 DEF Saturate
    <2> QED  BY Zenon, <1>0, <2>1, <2>2, AlignEnds
  <1> QED  BY Zenon, <1>1, <1>2

\* Adding the period changes nothing in the remainder.
LEMMA NextMultiple ==
  ASSUME NEW p \in Nat, p > 0, NEW y \in Nat
  PROVE  (y + p) % p = 0 <=> y % p = 0
  <1>1. ASSUME y % p = 0 PROVE (y + p) % p = 0
    <2> DEFINE k == y \div p
    <2>1. k \in Int /\ y = p * k
      BY <1>1
    <2> HIDE DEF k
    <2>2. y + p = p * (k + 1)
      BY <2>1
    <2> QED  BY <2>1, <2>2, Multiple
  <1>2. ASSUME (y + p) % p = 0 PROVE y % p = 0
    <2> DEFINE z == y + p
               k == z \div p
    <2>1. k \in Int /\ z = p * k
      BY <1>2
    <2> HIDE DEF k
    <2>2. y = p * (k - 1)
      BY <2>1
    <2> QED  BY <2>1, <2>2, Multiple
  <1> QED  BY Zenon, <1>1, <1>2

\* No number between zero and the period is a multiple of it.
LEMMA NoMultiple ==
  ASSUME NEW p \in Nat, NEW d \in Nat, d > 0, d < p
  PROVE  d % p # 0
  <1> DEFINE k == d \div p
  <1> SUFFICES ASSUME d % p = 0 PROVE FALSE
    BY Zenon
  <1>1. k \in Int /\ d = p * k
    OBVIOUS
  <1> HIDE DEF k
  <1>2. CASE k >= 1
    <2>1. p * k = p + p * (k - 1) /\ p * (k - 1) >= 0
      BY <1>1, <1>2
    <2> QED  BY <1>1, <2>1
  <1>3. CASE k <= 0
    <2>1. p * k <= 0
      BY <1>1, <1>3
    <2> QED  BY <1>1, <2>1
  <1> QED  BY <1>1, <1>2, <1>3

\* Nor is one between two multiples.
LEMMA BetweenMultiples ==
  ASSUME NEW p \in Nat, p > 0, NEW y \in Nat, y % p = 0, NEW d \in Nat, d > 0, d < p
  PROVE  (y + d) % p # 0
  <1> DEFINE z == y + d
             k == y \div p
             j == z \div p
  <1> SUFFICES ASSUME z % p = 0 PROVE FALSE
    BY Zenon
  <1>1. z \in Nat /\ k \in Int /\ y = p * k
    OBVIOUS
  <1>2. j \in Int /\ z = p * j
    <2> HIDE DEF z
    <2> QED  BY <1>1
  <1>3. p * k \in Int /\ p * j \in Int /\ p * (j - k) = p * j - p * k
    <2> HIDE DEF k, j
    <2> QED  BY <1>1, <1>2
  <1>4. z - y = d
    OBVIOUS
  <1> HIDE DEF z, k, j
  <1>5. d = p * (j - k) /\ j - k \in Int
    BY <1>1, <1>2, <1>3, <1>4
  <1>6. d % p = 0
    <2>1. (p * (j - k)) % p = 0
      BY Zenon, <1>5, Multiple
    <2> QED  BY Zenon, <1>5, <2>1
  <1> QED  BY Zenon, <1>6, NoMultiple

\* Moving the next expiration by a period, or less if that is cut off, leaves one
\* more behind it.
LEMMA BetweenNext ==
  ASSUME NEW p \in Nat, p > 0, NEW f \in Nat, NEW e \in Nat, f <= e, (e - f) % p = 0,
         NEW n \in Nat, e < n, n <= e + p
  PROVE  Between(f, n, p) = Between(f, e, p) \cup {e}
  <1>1. ASSUME NEW x \in Int, x > e, x < n  PROVE (x - f) % p # 0
    <2> DEFINE y == e - f
               d == x - e
    <2>1. y \in Nat /\ d \in Nat /\ d > 0 /\ d < p /\ x - f = y + d
      BY <1>1
    <2>2. y % p = 0
      BY Zenon
    <2> HIDE DEF y, d
    <2>3. (y + d) % p # 0
      BY Zenon, <2>1, <2>2, BetweenMultiples
    <2> QED  BY Zenon, <2>1, <2>3
  <1>2. ASSUME NEW x \in Between(f, n, p)  PROVE x \in Between(f, e, p) \cup {e}
    <2>1. x \in Int /\ f <= x /\ x < n /\ (x - f) % p = 0
      BY DEF Between
    <2>2. x < e \/ x = e
      BY <1>1, <2>1
    <2>3. x < e => x \in f .. (e - 1)
      BY <2>1
    <2> QED  BY Zenon, <2>1, <2>2, <2>3 DEF Between
  <1>3. ASSUME NEW x \in Between(f, e, p) \cup {e}  PROVE x \in Between(f, n, p)
    <2>1. x \in f .. (n - 1)
      BY DEF Between
    <2>2. (x - f) % p = 0
      BY Zenon DEF Between
    <2> QED  BY Zenon, <2>1, <2>2 DEF Between
  <1> QED  BY Zenon, <1>2, <1>3

\* The next expiration is later, at most by a period, and a period after the last
\* or never.
LEMMA NextTime ==
  ASSUME NEW p \in 0..UMax, NEW f \in Nat, NEW e \in Nat, f <= e, e < UMax
  PROVE  /\ Saturate(e + p) \in 0..UMax
         /\ p # 0 => e < Saturate(e + p) /\ Saturate(e + p) <= e + p
         /\ p # 0 /\ (e - f) % p = 0 =>
              Saturate(e + p) = UMax \/ (Saturate(e + p) - f) % p = 0
  <1>0. p \in Nat /\ UMax \in Nat /\ e + p \in Nat
    BY TimerAssumption
  <1>1. Saturate(e + p) \in 0..UMax
    BY Zenon, <1>0, Saturated
  <1>2. p # 0 => e < Saturate(e + p) /\ Saturate(e + p) <= e + p
    BY <1>0 DEF Saturate
  <1>3. ASSUME p # 0, (e - f) % p = 0, Saturate(e + p) # UMax
        PROVE  (Saturate(e + p) - f) % p = 0
    <2> DEFINE y == e - f
    <2>1. Saturate(e + p) = e + p
      BY Zenon, <1>3 DEF Saturate
    <2>2. y \in Nat /\ (e + p) - f = y + p /\ p > 0
      BY <1>0, <1>3
    <2>3. (y + p) % p = 0
      BY Zenon, <1>0, <1>3, <2>2, NextMultiple
    <2> QED  BY Zenon, <2>1, <2>2, <2>3
  <1> QED  BY Zenon, <1>1, <1>2, <1>3

----------------------------------------------------------------------------
\* A call of c becomes another one, and only _sys_timer_start leaves a
\* notification.
Proceeds(c) ==
  \E next : /\ call' = [call EXCEPT ![c] = next]
            /\ Requested(next)
            /\ next.op = "notify" => Start(c)

\* What the calls that begin have read and were given.
LEMMA BeginStep ==
  ASSUME IInv, NEW c \in Callers, Begin(c)
  PROVE  /\ UNCHANGED <<clock, timers, object, queue, daemon, wake>>
         /\ exists' \in [Timers -> {"no", "yes", "gone"}]
         /\ Proceeds(c)
  <1>0. clock \in Nat /\ exists \in [Timers -> {"no", "yes", "gone"}]
    BY TimerAssumption DEF IInv, TypeOK
  <1>1. ASSUME NEW t \in Timers, Create(c, t)
        PROVE  /\ UNCHANGED <<clock, timers, object, queue, daemon, wake>>
               /\ exists' \in [Timers -> {"no", "yes", "gone"}]
               /\ Proceeds(c)
    <2> DEFINE next == [op |-> "enlist", timer |-> t]
    <2>1. call' = [call EXCEPT ![c] = next] /\ next.op = "enlist" /\ next.timer = t
      BY Zenon, <1>1 DEF Create, Do
    <2>2. /\ UNCHANGED <<clock, timers, object, queue, daemon, wake>>
          /\ exists' \in [Timers -> {"no", "yes", "gone"}]
      BY Zenon, <1>0, <1>1 DEF Create
    <2> HIDE DEF next
    <2>3. Requested(next)
      BY Zenon, <2>1 DEF Requested, Ops
    <2> QED  BY Zenon, <2>1, <2>2, <2>3 DEF Proceeds
  <1>2. ASSUME NEW t \in Timers, NEW op \in Ops, Call(c, t, op)
        PROVE  /\ UNCHANGED <<clock, timers, object, queue, daemon, wake>>
               /\ exists' \in [Timers -> {"no", "yes", "gone"}]
               /\ Proceeds(c)
    <2> DEFINE next == [op |-> op, timer |-> t, now |-> clock]
    <2>1. /\ call' = [call EXCEPT ![c] = next]
          /\ next.op = op /\ next.timer = t /\ next.now = clock
      BY Zenon, <1>2 DEF Call, Do
    <2>2. /\ UNCHANGED <<clock, timers, object, queue, daemon, wake>>
          /\ exists' \in [Timers -> {"no", "yes", "gone"}]
      BY Zenon, <1>0, <1>2 DEF Call, tables
    <2> HIDE DEF next
    <2>3. Requested(next) /\ next.op # "notify"
      BY <1>0, <2>1 DEF Requested, Ops
    <2> QED  BY Zenon, <2>1, <2>2, <2>3 DEF Proceeds
  <1>3. ASSUME NEW t \in Timers, NEW s \in Starts[t], CallStart(c, t, s[1], s[2])
        PROVE  /\ UNCHANGED <<clock, timers, object, queue, daemon, wake>>
               /\ exists' \in [Timers -> {"no", "yes", "gone"}]
               /\ Proceeds(c)
    <2> DEFINE next == [op |-> "start", timer |-> t, now |-> clock,
                        base |-> s[1], period |-> s[2]]
    <2>1. /\ call' = [call EXCEPT ![c] = next]
          /\ next.op = "start" /\ next.timer = t /\ next.now = clock
          /\ next.base = s[1] /\ next.period = s[2]
      BY Zenon, <1>3 DEF CallStart, Do
    <2>2. /\ UNCHANGED <<clock, timers, object, queue, daemon, wake>>
          /\ exists' \in [Timers -> {"no", "yes", "gone"}]
      BY Zenon, <1>0, <1>3 DEF CallStart, tables
    <2>3. s[1] \in 0..UMax /\ s[2] \in 0..UMax
      <3>1. s \in (0..UMax) \X (0..UMax)
        BY Zenon, TimerAssumption
      <3> QED  BY Zenon, <3>1
    <2> HIDE DEF next
    <2>4. Requested(next)
      BY <1>0, <2>1, <2>3 DEF Requested, Ops
    <2> QED  BY Zenon, <2>1, <2>2, <2>4 DEF Proceeds
  <1> QED  BY Zenon, <1>1, <1>2, <1>3 DEF Begin

\* The calls under way end, or go on with the list or the notification.
LEMMA SyscallStep ==
  ASSUME IInv, NEW c \in Callers, Syscall(c)
  PROVE  Proceeds(c)
  <1>1. Idle.op = "idle" /\ Requested(Idle)
    BY Zenon DEF Idle, Requested, Ops
  <1>2. CASE call' = [call EXCEPT ![c] = Idle]
    BY Zenon, <1>1, <1>2 DEF Proceeds
  <1>3. CASE Destroy(c) /\ call' # [call EXCEPT ![c] = Idle]
    <2> DEFINE next == [op |-> "delist", timer |-> call[c].timer]
    <2>1. call' = [call EXCEPT ![c] = next]
      BY Zenon, <1>3 DEF Destroy, Do
    <2>2. next.op = "delist" /\ next.timer = call[c].timer
      BY Zenon
    <2>3. call[c].timer \in Timers
      BY Zenon, <1>3 DEF IInv, Requested, Destroy, Locked, Ops
    <2> HIDE DEF next
    <2>4. Requested(next)
      BY Zenon, <2>2, <2>3 DEF Requested, Ops
    <2> QED  BY Zenon, <2>1, <2>2, <2>4 DEF Proceeds
  <1>4. CASE Start(c) /\ call' # [call EXCEPT ![c] = Idle]
    <2> DEFINE next == [op |-> "notify"]
    <2>1. call' = [call EXCEPT ![c] = next]
      BY Zenon, <1>4 DEF Start, Do
    <2>2. next.op = "notify"
      BY Zenon
    <2> HIDE DEF next
    <2>3. Requested(next)
      BY Zenon, <2>2 DEF Requested, Ops
    <2> QED  BY Zenon, <1>4, <2>1, <2>2, <2>3 DEF Proceeds
  <1>5. \/ Start(c) \/ Destroy(c)
        \/ call' = [call EXCEPT ![c] = Idle]
    BY Zenon DEF Syscall, Enlist, NotFound, StartNotify, GetInformation, Stop, Connect,
       Disconnect, Delist, Do
  <1> QED  BY Zenon, <1>2, <1>3, <1>4, <1>5

----------------------------------------------------------------------------
\* Time that passes makes no timer less exact.
LEMMA Unmoved ==
  ASSUME Objects, clock \in Nat, clock' \in Nat, clock <= clock',
         UNCHANGED <<state, expire, period, fired>>
  PROVE  Objects'
  <1>1. ASSUME NEW t \in Timers PROVE Exact(t)'
    <2>1. Exact(t)
      BY Zenon DEF Objects
    <2>2. fired[t] \subseteq Nat /\ \A x \in fired[t] : x <= clock'
      BY <2>1 DEF Exact
    <2> QED  BY Zenon, <2>1, <2>2 DEF Exact
  <1> QED  BY Zenon, <1>1 DEF Objects

\* check_unlocked, with any time that was read before.
LEMMA FireKeeps ==
  ASSUME Objects, clock \in Nat, clock < UMax, NEW t \in Timers, NEW now \in Nat, now <= clock,
         Fire(t, now), UNCHANGED <<clock, period>>
  PROVE  Objects'
  <1>1. CASE ~Due(t, now)
    BY <1>1, Unmoved DEF Fire
  <1>2. CASE Due(t, now)
    <2> DEFINE e == expire[t]
               p == period[t]
    <2>0. e \in 0..UMax /\ p \in 0..UMax /\ e <= now /\ state[t] = "run"
      BY Zenon, <1>2 DEF Due, Objects
    <2>1. e \in Nat /\ p \in Nat /\ e <= now /\ e < UMax /\ state[t] = "run"
      BY <2>0, TimerAssumption
    <2>2. /\ fired' = [fired EXCEPT ![t] = @ \cup {e}]
          /\ expire' = [expire EXCEPT ![t] = Saturate(e + p)]
          /\ state' = [state EXCEPT ![t] = IF p # 0 THEN @ ELSE "stop"]
      BY Zenon, <1>2 DEF Fire
    <2>n. Saturate(e + p) \in 0..UMax
      <3> HIDE DEF e, p
      <3> QED  BY <2>0, <2>1, NextTime
    <2>3. /\ state' \in [Timers -> {"stop", "run"}]
          /\ expire' \in [Timers -> 0..UMax] /\ period' \in [Timers -> 0..UMax]
          /\ DOMAIN fired' = Timers
      BY Zenon, <2>0, <2>2, <2>n DEF Objects
    <2>4. ASSUME NEW u \in Timers, u # t PROVE Exact(u)'
      <3>1. /\ fired'[u] = fired[u] /\ expire'[u] = expire[u]
            /\ state'[u] = state[u] /\ period'[u] = period[u]
        BY Zenon, <2>2, <2>4 DEF Objects
      <3>2. Exact(u)
        BY Zenon DEF Objects
      <3> QED  BY Zenon, <3>1, <3>2 DEF Exact
    <2>5. Exact(t)'
      <3>1. /\ fired'[t] = fired[t] \cup {e} /\ expire'[t] = Saturate(e + p)
            /\ p = 0 => state'[t] = "stop"
            /\ period'[t] = p
        BY Zenon, <2>2 DEF Objects
      <3>2. Exact(t)
        BY Zenon DEF Objects
      <3>3. fired'[t] \subseteq Nat /\ \A x \in fired'[t] : x <= clock'
        BY <2>1, <3>1, <3>2 DEF Exact
      <3>4. PICK f \in Nat : /\ p # 0 => fired[t] = Between(f, e, p) /\ (e - f) % p = 0
                            /\ f <= e /\ f \in fired'[t]
        <4>1. CASE fired[t] = {}
          <5>1. Between(e, e, p) = {}
            BY <2>1 DEF Between
          <5>2. p # 0 => (e - e) % p = 0
            <6>1. e - e = p * 0
              BY <2>1
            <6>2. p # 0 => (p * 0) % p = 0
              BY <2>1, Multiple
            <6> QED  BY Zenon, <6>1, <6>2
          <5>3. e <= e
            BY <2>1
          <5> QED  BY Zenon, <2>1, <3>1, <4>1, <5>1, <5>2, <5>3
        <4>2. CASE fired[t] # {}
          <5>1. PICK f \in fired[t] : /\ fired[t] = Between(f, e, p)
                                      /\ e = UMax \/ (e - f) % p = 0
            BY Zenon, <2>1, <3>2, <4>2 DEF Exact
          <5>2. f \in Nat /\ f \in f .. (e - 1) /\ f \in fired'[t]
            BY Zenon, <3>1, <3>2, <5>1 DEF Exact, Between
          <5>3. f <= e /\ e # UMax
            BY <2>1, <5>2, TimerAssumption
          <5> QED  BY Zenon, <5>1, <5>2, <5>3
        <4> QED  BY Zenon, <4>1, <4>2
      <3> HIDE DEF e, p
      <3>5. ASSUME p # 0
            PROVE  /\ fired'[t] = Between(f, Saturate(e + p), p)
                   /\ Saturate(e + p) = UMax \/ (Saturate(e + p) - f) % p = 0
        <4>1. /\ p > 0 /\ (e - f) % p = 0 /\ f <= e
              /\ Saturate(e + p) \in 0..UMax
          BY <2>1, <2>n, <3>4, <3>5
        <4>2. /\ Saturate(e + p) \in Nat
              /\ e < Saturate(e + p) /\ Saturate(e + p) <= e + p
              /\ Saturate(e + p) = UMax \/ (Saturate(e + p) - f) % p = 0
          BY <2>0, <2>1, <3>5, <4>1, NextTime
        <4>3. Between(f, Saturate(e + p), p) = Between(f, e, p) \cup {e}
          BY Zenon, <2>1, <4>1, <4>2, BetweenNext
        <4> QED  BY Zenon, <3>1, <3>4, <3>5, <4>2, <4>3
      <3> QED  BY Zenon, <3>1, <3>3, <3>4, <3>5 DEF Exact
    <2> QED  BY Zenon, <2>3, <2>4, <2>5 DEF Objects
  <1> QED  BY Zenon, <1>1, <1>2

\* sys_timer_stop and sys_timer_disconnect_event_queue.
LEMMA FireAndStopKeeps ==
  ASSUME Objects, clock \in Nat, NEW t \in Timers, NEW now \in Nat, now <= clock,
         FireAndStop(t, now), UNCHANGED <<clock, period>>
  PROVE  Objects'
  <1>1. /\ state' \in [Timers -> {"stop", "run"}]
        /\ expire' \in [Timers -> 0..UMax] /\ period' \in [Timers -> 0..UMax]
        /\ DOMAIN fired' = Timers
    <2>1. expire[t] \in 0..UMax /\ period[t] \in 0..UMax
      BY Zenon DEF Objects
    <2>2. Saturate(expire[t] + period[t]) \in 0..UMax
      BY <2>1, Saturated
    <2> QED  BY Zenon, <2>2 DEF Objects, FireAndStop
  <1>2. ASSUME NEW u \in Timers, u # t PROVE Exact(u)'
    <2>1. /\ fired'[u] = fired[u] /\ expire'[u] = expire[u]
          /\ state'[u] = state[u] /\ period'[u] = period[u]
      BY Zenon, <1>2 DEF Objects, FireAndStop
    <2>2. Exact(u)
      BY Zenon DEF Objects
    <2> QED  BY Zenon, <2>1, <2>2 DEF Exact
  <1>3. Exact(t)'
    <2>1. /\ state'[t] = "stop"
          /\ fired'[t] = IF Due(t, now) THEN fired[t] \cup {expire[t]} ELSE fired[t]
      BY Zenon DEF Objects, FireAndStop
    <2>2. Due(t, now) => expire[t] <= now /\ expire[t] \in Nat
      BY DEF Due, Objects
    <2>3. Exact(t)
      BY Zenon DEF Objects
    <2> QED  BY <2>1, <2>2, <2>3 DEF Exact
  <1> QED  BY Zenon, <1>1, <1>2, <1>3 DEF Objects

\* The first expiration is a time.
LEMMA FirstIsTime ==
  ASSUME NEW b \in 0..UMax, NEW p \in 0..UMax, NEW now \in Nat
  PROVE  FirstExpire(b, p, now) \in 0..UMax
  <1>0. b \in Nat /\ p \in Nat /\ now + p \in Nat /\ b + p \in Nat /\ UMax \in Nat
    BY TimerAssumption
  <1>1. Saturate(now + p) \in 0..UMax /\ Saturate(b + p) \in 0..UMax
    BY Zenon, <1>0, Saturated
  <1>2. CASE p = 0 \/ b = 0 \/ now < Saturate(b + p)
    BY Zenon, <1>1, <1>2 DEF FirstExpire
  <1>3. CASE ~(p = 0 \/ b = 0 \/ now < Saturate(b + p))
    <2> DEFINE m == now % p
               n == b % p
               q == Saturate(now - m + n)
    <2>1. m \in Nat /\ n \in Nat /\ m <= now
      BY <1>0, <1>3
    <2>2. FirstExpire(b, p, now) = Align(b, p, now)
      BY Zenon, <1>3 DEF FirstExpire
    <2>3. Align(b, p, now) = Saturate(q + (IF q < now THEN p ELSE 0))
      BY Zenon DEF Align
    <2> HIDE DEF m, n
    <2>4. now - m + n \in Nat
      BY <2>1
    <2>5. q \in Nat
      BY <2>4, <1>0, Saturated
    <2> HIDE DEF q
    <2>6. q + (IF q < now THEN p ELSE 0) \in Nat
      BY <1>0, <2>5
    <2> QED  BY Zenon, <2>2, <2>3, <2>6, Saturated
  <1> QED  BY Zenon, <1>2, <1>3

\* _sys_timer_start starts the timer afresh, or leaves it to check_unlocked.
LEMMA StartKeeps ==
  ASSUME IInv, clock \in Nat, clock < UMax, NEW c \in Callers, Start(c)
  PROVE  Objects'
  <1>1. PICK t \in Timers, now \in Nat, b \in 0..UMax, p \in 0..UMax :
          /\ t = call[c].timer /\ now = call[c].now
          /\ b = call[c].base /\ p = call[c].period
          /\ now <= clock /\ Objects
    BY Zenon DEF Start, Locked, IInv, Requested
  <1>2. CASE UNCHANGED object
    BY <1>1, <1>2, Unmoved DEF object, Start
  <1>3. CASE Fire(t, now) /\ UNCHANGED period
    BY Zenon, <1>1, <1>3, FireKeeps DEF Start
  <1>4. CASE /\ expire' = [expire EXCEPT ![t] = FirstExpire(b, p, now)]
             /\ period' = [period EXCEPT ![t] = p]
             /\ state' = [state EXCEPT ![t] = "run"]
             /\ fired' = [fired EXCEPT ![t] = {}]
    <2>1. FirstExpire(b, p, now) \in 0..UMax
      BY Zenon, <1>1, FirstIsTime
    <2>2. UNCHANGED clock
      BY Zenon DEF Start
    <2>3. /\ state' \in [Timers -> {"stop", "run"}]
          /\ expire' \in [Timers -> 0..UMax] /\ period' \in [Timers -> 0..UMax]
          /\ DOMAIN fired' = Timers
      BY Zenon, <1>1, <1>4, <2>1 DEF Objects
    <2>4. ASSUME NEW u \in Timers, u # t PROVE Exact(u)'
      <3>1. /\ fired'[u] = fired[u] /\ expire'[u] = expire[u]
            /\ state'[u] = state[u] /\ period'[u] = period[u]
        BY Zenon, <1>1, <1>4, <2>4 DEF Objects
      <3>2. Exact(u)
        BY Zenon, <1>1 DEF Objects
      <3> QED  BY Zenon, <2>2, <3>1, <3>2 DEF Exact
    <2>5. Exact(t)'
      <3>1. fired'[t] = {}
        BY Zenon, <1>1, <1>4 DEF Objects
      <3> QED  BY Zenon, <3>1 DEF Exact
    <2> QED  BY Zenon, <2>3, <2>4, <2>5 DEF Objects
  <1> QED  BY Zenon, <1>1, <1>2, <1>3, <1>4 DEF Start

\* The system calls keep the timers exact, and the tables what they are.
LEMMA SyscallKeeps ==
  ASSUME IInv, clock \in Nat, clock < UMax, NEW c \in Callers, Syscall(c)
  PROVE  /\ Objects'
         /\ UNCHANGED <<clock, thread, endless, queue>>
         /\ exists' \in [Timers -> {"no", "yes", "gone"}]
         /\ timers' \subseteq Timers
         /\ port' \in [Timers -> BOOLEAN]
         /\ wake' \in BOOLEAN
  <1>0. TypeOK /\ Objects /\ Requested(call[c])
    BY Zenon DEF IInv
  <1>1. UNCHANGED <<clock, thread, endless, queue>>
    BY Zenon DEF Syscall, Enlist, NotFound, Start, StartNotify, GetInformation, Stop,
       Connect, Disconnect, Destroy, Delist, daemon
  <1>2. exists' \in [Timers -> {"no", "yes", "gone"}]
    <2>1. CASE Destroy(c)
      BY Zenon, <1>0, <2>1 DEF TypeOK, Destroy
    <2>2. CASE ~Destroy(c)
      BY Zenon, <1>0, <2>2 DEF TypeOK, Syscall, Enlist, NotFound, Start, StartNotify,
         GetInformation, Stop, Connect, Disconnect, Delist, tables
    <2> QED  BY Zenon, <2>1, <2>2
  <1>3. timers' \subseteq Timers
    <2>1. CASE Enlist(c)
      BY Zenon, <1>0, <2>1 DEF TypeOK, Enlist, Requested
    <2>2. CASE Delist(c)
      BY Zenon, <1>0, <2>2 DEF TypeOK, Delist
    <2>3. CASE ~Enlist(c) /\ ~Delist(c)
      BY Zenon, <1>0, <2>3 DEF TypeOK, Syscall, NotFound, Start, StartNotify,
         GetInformation, Stop, Connect, Disconnect, Destroy, tables
    <2> QED  BY Zenon, <2>1, <2>2, <2>3
  <1>4. port' \in [Timers -> BOOLEAN]
    <2>1. port \in [Timers -> BOOLEAN] /\ queue \in BOOLEAN
      BY Zenon, <1>0 DEF TypeOK
    <2>2. CASE Connect(c)
      BY Zenon, <2>1, <2>2, Zenon DEF Connect
    <2>3. CASE Disconnect(c)
      BY Zenon, <2>1, <2>3, Zenon DEF Disconnect
    <2>4. CASE ~Connect(c) /\ ~Disconnect(c)
      <3>1. UNCHANGED port
        BY Zenon, <2>4 DEF Syscall, Enlist, NotFound, Start, StartNotify, GetInformation,
           Stop, Destroy, Delist, object
      <3> QED  BY Zenon, <2>1, <3>1
    <2> QED  BY Zenon, <2>2, <2>3, <2>4
  <1>5. wake' \in BOOLEAN
    BY Zenon, <1>0 DEF TypeOK, Syscall, Enlist, NotFound, Start, StartNotify,
       GetInformation, Stop, Connect, Disconnect, Destroy, Delist
  <1>6. Objects'
    <2>1. CASE Start(c)
      BY Zenon, <2>1, StartKeeps
    <2>2. CASE GetInformation(c)
      <3>1. call[c].timer \in Timers /\ call[c].now \in Nat /\ call[c].now <= clock
        BY Zenon, <1>0, <2>2 DEF GetInformation, Locked, Requested, Ops
      <3> QED  BY Zenon, <1>0, <2>2, <3>1, FireKeeps DEF GetInformation
    <2>3. CASE Stop(c) \/ Disconnect(c)
      <3>1. call[c].timer \in Timers /\ call[c].now \in Nat /\ call[c].now <= clock
        BY Zenon, <1>0, <2>3 DEF Stop, Disconnect, Locked, Requested, Ops
      <3> QED  BY Zenon, <1>0, <2>3, <3>1, FireAndStopKeeps DEF Stop, Disconnect
    <2>4. CASE \/ Enlist(c) \/ NotFound(c) \/ StartNotify(c) \/ Connect(c)
               \/ Destroy(c) \/ Delist(c)
      <3>1. UNCHANGED <<state, expire, period, fired>>
        BY Zenon, <2>4 DEF Enlist, NotFound, StartNotify, Connect, Destroy, Delist, object
      <3> QED  BY <1>0, <1>1, <3>1, Unmoved
    <2> QED  BY Zenon, <2>1, <2>2, <2>3, <2>4 DEF Syscall
  <1> QED  BY Zenon, <1>1, <1>2, <1>3, <1>4, <1>5, <1>6

\* The timer thread is between two timers,
LEMMA AtScan ==
  ASSUME NEW now \in Nat, now <= clock', NEW todo \in SUBSET Timers,
         thread' = [at |-> "scan", now |-> now, todo |-> todo]
  PROVE  Scanning'
  <1>1. thread'.at = "scan" /\ thread'.now = now /\ thread'.todo = todo
    BY Zenon
  <1> QED  BY Zenon, <1>1 DEF Scanning

\* or at one.
LEMMA AtTimer ==
  ASSUME NEW label \in {"turn", "look", "lock"}, NEW now \in Nat, now <= clock',
         NEW todo \in SUBSET Timers, NEW t \in Timers,
         thread' = [at |-> label, now |-> now, todo |-> todo, timer |-> t]
  PROVE  Scanning'
  <1>1. /\ thread'.at = label /\ thread'.now = now /\ thread'.todo = todo
        /\ thread'.timer = t
    BY Zenon
  <1> QED  BY Zenon, <1>1 DEF Scanning

\* The timer thread keeps the timers exact, whatever was done to them since it
\* read the time.
LEMMA ThreadKeeps ==
  ASSUME IInv, clock \in Nat, clock < UMax, TimerThread
  PROVE  /\ Objects' /\ Scanning'
         /\ UNCHANGED <<clock, exists, timers, port, queue, call>>
         /\ endless' \in BOOLEAN /\ wake' \in BOOLEAN
  <1>0. TypeOK /\ Objects /\ Scanning
    BY Zenon DEF IInv
  <1>1. UNCHANGED <<clock, exists, timers, port, queue, call>>
    BY Zenon DEF TimerThread, Wake, Turn, Check, CheckLocked, Sleep, tables, object
  <1>2. wake' \in BOOLEAN
    BY Zenon, <1>0 DEF TypeOK, TimerThread, Wake, Turn, Check, CheckLocked, Sleep
  <1>3. endless' \in BOOLEAN
    <2>1. endless \in BOOLEAN
      BY Zenon, <1>0 DEF TypeOK
    <2>2. CASE Wake \/ Sleep
      BY Zenon, <2>1, <2>2 DEF Wake, Sleep
    <2>3. CASE CheckLocked
      BY Zenon, <2>1, <2>3, Zenon DEF CheckLocked
    <2>4. CASE Check
      BY Zenon, <2>1, <2>4, Zenon DEF Check
    <2>5. ASSUME NEW t \in Timers, Turn(t) PROVE endless' \in BOOLEAN
      BY Zenon, <2>1, <2>5 DEF Turn
    <2> QED  BY Zenon, <2>2, <2>3, <2>4, <2>5 DEF TimerThread
  <1>4. Objects'
    <2>1. CASE CheckLocked
      <3>1. thread.timer \in Timers /\ thread.now \in Nat /\ thread.now <= clock
        BY Zenon, <1>0, <2>1 DEF Scanning, CheckLocked
      <3>2. Fire(thread.timer, thread.now) /\ UNCHANGED <<clock, period>>
        BY Zenon, <2>1 DEF CheckLocked
      <3> QED  BY Zenon, <1>0, <3>1, <3>2, FireKeeps
    <2>2. CASE ~CheckLocked
      <3>1. UNCHANGED <<state, expire, period, fired>>
        BY Zenon, <2>2 DEF TimerThread, Wake, Turn, Check, Sleep, object
      <3> QED  BY <1>0, <1>1, <3>1, Unmoved
    <2> QED  BY Zenon, <2>1, <2>2
  <1>5. Scanning'
    <2>0. thread.at # "sleep" =>
            thread.now \in Nat /\ thread.now <= clock' /\ thread.todo \in SUBSET Timers
      BY Zenon, <1>0, <1>1 DEF Scanning
    <2>1. CASE Wake
      <3>1. thread' = [at |-> "scan", now |-> clock, todo |-> timers]
        BY Zenon, <2>1 DEF Wake
      <3>2. timers \in SUBSET Timers /\ clock <= clock'
        BY <1>0, <1>1 DEF TypeOK
      <3> QED  BY Zenon, <3>1, <3>2, AtScan
    <2>2. ASSUME NEW t \in Timers, Turn(t) PROVE Scanning'
      <3>1. thread.at # "sleep"
        BY Zenon, <2>2 DEF Turn
      <3>2. CASE exists[t] = "yes"
        BY Zenon, <2>0, <2>2, <3>1, <3>2, AtTimer DEF Turn
      <3>3. CASE exists[t] # "yes"
        <4>1. thread.todo \ {t} \in SUBSET Timers
          BY Zenon, <2>0, <3>1
        <4> QED  BY Zenon, <2>0, <2>2, <3>1, <3>3, <4>1, AtScan DEF Turn
      <3> QED  BY Zenon, <3>2, <3>3
    <2>3. ASSUME Check \/ CheckLocked  PROVE Scanning'
      <3>1. /\ thread.timer \in Timers
            /\ thread = [at |-> thread.at, now |-> thread.now, todo |-> thread.todo,
                         timer |-> thread.timer]
            /\ thread.at # "sleep"
        BY Zenon, <1>0, <2>3 DEF Scanning, Check, CheckLocked
      <3>2. CASE thread' = [at |-> "scan", now |-> thread.now,
                            todo |-> thread.todo \ {thread.timer}]
        <4>1. thread.todo \ {thread.timer} \in SUBSET Timers
          BY Zenon, <2>0, <3>1
        <4> QED  BY Zenon, <2>0, <3>1, <3>2, <4>1, AtScan
      <3>3. ASSUME NEW label \in {"turn", "lock"}, thread' = [thread EXCEPT !.at = label]
            PROVE  Scanning'
        <4>1. PICK now \in Nat, todo \in SUBSET Timers, t \in Timers :
                /\ thread = [at |-> thread.at, now |-> now, todo |-> todo, timer |-> t]
                /\ now <= clock'
          BY Zenon, <2>0, <3>1
        <4>2. thread' = [at |-> label, now |-> now, todo |-> todo, timer |-> t]
          BY <3>3, <4>1
        <4> QED  BY Zenon, <4>1, <4>2, AtTimer
      <3> QED  BY Zenon, <2>3, <3>2, <3>3 DEF Check, CheckLocked
    <2>4. CASE Sleep
      <3>1. thread'.at = "sleep"
        BY Zenon, <2>4 DEF Sleep, Asleep
      <3> QED  BY Zenon, <3>1 DEF Scanning
    <2> QED  BY Zenon, <2>1, <2>2, <2>3, <2>4 DEF TimerThread
  <1> QED  BY Zenon, <1>1, <1>2, <1>3, <1>4, <1>5

----------------------------------------------------------------------------
\* What the calls have read stays behind the clock.
LEMMA RequestsKept ==
  ASSUME IInv, clock \in Nat, clock' \in Nat, clock <= clock'
  PROVE  /\ \A r : Requested(r) => Requested(r)'
         /\ UNCHANGED thread => Scanning'
  BY DEF IInv, Requested, Scanning

\* A call that becomes another one leaves the rest of the calls alone.
LEMMA CallsKept ==
  ASSUME IInv, clock \in Nat, UNCHANGED clock, NEW c \in Callers, Proceeds(c)
  PROVE  /\ DOMAIN call' = Callers
         /\ \A d \in Callers : Requested(call[d])'
         /\ \A d \in Callers : call'[d].op \in
              Ops \cup {"idle", "enlist", "start", "notify", "delist"}
  <1>1. PICK next : call' = [call EXCEPT ![c] = next] /\ Requested(next)
    BY Zenon DEF Proceeds
  <1>2. DOMAIN call' = Callers
    BY Zenon, <1>1 DEF IInv
  <1>3. \A d \in Callers : call'[d] = IF d = c THEN next ELSE call[d]
    BY Zenon, <1>1 DEF IInv
  <1>4. \A d \in Callers : Requested(call'[d])
    BY Zenon, <1>1, <1>3 DEF IInv
  <1> QED  BY Zenon, <1>2, <1>4 DEF Requested

\* The invariant holds at first.
LEMMA First == Init => IInv
  <1> SUFFICES ASSUME Init PROVE IInv
    BY Zenon
  <1>1. /\ Idle.op = "idle" /\ Asleep.at = "sleep"
        /\ \A c \in Callers : call[c] = Idle
        /\ thread = Asleep
    BY Zenon DEF Init, Idle, Asleep
  <1>2. TypeOK
    <2>1. clock \in Times /\ 0 \in 0..UMax
      BY TimerAssumption DEF Init
    <2>2. /\ exists \in [Timers -> {"no", "yes", "gone"}]
          /\ state \in [Timers -> {"stop", "run"}]
          /\ expire \in [Timers -> 0..UMax] /\ period \in [Timers -> 0..UMax]
          /\ timers \subseteq Timers
      BY Zenon, <2>1 DEF Init
    <2>3. port \in [Timers -> BOOLEAN] /\ queue \in BOOLEAN
      BY Zenon DEF Init
    <2>4. endless \in BOOLEAN /\ wake \in BOOLEAN
      BY Zenon DEF Init
    <2> QED  BY Zenon, <1>1, <2>1, <2>2, <2>3, <2>4 DEF TypeOK
  <1>3. \A c \in Callers : Requested(call[c])
    BY Zenon, <1>1 DEF Requested, Ops
  <1>4. Scanning
    BY Zenon, <1>1 DEF Scanning
  <1>5. Objects
    BY Zenon, <1>2 DEF Init, Objects, Exact, TypeOK
  <1> QED  BY Zenon, <1>2, <1>3, <1>4, <1>5 DEF Init, IInv

\* Every step keeps the invariant.
LEMMA Inductive == IInv /\ [Next]_vars => IInv'
  <1> SUFFICES ASSUME IInv, [Next]_vars PROVE IInv'
    BY Zenon
  <1>0. clock \in Nat /\ clock < UMax /\ TypeOK /\ Objects
    <2>1. TypeOK /\ Objects /\ clock \in 0..(UMax - 1)
      BY Zenon, TimerAssumption DEF IInv, TypeOK
    <2>2. clock \in Nat /\ clock < UMax
      BY <2>1, TimerAssumption
    <2> QED  BY Zenon, <2>1, <2>2
  <1>1. CASE Tick
    <2>1. clock' \in Times /\ clock' \in Nat /\ clock <= clock'
      <3>1. clock' \in Times /\ clock' > clock
        BY Zenon, <1>1 DEF Tick
      <3>2. clock' \in 0..(UMax - 1)
        BY Zenon, <3>1, TimerAssumption
      <3> QED  BY <1>0, <3>1, <3>2, TimerAssumption
    <2>2. UNCHANGED <<exists, timers, state, expire, period, port, queue, thread,
                      endless, wake, call, fired>>
      BY Zenon, <1>1 DEF Tick
    <2>3. Objects'
      BY Zenon, <1>0, <2>1, <2>2, Unmoved
    <2>4. Scanning'
      BY Zenon, <1>0, <2>1, <2>2, RequestsKept
    <2>5. \A c \in Callers : Requested(call[c])'
      BY Zenon, <1>0, <2>1, <2>2, RequestsKept DEF IInv
    <2>6. TypeOK'
      BY Zenon, <1>0, <2>1, <2>2 DEF TypeOK
    <2> QED  BY Zenon, <2>2, <2>3, <2>4, <2>5, <2>6 DEF IInv
  <1>2. CASE QueueDestroy
    <2>1. UNCHANGED <<clock, exists, timers, state, expire, period, port, thread,
                      endless, wake, call, fired>> /\ queue' = FALSE
      BY Zenon, <1>2 DEF QueueDestroy, tables, object, daemon
    <2>2. TypeOK'
      BY Zenon, <1>0, <2>1 DEF TypeOK
    <2> QED  BY Zenon, <2>1, <2>2 DEF IInv, Requested, Scanning, Objects, Exact
  <1>3. CASE TimerThread
    <2>1. /\ Objects' /\ Scanning'
          /\ UNCHANGED <<clock, exists, timers, port, queue, call>>
          /\ endless' \in BOOLEAN /\ wake' \in BOOLEAN
      BY Zenon, <1>0, <1>3, ThreadKeeps
    <2>2. TypeOK'
      BY Zenon, <1>0, <2>1 DEF TypeOK, Objects, Scanning
    <2>3. \A c \in Callers : Requested(call[c])'
      BY Zenon, <2>1 DEF IInv, Requested
    <2> QED  BY Zenon, <2>1, <2>2, <2>3 DEF IInv
  <1>4. ASSUME NEW c \in Callers, Begin(c) PROVE IInv'
    <2>1. /\ UNCHANGED <<clock, timers, object, queue, daemon, wake>>
          /\ exists' \in [Timers -> {"no", "yes", "gone"}]
          /\ Proceeds(c)
      BY Zenon, <1>4, BeginStep
    <2>2. Objects'
      BY <1>0, <2>1, Unmoved DEF object
    <2>3. Scanning'
      BY <1>0, <2>1, RequestsKept DEF daemon
    <2>4. /\ DOMAIN call' = Callers
          /\ \A d \in Callers : Requested(call[d])'
          /\ \A d \in Callers : call'[d].op \in
               Ops \cup {"idle", "enlist", "start", "notify", "delist"}
      BY Zenon, <1>0, <2>1, CallsKept
    <2>5. TypeOK'
      BY Zenon, <1>0, <2>1, <2>2, <2>4 DEF TypeOK, object, daemon
    <2> QED  BY Zenon, <2>2, <2>3, <2>4, <2>5 DEF IInv
  <1>5. ASSUME NEW c \in Callers, Syscall(c) PROVE IInv'
    <2>1. Proceeds(c)
      BY Zenon, <1>5, SyscallStep
    <2>2. /\ Objects'
          /\ UNCHANGED <<clock, thread, endless, queue>>
          /\ exists' \in [Timers -> {"no", "yes", "gone"}]
          /\ timers' \subseteq Timers
          /\ port' \in [Timers -> BOOLEAN]
          /\ wake' \in BOOLEAN
      BY Zenon, <1>0, <1>5, SyscallKeeps
    <2>3. Scanning'
      BY <1>0, <2>2, RequestsKept
    <2>4. /\ DOMAIN call' = Callers
          /\ \A d \in Callers : Requested(call[d])'
          /\ \A d \in Callers : call'[d].op \in
               Ops \cup {"idle", "enlist", "start", "notify", "delist"}
      BY Zenon, <1>0, <2>1, <2>2, CallsKept
    <2>5. TypeOK'
      BY Zenon, <1>0, <2>2, <2>4 DEF TypeOK, Objects
    <2> QED  BY Zenon, <2>2, <2>3, <2>4, <2>5 DEF IInv
  <1>6. CASE UNCHANGED vars
    BY Zenon, <1>6 DEF vars, IInv, TypeOK, Requested, Scanning, Objects, Exact
  <1> QED  BY Zenon, <1>1, <1>2, <1>3, <1>4, <1>5, <1>6 DEF Next

\* Every reachable state satisfies the invariant.
LEMMA Invariance == Spec => []IInv
  BY First, Inductive, PTL DEF Spec

----------------------------------------------------------------------------
\* However many threads check a timer, with whatever times they have read, a
\* running timer has sent exactly the expirations between its first and the next.
THEOREM TimerExpiriesExact == Spec => []ExpiriesExact
  <1>1. IInv => ExpiriesExact
    <2> SUFFICES ASSUME IInv PROVE ExpiriesExact
      BY Zenon
    <2>1. ASSUME NEW t \in Timers, state[t] = "run", fired[t] # {}
          PROVE  /\ fired[t] = Between(Min(fired[t]), expire[t], period[t])
                 /\ \/ expire[t] = UMax
                    \/ (expire[t] - Min(fired[t])) % period[t] = 0
      <3>1. fired[t] \subseteq Nat
        BY Zenon, <2>1 DEF IInv, Objects, Exact
      <3>2. PICK f \in fired[t] : /\ fired[t] = Between(f, expire[t], period[t])
                                  /\ expire[t] = UMax \/ (expire[t] - f) % period[t] = 0
        BY Zenon, <2>1 DEF IInv, Objects, Exact
      <3>3. \A x \in fired[t] : f <= x
        BY <3>2 DEF Between
      <3>4. Min(fired[t]) = f
        <4> DEFINE m == CHOOSE x \in fired[t] : \A y \in fired[t] : x <= y
        <4>1. m \in fired[t] /\ \A y \in fired[t] : m <= y
          BY Zenon, <3>2, <3>3
        <4>2. Min(fired[t]) = m
          BY Zenon DEF Min
        <4> HIDE DEF m
        <4>3. m \in Nat /\ f \in Nat /\ m <= f /\ f <= m
          BY Zenon, <3>1, <3>2, <3>3, <4>1
        <4> QED  BY <4>2, <4>3
      <3> QED  BY Zenon, <3>2, <3>4
    <2>2. \A t \in Timers : \A x \in fired[t] : x <= clock
      BY Zenon DEF IInv, Objects, Exact
    <2> QED  BY Zenon, <2>1, <2>2 DEF IInv, ExpiriesExact, Between
  <1> QED  BY <1>1, Invariance, PTL

\* For every base, period and time, _sys_timer_start computes the expiration that
\* the loop it replaces would end with, cut off at the largest u64.
THEOREM TimerStartAligned == Spec => StartAligned
  <1> DEFINE Step == \A c \in Callers :
                       call[c].op = "start" /\ call'[c].op = "notify"
                         /\ call[c].base # 0 /\ call[c].period # 0 =>
                           LET first == call[c].base + call[c].period
                           IN  \E x \in first .. (first + call[c].now) :
                                 /\ LoopEnds(call[c].base, call[c].period,
                                             call[c].now, x)
                                 /\ expire'[call[c].timer] = Saturate(x)
  <1>1. IInv /\ [Next]_vars => [Step]_vars
    <2> SUFFICES ASSUME IInv, Next, NEW c \in Callers,
                        call[c].op = "start", call'[c].op = "notify",
                        call[c].base # 0, call[c].period # 0
                 PROVE  Ends(call[c].base, call[c].period, call[c].now,
                             expire'[call[c].timer])
      BY Zenon DEF Step, Ends
    <2>1. call' # call
      BY Zenon
    <2>2. PICK d \in Callers : Begin(d) \/ Syscall(d)
      <3>1. Tick \/ QueueDestroy \/ TimerThread => UNCHANGED call
        BY Zenon DEF Tick, QueueDestroy, TimerThread, Wake, Turn,
               Check, CheckLocked, Sleep
      <3> QED  BY Zenon, <2>1, <3>1 DEF Next
    <2>3. PICK next : /\ call' = [call EXCEPT ![d] = next]
                      /\ next.op = "notify" => Start(d)
      BY Zenon, <2>2, BeginStep, SyscallStep DEF Proceeds
    <2>4. d = c
      <3> SUFFICES ASSUME d # c PROVE FALSE
        BY Zenon
      <3>1. call'[c] = call[c]
        BY Zenon, <2>3 DEF IInv
      <3> QED  BY Zenon, <3>1
    <2>5. Start(c)
      <3>1. call'[c] = next
        BY Zenon, <2>3, <2>4 DEF IInv
      <3> QED  BY Zenon, <2>3, <2>4, <3>1
    <2>6. expire' = [expire EXCEPT ![call[c].timer] =
                       FirstExpire(call[c].base, call[c].period, call[c].now)]
      <3>1. ~Do(c, Idle)
        <4>1. Do(c, Idle) => call'[c].op = "idle"
          BY DEF Do, Idle, IInv
        <4> QED  BY Zenon, <4>1
      <3> QED  BY Zenon, <2>5, <3>1 DEF Start
    <2>7. /\ call[c].timer \in Timers /\ call[c].now \in Nat
          /\ call[c].base \in 0..UMax /\ call[c].period \in 0..UMax
          /\ call[c].now < UMax
      <3>1. /\ call[c].timer \in Timers /\ call[c].now \in Nat /\ call[c].now <= clock
            /\ call[c].base \in 0..UMax /\ call[c].period \in 0..UMax
        BY Zenon DEF IInv, Requested
      <3>2. clock \in 0..(UMax - 1)
        BY Zenon, TimerAssumption DEF IInv, TypeOK
      <3>3. call[c].now < UMax
        BY <3>1, <3>2, TimerAssumption
      <3> QED  BY Zenon, <3>1, <3>3
    <2>8. expire'[call[c].timer] =
            FirstExpire(call[c].base, call[c].period, call[c].now)
      BY Zenon, <2>6, <2>7 DEF IInv, TypeOK
    <2> QED  BY Zenon, <2>7, <2>8, FirstIsAligned
  <1>2. Spec => [][Step]_vars
    BY <1>1, Invariance, PTL DEF Spec
  <1> QED  BY Zenon, <1>2 DEF StartAligned
=============================================================================
