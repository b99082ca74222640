-------------------------- MODULE TimerQueueProofs --------------------------
(***************************************************************************)
(* update_time() wakes nobody early, whatever the order of the list, and   *)
(* insert() and purge_timer() keep it the list of those that sleep: for    *)
(* any number of sleepers and any width of the clock.  With up to three    *)
(* sleepers they keep it in order, and nobody is late.                     *)
(***************************************************************************)
EXTENDS TimerQueue, FiniteSetTheorems, WellFoundedInduction, TLAPS

\* The range of the clock, and how far ahead of it times are.
LEMMA Sizes ==
  /\ Half \in Nat /\ Half >= 1 /\ Modulus = 2 * Half /\ Modulus \in Nat
  /\ Horizon \in Nat /\ Horizon < Half
  /\ \A d \in 1..MaxStep : d \in Nat /\ d < Modulus
BY TimerAssumption DEF Modulus

\* A sum or difference of two words goes round the clock once at most.
LEMMA WrapsOnce ==
  \A x \in Int : -Modulus <= x /\ x < 2 * Modulus =>
    x % Modulus = IF x < 0 THEN x + Modulus ELSE IF x < Modulus THEN x ELSE x - Modulus
BY Sizes

\* How far the time of a sleeper is ahead: that of the clock, the ticks it
\* still has to wait and the one that insert() adds, modulo the clock's range.
Shows(t, now, ticks) == \E k \in Int : t = now + ticks + 1 + k * Modulus

\* No sleeper waits longer than Horizon; how late it may be depends on the
\* order of the list and does not matter here.
Ahead ==
  \A p \in Proc : 
    /\ due[p] <= Awake
    /\ p \in Asleep => Shows(time[p], clock, due[p])

TimeInv ==
  /\ clock \in Word
  /\ time \in [Proc -> Word]
  /\ due \in [Proc -> Int]
  /\ Ahead

\* What is less than two turns of the clock shows as a word, short of it by a
\* turn or none.
LEMMA ShownAsWord ==
  \A s \in Int : 0 <= s /\ s < 2 * Modulus =>
    /\ s % Modulus \in Word
    /\ \E k \in {0, 1} : s % Modulus = s - k * Modulus
<1> SUFFICES ASSUME NEW s \in Int, 0 <= s, s < 2 * Modulus
             PROVE  /\ s % Modulus \in Word
                    /\ \E k \in {0, 1} : s % Modulus = s - k * Modulus
  OBVIOUS
<1>1. CASE s < Modulus
  <2>1. s % Modulus = s
    BY <1>1, WrapsOnce, Sizes
  <2>2. s % Modulus = s - 0 * Modulus
    BY <2>1, Sizes
  <2> QED BY <1>1, <2>1, <2>2, Sizes DEF Word
<1>2. CASE ~(s < Modulus)
  <2>1. s % Modulus = s - Modulus
    BY <1>2, WrapsOnce, Sizes
  <2>2. s % Modulus = s - 1 * Modulus
    BY <2>1, Sizes
  <2> QED BY <1>2, <2>1, <2>2, Sizes DEF Word
<1> QED BY <1>1, <1>2

\* So does a sum of a word and less than a turn.
LEMMA PlusShows ==
  ASSUME NEW x \in Word, NEW d \in Int, 0 <= d, d < Modulus
  PROVE  /\ Plus(x, d) \in Word
         /\ \E k \in {0, 1} : Plus(x, d) = x + d - k * Modulus
<1>1. x + d \in Int /\ 0 <= x + d /\ x + d < 2 * Modulus
  BY Sizes DEF Word
<1>2. PICK s \in Int : s = x + d
  BY <1>1
<1>3. /\ s % Modulus \in Word
      /\ \E k \in {0, 1} : s % Modulus = s - k * Modulus
  BY <1>1, <1>2, ShownAsWord
<1>4. Plus(x, d) = s % Modulus
  BY <1>2 DEF Plus
<1>5. PICK k \in {0, 1} : s % Modulus = s - k * Modulus
  BY <1>3
<1>6. Plus(x, d) = x + d - k * Modulus
  BY <1>2, <1>4, <1>5, Sizes DEF Word
<1> QED BY <1>3, <1>4, <1>6

\* A time the clock has passed, by less than half a turn, was not ahead.
LEMMA PassedIsDue ==
  ASSUME NEW t \in Word, NEW now \in Word, NEW ticks \in Int, ticks <= Horizon,
         Shows(t, now, ticks), After(now, t)
  PROVE  ticks < 0
<1> SUFFICES ASSUME ticks >= 0 PROVE FALSE
  OBVIOUS
<1>1. /\ t \in Int /\ 0 <= t /\ t < Modulus
      /\ now \in Int /\ 0 <= now /\ now < Modulus
  BY Sizes DEF Word
<1>2. PICK k \in Int : t = now + ticks + 1 + k * Modulus
  BY DEF Shows
<1>3. k = 0 \/ k = -1
  <2>1. k >= 1 => k * Modulus >= Modulus
    BY Sizes
  <2>2. k <= -2 => k * Modulus <= -2 * Modulus
    BY Sizes
  <2>3. k * Modulus \in Int /\ k * Modulus < Modulus /\ k * Modulus > -2 * Modulus
    BY <1>1, <1>2, Sizes
  <2> QED BY <2>1, <2>2, <2>3, Sizes
<1>4. now - t = -(ticks + 1) \/ now - t = Modulus - (ticks + 1)
  BY <1>1, <1>2, <1>3, Sizes
<1>5. (now - t) % Modulus = Modulus - (ticks + 1)
  <2>1. CASE now - t = -(ticks + 1)
    <3>1. now - t \in Int /\ -Modulus <= now - t /\ now - t < 2 * Modulus /\ now - t < 0
      BY <1>1, <2>1, Sizes
    <3>2. (now - t) % Modulus = now - t + Modulus
      BY <3>1, WrapsOnce, Zenon
    <3> QED BY <1>1, <2>1, <3>2, Sizes
  <2>2. CASE now - t = Modulus - (ticks + 1)
    <3>1. /\ now - t \in Int /\ -Modulus <= now - t /\ now - t < 2 * Modulus
          /\ ~(now - t < 0) /\ now - t < Modulus
      BY <1>1, <2>2, Sizes
    <3>2. (now - t) % Modulus = now - t
      BY <3>1, WrapsOnce, Zenon
    <3> QED BY <2>2, <3>2
  <2> QED BY <1>4, <2>1, <2>2
<1>6. Modulus - (ticks + 1) >= Half
  BY Sizes
<1> QED BY <1>5, <1>6, Sizes DEF After

-----------------------------------------------------------------------------
(* The steps.                                                              *)

\* insert() writes the time of the process it queues, and no other.
LEMMA InsertTime ==
  ASSUME NEW p, NEW t, Insert(p, t)
  PROVE  time' = [time EXCEPT ![p] = Plus(t, 1)]
BY DEF Insert

\* tin: the time written is that asked for and one tick.
LEMMA TinTimeInv ==
  ASSUME TimeInv, NEW p \in Proc, NEW delay \in 0..Horizon, Tin(p, delay)
  PROVE  TimeInv'
<1> DEFINE t == Plus(clock, delay)
<1>1. /\ clock' = clock
      /\ due' = [due EXCEPT ![p] = delay]
      /\ time' = [time EXCEPT ![p] = Plus(t, 1)]
  BY InsertTime DEF Tin
<1>2. delay \in Int /\ 0 <= delay /\ delay <= Horizon
  BY Sizes
<1>3. t \in Word /\ \E k \in {0, 1} : t = clock + delay - k * Modulus
  <2>1. clock \in Word /\ delay < Modulus
    BY <1>2, Sizes DEF TimeInv
  <2> QED BY <1>2, <2>1, PlusShows, Zenon
<1>4. Plus(t, 1) \in Word /\ \E k \in {0, 1} : Plus(t, 1) = t + 1 - k * Modulus
  <2>1. 1 \in Int /\ 0 <= 1 /\ 1 < Modulus
    BY Sizes
  <2> QED BY <1>3, <2>1, PlusShows, Zenon
<1>5. Shows(Plus(t, 1), clock, delay)
  <2>1. PICK k \in {0, 1} : t = clock + delay - k * Modulus
    BY <1>3
  <2>2. PICK m \in {0, 1} : Plus(t, 1) = t + 1 - m * Modulus
    BY <1>4
  <2> HIDE DEF t
  <2>3. clock \in Int
    BY Sizes DEF TimeInv, Word
  <2>4. Plus(t, 1) = clock + delay + 1 + (-(k + m)) * Modulus
    BY <1>2, <2>1, <2>2, <2>3, Sizes
  <2>5. -(k + m) \in Int
    OBVIOUS
  <2> QED BY <2>4, <2>5 DEF Shows
<1> HIDE DEF t
<1>6. time' \in [Proc -> Word] /\ due' \in [Proc -> Int] /\ clock' \in Word
  BY <1>1, <1>2, <1>4 DEF TimeInv
<1>7. ASSUME NEW q \in Proc
      PROVE  due'[q] <= Awake /\ (q \in Asleep' => Shows(time'[q], clock', due'[q]))
  <2>1. CASE q = p
    <3>1. due'[q] = delay /\ time'[q] = Plus(t, 1)
      BY <1>1, <2>1 DEF TimeInv
    <3>2. delay <= Awake
      BY <1>2, Sizes DEF Awake
    <3> QED BY <1>1, <1>5, <3>1, <3>2
  <2>2. CASE q # p
    <3>1. due'[q] = due[q] /\ time'[q] = time[q]
      BY <1>1, <2>2 DEF TimeInv
    <3> QED BY <1>1, <3>1 DEF TimeInv, Ahead, Asleep
  <2> QED BY <2>1, <2>2
<1> QED BY <1>6, <1>7 DEF TimeInv, Ahead, Awake

\* The clock goes on by as much as everybody's wait becomes shorter.
LEMMA TickTimeInv ==
  ASSUME TimeInv, Tick
  PROVE  TimeInv'
<1>1. PICK d \in 1..MaxStep :
        /\ clock' = Plus(clock, d)
        /\ due' = [p \in Proc |-> IF p \in Asleep THEN due[p] - d ELSE Awake]
  BY DEF Tick
<1>2. time' = time
  BY DEF Tick, words
<1>3. d \in Int /\ 1 <= d /\ d < Modulus /\ Awake \in Int
  BY Sizes DEF Awake
<1>4. clock' \in Word /\ \E k \in {0, 1} : clock' = clock + d - k * Modulus
  BY <1>1, <1>3, PlusShows DEF TimeInv
<1>5. due' \in [Proc -> Int]
  BY <1>1, <1>3 DEF TimeInv
<1>6. ASSUME NEW q \in Proc
      PROVE  due'[q] <= Awake /\ (q \in Asleep' => Shows(time'[q], clock', due'[q]))
  <2>1. CASE q \in Asleep
    <3>1. due'[q] = due[q] - d /\ due[q] \in Int /\ due[q] <= Awake
      BY <1>1, <2>1 DEF TimeInv, Ahead
    <3>2. PICK k \in Int : time[q] = clock + due[q] + 1 + k * Modulus
      BY <2>1 DEF TimeInv, Ahead, Shows
    <3>3. PICK m \in {0, 1} : clock' = clock + d - m * Modulus
      BY <1>4
    <3>4. clock \in Int /\ clock' \in Int
      BY <1>4, Sizes DEF TimeInv, Word
    <3>5. time[q] = clock' + (due[q] - d) + 1 + (k + m) * Modulus
      BY <1>3, <3>1, <3>2, <3>3, <3>4, Sizes
    <3>6. k + m \in Int
      OBVIOUS
    <3>7. Shows(time'[q], clock', due'[q])
      BY <1>2, <3>1, <3>5, <3>6 DEF Shows
    <3> QED BY <1>3, <3>1, <3>7
  <2>2. CASE q \notin Asleep
    BY <1>1, <1>3, <2>2 DEF Asleep
  <2> QED BY <2>1, <2>2
<1> QED BY <1>2, <1>4, <1>5, <1>6 DEF TimeInv, Ahead, Awake

\* purge_timer() and the wake-up only take someone out.
LEMMA AwakeTimeInv ==
  ASSUME TimeInv, NEW p, due' = [due EXCEPT ![p] = Awake], UNCHANGED <<clock, time>>
  PROVE  TimeInv'
<1>1. Awake \in Int
  BY Sizes DEF Awake
<1>2. due' \in [Proc -> Int]
  BY <1>1 DEF TimeInv
<1>3. ASSUME NEW q \in Proc
      PROVE  due'[q] <= Awake /\ (q \in Asleep' => Shows(time'[q], clock', due'[q]))
  <2>1. CASE q = p
    BY <1>1, <2>1 DEF TimeInv, Asleep, Awake
  <2>2. CASE q # p
    BY <2>2 DEF TimeInv, Ahead, Asleep
  <2> QED BY <2>1, <2>2
<1> QED BY <1>2, <1>3 DEF TimeInv, Ahead, Awake

-----------------------------------------------------------------------------
(* Nobody is woken early.                                                  *)

\* The invariant: Time_s of each sleeper is one tick after the time it asked
\* for in tin, which is at most Horizon ahead of ClockReg.
THEOREM Invariance == Spec => []TimeInv
<1>1. Init => TimeInv
  <2> SUFFICES ASSUME Init PROVE TimeInv
    OBVIOUS
  <2>1. 0 \in Word /\ Awake \in Int
    BY Sizes DEF Word, Awake
  <2>2. clock \in Word /\ time \in [Proc -> Word] /\ due \in [Proc -> Int]
    BY <2>1 DEF Init
  <2>3. \A p \in Proc : due[p] = Awake
    BY DEF Init
  <2> QED BY <2>1, <2>2, <2>3 DEF TimeInv, Ahead, Asleep
<1>2. TimeInv /\ [Next]_vars => TimeInv'
  <2> SUFFICES ASSUME TimeInv, [Next]_vars PROVE TimeInv'
    OBVIOUS
  <2>1. CASE Tick
    BY <2>1, TickTimeInv
  <2>2. CASE Wake
    BY <2>2, AwakeTimeInv DEF Wake
  <2>3. CASE Resume
    BY <2>3 DEF Resume, words, TimeInv, Ahead, Asleep
  <2>4. ASSUME NEW p \in Proc, Purge(p) PROVE TimeInv'
    BY <2>4, AwakeTimeInv DEF Purge
  <2>5. ASSUME NEW p \in Proc, NEW delay \in 0..Horizon, Tin(p, delay) PROVE TimeInv'
    BY <2>5, TinTimeInv
  <2>6. CASE UNCHANGED vars
    BY <2>6 DEF vars, TimeInv, Ahead, Asleep
  <2> QED BY <2>1, <2>2, <2>3, <2>4, <2>5, <2>6 DEF Next
<1> QED BY <1>1, <1>2, PTL DEF Spec

\* update_time() wakes nobody before the time they asked for in tin: also
\* where the list is out of order, the clock wraps, or it moved by many ticks.
THEOREM NobodyIsWokenEarly == Spec => NeverEarly
<1>1. TimeInv /\ [Next]_vars =>
        [pc = "wake" => \A p \in Asleep : due'[p] = Awake => due[p] < 0]_vars
  <2> SUFFICES ASSUME TimeInv, Next, pc = "wake",
                      NEW p \in Asleep, due'[p] = Awake
               PROVE  due[p] < 0
    OBVIOUS
  <2>1. p \in Proc /\ due[p] # Awake
    BY DEF Asleep
  <2>2. CASE Wake
    <3>1. p = head
      BY <2>1, <2>2 DEF Wake, TimeInv
    <3>2. After(clock, time[p])
      BY <2>2, <3>1 DEF Wake, Expired
    <3>3. due[p] \in Int /\ due[p] <= Horizon
      BY <2>1, Sizes DEF TimeInv, Ahead, Awake
    <3> QED BY <2>1, <3>2, <3>3, PassedIsDue DEF TimeInv, Ahead
  <2>3. CASE Resume
    BY <2>1, <2>3 DEF Resume
  <2> QED BY <2>2, <2>3 DEF Next, Tick, Purge, Tin
<1> QED BY <1>1, Invariance, PTL DEF Spec, NeverEarly

-----------------------------------------------------------------------------
(* Lists.                                                                  *)

\* Induction, over the numbers in a set.
LEMMA SetInduction ==
  ASSUME NEW P, 0 \in P, \A n \in Nat : n \in P => n + 1 \in P
  PROVE  Nat \subseteq P
<1> DEFINE R == {ss \in Nat \X Nat : ss[1] < ss[2]}
           B == Nat \ P
<1>1. IsWellFoundedOn(R, Nat)
  BY NatLessThanWellFounded DEF OpToRel
<1>2. \A x, y \in Nat : <<x, y>> \in R <=> x < y
  OBVIOUS
<1> SUFFICES ASSUME B # {} PROVE FALSE
  OBVIOUS
<1>3. PICK m \in B : \A y \in B : ~(<<y, m>> \in R)
  <2> HIDE DEF R
  <2> QED BY <1>1, WFMin
<1>4. m \in Nat /\ m \notin P /\ m # 0
  BY <1>3
<1>5. m - 1 \in Nat /\ m - 1 < m
  BY <1>4
<1>6. m - 1 \in P
  BY <1>2, <1>3, <1>5
<1>7. m - 1 + 1 = m
  BY <1>4
<1> QED BY <1>4, <1>5, <1>6, <1>7

\* f is a at 0 and goes on, up to N, by step.
GoesOn(f, N, S, a, step) ==
  /\ f \in [0..N -> S] /\ f[0] = a
  /\ \A n \in 1..N : f[n] = step[f[n - 1]]

\* A function that is defined by what it is at 0 and by a step exists.
LEMMA Recursion ==
  ASSUME NEW N \in Nat, NEW S, NEW a \in S, NEW step \in [S -> S]
  PROVE  \E f : GoesOn(f, N, S, a, step)
<1> DEFINE P == {m \in Nat : \E f \in [0..m -> S] :
                   f[0] = a /\ \A n \in 1..m : f[n] = step[f[n - 1]]}
<1>1. 0 \in P
  <2> DEFINE f == [n \in 0..0 |-> a]
  <2>1. f \in [0..0 -> S] /\ f[0] = a
    OBVIOUS
  <2>2. 1..0 = {}
    OBVIOUS
  <2> QED BY <2>1, <2>2
<1>2. ASSUME NEW m \in Nat, m \in P PROVE m + 1 \in P
  <2>1. PICK f \in [0..m -> S] : f[0] = a /\ \A n \in 1..m : f[n] = step[f[n - 1]]
    BY <1>2
  <2> DEFINE g == [n \in 0..(m + 1) |-> IF n <= m THEN f[n] ELSE step[f[m]]]
  <2>2. f[m] \in S /\ step[f[m]] \in S
    BY <2>1
  <2>3. g \in [0..(m + 1) -> S]
    BY <2>1, <2>2
  <2>4. g[0] = a
    BY <2>1
  <2>5. ASSUME NEW n \in 1..(m + 1) PROVE g[n] = step[g[n - 1]]
    BY <2>1
  <2> HIDE DEF g
  <2> QED BY <2>3, <2>4, <2>5
<1>3. Nat \subseteq P
  <2> HIDE DEF P
  <2> QED BY <1>1, <1>2, SetInduction
<1>4. \E f \in [0..N -> S] : f[0] = a /\ \A n \in 1..N : f[n] = step[f[n - 1]]
  BY <1>3
<1> QED BY <1>4 DEF GoesOn

\* L lists the n members of S in the order in which h and link connect them.
Path(L, n, h, link, S) ==
  /\ n \in Nat /\ L \in [Nat -> Proc \cup {NoProc}] /\ S \subseteq Proc
  /\ L[0] = h /\ L[n] = NoProc
  /\ \A i \in 0..(n - 1) : L[i] \in S /\ link[L[i]] = L[i + 1]
  /\ \A i, j \in 0..(n - 1) : L[i] = L[j] => i = j
  /\ \A p \in S : \E i \in 0..(n - 1) : L[i] = p

\* Links are written that it does not use.
LEMMA PathSame ==
  ASSUME NEW L, NEW n, NEW h, NEW link, NEW S, Path(L, n, h, link, S),
         NEW link2, \A q \in S : link2[q] = link[q]
  PROVE  Path(L, n, h, link2, S)
BY DEF Path

\* With h2 and link2 in the place of h and link, p stands at place k of L.
PutIn(p, L, n, k, h, link, h2, link2) ==
  /\ k \in 0..n /\ link2[p] = L[k]
  /\ \A i \in 0..(n - 1) : link2[L[i]] = IF i + 1 = k THEN p ELSE link[L[i]]
  /\ h2 = IF k = 0 THEN p ELSE h

\* Then there is a list with p at that place.
LEMMA PathInsert ==
  ASSUME NEW L, NEW n, NEW h, NEW link, NEW S, Path(L, n, h, link, S),
         NEW k, NEW p \in Proc, p \notin S, NEW link2, NEW h2,
         PutIn(p, L, n, k, h, link, h2, link2)
  PROVE  \E M : Path(M, n + 1, h2, link2, S \cup {p})
<1> DEFINE M == [i \in Nat |-> IF i < k THEN L[i] ELSE IF i = k THEN p ELSE L[i - 1]]
<1>2. /\ n \in Nat /\ L \in [Nat -> Proc \cup {NoProc}] /\ S \subseteq Proc
      /\ L[0] = h /\ L[n] = NoProc
      /\ \A i \in 0..(n - 1) : L[i] \in S /\ link[L[i]] = L[i + 1]
      /\ \A i, j \in 0..(n - 1) : L[i] = L[j] => i = j
      /\ \A q \in S : \E i \in 0..(n - 1) : L[i] = q
  BY DEF Path
<1>1. /\ k \in 0..n /\ link2[p] = L[k]
      /\ \A i \in 0..(n - 1) : link2[L[i]] = IF i + 1 = k THEN p ELSE link[L[i]]
      /\ h2 = IF k = 0 THEN p ELSE h
  BY DEF PutIn
<1>3. k \in Nat /\ k <= n
  BY <1>1, <1>2
<1>4. M \in [Nat -> Proc \cup {NoProc}]
  <2>1. ASSUME NEW i \in Nat PROVE (IF i < k THEN L[i] ELSE IF i = k THEN p ELSE L[i - 1]) \in Proc \cup {NoProc}
    <3>1. i < k \/ i = k \/ i - 1 \in Nat
      BY <1>3
    <3> QED BY <1>2, <3>1
  <2> QED BY <2>1
<1>5. /\ \A i \in Nat : i < k => M[i] = L[i]
      /\ M[k] = p
      /\ \A i \in Nat : i > k => M[i] = L[i - 1]
  BY <1>3
<1> HIDE DEF M
<1>6. M[0] = h2 /\ M[n + 1] = NoProc /\ n + 1 \in Nat
  BY <1>1, <1>2, <1>3, <1>5
<1>7. ASSUME NEW i \in 0..n PROVE M[i] \in S \cup {p} /\ link2[M[i]] = M[i + 1]
  <2>1. CASE i < k
    <3>1. i \in 0..(n - 1) /\ i \in Nat /\ i + 1 \in Nat
      BY <1>2, <1>3, <2>1
    <3>2. M[i] = L[i] /\ link2[M[i]] = IF i + 1 = k THEN p ELSE L[i + 1]
      BY <1>1, <1>2, <1>5, <2>1, <3>1
    <3>3. M[i + 1] = IF i + 1 = k THEN p ELSE L[i + 1]
      BY <1>3, <1>5, <2>1, <3>1
    <3> QED BY <1>2, <3>1, <3>2, <3>3
  <2>2. CASE i = k
    <3>1. M[i + 1] = L[k]
      BY <1>3, <1>5, <2>2
    <3> QED BY <1>1, <1>5, <2>2, <3>1
  <2>3. CASE i > k
    <3>1. i - 1 \in 0..(n - 1) /\ i \in Nat /\ i + 1 \in Nat /\ i - 1 + 1 = i /\ i # k /\ i + 1 - 1 = i
      BY <1>2, <1>3, <2>3
    <3>2. M[i] = L[i - 1] /\ M[i + 1] = L[i]
      BY <1>3, <1>5, <2>3, <3>1
    <3>3. link2[L[i - 1]] = link[L[i - 1]] /\ link[L[i - 1]] = L[i]
      BY <1>1, <1>2, <3>1
    <3> QED BY <1>2, <3>1, <3>2, <3>3
  <2> QED BY <1>3, <2>1, <2>2, <2>3
<1>8. ASSUME NEW i \in 0..n, NEW j \in 0..n, M[i] = M[j] PROVE i = j
  <2>1. ASSUME NEW m \in 0..n, m # k
        PROVE  \E x \in 0..(n - 1) : M[m] = L[x] /\ x = IF m < k THEN m ELSE m - 1
    BY <1>2, <1>3, <1>5, <2>1
  <2>2. ASSUME NEW m \in 0..n, m # k PROVE M[m] # p
    BY <1>2, <2>1, <2>2
  <2>3. CASE i = k \/ j = k
    BY <1>5, <1>8, <2>2, <2>3
  <2>4. CASE i # k /\ j # k
    <3>1. PICK x \in 0..(n - 1) : M[i] = L[x] /\ x = IF i < k THEN i ELSE i - 1
      BY <2>1, <2>4
    <3>2. PICK y \in 0..(n - 1) : M[j] = L[y] /\ y = IF j < k THEN j ELSE j - 1
      BY <2>1, <2>4
    <3>3. L[x] = L[y]
      BY <1>8, <3>1, <3>2
    <3>4. x = y
      BY <1>2, <3>3
    <3> QED BY <1>2, <1>3, <2>4, <3>1, <3>2, <3>4
  <2> QED BY <2>3, <2>4
<1>9. ASSUME NEW q \in S \cup {p} PROVE \E i \in 0..n : M[i] = q
  <2>1. CASE q = p
    BY <1>2, <1>3, <1>5, <2>1
  <2>2. CASE q \in S
    <3>1. PICK x \in 0..(n - 1) : L[x] = q
      BY <1>2, <2>2
    <3>2. CASE x < k
      BY <1>2, <1>5, <3>1, <3>2
    <3>3. CASE x >= k
      <4>1. x + 1 \in 0..n /\ x + 1 \in Nat /\ x + 1 > k /\ x + 1 - 1 = x
        BY <1>2, <1>3, <3>3
      <4> QED BY <1>5, <3>1, <4>1
    <3> QED BY <1>3, <3>2, <3>3
  <2> QED BY <2>1, <2>2
<1>10. n + 1 - 1 = n
  BY <1>2
<1> QED BY <1>2, <1>4, <1>6, <1>7, <1>8, <1>9, <1>10 DEF Path

\* The link before place k goes past it: the list without who stands there.
LEMMA PathRemove ==
  ASSUME NEW L, NEW n, NEW h, NEW link, NEW S, Path(L, n, h, link, S),
         NEW k \in 0..(n - 1), NEW link2,
         \A i \in 0..(n - 1) : i # k => link2[L[i]] = IF i + 1 = k THEN link[L[k]] ELSE link[L[i]],
         NEW h2, h2 = IF k = 0 THEN link[h] ELSE h
  PROVE  \E M : Path(M, n - 1, h2, link2, S \ {L[k]})
<1> DEFINE M == [i \in Nat |-> IF i < k THEN L[i] ELSE L[i + 1]]
<1>1. /\ n \in Nat /\ L \in [Nat -> Proc \cup {NoProc}] /\ S \subseteq Proc
      /\ L[0] = h /\ L[n] = NoProc
      /\ \A i \in 0..(n - 1) : L[i] \in S /\ link[L[i]] = L[i + 1]
      /\ \A i, j \in 0..(n - 1) : L[i] = L[j] => i = j
      /\ \A q \in S : \E i \in 0..(n - 1) : L[i] = q
  BY DEF Path
<1>2. k \in Nat /\ k < n /\ n - 1 \in Nat /\ n - 1 + 1 = n
  BY <1>1
<1>3. M \in [Nat -> Proc \cup {NoProc}]
  <2>1. \A i \in Nat : i + 1 \in Nat
    OBVIOUS
  <2> QED BY <1>1, <2>1
<1>4. /\ \A i \in Nat : i < k => M[i] = L[i]
      /\ \A i \in Nat : i >= k => M[i] = L[i + 1]
  BY <1>2
<1> HIDE DEF M
<1>5. M[0] = h2 /\ M[n - 1] = NoProc
  <2>1. M[n - 1] = L[n]
    BY <1>2, <1>4
  <2>2. CASE k = 0
    <3>1. M[0] = L[0 + 1] /\ link[L[0]] = L[0 + 1]
      BY <1>1, <1>4, <2>2
    <3> QED BY <1>1, <2>1, <2>2, <3>1
  <2>3. CASE k # 0
    BY <1>1, <1>2, <1>4, <2>1, <2>3
  <2> QED BY <2>2, <2>3
<1>6. ASSUME NEW i \in 0..(n - 2) PROVE M[i] \in S \ {L[k]} /\ link2[M[i]] = M[i + 1]
  <2>1. CASE i < k
    <3>1. i \in 0..(n - 1) /\ i \in Nat /\ i + 1 \in Nat /\ i # k
      BY <1>1, <1>2, <2>1
    <3>2. M[i] = L[i] /\ link2[L[i]] = IF i + 1 = k THEN link[L[k]] ELSE link[L[i]]
      BY <1>4, <2>1, <3>1
    <3>3. M[i + 1] = IF i + 1 = k THEN L[k + 1] ELSE L[i + 1]
      BY <1>2, <1>4, <2>1, <3>1
    <3>4. link[L[i]] = L[i + 1] /\ link[L[k]] = L[k + 1] /\ L[i] # L[k] /\ L[i] \in S
      BY <1>1, <3>1
    <3> QED BY <3>2, <3>3, <3>4
  <2>2. CASE i >= k
    <3>1. i + 1 \in 0..(n - 1) /\ i \in Nat /\ i + 1 \in Nat /\ i + 1 # k /\ i + 1 + 1 # k /\ i + 1 >= k
      BY <1>1, <1>2, <2>2
    <3>2. M[i] = L[i + 1] /\ M[i + 1] = L[i + 1 + 1] /\ link2[L[i + 1]] = link[L[i + 1]]
      BY <1>4, <2>2, <3>1
    <3>3. link[L[i + 1]] = L[i + 1 + 1] /\ L[i + 1] # L[k] /\ L[i + 1] \in S
      BY <1>1, <3>1
    <3> QED BY <3>2, <3>3
  <2> QED BY <1>2, <2>1, <2>2
<1>7. ASSUME NEW i \in 0..(n - 2), NEW j \in 0..(n - 2), M[i] = M[j] PROVE i = j
  <2>1. ASSUME NEW m \in 0..(n - 2)
        PROVE  \E x \in 0..(n - 1) : M[m] = L[x] /\ x = IF m < k THEN m ELSE m + 1
    BY <1>1, <1>2, <1>4
  <2>2. PICK x \in 0..(n - 1) : M[i] = L[x] /\ x = IF i < k THEN i ELSE i + 1
    BY <2>1
  <2>3. PICK y \in 0..(n - 1) : M[j] = L[y] /\ y = IF j < k THEN j ELSE j + 1
    BY <2>1
  <2>4. L[x] = L[y]
    BY <1>7, <2>2, <2>3
  <2>5. x = y
    BY <1>1, <2>4
  <2> QED BY <1>1, <1>2, <2>2, <2>3, <2>5
<1>8. ASSUME NEW q \in S \ {L[k]} PROVE \E i \in 0..(n - 2) : M[i] = q
  <2>1. PICK x \in 0..(n - 1) : L[x] = q
    BY <1>1
  <2>2. CASE x < k
    BY <1>1, <1>2, <1>4, <2>1, <2>2
  <2>3. CASE x > k
    <3>1. x - 1 \in 0..(n - 2) /\ x - 1 \in Nat /\ x - 1 >= k /\ x - 1 + 1 = x
      BY <1>1, <1>2, <2>3
    <3> QED BY <1>4, <2>1, <3>1
  <2> QED BY <1>2, <2>1, <2>2, <2>3
<1>9. n - 1 - 1 = n - 2
  BY <1>1
<1> QED BY <1>1, <1>2, <1>3, <1>5, <1>6, <1>7, <1>8, <1>9 DEF Path


\* The members of a set that is listed are as many as the list is long.
LEMMA PathCounts ==
  ASSUME NEW L, NEW n, NEW h, NEW link, NEW S, Path(L, n, h, link, S)
  PROVE  /\ Cardinality(S) = n
         /\ Cardinality(Proc) \in Nat /\ n <= Cardinality(Proc)
<1> DEFINE f == [i \in 0..(n - 1) |-> L[i]]
<1>1. n \in Nat /\ S \in SUBSET Proc
  BY DEF Path
<1>2. f \in Bijection(0..(n - 1), S)
  <2>1. f \in [0..(n - 1) -> S]
    BY DEF Path
  <2>2. \A i, j \in 0..(n - 1) : f[i] = f[j] => i = j
    BY DEF Path
  <2>3. \A p \in S : \E i \in 0..(n - 1) : f[i] = p
    BY DEF Path
  <2> QED BY <2>1, <2>2, <2>3 DEF Bijection, Injection, Surjection, IsInjective
<1>3. IsFiniteSet(0..(n - 1)) /\ Cardinality(0..(n - 1)) = n
  <2>1. 0 \in Int /\ n - 1 \in Int
    BY <1>1
  <2>2. /\ IsFiniteSet(0..(n - 1))
        /\ Cardinality(0..(n - 1)) = IF 0 > n - 1 THEN 0 ELSE n - 1 - 0 + 1
    BY ONLY <2>1, FS_Interval
  <2> QED BY <1>1, <2>2
<1>4. ExistsBijection(0..(n - 1), S)
  BY <1>2 DEF ExistsBijection
<1>5. Cardinality(S) = n
  BY <1>3, <1>4, FS_Bijection
<1>6. IsFiniteSet(Proc)
  BY TimerAssumption
<1>7. Cardinality(S) <= Cardinality(Proc)
  BY <1>1, <1>6, FS_Subset
<1>8. Cardinality(Proc) \in Nat
  BY <1>6, FS_CardinalityType
<1> QED BY <1>5, <1>7, <1>8

-----------------------------------------------------------------------------
(* The walks along the list.                                               *)

LinkType == tlink \in [Proc -> Proc \cup {NoProc}]

\* Nth follows the links from the head.
LEMMA NthFollows ==
  ASSUME LinkType, head \in Proc \cup {NoProc}, Cardinality(Proc) \in Nat
  PROVE  /\ Nth[0] = head
         /\ \A i \in 1..Cardinality(Proc) :
              Nth[i] = IF Nth[i - 1] = NoProc THEN NoProc ELSE tlink[Nth[i - 1]]
<1> DEFINE N == Cardinality(Proc)
           step == [q \in Proc \cup {NoProc} |-> IF q = NoProc THEN NoProc ELSE tlink[q]]
           F(f) == [n \in 0..N |->
                      IF n = 0 THEN head ELSE IF f[n - 1] = NoProc THEN NoProc ELSE tlink[f[n - 1]]]
<1>1. step \in [Proc \cup {NoProc} -> Proc \cup {NoProc}]
  BY TimerAssumption DEF LinkType
<1>2. PICK f \in [0..N -> Proc \cup {NoProc}] :
        f[0] = head /\ \A n \in 1..N : f[n] = step[f[n - 1]]
  <2>1. head \in Proc \cup {NoProc} /\ N \in Nat
    OBVIOUS
  <2>2. \E f : GoesOn(f, N, Proc \cup {NoProc}, head, step)
    <3> HIDE DEF N, step
    <3> QED BY <1>1, <2>1, Recursion
  <2> HIDE DEF step
  <2> QED BY <2>2 DEF GoesOn
<1>3. f = F(f)
  <2>1. ASSUME NEW n \in 0..N PROVE f[n] = F(f)[n]
    <3>1. CASE n = 0
      BY <1>2, <3>1
    <3>2. CASE n # 0
      <4>1. n \in 1..N /\ n - 1 \in 0..N
        BY <3>2
      <4>2. f[n] = step[f[n - 1]] /\ f[n - 1] \in Proc \cup {NoProc}
        BY <1>2, <4>1
      <4> QED BY <3>2, <4>2
    <3> QED BY <3>1, <3>2
  <2> QED BY <1>2, <2>1
<1>4. Nth = CHOOSE g : g = F(g)
  BY DEF Nth
<1>5. Nth = F(Nth)
  <2> HIDE DEF F
  <2> QED BY <1>3, <1>4
<1>6. 0 \in 0..N /\ \A i \in 1..N : i \in 0..N /\ i # 0
  OBVIOUS
<1>7. Nth[0] = F(Nth)[0] /\ \A i \in 1..N : Nth[i] = F(Nth)[i]
  BY <1>5
<1> QED BY <1>6, <1>7

\* So it finds the processes of the list.
LEMMA NthLists ==
  ASSUME LinkType, NEW L, NEW n, NEW S, Path(L, n, head, tlink, S)
  PROVE  \A i \in 0..n : Nth[i] = L[i]
<1> DEFINE P == {i \in Nat : i <= n => Nth[i] = L[i]}
<1>1. /\ n \in Nat /\ n <= Cardinality(Proc) /\ Cardinality(Proc) \in Nat
  <2>1. n \in Nat
    BY DEF Path
  <2> QED BY <2>1, PathCounts
<1>2. /\ L \in [Nat -> Proc \cup {NoProc}] /\ S \subseteq Proc /\ L[0] = head
      /\ \A i \in 0..(n - 1) : L[i] \in S /\ tlink[L[i]] = L[i + 1]
  BY DEF Path
<1>3. head \in Proc \cup {NoProc}
  BY <1>2
<1>4. 0 \in P
  BY <1>1, <1>2, <1>3, NthFollows
<1>5. ASSUME NEW i \in Nat, i \in P PROVE i + 1 \in P
  <2> SUFFICES ASSUME i + 1 <= n PROVE Nth[i + 1] = L[i + 1]
    OBVIOUS
  <2>1. i \in 0..(n - 1) /\ i + 1 \in 1..Cardinality(Proc) /\ i + 1 - 1 = i /\ i <= n
    BY <1>1
  <2>2. Nth[i] = L[i]
    BY <1>5, <2>1
  <2>3. Nth[i + 1] = IF Nth[i] = NoProc THEN NoProc ELSE tlink[Nth[i]]
    BY <1>1, <1>3, <2>1, NthFollows
  <2>4. L[i] # NoProc
    BY <1>2, <2>1, TimerAssumption
  <2> QED BY <1>2, <2>1, <2>2, <2>3, <2>4
<1>6. Nat \subseteq P
  <2> HIDE DEF P
  <2> QED BY <1>4, <1>5, SetInduction
<1> QED BY <1>1, <1>6


\* What insert() carries round its loop: two neighbours of the list and the
\* time that it compares.
Walker == [ptr : Proc, next : Proc \cup {NoProc}, seen : Word]

OneRound(t, w) ==
  IF After(t, w.seen) /\ w.next # NoProc
  THEN [ptr |-> w.next, next |-> tlink[w.next],
        seen |-> IF tlink[w.next] = NoProc THEN w.seen ELSE time[w.next]]
  ELSE w

FirstRound(p) ==
  [ptr |-> p, next |-> tlink[p], seen |-> time[IF tlink[p] = NoProc THEN p ELSE tlink[p]]]

\* The rounds that insert() makes, as many as there are processes.
Rounds(t, G) ==
  /\ \A m \in 0..Cardinality(Proc) : G[m] \in Walker
  /\ G[0] = FirstRound(head)
  /\ \A m \in 1..Cardinality(Proc) : G[m] = OneRound(t, G[m - 1])
  /\ Walk(head, t) = G[Cardinality(Proc)]

\* insert() makes them.
LEMMA WalkRounds ==
  ASSUME LinkType, time \in [Proc -> Word], head \in Proc, NEW t
  PROVE  \E G : Rounds(t, G)
<1> DEFINE N == Cardinality(Proc)
           step == [w \in Walker |-> OneRound(t, w)]
           F(f) == [m \in 0..N |-> IF m = 0 THEN FirstRound(head) ELSE OneRound(t, f[m - 1])]
           G == CHOOSE g : g = F(g)
<1>1. N \in Nat
  BY FS_CardinalityType, TimerAssumption
<1>2. \A q \in Proc : tlink[q] \in Proc \cup {NoProc} /\ time[q] \in Word
  BY DEF LinkType
<1>3. FirstRound(head) \in Walker
  BY <1>2 DEF FirstRound, Walker
<1>4. ASSUME NEW w \in Walker PROVE OneRound(t, w) \in Walker
  <2>1. w.ptr \in Proc /\ w.next \in Proc \cup {NoProc} /\ w.seen \in Word
    BY DEF Walker
  <2> QED BY <1>2, <2>1 DEF OneRound, Walker
<1>5. PICK f : GoesOn(f, N, Walker, FirstRound(head), step)
  <2>1. step \in [Walker -> Walker]
    BY <1>4
  <2> HIDE DEF N, step
  <2> QED BY <1>1, <1>3, <2>1, Recursion
<1>6. f = F(f)
  <2>1. f \in [0..N -> Walker] /\ f[0] = FirstRound(head) /\ \A m \in 1..N : f[m] = step[f[m - 1]]
    BY <1>5 DEF GoesOn
  <2>2. ASSUME NEW m \in 0..N PROVE f[m] = F(f)[m]
    <3>1. CASE m = 0
      BY <2>1, <3>1
    <3>2. CASE m # 0
      <4>1. m \in 1..N /\ m - 1 \in 0..N
        BY <1>1, <3>2
      <4>2. f[m] = step[f[m - 1]] /\ f[m - 1] \in Walker
        BY <2>1, <4>1
      <4>3. f[m] = OneRound(t, f[m - 1])
        BY <4>2
      <4> QED BY <3>2, <4>3
    <3> QED BY <3>1, <3>2
  <2> QED BY <2>1, <2>2
<1>7. Walk(head, t) = G[N]
  BY DEF Walk, OneRound, FirstRound
<1>8. G = F(G)
  <2> HIDE DEF F
  <2> QED BY <1>6
<1> HIDE DEF G
<1>9. G[0] = FirstRound(head) /\ \A m \in 1..N : G[m] = OneRound(t, G[m - 1])
  <2>1. 0 \in 0..N /\ \A m \in 1..N : m \in 0..N /\ m # 0
    BY <1>1
  <2>2. G[0] = F(G)[0] /\ \A m \in 1..N : G[m] = F(G)[m]
    BY <1>8
  <2> QED BY <2>1, <2>2
<1> HIDE DEF F
<1> DEFINE P == {m \in Nat : m <= N => G[m] \in Walker}
<1>10. 0 \in P
  BY <1>3, <1>9
<1>11. ASSUME NEW m \in Nat, m \in P PROVE m + 1 \in P
  <2> SUFFICES ASSUME m + 1 <= N PROVE G[m + 1] \in Walker
    OBVIOUS
  <2>1. m + 1 \in 1..N /\ m + 1 - 1 = m /\ m <= N
    BY <1>1
  <2> QED BY <1>4, <1>9, <1>11, <2>1
<1>12. Nat \subseteq P
  <2> HIDE DEF P
  <2> QED BY <1>10, <1>11, SetInduction
<1>13. \A m \in 0..N : G[m] \in Walker
  BY <1>1, <1>12
<1> QED BY <1>7, <1>9, <1>13 DEF Rounds

\* insert() stops at a process of the list, or past its last one: ptr and
\* nextptr are neighbours.
LEMMA WalkStops ==
  ASSUME LinkType, time \in [Proc -> Word], NEW t,
         NEW L, NEW n, NEW S, Path(L, n, head, tlink, S), head # NoProc
  PROVE  \E k \in 0..(n - 1) : Walk(head, t).ptr = L[k] /\ Walk(head, t).next = L[k + 1]
<1> DEFINE N == Cardinality(Proc)
           At(w) == \E k \in 0..(n - 1) : w.ptr = L[k] /\ w.next = L[k + 1]
<1>1. /\ n \in Nat /\ L \in [Nat -> Proc \cup {NoProc}] /\ S \subseteq Proc
      /\ L[0] = head /\ L[n] = NoProc
      /\ \A i \in 0..(n - 1) : L[i] \in S /\ tlink[L[i]] = L[i + 1]
  BY DEF Path
<1>2. n # 0 /\ 0 \in 0..(n - 1) /\ head \in Proc
  BY <1>1
<1>3. N \in Nat
  BY PathCounts
<1>4. PICK G : Rounds(t, G)
  BY <1>2, WalkRounds
<1>5. /\ G[0] = FirstRound(head) /\ \A m \in 1..N : G[m] = OneRound(t, G[m - 1])
      /\ Walk(head, t) = G[N]
  BY <1>4 DEF Rounds
<1> DEFINE P == {m \in Nat : m <= N => At(G[m])}
<1>6. 0 \in P
  <2>1. FirstRound(head).ptr = L[0] /\ FirstRound(head).next = L[0 + 1]
    BY <1>1, <1>2 DEF FirstRound
  <2> QED BY <1>2, <1>5, <2>1
<1>7. ASSUME NEW m \in Nat, m \in P PROVE m + 1 \in P
  <2> SUFFICES ASSUME m + 1 <= N PROVE At(G[m + 1])
    OBVIOUS
  <2>1. m + 1 \in 1..N /\ m + 1 - 1 = m /\ m <= N
    BY <1>3
  <2>2. At(G[m])
    BY <1>7, <2>1
  <2>3. G[m + 1] = OneRound(t, G[m])
    BY <1>5, <2>1
  <2>4. PICK k \in 0..(n - 1) : G[m].ptr = L[k] /\ G[m].next = L[k + 1]
    BY <2>2
  <2>5. CASE G[m].next # NoProc
    <3>1. k + 1 \in 0..(n - 1)
      BY <1>1, <2>4, <2>5
    <3>2. tlink[L[k + 1]] = L[k + 1 + 1]
      BY <1>1, <3>1
    <3>3. CASE OneRound(t, G[m]) = G[m]
      BY <2>2, <2>3, <3>3
    <3>4. CASE OneRound(t, G[m]) # G[m]
      <4>1. OneRound(t, G[m]).ptr = G[m].next /\ OneRound(t, G[m]).next = tlink[G[m].next]
        BY <3>4 DEF OneRound
      <4> QED BY <2>3, <2>4, <3>1, <3>2, <4>1
    <3> QED BY <3>3, <3>4
  <2>6. CASE G[m].next = NoProc
    BY <2>2, <2>3, <2>6 DEF OneRound
  <2> QED BY <2>5, <2>6
<1>8. Nat \subseteq P
  <2> HIDE DEF P
  <2> QED BY <1>6, <1>7, SetInduction
<1> QED BY <1>3, <1>5, <1>8


-----------------------------------------------------------------------------
(* The list and who sleeps.                                                *)

\* The links from TPtrLoc lead through the sleepers, each once, to
\* NotProcess_p.
Listed(h, link, S) == \E L, n : Path(L, n, h, link, S)

ListInv ==
  /\ pc \in {"run", "wake"}
  /\ LinkType
  /\ Listed(head, tlink, Asleep)

\* insert() gives p a place, at the head or behind another sleeper.
LEMMA InsertLists ==
  ASSUME ListInv, time \in [Proc -> Word], NEW t, NEW p \in Proc, p \notin Asleep, Insert(p, t)
  PROVE  Listed(head', tlink', Asleep \cup {p})
<1>1. PICK L, n : Path(L, n, head, tlink, Asleep)
  BY DEF ListInv, Listed
<1>2. /\ n \in Nat /\ L \in [Nat -> Proc \cup {NoProc}] /\ L[0] = head
      /\ \A i \in 0..(n - 1) : L[i] \in Proc /\ L[i] # p
      /\ \A i, j \in 0..(n - 1) : L[i] = L[j] => i = j
  BY <1>1 DEF Path
<1>3. tlink \in [Proc -> Proc \cup {NoProc}]
  BY DEF ListInv, LinkType
<1>4. CASE head = NoProc \/ After(time[head], t)
  <2>1. head' = p /\ tlink' = [tlink EXCEPT ![p] = head]
    BY <1>4 DEF Insert
  <2>2. 0 \in 0..n /\ tlink'[p] = L[0]
    BY <1>2, <1>3, <2>1
  <2>3. \A i \in 0..(n - 1) : tlink'[L[i]] = IF i + 1 = 0 THEN p ELSE tlink[L[i]]
    BY <1>2, <1>3, <2>1
  <2>4. head' = IF 0 = 0 THEN p ELSE head
    BY <2>1
  <2>5. PutIn(p, L, n, 0, head, tlink, head', tlink')
    BY <2>2, <2>3, <2>4 DEF PutIn
  <2>6. \E M : Path(M, n + 1, head', tlink', Asleep \cup {p})
    BY <1>1, <2>5, PathInsert
  <2> QED BY <2>6 DEF Listed
<1>5. CASE ~(head = NoProc \/ After(time[head], t))
  <2>1. PICK k \in 0..(n - 1) : Walk(head, t).ptr = L[k] /\ Walk(head, t).next = L[k + 1]
    BY <1>1, <1>5, WalkStops DEF ListInv
  <2>2. head' = head /\ tlink' = [tlink EXCEPT ![L[k]] = p, ![p] = L[k + 1]]
    BY <1>5, <2>1 DEF Insert
  <2>3. k + 1 \in 0..n /\ k + 1 # 0 /\ L[k] \in Proc /\ L[k] # p
    BY <1>2
  <2>4. tlink'[p] = L[k + 1]
    BY <1>3, <2>2, <2>3
  <2>5. ASSUME NEW i \in 0..(n - 1)
        PROVE  tlink'[L[i]] = IF i + 1 = k + 1 THEN p ELSE tlink[L[i]]
    <3>1. L[i] \in Proc /\ L[i] # p /\ (L[i] = L[k] => i = k)
      BY <1>2
    <3>2. i + 1 = k + 1 <=> i = k
      BY <1>2
    <3> QED BY <1>3, <2>2, <2>3, <3>1, <3>2
  <2>6. head' = IF k + 1 = 0 THEN p ELSE head
    BY <2>2, <2>3
  <2>7. PICK m \in 0..n : m = k + 1
    BY <2>3
  <2>8. /\ tlink'[p] = L[m]
        /\ \A i \in 0..(n - 1) : tlink'[L[i]] = IF i + 1 = m THEN p ELSE tlink[L[i]]
        /\ head' = IF m = 0 THEN p ELSE head
    BY <2>4, <2>5, <2>6, <2>7
  <2>9. PutIn(p, L, n, m, head, tlink, head', tlink')
    BY <2>8 DEF PutIn
  <2>10. \E M : Path(M, n + 1, head', tlink', Asleep \cup {p})
    BY <1>1, <2>9, PathInsert
  <2> QED BY <2>10 DEF Listed
<1> QED BY <1>4, <1>5

\* The links stay links.
LEMMA InsertLinks ==
  ASSUME ListInv, time \in [Proc -> Word], NEW t, NEW p \in Proc, Insert(p, t)
  PROVE  LinkType'
<1>1. tlink \in [Proc -> Proc \cup {NoProc}]
  BY DEF ListInv, LinkType
<1>2. PICK L, n : Path(L, n, head, tlink, Asleep)
  BY DEF ListInv, Listed
<1>3. /\ n \in Nat /\ L \in [Nat -> Proc \cup {NoProc}] /\ L[0] = head
  BY <1>2 DEF Path
<1>4. CASE head = NoProc \/ After(time[head], t)
  <2>1. tlink' = [tlink EXCEPT ![p] = head] /\ head \in Proc \cup {NoProc}
    BY <1>3, <1>4 DEF Insert
  <2> QED BY <1>1, <2>1 DEF LinkType
<1>5. CASE ~(head = NoProc \/ After(time[head], t))
  <2>1. PICK k \in 0..(n - 1) : Walk(head, t).ptr = L[k] /\ Walk(head, t).next = L[k + 1]
    BY <1>2, <1>5, WalkStops DEF ListInv
  <2>2. tlink' = [tlink EXCEPT ![L[k]] = p, ![p] = L[k + 1]]
    BY <1>5, <2>1 DEF Insert
  <2>3. L[k + 1] \in Proc \cup {NoProc}
    BY <1>3
  <2> QED BY <1>1, <2>2, <2>3 DEF LinkType
<1> QED BY <1>4, <1>5

\* tin queues p, and p sleeps.
LEMMA TinListInv ==
  ASSUME TimeInv, ListInv, NEW p \in Proc, NEW delay \in 0..Horizon, Tin(p, delay)
  PROVE  ListInv'
<1>1. /\ pc' = pc /\ p \notin Asleep /\ Insert(p, Plus(clock, delay))
      /\ due' = [due EXCEPT ![p] = delay]
  BY DEF Tin
<1>2. time \in [Proc -> Word] /\ due \in [Proc -> Int]
  BY DEF TimeInv
<1>3. delay # Awake
  BY Sizes DEF Awake
<1>4. Asleep' = Asleep \cup {p}
  BY <1>1, <1>2, <1>3 DEF Asleep, Awake
<1>5. Listed(head', tlink', Asleep \cup {p}) /\ LinkType'
  BY <1>1, <1>2, InsertLists, InsertLinks
<1> QED BY <1>1, <1>4, <1>5 DEF ListInv

\* The head of the list and everyone a link leads to sleep.
LEMMA LinkedSleep ==
  ASSUME NEW L, NEW n, Path(L, n, head, tlink, Asleep), NEW p \in Proc, p \notin Asleep
  PROVE  head # p /\ \A q \in Asleep : tlink[q] # p
<1>1. /\ n \in Nat /\ L[0] = head /\ L[n] = NoProc
      /\ \A i \in 0..(n - 1) : L[i] \in Asleep /\ tlink[L[i]] = L[i + 1]
      /\ \A q \in Asleep : \E i \in 0..(n - 1) : L[i] = q
  BY DEF Path
<1>2. ASSUME NEW i \in 0..n PROVE L[i] # p
  BY <1>1, TimerAssumption
<1>3. ASSUME NEW q \in Asleep PROVE tlink[q] # p
  <2>1. PICK i \in 0..(n - 1) : L[i] = q
    BY <1>1
  <2>2. i + 1 \in 0..n
    BY <1>1
  <2> QED BY <1>1, <1>2, <2>1, <2>2
<1> QED BY <1>1, <1>2, <1>3

\* Who no longer sleeps is no longer among the sleepers.
LEMMA AwakeOne ==
  ASSUME due \in [Proc -> Int], NEW p \in Proc, due' = [due EXCEPT ![p] = Awake]
  PROVE  Asleep' = Asleep \ {p}
BY DEF Asleep, Awake

\* purge_timer() takes out the sleeper it is for, and nobody if it sleeps not.
LEMMA PurgeListInv ==
  ASSUME TimeInv, ListInv, NEW p \in Proc, Purge(p)
  PROVE  ListInv'
<1>1. PICK L, n : Path(L, n, head, tlink, Asleep)
  BY DEF ListInv, Listed
<1>2. /\ n \in Nat /\ L[0] = head /\ L[n] = NoProc /\ Asleep \subseteq Proc
      /\ \A i \in 0..(n - 1) : L[i] \in Asleep /\ tlink[L[i]] = L[i + 1]
      /\ \A i, j \in 0..(n - 1) : L[i] = L[j] => i = j
      /\ \A q \in Asleep : \E i \in 0..(n - 1) : L[i] = q
  BY <1>1 DEF Path
<1>3. tlink \in [Proc -> Proc \cup {NoProc}]
  BY DEF ListInv, LinkType
<1>4. /\ pc' = pc
      /\ head' = IF head = p THEN tlink[p] ELSE head
      /\ tlink' = [q \in Proc |-> IF tlink[q] = p /\ q # p /\ q \in Asleep
                                  THEN tlink[p] ELSE tlink[q]]
      /\ due' = [due EXCEPT ![p] = Awake]
  BY DEF Purge, HeadWithout, LinksWithout
<1>5. Asleep' = Asleep \ {p}
  BY <1>4, AwakeOne DEF TimeInv
<1>6. LinkType'
  BY <1>3, <1>4 DEF LinkType
<1>7. CASE p \in Asleep
  <2>1. PICK k \in 0..(n - 1) : L[k] = p
    BY <1>2, <1>7
  <2>2. ASSUME NEW i \in 0..(n - 1), i # k
        PROVE  tlink'[L[i]] = IF i + 1 = k THEN tlink[L[k]] ELSE tlink[L[i]]
    <3>1. L[i] \in Asleep /\ L[i] # p /\ tlink[L[i]] = L[i + 1]
      BY <1>2, <2>1, <2>2
    <3>2. L[i + 1] = p <=> i + 1 = k
      <4>1. CASE i + 1 \in 0..(n - 1)
        BY <1>2, <2>1, <4>1
      <4>2. CASE i + 1 = n
        BY <1>2, <2>1, <4>2, TimerAssumption
      <4> QED BY <1>2, <4>1, <4>2
    <3> QED BY <1>2, <1>4, <2>1, <3>1, <3>2
  <2>3. head' = IF k = 0 THEN tlink[head] ELSE head
    <3>1. head = p <=> k = 0
      BY <1>2, <2>1
    <3> QED BY <1>4, <3>1
  <2>4. \E M : Path(M, n - 1, head', tlink', Asleep \ {L[k]})
    BY ONLY <1>1, <2>2, <2>3, PathRemove
  <2> QED BY <1>4, <1>5, <1>6, <2>1, <2>4 DEF ListInv, Listed
<1>8. CASE p \notin Asleep
  <2>1. head # p /\ \A q \in Asleep : tlink[q] # p
    BY <1>1, <1>8, LinkedSleep
  <2>2. head' = head /\ \A q \in Asleep : tlink'[q] = tlink[q]
    BY <1>2, <1>4, <2>1
  <2>3. Path(L, n, head', tlink', Asleep)
    BY <1>1, <2>2, PathSame
  <2>4. Asleep' = Asleep
    BY <1>5, <1>8
  <2> QED BY <1>4, <1>6, <2>3, <2>4 DEF ListInv, Listed
<1> QED BY <1>7, <1>8

\* No process that sleeps has taken an ALT before, so that schedule() purges
\* nobody.
NoneStale == Stale = {}

\* update_time() then moves TPtrLoc on by one.
LEMMA WakeAdvances ==
  ASSUME NoneStale, Wake
  PROVE  /\ pc' = pc /\ head' = tlink[head] /\ tlink' = tlink
         /\ due' = [due EXCEPT ![head] = Awake] /\ head # NoProc
<1>1. PICK ready \in {FALSE} \cup {head \in Stale} :
        LET first == IF ready THEN HeadWithout(wptr) ELSE head
            links == IF ready THEN LinksWithout(wptr) ELSE tlink
        IN /\ head' \in IF first = NoProc THEN Proc \cup {NoProc} ELSE {links[first]}
           /\ tlink' = links
  BY DEF Wake
<1>2. ~ready
  BY DEF NoneStale
<1>3. head # NoProc /\ pc' = pc /\ due' = [due EXCEPT ![head] = Awake]
  BY DEF Wake, Expired
<1> QED BY <1>1, <1>2, <1>3

\* update_time() takes out the head.
LEMMA WakeListInv ==
  ASSUME NoneStale, TimeInv, ListInv, Wake
  PROVE  ListInv'
<1>1. PICK L, n : Path(L, n, head, tlink, Asleep)
  BY DEF ListInv, Listed
<1>2. /\ pc' = pc /\ head' = tlink[head] /\ tlink' = tlink
      /\ due' = [due EXCEPT ![head] = Awake] /\ head # NoProc
  BY WakeAdvances
<1>3. /\ n \in Nat /\ L[0] = head /\ L[n] = NoProc
      /\ \A i \in 0..(n - 1) : L[i] \in Asleep
      /\ Asleep \subseteq Proc
  BY <1>1 DEF Path
<1>4. 0 \in 0..(n - 1) /\ head \in Proc
  BY <1>2, <1>3
<1>5. Asleep' = Asleep \ {L[0]}
  BY <1>2, <1>3, <1>4, AwakeOne DEF TimeInv
<1>6. \A i \in 0..(n - 1) : i # 0 => tlink[L[i]] = IF i + 1 = 0 THEN tlink[L[0]] ELSE tlink[L[i]]
  BY <1>3
<1>7. tlink[head] = IF 0 = 0 THEN tlink[head] ELSE head
  OBVIOUS
<1>8. \E M : Path(M, n - 1, tlink[head], tlink, Asleep \ {L[0]})
  BY ONLY <1>1, <1>4, <1>6, <1>7, PathRemove
<1> QED BY <1>2, <1>5, <1>8 DEF ListInv, Listed, LinkType

\* As the clock goes on, the sleepers sleep.
LEMMA TickListInv ==
  ASSUME TimeInv, ListInv, Tick
  PROVE  ListInv'
<1>1. PICK d \in 1..MaxStep :
        due' = [p \in Proc |-> IF p \in Asleep THEN due[p] - d ELSE Awake]
  BY DEF Tick
<1>2. head' = head /\ tlink' = tlink /\ pc' = "wake"
  BY DEF Tick, words
<1>3. d \in Int /\ d >= 1 /\ Awake \in Int
  BY Sizes DEF Awake
<1>4. \A p \in Proc : due[p] \in Int /\ due[p] <= Awake
  BY DEF TimeInv, Ahead
<1>5. ASSUME NEW p \in Proc PROVE due'[p] # Awake <=> due[p] # Awake
  BY <1>1, <1>3, <1>4 DEF Asleep
<1>6. Asleep' = Asleep
  BY <1>5 DEF Asleep, Awake
<1> QED BY <1>2, <1>6 DEF ListInv, LinkType


\* The invariant that goes with the times: the links from TPtrLoc lead through
\* the processes that wait for a time, each once, and to NotProcess_p.
THEOREM ListInvariance ==
  ASSUME NoneStale
  PROVE  Spec => [](TimeInv /\ ListInv)
<1>1. Init => ListInv
  <2> SUFFICES ASSUME Init PROVE ListInv
    OBVIOUS
  <2>1. /\ pc = "run" /\ head = NoProc /\ tlink = [p \in Proc |-> NoProc]
        /\ due = [p \in Proc |-> Awake]
    BY DEF Init
  <2>2. Asleep = {}
    BY <2>1 DEF Asleep
  <2>3. Path([i \in Nat |-> NoProc], 0, head, tlink, Asleep)
    BY <2>1, <2>2 DEF Path
  <2> QED BY <2>1, <2>3 DEF ListInv, LinkType, Listed
<1>2. TimeInv /\ ListInv /\ [Next]_vars => ListInv'
  <2> SUFFICES ASSUME TimeInv, ListInv, [Next]_vars PROVE ListInv'
    OBVIOUS
  <2>1. CASE Tick
    BY <2>1, TickListInv
  <2>2. CASE Wake
    BY <2>2, WakeListInv
  <2>3. CASE Resume
    BY <2>3 DEF Resume, words, ListInv, LinkType, Asleep, Awake
  <2>4. ASSUME NEW p \in Proc, Purge(p) PROVE ListInv'
    BY <2>4, PurgeListInv
  <2>5. ASSUME NEW p \in Proc, NEW delay \in 0..Horizon, Tin(p, delay) PROVE ListInv'
    BY <2>5, TinListInv
  <2>6. CASE UNCHANGED vars
    BY <2>6 DEF vars, ListInv, LinkType, Asleep, Awake
  <2> QED BY <2>1, <2>2, <2>3, <2>4, <2>5, <2>6 DEF Next
<1> QED BY <1>1, <1>2, Invariance, PTL DEF Spec

\* The list that TPtrLoc and the TLink_s make holds exactly the processes
\* that wait for a time: insert() and purge_timer() lose none, queue none
\* twice and close no cycle, for any number of processes of which none has
\* Ready_p left in its State_s.
THEOREM ListHoldsTheSleepers ==
  ASSUME NoneStale
  PROVE  Spec => []ListOfSleepers
<1>1. ListInv => ListOfSleepers
  <2> SUFFICES ASSUME ListInv PROVE ListOfSleepers
    OBVIOUS
  <2>1. PICK L, n : Path(L, n, head, tlink, Asleep)
    BY DEF ListInv, Listed
  <2>2. /\ n \in Nat /\ L[n] = NoProc
        /\ \A i \in 0..(n - 1) : L[i] \in Asleep
        /\ \A p \in Asleep : \E i \in 0..(n - 1) : L[i] = p
    BY <2>1 DEF Path
  <2>3. Cardinality(Asleep) = n
    BY <2>1, PathCounts
  <2>4. \A i \in 0..n : Nth[i] = L[i]
    BY <2>1, NthLists DEF ListInv
  <2>5. Asleep = {Nth[i] : i \in 0..(n - 1)} /\ Nth[n] = NoProc
    BY <2>2, <2>4
  <2> QED BY <2>3, <2>5 DEF ListOfSleepers
<1> QED BY <1>1, ListInvariance, PTL

\* TPtrLoc and the links hold processes, the times words.
THEOREM TypeCorrect ==
  ASSUME NoneStale
  PROVE  Spec => []TypeOK
<1> DEFINE Runs == wptr \in Proc
<1>1. TimeInv /\ ListInv /\ Runs => TypeOK
  <2> SUFFICES ASSUME TimeInv, ListInv, Runs PROVE TypeOK
    OBVIOUS
  <2>1. head \in Proc \cup {NoProc}
    BY DEF ListInv, Listed, Path
  <2> QED BY <2>1 DEF TypeOK, TimeInv, ListInv, LinkType
<1>2. Init => Runs
  BY DEF Init
<1>3. Runs /\ [Next]_vars => Runs'
  BY DEF Next, Tin, Purge, Tick, Wake, Resume, vars
<1> QED BY <1>1, <1>2, <1>3, ListInvariance, PTL DEF Spec

-----------------------------------------------------------------------------
(* The order of the list, for up to three sleepers.                        *)

\* No more than three processes of a priority wait for times.
FewSleepers == Cardinality(Proc) <= 3

\* Delays, and the ticks between two looks at the queue, stay two or three
\* ticks short of half the clock's range: as much as INT32(x - y) > 0 needs
\* when a sleeper may be two ticks late and its time one tick ahead.
Ample == Horizon + 3 <= Half /\ MaxStep + 2 <= Half

\* The head is due first, and neighbours are in order, to within a tick.
InOrder ==
  \A q \in Asleep :
    /\ due[head] <= due[q] + 1
    /\ tlink[q] \in Asleep => due[q] <= due[tlink[q]] + 1

\* Between two looks at the queue nobody is more than two ticks late; in one,
\* everybody may be as much later as the clock has gone on.
NotLate ==
  \E gone \in 0..MaxStep :
    /\ pc = "run" => gone = 0
    /\ \A q \in Asleep : -2 - gone <= due[q] /\ due[q] <= Horizon - gone

OrderInv == InOrder /\ NotLate

\* With less than half the range between two words, After is their order.
LEMMA AfterIsOrder ==
  ASSUME NEW x \in Word, NEW y \in Word, NEW z \in Int, -Half <= z, z < Half,
         NEW k \in Int, x - y = z + k * Modulus
  PROVE  After(x, y) <=> z > 0
<1>1. x \in Int /\ 0 <= x /\ x < Modulus /\ y \in Int /\ 0 <= y /\ y < Modulus
  BY Sizes DEF Word
<1>2. k = 0 \/ k = 1 \/ k = -1
  <2>1. k >= 2 => k * Modulus >= 2 * Modulus
    BY Sizes
  <2>2. k <= -2 => k * Modulus <= -2 * Modulus
    BY Sizes
  <2>3. k * Modulus \in Int /\ k * Modulus < 2 * Modulus /\ k * Modulus > -2 * Modulus
    BY <1>1, Sizes
  <2> QED BY <2>1, <2>2, <2>3, Sizes
<1> DEFINE w == x - y
<1>3. w \in Int /\ -Modulus <= w /\ w < 2 * Modulus
  BY <1>1, Sizes
<1>4. w = z \/ w = z + Modulus \/ w = z - Modulus
  BY <1>2, Sizes
<1>5. w % Modulus = IF w < 0 THEN w + Modulus ELSE IF w < Modulus THEN w ELSE w - Modulus
  <2> HIDE DEF w
  <2> QED BY <1>3, WrapsOnce
<1>6. w < Modulus
  BY <1>1, Sizes
<1> HIDE DEF w
<1>7. w % Modulus = IF z < 0 THEN z + Modulus ELSE z
  BY <1>3, <1>4, <1>5, <1>6, Sizes
<1>8. (w % Modulus) \in 1..(Half - 1) <=> z > 0
  BY <1>7, Sizes
<1> QED BY <1>8 DEF After, w

\* A list of up to three: the head, the second and the last.
LEMMA ShortList ==
  ASSUME ListInv, FewSleepers
  PROVE  /\ Asleep \subseteq Proc
         /\ Asleep = {} => head = NoProc
         /\ Asleep # {} => head \in Asleep
         /\ \A q \in Asleep :
              /\ q # head => tlink[head] \in Asleep
              /\ q = head \/ q = tlink[head] \/ q = tlink[tlink[head]]
              /\ tlink[q] \in Asleep \cup {NoProc} /\ tlink[q] # head
              /\ q # head /\ tlink[q] \in Asleep => tlink[tlink[q]] = NoProc
<1>1. PICK L, n : Path(L, n, head, tlink, Asleep)
  BY DEF ListInv, Listed
<1>2. /\ n \in Nat /\ L[0] = head /\ L[n] = NoProc /\ Asleep \subseteq Proc
      /\ \A i \in 0..(n - 1) : L[i] \in Asleep /\ tlink[L[i]] = L[i + 1]
      /\ \A i, j \in 0..(n - 1) : L[i] = L[j] => i = j
      /\ \A q \in Asleep : \E i \in 0..(n - 1) : L[i] = q
  BY <1>1 DEF Path
<1>3. n <= Cardinality(Proc) /\ Cardinality(Proc) \in Nat
  BY <1>1, PathCounts
<1>4. n = 0 \/ n = 1 \/ n = 2 \/ n = 3
  BY <1>2, <1>3 DEF FewSleepers
<1>5. \A q \in Asleep : q # NoProc
  BY <1>2, TimerAssumption
<1>6. CASE n = 0
  BY <1>2, <1>6
<1>7. CASE n = 1
  <2>1. /\ L[0] \in Asleep /\ tlink[L[0]] = L[1]
        /\ \A q \in Asleep : q = L[0]
    <3>1. 0 \in 0..(n - 1) /\ \A i \in 0..(n - 1) : i = 0
      BY <1>7
    <3> QED BY <1>2, <3>1
  <2> QED BY <1>2, <1>5, <1>7, <2>1
<1>8. CASE n = 2
  <2>1. /\ L[0] \in Asleep /\ tlink[L[0]] = L[1] /\ L[1] \in Asleep /\ tlink[L[1]] = L[2]
        /\ \A q \in Asleep : q = L[0] \/ q = L[1]
        /\ L[0] # L[1]
    <3>1. /\ 0 \in 0..(n - 1) /\ 1 \in 0..(n - 1) /\ 0 + 1 = 1 /\ 1 + 1 = 2 /\ 0 # 1
          /\ \A i \in 0..(n - 1) : i = 0 \/ i = 1
      BY <1>8
    <3> QED BY <1>2, <3>1
  <2> QED BY <1>2, <1>5, <1>8, <2>1
<1>9. CASE n = 3
  <2>1. /\ L[0] \in Asleep /\ tlink[L[0]] = L[1] /\ L[1] \in Asleep /\ tlink[L[1]] = L[2]
        /\ L[2] \in Asleep /\ tlink[L[2]] = L[3]
        /\ \A q \in Asleep : q = L[0] \/ q = L[1] \/ q = L[2]
        /\ L[0] # L[1] /\ L[0] # L[2] /\ L[1] # L[2]
    <3>1. /\ 0 \in 0..(n - 1) /\ 1 \in 0..(n - 1) /\ 2 \in 0..(n - 1)
          /\ 0 + 1 = 1 /\ 1 + 1 = 2 /\ 2 + 1 = 3 /\ 0 # 1 /\ 0 # 2 /\ 1 # 2
          /\ \A i \in 0..(n - 1) : i = 0 \/ i = 1 \/ i = 2
      BY <1>9
    <3> QED BY <1>2, <3>1
  <2> QED BY <1>2, <1>5, <1>9, <2>1
<1> QED BY <1>4, <1>6, <1>7, <1>8, <1>9

\* A list that is in order is in order without one of its members.
LEMMA OrderWithout ==
  ASSUME TimeInv, ListInv, FewSleepers, InOrder, NEW p \in Asleep,
         Asleep' = Asleep \ {p}, \A q \in Asleep' : due'[q] = due[q],
         head' = IF head = p THEN tlink[p] ELSE head,
         \A q \in Asleep' : tlink'[q] = IF tlink[q] = p THEN tlink[p] ELSE tlink[q]
  PROVE  InOrder'
<1>1. /\ Asleep \subseteq Proc
      /\ Asleep # {} => head \in Asleep
      /\ \A q \in Asleep :
           /\ q # head => tlink[head] \in Asleep
           /\ q = head \/ q = tlink[head] \/ q = tlink[tlink[head]]
           /\ tlink[q] \in Asleep \cup {NoProc} /\ tlink[q] # head
           /\ q # head /\ tlink[q] \in Asleep => tlink[tlink[q]] = NoProc
  BY ShortList
<1>2. NoProc \notin Asleep /\ \A q \in Asleep : due[q] \in Int
  BY <1>1, TimerAssumption DEF TimeInv
<1>3. \A q \in Asleep : /\ due[head] <= due[q] + 1
                        /\ tlink[q] \in Asleep => due[q] <= due[tlink[q]] + 1
  BY DEF InOrder
<1>4. ASSUME NEW q \in Asleep' PROVE due'[head'] <= due'[q] + 1
  <2>1. q \in Asleep /\ q # p /\ due'[q] = due[q]
    BY <1>4
  <2>2. CASE head = p
    <3>1. tlink[head] \in Asleep /\ tlink[head] # p /\ head' = tlink[head]
      BY <1>1, <2>1, <2>2
    <3>2. due'[head'] = due[tlink[head]]
      BY <3>1
    <3>3. q = tlink[head] \/ q = tlink[tlink[head]]
      BY <1>1, <2>1, <2>2
    <3>4. due[tlink[head]] <= due[q] + 1
      BY <1>2, <1>3, <2>1, <3>1, <3>3
    <3> QED BY <2>1, <3>2, <3>4
  <2>3. CASE head # p
    <3>1. head \in Asleep' /\ head' = head
      BY <1>1, <2>3
    <3> QED BY <1>3, <2>1, <3>1
  <2> QED BY <2>2, <2>3
<1>5. ASSUME NEW q \in Asleep', tlink'[q] \in Asleep'
      PROVE  due'[q] <= due'[tlink'[q]] + 1
  <2>1. q \in Asleep /\ q # p /\ due'[q] = due[q] /\ due'[tlink'[q]] = due[tlink'[q]]
        /\ tlink'[q] \in Asleep
    BY <1>5
  <2>2. CASE tlink[q] = p
    <3>1. tlink'[q] = tlink[p] /\ tlink[p] \in Asleep
      BY <2>1, <2>2
    <3>2. q = head
      BY <1>1, <1>2, <2>1, <2>2, <3>1
    <3> QED BY <1>3, <2>1, <3>1, <3>2
  <2>3. CASE tlink[q] # p
    BY <1>3, <2>1, <2>3
  <2> QED BY <2>2, <2>3
<1> QED BY <1>4, <1>5 DEF InOrder

\* Where insert() stops on a list of one or two.
LEMMA ShortWalk ==
  ASSUME ListInv, FewSleepers, time \in [Proc -> Word], NEW t,
         head \in Asleep, tlink[head] \in Asleep => tlink[tlink[head]] = NoProc
  PROVE  LET w == Walk(head, t)
             last == tlink[head] \in Asleep /\ After(t, time[tlink[head]])
         IN /\ w.ptr = IF last THEN tlink[head] ELSE head
            /\ w.next = IF last THEN NoProc ELSE tlink[head]
<1> DEFINE N == Cardinality(Proc)
           a == FirstRound(head)
           b == OneRound(t, a)
           last == tlink[head] \in Asleep /\ After(t, time[tlink[head]])
<1>1. /\ Asleep \subseteq Proc /\ head \in Proc /\ NoProc \notin Asleep
      /\ tlink[head] \in Asleep \cup {NoProc}
  BY ShortList, TimerAssumption
<1>2. PICK G : Rounds(t, G)
  BY <1>1, WalkRounds DEF ListInv
<1>3. G[0] = a /\ (\A m \in 1..N : G[m] = OneRound(t, G[m - 1])) /\ Walk(head, t) = G[N]
  BY <1>2 DEF Rounds
<1>4. N \in 1..3
  <2>1. IsFiniteSet(Proc) /\ N \in Nat
    BY TimerAssumption, FS_CardinalityType
  <2>2. N # 0
    BY <1>1, <2>1, FS_EmptySet
  <2> QED BY <2>1, <2>2 DEF FewSleepers
<1>5. /\ b.ptr = IF last THEN tlink[head] ELSE head
      /\ b.next = IF last THEN NoProc ELSE tlink[head]
  BY <1>1 DEF FirstRound, OneRound
<1>6. OneRound(t, b) = b
  <2>1. CASE last
    BY <1>5, <2>1 DEF OneRound
  <2>2. CASE ~last
    <3>1. b = a
      BY <1>1, <2>2 DEF FirstRound, OneRound
    <3> QED BY <3>1
  <2> QED BY <2>1, <2>2
<1> HIDE DEF a, b
<1>7. G[1] = b
  <2>1. 1 \in 1..N /\ 1 - 1 = 0
    BY <1>4
  <2> QED BY <1>3, <2>1 DEF b
<1>8. 2 <= N => G[2] = b
  <2>1. 2 <= N => 2 \in 1..N /\ 2 - 1 = 1
    BY <1>4
  <2> QED BY <1>3, <1>6, <1>7, <2>1
<1>9. 3 <= N => G[3] = b
  <2>1. 3 <= N => 3 \in 1..N /\ 3 - 1 = 2 /\ 2 <= N
    BY <1>4
  <2> QED BY <1>3, <1>6, <1>8, <2>1
<1>10. Walk(head, t) = b
  BY <1>3, <1>4, <1>7, <1>8, <1>9
<1> QED BY <1>5, <1>10

\* The comparisons of insert() are those of the ticks to wait.
LEMMA InsertCompares ==
  ASSUME TimeInv, NotLate, Ample, pc = "run", NEW q \in Asleep, NEW delay \in 0..Horizon
  PROVE  LET t == Plus(clock, delay)
         IN /\ After(time[q], t) <=> delay <= due[q]
            /\ After(t, time[q]) <=> due[q] + 1 < delay
<1> DEFINE t == Plus(clock, delay)
<1>1. /\ q \in Proc /\ due[q] \in Int /\ -2 <= due[q] /\ due[q] <= Horizon
      /\ delay \in Int /\ 0 <= delay /\ delay <= Horizon
  <2>1. \A x \in Asleep : x \in Proc /\ due[x] \in Int
    BY DEF Asleep, TimeInv
  <2>2. -2 <= due[q] /\ due[q] <= Horizon
    BY <2>1, Sizes DEF NotLate
  <2> QED BY <2>1, <2>2, Sizes
<1>2. clock \in Word /\ clock \in Int /\ time[q] \in Word /\ time[q] \in Int
  BY <1>1, Sizes DEF TimeInv, Word
<1>3. PICK k \in Int : time[q] = clock + due[q] + 1 + k * Modulus
  BY <1>1 DEF TimeInv, Ahead, Shows
<1>4. t \in Word /\ \E m \in {0, 1} : t = clock + delay - m * Modulus
  <2>1. delay < Modulus
    BY <1>1, Sizes
  <2> QED BY <1>1, <1>2, <2>1, PlusShows, Zenon
<1>5. PICK m \in {0, 1} : t = clock + delay - m * Modulus
  BY <1>4
<1>6. t \in Int
  BY <1>4, Sizes DEF Word
<1> HIDE DEF t
<1> DEFINE z == due[q] + 1 - delay
           j == k + m
<1>7. z \in Int /\ -z \in Int /\ j \in Int /\ -j \in Int
  BY <1>1
<1>8. k * Modulus \in Int /\ m * Modulus \in Int /\ j * Modulus = k * Modulus + m * Modulus
      /\ (-j) * Modulus = -(k * Modulus + m * Modulus)
  BY Sizes
<1>9. time[q] - t = z + j * Modulus /\ t - time[q] = -z + (-j) * Modulus
  BY <1>1, <1>2, <1>3, <1>5, <1>6, <1>8
<1>10. -Half <= z /\ z < Half /\ -Half <= -z /\ -z < Half
  BY <1>1, Sizes DEF Ample
<1>11. z > 0 <=> delay <= due[q]
  BY <1>1
<1>12. -z > 0 <=> due[q] + 1 < delay
  BY <1>1
<1> HIDE DEF z, j
<1>13. After(time[q], t) <=> z > 0
  BY <1>2, <1>4, <1>7, <1>9, <1>10, AfterIsOrder
<1>14. After(t, time[q]) <=> -z > 0
  BY <1>2, <1>4, <1>7, <1>9, <1>10, AfterIsOrder
<1> QED BY <1>11, <1>12, <1>13, <1>14 DEF t

\* A process that is to be queued finds at most two on the list.
LEMMA RoomForOne ==
  ASSUME TimeInv, ListInv, FewSleepers, NEW p \in Proc, p \notin Asleep
  PROVE  head \in Asleep /\ tlink[head] \in Asleep => tlink[tlink[head]] = NoProc
<1> SUFFICES ASSUME head \in Asleep, tlink[head] \in Asleep, tlink[tlink[head]] # NoProc
             PROVE  FALSE
  OBVIOUS
<1>1. PICK L, n : Path(L, n, head, tlink, Asleep)
  BY DEF ListInv, Listed
<1>2. /\ n \in Nat /\ L[0] = head /\ L[n] = NoProc /\ Asleep \subseteq Proc
      /\ \A i \in 0..(n - 1) : tlink[L[i]] = L[i + 1]
  BY <1>1 DEF Path
<1>3. Cardinality(Asleep) = n /\ Cardinality(Proc) \in Nat
  BY <1>1, PathCounts
<1>4. NoProc \notin Asleep
  BY <1>2, TimerAssumption
<1>5. n # 0
  BY <1>2, <1>4
<1>6. L[1] = tlink[head]
  <2>1. 0 \in 0..(n - 1) /\ 0 + 1 = 1
    BY <1>2, <1>5
  <2> QED BY <1>2, <2>1
<1>7. n # 1
  BY <1>2, <1>4, <1>6
<1>8. L[2] = tlink[tlink[head]]
  <2>1. 1 \in 0..(n - 1) /\ 1 + 1 = 2
    BY <1>2, <1>5, <1>7
  <2> QED BY <1>2, <1>6, <2>1
<1>9. n # 2
  BY <1>2, <1>8
<1>10. n >= 3
  BY <1>2, <1>5, <1>7, <1>9
<1>11. IsFiniteSet(Proc)
  BY TimerAssumption
<1>12. IsFiniteSet(Asleep)
  BY <1>2, <1>11, FS_Subset
<1>13. Cardinality(Asleep \cup {p}) = n + 1
  BY <1>3, <1>12, FS_AddElement
<1>14. Asleep \cup {p} \subseteq Proc
  BY <1>2
<1>15. Cardinality(Asleep \cup {p}) <= Cardinality(Proc)
  BY <1>11, <1>14, FS_Subset
<1> QED BY <1>2, <1>3, <1>10, <1>13, <1>15 DEF FewSleepers

\* tin keeps the order: insert() stops where ptr is before the time and
\* nextptr after it.
LEMMA TinOrder ==
  ASSUME TimeInv, ListInv, OrderInv, FewSleepers, Ample,
         NEW p \in Proc, NEW delay \in 0..Horizon, Tin(p, delay)
  PROVE  InOrder'
<1> DEFINE t == Plus(clock, delay)
<1>1. /\ pc = "run" /\ p \notin Asleep /\ Insert(p, t)
      /\ due' = [due EXCEPT ![p] = delay]
  BY DEF Tin
<1>2. /\ Asleep \subseteq Proc
      /\ Asleep = {} => head = NoProc
      /\ Asleep # {} => head \in Asleep
      /\ \A q \in Asleep : tlink[q] \in Asleep \cup {NoProc} /\ tlink[q] # head
  BY ShortList
<1>3. /\ NoProc \notin Proc /\ tlink \in [Proc -> Proc \cup {NoProc}]
      /\ \A q \in Asleep : due[q] \in Int
      /\ time \in [Proc -> Word] /\ due \in [Proc -> Int] /\ delay \in Int
  BY <1>2, TimerAssumption, Sizes DEF TimeInv, ListInv, LinkType
<1>4. Asleep' = Asleep \cup {p} /\ due'[p] = delay /\ \A q \in Asleep : due'[q] = due[q]
  <2>1. delay # Awake
    BY Sizes DEF Awake
  <2> QED BY <1>1, <1>2, <1>3, <2>1 DEF Asleep, Awake
<1>5. \A q \in Asleep : /\ due[head] <= due[q] + 1
                        /\ tlink[q] \in Asleep => due[q] <= due[tlink[q]] + 1
  BY DEF OrderInv, InOrder
<1>6. \A q \in Asleep : /\ After(time[q], t) <=> delay <= due[q]
                        /\ After(t, time[q]) <=> due[q] + 1 < delay
  BY <1>1, InsertCompares DEF OrderInv
<1> HIDE DEF t
<1>7. CASE head = NoProc \/ After(time[head], t)
  <2>1. head' = p /\ tlink' = [tlink EXCEPT ![p] = head]
    BY <1>1, <1>7 DEF Insert
  <2>2. tlink'[p] = head /\ \A q \in Asleep : tlink'[q] = tlink[q]
    BY <1>1, <1>2, <1>3, <2>1
  <2>3. ASSUME NEW q \in Asleep PROVE delay <= due[q] + 1 /\ delay <= due[head]
    <3>1. head \in Asleep /\ delay <= due[head]
      BY <1>2, <1>3, <1>6, <1>7
    <3> QED BY <1>3, <1>5, <3>1
  <2>4. ASSUME NEW q \in Asleep' PROVE due'[head'] <= due'[q] + 1
    BY <1>3, <1>4, <2>1, <2>3
  <2>5. ASSUME NEW q \in Asleep', tlink'[q] \in Asleep'
        PROVE  due'[q] <= due'[tlink'[q]] + 1
    <3>1. CASE q = p
      <4>1. head \in Asleep
        BY <1>1, <1>2, <1>3, <1>4, <2>2, <2>5, <3>1
      <4> QED BY <1>3, <1>4, <2>2, <2>3, <3>1, <4>1
    <3>2. CASE q # p
      <4>1. q \in Asleep /\ tlink'[q] = tlink[q] /\ tlink[q] \in Asleep
        BY <1>1, <1>2, <1>3, <1>4, <2>2, <2>5, <3>2
      <4> QED BY <1>4, <1>5, <4>1
    <3> QED BY <3>1, <3>2
  <2> QED BY <2>4, <2>5 DEF InOrder
<1>8. CASE ~(head = NoProc \/ After(time[head], t))
  <2>1. head \in Asleep /\ due[head] < delay
    BY <1>2, <1>3, <1>6, <1>8
  <2> DEFINE second == tlink[head]
             last == second \in Asleep /\ After(t, time[second])
             w == Walk(head, t)
  <2>2. tlink[head] \in Asleep => tlink[tlink[head]] = NoProc
    BY <1>1, <2>1, RoomForOne
  <2>3. /\ w.ptr = IF last THEN second ELSE head
        /\ w.next = IF last THEN NoProc ELSE second
    BY <1>3, <2>1, <2>2, ShortWalk
  <2>4. head' = head /\ tlink' = [tlink EXCEPT ![w.ptr] = p, ![p] = w.next]
    BY <1>1, <1>8 DEF Insert
  <2> HIDE DEF w
  <2>5. /\ w.ptr \in Asleep /\ tlink'[p] = w.next /\ tlink'[w.ptr] = p
        /\ \A q \in Asleep : q # w.ptr => tlink'[q] = tlink[q]
    BY <1>1, <1>2, <1>3, <2>1, <2>3, <2>4
  <2>6. due[w.ptr] <= delay + 1
    BY <1>3, <1>6, <2>1, <2>3
  <2>7. w.next \in Asleep => delay <= due[w.next] + 1
    BY <1>2, <1>3, <1>6, <2>3
  <2>8. ASSUME NEW q \in Asleep' PROVE due'[head'] <= due'[q] + 1
    BY <1>3, <1>4, <1>5, <2>1, <2>4
  <2>9. ASSUME NEW q \in Asleep', tlink'[q] \in Asleep'
        PROVE  due'[q] <= due'[tlink'[q]] + 1
    <3>1. CASE q = p
      <4>1. w.next \in Asleep
        BY <1>1, <1>2, <1>3, <1>4, <2>1, <2>3, <2>5, <2>9, <3>1
      <4> QED BY <1>4, <2>5, <2>7, <3>1, <4>1
    <3>2. CASE q = w.ptr
      BY <1>1, <1>4, <2>5, <2>6, <3>2
    <3>3. CASE q # p /\ q # w.ptr
      <4>1. q \in Asleep /\ tlink'[q] = tlink[q] /\ tlink[q] \in Asleep
        BY <1>1, <1>2, <1>3, <1>4, <2>5, <2>9, <3>3
      <4> QED BY <1>4, <1>5, <4>1
    <3> QED BY <3>1, <3>2, <3>3
  <2> QED BY <2>8, <2>9 DEF InOrder
<1> QED BY <1>7, <1>8

\* A look at the queue makes everybody as much later as the clock has gone on.
LEMMA TickOrder ==
  ASSUME TimeInv, ListInv, OrderInv, FewSleepers, Tick
  PROVE  OrderInv'
<1>1. PICK d \in 1..MaxStep :
        due' = [p \in Proc |-> IF p \in Asleep THEN due[p] - d ELSE Awake]
  BY DEF Tick
<1>2. head' = head /\ tlink' = tlink /\ pc' = "wake" /\ pc = "run"
  BY DEF Tick, words
<1>3. d \in Int /\ d >= 1 /\ Awake \in Int /\ d \in 0..MaxStep
  BY Sizes, TimerAssumption DEF Awake
<1>4. \A p \in Proc : due[p] \in Int /\ due[p] <= Awake
  BY DEF TimeInv, Ahead
<1>5. ASSUME NEW p \in Proc PROVE due'[p] # Awake <=> due[p] # Awake
  BY <1>1, <1>3, <1>4 DEF Asleep
<1>6. Asleep' = Asleep
  BY <1>5 DEF Asleep, Awake
<1>7. \A q \in Asleep : q \in Proc /\ due[q] \in Int /\ due'[q] = due[q] - d
  BY <1>1, <1>4 DEF Asleep
<1>8. \A q \in Asleep : head \in Asleep
  BY ShortList
<1>9. InOrder'
  <2>1. ASSUME NEW q \in Asleep PROVE due'[head] <= due'[q] + 1
    BY <1>3, <1>7, <1>8 DEF OrderInv, InOrder
  <2>2. ASSUME NEW q \in Asleep, tlink[q] \in Asleep PROVE due'[q] <= due'[tlink[q]] + 1
    BY <1>3, <1>7, <2>2 DEF OrderInv, InOrder
  <2> QED BY <1>2, <1>6, <2>1, <2>2 DEF InOrder
<1>10. \A q \in Asleep : -2 <= due[q] /\ due[q] <= Horizon
  BY <1>2, <1>7, Sizes DEF OrderInv, NotLate
<1>11. \A q \in Asleep : -2 - d <= due'[q] /\ due'[q] <= Horizon - d
  BY <1>3, <1>7, <1>10, Sizes
<1>12. NotLate'
  BY <1>2, <1>3, <1>6, <1>11 DEF NotLate
<1> QED BY <1>9, <1>12 DEF OrderInv

\* Nobody comes to be late by leaving the list.
LEMMA WithoutNotLate ==
  ASSUME NotLate, NEW p, Asleep' = Asleep \ {p}, \A q \in Asleep' : due'[q] = due[q],
         pc' = pc
  PROVE  NotLate'
<1>1. PICK gone \in 0..MaxStep :
        /\ pc = "run" => gone = 0
        /\ \A q \in Asleep : -2 - gone <= due[q] /\ due[q] <= Horizon - gone
  BY DEF NotLate
<1>2. \A q \in Asleep' : -2 - gone <= due'[q] /\ due'[q] <= Horizon - gone
  BY <1>1
<1> QED BY <1>1, <1>2 DEF NotLate

\* update_time() takes out the head.
LEMMA WakeOrder ==
  ASSUME NoneStale, TimeInv, ListInv, OrderInv, FewSleepers, Wake
  PROVE  OrderInv'
<1>1. /\ pc' = pc /\ head' = tlink[head] /\ tlink' = tlink
      /\ due' = [due EXCEPT ![head] = Awake] /\ head # NoProc
  BY WakeAdvances
<1>2. /\ Asleep \subseteq Proc /\ head \in Asleep
      /\ \A q \in Asleep : tlink[q] # head
  BY <1>1, ShortList
<1>3. Asleep' = Asleep \ {head}
  BY <1>1, <1>2, AwakeOne DEF TimeInv
<1>4. \A q \in Asleep' : due'[q] = due[q]
  BY <1>1, <1>3 DEF TimeInv
<1>5. \A q \in Asleep' : tlink'[q] = IF tlink[q] = head THEN tlink[head] ELSE tlink[q]
  BY <1>1, <1>2, <1>3
<1>6. head' = IF head = head THEN tlink[head] ELSE head
  BY <1>1
<1>7. InOrder'
  BY <1>2, <1>3, <1>4, <1>5, <1>6, OrderWithout DEF OrderInv
<1> QED BY <1>1, <1>3, <1>4, <1>7, WithoutNotLate DEF OrderInv

\* purge_timer() takes out one anywhere.
LEMMA PurgeOrder ==
  ASSUME TimeInv, ListInv, OrderInv, FewSleepers, NEW p \in Proc, Purge(p)
  PROVE  OrderInv'
<1>1. /\ pc' = pc
      /\ head' = IF head = p THEN tlink[p] ELSE head
      /\ tlink' = [q \in Proc |-> IF tlink[q] = p /\ q # p /\ q \in Asleep
                                  THEN tlink[p] ELSE tlink[q]]
      /\ due' = [due EXCEPT ![p] = Awake]
  BY DEF Purge, HeadWithout, LinksWithout
<1>2. Asleep' = Asleep \ {p} /\ Asleep \subseteq Proc
  BY <1>1, AwakeOne, ShortList DEF TimeInv
<1>3. \A q \in Asleep' : q \in Proc /\ due'[q] = due[q]
  BY <1>1, <1>2 DEF TimeInv
<1>4. InOrder'
  <2>1. CASE p \in Asleep
    <3>1. \A q \in Asleep' : tlink'[q] = IF tlink[q] = p THEN tlink[p] ELSE tlink[q]
      BY <1>1, <1>2, <1>3
    <3> QED BY <1>1, <1>2, <1>3, <2>1, <3>1, OrderWithout DEF OrderInv
  <2>2. CASE p \notin Asleep
    <3>1. PICK L, n : Path(L, n, head, tlink, Asleep)
      BY DEF ListInv, Listed
    <3>2. head # p /\ \A q \in Asleep : tlink[q] # p
      BY <2>2, <3>1, LinkedSleep
    <3>3. Asleep' = Asleep /\ head' = head /\ \A q \in Asleep : tlink'[q] = tlink[q]
      BY <1>1, <1>2, <2>2, <3>2
    <3>4. \A q \in Asleep : head \in Asleep
      BY ShortList
    <3> QED BY <1>3, <3>3, <3>4 DEF OrderInv, InOrder
  <2> QED BY <2>1, <2>2
<1> QED BY <1>1, <1>2, <1>3, <1>4, WithoutNotLate DEF OrderInv

\* update_time() ends when the head is not late; then nobody is by more than
\* two ticks.
LEMMA ResumeOrder ==
  ASSUME TimeInv, ListInv, OrderInv, FewSleepers, Ample, Resume
  PROVE  OrderInv'
<1>1. /\ pc' = "run" /\ ~Expired /\ head' = head /\ tlink' = tlink /\ due' = due
  BY DEF Resume, words
<1>2. Asleep' = Asleep
  BY <1>1 DEF Asleep, Awake
<1>3. InOrder'
  BY <1>1, <1>2 DEF OrderInv, InOrder
<1>4. ASSUME NEW q \in Asleep PROVE -2 <= due[q] /\ due[q] <= Horizon
  <2>1. head \in Asleep /\ Asleep \subseteq Proc /\ q \in Proc /\ head \in Proc /\ head # NoProc
    BY ShortList, TimerAssumption
  <2>2. due[q] \in Int /\ due[head] \in Int /\ due[head] <= due[q] + 1
    BY <2>1 DEF OrderInv, InOrder, TimeInv
  <2>3. /\ -2 - MaxStep <= due[head] /\ due[head] <= Horizon
        /\ due[q] <= Horizon /\ MaxStep \in Int
    <3>1. MaxStep \in Nat
      BY TimerAssumption
    <3>2. PICK gone \in 0..MaxStep :
            \A x \in Asleep : -2 - gone <= due[x] /\ due[x] <= Horizon - gone
      BY DEF OrderInv, NotLate
    <3> QED BY <2>1, <2>2, <3>1, <3>2, Sizes
  <2>4. /\ clock \in Word /\ clock \in Int /\ time[head] \in Word /\ time[head] \in Int
    BY <2>1, Sizes DEF TimeInv, Word
  <2>5. PICK k \in Int : time[head] = clock + due[head] + 1 + k * Modulus
    BY <2>1 DEF TimeInv, Ahead, Shows
  <2> DEFINE z == -(due[head] + 1)
             j == -k
  <2>6. /\ z \in Int /\ j \in Int /\ -Half <= z /\ z < Half
    BY <2>2, <2>3, Sizes DEF Ample
  <2>7. clock - time[head] = z + j * Modulus
    <3>1. j * Modulus = -(k * Modulus) /\ k * Modulus \in Int
      BY Sizes
    <3> QED BY <2>2, <2>4, <2>5, <3>1
  <2>8. z > 0 => due[head] < -1
    BY <2>2
  <2>9. ~(z > 0) => -1 <= due[head]
    BY <2>2
  <2> HIDE DEF z, j
  <2>10. After(clock, time[head]) <=> z > 0
    BY <2>4, <2>6, <2>7, AfterIsOrder
  <2>11. ~After(clock, time[head])
    BY <1>1, <2>1 DEF Expired
  <2>12. -1 <= due[head]
    BY <2>9, <2>10, <2>11
  <2> QED BY <2>2, <2>3, <2>12
<1>5. 0 \in 0..MaxStep /\ -2 - 0 = -2 /\ Horizon - 0 = Horizon
  BY Sizes, TimerAssumption
<1>6. NotLate'
  BY <1>1, <1>2, <1>4, <1>5 DEF NotLate
<1> QED BY <1>3, <1>6 DEF OrderInv

\* tin: nobody who is queued is late.
LEMMA TinNotLate ==
  ASSUME TimeInv, OrderInv, NEW p \in Proc, NEW delay \in 0..Horizon, Tin(p, delay)
  PROVE  NotLate'
<1>1. /\ pc = "run" /\ pc' = pc /\ due' = [due EXCEPT ![p] = delay]
  BY DEF Tin
<1>2. \A q \in Asleep : -2 <= due[q] /\ due[q] <= Horizon
  <2>1. \A q \in Asleep : due[q] \in Int
    BY DEF Asleep, TimeInv
  <2> QED BY <1>1, <2>1, Sizes DEF OrderInv, NotLate
<1>3. \A q \in Asleep' : -2 <= due'[q] /\ due'[q] <= Horizon
  <2> SUFFICES ASSUME NEW q \in Asleep' PROVE -2 <= due'[q] /\ due'[q] <= Horizon
    OBVIOUS
  <2>1. q \in Proc /\ due \in [Proc -> Int]
    BY DEF Asleep, TimeInv
  <2>2. CASE q = p
    BY <1>1, <2>1, <2>2, Sizes
  <2>3. CASE q # p
    BY <1>1, <1>2, <2>1, <2>3 DEF Asleep, Awake
  <2> QED BY <2>2, <2>3
<1>4. 0 \in 0..MaxStep /\ -2 - 0 = -2 /\ Horizon - 0 = Horizon
  BY Sizes, TimerAssumption
<1> QED BY <1>1, <1>3, <1>4 DEF NotLate

\* The invariant that goes with the list, as long as no more than three wait.
\* With a fourth it fails: insert() can put one behind another that is due
\* later, and as Time_s is one tick more than the time compared, each of two
\* in front of a third can be a tick later than the next.
THEOREM OrderInvariance ==
  ASSUME NoneStale, FewSleepers, Ample
  PROVE  Spec => [](TimeInv /\ ListInv /\ OrderInv)
<1>1. Init => OrderInv
  <2> SUFFICES ASSUME Init PROVE OrderInv
    OBVIOUS
  <2>1. Asleep = {}
    BY DEF Init, Asleep
  <2>2. 0 \in 0..MaxStep
    BY TimerAssumption
  <2> QED BY <2>1, <2>2 DEF OrderInv, InOrder, NotLate
<1>2. TimeInv /\ ListInv /\ OrderInv /\ [Next]_vars => OrderInv'
  <2> SUFFICES ASSUME TimeInv, ListInv, OrderInv, [Next]_vars PROVE OrderInv'
    OBVIOUS
  <2>1. CASE Tick
    BY <2>1, TickOrder
  <2>2. CASE Wake
    BY <2>2, WakeOrder
  <2>3. CASE Resume
    BY <2>3, ResumeOrder
  <2>4. ASSUME NEW p \in Proc, Purge(p) PROVE OrderInv'
    BY <2>4, PurgeOrder
  <2>5. ASSUME NEW p \in Proc, NEW delay \in 0..Horizon, Tin(p, delay) PROVE OrderInv'
    BY <2>5, TinOrder, TinNotLate DEF OrderInv
  <2>6. CASE UNCHANGED vars
    BY <2>6 DEF vars, OrderInv, InOrder, NotLate, Asleep, Awake
  <2> QED BY <2>1, <2>2, <2>3, <2>4, <2>5, <2>6 DEF Next
<1> QED BY <1>1, <1>2, ListInvariance, PTL DEF Spec

\* Up to three sleepers: update_time() leaves nobody on the list who is more
\* than two ticks late, though it stops at the first who is not.
THEOREM NobodyIsLate ==
  ASSUME NoneStale, FewSleepers, Ample
  PROVE  Spec => []OnTime
<1>1. TimeInv /\ OrderInv => OnTime
  <2> SUFFICES ASSUME TimeInv, OrderInv, pc = "run", NEW q \in Asleep PROVE due[q] >= -2
    BY DEF OnTime
  <2>1. due[q] \in Int
    BY DEF Asleep, TimeInv
  <2> QED BY <2>1 DEF OrderInv, NotLate
<1> QED BY <1>1, OrderInvariance, PTL

\* Up to three sleepers: the list is in the order of its times.
THEOREM ListIsSorted ==
  ASSUME NoneStale, FewSleepers, Ample
  PROVE  Spec => []Sorted
<1>1. TimeInv /\ ListInv /\ OrderInv => Sorted
  <2> SUFFICES ASSUME TimeInv, ListInv, OrderInv PROVE Sorted
    OBVIOUS
  <2>1. PICK L, n : Path(L, n, head, tlink, Asleep)
    BY DEF ListInv, Listed
  <2>2. /\ n \in Nat /\ L[0] = head /\ Asleep \subseteq Proc
        /\ \A i \in 0..(n - 1) : L[i] \in Asleep /\ tlink[L[i]] = L[i + 1]
    BY <2>1 DEF Path
  <2>3. Cardinality(Asleep) = n /\ n <= 3
    BY <2>1, <2>2, PathCounts DEF FewSleepers
  <2>4. \A i \in 0..(n - 1) : Nth[i] = L[i]
    BY <2>1, <2>2, NthLists DEF ListInv
  <2>5. ASSUME NEW i \in 0..(n - 1), NEW j \in 0..(n - 1), i < j
        PROVE  ~After(Plus(time[L[i]], -1), time[L[j]])
    <3> DEFINE p == L[i]
               q == L[j]
    <3>1. /\ p \in Asleep /\ q \in Asleep /\ p \in Proc /\ q \in Proc
          /\ due[p] \in Int /\ due[q] \in Int
      BY <2>2 DEF TimeInv
    <3>2. due[p] <= due[q] + 1
      <4>1. i = 0 \/ (i = 1 /\ j = 2)
        BY <2>2, <2>3, <2>5
      <4>2. CASE i = 0
        BY <2>2, <3>1, <4>2 DEF OrderInv, InOrder
      <4>3. CASE i = 1 /\ j = 2
        <5>1. tlink[p] = q
          BY <2>2, <4>3
        <5> QED BY <3>1, <5>1 DEF OrderInv, InOrder
      <4> QED BY <4>1, <4>2, <4>3
    <3>3. due[q] - due[p] <= Horizon + 2
      <4>1. PICK gone \in 0..MaxStep :
              \A x \in Asleep : -2 - gone <= due[x] /\ due[x] <= Horizon - gone
        BY DEF OrderInv, NotLate
      <4>2. gone \in Int
        BY TimerAssumption
      <4> QED BY <3>1, <4>1, <4>2, Sizes
    <3>4. /\ time[p] \in Word /\ time[p] \in Int /\ time[q] \in Word /\ time[q] \in Int
          /\ clock \in Int /\ 0 <= time[p] /\ time[p] < Modulus
      BY <3>1, Sizes DEF TimeInv, Word
    <3>5. PICK k \in Int : time[p] = clock + due[p] + 1 + k * Modulus
      BY <3>1 DEF TimeInv, Ahead, Shows
    <3>6. PICK m \in Int : time[q] = clock + due[q] + 1 + m * Modulus
      BY <3>1 DEF TimeInv, Ahead, Shows
    <3> DEFINE x == time[p] - 1
               y == Plus(time[p], -1)
    <3>7. y \in Word /\ y \in Int /\ \E e \in {0, 1} : y = x + e * Modulus
      <4>1. x \in Int /\ -Modulus <= x /\ x < Modulus /\ x < 2 * Modulus
        BY <3>4, Sizes
      <4>2. y = x % Modulus
        BY <3>4 DEF Plus
      <4> HIDE DEF x, y
      <4>3. y = IF x < 0 THEN x + Modulus ELSE x
        BY <4>1, <4>2, WrapsOnce, Sizes
      <4>4. x >= 0 => y = x + 0 * Modulus
        BY <4>1, <4>3, Sizes
      <4>5. x < 0 => y = x + 1 * Modulus
        BY <4>1, <4>3, Sizes
      <4>6. x >= -1
        BY <3>4 DEF x
      <4> QED BY <4>1, <4>3, <4>4, <4>5, <4>6, Sizes DEF Word
    <3>8. PICK e \in {0, 1} : y = x + e * Modulus
      BY <3>7
    <3> HIDE DEF y
    <3> DEFINE z == due[p] - due[q] - 1
               c == k + e - m
    <3>9. /\ k * Modulus \in Int /\ m * Modulus \in Int /\ e * Modulus \in Int
          /\ c * Modulus = k * Modulus + e * Modulus - m * Modulus
      BY Sizes
    <3>10. y - time[q] = z + c * Modulus
      BY <3>1, <3>4, <3>5, <3>6, <3>7, <3>8, <3>9
    <3>11. z \in Int /\ c \in Int /\ -Half <= z /\ z < Half /\ ~(z > 0)
      BY <3>1, <3>2, <3>3, Sizes DEF Ample
    <3> HIDE DEF z, c, p, q
    <3>12. After(y, time[q]) <=> z > 0
      BY <3>4, <3>7, <3>10, <3>11, AfterIsOrder
    <3> QED BY <3>11, <3>12 DEF p, q, y
  <2> QED BY <2>3, <2>4, <2>5 DEF Sorted
<1> QED BY <1>1, OrderInvariance, PTL
=============================================================================
