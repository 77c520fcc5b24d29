-------------------------- MODULE RateLimiterProofs --------------------------
(***************************************************************************)
(* Proofs about the rate limiter, for every set of keys and requests, every *)
(* rate, burst and token size, every configuration and window length.      *)
(***************************************************************************)
EXTENDS RateLimiter, TLAPS

-----------------------------------------------------------------------------
(* The inductive invariant *)

\* What a bucket has admitted in a window and what it still holds never exceed
\* together what the window provides.  WindowBound alone is not inductive: it
\* does not say that a bucket that admitted its burst is empty.
Budgeted ==
    \A b \in Buckets : \A w \in 1..Window :
        spent[b][w] * Unit + Level(b) <= BurstOf(b) + (w - 1) * RateOf(b)

\* The bucket that refused a request fills up in time, if it ever holds a token.
RefillsInTime ==
    \A r \in Requests : refusal[r].wait >= 0 /\ BurstOf(refusal[r].bucket) >= Unit =>
        LET b == refusal[r].bucket IN Level(b) + refusal[r].wait * RateOf(b) >= Unit

LimiterInv == TypeOK /\ Budgeted /\ RefillsInTime

-----------------------------------------------------------------------------
(* Arithmetic of the buckets *)

LEMMA Rates ==
    ASSUME TypeOK, NEW b \in Buckets
    PROVE  RateOf(b) \in Nat /\ BurstOf(b) \in Nat
  BY DEF TypeOK, RateOf, BurstOf, Limits

LEMMA LevelType ==
    ASSUME TypeOK, NEW b \in Buckets
    PROVE  Level(b) \in Nat /\ Level(b) <= BurstOf(b)
<1>1. RateOf(b) \in Nat /\ BurstOf(b) \in Nat /\ tokens[b] \in Nat /\ age[b] \in Nat
  BY Rates DEF TypeOK
<1>2. age[b] * RateOf(b) \in Nat
  BY <1>1
<1> QED
  BY <1>1, <1>2 DEF Level, Smaller

\* A tick adds one refill to a bucket that is not full.
LEMMA LevelAfterTick ==
    ASSUME TypeOK, Tick, NEW b \in Buckets
    PROVE  Level(b)' = Smaller(Level(b) + RateOf(b), BurstOf(b))
<1> DEFINE R == RateOf(b)
           full == R = 0 \/ tokens[b] + age[b] * R >= BurstOf(b)
<1>1. /\ R \in Nat /\ BurstOf(b) \in Nat /\ tokens[b] \in Nat /\ age[b] \in Nat
  BY Rates DEF TypeOK
<1>2. /\ RateOf(b)' = R /\ BurstOf(b)' = BurstOf(b) /\ tokens'[b] = tokens[b]
      /\ age'[b] = IF full THEN age[b] ELSE age[b] + 1
  BY DEF Tick, RateOf, BurstOf
<1>3. (age[b] + 1) * R = age[b] * R + R /\ age[b] * R \in Nat
  BY <1>1
<1>4. Level(b)' = Smaller(tokens[b] + age'[b] * R, BurstOf(b))
  BY <1>2 DEF Level
<1>5. CASE full
  BY <1>1, <1>2, <1>3, <1>4, <1>5 DEF Level, Smaller
<1>6. CASE ~full
  BY <1>1, <1>2, <1>3, <1>4, <1>6 DEF Level, Smaller
<1> QED
  BY <1>5, <1>6

\* An access leaves what it says in its bucket, and the other buckets alone.
LEMMA LevelAfterAccess ==
    ASSUME TypeOK, NEW b \in Buckets, NEW level \in Nat, level <= BurstOf(b),
           Access(b, level), limits' = limits
    PROVE  /\ Level(b)' = level
           /\ \A c \in Buckets \ {b} : Level(c)' = Level(c)
<1>1. /\ \A c \in Buckets : RateOf(c)' = RateOf(c) /\ BurstOf(c)' = BurstOf(c)
      /\ tokens'[b] = level /\ age'[b] = 0
      /\ \A c \in Buckets \ {b} : tokens'[c] = tokens[c] /\ age'[c] = age[c]
  BY DEF Access, RateOf, BurstOf, TypeOK
<1>2. RateOf(b) \in Nat /\ BurstOf(b) \in Nat
  BY Rates
<1>3. 0 * RateOf(b) = 0
  BY <1>2
<1>4. Level(b)' = level
  BY <1>1, <1>2, <1>3 DEF Level, Smaller
<1> QED
  BY <1>1, <1>4 DEF Level

LEMMA LevelUnchanged ==
    ASSUME UNCHANGED <<limits, tokens, age>>, NEW b
    PROVE  Level(b)' = Level(b) /\ RateOf(b)' = RateOf(b) /\ BurstOf(b)' = BurstOf(b)
  BY DEF Level, RateOf, BurstOf

\* Rounding the wait up is enough to reach a whole token.
LEMMA RoundedUp ==
    ASSUME NEW need \in Nat \ {0}, NEW rate \in Nat \ {0}
    PROVE  /\ (need + rate - 1) \div rate \in Nat
           /\ ((need + rate - 1) \div rate) * rate >= need
<1> DEFINE x == need + rate - 1
           q == x \div rate
<1>1. x \in Nat /\ q \in Int /\ q >= 0
  OBVIOUS
<1>2. x < q * rate + rate
  OBVIOUS
<1>3. q * rate \in Int
  BY <1>1
<1> QED
  BY <1>1, <1>2, <1>3

LEMMA RetryAfterFits ==
    ASSUME TypeOK, NEW b \in Buckets, Level(b) < Unit
    PROVE  /\ RetryAfter(b) \in Nat \cup {Never}
           /\ RetryAfter(b) # Never =>
                  Level(b) + RetryAfter(b) * RateOf(b) >= Unit
<1> DEFINE need == Unit - Level(b)
<1>0. SUFFICES ASSUME RateOf(b) # 0
               PROVE  /\ RetryAfter(b) \in Nat
                      /\ Level(b) + RetryAfter(b) * RateOf(b) >= Unit
  BY DEF RetryAfter
<1>1. need \in Nat \ {0} /\ RateOf(b) \in Nat \ {0} /\ Level(b) \in Nat /\ Unit \in Nat
  BY <1>0, Rates, LevelType, LimiterAssumption
<1>2. RetryAfter(b) = (need + RateOf(b) - 1) \div RateOf(b)
  BY <1>0 DEF RetryAfter
<1>3. RetryAfter(b) \in Nat /\ RetryAfter(b) * RateOf(b) >= need
  BY <1>1, <1>2, RoundedUp
<1>4. RetryAfter(b) * RateOf(b) \in Nat
  BY <1>1, <1>3
<1> QED
  BY <1>1, <1>3, <1>4

-----------------------------------------------------------------------------
(* One access *)

\* Taking a token moves Unit from the level to every window.
LEMMA TakeKeepsBudget ==
    ASSUME LimiterInv, NEW b \in Buckets, Level(b) >= Unit,
           Access(b, Level(b) - Unit), limits' = limits,
           spent' = [spent EXCEPT ![b] = [w \in 1..Window |-> @[w] + 1]]
    PROVE  Budgeted'
<1> USE DEF LimiterInv
<1>0. /\ Level(b) \in Nat /\ Level(b) <= BurstOf(b) /\ BurstOf(b) \in Nat
      /\ Unit \in Nat
  BY LevelType, Rates, LimiterAssumption
<1>1. Level(b) - Unit \in Nat /\ Level(b) - Unit <= BurstOf(b) /\ Unit \in Nat
  BY <1>0
<1>2. /\ Level(b)' = Level(b) - Unit
      /\ \A c \in Buckets \ {b} : Level(c)' = Level(c)
  BY <1>1, LevelAfterAccess
<1> SUFFICES ASSUME NEW c \in Buckets, NEW w \in 1..Window
             PROVE  (spent[c][w] * Unit + Level(c) <= BurstOf(c) + (w - 1) * RateOf(c))'
  BY DEF Budgeted
<1>3. RateOf(c)' = RateOf(c) /\ BurstOf(c)' = BurstOf(c)
  BY DEF RateOf, BurstOf
<1>4. spent[c][w] * Unit + Level(c) <= BurstOf(c) + (w - 1) * RateOf(c)
  BY DEF Budgeted
<1>5. CASE c # b
  <2>1. spent'[c][w] = spent[c][w] /\ Level(c)' = Level(c)
    BY <1>2, <1>5 DEF TypeOK
  <2> QED
    BY <2>1, <1>3, <1>4
<1>6. CASE c = b
  <2>1. spent'[c][w] = spent[c][w] + 1 /\ spent[c][w] \in Nat
    BY <1>6 DEF TypeOK
  <2>2. (spent[c][w] + 1) * Unit = spent[c][w] * Unit + Unit /\ spent[c][w] * Unit \in Nat
    BY <2>1, <1>1
  <2>3. Level(c) \in Nat
    BY LevelType
  <2>4. spent'[c][w] * Unit + Level(c)' = spent[c][w] * Unit + Level(c)
    BY <2>1, <2>2, <2>3, <1>1, <1>2, <1>6
  <2> QED
    BY <2>4, <1>3, <1>4
<1> QED
  BY <1>5, <1>6

\* What one access does to the invariant, whichever bucket it is.
LEMMA TryConsumeKeepsInv ==
    ASSUME LimiterInv, NEW r \in Requests, NEW b \in Buckets, NEW next \in {"key", "passed"},
           TryConsume(r, b, next), UNCHANGED <<active, limits, key>>
    PROVE  LimiterInv'
<1> USE DEF LimiterInv
<1>1. Unit \in Nat \ {0} /\ Window \in Nat
  BY LimiterAssumption
<1>3. \A c \in Buckets : RateOf(c)' = RateOf(c) /\ BurstOf(c)' = BurstOf(c)
  BY DEF RateOf, BurstOf
<1>4. CASE /\ Level(b) >= Unit
           /\ Access(b, Level(b) - Unit)
           /\ pc' = [pc EXCEPT ![r] = next]
           /\ spent' = [spent EXCEPT ![b] = [w \in 1..Window |-> @[w] + 1]]
           /\ refusal' = [q \in Requests |-> IF refusal[q].bucket = b THEN NoRefusal
                                             ELSE refusal[q]]
  <2>0. Level(b) \in Nat /\ Level(b) <= BurstOf(b) /\ BurstOf(b) \in Nat
    BY LevelType, Rates
  <2>1. Level(b) - Unit \in Nat /\ Level(b) - Unit <= BurstOf(b)
    BY <1>1, <1>4, <2>0
  <2>2. \A c \in Buckets \ {b} : Level(c)' = Level(c)
    BY <1>4, <2>1, LevelAfterAccess
  <2>3. TypeOK'
    <3>1. tokens' \in [Buckets -> Nat] /\ age' \in [Buckets -> Nat]
      BY <1>4, <2>1 DEF Access, TypeOK
    <3>2. \A c \in Buckets : tokens'[c] <= BurstOf(c)'
      BY <1>3, <1>4, <2>1 DEF Access, TypeOK
    <3>3. spent' \in [Buckets -> [1..Window -> Nat]]
      <4>0. spent[b] \in [1..Window -> Nat]
        BY DEF TypeOK
      <4>1. ASSUME NEW w \in 1..Window PROVE spent[b][w] + 1 \in Nat
        <5>1. spent[b][w] \in Nat
          BY <4>0
        <5> QED
          BY <5>1
      <4>2. spent' = [spent EXCEPT ![b] = [w \in 1..Window |-> spent[b][w] + 1]]
        BY <1>4
      <4>3. [w \in 1..Window |-> spent[b][w] + 1] \in [1..Window -> Nat]
        BY <4>1
      <4> QED
        BY <4>2, <4>3 DEF TypeOK
    <3>4. refusal' \in [Requests -> [bucket : Buckets, wait : Nat \cup {Never}]]
      BY <1>4 DEF TypeOK, NoRefusal, Never, Buckets
    <3>5. pc' \in [Requests -> {"idle", "global", "key", "passed", "refused"}]
      BY <1>4 DEF TypeOK
    <3> QED
      BY <1>4, <3>1, <3>2, <3>3, <3>4, <3>5 DEF TypeOK
  <2>4. Budgeted'
    BY <1>4, TakeKeepsBudget
  <2>5. RefillsInTime'
    <3> SUFFICES ASSUME NEW q \in Requests, refusal'[q].wait >= 0,
                        (BurstOf(refusal[q].bucket) >= Unit)'
                 PROVE  (LET c == refusal[q].bucket IN
                         Level(c) + refusal[q].wait * RateOf(c) >= Unit)'
      BY DEF RefillsInTime
    <3>1. refusal[q].bucket # b /\ refusal'[q] = refusal[q]
      BY <1>4 DEF NoRefusal, Never
    <3>2. refusal[q].bucket \in Buckets \ {b}
      BY <3>1 DEF TypeOK
    <3> QED
      BY <1>3, <2>2, <3>1, <3>2 DEF RefillsInTime
  <2> QED
    BY <2>3, <2>4, <2>5
<1>5. CASE /\ Level(b) < Unit
           /\ Access(b, Level(b))
           /\ pc' = [pc EXCEPT ![r] = "refused"]
           /\ refusal' = [refusal EXCEPT ![r] = [bucket |-> b, wait |-> RetryAfter(b)]]
           /\ UNCHANGED spent
  <2>1. Level(b) \in Nat /\ Level(b) <= BurstOf(b)
    BY LevelType
  <2>2. \A c \in Buckets : Level(c)' = Level(c)
    BY <1>5, <2>1, LevelAfterAccess
  <2>3. /\ RetryAfter(b) \in Nat \cup {Never}
        /\ RetryAfter(b) # Never => Level(b) + RetryAfter(b) * RateOf(b) >= Unit
    BY <1>5, RetryAfterFits
  <2>4. TypeOK'
    <3>1. tokens' \in [Buckets -> Nat] /\ age' \in [Buckets -> Nat]
      BY <1>5, <2>1 DEF Access, TypeOK
    <3>2. \A c \in Buckets : tokens'[c] <= BurstOf(c)'
      BY <1>3, <1>5, <2>1 DEF Access, TypeOK
    <3>3. refusal' \in [Requests -> [bucket : Buckets, wait : Nat \cup {Never}]]
      BY <1>5, <2>3 DEF TypeOK
    <3> QED
      BY <1>5, <3>1, <3>2, <3>3 DEF TypeOK
  <2>5. Budgeted'
    BY <1>3, <1>5, <2>2 DEF Budgeted
  <2>6. RefillsInTime'
    <3> SUFFICES ASSUME NEW q \in Requests, refusal'[q].wait >= 0,
                        (BurstOf(refusal[q].bucket) >= Unit)'
                 PROVE  (LET c == refusal[q].bucket IN
                         Level(c) + refusal[q].wait * RateOf(c) >= Unit)'
      BY DEF RefillsInTime
    <3>1. CASE q = r
      BY <1>3, <1>5, <2>2, <2>3, <3>1 DEF TypeOK, Never
    <3>2. CASE q # r
      <4>1. refusal'[q] = refusal[q] /\ refusal[q].bucket \in Buckets
        BY <1>5, <3>2 DEF TypeOK
      <4> QED
        BY <1>3, <2>2, <4>1 DEF RefillsInTime
    <3> QED
      BY <3>1, <3>2
  <2> QED
    BY <2>4, <2>5, <2>6
<1> QED
  BY <1>4, <1>5 DEF TryConsume

-----------------------------------------------------------------------------
(* Time *)

\* A tick of a wait is worth one refill.
LEMMA OneTickLess ==
    ASSUME NEW n \in Nat, NEW rate \in Nat
    PROVE  /\ (n - 1) * rate + rate = n * rate
           /\ (n - 1) * rate \in Int /\ n * rate \in Nat
           /\ n > 0 => (n - 1) * rate >= 0
  OBVIOUS

LEMMA TickKeepsInv ==
    ASSUME LimiterInv, Tick
    PROVE  LimiterInv'
<1> USE DEF LimiterInv
<1>1. Unit \in Nat \ {0} /\ Window \in Nat \ {0}
  BY LimiterAssumption
<1>2. \A c \in Buckets : RateOf(c)' = RateOf(c) /\ BurstOf(c)' = BurstOf(c)
  BY DEF RateOf, BurstOf, Tick
<1>3. TypeOK'
  <2>1. spent' \in [Buckets -> [1..Window -> Nat]]
    <3>1. ASSUME NEW c \in Buckets, NEW w \in 1..Window
          PROVE  (IF w = 1 THEN 0 ELSE spent[c][w - 1]) \in Nat
      <4>1. CASE w = 1
        BY <4>1
      <4>2. CASE w # 1
        <5>1. w - 1 \in 1..Window
          BY <1>1, <4>2
        <5>2. spent[c] \in [1..Window -> Nat]
          BY DEF TypeOK
        <5> QED
          BY <4>2, <5>1, <5>2
      <4> QED
        BY <4>1, <4>2
    <3> QED
      BY <3>1 DEF Tick
  <2>2. age' \in [Buckets -> Nat]
    BY DEF Tick, TypeOK
  <2>3. refusal' \in [Requests -> [bucket : Buckets, wait : Nat \cup {Never}]]
    <3>1. ASSUME NEW q \in Requests, refusal[q].wait > 0
          PROVE  [refusal[q] EXCEPT !.wait = @ - 1] \in
                     [bucket : Buckets, wait : Nat \cup {Never}]
      <4>1. refusal[q] \in [bucket : Buckets, wait : Nat \cup {Never}]
        BY DEF TypeOK
      <4>2. refusal[q].wait \in Nat \cup {Never}
        BY <4>1
      <4>3. refusal[q].wait - 1 \in Nat
        BY <3>1, <4>2 DEF Never
      <4> QED
        BY <4>1, <4>3
    <3>2. \A q \in Requests : refusal[q] \in [bucket : Buckets, wait : Nat \cup {Never}]
      BY DEF TypeOK
    <3>3. refusal' = [q \in Requests |-> IF refusal[q].wait > 0
                                         THEN [refusal[q] EXCEPT !.wait = @ - 1]
                                         ELSE refusal[q]]
      BY DEF Tick
    <3> QED
      BY <3>1, <3>2, <3>3
  <2> QED
    BY <1>1, <1>2, <2>1, <2>2, <2>3 DEF Tick, TypeOK
<1>5. Budgeted'
  <2> SUFFICES ASSUME NEW c \in Buckets, NEW w \in 1..Window
               PROVE  (spent[c][w] * Unit + Level(c) <= BurstOf(c) + (w - 1) * RateOf(c))'
    BY DEF Budgeted
  <2>1. /\ RateOf(c) \in Nat /\ BurstOf(c) \in Nat /\ Level(c) \in Nat
        /\ Level(c)' = Smaller(Level(c) + RateOf(c), BurstOf(c))
    BY Rates, LevelType, LevelAfterTick
  <2>2. Level(c)' <= BurstOf(c) /\ Level(c)' <= Level(c) + RateOf(c) /\ Level(c)' \in Nat
    BY <2>1 DEF Smaller
  <2>3. CASE w = 1
    <3>1. spent'[c][w] = 0
      BY <2>3 DEF Tick
    <3>2. 0 * Unit = 0 /\ (1 - 1) * RateOf(c) = 0
      BY <1>1, <2>1
    <3> QED
      BY <1>2, <2>1, <2>2, <2>3, <3>1, <3>2
  <2>4. CASE w # 1
    <3>1. w - 1 \in 1..Window /\ spent'[c][w] = spent[c][w - 1]
      BY <1>1, <2>4 DEF Tick
    <3>2. spent[c][w - 1] * Unit + Level(c) <= BurstOf(c) + ((w - 1) - 1) * RateOf(c)
      BY <3>1 DEF Budgeted
    <3>3. spent[c][w - 1] * Unit \in Nat
      BY <1>1, <3>1 DEF TypeOK
    <3>4. ((w - 1) - 1) * RateOf(c) + RateOf(c) = (w - 1) * RateOf(c)
          /\ ((w - 1) - 1) * RateOf(c) \in Int
      BY <2>1
    <3> QED
      BY <1>2, <2>1, <2>2, <3>1, <3>2, <3>3, <3>4
  <2> QED
    BY <2>3, <2>4
<1>6. RefillsInTime'
  <2> SUFFICES ASSUME NEW q \in Requests, refusal'[q].wait >= 0,
                      (BurstOf(refusal[q].bucket) >= Unit)'
               PROVE  (LET c == refusal[q].bucket IN
                       Level(c) + refusal[q].wait * RateOf(c) >= Unit)'
    BY DEF RefillsInTime
  <2> DEFINE c == refusal[q].bucket
             n == refusal[q].wait
  <2>1. c \in Buckets /\ n \in Nat /\ refusal'[q].bucket = c
        /\ refusal'[q].wait = IF n > 0 THEN n - 1 ELSE n
    BY DEF Tick, TypeOK, Never
  <2>2. /\ RateOf(c) \in Nat /\ BurstOf(c) >= Unit /\ BurstOf(c) \in Nat /\ Level(c) \in Nat
        /\ Level(c)' = Smaller(Level(c) + RateOf(c), BurstOf(c))
    <3>1. BurstOf(c) >= Unit
      <4>1. limits' = limits
        BY DEF Tick
      <4>2. refusal'[q].bucket = refusal[q].bucket
        BY <2>1
      <4> QED
        BY <4>1, <4>2 DEF BurstOf
    <3> QED
      BY <2>1, <3>1, Rates, LevelType, LevelAfterTick
  <2>3. Level(c) + n * RateOf(c) >= Unit
    BY <2>1, <2>2 DEF RefillsInTime
  <2>4. (n - 1) * RateOf(c) + RateOf(c) = n * RateOf(c)
        /\ (n - 1) * RateOf(c) \in Int /\ n * RateOf(c) \in Nat
        /\ (n > 0 => (n - 1) * RateOf(c) >= 0)
    BY <2>1, <2>2, OneTickLess
  <2>5. Level(c)' + refusal'[q].wait * RateOf(c) >= Unit
    <3>1. CASE n > 0
      BY <1>1, <2>1, <2>2, <2>3, <2>4, <3>1 DEF Smaller
    <3>2. CASE n = 0
      <4>1. n * RateOf(c) = 0
        BY <2>2, <3>2
      <4> QED
        BY <1>1, <2>1, <2>2, <2>3, <3>2, <4>1 DEF Smaller
    <3> QED
      BY <2>1, <3>1, <3>2
  <2> QED
    BY <1>2, <2>1, <2>5
<1> QED
  BY <1>3, <1>5, <1>6

-----------------------------------------------------------------------------
(* The specification *)

LEMMA LimiterInvInductive == LimiterInv /\ [Next]_vars => LimiterInv'
<1> SUFFICES ASSUME LimiterInv, [Next]_vars PROVE LimiterInv'
  OBVIOUS
<1> USE DEF LimiterInv
<1>1. ASSUME NEW r \in Requests, NEW k \in Keys, Arrive(r, k)
      PROVE  LimiterInv'
  <2>1. /\ UNCHANGED <<limits, tokens, age, spent>>
        /\ refusal' = [refusal EXCEPT ![r] = NoRefusal]
    BY <1>1 DEF Arrive
  <2>2. TypeOK'
    BY <1>1 DEF Arrive, TypeOK, NoRefusal, Never, Buckets, BurstOf
  <2>3. Budgeted'
    BY <2>1, LevelUnchanged DEF Budgeted
  <2>4. RefillsInTime'
    BY <2>1, LevelUnchanged DEF RefillsInTime, NoRefusal, Never, TypeOK
  <2> QED
    BY <2>2, <2>3, <2>4
<1>2. ASSUME NEW r \in Requests, AcquireGlobal(r)
      PROVE  LimiterInv'
  BY <1>2, TryConsumeKeepsInv DEF AcquireGlobal, Buckets
<1>3. ASSUME NEW r \in Requests, AcquireKey(r)
      PROVE  LimiterInv'
  BY <1>3, TryConsumeKeepsInv DEF AcquireKey, TypeOK
<1>4. ASSUME NEW c \in Configs, Reload(c)
      PROVE  LimiterInv'
  <2>1. UNCHANGED <<limits, tokens, age, spent, refusal>>
    BY <1>4 DEF Reload
  <2>2. TypeOK'
    BY <1>4, LimiterAssumption DEF Reload, TypeOK, BurstOf
  <2>3. Budgeted' /\ RefillsInTime'
    BY <2>1, LevelUnchanged DEF Budgeted, RefillsInTime
  <2> QED
    BY <2>2, <2>3
<1>5. CASE Tick
  BY <1>5, TickKeepsInv
<1>6. CASE UNCHANGED vars
  <2>1. UNCHANGED <<limits, tokens, age, spent, refusal>>
    BY <1>6 DEF vars
  <2>2. TypeOK'
    BY <1>6 DEF vars, TypeOK, BurstOf
  <2>3. Budgeted' /\ RefillsInTime'
    BY <2>1, LevelUnchanged DEF Budgeted, RefillsInTime
  <2> QED
    BY <2>2, <2>3
<1> QED
  BY <1>1, <1>2, <1>3, <1>4, <1>5, <1>6 DEF Next

LEMMA LimiterInvInit == Init => LimiterInv
<1> SUFFICES ASSUME Init PROVE LimiterInv
  OBVIOUS
<1> USE LimiterAssumption
<1>1. limits \in Limits
  BY DEF Init
<1>2. \A b \in Buckets : RateOf(b) \in Nat /\ BurstOf(b) \in Nat
  BY <1>1 DEF RateOf, BurstOf, Limits
<1>3. TypeOK
  BY <1>1, <1>2 DEF Init, TypeOK, NoRefusal, Never, Buckets
<1>4. Budgeted
  <2> SUFFICES ASSUME NEW b \in Buckets, NEW w \in 1..Window
               PROVE  spent[b][w] * Unit + Level(b) <= BurstOf(b) + (w - 1) * RateOf(b)
    BY DEF Budgeted
  <2>1. spent[b][w] = 0 /\ 0 * Unit = 0
    BY DEF Init
  <2>2. Level(b) \in Nat /\ Level(b) <= BurstOf(b)
    BY <1>3, LevelType
  <2>3. (w - 1) * RateOf(b) \in Nat /\ BurstOf(b) \in Nat
    BY <1>2
  <2> QED
    BY <2>1, <2>2, <2>3
<1>5. RefillsInTime
  BY DEF Init, RefillsInTime, NoRefusal, Never
<1> QED
  BY <1>3, <1>4, <1>5 DEF LimiterInv

LEMMA LimiterInvHolds == Spec => []LimiterInv
  BY LimiterInvInit, LimiterInvInductive, PTL DEF Spec

\* Every variable keeps its type, and no bucket ever exceeds its burst
\* (ratelimit.rs:47-61).
THEOREM LimiterTypeCorrect == Spec => []TypeOK
<1>1. LimiterInv => TypeOK
  BY DEF LimiterInv
<1> QED
  BY <1>1, LimiterInvHolds, PTL

\* No bucket admits more in any w ticks than its burst and the refill of those
\* ticks, for any rates, bursts and interleaving (ratelimit.rs:47-61, 104-115).
THEOREM AdmissionsBounded == Spec => []WindowBound
<1>1. LimiterInv => WindowBound
  <2> SUFFICES ASSUME LimiterInv, NEW b \in Buckets, NEW w \in 1..Window
               PROVE  spent[b][w] * Unit <= BurstOf(b) + (w - 1) * RateOf(b)
    BY DEF WindowBound
  <2>1. spent[b][w] * Unit + Level(b) <= BurstOf(b) + (w - 1) * RateOf(b)
    BY DEF LimiterInv, Budgeted
  <2>2. /\ spent[b][w] \in Nat /\ Unit \in Nat /\ Level(b) \in Nat
        /\ RateOf(b) \in Nat /\ BurstOf(b) \in Nat
    BY LevelType, Rates, LimiterAssumption DEF LimiterInv, TypeOK
  <2>3. spent[b][w] * Unit \in Nat /\ (w - 1) * RateOf(b) \in Nat
    BY <2>2
  <2> QED
    BY <2>1, <2>2, <2>3
<1> QED
  BY <1>1, LimiterInvHolds, PTL

\* For any rates and bursts, zero ones included, waiting for Retry-After is
\* enough wherever the bucket's burst is a token or more (ratelimit.rs:56-59).
THEOREM RetryAfterCorrect == Spec => []RetryAfterSuffices
<1>1. LimiterInv => RetryAfterSuffices
  <2> SUFFICES ASSUME LimiterInv, NEW r \in Requests, refusal[r].wait = 0,
                      BurstOf(refusal[r].bucket) >= Unit
               PROVE  Level(refusal[r].bucket) >= Unit
    BY DEF RetryAfterSuffices
  <2>1. refusal[r].bucket \in Buckets
    BY DEF LimiterInv, TypeOK
  <2>2. /\ RateOf(refusal[r].bucket) \in Nat /\ Level(refusal[r].bucket) \in Nat
    BY <2>1, LevelType, Rates DEF LimiterInv
  <2>3. 0 * RateOf(refusal[r].bucket) = 0
    BY <2>2
  <2>4. Level(refusal[r].bucket) + 0 * RateOf(refusal[r].bucket) >= Unit
    BY DEF LimiterInv, RefillsInTime
  <2> QED
    BY <2>2, <2>3, <2>4
<1> QED
  BY <1>1, LimiterInvHolds, PTL
=============================================================================
