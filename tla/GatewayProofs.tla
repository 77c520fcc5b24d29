--------------------------- MODULE GatewayProofs ---------------------------
(***************************************************************************)
(* Proofs about the gateway and the request log, for any configurations,   *)
(* requests and edits.  The log is proved first, by itself: what is still  *)
(* to be written always belongs to a request that was answered, and a      *)
(* deletion never takes a request with attempts.  Every step of the        *)
(* gateway is a step of the log or leaves it alone.                        *)
(*                                                                         *)
(* After them the streams: their steps implement StreamPromise, and the    *)
(* pieces the parsers hand over put the answer together again.  What a     *)
(* provider is told of a conversation is shown by induction over its       *)
(* messages and over the parts of each (SeqInduction).                     *)
(*                                                                         *)
(* The rules of a configuration are applied by a fold over a sequence.     *)
(* What it computes is shown by induction over its length: the set of the  *)
(* lengths for which it holds contains every number (SetInduction).        *)
(***************************************************************************)
EXTENDS Gateway, SequenceTheorems, WellFoundedInduction, TLAPS

-----------------------------------------------------------------------------
(* Induction and folds *)

\* Induction, without an operator for a parameter.
LEMMA SmallestOf ==
    ASSUME NEW T, T \subseteq Nat, T # {}
    PROVE  \E n \in T : \A m \in T : n <= m
<1> DEFINE R == OpToRel(<, Nat)
<1>1. IsWellFoundedOn(R, Nat)
  BY NatLessThanWellFounded
<1>2. PICK n \in T : \A m \in T : ~ (<<m, n>> \in R)
  <2> HIDE DEF R
  <2> QED
    BY <1>1, WFMin
<1>3. ASSUME NEW m \in T PROVE  n <= m
  <2>1. ~ (<<m, n>> \in {ss \in Nat \X Nat : ss[1] < ss[2]})
    BY <1>2 DEF OpToRel
  <2>2. m \in Nat /\ n \in Nat
    OBVIOUS
  <2> QED
    BY <2>1, <2>2
<1> QED
  BY <1>3

LEMMA SetInduction ==
    ASSUME NEW S, 0 \in S, \A n \in Nat : n \in S => n + 1 \in S
    PROVE  Nat \subseteq S
<1> DEFINE T == Nat \ S
<1>1. SUFFICES ASSUME T # {} PROVE FALSE
  OBVIOUS
<1>2. PICK n \in T : \A m \in T : n <= m
  BY <1>1, SmallestOf
<1>3. n # 0 /\ n - 1 \in Nat /\ n - 1 \notin T /\ (n - 1) + 1 = n
  BY <1>2
<1> QED
  BY <1>3

\* A set of indices has a largest one, and the others are smaller.
LEMMA LargestIndex ==
    ASSUME NEW k \in Nat, NEW s \in SUBSET (1..k+1), s # {}
    PROVE  Max(s) \in s /\ s \ {Max(s)} \in SUBSET (1..k)
<1>1. \E x \in s : \A y \in s : x >= y
  <2> DEFINE T == {n \in Nat : \A y \in s : y <= n}
  <2>1. k + 1 \in T
    OBVIOUS
  <2>2. PICK n \in T : \A m \in T : n <= m
    BY <2>1, SmallestOf
  <2>3. n \in s
    <3>1. SUFFICES ASSUME n \notin s PROVE FALSE
      OBVIOUS
    <3>3. \A y \in s : y <= n /\ y # n /\ y \in Nat /\ y > 0
      BY <2>2, <3>1
    <3>4. n \in Nat /\ n > 0
      <4>1. PICK z \in s : TRUE
        OBVIOUS
      <4>2. n \in Nat
        OBVIOUS
      <4> QED
        BY <3>3, <4>1, <4>2
    <3>2. n - 1 \in T
      BY <3>3, <3>4
    <3> QED
      BY <2>2, <3>2
  <2> QED
    BY <2>2, <2>3
<1>2. Max(s) \in s /\ \A y \in s : Max(s) >= y
  BY <1>1 DEF Max
<1>3. ASSUME NEW y \in s \ {Max(s)} PROVE y \in 1..k
  <2>1. y \in s /\ y \in 1..k+1 /\ Max(s) \in 1..k+1 /\ y # Max(s) /\ Max(s) >= y
    BY <1>2
  <2> QED
    BY <2>1
<1> QED
  BY <1>2, <1>3

LEMMA LastOfRange ==
    ASSUME NEW k \in Nat
    PROVE  Max(1..k+1) = k + 1 /\ (1..k+1) \ {k + 1} = 1..k /\ 1..k+1 # {}
<1>1. Max(1..k+1) = k + 1
  <2>1. \E x \in 1..k+1 : \A y \in 1..k+1 : x >= y
    OBVIOUS
  <2> QED
    BY <2>1 DEF Max
<1>2. \A x : x \in (1..k+1) \ {k + 1} <=> x \in 1..k
  OBVIOUS
<1>3. (1..k+1) \ {k + 1} = 1..k
  BY <1>2
<1>4. k + 1 \in 1..k+1
  OBVIOUS
<1> QED
  BY <1>1, <1>3, <1>4

RulesStep(t, r, rule) ==
    IF /\ RuleMatches(rule, r)
       /\ rule.tier \in TierNames
       /\ Rank[rule.tier] > Rank[t]
    THEN rule.tier ELSE t

RulesFold(g, t, r, rules) ==
    g = [s \in SUBSET DOMAIN rules |->
            IF s = {} THEN t ELSE RulesStep(g[s \ {Max(s)}], r, rules[Max(s)])]


LEMMA LargestIsIn ==
    ASSUME NEW n \in Nat, NEW s \in SUBSET (1..n), s # {}
    PROVE  Max(s) \in 1..n /\ Max(s) \in s
<1>1. n # 0
  <2>1. PICK x \in s : TRUE
    OBVIOUS
  <2>2. x \in 1..n
    BY <2>1
  <2> QED
    BY <2>2
<1> DEFINE k == n - 1
<1>2. k \in Nat /\ n = k + 1
  BY <1>1
<1> HIDE DEF k
<1>3. s \in SUBSET (1..k+1)
  BY <1>2
<1>4. Max(s) \in s
  BY <1>2, <1>3, LargestIndex
<1> QED
  BY <1>4

FoldedBy(g, n, base, F) ==
    \A s \in SUBSET (1..n) :
        g[s] = IF s = {} THEN base ELSE F[<<Max(s), g[s \ {Max(s)}]>>]

\* The recursion of a fold over n indices is well-founded.
LEMMA FoldExists ==
    ASSUME NEW n \in Nat, NEW V, NEW base \in V, NEW F \in [(1..n) \X V -> V]
    PROVE  \E g \in [SUBSET (1..n) -> V] : FoldedBy(g, n, base, F)
<1> DEFINE Rhs(g, s) == IF s = {} THEN base ELSE F[<<Max(s), g[s \ {Max(s)}]>>]
           Good(k) == \E g \in [SUBSET (1..n) -> V] : \A s \in SUBSET (1..k) : g[s] = Rhs(g, s)
           S == {k \in Nat : k <= n => Good(k)}
<1> HIDE DEF Good
<1>1. 0 \in S
  <2>1. [s \in SUBSET (1..n) |-> base] \in [SUBSET (1..n) -> V]
    OBVIOUS
  <2>2. \A s \in SUBSET (1..0) : [x \in SUBSET (1..n) |-> base][s] = base /\ s = {}
    OBVIOUS
  <2>3. Good(0)
    BY <2>1, <2>2 DEF Good
  <2> QED
    BY <2>3
<1>2. ASSUME NEW k \in Nat, k \in S, k + 1 <= n
      PROVE  Good(k + 1)
  <2>1. PICK g \in [SUBSET (1..n) -> V] : \A s \in SUBSET (1..k) : g[s] = Rhs(g, s)
    <3>1. Good(k)
      BY <1>2
    <3> QED
      BY <3>1 DEF Good
  <2> DEFINE h == [s \in SUBSET (1..n) |-> IF s \subseteq 1..k+1 THEN Rhs(g, s) ELSE base]
  <2>2. ASSUME NEW s \in SUBSET (1..k+1)
        PROVE  /\ Rhs(g, s) \in V
               /\ s # {} => s \ {Max(s)} \in SUBSET (1..k)
    <3>1. CASE s = {}
      BY <3>1
    <3>2. CASE s # {}
      <4>1. Max(s) \in s /\ s \ {Max(s)} \in SUBSET (1..k)
        BY <3>2, LargestIndex
      <4>2. Max(s) \in 1..n /\ s \ {Max(s)} \in SUBSET (1..n)
        <5>1. 1..k+1 \subseteq 1..n /\ 1..k \subseteq 1..n
          BY <1>2
        <5>2. Max(s) \in 1..k+1
          BY <4>1
        <5> QED
          BY <4>1, <5>1, <5>2
      <4>3. g[s \ {Max(s)}] \in V
        BY <4>2
      <4> QED
        BY <3>2, <4>1, <4>2, <4>3
    <3> QED
      BY <3>1, <3>2
  <2>3. h \in [SUBSET (1..n) -> V]
    BY <2>2
  <2>4. ASSUME NEW s \in SUBSET (1..k+1)
        PROVE  h[s] = Rhs(h, s)
    <3>1. \A x \in SUBSET (1..k) : h[x] = g[x]
      <4>1. ASSUME NEW x \in SUBSET (1..k) PROVE x \in SUBSET (1..n) /\ x \subseteq 1..k+1
        BY <1>2
      <4> QED
        BY <2>1, <4>1
    <3>2. h[s] = Rhs(g, s)
      <4>1. s \in SUBSET (1..n)
        BY <1>2
      <4> QED
        BY <4>1
    <3>3. CASE s = {}
      BY <3>2, <3>3
    <3>4. CASE s # {}
      <4>1. h[s \ {Max(s)}] = g[s \ {Max(s)}]
        BY <2>2, <3>1, <3>4
      <4> HIDE DEF h
      <4> QED
        BY <3>2, <3>4, <4>1
    <3> QED
      BY <3>3, <3>4
  <2> HIDE DEF h
  <2> QED
    BY <2>3, <2>4 DEF Good
<1>3. \A k \in Nat : k \in S => k + 1 \in S
  BY <1>2
<1>4. Nat \subseteq S
  <2> HIDE DEF S
  <2> QED
    BY <1>1, <1>3, SetInduction
<1>5. Good(n)
  BY <1>4
<1> QED
  BY <1>5 DEF Good, FoldedBy

WalksRules(v, t, r, c, n) ==
    /\ v[0] = t
    /\ \A k \in 0..n-1 : v[k + 1] = RulesStep(v[k], r, c.rules[k + 1])
    /\ UserRules(t, r, c) = v[n]

LEMMA RulesWalk ==
    ASSUME NEW t \in TierNames, NEW r, NEW c, NEW n \in Nat, DOMAIN c.rules = 1..n
    PROVE  \E v : WalksRules(v, t, r, c, n)
<1>1. \E g : RulesFold(g, t, r, c.rules)
  <2> DEFINE F == [x \in (1..n) \X TierNames |-> RulesStep(x[2], r, c.rules[x[1]])]
  <2>1. F \in [(1..n) \X TierNames -> TierNames]
    BY DEF RulesStep
  <2>2. PICK g \in [SUBSET (1..n) -> TierNames] : FoldedBy(g, n, t, F)
    <3> HIDE DEF F
    <3> QED
      BY <2>1, FoldExists
  <2>3. ASSUME NEW s \in SUBSET (1..n)
        PROVE  g[s] = IF s = {} THEN t ELSE RulesStep(g[s \ {Max(s)}], r, c.rules[Max(s)])
    <3>1. CASE s = {}
      BY <2>2, <3>1 DEF FoldedBy
    <3>2. CASE s # {}
      <4>1. Max(s) \in 1..n
        BY <3>2, LargestIsIn
      <4>2. g[s \ {Max(s)}] \in TierNames
        OBVIOUS
      <4>3. F[<<Max(s), g[s \ {Max(s)}]>>] = RulesStep(g[s \ {Max(s)}], r, c.rules[Max(s)])
        BY <4>1, <4>2
      <4> HIDE DEF F
      <4> QED
        BY <2>2, <3>2, <4>3 DEF FoldedBy
    <3> QED
      BY <3>1, <3>2
  <2> QED
    BY <2>3 DEF RulesFold
<1>2. PICK g : RulesFold(g, t, r, c.rules) /\ UserRules(t, r, c) = g[DOMAIN c.rules]
  BY <1>1 DEF UserRules, FoldLeft, MapThenFoldSet, RulesFold, RulesStep
<1>3. \A s \in SUBSET (1..n) :
          g[s] = IF s = {} THEN t ELSE RulesStep(g[s \ {Max(s)}], r, c.rules[Max(s)])
  BY <1>2 DEF RulesFold
<1> DEFINE v == [k \in 0..n |-> g[1..k]]
<1>4. v[0] = t /\ v[n] = UserRules(t, r, c)
  <2>1. v[0] = g[1..0] /\ v[n] = g[1..n]
    OBVIOUS
  <2>2. 1..0 = {} /\ {} \in SUBSET (1..n)
    OBVIOUS
  <2>3. g[{}] = t
    BY <1>3, <2>2
  <2> QED
    BY <1>2, <2>1, <2>2, <2>3
<1>5. ASSUME NEW k \in 0..n-1
      PROVE  v[k + 1] = RulesStep(v[k], r, c.rules[k + 1])
  <2>1. 1..k+1 \in SUBSET (1..n) /\ k \in Nat
    OBVIOUS
  <2>3. g[1..k+1] = RulesStep(g[1..k], r, c.rules[k + 1])
    BY <1>3, <2>1, LastOfRange
  <2> QED
    BY <2>3
<1> HIDE DEF v
<1> QED
  BY <1>4, <1>5 DEF WalksRules

-----------------------------------------------------------------------------
(* The log by itself *)

\* Work is left over from answered requests only.
WorkKnown ==
    /\ \A w \in writers : count[w.id] # NotYet /\ w.number <= count[w.id]
    /\ \A id \in waiting : count[id] # NotYet

AttemptsKnown == \A a \in attempts : a[1] \in requests /\ a[2] <= count[a[1]]

RowKnown(id) == \/ id \in requests \/ RowWriter(id) \in writers
                \/ Lost(id, {"failed", "restart", "pruned"})

AllKnown(id) == \/ id \in waiting \/ Lost(id, Reasons)
                \/ \A n \in 1..count[id] :
                       <<id, n>> \in attempts \/ AttemptWriter(id, n) \in writers

LogInv ==
    /\ LogTypeOK /\ WorkKnown /\ AttemptsKnown
    /\ \A id \in Ids : count[id] # NotYet => RowKnown(id) /\ AllKnown(id)

LEMMA LogInvImplies == LogInv => LogFollowsAnswers
  BY DEF LogInv, AttemptsKnown, RowKnown, AllKnown, LogFollowsAnswers

-----------------------------------------------------------------------------
LEMMA LogInitInv == LogInit => LogInv
<1> USE LogAssumption
<1> SUFFICES ASSUME LogInit PROVE LogInv
  OBVIOUS
<1>1. LogTypeOK
  BY DEF LogInit, LogTypeOK, NotYet, Days
<1> QED
  BY <1>1 DEF LogInit, LogInv, WorkKnown, AttemptsKnown

LEMMA LogTypeStep == LogTypeOK /\ WorkKnown /\ [LogNext \/ AnyRequest]_logVars => LogTypeOK'
<1> USE LogAssumption DEF LogTypeOK, tables
<1> SUFFICES ASSUME LogTypeOK, WorkKnown, [LogNext \/ AnyRequest]_logVars PROVE LogTypeOK'
  OBVIOUS
<1>1. ASSUME NEW id \in Ids, NEW n \in 0..MaxAttempts, NEW metered \in BOOLEAN,
             LogRequest(id, n, metered)
      PROVE  LogTypeOK'
  <2>1. {RowWriter(id)} \cup {AttemptWriter(id, k) : k \in 1..n} \subseteq Writers
    BY DEF RowWriter, AttemptWriter, Writers, Numbers
  <2>2. writers' \subseteq Writers /\ waiting' \subseteq Ids
    BY <1>1, <2>1 DEF LogRequest
  <2>3. count' \in [Ids -> -1..MaxAttempts]
    BY <1>1 DEF LogRequest
  <2> QED
    BY <1>1, <2>2, <2>3 DEF LogRequest
<1>2. ASSUME NEW id \in Ids, LogAttempts(id) PROVE LogTypeOK'
  <2>1. {AttemptWriter(id, k) : k \in 1..count[id]} \subseteq Writers
    BY DEF AttemptWriter, Writers, Numbers
  <2> QED
    BY <1>2, <2>1 DEF LogAttempts
<1>3. ASSUME NEW id \in Ids, Dropped(id) PROVE LogTypeOK'
  BY <1>3 DEF Dropped, Losses, Reasons
<1>4. ASSUME NEW w \in writers, WriteRequest(w) PROVE LogTypeOK'
  BY <1>4 DEF WriteRequest, Writers
<1>5. ASSUME NEW w \in writers, WriteAttempt(w) PROVE LogTypeOK'
  BY <1>5 DEF WriteAttempt, Writers, Losses, Reasons, Attempts
<1>6. ASSUME NEW w \in writers, FailWrite(w) PROVE LogTypeOK'
  BY <1>6 DEF FailWrite, Writers, Losses, Reasons
<1>7. CASE Prune
  BY <1>7 DEF Prune, Losses, Reasons, Expired
<1>8. CASE NextDay
  BY <1>8 DEF NextDay, Days
<1>9. CASE SetRetention
  BY <1>9 DEF SetRetention
<1>10. CASE LogRestart
  <2>1. waiting \cup {w.id : w \in writers} \subseteq Ids
    BY DEF Writers
  <2> QED
    BY <1>10, <2>1 DEF LogRestart, Losses, Reasons
<1>11. CASE UNCHANGED logVars
  BY <1>11 DEF logVars
<1> QED
  BY <1>1, <1>2, <1>3, <1>4, <1>5, <1>6, <1>7, <1>8, <1>9, <1>10, <1>11
     DEF LogNext, LogWork, AnyRequest

\* What is lost stays lost.
LEMMA LostStays ==
    ASSUME lost \subseteq lost', NEW id, NEW whys, Lost(id, whys)
    PROVE  Lost(id, whys)'
  BY DEF Lost

-----------------------------------------------------------------------------
\* Steps that change neither what was answered nor what is known of it.
LEMMA AnswerStep ==
    ASSUME LogInv, NEW id \in Ids, NEW n \in 0..MaxAttempts, NEW metered \in BOOLEAN,
           LogRequest(id, n, metered), LogTypeOK'
    PROVE  LogInv'
<1> USE LogAssumption DEF LogInv, tables
<1>1. \A i \in Ids : count'[i] = IF i = id THEN n ELSE count[i]
  BY DEF LogRequest, LogTypeOK
<1>2. count[id] = NotYet /\ n # NotYet
  BY DEF LogRequest, NotYet
<1>3. WorkKnown'
  <2>1. ASSUME NEW w \in writers' PROVE count'[w.id] # NotYet /\ w.number <= count'[w.id]
    <3>1. CASE w \in writers
      <4>1. w.id \in Ids /\ count[w.id] # NotYet /\ w.number <= count[w.id]
        BY <3>1 DEF WorkKnown, LogTypeOK, Writers
      <4> QED
        BY <4>1, <1>1, <1>2
    <3>2. CASE w = RowWriter(id)
      BY <3>2, <1>1, <1>2 DEF RowWriter
    <3>3. CASE \E k \in 1..n : w = AttemptWriter(id, k)
      BY <3>3, <1>1, <1>2 DEF AttemptWriter
    <3> QED
      BY <3>1, <3>2, <3>3 DEF LogRequest
  <2>2. ASSUME NEW i \in waiting' PROVE count'[i] # NotYet
    <3>1. i \in waiting \/ i = id
      BY DEF LogRequest
    <3>2. i \in Ids
      BY <3>1 DEF LogTypeOK
    <3> QED
      BY <3>1, <3>2, <1>1, <1>2 DEF WorkKnown
  <2> QED
    BY <2>1, <2>2 DEF WorkKnown
<1>4. AttemptsKnown'
  <2>1. ASSUME NEW a \in attempts PROVE a[1] \in requests /\ a[2] <= count'[a[1]]
    <3>1. a[1] \in Ids /\ a[2] \in Numbers /\ a[2] <= count[a[1]] /\ a[1] \in requests
      BY DEF LogTypeOK, Attempts, AttemptsKnown
    <3>2. a[1] # id
      BY <3>1, <1>2 DEF Numbers, NotYet
    <3> QED
      BY <3>1, <3>2, <1>1
  <2> QED
    BY <2>1 DEF LogRequest, AttemptsKnown
<1>5. ASSUME NEW i \in Ids, count'[i] # NotYet PROVE RowKnown(i)' /\ AllKnown(i)'
  <2>1. CASE i = id
    BY <2>1, <1>1 DEF LogRequest, RowKnown, AllKnown, RowWriter, AttemptWriter
  <2>2. CASE i # id
    <3>1. RowKnown(i) /\ AllKnown(i) /\ count'[i] = count[i]
      BY <2>2, <1>1, <1>5
    <3>2. RowKnown(i)'
      BY <3>1 DEF LogRequest, RowKnown, RowWriter, Lost
    <3>3. writers \subseteq writers' /\ waiting \subseteq waiting'
      BY DEF LogRequest
    <3>4. AllKnown(i)'
      BY <3>1, <3>3 DEF LogRequest, AllKnown, AttemptWriter, Lost
    <3> QED
      BY <3>2, <3>4
  <2> QED
    BY <2>1, <2>2
<1> QED
  BY <1>3, <1>4, <1>5

LEMMA HandlerStep ==
    ASSUME LogInv, NEW id \in Ids, LogAttempts(id) \/ Dropped(id), LogTypeOK'
    PROVE  LogInv'
<1> USE LogAssumption DEF LogInv, tables
<1>1. count' = count /\ lost \subseteq lost' /\ UNCHANGED <<requests, attempts>>
      /\ writers \subseteq writers' /\ waiting' = waiting \ {id} /\ count[id] # NotYet
  BY DEF LogAttempts, Dropped, WorkKnown
<1>2. WorkKnown'
  <2>1. ASSUME NEW w \in writers' PROVE count[w.id] # NotYet /\ w.number <= count[w.id]
    <3>1. CASE w \in writers
      BY <3>1 DEF WorkKnown
    <3>2. CASE \E k \in 1..count[id] : w = AttemptWriter(id, k)
      BY <3>2, <1>1 DEF AttemptWriter
    <3> QED
      BY <3>1, <3>2 DEF LogAttempts, Dropped
  <2> QED
    BY <1>1, <2>1 DEF WorkKnown
<1>3. AttemptsKnown'
  BY <1>1 DEF AttemptsKnown
<1>4. ASSUME NEW i \in Ids, count[i] # NotYet PROVE RowKnown(i)' /\ AllKnown(i)'
  <2>1. RowKnown(i) /\ AllKnown(i)
    BY <1>4
  <2>2. RowKnown(i)'
    BY <1>1, <2>1 DEF RowKnown, RowWriter, Lost
  <2>3. CASE i # id
    <3>1. CASE i \in waiting
      BY <2>2, <1>1, <2>3, <3>1 DEF AllKnown
    <3>2. CASE Lost(i, Reasons)
      BY <2>2, <1>1, <3>2, LostStays DEF AllKnown
    <3>3. CASE \A n \in 1..count[i] :
                   <<i, n>> \in attempts \/ AttemptWriter(i, n) \in writers
      <4>1. \A n \in 1..count'[i] :
                <<i, n>> \in attempts' \/ AttemptWriter(i, n) \in writers'
        BY <1>1, <3>3
      <4> QED
        BY <2>2, <4>1 DEF AllKnown, AttemptWriter
    <3> QED
      BY <2>1, <3>1, <3>2, <3>3 DEF AllKnown
  <2>4. CASE i = id /\ LogAttempts(id)
    <3>1. \A n \in 1..count'[i] : AttemptWriter(i, n) \in writers'
      BY <1>1, <2>4 DEF LogAttempts
    <3> QED
      BY <2>2, <3>1 DEF AllKnown, AttemptWriter
  <2>5. CASE i = id /\ Dropped(id)
    <3>1. [id |-> i, why |-> "dropped"] \in lost'
      BY <2>5 DEF Dropped, Losses
    <3> QED
      BY <2>2, <3>1 DEF AllKnown, Lost, Reasons
  <2> QED
    BY <2>2, <2>3, <2>4, <2>5
<1> QED
  BY <1>1, <1>2, <1>3, <1>4

LEMMA WriterStep ==
    ASSUME LogInv, NEW w \in writers, WriteRequest(w) \/ WriteAttempt(w) \/ FailWrite(w), LogTypeOK'
    PROVE  LogInv'
<1> USE LogAssumption DEF LogInv, tables
<1>1. /\ UNCHANGED <<count, waiting>> /\ writers' = writers \ {w} /\ lost \subseteq lost'
      /\ requests \subseteq requests' /\ attempts \subseteq attempts'
  BY DEF WriteRequest, WriteAttempt, FailWrite
<1>2. w.id \in Ids /\ count[w.id] # NotYet /\ w.number <= count[w.id]
  BY DEF WorkKnown, LogTypeOK, Writers
<1>3. WorkKnown'
  BY <1>1 DEF WorkKnown
<1>4. AttemptsKnown'
  <2>1. ASSUME NEW a \in attempts' PROVE a[1] \in requests' /\ a[2] <= count[a[1]]
    <3>1. CASE a \in attempts
      BY <3>1, <1>1 DEF AttemptsKnown
    <3>2. CASE a = <<w.id, w.number>> /\ w.id \in requests
      BY <3>2, <1>1, <1>2
    <3> QED
      BY <3>1, <3>2 DEF WriteRequest, WriteAttempt, FailWrite
  <2> QED
    BY <1>1, <2>1 DEF AttemptsKnown
<1>5. ASSUME NEW i \in Ids, count[i] # NotYet PROVE RowKnown(i)' /\ AllKnown(i)'
  <2>1. RowKnown(i) /\ AllKnown(i)
    BY <1>5
  <2>2. RowKnown(i)'
    <3>1. CASE w = RowWriter(i)
      <4>1. w.table = "request" /\ w.id = i
        BY <3>1 DEF RowWriter
      <4>2. CASE FailWrite(w)
        <5>1. [id |-> i, why |-> "failed"] \in lost'
          BY <4>1, <4>2 DEF FailWrite, Losses
        <5> QED
          BY <5>1 DEF RowKnown, Lost
      <4>3. CASE ~ FailWrite(w)
        BY <4>1, <4>3 DEF WriteRequest, WriteAttempt, RowKnown
      <4> QED
        BY <4>2, <4>3
    <3>2. CASE w # RowWriter(i)
      BY <1>1, <2>1, <3>2 DEF RowKnown, Lost, RowWriter
    <3> QED
      BY <3>1, <3>2
  <2>3. AllKnown(i)'
    <3>1. CASE \E n \in 1..count[i] : w = AttemptWriter(i, n)
      <4>1. PICK n \in 1..count[i] : w = AttemptWriter(i, n)
        BY <3>1
      <4>2. w.table = "attempt" /\ w.id = i /\ w.number = n
        BY <4>1 DEF AttemptWriter
      <4>3. CASE <<i, n>> \in attempts'
        BY <1>1, <2>1, <4>1, <4>3 DEF AllKnown, AttemptWriter, Lost
      <4>4. CASE <<i, n>> \notin attempts'
        <5>1. \E why \in {"failed", "early"} : [id |-> i, why |-> why] \in lost'
          BY <4>2, <4>4 DEF WriteRequest, WriteAttempt, FailWrite, Losses
        <5> QED
          BY <5>1 DEF AllKnown, Lost, Reasons
      <4> QED
        BY <4>3, <4>4
    <3>2. CASE ~ \E n \in 1..count[i] : w = AttemptWriter(i, n)
      BY <1>1, <2>1, <3>2 DEF AllKnown, Lost, AttemptWriter
    <3> QED
      BY <3>1, <3>2
  <2> QED
    BY <2>2, <2>3
<1> QED
  BY <1>1, <1>3, <1>4, <1>5

\* A deletion takes no request that attempts refer to.
LEMMA PruneStep ==
    ASSUME LogInv, Prune, LogTypeOK'
    PROVE  LogInv'
<1> USE LogAssumption DEF LogInv, tables
<1>1. UNCHANGED <<count, waiting, writers, attempts>> /\ requests' = requests \ Expired
      /\ lost' = lost \cup Losses(Expired, "pruned") /\ Expired \cap Referred = {}
  BY DEF Prune
<1>2. WorkKnown'
  BY <1>1 DEF WorkKnown
<1>3. AttemptsKnown'
  <2>1. ASSUME NEW a \in attempts PROVE a[1] \in requests'
    <3>1. a = <<a[1], a[2]>> /\ a[2] \in Numbers /\ a[1] \in requests
      BY DEF LogTypeOK, Attempts, AttemptsKnown
    <3>2. a[1] \in Referred
      BY <3>1 DEF Referred
    <3> QED
      BY <3>1, <3>2, <1>1
  <2> QED
    BY <1>1, <2>1 DEF AttemptsKnown
<1>4. ASSUME NEW i \in Ids, count[i] # NotYet PROVE RowKnown(i)' /\ AllKnown(i)'
  <2>1. RowKnown(i) /\ AllKnown(i)
    BY <1>4
  <2>2. i \in Expired => Lost(i, {"failed", "restart", "pruned"})'
    <3> SUFFICES ASSUME i \in Expired PROVE Lost(i, {"failed", "restart", "pruned"})'
      OBVIOUS
    <3>1. [id |-> i, why |-> "pruned"] \in lost'
      BY <1>1 DEF Losses
    <3> QED
      BY <3>1 DEF Lost
  <2>3. lost \subseteq lost'
    BY <1>1
  <2> QED
    BY <1>1, <2>1, <2>2, <2>3 DEF RowKnown, AllKnown, RowWriter, AttemptWriter, Lost
<1> QED
  BY <1>1, <1>2, <1>3, <1>4

LEMMA RestartStep ==
    ASSUME LogInv, LogRestart, LogTypeOK'
    PROVE  LogInv'
<1> USE LogAssumption DEF LogInv, tables
<1>1. UNCHANGED <<count, attempts, requests>> /\ waiting' = {} /\ writers' = {}
      /\ lost' = lost \cup Losses(waiting \cup {w.id : w \in writers}, "restart")
  BY DEF LogRestart
<1>2. WorkKnown' /\ AttemptsKnown'
  BY <1>1 DEF WorkKnown, AttemptsKnown
<1>3. ASSUME NEW i \in Ids, count[i] # NotYet PROVE RowKnown(i)' /\ AllKnown(i)'
  <2>1. RowKnown(i) /\ AllKnown(i) /\ lost \subseteq lost'
    BY <1>1, <1>3
  <2>2. CASE i \in waiting \cup {w.id : w \in writers}
    <3>1. [id |-> i, why |-> "restart"] \in lost'
      BY <1>1, <2>2 DEF Losses
    <3> QED
      BY <3>1 DEF RowKnown, AllKnown, Lost, Reasons
  <2>3. CASE i \notin waiting \cup {w.id : w \in writers}
    <3>1. RowWriter(i) \notin writers /\ \A n : AttemptWriter(i, n) \notin writers
      BY <2>3 DEF RowWriter, AttemptWriter
    <3>2. RowKnown(i)'
      BY <1>1, <2>1, <3>1 DEF RowKnown, Lost
    <3>3. AllKnown(i)'
      BY <1>1, <2>1, <2>3, <3>1 DEF AllKnown, Lost
    <3> QED
      BY <3>2, <3>3
  <2> QED
    BY <2>2, <2>3
<1> QED
  BY <1>1, <1>2, <1>3

LEMMA QuietStep ==
    ASSUME LogInv, UNCHANGED <<count, waiting, writers, tables, lost>>, LogTypeOK'
    PROVE  LogInv'
  BY DEF LogInv, tables, WorkKnown, AttemptsKnown, RowKnown, AllKnown, Lost, RowWriter, AttemptWriter

LEMMA LogNextInv == LogInv /\ [LogNext \/ AnyRequest]_logVars => LogInv'
<1> SUFFICES ASSUME LogInv, [LogNext \/ AnyRequest]_logVars PROVE LogInv'
  OBVIOUS
<1>1. LogTypeOK'
  BY LogTypeStep DEF LogInv
<1>2. CASE AnyRequest
  BY <1>1, <1>2, AnswerStep DEF AnyRequest
<1>3. CASE LogWork
  BY <1>1, <1>3, HandlerStep, WriterStep DEF LogWork
<1>4. CASE Prune
  BY <1>1, <1>4, PruneStep
<1>5. CASE LogRestart
  BY <1>1, <1>5, RestartStep
<1>6. CASE NextDay \/ SetRetention \/ UNCHANGED logVars
  <2>1. UNCHANGED <<count, waiting, writers, tables, lost>>
    BY <1>6 DEF NextDay, SetRetention, logVars, tables
  <2> QED
    BY <1>1, <2>1, QuietStep
<1> QED
  BY <1>2, <1>3, <1>4, <1>5, <1>6 DEF LogNext

-----------------------------------------------------------------------------
(***************************************************************************)
(* The log's variables keep their types, whatever is asked, written, lost  *)
(* or deleted: log_completion, its writers and the retention task.         *)
(***************************************************************************)
THEOREM LogTypeCorrect == LogSpec => []LogTypeOK
<1>1. LogInv => LogTypeOK
  BY DEF LogInv
<1> QED
  BY <1>1, LogInitInv, LogNextInv, PTL DEF LogSpec

(***************************************************************************)
(* Every answered request, and every attempt it took, is in the log, still *)
(* being written, or lost in one of the ways that are named: the log of    *)
(* log_completion for any number of requests and attempts.                 *)
(***************************************************************************)
THEOREM LogIsComplete == LogSpec => []LogFollowsAnswers
  BY LogInvImplies, LogInitInv, LogNextInv, PTL DEF LogSpec

-----------------------------------------------------------------------------
(* Tiers *)

\* What no rule and no default takes a request below.
Floors(t, r) ==
    /\ HasImage(r) => Rank[t] >= Rank["multimodal"]
    /\ HasReasoning(r) => Rank[t] >= Rank["reasoning"]
    /\ HasFence(r) => Rank[t] >= Rank["complex"]
    /\ TokenCount(r) > HighContextTokens => t \notin {"simple", "standard"}

LEMMA TiersAre ==
    /\ TierNames = {"simple", "standard", "complex", "reasoning", "multimodal", "high_context"}
    /\ Rank["simple"] = 1 /\ Rank["standard"] = 2 /\ Rank["complex"] = 3
    /\ Rank["reasoning"] = 4 /\ Rank["multimodal"] = 5 /\ Rank["high_context"] = 6
  BY DEF TierNames, Rank

LEMMA RanksAre == \A t \in TierNames : Rank[t] \in Nat
  BY TiersAre

\* The rules of a configuration take a request upwards only.
LEMMA RulesRaise ==
    ASSUME NEW t \in TierNames, NEW r, NEW c, c.rules \in Seq(ToSet(c.rules))
    PROVE  UserRules(t, r, c) \in TierNames /\ Rank[UserRules(t, r, c)] >= Rank[t]
<1> DEFINE n == Len(c.rules)
<1>1. n \in Nat /\ DOMAIN c.rules = 1..n
  OBVIOUS
<1> HIDE DEF n
<1>2. PICK v : WalksRules(v, t, r, c, n)
  BY <1>1, RulesWalk
<1> DEFINE S == {k \in Nat : k <= n => v[k] \in TierNames /\ Rank[v[k]] >= Rank[t]}
<1>3. 0 \in S
  BY <1>2, RanksAre DEF WalksRules
<1>4. ASSUME NEW k \in Nat, k \in S
      PROVE  k + 1 \in S
  <2>1. CASE k + 1 <= n
    <3>1. v[k] \in TierNames /\ Rank[v[k]] >= Rank[t]
      BY <1>1, <1>4, <2>1
    <3>2. v[k + 1] = RulesStep(v[k], r, c.rules[k + 1])
      BY <1>1, <1>2, <2>1 DEF WalksRules
    <3>3. v[k + 1] \in TierNames /\ Rank[v[k + 1]] >= Rank[v[k]]
      BY <3>1, <3>2, RanksAre DEF RulesStep
    <3>4. Rank[v[k + 1]] >= Rank[t]
      BY <3>1, <3>3, RanksAre
    <3> QED
      BY <3>3, <3>4
  <2> QED
    BY <2>1
<1>5. n \in S
  <2> HIDE DEF S
  <2>1. Nat \subseteq S
    BY <1>3, <1>4, SetInduction
  <2> QED
    BY <1>1, <2>1
<1> QED
  BY <1>1, <1>2, <1>5 DEF WalksRules

LEMMA ScoredFloors ==
    ASSUME NEW r, NEW c, c.rules \in Seq(ToSet(c.rules))
    PROVE  Scored(r, c) \in TierNames /\ Floors(Scored(r, c), r)
<1> DEFINE h == Heuristic(r)
           f == ContextFloor(h, r)
           u == UserRules(f, r, c)
           d == Defaulted(u, c)
<1>1. /\ h \in TierNames
      /\ HasImage(r) => h = "multimodal"
      /\ HasReasoning(r) /\ ~ HasImage(r) => h = "reasoning"
      /\ HasFence(r) /\ ~ HasReasoning(r) /\ ~ HasImage(r) => h = "complex"
      /\ Rank[h] >= 2
  BY TiersAre DEF Heuristic
<1>2. /\ f \in TierNames
      /\ HasImage(r) => Rank[f] >= 5
      /\ HasReasoning(r) => Rank[f] >= 4
      /\ HasFence(r) => Rank[f] >= 3
      /\ TokenCount(r) > HighContextTokens => Rank[f] >= 3
  <2> HIDE DEF h
  <2> QED
    BY <1>1, TiersAre DEF ContextFloor
<1>3. u \in TierNames /\ Rank[u] >= Rank[f]
  <2> HIDE DEF f
  <2> QED
    BY <1>2, RulesRaise
<1>4. d \in TierNames /\ (Rank[u] >= 3 => d = u)
  <2> HIDE DEF u
  <2> QED
    BY <1>3, TiersAre DEF Defaulted
<1>5. Rank[f] \in Nat /\ Rank[u] \in Nat
  BY <1>2, <1>3, RanksAre
<1>6. /\ HasImage(r) => Rank[u] >= 5
      /\ HasReasoning(r) => Rank[u] >= 4
      /\ HasFence(r) => Rank[u] >= 3
      /\ TokenCount(r) > HighContextTokens => Rank[u] >= 3
  <2> HIDE DEF f, u
  <2> QED
    BY <1>2, <1>3, <1>5
<1>7. Floors(d, r)
  <2> HIDE DEF d, u
  <2> QED
    BY <1>3, <1>4, <1>5, <1>6, TiersAre DEF Floors
<1> QED
  BY <1>4, <1>7 DEF Scored

LEMMA ChoiceFloors ==
    ASSUME NEW r, NEW c, c.rules \in Seq(ToSet(c.rules))
    PROVE  /\ Choice(r, c).tier \in TierNames
           /\ Plain(r) => Floors(Choice(r, c).tier, r)
<1>1. Scored(r, c) \in TierNames /\ Floors(Scored(r, c), r)
  BY ScoredFloors
<1>2. CASE TierHint(r)
  BY <1>2 DEF Choice, TierHint, Plain
<1>3. CASE ~ TierHint(r) /\ r.header \in TierNames
  BY <1>3 DEF Choice, Score, Plain
<1>4. CASE ~ TierHint(r) /\ r.header \notin TierNames
           /\ Len(r.model) = 2 /\ r.model[1] \in DOMAIN ResolveAlias
  BY <1>4, TiersAre DEF Choice, Score, Plain
<1>5. CASE ~ TierHint(r) /\ r.header \notin TierNames
           /\ ~ (Len(r.model) = 2 /\ r.model[1] \in DOMAIN ResolveAlias)
  <2>1. Choice(r, c) = [tier |-> Scored(r, c), ref |-> <<>>]
    BY <1>5 DEF Choice, Score
  <2> QED
    BY <1>1, <2>1
<1> QED
  BY <1>2, <1>3, <1>4, <1>5

-----------------------------------------------------------------------------
(* The invariant *)

KeyAllowed(k, p) == k = req.key \/ k \in OwnKeys(p) \cup {NoKey} \/ k \in TierKeys

\* The keys of a configuration are those a reload or an administrator gave to
\* the provider, or to the tier.
KeysAreOwn(c) ==
    /\ \A p \in Providers : ProviderKey(c, p) \in OwnKeys(p) \cup {NoKey}
    /\ \A t \in DOMAIN c.tierKeys : c.tierKeys[t] \in TierKeys

\* The live configuration, the snapshot a handler works from and the registry
\* are made of what administrators loaded and edited.
ConfigInv ==
    /\ IsConfig(cfg) /\ KeysAreOwn(cfg)
    /\ pc = "snapped" => KeysAreOwn(snap)
    /\ DOMAIN registry \subseteq Providers
    /\ \A p \in DOMAIN registry : registry[p] \in DOMAIN Answers
    /\ half \in Providers \cup {NoName} /\ edits \in 0..MaxEdits

\* A handler's variables, by the place it is at.
HandlerInv ==
    /\ pc \in Phases /\ req \in Requests \cup {None} /\ tier \in TierNames \cup {NoName}
    /\ category \in Categories \cup {NoName}
    /\ route # None => route.provider \in Providers
    /\ pc \in {"idle", "parsed", "streaming", "passed", "media"} => tier = NoName
    /\ pc = "routed" => KeyAllowed(key, route.provider) /\ route.provider \in Providers
    /\ pc \notin {"posted", "waiting", "passed", "media"} => upstream = None
    /\ pc = "posted" => upstream.type \in DOMAIN Answers

\* No more providers are asked than the tier lists.
ChainInv ==
    /\ asked \in Nat /\ chain \in Seq(ToSet(chain)) /\ asked + Len(chain) <= MaxAttempts
    /\ pc = "waiting" => chain # <<>>
    /\ pc \notin {"chain", "waiting"} => chain = <<>> /\ asked = 0

ServeInv == HandlerInv /\ ChainInv /\ KeysStayHome /\ FloorsHold

GatewayInv ==
    /\ ConfigInv /\ ServeInv
    /\ (pc = "streaming") <=> (phase # "none")

-----------------------------------------------------------------------------
(* Administrators *)

LEMMA SeqOfItsOwn ==
    ASSUME NEW T, NEW s \in Seq(T)
    PROVE  s \in Seq(ToSet(s))
<1>1. \A i \in 1..Len(s) : s[i] \in ToSet(s)
  BY DEF ToSet
<1>2. s = [i \in 1..Len(s) |-> s[i]]
  OBVIOUS
<1>3. [i \in 1..Len(s) |-> s[i]] \in Seq(ToSet(s))
  BY <1>1
<1> QED
  BY <1>2, <1>3

\* A reload or an edit makes a configuration of the same kind, and gives no
\* provider the key of another one.
LEMMA LoadedConfig ==
    ASSUME NEW c \in {Config0} \cup Reloads
    PROVE  IsConfig(c) /\ KeysAreOwn(c)
<1>1. IsConfig(c)
  BY GatewayAssumption
<1>2. \A p \in Providers : ProviderKey(c, p) \in OwnKeys(p) \cup {NoKey}
  BY DEF OwnKeys, AllConfigs
<1>3. \A t \in DOMAIN c.tierKeys : c.tierKeys[t] \in TierKeys
  BY DEF TierKeys, AllConfigs
<1> QED
  BY <1>1, <1>2, <1>3 DEF KeysAreOwn

LEMMA EditedTiers ==
    ASSUME IsConfig(cfg), KeysAreOwn(cfg), NEW e \in TierEdits
    PROVE  /\ IsConfig([cfg EXCEPT !.tiers = Put(cfg.tiers, e.tier, e.set)])
           /\ KeysAreOwn([cfg EXCEPT !.tiers = Put(cfg.tiers, e.tier, e.set)])
<1> DEFINE tiers == Put(cfg.tiers, e.tier, e.set)
           c == [cfg EXCEPT !.tiers = tiers]
<1>1. /\ c.providers = cfg.providers /\ c.tierKeys = cfg.tierKeys /\ c.rules = cfg.rules
      /\ c.tiers = tiers
      /\ c = [providers |-> c.providers, tiers |-> c.tiers, rules |-> c.rules, default |-> c.default,
              tierKeys |-> c.tierKeys, detect |-> c.detect, specificity |-> c.specificity]
  <2> HIDE DEF tiers
  <2> QED
    BY DEF IsConfig
<1>2. \A t \in DOMAIN tiers : IsTier(tiers[t])
  <2>1. IsTier(e.set) /\ \A t \in DOMAIN cfg.tiers : IsTier(cfg.tiers[t])
    BY GatewayAssumption DEF IsConfig
  <2> QED
    BY <2>1 DEF Put
<1> HIDE DEF c, tiers
<1>3. IsConfig(c)
  BY <1>1, <1>2 DEF IsConfig
<1>4. KeysAreOwn(c)
  BY <1>1 DEF KeysAreOwn, ProviderKey
<1> QED
  BY <1>3, <1>4 DEF c, tiers

LEMMA EditedProviders ==
    ASSUME IsConfig(cfg), KeysAreOwn(cfg), NEW ps,
           DOMAIN ps \subseteq Providers,
           \A p \in DOMAIN ps : IsProvider(ps[p]) /\ ps[p].key \in OwnKeys(p) \cup {NoKey}
    PROVE  /\ IsConfig([cfg EXCEPT !.providers = ps])
           /\ KeysAreOwn([cfg EXCEPT !.providers = ps])
<1> DEFINE c == [cfg EXCEPT !.providers = ps]
<1>1. /\ c.providers = ps /\ c.tierKeys = cfg.tierKeys /\ c.rules = cfg.rules
      /\ c.tiers = cfg.tiers
      /\ c = [providers |-> c.providers, tiers |-> c.tiers, rules |-> c.rules, default |-> c.default,
              tierKeys |-> c.tierKeys, detect |-> c.detect, specificity |-> c.specificity]
  BY DEF IsConfig
<1> HIDE DEF c
<1>2. IsConfig(c)
  BY <1>1 DEF IsConfig
<1>3. KeysAreOwn(c)
  BY <1>1 DEF KeysAreOwn, ProviderKey
<1> QED
  BY <1>2, <1>3 DEF c

LEMMA AdminStep ==
    ASSUME ConfigInv, Admin
    PROVE  ConfigInv'
<1>1. /\ IsConfig(cfg) /\ KeysAreOwn(cfg)
      /\ DOMAIN registry \subseteq Providers
      /\ \A p \in DOMAIN registry : registry[p] \in DOMAIN Answers
      /\ half \in Providers \cup {NoName} /\ edits \in 0..MaxEdits
  BY DEF ConfigInv
<1>2. UNCHANGED <<pc, snap>> /\ (pc = "snapped" => KeysAreOwn(snap))
  BY DEF Admin, Reload, UpdateTier, RemoveProvider, AddProvider, Edit, FollowEdit, handlerVars, ConfigInv
<1>3. ASSUME NEW c, Edit(c), IsConfig(c), KeysAreOwn(c), UNCHANGED registry,
             half' \in Providers \cup {NoName}
      PROVE  ConfigInv'
  <2>1. cfg' = c /\ edits' \in 0..MaxEdits
    BY <1>1, <1>3, GatewayAssumption DEF Edit, Editable
  <2> QED
    BY <1>1, <1>2, <1>3, <2>1 DEF ConfigInv, KeysAreOwn, ProviderKey, IsConfig
<1>4. CASE Reload
  <2>1. PICK c \in Reloads : Edit(c) /\ UNCHANGED <<registry, half>>
    BY <1>4 DEF Reload
  <2> QED
    BY <1>1, <1>3, <2>1, LoadedConfig
<1>5. CASE UpdateTier
  <2>1. PICK e \in TierEdits : /\ Edit([cfg EXCEPT !.tiers = Put(cfg.tiers, e.tier, e.set)])
                               /\ UNCHANGED <<registry, half>>
    BY <1>5 DEF UpdateTier
  <2> QED
    BY <1>1, <1>3, <2>1, EditedTiers
<1>6. CASE RemoveProvider
  <2>1. PICK p \in Removals \cap DOMAIN cfg.providers :
            /\ Edit([cfg EXCEPT !.providers = [q \in DOMAIN cfg.providers \ {p} |-> cfg.providers[q]]])
            /\ half' = p /\ UNCHANGED registry
    BY <1>6 DEF RemoveProvider
  <2> DEFINE ps == [q \in DOMAIN cfg.providers \ {p} |-> cfg.providers[q]]
  <2>2. /\ DOMAIN ps \subseteq Providers
        /\ \A q \in DOMAIN ps : IsProvider(ps[q]) /\ ps[q].key \in OwnKeys(q) \cup {NoKey}
    BY <1>1 DEF IsConfig, KeysAreOwn, ProviderKey
  <2>3. p \in Providers
    BY <1>1 DEF IsConfig
  <2> HIDE DEF ps
  <2>4. Edit([cfg EXCEPT !.providers = ps])
    BY <2>1 DEF ps
  <2> QED
    BY <1>1, <1>3, <2>1, <2>2, <2>3, <2>4, EditedProviders
<1>7. CASE AddProvider
  <2>1. PICK a \in Additions :
            /\ Edit([cfg EXCEPT !.providers = Put(cfg.providers, a.id, a.set)])
            /\ half' = a.id /\ UNCHANGED registry
    BY <1>7 DEF AddProvider
  <2> DEFINE ps == Put(cfg.providers, a.id, a.set)
  <2>2. a.id \in Providers /\ IsProvider(a.set) /\ a.set.key \in OwnKeys(a.id) \cup {NoKey}
    BY GatewayAssumption DEF OwnKeys
  <2>3. /\ DOMAIN ps \subseteq Providers
        /\ \A q \in DOMAIN ps : IsProvider(ps[q]) /\ ps[q].key \in OwnKeys(q) \cup {NoKey}
    BY <1>1, <2>2 DEF IsConfig, KeysAreOwn, ProviderKey, Put
  <2> HIDE DEF ps
  <2>4. Edit([cfg EXCEPT !.providers = ps])
    BY <2>1 DEF ps
  <2> QED
    BY <1>1, <1>3, <2>1, <2>2, <2>3, <2>4, EditedProviders
<1>8. CASE FollowEdit
  <2>1. cfg' = cfg /\ half' = NoName /\ edits' = edits
    BY <1>8 DEF FollowEdit
  <2>2. /\ DOMAIN registry' \subseteq Providers
        /\ \A p \in DOMAIN registry' : registry'[p] \in DOMAIN Answers
    <3>1. CASE half \in DOMAIN cfg.providers
      <4>1. registry' = Put(registry, half, cfg.providers[half].type)
        BY <1>8, <3>1 DEF FollowEdit
      <4>2. half \in Providers /\ cfg.providers[half].type \in DOMAIN Answers
        BY <1>1, <3>1 DEF IsConfig, IsProvider
      <4> QED
        BY <1>1, <4>1, <4>2 DEF Put
    <3>2. CASE half \notin DOMAIN cfg.providers
      BY <1>1, <1>8, <3>2 DEF FollowEdit
    <3> QED
      BY <3>1, <3>2
  <2> QED
    BY <1>1, <1>2, <2>1, <2>2 DEF ConfigInv, KeysAreOwn, ProviderKey, IsConfig
<1> QED
  BY <1>4, <1>5, <1>6, <1>7, <1>8 DEF Admin

-----------------------------------------------------------------------------
(* The handler *)

LEMMA SameRequest ==
    ASSUME FloorsHold, UNCHANGED <<tier, req>>
    PROVE  FloorsHold'
  BY DEF FloorsHold

LEMMA SameUpstream ==
    ASSUME KeysStayHome, UNCHANGED <<upstream, req>>
    PROVE  KeysStayHome'
  BY DEF KeysStayHome

LEMMA DoneStep ==
    ASSUME HandlerDone
    PROVE  ServeInv'
<1>1. HandlerInv'
  BY DEF HandlerDone, HandlerInv, Phases
<1>2. ChainInv'
  <2>1. <<>> \in Seq(ToSet(<<>>)) /\ Len(<<>>) = 0
    OBVIOUS
  <2> QED
    BY <2>1, LogAssumption DEF HandlerDone, ChainInv
<1>3. KeysStayHome' /\ FloorsHold'
  BY DEF HandlerDone, KeysStayHome, FloorsHold
<1> QED
  BY <1>1, <1>2, <1>3 DEF ServeInv

\* The handler up to the choice of a route: the tier is chosen once, and
\* nothing is asked of a provider.
LEMMA ParseSteps ==
    ASSUME ConfigInv, ServeInv,
           (\E r \in Requests : Arrive(r)) \/ ScoreTier \/ Detect \/ TakeSnapshot
    PROVE  ServeInv'
<1>t. HandlerInv /\ ChainInv /\ KeysStayHome /\ FloorsHold
  BY DEF ServeInv
<1>1. ASSUME NEW r \in Requests, Arrive(r)
      PROVE  ServeInv'
  <2>1. HandlerInv'
    BY <1>t, <1>1 DEF Arrive, handlerVars, HandlerInv, Phases, KeyAllowed
  <2>2. ChainInv'
    BY <1>t, <1>1 DEF Arrive, handlerVars, ChainInv
  <2>3. KeysStayHome' /\ FloorsHold'
    BY <1>t, <1>1 DEF Arrive, handlerVars, HandlerInv, KeysStayHome, FloorsHold
  <2> QED
    BY <2>1, <2>2, <2>3 DEF ServeInv
<1>2. CASE ScoreTier
  <2>1. /\ Choice(req, cfg).tier \in TierNames
        /\ Plain(req) => Floors(Choice(req, cfg).tier, req)
    BY ChoiceFloors DEF ConfigInv, IsConfig
  <2>2. HandlerInv'
    BY <1>t, <1>2, <2>1 DEF ScoreTier, HandlerInv, Phases
  <2>3. ChainInv' /\ KeysStayHome'
    BY <1>t, <1>2 DEF ScoreTier, ChainInv, KeysStayHome
  <2>4. FloorsHold'
    BY <1>2, <2>1 DEF ScoreTier, FloorsHold, Floors
  <2> QED
    BY <2>2, <2>3, <2>4 DEF ServeInv
<1>3. CASE Detect
  <2>1. Detections(req, cfg) \subseteq Categories \cup {NoName}
    BY DEF Detections, HeaderCategory, Eligible
  <2>2. HandlerInv'
    BY <1>t, <1>3, <2>1 DEF Detect, HandlerInv, Phases
  <2>3. ChainInv' /\ KeysStayHome' /\ FloorsHold'
    BY <1>t, <1>3, SameRequest DEF Detect, ChainInv, KeysStayHome
  <2> QED
    BY <2>2, <2>3 DEF ServeInv
<1>4. CASE TakeSnapshot
  <2>1. HandlerInv'
    BY <1>t, <1>4 DEF TakeSnapshot, HandlerInv, Phases
  <2>2. ChainInv' /\ KeysStayHome' /\ FloorsHold'
    BY <1>t, <1>4, SameRequest DEF TakeSnapshot, ChainInv, KeysStayHome
  <2> QED
    BY <2>1, <2>2 DEF ServeInv
<1> QED
  BY <1>1, <1>2, <1>3, <1>4

\* The key route() finds is the provider's own, or that of the tier.
LEMMA RouteKeyOwn ==
    ASSUME NEW c, KeysAreOwn(c), NEW p \in Providers, NEW t
    PROVE  RouteKey(c, p, t) \in OwnKeys(p) \cup {NoKey} \/ RouteKey(c, p, t) \in TierKeys
<1>1. Stored[p] \in OwnKeys(p) \cup {NoKey} /\ Access[p] \in OwnKeys(p) \cup {NoKey}
  BY DEF OwnKeys
<1>2. ProviderKey(c, p) \in OwnKeys(p) \cup {NoKey}
  BY DEF KeysAreOwn
<1>3. t \in DOMAIN c.tierKeys => c.tierKeys[t] \in TierKeys
  BY DEF KeysAreOwn
<1> QED
  BY <1>1, <1>2, <1>3 DEF RouteKey, Resolved

LEMMA ChainKeyOwn ==
    ASSUME NEW c, KeysAreOwn(c), NEW p \in Providers
    PROVE  ChainKey(c, p) \in OwnKeys(p) \cup {NoKey}
  BY DEF ChainKey, Resolved, KeysAreOwn, OwnKeys

LEMMA RouteStep ==
    ASSUME ConfigInv, ServeInv, ChooseRoute
    PROVE  ServeInv'
<1>t. HandlerInv /\ ChainInv /\ KeysStayHome /\ FloorsHold
  BY DEF ServeInv
<1>1. Wanted[1] \in Providers /\ route' = Route(Wanted) /\ route'.provider = Wanted[1]
  BY DEF ChooseRoute, Routable, Registered, Route, ConfigInv
<1>2. KeyAllowed(key', route'.provider) /\ req' = req
  <2>1. KeysAreOwn(snap)
    BY DEF ChooseRoute, ConfigInv
  <2>2. key' = IF req.key # NoKey THEN req.key ELSE RouteKey(snap, Wanted[1], tier)
    BY <1>1 DEF ChooseRoute
  <2> QED
    BY <1>1, <2>1, <2>2, RouteKeyOwn DEF KeyAllowed, ChooseRoute
<1>3. HandlerInv'
  BY <1>t, <1>1, <1>2 DEF ChooseRoute, HandlerInv, Phases, KeyAllowed
<1>4. ChainInv' /\ KeysStayHome' /\ FloorsHold'
  BY <1>t, SameRequest DEF ChooseRoute, ChainInv, KeysStayHome
<1> QED
  BY <1>3, <1>4 DEF ServeInv

\* Pipeline::stream.
LEMMA StreamSteps ==
    ASSUME ConfigInv, ServeInv, StartStream \/ Connected \/ StreamOver
    PROVE  ServeInv'
<1>t. HandlerInv /\ ChainInv /\ KeysStayHome /\ FloorsHold
  BY DEF ServeInv
<1>1. CASE StartStream
  <2>1. /\ upstream' = Post(route.provider, route.model, key)
        /\ upstream'.provider = route.provider /\ upstream'.key = key
        /\ upstream'.stream = req.stream /\ upstream'.type = registry[route.provider]
    BY <1>1 DEF StartStream, Post
  <2>2. KeysStayHome'
    BY <1>t, <1>1, <2>1 DEF StartStream, HandlerInv, KeyAllowed, KeysStayHome
  <2>3. HandlerInv'
    <3>1. registry[route.provider] \in DOMAIN Answers
      BY <1>1 DEF StartStream, ConfigInv
    <3> QED
      BY <1>t, <1>1, <2>1, <3>1 DEF StartStream, HandlerInv, Phases
  <2>4. ChainInv' /\ FloorsHold'
    BY <1>t, <1>1, SameRequest DEF StartStream, ChainInv
  <2> QED
    BY <2>2, <2>3, <2>4 DEF ServeInv
<1>2. CASE Connected
  <2>1. HandlerInv' /\ KeysStayHome' /\ FloorsHold'
    BY <1>2 DEF Connected, HandlerInv, Phases, KeysStayHome, FloorsHold
  <2>2. <<>> \in Seq(ToSet(<<>>)) /\ Len(<<>>) = 0
    OBVIOUS
  <2>3. ChainInv'
    BY <1>2, <2>2, LogAssumption DEF Connected, ChainInv
  <2> QED
    BY <2>1, <2>3 DEF ServeInv
<1>3. CASE StreamOver
  <2>1. HandlerInv'
    BY <1>t, <1>3 DEF StreamOver, HandlerInv, Phases
  <2>2. ChainInv' /\ KeysStayHome' /\ FloorsHold'
    BY <1>t, <1>3, SameRequest DEF StreamOver, ChainInv, KeysStayHome
  <2> QED
    BY <2>1, <2>2 DEF ServeInv
<1> QED
  BY <1>1, <1>2, <1>3

\* Pipeline::complete.
LEMMA ChainSteps ==
    ASSUME ConfigInv, ServeInv, StartChain \/ Skip \/ Call \/ FallBack
    PROVE  ServeInv'
<1>t. HandlerInv /\ ChainInv /\ KeysStayHome /\ FloorsHold
  BY DEF ServeInv
<1>1. CASE StartChain
  <2>1. HandlerInv' /\ KeysStayHome' /\ FloorsHold'
    BY <1>t, <1>1, SameRequest DEF StartChain, HandlerInv, Phases, KeysStayHome
  <2>2. ChainInv'
    <3> DEFINE rest == IF tier \in DOMAIN cfg.tiers
                       THEN Each(LAMBDA f : f[1], cfg.tiers[tier].fallbacks) ELSE <<>>
    <3>1. \E T : rest \in Seq(T) /\ Len(rest) < MaxAttempts
      <4>1. CASE tier \in DOMAIN cfg.tiers
        <5> DEFINE fs == cfg.tiers[tier].fallbacks
        <5>1. fs \in Seq(ToSet(fs)) /\ Len(fs) < MaxAttempts
          BY <4>1 DEF ConfigInv, IsConfig, IsTier
        <5>2. rest = [i \in 1..Len(fs) |-> fs[i][1]]
          BY <4>1, <5>1 DEF Each
        <5> HIDE DEF rest, fs
        <5>3. rest \in Seq({fs[i][1] : i \in 1..Len(fs)}) /\ Len(rest) = Len(fs)
          BY <5>1, <5>2
        <5> QED
          BY <5>1, <5>3
      <4>2. CASE tier \notin DOMAIN cfg.tiers
        <5>1. rest = <<>>
          BY <4>2
        <5>2. 0 < MaxAttempts
          BY GatewayAssumption
        <5>3. <<>> \in Seq({}) /\ Len(<<>>) = 0
          OBVIOUS
        <5> HIDE DEF rest
        <5> QED
          BY <5>1, <5>2, <5>3
      <4> QED
        BY <4>1, <4>2
    <3>2. PICK T : rest \in Seq(T) /\ Len(rest) < MaxAttempts
      BY <3>1
    <3>3. chain' = <<route.provider>> \o rest
      BY <1>1 DEF StartChain
    <3> HIDE DEF rest
    <3>4. chain' \in Seq(T \cup {route.provider}) /\ Len(chain') = 1 + Len(rest)
      BY <3>2, <3>3
    <3>5. chain' \in Seq(ToSet(chain'))
      BY <3>4, SeqOfItsOwn
    <3>6. asked' = 0 /\ pc' = "chain"
      BY <1>t, <1>1 DEF StartChain, ChainInv
    <3> QED
      BY <3>2, <3>4, <3>5, <3>6, LogAssumption DEF ChainInv
  <2> QED
    BY <2>1, <2>2 DEF ServeInv
<1>2. ASSUME chain # <<>>, chain' = Tail(chain), asked' = asked + 1, pc' = "chain"
      PROVE  ChainInv'
  <2>1. chain \in Seq(ToSet(chain)) /\ asked \in Nat /\ asked + Len(chain) <= MaxAttempts
    BY <1>t DEF ChainInv
  <2>2. Tail(chain) \in Seq(ToSet(chain)) /\ Len(Tail(chain)) = Len(chain) - 1
    BY <1>2, <2>1
  <2>3. Tail(chain) \in Seq(ToSet(Tail(chain)))
    BY <2>2, SeqOfItsOwn
  <2> QED
    BY <1>2, <2>1, <2>2, <2>3, LogAssumption DEF ChainInv
<1>3. CASE Skip
  <2>1. ChainInv'
    BY <1>2, <1>3 DEF Skip
  <2>2. HandlerInv' /\ KeysStayHome' /\ FloorsHold'
    BY <1>t, <1>3, SameRequest DEF Skip, HandlerInv, KeysStayHome
  <2> QED
    BY <2>1, <2>2 DEF ServeInv
<1>4. CASE FallBack
  <2>1. ChainInv'
    BY <1>t, <1>2, <1>4 DEF FallBack, ChainInv
  <2>2. HandlerInv' /\ KeysStayHome' /\ FloorsHold'
    BY <1>t, <1>4, SameRequest DEF FallBack, HandlerInv, Phases, KeysStayHome
  <2> QED
    BY <2>1, <2>2 DEF ServeInv
<1>5. CASE Call
  <2>1. /\ upstream'.provider = Head(chain)
        /\ upstream'.key = ChainKey(cfg, Head(chain))
        /\ Head(chain) \in Providers /\ KeysAreOwn(cfg)
    BY <1>5 DEF Call, Post, ConfigInv
  <2>2. KeysStayHome'
    BY <2>1, ChainKeyOwn DEF KeysStayHome
  <2>3. HandlerInv' /\ ChainInv' /\ FloorsHold'
    BY <1>t, <1>5, SameRequest DEF Call, HandlerInv, Phases, ChainInv
  <2> QED
    BY <2>2, <2>3 DEF ServeInv
<1> QED
  BY <1>1, <1>3, <1>4, <1>5

LEMMA PassSteps ==
    ASSUME ConfigInv, ServeInv, PassThrough \/ PassMedia
    PROVE  ServeInv'
<1>t. HandlerInv /\ ChainInv /\ KeysStayHome /\ FloorsHold
  BY DEF ServeInv
<1>1. PICK w \in WireCalls :
          /\ w.ref[1] \in DOMAIN registry
          /\ upstream' = [provider |-> w.ref[1], model |-> Tail(w.ref), stream |-> FALSE,
                          key |-> ChainKey(cfg, w.ref[1])]
  BY DEF PassThrough, PassMedia, WireAccepts, Registered
<1>2. KeysStayHome'
  <2>1. w.ref[1] \in Providers /\ KeysAreOwn(cfg)
    BY <1>1 DEF ConfigInv
  <2>2. upstream'.provider = w.ref[1] /\ upstream'.key = ChainKey(cfg, w.ref[1])
    BY <1>1
  <2> QED
    BY <2>1, <2>2, ChainKeyOwn DEF KeysStayHome
<1>3. HandlerInv' /\ ChainInv' /\ FloorsHold'
  BY <1>t, SameRequest DEF PassThrough, PassMedia, HandlerInv, Phases, ChainInv
<1> QED
  BY <1>2, <1>3 DEF ServeInv

-----------------------------------------------------------------------------
(* The invariant holds *)

\* A step of the stream, the log or an administrator leaves the handler alone.
LEMMA SameHandler ==
    ASSUME ServeInv, UNCHANGED handlerVars
    PROVE  ServeInv'
<1>1. HandlerInv' /\ ChainInv'
  BY DEF ServeInv, handlerVars, HandlerInv, ChainInv, KeyAllowed
<1>2. KeysStayHome' /\ FloorsHold'
  BY SameRequest, SameUpstream DEF ServeInv, handlerVars
<1> QED
  BY <1>1, <1>2 DEF ServeInv

LEMMA ServeStep ==
    ASSUME ConfigInv, ServeInv, [GatewayNext]_gatewayVars
    PROVE  ServeInv'
<1>1. CASE Panic \/ Refuse \/ Disappeared \/ NotConnected \/ Succeed \/ Abandon \/ Passed
  BY <1>1, DoneStep DEF Panic, Refuse, Disappeared, NotConnected, Succeed, Abandon, Passed
<1>2. CASE Admin \/ Streamed \/ Logged \/ UNCHANGED gatewayVars
  <2>1. UNCHANGED handlerVars
    BY <1>2 DEF Admin, Reload, UpdateTier, RemoveProvider, AddProvider, Edit, FollowEdit,
                Streamed, Logged, gatewayVars
  <2> QED
    BY <2>1, SameHandler
<1> QED
  BY <1>1, <1>2, ParseSteps, RouteStep, StreamSteps, ChainSteps, PassSteps DEF GatewayNext, Serve

\* Only administrators change the configuration, and a snapshot is one of it.
LEMMA ConfigStep ==
    ASSUME ConfigInv, [GatewayNext]_gatewayVars
    PROVE  ConfigInv'
<1>1. ASSUME UNCHANGED configVars, pc' = "snapped" => KeysAreOwn(snap')
      PROVE  ConfigInv'
  <2>1. UNCHANGED <<cfg, registry, half, edits>>
    BY <1>1 DEF configVars
  <2>2. IsConfig(cfg)' /\ KeysAreOwn(cfg)'
    BY <2>1 DEF ConfigInv, KeysAreOwn, ProviderKey, IsConfig
  <2>3. KeysAreOwn(snap)' <=> KeysAreOwn(snap')
    BY DEF KeysAreOwn, ProviderKey
  <2> QED
    BY <1>1, <2>1, <2>2, <2>3 DEF ConfigInv
<1>2. CASE TakeSnapshot
  <2>1. UNCHANGED configVars /\ snap' = cfg
    BY <1>2 DEF TakeSnapshot, Handler
  <2> QED
    BY <1>1, <2>1 DEF ConfigInv
<1>3. CASE Streamed \/ Logged \/ UNCHANGED gatewayVars
  <2>1. UNCHANGED configVars /\ pc' = pc /\ snap' = snap
    BY <1>3 DEF Streamed, Logged, gatewayVars, handlerVars
  <2> QED
    BY <1>1, <2>1 DEF ConfigInv
<1>4. CASE Panic \/ Refuse \/ Disappeared \/ NotConnected \/ Succeed \/ Abandon \/ Passed
  <2>1. UNCHANGED configVars /\ pc' = "idle"
    BY <1>4 DEF Panic, Refuse, Disappeared, NotConnected, Succeed, Abandon, Passed, Handler, HandlerDone
  <2> QED
    BY <1>1, <2>1
<1>5. CASE ScoreTier \/ Detect \/ ChooseRoute \/ StartStream \/ Connected \/ StreamOver
           \/ StartChain \/ Skip \/ Call \/ FallBack \/ PassThrough \/ PassMedia
  <2>1. UNCHANGED configVars /\ pc' # "snapped"
    BY <1>5 DEF ScoreTier, Detect, ChooseRoute, StartStream, Connected, StreamOver,
                StartChain, Skip, Call, FallBack, PassThrough, PassMedia, Handler
  <2> QED
    BY <1>1, <2>1
<1>6. ASSUME NEW r \in Requests, Arrive(r)
      PROVE  ConfigInv'
  <2>1. UNCHANGED configVars /\ pc' # "snapped"
    BY <1>6 DEF Arrive, Handler, handlerVars
  <2> QED
    BY <1>1, <2>1
<1> QED
  BY <1>2, <1>3, <1>4, <1>5, <1>6, AdminStep DEF GatewayNext, Serve

\* The handler is streaming as long as there is a stream.
LEMMA PhaseStep ==
    ASSUME (pc = "streaming") <=> (phase # "none"), [GatewayNext]_gatewayVars
    PROVE  ((pc = "streaming") <=> (phase # "none"))'
<1>1. CASE Streamed
  <2>1. pc = "streaming" /\ pc' = pc /\ StreamNext
    BY <1>1 DEF Streamed, handlerVars
  <2>2. phase' # "none"
    BY <2>1 DEF StreamNext, Relay, Upstream, ParseEvent, Forward, Overdue, ForwardError, Terminate,
                ReadChunk, EndOfBytes, Break, Leave, Overrun, Active, Drained
  <2> QED
    BY <2>1, <2>2
<1>2. CASE Connected
  BY <1>2 DEF Connected, Open
<1>3. CASE StreamOver
  BY <1>3 DEF StreamOver, Close
<1>4. CASE Admin \/ Logged \/ UNCHANGED gatewayVars
  BY <1>4 DEF Admin, Reload, UpdateTier, RemoveProvider, AddProvider, Edit, FollowEdit,
              Logged, gatewayVars, handlerVars, streamVars
<1>5. CASE Panic \/ Refuse \/ Disappeared \/ NotConnected \/ Succeed \/ Abandon \/ Passed
  <2>1. UNCHANGED streamVars /\ pc' = "idle" /\ pc # "streaming"
    BY <1>5 DEF Panic, Refuse, Disappeared, NotConnected, Succeed, Abandon, Passed, Handler, HandlerDone
  <2> QED
    BY <2>1 DEF streamVars
<1>6. CASE ScoreTier \/ Detect \/ TakeSnapshot \/ ChooseRoute \/ StartStream
           \/ StartChain \/ Skip \/ Call \/ FallBack \/ PassThrough \/ PassMedia
  <2>1. UNCHANGED streamVars /\ pc' # "streaming" /\ pc # "streaming"
    BY <1>6 DEF ScoreTier, Detect, TakeSnapshot, ChooseRoute, StartStream,
                StartChain, Skip, Call, FallBack, PassThrough, PassMedia, Handler
  <2> QED
    BY <2>1 DEF streamVars
<1>7. ASSUME NEW r \in Requests, Arrive(r)
      PROVE  ((pc = "streaming") <=> (phase # "none"))'
  <2>1. UNCHANGED streamVars /\ pc' # "streaming" /\ pc # "streaming"
    BY <1>7 DEF Arrive, Handler, handlerVars
  <2> QED
    BY <2>1 DEF streamVars
<1> QED
  BY <1>1, <1>2, <1>3, <1>4, <1>5, <1>6, <1>7 DEF GatewayNext, Serve

LEMMA GatewayStarts == GatewayInit => GatewayInv
<1> SUFFICES ASSUME GatewayInit PROVE GatewayInv
  OBVIOUS
<1>1. IsConfig(Config0) /\ KeysAreOwn(Config0)
  BY LoadedConfig
<1>2. ConfigInv
  <2>1. DOMAIN registry = DOMAIN Config0.providers
        /\ \A p \in DOMAIN registry : registry[p] = Config0.providers[p].type
    BY DEF GatewayInit, Types
  <2>2. cfg = Config0 /\ half = NoName /\ edits = 0 /\ pc = "idle"
    BY DEF GatewayInit
  <2>3. IsConfig(cfg) /\ KeysAreOwn(cfg)
    BY <1>1, <2>2
  <2>4. edits \in 0..MaxEdits
    BY <2>2, GatewayAssumption
  <2> QED
    BY <1>1, <2>1, <2>2, <2>3, <2>4 DEF ConfigInv, IsConfig, IsProvider
<1>3. ServeInv
  <2>1. <<>> \in Seq(ToSet(<<>>)) /\ Len(<<>>) = 0
    OBVIOUS
  <2>2. HandlerInv /\ ChainInv
    BY <2>1, LogAssumption DEF GatewayInit, HandlerInv, ChainInv, Phases
  <2>3. KeysStayHome /\ FloorsHold
    BY DEF GatewayInit, KeysStayHome, FloorsHold
  <2> QED
    BY <2>2, <2>3 DEF ServeInv
<1> QED
  BY <1>2, <1>3 DEF GatewayInv, GatewayInit, StreamIdle

LEMMA GatewayInvariant == GatewaySpec => []GatewayInv
<1>1. GatewayInv /\ [GatewayNext]_gatewayVars => GatewayInv'
  BY ConfigStep, ServeStep, PhaseStep DEF GatewayInv
<1> QED
  BY <1>1, GatewayStarts, PTL DEF GatewaySpec

-----------------------------------------------------------------------------
(* The log of the gateway *)

\* What the gateway does to the log is a step of the log: a handler that was
\* answered logs no more attempts than there may be.
LEMMA LogStep ==
    ASSUME GatewayInv, [GatewayNext]_gatewayVars
    PROVE  [LogNext \/ AnyRequest]_logVars
<1>1. CASE Succeed
  <2>1. PICK metered \in BOOLEAN : LogRequest(Chat, asked + 1, metered)
    BY <1>1 DEF Succeed
  <2>2. asked + 1 \in 0..MaxAttempts
    <3>1. pc = "waiting" /\ ChainInv
      BY <1>1 DEF Succeed, GatewayInv, ServeInv
    <3>2. chain \in Seq(ToSet(chain)) /\ chain # <<>> /\ asked \in Nat /\ asked + Len(chain) <= MaxAttempts
      BY <3>1 DEF ChainInv
    <3>3. Len(chain) \in Nat /\ Len(chain) > 0
      BY <3>2
    <3> QED
      BY <3>2, <3>3, LogAssumption
  <2> QED
    BY <2>1, <2>2, GatewayAssumption DEF AnyRequest
<1>2. CASE Passed
  <2>1. CASE LogRequest(Media, 0, FALSE)
    <3>1. 0 \in 0..MaxAttempts /\ Media \in Ids /\ FALSE \in BOOLEAN
      BY LogAssumption, GatewayAssumption
    <3> QED
      BY <2>1, <3>1 DEF AnyRequest
  <2> QED
    BY <1>2, <2>1 DEF Passed
<1>3. CASE Logged
  BY <1>3 DEF Logged
<1>4. CASE Admin \/ Streamed \/ StreamOver \/ Connected \/ UNCHANGED gatewayVars
  BY <1>4 DEF Admin, Reload, UpdateTier, RemoveProvider, AddProvider, Edit, FollowEdit,
              Streamed, StreamOver, Connected, gatewayVars
<1>5. CASE \/ ScoreTier \/ Detect \/ Panic \/ TakeSnapshot \/ ChooseRoute \/ Refuse
           \/ StartStream \/ Disappeared \/ NotConnected
           \/ StartChain \/ Skip \/ Call \/ FallBack \/ Abandon
           \/ PassThrough \/ PassMedia
           \/ \E r \in Requests : Arrive(r)
  <2>1. UNCHANGED logVars
    BY <1>5 DEF ScoreTier, Detect, Panic, TakeSnapshot, ChooseRoute, Refuse, StartStream, Disappeared,
                NotConnected, StartChain, Skip, Call, FallBack, Abandon, PassThrough, PassMedia,
                Arrive, Handler
  <2> QED
    BY <2>1
<1> QED
  BY <1>1, <1>2, <1>3, <1>4, <1>5 DEF GatewayNext, Serve

LEMMA GatewayLogs == GatewaySpec => []LogInv
<1>1. GatewayInit => LogInv
  BY LogInitInv DEF GatewayInit
<1>2. GatewayInv /\ LogInv /\ [GatewayNext]_gatewayVars => LogInv'
  BY LogStep, LogNextInv
<1> QED
  BY <1>1, <1>2, GatewayInvariant, PTL DEF GatewaySpec

-----------------------------------------------------------------------------
(***************************************************************************)
(* Whatever is asked, routed and edited, the handler is at a place of its  *)
(* own, with a tier, a category and a provider there are, and asks no more *)
(* providers than the chain has; there is a stream exactly while it        *)
(* streams (chat_completions, Pipeline::route, Pipeline::complete).        *)
(***************************************************************************)
THEOREM GatewayTypeCorrect == GatewaySpec => []GatewayTypeOK
<1>1. GatewayInv /\ LogInv => GatewayTypeOK
  <2> SUFFICES ASSUME GatewayInv, LogInv PROVE GatewayTypeOK
    OBVIOUS
  <2>1. /\ DOMAIN cfg.providers \subseteq Providers /\ DOMAIN registry \subseteq Providers
        /\ half \in Providers \cup {NoName} /\ edits \in 0..MaxEdits
    BY DEF GatewayInv, ConfigInv, IsConfig
  <2>2. /\ pc \in Phases /\ req \in Requests \cup {None} /\ tier \in TierNames \cup {NoName}
        /\ category \in Categories \cup {NoName}
        /\ route # None => route.provider \in Providers
    BY DEF GatewayInv, ServeInv, HandlerInv
  <2>3. asked \in 0..MaxAttempts
    <3>1. asked \in Nat /\ chain \in Seq(ToSet(chain)) /\ asked + Len(chain) <= MaxAttempts
      BY DEF GatewayInv, ServeInv, ChainInv
    <3> QED
      BY <3>1, LogAssumption
  <2> QED
    BY <2>1, <2>2, <2>3 DEF GatewayInv, LogInv, GatewayTypeOK
<1> QED
  BY <1>1, GatewayInvariant, GatewayLogs, PTL

(***************************************************************************)
(* No rules, of any number, and no default take a request below what its   *)
(* content asks for: Scorer::score, for every configuration that is loaded *)
(* or edited while the request is on its way.                              *)
(***************************************************************************)
THEOREM FloorsAreKept == GatewaySpec => []FloorsHold
<1>1. GatewayInv => FloorsHold
  BY DEF GatewayInv, ServeInv
<1> QED
  BY <1>1, GatewayInvariant, PTL

(***************************************************************************)
(* No provider is sent another one's key, whatever is reloaded, edited,    *)
(* removed or added between two steps of a handler: route(), which works   *)
(* from a snapshot, and the resolver of complete(), which does not.        *)
(***************************************************************************)
THEOREM KeysAreKeptHome == GatewaySpec => []KeysStayHome
<1>1. GatewayInv => KeysStayHome
  BY DEF GatewayInv, ServeInv
<1> QED
  BY <1>1, GatewayInvariant, PTL

(***************************************************************************)
(* The log follows the answers of the gateway itself, whose handlers write *)
(* a row and as many attempts as providers were asked, and not only those  *)
(* of any handlers (LogIsComplete).                                        *)
(***************************************************************************)
THEOREM GatewayLogIsComplete == GatewaySpec => []LogFollowsAnswers
  BY LogInvImplies, GatewayLogs, PTL

-----------------------------------------------------------------------------
(* Streams *)

SentEvents == [kind : {"chunk"}, chunk : PromisedChunks] \cup {Error, Terminator}

\* A stream has an answer of its adapter's kind, what it yields is chunks that
\* are promised, and an error is sent when it is over.
StreamInv ==
    /\ phase # "none" => type \in DOMAIN Answers /\ answer \in Answers[type] /\ got <= Units
    /\ got \in Nat /\ parsed \in Nat
    /\ queue \in Seq(PromisedChunks) /\ sent \in Seq(SentEvents)
    /\ phase = "none" => got = 0 /\ parsed = 0 /\ queue = <<>> /\ sent = <<>>
    /\ phase \in {"reading", "tail", "failed"} => Error \notin ToSet(sent)

EventsOf(a) == [text : {NoText} \cup ToSet(a.texts), reason : {NoReason, a.reason}]

LEMMA SequencesAre ==
    ASSUME NEW T
    PROVE  /\ <<>> \in Seq(T)
           /\ \A x \in T : <<x>> \in Seq(T)
           /\ \A s \in Seq(T), x \in T : Append(s, x) \in Seq(T)
           /\ \A n \in Nat : [1..n -> T] \subseteq Seq(T)
<1>1. ASSUME NEW n \in Nat, NEW s \in [1..n -> T]
      PROVE  s \in Seq(T)
  OBVIOUS
<1> QED
  BY <1>1

LEMMA EventsAre ==
    ASSUME NEW y \in DOMAIN Answers, NEW a \in Answers[y]
    PROVE  Events(y, a) \in Seq(EventsOf(a))
<1> DEFINE n == Len(a.texts)
           texts == [i \in 1..n |-> Event(a.texts[i], NoReason)]
<1>1. a.texts \in Seq(ToSet(a.texts) \ {NoText}) /\ n \in Nat
  BY GatewayAssumption
<1> DEFINE marked == [i \in 1..n |-> Event(a.texts[i], IF i = n THEN a.reason ELSE NoReason)]
<1>2. ASSUME NEW i \in 1..n
      PROVE  texts[i] \in EventsOf(a) /\ marked[i] \in EventsOf(a)
  <2>1. a.texts[i] \in ToSet(a.texts)
    BY <1>1
  <2> QED
    BY <2>1 DEF Event, EventsOf
<1>3. texts \in Seq(EventsOf(a))
  <2>1. texts \in [1..n -> EventsOf(a)]
    BY <1>2
  <2> HIDE DEF texts, n
  <2> QED
    BY <1>1, <2>1, SequencesAre
<1>4. Noise \in EventsOf(a) /\ Event(NoText, a.reason) \in EventsOf(a)
  BY DEF Noise, Event, EventsOf
<1>5. marked \in Seq(EventsOf(a)) /\ <<Event(NoText, a.reason)>> \in Seq(EventsOf(a))
  <2>1. marked \in [1..n -> EventsOf(a)]
    BY <1>2
  <2> HIDE DEF marked, n
  <2> QED
    BY <1>1, <1>4, <2>1, SequencesAre
<1> HIDE DEF texts, marked, n
<1>6. /\ Append(texts, Noise) \in Seq(EventsOf(a))
      /\ <<Noise>> \o Append(texts, Event(NoText, a.reason)) \in Seq(EventsOf(a))
      /\ texts \o <<Event(NoText, a.reason), Noise>> \in Seq(EventsOf(a))
  BY <1>3, <1>4
<1> QED
  BY <1>5, <1>6 DEF Events, texts, marked, n

LEMMA ChunkIsPromised ==
    ASSUME NEW y \in DOMAIN Answers, NEW a \in Answers[y], NEW e \in EventsOf(a),
           NEW r \in {NoReason, "stop", "end_turn", Complete(y, a).reason}
    PROVE  Chunk(e.text, r) \in PromisedChunks /\ Chunk(NoText, r) \in PromisedChunks
<1> DEFINE x == [type |-> y, answer |-> a]
<1>1. x \in AllAnswers /\ x.type = y /\ x.answer = a
  BY DEF AllAnswers
<1>2. e.text \in {NoText} \cup ToSet(a.texts)
  BY DEF EventsOf
<1> HIDE DEF x
<1>3. e.text \in {NoText} \cup UNION {ToSet(z.answer.texts) : z \in AllAnswers}
  BY <1>1, <1>2
<1>4. r \in {NoReason, "stop", "end_turn"} \cup {Complete(z.type, z.answer).reason : z \in AllAnswers}
  BY <1>1
<1> QED
  BY <1>3, <1>4 DEF Chunk, PromisedChunks

\* What the six parsers make of an event.
LEMMA ParseIsPromised ==
    ASSUME NEW y \in DOMAIN Answers, NEW a \in Answers[y], NEW e \in EventsOf(a)
    PROVE  Parse(y, e) \in Seq(PromisedChunks)
<1> USE ChunkIsPromised
<1>1. e.reason \in {NoReason, a.reason}
  BY DEF EventsOf
<1>2. CASE y = "google"
  <2> DEFINE r == IF e.reason = NoReason THEN NoReason ELSE GoogleReason(e.reason)
  <2>1. r \in {NoReason, Complete(y, a).reason}
    BY <1>1, <1>2 DEF Complete, GoogleComplete, Whole
  <2> HIDE DEF r
  <2>2. Chunk(e.text, r) \in PromisedChunks /\ Chunk(NoText, r) \in PromisedChunks
    BY <2>1
  <2>3. Parse(y, e) = (IF e.text # NoText THEN <<Chunk(e.text, r)>> ELSE <<>>)
                      \o (IF r # NoReason THEN <<Chunk(NoText, r)>> ELSE <<>>)
    BY <1>2 DEF Parse, GoogleChunks, r
  <2> QED
    BY <2>2, <2>3
<1>3. CASE y \in {"responses", "kiro"}
  <2>1. Chunk(e.text, NoReason) \in PromisedChunks /\ Chunk(NoText, "stop") \in PromisedChunks
    OBVIOUS
  <2>2. Parse(y, e) \in {<<>>, <<Chunk(e.text, NoReason)>>, <<Chunk(NoText, "stop")>>}
    BY <1>3 DEF Parse, ResponsesChunks, KiroChunks
  <2> QED
    BY <2>1, <2>2, SequencesAre
<1>4. CASE y \notin {"google", "responses", "kiro"}
  <2>1. e.reason \in {NoReason, Complete(y, a).reason}
    BY <1>1, <1>4 DEF Complete, AnthropicComplete, OpenAIComplete, GenericComplete, Whole
  <2>2. /\ Chunk(e.text, e.reason) \in PromisedChunks /\ Chunk(NoText, e.reason) \in PromisedChunks
        /\ Chunk(e.text, NoReason) \in PromisedChunks
    BY <2>1
  <2>3. Parse(y, e) \in {<<>>, <<Chunk(e.text, e.reason)>>, <<Chunk(NoText, e.reason)>>,
                         <<Chunk(e.text, NoReason)>>}
    BY <1>4 DEF Parse, AnthropicChunks, OpenAIChunks, GenericChunks
  <2> QED
    BY <2>2, <2>3, SequencesAre
<1> QED
  BY <1>2, <1>3, <1>4

\* What they add when the bytes end.
LEMMA TailIsPromised ==
    ASSUME NEW y \in DOMAIN Answers, NEW a \in Answers[y]
    PROVE  TailChunks(y) \in Seq(PromisedChunks)
<1>1. Noise \in EventsOf(a)
  BY DEF Noise, Event, EventsOf
<1>2. Chunk(NoText, "stop") \in PromisedChunks /\ Chunk(NoText, "end_turn") \in PromisedChunks
  BY <1>1, ChunkIsPromised
<1>3. TailChunks(y) \in {<<>>, Ending("stop"), Ending("end_turn")}
  BY DEF TailChunks, AnthropicTail, GoogleTail, ResponsesTail, KiroTail
<1> QED
  BY <1>2, <1>3, SequencesAre DEF Ending

LEMMA AppendSays ==
    ASSUME NEW T, NEW s \in Seq(T), NEW e \in T
    PROVE  ToSet(Append(s, e)) = ToSet(s) \cup {e}
<1>1. Len(s) \in Nat /\ DOMAIN s = 1..Len(s) /\ DOMAIN Append(s, e) = 1..Len(s)+1
  OBVIOUS
<1>2. Append(s, e)[Len(s)+1] = e /\ \A i \in 1..Len(s) : Append(s, e)[i] = s[i]
  OBVIOUS
<1>3. 1..Len(s)+1 = 1..Len(s) \cup {Len(s)+1}
  BY <1>1
<1> QED
  BY <1>1, <1>2, <1>3 DEF ToSet

LEMMA ErrorApart == \A c : [kind |-> "chunk", chunk |-> c] # Error
<1>1. \A c : [kind |-> "chunk", chunk |-> c].kind = "chunk" /\ Error.kind = "error"
  BY DEF Error
<1> QED
  BY <1>1

LEMMA WhoStreams ==
    ASSUME [GatewayNext]_gatewayVars
    PROVE  UNCHANGED streamVars \/ Connected \/ Streamed \/ StreamOver
<1>1. CASE Admin \/ Logged \/ UNCHANGED gatewayVars
  BY <1>1 DEF Admin, Reload, UpdateTier, RemoveProvider, AddProvider, Edit, FollowEdit, Logged, gatewayVars
<1>2. CASE Serve /\ ~ Connected
  BY <1>2 DEF Serve, Arrive, ScoreTier, Detect, Panic, TakeSnapshot, ChooseRoute, Refuse, StartStream,
              Disappeared, NotConnected, StartChain, Skip, Call, Succeed, FallBack, Abandon,
              PassThrough, PassMedia, Passed, Handler
<1> QED
  BY <1>1, <1>2 DEF GatewayNext

LEMMA StreamNextKeeps ==
    ASSUME StreamInv, StreamNext, phase # "none"
    PROVE  StreamInv'
<1>t. /\ type \in DOMAIN Answers /\ answer \in Answers[type] /\ got <= Units
      /\ got \in Nat /\ parsed \in Nat
      /\ queue \in Seq(PromisedChunks) /\ sent \in Seq(SentEvents)
      /\ phase \in {"reading", "tail", "failed"} => Error \notin ToSet(sent)
  BY DEF StreamInv
<1>e. Events(type, answer) \in Seq(EventsOf(answer)) /\ Units \in Nat
  BY <1>t, EventsAre DEF Units
<1>1. CASE ParseEvent
  <2>1. parsed + 1 \in 1..Len(Events(type, answer))
    BY <1>t, <1>e, <1>1 DEF ParseEvent, Ready, Units
  <2>2. Events(type, answer)[parsed + 1] \in EventsOf(answer)
    BY <1>e, <2>1
  <2>3. queue' \in Seq(PromisedChunks)
    BY <1>t, <1>1, <2>2, ParseIsPromised DEF ParseEvent
  <2>4. UNCHANGED <<type, answer, got, phase, sent>> /\ parsed' = parsed + 1 /\ phase = "reading"
    BY <1>1 DEF ParseEvent
  <2>5. Units' = Units
    BY <2>4 DEF Units
  <2> QED
    BY <1>t, <2>3, <2>4, <2>5 DEF StreamInv
<1>2. CASE ReadChunk
  <2>1. got' \in Nat /\ got' <= Units /\ phase' = phase
        /\ UNCHANGED <<type, answer, parsed, queue, sent>>
    BY <1>t, <1>e, <1>2 DEF ReadChunk
  <2>2. Units' = Units
    BY <2>1 DEF Units
  <2> QED
    BY <1>t, <2>1, <2>2 DEF StreamInv
<1>3. CASE EndOfBytes \/ Break
  <2>1. /\ UNCHANGED <<type, answer, got, parsed, sent>> /\ phase = "reading" /\ phase' \in {"tail", "failed"}
        /\ queue' \in Seq(PromisedChunks)
    BY <1>t, <1>3, TailIsPromised DEF EndOfBytes, Break, Drained
  <2>2. Units' = Units
    BY <2>1 DEF Units
  <2> QED
    BY <1>t, <2>1, <2>2 DEF StreamInv
<1>4. CASE Forward
  <2> DEFINE e == [kind |-> "chunk", chunk |-> Head(queue)]
  <2>1. Head(queue) \in PromisedChunks /\ Tail(queue) \in Seq(PromisedChunks)
    BY <1>t, <1>4 DEF Forward
  <2>2. e \in SentEvents /\ e # Error
    BY <2>1, ErrorApart DEF SentEvents
  <2>3. /\ UNCHANGED <<type, answer, got, parsed, phase>> /\ phase \in {"reading", "tail"}
        /\ queue' = Tail(queue) /\ sent' = Append(sent, e)
    BY <1>4 DEF Forward, Active
  <2> HIDE DEF e
  <2>4. sent' \in Seq(SentEvents) /\ ToSet(sent') = ToSet(sent) \cup {e}
    BY <1>t, <2>2, <2>3, AppendSays
  <2>5. Units' = Units
    BY <2>3 DEF Units
  <2>6. Error \notin ToSet(sent')
    BY <1>t, <2>2, <2>3, <2>4
  <2> QED
    BY <1>t, <2>1, <2>3, <2>4, <2>5, <2>6 DEF StreamInv, ToSet
<1>5. CASE Overdue \/ ForwardError \/ Terminate
  <2>1. /\ UNCHANGED <<type, answer, got, parsed>> /\ phase' \in {"closing", "closed"}
        /\ queue' \in {queue, <<>>}
        /\ sent' \in {Append(sent, Error), Append(sent, Terminator)}
    BY <1>5 DEF Overdue, ForwardError, Terminate
  <2>2. queue' \in Seq(PromisedChunks) /\ sent' \in Seq(SentEvents)
    <3>1. Error \in SentEvents /\ Terminator \in SentEvents
      BY DEF SentEvents
    <3> QED
      BY <1>t, <2>1, <3>1, SequencesAre
  <2>3. Units' = Units
    BY <2>1 DEF Units
  <2> QED
    BY <1>t, <2>1, <2>2, <2>3 DEF StreamInv
<1>6. CASE Leave \/ Overrun
  <2>1. /\ UNCHANGED <<type, answer, got, parsed, queue, sent>>
        /\ phase' = "gone" \/ phase' = phase
    BY <1>6 DEF Leave, Overrun
  <2>3. Units' = Units
    BY <2>1 DEF Units
  <2> QED
    BY <1>t, <2>1, <2>3 DEF StreamInv
<1> QED
  BY <1>1, <1>2, <1>3, <1>4, <1>5, <1>6 DEF StreamNext, Relay, Upstream

LEMMA StreamStep ==
    ASSUME GatewayInv, StreamInv, [GatewayNext]_gatewayVars
    PROVE  StreamInv'
<1>1. CASE Streamed
  BY <1>1, StreamNextKeeps DEF Streamed, GatewayInv
<1>2. CASE Connected
  <2>1. upstream.type \in DOMAIN Answers
    BY <1>2 DEF Connected, GatewayInv, ServeInv, HandlerInv
  <2>2. PICK a \in Answers[upstream.type] : Open(upstream.type, a)
    BY <1>2 DEF Connected
  <2>3. /\ type' = upstream.type /\ answer' = a /\ phase' = "reading"
        /\ got' = 0 /\ parsed' = 0 /\ queue' = <<>> /\ sent' = <<>>
    BY <2>2 DEF Open, StreamInv
  <2>4. Events(type', answer') \in Seq(EventsOf(answer'))
    BY <2>1, <2>3, EventsAre
  <2>5. got' <= Units'
    BY <2>3, <2>4 DEF Units
  <2>6. <<>> \in Seq(PromisedChunks) /\ <<>> \in Seq(SentEvents) /\ ToSet(<<>>) = {}
    BY DEF ToSet
  <2> QED
    BY <2>1, <2>3, <2>5, <2>6 DEF StreamInv
<1>3. CASE StreamOver
  <2>1. /\ phase' = "none" /\ got' = 0 /\ parsed' = 0 /\ queue' = <<>> /\ sent' = <<>>
    BY <1>3 DEF StreamOver, Close
  <2>2. <<>> \in Seq(PromisedChunks) /\ <<>> \in Seq(SentEvents)
    OBVIOUS
  <2> QED
    BY <2>1, <2>2 DEF StreamInv
<1>4. CASE UNCHANGED streamVars
  <2>1. Units' = Units
    BY <1>4 DEF streamVars, Units
  <2> QED
    BY <1>4, <2>1 DEF streamVars, StreamInv
<1> QED
  BY <1>1, <1>2, <1>3, <1>4, WhoStreams

LEMMA StreamInvariant == GatewaySpec => []StreamInv
<1>1. GatewayInit => StreamInv
  <2> SUFFICES ASSUME GatewayInit PROVE StreamInv
    OBVIOUS
  <2>1. <<>> \in Seq(PromisedChunks) /\ <<>> \in Seq(SentEvents)
    OBVIOUS
  <2> QED
    BY <2>1 DEF GatewayInit, StreamIdle, StreamInv
<1>2. GatewayInv /\ StreamInv /\ [GatewayNext]_gatewayVars => StreamInv'
  BY StreamStep
<1> QED
  BY <1>1, <1>2, GatewayInvariant, PTL DEF GatewaySpec

-----------------------------------------------------------------------------
(* What the caller of a stream is promised *)

LEMMA PromiseStep ==
    ASSUME GatewayInv, StreamInv, [GatewayNext]_gatewayVars
    PROVE  [Promise!PromiseNext]_(Promise!promiseVars)
<1> USE DEF Promise!PromiseNext, Promise!promiseVars
<1>e. Promise!Error = Error /\ Promise!Terminator = Terminator
  BY DEF Promise!Error, Promise!Terminator, Error, Terminator
<1>1. CASE UNCHANGED streamVars
  BY <1>1 DEF streamVars, PromisedStatus
<1>2. CASE Connected
  <2>1. phase = "none" /\ phase' = "reading" /\ sent' = sent /\ sent = <<>>
    BY <1>2 DEF Connected, Open, StreamInv
  <2> QED
    BY <2>1 DEF Promise!PromiseOpen, PromisedStatus
<1>3. CASE StreamOver
  <2>1. phase \in {"closed", "gone"} /\ phase' = "none" /\ sent' = <<>>
    BY <1>3 DEF StreamOver, Close
  <2> QED
    BY <2>1 DEF Promise!PromiseForget, PromisedStatus
<1>4. CASE Streamed
  <2>1. StreamNext
    BY <1>4 DEF Streamed
  <2>2. /\ phase \in {"reading", "tail", "failed"} => Error \notin {sent[i] : i \in DOMAIN sent}
        /\ queue \in Seq(PromisedChunks)
    BY DEF StreamInv, ToSet
  <2>3. CASE ParseEvent \/ ReadChunk \/ EndOfBytes \/ Break \/ Overrun
    <3>1. sent' = sent /\ phase \in {"reading", "tail", "failed"} /\ phase' \in {"reading", "tail", "failed"}
      BY <2>3 DEF ParseEvent, ReadChunk, EndOfBytes, Break, Overrun, Drained
    <3> QED
      BY <3>1 DEF PromisedStatus
  <2>4. CASE Forward
    <3>1. /\ Head(queue) \in PromisedChunks /\ sent' = Append(sent, [kind |-> "chunk", chunk |-> Head(queue)])
          /\ phase \in {"reading", "tail"} /\ phase' = phase
      BY <2>2, <2>4 DEF Forward, Active
    <3> QED
      BY <1>e, <2>2, <3>1 DEF Promise!PromiseChunk, PromisedStatus
  <2>5. CASE Overdue \/ ForwardError
    <3>1. sent' = Append(sent, Error) /\ phase \in {"reading", "tail", "failed"} /\ phase' = "closing"
      BY <2>5 DEF Overdue, ForwardError, Active
    <3> QED
      BY <1>e, <2>2, <3>1 DEF Promise!PromiseError, PromisedStatus
  <2>6. CASE Terminate
    <3>1. sent' = Append(sent, Terminator) /\ phase \in {"closing", "tail"} /\ phase' = "closed"
      BY <2>6 DEF Terminate
    <3> QED
      BY <1>e, <3>1 DEF Promise!PromiseEnd, PromisedStatus
  <2>7. CASE Leave
    <3>1. sent' = sent /\ phase \in {"reading", "tail", "failed", "closing"} /\ phase' = "gone"
      BY <2>7 DEF Leave
    <3> QED
      BY <3>1 DEF Promise!PromiseLeave, PromisedStatus
  <2> QED
    BY <2>1, <2>3, <2>4, <2>5, <2>6, <2>7 DEF StreamNext, Relay, Upstream
<1> QED
  BY <1>1, <1>2, <1>3, <1>4, WhoStreams

(***************************************************************************)
(* What the caller of a stream is sent is what StreamPromise allows: an    *)
(* error only once, nothing but the terminator behind it, and in a chunk   *)
(* only what the provider said.  The loop of chat_completions, for any     *)
(* answers of any length, cut into any pieces.                             *)
(***************************************************************************)
THEOREM StreamKeepsItsPromise == GatewaySpec => ImplementsStreamPromise
<1>1. GatewayInit => Promise!PromiseInit
  BY DEF GatewayInit, StreamIdle, Promise!PromiseInit, PromisedStatus
<1>2. GatewayInv /\ StreamInv /\ [GatewayNext]_gatewayVars
          => [Promise!PromiseNext]_(Promise!promiseVars)
  BY PromiseStep
<1>3. GatewaySpec => Promise!PromiseInit /\ [][Promise!PromiseNext]_(Promise!promiseVars)
  BY <1>1, <1>2, GatewayInvariant, StreamInvariant, PTL DEF GatewaySpec
<1> QED
  BY <1>3 DEF ImplementsStreamPromise, Promise!PromiseSpec


-----------------------------------------------------------------------------
(* What the caller of a stream receives *)

Heard == [texts : Seq({c.text : c \in PromisedChunks}), reasons : Seq({c.reason : c \in PromisedChunks})]

LEMMA TakeIsHeard ==
    ASSUME NEW r \in Heard, NEW c \in PromisedChunks
    PROVE  Take(r, c) \in Heard
<1>1. /\ r.texts \in Seq({x.text : x \in PromisedChunks}) /\ c.text \in {x.text : x \in PromisedChunks}
      /\ r.reasons \in Seq({x.reason : x \in PromisedChunks}) /\ c.reason \in {x.reason : x \in PromisedChunks}
  BY DEF Heard
<1>2. /\ Add(r.texts, c.text, NoText) \in Seq({x.text : x \in PromisedChunks})
      /\ Add(r.reasons, c.reason, NoReason) \in Seq({x.reason : x \in PromisedChunks})
  BY <1>1, SequencesAre DEF Add
<1> QED
  BY <1>2 DEF Take, Heard

LEMMA HearIsHeard ==
    ASSUME NEW r \in Heard, NEW e \in SentEvents
    PROVE  Hear(r, e) \in Heard
<1>1. e.kind = "chunk" => e.chunk \in PromisedChunks
  BY DEF SentEvents, Error, Terminator
<1> QED
  BY <1>1, TakeIsHeard DEF Hear

LEMMA SilenceIsHeard == Silence \in Heard
  BY SequencesAre DEF Silence, Heard

HearFold(g, s) ==
    g = [x \in SUBSET DOMAIN s |-> IF x = {} THEN Silence ELSE Hear(g[x \ {Max(x)}], s[Max(x)])]

WalksEvents(v, s) ==
    /\ v \in [0..Len(s) -> Heard]
    /\ v[0] = Silence
    /\ \A k \in 0..Len(s)-1 : v[k + 1] = Hear(v[k], s[k + 1])
    /\ Received(s) = v[Len(s)]

LEMMA EventsWalk ==
    ASSUME NEW s \in Seq(SentEvents)
    PROVE  \E v : WalksEvents(v, s)
<1> DEFINE n == Len(s)
<1>0. n \in Nat /\ DOMAIN s = 1..n /\ \A i \in 1..n : s[i] \in SentEvents
  OBVIOUS
<1> HIDE DEF n
<1>1. PICK g \in [SUBSET (1..n) -> Heard] : HearFold(g, s)
  <2> DEFINE F == [x \in (1..n) \X Heard |-> Hear(x[2], s[x[1]])]
  <2>1. F \in [(1..n) \X Heard -> Heard]
    BY <1>0, HearIsHeard
  <2>2. PICK g \in [SUBSET (1..n) -> Heard] : FoldedBy(g, n, Silence, F)
    <3> HIDE DEF F
    <3> QED
      BY <1>0, <2>1, FoldExists, SilenceIsHeard
  <2>3. ASSUME NEW x \in SUBSET (1..n)
        PROVE  g[x] = IF x = {} THEN Silence ELSE Hear(g[x \ {Max(x)}], s[Max(x)])
    <3>1. CASE x = {}
      BY <2>2, <3>1 DEF FoldedBy
    <3>2. CASE x # {}
      <4>1. Max(x) \in 1..n
        BY <1>0, <3>2, LargestIsIn
      <4>2. g[x \ {Max(x)}] \in Heard
        OBVIOUS
      <4>3. F[<<Max(x), g[x \ {Max(x)}]>>] = Hear(g[x \ {Max(x)}], s[Max(x)])
        BY <4>1, <4>2
      <4> HIDE DEF F
      <4> QED
        BY <2>2, <3>2, <4>3 DEF FoldedBy
    <3> QED
      BY <3>1, <3>2
  <2> QED
    BY <1>0, <2>3 DEF HearFold
<1>2. PICK h : HearFold(h, s) /\ Received(s) = h[DOMAIN s]
  BY <1>1 DEF Received, FoldLeft, MapThenFoldSet, HearFold
<1>3. \A x \in SUBSET (1..n) : h[x] = IF x = {} THEN Silence ELSE Hear(h[x \ {Max(x)}], s[Max(x)])
  BY <1>0, <1>2 DEF HearFold
<1> DEFINE v == [k \in 0..n |-> h[1..k]]
<1>4. v[0] = Silence /\ v[n] = Received(s)
  <2>1. v[0] = h[1..0] /\ v[n] = h[1..n]
    BY <1>0
  <2>2. 1..0 = {} /\ {} \in SUBSET (1..n)
    OBVIOUS
  <2>3. h[{}] = Silence
    BY <1>3, <2>2
  <2> QED
    BY <1>0, <1>2, <2>1, <2>2, <2>3
<1>5. ASSUME NEW k \in 0..n-1
      PROVE  v[k + 1] = Hear(v[k], s[k + 1])
  <2>1. 1..k+1 \in SUBSET (1..n) /\ k \in Nat
    BY <1>0
  <2>2. h[1..k+1] = Hear(h[1..k], s[k + 1])
    BY <1>3, <2>1, LastOfRange
  <2> QED
    BY <1>0, <2>2
<1>6. v \in [0..n -> Heard]
  <2> DEFINE S == {k \in Nat : k <= n => v[k] \in Heard}
  <2> HIDE DEF v
  <2>1. 0 \in S
    BY <1>4, SilenceIsHeard
  <2>2. ASSUME NEW k \in Nat, k \in S PROVE k + 1 \in S
    <3>1. SUFFICES ASSUME k + 1 <= n PROVE v[k + 1] \in Heard
      OBVIOUS
    <3>2. k \in 0..n-1 /\ v[k] \in Heard /\ s[k + 1] \in SentEvents
      BY <1>0, <2>2, <3>1
    <3> QED
      BY <1>5, <3>2, HearIsHeard
  <2>3. Nat \subseteq S
    <3> HIDE DEF S
    <3> QED
      BY <2>1, <2>2, SetInduction
  <2>4. \A k \in 0..n : v[k] \in Heard
    BY <1>0, <2>3
  <2> QED
    BY <2>4 DEF v
<1> HIDE DEF v
<1> QED
  BY <1>4, <1>5, <1>6 DEF WalksEvents, n

\* Received, event by event.
LEMMA ReceivedGrows ==
    ASSUME NEW s \in Seq(SentEvents), NEW e \in SentEvents
    PROVE  Received(Append(s, e)) = Hear(Received(s), e) /\ Received(s) \in Heard
<1> DEFINE n == Len(s)
           t == Append(s, e)
<1>0. n \in Nat /\ t \in Seq(SentEvents) /\ Len(t) = n + 1 /\ t[n + 1] = e
      /\ \A i \in 1..n : t[i] = s[i]
  OBVIOUS
<1> HIDE DEF n, t
<1>1. PICK v : WalksEvents(v, s)
  BY EventsWalk
<1>2. PICK w : WalksEvents(w, t)
  BY <1>0, EventsWalk
<1>3. /\ v[0] = Silence /\ Received(s) = v[n] /\ v[n] \in Heard
      /\ \A k \in 0..n-1 : v[k + 1] = Hear(v[k], s[k + 1])
  BY <1>0, <1>1 DEF WalksEvents, n
<1>4. /\ w[0] = Silence /\ Received(t) = w[n + 1]
      /\ \A k \in 0..n : w[k + 1] = Hear(w[k], t[k + 1])
  BY <1>0, <1>2 DEF WalksEvents
<1> DEFINE S == {k \in Nat : k <= n => v[k] = w[k]}
<1>5. 0 \in S
  BY <1>3, <1>4
<1>6. ASSUME NEW k \in Nat, k \in S PROVE k + 1 \in S
  <2>1. SUFFICES ASSUME k + 1 <= n PROVE v[k + 1] = w[k + 1]
    OBVIOUS
  <2>2. k \in 0..n-1 /\ k \in 0..n /\ k + 1 \in 1..n /\ v[k] = w[k]
    BY <1>0, <1>6, <2>1
  <2> QED
    BY <1>0, <1>3, <1>4, <2>2
<1>7. Nat \subseteq S
  <2> HIDE DEF S
  <2> QED
    BY <1>5, <1>6, SetInduction
<1>8. v[n] = w[n] /\ w[n + 1] = Hear(w[n], e)
  BY <1>0, <1>4, <1>7
<1> QED
  BY <1>3, <1>4, <1>8 DEF t

LEMMA NothingReceived == Received(<<>>) = Silence
<1>1. <<>> \in Seq(SentEvents) /\ Len(<<>>) = 0
  BY SequencesAre
<1>2. PICK v : WalksEvents(v, <<>>)
  BY <1>1, EventsWalk
<1> QED
  BY <1>1, <1>2 DEF WalksEvents


Extended(said, q) == CASE q = <<>>     -> said
                       [] Len(q) = 1   -> Take(said, q[1])
                       [] OTHER        -> Take(Take(said, q[1]), q[2])

\* The texts in the first k events of an answer.
Shown(y, a, k) ==
    LET m == IF y = "anthropic" /\ k > 0 THEN k - 1 ELSE k
    IN  IF m <= Len(a.texts) THEN m ELSE Len(a.texts)

Beginning(seq, k) == [i \in 1..k |-> seq[i]]

\* The event with which a parser yields the reason, if one does.
ReasonAt(y, a) == CASE y = "google"    -> IF a.texts = <<>> THEN 1 ELSE Len(a.texts)
                    [] y = "anthropic" -> Len(a.texts) + 2
                    [] OTHER           -> Len(a.texts) + 1

Reasoned(y, a) == y # "kiro" /\ (y = "responses" => a.reason = "completed")

\* The reasons a parser yields for the first k events of an answer.
GivenBy(y, a, k) ==
    LET w == Complete(y, a).reason
    IN  IF ~ (Reasoned(y, a) /\ k >= ReasonAt(y, a)) THEN <<>>
        ELSE IF y = "google" /\ a.texts # <<>> THEN <<w, w>> ELSE <<w>>

\* What the caller has received, with the chunks that wait, is what the events
\* say that were taken out of the buffer.
MatchInv ==
    phase # "none" =>
        LET r == Received(sent)
            x == Extended(r, queue)
        IN  /\ Len(queue) <= 2 /\ 2 * parsed <= got /\ (~ Delimited => parsed = 0)
            /\ r.texts = Beginning(answer.texts, Len(r.texts)) /\ Len(r.texts) <= Len(answer.texts)
            /\ phase \in {"reading", "tail"} =>
                   x.texts = Beginning(answer.texts, Shown(type, answer, parsed))
            /\ phase = "reading" => x.reasons = GivenBy(type, answer, parsed)
            /\ phase = "tail" /\ Entire =>
                   IF Delimited THEN parsed = Len(Events(type, answer)) /\ x.reasons = Told
                   ELSE x.reasons = <<>>
            /\ phase = "closing" => Error \in ToSet(sent)
            /\ phase = "closed" /\ Error \notin ToSet(sent) /\ Entire =>
                   IF Delimited THEN r.texts = answer.texts /\ r.reasons = Told
                   ELSE r.texts = <<>> /\ r.reasons = <<>>



LEMMA AppendFacts ==
    ASSUME NEW T, NEW s \in Seq(T), NEW x \in T
    PROVE  /\ Append(s, x) \in Seq(T) /\ Append(s, x) # <<>> /\ Len(Append(s, x)) = Len(s) + 1
           /\ Append(s, x)[1] = IF s = <<>> THEN x ELSE s[1]
           /\ Append(s, x)[Len(s) + 1] = x
           /\ \A i \in 1..Len(s) : Append(s, x)[i] = s[i]
  OBVIOUS

LEMMA ExtendedIs ==
    ASSUME NEW r, NEW c
    PROVE  Extended(r, <<>>) = r /\ Extended(r, <<c>>) = Take(r, c)
  BY DEF Extended

LEMMA SmallLength ==
    ASSUME NEW T, NEW q \in Seq(T)
    PROVE  /\ Len(q) = 0 => q = <<>>
           /\ Len(q) <= 2 => q = <<>> \/ Len(q) \in {1, 2}
<1>1. Len(q) = 0 => q = <<>>
  BY EmptySeq, Zenon
<1> DEFINE n == Len(q)
<1>2. n \in Nat
  BY LenProperties
<1> HIDE DEF n
<1>3. n <= 2 => n = 0 \/ n \in {1, 2}
  BY <1>2
<1> QED
  BY <1>1, <1>3 DEF n

LEMMA ExtendedPops ==
    ASSUME NEW r, NEW q \in Seq(PromisedChunks), q # <<>>, Len(q) <= 2
    PROVE  Extended(Take(r, Head(q)), Tail(q)) = Extended(r, q)
<1>1. Len(q) \in {1, 2}
  BY SmallLength
<1>2. /\ Tail(q) \in Seq(PromisedChunks) /\ Len(Tail(q)) = Len(q) - 1 /\ Head(q) = q[1]
      /\ \A i \in 1..Len(Tail(q)) : Tail(q)[i] = q[i + 1]
  BY HeadTailProperties
<1>3. CASE Len(q) = 1
  <2>1. Len(Tail(q)) = 0
    BY <1>2, <1>3
  <2>2. Tail(q) = <<>>
    BY <1>2, <2>1, SmallLength
  <2> QED
    BY <1>2, <1>3, <2>2 DEF Extended
<1>4. CASE Len(q) = 2
  <2>1. Len(Tail(q)) = 1 /\ Tail(q)[1] = q[2]
    BY <1>2, <1>4
  <2>2. Tail(q) # <<>>
    <3>1. Len(<<>>) # 1
      OBVIOUS
    <3> QED
      BY <2>1, <3>1, Zenon
  <2> QED
    BY <1>2, <1>4, <2>1, <2>2 DEF Extended
<1> QED
  BY <1>1, <1>3, <1>4

Begins(s, t) == Len(s) <= Len(t) /\ \A i \in 1..Len(s) : s[i] = t[i]

LEMMA TakeKeeps ==
    ASSUME NEW r \in Heard, NEW c \in PromisedChunks
    PROVE  Begins(r.texts, Take(r, c).texts)
<1>1. r.texts \in Seq({x.text : x \in PromisedChunks}) /\ c.text \in {x.text : x \in PromisedChunks}
  BY DEF Heard
<1>2. Begins(r.texts, Add(r.texts, c.text, NoText))
  BY <1>1, AppendFacts DEF Begins, Add
<1> QED
  BY <1>2 DEF Take

LEMMA ExtendedKeeps ==
    ASSUME NEW r \in Heard, NEW q \in Seq(PromisedChunks), Len(q) <= 2
    PROVE  Extended(r, q) \in Heard /\ Begins(r.texts, Extended(r, q).texts)
<1>1. CASE q = <<>>
  <2>1. Extended(r, q) = r /\ Len(r.texts) \in Nat
    BY <1>1 DEF Extended, Heard
  <2> QED
    BY <2>1 DEF Begins
<1>2. CASE Len(q) = 1
  <2>1. q[1] \in PromisedChunks /\ Extended(r, q) = Take(r, q[1])
    BY <1>2 DEF Extended
  <2> QED
    BY <2>1, TakeIsHeard, TakeKeeps
<1>3. CASE Len(q) = 2
  <2>1. q[1] \in PromisedChunks /\ q[2] \in PromisedChunks
    BY <1>3
  <2>2. Extended(r, q) = Take(Take(r, q[1]), q[2])
    BY <1>3 DEF Extended
  <2>3. Take(r, q[1]) \in Heard /\ Take(Take(r, q[1]), q[2]) \in Heard
    BY <2>1, TakeIsHeard
  <2>4. Begins(r.texts, Take(r, q[1]).texts) /\ Begins(Take(r, q[1]).texts, Take(Take(r, q[1]), q[2]).texts)
    BY <2>1, <2>3, TakeKeeps
  <2>5. Len(r.texts) \in Nat /\ Len(Take(r, q[1]).texts) \in Nat /\ Len(Take(Take(r, q[1]), q[2]).texts) \in Nat
    BY <2>3 DEF Heard
  <2>6. Begins(r.texts, Take(Take(r, q[1]), q[2]).texts)
    <3> DEFINE s == r.texts
               t == Take(r, q[1]).texts
               u == Take(Take(r, q[1]), q[2]).texts
    <3>1. Begins(s, t) /\ Begins(t, u) /\ Len(s) \in Nat /\ Len(t) \in Nat /\ Len(u) \in Nat
      BY <2>4, <2>5
    <3> HIDE DEF s, t, u
    <3>2. Begins(s, u)
      BY <3>1 DEF Begins
    <3> QED
      BY <3>2 DEF s, u
  <2> QED
    BY <2>2, <2>3, <2>6
<1> QED
  BY <1>1, <1>2, <1>3, SmallLength

\* A beginning of a beginning.
LEMMA BeginsShorter ==
    ASSUME NEW T, NEW s \in Seq(T), NEW U, NEW u \in Seq(U), NEW k \in 0..Len(u), Begins(s, Beginning(u, k))
    PROVE  s = Beginning(u, Len(s)) /\ Len(s) <= k
<1>1. Len(Beginning(u, k)) = k /\ \A i \in 1..k : Beginning(u, k)[i] = u[i]
  BY DEF Beginning
<1>2. Len(s) \in Nat /\ Len(s) <= k /\ \A i \in 1..Len(s) : s[i] = u[i]
  BY <1>1 DEF Begins
<1>3. s = [i \in 1..Len(s) |-> s[i]]
  OBVIOUS
<1> QED
  BY <1>2, <1>3 DEF Beginning

LEMMA BeginningGrows ==
    ASSUME NEW U, NEW u \in Seq(U), NEW k \in Nat, k < Len(u)
    PROVE  Append(Beginning(u, k), u[k + 1]) = Beginning(u, k + 1)
<1>1. Beginning(u, k) \in Seq(U) /\ Len(Beginning(u, k)) = k /\ u[k + 1] \in U
  <2>1. Beginning(u, k) \in [1..k -> U]
    BY DEF Beginning
  <2> QED
    BY <2>1, SequencesAre
<1> DEFINE s == Append(Beginning(u, k), u[k + 1])
<1>2. /\ s \in Seq(U) /\ Len(s) = k + 1 /\ s[k + 1] = u[k + 1]
      /\ \A i \in 1..k : s[i] = Beginning(u, k)[i]
  BY <1>1, AppendFacts
<1>3. \A i \in 1..k : Beginning(u, k)[i] = u[i]
  BY DEF Beginning
<1> HIDE DEF s
<1>4. s = [i \in 1..k+1 |-> s[i]]
  BY <1>2
<1>5. \A i \in 1..k+1 : s[i] = u[i]
  BY <1>2, <1>3
<1> QED
  BY <1>4, <1>5 DEF Beginning, s

\* What an event of an answer says, and what the events before it have said.
LEMMA EventAt ==
    ASSUME NEW y \in DOMAIN Answers, NEW a \in Answers[y], NEW k \in 1..Len(Events(y, a))
    PROVE  LET e == Events(y, a)[k]
               n == Shown(y, a, k - 1)
           IN  /\ e \in EventsOf(a) /\ (e.text = NoText \/ e.reason = NoReason \/ y = "google")
               /\ e.text = NoText => Shown(y, a, k) = n
               /\ e.text # NoText =>
                      n \in Nat /\ n < Len(a.texts) /\ e.text = a.texts[n + 1] /\ Shown(y, a, k) = n + 1
               /\ e.reason # NoReason => k = ReasonAt(y, a)
               /\ y # "kiro" /\ k = ReasonAt(y, a) =>
                      e.reason = a.reason /\ (e.text # NoText <=> y = "google" /\ a.texts # <<>>)
<1> DEFINE n == Len(a.texts)
           texts == [i \in 1..n |-> Event(a.texts[i], NoReason)]
           e == Events(y, a)[k]
<1>1. a.texts \in Seq(ToSet(a.texts) \ {NoText}) /\ n \in Nat /\ a.reason # NoReason
  BY GatewayAssumption
<1>2. \A i \in 1..n : a.texts[i] # NoText
  BY <1>1
<1>3. /\ Noise.text = NoText /\ Noise.reason = NoReason
      /\ Event(NoText, a.reason).text = NoText /\ Event(NoText, a.reason).reason = a.reason
      /\ \A i \in 1..n : texts[i].text = a.texts[i] /\ texts[i].reason = NoReason
  BY DEF Event, Noise
<1>4. texts \in Seq(EventsOf(a)) /\ Len(texts) = n
  <2>1. texts \in [1..n -> EventsOf(a)]
    BY <1>1 DEF Event, EventsOf, ToSet
  <2> HIDE DEF texts, n
  <2> QED
    BY <1>1, <2>1, SequencesAre
<1>5. Noise \in EventsOf(a) /\ Event(NoText, a.reason) \in EventsOf(a)
  BY DEF Noise, Event, EventsOf
<1>6. e \in EventsOf(a)
  BY EventsAre
<1>7. CASE y = "google" /\ n = 0
  <2>1. Events(y, a) = <<Event(NoText, a.reason)>>
    BY <1>7 DEF Events
  <2>2. k = 1 /\ e = Event(NoText, a.reason)
    BY <2>1
  <2> QED
    BY <1>1, <1>3, <1>6, <1>7, <2>2 DEF Shown, ReasonAt
<1>8. CASE y = "google" /\ n # 0
  <2>1. Events(y, a) = [i \in 1..n |-> Event(a.texts[i], IF i = n THEN a.reason ELSE NoReason)]
    BY <1>8 DEF Events
  <2>2. k \in 1..n /\ e.text = a.texts[k] /\ e.reason = (IF k = n THEN a.reason ELSE NoReason)
    BY <1>1, <2>1 DEF Event
  <2>3. a.texts # <<>>
    BY <1>1, <1>8
  <2> QED
    BY <1>1, <1>2, <1>6, <1>8, <2>2, <2>3 DEF Shown, ReasonAt
<1>9. CASE y = "kiro"
  <2>1. Events(y, a) = Append(texts, Noise)
    BY <1>9 DEF Events
  <2> HIDE DEF texts, n
  <2>2. /\ k \in 1..n+1
        /\ k = n + 1 => e = Noise
        /\ k # n + 1 => k \in 1..n /\ e = texts[k]
    BY <1>1, <1>4, <1>5, <2>1, AppendFacts
  <2>3. Shown(y, a, k) = (IF k <= n THEN k ELSE n) /\ Shown(y, a, k - 1) = (IF k - 1 <= n THEN k - 1 ELSE n)
    BY <1>9 DEF Shown, n
  <2>4. n < Len(a.texts) \/ n = Len(a.texts)
    BY DEF n
  <2> QED
    BY <1>1, <1>2, <1>3, <1>6, <1>9, <2>2, <2>3, <2>4
<1>10. CASE y = "anthropic"
  <2>1. Events(y, a) = <<Noise>> \o Append(texts, Event(NoText, a.reason))
    BY <1>10 DEF Events
  <2> DEFINE s == Append(texts, Event(NoText, a.reason))
  <2> HIDE DEF texts, n
  <2>2. /\ s \in Seq(EventsOf(a)) /\ Len(s) = n + 1 /\ s[n + 1] = Event(NoText, a.reason)
        /\ \A i \in 1..n : s[i] = texts[i]
    BY <1>1, <1>4, <1>5, AppendFacts
  <2> HIDE DEF s
  <2>3. /\ Len(<<Noise>> \o s) = n + 2 /\ (<<Noise>> \o s)[1] = Noise
        /\ \A i \in 1..n+1 : (<<Noise>> \o s)[i + 1] = s[i]
    BY <1>1, <1>5, <2>2
  <2>4. /\ k \in 1..n+2
        /\ k = 1 => e = Noise
        /\ k = n + 2 => e = Event(NoText, a.reason)
        /\ k # 1 /\ k # n + 2 => k - 1 \in 1..n /\ e = texts[k - 1]
    <3>1. Events(y, a) = <<Noise>> \o s
      BY <2>1 DEF s
    <3>2. k # 1 => k - 1 \in 1..n+1 /\ (k - 1) + 1 = k
      BY <1>1, <2>3, <3>1
    <3> QED
      BY <1>1, <2>2, <2>3, <3>1, <3>2
  <2>5. /\ Shown(y, a, k) = (IF k - 1 <= n THEN k - 1 ELSE n)
        /\ Shown(y, a, k - 1) = (IF k = 1 THEN 0 ELSE IF k - 2 <= n THEN k - 2 ELSE n)
    BY <1>1, <1>10, <2>4 DEF Shown, n
  <2>6. ReasonAt(y, a) = n + 2 /\ n = Len(a.texts)
    BY <1>10 DEF ReasonAt, n
  <2> QED
    BY <1>1, <1>2, <1>3, <1>6, <1>10, <2>4, <2>5, <2>6
<1>11. CASE y \notin {"google", "kiro", "anthropic"}
  <2>1. Events(y, a) = texts \o <<Event(NoText, a.reason), Noise>>
    BY <1>11 DEF Events
  <2> HIDE DEF texts, n
  <2> DEFINE f == Event(NoText, a.reason)
  <2>2. f \in EventsOf(a)
    BY <1>5
  <2> HIDE DEF f
  <2>3. /\ Len(texts \o <<f, Noise>>) = n + 2
        /\ \A i \in 1..n : (texts \o <<f, Noise>>)[i] = texts[i]
        /\ (texts \o <<f, Noise>>)[n + 1] = f /\ (texts \o <<f, Noise>>)[n + 2] = Noise
    BY <1>1, <1>4, <1>5, <2>2
  <2>4. /\ k \in 1..n+2
        /\ k = n + 1 => e = Event(NoText, a.reason)
        /\ k = n + 2 => e = Noise
        /\ k # n + 1 /\ k # n + 2 => k \in 1..n /\ e = texts[k]
    BY <1>1, <2>1, <2>3 DEF f
  <2>5. Shown(y, a, k) = (IF k <= n THEN k ELSE n) /\ Shown(y, a, k - 1) = (IF k - 1 <= n THEN k - 1 ELSE n)
    BY <1>11 DEF Shown, n
  <2>6. ReasonAt(y, a) = n + 1 /\ n = Len(a.texts)
    BY <1>11 DEF ReasonAt, n
  <2> QED
    BY <1>1, <1>2, <1>3, <1>6, <1>11, <2>4, <2>5, <2>6
<1> QED
  BY <1>7, <1>8, <1>9, <1>10, <1>11

\* What a queue of chunks adds to what was received.
Adds(q, r, texts, reasons) ==
    Len(q) <= 2 /\ Extended(r, q).texts = texts /\ Extended(r, q).reasons = reasons

LEMMA NothingAdds ==
    ASSUME NEW r
    PROVE  Adds(<<>>, r, r.texts, r.reasons)
<1>1. Len(<<>>) <= 2
  OBVIOUS
<1> QED
  BY <1>1, ExtendedIs DEF Adds

LEMMA OneAdds ==
    ASSUME NEW r, NEW t, NEW s
    PROVE  Adds(<<Chunk(t, s)>>, r, Add(r.texts, t, NoText), Add(r.reasons, s, NoReason))
<1> DEFINE c == Chunk(t, s)
<1>1. Take(r, c).texts = Add(r.texts, t, NoText) /\ Take(r, c).reasons = Add(r.reasons, s, NoReason)
  BY DEF Take, Chunk
<1> HIDE DEF c
<1>2. Len(<<c>>) <= 2
  OBVIOUS
<1>3. Extended(r, <<c>>) = Take(r, c)
  BY ExtendedIs
<1>4. Adds(<<c>>, r, Add(r.texts, t, NoText), Add(r.reasons, s, NoReason))
  BY <1>1, <1>2, <1>3 DEF Adds
<1> QED
  BY <1>4 DEF c

LEMMA TwoAdd ==
    ASSUME NEW r, NEW t, NEW s, s # NoReason
    PROVE  Adds(<<Chunk(t, s)>> \o <<Chunk(NoText, s)>>, r,
                Add(r.texts, t, NoText), Append(Append(r.reasons, s), s))
<1> DEFINE c == Chunk(t, s)
           d == Chunk(NoText, s)
<1>1. Take(Take(r, c), d).texts = Add(r.texts, t, NoText)
      /\ Take(Take(r, c), d).reasons = Append(Append(r.reasons, s), s)
  BY DEF Take, Chunk, Add
<1> HIDE DEF c, d
<1> DEFINE q == <<c>> \o <<d>>
<1>2. Len(q) = 2 /\ q[1] = c /\ q[2] = d
  <2>1. <<c>> \in Seq({c, d}) /\ <<d>> \in Seq({c, d}) /\ Len(<<c>>) = 1 /\ Len(<<d>>) = 1
        /\ <<c>>[1] = c /\ <<d>>[1] = d
    OBVIOUS
  <2> QED
    BY <2>1, ConcatProperties
<1> HIDE DEF q
<1>3. Extended(r, q) = Take(Take(r, c), d)
  <2>1. Len(<<>>) # 2
    OBVIOUS
  <2>2. q # <<>>
    BY <1>2, <2>1, Zenon
  <2> QED
    BY <1>2, <2>2 DEF Extended
<1>4. Adds(q, r, Add(r.texts, t, NoText), Append(Append(r.reasons, s), s))
  BY <1>1, <1>2, <1>3 DEF Adds
<1> QED
  BY <1>4 DEF c, d, q

\* What a parser makes of an event, in the ears of the caller.
LEMMA ParseAdds ==
    ASSUME NEW y \in DOMAIN Answers, NEW a \in Answers[y], NEW e \in EventsOf(a), NEW r,
           e.text = NoText \/ e.reason = NoReason \/ y = "google"
    PROVE  LET w     == Complete(y, a).reason
               texts == Add(r.texts, e.text, NoText)
           IN  IF e.reason = NoReason \/ ~ Reasoned(y, a) THEN Adds(Parse(y, e), r, texts, r.reasons)
               ELSE IF e.text = NoText THEN Adds(Parse(y, e), r, texts, Append(r.reasons, w))
               ELSE Adds(Parse(y, e), r, texts, Append(Append(r.reasons, w), w))
<1> DEFINE w == Complete(y, a).reason
<1>1. e.reason \in {NoReason, a.reason} /\ a.reason # NoReason
  BY GatewayAssumption DEF EventsOf
<1>2. /\ Add(r.texts, NoText, NoText) = r.texts
      /\ \A s : Add(r.reasons, s, NoReason) = IF s = NoReason THEN r.reasons ELSE Append(r.reasons, s)
  BY DEF Add
<1>3. Adds(<<>>, r, r.texts, r.reasons)
  BY NothingAdds
<1>4. \A t, s : Adds(<<Chunk(t, s)>>, r, Add(r.texts, t, NoText), Add(r.reasons, s, NoReason))
  BY OneAdds
<1>6. CASE y = "google"
  <2> DEFINE g == GoogleReason(e.reason)
             c == Chunk(e.text, g)
             d == Chunk(NoText, g)
  <2>1. e.reason # NoReason => g = w /\ g # NoReason
    BY <1>1, <1>6, GatewayAssumption DEF Complete, GoogleComplete, Whole, GoogleReason
  <2>2. Reasoned(y, a)
    BY <1>6 DEF Reasoned
  <2>3. CASE e.reason = NoReason
    <3>1. Parse(y, e) = (IF e.text # NoText THEN <<Chunk(e.text, NoReason)>> ELSE <<>>) \o <<>>
      BY <1>6, <2>3 DEF Parse, GoogleChunks
    <3>2. CASE e.text # NoText
      <4>1. <<Chunk(e.text, NoReason)>> \o <<>> = <<Chunk(e.text, NoReason)>>
        OBVIOUS
      <4>2. Adds(<<Chunk(e.text, NoReason)>>, r, Add(r.texts, e.text, NoText), r.reasons)
        BY <1>2, OneAdds
      <4> QED
        BY <2>3, <3>1, <3>2, <4>1, <4>2
    <3>3. CASE e.text = NoText
      <4>1. <<>> \o <<>> = <<>>
        OBVIOUS
      <4> QED
        BY <1>2, <1>3, <2>3, <3>1, <3>3, <4>1
    <3> QED
      BY <3>2, <3>3
  <2>4. CASE e.reason # NoReason
    <3>1. Parse(y, e) = (IF e.text # NoText THEN <<c>> ELSE <<>>) \o <<d>>
      BY <1>6, <2>1, <2>4 DEF Parse, GoogleChunks
    <3>2. CASE e.text # NoText
      <4>1. Adds(<<c>> \o <<d>>, r, Add(r.texts, e.text, NoText), Append(Append(r.reasons, g), g))
        BY <2>1, <2>4, TwoAdd
      <4> HIDE DEF c, d, g, w
      <4>2. Adds(Parse(y, e), r, Add(r.texts, e.text, NoText), Append(Append(r.reasons, w), w))
        BY <2>1, <2>4, <3>1, <3>2, <4>1
      <4> QED
        BY <2>2, <2>4, <3>2, <4>2 DEF w
    <3>3. CASE e.text = NoText
      <4>1. Adds(<<d>>, r, Add(r.texts, NoText, NoText), Add(r.reasons, g, NoReason))
        BY OneAdds
      <4> HIDE DEF c, d, g, w
      <4>2. <<>> \o <<d>> = <<d>>
        OBVIOUS
      <4>3. Adds(Parse(y, e), r, Add(r.texts, e.text, NoText), Append(r.reasons, w))
        BY <1>2, <2>1, <2>4, <3>1, <3>3, <4>1, <4>2
      <4> QED
        BY <2>2, <2>4, <3>3, <4>3 DEF w
    <3> QED
      BY <3>2, <3>3
  <2> QED
    BY <2>3, <2>4
<1>7. CASE y = "kiro"
  <2>1. ~ Reasoned(y, a) /\ Parse(y, e) = IF e.text # NoText THEN <<Chunk(e.text, NoReason)>> ELSE <<>>
    BY <1>7 DEF Reasoned, Parse, KiroChunks
  <2>2. Adds(<<Chunk(e.text, NoReason)>>, r, Add(r.texts, e.text, NoText), r.reasons)
    BY <1>2, OneAdds
  <2> QED
    BY <1>2, <1>3, <2>1, <2>2
<1>8. CASE y = "responses"
  <2>1. Parse(y, e) = ResponsesChunks(e) /\ w = "stop" /\ "stop" # NoReason /\ "completed" # NoReason
    BY <1>8, GatewayAssumption DEF Parse, Complete, ResponsesComplete, Whole
  <2>2. CASE e.text # NoText
    <3>1. e.reason = NoReason /\ Parse(y, e) = <<Chunk(e.text, NoReason)>>
      BY <1>8, <2>1, <2>2 DEF ResponsesChunks
    <3>2. Adds(<<Chunk(e.text, NoReason)>>, r, Add(r.texts, e.text, NoText), r.reasons)
      BY <1>2, OneAdds
    <3> QED
      BY <3>1, <3>2
  <2>3. CASE e.text = NoText /\ e.reason = "completed"
    <3>1. Reasoned(y, a) /\ e.reason # NoReason /\ Parse(y, e) = <<Chunk(NoText, "stop")>>
      BY <1>1, <1>8, <2>1, <2>3 DEF ResponsesChunks, Reasoned
    <3>2. Adds(<<Chunk(NoText, "stop")>>, r, Add(r.texts, NoText, NoText), Append(r.reasons, "stop"))
      BY <1>2, <2>1, OneAdds
    <3>3. Adds(Parse(y, e), r, Add(r.texts, e.text, NoText), Append(r.reasons, w))
      BY <2>1, <2>3, <3>1, <3>2
    <3> QED
      BY <2>3, <3>1, <3>3
  <2>4. CASE e.text = NoText /\ e.reason # "completed"
    <3>1. Parse(y, e) = <<>> /\ (e.reason = NoReason \/ ~ Reasoned(y, a))
      BY <1>1, <1>8, <2>1, <2>4 DEF ResponsesChunks, Reasoned
    <3> QED
      BY <1>2, <1>3, <2>4, <3>1
  <2> QED
    BY <2>2, <2>3, <2>4
<1>9. CASE y \notin {"google", "kiro", "responses"}
  <2>1. /\ Reasoned(y, a)
        /\ e.reason # NoReason => w = e.reason
    BY <1>1, <1>9 DEF Reasoned, Complete, AnthropicComplete, OpenAIComplete, GenericComplete, Whole
  <2>2. Noise.text = NoText /\ Noise.reason = NoReason
        /\ (e.text = NoText /\ e.reason = NoReason => e = Noise)
    BY DEF Noise, Event, EventsOf
  <2>3. Parse(y, e) = IF e.text = NoText /\ e.reason = NoReason THEN <<>> ELSE <<Chunk(e.text, e.reason)>>
    BY <1>9, <2>2 DEF Parse, AnthropicChunks, OpenAIChunks, GenericChunks
  <2>4. Adds(<<Chunk(e.text, e.reason)>>, r, Add(r.texts, e.text, NoText), Add(r.reasons, e.reason, NoReason))
    BY OneAdds
  <2> HIDE DEF w
  <2>5. CASE e.text = NoText /\ e.reason = NoReason
    BY <1>2, <1>3, <2>3, <2>5
  <2>6. CASE e.reason # NoReason
    <3>1. Adds(Parse(y, e), r, Add(r.texts, e.text, NoText), Append(r.reasons, w))
      BY <1>2, <2>1, <2>3, <2>4, <2>6
    <3> QED
      BY <1>9, <2>1, <2>6, <3>1 DEF w
  <2>7. CASE e.text # NoText /\ e.reason = NoReason
    BY <1>2, <2>3, <2>4, <2>7
  <2> QED
    BY <2>5, <2>6, <2>7
<1> QED
  BY <1>6, <1>7, <1>8, <1>9

LEMMA EventsLast ==
    ASSUME NEW y \in DOMAIN Answers, NEW a \in Answers[y]
    PROVE  /\ Len(Events(y, a)) \in Nat /\ Shown(y, a, Len(Events(y, a))) = Len(a.texts)
           /\ y # "kiro" => ReasonAt(y, a) \in 1..Len(Events(y, a))
           /\ a.texts # <<>> => \E k \in 1..Len(Events(y, a)) : Events(y, a)[k].text # NoText
<1> DEFINE n == Len(a.texts)
           texts == [i \in 1..n |-> Event(a.texts[i], NoReason)]
           f == Event(NoText, a.reason)
<1>1. a.texts \in Seq(ToSet(a.texts) \ {NoText}) /\ n \in Nat
  BY GatewayAssumption
<1>2. texts \in Seq(EventsOf(a)) /\ Len(texts) = n
  <2>1. texts \in [1..n -> EventsOf(a)]
    BY <1>1 DEF Event, EventsOf, ToSet
  <2> HIDE DEF texts, n
  <2> QED
    BY <1>1, <2>1, SequencesAre
<1>3. Noise \in EventsOf(a) /\ f \in EventsOf(a)
  BY DEF Noise, Event, EventsOf
<1>8. a.texts # <<>> => 1 \in 1..n /\ texts[1].text # NoText
  <2>1. a.texts # <<>> => n \in Nat \ {0}
    BY <1>1, EmptySeq
  <2> QED
    BY <1>1, <2>1 DEF Event
<1>4. CASE y = "google"
  <2>1. Len(Events(y, a)) = IF n = 0 THEN 1 ELSE n
    BY <1>1, <1>4 DEF Events
  <2>2. n # 0 <=> a.texts # <<>>
    BY <1>1, EmptySeq
  <2>3. n # 0 => 1 \in 1..n /\ Events(y, a)[1].text # NoText
    BY <1>1, <1>4 DEF Events, Event
  <2> QED
    BY <1>1, <1>4, <2>1, <2>2, <2>3 DEF Shown, ReasonAt
<1>5. CASE y = "kiro"
  <2>1. Events(y, a) = Append(texts, Noise)
    BY <1>5 DEF Events
  <2> HIDE DEF texts
  <2>2. Len(Events(y, a)) = n + 1 /\ \A i \in 1..n : Events(y, a)[i] = texts[i]
    BY <1>2, <1>3, <2>1, AppendFacts
  <2> QED
    BY <1>1, <1>5, <1>8, <2>2 DEF Shown
<1>6. CASE y = "anthropic"
  <2>1. Events(y, a) = <<Noise>> \o Append(texts, f)
    BY <1>6 DEF Events
  <2> HIDE DEF texts, f
  <2>2. /\ Append(texts, f) \in Seq(EventsOf(a)) /\ Len(Append(texts, f)) = n + 1
        /\ \A i \in 1..n : Append(texts, f)[i] = texts[i]
    BY <1>2, <1>3, AppendFacts
  <2>3. Len(Events(y, a)) = n + 2 /\ \A i \in 1..n : Events(y, a)[i + 1] = texts[i]
    BY <1>1, <1>3, <2>1, <2>2
  <2>4. a.texts # <<>> => 1 + 1 \in 1..Len(Events(y, a)) /\ Events(y, a)[1 + 1].text # NoText
    BY <1>1, <1>8, <2>3
  <2> QED
    BY <1>1, <1>6, <2>3, <2>4 DEF Shown, ReasonAt
<1>7. CASE y \notin {"google", "kiro", "anthropic"}
  <2>1. Events(y, a) = texts \o <<f, Noise>>
    BY <1>7 DEF Events
  <2> HIDE DEF texts, f
  <2>3. Len(Events(y, a)) = n + 2 /\ \A i \in 1..n : Events(y, a)[i] = texts[i]
    BY <1>1, <1>2, <1>3, <2>1
  <2>4. Shown(y, a, n + 2) = n /\ ReasonAt(y, a) = n + 1
    BY <1>1, <1>7 DEF Shown, ReasonAt
  <2> HIDE DEF n
  <2> QED
    BY <1>1, <1>7, <1>8, <2>3, <2>4 DEF n
<1> QED
  BY <1>4, <1>5, <1>6, <1>7

LEMMA Appended ==
    ASSUME NEW v, NEW w
    PROVE  /\ Append(<<>>, v) = <<v>> /\ Append(<<v>>, w) = <<v, w>>
           /\ Append(<<v, v>>, w) = <<v, v, w>>
<1> DEFINE S == {v, w}
<1>1. \A s \in Seq(S), x \in S :
          /\ Append(s, x) \in Seq(S) /\ Len(Append(s, x)) = Len(s) + 1 /\ Append(s, x)[Len(s) + 1] = x
          /\ \A i \in 1..Len(s) : Append(s, x)[i] = s[i]
  BY AppendFacts
<1>2. /\ <<>> \in Seq(S) /\ <<v>> \in Seq(S) /\ <<v, v>> \in Seq(S) /\ <<v, w>> \in Seq(S)
      /\ <<v, v, w>> \in Seq(S) /\ v \in S /\ w \in S
  OBVIOUS
<1>3. /\ Len(<<>>) = 0 /\ Len(<<v>>) = 1 /\ Len(<<v, v>>) = 2 /\ Len(<<v, w>>) = 2 /\ Len(<<v, v, w>>) = 3
      /\ <<v>>[1] = v /\ <<v, w>>[1] = v /\ <<v, w>>[2] = w
      /\ <<v, v>>[1] = v /\ <<v, v>>[2] = v
      /\ <<v, v, w>>[1] = v /\ <<v, v, w>>[2] = v /\ <<v, v, w>>[3] = w
  OBVIOUS
<1>4. \A s \in Seq(S), t \in Seq(S) : Len(s) = Len(t) /\ (\A i \in 1..Len(s) : s[i] = t[i]) => s = t
  BY SeqEqual
<1> HIDE DEF S
<1>5. Append(<<>>, v) = <<v>>
  <2>1. Append(<<>>, v) \in Seq(S) /\ Len(Append(<<>>, v)) = 1 /\ Append(<<>>, v)[1] = v
    BY <1>1, <1>2, <1>3
  <2> QED
    BY <1>2, <1>3, <1>4, <2>1
<1>6. Append(<<v>>, w) = <<v, w>>
  <2>1. Append(<<v>>, w) \in Seq(S) /\ Len(Append(<<v>>, w)) = 2
        /\ Append(<<v>>, w)[1] = v /\ Append(<<v>>, w)[2] = w
    BY <1>1, <1>2, <1>3
  <2> DEFINE A == Append(<<v>>, w)
             B == <<v, w>>
  <2>2. A \in Seq(S) /\ B \in Seq(S) /\ Len(A) = 2 /\ Len(B) = 2 /\ A[1] = B[1] /\ A[2] = B[2]
    BY <1>2, <1>3, <2>1
  <2> HIDE DEF A, B
  <2>3. A = B
    <3>1. \A i \in 1..Len(A) : A[i] = B[i]
      BY <2>2
    <3> QED
      BY <1>4, <2>2, <3>1
  <2> QED
    BY <2>3 DEF A, B
<1>7. Append(<<v, v>>, w) = <<v, v, w>>
  <2>1. Append(<<v, v>>, w) \in Seq(S) /\ Len(Append(<<v, v>>, w)) = 3
        /\ Append(<<v, v>>, w)[1] = v /\ Append(<<v, v>>, w)[2] = v /\ Append(<<v, v>>, w)[3] = w
    BY <1>1, <1>2, <1>3
  <2> DEFINE A == Append(<<v, v>>, w)
             B == <<v, v, w>>
  <2>2. A \in Seq(S) /\ B \in Seq(S) /\ Len(A) = 3 /\ Len(B) = 3 /\ A[1] = B[1] /\ A[2] = B[2] /\ A[3] = B[3]
    BY <1>2, <1>3, <2>1
  <2> HIDE DEF A, B
  <2>3. A = B
    <3>1. \A i \in 1..Len(A) : A[i] = B[i]
      BY <2>2
    <3> QED
      BY <1>4, <2>2, <3>1
  <2> QED
    BY <2>3 DEF A, B
<1> QED
  BY <1>5, <1>6, <1>7

\* What the parser has seen when it took all events out of the buffer.
LEMMA AllSeen ==
    ASSUME type \in DOMAIN Answers, answer \in Answers[type], parsed = Len(Events(type, answer))
    PROVE  /\ SawText <=> answer.texts # <<>>
           /\ type # "kiro" => Before # <<>>
           /\ type = "responses" =>
                  ((\E e \in ToSet(Before) : e.reason = "completed") <=> answer.reason = "completed")
<1> DEFINE es == Events(type, answer)
           n  == Len(es)
<1>1. es \in Seq(EventsOf(answer)) /\ n \in Nat
  BY EventsAre
<1>2. /\ type # "kiro" => ReasonAt(type, answer) \in 1..n
      /\ answer.texts # <<>> => \E k \in 1..n : es[k].text # NoText
  BY EventsLast
<1>3. \A k \in 1..n :
          /\ es[k].text # NoText => answer.texts # <<>>
          /\ type # "kiro" /\ k = ReasonAt(type, answer) => es[k].reason = answer.reason
          /\ es[k].reason \in {NoReason, answer.reason}
  <2>1. TAKE k \in 1..n
  <2>2. es[k] \in EventsOf(answer) /\ (type # "kiro" /\ k = ReasonAt(type, answer) => es[k].reason = answer.reason)
        /\ (es[k].text # NoText => k - 1 \in Int /\ Shown(type, answer, k - 1) \in Nat
                                   /\ Shown(type, answer, k - 1) < Len(answer.texts))
    BY EventAt
  <2>3. es[k].text # NoText => answer.texts # <<>>
    <3>1. Len(<<>>) = 0
      OBVIOUS
    <3> QED
      BY <2>2, <3>1
  <2> QED
    BY <2>2, <2>3 DEF EventsOf
<1>4. Before = es
  <2>1. Before = SubSeq(es, 1, n)
    BY DEF Before
  <2> HIDE DEF es, n
  <2> QED
    BY <1>1, <2>1 DEF n
<1>5. \A e : e \in ToSet(Before) <=> \E k \in 1..n : e = es[k]
  BY <1>1, <1>4 DEF ToSet
<1>6. SawText <=> answer.texts # <<>>
  BY <1>2, <1>3, <1>5 DEF SawText
<1>7. type # "kiro" => Before # <<>>
  <2>1. Len(<<>>) = 0
    OBVIOUS
  <2> QED
    BY <1>1, <1>2, <1>4, <2>1
<1>8. "completed" # NoReason
  BY GatewayAssumption
<1> QED
  BY <1>2, <1>3, <1>5, <1>6, <1>7, <1>8

\* What an adapter adds to what was received: at the least no text; and nothing
\* at all before its first event.
LEMMA TailAdds ==
    ASSUME type \in DOMAIN Answers, answer \in Answers[type], NEW r
    PROVE  /\ Len(TailChunks(type)) <= 2 /\ Extended(r, TailChunks(type)).texts = r.texts
           /\ parsed = 0 /\ type # "kiro" => Adds(TailChunks(type), r, r.texts, r.reasons)
           /\ parsed = Len(Events(type, answer)) /\ r.reasons = GivenBy(type, answer, parsed) =>
                  Adds(TailChunks(type), r, r.texts, Told)
<1>1. Adds(<<>>, r, r.texts, r.reasons)
  BY NothingAdds
<1>2. \A s : s # NoReason => Adds(Ending(s), r, r.texts, Append(r.reasons, s))
  <2>1. ASSUME NEW s, s # NoReason PROVE Adds(Ending(s), r, r.texts, Append(r.reasons, s))
    <3>1. Adds(<<Chunk(NoText, s)>>, r, Add(r.texts, NoText, NoText), Add(r.reasons, s, NoReason))
      BY OneAdds
    <3> QED
      BY <2>1, <3>1 DEF Ending, Add
  <2> QED
    BY <2>1
<1>3. TailChunks(type) \in {<<>>, Ending("stop"), Ending("end_turn")}
      /\ "stop" # NoReason /\ "end_turn" # NoReason
  BY GatewayAssumption DEF TailChunks, AnthropicTail, GoogleTail, ResponsesTail, KiroTail
<1>4. Len(TailChunks(type)) <= 2 /\ Extended(r, TailChunks(type)).texts = r.texts
  BY <1>1, <1>2, <1>3 DEF Adds
<1>5. ASSUME parsed = 0, type # "kiro" PROVE Adds(TailChunks(type), r, r.texts, r.reasons)
  <2>1. Before = <<>>
    BY <1>5, EventsAre DEF Before
  <2>2. ~ SawText
    BY <2>1 DEF SawText, ToSet
  <2>3. TailChunks(type) = <<>>
    BY <1>5, <2>1, <2>2 DEF TailChunks, AnthropicTail, GoogleTail, ResponsesTail
  <2> QED
    BY <1>1, <2>3
<1>6. ASSUME parsed = Len(Events(type, answer)), r.reasons = GivenBy(type, answer, parsed)
      PROVE  Adds(TailChunks(type), r, r.texts, Told)
  <2> DEFINE w == Complete(type, answer).reason
             n == Len(answer.texts)
  <2>1. type # "kiro" => ReasonAt(type, answer) \in 1..parsed /\ parsed \in Nat
    BY <1>6, EventsLast
  <2>2. r.reasons = IF ~ Reasoned(type, answer) THEN <<>>
                    ELSE IF type = "google" /\ answer.texts # <<>> THEN <<w, w>> ELSE <<w>>
    BY <1>6, <2>1 DEF GivenBy, Reasoned
  <2>3. CASE type = "anthropic"
    <3>1. Reasoned(type, answer) /\ Told = IF answer.texts # <<>> THEN <<w, "end_turn">> ELSE <<w>>
      BY <2>3 DEF Reasoned, Told
    <3>2. TailChunks(type) = IF answer.texts # <<>> THEN Ending("end_turn") ELSE <<>>
      BY <1>6, <2>3, AllSeen DEF TailChunks, AnthropicTail
    <3> HIDE DEF w
    <3>3. r.reasons = <<w>>
      BY <2>2, <2>3, <3>1
    <3>4. Append(r.reasons, "end_turn") = <<w, "end_turn">>
      BY <3>3, Appended
    <3> QED
      BY <1>1, <1>2, <1>3, <3>1, <3>2, <3>3, <3>4
  <2>4. CASE type = "google"
    <3>1. Reasoned(type, answer) /\ Told = IF answer.texts = <<>> THEN <<w, "stop">> ELSE <<w, w, "stop">>
      BY <2>4 DEF Reasoned, Told
    <3>2. TailChunks(type) = Ending("stop")
      BY <1>6, <2>4, AllSeen DEF TailChunks, GoogleTail
    <3> HIDE DEF w
    <3>3. r.reasons = IF answer.texts = <<>> THEN <<w>> ELSE <<w, w>>
      BY <2>2, <2>4, <3>1
    <3>4. Append(<<w>>, "stop") = <<w, "stop">> /\ Append(<<w, w>>, "stop") = <<w, w, "stop">>
      BY Appended
    <3>5. Append(r.reasons, "stop") = Told
      BY <3>1, <3>3, <3>4
    <3> QED
      BY <1>2, <1>3, <3>2, <3>5
  <2>5. CASE type = "kiro"
    <3>1. ~ Reasoned(type, answer) /\ Told = <<"stop">> /\ TailChunks(type) = Ending("stop")
      BY <2>5 DEF Reasoned, Told, Complete, KiroComplete, Whole, TailChunks, KiroTail
    <3>2. Append(r.reasons, "stop") = <<"stop">>
      BY <2>2, <3>1, Appended
    <3> QED
      BY <1>2, <1>3, <3>1, <3>2
  <2>6. CASE type = "responses"
    <3>1. Told = IF answer.texts = <<>> /\ answer.reason # "completed" THEN <<>> ELSE <<"stop">>
      BY <2>6 DEF Told, Complete, ResponsesComplete, Whole
    <3>2. r.reasons = IF answer.reason = "completed" THEN <<"stop">> ELSE <<>>
      BY <2>2, <2>6 DEF Reasoned, Complete, ResponsesComplete, Whole
    <3>3. TailChunks(type) = IF answer.texts # <<>> /\ answer.reason # "completed" THEN Ending("stop") ELSE <<>>
      BY <1>6, <2>6, AllSeen DEF TailChunks, ResponsesTail
    <3>4. Append(<<>>, "stop") = <<"stop">>
      BY Appended
    <3> QED
      BY <1>1, <1>2, <1>3, <3>1, <3>2, <3>3, <3>4
  <2>7. CASE type \notin {"anthropic", "google", "kiro", "responses"}
    <3>1. Reasoned(type, answer) /\ Told = <<w>> /\ TailChunks(type) = <<>>
      BY <2>7 DEF Reasoned, Told, TailChunks
    <3> HIDE DEF w
    <3> QED
      BY <1>1, <2>2, <2>7, <3>1
  <2> QED
    BY <2>3, <2>4, <2>5, <2>6, <2>7
<1> QED
  BY <1>4, <1>5, <1>6

\* A step that leaves the answer alone keeps what it is.
LEMMA SameAnswer ==
    ASSUME UNCHANGED <<type, answer>>
    PROVE  /\ Delimited' = Delimited /\ Units' = Units /\ Told' = Told
           /\ got' = got => Entire' = Entire
  BY DEF Delimited, Units, Told, Entire

\* The state of a stream that the steps below start from.
LEMMA MatchFacts ==
    ASSUME StreamInv, MatchInv, phase # "none"
    PROVE  LET r == Received(sent)
               x == Extended(r, queue)
           IN  /\ type \in DOMAIN Answers /\ answer \in Answers[type]
               /\ got \in Nat /\ parsed \in Nat /\ got <= Units /\ Units = 2 * Len(Events(type, answer))
               /\ queue \in Seq(PromisedChunks) /\ sent \in Seq(SentEvents)
               /\ answer.texts \in Seq(ToSet(answer.texts) \ {NoText})
               /\ r \in Heard /\ x \in Heard /\ Begins(r.texts, x.texts)
               /\ Shown(type, answer, parsed) \in 0..Len(answer.texts)
<1>1. type \in DOMAIN Answers /\ answer \in Answers[type] /\ got <= Units
      /\ got \in Nat /\ parsed \in Nat /\ queue \in Seq(PromisedChunks) /\ sent \in Seq(SentEvents)
  BY DEF StreamInv
<1>2. answer.texts \in Seq(ToSet(answer.texts) \ {NoText})
  BY <1>1, GatewayAssumption
<1>3. Error \in SentEvents
  BY DEF SentEvents
<1>4. Received(sent) \in Heard
  BY <1>1, <1>3, ReceivedGrows
<1>5. Len(queue) <= 2
  BY DEF MatchInv
<1>6. Shown(type, answer, parsed) \in 0..Len(answer.texts)
  BY <1>1, <1>2 DEF Shown
<1> QED
  BY <1>1, <1>2, <1>4, <1>5, <1>6, ExtendedKeeps DEF Units

LEMMA ParseMatches ==
    ASSUME StreamInv, MatchInv, ParseEvent
    PROVE  MatchInv'
<1> DEFINE r == Received(sent)
           k == parsed + 1
           e == Events(type, answer)[k]
           n == Shown(type, answer, parsed)
           w == Complete(type, answer).reason
           texts == Add(r.texts, e.text, NoText)
           q == Parse(type, e)
<1>1. /\ phase = "reading" /\ phase' = "reading" /\ queue = <<>> /\ 2 * k <= got /\ Delimited
      /\ UNCHANGED <<type, answer, got, late, sent>>
      /\ parsed' = k /\ queue' = q
  BY DEF ParseEvent, Ready
<1>2. /\ type \in DOMAIN Answers /\ answer \in Answers[type] /\ parsed \in Nat /\ got \in Nat
      /\ got <= Units /\ Units = 2 * Len(Events(type, answer)) /\ r \in Heard
      /\ answer.texts \in Seq(ToSet(answer.texts) \ {NoText}) /\ n \in 0..Len(answer.texts)
  BY <1>1, MatchFacts
<1>3. /\ r.texts = Beginning(answer.texts, Len(r.texts)) /\ Len(r.texts) <= Len(answer.texts)
      /\ r.texts = Beginning(answer.texts, n)
      /\ r.reasons = GivenBy(type, answer, parsed)
  BY <1>1, ExtendedIs DEF MatchInv
<1>4. Len(Events(type, answer)) \in Nat
  BY <1>2, EventsLast
<1>5. k \in 1..Len(Events(type, answer)) /\ k - 1 = parsed
  BY <1>1, <1>2, <1>4
<1>6. /\ e \in EventsOf(answer) /\ (e.text = NoText \/ e.reason = NoReason \/ type = "google")
      /\ e.text = NoText => Shown(type, answer, k) = n
      /\ e.text # NoText =>
             n < Len(answer.texts) /\ e.text = answer.texts[n + 1] /\ Shown(type, answer, k) = n + 1
      /\ e.reason # NoReason => k = ReasonAt(type, answer)
      /\ type # "kiro" /\ k = ReasonAt(type, answer) =>
             e.reason = answer.reason /\ (e.text # NoText <=> type = "google" /\ answer.texts # <<>>)
  BY <1>2, <1>5, EventAt
<1>7. IF e.reason = NoReason \/ ~ Reasoned(type, answer) THEN Adds(q, r, texts, r.reasons)
      ELSE IF e.text = NoText THEN Adds(q, r, texts, Append(r.reasons, w))
      ELSE Adds(q, r, texts, Append(Append(r.reasons, w), w))
  BY <1>2, <1>6, ParseAdds
<1>8. texts = Beginning(answer.texts, Shown(type, answer, k))
  <2>1. e.text # NoText =>
            Append(Beginning(answer.texts, n), answer.texts[n + 1]) = Beginning(answer.texts, n + 1)
    BY <1>2, <1>6, BeginningGrows
  <2> QED
    BY <1>3, <1>6, <2>1 DEF Add
<1>9. Extended(r, q).reasons = GivenBy(type, answer, k)
  <2>1. ReasonAt(type, answer) \in Nat /\ (Reasoned(type, answer) => type # "kiro") /\ answer.reason # NoReason
    BY <1>2, GatewayAssumption DEF ReasonAt, Reasoned
  <2> HIDE DEF q, texts
  <2>2. CASE e.reason = NoReason \/ ~ Reasoned(type, answer)
    <3>1. Extended(r, q).reasons = r.reasons
      BY <1>7, <2>2 DEF Adds
    <3>2. Reasoned(type, answer) => k # ReasonAt(type, answer)
      BY <1>6, <2>1, <2>2
    <3>3. Reasoned(type, answer) => (k >= ReasonAt(type, answer) <=> parsed >= ReasonAt(type, answer))
      BY <1>2, <2>1, <3>2
    <3> QED
      BY <1>3, <3>1, <3>3 DEF GivenBy
  <2>3. CASE e.reason # NoReason /\ Reasoned(type, answer)
    <3>1. k = ReasonAt(type, answer) /\ (e.text # NoText <=> type = "google" /\ answer.texts # <<>>)
      BY <1>6, <2>1, <2>3
    <3>2. r.reasons = <<>>
      BY <1>2, <1>3, <3>1 DEF GivenBy
    <3>3. GivenBy(type, answer, k) = IF e.text = NoText THEN <<w>> ELSE <<w, w>>
      BY <1>2, <2>3, <3>1 DEF GivenBy
    <3> HIDE DEF w, k, e
    <3>4. Append(r.reasons, w) = <<w>> /\ Append(Append(r.reasons, w), w) = <<w, w>>
      BY <3>2, Appended
    <3>5. Extended(r, q).reasons = IF e.text = NoText THEN Append(r.reasons, w)
                                   ELSE Append(Append(r.reasons, w), w)
      BY <1>7, <2>3 DEF Adds
    <3> QED
      BY <3>3, <3>4, <3>5
  <2> QED
    BY <2>2, <2>3
<1>10. Len(q) <= 2 /\ Extended(r, q).texts = texts
  BY <1>7 DEF Adds
<1>11. Received(sent') = r /\ Delimited' = Delimited
  BY <1>1, SameAnswer
<1> HIDE DEF r, q, texts, w, k
<1> QED
  BY <1>1, <1>3, <1>8, <1>9, <1>10, <1>11 DEF MatchInv

LEMMA EndMatches ==
    ASSUME StreamInv, MatchInv, EndOfBytes
    PROVE  MatchInv'
<1> DEFINE r == Received(sent)
           q == TailChunks(type)
           x == Extended(r, q)
           last == Len(Events(type, answer))
<1>1. /\ phase = "reading" /\ phase' = "tail" /\ queue = <<>> /\ ~ Ready
      /\ UNCHANGED <<type, answer, got, parsed, late, sent>> /\ queue' = q
  BY DEF EndOfBytes, Drained
<1>2. /\ type \in DOMAIN Answers /\ answer \in Answers[type] /\ parsed \in Nat /\ got \in Nat
      /\ got <= Units /\ Units = 2 * last /\ r \in Heard
      /\ answer.texts \in Seq(ToSet(answer.texts) \ {NoText})
  BY <1>1, MatchFacts
<1>3. /\ 2 * parsed <= got /\ (~ Delimited => parsed = 0)
      /\ r.texts = Beginning(answer.texts, Len(r.texts)) /\ Len(r.texts) <= Len(answer.texts)
      /\ r.texts = Beginning(answer.texts, Shown(type, answer, parsed))
      /\ r.reasons = GivenBy(type, answer, parsed)
  BY <1>1, ExtendedIs DEF MatchInv
<1>4. last \in Nat /\ (type # "kiro" => ReasonAt(type, answer) \in 1..last)
  BY <1>2, EventsLast
<1>5. Entire /\ Delimited => parsed = last
  BY <1>1, <1>2, <1>3, <1>4 DEF Entire, Ready
<1>6. /\ Len(q) <= 2 /\ x.texts = r.texts
      /\ parsed = 0 /\ type # "kiro" => x.reasons = r.reasons
      /\ parsed = last => x.reasons = Told
  BY <1>2, <1>3, TailAdds DEF Adds
<1>7. ~ Delimited => parsed = 0 /\ type # "kiro" /\ r.reasons = <<>>
  <2>1. ~ Delimited => parsed = 0 /\ type # "kiro"
    BY <1>3 DEF Delimited
  <2>2. ReasonAt(type, answer) \in Int /\ (type # "kiro" => ReasonAt(type, answer) >= 1)
    BY <1>2, <1>4 DEF ReasonAt
  <2> QED
    BY <1>3, <2>1, <2>2 DEF GivenBy
<1>8. /\ Entire /\ Delimited => parsed = last /\ x.reasons = Told
      /\ ~ Delimited => x.reasons = <<>>
  BY <1>5, <1>6, <1>7
<1>9. Received(sent') = r /\ Entire' = Entire /\ Delimited' = Delimited /\ Told' = Told
  BY <1>1, SameAnswer
<1>10. x = Extended(r, q)
  OBVIOUS
<1> HIDE DEF r, q, x
<1> QED
  BY <1>1, <1>3, <1>6, <1>8, <1>9, <1>10 DEF MatchInv

LEMMA ForwardMatches ==
    ASSUME StreamInv, MatchInv, Forward
    PROVE  MatchInv'
<1> DEFINE r == Received(sent)
           c == Head(queue)
           e == [kind |-> "chunk", chunk |-> c]
           x == Extended(r, queue)
           s == Take(r, c)
<1>1. /\ phase \in {"reading", "tail"} /\ phase' = phase /\ queue # <<>>
      /\ UNCHANGED <<type, answer, got, parsed, late>>
      /\ sent' = Append(sent, e) /\ queue' = Tail(queue)
  BY DEF Forward, Active
<1>2. /\ type \in DOMAIN Answers /\ answer \in Answers[type]
      /\ queue \in Seq(PromisedChunks) /\ sent \in Seq(SentEvents) /\ r \in Heard
      /\ answer.texts \in Seq(ToSet(answer.texts) \ {NoText})
      /\ Shown(type, answer, parsed) \in 0..Len(answer.texts)
  BY <1>1, MatchFacts
<1>3. Len(queue) <= 2 /\ 2 * parsed <= got /\ x.texts = Beginning(answer.texts, Shown(type, answer, parsed))
  BY <1>1 DEF MatchInv
<1>4. c \in PromisedChunks /\ Tail(queue) \in Seq(PromisedChunks) /\ Len(Tail(queue)) = Len(queue) - 1
      /\ Len(queue) \in Nat
  BY <1>1, <1>2, HeadTailProperties
<1>5. Received(sent') = s
  <2>1. e \in SentEvents /\ Hear(r, e) = s
    BY <1>4 DEF SentEvents, Hear
  <2> HIDE DEF e
  <2> QED
    BY <1>1, <1>2, <2>1, ReceivedGrows
<1>6. Extended(s, Tail(queue)) = x
  BY <1>1, <1>2, <1>3, ExtendedPops
<1>7. s \in Heard /\ Len(Tail(queue)) <= 2
  BY <1>2, <1>3, <1>4, TakeIsHeard
<1>8. Begins(s.texts, x.texts)
  <2> HIDE DEF s, x
  <2> QED
    BY <1>4, <1>6, <1>7, ExtendedKeeps
<1>9. s.texts = Beginning(answer.texts, Len(s.texts)) /\ Len(s.texts) <= Len(answer.texts)
  <2>1. s.texts \in Seq({z.text : z \in PromisedChunks})
    BY <1>7 DEF Heard
  <2> HIDE DEF s, x
  <2>2. s.texts = Beginning(answer.texts, Len(s.texts)) /\ Len(s.texts) <= Shown(type, answer, parsed)
    BY <1>2, <1>3, <1>8, <2>1, BeginsShorter
  <2>3. Len(s.texts) \in Nat /\ Len(answer.texts) \in Nat
    BY <1>2, <2>1
  <2> QED
    BY <1>2, <2>2, <2>3
<1>10. Complete(type', answer') = Complete(type, answer) /\ Entire' = Entire /\ Delimited' = Delimited /\ Told' = Told
  BY <1>1, SameAnswer
<1>11. /\ ~ Delimited => parsed = 0
       /\ phase = "reading" => x.reasons = GivenBy(type, answer, parsed)
       /\ phase = "tail" /\ Entire =>
              IF Delimited THEN parsed = Len(Events(type, answer)) /\ x.reasons = Told
              ELSE x.reasons = <<>>
  BY <1>1 DEF MatchInv
<1>12. x = Extended(Received(sent'), queue')
  BY <1>1, <1>5, <1>6
<1> HIDE DEF x, s, e, r, c
<1> QED
  BY <1>1, <1>3, <1>5, <1>7, <1>9, <1>10, <1>11, <1>12 DEF MatchInv

\* An event that is no chunk says nothing.
LEMMA PlainEvents ==
    ASSUME sent \in Seq(SentEvents), NEW e \in {Error, Terminator}, sent' = Append(sent, e)
    PROVE  Received(sent') = Received(sent) /\ ToSet(sent') = ToSet(sent) \cup {e}
<1>1. e \in SentEvents /\ Hear(Received(sent), e) = Received(sent)
  BY DEF SentEvents, Hear, Error, Terminator
<1> QED
  BY <1>1, ReceivedGrows, AppendSays

LEMMA CloseMatches ==
    ASSUME StreamInv, MatchInv, Overdue \/ ForwardError \/ Terminate
    PROVE  MatchInv'
<1> DEFINE r == Received(sent)
<1>1. UNCHANGED <<type, answer, got, parsed, late>> /\ queue' \in {queue, <<>>} /\ phase # "none"
  BY DEF Overdue, ForwardError, Terminate, Active
<1>2. /\ type \in DOMAIN Answers /\ answer \in Answers[type] /\ sent \in Seq(SentEvents)
      /\ answer.texts \in Seq(ToSet(answer.texts) \ {NoText})
  BY <1>1, MatchFacts
<1>3. /\ Len(queue) <= 2 /\ 2 * parsed <= got /\ (~ Delimited => parsed = 0)
      /\ r.texts = Beginning(answer.texts, Len(r.texts)) /\ Len(r.texts) <= Len(answer.texts)
  BY <1>1 DEF MatchInv
<1>4. Len(queue') <= 2
  <2>1. Len(<<>>) <= 2
    OBVIOUS
  <2> QED
    BY <1>1, <1>3, <2>1
<1>5. Complete(type', answer') = Complete(type, answer) /\ Entire' = Entire /\ Delimited' = Delimited /\ Told' = Told
  BY <1>1, SameAnswer
<1>6. CASE Overdue \/ ForwardError
  <2>1. sent' = Append(sent, Error) /\ phase' = "closing"
    BY <1>6 DEF Overdue, ForwardError
  <2>2. Received(sent') = r /\ Error \in ToSet(sent')
    BY <1>2, <2>1, PlainEvents
  <2> HIDE DEF r
  <2> QED
    BY <1>1, <1>3, <1>4, <1>5, <2>1, <2>2 DEF MatchInv
<1>7. CASE Terminate
  <2>1. sent' = Append(sent, Terminator) /\ phase' = "closed" /\ queue' = queue
        /\ (phase = "closing" \/ (phase = "tail" /\ queue = <<>>))
    BY <1>7 DEF Terminate
  <2>2. Received(sent') = r /\ (Error \in ToSet(sent) => Error \in ToSet(sent'))
    BY <1>2, <2>1, PlainEvents
  <2>3. CASE phase = "closing"
    <3>1. Error \in ToSet(sent')
      BY <2>2, <2>3 DEF MatchInv
    <3> HIDE DEF r
    <3> QED
      BY <1>1, <1>3, <1>4, <1>5, <2>1, <2>2, <3>1 DEF MatchInv
  <2>4. CASE phase = "tail" /\ queue = <<>>
    <3>1. Extended(r, queue) = r
      BY <2>4, ExtendedIs
    <3>2. /\ r.texts = Beginning(answer.texts, Shown(type, answer, parsed))
          /\ ~ Delimited => parsed = 0
          /\ Entire => IF Delimited THEN parsed = Len(Events(type, answer)) /\ r.reasons = Told
                       ELSE r.reasons = <<>>
      BY <2>4, <3>1 DEF MatchInv
    <3>3. Entire => r.texts = IF Delimited THEN answer.texts ELSE <<>>
      <4>1. Entire /\ Delimited => Shown(type, answer, parsed) = Len(answer.texts)
        BY <1>2, <3>2, EventsLast
      <4>2. ~ Delimited => Shown(type, answer, parsed) = 0
        BY <1>2, <3>2 DEF Shown
      <4>3. Beginning(answer.texts, Len(answer.texts)) = answer.texts /\ Beginning(answer.texts, 0) = <<>>
        BY <1>2 DEF Beginning
      <4> QED
        BY <3>2, <4>1, <4>2, <4>3
    <3> HIDE DEF r
    <3> QED
      BY <1>1, <1>3, <1>4, <1>5, <2>1, <2>2, <3>2, <3>3 DEF MatchInv
  <2> QED
    BY <2>1, <2>3, <2>4
<1> QED
  BY <1>6, <1>7

LEMMA QuietMatches ==
    ASSUME StreamInv, MatchInv, ReadChunk \/ Break \/ Leave \/ Overrun
    PROVE  MatchInv'
<1> DEFINE r == Received(sent)
<1>1. /\ UNCHANGED <<type, answer, parsed, queue, sent>> /\ phase \in {"reading", "tail", "failed", "closing"}
      /\ \/ phase = "reading" /\ phase' = phase /\ got' \in Int /\ got' > got
         \/ got' = got /\ phase' \in {"failed", "gone"}
         \/ got' = got /\ phase' = phase
  <2>1. ReadChunk => got' \in Int /\ got' > got
    <3>1. got \in Nat
      BY DEF StreamInv
    <3> QED
      BY <3>1 DEF ReadChunk
  <2> QED
    BY <2>1 DEF ReadChunk, Break, Leave, Overrun, Drained
<1>2. got \in Nat /\ parsed \in Nat
  BY DEF StreamInv
<1> QED
  BY <1>1, <1>2, SameAnswer DEF MatchInv

LEMMA OpenMatches ==
    ASSUME StreamInv, MatchInv, NEW y \in DOMAIN Answers, NEW a \in Answers[y], Open(y, a)
    PROVE  MatchInv'
<1>1. /\ type' = y /\ answer' = a /\ phase' = "reading"
      /\ got' = 0 /\ parsed' = 0 /\ queue' = <<>> /\ sent' = <<>>
  BY DEF Open, StreamInv
<1>2. a.texts \in Seq(ToSet(a.texts) \ {NoText}) /\ Len(a.texts) \in Nat
  BY GatewayAssumption
<1>3. /\ Received(sent') = Silence /\ Extended(Silence, queue') = Silence
      /\ Silence.texts = <<>> /\ Silence.reasons = <<>>
  BY <1>1, NothingReceived, ExtendedIs DEF Silence
<1>4. Shown(y, a, 0) = 0 /\ Beginning(a.texts, 0) = <<>> /\ Len(<<>>) = 0
  BY <1>2 DEF Shown, Beginning
<1>5. ReasonAt(y, a) \in Nat /\ ReasonAt(y, a) > 0
  BY <1>2, EmptySeq DEF ReasonAt
<1>6. GivenBy(y, a, 0) = <<>>
  BY <1>5 DEF GivenBy
<1> QED
  BY <1>1, <1>2, <1>3, <1>4, <1>6 DEF MatchInv

LEMMA MatchStep ==
    ASSUME GatewayInv, StreamInv, MatchInv, [GatewayNext]_gatewayVars
    PROVE  MatchInv'
<1>1. CASE Streamed
  BY <1>1, ParseMatches, EndMatches, ForwardMatches, CloseMatches, QuietMatches
     DEF Streamed, StreamNext, Relay, Upstream
<1>2. CASE Connected
  <2>1. upstream.type \in DOMAIN Answers
    BY <1>2 DEF Connected, GatewayInv, ServeInv, HandlerInv
  <2>2. PICK a \in Answers[upstream.type] : Open(upstream.type, a)
    BY <1>2 DEF Connected
  <2> QED
    BY <2>1, <2>2, OpenMatches
<1>3. CASE StreamOver
  BY <1>3 DEF StreamOver, Close, MatchInv
<1>4. CASE UNCHANGED streamVars
  <2>1. UNCHANGED <<type, answer, got, parsed, queue, phase, sent>>
    BY <1>4 DEF streamVars
  <2> QED
    BY <2>1, SameAnswer DEF MatchInv
<1> QED
  BY <1>1, <1>2, <1>3, <1>4, WhoStreams

LEMMA MatchImplies ==
    ASSUME StreamInv, MatchInv
    PROVE  StreamMatchesComplete
<1> DEFINE r == Received(sent)
           whole == Complete(type, answer)
<1>1. SUFFICES ASSUME phase # "none" PROVE StreamMatchesComplete
  BY DEF StreamMatchesComplete
<1>2. r \in Heard /\ answer.texts \in Seq(ToSet(answer.texts) \ {NoText})
  BY <1>1, MatchFacts
<1>3. r.texts = Beginning(answer.texts, Len(r.texts)) /\ Len(r.texts) <= Len(answer.texts)
  BY <1>1 DEF MatchInv
<1>4. whole.texts = answer.texts
  BY DEF Complete, OpenAIComplete, AnthropicComplete, GoogleComplete, ResponsesComplete, KiroComplete,
         GenericComplete, Whole
<1>5. IsPrefix(r.texts, answer.texts)
  <2> DEFINE s == r.texts
             u == answer.texts
  <2>1. s \in Seq({c.text : c \in PromisedChunks})
    BY <1>2 DEF Heard
  <2>2. s = Beginning(u, Len(s)) /\ Len(s) <= Len(u) /\ Len(s) \in Nat /\ Len(u) \in Nat
    BY <1>2, <1>3, <2>1
  <2>3. u \in Seq(ToSet(u) \ {NoText})
    BY <1>2
  <2> HIDE DEF s, u
  <2>4. SubSeq(s, 1, Len(s)) = [i \in 1..Len(s) |-> s[i]] /\ SubSeq(u, 1, Len(s)) = [i \in 1..Len(s) |-> u[i]]
    BY <2>1, <2>2, <2>3
  <2>5. \A i \in 1..Len(s) : s[i] = u[i]
    BY <2>2 DEF Beginning
  <2>6. IsPrefix(s, u)
    BY <2>2, <2>4, <2>5 DEF IsPrefix
  <2> QED
    BY <2>6 DEF s, u
<1>6. r = [texts |-> r.texts, reasons |-> r.reasons]
  BY <1>2 DEF Heard
<1>7. phase = "closed" /\ Error \notin ToSet(sent) /\ Entire =>
          IF Delimited THEN r = [texts |-> whole.texts, reasons |-> Told] ELSE r = Silence
  BY <1>1, <1>4, <1>6 DEF MatchInv, Silence
<1> HIDE DEF r, whole
<1>8. phase = "closed" /\ Error \notin ToSet(sent) /\ Entire =>
          IF Delimited THEN r = [texts |-> whole.texts, reasons |-> Told] ELSE r = Silence
  BY <1>7
<1> QED
  BY <1>4, <1>5, <1>8 DEF StreamMatchesComplete, r, whole

(***************************************************************************)
(* However the bytes of an answer are cut, what the caller of a stream has *)
(* been shown is a beginning of the answer.  When all of them came and the *)
(* stream closed without an error, it showed the whole answer and told the *)
(* reasons of Told, complete()'s first; but nothing of an answer with CRLF *)
(* line ends.  The parsers of the six adapters and the loop of             *)
(* chat_completions, for any answers.                                      *)
(***************************************************************************)
THEOREM StreamsTellTheAnswer == GatewaySpec => []StreamMatchesComplete
<1>1. GatewayInit => MatchInv
  BY DEF GatewayInit, StreamIdle, MatchInv
<1>2. GatewayInv /\ StreamInv /\ MatchInv /\ [GatewayNext]_gatewayVars => MatchInv'
  BY MatchStep
<1>3. StreamInv /\ MatchInv => StreamMatchesComplete
  BY MatchImplies
<1> QED
  BY <1>1, <1>2, <1>3, GatewayInvariant, StreamInvariant, PTL DEF GatewaySpec

-----------------------------------------------------------------------------
(* Prompts *)

\* Induction over the length of a sequence.
LEMMA SeqInduction ==
    ASSUME NEW X, NEW S, <<>> \in S,
           \A t \in Seq(X), e \in X : t \in S => Append(t, e) \in S
    PROVE  Seq(X) \subseteq S
<1> DEFINE T == {n \in Nat : \A s \in Seq(X) : Len(s) = n => s \in S}
<1>1. 0 \in T
  <2>1. ASSUME NEW s \in Seq(X), Len(s) = 0 PROVE s = <<>>
    BY <2>1, EmptySeq
  <2> QED
    BY <2>1
<1>2. ASSUME NEW n \in Nat, n \in T PROVE n + 1 \in T
  <2>1. SUFFICES ASSUME NEW s \in Seq(X), Len(s) = n + 1 PROVE s \in S
    OBVIOUS
  <2> DEFINE t == [i \in 1..n |-> s[i]]
  <2>2. t \in Seq(X) /\ Len(t) = n /\ s[n + 1] \in X
    BY <2>1
  <2>3. s = Append(t, s[n + 1])
    BY <2>1, <2>2
  <2> HIDE DEF t
  <2> QED
    BY <1>2, <2>2, <2>3
<1>3. Nat \subseteq T
  <2> HIDE DEF T
  <2> QED
    BY <1>1, <1>2, SetInduction
<1> QED
  BY <1>3

KeepStep(a, x, S) == IF x \in S THEN Append(a, x) ELSE a

WalksKeep(v, s, S) ==
    /\ v[0] = <<>>
    /\ \A k \in 0..Len(s)-1 : v[k + 1] = KeepStep(v[k], s[k + 1], S)
    /\ Keep(s, S) = v[Len(s)]

LEMMA KeepWalk ==
    ASSUME NEW X, NEW S, NEW s \in Seq(X)
    PROVE  \E v : WalksKeep(v, s, S)
<1> DEFINE n == Len(s)
<1>0. n \in Nat /\ DOMAIN s = 1..n /\ \A i \in 1..n : s[i] \in X
  OBVIOUS
<1> HIDE DEF n
<1>a. <<>> \in Seq(X) /\ \A a \in Seq(X), x \in X : KeepStep(a, x, S) \in Seq(X)
  BY DEF KeepStep
<1>1. \E g : g = [x \in SUBSET DOMAIN s |->
                     IF x = {} THEN <<>> ELSE KeepStep(g[x \ {Max(x)}], s[Max(x)], S)]
  <2> DEFINE F == [x \in (1..n) \X Seq(X) |-> KeepStep(x[2], s[x[1]], S)]
  <2>1. F \in [(1..n) \X Seq(X) -> Seq(X)]
    BY <1>0, <1>a
  <2>2. PICK g \in [SUBSET (1..n) -> Seq(X)] : FoldedBy(g, n, <<>>, F)
    <3> HIDE DEF F
    <3> QED
      BY <1>0, <1>a, <2>1, FoldExists
  <2>3. ASSUME NEW x \in SUBSET (1..n)
        PROVE  g[x] = IF x = {} THEN <<>> ELSE KeepStep(g[x \ {Max(x)}], s[Max(x)], S)
    <3>1. CASE x = {}
      BY <2>2, <3>1 DEF FoldedBy
    <3>2. CASE x # {}
      <4>1. Max(x) \in 1..n
        BY <1>0, <3>2, LargestIsIn
      <4>2. g[x \ {Max(x)}] \in Seq(X)
        OBVIOUS
      <4>3. F[<<Max(x), g[x \ {Max(x)}]>>] = KeepStep(g[x \ {Max(x)}], s[Max(x)], S)
        BY <4>1, <4>2
      <4> HIDE DEF F
      <4> QED
        BY <2>2, <3>2, <4>3 DEF FoldedBy
    <3> QED
      BY <3>1, <3>2
  <2> QED
    BY <1>0, <2>3
<1>2. PICK h : /\ h = [x \in SUBSET DOMAIN s |->
                          IF x = {} THEN <<>> ELSE KeepStep(h[x \ {Max(x)}], s[Max(x)], S)]
               /\ Keep(s, S) = h[DOMAIN s]
  BY <1>1 DEF Keep, FoldLeft, MapThenFoldSet, KeepStep
<1>3. \A x \in SUBSET (1..n) : h[x] = IF x = {} THEN <<>> ELSE KeepStep(h[x \ {Max(x)}], s[Max(x)], S)
  BY <1>0, <1>2
<1> DEFINE v == [k \in 0..n |-> h[1..k]]
<1>4. v[0] = <<>> /\ v[n] = Keep(s, S)
  <2>1. v[0] = h[1..0] /\ v[n] = h[1..n]
    BY <1>0
  <2>2. 1..0 = {} /\ {} \in SUBSET (1..n)
    OBVIOUS
  <2>3. h[{}] = <<>>
    BY <1>3, <2>2
  <2> QED
    BY <1>0, <1>2, <2>1, <2>2, <2>3
<1>5. ASSUME NEW k \in 0..n-1
      PROVE  v[k + 1] = KeepStep(v[k], s[k + 1], S)
  <2>1. 1..k+1 \in SUBSET (1..n) /\ k \in Nat
    BY <1>0
  <2>2. h[1..k+1] = KeepStep(h[1..k], s[k + 1], S)
    BY <1>3, <2>1, LastOfRange
  <2> QED
    BY <1>0, <2>2
<1> HIDE DEF v
<1> QED
  BY <1>4, <1>5 DEF WalksKeep, n

\* Keep, member by member.
LEMMA KeepGrows ==
    ASSUME NEW X, NEW S, NEW s \in Seq(X), NEW e \in X
    PROVE  Keep(Append(s, e), S) = KeepStep(Keep(s, S), e, S)
<1> DEFINE n == Len(s)
           t == Append(s, e)
<1>0. n \in Nat /\ t \in Seq(X) /\ Len(t) = n + 1 /\ t[n + 1] = e
      /\ \A i \in 1..n : t[i] = s[i]
  OBVIOUS
<1> HIDE DEF n, t
<1>1. PICK v : WalksKeep(v, s, S)
  BY KeepWalk
<1>2. PICK w : WalksKeep(w, t, S)
  BY <1>0, KeepWalk
<1>3. /\ v[0] = <<>> /\ Keep(s, S) = v[n]
      /\ \A k \in 0..n-1 : v[k + 1] = KeepStep(v[k], s[k + 1], S)
  BY <1>0, <1>1 DEF WalksKeep, n
<1>4. /\ w[0] = <<>> /\ Keep(t, S) = w[n + 1]
      /\ \A k \in 0..n : w[k + 1] = KeepStep(w[k], t[k + 1], S)
  BY <1>0, <1>2 DEF WalksKeep
<1> DEFINE T == {k \in Nat : k <= n => v[k] = w[k]}
<1>5. 0 \in T
  BY <1>3, <1>4
<1>6. ASSUME NEW k \in Nat, k \in T PROVE k + 1 \in T
  <2>1. SUFFICES ASSUME k + 1 <= n PROVE v[k + 1] = w[k + 1]
    OBVIOUS
  <2>2. k \in 0..n-1 /\ k \in 0..n /\ k + 1 \in 1..n /\ v[k] = w[k]
    BY <1>0, <1>6, <2>1
  <2> QED
    BY <1>0, <1>3, <1>4, <2>2
<1>7. Nat \subseteq T
  <2> HIDE DEF T
  <2> QED
    BY <1>5, <1>6, SetInduction
<1>8. v[n] = w[n] /\ w[n + 1] = KeepStep(w[n], e, S)
  BY <1>0, <1>4, <1>7
<1> QED
  BY <1>3, <1>4, <1>8 DEF t

LEMMA KeepNothing == \A S : Keep(<<>>, S) = <<>>
<1>1. ASSUME NEW S PROVE Keep(<<>>, S) = <<>>
  <2>1. <<>> \in Seq({}) /\ Len(<<>>) = 0
    OBVIOUS
  <2>2. PICK v : WalksKeep(v, <<>>, S)
    BY <2>1, KeepWalk
  <2> QED
    BY <2>1, <2>2 DEF WalksKeep
<1> QED
  BY <1>1
JoinStep(a, x) == a \o x

WalksConcat(v, s) ==
    /\ v[0] = <<>>
    /\ \A k \in 0..Len(s)-1 : v[k + 1] = JoinStep(v[k], s[k + 1])
    /\ Concat(s) = v[Len(s)]

LEMMA ConcatWalk ==
    ASSUME NEW X, NEW s \in Seq(Seq(X))
    PROVE  \E v : WalksConcat(v, s)
<1> DEFINE n == Len(s)
<1>0. n \in Nat /\ DOMAIN s = 1..n /\ \A i \in 1..n : s[i] \in Seq(X)
  OBVIOUS
<1> HIDE DEF n
<1>a. <<>> \in Seq(X) /\ \A a \in Seq(X), x \in Seq(X) : JoinStep(a, x) \in Seq(X)
  BY DEF JoinStep
<1>1. \E g : g = [x \in SUBSET DOMAIN s |->
                     IF x = {} THEN <<>> ELSE JoinStep(g[x \ {Max(x)}], s[Max(x)])]
  <2> DEFINE F == [x \in (1..n) \X Seq(X) |-> JoinStep(x[2], s[x[1]])]
  <2>1. F \in [(1..n) \X Seq(X) -> Seq(X)]
    BY <1>0, <1>a
  <2>2. PICK g \in [SUBSET (1..n) -> Seq(X)] : FoldedBy(g, n, <<>>, F)
    <3> HIDE DEF F
    <3> QED
      BY <1>0, <1>a, <2>1, FoldExists
  <2>3. ASSUME NEW x \in SUBSET (1..n)
        PROVE  g[x] = IF x = {} THEN <<>> ELSE JoinStep(g[x \ {Max(x)}], s[Max(x)])
    <3>1. CASE x = {}
      BY <2>2, <3>1 DEF FoldedBy
    <3>2. CASE x # {}
      <4>1. Max(x) \in 1..n
        BY <1>0, <3>2, LargestIsIn
      <4>2. g[x \ {Max(x)}] \in Seq(X)
        OBVIOUS
      <4>3. F[<<Max(x), g[x \ {Max(x)}]>>] = JoinStep(g[x \ {Max(x)}], s[Max(x)])
        BY <4>1, <4>2
      <4> HIDE DEF F
      <4> QED
        BY <2>2, <3>2, <4>3 DEF FoldedBy
    <3> QED
      BY <3>1, <3>2
  <2> QED
    BY <1>0, <2>3
<1>2. PICK h : /\ h = [x \in SUBSET DOMAIN s |->
                          IF x = {} THEN <<>> ELSE JoinStep(h[x \ {Max(x)}], s[Max(x)])]
               /\ Concat(s) = h[DOMAIN s]
  BY <1>1 DEF Concat, FoldLeft, MapThenFoldSet, JoinStep
<1>3. \A x \in SUBSET (1..n) : h[x] = IF x = {} THEN <<>> ELSE JoinStep(h[x \ {Max(x)}], s[Max(x)])
  BY <1>0, <1>2
<1> DEFINE v == [k \in 0..n |-> h[1..k]]
<1>4. v[0] = <<>> /\ v[n] = Concat(s)
  <2>1. v[0] = h[1..0] /\ v[n] = h[1..n]
    BY <1>0
  <2>2. 1..0 = {} /\ {} \in SUBSET (1..n)
    OBVIOUS
  <2>3. h[{}] = <<>>
    BY <1>3, <2>2
  <2> QED
    BY <1>0, <1>2, <2>1, <2>2, <2>3
<1>5. ASSUME NEW k \in 0..n-1
      PROVE  v[k + 1] = JoinStep(v[k], s[k + 1])
  <2>1. 1..k+1 \in SUBSET (1..n) /\ k \in Nat
    BY <1>0
  <2>2. h[1..k+1] = JoinStep(h[1..k], s[k + 1])
    BY <1>3, <2>1, LastOfRange
  <2> QED
    BY <1>0, <2>2
<1> HIDE DEF v
<1> QED
  BY <1>4, <1>5 DEF WalksConcat, n

\* Concat, part by part.
LEMMA ConcatGrows ==
    ASSUME NEW X, NEW s \in Seq(Seq(X)), NEW e \in Seq(X)
    PROVE  Concat(Append(s, e)) = Concat(s) \o e
<1> DEFINE n == Len(s)
           t == Append(s, e)
<1>0. n \in Nat /\ t \in Seq(Seq(X)) /\ Len(t) = n + 1 /\ t[n + 1] = e
      /\ \A i \in 1..n : t[i] = s[i]
  OBVIOUS
<1> HIDE DEF n, t
<1>1. PICK v : WalksConcat(v, s)
  BY ConcatWalk
<1>2. PICK w : WalksConcat(w, t)
  BY <1>0, ConcatWalk
<1>3. /\ v[0] = <<>> /\ Concat(s) = v[n]
      /\ \A k \in 0..n-1 : v[k + 1] = JoinStep(v[k], s[k + 1])
  BY <1>0, <1>1 DEF WalksConcat, n
<1>4. /\ w[0] = <<>> /\ Concat(t) = w[n + 1]
      /\ \A k \in 0..n : w[k + 1] = JoinStep(w[k], t[k + 1])
  BY <1>0, <1>2 DEF WalksConcat
<1> DEFINE T == {k \in Nat : k <= n => v[k] = w[k]}
<1>5. 0 \in T
  BY <1>3, <1>4
<1>6. ASSUME NEW k \in Nat, k \in T PROVE k + 1 \in T
  <2>1. SUFFICES ASSUME k + 1 <= n PROVE v[k + 1] = w[k + 1]
    OBVIOUS
  <2>2. k \in 0..n-1 /\ k \in 0..n /\ k + 1 \in 1..n /\ v[k] = w[k]
    BY <1>0, <1>6, <2>1
  <2> QED
    BY <1>0, <1>3, <1>4, <2>2
<1>7. Nat \subseteq T
  <2> HIDE DEF T
  <2> QED
    BY <1>5, <1>6, SetInduction
<1>8. v[n] = w[n] /\ w[n + 1] = JoinStep(w[n], e)
  BY <1>0, <1>4, <1>7
<1> QED
  BY <1>3, <1>4, <1>8 DEF t, JoinStep

LEMMA ConcatNothing == Concat(<<>>) = <<>>
<1>1. <<>> \in Seq(Seq({})) /\ Len(<<>>) = 0
  OBVIOUS
<1>2. PICK v : WalksConcat(v, <<>>)
  BY <1>1, ConcatWalk
<1> QED
  BY <1>1, <1>2 DEF WalksConcat

LEMMA KeepIsSeq ==
    ASSUME NEW X, NEW S, NEW s \in Seq(X)
    PROVE  Keep(s, S) \in Seq(X \cap S)
<1> DEFINE T == {t \in Seq(X) : Keep(t, S) \in Seq(X \cap S)}
<1>1. <<>> \in T
  <2>1. Keep(<<>>, S) = <<>> /\ <<>> \in Seq(X \cap S) /\ <<>> \in Seq(X)
    BY KeepNothing
  <2> QED
    BY <2>1
<1>2. ASSUME NEW t \in Seq(X), NEW e \in X, t \in T PROVE Append(t, e) \in T
  <2>1. Keep(Append(t, e), S) = KeepStep(Keep(t, S), e, S)
    BY KeepGrows
  <2>2. \A q \in Seq(X \cap S) : KeepStep(q, e, S) \in Seq(X \cap S)
    <3>1. CASE e \in S
      <4>1. e \in X \cap S
        BY <3>1
      <4>2. \A Y : \A q \in Seq(Y), y \in Y : Append(q, y) \in Seq(Y)
        OBVIOUS
      <4> QED
        BY <3>1, <4>1, <4>2 DEF KeepStep
    <3>2. CASE e \notin S
      BY <3>2 DEF KeepStep
    <3> QED
      BY <3>1, <3>2
  <2>3. Append(t, e) \in Seq(X)
    OBVIOUS
  <2> QED
    BY <1>2, <2>1, <2>2, <2>3
<1>3. Seq(X) \subseteq T
  <2> HIDE DEF T
  <2> QED
    BY <1>1, <1>2, SeqInduction
<1> QED
  BY <1>3

LEMMA KeepSame ==
    ASSUME NEW X, NEW S, NEW T, NEW s \in Seq(X), \A x \in X : x \in S <=> x \in T
    PROVE  Keep(s, S) = Keep(s, T)
<1> DEFINE U == {t \in Seq(X) : Keep(t, S) = Keep(t, T)}
<1>1. <<>> \in U
  BY KeepNothing
<1>2. ASSUME NEW t \in Seq(X), NEW e \in X, t \in U PROVE Append(t, e) \in U
  BY <1>2, KeepGrows DEF KeepStep
<1>3. Seq(X) \subseteq U
  <2> HIDE DEF U
  <2> QED
    BY <1>1, <1>2, SeqInduction
<1> QED
  BY <1>3

LEMMA KeepTwice ==
    ASSUME NEW X, NEW S, NEW T, NEW s \in Seq(X)
    PROVE  Keep(Keep(s, S), T) = Keep(s, S \cap T)
<1> DEFINE U == {t \in Seq(X) : Keep(Keep(t, S), T) = Keep(t, S \cap T)}
<1>1. <<>> \in U
  BY KeepNothing
<1>2. ASSUME NEW t \in Seq(X), NEW e \in X, t \in U PROVE Append(t, e) \in U
  <2>1. Keep(t, S) \in Seq(X)
    <3>1. Keep(t, S) \in Seq(X \cap S)
      BY KeepIsSeq
    <3> QED
      BY <3>1
  <2>2. Keep(Append(t, e), S) = KeepStep(Keep(t, S), e, S)
        /\ Keep(Append(t, e), S \cap T) = KeepStep(Keep(t, S \cap T), e, S \cap T)
    BY KeepGrows
  <2>3. Keep(Append(Keep(t, S), e), T) = KeepStep(Keep(Keep(t, S), T), e, T)
    BY <2>1, KeepGrows
  <2>4. Append(t, e) \in Seq(X)
    OBVIOUS
  <2>5. Keep(Keep(t, S), T) = Keep(t, S \cap T)
    BY <1>2
  <2>6. Keep(Keep(Append(t, e), S), T) = Keep(Append(t, e), S \cap T)
    <3>1. CASE e \notin S
      BY <2>2, <2>5, <3>1 DEF KeepStep
    <3>2. CASE e \in S
      <4>1. Keep(Keep(Append(t, e), S), T) = KeepStep(Keep(t, S \cap T), e, T)
        BY <2>2, <2>3, <2>5, <3>2 DEF KeepStep
      <4> QED
        BY <2>2, <3>2, <4>1 DEF KeepStep
    <3> QED
      BY <3>1, <3>2
  <2> QED
    BY <2>4, <2>6
<1>3. Seq(X) \subseteq U
  <2> HIDE DEF U
  <2> QED
    BY <1>1, <1>2, SeqInduction
<1> QED
  BY <1>3

\* What all belongs to S stays whole.
LEMMA KeepAll ==
    ASSUME NEW S, NEW s \in Seq(S)
    PROVE  Keep(s, S) = s
<1> DEFINE U == {t \in Seq(S) : Keep(t, S) = t}
<1>1. <<>> \in U
  BY KeepNothing
<1>2. ASSUME NEW t \in Seq(S), NEW e \in S, t \in U PROVE Append(t, e) \in U
  BY <1>2, KeepGrows DEF KeepStep
<1>3. Seq(S) \subseteq U
  <2> HIDE DEF U
  <2> QED
    BY <1>1, <1>2, SeqInduction
<1> QED
  BY <1>3

LEMMA AppendJoins ==
    ASSUME NEW X, NEW s \in Seq(X), NEW t \in Seq(X), NEW e \in X
    PROVE  s \o Append(t, e) = Append(s \o t, e)
  OBVIOUS

LEMMA StepJoins ==
    ASSUME NEW X, NEW s \in Seq(X), NEW t \in Seq(X), NEW e \in X, NEW S
    PROVE  KeepStep(s \o t, e, S) = s \o KeepStep(t, e, S)
<1>1. s \o Append(t, e) = Append(s \o t, e)
  BY AppendJoins
<1> QED
  BY <1>1 DEF KeepStep

LEMMA KeepJoins ==
    ASSUME NEW X, NEW S, NEW s \in Seq(X), NEW t \in Seq(X)
    PROVE  Keep(s \o t, S) = Keep(s, S) \o Keep(t, S)
<1> DEFINE U == {u \in Seq(X) : Keep(s \o u, S) = Keep(s, S) \o Keep(u, S)}
<1>0. \A u \in Seq(X) : Keep(u, S) \in Seq(X)
  <2>1. \A u \in Seq(X) : Keep(u, S) \in Seq(X \cap S)
    BY KeepIsSeq
  <2> QED
    BY <2>1
<1>1. <<>> \in U
  <2>1. \A u \in Seq(X) : u \o <<>> = u
    BY ConcatEmptySeq
  <2>2. s \o <<>> = s /\ Keep(s, S) \o <<>> = Keep(s, S)
    BY <1>0, <2>1
  <2>3. Keep(<<>>, S) = <<>> /\ <<>> \in Seq(X)
    BY KeepNothing
  <2> QED
    BY <2>2, <2>3
<1>2. ASSUME NEW u \in Seq(X), NEW e \in X, u \in U PROVE Append(u, e) \in U
  <2>1. s \o Append(u, e) = Append(s \o u, e) /\ s \o u \in Seq(X)
    OBVIOUS
  <2>2. Keep(Append(s \o u, e), S) = KeepStep(Keep(s, S) \o Keep(u, S), e, S)
    BY <1>2, <2>1, KeepGrows
  <2>3. Keep(Append(u, e), S) = KeepStep(Keep(u, S), e, S)
    BY KeepGrows
  <2>4. \A a, b \in Seq(X) : KeepStep(a \o b, e, S) = a \o KeepStep(b, e, S)
    BY StepJoins
  <2>5. Keep(s, S) \in Seq(X) /\ Keep(u, S) \in Seq(X) /\ Append(u, e) \in Seq(X)
    BY <1>0
  <2>6. Keep(s \o Append(u, e), S) = Keep(s, S) \o KeepStep(Keep(u, S), e, S)
    BY <2>1, <2>2, <2>4, <2>5
  <2> QED
    BY <2>3, <2>5, <2>6
<1>3. Seq(X) \subseteq U
  <2> HIDE DEF U
  <2> QED
    BY <1>1, <1>2, SeqInduction
<1> QED
  BY <1>3

\* What a kind selects, out of any set of blocks.
LEMMA OfKindIs ==
    ASSUME NEW X, NEW K, NEW s \in Seq(X)
    PROVE  OfKind(s, K) = Keep(s, {b \in X : b.kind \in K})
<1>1. s \in Seq(ToSet(s)) /\ ToSet(s) \subseteq X
  BY DEF ToSet
<1> DEFINE A == {b \in ToSet(s) : b.kind \in K}
           B == {b \in X : b.kind \in K}
<1>2. \A x \in ToSet(s) : x \in A <=> x \in B
  BY <1>1
<1> HIDE DEF A, B
<1>3. Keep(s, A) = Keep(s, B)
  BY <1>1, <1>2, KeepSame
<1> QED
  BY <1>3 DEF OfKind, A, B

LEMMA OfKindFacts ==
    ASSUME NEW X, NEW K, NEW s \in Seq(X)
    PROVE  /\ OfKind(s, K) \in Seq({b \in X : b.kind \in K})
           /\ OfKind(s, K) \in Seq(X)
<1> DEFINE A == {b \in X : b.kind \in K}
<1>1. OfKind(s, K) = Keep(s, A)
  BY OfKindIs
<1>2. OfKind(s, K) \in Seq(A) /\ OfKind(s, K) \in Seq(X)
  <2>1. OfKind(s, K) \in Seq(X \cap A)
    BY <1>1, KeepIsSeq
  <2>2. X \cap A = A
    OBVIOUS
  <2> QED
    BY <2>1, <2>2
<1> QED
  BY <1>2

LEMMA OfKindTwice ==
    ASSUME NEW X, NEW s \in Seq(X), NEW K, NEW J
    PROVE  OfKind(OfKind(s, K), J) = OfKind(s, K \cap J)
<1> DEFINE A == {b \in X : b.kind \in K}
           B == {b \in X : b.kind \in J}
           C == {b \in X : b.kind \in K \cap J}
<1>1. OfKind(s, K) = Keep(s, A) /\ OfKind(s, K) \in Seq(X)
  BY OfKindIs, OfKindFacts
<1>2. OfKind(OfKind(s, K), J) = Keep(Keep(s, A), B)
  BY <1>1, OfKindIs
<1>3. OfKind(s, K \cap J) = Keep(s, C)
  BY OfKindIs
<1>4. A \cap B = C
  OBVIOUS
<1> HIDE DEF A, B, C
<1> QED
  BY <1>2, <1>3, <1>4, KeepTwice

LEMMA OfNothing == \A K : OfKind(<<>>, K) = <<>>
  BY KeepNothing DEF OfKind

LEMMA OfOneBlock ==
    ASSUME NEW b, NEW K
    PROVE  OfKind(<<b>>, K) = IF b.kind \in K THEN <<b>> ELSE <<>>
<1> DEFINE A == {x \in {b} : x.kind \in K}
<1>1. <<>> \in Seq({b}) /\ b \in {b} /\ <<b>> = Append(<<>>, b) /\ <<b>> \in Seq({b})
  OBVIOUS
<1>2. OfKind(<<b>>, K) = Keep(<<b>>, A)
  BY <1>1, OfKindIs
<1>3. Keep(Append(<<>>, b), A) = KeepStep(<<>>, b, A)
  <2> HIDE DEF A
  <2>1. Keep(Append(<<>>, b), A) = KeepStep(Keep(<<>>, A), b, A)
    BY <1>1, KeepGrows
  <2> QED
    BY <2>1, KeepNothing
<1>4. b \in A <=> b.kind \in K
  OBVIOUS
<1> HIDE DEF A
<1> QED
  BY <1>1, <1>2, <1>3, <1>4 DEF KeepStep

NullBlock == [kind |-> "text", text |-> NullText]

\* Messages whose parts are blocks of B.
IsMessage(m, B) ==
    /\ m.parts \in Seq(B)
    /\ m.form = "null" => m.parts = <<>>

LEMMA ContentIs ==
    ASSUME NEW B, NullBlock \in B, NEW m, IsMessage(m, B)
    PROVE  ContentToBlocks(m) \in Seq(B)
<1>1. CASE m.form = "null"
  <2>1. <<NullBlock>> \in Seq(B)
    OBVIOUS
  <2> QED
    BY <1>1, <2>1 DEF ContentToBlocks, NullBlock
<1>2. CASE m.form # "null"
  <2>1. OfKind(m.parts, KnownBlocks) \in Seq(B)
    BY OfKindFacts DEF IsMessage
  <2> QED
    BY <1>2, <2>1 DEF ContentToBlocks
<1> QED
  BY <1>1, <1>2

\* Whoever keeps texts keeps what was said; whoever keeps images, the images.
LEMMA ContentSays ==
    ASSUME NEW B, NullBlock \in B, NEW m, IsMessage(m, B), NEW K
    PROVE  /\ "text" \in K => Texts(OfKind(ContentToBlocks(m), K)) = Said(m)
           /\ \A J : J \subseteq K /\ J \subseteq {"image_url", "image_data"} =>
                  OfKind(OfKind(ContentToBlocks(m), K), J) = OfKind(m.parts, J)
<1>0. ContentToBlocks(m) \in Seq(B) /\ m.parts \in Seq(B)
  BY ContentIs DEF IsMessage
<1>1. \A J : OfKind(OfKind(ContentToBlocks(m), K), J) = OfKind(ContentToBlocks(m), K \cap J)
  BY <1>0, OfKindTwice
<1>2. CASE m.form = "null"
  <2>1. ContentToBlocks(m) = <<NullBlock>> /\ Said(m) = <<NullText>> /\ m.parts = <<>>
    BY <1>2 DEF ContentToBlocks, NullBlock, Said, IsMessage
  <2>2. NullBlock.kind = "text" /\ NullBlock.text = NullText
    BY DEF NullBlock
  <2>3. ASSUME "text" \in K PROVE Texts(OfKind(ContentToBlocks(m), K)) = Said(m)
    <3>1. OfKind(OfKind(ContentToBlocks(m), K), {"text"}) = <<NullBlock>>
      BY <2>1, <2>2, <2>3, OfOneBlock
    <3>2. Texts(OfKind(ContentToBlocks(m), K)) = [i \in DOMAIN <<NullBlock>> |-> <<NullBlock>>[i].text]
      BY <3>1 DEF Texts, Each
    <3>3. [i \in DOMAIN <<NullBlock>> |-> <<NullBlock>>[i].text] = <<NullText>>
      BY <2>2
    <3> QED
      BY <2>1, <3>2, <3>3
  <2>4. ASSUME NEW J, J \subseteq {"image_url", "image_data"}
        PROVE  OfKind(ContentToBlocks(m), K \cap J) = OfKind(m.parts, J)
    <3>1. "text" \notin K \cap J
      BY <2>4
    <3>2. OfKind(<<NullBlock>>, K \cap J) = <<>>
      BY <2>2, <3>1, OfOneBlock
    <3> QED
      BY <2>1, <3>2, OfNothing
  <2> QED
    BY <1>1, <2>3, <2>4
<1>3. CASE m.form # "null"
  <2>1. ContentToBlocks(m) = OfKind(m.parts, KnownBlocks) /\ Said(m) = Texts(m.parts)
    BY <1>3 DEF ContentToBlocks, Said
  <2>2. \A J : OfKind(OfKind(ContentToBlocks(m), K), J) = OfKind(m.parts, KnownBlocks \cap (K \cap J))
    <3>1. \A J : OfKind(OfKind(m.parts, KnownBlocks), J) = OfKind(m.parts, KnownBlocks \cap J)
      BY <1>0, OfKindTwice
    <3> QED
      BY <1>1, <2>1, <3>1
  <2>3. ASSUME "text" \in K PROVE Texts(OfKind(ContentToBlocks(m), K)) = Said(m)
    <3>1. KnownBlocks \cap (K \cap {"text"}) = {"text"}
      BY <2>3 DEF KnownBlocks
    <3>2. OfKind(OfKind(ContentToBlocks(m), K), {"text"}) = OfKind(m.parts, {"text"})
      BY <2>2, <3>1
    <3> QED
      BY <2>1, <3>2 DEF Texts
  <2>4. ASSUME NEW J, J \subseteq K, J \subseteq {"image_url", "image_data"}
        PROVE  KnownBlocks \cap (K \cap J) = J
    BY <2>4 DEF KnownBlocks
  <2> QED
    BY <2>2, <2>3, <2>4
<1> QED
  BY <1>2, <1>3

LEMMA EntryConveys ==
    ASSUME NEW B, NullBlock \in B, NEW m, IsMessage(m, B),
           NEW K, NEW role, NEW calls, NEW y,
           m.role # "tool" => "text" \in K,
           FromUser(m) => role = "user" /\ Seen(y) \subseteq K,
           m.role = "assistant" => role \in {"assistant", "model"}
    PROVE  Conveys(Entry(role, ContentToBlocks(m), K, calls), m, y)
<1>1. Seen(y) \subseteq {"image_url", "image_data"}
  BY DEF Seen
<1>2. FromUser(m) => OfKind(OfKind(ContentToBlocks(m), K), Seen(y)) = OfKind(m.parts, Seen(y))
  BY <1>1, ContentSays
<1>3. m.role # "tool" => Texts(OfKind(ContentToBlocks(m), K)) = Said(m)
  BY ContentSays
<1> QED
  BY <1>2, <1>3 DEF Conveys, Entry

-----------------------------------------------------------------------------
(* The adapters that tell the conversation message by message *)

\* A selection among the members of a sequence, out of any set they are in.
LEMMA KeepWithin ==
    ASSUME NEW X, NEW s \in Seq(X), NEW S, NEW T,
           \A x \in ToSet(s) : x \in S <=> x \in T
    PROVE  Keep(s, S) = Keep(s, T)
<1>1. s \in Seq(ToSet(s))
  BY DEF ToSet
<1> QED
  BY <1>1, KeepSame

LEMMA MembersAre ==
    ASSUME NEW X, NEW s \in Seq(X)
    PROVE  ToSet(s) \subseteq X
  BY DEF ToSet

\* The messages a prompt consists of.
LEMMA OthersAre ==
    ASSUME NEW M, NEW s \in Seq(M)
    PROVE  /\ Others(s) = Keep(s, {m \in M : m.role # "system"})
           /\ Others(s) \in Seq({m \in M : m.role # "system"})
<1> DEFINE S == {m \in ToSet(s) : ~ IsSystem(m)}
           T == {m \in M : m.role # "system"}
<1>1. \A x \in ToSet(s) : x \in S <=> x \in T
  BY MembersAre DEF IsSystem
<1>2. Others(s) = Keep(s, S)
  BY DEF Others
<1>3. T = M \cap T
  OBVIOUS
<1> HIDE DEF S, T
<1>4. Keep(s, S) = Keep(s, T) /\ Keep(s, T) \in Seq(M \cap T)
  BY <1>1, KeepWithin, KeepIsSeq
<1> QED
  BY <1>2, <1>3, <1>4 DEF T

LEMMA TalkConveyed ==
    ASSUME NEW B, NullBlock \in B, NEW M, \A m \in M : IsMessage(m, B),
           NEW r, r.messages \in Seq(M), NEW y, y # "kiro"
    PROVE  TellsTalk(Body(y, Canonical(r)), r, y)
<1> DEFINE talk == Others(r.messages)
           c == Canonical(r)
           n == Len(talk)
<1>1. n \in Nat /\ DOMAIN talk = 1..n
      /\ \A i \in 1..n : talk[i].role # "system" /\ IsMessage(talk[i], B)
  <2>1. talk \in Seq({m \in M : m.role # "system"})
    BY OthersAre
  <2> HIDE DEF talk
  <2> QED
    BY <2>1
<1>2. /\ DOMAIN c.messages = 1..n /\ c.system = SystemSaid(r)
      /\ \A i \in 1..n : c.messages[i] = MessageToCanonical(talk[i])
  BY <1>1 DEF Canonical, Each, SystemSaid
<1> HIDE DEF talk, c, n
<1>3. \A i \in 1..n : /\ c.messages[i].role = RoleOf(talk[i])
                      /\ c.messages[i].content = ContentToBlocks(talk[i])
  <2>1. \A m : /\ MessageToCanonical(m).role = RoleOf(m)
               /\ MessageToCanonical(m).content = ContentToBlocks(m)
    BY DEF MessageToCanonical
  <2> QED
    BY <1>2, <2>1
<1> DEFINE body == Body(y, c)
<1>4. body.system = c.system
  BY DEF Body, OpenAIBody, AnthropicBody, GoogleBody, GenericBody, ResponsesBody
<1>5. \A i \in 1..n : /\ FromUser(talk[i]) => RoleOf(talk[i]) = "user"
                      /\ talk[i].role = "assistant" => RoleOf(talk[i]) = "assistant"
                      /\ FromUser(talk[i]) \/ talk[i].role \in {"assistant", "tool"}
  BY <1>1 DEF FromUser, RoleOf
<1>6. /\ DOMAIN body.messages = 1..n
      /\ \A i \in 1..n : Conveys(body.messages[i], talk[i], y)
  <2>1. CASE y = "openai"
    <3>1. /\ DOMAIN body.messages = 1..n
          /\ \A i \in 1..n : body.messages[i] =
                 Entry(RoleOf(talk[i]), ContentToBlocks(talk[i]),
                       {"text", "image_url", "image_data"}, c.messages[i].calls)
      BY <1>2, <1>3, <2>1 DEF Body, OpenAIBody, Each
    <3>2. Seen(y) \subseteq {"text", "image_url", "image_data"}
      BY DEF Seen
    <3> QED
      BY <1>1, <1>5, <3>1, <3>2, EntryConveys
  <2>2. CASE y = "anthropic"
    <3>1. /\ DOMAIN body.messages = 1..n
          /\ \A i \in 1..n : body.messages[i] =
                 CASE RoleOf(talk[i]) = "user" ->
                          Entry("user", ContentToBlocks(talk[i]), {"text", "image_url", "image_data"}, <<>>)
                   [] RoleOf(talk[i]) = "assistant" ->
                          Entry("assistant", ContentToBlocks(talk[i]), {"text"}, c.messages[i].calls)
                   [] OTHER -> Entry("user", ContentToBlocks(talk[i]), {"tool_result"}, <<>>)
      BY <1>2, <1>3, <2>2 DEF Body, AnthropicBody, Each
    <3>2. Seen(y) \subseteq {"text", "image_url", "image_data"}
      BY DEF Seen
    <3>3. ASSUME NEW i \in 1..n PROVE Conveys(body.messages[i], talk[i], y)
      <4>1. CASE FromUser(talk[i])
        <5>1. body.messages[i] =
                  Entry("user", ContentToBlocks(talk[i]), {"text", "image_url", "image_data"}, <<>>)
          BY <1>5, <3>1, <4>1
        <5>2. talk[i].role # "assistant"
          BY <4>1 DEF FromUser
        <5> HIDE DEF body
        <5> QED
          BY <1>1, <3>2, <5>1, <5>2, EntryConveys
      <4>2. CASE talk[i].role = "assistant"
        <5>1. body.messages[i] =
                  Entry("assistant", ContentToBlocks(talk[i]), {"text"}, c.messages[i].calls)
          BY <1>5, <3>1, <4>2
        <5>2. ~ FromUser(talk[i])
          BY <4>2 DEF FromUser
        <5> HIDE DEF body
        <5> QED
          BY <1>1, <4>2, <5>1, <5>2, EntryConveys
      <4>3. CASE talk[i].role = "tool"
        <5>1. RoleOf(talk[i]) = "tool" /\ ~ FromUser(talk[i])
          BY <4>3 DEF RoleOf, FromUser
        <5>2. body.messages[i] = Entry("user", ContentToBlocks(talk[i]), {"tool_result"}, <<>>)
          BY <3>1, <5>1
        <5> HIDE DEF body
        <5> QED
          BY <1>1, <4>3, <5>1, <5>2, EntryConveys
      <4> QED
        BY <1>5, <4>1, <4>2, <4>3
    <3> QED
      BY <3>1, <3>3
  <2>3. CASE y = "google"
    <3>1. /\ DOMAIN body.messages = 1..n
          /\ \A i \in 1..n : body.messages[i] =
                 Entry(IF RoleOf(talk[i]) = "assistant" THEN "model" ELSE "user",
                       ContentToBlocks(talk[i]), {"text", "image_data"}, <<>>)
      BY <1>2, <1>3, <2>3 DEF Body, GoogleBody, Each
    <3>2. Seen(y) \subseteq {"text", "image_data"}
      BY <2>3 DEF Seen
    <3> QED
      BY <1>1, <1>5, <3>1, <3>2, EntryConveys
  <2>4. CASE y \notin {"openai", "anthropic", "google"}
    <3>1. body.messages = TextOnly(c)
      BY <2>4 DEF Body, ResponsesBody, GenericBody
    <3>2. /\ DOMAIN body.messages = 1..n
          /\ \A i \in 1..n : body.messages[i] =
                 Entry(RoleOf(talk[i]), ContentToBlocks(talk[i]), {"text"}, <<>>)
      BY <1>2, <1>3, <3>1 DEF TextOnly, Each
    <3>3. Seen(y) \subseteq {"text"}
      BY <2>4 DEF Seen
    <3> QED
      BY <1>1, <1>5, <3>2, <3>3, EntryConveys
  <2> QED
    BY <2>1, <2>2, <2>3, <2>4
<1>7. Len(body.messages) = n
  <2>1. body.messages \in Seq({body.messages[i] : i \in 1..n})
    <3>1. body.messages = [i \in 1..n |-> body.messages[i]]
      BY <1>2 DEF Body, OpenAIBody, AnthropicBody, GoogleBody, GenericBody, ResponsesBody, TextOnly, Each
    <3> QED
      BY <1>1, <3>1
  <2> QED
    BY <1>1, <1>6, <2>1
<1> QED
  BY <1>1, <1>2, <1>4, <1>6, <1>7 DEF TellsTalk, talk, c, n

-----------------------------------------------------------------------------
(* The adapter that tells it at the end *)

LEMMA ConcatIsSeq ==
    ASSUME NEW X, NEW s \in Seq(Seq(X))
    PROVE  Concat(s) \in Seq(X)
<1> DEFINE U == {t \in Seq(Seq(X)) : Concat(t) \in Seq(X)}
<1>1. <<>> \in U
  <2>1. <<>> \in Seq(Seq(X)) /\ <<>> \in Seq(X)
    OBVIOUS
  <2> QED
    BY <2>1, ConcatNothing
<1>2. ASSUME NEW t \in Seq(Seq(X)), NEW e \in Seq(X), t \in U PROVE Append(t, e) \in U
  <2>1. Concat(Append(t, e)) = Concat(t) \o e
    BY ConcatGrows
  <2>2. Concat(t) \in Seq(X)
    BY <1>2
  <2>3. Concat(t) \o e \in Seq(X) /\ Append(t, e) \in Seq(Seq(X))
    BY <2>2
  <2> QED
    BY <2>1, <2>3
<1>3. Seq(Seq(X)) \subseteq U
  <2> HIDE DEF U
  <2> QED
    BY <1>1, <1>2, SeqInduction
<1> QED
  BY <1>3

TextsIn(B) == {b.text : b \in B}

LEMMA TextsAre ==
    ASSUME NEW B, NEW s \in Seq(B)
    PROVE  Texts(s) \in Seq(TextsIn(B))
<1> DEFINE t == OfKind(s, {"text"})
<1>1. t \in Seq(B)
  BY OfKindFacts
<1> HIDE DEF t
<1>2. [i \in DOMAIN t |-> t[i].text] \in Seq(TextsIn(B))
  <2>1. DOMAIN t = 1..Len(t) /\ Len(t) \in Nat /\ \A i \in 1..Len(t) : t[i] \in B
    BY <1>1
  <2>2. \A i \in 1..Len(t) : t[i].text \in TextsIn(B)
    BY <2>1 DEF TextsIn
  <2> QED
    BY <2>1, <2>2
<1> QED
  BY <1>2 DEF Texts, Each, t

LEMMA AppendIs ==
    ASSUME NEW X, NEW s \in Seq(X), NEW e \in X
    PROVE  Append(s, e) = [i \in 1..Len(s)+1 |-> IF i = Len(s) + 1 THEN e ELSE s[i]]
<1>1. Append(s, e) \in Seq(X) /\ Len(Append(s, e)) = Len(s) + 1
      /\ \A i \in 1..Len(s)+1 : Append(s, e)[i] = IF i = Len(s) + 1 THEN e ELSE s[i]
  OBVIOUS
<1>2. \A w \in Seq(X) : w = [i \in 1..Len(w) |-> w[i]]
  OBVIOUS
<1> QED
  BY <1>1, <1>2

TextOf(s) == [i \in DOMAIN s |-> s[i].text]

LEMMA TextOfJoin ==
    ASSUME NEW B, NEW s \in Seq(B), NEW t \in Seq(B)
    PROVE  TextOf(s \o t) = TextOf(s) \o TextOf(t)
<1> DEFINE k == Len(s)
           n == Len(t)
           p == [i \in DOMAIN s |-> s[i].text]
           q == [i \in DOMAIN t |-> t[i].text]
           u == s \o t
<1>1. /\ k \in Nat /\ n \in Nat /\ DOMAIN s = 1..k /\ DOMAIN t = 1..n
      /\ DOMAIN u = 1..k+n
      /\ \A i \in 1..k : u[i] = s[i]
      /\ \A i \in k+1..k+n : u[i] = t[i - k]
  <2>1. Len(u) = k + n /\ u \in Seq(B)
    OBVIOUS
  <2>2. \A i \in 1..k+n : u[i] = IF i <= k THEN s[i] ELSE t[i - k]
    OBVIOUS
  <2> QED
    BY <2>1, <2>2
<1> HIDE DEF u, k, n
<1>2. /\ p \in Seq(TextsIn(B)) /\ q \in Seq(TextsIn(B)) /\ Len(p) = k /\ Len(q) = n
      /\ \A i \in 1..k : p[i] = s[i].text
      /\ \A i \in 1..n : q[i] = t[i].text
  <2>1. \A i \in 1..k : s[i] \in B
    BY <1>1 DEF k
  <2>2. \A i \in 1..n : t[i] \in B
    BY <1>1 DEF n
  <2>3. (\A i \in 1..k : s[i].text \in TextsIn(B)) /\ (\A i \in 1..n : t[i].text \in TextsIn(B))
    BY <2>1, <2>2 DEF TextsIn
  <2> QED
    BY <1>1, <2>3
<1> HIDE DEF p, q
<1>3. /\ p \o q \in Seq(TextsIn(B)) /\ Len(p \o q) = k + n
      /\ \A i \in 1..k+n : (p \o q)[i] = IF i <= k THEN p[i] ELSE q[i - k]
  BY <1>2, ConcatProperties
<1>4. ASSUME NEW i \in 1..k+n PROVE (p \o q)[i] = u[i].text
  <2>1. CASE i <= k
    <3>1. i \in 1..k
      BY <1>1, <2>1
    <3> QED
      BY <1>1, <1>2, <1>3, <2>1, <3>1
  <2>2. CASE ~ i <= k
    <3>1. i \in k+1..k+n /\ i - k \in 1..n
      BY <1>1, <2>2
    <3> QED
      BY <1>1, <1>2, <1>3, <2>2, <3>1
  <2> QED
    BY <2>1, <2>2
<1>5. p \o q = [i \in 1..k+n |-> u[i].text]
  <2>1. \A w \in Seq(TextsIn(B)) : w = [i \in 1..Len(w) |-> w[i]]
    OBVIOUS
  <2>2. p \o q = [i \in 1..k+n |-> (p \o q)[i]]
    BY <1>3, <2>1
  <2> QED
    BY <1>4, <2>2
<1> QED
  BY <1>1, <1>5 DEF p, q, u, TextOf

LEMMA TextsJoin ==
    ASSUME NEW B, NEW s \in Seq(B), NEW t \in Seq(B)
    PROVE  Texts(s \o t) = Texts(s) \o Texts(t)
<1> DEFINE A == {b \in B : b.kind \in {"text"}}
<1>1. s \o t \in Seq(B)
  OBVIOUS
<1>2. /\ OfKind(s, {"text"}) = Keep(s, A) /\ OfKind(t, {"text"}) = Keep(t, A)
      /\ OfKind(s \o t, {"text"}) = Keep(s \o t, A)
  BY <1>1, OfKindIs
<1>3. OfKind(s, {"text"}) \in Seq(B) /\ OfKind(t, {"text"}) \in Seq(B)
  BY OfKindFacts
<1> HIDE DEF A
<1>4. OfKind(s \o t, {"text"}) = OfKind(s, {"text"}) \o OfKind(t, {"text"})
  BY <1>2, KeepJoins
<1> DEFINE a == OfKind(s, {"text"})
           b == OfKind(t, {"text"})
<1>a. a \in Seq(B) /\ b \in Seq(B)
  BY <1>3
<1> HIDE DEF a, b
<1>5. TextOf(a \o b) = TextOf(a) \o TextOf(b)
  BY <1>a, TextOfJoin
<1> QED
  BY <1>4, <1>5 DEF Texts, Each, TextOf, a, b

\* Texts made blocks are these texts.
LEMMA TextsOfTexts ==
    ASSUME NEW X, NEW s \in Seq(X)
    PROVE  Texts(Each(LAMBDA t : [kind |-> "text", text |-> t], s)) = s
<1> DEFINE Y == {[kind |-> "text", text |-> t] : t \in X}
           u == [i \in DOMAIN s |-> [kind |-> "text", text |-> s[i]]]
<1>1. u \in Seq(Y) /\ DOMAIN u = DOMAIN s /\ \A i \in DOMAIN s : u[i].text = s[i]
  <2>1. DOMAIN s = 1..Len(s) /\ Len(s) \in Nat /\ \A i \in 1..Len(s) : s[i] \in X
    OBVIOUS
  <2> QED
    BY <2>1
<1>2. OfKind(u, {"text"}) = u
  <2>1. OfKind(u, {"text"}) = Keep(u, {y \in Y : y.kind \in {"text"}})
    BY <1>1, OfKindIs
  <2>2. {y \in Y : y.kind \in {"text"}} = Y
    OBVIOUS
  <2> HIDE DEF Y, u
  <2> QED
    BY <1>1, <2>1, <2>2, KeepAll
<1>3. [i \in DOMAIN u |-> u[i].text] = s
  <2> HIDE DEF u
  <2>1. [i \in DOMAIN u |-> u[i].text] = [i \in DOMAIN s |-> s[i]]
    BY <1>1
  <2> QED
    BY <2>1
<1>4. Each(LAMBDA t : [kind |-> "text", text |-> t], s) = u
  BY DEF Each
<1> HIDE DEF u
<1> QED
  BY <1>2, <1>3, <1>4 DEF Texts, Each

\* The texts of a list of messages, one after the other.
Spoken(ms) == [i \in DOMAIN ms |-> OfKind(ContentToBlocks(ms[i]), {"text"})]

LEMMA SpokenSays ==
    ASSUME NEW B, NullBlock \in B, NEW M, \A m \in M : IsMessage(m, B), NEW s \in Seq(M)
    PROVE  /\ Concat(Spoken(s)) \in Seq(B)
           /\ Texts(Concat(Spoken(s))) = Concat(Each(Said, s))
<1> DEFINE Saying(t) == [i \in DOMAIN t |-> Said(t[i])]
           P(t) == /\ Spoken(t) \in Seq(Seq(B))
                   /\ Saying(t) \in Seq(Seq(TextsIn(B)))
                   /\ Texts(Concat(Spoken(t))) = Concat(Saying(t))
           U == {t \in Seq(M) : P(t)}
<1>1. <<>> \in U
  <2>1. Spoken(<<>>) = <<>> /\ Saying(<<>>) = <<>>
    BY DEF Spoken
  <2>2. Texts(<<>>) = <<>>
    BY OfNothing DEF Texts, Each
  <2>3. \A X : <<>> \in Seq(X)
    OBVIOUS
  <2> HIDE DEF Saying
  <2> QED
    BY <2>1, <2>2, <2>3, ConcatNothing
<1>2. ASSUME NEW t \in Seq(M), NEW e \in M, t \in U PROVE Append(t, e) \in U
  <2> DEFINE x == OfKind(ContentToBlocks(e), {"text"})
  <2>1. x \in Seq(B) /\ Texts(x) = Said(e)
    <3>1. IsMessage(e, B)
      OBVIOUS
    <3>2. ContentToBlocks(e) \in Seq(B)
      BY <3>1, ContentIs
    <3> QED
      BY <3>1, <3>2, ContentSays, OfKindFacts
  <2>2. Said(e) \in Seq(TextsIn(B))
    BY <2>1, TextsAre
  <2>3. Spoken(Append(t, e)) = Append(Spoken(t), x) /\ Saying(Append(t, e)) = Append(Saying(t), Said(e))
    <3> DEFINE n == Len(t)
               v == Append(t, e)
    <3>1. n \in Nat /\ DOMAIN t = 1..n /\ DOMAIN v = 1..n+1 /\ v[n + 1] = e /\ \A i \in 1..n : v[i] = t[i]
      OBVIOUS
    <3> HIDE DEF n, v
    <3>2. Spoken(t) \in Seq(Seq(B)) /\ DOMAIN Spoken(t) = 1..n /\ Len(Spoken(t)) = n
          /\ Saying(t) \in Seq(Seq(TextsIn(B))) /\ DOMAIN Saying(t) = 1..n /\ Len(Saying(t)) = n
      BY <1>2, <3>1 DEF Spoken
    <3>3. Spoken(v) = Append(Spoken(t), x)
      <4>1. Spoken(v) = [i \in 1..n+1 |-> IF i = n + 1 THEN x ELSE Spoken(t)[i]]
        BY <3>1 DEF Spoken
      <4> HIDE DEF x, Saying
      <4> QED
        BY <2>1, <3>2, <4>1, AppendIs
    <3>4. Saying(v) = Append(Saying(t), Said(e))
      <4>1. Saying(v) = [i \in 1..n+1 |-> IF i = n + 1 THEN Said(e) ELSE Saying(t)[i]]
        BY <3>1
      <4> HIDE DEF x, Saying
      <4> QED
        BY <2>2, <3>2, <4>1, AppendIs
    <3> QED
      BY <3>3, <3>4 DEF v
  <2> HIDE DEF x, Saying
  <2>4. Spoken(t) \in Seq(Seq(B)) /\ Saying(t) \in Seq(Seq(TextsIn(B)))
        /\ Texts(Concat(Spoken(t))) = Concat(Saying(t))
    BY <1>2
  <2>5. Concat(Append(Spoken(t), x)) = Concat(Spoken(t)) \o x
        /\ Concat(Append(Saying(t), Said(e))) = Concat(Saying(t)) \o Said(e)
    BY <2>1, <2>2, <2>4, ConcatGrows
  <2>6. Concat(Spoken(t)) \in Seq(B)
    BY <2>4, ConcatIsSeq
  <2>7. Texts(Concat(Spoken(t)) \o x) = Concat(Saying(t)) \o Said(e)
    BY <2>1, <2>4, <2>6, TextsJoin
  <2>8. Append(Spoken(t), x) \in Seq(Seq(B)) /\ Append(Saying(t), Said(e)) \in Seq(Seq(TextsIn(B)))
        /\ Append(t, e) \in Seq(M)
    BY <2>1, <2>2, <2>4
  <2> QED
    BY <2>3, <2>5, <2>7, <2>8
<1>3. Seq(M) \subseteq U
  <2> HIDE DEF U
  <2> QED
    BY <1>1, <1>2, SeqInduction
<1>4. P(s)
  BY <1>3
<1>5. Each(Said, s) = Saying(s)
  BY DEF Each
<1> HIDE DEF Saying
<1> QED
  BY <1>4, <1>5, ConcatIsSeq

\* Who speaks, among messages and among canonical ones.
LEMMA SpeakersAre ==
    ASSUME NEW M, NEW s \in Seq(M)
    PROVE  /\ FromUsers(s) = Keep(s, {m \in M : FromUser(m)})
           /\ Answering(s) = Keep(s, {m \in M : m.role \in {"assistant", "tool"}})
           /\ ByUser(s) = Keep(s, {m \in M : m.role = "user"})
           /\ NotByUser(s) = Keep(s, {m \in M : m.role # "user"})
           /\ FromUsers(s) \in Seq(M)
           /\ Answering(s) \in Seq({m \in M : m.role \in {"assistant", "tool"}})
<1>0. ToSet(s) \subseteq M
  BY MembersAre
<1>1. FromUsers(s) = Keep(s, {m \in M : FromUser(m)})
  <2> DEFINE S == {m \in ToSet(s) : FromUser(m)}
             T == {m \in M : FromUser(m)}
  <2>1. \A x \in ToSet(s) : x \in S <=> x \in T
    BY <1>0
  <2> HIDE DEF S, T
  <2>2. Keep(s, S) = Keep(s, T)
    BY <2>1, KeepWithin
  <2> QED
    BY <2>2 DEF FromUsers, S, T
<1>2. Answering(s) = Keep(s, {m \in M : m.role \in {"assistant", "tool"}})
  <2> DEFINE S == {m \in ToSet(s) : m.role \in {"assistant", "tool"}}
             T == {m \in M : m.role \in {"assistant", "tool"}}
  <2>1. \A x \in ToSet(s) : x \in S <=> x \in T
    BY <1>0
  <2> HIDE DEF S, T
  <2>2. Keep(s, S) = Keep(s, T)
    BY <2>1, KeepWithin
  <2> QED
    BY <2>2 DEF Answering, S, T
<1>3. ByUser(s) = Keep(s, {m \in M : m.role = "user"})
  <2> DEFINE S == {m \in ToSet(s) : m.role = "user"}
             T == {m \in M : m.role = "user"}
  <2>1. \A x \in ToSet(s) : x \in S <=> x \in T
    BY <1>0
  <2> HIDE DEF S, T
  <2>2. Keep(s, S) = Keep(s, T)
    BY <2>1, KeepWithin
  <2> QED
    BY <2>2 DEF ByUser, S, T
<1>4. NotByUser(s) = Keep(s, {m \in M : m.role # "user"})
  <2> DEFINE S == {m \in ToSet(s) : m.role # "user"}
             T == {m \in M : m.role # "user"}
  <2>1. \A x \in ToSet(s) : x \in S <=> x \in T
    BY <1>0
  <2> HIDE DEF S, T
  <2>2. Keep(s, S) = Keep(s, T)
    BY <2>1, KeepWithin
  <2> QED
    BY <2>2 DEF NotByUser, S, T
<1>5. FromUsers(s) \in Seq(M)
  <2>1. FromUsers(s) \in Seq(M \cap {m \in M : FromUser(m)})
    BY <1>1, KeepIsSeq
  <2> QED
    BY <2>1
<1>6. Answering(s) \in Seq({m \in M : m.role \in {"assistant", "tool"}})
  <2> DEFINE T == {m \in M : m.role \in {"assistant", "tool"}}
  <2>1. M \cap T = T
    OBVIOUS
  <2> HIDE DEF T
  <2>2. Keep(s, T) \in Seq(T)
    BY <2>1, KeepIsSeq
  <2> QED
    BY <1>2, <2>2 DEF T
<1> QED
  BY <1>1, <1>2, <1>3, <1>4, <1>5, <1>6

CanonicalTalk(s) == [i \in DOMAIN s |-> MessageToCanonical(s[i])]

LEMMA CanonicalGrows ==
    ASSUME NEW M, NEW s \in Seq(M), NEW e \in M
    PROVE  /\ CanonicalTalk(s) \in Seq({MessageToCanonical(m) : m \in M})
           /\ CanonicalTalk(Append(s, e)) = Append(CanonicalTalk(s), MessageToCanonical(e))
<1> DEFINE n == Len(s)
           v == Append(s, e)
           C == {MessageToCanonical(m) : m \in M}
<1>1. n \in Nat /\ DOMAIN s = 1..n /\ DOMAIN v = 1..n+1 /\ v[n + 1] = e
      /\ \A i \in 1..n : v[i] = s[i] /\ s[i] \in M
  OBVIOUS
<1>2. MessageToCanonical(e) \in C
  OBVIOUS
<1> HIDE DEF n, v
<1>3. CanonicalTalk(s) \in Seq(C) /\ DOMAIN CanonicalTalk(s) = 1..n /\ Len(CanonicalTalk(s)) = n
  <2>1. \A i \in 1..n : MessageToCanonical(s[i]) \in C
    BY <1>1
  <2> HIDE DEF C
  <2> QED
    BY <1>1, <2>1 DEF CanonicalTalk
<1>4. CanonicalTalk(v) = [i \in 1..n+1 |-> IF i = n + 1 THEN MessageToCanonical(e) ELSE CanonicalTalk(s)[i]]
  BY <1>1 DEF CanonicalTalk
<1> HIDE DEF C
<1>5. CanonicalTalk(v) = Append(CanonicalTalk(s), MessageToCanonical(e))
  BY <1>2, <1>3, <1>4, AppendIs
<1> QED
  BY <1>3, <1>5 DEF C, v

\* Who said what is the same after the translation.
LEMMA SpeakersStay ==
    ASSUME NEW M, NEW s \in Seq(M)
    PROVE  /\ ByUser(CanonicalTalk(Others(s))) = CanonicalTalk(FromUsers(s))
           /\ NotByUser(CanonicalTalk(Others(s))) = CanonicalTalk(Answering(s))
<1> DEFINE N == {m \in M : m.role # "system"}
           C == {MessageToCanonical(m) : m \in M}
           CU == {c \in C : c.role = "user"}
           CA == {c \in C : c.role # "user"}
           MU == {m \in M : FromUser(m)}
           MA == {m \in M : m.role \in {"assistant", "tool"}}
           P(t) == /\ Keep(CanonicalTalk(Keep(t, N)), CU) = CanonicalTalk(Keep(t, MU))
                   /\ Keep(CanonicalTalk(Keep(t, N)), CA) = CanonicalTalk(Keep(t, MA))
           U == {t \in Seq(M) : P(t)}
<1>a. \A t \in Seq(M) : \A S : Keep(t, S) \in Seq(M)
  <2>1. \A t \in Seq(M) : \A S : Keep(t, S) \in Seq(M \cap S)
    BY KeepIsSeq
  <2>2. \A S : Seq(M \cap S) \subseteq Seq(M)
    OBVIOUS
  <2> QED
    BY <2>1, <2>2
<1>b. \A t \in Seq(M) : CanonicalTalk(t) \in Seq(C)
  <2>1. ASSUME NEW t \in Seq(M) PROVE CanonicalTalk(t) \in Seq(C)
    <3>1. DOMAIN t = 1..Len(t) /\ Len(t) \in Nat /\ \A i \in 1..Len(t) : t[i] \in M
      OBVIOUS
    <3>2. \A i \in 1..Len(t) : MessageToCanonical(t[i]) \in C
      BY <3>1
    <3> HIDE DEF C
    <3> QED
      BY <3>1, <3>2 DEF CanonicalTalk
  <2> QED
    BY <2>1
<1>1. <<>> \in U
  <2>1. CanonicalTalk(<<>>) = <<>> /\ <<>> \in Seq(M)
    BY DEF CanonicalTalk
  <2>2. \A S : Keep(<<>>, S) = <<>>
    BY KeepNothing
  <2> HIDE DEF N, CU, CA, MU, MA
  <2> QED
    BY <2>1, <2>2
<1>2. ASSUME NEW t \in Seq(M), NEW e \in M, t \in U PROVE Append(t, e) \in U
  <2> DEFINE x == MessageToCanonical(e)
  <2>1. /\ x \in C /\ x.role = RoleOf(e)
        /\ x \in CU <=> RoleOf(e) = "user"
        /\ x \in CA <=> RoleOf(e) # "user"
    <3>1. x \in C
      OBVIOUS
    <3>2. x.role = RoleOf(e)
      BY DEF MessageToCanonical
    <3> HIDE DEF x, C
    <3> QED
      BY <3>1, <3>2
  <2>2. /\ e \in N <=> e.role # "system"
        /\ e \in MU <=> FromUser(e)
        /\ e \in MA <=> e.role \in {"assistant", "tool"}
    OBVIOUS
  <2>3. P(t) /\ Append(t, e) \in Seq(M)
    BY <1>2
  <2> HIDE DEF x, C, CU, CA, N, MU, MA
  <2>4. \A S : Keep(Append(t, e), S) = KeepStep(Keep(t, S), e, S)
    BY KeepGrows
  <2>5. \A S : CanonicalTalk(Append(Keep(t, S), e)) = Append(CanonicalTalk(Keep(t, S)), x)
    BY <1>a, CanonicalGrows DEF x
  <2>6. \A S : Keep(Append(CanonicalTalk(Keep(t, N)), x), S) = KeepStep(Keep(CanonicalTalk(Keep(t, N)), S), x, S)
    <3>1. CanonicalTalk(Keep(t, N)) \in Seq(C)
      BY <1>a, <1>b
    <3> QED
      BY <2>1, <3>1, KeepGrows
  <2>7. P(Append(t, e))
    <3>1. CASE e.role = "system"
      <4>1. ~ FromUser(e) /\ e \notin MA /\ e \notin N /\ e \notin MU
        BY <2>2, <3>1 DEF FromUser
      <4>2. \A S \in {N, MU, MA} : Keep(Append(t, e), S) = Keep(t, S)
        BY <2>4, <4>1 DEF KeepStep
      <4> QED
        BY <2>3, <4>2
    <3>2. CASE FromUser(e)
      <4>1. RoleOf(e) = "user" /\ e \in N /\ e \in MU /\ e \notin MA /\ x \in CU /\ x \notin CA
        BY <2>1, <2>2, <3>2 DEF FromUser, RoleOf
      <4>2. /\ Keep(Append(t, e), N) = Append(Keep(t, N), e)
            /\ Keep(Append(t, e), MU) = Append(Keep(t, MU), e)
            /\ Keep(Append(t, e), MA) = Keep(t, MA)
        BY <2>4, <4>1 DEF KeepStep
      <4>3. /\ Keep(Append(CanonicalTalk(Keep(t, N)), x), CU) = Append(Keep(CanonicalTalk(Keep(t, N)), CU), x)
            /\ Keep(Append(CanonicalTalk(Keep(t, N)), x), CA) = Keep(CanonicalTalk(Keep(t, N)), CA)
        BY <2>6, <4>1 DEF KeepStep
      <4> QED
        BY <2>3, <2>5, <4>2, <4>3
    <3>3. CASE e.role \in {"assistant", "tool"}
      <4>1. RoleOf(e) # "user" /\ e \in N /\ e \notin MU /\ e \in MA /\ x \notin CU /\ x \in CA
        BY <2>1, <2>2, <3>3 DEF FromUser, RoleOf
      <4>2. /\ Keep(Append(t, e), N) = Append(Keep(t, N), e)
            /\ Keep(Append(t, e), MU) = Keep(t, MU)
            /\ Keep(Append(t, e), MA) = Append(Keep(t, MA), e)
        BY <2>4, <4>1 DEF KeepStep
      <4>3. /\ Keep(Append(CanonicalTalk(Keep(t, N)), x), CU) = Keep(CanonicalTalk(Keep(t, N)), CU)
            /\ Keep(Append(CanonicalTalk(Keep(t, N)), x), CA) = Append(Keep(CanonicalTalk(Keep(t, N)), CA), x)
        BY <2>6, <4>1 DEF KeepStep
      <4> QED
        BY <2>3, <2>5, <4>2, <4>3
    <3> QED
      BY <3>1, <3>2, <3>3 DEF FromUser
  <2> QED
    BY <2>3, <2>7
<1>3. Seq(M) \subseteq U
  <2> HIDE DEF U
  <2> QED
    BY <1>1, <1>2, SeqInduction
<1>4. P(s)
  BY <1>3
<1>5. Others(s) = Keep(s, N) /\ FromUsers(s) = Keep(s, MU) /\ Answering(s) = Keep(s, MA)
  BY OthersAre, SpeakersAre
<1>6. CanonicalTalk(Keep(s, N)) \in Seq(C)
  BY <1>a, <1>b
<1>7. /\ ByUser(CanonicalTalk(Keep(s, N))) = Keep(CanonicalTalk(Keep(s, N)), CU)
      /\ NotByUser(CanonicalTalk(Keep(s, N))) = Keep(CanonicalTalk(Keep(s, N)), CA)
  <2> HIDE DEF N, C
  <2> QED
    BY <1>6, SpeakersAre
<1> HIDE DEF N, C, CU, CA, MU, MA
<1> QED
  BY <1>4, <1>5, <1>7

LEMMA TalkIsLast ==
    ASSUME NEW B, NullBlock \in B, NEW M, \A m \in M : IsMessage(m, B),
           NEW r, r.messages \in Seq(M)
    PROVE  TellsLast(Body("kiro", Canonical(r)), r)
<1> DEFINE ms == r.messages
           c == Canonical(r)
           blocks == Each(LAMBDA t : [kind |-> "text", text |-> t], c.system)
           current == blocks \o UserTexts(c.messages)
           history == Each(LAMBDA m : Entry(IF m.role = "tool" THEN "user" ELSE m.role, m.content, {"text"}, <<>>),
                           NotByUser(c.messages))
           last == [role |-> "user", calls |-> <<>>,
                    content |-> IF blocks = <<>> /\ ByUser(c.messages) = <<>>
                                THEN <<Greeting>> ELSE current]
           others == Answering(ms)
           n == Len(others)
           W == B \cup {[kind |-> "text", text |-> t] : t \in TextsIn(B)}
<1>1. c.messages = CanonicalTalk(Others(ms)) /\ c.system = SystemSaid(r)
  BY DEF Canonical, CanonicalTalk, Each, SystemSaid
<1>2. Body("kiro", c).messages = Append(history, last)
  BY DEF Body, KiroBody
<1>3. /\ n \in Nat /\ DOMAIN others = 1..n
      /\ \A i \in 1..n : IsMessage(others[i], B) /\ others[i].role \in {"assistant", "tool"}
  <2>1. others \in Seq({m \in M : m.role \in {"assistant", "tool"}})
    BY SpeakersAre
  <2> HIDE DEF others
  <2> QED
    BY <2>1
<1>4. NotByUser(c.messages) = CanonicalTalk(others) /\ ByUser(c.messages) = CanonicalTalk(FromUsers(ms))
  <2>1. /\ ByUser(CanonicalTalk(Others(ms))) = CanonicalTalk(FromUsers(ms))
        /\ NotByUser(CanonicalTalk(Others(ms))) = CanonicalTalk(Answering(ms))
    BY SpeakersStay
  <2> HIDE DEF c
  <2> QED
    BY <1>1, <2>1
<1>5. /\ DOMAIN history = 1..n
      /\ \A i \in 1..n :
             history[i] = Entry(IF RoleOf(others[i]) = "tool" THEN "user" ELSE RoleOf(others[i]),
                                ContentToBlocks(others[i]), {"text"}, <<>>)
  <2>1. /\ DOMAIN CanonicalTalk(others) = 1..n
        /\ \A i \in 1..n : /\ CanonicalTalk(others)[i].role = RoleOf(others[i])
                           /\ CanonicalTalk(others)[i].content = ContentToBlocks(others[i])
    BY <1>3 DEF CanonicalTalk, MessageToCanonical
  <2> HIDE DEF others, c, n
  <2> QED
    BY <1>4, <2>1 DEF Each
<1>6. \A i \in 1..n : /\ Texts(history[i].content) = Said(others[i])
                      /\ others[i].role = "assistant" => history[i].role = "assistant"
  <2>1. \A i \in 1..n : Texts(OfKind(ContentToBlocks(others[i]), {"text"})) = Said(others[i])
    <3> HIDE DEF others, n
    <3> QED
      BY <1>3, ContentSays
  <2> HIDE DEF others, history, n
  <2>2. \A i \in 1..n : others[i].role = "assistant" => RoleOf(others[i]) = "assistant"
    BY DEF RoleOf
  <2> QED
    BY <1>5, <2>1, <2>2 DEF Entry
<1>7. Texts(current) = SystemSaid(r) \o UserSaid(ms)
  <2>1. SystemSaid(r) \in Seq(TextsIn(B))
    <3> DEFINE q == Systems(ms)
               p == [i \in DOMAIN q |-> Texts(q[i].parts)]
    <3>1. q \in Seq(M)
      <4> DEFINE S == {m \in ToSet(ms) : IsSystem(m)}
      <4>1. Keep(ms, S) \in Seq(M \cap S)
        <5> HIDE DEF S
        <5> QED
          BY KeepIsSeq
      <4>2. q = Keep(ms, S)
        BY DEF Systems
      <4> HIDE DEF S, q
      <4> QED
        BY <4>1, <4>2
    <3> HIDE DEF q
    <3>2. \A i \in DOMAIN q : Texts(q[i].parts) \in Seq(TextsIn(B))
      <4>1. \A i \in DOMAIN q : q[i].parts \in Seq(B)
        BY <3>1 DEF IsMessage
      <4> QED
        BY <4>1, TextsAre
    <3>3. p \in Seq(Seq(TextsIn(B)))
      BY <3>1, <3>2
    <3> QED
      BY <3>3, ConcatIsSeq DEF SystemSaid, Each, q
  <2>2. blocks \in Seq(W) /\ Texts(blocks) = SystemSaid(r)
    <3>1. c.system \in Seq(TextsIn(B))
      BY <1>1, <2>1
    <3> DEFINE sys == c.system
    <3>2. Texts(Each(LAMBDA t : [kind |-> "text", text |-> t], sys)) = sys
      <4> HIDE DEF sys
      <4>1. sys \in Seq(TextsIn(B))
        BY <3>1 DEF sys
      <4> QED
        BY <4>1, TextsOfTexts
    <3>3. blocks \in Seq(W)
      <4>1. blocks = [i \in DOMAIN sys |-> [kind |-> "text", text |-> sys[i]]]
        BY DEF Each
      <4>2. DOMAIN sys = 1..Len(sys) /\ Len(sys) \in Nat /\ \A i \in 1..Len(sys) : sys[i] \in TextsIn(B)
        BY <3>1
      <4> HIDE DEF sys, blocks
      <4>3. \A i \in 1..Len(sys) : [kind |-> "text", text |-> sys[i]] \in W
        BY <4>2
      <4> QED
        BY <4>1, <4>2, <4>3
    <3> QED
      BY <1>1, <3>2, <3>3
  <2>3. /\ UserTexts(c.messages) \in Seq(B)
        /\ Texts(UserTexts(c.messages)) = UserSaid(ms)
    <3> DEFINE us == FromUsers(ms)
    <3>1. us \in Seq(M)
      BY SpeakersAre
    <3>2. UserTexts(c.messages) = Concat(Spoken(us))
      <4>1. UserTexts(c.messages) = Concat(Each(LAMBDA m : OfKind(m.content, {"text"}), CanonicalTalk(us)))
        BY <1>4 DEF UserTexts
      <4> HIDE DEF us
      <4>2. Each(LAMBDA m : OfKind(m.content, {"text"}), CanonicalTalk(us)) = Spoken(us)
        BY DEF Each, CanonicalTalk, Spoken, MessageToCanonical
      <4> QED
        BY <4>1, <4>2
    <3>3. Texts(Concat(Spoken(us))) = Concat(Each(Said, us)) /\ Concat(Spoken(us)) \in Seq(B)
      <4> HIDE DEF us
      <4> QED
        BY <3>1, SpokenSays
    <3> QED
      BY <3>2, <3>3 DEF UserSaid
  <2> DEFINE ut == UserTexts(c.messages)
  <2>4. ut \in Seq(W)
    <3> HIDE DEF ut
    <3>1. ut \in Seq(B) /\ B \subseteq W
      BY <2>3 DEF ut
    <3> HIDE DEF W
    <3> QED
      BY <3>1
  <2> HIDE DEF blocks, W, ut
  <2>5. Texts(blocks \o ut) = Texts(blocks) \o Texts(ut)
    BY <2>2, <2>4, TextsJoin
  <2> QED
    BY <2>2, <2>3, <2>5 DEF ut
<1>8. SystemSaid(r) \o UserSaid(ms) # <<>> => Texts(last.content) = SystemSaid(r) \o UserSaid(ms)
  <2>1. Texts(<<>>) = <<>>
    BY OfNothing DEF Texts, Each
  <2>2. current # <<>> => last.content = current
    <3>1. ByUser(c.messages) = <<>> => UserTexts(c.messages) = <<>>
      BY ConcatNothing DEF UserTexts, Each
    <3> HIDE DEF c, blocks
    <3>2. blocks = <<>> /\ ByUser(c.messages) = <<>> => current = <<>>
      BY <3>1
    <3> QED
      BY <3>2
  <2> HIDE DEF current, last
  <2> QED
    BY <1>7, <2>1, <2>2
<1> HIDE DEF history, last, others, c
<1>9. /\ Len(Append(history, last)) = n + 1
      /\ Last(Append(history, last)) = last
      /\ \A i \in 1..n : Append(history, last)[i] = history[i]
  <2> DEFINE Z == {history[i] : i \in 1..n} \cup {last}
  <2>1. history = [i \in 1..n |-> history[i]]
    BY <1>5 DEF history, Each
  <2>2. history \in Seq(Z) /\ Len(history) = n /\ last \in Z
    BY <1>3, <1>5, <2>1
  <2> HIDE DEF Z
  <2>3. Append(history, last) \in Seq(Z) /\ Len(Append(history, last)) = n + 1
        /\ Append(history, last)[n + 1] = last
        /\ \A i \in 1..n : Append(history, last)[i] = history[i]
    BY <1>3, <2>2
  <2> QED
    BY <2>3 DEF Last
<1> QED
  BY <1>2, <1>3, <1>6, <1>8, <1>9 DEF TellsLast, others, c

-----------------------------------------------------------------------------
(* What is posted *)

\* A body is the translation of the request that is being served.
PromptInv ==
    /\ pc \notin {"idle", "streaming", "passed", "media"} => req \in Requests
    /\ pc \in {"posted", "waiting"} => upstream.body = Body(upstream.type, Canonical(req))

LEMMA PostedBody ==
    \A p, m, k : Post(p, m, k).body = Body(Post(p, m, k).type, Canonical(req))
  BY DEF Post

LEMMA PromptStep ==
    ASSUME PromptInv, [GatewayNext]_gatewayVars
    PROVE  PromptInv'
<1>1. CASE Panic \/ Refuse \/ Disappeared \/ NotConnected \/ Succeed \/ Abandon \/ Passed
  <2>1. pc' = "idle"
    BY <1>1 DEF Panic, Refuse, Disappeared, NotConnected, Succeed, Abandon, Passed, HandlerDone
  <2> QED
    BY <2>1 DEF PromptInv
<1>2. CASE Admin \/ Streamed \/ Logged \/ UNCHANGED gatewayVars
  <2>1. UNCHANGED <<pc, req, upstream>>
    BY <1>2 DEF Admin, Reload, UpdateTier, RemoveProvider, AddProvider, Edit, FollowEdit,
                Streamed, Logged, gatewayVars, handlerVars
  <2> QED
    BY <2>1 DEF PromptInv
<1>3. ASSUME NEW r \in Requests, Arrive(r) PROVE PromptInv'
  <2>1. (pc' = "parsed" /\ req' = r) \/ UNCHANGED <<pc, req, upstream>>
    BY <1>3 DEF Arrive, handlerVars
  <2> QED
    BY <2>1 DEF PromptInv
<1>4. CASE Connected \/ StreamOver \/ PassThrough \/ PassMedia
  <2>1. pc' \in {"idle", "streaming", "passed", "media"}
    BY <1>4 DEF Connected, StreamOver, PassThrough, PassMedia
  <2> QED
    BY <2>1 DEF PromptInv
<1>5. CASE ScoreTier \/ Detect \/ TakeSnapshot \/ ChooseRoute \/ StartChain \/ Skip \/ FallBack
  <2>1. /\ pc \notin {"idle", "streaming", "passed", "media"} /\ req' = req
        /\ pc' \notin {"posted", "waiting"}
    BY <1>5 DEF ScoreTier, Detect, TakeSnapshot, ChooseRoute, StartChain, Skip, FallBack
  <2> QED
    BY <2>1 DEF PromptInv
<1>6. CASE StartStream \/ Call
  <2>1. /\ pc \notin {"idle", "streaming", "passed", "media"} /\ req' = req
        /\ \E p, m, k : upstream' = Post(p, m, k)
    BY <1>6 DEF StartStream, Call
  <2>2. upstream'.body = Body(upstream'.type, Canonical(req))
    BY <2>1, PostedBody
  <2> QED
    BY <2>1, <2>2 DEF PromptInv
<1> QED
  BY <1>1, <1>2, <1>3, <1>4, <1>5, <1>6 DEF GatewayNext, Serve

LEMMA PromptIsTold ==
    ASSUME NEW r \in Requests, NEW y
    PROVE  IF y = "kiro" THEN TellsLast(Body(y, Canonical(r)), r)
           ELSE TellsTalk(Body(y, Canonical(r)), r, y)
<1> DEFINE M == ToSet(r.messages)
           B == {NullBlock} \cup UNION {ToSet(m.parts) : m \in M}
<1>1. /\ r.messages \in Seq(M)
      /\ \A m \in M : m.parts \in Seq(ToSet(m.parts)) /\ (m.form = "null" => m.parts = <<>>)
  BY GatewayAssumption DEF IsConversation
<1>2. ASSUME NEW m \in M PROVE IsMessage(m, B)
  <2>1. ToSet(m.parts) \subseteq B
    OBVIOUS
  <2> HIDE DEF M, B
  <2>2. m.parts \in Seq(B)
    BY <1>1, <2>1
  <2> QED
    BY <1>1, <2>2 DEF IsMessage
<1>3. NullBlock \in B
  OBVIOUS
<1> HIDE DEF M, B
<1> QED
  BY <1>1, <1>2, <1>3, TalkConveyed, TalkIsLast

(***************************************************************************)
(* Whatever conversation is brought, every provider that is asked is told  *)
(* all that the system messages, the user and the assistant said, in that  *)
(* order and in the name of its author, and one that sees gets the user's  *)
(* images: into_canonical and the build_body of the six adapters.          *)
(***************************************************************************)
THEOREM PromptsAreTold == GatewaySpec => []PromptReaches
<1>1. GatewayInit => PromptInv
  BY DEF GatewayInit, PromptInv
<1>2. PromptInv /\ [GatewayNext]_gatewayVars => PromptInv'
  BY PromptStep
<1>3. PromptInv => PromptReaches
  <2> SUFFICES ASSUME PromptInv, pc \in {"posted", "waiting"}
               PROVE  IF upstream.type = "kiro" THEN TellsLast(upstream.body, req)
                      ELSE TellsTalk(upstream.body, req, upstream.type)
    BY DEF PromptReaches
  <2>1. req \in Requests /\ upstream.body = Body(upstream.type, Canonical(req))
    BY DEF PromptInv
  <2>2. IF upstream.type = "kiro" THEN TellsLast(Body(upstream.type, Canonical(req)), req)
        ELSE TellsTalk(Body(upstream.type, Canonical(req)), req, upstream.type)
    BY <2>1, PromptIsTold
  <2> QED
    BY <2>1, <2>2
<1> QED
  BY <1>1, <1>2, <1>3, PTL DEF GatewaySpec
=============================================================================
