----------------------------- MODULE BudgetProofs -----------------------------
(***************************************************************************)
(* Proofs about Budget, for any number of users and concurrent requests,   *)
(* any costs, and any caps whenever reloads change them.  SpendBounded is  *)
(* not inductive: every request that is past its check may still add its   *)
(* cost, so the strengthening counts these against the bound beforehand.   *)
(***************************************************************************)
EXTENDS Budget, FiniteSetTheorems, TLAPS

\* The requests that may still be charged to this user's day.
Pending(u, d) ==
    {s \in Slots : /\ user[s] = u
                   /\ \/ pc[s] = "upstream" /\ d = day
                      \/ pc[s] = "record" /\ d = stamp[s]}

\* What the user's day may come to.
Within(u, d) ==
    spend[u][d] + MaxCost * Cardinality(Pending(u, d)) <=
        loosest[d] + MaxCost * (Cardinality(Slots) + unmetered)

Committed == \A u \in Users, d \in Days : Within(u, d)

\* No day is charged before it comes.
FutureUnspent == \A u \in Users, d \in Days : d > day => spend[u][d] = 0

BudgetInv == TypeOK /\ FutureUnspent /\ Committed

-----------------------------------------------------------------------------
(* Types *)

LEMMA InitTypeOK == Init => TypeOK
  BY BudgetAssumption DEF Init, TypeOK, Days, NoCaps, BudgetConfig

LEMMA CostsAreBounded == \A c \in Costs : c # NoPrice => c \in 0..MaxCost
  BY BudgetAssumption

\* Two natural numbers add up to one.
LEMMA SumOfNats ==
    ASSUME NEW a \in Nat, NEW b \in Nat
    PROVE  a + b \in Nat
  OBVIOUS

\* An upstream's bill keeps its type.
LEMMA ChargedType ==
    ASSUME TypeOK, NEW s \in Slots, NEW c \in Costs, Charged(s, c)
    PROVE  billed' \in [Users -> [Days -> Nat]]
<1> DEFINE amount == IF c = NoPrice THEN 0 ELSE c
<1>1. amount \in Nat
  BY CostsAreBounded, BudgetAssumption
<1>2. user[s] \in Users /\ day \in Days
  BY DEF TypeOK
<1>3. billed[user[s]][day] + amount \in Nat
  <2>1. billed[user[s]][day] \in Nat
    BY <1>2 DEF TypeOK
  <2> QED
    BY <1>1, <2>1, SumOfNats
<1>4. billed' = [billed EXCEPT ![user[s]][day] = billed[user[s]][day] + amount]
  BY DEF Charged
<1>5. billed' \in [Users -> [Days -> Nat]]
  BY <1>2, <1>3, <1>4 DEF TypeOK
<1> QED
  BY <1>5

LEMMA DoneType ==
    ASSUME TypeOK, NEW s \in Slots, Done(s), day' \in Days, day' >= day
    PROVE  /\ pc' \in [Slots -> {"idle", "check", "upstream", "record"}]
           /\ stream' \in [Slots -> BOOLEAN]
           /\ limit' \in [Slots -> BudgetConfig]
           /\ stamp' \in [Slots -> 0..day']
           /\ cost' \in [Slots -> 0..MaxCost]
  BY BudgetAssumption DEF TypeOK, Done, Goto, Days, NoCaps, BudgetConfig

\* The histories of a request let through.
LEMMA LetThroughFacts ==
    ASSUME TypeOK, NEW s \in Slots, NEW metered, LetThrough(s, metered)
    PROVE  /\ loosest' \in [Days -> Nat] /\ unmetered' \in Nat
           /\ unmetered' >= unmetered
           /\ \A d \in Days : loosest'[d] >= loosest[d]
           /\ metered => loosest'[day] >= limit[s].daily
           /\ ~metered => unmetered' = unmetered + 1
<1>1. limit[s].daily \in Nat /\ day \in Days /\ loosest \in [Days -> Nat] /\ unmetered \in Nat
  BY DEF TypeOK, BudgetConfig
<1>2. CASE metered
  <2>1. /\ loosest' = [loosest EXCEPT ![day] = Larger(loosest[day], limit[s].daily)]
        /\ unmetered' = unmetered
    BY <1>2 DEF LetThrough
  <2> QED
    BY <1>1, <1>2, <2>1 DEF Larger
<1>3. CASE ~metered
  <2>1. loosest' = loosest /\ unmetered' = unmetered + 1
    BY <1>3 DEF LetThrough
  <2>2. \A d \in Days : loosest[d] \in Nat
    BY <1>1
  <2> QED
    BY <1>1, <1>3, <2>1, <2>2
<1> QED
  BY <1>2, <1>3

LEMMA NextTypeOK == TypeOK /\ [Next]_budgetVars => TypeOK'
<1> SUFFICES ASSUME TypeOK, [Next]_budgetVars PROVE TypeOK'
  OBVIOUS
<1> USE BudgetAssumption DEF Days, checkVars
<1>1. ASSUME NEW s \in Slots, NEW u \in Users, NEW b \in Streams, Arrive(s, u, b)
      PROVE  TypeOK'
  BY <1>1 DEF Arrive, TypeOK, Goto
<1>2. ASSUME NEW s \in Slots, Deny(s)
      PROVE  TypeOK'
  BY <1>2, DoneType DEF Deny, TypeOK
<1>3. ASSUME NEW s \in Slots, Admit(s)
      PROVE  TypeOK'
  BY <1>3, LetThroughFacts DEF Admit, TypeOK, Goto
<1>4. ASSUME NEW s \in Slots, CheckFails(s)
      PROVE  TypeOK'
  BY <1>4, LetThroughFacts DEF CheckFails, TypeOK, Goto
<1>5. ASSUME NEW s \in Slots, NEW c \in Costs, StreamEnds(s, c)
      PROVE  TypeOK'
  <2>1. Charged(s, c) /\ Done(s) /\ UNCHANGED <<day, spend, user, requests, checkVars>>
    BY <1>5 DEF StreamEnds
  <2>2. billed' \in [Users -> [Days -> Nat]]
    BY <2>1, ChargedType
  <2>3. day' \in Days /\ day' >= day
    BY <2>1 DEF TypeOK
  <2> QED
    BY <2>1, <2>2, <2>3, DoneType DEF TypeOK
<1>6. ASSUME NEW s \in Slots, NEW c \in Costs, Answer(s, c)
      PROVE  TypeOK'
  <2>1. CASE c = NoPrice
    BY <1>6, <2>1, DoneType, ChargedType DEF Answer, TypeOK
  <2>2. CASE c # NoPrice
    <3>1. c \in 0..MaxCost
      BY <2>2, CostsAreBounded
    <3>2. billed' \in [Users -> [Days -> Nat]]
      BY <1>6, ChargedType DEF Answer
    <3>3. /\ pc' = [pc EXCEPT ![s] = "record"]
          /\ stamp' = [stamp EXCEPT ![s] = day]
          /\ cost' = [cost EXCEPT ![s] = c]
          /\ UNCHANGED <<day, spend, user, stream, limit, requests, checkVars>>
      BY <1>6, <2>2 DEF Answer, Goto
    <3>4. day \in 0..day'
      BY <3>3 DEF TypeOK
    <3> QED
      BY <3>1, <3>2, <3>3, <3>4 DEF TypeOK
  <2> QED
    BY <2>1, <2>2
<1>7. ASSUME NEW s \in Slots, UpstreamFails(s)
      PROVE  TypeOK'
  BY <1>7, DoneType DEF UpstreamFails, TypeOK
<1>8. ASSUME NEW s \in Slots, Record(s)
      PROVE  TypeOK'
  <2>1. spend' \in [Users -> [Days -> Nat]]
    <3>1. user[s] \in Users /\ stamp[s] \in Days /\ cost[s] \in Nat
      BY DEF TypeOK
    <3>2. spend[user[s]] \in [Days -> Nat]
      BY <3>1 DEF TypeOK
    <3>3. spend[user[s]][stamp[s]] + cost[s] \in Nat
      <4>1. spend[user[s]][stamp[s]] \in Nat
        BY <3>1, <3>2
      <4> QED
        BY <3>1, <4>1, SumOfNats
    <3>4. [spend[user[s]] EXCEPT ![stamp[s]] = @ + cost[s]] \in [Days -> Nat]
      BY <3>2, <3>3
    <3>5. \/ spend' = spend
          \/ spend' = [spend EXCEPT ![user[s]] =
                         [spend[user[s]] EXCEPT ![stamp[s]] = @ + cost[s]]]
      BY <1>8 DEF Record
    <3> QED
      BY <3>1, <3>4, <3>5 DEF TypeOK
  <2> QED
    BY <1>8, <2>1, DoneType DEF Record, TypeOK
<1>9. CASE NextDay \/ \E c \in Caps : Reload(c)
  BY <1>9 DEF NextDay, Reload, TypeOK
<1>10. CASE UNCHANGED budgetVars
  BY <1>10 DEF budgetVars, TypeOK
<1> QED
  BY <1>1, <1>2, <1>3, <1>4, <1>5, <1>6, <1>7, <1>8, <1>9, <1>10 DEF Next

\* For any caps, costs and number of requests, token_usage and the handlers'
\* locals are well formed.
THEOREM BudgetTypeCorrect == Spec => []TypeOK
  BY InitTypeOK, NextTypeOK, PTL DEF Spec

-----------------------------------------------------------------------------
(* The cap *)

\* Sets of requests are finite, and no larger than the set of all.
LEMMA PendingFinite ==
    ASSUME NEW u, NEW d
    PROVE  /\ IsFiniteSet(Pending(u, d))
           /\ Cardinality(Pending(u, d)) \in Nat
           /\ Cardinality(Slots) \in Nat
           /\ Cardinality(Pending(u, d)) <= Cardinality(Slots)
<1>1. IsFiniteSet(Slots) /\ Pending(u, d) \subseteq Slots
  BY BudgetAssumption DEF Pending
<1> QED
  BY <1>1, FS_Subset, FS_CardinalityType

LEMMA PendingFiniteNext ==
    ASSUME NEW u, NEW d
    PROVE  /\ IsFiniteSet(Pending(u, d)')
           /\ Cardinality(Pending(u, d)') \in Nat
           /\ Cardinality(Pending(u, d)') <= Cardinality(Slots)
<1>1. IsFiniteSet(Slots) /\ Pending(u, d)' \subseteq Slots
  BY BudgetAssumption DEF Pending
<1> QED
  BY <1>1, FS_Subset, FS_CardinalityType

\* A smaller set of pending requests commits to no more.
LEMMA CommitsNoMore ==
    ASSUME NEW m \in Nat, NEW a \in Nat, NEW b \in Nat, a <= b
    PROVE  m * a \in Nat /\ m * b \in Nat /\ m * a <= m * b
<1>1. \E k \in Nat : b = a + k
  <2>1. b - a \in Nat /\ b = a + (b - a)
    OBVIOUS
  <2> QED
    BY <2>1
<1>2. PICK k \in Nat : b = a + k
  BY <1>1
<1>3. m * a \in Nat /\ m * k \in Nat /\ m * b = m * a + m * k
  BY <1>2
<1> QED
  BY <1>3

LEMMA OneMore ==
    ASSUME NEW m \in Nat, NEW a \in Nat
    PROVE  m * (a + 1) = m * a + m /\ m * a \in Nat
  OBVIOUS

\* A step that neither charges the user's day nor lets another request at it.
LEMMA NothingNew ==
    ASSUME TypeOK, TypeOK', NEW u \in Users, NEW d \in Days, Within(u, d),
           Pending(u, d)' \subseteq Pending(u, d), spend'[u][d] = spend[u][d],
           unmetered' >= unmetered, loosest'[d] >= loosest[d]
    PROVE  Within(u, d)'
<1> DEFINE n == Cardinality(Pending(u, d))
           k == Cardinality(Pending(u, d)')
           c == Cardinality(Slots)
<1>1. n \in Nat /\ k \in Nat /\ c \in Nat /\ k <= n
  BY PendingFinite, PendingFiniteNext, FS_Subset
<1>2. MaxCost * k \in Nat /\ MaxCost * n \in Nat /\ MaxCost * k <= MaxCost * n
  BY <1>1, CommitsNoMore, BudgetAssumption
<1>3. c + unmetered \in Nat /\ c + unmetered' \in Nat /\ c + unmetered <= c + unmetered'
  BY <1>1 DEF TypeOK
<1>4. /\ MaxCost * (c + unmetered) \in Nat /\ MaxCost * (c + unmetered') \in Nat
      /\ MaxCost * (c + unmetered) <= MaxCost * (c + unmetered')
  BY <1>3, CommitsNoMore, BudgetAssumption
<1>5. /\ spend[u][d] \in Nat /\ spend'[u][d] \in Nat
      /\ loosest[d] \in Nat /\ loosest'[d] \in Nat
  BY DEF TypeOK
<1>6. spend[u][d] + MaxCost * n <= loosest[d] + MaxCost * (c + unmetered)
  BY DEF Within
<1> HIDE DEF n, k, c
<1>7. spend'[u][d] + MaxCost * k <= loosest'[d] + MaxCost * (c + unmetered')
  BY <1>2, <1>4, <1>5, <1>6, BudgetAssumption
<1> QED
  BY <1>7 DEF Within, n, k, c

\* A request that is charged is pending no longer.
LEMMA ChargeWasCommitted ==
    ASSUME TypeOK, TypeOK', NEW s \in Slots, NEW u \in Users, NEW d \in Days, Within(u, d),
           s \in Pending(u, d), Pending(u, d)' \subseteq Pending(u, d) \ {s},
           spend'[u][d] <= spend[u][d] + MaxCost, unmetered' = unmetered,
           loosest' = loosest
    PROVE  Within(u, d)'
<1> DEFINE n == Cardinality(Pending(u, d))
           k == Cardinality(Pending(u, d)')
           c == Cardinality(Slots)
<1>1. n \in Nat /\ k \in Nat /\ c \in Nat
  BY PendingFinite, PendingFiniteNext
<1>2. Cardinality(Pending(u, d) \ {s}) = n - 1
  BY PendingFinite, FS_RemoveElement
<1>3. k <= n - 1
  BY <1>2, PendingFinite, FS_Subset, FS_RemoveElement
<1>4. k + 1 \in Nat /\ k + 1 <= n
  BY <1>1, <1>3
<1>5. MaxCost * (k + 1) <= MaxCost * n /\ MaxCost * n \in Nat
  BY <1>1, <1>4, CommitsNoMore, BudgetAssumption
<1>6. MaxCost * (k + 1) = MaxCost * k + MaxCost /\ MaxCost * k \in Nat
  BY <1>1, OneMore, BudgetAssumption
<1>7. MaxCost * (c + unmetered) \in Nat
  BY <1>1, OneMore, BudgetAssumption DEF TypeOK
<1>8. /\ spend[u][d] \in Nat /\ spend'[u][d] \in Nat
      /\ loosest[d] \in Nat /\ loosest'[d] \in Nat
  BY DEF TypeOK
<1>9. spend[u][d] + MaxCost * n <= loosest[d] + MaxCost * (c + unmetered)
  BY DEF Within
<1> HIDE DEF n, k, c
<1>10. spend'[u][d] + MaxCost * k <= loosest'[d] + MaxCost * (c + unmetered')
  BY <1>5, <1>6, <1>7, <1>8, <1>9, BudgetAssumption
<1> QED
  BY <1>10 DEF Within, n, k, c

\* A request let through unmetered is counted for.
LEMMA UnmeteredCounts ==
    ASSUME TypeOK, TypeOK', NEW s \in Slots, NEW u \in Users, NEW d \in Days, Within(u, d),
           Pending(u, d)' \subseteq Pending(u, d) \cup {s},
           spend'[u][d] = spend[u][d], unmetered' = unmetered + 1,
           loosest'[d] >= loosest[d]
    PROVE  Within(u, d)'
<1> DEFINE n == Cardinality(Pending(u, d))
           k == Cardinality(Pending(u, d)')
           c == Cardinality(Slots)
<1>1. n \in Nat /\ k \in Nat /\ c \in Nat /\ unmetered \in Nat
  BY PendingFinite, PendingFiniteNext DEF TypeOK
<1>2. /\ IsFiniteSet(Pending(u, d) \cup {s})
      /\ Cardinality(Pending(u, d) \cup {s}) <= n + 1
  <2>1. IsFiniteSet(Pending(u, d))
    BY PendingFinite
  <2>2. /\ IsFiniteSet(Pending(u, d) \cup {s})
        /\ \/ Cardinality(Pending(u, d) \cup {s}) = n
           \/ Cardinality(Pending(u, d) \cup {s}) = n + 1
    BY <2>1, FS_AddElement
  <2> QED
    BY <1>1, <2>2
<1>3. k <= n + 1
  <2>1. k <= Cardinality(Pending(u, d) \cup {s}) /\ Cardinality(Pending(u, d) \cup {s}) \in Nat
    BY <1>2, FS_Subset, FS_CardinalityType
  <2> QED
    BY <1>1, <1>2, <2>1
<1>4. MaxCost * k <= MaxCost * (n + 1) /\ MaxCost * k \in Nat
  BY <1>1, <1>3, CommitsNoMore, BudgetAssumption
<1>5. MaxCost * (n + 1) = MaxCost * n + MaxCost /\ MaxCost * n \in Nat
  BY <1>1, OneMore, BudgetAssumption
<1>6. /\ MaxCost * ((c + unmetered) + 1) = MaxCost * (c + unmetered) + MaxCost
      /\ MaxCost * (c + unmetered) \in Nat
  BY <1>1, OneMore, BudgetAssumption
<1>7. MaxCost * (c + unmetered') = MaxCost * (c + unmetered) + MaxCost
  BY <1>1, <1>6
<1>8. spend[u][d] \in Nat /\ loosest[d] \in Nat /\ loosest'[d] \in Nat
  BY DEF TypeOK
<1>9. spend[u][d] + MaxCost * n <= loosest[d] + MaxCost * (c + unmetered)
  BY DEF Within
<1> HIDE DEF n, k, c
<1>10. spend'[u][d] + MaxCost * k <= loosest'[d] + MaxCost * (c + unmetered')
  BY <1>4, <1>5, <1>6, <1>7, <1>8, <1>9, BudgetAssumption
<1> QED
  BY <1>10 DEF Within, n, k, c

\* Below the cap there is room for every slot.
LEMMA RoomBelowCap ==
    ASSUME TypeOK, TypeOK', NEW u \in Users, NEW d \in Days, spend'[u][d] <= loosest'[d]
    PROVE  Within(u, d)'
<1> DEFINE k == Cardinality(Pending(u, d)')
           c == Cardinality(Slots)
<1>1. k \in Nat /\ c \in Nat /\ k <= c /\ unmetered' \in Nat
  BY PendingFinite, PendingFiniteNext DEF TypeOK
<1>2. c + unmetered' \in Nat /\ k <= c + unmetered'
  BY <1>1
<1>3. /\ MaxCost * k <= MaxCost * (c + unmetered')
      /\ MaxCost * k \in Nat /\ MaxCost * (c + unmetered') \in Nat
  BY <1>1, <1>2, CommitsNoMore, BudgetAssumption
<1>4. spend'[u][d] \in Nat /\ loosest'[d] \in Nat
  BY DEF TypeOK
<1> HIDE DEF k, c
<1>5. spend'[u][d] + MaxCost * k <= loosest'[d] + MaxCost * (c + unmetered')
  BY <1>3, <1>4, BudgetAssumption
<1> QED
  BY <1>5 DEF Within, k, c

LEMMA BudgetInit == Init => BudgetInv
<1> SUFFICES ASSUME Init PROVE BudgetInv
  OBVIOUS
<1>1. TypeOK
  BY InitTypeOK
<1>2. FutureUnspent
  BY DEF Init, FutureUnspent
<1>3. Committed
  <2> SUFFICES ASSUME NEW u \in Users, NEW d \in Days PROVE Within(u, d)
    BY DEF Committed
  <2>1. Pending(u, d) = {}
    BY DEF Init, Pending
  <2>2. Cardinality(Pending(u, d)) = 0 /\ Cardinality(Slots) \in Nat
    BY <2>1, FS_EmptySet, PendingFinite
  <2>3. spend[u][d] = 0 /\ unmetered = 0 /\ loosest[d] = 0
    BY DEF Init
  <2>4. MaxCost * Cardinality(Slots) \in Nat
    BY <2>2, OneMore, BudgetAssumption
  <2> QED
    BY <2>2, <2>3, <2>4, BudgetAssumption DEF Within
<1> QED
  BY <1>1, <1>2, <1>3 DEF BudgetInv

LEMMA FutureStep == TypeOK /\ FutureUnspent /\ [Next]_budgetVars => FutureUnspent'
<1> SUFFICES ASSUME TypeOK, FutureUnspent, [Next]_budgetVars,
                    NEW u \in Users, NEW d \in Days, d > day'
             PROVE  spend'[u][d] = 0
  BY DEF FutureUnspent
<1>1. day' = day \/ day' = day + 1
  BY DEF Next, budgetVars, Arrive, Deny, Admit, CheckFails, StreamEnds, Answer,
         UpstreamFails, Record, NextDay, Reload
<1>2. d > day /\ spend[u][d] = 0
  <2>1. day \in Nat /\ d \in Nat
    BY BudgetAssumption DEF TypeOK, Days
  <2>2. d > day
    BY <1>1, <2>1
  <2> QED
    BY <2>2 DEF FutureUnspent
<1>3. \A s \in Slots : stamp[s] # d
  BY <1>2, BudgetAssumption DEF TypeOK, Days
<1>4. ASSUME NEW s \in Slots, Record(s)
      PROVE  spend'[u][d] = 0
  <2>1. \/ spend' = spend
        \/ spend' = [spend EXCEPT ![user[s]] =
                       [spend[user[s]] EXCEPT ![stamp[s]] = @ + cost[s]]]
    BY <1>4 DEF Record
  <2>2. spend[user[s]] \in [Days -> Nat] /\ spend[u] \in [Days -> Nat]
    BY DEF TypeOK
  <2> QED
    BY <1>2, <1>3, <2>1, <2>2 DEF TypeOK
<1>5. CASE spend' = spend
  BY <1>2, <1>5
<1> QED
  BY <1>4, <1>5
     DEF Next, budgetVars, Arrive, Deny, Admit, CheckFails, StreamEnds, Answer, UpstreamFails,
         NextDay, Reload

\* A request that is over, or is not past its check, is not pending.
LEMMA DonePending ==
    ASSUME TypeOK, NEW s \in Slots, Done(s), day' = day, user' = user,
           NEW u \in Users, NEW d \in Days
    PROVE  Pending(u, d)' \subseteq Pending(u, d) \ {s}
  BY DEF Pending, Done, Goto, TypeOK

LEMMA CommittedStep == BudgetInv /\ [Next]_budgetVars => Committed'
<1> SUFFICES ASSUME BudgetInv, [Next]_budgetVars,
                    NEW u \in Users, NEW d \in Days
             PROVE  Within(u, d)'
  BY DEF Committed
<1>t. TypeOK /\ TypeOK' /\ Within(u, d) /\ FutureUnspent
  BY NextTypeOK DEF BudgetInv, Committed
<1>n. /\ unmetered \in Nat /\ unmetered >= unmetered
      /\ loosest[d] \in Nat /\ loosest[d] >= loosest[d]
  BY <1>t DEF TypeOK
<1> USE DEF checkVars
<1>1. ASSUME NEW s \in Slots, NEW v \in Users, NEW b \in Streams, Arrive(s, v, b)
      PROVE  Within(u, d)'
  <2>1. Pending(u, d)' \subseteq Pending(u, d)
    BY <1>t, <1>1 DEF Arrive, Goto, Pending, TypeOK
  <2> QED
    BY <1>t, <1>n, <1>1, <2>1, NothingNew DEF Arrive
<1>2. ASSUME NEW s \in Slots, Deny(s)
      PROVE  Within(u, d)'
  BY <1>t, <1>n, <1>2, DonePending, NothingNew DEF Deny
<1>3. ASSUME NEW s \in Slots, Admit(s)
      PROVE  Within(u, d)'
  <2>1. /\ pc[s] = "check" /\ pc' = [pc EXCEPT ![s] = "upstream"] /\ ~OverCap(s)
        /\ LetThrough(s, Metered(s))
        /\ UNCHANGED <<day, spend, user, stamp>>
    BY <1>3 DEF Admit, Goto
  <2>2. Pending(u, d)' \subseteq Pending(u, d) \cup {s}
    BY <1>t, <2>1 DEF Pending, TypeOK
  <2>3. /\ loosest'[d] >= loosest[d] /\ unmetered' >= unmetered
        /\ Metered(s) => loosest'[day] >= limit[s].daily
        /\ ~Metered(s) => unmetered' = unmetered + 1
    BY <1>t, <2>1, LetThroughFacts
  <2>4. CASE ~Metered(s)
    BY <1>t, <2>1, <2>2, <2>3, <2>4, UnmeteredCounts
  <2>5. CASE Metered(s) /\ user[s] = u /\ d = day
    <3>1. spend[u][d] <= limit[s].daily
      BY <1>t, <2>1, <2>5 DEF OverCap, Projected, Metered, TypeOK, BudgetConfig
    <3>2. spend'[u][d] = spend[u][d] /\ limit[s].daily \in Nat /\ loosest'[d] \in Nat
      BY <1>t, <2>1 DEF TypeOK, BudgetConfig
    <3>3. spend'[u][d] <= loosest'[d]
      BY <1>t, <2>3, <2>5, <3>1, <3>2 DEF TypeOK
    <3> QED
      BY <1>t, <3>3, RoomBelowCap
  <2>6. CASE Metered(s) /\ ~(user[s] = u /\ d = day)
    <3>1. Pending(u, d)' \subseteq Pending(u, d)
      BY <1>t, <2>1, <2>6 DEF Pending, TypeOK
    <3> QED
      BY <1>t, <2>1, <2>3, <3>1, NothingNew
  <2> QED
    BY <2>4, <2>5, <2>6
<1>4. ASSUME NEW s \in Slots, CheckFails(s)
      PROVE  Within(u, d)'
  <2>1. Pending(u, d)' \subseteq Pending(u, d) \cup {s} /\ spend' = spend
    BY <1>t, <1>4 DEF CheckFails, Goto, Pending, TypeOK
  <2>2. loosest'[d] >= loosest[d] /\ unmetered' = unmetered + 1
    BY <1>t, <1>4, LetThroughFacts DEF CheckFails
  <2> QED
    BY <1>t, <2>1, <2>2, UnmeteredCounts
<1>5. ASSUME NEW s \in Slots, NEW c \in Costs, StreamEnds(s, c)
      PROVE  Within(u, d)'
  BY <1>t, <1>n, <1>5, DonePending, NothingNew DEF StreamEnds
<1>6. ASSUME NEW s \in Slots, NEW c \in Costs, Answer(s, c)
      PROVE  Within(u, d)'
  <2>1. CASE c = NoPrice
    BY <1>t, <1>n, <1>6, <2>1, DonePending, NothingNew DEF Answer
  <2>2. CASE c # NoPrice
    <3>1. Pending(u, d)' \subseteq Pending(u, d)
      BY <1>t, <1>6, <2>2 DEF Answer, Goto, Pending, TypeOK
    <3> QED
      BY <1>t, <1>n, <1>6, <3>1, NothingNew DEF Answer
  <2> QED
    BY <2>1, <2>2
<1>7. ASSUME NEW s \in Slots, UpstreamFails(s)
      PROVE  Within(u, d)'
  BY <1>t, <1>n, <1>7, DonePending, NothingNew DEF UpstreamFails
<1>8. ASSUME NEW s \in Slots, Record(s)
      PROVE  Within(u, d)'
  <2>1. /\ pc[s] = "record" /\ Done(s) /\ UNCHANGED <<day, user, loosest, unmetered>>
        /\ \/ spend' = spend
           \/ spend' = [spend EXCEPT ![user[s]] =
                          [spend[user[s]] EXCEPT ![stamp[s]] = @ + cost[s]]]
    BY <1>8 DEF Record
  <2>2. Pending(u, d)' \subseteq Pending(u, d) \ {s}
    BY <1>t, <2>1, DonePending
  <2>3. /\ spend[user[s]] \in [Days -> Nat] /\ spend[u] \in [Days -> Nat]
        /\ cost[s] \in 0..MaxCost /\ stamp[s] \in Days
    BY <1>t, BudgetAssumption DEF TypeOK, Days
  <2>4. CASE user[s] = u /\ stamp[s] = d
    <3>1. s \in Pending(u, d)
      BY <2>1, <2>4 DEF Pending
    <3>2. spend'[u][d] = spend[u][d] \/ spend'[u][d] = spend[u][d] + cost[s]
      BY <1>t, <2>1, <2>3, <2>4 DEF TypeOK
    <3>3. spend'[u][d] <= spend[u][d] + MaxCost
      BY <2>3, <3>2, BudgetAssumption
    <3> QED
      BY <1>t, <2>1, <2>2, <3>1, <3>3, ChargeWasCommitted
  <2>5. CASE ~(user[s] = u /\ stamp[s] = d)
    <3>1. spend'[u][d] = spend[u][d]
      <4>1. CASE user[s] # u
        BY <1>t, <2>1, <4>1 DEF TypeOK
      <4>2. CASE user[s] = u /\ stamp[s] # d
        BY <1>t, <2>1, <2>3, <4>2 DEF TypeOK
      <4> QED
        BY <2>5, <4>1, <4>2
    <3> QED
      BY <1>t, <1>n, <2>1, <2>2, <3>1, NothingNew
  <2> QED
    BY <2>4, <2>5
<1>9. CASE NextDay
  <2>1. day' = day + 1 /\ UNCHANGED <<spend, pc, user, stamp, loosest, unmetered>>
    BY <1>9 DEF NextDay
  <2>2. CASE d = day + 1
    <3>1. spend'[u][d] = 0
      BY <1>t, <2>1, <2>2, BudgetAssumption DEF FutureUnspent, TypeOK, Days
    <3>2. spend'[u][d] <= loosest'[d]
      BY <1>n, <2>1, <3>1
    <3> QED
      BY <1>t, <3>2, RoomBelowCap
  <2>3. CASE d # day + 1
    <3>1. Pending(u, d)' \subseteq Pending(u, d)
      BY <2>1, <2>3 DEF Pending
    <3> QED
      BY <1>t, <1>n, <2>1, <3>1, NothingNew
  <2> QED
    BY <2>2, <2>3
<1>10. CASE UNCHANGED budgetVars \/ \E c \in Caps : Reload(c)
  <2>1. UNCHANGED <<day, spend, pc, user, stamp, loosest, unmetered>>
    BY <1>10 DEF budgetVars, Reload
  <2>2. Pending(u, d)' = Pending(u, d)
    BY <2>1 DEF Pending
  <2> QED
    BY <1>t, <1>n, <2>1, <2>2, NothingNew
<1> QED
  BY <1>1, <1>2, <1>3, <1>4, <1>5, <1>6, <1>7, <1>8, <1>9, <1>10 DEF Next

\* For any costs, users and concurrent requests and any caps, whenever reloads
\* change them, a user's recorded spend of a day passes the largest daily cap a
\* request of that day was held to by no more than a request for every slot and
\* for every request let through unmetered (check, log_completion,
\* record_usage).
THEOREM SpendIsBounded == Spec => []SpendBounded
<1>1. BudgetInv => SpendBounded
  <2> SUFFICES ASSUME BudgetInv, NEW u \in Users, NEW d \in Days
               PROVE  spend[u][d] <= loosest[d] + MaxCost * (Cardinality(Slots) + unmetered)
    BY DEF SpendBounded
  <2>1. /\ Within(u, d) /\ spend[u][d] \in Nat
        /\ unmetered \in Nat /\ loosest[d] \in Nat
    BY DEF BudgetInv, Committed, TypeOK
  <2>2. Cardinality(Pending(u, d)) \in Nat /\ Cardinality(Slots) \in Nat
    BY PendingFinite
  <2>3. /\ MaxCost * Cardinality(Pending(u, d)) \in Nat
        /\ MaxCost * (Cardinality(Slots) + unmetered) \in Nat
    BY <2>1, <2>2, OneMore, BudgetAssumption
  <2> QED
    BY <2>1, <2>3, BudgetAssumption DEF Within
<1>2. BudgetInv /\ [Next]_budgetVars => BudgetInv'
  BY NextTypeOK, FutureStep, CommittedStep DEF BudgetInv
<1> QED
  BY <1>1, <1>2, BudgetInit, PTL DEF Spec

-----------------------------------------------------------------------------
(* The bill *)

\* NeverOvercharged is not inductive either: what the requests on their way to
\* token_usage will add has to be billed already, all of it together.  The
\* requests are numbered, and a sequence of running totals stands for the sum
\* of what they owe, so that no induction over the slots is needed: a step
\* changes what one of them owes, and with it the totals behind that one.
Count == CHOOSE n \in Nat : ExistsBijection(1..n, Slots)

Numbering == CHOOSE e : e \in Bijection(1..Count, Slots)

Owed(s, u, d) == IF pc[s] = "record" /\ user[s] = u /\ stamp[s] = d THEN cost[s] ELSE 0

OwedTo(u, d) == [i \in 1..Count |-> Owed(Numbering[i], u, d)]

Totals(sum, owed) ==
    /\ sum \in [0..Count -> Nat]
    /\ sum[0] = 0
    /\ \A i \in 1..Count : sum[i] = sum[i - 1] + owed[i]
    /\ \A i, j \in 0..Count : i <= j => sum[i] <= sum[j]

Billed(u, d) == \E sum : Totals(sum, OwedTo(u, d)) /\ spend[u][d] + sum[Count] <= billed[u][d]

AllBilled == \A u \in Users, d \in Days : Billed(u, d)

LEMMA NumberingIsBijection ==
    /\ Count \in Nat
    /\ Numbering \in [1..Count -> Slots]
    /\ \A s \in Slots : \E k \in 1..Count : Numbering[k] = s
    /\ \A i, k \in 1..Count : Numbering[i] = Numbering[k] => i = k
<1>1. \E n \in Nat : ExistsBijection(1..n, Slots)
  BY FS_NatBijection, BudgetAssumption
<1>2. Count \in Nat /\ ExistsBijection(1..Count, Slots)
  BY <1>1 DEF Count
<1>3. Numbering \in Bijection(1..Count, Slots)
  BY <1>2 DEF ExistsBijection, Numbering
<1> QED
  BY <1>2, <1>3 DEF Bijection, Injection, Surjection, IsInjective

\* One request comes to owe another amount.
LEMMA TotalsChange ==
    ASSUME NEW owed \in [1..Count -> Nat], NEW new \in [1..Count -> Nat], NEW k \in 1..Count,
           \A i \in 1..Count : i # k => new[i] = owed[i],
           NEW sum, Totals(sum, owed)
    PROVE  \E t : Totals(t, new) /\ t[Count] = (sum[Count] - owed[k]) + new[k]
<1> DEFINE t == [i \in 0..Count |-> IF i >= k THEN (sum[i] - owed[k]) + new[k] ELSE sum[i]]
<1>0. Count \in Nat /\ k - 1 \in 0..Count /\ k \in 0..Count
  BY NumberingIsBijection
<1>1. /\ sum \in [0..Count -> Nat]
      /\ sum[0] = 0
      /\ \A i \in 1..Count : sum[i] = sum[i - 1] + owed[i]
      /\ \A i, j \in 0..Count : i <= j => sum[i] <= sum[j]
  BY DEF Totals
<1>2. sum[k] = sum[k - 1] + owed[k]
  BY <1>1
<1>3. \A i \in 0..Count : sum[i] \in Nat
  BY <1>1
<1>4. owed[k] \in Nat /\ new[k] \in Nat
  OBVIOUS
\* Behind k every total contains what k owed and all that is before k.
<1>5. ASSUME NEW i \in 0..Count, i >= k
      PROVE  sum[i] - owed[k] \in Nat /\ sum[i] - owed[k] >= sum[k - 1]
  <2>1. sum[k] <= sum[i]
    BY <1>0, <1>1, <1>5
  <2> QED
    BY <1>0, <1>2, <1>3, <1>4, <2>1
<1>6. t \in [0..Count -> Nat]
  BY <1>3, <1>4, <1>5
<1>7. t[0] = 0
  BY <1>0, <1>1
<1>8. ASSUME NEW i \in 1..Count
      PROVE  t[i] = t[i - 1] + new[i]
  <2>1. i \in 0..Count /\ i - 1 \in 0..Count /\ sum[i] = sum[i - 1] + owed[i]
    BY <1>0, <1>1
  <2>2. sum[i] \in Nat /\ sum[i - 1] \in Nat /\ owed[i] \in Nat
    BY <1>3, <2>1
  <2>3. CASE i = k
    BY <1>0, <1>4, <2>1, <2>2, <2>3
  <2>4. CASE i > k
    <3>1. new[i] = owed[i] /\ i - 1 >= k
      BY <1>0, <2>4
    <3> QED
      BY <1>4, <2>1, <2>2, <2>4, <3>1
  <2>5. CASE i < k
    <3>1. new[i] = owed[i] /\ ~(i >= k) /\ ~(i - 1 >= k)
      BY <1>0, <2>5
    <3> QED
      BY <2>1, <2>2, <3>1
  <2> QED
    BY <1>0, <2>3, <2>4, <2>5
<1>9. ASSUME NEW i \in 0..Count, NEW j \in 0..Count, i <= j
      PROVE  t[i] <= t[j]
  <2>1. sum[i] \in Nat /\ sum[j] \in Nat /\ sum[i] <= sum[j]
    BY <1>1, <1>9
  <2>2. CASE i >= k
    <3>1. j >= k
      BY <1>0, <1>9, <2>2
    <3> QED
      BY <1>4, <2>1, <2>2, <3>1
  <2>3. CASE ~(i >= k) /\ j >= k
    <3>1. sum[i] <= sum[k - 1] /\ sum[k - 1] \in Nat
      BY <1>0, <1>1, <2>3
    <3>2. sum[j] - owed[k] \in Nat /\ sum[j] - owed[k] >= sum[k - 1]
      BY <1>5, <2>3
    <3> QED
      BY <1>4, <2>1, <2>3, <3>1, <3>2
  <2>4. CASE ~(i >= k) /\ ~(j >= k)
    BY <2>1, <2>4
  <2> QED
    BY <2>2, <2>3, <2>4
<1>10. t[Count] = (sum[Count] - owed[k]) + new[k]
  BY <1>0
<1> HIDE DEF t
<1>11. Totals(t, new)
  BY <1>6, <1>7, <1>8, <1>9 DEF Totals
<1> QED
  BY <1>10, <1>11

\* What a request owes is part of the total.
LEMMA TotalCoversEach ==
    ASSUME NEW owed \in [1..Count -> Nat], NEW k \in 1..Count, NEW sum, Totals(sum, owed)
    PROVE  sum[Count] \in Nat /\ owed[k] <= sum[Count]
<1>1. Count \in Nat /\ k \in 0..Count /\ k - 1 \in 0..Count /\ Count \in 0..Count /\ k <= Count
  BY NumberingIsBijection
<1>2. sum[k] = sum[k - 1] + owed[k] /\ sum[k] <= sum[Count]
  BY <1>1 DEF Totals
<1>3. sum[k] \in Nat /\ sum[k - 1] \in Nat /\ sum[Count] \in Nat /\ owed[k] \in Nat
  BY <1>1 DEF Totals
<1> QED
  BY <1>2, <1>3

LEMMA OwedType ==
    ASSUME TypeOK, NEW u, NEW d
    PROVE  /\ OwedTo(u, d) \in [1..Count -> Nat]
           /\ \A s \in Slots : Owed(s, u, d) \in Nat
  BY NumberingIsBijection, BudgetAssumption DEF OwedTo, Owed, TypeOK

\* A step after which the user's day owes what it did.
LEMMA SameOwed ==
    ASSUME NEW u \in Users, NEW d \in Days, Billed(u, d),
           TypeOK, TypeOK', \A s \in Slots : Owed(s, u, d)' = Owed(s, u, d),
           spend'[u][d] = spend[u][d], billed'[u][d] >= billed[u][d]
    PROVE  Billed(u, d)'
<1>1. OwedTo(u, d)' = OwedTo(u, d)
  BY NumberingIsBijection DEF OwedTo
<1>2. PICK sum : Totals(sum, OwedTo(u, d)) /\ spend[u][d] + sum[Count] <= billed[u][d]
  BY DEF Billed
<1>3. sum[Count] \in Nat
  BY <1>2, NumberingIsBijection DEF Totals
<1>4. spend[u][d] \in Nat /\ billed[u][d] \in Nat /\ billed'[u][d] \in Nat
  BY DEF TypeOK
<1>5. spend'[u][d] + sum[Count] <= billed'[u][d]
  BY <1>2, <1>3, <1>4
<1> QED
  BY <1>1, <1>2, <1>5 DEF Billed

\* A step after which one request owes the user's day another amount.
LEMMA OneOwes ==
    ASSUME NEW u \in Users, NEW d \in Days, Billed(u, d),
           TypeOK, TypeOK', NEW s \in Slots,
           \A r \in Slots \ {s} : Owed(r, u, d)' = Owed(r, u, d),
           spend'[u][d] + Owed(s, u, d)'
               <= spend[u][d] + Owed(s, u, d) + (billed'[u][d] - billed[u][d])
    PROVE  Billed(u, d)'
<1> DEFINE owed == OwedTo(u, d)
           new  == OwedTo(u, d)'
<1>1. PICK k \in 1..Count : Numbering[k] = s
  BY NumberingIsBijection
<1>2. \A i \in 1..Count : i # k => Numbering[i] \in Slots \ {s}
  BY <1>1, NumberingIsBijection
<1>3. \A i \in 1..Count : i # k => new[i] = owed[i]
  BY <1>2 DEF OwedTo
<1>4. owed[k] = Owed(s, u, d) /\ new[k] = Owed(s, u, d)'
  BY <1>1 DEF OwedTo
<1>5. owed \in [1..Count -> Nat]
  BY OwedType
<1>6. new \in [1..Count -> Nat]
  BY NumberingIsBijection, BudgetAssumption DEF OwedTo, Owed, TypeOK
<1>7. PICK sum : Totals(sum, owed) /\ spend[u][d] + sum[Count] <= billed[u][d]
  BY DEF Billed
<1> HIDE DEF owed, new
<1>8. PICK t : Totals(t, new) /\ t[Count] = (sum[Count] - owed[k]) + new[k]
  BY <1>3, <1>5, <1>6, <1>7, TotalsChange
<1>9. sum[Count] \in Nat /\ owed[k] \in Nat /\ new[k] \in Nat
  BY <1>5, <1>6, <1>7, TotalCoversEach
<1>10. /\ spend[u][d] \in Nat /\ billed[u][d] \in Nat
       /\ spend'[u][d] \in Nat /\ billed'[u][d] \in Nat
  BY DEF TypeOK
<1>11. spend'[u][d] + t[Count] <= billed'[u][d]
  BY <1>4, <1>7, <1>8, <1>9, <1>10
<1>12. Totals(t, OwedTo(u, d)')
  BY <1>8 DEF new
<1> QED
  BY <1>11, <1>12 DEF Billed

BillInv == TypeOK /\ AllBilled

LEMMA BillInit == Init => BillInv
<1> SUFFICES ASSUME Init PROVE BillInv
  OBVIOUS
<1>1. TypeOK
  BY InitTypeOK
<1>2. ASSUME NEW u \in Users, NEW d \in Days
      PROVE  Billed(u, d)
  <2> DEFINE zero == [i \in 0..Count |-> 0]
  <2>1. Count \in Nat
    BY NumberingIsBijection
  <2>2. \A i \in 1..Count : OwedTo(u, d)[i] = 0
    BY NumberingIsBijection DEF OwedTo, Owed, Init
  <2>3. \A i \in 1..Count : i - 1 \in 0..Count
    BY <2>1
  <2>4. Totals(zero, OwedTo(u, d))
    BY <2>1, <2>2, <2>3 DEF Totals
  <2>5. spend[u][d] + zero[Count] <= billed[u][d]
    BY <2>1 DEF Init
  <2> QED
    BY <2>4, <2>5 DEF Billed
<1> QED
  BY <1>1, <1>2 DEF BillInv, AllBilled

\* A request that is over owes nothing.
LEMMA DoneOwes ==
    ASSUME TypeOK, NEW s \in Slots, Done(s), user' = user, NEW u, NEW d
    PROVE  /\ Owed(s, u, d)' = 0
           /\ \A r \in Slots \ {s} : Owed(r, u, d)' = Owed(r, u, d)
  BY DEF Owed, Done, Goto, TypeOK

\* What an answer costs is on the bill of today.
LEMMA ChargedBill ==
    ASSUME TypeOK, TypeOK', NEW s \in Slots, NEW c \in Costs, Charged(s, c),
           NEW u \in Users, NEW d \in Days
    PROVE  /\ billed'[u][d] >= billed[u][d]
           /\ (c # NoPrice /\ user[s] = u /\ d = day) => billed'[u][d] = billed[u][d] + c
<1> DEFINE amount == IF c = NoPrice THEN 0 ELSE c
<1>1. amount \in Nat /\ (c # NoPrice => amount = c)
  BY CostsAreBounded, BudgetAssumption
<1>2. user[s] \in Users /\ day \in Days
  BY DEF TypeOK
<1>3. /\ billed[user[s]] \in [Days -> Nat] /\ billed[u] \in [Days -> Nat]
      /\ billed \in [Users -> [Days -> Nat]]
  BY <1>2 DEF TypeOK
<1>4. billed' = [billed EXCEPT ![user[s]] = [billed[user[s]] EXCEPT ![day] = @ + amount]]
  BY DEF Charged
<1>5. billed[u][d] \in Nat
  BY <1>3
<1> HIDE DEF amount
<1>6. CASE user[s] = u /\ d = day
  <2>1. billed'[u][d] = billed[u][d] + amount
    BY <1>2, <1>3, <1>4, <1>6
  <2> QED
    BY <1>1, <1>5, <2>1
<1>7. CASE ~(user[s] = u /\ d = day)
  <2>1. billed'[u][d] = billed[u][d]
    BY <1>2, <1>3, <1>4, <1>7
  <2> QED
    BY <1>5, <1>7, <2>1
<1> QED
  BY <1>6, <1>7

LEMMA BillStep == BillInv /\ [Next]_budgetVars => AllBilled'
<1> SUFFICES ASSUME BillInv, [Next]_budgetVars, NEW u \in Users, NEW d \in Days
             PROVE  Billed(u, d)'
  BY DEF AllBilled
<1>t. TypeOK /\ TypeOK' /\ Billed(u, d)
  BY NextTypeOK DEF BillInv, AllBilled
<1>n. /\ spend[u][d] \in Nat /\ billed[u][d] \in Nat
      /\ spend'[u][d] \in Nat /\ billed'[u][d] \in Nat
  BY <1>t DEF TypeOK
<1>1. ASSUME NEW s \in Slots, NEW v \in Users, NEW b \in Streams, Arrive(s, v, b)
      PROVE  Billed(u, d)'
  <2>1. \A r \in Slots : Owed(r, u, d)' = Owed(r, u, d)
    BY <1>t, <1>1 DEF Arrive, Goto, Owed, TypeOK
  <2> QED
    BY <1>t, <1>n, <1>1, <2>1, SameOwed DEF Arrive
<1>2. ASSUME NEW s \in Slots, Deny(s) \/ UpstreamFails(s)
      PROVE  Billed(u, d)'
  <2>1. pc[s] # "record" /\ Done(s) /\ UNCHANGED <<spend, user, billed>>
    BY <1>2 DEF Deny, UpstreamFails
  <2>2. \A r \in Slots : Owed(r, u, d)' = Owed(r, u, d)
    BY <1>t, <2>1, DoneOwes DEF Owed
  <2> QED
    BY <1>t, <1>n, <2>1, <2>2, SameOwed
<1>3. ASSUME NEW s \in Slots, Admit(s) \/ CheckFails(s)
      PROVE  Billed(u, d)'
  <2>1. /\ pc[s] = "check" /\ pc' = [pc EXCEPT ![s] = "upstream"]
        /\ UNCHANGED <<spend, user, stamp, cost, billed>>
    BY <1>3 DEF Admit, CheckFails, Goto
  <2>2. \A r \in Slots : Owed(r, u, d)' = Owed(r, u, d)
    BY <1>t, <2>1 DEF Owed, TypeOK
  <2> QED
    BY <1>t, <1>n, <2>1, <2>2, SameOwed
<1>4. ASSUME NEW s \in Slots, NEW c \in Costs,
             StreamEnds(s, c) \/ (Answer(s, c) /\ c = NoPrice)
      PROVE  Billed(u, d)'
  <2>1. pc[s] = "upstream" /\ Charged(s, c) /\ Done(s) /\ UNCHANGED <<spend, user>>
    BY <1>4 DEF StreamEnds, Answer
  <2>2. \A r \in Slots : Owed(r, u, d)' = Owed(r, u, d)
    BY <1>t, <2>1, DoneOwes DEF Owed
  <2>3. billed'[u][d] >= billed[u][d]
    BY <1>t, <2>1, ChargedBill
  <2> QED
    BY <1>t, <2>1, <2>2, <2>3, SameOwed
<1>5. ASSUME NEW s \in Slots, NEW c \in Costs, Answer(s, c), c # NoPrice
      PROVE  Billed(u, d)'
  <2>1. /\ pc[s] = "upstream" /\ pc' = [pc EXCEPT ![s] = "record"]
        /\ stamp' = [stamp EXCEPT ![s] = day]
        /\ cost' = [cost EXCEPT ![s] = c]
        /\ Charged(s, c)
        /\ UNCHANGED <<spend, user>>
    BY <1>5 DEF Answer, Goto
  <2>2. \A r \in Slots \ {s} : Owed(r, u, d)' = Owed(r, u, d)
    BY <1>t, <2>1 DEF Owed, TypeOK
  <2>3. /\ Owed(s, u, d) = 0
        /\ Owed(s, u, d)' = IF user[s] = u /\ d = day THEN c ELSE 0
    BY <1>t, <2>1 DEF Owed, TypeOK
  <2>4. c \in Nat
    BY <1>5, CostsAreBounded, BudgetAssumption
  <2>5. /\ billed'[u][d] >= billed[u][d]
        /\ (user[s] = u /\ d = day) => billed'[u][d] = billed[u][d] + c
    BY <1>t, <1>5, <2>1, ChargedBill
  <2>6. spend'[u][d] + Owed(s, u, d)'
            <= spend[u][d] + Owed(s, u, d) + (billed'[u][d] - billed[u][d])
    BY <1>n, <2>1, <2>3, <2>4, <2>5
  <2> QED
    BY <1>t, <2>2, <2>6, OneOwes
<1>6. ASSUME NEW s \in Slots, Record(s)
      PROVE  Billed(u, d)'
  <2>1. /\ pc[s] = "record" /\ Done(s) /\ UNCHANGED <<user, billed>>
        /\ \/ spend' = spend
           \/ spend' = [spend EXCEPT ![user[s]] =
                          [spend[user[s]] EXCEPT ![stamp[s]] = @ + cost[s]]]
    BY <1>6 DEF Record
  <2>2. /\ spend[user[s]] \in [Days -> Nat] /\ spend[u] \in [Days -> Nat]
        /\ cost[s] \in Nat /\ user[s] \in Users
        /\ spend \in [Users -> [Days -> Nat]]
    BY <1>t, BudgetAssumption DEF TypeOK, Days
  <2>3. spend'[u][d] <= spend[u][d] + Owed(s, u, d)
    <3>1. CASE user[s] = u /\ stamp[s] = d
      <4>1. Owed(s, u, d) = cost[s]
        BY <2>1, <3>1 DEF Owed
      <4>2. spend'[u][d] = spend[u][d] \/ spend'[u][d] = spend[u][d] + cost[s]
        BY <2>1, <2>2, <3>1
      <4> QED
        BY <1>n, <2>2, <4>1, <4>2
    <3>2. CASE ~(user[s] = u /\ stamp[s] = d)
      <4>1. Owed(s, u, d) = 0
        BY <3>2 DEF Owed
      <4>2. CASE user[s] # u
        <5>1. spend'[u][d] = spend[u][d]
          BY <2>1, <2>2, <4>2
        <5> QED
          BY <1>n, <4>1, <5>1
      <4>3. CASE user[s] = u /\ stamp[s] # d
        <5>1. spend'[u][d] = spend[u][d]
          BY <2>1, <2>2, <4>3
        <5> QED
          BY <1>n, <4>1, <5>1
      <4> QED
        BY <3>2, <4>2, <4>3
    <3> QED
      BY <3>1, <3>2
  <2>4. /\ Owed(s, u, d)' = 0
        /\ \A r \in Slots \ {s} : Owed(r, u, d)' = Owed(r, u, d)
    <3>1. Done(s) /\ user' = user
      BY <2>1
    <3> QED
      BY <1>t, <3>1, DoneOwes
  <2>5. spend'[u][d] + Owed(s, u, d)'
            <= spend[u][d] + Owed(s, u, d) + (billed'[u][d] - billed[u][d])
    <3>1. Owed(s, u, d) \in Nat
      BY <1>t, OwedType
    <3> QED
      BY <1>n, <2>1, <2>3, <2>4, <3>1
  <2> QED
    BY <1>t, <2>4, <2>5, OneOwes
<1>7. CASE NextDay \/ (\E c \in Caps : Reload(c)) \/ UNCHANGED budgetVars
  <2>1. UNCHANGED <<spend, pc, user, stamp, cost, billed>>
    BY <1>7 DEF NextDay, Reload, budgetVars
  <2>2. \A r \in Slots : Owed(r, u, d)' = Owed(r, u, d)
    BY <2>1 DEF Owed
  <2> QED
    BY <1>t, <1>n, <2>1, <2>2, SameOwed
<1> QED
  BY <1>1, <1>2, <1>3, <1>4, <1>5, <1>6, <1>7 DEF Next

\* For any number of users and concurrent requests and any costs, whatever of
\* them overlaps or straddles midnight, token_usage never holds more for a
\* user's day than the providers billed on it (log_completion, record_usage).
THEOREM NobodyIsOvercharged == Spec => []NeverOvercharged
<1>1. BillInv => NeverOvercharged
  <2> SUFFICES ASSUME BillInv, NEW u \in Users, NEW d \in Days
               PROVE  spend[u][d] <= billed[u][d]
    BY DEF NeverOvercharged
  <2>1. PICK sum : Totals(sum, OwedTo(u, d)) /\ spend[u][d] + sum[Count] <= billed[u][d]
    BY DEF BillInv, AllBilled, Billed
  <2>2. sum[Count] \in Nat
    BY <2>1, NumberingIsBijection DEF Totals
  <2>3. spend[u][d] \in Nat /\ billed[u][d] \in Nat
    BY DEF BillInv, TypeOK
  <2> QED
    BY <2>1, <2>2, <2>3
<1>2. BillInv /\ [Next]_budgetVars => BillInv'
  BY NextTypeOK, BillStep DEF BillInv
<1> QED
  BY <1>1, <1>2, BillInit, PTL DEF Spec
=============================================================================
