--------------------------- MODULE FallbackProofs ---------------------------
(***************************************************************************)
(* Proofs about the fallback executor, for every set of providers and      *)
(* requests, every chain and every setting of the thresholds and timers.   *)
(***************************************************************************)
EXTENDS FallbackRefinement, SequenceTheorems, TLAPS

-----------------------------------------------------------------------------
(* The inductive invariant *)

\* Where `pos` points at an entry of the chain.
AtEntry == {"health", "resolve", "call", "record", "sleep", "recall", "rerecord"}
\* Before the first attempt on the current entry is recorded, and after.
Unrecorded == {"entry", "health", "resolve", "call", "record"}
Retrying   == {"sleep", "recall", "rerecord"}

\* The cursor stays in the chain, and the outcomes that decide are known.
\* Types alone are not inductive: a record's model is read through the cursor.
CursorInv ==
    \A r \in Requests :
        /\ pc[r] = "entry" => pos[r] <= Len(chain[r]) + 1
        /\ pc[r] \in AtEntry => pos[r] <= Len(chain[r])
        /\ pc[r] = "record" => outcome[r] \in CallOutcomes
        /\ pc[r] \in Retrying => outcome[r] = "Retry"
        /\ pc[r] = "rerecord" => retryOutcome[r] \in CallOutcomes

StateInv == TypeOK /\ CursorInv

\* The last record of the log asks for the retry that is still to come.
AwaitsRetry(log) ==
    LET n == Len(log) IN
    /\ n > 0
    /\ log[n].outcome = "Retry"
    /\ n > 1 => log[n - 1].entry < log[n].entry

\* A request that is under way: its log is the walk up to `pos`, without a
\* success.
WalkUnderWay(r) ==
    /\ SuccessesOf(attempts[r]) = {}
    /\ answer[r] = "None"
    /\ pc[r] \in Unrecorded =>
          /\ EntriesOf(attempts[r]) = 1..(pos[r] - 1)
          /\ LastEntry(attempts[r]) = pos[r] - 1
    /\ pc[r] \in Retrying =>
          /\ EntriesOf(attempts[r]) = 1..pos[r]
          /\ LastEntry(attempts[r]) = pos[r]
          /\ AwaitsRetry(attempts[r])

AnswerFits(r) ==
    LET n == Len(attempts[r]) IN
    /\ answer[r] # "None"
    /\ answer[r] = "Ok" => /\ n > 0
                           /\ SuccessesOf(attempts[r]) = {n}
                           /\ LastEntry(attempts[r]) = pos[r]
    /\ answer[r] # "Ok" => SuccessesOf(attempts[r]) = {}
    /\ answer[r] \in {"Fatal", "ContextTooLong"} =>
           n > 0 /\ attempts[r][n].outcome = answer[r]
    /\ answer[r] = "Exhausted" => EntriesOf(attempts[r]) = 1..Len(chain[r])
    /\ answer[r] = "OutOfBudget" =>
           EntriesOf(attempts[r]) = 1..(pos[r] - 1) /\ pos[r] <= Len(chain[r])

RequestInv(r) ==
    /\ FollowsChain(attempts[r])
    /\ pc[r] = "idle" => answer[r] = "None"
    /\ pc[r] # "idle" => fallbackCount[r] = pos[r] - 1
    /\ Running(r) => WalkUnderWay(r)
    /\ pc[r] = "done" => AnswerFits(r)

WalkInv == \A r \in Requests : RequestInv(r)

-----------------------------------------------------------------------------
(* Attempt logs *)

\* A record for the next entry extends a walk.
LEMMA AppendNextEntry ==
    ASSUME NEW log \in Seq(AttemptRecord), NEW e \in AttemptRecord,
           FollowsChain(log), e.entry = LastEntry(log) + 1
    PROVE  FollowsChain(Append(log, e))
<1> DEFINE ext == Append(log, e)
<1>1. /\ DOMAIN ext = 1..(Len(log) + 1)
      /\ ext[Len(log) + 1] = e
      /\ \A i \in 1..Len(log) : ext[i] = log[i]
      /\ DOMAIN log = 1..Len(log)
      /\ Len(log) \in Nat
  OBVIOUS
<1>2. ASSUME NEW i \in DOMAIN ext, i <= Len(log)
      PROVE  \/ i = 1 /\ ext[i].entry = 1
             \/ i > 1 /\ ext[i].entry = ext[i - 1].entry + 1
             \/ /\ i > 1
                /\ ext[i].entry = ext[i - 1].entry
                /\ ext[i - 1].outcome = "Retry"
                /\ ext[i].outcome \in CallOutcomes
                /\ i > 2 => ext[i - 2].entry < ext[i - 1].entry
  BY <1>1, <1>2 DEF FollowsChain
<1>3. CASE log = <<>>
  <2>1. ext[1].entry = 1
    BY <1>1, <1>3 DEF LastEntry
  <2> QED
    BY <1>1, <1>2, <1>3, <2>1 DEF FollowsChain
<1>4. CASE log # <<>>
  <2>1. Len(log) > 0 /\ e.entry = log[Len(log)].entry + 1
    BY <1>1, <1>4 DEF LastEntry
  <2> QED
    BY <1>1, <1>2, <2>1 DEF FollowsChain
<1> QED
  BY <1>3, <1>4

\* So does the record of a retry the log is waiting for.
LEMMA AppendRetry ==
    ASSUME NEW log \in Seq(AttemptRecord), NEW e \in AttemptRecord,
           FollowsChain(log), AwaitsRetry(log),
           e.entry = LastEntry(log), e.outcome \in CallOutcomes
    PROVE  FollowsChain(Append(log, e))
<1> DEFINE ext == Append(log, e)
<1>1. /\ DOMAIN ext = 1..(Len(log) + 1)
      /\ ext[Len(log) + 1] = e
      /\ \A i \in 1..Len(log) : ext[i] = log[i]
      /\ DOMAIN log = 1..Len(log)
      /\ Len(log) \in Nat
  OBVIOUS
<1>2. /\ Len(log) > 0
      /\ e.entry = log[Len(log)].entry
      /\ log[Len(log)].outcome = "Retry"
      /\ Len(log) > 1 => log[Len(log) - 1].entry < log[Len(log)].entry
  BY DEF AwaitsRetry, LastEntry
<1> QED
  BY <1>1, <1>2 DEF FollowsChain

\* What an appended record adds to the parts of a log.
LEMMA AppendParts ==
    ASSUME NEW log \in Seq(AttemptRecord), NEW e \in AttemptRecord
    PROVE  /\ Append(log, e) \in Seq(AttemptRecord)
           /\ Len(Append(log, e)) = Len(log) + 1
           /\ Append(log, e)[Len(log) + 1] = e
           /\ EntriesOf(Append(log, e)) = EntriesOf(log) \cup {e.entry}
           /\ LastEntry(Append(log, e)) = e.entry
           /\ SuccessesOf(Append(log, e)) =
                SuccessesOf(log) \cup {i \in {Len(log) + 1} : e.outcome = "Success"}
<1> DEFINE ext == Append(log, e)
<1>1. /\ ext \in Seq(AttemptRecord)
      /\ Len(ext) = Len(log) + 1
      /\ DOMAIN ext = 1..(Len(log) + 1)
      /\ ext[Len(log) + 1] = e
      /\ \A i \in 1..Len(log) : ext[i] = log[i]
      /\ DOMAIN log = 1..Len(log)
      /\ Len(log) \in Nat
      /\ ext # <<>>
  OBVIOUS
<1>2. EntriesOf(ext) = EntriesOf(log) \cup {e.entry}
  BY <1>1 DEF EntriesOf
<1>3. LastEntry(ext) = e.entry
  BY <1>1 DEF LastEntry
<1>4. SuccessesOf(ext) =
        SuccessesOf(log) \cup {i \in {Len(log) + 1} : e.outcome = "Success"}
  BY <1>1 DEF SuccessesOf
<1> QED
  BY <1>1, <1>2, <1>3, <1>4

-----------------------------------------------------------------------------
(* Type correctness *)

LEMMA NoSettingsType == NoSettings \in Settings
  BY FallbackAssumption DEF NoSettings

\* What a request took from its snapshot has the types of the settings.
LEMMA SettingsType ==
    ASSUME TypeOK, NEW r \in Requests
    PROVE  /\ settings[r] \in Settings
           /\ settings[r].threshold \in 1..MaxThreshold
           /\ settings[r].budget \in Nat
           /\ settings[r].maxWait \in Nat
<1>1. settings[r] \in Settings /\ settings[r] \in RetrySettings
  BY FallbackAssumption DEF TypeOK
<1> QED
  BY <1>1 DEF RetrySettings

\* The current entry names a provider and a model.
LEMMA CurrentEntryType ==
    ASSUME StateInv, NEW r \in Requests, pc[r] \in AtEntry
    PROVE  /\ CurrentEntry(r) \in Entry
           /\ CurrentProvider(r) \in Providers
           /\ CurrentEntry(r).model \in Models
           /\ DefaultModel[CurrentProvider(r)] \in Models
<1>1. pos[r] \in 1..Len(chain[r]) /\ chain[r] \in Seq(Entry)
  BY DEF StateInv, TypeOK, CursorInv
<1>2. CurrentEntry(r) \in Entry
  BY <1>1 DEF CurrentEntry
<1> QED
  BY <1>2, FallbackAssumption DEF CurrentProvider, Entry

\* Recording a health outcome keeps the registry's types.
LEMMA RecordHealthType ==
    ASSUME TypeOK, NEW p \in Providers, NEW o,
           NEW t \in 1..MaxThreshold, RecordHealth(p, o, t)
    PROVE  /\ failures' \in [Providers -> 0..MaxThreshold]
           /\ status' \in [Providers -> {"Healthy", "Down"}]
           /\ cooling' \in [Providers -> 0..Cooldown]
<1> USE FallbackAssumption
<1>1. CASE RecordSuccess(p)
  BY <1>1 DEF RecordSuccess, TypeOK
<1>2. CASE RecordFailure(p, t)
  BY <1>2 DEF RecordFailure, TypeOK
<1> QED
  BY <1>1, <1>2 DEF RecordHealth

\* Recording an attempt keeps the type of the logs.
LEMMA RecordType ==
    ASSUME TypeOK, NEW r \in Requests, NEW model \in Models,
           NEW o \in CallOutcomes \cup SkippedOutcomes, Record(r, model, o)
    PROVE  attempts' \in [Requests -> Seq(AttemptRecord)]
<1>1. [entry |-> pos[r], model |-> model, outcome |-> o] \in AttemptRecord
  BY DEF AttemptRecord, TypeOK
<1> QED
  BY <1>1 DEF Record, TypeOK

\* The types of what recording a call or an attempt changes.
RecordsTyped ==
    /\ failures' \in [Providers -> 0..MaxThreshold]
    /\ status' \in [Providers -> {"Healthy", "Down"}]
    /\ cooling' \in [Providers -> 0..Cooldown]
    /\ attempts' \in [Requests -> Seq(AttemptRecord)]

\* The three ways a step of the executor ends, as far as StateInv goes: it
\* gives up the entry, it returns, or it moves on within the entry.
LEMMA NextEntryKeepsState ==
    ASSUME StateInv, NEW r \in Requests, pc[r] \in AtEntry, NextEntry(r),
           RecordsTyped, UNCHANGED <<registered, chain, callVars>>
    PROVE  StateInv'
<1> USE DEF StateInv, RecordsTyped, NextEntry, Goto, callVars, planVars
<1>1. TypeOK'
  <2>1. pos' \in [Requests -> Nat \ {0}] /\ fallbackCount' \in [Requests -> Nat]
    BY DEF TypeOK
  <2>2. pc' \in [Requests -> {"idle", "entry", "health", "resolve", "call", "record",
                              "sleep", "recall", "rerecord", "done"}]
    BY DEF TypeOK
  <2> QED
    BY <2>1, <2>2 DEF TypeOK
<1>2. CursorInv'
  <2> SUFFICES ASSUME NEW q \in Requests
               PROVE  /\ (pc[q] = "entry" => pos[q] <= Len(chain[q]) + 1)'
                      /\ (pc[q] \in AtEntry => pos[q] <= Len(chain[q]))'
                      /\ (pc[q] = "record" => outcome[q] \in CallOutcomes)'
                      /\ (pc[q] \in Retrying => outcome[q] = "Retry")'
                      /\ (pc[q] = "rerecord" => retryOutcome[q] \in CallOutcomes)'
    BY DEF CursorInv
  <2>1. CASE q = r
    BY <2>1 DEF TypeOK, CursorInv, AtEntry, Retrying
  <2>2. CASE q # r
    BY <2>2 DEF TypeOK, CursorInv
  <2> QED
    BY <2>1, <2>2
<1> QED
  BY <1>1, <1>2

LEMMA ReturnKeepsState ==
    ASSUME StateInv, NEW r \in Requests,
           NEW a \in {"Ok", "Fatal", "ContextTooLong", "OutOfBudget", "Exhausted"},
           Return(r, a), RecordsTyped,
           UNCHANGED <<registered, chain, sleeping>>,
           outcome' = outcome \/ outcome' = [outcome EXCEPT ![r] = "None"],
           retryOutcome' = retryOutcome \/ retryOutcome' = [retryOutcome EXCEPT ![r] = "None"]
    PROVE  StateInv'
<1> USE NoSettingsType DEF StateInv, RecordsTyped, Return, Goto
<1>1. TypeOK'
  BY DEF TypeOK
<1>2. CursorInv'
  BY DEF CursorInv, TypeOK, AtEntry, Retrying
<1> QED
  BY <1>1, <1>2

LEMMA MoveOnKeepsState ==
    ASSUME StateInv, NEW r \in Requests, pos[r] <= Len(chain[r]),
           NEW label \in AtEntry \ {"record", "rerecord"}, Goto(r, label),
           label \in Retrying => outcome[r] = "Retry",
           RecordsTyped,
           UNCHANGED <<registered, chain, callVars, pos, fallbackCount, answer, planVars>>
    PROVE  StateInv'
<1> USE DEF StateInv, RecordsTyped, Goto, callVars, planVars
<1>1. TypeOK'
  BY DEF TypeOK, AtEntry
<1>2. CursorInv'
  BY DEF CursorInv, TypeOK, AtEntry, Retrying
<1> QED
  BY <1>1, <1>2

LEMMA StateInvInductive == StateInv /\ [Next]_vars => StateInv'
<1> USE FallbackAssumption, NoSettingsType
<1> SUFFICES ASSUME StateInv, [Next]_vars PROVE StateInv'
  OBVIOUS
<1> USE DEF StateInv, CursorInv, AtEntry, Retrying, planVars
<1>1. ASSUME NEW r \in Requests, NEW c \in Chains, NEW s \in Settings, Dispatch(r, c, s)
      PROVE  StateInv'
  <2>1. TypeOK'
    BY <1>1 DEF Dispatch, Goto, TypeOK, healthVars
  <2>2. CursorInv'
    BY <1>1 DEF Dispatch, Goto, TypeOK, healthVars
  <2> QED
    BY <2>1, <2>2
<1>2. ASSUME NEW r \in Requests, Exhaust(r)
      PROVE  StateInv'
  <2>1. TypeOK'
    BY <1>2 DEF Exhaust, Return, Goto, TypeOK, healthVars, callVars
  <2>2. CursorInv'
    BY <1>2 DEF Exhaust, Return, Goto, TypeOK, healthVars, callVars
  <2> QED
    BY <2>1, <2>2
<1>3. ASSUME NEW r \in Requests, CheckBudget(r)
      PROVE  StateInv'
  <2>1. TypeOK'
    <3>1. /\ outcome' \in [Requests -> CallOutcomes \cup {"None"}]
          /\ retryOutcome' \in [Requests -> CallOutcomes \cup {"None"}]
      BY <1>3 DEF CheckBudget, TypeOK
    <3>2. UNCHANGED <<registered, healthVars, chain, attempts, sleeping>>
      BY <1>3 DEF CheckBudget
    <3>3. CASE Return(r, "OutOfBudget")
      BY <3>1, <3>2, <3>3 DEF Return, Goto, TypeOK, healthVars
    <3>4. CASE Goto(r, "health") /\ UNCHANGED <<pos, fallbackCount, answer, planVars>>
      BY <3>1, <3>2, <3>4 DEF Goto, TypeOK, healthVars
    <3> QED
      BY <1>3, <3>3, <3>4 DEF CheckBudget
  <2>2. CursorInv'
    BY <1>3 DEF CheckBudget, Return, Goto, TypeOK, healthVars
  <2> QED
    BY <2>1, <2>2
<1>4. ASSUME NEW r \in Requests, CheckHealth(r)
      PROVE  StateInv'
  <2>1. RecordsTyped
    BY <1>4, CurrentEntryType, RecordType
       DEF CheckHealth, SkippedOutcomes, TypeOK, RecordsTyped, healthVars
  <2> QED
    BY <1>4, <2>1, NextEntryKeepsState, MoveOnKeepsState DEF CheckHealth
<1>5. ASSUME NEW r \in Requests, Resolve(r)
      PROVE  StateInv'
  <2>1. RecordsTyped
    BY <1>5, CurrentEntryType, RecordType
       DEF Resolve, SkippedOutcomes, TypeOK, RecordsTyped, healthVars
  <2> QED
    BY <1>5, <2>1, NextEntryKeepsState, MoveOnKeepsState DEF Resolve
<1>6. ASSUME NEW r \in Requests, RecordFirst(r)
      PROVE  StateInv'
  <2>1. RecordsTyped
    BY <1>6, CurrentEntryType, RecordType, RecordHealthType, SettingsType
       DEF RecordFirst, RecordsTyped
  <2> QED
    BY <1>6, <2>1, NextEntryKeepsState, MoveOnKeepsState, ReturnKeepsState
       DEF RecordFirst, callVars
<1>7. ASSUME NEW r \in Requests, Retry(r)
      PROVE  StateInv'
  BY <1>7 DEF Retry, Goto, TypeOK, healthVars, walkVars, callVars
<1>8. ASSUME NEW r \in Requests, RecordRetry(r)
      PROVE  StateInv'
  <2>1. RecordsTyped
    BY <1>8, CurrentEntryType, RecordType, RecordHealthType, SettingsType
       DEF RecordRetry, RecordsTyped
  <2> QED
    BY <1>8, <2>1, NextEntryKeepsState, ReturnKeepsState DEF RecordRetry, callVars
<1>9. ASSUME NEW r \in Requests, Reply(r)
      PROVE  StateInv'
  <2>1. \A reply \in Replies : RetryWait(reply, settings[r].maxWait) \in Nat
    BY SettingsType DEF RetryWait
  <2>2. sleeping' \in [Requests -> Nat]
    BY <1>9, <2>1 DEF Reply, TypeOK
  <2> QED
    BY <1>9, <2>2 DEF Reply, Goto, TypeOK, healthVars, walkVars, Classify, CallOutcomes
<1>10. ASSUME NEW r \in Requests, ReplyAgain(r)
       PROVE  StateInv'
  BY <1>10 DEF ReplyAgain, Goto, TypeOK, healthVars, walkVars, Classify, CallOutcomes
<1>11. ASSUME NEW p \in Providers, Register(p) \/ Deregister(p)
       PROVE  StateInv'
  BY <1>11 DEF Register, Deregister, TypeOK, healthVars, walkVars, callVars
<1>12. CASE Tick
  BY <1>12 DEF Tick, TypeOK, CountDown, Running
<1>13. CASE UNCHANGED vars
  BY <1>13 DEF TypeOK, vars
<1>14. ASSUME NEW r \in Requests, Disconnect(r)
       PROVE  StateInv'
  BY <1>14 DEF Disconnect, Goto, TypeOK, healthVars
<1> QED
  BY <1>1, <1>2, <1>3, <1>4, <1>5, <1>6, <1>7, <1>8, <1>9, <1>10, <1>11, <1>12, <1>13,
     <1>14 DEF Next, Execute, Upstream

LEMMA StateInvHolds == Spec => []StateInv
<1>1. Init => StateInv
  BY FallbackAssumption, NoSettingsType DEF Init, StateInv, TypeOK, CursorInv, AtEntry, Retrying
<1> QED
  BY <1>1, StateInvInductive, PTL DEF Spec

\* Every variable keeps its type: no counter of the executor or of the health
\* registry leaves its range (fallback.rs, health.rs).
THEOREM TypeCorrect == Spec => []TypeOK
<1>1. StateInv => TypeOK
  BY DEF StateInv
<1> QED
  BY <1>1, StateInvHolds, PTL

-----------------------------------------------------------------------------
(* The circuit breaker *)

LEMMA RecordHealthKeepsBreaker ==
    ASSUME TypeOK, BreakerConsistent, NEW p \in Providers, NEW o,
           NEW s \in Settings, RecordHealth(p, o, s.threshold)
    PROVE  BreakerConsistent'
<1>1. /\ s.threshold \in 1..MaxThreshold /\ MaxThreshold \in Nat
      /\ failures[p] \in 0..MaxThreshold /\ Cooldown \in Nat
  BY FallbackAssumption DEF RetrySettings, TypeOK
<1>2. \A q \in Providers \ {p} : /\ status'[q] = status[q]
                                 /\ failures'[q] = failures[q]
                                 /\ cooling'[q] = cooling[q]
  BY DEF RecordHealth, RecordSuccess, RecordFailure, TypeOK
<1>3. CASE RecordSuccess(p)
  <2>1. status'[p] = "Healthy" /\ failures'[p] = 0 /\ cooling'[p] = 0
    BY <1>3 DEF RecordSuccess, TypeOK
  <2>2. failures'[p] < s.threshold
    BY <1>1, <2>1
  <2> QED
    BY <1>2, <2>1, <2>2 DEF BreakerConsistent
<1>4. CASE RecordFailure(p, s.threshold) /\ failures[p] + 1 >= s.threshold
  <2>1. status'[p] = "Down"
    BY <1>4 DEF RecordFailure, TypeOK
  <2>2. failures'[p] >= s.threshold
    BY <1>1, <1>4 DEF RecordFailure, TypeOK
  <2> QED
    BY <1>2, <2>1, <2>2 DEF BreakerConsistent
<1>5. CASE RecordFailure(p, s.threshold) /\ ~(failures[p] + 1 >= s.threshold)
  <2>1. /\ status'[p] = status[p] /\ cooling'[p] = cooling[p]
        /\ failures'[p] = failures[p] + 1
    BY <1>1, <1>5 DEF RecordFailure, TypeOK
  <2>2. failures'[p] < s.threshold
    BY <1>1, <1>5, <2>1
  <2>3. \A u \in Settings : failures[p] >= u.threshold => failures'[p] >= u.threshold
    BY <1>1, <2>1, FallbackAssumption DEF RetrySettings
  <2> QED
    BY <1>2, <2>1, <2>2, <2>3 DEF BreakerConsistent
<1> QED
  BY <1>3, <1>4, <1>5 DEF RecordHealth

\* The breaker's fields agree in every state, whatever the interleaving of
\* record_success and record_failure (health.rs:52-71).
THEOREM BreakerAgreement == Spec => []BreakerConsistent
<1>1. Init => BreakerConsistent
  <2>1. PICK s \in Settings : s.threshold \in 1..MaxThreshold
    BY FallbackAssumption DEF RetrySettings
  <2>2. 0 < s.threshold
    BY <2>1
  <2>3. ASSUME Init, NEW p \in Providers
        PROVE  status[p] = "Healthy" /\ failures[p] = 0 /\ ~(cooling[p] > 0)
    BY <2>3 DEF Init
  <2> QED
    BY <2>2, <2>3 DEF BreakerConsistent
<1>2. StateInv /\ BreakerConsistent /\ [Next]_vars => BreakerConsistent'
  <2> SUFFICES ASSUME StateInv, BreakerConsistent, [Next]_vars
               PROVE  BreakerConsistent'
    OBVIOUS
  <2>1. ASSUME NEW r \in Requests, RecordFirst(r)
        PROVE  BreakerConsistent'
    BY <2>1, CurrentEntryType, RecordHealthKeepsBreaker
       DEF RecordFirst, StateInv, TypeOK, AtEntry
  <2>2. ASSUME NEW r \in Requests, RecordRetry(r)
        PROVE  BreakerConsistent'
    BY <2>2, CurrentEntryType, RecordHealthKeepsBreaker
       DEF RecordRetry, StateInv, TypeOK, AtEntry
  <2>3. CASE Tick
    BY <2>3 DEF Tick, CountDown, BreakerConsistent, StateInv, TypeOK
  <2>4. CASE UNCHANGED healthVars
    BY <2>4 DEF healthVars, BreakerConsistent
  <2>5. ASSUME NEW r \in Requests,
               \/ Exhaust(r) \/ CheckBudget(r) \/ CheckHealth(r) \/ Resolve(r)
               \/ Retry(r) \/ Reply(r) \/ ReplyAgain(r) \/ Disconnect(r)
        PROVE  UNCHANGED healthVars
    BY <2>5 DEF Exhaust, CheckBudget, CheckHealth, Resolve, Retry, Reply, ReplyAgain,
                Disconnect
  <2>6. ASSUME NEW r \in Requests, NEW c \in Chains, NEW s \in Settings, Dispatch(r, c, s)
        PROVE  UNCHANGED healthVars
    BY <2>6 DEF Dispatch
  <2>7. ASSUME NEW p \in Providers, Register(p) \/ Deregister(p)
        PROVE  UNCHANGED healthVars
    BY <2>7 DEF Register, Deregister
  <2>8. CASE UNCHANGED vars
    BY <2>8, <2>4 DEF vars, healthVars
  <2> QED
    BY <2>1, <2>2, <2>3, <2>4, <2>5, <2>6, <2>7, <2>8 DEF Next, Execute, Upstream
<1> QED
  BY <1>1, <1>2, StateInvHolds, PTL DEF Spec

-----------------------------------------------------------------------------
(* The walk *)

\* A request whose own variables do not change keeps its invariant.
Untouched(q) ==
    /\ pc'[q] = pc[q] /\ chain'[q] = chain[q] /\ pos'[q] = pos[q]
    /\ attempts'[q] = attempts[q] /\ fallbackCount'[q] = fallbackCount[q]
    /\ answer'[q] = answer[q]

LEMMA UntouchedKeepsInv ==
    ASSUME NEW q \in Requests, RequestInv(q), Untouched(q)
    PROVE  RequestInv(q)'
  BY DEF Untouched, RequestInv, WalkUnderWay, AnswerFits, Running

\* The log of r after a step that recorded outcome o for the current entry.
Recorded(r, o) ==
    LET log == attempts'[r] IN
    /\ FollowsChain(log)
    /\ EntriesOf(log) = 1..pos[r]
    /\ LastEntry(log) = pos[r]
    /\ Len(log) > 0
    /\ log[Len(log)].outcome = o
    /\ o = "Success" => SuccessesOf(log) = {Len(log)}
    /\ o # "Success" => SuccessesOf(log) = {}

\* The record of a step that first records the current entry.
LEMMA FirstRecord ==
    ASSUME StateInv, NEW r \in Requests, pc[r] \in Unrecorded, RequestInv(r),
           NEW model \in Models, NEW o \in CallOutcomes \cup SkippedOutcomes,
           Record(r, model, o)
    PROVE  /\ Recorded(r, o)
           /\ o = "Retry" => AwaitsRetry(attempts'[r])
<1> DEFINE e == [entry |-> pos[r], model |-> model, outcome |-> o]
           old == attempts[r]
<1>1. /\ e \in AttemptRecord /\ old \in Seq(AttemptRecord) /\ pos[r] \in Nat \ {0}
      /\ attempts'[r] = Append(old, e)
      /\ Len(old) \in Nat
  <2>1. attempts \in [Requests -> Seq(AttemptRecord)] /\ pos \in [Requests -> Nat \ {0}]
    BY DEF StateInv, TypeOK
  <2>2. e \in AttemptRecord
    BY <2>1 DEF AttemptRecord
  <2>3. attempts' = [attempts EXCEPT ![r] = Append(@, e)]
    BY DEF Record
  <2> QED
    BY <2>1, <2>2, <2>3
<1>2. /\ FollowsChain(old) /\ SuccessesOf(old) = {}
      /\ EntriesOf(old) = 1..(pos[r] - 1) /\ LastEntry(old) = pos[r] - 1
  BY DEF RequestInv, WalkUnderWay, Running, Unrecorded
<1>3. FollowsChain(Append(old, e))
  BY <1>1, <1>2, AppendNextEntry
<1>4. /\ Len(Append(old, e)) = Len(old) + 1
      /\ Append(old, e)[Len(old) + 1] = e
      /\ EntriesOf(Append(old, e)) = EntriesOf(old) \cup {e.entry}
      /\ LastEntry(Append(old, e)) = e.entry
      /\ SuccessesOf(Append(old, e)) =
            SuccessesOf(old) \cup {i \in {Len(old) + 1} : e.outcome = "Success"}
  BY <1>1, AppendParts
<1>5. o = "Retry" => AwaitsRetry(Append(old, e))
  <2>1. Len(old) > 0 => Append(old, e)[Len(old)] = old[Len(old)]
    BY <1>1
  <2>2. Len(old) > 0 => old[Len(old)].entry = pos[r] - 1
    BY <1>1, <1>2 DEF LastEntry
  <2> QED
    BY <1>1, <1>4, <2>1, <2>2 DEF AwaitsRetry
<1>6. EntriesOf(Append(old, e)) = 1..pos[r]
  <2>1. 1..pos[r] = (1..(pos[r] - 1)) \cup {pos[r]}
    BY <1>1
  <2>2. e.entry = pos[r]
    OBVIOUS
  <2> QED
    BY <1>2, <1>4, <2>1, <2>2
<1> QED
  BY <1>1, <1>2, <1>3, <1>4, <1>5, <1>6 DEF Recorded

\* The record of a retry.
LEMMA RetryRecord ==
    ASSUME StateInv, NEW r \in Requests, pc[r] \in Retrying, RequestInv(r),
           NEW model \in Models, NEW o \in CallOutcomes, Record(r, model, o)
    PROVE  Recorded(r, o)
<1> DEFINE e == [entry |-> pos[r], model |-> model, outcome |-> o]
           old == attempts[r]
<1>1. /\ e \in AttemptRecord /\ old \in Seq(AttemptRecord) /\ pos[r] \in Nat \ {0}
      /\ attempts'[r] = Append(old, e)
      /\ Len(old) \in Nat
  <2>1. attempts \in [Requests -> Seq(AttemptRecord)] /\ pos \in [Requests -> Nat \ {0}]
    BY DEF StateInv, TypeOK
  <2>2. e \in AttemptRecord
    BY <2>1 DEF AttemptRecord
  <2>3. attempts' = [attempts EXCEPT ![r] = Append(@, e)]
    BY DEF Record
  <2> QED
    BY <2>1, <2>2, <2>3
<1>2. /\ FollowsChain(old) /\ SuccessesOf(old) = {} /\ AwaitsRetry(old)
      /\ EntriesOf(old) = 1..pos[r] /\ LastEntry(old) = pos[r]
  BY DEF RequestInv, WalkUnderWay, Running, Retrying
<1>3. FollowsChain(Append(old, e))
  BY <1>1, <1>2, AppendRetry
<1>4. /\ Len(Append(old, e)) = Len(old) + 1
      /\ Append(old, e)[Len(old) + 1] = e
      /\ EntriesOf(Append(old, e)) = EntriesOf(old) \cup {e.entry}
      /\ LastEntry(Append(old, e)) = e.entry
      /\ SuccessesOf(Append(old, e)) =
            SuccessesOf(old) \cup {i \in {Len(old) + 1} : e.outcome = "Success"}
  BY <1>1, AppendParts
<1>5. EntriesOf(Append(old, e)) = 1..pos[r]
  <2>1. 1..pos[r] = (1..pos[r]) \cup {pos[r]}
    BY <1>1
  <2>2. e.entry = pos[r]
    OBVIOUS
  <2> QED
    BY <1>2, <1>4, <2>1, <2>2
<1> QED
  BY <1>1, <1>2, <1>3, <1>4, <1>5 DEF Recorded

\* Giving up an entry that was recorded without a success.
LEMMA GiveUpKeepsInv ==
    ASSUME StateInv, NEW r \in Requests, RequestInv(r), pc[r] \in AtEntry,
           NEW o, Recorded(r, o), o # "Success", NextEntry(r), chain' = chain
    PROVE  RequestInv(r)'
<1>1. /\ pos'[r] = pos[r] + 1 /\ pc'[r] = "entry" /\ chain'[r] = chain[r]
      /\ fallbackCount'[r] = fallbackCount[r] + 1 /\ answer'[r] = answer[r]
      /\ pos[r] \in Nat \ {0} /\ fallbackCount[r] \in Nat
  BY DEF NextEntry, Goto, StateInv, TypeOK
<1>2. fallbackCount[r] = pos[r] - 1 /\ answer[r] = "None"
  BY DEF RequestInv, Running, WalkUnderWay, AtEntry
<1>3. pos'[r] - 1 = pos[r] /\ fallbackCount'[r] = pos'[r] - 1
  BY <1>1, <1>2
<1>4. /\ FollowsChain(attempts'[r]) /\ SuccessesOf(attempts'[r]) = {}
      /\ EntriesOf(attempts'[r]) = 1..(pos'[r] - 1)
      /\ LastEntry(attempts'[r]) = pos'[r] - 1
  BY <1>3 DEF Recorded
<1> QED
  BY <1>1, <1>2, <1>3, <1>4
     DEF RequestInv, WalkUnderWay, Running, Retrying

\* Returning with the outcome that was recorded.
LEMMA ReturnKeepsInv ==
    ASSUME StateInv, NEW r \in Requests, RequestInv(r), pc[r] \in AtEntry,
           NEW o, Recorded(r, o), NEW a, Return(r, a), chain' = chain,
           \/ a = "Ok" /\ o = "Success"
           \/ a \in {"Fatal", "ContextTooLong"} /\ o = a
    PROVE  RequestInv(r)'
<1>1. /\ pos'[r] = pos[r] /\ pc'[r] = "done" /\ answer'[r] = a
      /\ fallbackCount'[r] = fallbackCount[r]
  BY DEF Return, Goto, StateInv, TypeOK
<1>2. fallbackCount[r] = pos[r] - 1
  BY DEF RequestInv, AtEntry
<1>3. AnswerFits(r)'
  BY <1>1 DEF AnswerFits, Recorded
<1> QED
  BY <1>1, <1>2, <1>3 DEF RequestInv, Running, Recorded

\* Moving on without a record.
LEMMA MoveOnKeepsInv ==
    ASSUME NEW r \in Requests, StateInv, RequestInv(r), NEW label, Goto(r, label),
           \/ pc[r] \in Unrecorded /\ label \in Unrecorded
           \/ pc[r] \in Retrying /\ label \in Retrying,
           UNCHANGED <<chain, pos, attempts, fallbackCount, answer>>
    PROVE  RequestInv(r)'
<1>1. /\ pc'[r] = label /\ pos'[r] = pos[r] /\ chain'[r] = chain[r]
      /\ attempts'[r] = attempts[r] /\ fallbackCount'[r] = fallbackCount[r]
      /\ answer'[r] = answer[r]
  BY DEF Goto, StateInv, TypeOK
<1> QED
  BY <1>1 DEF RequestInv, WalkUnderWay, Running, Unrecorded, Retrying

LEMMA WalkInvInductive == StateInv /\ WalkInv /\ [Next]_vars => WalkInv'
<1> SUFFICES ASSUME StateInv, WalkInv, [Next]_vars, NEW q \in Requests
             PROVE  RequestInv(q)'
  BY DEF WalkInv
<1>0. RequestInv(q)
  BY DEF WalkInv
<1>1. ASSUME NEW r \in Requests, r # q,
             \/ \E c \in Chains, s \in Settings : Dispatch(r, c, s)
             \/ Execute(r) \/ Upstream(r) \/ Disconnect(r)
      PROVE  RequestInv(q)'
  <2>1. Untouched(q)
    <3>1. CASE \E c \in Chains, s \in Settings : Dispatch(r, c, s)
      BY <1>1, <3>1 DEF Dispatch, Goto, Untouched, StateInv, TypeOK
    <3>2. CASE Exhaust(r) \/ CheckBudget(r) \/ Retry(r)
      BY <1>1, <3>2 DEF Exhaust, CheckBudget, Retry, Return, Goto, Untouched,
                        StateInv, TypeOK, walkVars
    <3>3. CASE CheckHealth(r) \/ Resolve(r)
      BY <1>1, <3>3 DEF CheckHealth, Resolve, Record, NextEntry, Goto, Untouched,
                        StateInv, TypeOK
    <3>4. CASE RecordFirst(r)
      BY <1>1, <3>4 DEF RecordFirst, Record, NextEntry, Return, Goto, Untouched,
                        StateInv, TypeOK
    <3>5. CASE RecordRetry(r)
      BY <1>1, <3>5 DEF RecordRetry, Record, NextEntry, Return, Goto, Untouched,
                        StateInv, TypeOK
    <3>6. CASE Upstream(r)
      BY <1>1, <3>6 DEF Upstream, Reply, ReplyAgain, Goto, Untouched, StateInv,
                        TypeOK, walkVars
    <3>7. CASE Disconnect(r)
      BY <1>1, <3>7 DEF Disconnect, Goto, Untouched, StateInv, TypeOK
    <3> QED
      BY <1>1, <3>1, <3>2, <3>3, <3>4, <3>5, <3>6, <3>7 DEF Execute
  <2> QED
    BY <1>0, <2>1, UntouchedKeepsInv
<1>2. ASSUME NEW c \in Chains, NEW s \in Settings, Dispatch(q, c, s)
      PROVE  RequestInv(q)'
  <2>1. /\ pc'[q] = "entry" /\ chain'[q] = c /\ pos'[q] = 1 /\ attempts'[q] = <<>>
        /\ fallbackCount'[q] = 0 /\ answer'[q] = "None"
    BY <1>2 DEF Dispatch, Goto, StateInv, TypeOK
  <2>2. /\ FollowsChain(<<>>) /\ EntriesOf(<<>>) = {} /\ SuccessesOf(<<>>) = {}
        /\ LastEntry(<<>>) = 0
    BY DEF FollowsChain, EntriesOf, SuccessesOf, LastEntry
  <2> QED
    BY <2>1, <2>2 DEF RequestInv, WalkUnderWay, Running, Retrying
<1>3. ASSUME Exhaust(q)
      PROVE  RequestInv(q)'
  <2>1. /\ pc[q] = "entry" /\ pos[q] = Len(chain[q]) + 1 /\ chain[q] \in Seq(Entry)
    BY <1>3 DEF Exhaust, StateInv, TypeOK, CursorInv
  <2>2. /\ pc'[q] = "done" /\ answer'[q] = "Exhausted" /\ pos'[q] = pos[q]
        /\ chain'[q] = chain[q] /\ attempts'[q] = attempts[q]
        /\ fallbackCount'[q] = fallbackCount[q]
    BY <1>3 DEF Exhaust, Return, Goto, StateInv, TypeOK
  <2>3. pos[q] - 1 = Len(chain[q])
    BY <2>1
  <2> QED
    BY <1>0, <2>1, <2>2, <2>3
       DEF RequestInv, WalkUnderWay, AnswerFits, Running, Unrecorded
<1>4. ASSUME CheckBudget(q)
      PROVE  RequestInv(q)'
  <2>1. CASE Goto(q, "health") /\ UNCHANGED <<pos, fallbackCount, answer>>
    BY <1>0, <1>4, <2>1, MoveOnKeepsInv DEF CheckBudget, Unrecorded
  <2>2. CASE Return(q, "OutOfBudget")
    <3>1. /\ pc[q] = "entry" /\ pos[q] <= Len(chain[q])
          /\ pc'[q] = "done" /\ answer'[q] = "OutOfBudget" /\ pos'[q] = pos[q]
          /\ chain'[q] = chain[q] /\ attempts'[q] = attempts[q]
          /\ fallbackCount'[q] = fallbackCount[q]
      BY <1>4, <2>2 DEF CheckBudget, Return, Goto, StateInv, TypeOK
    <3> QED
      BY <1>0, <3>1 DEF RequestInv, WalkUnderWay, AnswerFits, Running, Unrecorded
  <2> QED
    BY <1>4, <2>1, <2>2 DEF CheckBudget
<1>5. ASSUME CheckHealth(q) \/ Resolve(q)
      PROVE  RequestInv(q)'
  <2>1. pc[q] \in {"health", "resolve"} /\ chain' = chain
    BY <1>5 DEF CheckHealth, Resolve
  <2>2. CASE /\ Goto(q, "resolve") \/ Goto(q, "call")
             /\ UNCHANGED <<pos, fallbackCount, answer, attempts>>
    BY <1>0, <2>1, <2>2, MoveOnKeepsInv DEF Unrecorded
  <2>3. ASSUME NEW o \in SkippedOutcomes,
               Record(q, CurrentEntry(q).model, o), NextEntry(q)
        PROVE  RequestInv(q)'
    <3>1. Recorded(q, o)
      BY <1>0, <2>1, <2>3, CurrentEntryType, FirstRecord DEF AtEntry, Unrecorded
    <3> QED
      BY <1>0, <2>1, <2>3, <3>1, GiveUpKeepsInv DEF AtEntry, SkippedOutcomes
  <2> QED
    BY <1>5, <2>2, <2>3 DEF CheckHealth, Resolve, SkippedOutcomes
<1>6. ASSUME RecordFirst(q)
      PROVE  RequestInv(q)'
  <2>1. /\ pc[q] = "record" /\ outcome[q] \in CallOutcomes /\ chain' = chain
        /\ Record(q, DefaultModel[CurrentProvider(q)], outcome[q])
    BY <1>6 DEF RecordFirst, StateInv, CursorInv
  <2>2. /\ Recorded(q, outcome[q])
        /\ outcome[q] = "Retry" => AwaitsRetry(attempts'[q])
    BY <1>0, <2>1, CurrentEntryType, FirstRecord DEF AtEntry, Unrecorded
  <2>3. CASE outcome[q] = "Success" /\ Return(q, "Ok")
    BY <1>0, <2>1, <2>2, <2>3, ReturnKeepsInv DEF AtEntry
  <2>4. CASE outcome[q] = "Fatal" /\ Return(q, "Fatal")
    BY <1>0, <2>1, <2>2, <2>4, ReturnKeepsInv DEF AtEntry
  <2>5. CASE outcome[q] = "ContextTooLong" /\ Return(q, "ContextTooLong")
    BY <1>0, <2>1, <2>2, <2>5, ReturnKeepsInv DEF AtEntry
  <2>6. CASE outcome[q] = "Skip" /\ NextEntry(q)
    BY <1>0, <2>1, <2>2, <2>6, GiveUpKeepsInv DEF AtEntry
  <2>7. CASE /\ outcome[q] = "Retry" /\ Goto(q, "sleep")
             /\ UNCHANGED <<pos, fallbackCount, answer>>
    <3>1. /\ pc'[q] = "sleep" /\ pos'[q] = pos[q] /\ answer'[q] = answer[q]
          /\ fallbackCount'[q] = fallbackCount[q]
      BY <2>7 DEF Goto, StateInv, TypeOK
    <3> QED
      BY <1>0, <2>1, <2>2, <2>7, <3>1
         DEF RequestInv, WalkUnderWay, Running, Recorded, Unrecorded
  <2> QED
    BY <1>6, <2>3, <2>4, <2>5, <2>6, <2>7 DEF RecordFirst
<1>7. ASSUME RecordRetry(q)
      PROVE  RequestInv(q)'
  <2>1. /\ pc[q] = "rerecord" /\ retryOutcome[q] \in CallOutcomes /\ chain' = chain
        /\ outcome[q] = "Retry"
        /\ Record(q, DefaultModel[CurrentProvider(q)], retryOutcome[q])
    BY <1>7 DEF RecordRetry, StateInv, CursorInv, Retrying
  <2>2. Recorded(q, retryOutcome[q])
    BY <1>0, <2>1, CurrentEntryType, RetryRecord DEF AtEntry, Retrying
  <2>3. CASE retryOutcome[q] = "Success" /\ Return(q, "Ok")
    BY <1>0, <2>1, <2>2, <2>3, ReturnKeepsInv DEF AtEntry
  <2>4. CASE retryOutcome[q] # "Success" /\ NextEntry(q)
    BY <1>0, <2>1, <2>2, <2>4, GiveUpKeepsInv DEF AtEntry
  <2> QED
    BY <1>7, <2>1, <2>3, <2>4 DEF RecordRetry
<1>8. ASSUME Retry(q) \/ Upstream(q)
      PROVE  RequestInv(q)'
  <2>1. /\ UNCHANGED <<chain, pos, attempts, fallbackCount, answer>>
        /\ \/ pc[q] = "sleep" /\ Goto(q, "recall")
           \/ pc[q] = "call" /\ Goto(q, "record")
           \/ pc[q] = "recall" /\ Goto(q, "rerecord")
    BY <1>8 DEF Retry, Upstream, Reply, ReplyAgain, walkVars
  <2> QED
    BY <1>0, <2>1, MoveOnKeepsInv DEF Unrecorded, Retrying
<1>9. CASE \/ \E p \in Providers : Register(p) \/ Deregister(p)
           \/ Tick
           \/ UNCHANGED vars
  <2>1. Untouched(q)
    BY <1>9 DEF Register, Deregister, Tick, vars, walkVars, Untouched
  <2> QED
    BY <1>0, <2>1, UntouchedKeepsInv
<1>10. ASSUME Disconnect(q)
       PROVE  RequestInv(q)'
  <2>1. /\ pc'[q] = "idle" /\ attempts'[q] = <<>> /\ answer'[q] = answer[q]
        /\ Running(q)
    BY <1>10 DEF Disconnect, Goto, StateInv, TypeOK
  <2>2. answer[q] = "None" /\ FollowsChain(<<>>)
    BY <1>0, <2>1 DEF RequestInv, WalkUnderWay, FollowsChain
  <2> QED
    BY <2>1, <2>2 DEF RequestInv, Running
<1> QED
  BY <1>1, <1>2, <1>3, <1>4, <1>5, <1>6, <1>7, <1>8, <1>9, <1>10 DEF Next, Execute

LEMMA WalkInvHolds == Spec => [](StateInv /\ WalkInv)
<1>1. Init => WalkInv
  <2>1. /\ FollowsChain(<<>>)
    BY DEF FollowsChain
  <2> QED
    BY <2>1 DEF Init, WalkInv, RequestInv, Running
<1> QED
  BY <1>1, WalkInvInductive, StateInvHolds, PTL DEF Spec

\* The attempt log of every request is a walk of its chain (fallback.rs:175-323).
THEOREM WalkCorrect == Spec => []AttemptsFollowChain
<1>1. WalkInv => AttemptsFollowChain
  BY DEF WalkInv, RequestInv, AttemptsFollowChain
<1> QED
  BY <1>1, WalkInvHolds, PTL

\* Whatever `execute` returns is what the attempts say (fallback.rs:175-329).
THEOREM AnswerCorrect == Spec => []AnswerMatchesAttempts
<1>1. StateInv /\ WalkInv => AnswerMatchesAttempts
  BY DEF WalkInv, RequestInv, AnswerFits, AnswerMatchesAttempts
<1> QED
  BY <1>1, WalkInvHolds, PTL

\* The fallback_count of a result counts the entries given up before the one
\* that answered (fallback.rs:194, 208, 322).
THEOREM FallbackCountCorrect == Spec => []FallbackCountIsEntriesGivenUp
<1>1. StateInv /\ WalkInv => FallbackCountIsEntriesGivenUp
  <2> SUFFICES ASSUME StateInv, WalkInv, NEW r \in Requests, answer[r] = "Ok"
               PROVE  fallbackCount[r] = LastEntry(attempts[r]) - 1
    BY DEF FallbackCountIsEntriesGivenUp
  <2>1. pc[r] = "done"
    BY DEF WalkInv, RequestInv, WalkUnderWay, Running
  <2> QED
    BY <2>1 DEF WalkInv, RequestInv, AnswerFits
<1> QED
  BY <1>1, WalkInvHolds, PTL

-----------------------------------------------------------------------------
(* Refinement *)

\* What a step of r does to the other requests, seen through the mapping.
LEMMA OnlyMaps ==
    ASSUME StateInv, NEW r \in Requests,
           \A q \in Requests \ {r} : pc'[q] = pc[q] /\ answer'[q] = answer[q]
    PROVE  /\ [q \in Requests |-> PhaseOf(q)]' =
                [[q \in Requests |-> PhaseOf(q)] EXCEPT ![r] = PhaseOf(r)']
           /\ [q \in Requests |-> CallsOf(q)]' =
                [[q \in Requests |-> CallsOf(q)] EXCEPT ![r] = CallsOf(r)']
<1>1. \A q \in Requests \ {r} : PhaseOf(q)' = PhaseOf(q) /\ CallsOf(q)' = CallsOf(q)
  BY DEF PhaseOf, CallsOf
<1> QED
  BY <1>1

LEMMA PromiseStep ==
    StateInv /\ WalkInv /\ [Next]_vars => [Promise!Next]_(Promise!dvars)
<1> SUFFICES ASSUME StateInv, WalkInv, [Next]_vars
             PROVE  Promise!Next \/ UNCHANGED Promise!dvars
  OBVIOUS
<1> DEFINE phase  == [q \in Requests |-> PhaseOf(q)]
           length == [q \in Requests |-> Len(chain[q])]
           calls  == [q \in Requests |-> CallsOf(q)]
<1>1. ASSUME NEW r \in Requests, NEW c \in Chains, NEW s \in Settings, Dispatch(r, c, s)
      PROVE  Promise!Accept(r, Len(c))
  <2>1. /\ pc[r] \in {"idle", "done"} /\ pc'[r] = "entry"
        /\ \A q \in Requests \ {r} : pc'[q] = pc[q] /\ answer'[q] = answer[q]
    BY <1>1 DEF Dispatch, Goto, StateInv, TypeOK
  <2>2. PhaseOf(r) # "running" /\ PhaseOf(r)' = "running" /\ CallsOf(r)' = 0
    BY <2>1 DEF PhaseOf, CallsOf
  <2>3. phase' = [phase EXCEPT ![r] = "running"] /\ calls' = [calls EXCEPT ![r] = 0]
    BY <2>1, <2>2, OnlyMaps
  <2>4. length' = [length EXCEPT ![r] = Len(c)] /\ pos' = [pos EXCEPT ![r] = 1]
    BY <1>1 DEF Dispatch, StateInv, TypeOK
  <2> QED
    BY <2>2, <2>3, <2>4 DEF Promise!Accept
<1>2. ASSUME NEW r \in Requests, Reply(r) \/ ReplyAgain(r)
      PROVE  Promise!Ask(r)
  <2>1. /\ \/ pc[r] = "call" /\ pc'[r] = "record"
           \/ pc[r] = "recall" /\ pc'[r] = "rerecord"
        /\ \A q \in Requests \ {r} : pc'[q] = pc[q] /\ answer'[q] = answer[q]
        /\ chain' = chain /\ pos' = pos
        /\ pos[r] <= Len(chain[r])
    BY <1>2 DEF Reply, ReplyAgain, Goto, walkVars, StateInv, TypeOK, CursorInv, AtEntry
  <2>2. /\ PhaseOf(r) = "running" /\ PhaseOf(r)' = "running"
        /\ CallsOf(r)' = CallsOf(r) + 1 /\ CallsOf(r) \in {0, 1}
    BY <2>1 DEF PhaseOf, CallsOf
  <2>3. phase' = phase /\ calls' = [calls EXCEPT ![r] = CallsOf(r) + 1]
    BY <2>1, <2>2, OnlyMaps
  <2> QED
    BY <2>1, <2>2, <2>3 DEF Promise!Ask, MaxCallsPerEntry
<1>3. ASSUME NEW r \in Requests, pc[r] \in AtEntry, NextEntry(r), chain' = chain
      PROVE  Promise!Advance(r)
  <2>1. /\ pc'[r] = "entry"
        /\ \A q \in Requests \ {r} : pc'[q] = pc[q] /\ answer'[q] = answer[q]
        /\ pos' = [pos EXCEPT ![r] = pos[r] + 1]
        /\ pos[r] <= Len(chain[r])
    BY <1>3 DEF NextEntry, Goto, StateInv, TypeOK, CursorInv
  <2>2. PhaseOf(r) = "running" /\ PhaseOf(r)' = "running" /\ CallsOf(r)' = 0
    BY <1>3, <2>1 DEF PhaseOf, CallsOf, AtEntry
  <2>3. phase' = phase /\ calls' = [calls EXCEPT ![r] = 0]
    BY <2>1, <2>2, OnlyMaps
  <2> QED
    BY <1>3, <2>1, <2>2, <2>3 DEF Promise!Advance
<1>4. ASSUME NEW r \in Requests, Running(r), NEW a, Return(r, a), chain' = chain,
             a = "Ok" => pc[r] \in {"record", "rerecord"}
      PROVE  Promise!Succeed(r) \/ Promise!Fail(r)
  <2>1. /\ pc'[r] = "done" /\ answer'[r] = a
        /\ \A q \in Requests \ {r} : pc'[q] = pc[q] /\ answer'[q] = answer[q]
        /\ pos' = pos
    BY <1>4 DEF Return, Goto, StateInv, TypeOK
  <2>2. /\ PhaseOf(r) = "running" /\ CallsOf(r)' = 0
        /\ PhaseOf(r)' = IF a = "Ok" THEN "ok" ELSE "failed"
        /\ a = "Ok" => CallsOf(r) > 0
    BY <1>4, <2>1 DEF PhaseOf, CallsOf, Running
  <2>3. /\ phase' = [phase EXCEPT ![r] = IF a = "Ok" THEN "ok" ELSE "failed"]
        /\ calls' = [calls EXCEPT ![r] = 0]
    BY <2>1, <2>2, OnlyMaps
  <2> QED
    BY <1>4, <2>1, <2>2, <2>3 DEF Promise!Succeed, Promise!Fail
<1>5. ASSUME NEW r \in Requests, NEW label, Goto(r, label), chain' = chain,
             UNCHANGED <<pos, answer>>,
             \/ pc[r] \in {"entry", "health", "resolve"}
                /\ label \in {"health", "resolve", "call"}
             \/ pc[r] \in {"record", "sleep"} /\ label \in {"sleep", "recall"}
      PROVE  UNCHANGED Promise!dvars
  <2>1. /\ pc'[r] = label
        /\ \A q \in Requests \ {r} : pc'[q] = pc[q] /\ answer'[q] = answer[q]
    BY <1>5 DEF Goto, StateInv, TypeOK
  <2>2. PhaseOf(r)' = PhaseOf(r) /\ CallsOf(r)' = CallsOf(r)
    BY <1>5, <2>1 DEF PhaseOf, CallsOf
  <2>3. phase' = phase /\ calls' = calls
    BY <2>1, <2>2, OnlyMaps
  <2> QED
    BY <1>5, <2>3 DEF Promise!dvars
<1>6. CASE \E r \in Requests : Execute(r)
  <2> SUFFICES ASSUME NEW r \in Requests, Execute(r)
               PROVE  \/ Promise!Advance(r) \/ Promise!Succeed(r) \/ Promise!Fail(r)
                      \/ UNCHANGED Promise!dvars
    BY <1>6 DEF Promise!Next
  <2>1. CASE Exhaust(r)
    BY <2>1, <1>4 DEF Exhaust, Running
  <2>2. CASE CheckBudget(r)
    BY <2>2, <1>4, <1>5 DEF CheckBudget, Running
  <2>3. CASE CheckHealth(r)
    BY <2>3, <1>3, <1>5 DEF CheckHealth, AtEntry
  <2>4. CASE Resolve(r)
    BY <2>4, <1>3, <1>5 DEF Resolve, AtEntry
  <2>5. CASE RecordFirst(r)
    BY <2>5, <1>3, <1>4, <1>5 DEF RecordFirst, AtEntry, Running
  <2>6. CASE Retry(r)
    BY <2>6, <1>5 DEF Retry, walkVars
  <2>7. CASE RecordRetry(r)
    BY <2>7, <1>3, <1>4 DEF RecordRetry, AtEntry, Running
  <2> QED
    BY <2>1, <2>2, <2>3, <2>4, <2>5, <2>6, <2>7 DEF Execute
<1>7. CASE \/ \E p \in Providers : Register(p) \/ Deregister(p)
           \/ Tick
           \/ UNCHANGED vars
  <2>1. UNCHANGED <<pc, chain, pos, answer>>
    BY <1>7 DEF Register, Deregister, Tick, vars, walkVars
  <2> QED
    BY <2>1 DEF Promise!dvars, PhaseOf, CallsOf
<1>8. ASSUME NEW r \in Requests, Disconnect(r)
      PROVE  Promise!Withdraw(r)
  <2>1. /\ Running(r) /\ pc'[r] = "idle"
        /\ \A q \in Requests \ {r} : pc'[q] = pc[q] /\ answer'[q] = answer[q]
    BY <1>8 DEF Disconnect, Goto, StateInv, TypeOK
  <2>2. PhaseOf(r) = "running" /\ PhaseOf(r)' = "idle" /\ CallsOf(r)' = 0
    BY <2>1 DEF PhaseOf, CallsOf, Running
  <2>3. phase' = [phase EXCEPT ![r] = "idle"] /\ calls' = [calls EXCEPT ![r] = 0]
    BY <2>1, <2>2, OnlyMaps
  <2>4. length' = [length EXCEPT ![r] = 0] /\ pos' = [pos EXCEPT ![r] = 1]
    BY <1>8 DEF Disconnect, StateInv, TypeOK
  <2> QED
    BY <2>2, <2>3, <2>4 DEF Promise!Withdraw
<1> QED
  BY <1>1, <1>2, <1>6, <1>7, <1>8 DEF Next, Upstream, Promise!Next

\* The executor implements DispatchPromise: the initial states map to initial
\* states and every step to a step of the promise or a stutter.
THEOREM ExecutorKeepsPromise == Spec => ImplementsPromise
<1>1. Init => Promise!Init
  BY DEF Init, Promise!Init, PhaseOf, CallsOf
<1> QED
  BY <1>1, PromiseStep, WalkInvHolds, PTL DEF Spec, ImplementsPromise
=============================================================================
