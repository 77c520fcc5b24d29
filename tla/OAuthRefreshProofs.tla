------------------------- MODULE OAuthRefreshProofs -------------------------
(***************************************************************************)
(* Proofs about KeyStore, for any number of workers, ids, keys and master  *)
(* keys, and behind them about OAuthRefresh, which keeps its tokens there, *)
(* for any number of workers and logins.                                   *)
(*                                                                         *)
(* Of the store: CoherentUnlessDisturbed is not inductive; the             *)
(* strengthening says what an operation in flight may assume of the table  *)
(* while its id is undisturbed, and that a disturbed operation knows it    *)
(* is.  Of the tokens: every step of the credential manager is a step of   *)
(* the store or leaves it alone, so what holds of the store holds of the   *)
(* tokens in it.                                                           *)
(***************************************************************************)
EXTENDS OAuthRefresh, TLAPS

-----------------------------------------------------------------------------
(* The key store: the strengthening *)

\* An undisturbed operation has its id to itself.
AloneMeansAlone ==
    \A w \in Workers : alone[w] =>
        /\ pc[w] # "idle"
        /\ \A v \in Workers : pc[v] # "idle" /\ pid[v] = pid[w] => v = w
        /\ \A j \in detached : j.pid # pid[w]

\* Past its statement, an undisturbed write finds its own row in the table.
AloneFindsItsRow ==
    \A w \in Workers : alone[w] =>
        /\ pc[w] = "publish" => table[pid[w]] = [secret |-> val[w], master |-> master]
        /\ pc[w] = "forget" => table[pid[w]] = NoRow

\* Statements of dropped handlers, and writes that overlap, disturb the id.
CleanMeansQuiet ==
    /\ \A j \in detached : ~clean[j.pid]
    /\ \A w \in Workers : clean[pid[w]] /\ pc[w] \in Writing => alone[w]

\* A read of an undisturbed id is about to cache the row that is there.
CleanReadIsFresh ==
    \A w \in Workers : clean[pid[w]] /\ pc[w] = "fill" =>
        table[pid[w]] = [secret |-> val[w], master |-> master]

\* Between its statement and the cache is the only time an undisturbed write
\* leaves them apart.
CleanAgrees ==
    \A p \in Pids :
        clean[p] => \/ Agrees(p)
                    \/ \E w \in Workers : pid[w] = p /\ pc[w] \in {"publish", "forget"}

CoherenceInv ==
    /\ TypeOK
    /\ AloneMeansAlone
    /\ AloneFindsItsRow
    /\ CleanMeansQuiet
    /\ CleanReadIsFresh
    /\ CleanAgrees

\* Every copy of a key stems from a row of the id it is kept under.
RowsWereStored   == \A p \in Pids : table[p] # NoRow => table[p].secret \in stored[p]
CopiesWereStored == \A p \in Pids : cache[p] # NoKey => cache[p] \in stored[p]
HeldWereStored   ==
    \A w \in Workers : pc[w] \in {"publish", "fill"} => val[w] \in stored[pid[w]]

ProvenanceInv ==
    TypeOK /\ AnswersWereStored /\ RowsWereStored /\ CopiesWereStored /\ HeldWereStored

-----------------------------------------------------------------------------
(* The key store: types *)

LEMMA InitTypeOK == Init => TypeOK
  BY DEF Init, TypeOK, Answer, Job

LEMMA BeginType ==
    ASSUME TypeOK, NEW w \in Workers, NEW p \in Pids, NEW writes \in BOOLEAN,
           Begin(w, p, writes)
    PROVE  /\ pid' \in [Workers -> Pids]
           /\ answer' \in [Workers -> Answer]
           /\ alone' \in [Workers -> BOOLEAN]
           /\ clean' \in [Pids -> BOOLEAN]
  BY DEF TypeOK, Begin, Answer

LEMMA FinishType ==
    ASSUME TypeOK, NEW w \in Workers, NEW a \in Answer, Finish(w, a)
    PROVE  /\ pc' \in [Workers -> {"idle"} \cup Writing \cup Reading]
           /\ answer' \in [Workers -> Answer]
           /\ val' \in [Workers -> Secrets \cup {NoKey}]
           /\ alone' \in [Workers -> BOOLEAN]
           /\ \A v \in Workers : pc'[v] \in {"write", "publish", "fill"} =>
                                     val'[v] \in Secrets
  BY DEF TypeOK, Finish, Goto, Answer

\* No operation of the store, dropped or not, puts anything but keys and rows
\* where they belong.
LEMMA NextTypeOK == TypeOK /\ [Next]_storeVars => TypeOK'
<1> SUFFICES ASSUME TypeOK, [Next]_storeVars PROVE TypeOK'
  OBVIOUS
<1>1. ASSUME NEW w \in Workers, NEW p \in Pids, StartGet(w, p)
      PROVE  TypeOK'
  <2>1. CASE cache[p] # NoKey
    <3>1. cache[p] \in Answer
      BY DEF TypeOK, Answer
    <3>2. Finish(w, cache[p])
      BY <1>1, <2>1 DEF StartGet
    <3> QED
      BY <1>1, <2>1, <3>1, <3>2, FinishType DEF StartGet, TypeOK
  <2>2. CASE cache[p] = NoKey
    <3>1. Begin(w, p, FALSE) /\ Goto(w, "read") /\ UNCHANGED val
      BY <1>1, <2>2 DEF StartGet
    <3> QED
      BY <1>1, <3>1, BeginType DEF StartGet, Goto, TypeOK, Reading
  <2> QED
    BY <2>1, <2>2
<1>2. ASSUME NEW w \in Workers, NEW p \in Pids, StartDelete(w, p)
      PROVE  TypeOK'
  BY <1>2, BeginType DEF StartDelete, Goto, TypeOK, Writing
<1>3. ASSUME NEW w \in Workers, NEW p \in Pids, NEW s \in Secrets, StartSet(w, p, s)
      PROVE  TypeOK'
  BY <1>3, BeginType DEF StartSet, Goto, TypeOK, Writing
<1>4. ASSUME NEW w \in Workers, WriteRow(w)
      PROVE  TypeOK'
  <2>1. CASE Fail(w)
    BY <1>4, <2>1, FinishType DEF WriteRow, Fail, Answer, TypeOK
  <2>2. CASE ~Fail(w)
    <3>1. val[w] \in Secrets /\ master \in Masters
      BY <1>4 DEF WriteRow, TypeOK
    <3>2. [secret |-> val[w], master |-> master] \in Row
      BY <3>1 DEF Row
    <3> QED
      BY <1>4, <2>2, <3>1, <3>2 DEF WriteRow, Goto, TypeOK, Writing
  <2> QED
    BY <2>1, <2>2
<1>5. ASSUME NEW w \in Workers, Publish(w)
      PROVE  TypeOK'
  <2>1. val[w] \in Secrets
    BY <1>5 DEF Publish, TypeOK
  <2> QED
    BY <1>5, <2>1, FinishType DEF Publish, Answer, TypeOK
<1>6. ASSUME NEW w \in Workers, EraseRow(w)
      PROVE  TypeOK'
  <2>1. CASE Fail(w)
    BY <1>6, <2>1, FinishType DEF EraseRow, Fail, Answer, TypeOK
  <2>2. CASE ~Fail(w)
    BY <1>6, <2>2 DEF EraseRow, Goto, TypeOK, Writing
  <2> QED
    BY <2>1, <2>2
<1>7. ASSUME NEW w \in Workers, Forget(w)
      PROVE  TypeOK'
  BY <1>7, FinishType DEF Forget, Answer, TypeOK
<1>8. ASSUME NEW w \in Workers, ReadRow(w)
      PROVE  TypeOK'
  <2>1. CASE Finish(w, NoKey)
    BY <1>8, <2>1, FinishType DEF ReadRow, Answer, TypeOK
  <2>2. CASE Finish(w, StoreError)
    BY <1>8, <2>2, FinishType DEF ReadRow, Answer, TypeOK
  <2>3. CASE ~Finish(w, NoKey) /\ ~Finish(w, StoreError)
    <3>1. table[pid[w]] \in Row
      BY <1>8, <2>3 DEF ReadRow, TypeOK
    <3>2. table[pid[w]].secret \in Secrets
      BY <3>1 DEF Row
    <3> QED
      BY <1>8, <2>3, <3>2 DEF ReadRow, Goto, TypeOK, Reading
  <2> QED
    BY <2>1, <2>2, <2>3
<1>9. ASSUME NEW w \in Workers, Fill(w)
      PROVE  TypeOK'
  <2>1. val[w] \in Secrets
    BY <1>9 DEF Fill, TypeOK
  <2> QED
    BY <1>9, <2>1, FinishType DEF Fill, Answer, TypeOK
<1>10. ASSUME NEW w \in Workers, Drop(w)
      PROVE  TypeOK'
  <2>1. detached' \subseteq Job
    BY <1>10 DEF Drop, TypeOK, Job, Row
  <2> QED
    BY <1>10, <2>1, FinishType DEF Drop, Answer, TypeOK
<1>11. ASSUME NEW j \in detached, RunDetached(j)
      PROVE  TypeOK'
  <2>1. j.pid \in Pids /\ j.row \in Row \cup {NoRow}
    BY DEF TypeOK, Job
  <2>2. j.row # NoRow => j.row.secret \in Secrets
    BY <2>1 DEF Row
  <2> QED
    BY <1>11, <2>1, <2>2 DEF RunDetached, TypeOK
<1>12. ASSUME NEW k \in Masters, Restart(k)
      PROVE  TypeOK'
  BY <1>12 DEF Restart, TypeOK, Answer
<1>13. CASE UNCHANGED storeVars
  BY <1>13 DEF storeVars, TypeOK
<1> QED
  BY <1>1, <1>2, <1>3, <1>4, <1>5, <1>6, <1>7, <1>8, <1>9, <1>10, <1>11, <1>12, <1>13
     DEF Next, StoreStep

\* For every number of workers, ids and keys, the store is always well formed
\* (KeyStore and provider_credentials).
THEOREM StoreTypeCorrect == Spec => []TypeOK
  BY InitTypeOK, NextTypeOK, PTL DEF Spec

-----------------------------------------------------------------------------
(* The key store: where keys come from *)

LEMMA ProvenanceStep == ProvenanceInv /\ [Next]_storeVars => ProvenanceInv'
<1> SUFFICES ASSUME ProvenanceInv, [Next]_storeVars PROVE ProvenanceInv'
  OBVIOUS
<1>t. TypeOK /\ TypeOK'
  BY NextTypeOK DEF ProvenanceInv
<1> USE <1>t, KeyStoreAssumption DEF ProvenanceInv, AnswersWereStored, RowsWereStored,
        CopiesWereStored, HeldWereStored
<1>1. ASSUME NEW w \in Workers, NEW p \in Pids, StartGet(w, p)
      PROVE  ProvenanceInv'
  <2>1. CASE cache[p] # NoKey
    <3>1. /\ answer' = [answer EXCEPT ![w] = cache[p]] /\ pid' = [pid EXCEPT ![w] = p]
          /\ pc' = [pc EXCEPT ![w] = "idle"] /\ val' = [val EXCEPT ![w] = NoKey]
          /\ UNCHANGED <<table, cache, stored>>
      BY <1>1, <2>1 DEF StartGet, Finish, Goto
    <3>2. cache[p] \in stored[p]
      BY <2>1
    <3>3. AnswersWereStored'
      BY <3>1, <3>2 DEF TypeOK
    <3>4. HeldWereStored'
      BY <3>1 DEF TypeOK
    <3> QED
      BY <3>1, <3>3, <3>4
  <2>2. CASE cache[p] = NoKey
    BY <1>1, <2>2 DEF StartGet, Begin, Goto, TypeOK
  <2> QED
    BY <2>1, <2>2
<1>2. ASSUME NEW w \in Workers, NEW p \in Pids, StartDelete(w, p)
      PROVE  ProvenanceInv'
  BY <1>2 DEF StartDelete, Begin, Goto, TypeOK
<1>3. ASSUME NEW w \in Workers, NEW p \in Pids, NEW s \in Secrets, StartSet(w, p, s)
      PROVE  ProvenanceInv'
  BY <1>3 DEF StartSet, Begin, Goto, TypeOK
<1>4. ASSUME NEW w \in Workers, WriteRow(w)
      PROVE  ProvenanceInv'
  <2>1. CASE Fail(w)
    BY <1>4, <2>1 DEF WriteRow, Fail, Finish, Goto, TypeOK
  <2>2. CASE ~Fail(w)
    <3> DEFINE q == pid[w]
    <3>1. /\ table' = [table EXCEPT ![q] = [secret |-> val[w], master |-> master]]
          /\ stored' = [stored EXCEPT ![q] = @ \cup {val[w]}]
          /\ pc' = [pc EXCEPT ![w] = "publish"]
          /\ UNCHANGED <<cache, pid, val, answer>>
      BY <1>4, <2>2 DEF WriteRow, Goto
    <3>2. q \in Pids /\ val[w] \in stored'[q] /\ \A p \in Pids : stored[p] \subseteq stored'[p]
      BY <3>1 DEF TypeOK
    <3>3. AnswersWereStored'
      BY <3>1, <3>2 DEF TypeOK
    <3>4. RowsWereStored'
      BY <3>1, <3>2 DEF TypeOK
    <3>5. CopiesWereStored'
      BY <3>1, <3>2 DEF TypeOK
    <3>6. HeldWereStored'
      BY <3>1, <3>2 DEF TypeOK
    <3> HIDE DEF AnswersWereStored, RowsWereStored, CopiesWereStored, HeldWereStored
    <3> QED
      BY <3>3, <3>4, <3>5, <3>6
  <2> QED
    BY <2>1, <2>2
<1>5. ASSUME NEW w \in Workers, Publish(w)
      PROVE  ProvenanceInv'
  BY <1>5 DEF Publish, Finish, Goto, TypeOK
<1>6. ASSUME NEW w \in Workers, EraseRow(w)
      PROVE  ProvenanceInv'
  BY <1>6 DEF EraseRow, Fail, Finish, Goto, TypeOK
<1>7. ASSUME NEW w \in Workers, Forget(w)
      PROVE  ProvenanceInv'
  BY <1>7 DEF Forget, Finish, Goto, TypeOK
<1>8. ASSUME NEW w \in Workers, ReadRow(w)
      PROVE  ProvenanceInv'
  BY <1>8 DEF ReadRow, Finish, Goto, TypeOK
<1>9. ASSUME NEW w \in Workers, Fill(w)
      PROVE  ProvenanceInv'
  BY <1>9 DEF Fill, Finish, Goto, TypeOK
<1>10. ASSUME NEW w \in Workers, Drop(w)
      PROVE  ProvenanceInv'
  BY <1>10 DEF Drop, Finish, Goto, TypeOK
<1>11. ASSUME NEW j \in detached, RunDetached(j)
      PROVE  ProvenanceInv'
  <2>1. j.pid \in Pids
    BY DEF TypeOK, Job
  <2> QED
    BY <1>11, <2>1 DEF RunDetached, TypeOK
<1>12. ASSUME NEW k \in Masters, Restart(k)
      PROVE  ProvenanceInv'
  BY <1>12 DEF Restart, TypeOK
<1>13. CASE UNCHANGED storeVars
  BY <1>13 DEF storeVars
<1> QED
  BY <1>1, <1>2, <1>3, <1>4, <1>5, <1>6, <1>7, <1>8, <1>9, <1>10, <1>11, <1>12, <1>13
     DEF Next, StoreStep

LEMMA ProvenanceInit == Init => ProvenanceInv
  BY InitTypeOK, KeyStoreAssumption
     DEF Init, ProvenanceInv, AnswersWereStored, RowsWereStored, CopiesWereStored, HeldWereStored

\* For every number of workers, ids and keys, and however operations overlap,
\* fail or are dropped, get returns only keys stored for the id it asks about.
THEOREM KeysHaveProvenance == Spec => []AnswersWereStored
<1>1. ProvenanceInv => AnswersWereStored
  BY DEF ProvenanceInv
<1> QED
  BY <1>1, ProvenanceInit, ProvenanceStep, PTL DEF Spec

-----------------------------------------------------------------------------
(* The key store: the cache and the table *)

LEMMA CoherenceInit == Init => CoherenceInv
  BY InitTypeOK
     DEF Init, CoherenceInv, AloneMeansAlone, AloneFindsItsRow, CleanMeansQuiet,
         CleanReadIsFresh, CleanAgrees, Agrees, Writing

\* What an operation that begins knows of the others, and they of it.
LEMMA BeginHistory ==
    ASSUME TypeOK, NEW w \in Workers, NEW p \in Pids, NEW writes \in BOOLEAN,
           Begin(w, p, writes), pc[w] = "idle"
    PROVE  /\ pid' = [pid EXCEPT ![w] = p]
           /\ \A v \in Workers : v # w =>
                 (alone'[v] <=> alone[v] /\ ~(pc[v] # "idle" /\ pid[v] = p))
           /\ alone'[w] <=> /\ \A v \in Workers : ~(pc[v] # "idle" /\ pid[v] = p)
                            /\ \A j \in detached : j.pid # p
           /\ \A q \in Pids : q # p => clean'[q] = clean[q]
           /\ clean'[p] => /\ clean[p]
                           /\ writes => alone'[w]
                           /\ \A v \in Workers : ~(pc[v] \in Writing /\ pid[v] = p)
                           /\ \A j \in detached : j.pid # p
<1> DEFINE quiet == Busy(p) = {} /\ Orphans(p) = {}
<1>1. quiet <=> /\ \A v \in Workers : ~(pc[v] # "idle" /\ pid[v] = p)
                /\ \A j \in detached : j.pid # p
  BY DEF Busy, Orphans
<1>2. \A v \in Workers : v \in Busy(p) <=> pc[v] # "idle" /\ pid[v] = p
  BY DEF Busy
<1>3. /\ pid' = [pid EXCEPT ![w] = p]
      /\ alone' = [v \in Workers |-> IF v = w THEN quiet ELSE alone[v] /\ v \notin Busy(p)]
      /\ clean' = [clean EXCEPT ![p] =
                     @ /\ (quiet \/ (~writes /\ Writers(p) = {} /\ Orphans(p) = {}))]
  BY DEF Begin
<1>4. Writers(p) = {} => \A v \in Workers : ~(pc[v] \in Writing /\ pid[v] = p)
  BY DEF Writers, Busy, Writing
<1>5. Orphans(p) = {} => \A j \in detached : j.pid # p
  BY DEF Orphans
<1> HIDE DEF quiet
<1>6. alone'[w] <=> quiet
  BY <1>3
<1>7. clean'[p] <=> clean[p] /\ (quiet \/ (~writes /\ Writers(p) = {} /\ Orphans(p) = {}))
  BY <1>3 DEF TypeOK
<1>8. \A q \in Pids : q # p => clean'[q] = clean[q]
  BY <1>3 DEF TypeOK
<1>9. \A v \in Workers : v # w => (alone'[v] <=> alone[v] /\ v \notin Busy(p))
  BY <1>3
<1>10. quiet => \A v \in Workers : ~(pc[v] \in Writing /\ pid[v] = p)
  BY <1>1 DEF Writing
<1> QED
  BY <1>1, <1>2, <1>3, <1>4, <1>5, <1>6, <1>7, <1>8, <1>9, <1>10

\* Beginning an operation keeps the invariant: table and cache stay.
LEMMA CoherenceBegin ==
    ASSUME CoherenceInv, TypeOK', NEW w \in Workers, NEW p \in Pids, NEW writes \in BOOLEAN,
           NEW label, label = IF writes THEN "write" ELSE "read",
           Begin(w, p, writes), pc[w] = "idle",
           \/ Goto(w, label)
           \/ writes /\ Goto(w, "erase"),
           \A v \in Workers : v # w => val'[v] = val[v],
           UNCHANGED <<table, cache, master, detached>>
    PROVE  CoherenceInv'
<1> USE DEF CoherenceInv
<1>1. \A v \in Workers : v # w => pc'[v] = pc[v] /\ pid'[v] = pid[v]
  BY BeginHistory DEF Goto, TypeOK
<1>2. pid'[w] = p /\ pc'[w] \in {"write", "erase", "read"} /\ (pc'[w] \in Writing => writes)
  BY BeginHistory DEF Goto, TypeOK, Writing
<1>3. AloneMeansAlone'
  BY <1>1, <1>2, BeginHistory DEF AloneMeansAlone
<1>4. AloneFindsItsRow'
  BY <1>1, <1>2, BeginHistory DEF AloneFindsItsRow
<1>a. \A q \in Pids : clean'[q] => clean[q]
  BY BeginHistory
<1>5. CleanMeansQuiet'
  <2>1. \A j \in detached : ~clean'[j.pid]
    BY <1>a, BeginHistory DEF CleanMeansQuiet, TypeOK, Job
  <2>2. ASSUME NEW v \in Workers, clean'[pid'[v]], pc'[v] \in Writing
        PROVE  alone'[v]
    <3>1. CASE v = w
      BY <2>2, <3>1, <1>2, BeginHistory
    <3>2. CASE v # w
      <4>1. pid[v] # p /\ clean'[pid[v]] /\ pc[v] \in Writing /\ pid[v] \in Pids
        BY <2>2, <3>2, <1>1, BeginHistory DEF TypeOK
      <4>2. alone[v]
        BY <4>1, <1>a DEF CleanMeansQuiet
      <4> QED
        BY <4>1, <4>2, <3>2, BeginHistory
    <3> QED
      BY <3>1, <3>2
  <2> QED
    BY <2>1, <2>2 DEF CleanMeansQuiet
<1>6. CleanReadIsFresh'
  BY <1>1, <1>2, BeginHistory DEF CleanReadIsFresh, TypeOK
<1>7. CleanAgrees'
  <2> SUFFICES ASSUME NEW q \in Pids, clean'[q], ~Agrees(q)'
               PROVE  \E v \in Workers : pid'[v] = q /\ pc'[v] \in {"publish", "forget"}
    BY DEF CleanAgrees
  <2>1. clean[q] /\ ~Agrees(q)
    BY <1>a DEF Agrees
  <2>2. PICK v \in Workers : pid[v] = q /\ pc[v] \in {"publish", "forget"}
    BY <2>1 DEF CleanAgrees
  <2>3. v # w
    BY <2>2
  <2> QED
    BY <2>2, <2>3, <1>1
<1> QED
  BY <1>3, <1>4, <1>5, <1>6, <1>7

LEMMA CoherenceStep == CoherenceInv /\ [Next]_storeVars => CoherenceInv'
<1> SUFFICES ASSUME CoherenceInv, [Next]_storeVars PROVE CoherenceInv'
  OBVIOUS
<1>t. TypeOK /\ TypeOK'
  BY NextTypeOK DEF CoherenceInv
<1> USE <1>t, KeyStoreAssumption
<1> DEFINE Parts == /\ AloneMeansAlone' /\ AloneFindsItsRow' /\ CleanMeansQuiet'
                    /\ CleanReadIsFresh' /\ CleanAgrees'
<1>p. Parts => CoherenceInv'
  BY DEF CoherenceInv
<1>1. ASSUME NEW w \in Workers, NEW p \in Pids, StartGet(w, p)
      PROVE  CoherenceInv'
  <2>1. CASE cache[p] = NoKey
    BY <1>1, <2>1, CoherenceBegin DEF StartGet
  <2>2. CASE cache[p] # NoKey
    <3>1. /\ pc[w] = "idle" /\ pc' = pc
          /\ pid' = [pid EXCEPT ![w] = p]
          /\ val' = [val EXCEPT ![w] = NoKey]
          /\ alone' = [alone EXCEPT ![w] = FALSE]
          /\ UNCHANGED <<table, cache, master, detached, clean>>
      <4>1. pc[w] = "idle" /\ pc' = [pc EXCEPT ![w] = "idle"]
        BY <1>1, <2>2 DEF StartGet, Finish, Goto
      <4>2. pc' = pc
        BY <4>1 DEF TypeOK
      <4> QED
        BY <1>1, <2>2, <4>1, <4>2 DEF StartGet, Finish
    <3>2. \A v \in Workers : pc[v] # "idle" => v # w /\ pid'[v] = pid[v] /\ val'[v] = val[v]
      BY <3>1 DEF TypeOK
    <3>3. AloneMeansAlone'
      BY <3>1, <3>2 DEF CoherenceInv, AloneMeansAlone, TypeOK
    <3>4. AloneFindsItsRow'
      BY <3>1, <3>2 DEF CoherenceInv, AloneFindsItsRow, AloneMeansAlone, TypeOK
    <3>5. CleanMeansQuiet'
      BY <3>1, <3>2 DEF CoherenceInv, CleanMeansQuiet, TypeOK, Writing
    <3>6. CleanReadIsFresh'
      BY <3>1, <3>2 DEF CoherenceInv, CleanReadIsFresh, TypeOK
    <3>7. CleanAgrees'
      BY <3>1, <3>2 DEF CoherenceInv, CleanAgrees, Agrees, TypeOK
    <3> QED
      BY <1>p, <3>3, <3>4, <3>5, <3>6, <3>7
  <2> QED
    BY <2>1, <2>2
<1>2. ASSUME NEW w \in Workers, NEW p \in Pids, StartDelete(w, p)
      PROVE  CoherenceInv'
  BY <1>2, CoherenceBegin DEF StartDelete
<1>3. ASSUME NEW w \in Workers, NEW p \in Pids, NEW s \in Secrets, StartSet(w, p, s)
      PROVE  CoherenceInv'
  <2>1. \A v \in Workers : v # w => val'[v] = val[v]
    BY <1>3 DEF StartSet, TypeOK
  <2> QED
    BY <1>3, <2>1, CoherenceBegin DEF StartSet
\* The operation of w ends, and its statement, if any, changed nothing.
<1>e. ASSUME NEW w \in Workers, NEW a, Finish(w, a), pc[w] \in {"write", "erase", "read"},
             UNCHANGED <<table, cache, master, pid, detached, clean>>
      PROVE  CoherenceInv'
  <2>1. /\ pc' = [pc EXCEPT ![w] = "idle"]
        /\ val' = [val EXCEPT ![w] = NoKey]
        /\ alone' = [alone EXCEPT ![w] = FALSE]
    BY <1>e DEF Finish, Goto
  <2>2. \A v \in Workers : pc'[v] # "idle" =>
           v # w /\ pc'[v] = pc[v] /\ val'[v] = val[v] /\ alone'[v] = alone[v]
    BY <2>1 DEF TypeOK
  <2>3. AloneMeansAlone'
    BY <1>e, <2>1, <2>2 DEF CoherenceInv, AloneMeansAlone, TypeOK
  <2>4. AloneFindsItsRow'
    BY <1>e, <2>1, <2>2 DEF CoherenceInv, AloneFindsItsRow, TypeOK
  <2>5. CleanMeansQuiet'
    BY <1>e, <2>1, <2>2 DEF CoherenceInv, CleanMeansQuiet, TypeOK, Writing
  <2>6. CleanReadIsFresh'
    BY <1>e, <2>1, <2>2 DEF CoherenceInv, CleanReadIsFresh, TypeOK
  <2>7. CleanAgrees'
    BY <1>e, <2>1, <2>2 DEF CoherenceInv, CleanAgrees, Agrees, TypeOK
  <2> QED
    BY <1>p, <2>3, <2>4, <2>5, <2>6, <2>7
\* A statement of w changes its row; nobody may rely on it unless w is alone.
<1>r. ASSUME NEW w \in Workers, pc[w] \in {"write", "erase"}, NEW row,
             table' = [table EXCEPT ![pid[w]] = row],
             \/ pc' = [pc EXCEPT ![w] = "publish"] /\ row = [secret |-> val[w], master |-> master]
             \/ pc' = [pc EXCEPT ![w] = "forget"] /\ row = NoRow,
             UNCHANGED <<cache, master, pid, val, detached, alone, clean>>
      PROVE  CoherenceInv'
  <2>1. /\ \A v \in Workers : v # w => pc'[v] = pc[v]
        /\ pc'[w] \in {"publish", "forget"} /\ pc'[w] \in Writing /\ pc[w] \in Writing
        /\ pid[w] \in Pids
        /\ \A p \in Pids : p # pid[w] => table'[p] = table[p]
        /\ table'[pid[w]] = row
    BY <1>r DEF TypeOK, Writing
  <2>2. \A v \in Workers : v # w /\ alone[v] => pid[v] # pid[w]
    BY <1>r DEF CoherenceInv, AloneMeansAlone
  <2>3. AloneMeansAlone'
    BY <1>r, <2>1 DEF CoherenceInv, AloneMeansAlone
  <2>4. AloneFindsItsRow'
    BY <1>r, <2>1, <2>2 DEF CoherenceInv, AloneFindsItsRow, TypeOK
  <2>5. CleanMeansQuiet'
    BY <1>r, <2>1 DEF CoherenceInv, CleanMeansQuiet
  <2>6. CleanReadIsFresh'
    <3> SUFFICES ASSUME NEW v \in Workers, clean[pid[v]], pc'[v] = "fill"
                 PROVE  table'[pid[v]] = [secret |-> val[v], master |-> master]
      BY <1>r DEF CleanReadIsFresh
    <3>1. v # w /\ pc[v] = "fill"
      BY <2>1
    <3>2. pid[v] # pid[w]
      BY <2>1, <3>1 DEF CoherenceInv, CleanMeansQuiet, AloneMeansAlone
    <3> QED
      BY <2>1, <3>1, <3>2 DEF CoherenceInv, CleanReadIsFresh, TypeOK
  <2>7. CleanAgrees'
    <3> SUFFICES ASSUME NEW p \in Pids, clean[p]
                 PROVE  \/ Agrees(p)'
                        \/ \E v \in Workers : pid'[v] = p /\ pc'[v] \in {"publish", "forget"}
      BY <1>r DEF CleanAgrees
    <3>1. CASE p = pid[w]
      BY <1>r, <2>1, <3>1
    <3>2. CASE p # pid[w]
      BY <1>r, <2>1, <3>2 DEF CoherenceInv, CleanAgrees, Agrees
    <3> QED
      BY <3>1, <3>2
  <2> QED
    BY <1>p, <2>3, <2>4, <2>5, <2>6, <2>7
<1>4. ASSUME NEW w \in Workers, WriteRow(w)
      PROVE  CoherenceInv'
  BY <1>4, <1>e, <1>r DEF WriteRow, Fail, Goto
<1>6. ASSUME NEW w \in Workers, EraseRow(w)
      PROVE  CoherenceInv'
  BY <1>6, <1>e, <1>r DEF EraseRow, Fail, Goto
\* A write that ends leaves cache and table in agreement if it was alone.
<1>c. ASSUME NEW w \in Workers,
             \/ pc[w] = "publish" /\ cache' = [cache EXCEPT ![pid[w]] = val[w]]
             \/ pc[w] = "forget" /\ cache' = [cache EXCEPT ![pid[w]] = NoKey],
             clean' = [clean EXCEPT ![pid[w]] = @ \/ alone[w]],
             Finish(w, NoKey),
             UNCHANGED <<table, master, pid, detached>>
      PROVE  CoherenceInv'
  <2>1. /\ pc' = [pc EXCEPT ![w] = "idle"]
        /\ val' = [val EXCEPT ![w] = NoKey]
        /\ alone' = [alone EXCEPT ![w] = FALSE]
    BY <1>c DEF Finish, Goto
  <2>2. /\ \A v \in Workers : pc'[v] # "idle" =>
              v # w /\ pc'[v] = pc[v] /\ val'[v] = val[v] /\ alone'[v] = alone[v]
        /\ pid[w] \in Pids
        /\ \A p \in Pids : p # pid[w] => clean'[p] = clean[p] /\ cache'[p] = cache[p]
    BY <1>c, <2>1 DEF TypeOK
  <2>3. clean'[pid[w]] => alone[w]
    BY <1>c, <2>2 DEF CoherenceInv, CleanMeansQuiet, Writing, TypeOK
  <2>4. clean'[pid[w]] => \A v \in Workers : pc'[v] # "idle" => pid[v] # pid[w]
    BY <2>1, <2>2, <2>3 DEF CoherenceInv, AloneMeansAlone
  <2>5. clean'[pid[w]] => Agrees(pid[w])'
    <3>1. CASE pc[w] = "publish"
      <4>1. /\ cache' = [cache EXCEPT ![pid[w]] = val[w]]
            /\ UNCHANGED <<table, master, pid>>
        BY <1>c, <3>1
      <4>2. cache'[pid[w]] = val[w]
        BY <4>1, <2>2 DEF TypeOK
      <4>3. alone[w] => table[pid[w]] = [secret |-> val[w], master |-> master]
        BY <3>1 DEF CoherenceInv, AloneFindsItsRow
      <4> QED
        BY <2>3, <4>1, <4>2, <4>3 DEF Agrees
    <3>2. CASE pc[w] = "forget"
      <4>1. cache'[pid[w]] = NoKey /\ pid' = pid
        BY <1>c, <2>2, <3>2 DEF TypeOK
      <4> QED
        BY <4>1 DEF Agrees
    <3> QED
      BY <1>c, <3>1, <3>2
  <2>6. AloneMeansAlone'
    BY <1>c, <2>1, <2>2 DEF CoherenceInv, AloneMeansAlone, TypeOK
  <2>7. AloneFindsItsRow'
    BY <1>c, <2>1, <2>2 DEF CoherenceInv, AloneFindsItsRow, TypeOK
  <2>8. CleanMeansQuiet'
    <3>1. \A j \in detached : ~clean'[j.pid]
      BY <1>c, <2>2, <2>3 DEF CoherenceInv, CleanMeansQuiet, AloneMeansAlone, TypeOK, Job
    <3>2. \A v \in Workers : clean'[pid[v]] /\ pc'[v] \in Writing => alone'[v]
      BY <1>c, <2>2, <2>4 DEF CoherenceInv, CleanMeansQuiet, TypeOK, Writing
    <3> QED
      BY <1>c, <3>1, <3>2 DEF CleanMeansQuiet
  <2>9. CleanReadIsFresh'
    BY <1>c, <2>2, <2>4 DEF CoherenceInv, CleanReadIsFresh, TypeOK
  <2>10. CleanAgrees'
    <3> SUFFICES ASSUME NEW p \in Pids, clean'[p]
                 PROVE  \/ Agrees(p)'
                        \/ \E v \in Workers : pid'[v] = p /\ pc'[v] \in {"publish", "forget"}
      BY DEF CleanAgrees
    <3>1. CASE p = pid[w]
      BY <1>c, <2>5, <3>1 DEF Agrees
    <3>2. CASE p # pid[w]
      <4>1. clean[p] /\ (Agrees(p) => Agrees(p)')
        BY <1>c, <2>2, <3>2 DEF Agrees
      <4>2. \A v \in Workers : pid[v] = p => v # w /\ pc'[v] = pc[v]
        BY <2>1, <3>2 DEF TypeOK
      <4> QED
        BY <1>c, <4>1, <4>2 DEF CoherenceInv, CleanAgrees
    <3> QED
      BY <3>1, <3>2
  <2> QED
    BY <1>p, <2>6, <2>7, <2>8, <2>9, <2>10
<1>5. ASSUME NEW w \in Workers, Publish(w)
      PROVE  CoherenceInv'
  BY <1>5, <1>c DEF Publish
<1>7. ASSUME NEW w \in Workers, Forget(w)
      PROVE  CoherenceInv'
  BY <1>7, <1>c DEF Forget
<1>8. ASSUME NEW w \in Workers, ReadRow(w)
      PROVE  CoherenceInv'
  <2>1. CASE \E a \in {NoKey, StoreError} : Finish(w, a)
    BY <1>8, <2>1, <1>e DEF ReadRow
  <2>2. CASE ~\E a \in {NoKey, StoreError} : Finish(w, a)
    <3> DEFINE row == table[pid[w]]
    <3>1. /\ pc[w] = "read" /\ row # NoRow /\ row.master = master
          /\ pc' = [pc EXCEPT ![w] = "fill"]
          /\ val' = [val EXCEPT ![w] = row.secret]
          /\ UNCHANGED <<table, cache, master, pid, detached, alone, clean>>
      BY <1>8, <2>2 DEF ReadRow, Goto
    <3>2. row \in Row
      BY <3>1 DEF TypeOK
    <3>3. row = [secret |-> row.secret, master |-> row.master]
      BY <3>2 DEF Row
    <3>4. \A v \in Workers : v # w => pc'[v] = pc[v] /\ val'[v] = val[v]
      BY <3>1
    <3>5. pc'[w] = "fill" /\ val'[w] = row.secret
      BY <3>1 DEF TypeOK
    <3>6. AloneMeansAlone'
      BY <3>1, <3>4, <3>5 DEF CoherenceInv, AloneMeansAlone
    <3>7. AloneFindsItsRow'
      BY <3>1, <3>4, <3>5 DEF CoherenceInv, AloneFindsItsRow
    <3>8. CleanMeansQuiet'
      BY <3>1, <3>4, <3>5 DEF CoherenceInv, CleanMeansQuiet, Writing
    <3>9. CleanReadIsFresh'
      BY <3>1, <3>3, <3>4, <3>5 DEF CoherenceInv, CleanReadIsFresh
    <3>10. CleanAgrees'
      BY <3>1, <3>4, <3>5 DEF CoherenceInv, CleanAgrees, Agrees
    <3> QED
      BY <1>p, <3>6, <3>7, <3>8, <3>9, <3>10
  <2> QED
    BY <2>1, <2>2
<1>9. ASSUME NEW w \in Workers, Fill(w)
      PROVE  CoherenceInv'
  <2>1. /\ pc[w] = "fill" /\ pc' = [pc EXCEPT ![w] = "idle"]
        /\ val' = [val EXCEPT ![w] = NoKey]
        /\ alone' = [alone EXCEPT ![w] = FALSE]
        /\ cache' = [cache EXCEPT ![pid[w]] = val[w]]
        /\ UNCHANGED <<table, master, pid, detached, clean>>
    BY <1>9 DEF Fill, Finish, Goto
  <2>2. /\ \A v \in Workers : pc'[v] # "idle" =>
              v # w /\ pc'[v] = pc[v] /\ val'[v] = val[v] /\ alone'[v] = alone[v]
        /\ pid[w] \in Pids
        /\ \A p \in Pids : p # pid[w] => cache'[p] = cache[p]
        /\ cache'[pid[w]] = val[w]
    BY <2>1 DEF TypeOK
  <2>3. AloneMeansAlone'
    BY <2>1, <2>2 DEF CoherenceInv, AloneMeansAlone, TypeOK
  <2>4. AloneFindsItsRow'
    BY <2>1, <2>2 DEF CoherenceInv, AloneFindsItsRow, TypeOK
  <2>5. CleanMeansQuiet'
    BY <2>1, <2>2 DEF CoherenceInv, CleanMeansQuiet, TypeOK, Writing
  <2>6. CleanReadIsFresh'
    BY <2>1, <2>2 DEF CoherenceInv, CleanReadIsFresh, TypeOK
  <2>7. CleanAgrees'
    <3> SUFFICES ASSUME NEW p \in Pids, clean[p]
                 PROVE  \/ Agrees(p)'
                        \/ \E v \in Workers : pid'[v] = p /\ pc'[v] \in {"publish", "forget"}
      BY <2>1 DEF CleanAgrees
    <3>1. CASE p = pid[w]
      BY <2>1, <2>2, <3>1 DEF CoherenceInv, CleanReadIsFresh, Agrees
    <3>2. CASE p # pid[w]
      <4>1. \A v \in Workers : pid[v] = p => v # w /\ pc'[v] = pc[v]
        BY <2>1, <3>2 DEF TypeOK
      <4> QED
        BY <2>1, <2>2, <3>2, <4>1 DEF CoherenceInv, CleanAgrees, Agrees
    <3> QED
      BY <3>1, <3>2
  <2> QED
    BY <1>p, <2>3, <2>4, <2>5, <2>6, <2>7
<1>10. ASSUME NEW w \in Workers, Drop(w)
      PROVE  CoherenceInv'
  <2>1. /\ pc[w] # "idle" /\ pc' = [pc EXCEPT ![w] = "idle"]
        /\ val' = [val EXCEPT ![w] = NoKey]
        /\ alone' = [alone EXCEPT ![w] = FALSE]
        /\ clean' = [clean EXCEPT ![pid[w]] = @ /\ pc[w] \notin Writing]
        /\ UNCHANGED <<table, cache, master, pid>>
    BY <1>10 DEF Drop, Finish, Goto
  <2>2. /\ \A v \in Workers : v # w =>
              pc'[v] = pc[v] /\ val'[v] = val[v] /\ alone'[v] = alone[v]
        /\ pc'[w] = "idle" /\ ~alone'[w]
        /\ pid[w] \in Pids
        /\ \A p \in Pids : clean'[p] => clean[p]
        /\ clean'[pid[w]] => pc[w] \notin Writing
    BY <2>1 DEF TypeOK
  <2>3. \A j \in detached' : j \in detached \/ (j.pid = pid[w] /\ pc[w] \in Writing)
    BY <1>10 DEF Drop, Writing
  <2>4. AloneMeansAlone'
    BY <2>1, <2>2, <2>3 DEF CoherenceInv, AloneMeansAlone
  <2>5. AloneFindsItsRow'
    BY <2>1, <2>2 DEF CoherenceInv, AloneFindsItsRow
  <2>6. CleanMeansQuiet'
    <3>1. \A j \in detached' : ~clean'[j.pid]
      BY <2>1, <2>2, <2>3 DEF CoherenceInv, CleanMeansQuiet, TypeOK, Job
    <3>2. \A v \in Workers : clean'[pid[v]] /\ pc'[v] \in Writing => alone'[v]
      BY <2>1, <2>2 DEF CoherenceInv, CleanMeansQuiet, TypeOK, Writing
    <3> QED
      BY <2>1, <3>1, <3>2 DEF CleanMeansQuiet
  <2>7. CleanReadIsFresh'
    BY <2>1, <2>2 DEF CoherenceInv, CleanReadIsFresh, TypeOK
  <2>8. CleanAgrees'
    <3> SUFFICES ASSUME NEW p \in Pids, clean'[p], ~Agrees(p)'
                 PROVE  \E v \in Workers : pid'[v] = p /\ pc'[v] \in {"publish", "forget"}
      BY DEF CleanAgrees
    <3>1. clean[p] /\ ~Agrees(p)
      BY <2>1, <2>2 DEF Agrees
    <3>2. PICK v \in Workers : pid[v] = p /\ pc[v] \in {"publish", "forget"}
      BY <3>1 DEF CoherenceInv, CleanAgrees
    <3>3. v # w
      BY <2>2, <3>2 DEF Writing
    <3> QED
      BY <2>1, <2>2, <3>2, <3>3
  <2> QED
    BY <1>p, <2>4, <2>5, <2>6, <2>7, <2>8
<1>11. ASSUME NEW j \in detached, RunDetached(j)
      PROVE  CoherenceInv'
  <2>1. j.pid \in Pids /\ ~clean[j.pid] /\ \A w \in Workers : alone[w] => pid[w] # j.pid
    BY DEF CoherenceInv, CleanMeansQuiet, AloneMeansAlone, TypeOK, Job
  <2>2. /\ \A p \in Pids : p # j.pid => table'[p] = table[p]
        /\ detached' \subseteq detached
        /\ UNCHANGED <<cache, master, pc, pid, val, alone, clean>>
    BY <1>11 DEF RunDetached, TypeOK
  <2>3. AloneMeansAlone'
    BY <2>2 DEF CoherenceInv, AloneMeansAlone
  <2>4. AloneFindsItsRow'
    BY <2>1, <2>2 DEF CoherenceInv, AloneFindsItsRow, TypeOK
  <2>5. CleanMeansQuiet'
    BY <2>2 DEF CoherenceInv, CleanMeansQuiet
  <2>6. CleanReadIsFresh'
    BY <2>1, <2>2 DEF CoherenceInv, CleanReadIsFresh, TypeOK
  <2>7. CleanAgrees'
    BY <2>1, <2>2 DEF CoherenceInv, CleanAgrees, Agrees
  <2> QED
    BY <1>p, <2>3, <2>4, <2>5, <2>6, <2>7
<1>12. ASSUME NEW k \in Masters, Restart(k)
      PROVE  CoherenceInv'
  BY <1>12, <1>p DEF Restart, AloneMeansAlone, AloneFindsItsRow, CleanMeansQuiet,
                     CleanReadIsFresh, CleanAgrees, Agrees, Writing, TypeOK
<1>13. CASE UNCHANGED storeVars
  BY <1>13 DEF storeVars, CoherenceInv, AloneMeansAlone, AloneFindsItsRow, CleanMeansQuiet,
               CleanReadIsFresh, CleanAgrees, Agrees, TypeOK
<1> QED
  BY <1>1, <1>2, <1>3, <1>4, <1>5, <1>6, <1>7, <1>8, <1>9, <1>10, <1>11, <1>12, <1>13
     DEF Next, StoreStep

\* For every number of workers, ids, keys and master keys, the cache is wrong
\* about an id only after a write of the id was overlapped or dropped.
THEOREM CoherenceCorrect == Spec => []CoherentUnlessDisturbed
<1>1. CoherenceInv => CoherentUnlessDisturbed
  BY DEF CoherenceInv, CleanAgrees, CoherentUnlessDisturbed, Writers, Busy, Writing
<1> QED
  BY <1>1, CoherenceInit, CoherenceStep, PTL DEF Spec

-----------------------------------------------------------------------------
(* The tokens: types, and the store underneath *)

LEMMA OAuthInitTypeOK == OAuthInit => OAuthTypeOK
<1> SUFFICES ASSUME OAuthInit PROVE OAuthTypeOK
  OBVIOUS
<1>1. TypeOK
  BY InitTypeOK DEF OAuthInit
<1>2. /\ at \in [Workers -> {"idle", "refresh", "load", "accepted", "keep"} \cup Logins]
      /\ held \in [Workers -> Token \cup {NoKey}]
      /\ \A w \in Workers : IF at[w] \in {"accepted", "keep"} \cup Logins
                            THEN held[w] \in Token ELSE held[w] = NoKey
  BY DEF OAuthInit, Logins
<1>3. live \in [Grants -> 0..MaxSerial]
  BY OAuthAssumption DEF OAuthInit
<1>4. access \in [grant : Grants \cup {NoGrant}, fresh : BOOLEAN]
  BY DEF OAuthInit, NoAccess
<1> QED
  BY <1>1, <1>2, <1>3, <1>4 DEF OAuthInit, OAuthTypeOK

\* A worker has a token to store exactly where it holds one.
LEMMA HeldIsToken ==
    ASSUME OAuthTypeOK, NEW w \in Workers, at[w] \in {"accepted", "keep"} \cup Logins
    PROVE  held[w] \in Token /\ held[w] \in Secrets /\ held[w].grant \in Grants
<1>1. held[w] \in Token
  BY DEF OAuthTypeOK
<1> QED
  BY <1>1, OAuthAssumption DEF Token

LEMMA StoreKept ==
    ASSUME OAuthTypeOK, [OAuthNext]_oauthVars
    PROVE  [Next]_storeVars
<1>1. Provider \in Pids
  BY OAuthAssumption
<1>2. ASSUME NEW w \in Workers, NEW g \in Grants, NEW how \in Logins, StartLogin(w, g, how)
      PROVE  [Next]_storeVars
  <2>1. [grant |-> g, serial |-> 0] \in Secrets
    BY OAuthAssumption DEF Token
  <2> QED
    BY <1>1, <1>2, <2>1 DEF StartLogin, Next
<1>3. ASSUME NEW w \in Workers, RefreshStep(w)
      PROVE  [Next]_storeVars
  <2>1. CASE LoadToken(w)
    BY <1>1, <2>1 DEF LoadToken, Next
  <2>2. CASE Respond(w)
    BY <1>1, <2>2, HeldIsToken DEF Respond, Next
  <2>3. CASE ~LoadToken(w) /\ ~Respond(w)
    BY <1>3, <2>3 DEF RefreshStep, StartRefresh, NothingToRefresh, Accept, Refuse,
                      LoseAnswer, FinishRefresh
  <2> QED
    BY <2>1, <2>2, <2>3
<1>4. ASSUME NEW w \in Workers, LoginStep(w)
      PROVE  [Next]_storeVars
  BY <1>4 DEF LoginStep, LoginFails, Invalidate, DeviceDone, CliRefresh
<1>5. ASSUME NEW w \in Workers, StoreProceeds(w)
      PROVE  [Next]_storeVars
  BY <1>5 DEF StoreProceeds, Next
<1>6. ASSUME NEW w \in Workers, DropHandler(w)
      PROVE  [Next]_storeVars
  BY <1>6 DEF DropHandler, Next
<1>7. ASSUME NEW j \in detached, RunStatement(j)
      PROVE  [Next]_storeVars
  BY <1>7 DEF RunStatement, Next
<1>8. ASSUME NEW k \in Masters, RestartServer(k)
      PROVE  [Next]_storeVars
  BY <1>8 DEF RestartServer, Next
<1>9. CASE Expire
  BY <1>9 DEF Expire
<1>10. CASE UNCHANGED oauthVars
  BY <1>10 DEF oauthVars
<1> QED
  BY <1>2, <1>3, <1>4, <1>5, <1>6, <1>7, <1>8, <1>9, <1>10 DEF OAuthNext

\* What a step may do to where one worker stands.
LEMMA MoveType ==
    ASSUME OAuthTypeOK, NEW w \in Workers,
           NEW label \in {"idle", "refresh", "load", "accepted", "keep"} \cup Logins,
           At(w, label),
           \/ held' = held /\ (label \in {"accepted", "keep"} \cup Logins
                                  <=> at[w] \in {"accepted", "keep"} \cup Logins)
           \/ label \in {"idle", "refresh", "load"} /\ held' = [held EXCEPT ![w] = NoKey]
           \/ /\ label \in {"accepted", "keep"} \cup Logins
              /\ \E t \in Token : held' = [held EXCEPT ![w] = t]
    PROVE  /\ at' \in [Workers -> {"idle", "refresh", "load", "accepted", "keep"} \cup Logins]
           /\ held' \in [Workers -> Token \cup {NoKey}]
           /\ \A v \in Workers : IF at'[v] \in {"accepted", "keep"} \cup Logins
                                 THEN held'[v] \in Token ELSE held'[v] = NoKey
  BY DEF OAuthTypeOK, At, Logins

LEMMA OAuthNextTypeOK == OAuthTypeOK /\ [OAuthNext]_oauthVars => OAuthTypeOK'
<1> SUFFICES ASSUME OAuthTypeOK, [OAuthNext]_oauthVars PROVE OAuthTypeOK'
  OBVIOUS
<1>1. TypeOK'
  BY StoreKept, NextTypeOK DEF OAuthTypeOK
<1>2. ASSUME NEW w \in Workers, NEW g \in Grants, NEW how \in Logins, StartLogin(w, g, how)
      PROVE  OAuthTypeOK'
  <2>1. [grant |-> g, serial |-> 0] \in Token
    BY OAuthAssumption DEF Token
  <2>2. held' = [held EXCEPT ![w] = [grant |-> g, serial |-> 0]]
    BY <1>2 DEF StartLogin
  <2> QED
    BY <1>1, <1>2, <2>1, <2>2, MoveType DEF StartLogin, OAuthTypeOK
<1>3. ASSUME NEW w \in Workers, RefreshStep(w)
      PROVE  OAuthTypeOK'
  <2>1. CASE StartRefresh(w)
    BY <1>1, <2>1, MoveType DEF StartRefresh, OAuthTypeOK, Logins
  <2>2. CASE LoadToken(w)
    BY <1>1, <2>2, MoveType DEF LoadToken, OAuthTypeOK, Logins
  <2>3. CASE NothingToRefresh(w)
    BY <1>1, <2>3, MoveType DEF NothingToRefresh, OAuthTypeOK, Logins
  <2>4. CASE Accept(w)
    <3> DEFINE t == answer[w]
               n == IF t.grant \in Rotating THEN t.serial + 1 ELSE t.serial
    <3>1. /\ t \in Token
          /\ n <= MaxSerial
          /\ live' = [live EXCEPT ![t.grant] = n]
          /\ held' = [held EXCEPT ![w] = [t EXCEPT !.serial = n]]
          /\ At(w, "accepted")
      BY <2>4 DEF Accept
    <3>2. t.grant \in Grants /\ n \in 0..MaxSerial /\ [t EXCEPT !.serial = n] \in Token
      BY <3>1, OAuthAssumption DEF Token
    <3>3. live' \in [Grants -> 0..MaxSerial]
      BY <3>1, <3>2 DEF OAuthTypeOK
    <3> HIDE DEF n
    <3> QED
      BY <1>1, <2>4, <3>1, <3>2, <3>3, MoveType DEF Accept, OAuthTypeOK
  <2>5. CASE Refuse(w)
    BY <1>1, <2>5, MoveType DEF Refuse, OAuthTypeOK, Logins
  <2>6. CASE Respond(w)
    BY <1>1, <2>6, MoveType, HeldIsToken DEF Respond, OAuthTypeOK, Logins
  <2>7. CASE LoseAnswer(w)
    BY <1>1, <2>7, MoveType DEF LoseAnswer, Lose, OAuthTypeOK, Logins
  <2>8. CASE FinishRefresh(w)
    BY <1>1, <2>8, MoveType DEF FinishRefresh, OAuthTypeOK, Logins
  <2> QED
    BY <1>3, <2>1, <2>2, <2>3, <2>4, <2>5, <2>6, <2>7, <2>8 DEF RefreshStep
<1>4. ASSUME NEW w \in Workers, LoginStep(w)
      PROVE  OAuthTypeOK'
  <2>1. CASE LoginFails(w)
    BY <1>1, <2>1, MoveType DEF LoginFails, OAuthTypeOK, Logins
  <2>2. CASE Invalidate(w)
    BY <1>1, <2>2, MoveType, HeldIsToken
       DEF Invalidate, Stored, Succeed, NoAccess, OAuthTypeOK, Logins
  <2>3. CASE DeviceDone(w)
    BY <1>1, <2>3, MoveType, HeldIsToken DEF DeviceDone, Stored, Succeed, OAuthTypeOK, Logins
  <2>4. CASE CliRefresh(w)
    BY <1>1, <2>4, MoveType, HeldIsToken DEF CliRefresh, Stored, Succeed, OAuthTypeOK, Logins
  <2> QED
    BY <1>4, <2>1, <2>2, <2>3, <2>4 DEF LoginStep
<1>5. ASSUME NEW w \in Workers, StoreProceeds(w)
      PROVE  OAuthTypeOK'
  BY <1>1, <1>5 DEF StoreProceeds, Lose, OAuthTypeOK
<1>6. ASSUME NEW w \in Workers, DropHandler(w)
      PROVE  OAuthTypeOK'
  BY <1>1, <1>6, MoveType DEF DropHandler, Lose, OAuthTypeOK, Logins
<1>7. ASSUME NEW j \in detached, RunStatement(j)
      PROVE  OAuthTypeOK'
  BY <1>1, <1>7 DEF RunStatement, Lose, OAuthTypeOK
<1>8. ASSUME NEW k \in Masters, RestartServer(k)
      PROVE  OAuthTypeOK'
  BY <1>1, <1>8 DEF RestartServer, Lose, NoAccess, OAuthTypeOK, Logins
<1>9. CASE Expire
  BY <1>1, <1>9 DEF Expire, OAuthTypeOK
<1>10. CASE UNCHANGED oauthVars
  BY <1>1, <1>10 DEF oauthVars, managerVars, OAuthTypeOK
<1> QED
  BY <1>2, <1>3, <1>4, <1>5, <1>6, <1>7, <1>8, <1>9, <1>10 DEF OAuthNext

\* For every number of workers and logins, tokens are where they belong
\* (OAuthManager).
THEOREM OAuthTypeCorrect == OAuthSpec => []OAuthTypeOK
  BY OAuthInitTypeOK, OAuthNextTypeOK, PTL DEF OAuthSpec

\* The credential manager uses the key store only through set and get, so
\* every behaviour of it is a behaviour of the store (OAuthManager.key_store).
THEOREM StoreUnderneath == OAuthSpec => Spec
<1>1. OAuthInit => Init
  BY DEF OAuthInit
<1>2. OAuthTypeOK /\ [OAuthNext]_oauthVars => [Next]_storeVars
  BY StoreKept
<1> QED
  BY <1>1, <1>2, OAuthTypeCorrect, PTL DEF OAuthSpec, Spec

-----------------------------------------------------------------------------
(* The tokens: the newest login stays *)

\* Which store operation a worker is in, and the token it is about.
StandsWithStore ==
    /\ \A w \in Workers :
          /\ at[w] \in {"idle", "refresh", "accepted"} => pc[w] = "idle"
          /\ at[w] = "load" => pc[w] \in {"idle", "read", "fill"}
          /\ at[w] \in {"keep"} \cup Logins => pc[w] \in {"idle", "write", "publish"}
          /\ pc[w] \in {"write", "publish"} => val[w] = held[w]
    /\ \A j \in detached : j.row # NoRow

\* A login that nothing overlapped is alone in the system, and a calm system
\* has no other logins.
SoloIsAlone ==
    \A w \in Workers : solo[w] /\ at[w] \in Logins =>
        detached = {} /\ \A v \in Workers \ {w} : at[v] = "idle"
CalmIsSolo == calm => \A w \in Workers : at[w] \in Logins => solo[w]

\* How far the token of a login got.
InCache(w) == at[w] \in Logins /\ pc[w] = "idle" /\ answer[w] # StoreError
InTable(w) == InCache(w) \/ (at[w] \in Logins /\ pc[w] = "publish")

SoloStores ==
    \A w \in Workers : solo[w] =>
        /\ InTable(w) => table[Provider] # NoRow /\ table[Provider].secret = held[w]
        /\ InCache(w) => cache[Provider] = held[w]

\* In a calm system every copy of a token, except those of the login under way,
\* is of the newest login.
CalmTable == calm /\ table[Provider] # NoRow /\ (\A w \in Workers : ~InTable(w)) =>
                table[Provider].secret.grant = latest
CalmCache == calm /\ cache[Provider] # NoKey /\ (\A w \in Workers : ~InCache(w)) =>
                cache[Provider].grant = latest
CalmWorkers == calm => \A w \in Workers :
    /\ at[w] \in {"accepted", "keep"} => held[w].grant = latest
    /\ at[w] = "load" /\ pc[w] = "fill" => val[w].grant = latest
    /\ at[w] = "load" /\ pc[w] = "idle" /\ answer[w] \in Token => answer[w].grant = latest
CalmStatements == calm => \A j \in detached : j.row.secret.grant = latest
CalmAccess == calm /\ ~leftover => access.grant \in {latest, NoGrant}

LoginInv ==
    /\ OAuthTypeOK
    /\ StandsWithStore /\ SoloIsAlone /\ CalmIsSolo /\ SoloStores
    /\ CalmTable /\ CalmCache /\ CalmWorkers /\ CalmStatements /\ CalmAccess

LEMMA LoginFacts ==
    ASSUME LoginInv
    PROVE  /\ at \in [Workers -> {"idle", "refresh", "load", "accepted", "keep"} \cup Logins]
           /\ pc \in [Workers -> {"idle"} \cup Writing \cup Reading]
           /\ table \in [Pids -> Row \cup {NoRow}] /\ cache \in [Pids -> Secrets \cup {NoKey}]
           /\ val \in [Workers -> Secrets \cup {NoKey}] /\ answer \in [Workers -> Answer]
           /\ held \in [Workers -> Token \cup {NoKey}]
           /\ solo \in [Workers -> BOOLEAN] /\ calm \in BOOLEAN /\ leftover \in BOOLEAN
           /\ detached \subseteq Job
           /\ Pids = {Provider} /\ \A w \in Workers : pid[w] = Provider
           /\ NoKey \notin Token /\ StoreError \notin Token /\ StoreError # NoKey
           /\ NoKey \notin Row
           /\ "idle" \notin Logins
           /\ \A w \in Workers : calm /\ at[w] # "idle" /\ at[w] \notin Logins =>
                  \A v \in Workers : at[v] \notin Logins
  BY OAuthAssumption, KeyStoreAssumption
     DEF LoginInv, OAuthTypeOK, TypeOK, SoloIsAlone, CalmIsSolo, Logins


\* When a login is answered with success in a system that is calm from then on,
\* its token is in the table and in the cache and nobody is about.
LEMMA LoginDone ==
    ASSUME LoginInv, NEW w \in Workers, NEW how \in Logins, Stored(w, how), Succeed(w), calm'
    PROVE  /\ detached = {}
           /\ \A v \in Workers \ {w} : at[v] = "idle"
           /\ table[Provider].secret = held[w] /\ cache[Provider] = held[w]
           /\ latest' = held[w].grant
<1>1. at[w] = how /\ InCache(w) /\ solo[w]
  BY DEF Stored, Returned, Succeed, InCache, LoginInv, CalmIsSolo
<1> QED
  BY <1>1 DEF Succeed, LoginInv, SoloIsAlone, SoloStores, InTable

LEMMA LoginInvInit == OAuthInit => LoginInv
<1> SUFFICES ASSUME OAuthInit PROVE LoginInv
  OBVIOUS
<1>1. OAuthTypeOK
  BY OAuthInitTypeOK
<1>2. /\ \A w \in Workers : pc[w] = "idle" /\ at[w] = "idle" /\ ~solo[w]
      /\ detached = {} /\ table[Provider] = NoRow /\ cache[Provider] = NoKey
      /\ access.grant = NoGrant
  BY OAuthAssumption DEF OAuthInit, Init, NoAccess
<1>3. StandsWithStore /\ SoloIsAlone /\ CalmIsSolo /\ SoloStores
  BY <1>2 DEF StandsWithStore, SoloIsAlone, CalmIsSolo, SoloStores, Logins
<1>4. CalmTable /\ CalmCache /\ CalmWorkers /\ CalmStatements /\ CalmAccess
  BY <1>2 DEF CalmTable, CalmCache, CalmWorkers, CalmStatements, CalmAccess
<1> QED
  BY <1>1, <1>3, <1>4 DEF LoginInv

LEMMA StartRefreshKeepsLogin ==
    ASSUME LoginInv, OAuthTypeOK', NEW w \in Workers, StartRefresh(w)
    PROVE  LoginInv'
  BY LoginFacts DEF StartRefresh, At, storeVars, LoginInv, StandsWithStore, SoloIsAlone,
         CalmIsSolo, SoloStores, CalmTable, CalmCache, CalmWorkers, CalmStatements,
         CalmAccess, InTable, InCache, Logins, LoginInFlight

LEMMA LoadTokenKeepsLogin ==
    ASSUME LoginInv, OAuthTypeOK', NEW w \in Workers, LoadToken(w)
    PROVE  LoginInv'
<1> USE LoginFacts DEF LoginInv
<1>1. StandsWithStore'
  BY DEF LoadToken, At, StartGet, Begin, Finish, Goto, StandsWithStore, InTable,
         InCache, Logins
<1>2. SoloIsAlone' /\ CalmIsSolo'
  BY DEF LoadToken, At, StartGet, Begin, Finish, Goto, SoloIsAlone, CalmIsSolo, Alone,
         LoginInFlight, InTable, InCache, Logins
<1>3. SoloStores'
  BY DEF LoadToken, At, StartGet, Begin, Finish, Goto, SoloStores, SoloIsAlone,
         StandsWithStore, InTable, InCache, Logins
<1>4. CalmTable' /\ CalmCache'
  BY DEF LoadToken, At, StartGet, Begin, Finish, Goto, CalmTable, CalmCache,
         CalmWorkers, StandsWithStore, InTable, InCache, Logins
<1>5. CalmWorkers'
  BY DEF LoadToken, At, StartGet, Begin, Finish, Goto, CalmWorkers, CalmTable,
         CalmCache, StandsWithStore, InTable, InCache, Logins
<1>6. CalmStatements' /\ CalmAccess'
  BY DEF LoadToken, At, StartGet, Begin, Finish, Goto, CalmStatements, CalmAccess,
         CalmWorkers, StandsWithStore, InTable, InCache, Logins
<1> QED
  BY <1>1, <1>2, <1>3, <1>4, <1>5, <1>6

LEMMA NothingToRefreshKeepsLogin ==
    ASSUME LoginInv, OAuthTypeOK', NEW w \in Workers, NothingToRefresh(w)
    PROVE  LoginInv'
  BY LoginFacts DEF NothingToRefresh, At, Returned, storeVars, LoginInv,
         StandsWithStore, SoloIsAlone, CalmIsSolo, SoloStores, CalmTable, CalmCache,
         CalmWorkers, CalmStatements, CalmAccess, InTable, InCache, Logins

LEMMA AcceptKeepsLogin ==
    ASSUME LoginInv, OAuthTypeOK', NEW w \in Workers, Accept(w)
    PROVE  LoginInv'
  BY LoginFacts DEF Accept, At, Returned, storeVars, LoginInv, StandsWithStore,
         SoloIsAlone, CalmIsSolo, SoloStores, CalmTable, CalmCache, CalmWorkers,
         CalmStatements, CalmAccess, InTable, InCache, Logins

LEMMA RefuseKeepsLogin ==
    ASSUME LoginInv, OAuthTypeOK', NEW w \in Workers, Refuse(w)
    PROVE  LoginInv'
  BY LoginFacts DEF Refuse, At, Returned, storeVars, LoginInv, StandsWithStore,
         SoloIsAlone, CalmIsSolo, SoloStores, CalmTable, CalmCache, CalmWorkers,
         CalmStatements, CalmAccess, InTable, InCache, Logins

LEMMA RespondKeepsLogin ==
    ASSUME LoginInv, OAuthTypeOK', NEW w \in Workers, Respond(w)
    PROVE  LoginInv'
<1> USE LoginFacts DEF LoginInv
<1>1. StandsWithStore'
  BY DEF Respond, At, StartSet, Begin, Goto, StandsWithStore, InTable, InCache, Logins
<1>2. SoloIsAlone' /\ CalmIsSolo'
  BY DEF Respond, At, StartSet, Begin, Goto, SoloIsAlone, CalmIsSolo, Alone,
         LoginInFlight, InTable, InCache, Logins
<1>3. SoloStores'
  BY DEF Respond, At, StartSet, Begin, Goto, SoloStores, SoloIsAlone, StandsWithStore,
         InTable, InCache, Logins
<1>4. CalmTable' /\ CalmCache'
  BY DEF Respond, At, StartSet, Begin, Goto, CalmTable, CalmCache, CalmWorkers,
         StandsWithStore, InTable, InCache, Logins
<1>5. CalmWorkers'
  BY DEF Respond, At, StartSet, Begin, Goto, CalmWorkers, CalmTable, CalmCache,
         StandsWithStore, InTable, InCache, Logins
<1>6. CalmStatements' /\ CalmAccess'
  BY DEF Respond, At, StartSet, Begin, Goto, CalmStatements, CalmAccess, CalmWorkers,
         StandsWithStore, InTable, InCache, Logins
<1> QED
  BY <1>1, <1>2, <1>3, <1>4, <1>5, <1>6

LEMMA LoseAnswerKeepsLogin ==
    ASSUME LoginInv, OAuthTypeOK', NEW w \in Workers, LoseAnswer(w)
    PROVE  LoginInv'
  BY LoginFacts DEF LoseAnswer, At, storeVars, LoginInv, StandsWithStore, SoloIsAlone,
         CalmIsSolo, SoloStores, CalmTable, CalmCache, CalmWorkers, CalmStatements,
         CalmAccess, InTable, InCache, Logins

LEMMA FinishRefreshKeepsLogin ==
    ASSUME LoginInv, OAuthTypeOK', NEW w \in Workers, FinishRefresh(w)
    PROVE  LoginInv'
  BY LoginFacts DEF FinishRefresh, At, Returned, storeVars, LoginInv, StandsWithStore,
         SoloIsAlone, CalmIsSolo, SoloStores, CalmTable, CalmCache, CalmWorkers,
         CalmStatements, CalmAccess, InTable, InCache, Logins

LEMMA StartLoginKeepsLogin ==
    ASSUME LoginInv, OAuthTypeOK', NEW w \in Workers, NEW g \in Grants, NEW how \in Logins,
           StartLogin(w, g, how)
    PROVE  LoginInv'
<1> USE LoginFacts DEF LoginInv
<1>1. StandsWithStore'
  BY DEF StartLogin, At, StartSet, Begin, Goto, Alone, StandsWithStore, InTable,
         InCache, Logins
<1>2. SoloIsAlone' /\ CalmIsSolo'
  BY DEF StartLogin, At, StartSet, Begin, Goto, Alone, SoloIsAlone, CalmIsSolo,
         LoginInFlight, InTable, InCache, Logins
<1>3. SoloStores'
  BY DEF StartLogin, At, StartSet, Begin, Goto, Alone, SoloStores, SoloIsAlone,
         StandsWithStore, InTable, InCache, Logins
<1>4. CalmTable' /\ CalmCache'
  BY DEF StartLogin, At, StartSet, Begin, Goto, Alone, CalmTable, CalmCache,
         CalmWorkers, StandsWithStore, InTable, InCache, Logins
<1>5. CalmWorkers'
  BY DEF StartLogin, At, StartSet, Begin, Goto, Alone, CalmWorkers, CalmTable,
         CalmCache, StandsWithStore, InTable, InCache, Logins
<1>6. CalmStatements' /\ CalmAccess'
  BY DEF StartLogin, At, StartSet, Begin, Goto, Alone, CalmStatements, CalmAccess,
         CalmWorkers, StandsWithStore, InTable, InCache, Logins
<1> QED
  BY <1>1, <1>2, <1>3, <1>4, <1>5, <1>6

LEMMA LoginFailsKeepsLogin ==
    ASSUME LoginInv, OAuthTypeOK', NEW w \in Workers, LoginFails(w)
    PROVE  LoginInv'
  BY LoginFacts DEF LoginFails, At, Returned, storeVars, LoginInv, StandsWithStore,
         SoloIsAlone, CalmIsSolo, SoloStores, CalmTable, CalmCache, CalmWorkers,
         CalmStatements, CalmAccess, InTable, InCache, Logins

LEMMA InvalidateKeepsLogin ==
    ASSUME LoginInv, OAuthTypeOK', NEW w \in Workers, Invalidate(w)
    PROVE  LoginInv'
<1> USE LoginFacts DEF LoginInv
<1>1. StandsWithStore'
  BY DEF Invalidate, Stored, Succeed, NoAccess, At, Returned, storeVars, SoloStores,
         SoloIsAlone, StandsWithStore, InTable, InCache, Logins
<1>2. SoloIsAlone' /\ CalmIsSolo'
  BY DEF Invalidate, Stored, Succeed, NoAccess, At, Returned, storeVars, SoloStores,
         SoloIsAlone, CalmIsSolo, Alone, LoginInFlight, InTable, InCache, Logins
<1>3. SoloStores'
  BY DEF Invalidate, Stored, Succeed, NoAccess, At, Returned, storeVars, SoloStores,
         SoloIsAlone, StandsWithStore, InTable, InCache, Logins
<1>4. CalmTable' /\ CalmCache'
  <2>1. ASSUME calm' PROVE table[Provider].secret.grant = latest' /\ cache[Provider].grant = latest'
    BY <2>1, LoginDone DEF Invalidate, Logins
  <2>2. table' = table /\ cache' = cache
    BY DEF Invalidate, storeVars
  <2> QED
    BY <2>1, <2>2 DEF CalmTable, CalmCache
<1>5. CalmWorkers'
  BY DEF Invalidate, Stored, Succeed, NoAccess, At, Returned, storeVars, SoloStores,
         SoloIsAlone, CalmWorkers, CalmTable, CalmCache, StandsWithStore, InTable,
         InCache, Logins
<1>6. CalmStatements' /\ CalmAccess'
  <2>1. ASSUME calm' PROVE detached' = {}
    BY <2>1, LoginDone DEF Invalidate, Logins, storeVars
  <2>2. ~leftover' => access'.grant = NoGrant
    BY DEF Invalidate, NoAccess
  <2> QED
    BY <2>1, <2>2 DEF CalmStatements, CalmAccess
<1> QED
  BY <1>1, <1>2, <1>3, <1>4, <1>5, <1>6

LEMMA DeviceDoneKeepsLogin ==
    ASSUME LoginInv, OAuthTypeOK', NEW w \in Workers, DeviceDone(w)
    PROVE  LoginInv'
<1> USE LoginFacts DEF LoginInv
<1>1. StandsWithStore'
  BY DEF DeviceDone, Stored, Succeed, NoAccess, At, Returned, storeVars, SoloStores,
         SoloIsAlone, StandsWithStore, InTable, InCache, Logins
<1>2. SoloIsAlone' /\ CalmIsSolo'
  BY DEF DeviceDone, Stored, Succeed, NoAccess, At, Returned, storeVars, SoloStores,
         SoloIsAlone, CalmIsSolo, Alone, LoginInFlight, InTable, InCache, Logins
<1>3. SoloStores'
  BY DEF DeviceDone, Stored, Succeed, NoAccess, At, Returned, storeVars, SoloStores,
         SoloIsAlone, StandsWithStore, InTable, InCache, Logins
<1>4. CalmTable' /\ CalmCache'
  <2>1. ASSUME calm' PROVE table[Provider].secret.grant = latest' /\ cache[Provider].grant = latest'
    BY <2>1, LoginDone DEF DeviceDone, Logins
  <2>2. table' = table /\ cache' = cache
    BY DEF DeviceDone, storeVars
  <2> QED
    BY <2>1, <2>2 DEF CalmTable, CalmCache
<1>5. CalmWorkers'
  BY DEF DeviceDone, Stored, Succeed, NoAccess, At, Returned, storeVars, SoloStores,
         SoloIsAlone, CalmWorkers, CalmTable, CalmCache, StandsWithStore, InTable,
         InCache, Logins
<1>6. CalmStatements' /\ CalmAccess'
  <2>1. ASSUME calm' PROVE detached' = {}
    BY <2>1, LoginDone DEF DeviceDone, Logins, storeVars
  <2>2. ASSUME ~leftover' PROVE access'.grant = NoGrant
    <3>1. leftover' = (access # NoAccess) /\ access' = access
      BY DEF DeviceDone
    <3>2. access = NoAccess
      BY <2>2, <3>1
    <3> QED
      BY <3>1, <3>2 DEF NoAccess
  <2> QED
    BY <2>1, <2>2 DEF CalmStatements, CalmAccess
<1> QED
  BY <1>1, <1>2, <1>3, <1>4, <1>5, <1>6

LEMMA CliRefreshKeepsLogin ==
    ASSUME LoginInv, OAuthTypeOK', NEW w \in Workers, CliRefresh(w)
    PROVE  LoginInv'
<1> USE LoginFacts DEF LoginInv
<1>1. StandsWithStore'
  BY DEF CliRefresh, Stored, Succeed, NoAccess, At, Returned, storeVars, SoloStores,
         SoloIsAlone, StandsWithStore, InTable, InCache, Logins
<1>2. SoloIsAlone' /\ CalmIsSolo'
  BY DEF CliRefresh, Stored, Succeed, NoAccess, At, Returned, storeVars, SoloStores,
         SoloIsAlone, CalmIsSolo, Alone, LoginInFlight, InTable, InCache, Logins
<1>3. SoloStores'
  BY DEF CliRefresh, Stored, Succeed, NoAccess, At, Returned, storeVars, SoloStores,
         SoloIsAlone, StandsWithStore, InTable, InCache, Logins
<1>4. CalmTable' /\ CalmCache'
  <2>1. ASSUME calm' PROVE table[Provider].secret.grant = latest' /\ cache[Provider].grant = latest'
    BY <2>1, LoginDone DEF CliRefresh, Logins
  <2>2. table' = table /\ cache' = cache
    BY DEF CliRefresh, storeVars
  <2> QED
    BY <2>1, <2>2 DEF CalmTable, CalmCache
<1>5. CalmWorkers'
  BY DEF CliRefresh, Stored, Succeed, NoAccess, At, Returned, storeVars, SoloStores,
         SoloIsAlone, CalmWorkers, CalmTable, CalmCache, StandsWithStore, InTable,
         InCache, Logins
<1>6. CalmStatements' /\ CalmAccess'
  <2>1. ASSUME calm' PROVE detached' = {}
    BY <2>1, LoginDone DEF CliRefresh, Logins, storeVars
  <2>2. ASSUME ~leftover' PROVE access'.grant = NoGrant
    <3>1. leftover' = (access # NoAccess) /\ access' = access
      BY DEF CliRefresh
    <3>2. access = NoAccess
      BY <2>2, <3>1
    <3> QED
      BY <3>1, <3>2 DEF NoAccess
  <2> QED
    BY <2>1, <2>2 DEF CalmStatements, CalmAccess
<1> QED
  BY <1>1, <1>2, <1>3, <1>4, <1>5, <1>6

LEMMA WriteStepKeepsLogin ==
    ASSUME LoginInv, OAuthTypeOK', NEW w \in Workers, StoreProceeds(w), WriteRow(w)
    PROVE  LoginInv'
<1> USE LoginFacts DEF LoginInv
<1>1. StandsWithStore'
  BY DEF StoreProceeds, WriteRow, Fail, Finish, Goto, StandsWithStore, InTable, InCache,
         Logins
<1>2. SoloIsAlone' /\ CalmIsSolo'
  BY DEF StoreProceeds, WriteRow, Fail, Finish, Goto, SoloIsAlone, CalmIsSolo, Alone,
         LoginInFlight, InTable, InCache, Logins
<1>3. SoloStores'
  <2>1. \A v \in Workers : solo'[v] /\ at'[v] \in Logins => v = w
    BY DEF StoreProceeds, SoloIsAlone
  <2>2. ~InCache(w)'
    BY DEF StoreProceeds, WriteRow, Fail, Finish, Goto, InCache
  <2>3. ASSUME pc'[w] = "publish"
        PROVE  table'[Provider] # NoRow /\ table'[Provider].secret = held'[w]
    <3>1. /\ pc[w] = "write" /\ held' = held
          /\ table' = [table EXCEPT ![Provider] = [secret |-> val[w], master |-> master]]
      BY <2>3 DEF StoreProceeds, WriteRow, Fail, Finish, Goto
    <3>2. [secret |-> val[w], master |-> master] \in Row /\ val[w] = held[w]
      BY <3>1 DEF OAuthTypeOK, TypeOK, Row, StandsWithStore
    <3> QED
      BY <3>1, <3>2 DEF NoRow
  <2> QED
    BY <2>1, <2>2, <2>3 DEF SoloStores, InTable, InCache
<1>4. CalmTable' /\ CalmCache'
  BY DEF StoreProceeds, WriteRow, Fail, Finish, Goto, CalmTable, CalmCache, CalmWorkers,
         StandsWithStore, InTable, InCache, Logins
<1>5. CalmWorkers'
  BY DEF StoreProceeds, WriteRow, Fail, Finish, Goto, CalmWorkers, CalmTable, CalmCache,
         StandsWithStore, InTable, InCache, Logins
<1>6. CalmStatements' /\ CalmAccess'
  BY DEF StoreProceeds, WriteRow, Fail, Finish, Goto, CalmStatements, CalmAccess,
         CalmWorkers, StandsWithStore, InTable, InCache, Logins
<1> QED
  BY <1>1, <1>2, <1>3, <1>4, <1>5, <1>6

LEMMA PublishStepKeepsLogin ==
    ASSUME LoginInv, OAuthTypeOK', NEW w \in Workers, StoreProceeds(w), Publish(w)
    PROVE  LoginInv'
<1> USE LoginFacts DEF LoginInv
<1>1. StandsWithStore'
  BY DEF StoreProceeds, Publish, Finish, Goto, StandsWithStore, InTable, InCache, Logins
<1>2. SoloIsAlone' /\ CalmIsSolo'
  BY DEF StoreProceeds, Publish, Finish, Goto, SoloIsAlone, CalmIsSolo, Alone,
         LoginInFlight, InTable, InCache, Logins
<1>3. SoloStores'
  BY DEF StoreProceeds, Publish, Finish, Goto, SoloStores, SoloIsAlone, StandsWithStore,
         InTable, InCache, Logins
<1>4. CalmTable' /\ CalmCache'
  BY DEF StoreProceeds, Publish, Finish, Goto, CalmTable, CalmCache, CalmWorkers,
         StandsWithStore, InTable, InCache, Logins
<1>5. CalmWorkers'
  BY DEF StoreProceeds, Publish, Finish, Goto, CalmWorkers, CalmTable, CalmCache,
         StandsWithStore, InTable, InCache, Logins
<1>6. CalmStatements' /\ CalmAccess'
  BY DEF StoreProceeds, Publish, Finish, Goto, CalmStatements, CalmAccess, CalmWorkers,
         StandsWithStore, InTable, InCache, Logins
<1> QED
  BY <1>1, <1>2, <1>3, <1>4, <1>5, <1>6

LEMMA ReadStepKeepsLogin ==
    ASSUME LoginInv, OAuthTypeOK', NEW w \in Workers, StoreProceeds(w), ReadRow(w)
    PROVE  LoginInv'
<1> USE LoginFacts DEF LoginInv
<1>1. StandsWithStore'
  BY DEF StoreProceeds, ReadRow, Finish, Goto, StandsWithStore, InTable, InCache, Logins
<1>2. SoloIsAlone' /\ CalmIsSolo'
  BY DEF StoreProceeds, ReadRow, Finish, Goto, SoloIsAlone, CalmIsSolo, Alone,
         LoginInFlight, InTable, InCache, Logins
<1>3. SoloStores'
  BY DEF StoreProceeds, ReadRow, Finish, Goto, SoloStores, SoloIsAlone, StandsWithStore,
         InTable, InCache, Logins
<1>4. CalmTable' /\ CalmCache'
  BY DEF StoreProceeds, ReadRow, Finish, Goto, CalmTable, CalmCache, CalmWorkers,
         StandsWithStore, InTable, InCache, Logins
<1>5. CalmWorkers'
  BY DEF StoreProceeds, ReadRow, Finish, Goto, CalmWorkers, CalmTable, CalmCache,
         StandsWithStore, InTable, InCache, Logins
<1>6. CalmStatements' /\ CalmAccess'
  BY DEF StoreProceeds, ReadRow, Finish, Goto, CalmStatements, CalmAccess, CalmWorkers,
         StandsWithStore, InTable, InCache, Logins
<1> QED
  BY <1>1, <1>2, <1>3, <1>4, <1>5, <1>6

LEMMA FillStepKeepsLogin ==
    ASSUME LoginInv, OAuthTypeOK', NEW w \in Workers, StoreProceeds(w), Fill(w)
    PROVE  LoginInv'
<1> USE LoginFacts DEF LoginInv
<1>1. StandsWithStore'
  BY DEF StoreProceeds, Fill, Finish, Goto, StandsWithStore, InTable, InCache, Logins
<1>2. SoloIsAlone' /\ CalmIsSolo'
  BY DEF StoreProceeds, Fill, Finish, Goto, SoloIsAlone, CalmIsSolo, Alone,
         LoginInFlight, InTable, InCache, Logins
<1>3. SoloStores'
  BY DEF StoreProceeds, Fill, Finish, Goto, SoloStores, SoloIsAlone, StandsWithStore,
         InTable, InCache, Logins
<1>4. CalmTable' /\ CalmCache'
  BY DEF StoreProceeds, Fill, Finish, Goto, CalmTable, CalmCache, CalmWorkers,
         StandsWithStore, InTable, InCache, Logins
<1>5. CalmWorkers'
  BY DEF StoreProceeds, Fill, Finish, Goto, CalmWorkers, CalmTable, CalmCache,
         StandsWithStore, InTable, InCache, Logins
<1>6. CalmStatements' /\ CalmAccess'
  BY DEF StoreProceeds, Fill, Finish, Goto, CalmStatements, CalmAccess, CalmWorkers,
         StandsWithStore, InTable, InCache, Logins
<1> QED
  BY <1>1, <1>2, <1>3, <1>4, <1>5, <1>6

LEMMA DropHandlerKeepsLogin ==
    ASSUME LoginInv, OAuthTypeOK', NEW w \in Workers, DropHandler(w)
    PROVE  LoginInv'
<1> USE LoginFacts DEF LoginInv
<1>1. StandsWithStore'
  <2>1. \A v \in Workers \ {w} : /\ at'[v] = at[v] /\ pc'[v] = pc[v]
                                  /\ val'[v] = val[v] /\ held'[v] = held[v]
    BY DEF DropHandler, At, Returned, Drop, Finish, Goto, storeVars
  <2>2. at'[w] = "idle" /\ pc'[w] = "idle"
    BY DEF DropHandler, At, Returned, Drop, Finish, Goto, storeVars
  <2>3. ASSUME NEW j \in detached' PROVE j.row # NoRow
    <3>1. CASE j \in detached
      BY <3>1 DEF StandsWithStore
    <3>2. CASE j \notin detached
      <4>1. pc[w] = "write" /\ j.row = [secret |-> val[w], master |-> master]
        BY <3>2 DEF DropHandler, Returned, Drop, storeVars, StandsWithStore, Logins
      <4>2. j.row \in Row
        BY <4>1 DEF OAuthTypeOK, TypeOK, Row
      <4> QED
        BY <4>2 DEF NoRow
    <3> QED
      BY <3>1, <3>2
  <2> QED
    BY <2>1, <2>2, <2>3 DEF StandsWithStore, Logins
<1>2. SoloIsAlone' /\ CalmIsSolo'
  BY DEF DropHandler, At, Returned, Drop, Finish, Goto, storeVars, SoloIsAlone,
         CalmIsSolo, Alone, LoginInFlight, InTable, InCache, Logins
<1>3. SoloStores'
  BY DEF DropHandler, At, Returned, Drop, Finish, Goto, storeVars, SoloStores,
         SoloIsAlone, StandsWithStore, InTable, InCache, Logins
<1>4. CalmTable' /\ CalmCache'
  BY DEF DropHandler, At, Returned, Drop, Finish, Goto, storeVars, CalmTable, CalmCache,
         CalmWorkers, StandsWithStore, InTable, InCache, Logins
<1>5. CalmWorkers'
  BY DEF DropHandler, At, Returned, Drop, Finish, Goto, storeVars, CalmWorkers,
         CalmTable, CalmCache, StandsWithStore, InTable, InCache, Logins
<1>6. CalmStatements' /\ CalmAccess'
  <2>1. ASSUME calm', NEW j \in detached' PROVE j.row.secret.grant = latest'
    <3>1. calm /\ at[w] \notin Logins /\ latest' = latest
      BY <2>1 DEF DropHandler
    <3>2. CASE j \in detached
      BY <3>1, <3>2 DEF CalmStatements
    <3>3. CASE j \notin detached
      <4>1. pc[w] = "write" /\ j.row = [secret |-> val[w], master |-> master]
        BY <3>3 DEF DropHandler, Returned, Drop, storeVars, StandsWithStore, Logins
      <4>2. at[w] = "keep" /\ val[w] = held[w]
        BY <3>1, <4>1 DEF StandsWithStore
      <4> QED
        BY <3>1, <4>1, <4>2 DEF CalmWorkers
    <3> QED
      BY <3>2, <3>3
  <2> QED
    BY <2>1 DEF DropHandler, CalmStatements, CalmAccess
<1> QED
  BY <1>1, <1>2, <1>3, <1>4, <1>5, <1>6

LEMMA RunStatementKeepsLogin ==
    ASSUME LoginInv, OAuthTypeOK', NEW j \in detached, RunStatement(j)
    PROVE  LoginInv'
<1> USE LoginFacts DEF LoginInv
<1>1. StandsWithStore'
  BY DEF RunStatement, RunDetached, StandsWithStore, InTable, InCache, Logins
<1>2. SoloIsAlone' /\ CalmIsSolo'
  BY DEF RunStatement, RunDetached, SoloIsAlone, CalmIsSolo, Alone, LoginInFlight,
         InTable, InCache, Logins
<1>3. SoloStores'
  BY DEF RunStatement, RunDetached, SoloStores, SoloIsAlone, StandsWithStore, InTable,
         InCache, Logins
<1>4. CalmTable' /\ CalmCache'
  <2>1. j.pid = Provider /\ (calm => j.row.secret.grant = latest)
    BY DEF Job, CalmStatements
  <2>2. /\ table' \in {table, [table EXCEPT ![Provider] = j.row]}
        /\ cache' = cache /\ at' = at /\ pc' = pc /\ answer' = answer
        /\ calm' = calm /\ latest' = latest
    BY <2>1 DEF RunStatement, RunDetached
  <2> QED
    BY <2>1, <2>2 DEF CalmTable, CalmCache, InTable, InCache
<1>5. CalmWorkers'
  BY DEF RunStatement, RunDetached, CalmWorkers, CalmTable, CalmCache, StandsWithStore,
         InTable, InCache, Logins
<1>6. CalmStatements' /\ CalmAccess'
  BY DEF RunStatement, RunDetached, CalmStatements, CalmAccess, CalmWorkers,
         StandsWithStore, InTable, InCache, Logins
<1> QED
  BY <1>1, <1>2, <1>3, <1>4, <1>5, <1>6

LEMMA RestartServerKeepsLogin ==
    ASSUME LoginInv, OAuthTypeOK', NEW k \in Masters, RestartServer(k)
    PROVE  LoginInv'
<1> USE LoginFacts DEF LoginInv
<1>1. StandsWithStore'
  BY DEF RestartServer, Restart, LoginInFlight, NoAccess, StandsWithStore, InTable,
         InCache, Logins
<1>2. SoloIsAlone' /\ CalmIsSolo'
  BY DEF RestartServer, Restart, LoginInFlight, NoAccess, SoloIsAlone, CalmIsSolo,
         Alone, InTable, InCache, Logins
<1>3. SoloStores'
  BY DEF RestartServer, Restart, LoginInFlight, NoAccess, SoloStores, SoloIsAlone,
         StandsWithStore, InTable, InCache, Logins
<1>4. CalmTable' /\ CalmCache'
  BY DEF RestartServer, Restart, LoginInFlight, NoAccess, CalmTable, CalmCache,
         CalmWorkers, StandsWithStore, InTable, InCache, Logins
<1>5. CalmWorkers'
  BY DEF RestartServer, Restart, LoginInFlight, NoAccess, CalmWorkers, CalmTable,
         CalmCache, StandsWithStore, InTable, InCache, Logins
<1>6. CalmStatements' /\ CalmAccess'
  BY DEF RestartServer, Restart, LoginInFlight, NoAccess, CalmStatements, CalmAccess,
         CalmWorkers, StandsWithStore, InTable, InCache, Logins
<1> QED
  BY <1>1, <1>2, <1>3, <1>4, <1>5, <1>6

LEMMA ExpireKeepsLogin ==
    ASSUME LoginInv, OAuthTypeOK', Expire
    PROVE  LoginInv'
  BY LoginFacts DEF Expire, storeVars, LoginInv, StandsWithStore, SoloIsAlone,
         CalmIsSolo, SoloStores, CalmTable, CalmCache, CalmWorkers, CalmStatements,
         CalmAccess, InTable, InCache, Logins

LEMMA StutterKeepsLogin ==
    ASSUME LoginInv, OAuthTypeOK', UNCHANGED oauthVars
    PROVE  LoginInv'
  BY LoginFacts DEF oauthVars, storeVars, managerVars, LoginInv, StandsWithStore,
         SoloIsAlone, CalmIsSolo, SoloStores, CalmTable, CalmCache, CalmWorkers,
         CalmStatements, CalmAccess, InTable, InCache, Logins

LEMMA LoginInvStep == LoginInv /\ [OAuthNext]_oauthVars => LoginInv'
<1> SUFFICES ASSUME LoginInv, [OAuthNext]_oauthVars PROVE LoginInv'
  OBVIOUS
<1>1. OAuthTypeOK'
  BY OAuthNextTypeOK DEF LoginInv
<1>2. ASSUME NEW w \in Workers, RefreshStep(w) PROVE LoginInv'
  BY <1>1, <1>2, StartRefreshKeepsLogin, LoadTokenKeepsLogin, NothingToRefreshKeepsLogin,
     AcceptKeepsLogin, RefuseKeepsLogin, RespondKeepsLogin, LoseAnswerKeepsLogin,
     FinishRefreshKeepsLogin DEF RefreshStep
<1>3. ASSUME NEW w \in Workers, LoginStep(w) PROVE LoginInv'
  BY <1>1, <1>3, LoginFailsKeepsLogin, InvalidateKeepsLogin, DeviceDoneKeepsLogin,
     CliRefreshKeepsLogin DEF LoginStep
<1>4. ASSUME NEW w \in Workers, StoreProceeds(w) PROVE LoginInv'
  <2>1. ~EraseRow(w) /\ ~Forget(w)
    BY <1>4, LoginFacts DEF LoginInv, StandsWithStore, EraseRow, Forget
  <2>2. WriteRow(w) \/ Publish(w) \/ ReadRow(w) \/ Fill(w)
    BY <1>4, <2>1 DEF StoreProceeds, StoreStep
  <2> QED
    BY <1>1, <1>4, <2>2, WriteStepKeepsLogin, PublishStepKeepsLogin, ReadStepKeepsLogin,
       FillStepKeepsLogin
<1> QED
  BY <1>1, <1>2, <1>3, <1>4, StartLoginKeepsLogin, DropHandlerKeepsLogin, ExpireKeepsLogin,
     RunStatementKeepsLogin, RestartServerKeepsLogin, StutterKeepsLogin DEF OAuthNext

\* For every number of workers and logins, a login that nothing overlapped is
\* never undone by a refresh (set_refresh_token, refresh).
THEOREM LoginStays == OAuthSpec => []NewestLoginKept
<1>1. LoginInv => NewestLoginKept
  BY DEF LoginInv, CalmTable, NewestLoginKept, LoginInFlight, InTable, InCache
<1> QED
  BY <1>1, LoginInvInit, LoginInvStep, PTL DEF OAuthSpec

\* And the access token handed out is of that login, unless a device or command
\* line login left an older one in the cache (access_token).
THEOREM AccessFollowsLogin == OAuthSpec => []AccessIsOfNewestLogin
<1>1. LoginInv => AccessIsOfNewestLogin
  BY DEF LoginInv, CalmAccess, AccessIsOfNewestLogin
<1> QED
  BY <1>1, LoginInvInit, LoginInvStep, PTL DEF OAuthSpec

-----------------------------------------------------------------------------
(* The tokens: no rotation is lost *)

\* A token somebody may post again: in the table, in the cache, or in the hands
\* of whoever read it or is about to publish it.
Copy(t) ==
    \/ table[Provider] # NoRow /\ t = table[Provider].secret
    \/ t = cache[Provider]
    \/ \E w \in Workers : t = answer[w] \/ (pc[w] \in {"fill", "publish"} /\ t = val[w])

\* A worker with a token the vendor has just given out.
Bears(w) == at[w] = "accepted" \/ pc[w] = "write"

\* A token nobody but its bearer, or a statement left behind by one, has.
Unshared(t) ==
    \/ \E w \in Workers : Bears(w) /\ t = held[w]
    \/ \E j \in detached : t = j.row.secret

\* Tokens are of logins that took place, and only rotation counts them up.
SerialsKnown ==
    /\ \A g \in Grants : g \notin logins \/ g \notin Rotating => live[g] = 0
    /\ \A t \in Token : Copy(t) => t.grant \in logins /\ t.serial <= live[t.grant]

\* The vendor honours a token nobody else has seen.
UnsharedHonoured == \A t \in Token : Unshared(t) => t.grant \in logins /\ Honoured(t)

\* All copies of its grant are older.
CopiesAreOlder ==
    \A t, u \in Token : Unshared(t) /\ Copy(u) /\ u.grant = t.grant /\ t.grant \in Rotating =>
        u.serial < t.serial

\* One bearer or statement for each grant that is rotated.
OneBearer ==
    /\ \A w \in Workers : Bears(w) /\ held[w].grant \in Rotating =>
          /\ \A v \in Workers \ {w} : Bears(v) => held[v].grant # held[w].grant
          /\ \A j \in detached : j.row.secret.grant # held[w].grant
    /\ \A j, k \in detached :
          j.row.secret.grant = k.row.secret.grant /\ j.row.secret.grant \in Rotating => j = k

TokenInv == SerialsKnown /\ UnsharedHonoured /\ CopiesAreOlder /\ OneBearer

RotationInv == LoginInv /\ TokenInv /\ RotationNotLost

LEMMA TokenFacts ==
    ASSUME LoginInv
    PROVE  /\ at \in [Workers -> {"idle", "refresh", "load", "accepted", "keep"} \cup Logins]
           /\ pc \in [Workers -> {"idle"} \cup Writing \cup Reading]
           /\ table \in [Pids -> Row \cup {NoRow}] /\ cache \in [Pids -> Secrets \cup {NoKey}]
           /\ val \in [Workers -> Secrets \cup {NoKey}] /\ answer \in [Workers -> Answer]
           /\ held \in [Workers -> Token \cup {NoKey}]
           /\ detached \subseteq Job /\ master \in Masters
           /\ live \in [Grants -> 0..MaxSerial] /\ logins \subseteq Grants
           /\ lost \subseteq Rotating /\ Rotating \subseteq Grants
           /\ Pids = {Provider} /\ \A w \in Workers : pid[w] = Provider
           /\ NoKey \notin Token /\ StoreError \notin Token /\ Secrets = Token
           /\ NoKey \notin Row
           /\ \A w \in Workers : Bears(w) => held[w] \in Token
           /\ \A j \in detached : j.row \in Row /\ j.row.secret \in Token /\ j.pid = Provider
           /\ \A w \in Workers : pc[w] \in {"write", "publish"} => val[w] = held[w]
<1>1. \A w \in Workers : Bears(w) => held[w] \in Token
  BY DEF LoginInv, OAuthTypeOK, StandsWithStore, Bears
<1>2. \A j \in detached : j.row \in Row /\ j.row.secret \in Token /\ j.pid = Provider
  BY OAuthAssumption DEF LoginInv, OAuthTypeOK, TypeOK, StandsWithStore, Job, Row, NoRow
<1>3. /\ Pids = {Provider} /\ \A w \in Workers : pid[w] = Provider
      /\ NoKey \notin Token /\ StoreError \notin Token /\ Secrets = Token /\ NoKey \notin Row
  BY OAuthAssumption, KeyStoreAssumption DEF LoginInv, OAuthTypeOK, TypeOK
<1> QED
  BY <1>1, <1>2, <1>3, OAuthAssumption DEF LoginInv, OAuthTypeOK, TypeOK, StandsWithStore

LEMMA TokenParts ==
    \A t \in Token : t.grant \in Grants /\ t.serial \in Nat
  BY OAuthAssumption DEF Token

\* A step that hands out no token and makes no copy of one that is unshared.
LEMMA FewerTokens ==
    ASSUME TokenInv, UNCHANGED <<live, logins>>, detached' \subseteq detached,
           \A t \in Token : Copy(t)' => Copy(t),
           \A w \in Workers : Bears(w)' => Bears(w) /\ held'[w] = held[w]
    PROVE  TokenInv'
<1>1. \A t \in Token : Unshared(t)' => Unshared(t)
  BY DEF Unshared
<1>2. SerialsKnown'
  BY DEF TokenInv, SerialsKnown
<1>3. UnsharedHonoured'
  BY <1>1 DEF TokenInv, UnsharedHonoured, Honoured
<1>4. CopiesAreOlder'
  BY <1>1 DEF TokenInv, CopiesAreOlder
<1>5. OneBearer'
  BY DEF TokenInv, OneBearer
<1> QED
  BY <1>2, <1>3, <1>4, <1>5 DEF TokenInv

\* A step that makes the first copies of token x, which its bearer no longer is
\* the only one to have.
LEMMA FirstCopy ==
    ASSUME TokenInv, UNCHANGED <<live, logins>>, detached' \subseteq detached,
           NEW x \in Token, Unshared(x),
           \A t \in Token : Copy(t)' => Copy(t) \/ t = x,
           \A w \in Workers : Bears(w)' =>
               /\ Bears(w) /\ held'[w] = held[w]
               /\ x.grant \in Rotating => held[w].grant # x.grant,
           \A j \in detached' : x.grant \in Rotating => j.row.secret.grant # x.grant
    PROVE  TokenInv'
<1>1. \A t \in Token : Unshared(t)' => Unshared(t) /\ (x.grant \in Rotating => t.grant # x.grant)
  BY DEF Unshared
<1>2. x.grant \in logins /\ x.serial = live[x.grant] /\ live[x.grant] <= live[x.grant]
  <2>1. x.grant \in logins /\ x.serial = live[x.grant]
    BY DEF TokenInv, UnsharedHonoured, Honoured
  <2> QED
    BY <2>1, TokenParts
<1>3. SerialsKnown'
  BY <1>2 DEF TokenInv, SerialsKnown
<1>4. UnsharedHonoured'
  BY <1>1 DEF TokenInv, UnsharedHonoured, Honoured
<1>5. CopiesAreOlder'
  BY <1>1 DEF TokenInv, CopiesAreOlder
<1>6. OneBearer'
  BY DEF TokenInv, OneBearer
<1> QED
  BY <1>3, <1>4, <1>5, <1>6 DEF TokenInv

\* Where no worker starts to bear a token and the store moves none.
LEMMA ManagerKeepsTokens ==
    ASSUME LoginInv, TokenInv, NEW w \in Workers,
           \/ StartRefresh(w) \/ NothingToRefresh(w) \/ Refuse(w) \/ LoseAnswer(w)
           \/ FinishRefresh(w) \/ LoginStep(w)
    PROVE  TokenInv'
<1> USE TokenFacts
<1>1. UNCHANGED <<storeVars, live, logins>>
  BY DEF StartRefresh, NothingToRefresh, Refuse, LoseAnswer, FinishRefresh, LoginStep,
         LoginFails, Invalidate, DeviceDone, CliRefresh, Succeed
<1>2. \A t \in Token : Copy(t)' => Copy(t)
  BY <1>1 DEF Copy, storeVars
<1>3. /\ \A v \in Workers \ {w} : at'[v] = at[v] /\ held'[v] = held[v]
      /\ at'[w] # "accepted" /\ pc[w] # "write"
  BY DEF StartRefresh, NothingToRefresh, Refuse, LoseAnswer, FinishRefresh, LoginStep,
         LoginFails, Invalidate, DeviceDone, CliRefresh, Succeed, Stored, Returned, At,
         LoginInv, StandsWithStore
<1>4. \A v \in Workers : Bears(v)' => Bears(v) /\ held'[v] = held[v]
  BY <1>1, <1>3 DEF Bears, storeVars
<1> QED
  BY <1>1, <1>2, <1>4, FewerTokens DEF storeVars

LEMMA LoadKeepsTokens ==
    ASSUME LoginInv, TokenInv, NEW w \in Workers, LoadToken(w)
    PROVE  TokenInv'
<1> USE TokenFacts
<1>1. /\ UNCHANGED <<live, logins, held, detached, table, cache, val>> \/ val' = [val EXCEPT ![w] = NoKey]
      /\ UNCHANGED <<live, logins, held, detached, table, cache>>
      /\ pc' \in {pc, [pc EXCEPT ![w] = "idle"], [pc EXCEPT ![w] = "read"]}
      /\ pc[w] = "idle"
      /\ at' = [at EXCEPT ![w] = "load"]
      /\ \A v \in Workers : val'[v] \in {val[v], NoKey}
      /\ \A v \in Workers : answer'[v] \in {answer[v], cache[Provider], NoKey}
  BY DEF LoadToken, At, StartGet, Begin, Finish, Goto
<1>2. \A t \in Token : Copy(t)' => Copy(t)
  BY <1>1 DEF Copy
<1>3. \A v \in Workers : Bears(v)' => Bears(v) /\ held'[v] = held[v]
  BY <1>1 DEF Bears
<1> QED
  BY <1>1, <1>2, <1>3, FewerTokens

LEMMA RespondKeepsTokens ==
    ASSUME LoginInv, TokenInv, NEW w \in Workers, Respond(w)
    PROVE  TokenInv'
<1> USE TokenFacts
<1>1. /\ UNCHANGED <<live, logins, held, detached, table, cache>>
      /\ at[w] = "accepted"
      /\ at' = [at EXCEPT ![w] = "keep"]
      /\ pc' = [pc EXCEPT ![w] = "write"]
      /\ val' = [val EXCEPT ![w] = held[w]]
      /\ answer' = [answer EXCEPT ![w] = NoKey]
  BY DEF Respond, At, StartSet, Begin, Goto
<1>2. \A t \in Token : Copy(t)' => Copy(t)
  BY <1>1 DEF Copy
<1>3. \A v \in Workers : Bears(v)' => Bears(v) /\ held'[v] = held[v]
  BY <1>1 DEF Bears
<1> QED
  BY <1>1, <1>2, <1>3, FewerTokens

\* The vendor gives out a token that is newer than every copy of its grant.
LEMMA AcceptKeepsTokens ==
    ASSUME LoginInv, TokenInv, NEW w \in Workers, Accept(w)
    PROVE  TokenInv'
<1> USE TokenFacts
<1> DEFINE t == answer[w]
           n == IF t.grant \in Rotating THEN t.serial + 1 ELSE t.serial
           x == [t EXCEPT !.serial = n]
<1>1. /\ t \in Token /\ t.grant \in Grants /\ t.serial \in Nat
      /\ t.serial = live[t.grant] /\ n \in 0..MaxSerial
      /\ live' = [live EXCEPT ![t.grant] = n]
      /\ held' = [held EXCEPT ![w] = x]
      /\ at' = [at EXCEPT ![w] = "accepted"]
      /\ at[w] = "load" /\ pc[w] = "idle"
      /\ UNCHANGED <<storeVars, logins>>
  BY TokenParts DEF Accept, At, Returned
<1>2. x \in Token /\ x.grant = t.grant /\ x.serial = n
  BY <1>1 DEF Token
<1> HIDE DEF n, x, t
<1>3. Copy(t)
  BY DEF t, Copy
<1>4. \A u \in Token : Copy(u)' <=> Copy(u)
  BY <1>1 DEF Copy, storeVars
<1>5. t.grant \in logins /\ (t.grant \notin Rotating => n = live[t.grant])
  BY <1>1, <1>3 DEF TokenInv, SerialsKnown, n
<1>6. t.grant \in Rotating => n = live[t.grant] + 1
  BY <1>1 DEF n
<1>7. \A u \in Token : Unshared(u) /\ t.grant \in Rotating => u.grant # t.grant
  <2> SUFFICES ASSUME NEW u \in Token, Unshared(u), t.grant \in Rotating, u.grant = t.grant
               PROVE  FALSE
    OBVIOUS
  <2>1. t.serial < u.serial
    BY <1>1, <1>3 DEF TokenInv, CopiesAreOlder
  <2>2. u.serial = live[t.grant]
    BY DEF TokenInv, UnsharedHonoured, Honoured
  <2> QED
    BY <1>1, <2>1, <2>2
<1>8. \A u \in Token : Unshared(u)' => Unshared(u) \/ u = x
  BY <1>1 DEF Unshared, Bears, storeVars
<1>9. SerialsKnown'
  <2>1. \A g \in Grants : g \notin logins \/ g \notin Rotating => live'[g] = 0
    BY <1>1, <1>5 DEF TokenInv, SerialsKnown
  <2>2. \A u \in Token : Copy(u)' => u.grant \in logins' /\ u.serial <= live'[u.grant]
    BY <1>1, <1>4, <1>5, <1>6, TokenParts DEF TokenInv, SerialsKnown
  <2> QED
    BY <1>1, <2>1, <2>2 DEF SerialsKnown
<1>10. UnsharedHonoured'
  <2> SUFFICES ASSUME NEW u \in Token, Unshared(u)'
               PROVE  u.grant \in logins' /\ u.serial = live'[u.grant]
    BY DEF UnsharedHonoured, Honoured
  <2>1. CASE u = x
    BY <1>1, <1>2, <1>5, <2>1
  <2>2. CASE Unshared(u)
    <3>1. u.grant \in logins /\ u.serial = live[u.grant] /\ u.grant \in Grants
      BY <2>2, TokenParts DEF TokenInv, UnsharedHonoured, Honoured
    <3> QED
      BY <1>1, <1>5, <1>7, <2>2, <3>1
  <2> QED
    BY <1>8, <2>1, <2>2
<1>11. CopiesAreOlder'
  <2> SUFFICES ASSUME NEW u \in Token, NEW c \in Token, Unshared(u)', Copy(c)',
                      c.grant = u.grant, u.grant \in Rotating
               PROVE  c.serial < u.serial
    BY DEF CopiesAreOlder
  <2>1. CASE u = x
    <3>1. c.serial <= live[t.grant] /\ c.serial \in Nat
      BY <1>2, <1>4, <2>1, TokenParts DEF TokenInv, SerialsKnown
    <3>2. live[t.grant] \in Nat
      BY <1>1
    <3> QED
      BY <1>2, <1>6, <2>1, <3>1, <3>2
  <2>2. CASE Unshared(u)
    BY <1>4, <2>2 DEF TokenInv, CopiesAreOlder
  <2> QED
    BY <1>8, <2>1, <2>2
<1>12. OneBearer'
  <2>1. /\ \A v \in Workers \ {w} : (Bears(v)' <=> Bears(v)) /\ held'[v] = held[v]
        /\ held'[w] = x /\ detached' = detached
    BY <1>1 DEF Bears, storeVars
  <2>2. t.grant \in Rotating =>
          /\ \A v \in Workers \ {w} : Bears(v) => held[v].grant # t.grant
          /\ \A j \in detached : j.row.secret.grant # t.grant
    BY <1>7 DEF Unshared
  <2> QED
    BY <1>2, <2>1, <2>2 DEF TokenInv, OneBearer
<1> QED
  BY <1>9, <1>10, <1>11, <1>12 DEF TokenInv

\* A login brings a grant nobody knows.
LEMMA StartLoginKeepsTokens ==
    ASSUME LoginInv, TokenInv, NEW w \in Workers, NEW g \in Grants, NEW how \in Logins,
           StartLogin(w, g, how)
    PROVE  TokenInv'
<1> USE TokenFacts
<1> DEFINE x == [grant |-> g, serial |-> 0]
<1>1. /\ g \notin logins /\ logins' = logins \cup {g}
      /\ UNCHANGED <<live, detached, table, cache>>
      /\ at[w] = "idle" /\ pc[w] = "idle" /\ how # "accepted"
      /\ at' = [at EXCEPT ![w] = how]
      /\ pc' = [pc EXCEPT ![w] = "write"]
      /\ held' = [held EXCEPT ![w] = x]
      /\ val' = [val EXCEPT ![w] = x]
      /\ answer' = [answer EXCEPT ![w] = NoKey]
  BY DEF StartLogin, At, StartSet, Begin, Goto, Logins
<1>2. x \in Token /\ x.grant = g /\ x.serial = 0
  BY OAuthAssumption DEF Token
<1> HIDE DEF x
<1>3. \A u \in Token : Copy(u)' => Copy(u)
  BY <1>1 DEF Copy
<1>4. \A u \in Token : Unshared(u)' => Unshared(u) \/ u = x
  BY <1>1 DEF Unshared, Bears
<1>5. live[g] = 0 /\ (\A u \in Token : Copy(u) \/ Unshared(u) => u.grant # g)
  BY <1>1 DEF TokenInv, SerialsKnown, UnsharedHonoured
<1>6. SerialsKnown'
  BY <1>1, <1>3 DEF TokenInv, SerialsKnown
<1>7. UnsharedHonoured'
  BY <1>1, <1>2, <1>4, <1>5 DEF TokenInv, UnsharedHonoured, Honoured
<1>8. CopiesAreOlder'
  BY <1>2, <1>3, <1>4, <1>5 DEF TokenInv, CopiesAreOlder
<1>9. OneBearer'
  <2>1. /\ \A v \in Workers \ {w} : (Bears(v)' <=> Bears(v)) /\ held'[v] = held[v]
        /\ held'[w] = x /\ detached' = detached
    BY <1>1 DEF Bears
  <2>2. /\ \A v \in Workers \ {w} : Bears(v) => held[v].grant # g
        /\ \A j \in detached : j.row.secret.grant # g
    BY <1>5 DEF Unshared
  <2> QED
    BY <1>2, <2>1, <2>2 DEF TokenInv, OneBearer
<1> QED
  BY <1>6, <1>7, <1>8, <1>9 DEF TokenInv

LEMMA StoreKeepsTokens ==
    ASSUME LoginInv, TokenInv, NEW w \in Workers, StoreProceeds(w)
    PROVE  TokenInv'
<1> USE TokenFacts
<1>1. UNCHANGED <<live, logins, at, held, detached>>
  BY DEF StoreProceeds, StoreStep, WriteRow, Publish, EraseRow, Forget, ReadRow, Fill
<1>2. ~EraseRow(w) /\ ~Forget(w)
  BY DEF LoginInv, StandsWithStore, EraseRow, Forget
<1>3. CASE WriteRow(w)
  <2>1. /\ pc[w] = "write" /\ Bears(w) /\ val[w] = held[w] /\ Unshared(held[w])
        /\ cache' = cache
    BY <1>3 DEF WriteRow, Bears, Unshared
  <2>2. CASE /\ table' = [table EXCEPT ![Provider] = [secret |-> held[w], master |-> master]]
             /\ pc' = [pc EXCEPT ![w] = "publish"]
             /\ UNCHANGED <<val, answer>>
    <3>1. table'[Provider].secret = held[w]
      BY <2>2
    <3>2. \A t \in Token : Copy(t)' => Copy(t) \/ t = held[w]
      BY <2>1, <2>2, <3>1 DEF Copy
    <3>3. at[w] # "accepted"
      BY <2>1 DEF LoginInv, StandsWithStore
    <3>4. \A v \in Workers : Bears(v)' => v # w /\ Bears(v) /\ held'[v] = held[v]
      BY <1>1, <2>2, <3>3 DEF Bears
    <3>5. held[w].grant \in Rotating =>
             /\ \A v \in Workers \ {w} : Bears(v) => held[v].grant # held[w].grant
             /\ \A j \in detached : j.row.secret.grant # held[w].grant
      BY <2>1 DEF TokenInv, OneBearer
    <3> QED
      BY <1>1, <2>1, <3>2, <3>4, <3>5, FirstCopy
  <2>3. CASE Fail(w)
    <3>1. /\ table' = table
          /\ pc' = [pc EXCEPT ![w] = "idle"] /\ answer' = [answer EXCEPT ![w] = StoreError]
          /\ val' = [val EXCEPT ![w] = NoKey]
      BY <2>3 DEF Fail, Finish, Goto
    <3>2. \A t \in Token : Copy(t)' => Copy(t)
      BY <2>1, <3>1 DEF Copy
    <3>3. \A v \in Workers : Bears(v)' => Bears(v) /\ held'[v] = held[v]
      BY <1>1, <3>1 DEF Bears
    <3> QED
      BY <1>1, <3>2, <3>3, FewerTokens
  <2> QED
    BY <1>3, <2>1, <2>2, <2>3 DEF WriteRow, Goto
<1>4. CASE Publish(w) \/ Fill(w)
  <2>1. /\ table' = table
        /\ cache' = [cache EXCEPT ![Provider] = val[w]]
        /\ pc[w] \in {"fill", "publish"} /\ pc' = [pc EXCEPT ![w] = "idle"]
        /\ answer' \in {[answer EXCEPT ![w] = NoKey], [answer EXCEPT ![w] = val[w]]}
        /\ val' = [val EXCEPT ![w] = NoKey]
    BY <1>4 DEF Publish, Fill, Finish, Goto
  <2>2. \A t \in Token : Copy(t)' => Copy(t)
    BY <2>1 DEF Copy
  <2>3. \A v \in Workers : Bears(v)' => Bears(v) /\ held'[v] = held[v]
    BY <1>1, <2>1 DEF Bears
  <2> QED
    BY <1>1, <2>2, <2>3, FewerTokens
<1>5. CASE ReadRow(w)
  <2>1. /\ UNCHANGED <<table, cache>> /\ pc[w] = "read"
        /\ \/ /\ pc' = [pc EXCEPT ![w] = "idle"]
              /\ answer' \in {[answer EXCEPT ![w] = NoKey], [answer EXCEPT ![w] = StoreError]}
              /\ val' = [val EXCEPT ![w] = NoKey]
           \/ /\ table[Provider] # NoRow
              /\ pc' = [pc EXCEPT ![w] = "fill"] /\ answer' = answer
              /\ val' = [val EXCEPT ![w] = table[Provider].secret]
    BY <1>5 DEF ReadRow, Finish, Goto
  <2>2. \A t \in Token : Copy(t)' => Copy(t)
    BY <2>1 DEF Copy
  <2>3. \A v \in Workers : Bears(v)' => Bears(v) /\ held'[v] = held[v]
    BY <1>1, <2>1 DEF Bears
  <2> QED
    BY <1>1, <2>2, <2>3, FewerTokens
<1> QED
  BY <1>2, <1>3, <1>4, <1>5 DEF StoreProceeds, StoreStep

\* A dropped handler leaves its token to its statement, or to nobody.
LEMMA DropKeepsTokens ==
    ASSUME LoginInv, TokenInv, NEW w \in Workers, DropHandler(w)
    PROVE  TokenInv'
<1> USE TokenFacts
<1> DEFINE row == [secret |-> held[w], master |-> master]
<1>1. /\ UNCHANGED <<live, logins, table, cache>>
      /\ at' = [at EXCEPT ![w] = "idle"] /\ held' = [held EXCEPT ![w] = NoKey]
      /\ pc'[w] = "idle" /\ \A v \in Workers \ {w} : pc'[v] = pc[v]
      /\ \A v \in Workers : answer'[v] \in {answer[v], StoreError}
      /\ \A v \in Workers : val'[v] \in {val[v], NoKey}
  BY DEF DropHandler, Returned, storeVars, Drop, Finish, Goto, At
<1>2. \A t \in Token : Copy(t)' => Copy(t)
  BY <1>1 DEF Copy
<1>3. /\ ~Bears(w)'
      /\ \A v \in Workers : Bears(v)' => v # w /\ Bears(v) /\ held'[v] = held[v]
  BY <1>1 DEF Bears
<1>4. CASE pc[w] # "write"
  <2>1. detached' = detached
    BY <1>4 DEF DropHandler, Returned, storeVars, Drop, LoginInv, StandsWithStore
  <2> QED
    BY <1>1, <1>2, <1>3, <2>1, FewerTokens
<1>5. CASE pc[w] = "write"
  <2>1. detached' = detached \cup {[pid |-> Provider, row |-> row]}
    BY <1>5 DEF DropHandler, Returned, Drop
  <2>2. Bears(w) /\ held[w] \in Token
    BY <1>5 DEF Bears
  <2>3. \A t \in Token : Unshared(t)' => Unshared(t)
    BY <1>3, <2>1, <2>2 DEF Unshared
  <2>4. SerialsKnown' /\ UnsharedHonoured' /\ CopiesAreOlder'
    BY <1>1, <1>2, <2>3 DEF TokenInv, SerialsKnown, UnsharedHonoured, Honoured, CopiesAreOlder
  <2>5. OneBearer'
    <3>1. held[w].grant \in Rotating =>
             /\ \A v \in Workers \ {w} : Bears(v) => held[v].grant # held[w].grant
             /\ \A j \in detached : j.row.secret.grant # held[w].grant
      BY <2>2 DEF TokenInv, OneBearer
    <3>2. \A j \in detached' : j \in detached \/ (j = [pid |-> Provider, row |-> row]
                                                  /\ j.row.secret = held[w])
      BY <2>1
    <3> HIDE DEF row
    <3>3. \A v \in Workers : (Bears(v) /\ held[v].grant \in Rotating)' =>
             /\ \A u \in Workers \ {v} : Bears(u)' => held'[u].grant # held'[v].grant
             /\ \A j \in detached' : j.row.secret.grant # held'[v].grant
      BY <1>3, <3>1, <3>2 DEF TokenInv, OneBearer
    <3>4. \A j, k \in detached' :
             j.row.secret.grant = k.row.secret.grant /\ j.row.secret.grant \in Rotating => j = k
      BY <3>1, <3>2 DEF TokenInv, OneBearer
    <3> QED
      BY <3>3, <3>4 DEF OneBearer
  <2> QED
    BY <2>4, <2>5 DEF TokenInv
<1> QED
  BY <1>4, <1>5

LEMMA StatementKeepsTokens ==
    ASSUME LoginInv, TokenInv, NEW j \in detached, RunStatement(j)
    PROVE  TokenInv'
<1> USE TokenFacts
<1>1. /\ UNCHANGED <<live, logins, at, held, pc, cache, val, answer>>
      /\ detached' = detached \ {j}
      /\ table' \in {table, [table EXCEPT ![Provider] = j.row]}
  BY DEF RunStatement, RunDetached
<1>2. j.row.secret \in Token /\ Unshared(j.row.secret)
  BY DEF Unshared
<1>3. \A t \in Token : Copy(t)' => Copy(t) \/ t = j.row.secret
  BY <1>1 DEF Copy
<1>4. \A v \in Workers : Bears(v)' => Bears(v) /\ held'[v] = held[v]
  BY <1>1 DEF Bears
<1>5. j.row.secret.grant \in Rotating =>
         /\ \A v \in Workers : Bears(v) => held[v].grant # j.row.secret.grant
         /\ \A k \in detached' : k.row.secret.grant # j.row.secret.grant
  BY <1>1 DEF TokenInv, OneBearer
<1> QED
  BY <1>1, <1>2, <1>3, <1>4, <1>5, FirstCopy

LEMMA RestartKeepsTokens ==
    ASSUME LoginInv, TokenInv, NEW k \in Masters, RestartServer(k)
    PROVE  TokenInv'
<1> USE TokenFacts
<1>1. /\ UNCHANGED <<live, logins, table>> /\ detached' = {}
      /\ cache'[Provider] = NoKey
      /\ \A w \in Workers : at'[w] = "idle" /\ pc'[w] = "idle" /\ answer'[w] = NoKey
  BY DEF RestartServer, Restart
<1>2. \A t \in Token : Copy(t)' => Copy(t)
  BY <1>1 DEF Copy
<1>3. \A v \in Workers : Bears(v)' => Bears(v) /\ held'[v] = held[v]
  BY <1>1 DEF Bears
<1> QED
  BY <1>1, <1>2, <1>3, FewerTokens

LEMMA TokenInvInit == OAuthInit => TokenInv
<1> SUFFICES ASSUME OAuthInit PROVE TokenInv
  OBVIOUS
<1>1. LoginInv
  BY LoginInvInit
<1>2. /\ \A w \in Workers : pc[w] = "idle" /\ at[w] = "idle" /\ answer[w] = NoKey
      /\ detached = {} /\ table[Provider] = NoRow /\ cache[Provider] = NoKey
      /\ \A g \in Grants : live[g] = 0
  BY OAuthAssumption DEF OAuthInit, Init
<1>3. \A t \in Token : ~Copy(t) /\ ~Unshared(t)
  BY <1>1, <1>2, TokenFacts DEF Copy, Unshared, Bears
<1> QED
  BY <1>2, <1>3 DEF TokenInv, SerialsKnown, UnsharedHonoured, CopiesAreOlder, OneBearer, Bears

LEMMA TokenInvStep == LoginInv /\ TokenInv /\ [OAuthNext]_oauthVars => TokenInv'
<1> SUFFICES ASSUME LoginInv, TokenInv, [OAuthNext]_oauthVars PROVE TokenInv'
  OBVIOUS
<1>1. ASSUME NEW w \in Workers, RefreshStep(w) \/ LoginStep(w) PROVE TokenInv'
  BY <1>1, ManagerKeepsTokens, LoadKeepsTokens, AcceptKeepsTokens, RespondKeepsTokens
     DEF RefreshStep
<1>2. CASE Expire \/ UNCHANGED oauthVars
  <2>1. UNCHANGED <<storeVars, at, held, live, logins>>
    BY <1>2 DEF Expire, oauthVars, managerVars
  <2>2. \A t \in Token : Copy(t)' => Copy(t)
    BY <2>1 DEF Copy, storeVars
  <2>3. \A v \in Workers : Bears(v)' => Bears(v) /\ held'[v] = held[v]
    BY <2>1 DEF Bears, storeVars
  <2> QED
    BY <2>1, <2>2, <2>3, FewerTokens DEF storeVars
<1> QED
  BY <1>1, <1>2, StartLoginKeepsTokens, StoreKeepsTokens, DropKeepsTokens,
     StatementKeepsTokens, RestartKeepsTokens DEF OAuthNext

\* A token that is not rotated is always honoured, and so is one that comes from
\* its bearer.
LEMMA PlainIsHonoured ==
    ASSUME LoginInv, TokenInv, NEW t \in Token, Copy(t), t.grant \notin Rotating
    PROVE  Honoured(t)
<1>1. t.serial <= live[t.grant] /\ live[t.grant] = 0 /\ t.serial \in Nat
  BY TokenParts DEF TokenInv, SerialsKnown
<1> QED
  BY <1>1 DEF Honoured

\* A step that leaves the table and the vendor alone loses no rotation if each
\* holder and each statement is still there, has handed its token to a
\* statement, or has its loss noted.
LEMMA HoldersAccounted ==
    ASSUME LoginInv, TokenInv, RotationNotLost, UNCHANGED <<table, live>>, lost \subseteq lost',
           \A w \in Holders : \/ w \in Holders' /\ held'[w] = held[w]
                              \/ \E j \in detached' : j.row.secret = held[w]
                              \/ held[w].grant \in lost' \/ held[w].grant \notin Rotating,
           \A j \in detached : \/ j \in detached' \/ j.row.secret.grant \in lost'
                               \/ j.row.secret.grant \notin Rotating
    PROVE  RotationNotLost'
<1> DEFINE t == table[Provider].secret
<1> SUFFICES ASSUME table[Provider] # NoRow, t.grant \notin lost'
             PROVE  \/ Honoured(t)
                    \/ \E w \in Holders' : held'[w].grant = t.grant /\ Honoured(held'[w])
                    \/ \E j \in detached' : j.row.secret.grant = t.grant /\ Honoured(j.row.secret)
  BY DEF RotationNotLost, Honoured
<1>1. t \in Token /\ Copy(t)
  BY TokenFacts DEF Copy, Row, NoRow
<1>2. CASE t.grant \notin Rotating
  BY <1>1, <1>2, PlainIsHonoured
<1>3. CASE t.grant \in Rotating
  <2>1. \/ Honoured(t)
        \/ \E w \in Holders : held[w].grant = t.grant /\ Honoured(held[w])
        \/ \E j \in detached : j.row.secret.grant = t.grant /\ Honoured(j.row.secret)
    BY DEF RotationNotLost
  <2> QED
    BY <1>3, <2>1
<1> QED
  BY <1>2, <1>3

\* What comes into the table from its bearer is honoured.
LEMMA NewRowHonoured ==
    ASSUME LoginInv, TokenInv, UNCHANGED live, NEW x \in Token, Unshared(x),
           table'[Provider].secret = x
    PROVE  RotationNotLost'
  BY DEF TokenInv, UnsharedHonoured, Honoured, RotationNotLost

LEMMA RefreshLosesNothing ==
    ASSUME LoginInv, TokenInv, RotationNotLost, NEW w \in Workers, RefreshStep(w)
    PROVE  RotationNotLost'
<1> USE TokenFacts
<1>1. CASE Accept(w)
  <2> DEFINE t == answer[w]
             n == IF t.grant \in Rotating THEN t.serial + 1 ELSE t.serial
             x == [t EXCEPT !.serial = n]
  <2>1. /\ t \in Token /\ t.grant \in Grants
        /\ live' = [live EXCEPT ![t.grant] = n]
        /\ held' = [held EXCEPT ![w] = x]
        /\ at' = [at EXCEPT ![w] = "accepted"]
        /\ at[w] = "load"
        /\ UNCHANGED <<storeVars, lost>>
    BY <1>1, TokenParts DEF Accept, At
  <2>2. x.grant = t.grant /\ x.serial = n
    BY <2>1 DEF Token
  <2> HIDE DEF n, x, t
  <2>3. w \in Holders' /\ held'[w] = x /\ x.serial = live'[x.grant]
    BY <2>1, <2>2 DEF Holders
  <2>4. \A v \in Holders : v \in Holders' /\ held'[v] = held[v]
    BY <2>1 DEF Holders, storeVars
  <2>5. \A u \in Token : u.grant # t.grant => (Honoured(u)' <=> Honoured(u))
    BY <2>1, TokenParts DEF Honoured
  <2>6. \A v \in Holders : held[v] \in Token
    BY DEF LoginInv, OAuthTypeOK, Holders
  <2>7. ASSUME table[Provider] # NoRow, table[Provider].secret.grant \notin lost
        PROVE  \/ Honoured(table[Provider].secret)'
               \/ \E v \in Holders' : held'[v].grant = table[Provider].secret.grant
                                      /\ held'[v].serial = live'[held'[v].grant]
               \/ \E j \in detached : j.row.secret.grant = table[Provider].secret.grant
                                      /\ Honoured(j.row.secret)'
    <3>1. CASE table[Provider].secret.grant = t.grant
      BY <2>2, <2>3, <3>1
    <3>2. CASE table[Provider].secret.grant # t.grant
      <4>1. table[Provider].secret \in Token
        BY <2>7 DEF Row, NoRow
      <4>2. table' = table
        BY <2>1 DEF storeVars
      <4>3. \/ Honoured(table[Provider].secret)
            \/ \E v \in Holders : held[v].grant = table[Provider].secret.grant /\ Honoured(held[v])
            \/ \E j \in detached : j.row.secret.grant = table[Provider].secret.grant
                                   /\ Honoured(j.row.secret)
        BY <2>7 DEF RotationNotLost
      <4>4. CASE Honoured(table[Provider].secret)
        BY <2>5, <3>2, <4>1, <4>2, <4>4
      <4>5. CASE \E v \in Holders : held[v].grant = table[Provider].secret.grant /\ Honoured(held[v])
        <5>1. PICK v \in Holders : held[v].grant = table[Provider].secret.grant /\ Honoured(held[v])
          BY <4>5
        <5>2. held[v].serial = live'[held[v].grant]
          BY <2>1, <2>6, <3>2, <5>1, TokenParts DEF Honoured
        <5> QED
          BY <2>4, <5>1, <5>2
      <4>6. CASE \E j \in detached : j.row.secret.grant = table[Provider].secret.grant
                                     /\ Honoured(j.row.secret)
        <5>1. PICK j \in detached : j.row.secret.grant = table[Provider].secret.grant
                                    /\ Honoured(j.row.secret)
          BY <4>6
        <5>2. j.row.secret.serial = live'[j.row.secret.grant]
          BY <2>1, <3>2, <5>1, TokenParts DEF Honoured
        <5> QED
          BY <5>1, <5>2 DEF Honoured
      <4> QED
        BY <4>3, <4>4, <4>5, <4>6
    <3> QED
      BY <3>1, <3>2
  <2> QED
    BY <2>1, <2>7 DEF RotationNotLost, Honoured, storeVars
<1>2. CASE ~Accept(w)
  <2>1. UNCHANGED <<table, live, detached>> /\ lost \subseteq lost'
    BY <1>2 DEF RefreshStep, StartRefresh, LoadToken, NothingToRefresh, Refuse, Respond,
                LoseAnswer, FinishRefresh, StartGet, StartSet, Lose, storeVars
  <2>2. \A v \in Holders : \/ v \in Holders' /\ held'[v] = held[v]
                           \/ held[v].grant \in lost' \/ held[v].grant \notin Rotating
    <3>1. CASE LoseAnswer(w)
      BY <3>1 DEF LoseAnswer, Lose, At, Holders, storeVars
    <3>2. CASE Respond(w)
      BY <3>2 DEF Respond, StartSet, Goto, At, Holders
    <3>3. CASE LoadToken(w)
      BY <3>3 DEF LoadToken, StartGet, Finish, Goto, At, Holders
    <3>4. CASE FinishRefresh(w)
      BY <3>4 DEF FinishRefresh, Returned, At, Holders, storeVars
    <3>5. CASE StartRefresh(w) \/ NothingToRefresh(w) \/ Refuse(w)
      BY <3>5 DEF StartRefresh, NothingToRefresh, Refuse, At, Holders, storeVars
    <3> QED
      BY <1>2, <3>1, <3>2, <3>3, <3>4, <3>5 DEF RefreshStep
  <2> QED
    BY <2>1, <2>2, HoldersAccounted
<1> QED
  BY <1>1, <1>2

LEMMA LoginLosesNothing ==
    ASSUME LoginInv, TokenInv, RotationNotLost, NEW w \in Workers,
           LoginStep(w) \/ \E g \in Grants, how \in Logins : StartLogin(w, g, how)
    PROVE  RotationNotLost'
<1> USE TokenFacts
<1>1. UNCHANGED <<table, live, detached, lost>>
  BY DEF LoginStep, LoginFails, Invalidate, DeviceDone, CliRefresh, Succeed, StartLogin,
         StartSet, storeVars
<1>2. w \notin Holders
  BY DEF LoginStep, LoginFails, Invalidate, DeviceDone, CliRefresh, Stored, StartLogin,
         Holders, Logins
<1>3. \A v \in Workers \ {w} : at'[v] = at[v] /\ pc'[v] = pc[v] /\ held'[v] = held[v]
  <2>1. CASE LoginStep(w)
    <3>1. UNCHANGED pc /\ held' = [held EXCEPT ![w] = NoKey]
          /\ at' \in {[at EXCEPT ![w] = "idle"], [at EXCEPT ![w] = "refresh"]}
      BY <2>1 DEF LoginStep, LoginFails, Invalidate, DeviceDone, CliRefresh, Succeed, At,
                  storeVars
    <3> QED
      BY <3>1
  <2>2. CASE \E g \in Grants, how \in Logins : StartLogin(w, g, how)
    BY <2>2 DEF StartLogin, StartSet, Goto, At
  <2> QED
    BY <2>1, <2>2
<1>4. \A v \in Holders : v \in Holders' /\ held'[v] = held[v]
  BY <1>2, <1>3 DEF Holders
<1> QED
  BY <1>1, <1>4, HoldersAccounted

LEMMA StoreLosesNothing ==
    ASSUME LoginInv, TokenInv, RotationNotLost, NEW w \in Workers, StoreProceeds(w)
    PROVE  RotationNotLost'
<1> USE TokenFacts
<1>1. UNCHANGED <<live, at, held, detached>> /\ lost \subseteq lost'
  BY DEF StoreProceeds, StoreStep, WriteRow, Publish, EraseRow, Forget, ReadRow, Fill, Lose
<1>2. ~EraseRow(w) /\ ~Forget(w)
  BY DEF LoginInv, StandsWithStore, EraseRow, Forget
<1>3. CASE WriteRow(w) /\ ~Fail(w)
  <2>1. /\ pc[w] = "write" /\ val[w] = held[w]
        /\ table'[Provider] = [secret |-> held[w], master |-> master]
    BY <1>3 DEF WriteRow
  <2>2. held[w] \in Token /\ Unshared(held[w])
    BY <2>1 DEF Bears, Unshared
  <2> QED
    BY <1>1, <2>1, <2>2, NewRowHonoured
<1>4. CASE WriteRow(w) /\ Fail(w)
  <2>1. /\ table' = table /\ pc' = [pc EXCEPT ![w] = "idle"]
        /\ answer'[w] = StoreError
    BY <1>4 DEF Fail, Finish, Goto
  <2>2. at[w] = "keep" => held[w].grant \in lost' \/ held[w].grant \notin Rotating
    BY <2>1 DEF StoreProceeds, Lose
  <2>3. pc[w] = "write" /\ at[w] # "accepted"
    BY <1>4 DEF WriteRow, LoginInv, StandsWithStore
  <2>4. \A v \in Holders : \/ v \in Holders' /\ held'[v] = held[v]
                           \/ held[v].grant \in lost' \/ held[v].grant \notin Rotating
    BY <1>1, <2>1, <2>2, <2>3 DEF Holders
  <2> QED
    BY <1>1, <2>1, <2>4, HoldersAccounted
<1>5. CASE Publish(w) \/ ReadRow(w) \/ Fill(w)
  <2>1. /\ table' = table /\ pc[w] # "write"
        /\ pc'[w] # "write" /\ \A v \in Workers \ {w} : pc'[v] = pc[v]
    BY <1>5 DEF Publish, ReadRow, Fill, Finish, Goto
  <2>2. \A v \in Holders : v \in Holders' /\ held'[v] = held[v]
    BY <1>1, <2>1 DEF Holders
  <2> QED
    BY <1>1, <2>1, <2>2, HoldersAccounted
<1> QED
  BY <1>2, <1>3, <1>4, <1>5 DEF StoreProceeds, StoreStep

LEMMA DropLosesNothing ==
    ASSUME LoginInv, TokenInv, RotationNotLost, NEW w \in Workers, DropHandler(w)
    PROVE  RotationNotLost'
<1> USE TokenFacts
<1>1. /\ UNCHANGED <<table, live>> /\ lost \subseteq lost' /\ detached \subseteq detached'
      /\ \A v \in Workers \ {w} : at'[v] = at[v] /\ pc'[v] = pc[v] /\ held'[v] = held[v]
  BY DEF DropHandler, Returned, Drop, Finish, Goto, At, Lose, storeVars
<1>2. at[w] = "accepted" => held[w].grant \in lost' \/ held[w].grant \notin Rotating
  BY DEF DropHandler, Lose
<1>3. pc[w] = "write" => \E j \in detached' : j.row.secret = held[w]
  <2>1. pc[w] = "write" =>
          [pid |-> Provider, row |-> [secret |-> held[w], master |-> master]] \in detached'
    BY DEF DropHandler, Returned, Drop
  <2> QED
    BY <2>1
<1>4. \A v \in Holders : \/ v \in Holders' /\ held'[v] = held[v]
                         \/ \E j \in detached' : j.row.secret = held[v]
                         \/ held[v].grant \in lost' \/ held[v].grant \notin Rotating
  BY <1>1, <1>2, <1>3 DEF Holders
<1> QED
  BY <1>1, <1>4, HoldersAccounted

LEMMA StatementLosesNothing ==
    ASSUME LoginInv, TokenInv, RotationNotLost, NEW j \in detached, RunStatement(j)
    PROVE  RotationNotLost'
<1> USE TokenFacts
<1>1. /\ UNCHANGED <<live, at, held, pc>> /\ lost \subseteq lost'
      /\ detached' = detached \ {j}
      /\ table' \in {table, [table EXCEPT ![Provider] = j.row]}
  BY DEF RunStatement, RunDetached, Lose
<1>2. CASE table'[Provider] = j.row
  <2>1. j.row.secret \in Token /\ Unshared(j.row.secret)
    BY DEF Unshared
  <2> QED
    BY <1>1, <1>2, <2>1, NewRowHonoured
<1>3. CASE table'[Provider] # j.row
  <2>1. table' = table
    BY <1>1, <1>3
  <2>2. j.row.secret.grant \in lost' \/ j.row.secret.grant \notin Rotating
    BY <1>3 DEF RunStatement, Lose
  <2>3. \A v \in Holders : v \in Holders' /\ held'[v] = held[v]
    BY <1>1 DEF Holders
  <2> QED
    BY <1>1, <2>1, <2>2, <2>3, HoldersAccounted
<1> QED
  BY <1>2, <1>3

LEMMA RestartLosesNothing ==
    ASSUME LoginInv, TokenInv, RotationNotLost, NEW k \in Masters, RestartServer(k)
    PROVE  RotationNotLost'
<1>1. UNCHANGED <<table, live>> /\ lost \subseteq lost'
  BY DEF RestartServer, Restart, Lose
<1>2. /\ \A w \in Holders : held[w].grant \in lost' \/ held[w].grant \notin Rotating
      /\ \A j \in detached : j.row.secret.grant \in lost' \/ j.row.secret.grant \notin Rotating
  BY DEF RestartServer, Lose
<1> QED
  BY <1>1, <1>2, HoldersAccounted

LEMMA RotationStep == RotationInv /\ [OAuthNext]_oauthVars => RotationInv'
<1> SUFFICES ASSUME RotationInv, [OAuthNext]_oauthVars PROVE RotationInv'
  OBVIOUS
<1>1. LoginInv' /\ TokenInv'
  BY LoginInvStep, TokenInvStep DEF RotationInv
<1>2. RotationNotLost'
  <2>1. CASE Expire \/ UNCHANGED oauthVars
    BY <2>1 DEF Expire, oauthVars, managerVars, storeVars, RotationInv, RotationNotLost,
                Honoured, Holders
  <2> QED
    BY <2>1, RefreshLosesNothing, LoginLosesNothing, StoreLosesNothing, DropLosesNothing,
       StatementLosesNothing, RestartLosesNothing DEF OAuthNext, RotationInv
<1> QED
  BY <1>1, <1>2 DEF RotationInv

\* For every number of workers, logins and rotations, the stored refresh token
\* is honoured or its successor is on its way, unless a loss was noted (refresh,
\* oauth/mod.rs).
THEOREM RotationIsKept == OAuthSpec => []RotationNotLost
<1>1. OAuthInit => RotationInv
  BY LoginInvInit, TokenInvInit, OAuthAssumption DEF OAuthInit, Init, RotationNotLost, RotationInv
<1>2. RotationInv => RotationNotLost
  BY DEF RotationInv
<1> QED
  BY <1>1, <1>2, RotationStep, PTL DEF OAuthSpec

\* And the next refresh posts a token that is honoured, if nothing is in flight
\* and no write was disturbed: the cache of the key store then agrees with its
\* table (KeyStore.CoherentUnlessDisturbed, which holds here by StoreUnderneath).
THEOREM NextRefreshWorks == OAuthSpec => []NextRefreshIsHonoured
<1>1. RotationInv /\ CoherentUnlessDisturbed => NextRefreshIsHonoured
  <2> SUFFICES ASSUME RotationInv, CoherentUnlessDisturbed, detached = {},
                      \A w \in Workers : at[w] = "idle", clean[Provider],
                      table[Provider] # NoRow, table[Provider].secret.grant \notin lost
               PROVE  Honoured(IF cache[Provider] = NoKey THEN table[Provider].secret
                               ELSE cache[Provider])
    BY DEF NextRefreshIsHonoured
  <2>1. Honoured(table[Provider].secret)
    BY DEF RotationInv, RotationNotLost, Holders
  <2>2. Agrees(Provider)
    <3>1. \A w \in Workers : pc[w] = "idle"
      BY DEF RotationInv, LoginInv, StandsWithStore
    <3>2. Writers(Provider) = {}
      BY <3>1 DEF Writers, Busy
    <3> QED
      BY <3>2, OAuthAssumption DEF CoherentUnlessDisturbed
  <2> QED
    BY <2>1, <2>2 DEF Agrees
<1>2. OAuthInit => RotationInv
  BY LoginInvInit, TokenInvInit, OAuthAssumption DEF OAuthInit, Init, RotationNotLost, RotationInv
<1>3. OAuthSpec => []RotationInv
  BY <1>2, RotationStep, PTL DEF OAuthSpec
<1> QED
  BY <1>1, <1>3, StoreUnderneath, CoherenceCorrect, PTL
=============================================================================
