------------------------------ MODULE KeyStore ------------------------------
(***************************************************************************)
(* The encrypted credential store (src/src/auth/keystore.rs): a SQLite     *)
(* table of sealed rows with a cache of decrypted keys in front of it.     *)
(* The table is reached through `spawn_blocking` and the cache through its *)
(* own lock, so an operation is two or three steps and the operations of   *)
(* different handlers interleave between them.  A handler whose client     *)
(* goes away is dropped at an await; a statement already handed to the     *)
(* blocking pool is executed all the same.                                 *)
(***************************************************************************)
EXTENDS Integers, FiniteSets

CONSTANTS
    Workers,   \* handlers that may use the store at the same time
    Pids,      \* provider ids
    Secrets,   \* plaintext keys
    Masters,   \* master keys the process may be started with
    NoKey,     \* no row, or no cache entry
    StoreError \* what a failed operation returns

Row == [secret : Secrets, master : Masters]

ASSUME KeyStoreAssumption ==
    /\ NoKey \notin Secrets \cup Row
    /\ StoreError \notin Secrets \cup {NoKey}

NoRow  == NoKey
Answer == Secrets \cup {NoKey, StoreError}

\* Statements the blocking pool still executes for handlers that are gone.
Job == [pid : Pids, row : Row \cup {NoRow}]

VARIABLES
    table,     \* provider_credentials
    cache,     \* KeyStore.cache
    master,    \* the subkey of this process
    pc,        \* where each worker stands in set, get or delete
    pid,       \* the id each worker's operation is about
    val,       \* the plaintext each worker holds
    answer,    \* what each worker's last operation returned
    detached,  \* statements of dropped handlers
    alone,     \* history: no other operation on the id since this one began
    clean,     \* history: no disturbed write since the last undisturbed one
    stored     \* history: every secret a row of the id has held

storeVars == <<table, cache, master, pc, pid, val, answer, detached, alone, clean, stored>>

-----------------------------------------------------------------------------
Init ==
    /\ table  = [p \in Pids |-> NoRow]
    /\ cache  = [p \in Pids |-> NoKey]
    /\ master \in Masters
    /\ pc     = [w \in Workers |-> "idle"]
    /\ pid    \in [Workers -> Pids]
    /\ val    = [w \in Workers |-> NoKey]
    /\ answer = [w \in Workers |-> NoKey]
    /\ detached = {}
    /\ alone  = [w \in Workers |-> FALSE]
    /\ clean  = [p \in Pids |-> TRUE]
    /\ stored = [p \in Pids |-> {}]

Writing == {"write", "publish", "erase", "forget"}
Reading == {"read", "fill"}

Busy(p)    == {w \in Workers : pc[w] # "idle" /\ pid[w] = p}
Writers(p) == {w \in Busy(p) : pc[w] \in Writing}
Orphans(p) == {j \in detached : j.pid = p}

\* History of an operation that begins: it overlaps every operation in flight.
Begin(w, p, writes) ==
    LET quiet == Busy(p) = {} /\ Orphans(p) = {} IN
    /\ pid'   = [pid EXCEPT ![w] = p]
    /\ answer' = [answer EXCEPT ![w] = NoKey]
    /\ alone' = [v \in Workers |-> IF v = w THEN quiet ELSE alone[v] /\ v \notin Busy(p)]
    /\ clean' = [clean EXCEPT ![p] =
                   @ /\ (quiet \/ (~writes /\ Writers(p) = {} /\ Orphans(p) = {}))]

Goto(w, label) == pc' = [pc EXCEPT ![w] = label]

\* The operation returns; its local variables are gone.
Finish(w, a) ==
    /\ Goto(w, "idle")
    /\ answer' = [answer EXCEPT ![w] = a]
    /\ val'    = [val EXCEPT ![w] = NoKey]
    /\ alone'  = [alone EXCEPT ![w] = FALSE]

\* The statement fails: the operation returns the error and does no more.
Fail(w) == Finish(w, StoreError) /\ UNCHANGED <<table, stored>>

-----------------------------------------------------------------------------
(* KeyStore::set *)

StartSet(w, p, s) ==
    /\ pc[w] = "idle"
    /\ Begin(w, p, TRUE)
    /\ Goto(w, "write")
    /\ val' = [val EXCEPT ![w] = s]
    /\ UNCHANGED <<table, cache, master, detached, stored>>

\* INSERT ... ON CONFLICT DO UPDATE
WriteRow(w) ==
    /\ pc[w] = "write"
    /\ \/ /\ table' = [table EXCEPT ![pid[w]] = [secret |-> val[w], master |-> master]]
          /\ stored' = [stored EXCEPT ![pid[w]] = @ \cup {val[w]}]
          /\ Goto(w, "publish")
          /\ UNCHANGED <<val, answer, alone>>
       \/ Fail(w)
    /\ UNCHANGED <<cache, master, pid, detached, clean>>

\* Mutation of Publish: the cache is left as it was.
BugPublishNothing(w) ==
    /\ pc[w] = "publish"
    /\ clean' = [clean EXCEPT ![pid[w]] = @ \/ alone[w]]
    /\ Finish(w, NoKey)
    /\ UNCHANGED <<table, cache, master, pid, detached, stored>>

Publish(w) ==
    /\ pc[w] = "publish"
    /\ cache' = [cache EXCEPT ![pid[w]] = val[w]]
    /\ clean' = [clean EXCEPT ![pid[w]] = @ \/ alone[w]]
    /\ Finish(w, NoKey)
    /\ UNCHANGED <<table, master, pid, detached, stored>>

-----------------------------------------------------------------------------
(* KeyStore::delete *)

StartDelete(w, p) ==
    /\ pc[w] = "idle"
    /\ Begin(w, p, TRUE)
    /\ Goto(w, "erase")
    /\ UNCHANGED <<table, cache, master, val, detached, stored>>

EraseRow(w) ==
    /\ pc[w] = "erase"
    /\ \/ /\ table' = [table EXCEPT ![pid[w]] = NoRow]
          /\ Goto(w, "forget")
          /\ UNCHANGED <<val, answer, alone, stored>>
       \/ Fail(w)
    /\ UNCHANGED <<cache, master, pid, detached, clean>>

\* Mutation of Forget: the cache entry stays.
BugForgetNothing(w) ==
    /\ pc[w] = "forget"
    /\ clean' = [clean EXCEPT ![pid[w]] = @ \/ alone[w]]
    /\ Finish(w, NoKey)
    /\ UNCHANGED <<table, cache, master, pid, detached, stored>>

Forget(w) ==
    /\ pc[w] = "forget"
    /\ cache' = [cache EXCEPT ![pid[w]] = NoKey]
    /\ clean' = [clean EXCEPT ![pid[w]] = @ \/ alone[w]]
    /\ Finish(w, NoKey)
    /\ UNCHANGED <<table, master, pid, detached, stored>>

-----------------------------------------------------------------------------
(* KeyStore::get *)

\* The cache lock is released before the table is asked.
StartGet(w, p) ==
    /\ pc[w] = "idle"
    /\ \/ /\ cache[p] # NoKey
          /\ Finish(w, cache[p])
          /\ pid' = [pid EXCEPT ![w] = p]
          /\ UNCHANGED clean
       \/ /\ cache[p] = NoKey
          /\ Begin(w, p, FALSE)
          /\ Goto(w, "read")
          /\ UNCHANGED val
    /\ UNCHANGED <<table, cache, master, detached, stored>>

\* Mutation of ReadRow: the row is handed on as it is sealed.
BugNotDecrypted(w) ==
    LET row == table[pid[w]] IN
    /\ pc[w] = "read"
    /\ row # NoRow
    /\ Goto(w, "fill")
    /\ val' = [val EXCEPT ![w] = row]
    /\ UNCHANGED <<answer, alone, table, cache, master, pid, detached, clean, stored>>

\* Mutation of ReadRow: the SELECT has lost its WHERE.
BugAnyRow(w) ==
    /\ pc[w] = "read"
    /\ \E p \in Pids :
          /\ table[p] # NoRow
          /\ table[p].master = master
          /\ val' = [val EXCEPT ![w] = table[p].secret]
    /\ Goto(w, "fill")
    /\ UNCHANGED <<answer, alone, table, cache, master, pid, detached, clean, stored>>

\* SELECT and decrypt: a row sealed under another master key is an error.
ReadRow(w) ==
    LET row == table[pid[w]] IN
    /\ pc[w] = "read"
    /\ \/ row = NoRow /\ Finish(w, NoKey)
       \/ Finish(w, StoreError)
       \/ /\ row # NoRow
          /\ row.master = master
          /\ Goto(w, "fill")
          /\ val' = [val EXCEPT ![w] = row.secret]
          /\ UNCHANGED <<answer, alone>>
    /\ UNCHANGED <<table, cache, master, pid, detached, clean, stored>>

Fill(w) ==
    /\ pc[w] = "fill"
    /\ cache' = [cache EXCEPT ![pid[w]] = val[w]]
    /\ Finish(w, val[w])
    /\ UNCHANGED <<table, master, pid, detached, clean, stored>>

-----------------------------------------------------------------------------
(* Dropped handlers and restarts *)

\* The handler's client goes away.  A statement that was handed over is left
\* to the blocking pool; what was to follow it is never done.
Drop(w) ==
    /\ pc[w] # "idle"
    /\ Finish(w, StoreError)
    /\ detached' = CASE pc[w] = "write" ->
                          detached \cup {[pid |-> pid[w],
                                          row |-> [secret |-> val[w], master |-> master]]}
                     [] pc[w] = "erase" -> detached \cup {[pid |-> pid[w], row |-> NoRow]}
                     [] OTHER -> detached
    /\ clean' = [clean EXCEPT ![pid[w]] = @ /\ pc[w] \notin Writing]
    /\ UNCHANGED <<table, cache, master, pid, stored>>

\* The blocking pool executes it, or SQLite refuses it.
RunDetached(j) ==
    /\ j \in detached
    /\ detached' = detached \ {j}
    /\ \/ /\ table' = [table EXCEPT ![j.pid] = j.row]
          /\ stored' = [stored EXCEPT ![j.pid] =
                          IF j.row = NoRow THEN @ ELSE @ \cup {j.row.secret}]
       \/ UNCHANGED <<table, stored>>
    /\ UNCHANGED <<cache, master, pc, pid, val, answer, alone, clean>>

\* A crash or a restart, with the same master key or another one.
Restart(k) ==
    /\ master' = k
    /\ cache' = [p \in Pids |-> NoKey]
    /\ pc' = [w \in Workers |-> "idle"]
    /\ answer' = [w \in Workers |-> NoKey]
    /\ detached' = {}
    /\ val' = [w \in Workers |-> NoKey]
    /\ alone' = [w \in Workers |-> FALSE]
    /\ clean' = [p \in Pids |-> TRUE]
    /\ UNCHANGED <<table, pid, stored>>

StoreStep(w) ==
    \/ WriteRow(w) \/ Publish(w)
    \/ EraseRow(w) \/ Forget(w)
    \/ ReadRow(w) \/ Fill(w)

Next ==
    \/ \E w \in Workers, p \in Pids :
          StartGet(w, p) \/ StartDelete(w, p) \/ \E s \in Secrets : StartSet(w, p, s)
    \/ \E w \in Workers : StoreStep(w) \/ Drop(w)
    \/ \E j \in detached : RunDetached(j)
    \/ \E k \in Masters : Restart(k)

Spec == Init /\ [][Next]_storeVars

-----------------------------------------------------------------------------
\* Every variable has its type (KeyStore and its table, keystore.rs), and an
\* operation that is about to write a key holds one.
TypeOK ==
    /\ table \in [Pids -> Row \cup {NoRow}]
    /\ cache \in [Pids -> Secrets \cup {NoKey}]
    /\ master \in Masters
    /\ pc \in [Workers -> {"idle"} \cup Writing \cup Reading]
    /\ pid \in [Workers -> Pids]
    /\ val \in [Workers -> Secrets \cup {NoKey}]
    /\ \A w \in Workers : pc[w] \in {"write", "publish", "fill"} => val[w] \in Secrets
    /\ answer \in [Workers -> Answer]
    /\ detached \subseteq Job
    /\ alone \in [Workers -> BOOLEAN]
    /\ clean \in [Pids -> BOOLEAN]
    /\ stored \in [Pids -> SUBSET Secrets]

\* What the cache may hold for p when it agrees with the table.
Agrees(p) ==
    \/ cache[p] = NoKey
    \/ table[p] = [secret |-> cache[p], master |-> master]

\* The cache is only ever wrong about an id if a write of the id overlapped
\* another operation on it or lost its handler, and one undisturbed write, or a
\* restart, puts it right (set, get and delete, keystore.rs, each of which
\* touches the table and the cache in separate steps).
CoherentUnlessDisturbed ==
    \A p \in Pids : clean[p] /\ Writers(p) = {} => Agrees(p)

\* Whatever overlaps, fails or is dropped, no operation returns a key that was
\* never stored for the id it asks about: not another id's, and not one whose
\* write failed (get, keystore.rs, the cache of which two operations fill).
AnswersWereStored ==
    \A w \in Workers : answer[w] \in Secrets => answer[w] \in stored[pid[w]]
=============================================================================
