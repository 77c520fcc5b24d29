---------------------------- MODULE RequestLog -----------------------------
(***************************************************************************)
(* The request log: log_completion of the pipeline, the writers it spawns, *)
(* the rows of multimodal requests and the hourly task that deletes what   *)
(* is older than the retention.  Each writer is a task of its own that may *)
(* run at any time after it was spawned, or fail; the database refuses an  *)
(* attempt without its request and a deletion that would leave one.        *)
(***************************************************************************)
EXTENDS Integers, FiniteSets

CONSTANTS
    Ids,          \* requests
    MaxAttempts,  \* attempts per request
    MaxDay,       \* bound on the day
    Retentions    \* values of log_retention_days

ASSUME LogAssumption ==
    /\ {MaxAttempts, MaxDay} \subseteq Nat
    /\ Retentions \subseteq Nat

VARIABLES
    day,        \* the date of the database
    retention,  \* log_retention_days of the live snapshot
    pruning,    \* the retention task runs
    requests,   \* request_log: the ids with a row
    created,    \* the day of each row
    attempts,   \* attempt_log: pairs of id and number
    count,      \* the attempts of each request that was answered, NotYet before
    waiting,    \* requests whose handler waits for record_usage
    writers,    \* spawned writers: [table, id, number]
    lost        \* what was never written, or was deleted: [id, why]

logVars == <<day, retention, pruning, requests, created, attempts, count, waiting, writers, lost>>

tables == <<requests, created, attempts>>

Days == 0..MaxDay
Numbers == 1..MaxAttempts
Attempts == Ids \X Numbers
NotYet == -1
Reasons == {"failed", "early", "dropped", "restart", "pruned"}
Writers == [table : {"request"}, id : Ids, number : {0}]
             \cup [table : {"attempt"}, id : Ids, number : Numbers]

RowWriter(id) == [table |-> "request", id |-> id, number |-> 0]
AttemptWriter(id, n) == [table |-> "attempt", id |-> id, number |-> n]
Losses(ids, why) == {[id |-> id, why |-> why] : id \in ids}

LogInit ==
    /\ day = 0
    /\ retention \in Retentions
    /\ pruning = (retention > 0)
    /\ requests = {} /\ created = [id \in Ids |-> 0] /\ attempts = {}
    /\ count = [id \in Ids |-> NotYet]
    /\ waiting = {} /\ writers = {} /\ lost = {}

-----------------------------------------------------------------------------
(* log_completion *)

\* The row's writer is spawned; the attempts wait for the usage of a known
\* user with a known price.
LogRequest(id, n, metered) ==
    /\ count[id] = NotYet
    /\ count' = [count EXCEPT ![id] = n]
    /\ IF metered
       THEN waiting' = waiting \cup {id} /\ writers' = writers \cup {RowWriter(id)}
       ELSE /\ writers' = writers \cup {RowWriter(id)}
                              \cup {AttemptWriter(id, k) : k \in 1..n}
            /\ UNCHANGED waiting
    /\ UNCHANGED <<day, retention, pruning, tables, lost>>

\* record_usage returns, well or not.
LogAttempts(id) ==
    /\ id \in waiting
    /\ waiting' = waiting \ {id}
    /\ writers' = writers \cup {AttemptWriter(id, n) : n \in 1..count[id]}
    /\ UNCHANGED <<day, retention, pruning, tables, count, lost>>

\* The caller is gone and the handler is dropped where it waits.
Dropped(id) ==
    /\ id \in waiting
    /\ waiting' = waiting \ {id}
    /\ lost' = lost \cup Losses({id}, "dropped")
    /\ UNCHANGED <<day, retention, pruning, tables, count, writers>>

-----------------------------------------------------------------------------
(* The writers *)

WriteRequest(w) ==
    /\ w \in writers /\ w.table = "request"
    /\ requests' = requests \cup {w.id}
    /\ created' = [created EXCEPT ![w.id] = day]
    /\ writers' = writers \ {w}
    /\ UNCHANGED <<day, retention, pruning, attempts, count, waiting, lost>>

\* Mutation of WriteAttempt: what the database refuses is not remembered.
BugEarlyForgotten(w) ==
    /\ w \in writers /\ w.table = "attempt"
    /\ writers' = writers \ {w}
    /\ attempts' = IF w.id \in requests THEN attempts \cup {<<w.id, w.number>>} ELSE attempts
    /\ UNCHANGED <<day, retention, pruning, requests, created, count, waiting, lost>>

\* An attempt ahead of its request violates the foreign key, and the error is
\* dropped.
WriteAttempt(w) ==
    /\ w \in writers /\ w.table = "attempt"
    /\ writers' = writers \ {w}
    /\ IF w.id \in requests
       THEN attempts' = attempts \cup {<<w.id, w.number>>} /\ UNCHANGED lost
       ELSE lost' = lost \cup Losses({w.id}, "early") /\ UNCHANGED attempts
    /\ UNCHANGED <<day, retention, pruning, requests, created, count, waiting>>

FailWrite(w) ==
    /\ w \in writers
    /\ writers' = writers \ {w}
    /\ lost' = lost \cup Losses({w.id}, "failed")
    /\ UNCHANGED <<day, retention, pruning, tables, count, waiting>>

-----------------------------------------------------------------------------
(* Retention *)

Expired == {id \in requests : created[id] < day - retention}

Referred == {id \in requests : \E n \in Numbers : <<id, n>> \in attempts}

\* Mutation of Prune: any request with attempts stands in the way.
BugAnyAttemptStops ==
    /\ pruning /\ retention > 0 /\ Expired # {} /\ Referred = {}
    /\ requests' = requests \ Expired
    /\ lost' = lost \cup Losses(Expired, "pruned")
    /\ UNCHANGED <<day, retention, pruning, created, attempts, count, waiting, writers>>

\* One DELETE for all rows that are too old: one of them with an attempt is
\* enough to make it fail.
Prune ==
    /\ pruning /\ retention > 0 /\ Expired # {} /\ Expired \cap Referred = {}
    /\ requests' = requests \ Expired
    /\ lost' = lost \cup Losses(Expired, "pruned")
    /\ UNCHANGED <<day, retention, pruning, created, attempts, count, waiting, writers>>

NextDay ==
    /\ day < MaxDay
    /\ day' = day + 1
    /\ UNCHANGED <<retention, pruning, tables, count, waiting, writers, lost>>

SetRetention ==
    /\ retention' \in Retentions
    /\ UNCHANGED <<day, pruning, tables, count, waiting, writers, lost>>

\* Only a start looks whether the task is wanted.
LogRestart ==
    /\ pruning' = (retention > 0)
    /\ lost' = lost \cup Losses(waiting \cup {w.id : w \in writers}, "restart")
    /\ waiting' = {} /\ writers' = {}
    /\ UNCHANGED <<day, retention, tables, count>>

LogWork == \/ \E id \in Ids : LogAttempts(id) \/ Dropped(id)
           \/ \E w \in writers : WriteRequest(w) \/ WriteAttempt(w) \/ FailWrite(w)

LogNext == LogWork \/ Prune \/ NextDay \/ SetRetention \/ LogRestart

\* The log by itself: requests come with any number of attempts.
AnyRequest == \E id \in Ids, n \in 0..MaxAttempts, metered \in BOOLEAN : LogRequest(id, n, metered)

LogSpec == LogInit /\ [][LogNext \/ AnyRequest]_logVars

-----------------------------------------------------------------------------
LogTypeOK ==
    /\ day \in Days /\ retention \in Retentions /\ pruning \in BOOLEAN
    /\ requests \subseteq Ids /\ created \in [Ids -> Days] /\ attempts \subseteq Attempts
    /\ count \in [Ids -> -1..MaxAttempts] /\ waiting \subseteq Ids
    /\ writers \subseteq Writers
    /\ lost \subseteq [id : Ids, why : Reasons]

Lost(id, whys) == \E l \in lost : l.id = id /\ l.why \in whys

(***************************************************************************)
(* A request that was answered is in the log, or still being written,      *)
(* unless a write failed, the process stopped or it was pruned; so is each *)
(* of its attempts, unless besides one was written ahead of the request or *)
(* the caller left while the handler waited.  An attempt in the log has    *)
(* its request there, and belongs to it: log_completion and its writers.   *)
(***************************************************************************)
LogFollowsAnswers ==
    /\ \A a \in attempts : a[1] \in requests /\ a[2] <= count[a[1]]
    /\ \A id \in Ids : count[id] # NotYet =>
           /\ \/ id \in requests \/ RowWriter(id) \in writers
              \/ Lost(id, {"failed", "restart", "pruned"})
           /\ \/ id \in waiting \/ Lost(id, Reasons)
              \/ \A n \in 1..count[id] :
                     <<id, n>> \in attempts \/ AttemptWriter(id, n) \in writers

(***************************************************************************)
(* While the retention task runs, a row that is too old is deleted in the  *)
(* end, unless an old row has attempts, which stops every deletion, or the *)
(* retention is changed.                                                   *)
(***************************************************************************)
RetentionProgress ==
    \A id \in Ids :
        (pruning /\ retention > 0 /\ id \in Expired)
            ~> (id \notin Expired \/ Expired \cap Referred # {} \/ retention = 0 \/ ~ pruning)
=============================================================================
