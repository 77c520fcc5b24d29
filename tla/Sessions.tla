------------------------------ MODULE Sessions ------------------------------
(***************************************************************************)
(* Users, API keys and web sessions: the tables of src/src/auth/users.rs,  *)
(* the middleware that names the caller of a request                       *)
(* (src/src/server/auth.rs), the account endpoints                         *)
(* (src/src/server/auth_endpoints.rs), the first-run page                  *)
(* (src/src/server/ui_login.rs) and the bootstrap of main.  Every          *)
(* statement takes the database lock for itself, so a handler is a         *)
(* sequence of steps with other handlers in between, and it may stop       *)
(* between two of them.                                                    *)
(***************************************************************************)
EXTENDS Naturals, FiniteSets

CONSTANTS
    Slots,         \* requests in flight
    Ids,           \* user ids; a uuid is never used twice
    Emails,        \* email addresses, as create_user normalises them
    BootEmail,     \* the address of the bootstrap administrator
    Passwords,     \* what users choose
    KeyIds,        \* API keys ever made
    Tokens,        \* session cookies ever made
    AuthEnabled,   \* [auth] enabled
    Masters,       \* configured master credentials: "legacy", "env-admin"
    MaxRotations,  \* bound: password changes of one user
    NoRow,         \* no such row
    DecodeError,   \* a row that cannot be read
    NoToken        \* no cookie, no session id

UserRow    == [email : Emails, role : {"Admin", "User"}, password : Passwords \cup {NoRow}]
SessionRow == [user : Ids, read : 0..MaxRotations]

ASSUME SessionsAssumption ==
    /\ BootEmail \in Emails
    /\ AuthEnabled \in BOOLEAN
    /\ Masters \subseteq {"legacy", "env-admin"}
    /\ MaxRotations \in Nat
    /\ Ids \cap {"legacy", "env-admin", "anonymous", "none"} = {}
    /\ KeyIds \cap {"legacy", "env-admin", "anonymous", "none"} = {}
    /\ NoRow \notin Ids /\ NoRow \notin KeyIds
    /\ NoRow \notin {"legacy", "env-admin", "anonymous"}
    /\ NoRow \notin UserRow \cup SessionRow
    /\ DecodeError \notin SessionRow
    /\ NoToken \notin Tokens

VARIABLES
    users,      \* the table users, by id
    keys,       \* the table api_keys: the owner of each key
    sessions,   \* the table sessions
    pc,         \* what the handler of a slot does next
    caller,     \* its UserContext
    subject,    \* the row it works on
    read,       \* rotations of the user when a login read it
    cookie,     \* history: the live session that was all a reading request presented
    issued,     \* history: ids, keys and tokens already used
    rotations,  \* history: password changes of each user
    late,       \* history: sessions made after a rotation, by a login that had read the row before
    unpurged    \* history: users whose last rotation never got to delete the sessions

tables       == <<users, keys, sessions>>
handlers     == <<pc, caller, subject, read, cookie>>
history      == <<issued, rotations, late, unpurged>>
sessionsVars == <<tables, handlers, history>>

-----------------------------------------------------------------------------
(* The tables *)

Exists(u) == u \in Ids /\ users[u] # NoRow
NoUsers   == \A i \in Ids : users[i] = NoRow

\* UserStore::create_user: email is UNIQUE.
CanInsertUser(i, e) ==
    /\ i \notin issued
    /\ \A j \in Ids : users[j] # NoRow => users[j].email # e

InsertUser(i, e, role, p) ==
    /\ CanInsertUser(i, e)
    /\ users' = [users EXCEPT ![i] = [email |-> e, role |-> role, password |-> p]]
    /\ issued' = issued \cup {i}

\* Mutation of InsertKey: the reference to users is missing.
BugOwnerUnknown(k, u) ==
    /\ k \notin issued
    /\ keys' = [keys EXCEPT ![k] = u]
    /\ issued' = issued \cup {k}

\* create_api_key: user_id REFERENCES users, whoever the caller is.
InsertKey(k, u) ==
    /\ k \notin issued
    /\ Exists(u)
    /\ keys' = [keys EXCEPT ![k] = u]
    /\ issued' = issued \cup {k}

\* Mutation of InsertSession: the reference to users is missing.
BugUserUnknown(t, u, n) ==
    /\ t \notin issued
    /\ sessions' = [sessions EXCEPT ![t] = [user |-> u, read |-> n]]
    /\ issued' = issued \cup {t}
    /\ late' = IF n < rotations[u] THEN late \cup {t} ELSE late

\* create_session: the same reference.
InsertSession(t, u, n) ==
    /\ t \notin issued
    /\ Exists(u)
    /\ sessions' = [sessions EXCEPT ![t] = [user |-> u, read |-> n]]
    /\ issued' = issued \cup {t}
    /\ late' = IF n < rotations[u] THEN late \cup {t} ELSE late

SessionsOf(u) == {t \in Tokens : sessions[t] # NoRow /\ sessions[t].user = u}

\* delete_user_sessions.
PurgeSessions(u) ==
    sessions' = [t \in Tokens |-> IF t \in SessionsOf(u) THEN NoRow ELSE sessions[t]]

\* The first n of the four statements of delete_user: api_keys, sessions,
\* token_usage, users.  Nothing wraps them in a transaction.
EraseRows(u, n) ==
    /\ keys' = [k \in KeyIds |-> IF n >= 1 /\ keys[k] = u THEN NoRow ELSE keys[k]]
    /\ IF n >= 2 THEN PurgeSessions(u) ELSE UNCHANGED sessions
    /\ users' = [i \in Ids |-> IF n = 4 /\ i = u THEN NoRow ELSE users[i]]

\* The columns get_session selects, those of the session and then those of
\* the user, and the columns row_to_user_from_session takes for the user.
SelectedColumns == 0..15
UserColumns     == 9..16

\* get_session: a column past the end of the row is an error.
GetSession(t) ==
    IF sessions[t] = NoRow THEN NoRow
    ELSE IF UserColumns \subseteq SelectedColumns THEN sessions[t] ELSE DecodeError

-----------------------------------------------------------------------------
(* The middleware *)

Operations == {"login", "logout", "rotate", "createUser", "deleteUser",
               "createKey", "deleteKey", "adminKey", "setup", "read"}

\* is_public_path, among the paths that write.
PublicPath(op) == op = "setup"

\* Paths under /v1/, /ui/ and /admin/; those under /auth/ are none of them.
GuardedPath(op) == op \in {"rotate", "createUser", "deleteUser", "adminKey", "read"}

Context(u, role, via, t) == [user |-> u, role |-> role, via |-> via, session |-> t]

Anonymous == Context("anonymous", "User", "anonymous", NoToken)
Refused   == Context("anonymous", "User", "refused", NoToken)

\* get_user_by_api_key joins api_keys with users.
KeyOpens(b)    == b \in KeyIds /\ keys[b] # NoRow /\ Exists(keys[b])
MasterOpens(b) == b \in Masters /\ (b = "legacy" => AuthEnabled)
CookieOpens(t) == t \in Tokens /\ GetSession(t) \notin {NoRow, DecodeError}

\* The caller of a request with bearer b and cookie t.
Resolve(b, t, op) ==
    IF KeyOpens(b) THEN Context(keys[b], users[keys[b]].role, "api_key", NoToken)
    ELSE IF MasterOpens(b) THEN Context(b, "Admin", "master", NoToken)
    ELSE IF CookieOpens(t) THEN
        LET u == GetSession(t).user IN Context(u, users[u].role, "session", t)
    ELSE IF AuthEnabled /\ GuardedPath(op) /\ ~PublicPath(op) THEN Refused
    ELSE Anonymous

\* Where the handler of each operation starts.
Entry(op, c) ==
    IF \/ c.via = "refused"
       \/ op \in {"createUser", "deleteUser", "adminKey"} /\ c.role # "Admin"
    THEN "refused" ELSE op

\* The part of the context a handler uses: login and setup look at none of it.
Attached(op, c) == IF op \in {"login", "setup"} THEN Anonymous ELSE c

Goto(s, label) == pc' = [pc EXCEPT ![s] = label]

\* The answer is on its way, or nobody waits for it any more.
Done(s) ==
    /\ pc' = [pc EXCEPT ![s] = "idle"]
    /\ caller' = [caller EXCEPT ![s] = Anonymous]
    /\ subject' = [subject EXCEPT ![s] = NoRow]
    /\ read' = [read EXCEPT ![s] = 0]
    /\ cookie' = [cookie EXCEPT ![s] = NoToken]

Arrive(s) ==
    /\ pc[s] = "idle"
    /\ \E b \in (issued \cap KeyIds) \cup Masters \cup {"none"},
          t \in (issued \cap Tokens) \cup {NoToken}, op \in Operations :
         LET c == Resolve(b, t, op) IN
         /\ caller' = [caller EXCEPT ![s] = Attached(op, c)]
         /\ Goto(s, Entry(op, c))
         /\ cookie' = [cookie EXCEPT ![s] =
                IF op = "read" /\ b = "none" /\ t # NoToken /\ sessions[t] # NoRow
                THEN t ELSE NoToken]
    /\ UNCHANGED <<tables, subject, read, history>>

\* Refusals and the handlers that only read: /auth/me, /auth/usage, the lists.
Answer(s) ==
    /\ pc[s] \in {"refused", "read"}
    /\ Done(s)
    /\ UNCHANGED <<tables, history>>

-----------------------------------------------------------------------------
(* Login and logout *)

\* login: either credential finds the user; a password is verified on the
\* hash just read.
FindUser(s) ==
    /\ pc[s] = "login"
    /\ \E u \in Ids :
         /\ Exists(u)
         /\ \/ \E k \in KeyIds : keys[k] = u
            \/ users[u].password # NoRow
         /\ subject' = [subject EXCEPT ![s] = u]
         /\ read' = [read EXCEPT ![s] = rotations[u]]
    /\ Goto(s, "session")
    /\ UNCHANGED <<tables, caller, cookie, history>>

\* finish_login, and the automatic login of setup_submit: a session for the
\* user that was read.
OpenSession(s) ==
    /\ pc[s] = "session"
    /\ \E t \in Tokens : InsertSession(t, subject[s], read[s])
    /\ Done(s)
    /\ UNCHANGED <<users, keys, rotations, unpurged>>

\* logout deletes the session the middleware recognised.
Logout(s) ==
    /\ pc[s] = "logout"
    /\ sessions' = [t \in Tokens |-> IF t = caller[s].session THEN NoRow ELSE sessions[t]]
    /\ Done(s)
    /\ UNCHANGED <<users, keys, history>>

-----------------------------------------------------------------------------
(* rotate_password *)

\* get_user, then verify_password on the hash just read.
CheckPassword(s) ==
    /\ pc[s] = "rotate"
    /\ Exists(caller[s].user)
    /\ users[caller[s].user].password # NoRow
    /\ Goto(s, "update")
    /\ UNCHANGED <<tables, caller, subject, read, cookie, history>>

UpdatePassword(s) ==
    LET u == caller[s].user IN
    /\ pc[s] = "update"
    /\ Exists(u)
    /\ rotations[u] < MaxRotations
    /\ \E p \in Passwords : users' = [users EXCEPT ![u].password = p]
    /\ rotations' = [rotations EXCEPT ![u] = @ + 1]
    /\ Goto(s, "purge")
    /\ UNCHANGED <<keys, sessions, caller, subject, read, cookie, issued, late, unpurged>>

\* Mutation of Purge: the sessions are left to expire.
BugSessionsStay(s) ==
    /\ pc[s] = "purge"
    /\ unpurged' = unpurged \ {caller[s].user}
    /\ Done(s)
    /\ UNCHANGED <<users, keys, sessions, issued, rotations, late>>

Purge(s) ==
    LET u == caller[s].user IN
    /\ pc[s] = "purge"
    /\ PurgeSessions(u)
    /\ late' = late \ SessionsOf(u)
    /\ unpurged' = unpurged \ {u}
    /\ Done(s)
    /\ UNCHANGED <<users, keys, issued, rotations>>

-----------------------------------------------------------------------------
(* Users and keys *)

\* create_user; an account made without a password can use API keys only.
CreateUser(s) ==
    /\ pc[s] = "createUser"
    /\ \E i \in Ids, e \in Emails, role \in {"Admin", "User"}, p \in Passwords \cup {NoRow} :
         InsertUser(i, e, role, p)
    /\ Done(s)
    /\ UNCHANGED <<keys, sessions, rotations, late, unpurged>>

\* delete_user, of any id; a statement that fails leaves what the ones before
\* it did, and so does a crash.
DeleteUser(s) ==
    /\ pc[s] = "deleteUser"
    /\ \E u \in Ids, n \in 0..4 :
         /\ EraseRows(u, n)
         /\ late' = IF n >= 2 THEN late \ SessionsOf(u) ELSE late
         /\ unpurged' = IF n >= 2 THEN unpurged \ {u} ELSE unpurged
    /\ Done(s)
    /\ UNCHANGED <<issued, rotations>>

\* create_own_key, for the caller.
CreateOwnKey(s) ==
    /\ pc[s] = "createKey"
    /\ \E k \in KeyIds : InsertKey(k, caller[s].user)
    /\ Done(s)
    /\ UNCHANGED <<users, sessions, rotations, late, unpurged>>

\* admin_create_key, for any user id.
CreateKeyFor(s) ==
    /\ pc[s] = "adminKey"
    /\ \E k \in KeyIds, u \in Ids : InsertKey(k, u)
    /\ Done(s)
    /\ UNCHANGED <<users, sessions, rotations, late, unpurged>>

\* Mutation of FindOwnKey: any key will do.
BugAnyKey(s) ==
    /\ pc[s] = "deleteKey"
    /\ \E k \in KeyIds : keys[k] # NoRow /\ subject' = [subject EXCEPT ![s] = k]
    /\ Goto(s, "dropKey")
    /\ UNCHANGED <<tables, caller, read, cookie, history>>

\* delete_own_key looks the key up among the caller's own.
FindOwnKey(s) ==
    /\ pc[s] = "deleteKey"
    /\ \E k \in KeyIds :
         /\ keys[k] = caller[s].user
         /\ subject' = [subject EXCEPT ![s] = k]
    /\ Goto(s, "dropKey")
    /\ UNCHANGED <<tables, caller, read, cookie, history>>

DropKey(s) ==
    /\ pc[s] = "dropKey"
    /\ keys' = [keys EXCEPT ![subject[s]] = NoRow]
    /\ Done(s)
    /\ UNCHANGED <<users, sessions, history>>

-----------------------------------------------------------------------------
(* First run *)

\* setup_submit goes on when it finds the table empty, and also when the list
\* of the users cannot be read, whoever there is; it gives up otherwise.
CheckEmpty(s) ==
    /\ pc[s] = "setup"
    /\ Goto(s, "firstAdmin")
    /\ UNCHANGED <<tables, caller, subject, read, cookie, history>>

\* The administrator, then a session for it.
CreateFirstAdmin(s) ==
    /\ pc[s] = "firstAdmin"
    /\ \E i \in Ids, e \in Emails, p \in Passwords :
         /\ InsertUser(i, e, "Admin", p)
         /\ subject' = [subject EXCEPT ![s] = i]
         /\ read' = [read EXCEPT ![s] = rotations[i]]
    /\ Goto(s, "session")
    /\ UNCHANGED <<keys, sessions, caller, cookie, rotations, late, unpurged>>

-----------------------------------------------------------------------------
(* Failures *)

\* The password of u has changed and its sessions have not been deleted.
PurgePending(u) == \E s \in Slots : pc[s] = "purge" /\ caller[s].user = u

\* The client disconnects, the next statement fails, or the row, the key or the
\* password is not as the handler wants it: it ends here.
GiveUp(s) ==
    /\ pc[s] # "idle"
    /\ unpurged' = unpurged \cup {u \in Ids : pc[s] = "purge" /\ caller[s].user = u}
    /\ Done(s)
    /\ UNCHANGED <<tables, issued, rotations, late>>

\* main: with auth on, an empty table gets an administrator before the server
\* listens.
Bootstrap ==
    IF AuthEnabled /\ NoUsers /\ Ids \ issued # {}
    THEN \E i \in Ids, p \in Passwords : InsertUser(i, BootEmail, "Admin", p)
    ELSE UNCHANGED <<users, issued>>

NoHandlers ==
    /\ pc' = [s \in Slots |-> "idle"]
    /\ caller' = [s \in Slots |-> Anonymous]
    /\ subject' = [s \in Slots |-> NoRow]
    /\ read' = [s \in Slots |-> 0]
    /\ cookie' = [s \in Slots |-> NoToken]

Restart ==
    /\ NoHandlers
    /\ Bootstrap
    /\ unpurged' = unpurged \cup {u \in Ids : PurgePending(u)}
    /\ UNCHANGED <<keys, sessions, rotations, late>>

-----------------------------------------------------------------------------
\* The server listens for the first time, on a new database.
Init ==
    /\ \E i \in Ids, p \in Passwords :
         LET first == IF AuthEnabled THEN {i} ELSE {} IN
         /\ users = [j \in Ids |-> IF j \in first
                THEN [email |-> BootEmail, role |-> "Admin", password |-> p] ELSE NoRow]
         /\ issued = first
    /\ keys = [k \in KeyIds |-> NoRow]
    /\ sessions = [t \in Tokens |-> NoRow]
    /\ pc = [s \in Slots |-> "idle"]
    /\ caller = [s \in Slots |-> Anonymous]
    /\ subject = [s \in Slots |-> NoRow]
    /\ read = [s \in Slots |-> 0]
    /\ cookie = [s \in Slots |-> NoToken]
    /\ rotations = [i \in Ids |-> 0]
    /\ late = {}
    /\ unpurged = {}

Handler(s) ==
    \/ Arrive(s) \/ Answer(s)
    \/ FindUser(s) \/ OpenSession(s) \/ Logout(s)
    \/ CheckPassword(s) \/ UpdatePassword(s) \/ Purge(s)
    \/ CreateUser(s) \/ DeleteUser(s)
    \/ CreateOwnKey(s) \/ CreateKeyFor(s) \/ FindOwnKey(s) \/ DropKey(s)
    \/ CheckEmpty(s) \/ CreateFirstAdmin(s)
    \/ GiveUp(s)

Next == (\E s \in Slots : Handler(s)) \/ Restart

Spec == Init /\ [][Next]_sessionsVars
-----------------------------------------------------------------------------
Labels == Operations \cup {"refused", "session", "update", "purge", "dropKey", "firstAdmin", "idle"}

Contexts == [user : Ids \cup {"legacy", "env-admin", "anonymous"}, role : {"Admin", "User"},
             via : {"api_key", "master", "session", "refused", "anonymous"},
             session : Tokens \cup {NoToken}]

TablesOK ==
    /\ users \in [Ids -> UserRow \cup {NoRow}]
    /\ keys \in [KeyIds -> Ids \cup {NoRow}]
    /\ sessions \in [Tokens -> SessionRow \cup {NoRow}]

HandlersOK ==
    /\ pc \in [Slots -> Labels]
    /\ caller \in [Slots -> Contexts]
    /\ subject \in [Slots -> Ids \cup KeyIds \cup {NoRow}]
    /\ read \in [Slots -> 0..MaxRotations]
    /\ cookie \in [Slots -> Tokens \cup {NoToken}]
    /\ \A s \in Slots : /\ pc[s] = "session" => subject[s] \in Ids
                        /\ pc[s] = "dropKey" => subject[s] \in KeyIds
                        /\ pc[s] \in {"update", "purge"} => caller[s].user \in Ids

HistoryOK ==
    /\ issued \subseteq Ids \cup KeyIds \cup Tokens
    /\ rotations \in [Ids -> 0..MaxRotations]
    /\ late \subseteq Tokens
    /\ unpurged \subseteq Ids

\* Rows and contexts are well formed, owners of keys are user ids, and every
\* handler works on a row of the kind its step is about.
TypeOK == TablesOK /\ HandlersOK /\ HistoryOK

\* No API key and no session outlives its user, whatever logins and key
\* requests were under way when delete_user ran and wherever delete_user
\* stopped: the order of its statements and the references of the tables hold
\* the rows together.
NoOrphans ==
    /\ \A k \in KeyIds : keys[k] # NoRow => Exists(keys[k])
    /\ \A t \in Tokens : sessions[t] # NoRow => Exists(sessions[t].user)

\* After a password change no session of the old password is left, unless its
\* deletion is still to come, never came (the handler of rotate_password ended
\* between its two statements), or the session was made later by a login that
\* had checked the old password.  It makes no exception for the session whose
\* request changed the password: rotate_password deletes that one too, although
\* its comment (auth_endpoints.rs:260-262) says it stays valid.
SessionsFollowPassword ==
    \A t \in Tokens :
        sessions[t] # NoRow /\ sessions[t].read < rotations[sessions[t].user]
            => t \in late \/ PurgePending(sessions[t].user) \/ sessions[t].user \in unpurged

\* A key goes away only by its owner's delete_own_key or with its owner's
\* account, although the handler deletes by id what it found by owner some
\* steps earlier.
KeyRemoval ==
    [][\A k \in KeyIds :
         keys[k] # NoRow /\ keys'[k] # keys[k] =>
             \E s \in Slots :
                 \/ pc[s] = "dropKey" /\ caller[s].user = keys[k]
                 \/ pc[s] = "deleteUser" /\ caller[s].role = "Admin"]_sessionsVars

\* "`td_session` cookie -> session": a request whose only credential is a
\* session cookie of a live session is served as its user.
CookieAuthenticates == \A s \in Slots : cookie[s] # NoToken => caller[s].via = "session"

=============================================================================
