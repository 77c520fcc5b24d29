--------------------------- MODULE SessionsProofs ---------------------------
(***************************************************************************)
(* Proofs about Sessions, for any number of requests, users, keys and      *)
(* sessions, with authentication on or off.  A key is made once, so what a *)
(* handler found by its owner is still that owner's when it deletes it by  *)
(* id; the references of the tables, not the handlers, keep rows from      *)
(* outliving a user.                                                       *)
(***************************************************************************)
EXTENDS Sessions, TLAPS

\* Administrative handlers are entered by administrators only.
AdminsOnly ==
    \A s \in Slots :
        pc[s] \in {"createUser", "deleteUser", "adminKey"} => caller[s].role = "Admin"

\* A key that exists has been issued, and the one delete_own_key is about to
\* delete is the caller's, or gone.
KeysAccounted ==
    /\ \A k \in KeyIds : keys[k] # NoRow => k \in issued
    /\ \A s \in Slots : pc[s] = "dropKey" =>
         subject[s] \in issued /\ keys[subject[s]] \in {caller[s].user, NoRow}

KeyInv == TypeOK /\ AdminsOnly /\ KeysAccounted

-----------------------------------------------------------------------------
(* Types *)

LEMMA InitTypeOK == Init => TypeOK
<1> USE SessionsAssumption
<1> SUFFICES ASSUME Init PROVE TypeOK
  OBVIOUS
<1>1. TablesOK
  BY DEF Init, TablesOK, UserRow
<1>2. HandlersOK
  BY DEF Init, HandlersOK, Labels, Operations, Contexts, Anonymous, Context
<1>3. HistoryOK
  BY DEF Init, HistoryOK
<1> QED
  BY <1>1, <1>2, <1>3 DEF TypeOK

\* A handler that ends leaves the others as they were.
LEMMA DoneKeepsHandlers ==
    ASSUME HandlersOK, NEW s \in Slots, Done(s)
    PROVE  HandlersOK'
<1> USE SessionsAssumption DEF HandlersOK, Done
<1>1. pc' \in [Slots -> Labels]
  BY DEF Labels
<1>2. caller' \in [Slots -> Contexts]
  BY DEF Contexts, Anonymous, Context
<1>3. subject' \in [Slots -> Ids \cup KeyIds \cup {NoRow}]
  OBVIOUS
<1>4. read' \in [Slots -> 0..MaxRotations]
  OBVIOUS
<1>5. cookie' \in [Slots -> Tokens \cup {NoToken}]
  OBVIOUS
<1>6. ASSUME NEW r \in Slots
      PROVE  /\ pc'[r] = "session" => subject'[r] \in Ids
             /\ pc'[r] = "dropKey" => subject'[r] \in KeyIds
             /\ pc'[r] \in {"update", "purge"} => caller'[r].user \in Ids
  OBVIOUS
<1> QED
  BY <1>1, <1>2, <1>3, <1>4, <1>5, <1>6

\* So does one that goes on with the row and the caller it has.
LEMMA GotoKeepsHandlers ==
    ASSUME HandlersOK, NEW s \in Slots, NEW label \in Labels, Goto(s, label),
           UNCHANGED <<caller, cookie>>,
           NEW x \in Ids \cup KeyIds \cup {NoRow}, subject' = [subject EXCEPT ![s] = x],
           NEW n \in 0..MaxRotations, read' = [read EXCEPT ![s] = n],
           label = "session" => x \in Ids,
           label = "dropKey" => x \in KeyIds,
           label \in {"update", "purge"} => caller[s].user \in Ids
    PROVE  HandlersOK'
<1> USE DEF HandlersOK, Goto
<1>1. /\ pc' \in [Slots -> Labels]
      /\ caller' \in [Slots -> Contexts]
      /\ subject' \in [Slots -> Ids \cup KeyIds \cup {NoRow}]
      /\ read' \in [Slots -> 0..MaxRotations]
      /\ cookie' \in [Slots -> Tokens \cup {NoToken}]
  OBVIOUS
<1>2. ASSUME NEW r \in Slots
      PROVE  /\ pc'[r] = "session" => subject'[r] \in Ids
             /\ pc'[r] = "dropKey" => subject'[r] \in KeyIds
             /\ pc'[r] \in {"update", "purge"} => caller'[r].user \in Ids
  OBVIOUS
<1> QED
  BY <1>1, <1>2

\* The middleware names a caller it can name.
LEMMA ResolveType ==
    ASSUME TypeOK, NEW b, NEW t \in Tokens \cup {NoToken}, NEW op
    PROVE  Resolve(b, t, op) \in Contexts
<1> USE SessionsAssumption DEF Contexts, Context
<1>1. CASE KeyOpens(b)
  <2>1. keys[b] \in Ids /\ users[keys[b]] \in UserRow
    BY <1>1 DEF KeyOpens, Exists, TypeOK, TablesOK
  <2>2. users[keys[b]].role \in {"Admin", "User"}
    BY <2>1 DEF UserRow
  <2> QED
    BY <1>1, <2>1, <2>2 DEF Resolve
<1>2. CASE ~KeyOpens(b) /\ MasterOpens(b)
  BY <1>2 DEF Resolve, MasterOpens
<1>3. CASE ~KeyOpens(b) /\ ~MasterOpens(b)
  <2>1. 16 \in UserColumns /\ 16 \notin SelectedColumns
    BY DEF UserColumns, SelectedColumns
  <2>2. ~CookieOpens(t)
    BY <2>1 DEF CookieOpens, GetSession
  <2> QED
    BY <1>3, <2>2 DEF Resolve, Refused, Anonymous
<1> QED
  BY <1>1, <1>2, <1>3

LEMMA EntryType ==
    ASSUME NEW op \in Operations, NEW c
    PROVE  /\ Entry(op, c) \in Operations \cup {"refused"}
           /\ Entry(op, c) \in {"createUser", "deleteUser", "adminKey"} =>
                c.role = "Admin" /\ Attached(op, c) = c
  BY DEF Entry, Attached, Operations

LEMMA ArriveKeepsHandlers ==
    ASSUME TypeOK, NEW s \in Slots, Arrive(s)
    PROVE  HandlersOK'
<1> USE SessionsAssumption
<1>1. PICK b \in (issued \cap KeyIds) \cup Masters \cup {"none"},
           t \in (issued \cap Tokens) \cup {NoToken}, op \in Operations :
         /\ caller' = [caller EXCEPT ![s] = Attached(op, Resolve(b, t, op))]
         /\ pc' = [pc EXCEPT ![s] = Entry(op, Resolve(b, t, op))]
         /\ cookie' = [cookie EXCEPT ![s] =
                IF op = "read" /\ b = "none" /\ t # NoToken /\ sessions[t] # NoRow
                THEN t ELSE NoToken]
         /\ UNCHANGED <<subject, read>>
  BY DEF Arrive, Goto
<1> DEFINE c == Resolve(b, t, op)
<1>2. c \in Contexts
  BY ResolveType
<1>3. Attached(op, c) \in Contexts
  BY <1>2 DEF Attached, Contexts, Anonymous, Context
<1>4. Entry(op, c) \in Operations \cup {"refused"}
  BY EntryType
<1> HIDE DEF c
<1>5. caller' = [caller EXCEPT ![s] = Attached(op, c)] /\ pc' = [pc EXCEPT ![s] = Entry(op, c)]
  BY <1>1 DEF c
<1>6. /\ pc' \in [Slots -> Labels]
      /\ caller' \in [Slots -> Contexts]
  BY <1>3, <1>4, <1>5 DEF TypeOK, HandlersOK, Labels
<1>7. cookie' \in [Slots -> Tokens \cup {NoToken}]
  BY <1>1 DEF TypeOK, HandlersOK
<1>8. pc'[s] \notin {"session", "dropKey", "update", "purge"}
  BY <1>4, <1>5 DEF TypeOK, HandlersOK, Operations
<1>9. \A r \in Slots \ {s} : pc'[r] = pc[r] /\ caller'[r] = caller[r]
  BY <1>5 DEF TypeOK, HandlersOK
<1> QED
  BY <1>1, <1>6, <1>7, <1>8, <1>9 DEF TypeOK, HandlersOK

LEMMA NewUserType ==
    ASSUME TypeOK, NEW i \in Ids, NEW e \in Emails, NEW role \in {"Admin", "User"},
           NEW p \in Passwords \cup {NoRow}, InsertUser(i, e, role, p)
    PROVE  /\ users' \in [Ids -> UserRow \cup {NoRow}]
           /\ issued' \subseteq Ids \cup KeyIds \cup Tokens
           /\ \A j \in Ids : users[j] # NoRow => users'[j] # NoRow
           /\ issued \subseteq issued'
<1>1. [email |-> e, role |-> role, password |-> p] \in UserRow
  BY DEF UserRow
<1>2. users' = [users EXCEPT ![i] = [email |-> e, role |-> role, password |-> p]]
  BY DEF InsertUser
<1>3. users' \in [Ids -> UserRow \cup {NoRow}]
  BY <1>1, <1>2 DEF TypeOK, TablesOK
<1>4. i \notin issued /\ issued' = issued \cup {i}
  BY DEF InsertUser, CanInsertUser
<1>5. \A j \in Ids : users[j] # NoRow => users'[j] # NoRow
  BY <1>1, <1>2, SessionsAssumption DEF TypeOK, TablesOK
<1> QED
  BY <1>3, <1>4, <1>5 DEF TypeOK, HistoryOK

LEMMA NextTypeOK == TypeOK /\ [Next]_sessionsVars => TypeOK'
<1> USE SessionsAssumption
<1> SUFFICES ASSUME TypeOK, [Next]_sessionsVars PROVE TypeOK'
  OBVIOUS
<1> USE DEF TypeOK
<1>1. ASSUME NEW s \in Slots, Arrive(s)
      PROVE  TypeOK'
  <2>1. HandlersOK'
    BY <1>1, ArriveKeepsHandlers
  <2> QED
    BY <1>1, <2>1 DEF Arrive, tables, history, TablesOK, HistoryOK
<1>2. ASSUME NEW s \in Slots, Answer(s)
      PROVE  TypeOK'
  <2>1. HandlersOK'
    BY <1>2, DoneKeepsHandlers DEF Answer
  <2> QED
    BY <1>2, <2>1 DEF Answer, tables, history, TablesOK, HistoryOK
<1>3. ASSUME NEW s \in Slots, FindUser(s)
      PROVE  TypeOK'
  <2>1. PICK u \in Ids : /\ subject' = [subject EXCEPT ![s] = u]
                         /\ read' = [read EXCEPT ![s] = rotations[u]]
    BY <1>3 DEF FindUser
  <2>2. rotations[u] \in 0..MaxRotations
    BY DEF HistoryOK
  <2>3. HandlersOK'
    <3>1. Goto(s, "session") /\ UNCHANGED <<caller, cookie>>
      BY <1>3 DEF FindUser
    <3>2. "session" \in Labels /\ "session" \notin {"dropKey", "update", "purge"}
      BY DEF Labels
    <3> QED
      BY <2>1, <2>2, <3>1, <3>2, GotoKeepsHandlers
  <2> QED
    BY <1>3, <2>3 DEF FindUser, tables, history, TablesOK, HistoryOK
<1>4. ASSUME NEW s \in Slots, OpenSession(s)
      PROVE  TypeOK'
  <2>1. HandlersOK'
    BY <1>4, DoneKeepsHandlers DEF OpenSession
  <2>2. PICK t \in Tokens : InsertSession(t, subject[s], read[s])
    BY <1>4 DEF OpenSession
  <2>3. [user |-> subject[s], read |-> read[s]] \in SessionRow
    BY <1>4 DEF OpenSession, HandlersOK, SessionRow
  <2>4. TablesOK'
    BY <1>4, <2>2, <2>3 DEF OpenSession, InsertSession, TablesOK
  <2>5. HistoryOK'
    BY <1>4, <2>2 DEF OpenSession, InsertSession, HistoryOK
  <2> QED
    BY <2>1, <2>4, <2>5
<1>5. ASSUME NEW s \in Slots, Logout(s)
      PROVE  TypeOK'
  <2>1. HandlersOK'
    BY <1>5, DoneKeepsHandlers DEF Logout
  <2> QED
    BY <1>5, <2>1 DEF Logout, history, TablesOK, HistoryOK
<1>6. ASSUME NEW s \in Slots, CheckPassword(s)
      PROVE  TypeOK'
  <2>1. caller[s].user \in Ids
    BY <1>6 DEF CheckPassword, Exists
  <2>2. HandlersOK'
    BY <1>6, <2>1 DEF CheckPassword, Goto, HandlersOK, Labels
  <2> QED
    BY <1>6, <2>2 DEF CheckPassword, tables, history, TablesOK, HistoryOK
<1>7. ASSUME NEW s \in Slots, UpdatePassword(s)
      PROVE  TypeOK'
  <2> DEFINE u == caller[s].user
  <2>1. u \in Ids /\ users[u] \in UserRow
    BY <1>7 DEF UpdatePassword, Exists, TablesOK
  <2>2. HandlersOK'
    BY <1>7, <2>1 DEF UpdatePassword, Goto, HandlersOK, Labels
  <2>3. PICK p \in Passwords : users' = [users EXCEPT ![u].password = p]
    BY <1>7 DEF UpdatePassword
  <2>4. [users[u] EXCEPT !.password = p] \in UserRow
    BY <2>1 DEF UserRow
  <2>5. TablesOK'
    BY <1>7, <2>1, <2>3, <2>4 DEF UpdatePassword, TablesOK
  <2>6. rotations[u] + 1 \in 0..MaxRotations
    BY <1>7, <2>1 DEF UpdatePassword, HistoryOK
  <2>7. HistoryOK'
    BY <1>7, <2>1, <2>6 DEF UpdatePassword, HistoryOK
  <2> QED
    BY <2>2, <2>5, <2>7
<1>8. ASSUME NEW s \in Slots, Purge(s)
      PROVE  TypeOK'
  <2>1. HandlersOK'
    BY <1>8, DoneKeepsHandlers DEF Purge
  <2> QED
    BY <1>8, <2>1 DEF Purge, PurgeSessions, TablesOK, HistoryOK
<1>9. ASSUME NEW s \in Slots, CreateUser(s)
      PROVE  TypeOK'
  <2>1. HandlersOK'
    BY <1>9, DoneKeepsHandlers DEF CreateUser
  <2>2. /\ users' \in [Ids -> UserRow \cup {NoRow}]
        /\ issued' \subseteq Ids \cup KeyIds \cup Tokens
    BY <1>9, NewUserType DEF CreateUser
  <2> QED
    BY <1>9, <2>1, <2>2 DEF CreateUser, TablesOK, HistoryOK
<1>10. ASSUME NEW s \in Slots, DeleteUser(s)
       PROVE  TypeOK'
  <2>1. HandlersOK'
    BY <1>10, DoneKeepsHandlers DEF DeleteUser
  <2>2. TablesOK'
    BY <1>10 DEF DeleteUser, EraseRows, PurgeSessions, TablesOK
  <2>3. HistoryOK'
    BY <1>10 DEF DeleteUser, HistoryOK
  <2> QED
    BY <2>1, <2>2, <2>3
<1>11. ASSUME NEW s \in Slots, CreateOwnKey(s)
       PROVE  TypeOK'
  <2>1. HandlersOK'
    BY <1>11, DoneKeepsHandlers DEF CreateOwnKey
  <2> QED
    BY <1>11, <2>1 DEF CreateOwnKey, InsertKey, Exists, TablesOK, HistoryOK
<1>12. ASSUME NEW s \in Slots, CreateKeyFor(s)
       PROVE  TypeOK'
  <2>1. HandlersOK'
    BY <1>12, DoneKeepsHandlers DEF CreateKeyFor
  <2> QED
    BY <1>12, <2>1 DEF CreateKeyFor, InsertKey, Exists, TablesOK, HistoryOK
<1>13. ASSUME NEW s \in Slots, FindOwnKey(s)
       PROVE  TypeOK'
  <2>1. PICK k \in KeyIds : subject' = [subject EXCEPT ![s] = k]
    BY <1>13 DEF FindOwnKey
  <2>2. HandlersOK'
    BY <1>13, <2>1 DEF FindOwnKey, Goto, HandlersOK, Labels
  <2> QED
    BY <1>13, <2>2 DEF FindOwnKey, tables, history, TablesOK, HistoryOK
<1>14. ASSUME NEW s \in Slots, DropKey(s)
       PROVE  TypeOK'
  <2>1. HandlersOK'
    BY <1>14, DoneKeepsHandlers DEF DropKey
  <2> QED
    BY <1>14, <2>1 DEF DropKey, history, TablesOK, HistoryOK
<1>15. ASSUME NEW s \in Slots, CheckEmpty(s)
       PROVE  TypeOK'
  <2>1. HandlersOK'
    BY <1>15 DEF CheckEmpty, Goto, HandlersOK, Labels
  <2> QED
    BY <1>15, <2>1 DEF CheckEmpty, tables, history, TablesOK, HistoryOK
<1>16. ASSUME NEW s \in Slots, CreateFirstAdmin(s)
       PROVE  TypeOK'
  <2>1. PICK i \in Ids, e \in Emails, p \in Passwords :
          /\ InsertUser(i, e, "Admin", p)
          /\ subject' = [subject EXCEPT ![s] = i]
          /\ read' = [read EXCEPT ![s] = rotations[i]]
    BY <1>16 DEF CreateFirstAdmin
  <2>2. rotations[i] \in 0..MaxRotations
    BY DEF HistoryOK
  <2>3. HandlersOK'
    <3>1. Goto(s, "session") /\ UNCHANGED <<caller, cookie>>
      BY <1>16 DEF CreateFirstAdmin
    <3>2. "session" \in Labels /\ "session" \notin {"dropKey", "update", "purge"}
      BY DEF Labels
    <3> QED
      BY <2>1, <2>2, <3>1, <3>2, GotoKeepsHandlers
  <2>4. /\ users' \in [Ids -> UserRow \cup {NoRow}]
        /\ issued' \subseteq Ids \cup KeyIds \cup Tokens
    BY <2>1, NewUserType
  <2> QED
    BY <1>16, <2>3, <2>4 DEF CreateFirstAdmin, TablesOK, HistoryOK
<1>17. ASSUME NEW s \in Slots, GiveUp(s)
       PROVE  TypeOK'
  <2>1. HandlersOK'
    BY <1>17, DoneKeepsHandlers DEF GiveUp
  <2> QED
    BY <1>17, <2>1 DEF GiveUp, tables, TablesOK, HistoryOK
<1>18. CASE Restart
  <2>1. HandlersOK'
    BY <1>18 DEF Restart, NoHandlers, HandlersOK, Labels, Contexts, Anonymous, Context
  <2>2. /\ users' \in [Ids -> UserRow \cup {NoRow}]
        /\ issued' \subseteq Ids \cup KeyIds \cup Tokens
    <3>1. CASE UNCHANGED <<users, issued>>
      BY <3>1 DEF TablesOK, HistoryOK
    <3>2. CASE \E i \in Ids, p \in Passwords : InsertUser(i, BootEmail, "Admin", p)
      BY <3>2, NewUserType
    <3> QED
      BY <1>18, <3>1, <3>2 DEF Restart, Bootstrap
  <2> QED
    BY <1>18, <2>1, <2>2 DEF Restart, TablesOK, HistoryOK
<1>19. CASE UNCHANGED sessionsVars
  BY <1>19 DEF sessionsVars, tables, handlers, history, TablesOK, HandlersOK, HistoryOK
<1> QED
  BY <1>1, <1>2, <1>3, <1>4, <1>5, <1>6, <1>7, <1>8, <1>9, <1>10, <1>11, <1>12, <1>13,
     <1>14, <1>15, <1>16, <1>17, <1>18, <1>19 DEF Next, Handler

\* Rows, contexts and locals are well formed, and owners of keys are user ids.
THEOREM SessionsTypeCorrect == Spec => []TypeOK
  BY InitTypeOK, NextTypeOK, PTL DEF Spec

-----------------------------------------------------------------------------
(* References *)

\* Every step but delete_user keeps the users there are, and every step but the
\* ones that insert or delete keeps the keys and the sessions.
LEMMA OrphansNeedDeletion ==
    ASSUME TypeOK, NoOrphans,
           \A j \in Ids : users[j] # NoRow => users'[j] # NoRow,
           \A k \in KeyIds : keys'[k] \in {keys[k], NoRow} \/ Exists(keys'[k]),
           \A t \in Tokens : sessions'[t] \in {sessions[t], NoRow}
                                \/ Exists(sessions'[t].user)
    PROVE  NoOrphans'
  BY DEF NoOrphans, Exists

LEMMA NextNoOrphans == TypeOK /\ NoOrphans /\ [Next]_sessionsVars => NoOrphans'
<1> USE SessionsAssumption
<1> SUFFICES ASSUME TypeOK, NoOrphans, [Next]_sessionsVars PROVE NoOrphans'
  OBVIOUS
<1>1. ASSUME NEW s \in Slots,
             Arrive(s) \/ Answer(s) \/ FindUser(s) \/ CheckPassword(s) \/ FindOwnKey(s)
               \/ CheckEmpty(s) \/ GiveUp(s)
      PROVE  NoOrphans'
  <2>1. UNCHANGED tables
    BY <1>1 DEF Arrive, Answer, FindUser, CheckPassword, FindOwnKey, CheckEmpty, GiveUp
  <2> QED
    BY <2>1 DEF tables, NoOrphans, Exists
<1>2. ASSUME NEW s \in Slots, OpenSession(s)
      PROVE  NoOrphans'
  <2>1. PICK t \in Tokens : InsertSession(t, subject[s], read[s])
    BY <1>2 DEF OpenSession
  <2>2. /\ Exists(subject[s])
        /\ sessions' = [sessions EXCEPT ![t] = [user |-> subject[s], read |-> read[s]]]
    BY <2>1 DEF InsertSession
  <2>3. \A r \in Tokens : sessions'[r] = sessions[r] \/ sessions'[r].user = subject[s]
    BY <2>2 DEF TypeOK, TablesOK
  <2> QED
    BY <1>2, <2>2, <2>3 DEF OpenSession, NoOrphans, Exists
<1>3. ASSUME NEW s \in Slots, Logout(s)
      PROVE  NoOrphans'
  BY <1>3, OrphansNeedDeletion DEF Logout
<1>4. ASSUME NEW s \in Slots, UpdatePassword(s)
      PROVE  NoOrphans'
  <2>1. \A j \in Ids : users[j] # NoRow => users'[j] # NoRow
    <3>1. PICK p \in Passwords : users' = [users EXCEPT ![caller[s].user].password = p]
      BY <1>4 DEF UpdatePassword
    <3>2. caller[s].user \in Ids /\ users[caller[s].user] \in UserRow
      BY <1>4 DEF UpdatePassword, Exists, TypeOK, TablesOK
    <3>3. [users[caller[s].user] EXCEPT !.password = p] \in UserRow
      BY <3>2 DEF UserRow
    <3> QED
      BY <3>1, <3>2, <3>3 DEF TypeOK, TablesOK
  <2> QED
    BY <1>4, <2>1 DEF UpdatePassword, NoOrphans, Exists
<1>5. ASSUME NEW s \in Slots, Purge(s)
      PROVE  NoOrphans'
  <2>1. \A t \in Tokens : sessions'[t] \in {sessions[t], NoRow}
    BY <1>5 DEF Purge, PurgeSessions
  <2> QED
    BY <1>5, <2>1, OrphansNeedDeletion DEF Purge
<1>6. ASSUME NEW s \in Slots, CreateUser(s) \/ CreateFirstAdmin(s)
      PROVE  NoOrphans'
  <2>1. \A j \in Ids : users[j] # NoRow => users'[j] # NoRow
    BY <1>6, NewUserType DEF CreateUser, CreateFirstAdmin
  <2> QED
    BY <1>6, <2>1 DEF CreateUser, CreateFirstAdmin, NoOrphans, Exists
<1>7. ASSUME NEW s \in Slots, DeleteUser(s)
      PROVE  NoOrphans'
  <2>1. PICK u \in Ids, n \in 0..4 : EraseRows(u, n)
    BY <1>7 DEF DeleteUser
  <2>2. ASSUME NEW k \in KeyIds, keys'[k] # NoRow
        PROVE  keys'[k] \in Ids /\ users'[keys'[k]] # NoRow
    <3>1. keys'[k] = keys[k] /\ ~(n >= 1 /\ keys[k] = u)
      BY <2>1, <2>2 DEF EraseRows
    <3>2. Exists(keys[k])
      BY <2>2, <3>1 DEF NoOrphans
    <3> QED
      BY <2>1, <3>1, <3>2 DEF EraseRows, Exists
  <2>3. ASSUME NEW t \in Tokens, sessions'[t] # NoRow
        PROVE  sessions'[t].user \in Ids /\ users'[sessions'[t].user] # NoRow
    <3>1. sessions'[t] = sessions[t] /\ ~(n >= 2 /\ sessions[t].user = u)
      BY <2>1, <2>3 DEF EraseRows, PurgeSessions, SessionsOf
    <3>2. Exists(sessions[t].user)
      BY <2>3, <3>1 DEF NoOrphans
    <3> QED
      BY <2>1, <3>1, <3>2 DEF EraseRows, Exists
  <2> QED
    BY <2>2, <2>3 DEF NoOrphans, Exists
<1>8. ASSUME NEW s \in Slots, CreateOwnKey(s) \/ CreateKeyFor(s)
      PROVE  NoOrphans'
  <2>1. PICK k \in KeyIds, u \in Ids : Exists(u) /\ keys' = [keys EXCEPT ![k] = u]
    BY <1>8 DEF CreateOwnKey, CreateKeyFor, InsertKey, Exists
  <2>2. \A j \in KeyIds : keys'[j] = keys[j] \/ keys'[j] = u
    BY <2>1 DEF TypeOK, TablesOK
  <2> QED
    BY <1>8, <2>1, <2>2 DEF CreateOwnKey, CreateKeyFor, NoOrphans, Exists
<1>9. ASSUME NEW s \in Slots, DropKey(s)
      PROVE  NoOrphans'
  <2>1. \A k \in KeyIds : keys'[k] \in {keys[k], NoRow}
    BY <1>9 DEF DropKey, TypeOK, TablesOK
  <2> QED
    BY <1>9, <2>1, OrphansNeedDeletion DEF DropKey
<1>10. CASE Restart
  <2>1. \A j \in Ids : users[j] # NoRow => users'[j] # NoRow
    BY <1>10, NewUserType DEF Restart, Bootstrap
  <2> QED
    BY <1>10, <2>1, OrphansNeedDeletion DEF Restart
<1>11. CASE UNCHANGED sessionsVars
  BY <1>11 DEF sessionsVars, tables, NoOrphans, Exists
<1> QED
  BY <1>1, <1>2, <1>3, <1>4, <1>5, <1>6, <1>7, <1>8, <1>9, <1>10, <1>11 DEF Next, Handler

\* No key and no session outlives its user, for any number of handlers that
\* were under way when the user was deleted.
THEOREM RowsHaveUsers == Spec => []NoOrphans
<1>1. Init => NoOrphans
  BY DEF Init, NoOrphans
<1> QED
  BY <1>1, InitTypeOK, NextTypeOK, NextNoOrphans, PTL DEF Spec

-----------------------------------------------------------------------------
(* Passwords and sessions *)

LEMMA PendingStays ==
    ASSUME TypeOK, NEW s \in Slots, pc[s] # "purge", NEW u,
           \A r \in Slots \ {s} : pc'[r] = pc[r] /\ caller'[r] = caller[r]
    PROVE  PurgePending(u) => PurgePending(u)'
  BY DEF PurgePending

\* A step that keeps the rotations, and only removes sessions, keeps the
\* property if it keeps what explains a session of an old password.
LEMMA ExplainedStays ==
    ASSUME SessionsFollowPassword, UNCHANGED rotations,
           \A t \in Tokens : sessions'[t] \in {sessions[t], NoRow},
           \A t \in Tokens : sessions'[t] # NoRow /\ t \in late => t \in late',
           \A t \in Tokens : sessions'[t] # NoRow /\ PurgePending(sessions[t].user) =>
               PurgePending(sessions[t].user)' \/ sessions[t].user \in unpurged',
           \A t \in Tokens : sessions'[t] # NoRow /\ sessions[t].user \in unpurged =>
               sessions[t].user \in unpurged'
    PROVE  SessionsFollowPassword'
<1> SUFFICES ASSUME NEW t \in Tokens, sessions'[t] # NoRow,
                    sessions'[t].read < rotations'[sessions'[t].user]
             PROVE  \/ t \in late' \/ sessions'[t].user \in unpurged'
                    \/ \E s \in Slots : pc'[s] = "purge" /\ caller'[s].user = sessions'[t].user
  BY DEF SessionsFollowPassword, PurgePending
<1>1. sessions'[t] = sessions[t]
  OBVIOUS
<1>2. t \in late \/ PurgePending(sessions[t].user) \/ sessions[t].user \in unpurged
  BY <1>1 DEF SessionsFollowPassword
<1> QED
  BY <1>1, <1>2 DEF PurgePending

LEMMA NextFollowPassword ==
    TypeOK /\ SessionsFollowPassword /\ [Next]_sessionsVars => SessionsFollowPassword'
<1> USE SessionsAssumption
<1> SUFFICES ASSUME TypeOK, SessionsFollowPassword, [Next]_sessionsVars
             PROVE  SessionsFollowPassword'
  OBVIOUS
<1>1. ASSUME NEW s \in Slots, pc[s] # "purge",
             \A r \in Slots \ {s} : pc'[r] = pc[r] /\ caller'[r] = caller[r],
             UNCHANGED <<sessions, rotations, late>>, unpurged \subseteq unpurged'
      PROVE  SessionsFollowPassword'
  BY <1>1, PendingStays, ExplainedStays
<1>2. ASSUME NEW s \in Slots
      PROVE  /\ Done(s) \/ (\E l : Goto(s, l)) =>
                  \A r \in Slots \ {s} : pc'[r] = pc[r]
             /\ Done(s) \/ caller' = caller =>
                  \A r \in Slots \ {s} : caller'[r] = caller[r]
  BY DEF Done, Goto, TypeOK, HandlersOK
<1>3. ASSUME NEW s \in Slots, Arrive(s)
      PROVE  SessionsFollowPassword'
  <2>1. \A r \in Slots \ {s} : pc'[r] = pc[r] /\ caller'[r] = caller[r]
    BY <1>3 DEF Arrive, Goto, TypeOK, HandlersOK
  <2> QED
    BY <1>1, <1>3, <2>1 DEF Arrive, tables, history
<1>4. ASSUME NEW s \in Slots, Answer(s)
      PROVE  SessionsFollowPassword'
  BY <1>1, <1>2, <1>4 DEF Answer, tables, history
<1>5. ASSUME NEW s \in Slots, FindUser(s) \/ CheckPassword(s) \/ FindOwnKey(s) \/ CheckEmpty(s)
      PROVE  SessionsFollowPassword'
  <2>1. /\ \E l : Goto(s, l)
        /\ UNCHANGED <<caller, sessions, rotations, late, unpurged>>
        /\ pc[s] # "purge"
    BY <1>5 DEF FindUser, CheckPassword, FindOwnKey, CheckEmpty, tables, history
  <2> QED
    BY <1>1, <1>2, <2>1
<1>6. ASSUME NEW s \in Slots,
             CreateUser(s) \/ CreateOwnKey(s) \/ CreateKeyFor(s) \/ DropKey(s)
      PROVE  SessionsFollowPassword'
  <2>1. /\ Done(s)
        /\ UNCHANGED <<sessions, rotations, late, unpurged>>
        /\ pc[s] # "purge"
    BY <1>6 DEF CreateUser, CreateOwnKey, CreateKeyFor, DropKey, history
  <2> QED
    BY <1>1, <1>2, <2>1
<1>7. ASSUME NEW s \in Slots, CreateFirstAdmin(s)
      PROVE  SessionsFollowPassword'
  <2>1. /\ \E l : Goto(s, l)
        /\ UNCHANGED <<caller, sessions, rotations, late, unpurged>>
        /\ pc[s] # "purge"
    BY <1>7 DEF CreateFirstAdmin
  <2> QED
    BY <1>1, <1>2, <2>1
<1>8. ASSUME NEW s \in Slots, OpenSession(s)
      PROVE  SessionsFollowPassword'
  <2>1. PICK t \in Tokens : InsertSession(t, subject[s], read[s])
    BY <1>8 DEF OpenSession
  <2>2. /\ sessions' = [sessions EXCEPT ![t] = [user |-> subject[s], read |-> read[s]]]
        /\ late' = IF read[s] < rotations[subject[s]] THEN late \cup {t} ELSE late
        /\ UNCHANGED <<rotations, unpurged>>
    BY <1>8, <2>1 DEF OpenSession, InsertSession
  <2>3. \A u : PurgePending(u) => PurgePending(u)'
    BY <1>2, <1>8, PendingStays DEF OpenSession
  <2>4. ASSUME NEW r \in Tokens, sessions'[r] # NoRow,
               sessions'[r].read < rotations'[sessions'[r].user]
        PROVE  \/ r \in late' \/ sessions'[r].user \in unpurged'
               \/ \E v \in Slots : pc'[v] = "purge" /\ caller'[v].user = sessions'[r].user
    <3>1. CASE r = t
      BY <2>2, <2>4, <3>1 DEF TypeOK, TablesOK
    <3>2. CASE r # t
      <4>1. sessions'[r] = sessions[r]
        BY <2>2, <3>2 DEF TypeOK, TablesOK
      <4>2. r \in late \/ PurgePending(sessions[r].user) \/ sessions[r].user \in unpurged
        BY <2>2, <2>4, <4>1 DEF SessionsFollowPassword
      <4> QED
        BY <2>2, <2>3, <4>1, <4>2 DEF PurgePending
    <3> QED
      BY <3>1, <3>2
  <2> QED
    BY <2>4 DEF SessionsFollowPassword, PurgePending
<1>9. ASSUME NEW s \in Slots, Logout(s)
      PROVE  SessionsFollowPassword'
  <2>1. \A u : PurgePending(u) => PurgePending(u)'
    BY <1>2, <1>9, PendingStays DEF Logout
  <2>2. UNCHANGED <<rotations, late, unpurged>> /\ \A t \in Tokens : sessions'[t] \in {sessions[t], NoRow}
    BY <1>9 DEF Logout, history
  <2> QED
    BY <2>1, <2>2, ExplainedStays
<1>10. ASSUME NEW s \in Slots, UpdatePassword(s)
       PROVE  SessionsFollowPassword'
  <2> DEFINE u == caller[s].user
  <2>1. /\ u \in Ids /\ rotations' = [rotations EXCEPT ![u] = @ + 1]
        /\ pc' = [pc EXCEPT ![s] = "purge"]
        /\ UNCHANGED <<sessions, caller, late, unpurged>>
    BY <1>10 DEF UpdatePassword, Exists, Goto
  <2>2. pc'[s] = "purge" /\ caller'[s].user = u
    BY <2>1 DEF TypeOK, HandlersOK
  <2>3. ASSUME NEW t \in Tokens, sessions'[t] # NoRow,
               sessions'[t].read < rotations'[sessions'[t].user]
        PROVE  \/ t \in late' \/ sessions'[t].user \in unpurged'
               \/ \E v \in Slots : pc'[v] = "purge" /\ caller'[v].user = sessions'[t].user
    <3>1. CASE sessions[t].user = u
      BY <2>1, <2>2, <3>1
    <3>2. CASE sessions[t].user # u
      <4>1. sessions[t].read < rotations[sessions[t].user]
        BY <2>1, <2>3, <3>2 DEF TypeOK, HistoryOK, TablesOK, SessionRow
      <4>2. t \in late \/ PurgePending(sessions[t].user) \/ sessions[t].user \in unpurged
        BY <2>1, <2>3, <4>1 DEF SessionsFollowPassword
      <4>3. PurgePending(sessions[t].user) => PurgePending(sessions[t].user)'
        <5>1. pc[s] # "purge"
          BY <1>10 DEF UpdatePassword
        <5>2. \A r \in Slots \ {s} : pc'[r] = pc[r] /\ caller'[r] = caller[r]
          BY <2>1 DEF TypeOK, HandlersOK
        <5> QED
          BY <2>1, <5>1, <5>2 DEF PurgePending
      <4> QED
        BY <2>1, <4>2, <4>3 DEF PurgePending
    <3> QED
      BY <3>1, <3>2
  <2> QED
    BY <2>3 DEF SessionsFollowPassword, PurgePending
<1>11. ASSUME NEW s \in Slots, Purge(s)
       PROVE  SessionsFollowPassword'
  <2> DEFINE u == caller[s].user
  <2>1. /\ PurgeSessions(u) /\ late' = late \ SessionsOf(u) /\ unpurged' = unpurged \ {u}
        /\ UNCHANGED rotations /\ Done(s)
    BY <1>11 DEF Purge
  <2>2. ASSUME NEW t \in Tokens, sessions'[t] # NoRow
        PROVE  sessions[t] # NoRow /\ sessions[t].user # u /\ sessions'[t] = sessions[t]
    BY <2>1, <2>2 DEF PurgeSessions, SessionsOf
  <2>3. ASSUME NEW v, v # u, PurgePending(v)
        PROVE  PurgePending(v)'
    BY <1>2, <2>1, <2>3 DEF PurgePending
  <2>4. \A t \in Tokens : sessions'[t] \in {sessions[t], NoRow}
    BY <2>1 DEF PurgeSessions
  <2>5. \A t \in Tokens : sessions'[t] # NoRow /\ t \in late => t \in late'
    BY <2>1, <2>2 DEF SessionsOf
  <2>6. \A t \in Tokens : sessions'[t] # NoRow /\ PurgePending(sessions[t].user) =>
            PurgePending(sessions[t].user)' \/ sessions[t].user \in unpurged'
    BY <2>2, <2>3, <2>1 DEF PurgePending
  <2>7. \A t \in Tokens : sessions'[t] # NoRow /\ sessions[t].user \in unpurged =>
            sessions[t].user \in unpurged'
    BY <2>1, <2>2
  <2> QED
    BY <2>1, <2>4, <2>5, <2>6, <2>7, ExplainedStays
<1>12. ASSUME NEW s \in Slots, DeleteUser(s)
       PROVE  SessionsFollowPassword'
  <2>1. PICK u \in Ids, n \in 0..4 :
          /\ EraseRows(u, n)
          /\ late' = IF n >= 2 THEN late \ SessionsOf(u) ELSE late
          /\ unpurged' = IF n >= 2 THEN unpurged \ {u} ELSE unpurged
    BY <1>12 DEF DeleteUser
  <2>2. UNCHANGED rotations /\ Done(s) /\ pc[s] # "purge"
    BY <1>12 DEF DeleteUser
  <2>3. \A v : PurgePending(v) => PurgePending(v)'
    BY <1>2, <2>2, PendingStays
  <2>4. ASSUME NEW t \in Tokens, sessions'[t] # NoRow
        PROVE  sessions'[t] = sessions[t] /\ ~(n >= 2 /\ sessions[t].user = u)
    BY <2>1, <2>4 DEF EraseRows, PurgeSessions, SessionsOf
  <2>5. \A t \in Tokens : sessions'[t] \in {sessions[t], NoRow}
    BY <2>4
  <2>6. \A t \in Tokens : sessions'[t] # NoRow /\ t \in late => t \in late'
    BY <2>1, <2>4 DEF SessionsOf
  <2>7. \A t \in Tokens : sessions'[t] # NoRow /\ sessions[t].user \in unpurged =>
            sessions[t].user \in unpurged'
    BY <2>1, <2>4
  <2> QED
    BY <2>2, <2>3, <2>5, <2>6, <2>7, ExplainedStays
<1>13. ASSUME NEW s \in Slots, GiveUp(s)
       PROVE  SessionsFollowPassword'
  <2>1. /\ unpurged' = unpurged \cup {u \in Ids : pc[s] = "purge" /\ caller[s].user = u}
        /\ Done(s) /\ UNCHANGED <<sessions, rotations, late>>
    BY <1>13 DEF GiveUp, tables
  <2>2. ASSUME NEW v \in Ids, PurgePending(v)
        PROVE  PurgePending(v)' \/ v \in unpurged'
    BY <1>2, <2>1, <2>2 DEF PurgePending
  <2>3. \A t \in Tokens : sessions[t] # NoRow => sessions[t].user \in Ids
    BY DEF TypeOK, TablesOK, SessionRow
  <2>4. \A t \in Tokens : sessions'[t] # NoRow /\ PurgePending(sessions[t].user) =>
            PurgePending(sessions[t].user)' \/ sessions[t].user \in unpurged'
    BY <2>1, <2>2, <2>3 DEF PurgePending
  <2> QED
    BY <2>1, <2>4, ExplainedStays
<1>14. CASE Restart
  <2>1. /\ unpurged' = unpurged \cup {u \in Ids : PurgePending(u)}
        /\ UNCHANGED <<sessions, rotations, late>>
    BY <1>14 DEF Restart
  <2>2. \A t \in Tokens : sessions[t] # NoRow => sessions[t].user \in Ids
    BY DEF TypeOK, TablesOK, SessionRow
  <2>3. \A t \in Tokens : sessions'[t] # NoRow /\ PurgePending(sessions[t].user) =>
            PurgePending(sessions[t].user)' \/ sessions[t].user \in unpurged'
    BY <2>1, <2>2
  <2> QED
    BY <2>1, <2>3, ExplainedStays
<1>15. CASE UNCHANGED sessionsVars
  BY <1>15 DEF sessionsVars, tables, handlers, history, SessionsFollowPassword, PurgePending
<1> QED
  BY <1>3, <1>4, <1>5, <1>6, <1>7, <1>8, <1>9, <1>10, <1>11, <1>12, <1>13, <1>14, <1>15
     DEF Next, Handler

\* However logins and rotations overlap and wherever rotate_password stops, a
\* session of an old password is one of the three kinds.
THEOREM SessionsFollow == Spec => []SessionsFollowPassword
<1>1. Init => SessionsFollowPassword
  BY DEF Init, SessionsFollowPassword
<1> QED
  BY <1>1, InitTypeOK, NextTypeOK, NextFollowPassword, PTL DEF Spec

-----------------------------------------------------------------------------
(* Deletion of keys *)

LEMMA NextAdminsOnly == TypeOK /\ AdminsOnly /\ [Next]_sessionsVars => AdminsOnly'
<1> SUFFICES ASSUME TypeOK, AdminsOnly, [Next]_sessionsVars PROVE AdminsOnly'
  OBVIOUS
<1> DEFINE Admins == {"createUser", "deleteUser", "adminKey"}
<1>1. ASSUME NEW s \in Slots, Arrive(s)
      PROVE  AdminsOnly'
  <2>1. PICK op, c :
          /\ op \in Operations
          /\ caller' = [caller EXCEPT ![s] = Attached(op, c)]
          /\ pc' = [pc EXCEPT ![s] = Entry(op, c)]
    BY <1>1 DEF Arrive, Goto
  <2>2. pc'[s] \in Admins => caller'[s].role = "Admin"
    <3>1. Entry(op, c) \in Admins => c.role = "Admin" /\ Attached(op, c) = c
      BY <2>1, EntryType
    <3> QED
      BY <2>1, <3>1 DEF TypeOK, HandlersOK
  <2>3. \A r \in Slots \ {s} : pc'[r] = pc[r] /\ caller'[r] = caller[r]
    BY <2>1 DEF TypeOK, HandlersOK
  <2> QED
    BY <2>2, <2>3 DEF AdminsOnly
<1>2. ASSUME NEW s \in Slots, Handler(s), ~Arrive(s)
      PROVE  AdminsOnly'
  <2>1. \/ Done(s)
        \/ UNCHANGED caller /\ \E l : l \notin Admins /\ Goto(s, l)
    BY <1>2 DEF Handler, Answer, FindUser, OpenSession, Logout, CheckPassword, UpdatePassword,
                Purge, CreateUser, DeleteUser, CreateOwnKey, CreateKeyFor, FindOwnKey, DropKey,
                CheckEmpty, CreateFirstAdmin, GiveUp
  <2> QED
    BY <2>1 DEF AdminsOnly, Done, Goto, TypeOK, HandlersOK
<1>3. CASE Restart
  BY <1>3 DEF Restart, NoHandlers, AdminsOnly
<1>4. CASE UNCHANGED sessionsVars
  BY <1>4 DEF sessionsVars, handlers, AdminsOnly
<1> QED
  BY <1>1, <1>2, <1>3, <1>4 DEF Next

\* No step unissues a row, or gives a key another owner than it had.
LEMMA KeysChange ==
    ASSUME TypeOK, KeysAccounted, [Next]_sessionsVars
    PROVE  /\ issued \subseteq issued'
           /\ \A k \in KeyIds :
                \/ keys'[k] \in {keys[k], NoRow}
                \/ k \notin issued /\ keys[k] = NoRow /\ k \in issued'
<1>1. ASSUME NEW s \in Slots, CreateOwnKey(s) \/ CreateKeyFor(s)
      PROVE  /\ issued \subseteq issued'
             /\ \A k \in KeyIds : \/ keys'[k] = keys[k]
                                  \/ k \notin issued /\ keys[k] = NoRow /\ k \in issued'
  <2>1. PICK j, u : /\ j \in KeyIds
                    /\ j \notin issued /\ issued' = issued \cup {j}
                    /\ keys' = [keys EXCEPT ![j] = u]
    BY <1>1 DEF CreateOwnKey, CreateKeyFor, InsertKey
  <2> QED
    BY <2>1 DEF TypeOK, TablesOK, KeysAccounted
<1>2. ASSUME NEW s \in Slots, DeleteUser(s)
      PROVE  UNCHANGED issued /\ \A k \in KeyIds : keys'[k] \in {keys[k], NoRow}
  BY <1>2 DEF DeleteUser, EraseRows
<1>3. ASSUME NEW s \in Slots, DropKey(s)
      PROVE  UNCHANGED issued /\ \A k \in KeyIds : keys'[k] \in {keys[k], NoRow}
  BY <1>3 DEF DropKey, history, TypeOK, TablesOK
<1>4. ASSUME NEW s \in Slots,
             Arrive(s) \/ Answer(s) \/ FindUser(s) \/ Logout(s) \/ CheckPassword(s)
               \/ UpdatePassword(s) \/ Purge(s) \/ FindOwnKey(s) \/ CheckEmpty(s) \/ GiveUp(s)
      PROVE  UNCHANGED <<keys, issued>>
  BY <1>4 DEF Arrive, Answer, FindUser, Logout, CheckPassword, UpdatePassword, Purge,
              FindOwnKey, CheckEmpty, GiveUp, tables, history
<1>5. ASSUME NEW s \in Slots, OpenSession(s) \/ CreateUser(s) \/ CreateFirstAdmin(s)
      PROVE  UNCHANGED keys /\ issued \subseteq issued'
  BY <1>5 DEF OpenSession, CreateUser, CreateFirstAdmin, InsertSession, InsertUser
<1>6. CASE Restart
  BY <1>6 DEF Restart, Bootstrap, InsertUser
<1>7. CASE UNCHANGED sessionsVars
  BY <1>7 DEF sessionsVars, tables, history
<1> QED
  BY <1>1, <1>2, <1>3, <1>4, <1>5, <1>6, <1>7 DEF Next, Handler

LEMMA NextKeysAccounted ==
    TypeOK /\ KeysAccounted /\ [Next]_sessionsVars => KeysAccounted'
<1> SUFFICES ASSUME TypeOK, KeysAccounted, [Next]_sessionsVars PROVE KeysAccounted'
  OBVIOUS
<1>1. \A k \in KeyIds : keys'[k] # NoRow => k \in issued'
  BY KeysChange DEF KeysAccounted
<1>2. ASSUME NEW s \in Slots, pc'[s] = "dropKey",
             pc[s] = "dropKey", subject'[s] = subject[s], caller'[s] = caller[s]
      PROVE  subject'[s] \in issued' /\ keys'[subject'[s]] \in {caller'[s].user, NoRow}
  <2>1. subject[s] \in KeyIds /\ subject[s] \in issued
    BY <1>2 DEF TypeOK, HandlersOK, KeysAccounted
  <2> QED
    BY <1>2, <2>1, KeysChange DEF KeysAccounted
<1>3. ASSUME NEW s \in Slots, pc'[s] = "dropKey", FindOwnKey(s)
      PROVE  subject'[s] \in issued' /\ keys'[subject'[s]] \in {caller'[s].user, NoRow}
  <2>1. PICK k \in KeyIds : keys[k] = caller[s].user /\ subject' = [subject EXCEPT ![s] = k]
    BY <1>3 DEF FindOwnKey
  <2>2. UNCHANGED <<keys, issued, caller>> /\ subject'[s] = k
    BY <1>3, <2>1 DEF FindOwnKey, tables, history, TypeOK, HandlersOK
  <2>3. pc[s] = "deleteKey" /\ caller[s].user # NoRow
    BY <1>3, SessionsAssumption DEF FindOwnKey, TypeOK, HandlersOK, Contexts
  <2> QED
    BY <2>1, <2>2, <2>3 DEF KeysAccounted
<1>4. ASSUME NEW r \in Slots, pc'[r] = "dropKey"
      PROVE  \/ pc[r] = "dropKey" /\ subject'[r] = subject[r] /\ caller'[r] = caller[r]
             \/ FindOwnKey(r)
  <2>1. ASSUME NEW s \in Slots, Handler(s)
        PROVE  \/ pc[r] = "dropKey" /\ subject'[r] = subject[r] /\ caller'[r] = caller[r]
               \/ FindOwnKey(r)
    <3>1. CASE Arrive(s)
      <4>1. PICK op, c : op \in Operations /\ pc' = [pc EXCEPT ![s] = Entry(op, c)]
        BY <3>1 DEF Arrive, Goto
      <4>2. Entry(op, c) # "dropKey"
        BY <4>1, EntryType DEF Operations
      <4> QED
        BY <1>4, <3>1, <4>1, <4>2 DEF Arrive, TypeOK, HandlersOK
    <3>2. CASE Done(s)
      BY <1>4, <3>2 DEF Done, TypeOK, HandlersOK
    <3>3. CASE FindOwnKey(s)
      BY <1>4, <3>3 DEF FindOwnKey, Goto, TypeOK, HandlersOK
    <3>4. CASE FindUser(s) \/ CheckPassword(s) \/ UpdatePassword(s) \/ CheckEmpty(s)
                 \/ CreateFirstAdmin(s)
      <4>1. PICK l \in {"session", "update", "purge", "firstAdmin"} : Goto(s, l)
        BY <3>4 DEF FindUser, CheckPassword, UpdatePassword, CheckEmpty, CreateFirstAdmin
      <4>2. UNCHANGED caller /\ \A q \in Slots \ {s} : subject'[q] = subject[q]
        BY <3>4 DEF FindUser, CheckPassword, UpdatePassword, CheckEmpty, CreateFirstAdmin,
                    TypeOK, HandlersOK
      <4> QED
        BY <1>4, <4>1, <4>2 DEF Goto, TypeOK, HandlersOK
    <3>5. QED
      BY <2>1, <3>1, <3>2, <3>3, <3>4
         DEF Handler, Answer, OpenSession, Logout, Purge, CreateUser, DeleteUser,
             CreateOwnKey, CreateKeyFor, DropKey, GiveUp
  <2>2. CASE Restart
    BY <1>4, <2>2 DEF Restart, NoHandlers
  <2>3. CASE UNCHANGED sessionsVars
    BY <1>4, <2>3 DEF sessionsVars, handlers
  <2> QED
    BY <2>1, <2>2, <2>3 DEF Next
<1> QED
  BY <1>1, <1>2, <1>3, <1>4 DEF KeysAccounted

LEMMA KeyStep ==
    ASSUME KeyInv, [Next]_sessionsVars, NEW k \in KeyIds, keys[k] # NoRow, keys'[k] # keys[k]
    PROVE  \E s \in Slots :
             \/ pc[s] = "dropKey" /\ caller[s].user = keys[k]
             \/ pc[s] = "deleteUser" /\ caller[s].role = "Admin"
<1>1. k \in issued
  BY DEF KeyInv, KeysAccounted
<1>2. ASSUME NEW s \in Slots, CreateOwnKey(s) \/ CreateKeyFor(s)
      PROVE  FALSE
  <2>1. PICK j, u : j \in KeyIds /\ j \notin issued /\ keys' = [keys EXCEPT ![j] = u]
    BY <1>2 DEF CreateOwnKey, CreateKeyFor, InsertKey
  <2> QED
    BY <1>1, <2>1 DEF KeyInv, TypeOK, TablesOK
<1>3. ASSUME NEW s \in Slots, DropKey(s)
      PROVE  pc[s] = "dropKey" /\ caller[s].user = keys[k]
  <2>1. pc[s] = "dropKey" /\ keys' = [keys EXCEPT ![subject[s]] = NoRow]
    BY <1>3 DEF DropKey
  <2>2. subject[s] = k
    BY <2>1 DEF KeyInv, TypeOK, TablesOK
  <2> QED
    BY <2>1, <2>2 DEF KeyInv, KeysAccounted
<1>4. ASSUME NEW s \in Slots, DeleteUser(s)
      PROVE  pc[s] = "deleteUser" /\ caller[s].role = "Admin"
  BY <1>4 DEF DeleteUser, KeyInv, AdminsOnly
<1>5. ASSUME NEW s \in Slots, Handler(s), keys' # keys
      PROVE  CreateOwnKey(s) \/ CreateKeyFor(s) \/ DropKey(s) \/ DeleteUser(s)
  BY <1>5 DEF Handler, Arrive, Answer, FindUser, OpenSession, Logout, CheckPassword,
              UpdatePassword, Purge, CreateUser, FindOwnKey, CheckEmpty, CreateFirstAdmin,
              GiveUp, tables
<1>6. \E s \in Slots : Handler(s)
  BY DEF Next, Restart, sessionsVars, tables
<1> QED
  BY <1>2, <1>3, <1>4, <1>5, <1>6

\* A key is deleted by its owner or with its owner's account, however many
\* handlers run between the look-up by owner and the deletion by id.
THEOREM KeysAreTheirOwners == Spec => KeyRemoval
<1>1. Init => KeyInv
  <2>1. Init => AdminsOnly /\ KeysAccounted
    BY DEF Init, AdminsOnly, KeysAccounted
  <2> QED
    BY <2>1, InitTypeOK DEF KeyInv
<1>2. KeyInv /\ [Next]_sessionsVars => KeyInv'
  BY NextTypeOK, NextAdminsOnly, NextKeysAccounted DEF KeyInv
<1>3. KeyInv /\ [Next]_sessionsVars =>
        [\A k \in KeyIds :
           keys[k] # NoRow /\ keys'[k] # keys[k] =>
               \E s \in Slots :
                   \/ pc[s] = "dropKey" /\ caller[s].user = keys[k]
                   \/ pc[s] = "deleteUser" /\ caller[s].role = "Admin"]_sessionsVars
  BY KeyStep
<1> QED
  BY <1>1, <1>2, <1>3, PTL DEF Spec, KeyRemoval

=============================================================================
