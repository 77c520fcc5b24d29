---------------------------- MODULE OAuthRefresh ----------------------------
(***************************************************************************)
(* The credentials of one OAuth provider (src/src/oauth/mod.rs): refresh   *)
(* tokens that a vendor may rotate on every use, kept in the key store     *)
(* under "oauth:<provider>", and a cached access token.  Requests refresh  *)
(* while an operator logs in again; each of them is a sequence of key      *)
(* store steps with a call to the vendor in between, so this module        *)
(* composes KeyStore: a step here is a step of the store or leaves it      *)
(* alone.                                                                  *)
(***************************************************************************)
EXTENDS KeyStore

CONSTANTS
    Provider,   \* the id the tokens are stored under
    Grants,     \* authorizations a user can give, one for every login
    Rotating,   \* grants whose vendor replaces the refresh token on use
    MaxSerial,  \* bound: rotations of one grant
    NoGrant     \* no login yet, or no access token

\* A refresh token is the serial-th of its grant.
Token == [grant : Grants, serial : 0..MaxSerial]

ASSUME OAuthAssumption ==
    /\ Pids = {Provider}
    /\ Secrets = Token
    /\ Rotating \subseteq Grants
    /\ MaxSerial \in Nat
    /\ NoGrant \notin Grants

VARIABLES
    at,        \* where each worker stands in refresh or in a login
    held,      \* the newest refresh token a worker got and has yet to store
    access,    \* OAuthManager.cache: the grant of the access token, fresh or not
    live,      \* at the vendor: the serial it accepts
    latest,    \* history: the grant of the last login that was answered with success
    logins,    \* history: grants already given
    lost,      \* history: grants whose newest token nobody holds any more
    solo,      \* history: no other operation since this login began
    calm,      \* history: no login was overlapped or cut short since a solo one
    leftover   \* history: the access token was there before the last login

managerVars == <<at, held, access, live, latest, logins, lost, solo, calm, leftover>>
oauthVars   == <<storeVars, managerVars>>

-----------------------------------------------------------------------------
Logins == {"set", "device", "cli"}

NoAccess == [grant |-> NoGrant, fresh |-> FALSE]

OAuthInit ==
    /\ Init
    /\ at       = [w \in Workers |-> "idle"]
    /\ held     = [w \in Workers |-> NoKey]
    /\ access   = NoAccess
    /\ live     = [g \in Grants |-> 0]
    /\ latest   = NoGrant
    /\ logins   = {}
    /\ lost     = {}
    /\ solo     = [w \in Workers |-> FALSE]
    /\ calm     = TRUE
    /\ leftover = FALSE

LoginInFlight == \E w \in Workers : at[w] \in Logins
Alone(w)      == detached = {} /\ \A v \in Workers \ {w} : at[v] = "idle"

At(w, label) == at' = [at EXCEPT ![w] = label]

\* The store operation of w has returned.
Returned(w) == pc[w] = "idle"

\* Rotated tokens that go away with their holder.
Lose(gs) == lost' = lost \cup (gs \cap Rotating)

-----------------------------------------------------------------------------
(* OAuthManager::refresh *)

\* access_token finds none in the cache, or one that is about to expire.
StartRefresh(w) ==
    /\ at[w] = "idle"
    /\ ~access.fresh
    /\ At(w, "refresh")
    /\ solo' = [v \in Workers |-> FALSE]
    /\ calm' = (calm /\ ~LoginInFlight)
    /\ UNCHANGED <<storeVars, held, access, live, latest, logins, lost, leftover>>

LoadToken(w) ==
    /\ at[w] = "refresh"
    /\ StartGet(w, Provider)
    /\ At(w, "load")
    /\ UNCHANGED <<held, access, live, latest, logins, lost, solo, calm, leftover>>

\* No stored token, or none that can be read: refresh returns None.
NothingToRefresh(w) ==
    /\ at[w] = "load"
    /\ Returned(w)
    /\ answer[w] \notin Token
    /\ At(w, "idle")
    /\ UNCHANGED <<storeVars, held, access, live, latest, logins, lost, solo, calm, leftover>>

\* The vendor honours the newest token of a grant and may replace it at once.
Accept(w) ==
    LET t == answer[w]
        n == IF t.grant \in Rotating THEN t.serial + 1 ELSE t.serial
    IN
    /\ at[w] = "load"
    /\ Returned(w)
    /\ t \in Token
    /\ t.serial = live[t.grant]
    /\ n <= MaxSerial
    /\ live' = [live EXCEPT ![t.grant] = n]
    /\ held' = [held EXCEPT ![w] = [t EXCEPT !.serial = n]]
    /\ At(w, "accepted")
    /\ UNCHANGED <<storeVars, access, latest, logins, lost, solo, calm, leftover>>

\* The vendor refuses an older token; or the call never reaches it.
Refuse(w) ==
    /\ at[w] = "load"
    /\ Returned(w)
    /\ answer[w] \in Token
    /\ At(w, "idle")
    /\ UNCHANGED <<storeVars, held, access, live, latest, logins, lost, solo, calm, leftover>>

\* Mutation of Respond: the refresh_token of the response is not read.
BugKeepsPostedToken(w) ==
    /\ at[w] = "accepted"
    /\ access' = [grant |-> held[w].grant, fresh |-> TRUE]
    /\ leftover' = FALSE
    /\ StartSet(w, Provider, answer[w])
    /\ At(w, "keep")
    /\ UNCHANGED <<held, live, latest, logins, lost, solo, calm>>

\* The answer arrives: the access token is cached first, then the refresh
\* token is stored.
Respond(w) ==
    /\ at[w] = "accepted"
    /\ access' = [grant |-> held[w].grant, fresh |-> TRUE]
    /\ leftover' = FALSE
    /\ StartSet(w, Provider, held[w])
    /\ At(w, "keep")
    /\ UNCHANGED <<held, live, latest, logins, lost, solo, calm>>

\* The answer is lost or cannot be used after the vendor has rotated.
LoseAnswer(w) ==
    /\ at[w] = "accepted"
    /\ Lose({held[w].grant})
    /\ held' = [held EXCEPT ![w] = NoKey]
    /\ At(w, "idle")
    /\ UNCHANGED <<storeVars, access, live, latest, logins, solo, calm, leftover>>

\* Mutation of FinishRefresh: the token is still held.
BugHoldsOn(w) ==
    /\ at[w] = "keep"
    /\ Returned(w)
    /\ At(w, "idle")
    /\ UNCHANGED <<storeVars, held, access, live, latest, logins, lost, solo, calm, leftover>>

FinishRefresh(w) ==
    /\ at[w] = "keep"
    /\ Returned(w)
    /\ held' = [held EXCEPT ![w] = NoKey]
    /\ At(w, "idle")
    /\ UNCHANGED <<storeVars, access, live, latest, logins, lost, solo, calm, leftover>>

-----------------------------------------------------------------------------
(* Logins: set_refresh_token ("set"; also the end of a popup flow), the last *)
(* poll of a device flow ("device"), setup_oauth_via_cli ("cli")             *)

StartLogin(w, g, how) ==
    LET t == [grant |-> g, serial |-> 0] IN
    /\ at[w] = "idle"
    /\ g \notin logins
    /\ StartSet(w, Provider, t)
    /\ At(w, how)
    /\ held' = [held EXCEPT ![w] = t]
    /\ logins' = logins \cup {g}
    /\ solo' = [v \in Workers |-> v = w /\ Alone(w)]
    /\ calm' = (calm /\ Alone(w))
    /\ UNCHANGED <<access, live, latest, lost, leftover>>

\* The store refused: the login is answered with an error.
LoginFails(w) ==
    /\ at[w] \in Logins
    /\ Returned(w)
    /\ answer[w] = StoreError
    /\ held' = [held EXCEPT ![w] = NoKey]
    /\ At(w, "idle")
    /\ UNCHANGED <<storeVars, access, live, latest, logins, lost, solo, calm, leftover>>

\* Mutation of Stored: the error of the store is not looked at.
BugErrorIgnored(w, how) == at[w] = how /\ Returned(w)

Stored(w, how) == at[w] = how /\ Returned(w) /\ answer[w] # StoreError

\* History of a login that is answered with success.
Succeed(w) ==
    /\ latest' = held[w].grant
    /\ calm' = (calm \/ solo[w])
    /\ held' = [held EXCEPT ![w] = NoKey]
    /\ UNCHANGED <<live, logins, lost, solo>>

\* Mutation of Invalidate: the access token of the last login stays.
BugKeepsAccess(w) ==
    /\ Stored(w, "set")
    /\ Succeed(w)
    /\ At(w, "idle")
    /\ UNCHANGED <<storeVars, access, leftover>>

\* set_refresh_token drops the access token of the previous login.
Invalidate(w) ==
    /\ Stored(w, "set")
    /\ Succeed(w)
    /\ access' = NoAccess
    /\ leftover' = FALSE
    /\ At(w, "idle")
    /\ UNCHANGED storeVars

\* poll_device_flow does not.
DeviceDone(w) ==
    /\ Stored(w, "device")
    /\ Succeed(w)
    /\ leftover' = (access # NoAccess)
    /\ At(w, "idle")
    /\ UNCHANGED <<storeVars, access>>

\* setup_oauth_via_cli goes on to refresh, fresh access token or not.
CliRefresh(w) ==
    /\ Stored(w, "cli")
    /\ Succeed(w)
    /\ leftover' = (access # NoAccess)
    /\ At(w, "refresh")
    /\ UNCHANGED <<storeVars, access>>

-----------------------------------------------------------------------------
(* The store, the clock, dropped handlers and restarts *)

\* A step of the key store.  A refresh whose write fails has lost its token.
StoreProceeds(w) ==
    /\ at[w] # "idle"
    /\ StoreStep(w)
    /\ IF at[w] = "keep" /\ answer'[w] = StoreError
       THEN Lose({held[w].grant})
       ELSE UNCHANGED lost
    /\ UNCHANGED <<at, held, access, live, latest, logins, solo, calm, leftover>>

Expire ==
    /\ access.fresh
    /\ access' = [access EXCEPT !.fresh = FALSE]
    /\ UNCHANGED <<storeVars, at, held, live, latest, logins, lost, solo, calm, leftover>>

\* The handler's client goes away: the request it waits for is abandoned, the
\* statement it handed over is not.
DropHandler(w) ==
    /\ at[w] # "idle"
    /\ IF Returned(w) THEN UNCHANGED storeVars ELSE Drop(w)
    /\ IF at[w] = "accepted" THEN Lose({held[w].grant}) ELSE UNCHANGED lost
    /\ held' = [held EXCEPT ![w] = NoKey]
    /\ At(w, "idle")
    /\ solo' = [solo EXCEPT ![w] = FALSE]
    /\ calm' = (calm /\ at[w] \notin Logins)
    /\ UNCHANGED <<access, live, latest, logins, leftover>>

RunStatement(j) ==
    /\ RunDetached(j)
    /\ IF table'[Provider] = j.row THEN UNCHANGED lost ELSE Lose({j.row.secret.grant})
    /\ UNCHANGED <<at, held, access, live, latest, logins, solo, calm, leftover>>

\* Workers that hold a token that is not in the table yet.
Holders == {w \in Workers : at[w] = "accepted" \/ (at[w] = "keep" /\ pc[w] = "write")}

RestartServer(k) ==
    /\ Restart(k)
    /\ Lose({held[w].grant : w \in Holders} \cup {j.row.secret.grant : j \in detached})
    /\ at' = [w \in Workers |-> "idle"]
    /\ held' = [w \in Workers |-> NoKey]
    /\ access' = NoAccess
    /\ leftover' = FALSE
    /\ solo' = [w \in Workers |-> FALSE]
    /\ calm' = (calm /\ ~LoginInFlight)
    /\ UNCHANGED <<live, latest, logins>>

RefreshStep(w) ==
    \/ StartRefresh(w) \/ LoadToken(w) \/ NothingToRefresh(w) \/ Accept(w) \/ Refuse(w)
    \/ Respond(w) \/ LoseAnswer(w) \/ FinishRefresh(w)

LoginStep(w) ==
    \/ LoginFails(w) \/ Invalidate(w) \/ DeviceDone(w) \/ CliRefresh(w)

OAuthNext ==
    \/ \E w \in Workers, g \in Grants, how \in Logins : StartLogin(w, g, how)
    \/ \E w \in Workers : RefreshStep(w) \/ LoginStep(w) \/ StoreProceeds(w) \/ DropHandler(w)
    \/ \E j \in detached : RunStatement(j)
    \/ \E k \in Masters : RestartServer(k)
    \/ Expire

OAuthSpec == OAuthInit /\ [][OAuthNext]_oauthVars

-----------------------------------------------------------------------------
\* The store has its types, and a worker holds a token exactly while it has
\* one to store (OAuthManager, oauth/mod.rs).
OAuthTypeOK ==
    /\ TypeOK
    /\ at \in [Workers -> {"idle", "refresh", "load", "accepted", "keep"} \cup Logins]
    /\ held \in [Workers -> Token \cup {NoKey}]
    /\ \A w \in Workers : IF at[w] \in {"accepted", "keep"} \cup Logins
                          THEN held[w] \in Token ELSE held[w] = NoKey
    /\ access \in [grant : Grants \cup {NoGrant}, fresh : BOOLEAN]
    /\ live \in [Grants -> 0..MaxSerial]
    /\ latest \in Grants \cup {NoGrant}
    /\ logins \subseteq Grants
    /\ lost \subseteq Rotating
    /\ solo \in [Workers -> BOOLEAN]
    /\ calm \in BOOLEAN
    /\ leftover \in BOOLEAN

Honoured(t) == t.serial = live[t.grant]

\* However refreshes and logins overlap, the refresh token in the table is one
\* the vendor still honours, or somebody holds its successor, unless the
\* successor was lost on the way: an answer that never came, a failed write, a
\* handler dropped or a crash after the vendor rotated (refresh, oauth/mod.rs:
\* the vendor acts before the new token is stored).
RotationNotLost ==
    LET t == table[Provider].secret IN
    table[Provider] # NoRow /\ t.grant \notin lost =>
        \/ Honoured(t)
        \/ \E w \in Holders : held[w].grant = t.grant /\ Honoured(held[w])
        \/ \E j \in detached : j.row.secret.grant = t.grant /\ Honoured(j.row.secret)

\* With nothing in flight, the token the next refresh will post, from the cache
\* of the key store or from its table, is honoured, unless it was lost or a
\* write of it was disturbed (refresh, oauth/mod.rs, with get, keystore.rs).
NextRefreshIsHonoured ==
    LET row  == table[Provider]
        next == IF cache[Provider] = NoKey THEN row.secret ELSE cache[Provider]
    IN
    /\ detached = {}
    /\ \A w \in Workers : at[w] = "idle"
    /\ clean[Provider]
    /\ row # NoRow
    /\ row.secret.grant \notin lost
    => Honoured(next)

\* After a login that nothing overlapped and that was not cut short, no refresh,
\* finished, dropped or under way, puts the tokens of an earlier login back
\* (refresh stores what it got for the token it read some time before).
NewestLoginKept ==
    calm /\ ~LoginInFlight /\ table[Provider] # NoRow =>
        table[Provider].secret.grant = latest

\* Nor is an access token of an earlier login handed out, except one that a
\* device or command line login has left in the cache (access_token; the
\* invalidation in set_refresh_token, oauth/mod.rs:184-186).
AccessIsOfNewestLogin ==
    calm /\ ~LoginInFlight /\ ~leftover => access.grant \in {latest, NoGrant}
=============================================================================
