----------------------------- MODULE OAuthFlows -----------------------------
(***************************************************************************)
(* The authorization flows of src/src/oauth/mod.rs: popup (authorization   *)
(* code), device code and pasted code.  A flow is known by its state       *)
(* string or its device code, which are never used twice; what the server  *)
(* remembers of it is four maps in memory, each behind a lock of its own,  *)
(* that nothing empties but the flow itself and a restart.  What becomes   *)
(* of a stored token is the subject of OAuthRefresh: here the store is one *)
(* step.                                                                   *)
(***************************************************************************)
EXTENDS Naturals, FiniteSets

CONSTANTS
    Workers,        \* calls in flight
    Flows,          \* flows ever started
    Popup,          \* providers with an authorize_url
    Paste,          \* providers whose user carries the code over by hand
    Device,         \* providers with a device_code_url
    Fixed,          \* popup providers whose vendor knows one redirect URI only
    Registering,    \* device providers that register a client for every flow
    Proving,        \* device providers that ask for a code verifier
    Redirects,      \* redirect URIs a configuration or a caller may name
    FixedRedirect,  \* redirect_uri of the manifest
    MaxFaults,      \* bound: calls cut short and restarts
    Nothing

Providers == Popup \cup Paste \cup Device

ASSUME FlowsAssumption ==
    /\ Popup \cap Paste = {} /\ Device \cap (Popup \cup Paste) = {}
    /\ Fixed \subseteq Popup
    /\ Registering \subseteq Device /\ Proving \subseteq Device
    /\ FixedRedirect \notin Redirects /\ Nothing \notin Redirects \cup {FixedRedirect}
    /\ Nothing \notin Flows
    /\ Nothing \notin [provider : Providers, redirect : Redirects \cup {FixedRedirect, Nothing}]
    /\ Nothing \notin [flow : Flows, client : BOOLEAN]
    /\ MaxFaults \in Nat

VARIABLES
    states,     \* OAuthManager.states: popup flows waiting for their callback
    verifiers,  \* pkce_verifiers: flows whose verifier is kept
    devices,    \* devices: device flows that can be polled
    clients,    \* device_clients: flows whose registered client is kept
    redirect,   \* the redirect URI of the configuration
    job,        \* what the handler of each call knows and does next
    stored,     \* the key store: the flow of each refresh token, and if its client came along
    started,    \* at the vendor: the provider and redirect URI a flow was started with
    consent,    \* at the vendor: what became of the user's consent
    faults,     \* how often something failed
    exchanges,  \* history: how often the code of a popup flow was posted
    kept,       \* history: flows whose token was stored
    lost        \* history: device flows a restart or a lost answer has ended

maps      == <<states, verifiers, devices, clients>>
vendor    == <<started, consent>>
history   == <<exchanges, kept, lost>>
flowsVars == <<maps, redirect, job, stored, vendor, faults, history>>

-----------------------------------------------------------------------------
Idle == [at |-> "idle", flow |-> Nothing, provider |-> Nothing,
         redirect |-> Nothing, verifier |-> FALSE, client |-> FALSE]

\* A handler at work on flow f of provider p.
Work(at, f, p, r, v) == [Idle EXCEPT !.at = at, !.flow = f, !.provider = p,
                                     !.redirect = r, !.verifier = v]

Init ==
    /\ states = {} /\ verifiers = {} /\ devices = {} /\ clients = {}
    /\ redirect  \in Redirects
    /\ job       = [w \in Workers |-> Idle]
    /\ stored    = [p \in Providers |-> Nothing]
    /\ started   = [f \in Flows |-> Nothing]
    /\ consent   = [f \in Flows |-> "none"]
    /\ faults    = 0
    /\ exchanges = [f \in Flows |-> 0]
    /\ kept      = {}
    /\ lost      = {}

Goes(w, at) == job' = [job EXCEPT ![w].at = at]
Ends(w)     == job' = [job EXCEPT ![w] = Idle]

\* The vendor hears of a new flow.
Announce(f, p, r) ==
    /\ started[f] = Nothing
    /\ started' = [started EXCEPT ![f] = [provider |-> p, redirect |-> r]]
    /\ consent' = [consent EXCEPT ![f] = "open"]

EffectiveRedirect(p, r) == IF p \in Fixed THEN FixedRedirect ELSE r

-----------------------------------------------------------------------------
(* Starting a flow.  The state string or device code is in nobody's hands   *)
(* before the maps are filled, and a start that fails fills none.           *)

\* start_oauth, start_popup_oauth: the redirect URI is the caller's, or else
\* the configuration's.
StartPopup(f, p, r) ==
    /\ Announce(f, p, EffectiveRedirect(p, r))
    /\ states' = states \cup {f}
    /\ verifiers' = verifiers \cup {f}
    /\ UNCHANGED <<devices, clients, redirect, job, stored, faults, history>>

\* start_device_flow.
StartDevice(f, p) ==
    /\ Announce(f, p, Nothing)
    /\ devices' = devices \cup {f}
    /\ verifiers' = IF p \in Proving THEN verifiers \cup {f} ELSE verifiers
    /\ clients' = IF p \in Registering THEN clients \cup {f} ELSE clients
    /\ UNCHANGED <<states, redirect, job, stored, faults, history>>

\* The code of a paste flow comes from a page the server has no part in; its
\* state is the verifier.
StartPaste(f, p) ==
    /\ Announce(f, p, Nothing)
    /\ UNCHANGED <<maps, redirect, job, stored, faults, history>>

\* The user agrees, or refuses or lets the flow expire.
Decide(f) ==
    /\ consent[f] = "open"
    /\ \E c \in {"approved", "denied"} : consent' = [consent EXCEPT ![f] = c]
    /\ UNCHANGED <<maps, redirect, job, stored, started, faults, history>>

-----------------------------------------------------------------------------
(* complete_popup_oauth, paste_anthropic_code *)

\* Mutation of TakeState: the state is looked up and stays.
BugStateStays(f) == f \in states /\ UNCHANGED states

TakeState(f) == f \in states /\ states' = states \ {f}

\* The callback of provider p is called with the state of flow f, once the user
\* has answered or before.  A state of another provider is used up all the same.
Callback(w, f, p) ==
    /\ job[w] = Idle
    /\ TakeState(f)
    /\ IF started[f].provider = p
       THEN job' = [job EXCEPT ![w] =
                Work("callback", f, p, EffectiveRedirect(p, redirect), FALSE)]
       ELSE UNCHANGED job
    /\ UNCHANGED <<verifiers, devices, clients, redirect, stored, vendor, faults, history>>

\* The verifier goes with the code.
TakeVerifier(w) ==
    LET f == job[w].flow IN
    /\ job[w].at = "callback"
    /\ job' = [job EXCEPT ![w].at = "exchange", ![w].verifier = f \in verifiers]
    /\ verifiers' = verifiers \ {f}
    /\ exchanges' = [exchanges EXCEPT ![f] = @ + 1]
    /\ UNCHANGED <<states, devices, clients, redirect, stored, vendor, faults, kept, lost>>

\* A code is pasted, with its state or without, as often as the user likes.
PasteCode(w, f, p, whole) ==
    /\ job[w] = Idle
    /\ started[f] # Nothing
    /\ started[f].provider \in Paste
    /\ job' = [job EXCEPT ![w] = Work("exchange", f, p, Nothing, whole)]
    /\ UNCHANGED <<maps, redirect, stored, vendor, faults, history>>

\* set_refresh_token.
Keep(w) ==
    LET j == job[w] IN
    /\ j.at = "granted"
    /\ j.provider \notin Device
    /\ stored' = [stored EXCEPT ![j.provider] = [flow |-> j.flow, client |-> FALSE]]
    /\ kept' = kept \cup {j.flow}
    /\ Ends(w)
    /\ UNCHANGED <<maps, redirect, vendor, faults, exchanges, lost>>

-----------------------------------------------------------------------------
(* poll_device_flow *)

Poll(w, f) ==
    /\ job[w] = Idle
    /\ f \in devices
    /\ job' = [job EXCEPT ![w] = Work("poll", f, started[f].provider, Nothing, FALSE)]
    /\ UNCHANGED <<maps, redirect, stored, vendor, faults, history>>

\* The client is looked up under a lock of its own, and the verifier of a
\* proving provider is taken out whatever the answer will be.
LoadClient(w) ==
    LET f == job[w].flow IN
    /\ job[w].at = "poll"
    /\ job' = [job EXCEPT ![w].at = "polling",
                          ![w].client = f \in clients,
                          ![w].verifier = job[w].provider \in Proving /\ f \in verifiers]
    /\ verifiers' = IF job[w].provider \in Proving THEN verifiers \ {f} ELSE verifiers
    /\ UNCHANGED <<states, devices, clients, redirect, stored, vendor, faults, history>>

\* Mutation of Pending: a flow the user has not answered is given up.
BugPendingForgets(w) ==
    /\ job[w].at = "polling"
    /\ consent[job[w].flow] = "open"
    /\ Goes(w, "forget")
    /\ UNCHANGED <<maps, redirect, stored, vendor, faults, history>>

\* authorization_pending, slow_down.
Pending(w) ==
    /\ job[w].at = "polling"
    /\ consent[job[w].flow] = "open"
    /\ Ends(w)
    /\ UNCHANGED <<maps, redirect, stored, vendor, faults, history>>

\* expired_token, access_denied.
Rejected(w) ==
    /\ job[w].at = "polling"
    /\ consent[job[w].flow] = "denied"
    /\ Goes(w, "forget")
    /\ UNCHANGED <<maps, redirect, stored, vendor, faults, history>>

\* Mutation of KeepDevice: the registered client is not stored with the token.
BugClientLeftOut(w) ==
    LET j == job[w] IN
    /\ j.at = "granted"
    /\ j.provider \in Device
    /\ stored' = [stored EXCEPT ![j.provider] = [flow |-> j.flow, client |-> FALSE]]
    /\ kept' = kept \cup {j.flow}
    /\ Goes(w, "forget")
    /\ UNCHANGED <<maps, redirect, vendor, faults, exchanges, lost>>

\* The token is stored with the client that can refresh it, then the flow goes.
KeepDevice(w) ==
    LET j == job[w] IN
    /\ j.at = "granted"
    /\ j.provider \in Device
    /\ stored' = [stored EXCEPT ![j.provider] = [flow |-> j.flow, client |-> j.client]]
    /\ kept' = kept \cup {j.flow}
    /\ Goes(w, "forget")
    /\ UNCHANGED <<maps, redirect, vendor, faults, exchanges, lost>>

ForgetDevice(w) ==
    /\ job[w].at = "forget"
    /\ devices' = devices \ {job[w].flow}
    /\ Goes(w, "forget client")
    /\ UNCHANGED <<states, verifiers, clients, redirect, stored, vendor, faults, history>>

ForgetClient(w) ==
    /\ job[w].at = "forget client"
    /\ clients' = clients \ {job[w].flow}
    /\ Ends(w)
    /\ UNCHANGED <<states, verifiers, devices, redirect, stored, vendor, faults, history>>

-----------------------------------------------------------------------------
(* The vendor, failures, reloads and restarts *)

\* A vendor answers a code or a device code once, to the client it was issued
\* to, against the verifier and the redirect URI it was asked for with.
Grants(j) ==
    LET s == started[j.flow] IN
    /\ consent[j.flow] = "approved"
    /\ s.provider = j.provider
    /\ s.redirect = j.redirect
    /\ j.client = (j.provider \in Registering)
    /\ j.provider \in Device \ Proving \/ j.verifier

Grant(w) ==
    /\ job[w].at \in {"exchange", "polling"}
    /\ Grants(job[w])
    /\ consent' = [consent EXCEPT ![job[w].flow] = "spent"]
    /\ Goes(w, "granted")
    /\ UNCHANGED <<maps, redirect, stored, started, faults, history>>

\* Any other error: the call fails and the maps stay as they are.
Refuse(w) ==
    /\ \/ job[w].at = "exchange"
       \/ job[w].at = "polling" /\ consent[job[w].flow] \in {"approved", "spent"}
    /\ ~Grants(job[w])
    /\ Ends(w)
    /\ UNCHANGED <<maps, redirect, stored, vendor, faults, history>>

\* A call that never reaches the vendor, an answer that never arrives or cannot
\* be used, a store that fails, a caller that goes away.
GiveUp(w) ==
    /\ job[w] # Idle
    /\ faults < MaxFaults
    /\ faults' = faults + 1
    /\ lost' = IF job[w].at = "granted" THEN lost \cup {job[w].flow} ELSE lost
    /\ Ends(w)
    /\ UNCHANGED <<maps, redirect, stored, vendor, exchanges, kept>>

Reload ==
    /\ \E r \in Redirects \ {redirect} : redirect' = r
    /\ UNCHANGED <<maps, job, stored, vendor, faults, history>>

\* Nothing of a flow survives the process.
Restart ==
    /\ faults < MaxFaults
    /\ faults' = faults + 1
    /\ states' = {} /\ verifiers' = {} /\ devices' = {} /\ clients' = {}
    /\ job' = [w \in Workers |-> Idle]
    /\ lost' = lost \cup devices
    /\ UNCHANGED <<redirect, stored, vendor, exchanges, kept>>

-----------------------------------------------------------------------------
\* What a handler, or the vendor it waits for, does without being asked.
Proceed(w) ==
    \/ TakeVerifier(w) \/ Keep(w) \/ LoadClient(w) \/ Pending(w) \/ Rejected(w)
    \/ KeepDevice(w) \/ ForgetDevice(w) \/ ForgetClient(w) \/ Grant(w) \/ Refuse(w)

Start(f) ==
    \/ \E p \in Popup, r \in Redirects : StartPopup(f, p, r)
    \/ \E p \in Device : StartDevice(f, p)
    \/ \E p \in Paste : StartPaste(f, p)

Next ==
    \/ \E f \in Flows : Start(f) \/ Decide(f)
    \/ \E w \in Workers, f \in Flows :
          \/ \E p \in Popup : Callback(w, f, p)
          \/ \E p \in Paste, whole \in BOOLEAN : PasteCode(w, f, p, whole)
          \/ Poll(w, f)
    \/ \E w \in Workers : Proceed(w) \/ GiveUp(w)
    \/ Reload
    \/ Restart

\* Handlers go on and vendors answer.  Whoever shows the user a device code
\* polls on, and gets through again and again although a worker is taken now
\* and then.
Fairness ==
    /\ \A w \in Workers : WF_flowsVars(Proceed(w))
    /\ \A f \in Flows : SF_flowsVars(\E w \in Workers : Poll(w, f))

FlowsSpec == Init /\ [][Next]_flowsVars /\ Fairness

-----------------------------------------------------------------------------
\* A flow yields what it was started for, and once: however callbacks, polls
\* and restarts overlap, the code of a popup flow is posted at most once
\* (complete_popup_oauth, "Idempotent on state"), a refresh token is stored for
\* the provider its flow was started with, and the token of a registering
\* provider always has its client with it, without which it can never be
\* refreshed (poll_device_flow reads the client after the device, and a poll
\* that finishes removes both).
FlowsYieldTheirOwn ==
    /\ \A f \in Flows : exchanges[f] <= 1
    /\ \A p \in Providers : stored[p] # Nothing =>
          /\ started[stored[p].flow].provider = p
          /\ stored[p].client = (p \in Registering)

\* A device flow the user has approved is stored in the end while its client
\* polls on, whatever failed in between, unless a restart or an answer lost
\* after the vendor gave it has ended the flow (poll_device_flow).  Providers
\* that ask for a verifier are left out: the first poll takes the verifier with
\* it, and one answered "pending" leaves none for the next (oauth/mod.rs:825).
ApprovedDeviceIsStored ==
    \A f \in Flows :
        (f \in devices /\ consent[f] = "approved" /\ started[f].provider \notin Proving)
            ~> (f \in kept \cup lost)
=============================================================================
