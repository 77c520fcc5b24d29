-------------------------- MODULE OAuthFlowsProofs --------------------------
(***************************************************************************)
(* Proofs about OAuthFlows, for any providers and any number of flows and  *)
(* of calls in flight.  FlowsYieldTheirOwn is not inductive: that a code   *)
(* is posted once rests on the state of a flow being in one place only,    *)
(* the map or the hands of one callback; that a token is stored with what  *)
(* belongs to it rests on what the vendor has checked when it granted it.  *)
(***************************************************************************)
EXTENDS OAuthFlows, TLAPS

Places == {"idle", "callback", "exchange", "poll", "polling", "granted", "forget", "forget client"}

RedirectsKnown == Redirects \cup {FixedRedirect, Nothing}

Jobs == [at : Places, flow : Flows \cup {Nothing}, provider : Providers \cup {Nothing},
         redirect : RedirectsKnown, verifier : BOOLEAN, client : BOOLEAN]

Starts == [provider : Providers, redirect : RedirectsKnown]

Entries == [flow : Flows, client : BOOLEAN]

\* Every variable has its type, and calls at work are at work on a flow that
\* was started: the maps of OAuthManager and the locals of its handlers.
FlowsTypeOK ==
    /\ states \subseteq Flows /\ verifiers \subseteq Flows
    /\ devices \subseteq Flows /\ clients \subseteq Flows
    /\ redirect \in Redirects
    /\ job \in [Workers -> Jobs]
    /\ stored \in [Providers -> Entries \cup {Nothing}]
    /\ started \in [Flows -> Starts \cup {Nothing}]
    /\ consent \in [Flows -> {"none", "open", "approved", "denied", "spent"}]
    /\ faults \in 0..MaxFaults
    /\ exchanges \in [Flows -> Nat]
    /\ kept \subseteq Flows /\ lost \subseteq Flows

AtWork(w) == job[w].at # "idle"

\* Nothing is known of a flow before it starts.
WorkIsOnFlows ==
    /\ \A f \in states \cup devices : started[f] # Nothing
    /\ \A w \in Workers : AtWork(w) => /\ job[w].flow \in Flows
                                       /\ started[job[w].flow] # Nothing
                                       /\ job[w].provider \in Providers
    /\ \A p \in Providers : stored[p] # Nothing => started[stored[p].flow] # Nothing

\* The state of a popup flow is in the map, or with the one callback that took
\* it out, or its code was posted.
StateInOnePlace ==
    /\ \A f \in Flows : started[f] = Nothing => exchanges[f] = 0
    /\ \A f \in states : exchanges[f] = 0
    /\ \A w \in Workers : job[w].at = "callback" =>
           /\ job[w].flow \notin states
           /\ exchanges[job[w].flow] = 0
           /\ \A v \in Workers :
                  job[v].at = "callback" /\ job[v].flow = job[w].flow => v = w
    /\ \A f \in Flows : exchanges[f] <= 1

\* What the vendor granted, it granted to the provider the flow was started
\* with and to the client it knows.
GrantsChecked ==
    /\ \A w \in Workers : job[w].at = "granted" =>
           /\ started[job[w].flow].provider = job[w].provider
           /\ job[w].client = (job[w].provider \in Registering)
    /\ \A p \in Providers : stored[p] # Nothing =>
           /\ started[stored[p].flow].provider = p
           /\ stored[p].client = (p \in Registering)

FlowsInv == FlowsTypeOK /\ WorkIsOnFlows /\ StateInOnePlace /\ GrantsChecked

-----------------------------------------------------------------------------
(* Types *)

LEMMA PlacesAre ==
    /\ "callback" \in Places /\ "exchange" \in Places /\ "poll" \in Places /\ "polling" \in Places
    /\ TRUE \in BOOLEAN /\ FALSE \in BOOLEAN
  BY DEF Places

LEMMA IdleIsJob == Idle \in Jobs /\ Idle.at = "idle"
  BY DEF Idle, Jobs, Places, RedirectsKnown

LEMMA WorkIsJob ==
    ASSUME NEW at \in Places, NEW f \in Flows, NEW p \in Providers,
           NEW r \in RedirectsKnown, NEW v \in BOOLEAN
    PROVE  /\ Work(at, f, p, r, v) \in Jobs
           /\ Work(at, f, p, r, v).at = at /\ Work(at, f, p, r, v).flow = f
           /\ Work(at, f, p, r, v).provider = p
  BY DEF Work, Idle, Jobs

LEMMA FieldsType ==
    ASSUME NEW j \in Jobs, NEW at \in Places, NEW v \in BOOLEAN, NEW c \in BOOLEAN
    PROVE  /\ [j EXCEPT !.at = at, !.verifier = v] \in Jobs
           /\ [j EXCEPT !.at = at, !.verifier = v].at = at
           /\ [j EXCEPT !.at = at, !.verifier = v].flow = j.flow
           /\ [j EXCEPT !.at = at, !.verifier = v].provider = j.provider
           /\ [j EXCEPT !.at = at, !.client = c, !.verifier = v] \in Jobs
           /\ [j EXCEPT !.at = at, !.client = c, !.verifier = v].at = at
           /\ [j EXCEPT !.at = at, !.client = c, !.verifier = v].flow = j.flow
           /\ [j EXCEPT !.at = at, !.client = c, !.verifier = v].provider = j.provider
  BY DEF Jobs

LEMMA NothingApart ==
    /\ \A e \in Entries : e # Nothing
    /\ \A s \in Starts : s # Nothing
    /\ \A f \in Flows : f # Nothing
  BY FlowsAssumption DEF Entries, Starts, RedirectsKnown

LEMMA FlowsTypeInit == Init => FlowsTypeOK
  BY IdleIsJob, FlowsAssumption DEF Init, FlowsTypeOK

LEMMA GoesType ==
    ASSUME FlowsTypeOK, NEW w \in Workers, NEW at \in Places, Goes(w, at)
    PROVE  /\ job' \in [Workers -> Jobs]
           /\ job' = [job EXCEPT ![w] = job'[w]]
           /\ job'[w] = [job[w] EXCEPT !.at = at]
           /\ job'[w].at = at /\ job'[w].flow = job[w].flow
           /\ job'[w].provider = job[w].provider /\ job'[w].client = job[w].client
<1>1. job[w] \in Jobs
  BY DEF FlowsTypeOK
<1>2. [job[w] EXCEPT !.at = at] \in Jobs
  BY <1>1 DEF Jobs
<1>3. job' = [job EXCEPT ![w] = [job[w] EXCEPT !.at = at]]
  BY DEF Goes
<1>4. job'[w] = [job[w] EXCEPT !.at = at] /\ job' \in [Workers -> Jobs]
  BY <1>2, <1>3 DEF FlowsTypeOK
<1>5. job' = [job EXCEPT ![w] = job'[w]]
  BY <1>3, <1>4
<1> QED
  BY <1>1, <1>4, <1>5 DEF Jobs

\* The lookups of two handlers write a job's fields one by one.
LEMMA LooksUp ==
    ASSUME FlowsTypeOK, NEW w \in Workers, TakeVerifier(w) \/ LoadClient(w)
    PROVE  \E new \in Jobs :
               /\ job' = [job EXCEPT ![w] = new]
               /\ new.at \in {"exchange", "polling"}
               /\ new.flow = job[w].flow /\ new.provider = job[w].provider
<1>1. job[w] \in Jobs
  BY DEF FlowsTypeOK
<1> DEFINE v == job[w].flow \in verifiers
           c == job[w].flow \in clients
           p == job[w].provider \in Proving /\ job[w].flow \in verifiers
<1>2. v \in BOOLEAN /\ c \in BOOLEAN /\ p \in BOOLEAN
  OBVIOUS
<1>3. CASE TakeVerifier(w)
  <2>1. job' = [job EXCEPT ![w].at = "exchange", ![w].verifier = v]
    BY <1>3 DEF TakeVerifier
  <2> HIDE DEF v
  <2> DEFINE new == [job[w] EXCEPT !.at = "exchange", !.verifier = v]
  <2>2. job' = [job EXCEPT ![w] = new]
    BY <2>1
  <2>3. /\ new \in Jobs /\ new.at = "exchange"
        /\ new.flow = job[w].flow /\ new.provider = job[w].provider
    BY <1>1, <1>2 DEF Jobs, Places
  <2> QED
    BY <2>2, <2>3
<1>4. CASE LoadClient(w)
  <2>1. job' = [job EXCEPT ![w].at = "polling", ![w].client = c, ![w].verifier = p]
    BY <1>4 DEF LoadClient
  <2> HIDE DEF c, p
  <2> DEFINE new == [job[w] EXCEPT !.at = "polling", !.client = c, !.verifier = p]
  <2>2. job' = [job EXCEPT ![w] = new]
    BY <2>1
  <2>3. /\ new \in Jobs /\ new.at = "polling"
        /\ new.flow = job[w].flow /\ new.provider = job[w].provider
    BY <1>1, <1>2 DEF Jobs, Places
  <2> QED
    BY <2>2, <2>3
<1> QED
  BY <1>3, <1>4

LEMMA FlowsTypeStart ==
    ASSUME FlowsTypeOK, NEW f \in Flows, Start(f)
    PROVE  FlowsTypeOK'
<1> USE DEF FlowsTypeOK
<1>1. ASSUME NEW p \in Popup, NEW r \in Redirects, StartPopup(f, p, r)
      PROVE  FlowsTypeOK'
  <2>1. [provider |-> p, redirect |-> EffectiveRedirect(p, r)] \in Starts
    BY DEF Starts, RedirectsKnown, EffectiveRedirect, Providers
  <2> QED
    BY <1>1, <2>1 DEF StartPopup, Announce, history
<1>2. ASSUME NEW p \in Device, StartDevice(f, p)
      PROVE  FlowsTypeOK'
  <2>1. [provider |-> p, redirect |-> Nothing] \in Starts
    BY DEF Starts, RedirectsKnown, Providers
  <2> QED
    BY <1>2, <2>1 DEF StartDevice, Announce, history
<1>3. ASSUME NEW p \in Paste, StartPaste(f, p)
      PROVE  FlowsTypeOK'
  <2>1. [provider |-> p, redirect |-> Nothing] \in Starts
    BY DEF Starts, RedirectsKnown, Providers
  <2> QED
    BY <1>3, <2>1 DEF StartPaste, Announce, history, maps
<1> QED
  BY <1>1, <1>2, <1>3 DEF Start

LEMMA FlowsTypeBegin ==
    ASSUME FlowsTypeOK, WorkIsOnFlows, NEW w \in Workers, NEW f \in Flows,
           \/ \E p \in Popup : Callback(w, f, p)
           \/ \E p \in Paste, whole \in BOOLEAN : PasteCode(w, f, p, whole)
           \/ Poll(w, f)
    PROVE  FlowsTypeOK'
<1> USE DEF FlowsTypeOK
<1>1. ASSUME NEW p \in Popup, Callback(w, f, p)
      PROVE  FlowsTypeOK'
  <2>1. Work("callback", f, p, EffectiveRedirect(p, redirect), FALSE) \in Jobs
    <3>1. EffectiveRedirect(p, redirect) \in RedirectsKnown /\ p \in Providers
      BY DEF EffectiveRedirect, RedirectsKnown, Providers
    <3> QED
      BY <3>1, WorkIsJob DEF Places
  <2> HIDE DEF Jobs
  <2>2. job' \in [Workers -> Jobs]
    BY <1>1, <2>1 DEF Callback
  <2> QED
    BY <1>1, <2>2 DEF Callback, TakeState, vendor, history
<1>2. ASSUME NEW p \in Paste, NEW whole \in BOOLEAN, PasteCode(w, f, p, whole)
      PROVE  FlowsTypeOK'
  <2>1. Work("exchange", f, p, Nothing, whole) \in Jobs
    BY WorkIsJob DEF Places, RedirectsKnown, Providers
  <2> QED
    BY <1>2, <2>1 DEF PasteCode, maps, vendor, history
<1>3. CASE Poll(w, f)
  <2>1. started[f].provider \in Providers
    BY <1>3 DEF Poll, WorkIsOnFlows, Starts
  <2>2. Work("poll", f, started[f].provider, Nothing, FALSE) \in Jobs
    BY <2>1, WorkIsJob DEF Places, RedirectsKnown
  <2> QED
    BY <1>3, <2>2 DEF Poll, maps, vendor, history
<1> QED
  BY <1>1, <1>2, <1>3

LEMMA FlowsTypeProceed ==
    ASSUME FlowsTypeOK, WorkIsOnFlows, NEW w \in Workers, Proceed(w) \/ GiveUp(w)
    PROVE  FlowsTypeOK'
<1> USE DEF FlowsTypeOK
<1>0. job[w] \in Jobs /\ (AtWork(w) => job[w].flow \in Flows /\ job[w].provider \in Providers)
  BY DEF WorkIsOnFlows
<1>1. CASE TakeVerifier(w)
  <2>3. exchanges' \in [Flows -> Nat]
    BY <1>0, <1>1 DEF TakeVerifier, AtWork
  <2>4. job' \in [Workers -> Jobs]
    BY <1>1, LooksUp
  <2> QED
    BY <1>1, <2>3, <2>4 DEF TakeVerifier, vendor
<1>2. CASE LoadClient(w)
  <2>3. job' \in [Workers -> Jobs]
    BY <1>2, LooksUp
  <2> QED
    BY <1>2, <2>3 DEF LoadClient, vendor, history
<1>3. CASE Keep(w) \/ KeepDevice(w)
  <2>1. AtWork(w)
    BY <1>3 DEF Keep, KeepDevice, AtWork
  <2>2. [flow |-> job[w].flow, client |-> FALSE] \in Entries
        /\ [flow |-> job[w].flow, client |-> job[w].client] \in Entries
    BY <1>0, <2>1 DEF Entries, Jobs
  <2>3. stored' \in [Providers -> Entries \cup {Nothing}] /\ kept' \subseteq Flows
    BY <1>0, <1>3, <2>1, <2>2 DEF Keep, KeepDevice
  <2>4. job' \in [Workers -> Jobs]
    <3>1. Ends(w) \/ Goes(w, "forget")
      BY <1>3 DEF Keep, KeepDevice
    <3> QED
      BY <3>1, IdleIsJob, GoesType DEF Ends, Places
  <2> QED
    BY <1>3, <2>3, <2>4 DEF Keep, KeepDevice, maps, vendor
<1>4. CASE Pending(w) \/ Rejected(w) \/ Refuse(w)
  <2>1. job' \in [Workers -> Jobs]
    BY <1>4, IdleIsJob, GoesType DEF Pending, Rejected, Refuse, Ends, Places
  <2> QED
    BY <1>4, <2>1 DEF Pending, Rejected, Refuse, maps, vendor, history
<1>5. CASE ForgetDevice(w) \/ ForgetClient(w)
  <2>1. job' \in [Workers -> Jobs]
    <3>1. Ends(w) \/ Goes(w, "forget client")
      BY <1>5 DEF ForgetDevice, ForgetClient
    <3> QED
      BY <3>1, IdleIsJob, GoesType DEF Ends, Places
  <2> QED
    BY <1>5, <2>1 DEF ForgetDevice, ForgetClient, vendor, history
<1>6. CASE Grant(w)
  <2>1. job' \in [Workers -> Jobs]
    BY <1>6, GoesType DEF Grant, Places
  <2> QED
    BY <1>6, <2>1 DEF Grant, maps, history
<1>7. CASE GiveUp(w)
  <2>1. job' \in [Workers -> Jobs]
    BY <1>7, IdleIsJob DEF GiveUp, Ends
  <2>2. lost' \subseteq Flows
    BY <1>0, <1>7 DEF GiveUp, AtWork
  <2>3. faults' \in 0..MaxFaults
    BY <1>7, FlowsAssumption DEF GiveUp
  <2> QED
    BY <1>7, <2>1, <2>2, <2>3 DEF GiveUp, maps, vendor
<1> QED
  BY <1>1, <1>2, <1>3, <1>4, <1>5, <1>6, <1>7 DEF Proceed

LEMMA FlowsTypeStep == FlowsInv /\ [Next]_flowsVars => FlowsTypeOK'
<1> SUFFICES ASSUME FlowsInv, [Next]_flowsVars PROVE FlowsTypeOK'
  OBVIOUS
<1>t. FlowsTypeOK /\ WorkIsOnFlows
  BY DEF FlowsInv
<1>1. ASSUME NEW f \in Flows, Decide(f)
      PROVE  FlowsTypeOK'
  BY <1>t, <1>1 DEF FlowsTypeOK, Decide, maps, history
<1>2. CASE Reload
  BY <1>t, <1>2 DEF FlowsTypeOK, Reload, maps, vendor, history
<1>3. CASE Restart
  BY <1>t, <1>3, IdleIsJob, FlowsAssumption DEF FlowsTypeOK, Restart, vendor
<1>4. CASE UNCHANGED flowsVars
  BY <1>t, <1>4 DEF FlowsTypeOK, flowsVars, maps, vendor, history
<1> QED
  BY <1>t, <1>1, <1>2, <1>3, <1>4, FlowsTypeStart, FlowsTypeBegin, FlowsTypeProceed DEF Next

-----------------------------------------------------------------------------
(* What a step does to the calls *)

\* A call that is at work after a step was at work on its flow before, or has
\* begun in this step.
LEMMA JobsMove ==
    ASSUME FlowsInv, [Next]_flowsVars, NEW w \in Workers, job'[w] # job[w], job'[w].at # "idle"
    PROVE  /\ job'[w].flow \in Flows /\ started[job'[w].flow] # Nothing
           /\ job'[w].provider \in Providers
           /\ \/ AtWork(w) /\ job'[w].flow = job[w].flow /\ job'[w].provider = job[w].provider
              \/ job[w] = Idle /\ job'[w].at \in {"callback", "exchange", "poll"}
           /\ job'[w].at = "callback" =>
                  /\ job'[w].flow \in states /\ states' = states \ {job'[w].flow}
           /\ job'[w].at = "granted" => Grant(w)
           /\ \A v \in Workers \ {w} : job'[v] = job[v]
<1>t. /\ FlowsTypeOK /\ WorkIsOnFlows
      /\ job \in [Workers -> Jobs] /\ job[w] \in Jobs
      /\ AtWork(w) => /\ job[w].flow \in Flows /\ job[w].provider \in Providers
                      /\ started[job[w].flow] # Nothing
  BY DEF FlowsInv, FlowsTypeOK, WorkIsOnFlows
<1>1. ASSUME NEW u \in Workers, NEW f \in Flows, NEW p \in Popup, Callback(u, f, p)
      PROVE  u = w /\ job[w] = Idle /\ job'[w].at = "callback" /\ job'[w].flow = f
             /\ f \in states /\ states' = states \ {f} /\ job'[w].provider \in Providers
             /\ started[f] # Nothing /\ \A v \in Workers \ {w} : job'[v] = job[v]
  <2>1. started[f] # Nothing /\ f \in states /\ states' = states \ {f} /\ job[u] = Idle
    BY <1>t, <1>1 DEF Callback, TakeState, WorkIsOnFlows
  <2>2. job' = [job EXCEPT ![u] = Work("callback", f, p, EffectiveRedirect(p, redirect), FALSE)]
    BY <1>1 DEF Callback
  <2>3. EffectiveRedirect(p, redirect) \in RedirectsKnown /\ p \in Providers
    BY <1>t DEF EffectiveRedirect, RedirectsKnown, Providers, FlowsTypeOK
  <2>4. u = w
    BY <1>t, <2>2
  <2> DEFINE new == Work("callback", f, p, EffectiveRedirect(p, redirect), FALSE)
  <2>5. new \in Jobs /\ new.at = "callback" /\ new.flow = f /\ new.provider = p
    BY <2>3 DEF Work, Idle, Jobs, Places
  <2> HIDE DEF new
  <2>6. job'[w] = new /\ \A v \in Workers \ {w} : job'[v] = job[v]
    BY <1>t, <2>2, <2>4 DEF new
  <2> QED
    BY <1>t, <2>1, <2>2, <2>3, <2>5, <2>6
<1>2. ASSUME NEW u \in Workers, NEW f \in Flows, NEW p \in Paste, NEW whole \in BOOLEAN,
             PasteCode(u, f, p, whole)
      PROVE  u = w /\ job[w] = Idle /\ job'[w].at = "exchange" /\ job'[w].flow = f
             /\ job'[w].provider \in Providers
             /\ started[f] # Nothing /\ \A v \in Workers \ {w} : job'[v] = job[v]
  <2>1. /\ job' = [job EXCEPT ![u] = Work("exchange", f, p, Nothing, whole)]
        /\ job[u] = Idle /\ started[f] # Nothing
    BY <1>2 DEF PasteCode
  <2>2. Nothing \in RedirectsKnown /\ p \in Providers
    BY DEF RedirectsKnown, Providers
  <2>3. u = w
    BY <1>t, <2>1
  <2> DEFINE new == Work("exchange", f, p, Nothing, whole)
  <2>5. new \in Jobs /\ new.at = "exchange" /\ new.flow = f /\ new.provider = p
    BY <2>2, PlacesAre, WorkIsJob
  <2> HIDE DEF new
  <2>6. job'[w] = new /\ \A v \in Workers \ {w} : job'[v] = job[v]
    BY <1>t, <2>1, <2>3 DEF new
  <2> QED
    BY <1>t, <2>1, <2>2, <2>3, <2>5, <2>6
<1>3. ASSUME NEW u \in Workers, NEW f \in Flows, Poll(u, f)
      PROVE  u = w /\ job[w] = Idle /\ job'[w].at = "poll" /\ job'[w].flow = f
             /\ job'[w].provider \in Providers
             /\ started[f] # Nothing /\ \A v \in Workers \ {w} : job'[v] = job[v]
  <2>1. /\ job' = [job EXCEPT ![u] = Work("poll", f, started[f].provider, Nothing, FALSE)]
        /\ job[u] = Idle /\ started[f] # Nothing
    BY <1>t, <1>3 DEF Poll, WorkIsOnFlows
  <2>2. Nothing \in RedirectsKnown /\ started[f].provider \in Providers
    BY <1>t, <2>1 DEF RedirectsKnown, FlowsTypeOK, Starts
  <2>3. u = w
    BY <1>t, <2>1
  <2> DEFINE new == Work("poll", f, started[f].provider, Nothing, FALSE)
  <2>5. new \in Jobs /\ new.at = "poll" /\ new.flow = f /\ new.provider = started[f].provider
    BY <2>2 DEF Work, Idle, Jobs, Places
  <2> HIDE DEF new
  <2>6. job'[w] = new /\ \A v \in Workers \ {w} : job'[v] = job[v]
    BY <1>t, <2>1, <2>3 DEF new
  <2> QED
    BY <1>t, <2>1, <2>2, <2>3, <2>5, <2>6
<1>4. ASSUME NEW u \in Workers, TakeVerifier(u) \/ LoadClient(u)
      PROVE  u = w /\ AtWork(w) /\ job'[w].at \in {"exchange", "polling"}
             /\ job'[w].flow = job[w].flow /\ job'[w].provider = job[w].provider
             /\ \A v \in Workers \ {w} : job'[v] = job[v]
  <2>1. PICK new \in Jobs :
            /\ job' = [job EXCEPT ![u] = new]
            /\ new.at \in {"exchange", "polling"}
            /\ new.flow = job[u].flow /\ new.provider = job[u].provider
    BY <1>t, <1>4, LooksUp
  <2>2. u = w
    BY <1>t, <2>1
  <2>3. AtWork(w)
    BY <1>4, <2>2 DEF TakeVerifier, LoadClient, AtWork
  <2> QED
    BY <1>t, <2>1, <2>2, <2>3
<1>5. ASSUME NEW u \in Workers, NEW at \in Places, Goes(u, at), AtWork(u)
      PROVE  u = w /\ AtWork(w) /\ job'[w].at = at
             /\ job'[w].flow = job[w].flow /\ job'[w].provider = job[w].provider
             /\ \A v \in Workers \ {w} : job'[v] = job[v]
  <2>1. job' = [job EXCEPT ![u] = job'[u]]
    BY <1>t, <1>5, GoesType
  <2>2. u = w
    BY <1>t, <2>1
  <2> QED
    BY <1>t, <1>5, <2>1, <2>2, GoesType
<1>6. ASSUME NEW u \in Workers, Ends(u)
      PROVE  FALSE
  BY <1>t, <1>6, IdleIsJob DEF Ends
<1>7. ASSUME NEW u \in Workers, Proceed(u) \/ GiveUp(u)
      PROVE  /\ u = w /\ AtWork(w) /\ job'[w].flow = job[w].flow /\ job'[w].provider = job[w].provider
             /\ job'[w].at # "callback"
             /\ job'[w].at = "granted" => Grant(w)
             /\ \A v \in Workers \ {w} : job'[v] = job[v]
  <2>1. CASE TakeVerifier(u) \/ LoadClient(u)
    BY <1>4, <2>1
  <2>2. CASE KeepDevice(u) \/ Rejected(u)
    <3>1. Goes(u, "forget") /\ AtWork(u)
      BY <2>2 DEF KeepDevice, Rejected, AtWork
    <3> QED
      BY <1>5, <3>1 DEF Places
  <2>3. CASE ForgetDevice(u)
    <3>1. Goes(u, "forget client") /\ AtWork(u)
      BY <2>3 DEF ForgetDevice, AtWork
    <3> QED
      BY <1>5, <3>1 DEF Places
  <2>4. CASE Grant(u)
    <3>1. Goes(u, "granted") /\ AtWork(u)
      BY <2>4 DEF Grant, AtWork
    <3> QED
      BY <1>5, <2>4, <3>1 DEF Places
  <2>5. CASE Keep(u) \/ Pending(u) \/ ForgetClient(u) \/ Refuse(u) \/ GiveUp(u)
    <3>1. Ends(u)
      BY <2>5 DEF Keep, Pending, ForgetClient, Refuse, GiveUp
    <3> QED
      BY <1>6, <3>1
  <2> QED
    BY <1>7, <2>1, <2>2, <2>3, <2>4, <2>5 DEF Proceed
<1>8. CASE Restart
  BY <1>8, IdleIsJob DEF Restart
<1>9. CASE \/ \E f \in Flows : Start(f) \/ Decide(f)
           \/ Reload \/ UNCHANGED flowsVars
  BY <1>9 DEF Start, StartPopup, StartDevice, StartPaste, Decide, Reload, flowsVars
<1> QED
  BY <1>t, <1>1, <1>2, <1>3, <1>7, <1>8, <1>9 DEF Next
-----------------------------------------------------------------------------
(* What a step does to the maps, the key store and the vendor *)

\* Only a popup start puts a state into the map, only the taking of a verifier
\* posts a code, and only the two handlers that keep a token store one.
LEMMA WhoChanges ==
    ASSUME [Next]_flowsVars
    PROVE  /\ states' \subseteq states \/ \E f \in Flows, p \in Popup, r \in Redirects : StartPopup(f, p, r)
           /\ devices' \subseteq devices \/ \E f \in Flows, p \in Device : StartDevice(f, p)
           /\ exchanges' = exchanges \/ \E w \in Workers : TakeVerifier(w)
           /\ stored' = stored \/ \E w \in Workers : Keep(w) \/ KeepDevice(w)
           /\ started' = started \/ \E f \in Flows : Start(f)
<1>1. ASSUME NEW f \in Flows, Start(f)
      PROVE  /\ states' \subseteq states \/ \E p \in Popup, r \in Redirects : StartPopup(f, p, r)
             /\ devices' \subseteq devices \/ \E p \in Device : StartDevice(f, p)
             /\ exchanges' = exchanges /\ stored' = stored
  <2>1. ASSUME NEW p \in Popup, NEW r \in Redirects, StartPopup(f, p, r)
        PROVE  devices' = devices /\ exchanges' = exchanges /\ stored' = stored
    BY <2>1 DEF StartPopup, history
  <2>2. ASSUME NEW p \in Device, StartDevice(f, p)
        PROVE  states' = states /\ exchanges' = exchanges /\ stored' = stored
    BY <2>2 DEF StartDevice, history
  <2>3. ASSUME NEW p \in Paste, StartPaste(f, p)
        PROVE  /\ states' = states /\ devices' = devices
               /\ exchanges' = exchanges /\ stored' = stored
    BY <2>3 DEF StartPaste, maps, history
  <2> QED
    BY <1>1, <2>1, <2>2, <2>3 DEF Start
<1>2. ASSUME NEW w \in Workers, NEW f \in Flows,
             \/ \E p \in Popup : Callback(w, f, p)
             \/ \E p \in Paste, whole \in BOOLEAN : PasteCode(w, f, p, whole)
             \/ Poll(w, f)
      PROVE  /\ states' \subseteq states /\ devices' = devices
             /\ exchanges' = exchanges /\ stored' = stored /\ started' = started
  BY <1>2 DEF Callback, TakeState, PasteCode, Poll, maps, vendor, history
<1>3. ASSUME NEW w \in Workers, Proceed(w) \/ GiveUp(w)
      PROVE  /\ states' = states /\ devices' \subseteq devices /\ started' = started
             /\ exchanges' = exchanges \/ TakeVerifier(w)
             /\ stored' = stored \/ Keep(w) \/ KeepDevice(w)
  <2>1. CASE LoadClient(w) \/ Pending(w) \/ Rejected(w) \/ ForgetDevice(w) \/ ForgetClient(w)
    BY <2>1 DEF LoadClient, Pending, Rejected, ForgetDevice, ForgetClient, maps, vendor, history
  <2>2. CASE TakeVerifier(w) \/ Keep(w) \/ KeepDevice(w)
    BY <2>2 DEF TakeVerifier, Keep, KeepDevice, maps, vendor
  <2>3. CASE Grant(w) \/ Refuse(w) \/ GiveUp(w)
    BY <2>3 DEF Grant, Refuse, GiveUp, maps, vendor, history
  <2> QED
    BY <1>3, <2>1, <2>2, <2>3 DEF Proceed
<1>4. CASE Reload \/ Restart \/ UNCHANGED flowsVars \/ \E f \in Flows : Decide(f)
  BY <1>4 DEF Reload, Restart, Decide, flowsVars, maps, vendor, history
<1> QED
  BY <1>1, <1>2, <1>3, <1>4 DEF Next

\* What a flow was started with is never changed.
LEMMA StartedStays ==
    ASSUME FlowsTypeOK, [Next]_flowsVars, NEW f \in Flows, started[f] # Nothing
    PROVE  started'[f] = started[f]
<1>1. CASE started' = started
  BY <1>1
<1>2. ASSUME NEW g \in Flows, Start(g)
      PROVE  started'[f] = started[f]
  <2>1. PICK s : started[g] = Nothing /\ started' = [started EXCEPT ![g] = s]
    BY <1>2 DEF Start, StartPopup, StartDevice, StartPaste, Announce
  <2> QED
    BY <2>1 DEF FlowsTypeOK
<1> QED
  BY <1>1, <1>2, WhoChanges

-----------------------------------------------------------------------------
(* The invariant *)

LEMMA WorkIsOnFlowsStep == FlowsInv /\ [Next]_flowsVars => WorkIsOnFlows'
<1> SUFFICES ASSUME FlowsInv, [Next]_flowsVars PROVE WorkIsOnFlows'
  OBVIOUS
<1>t. FlowsTypeOK /\ WorkIsOnFlows
  BY DEF FlowsInv
<1>1. ASSUME NEW f \in Flows, started[f] # Nothing
      PROVE  started'[f] # Nothing
  BY <1>t, <1>1, StartedStays
<1>2. ASSUME NEW f \in states' \cup devices'
      PROVE  started'[f] # Nothing
  <2>1. CASE f \in states \cup devices
    BY <1>t, <1>1, <2>1 DEF WorkIsOnFlows, FlowsTypeOK
  <2>2. CASE f \notin states /\ f \in states'
    <3>1. PICK p \in Popup, r \in Redirects : StartPopup(f, p, r)
      BY <2>2, WhoChanges DEF StartPopup
    <3>2. [provider |-> p, redirect |-> EffectiveRedirect(p, r)] \in Starts
      BY DEF Starts, RedirectsKnown, EffectiveRedirect, Providers
    <3>3. f \in Flows /\ started'[f] = [provider |-> p, redirect |-> EffectiveRedirect(p, r)]
      <4>1. PICK g \in Flows : \E q \in Popup, z \in Redirects : StartPopup(g, q, z)
        BY <2>2, WhoChanges
      <4>2. f = g
        BY <2>2, <4>1 DEF StartPopup
      <4> QED
        BY <1>t, <3>1, <4>2 DEF StartPopup, Announce, FlowsTypeOK
    <3> QED
      BY <3>2, <3>3, NothingApart
  <2>3. CASE f \notin devices /\ f \in devices'
    <3>1. PICK g \in Flows, p \in Device : StartDevice(g, p)
      BY <2>3, WhoChanges
    <3>2. f = g /\ started'[f] = [provider |-> p, redirect |-> Nothing]
      BY <1>t, <2>3, <3>1 DEF StartDevice, Announce, FlowsTypeOK
    <3>3. [provider |-> p, redirect |-> Nothing] \in Starts
      BY DEF Starts, RedirectsKnown, Providers
    <3> QED
      BY <3>2, <3>3, NothingApart
  <2> QED
    BY <2>1, <2>2, <2>3
<1>3. ASSUME NEW w \in Workers, job'[w].at # "idle"
      PROVE  /\ job'[w].flow \in Flows /\ started'[job'[w].flow] # Nothing
             /\ job'[w].provider \in Providers
  <2>1. CASE job'[w] = job[w]
    BY <1>t, <1>1, <1>3, <2>1 DEF WorkIsOnFlows, AtWork
  <2>2. CASE job'[w] # job[w]
    BY <1>1, <1>3, <2>2, JobsMove
  <2> QED
    BY <2>1, <2>2
<1>4. ASSUME NEW p \in Providers, stored'[p] # Nothing
      PROVE  started'[stored'[p].flow] # Nothing
  <2>1. CASE stored'[p] = stored[p]
    <3>1. stored[p] # Nothing /\ stored[p] \in Entries /\ started[stored[p].flow] # Nothing
      BY <1>t, <1>4, <2>1 DEF FlowsTypeOK, WorkIsOnFlows
    <3>2. stored[p].flow \in Flows
      BY <3>1 DEF Entries
    <3> QED
      BY <1>1, <2>1, <3>1, <3>2
  <2>2. ASSUME NEW w \in Workers, Keep(w) \/ KeepDevice(w), stored'[p] # stored[p]
        PROVE  started'[stored'[p].flow] # Nothing
    <3>1. AtWork(w) /\ stored'[p].flow = job[w].flow
      BY <1>t, <2>2 DEF Keep, KeepDevice, AtWork, FlowsTypeOK
    <3> QED
      BY <1>t, <1>1, <3>1 DEF WorkIsOnFlows
  <2> QED
    BY <2>1, <2>2, WhoChanges
<1> QED
  BY <1>2, <1>3, <1>4 DEF WorkIsOnFlows, AtWork

LEMMA StateInOnePlaceStep == FlowsInv /\ [Next]_flowsVars => StateInOnePlace'
<1> SUFFICES ASSUME FlowsInv, [Next]_flowsVars PROVE StateInOnePlace'
  OBVIOUS
<1>t. FlowsTypeOK /\ WorkIsOnFlows /\ StateInOnePlace
  BY DEF FlowsInv
<1>1. ASSUME NEW f \in Flows
      PROVE  /\ exchanges'[f] <= 1
             /\ exchanges'[f] # exchanges[f] =>
                    \E w \in Workers : TakeVerifier(w) /\ job[w].flow = f
  <2>1. exchanges[f] \in Nat /\ exchanges[f] <= 1
    BY <1>t DEF FlowsTypeOK, StateInOnePlace
  <2>2. ASSUME NEW w \in Workers, TakeVerifier(w)
        PROVE  /\ exchanges'[f] <= 1
               /\ exchanges'[f] # exchanges[f] => job[w].flow = f
    <3>1. job[w].at = "callback" /\ exchanges' = [exchanges EXCEPT ![job[w].flow] = @ + 1]
      BY <2>2 DEF TakeVerifier
    <3>2. exchanges[job[w].flow] = 0
      BY <1>t, <3>1 DEF StateInOnePlace
    <3> QED
      BY <1>t, <2>1, <3>1, <3>2 DEF FlowsTypeOK
  <2> QED
    BY <2>1, <2>2, WhoChanges
<1>2. ASSUME NEW f \in Flows, started'[f] = Nothing
      PROVE  exchanges'[f] = 0
  <2>1. started[f] = Nothing
    BY <1>t, <1>2, StartedStays
  <2>2. ~ \E w \in Workers : TakeVerifier(w) /\ job[w].flow = f
    BY <1>t, <2>1 DEF TakeVerifier, WorkIsOnFlows, AtWork
  <2> QED
    BY <1>t, <1>1, <2>1, <2>2 DEF StateInOnePlace
<1>3. ASSUME NEW f \in states'
      PROVE  exchanges'[f] = 0 /\ f \in Flows
  <2>1. f \in Flows /\ exchanges[f] = 0
    <3>1. CASE f \in states
      BY <1>t, <3>1 DEF StateInOnePlace, FlowsTypeOK
    <3>2. CASE f \notin states
      <4>1. PICK g \in Flows, p \in Popup, r \in Redirects : StartPopup(g, p, r)
        BY <1>3, <3>2, WhoChanges
      <4>2. f = g /\ started[f] = Nothing
        BY <1>3, <3>2, <4>1 DEF StartPopup, Announce
      <4> QED
        BY <1>t, <4>2 DEF StateInOnePlace
    <3> QED
      BY <3>1, <3>2
  <2>2. ASSUME NEW w \in Workers, TakeVerifier(w)
        PROVE  job[w].flow # f
    BY <1>3, <1>t, <2>2 DEF TakeVerifier, StateInOnePlace
  <2> QED
    BY <1>1, <2>1, <2>2
<1>4. ASSUME NEW w \in Workers, job'[w].at = "callback"
      PROVE  /\ job'[w].flow \notin states'
             /\ exchanges'[job'[w].flow] = 0
             /\ \A v \in Workers :
                    job'[v].at = "callback" /\ job'[v].flow = job'[w].flow => v = w
  <2>1. CASE job'[w] = job[w]
    <3>1. /\ job[w].at = "callback" /\ job[w].flow \in Flows /\ started[job[w].flow] # Nothing
          /\ job[w].flow \notin states /\ exchanges[job[w].flow] = 0
      BY <1>t, <1>4, <2>1 DEF StateInOnePlace, WorkIsOnFlows, AtWork
    <3>2. job[w].flow \notin states'
      <4>1. ASSUME NEW f \in Flows, NEW p \in Popup, NEW r \in Redirects, StartPopup(f, p, r)
            PROVE  f # job[w].flow /\ states' = states \cup {f}
        BY <3>1, <4>1 DEF StartPopup, Announce
      <4> QED
        BY <3>1, <4>1, WhoChanges
    <3>3. exchanges'[job[w].flow] = 0
      <4>1. ASSUME NEW v \in Workers, TakeVerifier(v), job[v].flow = job[w].flow
            PROVE  FALSE
        <5>1. v = w /\ job'[v].at = "exchange"
          <6>1. v = w
            BY <1>t, <3>1, <4>1 DEF TakeVerifier, StateInOnePlace
          <6>2. PICK new \in Jobs : job' = [job EXCEPT ![v] = new] /\ new.at \in {"exchange", "polling"}
            BY <1>t, <4>1, LooksUp
          <6>3. job'[v].at \in {"exchange", "polling"}
            BY <1>t, <6>2 DEF FlowsTypeOK
          <6> QED
            BY <1>4, <6>1, <6>3
        <5> QED
          BY <1>4, <5>1
      <4> QED
        BY <1>1, <3>1, <4>1
    <3>4. ASSUME NEW v \in Workers, job'[v].at = "callback", job'[v].flow = job'[w].flow
          PROVE  v = w
      <4>1. CASE job'[v] = job[v]
        BY <1>t, <2>1, <3>1, <3>4, <4>1 DEF StateInOnePlace
      <4>2. CASE job'[v] # job[v]
        <5>1. job'[v].flow \in states
          BY <3>4, <4>2, JobsMove
        <5> QED
          BY <2>1, <3>1, <3>4, <5>1
      <4> QED
        BY <4>1, <4>2
    <3> QED
      BY <2>1, <3>2, <3>3, <3>4
  <2>2. CASE job'[w] # job[w]
    <3>1. /\ job'[w].flow \in states /\ states' = states \ {job'[w].flow}
          /\ job'[w].flow \in Flows
          /\ \A v \in Workers \ {w} : job'[v] = job[v]
      BY <1>4, <2>2, JobsMove
    <3>2. exchanges'[job'[w].flow] = 0
      <4>1. ASSUME NEW v \in Workers, TakeVerifier(v)
            PROVE  job[v].flow # job'[w].flow
        BY <1>t, <3>1, <4>1 DEF TakeVerifier, StateInOnePlace
      <4> QED
        BY <1>t, <1>1, <3>1, <4>1 DEF StateInOnePlace
    <3>3. ASSUME NEW v \in Workers, job'[v].at = "callback", job'[v].flow = job'[w].flow
          PROVE  v = w
      BY <1>t, <3>1, <3>3 DEF StateInOnePlace
    <3> QED
      BY <3>1, <3>2, <3>3
  <2> QED
    BY <2>1, <2>2
<1> QED
  BY <1>1, <1>2, <1>3, <1>4 DEF StateInOnePlace

LEMMA GrantsCheckedStep == FlowsInv /\ [Next]_flowsVars => GrantsChecked'
<1> SUFFICES ASSUME FlowsInv, [Next]_flowsVars PROVE GrantsChecked'
  OBVIOUS
<1>t. FlowsTypeOK /\ WorkIsOnFlows /\ GrantsChecked /\ job \in [Workers -> Jobs]
  BY DEF FlowsInv, FlowsTypeOK
<1>1. ASSUME NEW w \in Workers, job'[w].at = "granted"
      PROVE  /\ started'[job'[w].flow].provider = job'[w].provider
             /\ job'[w].client = (job'[w].provider \in Registering)
  <2>1. CASE job'[w] = job[w]
    <3>1. /\ started[job[w].flow].provider = job[w].provider
          /\ job[w].client = (job[w].provider \in Registering)
          /\ job[w].flow \in Flows /\ started[job[w].flow] # Nothing
      BY <1>t, <1>1, <2>1 DEF GrantsChecked, WorkIsOnFlows, AtWork
    <3>2. started'[job[w].flow] = started[job[w].flow]
      BY <1>t, <3>1, StartedStays
    <3> QED
      BY <2>1, <3>1, <3>2
  <2>2. CASE job'[w] # job[w]
    <3>1. Grant(w)
      BY <1>1, <2>2, JobsMove
    <3>2. /\ started[job[w].flow].provider = job[w].provider
          /\ job[w].client = (job[w].provider \in Registering)
          /\ started' = started /\ Goes(w, "granted")
      BY <3>1 DEF Grant, Grants
    <3>3. /\ job'[w].flow = job[w].flow /\ job'[w].provider = job[w].provider
          /\ job'[w].client = job[w].client
      BY <1>t, <3>2, GoesType DEF Places
    <3> QED
      BY <3>2, <3>3
  <2> QED
    BY <2>1, <2>2
<1>2. ASSUME NEW p \in Providers, stored'[p] # Nothing
      PROVE  /\ started'[stored'[p].flow].provider = p
             /\ stored'[p].client = (p \in Registering)
  <2>1. CASE stored'[p] = stored[p]
    <3>1. /\ stored[p] \in Entries /\ started[stored[p].flow] # Nothing
          /\ started[stored[p].flow].provider = p
          /\ stored[p].client = (p \in Registering)
      BY <1>t, <1>2, <2>1 DEF FlowsTypeOK, WorkIsOnFlows, GrantsChecked
    <3>2. stored[p].flow \in Flows
      BY <3>1 DEF Entries
    <3>3. started'[stored[p].flow] = started[stored[p].flow]
      BY <1>t, <3>1, <3>2, StartedStays
    <3> QED
      BY <2>1, <3>1, <3>3
  <2>2. ASSUME NEW w \in Workers, Keep(w) \/ KeepDevice(w), stored'[p] # stored[p]
        PROVE  /\ started'[stored'[p].flow].provider = p
               /\ stored'[p].client = (p \in Registering)
    <3>1. job[w].at = "granted" /\ started' = started
      BY <2>2 DEF Keep, KeepDevice, vendor
    <3>2. /\ started[job[w].flow].provider = job[w].provider
          /\ job[w].client = (job[w].provider \in Registering)
      BY <1>t, <3>1 DEF GrantsChecked
    <3>3. CASE Keep(w)
      <4>1. /\ job[w].provider \notin Device
            /\ stored' = [stored EXCEPT ![job[w].provider] = [flow |-> job[w].flow, client |-> FALSE]]
        BY <3>3 DEF Keep
      <4> DEFINE e == [flow |-> job[w].flow, client |-> FALSE]
      <4> HIDE DEF e
      <4>4. stored' = [stored EXCEPT ![job[w].provider] = e]
        BY <4>1 DEF e
      <4>5. job[w].provider = p /\ stored'[p] = e
        BY <1>t, <2>2, <4>4 DEF FlowsTypeOK
      <4>2. job[w].provider = p /\ stored'[p] = [flow |-> job[w].flow, client |-> FALSE]
        BY <4>5 DEF e
      <4>3. (p \in Registering) = FALSE
        BY <4>1, <4>2, FlowsAssumption
      <4>6. stored'[p].flow = job[w].flow /\ stored'[p].client = FALSE
        BY <4>2
      <4>7. started'[stored'[p].flow].provider = p
        BY <3>1, <3>2, <4>2, <4>6
      <4> QED
        BY <4>3, <4>6, <4>7
    <3>4. CASE KeepDevice(w)
      <4>1. stored' = [stored EXCEPT ![job[w].provider] =
                          [flow |-> job[w].flow, client |-> job[w].client]]
        BY <3>4 DEF KeepDevice
      <4> DEFINE e == [flow |-> job[w].flow, client |-> job[w].client]
      <4> HIDE DEF e
      <4>4. stored' = [stored EXCEPT ![job[w].provider] = e]
        BY <4>1 DEF e
      <4>5. job[w].provider = p /\ stored'[p] = e
        BY <1>t, <2>2, <4>4 DEF FlowsTypeOK
      <4>2. job[w].provider = p /\ stored'[p] = [flow |-> job[w].flow, client |-> job[w].client]
        BY <4>5 DEF e
      <4> QED
        BY <3>1, <3>2, <4>2
    <3> QED
      BY <2>2, <3>3, <3>4
  <2> QED
    BY <2>1, <2>2, WhoChanges
<1> QED
  BY <1>1, <1>2 DEF GrantsChecked

LEMMA FlowsInvariant == FlowsSpec => []FlowsInv
<1>1. Init => FlowsInv
  <2>1. Init => WorkIsOnFlows /\ StateInOnePlace /\ GrantsChecked
    BY IdleIsJob DEF Init, WorkIsOnFlows, StateInOnePlace, GrantsChecked, AtWork
  <2> QED
    BY <2>1, FlowsTypeInit DEF FlowsInv
<1>2. FlowsInv /\ [Next]_flowsVars => FlowsInv'
  BY FlowsTypeStep, WorkIsOnFlowsStep, StateInOnePlaceStep, GrantsCheckedStep DEF FlowsInv
<1> QED
  BY <1>1, <1>2, PTL DEF FlowsSpec

\* Every map holds flows, every call is at a known place of its handler, and
\* the key store holds a token of a flow or none (OAuthManager, oauth/mod.rs).
THEOREM FlowsTypeCorrect == FlowsSpec => []FlowsTypeOK
  BY FlowsInvariant, PTL DEF FlowsInv

\* However many callbacks, polls, failures and restarts overlap, the code of a
\* popup flow is posted at most once, and what is stored is stored for the
\* provider its flow was started with and with the client that can refresh it
\* (complete_popup_oauth, poll_device_flow).
THEOREM FlowsAreYieldedRight == FlowsSpec => []FlowsYieldTheirOwn
<1>1. FlowsInv => FlowsYieldTheirOwn
  BY DEF FlowsInv, StateInOnePlace, GrantsChecked, FlowsYieldTheirOwn
<1> QED
  BY <1>1, FlowsInvariant, PTL
=============================================================================
