------------------------- MODULE ConfigServiceProofs -------------------------
(***************************************************************************)
(* Proofs about ConfigService, for any number of handlers and providers.   *)
(* Neither agreement is inductive: the strengthening says what a handler   *)
(* nobody overlaps may assume, that an agreeing file has no writer, and    *)
(* that nobody is about to register an id the registry is right about.     *)
(***************************************************************************)
EXTENDS ConfigService, TLAPS

\* A handler nobody overlapped is the only one in flight.
AloneIsAlone ==
    \A w \in alone : pc[w] # "idle" /\ \A v \in Workers : pc[v] # "idle" => v = w

\* What it is to save is still what is in memory, what it is to swap in is
\* still what the file says, and what it is to register still holds.
AloneHolds ==
    \A w \in alone :
        /\ pc[w] \in Saving => draft[w] = mem
        /\ pc[w] = "write" => file = Text("empty")
        /\ pc[w] = "swap" => draft[w] = file.config /\ file.kind \in {"config", "empty"}
        /\ pc[w] = "register" =>
              (target[w] \in draft[w].providers <=> target[w] \in mem.providers)

\* Nobody is about to write a file that agrees.
TidyIsUnwritten == tidy => \A w \in Workers : pc[w] \notin Saving

\* Nobody is about to register an id the registry is right about.
AlignedIsUntouched ==
    \A w \in Workers :
        /\ target[w] \notin aligned
        /\ pc[w] = "idle" => target[w] = NoProvider

ConfigInv ==
    /\ TypeOK
    /\ AloneIsAlone
    /\ AloneHolds
    /\ TidyIsUnwritten
    /\ AlignedIsUntouched
    /\ DiskAgreesUnlessDisturbed
    /\ RegistryAgreesUnlessDisturbed

-----------------------------------------------------------------------------
(* Types *)

LEMMA DefaultIsConfig == DefaultConfig \in Config
  BY DEF DefaultConfig, Config

LEMMA TextsAreContent ==
    /\ \A k \in Kinds : Text(k) \in Content
    /\ \A c \in Config : Saved(c) \in Content
  BY DefaultIsConfig DEF Text, Saved, Content, Kinds

\* The configurations that admin requests make of one.
LEMMA UpdatesAreConfigs ==
    ASSUME NEW c \in Config, NEW p \in Pids
    PROVE  /\ [c EXCEPT !.providers = @ \cup {p}] \in Config
           /\ [c EXCEPT !.providers = @ \ {p}] \in Config
           /\ [c EXCEPT !.tier = p] \in Config
  BY DEF Config

\* Every admin request is an update, a save or a reload.
LEMMA Requests ==
    ASSUME TypeOK, NEW w \in Workers, AdminRequest(w)
    PROVE  \/ \E c \in Config, p \in Pids \cup {NoProvider} :
                 /\ Update(w, c, p)
                 /\ c.providers \ {p} = mem.providers \ {p}
           \/ SaveConfig(w)
           \/ Reload(w)
<1> SUFFICES ASSUME NEW p \in Pids,
                    AddProvider(w, p) \/ RemoveProvider(w, p) \/ UpdateTier(w, p)
             PROVE  \E c \in Config, q \in Pids \cup {NoProvider} :
                       Update(w, c, q) /\ c.providers \ {q} = mem.providers \ {q}
  BY DEF AdminRequest
<1>1. mem \in Config
  BY DEF TypeOK
<1>2. CASE AddProvider(w, p)
  <2> DEFINE c == [mem EXCEPT !.providers = @ \cup {p}]
  <2>1. c \in Config /\ Update(w, c, p)
    BY <1>1, <1>2, UpdatesAreConfigs DEF AddProvider
  <2>2. c.providers \ {p} = mem.providers \ {p}
    BY <1>1 DEF Config
  <2> QED
    BY <2>1, <2>2
<1>3. CASE RemoveProvider(w, p)
  <2> DEFINE c == [mem EXCEPT !.providers = @ \ {p}]
  <2>1. c \in Config /\ Update(w, c, p)
    BY <1>1, <1>3, UpdatesAreConfigs DEF RemoveProvider
  <2>2. c.providers \ {p} = mem.providers \ {p}
    BY <1>1 DEF Config
  <2> QED
    BY <2>1, <2>2
<1>4. CASE UpdateTier(w, p)
  <2> DEFINE c == [mem EXCEPT !.tier = p]
  <2>1. c \in Config /\ Update(w, c, NoProvider)
    BY <1>1, <1>4, UpdatesAreConfigs DEF UpdateTier
  <2>2. c.providers \ {NoProvider} = mem.providers \ {NoProvider}
    BY <1>1 DEF Config
  <2> QED
    BY <2>1, <2>2
<1> QED
  BY <1>2, <1>3, <1>4

LEMMA InitTypeOK == Init => TypeOK
  BY DefaultIsConfig, TextsAreContent
     DEF Init, TypeOK, Boots, Idle, Kinds

LEMMA BeginType ==
    ASSUME TypeOK, NEW w \in Workers, NEW l \in {"truncate", "read"}, NEW c \in Config,
           NEW p \in Pids \cup {NoProvider}, Begin(w, l, c, p),
           mem' \in Config, tidy' \in BOOLEAN, aligned' \subseteq Pids
    PROVE  TypeOK'
  BY DEF TypeOK, Begin, Idle, Saving, Waiting

LEMMA FinishType ==
    ASSUME TypeOK, NEW w \in Workers, Finish(w),
           file' \in Content, mem' \in Config, registry' \subseteq Buildable,
           tidy' \in BOOLEAN, aligned' \subseteq Pids
    PROVE  TypeOK'
  BY DefaultIsConfig DEF TypeOK, Finish, Idle

\* Nothing but configurations is ever loaded, saved or swapped in.
LEMMA NextTypeOK == TypeOK /\ [Next]_configVars => TypeOK'
<1> SUFFICES ASSUME TypeOK, [Next]_configVars PROVE TypeOK'
  OBVIOUS
<1>0. file \in Content /\ file.kind \in Kinds /\ file.config \in Config
  BY DEF TypeOK, Content
<1>1. ASSUME NEW w \in Workers, AdminRequest(w)
      PROVE  TypeOK'
  <2>1. ASSUME NEW c \in Config, NEW p \in Pids \cup {NoProvider}, Update(w, c, p)
        PROVE  TypeOK'
    BY <2>1, BeginType DEF Update, TypeOK
  <2>2. CASE SaveConfig(w)
    BY <2>2, BeginType DEF SaveConfig, TypeOK
  <2>3. CASE Reload(w)
    BY <2>3, BeginType, DefaultIsConfig DEF Reload, TypeOK
  <2> QED
    BY <1>1, <2>1, <2>2, <2>3, Requests
<1>2. ASSUME NEW w \in Workers, Truncate(w)
      PROVE  TypeOK'
  BY <1>2, TextsAreContent DEF Truncate, TypeOK, Idle, Saving, Kinds
<1>3. ASSUME NEW w \in Workers, WriteOut(w)
      PROVE  TypeOK'
  <2>1. file' \in Content
    BY <1>3, TextsAreContent DEF WriteOut, TypeOK, Kinds
  <2>2. CASE target[w] = NoProvider
    BY <1>3, <2>1, <2>2, FinishType DEF WriteOut, TypeOK
  <2>3. CASE target[w] # NoProvider
    BY <1>3, <2>1, <2>3 DEF WriteOut, TypeOK, Idle, Waiting
  <2> QED
    BY <2>2, <2>3
<1>4. ASSUME NEW w \in Workers, SaveFails(w)
      PROVE  TypeOK'
  <2>1. file' \in Content
    BY <1>0, <1>4, TextsAreContent DEF SaveFails, Kinds
  <2> QED
    BY <1>4, <2>1, FinishType DEF SaveFails, TypeOK
<1>5. ASSUME NEW w \in Workers, Register(w)
      PROVE  TypeOK'
  <2>1. target[w] \in Pids
    BY <1>5 DEF Register, TypeOK
  <2> QED
    BY <1>5, <2>1, FinishType DEF Register, TypeOK
<1>6. ASSUME NEW w \in Workers, ReadFile(w)
      PROVE  TypeOK'
  <2>1. CASE Loadable(file)
    BY <1>0, <1>6, <2>1 DEF ReadFile, TypeOK, Idle, Waiting
  <2>2. CASE ~Loadable(file)
    BY <1>0, <1>6, <2>2, FinishType DEF ReadFile, TypeOK
  <2> QED
    BY <2>1, <2>2
<1>7. ASSUME NEW w \in Workers, Swap(w)
      PROVE  TypeOK'
  <2>1. mem' \in Config /\ aligned' \subseteq Pids
    BY <1>7 DEF Swap, TypeOK
  <2> QED
    BY <1>7, <2>1, FinishType DEF Swap, TypeOK
<1>8. ASSUME NEW w \in Workers, Drop(w)
      PROVE  TypeOK'
  <2>1. CASE Finish(w)
    BY <1>0, <1>8, <2>1, FinishType DEF Drop, TypeOK
  <2>2. CASE ~Finish(w)
    BY <1>8, <2>2 DEF Drop, TypeOK, Idle, Saving
  <2> QED
    BY <2>1, <2>2
<1>9. CASE EditFile
  <2>1. file' \in Content
    BY <1>9, TextsAreContent DEF EditFile, Kinds
  <2> QED
    BY <1>9, <2>1 DEF EditFile, TypeOK, Idle
<1>10. CASE Start
  <2>1. file' \in Content
    BY <1>0, <1>10, TextsAreContent, DefaultIsConfig DEF Start, Kinds
  <2> QED
    BY <1>10, <2>1 DEF Start, TypeOK, Boots, Idle
<1>11. CASE FirstRun
  BY <1>11, TextsAreContent, DefaultIsConfig DEF FirstRun, TypeOK, Boots, Idle, Kinds
<1>12. CASE Migrate
  BY <1>0, <1>12, TextsAreContent DEF Migrate, TypeOK, Boots, Idle, Kinds
<1>13. CASE Load
  <2>1. CASE ~Loadable(file)
    BY <1>13, <2>1 DEF Load, TypeOK, Boots, Idle
  <2>2. CASE Loadable(file)
    <3>1. mem' = file.config /\ registry' = Built(file.config) /\ aligned' \subseteq Pids
      BY <1>13, <2>2 DEF Load
    <3>2. registry' \subseteq Buildable
      BY <3>1 DEF Built
    <3> QED
      BY <1>0, <1>13, <2>2, <3>1, <3>2 DEF Load, TypeOK, Boots, Idle
  <2> QED
    BY <2>1, <2>2
<1>14. CASE Exit
  <2>1. file' \in Content
    BY <1>0, <1>14, TextsAreContent DEF Exit, Kinds
  <2> QED
    BY <1>14, <2>1, DefaultIsConfig DEF Exit, TypeOK, Boots, Idle
<1>15. CASE UNCHANGED configVars
  BY <1>15 DEF configVars, TypeOK, Idle
<1> QED
  BY <1>1, <1>2, <1>3, <1>4, <1>5, <1>6, <1>7, <1>8, <1>9, <1>10, <1>11, <1>12, <1>13, <1>14,
     <1>15 DEF Next, AdminStep, BootStep

\* For any number of handlers and providers, the three copies are always
\* configurations, and nobody is in flight while the server is down
\* (ConfigService, ProviderRegistry).
THEOREM ConfigTypeCorrect == Spec => []TypeOK
  BY InitTypeOK, NextTypeOK, PTL DEF Spec

-----------------------------------------------------------------------------
(* The file, the memory and the registry *)

\* Every step that ends a handler leaves it with nothing to register.
LEMMA FinishEffect ==
    ASSUME TypeOK, NEW w \in Workers, Finish(w)
    PROVE  /\ \A v \in Workers : pc'[v] = IF v = w THEN "idle" ELSE pc[v]
           /\ \A v \in Workers : draft'[v] = IF v = w THEN DefaultConfig ELSE draft[v]
           /\ \A v \in Workers : target'[v] = IF v = w THEN NoProvider ELSE target[v]
           /\ alone' = alone \ {w}
           /\ boot' = boot
  BY DEF TypeOK, Finish

LEMMA BeginEffect ==
    ASSUME TypeOK, NEW w \in Workers, NEW l, NEW c, NEW p, Begin(w, l, c, p)
    PROVE  /\ boot = "up" /\ pc[w] = "idle"
           /\ \A v \in Workers : pc'[v] = IF v = w THEN l ELSE pc[v]
           /\ \A v \in Workers : draft'[v] = IF v = w THEN c ELSE draft[v]
           /\ \A v \in Workers : target'[v] = IF v = w THEN p ELSE target[v]
           /\ alone' \subseteq {w}
           /\ w \in alone' => \A v \in Workers : pc[v] = "idle"
           /\ UNCHANGED <<file, registry, boot>>
  BY DEF TypeOK, Begin, Idle

LEMMA ConfigInit == Init => ConfigInv
  BY InitTypeOK
     DEF Init, ConfigInv, AloneIsAlone, AloneHolds, TidyIsUnwritten, AlignedIsUntouched,
         DiskAgreesUnlessDisturbed, RegistryAgreesUnlessDisturbed

LEMMA ConfigStep == ConfigInv /\ [Next]_configVars => ConfigInv'
<1> SUFFICES ASSUME ConfigInv, [Next]_configVars PROVE ConfigInv'
  OBVIOUS
<1>t. TypeOK /\ TypeOK'
  BY NextTypeOK DEF ConfigInv
<1> USE <1>t, ConfigAssumption
    DEF ConfigInv, AloneIsAlone, AloneHolds, TidyIsUnwritten, AlignedIsUntouched,
        DiskAgreesUnlessDisturbed, RegistryAgreesUnlessDisturbed
<1>1. ASSUME NEW w \in Workers, AdminRequest(w)
      PROVE  ConfigInv'
  <2>1. ASSUME NEW c \in Config, NEW p \in Pids \cup {NoProvider}, Update(w, c, p),
               c.providers \ {p} = mem.providers \ {p}
        PROVE  ConfigInv'
    <3>1. Begin(w, "truncate", c, p) /\ mem' = c /\ tidy' = FALSE /\ aligned' = aligned \ {p}
      BY <2>1 DEF Update
    <3>2. RegistryAgreesUnlessDisturbed'
      BY <2>1, <3>1, BeginEffect
    <3>3. AloneIsAlone' /\ AloneHolds' /\ AlignedIsUntouched'
      BY <3>1, BeginEffect DEF TypeOK, Saving
    <3> QED
      BY <3>1, <3>2, <3>3
  <2>2. CASE SaveConfig(w)
    <3>1. Begin(w, "truncate", mem, NoProvider) /\ tidy' = FALSE /\ UNCHANGED <<mem, aligned>>
      BY <2>2 DEF SaveConfig
    <3>2. AloneIsAlone' /\ AloneHolds' /\ AlignedIsUntouched'
      BY <3>1, BeginEffect DEF TypeOK, Saving
    <3>3. RegistryAgreesUnlessDisturbed'
      BY <3>1, BeginEffect
    <3> QED
      BY <3>1, <3>2, <3>3
  <2>3. CASE Reload(w)
    <3>1. /\ Begin(w, "read", DefaultConfig, NoProvider)
          /\ UNCHANGED <<mem, tidy, aligned>>
      BY <2>3 DEF Reload
    <3>2. AloneIsAlone' /\ AloneHolds' /\ AlignedIsUntouched' /\ TidyIsUnwritten'
      BY <3>1, BeginEffect DEF TypeOK, Saving
    <3>3. RegistryAgreesUnlessDisturbed' /\ DiskAgreesUnlessDisturbed'
      BY <3>1, BeginEffect
    <3> QED
      BY <3>2, <3>3
  <2> QED
    BY <1>1, <2>1, <2>2, <2>3, Requests
<1>2. ASSUME NEW w \in Workers, Truncate(w)
      PROVE  ConfigInv'
  BY <1>2 DEF Truncate, TypeOK, Saving
<1>3. ASSUME NEW w \in Workers, WriteOut(w)
      PROVE  ConfigInv'
  <2>1. /\ pc[w] = "write" /\ tidy' = (w \in alone)
        /\ UNCHANGED <<mem, registry, aligned, boot>>
    BY <1>3 DEF WriteOut, Finish
  <2>2. w \in alone => file' = Saved(mem)
    BY <1>3, <2>1 DEF WriteOut, Saving
  <2>3. DiskAgreesUnlessDisturbed'
    <3>1. CASE w \in alone
      <4>1. file'.config = mem /\ file'.kind = "config" /\ mem' = mem
        BY <2>1, <2>2, <3>1 DEF Saved
      <4> QED
        BY <4>1
    <3>2. CASE w \notin alone
      BY <2>1, <3>2
    <3> QED
      BY <3>1, <3>2
  <2>4. RegistryAgreesUnlessDisturbed'
    BY <2>1
  <2>5. CASE target[w] = NoProvider
    <3>1. Finish(w)
      BY <1>3, <2>5 DEF WriteOut
    <3>2. AloneIsAlone' /\ TidyIsUnwritten' /\ AlignedIsUntouched'
      BY <2>1, <3>1, FinishEffect DEF TypeOK, Saving
    <3>3. AloneHolds'
      BY <2>1, <3>1, FinishEffect DEF TypeOK, Saving
    <3> QED
      BY <2>3, <2>4, <3>2, <3>3
  <2>6. CASE target[w] # NoProvider
    <3>1. pc' = [pc EXCEPT ![w] = "register"] /\ UNCHANGED <<draft, target, alone>>
      BY <1>3, <2>6 DEF WriteOut
    <3>2. AloneIsAlone' /\ TidyIsUnwritten' /\ AlignedIsUntouched'
      BY <2>1, <3>1 DEF TypeOK, Saving
    <3>3. AloneHolds'
      BY <2>1, <2>2, <3>1 DEF TypeOK, Saving
    <3> QED
      BY <2>3, <2>4, <3>2, <3>3
  <2> QED
    BY <2>5, <2>6
<1>4. ASSUME NEW w \in Workers, SaveFails(w)
      PROVE  ConfigInv'
  <2>1. pc[w] \in Saving /\ ~tidy /\ Finish(w) /\ UNCHANGED <<mem, registry, tidy, aligned>>
    BY <1>4 DEF SaveFails
  <2>2. \A v \in Workers : v # w /\ v \in alone => FALSE
    BY <2>1 DEF TypeOK, Saving
  <2>3. alone' = {}
    BY <2>1, <2>2, FinishEffect DEF TypeOK
  <2>4. AlignedIsUntouched'
    BY <2>1, FinishEffect DEF TypeOK
  <2>5. RegistryAgreesUnlessDisturbed'
    BY <2>1, FinishEffect
  <2> QED
    BY <2>1, <2>3, <2>4, <2>5
<1>5. ASSUME NEW w \in Workers, Register(w)
      PROVE  ConfigInv'
  <2>1. pc[w] = "register" /\ Finish(w) /\ UNCHANGED <<file, mem, tidy>> /\ target[w] \in Pids
    BY <1>5 DEF Register, TypeOK
  <2>2. registry' = IF target[w] \notin draft[w].providers
                      THEN registry \ {target[w]}
                      ELSE registry \cup ({target[w]} \cap Buildable)
    BY <1>5 DEF Register
  <2>3. aligned' = IF w \in alone THEN aligned \cup {target[w]} ELSE aligned
    BY <1>5 DEF Register
  <2>4. AloneIsAlone' /\ AloneHolds' /\ TidyIsUnwritten' /\ DiskAgreesUnlessDisturbed'
    BY <2>1, FinishEffect DEF TypeOK, Saving
  <2>5. AlignedIsUntouched'
    BY <2>1, <2>3, FinishEffect DEF TypeOK
  <2>6. RegistryAgreesUnlessDisturbed'
    <3> DEFINE t == target[w]
    <3>1. boot' = boot /\ mem' = mem
      BY <2>1, FinishEffect
    <3>2. \A p \in aligned : p # t
      OBVIOUS
    <3>3. \A p \in Pids : p # t => (p \in registry' <=> p \in registry)
      BY <2>2
    <3>4. w \in alone => (t \in registry' <=> t \in mem.providers \cap Buildable)
      BY <2>1, <2>2 DEF TypeOK
    <3>5. \A p \in aligned' : p \in aligned \/ (p = t /\ w \in alone)
      BY <2>3
    <3> QED
      BY <3>1, <3>2, <3>3, <3>4, <3>5 DEF TypeOK
  <2> QED
    BY <2>4, <2>5, <2>6
<1>6. ASSUME NEW w \in Workers, ReadFile(w)
      PROVE  ConfigInv'
  <2>1. pc[w] = "read" /\ UNCHANGED <<file, mem, registry, tidy, aligned>>
    BY <1>6 DEF ReadFile
  <2>2. CASE Loadable(file)
    BY <1>6, <2>1, <2>2 DEF ReadFile, Loadable, TypeOK, Saving
  <2>3. CASE ~Loadable(file)
    BY <1>6, <2>1, <2>3, FinishEffect DEF ReadFile, TypeOK, Saving
  <2> QED
    BY <2>2, <2>3
<1>7. ASSUME NEW w \in Workers, Swap(w)
      PROVE  ConfigInv'
  <2>1. /\ pc[w] = "swap" /\ Finish(w) /\ mem' = draft[w] /\ tidy' = (w \in alone)
        /\ aligned' = {p \in aligned : p \in mem.providers <=> p \in draft[w].providers}
        /\ UNCHANGED <<file, registry>>
    BY <1>7 DEF Swap
  <2>2. \A v \in alone : v = w
    BY <2>1 DEF TypeOK
  <2>3. alone' = {}
    BY <2>1, <2>2, FinishEffect
  <2>4. TidyIsUnwritten' /\ DiskAgreesUnlessDisturbed'
    BY <2>1, FinishEffect DEF TypeOK, Saving
  <2>5. AlignedIsUntouched'
    BY <2>1, FinishEffect DEF TypeOK
  <2>6. RegistryAgreesUnlessDisturbed'
    <3>1. boot' = boot /\ registry' = registry /\ mem' = draft[w]
      BY <2>1, FinishEffect
    <3>2. \A p \in aligned' :
             p \in aligned /\ (p \in mem.providers <=> p \in mem'.providers)
      BY <2>1
    <3> QED
      BY <3>1, <3>2
  <2> QED
    BY <2>3, <2>4, <2>5, <2>6
<1>8. ASSUME NEW w \in Workers, Drop(w)
      PROVE  ConfigInv'
  <2>1. UNCHANGED <<file, mem, registry, tidy, aligned>>
    BY <1>8 DEF Drop
  <2>2. CASE Finish(w)
    BY <2>1, <2>2, FinishEffect DEF TypeOK, Saving
  <2>3. CASE ~Finish(w)
    BY <1>8, <2>1, <2>3 DEF Drop, TypeOK, Saving
  <2> QED
    BY <2>2, <2>3
<1>9. CASE EditFile
  BY <1>9 DEF EditFile
<1>10. ASSUME boot # "up", alone = {}, Start \/ FirstRun \/ Migrate \/ Load
      PROVE  ConfigInv'
  <2>1. Idle /\ UNCHANGED <<pc, draft, target, alone>>
    BY <1>10 DEF TypeOK, Start, FirstRun, Migrate, Load
  <2>2. TidyIsUnwritten' /\ AloneIsAlone' /\ AloneHolds'
    BY <1>10, <2>1 DEF Idle, Saving
  <2>3. AlignedIsUntouched'
    BY <2>1 DEF Idle, TypeOK
  <2>4. DiskAgreesUnlessDisturbed'
    BY <1>10 DEF Start, FirstRun, Migrate, Load, Loadable
  <2>5. RegistryAgreesUnlessDisturbed'
    BY <1>10 DEF Start, FirstRun, Migrate, Load, Built, DefaultConfig
  <2> QED
    BY <2>2, <2>3, <2>4, <2>5
<1>11. CASE BootStep
  <2>1. boot # "up"
    BY <1>11 DEF BootStep, Start, FirstRun, Migrate, Load
  <2>2. alone = {}
    BY <2>1 DEF TypeOK, Idle
  <2> QED
    BY <1>10, <1>11, <2>1, <2>2 DEF BootStep
<1>12. CASE Exit
  BY <1>12 DEF Exit, Saving
<1>13. CASE UNCHANGED configVars
  BY <1>13 DEF configVars
<1> QED
  BY <1>1, <1>2, <1>3, <1>4, <1>5, <1>6, <1>7, <1>8, <1>9, <1>11, <1>12, <1>13
     DEF Next, AdminStep

\* For any number of handlers and providers, the file and the copy in memory
\* only differ after a save was overlapped, failed or dropped, or an edit
\* (update_with, save_to_disk and reload).
THEOREM DiskAgreementCorrect == Spec => []DiskAgreesUnlessDisturbed
<1>1. ConfigInv => DiskAgreesUnlessDisturbed
  BY DEF ConfigInv
<1> QED
  BY <1>1, ConfigInit, ConfigStep, PTL DEF Spec

\* For any number of handlers and providers, the registry is right about every
\* id it was last told of undisturbed (add_provider, remove_provider, reload).
THEOREM RegistryAgreementCorrect == Spec => []RegistryAgreesUnlessDisturbed
<1>1. ConfigInv => RegistryAgreesUnlessDisturbed
  BY DEF ConfigInv
<1> QED
  BY <1>1, ConfigInit, ConfigStep, PTL DEF Spec
=============================================================================
