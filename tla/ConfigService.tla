---------------------------- MODULE ConfigService ----------------------------
(***************************************************************************)
(* The configuration in its three places (src/src/config/service.rs,       *)
(* src/src/server/admin.rs, src/src/providers/registry.rs): the TOML file, *)
(* the copy in memory and the registry of adapters built from it.  Admin   *)
(* handlers change the copy under its lock, then write the file in the     *)
(* blocking pool, then change the registry, and nothing orders one handler *)
(* with another across these steps.  `tokio::fs::write` empties the file   *)
(* before it fills it.  A reload reads the file and swaps the copy.        *)
(***************************************************************************)
EXTENDS FiniteSets

CONSTANTS
    Workers,    \* admin handlers that may run at the same time
    Pids,       \* provider ids
    Buildable,  \* the ids whose configuration yields an adapter (build_adapter)
    NoProvider  \* a tier without a primary; a handler that registers nothing

ASSUME ConfigAssumption == Buildable \subseteq Pids /\ NoProvider \notin Pids

\* One tier stands for the tier table: what it names must be configured.
Config == [providers : SUBSET Pids, tier : Pids \cup {NoProvider}]

DefaultConfig == [providers |-> {}, tier |-> NoProvider]

\* check_semantic: every tier primary names a configured provider.
Valid(c) == c.tier # NoProvider => c.tier \in c.providers

\* What the file holds.  An empty file parses to the defaults; the first-run
\* file has a key table without key or name, which no typed parse accepts.
Kinds   == {"missing", "empty", "config", "firstrun", "garbled"}
Content == [kind : Kinds, config : Config]

Saved(c) == [kind |-> "config", config |-> c]
Text(k)  == [kind |-> k, config |-> DefaultConfig]

Loadable(f) == f.kind \in {"empty", "config"} /\ Valid(f.config)

\* from_configs: one provider without an adapter and the registry starts empty.
Built(c) == IF c.providers \subseteq Buildable THEN c.providers ELSE {}

VARIABLES
    file,      \* what is at ConfigService.path
    mem,       \* ConfigService.inner
    registry,  \* ProviderRegistry.providers
    boot,      \* where the process stands between start and exit
    pc,        \* where each handler stands
    draft,     \* the configuration each handler is to write, or to swap in
    target,    \* the provider each handler registers or removes after its save
    alone,     \* history: handlers no other handler or editor has overlapped
    tidy,      \* history: an undisturbed load or save was the last to touch file
    aligned    \* history: ids the registry was last told of undisturbed

configVars == <<file, mem, registry, boot, pc, draft, target, alone, tidy, aligned>>

Boots   == {"down", "firstrun", "migrating", "reading", "up", "refused"}
Saving  == {"truncate", "write"}
Waiting == {"register", "read", "swap"}

Init ==
    /\ file \in {Text("missing")} \cup {Saved(c) : c \in {d \in Config : Valid(d)}}
    /\ mem      = DefaultConfig
    /\ registry = {}
    /\ boot     = "down"
    /\ pc       = [w \in Workers |-> "idle"]
    /\ draft    = [w \in Workers |-> DefaultConfig]
    /\ target   = [w \in Workers |-> NoProvider]
    /\ alone    = {}
    /\ tidy     = FALSE
    /\ aligned  = {}

Idle == \A w \in Workers : pc[w] = "idle"

-----------------------------------------------------------------------------
(* A handler begins and ends *)

\* It overlaps whatever is in flight.
Begin(w, label, c, p) ==
    /\ boot = "up"
    /\ pc[w] = "idle"
    /\ pc'     = [pc EXCEPT ![w] = label]
    /\ draft'  = [draft EXCEPT ![w] = c]
    /\ target' = [target EXCEPT ![w] = p]
    /\ alone'  = IF Idle THEN {w} ELSE {}
    /\ UNCHANGED <<file, registry, boot>>

Finish(w) ==
    /\ pc'     = [pc EXCEPT ![w] = "idle"]
    /\ draft'  = [draft EXCEPT ![w] = DefaultConfig]
    /\ target' = [target EXCEPT ![w] = NoProvider]
    /\ alone'  = alone \ {w}
    /\ UNCHANGED boot

-----------------------------------------------------------------------------
(* update_with and save_to_disk *)

\* Mutation of Update: the configuration before the change is what is saved.
BugSavesPrevious(w, c, p) ==
    /\ Begin(w, "truncate", mem, p)
    /\ mem' = c
    /\ tidy' = FALSE
    /\ aligned' = aligned \ {p}

\* The copy in memory changes at once, checked by nobody, and is what is saved.
Update(w, c, p) ==
    /\ Begin(w, "truncate", c, p)
    /\ mem' = c
    /\ tidy' = FALSE
    /\ aligned' = aligned \ {p}

AddProvider(w, p)    == Update(w, [mem EXCEPT !.providers = @ \cup {p}], p)
RemoveProvider(w, p) == Update(w, [mem EXCEPT !.providers = @ \ {p}], p)
UpdateTier(w, p)     == Update(w, [mem EXCEPT !.tier = p], NoProvider)

SaveConfig(w) ==
    /\ Begin(w, "truncate", mem, NoProvider)
    /\ tidy' = FALSE
    /\ UNCHANGED <<mem, aligned>>

Truncate(w) ==
    /\ pc[w] = "truncate"
    /\ pc' = [pc EXCEPT ![w] = "write"]
    /\ file' = Text("empty")
    /\ UNCHANGED <<mem, registry, boot, draft, target, alone, tidy, aligned>>

\* Over another text, put there since it was emptied, the end of the longer one
\* may remain.
WriteOut(w) ==
    /\ pc[w] = "write"
    /\ file' \in {Saved(draft[w])} \cup
                 (IF file \in {Text("empty"), Saved(draft[w])} THEN {} ELSE {Text("garbled")})
    /\ tidy' = (w \in alone)
    /\ IF target[w] = NoProvider
         THEN Finish(w)
         ELSE /\ pc' = [pc EXCEPT ![w] = "register"]
              /\ UNCHANGED <<draft, target, alone, boot>>
    /\ UNCHANGED <<mem, registry, aligned>>

\* The file cannot be created, or a part of the text is all that is written.
SaveFails(w) ==
    /\ pc[w] \in Saving
    /\ file' \in {file} \cup (IF pc[w] = "write" THEN {Text("garbled")} ELSE {})
    /\ Finish(w)
    /\ UNCHANGED <<mem, registry, tidy, aligned>>

\* Mutation of Register: the adapter of a removed provider stays.
BugKeepsAdapter(w) ==
    /\ pc[w] = "register"
    /\ registry' = IF target[w] \in draft[w].providers \cap Buildable
                     THEN registry \cup {target[w]}
                     ELSE registry
    /\ aligned' = IF w \in alone THEN aligned \cup {target[w]} ELSE aligned
    /\ Finish(w)
    /\ UNCHANGED <<file, mem, tidy>>

\* ProviderRegistry::add after a save that has the provider, remove after one
\* that has not.  An adapter that cannot be built is an error after the fact.
Register(w) ==
    /\ pc[w] = "register"
    /\ registry' = IF target[w] \notin draft[w].providers
                     THEN registry \ {target[w]}
                     ELSE registry \cup ({target[w]} \cap Buildable)
    /\ aligned' = IF w \in alone THEN aligned \cup {target[w]} ELSE aligned
    /\ Finish(w)
    /\ UNCHANGED <<file, mem, tidy>>

-----------------------------------------------------------------------------
(* reload *)

Reload(w) ==
    /\ Begin(w, "read", DefaultConfig, NoProvider)
    /\ UNCHANGED <<mem, tidy, aligned>>

\* A file that is missing, or fails the checks, ends the reload.
ReadFile(w) ==
    /\ pc[w] = "read"
    /\ IF Loadable(file)
         THEN /\ pc' = [pc EXCEPT ![w] = "swap"]
              /\ draft' = [draft EXCEPT ![w] = file.config]
              /\ UNCHANGED <<target, alone, boot>>
         ELSE Finish(w)
    /\ UNCHANGED <<file, mem, registry, tidy, aligned>>

\* The copy in memory is replaced; the registry is not told.
Swap(w) ==
    /\ pc[w] = "swap"
    /\ mem' = draft[w]
    /\ tidy' = (w \in alone)
    /\ aligned' = {p \in aligned : p \in mem.providers <=> p \in draft[w].providers}
    /\ Finish(w)
    /\ UNCHANGED <<file, registry>>

-----------------------------------------------------------------------------
(* Clients that go away, editors, and the life of the process *)

\* The handler is dropped at an await: it stops there, or its write has been
\* handed to the blocking pool and is finished without what was to follow.
Drop(w) ==
    /\ pc[w] # "idle"
    /\ \/ Finish(w) /\ pc[w] # "write"
       \/ /\ pc[w] \in Saving
          /\ target' = [target EXCEPT ![w] = NoProvider]
          /\ UNCHANGED <<pc, draft, alone, boot>>
    /\ UNCHANGED <<file, mem, registry, tidy, aligned>>

\* The operator replaces the file, at any time and by anything.
EditFile ==
    /\ file' \in {Text("garbled")} \cup {Saved(c) : c \in Config}
    /\ tidy' = FALSE
    /\ alone' = {}
    /\ UNCHANGED <<mem, registry, boot, pc, draft, target, aligned>>

\* ConfigService::load begins: a missing file is created, and one without
\* [ratelimit], which only an empty or a first-run file is here, is rewritten
\* with it in place; the defaults of an empty file stay the defaults.
Start ==
    /\ boot \in {"down", "refused"}
    /\ \/ /\ file.kind = "missing"
          /\ file' = Text("empty") /\ boot' = "firstrun"
       \/ /\ file.kind = "firstrun"
          /\ file' = Text("empty") /\ boot' = "migrating"
       \/ /\ file.kind = "empty"
          /\ file' = Saved(DefaultConfig) /\ boot' = "reading"
       \/ /\ file.kind \in {"config", "garbled"}
          /\ boot' = "reading" /\ UNCHANGED file
    /\ UNCHANGED <<mem, registry, pc, draft, target, alone, tidy, aligned>>

\* write_minimal_config ends: this start goes on with the defaults.
FirstRun ==
    /\ boot = "firstrun"
    /\ file' = Text("firstrun")
    /\ mem' = DefaultConfig
    /\ registry' = {}
    /\ boot' = "up"
    /\ tidy' = FALSE
    /\ aligned' = Pids
    /\ UNCHANGED <<pc, draft, target, alone>>

\* A migration that fails is logged, and the file read as it is left.
Migrate ==
    /\ boot = "migrating"
    /\ file' \in {Text("firstrun"), file}
    /\ boot' = "reading"
    /\ UNCHANGED <<mem, registry, pc, draft, target, alone, tidy, aligned>>

\* Mutation of Load: a file that fails the checks is loaded with warnings.
BugLoadsAnyway ==
    /\ boot = "reading"
    /\ mem' = IF file.kind = "garbled" THEN file ELSE file.config
    /\ registry' = {}
    /\ boot' = "up"
    /\ tidy' = FALSE
    /\ aligned' = {}
    /\ UNCHANGED <<file, pc, draft, target, alone>>

Load ==
    /\ boot = "reading"
    /\ \/ /\ ~Loadable(file)
          /\ boot' = "refused"
          /\ UNCHANGED <<mem, registry, tidy, aligned>>
       \/ /\ Loadable(file)
          /\ mem' = file.config
          /\ registry' = Built(file.config)
          /\ boot' = "up"
          /\ tidy' = TRUE
          /\ aligned' = IF mem'.providers \subseteq Buildable
                          THEN Pids ELSE Pids \ mem'.providers
    /\ UNCHANGED <<file, pc, draft, target, alone>>

\* A crash or a stop, in the middle of anything.
Exit ==
    /\ boot # "down"
    /\ boot' = "down"
    /\ file' \in {file} \cup
                 (IF \E w \in Workers : pc[w] = "write" THEN {Text("garbled")} ELSE {})
    /\ mem'      = DefaultConfig
    /\ registry' = {}
    /\ pc'       = [w \in Workers |-> "idle"]
    /\ draft'    = [w \in Workers |-> DefaultConfig]
    /\ target'   = [w \in Workers |-> NoProvider]
    /\ alone'    = {}
    /\ tidy'     = FALSE
    /\ aligned'  = {}

-----------------------------------------------------------------------------
AdminRequest(w) ==
    \/ \E p \in Pids : AddProvider(w, p) \/ RemoveProvider(w, p) \/ UpdateTier(w, p)
    \/ SaveConfig(w)
    \/ Reload(w)

AdminStep(w) == Truncate(w) \/ WriteOut(w) \/ Register(w) \/ ReadFile(w) \/ Swap(w)

BootStep == Start \/ FirstRun \/ Migrate \/ Load

Next ==
    \/ \E w \in Workers : AdminRequest(w) \/ AdminStep(w) \/ SaveFails(w) \/ Drop(w)
    \/ EditFile \/ BootStep \/ Exit

Spec == Init /\ [][Next]_configVars

-----------------------------------------------------------------------------
\* Every variable has its type (ConfigService, ProviderRegistry), and handlers
\* are only in flight while the server is up.
TypeOK ==
    /\ file \in Content
    /\ mem \in Config
    /\ registry \subseteq Buildable
    /\ boot \in Boots
    /\ pc \in [Workers -> {"idle"} \cup Saving \cup Waiting]
    /\ draft \in [Workers -> Config]
    /\ target \in [Workers -> Pids \cup {NoProvider}]
    /\ \A w \in Workers : pc[w] = "register" => target[w] \in Pids
    /\ boot # "up" => Idle
    /\ alone \subseteq Workers
    /\ tidy \in BOOLEAN
    /\ aligned \subseteq Pids

\* While the server is up, the file and the copy in memory only differ if a
\* save was overlapped, failed or lost its handler, or somebody edited the
\* file; one undisturbed save or reload makes them agree again (update_with,
\* save_to_disk and reload, service.rs).
DiskAgreesUnlessDisturbed ==
    boot = "up" /\ tidy => file.config = mem /\ file.kind \in {"config", "empty"}

\* The registry only differs from the configuration in memory on ids that a
\* reload has changed, or an overlapped, failed or dropped admin request, or
\* that a start could not build (admin.rs, registry.rs from_configs).
RegistryAgreesUnlessDisturbed ==
    boot = "up" => \A p \in aligned :
        p \in registry <=> p \in mem.providers \cap Buildable
=============================================================================
