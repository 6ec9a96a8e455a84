---------------------------- MODULE ConfigReload ----------------------------
(***************************************************************************)
(* package config: a service logs in to Vault, if it can, loads its        *)
(* configuration from a file and a secret from Vault or from the           *)
(* environment (NewDefaultSecretLoader, ChainSecretLoader); then           *)
(* InstallHotReload watches the file, loads every new version and copies   *)
(* the fields tagged reloadable into the live struct.  Other processes     *)
(* change the secrets at the same Vault path with PutSecret.               *)
(*                                                                         *)
(* The file holds a version of some of the fields, of a part of them while *)
(* an editor is writing it.  The struct has the leaves Fields, in the order*)
(* of the walk; Secret is the one the service's loader fills with a secret.*)
(* PathOf gives the sections on the way to a leaf that are pointers and    *)
(* that no default fills: a file without a field of such a section leaves  *)
(* the pointer nil.  External: the editor, fsnotify (which may coalesce    *)
(* events, and loses its watch with the watched inode), Vault and its      *)
(* other clients, the service's main that calls these functions, and the   *)
(* supervisor that restarts it.                                            *)
(***************************************************************************)
EXTENDS Integers, Sequences

CONSTANTS
  Fields, Tagged, Secret,  \* the struct, its tagged leaves and its secret
  Sections, PathOf,        \* the pointers in it, those on the way to a leaf
  Layouts,                 \* the sets of fields that a file may give
  Keys, SecretKey,         \* the keys of the Vault path, the service's key
  Typed,                   \* the keys whose value is a number or an object at first
  EnvValue,                \* the value of the secret in the environment
  Environments,            \* what the VAULT_ variables of a process may say
  Absent,                  \* no value: a missing key, a zero field
  NotAString,              \* such a value
  EnvOnly,                 \* the loader of a process that has no Vault
  Putters,                 \* goroutines that call PutSecret
  Debounce,                \* in ticks
  MaxTime, MaxWrites, MaxEvents, MaxPuts, MaxFaults   \* bounds

VaultEnvironment ==
  [address : BOOLEAN, credentials : BOOLEAN,
   mode : {"", "token", "approle", "kubernetes", "unsupported"}]

FieldSet == {Fields[i] : i \in DOMAIN Fields}

ASSUME ConfigAssumption ==
  /\ Fields \in Seq(FieldSet)
  /\ Tagged \subseteq FieldSet /\ Secret \in FieldSet \ Tagged
  /\ PathOf \in [FieldSet -> SUBSET Sections] /\ PathOf[Secret] = {}
  /\ Layouts \subseteq SUBSET (FieldSet \ {Secret}) /\ {} \in Layouts
  /\ SecretKey \in Keys /\ Typed \subseteq Keys /\ NotAString \notin Nat \cup {Absent}
  /\ Environments \subseteq VaultEnvironment
  /\ Debounce \in Nat \ {0} /\ MaxTime \in Nat
  /\ MaxWrites \in Nat /\ MaxEvents \in Nat /\ MaxPuts \in Nat /\ MaxFaults \in Nat

VARIABLES
  time, faults,
  file, written,      \* the file, and how many versions of it were begun
  watch,              \* the watch of the file, or "none" without a HotReloader
  pending, masked,    \* its events to come: writes, and whether there is another
  pc, lastFire,       \* the service's place in the code, HotReloader.lastFire
  loaded, there,      \* the struct just loaded, and its sections that are not nil
  live, sections,     \* the live struct, and its sections that are not nil
  next,               \* the place of applyReloadableStruct in the walk
  cache,              \* VaultSecretLoader.cache for SecretKey, or EnvOnly
  vault,              \* what Vault holds at the path
  putter, existing,   \* PutSecret: its place and its local variable
  stored,             \* history: what was put last under each key
  puts,
  serial              \* history: no PutSecret overlapped another, or failed to read

watchVars  == <<file, written, watch, pending, masked>>
structVars == <<loaded, there, live, sections, next>>
loopVars   == <<pc, lastFire, structVars, cache>>
vaultVars  == <<vault, putter, existing, stored, puts, serial>>
vars == <<time, faults, watchVars, loopVars, vaultVars>>

Never   == -Debounce       \* the zero time.Time
Blank   == [f \in FieldSet |-> Absent]
Nothing == [k \in Keys |-> Absent]
Stages  == {"connect", "load", "secret", "install", "select", "apply", "stopped"}

\* What a file may hold: fields of one version, the secret not among them.
FileFields == FieldSet \ {Secret}
Files == [version : 0 .. MaxWrites, given : Layouts, torn : BOOLEAN]

SectionsOf(given) == UNION {PathOf[f] : f \in given}

\* HotReloader.Start runs.
Watching == watch # "none"

Init == /\ time = 0 /\ faults = 0
        /\ file \in {c \in Files : c.version = 0 /\ ~c.torn}
        /\ written = 0 /\ watch = "none" /\ pending = 0 /\ masked = FALSE
        /\ pc = "connect" /\ lastFire = Never
        /\ loaded = Blank /\ there = {} /\ live = Blank /\ sections = {}
        /\ next = 1 /\ cache = EnvOnly
        /\ vault = [k \in Keys |-> IF k \in Typed THEN NotAString ELSE 0] /\ stored = vault
        /\ putter = [p \in Putters |-> "idle"]
        /\ existing = [p \in Putters |-> Nothing]
        /\ puts = 0 /\ serial = TRUE

Tick == /\ time < MaxTime
        /\ time' = time + 1
        /\ UNCHANGED <<faults, watchVars, loopVars, vaultVars>>

Fault == faults < MaxFaults /\ faults' = faults + 1

-----------------------------------------------------------------------------
(* The editor and fsnotify.                                                *)

\* A write raises an event, unless an equal one is still waiting.
Notify == \/ watch # "alive" /\ UNCHANGED pending
          \/ watch = "alive" /\ pending < MaxEvents /\ pending' = pending + 1
          \/ pending > 0 /\ UNCHANGED pending

Write(content) ==
  /\ file' = content
  /\ Notify
  /\ UNCHANGED <<time, faults, watch, masked, loopVars, vaultVars>>

\* An editor truncates the file and then fills it, in any order and in several writes.
Truncate == /\ ~file.torn /\ written < MaxWrites
            /\ written' = written + 1
            /\ Write([version |-> written + 1, given |-> {}, torn |-> TRUE])

Fill == /\ file.torn
        /\ \E content \in Files : /\ content.version = file.version
                                  /\ file.given \subseteq content.given
                                  /\ content # file
                                  /\ Write(content)
        /\ UNCHANGED written

\* It renames a copy to the file, or the file to a backup: the events are no Write
\* and no Create, and the watch goes with the inode.
Replace == /\ ~file.torn /\ written < MaxWrites
           /\ written' = written + 1
           /\ \E content \in Files : /\ content.version = written + 1 /\ ~content.torn
                                     /\ file' = content
           /\ watch' = IF Watching THEN "lost" ELSE "none"
           /\ masked' = (masked \/ watch = "alive")
           /\ UNCHANGED <<time, faults, pending, loopVars, vaultVars>>

-----------------------------------------------------------------------------
(* NewDefaultSecretLoader, Load, SecretLoader.Get, and the main that calls *)
(* them.                                                                   *)

\* authenticate: a token is taken as it is, the other modes ask Vault.
NeedsLogin(mode) == mode \in {"approle", "kubernetes"}
authenticate(mode) == NeedsLogin(mode) \/ mode \in {"", "token"}

\* NewFromEnv and NewVaultClient: an error if something is missing.
NewFromEnv(env) == env.credentials /\ authenticate(env.mode)

\* Without an address, or after an error, the loader asks the environment only, for
\* as long as the process lives.
NewDefaultSecretLoader ==
  /\ pc = "connect"
  /\ pc' = "load"
  /\ \E env \in Environments :
       \/ /\ cache' = IF env.address /\ NewFromEnv(env) THEN Absent ELSE EnvOnly
          /\ UNCHANGED faults
       \/ /\ env.address /\ NewFromEnv(env) /\ NeedsLogin(env.mode)
          /\ cache' = EnvOnly
          /\ Fault
  /\ UNCHANGED <<time, watchVars, lastFire, structVars, vaultVars>>

\* Load reads the file; what is missing from it is left to the defaults.
Reading(f) == IF f \in file.given THEN file.version ELSE Absent

Load ==
  /\ pc = "load"
  /\ loaded' = [f \in FieldSet |-> Reading(f)]
  /\ there' = SectionsOf(file.given)
  /\ pc' = "secret"
  /\ UNCHANGED <<time, faults, watchVars, lastFire, live, sections, next, cache, vaultVars>>

\* A torn file may not parse.  InstallHotReload keeps the live struct; at the
\* start MustLoad panics, and the service is started again.
LoadFails ==
  /\ pc = "load" /\ file.torn
  /\ \/ Watching /\ pc' = "select" /\ UNCHANGED cache
     \/ ~Watching /\ pc' = "connect" /\ cache' = EnvOnly
  /\ UNCHANGED <<time, faults, watchVars, lastFire, structVars, vaultVars>>

\* The secret is there: the first Load makes the struct live, a later one has
\* it applied.
Obtain(value) ==
  /\ pc = "secret"
  /\ loaded' = [loaded EXCEPT ![Secret] = value]
  /\ \/ Watching /\ pc' = "apply" /\ UNCHANGED <<live, sections>>
     \/ ~Watching /\ pc' = "install" /\ live' = loaded' /\ sections' = there
  /\ UNCHANGED <<time, watchVars, lastFire, there, next, vaultVars>>

\* GetSecrets skips what is not a string.
GetSecrets == [k \in Keys |-> IF vault[k] = NotAString THEN Absent ELSE vault[k]]

GetCached == /\ cache \notin {Absent, EnvOnly}
             /\ Obtain(cache)
             /\ UNCHANGED <<cache, faults>>

GetFromVault == /\ cache = Absent /\ GetSecrets[SecretKey] # Absent
                /\ Obtain(GetSecrets[SecretKey])
                /\ cache' = GetSecrets[SecretKey]
                /\ UNCHANGED faults

\* Vault does not know the key or cannot be reached: the chain logs the error
\* and asks the environment, which is all that another loader has.
GetFromEnv == /\ \/ cache = EnvOnly /\ UNCHANGED faults
                 \/ cache = Absent /\ GetSecrets[SecretKey] = Absent /\ UNCHANGED faults
                 \/ cache = Absent /\ Fault
              /\ Obtain(EnvValue)
              /\ UNCHANGED cache

\* Between Load and here, changes of the file raise no event.  A watcher that cannot
\* add the file runs without it; when there is no watcher at all, main goes on alone.
InstallHotReload ==
  /\ pc = "install"
  /\ \/ watch' = "alive" /\ pc' = "select" /\ UNCHANGED faults
     \/ watch' = "lost" /\ pc' = "select" /\ Fault
     \/ UNCHANGED watch /\ pc' = "stopped" /\ Fault
  /\ UNCHANGED <<time, file, written, pending, masked, lastFire, structVars, cache, vaultVars>>

-----------------------------------------------------------------------------
(* HotReloader.Start and ApplyReloadable.                                  *)

\* The mask lets events of writes through, and drops the others.
Receive == pc = "select" /\ pending > 0 /\ pending' = pending - 1

Masked == /\ pc = "select" /\ masked /\ masked' = FALSE
          /\ UNCHANGED <<time, faults, file, written, watch, pending, loopVars, vaultVars>>

\* time.Since(lastFire) < debounce
TooSoon == time - lastFire < Debounce

Debounced == /\ Receive /\ TooSoon
             /\ UNCHANGED <<time, faults, file, written, watch, masked, loopVars, vaultVars>>

\* Mutant of Fire: the mask lets only Create events through.
Fire_CreateOnly ==
  /\ Receive /\ ~TooSoon
  /\ UNCHANGED <<time, faults, file, written, watch, masked, loopVars, vaultVars>>

Fire == /\ Receive /\ ~TooSoon
        /\ lastFire' = time
        /\ pc' = "load"
        /\ UNCHANGED <<time, faults, file, written, watch, masked, structVars, cache, vaultVars>>

Walk == UNCHANGED <<time, faults, watchVars, lastFire, loaded, there, sections, cache, vaultVars>>

\* Mutant of NextField: the loop runs one field too far.
NextField_Past == /\ \/ next > Len(Fields) /\ next' = 1 /\ pc' = "select"
                     \/ next <= Len(Fields) /\ next' = next + 1 /\ UNCHANGED pc
                  /\ Walk

\* The end of one round of the walk over the leaves.
NextField == /\ \/ next = Len(Fields) /\ next' = 1 /\ pc' = "select"
                \/ next < Len(Fields) /\ next' = next + 1 /\ UNCHANGED pc
             /\ Walk

\* The walk enters a section that is there in the live struct and in the loaded one.
Reached(f) == PathOf[f] \subseteq sections \cap there

\* Mutant of ApplyField: the tag is not looked at.
ApplyField_Any ==
  /\ pc = "apply"
  /\ live' = [live EXCEPT ![Fields[next]] = loaded[Fields[next]]]
  /\ NextField

\* Mutant of ApplyField: return for continue at a field without the tag.
ApplyField_Stops ==
  /\ pc = "apply"
  /\ \/ /\ Fields[next] \in Tagged
        /\ live' = [live EXCEPT ![Fields[next]] = loaded[Fields[next]]]
        /\ NextField
     \/ /\ Fields[next] \notin Tagged
        /\ next' = 1 /\ pc' = "select"
        /\ UNCHANGED live /\ Walk

ApplyField ==
  /\ pc = "apply"
  /\ LET f == Fields[next] IN
       \/ f \in Tagged /\ Reached(f) /\ live' = [live EXCEPT ![f] = loaded[f]]
       \/ ~(f \in Tagged /\ Reached(f)) /\ UNCHANGED live
  /\ NextField

\* The function InstallHotReload returned, or the end of its context; while a
\* reload runs, the loop does not see it.
Stop == /\ pc = "select"
        /\ pc' = "stopped" /\ watch' = "none" /\ pending' = 0 /\ masked' = FALSE
        /\ UNCHANGED <<time, faults, file, written, lastFire, structVars, cache, vaultVars>>

Restart == /\ Fault
           /\ pc' = "connect" /\ watch' = "none" /\ pending' = 0 /\ masked' = FALSE
           /\ lastFire' = Never /\ cache' = EnvOnly /\ next' = 1
           /\ loaded' = Blank /\ there' = {} /\ live' = Blank /\ sections' = {}
           /\ UNCHANGED <<time, file, written, vaultVars>>

-----------------------------------------------------------------------------
(* VaultClient.PutSecret.                                                  *)

ReadExisting(p, data, ok) ==
  /\ putter[p] = "idle" /\ puts < MaxPuts
  /\ existing' = [existing EXCEPT ![p] = data]
  /\ putter' = [putter EXCEPT ![p] = "put"]
  /\ serial' = (serial /\ ok /\ \A q \in Putters : putter[q] = "idle")
  /\ UNCHANGED <<time, watchVars, loopVars, vault, stored, puts>>

GetExisting(p) == ReadExisting(p, GetSecrets, TRUE) /\ UNCHANGED faults

\* existing, _ := GetSecrets: after an error nothing is there.
GetExistingFails(p) == ReadExisting(p, Nothing, FALSE) /\ Fault

\* Mutant of Put: the other keys are not written back.
Put_Alone(p, k) ==
  /\ putter[p] = "put" /\ puts < MaxPuts
  /\ vault' = [Nothing EXCEPT ![k] = puts + 1]
  /\ stored' = [stored EXCEPT ![k] = puts + 1]
  /\ puts' = puts + 1
  /\ putter' = [putter EXCEPT ![p] = "idle"]
  /\ existing' = [existing EXCEPT ![p] = Nothing]
  /\ UNCHANGED <<time, faults, watchVars, loopVars, serial>>

Put(p, k) ==
  /\ putter[p] = "put" /\ puts < MaxPuts
  /\ vault' = [existing[p] EXCEPT ![k] = puts + 1]
  /\ stored' = [stored EXCEPT ![k] = puts + 1]
  /\ puts' = puts + 1
  /\ putter' = [putter EXCEPT ![p] = "idle"]
  /\ existing' = [existing EXCEPT ![p] = Nothing]
  /\ UNCHANGED <<time, faults, watchVars, loopVars, serial>>

PutFails(p) ==
  /\ putter[p] = "put"
  /\ putter' = [putter EXCEPT ![p] = "idle"]
  /\ existing' = [existing EXCEPT ![p] = Nothing]
  /\ Fault
  /\ UNCHANGED <<time, watchVars, loopVars, vault, stored, puts, serial>>

-----------------------------------------------------------------------------

Service == \/ NewDefaultSecretLoader \/ Load \/ LoadFails \/ GetCached \/ GetFromVault \/ GetFromEnv
           \/ InstallHotReload \/ Masked \/ Debounced \/ Fire \/ ApplyField

Environment == Tick \/ Truncate \/ Fill \/ Replace \/ Stop \/ Restart

PutSecret(p) == \/ GetExisting(p) \/ GetExistingFails(p) \/ PutFails(p)
                \/ \E k \in Keys : Put(p, k)

Next == Service \/ Environment \/ \E p \in Putters : PutSecret(p)

Spec == Init /\ [][Next]_vars

\* The service's goroutines are scheduled, and the channel of events is a queue;
\* nothing else need happen.
FairSpec == Spec /\ WF_vars(Service) /\ WF_vars(Debounced \/ Fire)

-----------------------------------------------------------------------------
(* Properties.                                                             *)

Contents == 0 .. MaxWrites \cup {Absent}
Strings  == 0 .. MaxPuts \cup {Absent}
Struct   == [FieldSet -> Contents \cup Strings \cup {EnvValue}]

WatchTypeOK == /\ file \in Files /\ written \in 0 .. MaxWrites
               /\ watch \in {"none", "alive", "lost"}
               /\ pending \in Nat /\ masked \in BOOLEAN

LoopTypeOK == /\ pc \in Stages /\ lastFire \in 0 .. MaxTime \cup {Never}
              /\ loaded \in Struct /\ live \in Struct
              /\ there \subseteq Sections /\ sections \subseteq Sections
              /\ next \in DOMAIN Fields
              /\ cache \in Strings \cup {EnvOnly}

VaultTypeOK == /\ vault \in [Keys -> Strings \cup {NotAString}]
               /\ stored \in [Keys -> Strings \cup {NotAString}]
               /\ putter \in [Putters -> {"idle", "put"}]
               /\ existing \in [Putters -> [Keys -> Strings]]
               /\ puts \in 0 .. MaxPuts /\ serial \in BOOLEAN

\* Every variable holds a value of its kind; events come from a watch only.
TypeOK == /\ time \in 0 .. MaxTime /\ faults \in 0 .. MaxFaults
          /\ WatchTypeOK /\ LoopTypeOK /\ VaultTypeOK
          /\ (pending > 0 \/ pc \in {"select", "apply"}) => Watching
          /\ pc \in {"install", "stopped"} => ~Watching

\* "secrets and pool sizes never hot-swap under live traffic": from the first
\* Load to the end of the process the fields without the tag keep their value,
\* also when Vault answers a later load with another secret than the first.
SecretsNeedRestart ==
  [][(live # Blank /\ live' # Blank) =>
        \A f \in FieldSet \ Tagged : live'[f] = live[f]]_vars

\* Between two reloads a reloadable field shows what the last load read, and two of
\* them show different versions of the file only when a section on the way to one of
\* them was nil in the live or in the loaded struct (hot_reload.go:200): no reload is
\* left half applied.
ReloadsAreWhole ==
  pc = "select" => \A f, g \in Tagged : (Reached(f) /\ Reached(g)) =>
                     /\ live[f] = loaded[f]
                     /\ live[f] = live[g] \/ Absent \in {live[f], live[g]}

\* What readers of the live struct may count on, except while the walk over the
\* fields writes it (applyReloadableStruct takes no lock): the reload has happened
\* when the walk begins, and its rounds carry it out.
Applied == [f \in FieldSet |-> IF pc = "apply" /\ f \in Tagged /\ Reached(f)
                                THEN loaded[f] ELSE live[f]]

Hot == INSTANCE HotReload WITH
         running <- Watching \/ pc \in {"install", "stopped"},
         config <- Applied,
         Versions <- 0 .. MaxWrites, Credentials <- Strings \cup {EnvValue}

\* A reload is one step, whichever fields carry the tag and in whatever order, also
\* when the file was partly written, Vault did not answer (applyReloadableStruct takes
\* from the struct just loaded what has the tag, whatever the loader put into the rest),
\* a section is nil on one side, or the process ends in the middle of the walk.
HotReloadKept == Hot!Spec

\* PutSecret calls that do not overlap, and whose reads succeed, leave every string of
\* the path as it was put last. What is not a string is gone with the first of them:
\* GetSecrets has skipped it (vault.go:171-175).
SerialPutsPreserve ==
  serial => \A k \in Keys :
              vault[k] = IF stored[k] = NotAString /\ puts > 0 THEN Absent ELSE stored[k]

\* A version of the file that is complete while the loop is idle, no event of a write
\* is waiting but its own, and the debounce time is over, becomes live wherever the
\* walk reaches, whatever Vault answers, unless the file changes again or the reloader
\* stops. (A version that replaces the watched file has no such event.)
LoneVersion(v) ==
  file.version = v /\ ~file.torn /\ pc = "select" /\ pending = 1 /\ ~TooSoon

Shown == \A f \in Tagged : PathOf[f] \subseteq sections \cap SectionsOf(file.given) =>
                              live[f] = Reading(f)

LoneEditGoesLive ==
  \A v \in 0 .. MaxWrites :
    LoneVersion(v) ~> (file.version # v \/ ~Watching \/ Shown)

-----------------------------------------------------------------------------
(* The invariants behind them.                                             *)

\* A service that is starting has no live struct yet.
BootHasNoLive == (pc \in {"connect", "load", "secret"} /\ ~Watching) =>
                   live = Blank /\ sections = {}

\* What was loaded is what the file held at one moment, but for the secret. While a
\* reload is being applied, that much of it is live.
LoadsAreWhole == \E v \in 0 .. MaxWrites, given \in Layouts :
                   /\ \A f \in FileFields : loaded[f] = IF f \in given THEN v ELSE Absent
                   /\ there = SectionsOf(given)
AppliedSoFar  == \A i \in 1 .. next - 1 :
                   LET f == Fields[i] IN f \in Tagged /\ Reached(f) => live[f] = loaded[f]
WholeOutside  == /\ pc # "apply" => next = 1
                 /\ pc \notin {"secret", "apply"} =>
                      \A f \in Tagged : Reached(f) => live[f] = loaded[f]

\* A PutSecret that is alone writes back the strings that it read.
SerialPuts == serial => /\ SerialPutsPreserve
                        /\ \A p \in Putters :
                             putter[p] = "put" =>
                               /\ existing[p] = GetSecrets
                               /\ \A q \in Putters \ {p} : putter[q] = "idle"

IInv == /\ TypeOK
        /\ BootHasNoLive
        /\ LoadsAreWhole /\ AppliedSoFar /\ WholeOutside
        /\ SerialPuts
=============================================================================
