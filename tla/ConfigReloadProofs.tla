------------------------- MODULE ConfigReloadProofs -------------------------
(* The invariants of ConfigReload hold for every struct, every number of    *)
(* keys and putters, and every bound.                                       *)
EXTENDS ConfigReload, TLAPS

USE DEF watchVars, structVars, loopVars, vaultVars, vars

LEMMA FieldsAreFields ==
  /\ Len(Fields) \in Nat \ {0} /\ DOMAIN Fields = 1 .. Len(Fields)
  /\ \A i \in DOMAIN Fields : Fields[i] \in FieldSet
  /\ Tagged \subseteq FieldSet /\ Secret \in FieldSet /\ Secret \notin Tagged
  /\ Tagged \subseteq FileFields /\ FileFields \subseteq FieldSet
<1>1. Fields \in Seq(FieldSet) /\ Tagged \subseteq FieldSet /\ Secret \in FieldSet \ Tagged
  BY ConfigAssumption
<1>2. DOMAIN Fields = 1 .. Len(Fields) /\ Len(Fields) \in Nat
  BY <1>1
<1>3. \A i \in DOMAIN Fields : Fields[i] \in FieldSet
  BY DEF FieldSet
<1>4. Len(Fields) # 0
  BY <1>1, <1>2 DEF FieldSet
<1>. QED  BY <1>1, <1>2, <1>3, <1>4 DEF FileFields

\* The sections of what a file gives.
LEMMA SectionsType ==
  ASSUME NEW given \in Layouts
  PROVE  SectionsOf(given) \subseteq Sections
<1>1. given \subseteq FieldSet /\ PathOf \in [FieldSet -> SUBSET Sections]
  BY ConfigAssumption
<1>. QED  BY <1>1 DEF SectionsOf

\* What Vault holds, read as strings.
LEMMA StringsType ==
  ASSUME VaultTypeOK
  PROVE  GetSecrets \in [Keys -> Strings]
BY DEF VaultTypeOK, GetSecrets, Strings

-----------------------------------------------------------------------------
(* Types.                                                                   *)

LEMMA TypesInductive == TypeOK /\ [Next]_vars => TypeOK'
<1>. SUFFICES ASSUME TypeOK, [Next]_vars PROVE TypeOK'
  OBVIOUS
<1>. USE ConfigAssumption, FieldsAreFields
         DEF TypeOK, Contents, Strings, Stages, Never, Fault, Watching
<1>1. CASE UNCHANGED vars
  BY <1>1 DEF WatchTypeOK, LoopTypeOK, VaultTypeOK, Struct
<1>2. CASE Service
  <2>0. CASE NewDefaultSecretLoader
    <3>1. cache' \in {Absent, EnvOnly} /\ faults' \in 0 .. MaxFaults
      BY <2>0 DEF NewDefaultSecretLoader
    <3>. QED  BY <2>0, <3>1 DEF NewDefaultSecretLoader, WatchTypeOK, LoopTypeOK, VaultTypeOK
  <2>1. CASE Load
    <3>0. file \in Files
      BY DEF WatchTypeOK
    <3>1. loaded' \in Struct
      BY <2>1, <3>0 DEF Load, Reading, Files, Struct
    <3>2. there' \subseteq Sections
      BY <2>1, <3>0, SectionsType DEF Load, Files
    <3>. QED  BY <2>1, <3>1, <3>2 DEF Load, WatchTypeOK, LoopTypeOK, VaultTypeOK
  <2>2. CASE LoadFails
    BY <2>2 DEF LoadFails, WatchTypeOK, LoopTypeOK, VaultTypeOK
  <2>3. ASSUME NEW value \in Strings \cup {EnvValue}, Obtain(value),
               cache' \in Strings \cup {EnvOnly}, faults' \in 0 .. MaxFaults
        PROVE  TypeOK'
    <3>1. loaded' \in Struct
      BY <2>3 DEF Obtain, LoopTypeOK, Struct
    <3>2. /\ UNCHANGED <<time, watchVars, vaultVars, lastFire, there, next>>
          /\ \/ Watching /\ pc' = "apply" /\ UNCHANGED <<live, sections>>
             \/ ~Watching /\ pc' = "install" /\ live' = loaded' /\ sections' = there
      BY <2>3 DEF Obtain
    <3>3. WatchTypeOK' /\ VaultTypeOK'
      BY <3>2 DEF WatchTypeOK, VaultTypeOK
    <3>4. LoopTypeOK'
      BY <2>3, <3>1, <3>2 DEF LoopTypeOK
    <3>5. /\ ((pending > 0 \/ pc \in {"select", "apply"}) => Watching)'
          /\ (pc \in {"install", "stopped"} => ~Watching)'
      BY <3>2
    <3>. QED  BY <2>3, <3>2, <3>3, <3>4, <3>5
  <2>4. CASE GetCached
    BY <2>3, <2>4 DEF GetCached, LoopTypeOK
  <2>5. CASE GetFromVault
    BY <2>3, <2>5, StringsType DEF GetFromVault
  <2>6. CASE GetFromEnv
    <3>1. faults' \in 0 .. MaxFaults
      BY <2>6 DEF GetFromEnv
    <3>. QED  BY <2>3, <2>6, <3>1 DEF GetFromEnv, LoopTypeOK
  <2>7. CASE InstallHotReload
    <3>1. /\ watch' \in {"none", "alive", "lost"} /\ faults' \in 0 .. MaxFaults
          /\ pc' \in {"select", "stopped"} /\ pc' = "select" <=> watch' # "none"
      BY <2>7 DEF InstallHotReload
    <3>. QED  BY <2>7, <3>1 DEF InstallHotReload, WatchTypeOK, LoopTypeOK, VaultTypeOK
  <2>11. CASE Masked
    BY <2>11 DEF Masked, WatchTypeOK, LoopTypeOK, VaultTypeOK
  <2>8. CASE Debounced
    BY <2>8 DEF Debounced, Receive, WatchTypeOK, LoopTypeOK, VaultTypeOK
  <2>9. CASE Fire
    BY <2>9 DEF Fire, Receive, WatchTypeOK, LoopTypeOK, VaultTypeOK
  <2>10. CASE ApplyField
    <3>1. live' \in Struct
      BY <2>10 DEF ApplyField, LoopTypeOK, Struct
    <3>2. next' \in DOMAIN Fields /\ pc' \in {"apply", "select"}
      BY <2>10 DEF ApplyField, NextField, LoopTypeOK
    <3>. QED  BY <2>10, <3>1, <3>2 DEF ApplyField, NextField, Walk, WatchTypeOK, LoopTypeOK, VaultTypeOK
  <2>. QED  BY <1>2, <2>0, <2>1, <2>2, <2>4, <2>5, <2>6, <2>7, <2>8, <2>9, <2>10, <2>11 DEF Service
<1>3. CASE Environment
  <2>1. CASE Tick
    BY <2>1 DEF Tick, WatchTypeOK, LoopTypeOK, VaultTypeOK
  <2>2. ASSUME NEW content \in Files, Write(content),
               written' \in 0 .. MaxWrites
        PROVE  TypeOK'
    BY <2>2 DEF Write, Notify, WatchTypeOK, LoopTypeOK, VaultTypeOK
  <2>3. CASE Truncate
    <3>1. [version |-> written + 1, given |-> {}, torn |-> TRUE] \in Files /\ written' \in 0 .. MaxWrites
      BY <2>3 DEF Truncate, WatchTypeOK, Files
    <3>. QED  BY <2>2, <2>3, <3>1 DEF Truncate
  <2>4. CASE Fill
    BY <2>2, <2>4 DEF Fill, WatchTypeOK
  <2>5. CASE Replace
    <3>1. /\ file' \in Files /\ written' \in 0 .. MaxWrites /\ masked' \in BOOLEAN
          /\ watch' \in {"none", "alive", "lost"} /\ watch' # "none" <=> watch # "none"
      BY <2>5 DEF Replace, WatchTypeOK
    <3>. QED  BY <2>5, <3>1 DEF Replace, WatchTypeOK, LoopTypeOK, VaultTypeOK
  <2>6. CASE Stop
    <3>1. masked' = FALSE /\ watch' = "none" /\ pending' = 0 /\ pc' = "stopped"
      BY <2>6 DEF Stop
    <3>2. masked' \in BOOLEAN
      BY <3>1
    <3>3. WatchTypeOK'
      BY <2>6, <3>1, <3>2 DEF Stop, WatchTypeOK
    <3>4. LoopTypeOK' /\ VaultTypeOK'
      BY <2>6, <3>1 DEF Stop, LoopTypeOK, VaultTypeOK
    <3>. QED  BY <2>6, <3>1, <3>3, <3>4 DEF Stop
  <2>7. CASE Restart
    <3>1. Blank \in Struct
      BY DEF Blank, Struct
    <3>2. masked' = FALSE /\ watch' = "none" /\ pending' = 0 /\ pc' = "connect"
      BY <2>7 DEF Restart
    <3>3. masked' \in BOOLEAN
      BY <3>2
    <3>4. WatchTypeOK'
      BY <2>7, <3>2, <3>3 DEF Restart, WatchTypeOK
    <3>5. LoopTypeOK' /\ VaultTypeOK'
      BY <2>7, <3>1, <3>2 DEF Restart, LoopTypeOK, VaultTypeOK
    <3>6. faults' \in 0 .. MaxFaults
      BY <2>7 DEF Restart
    <3>. QED  BY <2>7, <3>2, <3>4, <3>5, <3>6 DEF Restart
  <2>. QED  BY <1>3, <2>1, <2>3, <2>4, <2>5, <2>6, <2>7 DEF Environment
<1>4. ASSUME NEW p \in Putters, PutSecret(p) PROVE TypeOK'
  <2>1. ASSUME NEW data \in [Keys -> Strings], NEW ok, ReadExisting(p, data, ok),
               serial' \in BOOLEAN, faults' \in 0 .. MaxFaults
        PROVE  TypeOK'
    BY <2>1 DEF ReadExisting, WatchTypeOK, LoopTypeOK, VaultTypeOK
  <2>2. CASE GetExisting(p)
    <3>1. serial' \in BOOLEAN
      BY <2>2 DEF GetExisting, ReadExisting
    <3>. QED  BY <2>1, <2>2, <3>1, StringsType DEF GetExisting
  <2>3. CASE GetExistingFails(p)
    <3>1. Nothing \in [Keys -> Strings]
      BY DEF Nothing
    <3>2. serial' \in BOOLEAN
      BY <2>3 DEF GetExistingFails, ReadExisting
    <3>3. faults' \in 0 .. MaxFaults
      BY <2>3 DEF GetExistingFails
    <3>. QED  BY <2>1, <2>3, <3>1, <3>2, <3>3 DEF GetExistingFails
  <2>4. CASE PutFails(p)
    BY <2>4 DEF PutFails, Nothing, WatchTypeOK, LoopTypeOK, VaultTypeOK
  <2>5. ASSUME NEW k \in Keys, Put(p, k) PROVE TypeOK'
    BY <2>5 DEF Put, Nothing, WatchTypeOK, LoopTypeOK, VaultTypeOK
  <2>. QED  BY <1>4, <2>2, <2>3, <2>4, <2>5 DEF PutSecret
<1>. QED  BY <1>1, <1>2, <1>3, <1>4 DEF Next

-----------------------------------------------------------------------------
(* The reload loop.                                                         *)

LoopInv == BootHasNoLive /\ LoadsAreWhole /\ AppliedSoFar /\ WholeOutside

\* A process that has loaded nothing yet.
LEMMA BlankIsWhole ==
  ASSUME loaded' = Blank, there' = {}
  PROVE  LoadsAreWhole'
<1>1. {} \in Layouts /\ 0 \in 0 .. MaxWrites
  BY ConfigAssumption
<1>2. SectionsOf({}) = {}
  BY DEF SectionsOf
<1>3. \A f \in FileFields : loaded'[f] = IF f \in {} THEN 0 ELSE Absent
  BY FieldsAreFields DEF Blank
<1>. QED  BY <1>1, <1>2, <1>3 DEF LoadsAreWhole

LEMMA LoopInductive == TypeOK /\ LoopInv /\ [Next]_vars => LoopInv'
<1>. SUFFICES ASSUME TypeOK, LoopInv, [Next]_vars PROVE LoopInv'
  OBVIOUS
<1>. USE FieldsAreFields DEF Watching
<1>a. loaded \in Struct /\ live \in Struct /\ next \in 1 .. Len(Fields) /\ file \in Files
  BY DEF TypeOK, LoopTypeOK, WatchTypeOK
<1>1. CASE UNCHANGED <<pc, watch, structVars>>
  BY <1>1 DEF LoopInv, BootHasNoLive, LoadsAreWhole, AppliedSoFar, WholeOutside, Reached
\* The places of the loop where no struct changes.
<1>2. ASSUME UNCHANGED structVars, pc \notin {"secret", "apply"}, pc' \notin {"secret", "apply"},
             pc' \in {"connect", "load"} /\ ~Watching' => pc \in {"connect", "load"} /\ ~Watching
      PROVE  LoopInv'
  <2>1. BootHasNoLive'
    BY <1>2 DEF LoopInv, BootHasNoLive
  <2>2. LoadsAreWhole' /\ AppliedSoFar' /\ WholeOutside'
    BY <1>2 DEF LoopInv, LoadsAreWhole, AppliedSoFar, WholeOutside, Reached
  <2>. QED  BY <2>1, <2>2 DEF LoopInv
<1>3. CASE Load
  <2>1. next = 1 /\ next' = 1 /\ UNCHANGED <<live, sections, watch>> /\ pc = "load" /\ pc' = "secret"
    BY <1>3 DEF Load, LoopInv, WholeOutside
  <2>2. LoadsAreWhole'
    BY <1>3, <1>a DEF Load, LoadsAreWhole, Reading, Files
  <2>. QED  BY <2>1, <2>2 DEF LoopInv, BootHasNoLive, AppliedSoFar, WholeOutside
<1>4. ASSUME NEW value, Obtain(value) PROVE LoopInv'
  <2>1. next = 1 /\ next' = 1 /\ UNCHANGED <<watch, there>>
    BY <1>4 DEF Obtain, LoopInv, WholeOutside
  <2>2. \A f \in FileFields : loaded'[f] = loaded[f]
    BY <1>a, <1>4 DEF Obtain, Struct, FileFields
  <2>3. LoadsAreWhole'
    BY <2>1, <2>2 DEF LoopInv, LoadsAreWhole
  <2>4. AppliedSoFar'
    BY <2>1 DEF AppliedSoFar
  <2>5. CASE Watching
    BY <1>4, <2>1, <2>3, <2>4, <2>5 DEF Obtain, LoopInv, BootHasNoLive, WholeOutside
  <2>6. CASE ~Watching
    <3>1. live' = loaded' /\ pc' = "install"
      BY <1>4, <2>6 DEF Obtain
    <3>. QED  BY <2>1, <2>3, <2>4, <3>1 DEF LoopInv, BootHasNoLive, WholeOutside
  <2>. QED  BY <2>5, <2>6
<1>5. CASE NewDefaultSecretLoader \/ LoadFails \/ InstallHotReload \/ Fire \/ Stop
  BY <1>2, <1>5 DEF NewDefaultSecretLoader, LoadFails, InstallHotReload, Fire, Receive, Stop, TypeOK
<1>6. CASE Replace
  <2>1. UNCHANGED <<pc, structVars>> /\ Watching' = Watching
    BY <1>6 DEF Replace
  <2>. QED  BY <2>1 DEF LoopInv, BootHasNoLive, LoadsAreWhole, AppliedSoFar, WholeOutside, Reached
<1>7. CASE ApplyField
  <2>1. /\ pc = "apply" /\ Watching /\ Watching' /\ UNCHANGED <<loaded, there, sections>>
        /\ \A f : Reached(f)' = Reached(f)
    BY <1>7 DEF ApplyField, NextField, Walk, TypeOK, Reached
  <2>2. LoadsAreWhole'
    BY <2>1 DEF LoopInv, LoadsAreWhole
  <2>3. \A i \in 1 .. next : Fields[i] \in Tagged /\ Reached(Fields[i]) =>
                             live'[Fields[i]] = loaded[Fields[i]]
    <3>1. SUFFICES ASSUME NEW i \in 1 .. next, Fields[i] \in Tagged, Reached(Fields[i])
                   PROVE  live'[Fields[i]] = loaded[Fields[i]]
      OBVIOUS
    <3>2. i < next => live[Fields[i]] = loaded[Fields[i]]
      BY <1>a, <3>1 DEF LoopInv, AppliedSoFar
    <3>3. CASE Fields[next] \in Tagged /\ Reached(Fields[next])
      <4>1. live' = [live EXCEPT ![Fields[next]] = loaded[Fields[next]]]
        BY <1>7, <3>3 DEF ApplyField
      <4>. QED  BY <1>a, <3>1, <3>2, <4>1 DEF Struct
    <3>4. CASE ~(Fields[next] \in Tagged /\ Reached(Fields[next]))
      <4>1. live' = live /\ i # next
        BY <1>7, <3>1, <3>4 DEF ApplyField
      <4>. QED  BY <1>a, <3>2, <4>1
    <3>. QED  BY <3>3, <3>4
  <2>4. CASE next = Len(Fields)
    <3>1. next' = 1 /\ pc' = "select"
      BY <1>7, <2>4 DEF ApplyField, NextField
    <3>2. \A f \in Tagged : Reached(f) => live'[f] = loaded[f]
      BY <2>3, <2>4 DEF FieldSet
    <3>. QED  BY <2>1, <2>2, <3>1, <3>2 DEF LoopInv, BootHasNoLive, AppliedSoFar, WholeOutside
  <2>5. CASE next # Len(Fields)
    <3>1. next' = next + 1 /\ pc' = "apply"
      BY <1>7, <2>1, <2>5 DEF ApplyField, NextField
    <3>2. AppliedSoFar'
      BY <1>a, <2>1, <2>3, <3>1 DEF AppliedSoFar
    <3>. QED  BY <2>1, <2>2, <3>1, <3>2 DEF LoopInv, BootHasNoLive, WholeOutside
  <2>. QED  BY <2>4, <2>5
<1>8. CASE Restart
  <2>1. /\ loaded' = Blank /\ live' = Blank /\ there' = {} /\ sections' = {}
        /\ next' = 1 /\ pc' = "connect"
    BY <1>8 DEF Restart
  <2>2. LoadsAreWhole'
    BY <2>1, BlankIsWhole
  <2>. QED  BY <2>1, <2>2 DEF LoopInv, BootHasNoLive, AppliedSoFar, WholeOutside
<1>9. CASE UNCHANGED vars
  BY <1>1, <1>9
<1>10. CASE Service
  BY <1>1, <1>3, <1>4, <1>5, <1>7, <1>10
     DEF Service, GetCached, GetFromVault, GetFromEnv, Masked, Debounced
<1>11. CASE Environment
  BY <1>1, <1>5, <1>6, <1>8, <1>11 DEF Environment, Tick, Truncate, Fill, Write
<1>12. ASSUME NEW p \in Putters, PutSecret(p) PROVE LoopInv'
  BY <1>1, <1>12 DEF PutSecret, GetExisting, GetExistingFails, ReadExisting, PutFails, Put
<1>. QED  BY <1>9, <1>10, <1>11, <1>12 DEF Next

-----------------------------------------------------------------------------
(* PutSecret.                                                               *)

LEMMA PutsInductive == TypeOK /\ SerialPuts /\ [Next]_vars => SerialPuts'
<1>. SUFFICES ASSUME TypeOK, SerialPuts, [Next]_vars, serial' = TRUE PROVE SerialPuts'
  BY DEF SerialPuts, TypeOK, VaultTypeOK
<1>a. /\ putter \in [Putters -> {"idle", "put"}]
      /\ existing \in [Putters -> [Keys -> Strings]] /\ puts \in 0 .. MaxPuts /\ MaxPuts \in Nat
      /\ vault \in [Keys -> Strings \cup {NotAString}]
      /\ stored \in [Keys -> Strings \cup {NotAString}]
      /\ NotAString \notin Nat \cup {Absent}
  BY ConfigAssumption DEF TypeOK, VaultTypeOK
<1>1. CASE UNCHANGED vaultVars
  BY <1>1 DEF SerialPuts, SerialPutsPreserve, GetSecrets
<1>2. CASE Service
  BY <1>1, <1>2
     DEF Service, NewDefaultSecretLoader, Load, LoadFails, GetCached, GetFromVault, GetFromEnv, Obtain,
         InstallHotReload, Masked, Debounced, Receive, Fire, ApplyField, NextField, Walk
<1>3. CASE Environment
  BY <1>1, <1>3 DEF Environment, Tick, Truncate, Fill, Replace, Write, Stop, Restart
<1>4. ASSUME NEW p \in Putters, PutSecret(p) PROVE SerialPuts'
  <2>1. CASE GetExisting(p)
    <3>1. serial /\ \A q \in Putters : putter[q] = "idle"
      BY <2>1 DEF GetExisting, ReadExisting
    <3>2. /\ UNCHANGED <<vault, stored, puts>>
          /\ putter' = [putter EXCEPT ![p] = "put"]
          /\ existing' = [existing EXCEPT ![p] = GetSecrets]
      BY <2>1 DEF GetExisting, ReadExisting
    <3>3. SerialPutsPreserve' /\ GetSecrets' = GetSecrets
      BY <3>1, <3>2 DEF SerialPuts, SerialPutsPreserve, GetSecrets
    <3>. QED  BY <1>a, <3>1, <3>2, <3>3 DEF SerialPuts
  <2>2. CASE GetExistingFails(p)
    BY <2>2 DEF GetExistingFails, ReadExisting
  <2>3. CASE PutFails(p)
    <3>1. /\ UNCHANGED <<vault, stored, serial, puts>>
          /\ putter' = [putter EXCEPT ![p] = "idle"]
          /\ existing' = [existing EXCEPT ![p] = Nothing]
      BY <2>3 DEF PutFails
    <3>2. SerialPutsPreserve' /\ GetSecrets' = GetSecrets
      BY <3>1 DEF SerialPuts, SerialPutsPreserve, GetSecrets
    <3>. QED  BY <1>a, <3>1, <3>2 DEF SerialPuts
  <2>4. ASSUME NEW k \in Keys, Put(p, k) PROVE SerialPuts'
    <3>1. /\ putter[p] = "put" /\ UNCHANGED serial
          /\ vault' = [existing[p] EXCEPT ![k] = puts + 1]
          /\ stored' = [stored EXCEPT ![k] = puts + 1] /\ puts' = puts + 1
          /\ putter' = [putter EXCEPT ![p] = "idle"]
      BY <2>4 DEF Put
    <3>2. existing[p] = GetSecrets /\ \A q \in Putters \ {p} : putter[q] = "idle"
      BY <3>1 DEF SerialPuts
    <3>3. \A j \in Keys : GetSecrets[j] = IF stored[j] = NotAString THEN Absent ELSE stored[j]
      BY <1>a, <3>1 DEF SerialPuts, SerialPutsPreserve, GetSecrets
    <3>4. ASSUME NEW j \in Keys
          PROVE  vault'[j] = IF stored'[j] = NotAString THEN Absent ELSE stored'[j]
      BY <1>a, <3>1, <3>2, <3>3
    <3>5. SerialPutsPreserve'
      BY <1>a, <3>1, <3>4 DEF SerialPutsPreserve
    <3>. QED  BY <1>a, <3>1, <3>2, <3>5 DEF SerialPuts
  <2>. QED  BY <1>4, <2>1, <2>2, <2>3, <2>4 DEF PutSecret
<1>. QED  BY <1>1, <1>2, <1>3, <1>4 DEF Next

-----------------------------------------------------------------------------
(* The theorems.                                                            *)

LEMMA InitInv == Init => IInv
<1>. SUFFICES ASSUME Init PROVE IInv
  OBVIOUS
<1>. USE ConfigAssumption, FieldsAreFields DEF Init, Blank, Nothing, Watching
<1>1. WatchTypeOK
  <2>1. masked \in BOOLEAN
    OBVIOUS
  <2>2. file \in Files
    OBVIOUS
  <2>. QED  BY <2>1, <2>2 DEF WatchTypeOK
<1>2. LoopTypeOK
  BY DEF LoopTypeOK, Struct, Contents, Strings, Stages
<1>3. VaultTypeOK
  BY DEF VaultTypeOK, Strings
<1>4. TypeOK
  BY <1>1, <1>2, <1>3 DEF TypeOK
<1>5. LoadsAreWhole
  <2>1. \A f \in FileFields : loaded[f] = IF f \in {} THEN 0 ELSE Absent
    OBVIOUS
  <2>. QED  BY <2>1 DEF LoadsAreWhole, SectionsOf
<1>6. BootHasNoLive /\ AppliedSoFar /\ WholeOutside
  BY DEF BootHasNoLive, AppliedSoFar, WholeOutside
<1>. QED  BY <1>4, <1>5, <1>6 DEF IInv, SerialPuts, SerialPutsPreserve

\* The invariant of package config.
THEOREM Invariance == Spec => []IInv
<1>1. IInv /\ [Next]_vars => IInv'
  BY TypesInductive, LoopInductive, PutsInductive DEF IInv, LoopInv
<1>. QED  BY InitInv, <1>1, PTL DEF Spec

\* Every variable keeps its type, for every struct and every set of keys.
THEOREM TypeCorrect == Spec => []TypeOK
<1>1. IInv => TypeOK
  BY DEF IInv
<1>. QED  BY Invariance, <1>1, PTL

\* However long the struct, wherever its untagged fields are and whatever sections the
\* file leaves out, a reload that has ended has applied what it could reach, and that
\* comes from one version of the file.
THEOREM WholeReloads == Spec => []ReloadsAreWhole
<1>1. IInv => ReloadsAreWhole
  <2>. SUFFICES ASSUME IInv, pc = "select", NEW f \in Tagged, NEW g \in Tagged, Reached(f), Reached(g)
                PROVE  live[f] = loaded[f] /\ (live[f] = live[g] \/ Absent \in {live[f], live[g]})
    BY DEF ReloadsAreWhole
  <2>1. live[f] = loaded[f] /\ live[g] = loaded[g]
    BY DEF IInv, WholeOutside
  <2>2. f \in FileFields /\ g \in FileFields
    BY FieldsAreFields
  <2>. QED  BY <2>1, <2>2 DEF IInv, LoadsAreWhole
<1>. QED  BY Invariance, <1>1, PTL

\* Any number of PutSecret calls that do not overlap and whose reads succeed leave every
\* string as it was put last, and nothing else: what is not a string is deleted.
THEOREM SerialPutsAreKept == Spec => []SerialPutsPreserve
<1>1. IInv => SerialPutsPreserve
  BY DEF IInv, SerialPuts, SerialPutsPreserve
<1>. QED  BY Invariance, <1>1, PTL

\* No reload changes a field without the tag while the process lives.
THEOREM OnlyRestartsChangeSecrets == Spec => SecretsNeedRestart
<1>. DEFINE Kept == (live # Blank /\ live' # Blank) =>
                       \A f \in FieldSet \ Tagged : live'[f] = live[f]
<1>1. IInv /\ [Next]_vars => [Kept]_vars
  <2>. SUFFICES ASSUME IInv, [Next]_vars, live # Blank, live' # Blank,
                       NEW f \in FieldSet \ Tagged
                PROVE  live'[f] = live[f]
    OBVIOUS
  <2>1. CASE UNCHANGED live
    BY <2>1
  <2>2. CASE Service
    <3>1. ASSUME NEW value, Obtain(value) PROVE live'[f] = live[f]
      BY <2>1, <3>1 DEF Obtain, IInv, BootHasNoLive
    <3>2. CASE ApplyField
      BY <2>1, <3>2 DEF ApplyField, IInv, TypeOK, LoopTypeOK, Struct
    <3>. QED  BY <2>1, <2>2, <3>1, <3>2
              DEF Service, NewDefaultSecretLoader, Load, LoadFails, GetCached, GetFromVault, GetFromEnv,
                  InstallHotReload, Masked, Debounced, Fire
  <2>3. CASE Environment
    BY <2>1, <2>3 DEF Environment, Tick, Truncate, Fill, Replace, Write, Stop, Restart
  <2>4. ASSUME NEW p \in Putters, PutSecret(p) PROVE live'[f] = live[f]
    BY <2>1, <2>4 DEF PutSecret, GetExisting, GetExistingFails, ReadExisting, PutFails, Put
  <2>. QED  BY <2>1, <2>2, <2>3, <2>4 DEF Next
<1>. QED  BY Invariance, <1>1, PTL DEF Spec, SecretsNeedRestart

-----------------------------------------------------------------------------
(* Hot reload is what HotReload says.                                       *)

LEMMA AppliedSame == UNCHANGED <<pc, loaded, there, live, sections>> => Applied' = Applied
BY DEF Applied, Reached

LEMMA InitHot == Init => Hot!Init
<1>. SUFFICES ASSUME Init PROVE Hot!Init
  OBVIOUS
<1>1. Applied = Blank
  BY DEF Init, Applied, Blank
<1>. QED  BY <1>1 DEF Init, Hot!Init, Hot!Blank, Blank, Watching

\* The first Load of a process makes its struct live, a later one is a reload.
LEMMA ObtainHot ==
  ASSUME IInv, NEW value \in Strings \cup {EnvValue}, Obtain(value)
  PROVE  Hot!Boot \/ Hot!Reload
<1>. USE FieldsAreFields DEF Watching
<1>a. loaded \in [FieldSet -> Contents \cup Strings \cup {EnvValue}] /\ pc = "secret"
  BY DEF IInv, TypeOK, LoopTypeOK, Struct, Obtain
<1>1. PICK v \in 0 .. MaxWrites, given \in Layouts :
        /\ \A f \in FileFields : loaded[f] = IF f \in given THEN v ELSE Absent
        /\ there = SectionsOf(given)
  BY DEF IInv, LoadsAreWhole
<1>2. PICK r : r = [version |-> v, given |-> given]
  OBVIOUS
<1>3. /\ r \in Hot!Readings /\ there = Hot!SectionsOf(r)
      /\ \A f \in FileFields : loaded[f] = Hot!Value(r, f)
  <2>1. given \subseteq FileFields
    BY ConfigAssumption DEF FileFields
  <2>. QED  BY <1>1, <1>2, <2>1 DEF Hot!Readings, Hot!SectionsOf, Hot!Value, SectionsOf, FileFields
<1>4. loaded' = [f \in FieldSet |-> IF f = Secret THEN value ELSE Hot!Value(r, f)]
  BY <1>a, <1>3 DEF Obtain, FileFields
<1>5. CASE ~Watching
  <2>1. ~Watching' /\ pc' = "install" /\ live' = loaded' /\ sections' = there
    BY <1>5 DEF Obtain
  <2>2. Applied' = [f \in FieldSet |-> IF f = Secret THEN value ELSE Hot!Value(r, f)]
    BY <2>1, <1>4 DEF Applied
  <2>. QED  BY <1>5, <1>a, <1>3, <2>1, <2>2 DEF Hot!Boot
<1>6. CASE Watching
  <2>1. Watching' /\ pc' = "apply" /\ live' = live /\ sections' = sections /\ there' = there
    BY <1>6 DEF Obtain
  <2>2. \A f : Reached(f)' <=> PathOf[f] \subseteq sections \cap Hot!SectionsOf(r)
    BY <1>3, <2>1 DEF Reached
  <2>3. Applied = live
    BY <1>a DEF Applied, IInv, TypeOK, LoopTypeOK, Struct
  <2>4. Applied' = [f \in FieldSet |->
                      IF f \in Tagged /\ PathOf[f] \subseteq sections \cap Hot!SectionsOf(r)
                      THEN Hot!Value(r, f) ELSE Applied[f]]
    BY <2>1, <2>2, <2>3, <1>4 DEF Applied
  <2>. QED  BY <1>6, <1>3, <2>1, <2>4 DEF Hot!Reload
<1>. QED  BY <1>5, <1>6

\* The rounds of the walk carry out what has happened.
LEMMA ApplyHot ==
  ASSUME IInv, ApplyField
  PROVE  UNCHANGED Hot!vars
<1>. USE FieldsAreFields DEF Watching
<1>1. /\ live \in [FieldSet -> Contents \cup Strings \cup {EnvValue}]
      /\ next \in 1 .. Len(Fields) /\ pc = "apply" /\ Watching /\ Watching' /\ loaded' = loaded
      /\ sections' = sections /\ \A f : Reached(f)' = Reached(f)
  BY DEF IInv, TypeOK, LoopTypeOK, Struct, ApplyField, NextField, Walk, Reached
<1>2. \A f \in FieldSet : ~(f \in Tagged /\ Reached(f)) => live'[f] = live[f]
  BY <1>1 DEF ApplyField
<1>3. ASSUME pc' # "apply", NEW f \in Tagged, Reached(f) PROVE live'[f] = loaded[f]
  <2>1. next = Len(Fields)
    BY <1>1, <1>3 DEF ApplyField, NextField
  <2>2. PICK i \in 1 .. Len(Fields) : Fields[i] = f
    BY DEF FieldSet
  <2>3. i < next => live[f] = loaded[f]
    BY <1>3, <2>1, <2>2 DEF IInv, AppliedSoFar
  <2>. QED  BY <1>1, <1>3, <2>1, <2>2, <2>3 DEF ApplyField
<1>4. Applied' = Applied
  BY <1>1, <1>2, <1>3 DEF Applied
<1>. QED  BY <1>1, <1>4 DEF Hot!vars

LEMMA NextHot == IInv /\ [Next]_vars => [Hot!Next]_(Hot!vars)
<1>. SUFFICES ASSUME IInv, [Next]_vars PROVE [Hot!Next]_(Hot!vars)
  OBVIOUS
<1>. USE DEF Watching
<1>1. CASE UNCHANGED <<watch, pc, loaded, there, live, sections>>
  BY <1>1, AppliedSame DEF Hot!vars
<1>2. ASSUME NEW value \in Strings \cup {EnvValue}, Obtain(value) PROVE Hot!Next
  BY <1>2, ObtainHot DEF Hot!Next
<1>3. CASE ApplyField
  BY <1>3, ApplyHot
\* The rest moves between places where the live struct is what it is.
<1>4. CASE /\ UNCHANGED <<live, sections>> /\ pc # "apply" /\ pc' # "apply"
           /\ (Watching \/ pc \in {"install", "stopped"}) = (Watching' \/ pc' \in {"install", "stopped"})
  BY <1>4 DEF Applied, Hot!vars
<1>5. CASE NewDefaultSecretLoader \/ Load \/ LoadFails \/ InstallHotReload \/ Fire \/ Stop
  <2>1. UNCHANGED <<live, sections>> /\ pc # "apply" /\ pc' # "apply"
    BY <1>5 DEF NewDefaultSecretLoader, Load, LoadFails, InstallHotReload, Fire, Receive, Stop
  <2>2. (Watching \/ pc \in {"install", "stopped"}) = (Watching' \/ pc' \in {"install", "stopped"})
    BY <1>5 DEF NewDefaultSecretLoader, Load, LoadFails, InstallHotReload, Fire, Receive, Stop,
       IInv, TypeOK
  <2>. QED  BY <1>4, <2>1, <2>2
<1>6. CASE Restart
  <2>1. Applied' = Blank /\ ~Watching' /\ pc' = "connect" /\ sections' = {}
    BY <1>6 DEF Restart, Applied, Blank
  <2>2. CASE Watching \/ pc \in {"install", "stopped"}
    BY <2>1, <2>2 DEF Hot!Next, Hot!End, Hot!Blank, Blank
  <2>3. CASE ~(Watching \/ pc \in {"install", "stopped"})
    <3>1. pc \in {"connect", "load", "secret"} /\ live = Blank /\ sections = {}
      BY <2>3 DEF IInv, TypeOK, LoopTypeOK, Stages, BootHasNoLive
    <3>2. Applied = Blank
      BY <3>1 DEF Applied, Blank
    <3>. QED  BY <2>1, <2>3, <3>1, <3>2 DEF Hot!vars
  <2>. QED  BY <2>2, <2>3
<1>7. CASE UNCHANGED vars
  BY <1>1, <1>7
<1>a. CASE Replace
  <2>1. Watching' = Watching /\ UNCHANGED <<pc, loaded, there, live, sections>>
    BY <1>a DEF Replace
  <2>. QED  BY <2>1, AppliedSame DEF Hot!vars
<1>8. CASE Service
  <2>1. CASE GetCached \/ GetFromVault \/ GetFromEnv
    <3>1. cache \in Strings \cup {EnvOnly} /\ GetSecrets[SecretKey] \in Strings
      BY ConfigAssumption, StringsType DEF IInv, TypeOK, LoopTypeOK
    <3>2. \E value \in Strings \cup {EnvValue} : Obtain(value)
      BY <2>1, <3>1 DEF GetCached, GetFromVault, GetFromEnv
    <3>. QED  BY <3>2, <1>2
  <2>2. CASE Debounced \/ Masked
    BY <2>2, <1>1 DEF Debounced, Masked
  <2>. QED  BY <1>3, <1>5, <1>8, <2>1, <2>2 DEF Service
<1>9. CASE Environment
  BY <1>1, <1>5, <1>6, <1>a, <1>9 DEF Environment, Tick, Truncate, Fill, Write
<1>10. ASSUME NEW p \in Putters, PutSecret(p) PROVE [Hot!Next]_(Hot!vars)
  BY <1>1, <1>10 DEF PutSecret, GetExisting, GetExistingFails, ReadExisting, PutFails, Put
<1>. QED  BY <1>7, <1>8, <1>9, <1>10 DEF Next

\* Every behaviour of package config is one that HotReload allows: for every struct,
\* every choice of its tagged fields and of its sections a reload is one step, of one
\* reading of the file.
THEOREM ReloadsAreSteps == Spec => HotReloadKept
BY InitHot, NextHot, Invariance, PTL DEF Spec, HotReloadKept, Hot!Spec
=============================================================================
