--------------------------- MODULE CommandsProofs ---------------------------
(***************************************************************************)
(* Proofs about the commands that read a file or a table, and change it    *)
(* some steps later: "configure" on the settings of an agent, "retention   *)
(* apply", the index of runs and exports on the table of runs.  Each       *)
(* theorem is about the command and whoever changes the same file or       *)
(* table, and holds for every number of runs, events and versions.         *)
(***************************************************************************)
EXTENDS Settings, Retention, RunIndex, Export, FiniteSetTheorems, SequenceTheorems, TLAPS
-----------------------------------------------------------------------------
(* Settings.  The command knows what it read; while the user has not saved *)
(* in between, the file still has that until it is truncated, and the      *)
(* backup has it from then on.                                             *)

Contents == Objects \cup {Absent, Empty}

EditSteps == {"idle", "plugin", "plugin text", "read", "backup", "backup text", "merge",
              "open", "text"}

SettingsTypes ==
  /\ source \in Integrations
  /\ settings \in Contents
  /\ backups \in [0 .. Seconds -> Contents]
  /\ second \in 1 .. Seconds
  /\ edit \in [pc: EditSteps, dry: BOOLEAN, contents: Contents, at: 0 .. Seconds]
  /\ mine \in [version: UserVersions \cup {Absent}, raced: BOOLEAN]
  /\ backups[0] = Absent
  /\ edit.pc = "backup text" => edit.at # 0

(* What holds unless the user raced a command. *)
Calm ==
  /\ edit.pc \in {"backup", "backup text", "merge", "open"} => settings = edit.contents
  /\ edit.pc = "text" => settings = Empty
  /\ edit.pc = "backup text" => backups[edit.at] = Empty
  /\ edit.pc \in {"backup", "backup text", "open", "text"} => ~edit.dry
  /\ (edit.pc \in {"merge", "open"} /\ ~edit.dry /\ edit.contents \in Objects) =>
       backups[edit.at] = edit.contents

HasForeign(contents, version, from) ==
  /\ contents \in Objects
  /\ Foreign(version, from.addition) \subseteq Foreign(contents, from.addition)

Preserved ==
  mine.version \in Objects =>
    /\ settings = Empty \/ HasForeign(settings, mine.version, source)
    /\ edit.pc \in {"backup", "backup text", "merge", "open", "text"} =>
         HasForeign(edit.contents, mine.version, source)

SettingsInv ==
  /\ SettingsTypes
  /\ UsersVersionIsKept
  /\ ~mine.raced => Calm /\ Preserved

LEMMA WholeFiles ==
  /\ \A c \in Objects : IsJSON(c)
  /\ \A c \in Contents : IsJSON(c) => c \in Objects
  /\ ~IsJSON(Absent) /\ ~IsJSON(Empty)
  /\ UserVersions \subseteq Objects
  BY SettingsAssumption DEF IsJSON, Contents

(* A merge changes nothing that the addition does not set.                 *)
LEMMA MergeKeepsForeign ==
  ASSUME NEW base, NEW addition
  PROVE  Foreign(base, addition) \subseteq Foreign(MergeMaps(base, addition), addition)
<1> DEFINE both == DOMAIN base \cap DOMAIN addition
           merged == MergeMaps(base, addition)
<1>1. /\ DOMAIN merged = DOMAIN base \cup DOMAIN addition
      /\ \A k \in DOMAIN base \ DOMAIN addition : merged[k] = base[k]
      /\ \A k \in both : IsObject(base[k]) /\ IsObject(addition[k]) =>
           merged[k] = Object(MergeInner(base[k].object, addition[k].object))
  BY DEF MergeMaps, MergeInner
<1>2. ASSUME NEW f, NEW g
      PROVE  /\ IsObject(Object(MergeInner(f, g)))
             /\ DOMAIN f \subseteq DOMAIN Object(MergeInner(f, g)).object
             /\ \A i \in DOMAIN f \ DOMAIN g : Object(MergeInner(f, g)).object[i] = f[i]
  BY DEF IsObject, Object, MergeInner
<1> HIDE DEF merged
<1>3. ASSUME NEW k \in DOMAIN base \ DOMAIN addition
      PROVE  <<k, base[k]>> \in Foreign(merged, addition)
  <2>1. k \in DOMAIN merged \ DOMAIN addition /\ merged[k] = base[k]
    BY <1>1
  <2> QED  BY <2>1 DEF Foreign
<1>4. ASSUME NEW k \in both, IsObject(base[k]), IsObject(addition[k]),
             NEW i \in DOMAIN base[k].object \ DOMAIN addition[k].object
      PROVE  <<k, i, base[k].object[i]>> \in Foreign(merged, addition)
  <2>1. merged[k] = Object(MergeInner(base[k].object, addition[k].object))
    BY <1>1, <1>4
  <2>2. /\ k \in DOMAIN merged \cap DOMAIN addition /\ IsObject(merged[k])
        /\ i \in DOMAIN merged[k].object \ DOMAIN addition[k].object
        /\ merged[k].object[i] = base[k].object[i]
    BY <1>1, <1>2, <2>1
  <2>3. <<k, i, merged[k].object[i]>> \in Foreign(merged, addition)
    BY <1>4, <2>2 DEF Foreign
  <2> QED  BY <2>2, <2>3
<1>5. \A x \in Foreign(base, addition) :
        \/ \E k \in DOMAIN base \ DOMAIN addition : x = <<k, base[k]>>
        \/ \E k \in {y \in both : IsObject(base[y]) /\ IsObject(addition[y])} :
             \E i \in DOMAIN base[k].object \ DOMAIN addition[k].object :
               x = <<k, i, base[k].object[i]>>
  BY DEF Foreign
<1> QED  BY <1>3, <1>4, <1>5 DEF merged
EditState == [pc: EditSteps, dry: BOOLEAN, contents: Contents, at: 0 .. Seconds]

LEMMA Becoming ==
  ASSUME edit \in EditState, NEW pc \in EditSteps, Becomes(pc)
  PROVE  /\ edit' \in EditState /\ edit'.pc = pc /\ edit'.dry = edit.dry
         /\ edit'.contents = edit.contents /\ edit'.at = edit.at
  BY DEF EditState, Becomes

LEMMA NoEditIs == NoEdit \in EditState /\ NoEdit.pc = "idle"
<1>1. 0 \in 0 .. Seconds
  BY SettingsAssumption
<1> QED  BY <1>1 DEF NoEdit, EditState, EditSteps, Contents

(* The command ends, at any step: what is left is the file and the backups.*)
LEMMA EditEnds ==
  ASSUME SettingsInv, edit' = NoEdit,
         source' = source, settings' = settings, backups' = backups, second' = second,
         mine' = mine
  PROVE  SettingsInv'
<1>1. SettingsTypes'
  BY NoEditIs DEF SettingsInv, SettingsTypes, EditState
<1>2. UsersVersionIsKept'
  BY DEF SettingsInv, UsersVersionIsKept
<1>3. ~mine.raced => Calm' /\ Preserved'
  BY NoEditIs DEF SettingsInv, Calm, Preserved
<1> QED  BY <1>1, <1>2, <1>3 DEF SettingsInv

(* A step of the command that touches neither the file nor the backups.    *)
LEMMA EditGoesOn ==
  ASSUME SettingsInv, edit' \in EditState,
         source' = source, settings' = settings, backups' = backups, mine' = mine,
         second' \in 1 .. Seconds,
         edit'.pc \in {"backup", "merge"} =>
           /\ edit'.contents = settings /\ settings # Empty
           /\ edit'.pc = "backup" => ~edit'.dry
           /\ edit'.pc = "merge" => edit'.dry \/ edit'.contents \notin Objects,
         edit'.pc \in {"plugin", "plugin text", "read", "backup", "merge"}
  PROVE  SettingsInv'
<1>1. SettingsTypes'
  BY DEF SettingsInv, SettingsTypes, EditState
<1>2. UsersVersionIsKept'
  BY DEF SettingsInv, UsersVersionIsKept
<1>3. ~mine.raced => Calm' /\ Preserved'
  BY DEF SettingsInv, Calm, Preserved
<1> QED  BY <1>1, <1>2, <1>3 DEF SettingsInv

LEMMA UserKeeps ==
  ASSUME SettingsInv, NEW version \in UserVersions, UserSaves(version)
  PROVE  SettingsInv'
<1>1. /\ settings' = version /\ mine' = [version |-> version, raced |-> mine.raced \/ ~At("idle")]
      /\ source' = source /\ backups' = backups /\ second' = second /\ edit' = edit
  BY DEF UserSaves
<1>2. mine'.version = version /\ (~mine'.raced => ~mine.raced /\ edit'.pc = "idle")
  BY <1>1 DEF At
<1>3. version \in Objects /\ version \in Contents
  BY WholeFiles DEF Contents
<1>4. SettingsTypes'
  <2>1. mine'.raced \in BOOLEAN /\ mine' \in [version: UserVersions \cup {Absent}, raced: BOOLEAN]
    BY <1>1 DEF SettingsInv, SettingsTypes, At
  <2> QED  BY <1>1, <1>3, <2>1 DEF SettingsInv, SettingsTypes
<1>5. UsersVersionIsKept'
  BY <1>1, <1>2 DEF UsersVersionIsKept
<1>6. ~mine'.raced => Calm' /\ Preserved'
  <2>1. HasForeign(version, version, source)
    BY <1>3 DEF HasForeign
  <2> QED  BY <1>1, <1>2, <2>1 DEF Calm, Preserved
<1> QED  BY <1>4, <1>5, <1>6 DEF SettingsInv
LEMMA TimeKeeps ==
  ASSUME SettingsInv, second' \in 1 .. Seconds, source' = source, settings' = settings,
         backups' = backups, edit' = edit, mine' = mine
  PROVE  SettingsInv'
<1>1. SettingsTypes'
  BY DEF SettingsInv, SettingsTypes
<1> QED  BY <1>1 DEF SettingsInv, UsersVersionIsKept, Calm, Preserved

LEMMA ConfigureKeeps ==
  ASSUME SettingsInv, NEW dry \in BOOLEAN, Configure(dry)
  PROVE  SettingsInv'
<1> DEFINE pc == IF source.plugin THEN "plugin" ELSE "read"
<1>1. ASSUME NEW e \in EditState
      PROVE  LET f == [e EXCEPT !.pc = pc, !.dry = dry] IN f \in EditState /\ f.pc = pc
  BY DEF EditState, EditSteps
<1>2. edit' = [NoEdit EXCEPT !.pc = pc, !.dry = dry]
  BY DEF Configure
<1>3. edit' \in EditState /\ edit'.pc \in {"plugin", "read"}
  BY <1>1, <1>2, NoEditIs
<1>4. second' \in 1 .. Seconds
  BY DEF SettingsInv, SettingsTypes, Configure
<1> QED  BY <1>3, <1>4, EditGoesOn DEF Configure

LEMMA PluginKeeps ==
  ASSUME SettingsInv, EnsurePlugin \/ WritePlugin
  PROVE  SettingsInv'
<1>1. edit \in EditState /\ second \in 1 .. Seconds
  BY DEF SettingsInv, SettingsTypes, EditState
<1>2. Becomes("read") \/ Becomes("plugin text")
  BY DEF EnsurePlugin, WritePlugin
<1>3. edit' \in EditState /\ edit'.pc \in {"read", "plugin text"}
  BY <1>1, <1>2, Becoming DEF EditSteps
<1> QED  BY <1>1, <1>3, EditGoesOn DEF EnsurePlugin, WritePlugin

LEMMA ReadKeeps ==
  ASSUME SettingsInv, ReadSettings
  PROVE  SettingsInv'
<1>1. /\ edit \in EditState /\ second \in 1 .. Seconds /\ settings \in Contents
  BY DEF SettingsInv, SettingsTypes, EditState
<1>2. /\ source' = source /\ settings' = settings /\ backups' = backups /\ mine' = mine
      /\ second' = second
  BY DEF ReadSettings
<1>3. CASE settings = Empty
  <2>1. edit' = NoEdit
    BY <1>3 DEF ReadSettings
  <2> QED  BY <1>2, <2>1, EditEnds
<1>4. CASE settings # Empty
  <2> DEFINE pc == AfterReading(settings)
             e == [edit EXCEPT !.contents = settings, !.pc = pc]
  <2>1. edit' = e
    BY <1>4 DEF ReadSettings
  <2>2. pc = IF IsJSON(settings) /\ ~edit.dry THEN "backup" ELSE "merge"
    BY DEF AfterReading
  <2>3. e \in EditState /\ e.contents = settings /\ e.pc = pc /\ e.dry = edit.dry
    BY <1>1, <2>2 DEF EditState, EditSteps
  <2>4. IsJSON(settings) <=> settings \in Objects
    BY <1>1, WholeFiles
  <2> HIDE DEF e, pc
  <2>5. pc \in {"backup", "merge"} /\ (pc = "backup" => ~edit.dry)
        /\ (pc = "merge" => edit.dry \/ settings \notin Objects)
    BY <2>2, <2>4
  <2> QED  BY <1>1, <1>2, <1>4, <2>1, <2>3, <2>5, EditGoesOn
<1> QED  BY <1>3, <1>4
(* The backup of a second in which there is none yet takes the place of    *)
(* nothing; that of a version that was never saved is a file that is not   *)
(* there, as every version before the first.                               *)
LEMMA OpenBackupKeeps ==
  ASSUME SettingsInv, OpenBackup
  PROVE  SettingsInv'
<1>1. /\ edit \in EditState /\ edit.pc = "backup" /\ second \in 1 .. Seconds
      /\ backups \in [0 .. Seconds -> Contents] /\ Empty \in Contents
      /\ second \in 0 .. Seconds /\ second # 0
      /\ mine \in [version: UserVersions \cup {Absent}, raced: BOOLEAN]
  BY SettingsAssumption DEF SettingsInv, SettingsTypes, EditState, OpenBackup, At, Contents
<1>2. /\ source' = source /\ settings' = settings /\ second' = second
      /\ backups' = [backups EXCEPT ![second] = Empty]
  BY DEF OpenBackup, Stamp
<1>3. /\ edit' \in EditState /\ edit'.pc = "backup text" /\ edit'.at = second
      /\ edit'.contents = edit.contents /\ edit'.dry = edit.dry
  <2>1. ASSUME NEW e \in EditState, NEW s \in 0 .. Seconds
        PROVE  LET f == [e EXCEPT !.pc = "backup text", !.at = s]
               IN  /\ f \in EditState /\ f.pc = "backup text" /\ f.at = s
                   /\ f.contents = e.contents /\ f.dry = e.dry
    BY DEF EditState, EditSteps
  <2>2. edit' = [edit EXCEPT !.pc = "backup text", !.at = second]
    BY DEF OpenBackup, Stamp
  <2> QED  BY <1>1, <2>1, <2>2
<1>4. /\ mine' \in [version: UserVersions \cup {Absent}, raced: BOOLEAN]
      /\ mine'.version = mine.version
      /\ ~mine'.raced => ~mine.raced /\ backups[second] = Absent
  BY <1>1 DEF OpenBackup
<1>5. /\ backups' \in [0 .. Seconds -> Contents]
      /\ backups'[second] = Empty
      /\ \A s \in 0 .. Seconds : s # second => backups'[s] = backups[s]
      /\ backups'[0] = Absent
  BY <1>1, <1>2 DEF SettingsInv, SettingsTypes
<1>6. SettingsTypes'
  BY <1>1, <1>2, <1>3, <1>4, <1>5 DEF SettingsInv, SettingsTypes, EditState
<1>7. UsersVersionIsKept'
  <2>1. SUFFICES ASSUME ~mine'.raced, settings # mine.version
                 PROVE  \E s \in 0 .. Seconds : backups'[s] = mine.version
    BY <1>2, <1>4, <1>5 DEF UsersVersionIsKept
  <2>2. PICK s \in 0 .. Seconds : backups[s] = mine.version
    BY <1>1, <1>4, <2>1 DEF SettingsInv, UsersVersionIsKept
  <2>3. s = second => mine.version = Absent
    BY <1>4, <2>1, <2>2
  <2>4. 0 \in 0 .. Seconds
    BY SettingsAssumption
  <2> QED  BY <1>5, <2>2, <2>3, <2>4
<1>8. ~mine'.raced => Calm' /\ Preserved'
  BY <1>1, <1>2, <1>3, <1>4, <1>5 DEF SettingsInv, Calm, Preserved
<1> QED  BY <1>6, <1>7, <1>8 DEF SettingsInv

LEMMA WriteBackupKeeps ==
  ASSUME SettingsInv, WriteBackup
  PROVE  SettingsInv'
<1>1. /\ edit \in EditState /\ edit.pc = "backup text" /\ edit.at \in 0 .. Seconds /\ edit.at # 0
      /\ backups \in [0 .. Seconds -> Contents] /\ edit.contents \in Contents
  BY DEF SettingsInv, SettingsTypes, EditState, WriteBackup, At
<1>2. /\ source' = source /\ settings' = settings /\ second' = second /\ mine' = mine
      /\ backups' = [backups EXCEPT ![edit.at] = edit.contents]
      /\ Becomes("merge")
  BY DEF WriteBackup
<1>3. /\ edit' \in EditState /\ edit'.pc = "merge" /\ edit'.dry = edit.dry
      /\ edit'.contents = edit.contents /\ edit'.at = edit.at
  BY <1>1, <1>2, Becoming DEF EditSteps
<1>4. /\ backups' \in [0 .. Seconds -> Contents]
      /\ backups'[edit.at] = edit.contents
      /\ \A s \in 0 .. Seconds : s # edit.at => backups'[s] = backups[s]
  BY <1>1, <1>2<1>5. SettingsTypes'
  <2>1. 0 \in 0 .. Seconds
    BY SettingsAssumption
  <2>2. backups'[0] = Absent
    BY <1>1, <1>4, <2>1 DEF SettingsInv, SettingsTypes
  <2> QED  BY <1>2, <1>3, <1>4, <2>2 DEF SettingsInv, SettingsTypes, EditState
<1>6. UsersVersionIsKept'
  <2>1. SUFFICES ASSUME ~mine.raced, settings # mine.version
                 PROVE  \E s \in 0 .. Seconds : backups'[s] = mine.version
    BY <1>2, <1>4 DEF UsersVersionIsKept
  <2>2. PICK s \in 0 .. Seconds : backups[s] = mine.version
    BY <1>1, <2>1 DEF SettingsInv, UsersVersionIsKept
  <2>3. backups[edit.at] = Empty
    BY <1>1, <2>1 DEF SettingsInv, Calm
  <2>4. mine.version # Empty
    BY SettingsAssumption DEF SettingsInv, SettingsTypes
  <2> QED  BY <1>4, <2>2, <2>3, <2>4
<1>7. ~mine'.raced => Calm' /\ Preserved'
  BY <1>1, <1>2, <1>3, <1>4 DEF SettingsInv, Calm, Preserved
<1> QED  BY <1>5, <1>6, <1>7 DEF SettingsInv

LEMMA MergeKeeps ==
  ASSUME SettingsInv, Merge
  PROVE  SettingsInv'
<1>1. /\ edit \in EditState /\ edit.pc = "merge"
      /\ source' = source /\ settings' = settings /\ backups' = backups /\ second' = second
      /\ mine' = mine
  BY DEF SettingsInv, SettingsTypes, EditState, Merge, At
<1>2. CASE edit.dry
  BY <1>1, <1>2, EditEnds DEF Merge
<1>3. CASE ~edit.dry
  <2>1. /\ edit' \in EditState /\ edit'.pc = "open" /\ edit'.dry = edit.dry
        /\ edit'.contents = edit.contents /\ edit'.at = edit.at
    BY <1>1, <1>3 DEF Merge, EditState, EditSteps
  <2>2. SettingsTypes'
    BY <1>1, <2>1 DEF SettingsInv, SettingsTypes, EditState
  <2>3. UsersVersionIsKept'
    BY <1>1 DEF SettingsInv, UsersVersionIsKept
  <2>4. ~mine'.raced => Calm' /\ Preserved'
    BY <1>1, <1>3, <2>1 DEF SettingsInv, Calm, Preserved
  <2> QED  BY <2>2, <2>3, <2>4 DEF SettingsInv
<1> QED  BY <1>2, <1>3

(* The file is truncated: what it had is in the backup of this command, or *)
(* the user's version is in an earlier one.                                *)
LEMMA OpenSettingsKeeps ==
  ASSUME SettingsInv, OpenSettings
  PROVE  SettingsInv'
<1>1. /\ edit \in EditState /\ edit.pc = "open" /\ edit.at \in 0 .. Seconds
      /\ edit.contents \in Contents
      /\ backups \in [0 .. Seconds -> Contents] /\ backups[0] = Absent /\ 0 \in 0 .. Seconds
      /\ Becomes("text")
  BY SettingsAssumption DEF SettingsInv, SettingsTypes, EditState, OpenSettings, At
<1>2. /\ source' = source /\ settings' = Empty /\ backups' = backups /\ second' = second
      /\ mine' = mine
  BY DEF OpenSettings
<1>3. /\ edit' \in EditState /\ edit'.pc = "text" /\ edit'.dry = edit.dry
      /\ edit'.contents = edit.contents /\ edit'.at = edit.at
  BY <1>1, Becoming DEF EditSteps
<1>4. SettingsTypes'
  BY <1>2, <1>3 DEF SettingsInv, SettingsTypes, EditState, Contents
<1>5. UsersVersionIsKept'
  <2>1. SUFFICES ASSUME ~mine.raced
                 PROVE  \E s \in 0 .. Seconds : backups[s] = mine.version
    BY <1>1, <1>2 DEF UsersVersionIsKept
  <2>2. CASE settings = mine.version
    <3>1. settings = edit.contents /\ ~edit.dry
      BY <1>1, <2>1 DEF SettingsInv, Calm
    <3>2. CASE edit.contents \in Objects
      BY <1>1, <2>1, <2>2, <3>1, <3>2 DEF SettingsInv, Calm
    <3>3. CASE edit.contents \notin Objects
      <4>1. mine.version = Absent
        BY <2>2, <3>1, <3>3, WholeFiles DEF SettingsInv, SettingsTypes
      <4> QED  BY <1>1, <4>1
    <3> QED  BY <3>2, <3>3
  <2>3. CASE settings # mine.version
    BY <1>1, <2>1, <2>3 DEF SettingsInv, UsersVersionIsKept
  <2> QED  BY <2>2, <2>3
<1>6. ~mine'.raced => Calm' /\ Preserved'
  BY <1>1, <1>2, <1>3 DEF SettingsInv, Calm, Preserved
<1> QED  BY <1>4, <1>5, <1>6 DEF SettingsInv

LEMMA WriteSettingsKeeps ==
  ASSUME SettingsInv, WriteSettings
  PROVE  SettingsInv'
<1> DEFINE base == IF IsJSON(edit.contents) THEN edit.contents ELSE NoKeys
           merged == MergeMaps(base, source.addition)
<1>1. /\ edit.pc = "text" /\ edit.contents \in Contents /\ source \in Integrations
      /\ backups \in [0 .. Seconds -> Contents]
  BY DEF SettingsInv, SettingsTypes, WriteSettings, At
<1>2. /\ source' = source /\ backups' = backups /\ second' = second /\ mine' = mine
      /\ settings' = merged /\ edit' = NoEdit
  BY DEF WriteSettings
<1>3. base \in Objects
  BY <1>1, SettingsAssumption, WholeFiles
<1>4. merged \in Objects
  <2> HIDE DEF base
  <2> QED  BY <1>1, <1>3, SettingsAssumption
<1>5. HasForeign(edit.contents, mine.version, source) => HasForeign(merged, mine.version, source)
  <2>1. SUFFICES ASSUME HasForeign(edit.contents, mine.version, source)
                 PROVE  HasForeign(merged, mine.version, source)
    OBVIOUS
  <2>2. base = edit.contents
    BY <2>1, WholeFiles DEF HasForeign
  <2>3. Foreign(base, source.addition) \subseteq Foreign(merged, source.addition)
    <3> HIDE DEF base
    <3> QED  BY MergeKeepsForeign
  <2> HIDE DEF base, merged
  <2> QED  BY <1>4, <2>1, <2>2, <2>3 DEF HasForeign
<1> HIDE DEF merged, base
<1>6. SettingsTypes'
  BY <1>2, <1>4, NoEditIs DEF SettingsInv, SettingsTypes, EditState, Contents
<1>7. UsersVersionIsKept'
  <2>1. SUFFICES ASSUME ~mine.raced
                 PROVE  \E s \in 0 .. Seconds : backups[s] = mine.version
    BY <1>1, <1>2 DEF UsersVersionIsKept
  <2>2. settings = Empty
    BY <1>1, <2>1 DEF SettingsInv, Calm
  <2>3. mine.version # Empty
    BY SettingsAssumption DEF SettingsInv, SettingsTypes
  <2> QED  BY <1>1, <2>1, <2>2, <2>3 DEF SettingsInv, UsersVersionIsKept
<1>8. ~mine'.raced => Calm' /\ Preserved'
  BY <1>1, <1>2, <1>5, NoEditIs DEF SettingsInv, Calm, Preserved
<1> QED  BY <1>6, <1>7, <1>8 DEF SettingsInv

LEMMA SettingsInitHolds == SettingsInit => SettingsInv
<1> SUFFICES ASSUME SettingsInit
             PROVE  SettingsInv
  OBVIOUS
<1>1. 0 \in 0 .. Seconds /\ 1 \in 1 .. Seconds /\ Absent \notin Objects
  BY SettingsAssumption
<1>2. SettingsTypes
  BY <1>1, NoEditIs DEF SettingsInit, SettingsTypes, EditState, Contents
<1>3. UsersVersionIsKept
  BY DEF SettingsInit, UsersVersionIsKept
<1>4. Calm /\ Preserved
  BY <1>1, NoEditIs DEF SettingsInit, Calm, Preserved
<1> QED  BY <1>2, <1>3, <1>4 DEF SettingsInv

LEMMA SettingsNextHolds == SettingsInv /\ [SettingsStep]_settingsVars => SettingsInv'
<1> SUFFICES ASSUME SettingsInv, [SettingsStep]_settingsVars
             PROVE  SettingsInv'
  OBVIOUS
<1>1. second \in 1 .. Seconds
  BY DEF SettingsInv, SettingsTypes
<1>2. CASE SecondPasses
  <2>1. second' \in 1 .. Seconds
    BY <1>1, <1>2, SettingsAssumption DEF SecondPasses
  <2> QED  BY <1>2, <2>1, TimeKeeps DEF SecondPasses
<1>3. CASE \E version \in UserVersions : UserSaves(version)
  BY <1>3, UserKeeps
<1>4. CASE \E dry \in BOOLEAN : Configure(dry)
  BY <1>4, ConfigureKeeps
<1>5. CASE ConfigureDies
  BY <1>5, EditEnds DEF ConfigureDies
<1>6. CASE UNCHANGED settingsVars
  BY <1>1, <1>6, TimeKeeps DEF settingsVars
<1> QED  BY <1>2, <1>3, <1>4, <1>5, <1>6, PluginKeeps, ReadKeeps, OpenBackupKeeps,
            WriteBackupKeeps, MergeKeeps, OpenSettingsKeeps, WriteSettingsKeeps
         DEF SettingsStep

(* The version that the user saved last is in the settings file or in a    *)
(* backup, however often "configure" runs and wherever it is killed, unless*)
(* he saved while it ran or two backups were made in one second.           *)
THEOREM UsersVersionStays == SettingsSpec => []UsersVersionIsKept
<1>1. SettingsInv => UsersVersionIsKept
  BY DEF SettingsInv
<1> QED  BY <1>1, SettingsInitHolds, SettingsNextHolds, PTL DEF SettingsSpec

(* A settings file that is whole has every value of that version that      *)
(* Traceboard does not set, in objects and in objects of objects.          *)
THEOREM ForeignKeysStay == SettingsSpec => []ForeignKeysSurvive
<1>1. SettingsInv => ForeignKeysSurvive
  <2> SUFFICES ASSUME SettingsInv, IsJSON(mine.version), ~mine.raced, IsJSON(settings)
               PROVE  Foreign(mine.version, source.addition) \subseteq
                        Foreign(settings, source.addition)
    BY DEF ForeignKeysSurvive
  <2>1. mine.version \in Objects /\ settings # Empty
    BY WholeFiles DEF SettingsInv, SettingsTypes, Contents
  <2> QED  BY <2>1 DEF SettingsInv, Preserved, HasForeign
<1> QED  BY <1>1, SettingsInitHolds, SettingsNextHolds, PTL DEF SettingsSpec
-----------------------------------------------------------------------------
(* Retention.  The table comes first: what callers may rely on of a row.   *)

Instant == Nat \cup {Null}

(* The rows of the runs, as far as the index and the policies read them.   *)
RowsInv ==
  /\ DOMAIN db.run = Runs
  /\ \A r \in Runs : /\ db.run[r].started \in Instant
                     /\ db.run[r].last \in Instant
                     /\ Present(db, r) => db.run[r].last \in Nat
  /\ IsFiniteSet({r \in Runs : Present(db, r)})

(* What an event makes of the row of its run: an end stays an end. *)
LEMMA IngestedRow ==
  ASSUME RowsInv, NEW e \in Events, Ingest(e)
  PROVE  /\ DOMAIN db'.run = Runs
         /\ \A r \in Runs \ {e.run} : db'.run[r] = db.run[r]
         /\ db'.run[e.run].started \in Instant
         /\ db'.run[e.run].last \in Nat
         /\ Present(db, e.run) /\ db.run[e.run].ended # Null => db'.run[e.run].ended # Null
<1> DEFINE row == Store!EnsureRun(db.run[e.run], e)
<1>1. e.run \in Runs /\ e.at \in Nat /\ Null \notin Nat
  BY RunTableAssumption
<1>2. db'.run = [db.run EXCEPT ![e.run] = Store!UpdateRun(row, e)]
  BY DEF Ingest, Store!InsertEvent
<1>3. db'.run[e.run] = Store!UpdateRun(row, e)
  BY <1>1, <1>2 DEF RowsInv
<1>4. /\ row.started \in Instant /\ row.last \in Instant
      /\ Present(db, e.run) => row = db.run[e.run]
  BY <1>1 DEF RowsInv, Store!EnsureRun, Store!AbsentRun, Present, Instant
<1> HIDE DEF row
<1>5. /\ db'.run[e.run].started = IF e.type = "run.started" THEN Store!Earlier(e.at, row.started)
                                  ELSE row.started
      /\ db'.run[e.run].last = Store!Later(e.at, row.last)
      /\ db'.run[e.run].ended = IF e.type \in Store!RunEnding THEN Store!Earlier(e.at, row.ended)
                                ELSE row.ended
  BY <1>3 DEF Store!UpdateRun
<1>6. /\ Store!Earlier(e.at, row.started) \in Instant
      /\ Store!Later(e.at, row.last) \in Nat
      /\ row.ended # Null => Store!Earlier(e.at, row.ended) # Null
  BY <1>1, <1>4 DEF Store!Earlier, Store!Later, Store!Before, Instant
<1>7. DOMAIN db'.run = Runs /\ \A r \in Runs \ {e.run} : db'.run[r] = db.run[r]
  BY <1>1, <1>2 DEF RowsInv
<1> QED
  BY <1>4, <1>5, <1>6, <1>7

(* A deletion leaves the other rows. *)
LEMMA DeletedRow ==
  ASSUME RowsInv, NEW r \in Runs, db' = Store!RemoveRun(db, r)
  PROVE  /\ DOMAIN db'.run = Runs
         /\ \A q \in Runs \ {r} : db'.run[q] = db.run[q]
         /\ db'.run[r] = Store!AbsentRun
         /\ ~Present(db', r)
<1>1. db'.run = [db.run EXCEPT ![r] = Store!AbsentRun]
  BY DEF Store!RemoveRun
<1> QED
  BY <1>1 DEF RowsInv, Present, Store!AbsentRun

(* A run of which the table has no row. *)
LEMMA AbsentRowIs ==
  Store!AbsentRun.started = Null /\ Store!AbsentRun.last = Null /\ Store!AbsentRun.status = "absent"
BY DEF Store!AbsentRun

(* Every step of the table keeps what is said of its rows. *)
LEMMA DeletedRowsInv ==
  ASSUME RowsInv, NEW r \in Runs, db' = Store!RemoveRun(db, r)
  PROVE  RowsInv'
<1> USE DeletedRow
<1>1. ASSUME NEW q \in Runs \ {r}
      PROVE  /\ db'.run[q].started \in Instant
             /\ db'.run[q].last \in Instant
             /\ Present(db', q) => db'.run[q].last \in Nat
  BY <1>1 DEF RowsInv, Present
<1>2. /\ db'.run[r].started \in Instant /\ db'.run[r].last \in Instant
      /\ ~Present(db', r)
  BY AbsentRowIs DEF Instant
<1>3. {q \in Runs : Present(db', q)} \in SUBSET {q \in Runs : Present(db, q)}
  BY <1>2 DEF Present
<1>4. IsFiniteSet({q \in Runs : Present(db', q)})
  BY <1>3, FS_Subset DEF RowsInv
<1> QED
  BY <1>1, <1>2, <1>4 DEF RowsInv

(* The table stays as callers rely on it, whatever is inserted. *)
LEMMA IngestedRowsInv ==
  ASSUME RowsInv, NEW e \in Events, Ingest(e)
  PROVE  RowsInv'
<1>1. ASSUME NEW q \in Runs \ {e.run}
      PROVE  /\ db'.run[q].started \in Instant
             /\ db'.run[q].last \in Instant
             /\ Present(db', q) => db'.run[q].last \in Nat
  BY <1>1, IngestedRow DEF RowsInv, Present
<1>2. db'.run[e.run].started \in Instant /\ db'.run[e.run].last \in Nat
  BY IngestedRow
<1>3. DOMAIN db'.run = Runs
  BY IngestedRow
<1>4. IsFiniteSet({q \in Runs : Present(db', q)})
  <2>1. IsFiniteSet({q \in Runs : Present(db, q)} \cup {e.run})
    BY FS_AddElement DEF RowsInv
  <2>2. {q \in Runs : Present(db', q)} \in SUBSET ({q \in Runs : Present(db, q)} \cup {e.run})
    BY IngestedRow DEF Present
  <2> QED
    BY <2>1, <2>2, FS_Subset
<1> QED
  BY <1>1, <1>2, <1>3, <1>4 DEF RowsInv, Instant

(* The row that the query lists first is there: times and identifiers are  *)
(* numbers, so that some row has the least of both.                        *)
LEMMA LeastNumber ==
  ASSUME NEW S \in SUBSET Nat, S # {}
  PROVE  \E n \in S : \A m \in S : n <= m
<1>1. PICK n \in S : \A m \in S : ~(<<m, n>> \in OpToRel(<, Nat))
  BY NatLessThanWellFounded, WFMin
<1>2. ASSUME NEW m \in S PROVE ~(m < n)
  BY <1>1 DEF OpToRel
<1> QED
  BY <1>2

(* First takes the oldest. *)
LEMMA FirstIsFirst ==
  ASSUME NEW rows \in SUBSET [run: Runs, at: Nat], rows # {}
  PROVE  /\ First(rows) \in rows
         /\ \A y \in rows : First(rows).at <= y.at
<1>0. Runs \subseteq Nat
  BY RunTableAssumption
<1> USE <1>0
<1>1. {x.at : x \in rows} \in SUBSET Nat /\ {x.at : x \in rows} # {}
  OBVIOUS
<1>2. PICK t \in {x.at : x \in rows} : \A s \in {x.at : x \in rows} : t <= s
  BY <1>1, LeastNumber
<1> DEFINE oldest == {x \in rows : x.at = t}
<1>3. {x.run : x \in oldest} \in SUBSET Nat /\ {x.run : x \in oldest} # {}
  OBVIOUS
<1>4. PICK r \in {x.run : x \in oldest} : \A q \in {x.run : x \in oldest} : r <= q
  BY <1>3, LeastNumber
<1>5. PICK x \in oldest : x.run = r
  BY <1>4
<1>6. \A y \in rows : x.at < y.at \/ (x.at = y.at /\ x.run <= y.run)
  <2>1. \A y \in rows : x.at \in Nat /\ y.at \in Nat /\ x.at <= y.at
    BY <1>2
  <2>2. \A y \in rows : y.at = x.at => x.run <= y.run
    BY <1>4, <1>5
  <2> QED
    BY <2>1, <2>2
<1>7. First(rows) \in rows /\ \A y \in rows : LET x0 == First(rows)
                                           IN x0.at < y.at \/ (x0.at = y.at /\ x0.run <= y.run)
  BY <1>5, <1>6 DEF First
<1>8. \A y \in rows : First(rows).at \in Nat /\ y.at \in Nat
  BY <1>7
<1> QED
  BY <1>7, <1>8
-----------------------------------------------------------------------------
(* The call.  What it lists or is to delete is there, and has ended, or    *)
(* others deleted it; what it has deleted is older than the rest.          *)

Row == [run: Runs, at: Nat]

JobTypes ==
  /\ job.pc \in {"idle", "reading", "deleting", "done", "failed"}
  /\ job = [pc |-> job.pc, listed |-> job.listed, todo |-> job.todo, deleted |-> job.deleted,
            selected |-> job.selected, gone |-> job.gone]
  /\ job.selected \subseteq Row
  /\ \A x, y \in job.selected : x.run = y.run => x = y

JobParts ==
  /\ job.listed \subseteq job.selected
  /\ job.todo \subseteq job.selected
  /\ job.deleted \subseteq job.selected
  /\ job.listed \cap job.todo = {}
  /\ \A x \in job.selected : x \in job.listed \cup job.todo \cup job.deleted \/ x.run \in job.gone
  /\ job.pc \notin {"reading", "failed"} => job.listed = {}
  /\ job.pc = "done" => job.todo = {}

OldestFirst ==
  \A x \in job.deleted, y \in job.listed \cup job.todo : x.at <= y.at

Ended(d, r) == Present(d, r) /\ d.run[r].ended # Null

StillThere ==
  job.pc \in {"reading", "deleting"} =>
    \A x \in job.listed \cup job.todo : Ended(db, x.run) \/ x.run \in job.gone

JobInv == JobTypes /\ JobParts /\ OldestFirst /\ StillThere

RetentionInv == RowsInv /\ JobInv

(* A step of others takes ended runs only by deleting them. *)
LEMMA OthersKeepEnded ==
  ASSUME RowsInv, TableStep
  PROVE  RowsInv' /\ \A r \in Runs : Ended(db, r) => Ended(db', r) \/ r \in Removed
<1>1. ASSUME NEW e \in Events, Ingest(e)
      PROVE  RowsInv' /\ \A r \in Runs : Ended(db, r) => Ended(db', r) \/ r \in Removed
  <2>1. \A r \in Runs \ {e.run} : Ended(db, r) => Ended(db', r)
    BY <1>1, IngestedRow DEF Ended, Present
  <2>2. Ended(db, e.run) => Ended(db', e.run) \/ ~Present(db', e.run)
    BY <1>1, IngestedRow DEF Ended
  <2> QED
    BY <1>1, <2>1, <2>2, IngestedRowsInv DEF Removed, Ended
<1>2. ASSUME NEW q \in Runs, Delete(q)
      PROVE  RowsInv' /\ \A r \in Runs : Ended(db, r) => Ended(db', r) \/ r \in Removed
  <2>1. db' = Store!RemoveRun(db, q) /\ Present(db, q)
    BY <1>2 DEF Delete
  <2>2. \A r \in Runs \ {q} : Ended(db, r) => Ended(db', r)
    BY <2>1, DeletedRow DEF Ended, Present
  <2>3. q \in Removed
    BY <2>1, DeletedRow DEF Removed
  <2> QED
    BY <2>1, <2>2, <2>3, DeletedRowsInv
<1> QED
  BY <1>1, <1>2 DEF TableStep

(* A step of others, while a call is under way. *)
LEMMA OthersKeepTheCall ==
  ASSUME RetentionInv, TableStep, JobWatches
  PROVE  RetentionInv'
<1>1. RowsInv' /\ \A r \in Runs : Ended(db, r) => Ended(db', r) \/ r \in Removed
  BY OthersKeepEnded DEF RetentionInv
<1>2. CASE job.pc \in {"reading", "deleting"}
  <2>1. job' = [job EXCEPT !.gone = job.gone \cup Removed]
    BY <1>2 DEF JobWatches
  <2>2. /\ job'.pc = job.pc /\ job'.listed = job.listed /\ job'.todo = job.todo
        /\ job'.deleted = job.deleted /\ job'.selected = job.selected
        /\ job'.gone = job.gone \cup Removed
        /\ job' = [pc |-> job'.pc, listed |-> job'.listed, todo |-> job'.todo,
                   deleted |-> job'.deleted, selected |-> job'.selected, gone |-> job'.gone]
    <3>1. job = [pc |-> job.pc, listed |-> job.listed, todo |-> job.todo,
                 deleted |-> job.deleted, selected |-> job.selected, gone |-> job.gone]
      BY DEF RetentionInv, JobInv, JobTypes
    <3> QED
      BY <2>1, <3>1
  <2>3. \A x \in job.listed \cup job.todo : x.run \in Runs
    BY DEF RetentionInv, JobInv, JobTypes, JobParts, Row
  <2>4. StillThere'
    BY <1>1, <1>2, <2>2, <2>3 DEF RetentionInv, JobInv, StillThere
  <2>5. JobTypes' /\ JobParts' /\ OldestFirst'
    BY <2>2 DEF RetentionInv, JobInv, JobTypes, JobParts, OldestFirst
  <2> QED
    BY <1>1, <2>4, <2>5 DEF RetentionInv, JobInv
<1>3. CASE job.pc \notin {"reading", "deleting"}
  <2>1. job' = job
    BY <1>3 DEF JobWatches
  <2>2. JobTypes' /\ JobParts' /\ OldestFirst' /\ StillThere'
    BY <1>3, <2>1 DEF RetentionInv, JobInv, JobTypes, JobParts, OldestFirst, StillThere
  <2> QED
    BY <1>1, <2>2 DEF RetentionInv, JobInv
<1> QED
  BY <1>2, <1>3

(* What the query selects: rows of runs that are there and have ended. *)
LEMMA SelectedRows ==
  ASSUME RowsInv, NEW policy
  PROVE  LET rows == {[run |-> r, at |-> SortAt(db, r)] : r \in Selected(db, policy)}
         IN /\ rows \subseteq Row
            /\ \A x, y \in rows : x.run = y.run => x = y
            /\ \A x \in rows : Ended(db, x.run)
<1>1. \A r \in Selected(db, policy) : r \in Runs /\ Ended(db, r) /\ SortAt(db, r) \in Nat
  BY DEF Selected, Ended, RowsInv, SortAt, Instant
<1> QED
  BY <1>1 DEF Row

(* The call selects its candidates. *)
LEMMA ApplyBeginKeeps ==
  ASSUME RetentionInv, NEW policy \in Policies, ApplyBegin(policy)
  PROVE  RetentionInv'
<1> DEFINE rows == {[run |-> r, at |-> SortAt(db, r)] : r \in Selected(db, policy)}
<1>1. /\ rows \subseteq Row
      /\ \A x, y \in rows : x.run = y.run => x = y
      /\ \A x \in rows : Ended(db, x.run)
  BY SelectedRows DEF RetentionInv
<1>2. job' = [NoJob EXCEPT !.pc = "reading", !.listed = rows, !.selected = rows] /\ db' = db
  BY DEF ApplyBegin
<1> HIDE DEF rows
<1>3. job' = [pc |-> "reading", listed |-> rows, todo |-> {}, deleted |-> {}, selected |-> rows,
              gone |-> {}]
  BY <1>2 DEF NoJob
<1>4. /\ job'.pc = "reading" /\ job'.listed = rows /\ job'.todo = {} /\ job'.deleted = {}
      /\ job'.selected = rows /\ job'.gone = {}
  BY <1>3
<1>5. JobTypes'
  BY <1>1, <1>3, <1>4 DEF JobTypes
<1>6. JobParts' /\ OldestFirst'
  BY <1>4 DEF JobParts, OldestFirst
<1>7. StillThere'
  BY <1>1, <1>2, <1>4 DEF StillThere
<1>8. RowsInv'
  BY <1>2 DEF RetentionInv, RowsInv, Present
<1> QED
  BY <1>5, <1>6, <1>7, <1>8 DEF RetentionInv, JobInv

(* The call reads the next candidate, or has read them all. *)
LEMMA ReadCandidateKeeps ==
  ASSUME RetentionInv, ReadCandidate
  PROVE  RetentionInv'
<1> DEFINE x == First(job.listed)
<1>1. job.pc = "reading" /\ job.listed # {} /\ db' = db
  BY DEF ReadCandidate
<1>2. x \in job.listed
  <2>1. job.listed \in SUBSET [run: Runs, at: Nat]
    BY DEF RetentionInv, JobInv, JobTypes, JobParts, Row
  <2> QED
    BY <1>1, <2>1, FirstIsFirst
<1>3. job' = [pc |-> "reading", listed |-> job.listed \ {x},
              todo |-> IF Present(db, x.run) THEN job.todo \cup {x} ELSE job.todo,
              deleted |-> job.deleted, selected |-> job.selected, gone |-> job.gone]
  <2>1. job = [pc |-> job.pc, listed |-> job.listed, todo |-> job.todo,
               deleted |-> job.deleted, selected |-> job.selected, gone |-> job.gone]
    BY DEF RetentionInv, JobInv, JobTypes
  <2>2. job' = [job EXCEPT !.listed = job.listed \ {x},
                           !.todo = IF Present(db, x.run) THEN job.todo \cup {x} ELSE job.todo]
    BY DEF ReadCandidate
  <2> HIDE DEF x
  <2> QED
    BY <1>1, <2>1, <2>2
<1>4. Ended(db, x.run) \/ x.run \in job.gone
  BY <1>1, <1>2 DEF RetentionInv, JobInv, StillThere
<1>5. Present(db, x.run) \/ x.run \in job.gone
  BY <1>4 DEF Ended
<1> HIDE DEF x
<1>6. /\ job'.pc = "reading" /\ job'.listed = job.listed \ {x}
      /\ job'.todo = IF Present(db, x.run) THEN job.todo \cup {x} ELSE job.todo
      /\ job'.deleted = job.deleted /\ job'.selected = job.selected /\ job'.gone = job.gone
  BY <1>3
<1>7. JobTypes'
  BY <1>3, <1>6 DEF RetentionInv, JobInv, JobTypes
<1>8. JobParts'
  BY <1>1, <1>2, <1>5, <1>6 DEF RetentionInv, JobInv, JobParts
<1>9. OldestFirst'
  BY <1>2, <1>6 DEF RetentionInv, JobInv, OldestFirst
<1>10. StillThere'
  BY <1>1, <1>2, <1>6 DEF RetentionInv, JobInv, StillThere
<1>11. RowsInv'
  BY <1>1 DEF RetentionInv, RowsInv, Present
<1> QED
  BY <1>7, <1>8, <1>9, <1>10, <1>11 DEF RetentionInv, JobInv

(* What the deletion of the first row that is left does. *)
LEMMA DeleteCandidateStep ==
  ASSUME RetentionInv, DeleteCandidate
  PROVE  \E x \in job.todo :
           /\ job.pc = "deleting"
           /\ \A y \in job.todo : x.at <= y.at
           /\ db' = Store!RemoveRun(db, x.run)
           /\ job' = [pc |-> "deleting", listed |-> job.listed, todo |-> job.todo \ {x},
                      deleted |-> job.deleted \cup {x}, selected |-> job.selected,
                      gone |-> job.gone]
<1> DEFINE x == First(job.todo)
<1>1. job.pc = "deleting" /\ job.todo # {} /\ db' = Store!RemoveRun(db, x.run)
  BY DEF DeleteCandidate
<1>2. x \in job.todo /\ \A y \in job.todo : x.at <= y.at
  <2>1. job.todo \in SUBSET [run: Runs, at: Nat]
    BY DEF RetentionInv, JobInv, JobTypes, JobParts, Row
  <2> QED
    BY <1>1, <2>1, FirstIsFirst
<1>3. job = [pc |-> job.pc, listed |-> job.listed, todo |-> job.todo,
             deleted |-> job.deleted, selected |-> job.selected, gone |-> job.gone]
  BY DEF RetentionInv, JobInv, JobTypes
<1>4. job' = [job EXCEPT !.todo = job.todo \ {x}, !.deleted = job.deleted \cup {x}]
  BY DEF DeleteCandidate
<1> HIDE DEF x
<1>5. job' = [pc |-> "deleting", listed |-> job.listed, todo |-> job.todo \ {x},
              deleted |-> job.deleted \cup {x}, selected |-> job.selected, gone |-> job.gone]
  BY <1>1, <1>3, <1>4
<1> QED
  BY <1>1, <1>2, <1>5

(* The call deletes the next candidate. *)
LEMMA DeleteCandidateKeeps ==
  ASSUME RetentionInv, DeleteCandidate
  PROVE  RetentionInv'
<1>1. PICK x \in job.todo :
        /\ job.pc = "deleting"
        /\ \A y \in job.todo : x.at <= y.at
        /\ db' = Store!RemoveRun(db, x.run)
        /\ job' = [pc |-> "deleting", listed |-> job.listed, todo |-> job.todo \ {x},
                   deleted |-> job.deleted \cup {x}, selected |-> job.selected,
                   gone |-> job.gone]
  BY DeleteCandidateStep
<1>2. /\ job'.pc = "deleting" /\ job'.listed = job.listed /\ job'.todo = job.todo \ {x}
      /\ job'.deleted = job.deleted \cup {x} /\ job'.selected = job.selected
      /\ job'.gone = job.gone
  BY <1>1
<1>3. job.listed = {} /\ x \in job.selected /\ x.run \in Runs
  BY <1>1 DEF RetentionInv, JobInv, JobTypes, JobParts, Row
<1>4. \A y \in job.todo \ {x} : y.run \in Runs \ {x.run}
  BY <1>3 DEF RetentionInv, JobInv, JobTypes, JobParts, Row
<1>5. /\ RowsInv'
      /\ \A q \in Runs \ {x.run} : db'.run[q] = db.run[q]
  BY <1>1, <1>3, DeletedRow, DeletedRowsInv DEF RetentionInv
<1>6. JobTypes'
  BY <1>1, <1>2 DEF RetentionInv, JobInv, JobTypes
<1>7. JobParts'
  BY <1>1, <1>2, <1>3 DEF RetentionInv, JobInv, JobParts
<1>8. OldestFirst'
  BY <1>1, <1>2, <1>3 DEF RetentionInv, JobInv, OldestFirst
<1>9. StillThere'
  <2>1. ASSUME NEW y \in job.todo \ {x} PROVE Ended(db', y.run) \/ y.run \in job.gone
    <3>1. Ended(db, y.run) \/ y.run \in job.gone
      BY <1>1 DEF RetentionInv, JobInv, StillThere
    <3>2. db'.run[y.run] = db.run[y.run]
      BY <1>4, <1>5
    <3> QED
      BY <3>1, <3>2 DEF Ended, Present
  <2> QED
    BY <1>2, <1>3, <2>1 DEF StillThere
<1> QED
  BY <1>5, <1>6, <1>7, <1>8, <1>9 DEF RetentionInv, JobInv

(* The other steps of a call change no row. *)
LEMMA CallGoesOn ==
  ASSUME RetentionInv, ReadingEnds \/ DeleteFails \/ ApplyEnds
  PROVE  RetentionInv'
<1>1. \E pc \in {"deleting", "failed", "done"} :
        /\ job' = [job EXCEPT !.pc = pc] /\ db' = db
        /\ pc = "deleting" => job.pc = "reading" /\ job.listed = {}
        /\ pc = "failed" => job.pc = "deleting"
        /\ pc = "done" => job.pc = "deleting" /\ job.todo = {}
  BY DEF ReadingEnds, DeleteFails, ApplyEnds
<1>2. PICK pc \in {"deleting", "failed", "done"} :
        /\ job' = [job EXCEPT !.pc = pc] /\ db' = db
        /\ pc = "deleting" => job.pc = "reading" /\ job.listed = {}
        /\ pc = "failed" => job.pc = "deleting"
        /\ pc = "done" => job.pc = "deleting" /\ job.todo = {}
  BY <1>1
<1>3. job = [pc |-> job.pc, listed |-> job.listed, todo |-> job.todo,
             deleted |-> job.deleted, selected |-> job.selected, gone |-> job.gone]
  BY DEF RetentionInv, JobInv, JobTypes
<1>4. /\ job'.pc = pc /\ job'.listed = job.listed /\ job'.todo = job.todo
      /\ job'.deleted = job.deleted /\ job'.selected = job.selected /\ job'.gone = job.gone
      /\ job' = [pc |-> job'.pc, listed |-> job'.listed, todo |-> job'.todo,
                 deleted |-> job'.deleted, selected |-> job'.selected, gone |-> job'.gone]
  BY <1>2, <1>3
<1>5. JobTypes' /\ OldestFirst'
  BY <1>4 DEF RetentionInv, JobInv, JobTypes, OldestFirst
<1>6. JobParts'
  BY <1>2, <1>4 DEF RetentionInv, JobInv, JobParts
<1>7. StillThere'
  BY <1>2, <1>4 DEF RetentionInv, JobInv, StillThere
<1>8. RowsInv'
  BY <1>2 DEF RetentionInv, RowsInv, Present
<1> QED
  BY <1>5, <1>6, <1>7, <1>8 DEF RetentionInv, JobInv

(* An empty table. *)
LEMMA TableInitHolds == TableInit => RowsInv
<1> SUFFICES ASSUME TableInit PROVE RowsInv
  OBVIOUS
<1>1. db.run = [r \in Runs |-> Store!AbsentRun]
  BY DEF TableInit, Store!EmptyDb
<1>2. {r \in Runs : Present(db, r)} = {}
  BY <1>1, AbsentRowIs DEF Present
<1> QED
  BY <1>1, <1>2, AbsentRowIs, FS_EmptySet DEF RowsInv, Present, Instant

(* The invariant of a call holds at the start, in each step, and always. *)
LEMMA RetentionInitHolds == TableInit /\ RetentionInit => RetentionInv
<1> SUFFICES ASSUME TableInit, RetentionInit PROVE RetentionInv
  OBVIOUS
<1>1. RowsInv
  BY TableInitHolds
<1>2. JobInv
  BY DEF RetentionInit, NoJob, JobInv, JobTypes, JobParts, OldestFirst, StillThere
<1> QED
  BY <1>1, <1>2 DEF RetentionInv

LEMMA RetentionNextHolds ==
  RetentionInv /\ [(TableStep /\ JobWatches) \/ RetentionStep]_<<db, job>> => RetentionInv'
<1> SUFFICES ASSUME RetentionInv, [(TableStep /\ JobWatches) \/ RetentionStep]_<<db, job>>
             PROVE  RetentionInv'
  OBVIOUS
<1>1. CASE TableStep /\ JobWatches
  BY <1>1, OthersKeepTheCall
<1>2. CASE RetentionStep
  BY <1>2, ApplyBeginKeeps, ReadCandidateKeeps, DeleteCandidateKeeps, CallGoesOn DEF RetentionStep
<1>3. CASE UNCHANGED <<db, job>>
  BY <1>3 DEF RetentionInv, RowsInv, Present, JobInv, JobTypes, JobParts, OldestFirst, StillThere
<1> QED
  BY <1>1, <1>2, <1>3

LEMMA RetentionAlways == RetentionSpec => []RetentionInv
BY RetentionInitHolds, RetentionNextHolds, PTL DEF RetentionSpec

(* What a call deletes is the oldest part of what it selected, and one that*)
(* succeeds leaves nothing (retention.Apply), whoever deletes runs or      *)
(* brings them back in between.                                            *)
THEOREM ApplyStaysOrdered == RetentionSpec => []ApplyIsOrdered
<1>1. RetentionInv => ApplyIsOrdered
  BY DEF RetentionInv, JobInv, JobTypes, JobParts, OldestFirst, ApplyIsOrdered
<1> QED
  BY <1>1, RetentionAlways, PTL

(* A run that has not ended is exempt: none but an ended one, or one that  *)
(* went and came back during the call, is deleted by it.                   *)
THEOREM ExemptRunsAreSpared == RetentionSpec => ExemptRunsStay
<1>1. RetentionInv /\ [(TableStep /\ JobWatches) \/ RetentionStep]_<<db, job>> => ExemptRuns
  <2> SUFFICES ASSUME RetentionInv, [(TableStep /\ JobWatches) \/ RetentionStep]_<<db, job>>,
                      NEW r \in Removed, job'.deleted # job.deleted
               PROVE  db.run[r].ended # Null \/ r \in job.gone
    BY DEF ExemptRuns
  <2>1. ~JobWatches
    <3>1. JobTypes
      BY DEF RetentionInv, JobInv
    <3> QED
      BY <3>1 DEF JobWatches, JobTypes
  <2>2. db' # db
    BY DEF Removed
  <2>3. DeleteCandidate
    BY <2>1, <2>2 DEF RetentionStep, ApplyBegin, ReadCandidate, ReadingEnds, DeleteFails, ApplyEnds
  <2>4. PICK x \in job.todo :
          /\ job.pc = "deleting"
          /\ db' = Store!RemoveRun(db, x.run)
    BY <2>3, DeleteCandidateStep
  <2>5. x.run \in Runs /\ RowsInv /\ r \in Runs
    BY DEF RetentionInv, JobInv, JobTypes, JobParts, Row, Removed
  <2>6. r = x.run
    BY <2>4, <2>5, DeletedRow DEF Removed, Present
  <2> QED
    BY <2>4, <2>6 DEF RetentionInv, JobInv, StillThere, Ended
<1> QED
  BY <1>1, RetentionAlways, PTL DEF RetentionSpec, ExemptRunsStay
-----------------------------------------------------------------------------
(* The index of runs.  A finite set with a strict total order, given as a  *)
(* set of pairs: the number of those before an element is its position,    *)
(* every position is taken, and the order is that of the positions.        *)

Before(S, R, x) == {y \in S : <<y, x>> \in R}

LEMMA Positions ==
  ASSUME NEW S, IsFiniteSet(S), NEW R,
         \A x \in S : <<x, x>> \notin R,
         \A x, y \in S : x # y => <<x, y>> \in R \/ <<y, x>> \in R,
         \A x, y, z \in S : <<x, y>> \in R /\ <<y, z>> \in R => <<x, z>> \in R
  PROVE  /\ \A x \in S : Cardinality(Before(S, R, x)) + 1 \in 1..Cardinality(S)
         /\ \A x, y \in S : <<x, y>> \in R =>
              Cardinality(Before(S, R, x)) < Cardinality(Before(S, R, y))
         /\ \A i \in 1..Cardinality(S) : \E x \in S : Cardinality(Before(S, R, x)) = i - 1
<1> DEFINE n == Cardinality(S)
           rank == [x \in S |-> Cardinality(Before(S, R, x)) + 1]
<1>n. n \in Nat
  BY FS_CardinalityType
<1>1. ASSUME NEW x \in S
      PROVE  /\ Cardinality(Before(S, R, x)) \in Nat
             /\ Cardinality(Before(S, R, x) \cup {x}) = Cardinality(Before(S, R, x)) + 1
  <2>1. Before(S, R, x) \in SUBSET S /\ x \notin Before(S, R, x)
    BY DEF Before
  <2>2. IsFiniteSet(Before(S, R, x))
    BY <2>1, FS_Subset
  <2> QED
    BY <2>1, <2>2, FS_CardinalityType, FS_AddElement
<1>2. ASSUME NEW x \in S, NEW T \in SUBSET S, Before(S, R, x) \cup {x} \subseteq T
      PROVE  Cardinality(Before(S, R, x)) + 1 <= Cardinality(T)
  <2>1. IsFiniteSet(T)
    BY FS_Subset
  <2>2. Before(S, R, x) \cup {x} \in SUBSET T
    BY <1>2
  <2>3. Cardinality(Before(S, R, x) \cup {x}) <= Cardinality(T)
    BY ONLY <2>1, <2>2, FS_Subset
  <2> QED
    BY <1>1, <2>3
<1>3. ASSUME NEW x \in S
      PROVE  Cardinality(Before(S, R, x)) + 1 \in 1..n
  <2>1. Before(S, R, x) \cup {x} \subseteq S /\ S \in SUBSET S
    BY DEF Before
  <2>2. Cardinality(Before(S, R, x)) + 1 <= Cardinality(S)
    BY <1>2, <2>1
  <2>3. Cardinality(Before(S, R, x)) \in Nat
    BY <1>1
  <2> HIDE DEF n
  <2>4. Cardinality(Before(S, R, x)) + 1 <= n
    BY <2>2 DEF n
  <2> QED
    BY <1>n, <2>3, <2>4
<1>4. ASSUME NEW x \in S, NEW y \in S, <<x, y>> \in R
      PROVE  Cardinality(Before(S, R, x)) < Cardinality(Before(S, R, y))
  <2>1. Before(S, R, y) \in SUBSET S /\ Before(S, R, x) \cup {x} \subseteq Before(S, R, y)
    BY <1>4 DEF Before
  <2>2. Cardinality(Before(S, R, x)) + 1 <= Cardinality(Before(S, R, y))
    BY <1>2, <2>1
  <2>3. Cardinality(Before(S, R, x)) \in Nat /\ Cardinality(Before(S, R, y)) \in Nat
    BY <1>1
  <2> QED
    BY <2>2, <2>3
<1>5. rank \in Injection(S, 1..n)
  <2>1. rank \in [S -> 1..n]
    <3> HIDE DEF n
    <3> QED
      BY <1>3
  <2>2. ASSUME NEW x \in S, NEW y \in S, rank[x] = rank[y]
        PROVE  x = y
    <3>1. Cardinality(Before(S, R, x)) + 1 = Cardinality(Before(S, R, y)) + 1
      BY <2>2
    <3>2. Cardinality(Before(S, R, x)) \in Nat /\ Cardinality(Before(S, R, y)) \in Nat
      BY <1>1
    <3>3. Cardinality(Before(S, R, x)) = Cardinality(Before(S, R, y))
      BY ONLY <3>1, <3>2
    <3>4. ~(<<x, y>> \in R) /\ ~(<<y, x>> \in R)
      BY <1>4, <3>2, <3>3
    <3> QED
      BY <3>4
  <2> HIDE DEF rank, n
  <2> QED
    BY <2>1, <2>2 DEF Injection, IsInjective
<1>6. IsFiniteSet(1..n) /\ Cardinality(1..n) = n
  <2> HIDE DEF n
  <2>1. 1 \in Int /\ n \in Int
    BY <1>n
  <2>2. IsFiniteSet(1..n) /\ Cardinality(1..n) = IF 1 > n THEN 0 ELSE n - 1 + 1
    BY <2>1, FS_Interval
  <2> QED
    BY <1>n, <2>2
<1>7. rank \in Surjection(S, 1..n)
  <2>1. Cardinality(S) = Cardinality(1..n)
    BY <1>6
  <2> HIDE DEF rank, n
  <2> QED
    BY <1>5, <1>6, <2>1, FS_Injection
<1>8. ASSUME NEW i \in 1..n
      PROVE  \E x \in S : Cardinality(Before(S, R, x)) = i - 1
  <2>1. PICK x \in S : rank[x] = i
    <3> HIDE DEF rank, n
    <3> QED
      BY <1>7 DEF Surjection
  <2>2. Cardinality(Before(S, R, x)) + 1 = i
    BY <2>1
  <2>3. Cardinality(Before(S, R, x)) \in Nat
    BY <1>1
  <2> HIDE DEF rank, n
  <2> QED
    BY <1>n, <2>2, <2>3
<1> QED
  BY <1>3, <1>4, <1>8

Key == [at: Nat, run: Runs]

(* A page is in the order of the index, and has each of its rows. *)
LEMMA OrderedRows ==
  ASSUME NEW rows \in SUBSET Key, IsFiniteSet(rows)
  PROVE  /\ Ordered(rows) \in Seq(rows) /\ Len(Ordered(rows)) = Cardinality(rows)
         /\ \A x \in rows : \E i \in 1..Len(Ordered(rows)) : Ordered(rows)[i] = x
         /\ \A i, j \in 1..Len(Ordered(rows)) :
              i < j => Behind(Ordered(rows)[j], Ordered(rows)[i])
<1> USE RunTableAssumption
<1> DEFINE R == {p \in rows \X rows : Ahead(p[1], p[2])}
           n == Cardinality(rows)
           at(i) == CHOOSE x \in rows : Cardinality({y \in rows : Ahead(y, x)}) = i - 1
<1>1. /\ \A x \in rows : x.at \in Nat /\ x.run \in Nat
      /\ \A x, y \in rows : x.at = y.at /\ x.run = y.run => x = y
  <2>1. \A x \in Key : x.at \in Nat /\ x.run \in Nat
    BY DEF Key
  <2>2. \A x, y \in Key : x.at = y.at /\ x.run = y.run => x = y
    BY DEF Key
  <2> QED
    BY <2>1, <2>2
<1>2. \A x, y \in rows : <<x, y>> \in R <=> Ahead(x, y)
  OBVIOUS
<1>3. /\ \A x \in rows : ~Ahead(x, x)
      /\ \A x, y \in rows : x # y => Ahead(x, y) \/ Ahead(y, x)
      /\ \A x, y, z \in rows : Ahead(x, y) /\ Ahead(y, z) => Ahead(x, z)
      /\ \A x, y \in rows : Ahead(x, y) => Behind(y, x)
  BY <1>1 DEF Ahead, Behind
<1>4. \A x \in rows : Before(rows, R, x) = {y \in rows : Ahead(y, x)}
  BY <1>2 DEF Before
<1> HIDE DEF R
<1>5. /\ \A x \in rows : Cardinality(Before(rows, R, x)) + 1 \in 1..n
      /\ \A x, y \in rows : <<x, y>> \in R =>
           Cardinality(Before(rows, R, x)) < Cardinality(Before(rows, R, y))
      /\ \A i \in 1..n : \E x \in rows : Cardinality(Before(rows, R, x)) = i - 1
  <2>1. /\ \A x \in rows : <<x, x>> \notin R
        /\ \A x, y \in rows : x # y => <<x, y>> \in R \/ <<y, x>> \in R
        /\ \A x, y, z \in rows : <<x, y>> \in R /\ <<y, z>> \in R => <<x, z>> \in R
    BY <1>2, <1>3
  <2> QED
    BY <2>1, Positions
<1> DEFINE rank(x) == Cardinality({y \in rows : Ahead(y, x)})
<1>6. n \in Nat
  BY FS_CardinalityType
<1>7. /\ \A x \in rows : rank(x) \in Nat /\ rank(x) + 1 \in 1..n
      /\ \A x, y \in rows : Ahead(x, y) => rank(x) < rank(y)
      /\ \A i \in 1..n : \E x \in rows : rank(x) = i - 1
  <2>1. \A x \in rows : rank(x) = Cardinality(Before(rows, R, x))
    BY <1>4
  <2>2. \A x \in rows : Cardinality(Before(rows, R, x)) \in Nat
    <3>1. \A x \in rows : Before(rows, R, x) \in SUBSET rows
      BY DEF Before
    <3> QED
      BY <3>1, FS_Subset, FS_CardinalityType
  <2> HIDE DEF rank, n
  <2> QED
    BY <1>2, <1>5, <2>1, <2>2
<1>8. \A i \in 1..n : at(i) \in rows /\ rank(at(i)) = i - 1
  <2> HIDE DEF n
  <2> QED
    BY <1>7
<1>9. Ordered(rows) = [i \in 1..n |-> at(i)]
  BY DEF Ordered
<1> HIDE DEF rank, at, n
<1>10. \A i \in 1..n : Ordered(rows)[i] = at(i)
  BY <1>9
<1>11. Ordered(rows) \in Seq(rows) /\ Len(Ordered(rows)) = n
  <2>1. Ordered(rows) \in [1..n -> rows]
    BY <1>8, <1>9
  <2> QED
    BY <1>6, <2>1
<1>12. ASSUME NEW x \in rows PROVE \E i \in 1..n : Ordered(rows)[i] = x
  <2>1. rank(x) + 1 \in 1..n /\ rank(x) \in Nat
    BY <1>7
  <2>2. at(rank(x) + 1) \in rows /\ rank(at(rank(x) + 1)) = rank(x)
    BY <1>8, <2>1
  <2>3. at(rank(x) + 1) = x
    <3>1. ~Ahead(at(rank(x) + 1), x) /\ ~Ahead(x, at(rank(x) + 1))
      BY <1>7, <2>1, <2>2
    <3> QED
      BY <1>3, <2>2, <3>1
  <2> QED
    BY <1>10, <2>1, <2>3
<1>13. ASSUME NEW i \in 1..n, NEW j \in 1..n, i < j
       PROVE  Behind(Ordered(rows)[j], Ordered(rows)[i])
  <2>1. /\ at(i) \in rows /\ rank(at(i)) = i - 1
        /\ at(j) \in rows /\ rank(at(j)) = j - 1
    BY <1>8
  <2>2. i \in Nat /\ j \in Nat
    BY <1>6
  <2>3. rank(at(i)) < rank(at(j))
    BY <1>13, <2>1, <2>2
  <2>4. at(i) # at(j) /\ ~Ahead(at(j), at(i))
    BY <1>7, <2>1, <2>3
  <2> QED
    BY <1>3, <1>10, <2>1, <2>4
<1> QED
  BY <1>11, <1>12, <1>13 DEF n

(* How often a client has seen a run. *)
Never(s, r) == \A i \in 1..Len(s) : s[i] # r

Once(s, r) == \E i \in 1..Len(s) : s[i] = r /\ \A j \in 1..Len(s) : s[j] = r => j = i

(* Showing one more page. *)
LEMMA OneMorePage ==
  ASSUME NEW s \in Seq(Runs), NEW t \in Seq(Runs), NEW r
  PROVE  /\ s \o t \in Seq(Runs)
         /\ Never(s, r) /\ Never(t, r) => Never(s \o t, r)
         /\ Once(s, r) /\ Never(t, r) => Once(s \o t, r)
         /\ Never(s, r) /\ Once(t, r) => Once(s \o t, r)
<1> DEFINE u == s \o t
           m == Len(s)
           n == Len(t)
<1>1. /\ u \in Seq(Runs) /\ Len(u) = m + n /\ m \in Nat /\ n \in Nat
      /\ \A i \in 1..(m + n) : u[i] = IF i <= m THEN s[i] ELSE t[i - m]
  BY ConcatProperties, LenProperties
<1> HIDE DEF u, m, n
<1>2. /\ \A i \in 1..m : i \in 1..(m + n) /\ u[i] = s[i]
      /\ \A i \in 1..n : m + i \in 1..(m + n) /\ u[m + i] = t[i]
      /\ \A i \in 1..(m + n) : i \in 1..m \/ (i - m \in 1..n /\ i = m + (i - m) /\ u[i] = t[i - m])
  <2>1. \A i \in 1..m : i \in 1..(m + n) /\ i <= m
    BY <1>1
  <2>2. \A i \in 1..n : m + i \in 1..(m + n) /\ ~(m + i <= m) /\ (m + i) - m = i
    BY <1>1
  <2>3. \A i \in 1..(m + n) : i \in 1..m \/ (i - m \in 1..n /\ i = m + (i - m) /\ ~(i <= m))
    BY <1>1
  <2> QED
    BY <1>1, <2>1, <2>2, <2>3
<1>3. ASSUME Never(s, r), Never(t, r) PROVE Never(u, r)
  BY <1>1, <1>2, <1>3 DEF Never, m, n
<1>4. ASSUME Once(s, r), Never(t, r) PROVE Once(u, r)
  <2>1. PICK i \in 1..m : s[i] = r /\ \A j \in 1..m : s[j] = r => j = i
    BY <1>4 DEF Once, m
  <2>2. \A j \in 1..n : t[j] # r
    BY <1>4 DEF Never, n
  <2>3. i \in 1..(m + n) /\ u[i] = r
    BY <1>2, <2>1
  <2>4. \A j \in 1..(m + n) : u[j] = r => j = i
    BY <1>2, <2>1, <2>2
  <2> QED
    BY <1>1, <2>3, <2>4 DEF Once
<1>5. ASSUME Never(s, r), Once(t, r) PROVE Once(u, r)
  <2>1. PICK i \in 1..n : t[i] = r /\ \A j \in 1..n : t[j] = r => j = i
    BY <1>5 DEF Once, n
  <2>2. \A j \in 1..m : s[j] # r
    BY <1>5 DEF Never, m
  <2>3. m + i \in 1..(m + n) /\ u[m + i] = r
    BY <1>2, <2>1
  <2>4. \A j \in 1..(m + n) : u[j] = r => j = m + i
    BY <1>2, <2>1, <2>2
  <2> QED
    BY <1>1, <2>3, <2>4 DEF Once
<1> QED
  BY <1>1, <1>3, <1>4, <1>5 DEF u

(* The rows behind a cursor are finitely many keys, one of each run. *)
LEMMA RowsAreKeys ==
  ASSUME RowsInv, NEW cursor
  PROVE  /\ Rows(db, cursor) \in SUBSET Key
         /\ IsFiniteSet(Rows(db, cursor))
         /\ \A x \in Rows(db, cursor) : x = KeyAt(db, x.run) /\ Present(db, x.run)
         /\ \A r \in Runs : KeyAt(db, r) \in Rows(db, cursor) <=>
              Present(db, r) /\ (cursor # Null => Behind(KeyAt(db, r), cursor))
<1> DEFINE P == {r \in Runs : Present(db, r)}
           rows == Rows(db, cursor)
           run == [x \in rows |-> x.run]
<1>1. \A r \in Runs : KeyAt(db, r).run = r
  BY DEF KeyAt
<1>2. \A r \in P : KeyAt(db, r) \in Key
  BY DEF KeyAt, Key, RowsInv, SortAt, Instant
<1>3. \A x \in rows : \E r \in P : x = KeyAt(db, r)
  BY DEF Rows
<1>4. \A x \in rows : x = KeyAt(db, x.run) /\ x.run \in P
  BY <1>1, <1>3
<1>5. \A r \in Runs : KeyAt(db, r) \in rows <=>
        Present(db, r) /\ (cursor # Null => Behind(KeyAt(db, r), cursor))
  <2>1. ASSUME NEW r \in Runs, KeyAt(db, r) \in rows
        PROVE  Present(db, r) /\ (cursor # Null => Behind(KeyAt(db, r), cursor))
    <3>1. r \in P
      BY <1>1, <1>4, <2>1
    <3> QED
      BY <2>1, <3>1 DEF Rows
  <2>2. ASSUME NEW r \in Runs, Present(db, r), cursor # Null => Behind(KeyAt(db, r), cursor)
        PROVE  KeyAt(db, r) \in rows
    BY <2>2 DEF Rows
  <2> QED
    BY <2>1, <2>2
<1>6. IsFiniteSet(rows)
  <2>1. run \in Injection(rows, P)
    <3>1. run \in [rows -> P] /\ \A x, y \in rows : run[x] = run[y] => x = y
      <4> HIDE DEF rows, P
      <4> QED
        BY <1>4
    <3> HIDE DEF rows, P, run
    <3> QED
      BY <3>1 DEF Injection, IsInjective
  <2>2. IsFiniteSet(P)
    BY DEF RowsInv
  <2> HIDE DEF rows, P, run
  <2> QED
    BY <2>1, <2>2, FS_Injection
<1> QED
  BY <1>2, <1>3, <1>4, <1>5, <1>6

(* A page has each row from its cursor to the next one once. *)
LEMMA PageIsComplete ==
  ASSUME RowsInv, NEW cursor \in Key \cup {Null}
  PROVE  LET page == ListRuns(db, cursor, PageSize)
         IN /\ page.runs \in Seq(Runs)
            /\ page.next \in Key \cup {Null}
            /\ \A r \in Runs : Present(db, r) /\ (cursor = Null \/ Behind(KeyAt(db, r), cursor)) =>
                 IF page.next # Null /\ Behind(KeyAt(db, r), page.next)
                 THEN Never(page.runs, r) ELSE Once(page.runs, r)
            /\ \A r \in Runs : Present(db, r) /\ cursor # Null /\ ~Behind(KeyAt(db, r), cursor) =>
                 /\ Never(page.runs, r)
                 /\ page.next # Null => ~Behind(KeyAt(db, r), page.next)
<1> USE RunTableAssumption, IndexAssumption
<1> DEFINE S == Rows(db, cursor)
           rows == Ordered(S)
           n == Len(rows)
           more == n > PageSize
           m == IF more THEN PageSize ELSE n
           page == IF more THEN SubSeq(rows, 1, PageSize) ELSE rows
           runs == [i \in DOMAIN page |-> page[i].run]
           next == IF more THEN page[PageSize] ELSE Null
<1>1. /\ S \in SUBSET Key
      /\ \A x \in S : x = KeyAt(db, x.run) /\ Present(db, x.run)
      /\ \A r \in Runs : KeyAt(db, r) \in S <=>
           Present(db, r) /\ (cursor # Null => Behind(KeyAt(db, r), cursor))
      /\ IsFiniteSet(S)
  BY RowsAreKeys
<1>2. /\ rows \in Seq(S) /\ n \in Nat
      /\ \A x \in S : \E i \in 1..n : rows[i] = x
      /\ \A i, j \in 1..n : i < j => Behind(rows[j], rows[i])
  <2> HIDE DEF S
  <2> QED
    BY <1>1, OrderedRows
<1>3. ListRuns(db, cursor, PageSize) = [runs |-> runs, next |-> next]
  BY DEF ListRuns
<1> HIDE DEF S
<1>4. /\ page \in Seq(S) /\ Len(page) = m /\ m \in Nat /\ m <= n
      /\ \A i \in 1..m : page[i] = rows[i]
  <2>1. CASE more
    <3>1. PageSize \in Nat /\ 1 \in Int /\ PageSize \in Int /\ 1 <= PageSize /\ PageSize <= n
      BY <1>2, <2>1
    <3>2. \A i \in 1..PageSize : rows[i] \in S
      BY <1>2, <3>1
    <3> HIDE DEF rows, n
    <3>3. /\ SubSeq(rows, 1, PageSize) \in Seq(S)
          /\ Len(SubSeq(rows, 1, PageSize)) = PageSize - 1 + 1
          /\ \A i \in 1..(PageSize - 1 + 1) : SubSeq(rows, 1, PageSize)[i] = rows[1 + i - 1]
      BY <3>1, <3>2, SubSeqProperties
    <3>4. PageSize - 1 + 1 = PageSize /\ \A i \in 1..PageSize : 1 + i - 1 = i
      BY <3>1
    <3> QED
      BY <2>1, <3>1, <3>3, <3>4
  <2>2. CASE ~more
    <3> HIDE DEF rows
    <3> QED
      BY <1>2, <2>2
  <2> QED
    BY <2>1, <2>2
<1> HIDE DEF page, rows
<1>5. runs \in Seq(Runs) /\ Len(runs) = m /\ \A i \in 1..m : runs[i] = page[i].run
  <2>1. DOMAIN page = 1..m /\ \A i \in 1..m : page[i] \in S
    BY <1>4
  <2>2. \A x \in S : x.run \in Runs
    BY <1>1 DEF Key
  <2>3. runs \in [1..m -> Runs]
    BY <2>1, <2>2
  <2>4. \A i \in 1..m : runs[i] = page[i].run
    BY <2>1
  <2> HIDE DEF runs, m
  <2> QED
    BY <1>4, <2>3, <2>4
<1>6. /\ next \in Key \cup {Null}
      /\ next # Null => next \in S /\ m \in 1..n /\ next = rows[m]
      /\ next = Null => m = n
  <2>1. CASE more
    <3>1. m = PageSize /\ m \in 1..n
      BY <1>2, <2>1
    <3>2. next = page[m] /\ page[m] = rows[m] /\ rows[m] \in S
      BY <1>2, <1>4, <2>1, <3>1
    <3>3. \A x \in S : x # Null /\ x \in Key
      <4>1. \A x \in Key : x \in [at: Nat, run: Nat]
        BY DEF Key
      <4> QED
        BY <1>1, <4>1
    <3> QED
      BY <3>1, <3>2, <3>3
  <2>2. CASE ~more
    BY <2>2
  <2> QED
    BY <2>1, <2>2
<1>7. \A x, y, z \in Key : /\ ~Behind(x, x)
                           /\ Behind(x, y) /\ Behind(y, z) => Behind(x, z)
  <2>1. \A x \in Key : x.at \in Nat /\ x.run \in Nat
    BY DEF Key
  <2> QED
    BY <2>1 DEF Behind
<1>8. \A r \in Runs : KeyAt(db, r).run = r
  BY DEF KeyAt
<1>9. \A i \in 1..m : i \in 1..n /\ rows[i] \in S /\ rows[i] \in Key /\ runs[i] = rows[i].run
  <2>1. \A i \in 1..m : i \in 1..n
    BY <1>2, <1>4
  <2>2. \A i \in 1..n : rows[i] \in S
    BY <1>2
  <2> HIDE DEF m, n, runs
  <2> QED
    BY <1>1, <1>4, <1>5, <2>1, <2>2
<1> HIDE DEF runs, next, m, n, more
<1>10. ASSUME NEW r \in Runs, KeyAt(db, r) \notin S
       PROVE  Never(runs, r)
  <2>1. \A i \in 1..m : rows[i] = KeyAt(db, runs[i])
    BY <1>1, <1>9
  <2>2. \A i \in 1..m : runs[i] # r
    BY <1>9, <1>10, <2>1
  <2> QED
    BY <1>5, <2>2 DEF Never
<1>11. ASSUME NEW r \in Runs, NEW i \in 1..n, rows[i] = KeyAt(db, r)
       PROVE  \A j \in 1..m : runs[j] = r => j = i
  <2> SUFFICES ASSUME NEW j \in 1..m, runs[j] = r, j # i
               PROVE  FALSE
    OBVIOUS
  <2>1. rows[j] = KeyAt(db, r) /\ j \in 1..n /\ rows[j] \in Key
    BY <1>1, <1>9
  <2>2. j < i \/ i < j
    BY <1>2, <2>1
  <2>3. Behind(rows[j], rows[j])
    BY <1>2, <1>11, <2>1, <2>2
  <2> QED
    BY <1>7, <2>1, <2>3
<1>12. ASSUME NEW r \in Runs, KeyAt(db, r) \in S
       PROVE  IF next # Null /\ Behind(KeyAt(db, r), next) THEN Never(runs, r) ELSE Once(runs, r)
  <2>1. PICK i \in 1..n : rows[i] = KeyAt(db, r)
    BY <1>2, <1>12
  <2>2. \A j \in 1..m : runs[j] = r => j = i
    BY <1>11, <2>1
  <2>3. i \in Nat /\ m \in Nat /\ KeyAt(db, r) \in Key
    BY <1>1, <1>2, <1>4, <1>12
  <2>4. CASE i \in 1..m
    <3>1. Once(runs, r)
      <4>1. runs[i] = r
        BY <1>8, <1>9, <2>1, <2>4
      <4> QED
        BY <1>5, <2>2, <2>4, <4>1 DEF Once
    <3>2. next # Null => ~Behind(KeyAt(db, r), next)
      <4> SUFFICES ASSUME next # Null, Behind(KeyAt(db, r), next)
                   PROVE  FALSE
        OBVIOUS
      <4>1. next = rows[m] /\ m \in 1..n /\ next \in Key
        BY <1>6
      <4>2. i < m \/ i = m
        BY <2>3, <2>4
      <4>3. CASE i = m
        BY <1>7, <2>1, <4>1, <4>3
      <4>4. CASE i < m
        <5>1. Behind(next, KeyAt(db, r))
          BY <1>2, <2>1, <4>1, <4>4
        <5> QED
          BY <1>7, <2>3, <4>1, <5>1
      <4> QED
        BY <4>2, <4>3, <4>4
    <3> QED
      BY <3>1, <3>2
  <2>5. CASE i \notin 1..m
    <3>1. m < i /\ m # n
      BY <1>2, <2>3, <2>5
    <3>2. next # Null /\ next = rows[m] /\ m \in 1..n
      BY <1>6, <3>1
    <3>3. Behind(KeyAt(db, r), next)
      BY <1>2, <2>1, <3>1, <3>2
    <3>4. Never(runs, r)
      BY <1>5, <2>2, <2>5 DEF Never
    <3> QED
      BY <3>2, <3>3, <3>4
  <2> QED
    BY <2>4, <2>5
<1>13. ASSUME NEW r \in Runs, Present(db, r), cursor # Null, ~Behind(KeyAt(db, r), cursor)
       PROVE  /\ Never(runs, r)
              /\ next # Null => ~Behind(KeyAt(db, r), next)
  <2>1. KeyAt(db, r) \notin S
    BY <1>1, <1>13
  <2>2. next # Null => next \in S /\ next \in Key /\ Behind(next, cursor)
    <3>1. \A x \in S : x \in Key /\ x.run \in Runs /\ Behind(x, cursor)
      <4>1. \A x \in S : x \in Key /\ x.run \in Runs /\ x = KeyAt(db, x.run)
        BY <1>1 DEF Key
      <4> QED
        BY <1>1, <1>13, <4>1
    <3> QED
      BY <1>6, <3>1
  <2>3. KeyAt(db, r) \in Key /\ cursor \in Key
    <3>1. KeyAt(db, r) \in Key
      BY <1>13 DEF KeyAt, Key, RowsInv, SortAt, Instant
    <3> QED
      BY <1>13, <3>1
  <2> QED
    BY <1>7, <1>10, <1>13, <2>1, <2>2, <2>3
<1>14. \A r \in Runs : Present(db, r) /\ (cursor = Null \/ Behind(KeyAt(db, r), cursor)) =>
         KeyAt(db, r) \in S
  BY <1>1
<1> QED
  BY <1>3, <1>5, <1>6, <1>12, <1>13, <1>14

(* A client has seen each stable run down to its cursor once, and none     *)
(* behind it.                                                              *)
Seen(d, l, r) ==
  IF l.cursor # Null /\ Behind(KeyAt(d, r), l.cursor) THEN Never(l.shown, r) ELSE Once(l.shown, r)

ListTypes ==
  /\ list = [pc |-> list.pc, cursor |-> list.cursor, shown |-> list.shown, stable |-> list.stable]
  /\ list.pc = "open" \/ list = NoList
  /\ list.cursor \in Key \cup {Null}
  /\ list.shown \in Seq(Runs)
  /\ list.stable \subseteq {r \in Runs : Present(db, r)}

ListInv ==
  /\ RowsInv
  /\ ListTypes
  /\ list.pc = "open" => \A r \in list.stable : Seen(db, list, r)

(* A page more. *)
LEMMA PageKeepsSeen ==
  ASSUME ListInv, ListPage
  PROVE  ListInv'
<1> DEFINE from == IF list.pc = "idle" THEN [NoList EXCEPT !.stable = {r \in Runs : Present(db, r)}]
                   ELSE list
           page == ListRuns(db, from.cursor, PageSize)
<1>1. /\ list' = [from EXCEPT !.pc = "open", !.cursor = page.next, !.shown = from.shown \o page.runs]
      /\ list.pc = "idle" \/ (list.pc = "open" /\ list.cursor # Null)
      /\ db' = db
  BY DEF ListPage
<1>2. /\ from = [pc |-> from.pc, cursor |-> from.cursor, shown |-> from.shown, stable |-> from.stable]
      /\ from.cursor \in Key \cup {Null}
      /\ from.shown \in Seq(Runs)
      /\ from.stable \subseteq {r \in Runs : Present(db, r)}
      /\ \A r \in from.stable :
           IF from.cursor = Null \/ Behind(KeyAt(db, r), from.cursor) THEN Never(from.shown, r)
           ELSE Once(from.shown, r)
  <2>1. CASE list.pc = "idle"
    <3>1. from = [pc |-> "idle", cursor |-> Null, shown |-> <<>>,
                  stable |-> {r \in Runs : Present(db, r)}]
      BY <2>1 DEF NoList
    <3> HIDE DEF from
    <3>2. \A r \in Runs : Never(<<>>, r)
      BY DEF Never
    <3>3. from.cursor = Null /\ from.shown = <<>> /\ from.stable = {r \in Runs : Present(db, r)}
      BY <3>1
    <3>4. \A r \in from.stable : r \in Runs
      BY <3>3
    <3> QED
      BY <3>1, <3>2, <3>3, <3>4
  <2>2. CASE list.pc = "open" /\ list.cursor # Null
    BY <2>2 DEF ListInv, ListTypes, Seen
  <2> QED
    BY <1>1, <2>1, <2>2
<1> HIDE DEF from
<1>3. /\ page.runs \in Seq(Runs)
      /\ page.next \in Key \cup {Null}
      /\ \A r \in Runs : Present(db, r) /\ (from.cursor = Null \/ Behind(KeyAt(db, r), from.cursor)) =>
           IF page.next # Null /\ Behind(KeyAt(db, r), page.next)
           THEN Never(page.runs, r) ELSE Once(page.runs, r)
      /\ \A r \in Runs : Present(db, r) /\ from.cursor # Null /\ ~Behind(KeyAt(db, r), from.cursor) =>
           /\ Never(page.runs, r)
           /\ page.next # Null => ~Behind(KeyAt(db, r), page.next)
  <2>1. RowsInv
    BY DEF ListInv
  <2> QED
    BY <1>2, <2>1, PageIsComplete
<1> HIDE DEF page
<1>4. /\ list' = [pc |-> "open", cursor |-> page.next, shown |-> from.shown \o page.runs,
                  stable |-> from.stable]
      /\ from.shown \o page.runs \in Seq(Runs)
  <2> DEFINE shown == from.shown \o page.runs
  <2>1. list' = [from EXCEPT !.pc = "open", !.cursor = page.next, !.shown = shown]
    BY <1>1
  <2>2. shown \in Seq(Runs)
    BY <1>2, <1>3
  <2>3. from = [pc |-> from.pc, cursor |-> from.cursor, shown |-> from.shown, stable |-> from.stable]
    BY <1>2
  <2> HIDE DEF shown
  <2>4. list' = [pc |-> "open", cursor |-> page.next, shown |-> shown, stable |-> from.stable]
    BY ONLY <2>1, <2>3
  <2> QED
    BY <2>2, <2>4 DEF shown
<1>5. ASSUME NEW r \in from.stable
      PROVE  IF page.next # Null /\ Behind(KeyAt(db, r), page.next)
             THEN Never(from.shown \o page.runs, r) ELSE Once(from.shown \o page.runs, r)
  <2>1. r \in Runs /\ Present(db, r)
    BY <1>2
  <2>2. /\ Never(from.shown, r) /\ Never(page.runs, r) => Never(from.shown \o page.runs, r)
        /\ Once(from.shown, r) /\ Never(page.runs, r) => Once(from.shown \o page.runs, r)
        /\ Never(from.shown, r) /\ Once(page.runs, r) => Once(from.shown \o page.runs, r)
    BY <1>2, <1>3, OneMorePage
  <2> QED
    BY <1>2, <1>3, <2>1, <2>2
<1>6. RowsInv' /\ ListTypes'
  <2>1. RowsInv'
    BY <1>1 DEF ListInv, RowsInv, Present
  <2>2. ListTypes'
    BY <1>1, <1>2, <1>3, <1>4 DEF ListTypes, Present
  <2> QED
    BY <2>1, <2>2
<1>7. \A r \in list'.stable : Seen(db', list', r)
  BY <1>1, <1>4, <1>5 DEF Seen
<1> QED
  BY <1>6, <1>7 DEF ListInv

(* A step of others moves no run that stays stable. *)
LEMMA OthersKeepSeen ==
  ASSUME ListInv, TableStep, ListWatches
  PROVE  ListInv'
<1>1. RowsInv'
  BY OthersKeepEnded DEF ListInv
<1>2. CASE list = NoList
  <2>1. list' = list
    BY <1>2 DEF ListWatches, NoList
  <2>2. list'.pc # "open" /\ ListTypes'
    BY <1>2, <2>1 DEF ListInv, ListTypes, NoList
  <2> QED
    BY <1>1, <2>2 DEF ListInv
<1>3. CASE list.pc = "open"
  <2>1. list' = [pc |-> "open", cursor |-> list.cursor, shown |-> list.shown,
                 stable |-> list.stable \ (Removed \cup Moved)]
    BY <1>3 DEF ListWatches, ListInv, ListTypes
  <2>2. \A r \in list'.stable : /\ r \in Runs /\ r \in list.stable
                                /\ Present(db', r)
                                /\ SortAt(db', r) = SortAt(db, r)
    BY <2>1 DEF ListInv, ListTypes, Removed, Moved
  <2>3. ListTypes'
    BY <2>1, <2>2 DEF ListInv, ListTypes
  <2>4. \A r \in list'.stable : Seen(db', list', r)
    <3>1. \A r \in list'.stable : KeyAt(db', r) = KeyAt(db, r)
      BY <2>2 DEF KeyAt
    <3>2. list'.cursor = list.cursor /\ list'.shown = list.shown
      BY <2>1
    <3> QED
      BY <1>3, <2>2, <3>1, <3>2 DEF ListInv, Seen
  <2> QED
    BY <1>1, <2>3, <2>4 DEF ListInv
<1> QED
  BY <1>2, <1>3 DEF ListInv, ListTypes

(* The client leaves the index. *)
LEMMA ClosingKeepsSeen ==
  ASSUME ListInv, ListCloses
  PROVE  ListInv'
<1>1. list' = NoList /\ db' = db
  BY DEF ListCloses
<1> QED
  BY <1>1 DEF ListInv, ListTypes, NoList, RowsInv, Present

(* The invariant of a client holds at the start and in each step. *)
LEMMA IndexInitHolds == TableInit /\ IndexInit => ListInv
BY TableInitHolds DEF IndexInit, ListInv, ListTypes, NoList

LEMMA IndexNextHolds ==
  ListInv /\ [(TableStep /\ ListWatches) \/ IndexStep]_<<db, list>> => ListInv'
<1> SUFFICES ASSUME ListInv, [(TableStep /\ ListWatches) \/ IndexStep]_<<db, list>>
             PROVE  ListInv'
  OBVIOUS
<1>1. CASE UNCHANGED <<db, list>>
  BY <1>1 DEF ListInv, RowsInv, Present, ListTypes, Seen, KeyAt, SortAt
<1> QED
  BY <1>1, PageKeepsSeen, OthersKeepSeen, ClosingKeepsSeen DEF IndexStep

(* Whoever reads the index page by page sees every run that was there all  *)
(* the time and kept its place exactly once (Store.ListRuns), whatever     *)
(* arrives or is deleted between two pages.                                *)
THEOREM StableRunsStayListed == IndexSpec => []StableRunsAreListedOnce
<1>1. ASSUME ListInv PROVE StableRunsAreListedOnce
  <2> SUFFICES ASSUME Finished, NEW r \in list.stable
               PROVE  Cardinality({i \in DOMAIN list.shown : list.shown[i] = r}) = 1
    BY DEF StableRunsAreListedOnce
  <2>1. Once(list.shown, r) /\ list.shown \in Seq(Runs)
    BY <1>1 DEF ListInv, ListTypes, Seen, Finished
  <2>2. PICK i \in 1..Len(list.shown) :
          list.shown[i] = r /\ \A j \in 1..Len(list.shown) : list.shown[j] = r => j = i
    BY <2>1 DEF Once
  <2>3. {j \in DOMAIN list.shown : list.shown[j] = r} = {i}
    BY <2>1, <2>2
  <2> QED
    BY <2>3, FS_Singleton
<1>2. ListInv => StableRunsAreListedOnce
  BY <1>1
<1> QED
  BY <1>2, IndexInitHolds, IndexNextHolds, PTL DEF IndexSpec
-----------------------------------------------------------------------------
(* Export.  The table, as far as a document reads it: the events of a run  *)
(* are numbered from 1 to its count, a run without a row has none, and     *)
(* every step has an event.                                                *)

NumberedRun(d, r) ==
  LET es == Store!EventsOf(d, r) IN
    /\ d.run[r].count \in Nat /\ d.run[r].next = d.run[r].count + 1
    /\ \A x \in es : x.seq \in 1..d.run[r].count
    /\ \A n \in 1..d.run[r].count : \E x \in es : x.seq = n
    /\ \A x, y \in es : x.seq = y.seq => x = y
    /\ Present(d, r) \/ d.run[r] = Store!AbsentRun
    /\ DOMAIN d.step[r] = StepIds
    /\ \A s \in StepIds : d.step[r][s].status # "absent" => \E x \in es : x.ev.step = s

Numbered(d) ==
  /\ DOMAIN d.run = Runs /\ DOMAIN d.step = Runs
  /\ \A x \in d.events : x.ev \in Events
  /\ \A r \in Runs : NumberedRun(d, r)

(* An event more of a run takes the next number. *)
LEMMA IngestNumbers ==
  ASSUME Numbered(db), NEW e \in Events, Ingest(e)
  PROVE  /\ Numbered(db')
         /\ \A r \in Runs : /\ Store!EventsOf(db, r) \subseteq Store!EventsOf(db', r)
                            /\ db.run[r].count <= db'.run[r].count
<1> DEFINE u == e.run
           row == Store!EnsureRun(db.run[u], e)
           x == [ev |-> e, seq |-> row.next]
<1>1. u \in Runs /\ e.status # "absent"
  BY RunTableAssumption
<1>2. /\ db'.events = db.events \cup {x}
      /\ db'.run = [db.run EXCEPT ![u] = Store!UpdateRun(row, e)]
      /\ db'.step = IF e.step = Null THEN db.step
                    ELSE [db.step EXCEPT ![u][e.step] = Store!UpdateStep(@, e)]
  BY DEF Ingest, Store!InsertEvent
<1>3. /\ DOMAIN db.run = Runs /\ DOMAIN db.step = Runs /\ \A y \in db.events : y.ev \in Events
      /\ \A r \in Runs : NumberedRun(db, r)
  BY DEF Numbered
<1>4. /\ db.run[u].count \in Nat /\ db.run[u].next = db.run[u].count + 1
      /\ \A y \in Store!EventsOf(db, u) : y.seq \in 1..db.run[u].count
      /\ \A n \in 1..db.run[u].count : \E y \in Store!EventsOf(db, u) : y.seq = n
      /\ \A y, z \in Store!EventsOf(db, u) : y.seq = z.seq => y = z
      /\ Present(db, u) \/ db.run[u] = Store!AbsentRun
      /\ DOMAIN db.step[u] = StepIds
      /\ \A s \in StepIds : db.step[u][s].status # "absent" =>
                              \E y \in Store!EventsOf(db, u) : y.ev.step = s
  BY <1>1, <1>3 DEF NumberedRun
<1>5. row.count = db.run[u].count /\ row.next = db.run[u].count + 1 /\ row.status # "absent"
  BY <1>4 DEF Store!EnsureRun, Store!AbsentRun, Present
<1>6. x.ev = e /\ x.seq = db.run[u].count + 1
  BY <1>5
<1> HIDE DEF row, x
<1>7. /\ db'.run[u].count = db.run[u].count + 1
      /\ db'.run[u].next = db.run[u].count + 2
      /\ db'.run[u].status # "absent"
  <2>1. db'.run[u] = Store!UpdateRun(row, e)
    BY <1>1, <1>2, <1>3
  <2>2. /\ db'.run[u].count = row.count + 1 /\ db'.run[u].next = row.next + 1
        /\ db'.run[u].status \in {e.status, Store!StatusOf(e.type), row.status}
    BY <2>1 DEF Store!UpdateRun
  <2>3. Store!StatusOf(e.type) # "absent"
    BY DEF Store!StatusOf
  <2> QED
    BY <1>1, <1>4, <1>5, <2>2, <2>3
<1>8. /\ Store!EventsOf(db', u) = Store!EventsOf(db, u) \cup {x}
      /\ \A r \in Runs \ {u} : Store!EventsOf(db', r) = Store!EventsOf(db, r)
  BY <1>2, <1>6 DEF Store!EventsOf
<1>9. /\ DOMAIN db'.run = Runs /\ DOMAIN db'.step = Runs
      /\ \A r \in Runs \ {u} : db'.run[r] = db.run[r] /\ db'.step[r] = db.step[r]
      /\ DOMAIN db'.step[u] = StepIds
      /\ \A s \in StepIds : s # e.step => db'.step[u][s] = db.step[u][s]
  BY <1>1, <1>2, <1>3, <1>4
<1>10. NumberedRun(db', u)
  <2>1. db'.run[u].count \in Nat /\ db'.run[u].next = db'.run[u].count + 1
    BY <1>4, <1>7
  <2>2. \A y \in Store!EventsOf(db', u) : y.seq \in 1..db'.run[u].count
    BY <1>4, <1>6, <1>7, <1>8
  <2>3. \A n \in 1..db'.run[u].count : \E y \in Store!EventsOf(db', u) : y.seq = n
    <3> SUFFICES ASSUME NEW n \in 1..(db.run[u].count + 1)
                 PROVE  \E y \in Store!EventsOf(db, u) \cup {x} : y.seq = n
      BY <1>7, <1>8
    <3>1. n \in 1..db.run[u].count \/ n = db.run[u].count + 1
      BY <1>4
    <3> QED
      BY <1>4, <1>6, <3>1
  <2>4. \A y, z \in Store!EventsOf(db', u) : y.seq = z.seq => y = z
    <3>1. \A y \in Store!EventsOf(db, u) : y.seq # x.seq
      BY <1>4, <1>6
    <3> QED
      BY <1>4, <1>8, <3>1
  <2>5. Present(db', u)
    BY <1>7 DEF Present
  <2>6. \A s \in StepIds : db'.step[u][s].status # "absent" =>
                             \E y \in Store!EventsOf(db', u) : y.ev.step = s
    BY <1>4, <1>6, <1>8, <1>9
  <2> QED
    BY <1>9, <2>1, <2>2, <2>3, <2>4, <2>5, <2>6 DEF NumberedRun
<1>11. ASSUME NEW r \in Runs \ {u} PROVE NumberedRun(db', r)
  <2>1. NumberedRun(db, r)
    BY <1>3
  <2>2. /\ Store!EventsOf(db', r) = Store!EventsOf(db, r)
        /\ db'.run[r] = db.run[r] /\ db'.step[r] = db.step[r]
    BY <1>8, <1>9
  <2> QED
    BY <2>1, <2>2 DEF NumberedRun, Present
<1>12. \A y \in db'.events : y.ev \in Events
  BY <1>2, <1>3, <1>6
<1>13. \A r \in Runs : /\ Store!EventsOf(db, r) \subseteq Store!EventsOf(db', r)
                       /\ db.run[r].count <= db'.run[r].count
  <2>1. \A r \in Runs \ {u} : /\ Store!EventsOf(db, r) \subseteq Store!EventsOf(db', r)
                              /\ db.run[r].count <= db'.run[r].count
    BY <1>3, <1>8, <1>9 DEF NumberedRun
  <2>2. /\ Store!EventsOf(db, u) \subseteq Store!EventsOf(db', u)
        /\ db.run[u].count <= db'.run[u].count
    BY <1>4, <1>7, <1>8
  <2> QED
    BY <2>1, <2>2
<1> QED
  BY <1>9, <1>10, <1>11, <1>12, <1>13 DEF Numbered

(* A run that is deleted leaves nothing behind, and the others alone. *)
LEMMA DeleteNumbers ==
  ASSUME Numbered(db), NEW u \in Runs, Delete(u)
  PROVE  /\ Numbered(db')
         /\ u \in Removed
         /\ \A r \in Runs \ {u} : /\ Store!EventsOf(db', r) = Store!EventsOf(db, r)
                                  /\ db'.run[r] = db.run[r]
<1>1. /\ db'.events = db.events \ Store!EventsOf(db, u)
      /\ db'.run = [db.run EXCEPT ![u] = Store!AbsentRun]
      /\ db'.step = [db.step EXCEPT ![u] = [s \in StepIds |-> Store!AbsentStep]]
      /\ Present(db, u)
  BY DEF Delete, Store!RemoveRun
<1>2. /\ DOMAIN db.run = Runs /\ DOMAIN db.step = Runs /\ \A y \in db.events : y.ev \in Events
      /\ \A r \in Runs : NumberedRun(db, r)
  BY DEF Numbered
<1>3. /\ Store!EventsOf(db', u) = {}
      /\ \A r \in Runs \ {u} : Store!EventsOf(db', r) = Store!EventsOf(db, r)
  BY <1>1 DEF Store!EventsOf
<1>4. /\ DOMAIN db'.run = Runs /\ DOMAIN db'.step = Runs
      /\ \A r \in Runs \ {u} : db'.run[r] = db.run[r] /\ db'.step[r] = db.step[r]
      /\ db'.run[u] = Store!AbsentRun /\ db'.step[u] = [s \in StepIds |-> Store!AbsentStep]
  BY <1>1, <1>2
<1>5. NumberedRun(db', u)
  <2>1. /\ Store!AbsentRun.count = 0 /\ Store!AbsentRun.next = 1
        /\ Store!AbsentStep.status = "absent"
    BY DEF Store!AbsentRun, Store!AbsentStep
  <2> QED
    BY <1>3, <1>4, <2>1 DEF NumberedRun
<1>6. ASSUME NEW r \in Runs \ {u} PROVE NumberedRun(db', r)
  <2>1. NumberedRun(db, r)
    BY <1>2
  <2>2. /\ Store!EventsOf(db', r) = Store!EventsOf(db, r)
        /\ db'.run[r] = db.run[r] /\ db'.step[r] = db.step[r]
    BY <1>3, <1>4
  <2> QED
    BY <2>1, <2>2 DEF NumberedRun, Present
<1>7. u \in Removed
  BY <1>1, <1>4 DEF Removed, Present, Store!AbsentRun
<1>8. \A y \in db'.events : y.ev \in Events
  BY <1>1, <1>2
<1> QED
  BY <1>3, <1>4, <1>5, <1>6, <1>7, <1>8 DEF Numbered

(* The steps of others. *)
LEMMA OthersNumber ==
  ASSUME Numbered(db), TableStep
  PROVE  /\ Numbered(db')
         /\ \A r \in Runs \ Removed : /\ Store!EventsOf(db, r) \subseteq Store!EventsOf(db', r)
                                      /\ db.run[r].count <= db'.run[r].count
<1>1. ASSUME NEW e \in Events, Ingest(e)
      PROVE  /\ Numbered(db')
             /\ \A r \in Runs \ Removed : /\ Store!EventsOf(db, r) \subseteq Store!EventsOf(db', r)
                                          /\ db.run[r].count <= db'.run[r].count
  BY <1>1, IngestNumbers
<1>2. ASSUME NEW u \in Runs, Delete(u)
      PROVE  /\ Numbered(db')
             /\ \A r \in Runs \ Removed : /\ Store!EventsOf(db, r) \subseteq Store!EventsOf(db', r)
                                          /\ db.run[r].count <= db'.run[r].count
  <2>1. \A r \in Runs : db.run[r].count \in Nat
    BY DEF Numbered, NumberedRun
  <2> QED
    BY <1>2, <2>1, DeleteNumbers
<1> QED
  BY <1>1, <1>2 DEF TableStep

LEMMA EmptyTableIsNumbered == TableInit => Numbered(db)
<1> SUFFICES ASSUME TableInit PROVE Numbered(db)
  OBVIOUS
<1>1. /\ db.events = {} /\ db.run = [r \in Runs |-> Store!AbsentRun]
      /\ db.step = [r \in Runs |-> [s \in StepIds |-> Store!AbsentStep]]
  BY DEF TableInit, Store!EmptyDb
<1>2. \A r \in Runs : Store!EventsOf(db, r) = {}
  BY <1>1 DEF Store!EventsOf
<1>3. ASSUME NEW r \in Runs PROVE NumberedRun(db, r)
  <2>1. /\ Store!AbsentRun.count = 0 /\ Store!AbsentRun.next = 1
        /\ Store!AbsentStep.status = "absent"
    BY DEF Store!AbsentRun, Store!AbsentStep
  <2> QED
    BY <1>1, <1>2, <2>1 DEF NumberedRun
<1> QED
  BY <1>1, <1>3 DEF Numbered
-----------------------------------------------------------------------------
(* A range read of events that were stored in the order of their times is  *)
(* in the order of their numbers.                                          *)

(* Events with the numbers after a up to b, one for each: as many as there *)
(* are numbers.                                                            *)
Spans(S, a, b) ==
  /\ \A x \in S : x.seq \in (a + 1)..b
  /\ \A n \in (a + 1)..b : \E x \in S : x.seq = n
  /\ \A x, y \in S : x.seq = y.seq => x = y

LEMMA NumbersCount ==
  ASSUME NEW S, NEW a \in Nat, NEW b \in Nat, a <= b, Spans(S, a, b)
  PROVE  IsFiniteSet(S) /\ Cardinality(S) = b - a
<1> DEFINE T == (a + 1)..b
           f == [x \in S |-> x.seq]
<1>1. IsFiniteSet(T) /\ Cardinality(T) = b - a
  <2>1. a + 1 \in Int /\ b \in Int
    OBVIOUS
  <2>2. IsFiniteSet(T) /\ Cardinality(T) = IF a + 1 > b THEN 0 ELSE b - (a + 1) + 1
    BY <2>1, FS_Interval
  <2> QED
    BY <2>2
<1>2. f \in [S -> T] /\ (\A x, y \in S : f[x] = f[y] => x = y) /\ \A n \in T : \E x \in S : f[x] = n
  BY DEF Spans
<1> HIDE DEF T, f
<1>3. f \in Injection(S, T) /\ f \in Surjection(S, T)
  BY <1>2 DEF Injection, IsInjective, Surjection
<1>4. IsFiniteSet(S) /\ (Cardinality(S) = Cardinality(T) <=> f \in Surjection(S, T))
  BY <1>1, <1>3, FS_Injection
<1> QED
  BY <1>1, <1>3, <1>4

LEMMA RangeIsNumbered ==
  ASSUME NEW d, Numbered(d), NEW r \in Runs, InTimelineOrder(d, r),
         NEW after \in 0..d.run[r].count
  PROVE  /\ EventRows(d, r, after) \in Seq(Store!EventsOf(d, r))
         /\ Len(EventRows(d, r, after)) = d.run[r].count - after
         /\ \A i \in 1..(d.run[r].count - after) : EventRows(d, r, after)[i].seq = after + i
<1> DEFINE es == Store!EventsOf(d, r)
           c == d.run[r].count
           rows == {s \in es : s.seq > after}
           ComesFirst(s, t) == Order!Precedes(s.ev, s.seq, t.ev, t.seq)
           Sooners(s) == {t \in rows : ComesFirst(t, s)}
           q == [i \in 1..Cardinality(rows) |-> CHOOSE s \in rows : Cardinality(Sooners(s)) = i - 1]
<1>1. /\ c \in Nat /\ (\A x \in es : x.seq \in 1..c) /\ (\A n \in 1..c : \E x \in es : x.seq = n)
      /\ \A x, y \in es : x.seq = y.seq => x = y
  BY DEF Numbered, NumberedRun
<1>0. \A x \in es : x.ev \in Events
  BY DEF Numbered, Store!EventsOf
<1>2. \A x, y \in es : x.seq < y.seq => ~Order!Sooner(y.ev, x.ev)
  BY DEF InTimelineOrder
<1>3. EventRows(d, r, after) = q
  BY DEF EventRows
<1>4. after \in Nat /\ after <= c
  BY <1>1
<1> HIDE DEF es, c
<1>5. \A s, t \in rows : ComesFirst(s, t) <=> s.seq < t.seq
  <2> SUFFICES ASSUME NEW s \in rows, NEW t \in rows PROVE ComesFirst(s, t) <=> s.seq < t.seq
    OBVIOUS
  <2>1. s.seq \in Nat /\ t.seq \in Nat
    BY <1>1
  <2>2. /\ s.seq < t.seq => ~Order!Sooner(t.ev, s.ev)
        /\ t.seq < s.seq => ~Order!Sooner(s.ev, t.ev)
    BY <1>2
  <2>3. s.seq = t.seq => ~Order!Sooner(s.ev, t.ev)
    <3>1. s.seq = t.seq => s.ev = t.ev
      BY <1>1
    <3>2. s.ev \in Events
      BY <1>0
    <3>3. ~Order!Sooner(s.ev, s.ev)
      BY <3>2, RunTableAssumption DEF Order!Sooner
    <3> QED
      BY <3>1, <3>3
  <2> QED
    BY <2>1, <2>2, <2>3 DEF Order!Precedes
<1>6. \A s \in rows : s.seq \in (after + 1)..c
  BY <1>1, <1>4
<1>7. \A n \in (after + 1)..c : \E s \in rows : s.seq = n
  BY <1>1, <1>4
<1>8. \A s, t \in rows : s.seq = t.seq => s = t
  BY <1>1
<1>9. rows \subseteq es
  OBVIOUS
<1>10. \A s \in rows : Sooners(s) = {t \in rows : t.seq < s.seq}
  BY <1>5
<1> HIDE DEF rows, Sooners
<1>11. Cardinality(rows) = c - after
  <2>1. Spans(rows, after, c)
    BY <1>6, <1>7, <1>8 DEF Spans
  <2> QED
    BY <1>1, <1>4, <2>1, NumbersCount
<1>12. ASSUME NEW s \in rows PROVE Cardinality(Sooners(s)) = s.seq - 1 - after
  <2> DEFINE S == {t \in rows : t.seq < s.seq}
             b == s.seq - 1
  <2>1. b \in Nat /\ after <= b /\ b <= c /\ s.seq = b + 1
    BY <1>1, <1>4, <1>6
  <2> HIDE DEF b
  <2>2. \A t \in S : t.seq \in (after + 1)..b
    BY <1>4, <1>6, <2>1
  <2>3. \A n \in (after + 1)..b : \E t \in S : t.seq = n
    <3> SUFFICES ASSUME NEW n \in (after + 1)..b PROVE \E t \in S : t.seq = n
      OBVIOUS
    <3>1. n \in (after + 1)..c /\ n < s.seq
      BY <1>1, <1>4, <2>1
    <3> QED
      BY <1>7, <3>1
  <2>4. \A t, u \in S : t.seq = u.seq => t = u
    BY <1>8
  <2> HIDE DEF S
  <2>5. Cardinality(S) = b - after
    <3>1. Spans(S, after, b)
      BY <2>2, <2>3, <2>4 DEF Spans
    <3> QED
      BY <1>4, <2>1, <3>1, NumbersCount
  <2>6. Sooners(s) = S
    BY <1>10 DEF S
  <2> QED
    BY <2>5, <2>6 DEF b
<1>13. ASSUME NEW i \in 1..(c - after)
       PROVE  q[i] \in rows /\ q[i].seq = after + i
  <2>1. i \in Nat /\ after + i \in (after + 1)..c
    BY <1>1, <1>4
  <2>2. PICK s \in rows : s.seq = after + i
    BY <1>7, <2>1
  <2>3. Cardinality(Sooners(s)) = i - 1
    BY <1>4, <1>12, <2>1, <2>2
  <2> DEFINE x == CHOOSE y \in rows : Cardinality(Sooners(y)) = i - 1
  <2>4. q[i] = x
    BY <1>11
  <2>5. x \in rows /\ Cardinality(Sooners(x)) = i - 1
    BY <2>3
  <2> HIDE DEF x, q
  <2>6. x.seq - 1 - after = i - 1 /\ x.seq \in Nat
    BY <1>1, <1>4, <1>6, <1>12, <2>5
  <2> QED
    BY <1>4, <2>1, <2>4, <2>5, <2>6
<1>14. DOMAIN q = 1..(c - after) /\ c - after \in Nat
  BY <1>1, <1>4, <1>11
<1>15. q \in [1..(c - after) -> es]
  <2>1. q = [i \in 1..(c - after) |-> q[i]]
    BY <1>11
  <2> HIDE DEF q
  <2> QED
    BY <1>9, <1>13, <2>1
<1> HIDE DEF q
<1>16. q \in Seq(es) /\ Len(q) = c - after
  BY <1>14, <1>15
<1> QED
  BY <1>3, <1>13, <1>16 DEF es, c
-----------------------------------------------------------------------------
(* What a call has read so far: the beginning of the events of its run, in *)
(* order, which has no fewer events than when the call read the run; then  *)
(* all of them.                                                            *)

Complete(x) ==
  /\ Len(x.events) >= x.count
  /\ \A s \in x.steps : \E i \in DOMAIN x.events : x.events[i].ev.step = s
  /\ \A i, j \in DOMAIN x.events : x.events[i].seq = x.events[j].seq => i = j

Begun(d, x) ==
  /\ x.after \in 0..d.run[x.run].count
  /\ x.events \in Seq(Store!EventsOf(d, x.run)) /\ Len(x.events) = x.after
  /\ \A i \in 1..x.after : x.events[i].seq = i

Gathered(d, x) ==
  /\ x.pc \in {"run", "steps", "head", "events"} => Begun(d, x)
  /\ x.pc \in {"steps", "head", "events"} => x.count \in Nat /\ x.count <= d.run[x.run].count
  /\ x.pc \in {"head", "events"} =>
       \A s \in x.steps : \E y \in Store!EventsOf(d, x.run) : y.ev.step = s
  /\ x.pc \in {"stat", "open", "write"} => Complete(x)

ExportTypes ==
  /\ export = [pc |-> export.pc, run |-> export.run, raw |-> export.raw, count |-> export.count,
               steps |-> export.steps, events |-> export.events, after |-> export.after,
               disturbed |-> export.disturbed, ordered |-> export.ordered]
  /\ export.pc \in {"idle", "run", "steps", "head", "events", "stat", "open", "write"}
  /\ export.pc = "idle" => export = NoExport
  /\ export.pc # "idle" => export.run \in Runs

ExportInv ==
  /\ Numbered(db)
  /\ ExportTypes
  /\ export.pc # "idle" /\ export.ordered /\ ~export.disturbed => Gathered(db, export)

(* A call that ends. *)
LEMMA ExportEnds ==
  ASSUME ExportInv, export' = NoExport, db' = db
  PROVE  ExportInv'
BY DEF ExportInv, ExportTypes, NoExport

LEMMA ExportBeginKeeps ==
  ASSUME ExportInv, NEW r \in Exported, ExportBegin(r)
  PROVE  ExportInv'
<1>1. /\ export' = [NoExport EXCEPT !.pc = "run", !.run = r]
      /\ db' = db /\ r \in Runs
  BY ExportAssumption DEF ExportBegin, Reads
<1>2. export' = [pc |-> "run", run |-> r, raw |-> FALSE, count |-> 0, steps |-> {}, events |-> <<>>,
                 after |-> 0, disturbed |-> FALSE, ordered |-> TRUE]
  BY <1>1 DEF NoExport
<1>3. db.run[r].count \in Nat
  BY <1>1 DEF ExportInv, Numbered, NumberedRun
<1>4. Begun(db, export')
  BY <1>2, <1>3 DEF Begun
<1> QED
  BY <1>1, <1>2, <1>4 DEF ExportInv, ExportTypes, Gathered

LEMMA ReadRunKeeps ==
  ASSUME ExportInv, ReadRun
  PROVE  ExportInv'
<1>1. CASE ~Present(db, export.run)
  BY <1>1, ExportEnds DEF ReadRun, ExportFails
<1>2. CASE Present(db, export.run)
  <2> DEFINE c == db.run[export.run].count
  <2>1. /\ export' = [export EXCEPT !.pc = "steps", !.count = c]
        /\ db' = db /\ export.pc = "run" /\ ExportTypes /\ Numbered(db)
    BY <1>2 DEF ReadRun, Under, Reads, ExportInv
  <2>2. export' = [pc |-> "steps", run |-> export.run, raw |-> export.raw, count |-> c,
                   steps |-> export.steps, events |-> export.events, after |-> export.after,
                   disturbed |-> export.disturbed, ordered |-> export.ordered]
    BY <2>1 DEF ExportTypes
  <2>3. c \in Nat /\ export.run \in Runs
    BY <2>1 DEF ExportTypes, Numbered, NumberedRun
  <2>4. ExportTypes'
    BY <2>2, <2>3 DEF ExportTypes
  <2>5. ASSUME export.ordered, ~export.disturbed PROVE Gathered(db, export')
    <3>1. Begun(db, export)
      BY <2>1, <2>5 DEF ExportInv, Gathered
    <3>2. Begun(db, export')
      BY <2>2, <3>1 DEF Begun
    <3> QED
      BY <2>2, <2>3, <3>2 DEF Gathered
  <2> QED
    BY <2>1, <2>2, <2>4, <2>5 DEF ExportInv
<1> QED
  BY <1>1, <1>2

LEMMA ReadStepsKeeps ==
  ASSUME ExportInv, ReadSteps
  PROVE  ExportInv'
<1> DEFINE S == {s \in StepIds : db.step[export.run][s].status # "absent"}
<1>1. /\ export' = [export EXCEPT !.pc = "head", !.steps = S]
      /\ db' = db /\ export.pc = "steps" /\ ExportTypes /\ Numbered(db)
  BY DEF ReadSteps, Under, Reads, ExportInv
<1>2. export.run \in Runs
  BY <1>1 DEF ExportTypes
<1>3. \A s \in S : \E y \in Store!EventsOf(db, export.run) : y.ev.step = s
  BY <1>1, <1>2 DEF Numbered, NumberedRun
<1> HIDE DEF S
<1>4. export' = [pc |-> "head", run |-> export.run, raw |-> export.raw, count |-> export.count,
                 steps |-> S, events |-> export.events, after |-> export.after,
                 disturbed |-> export.disturbed, ordered |-> export.ordered]
  BY <1>1 DEF ExportTypes
<1>5. ExportTypes'
  BY <1>2, <1>4 DEF ExportTypes
<1>6. ASSUME export.ordered, ~export.disturbed PROVE Gathered(db, export')
  <2>1. Begun(db, export) /\ export.count \in Nat /\ export.count <= db.run[export.run].count
    BY <1>1, <1>6 DEF ExportInv, Gathered
  <2>2. Begun(db, export')
    BY <1>4, <2>1 DEF Begun
  <2> QED
    BY <1>3, <1>4, <2>1, <2>2 DEF Gathered
<1> QED
  BY <1>1, <1>4, <1>5, <1>6 DEF ExportInv

LEMMA ReadHeadKeeps ==
  ASSUME ExportInv, ReadHead
  PROVE  ExportInv'
<1>1. CASE ~Present(db, export.run)
  BY <1>1, ExportEnds DEF ReadHead, ExportFails
<1>2. CASE Present(db, export.run)
  <2>1. /\ export' = [export EXCEPT !.pc = "events"]
        /\ db' = db /\ export.pc = "head" /\ ExportTypes /\ Numbered(db)
    BY <1>2 DEF ReadHead, Under, ExportInv
  <2>2. export' = [pc |-> "events", run |-> export.run, raw |-> export.raw, count |-> export.count,
                   steps |-> export.steps, events |-> export.events, after |-> export.after,
                   disturbed |-> export.disturbed, ordered |-> export.ordered]
    BY <2>1 DEF ExportTypes
  <2>3. ExportTypes'
    BY <2>1, <2>2 DEF ExportTypes
  <2>4. ASSUME export.ordered, ~export.disturbed PROVE Gathered(db, export')
    <3>1. /\ Begun(db, export) /\ export.count \in Nat /\ export.count <= db.run[export.run].count
          /\ \A s \in export.steps : \E y \in Store!EventsOf(db, export.run) : y.ev.step = s
      BY <2>1, <2>4 DEF ExportInv, Gathered
    <3>2. Begun(db, export')
      BY <2>2, <3>1 DEF Begun
    <3> QED
      BY <2>2, <3>1, <3>2 DEF Gathered
  <2> QED
    BY <2>1, <2>2, <2>3, <2>4 DEF ExportInv
<1> QED
  BY <1>1, <1>2

(* The steps about the file change nothing of the document. *)
LEMMA FileStepsKeep ==
  ASSUME ExportInv,
         (\E force, raw \in BOOLEAN : ExportStat(force, raw)) \/ Open \/ Write \/ ExportAborts
  PROVE  ExportInv'
<1>1. /\ db' = db /\ ExportTypes
      /\ \/ export' = NoExport
         \/ UNCHANGED export
         \/ /\ export.pc = "stat"
            /\ \E raw \in BOOLEAN : export' = [export EXCEPT !.pc = "open", !.raw = raw]
         \/ /\ export.pc = "open"
            /\ export' = [export EXCEPT !.pc = "write"]
  BY DEF ExportStat, Open, Write, ExportAborts, ExportFails, Under, ExportInv
<1>2. CASE export' = NoExport
  BY <1>1, <1>2, ExportEnds
<1>3. CASE UNCHANGED export
  BY <1>1, <1>3 DEF ExportInv, ExportTypes
<1>4. ASSUME NEW raw, NEW pc \in {"open", "write"}, export.pc \in {"stat", "open"},
             export' = [export EXCEPT !.pc = pc, !.raw = raw]
      PROVE  ExportInv'
  <2>1. export' = [pc |-> pc, run |-> export.run, raw |-> raw, count |-> export.count,
                   steps |-> export.steps, events |-> export.events, after |-> export.after,
                   disturbed |-> export.disturbed, ordered |-> export.ordered]
    BY <1>1, <1>4 DEF ExportTypes
  <2>2. ExportTypes'
    BY <1>1, <1>4, <2>1 DEF ExportTypes
  <2>3. ASSUME export.ordered, ~export.disturbed PROVE Gathered(db, export')
    <3>1. Complete(export)
      BY <1>4, <2>3 DEF ExportInv, Gathered
    <3>2. Complete(export')
      BY <2>1, <3>1 DEF Complete
    <3> QED
      BY <2>1, <3>2 DEF Gathered
  <2> QED
    BY <1>1, <2>1, <2>2, <2>3 DEF ExportInv
<1>5. CASE export.pc = "open" /\ export' = [export EXCEPT !.pc = "write"]
  <2>1. export' = [export EXCEPT !.pc = "write", !.raw = export.raw]
    BY <1>1, <1>5 DEF ExportTypes
  <2> QED
    BY <1>4, <1>5, <2>1
<1> QED
  BY <1>1, <1>2, <1>3, <1>4, <1>5

(* Others leave a document alone, or its run was deleted. *)
LEMMA OthersKeepTheDocument ==
  ASSUME ExportInv, TableStep, ExportWatches
  PROVE  ExportInv'
<1> DEFINE x == export.disturbed \/ export.run \in Removed
<1>1. /\ export' = [export EXCEPT !.disturbed = x]
      /\ ExportTypes /\ Numbered(db)
  BY DEF ExportWatches, ExportInv
<1>2. /\ Numbered(db')
      /\ \A r \in Runs \ Removed : /\ Store!EventsOf(db, r) \subseteq Store!EventsOf(db', r)
                                   /\ db.run[r].count <= db'.run[r].count
  BY <1>1, OthersNumber
<1>3. x <=> export.disturbed \/ export.run \in Removed
  OBVIOUS
<1> HIDE DEF x
<1>4. export' = [pc |-> export.pc, run |-> export.run, raw |-> export.raw, count |-> export.count,
                 steps |-> export.steps, events |-> export.events, after |-> export.after,
                 disturbed |-> x, ordered |-> export.ordered]
  BY <1>1 DEF ExportTypes
<1>5. CASE export.pc = "idle"
  <2>1. export = NoExport /\ Null \notin Runs
    BY <1>1, <1>5, RunTableAssumption DEF ExportTypes
  <2>2. x = FALSE
    BY <2>1 DEF x, NoExport, Removed
  <2>3. export' = NoExport
    BY <1>4, <2>1, <2>2 DEF NoExport
  <2> QED
    BY <1>2, <2>3 DEF ExportInv, ExportTypes, NoExport
<1>6. CASE export.pc # "idle"
  <2>1. export.run \in Runs /\ ExportTypes'
    BY <1>1, <1>4, <1>6 DEF ExportTypes
  <2>2. ASSUME export.ordered, ~x PROVE Gathered(db', export')
    <3>1. Gathered(db, export)
      BY <1>3, <1>6, <2>2 DEF ExportInv
    <3>2. /\ Store!EventsOf(db, export.run) \subseteq Store!EventsOf(db', export.run)
          /\ db.run[export.run].count <= db'.run[export.run].count
      BY <1>2, <1>3, <2>1, <2>2
    <3>3. db.run[export.run].count \in Nat /\ db'.run[export.run].count \in Nat
      BY <1>1, <1>2, <2>1 DEF Numbered, NumberedRun
    <3>4. Begun(db, export) => Begun(db', export')
      BY <1>4, <3>2, <3>3 DEF Begun
    <3>5. Complete(export) => Complete(export')
      BY <1>4 DEF Complete
    <3>6. export.count \in Nat /\ export.count <= db.run[export.run].count
            => export.count <= db'.run[export.run].count
      BY <3>2, <3>3
    <3> QED
      BY <1>4, <3>1, <3>2, <3>4, <3>5, <3>6 DEF Gathered
  <2> QED
    BY <1>2, <1>4, <2>1, <2>2 DEF ExportInv
<1> QED
  BY <1>5, <1>6

(* The events of p have the numbers that follow k. *)
Follows(p, k) == \A i \in 1..Len(p) : p[i].seq = k + i

LEMMA PagesJoin ==
  ASSUME NEW S, NEW p \in Seq(S), NEW q \in Seq(S), Follows(p, 0), Follows(q, Len(p))
  PROVE  p \o q \in Seq(S) /\ Len(p \o q) = Len(p) + Len(q) /\ Follows(p \o q, 0)
<1>1. p \o q \in Seq(S) /\ Len(p \o q) = Len(p) + Len(q)
  OBVIOUS
<1>2. ASSUME NEW i \in 1..(Len(p) + Len(q)) PROVE (p \o q)[i].seq = i
  <2>1. CASE i \in 1..Len(p)
    BY <2>1 DEF Follows
  <2>2. CASE i \notin 1..Len(p)
    <3> DEFINE k == i - Len(p)
    <3>1. k \in 1..Len(q) /\ i = Len(p) + k
      BY <2>2
    <3>2. (p \o q)[i] = q[k]
      BY <2>2
    <3> QED
      BY <3>1, <3>2 DEF Follows
  <2> QED
    BY <2>1, <2>2
<1> QED
  BY <1>1, <1>2 DEF Follows

LEMMA PageIsTheBeginning ==
  ASSUME NEW S, NEW q \in Seq(S), NEW n \in Nat, n <= Len(q), NEW k, Follows(q, k)
  PROVE  /\ SubSeq(q, 1, n) \in Seq(S) /\ Len(SubSeq(q, 1, n)) = n
         /\ Follows(SubSeq(q, 1, n), k)
<1>1. /\ SubSeq(q, 1, n) \in Seq(S) /\ Len(SubSeq(q, 1, n)) = n
      /\ \A i \in 1..n : SubSeq(q, 1, n)[i] = q[i]
  OBVIOUS
<1> QED
  BY <1>1 DEF Follows

LEMMA ReadEventsKeeps ==
  ASSUME ExportInv, ReadEvents
  PROVE  ExportInv'
<1> DEFINE r == export.run
           a == export.after
           es == Store!EventsOf(db, r)
           c == db.run[r].count
           rows == EventRows(db, r, a)
           more == Len(rows) > EventPage
           page == IF more THEN SubSeq(rows, 1, EventPage) ELSE rows
           highest == CHOOSE n \in {page[i].seq : i \in DOMAIN page} :
                        \A i \in DOMAIN page : page[i].seq <= n
           ordered == export.ordered /\ InTimelineOrder(db, r)
<1>1. /\ export' = [export EXCEPT !.events = @ \o page,
                                  !.after = IF more THEN highest ELSE @,
                                  !.ordered = @ /\ InTimelineOrder(db, r),
                                  !.pc = IF more THEN "head" ELSE "stat"]
      /\ db' = db /\ export.pc = "events"
  <2>1. Reads["events"] = "stat"
    BY DEF Reads
  <2>2. /\ export' = [export EXCEPT !.events = @ \o page,
                                    !.after = IF more THEN highest ELSE @,
                                    !.ordered = @ /\ InTimelineOrder(db, r),
                                    !.pc = IF more THEN "head" ELSE Reads["events"]]
        /\ db' = db /\ export.pc = "events"
    BY Zenon DEF ReadEvents, Under
  <2> HIDE DEF page, more, highest, rows, r
  <2> QED
    BY <2>1, <2>2
<1>2. ExportTypes /\ Numbered(db)
  BY DEF ExportInv
<1>3. r \in Runs
  BY <1>1, <1>2 DEF ExportTypes
<1>4. export.ordered /\ ~export.disturbed => Gathered(db, export)
  BY <1>1 DEF ExportInv
<1>5. ordered => export.ordered /\ InTimelineOrder(db, r)
  OBVIOUS
<1>6. more => page = SubSeq(rows, 1, EventPage)
  OBVIOUS
<1>7. ~more => page = rows
  OBVIOUS
<1>8. more <=> Len(rows) > EventPage
  OBVIOUS
<1> HIDE DEF page, more, ordered, rows
<1>9. export' = [pc |-> IF more THEN "head" ELSE "stat", run |-> r, raw |-> export.raw,
                 count |-> export.count, steps |-> export.steps,
                 events |-> export.events \o page, after |-> IF more THEN highest ELSE a,
                 disturbed |-> export.disturbed, ordered |-> ordered]
  BY <1>1, <1>2 DEF ExportTypes, ordered
<1> HIDE DEF highest
<1>10. ExportTypes'
  BY <1>3, <1>9 DEF ExportTypes
<1>11. ASSUME ordered, ~export.disturbed PROVE Gathered(db, export')
  <2>1. /\ Begun(db, export) /\ export.count \in Nat /\ export.count <= c
        /\ \A s \in export.steps : \E y \in es : y.ev.step = s
    BY <1>1, <1>4, <1>5, <1>11 DEF Gathered
  <2> DEFINE ev == export.events
             evs == ev \o page
  <2>2. a \in 0..c /\ ev \in Seq(es) /\ Len(ev) = a /\ Follows(ev, 0)
    BY <2>1 DEF Begun, Follows
  <2>3. /\ c \in Nat
        /\ \A y \in es : y.seq \in 1..c
        /\ \A y, z \in es : y.seq = z.seq => y = z
    BY <1>2, <1>3 DEF Numbered, NumberedRun
  <2>4. rows \in Seq(es) /\ Len(rows) = c - a /\ Follows(rows, a)
    BY <1>2, <1>3, <1>5, <1>11, <2>2, RangeIsNumbered DEF rows, Follows
  <2> HIDE DEF r, a, es, c, ev
  <2>5. CASE more
    <3>1. EventPage \in Nat \ {0} /\ EventPage < c - a
      BY <1>8, <2>4, <2>5, ExportAssumption
    <3>2. page \in Seq(es) /\ Len(page) = EventPage /\ Follows(page, a)
      <4>1. EventPage \in Nat /\ EventPage <= Len(rows)
        BY <2>2, <2>3, <2>4, <3>1
      <4> QED
        BY <1>6, <2>4, <2>5, <4>1, PageIsTheBeginning
    <3>3. \A i \in 1..EventPage : page[i].seq = a + i
      BY <3>2 DEF Follows
    <3>4. highest = a + EventPage
      <4> DEFINE N == {page[i].seq : i \in DOMAIN page}
                 top == a + EventPage
      <4>1. DOMAIN page = 1..EventPage /\ EventPage \in DOMAIN page
        BY <3>1, <3>2
      <4>2. top \in N /\ top \in Nat
        BY <2>2, <3>1, <3>3, <4>1
      <4>3. \A i \in DOMAIN page : page[i].seq <= top
        BY <2>2, <2>3, <3>1, <3>3, <4>1
      <4>4. ASSUME NEW n \in N, \A i \in DOMAIN page : page[i].seq <= n PROVE n = top
        <5>1. n \in Nat /\ n <= top
          BY <2>2, <2>3, <3>1, <3>3, <4>1
        <5>2. top <= n
          BY <3>3, <4>1, <4>4
        <5> QED
          BY <4>2, <5>1, <5>2
      <4> HIDE DEF N, top
      <4>5. highest = CHOOSE n \in N : \A i \in DOMAIN page : page[i].seq <= n
        BY DEF highest, N
      <4>6. highest \in N /\ \A i \in DOMAIN page : page[i].seq <= highest
        BY <4>2, <4>3, <4>5
      <4> QED
        BY <4>4, <4>6 DEF top
    <3>5. /\ evs \in Seq(es) /\ Len(evs) = a + EventPage
          /\ \A i \in 1..(a + EventPage) : evs[i].seq = i
      <4>1. evs \in Seq(es) /\ Len(evs) = Len(ev) + Len(page) /\ Follows(evs, 0)
        BY <2>2, <3>2, PagesJoin
      <4> HIDE DEF evs
      <4>2. Len(evs) = a + EventPage /\ a + EventPage \in Nat
        BY <2>2, <2>3, <3>1, <3>2, <4>1
      <4> QED
        BY <4>1, <4>2 DEF Follows
    <3>6. a + EventPage \in 0..c
      BY <2>2, <2>3, <3>1
    <3> HIDE DEF evs
    <3>7. /\ export'.pc = "head" /\ export'.run = r /\ export'.count = export.count
          /\ export'.steps = export.steps /\ export'.after = a + EventPage
      BY <1>9, <2>5, <3>4 DEF r
    <3>8. export'.events = evs
      BY <1>9 DEF evs, ev
    <3>9. Begun(db, export')
      BY <3>5, <3>6, <3>7, <3>8 DEF Begun, es, c
    <3> QED
      BY <2>1, <3>7, <3>9 DEF Gathered, es, c
  <2>6. CASE ~more
    <3>1. page \in Seq(es) /\ Len(page) = c - a /\ Follows(page, a)
      BY <1>7, <2>4, <2>6
    <3>2. evs \in Seq(es) /\ Len(evs) = Len(ev) + Len(page) /\ Follows(evs, 0)
      BY <2>2, <3>1, PagesJoin
    <3>3. Len(evs) = c
      BY <2>2, <2>3, <3>1, <3>2
    <3> HIDE DEF evs
    <3>4. /\ export'.pc = "stat" /\ export'.events = evs /\ export'.count = export.count
          /\ export'.steps = export.steps
      BY <1>9, <2>6 DEF evs, ev
    <3>5. \A i \in 1..c : evs[i] \in es /\ evs[i].seq = i
      BY <2>3, <3>2, <3>3 DEF Follows
    <3>6. DOMAIN evs = 1..c
      BY <3>2, <3>3
    <3>7. \A s \in export.steps : \E i \in DOMAIN evs : evs[i].ev.step = s
      <4> SUFFICES ASSUME NEW s \in export.steps PROVE \E i \in DOMAIN evs : evs[i].ev.step = s
        OBVIOUS
      <4>1. PICK y \in es : y.ev.step = s
        BY <2>1
      <4>2. y.seq \in 1..c /\ evs[y.seq] = y
        BY <2>3, <3>5
      <4> QED
        BY <3>6, <4>1, <4>2
    <3>8. \A i, j \in DOMAIN evs : evs[i].seq = evs[j].seq => i = j
      BY <3>5, <3>6
    <3>9. Complete(export')
      BY <2>1, <3>3, <3>4, <3>7, <3>8 DEF Complete
    <3> QED
      BY <3>4, <3>9 DEF Gathered
  <2> QED
    BY <2>5, <2>6
<1>12. export'.ordered = ordered /\ export'.disturbed = export.disturbed
  BY <1>9
<1> QED
  BY <1>1, <1>2, <1>10, <1>11, <1>12 DEF ExportInv

LEMMA ExportInitHolds == TableInit /\ ExportInit => ExportInv
BY EmptyTableIsNumbered DEF ExportInit, ExportInv, ExportTypes, NoExport

LEMMA ExportNextHolds ==
  ASSUME ExportInv,
         [(TableStep /\ ExportWatches /\ UNCHANGED disk) \/ ExportStep]_<<db, export, disk>>
  PROVE  ExportInv'
<1>1. CASE TableStep /\ ExportWatches
  BY <1>1, OthersKeepTheDocument
<1>2. ASSUME NEW r \in Exported, ExportBegin(r) PROVE ExportInv'
  BY <1>2, ExportBeginKeeps
<1>3. CASE ReadRun
  BY <1>3, ReadRunKeeps
<1>4. CASE ReadSteps
  BY <1>4, ReadStepsKeeps
<1>5. CASE ReadHead
  BY <1>5, ReadHeadKeeps
<1>6. CASE ReadEvents
  BY <1>6, ReadEventsKeeps
<1>7. CASE (\E force, raw \in BOOLEAN : ExportStat(force, raw)) \/ Open \/ Write \/ ExportAborts
  BY <1>7, FileStepsKeep
<1>8. CASE UNCHANGED <<db, export, disk>>
  BY <1>8 DEF ExportInv, ExportTypes
<1> QED
  BY <1>1, <1>2, <1>3, <1>4, <1>5, <1>6, <1>7, <1>8 DEF ExportStep

(* What is written holds together: no event twice, no fewer events than    *)
(* the run was read to have, and an event for every step, whatever was     *)
(* inserted between the statements.                                        *)
THEOREM DocumentsStayWhole == ExportSpec => []DocumentsHoldTogether
<1>1. ExportInv => DocumentsHoldTogether
  <2> SUFFICES ASSUME ExportInv, export.pc = "write", export.ordered, ~export.disturbed
               PROVE  DocumentsHoldTogether
    BY DEF DocumentsHoldTogether, Under
  <2>1. Complete(export)
    BY DEF ExportInv, Gathered
  <2> QED
    BY <2>1 DEF DocumentsHoldTogether, Complete
<1> QED
  BY <1>1, ExportInitHolds, ExportNextHolds, PTL DEF ExportSpec
=============================================================================
