------------------------------ MODULE Settings ------------------------------
(***************************************************************************)
(* configure.Apply: the settings file of an agent is read, backed up under *)
(* the second of the clock, merged with what Traceboard adds to it, and    *)
(* written over; OpenCode's plugin module is written first.  The user      *)
(* edits the file at any time, and a command may be killed between any two *)
(* steps.  "traceboard configure" then records the capture mode, which     *)
(* Administration has.                                                     *)
(*                                                                         *)
(* A JSON object is a function from its keys to its values, a value being  *)
(* Leaf(x) or Object(f).  No object that Traceboard adds has another one   *)
(* that has objects, so two levels are enough for every merge.             *)
(***************************************************************************)
EXTENDS Naturals

CONSTANTS Objects,      \* what a settings file that is whole can have
          Integrations, \* [plugin, addition] of each source
          UserVersions, \* what a user writes into the settings file
          Absent,       \* a file that is not there
          Empty,        \* a file that is truncated and not written yet
          Seconds       \* bound on the clock (checking only)

Leaf(x) == [leaf |-> x]

Object(f) == [object |-> f]

IsObject(v) == "object" \in DOMAIN v

VARIABLES source,   \* the integration that is configured
          settings, \* the settings file
          backups,  \* the backup of each second
          plugin,   \* the plugin module: Absent, Empty or "whole"
          second,   \* the clock
          edit,     \* the command
          mine      \* history: the version the user saved last, and whether
                    \* he did so while a command was under way, or two
                    \* commands made their backups in one second

settingsVars == <<source, settings, backups, plugin, second, edit, mine>>

NoEdit == [pc |-> "idle", dry |-> FALSE, contents |-> Absent, at |-> 0]

SettingsInit ==
  /\ source \in Integrations
  /\ settings = Absent
  /\ backups = [s \in 0..Seconds |-> Absent]
  /\ plugin = Absent
  /\ second = 1
  /\ edit = NoEdit
  /\ mine = [version |-> Absent, raced |-> FALSE]

IsJSON(contents) == contents \notin {Absent, Empty}

At(pc) == edit.pc = pc

Becomes(pc) == edit' = [edit EXCEPT !.pc = pc]

SecondPasses ==
  /\ second < Seconds
  /\ second' = second + 1
  /\ UNCHANGED <<source, settings, backups, plugin, edit, mine>>

(* An editor that saves a version, or the agent itself. *)
UserSaves(version) ==
  /\ settings' = version
  /\ mine' = [version |-> version, raced |-> mine.raced \/ ~At("idle")]
  /\ UNCHANGED <<source, backups, plugin, second, edit>>

Configure(dry) ==
  /\ At("idle")
  /\ edit' = [NoEdit EXCEPT !.pc = IF source.plugin THEN "plugin" ELSE "read", !.dry = dry]
  /\ UNCHANGED <<source, settings, backups, plugin, second, mine>>

(* ensurePath: a file that is there is kept. *)
EnsurePlugin ==
  /\ At("plugin")
  /\ IF plugin = Absent /\ ~edit.dry
     THEN plugin' = Empty /\ Becomes("plugin text")
     ELSE Becomes("read") /\ UNCHANGED plugin
  /\ UNCHANGED <<source, settings, backups, second, mine>>

WritePlugin ==
  /\ At("plugin text")
  /\ plugin' = "whole"
  /\ Becomes("read")
  /\ UNCHANGED <<source, settings, backups, second, mine>>

(* What mergeJSON does next.  The file of a first run has no backup. *)
AfterReading(contents) == IF IsJSON(contents) /\ ~edit.dry THEN "backup" ELSE "merge"

(* ReadFile and Decode: a file that is not JSON ends the command. *)
ReadSettings ==
  /\ At("read")
  /\ edit' = IF settings = Empty THEN NoEdit
             ELSE [edit EXCEPT !.contents = settings, !.pc = AfterReading(settings)]
  /\ UNCHANGED <<source, settings, backups, plugin, second, mine>>

(* Defect: every backup has the same name.                                 *)
Stamp_Constant(s) == 0

(* The name of a backup has the second it is made in. *)
Stamp(s) == s

(* WriteFile of the backup truncates one that has its name. *)
OpenBackup ==
  /\ At("backup")
  /\ backups' = [backups EXCEPT ![Stamp(second)] = Empty]
  /\ edit' = [edit EXCEPT !.pc = "backup text", !.at = Stamp(second)]
  /\ mine' = [mine EXCEPT !.raced = @ \/ backups[second] # Absent]
  /\ UNCHANGED <<source, settings, plugin, second>>

WriteBackup ==
  /\ At("backup text")
  /\ backups' = [backups EXCEPT ![edit.at] = edit.contents]
  /\ Becomes("merge")
  /\ UNCHANGED <<source, settings, plugin, second, mine>>

(* A dry run ends here. *)
Merge ==
  /\ At("merge")
  /\ edit' = IF edit.dry THEN NoEdit ELSE [edit EXCEPT !.pc = "open"]
  /\ UNCHANGED <<source, settings, backups, plugin, second, mine>>

OpenSettings ==
  /\ At("open")
  /\ settings' = Empty
  /\ Becomes("text")
  /\ UNCHANGED <<source, backups, plugin, second, mine>>

(* mergeMaps, below the first level. *)
MergeInner(base, addition) ==
  [k \in DOMAIN base \cup DOMAIN addition |-> IF k \in DOMAIN addition THEN addition[k] ELSE base[k]]

(* Defect: objects are not merged.                                         *)
MergeMaps_Shallow(base, addition) == MergeInner(base, addition)

(* mergeMaps: objects are merged, any other value is replaced. *)
MergeMaps(base, addition) ==
  LET both == DOMAIN base \cap DOMAIN addition
      Merged(k) == IF k \in both /\ IsObject(base[k]) /\ IsObject(addition[k])
                   THEN Object(MergeInner(base[k].object, addition[k].object))
                   ELSE MergeInner(base, addition)[k]
  IN [k \in DOMAIN base \cup DOMAIN addition |-> Merged(k)]

NoKeys == [k \in {} |-> Absent]

(* What Traceboard merges into an object is an object, and a file that is  *)
(* not there or empty has none.                                            *)
ASSUME SettingsAssumption ==
  /\ NoKeys \in Objects
  /\ UserVersions \subseteq Objects
  /\ \A v \in Objects, i \in Integrations : MergeMaps(v, i.addition) \in Objects
  /\ Absent \notin Objects /\ Empty \notin Objects /\ Absent # Empty
  /\ Seconds \in Nat \ {0}

WriteSettings ==
  /\ At("text")
  /\ settings' = MergeMaps(IF IsJSON(edit.contents) THEN edit.contents ELSE NoKeys,
                           source.addition)
  /\ edit' = NoEdit
  /\ UNCHANGED <<source, backups, plugin, second, mine>>

(* The command is killed, or a call of the file system fails. *)
ConfigureDies ==
  /\ ~At("idle")
  /\ edit' = NoEdit
  /\ UNCHANGED <<source, settings, backups, plugin, second, mine>>

SettingsStep ==
  \/ SecondPasses
  \/ \E version \in UserVersions : UserSaves(version)
  \/ \E dry \in BOOLEAN : Configure(dry)
  \/ EnsurePlugin \/ WritePlugin \/ ReadSettings \/ OpenBackup \/ WriteBackup
  \/ Merge \/ OpenSettings \/ WriteSettings \/ ConfigureDies

SettingsSpec == SettingsInit /\ [][SettingsStep]_settingsVars
-----------------------------------------------------------------------------
(* The values of an object at the paths that an addition does not set. *)
Foreign(object, addition) ==
  {<<k, object[k]>> : k \in DOMAIN object \ DOMAIN addition} \cup
  UNION {{<<k, i, object[k].object[i]>> :
            i \in DOMAIN object[k].object \ DOMAIN addition[k].object} :
         k \in {x \in DOMAIN object \cap DOMAIN addition :
                  IsObject(object[x]) /\ IsObject(addition[x])}}

(* However often the command is run, dry or not, and wherever it is        *)
(* killed, the version that the user saved last is there, in the file or   *)
(* in a backup; unless he saved it while a command was under way, or two   *)
(* backups were made in one second ("backs up the file it changes").       *)
UsersVersionIsKept ==
  ~mine.raced => settings = mine.version \/ \E s \in DOMAIN backups : backups[s] = mine.version

(* A settings file that is whole has everything of that version that       *)
(* Traceboard does not own ("preserves unknown JSON keys").                *)
ForeignKeysSurvive ==
  IsJSON(mine.version) /\ ~mine.raced /\ IsJSON(settings) =>
    Foreign(mine.version, source.addition) \subseteq Foreign(settings, source.addition)
=============================================================================
