----------------------------- MODULE MCCommands -----------------------------
(* Commands and the files and tables they change: "configure" on an        *)
(* agent's settings; "retention apply", "export" and the index of runs on  *)
(* the table of runs, while agents and other commands change it; and the   *)
(* spool of a hook.  They share nothing else, so that a behaviour has one  *)
(* of them.                                                                *)
EXTENDS MCSpool, Settings, Retention, RunIndex, Export

Callers == <<job, list, export, disk>>

TableVars == <<db, Callers>>

AllVars == <<settingsVars, TableVars, vars>>

NoSpool == Init

(* The settings are as they were at first, for one of the integrations. *)
NoSettings == SettingsInit /\ source.plugin

NoTable == TableInit /\ RetentionInit /\ IndexInit /\ ExportInit

OnTable ==
  \/ TableStep /\ JobWatches /\ ListWatches /\ ExportWatches /\ UNCHANGED disk
  \/ IndexInit /\ ExportInit /\ RetentionStep /\ UNCHANGED <<list, export, disk>>
  \/ RetentionInit /\ ExportInit /\ IndexStep /\ UNCHANGED <<job, export, disk>>
  \/ RetentionInit /\ IndexInit /\ ExportStep /\ UNCHANGED <<job, list>>

AllInit == SettingsInit /\ NoTable /\ NoSpool

AllNext ==
  \/ NoTable /\ NoSpool /\ SettingsStep /\ UNCHANGED <<TableVars, vars>>
  \/ NoSettings /\ NoSpool /\ OnTable /\ UNCHANGED <<settingsVars, vars>>
  \/ NoSettings /\ NoTable /\ Next /\ UNCHANGED <<settingsVars, TableVars>>

AllSpec == AllInit /\ [][AllNext]_AllVars
-----------------------------------------------------------------------------
(* A run that starts, one that ended long ago, one without a start; a      *)
(* source that numbers events of one time, whichever arrives first.        *)
Ev(n, run, step, type, status, at, number) ==
  [id |-> n, key |-> n, run |-> run, step |-> step, type |-> type, status |-> status,
   at |-> at, source |-> number, mode |-> "metadata", valid |-> TRUE]

MCEvents == {Ev(1, 1, Null, "run.started", "started", 2, 2),
             Ev(2, 1, Null, "run.completed", "completed", 3, Null),
             Ev(3, 1, "s", "other", "started", 2, 1),
             Ev(4, 2, Null, "run.failed", "failed", 1, Null),
             Ev(5, 3, Null, "run.completed", "completed", 2, Null)}

MCPolicies == {[cutoff |-> 3, keep |-> 0], [cutoff |-> 0, keep |-> 1]}

MCProject == [r \in 1..3 |-> IF r = 2 THEN Null ELSE "p"]

MCFileOf == [r \in 1..3 |-> "f"]

(* OpenCode, and an agent with hooks. *)
MCIntegrations ==
  {[plugin |-> TRUE, addition |-> ("$schema" :> Leaf("url") @@ "plugin" :> Leaf("./plugin"))],
   [plugin |-> FALSE, addition |-> ("hooks" :> Object("start" :> Leaf("hook") @@ "end" :> Leaf("hook")))]}

MCVersions ==
  {"model" :> Leaf("m"),
   "hooks" :> Object("start" :> Leaf("own") @@ "stop" :> Leaf("own")) @@ "plugin" :> Leaf("own")}

(* The versions of the user, no keys, and what merging makes of them. *)
MCObjects ==
  LET Merged(objects) == objects \cup {MergeMaps(v, i.addition) : v \in objects, i \in MCIntegrations}
  IN Merged(Merged(MCVersions \cup {NoKeys}))
=============================================================================
