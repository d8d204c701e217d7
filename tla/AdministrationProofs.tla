------------------------ MODULE AdministrationProofs ------------------------
(***************************************************************************)
(* The types and safety properties of Administration, for any processes,   *)
(* requests, migrations and commands.                                      *)
(***************************************************************************)
EXTENDS Administration, FiniteSetTheorems, TLAPS

ProcessRow == [command : Commands, pc : Steps, cfg : Configs \cup {None}, seen : SUBSET Files,
               at : Nat, token : Nat]

(* A process between two commands has the shape of one. *)
LEMMA OffShape == Off \in ProcessRow
  BY DEF Off, ProcessRow, Commands, Steps

------------------------------------------------------------------------------
(* One set of secrets. *)

(* A process past Ensure has a configuration, one that loads the file finds *)
(* it, and what a process has, but for what it is about to install, has the *)
(* secrets of the file.                                                     *)
Agrees(k, file) ==
  /\ k.pc \notin {"off", "stat", "load"} => k.cfg # None
  /\ k.pc = "load" => file # None
  /\ k.cfg # None /\ k.pc # "link" => file # None /\ k.cfg.secrets = file.secrets

SecretsInv ==
  /\ config \in Configs \cup {None}
  /\ proc \in [Procs -> ProcessRow]
  /\ \A p \in Procs : Agrees(proc[p], config)

(* What Ensure generates is a configuration. *)
LEMMA GeneratedShape ==
  ASSUME NEW p \in Procs
  PROVE  Generated(p) \in Configs
  BY DEF Generated, Configs

(* A configuration with one setting changed is one, with the same secrets. *)
LEMMA EditedShape ==
  ASSUME NEW c \in Configs
  PROVE  /\ c # None
         /\ \A d \in Days : [c EXCEPT !.days = d] \in Configs /\ [c EXCEPT !.days = d].secrets = c.secrets
         /\ \A m \in Modes : [c EXCEPT !.mode = m] \in Configs /\ [c EXCEPT !.mode = m].secrets = c.secrets
  BY NoneAssumption DEF Configs

(* Where a process is that was given the configuration c. *)
LEMMA HoldingGives ==
  ASSUME proc \in [Procs -> ProcessRow], NEW p \in Procs, NEW c \in Configs, Holding(p, c)
  PROVE  \E h \in ProcessRow :
           /\ proc' = [proc EXCEPT ![p] = h]
           /\ h.pc \in {"posting", "save", "read"}
           /\ h.cfg \in Configs
           /\ h.cfg.secrets = c.secrets
  <1>1. ASSUME NEW s \in {"posting", "save", "read"}, NEW g \in Configs, g.secrets = c.secrets,
               proc' = [proc EXCEPT ![p].pc = s, ![p].cfg = g]
        PROVE  \E h \in ProcessRow :
                 /\ proc' = [proc EXCEPT ![p] = h]
                 /\ h.pc \in {"posting", "save", "read"}
                 /\ h.cfg \in Configs
                 /\ h.cfg.secrets = c.secrets
    <2> DEFINE h == [proc[p] EXCEPT !.pc = s, !.cfg = g]
    <2>1. proc[p] \in ProcessRow
      OBVIOUS
    <2>2. h \in ProcessRow /\ h.pc = s /\ h.cfg = g
      BY <2>1 DEF ProcessRow, Steps, ConfigSteps, MigrateSteps
    <2>3. proc' = [proc EXCEPT ![p] = h]
      BY <1>1
    <2> QED BY <2>2, <2>3, <1>1
  <1>2. CASE proc' = [proc EXCEPT ![p].pc = "posting", ![p].cfg = c]
    BY <1>1, <1>2
  <1>3. CASE proc' = [proc EXCEPT ![p].pc = "read", ![p].cfg = c]
    BY <1>1, <1>3
  <1>4. ASSUME NEW d \in Days,
               proc' = [proc EXCEPT ![p].pc = "save", ![p].cfg = [c EXCEPT !.days = d]]
        PROVE  \E h \in ProcessRow :
                 /\ proc' = [proc EXCEPT ![p] = h]
                 /\ h.pc \in {"posting", "save", "read"}
                 /\ h.cfg \in Configs
                 /\ h.cfg.secrets = c.secrets
    BY <1>1, <1>4, EditedShape
  <1>5. ASSUME NEW m \in Modes,
               proc' = [proc EXCEPT ![p].pc = "save", ![p].cfg = [c EXCEPT !.mode = m]]
        PROVE  \E h \in ProcessRow :
                 /\ proc' = [proc EXCEPT ![p] = h]
                 /\ h.pc \in {"posting", "save", "read"}
                 /\ h.cfg \in Configs
                 /\ h.cfg.secrets = c.secrets
    BY <1>1, <1>5, EditedShape
  <1> QED BY <1>2, <1>3, <1>4, <1>5 DEF Holding

(* The file keeps its secrets, and one process changes and agrees with it. *)
SecretsStep(p, h) ==
  /\ config' \in Configs \cup {None}
  /\ config = None \/ (config' # None /\ config'.secrets = config.secrets)
  /\ proc' = [proc EXCEPT ![p] = h]
  /\ Agrees(h, config')

(* A step that leaves one process in agreement keeps all of them so. *)
LEMMA SecretsStepKeeps ==
  ASSUME SecretsInv, NEW p \in Procs, NEW h \in ProcessRow, SecretsStep(p, h)
  PROVE  SecretsInv'
  <1>1. proc' \in [Procs -> ProcessRow]
    BY DEF SecretsInv, SecretsStep
  <1>2. ASSUME NEW q \in Procs PROVE Agrees(proc'[q], config')
    <2>1. CASE q = p
      BY <2>1 DEF SecretsInv, SecretsStep
    <2>2. CASE q # p
      BY <2>2 DEF SecretsInv, SecretsStep, Agrees
    <2> QED BY <2>1, <2>2
  <1> QED BY <1>1, <1>2 DEF SecretsInv, SecretsStep

(* Most steps move a process on, or end it, and leave the file alone. *)
LEMMA MovingOn ==
  ASSUME SecretsInv, config' = config, NEW p \in Procs, NEW h \in ProcessRow,
         proc' = [proc EXCEPT ![p] = h],
         \/ h.pc \in {"off", "stat"} /\ h.cfg = None
         \/ /\ h.cfg = proc[p].cfg
            /\ proc[p].pc \notin {"off", "stat", "load", "link"}
            /\ h.pc \notin {"off", "stat", "load", "link"}
  PROVE  SecretsInv'
  <1>1. Agrees(proc[p], config)
    BY DEF SecretsInv
  <1>2. SecretsStep(p, h)
    BY <1>1 DEF SecretsStep, Agrees, SecretsInv
  <1> QED BY <1>2, SecretsStepKeeps

(* The end of a command keeps the secrets in agreement. *)
LEMMA Ending ==
  ASSUME SecretsInv, config' = config, NEW p \in Procs, End(p)
  PROVE  SecretsInv'
  BY MovingOn, OffShape DEF End, Off

(* So does a change of nothing but the place a command has reached. *)
LEMMA Going ==
  ASSUME SecretsInv, config' = config, NEW p \in Procs,
         NEW s \in Steps \ {"off", "stat", "load", "link"},
         proc[p].pc \notin {"off", "stat", "load", "link"}, Goto(p, s)
  PROVE  SecretsInv'
  <1> DEFINE h == [proc[p] EXCEPT !.pc = s]
  <1>1. proc[p] \in ProcessRow
    BY DEF SecretsInv
  <1>2. h \in ProcessRow /\ h.pc = s /\ h.cfg = proc[p].cfg
    BY <1>1 DEF ProcessRow
  <1>3. proc' = [proc EXCEPT ![p] = h]
    BY DEF Goto
  <1> QED BY <1>2, <1>3, MovingOn

(* The names of the steps, for leaves that need no more of them. *)
LEMMA StepNames ==
  {"posting", "record", "migrate", "mode", "wipe", "issue", "source", "listen", "serving", "read", "save"}
    \subseteq Steps \ {"off", "stat", "load", "link"}
  BY DEF Steps, ConfigSteps, MigrateSteps, LaterSteps

(* Every step keeps every process in agreement with the file. *)
LEMMA SecretsNext ==
  ASSUME SecretsInv, applied \subseteq Files, tokens \in Seq([wipe : Nat, printed : BOOLEAN]),
         [Next]_vars
  PROVE  SecretsInv'
  <1>0. \A p \in Procs : proc[p] \in ProcessRow /\ Agrees(proc[p], config)
    BY DEF SecretsInv
  <1>1. ASSUME config' = config, proc' = proc PROVE SecretsInv'
    BY <1>1 DEF SecretsInv
  <1>2. ASSUME NEW p \in Procs, Command(p) PROVE SecretsInv'
    <2>1. ASSUME NEW command \in Commands, Run(p, command) PROVE SecretsInv'
      <3> DEFINE h == [Off EXCEPT !.command = command, !.pc = "stat"]
      <3>1. h \in ProcessRow /\ h.pc = "stat" /\ h.cfg = None
        BY OffShape DEF Off, ProcessRow, Steps, ConfigSteps
      <3> QED BY <2>1, <3>1, MovingOn DEF Run
    <2>2. CASE Kill(p)
      BY <2>2, Ending DEF Kill
    <2>3. CASE Stat(p)
      <3>1. CASE config # None /\ Goto(p, "load")
        <4> DEFINE h == [proc[p] EXCEPT !.pc = "load"]
        <4>1. h \in ProcessRow /\ h.pc = "load" /\ h.cfg = proc[p].cfg
          BY <1>0 DEF ProcessRow, Steps, ConfigSteps
        <4>2. SecretsStep(p, h)
          BY <4>1, <3>1, <2>3, <1>0 DEF SecretsStep, SecretsInv, Agrees, Goto, Stat
        <4> QED BY <4>1, <4>2, SecretsStepKeeps
      <3>2. CASE config = None /\ proc' = [proc EXCEPT ![p].pc = "link", ![p].cfg = Generated(p)]
        <4> DEFINE h == [proc[p] EXCEPT !.pc = "link", !.cfg = Generated(p)]
        <4>1. h \in ProcessRow /\ h.pc = "link" /\ h.cfg \in Configs
          BY <1>0, GeneratedShape DEF ProcessRow, Steps, ConfigSteps
        <4>2. SecretsStep(p, h)
          BY <4>1, <3>2, <2>3, NoneAssumption DEF SecretsStep, SecretsInv, Agrees, Stat
        <4> QED BY <4>1, <4>2, SecretsStepKeeps
      <3> QED BY <2>3, <3>1, <3>2 DEF Stat
    <2>4. CASE Load(p)
      <3>1. config \in Configs
        BY <2>4, <1>0 DEF Load, SecretsInv, Agrees
      <3>2. PICK h \in ProcessRow : /\ proc' = [proc EXCEPT ![p] = h]
                                    /\ h.pc \in {"posting", "save", "read"}
                                    /\ h.cfg \in Configs
                                    /\ h.cfg.secrets = config.secrets
        BY <2>4, <3>1, HoldingGives DEF Load, SecretsInv
      <3>3. SecretsStep(p, h)
        BY <2>4, <3>1, <3>2, NoneAssumption DEF SecretsStep, Agrees, Load
      <3> QED BY <3>2, <3>3, SecretsStepKeeps
    <2>5. CASE Link(p)
      <3>1. proc[p].cfg \in Configs
        BY <2>5, <1>0 DEF Link, Agrees, ProcessRow
      <3>2. CASE config = None /\ config' = proc[p].cfg /\ Holding(p, proc[p].cfg)
        <4>1. PICK h \in ProcessRow : /\ proc' = [proc EXCEPT ![p] = h]
                                      /\ h.pc \in {"posting", "save", "read"}
                                      /\ h.cfg \in Configs
                                      /\ h.cfg.secrets = proc[p].cfg.secrets
          BY <3>1, <3>2, HoldingGives DEF SecretsInv
        <4>2. SecretsStep(p, h)
          BY <3>1, <3>2, <4>1, NoneAssumption DEF SecretsStep, Agrees
        <4> QED BY <4>1, <4>2, SecretsStepKeeps
      <3>3. CASE config # None /\ config' = config
                 /\ proc' = [proc EXCEPT ![p].pc = "load", ![p].cfg = None]
        <4> DEFINE h == [proc[p] EXCEPT !.pc = "load", !.cfg = None]
        <4>1. h \in ProcessRow /\ h.pc = "load" /\ h.cfg = None
          BY <1>0 DEF ProcessRow, Steps, ConfigSteps
        <4>2. SecretsStep(p, h)
          BY <4>1, <3>3 DEF SecretsStep, SecretsInv, Agrees
        <4> QED BY <4>1, <4>2, SecretsStepKeeps
      <3> QED BY <2>5, <3>2, <3>3 DEF Link
    <2>6. CASE Posted(p)
      BY <2>6, Ending DEF Posted
    <2>7. CASE Save(p)
      <3>1. /\ proc[p].cfg \in Configs /\ config # None
            /\ proc[p].cfg.secrets = config.secrets
        BY <2>7, <1>0 DEF Save, Agrees, ProcessRow
      <3>2. CASE End(p)
        <4>1. SecretsStep(p, Off)
          BY <2>7, <3>1, <3>2, NoneAssumption DEF Save, SecretsStep, Agrees, End, Off
        <4> QED BY <4>1, OffShape, SecretsStepKeeps
      <3>3. CASE Goto(p, "read")
        <4> DEFINE h == [proc[p] EXCEPT !.pc = "read"]
        <4>1. h \in ProcessRow /\ h.pc = "read" /\ h.cfg = proc[p].cfg
          BY <1>0 DEF ProcessRow, Steps, MigrateSteps
        <4>2. SecretsStep(p, h)
          BY <4>1, <2>7, <3>1, <3>3, NoneAssumption DEF Save, SecretsStep, Agrees, Goto
        <4> QED BY <4>1, <4>2, SecretsStepKeeps
      <3> QED BY <2>7, <3>2, <3>3 DEF Save
    <2>8. CASE Read(p)
      <3> DEFINE h == [proc[p] EXCEPT !.pc = "migrate", !.seen = applied, !.at = 1]
      <3>1. h \in ProcessRow /\ h.pc = "migrate" /\ h.cfg = proc[p].cfg
        BY <1>0, StepNames DEF ProcessRow
      <3>2. proc' = [proc EXCEPT ![p] = h] /\ config' = config /\ proc[p].pc = "read"
        BY <2>8 DEF Read
      <3> QED BY <3>1, <3>2, MovingOn
    <2>9. CASE Skip(p)
      <3> DEFINE h == [proc[p] EXCEPT !.at = proc[p].at + 1]
      <3>1. h \in ProcessRow /\ h.pc = "migrate" /\ h.cfg = proc[p].cfg
        BY <1>0, <2>9 DEF ProcessRow, Skip
      <3>2. proc' = [proc EXCEPT ![p] = h] /\ config' = config /\ proc[p].pc = "migrate"
        BY <2>9 DEF Skip
      <3> QED BY <3>1, <3>2, MovingOn
    <2>10. CASE Execute(p)
      BY <2>10, Ending, Going, StepNames DEF Execute
    <2>11. CASE Record(p)
      <3> DEFINE h == [proc[p] EXCEPT !.pc = "migrate", !.at = proc[p].at + 1]
      <3>0. proc[p].at + 1 \in Nat /\ "migrate" \in Steps
        BY <1>0, StepNames DEF ProcessRow
      <3>1. h \in ProcessRow /\ h.pc = "migrate" /\ h.cfg = proc[p].cfg
        BY <1>0, <3>0 DEF ProcessRow
      <3>2. proc' = [proc EXCEPT ![p] = h] /\ config' = config /\ proc[p].pc = "record"
        BY <2>11 DEF Record
      <3> QED BY <3>1, <3>2, MovingOn
    <2>12. CASE Migrated(p)
      <3>1. ASSUME NEW s \in {"mode", "wipe"},
                   proc' = [proc EXCEPT ![p].pc = s, ![p].seen = {}, ![p].at = 0]
            PROVE  SecretsInv'
        <4> DEFINE h == [proc[p] EXCEPT !.pc = s, !.seen = {}, !.at = 0]
        <4>1. h \in ProcessRow /\ h.pc = s /\ h.cfg = proc[p].cfg
          BY <1>0, StepNames DEF ProcessRow
        <4>2. proc' = [proc EXCEPT ![p] = h] /\ config' = config /\ proc[p].pc = "migrate"
          BY <2>12, <3>1 DEF Migrated
        <4> QED BY <4>1, <4>2, MovingOn
      <3> QED BY <2>12, <3>1, Ending DEF Migrated
    <2>13. CASE RecordMode(p)
      BY <2>13, Ending DEF RecordMode
    <2>14. CASE Wipe(p)
      BY <2>14, Going, StepNames DEF Wipe
    <2>15. CASE Issue(p)
      <3>1. ASSUME proc' = [proc EXCEPT ![p].pc = "source", ![p].token = Len(tokens) + 1]
            PROVE  SecretsInv'
        <4> DEFINE h == [proc[p] EXCEPT !.pc = "source", !.token = Len(tokens) + 1]
        <4>0. Len(tokens) + 1 \in Nat /\ "source" \in Steps
          BY StepNames
        <4>1. h \in ProcessRow /\ h.pc = "source" /\ h.cfg = proc[p].cfg
          BY <1>0, <4>0 DEF ProcessRow
        <4>2. proc' = [proc EXCEPT ![p] = h] /\ config' = config /\ proc[p].pc = "issue"
          BY <2>15, <3>1 DEF Issue
        <4> QED BY <4>1, <4>2, MovingOn
      <3> QED BY <2>15, <3>1, Ending DEF Issue
    <2>16. CASE EnsureSource(p)
      BY <2>16, Going, StepNames DEF EnsureSource
    <2>17. CASE Listen(p)
      BY <2>17, Ending, Going, StepNames DEF Listen
    <2> QED BY <1>2, <2>1, <2>2, <2>3, <2>4, <2>5, <2>6, <2>7, <2>8, <2>9, <2>10, <2>11,
              <2>12, <2>13, <2>14, <2>15, <2>16, <2>17 DEF Command
  <1>3. ASSUME NEW r \in Requests, Request(r) PROVE SecretsInv'
    <2>1. config' = config /\ proc' = proc
      BY <1>3 DEF Request, Exchange, CreateSession, Select, Update, Fails, Undo, Logout
    <2> QED BY <1>1, <2>1
  <1>4. CASE \E m \in Modes : SetMode(m)
    BY <1>1, <1>4 DEF SetMode
  <1>5. CASE Expire
    BY <1>1, <1>5 DEF Expire
  <1>6. CASE UNCHANGED vars
    BY <1>1, <1>6 DEF vars
  <1> QED BY <1>2, <1>3, <1>4, <1>5, <1>6 DEF Next

------------------------------------------------------------------------------
(* The schema. *)

(* How far a process is with the migrations, when those in "done" are      *)
(* applied.                                                                *)
Reached(k, done) ==
  /\ k.pc \in {"migrate", "record"} =>
       k.at \in 1..(NumFiles + 1) /\ \A g \in Files : g < k.at => g \in done
  /\ k.pc = "migrate" => k.seen \subseteq done
  /\ k.pc = "record" => k.at \in Files /\ k.seen \subseteq done
  /\ k.pc \in LaterSteps => Files \subseteq done

SchemaInv ==
  /\ tables = applied
  /\ applied \subseteq Files
  /\ \A f \in applied, g \in Files : g < f => g \in applied
  /\ \A p \in Procs : Reached(proc[p], applied)

(* A step that applies no migration, and one that moves no process.        *)
LEMMA SchemaStays ==
  ASSUME SchemaInv, proc \in [Procs -> ProcessRow],
         tables' = tables, applied' = applied,
         NEW p \in Procs, NEW h, proc' = [proc EXCEPT ![p] = h], Reached(h, applied)
  PROVE  SchemaInv'
  <1>1. ASSUME NEW q \in Procs PROVE Reached(proc'[q], applied)
    BY <1>1 DEF SchemaInv
  <1> QED BY <1>1 DEF SchemaInv

(* Nothing has to be known of a process that does not migrate and has not. *)
LEMMA NotMigrating ==
  ASSUME NEW h, h.pc \notin MigrateSteps \cup LaterSteps \/ h.pc = "read", NEW done
  PROVE  Reached(h, done)
  BY DEF Reached, MigrateSteps, LaterSteps

(* Every step keeps the schema what the processes reached of it. *)
LEMMA SchemaNext ==
  ASSUME SecretsInv, SchemaInv, [Next]_vars
  PROVE  SchemaInv'
  <1>0. /\ proc \in [Procs -> ProcessRow]
        /\ \A p \in Procs : proc[p] \in ProcessRow /\ Reached(proc[p], applied)
    BY DEF SecretsInv, SchemaInv
  <1>1. ASSUME tables' = tables, applied' = applied, proc' = proc PROVE SchemaInv'
    BY <1>1 DEF SchemaInv
  <1>2. ASSUME NEW p \in Procs, Command(p) PROVE SchemaInv'
    <2> DEFINE Moves(s) == [proc[p] EXCEPT !.pc = s]
    <2>0. \A s : Moves(s).pc = s /\ Moves(s).seen = proc[p].seen /\ Moves(s).at = proc[p].at
      BY <1>0 DEF ProcessRow
    <2> HIDE DEF Moves
    <2>1. ASSUME tables' = tables, applied' = applied, End(p) PROVE SchemaInv'
      <3>1. Reached(Off, applied)
        BY NotMigrating DEF Off, MigrateSteps, LaterSteps
      <3> QED BY <1>0, <2>1, <3>1, SchemaStays DEF End
    <2>2. ASSUME tables' = tables, applied' = applied, NEW s, Goto(p, s), Reached(Moves(s), applied)
          PROVE  SchemaInv'
      BY <1>0, <2>2, SchemaStays DEF Goto, Moves
    <2>3. ASSUME tables' = tables, applied' = applied, NEW h \in ProcessRow,
                 proc' = [proc EXCEPT ![p] = h], h.pc \in {"posting", "save", "read"}
          PROVE  SchemaInv'
      BY <1>0, <2>3, SchemaStays, NotMigrating DEF MigrateSteps, LaterSteps
    <2>4. ASSUME NEW command \in Commands, Run(p, command) PROVE SchemaInv'
      <3> DEFINE h == [Off EXCEPT !.command = command, !.pc = "stat"]
      <3>1. h.pc = "stat"
        BY DEF Off
      <3>2. Reached(h, applied)
        BY <3>1, NotMigrating DEF MigrateSteps, LaterSteps
      <3> HIDE DEF h
      <3>3. proc' = [proc EXCEPT ![p] = h] /\ tables' = tables /\ applied' = applied
        BY <2>4 DEF Run, h, database
      <3> QED BY <1>0, <3>2, <3>3, SchemaStays
    <2>5. CASE Kill(p)
      BY <2>5, <2>1 DEF Kill
    <2>6. CASE Stat(p)
      <3>1. tables' = tables /\ applied' = applied
        BY <2>6 DEF Stat, database
      <3>2. Reached(Moves("load"), applied)
        BY <2>0, NotMigrating DEF MigrateSteps, LaterSteps
      <3>3. CASE proc' = [proc EXCEPT ![p].pc = "link", ![p].cfg = Generated(p)]
        <4> DEFINE h == [proc[p] EXCEPT !.pc = "link", !.cfg = Generated(p)]
        <4>1. h.pc = "link"
          BY <1>0 DEF ProcessRow
        <4>2. Reached(h, applied)
          BY <4>1, NotMigrating DEF MigrateSteps, LaterSteps
        <4>3. proc' = [proc EXCEPT ![p] = h]
          BY <3>3
        <4> QED BY <1>0, <3>1, <4>2, <4>3, SchemaStays
      <3> QED BY <2>6, <3>1, <3>2, <3>3, <2>2 DEF Stat
    <2>7. CASE Load(p)
      <3>1. config \in Configs /\ Holding(p, config) /\ tables' = tables /\ applied' = applied
        BY <2>7 DEF Load, database, SecretsInv, Agrees
      <3> QED BY <1>0, <3>1, <2>3, HoldingGives
    <2>8. CASE Link(p)
      <3>1. proc[p].cfg \in Configs /\ tables' = tables /\ applied' = applied
        BY <2>8, <1>0 DEF Link, database, SecretsInv, Agrees, ProcessRow
      <3>2. CASE Holding(p, proc[p].cfg)
        BY <1>0, <3>1, <3>2, <2>3, HoldingGives
      <3>3. CASE proc' = [proc EXCEPT ![p].pc = "load", ![p].cfg = None]
        <4> DEFINE h == [proc[p] EXCEPT !.pc = "load", !.cfg = None]
        <4>1. h.pc = "load"
          BY <1>0 DEF ProcessRow
        <4>2. Reached(h, applied)
          BY <4>1, NotMigrating DEF MigrateSteps, LaterSteps
        <4>3. proc' = [proc EXCEPT ![p] = h]
          BY <3>3
        <4> QED BY <1>0, <3>1, <4>2, <4>3, SchemaStays
      <3> QED BY <2>8, <3>2, <3>3 DEF Link
    <2>9. CASE Posted(p)
      BY <2>9, <2>1 DEF Posted, database
    <2>10. CASE Save(p)
      <3>1. Reached(Moves("read"), applied)
        BY <2>0, NotMigrating
      <3> QED BY <2>10, <2>1, <2>2, <3>1 DEF Save, database
    <2>11. CASE Read(p)
      <3> DEFINE h == [proc[p] EXCEPT !.pc = "migrate", !.seen = applied, !.at = 1]
      <3>1. h.pc = "migrate" /\ h.seen = applied /\ h.at = 1
        BY <1>0 DEF ProcessRow
      <3>2. Reached(h, applied)
        BY <3>1, FilesAssumption DEF Reached, LaterSteps, Files
      <3>3. proc' = [proc EXCEPT ![p] = h] /\ tables' = tables /\ applied' = applied
        BY <2>11 DEF Read, database
      <3> QED BY <1>0, <3>2, <3>3, SchemaStays
    <2>12. CASE Skip(p)
      <3> DEFINE h == [proc[p] EXCEPT !.at = proc[p].at + 1]
      <3>1. /\ proc[p].pc = "migrate" /\ proc[p].at \in Files /\ proc[p].at \in applied
            /\ \A g \in Files : g < proc[p].at => g \in applied
        BY <2>12, <1>0 DEF Skip, Reached
      <3>2. h.pc = "migrate" /\ h.seen = proc[p].seen /\ h.at = proc[p].at + 1
        BY <1>0, <3>1 DEF ProcessRow
      <3>3. Reached(h, applied)
        BY <1>0, <3>1, <3>2, FilesAssumption DEF Reached, LaterSteps, Files
      <3>4. proc' = [proc EXCEPT ![p] = h] /\ tables' = tables /\ applied' = applied
        BY <2>12 DEF Skip, database
      <3> QED BY <1>0, <3>3, <3>4, SchemaStays
    <2>13. CASE Execute(p)
      <3>1. Reached(Moves("record"), applied)
        BY <2>13, <2>0, <1>0 DEF Execute, Reached, LaterSteps
      <3> QED BY <2>13, <2>1, <2>2, <3>1 DEF Execute
    <2>14. CASE Record(p)
      <3> DEFINE h == [proc[p] EXCEPT !.pc = "migrate", !.at = proc[p].at + 1]
                 f == proc[p].at
      <3>1. /\ f \in Files /\ proc[p].seen \subseteq applied
            /\ \A g \in Files : g < f => g \in applied
        BY <2>14, <1>0 DEF Record, Reached
      <3>2. applied' = applied \cup {f} /\ tables' = applied'
        BY <2>14 DEF Record, SchemaInv
      <3>3. h.pc = "migrate" /\ h.seen = proc[p].seen /\ h.at = f + 1
        BY <1>0 DEF ProcessRow
      <3>4. Reached(h, applied')
        BY <3>1, <3>2, <3>3, FilesAssumption DEF Reached, LaterSteps, Files
      <3>5. proc' = [proc EXCEPT ![p] = h]
        BY <2>14 DEF Record
      <3>6. ASSUME NEW q \in Procs PROVE Reached(proc'[q], applied')
        <4>1. CASE q = p
          BY <4>1, <3>4, <3>5, <1>0
        <4>2. CASE q # p
          <5>1. proc'[q] = proc[q] /\ Reached(proc[q], applied)
            BY <4>2, <3>5, <1>0
          <5> QED BY <5>1, <3>2 DEF Reached
        <4> QED BY <4>1, <4>2
      <3>7. applied' \subseteq Files
        BY <3>1, <3>2 DEF SchemaInv
      <3>8. ASSUME NEW e \in applied', NEW g \in Files, g < e PROVE g \in applied'
        BY <3>8, <3>1, <3>2 DEF SchemaInv
      <3> QED BY <3>2, <3>6, <3>7, <3>8 DEF SchemaInv
    <2>15. CASE Migrated(p)
      <3>1. Files \subseteq applied /\ tables' = tables /\ applied' = applied
        BY <2>15, <1>0, FilesAssumption DEF Migrated, Reached, Files, database
      <3>2. ASSUME NEW s \in {"mode", "wipe"},
                   proc' = [proc EXCEPT ![p].pc = s, ![p].seen = {}, ![p].at = 0]
            PROVE  SchemaInv'
        <4> DEFINE h == [proc[p] EXCEPT !.pc = s, !.seen = {}, !.at = 0]
        <4>1. h.pc = s
          BY <1>0 DEF ProcessRow
        <4>2. Reached(h, applied)
          BY <4>1, <3>1 DEF Reached
        <4>3. proc' = [proc EXCEPT ![p] = h]
          BY <3>2
        <4> QED BY <1>0, <3>1, <4>2, <4>3, SchemaStays
      <3> QED BY <2>15, <3>1, <3>2, <2>1 DEF Migrated
    <2>16. ASSUME proc[p].pc \in LaterSteps, NEW s \in LaterSteps PROVE Reached(Moves(s), applied)
      <3>1. Files \subseteq applied
        BY <2>16, <1>0 DEF Reached
      <3> QED BY <3>1, <2>0, <2>16 DEF Reached, LaterSteps
    <2>17. CASE RecordMode(p)
      BY <2>17, <2>1 DEF RecordMode, schema
    <2>18. CASE Wipe(p)
      BY <2>18, <2>2, <2>16 DEF Wipe, schema, LaterSteps
    <2>19. CASE Issue(p)
      <3>1. ASSUME proc' = [proc EXCEPT ![p].pc = "source", ![p].token = Len(tokens) + 1]
            PROVE  SchemaInv'
        <4> DEFINE h == [proc[p] EXCEPT !.pc = "source", !.token = Len(tokens) + 1]
        <4>1. h.pc = "source" /\ Files \subseteq applied
          BY <2>19, <1>0 DEF ProcessRow, Issue, Reached, LaterSteps
        <4>2. Reached(h, applied)
          BY <4>1 DEF Reached
        <4>3. proc' = [proc EXCEPT ![p] = h] /\ tables' = tables /\ applied' = applied
          BY <2>19, <3>1 DEF Issue, schema
        <4> QED BY <1>0, <4>2, <4>3, SchemaStays
      <3> QED BY <2>19, <2>1, <3>1 DEF Issue, schema
    <2>20. CASE EnsureSource(p)
      BY <2>20, <2>2, <2>16 DEF EnsureSource, schema, LaterSteps
    <2>21. CASE Listen(p)
      BY <2>21, <2>1, <2>2, <2>16 DEF Listen, schema, LaterSteps
    <2> QED BY <1>2, <2>4, <2>5, <2>6, <2>7, <2>8, <2>9, <2>10, <2>11, <2>12, <2>13, <2>14,
              <2>15, <2>17, <2>18, <2>19, <2>20, <2>21 DEF Command
  <1>3. ASSUME NEW r \in Requests, Request(r) PROVE SchemaInv'
    <2>1. tables' = tables /\ applied' = applied /\ proc' = proc
      BY <1>3 DEF Request, Exchange, CreateSession, Select, Update, Fails, Undo, Logout, database, schema
    <2> QED BY <1>1, <2>1
  <1>4. CASE \E m \in Modes : SetMode(m)
    BY <1>1, <1>4 DEF SetMode, schema
  <1>5. CASE Expire
    BY <1>1, <1>5 DEF Expire, schema
  <1>6. CASE UNCHANGED vars
    BY <1>1, <1>6 DEF vars
  <1> QED BY <1>2, <1>3, <1>4, <1>5, <1>6 DEF Next
------------------------------------------------------------------------------
(* Sign-ins. *)

Token == [wipe : Nat, printed : BOOLEAN]
RequestRow == [pc : RequestStates, token : Nat]
Ids == [kind : {"signin", "session"}, of : Nat \cup Requests]
SessionRow == [id : Ids, used : BOOLEAN, expired : BOOLEAN]

SignInTypes ==
  /\ req \in [Requests -> RequestRow]
  /\ rows \subseteq SessionRow
  /\ tokens \in Seq(Token)
  /\ wipes \in Nat

(* A sign-in row is of a token issued since the last rotation. *)
RowsAreCurrent ==
  \A row \in rows : \A n \in Nat :
    row.id = SignIn(n) => n \in DOMAIN tokens /\ tokens[n].wipe = wipes

(* A request that was answered used its token up. *)
Answered == {"in", "out"}

TokensAreUsedUp ==
  \A r \in Requests :
    /\ req[r].pc \notin {"idle", "refused"} => req[r].token \in DOMAIN tokens
    /\ req[r].pc \in Answered =>
         \A row \in rows : row.id = SignIn(req[r].token) => row.used

(* A session has no row any more once the tokens were rotated. *)
SessionsAreCurrent ==
  \A r \in Requests : req[r].pc = "in" =>
    \A row \in rows : row.id = Session(r) => tokens[req[r].token].wipe = wipes

SignInInv ==
  SignInTypes /\ RowsAreCurrent /\ TokensAreUsedUp /\ SessionsAreCurrent /\ SignsInOnce

(* Identifiers of tokens and of sessions differ, and name what they are    *)
(* of.                                                                     *)
LEMMA IdShapes ==
  /\ \A n \in Nat : SignIn(n) \in Ids
  /\ \A r \in Requests : Session(r) \in Ids
  /\ \A n \in Nat, m \in Nat : SignIn(n) = SignIn(m) => n = m
  /\ \A n \in Nat, r \in Requests : SignIn(n) # Session(r)
  /\ \A r \in Requests, q \in Requests : Session(r) = Session(q) => r = q
  BY DEF SignIn, Session, Ids

(* A fresh row has the shape of one. *)
LEMMA RowShape ==
  ASSUME NEW id \in Ids
  PROVE  Row(id) \in SessionRow /\ Row(id).id = id /\ ~Row(id).used
  BY DEF Row, SessionRow

(* Printing a token changes no generation. *)
LEMMA PrintedTokens ==
  ASSUME NEW ts \in Seq(Token), NEW k
  PROVE  LET ps == [ts EXCEPT ![k].printed = TRUE]
         IN /\ ps \in Seq(Token)
            /\ DOMAIN ps = DOMAIN ts
            /\ \A n \in DOMAIN ts : ps[n].wipe = ts[n].wipe
  <1> DEFINE ps == [ts EXCEPT ![k].printed = TRUE]
  <1>1. ts \in [1..Len(ts) -> Token] /\ Len(ts) \in Nat /\ DOMAIN ts = 1..Len(ts)
    OBVIOUS
  <1>2. \A t \in Token : [t EXCEPT !.printed = TRUE] \in Token /\ [t EXCEPT !.printed = TRUE].wipe = t.wipe
    BY DEF Token
  <1>3. \A n \in 1..Len(ts) : ps[n] \in Token /\ ps[n].wipe = ts[n].wipe
    <2>1. ASSUME NEW n \in 1..Len(ts) PROVE ps[n] \in Token /\ ps[n].wipe = ts[n].wipe
      <3>1. ps[n] = IF n = k THEN [ts[n] EXCEPT !.printed = TRUE] ELSE ts[n]
        BY <1>1
      <3> QED BY <1>1, <1>2, <3>1
    <2> QED BY <2>1
  <1>4. DOMAIN ps = 1..Len(ts)
    BY <1>1
  <1>5. ps \in [1..Len(ts) -> Token]
    BY <1>3, <1>4
  <1> QED BY <1>1, <1>3, <1>4, <1>5

(* A step that issues and rotates nothing: requests stay, and rows go, are *)
(* used, or expire.                                                        *)
LEMMA RowsShrink ==
  ASSUME SignInInv, req' = req, wipes' = wipes, tokens' \in Seq(Token),
         DOMAIN tokens' = DOMAIN tokens,
         \A n \in DOMAIN tokens : tokens'[n].wipe = tokens[n].wipe,
         rows' \subseteq SessionRow,
         \A t \in rows' : \E row \in rows : t.id = row.id /\ (row.used => t.used)
  PROVE  SignInInv'
  <1>1. SignInTypes'
    BY DEF SignInInv, SignInTypes
  <1>2. RowsAreCurrent'
    BY DEF SignInInv, RowsAreCurrent
  <1>3. TokensAreUsedUp'
    BY DEF SignInInv, TokensAreUsedUp
  <1>4. SessionsAreCurrent'
    BY DEF SignInInv, SessionsAreCurrent, TokensAreUsedUp
  <1>5. SignsInOnce'
    BY DEF SignInInv, SignsInOnce
  <1> QED BY <1>1, <1>2, <1>3, <1>4, <1>5 DEF SignInInv

(* A request that goes on without being answered. *)
LEMMA RequestMoves ==
  ASSUME SignInInv, wipes' = wipes, tokens' = tokens,
         rows' \subseteq SessionRow,
         NEW r \in Requests, NEW q \in RequestRow, req' = [req EXCEPT ![r] = q],
         q.pc \notin {"in", "out"} \/ (q.pc = "out" /\ req[r].pc = "in" /\ q.token = req[r].token),
         q.pc \notin {"idle", "refused"} => q.token \in DOMAIN tokens,
         \A t \in rows' : t \in rows \/ t.id = Session(r)
  PROVE  SignInInv'
  <1>0. /\ req \in [Requests -> RequestRow]
        /\ \A s \in Requests : req'[s] = IF s = r THEN q ELSE req[s]
    BY DEF SignInInv, SignInTypes
  <1>00. \A s \in Requests : req[s].pc \in Answered => req[s].token \in DOMAIN tokens /\ req[s].token \in Nat
    BY <1>0 DEF SignInInv, SignInTypes, TokensAreUsedUp, Answered, RequestRow
  <1>1. SignInTypes'
    BY <1>0 DEF SignInInv, SignInTypes
  <1>2. RowsAreCurrent'
    BY IdShapes DEF SignInInv, RowsAreCurrent
  <1>3. ASSUME NEW s \in Requests
        PROVE  /\ req'[s].pc \notin {"idle", "refused"} => req'[s].token \in DOMAIN tokens
               /\ req'[s].pc \in Answered =>
                    \A row \in rows' : row.id = SignIn(req'[s].token) => row.used
    <2>1. CASE s = r
      BY <2>1, <1>0, <1>00, IdShapes DEF SignInInv, TokensAreUsedUp, Answered
    <2>2. CASE s # r
      BY <2>2, <1>0, <1>00, IdShapes DEF SignInInv, TokensAreUsedUp, Answered
    <2> QED BY <2>1, <2>2
  <1>4. ASSUME NEW s \in Requests, req'[s].pc = "in", NEW row \in rows', row.id = Session(s)
        PROVE  tokens[req'[s].token].wipe = wipes
    <2>1. s # r /\ req'[s] = req[s]
      BY <1>4, <1>0
    <2>2. row \in rows
      BY <1>4, <2>1, IdShapes
    <2> QED BY <1>4, <2>1, <2>2 DEF SignInInv, SessionsAreCurrent
  <1>5. SignsInOnce'
    <2>1. ASSUME NEW s \in Requests, req'[s].pc \in Answered
          PROVE  req[s].pc \in Answered /\ req'[s].token = req[s].token
      BY <2>1, <1>0 DEF Answered
    <2> QED BY <2>1 DEF SignInInv, SignsInOnce, Answered
  <1>6. TokensAreUsedUp'
    BY <1>3 DEF TokensAreUsedUp
  <1>7. SessionsAreCurrent'
    BY <1>4 DEF SessionsAreCurrent
  <1> QED BY <1>1, <1>2, <1>5, <1>6, <1>7 DEF SignInInv
(* A request with no answer, or none yet, has the shape of one. *)
LEMMA RequestShape ==
  ASSUME NEW q \in RequestRow, NEW s \in RequestStates
  PROVE  [q EXCEPT !.pc = s] \in RequestRow /\ [q EXCEPT !.pc = s].pc = s /\ [q EXCEPT !.pc = s].token = q.token
  BY DEF RequestRow

(* The names of the requests' states. *)
LEMMA RequestNames ==
  /\ {"select", "update", "undo", "in", "out", "create", "refused"} \subseteq RequestStates
  /\ NoAnswer \in RequestRow /\ NoAnswer.pc = "refused"
  BY DEF RequestStates, InFlight, NoAnswer, RequestRow

(* Every step keeps rows, tokens and requests in agreement. *)
LEMMA SignInNext ==
  ASSUME SignInInv, [Next]_vars
  PROVE  SignInInv'
  <1>0. /\ req \in [Requests -> RequestRow] /\ rows \subseteq SessionRow
        /\ tokens \in Seq(Token) /\ wipes \in Nat
        /\ \A r \in Requests : req[r] \in RequestRow
        /\ \A r \in Requests : req[r].pc \notin {"idle", "refused"} => req[r].token \in DOMAIN tokens
    BY DEF SignInInv, SignInTypes, TokensAreUsedUp
  <1>1. ASSUME req' = req, rows' = rows, tokens' = tokens, wipes' = wipes PROVE SignInInv'
    BY <1>1, RowsShrink, <1>0
  <1>2. ASSUME NEW p \in Procs, Command(p) PROVE SignInInv'
    <2>1. ASSUME Wipe(p) PROVE SignInInv'
      <3>1. req' = req /\ rows' = {} /\ tokens' = tokens /\ wipes' = wipes + 1
        BY <2>1 DEF Wipe
      <3>2. SignInTypes'
        BY <3>1, <1>0 DEF SignInTypes
      <3> QED BY <3>1, <3>2 DEF SignInInv, RowsAreCurrent, TokensAreUsedUp, SessionsAreCurrent, SignsInOnce
    <2>2. ASSUME Issue(p) PROVE SignInInv'
      <3> DEFINE n == Len(tokens) + 1
                 t == [wipe |-> wipes, printed |-> proc[p].command = "rotate"]
      <3>1. req' = req /\ rows' = rows \cup {Row(SignIn(n))} /\ tokens' = Append(tokens, t) /\ wipes' = wipes
        BY <2>2 DEF Issue
      <3>2. t \in Token /\ n \in Nat /\ DOMAIN tokens = 1..(n - 1)
        BY <1>0 DEF Token
      <3>3. /\ tokens' \in Seq(Token) /\ DOMAIN tokens' = 1..n
            /\ \A m \in DOMAIN tokens : tokens'[m] = tokens[m]
            /\ tokens'[n] = t
        BY <1>0, <3>1, <3>2
      <3>4. /\ Row(SignIn(n)) \in SessionRow /\ Row(SignIn(n)).id = SignIn(n)
            /\ n \notin DOMAIN tokens /\ \A m \in DOMAIN tokens : m \in DOMAIN tokens' /\ m \in Nat
        BY <3>2, <3>3, IdShapes, RowShape
      <3> HIDE DEF n, t
      <3>5. SignInTypes'
        BY <1>0, <3>1, <3>3, <3>4 DEF SignInTypes
      <3>6. RowsAreCurrent'
        <4>1. ASSUME NEW row \in rows', NEW m \in Nat, row.id = SignIn(m)
              PROVE  m \in DOMAIN tokens' /\ tokens'[m].wipe = wipes
          <5>1. CASE row \in rows
            BY <4>1, <5>1, <3>3, <3>4 DEF SignInInv, RowsAreCurrent
          <5>2. CASE row = Row(SignIn(n))
            <6>1. m = n
              BY <4>1, <5>2, <3>2, <3>4, IdShapes
            <6> QED BY <6>1, <3>2, <3>3 DEF t, n
          <5> QED BY <4>1, <5>1, <5>2, <3>1
        <4> QED BY <4>1, <3>1 DEF RowsAreCurrent
      <3>7. TokensAreUsedUp'
        <4>1. ASSUME NEW r \in Requests, req[r].pc \in Answered, NEW row \in rows',
                     row.id = SignIn(req[r].token)
              PROVE  row.used
          <5>1. req[r].token \in DOMAIN tokens /\ req[r].token \in Nat
            BY <4>1, <1>0, <3>4 DEF Answered
          <5>2. row # Row(SignIn(n))
            BY <4>1, <5>1, <3>2, <3>4, IdShapes
          <5> QED BY <4>1, <5>2, <3>1 DEF SignInInv, TokensAreUsedUp
        <4> QED BY <4>1, <3>1, <3>4, <1>0 DEF TokensAreUsedUp
      <3>8. SessionsAreCurrent'
        <4>1. ASSUME NEW r \in Requests, req[r].pc = "in", NEW row \in rows', row.id = Session(r)
              PROVE  tokens'[req[r].token].wipe = wipes
          <5>1. row \in rows
            BY <4>1, <3>1, <3>2, <3>4, IdShapes
          <5>2. req[r].token \in DOMAIN tokens
            BY <4>1, <1>0
          <5> QED BY <4>1, <5>1, <5>2, <3>3 DEF SignInInv, SessionsAreCurrent
        <4> QED BY <4>1, <3>1 DEF SessionsAreCurrent
      <3>9. SignsInOnce'
        BY <3>1 DEF SignInInv, SignsInOnce
      <3> QED BY <3>5, <3>6, <3>7, <3>8, <3>9 DEF SignInInv
    <2>3. ASSUME Kill(p) PROVE SignInInv'
      <3>1. rows' = rows /\ tokens' = tokens /\ wipes' = wipes
        BY <2>3 DEF Kill, sessions
      <3>2. \A r \in Requests : req'[r] = req[r] \/ req'[r] = NoAnswer
        BY <2>3, <1>0 DEF Kill
      <3>3. req' \in [Requests -> RequestRow]
        BY <2>3, <1>0, RequestNames DEF Kill
      <3>4. SignInTypes' /\ RowsAreCurrent'
        BY <3>1, <3>3 DEF SignInInv, SignInTypes, RowsAreCurrent
      <3>5. TokensAreUsedUp'
        BY <3>1, <3>2, RequestNames DEF SignInInv, TokensAreUsedUp, Answered
      <3>6. SessionsAreCurrent'
        BY <3>1, <3>2, RequestNames DEF SignInInv, SessionsAreCurrent
      <3>7. SignsInOnce'
        BY <3>1, <3>2, RequestNames DEF SignInInv, SignsInOnce
      <3> QED BY <3>4, <3>5, <3>6, <3>7 DEF SignInInv
    <2>4. ASSUME Listen(p) PROVE SignInInv'
      <3>1. req' = req /\ rows' = rows /\ wipes' = wipes
        BY <2>4 DEF Listen
      <3>2. CASE tokens' = tokens
        BY <3>1, <3>2, <1>1
      <3>3. CASE tokens' = [tokens EXCEPT ![proc[p].token].printed = TRUE]
        BY <3>1, <3>3, <1>0, RowsShrink, PrintedTokens
      <3> QED BY <2>4, <3>2, <3>3 DEF Listen
    <2>5. ASSUME \/ \E command \in Commands : Run(p, command)
                 \/ Stat(p) \/ Load(p) \/ Link(p) \/ Posted(p) \/ Save(p)
                 \/ Read(p) \/ Skip(p) \/ Execute(p) \/ Record(p) \/ Migrated(p)
                 \/ RecordMode(p) \/ EnsureSource(p)
          PROVE  SignInInv'
      <3>1. req' = req /\ rows' = rows /\ tokens' = tokens /\ wipes' = wipes
        BY <2>5 DEF Run, Stat, Load, Link, Posted, Save, Read, Skip, Execute, Record, Migrated,
                    RecordMode, EnsureSource, database, sessions
      <3> QED BY <3>1, <1>1
    <2> QED BY <1>2, <2>1, <2>2, <2>3, <2>4, <2>5 DEF Command
  <1>3. ASSUME NEW r \in Requests, Request(r) PROVE SignInInv'
    <2> DEFINE Moves(s) == [req[r] EXCEPT !.pc = s]
    <2>0. /\ \A s \in RequestStates : Moves(s) \in RequestRow /\ Moves(s).pc = s
                                       /\ Moves(s).token = req[r].token
          /\ \A s : Advance(r, s) => req' = [req EXCEPT ![r] = Moves(s)]
      BY <1>0, RequestShape DEF Advance
    <2> HIDE DEF Moves
    <2>1. ASSUME rows' = rows, tokens' = tokens, wipes' = wipes,
                 \/ Refused(r)
                 \/ \E s \in {"select", "update", "undo"} :
                      Advance(r, s) /\ req[r].pc \notin {"idle", "refused"}
          PROVE  SignInInv'
      <3>1. CASE Refused(r)
        BY <2>1, <3>1, <1>0, RequestMoves, RequestNames DEF Refused
      <3>2. ASSUME NEW s \in {"select", "update", "undo"}, Advance(r, s), req[r].pc \notin {"idle", "refused"}
            PROVE  SignInInv'
        <4>1. s \in RequestStates
          BY RequestNames
        <4> QED BY <2>0, <2>1, <3>2, <4>1, <1>0, RequestMoves
      <3> QED BY <2>1, <3>1, <3>2
    <2>2. CASE Exchange(r)
      <3>1. PICK n \in DOMAIN tokens : req' = [req EXCEPT ![r] = [pc |-> "create", token |-> n]]
        BY <2>2 DEF Exchange
      <3>2. rows' = rows /\ tokens' = tokens /\ wipes' = wipes
        BY <2>2 DEF Exchange, database, sessions
      <3>3. n \in Nat
        BY <1>0
      <3>4. [pc |-> "create", token |-> n] \in RequestRow
        BY <3>3, RequestNames DEF RequestRow
      <3> QED BY <3>1, <3>2, <3>4, <1>0, RequestMoves
    <2>3. CASE CreateSession(r)
      <3>1. /\ req' = [req EXCEPT ![r] = Moves("select")] /\ req[r].pc = "create"
            /\ rows' = rows \cup {Row(Session(r))} /\ tokens' = tokens /\ wipes' = wipes
        BY <2>3, <2>0 DEF CreateSession
      <3>2. Row(Session(r)) \in SessionRow /\ Row(Session(r)).id = Session(r)
        BY IdShapes, RowShape
      <3> QED BY <3>1, <3>2, <1>0, <2>0, RequestNames, RequestMoves
    <2>4. CASE Select(r)
      BY <2>4, <2>1 DEF Select, database, sessions
    <2>5. CASE Update(r)
      <3> DEFINE unused == {t \in RowOf(SignIn(req[r].token)) : ~t.used}
                 marked == {[t EXCEPT !.used = TRUE] : t \in unused}
      <3>1. /\ req[r].pc = "update" /\ tokens' = tokens /\ wipes' = wipes
            /\ rows' = (rows \ unused) \cup marked
            /\ Advance(r, IF unused = {} THEN "undo" ELSE "in")
        BY <2>5 DEF Update
      <3>2. req[r].token \in DOMAIN tokens /\ req[r].token \in Nat
        BY <3>1, <1>0
      <3>3. unused \subseteq rows /\ \A t \in unused : t \in SessionRow /\ t.id = SignIn(req[r].token) /\ ~t.used
        BY <1>0 DEF RowOf
      <3>4. \A t \in SessionRow : /\ [t EXCEPT !.used = TRUE] \in SessionRow
                                  /\ [t EXCEPT !.used = TRUE].id = t.id
                                  /\ [t EXCEPT !.used = TRUE].used
        BY DEF SessionRow
      <3>5. CASE unused = {}
        <4>1. rows' = rows
          BY <3>1, <3>5
        <4> QED BY <3>1, <3>5, <4>1, <2>1
      <3>6. CASE unused # {}
        <4>1. /\ req' = [req EXCEPT ![r] = Moves("in")]
              /\ \A q \in Requests : req'[q] = IF q = r THEN Moves("in") ELSE req[q]
              /\ Moves("in").pc = "in" /\ Moves("in").token = req[r].token /\ Moves("in") \in RequestRow
          BY <3>1, <3>6, <2>0, <1>0, RequestNames
        <4>2. rows' \subseteq SessionRow
          BY <3>1, <3>3, <3>4, <1>0
        <4>3. \A t \in rows' : \E row \in rows : t.id = row.id /\ (row.used => t.used)
          BY <3>1, <3>3, <3>4
        <4>4. \A t \in rows' : t.id = SignIn(req[r].token) => t.used
          <5>1. ASSUME NEW t \in rows, t \notin unused, t.id = SignIn(req[r].token) PROVE t.used
            BY <5>1 DEF RowOf
          <5> QED BY <5>1, <3>1, <3>3, <3>4
        <4>5. PICK old \in unused : TRUE
          BY <3>6
        <4>6. tokens[req[r].token].wipe = wipes
          BY <4>5, <3>2, <3>3 DEF SignInInv, RowsAreCurrent
        <4> HIDE DEF unused, marked
        <4>7. SignInTypes'
          BY <4>1, <4>2, <3>1, <1>0 DEF SignInTypes
        <4>8. RowsAreCurrent'
          BY <4>3, <3>1 DEF SignInInv, RowsAreCurrent
        <4>9. TokensAreUsedUp'
          <5>1. ASSUME NEW q \in Requests, q # r PROVE req'[q] = req[q]
            BY <5>1, <4>1
          <5>2. req'[r].pc = "in" /\ req'[r].token = req[r].token
            BY <4>1
          <5>3. \A q \in Requests : req'[q].pc \notin {"idle", "refused"} => req'[q].token \in DOMAIN tokens'
            BY <5>1, <5>2, <3>1, <3>2, <1>0
          <5>4. ASSUME NEW q \in Requests, req'[q].pc \in Answered, NEW t \in rows',
                       t.id = SignIn(req'[q].token)
                PROVE  t.used
            <6>1. CASE q = r
              BY <5>4, <6>1, <5>2, <4>4
            <6>2. CASE q # r
              BY <5>4, <6>2, <5>1, <4>3 DEF SignInInv, TokensAreUsedUp
            <6> QED BY <6>1, <6>2
          <5> QED BY <5>3, <5>4 DEF TokensAreUsedUp
        <4>10. SessionsAreCurrent'
          <5>1. ASSUME NEW q \in Requests, req'[q].pc = "in", NEW t \in rows', t.id = Session(q)
                PROVE  tokens[req'[q].token].wipe = wipes
            <6>1. CASE q = r
              BY <6>1, <4>1, <4>6
            <6>2. CASE q # r
              BY <5>1, <6>2, <4>1, <4>3 DEF SignInInv, SessionsAreCurrent
            <6> QED BY <6>1, <6>2
          <5> QED BY <5>1, <3>1 DEF SessionsAreCurrent
        <4>11. SignsInOnce'
          <5>1. ASSUME NEW q \in Requests, q # r, req[q].pc \in Answered
                PROVE  req[q].token # req[r].token
            <6>1. old \in rows /\ old.id = SignIn(req[r].token) /\ ~old.used
              BY <4>5, <3>3
            <6> QED BY <5>1, <6>1 DEF SignInInv, TokensAreUsedUp
          <5>2. ASSUME NEW q \in Requests, NEW s \in Requests, q # s,
                       req'[q].pc \in Answered, req'[s].pc \in Answered
                PROVE  req'[q].token # req'[s].token
            <6>1. CASE q = r
              BY <5>1, <5>2, <6>1, <4>1
            <6>2. CASE s = r
              BY <5>1, <5>2, <6>2, <4>1
            <6>3. CASE q # r /\ s # r
              BY <5>2, <6>3, <4>1 DEF SignInInv, SignsInOnce, Answered
            <6> QED BY <6>1, <6>2, <6>3
          <5> QED BY <5>2 DEF SignsInOnce, Answered
        <4> QED BY <4>7, <4>8, <4>9, <4>10, <4>11 DEF SignInInv
      <3> QED BY <3>5, <3>6
    <2>6. CASE Fails(r)
      BY <2>6, <2>1 DEF Fails, database, sessions
    <2>7. CASE Undo(r)
      <3>1. rows' \subseteq rows /\ tokens' = tokens /\ wipes' = wipes /\ req' = [req EXCEPT ![r] = NoAnswer]
        BY <2>7 DEF Undo, Refused
      <3>2. rows' \subseteq SessionRow /\ \A t \in rows' : t \in rows
        BY <3>1, <1>0
      <3> QED BY <3>1, <3>2, <1>0, RequestNames, RequestMoves
    <2>8. CASE Logout(r)
      <3>1. /\ rows' \subseteq rows /\ tokens' = tokens /\ wipes' = wipes
            /\ req[r].pc = "in" /\ req' = [req EXCEPT ![r] = Moves("out")]
        BY <2>8, <2>0 DEF Logout
      <3>2. rows' \subseteq SessionRow /\ \A t \in rows' : t \in rows
        BY <3>1, <1>0
      <3> QED BY <3>1, <3>2, <1>0, <2>0, RequestNames, RequestMoves
    <2> QED BY <1>3, <2>2, <2>3, <2>4, <2>5, <2>6, <2>7, <2>8 DEF Request
  <1>4. CASE \E m \in Modes : SetMode(m)
    BY <1>1, <1>4 DEF SetMode, sessions
  <1>5. CASE Expire
    <2>1. PICK row \in rows : rows' = (rows \ {row}) \cup {[row EXCEPT !.expired = TRUE]}
      BY <1>5 DEF Expire
    <2>2. /\ [row EXCEPT !.expired = TRUE] \in SessionRow
          /\ [row EXCEPT !.expired = TRUE].id = row.id
          /\ [row EXCEPT !.expired = TRUE].used = row.used
      BY <1>0 DEF SessionRow
    <2>3. rows' \subseteq SessionRow /\ \A t \in rows' : \E o \in rows : t.id = o.id /\ (o.used => t.used)
      BY <2>1, <2>2, <1>0
    <2>4. req' = req /\ tokens' = tokens /\ wipes' = wipes
      BY <1>5 DEF Expire
    <2> QED BY <2>3, <2>4, <1>0, RowsShrink
  <1>6. CASE UNCHANGED vars
    BY <1>1, <1>6 DEF vars
  <1> QED BY <1>2, <1>3, <1>4, <1>5, <1>6 DEF Next

------------------------------------------------------------------------------
(* Types: what a command may still do bounds the tables.                   *)

(* The processes that are at one of these places. *)
At(places) == {p \in Procs : proc[p].pc \in places}
BeforeWipe == Steps \ {"off", "issue", "source", "listen", "serving"}
BeforeIssue == Steps \ {"off", "source", "listen", "serving"}

(* A set whose members are counted against so many of the commands run. *)
Fits(set, done, all) == IsFiniteSet(set) /\ Cardinality(set) + done <= all

(* A command that was run has emptied the table once, or still may, or     *)
(* never will; and so for the token it issues.                             *)
CountInv ==
  /\ ran \in 0..MaxCommands
  /\ Fits(At(BeforeWipe), wipes, ran)
  /\ Fits(At(BeforeIssue), Len(tokens), ran)

(* A command more to count is a member more at most. *)
LEMMA OneMoreFits ==
  ASSUME NEW S, NEW T, NEW p, T \subseteq S \cup {p}, NEW d \in Nat, NEW a \in Nat, Fits(S, d, a)
  PROVE  Fits(T, d, a + 1)
  <1>1. /\ IsFiniteSet(S \cup {p}) /\ Cardinality(S) \in Nat
        /\ Cardinality(S \cup {p}) <= Cardinality(S) + 1
    BY FS_AddElement, FS_CardinalityType DEF Fits
  <1>2. IsFiniteSet(T) /\ Cardinality(T) <= Cardinality(S \cup {p}) /\ Cardinality(S \cup {p}) \in Nat
    BY <1>1, FS_Subset, FS_CardinalityType
  <1>3. Cardinality(T) \in Nat
    BY <1>2, FS_CardinalityType
  <1> QED BY <1>1, <1>2, <1>3 DEF Fits

(* A member that leaves makes room for what it did. *)
LEMMA LeavingFits ==
  ASSUME NEW S, NEW T, NEW p \in S, T \subseteq S \ {p}, NEW d \in Nat, NEW a \in Nat, Fits(S, d, a)
  PROVE  Fits(T, d + 1, a)
  <1>1. /\ IsFiniteSet(S \ {p}) /\ Cardinality(S) \in Nat
        /\ Cardinality(S \ {p}) = Cardinality(S) - 1
    BY FS_RemoveElement, FS_CardinalityType DEF Fits
  <1>2. IsFiniteSet(T) /\ Cardinality(T) <= Cardinality(S \ {p})
    BY <1>1, FS_Subset
  <1>3. Cardinality(T) \in Nat
    BY <1>2, FS_CardinalityType
  <1> QED BY <1>1, <1>2, <1>3 DEF Fits

(* Fewer members still fit. *)
LEMMA FewerFit ==
  ASSUME NEW S, NEW T, T \subseteq S, NEW d \in Nat, NEW a \in Nat, Fits(S, d, a)
  PROVE  Fits(T, d, a)
  <1>1. IsFiniteSet(T) /\ Cardinality(T) <= Cardinality(S) /\ Cardinality(S) \in Nat
    BY FS_Subset, FS_CardinalityType DEF Fits
  <1>2. Cardinality(T) \in Nat
    BY <1>1, FS_CardinalityType
  <1> QED BY <1>1, <1>2 DEF Fits

(* A step of a process that neither starts, empties nor issues. *)
LEMMA OthersStay ==
  ASSUME proc \in [Procs -> ProcessRow], [Next]_vars,
         \A p \in Procs : ~Wipe(p) /\ ~Issue(p) /\ \A command \in Commands : ~Run(p, command)
  PROVE  /\ ran' = ran /\ wipes' = wipes
         /\ \E k : tokens' = tokens \/ tokens' = [tokens EXCEPT ![k].printed = TRUE]
         /\ \A q \in Procs : /\ proc'[q].pc \in BeforeWipe => proc[q].pc \in BeforeWipe
                             /\ proc'[q].pc \in BeforeIssue => proc[q].pc \in BeforeIssue
  <1> DEFINE Stays ==
        /\ ran' = ran /\ wipes' = wipes
        /\ \E k : tokens' = tokens \/ tokens' = [tokens EXCEPT ![k].printed = TRUE]
        /\ \A q \in Procs : /\ proc'[q].pc \in BeforeWipe => proc[q].pc \in BeforeWipe
                            /\ proc'[q].pc \in BeforeIssue => proc[q].pc \in BeforeIssue
  <1>1. ASSUME ran' = ran, tokens' = tokens, wipes' = wipes, proc' = proc PROVE Stays
    BY <1>1
  <1>2. ASSUME NEW p \in Procs, NEW h, proc' = [proc EXCEPT ![p] = h],
               ran' = ran, wipes' = wipes,
               \E k : tokens' = tokens \/ tokens' = [tokens EXCEPT ![k].printed = TRUE],
               h.pc \in BeforeWipe => proc[p].pc \in BeforeWipe,
               h.pc \in BeforeIssue => proc[p].pc \in BeforeIssue
        PROVE  Stays
    <2>1. \A q \in Procs : proc'[q] = IF q = p THEN h ELSE proc[q]
      BY <1>2
    <2> QED BY <1>2, <2>1
  <1>3. /\ Off.pc \notin BeforeWipe \cup BeforeIssue
        /\ {"stat", "link", "load", "save", "posting", "read", "migrate", "record", "mode", "wipe"}
             \subseteq BeforeWipe \cap BeforeIssue
        /\ {"source", "listen", "serving"} \cap (BeforeWipe \cup BeforeIssue) = {}
    BY DEF Off, BeforeWipe, BeforeIssue, Steps, ConfigSteps, MigrateSteps, LaterSteps
  <1>4. \A p \in Procs : proc[p] \in ProcessRow
    OBVIOUS
  <1> HIDE DEF Stays
  <1>5. ASSUME NEW p \in Procs, End(p), ran' = ran, wipes' = wipes,
               \E k : tokens' = tokens \/ tokens' = [tokens EXCEPT ![k].printed = TRUE]
        PROVE  Stays
    BY <1>5, <1>2, <1>3 DEF End
  <1>6. ASSUME NEW p \in Procs, NEW h, proc' = [proc EXCEPT ![p] = h],
               ran' = ran, wipes' = wipes, tokens' = tokens,
               proc[p].pc \in BeforeWipe \cap BeforeIssue
        PROVE  Stays
    BY <1>6, <1>2
  <1>7. ASSUME NEW p \in Procs, Kill(p) PROVE Stays
    BY <1>7, <1>5 DEF Kill, sessions
  <1>8. ASSUME NEW p \in Procs, NEW c, Holding(p, c)
        PROVE  \E h : proc' = [proc EXCEPT ![p] = h]
    BY <1>8 DEF Holding
  <1>9. ASSUME NEW p \in Procs, Load(p) \/ Link(p) PROVE Stays
    <2>1. \E h : proc' = [proc EXCEPT ![p] = h]
      BY <1>8, <1>9 DEF Load, Link
    <2>2. /\ ran' = ran /\ wipes' = wipes /\ tokens' = tokens
          /\ proc[p].pc \in BeforeWipe \cap BeforeIssue
      BY <1>9, <1>3 DEF Load, Link, database, sessions
    <2> QED BY <2>1, <2>2, <1>6
  <1>10. ASSUME NEW p \in Procs,
                \/ Stat(p) \/ Posted(p) \/ Save(p)
                \/ Read(p) \/ Skip(p) \/ Execute(p) \/ Record(p) \/ Migrated(p) \/ RecordMode(p)
         PROVE  Stays
    <2>1. \E h : proc' = [proc EXCEPT ![p] = h]
      BY <1>10 DEF Stat, Posted, Save, Read, Skip, Execute, Record, Migrated, RecordMode, End, Goto
    <2>2. /\ ran' = ran /\ wipes' = wipes /\ tokens' = tokens
          /\ proc[p].pc \in BeforeWipe \cap BeforeIssue
      BY <1>10, <1>3 DEF Stat, Posted, Save, Read, Skip, Execute, Record, Migrated, RecordMode,
                         database, sessions
    <2> QED BY <2>1, <2>2, <1>6
  <1>11. ASSUME NEW p \in Procs, NEW s \in {"listen", "serving"}, Goto(p, s), ran' = ran, wipes' = wipes,
                \E k : tokens' = tokens \/ tokens' = [tokens EXCEPT ![k].printed = TRUE]
         PROVE  Stays
    <2> DEFINE h == [proc[p] EXCEPT !.pc = s]
    <2>1. h.pc = s /\ proc' = [proc EXCEPT ![p] = h]
      BY <1>4, <1>11 DEF ProcessRow, Goto
    <2> QED BY <2>1, <1>2, <1>3, <1>11
  <1>12. ASSUME NEW p \in Procs, EnsureSource(p) \/ Listen(p) PROVE Stays
    <2>1. CASE EnsureSource(p)
      BY <2>1, <1>11 DEF EnsureSource, sessions
    <2>2. CASE Listen(p)
      <3>1. /\ ran' = ran /\ wipes' = wipes
            /\ \E k : tokens' = tokens \/ tokens' = [tokens EXCEPT ![k].printed = TRUE]
            /\ End(p) \/ Goto(p, "serving")
        BY <2>2 DEF Listen
      <3> QED BY <3>1, <1>5, <1>11
    <2> QED BY <1>12, <2>1, <2>2
  <1>13. ASSUME NEW p \in Procs, Command(p) PROVE Stays
    BY <1>13, <1>7, <1>9, <1>10, <1>12 DEF Command
  <1>14. ASSUME NEW r \in Requests, Request(r) PROVE Stays
    BY <1>14, <1>1 DEF Request, Exchange, CreateSession, Select, Update, Fails, Undo, Logout,
                       database, sessions
  <1>15. ASSUME NEW m \in Modes, SetMode(m) PROVE Stays
    BY <1>15, <1>1 DEF SetMode, sessions
  <1>16. ASSUME Expire PROVE Stays
    BY <1>16, <1>1 DEF Expire
  <1>17. ASSUME UNCHANGED vars PROVE Stays
    BY <1>17, <1>1 DEF vars
  <1>18. Stays
    BY <1>13, <1>14, <1>15, <1>16, <1>17 DEF Next
  <1> QED BY <1>18 DEF Stays

(* Every step keeps the tokens and the rotations within the commands run. *)
LEMMA CountNext ==
  ASSUME CountInv, SecretsInv, SignInTypes, [Next]_vars
  PROVE  CountInv'
  <1>0. /\ proc \in [Procs -> ProcessRow] /\ \A p \in Procs : proc[p] \in ProcessRow
        /\ tokens \in Seq(Token) /\ Len(tokens) \in Nat /\ wipes \in Nat /\ ran \in Nat
        /\ MaxCommands \in Nat
    BY CommandsAssumption DEF SecretsInv, SignInTypes, CountInv
  <1>1. ASSUME NEW p \in Procs, NEW command \in Commands, Run(p, command) PROVE CountInv'
    <2>1. /\ ran' = ran + 1 /\ ran < MaxCommands /\ tokens' = tokens /\ wipes' = wipes
          /\ \A q \in Procs : q # p => proc'[q] = proc[q]
      BY <1>0, <1>1 DEF Run, database, sessions
    <2>2. /\ At(BeforeWipe)' \subseteq At(BeforeWipe) \cup {p}
          /\ At(BeforeIssue)' \subseteq At(BeforeIssue) \cup {p}
      BY <2>1 DEF At
    <2>3. /\ Fits(At(BeforeWipe)', wipes, ran + 1)
          /\ Fits(At(BeforeIssue)', Len(tokens), ran + 1)
      BY <1>0, <2>2, OneMoreFits DEF CountInv
    <2> QED BY <1>0, <2>1, <2>3 DEF CountInv
  <1>2. ASSUME NEW p \in Procs, Wipe(p) PROVE CountInv'
    <2>1. /\ ran' = ran /\ tokens' = tokens /\ wipes' = wipes + 1 /\ proc[p].pc = "wipe"
          /\ \A q \in Procs : q # p => proc'[q] = proc[q]
          /\ proc'[p].pc = "issue"
      BY <1>0, <1>2 DEF Wipe, Goto, ProcessRow
    <2>2. /\ At(BeforeWipe)' \subseteq At(BeforeWipe) \ {p} /\ p \in At(BeforeWipe)
          /\ At(BeforeIssue)' \subseteq At(BeforeIssue)
      BY <2>1 DEF At, BeforeWipe, BeforeIssue, Steps, LaterSteps
    <2> QED BY <1>0, <2>1, <2>2, LeavingFits, FewerFit DEF CountInv
  <1>3. ASSUME NEW p \in Procs, Issue(p) PROVE CountInv'
    <2>1. /\ ran' = ran /\ Len(tokens') = Len(tokens) + 1 /\ wipes' = wipes /\ proc[p].pc = "issue"
          /\ \A q \in Procs : q # p => proc'[q] = proc[q]
          /\ proc'[p].pc \in {"off", "source"}
      <3>1. tokens' = Append(tokens, [wipe |-> wipes, printed |-> proc[p].command = "rotate"])
        BY <1>3 DEF Issue
      <3>2. Len(tokens') = Len(tokens) + 1
        BY <3>1, <1>0
      <3> QED BY <1>0, <1>3, <3>2 DEF Issue, End, Off, ProcessRow
    <2>2. /\ At(BeforeIssue)' \subseteq At(BeforeIssue) \ {p} /\ p \in At(BeforeIssue)
          /\ At(BeforeWipe)' \subseteq At(BeforeWipe)
      BY <2>1 DEF At, BeforeWipe, BeforeIssue, Steps, LaterSteps
    <2> QED BY <1>0, <2>1, <2>2, LeavingFits, FewerFit DEF CountInv
  <1>4. CASE \A p \in Procs : ~Wipe(p) /\ ~Issue(p) /\ \A command \in Commands : ~Run(p, command)
    <2>1. /\ ran' = ran /\ wipes' = wipes
          /\ At(BeforeWipe)' \subseteq At(BeforeWipe) /\ At(BeforeIssue)' \subseteq At(BeforeIssue)
      BY <1>0, <1>4, OthersStay DEF At
    <2>2. Len(tokens') = Len(tokens)
      BY <1>0, <1>4, OthersStay
    <2> QED BY <1>0, <2>1, <2>2, FewerFit DEF CountInv
  <1> QED BY <1>1, <1>2, <1>3, <1>4

(* What refers to a migration or a token refers to one there is. *)
Placed(k, all) == k.at \in 0..(NumFiles + 1) /\ k.token \in 0..all

BoundsInv ==
  /\ writer \in Procs \cup {None}
  /\ mode \in Modes \cup {None}
  /\ \A p \in Procs : Placed(proc[p], Len(tokens))
  /\ \A r \in Requests : req[r].token \in 0..Len(tokens)
  /\ \A n \in DOMAIN tokens : tokens[n].wipe \in 0..wipes

(* No step takes a token away, and each has the generation it was issued in.*)
LEMMA TokensGrow ==
  ASSUME SignInTypes, BoundsInv, [Next]_vars
  PROVE  /\ Len(tokens) \in Nat /\ Len(tokens') \in Nat /\ Len(tokens) <= Len(tokens')
         /\ \A n \in DOMAIN tokens' : tokens'[n].wipe \in 0..wipes'
  <1>0. /\ tokens \in Seq(Token) /\ wipes \in Nat /\ Len(tokens) \in Nat
        /\ \A n \in DOMAIN tokens : tokens[n].wipe \in 0..wipes
    BY DEF SignInTypes, BoundsInv
  <1> DEFINE Grow == /\ Len(tokens') \in Nat /\ Len(tokens) <= Len(tokens')
                     /\ \A n \in DOMAIN tokens' : tokens'[n].wipe \in 0..wipes'
  <1>1. ASSUME tokens' = tokens, wipes' = wipes PROVE Grow
    BY <1>0, <1>1
  <1>2. ASSUME NEW p \in Procs, Command(p) PROVE Grow
    <2>1. CASE Wipe(p)
      <3>1. tokens' = tokens /\ wipes' = wipes + 1
        BY <2>1 DEF Wipe
      <3> QED BY <1>0, <3>1
    <2>2. CASE Issue(p)
      <3> DEFINE t == [wipe |-> wipes, printed |-> proc[p].command = "rotate"]
      <3>1. tokens' = Append(tokens, t) /\ wipes' = wipes
        BY <2>2 DEF Issue
      <3>2. t \in Token /\ t.wipe = wipes
        BY <1>0 DEF Token
      <3> HIDE DEF t
      <3>3. Len(tokens') = Len(tokens) + 1 /\ DOMAIN tokens' = 1..(Len(tokens) + 1)
        BY <1>0, <3>1, <3>2
      <3>4. /\ \A n \in DOMAIN tokens : tokens'[n] = tokens[n]
            /\ DOMAIN tokens = 1..Len(tokens) /\ tokens'[Len(tokens) + 1] = t
        BY <1>0, <3>1, <3>2
      <3>5. ASSUME NEW n \in DOMAIN tokens' PROVE tokens'[n].wipe \in 0..wipes
        <4>1. n \in DOMAIN tokens \/ n = Len(tokens) + 1
          BY <3>3, <3>4, <1>0
        <4> QED BY <4>1, <3>2, <3>4, <1>0
      <3> QED BY <1>0, <3>1, <3>3, <3>5
    <2>3. CASE Listen(p)
      <3>1. wipes' = wipes /\ \E k : tokens' = tokens \/ tokens' = [tokens EXCEPT ![k].printed = TRUE]
        BY <2>3 DEF Listen
      <3>2. /\ tokens' \in Seq(Token) /\ DOMAIN tokens' = DOMAIN tokens
            /\ \A n \in DOMAIN tokens : tokens'[n].wipe = tokens[n].wipe
        <4>1. PICK k : tokens' = tokens \/ tokens' = [tokens EXCEPT ![k].printed = TRUE]
          BY <3>1
        <4>2. CASE tokens' = tokens
          BY <1>0, <4>2
        <4>3. CASE tokens' = [tokens EXCEPT ![k].printed = TRUE]
          BY <1>0, <4>3, PrintedTokens
        <4> QED BY <4>1, <4>2, <4>3
      <3>3. Len(tokens') = Len(tokens)
        BY <1>0, <3>2
      <3> QED BY <1>0, <3>1, <3>2, <3>3
    <2>4. ASSUME \/ \E command \in Commands : Run(p, command)
                 \/ Kill(p) \/ Stat(p) \/ Load(p) \/ Link(p) \/ Posted(p) \/ Save(p)
                 \/ Read(p) \/ Skip(p) \/ Execute(p) \/ Record(p) \/ Migrated(p)
                 \/ RecordMode(p) \/ EnsureSource(p)
          PROVE  tokens' = tokens /\ wipes' = wipes
      BY <2>4 DEF Run, Kill, Stat, Load, Link, Posted, Save, Read, Skip, Execute, Record, Migrated,
                  RecordMode, EnsureSource, database, sessions
    <2> QED BY <1>1, <1>2, <2>1, <2>2, <2>3, <2>4 DEF Command
  <1>3. ASSUME NEW r \in Requests, Request(r) PROVE Grow
    BY <1>3, <1>1 DEF Request, Exchange, CreateSession, Select, Update, Fails, Undo, Logout,
                      database, sessions
  <1>4. CASE \E m \in Modes : SetMode(m)
    BY <1>4, <1>0, <1>1 DEF SetMode, sessions
  <1>5. CASE Expire
    BY <1>5, <1>0, <1>1 DEF Expire
  <1>6. CASE UNCHANGED vars
    BY <1>6, <1>0, <1>1 DEF vars
  <1> QED BY <1>0, <1>2, <1>3, <1>4, <1>5, <1>6 DEF Next

(* The processes keep pointing at migrations and tokens there are. *)
LEMMA PlacedNext ==
  ASSUME SecretsInv, SchemaInv, SignInTypes, BoundsInv, [Next]_vars
  PROVE  \A p \in Procs : Placed(proc'[p], Len(tokens'))
  <1>0. /\ proc \in [Procs -> ProcessRow]
        /\ \A p \in Procs : proc[p] \in ProcessRow /\ Reached(proc[p], applied)
                            /\ Placed(proc[p], Len(tokens))
        /\ Len(tokens) \in Nat /\ Len(tokens') \in Nat /\ Len(tokens) <= Len(tokens')
        /\ NumFiles \in Nat
    BY TokensGrow, FilesAssumption DEF SecretsInv, SchemaInv, BoundsInv
  <1>1. \A p \in Procs : Placed(proc[p], Len(tokens'))
    BY <1>0 DEF Placed
  <1> DEFINE Stay == \A p \in Procs : Placed(proc'[p], Len(tokens'))
  <1>2. ASSUME NEW p \in Procs, NEW h, proc' = [proc EXCEPT ![p] = h], Placed(h, Len(tokens'))
        PROVE  Stay
    BY <1>0, <1>1, <1>2
  <1>3. ASSUME proc' = proc PROVE Stay
    BY <1>1, <1>3
  <1> HIDE DEF Stay
  <1>4. ASSUME NEW p \in Procs, End(p) PROVE Stay
    <2>1. Placed(Off, Len(tokens'))
      BY <1>0 DEF Placed, Off
    <2> QED BY <1>2, <1>4, <2>1 DEF End
  <1>5. ASSUME NEW p \in Procs, NEW s, NEW c,
               \/ Goto(p, s)
               \/ proc' = [proc EXCEPT ![p].pc = s, ![p].cfg = c]
        PROVE  Stay
    <2>1. CASE Goto(p, s)
      <3> DEFINE h == [proc[p] EXCEPT !.pc = s]
      <3>1. h.at = proc[p].at /\ h.token = proc[p].token /\ proc' = [proc EXCEPT ![p] = h]
        BY <1>0, <2>1 DEF ProcessRow, Goto
      <3>2. Placed(h, Len(tokens'))
        BY <1>1, <3>1 DEF Placed
      <3> QED BY <1>2, <3>1, <3>2
    <2>2. CASE proc' = [proc EXCEPT ![p].pc = s, ![p].cfg = c]
      <3> DEFINE h == [proc[p] EXCEPT !.pc = s, !.cfg = c]
      <3>1. h.at = proc[p].at /\ h.token = proc[p].token /\ proc' = [proc EXCEPT ![p] = h]
        BY <1>0, <2>2 DEF ProcessRow
      <3>2. Placed(h, Len(tokens'))
        BY <1>1, <3>1 DEF Placed
      <3> QED BY <1>2, <3>1, <3>2
    <2> QED BY <1>5, <2>1, <2>2
  <1>6. ASSUME NEW p \in Procs, NEW c, Holding(p, c) PROVE Stay
    BY <1>5, <1>6 DEF Holding
  <1>7. ASSUME NEW p \in Procs, Command(p) PROVE Stay
    <2>1. ASSUME NEW command \in Commands, Run(p, command) PROVE Stay
      <3> DEFINE h == [Off EXCEPT !.command = command, !.pc = "stat"]
      <3>1. Placed(h, Len(tokens')) /\ proc' = [proc EXCEPT ![p] = h]
        BY <1>0, <2>1 DEF Placed, Off, Run
      <3> QED BY <1>2, <3>1
    <2>2. ASSUME Read(p) PROVE Stay
      <3> DEFINE h == [proc[p] EXCEPT !.pc = "migrate", !.seen = applied, !.at = 1]
      <3>1. h.at = 1 /\ h.token = proc[p].token /\ proc' = [proc EXCEPT ![p] = h]
        BY <1>0, <2>2 DEF ProcessRow, Read
      <3>2. Placed(h, Len(tokens'))
        BY <1>0, <1>1, <3>1 DEF Placed
      <3> QED BY <1>2, <3>1, <3>2
    <2>3. ASSUME Skip(p) PROVE Stay
      <3> DEFINE h == [proc[p] EXCEPT !.at = proc[p].at + 1]
      <3>1. h.at = proc[p].at + 1 /\ h.token = proc[p].token /\ proc' = [proc EXCEPT ![p] = h]
        BY <1>0, <2>3 DEF ProcessRow, Skip
      <3>2. Placed(h, Len(tokens'))
        BY <1>0, <1>1, <2>3, <3>1 DEF Placed, Skip, Files
      <3> QED BY <1>2, <3>1, <3>2
    <2>4. ASSUME Record(p) PROVE Stay
      <3> DEFINE h == [proc[p] EXCEPT !.pc = "migrate", !.at = proc[p].at + 1]
      <3>1. h.at = proc[p].at + 1 /\ h.token = proc[p].token /\ proc' = [proc EXCEPT ![p] = h]
        BY <1>0, <2>4 DEF ProcessRow, Record
      <3>2. proc[p].at \in Files
        BY <1>0, <2>4 DEF Record, Reached
      <3>3. Placed(h, Len(tokens'))
        BY <1>0, <1>1, <3>1, <3>2 DEF Placed, Files
      <3> QED BY <1>2, <3>1, <3>3
    <2>5. ASSUME Migrated(p) PROVE Stay
      <3>1. ASSUME NEW s, proc' = [proc EXCEPT ![p].pc = s, ![p].seen = {}, ![p].at = 0] PROVE Stay
        <4> DEFINE h == [proc[p] EXCEPT !.pc = s, !.seen = {}, !.at = 0]
        <4>1. h.at = 0 /\ h.token = proc[p].token /\ proc' = [proc EXCEPT ![p] = h]
          BY <1>0, <3>1 DEF ProcessRow
        <4>2. Placed(h, Len(tokens'))
          BY <1>0, <1>1, <4>1 DEF Placed
        <4> QED BY <1>2, <4>1, <4>2
      <3> QED BY <2>5, <1>4, <3>1 DEF Migrated
    <2>6. ASSUME Issue(p) PROVE Stay
      <3>1. ASSUME proc' = [proc EXCEPT ![p].pc = "source", ![p].token = Len(tokens) + 1] PROVE Stay
        <4> DEFINE h == [proc[p] EXCEPT !.pc = "source", !.token = Len(tokens) + 1]
        <4>1. h.at = proc[p].at /\ h.token = Len(tokens) + 1 /\ proc' = [proc EXCEPT ![p] = h]
          BY <1>0, <3>1 DEF ProcessRow
        <4>2. Len(tokens') = Len(tokens) + 1
          BY <2>6 DEF Issue, SignInTypes
        <4>3. Placed(h, Len(tokens'))
          BY <1>0, <1>1, <4>1, <4>2 DEF Placed
        <4> QED BY <1>2, <4>1, <4>3
      <3> QED BY <2>6, <1>4, <3>1 DEF Issue
    <2>7. ASSUME Stat(p) \/ Load(p) \/ Link(p) PROVE Stay
      BY <2>7, <1>5, <1>6 DEF Stat, Load, Link
    <2>8. ASSUME \/ Kill(p) \/ Posted(p) \/ Save(p) \/ Execute(p)
                 \/ RecordMode(p) \/ Wipe(p) \/ EnsureSource(p) \/ Listen(p)
          PROVE  Stay
      <3>1. End(p) \/ \E s : Goto(p, s)
        BY <2>8 DEF Kill, Posted, Save, Execute, RecordMode, Wipe, EnsureSource, Listen
      <3> QED BY <1>4, <1>5, <3>1
    <2> QED BY <1>7, <2>1, <2>2, <2>3, <2>4, <2>5, <2>6, <2>7, <2>8 DEF Command
  <1>8. ASSUME NEW r \in Requests, Request(r) PROVE Stay
    BY <1>8, <1>3 DEF Request, Exchange, CreateSession, Select, Update, Fails, Undo, Logout
  <1>9. ASSUME NEW m \in Modes, SetMode(m) PROVE Stay
    BY <1>9, <1>3 DEF SetMode
  <1>10. ASSUME Expire \/ UNCHANGED vars PROVE Stay
    BY <1>10, <1>3 DEF Expire, vars
  <1>11. Stay
    BY <1>7, <1>8, <1>9, <1>10 DEF Next
  <1> QED BY <1>11 DEF Stay

(* The rest of what BoundsInv says: the transaction is of a process, the   *)
(* source has a mode, and requests exchange tokens there are.              *)
LEMMA BoundsNext ==
  ASSUME SecretsInv, SchemaInv, SignInTypes, BoundsInv, [Next]_vars
  PROVE  BoundsInv'
  <1>0. /\ \A p \in Procs : proc[p] \in ProcessRow /\ Agrees(proc[p], config)
        /\ req \in [Requests -> RequestRow]
        /\ Len(tokens) \in Nat /\ Len(tokens') \in Nat /\ Len(tokens) <= Len(tokens')
        /\ DOMAIN tokens = 1..Len(tokens)
        /\ writer \in Procs \cup {None} /\ mode \in Modes \cup {None}
        /\ \A r \in Requests : req[r].token \in 0..Len(tokens')
    BY TokensGrow DEF SecretsInv, SignInTypes, BoundsInv
  <1>1. \A p \in Procs : Placed(proc'[p], Len(tokens'))
    BY PlacedNext
  <1>2. \A n \in DOMAIN tokens' : tokens'[n].wipe \in 0..wipes'
    BY TokensGrow
  <1> DEFINE Writers == writer' \in Procs \cup {None}
             ModeSet == mode' \in Modes \cup {None}
             Asked == \A r \in Requests : req'[r].token \in 0..Len(tokens')
  <1>3. ASSUME writer' = writer, mode' = mode, req' = req PROVE Writers /\ ModeSet /\ Asked
    BY <1>0, <1>3
  <1>4. ASSUME NEW p \in Procs, Command(p) PROVE Writers /\ ModeSet /\ Asked
    <2>1. CASE Kill(p)
      <3>1. \A r \in Requests : req'[r] = req[r] \/ req'[r] = NoAnswer
        BY <1>0, <2>1 DEF Kill
      <3> QED BY <1>0, <2>1, <3>1 DEF Kill, NoAnswer
    <2>2. CASE Execute(p) \/ Record(p)
      BY <1>0, <2>2 DEF Execute, Record
    <2>3. CASE RecordMode(p) \/ EnsureSource(p)
      <3>1. proc[p].cfg \in Configs
        BY <1>0, <2>3 DEF RecordMode, EnsureSource, Agrees, ProcessRow
      <3>2. proc[p].cfg.mode \in Modes \cup {None}
        BY <3>1 DEF Configs
      <3> QED BY <1>0, <2>3, <3>2 DEF RecordMode, EnsureSource, schema
    <2>4. ASSUME \/ \E command \in Commands : Run(p, command)
                 \/ Stat(p) \/ Load(p) \/ Link(p) \/ Posted(p) \/ Save(p)
                 \/ Read(p) \/ Skip(p) \/ Migrated(p)
                 \/ Wipe(p) \/ Issue(p) \/ Listen(p)
          PROVE  writer' = writer /\ mode' = mode /\ req' = req
      BY <2>4 DEF Run, Stat, Load, Link, Posted, Save, Read, Skip, Migrated, Wipe, Issue, Listen,
                  database, schema
    <2> QED BY <1>3, <1>4, <2>1, <2>2, <2>3, <2>4 DEF Command
  <1>5. ASSUME NEW r \in Requests, Request(r) PROVE Writers /\ ModeSet /\ Asked
    <2>1. writer' = writer /\ mode' = mode
      BY <1>5 DEF Request, Exchange, CreateSession, Select, Update, Fails, Undo, Logout,
                  database, schema
    <2>2. ASSUME NEW q, req' = [req EXCEPT ![r] = q], q.token \in 0..Len(tokens') PROVE Asked
      BY <1>0, <2>2
    <2>3. ASSUME NEW s, Advance(r, s) PROVE Asked
      <3> DEFINE q == [req[r] EXCEPT !.pc = s]
      <3>1. q.token = req[r].token /\ req' = [req EXCEPT ![r] = q]
        BY <1>0, <2>3 DEF Advance, RequestRow
      <3> QED BY <1>0, <2>2, <3>1
    <2>4. ASSUME Refused(r) PROVE Asked
      <3>1. NoAnswer.token \in 0..Len(tokens')
        BY <1>0 DEF NoAnswer
      <3> QED BY <2>2, <2>4, <3>1 DEF Refused
    <2>5. ASSUME Exchange(r) PROVE Asked
      <3>1. PICK n \in DOMAIN tokens : req' = [req EXCEPT ![r] = [pc |-> "create", token |-> n]]
        BY <2>5 DEF Exchange
      <3>2. n \in 0..Len(tokens')
        BY <1>0
      <3> QED BY <2>2, <3>1, <3>2
    <2>6. \/ Exchange(r) \/ Refused(r) \/ \E s : Advance(r, s)
      BY <1>5 DEF Request, CreateSession, Select, Update, Fails, Undo, Logout
    <2>7. Asked
      BY <2>3, <2>4, <2>5, <2>6
    <2> QED BY <1>0, <2>1, <2>7
  <1>6. ASSUME NEW m \in Modes, SetMode(m) PROVE Writers /\ ModeSet /\ Asked
    BY <1>0, <1>6 DEF SetMode, schema
  <1>7. ASSUME Expire \/ UNCHANGED vars PROVE Writers /\ ModeSet /\ Asked
    BY <1>3, <1>7 DEF Expire, vars, schema
  <1>8. Writers /\ ModeSet /\ Asked
    BY <1>4, <1>5, <1>6, <1>7 DEF Next
  <1> QED BY <1>1, <1>2, <1>8 DEF BoundsInv

(* A row is of a token that was issued, or of a session that its request   *)
(* has created, and there is one row of each.                              *)
RowsInv ==
  /\ \A row \in rows :
       \/ \E n \in DOMAIN tokens : row.id = SignIn(n)
       \/ \E r \in Requests : row.id = Session(r) /\ req[r].pc \notin {"idle", "create"}
  /\ \A s \in rows, t \in rows : s.id = t.id => s = t

(* Rows that go, or change but for their identifiers. *)
LEMMA RowsBecome ==
  ASSUME RowsInv, DOMAIN tokens \subseteq DOMAIN tokens',
         \A r \in Requests : req[r].pc \notin {"idle", "create"} => req'[r].pc \notin {"idle", "create"},
         NEW F, \A t \in rows : F[t].id = t.id, rows' \subseteq {F[t] : t \in rows}
  PROVE  RowsInv'
  <1>1. \A s \in rows' : \E t \in rows : s = F[t] /\ s.id = t.id
    OBVIOUS
  <1>2. ASSUME NEW row \in rows'
        PROVE  \/ \E n \in DOMAIN tokens' : row.id = SignIn(n)
               \/ \E r \in Requests : row.id = Session(r) /\ req'[r].pc \notin {"idle", "create"}
    BY <1>1 DEF RowsInv
  <1>3. ASSUME NEW s \in rows', NEW t \in rows', s.id = t.id PROVE s = t
    BY <1>1, <1>3 DEF RowsInv
  <1> QED BY <1>2, <1>3 DEF RowsInv

(* A row that is added under an identifier no row has. *)
LEMMA RowAdded ==
  ASSUME RowsInv, DOMAIN tokens \subseteq DOMAIN tokens',
         \A r \in Requests : req[r].pc \notin {"idle", "create"} => req'[r].pc \notin {"idle", "create"},
         NEW new, rows' = rows \cup {new}, \A t \in rows : t.id # new.id,
         \/ \E n \in DOMAIN tokens' : new.id = SignIn(n)
         \/ \E r \in Requests : new.id = Session(r) /\ req'[r].pc \notin {"idle", "create"}
  PROVE  RowsInv'
  <1>1. ASSUME NEW row \in rows'
        PROVE  \/ \E n \in DOMAIN tokens' : row.id = SignIn(n)
               \/ \E r \in Requests : row.id = Session(r) /\ req'[r].pc \notin {"idle", "create"}
    BY DEF RowsInv
  <1>2. ASSUME NEW s \in rows', NEW t \in rows', s.id = t.id PROVE s = t
    BY <1>2 DEF RowsInv
  <1> QED BY <1>1, <1>2 DEF RowsInv

(* A request that has created its session never is about to again. *)
LEMMA RequestsGoOn ==
  ASSUME req \in [Requests -> RequestRow], [Next]_vars
  PROVE  \A r \in Requests : req[r].pc \notin {"idle", "create"} => req'[r].pc \notin {"idle", "create"}
  <1> DEFINE GoOn == \A r \in Requests :
                       req[r].pc \notin {"idle", "create"} => req'[r].pc \notin {"idle", "create"}
  <1>1. ASSUME req' = req PROVE GoOn
    BY <1>1
  <1>2. ASSUME NEW p \in Procs, Command(p) PROVE GoOn
    <2>1. CASE Kill(p)
      <3>1. \A r \in Requests : req'[r] = req[r] \/ req'[r] = NoAnswer
        BY <2>1 DEF Kill
      <3> QED BY <3>1 DEF NoAnswer
    <2>2. ASSUME ~Kill(p) PROVE req' = req
      BY <1>2, <2>2 DEF Command, Run, Stat, Load, Link, Posted, Save, Read, Skip, Execute, Record,
                        Migrated, RecordMode, Wipe, Issue, EnsureSource, Listen
    <2> QED BY <2>1, <2>2, <1>1
  <1>3. ASSUME NEW r \in Requests, Request(r) PROVE GoOn
    <2>1. ASSUME NEW q, req' = [req EXCEPT ![r] = q],
                 req[r].pc = "idle" \/ q.pc \notin {"idle", "create"}
          PROVE  GoOn
      BY <2>1
    <2>2. ASSUME NEW s \in {"select", "update", "undo", "in", "out"}, Advance(r, s) PROVE GoOn
      <3> DEFINE q == [req[r] EXCEPT !.pc = s]
      <3>1. q.pc = s /\ req' = [req EXCEPT ![r] = q]
        BY <2>2 DEF Advance, RequestRow
      <3> QED BY <2>1, <3>1
    <2>3. ASSUME Refused(r) PROVE GoOn
      BY <2>1, <2>3 DEF Refused, NoAnswer
    <2>4. ASSUME Exchange(r) PROVE GoOn
      BY <2>1, <2>4 DEF Exchange
    <2>5. \/ Exchange(r) \/ Refused(r)
          \/ \E s \in {"select", "update", "undo", "in", "out"} : Advance(r, s)
      BY <1>3 DEF Request, CreateSession, Select, Update, Fails, Undo, Logout
    <2> QED BY <2>2, <2>3, <2>4, <2>5
  <1>4. ASSUME NEW m \in Modes, SetMode(m) PROVE GoOn
    BY <1>1, <1>4 DEF SetMode
  <1>5. ASSUME Expire \/ UNCHANGED vars PROVE GoOn
    BY <1>1, <1>5 DEF Expire, vars
  <1> QED BY <1>2, <1>3, <1>4, <1>5 DEF Next

(* Every step keeps one row of each token and session. *)
LEMMA RowsNext ==
  ASSUME SignInTypes, BoundsInv, RowsInv, [Next]_vars
  PROVE  RowsInv'
  <1>0. /\ req \in [Requests -> RequestRow] /\ rows \subseteq SessionRow
        /\ tokens \in Seq(Token) /\ Len(tokens) \in Nat
        /\ \A r \in Requests : req[r].pc \notin {"idle", "create"} => req'[r].pc \notin {"idle", "create"}
    BY RequestsGoOn DEF SignInTypes
  <1>1. ASSUME rows' \subseteq rows, DOMAIN tokens \subseteq DOMAIN tokens' PROVE RowsInv'
    <2> DEFINE F == [t \in rows |-> t]
    <2>1. (\A t \in rows : F[t].id = t.id) /\ rows' \subseteq {F[t] : t \in rows}
      BY <1>1
    <2> HIDE DEF F
    <2> QED BY <1>0, <1>1, <2>1, RowsBecome
  <1>2. ASSUME NEW p \in Procs, Command(p) PROVE RowsInv'
    <2>1. ASSUME Issue(p) PROVE RowsInv'
      <3> DEFINE n == Len(tokens) + 1
                 t == [wipe |-> wipes, printed |-> proc[p].command = "rotate"]
      <3>1. rows' = rows \cup {Row(SignIn(n))} /\ tokens' = Append(tokens, t) /\ req' = req
        BY <2>1 DEF Issue
      <3>2. /\ DOMAIN tokens = 1..Len(tokens) /\ DOMAIN tokens' = 1..n
            /\ n \in Nat /\ n \notin DOMAIN tokens /\ n \in DOMAIN tokens'
            /\ DOMAIN tokens \subseteq DOMAIN tokens' /\ DOMAIN tokens \subseteq Nat
        BY <1>0, <3>1
      <3>3. Row(SignIn(n)).id = SignIn(n)
        BY DEF Row
      <3> HIDE DEF n, t
      <3>4. \A row \in rows : row.id # SignIn(n)
        BY <3>2, IdShapes DEF RowsInv
      <3> QED BY <1>0, <3>1, <3>2, <3>3, <3>4, RowAdded
    <2>2. ASSUME Wipe(p) \/ Listen(p) PROVE RowsInv'
      <3>1. rows' \subseteq rows
        BY <2>2 DEF Wipe, Listen
      <3>2. DOMAIN tokens' = DOMAIN tokens
        BY <2>2, <1>0 DEF Wipe, Listen
      <3> QED BY <1>1, <3>1, <3>2
    <2>3. ASSUME ~Issue(p), ~Wipe(p), ~Listen(p) PROVE rows' = rows /\ tokens' = tokens
      BY <1>2, <2>3 DEF Command, Run, Kill, Stat, Load, Link, Posted, Save, Read, Skip, Execute, Record,
                        Migrated, RecordMode, EnsureSource, database, sessions
    <2> QED BY <1>1, <2>1, <2>2, <2>3
  <1>3. ASSUME NEW r \in Requests, Request(r) PROVE RowsInv'
    <2>0. tokens' = tokens
      BY <1>3 DEF Request, Exchange, CreateSession, Select, Update, Fails, Undo, Logout,
                  database, sessions
    <2>1. ASSUME CreateSession(r) PROVE RowsInv'
      <3>1. /\ rows' = rows \cup {Row(Session(r))} /\ req[r].pc = "create"
            /\ Row(Session(r)).id = Session(r)
        BY <2>1 DEF CreateSession, Row
      <3>2. req'[r].pc = "select"
        BY <1>0, <2>1 DEF CreateSession, Advance, RequestRow
      <3>3. DOMAIN tokens \subseteq Nat
        BY <1>0
      <3>4. \A row \in rows : row.id # Session(r)
        BY <3>1, <3>3, IdShapes DEF RowsInv
      <3> QED BY <1>0, <2>0, <3>1, <3>2, <3>4, RowAdded
    <2>2. ASSUME Update(r) PROVE RowsInv'
      <3> DEFINE U == {t \in RowOf(SignIn(req[r].token)) : ~t.used}
                 F == [t \in rows |-> IF t \in U THEN [t EXCEPT !.used = TRUE] ELSE t]
      <3>1. rows' = (rows \ U) \cup {[t EXCEPT !.used = TRUE] : t \in U} /\ U \subseteq rows
        BY <2>2 DEF Update, RowOf
      <3> HIDE DEF U
      <3>2. \A t \in rows : [t EXCEPT !.used = TRUE].id = t.id
        BY <1>0 DEF SessionRow
      <3>3. \A t \in rows : F[t] = (IF t \in U THEN [t EXCEPT !.used = TRUE] ELSE t) /\ F[t].id = t.id
        BY <3>2
      <3> HIDE DEF F
      <3>4. ASSUME NEW t \in rows' PROVE \E o \in rows : t = F[o]
        BY <3>1, <3>3
      <3>5. rows' \subseteq {F[t] : t \in rows}
        BY <3>4
      <3> QED BY <1>0, <2>0, <3>3, <3>5, RowsBecome
    <2>3. ASSUME ~CreateSession(r), ~Update(r) PROVE rows' \subseteq rows
      BY <1>3, <2>3 DEF Request, Exchange, Select, Fails, Undo, Logout, database, sessions
    <2> QED BY <1>1, <2>0, <2>1, <2>2, <2>3
  <1>4. ASSUME NEW m \in Modes, SetMode(m) PROVE RowsInv'
    BY <1>1, <1>4 DEF SetMode, sessions
  <1>5. ASSUME Expire PROVE RowsInv'
    <2>1. PICK row \in rows : rows' = (rows \ {row}) \cup {[row EXCEPT !.expired = TRUE]}
      BY <1>5 DEF Expire
    <2> DEFINE F == [t \in rows |-> IF t = row THEN [row EXCEPT !.expired = TRUE] ELSE t]
    <2>2. [row EXCEPT !.expired = TRUE].id = row.id /\ tokens' = tokens
      BY <1>0, <1>5 DEF SessionRow, Expire
    <2>3. \A t \in rows : F[t] = (IF t = row THEN [row EXCEPT !.expired = TRUE] ELSE t) /\ F[t].id = t.id
      BY <2>2
    <2> HIDE DEF F
    <2>4. ASSUME NEW t \in rows' PROVE \E o \in rows : t = F[o]
      BY <2>1, <2>3
    <2>5. rows' \subseteq {F[t] : t \in rows}
      BY <2>4
    <2> QED BY <1>0, <2>2, <2>3, <2>5, RowsBecome
  <1>6. ASSUME UNCHANGED vars PROVE RowsInv'
    BY <1>1, <1>6 DEF vars
  <1> QED BY <1>2, <1>3, <1>4, <1>5, <1>6 DEF Next

------------------------------------------------------------------------------
(* The theorems. *)

AdminInv == SecretsInv /\ SchemaInv /\ SignInInv

(* The three invariants hold initially and are preserved together: the     *)
(* migrations a process read are of the embedded files, which the second   *)
(* says, and its configuration is there, which the first says.             *)
THEOREM AdminInvHolds == Spec => []AdminInv
<1>1. Init => AdminInv
  <2> SUFFICES ASSUME Init PROVE AdminInv
    OBVIOUS
  <2>1. SecretsInv
    BY OffShape DEF Init, SecretsInv, Agrees, Off
  <2>2. SchemaInv
    BY DEF Init, SchemaInv, Reached, Off, LaterSteps
  <2>3. NewRequest \in RequestRow /\ NewRequest.pc = "idle"
    BY DEF NewRequest, RequestRow, RequestStates
  <2>4. SignInInv
    BY <2>3 DEF Init, SignInInv, SignInTypes, RowsAreCurrent, TokensAreUsedUp, SessionsAreCurrent,
                SignsInOnce, Answered
  <2> QED BY <2>1, <2>2, <2>4 DEF AdminInv
<1>2. AdminInv /\ [Next]_vars => AdminInv'
  <2> SUFFICES ASSUME AdminInv, [Next]_vars PROVE AdminInv'
    OBVIOUS
  <2>1. applied \subseteq Files /\ tokens \in Seq([wipe : Nat, printed : BOOLEAN])
    BY DEF AdminInv, SchemaInv, SignInInv, SignInTypes, Token
  <2> QED BY <2>1, SecretsNext, SchemaNext, SignInNext DEF AdminInv
<1> QED BY <1>1, <1>2, PTL DEF Spec

(* config.Ensure and config.Save: every process that has a configuration   *)
(* has the secrets of the file, whichever processes were first.            *)
THEOREM SecretsAgree == Spec => []OneSetOfSecrets
<1>1. AdminInv => OneSetOfSecrets
  BY DEF AdminInv, SecretsInv, Agrees, OneSetOfSecrets
<1> QED BY <1>1, AdminInvHolds, PTL

(* store.Migrate: what is in the schema is what is recorded, a beginning   *)
(* of the embedded files, and all of them for a command past Migrate.      *)
THEOREM SchemaHolds == Spec => []SchemaIsWhole
<1>1. AdminInv => SchemaIsWhole
  <2> SUFFICES ASSUME AdminInv PROVE SchemaIsWhole
    OBVIOUS
  <2>1. ASSUME NEW f \in applied PROVE 1..f \subseteq applied
    BY FilesAssumption DEF AdminInv, SchemaInv, Files
  <2>2. ASSUME NEW p \in Procs, proc[p].pc \in LaterSteps PROVE applied = Files
    BY <2>2 DEF AdminInv, SchemaInv, Reached
  <2> QED BY <2>1, <2>2 DEF AdminInv, SchemaInv, SchemaIsWhole
<1> QED BY <1>1, AdminInvHolds, PTL

(* ExchangeDashboardToken and RotateDashboard: a token signs in at most    *)
(* once, and no session that still opens the dashboard is older than the   *)
(* last rotation.                                                          *)
THEOREM SessionsFollow == Spec => []SessionsFollowTokens
<1>1. AdminInv => SessionsFollowTokens
  BY DEF AdminInv, SignInInv, SessionsAreCurrent, SessionsFollowTokens, RotationEndsSessions, Usable, RowOf
<1> QED BY <1>1, AdminInvHolds, PTL

TypesInv == CountInv /\ BoundsInv /\ RowsInv

(* The commands, the tables they fill and the requests have the types of   *)
(* TypeOK: a token and a rotation for each command that was run at most,   *)
(* and one row for each token and session.                                 *)
THEOREM AdministrationTypes == Spec => []TypeOK
<1>1. Init => TypesInv
  <2> SUFFICES ASSUME Init PROVE TypesInv
    OBVIOUS
  <2>1. At(BeforeWipe) = {} /\ At(BeforeIssue) = {}
    BY DEF Init, Off, At, BeforeWipe, BeforeIssue
  <2>2. CountInv
    BY <2>1, FS_EmptySet, CommandsAssumption DEF Init, CountInv, Fits
  <2>3. BoundsInv
    BY FilesAssumption DEF Init, BoundsInv, Placed, Off, NewRequest
  <2>4. RowsInv
    BY DEF Init, RowsInv
  <2> QED BY <2>2, <2>3, <2>4 DEF TypesInv
<1>2. AdminInv /\ TypesInv /\ [Next]_vars => TypesInv'
  BY CountNext, BoundsNext, RowsNext DEF AdminInv, SignInInv, TypesInv
<1>3. AdminInv /\ TypesInv => TypeOK
  <2> SUFFICES ASSUME AdminInv, TypesInv PROVE TypeOK
    OBVIOUS
  <2>1. /\ config \in Configs \cup {None}
        /\ tables \subseteq Files /\ applied \subseteq Files
        /\ writer \in Procs \cup {None} /\ mode \in Modes \cup {None}
        /\ \A p \in Procs : proc[p].pc \notin {"off", "stat", "load"} => proc[p].cfg # None
    BY DEF AdminInv, SecretsInv, SchemaInv, Agrees, TypesInv, BoundsInv
  <2>2. /\ Len(tokens) \in 0..MaxCommands /\ wipes \in 0..MaxCommands /\ ran \in 0..MaxCommands
        /\ tokens \in Seq(Token)
    <3>1. ran \in 0..MaxCommands /\ Fits(At(BeforeWipe), wipes, ran) /\ Fits(At(BeforeIssue), Len(tokens), ran)
          /\ tokens \in Seq(Token) /\ Len(tokens) \in Nat /\ wipes \in Nat
      BY DEF AdminInv, SignInInv, SignInTypes, TypesInv, CountInv
    <3>2. Cardinality(At(BeforeWipe)) \in Nat /\ Cardinality(At(BeforeIssue)) \in Nat
      BY <3>1, FS_CardinalityType DEF Fits
    <3> QED BY <3>1, <3>2, CommandsAssumption DEF Fits
  <2>3. \A n \in DOMAIN tokens : tokens[n] \in [wipe : 0..wipes, printed : BOOLEAN]
    <3>1. ASSUME NEW n \in DOMAIN tokens PROVE tokens[n] \in [wipe : 0..wipes, printed : BOOLEAN]
      <4>1. tokens[n] \in Token /\ tokens[n].wipe \in 0..wipes
        BY <2>2 DEF TypesInv, BoundsInv
      <4> QED BY <4>1 DEF Token
    <3> QED BY <3>1
  <2>4. rows \subseteq [id : RowIds, used : BOOLEAN, expired : BOOLEAN]
    <3>1. ASSUME NEW row \in rows PROVE row.id \in RowIds
      <4>1. DOMAIN tokens \subseteq 1..MaxCommands
        BY <2>2, CommandsAssumption
      <4> QED BY <4>1 DEF TypesInv, RowsInv, RowIds
    <3> QED BY <3>1 DEF AdminInv, SignInInv, SignInTypes, SessionRow
  <2>5. \A row \in rows : RowOf(row.id) = {row}
    BY DEF TypesInv, RowsInv, RowOf
  <2>6. proc \in [Procs -> Processes]
    <3>1. ASSUME NEW p \in Procs PROVE proc[p] \in Processes
      <4>1. proc[p] \in ProcessRow /\ Placed(proc[p], Len(tokens))
        BY DEF AdminInv, SecretsInv, TypesInv, BoundsInv
      <4>2. proc[p].token \in 0..MaxCommands /\ proc[p].at \in 0..(NumFiles + 1)
        BY <2>2, <4>1, CommandsAssumption DEF Placed
      <4> QED BY <4>1, <4>2 DEF ProcessRow, Processes
    <3> QED BY <3>1 DEF AdminInv, SecretsInv
  <2>7. req \in [Requests -> [pc : RequestStates, token : 0..MaxCommands]]
    <3>1. ASSUME NEW r \in Requests PROVE req[r] \in [pc : RequestStates, token : 0..MaxCommands]
      <4>1. req[r] \in RequestRow /\ req[r].token \in 0..Len(tokens)
        BY DEF AdminInv, SignInInv, SignInTypes, TypesInv, BoundsInv
      <4>2. req[r].token \in 0..MaxCommands
        BY <2>2, <4>1, CommandsAssumption
      <4> QED BY <4>1, <4>2 DEF RequestRow
    <3> QED BY <3>1 DEF AdminInv, SignInInv, SignInTypes
  <2>8. Len(tokens) <= MaxCommands
    BY <2>2, CommandsAssumption
  <2> QED BY <2>1, <2>2, <2>3, <2>4, <2>5, <2>6, <2>7, <2>8, Zenon DEF TypeOK
<1> QED BY <1>1, <1>2, <1>3, AdminInvHolds, PTL DEF Spec
=============================================================================
