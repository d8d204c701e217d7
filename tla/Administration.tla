--------------------------- MODULE Administration ---------------------------
(***************************************************************************)
(* The commands of traceboard as processes that share one directory: the   *)
(* configuration file with its generated secrets (internal/config), the    *)
(* schema of the database (internal/store/migrate.go), the sign-in tokens  *)
(* and sessions (internal/auth, store/sources.go) and the collector that   *)
(* serves sign-ins while other commands rotate them (cmd/traceboard).      *)
(*                                                                         *)
(* A process runs one command and ends; it may be killed between any two   *)
(* steps, which also stands for every error that makes a command give up.  *)
(* A request is one exchange of a sign-in token for a session.             *)
(***************************************************************************)
EXTENDS Naturals, Sequences, FiniteSets

CONSTANTS
  Procs,         \* processes that run a command
  Requests,      \* exchanges of a sign-in token
  Modes,         \* capture modes of the one source that is configured
  Days,          \* retention periods of `retention set`
  NumFiles,      \* embedded migrations
  MaxCommands,   \* bound of the model: commands that are run
  None

ASSUME FilesAssumption == NumFiles \in Nat \ {0}
ASSUME CommandsAssumption == MaxCommands \in Nat

VARIABLES
  config,        \* config.json, None before it exists
  tables,        \* the migrations whose statements are in the schema
  applied,       \* the rows of schema_migrations
  writer,        \* the process with a migration's transaction open, or None
  mode,          \* sources.capture_mode of the source, or None
  rows,          \* the rows of the table sessions
  tokens,        \* the sign-in tokens issued so far
  wipes,         \* how often the table sessions was emptied
  ran,           \* commands run so far
  proc,          \* the processes
  req            \* the requests

vars == <<config, tables, applied, writer, mode, rows, tokens, wipes, ran, proc, req>>
database == <<tables, applied, writer, mode, rows, tokens, wipes>>
schema == <<tables, applied, writer>>
sessions == <<rows, tokens, wipes>>

Files == 1..NumFiles
Commands == {"hook", "status", "retention", "configure", "rotate", "start"}

(* Where a command is.  The steps of a command are in this order, and each *)
(* command takes those it needs.                                           *)
ConfigSteps == {"stat", "link", "load", "save"}
MigrateSteps == {"read", "migrate", "record"}
LaterSteps == {"mode", "wipe", "issue", "source", "listen", "serving"}
Steps == {"off", "posting"} \cup ConfigSteps \cup MigrateSteps \cup LaterSteps

Configs == [secrets : Procs, days : Days \cup {30}, mode : Modes \cup {None}]

ASSUME NoneAssumption == None \notin Procs /\ None \notin Configs

(* What Ensure generates on first use.  A process generates once while     *)
(* there is no file, so its name stands for the secrets only it knows.     *)
Generated(p) == [secrets |-> p, days |-> 30, mode |-> None]

Off == [command |-> "hook", pc |-> "off", cfg |-> None, seen |-> {}, at |-> 0,
        token |-> 0]

SignIn(n) == [kind |-> "signin", of |-> n]
Session(r) == [kind |-> "session", of |-> r]
Row(id) == [id |-> id, used |-> FALSE, expired |-> FALSE]
RowOf(id) == {row \in rows : row.id = id}

Serving == \E p \in Procs : proc[p].pc = "serving"

(* ExchangeDashboardToken reads the token with "consumed_at IS NULL AND    *)
(* expires_at > ?"; SessionValid tells whether a session opens the         *)
(* dashboard.                                                              *)
Usable(id) == \E row \in RowOf(id) : ~row.used /\ ~row.expired

NewRequest == [pc |-> "idle", token |-> 0]
NoAnswer == [pc |-> "refused", token |-> 0]
InFlight == {"create", "select", "update", "undo"}
RequestStates == {"idle", "in", "refused", "out"} \cup InFlight

Init ==
  /\ config = None
  /\ tables = {} /\ applied = {} /\ writer = None
  /\ mode = None
  /\ rows = {} /\ tokens = <<>> /\ wipes = 0
  /\ ran = 0
  /\ proc = [p \in Procs |-> Off]
  /\ req = [r \in Requests |-> NewRequest]
-----------------------------------------------------------------------------
(* Commands. *)

Goto(p, pc) == proc' = [proc EXCEPT ![p].pc = pc]
End(p) == proc' = [proc EXCEPT ![p] = Off]

Run(p, command) ==
  /\ proc[p].pc = "off"
  /\ ran < MaxCommands
  /\ ran' = ran + 1
  /\ proc' = [proc EXCEPT ![p] = [Off EXCEPT !.command = command, !.pc = "stat"]]
  /\ UNCHANGED <<config, database, req>>

(* A process that is killed, interrupted or gives up.  SQLite rolls its    *)
(* open transaction back, and a collector takes its requests with it.      *)
Kill(p) ==
  /\ proc[p].pc # "off"
  /\ End(p)
  /\ writer' = IF writer = p THEN None ELSE writer
  /\ req' = IF proc[p].pc = "serving"
            THEN [r \in Requests |-> IF req[r].pc \in InFlight
                                     THEN NoAnswer ELSE req[r]]
            ELSE req
  /\ UNCHANGED <<config, tables, applied, mode, sessions, ran>>
-----------------------------------------------------------------------------
(* config.Ensure and config.Save. *)

(* What a command does with the configuration it was given: a hook posts   *)
(* with its token, two commands change a setting and save all of it, the   *)
(* others open the database.                                               *)
Holding(p, c) ==
  \/ /\ proc[p].command = "hook"
     /\ proc' = [proc EXCEPT ![p].pc = "posting", ![p].cfg = c]
  \/ /\ proc[p].command = "retention"
     /\ \E d \in Days :
          proc' = [proc EXCEPT ![p].pc = "save", ![p].cfg = [c EXCEPT !.days = d]]
  \/ /\ proc[p].command = "configure"
     /\ \E m \in Modes :
          proc' = [proc EXCEPT ![p].pc = "save", ![p].cfg = [c EXCEPT !.mode = m]]
  \/ /\ proc[p].command \in {"status", "rotate", "start"}
     /\ proc' = [proc EXCEPT ![p].pc = "read", ![p].cfg = c]

Stat(p) ==
  /\ proc[p].pc = "stat"
  /\ \/ /\ config # None
        /\ Goto(p, "load")
     \/ /\ config = None
        /\ proc' = [proc EXCEPT ![p].pc = "link", ![p].cfg = Generated(p)]
  /\ UNCHANGED <<config, database, ran, req>>

Load(p) ==
  /\ proc[p].pc = "load"
  /\ Holding(p, config)
  /\ UNCHANGED <<config, database, ran, req>>

(* Defect: the file is renamed into place. *)
Link_Renames(p) ==
  /\ proc[p].pc = "link"
  /\ config' = proc[p].cfg
  /\ Holding(p, proc[p].cfg)
  /\ UNCHANGED <<database, ran, req>>

(* os.Link fails when the file is there: the loser takes the winner's. *)
Link(p) ==
  /\ proc[p].pc = "link"
  /\ \/ /\ config = None
        /\ config' = proc[p].cfg
        /\ Holding(p, proc[p].cfg)
     \/ /\ config # None
        /\ proc' = [proc EXCEPT ![p].pc = "load", ![p].cfg = None]
        /\ UNCHANGED config
  /\ UNCHANGED <<database, ran, req>>

Posted(p) ==
  /\ proc[p].pc = "posting"
  /\ End(p)
  /\ UNCHANGED <<config, database, ran, req>>

Save(p) ==
  /\ proc[p].pc = "save"
  /\ config' = proc[p].cfg
  /\ IF proc[p].command = "retention" THEN End(p) ELSE Goto(p, "read")
  /\ UNCHANGED <<database, ran, req>>
-----------------------------------------------------------------------------
(* store.Migrate. *)

(* CREATE TABLE IF NOT EXISTS schema_migrations, then its rows. *)
Read(p) ==
  /\ proc[p].pc = "read"
  /\ proc' = [proc EXCEPT ![p].pc = "migrate", ![p].seen = applied, ![p].at = 1]
  /\ UNCHANGED <<config, database, ran, req>>

(* A file that was applied when the process read. *)
Skip(p) ==
  /\ proc[p].pc = "migrate"
  /\ proc[p].at \in Files \cap proc[p].seen
  /\ proc' = [proc EXCEPT ![p].at = proc[p].at + 1]
  /\ UNCHANGED <<config, database, ran, req>>

(* Defect: the statements run outside the transaction. *)
Execute_Unprotected(p) ==
  /\ proc[p].pc = "migrate"
  /\ proc[p].at \in Files \ proc[p].seen
  /\ writer = None
  /\ proc[p].at \notin tables
  /\ tables' = tables \cup {proc[p].at}
  /\ writer' = p
  /\ Goto(p, "record")
  /\ UNCHANGED <<config, applied, mode, sessions, ran, req>>

(* The statements of a file.  The transaction has the write lock from its  *)
(* first CREATE on; the process waits for it, and fails if another one     *)
(* created the same by then.                                               *)
Execute(p) ==
  /\ proc[p].pc = "migrate"
  /\ proc[p].at \in Files \ proc[p].seen
  /\ writer = None
  /\ IF proc[p].at \in tables
     THEN End(p) /\ UNCHANGED writer
     ELSE Goto(p, "record") /\ writer' = p
  /\ UNCHANGED <<config, tables, applied, mode, sessions, ran, req>>

(* The row of schema_migrations and the commit. *)
Record(p) ==
  /\ proc[p].pc = "record"
  /\ tables' = tables \cup {proc[p].at}
  /\ applied' = applied \cup {proc[p].at}
  /\ writer' = None
  /\ proc' = [proc EXCEPT ![p].pc = "migrate", ![p].at = proc[p].at + 1]
  /\ UNCHANGED <<config, mode, sessions, ran, req>>

(* No file is left: the command goes on with its own work. *)
Migrated(p) ==
  /\ proc[p].pc = "migrate" /\ proc[p].at = NumFiles + 1
  /\ IF proc[p].command = "status"
     THEN End(p)
     ELSE proc' = [proc EXCEPT ![p].pc = IF proc[p].command = "configure" THEN "mode" ELSE "wipe",
                               ![p].seen = {}, ![p].at = 0]
  /\ UNCHANGED <<config, database, ran, req>>
-----------------------------------------------------------------------------
(* The rest of the commands; each statement is a transaction of its own.   *)

(* SetSourceCaptureMode, the last step of persistCaptureMode. *)
RecordMode(p) ==
  /\ proc[p].pc = "mode"
  /\ mode' = proc[p].cfg.mode
  /\ End(p)
  /\ UNCHANGED <<config, schema, sessions, ran, req>>

(* RotateDashboard empties the table, then issues a token.                 *)
Wipe(p) ==
  /\ proc[p].pc = "wipe"
  /\ rows' = {}
  /\ wipes' = wipes + 1
  /\ Goto(p, "issue")
  /\ UNCHANGED <<config, schema, mode, tokens, ran, req>>

(* `auth rotate` prints the token; the collector prints it once it listens.*)
Issue(p) ==
  /\ proc[p].pc = "issue"
  /\ rows' = rows \cup {Row(SignIn(Len(tokens) + 1))}
  /\ tokens' = Append(tokens, [wipe |-> wipes, printed |-> proc[p].command = "rotate"])
  /\ IF proc[p].command = "rotate"
     THEN End(p)
     ELSE proc' = [proc EXCEPT ![p].pc = "source", ![p].token = Len(tokens) + 1]
  /\ UNCHANGED <<config, schema, mode, wipes, ran, req>>

(* EnsureSource for what the configuration names: a row that is there stays.*)
EnsureSource(p) ==
  /\ proc[p].pc = "source"
  /\ mode' = IF mode = None THEN proc[p].cfg.mode ELSE mode
  /\ Goto(p, "listen")
  /\ UNCHANGED <<config, schema, sessions, ran, req>>

(* net.Listen: the second collector on the address ends, but only now. *)
Listen(p) ==
  /\ proc[p].pc = "listen"
  /\ IF Serving
     THEN End(p) /\ UNCHANGED tokens
     ELSE /\ Goto(p, "serving")
          /\ tokens' = [tokens EXCEPT ![proc[p].token].printed = TRUE]
  /\ UNCHANGED <<config, schema, mode, rows, wipes, ran, req>>

(* handleSetCaptureMode: the page changes the row, and nothing else. *)
SetMode(m) ==
  /\ Serving
  /\ mode' = m
  /\ UNCHANGED <<config, schema, sessions, ran, proc, req>>

(* Time passes: a row is past its expires_at. *)
Expire ==
  /\ \E row \in rows :
       /\ ~row.expired
       /\ rows' = (rows \ {row}) \cup {[row EXCEPT !.expired = TRUE]}
  /\ UNCHANGED <<config, schema, mode, tokens, wipes, ran, proc, req>>
-----------------------------------------------------------------------------
(* Requests: ExchangeDashboardToken and Logout.                            *)

Advance(r, pc) == req' = [req EXCEPT ![r].pc = pc]
Refused(r) == req' = [req EXCEPT ![r] = NoAnswer]

(* A browser opens a sign-in URL that was printed, or opens it again. *)
Exchange(r) ==
  /\ req[r].pc = "idle"
  /\ Serving
  /\ \E n \in DOMAIN tokens :
       /\ tokens[n].printed
       /\ req' = [req EXCEPT ![r] = [pc |-> "create", token |-> n]]
  /\ UNCHANGED <<config, database, ran, proc>>

CreateSession(r) ==
  /\ req[r].pc = "create"
  /\ rows' = rows \cup {Row(Session(r))}
  /\ Advance(r, "select")
  /\ UNCHANGED <<config, schema, mode, tokens, wipes, ran, proc>>

(* ConsumeSession, its two statements. *)
Select(r) ==
  /\ req[r].pc = "select"
  /\ Advance(r, IF Usable(SignIn(req[r].token)) THEN "update" ELSE "undo")
  /\ UNCHANGED <<config, database, ran, proc>>

(* Defect: the UPDATE does not ask for "consumed_at IS NULL" again. *)
Update_Unchecked(r) ==
  LET row == RowOf(SignIn(req[r].token))
  IN /\ req[r].pc = "update"
     /\ rows' = (rows \ row) \cup {[t EXCEPT !.used = TRUE] : t \in row}
     /\ Advance(r, IF row = {} THEN "undo" ELSE "in")
     /\ UNCHANGED <<config, schema, mode, tokens, wipes, ran, proc>>

(* The UPDATE asks for "consumed_at IS NULL" again, and counts. *)
Update(r) ==
  LET row == {t \in RowOf(SignIn(req[r].token)) : ~t.used}
  IN /\ req[r].pc = "update"
     /\ rows' = (rows \ row) \cup {[t EXCEPT !.used = TRUE] : t \in row}
     /\ Advance(r, IF row = {} THEN "undo" ELSE "in")
     /\ UNCHANGED <<config, schema, mode, tokens, wipes, ran, proc>>

(* A statement fails, for a lock or because the browser went away. *)
Fails(r) ==
  /\ \/ req[r].pc = "create" /\ Refused(r)
     \/ req[r].pc \in {"select", "update"} /\ Advance(r, "undo")
     \/ req[r].pc = "undo" /\ Refused(r)
  /\ UNCHANGED <<config, database, ran, proc>>

(* DeleteSession of the session that is not handed out. *)
Undo(r) ==
  /\ req[r].pc = "undo"
  /\ rows' = rows \ RowOf(Session(r))
  /\ Refused(r)
  /\ UNCHANGED <<config, schema, mode, tokens, wipes, ran, proc>>

Logout(r) ==
  /\ req[r].pc = "in"
  /\ Serving
  /\ rows' = rows \ RowOf(Session(r))
  /\ Advance(r, "out")
  /\ UNCHANGED <<config, schema, mode, tokens, wipes, ran, proc>>
-----------------------------------------------------------------------------
Command(p) ==
  \/ \E command \in Commands : Run(p, command)
  \/ Kill(p)
  \/ Stat(p) \/ Load(p) \/ Link(p) \/ Posted(p) \/ Save(p)
  \/ Read(p) \/ Skip(p) \/ Execute(p) \/ Record(p) \/ Migrated(p)
  \/ RecordMode(p) \/ Wipe(p) \/ Issue(p) \/ EnsureSource(p) \/ Listen(p)

Request(r) ==
  \/ Exchange(r) \/ CreateSession(r) \/ Select(r) \/ Update(r)
  \/ Fails(r) \/ Undo(r) \/ Logout(r)

Next ==
  \/ \E p \in Procs : Command(p)
  \/ \E r \in Requests : Request(r)
  \/ \E m \in Modes : SetMode(m)
  \/ Expire

Spec == Init /\ [][Next]_vars
-----------------------------------------------------------------------------
(* Properties. *)

Processes ==
  [command : Commands, pc : Steps, cfg : Configs \cup {None}, seen : SUBSET Files,
   at : 0..(NumFiles + 1), token : 0..MaxCommands]

RowIds == {SignIn(n) : n \in 1..MaxCommands} \cup {Session(r) : r \in Requests}

(* The files, tables, processes and requests have their types; a process   *)
(* past config.Ensure holds a configuration, and a session has one row.    *)
TypeOK ==
  /\ config \in Configs \cup {None}
  /\ tables \subseteq Files /\ applied \subseteq Files
  /\ writer \in Procs \cup {None}
  /\ mode \in Modes \cup {None}
  /\ rows \subseteq [id : RowIds, used : BOOLEAN, expired : BOOLEAN]
  /\ \A row \in rows : RowOf(row.id) = {row}
  /\ Len(tokens) <= MaxCommands
  /\ \A n \in DOMAIN tokens : tokens[n] \in [wipe : 0..wipes, printed : BOOLEAN]
  /\ wipes \in 0..MaxCommands /\ ran \in 0..MaxCommands
  /\ proc \in [Procs -> Processes]
  /\ \A p \in Procs : proc[p].pc \notin {"off", "stat", "load"} => proc[p].cfg # None
  /\ req \in [Requests -> [pc : RequestStates, token : 0..MaxCommands]]

(* Whatever processes start first and at the same time, and whatever they  *)
(* save later, every command works with the secrets that are in the file:  *)
(* a hook's ingest token is the one the collector compares with            *)
(* (config.go, Ensure and Save).                                           *)
OneSetOfSecrets ==
  \A p \in Procs :
    proc[p].cfg # None /\ proc[p].pc # "link" =>
      config # None /\ proc[p].cfg.secrets = config.secrets

(* Migrations that are killed or run at the same time leave a schema that  *)
(* the next command can open: what was executed is what is recorded, it is *)
(* a beginning of the embedded files, and a command that goes on to its    *)
(* own work finds all of them (migrate.go).                                *)
SchemaIsWhole ==
  /\ writer = None => tables = applied
  /\ \A f \in applied : 1..f \subseteq applied
  /\ \A p \in Procs : proc[p].pc \in LaterSteps => applied = Files

(* At most one request is ever answered with a session for a sign-in       *)
(* token, however the two statements of ConsumeSession interleave.         *)
SignsInOnce ==
  \A r, s \in Requests :
    r # s /\ {req[r].pc, req[s].pc} \subseteq {"in", "out"} => req[r].token # req[s].token

(* A session that still opens the dashboard was given for a sign-in token  *)
(* issued after the last rotation, although a rotation is another process  *)
(* and may come between any two statements of the exchange (auth.go:86-88, *)
(* start.go:69-70).                                                        *)
RotationEndsSessions ==
  \A r \in Requests :
    req[r].pc = "in" /\ Usable(Session(r)) => tokens[req[r].token].wipe = wipes

SessionsFollowTokens == SignsInOnce /\ RotationEndsSessions
=============================================================================
