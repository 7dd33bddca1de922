------------------------------- MODULE Startup -------------------------------
(***************************************************************************)
(* How processes of the gateway come up and go: configuration from file    *)
(* and environment (config/config.go), the schema of the database          *)
(* (whatsapp/migrate.go), the two modes (cmd/server/main.go) and the       *)
(* server with its deadlines (server/server.go).  A process ends at any    *)
(* step; several may use one database.                                     *)
(***************************************************************************)
EXTENDS Integers, Sequences

CONSTANTS
    Processes,
    Files,        \* config.yaml as it may be: [parses, says]
    Environments, \* the environment as it may be: texts of some settings
    Uploads       \* how long sends may take before WhatsApp is waited for

ASSUME StartupAssumption == Uploads \subseteq Nat

Nothing == [x \in {} |-> x]

VARIABLES
    db,      \* for each driver, the schema there is
    pc,      \* for each process, where in main it is
    given,   \* what it was given, and the configuration made from it
    at,      \* runWAMigrations: the version, and the statements done of the next one
    server,  \* its stores, routes and the request it serves
    torn     \* history: drivers whose migration was broken off between the column
             \* and its version, or that two processes migrated at once

vars == <<db, pc, given, at, server, torn>>

-----------------------------------------------------------------------------
(* Configuration.  Every setting is a text; a duration is a number of       *)
(* quarter minutes.  A setting of each kind is modelled; the others are     *)
(* treated like one of them.                                                *)

SendAckTimeout == 5

Defaults ==
    [instanceMode |-> "single", driver |-> "sqlite", publishVia |-> "webhook",
     redisMode |-> "", port |-> "8080", mediaSlots |-> "2", redact |-> "on",
     writeTimeout |-> "90s", shutdownTimeout |-> "10s"]
Settings == DOMAIN Defaults

\* What the environment can set, and how: a text, a number, a number that is
\* not negative, a switch.
Variables ==
    [instanceMode |-> "text", driver |-> "text", publishVia |-> "text", redisMode |-> "text",
     port |-> "number", mediaSlots |-> "count", redact |-> "switch"]

IsNumber(text) == text \in {"8080", "9090", "0", "2", "4", "-1"}
IsCount(text)  == IsNumber(text) /\ text # "-1"

FromFile(cfg, file) == [s \in Settings |-> IF s \in DOMAIN file THEN file[s] ELSE cfg[s]]

\* An empty variable is none, and so is a number that does not parse.
ApplyEnv(cfg, env) ==
    [s \in Settings |->
       LET text == IF s \in DOMAIN env THEN env[s] ELSE ""
           kind == Variables[s]
       IN  IF \/ text = "" \/ s \notin DOMAIN Variables
              \/ kind = "number" /\ ~IsNumber(text)
              \/ kind = "count" /\ ~IsCount(text)
           THEN cfg[s]
           ELSE IF kind = "switch" THEN (IF text \in {"true", "True", "1"} THEN "on" ELSE "off")
           ELSE text]

Allowed ==
    [instanceMode |-> {"single", "multi"}, publishVia |-> {"none", "webhook", "redis"},
     driver |-> {"sqlite", "postgres"}, redisMode |-> {"", "standalone", "sentinel"}]

Validate(cfg) == \A s \in DOMAIN Allowed : cfg[s] \in Allowed[s]

\* Mutation: the environment comes after the checks.
LoadChecksFile(file, env) ==
    LET read == FromFile(Defaults, file.says)
    IN  IF file.parses /\ Validate(read) THEN {ApplyEnv(read, env)} ELSE {}

\* Load: the one configuration, or none.
Load(file, env) ==
    LET cfg == ApplyEnv(FromFile(Defaults, file.says), env)
    IN  IF file.parses /\ Validate(cfg) THEN {cfg} ELSE {}

\* A duration that does not parse, or is zero, is the default.
Duration(text, default) ==
    CASE text = "10s" -> 1 [] text = "60s" -> 4 [] text = "75s" -> 5 [] text = "90s" -> 6
      [] text = "120s" -> 8 [] OTHER -> default
WriteTimeoutDuration(cfg)    == Duration(cfg.writeTimeout, 6)
ShutdownTimeoutDuration(cfg) == Duration(cfg.shutdownTimeout, 1)

-----------------------------------------------------------------------------
(* The schema. *)

Dialects == Allowed.driver
Tables   == {"wsapi_chats", "wsapi_contacts", "wsapi_history_sync_messages", "wsapi_instances"}
Column   == "publish_events"

\* allWAMigrations: what their statements make.
Migrations ==
    <<<<"wsapi_chats", "wsapi_contacts", "wsapi_history_sync_messages", "wsapi_instances">>,
      <<Column>>>>

\* device: whatsmeow's table.  versions: the rows of wsapi_version.
Empty  == [device |-> FALSE, has |-> {}, versionTable |-> FALSE, versions |-> <<>>]
\* What the release before the second migration has left.
Before == [device |-> TRUE, has |-> Tables, versionTable |-> TRUE, versions |-> <<1>>]

\* Mutation: no ADD COLUMN has an IF NOT EXISTS.
RefusesTwice(dialect, what) ==
    what = Column /\ ({"wsapi_instances", Column} \cap db[dialect].has) # {"wsapi_instances"}

\* SQLite cannot add a column that is there; PostgreSQL refuses a foreign
\* key into a table that is not.
Refuses(dialect, what) ==
    IF what = Column
    THEN \/ "wsapi_instances" \notin db[dialect].has
         \/ dialect = "sqlite" /\ Column \in db[dialect].has
    ELSE /\ dialect = "postgres" /\ what # "wsapi_instances"
         /\ what \notin db[dialect].has /\ ~db[dialect].device

-----------------------------------------------------------------------------
(* A process. *)

NoGiven  == [cfg |-> Defaults, file |-> Nothing, env |-> Nothing]
NoAt     == [version |-> 0, done |-> 0]
NoCall   == [busy |-> FALSE, age |-> 0, left |-> 0, upload |-> 0]
NoServer == [store |-> FALSE, admin |-> FALSE, auth |-> "none", warned |-> FALSE,
             call |-> NoCall, cut |-> "no", drain |-> 0]

Goto(p, step) == pc' = [pc EXCEPT ![p] = step]
Driver(p)     == given[p].cfg.driver

\* At work on the schema of a database.
Migrating(p, d) == pc[p] \in {"read", "insert", "migrate", "update"} /\ Driver(p) = d

Over(p) ==
    /\ Goto(p, "off")
    /\ given' = [given EXCEPT ![p] = NoGiven]
    /\ at' = [at EXCEPT ![p] = NoAt]
    /\ server' = [server EXCEPT ![p] = NoServer]

\* A statement that fails, os.Exit, or a crash: nothing that was deferred is
\* done.
Ends(p) ==
    /\ pc[p] # "off"
    /\ torn' = torn \cup {d \in {Driver(p)} : pc[p] = "update" /\ at[p].version = 1}
    /\ Over(p)
    /\ UNCHANGED db

\* main up to the opening of the database: a configuration that is no good
\* ends the process at once.  Bound: nothing starts while a request is served.
Start(p) ==
    /\ pc[p] = "off"
    /\ \A q \in Processes : ~server[q].call.busy
    /\ \E file \in Files, env \in Environments : \E cfg \in Load(file, env) :
         given' = [given EXCEPT ![p] = [cfg |-> cfg, file |-> file.says, env |-> env]]
    /\ Goto(p, "container")
    /\ UNCHANGED <<db, at, server, torn>>

\* whatsmeow makes or upgrades its tables.
OpenContainer(p) ==
    /\ pc[p] = "container"
    /\ db' = [db EXCEPT ![Driver(p)].device = TRUE]
    /\ Goto(p, "versionTable")
    /\ UNCHANGED <<given, at, server, torn>>

CreateVersionTable(p) ==
    /\ pc[p] = "versionTable"
    /\ db' = [db EXCEPT ![Driver(p)].versionTable = TRUE]
    /\ Goto(p, "read")
    /\ torn' = torn \cup {d \in {Driver(p)} : \E q \in Processes \ {p} : Migrating(q, d)}
    /\ UNCHANGED <<given, at, server>>

\* The next migration, or what comes after the last.
Proceed(p, version) ==
    /\ at' = [at EXCEPT ![p] = [version |-> version, done |-> 0]]
    /\ Goto(p, IF version < Len(Migrations) THEN "migrate" ELSE "provision")

\* Some row, if there are several: two processes may both have found none.
ReadVersion(p) ==
    /\ pc[p] = "read"
    /\ LET versions == db[Driver(p)].versions
       IN  \/ versions = <<>> /\ Goto(p, "insert") /\ UNCHANGED at
           \/ \E i \in DOMAIN versions : Proceed(p, versions[i])
    /\ UNCHANGED <<db, given, server, torn>>

InsertVersion(p) ==
    /\ pc[p] = "insert"
    /\ db' = [db EXCEPT ![Driver(p)].versions = Append(@, 0)]
    /\ Proceed(p, 0)
    /\ UNCHANGED <<given, server, torn>>

Pending(p)   == Migrations[at[p].version + 1]
Statement(p) == Pending(p)[at[p].done + 1]

\* A statement is done.
Advance(p) ==
    IF at[p].done + 1 < Len(Pending(p))
    THEN at' = [at EXCEPT ![p].done = @ + 1] /\ UNCHANGED pc
    ELSE Goto(p, "update") /\ UNCHANGED at

\* Mutation: the version is written before the migration, not after it.
MigrateRecorded(p) ==
    /\ pc[p] = "migrate"
    /\ IF Refuses(Driver(p), Statement(p))
       THEN Goto(p, "refused") /\ UNCHANGED <<db, at>>
       ELSE /\ db' = [db EXCEPT ![Driver(p)].has = @ \cup {Statement(p)},
                               ![Driver(p)].versions = [i \in DOMAIN @ |-> at[p].version + 1]]
            /\ Advance(p)
    /\ UNCHANGED <<given, server, torn>>

\* One statement of a migration.
Migrate(p) ==
    /\ pc[p] = "migrate"
    /\ IF Refuses(Driver(p), Statement(p))
       THEN Goto(p, "refused") /\ UNCHANGED <<db, at>>
       ELSE db' = [db EXCEPT ![Driver(p)].has = @ \cup {Statement(p)}] /\ Advance(p)
    /\ UNCHANGED <<given, server, torn>>

\* The version is written, to all rows, whatever it was.
UpdateVersion(p) ==
    /\ pc[p] = "update"
    /\ db' = [db EXCEPT ![Driver(p)].versions = [i \in DOMAIN @ |-> at[p].version + 1]]
    /\ Proceed(p, at[p].version + 1)
    /\ UNCHANGED <<given, server, torn>>

\* The store, and RestoreInstances or EnsureSingleInstance; the first reads
\* the table of instances.
Provision(p) ==
    /\ pc[p] = "provision"
    /\ LET store == given[p].cfg.instanceMode # "single"
       IN  /\ server' = [server EXCEPT ![p].store = store]
           /\ Goto(p, IF store /\ ~({"wsapi_instances", Column} \subseteq db[Driver(p)].has)
                      THEN "refused" ELSE "routes")
    /\ UNCHANGED <<db, given, at, torn>>

\* Mutation: a deadline that falls together with the answer is long enough.
WarnsLate(cfg) == WriteTimeoutDuration(cfg) < SendAckTimeout

\* Server.Run warns of a deadline that is too short.
Warns(cfg) == WriteTimeoutDuration(cfg) <= SendAckTimeout

\* The routes of the mode, and Server.Run.
Serve(p) ==
    /\ pc[p] = "routes"
    /\ LET cfg == given[p].cfg
       IN  server' = [server EXCEPT ![p].admin = cfg.instanceMode = "multi",
                        ![p].auth = IF cfg.instanceMode = "single" THEN "default" ELSE "header",
                        ![p].warned = Warns(cfg)]
    /\ Goto(p, "serving")
    /\ UNCHANGED <<db, given, at, torn>>

-----------------------------------------------------------------------------
(* The server.  Bound: one request at a time, a send to which WhatsApp does *)
(* not answer, while no other process runs.                                 *)

SendStalls(p, upload) ==
    /\ pc[p] = "serving" /\ ~server[p].call.busy /\ server[p].cut = "no"
    /\ \A q \in Processes \ {p} : pc[q] = "off"
    /\ server' = [server EXCEPT ![p].call =
         [busy |-> TRUE, age |-> 0, left |-> upload + SendAckTimeout, upload |-> upload]]
    /\ UNCHANGED <<db, pc, given, at, torn>>

\* A quarter of a minute; Shutdown waits no longer than it is told.
TimePasses(p) ==
    /\ server[p].call.busy /\ server[p].call.left > 0
    /\ pc[p] = "draining" => server[p].drain > 0
    /\ server' = [server EXCEPT ![p].call.age = @ + 1, ![p].call.left = @ - 1,
         ![p].drain = IF pc[p] = "draining" THEN @ - 1 ELSE @]
    /\ UNCHANGED <<db, pc, given, at, torn>>

\* The handler gives its answer, and net/http writes it unless the deadline,
\* which counts from the request, is over.
Answer(p) ==
    /\ server[p].call.busy /\ server[p].call.left = 0
    /\ server' = [server EXCEPT ![p].call = NoCall,
         ![p].cut = IF server[p].call.age < WriteTimeoutDuration(given[p].cfg) THEN @
                    ELSE IF server[p].call.upload = 0 THEN "deadline" ELSE "upload"]
    /\ UNCHANGED <<db, pc, given, at, torn>>

Signal(p) ==
    /\ pc[p] = "serving"
    /\ server' = [server EXCEPT ![p].drain = ShutdownTimeoutDuration(given[p].cfg)]
    /\ Goto(p, "draining")
    /\ UNCHANGED <<db, given, at, torn>>

\* Run returns when no request is left, and the deferred calls are made, or
\* when the time is over, and os.Exit skips them.
Stop(p) ==
    /\ pc[p] = "draining"
    /\ server[p].call.busy => server[p].drain = 0 /\ server[p].call.left > 0
    /\ Over(p)
    /\ UNCHANGED <<db, torn>>

-----------------------------------------------------------------------------
Init ==
    /\ db \in [Dialects -> {Empty, Before}]
    /\ pc = [p \in Processes |-> "off"]
    /\ given = [p \in Processes |-> NoGiven]
    /\ at = [p \in Processes |-> NoAt]
    /\ server = [p \in Processes |-> NoServer]
    /\ torn = {}

Next ==
    \E p \in Processes :
        \/ Start(p) \/ Ends(p) \/ OpenContainer(p) \/ CreateVersionTable(p)
        \/ ReadVersion(p) \/ InsertVersion(p) \/ Migrate(p) \/ UpdateVersion(p)
        \/ Provision(p) \/ Serve(p)
        \/ \E upload \in Uploads : SendStalls(p, upload)
        \/ TimePasses(p) \/ Answer(p) \/ Signal(p) \/ Stop(p)

Spec == Init /\ [][Next]_vars

-----------------------------------------------------------------------------
(* Properties. *)

\* What a version number says of a schema.
Justifies(d, version) ==
    \A i \in 1..version : \A j \in DOMAIN Migrations[i] : Migrations[i][j] \in db[d].has

\* Whoever serves requests finds all tables and columns the stores use, and
\* no version claims a migration that is not complete, wherever processes
\* ended before and however many migrated at once.
SchemaComplete ==
    /\ \A p \in Processes : pc[p] \in {"routes", "serving", "draining"} =>
         Justifies(Driver(p), Len(Migrations)) /\ db[Driver(p)].device
    /\ \A d \in Dialects : \A i \in DOMAIN db[d].versions : Justifies(d, db[d].versions[i])

\* No statement of a start is refused for what the schema is like
\* (Database-Setup.md:73, "no manual steps needed"), with one exception: on
\* SQLite, after a process that ended between the new column and its version,
\* or that had company.
StartsAgain ==
    \A p \in Processes : pc[p] = "refused" => Driver(p) = "sqlite" /\ Driver(p) \in torn

\* The settings in use are those of the environment over those of the file
\* over the defaults (Configuration.md:5), what is not a value apart; they
\* are all allowed, and the process is in one mode altogether: the store,
\* the administrator's routes and the header that names the instance, or
\* none of the three.
SettingsTakeEffect ==
    \A p \in Processes : pc[p] \in {"serving", "draining"} =>
        LET me     == given[p]
            Set(s) == s \in DOMAIN me.env \cap DOMAIN Variables /\ me.env[s] # ""
        IN  /\ \A s \in Settings :
                 /\ ~Set(s) => me.cfg[s] = IF s \in DOMAIN me.file THEN me.file[s] ELSE Defaults[s]
                 /\ Set(s) /\ Variables[s] = "text" => me.cfg[s] = me.env[s]
                 /\ Set(s) /\ Variables[s] # "switch" /\ IsCount(me.env[s]) => me.cfg[s] = me.env[s]
            /\ Validate(me.cfg)
            /\ server[p].store = server[p].admin
            /\ server[p].admin = (server[p].auth = "header")

\* A send that stalls, and has nothing to upload, is answered, or the process
\* has warned at its start that it would not be (server.go:48).
CutsAreAnnounced ==
    \A p \in Processes : server[p].cut = "deadline" => server[p].warned
=============================================================================
