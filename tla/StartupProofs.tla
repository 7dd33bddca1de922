---------------------------- MODULE StartupProofs ----------------------------
(***************************************************************************)
(* Invariants of Startup for any number of processes, any files and any    *)
(* environments.                                                           *)
(*                                                                         *)
(* What a process has done of a migration tells what the database has      *)
(* (Reached), and nothing is ever taken away; so versions are justified.   *)
(* As long as no migration was torn, there is one at most, and Tidy says   *)
(* where a database with the new column can be.                            *)
(* Deadlines and settings need only what each step does to one process.    *)
(***************************************************************************)
EXTENDS Startup, TLAPS

Steps == {"off", "container", "versionTable", "read", "insert", "migrate", "update",
          "provision", "routes", "serving", "draining", "refused"}

Schema == [device : BOOLEAN, has : SUBSET (Tables \cup {Column}),
           versionTable : BOOLEAN, versions : Seq(0..2)]

\* Types; a process has a driver, since its configuration is valid.
TypeInv ==
    /\ db \in [Dialects -> Schema]
    /\ pc \in [Processes -> Steps]
    /\ at \in [Processes -> [version : 0..2, done : 0..3]]
    /\ DOMAIN given = Processes
    /\ \A p \in Processes : Driver(p) \in Dialects

\* What a process has behind it is in its database.
Reached(p) ==
    /\ pc[p] \notin {"off", "container"} => db[Driver(p)].device
    /\ pc[p] = "migrate" =>
         /\ at[p].version < 2 /\ at[p].done < Len(Pending(p))
         /\ Justifies(Driver(p), at[p].version)
         /\ \A j \in 1..at[p].done : Pending(p)[j] \in db[Driver(p)].has
    /\ pc[p] = "update" => at[p].version < 2 /\ Justifies(Driver(p), at[p].version + 1)
    /\ pc[p] \in {"provision", "routes", "serving", "draining"} => Justifies(Driver(p), 2)

Justified ==
    \A d \in Dialects : \A i \in DOMAIN db[d].versions : Justifies(d, db[d].versions[i])

SchemaInv == TypeInv /\ (\A p \in Processes : Reached(p)) /\ Justified

\* A process that migrates has found a version or written one.
HasVersion(p) == pc[p] \in {"migrate", "update"} => db[Driver(p)].versions # <<>>

\* The column is still to come.
BeforeColumn(p) == pc[p] \in {"insert", "migrate"} \/ (pc[p] = "update" /\ at[p].version = 0)

\* The column has come, its version not yet.
AfterColumn(p) == pc[p] = "update" /\ at[p].version = 1

Alone(d) == \A p, q \in Processes : Migrating(p, d) /\ Migrating(q, d) => p = q

ColumnLast(d) ==
    \A p \in Processes : Driver(p) = d /\ BeforeColumn(p) => Column \notin db[d].has

ColumnKnown(d) ==
    Column \in db[d].has =>
        \/ db[d].versions # <<>> /\ \A i \in DOMAIN db[d].versions : db[d].versions[i] = 2
        \/ \E p \in Processes : Driver(p) = d /\ AfterColumn(p)

Tidy(d) == d \notin torn => Alone(d) /\ ColumnLast(d) /\ ColumnKnown(d)

TidyInv ==
    /\ \A p \in Processes : HasVersion(p)
    /\ \A d \in Dialects : Tidy(d)
    /\ StartsAgain

-----------------------------------------------------------------------------
(* The migrations. *)

LEMMA MigrationFacts ==
    /\ Len(Migrations) = 2
    /\ Len(Migrations[1]) = 4 /\ Len(Migrations[2]) = 1
    /\ DOMAIN Migrations[1] = 1..4 /\ DOMAIN Migrations[2] = 1..1
    /\ \A j \in 1..4 : Migrations[1][j] \in Tables
    /\ Migrations[1][4] = "wsapi_instances"
    /\ Migrations[2][1] = Column
    /\ Column \notin Tables
BY DEF Migrations, Tables, Column

LEMMA DriversAllowed == Dialects = {"sqlite", "postgres"}
BY DEF Dialects, Allowed

\* The first version is justified by the tables, the second by the column too.
LEMMA JustifiesFacts ==
    ASSUME NEW d
    PROVE  /\ Justifies(d, 0)
           /\ Justifies(d, 1) <=> \A j \in 1..4 : Migrations[1][j] \in db[d].has
           /\ Justifies(d, 2) <=> Justifies(d, 1) /\ Column \in db[d].has
BY MigrationFacts DEF Justifies

\* Nothing is ever taken away from a database.
Grows ==
    \A d \in Dialects : /\ db[d].device => db'[d].device
                        /\ db[d].has \subseteq db'[d].has

LEMMA JustifiesGrows ==
    ASSUME Grows, NEW d \in Dialects, NEW v, Justifies(d, v)
    PROVE  Justifies(d, v)'
BY DEF Justifies, Grows

\* The other processes keep what they have reached.
LEMMA ReachedGrows ==
    ASSUME TypeInv, Grows, NEW p \in Processes, Reached(p),
           pc'[p] = pc[p], given'[p] = given[p], at'[p] = at[p]
    PROVE  Reached(p)'
<1>1. Driver(p)' = Driver(p) /\ Pending(p)' = Pending(p)
  BY DEF Driver, Pending
<1>2. Driver(p) \in Dialects
  BY DEF TypeInv
<1>3. db[Driver(p)].has \subseteq db'[Driver(p)].has
  BY <1>2 DEF Grows
<1>4. db[Driver(p)].device => db'[Driver(p)].device
  BY <1>2 DEF Grows
<1>5. ASSUME NEW v, Justifies(Driver(p), v)
      PROVE  Justifies(Driver(p), v)'
  BY <1>1, <1>3, <1>5 DEF Justifies
<1>. QED
  BY <1>1, <1>3, <1>4, <1>5 DEF Reached

OthersStay(p) ==
    \A q \in Processes \ {p} : pc'[q] = pc[q] /\ given'[q] = given[q] /\ at'[q] = at[q]

VersionsStay == \A d \in Dialects : db'[d].versions = db[d].versions

LEMMA ReachedOthers ==
    ASSUME SchemaInv, Grows, NEW p \in Processes, OthersStay(p), Reached(p)'
    PROVE  \A q \in Processes : Reached(q)'
BY ReachedGrows DEF SchemaInv, OthersStay

LEMMA JustifiedGrows ==
    ASSUME SchemaInv, Grows, VersionsStay
    PROVE  Justified'
<1>. SUFFICES ASSUME NEW d \in Dialects, NEW i \in DOMAIN db[d].versions
              PROVE  Justifies(d, db[d].versions[i])'
  BY DEF Justified, VersionsStay
<1>1. Justifies(d, db[d].versions[i])
  BY DEF SchemaInv, Justified
<1>2. db'[d].versions[i] = db[d].versions[i]
  BY DEF VersionsStay
<1>3. db[d].has \subseteq db'[d].has
  BY DEF Grows
<1>. QED
  BY <1>1, <1>2, <1>3 DEF Justifies

\* A step of one process that writes no version.
LEMMA SchemaFrame ==
    ASSUME SchemaInv, TypeInv', Grows, VersionsStay,
           NEW p \in Processes, OthersStay(p), Reached(p)'
    PROVE  SchemaInv'
BY ReachedOthers, JustifiedGrows DEF SchemaInv

-----------------------------------------------------------------------------
(* SchemaInv. *)

LEMMA SchemaInit == Init => SchemaInv
<1>. SUFFICES ASSUME Init PROVE SchemaInv
  OBVIOUS
<1>1. \A d \in Dialects : db[d] = Empty \/ db[d] = Before
  BY DEF Init
<1>2. Empty \in Schema /\ Before \in Schema
  BY DEF Empty, Before, Schema, Tables
<1>3. db \in [Dialects -> Schema]
  BY <1>1, <1>2 DEF Init
<1>4. TypeInv
  <2>1. \A p \in Processes : Driver(p) = "sqlite"
    BY DEF Init, Driver, NoGiven, Defaults
  <2>2. NoAt \in [version : 0..2, done : 0..3]
    BY DEF NoAt
  <2>. QED
    BY <1>3, <2>1, <2>2, DriversAllowed DEF Init, TypeInv, Steps
<1>5. ASSUME NEW d \in Dialects, NEW i \in DOMAIN db[d].versions
      PROVE  Justifies(d, db[d].versions[i])
  <2>1. DOMAIN Empty.versions = {}
    BY DEF Empty
  <2>2. DOMAIN Before.versions = 1..1 /\ Before.versions[1] = 1
    BY DEF Before
  <2>3. db[d] = Before /\ db[d].versions[i] = 1
    BY <1>1, <1>5, <2>1, <2>2
  <2>4. db[d].has = Tables
    BY <2>3 DEF Before
  <2>. QED
    BY <2>3, <2>4, JustifiesFacts, MigrationFacts
<1>6. \A p \in Processes : Reached(p)
  BY DEF Init, Reached
<1>. QED
  BY <1>4, <1>5, <1>6 DEF SchemaInv, Justified

\* A process that is over has reached nothing.
LEMMA OverSchema ==
    ASSUME SchemaInv, NEW p \in Processes, Over(p), db' = db
    PROVE  SchemaInv'
<1>1. Grows /\ VersionsStay
  BY DEF Grows, VersionsStay
<1>2. OthersStay(p) /\ pc'[p] = "off"
  BY DEF SchemaInv, TypeInv, Over, Goto, OthersStay
<1>3. TypeInv'
  <2>1. \A q \in Processes : Driver(q)' \in Dialects
    BY DriversAllowed DEF SchemaInv, TypeInv, Over, Driver, NoGiven, Defaults
  <2>. QED
    BY <2>1 DEF SchemaInv, TypeInv, Over, Goto, Steps, NoAt
<1>4. Reached(p)'
  BY <1>2 DEF Reached
<1>. QED
  BY <1>1, <1>2, <1>3, <1>4, SchemaFrame

LEMMA StartSchema ==
    ASSUME SchemaInv, NEW p \in Processes, Start(p)
    PROVE  SchemaInv'
<1>. PICK file \in Files, env \in Environments : \E cfg \in Load(file, env) :
        given' = [given EXCEPT ![p] = [cfg |-> cfg, file |-> file.says, env |-> env]]
  BY DEF Start
<1>. PICK cfg \in Load(file, env) :
        given' = [given EXCEPT ![p] = [cfg |-> cfg, file |-> file.says, env |-> env]]
  OBVIOUS
<1>1. Grows /\ VersionsStay
  BY DEF Start, Grows, VersionsStay
<1>2. OthersStay(p) /\ pc'[p] = "container"
  BY DEF SchemaInv, TypeInv, Start, Goto, OthersStay
<1>3. TypeInv'
  <2>1. cfg["driver"] \in Dialects
    BY DEF Load, Validate, Allowed, Dialects
  <2>2. \A q \in Processes : Driver(q)' \in Dialects
    BY <2>1 DEF SchemaInv, TypeInv, Driver
  <2>. QED
    BY <2>2 DEF SchemaInv, TypeInv, Start, Goto, Steps
<1>4. Reached(p)'
  BY <1>2 DEF Reached
<1>. QED
  BY <1>1, <1>2, <1>3, <1>4, SchemaFrame

\* Steps that change neither the database nor what a process has to do there.
LEMMA QuietSchema ==
    ASSUME SchemaInv, NEW p \in Processes, db' = db, given' = given, at' = at,
           NEW to \in {"routes", "serving", "draining", "refused"},
           pc' = pc \/ Goto(p, to),
           pc' = pc \/ pc[p] \in {"provision", "routes", "serving"}
    PROVE  SchemaInv'
<1>1. Grows /\ VersionsStay
  BY DEF Grows, VersionsStay
<1>2. OthersStay(p)
  BY DEF SchemaInv, TypeInv, Goto, OthersStay
<1>3. TypeInv'
  BY DEF SchemaInv, TypeInv, Goto, Steps, Driver
<1>4. Reached(p)'
  <2>1. CASE pc' = pc
    BY <1>1, <1>3, <2>1, ReachedGrows DEF SchemaInv
  <2>2. CASE Goto(p, to) /\ pc[p] \in {"provision", "routes", "serving"}
    <3>1. pc'[p] = to
      BY <2>2 DEF SchemaInv, TypeInv, Goto
    <3>2. db[Driver(p)].device /\ Justifies(Driver(p), 2)
      BY <2>2 DEF SchemaInv, Reached
    <3>3. Justifies(Driver(p), 2)'
      BY <3>2 DEF Justifies, Driver
    <3>. QED
      BY <3>1, <3>2, <3>3 DEF Reached, Driver
  <2>. QED
    BY <2>1, <2>2
<1>. QED
  BY <1>1, <1>2, <1>3, <1>4, SchemaFrame

LEMMA OpenContainerSchema ==
    ASSUME SchemaInv, NEW p \in Processes, OpenContainer(p)
    PROVE  SchemaInv'
<1>. Driver(p) \in Dialects
  BY DEF SchemaInv, TypeInv
<1>1. Grows /\ VersionsStay
  BY DEF SchemaInv, TypeInv, Schema, OpenContainer, Grows, VersionsStay
<1>2. OthersStay(p) /\ pc'[p] = "versionTable"
  BY DEF SchemaInv, TypeInv, OpenContainer, Goto, OthersStay
<1>3. TypeInv'
  BY DEF SchemaInv, TypeInv, Schema, OpenContainer, Goto, Steps, Driver
<1>4. Reached(p)'
  <2>1. db'[Driver(p)].device
    BY DEF SchemaInv, TypeInv, Schema, OpenContainer
  <2>2. Driver(p)' = Driver(p)
    BY DEF OpenContainer, Driver
  <2>. QED
    BY <1>2, <2>1, <2>2 DEF Reached
<1>. QED
  BY <1>1, <1>2, <1>3, <1>4, SchemaFrame

LEMMA CreateVersionTableSchema ==
    ASSUME SchemaInv, NEW p \in Processes, CreateVersionTable(p)
    PROVE  SchemaInv'
<1>. Driver(p) \in Dialects
  BY DEF SchemaInv, TypeInv
<1>1. Grows /\ VersionsStay
  BY DEF SchemaInv, TypeInv, Schema, CreateVersionTable, Grows, VersionsStay
<1>2. OthersStay(p) /\ pc'[p] = "read"
  BY DEF SchemaInv, TypeInv, CreateVersionTable, Goto, OthersStay
<1>3. TypeInv'
  BY DEF SchemaInv, TypeInv, Schema, CreateVersionTable, Goto, Steps, Driver
<1>4. Reached(p)'
  <2>1. Driver(p)' = Driver(p)
    BY DEF CreateVersionTable, Driver
  <2>2. db[Driver(p)].device
    BY DEF SchemaInv, Reached, CreateVersionTable
  <2>. QED
    BY <1>1, <1>2, <2>1, <2>2 DEF Reached, Grows
<1>. QED
  BY <1>1, <1>2, <1>3, <1>4, SchemaFrame

\* What a version that is justified lets a process go on with.
LEMMA ProceedReached ==
    ASSUME SchemaInv, Grows, TypeInv', NEW p \in Processes, NEW v \in 0..2, Proceed(p, v),
           given' = given, db[Driver(p)].device, Justifies(Driver(p), v)'
    PROVE  Reached(p)'
<1>1. Driver(p)' = Driver(p) /\ Driver(p) \in Dialects
  BY DEF Driver, SchemaInv, TypeInv
<1>2. at'[p] = [version |-> v, done |-> 0]
  BY DEF Proceed, SchemaInv, TypeInv
<1>3. pc'[p] = IF v < 2 THEN "migrate" ELSE "provision"
  BY MigrationFacts DEF Proceed, Goto, SchemaInv, TypeInv
<1>4. db'[Driver(p)].device
  BY <1>1 DEF Grows
<1>5. CASE v < 2
  <2>1. Pending(p)' = Migrations[v + 1]
    BY <1>2 DEF Pending
  <2>2. 0 < Len(Pending(p)')
    BY <1>5, <2>1, MigrationFacts
  <2>3. Justifies(Driver(p), at[p].version)'
    BY <1>2
  <2>4. at'[p].version = v /\ at'[p].done = 0 /\ pc'[p] = "migrate"
    BY <1>2, <1>3, <1>5
  <2>. QED
    BY <1>1, <1>4, <1>5, <2>2, <2>3, <2>4 DEF Reached
<1>6. CASE v = 2
  BY <1>1, <1>3, <1>4, <1>6 DEF Reached
<1>. QED
  BY <1>5, <1>6

LEMMA ProceedTypes ==
    ASSUME TypeInv, NEW p \in Processes, NEW v \in 0..2, Proceed(p, v)
    PROVE  /\ pc' \in [Processes -> Steps]
           /\ at' \in [Processes -> [version : 0..2, done : 0..3]]
BY DEF TypeInv, Proceed, Goto, Steps

LEMMA ReadVersionSchema ==
    ASSUME SchemaInv, NEW p \in Processes, ReadVersion(p)
    PROVE  SchemaInv'
<1>. DEFINE versions == db[Driver(p)].versions
<1>. Driver(p) \in Dialects /\ versions \in Seq(0..2)
  BY DEF SchemaInv, TypeInv, Schema
<1>0. db' = db /\ given' = given
  BY DEF ReadVersion
<1>1. Grows /\ VersionsStay
  BY <1>0 DEF Grows, VersionsStay
<1>2. db[Driver(p)].device
  BY DEF SchemaInv, Reached, ReadVersion
<1>3. CASE Goto(p, "insert") /\ at' = at
  <2>1. OthersStay(p) /\ pc'[p] = "insert"
    BY <1>0, <1>3 DEF SchemaInv, TypeInv, Goto, OthersStay
  <2>2. TypeInv'
    BY <1>0, <1>3 DEF SchemaInv, TypeInv, Goto, Steps, Driver
  <2>3. Reached(p)'
    BY <1>0, <1>2, <2>1 DEF Reached, Driver
  <2>. QED
    BY <1>1, <2>1, <2>2, <2>3, SchemaFrame
<1>4. ASSUME NEW i \in DOMAIN versions, Proceed(p, versions[i])
      PROVE  SchemaInv'
  <2>1. versions[i] \in 0..2
    OBVIOUS
  <2>2. TypeInv'
    BY <1>0, <1>4, <2>1, ProceedTypes DEF SchemaInv, TypeInv, Driver
  <2>3. OthersStay(p)
    BY <1>0, <1>4 DEF SchemaInv, TypeInv, Proceed, Goto, OthersStay
  <2>4. Justifies(Driver(p), versions[i])
    BY DEF SchemaInv, Justified
  <2>5. Justifies(Driver(p), versions[i])'
    BY <1>0, <2>4 DEF Justifies, Driver
  <2>6. Reached(p)'
    BY <1>0, <1>1, <1>2, <1>4, <2>1, <2>2, <2>5, ProceedReached DEF Driver
  <2>. QED
    BY <1>1, <2>2, <2>3, <2>6, SchemaFrame
<1>. QED
  BY <1>3, <1>4 DEF ReadVersion

LEMMA InsertVersionSchema ==
    ASSUME SchemaInv, NEW p \in Processes, InsertVersion(p)
    PROVE  SchemaInv'
<1>. DEFINE d == Driver(p)
            old == db[d].versions
<1>. d \in Dialects /\ old \in Seq(0..2)
  BY DEF SchemaInv, TypeInv, Schema
<1>0. given' = given /\ Proceed(p, 0) /\ db[d].device
  BY DEF InsertVersion, SchemaInv, Reached
<1>1. db' = [db EXCEPT ![d].versions = Append(old, 0)]
  BY DEF InsertVersion, SchemaInv, TypeInv, Schema
<1>2. Grows
  BY <1>1 DEF SchemaInv, TypeInv, Schema, Grows
<1>3. TypeInv'
  <2>1. Append(old, 0) \in Seq(0..2)
    OBVIOUS
  <2>2. db' \in [Dialects -> Schema]
    BY <1>1, <2>1 DEF SchemaInv, TypeInv, Schema
  <2>. QED
    BY <1>0, <2>2, ProceedTypes DEF SchemaInv, TypeInv, Driver
<1>4. OthersStay(p)
  BY <1>0 DEF SchemaInv, TypeInv, Proceed, Goto, OthersStay
<1>5. Reached(p)'
  <2>1. Justifies(Driver(p), 0)'
    BY DEF Justifies
  <2>. QED
    BY <1>0, <1>2, <1>3, <2>1, ProceedReached
<1>6. Justified'
  <2>. SUFFICES ASSUME NEW e \in Dialects, NEW i \in DOMAIN db'[e].versions
                PROVE  Justifies(e, db[e].versions[i])'
    BY DEF Justified
  <2>1. CASE e # d
    <3>1. db'[e] = db[e]
      BY <1>1, <2>1 DEF SchemaInv, TypeInv
    <3>2. Justifies(e, db[e].versions[i])
      BY <3>1 DEF SchemaInv, Justified
    <3>. QED
      BY <3>1, <3>2 DEF Justifies
  <2>2. CASE e = d
    <3>1. db'[d].versions = Append(old, 0) /\ db'[d].has = db[d].has
      BY <1>1 DEF SchemaInv, TypeInv, Schema
    <3>2. CASE i \in DOMAIN old
      <4>1. db'[e].versions[i] = old[i]
        BY <2>2, <3>1, <3>2
      <4>2. Justifies(d, old[i])
        BY <3>2 DEF SchemaInv, Justified
      <4>. QED
        BY <2>2, <3>1, <4>1, <4>2 DEF Justifies
    <3>3. CASE i \notin DOMAIN old
      <4>1. db'[e].versions[i] = 0
        BY <2>2, <3>1, <3>3
      <4>. QED
        BY <4>1, JustifiesFacts DEF Justifies
    <3>. QED
      BY <3>2, <3>3
  <2>. QED
    BY <2>1, <2>2
<1>. QED
  BY <1>2, <1>3, <1>4, <1>5, <1>6, ReachedOthers DEF SchemaInv

\* The statement a migration is at.
LEMMA StatementFacts ==
    ASSUME SchemaInv, NEW p \in Processes, pc[p] = "migrate"
    PROVE  /\ at[p].version = 0 => Pending(p) = Migrations[1] /\ at[p].done \in 0..3
           /\ at[p].version = 1 => Pending(p) = Migrations[2] /\ at[p].done = 0
           /\ at[p].version \in {0, 1}
           /\ Statement(p) \in Tables \cup {Column}
           /\ Statement(p) = Column <=> at[p].version = 1
<1>1. at[p].version \in 0..2 /\ at[p].done \in 0..3
  BY DEF SchemaInv, TypeInv
<1>2. at[p].version < 2 /\ at[p].done < Len(Pending(p))
  BY DEF SchemaInv, Reached
<1>3. CASE at[p].version = 0
  <2>1. Pending(p) = Migrations[1]
    BY <1>3 DEF Pending
  <2>2. Statement(p) \in Tables
    BY <1>1, <2>1, MigrationFacts DEF Statement
  <2>. QED
    BY <1>1, <1>3, <2>1, <2>2, MigrationFacts
<1>4. CASE at[p].version = 1
  <2>1. Pending(p) = Migrations[2]
    BY <1>4 DEF Pending
  <2>2. at[p].done = 0
    BY <1>1, <1>2, <2>1, MigrationFacts
  <2>3. Statement(p) = Column
    BY <2>1, <2>2, MigrationFacts DEF Statement
  <2>. QED
    BY <1>4, <2>1, <2>2, <2>3
<1>. QED
  BY <1>1, <1>2, <1>3, <1>4

LEMMA MigrateSchema ==
    ASSUME SchemaInv, NEW p \in Processes, Migrate(p)
    PROVE  SchemaInv'
<1>. DEFINE d == Driver(p)
<1>. d \in Dialects
  BY DEF SchemaInv, TypeInv
<1>0. pc[p] = "migrate" /\ given' = given /\ Driver(p)' = d /\ db[d].device
  BY DEF Migrate, Driver, SchemaInv, Reached
<1>1. CASE Refuses(d, Statement(p))
  <2>0. Goto(p, "refused") /\ db' = db /\ at' = at
    BY <1>1 DEF Migrate
  <2>1. Grows /\ VersionsStay
    BY <2>0 DEF Grows, VersionsStay
  <2>2. OthersStay(p) /\ pc'[p] = "refused"
    BY <1>0, <2>0 DEF SchemaInv, TypeInv, Goto, OthersStay
  <2>3. TypeInv'
    BY <1>0, <2>0 DEF SchemaInv, TypeInv, Goto, Steps, Driver
  <2>4. Reached(p)'
    BY <1>0, <2>0, <2>2 DEF Reached
  <2>. QED
    BY <2>1, <2>2, <2>3, <2>4, SchemaFrame
<1>2. CASE ~Refuses(d, Statement(p))
  <2>0. db' = [db EXCEPT ![d].has = @ \cup {Statement(p)}] /\ Advance(p)
    BY <1>2 DEF Migrate
  <2>1. /\ db'[d].has = db[d].has \cup {Statement(p)}
        /\ Grows /\ VersionsStay
    BY <2>0 DEF SchemaInv, TypeInv, Schema, Grows, VersionsStay
  <2>2. OthersStay(p)
    BY <1>0, <2>0 DEF SchemaInv, TypeInv, Advance, Goto, OthersStay
  <2>3. TypeInv'
    <3>0. Statement(p) \in Tables \cup {Column} /\ Len(Pending(p)) \in {1, 4}
      <4>1. /\ at[p].version = 0 => Pending(p) = Migrations[1]
            /\ at[p].version = 1 => Pending(p) = Migrations[2]
            /\ at[p].version \in {0, 1} /\ Statement(p) \in Tables \cup {Column}
        BY <1>0, StatementFacts
      <4>. QED
        BY <4>1, MigrationFacts
    <3>1. db' \in [Dialects -> Schema]
      BY <2>0, <3>0 DEF SchemaInv, TypeInv, Schema
    <3>2. at[p].done + 1 < Len(Pending(p)) => at[p].done + 1 \in 0..3
      <4>1. at[p].done \in 0..3
        BY DEF SchemaInv, TypeInv
      <4>2. \A n \in 0..3, l \in {1, 4} : n + 1 < l => n + 1 \in 0..3
        OBVIOUS
      <4>. QED
        BY <3>0, <4>1, <4>2
    <3>3. /\ at' \in [Processes -> [version : 0..2, done : 0..3]]
          /\ pc' \in [Processes -> Steps]
      BY <2>0, <3>2 DEF SchemaInv, TypeInv, Advance, Goto, Steps
    <3>. QED
      BY <1>0, <3>1, <3>3 DEF SchemaInv, TypeInv, Driver
  <2>4. Justifies(d, at[p].version)'
    <3>1. Justifies(d, at[p].version)
      BY <1>0 DEF SchemaInv, Reached
    <3>2. at'[p].version = at[p].version
      BY <2>0 DEF SchemaInv, TypeInv, Advance
    <3>. QED
      BY <1>0, <2>1, <3>1, <3>2 DEF Justifies
  <2>5. Pending(p)' = Pending(p) /\ at'[p].version = at[p].version
    BY <2>0 DEF SchemaInv, TypeInv, Advance, Pending
  <2>6. \A j \in 1..(at[p].done + 1) : Pending(p)[j] \in db'[d].has
    <3>1. \A j \in 1..at[p].done : Pending(p)[j] \in db[d].has
      BY <1>0 DEF SchemaInv, Reached
    <3>2. at[p].done \in 0..3
      BY DEF SchemaInv, TypeInv
    <3>. QED
      BY <2>1, <3>1, <3>2 DEF Statement
  <2>7. Reached(p)'
    <3>1. db'[d].device /\ at[p].version < 2
      BY <1>0, <2>1, StatementFacts DEF Grows
    <3>2. CASE at[p].done + 1 < Len(Pending(p))
      <4>1. at'[p].done = at[p].done + 1 /\ pc'[p] = "migrate"
        BY <1>0, <2>0, <3>2 DEF SchemaInv, TypeInv, Advance
      <4>. QED
        BY <1>0, <2>4, <2>5, <2>6, <3>1, <3>2, <4>1 DEF Reached
    <3>3. CASE ~(at[p].done + 1 < Len(Pending(p)))
      <4>1. pc'[p] = "update" /\ at' = at
        BY <2>0, <3>3 DEF SchemaInv, TypeInv, Advance, Goto
      <4>2. at[p].done + 1 = Len(Pending(p))
        BY <1>0, <3>3, StatementFacts, MigrationFacts
      <4>3. Justifies(d, at[p].version + 1)'
        <5>1. CASE at[p].version = 0
          BY <1>0, <2>6, <4>1, <4>2, <5>1, StatementFacts, MigrationFacts, JustifiesFacts
             DEF Justifies
        <5>2. CASE at[p].version = 1
          BY <1>0, <2>4, <2>6, <4>1, <4>2, <5>2, StatementFacts, MigrationFacts DEF Justifies
        <5>. QED
          BY <1>0, <5>1, <5>2, StatementFacts
      <4>. QED
        BY <1>0, <3>1, <4>1, <4>3 DEF Reached
    <3>. QED
      BY <3>2, <3>3
  <2>. QED
    BY <2>1, <2>2, <2>3, <2>7, SchemaFrame
<1>. QED
  BY <1>1, <1>2

LEMMA UpdateVersionSchema ==
    ASSUME SchemaInv, NEW p \in Processes, UpdateVersion(p)
    PROVE  SchemaInv'
<1>. DEFINE d == Driver(p)
            new == at[p].version + 1
            old == db[d].versions
<1>. d \in Dialects /\ old \in Seq(0..2)
  BY DEF SchemaInv, TypeInv, Schema
<1>0. given' = given /\ Proceed(p, new) /\ pc[p] = "update" /\ db[d].device /\ d' = d
  BY DEF UpdateVersion, SchemaInv, Reached, Driver
<1>. new \in 0..2
  BY <1>0 DEF SchemaInv, TypeInv, Reached
<1>1. db' = [db EXCEPT ![d].versions = [i \in DOMAIN old |-> new]]
  BY DEF UpdateVersion, SchemaInv, TypeInv, Schema
<1>2. Grows
  BY <1>1 DEF SchemaInv, TypeInv, Schema, Grows
<1>3. TypeInv'
  <2>1. [i \in DOMAIN old |-> new] \in Seq(0..2)
    OBVIOUS
  <2>2. db' \in [Dialects -> Schema]
    BY <1>1, <2>1 DEF SchemaInv, TypeInv, Schema
  <2>. QED
    BY <1>0, <2>2, ProceedTypes DEF SchemaInv, TypeInv, Driver
<1>4. OthersStay(p)
  BY <1>0 DEF SchemaInv, TypeInv, Proceed, Goto, OthersStay
<1>5. Justifies(d, new)
  BY <1>0 DEF SchemaInv, Reached
<1>6. db'[d].has = db[d].has /\ db'[d].versions = [i \in DOMAIN old |-> new]
  BY <1>1 DEF SchemaInv, TypeInv, Schema
<1>7. \A i \in 1..new : \A j \in DOMAIN Migrations[i] : Migrations[i][j] \in db'[d].has
  BY <1>5, <1>6 DEF Justifies
<1>8. Reached(p)'
  <2>1. at'[p].version = new
    BY <1>0 DEF SchemaInv, TypeInv, Proceed
  <2>4. Justifies(Driver(p), at[p].version)'
    BY <1>0, <1>7, <2>1 DEF Justifies
  <2>5. pc'[p] = IF new < 2 THEN "migrate" ELSE "provision"
    BY <1>0, MigrationFacts DEF Proceed, Goto, SchemaInv, TypeInv
  <2>6. at'[p].done = 0 /\ db'[d].device
    BY <1>0, <1>2 DEF SchemaInv, TypeInv, Proceed, Grows
  <2>7. CASE new < 2
    <3>1. Pending(p)' = Migrations[new + 1] /\ new \in {0, 1}
      BY <2>1, <2>7 DEF Pending
    <3>2. 0 < Len(Pending(p)')
      BY <3>1, MigrationFacts
    <3>. QED
      BY <1>0, <2>1, <2>4, <2>5, <2>6, <2>7, <3>2 DEF Reached
  <2>8. CASE new = 2
    <3>1. Justifies(d, 2)'
      BY <1>0, <2>1, <2>4, <2>8
    <3>. QED
      BY <1>0, <2>5, <2>6, <2>8, <3>1 DEF Reached
  <2>. QED
    BY <2>7, <2>8
<1>9. Justified'
  <2>. SUFFICES ASSUME NEW e \in Dialects, NEW i \in DOMAIN db'[e].versions
                PROVE  Justifies(e, db[e].versions[i])'
    BY DEF Justified
  <2>1. CASE e # d
    <3>1. db'[e] = db[e]
      BY <1>1, <2>1 DEF SchemaInv, TypeInv
    <3>2. Justifies(e, db[e].versions[i])
      BY <3>1 DEF SchemaInv, Justified
    <3>. QED
      BY <3>1, <3>2 DEF Justifies
  <2>2. CASE e = d
    <3>1. db'[d].versions[i] = new
      BY <1>6, <2>2
    <3>. QED
      BY <1>7, <2>2, <3>1 DEF Justifies
  <2>. QED
    BY <2>1, <2>2
<1>. QED
  BY <1>2, <1>3, <1>4, <1>8, <1>9, ReachedOthers DEF SchemaInv

LEMMA SchemaStep == SchemaInv /\ [Next]_vars => SchemaInv'
<1>. SUFFICES ASSUME SchemaInv, [Next]_vars PROVE SchemaInv'
  OBVIOUS
<1>1. CASE UNCHANGED vars
  BY <1>1 DEF vars, SchemaInv, TypeInv, Reached, Justified, Justifies, Driver, Pending
<1>2. ASSUME NEW p \in Processes, Start(p) PROVE SchemaInv'
  BY <1>2, StartSchema
<1>3. ASSUME NEW p \in Processes, Ends(p) \/ Stop(p) PROVE SchemaInv'
  BY <1>3, OverSchema DEF Ends, Stop
<1>4. ASSUME NEW p \in Processes, OpenContainer(p) PROVE SchemaInv'
  BY <1>4, OpenContainerSchema
<1>5. ASSUME NEW p \in Processes, CreateVersionTable(p) PROVE SchemaInv'
  BY <1>5, CreateVersionTableSchema
<1>6. ASSUME NEW p \in Processes, ReadVersion(p) PROVE SchemaInv'
  BY <1>6, ReadVersionSchema
<1>7. ASSUME NEW p \in Processes, InsertVersion(p) PROVE SchemaInv'
  BY <1>7, InsertVersionSchema
<1>8. ASSUME NEW p \in Processes, Migrate(p) PROVE SchemaInv'
  BY <1>8, MigrateSchema
<1>9. ASSUME NEW p \in Processes, UpdateVersion(p) PROVE SchemaInv'
  BY <1>9, UpdateVersionSchema
<1>10. ASSUME NEW p \in Processes, Provision(p) PROVE SchemaInv'
  <2>1. \E to \in {"refused", "routes"} : Goto(p, to)
    BY <1>10 DEF Provision
  <2>. QED
    BY <1>10, <2>1, QuietSchema DEF Provision
<1>11. ASSUME NEW p \in Processes, Serve(p) PROVE SchemaInv'
  BY <1>11, QuietSchema DEF Serve
<1>12. ASSUME NEW p \in Processes, Signal(p) PROVE SchemaInv'
  BY <1>12, QuietSchema DEF Signal
<1>13. ASSUME NEW p \in Processes, TimePasses(p) \/ Answer(p) \/ \E upload \in Uploads : SendStalls(p, upload)
       PROVE  SchemaInv'
  BY <1>13, QuietSchema DEF TimePasses, Answer, SendStalls
<1>. QED
  BY <1>1, <1>2, <1>3, <1>4, <1>5, <1>6, <1>7, <1>8, <1>9, <1>10, <1>11, <1>12, <1>13 DEF Next

LEMMA SpecSchemaInv == Spec => []SchemaInv
BY SchemaInit, SchemaStep, PTL DEF Spec

\* Whoever serves has the whole schema, and no version claims what is not
\* there: for any number of processes on any databases, which end anywhere.
THEOREM SpecSchemaComplete == Spec => []SchemaComplete
<1>1. SchemaInv => SchemaComplete
  <2>. SUFFICES ASSUME SchemaInv PROVE SchemaComplete
    OBVIOUS
  <2>1. ASSUME NEW p \in Processes, pc[p] \in {"routes", "serving", "draining"}
        PROVE  Justifies(Driver(p), Len(Migrations)) /\ db[Driver(p)].device
    BY <2>1, MigrationFacts DEF SchemaInv, Reached
  <2>. QED
    BY <2>1 DEF SchemaInv, Justified, SchemaComplete
<1>. QED
  BY <1>1, SpecSchemaInv, PTL

-----------------------------------------------------------------------------
(* TidyInv. *)

\* What a process keeps of it when another moves.
LEMMA OtherTidy ==
    ASSUME NEW p \in Processes, OthersStay(p), NEW q \in Processes \ {p}, NEW d
    PROVE  /\ Driver(q)' = Driver(q)
           /\ Migrating(q, d)' <=> Migrating(q, d)
           /\ BeforeColumn(q)' <=> BeforeColumn(q)
           /\ AfterColumn(q)' <=> AfterColumn(q)
BY DEF OthersStay, Driver, Migrating, BeforeColumn, AfterColumn

LEMMA AtWork ==
    ASSUME NEW p \in Processes, BeforeColumn(p) \/ AfterColumn(p)
    PROVE  Migrating(p, Driver(p))
BY DEF BeforeColumn, AfterColumn, Migrating

LEMMA HasVersionStays ==
    ASSUME SchemaInv, TidyInv, NEW p \in Processes, OthersStay(p), HasVersion(p)',
           \A d \in Dialects : db[d].versions # <<>> => db'[d].versions # <<>>
    PROVE  \A q \in Processes : HasVersion(q)'
<1>. SUFFICES ASSUME NEW q \in Processes \ {p} PROVE HasVersion(q)'
  OBVIOUS
<1>1. HasVersion(q) /\ Driver(q) \in Dialects
  BY DEF TidyInv, SchemaInv, TypeInv
<1>2. pc'[q] = pc[q] /\ Driver(q)' = Driver(q)
  BY DEF OthersStay, Driver
<1>. QED
  BY <1>1, <1>2 DEF HasVersion

LEMMA StartsAgainStays ==
    ASSUME TidyInv, NEW p \in Processes, OthersStay(p), torn \subseteq torn',
           pc'[p] = "refused" => (Driver(p) = "sqlite" /\ Driver(p) \in torn)'
    PROVE  StartsAgain'
<1>. SUFFICES ASSUME NEW q \in Processes \ {p}, pc'[q] = "refused"
              PROVE  (Driver(q) = "sqlite" /\ Driver(q) \in torn)'
  BY DEF StartsAgain
<1>1. pc[q] = "refused" /\ Driver(q)' = Driver(q)
  BY DEF OthersStay, Driver
<1>. QED
  BY <1>1 DEF TidyInv, StartsAgain

\* The databases a step is not about.
LEMMA TidyElsewhere ==
    ASSUME TidyInv, NEW p \in Processes, OthersStay(p), given'[p] = given[p],
           NEW d \in Dialects, d # Driver(p), db'[d] = db[d], d \notin torn' => d \notin torn
    PROVE  Tidy(d)'
<1>. SUFFICES ASSUME d \notin torn' PROVE Alone(d)' /\ ColumnLast(d)' /\ ColumnKnown(d)'
  BY DEF Tidy
<1>1. Alone(d) /\ ColumnLast(d) /\ ColumnKnown(d)
  BY DEF TidyInv, Tidy
<1>2. Driver(p)' # d /\ ~Migrating(p, d)'
  BY DEF Driver, Migrating
<1>3. Alone(d)'
  BY <1>1, <1>2, OtherTidy DEF Alone
<1>4. ColumnLast(d)'
  <2>. SUFFICES ASSUME NEW q \in Processes, (Driver(q) = d /\ BeforeColumn(q))'
                PROVE  Column \notin db'[d].has
    BY DEF ColumnLast
  <2>1. q # p
    BY <1>2
  <2>2. Driver(q) = d /\ BeforeColumn(q)
    BY <2>1, OtherTidy
  <2>. QED
    BY <1>1, <2>2 DEF ColumnLast
<1>5. ColumnKnown(d)'
  <2>. SUFFICES ASSUME Column \in db[d].has,
                       NEW q \in Processes, Driver(q) = d /\ AfterColumn(q)
                PROVE  (Driver(q) = d /\ AfterColumn(q))'
    BY <1>1 DEF ColumnKnown
  <2>1. q # p
    OBVIOUS
  <2>. QED
    BY <2>1, OtherTidy
<1>. QED
  BY <1>3, <1>4, <1>5

\* A step that takes a process away from the schema, or keeps it away.
LEMMA TidyAway ==
    ASSUME SchemaInv, TidyInv, NEW p \in Processes, OthersStay(p), torn \subseteq torn',
           \A d \in Dialects : db'[d].has = db[d].has /\ db'[d].versions = db[d].versions,
           pc'[p] \notin {"read", "insert", "migrate", "update", "refused"},
           AfterColumn(p) => Driver(p) \in torn'
    PROVE  TidyInv'
<1>1. ~Migrating(p, Driver(p))' /\ ~BeforeColumn(p)' /\ \A d : ~Migrating(p, d)'
  BY DEF Migrating, BeforeColumn
<1>2. ASSUME NEW d \in Dialects PROVE Tidy(d)'
  <2>. SUFFICES ASSUME d \notin torn' PROVE Alone(d)' /\ ColumnLast(d)' /\ ColumnKnown(d)'
    BY DEF Tidy
  <2>1. Alone(d) /\ ColumnLast(d) /\ ColumnKnown(d)
    BY DEF TidyInv, Tidy
  <2>2. Alone(d)'
    BY <1>1, <2>1, OtherTidy DEF Alone
  <2>3. ColumnLast(d)'
    <3>. SUFFICES ASSUME NEW q \in Processes, (Driver(q) = d /\ BeforeColumn(q))'
                  PROVE  Column \notin db'[d].has
      BY DEF ColumnLast
    <3>1. q # p
      BY <1>1
    <3>2. Driver(q) = d /\ BeforeColumn(q)
      BY <3>1, OtherTidy
    <3>. QED
      BY <2>1, <3>2 DEF ColumnLast
  <2>4. ColumnKnown(d)'
    <3>. SUFFICES ASSUME Column \in db[d].has,
                         NEW q \in Processes, Driver(q) = d /\ AfterColumn(q)
                  PROVE  (Driver(q) = d /\ AfterColumn(q))'
      BY <2>1 DEF ColumnKnown
    <3>1. q # p
      OBVIOUS
    <3>. QED
      BY <3>1, OtherTidy
  <2>. QED
    BY <2>2, <2>3, <2>4
<1>3. HasVersion(p)'
  BY DEF HasVersion
<1>4. \A q \in Processes : HasVersion(q)'
  BY <1>3, HasVersionStays
<1>5. StartsAgain'
  BY StartsAgainStays
<1>. QED
  BY <1>2, <1>4, <1>5 DEF TidyInv

\* What must hold of the database a process works on, after a step of its.
Settled(p, d) ==
    \/ Column \notin db[d].has
    \/ AfterColumn(p)
    \/ /\ ~BeforeColumn(p) /\ db[d].versions # <<>>
       /\ \A i \in DOMAIN db[d].versions : db[d].versions[i] = 2

\* Nobody but a process at work works on a database that was never torn.
LEMMA OnlyOne ==
    ASSUME TidyInv, NEW p \in Processes, NEW d \in Dialects, Migrating(p, d), d \notin torn
    PROVE  /\ \A q \in Processes : Migrating(q, d) => q = p
           /\ ColumnLast(d) /\ ColumnKnown(d)
BY DEF TidyInv, Tidy, Alone

\* A step of a process at work.
LEMMA TidyAtWork ==
    ASSUME SchemaInv, TidyInv, NEW p \in Processes, OthersStay(p), given' = given, torn' = torn,
           NEW d \in Dialects, d = Driver(p), Migrating(p, d),
           \A e \in Dialects \ {d} : db'[e] = db[e],
           db[d].versions # <<>> => db'[d].versions # <<>>,
           HasVersion(p)', pc'[p] # "refused",
           d \notin torn => Settled(p, d)'
    PROVE  TidyInv'
<1>0. Driver(p)' = d
  BY DEF Driver
<1>1. ASSUME NEW e \in Dialects \ {d} PROVE Tidy(e)'
  BY <1>1, TidyElsewhere
<1>2. Tidy(d)'
  <2>. SUFFICES ASSUME d \notin torn PROVE Alone(d)' /\ ColumnLast(d)' /\ ColumnKnown(d)'
    BY DEF Tidy
  <2>1. ASSUME NEW q \in Processes, Migrating(q, d)' PROVE q = p
    BY <2>1, OnlyOne, OtherTidy
  <2>2. Alone(d)'
    BY <2>1 DEF Alone
  <2>3. ASSUME NEW q \in Processes, (Driver(q) = d /\ BeforeColumn(q))'
        PROVE  q = p
    BY <2>1, <2>3 DEF BeforeColumn, Migrating
  <2>4. ASSUME AfterColumn(p)' PROVE ~BeforeColumn(p)'
    BY <2>4 DEF AfterColumn, BeforeColumn
  <2>5. ColumnLast(d)'
    BY <2>3, <2>4 DEF Settled, ColumnLast
  <2>6. ColumnKnown(d)'
    BY <1>0 DEF Settled, ColumnKnown
  <2>. QED
    BY <2>2, <2>5, <2>6
<1>3. \A q \in Processes : HasVersion(q)'
  <2>1. \A e \in Dialects : db[e].versions # <<>> => db'[e].versions # <<>>
    OBVIOUS
  <2>. QED
    BY <2>1, HasVersionStays
<1>4. StartsAgain'
  BY StartsAgainStays
<1>. QED
  BY <1>1, <1>2, <1>3, <1>4 DEF TidyInv

LEMMA TidyInit == Init => TidyInv
<1>. SUFFICES ASSUME Init PROVE TidyInv
  OBVIOUS
<1>1. \A p \in Processes : pc[p] = "off"
  BY DEF Init
<1>2. ASSUME NEW d \in Dialects PROVE Column \notin db[d].has
  <2>1. db[d] = Empty \/ db[d] = Before
    BY DEF Init
  <2>2. Empty.has = {} /\ Before.has = Tables
    BY DEF Empty, Before
  <2>. QED
    BY <2>1, <2>2, MigrationFacts
<1>. QED
  BY <1>1, <1>2 DEF TidyInv, Tidy, HasVersion, StartsAgain, Alone, ColumnLast, ColumnKnown, Migrating

LEMMA OverTidy ==
    ASSUME SchemaInv, TidyInv, NEW p \in Processes, Ends(p) \/ Stop(p)
    PROVE  TidyInv'
<1>1. OthersStay(p) /\ pc'[p] = "off" /\ db' = db
  BY DEF SchemaInv, TypeInv, Ends, Stop, Over, Goto, OthersStay
<1>2. torn \subseteq torn' /\ (AfterColumn(p) => Driver(p) \in torn')
  BY DEF Ends, Stop, AfterColumn
<1>. QED
  BY <1>1, <1>2, TidyAway

LEMMA AwayTidy ==
    ASSUME SchemaInv, TidyInv, NEW p \in Processes,
           Start(p) \/ OpenContainer(p) \/ Serve(p) \/ Signal(p)
    PROVE  TidyInv'
<1>1. OthersStay(p) /\ pc'[p] \in {"container", "versionTable", "serving", "draining"}
  <2>1. CASE Start(p)
    BY <2>1 DEF SchemaInv, TypeInv, Start, Goto, OthersStay
  <2>2. CASE OpenContainer(p)
    BY <2>2 DEF SchemaInv, TypeInv, OpenContainer, Goto, OthersStay
  <2>3. CASE Serve(p)
    BY <2>3 DEF SchemaInv, TypeInv, Serve, Goto, OthersStay
  <2>4. CASE Signal(p)
    BY <2>4 DEF SchemaInv, TypeInv, Signal, Goto, OthersStay
  <2>. QED
    BY <2>1, <2>2, <2>3, <2>4
<1>2. ~AfterColumn(p) /\ torn' = torn
  BY DEF AfterColumn, Start, OpenContainer, Serve, Signal
<1>3. \A d \in Dialects : db'[d].has = db[d].has /\ db'[d].versions = db[d].versions
  <2>1. CASE OpenContainer(p)
    BY <2>1 DEF SchemaInv, TypeInv, Schema, OpenContainer
  <2>2. CASE db' = db
    BY <2>2
  <2>. QED
    BY <2>1, <2>2 DEF Start, Serve, Signal
<1>. QED
  BY <1>1, <1>2, <1>3, TidyAway

LEMMA ProvisionTidy ==
    ASSUME SchemaInv, TidyInv, NEW p \in Processes, Provision(p)
    PROVE  TidyInv'
<1>1. Justifies(Driver(p), 2)
  BY DEF Provision, SchemaInv, Reached
<1>2. {"wsapi_instances", Column} \subseteq db[Driver(p)].has
  BY <1>1, JustifiesFacts, MigrationFacts
<1>3. Goto(p, "routes") /\ UNCHANGED <<db, given, at, torn>>
  BY <1>2 DEF Provision
<1>4. OthersStay(p) /\ pc'[p] = "routes"
  BY <1>3 DEF SchemaInv, TypeInv, Goto, OthersStay
<1>5. ~AfterColumn(p)
  BY DEF AfterColumn, Provision
<1>. QED
  BY <1>3, <1>4, <1>5, TidyAway

LEMMA CreateVersionTableTidy ==
    ASSUME SchemaInv, TidyInv, NEW p \in Processes, CreateVersionTable(p)
    PROVE  TidyInv'
<1>. PICK d \in Dialects : d = Driver(p)
  BY DEF SchemaInv, TypeInv
<1>0. /\ pc[p] = "versionTable" /\ given' = given /\ at' = at /\ torn \subseteq torn'
      /\ Driver(p)' = d
  BY DEF CreateVersionTable, Driver
<1>1. OthersStay(p) /\ pc'[p] = "read"
  BY DEF SchemaInv, TypeInv, CreateVersionTable, Goto, OthersStay
<1>2. /\ \A e \in Dialects : db'[e].has = db[e].has /\ db'[e].versions = db[e].versions
      /\ \A e \in Dialects \ {d} : db'[e] = db[e]
  BY DEF CreateVersionTable, SchemaInv, TypeInv, Schema
<1>3. ASSUME d \notin torn' PROVE \A q \in Processes : Migrating(q, d) => q = p
  BY <1>3 DEF CreateVersionTable
<1>4. ASSUME NEW e \in Dialects \ {d} PROVE Tidy(e)'
  BY <1>0, <1>1, <1>2, TidyElsewhere DEF CreateVersionTable
<1>5. Tidy(d)'
  <2>. SUFFICES ASSUME d \notin torn' PROVE Alone(d)' /\ ColumnLast(d)' /\ ColumnKnown(d)'
    BY DEF Tidy
  <2>1. ~Migrating(p, d) /\ ~AfterColumn(p) /\ ~BeforeColumn(p)'
    BY <1>0, <1>1 DEF Migrating, AfterColumn, BeforeColumn
  <2>2. \A q \in Processes : ~Migrating(q, d)
    BY <1>3, <2>1
  <2>3. ASSUME NEW q \in Processes, q # p PROVE ~Migrating(q, d)'
    BY <1>1, <2>2, <2>3, OtherTidy
  <2>4. Alone(d)'
    BY <2>3 DEF Alone
  <2>5. ColumnLast(d)'
    <3>1. ASSUME NEW q \in Processes, (Driver(q) = d /\ BeforeColumn(q))' PROVE FALSE
      <4>1. q # p
        BY <2>1, <3>1
      <4>2. Migrating(q, d)'
        BY <1>0, <3>1 DEF BeforeColumn, Migrating
      <4>. QED
        BY <2>3, <4>1, <4>2
    <3>. QED
      BY <3>1 DEF ColumnLast
  <2>6. ColumnKnown(d)'
    <3>1. d \notin torn
      BY <1>0
    <3>2. ColumnKnown(d)
      BY <3>1 DEF TidyInv, Tidy
    <3>3. ~\E q \in Processes : Driver(q) = d /\ AfterColumn(q)
      BY <2>2 DEF AfterColumn, Migrating
    <3>4. Column \in db[d].has =>
            db[d].versions # <<>> /\ \A i \in DOMAIN db[d].versions : db[d].versions[i] = 2
      BY <3>2, <3>3 DEF ColumnKnown
    <3>. QED
      BY <1>0, <1>2, <3>4 DEF ColumnKnown
  <2>. QED
    BY <2>4, <2>5, <2>6
<1>6. \A q \in Processes : HasVersion(q)'
  <2>1. HasVersion(p)'
    BY <1>1 DEF HasVersion
  <2>. QED
    BY <1>1, <1>2, <2>1, HasVersionStays
<1>7. StartsAgain'
  BY <1>0, <1>1, StartsAgainStays
<1>. QED
  BY <1>4, <1>5, <1>6, <1>7 DEF TidyInv

LEMMA ReadVersionTidy ==
    ASSUME SchemaInv, TidyInv, NEW p \in Processes, ReadVersion(p)
    PROVE  TidyInv'
<1>. PICK d \in Dialects : d = Driver(p)
  BY DEF SchemaInv, TypeInv
<1>. DEFINE versions == db[d].versions
<1>. versions \in Seq(0..2)
  BY DEF SchemaInv, TypeInv, Schema
<1>0. pc[p] = "read" /\ UNCHANGED <<db, given, torn>> /\ Migrating(p, d) /\ Driver(p)' = d
  BY DEF ReadVersion, Migrating, Driver
<1>1. ASSUME d \notin torn, Column \in db[d].has
      PROVE  versions # <<>> /\ \A i \in DOMAIN versions : versions[i] = 2
  <2>1. ~\E q \in Processes : Driver(q) = d /\ AfterColumn(q)
    BY <1>0, <1>1, OnlyOne DEF AfterColumn, Migrating
  <2>. QED
    BY <1>0, <1>1, <2>1, OnlyOne DEF ColumnKnown
<1>2. CASE versions = <<>> /\ Goto(p, "insert") /\ at' = at
  <2>1. OthersStay(p) /\ pc'[p] = "insert"
    BY <1>0, <1>2 DEF SchemaInv, TypeInv, Goto, OthersStay
  <2>2. HasVersion(p)'
    BY <2>1 DEF HasVersion
  <2>3. d \notin torn => Settled(p, d)'
    BY <1>0, <1>1, <1>2 DEF Settled
  <2>. QED
    BY <1>0, <2>1, <2>2, <2>3, TidyAtWork
<1>3. ASSUME NEW i \in DOMAIN versions, Proceed(p, versions[i])
      PROVE  TidyInv'
  <2>1. OthersStay(p)
    BY <1>0, <1>3 DEF SchemaInv, TypeInv, Proceed, Goto, OthersStay
  <2>2. pc'[p] = IF versions[i] < 2 THEN "migrate" ELSE "provision"
    BY <1>3, MigrationFacts DEF Proceed, Goto, SchemaInv, TypeInv
  <2>3. versions # <<>>
    BY <1>3
  <2>4. HasVersion(p)'
    BY <1>0, <2>3 DEF HasVersion, Driver
  <2>5. d \notin torn => Settled(p, d)'
    <3>1. CASE Column \notin db[d].has
      BY <1>0, <3>1 DEF Settled
    <3>2. CASE d \notin torn /\ Column \in db[d].has
      <4>1. versions[i] = 2 /\ \A k \in DOMAIN versions : versions[k] = 2
        BY <1>1, <3>2
      <4>2. pc'[p] = "provision"
        BY <2>2, <4>1
      <4>3. ~BeforeColumn(p)'
        BY <4>2 DEF BeforeColumn
      <4>. QED
        BY <1>0, <2>3, <4>1, <4>3 DEF Settled
    <3>. QED
      BY <3>1, <3>2
  <2>. QED
    BY <1>0, <2>1, <2>2, <2>4, <2>5, TidyAtWork
<1>. QED
  BY <1>2, <1>3 DEF ReadVersion

LEMMA InsertVersionTidy ==
    ASSUME SchemaInv, TidyInv, NEW p \in Processes, InsertVersion(p)
    PROVE  TidyInv'
<1>. PICK d \in Dialects : d = Driver(p)
  BY DEF SchemaInv, TypeInv
<1>. DEFINE versions == db[d].versions
<1>. versions \in Seq(0..2)
  BY DEF SchemaInv, TypeInv, Schema
<1>0. pc[p] = "insert" /\ UNCHANGED <<given, torn>> /\ Driver(p)' = d /\ Proceed(p, 0)
  BY DEF InsertVersion, Driver
<1>1. Migrating(p, d) /\ BeforeColumn(p)
  BY <1>0 DEF Migrating, BeforeColumn
<1>2. /\ \A e \in Dialects \ {d} : db'[e] = db[e]
      /\ db'[d].has = db[d].has /\ db'[d].versions = Append(versions, 0)
  BY DEF InsertVersion, SchemaInv, TypeInv, Schema
<1>3. OthersStay(p) /\ pc'[p] = "migrate"
  BY <1>0, MigrationFacts DEF SchemaInv, TypeInv, Proceed, Goto, OthersStay
<1>4. Append(versions, 0) # <<>>
  OBVIOUS
<1>5. HasVersion(p)'
  BY <1>0, <1>2, <1>4 DEF HasVersion
<1>6. d \notin torn => Settled(p, d)'
  BY <1>1, <1>2, OnlyOne DEF ColumnLast, Settled
<1>. QED
  BY <1>0, <1>1, <1>2, <1>3, <1>4, <1>5, <1>6, TidyAtWork

\* A statement is refused in one case only.
LEMMA RefusedTorn ==
    ASSUME SchemaInv, TidyInv, NEW p \in Processes, pc[p] = "migrate",
           Refuses(Driver(p), Statement(p))
    PROVE  Driver(p) = "sqlite" /\ Driver(p) \in torn
<1>. PICK d \in Dialects : d = Driver(p)
  BY DEF SchemaInv, TypeInv
<1>1. db[d].device /\ Justifies(d, at[p].version)
  BY DEF SchemaInv, Reached
<1>2. Statement(p) = Column /\ at[p].version = 1
  BY <1>1, StatementFacts DEF Refuses
<1>3. "wsapi_instances" \in db[d].has
  BY <1>1, <1>2, JustifiesFacts, MigrationFacts
<1>4. d = "sqlite" /\ Column \in db[d].has
  BY <1>2, <1>3 DEF Refuses
<1>5. Migrating(p, d) /\ BeforeColumn(p)
  BY DEF Migrating, BeforeColumn
<1>6. d \in torn
  BY <1>4, <1>5, OnlyOne DEF ColumnLast
<1>. QED
  BY <1>4, <1>6

LEMMA MigrateTidy ==
    ASSUME SchemaInv, TidyInv, NEW p \in Processes, Migrate(p)
    PROVE  TidyInv'
<1>. PICK d \in Dialects : d = Driver(p)
  BY DEF SchemaInv, TypeInv
<1>0. pc[p] = "migrate" /\ UNCHANGED <<given, torn>> /\ Driver(p)' = d
  BY DEF Migrate, Driver
<1>1. Migrating(p, d) /\ BeforeColumn(p) /\ HasVersion(p)
  BY <1>0 DEF Migrating, BeforeColumn, TidyInv
<1>2. CASE Refuses(d, Statement(p))
  <2>0. Goto(p, "refused") /\ db' = db /\ at' = at
    BY <1>2 DEF Migrate
  <2>1. OthersStay(p) /\ pc'[p] = "refused"
    BY <1>0, <2>0 DEF SchemaInv, TypeInv, Goto, OthersStay
  <2>2. Driver(p) = "sqlite" /\ Driver(p) \in torn
    BY <1>0, <1>2, RefusedTorn
  <2>3. ASSUME NEW e \in Dialects \ {d} PROVE Tidy(e)'
    BY <1>0, <2>0, <2>1, TidyElsewhere
  <2>4. Tidy(d)'
    BY <1>0, <2>2 DEF Tidy
  <2>5. HasVersion(p)'
    BY <2>1 DEF HasVersion
  <2>6. \A q \in Processes : HasVersion(q)'
    BY <2>0, <2>1, <2>5, HasVersionStays
  <2>7. StartsAgain'
    BY <1>0, <2>1, <2>2, StartsAgainStays
  <2>. QED
    BY <2>3, <2>4, <2>6, <2>7 DEF TidyInv
<1>3. CASE ~Refuses(d, Statement(p))
  <2>0. db' = [db EXCEPT ![d].has = @ \cup {Statement(p)}] /\ Advance(p)
    BY <1>3 DEF Migrate
  <2>1. /\ \A e \in Dialects \ {d} : db'[e] = db[e]
        /\ db'[d].has = db[d].has \cup {Statement(p)} /\ db'[d].versions = db[d].versions
    BY <2>0 DEF SchemaInv, TypeInv, Schema
  <2>2. OthersStay(p) /\ pc'[p] \in {"migrate", "update"}
    BY <1>0, <2>0 DEF SchemaInv, TypeInv, Advance, Goto, OthersStay
  <2>3. HasVersion(p)'
    BY <1>0, <1>1, <2>1 DEF HasVersion
  <2>4. d \notin torn => Settled(p, d)'
    <3>. SUFFICES ASSUME d \notin torn PROVE Settled(p, d)'
      OBVIOUS
    <3>1. CASE at[p].version = 0
      <4>1. Column \notin db[d].has
        BY <1>1, OnlyOne DEF ColumnLast
      <4>2. Statement(p) # Column
        BY <1>0, <3>1, StatementFacts
      <4>. QED
        BY <2>1, <4>1, <4>2 DEF Settled
    <3>2. CASE at[p].version = 1
      <4>1. Pending(p) = Migrations[2] /\ at[p].done = 0
        BY <1>0, <3>2, StatementFacts
      <4>2. ~(at[p].done + 1 < Len(Pending(p)))
        BY <4>1, MigrationFacts
      <4>3. pc'[p] = "update" /\ at' = at
        BY <2>0, <4>2 DEF SchemaInv, TypeInv, Advance, Goto
      <4>. QED
        BY <3>2, <4>3 DEF Settled, AfterColumn
    <3>. QED
      BY <1>0, <3>1, <3>2, StatementFacts
  <2>. QED
    BY <1>0, <1>1, <2>1, <2>2, <2>3, <2>4, TidyAtWork
<1>. QED
  BY <1>2, <1>3

LEMMA UpdateVersionTidy ==
    ASSUME SchemaInv, TidyInv, NEW p \in Processes, UpdateVersion(p)
    PROVE  TidyInv'
<1>. PICK d \in Dialects : d = Driver(p)
  BY DEF SchemaInv, TypeInv
<1>. DEFINE versions == db[d].versions
            new == at[p].version + 1
<1>. versions \in Seq(0..2)
  BY DEF SchemaInv, TypeInv, Schema
<1>0. pc[p] = "update" /\ UNCHANGED <<given, torn>> /\ Driver(p)' = d /\ Proceed(p, new)
  BY DEF UpdateVersion, Driver
<1>1. Migrating(p, d) /\ versions # <<>> /\ new \in {1, 2}
  BY <1>0 DEF Migrating, TidyInv, HasVersion, SchemaInv, TypeInv, Reached
<1>2. /\ \A e \in Dialects \ {d} : db'[e] = db[e]
      /\ db'[d].has = db[d].has /\ db'[d].versions = [i \in DOMAIN versions |-> new]
  BY DEF UpdateVersion, SchemaInv, TypeInv, Schema
<1>3. OthersStay(p) /\ pc'[p] = IF new < 2 THEN "migrate" ELSE "provision"
  BY <1>0, MigrationFacts DEF SchemaInv, TypeInv, Proceed, Goto, OthersStay
<1>4. [i \in DOMAIN versions |-> new] # <<>>
  <2>1. 1 \in DOMAIN versions
    BY <1>1
  <2>2. DOMAIN [i \in DOMAIN versions |-> new] # DOMAIN <<>>
    BY <2>1
  <2>. QED
    BY <2>2
<1>5. HasVersion(p)'
  BY <1>0, <1>2, <1>4 DEF HasVersion
<1>6. d \notin torn => Settled(p, d)'
  <2>. SUFFICES ASSUME d \notin torn PROVE Settled(p, d)'
    OBVIOUS
  <2>1. CASE new = 1
    <3>1. BeforeColumn(p)
      BY <1>0, <2>1 DEF BeforeColumn, SchemaInv, TypeInv
    <3>. QED
      BY <1>1, <1>2, <3>1, OnlyOne DEF ColumnLast, Settled
  <2>2. CASE new = 2
    <3>1. pc'[p] = "provision"
      BY <1>3, <2>2
    <3>. QED
      BY <1>2, <1>4, <2>2, <3>1 DEF BeforeColumn, Settled
  <2>. QED
    BY <1>1, <2>1, <2>2
<1>7. pc'[p] # "refused"
  BY <1>3
<1>. QED
  BY <1>0, <1>1, <1>2, <1>3, <1>4, <1>5, <1>6, <1>7, TidyAtWork

LEMMA TidyStep == SchemaInv /\ TidyInv /\ [Next]_vars => TidyInv'
<1>. SUFFICES ASSUME SchemaInv, TidyInv, [Next]_vars PROVE TidyInv'
  OBVIOUS
<1>1. ASSUME UNCHANGED <<db, pc, given, at, torn>> PROVE TidyInv'
  BY <1>1 DEF TidyInv, HasVersion, Tidy, StartsAgain, Alone, ColumnLast, ColumnKnown,
     BeforeColumn, AfterColumn, Migrating, Driver
<1>2. CASE UNCHANGED vars
  BY <1>1, <1>2 DEF vars
<1>3. ASSUME NEW p \in Processes, Ends(p) \/ Stop(p) PROVE TidyInv'
  BY <1>3, OverTidy
<1>4. ASSUME NEW p \in Processes, Start(p) \/ OpenContainer(p) \/ Serve(p) \/ Signal(p)
      PROVE  TidyInv'
  BY <1>4, AwayTidy
<1>5. ASSUME NEW p \in Processes, CreateVersionTable(p) PROVE TidyInv'
  BY <1>5, CreateVersionTableTidy
<1>6. ASSUME NEW p \in Processes, ReadVersion(p) PROVE TidyInv'
  BY <1>6, ReadVersionTidy
<1>7. ASSUME NEW p \in Processes, InsertVersion(p) PROVE TidyInv'
  BY <1>7, InsertVersionTidy
<1>8. ASSUME NEW p \in Processes, Migrate(p) PROVE TidyInv'
  BY <1>8, MigrateTidy
<1>9. ASSUME NEW p \in Processes, UpdateVersion(p) PROVE TidyInv'
  BY <1>9, UpdateVersionTidy
<1>10. ASSUME NEW p \in Processes, Provision(p) PROVE TidyInv'
  BY <1>10, ProvisionTidy
<1>11. ASSUME NEW p \in Processes, TimePasses(p) \/ Answer(p) \/ \E upload \in Uploads : SendStalls(p, upload)
       PROVE  TidyInv'
  BY <1>1, <1>11 DEF TimePasses, Answer, SendStalls
<1>. QED
  BY <1>2, <1>3, <1>4, <1>5, <1>6, <1>7, <1>8, <1>9, <1>10, <1>11 DEF Next

\* No start is refused for its schema but on SQLite, where a migration was torn
\* between the column and its version, or had company.
THEOREM SpecStartsAgain == Spec => []StartsAgain
<1>1. Spec => []TidyInv
  BY TidyInit, TidyStep, SpecSchemaInv, PTL DEF Spec
<1>2. TidyInv => StartsAgain
  BY DEF TidyInv
<1>. QED
  BY <1>1, <1>2, PTL

-----------------------------------------------------------------------------
(* Deadlines. *)

Served(p) == pc[p] \in {"serving", "draining"}

ServerType ==
    [store : BOOLEAN, admin : BOOLEAN, auth : {"none", "default", "header"}, warned : BOOLEAN,
     call : [busy : BOOLEAN, age : Int, left : Int, upload : Nat],
     cut : {"no", "deadline", "upload"}, drain : Int]

\* A request that has nothing to upload is as old as it has waited, so that
\* its answer comes with the acknowledgement's time-out.
Deadline(p) ==
    /\ server[p].call.busy => Served(p)
    /\ server[p].cut # "no" => Served(p)
    /\ Served(p) => (server[p].warned <=> Warns(given[p].cfg))
    /\ server[p].call.busy /\ server[p].call.upload = 0 =>
         server[p].call.age + server[p].call.left = SendAckTimeout
    /\ server[p].cut = "deadline" => server[p].warned

DeadlineInv ==
    /\ server \in [Processes -> ServerType]
    /\ \A p \in Processes : Deadline(p)

ServerStays(p) == \A q \in Processes \ {p} : server'[q] = server[q]

LEMMA DeadlineFrame ==
    ASSUME DeadlineInv, NEW p \in Processes, OthersStay(p), ServerStays(p),
           server' \in [Processes -> ServerType], Deadline(p)'
    PROVE  DeadlineInv'
<1>. SUFFICES ASSUME NEW q \in Processes \ {p} PROVE Deadline(q)'
  BY DEF DeadlineInv
<1>1. pc'[q] = pc[q] /\ given'[q] = given[q] /\ server'[q] = server[q] /\ Deadline(q)
  BY DEF OthersStay, ServerStays, DeadlineInv
<1>. QED
  BY <1>1 DEF Deadline, Served

LEMMA NoServerType == NoServer \in ServerType
BY DEF NoServer, NoCall, ServerType

LEMMA DurationInt ==
    ASSUME NEW cfg
    PROVE  WriteTimeoutDuration(cfg) \in Int /\ ShutdownTimeoutDuration(cfg) \in Int
BY DEF WriteTimeoutDuration, ShutdownTimeoutDuration, Duration

LEMMA DeadlineInit == Init => DeadlineInv
<1>. SUFFICES ASSUME Init PROVE DeadlineInv
  OBVIOUS
<1>1. server = [p \in Processes |-> NoServer] /\ \A p \in Processes : pc[p] = "off"
  BY DEF Init
<1>2. server \in [Processes -> ServerType]
  BY <1>1, NoServerType
<1>. QED
  BY <1>1, <1>2 DEF DeadlineInv, Deadline, Served, NoServer, NoCall

LEMMA DeadlineStep == SchemaInv /\ DeadlineInv /\ [Next]_vars => DeadlineInv'
<1>. SUFFICES ASSUME SchemaInv, DeadlineInv, [Next]_vars PROVE DeadlineInv'
  OBVIOUS
<1>1. CASE UNCHANGED vars
  BY <1>1 DEF vars, DeadlineInv, Deadline, Served
<1>2. ASSUME NEW p \in Processes, Ends(p) \/ Stop(p) PROVE DeadlineInv'
  <2>1. OthersStay(p) /\ ServerStays(p) /\ pc'[p] = "off" /\ server'[p] = NoServer
    BY <1>2 DEF SchemaInv, TypeInv, DeadlineInv, Ends, Stop, Over, Goto, OthersStay, ServerStays
  <2>2. server' \in [Processes -> ServerType]
    BY <1>2, NoServerType DEF DeadlineInv, Ends, Stop, Over
  <2>3. Deadline(p)'
    BY <2>1 DEF Deadline, Served, NoServer, NoCall
  <2>. QED
    BY <2>1, <2>2, <2>3, DeadlineFrame
<1>3. ASSUME NEW p \in Processes, server' = server, OthersStay(p), ~Served(p), ~Served(p)'
      PROVE  DeadlineInv'
  <2>1. ServerStays(p) /\ server' \in [Processes -> ServerType]
    BY <1>3 DEF ServerStays, DeadlineInv
  <2>2. Deadline(p)'
    BY <1>3 DEF Deadline, DeadlineInv
  <2>. QED
    BY <1>3, <2>1, <2>2, DeadlineFrame
<1>4. ASSUME NEW p \in Processes,
             Start(p) \/ OpenContainer(p) \/ CreateVersionTable(p) \/ ReadVersion(p)
               \/ InsertVersion(p) \/ Migrate(p) \/ UpdateVersion(p)
      PROVE  DeadlineInv'
  <2>1. server' = server
    BY <1>4 DEF Start, OpenContainer, CreateVersionTable, ReadVersion, InsertVersion, Migrate,
       UpdateVersion
  <2>2. ~Served(p)
    BY <1>4 DEF Start, OpenContainer, CreateVersionTable, ReadVersion, InsertVersion, Migrate,
       UpdateVersion, Served
  <2>3. OthersStay(p) /\ ~Served(p)'
    <3>1. CASE Start(p)
      BY <3>1 DEF SchemaInv, TypeInv, Start, Goto, OthersStay, Served
    <3>2. CASE OpenContainer(p)
      BY <3>2 DEF SchemaInv, TypeInv, OpenContainer, Goto, OthersStay, Served
    <3>3. CASE CreateVersionTable(p)
      BY <3>3 DEF SchemaInv, TypeInv, CreateVersionTable, Goto, OthersStay, Served
    <3>4. CASE ReadVersion(p)
      BY <3>4 DEF SchemaInv, TypeInv, ReadVersion, Proceed, Goto, OthersStay, Served
    <3>5. CASE InsertVersion(p)
      BY <3>5 DEF SchemaInv, TypeInv, InsertVersion, Proceed, Goto, OthersStay, Served
    <3>6. CASE Migrate(p)
      BY <3>6 DEF SchemaInv, TypeInv, Migrate, Advance, Goto, OthersStay, Served
    <3>7. CASE UpdateVersion(p)
      BY <3>7 DEF SchemaInv, TypeInv, UpdateVersion, Proceed, Goto, OthersStay, Served
    <3>. QED
      BY <1>4, <3>1, <3>2, <3>3, <3>4, <3>5, <3>6, <3>7
  <2>. QED
    BY <1>3, <2>1, <2>2, <2>3
<1>5. ASSUME NEW p \in Processes, Provision(p) PROVE DeadlineInv'
  <2>1. OthersStay(p) /\ ServerStays(p) /\ ~Served(p) /\ ~Served(p)'
    BY <1>5 DEF SchemaInv, TypeInv, DeadlineInv, Provision, Goto, OthersStay, ServerStays, Served
  <2>2. /\ server' \in [Processes -> ServerType]
        /\ server'[p].call = server[p].call /\ server'[p].cut = server[p].cut
    BY <1>5 DEF DeadlineInv, ServerType, Provision
  <2>3. Deadline(p)'
    BY <2>1, <2>2 DEF Deadline, DeadlineInv
  <2>. QED
    BY <2>1, <2>2, <2>3, DeadlineFrame
<1>6. ASSUME NEW p \in Processes, Serve(p) PROVE DeadlineInv'
  <2>1. OthersStay(p) /\ ServerStays(p) /\ ~Served(p) /\ given' = given
    BY <1>6 DEF SchemaInv, TypeInv, DeadlineInv, Serve, Goto, OthersStay, ServerStays, Served
  <2>2. Warns(given[p].cfg) \in BOOLEAN
    BY DurationInt DEF Warns, SendAckTimeout
  <2>3. /\ server' \in [Processes -> ServerType]
        /\ server'[p].call = server[p].call /\ server'[p].cut = server[p].cut
        /\ server'[p].warned = Warns(given[p].cfg)
    <3>. DEFINE admin  == given[p].cfg.instanceMode = "multi"
                auth   == IF given[p].cfg.instanceMode = "single" THEN "default" ELSE "header"
                warned == Warns(given[p].cfg)
                new    == [server[p] EXCEPT !.admin = admin, !.auth = auth, !.warned = warned]
    <3>1. server[p] \in ServerType
      BY DEF DeadlineInv
    <3>2. server' = [server EXCEPT ![p] = new]
      BY <1>6 DEF Serve
    <3>3. admin \in BOOLEAN /\ auth \in {"none", "default", "header"} /\ warned \in BOOLEAN
      BY <2>2
    <3>. HIDE DEF admin, auth
    <3>4. new \in ServerType /\ new.call = server[p].call /\ new.cut = server[p].cut /\ new.warned = warned
      <4>. HIDE DEF warned
      <4>. QED
        BY <3>1, <3>3 DEF ServerType
    <3>. HIDE DEF new
    <3>. QED
      BY <3>2, <3>4 DEF DeadlineInv
  <2>4. pc'[p] = "serving" /\ ~server[p].call.busy /\ server[p].cut = "no"
    BY <1>6, <2>1 DEF SchemaInv, TypeInv, Serve, Goto, DeadlineInv, Deadline
  <2>5. Deadline(p)'
    BY <2>1, <2>3, <2>4 DEF Deadline, Served
  <2>. QED
    BY <2>1, <2>3, <2>5, DeadlineFrame
<1>7. ASSUME NEW p \in Processes, NEW upload \in Uploads, SendStalls(p, upload) PROVE DeadlineInv'
  <2>0. upload \in Nat
    BY StartupAssumption
  <2>1. OthersStay(p) /\ ServerStays(p) /\ pc' = pc /\ given' = given /\ pc[p] = "serving"
    BY <1>7 DEF DeadlineInv, SendStalls, OthersStay, ServerStays
  <2>2. /\ server' \in [Processes -> ServerType]
        /\ server'[p].cut = server[p].cut /\ server'[p].warned = server[p].warned
        /\ server'[p].call = [busy |-> TRUE, age |-> 0, left |-> upload + SendAckTimeout, upload |-> upload]
    <3>. DEFINE call == [busy |-> TRUE, age |-> 0, left |-> upload + SendAckTimeout, upload |-> upload]
    <3>1. call \in [busy : BOOLEAN, age : Int, left : Int, upload : Nat]
      BY <2>0 DEF SendAckTimeout
    <3>2. server' = [server EXCEPT ![p].call = call] /\ server[p] \in ServerType
      BY <1>7 DEF SendStalls, DeadlineInv
    <3>. HIDE DEF call
    <3>. QED
      BY <3>1, <3>2 DEF DeadlineInv, ServerType, call
  <2>3. Deadline(p)'
    BY <2>0, <2>1, <2>2 DEF Deadline, DeadlineInv, Served, SendAckTimeout
  <2>. QED
    BY <2>1, <2>2, <2>3, DeadlineFrame
<1>8. ASSUME NEW p \in Processes, TimePasses(p) PROVE DeadlineInv'
  <2>1. OthersStay(p) /\ ServerStays(p) /\ pc' = pc /\ given' = given
    BY <1>8 DEF DeadlineInv, TimePasses, OthersStay, ServerStays
  <2>2. /\ server' \in [Processes -> ServerType]
        /\ server'[p].cut = server[p].cut /\ server'[p].warned = server[p].warned
        /\ server'[p].call = [server[p].call EXCEPT !.age = @ + 1, !.left = @ - 1]
    <3>. DEFINE drain == IF pc[p] = "draining" THEN server[p].drain - 1 ELSE server[p].drain
                call == [server[p].call EXCEPT !.age = @ + 1, !.left = @ - 1]
                new == [server[p] EXCEPT !.call = call, !.drain = drain]
    <3>1. server[p] \in ServerType
      BY DEF DeadlineInv
    <3>2. server' = [server EXCEPT ![p] = new]
      BY <1>8, <3>1 DEF TimePasses, ServerType
    <3>3. drain \in Int /\ call \in [busy : BOOLEAN, age : Int, left : Int, upload : Nat]
      <4>1. server[p].drain \in Int
        BY <3>1 DEF ServerType
      <4>2. server[p].call \in [busy : BOOLEAN, age : Int, left : Int, upload : Nat]
        BY <3>1 DEF ServerType
      <4>3. drain \in Int
        BY <4>1
      <4>4. call \in [busy : BOOLEAN, age : Int, left : Int, upload : Nat]
        <5>. DEFINE age == server[p].call.age + 1
                    left == server[p].call.left - 1
        <5>1. age \in Int /\ left \in Int
          BY <4>2
        <5>2. call = [server[p].call EXCEPT !.age = age, !.left = left]
          BY <4>2
        <5>. HIDE DEF age, left, call
        <5>. QED
          BY <4>2, <5>1, <5>2
      <4>. QED
        BY <4>3, <4>4
    <3>4. /\ new \in ServerType /\ new.cut = server[p].cut /\ new.warned = server[p].warned
          /\ new.call = call
      <4>. HIDE DEF drain, call
      <4>. QED
        BY <3>1, <3>3 DEF ServerType
    <3>. HIDE DEF new
    <3>. QED
      BY <3>2, <3>4 DEF DeadlineInv
  <2>3. server[p].call \in [busy : BOOLEAN, age : Int, left : Int, upload : Nat]
    BY DEF DeadlineInv, ServerType
  <2>4. Deadline(p)'
    BY <2>1, <2>2, <2>3 DEF Deadline, DeadlineInv, Served, SendAckTimeout
  <2>. QED
    BY <2>1, <2>2, <2>4, DeadlineFrame
<1>9. ASSUME NEW p \in Processes, Answer(p) PROVE DeadlineInv'
  <2>1. OthersStay(p) /\ ServerStays(p) /\ pc' = pc /\ given' = given
    BY <1>9 DEF DeadlineInv, Answer, OthersStay, ServerStays
  <2>2. /\ server' \in [Processes -> ServerType]
        /\ server'[p].warned = server[p].warned /\ server'[p].call = NoCall
        /\ server'[p].cut = IF server[p].call.age < WriteTimeoutDuration(given[p].cfg) THEN server[p].cut
                            ELSE IF server[p].call.upload = 0 THEN "deadline" ELSE "upload"
    <3>. DEFINE cut == IF server[p].call.age < WriteTimeoutDuration(given[p].cfg) THEN server[p].cut
                       ELSE IF server[p].call.upload = 0 THEN "deadline" ELSE "upload"
                new == [server[p] EXCEPT !.call = NoCall, !.cut = cut]
    <3>1. server[p] \in ServerType
      BY DEF DeadlineInv
    <3>2. server' = [server EXCEPT ![p] = new]
      BY <1>9 DEF Answer
    <3>3. cut \in {"no", "deadline", "upload"}
      BY <3>1 DEF ServerType
    <3>4. /\ new \in ServerType /\ new.warned = server[p].warned /\ new.call = NoCall
          /\ new.cut = cut
      <4>1. NoCall \in [busy : BOOLEAN, age : Int, left : Int, upload : Nat]
        BY DEF NoCall
      <4>. HIDE DEF cut
      <4>. QED
        BY <3>1, <3>3, <4>1 DEF ServerType
    <3>. HIDE DEF new, cut
    <3>5. server' \in [Processes -> ServerType] /\ server'[p] = new
      BY <3>2, <3>4 DEF DeadlineInv
    <3>. QED
      BY <3>4, <3>5 DEF cut
  <2>3. Served(p) /\ Deadline(p)
    BY <1>9 DEF Answer, DeadlineInv, Deadline
  <2>4. server'[p].cut = "deadline" => server[p].warned
    <3>. SUFFICES ASSUME ~(server[p].call.age < WriteTimeoutDuration(given[p].cfg)),
                         server[p].call.upload = 0
                  PROVE  server[p].warned
      BY <2>2, <2>3 DEF Deadline
    <3>1. server[p].call.age \in Int /\ server[p].call.left = 0 /\ server[p].call.busy
      BY <1>9 DEF DeadlineInv, ServerType, Answer
    <3>2. server[p].call.age = SendAckTimeout
      BY <2>3, <3>1 DEF Deadline, SendAckTimeout
    <3>3. Warns(given[p].cfg)
      BY <3>2, DurationInt DEF Warns, SendAckTimeout
    <3>. QED
      BY <2>3, <3>3 DEF Deadline
  <2>5. Deadline(p)'
    BY <2>1, <2>2, <2>3, <2>4 DEF Deadline, Served, NoCall
  <2>. QED
    BY <2>1, <2>2, <2>5, DeadlineFrame
<1>10. ASSUME NEW p \in Processes, Signal(p) PROVE DeadlineInv'
  <2>1. OthersStay(p) /\ ServerStays(p) /\ given' = given /\ Served(p) /\ Served(p)'
    BY <1>10 DEF SchemaInv, TypeInv, DeadlineInv, Signal, Goto, OthersStay, ServerStays, Served
  <2>2. /\ server' \in [Processes -> ServerType] /\ server'[p].warned = server[p].warned
        /\ server'[p].call = server[p].call /\ server'[p].cut = server[p].cut
    <3>. DEFINE drain == ShutdownTimeoutDuration(given[p].cfg)
    <3>1. drain \in Int
      BY DurationInt
    <3>2. server' = [server EXCEPT ![p].drain = drain]
      BY <1>10 DEF Signal
    <3>. HIDE DEF drain
    <3>. QED
      BY <3>1, <3>2 DEF DeadlineInv, ServerType
  <2>3. Deadline(p)'
    BY <2>1, <2>2 DEF Deadline, DeadlineInv
  <2>. QED
    BY <2>1, <2>2, <2>3, DeadlineFrame
<1>. QED
  BY <1>1, <1>2, <1>4, <1>5, <1>6, <1>7, <1>8, <1>9, <1>10 DEF Next

\* A send that stalls and has nothing to upload is answered, or its process
\* has warned that it would not be, whatever the deadlines that were set.
THEOREM SpecCutsAreAnnounced == Spec => []CutsAreAnnounced
<1>1. Spec => []DeadlineInv
  BY DeadlineInit, DeadlineStep, SpecSchemaInv, PTL DEF Spec
<1>2. DeadlineInv => CutsAreAnnounced
  BY DEF DeadlineInv, Deadline, CutsAreAnnounced
<1>. QED
  BY <1>1, <1>2, PTL

-----------------------------------------------------------------------------
(* Settings and modes. *)

Multi(p) == given[p].cfg.instanceMode # "single"

InMode(p) ==
    /\ pc[p] # "off" => /\ given[p].cfg = ApplyEnv(FromFile(Defaults, given[p].file), given[p].env)
                        /\ Validate(given[p].cfg)
    /\ pc[p] \in {"routes", "serving", "draining"} => server[p].store = Multi(p)
    /\ Served(p) => /\ server[p].admin = Multi(p)
                    /\ server[p].auth = IF Multi(p) THEN "header" ELSE "default"

ModeInv == \A p \in Processes : InMode(p)

ServesAs(p) ==
    /\ server'[p].store = server[p].store /\ server'[p].admin = server[p].admin
    /\ server'[p].auth = server[p].auth

LEMMA ModeFrame ==
    ASSUME ModeInv, NEW p \in Processes, OthersStay(p), ServerStays(p), InMode(p)'
    PROVE  ModeInv'
<1>. SUFFICES ASSUME NEW q \in Processes \ {p} PROVE InMode(q)'
  BY DEF ModeInv
<1>1. pc'[q] = pc[q] /\ given'[q] = given[q] /\ server'[q] = server[q] /\ InMode(q)
  BY DEF OthersStay, ServerStays, ModeInv
<1>. QED
  BY <1>1 DEF InMode, Served, Multi

LEMMA ModeInit == Init => ModeInv
<1>. SUFFICES ASSUME Init, NEW p \in Processes PROVE InMode(p)
  BY DEF ModeInv
<1>1. pc[p] = "off"
  BY DEF Init
<1>. QED
  BY <1>1 DEF InMode, Served

LEMMA ValidMode ==
    ASSUME NEW cfg, Validate(cfg)
    PROVE  cfg.instanceMode \in {"single", "multi"}
BY DEF Validate, Allowed

LEMMA ModeStep == SchemaInv /\ DeadlineInv /\ ModeInv /\ [Next]_vars => ModeInv'
<1>. SUFFICES ASSUME SchemaInv, DeadlineInv, ModeInv, [Next]_vars PROVE ModeInv'
  OBVIOUS
<1>1. CASE UNCHANGED vars
  BY <1>1 DEF vars, ModeInv, InMode, Served, Multi
<1>2. ASSUME NEW p \in Processes, Ends(p) \/ Stop(p) PROVE ModeInv'
  <2>1. OthersStay(p) /\ ServerStays(p) /\ pc'[p] = "off"
    BY <1>2 DEF SchemaInv, TypeInv, DeadlineInv, Ends, Stop, Over, Goto, OthersStay, ServerStays
  <2>2. InMode(p)'
    BY <2>1 DEF InMode, Served
  <2>. QED
    BY <2>1, <2>2, ModeFrame
<1>3. ASSUME NEW p \in Processes, Start(p) PROVE ModeInv'
  <2>1. OthersStay(p) /\ ServerStays(p) /\ pc'[p] = "container"
    BY <1>3 DEF SchemaInv, TypeInv, Start, Goto, OthersStay, ServerStays
  <2>2. PICK file \in Files, env \in Environments : \E cfg \in Load(file, env) :
           given' = [given EXCEPT ![p] = [cfg |-> cfg, file |-> file.says, env |-> env]]
    BY <1>3 DEF Start
  <2>3. PICK cfg \in Load(file, env) :
           given' = [given EXCEPT ![p] = [cfg |-> cfg, file |-> file.says, env |-> env]]
    BY <2>2
  <2>4. given'[p] = [cfg |-> cfg, file |-> file.says, env |-> env]
    BY <2>3 DEF SchemaInv, TypeInv
  <2>5. cfg = ApplyEnv(FromFile(Defaults, file.says), env) /\ Validate(cfg)
    BY <2>3 DEF Load
  <2>6. InMode(p)'
    BY <2>1, <2>4, <2>5 DEF InMode, Served
  <2>. QED
    BY <2>1, <2>6, ModeFrame
<1>4. ASSUME NEW p \in Processes,
             OpenContainer(p) \/ CreateVersionTable(p) \/ ReadVersion(p) \/ InsertVersion(p)
               \/ Migrate(p) \/ UpdateVersion(p)
      PROVE  ModeInv'
  <2>1. server' = server /\ given' = given /\ pc[p] # "off"
    BY <1>4 DEF OpenContainer, CreateVersionTable, ReadVersion, InsertVersion, Migrate, UpdateVersion
  <2>2. OthersStay(p) /\ pc'[p] \notin {"routes", "serving", "draining"}
    <3>1. CASE OpenContainer(p)
      BY <3>1 DEF SchemaInv, TypeInv, OpenContainer, Goto, OthersStay
    <3>2. CASE CreateVersionTable(p)
      BY <3>2 DEF SchemaInv, TypeInv, CreateVersionTable, Goto, OthersStay
    <3>3. CASE ReadVersion(p)
      BY <3>3 DEF SchemaInv, TypeInv, ReadVersion, Proceed, Goto, OthersStay
    <3>4. CASE InsertVersion(p)
      BY <3>4 DEF SchemaInv, TypeInv, InsertVersion, Proceed, Goto, OthersStay
    <3>5. CASE Migrate(p)
      BY <3>5 DEF SchemaInv, TypeInv, Migrate, Advance, Goto, OthersStay
    <3>6. CASE UpdateVersion(p)
      BY <3>6 DEF SchemaInv, TypeInv, UpdateVersion, Proceed, Goto, OthersStay
    <3>. QED
      BY <1>4, <3>1, <3>2, <3>3, <3>4, <3>5, <3>6
  <2>3. InMode(p)'
    BY <2>1, <2>2 DEF InMode, Served, ModeInv
  <2>4. ServerStays(p)
    BY <2>1 DEF ServerStays
  <2>. QED
    BY <2>2, <2>3, <2>4, ModeFrame
<1>5. ASSUME NEW p \in Processes, Provision(p) PROVE ModeInv'
  <2>1. OthersStay(p) /\ ServerStays(p) /\ given' = given /\ pc[p] = "provision"
        /\ pc'[p] \in {"refused", "routes"}
    BY <1>5 DEF SchemaInv, TypeInv, DeadlineInv, Provision, Goto, OthersStay, ServerStays
  <2>2. server'[p].store = Multi(p)
    BY <1>5 DEF DeadlineInv, ServerType, Provision, Multi
  <2>3. InMode(p)'
    BY <2>1, <2>2 DEF InMode, Served, ModeInv, Multi
  <2>. QED
    BY <2>1, <2>3, ModeFrame
<1>6. ASSUME NEW p \in Processes, Serve(p) PROVE ModeInv'
  <2>1. OthersStay(p) /\ ServerStays(p) /\ given' = given /\ pc[p] = "routes" /\ pc'[p] = "serving"
    BY <1>6 DEF SchemaInv, TypeInv, DeadlineInv, Serve, Goto, OthersStay, ServerStays
  <2>2. given[p].cfg.instanceMode \in {"single", "multi"}
    BY <2>1, ValidMode DEF ModeInv, InMode
  <2>3. /\ server'[p].store = server[p].store
        /\ server'[p].admin = (given[p].cfg.instanceMode = "multi")
        /\ server'[p].auth = IF given[p].cfg.instanceMode = "single" THEN "default" ELSE "header"
    <3>. DEFINE warned == Warns(given[p].cfg)
    <3>1. server' = [server EXCEPT ![p].admin = given[p].cfg.instanceMode = "multi",
              ![p].auth = IF given[p].cfg.instanceMode = "single" THEN "default" ELSE "header",
              ![p].warned = warned]
      BY <1>6 DEF Serve
    <3>. HIDE DEF warned
    <3>. QED
      BY <3>1 DEF DeadlineInv, ServerType
  <2>4. server'[p].admin = Multi(p) /\ server'[p].auth = IF Multi(p) THEN "header" ELSE "default"
    BY <2>2, <2>3 DEF Multi
  <2>5. InMode(p)'
    BY <2>1, <2>3, <2>4 DEF InMode, Served, ModeInv, Multi
  <2>. QED
    BY <2>1, <2>5, ModeFrame
<1>7. ASSUME NEW p \in Processes, OthersStay(p), ServerStays(p), given' = given, ServesAs(p),
             pc[p] \in {"serving", "draining"}, pc'[p] \in {"serving", "draining"}
      PROVE  ModeInv'
  <2>1. InMode(p)'
    BY <1>7 DEF InMode, Served, ModeInv, Multi, ServesAs
  <2>. QED
    BY <1>7, <2>1, ModeFrame
<1>8. ASSUME NEW p \in Processes, NEW upload \in Uploads, SendStalls(p, upload) PROVE ModeInv'
  <2>1. OthersStay(p) /\ ServerStays(p) /\ given' = given /\ pc' = pc /\ pc[p] = "serving"
    BY <1>8 DEF DeadlineInv, SendStalls, OthersStay, ServerStays
  <2>2. ServesAs(p)
    <3>. DEFINE call == [busy |-> TRUE, age |-> 0, left |-> upload + SendAckTimeout, upload |-> upload]
    <3>1. server' = [server EXCEPT ![p].call = call]
      BY <1>8 DEF SendStalls
    <3>. HIDE DEF call
    <3>. QED
      BY <3>1 DEF DeadlineInv, ServerType, ServesAs
  <2>. QED
    BY <1>7, <2>1, <2>2
<1>9. ASSUME NEW p \in Processes, TimePasses(p) PROVE ModeInv'
  <2>1. OthersStay(p) /\ ServerStays(p) /\ given' = given /\ pc' = pc
    BY <1>9 DEF DeadlineInv, TimePasses, OthersStay, ServerStays
  <2>2. pc[p] \in {"serving", "draining"}
    BY <1>9 DEF DeadlineInv, Deadline, Served, TimePasses
  <2>3. ServesAs(p)
    BY <1>9 DEF DeadlineInv, ServerType, TimePasses, ServesAs
  <2>. QED
    BY <1>7, <2>1, <2>2, <2>3
<1>10. ASSUME NEW p \in Processes, Answer(p) PROVE ModeInv'
  <2>1. OthersStay(p) /\ ServerStays(p) /\ given' = given /\ pc' = pc
    BY <1>10 DEF DeadlineInv, Answer, OthersStay, ServerStays
  <2>2. pc[p] \in {"serving", "draining"}
    BY <1>10 DEF DeadlineInv, Deadline, Served, Answer
  <2>3. ServesAs(p)
    <3>. DEFINE cut == IF server[p].call.age < WriteTimeoutDuration(given[p].cfg) THEN server[p].cut
                       ELSE IF server[p].call.upload = 0 THEN "deadline" ELSE "upload"
    <3>1. server' = [server EXCEPT ![p].call = NoCall, ![p].cut = cut]
      BY <1>10 DEF Answer
    <3>. HIDE DEF cut
    <3>. QED
      BY <3>1 DEF DeadlineInv, ServerType, ServesAs
  <2>. QED
    BY <1>7, <2>1, <2>2, <2>3
<1>11. ASSUME NEW p \in Processes, Signal(p) PROVE ModeInv'
  <2>1. OthersStay(p) /\ ServerStays(p) /\ given' = given /\ pc[p] = "serving" /\ pc'[p] = "draining"
    BY <1>11 DEF SchemaInv, TypeInv, DeadlineInv, Signal, Goto, OthersStay, ServerStays
  <2>2. ServesAs(p)
    BY <1>11 DEF DeadlineInv, ServerType, Signal, ServesAs
  <2>. QED
    BY <1>7, <2>1, <2>2
<1>. QED
  BY <1>1, <1>2, <1>3, <1>4, <1>5, <1>6, <1>8, <1>9, <1>10, <1>11 DEF Next

LEMMA CountIsNumber ==
    ASSUME NEW text, IsCount(text)
    PROVE  IsNumber(text) /\ text # ""
BY DEF IsCount, IsNumber

LEMMA DomainOfVariables ==
    /\ DOMAIN Variables = {"instanceMode", "driver", "publishVia", "redisMode", "port", "mediaSlots", "redact"}
    /\ \A s \in DOMAIN Variables : Variables[s] \in {"text", "number", "count", "switch"}
BY DEF Variables

\* The environment's text, if it is one, or the file's, or the default.
Precedes(cfg, file, env, s) ==
    LET set == s \in DOMAIN env \cap DOMAIN Variables /\ env[s] # ""
    IN  /\ ~set => cfg[s] = IF s \in DOMAIN file THEN file[s] ELSE Defaults[s]
        /\ set /\ Variables[s] = "text" => cfg[s] = env[s]
        /\ set /\ Variables[s] # "switch" /\ IsCount(env[s]) => cfg[s] = env[s]

LEMMA Precedence ==
    ASSUME NEW file, NEW env, NEW cfg, cfg = ApplyEnv(FromFile(Defaults, file), env)
    PROVE  \A s \in Settings : Precedes(cfg, file, env, s)
<1>. SUFFICES ASSUME NEW s \in Settings PROVE Precedes(cfg, file, env, s)
  OBVIOUS
<1>1. FromFile(Defaults, file)[s] = IF s \in DOMAIN file THEN file[s] ELSE Defaults[s]
  BY DEF FromFile
<1>. DEFINE text == IF s \in DOMAIN env THEN env[s] ELSE ""
<1>2. cfg[s] = IF \/ text = "" \/ s \notin DOMAIN Variables
                  \/ Variables[s] = "number" /\ ~IsNumber(text)
                  \/ Variables[s] = "count" /\ ~IsCount(text)
               THEN FromFile(Defaults, file)[s]
               ELSE IF Variables[s] = "switch" THEN (IF text \in {"true", "True", "1"} THEN "on" ELSE "off")
               ELSE text
  BY DEF ApplyEnv
<1>. QED
  BY <1>1, <1>2, CountIsNumber, DomainOfVariables DEF Precedes

\* Whoever serves uses the settings of the environment over those of the file
\* over the defaults, and is in one mode altogether, whatever file and
\* environment it was given.
THEOREM SpecSettingsTakeEffect == Spec => []SettingsTakeEffect
<1>1. Spec => []ModeInv
  BY DeadlineInit, DeadlineStep, ModeInit, ModeStep, SpecSchemaInv, PTL DEF Spec
<1>2. ASSUME ModeInv, NEW p \in Processes, Served(p)
      PROVE  /\ \A s \in Settings : Precedes(given[p].cfg, given[p].file, given[p].env, s)
             /\ Validate(given[p].cfg)
             /\ server[p].store = server[p].admin
             /\ server[p].admin = (server[p].auth = "header")
  <2>1. /\ given[p].cfg = ApplyEnv(FromFile(Defaults, given[p].file), given[p].env)
        /\ Validate(given[p].cfg)
        /\ server[p].store = Multi(p) /\ server[p].admin = Multi(p)
        /\ server[p].auth = IF Multi(p) THEN "header" ELSE "default"
    BY <1>2 DEF ModeInv, InMode, Served
  <2>2. server[p].admin = (server[p].auth = "header")
    BY <2>1 DEF Multi
  <2>3. \A s \in Settings : Precedes(given[p].cfg, given[p].file, given[p].env, s)
    BY <2>1, Precedence
  <2>. QED
    BY <2>1, <2>2, <2>3
<1>3. ModeInv => SettingsTakeEffect
  BY <1>2 DEF SettingsTakeEffect, Precedes, Served
<1>. QED
  BY <1>1, <1>3, PTL
=============================================================================
