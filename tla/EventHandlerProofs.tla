------------------------- MODULE EventHandlerProofs -------------------------
(***************************************************************************)
(* The event handler: invariants of EventPipeline for any types, filters,  *)
(* defaults, workers and scenarios, and after them those of EventTracking, *)
(* for any people, times, bounds and scenarios.                            *)
(*                                                                         *)
(* Publishers come from a configuration (Built).  Dedup knows every        *)
(* message on its way or sent (Known), as long as it is not replaced.  The *)
(* row and the defaults give the configuration that is in use (Stored).    *)
(***************************************************************************)
EXTENDS EventPipeline, EventTracking, SequenceTheorems, TLAPS

\* What the publishers were made from.
Built ==
    IF config = NoConfig THEN captured = NoCaptured ELSE
        /\ pub = NewPublisher(config)
        /\ captured.config # NoConfig
        /\ captured.pub = NewPublisher(captured.config)

\* Where Dedup is not replaced, what it knows.
Known ==
    /\ config = NoConfig => \A w \in Workers : worker[w].id = NoMessage
    /\ ~May("restart") =>
         /\ sent \subseteq seen
         /\ \A w \in Workers : worker[w].id # NoMessage =>
              worker[w].id \in seen \ sent
         /\ \A v, w \in Workers :
              worker[v].id # NoMessage /\ worker[v].id = worker[w].id => v = w

\* What a restart of the process under the same defaults would make.
Again == IF Multi THEN ApplyDefaults(row, defaults)
         ELSE [defaults EXCEPT !.filters = StripSystemEvents(@)]

\* Where the store does not fail, that is what there is, but for a list of
\* which nothing is left, and entries the store reads otherwise.
Stored ==
    ~May("store") /\ config # NoConfig =>
        /\ Multi => row # NoConfig
        /\ config.webhook = Again.webhook /\ config.publish = Again.publish
        /\ SplitFilters(config.filters) # {} \/ defaults.filters = {} =>
             Again.filters \in {config.filters, SplitFilters(config.filters)}

-----------------------------------------------------------------------------
(* Configurations. *)

LEMMA ScenarioParts ==
    ASSUME TypeOK
    PROVE  /\ Defaults \subseteq InstanceConfig
           /\ Requests \subseteq InstanceConfig
           /\ Scenarios[scenario].workers \subseteq Workers
<1>1. Scenarios[scenario] \in Scenario
  BY TypesAssumption DEF TypeOK
<1>2. Defaults \subseteq InstanceConfig /\ Scenarios[scenario].workers \subseteq Workers
  BY <1>1 DEF Defaults, Scenario
<1>3. Scenarios[scenario].lists \subseteq Filters
  BY <1>1 DEF Scenario
<1>4. Requests \subseteq InstanceConfig
  BY <1>3 DEF Requests, InstanceConfig
<1>. QED
  BY <1>2, <1>4

\* Defaults fill the fields that are empty, and nothing else.
LEMMA DefaultsType ==
    ASSUME NEW cfg \in InstanceConfig, NEW d \in InstanceConfig
    PROVE  /\ ApplyDefaults(cfg, d) \in InstanceConfig
           /\ Resolved(cfg, d) \in InstanceConfig
           /\ [d EXCEPT !.filters = StripSystemEvents(@)] \in InstanceConfig
<1>1. ApplyDefaults(cfg, d) \in InstanceConfig
  BY DEF ApplyDefaults, InstanceConfig
<1>2. ASSUME NEW c \in InstanceConfig
      PROVE  [c EXCEPT !.filters = StripSystemEvents(@)] \in InstanceConfig
  BY DEF StripSystemEvents, InstanceConfig, Filters
<1>. QED
  BY <1>1, <1>2 DEF Resolved

LEMMA ResolvedIsOne ==
    ASSUME TypeOK, NEW request \in Requests
    PROVE  Resolved(request, defaults) # NoConfig
<1>1. request \in InstanceConfig /\ defaults \in InstanceConfig
  BY ScenarioParts DEF TypeOK
<1>2. Resolved(request, defaults) \in InstanceConfig
  BY <1>1, DefaultsType
<1>. QED
  BY <1>2, TypesAssumption

\* The store makes names of types of whatever it reads.
LEMMA SplitType ==
    ASSUME NEW filters \in Filters
    PROVE  SplitFilters(filters) \in Filters
<1>1. ASSUME NEW piece \in UNION filters, piece.name # Blank
      PROVE  Exactly(piece.name) \in Entries
  <2>1. piece \in Piece
    BY DEF Filters, Entries
  <2>2. [name |-> piece.name, padded |-> FALSE] \in Piece
    BY <2>1 DEF Piece
  <2>3. Exactly(piece.name) \in SUBSET Piece /\ Exactly(piece.name) # {}
    BY <2>2 DEF Exactly
  <2>. QED
    BY <2>3 DEF Entries
<1>. QED
  BY <1>1 DEF SplitFilters, Filters

\* A list of names of types comes back as it was.
LEMMA SplitNames ==
    ASSUME NEW filters, \A entry \in filters : \E type \in Types : entry = Exactly(type)
    PROVE  SplitFilters(filters) = filters
<1>1. ASSUME NEW entry \in filters PROVE entry \in SplitFilters(filters)
  <2>1. PICK type \in Types : entry = Exactly(type)
    OBVIOUS
  <2>. DEFINE piece == [name |-> type, padded |-> FALSE]
  <2>2. piece \in entry /\ piece.name = type
    BY <2>1 DEF Exactly
  <2>3. piece \in UNION filters /\ piece.name # Blank
    BY <2>2, TypesAssumption
  <2>. QED
    BY <2>1, <2>2, <2>3 DEF SplitFilters
<1>2. ASSUME NEW name \in SplitFilters(filters) PROVE name \in filters
  <2>1. PICK piece \in UNION filters : name = Exactly(piece.name)
    BY DEF SplitFilters
  <2>2. PICK entry \in filters : piece \in entry
    OBVIOUS
  <2>3. PICK type \in Types : entry = Exactly(type)
    OBVIOUS
  <2>4. piece.name = type
    BY <2>2, <2>3 DEF Exactly
  <2>. QED
    BY <2>1, <2>3, <2>4
<1>. QED
  BY <1>1, <1>2

LEMMA SavedType ==
    ASSUME NEW cfg \in InstanceConfig
    PROVE  /\ [cfg EXCEPT !.filters = SplitFilters(@)] \in InstanceConfig
           /\ [cfg EXCEPT !.filters = SplitFilters(@)] # NoConfig
<1>1. SplitFilters(cfg.filters) \in Filters
  BY SplitType DEF InstanceConfig
<1>. QED
  BY <1>1, TypesAssumption DEF InstanceConfig

\* What was saved gives what was resolved when the same defaults fill it, but
\* for a list without an entry, and for entries the store reads otherwise.
LEMMA SavedAgain ==
    ASSUME NEW cfg \in InstanceConfig, NEW d \in InstanceConfig
    PROVE  LET r == Resolved(cfg, d)
               a == ApplyDefaults([r EXCEPT !.filters = SplitFilters(@)], d)
           IN  /\ r.webhook = a.webhook /\ r.publish = a.publish
               /\ SplitFilters(r.filters) # {} \/ d.filters = {} =>
                    a.filters = SplitFilters(r.filters)
<1>. DEFINE r == Resolved(cfg, d)
            saved == [r EXCEPT !.filters = SplitFilters(@)]
            a == ApplyDefaults(saved, d)
<1>1. r \in InstanceConfig
  BY DefaultsType
<1>2. /\ saved.webhook = r.webhook /\ saved.publish = r.publish
      /\ saved.filters = SplitFilters(r.filters)
  BY <1>1 DEF InstanceConfig
<1>3. /\ r.webhook = IF cfg.webhook = NoUrl THEN d.webhook ELSE cfg.webhook
      /\ r.publish = IF cfg.publish = "unset" THEN d.publish ELSE cfg.publish
  BY DEF Resolved, ApplyDefaults
<1>4. /\ a.webhook = IF r.webhook = NoUrl THEN d.webhook ELSE r.webhook
      /\ a.publish = IF r.publish = "unset" THEN d.publish ELSE r.publish
      /\ a.filters = IF SplitFilters(r.filters) = {} THEN d.filters ELSE SplitFilters(r.filters)
  BY <1>2 DEF ApplyDefaults
<1>. QED
  BY <1>3, <1>4

LEMMA PublisherType ==
    ASSUME NEW cfg \in InstanceConfig
    PROVE  NewPublisher(cfg) \in Publisher
BY DEF NewPublisher, InstanceConfig, Publisher

LEMMA NothingTypes ==
    /\ NoPublisher \in Publisher /\ NoCaptured \in Captured /\ NoWork \in Work
BY TypesAssumption DEF NoPublisher, Publisher, NoCaptured, Captured, NoWork, Work, Types

\* A call of a publisher leaves typed events.
LEMMA PublishType ==
    ASSUME TypeOK, NEW p \in Publisher, NEW type \in Types,
           NEW id \in MessageIds \cup {NoMessage}, Publish(p, type, id)
    PROVE  received' \subseteq Event
<1>1. CASE received' = received
  BY <1>1 DEF TypeOK
<1>2. CASE p.url # NoUrl /\ received' = received \cup {[type |-> type, url |-> p.url, id |-> id]}
  <2>1. p.url \in Urls
    BY <1>2 DEF Publisher
  <2>2. [type |-> type, url |-> p.url, id |-> id] \in Event
    BY <2>1 DEF Event
  <2>. QED
    BY <1>2, <2>2 DEF TypeOK
<1>. QED
  BY <1>1, <1>2 DEF Publish

-----------------------------------------------------------------------------
(* Types. *)

LEMMA InitTypeOK == Init => TypeOK
BY NothingTypes DEF Init, TypeOK

LEMMA StepTypeOK == TypeOK /\ [Next]_vars => TypeOK'
<1>. SUFFICES ASSUME TypeOK, [Next]_vars PROVE TypeOK'
  OBVIOUS
<1>1. CASE UNCHANGED vars
  BY <1>1 DEF vars, TypeOK, Defaults
<1>2. ASSUME NEW request \in Requests, CreateInstance(request) PROVE TypeOK'
  <2>1. Resolved(request, defaults) \in InstanceConfig
    BY ScenarioParts, DefaultsType DEF TypeOK
  <2>2. config' \in InstanceConfig /\ row' \in InstanceConfig /\ pub' \in Publisher
    BY <1>2, <2>1, PublisherType, SavedType DEF CreateInstance, SaveInstance
  <2>3. captured' \in Captured
    BY <1>2, <2>2 DEF CreateInstance, InitService, Captured
  <2>. QED
    BY <1>2, <2>2, <2>3 DEF CreateInstance, TypeOK, Defaults
<1>3. ASSUME NEW request \in Requests, UpdateInstanceConfig(request) PROVE TypeOK'
  <2>1. Resolved(request, defaults) \in InstanceConfig
    BY ScenarioParts, DefaultsType DEF TypeOK
  <2>2. config' \in InstanceConfig /\ pub' \in Publisher
    BY <1>3, <2>1, PublisherType DEF UpdateInstanceConfig
  <2>3. row' \in InstanceConfig \cup {NoConfig}
    BY <1>3, <2>2, SavedType DEF UpdateInstanceConfig, SaveInstance, TypeOK
  <2>. QED
    BY <1>3, <2>2, <2>3 DEF UpdateInstanceConfig, TypeOK, Defaults
<1>4. CASE RestartInstance
  <2>1. config' = config /\ config \in InstanceConfig /\ pub' \in Publisher
    BY <1>4, PublisherType DEF RestartInstance, TypeOK
  <2>2. captured' \in Captured
    BY <1>4, <2>1 DEF RestartInstance, InitService, Captured
  <2>. QED
    BY <1>4, <2>1, <2>2 DEF RestartInstance, TypeOK, Defaults
<1>5. CASE RebuildService
  <2>1. captured' \in Captured
    BY <1>5 DEF RebuildService, InitService, Captured, TypeOK
  <2>. QED
    BY <1>5, <2>1 DEF RebuildService, TypeOK, Defaults
<1>6. CASE ProcessRestarts
  <2>1. scenario' = scenario /\ defaults' \in Defaults /\ defaults' \in InstanceConfig
    BY <1>6, ScenarioParts DEF ProcessRestarts
  <2>2. config' \in InstanceConfig \cup {NoConfig}
    BY <1>6, <2>1, DefaultsType DEF ProcessRestarts, TypeOK
  <2>3. pub' \in Publisher
    BY <1>6, <2>2, PublisherType, NothingTypes DEF ProcessRestarts
  <2>4. captured' \in Captured
    BY <1>6, <2>2, <2>3, NothingTypes DEF ProcessRestarts, InitService, Captured
  <2>5. worker' \in [Workers -> Work]
    BY <1>6, NothingTypes DEF ProcessRestarts
  <2>. QED
    BY <1>6, <2>1, <2>2, <2>3, <2>4, <2>5 DEF ProcessRestarts, TypeOK, Defaults
<1>7. ASSUME NEW w \in Workers, HandlerPublish(w) PROVE TypeOK'
  <2>1. worker[w] \in Work
    BY DEF TypeOK
  <2>2. worker[w].pub \in Publisher /\ worker[w].type \in Types
        /\ worker[w].id \in MessageIds \cup {NoMessage}
    BY <2>1 DEF Work
  <2>3. received' \subseteq Event
    BY <1>7, <2>2, PublishType DEF HandlerPublish
  <2>4. worker' \in [Workers -> Work]
    BY <1>7, NothingTypes DEF HandlerPublish, TypeOK
  <2>5. sent' \subseteq MessageIds
    BY <1>7, <2>2 DEF HandlerPublish, TypeOK
  <2>. QED
    BY <1>7, <2>3, <2>4, <2>5 DEF HandlerPublish, TypeOK, Defaults
<1>8. ASSUME NEW w \in Workers, NEW type \in Types, NEW id \in MessageIds \cup {NoMessage},
             Dispatch(w, type, id)
      PROVE  TypeOK'
  <2>. DEFINE work == [pc |-> "publish", type |-> type, id |-> id, pub |-> captured.pub]
  <2>1. work \in Work
    BY DEF TypeOK, Captured, Work
  <2>2. worker' = [worker EXCEPT ![w] = work]
    BY <1>8 DEF Dispatch
  <2>. HIDE DEF work
  <2>3. worker' \in [Workers -> Work]
    BY <2>1, <2>2 DEF TypeOK
  <2>4. seen' \subseteq MessageIds
    BY <1>8 DEF Dispatch, TypeOK
  <2>. QED
    BY <1>8, <2>3, <2>4 DEF Dispatch, TypeOK, Defaults
<1>9. ASSUME NEW id \in MessageIds, DedupPurge(id) PROVE TypeOK'
  BY <1>9 DEF DedupPurge, TypeOK, Defaults
<1>10. ASSUME NEW type \in SystemTypes, LoggedOutDirectly(type) PROVE TypeOK'
  <2>1. received' \subseteq Event
    BY <1>10, PublishType DEF LoggedOutDirectly, Types, TypeOK
  <2>. QED
    BY <1>10, <2>1 DEF LoggedOutDirectly, TypeOK, Defaults
<1>11. CASE FlushHistory
  <2>1. received' \subseteq Event
    BY <1>11, PublishType, TypesAssumption DEF FlushHistory, Types, TypeOK
  <2>. QED
    BY <1>11, <2>1 DEF FlushHistory, TypeOK, Defaults
<1>. QED
  BY <1>1, <1>2, <1>3, <1>4, <1>5, <1>6, <1>7, <1>8, <1>9, <1>10, <1>11, ScenarioParts DEF Next

LEMMA SpecTypeOK == Spec => []TypeOK
BY InitTypeOK, StepTypeOK, PTL DEF Spec

-----------------------------------------------------------------------------
(* Publishers. *)

LEMMA InitBuilt == Init => Built
BY DEF Init, Built

LEMMA StepBuilt == TypeOK /\ Built /\ [Next]_vars => Built'
<1>. SUFFICES ASSUME TypeOK, Built, [Next]_vars PROVE Built'
  OBVIOUS
<1>1. ASSUME config' = config, pub' = pub, captured' = captured PROVE Built'
  BY <1>1 DEF Built
<1>2. ASSUME config' # NoConfig, pub' = NewPublisher(config'), InitService PROVE Built'
  BY <1>2 DEF Built, InitService
<1>3. CASE UNCHANGED vars
  BY <1>1, <1>3 DEF vars
<1>4. ASSUME NEW request \in Requests, CreateInstance(request) PROVE Built'
  <2>1. config' # NoConfig
    BY <1>4, ResolvedIsOne DEF CreateInstance
  <2>. QED
    BY <1>2, <1>4, <2>1 DEF CreateInstance
<1>5. ASSUME NEW request \in Requests, UpdateInstanceConfig(request) PROVE Built'
  <2>1. config' # NoConfig
    BY <1>5, ResolvedIsOne DEF UpdateInstanceConfig
  <2>. QED
    BY <1>5, <2>1 DEF UpdateInstanceConfig, Built
<1>6. CASE RestartInstance
  BY <1>2, <1>6 DEF RestartInstance
<1>7. CASE RebuildService
  BY <1>7 DEF RebuildService, InitService, Built
<1>8. CASE ProcessRestarts
  <2>1. CASE config' = NoConfig
    BY <1>8, <2>1 DEF ProcessRestarts, Built
  <2>2. CASE config' # NoConfig
    BY <1>2, <1>8, <2>2 DEF ProcessRestarts
  <2>. QED
    BY <2>1, <2>2
<1>9. ASSUME NEW w \in Workers,
             HandlerPublish(w) \/ \E type \in Types, id \in MessageIds \cup {NoMessage} : Dispatch(w, type, id)
      PROVE  Built'
  BY <1>1, <1>9 DEF HandlerPublish, Dispatch
<1>10. ASSUME (\E id \in MessageIds : DedupPurge(id)) \/ (\E type \in SystemTypes : LoggedOutDirectly(type))
                \/ FlushHistory
       PROVE  Built'
  BY <1>1, <1>10 DEF DedupPurge, LoggedOutDirectly, FlushHistory
<1>. QED
  BY <1>3, <1>4, <1>5, <1>6, <1>7, <1>8, <1>9, <1>10, ScenarioParts DEF Next

LEMMA SpecBuilt == Spec => []Built
BY InitBuilt, StepBuilt, SpecTypeOK, PTL DEF Spec

-----------------------------------------------------------------------------
(* Dedup. *)

LEMMA InitKnown == Init => Known
BY DEF Init, Known, NoWork

LEMMA StepKnown == TypeOK /\ Built /\ Known /\ [Next]_vars => Known'
<1>. SUFFICES ASSUME TypeOK, Built, Known, [Next]_vars PROVE Known'
  OBVIOUS
<1>1. ASSUME config' = config, worker' = worker, seen' = seen, sent' = sent, scenario' = scenario
      PROVE  Known'
  BY <1>1 DEF Known, May
<1>2. CASE UNCHANGED vars
  BY <1>1, <1>2 DEF vars
<1>3. ASSUME NEW request \in Requests, CreateInstance(request) PROVE Known'
  <2>1. \A w \in Workers : worker'[w].id = NoMessage
    BY <1>3 DEF CreateInstance, Known
  <2>2. seen' = {} /\ sent' = {}
    BY <1>3 DEF CreateInstance
  <2>. QED
    BY <2>1, <2>2 DEF Known
<1>4. ASSUME NEW request \in Requests, UpdateInstanceConfig(request) PROVE Known'
  <2>1. config' # NoConfig
    BY <1>4, ResolvedIsOne DEF UpdateInstanceConfig
  <2>. QED
    BY <1>4, <2>1 DEF UpdateInstanceConfig, Known, May
<1>5. CASE RestartInstance
  BY <1>5 DEF RestartInstance, Known, May
<1>6. CASE RebuildService
  BY <1>1, <1>6 DEF RebuildService
<1>7. CASE ProcessRestarts
  BY <1>7 DEF ProcessRestarts, Known, NoWork
<1>8. ASSUME NEW w \in Workers, HandlerPublish(w) PROVE Known'
  <2>1. /\ \A v \in Workers \ {w} : worker'[v] = worker[v]
        /\ worker'[w].id = NoMessage
        /\ sent' = sent \cup ({worker[w].id} \ {NoMessage})
        /\ UNCHANGED <<config, seen, scenario>>
    BY <1>8 DEF HandlerPublish, TypeOK, NoWork
  <2>2. config' = NoConfig => \A v \in Workers : worker'[v].id = NoMessage
    BY <2>1 DEF Known
  <2>3. ASSUME ~May("restart")' PROVE sent' \subseteq seen'
    BY <2>1, <2>3 DEF Known, May
  <2>4. ASSUME ~May("restart")', NEW v \in Workers, worker'[v].id # NoMessage
        PROVE  worker'[v].id \in seen' \ sent'
    BY <2>1, <2>4 DEF Known, May
  <2>5. ASSUME ~May("restart")', NEW u \in Workers, NEW v \in Workers,
               worker'[u].id # NoMessage, worker'[u].id = worker'[v].id
        PROVE  u = v
    BY <2>1, <2>5 DEF Known, May
  <2>. QED
    BY <2>2, <2>3, <2>4, <2>5 DEF Known
<1>9. ASSUME NEW w \in Workers, NEW type \in Types, NEW id \in MessageIds \cup {NoMessage},
             Dispatch(w, type, id)
      PROVE  Known'
  <2>1. /\ \A v \in Workers \ {w} : worker'[v] = worker[v]
        /\ worker'[w].id = id
        /\ seen' = seen \cup ({id} \ {NoMessage}) /\ id \notin seen
        /\ UNCHANGED <<config, sent, scenario>>
    BY <1>9 DEF Dispatch, TypeOK
  <2>2. config # NoConfig
    BY <1>9 DEF Dispatch, Built, NoCaptured
  <2>. QED
    BY <2>1, <2>2 DEF Known, May
<1>10. ASSUME NEW id \in MessageIds, DedupPurge(id) PROVE Known'
  BY <1>10 DEF DedupPurge, Known, May
<1>11. ASSUME (\E type \in SystemTypes : LoggedOutDirectly(type)) \/ FlushHistory PROVE Known'
  BY <1>1, <1>11 DEF LoggedOutDirectly, FlushHistory
<1>. QED
  BY <1>2, <1>3, <1>4, <1>5, <1>6, <1>7, <1>8, <1>9, <1>10, <1>11, ScenarioParts DEF Next

LEMMA SpecKnown == Spec => []Known
BY InitKnown, StepKnown, SpecTypeOK, SpecBuilt, PTL DEF Spec

\* A message is handed to a publisher once, as long as Dedup remembers it and
\* is not replaced, on any number of goroutines.
THEOREM SpecDeliveredOnce == Spec => []DeliveredOnce
<1>1. Known => DeliveredOnce
  BY DEF Known, DeliveredOnce
<1>. QED
  BY <1>1, SpecKnown, PTL

-----------------------------------------------------------------------------
(* Restarts. *)

LEMMA InitStored == Init => Stored
BY DEF Init, Stored

LEMMA StepStored == TypeOK /\ Stored /\ [Next]_vars => Stored'
<1>. SUFFICES ASSUME TypeOK, Stored, [Next]_vars PROVE Stored'
  OBVIOUS
<1>1. ASSUME config' = config, row' = row, defaults' = defaults, scenario' = scenario
      PROVE  Stored'
  BY <1>1 DEF Stored, Again, Multi, May
<1>2. CASE UNCHANGED vars
  BY <1>1, <1>2 DEF vars
<1>3. ASSUME NEW request \in Requests,
             CreateInstance(request) \/ UpdateInstanceConfig(request)
      PROVE  Stored'
  <2>1. /\ config' = Resolved(request, defaults) /\ Multi
        /\ ~May("store") => row' = [config' EXCEPT !.filters = SplitFilters(@)]
        /\ UNCHANGED <<defaults, scenario>>
    BY <1>3 DEF CreateInstance, UpdateInstanceConfig, SaveInstance
  <2>2. request \in InstanceConfig /\ defaults \in InstanceConfig
    BY ScenarioParts DEF TypeOK
  <2>3. config' # NoConfig
    BY <2>1, <2>2, DefaultsType, TypesAssumption
  <2>4. ~May("store") => row' # NoConfig
    BY <2>1, <2>2, DefaultsType, SavedType
  <2>5. ~May("store") =>
          Again' = ApplyDefaults([config' EXCEPT !.filters = SplitFilters(@)], defaults)
    BY <2>1 DEF Again, Multi
  <2>. QED
    BY <2>1, <2>2, <2>4, <2>5, SavedAgain DEF Stored, Multi, May
<1>4. CASE RestartInstance \/ RebuildService
  BY <1>1, <1>4 DEF RestartInstance, RebuildService
<1>5. CASE ProcessRestarts
  <2>1. config' # NoConfig => config' = Again' /\ (Multi' => row' # NoConfig)
    BY <1>5 DEF ProcessRestarts, Again, Multi
  <2>. QED
    BY <2>1 DEF Stored
<1>6. ASSUME NEW w \in Workers,
             HandlerPublish(w) \/ \E type \in Types, id \in MessageIds \cup {NoMessage} : Dispatch(w, type, id)
      PROVE  Stored'
  BY <1>1, <1>6 DEF HandlerPublish, Dispatch
<1>7. ASSUME (\E id \in MessageIds : DedupPurge(id)) \/ (\E type \in SystemTypes : LoggedOutDirectly(type))
                \/ FlushHistory
      PROVE  Stored'
  BY <1>1, <1>7 DEF DedupPurge, LoggedOutDirectly, FlushHistory
<1>. QED
  BY <1>2, <1>3, <1>4, <1>5, <1>6, <1>7, ScenarioParts DEF Next

LEMMA SpecStored == Spec => []Stored
BY InitStored, StepStored, SpecTypeOK, PTL DEF Spec

\* An instance that was saved comes back from a restart of the process with
\* the configuration it had, whatever was resolved, stripped and restored
\* before, but for entries of its list that the store reads otherwise.
THEOREM SpecRestartKeepsConfig == Spec => RestartKeepsConfig
<1>. DEFINE Rough == \E entry \in config.filters : \A type \in Types : entry # Exactly(type)
            Kept  == [config EXCEPT !.filters = SplitFilters(@)]
            Keeps == ProcessRestarts /\ config # NoConfig /\ defaults' = defaults /\ ~May("store")
                       /\ (SplitFilters(config.filters) # {} \/ defaults.filters = {})
                     => config' = config \/ (Rough /\ config' = Kept)
<1>1. TypeOK /\ Stored /\ [Next]_vars => [Keeps]_vars
  <2>. SUFFICES ASSUME TypeOK, Stored, ProcessRestarts, config # NoConfig, defaults' = defaults,
                       ~May("store"),
                       SplitFilters(config.filters) # {} \/ defaults.filters = {}
                PROVE  config' = config \/ (Rough /\ config' = Kept)
    OBVIOUS
  <2>1. config' = Again
    BY DEF ProcessRestarts, Again, Multi, Stored
  <2>2. config \in InstanceConfig /\ defaults \in InstanceConfig
    BY ScenarioParts DEF TypeOK
  <2>3. Again \in InstanceConfig
    BY <2>2, DefaultsType DEF Again, Stored, TypeOK
  <2>4. config.webhook = Again.webhook /\ config.publish = Again.publish
        /\ Again.filters \in {config.filters, SplitFilters(config.filters)}
    BY DEF Stored
  <2>5. Again.filters = config.filters => config' = config
    BY <2>1, <2>2, <2>3, <2>4 DEF InstanceConfig
  <2>6. ~Rough => SplitFilters(config.filters) = config.filters
    BY SplitNames
  <2>7. Again.filters = SplitFilters(config.filters) => config' = Kept
    BY <2>1, <2>2, <2>3, <2>4 DEF InstanceConfig
  <2>. QED
    BY <2>4, <2>5, <2>6, <2>7
<1>. QED
  BY <1>1, SpecTypeOK, SpecStored, PTL DEF Spec, RestartKeepsConfig

-----------------------------------------------------------------------------
(***************************************************************************)
(* EventTracking: what the same handler keeps of chats and contacts, and   *)
(* the repair of app state.                                                *)
(*                                                                         *)
(* Whatever a goroutine is about to store has a phone number (Handled), so *)
(* no row has a LID (Rows).  Each mark tells whether its remedy was tried  *)
(* since it was cleared (Marked).                                          *)
(***************************************************************************)

\* Events of the handler.
TrackedEvent ==
    [kind: {"message", "delete", "history"}, jid: JIDs, value: Times \cup {0}]
      \cup [kind: {"contact"}, jid: People \X {"pn"}, value: 1..MaxName]
      \cup [kind: {"complete", "error"}, jid: {NoJID}, value: {0, 1}]

ToHandle == [todo: {q \in Seq(TrackedEvent) : Len(q) <= 2}, resolved: JIDs \cup {NoJID}]

\* What goroutines have to handle.
Handled ==
    /\ handling \in [Sources -> ToHandle]
    /\ \A s \in Sources : handling[s].resolved # NoJID =>
         /\ handling[s].todo # <<>> /\ ~IsSync(Head(handling[s].todo))
         /\ handling[s].resolved[2] = "pn"

\* What the tables hold.
Rows ==
    /\ chats \in [JIDs -> Times \cup {0, NoRow}]
    /\ contacts \in [JIDs -> 1..MaxName \cup {NoRow}]
    /\ \A p \in People : chats[<<p, "lid">>] = NoRow /\ contacts[<<p, "lid">>] = NoRow

\* What the marks say of the remedies.
Marked ==
    /\ full \in BOOLEAN /\ peer \in {"never", "recent", "old"}
    /\ tried = [full |-> IF full THEN 1 ELSE 0, peer |-> IF peer = "recent" THEN 1 ELSE 0]

\* The rest.
Rest ==
    /\ scene \in Scenes /\ device \in {"new", "paired", "gone"}
    /\ mapped \subseteq People
    /\ names \in 0..MaxName /\ have \in 0..MaxName
    /\ broken \in {"no", "local", "server"} /\ breaks \in 0..MaxBreaks /\ cools \in 0..MaxCools
    /\ fullSyncs \in Nat /\ recoveries \in Nat /\ asked \in Nat

-----------------------------------------------------------------------------
(* Events and their goroutines. *)

LEMMA EventTypes ==
    /\ \A j \in JIDs, t \in Times : ChatEvent("message", j, t) \in TrackedEvent
    /\ \A j \in JIDs : ChatEvent("delete", j, 0) \in TrackedEvent
    /\ \A j \in JIDs, t \in Times \cup {0} : ChatEvent("history", j, t) \in TrackedEvent
    /\ \A p \in People, v \in 1..MaxName : Contact(p, v) \in TrackedEvent
    /\ SyncComplete \in TrackedEvent /\ \A f \in BOOLEAN : SyncError(f) \in TrackedEvent
<1>1. /\ \A j \in JIDs, t \in Times : ChatEvent("message", j, t) \in TrackedEvent
      /\ \A j \in JIDs : ChatEvent("delete", j, 0) \in TrackedEvent
      /\ \A j \in JIDs, t \in Times \cup {0} : ChatEvent("history", j, t) \in TrackedEvent
  BY DEF ChatEvent, TrackedEvent
<1>2. \A p \in People, v \in 1..MaxName : Contact(p, v) \in TrackedEvent
  BY DEF Contact, TrackedEvent
<1>3. SyncComplete \in TrackedEvent
  BY DEF SyncComplete, TrackedEvent
<1>4. \A f \in BOOLEAN : SyncError(f) \in TrackedEvent
  BY DEF SyncError, TrackedEvent
<1>. QED
  BY <1>1, <1>2, <1>3, <1>4

LEMMA NoJIDIs == NoJID \notin JIDs
BY DEF NoJID, JIDs

LEMMA GetsHandled ==
    ASSUME Handled, NEW s \in Sources, handling[s].todo = <<>>,
           NEW events \in Seq(TrackedEvent), Len(events) <= 2, Gets(s, events)
    PROVE  Handled'
<1>1. handling[s] \in ToHandle /\ handling[s].resolved = NoJID
  BY DEF Handled
<1>2. [handling[s] EXCEPT !.todo = events] \in ToHandle
  BY <1>1 DEF ToHandle
<1>3. handling' = [handling EXCEPT ![s] = [handling[s] EXCEPT !.todo = events]]
  BY DEF Gets, Handled
<1>. QED
  BY <1>1, <1>2, <1>3 DEF Handled, ToHandle

LEMMA FinishesHandled ==
    ASSUME Handled, NEW s \in Sources, handling[s].todo # <<>>, Finishes(s)
    PROVE  Handled'
<1>. DEFINE rest == Tail(handling[s].todo)
            new == [todo |-> rest, resolved |-> NoJID]
<1>1. handling[s].todo \in Seq(TrackedEvent) /\ Len(handling[s].todo) <= 2
  BY DEF Handled, ToHandle
<1>2. rest \in Seq(TrackedEvent) /\ Len(rest) <= 2
  BY <1>1, LenProperties
<1>. HIDE DEF rest
<1>3. new \in ToHandle
  BY <1>2 DEF ToHandle
<1>4. handling' = [handling EXCEPT ![s] = new]
  BY DEF Finishes, rest
<1>. QED
  BY <1>3, <1>4 DEF Handled

\* An event that comes while its goroutine has nothing to do.
LEMMA ArrivalHandled ==
    ASSUME Handled, NEW s \in Sources, handling[s].todo = <<>>,
           NEW e \in TrackedEvent, Gets(s, <<e>>)
    PROVE  Handled'
<1>1. <<e>> \in Seq(TrackedEvent) /\ Len(<<e>>) <= 2
  OBVIOUS
<1>. QED
  BY <1>1, GetsHandled

LEMMA SyncedHandled ==
    ASSUME Handled, Rest, NEW s \in Sources, handling[s].todo = <<>>, Synced(s)
    PROVE  Handled' /\ have' \in 0..MaxName /\ broken' \in {"no", "local", "server"}
           /\ breaks' \in 0..MaxBreaks
<1>1. PICK p \in People :
        Gets(s, IF names = 0 THEN <<SyncComplete>> ELSE <<Contact(p, names), SyncComplete>>)
  BY DEF Synced
<1>2. CASE names = 0
  BY <1>1, <1>2, EventTypes, ArrivalHandled DEF Synced, Rest
<1>3. CASE names # 0
  <2>1. names \in 1..MaxName
    BY <1>3, TrackingAssumption DEF Rest
  <2>2. Contact(p, names) \in TrackedEvent /\ SyncComplete \in TrackedEvent
    BY <2>1, EventTypes
  <2>3. <<Contact(p, names), SyncComplete>> \in Seq(TrackedEvent)
        /\ Len(<<Contact(p, names), SyncComplete>>) <= 2
    BY <2>2
  <2>. QED
    BY <1>1, <1>3, <2>3, GetsHandled DEF Synced, Rest
<1>. QED
  BY <1>2, <1>3

-----------------------------------------------------------------------------
(* Steps of EventTracking. *)

Tracked == Handled /\ Rows /\ Marked /\ Rest

LEMMA InitTracked == TrackingInit => Tracked
<1>. SUFFICES ASSUME TrackingInit PROVE Tracked
  OBVIOUS
<1>1. Handled
  BY DEF TrackingInit, Nothing, Handled, ToHandle
<1>2. Rows
  BY DEF TrackingInit, NoRows, Rows, JIDs
<1>3. Marked
  BY DEF TrackingInit, Marked
<1>4. Rest
  BY TrackingAssumption DEF TrackingInit, Rest
<1>. QED
  BY <1>1, <1>2, <1>3, <1>4 DEF Tracked

\* Only these touch each part.
LEMMA SameHandled == ASSUME Handled, UNCHANGED handling PROVE Handled'
BY DEF Handled
LEMMA SameRows == ASSUME Rows, UNCHANGED tables PROVE Rows'
BY DEF Rows, tables
LEMMA SameMarked == ASSUME Marked, UNCHANGED <<full, peer, tried>> PROVE Marked'
BY DEF Marked
LEMMA SameRest ==
    ASSUME Rest, UNCHANGED <<scene, device, mapped, phone, fullSyncs, recoveries, asked>>
    PROVE  Rest'
BY DEF Rest, phone

LEMMA StepStore ==
    ASSUME Tracked, NEW s \in Sources, Store(s)
    PROVE  Tracked'
<1>. DEFINE e == Head(handling[s].todo)  j == handling[s].resolved
<1>1. /\ handling[s].todo # <<>> /\ handling[s].todo \in Seq(TrackedEvent)
      /\ j \in JIDs /\ j[2] = "pn"
  BY DEF Store, Tracked, Handled, ToHandle
<1>2. e \in TrackedEvent /\ ~IsSync(e)
  <2>1. e \in TrackedEvent
    BY <1>1
  <2>. QED
    BY <2>1 DEF Store, Tracked, Handled
<1>. HIDE DEF e, j
<1>3. e.kind \in {"message", "history"} => e.value \in Times \cup {0}
  BY <1>2 DEF TrackedEvent
<1>4. e.kind = "contact" => e.value \in 1..MaxName
  BY <1>2 DEF TrackedEvent
<1>5. \A p \in People : <<p, "lid">> # j /\ <<p, "lid">> \in JIDs
  BY <1>1 DEF JIDs
<1>6. /\ \/ /\ e.kind \in {"message", "history"}
            /\ chats' = [chats EXCEPT ![j] = UpsertActivity(@, e.value)] /\ UNCHANGED contacts
         \/ chats' = [chats EXCEPT ![j] = NoRow] /\ UNCHANGED contacts
         \/ e.kind = "contact" /\ contacts' = [contacts EXCEPT ![j] = e.value] /\ UNCHANGED chats
         \/ UNCHANGED tables
      /\ Finishes(s)
      /\ UNCHANGED <<scene, device, mapped, phone, marks, asked>>
  BY DEF Store, e, j
<1>7. Rows'
  <2>1. CASE /\ e.kind \in {"message", "history"}
             /\ chats' = [chats EXCEPT ![j] = UpsertActivity(@, e.value)] /\ UNCHANGED contacts
    <3>1. UpsertActivity(chats[j], e.value) \in Times \cup {0, NoRow}
      BY <1>1, <1>3, <2>1 DEF UpsertActivity, Tracked, Rows
    <3>2. chats' \in [JIDs -> Times \cup {0, NoRow}]
      BY <1>1, <2>1, <3>1 DEF Tracked, Rows
    <3>3. \A p \in People : chats'[<<p, "lid">>] = chats[<<p, "lid">>]
      BY <1>5, <2>1 DEF Tracked, Rows
    <3>. QED
      BY <2>1, <3>2, <3>3 DEF Tracked, Rows
  <2>2. CASE chats' = [chats EXCEPT ![j] = NoRow] /\ UNCHANGED contacts
    BY <1>1, <1>5, <2>2 DEF Tracked, Rows
  <2>3. CASE e.kind = "contact" /\ contacts' = [contacts EXCEPT ![j] = e.value] /\ UNCHANGED chats
    BY <1>1, <1>4, <1>5, <2>3 DEF Tracked, Rows
  <2>4. CASE UNCHANGED tables
    BY <2>4, SameRows DEF Tracked
  <2>. QED
    BY <1>6, <2>1, <2>2, <2>3, <2>4
<1>8. Handled'
  BY <1>1, <1>6, FinishesHandled DEF Tracked
<1>. QED
  BY <1>6, <1>7, <1>8, SameMarked, SameRest DEF Tracked, marks

LEMMA StepResolve ==
    ASSUME Tracked, NEW s \in Sources, Resolve(s)
    PROVE  Tracked'
<1>. DEFINE e == Head(handling[s].todo)  j == ResolveLID(e.jid)
<1>1. handling[s].todo # <<>> /\ handling[s].todo \in Seq(TrackedEvent) /\ handling[s] \in ToHandle
  BY DEF Resolve, Tracked, Handled, ToHandle
<1>2. e \in TrackedEvent /\ ~IsSync(e)
  BY <1>1 DEF Resolve
<1>. HIDE DEF e
<1>3. e.jid \in JIDs
  <2>1. CASE e.kind = "contact"
    BY <1>2, <2>1 DEF TrackedEvent, JIDs
  <2>2. CASE e.kind # "contact"
    BY <1>2, <2>2 DEF TrackedEvent, IsSync
  <2>. QED
    BY <2>1, <2>2
<1>4. j # NoJID => j \in JIDs /\ j[2] = "pn"
  BY <1>3 DEF ResolveLID, JIDs
<1>. HIDE DEF j
<1>5. Finishes(s) \/ (j # NoJID /\ handling' = [handling EXCEPT ![s].resolved = j])
  <2>1. IF device = "new" \/ j = NoJID
        THEN Finishes(s)
        ELSE handling' = [handling EXCEPT ![s].resolved = j]
    BY DEF Resolve, e, j
  <2>. QED
    BY <2>1
<1>6. CASE Finishes(s)
  BY <1>1, <1>6, FinishesHandled, SameRows, SameMarked, SameRest DEF Resolve, Tracked, marks
<1>7. CASE j # NoJID /\ handling' = [handling EXCEPT ![s].resolved = j]
  <2>. DEFINE new == [handling[s] EXCEPT !.resolved = j]
  <2>1. /\ new \in ToHandle /\ new.todo = handling[s].todo /\ new.resolved = j
        /\ handling' = [handling EXCEPT ![s] = new]
    BY <1>1, <1>4, <1>7 DEF ToHandle, Tracked, Handled
  <2>2. ~IsSync(Head(handling[s].todo))
    BY <1>2 DEF e
  <2>. HIDE DEF new
  <2>3. Handled'
    BY <1>1, <1>4, <1>7, <2>1, <2>2 DEF Tracked, Handled
  <2>. QED
    BY <2>3, SameRows, SameMarked, SameRest DEF Resolve, Tracked, marks
<1>. QED
  BY <1>5, <1>6, <1>7

LEMMA StepComplete ==
    ASSUME Tracked, NEW s \in Sources, HandleComplete(s)
    PROVE  Tracked'
<1>1. Handled'
  BY FinishesHandled DEF HandleComplete, Tracked
<1>2. Marked'
  BY DEF HandleComplete, Marked
<1>. QED
  BY <1>1, <1>2, SameRows, SameRest DEF HandleComplete, Tracked

LEMMA StepError ==
    ASSUME Tracked, NEW s \in Sources, HandleError(s)
    PROVE  Tracked'
<1>1. Handled'
  BY FinishesHandled DEF HandleError, Tracked
<1>2. PICK isFull \in BOOLEAN : Escalate(isFull)
  BY DEF HandleError
<1>3. Marked' /\ fullSyncs' \in Nat /\ recoveries' \in Nat
  <2>1. CASE UNCHANGED marks
    BY <2>1 DEF marks, Tracked, Marked, Rest
  <2>2. CASE ~full /\ StartsFullSync
    BY <2>2 DEF StartsFullSync, Tracked, Marked, Rest
  <2>3. CASE peer # "recent" /\ StartsRecovery
    BY <2>3 DEF StartsRecovery, Tracked, Marked, Rest
  <2>. QED
    BY <1>2, <2>1, <2>2, <2>3 DEF Escalate
<1>4. Rest'
  BY <1>3 DEF HandleError, Tracked, Rest, phone
<1>. QED
  BY <1>1, <1>3, <1>4, SameRows DEF HandleError, Tracked

LEMMA StepArrives ==
    ASSUME Tracked, Arrives
    PROVE  Tracked'
<1>1. Handled'
  <2>1. PICK j \in JIDs :
          \/ Free("main") /\ \E t \in Times : Gets("main", <<ChatEvent("message", j, t)>>)
          \/ Free("main") /\ Gets("main", <<ChatEvent("delete", j, 0)>>)
          \/ Free("history") /\ \E t \in Times \cup {0} :
               Gets("history", <<ChatEvent("history", j, t)>>)
    BY DEF Arrives
  <2>2. \E s \in Sources, e \in TrackedEvent : handling[s].todo = <<>> /\ Gets(s, <<e>>)
    BY <2>1, EventTypes DEF Free, Sources
  <2>. QED
    BY <2>2, ArrivalHandled DEF Tracked
<1>. QED
  BY <1>1, SameRows, SameMarked, SameRest DEF Arrives, Tracked, marks

LEMMA StepPartialSync ==
    ASSUME Tracked, PartialSync
    PROVE  Tracked'
<1>1. handling["main"].todo = <<>> /\ "main" \in Sources
  BY DEF PartialSync, Free, Sources
<1>2. /\ Handled' /\ have' \in 0..MaxName /\ broken' \in {"no", "local", "server"}
      /\ breaks' \in 0..MaxBreaks
  <2>1. CASE Synced("main")
    BY <1>1, <2>1, SyncedHandled DEF Tracked
  <2>2. CASE Corrupted /\ Gets("main", <<SyncError(FALSE)>>)
    <3>1. Handled'
      BY <1>1, <2>2, EventTypes, ArrivalHandled DEF Tracked
    <3>. QED
      BY <2>2, <3>1, TrackingAssumption DEF Corrupted, Tracked, Rest
  <2>3. CASE Gets("main", <<SyncError(FALSE)>>) /\ UNCHANGED <<have, broken, breaks>>
    BY <1>1, <2>3, EventTypes, ArrivalHandled DEF Tracked, Rest
  <2>. QED
    BY <2>1, <2>2, <2>3 DEF PartialSync
<1>3. Rest'
  BY <1>2 DEF PartialSync, Tracked, Rest, marks
<1>. QED
  BY <1>2, <1>3, SameRows, SameMarked DEF PartialSync, Tracked, marks

LEMMA StepFullSync ==
    ASSUME Tracked, NEW s \in Sources, FullSync(s), fullSyncs' \in Nat
    PROVE  Tracked'
<1>1. handling[s].todo = <<>>
  BY DEF FullSync, Free
<1>2. /\ Handled' /\ have' \in 0..MaxName /\ broken' \in {"no", "local", "server"}
      /\ breaks' \in 0..MaxBreaks
  <2>1. CASE Synced(s)
    BY <1>1, <2>1, SyncedHandled DEF Tracked
  <2>2. CASE Gets(s, <<SyncError(TRUE)>>) /\ UNCHANGED <<have, broken, breaks>>
    BY <1>1, <2>2, EventTypes, ArrivalHandled DEF Tracked, Rest
  <2>3. CASE UNCHANGED <<handling, have, broken, breaks>>
    BY <2>3, SameHandled DEF Tracked, Rest
  <2>. QED
    BY <2>1, <2>2, <2>3 DEF FullSync
<1>3. Rest'
  BY <1>2 DEF FullSync, Tracked, Rest
<1>. QED
  BY <1>2, <1>3, SameRows, SameMarked DEF FullSync, Tracked

LEMMA StepTracked == Tracked /\ [TrackingNext]_trackingVars => Tracked'
<1>. SUFFICES ASSUME Tracked, [TrackingNext]_trackingVars PROVE Tracked'
  OBVIOUS
<1>1. CASE UNCHANGED trackingVars
  BY <1>1, SameHandled, SameRows, SameMarked, SameRest DEF trackingVars, Tracked, marks
<1>2. CASE PairSuccess
  BY <1>2, SameHandled, SameRows, SameMarked DEF PairSuccess, Tracked, marks, Rest, phone
<1>3. CASE DeviceDeleted
  <2>1. Rows'
    BY <1>3 DEF DeviceDeleted, NoRows, Rows, JIDs
  <2>. QED
    BY <1>3, <2>1, SameHandled, SameMarked DEF DeviceDeleted, Tracked, marks, Rest, phone
<1>4. ASSUME NEW p \in People, LidLearned(p) PROVE Tracked'
  BY <1>4, SameHandled, SameRows, SameMarked DEF LidLearned, Tracked, marks, Rest, phone
<1>5. CASE RecoverAppState
  BY <1>5, SameHandled, SameRows, SameMarked DEF RecoverAppState, Tracked, Rest, phone
<1>6. CASE CoolDownEnds
  <2>1. Marked'
    BY <1>6 DEF CoolDownEnds, Tracked, Marked
  <2>2. Rest'
    BY <1>6, TrackingAssumption DEF CoolDownEnds, Tracked, Rest
  <2>. QED
    BY <1>6, <2>1, <2>2, SameHandled, SameRows DEF CoolDownEnds, Tracked
<1>7. CASE Rename
  <2>1. scene.renames \in 0..MaxName
    BY TrackingAssumption DEF Tracked, Rest
  <2>2. Rest'
    BY <1>7, <2>1, TrackingAssumption DEF Rename, Tracked, Rest, marks
  <2>. QED
    BY <1>7, <2>2, SameHandled, SameRows, SameMarked DEF Rename, Tracked, marks
<1>8. CASE FetchAppState
  <2>1. FullSync("full") /\ "full" \in Sources /\ fullSyncs' \in Nat
    BY <1>8 DEF FetchAppState, Sources, Tracked, Rest
  <2>. QED
    BY <2>1, StepFullSync
<1>9. CASE SyncContacts
  <2>1. FullSync("api") /\ "api" \in Sources /\ fullSyncs' \in Nat
    BY <1>9 DEF SyncContacts, Sources, Tracked, Rest
  <2>. QED
    BY <2>1, StepFullSync
<1>10. CASE PhoneAnswers
  <2>1. /\ Handled' /\ have' \in 0..MaxName /\ broken' \in {"no", "local", "server"}
        /\ breaks' \in 0..MaxBreaks
    BY <1>10, SyncedHandled DEF PhoneAnswers, Free, Sources, Tracked
  <2>2. Rest'
    BY <1>10, <2>1 DEF PhoneAnswers, Tracked, Rest, marks
  <2>. QED
    BY <1>10, <2>1, <2>2, SameRows, SameMarked DEF PhoneAnswers, Tracked, marks
<1>. QED
  BY <1>1, <1>2, <1>3, <1>4, <1>5, <1>6, <1>7, <1>8, <1>9, <1>10, StepStore, StepResolve,
     StepComplete, StepError, StepArrives, StepPartialSync DEF TrackingNext, Handler

LEMMA SpecTracked == TrackingSpec => []Tracked
BY InitTracked, StepTracked, PTL DEF TrackingSpec

-----------------------------------------------------------------------------
(* Theorems about EventTracking. *)

\* Nobody has two chats or two contacts, whenever whatsmeow learns whose LID
\* it is and however the goroutines interleave.
THEOREM SpecNoDuplicates == TrackingSpec => []NoDuplicates
<1>1. Tracked => NoDuplicates
  <2>. SUFFICES ASSUME Tracked PROVE NoDuplicates
    OBVIOUS
  <2>1. \A s \in Sources : Len(handling[s].todo) <= 2 /\ handling[s].resolved \in JIDs \cup {NoJID}
    BY DEF Tracked, Handled, ToHandle
  <2>2. tried \in [full: Nat, peer: Nat]
    BY DEF Tracked, Marked
  <2>3. TrackingTypeOK
    BY <2>1, <2>2 DEF TrackingTypeOK, Tracked, Rows, Marked, Rest
  <2>. QED
    BY <2>3 DEF NoDuplicates, Tracked, Rows
<1>. QED
  BY <1>1, SpecTracked, PTL

\* Between two successes the handler starts one full sync, and one recovery
\* in 48 hours, on however many goroutines errors come in.
THEOREM SpecEscalatesOnce == TrackingSpec => []EscalatesOnce
<1>1. Tracked => EscalatesOnce
  BY DEF Tracked, Marked, EscalatesOnce
<1>. QED
  BY <1>1, SpecTracked, PTL

LEMMA InitPurged == TrackingInit => PurgedWithDevice
BY DEF TrackingInit, PurgedWithDevice

LEMMA StepPurged == PurgedWithDevice /\ [TrackingNext]_trackingVars => PurgedWithDevice'
<1>. SUFFICES ASSUME PurgedWithDevice, [TrackingNext]_trackingVars PROVE PurgedWithDevice'
  OBVIOUS
<1>1. CASE DeviceDeleted
  BY <1>1 DEF DeviceDeleted, PurgedWithDevice
<1>2. CASE device' = device /\ UNCHANGED tables
  BY <1>2 DEF PurgedWithDevice, tables
<1>3. CASE PairSuccess
  BY <1>3 DEF PairSuccess, PurgedWithDevice
<1>4. ASSUME NEW s \in Sources, Store(s) PROVE PurgedWithDevice'
  BY <1>4 DEF Store, PurgedWithDevice, tables
<1>. QED
  BY <1>1, <1>2, <1>3, <1>4
     DEF TrackingNext, trackingVars, Handler, Arrives, LidLearned, Resolve, HandleComplete, HandleError,
         RecoverAppState, CoolDownEnds, Rename, PartialSync,
         FetchAppState, SyncContacts, FullSync,
         PhoneAnswers

\* A logout or delete leaves no row, whatever handler runs late.
THEOREM SpecPurgedWithDevice == TrackingSpec => []PurgedWithDevice
BY InitPurged, StepPurged, PTL DEF TrackingSpec
=============================================================================
