---------------------------- MODULE EventPipeline ----------------------------
(***************************************************************************)
(* How one instance's configuration decides what is published: defaults,   *)
(* the stored row, the publisher made from them, what the event handler    *)
(* captured, filters and de-duplication.  One action is one critical       *)
(* section of the manager, one pass through the event handler up to the    *)
(* publisher, or one call of a publisher.  A behaviour plays one scenario. *)
(***************************************************************************)
EXTENDS Naturals, Sequences, FiniteSets

CONSTANTS
    SystemTypes,     \* logged_in, logged_out, login_error, initial_sync_finished
    DataTypes,       \* all other event types
    Blank,           \* the empty name in a list of filters
    Message,         \* the data type that is de-duplicated
    HistoryBatch,    \* message_history_sync
    MessageIds,
    NoMessage,
    Urls,            \* webhook targets
    NoUrl,           \* the empty URL
    Workers,         \* goroutines in the event handler
    NoConfig,
    Via,             \* eventsPublishVia: "webhook" or "none"
    Scenarios

Types == SystemTypes \cup DataTypes
Flag  == {"unset", "on", "off"}

\* An entry of a list of filters is any string, which nothing checks: what
\* stands between its commas, each piece with or without spaces around it.
\* A list is a set of entries, since an entry's place means nothing.
Piece   == [name: Types \cup {Blank}, padded: BOOLEAN]
Entries == (SUBSET Piece) \ {{}}
Filters == SUBSET Entries

\* The entry that is the name of a type, and nothing else.
Exactly(type) == {[name |-> type, padded |-> FALSE]}

\* config.InstanceConfig.  webhook stands for apiKey, webhookUrl and
\* signingSecret, publish for the two switches: they are treated alike.
InstanceConfig == [webhook: Urls \cup {NoUrl}, filters: Filters, publish: Flag]
Publisher      == [url: Urls \cup {NoUrl}, systemOnly: BOOLEAN]

Events == {"store",     \* a database call may return an error
           "publish",   \* a delivery may fail
           "update",    \* PUT /admin/instances/{id}/config is called
           "restart",   \* PUT /admin/instances/{id}/restart is called
           "flush"}     \* POST /session/flush-history is called
Scenario ==
    [multi: BOOLEAN,                      \* multi mode, with a store, or single mode
     defaults: SUBSET InstanceConfig,     \* instanceDefaults a process may start with
     lists: SUBSET Filters,               \* event filters that callers write
     workers: SUBSET Workers, events: SUBSET Events]

ASSUME TypesAssumption ==
    /\ SystemTypes \cap DataTypes = {}
    /\ {Message, HistoryBatch} \subseteq DataTypes /\ Message # HistoryBatch
    /\ Blank \notin Types
    /\ NoMessage \notin MessageIds /\ NoUrl \notin Urls
    /\ Scenarios \in Seq(Scenario)
    /\ NoConfig \notin InstanceConfig
    /\ Via \in {"webhook", "none"}

VARIABLES
    scenario,   \* the number of the scenario of this behaviour
    defaults,   \* cfg.InstanceDefaults of the running process
    row,        \* the instance's row, as a restart reads it, or NoConfig
    config,     \* inst.Config, or NoConfig while there is no instance
    pub,        \* inst.Publisher
    captured,   \* cfg and pub of the registered event handler
    seen,       \* the entries of inst.Dedup
    worker,     \* events on their way through the handler
    received,   \* history: what consumers got
    sent        \* history: messages handed to a publisher since Dedup knows them

vars == <<scenario, defaults, row, config, pub, captured, seen, worker, received, sent>>

Multi    == Scenarios[scenario].multi
Defaults == Scenarios[scenario].defaults
May(event) == event \in Scenarios[scenario].events

NoPublisher == [url |-> NoUrl, systemOnly |-> FALSE]
Captured    == [config: InstanceConfig \cup {NoConfig}, pub: Publisher]
NoCaptured  == [config |-> NoConfig, pub |-> NoPublisher]
NoWork      == [pc |-> "idle", type |-> Message, id |-> NoMessage, pub |-> NoPublisher]
Work        == [pc: {"idle", "publish"}, type: Types, id: MessageIds \cup {NoMessage},
                pub: Publisher]
Event       == [type: Types, url: Urls, id: MessageIds \cup {NoMessage}]

TypeOK ==
    /\ scenario \in DOMAIN Scenarios
    /\ defaults \in Defaults
    /\ row \in InstanceConfig \cup {NoConfig}
    /\ config \in InstanceConfig \cup {NoConfig}
    /\ pub \in Publisher
    /\ captured \in Captured
    /\ seen \subseteq MessageIds
    /\ worker \in [Workers -> Work]
    /\ received \subseteq Event
    /\ sent \subseteq MessageIds

-----------------------------------------------------------------------------
(* What the code is built from. *)

\* Manager.applyDefaults.
ApplyDefaults(cfg, d) ==
    [webhook |-> IF cfg.webhook = NoUrl THEN d.webhook ELSE cfg.webhook,
     filters |-> IF cfg.filters = {} THEN d.filters ELSE cfg.filters,
     publish |-> IF cfg.publish = "unset" THEN d.publish ELSE cfg.publish]

\* event.StripSystemEvents: entries that are the name of a system event.
StripSystemEvents(filters) == filters \ {Exactly(type) : type \in SystemTypes}

\* What CreateInstance and UpdateInstanceConfig make of a request.
Resolved(cfg, d) ==
    [ApplyDefaults(cfg, d) EXCEPT !.filters = StripSystemEvents(@)]

\* Factory.Create with publishEventsEnabled: without a target the no-op
\* publisher (no URL), wrapped if data events are switched off.
NewPublisher(cfg) ==
    [url |-> IF Via = "webhook" THEN cfg.webhook ELSE NoUrl,
     systemOnly |-> cfg.publish = "off"]

\* The filters of the event handler.
Passes(cfg, type) ==
    cfg.filters = {} \/ type \in SystemTypes \/ Exactly(type) \in cfg.filters

\* SystemEventsOnlyPublisher.
Forwards(p, type) == p.systemOnly => type \in SystemTypes

\* Publisher.Publish: what it leaves with the consumer.
Publish(p, type, id) ==
    \/ received' = IF p.url # NoUrl /\ Forwards(p, type)
                   THEN received \cup {[type |-> type, url |-> p.url, id |-> id]}
                   ELSE received
    \/ May("publish") /\ received' = received

\* initService: the handler of the new client captures both.
InitService == captured' = [config |-> config', pub |-> pub']

Init ==
    /\ scenario \in DOMAIN Scenarios
    /\ defaults \in Defaults
    /\ row = NoConfig /\ config = NoConfig /\ pub = NoPublisher
    /\ captured = NoCaptured /\ seen = {}
    /\ worker = [w \in Workers |-> NoWork]
    /\ received = {} /\ sent = {}

-----------------------------------------------------------------------------
(* The manager. *)

\* What a caller may ask for.
Requests == [webhook: Urls \cup {NoUrl}, filters: Scenarios[scenario].lists, publish: Flag]

\* strings.Join with commas, and splitFilters when the row is read: every piece
\* that is not blank is an entry of its own, trimmed.
SplitFilters(filters) ==
    {Exactly(piece.name) : piece \in {p \in UNION filters : p.name # Blank}}

\* Mutation: a switch that is off is stored like one that is not set.
SaveInstanceLosesOff(cfg) ==
    row' = [cfg EXCEPT !.filters = SplitFilters(@),
                       !.publish = IF @ = "off" THEN "unset" ELSE @]

\* InstanceStore.SaveInstance, and what GetInstance and ListInstances make of it.
SaveInstance(cfg) == row' = [cfg EXCEPT !.filters = SplitFilters(@)]

CreateInstance(request) ==
    /\ Multi /\ config = NoConfig /\ row = NoConfig
    /\ config' = Resolved(request, defaults)
    /\ SaveInstance(config')
    /\ pub' = NewPublisher(config')
    /\ InitService
    /\ seen' = {} /\ sent' = {}
    /\ UNCHANGED <<scenario, defaults, worker, received>>

\* The event handler keeps what it captured.
UpdateInstanceConfig(request) ==
    /\ Multi /\ May("update") /\ config # NoConfig
    /\ config' = Resolved(request, defaults)
    /\ pub' = NewPublisher(config')
    /\ \/ SaveInstance(config')
       \/ May("store") /\ row' = row
    /\ UNCHANGED <<scenario, defaults, captured, seen, worker, received, sent>>

\* RestartInstance: the configuration in memory, a new Dedup.
RestartInstance ==
    /\ Multi /\ May("restart") /\ config # NoConfig
    /\ config' = config
    /\ pub' = NewPublisher(config)
    /\ InitService
    /\ seen' = {} /\ sent' = {}
    /\ UNCHANGED <<scenario, defaults, row, worker, received>>

\* rebuildInstanceService: publisher and Dedup are those of the instance.
RebuildService ==
    /\ config # NoConfig
    /\ UNCHANGED <<config, pub>>
    /\ InitService
    /\ UNCHANGED <<scenario, defaults, row, seen, worker, received, sent>>

\* The process ends and another starts, perhaps with other defaults:
\* RestoreInstances fills the row from the defaults and strips nothing,
\* EnsureSingleInstance takes the defaults, stripped.
ProcessRestarts ==
    /\ defaults' \in Defaults
    /\ config' = IF ~Multi THEN [defaults' EXCEPT !.filters = StripSystemEvents(@)]
                 ELSE IF row = NoConfig THEN NoConfig ELSE ApplyDefaults(row, defaults')
    /\ pub' = IF config' = NoConfig THEN NoPublisher ELSE NewPublisher(config')
    /\ IF config' = NoConfig THEN captured' = NoCaptured ELSE InitService
    /\ seen' = {} /\ sent' = {}
    /\ worker' = [w \in Workers |-> NoWork]
    /\ UNCHANGED <<scenario, row, received>>

-----------------------------------------------------------------------------
(* The event handler. *)

\* Mutation: the ID is recorded when the event is published.
DispatchForgets(w, type, id) ==
    /\ worker[w].pc = "idle" /\ captured.config # NoConfig
    /\ type = Message <=> id # NoMessage
    /\ Passes(captured.config, type)
    /\ id \notin seen
    /\ worker' = [worker EXCEPT ![w] =
         [pc |-> "publish", type |-> type, id |-> id, pub |-> captured.pub]]
    /\ UNCHANGED <<scenario, defaults, row, config, pub, captured, seen, received, sent>>

\* An event of the client comes in and passes the filters and Dedup, which
\* looks up and records a message in one critical section.  One that does
\* not pass leaves no trace.
Dispatch(w, type, id) ==
    /\ worker[w].pc = "idle" /\ captured.config # NoConfig
    /\ type = Message <=> id # NoMessage
    /\ Passes(captured.config, type)
    /\ id \notin seen
    /\ seen' = seen \cup ({id} \ {NoMessage})
    /\ worker' = [worker EXCEPT ![w] =
         [pc |-> "publish", type |-> type, id |-> id, pub |-> captured.pub]]
    /\ UNCHANGED <<scenario, defaults, row, config, pub, captured, received, sent>>

\* pub.Publish of the handler: an error is logged and that is all.
HandlerPublish(w) ==
    /\ worker[w].pc = "publish"
    /\ Publish(worker[w].pub, worker[w].type, worker[w].id)
    /\ sent' = sent \cup ({worker[w].id} \ {NoMessage})
    /\ worker' = [worker EXCEPT ![w] = NoWork]
    /\ UNCHANGED <<scenario, defaults, row, config, pub, captured, seen>>

\* The clean-up of Dedup drops an entry that is two hours old, long after
\* the call of the publisher has returned.
DedupPurge(id) ==
    /\ id \in seen
    /\ \A w \in Workers : worker[w].id # id
    /\ seen' = seen \ {id}
    /\ sent' = sent \ {id}
    /\ UNCHANGED <<scenario, defaults, row, config, pub, captured, worker, received>>

\* HandleLogout and DeleteInstance publish with inst.Publisher.
LoggedOutDirectly(type) ==
    /\ config # NoConfig /\ type \in SystemTypes
    /\ Publish(pub, type, NoMessage)
    /\ UNCHANGED <<scenario, defaults, row, config, pub, captured, seen, worker, sent>>

\* So does FlushHistory, with message_history_sync.
FlushHistory ==
    /\ May("flush")
    /\ config # NoConfig
    /\ Publish(pub, HistoryBatch, NoMessage)
    /\ UNCHANGED <<scenario, defaults, row, config, pub, captured, seen, worker, sent>>

Next ==
    \/ \E request \in Requests : CreateInstance(request) \/ UpdateInstanceConfig(request)
    \/ RestartInstance \/ RebuildService \/ ProcessRestarts
    \/ \E w \in Scenarios[scenario].workers :
         \/ HandlerPublish(w)
         \/ \E type \in Types, id \in MessageIds \cup {NoMessage} : Dispatch(w, type, id)
    \/ \E id \in MessageIds : DedupPurge(id)
    \/ \E type \in SystemTypes : LoggedOutDirectly(type)
    \/ FlushHistory

Spec == Init /\ [][Next]_vars

-----------------------------------------------------------------------------
(* Properties. *)

\* Not true, see README: filters in use hold no system events, which are
\* silently stripped (Event-Delivery.md:99).
SystemEntriesStripped == config # NoConfig => StripSystemEvents(config.filters) = config.filters

\* A restart of the process under the same defaults gives an instance that
\* was saved the configuration it had, but for entries that are not just the
\* name of a type: those come back as the store reads them, in pieces and
\* trimmed.  A list of which nothing is left, perhaps since system events were
\* stripped from it, is excepted where the defaults fill it again (manager.go:404).
RestartKeepsConfig ==
    [][ProcessRestarts /\ config # NoConfig /\ defaults' = defaults /\ ~May("store")
         /\ (SplitFilters(config.filters) # {} \/ defaults.filters = {})
       => \/ config' = config
          \/ /\ \E entry \in config.filters : \A type \in Types : entry # Exactly(type)
             /\ config' = [config EXCEPT !.filters = SplitFilters(@)]]_vars

\* Not true, see README: a list means the same after a restart.
RestartKeepsFilters ==
    [][ProcessRestarts /\ config # NoConfig /\ defaults' = defaults /\ ~May("store")
       => \A type \in Types : Passes(config', type) = Passes(config, type)]_vars

\* A message that goroutines of the handler get several times is handed to
\* a publisher once, as long as Dedup remembers it and is not replaced.
DeliveredOnce ==
    \A v, w \in Workers :
        worker[v].id # NoMessage /\ ~May("restart")
        => worker[v].id \notin sent /\ (worker[v].id = worker[w].id => v = w)
=============================================================================
