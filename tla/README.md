# A specification of wsapi-app

TLA+ modules of the parts of wsapi-app that keep state, TLC configurations that
check them on small instances, and TLAPS proofs about each specification for
every size. References such as `manager.go:228` are to files below `src/`.

    tlc   -config MCManagerDelete.cfg MCInstanceManager.tla   # one run
    tlapm InstanceManagerProofs.tla                            # proofs
    for m in Startup EventHandler QrSession MediaDownload HistorySync Exchange Rooms
    do tlapm ${m}Proofs.tla; done

`PROJECT.json` lists the components, the runs, a mutation of the code for each
property, the source lines behind each definition, the hazards and the theorems.

## 1. The system

wsapi-app is an HTTP gateway in front of `whatsmeow`, a WhatsApp client library.
One process serves many *instances* (multi mode) or one (single mode); each owns
one WhatsApp client, which may be paired with a device. Requests arrive on HTTP
goroutines; events of WhatsApp arrive on the goroutines of each client and leave
through a publisher (webhook, Redis stream or nothing).

| Component | State | Operations | Meets | What is hard | What makes it correct |
|---|---|---|---|---|---|
| Instance manager `internal/instance` | map of instances under `mu`; per struct: `deleting`, service, config, publisher, dedup | create, update, restart, delete, logout, restore, ensure single, shutdown, rebuild | everything below | a delete has unlocked teardown between its critical sections; handlers of replaced clients run on; a failed delete gives the instance back; `go rebuildInstanceService` runs whenever it gets the lock | one delete owns the marker, the row goes before the entry, lookups skip what is torn down, every logout is announced, rows name the devices there are |
| Instance store `instancestore.go` | table `wsapi_instances` | save, set device, delete, list | manager | failing statements, crash between two | agrees with the map and with whatsmeow's device table |
| Client wrapper `service.go`, `session.go` | client, its `Store.ID`, connection | connect, disconnect, logout, delete device, QR, pair code | manager, handlers | a request keeps its `*Instance` across a delete; `Disconnect` of a reconnecting client; several pending `go Connect()` of one client; failing calls of whatsmeow's store | one connection per device; a client that was let go of stays down |
| QR session `session.go` | channel of 8, drain goroutine, whatsmeow's QR handlers | `GenerateQRImage`, `GenerateQRCode`, `drainQRChannel` | client wrapper | whatsmeow sends to the channel under its handler lock; handlers of old polls stay | a sender never blocks; polls are answered; nothing is left behind |
| History sync `historysync.go`, `historysyncstore.go` | table of cached messages, once-flag | cache a batch, announce, flush | manager's event handler, publisher | flushes on five minutes of their own, concurrent with batches, logouts, other flushes; expiry | nothing lost or repeated, chunks fit, the event comes once and in time |
| Event pipeline `manager.go`, `internal/event`, `internal/publisher` | configuration, publisher, filters, dedup, what the handler captured | defaults, stripping, filters, dedup, publish | manager, stores | several copies of one configuration; defaults change between processes | a message is handed over once, a restart keeps the configuration |
| Publishers `webhook.go`, `redis.go` | a connection | publish, close | pipeline | retries, slow target | what is promised is sent at least once |
| App-state recovery `manager.go` | marks of a collection, per client | full sync, recovery by the phone | whatsmeow | errors and successes on several goroutines; a mark that only a success clears | it escalates once and repairs |
| Chat and contact tracking `chatstore.go`, `contactstore.go` | tables of chats, contacts | upserts, deletes | event handler | LIDs that become known late; writers that outlive the device; events out of order | one row a person, none after a logout, a known activity stays known |
| Schema migration `migrate.go` | schema, version | migrate | start-up | a process that ends between a statement and the version; two processes on one database | whoever serves has the whole schema; a start is not refused |
| Media download `media.go`, `media_id.go` | slots shared by all instances | encode and decode an ID, download, stream | handlers | callers who hang up while they wait; failures on every path; lengths in an ID that do not fit | a slot is neither lost nor given back twice; what is streamed is what was sent and fits the limit |
| Identity `internal/identity`, `resolve.go`, `jid.go` | none (whatsmeow's LID store) | resolve, clean, parse, validate | projection, services, tracking | two addresses of a person, the second learned late; forms a client may write | one person has one chat |
| Event projection `projector*.go` | none | an event of whatsmeow to one that is published, or none | pipeline | fields written apart from those the services send; identifiers a client sends back | what was sent is what is told; an answer reaches its message |
| Messages API `handler/message.go`, `whatsapp/message.go` | the request | decode, resolve data, upload, send, wait | whatsmeow | waits that end before the message does; causes that are lost on the way to a status | a client that is told it was at fault has sent nothing |
| Groups, communities, chats `group.go`, `community.go`, `chat.go` | none but the chat table | read, change, list | whatsmeow, projection | a group is read while its changes are on the way; settings are stored under one of two addresses | answers and events agree |
| Configuration `config.go` | none after the start | load | main | precedence, texts that are no numbers | file, environment, defaults in order; one mode altogether |
| Process, server `main.go`, `server.go` | mode, routes, deadlines | start, serve, shut down | everything | a start that fails half way; a deadline shorter than a wait | a send is not cut without a warning |
| Contacts, newsletters, status, users, calls | none | pass a request on | whatsmeow | - | - |

How they interact: `InstanceAuth` (middleware) looks an instance up and hands its
`*Instance` to the handler for as long as the request lasts. `initService` builds
a client and registers an event handler that captures *the configuration and the
publisher of that moment*; the handler writes rows, fills the history cache,
filters, de-duplicates and publishes, and after a logout starts the rebuild.
whatsmeow's device table is written by whatsmeow (pairing, logout) and by
`DeleteDevice`; the application's tables refer to it by JID, some by foreign keys
that cascade.

## 2. Modules

| Module | Models | Uses |
|---|---|---|
| `InstanceManager` | manager, instance store, client wrapper, process life cycle | - |
| `InstanceManagerProofs` | theorems about it: types, markers, deletes; devices, logouts, connections, rows | `InstanceManager` |
| `HistorySync` | history cache, flush | - |
| `HistorySyncProofs` | theorems about it | `HistorySync` |
| `EventPipeline` | configuration, filters, dedup, publishers | - |
| `EventHandlerProofs` | theorems about it and about `EventTracking` | `EventPipeline`, `EventTracking` |
| `QrSession` | the QR channel and its drain | - |
| `QrSessionProofs` | theorems about it | `QrSession` |
| `MediaId` | the media-ID codec | - |
| `MediaDownload` | `GET /media/download` and the shared slots | `MediaId`, `Limiter` |
| `Limiter` | what a first-come limiter promises, abstract | - |
| `MediaDownloadProofs` | theorems about the three | `MediaDownload` |
| `EventTracking` | chats, contacts and app-state repair in the event handler | - |
| `Identity` | addresses of people and chats | - |
| `Projection` | the projectors of messages | `Identity` |
| `AccountEvents` | the other projectors, and which one an event goes to | `Projection` |
| `Sending` | validation of a message request and the message made of it | `Projection` |
| `Exchange` | a conversation between two clients through the gateway | `AccountEvents`, `Sending` |
| `ExchangeProofs` | theorems about it, and about the projectors | `Exchange` |
| `Rooms` | groups, communities, chat settings | `AccountEvents` |
| `RoomsProofs` | theorems about it | `Rooms` |
| `Startup` | configuration, schema, modes and deadlines of processes | - |
| `StartupProofs` | theorems about it | `Startup` |
| `MC...` | scenarios, model values and symmetry sets for TLC | each its module |

The specifications do not share variables. They meet where the code meets:
`InstanceManager` sees a QR poll as "disconnect, connect, maybe pair", and
`QrSession` is the inside of it; `client[c].config` in `InstanceManager` is what
`captured` is in `EventPipeline`; `DeviceDeleted` of `HistorySync` and of `EventTracking` is what
a delete or a logout of `InstanceManager` does to the device table. `HistorySync`, `EventPipeline`
and `EventTracking` are three parts of one function, the handler of `manager.go:556-760`, that
meet in no variable. `AccountEvents` is what `EventPipeline` takes as given, the event of a message
or of another type; `Exchange` composes it with the API that sends, `Rooms` with the one that reads,
so that each is the composition of a request, WhatsApp and an event handler. `Startup` ends
where `InstanceManager` begins: its `Provision` is `RestoreInstances` and `EnsureSingleInstance` there.

### InstanceManager

One action is a piece of code that runs without yielding: a critical section of
`Manager.mu`, one database call, one publisher call, or one whatsmeow call.

| Variable | In the code |
|---|---|
| `phase` | whether the process runs, serves, or is past `Shutdown` |
| `instances` | `Manager.instances` |
| `object` | `Instance` structs (`instance.go:9`), which requests keep by pointer |
| `client` | `whatsmeow.Client`: id and config its handler captured, `Store.ID` (`jid`), `Store.Deleted` (`dead`), socket (`ws`: off, on, or lost and reconnecting) |
| `handler` | how far a client's event handler is with a login or a logout |
| `connects`, `rebuilds` | how many `go client.Connect()` of a client, `go rebuildInstanceService(id)` of an id are pending |
| `del`, `lo`, `po`, `gone` | requests: delete, logout, QR; those whose caller hung up |
| `rows`, `registered` | `wsapi_instances`, `whatsmeow_device` |
| `linked`, `paired`, `announced` | WhatsApp's list of linked devices; two history variables |
| `stray`, `loose`, `spoiled` | history: devices whatsmeow could not delete or load; clients that were let go of while something could still connect them; clients of instances that a failed delete gave back |

`DeleteBegin` to `DeleteClear` are the sections of `DeleteInstance`
(`manager.go:228-300`) in order: take the marker, ask `IsLoggedIn`, unlink and
publish, release the client, delete the row, drop the entry, clear the marker on
failure. `LogoutBegin` to `LogoutRebuild` are `POST /session/logout`
(`handler/session.go`) with `HandleLogout`. `PollBegin`, `PollCheck`, `PollDisconnect`, `PollChannel`,
`PollEnd` are the middleware and the steps of `GenerateQRImage` and `GenerateQRCode` in order
(`session.go:136-230`): each poll that gets through starts a `Connect` of its own, so that several may be pending for one
client. A request for a pair code (`pair`) goes `PollBegin`, `PollCheck`, `PollDisconnect`, `PollConnect`
(`session.go:232-252`). `PairSuccess`, `LoggedOutRow`, `LoggedOutPublish` and
`RebuildRuns` the login and logout cases of the event handler (`manager.go:646-678`).
`RestoreInstances`, `EnsureSingleInstance`, `Shutdown` and `ProcessEnds` are the
process. A call of whatsmeow's store may fail where the code ignores that: `DeleteDevice` erases the
device (`DeviceErased`) or leaves it registered and named by the client (`DeviceKept`, `service.go:162`), `NewService` finds it
or makes a blank one (`Found`, `service.go:53-55`). `Pair`, `PhoneUnlinks`, `ServerLogout`, `ConnectionLost` and
`AutoReconnect` are WhatsApp and whatsmeow, external, as the code relies on them.
Switches (`StoreMayFail`, `CallersMayLeave`, `NetworkMayDrop`, `PhoneMayUnlink`,
`MayRestart`, `MayStop`) say what may go wrong in a run.

Left out: `initService` never fails; a publisher accepts what it is given unless the
request's context is cancelled; `Close` of a publisher; requests that change no state here.

### HistorySync

One pairing of one client with `historySync` on. `HistorySyncBegin`,
`CacheConversation` and `HistorySyncEnd` are the history case of the event handler
(`manager.go:556-608`) with the loop of `cacheHistorySyncMessages`; `FlushRequest` is the HTTP handler, `FlushCheck` to
`FlushDelete` the goroutine of `FlushHistory` (`historysync.go:26-105`), one database
or publisher call each. `Scenarios` gives the histories the phone may send, who
flushes and which faults may strike; a behaviour picks one at the start. `rows` keeps
messages in the order of row ids, since chunks depend on it; the order of
`ListChats` is arbitrary. LIDs are resolved in the input. The loops that filter a sequence
(parsed messages, rows in time, rows of a chat, first occurrences) are `Picked`, a recursive function,
so that the proofs reach them.

### EventPipeline

One instance's configuration on its way: request, `applyDefaults`,
`StripSystemEvents`, memory, row, publisher, captured pair, filters, `Dedup`,
publisher wrapper, target. `webhook` stands for URL, key and secret and `publish` for
the two switches, which the code treats alike. A list of filters is a set of entries, an entry what stands
between its commas, each piece with or without spaces around it: handlers and `StripSystemEvents` compare whole
entries, the store joins them with commas and reads back the pieces, trimmed, without the blank ones (`SplitFilters`). Dedup is the
in-memory one; its purge may come any time after the publish has returned.

### QrSession

Polls of one unpaired client. whatsmeow's handler list, its lock, the emitter of codes
and the channel of `GetQRChannel` are external, translated from what
`session.go:78-128` says and relies on; `Buffer` 3 and `Refs` 2 keep the relation of 8 and
6: the codes of one poll and their time-out fit the channel, the codes of two do not.

### MediaDownload, MediaId, Limiter

One process and its `mediaMaxConcurrentDownloads`. A request is a record: where it is
(`at`), the information its ID was made from (`from`), what the ID decoded to
(`info`), the bytes it holds (`size`), its answer (`status`). One action is one step of
`DownloadByID` (`media.go:58-131`): `Receive` decodes and tests, `Enter`, `Block` and
`Cancelled` are the three ways through the `select`, `Downloaded`, `DownloadFails`,
`Spill`, `SpillFails` and `Respond` follow. `Release` is `<-m.slots` of a Go channel: the
first blocked sender goes on with the slot. `HangUp` cancels the request's context at any
point. `MediaId` encodes and decodes IDs field by field with one-byte lengths, as
`media_id.go` does; a field is a sequence of a few bytes and the length byte counts to a small number.
`Limiter` knows who waits and who is in; `IsLimiter` maps the requests to it.

Left out: `DownloadMediaFromURL`, which keeps no state; file names and headers. A reader of
a stream may take for ever, and the slot is back by then (`media.go:77`): open files are not bounded
by the limiter.

### EventTracking

One client, one collection of app state. `Arrives` gives the handler a message, the
deletion of a chat or a conversation of a history batch; `Resolve` is the
first half of its case (device JID, LID), `Store` the statement, so that a logout, a delete, or
the mapping of the LID may come between. `handling` has one queue for each goroutine that
calls handlers: the client's own, that of history batches, that of the full sync, and
requests (`POST /contacts/sync`). `HandleComplete` and `HandleError` are the sections of
`appStateRecoveryLock` (`manager.go:679-724`); `Escalate` decides. The syncs, the phone, and
what corrupts a collection are external: a collection is broken until a full sync, or until the phone
answers. `tried` is a history variable that counts what was started since the last success.
Its `TrackingInit`, `TrackingNext` and `TrackingSpec` have names of their own, since the theorems about it and
about `EventPipeline`, two parts of one handler, are in one module; `Scenes` says what a run looks at.

Left out: groups and the other columns of a row; the other collections, which have marks of their own.

### Identity, Projection, AccountEvents, Sending

Pure functions, translated field by field. A person has one user name under both
servers, and `known` is the set of people whose two addresses the LID store relates, so that
`GetPNForLID` is a test of membership. A message is a function from the parts that are set, as the
JSON of an event is; texts, bytes and times are tokens. `Outgoing` (`Sending`) is what each method
of `MessageService` makes of a request; `Project` (`AccountEvents`) is the switch of
`projector.go` with an operator for each projector. Encodings of a file (which
upload type, which download class) are kept, since an event must name the right one.
`Projection` defines `:>` and `@@` as the module `TLC` does, so that a proof can expand them.

### Exchange

A request goes through `Submit` (decode, validate), `ResolveData`, `UploadMedia`, `Send` and
`Acknowledge`, each with the ways it may fail; `Finish` is `handleError` with `ServiceStatus`.
`sent` is what WhatsApp has, `Deliver` gives it to an account, addressed as WhatsApp likes, in any
order. `Answers` is what a client may make of an event: every operation of the API that refers to
a message, with the identifiers as they stand in the event. `Notice` are the events that are not
messages. WhatsApp and the clients are external: `PhonesAssumption`, `RequestsAssumption` and `NoticesAssumption`
say of the constants that phones write to people, to the group or to everybody, that clients write to people and to the
group (another JID is refused by WhatsApp, and its answer is not modelled), that a first request replies to nothing, and that a notice is no message and
has addresses where its event has them. TLC evaluates them on the run.

Bounds and what is left out: a behaviour begins with one request or one message of a phone, and the
second thing is an answer to it (`MaxBegun` 2); a notice comes when nothing else is
under way; a reply names its author by a JID and not by a bare number; a client stars its own messages by
its phone number. Not told by events, and so not compared: places and cards without a vCard,
the options of cards and edits, view-once of audio, the time of an edited message.

### Rooms

`group` is WhatsApp's side: fields, roles, parents. `RequestGroup`, `CommunityLookup` and
`CommunityUpdate` are the requests of `group.go` and `community.go`; `OthersDo` is everybody else.
A change is queued in `pending` as WhatsApp notifies it, maybe together with the one before
(`Mixes`); `Deliver` projects it and `Fold` is what a client does with it. `ReadGroup` is
`GetGroupInfo` or `GetCommunityInfo`. `RequestChat` and `PhonePatches` change chat settings, whatsmeow stores them
by the JID they came with, `GetChatSettings` looks them up as `chat.go:84` does. WhatsApp's rules for groups are external.
`FoundedAssumption` says that WhatsApp's groups have the fields of one and members that are people, and `AsksAssumption` that requests
and doings of others are about groups there are, settings there are (the setters of `handler/group.go`) and mutes that `MuteRequest`
accepts, and that a patch names no device. `{NoUser, Stray} \cap People = {}`: an empty address is nobody's.

Bounds and what is left out: three requests or doings of others; a behaviour is about groups or
about chats, which share only `known`; a client cares for one group; a request that WhatsApp refuses
changes nothing; full syncs are not told. Pictures, presence, business profiles, invite links
and `RequestMessages` are left out. `memberAddMode` is in no event and not compared.

### Startup

`Start` to `Serve` are `main` in its order, for processes that may share databases and may each be given
another file and environment: load and validate, open the container, the statements of
`runWAMigrations` one by one, stores, routes, server. `Ends` may strike at any step. A configuration has a setting of each kind
(text, number, count, switch, duration). `SendStalls`, `TimePasses`, `Answer`, `Signal` and `Stop` are one
request to which WhatsApp does not answer, on a clock of quarter minutes, against write and
shutdown deadlines.

Bounds and what is left out: such a request comes while no other process runs, one at a time.
Connection strings and their pragmas, logging, size units and the Redis settings beyond its mode are left out.

## 3. What is checked

Properties are stated and commented at the end of each module. Every property has a
mutation, a form the code could plausibly have had, with which its run fails.

| Run | Bounds | Shows |
|---|---|---|
| `manager_delete` | 1 id, 2 structs, 2 clients, 1 device, 2 deletes, 2 QR or pair-code requests, 2 pending `Connect`s a client, two activities at a time; failing stores, drops, unlinking, restarts, crashes | `MarkerOwned`, `StoreFirst`: two overlapping deletes of one id, a retry after a failure, a new instance under the id. `LetGoStaysDown`, `OneConnectionPerDevice`: whatever is replaced, released or shut down stays down, but for what was under way to connect it |
| `manager_session` | 2 ids, 2 structs, 3 clients, 2 devices, 2 configurations, 1 poll; drops, unlinking | `RowsMatchDevices`, `LoginSurvivesRebuild`: two lives of a client, the delayed rebuild of the first meets the second |
| `manager_single` | single mode, 2 logouts, 1 poll, 2 devices, 3 clients, three activities at a time; failing calls of whatsmeow's store, unlinking, drops, crashes, callers who leave | `OneDeviceInSingleMode`; `LogoutAnnounced`: two API logouts race each other and WhatsApp, no delete running |
| `manager_live` | 1 id, 1 of each request, 2 clients; failing stores | `DeletesEnd`, `DeadServiceReplaced` under `FairSpec` |
| `history` | 4 scenarios, chunks of 2, up to 2 flushes | `NoMessageTwice` (chunks fit and repeat nothing), `NothingLost`, `FinishedOncePerPairing`, `ReadyToFlush`, `FlushDelivers` |
| `pipeline` | 5 scenarios, 1 system type, 2 data types, 1 message (messages do not interact), 1 target, 2 goroutines | the properties of `EventPipeline` |
| `qr_polls` | 2 polls, buffer 3, 2 codes | `SenderNeverBlocks`; `PollsAnswered` (and dispatches return); `PollsLeaveNothing` |
| `media` | 3 callers, 0, 1 or 2 slots, 2 sizes around the limit, 5 kinds of information | `SlotPerDownload`, `WorksOnWhatWasSent`, `EveryoneServed`; the refinement `IsLimiter` |
| `tracking` | 1 person with 2 forms of JID, 2 times, 1 or 2 breaks of the collection, one passing of 48 hours | `NoDuplicates`, `PurgedWithDevice` with failing statements; `EscalatesOnce` with failing requests and one break, and without and two; `Repaired` |
| `exchange` | 2 accounts, 3 people, a direct chat and a group; every kind of request, 11 messages of phones, 21 notices | `SentIsPublished`: projectors and senders agree on every field; `AnswersReach`: identifiers make the round trip in every form; `OneChatPerPerson`: the two addresses are one person as soon as that can be known; `StatusTellsTruth` with uploads, sends and waits that fail |
| `rooms` | 3 people, 4 groups, 3 steps, 2 moments | `MembershipFollows`: read once, at any time, then follow the events; `SettingsAgree`: answers say what events told |
| `startup` | 2 processes, both drivers, 3 files, 3 environments, new and old databases | `SchemaComplete`, `StartsAgain`, `SettingsTakeEffect`, `CutsAreAnnounced` |

Why this is enough. The manager treats ids independently, so one id carries the
interleavings of deletes; two are used where a row could name the device of
another instance. Two structs and as many clients as pairings plus rebuilds let a
struct outlive its entry; when all are used up a run stops creating. `manager_delete` and `manager_single` leave any two, or three, of
deletes, logouts, requests, handlers at work and lost connections going on at a time (`TwoAtATime`, `ThreeAtATime`), since each of the
races is one between two of them, or three; pending `Connect`s and rebuilds are not counted among them. Their views drop structs and clients that nothing refers to,
`Dedup`, and histories that no property of the run reads (`Core`): no step and no property can tell the states apart that
become one. Deadlock is checked but in
`history`, `qr_polls`, `tracking`, `exchange` and `rooms`, whose systems do end: a history has been flushed,
all polls are over, a device is gone, a conversation is over, the steps are used up. Two requests of a kind suffice for races on a marker
that is a Boolean; devices are never reused, so one per pairing is counted. For a flush, chunks
of two with four messages make a full chunk, a partial one and a duplicate on the border.
Three callers on one slot are the least that make a line; on two, that let one in and one wait.
Two accounts are a conversation; a request and its answer are what an identifier goes
through, and people who are mentioned only have no account. Three steps in `rooms` let a change be under way when the
group is read and another follow it. Two processes on a database are the least that
race, and a process that ends and starts again is a third.
One person is enough where rows of different people do not meet. A collection breaks on new patches, so
as often as there are names to change: once where requests fail, twice where they do not, so that a second
failure finds the marks of the first.
Counters are bounded by `MaxRebuilds` (a second pending rebuild of one id repeats the
first), `MaxConnects` (two tell a client with one pending `Connect` from one with several) and the length of a history.

The scenarios of `HistorySync` are: the history as `wiki/History-Sync.md` tells it with two flushes
and no faults; the same with time-outs and a logout; two complete RECENT batches
with failing store, publisher, expiry and logout; overlapping batches with failures and
crashes. A property that promises something only without a fault says so in its
antecedent, so the restriction is read with the property. Those of `EventPipeline`
are: updates, restarts and changed defaults; system events among the defaults with failing
saves; two goroutines; lists and defaults with empty, padded and joined entries; single mode. `SettingsAgree` holds for chats whose settings whatsmeow
has under one JID (`OneForm`), `MembershipFollows` with `MixedChanges = FALSE`, `StartsAgain` but for
one case on SQLite, `CutsAreAnnounced` for sends without an upload: section 5 tells what happens else.

### Fairness

`Fairness` of `InstanceManager` covers goroutines that have begun: a delete, a
logout, an event handler, a rebuild. They are scheduled by Go, take locks that are
held for bounded times, and make calls with time-outs. Administrators, callers, phones
and the network owe nothing: no fairness for requests, connecting, pairing, unlinking.
`HistorySync` is fair to the event handler and to flushes, `QrSession` to polls that have
begun (their timer of 30 seconds runs), drains, and whatsmeow's own goroutines; not to
new polls, scans, or the 45 minutes of a drain. `MediaDownload` is fair to requests inside
`DownloadByID`, whose download ends by its time-out, and not to readers or callers. `EventTracking`
is fair to handlers and their goroutines, and assumes that patches go on coming and that the phone
answers (strong fairness, since both need a free queue); `Repaired` says so.

### Checked by TLC only

Liveness (`DeletesEnd`, `DeadServiceReplaced`, `FlushDelivers`,
`PollsAnswered`, `PollsLeaveNothing`, `EveryoneServed`, `Repaired`), since the prover does not reach fairness
and ENABLED. Every safety property that a run checks is proved, under
hypotheses that its run satisfies.

## 4. What is proved

Each module of proofs states the invariant it needs as named parts, proves them for the initial
states and for one action at a time, and draws the theorems from them. Liveness apart, nothing about a
specification is assumed but the assumptions on its constants and the hypotheses in the
tables below. A hypothesis stands where the code does not keep the promise without it; section 5 tells
what happens then.

### The manager

`InstanceManagerProofs` proves for all sets of ids, structs, clients,
devices, requests, and all settings of the switches:

| Theorem | States |
|---|---|
| `SpecTypeOK` | `Spec => []TypeOK` |
| `SpecMarkerOwned` | `Spec => []MarkerOwned`: one delete owns a marker, and a marker has its delete |
| `SpecStoreFirst` | `Spec => []StoreFirst` |

Assumptions are `NullAssumption` (null values are not members) and
`SwitchAssumption` (switches are Boolean, there is a configuration).

`TypeOK` is not inductive alone, since the code follows pointers: a request's struct, its
client, the id of that client. `Built` says where they may lead, and `PInv` is `TypeOK /\ Built`.
`Down` says that a process that does not run has no memory and no requests, which the
two ways of starting need. `MarkerOwned` is inductive relative to both: without "every entry
of the map is the struct of its id" (`MapBuilt`, part of `Built`) a second delete could
find a marked struct under another id. Most actions touch neither a marker nor a delete; the
frame lemma `MarkerFrame` disposes of those that satisfy `KeepsMarks`, and create, restart, the
sections of a delete, start and stop are done one by one.
`StoreFirst` is an induction relative to all of them: once `DeleteStore` has
deleted the row, its entry is still in the map and marked, so create and update are
refused, and `UpdateDeviceState` of a late handler finds no row.

Its second half goes on from `PInv` and `Down`, again for all sets and switches but for the hypotheses.

| Theorem | States | Hypothesis |
|---|---|---|
| `SpecLogoutAnnounced` | `Spec => []LogoutAnnounced` | `Deletes = {}` |
| `SpecLetGoStaysDown` | `Spec => []LetGoStaysDown` | none |
| `SpecOneConnectionPerDevice` | `Spec => []OneConnectionPerDevice` | single mode has one id |
| `SpecLoginSurvivesRebuild` | `Spec => LoginSurvivesRebuild`, a property of steps | in multi mode, no deletes and no restarts |
| `SpecOneDeviceInSingleMode` | `Spec => []OneDeviceInSingleMode` | one id |
| `SpecRowsMatchDevices` | `Spec => []RowsMatchDevices` | `Undisturbed`: multi mode without deletes, API logouts, failing statements, restarts, crashes |

That single mode has one id is how `EnsureSingleInstance` works (`manager.go:362`). The arguments:

- A logout by the API keeps the instance it looked up until it ends (`LogoutKept`), so it
  publishes or somebody else has; `Accounted` is `LogoutAnnounced` with the one who owes the announcement named.
  With a delete the instance may be gone when it looks again.
- A client is served by an entry of the map (`Served`), or was let go of while something was under way to connect it
  (`loose`), or is down with nothing under way (`LetGoInv`). Whoever lets go of a client disconnects it; a `Connect`, a retry, or a
  request at any of its steps then finds a client that is served or loose, since a request takes hold of the client of a
  struct it looked up, and `ToCome` counts it from that moment. Two structs never share a client (`ServiceOnce`), so that letting go of one client
  leaves the others served.
- A device belongs to one instance: at most one id has it in its row, in a client, or in a login about to be
  written (`Owned`). Two clients with one device are therefore of one id, and an id serves one of them.
- An instance is one thing at a time (`OneTurn`): a client that lives, a logout that will
  rebuild it, a handler that will, or a pending rebuild. A rebuild therefore never meets a client that lives. A
  delete or a restart leaves a second client behind, and with it a second turn; so does a device that whatsmeow failed to delete or load,
  and `Life` and `Single` hold until there is one (`stray`).
- In single mode only a client without device shows a code, and a second client is made only when the
  device of the first is gone from the table (`Single`).
- `Rows` lists the ways a row and a device may disagree for a moment, each with the handler that is about
  to end it; `Life` and `Owned` say that there is one.

### Startup

`StartupProofs` proves all four invariants of `Startup`, for any number of processes, any files,
any environments and any uploads (`StartupAssumption`: their times are natural numbers). The
migrations are the two of the code.

| Theorem | States |
|---|---|
| `SpecSchemaComplete` | `Spec => []SchemaComplete` |
| `SpecStartsAgain` | `Spec => []StartsAgain`: no start is refused but on a torn SQLite database |
| `SpecCutsAreAnnounced` | `Spec => []CutsAreAnnounced` |
| `SpecSettingsTakeEffect` | `Spec => []SettingsTakeEffect` |

`SchemaInv` is types, `Reached` (where a process is in a migration tells what its database has) and
`Justified` (so does every version row). A database only grows, so a step of one process disturbs
neither what another has reached nor an older version; only `InsertVersion` and `UpdateVersion` write a
version, the one with nothing to justify, the other with what its process has reached. That needs no
order between processes. `StartsAgain` does: `TidyInv` adds, for a database that is not torn, that at
most one process migrates it (`Alone`), that the column is not there before the statement
that adds it (`ColumnLast`), and that if it is there, the version says so or its process is
about to write it (`ColumnKnown`). PostgreSQL needs none of the three, since `ADD COLUMN IF NOT EXISTS`
can be repeated; it needs the device table before the foreign keys, which is part of `Reached`.
`DeadlineInv` says of a request without upload that its age and what is left of it add up to the
acknowledgement's time-out, so that an answer that comes too late has been warned of. `ModeInv` says what the
configuration was made from and which parts of the server each step has set up; `Precedence`
is the lemma about `ApplyEnv` and `FromFile`.

### The event pipeline

`EventHandlerProofs`, for any types of events, filters, defaults, messages, goroutines and scenarios:

| Theorem | States |
|---|---|
| `SpecDeliveredOnce` | `Spec => []DeliveredOnce` |
| `SpecRestartKeepsConfig` | `Spec => RestartKeepsConfig`, a property of steps |

`Built` says that the publisher in use and the captured one were made from the configurations beside them,
whichever those are. `Known`: a message that is on its way or sent is in the memory of `Dedup`, and two
goroutines are never on the way with the same one; it is the atomic test-and-mark that keeps this, not the
order of the goroutines. `Stored`: the row and the defaults, put through the resolution of a restart, give the
configuration in use again, its list either as it is or as the store reads it, except for a list of which nothing is left.
`SplitNames` is the lemma that a list of names of types comes through the store as it was.

### QR sessions

`QrSessionProofs`, for any buffer and any number of codes: `SpecSenderNeverBlocks`, under
`Bounded`: either no drain ends before its handler does, and then there may be any number of polls, or
there are at most two polls and the codes of one fit in the channel. `Registered` says who is in whatsmeow's list
and who is connected; `Drained` that every handler in the list has a drain or is `Expired`: its poll is over, its
channel was left empty, and it can get no more codes than those of one other connection, which asks
once (`Spent`). A third poll connects again and fills the channel (section 5), so the bound is the true one.

### Media

`MediaDownloadProofs`, for any number of requests, any limit, any sizes, and IDs of any number and width of fields:

| Theorem | States |
|---|---|
| `MediaIdRoundTrip` | what `DecodeMediaID` makes of an ID of which any end is lost: the information or nothing |
| `SpecIsLimiter` | `Spec => IsLimiter`: each step of a request is a step of `Limiter` or invisible to it |
| `SpecSlotPerDownload` | `Spec => []SlotPerDownload` |
| `SpecWorksOnWhatWasSent` | `Spec => []WorksOnWhatWasSent`, from the round trip |

An ID is laid out by a recursive function (`Before`) and `FlattenSeq`; `Laid` says where each field stands, by
induction over the fields. `Queued`: the queue holds each waiting request once, and only while the slots are
taken. `Counted`: the slots are as many as the requests that download, which is a count of a set,
so each step shows which request enters or leaves it. Both are needed for the simulation, since the
slot that `Release` hands over never becomes free. `Works` follows a request's information through all its steps.

### Tracking

`EventHandlerProofs`, for any people, times, bounds and scenes:

| Theorem | States |
|---|---|
| `SpecNoDuplicates` | `TrackingSpec => []NoDuplicates` |
| `SpecPurgedWithDevice` | `TrackingSpec => []PurgedWithDevice` |
| `SpecEscalatesOnce` | `TrackingSpec => []EscalatesOnce` |

`Handled`: an event whose LID has been resolved and is about to be stored has a phone number, whatever is
learned meanwhile; so no row has a LID (`Rows`), although the mapping changes between any two steps. `Marked`: a mark stands exactly
if its remedy was tried since it was cleared. `PurgedWithDevice` needs no order between the handler and
the logout, since the foreign keys refuse the late writer.

### History sync

`HistorySyncProofs`, for any histories, number of flushes, chunk size and faults:

| Theorem | States | Hypothesis |
|---|---|---|
| `SpecNoMessageTwice` | `Spec => []NoMessageTwice` | - |
| `SpecFinishedOncePerPairing` | `Spec => []FinishedOncePerPairing` | - |
| `SpecNothingLost` | `Spec => []NothingLost` | `RecentComesLast` |
| `SpecReadyToFlush` | `Spec => ReadyToFlush`, a property of steps | `RecentComesLast` |

`RecentComesLast` is what `wiki/History-Sync.md` tells of the phone: no batch for the cache comes after a RECENT one
that is complete. It is asked only of scenarios in which the properties promise something.

The lemmas say what the loops return: `Picked` has the elements at its positions, in order and without
repetition if they are different, `FlattenSeq` the elements of its parts, `Distinct` each element once,
`NextChunk` a beginning that is full unless it is all. Each is an induction over positions (`UpTo`).
`Typed` is `TypeOK` with where handler and flush can be; `Flagged` that the flag stands as long as a second event could come;
`Chunked` that what a flush has published of a chat and what it has left are one sequence without
repetition, whatever happens to the rows. `Kept` carries `NothingLost`: what has come is in the table or delivered
(`Came`, conversation by conversation), and a flush that is in time has delivered each message of
the table, or has it in its buffer, or has still to ask for its chat (`Serves`). So the table may be cleared when
it has nothing left to ask for. `Serves` is not kept if the table grows under a flush: hence `InOrder`, that flushes come after the
event and no batch for the cache does, which is where `RecentComesLast` is used.

### The exchange

`ExchangeProofs`, for any accounts, people, requests, messages of phones and notices that satisfy the assumptions
of `Exchange`, and conversations of any length:

| Theorem | States |
|---|---|
| `SpecStatusTellsTruth` | `Spec => []StatusTellsTruth` |
| `SpecAnswersReach` | `Spec => []AnswersReach`: for each operation that refers to a message |
| `SpecOneChatPerPerson` | `Spec => OneChatPerPerson`, a property of steps |
| `SpecSentIsPublished` | `Spec => []SentIsPublished`: for each kind of request and each option of it |

The first part is about the projectors and has no state. `NamedEvent` is `Settled` for any set of known people: each
part of an event (message, reply, reaction, edit, mentions, groups, calls, settings, notices) has its lemma that
whatever whatsmeow hands over, no person whose two addresses are known stands there by the LID, `PayloadFacts` puts the
parts of a message together, and `MessageNamed`, `ReceiptNamed`, `PatchNamed`, `NoticeNamed` are what `Project` returns.
`NoUser` must not be known, which is where `ExchangeAssumption` is used: an empty address is nobody's LID.

`IInv` follows a reference around. `PublishedInv`: an event of a message says its chat by an address of the group or of the
other person, and its sender by one of the author's, with `isMe` as it is (`ArrivesAs`, for any way WhatsApp
may address it). `AnsweredInv` and `RequestInv`: an answer with status 200 names a message of its account that was
sent, and a request under way that refers to a message makes a key that denotes it. That is where the two meet:
`AnswersSound` takes every answer a client may make of an event and shows, operation by operation
(`ReactionDenotes` to `ReplyDenotes`), that the chat and the sender it read, in either form, become a key with the right
chat, direction and participant. `SentInv`: what has left denotes what it is about, and says who sent it. `KnownInv`: only
people are known. `StatusTellsTruth` needs `RequestInv` too: `out` is set only while a request waits, and each wait has an
error that no 4xx but a patch's or a lost connection's stands for.

`WholeInv` follows a message. `SoundInv`: a request under way, and what left for one, was accepted (`Valid`), and a reply
names a message there is and its author. `ToldInv`: what was published of a message tells what its request asked to show,
and every event has the shape of its type. Between the two there is no state: `BuildContextInfo` and `ContextInfo`,
written apart, agree on each option (forwarding, expiration, mentions, reply); each method of `MessageService` yields a
content with one part, of the kind for which `ContentOrder` picks the projector that reads it (`Shows`, from `TextTold` to
`StickerTold`); the ID of a file decodes to the upload under the class it is downloaded with (`FileTold`); and what
`ProjectMessage` adds does not hide what the payload tells (`ResultAlike`). `MessageTold` puts this together and
`ProjectShape` does so for the shape of events of any origin. `ToldInv` is not inductive alone: it needs `SoundInv` since an
expiration that was not validated is dropped on the way and the quote of a reply is looked up in `sent`; and it is stable
since what is sent stays sent (`Grown`).

### Rooms

`RoomsProofs`, for any people, groups, requests, doings of others, patches and times that satisfy the assumptions of `Rooms`,
and any number of steps:

| Theorem | States | Hypothesis |
|---|---|---|
| `SpecSettingsAgree` | `Spec => []SettingsAgree` | - |
| `SpecMembershipFollows` | `Spec => []MembershipFollows` | `~MixedChanges` |

`ChatInv`: what was told of a chat comes from its settings. An event names the chat by the phone number only
if the two addresses are related when it is projected, and by then `getChatSettings` finds the settings under either;
`Agrees` says so, and that the one address that alone has settings (`Sole`) has the values told. It is kept when the mapping
is learned later, since `known` only grows, and when time passes, since mutes are stored with the time that is told (`MuteIs`).
Of the groups it needs `Base` only, so `MixedChanges` does not matter.

`MembershipFollows` is about an empty queue, and the invariant must say what a full one will lead to.
What a client knows once everything has been folded into its view would be a recursive function of the queue; `GroupInv` instead
says that there *is*, for each person of each group, a function from positions in the queue to roles, each step of which
is as the event there says (`Path`), so no induction over the queue is needed: a step of the system adds a step to the path
at its end, moves its end, or takes off its first. There are two for each person. `Tracked` begins with what the person was, and what an event says is exactly
what happened (`Happens`); `Followed` begins with the role in the client's view, and an event has the effect it has
on a client (`Follows`), who may be told again of what it has read already. Both end in what the person is, as long as the account
is a member and so is told. Since a join of somebody who is there, or a promotion of an admin, changes nothing for the client, a client that knows the
role at the end of a path of `Happens` and is then told the whole path ends with that role again: that is `PathRead`, and why a client
may read at any time. For settings the invariant is that
the last event about one has its value (`SettingTracked`), and the client has it if there is none (`SettingFollowed`).

The steps: each thing WhatsApp may do is a `GroupStep` (`SetFieldStep` to `LinkStep`), a change of one group with a notification that
says what happened to each person and setting; `NotifyIs` and `MixedMention` say what that does to the queue, also
when it is told together with the last, and `GroupStepKeeps` that paths go on. A delivery (`StepDeliver`) goes through the projector
(`InfoProjected`, `JoinedProjected`), whose lists name the same people in the form clients read (`ChangesAre`, `PartiesAre`), to the client,
which has then heard what the event said (`FollowKeeps`, `TunedKeeps`). Here `~MixedChanges` is used: for a notification with a timer the projector publishes
the timer alone, so the rest would never be heard (section 5). `ReadGroup` is `StepRead`, for both answers. `GroupShown` ends it: without events a
path has one role, the client's and WhatsApp's.

## 5. Where code and documents part

These can be seen by editing a configuration; the runs above exclude them in the way said here.

- `EntryOutlivesRow` in `manager_delete`: a delete of an id with no entry takes no marker; if
  `CreateInstance` runs between its `DeleteInstance` of the store and its last critical section, the new
  entry is dropped and row and client stay behind (`manager.go:253`, against 298-300).
- `ClearedAfterSuccess` in `history`: `FlushHistory` clears what it failed to publish
  (`historysync.go:85`, against `wiki/History-Sync.md:133`).
- `DeliveryFollowsConfig` in any run of the manager with two configurations: after
  `PUT .../config` the event handler goes on with the filters and the publisher it captured, until
  the service is rebuilt (`manager.go:527`, against `wiki/Event-Delivery.md:120-123`).
- `SystemEntriesStripped` with `Scenarios <- SystemDefaultsInMultiMode`: `RestoreInstances` fills
  empty filters with unstripped defaults (`manager.go:404`, against `wiki/Event-Delivery.md:99`).
- `LogoutAnnounced` with `Deletes = {d1}`: an API logout that overlaps a delete is
  published by neither. Logouts whose caller hangs up are excused in the property: the announcement runs on the
  request's context and is lost with it (`handler/session.go:106`).
- `LetGoStaysDown` and `OneConnectionPerDevice` without the excuse `loose`: `Disconnect` does nothing while the client
  reconnects, so a restart leaves the old client beside the new one (`service.go:123`); and it stops neither a pending
  `go Connect()` nor a request that is in, so that a QR or pair-code request that passed the middleware before a delete, a restart or
  a rebuild connects the client that was released or replaced (`session.go:157-161`, `243-244`), even one that has been paired meanwhile.
- `OneDeviceInSingleMode` without `stray = {}`: the error of `Store.Delete` is ignored (`service.go:162`), one of `GetDevice`
  makes a blank client (`service.go:53-55`); the old device stays in the table, and the next pairing adds a second.
  `LoginSurvivesRebuild` excuses the same devices, since the client keeps the JID of the first. A logout whose `Store.Delete` fails after WhatsApp has unlinked the
  device leaves it registered, and `LogoutAnnounced` does not count it.
- `DeadServiceReplaced` without `spoiled`: a delete whose store statement fails has deleted the device, and gives the
  instance back without a rebuild (`manager.go:245-251`); it can be neither paired nor used until it is restarted or
  deleted.
- `LoginSurvivesRebuild` in multi mode with restarts by an administrator or deletes: a poll that looked the instance
  up before goes on to connect the client that was replaced; if that one is paired and unlinked, its rebuild throws away the
  login of the client in use (`manager.go:677`).
- `FlushSurvivesLogout` with `Scenarios <- LogsOut`: the second read of `Store.ID` is nil
  (`historysync.go:31`).
- `FinishedOncePerPairing` without its antecedent: a restart of the process resets the flag
  (`wiki/History-Sync.md:135`).
- `NothingLost` with a FULL batch after the RECENT one: the flush deletes what was cached
  since it listed the chats.
- `RestartKeepsFilters` with the scenarios of `pipeline`: a list of system events only is stripped to the
  empty list, which means everything until the defaults fill it at the next start. An entry is not checked (`config.go:95`),
  and the store joins and splits (`instancestore.go:45`, `266-283`): `[""]` lets only system events pass, and everything (or what the defaults say) after a
  restart; `" message"` matches nothing before a restart and `message` after it; `"a,b"` becomes two entries; a padded name of a system event is
  not stripped. The environment's list is split without trimming (`config.go:226-228`). `RestartKeepsConfig` says what does hold.
- `SenderNeverBlocks` with three polls: the lifetime of a drain counts from its poll, its
  handler lives on with later polls and fills the channel (`session.go:111`).
- A flush publishes `message_history_sync` past the filters (`FlushHistory`,
  `wiki/Event-Delivery.md:113`).
- `RowsMatchDevices` with an API logout that comes between whatsmeow's save of a new device
  and the handler's write of the row: the row is cleared first and written last.

- The error of a download that timed out is wrapped with `%v` (`media.go:92`), so it is answered
  with 400 and not with the 504 that the comment of `serviceStatus` (`handler/handler.go`) asks for.
- `ActivityGrows`: the last event sets `last_activity`, older or not (`chatstore.go:44`).
- `ContactsSettle` with `MaxName = 2`: contact events of two goroutines may be stored in either order.
- `Repaired` without its antecedent: only a success clears the mark of a full sync; one that
  could not even be fetched leaves no event, and later partial failures are ignored
  (`manager.go:700`).
- `MembershipFollows` with `MixedChanges = TRUE`: when a notification has a new timer, the projector
  tells only the timer (`projector_group.go:22`).
- `SettingsAgree` without `OneForm`: the API pins a chat by phone number, the phone by LID, whatsmeow keeps two
  settings, and the one that is found first wins, old or not (`chat.go:84-113`).
- `StartsAgain` without its exception: on SQLite a process that ends between `ALTER TABLE` and the update of
  the version, or that migrates together with another, makes every later start fail until somebody
  edits the table (`migrate.go:170`, against `wiki/Database-Setup.md:93`, "no manual steps needed").
- `CutsAreAnnounced` without its exclusion of uploads: the deadline counts from the request, so that an upload or the
  download of a URL, before the 75 seconds of the send, makes the default of 90 seconds too short (`config.go:45`).
- A shutdown waits for 10 seconds by default and a stalled send for 75; `os.Exit` then skips the deferred calls
  (`Stop`, `main.go:206`).
- A read receipt of somebody whose two addresses are not related yet has the LID as `chatId`. An edit of a caption
  has no text in its event. `SendLink` without title, description and thumbnail loses the URL. `wiki/Upgrading.md:9`
  asks to retry after a time-out, when the message may have been sent: `StatusTellsTruth` promises nothing for 504.

## 6. Not modelled, and the plan

The operations on contacts, newsletters, status, users and calls pass a request on and keep no
state; logging and images have none either. Torn reads of `inst.Config` need a memory model.
Size limits (a number times a unit in int64, `config.go:379`) are arithmetic of one line.

Order of the work, the most important first; 1 to 9 are done, with the proofs of section 4.

1. `InstanceManager`, `InstanceManagerProofs`
2. `HistorySync`, `HistorySyncProofs`
3. `EventPipeline`
4. `QrSession`, `QrSessionProofs`
5. `MediaDownload`, `MediaId`, `Limiter`, `MediaDownloadProofs`
6. `EventTracking`, and `EventHandlerProofs` for it and for 3
7. `Identity`, `Projection`, `AccountEvents`, `Sending`, `Exchange`, `ExchangeProofs`
8. `Rooms`, `RoomsProofs`
9. `Startup`, `StartupProofs`
10. `InstanceLifecycle`: what the manager promises an administrator (absent,
   present, being deleted), refined by `InstanceManager` under a mapping of the marker and the
   map; the step simulation proved in `InstanceManagerProofs`
11. Redis retries and back-off; contacts and presence
