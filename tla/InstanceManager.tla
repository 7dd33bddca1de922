--------------------------- MODULE InstanceManager ---------------------------
(***************************************************************************)
(* The instance manager of internal/instance: the in-memory registry of    *)
(* instances, the rows that persist them, and the WhatsApp clients behind  *)
(* them.  One action is one section of code that runs without yielding:    *)
(* a critical section of Manager.mu, one call to the database, one call to *)
(* the publisher, or one call to whatsmeow.                                *)
(***************************************************************************)
EXTENDS Naturals, FiniteSets

CONSTANTS
    Ids,              \* instance identifiers, the keys of Manager.instances
    Objects,          \* *Instance structs one process may allocate
    Clients,          \* *whatsmeow.Client values one process may allocate
    Devices,          \* device JIDs WhatsApp may hand out, one per pairing
    Configs,          \* instance configurations
    Deletes,          \* concurrent DELETE /admin/instances/{id} requests
    Logouts,          \* concurrent POST /session/logout requests
    Polls,            \* concurrent GET /session/qr and pair-code requests
    NoId, NoObject, NoClient, NoDevice, NoRow,
    Multi,            \* TRUE: multi mode; FALSE: single mode, no store
    StoreMayFail,     \* a database call may return an error
    CallersMayLeave,  \* an HTTP caller may hang up, cancelling r.Context()
    NetworkMayDrop,   \* an established connection may be lost
    PhoneMayUnlink,   \* the user may remove a linked device on the phone
    MayRestart,       \* the administrator may call PUT .../restart
    MayStop,          \* the process may crash or be shut down
    MaxRebuilds,      \* pending "go rebuildInstanceService(id)" per id
    MaxConnects       \* pending "go client.Connect()" per client

ASSUME NullAssumption ==
    /\ NoId \notin Ids
    /\ NoObject \notin Objects
    /\ NoClient \notin Clients
    /\ NoDevice \notin Devices
    /\ NoRow \notin [device: Devices \cup {NoDevice}, config: Configs]

ASSUME SwitchAssumption ==
    /\ {Multi, StoreMayFail, CallersMayLeave, NetworkMayDrop} \subseteq BOOLEAN
    /\ {PhoneMayUnlink, MayRestart, MayStop} \subseteq BOOLEAN
    /\ MaxRebuilds \in Nat /\ MaxConnects \in Nat
    /\ Configs # {}

VARIABLES
    phase,       \* "down", "serving" or "stopping"
    instances,   \* Manager.instances
    object,      \* the Instance structs
    client,      \* the whatsmeow clients and what their handler captured
    handler,     \* the event each client's handler is working on
    connects,    \* pending "go client.Connect()", one per QR request
    rebuilds,    \* pending "go m.rebuildInstanceService(id)"
    del,         \* progress of each DeleteInstance call
    lo,          \* progress of each session logout request
    po,          \* progress of each QR or pair-code request
    gone,        \* requests whose caller has hung up
    rows,        \* table wsapi_instances
    registered,  \* table whatsmeow_device
    linked,      \* devices WhatsApp holds to be linked to the account
    paired,      \* history: devices ever handed out
    announced,   \* history: devices whose logout was published, or lost as CallerLeaves
                 \* and ProcessEnds tell
    stray,       \* history: devices whatsmeow could not delete or load, so that
                 \* they stay registered although the program is done with them
    loose,       \* history: clients the program let go of while something that
                 \* Disconnect does not stop could still connect them
    spoiled      \* history: clients whose device a delete had erased before it
                 \* failed and gave their instance back

memory  == <<instances, object, client, handler, connects, rebuilds>>
request == <<del, lo, po, gone>>
lapses  == <<stray, loose, spoiled>>
world   == <<linked, paired, announced, lapses>>
vars    == <<phase, memory, request, rows, registered, world>>

AnyDevice == Devices \cup {NoDevice}
Row       == [device: AnyDevice, config: Configs]
Config0   == CHOOSE f \in Configs : TRUE

\* Unallocated memory.  deleting, dedup and ws have the zero values of Go.
FreeObject == [id |-> NoId, deleting |-> FALSE, service |-> NoClient,
               config |-> Config0, dedup |-> FALSE]
FreeClient == [id |-> NoId, jid |-> NoDevice, ws |-> "off", dead |-> FALSE,
               config |-> Config0]
NoEvent    == [pc |-> "idle", device |-> NoDevice]
NoDelete   == [pc |-> "idle", id |-> NoId, inst |-> NoObject, device |-> NoDevice]
NoLogout   == [pc |-> "idle", inst |-> NoObject, device |-> NoDevice]
NoPoll     == [pc |-> "idle", inst |-> NoObject, client |-> NoClient, pair |-> FALSE]

DeletePC == {"idle", "check", "unlink", "release", "store", "drop", "clear"}
LogoutPC == {"idle", "device", "row", "publish", "rebuild"}
PollPC   == {"idle", "check", "disconnect", "channel", "connect", "wait"}

InstanceRec == [id: Ids \cup {NoId}, deleting: BOOLEAN, service: Clients \cup {NoClient},
                config: Configs, dedup: BOOLEAN]
ClientRec   == [id: Ids \cup {NoId}, jid: AnyDevice, ws: {"off", "lost", "on"},
                dead: BOOLEAN, config: Configs]
EventRec    == [pc: {"idle", "paired", "row", "publish"}, device: AnyDevice]
DeleteRec   == [pc: DeletePC, id: Ids \cup {NoId}, inst: Objects \cup {NoObject},
                device: AnyDevice]
LogoutRec   == [pc: LogoutPC, inst: Objects \cup {NoObject}, device: AnyDevice]
PollRec     == [pc: PollPC, inst: Objects \cup {NoObject},
                client: Clients \cup {NoClient}, pair: BOOLEAN]

TypeOK ==
    /\ phase \in {"down", "serving", "stopping"}
    /\ instances \in [Ids -> Objects \cup {NoObject}]
    /\ object \in [Objects -> InstanceRec]
    /\ client \in [Clients -> ClientRec]
    /\ handler \in [Clients -> EventRec]
    /\ connects \in [Clients -> 0..MaxConnects]
    /\ rebuilds \in [Ids -> 0..MaxRebuilds]
    /\ del \in [Deletes -> DeleteRec]
    /\ lo \in [Logouts -> LogoutRec]
    /\ po \in [Polls -> PollRec]
    /\ gone \subseteq Deletes \cup Logouts
    /\ rows \in [Ids -> Row \cup {NoRow}]
    /\ registered \subseteq Devices
    /\ linked \subseteq Devices
    /\ paired \subseteq Devices
    /\ announced \subseteq Devices /\ stray \subseteq Devices
    /\ loose \subseteq Clients /\ spoiled \subseteq Clients

Init ==
    /\ phase = "down"
    /\ instances = [id \in Ids |-> NoObject]
    /\ object = [o \in Objects |-> FreeObject]
    /\ client = [c \in Clients |-> FreeClient]
    /\ handler = [c \in Clients |-> NoEvent]
    /\ connects = [c \in Clients |-> 0]
    /\ rebuilds = [id \in Ids |-> 0]
    /\ del = [d \in Deletes |-> NoDelete]
    /\ lo = [l \in Logouts |-> NoLogout]
    /\ po = [p \in Polls |-> NoPoll]
    /\ gone = {}
    /\ rows = [id \in Ids |-> NoRow]
    /\ registered = {} /\ linked = {} /\ paired = {} /\ announced = {}
    /\ stray = {} /\ loose = {} /\ spoiled = {}

-----------------------------------------------------------------------------
(* What the sections of the code are built from. *)

\* Manager.lookup: a marked instance is as good as absent.
Lookup(id) ==
    IF instances[id] # NoObject /\ ~object[instances[id]].deleting
    THEN instances[id] ELSE NoObject

NewObjects == {o \in Objects : object[o].id = NoId}
NewClients == {c \in Clients : client[c].id = NoId}

\* Service.IsLoggedIn: the device is known and the connection is up.
IsLoggedIn(c) == client[c].jid # NoDevice /\ client[c].ws = "on"

\* Mutation: the old client is left connected.
DisconnectNot(cl, c) == cl

\* Service.Disconnect acts only on a client that is connected: one whose
\* connection is lost goes on trying to reconnect.
Disconnect(cl, c) == [cl EXCEPT ![c].ws = IF @ = "on" THEN "off" ELSE @]

\* store.Device.Delete, as whatsmeow does it: an error without a JID.
EraseDevice(cl, c) ==
    IF cl[c].jid = NoDevice THEN cl
    ELSE [cl EXCEPT ![c].jid = NoDevice, ![c].dead = TRUE]

\* The call of Store.Delete went through.
DeviceErased(c) ==
    /\ client' = EraseDevice(Disconnect(client, c), c)
    /\ registered' = registered \ {client[c].jid}
    /\ stray' = stray

\* It failed: whatsmeow keeps the device in its table, the client its JID.
DeviceKept(c) ==
    /\ client[c].jid # NoDevice
    /\ client' = Disconnect(client, c)
    /\ registered' = registered
    /\ stray' = stray \cup {client[c].jid}

\* Mutation: the device survives in whatsmeow's table.
DeleteDeviceKeepsRow(c) ==
    /\ client' = EraseDevice(Disconnect(client, c), c)
    /\ UNCHANGED <<registered, stray>>

\* Mutation: the connection is not closed first.
DeleteDeviceStaysUp(c) ==
    /\ client' = EraseDevice(client, c)
    /\ registered' = registered \ {client[c].jid}
    /\ stray' = stray

\* Service.DeleteDevice: Disconnect, then a Store.Delete whose error is
\* ignored.
DeleteDevice(c) == DeviceErased(c) \/ (StoreMayFail /\ DeviceKept(c))

\* The first half of whatsmeow's Client.Logout: WhatsApp acknowledges that
\* the device is removed.  Disconnect and Store.Delete follow.
Unlink(c) ==
    /\ IsLoggedIn(c)
    /\ client[c].jid \in linked
    /\ linked' = linked \ {client[c].jid}

\* Container.GetDevice as NewService reads it: an error is as good as no
\* device.
Found(device) ==
    IF device \notin registered THEN {NoDevice}
    ELSE IF StoreMayFail THEN {device, NoDevice} ELSE {device}

\* NewService and the rest of initService: the device that was found, or a
\* blank one; up when the connection attempt, made only for a caller that
\* named a device, succeeds; cfg captured by the event handler.
NewClient(id, jid, cfg, up) ==
    [id |-> id, jid |-> jid, ws |-> IF up THEN "on" ELSE "off", dead |-> FALSE,
     config |-> cfg]

\* Something under way connects the client whatever Disconnect does to it
\* now: whatsmeow's own retries, or a request that has hold of the client.
UnderWay(c) ==
    \/ client[c].ws = "lost"
    \/ connects[c] > 0
    \/ \E p \in Polls : po[p].client = c /\ po[p].pc \in {"disconnect", "channel", "connect"}

\* Or a request that is about to take hold of it.
ToCome(c) ==
    \/ UnderWay(c)
    \/ \E p \in Polls : po[p].pc = "check" /\ object[po[p].inst].service = c

LetGo(c, comes) == loose' = IF comes THEN loose \cup {c} ELSE loose

\* The struct buildInstance returns.
BuiltInstance(id, c, cfg) ==
    [id |-> id, deleting |-> FALSE, service |-> c, config |-> cfg, dedup |-> TRUE]

\* Mutation: a new row gets a null device_id instead of an empty one.
SaveInstanceNull(id, cfg) ==
    [rows EXCEPT ![id] = [device |-> IF @ = NoRow THEN NoId ELSE @.device,
                          config |-> cfg]]

\* InstanceStore.SaveInstance: an upsert that keeps device_id.
SaveInstance(id, cfg) ==
    [rows EXCEPT ![id] = [device |-> IF @ = NoRow THEN NoDevice ELSE @.device,
                          config |-> cfg]]

\* InstanceStore.UpdateDeviceState: no row, no effect.  Callers only log an
\* error; single mode has no store.
UpdateDeviceState(id, device) ==
    \/ /\ rows' = IF rows[id] = NoRow \/ ~Multi THEN rows
                  ELSE [rows EXCEPT ![id].device = device]
    \/ StoreMayFail /\ rows' = rows

\* rebuildInstanceService: under Manager.mu, a fresh blank client for the
\* instance that is registered now.
RebuildService(id) ==
    \/ Lookup(id) = NoObject /\ UNCHANGED <<object, client, loose>>
    \/ /\ Lookup(id) # NoObject
       /\ \E c \in NewClients :
            LET o == Lookup(id) IN
            /\ client' = [Disconnect(client, object[o].service) EXCEPT
                            ![c] = NewClient(id, NoDevice, object[o].config, FALSE)]
            /\ object' = [object EXCEPT ![o].service = c]
            /\ LetGo(object[o].service, UnderWay(object[o].service))

-----------------------------------------------------------------------------
(* Administration: create, update, restart. *)

\* CreateInstance.  It is refused, without effect, while the map has an
\* entry, marked or not, and when SaveInstance fails.
CreateInstance(id, cfg) ==
    /\ phase = "serving" /\ Multi
    /\ instances[id] = NoObject
    /\ \E o \in NewObjects, c \in NewClients :
         /\ client' = [client EXCEPT ![c] = NewClient(id, NoDevice, cfg, FALSE)]
         /\ object' = [object EXCEPT ![o] = BuiltInstance(id, c, cfg)]
         /\ instances' = [instances EXCEPT ![id] = o]
    /\ rows' = SaveInstance(id, cfg)
    /\ UNCHANGED <<phase, handler, connects, rebuilds, request, registered, world>>

\* UpdateInstanceConfig: memory first, the row second, and an error of
\* SaveInstance leaves memory as changed.
UpdateInstanceConfig(id, cfg) ==
    /\ phase = "serving" /\ Multi
    /\ Lookup(id) # NoObject
    /\ object' = [object EXCEPT ![Lookup(id)].config = cfg]
    /\ \/ rows' = SaveInstance(id, cfg)
       \/ StoreMayFail /\ rows' = rows
    /\ UNCHANGED <<phase, instances, client, handler, connects, rebuilds,
                   request, registered, world>>

\* RestartInstance: a new struct with a new client for the same device
\* takes the map entry.
RestartInstance(id) ==
    /\ phase = "serving" /\ Multi /\ MayRestart
    /\ Lookup(id) # NoObject
    /\ LET o     == Lookup(id)
           old   == object[o].service
           named == client[old].jid
           cfg   == object[o].config
       IN  \E n \in NewObjects, c \in NewClients, jid \in Found(named), up \in BOOLEAN :
             /\ up => named # NoDevice
             /\ client' = [Disconnect(client, old) EXCEPT ![c] = NewClient(id, jid, cfg, up)]
             /\ object' = [object EXCEPT ![o].dedup = FALSE,
                                         ![n] = BuiltInstance(id, c, cfg)]
             /\ instances' = [instances EXCEPT ![id] = n]
             /\ stray' = stray \cup ((registered \cap {named}) \ {jid})
             /\ LetGo(old, ToCome(old))
    /\ UNCHANGED <<phase, handler, connects, rebuilds, request, rows, registered,
                   linked, paired, announced, spoiled>>

-----------------------------------------------------------------------------
(* DeleteInstance and teardownAndDelete. *)

\* First critical section.  A second delete of a marked entry is refused
\* without effect; one of an absent id goes straight to the store.
DeleteBegin(d, id) ==
    /\ phase = "serving" /\ Multi
    /\ del[d].pc = "idle"
    /\ \/ /\ instances[id] = NoObject
          /\ object' = object
          /\ del' = [del EXCEPT ![d] = [NoDelete EXCEPT !.pc = "store", !.id = id]]
       \/ /\ Lookup(id) # NoObject
          /\ object' = [object EXCEPT ![instances[id]].deleting = TRUE]
          /\ del' = [del EXCEPT ![d] = [NoDelete EXCEPT !.pc = "check", !.id = id,
                                                        !.inst = instances[id]]]
    /\ UNCHANGED <<phase, instances, client, handler, connects, rebuilds, lo, po,
                   gone, rows, registered, world>>

\* wasLoggedIn := inst.Service.IsLoggedIn(), kept as the device it was.
DeleteCheck(d) ==
    /\ del[d].pc = "check"
    /\ LET c == object[del[d].inst].service IN
       del' = [del EXCEPT ![d].pc = "unlink",
                          ![d].device = IF IsLoggedIn(c) THEN client[c].jid
                                        ELSE NoDevice]
    /\ UNCHANGED <<phase, memory, lo, po, gone, rows, registered, world>>

\* Session.Logout, which may reach WhatsApp or fail; then, unless the device
\* is gone with it, DeleteDevice.  The client is let go of.
DeleteUnlink(d) ==
    /\ del[d].pc = "unlink"
    /\ LET c == object[del[d].inst].service IN
       /\ \/ del[d].device # NoDevice /\ Unlink(c)
          \/ linked' = linked
       /\ DeleteDevice(c)
       /\ LetGo(c, ToCome(c))
    /\ del' = [del EXCEPT ![d].pc = "release"]
    /\ UNCHANGED <<phase, instances, object, handler, connects, rebuilds, lo, po,
                   gone, rows, paired, announced, spoiled>>

\* Publish logged_out if the instance was logged in, then close Dedup.
DeleteRelease(d) ==
    /\ del[d].pc = "release"
    /\ announced' = IF d \in gone THEN announced
                    ELSE announced \cup ({del[d].device} \ {NoDevice})
    /\ object' = [object EXCEPT ![del[d].inst].dedup = FALSE]
    /\ del' = [del EXCEPT ![d].pc = "store"]
    /\ UNCHANGED <<phase, instances, client, handler, connects, rebuilds, lo, po,
                   gone, rows, registered, linked, paired, lapses>>

\* Mutation: an error of the store is logged and the delete goes on.
DeleteStoreIgnoresError(d) ==
    /\ del[d].pc = "store"
    /\ \/ rows' = [rows EXCEPT ![del[d].id] = NoRow]
       \/ (StoreMayFail \/ d \in gone) /\ rows' = rows
    /\ del' = [del EXCEPT ![d].pc = "drop"]
    /\ UNCHANGED <<phase, memory, lo, po, gone, registered, world>>

\* Mutation: a row that is already gone is waited for.
DeleteStoreNeedsRow(d) ==
    /\ del[d].pc = "store"
    /\ rows[del[d].id] # NoRow
    /\ rows' = [rows EXCEPT ![del[d].id] = NoRow]
    /\ del' = [del EXCEPT ![d].pc = "drop"]
    /\ UNCHANGED <<phase, memory, lo, po, gone, registered, world>>

\* store.DeleteInstance: a row that is already gone is no error.
DeleteStore(d) ==
    /\ del[d].pc = "store"
    /\ \/ /\ d \notin gone
          /\ rows' = [rows EXCEPT ![del[d].id] = NoRow]
          /\ del' = [del EXCEPT ![d].pc = "drop"]
       \/ /\ StoreMayFail \/ d \in gone
          /\ rows' = rows
          /\ del' = [del EXCEPT ![d].pc = "clear"]
    /\ UNCHANGED <<phase, memory, lo, po, gone, registered, world>>

\* Last critical section after success: whatever entry the id has goes, one
\* that was made in the meantime with its client as it is.
DeleteDrop(d) ==
    /\ del[d].pc = "drop"
    /\ LET o == instances[del[d].id] IN
       LetGo(object[o].service, o \notin {NoObject, del[d].inst})
    /\ instances' = [instances EXCEPT ![del[d].id] = NoObject]
    /\ del' = [del EXCEPT ![d] = NoDelete]
    /\ gone' = gone \ {d}
    /\ UNCHANGED <<phase, object, client, handler, connects, rebuilds, lo, po, rows,
                   registered, linked, paired, announced, stray, spoiled>>

\* Mutation: a failed delete leaves its marker behind.
DeleteClearForgets(d) ==
    /\ del[d].pc = "clear"
    /\ del' = [del EXCEPT ![d] = NoDelete]
    /\ gone' = gone \ {d}
    /\ UNCHANGED <<phase, memory, lo, po, rows, registered, world>>

\* Last critical section after an error: the marker is cleared again, and
\* nothing is done about a client whose device is erased.
DeleteClear(d) ==
    /\ del[d].pc = "clear"
    /\ IF del[d].inst = NoObject THEN UNCHANGED <<object, spoiled>>
       ELSE /\ object' = [object EXCEPT ![del[d].inst].deleting = FALSE]
            /\ spoiled' = spoiled \cup
                 {c \in Clients : c = object[del[d].inst].service /\ client[c].dead}
    /\ del' = [del EXCEPT ![d] = NoDelete]
    /\ gone' = gone \ {d}
    /\ UNCHANGED <<phase, instances, client, handler, connects, rebuilds, lo, po,
                   rows, registered, linked, paired, announced, stray, loose>>

DeleteStep(d) ==
    \/ DeleteCheck(d) \/ DeleteUnlink(d) \/ DeleteRelease(d)
    \/ DeleteStore(d) \/ DeleteDrop(d) \/ DeleteClear(d)

-----------------------------------------------------------------------------
(* POST /session/logout: SessionHandler.Logout, then Manager.HandleLogout. *)

\* InstanceAuth puts the *Instance into the request, where it stays.
LogoutBegin(l, id) ==
    /\ phase = "serving"
    /\ lo[l].pc = "idle"
    /\ Lookup(id) # NoObject
    /\ lo' = [lo EXCEPT ![l] = [NoLogout EXCEPT !.pc = "device", !.inst = Lookup(id)]]
    /\ UNCHANGED <<phase, memory, del, po, gone, rows, registered, world>>

\* Service.Session.Logout; an error ends the request.  One of Store.Delete,
\* the database's or that of a context cancelled by now, comes after WhatsApp
\* has removed the device.
LogoutDevice(l) ==
    /\ lo[l].pc = "device"
    /\ LET c == object[lo[l].inst].service IN
       \/ /\ l \notin gone
          /\ Unlink(c) /\ DeviceErased(c)
          /\ lo' = [lo EXCEPT ![l].pc = "row", ![l].device = client[c].jid]
          /\ UNCHANGED gone
       \/ /\ \/ (StoreMayFail \/ l \in gone) /\ Unlink(c) /\ DeviceKept(c)
             \/ UNCHANGED <<client, registered, linked, stray>>
          /\ lo' = [lo EXCEPT ![l] = NoLogout]
          /\ gone' = gone \ {l}
    /\ UNCHANGED <<phase, instances, object, handler, connects, rebuilds, del, po,
                   rows, paired, announced, loose, spoiled>>

\* HandleLogout persists the logout with the request's context.
LogoutRow(l) ==
    /\ lo[l].pc = "row"
    /\ IF l \in gone THEN rows' = rows
       ELSE UpdateDeviceState(object[lo[l].inst].id, NoDevice)
    /\ lo' = [lo EXCEPT ![l].pc = "publish"]
    /\ UNCHANGED <<phase, memory, del, po, gone, registered, world>>

\* Mutation: the event is left to the LoggedOut handler, which an API
\* logout does not reach.
LogoutPublishNot(l) ==
    /\ lo[l].pc = "publish"
    /\ lo' = [lo EXCEPT ![l].pc = "rebuild"]
    /\ UNCHANGED <<phase, memory, del, po, gone, rows, registered, world>>

\* It looks the instance up again and publishes if it is there.
LogoutPublish(l) ==
    /\ lo[l].pc = "publish"
    /\ announced' = IF Lookup(object[lo[l].inst].id) = NoObject \/ l \in gone
                    THEN announced ELSE announced \cup {lo[l].device}
    /\ lo' = [lo EXCEPT ![l].pc = "rebuild"]
    /\ UNCHANGED <<phase, memory, del, po, gone, rows, registered, linked, paired, lapses>>

LogoutRebuild(l) ==
    /\ lo[l].pc = "rebuild"
    /\ RebuildService(object[lo[l].inst].id)
    /\ lo' = [lo EXCEPT ![l] = NoLogout]
    /\ gone' = gone \ {l}
    /\ UNCHANGED <<phase, instances, handler, connects, rebuilds, del, po, rows,
                   registered, linked, paired, announced, stray, spoiled>>

LogoutStep(l) == LogoutDevice(l) \/ LogoutRow(l) \/ LogoutPublish(l) \/ LogoutRebuild(l)

\* Somebody still has to publish the logout of device j.
AnnouncementDue(j) ==
    \/ \E d \in Deletes : del[d].device = j /\ del[d].pc \in {"unlink", "release"}
    \/ \E l \in Logouts : lo[l].device = j /\ lo[l].pc # "idle"
    \/ \E c \in Clients : handler[c].device = j /\ handler[c].pc # "idle"

\* The caller of a request hangs up: its context is cancelled, and what the
\* request would announce is lost.
CallerLeaves(r) ==
    /\ CallersMayLeave
    /\ r \notin gone
    /\ \/ r \in Deletes /\ del[r].pc # "idle"
       \/ r \in Logouts /\ lo[r].pc # "idle"
    /\ gone' = gone \cup {r}
    /\ announced' = announced
         \cup ({IF r \in Deletes THEN del[r].device ELSE lo[r].device} \ {NoDevice})
    /\ UNCHANGED <<phase, memory, del, lo, po, rows, registered, linked, paired, lapses>>

-----------------------------------------------------------------------------
(* GET /session/qr, GenerateQRImage and GenerateQRCode, and pair codes,    *)
(* GeneratePairCode.                                                       *)

PollBegin(p, id) ==
    /\ phase = "serving"
    /\ po[p].pc = "idle"
    /\ Lookup(id) # NoObject
    /\ \E pair \in BOOLEAN :
         po' = [po EXCEPT ![p] = [NoPoll EXCEPT !.pc = "check", !.inst = Lookup(id),
                                                !.pair = pair]]
    /\ UNCHANGED <<phase, memory, del, lo, gone, rows, registered, world>>

\* inst.Service is read, and refused if its device is paired.
PollCheck(p) ==
    /\ po[p].pc = "check"
    /\ LET c == object[po[p].inst].service IN
       po' = [po EXCEPT ![p] =
                IF client[c].jid # NoDevice THEN NoPoll
                ELSE [@ EXCEPT !.pc = "disconnect", !.inst = NoObject, !.client = c]]
    /\ UNCHANGED <<phase, memory, del, lo, gone, rows, registered, world>>

\* Any existing connection is closed, for certain.
PollDisconnect(p) ==
    /\ po[p].pc = "disconnect"
    /\ client' = [client EXCEPT ![po[p].client].ws = "off"]
    /\ po' = [po EXCEPT ![p].pc = IF po[p].pair THEN "connect" ELSE "channel"]
    /\ UNCHANGED <<phase, instances, object, handler, connects, rebuilds, del, lo,
                   gone, rows, registered, world>>

\* GetQRChannel refuses a client that is connected or paired by now;
\* otherwise "go client.Connect()".
PollChannel(p) ==
    /\ po[p].pc = "channel"
    /\ LET c == po[p].client IN
       IF client[c].ws = "on" \/ client[c].jid # NoDevice
       THEN po' = [po EXCEPT ![p] = NoPoll] /\ connects' = connects
       ELSE /\ connects[c] < MaxConnects
            /\ connects' = [connects EXCEPT ![c] = @ + 1]
            /\ po' = [po EXCEPT ![p].pc = "wait"]
    /\ UNCHANGED <<phase, instances, object, client, handler, rebuilds, del, lo,
                   gone, rows, registered, world>>

\* client.Connect: nothing happens to a client that is connected, an error
\* to one with a deleted device; the attempt itself may fail.
Connected(c) ==
    \/ client' = IF client[c].dead THEN client ELSE [client EXCEPT ![c].ws = "on"]
    \/ NetworkMayDrop /\ client' = client

\* A pair code is asked for without a second look at the device.  PairPhone,
\* which follows, changes nothing here.
PollConnect(p) ==
    /\ po[p].pc = "connect"
    /\ Connected(po[p].client)
    /\ po' = [po EXCEPT ![p] = NoPoll]
    /\ UNCHANGED <<phase, instances, object, handler, connects, rebuilds, del, lo,
                   gone, rows, registered, world>>

\* The QR code arrived or the caller gave up: the connection stays.
\* Nothing arrived for qrWaitTimeout: the connection is closed.
PollEnd(p) ==
    /\ po[p].pc = "wait"
    /\ \/ client' = client
       \/ client' = [client EXCEPT ![po[p].client].ws = "off"]
    /\ po' = [po EXCEPT ![p] = NoPoll]
    /\ UNCHANGED <<phase, instances, object, handler, connects, rebuilds, del, lo,
                   gone, rows, registered, world>>

PollStep(p) == PollCheck(p) \/ PollDisconnect(p) \/ PollChannel(p)
               \/ PollConnect(p) \/ PollEnd(p)

\* One of the "go client.Connect()" runs.
Connect(c) ==
    /\ phase # "down"
    /\ connects[c] > 0
    /\ connects' = [connects EXCEPT ![c] = @ - 1]
    /\ Connected(c)
    /\ UNCHANGED <<phase, instances, object, handler, rebuilds, request, rows,
                   registered, world>>

-----------------------------------------------------------------------------
(* WhatsApp, and the event handler initService registers on each client. *)

\* The user scans the code that a connected, blank client shows.
Pair(c) ==
    /\ phase # "down"
    /\ client[c].ws = "on" /\ client[c].jid = NoDevice
    /\ handler[c].pc = "idle"
    /\ \E device \in Devices \ paired :
         /\ client' = [client EXCEPT ![c].jid = device]
         /\ handler' = [handler EXCEPT ![c] = [pc |-> "paired", device |-> device]]
         /\ registered' = registered \cup {device}
         /\ linked' = linked \cup {device}
         /\ paired' = paired \cup {device}
    /\ UNCHANGED <<phase, instances, object, connects, rebuilds, request, rows,
                   announced, lapses>>

\* case *waEvents.PairSuccess, with the id the handler captured.
PairSuccess(c) ==
    /\ handler[c].pc = "paired"
    /\ UpdateDeviceState(client[c].id, handler[c].device)
    /\ handler' = [handler EXCEPT ![c] = NoEvent]
    /\ UNCHANGED <<phase, instances, object, client, connects, rebuilds, request,
                   registered, world>>

\* The user removes the device on the phone.  One that the program has
\* forgotten is no longer its concern.
PhoneUnlinks(device) ==
    /\ PhoneMayUnlink
    /\ device \in linked \cap registered
    /\ linked' = linked \ {device}
    /\ UNCHANGED <<phase, memory, request, rows, registered, paired, announced, lapses>>

\* A connected client is told: whatsmeow deletes the device, or fails to, and
\* dispatches LoggedOut.
ServerLogout(c) ==
    /\ IsLoggedIn(c) /\ client[c].jid \notin linked
    /\ handler[c].pc = "idle"
    /\ handler' = [handler EXCEPT ![c] = [pc |-> "row", device |-> client[c].jid]]
    /\ DeleteDevice(c)
    /\ UNCHANGED <<phase, instances, object, connects, rebuilds, request, rows,
                   linked, paired, announced, loose, spoiled>>

\* Mutation: the row keeps naming the device.
LoggedOutRowNot(c) ==
    /\ handler[c].pc = "row"
    /\ handler' = [handler EXCEPT ![c].pc = "publish"]
    /\ UNCHANGED <<phase, instances, object, client, connects, rebuilds, request,
                   rows, registered, world>>

\* Mutation: a rebuild is started here already, and again further down.
LoggedOutRowRebuilds(c) ==
    /\ handler[c].pc = "row"
    /\ UpdateDeviceState(client[c].id, NoDevice)
    /\ rebuilds[client[c].id] < MaxRebuilds
    /\ rebuilds' = [rebuilds EXCEPT ![client[c].id] = @ + 1]
    /\ handler' = [handler EXCEPT ![c].pc = "publish"]
    /\ UNCHANGED <<phase, instances, object, client, connects, request, registered,
                   world>>

\* case *waEvents.LoggedOut: the row first.
LoggedOutRow(c) ==
    /\ handler[c].pc = "row"
    /\ UpdateDeviceState(client[c].id, NoDevice)
    /\ handler' = [handler EXCEPT ![c].pc = "publish"]
    /\ UNCHANGED <<phase, instances, object, client, connects, rebuilds, request,
                   registered, world>>

\* Mutation: no rebuild follows.
LoggedOutPublishOnly(c) ==
    /\ handler[c].pc = "publish"
    /\ announced' = announced \cup {handler[c].device}
    /\ handler' = [handler EXCEPT ![c] = NoEvent]
    /\ UNCHANGED <<phase, instances, object, client, connects, rebuilds, request, rows,
                   registered, linked, paired, lapses>>

\* Then the event, through the captured publisher, and the rebuild, which
\* cannot run inside the old client's handler.
LoggedOutPublish(c) ==
    /\ handler[c].pc = "publish"
    /\ rebuilds[client[c].id] < MaxRebuilds
    /\ announced' = announced \cup {handler[c].device}
    /\ rebuilds' = [rebuilds EXCEPT ![client[c].id] = @ + 1]
    /\ handler' = [handler EXCEPT ![c] = NoEvent]
    /\ UNCHANGED <<phase, instances, object, client, connects, request, rows,
                   registered, linked, paired, lapses>>

\* The goroutine of "go m.rebuildInstanceService(id)" gets the lock.
RebuildRuns(id) ==
    /\ rebuilds[id] > 0
    /\ RebuildService(id)
    /\ rebuilds' = [rebuilds EXCEPT ![id] = @ - 1]
    /\ UNCHANGED <<phase, instances, handler, connects, request, rows, registered,
                   linked, paired, announced, stray, spoiled>>

HandlerStep(c) == PairSuccess(c) \/ LoggedOutRow(c) \/ LoggedOutPublish(c)

\* An established connection breaks.  whatsmeow retries for a client that
\* has a device, until it succeeds or is told to disconnect.
ConnectionLost(c) ==
    /\ NetworkMayDrop
    /\ client[c].ws = "on"
    /\ client' = [client EXCEPT ![c].ws = IF client[c].jid = NoDevice THEN "off"
                                          ELSE "lost"]
    /\ UNCHANGED <<phase, instances, object, handler, connects, rebuilds, request,
                   rows, registered, world>>

AutoReconnect(c) ==
    /\ client[c].ws = "lost"
    /\ client' = [client EXCEPT ![c].ws = IF client[c].dead THEN "off" ELSE "on"]
    /\ UNCHANGED <<phase, instances, object, handler, connects, rebuilds, request,
                   rows, registered, world>>

-----------------------------------------------------------------------------
(* The process: main, Shutdown, RestoreInstances, EnsureSingleInstance. *)

\* Memory as a set of built instances leaves it: objectOf and clientOf
\* say which struct and client each id gets, device which device was found.
Provision(ids, objectOf, clientOf, device, cfg, up) ==
    /\ instances' = [id \in Ids |-> IF id \in ids THEN objectOf[id] ELSE NoObject]
    /\ object' = [o \in Objects |->
         IF \E id \in ids : objectOf[id] = o
         THEN LET id == CHOOSE id \in ids : objectOf[id] = o
              IN  BuiltInstance(id, clientOf[id], cfg[id])
         ELSE FreeObject]
    /\ client' = [c \in Clients |->
         IF \E id \in ids : clientOf[id] = c
         THEN LET id == CHOOSE id \in ids : clientOf[id] = c
              IN  NewClient(id, device[id], cfg[id], id \in up)
         ELSE FreeClient]

Injections(S, T) == {f \in [S -> T] : \A x, y \in S : f[x] = f[y] => x = y}

\* RestoreInstances: every row becomes an instance, before the server runs.
RestoreInstances ==
    /\ phase = "down" /\ Multi
    /\ phase' = "serving"
    /\ LET ids   == {id \in Ids : rows[id] # NoRow}
           named == [id \in ids |-> rows[id].device]
       IN
       \E objectOf \in Injections(ids, Objects), clientOf \in Injections(ids, Clients),
          up \in SUBSET {id \in ids : named[id] # NoDevice}, device \in [ids -> AnyDevice] :
         /\ \A id \in ids : device[id] \in Found(named[id])
         /\ Provision(ids, objectOf, clientOf, device, [id \in ids |-> rows[id].config], up)
         /\ stray' = stray \cup
              {j \in registered : \E id \in ids : named[id] = j /\ device[id] # j}
    /\ UNCHANGED <<handler, connects, rebuilds, request, rows, registered,
                   linked, paired, announced, loose, spoiled>>

\* EnsureSingleInstance: the one instance of single mode, on whichever
\* device the container finds first, configured from the defaults.  An error
\* of GetFirstDevice ends the start, one of GetDevice does not.
EnsureSingleInstance ==
    /\ phase = "down" /\ ~Multi
    /\ phase' = "serving"
    /\ \E objectOf \in Injections(Ids, Objects), clientOf \in Injections(Ids, Clients),
          named \in IF registered = {} THEN {NoDevice} ELSE registered,
          up \in SUBSET Ids, cfg \in [Ids -> Configs] :
         /\ up # {} => named # NoDevice
         /\ \E device \in [Ids -> Found(named)] :
              /\ Provision(Ids, objectOf, clientOf, device, cfg, up)
              /\ stray' = stray \cup
                   {j \in registered : j = named /\ \E id \in Ids : device[id] # j}
    /\ UNCHANGED <<handler, connects, rebuilds, request, rows, registered,
                   linked, paired, announced, loose, spoiled>>

\* Shutdown, which main defers until the HTTP server has drained.
Shutdown ==
    /\ phase = "serving" /\ MayStop
    /\ \A d \in Deletes : del[d].pc = "idle"
    /\ \A l \in Logouts : lo[l].pc = "idle"
    /\ \A p \in Polls : po[p].pc = "idle"
    /\ LET mapped == {instances[id] : id \in Ids}
           served == {object[o].service : o \in mapped \ {NoObject}}
       IN
       /\ client' = [c \in Clients |-> IF c \in served THEN Disconnect(client, c)[c]
                                       ELSE client[c]]
       /\ loose' = loose \cup {c \in served : UnderWay(c)}
       /\ object' = [o \in Objects |->
            IF o \in mapped THEN [object[o] EXCEPT !.dedup = FALSE] ELSE object[o]]
    /\ instances' = [id \in Ids |-> NoObject]
    /\ phase' = "stopping"
    /\ UNCHANGED <<handler, connects, rebuilds, request, rows, registered,
                   linked, paired, announced, stray, spoiled>>

\* The process ends: main returns after Shutdown, or calls os.Exit, or
\* crashes, at any point.  Only the tables and WhatsApp remain; what was due
\* to be announced is lost.
ProcessEnds ==
    /\ phase # "down" /\ MayStop
    /\ phase' = "down"
    /\ instances' = [id \in Ids |-> NoObject]
    /\ object' = [o \in Objects |-> FreeObject]
    /\ client' = [c \in Clients |-> FreeClient]
    /\ handler' = [c \in Clients |-> NoEvent]
    /\ connects' = [c \in Clients |-> 0]
    /\ rebuilds' = [id \in Ids |-> 0]
    /\ del' = [d \in Deletes |-> NoDelete]
    /\ lo' = [l \in Logouts |-> NoLogout]
    /\ po' = [p \in Polls |-> NoPoll]
    /\ gone' = {}
    /\ announced' = announced \cup {j \in Devices : AnnouncementDue(j)}
    /\ loose' = {} /\ spoiled' = {}
    /\ UNCHANGED <<rows, registered, linked, paired, stray>>

-----------------------------------------------------------------------------
Next ==
    \/ RestoreInstances \/ EnsureSingleInstance \/ Shutdown \/ ProcessEnds
    \/ \E id \in Ids : RestartInstance(id) \/ RebuildRuns(id)
    \/ \E id \in Ids, cfg \in Configs :
         CreateInstance(id, cfg) \/ UpdateInstanceConfig(id, cfg)
    \/ \E d \in Deletes : DeleteStep(d) \/ \E id \in Ids : DeleteBegin(d, id)
    \/ \E l \in Logouts : LogoutStep(l) \/ \E id \in Ids : LogoutBegin(l, id)
    \/ \E r \in Deletes \cup Logouts : CallerLeaves(r)
    \/ \E p \in Polls :
         PollStep(p) \/ \E id \in Ids : PollBegin(p, id)
    \/ \E c \in Clients :
         \/ Connect(c) \/ Pair(c) \/ HandlerStep(c) \/ ServerLogout(c)
         \/ ConnectionLost(c) \/ AutoReconnect(c)
    \/ \E device \in Devices : PhoneUnlinks(device)

Spec == Init /\ [][Next]_vars

\* Goroutines are scheduled and their calls return (every call has a
\* timeout or a finite queue); administrators, callers, phones and the
\* network owe nothing.
Fairness ==
    /\ \A d \in Deletes : WF_vars(DeleteStep(d))
    /\ \A l \in Logouts : WF_vars(LogoutStep(l))
    /\ \A c \in Clients : WF_vars(HandlerStep(c))
    /\ \A id \in Ids : WF_vars(RebuildRuns(id))

FairSpec == Spec /\ Fairness

-----------------------------------------------------------------------------
(* Properties. *)

\* A delete that has taken hold of a struct.
Tearing(d) == del[d].pc # "idle" /\ del[d].inst # NoObject

\* Every entry of the map is the struct built for its id.
MapBuilt == \A id \in Ids : instances[id] # NoObject => object[instances[id]].id = id

\* DeleteInstance hands out the marker to one delete at a time: the structs
\* of deletes in progress are marked and distinct, and no entry of the map
\* is stranded with the marker set and no delete left to clear it.
MarkerOwned ==
    /\ \A d \in Deletes : Tearing(d) => object[del[d].inst].deleting
                                        /\ object[del[d].inst].id = del[d].id
    /\ \A d, e \in Deletes : Tearing(d) /\ Tearing(e) /\ del[d].inst = del[e].inst => d = e
    /\ \A id \in Ids : instances[id] # NoObject /\ object[instances[id]].deleting
                       => \E d \in Deletes : Tearing(d) /\ del[d].inst = instances[id]

\* "Store first, map second" for the struct a delete owns: when it comes to
\* drop its own entry the row is gone, and nobody has written it again.
StoreFirst ==
    \A d \in Deletes :
        del[d].pc = "drop" /\ del[d].inst # NoObject /\ instances[del[d].id] = del[d].inst
        => rows[del[d].id] = NoRow

\* The same for every entry: nothing takes an entry out of the map of a
\* serving process while the row is still there (manager.go:298-300).  Not
\* true, see README.md: a delete of an absent id may drop a new entry.
EntryOutlivesRow ==
    [][phase' = "serving" =>
         \A id \in Ids : instances[id] # NoObject /\ instances'[id] = NoObject
                         => rows'[id] = NoRow]_vars

\* logged_out is published under all logout circumstances
\* (Event-Delivery.md:103): a device that WhatsApp has unlinked and the
\* process has forgotten was announced or is about to be, unless the process
\* ended or the caller hung up before.
LogoutAnnounced ==
    \A j \in paired \ (linked \cup registered) : AnnouncementDue(j) \/ j \in announced

\* The client of a registered instance, until a delete releases it.
Served(c) ==
    \E id \in Ids :
        /\ instances[id] # NoObject /\ object[instances[id]].service = c
        /\ ~\E d \in Deletes : /\ del[d].inst = instances[id]
                              /\ del[d].pc \in {"release", "store", "drop", "clear"}

\* What restart, rebuild, delete and shutdown let go of stays down: no
\* connection outlives its instance, but by what Disconnect does not stop.
\* UnderWay and ToCome name all of that: whatsmeow's retry after a lost
\* connection, and a QR or pair-code request that was already in.
LetGoStaysDown == \A c \in Clients : client[c].ws = "on" => Served(c) \/ c \in loose

\* One connection per device: two would make WhatsApp replace one by the
\* other forever.  A second one is of a client that was let go of while
\* something was under way to connect it.
OneConnectionPerDevice ==
    \A b, c \in Clients : IsLoggedIn(b) /\ IsLoggedIn(c) /\ client[b].jid = client[c].jid
                          => b = c \/ b \in loose \/ c \in loose

\* Events of a served instance are delivered as its configuration says.
DeliveryFollowsConfig ==
    \A id \in Ids : Lookup(id) # NoObject =>
        client[object[Lookup(id)].service].config = object[Lookup(id)].config

\* The table and whatsmeow agree: a row names a device that whatsmeow has,
\* and every device is named by a row, but for what a login or logout is
\* about to write.  A restart of the process restores
\* exactly the paired instances (RestoreInstances reads nothing else).
RowsMatchDevices ==
    /\ \A id \in Ids : rows[id] # NoRow =>
         \/ rows[id].device \in registered \cup {NoDevice}
         \/ \E c \in Clients : handler[c] = [pc |-> "row", device |-> rows[id].device]
         \/ \E l \in Logouts : lo[l].pc = "row" /\ lo[l].device = rows[id].device
    /\ \A j \in registered :
         \/ \E id \in Ids : rows[id] # NoRow /\ rows[id].device = j
         \/ \E c \in Clients : handler[c] = [pc |-> "paired", device |-> j]

\* The rebuild that follows a logout, whenever the scheduler runs it, never
\* throws away the client of a device that has been paired since, as long as
\* whatsmeow's table could be written and read.
LoginSurvivesRebuild ==
    [][\A id \in Ids :
         rebuilds'[id] < rebuilds[id] /\ phase' # "down" /\ Lookup(id) # NoObject
         => client[object[Lookup(id)].service].jid = NoDevice \/ stray # {}]_vars

\* Single mode finds its session by taking the first device there is: there
\* is never more than one to choose from, as long as whatsmeow has been able
\* to delete and to load the devices it was asked for.
OneDeviceInSingleMode == ~Multi /\ stray = {} => \A i, j \in registered : i = j

\* Every delete comes to an end and so gives the instance back or removes it.
DeletesEnd == \A d \in Deletes : del[d].pc # "idle" ~> del[d].pc = "idle"

\* A registered instance does not keep a client whose device was deleted,
\* which could never be paired again (session.go:58): the service is
\* rebuilt, or the instance goes.  Not so one that a failed delete gives back
\* (manager.go:245-251), which nothing repairs.
DeadServiceReplaced ==
    \A id \in Ids, o \in Objects :
        instances[id] = o /\ client[object[o].service].dead
        ~> \/ instances[id] # o \/ ~client[object[o].service].dead
           \/ object[o].service \in spoiled
=============================================================================
