----------------------- MODULE InstanceManagerProofs -----------------------
(***************************************************************************)
(* Invariants of InstanceManager for any number of ids, structs, clients,  *)
(* devices and concurrent requests.                                        *)
(*                                                                         *)
(* The first half is about types, markers and deletes, the second about    *)
(* devices: their logouts, their connections, the rows that name them.     *)
(*                                                                         *)
(* TypeOK is not inductive alone: the code follows pointers (the struct of *)
(* a request, its client, the id of that client), so Built says where they *)
(* may lead.  On top of both, MarkerOwned is inductive, and StoreFirst is  *)
(* inductive relative to it.                                               *)
(***************************************************************************)
EXTENDS InstanceManager, TLAPS

\* A struct in use has a client, which was made for the same id.
ServiceBuilt ==
    \A o \in Objects : object[o].id # NoId =>
        object[o].service \in Clients /\ client[object[o].service].id = object[o].id

\* Whatever a client is doing, it was made for some id.
ClientBuilt ==
    \A c \in Clients : client[c].ws # "off" \/ connects[c] > 0 \/ handler[c].pc # "idle"
                       => client[c].id \in Ids

\* A handler at work knows which device its event is about.
EventBuilt == \A c \in Clients : handler[c].pc # "idle" => handler[c].device \in Devices

\* A delete in progress has an id and, until it reaches the store, a struct.
DeleteBuilt ==
    \A d \in Deletes : del[d].pc # "idle" =>
        /\ del[d].id \in Ids
        /\ del[d].pc \in {"check", "unlink", "release"} => del[d].inst # NoObject
        /\ del[d].inst # NoObject => object[del[d].inst].id \in Ids

\* A logout in progress has a struct and, once it went through, a device.
LogoutBuilt ==
    \A l \in Logouts : lo[l].pc # "idle" =>
        /\ lo[l].inst \in Objects /\ object[lo[l].inst].id \in Ids
        /\ lo[l].pc # "device" => lo[l].device \in Devices

\* A poll has a struct first and a client later.
PollBuilt ==
    \A p \in Polls :
        /\ po[p].pc = "check" => po[p].inst \in Objects /\ object[po[p].inst].id \in Ids
        /\ po[p].pc \notin {"idle", "check"} =>
              po[p].client \in Clients /\ client[po[p].client].id \in Ids

Built == /\ MapBuilt /\ ServiceBuilt /\ ClientBuilt /\ EventBuilt
         /\ DeleteBuilt /\ LogoutBuilt /\ PollBuilt

\* The inductive invariant of the pointers.
PInv == TypeOK /\ Built

-----------------------------------------------------------------------------
(* Frame lemmas: what leaves the pointers as they are. *)

\* No struct and no client that is in use is given another id.
KeepsIds ==
    /\ \A o \in Objects : object[o].id # NoId => object'[o].id = object[o].id
    /\ \A c \in Clients : client[c].id # NoId => client'[c].id = client[c].id

LEMMA PointerFrame ==
    ASSUME PInv, KeepsIds
    PROVE  /\ instances' = instances => MapBuilt'
           /\ del' = del => DeleteBuilt'
           /\ lo' = lo => LogoutBuilt'
           /\ po' = po => PollBuilt'
<1>1. instances' = instances => MapBuilt'
    BY NullAssumption DEF PInv, TypeOK, Built, MapBuilt, KeepsIds, InstanceRec
<1>2. del' = del => DeleteBuilt'
    BY NullAssumption DEF PInv, TypeOK, Built, DeleteBuilt, KeepsIds, InstanceRec, DeleteRec
<1>3. lo' = lo => LogoutBuilt'
    BY NullAssumption DEF PInv, TypeOK, Built, LogoutBuilt, KeepsIds, InstanceRec
<1>4. po' = po => PollBuilt'
    BY NullAssumption DEF PInv, TypeOK, Built, PollBuilt, KeepsIds, InstanceRec
<1> QED BY <1>1, <1>2, <1>3, <1>4

LEMMA ServiceFrame ==
    ASSUME PInv, KeepsIds,
           \A o \in Objects :
              \/ object'[o].id = object[o].id /\ object'[o].service = object[o].service
              \/ object'[o].service \in Clients /\ client'[object'[o].service].id = object'[o].id
    PROVE  ServiceBuilt'
BY NullAssumption DEF PInv, TypeOK, Built, ServiceBuilt, KeepsIds, InstanceRec

LEMMA ClientFrame ==
    ASSUME PInv, KeepsIds, handler' = handler, connects' = connects,
           \A c \in Clients :
              client'[c].ws = "off" \/ client'[c].ws = client[c].ws \/ client'[c].id \in Ids
    PROVE  ClientBuilt' /\ EventBuilt'
BY NullAssumption DEF PInv, TypeOK, Built, ClientBuilt, EventBuilt, KeepsIds, ClientRec

\* Service.Disconnect touches nothing but the connection.
LEMMA DisconnectFrame ==
    ASSUME NEW cl \in [Clients -> ClientRec], NEW c
    PROVE  /\ Disconnect(cl, c) \in [Clients -> ClientRec]
           /\ \A b \in Clients : /\ Disconnect(cl, c)[b].id = cl[b].id
                                 /\ Disconnect(cl, c)[b].jid = cl[b].jid
                                 /\ Disconnect(cl, c)[b].ws \in {"off", cl[b].ws}
BY DEF Disconnect, ClientRec

\* Deleting a device makes no new connection and renames no client.
LEMMA EraseFrame ==
    ASSUME NEW cl \in [Clients -> ClientRec], NEW c
    PROVE  /\ EraseDevice(cl, c) \in [Clients -> ClientRec]
           /\ \A b \in Clients : /\ EraseDevice(cl, c)[b].id = cl[b].id
                                 /\ EraseDevice(cl, c)[b].ws = cl[b].ws
BY DEF EraseDevice, ClientRec, AnyDevice

\* Neither does Service.DeleteDevice.
LEMMA DeleteDeviceFrame ==
    ASSUME PInv, NEW c \in Clients, DeviceErased(c) \/ DeviceKept(c)
    PROVE  /\ client' \in [Clients -> ClientRec]
           /\ registered' \subseteq Devices /\ stray' \subseteq Devices
           /\ \A b \in Clients : /\ client'[b].id = client[b].id
                                 /\ client'[b].ws = "off" \/ client'[b].ws = client[b].ws
<1>1. client \in [Clients -> ClientRec] /\ registered \subseteq Devices
          /\ stray \subseteq Devices
    BY DEF PInv, TypeOK
<1>2. Disconnect(client, c) \in [Clients -> ClientRec]
    BY <1>1, DisconnectFrame
<1>3. CASE DeviceErased(c)
    BY <1>1, <1>2, <1>3, DisconnectFrame, EraseFrame DEF DeviceErased
<1>4. CASE DeviceKept(c)
    <2>1. client[c].jid \in Devices
        BY <1>1, <1>4 DEF DeviceKept, ClientRec, AnyDevice
    <2> QED BY <1>1, <1>4, <2>1, DisconnectFrame DEF DeviceKept
<1> QED BY <1>3, <1>4

\* The records that are written are of their types.
LEMMA NullTypes ==
    /\ Config0 \in Configs
    /\ FreeObject \in InstanceRec /\ FreeClient \in ClientRec
    /\ NoEvent \in EventRec /\ NoDelete \in DeleteRec
    /\ NoLogout \in LogoutRec /\ NoPoll \in PollRec
BY SwitchAssumption
   DEF Config0, FreeObject, FreeClient, NoEvent, NoDelete, NoLogout, NoPoll, InstanceRec,
       ClientRec, EventRec, DeleteRec, LogoutRec, PollRec, AnyDevice, DeletePC, LogoutPC, PollPC

-----------------------------------------------------------------------------
(* The pointers: every step preserves types and Built. *)

LEMMA InitPInv == Init => PInv
<1> SUFFICES ASSUME Init PROVE PInv
    OBVIOUS
<1>1. TypeOK
    BY NullTypes, SwitchAssumption DEF Init, TypeOK
<1>2. Built
    BY NullAssumption
       DEF Init, Built, MapBuilt, ServiceBuilt, ClientBuilt, EventBuilt, DeleteBuilt,
           LogoutBuilt, PollBuilt, FreeObject, FreeClient, NoEvent, NoDelete, NoLogout, NoPoll
<1> QED BY <1>1, <1>2 DEF PInv

\* A step that records its progress in one request.
LEMMA DeleteUpdate ==
    ASSUME PInv, KeepsIds, NEW d \in Deletes, NEW r \in DeleteRec,
           del' = [del EXCEPT ![d] = r],
           r.pc # "idle" => /\ r.id \in Ids
                            /\ r.pc \in {"check", "unlink", "release"} => r.inst # NoObject
                            /\ r.inst # NoObject => object[r.inst].id \in Ids
    PROVE  del' \in [Deletes -> DeleteRec] /\ DeleteBuilt'
<1>1. del \in [Deletes -> DeleteRec] /\ DeleteBuilt
    BY DEF PInv, TypeOK, Built
<1>2. del' \in [Deletes -> DeleteRec] /\ del'[d] = r /\ \A e \in Deletes \ {d} : del'[e] = del[e]
    BY <1>1
<1>3. \A e \in Deletes : del'[e].inst \in Objects \cup {NoObject}
    BY <1>2 DEF DeleteRec
<1>4. \A o \in Objects : object[o].id \in Ids => object'[o].id \in Ids
    BY NullAssumption DEF KeepsIds
<1>5. SUFFICES ASSUME NEW e \in Deletes, del'[e].pc # "idle"
               PROVE  /\ del'[e].id \in Ids
                      /\ del'[e].pc \in {"check", "unlink", "release"} => del'[e].inst # NoObject
                      /\ del'[e].inst # NoObject => object'[del'[e].inst].id \in Ids
    BY <1>2 DEF DeleteBuilt
<1>6. CASE e = d
    BY <1>2, <1>3, <1>4, <1>5, <1>6
<1>7. CASE e # d
    BY <1>1, <1>2, <1>3, <1>4, <1>5, <1>7 DEF DeleteBuilt
<1> QED BY <1>6, <1>7

LEMMA LogoutUpdate ==
    ASSUME PInv, KeepsIds, NEW l \in Logouts, NEW r \in LogoutRec,
           lo' = [lo EXCEPT ![l] = r],
           r.pc # "idle" => /\ r.inst \in Objects /\ object[r.inst].id \in Ids
                            /\ r.pc # "device" => r.device \in Devices
    PROVE  lo' \in [Logouts -> LogoutRec] /\ LogoutBuilt'
<1>1. lo \in [Logouts -> LogoutRec] /\ LogoutBuilt
    BY DEF PInv, TypeOK, Built
<1>2. lo' \in [Logouts -> LogoutRec] /\ lo'[l] = r /\ \A e \in Logouts \ {l} : lo'[e] = lo[e]
    BY <1>1
<1>3. \A o \in Objects : object[o].id \in Ids => object'[o].id \in Ids
    BY NullAssumption DEF KeepsIds
<1>4. SUFFICES ASSUME NEW e \in Logouts, lo'[e].pc # "idle"
               PROVE  /\ lo'[e].inst \in Objects /\ object'[lo'[e].inst].id \in Ids
                      /\ lo'[e].pc # "device" => lo'[e].device \in Devices
    BY <1>2 DEF LogoutBuilt
<1>5. CASE e = l
    BY <1>2, <1>3, <1>4, <1>5
<1>6. CASE e # l
    BY <1>1, <1>2, <1>3, <1>4, <1>6 DEF LogoutBuilt
<1> QED BY <1>5, <1>6

LEMMA PollUpdate ==
    ASSUME PInv, KeepsIds, NEW p \in Polls, NEW r \in PollRec,
           po' = [po EXCEPT ![p] = r],
           r.pc = "check" => r.inst \in Objects /\ object[r.inst].id \in Ids,
           r.pc \notin {"idle", "check"} => r.client \in Clients /\ client[r.client].id \in Ids
    PROVE  po' \in [Polls -> PollRec] /\ PollBuilt'
<1>1. po \in [Polls -> PollRec] /\ PollBuilt
    BY DEF PInv, TypeOK, Built
<1>2. po' \in [Polls -> PollRec] /\ po'[p] = r /\ \A e \in Polls \ {p} : po'[e] = po[e]
    BY <1>1
<1>3. \A o \in Objects : object[o].id \in Ids => object'[o].id \in Ids
    BY NullAssumption DEF KeepsIds
<1>4. \A c \in Clients : client[c].id \in Ids => client'[c].id \in Ids
    BY NullAssumption DEF KeepsIds
<1>5. ASSUME NEW e \in Polls
      PROVE  /\ po'[e].pc = "check" => po'[e].inst \in Objects /\ object'[po'[e].inst].id \in Ids
             /\ po'[e].pc \notin {"idle", "check"} =>
                   po'[e].client \in Clients /\ client'[po'[e].client].id \in Ids
    <2>1. CASE e = p
        BY <1>2, <1>3, <1>4, <2>1
    <2>2. CASE e # p
        BY <1>1, <1>2, <1>3, <1>4, <2>2 DEF PollBuilt
    <2> QED BY <2>1, <2>2
<1> QED BY <1>2, <1>5 DEF PollBuilt

\* A struct that a request holds, its client, and the id both were made for.
LEMMA Held ==
    ASSUME PInv, NEW o \in Objects, object[o].id \in Ids
    PROVE  /\ object[o].service \in Clients
           /\ client[object[o].service].id = object[o].id
           /\ client[object[o].service].jid \in AnyDevice
BY NullAssumption DEF PInv, TypeOK, Built, ServiceBuilt, ClientRec

LEMMA DeleteHolds ==
    ASSUME PInv, NEW d \in Deletes, del[d].pc \in {"check", "unlink", "release"}
    PROVE  del[d] \in DeleteRec /\ del[d].id \in Ids /\ del[d].inst \in Objects
           /\ object[del[d].inst].id \in Ids
BY DEF PInv, TypeOK, Built, DeleteBuilt, DeleteRec

LEMMA DeleteCheckPInv == ASSUME PInv, NEW d \in Deletes, DeleteCheck(d) PROVE PInv'
<1> DEFINE c == object[del[d].inst].service
           j == IF IsLoggedIn(c) THEN client[c].jid ELSE NoDevice
           r == [del[d] EXCEPT !.pc = "unlink", !.device = j]
<1>1. UNCHANGED <<phase, instances, object, client, handler, connects, rebuilds, lo, po,
                  gone, rows, registered, linked, paired, announced,
                  stray, loose, spoiled>>
    BY DEF DeleteCheck, memory, world, lapses
<1>2. /\ del[d] \in DeleteRec /\ del[d].id \in Ids /\ del[d].inst \in Objects
      /\ object[del[d].inst].id \in Ids
    BY DeleteHolds DEF DeleteCheck
<1>3. j \in AnyDevice
    BY <1>2, Held DEF AnyDevice
<1>4. del' = [del EXCEPT ![d] = r]
    BY DEF DeleteCheck, PInv, TypeOK
<1>5. KeepsIds
    BY <1>1 DEF KeepsIds
<1>6. r \in DeleteRec /\ r.id = del[d].id /\ r.inst = del[d].inst
    BY <1>2, <1>3 DEF DeleteRec, DeletePC
<1>7. del' \in [Deletes -> DeleteRec] /\ DeleteBuilt'
    <2> HIDE DEF r
    <2> QED BY <1>2, <1>4, <1>5, <1>6, NullAssumption, DeleteUpdate
<1>8. TypeOK'
    BY <1>1, <1>7 DEF PInv, TypeOK
<1> QED BY <1>1, <1>5, <1>7, <1>8, PointerFrame, ServiceFrame, ClientFrame DEF PInv, Built

\* A step that changes a mark or the configuration of a struct.
LEMMA MarkUpdate ==
    ASSUME PInv, NEW o \in Objects, NEW r \in InstanceRec,
           object' = [object EXCEPT ![o] = r],
           r.id = object[o].id, r.service = object[o].service
    PROVE  /\ object' \in [Objects -> InstanceRec]
           /\ \A q \in Objects : object'[q].id = object[q].id
                                 /\ object'[q].service = object[q].service
BY DEF PInv, TypeOK

LEMMA RowTypes ==
    ASSUME PInv, NEW id \in Ids
    PROVE  /\ [rows EXCEPT ![id] = NoRow] \in [Ids -> Row \cup {NoRow}]
           /\ \A cfg \in Configs : SaveInstance(id, cfg) \in [Ids -> Row \cup {NoRow}]
<1>1. rows \in [Ids -> Row \cup {NoRow}]
    BY DEF PInv, TypeOK
<1>2. ASSUME NEW cfg \in Configs PROVE SaveInstance(id, cfg) \in [Ids -> Row \cup {NoRow}]
    <2> DEFINE r == [device |-> IF rows[id] = NoRow THEN NoDevice ELSE rows[id].device,
                     config |-> cfg]
    <2>1. r \in Row
        BY <1>1 DEF Row, AnyDevice
    <2>2. SaveInstance(id, cfg) = [rows EXCEPT ![id] = r]
        BY <1>1 DEF SaveInstance
    <2> HIDE DEF r
    <2> QED BY <1>1, <2>1, <2>2
<1> QED BY <1>1, <1>2

\* The row of an id that does exist, and none but that, changes.
LEMMA DeviceStateTypes ==
    ASSUME PInv, NEW id \in Ids, NEW device \in AnyDevice, UpdateDeviceState(id, device)
    PROVE  /\ rows' \in [Ids -> Row \cup {NoRow}]
           /\ \A i \in Ids : rows[i] = NoRow => rows'[i] = NoRow
<1>1. rows \in [Ids -> Row \cup {NoRow}]
    BY DEF PInv, TypeOK
<1>2. CASE rows' = rows
    BY <1>1, <1>2
<1>3. CASE rows[id] # NoRow /\ rows' = [rows EXCEPT ![id].device = device]
    <2> DEFINE r == [rows[id] EXCEPT !.device = device]
    <2>1. r \in Row
        BY <1>1, <1>3 DEF Row
    <2>2. rows' = [rows EXCEPT ![id] = r]
        BY <1>3
    <2> HIDE DEF r
    <2> QED BY <1>1, <1>3, <2>1, <2>2
<1> QED BY <1>2, <1>3 DEF UpdateDeviceState

LEMMA DeleteUnlinkPInv == ASSUME PInv, NEW d \in Deletes, DeleteUnlink(d) PROVE PInv'
<1> DEFINE c == object[del[d].inst].service
           r == [del[d] EXCEPT !.pc = "release"]
<1>1. UNCHANGED <<phase, instances, object, handler, connects, rebuilds, lo, po,
                  gone, rows, paired, announced, spoiled>>
    BY DEF DeleteUnlink
<1>2. /\ del[d] \in DeleteRec /\ del[d].id \in Ids /\ del[d].inst \in Objects
      /\ object[del[d].inst].id \in Ids
    BY DeleteHolds DEF DeleteUnlink
<1>3. /\ DeviceErased(c) \/ DeviceKept(c)
      /\ linked' \subseteq linked /\ c \in Clients
      /\ loose' \subseteq Clients
    BY <1>2, Held DEF DeleteUnlink, DeleteDevice, Unlink, LetGo, PInv, TypeOK
<1>4. /\ client' \in [Clients -> ClientRec]
      /\ registered' \subseteq Devices /\ stray' \subseteq Devices
      /\ \A b \in Clients : /\ client'[b].id = client[b].id
                            /\ client'[b].ws = "off" \/ client'[b].ws = client[b].ws
    <2> HIDE DEF c
    <2> QED BY <1>3, DeleteDeviceFrame
<1>5. KeepsIds
    BY <1>1, <1>4 DEF KeepsIds
<1>6. r \in DeleteRec /\ r.id = del[d].id /\ r.inst = del[d].inst
    BY <1>2 DEF DeleteRec, DeletePC
<1>7. del' = [del EXCEPT ![d] = r]
    BY DEF DeleteUnlink, PInv, TypeOK
<1>8. del' \in [Deletes -> DeleteRec] /\ DeleteBuilt'
    <2> HIDE DEF r
    <2> QED BY <1>2, <1>5, <1>6, <1>7, NullAssumption, DeleteUpdate
<1>9. TypeOK'
    BY <1>1, <1>3, <1>4, <1>8 DEF PInv, TypeOK
<1> QED BY <1>1, <1>4, <1>5, <1>8, <1>9, PointerFrame, ServiceFrame, ClientFrame DEF PInv, Built

LEMMA DeleteReleasePInv == ASSUME PInv, NEW d \in Deletes, DeleteRelease(d) PROVE PInv'
<1> DEFINE o == del[d].inst
           s == [object[o] EXCEPT !.dedup = FALSE]
           r == [del[d] EXCEPT !.pc = "store"]
<1>1. UNCHANGED <<phase, instances, client, handler, connects, rebuilds, lo, po,
                  gone, rows, registered, linked, paired,
                  stray, loose, spoiled>>
    BY DEF DeleteRelease, lapses
<1>2. /\ del[d] \in DeleteRec /\ del[d].id \in Ids /\ del[d].inst \in Objects
      /\ object[del[d].inst].id \in Ids
    BY DeleteHolds DEF DeleteRelease
<1>3. s \in InstanceRec /\ s.id = object[o].id /\ s.service = object[o].service
    <2>1. object[o] \in InstanceRec
        BY <1>2 DEF PInv, TypeOK
    <2> HIDE DEF o
    <2> QED BY <2>1 DEF InstanceRec
<1>4. object' = [object EXCEPT ![o] = s]
    BY DEF DeleteRelease, PInv, TypeOK
<1>5. /\ object' \in [Objects -> InstanceRec]
      /\ \A q \in Objects : object'[q].id = object[q].id /\ object'[q].service = object[q].service
    <2> HIDE DEF s
    <2> QED BY <1>2, <1>3, <1>4, MarkUpdate
<1>6. KeepsIds
    BY <1>1, <1>5 DEF KeepsIds
<1>7. r \in DeleteRec /\ r.id = del[d].id /\ r.inst = del[d].inst
    BY <1>2 DEF DeleteRec, DeletePC
<1>8. del' = [del EXCEPT ![d] = r]
    BY DEF DeleteRelease, PInv, TypeOK
<1>9. del' \in [Deletes -> DeleteRec] /\ DeleteBuilt'
    <2> HIDE DEF r
    <2> QED BY <1>2, <1>6, <1>7, <1>8, NullAssumption, DeleteUpdate
<1>10. announced' \subseteq Devices
    BY <1>2 DEF DeleteRelease, PInv, TypeOK, DeleteRec, AnyDevice
<1>11. TypeOK'
    BY <1>1, <1>5, <1>9, <1>10 DEF PInv, TypeOK
<1> QED BY <1>1, <1>5, <1>6, <1>9, <1>11, PointerFrame, ServiceFrame, ClientFrame DEF PInv, Built

LEMMA DeleteStorePInv == ASSUME PInv, NEW d \in Deletes, DeleteStore(d) PROVE PInv'
<1>1. UNCHANGED <<phase, instances, object, client, handler, connects, rebuilds, lo, po,
                  gone, registered, linked, paired, announced,
                  stray, loose, spoiled>>
    BY DEF DeleteStore, memory, world, lapses
<1>2. /\ del[d] \in DeleteRec /\ del[d].id \in Ids
      /\ del[d].inst # NoObject => object[del[d].inst].id \in Ids
    BY DEF DeleteStore, PInv, TypeOK, Built, DeleteBuilt
<1>3. rows' \in [Ids -> Row \cup {NoRow}]
    BY <1>2, RowTypes DEF DeleteStore, PInv, TypeOK
<1>4. KeepsIds
    BY <1>1 DEF KeepsIds
<1>5. PICK pc \in {"drop", "clear"} : del' = [del EXCEPT ![d].pc = pc]
    BY DEF DeleteStore
<1> DEFINE r == [del[d] EXCEPT !.pc = pc]
<1>6. r \in DeleteRec /\ r.id = del[d].id /\ r.inst = del[d].inst /\ r.pc \in {"drop", "clear"}
    BY <1>2, <1>5 DEF DeleteRec, DeletePC
<1>7. del' = [del EXCEPT ![d] = r]
    BY <1>5 DEF PInv, TypeOK
<1>8. del' \in [Deletes -> DeleteRec] /\ DeleteBuilt'
    <2> HIDE DEF r
    <2> QED BY <1>2, <1>4, <1>6, <1>7, DeleteUpdate
<1>9. TypeOK'
    BY <1>1, <1>3, <1>8 DEF PInv, TypeOK
<1> QED BY <1>1, <1>4, <1>8, <1>9, PointerFrame, ServiceFrame, ClientFrame DEF PInv, Built

LEMMA DroppedIsBuilt ==
    ASSUME PInv, NEW d \in Deletes, del[d].pc # "idle", instances[del[d].id] # NoObject
    PROVE  object[instances[del[d].id]].service \in Clients
<1>1. del[d].id \in Ids
    BY DEF PInv, Built, DeleteBuilt
<1>2. instances[del[d].id] \in Objects /\ object[instances[del[d].id]].id = del[d].id
    BY <1>1 DEF PInv, TypeOK, Built, MapBuilt
<1> QED BY <1>1, <1>2, Held

LEMMA DeleteDropPInv == ASSUME PInv, NEW d \in Deletes, DeleteDrop(d) PROVE PInv'
<1>1. UNCHANGED <<phase, object, client, handler, connects, rebuilds, lo, po, rows,
                  registered, linked, paired, announced, stray, spoiled>>
    BY DEF DeleteDrop
<1>2. KeepsIds
    BY <1>1 DEF KeepsIds
<1>3. instances' \in [Ids -> Objects \cup {NoObject}] /\ MapBuilt'
    BY <1>1 DEF DeleteDrop, PInv, TypeOK, Built, MapBuilt
<1>4. del' \in [Deletes -> DeleteRec] /\ DeleteBuilt'
    BY <1>2, NullTypes, DeleteUpdate DEF DeleteDrop, NoDelete
<1>5. gone' \subseteq Deletes \cup Logouts
    BY DEF DeleteDrop, PInv, TypeOK
<1>6. loose' \subseteq Clients
    BY DroppedIsBuilt DEF DeleteDrop, LetGo, PInv, TypeOK
<1>7. TypeOK'
    BY <1>1, <1>3, <1>4, <1>5, <1>6 DEF PInv, TypeOK
<1> QED BY <1>1, <1>2, <1>3, <1>4, <1>7, PointerFrame, ServiceFrame, ClientFrame DEF PInv, Built

LEMMA DeleteClearPInv == ASSUME PInv, NEW d \in Deletes, DeleteClear(d) PROVE PInv'
<1> DEFINE o == del[d].inst
           s == [object[o] EXCEPT !.deleting = FALSE]
<1>1. UNCHANGED <<phase, instances, client, handler, connects, rebuilds, lo, po, rows,
                  registered, linked, paired, announced, stray, loose>>
    BY DEF DeleteClear
<1>2. o \in Objects \cup {NoObject}
    BY DEF PInv, TypeOK, DeleteRec
<1>3. /\ object' \in [Objects -> InstanceRec]
      /\ \A q \in Objects : object'[q].id = object[q].id /\ object'[q].service = object[q].service
    <2>1. CASE o = NoObject
        BY <2>1 DEF DeleteClear, PInv, TypeOK
    <2>2. CASE o \in Objects
        <3>1. s \in InstanceRec /\ s.id = object[o].id /\ s.service = object[o].service
            BY <2>2 DEF PInv, TypeOK, InstanceRec
        <3>2. object' = [object EXCEPT ![o] = s]
            BY <2>2, NullAssumption DEF DeleteClear
        <3> HIDE DEF s
        <3> QED BY <2>2, <3>1, <3>2, MarkUpdate
    <2> QED BY <1>2, <2>1, <2>2
<1>4. KeepsIds
    BY <1>1, <1>3 DEF KeepsIds
<1>5. del' \in [Deletes -> DeleteRec] /\ DeleteBuilt'
    BY <1>4, NullTypes, DeleteUpdate DEF DeleteClear, NoDelete
<1>6. gone' \subseteq Deletes \cup Logouts
    BY DEF DeleteClear, PInv, TypeOK
<1>7. spoiled' \subseteq Clients
    BY DEF DeleteClear, PInv, TypeOK
<1>8. TypeOK'
    BY <1>1, <1>3, <1>5, <1>6, <1>7 DEF PInv, TypeOK
<1> QED BY <1>1, <1>3, <1>4, <1>5, <1>8, PointerFrame, ServiceFrame, ClientFrame DEF PInv, Built

LEMMA LookupFinds ==
    ASSUME PInv, NEW id \in Ids, Lookup(id) # NoObject
    PROVE  /\ Lookup(id) = instances[id] /\ Lookup(id) \in Objects
           /\ object[Lookup(id)].id = id /\ ~object[Lookup(id)].deleting
BY DEF PInv, TypeOK, Built, MapBuilt, Lookup

LEMMA DeleteBeginPInv ==
    ASSUME PInv, NEW d \in Deletes, NEW id \in Ids, DeleteBegin(d, id) PROVE PInv'
<1>1. UNCHANGED <<phase, instances, client, handler, connects, rebuilds, lo, po,
                  gone, rows, registered, linked, paired, announced,
                  stray, loose, spoiled>>
    BY DEF DeleteBegin, world, lapses
<1>2. CASE instances[id] = NoObject /\ object' = object
           /\ del' = [del EXCEPT ![d] = [NoDelete EXCEPT !.pc = "store", !.id = id]]
    <2> DEFINE r == [NoDelete EXCEPT !.pc = "store", !.id = id]
    <2>1. KeepsIds
        BY <1>1, <1>2 DEF KeepsIds
    <2>2. r \in DeleteRec /\ r.id = id /\ r.pc = "store" /\ r.inst = NoObject
        BY NullTypes DEF DeleteRec, DeletePC, NoDelete
    <2>3. del' \in [Deletes -> DeleteRec] /\ DeleteBuilt'
        <3>1. del' = [del EXCEPT ![d] = r]
            BY <1>2
        <3> HIDE DEF r
        <3> QED BY <3>1, <2>1, <2>2, DeleteUpdate
    <2>4. TypeOK'
        BY <1>1, <1>2, <2>3 DEF PInv, TypeOK
    <2> QED BY <1>1, <1>2, <2>1, <2>3, <2>4, PointerFrame, ServiceFrame, ClientFrame DEF PInv, Built
<1>3. CASE /\ Lookup(id) # NoObject
           /\ object' = [object EXCEPT ![instances[id]].deleting = TRUE]
           /\ del' = [del EXCEPT ![d] = [NoDelete EXCEPT !.pc = "check", !.id = id,
                                                         !.inst = instances[id]]]
    <2> DEFINE o == instances[id]
               s == [object[o] EXCEPT !.deleting = TRUE]
               r == [NoDelete EXCEPT !.pc = "check", !.id = id, !.inst = o]
    <2>1. o \in Objects /\ object[o].id = id
        BY <1>3, LookupFinds
    <2>2. s \in InstanceRec /\ s.id = object[o].id /\ s.service = object[o].service
        BY <2>1 DEF PInv, TypeOK, InstanceRec
    <2>3. object' = [object EXCEPT ![o] = s]
        BY <1>3
    <2>4. /\ object' \in [Objects -> InstanceRec]
          /\ \A q \in Objects : object'[q].id = object[q].id /\ object'[q].service = object[q].service
        <3> HIDE DEF s
        <3> QED BY <2>1, <2>2, <2>3, MarkUpdate
    <2>5. KeepsIds
        BY <1>1, <2>4 DEF KeepsIds
    <2>6. r \in DeleteRec /\ r.id = id /\ r.inst = o /\ r.pc = "check"
        BY <2>1, NullTypes DEF DeleteRec, DeletePC, NoDelete
    <2>7. del' = [del EXCEPT ![d] = r]
        BY <1>3
    <2>8. del' \in [Deletes -> DeleteRec] /\ DeleteBuilt'
        <3> HIDE DEF r
        <3> QED BY <2>1, <2>5, <2>6, <2>7, NullAssumption, DeleteUpdate
    <2>9. TypeOK'
        BY <1>1, <2>4, <2>8 DEF PInv, TypeOK
    <2> QED BY <1>1, <2>4, <2>5, <2>8, <2>9, PointerFrame, ServiceFrame, ClientFrame DEF PInv, Built
<1> QED BY <1>2, <1>3 DEF DeleteBegin

\* The logout requests.
LEMMA LogoutHolds ==
    ASSUME PInv, NEW l \in Logouts, lo[l].pc # "idle"
    PROVE  lo[l] \in LogoutRec /\ lo[l].inst \in Objects /\ object[lo[l].inst].id \in Ids
BY DEF PInv, TypeOK, Built, LogoutBuilt

LEMMA LogoutBeginPInv ==
    ASSUME PInv, NEW l \in Logouts, NEW id \in Ids, LogoutBegin(l, id) PROVE PInv'
<1> DEFINE r == [NoLogout EXCEPT !.pc = "device", !.inst = Lookup(id)]
<1>1. UNCHANGED <<phase, instances, object, client, handler, connects, rebuilds, del, po,
                  gone, rows, registered, linked, paired, announced,
                  stray, loose, spoiled>>
    BY DEF LogoutBegin, memory, world, lapses
<1>2. KeepsIds
    BY <1>1 DEF KeepsIds
<1>3. Lookup(id) \in Objects /\ object[Lookup(id)].id = id
    BY LookupFinds DEF LogoutBegin
<1>4. r \in LogoutRec /\ r.inst = Lookup(id) /\ r.pc = "device"
    BY <1>3, NullTypes DEF LogoutRec, LogoutPC, NoLogout
<1>5. lo' = [lo EXCEPT ![l] = r]
    BY DEF LogoutBegin
<1>6. lo' \in [Logouts -> LogoutRec] /\ LogoutBuilt'
    <2> HIDE DEF r
    <2> QED BY <1>2, <1>3, <1>4, <1>5, LogoutUpdate
<1>7. TypeOK'
    BY <1>1, <1>6 DEF PInv, TypeOK
<1> QED BY <1>1, <1>2, <1>6, <1>7, PointerFrame, ServiceFrame, ClientFrame DEF PInv, Built

LEMMA LogoutDevicePInv == ASSUME PInv, NEW l \in Logouts, LogoutDevice(l) PROVE PInv'
<1> DEFINE c == object[lo[l].inst].service
           r == [lo[l] EXCEPT !.pc = "row", !.device = client[c].jid]
<1>1. UNCHANGED <<phase, instances, object, handler, connects, rebuilds, del, po,
                  rows, paired, announced, loose, spoiled>>
    BY DEF LogoutDevice
<1>2. /\ lo[l] \in LogoutRec /\ lo[l].inst \in Objects /\ object[lo[l].inst].id \in Ids
      /\ c \in Clients
    BY LogoutHolds, Held DEF LogoutDevice
<1>3. /\ client' \in [Clients -> ClientRec]
      /\ registered' \subseteq Devices /\ stray' \subseteq Devices /\ linked' \subseteq Devices
      /\ \A b \in Clients : /\ client'[b].id = client[b].id
                            /\ client'[b].ws = "off" \/ client'[b].ws = client[b].ws
    <2>1. CASE Unlink(c) /\ (DeviceErased(c) \/ DeviceKept(c))
        BY <1>2, <2>1, DeleteDeviceFrame DEF Unlink, PInv, TypeOK
    <2>2. CASE UNCHANGED <<client, registered, linked, stray>>
        BY <2>2 DEF PInv, TypeOK
    <2> QED BY <2>1, <2>2 DEF LogoutDevice
<1>4. KeepsIds
    BY <1>1, <1>3 DEF KeepsIds
<1>5. lo' \in [Logouts -> LogoutRec] /\ LogoutBuilt' /\ gone' \subseteq Deletes \cup Logouts
    <2>1. CASE Unlink(c) /\ gone' = gone
               /\ lo' = [lo EXCEPT ![l].pc = "row", ![l].device = client[c].jid]
        <3>1. client[c].jid \in Devices
            BY <1>2, <2>1, Held DEF Unlink, IsLoggedIn, AnyDevice
        <3>2. r \in LogoutRec /\ r.inst = lo[l].inst /\ r.pc = "row" /\ r.device \in Devices
            BY <1>2, <3>1 DEF LogoutRec, LogoutPC, AnyDevice
        <3>3. lo' = [lo EXCEPT ![l] = r]
            BY <2>1 DEF PInv, TypeOK
        <3>4. lo' \in [Logouts -> LogoutRec] /\ LogoutBuilt'
            <4> HIDE DEF r
            <4> QED BY <1>2, <1>4, <3>2, <3>3, LogoutUpdate
        <3> QED BY <2>1, <3>4 DEF PInv, TypeOK
    <2>2. CASE lo' = [lo EXCEPT ![l] = NoLogout] /\ gone' = gone \ {l}
        <3>1. lo' \in [Logouts -> LogoutRec] /\ LogoutBuilt'
            BY <1>4, <2>2, NullTypes, LogoutUpdate DEF NoLogout
        <3> QED BY <2>2, <3>1 DEF PInv, TypeOK
    <2> QED BY <2>1, <2>2 DEF LogoutDevice
<1>6. TypeOK'
    BY <1>1, <1>3, <1>5 DEF PInv, TypeOK
<1> QED BY <1>1, <1>3, <1>4, <1>5, <1>6, PointerFrame, ServiceFrame, ClientFrame DEF PInv, Built

LEMMA LogoutRowPInv == ASSUME PInv, NEW l \in Logouts, LogoutRow(l) PROVE PInv'
<1> DEFINE r == [lo[l] EXCEPT !.pc = "publish"]
<1>1. UNCHANGED <<phase, instances, object, client, handler, connects, rebuilds, del, po,
                  gone, registered, linked, paired, announced,
                  stray, loose, spoiled>>
    BY DEF LogoutRow, memory, world, lapses
<1>2. /\ lo[l] \in LogoutRec /\ lo[l].inst \in Objects /\ object[lo[l].inst].id \in Ids
      /\ lo[l].device \in Devices
    BY LogoutHolds DEF LogoutRow, PInv, Built, LogoutBuilt
<1>3. rows' \in [Ids -> Row \cup {NoRow}]
    BY <1>2, DeviceStateTypes DEF LogoutRow, AnyDevice, PInv, TypeOK
<1>4. KeepsIds
    BY <1>1 DEF KeepsIds
<1>5. r \in LogoutRec /\ r.inst = lo[l].inst /\ r.device = lo[l].device
    BY <1>2 DEF LogoutRec, LogoutPC
<1>6. lo' = [lo EXCEPT ![l] = r]
    BY DEF LogoutRow, PInv, TypeOK
<1>7. lo' \in [Logouts -> LogoutRec] /\ LogoutBuilt'
    <2> HIDE DEF r
    <2> QED BY <1>2, <1>4, <1>5, <1>6, LogoutUpdate
<1>8. TypeOK'
    BY <1>1, <1>3, <1>7 DEF PInv, TypeOK
<1> QED BY <1>1, <1>4, <1>7, <1>8, PointerFrame, ServiceFrame, ClientFrame DEF PInv, Built

LEMMA LogoutPublishPInv == ASSUME PInv, NEW l \in Logouts, LogoutPublish(l) PROVE PInv'
<1> DEFINE r == [lo[l] EXCEPT !.pc = "rebuild"]
<1>1. UNCHANGED <<phase, instances, object, client, handler, connects, rebuilds, del, po,
                  gone, rows, registered, linked, paired,
                  stray, loose, spoiled>>
    BY DEF LogoutPublish, memory, lapses
<1>2. /\ lo[l] \in LogoutRec /\ lo[l].inst \in Objects /\ object[lo[l].inst].id \in Ids
      /\ lo[l].device \in Devices
    BY LogoutHolds DEF LogoutPublish, PInv, Built, LogoutBuilt
<1>3. announced' \subseteq Devices
    BY <1>2 DEF LogoutPublish, PInv, TypeOK
<1>4. KeepsIds
    BY <1>1 DEF KeepsIds
<1>5. r \in LogoutRec /\ r.inst = lo[l].inst /\ r.device = lo[l].device
    BY <1>2 DEF LogoutRec, LogoutPC
<1>6. lo' = [lo EXCEPT ![l] = r]
    BY DEF LogoutPublish, PInv, TypeOK
<1>7. lo' \in [Logouts -> LogoutRec] /\ LogoutBuilt'
    <2> HIDE DEF r
    <2> QED BY <1>2, <1>4, <1>5, <1>6, LogoutUpdate
<1>8. TypeOK'
    BY <1>1, <1>3, <1>7 DEF PInv, TypeOK
<1> QED BY <1>1, <1>4, <1>7, <1>8, PointerFrame, ServiceFrame, ClientFrame DEF PInv, Built

\* What NewService makes is a client of the id it was made for.
LEMMA NewClientType ==
    ASSUME NEW id \in Ids, NEW device \in AnyDevice, NEW cfg \in Configs, NEW up \in BOOLEAN
    PROVE  NewClient(id, device, cfg, up) \in ClientRec /\ NewClient(id, device, cfg, up).id = id
BY DEF NewClient, ClientRec, AnyDevice

LEMMA BuiltInstanceType ==
    ASSUME NEW id \in Ids, NEW c \in Clients, NEW cfg \in Configs
    PROVE  /\ BuiltInstance(id, c, cfg) \in InstanceRec
           /\ BuiltInstance(id, c, cfg).id = id /\ BuiltInstance(id, c, cfg).service = c
BY DEF BuiltInstance, InstanceRec

\* A client that replaces another: the old one is disconnected.
LEMMA ReplaceFrame ==
    ASSUME PInv, NEW old, NEW c \in NewClients, NEW r \in ClientRec, r.id \in Ids,
           client' = [Disconnect(client, old) EXCEPT ![c] = r]
    PROVE  /\ client' \in [Clients -> ClientRec]
           /\ client'[c] = r
           /\ \A b \in Clients : client[b].id # NoId => client'[b].id = client[b].id
           /\ \A b \in Clients : \/ client'[b].ws = "off" \/ client'[b].ws = client[b].ws
                                 \/ client'[b].id \in Ids
<1>1. client \in [Clients -> ClientRec] /\ c \in Clients /\ client[c].id = NoId
    BY DEF PInv, TypeOK, NewClients
<1>2. /\ Disconnect(client, old) \in [Clients -> ClientRec]
      /\ \A b \in Clients : /\ Disconnect(client, old)[b].id = client[b].id
                            /\ Disconnect(client, old)[b].ws \in {"off", client[b].ws}
    BY <1>1, DisconnectFrame
<1> QED BY <1>1, <1>2

LEMMA RebuildFrame ==
    ASSUME PInv, NEW id \in Ids, RebuildService(id), instances' = instances
    PROVE  /\ object' \in [Objects -> InstanceRec] /\ client' \in [Clients -> ClientRec]
           /\ KeepsIds /\ loose' \subseteq Clients
           /\ \A o \in Objects : object'[o].id = object[o].id
                                 /\ object'[o].deleting = object[o].deleting
           /\ \A o \in Objects :
                \/ object'[o].id = object[o].id /\ object'[o].service = object[o].service
                \/ object'[o].service \in Clients /\ client'[object'[o].service].id = object'[o].id
           /\ \A b \in Clients : \/ client'[b].ws = "off" \/ client'[b].ws = client[b].ws
                                 \/ client'[b].id \in Ids
<1>1. CASE UNCHANGED <<object, client, loose>>
    BY <1>1 DEF KeepsIds, PInv, TypeOK
<1>2. CASE Lookup(id) # NoObject /\ ~UNCHANGED <<object, client, loose>>
    <2> DEFINE o == Lookup(id)
               r == NewClient(id, NoDevice, object[o].config, FALSE)
    <2>1. o \in Objects /\ object[o].id = id
        BY <1>2, LookupFinds
    <2>2. PICK c \in NewClients :
            /\ client' = [Disconnect(client, object[o].service) EXCEPT ![c] = r]
            /\ object' = [object EXCEPT ![o].service = c]
            /\ loose' = loose \/ loose' = loose \cup {object[o].service}
        BY <1>2 DEF RebuildService, LetGo
    <2>3. r \in ClientRec /\ r.id = id
        BY <2>1, NewClientType DEF PInv, TypeOK, InstanceRec, AnyDevice
    <2>4. c \in Clients
        BY DEF NewClients
    <2>5. /\ client' \in [Clients -> ClientRec]
          /\ client'[c] = r
          /\ \A b \in Clients : client[b].id # NoId => client'[b].id = client[b].id
          /\ \A b \in Clients : \/ client'[b].ws = "off" \/ client'[b].ws = client[b].ws
                                \/ client'[b].id \in Ids
        <3> HIDE DEF r, o
        <3> QED BY <2>2, <2>3, ReplaceFrame
    <2>6. object \in [Objects -> InstanceRec]
        BY DEF PInv, TypeOK
    <2>7. object' \in [Objects -> InstanceRec]
        BY <2>1, <2>2, <2>4, <2>6 DEF InstanceRec
    <2>8. \A q \in Objects : object'[q].id = object[q].id
                             /\ object'[q].deleting = object[q].deleting
        BY <2>1, <2>2, <2>6 DEF InstanceRec
    <2>9. \A q \in Objects : q # o => object'[q] = object[q]
        BY <2>1, <2>2, <2>6
    <2>10. object'[o].service = c
        BY <2>1, <2>2, <2>6 DEF InstanceRec
    <2>11. loose' \subseteq Clients
        <3> HIDE DEF o
        <3> QED BY <2>1, <2>2, Held DEF PInv, TypeOK
    <2>12. KeepsIds
        BY <2>5, <2>8 DEF KeepsIds
    <2> HIDE DEF r, o
    <2> QED BY <2>1, <2>3, <2>4, <2>5, <2>7, <2>8, <2>9, <2>10, <2>11, <2>12
<1> QED BY <1>1, <1>2 DEF RebuildService

LEMMA LogoutRebuildPInv == ASSUME PInv, NEW l \in Logouts, LogoutRebuild(l) PROVE PInv'
<1>1. UNCHANGED <<phase, instances, handler, connects, rebuilds, del, po, rows,
                  registered, linked, paired, announced, stray, spoiled>>
    BY DEF LogoutRebuild, world, lapses
<1>2. object[lo[l].inst].id \in Ids
    BY LogoutHolds DEF LogoutRebuild
<1>3. /\ object' \in [Objects -> InstanceRec] /\ client' \in [Clients -> ClientRec]
      /\ KeepsIds /\ loose' \subseteq Clients
      /\ \A o \in Objects :
           \/ object'[o].id = object[o].id /\ object'[o].service = object[o].service
           \/ object'[o].service \in Clients /\ client'[object'[o].service].id = object'[o].id
      /\ \A b \in Clients : \/ client'[b].ws = "off" \/ client'[b].ws = client[b].ws
                            \/ client'[b].id \in Ids
    BY <1>1, <1>2, RebuildFrame DEF LogoutRebuild
<1>4. lo' \in [Logouts -> LogoutRec] /\ LogoutBuilt'
    BY <1>3, NullTypes, LogoutUpdate DEF LogoutRebuild, NoLogout
<1>5. gone' \subseteq Deletes \cup Logouts
    BY DEF LogoutRebuild, PInv, TypeOK
<1>6. TypeOK'
    BY <1>1, <1>3, <1>4, <1>5 DEF PInv, TypeOK
<1> QED BY <1>1, <1>3, <1>4, <1>6, PointerFrame, ServiceFrame, ClientFrame DEF PInv, Built

LEMMA RebuildRunsPInv == ASSUME PInv, NEW id \in Ids, RebuildRuns(id) PROVE PInv'
<1>1. UNCHANGED <<phase, instances, handler, connects, del, lo, po, gone, rows,
                  registered, linked, paired, announced, stray, spoiled>>
    BY DEF RebuildRuns, request, world, lapses
<1>2. /\ object' \in [Objects -> InstanceRec] /\ client' \in [Clients -> ClientRec]
      /\ KeepsIds /\ loose' \subseteq Clients
      /\ \A o \in Objects :
           \/ object'[o].id = object[o].id /\ object'[o].service = object[o].service
           \/ object'[o].service \in Clients /\ client'[object'[o].service].id = object'[o].id
      /\ \A b \in Clients : \/ client'[b].ws = "off" \/ client'[b].ws = client[b].ws
                            \/ client'[b].id \in Ids
    BY <1>1, RebuildFrame DEF RebuildRuns
<1>3. rebuilds' \in [Ids -> 0..MaxRebuilds]
    BY SwitchAssumption DEF RebuildRuns, PInv, TypeOK
<1>4. TypeOK'
    BY <1>1, <1>2, <1>3 DEF PInv, TypeOK
<1> QED BY <1>1, <1>2, <1>4, PointerFrame, ServiceFrame, ClientFrame DEF PInv, Built

LEMMA CallerLeavesPInv ==
    ASSUME PInv, NEW r \in Deletes \cup Logouts, CallerLeaves(r) PROVE PInv'
<1>1. UNCHANGED <<phase, instances, object, client, handler, connects, rebuilds, del, lo, po,
                  rows, registered, linked, paired,
                  stray, loose, spoiled>>
    BY DEF CallerLeaves, memory, lapses
<1>2. KeepsIds
    BY <1>1 DEF KeepsIds
<1>3. announced' \subseteq Devices
    <2>1. /\ r \in Deletes => del[r].device \in AnyDevice
          /\ r \in Logouts => lo[r].device \in AnyDevice
        BY DEF PInv, TypeOK, DeleteRec, LogoutRec
    <2> QED BY <2>1 DEF CallerLeaves, PInv, TypeOK, AnyDevice
<1>4. gone' \subseteq Deletes \cup Logouts
    BY DEF CallerLeaves, PInv, TypeOK
<1>5. TypeOK'
    BY <1>1, <1>3, <1>4 DEF PInv, TypeOK
<1> QED BY <1>1, <1>2, <1>5, PointerFrame, ServiceFrame, ClientFrame DEF PInv, Built

\* The polls.
LEMMA PollBeginPInv ==
    ASSUME PInv, NEW p \in Polls, NEW id \in Ids, PollBegin(p, id) PROVE PInv'
<1>1. UNCHANGED <<phase, instances, object, client, handler, connects, rebuilds, del, lo,
                  gone, rows, registered, linked, paired, announced,
                  stray, loose, spoiled>>
    BY DEF PollBegin, memory, world, lapses
<1>2. KeepsIds
    BY <1>1 DEF KeepsIds
<1>3. Lookup(id) \in Objects /\ object[Lookup(id)].id = id
    BY LookupFinds DEF PollBegin
<1>4. PICK r \in PollRec :
        po' = [po EXCEPT ![p] = r] /\ r.inst = Lookup(id) /\ r.pc = "check"
    <2>1. PICK pair \in BOOLEAN :
            po' = [po EXCEPT ![p] = [NoPoll EXCEPT !.pc = "check", !.inst = Lookup(id),
                                                   !.pair = pair]]
        BY DEF PollBegin
    <2> DEFINE r == [NoPoll EXCEPT !.pc = "check", !.inst = Lookup(id), !.pair = pair]
    <2>2. r \in PollRec /\ r.inst = Lookup(id) /\ r.pc = "check"
        BY <1>3, NullTypes DEF PollRec, PollPC, NoPoll
    <2> QED BY <2>1, <2>2
<1>5. po' \in [Polls -> PollRec] /\ PollBuilt'
    BY <1>2, <1>3, <1>4, PollUpdate
<1>6. TypeOK'
    BY <1>1, <1>5 DEF PInv, TypeOK
<1> QED BY <1>1, <1>2, <1>5, <1>6, PointerFrame, ServiceFrame, ClientFrame DEF PInv, Built

\* A connection that goes up or down.
LEMMA SocketUpdate ==
    ASSUME PInv, NEW c, NEW ws \in {"off", "lost", "on"},
           client' = [client EXCEPT ![c].ws = ws]
    PROVE  /\ client' \in [Clients -> ClientRec]
           /\ \A b \in Clients : /\ client'[b].id = client[b].id
                                 /\ b # c => client'[b].ws = client[b].ws
           /\ c \in Clients => client'[c].ws = ws
BY DEF PInv, TypeOK, ClientRec

\* The steps of a poll between its first look at the service and its end.
LEMMA PollHolds ==
    ASSUME PInv, NEW p \in Polls, po[p].pc \notin {"idle", "check"}
    PROVE  po[p] \in PollRec /\ po[p].client \in Clients /\ client[po[p].client].id \in Ids
BY DEF PInv, TypeOK, Built, PollBuilt

LEMMA PollCheckPInv == ASSUME PInv, NEW p \in Polls, PollCheck(p) PROVE PInv'
<1> DEFINE c == object[po[p].inst].service
           r == [po[p] EXCEPT !.pc = "disconnect", !.inst = NoObject, !.client = c]
<1>1. UNCHANGED <<phase, instances, object, client, handler, connects, rebuilds, del, lo,
                  gone, rows, registered, linked, paired, announced,
                  stray, loose, spoiled>>
    BY DEF PollCheck, memory, world, lapses
<1>2. po[p] \in PollRec /\ po[p].inst \in Objects /\ object[po[p].inst].id \in Ids
    BY DEF PollCheck, PInv, TypeOK, Built, PollBuilt
<1>3. c \in Clients /\ client[c].id \in Ids
    BY <1>2, Held
<1>4. KeepsIds
    BY <1>1 DEF KeepsIds
<1>5. r \in PollRec /\ r.pc = "disconnect" /\ r.client = c
    BY <1>2, <1>3 DEF PollRec, PollPC
<1>6. po' = [po EXCEPT ![p] = NoPoll] \/ po' = [po EXCEPT ![p] = r]
    BY DEF PollCheck
<1>7. po' \in [Polls -> PollRec] /\ PollBuilt'
    <2>1. CASE po' = [po EXCEPT ![p] = NoPoll]
        BY <1>4, <2>1, NullTypes, PollUpdate DEF NoPoll
    <2>2. CASE po' = [po EXCEPT ![p] = r]
        <3> HIDE DEF c, r
        <3> QED BY <1>3, <1>4, <1>5, <2>2, PollUpdate
    <2> QED BY <1>6, <2>1, <2>2
<1>8. TypeOK'
    BY <1>1, <1>7 DEF PInv, TypeOK
<1> QED BY <1>1, <1>4, <1>7, <1>8, PointerFrame, ServiceFrame, ClientFrame DEF PInv, Built

LEMMA PollDisconnectPInv == ASSUME PInv, NEW p \in Polls, PollDisconnect(p) PROVE PInv'
<1> DEFINE r == [po[p] EXCEPT !.pc = IF po[p].pair THEN "connect" ELSE "channel"]
<1>1. UNCHANGED <<phase, instances, object, handler, connects, rebuilds, del, lo, gone, rows,
                  registered, linked, paired, announced,
                  stray, loose, spoiled>>
    BY DEF PollDisconnect, world, lapses
<1>2. po[p] \in PollRec /\ po[p].client \in Clients /\ client[po[p].client].id \in Ids
    BY PollHolds DEF PollDisconnect
<1>3. /\ client' \in [Clients -> ClientRec]
      /\ \A b \in Clients : client'[b].id = client[b].id /\ client'[b].ws \in {"off", client[b].ws}
    BY SocketUpdate DEF PollDisconnect
<1>4. KeepsIds
    BY <1>1, <1>3 DEF KeepsIds
<1>5. r \in PollRec /\ r.pc \notin {"idle", "check"} /\ r.client = po[p].client
    BY <1>2 DEF PollRec, PollPC
<1>6. po' = [po EXCEPT ![p] = r]
    BY DEF PollDisconnect, PInv, TypeOK
<1>7. po' \in [Polls -> PollRec] /\ PollBuilt'
    <2> HIDE DEF r
    <2> QED BY <1>2, <1>4, <1>5, <1>6, PollUpdate
<1>8. TypeOK'
    BY <1>1, <1>3, <1>7 DEF PInv, TypeOK
<1> QED BY <1>1, <1>3, <1>4, <1>7, <1>8, PointerFrame, ServiceFrame, ClientFrame DEF PInv, Built

LEMMA PollChannelPInv == ASSUME PInv, NEW p \in Polls, PollChannel(p) PROVE PInv'
<1> DEFINE r == [po[p] EXCEPT !.pc = "wait"]
           c == po[p].client
<1>1. UNCHANGED <<phase, instances, object, client, handler, rebuilds, del, lo, gone, rows,
                  registered, linked, paired, announced,
                  stray, loose, spoiled>>
    BY DEF PollChannel, world, lapses
<1>2. po[p] \in PollRec /\ c \in Clients /\ client[c].id \in Ids
    BY PollHolds DEF PollChannel
<1>3. KeepsIds
    BY <1>1 DEF KeepsIds
<1>4. r \in PollRec /\ r.pc = "wait" /\ r.client = c
    BY <1>2 DEF PollRec, PollPC
<1>5. po' = [po EXCEPT ![p] = NoPoll] \/ po' = [po EXCEPT ![p] = r]
    BY DEF PollChannel, PInv, TypeOK
<1>6. po' \in [Polls -> PollRec] /\ PollBuilt'
    <2>1. CASE po' = [po EXCEPT ![p] = NoPoll]
        BY <1>3, <2>1, NullTypes, PollUpdate DEF NoPoll
    <2>2. CASE po' = [po EXCEPT ![p] = r]
        <3> HIDE DEF c, r
        <3> QED BY <1>2, <1>3, <1>4, <2>2, PollUpdate
    <2> QED BY <1>5, <2>1, <2>2
<1>7. /\ connects' \in [Clients -> 0..MaxConnects]
      /\ \A b \in Clients : b # c => connects'[b] = connects[b]
    <2>1. /\ connects \in [Clients -> 0..MaxConnects] /\ MaxConnects \in Nat
          /\ \/ connects' = connects
             \/ connects[c] < MaxConnects /\ connects' = [connects EXCEPT ![c] = @ + 1]
        BY SwitchAssumption DEF PollChannel, PInv, TypeOK
    <2> HIDE DEF c
    <2> QED BY <1>2, <2>1
<1>8. TypeOK'
    BY <1>1, <1>6, <1>7 DEF PInv, TypeOK
<1>9. ClientBuilt' /\ EventBuilt'
    BY <1>1, <1>2, <1>7 DEF PInv, Built, ClientBuilt, EventBuilt
<1> QED BY <1>1, <1>3, <1>6, <1>8, <1>9, PointerFrame, ServiceFrame DEF PInv, Built

\* An attempt to connect concerns one client.
LEMMA ConnectedFrame ==
    ASSUME PInv, NEW c \in Clients, Connected(c)
    PROVE  /\ client' \in [Clients -> ClientRec]
           /\ \A b \in Clients : /\ client'[b].id = client[b].id
                                 /\ b # c => client'[b].ws = client[b].ws
<1>1. CASE client' = client
    BY <1>1 DEF PInv, TypeOK
<1>2. CASE client' = [client EXCEPT ![c].ws = "on"]
    BY <1>2, SocketUpdate
<1> QED BY <1>1, <1>2 DEF Connected

LEMMA PollConnectPInv == ASSUME PInv, NEW p \in Polls, PollConnect(p) PROVE PInv'
<1> DEFINE c == po[p].client
<1>1. UNCHANGED <<phase, instances, object, handler, connects, rebuilds, del, lo, gone, rows,
                  registered, linked, paired, announced,
                  stray, loose, spoiled>>
    BY DEF PollConnect, world, lapses
<1>2. c \in Clients /\ client[c].id \in Ids
    BY PollHolds DEF PollConnect
<1>3. /\ client' \in [Clients -> ClientRec]
      /\ \A b \in Clients : /\ client'[b].id = client[b].id
                            /\ b # c => client'[b].ws = client[b].ws
    BY <1>2, ConnectedFrame DEF PollConnect
<1>4. KeepsIds
    BY <1>1, <1>3 DEF KeepsIds
<1>5. po' \in [Polls -> PollRec] /\ PollBuilt'
    BY <1>4, NullTypes, PollUpdate DEF PollConnect, NoPoll
<1>6. TypeOK'
    BY <1>1, <1>3, <1>5 DEF PInv, TypeOK
<1> QED BY <1>1, <1>2, <1>3, <1>4, <1>5, <1>6, PointerFrame, ServiceFrame, ClientFrame DEF PInv, Built

\* A poll touches its own progress, the client it has hold of and what is
\* pending for it.
LEMMA PollFrame ==
    ASSUME NEW p \in Polls, PollStep(p) \/ \E id \in Ids : PollBegin(p, id)
    PROVE  UNCHANGED <<phase, instances, object, handler, rebuilds, del, lo, gone, rows,
                       registered, linked, paired, announced, stray, loose, spoiled>>
BY DEF PollStep, PollBegin, PollCheck, PollDisconnect, PollChannel, PollConnect, PollEnd,
       memory, world, lapses

LEMMA PollEndPInv == ASSUME PInv, NEW p \in Polls, PollEnd(p) PROVE PInv'
<1>1. UNCHANGED <<phase, instances, object, handler, connects, rebuilds, del, lo, gone, rows,
                  registered, linked, paired, announced,
                  stray, loose, spoiled>>
    BY DEF PollEnd, world, lapses
<1>2. /\ client' \in [Clients -> ClientRec]
      /\ \A b \in Clients : client'[b].id = client[b].id /\ client'[b].ws \in {"off", client[b].ws}
    <2>1. CASE client' = client
        BY <2>1 DEF PInv, TypeOK
    <2>2. CASE client' = [client EXCEPT ![po[p].client].ws = "off"]
        BY <2>2, SocketUpdate
    <2> QED BY <2>1, <2>2 DEF PollEnd
<1>3. KeepsIds
    BY <1>1, <1>2 DEF KeepsIds
<1>4. po' \in [Polls -> PollRec] /\ PollBuilt'
    BY <1>3, NullTypes, PollUpdate DEF PollEnd, NoPoll
<1>5. TypeOK'
    BY <1>1, <1>2, <1>4 DEF PInv, TypeOK
<1> QED BY <1>1, <1>2, <1>3, <1>4, <1>5, PointerFrame, ServiceFrame, ClientFrame DEF PInv, Built

LEMMA ConnectPInv == ASSUME PInv, NEW c \in Clients, Connect(c) PROVE PInv'
<1>1. UNCHANGED <<phase, instances, object, handler, rebuilds, del, lo, po, gone, rows,
                  registered, linked, paired, announced,
                  stray, loose, spoiled>>
    BY DEF Connect, request, world, lapses
<1>2. /\ client' \in [Clients -> ClientRec]
      /\ \A b \in Clients : /\ client'[b].id = client[b].id
                            /\ b # c => client'[b].ws = client[b].ws
    BY ConnectedFrame DEF Connect
<1>3. KeepsIds
    BY <1>1, <1>2 DEF KeepsIds
<1>4. client[c].id \in Ids
    BY DEF Connect, PInv, Built, ClientBuilt
<1>5. /\ connects' \in [Clients -> 0..MaxConnects]
      /\ \A b \in Clients : b # c => connects'[b] = connects[b]
    BY SwitchAssumption DEF Connect, PInv, TypeOK
<1>6. TypeOK'
    BY <1>1, <1>2, <1>5 DEF PInv, TypeOK
<1>7. ClientBuilt' /\ EventBuilt'
    BY <1>1, <1>2, <1>4, <1>5 DEF PInv, Built, ClientBuilt, EventBuilt
<1> QED BY <1>1, <1>3, <1>6, <1>7, PointerFrame, ServiceFrame DEF PInv, Built

LEMMA ConnectionPInv ==
    ASSUME PInv, NEW c \in Clients, ConnectionLost(c) \/ AutoReconnect(c) PROVE PInv'
<1>1. UNCHANGED <<phase, instances, object, handler, connects, rebuilds, del, lo, po, gone,
                  rows, registered, linked, paired, announced,
                  stray, loose, spoiled>>
    BY DEF ConnectionLost, AutoReconnect, request, world, lapses
<1>2. client[c].ws # "off" /\ client[c].id \in Ids
    BY DEF ConnectionLost, AutoReconnect, PInv, Built, ClientBuilt
<1>3. PICK ws \in {"off", "lost", "on"} : client' = [client EXCEPT ![c].ws = ws]
    BY DEF ConnectionLost, AutoReconnect
<1>4. /\ client' \in [Clients -> ClientRec]
      /\ \A b \in Clients : /\ client'[b].id = client[b].id
                            /\ b # c => client'[b].ws = client[b].ws
    BY <1>3, SocketUpdate
<1>5. KeepsIds
    BY <1>1, <1>4 DEF KeepsIds
<1>6. TypeOK'
    BY <1>1, <1>4 DEF PInv, TypeOK
<1> QED BY <1>1, <1>2, <1>4, <1>5, <1>6, PointerFrame, ServiceFrame, ClientFrame DEF PInv, Built

\* WhatsApp and the event handlers.
LEMMA PairPInv == ASSUME PInv, NEW c \in Clients, Pair(c) PROVE PInv'
<1>1. UNCHANGED <<phase, instances, object, connects, rebuilds, del, lo, po, gone, rows,
                  announced,
                  stray, loose, spoiled>>
    BY DEF Pair, request, lapses
<1>2. PICK device \in Devices :
        /\ client' = [client EXCEPT ![c].jid = device]
        /\ handler' = [handler EXCEPT ![c] = [pc |-> "paired", device |-> device]]
        /\ registered' = registered \cup {device}
        /\ linked' = linked \cup {device}
        /\ paired' = paired \cup {device}
    BY DEF Pair
<1>3. /\ client' \in [Clients -> ClientRec]
      /\ \A b \in Clients : client'[b].id = client[b].id /\ client'[b].ws = client[b].ws
    BY <1>2 DEF PInv, TypeOK, ClientRec, AnyDevice
<1>4. KeepsIds
    BY <1>1, <1>3 DEF KeepsIds
<1>5. [pc |-> "paired", device |-> device] \in EventRec
    BY DEF EventRec, AnyDevice
<1>6. handler' \in [Clients -> EventRec]
    BY <1>2, <1>5 DEF PInv, TypeOK
<1>7. TypeOK'
    BY <1>1, <1>2, <1>3, <1>6 DEF PInv, TypeOK
<1>8. client[c].id \in Ids
    BY DEF Pair, PInv, Built, ClientBuilt
<1>9. \A b \in Clients : b # c => handler'[b] = handler[b]
    BY <1>2 DEF PInv, TypeOK
<1>10. handler'[c] = [pc |-> "paired", device |-> device]
    BY <1>2 DEF PInv, TypeOK
<1>11. ClientBuilt' /\ EventBuilt'
    BY <1>1, <1>3, <1>8, <1>9, <1>10 DEF PInv, Built, ClientBuilt, EventBuilt
<1> QED BY <1>1, <1>3, <1>4, <1>7, <1>11, PointerFrame, ServiceFrame DEF PInv, Built

LEMMA ServerLogoutPInv == ASSUME PInv, NEW c \in Clients, ServerLogout(c) PROVE PInv'
<1> DEFINE r == [pc |-> "row", device |-> client[c].jid]
<1>1. UNCHANGED <<phase, instances, object, connects, rebuilds, del, lo, po, gone, rows,
                  linked, paired, announced, loose, spoiled>>
    BY DEF ServerLogout, request, world, lapses
<1>2. /\ client' \in [Clients -> ClientRec]
      /\ registered' \subseteq Devices /\ stray' \subseteq Devices
      /\ \A b \in Clients : /\ client'[b].id = client[b].id
                            /\ client'[b].ws = "off" \/ client'[b].ws = client[b].ws
    BY DeleteDeviceFrame DEF ServerLogout, DeleteDevice
<1>3. KeepsIds
    BY <1>1, <1>2 DEF KeepsIds
<1>4. client[c].jid \in Devices
    BY DEF ServerLogout, IsLoggedIn, PInv, TypeOK, ClientRec, AnyDevice
<1>5. client[c].id \in Ids
    BY DEF ServerLogout, IsLoggedIn, PInv, Built, ClientBuilt
<1>6. r \in EventRec
    BY <1>4 DEF EventRec, AnyDevice
<1>7. /\ handler' \in [Clients -> EventRec]
      /\ handler'[c] = r
      /\ \A b \in Clients : b # c => handler'[b] = handler[b]
    BY <1>6 DEF ServerLogout, PInv, TypeOK
<1>8. TypeOK'
    BY <1>1, <1>2, <1>7 DEF PInv, TypeOK
<1>9. ClientBuilt' /\ EventBuilt'
    BY <1>1, <1>2, <1>4, <1>5, <1>7 DEF PInv, Built, ClientBuilt, EventBuilt
<1> QED BY <1>1, <1>2, <1>3, <1>8, <1>9, PointerFrame, ServiceFrame DEF PInv, Built

\* A handler that goes on with its event, or ends.
LEMMA HandlerUpdate ==
    ASSUME PInv, NEW c \in Clients, NEW r \in EventRec, handler[c].pc # "idle",
           r.pc # "idle" => r.device = handler[c].device,
           handler' = [handler EXCEPT ![c] = r],
           UNCHANGED <<client, connects>>
    PROVE  handler' \in [Clients -> EventRec] /\ ClientBuilt' /\ EventBuilt'
<1>1. handler \in [Clients -> EventRec] /\ ClientBuilt /\ EventBuilt
    BY DEF PInv, TypeOK, Built
<1>2. /\ handler' \in [Clients -> EventRec]
      /\ handler'[c] = r
      /\ \A b \in Clients : b # c => handler'[b] = handler[b]
    BY <1>1
<1> QED BY <1>1, <1>2 DEF ClientBuilt, EventBuilt

LEMMA PairSuccessPInv == ASSUME PInv, NEW c \in Clients, PairSuccess(c) PROVE PInv'
<1>1. UNCHANGED <<phase, instances, object, client, connects, rebuilds, del, lo, po, gone,
                  registered, linked, paired, announced,
                  stray, loose, spoiled>>
    BY DEF PairSuccess, request, world, lapses
<1>2. KeepsIds
    BY <1>1 DEF KeepsIds
<1>3. client[c].id \in Ids /\ handler[c].device \in AnyDevice
    BY DEF PairSuccess, PInv, TypeOK, Built, ClientBuilt, EventRec
<1>4. rows' \in [Ids -> Row \cup {NoRow}]
    BY <1>3, DeviceStateTypes DEF PairSuccess
<1>5. handler' \in [Clients -> EventRec] /\ ClientBuilt' /\ EventBuilt'
    BY <1>1, NullTypes, HandlerUpdate DEF PairSuccess, NoEvent
<1>6. TypeOK'
    BY <1>1, <1>4, <1>5 DEF PInv, TypeOK
<1> QED BY <1>1, <1>2, <1>5, <1>6, PointerFrame, ServiceFrame DEF PInv, Built

LEMMA LoggedOutRowPInv == ASSUME PInv, NEW c \in Clients, LoggedOutRow(c) PROVE PInv'
<1> DEFINE r == [handler[c] EXCEPT !.pc = "publish"]
<1>1. UNCHANGED <<phase, instances, object, client, connects, rebuilds, del, lo, po, gone,
                  registered, linked, paired, announced,
                  stray, loose, spoiled>>
    BY DEF LoggedOutRow, request, world, lapses
<1>2. KeepsIds
    BY <1>1 DEF KeepsIds
<1>3. client[c].id \in Ids
    BY DEF LoggedOutRow, PInv, Built, ClientBuilt
<1>4. rows' \in [Ids -> Row \cup {NoRow}]
    BY <1>3, DeviceStateTypes DEF LoggedOutRow, AnyDevice
<1>5. r \in EventRec /\ r.device = handler[c].device
    BY DEF EventRec, PInv, TypeOK
<1>6. handler' = [handler EXCEPT ![c] = r] /\ handler[c].pc # "idle"
    BY DEF LoggedOutRow, PInv, TypeOK
<1>7. handler' \in [Clients -> EventRec] /\ ClientBuilt' /\ EventBuilt'
    <2> HIDE DEF r
    <2> QED BY <1>1, <1>5, <1>6, HandlerUpdate
<1>8. TypeOK'
    BY <1>1, <1>4, <1>7 DEF PInv, TypeOK
<1> QED BY <1>1, <1>2, <1>7, <1>8, PointerFrame, ServiceFrame DEF PInv, Built

LEMMA LoggedOutPublishPInv == ASSUME PInv, NEW c \in Clients, LoggedOutPublish(c) PROVE PInv'
<1>1. UNCHANGED <<phase, instances, object, client, connects, del, lo, po, gone, rows,
                  registered, linked, paired,
                  stray, loose, spoiled>>
    BY DEF LoggedOutPublish, request, lapses
<1>2. KeepsIds
    BY <1>1 DEF KeepsIds
<1>3. handler[c].device \in Devices
    BY DEF LoggedOutPublish, PInv, Built, EventBuilt
<1>4. handler' \in [Clients -> EventRec] /\ ClientBuilt' /\ EventBuilt'
    BY <1>1, NullTypes, HandlerUpdate DEF LoggedOutPublish, NoEvent
<1>5. rebuilds' \in [Ids -> 0..MaxRebuilds]
    <2> DEFINE id == client[c].id
    <2>1. id \in Ids /\ rebuilds \in [Ids -> 0..MaxRebuilds]
        BY DEF LoggedOutPublish, PInv, TypeOK, Built, ClientBuilt
    <2>2. rebuilds[id] < MaxRebuilds /\ rebuilds' = [rebuilds EXCEPT ![id] = @ + 1]
        BY DEF LoggedOutPublish
    <2> HIDE DEF id
    <2>3. rebuilds[id] + 1 \in 0..MaxRebuilds
        BY <2>1, <2>2, SwitchAssumption
    <2> QED BY <2>1, <2>2, <2>3
<1>6. TypeOK'
    BY <1>1, <1>3, <1>4, <1>5 DEF LoggedOutPublish, PInv, TypeOK
<1> QED BY <1>1, <1>2, <1>4, <1>6, PointerFrame, ServiceFrame DEF PInv, Built

LEMMA PhoneUnlinksPInv == ASSUME PInv, NEW device \in Devices, PhoneUnlinks(device) PROVE PInv'
<1>1. UNCHANGED <<phase, instances, object, client, handler, connects, rebuilds, del, lo, po,
                  gone, rows, registered, paired, announced,
                  stray, loose, spoiled>>
    BY DEF PhoneUnlinks, memory, request, lapses
<1>2. KeepsIds
    BY <1>1 DEF KeepsIds
<1>3. TypeOK'
    BY <1>1 DEF PhoneUnlinks, PInv, TypeOK
<1> QED BY <1>1, <1>2, <1>3, PointerFrame, ServiceFrame, ClientFrame DEF PInv, Built

\* Administration.
LEMMA CreateInstancePInv ==
    ASSUME PInv, NEW id \in Ids, NEW cfg \in Configs, CreateInstance(id, cfg) PROVE PInv'
<1>1. UNCHANGED <<phase, handler, connects, rebuilds, del, lo, po, gone, registered,
                  linked, paired, announced,
                  stray, loose, spoiled>>
    BY DEF CreateInstance, request, world, lapses
<1>2. PICK o \in NewObjects, c \in NewClients :
        /\ client' = [client EXCEPT ![c] = NewClient(id, NoDevice, cfg, FALSE)]
        /\ object' = [object EXCEPT ![o] = BuiltInstance(id, c, cfg)]
        /\ instances' = [instances EXCEPT ![id] = o]
    BY DEF CreateInstance
<1>3. /\ o \in Objects /\ object[o].id = NoId /\ c \in Clients /\ client[c].id = NoId
      /\ object \in [Objects -> InstanceRec] /\ client \in [Clients -> ClientRec]
    BY DEF NewObjects, NewClients, PInv, TypeOK
<1> DEFINE r == NewClient(id, NoDevice, cfg, FALSE)
           s == BuiltInstance(id, c, cfg)
<1>4. r \in ClientRec /\ r.id = id
    BY NewClientType DEF AnyDevice
<1>5. s \in InstanceRec /\ s.id = id /\ s.service = c
    BY <1>3, BuiltInstanceType
<1> HIDE DEF r, s
<1>6. /\ client' \in [Clients -> ClientRec] /\ client'[c] = r
      /\ \A b \in Clients : b # c => client'[b] = client[b]
    BY <1>2, <1>3, <1>4 DEF r
<1>7. /\ object' \in [Objects -> InstanceRec] /\ object'[o] = s
      /\ \A q \in Objects : q # o => object'[q] = object[q]
    BY <1>2, <1>3, <1>5 DEF s
<1>8. KeepsIds
    BY <1>3, <1>6, <1>7 DEF KeepsIds
<1>9. rows' \in [Ids -> Row \cup {NoRow}]
    BY RowTypes DEF CreateInstance
<1>10. instances' \in [Ids -> Objects \cup {NoObject}] /\ MapBuilt'
    <2>1. /\ instances \in [Ids -> Objects \cup {NoObject}] /\ MapBuilt
        BY DEF PInv, TypeOK, Built
    <2>2. instances' \in [Ids -> Objects \cup {NoObject}]
        BY <1>2, <1>3, <2>1
    <2>3. \A i \in Ids : instances[i] # NoObject => instances[i] # o
        BY <1>3, <2>1, NullAssumption DEF MapBuilt
    <2> QED BY <1>2, <1>5, <1>7, <2>1, <2>2, <2>3 DEF MapBuilt
<1>11. TypeOK'
    BY <1>1, <1>6, <1>7, <1>9, <1>10 DEF PInv, TypeOK
<1>12. ServiceBuilt'
    <2>1. \A q \in Objects :
            \/ object'[q].id = object[q].id /\ object'[q].service = object[q].service
            \/ object'[q].service \in Clients /\ client'[object'[q].service].id = object'[q].id
        BY <1>3, <1>4, <1>5, <1>6, <1>7
    <2> QED BY <1>8, <2>1, ServiceFrame
<1>13. \A b \in Clients : client'[b].ws = "off" \/ client'[b].ws = client[b].ws
                          \/ client'[b].id \in Ids
    BY <1>4, <1>6
<1> QED BY <1>1, <1>8, <1>10, <1>11, <1>12, <1>13, PointerFrame, ClientFrame DEF PInv, Built

LEMMA UpdateInstanceConfigPInv ==
    ASSUME PInv, NEW id \in Ids, NEW cfg \in Configs, UpdateInstanceConfig(id, cfg) PROVE PInv'
<1> DEFINE o == Lookup(id)
           s == [object[o] EXCEPT !.config = cfg]
<1>1. UNCHANGED <<phase, instances, client, handler, connects, rebuilds, del, lo, po, gone,
                  registered, linked, paired, announced,
                  stray, loose, spoiled>>
    BY DEF UpdateInstanceConfig, request, world, lapses
<1>2. o \in Objects
    BY LookupFinds DEF UpdateInstanceConfig
<1>3. s \in InstanceRec /\ s.id = object[o].id /\ s.service = object[o].service
    BY <1>2 DEF PInv, TypeOK, InstanceRec
<1>4. object' = [object EXCEPT ![o] = s]
    BY DEF UpdateInstanceConfig
<1>5. /\ object' \in [Objects -> InstanceRec]
      /\ \A q \in Objects : object'[q].id = object[q].id /\ object'[q].service = object[q].service
    <2> HIDE DEF s, o
    <2> QED BY <1>2, <1>3, <1>4, MarkUpdate
<1>6. KeepsIds
    BY <1>1, <1>5 DEF KeepsIds
<1>7. rows' \in [Ids -> Row \cup {NoRow}]
    BY RowTypes DEF UpdateInstanceConfig, PInv, TypeOK
<1>8. TypeOK'
    BY <1>1, <1>5, <1>7 DEF PInv, TypeOK
<1> QED BY <1>1, <1>5, <1>6, <1>8, PointerFrame, ServiceFrame, ClientFrame DEF PInv, Built

LEMMA RestartInstancePInv == ASSUME PInv, NEW id \in Ids, RestartInstance(id) PROVE PInv'
<1> DEFINE o   == Lookup(id)
           old == object[o].service
           cfg == object[o].config
           found == Found(client[old].jid)
<1>1. UNCHANGED <<phase, handler, connects, rebuilds, del, lo, po, gone, rows, registered,
                  linked, paired, announced, spoiled>>
    BY DEF RestartInstance, request
<1>2. PICK n \in NewObjects, c \in NewClients, jid \in found, up \in BOOLEAN :
        /\ client' = [Disconnect(client, old) EXCEPT ![c] = NewClient(id, jid, cfg, up)]
        /\ object' = [object EXCEPT ![o].dedup = FALSE, ![n] = BuiltInstance(id, c, cfg)]
        /\ instances' = [instances EXCEPT ![id] = n]
    BY DEF RestartInstance
<1>3. /\ n \in Objects /\ object[n].id = NoId /\ c \in Clients
      /\ object \in [Objects -> InstanceRec] /\ client \in [Clients -> ClientRec]
    BY DEF NewObjects, NewClients, PInv, TypeOK
<1>4. o \in Objects /\ object[o].id = id
    BY LookupFinds DEF RestartInstance
<1>5. o # n /\ cfg \in Configs /\ jid \in AnyDevice
    BY <1>3, <1>4, Held, NullAssumption DEF InstanceRec, Found, AnyDevice
<1> DEFINE r == NewClient(id, jid, cfg, up)
           s == BuiltInstance(id, c, cfg)
           t == [object[o] EXCEPT !.dedup = FALSE]
<1>6. r \in ClientRec /\ r.id = id
    BY <1>5, NewClientType
<1>7. s \in InstanceRec /\ s.id = id /\ s.service = c
    BY <1>3, <1>5, BuiltInstanceType
<1>8. t \in InstanceRec /\ t.id = object[o].id /\ t.service = object[o].service
    BY <1>3, <1>4 DEF InstanceRec
<1>9. object' = [[object EXCEPT ![o] = t] EXCEPT ![n] = s]
    BY <1>2, <1>3
<1>10. client' = [Disconnect(client, old) EXCEPT ![c] = r]
    BY <1>2
<1>17. stray' \subseteq Devices /\ loose' \subseteq Clients
    BY <1>4, Held DEF RestartInstance, LetGo, PInv, TypeOK
<1> HIDE DEF r, s, t, o, old, cfg, found
<1>11. /\ client' \in [Clients -> ClientRec] /\ client'[c] = r
       /\ \A b \in Clients : client[b].id # NoId => client'[b].id = client[b].id
       /\ \A b \in Clients : \/ client'[b].ws = "off" \/ client'[b].ws = client[b].ws
                             \/ client'[b].id \in Ids
    BY <1>6, <1>10, ReplaceFrame
<1>12. /\ object' \in [Objects -> InstanceRec] /\ object'[n] = s /\ object'[o] = t
       /\ \A q \in Objects : q # n /\ q # o => object'[q] = object[q]
    BY <1>3, <1>4, <1>5, <1>7, <1>8, <1>9
<1>13. KeepsIds
    BY <1>3, <1>8, <1>11, <1>12 DEF KeepsIds
<1>14. instances' \in [Ids -> Objects \cup {NoObject}] /\ MapBuilt'
    <2>1. /\ instances \in [Ids -> Objects \cup {NoObject}] /\ MapBuilt
        BY DEF PInv, TypeOK, Built
    <2>2. instances' \in [Ids -> Objects \cup {NoObject}]
        BY <1>2, <1>3, <2>1
    <2>3. \A i \in Ids : instances[i] # NoObject =>
            instances[i] # n /\ object'[instances[i]].id = object[instances[i]].id
        BY <1>3, <1>8, <1>12, <2>1, NullAssumption DEF MapBuilt
    <2> QED BY <1>2, <1>7, <1>12, <2>1, <2>2, <2>3 DEF MapBuilt
<1>15. TypeOK'
    BY <1>1, <1>11, <1>12, <1>14, <1>17 DEF PInv, TypeOK
<1>16. ServiceBuilt'
    <2>1. \A q \in Objects :
            \/ object'[q].id = object[q].id /\ object'[q].service = object[q].service
            \/ object'[q].service \in Clients /\ client'[object'[q].service].id = object'[q].id
        BY <1>3, <1>6, <1>7, <1>8, <1>11, <1>12
    <2> QED BY <1>13, <2>1, ServiceFrame
<1> QED BY <1>1, <1>11, <1>13, <1>14, <1>15, <1>16, PointerFrame, ClientFrame DEF PInv, Built

\* The process.
LEMMA ProvisionFrame ==
    ASSUME NEW ids \in SUBSET Ids, NEW objectOf \in Injections(ids, Objects),
           NEW clientOf \in Injections(ids, Clients), NEW device \in [ids -> AnyDevice],
           NEW cfg \in [ids -> Configs], NEW up \in SUBSET ids,
           Provision(ids, objectOf, clientOf, device, cfg, up)
    PROVE  /\ instances' \in [Ids -> Objects \cup {NoObject}]
           /\ object' \in [Objects -> InstanceRec] /\ client' \in [Clients -> ClientRec]
           /\ MapBuilt' /\ ServiceBuilt'
           /\ \A c \in Clients : client'[c].ws # "off" => client'[c].id \in Ids
           /\ \A o \in Objects : object'[o].deleting = FALSE
<1>1. /\ objectOf \in [ids -> Objects] /\ \A i, j \in ids : objectOf[i] = objectOf[j] => i = j
      /\ clientOf \in [ids -> Clients] /\ \A i, j \in ids : clientOf[i] = clientOf[j] => i = j
    BY DEF Injections
<1> DEFINE struct(o) == IF \E id \in ids : objectOf[id] = o
                        THEN LET id == CHOOSE id \in ids : objectOf[id] = o
                             IN  BuiltInstance(id, clientOf[id], cfg[id])
                        ELSE FreeObject
           conn(c) == IF \E id \in ids : clientOf[id] = c
                      THEN LET id == CHOOSE id \in ids : clientOf[id] = c
                           IN  NewClient(id, device[id], cfg[id], id \in up)
                      ELSE FreeClient
<1>2. /\ instances' = [id \in Ids |-> IF id \in ids THEN objectOf[id] ELSE NoObject]
      /\ object' = [o \in Objects |-> struct(o)]
      /\ client' = [c \in Clients |-> conn(c)]
    BY DEF Provision
<1>3. ASSUME NEW id \in ids
      PROVE  struct(objectOf[id]) = BuiltInstance(id, clientOf[id], cfg[id])
    <2>1. id = CHOOSE i \in ids : objectOf[i] = objectOf[id]
        BY <1>1
    <2> QED BY <2>1
<1>4. ASSUME NEW id \in ids
      PROVE  conn(clientOf[id]) = NewClient(id, device[id], cfg[id], id \in up)
    <2>1. id = CHOOSE i \in ids : clientOf[i] = clientOf[id]
        BY <1>1
    <2> QED BY <2>1
<1>5. ASSUME NEW o \in Objects, \A id \in ids : objectOf[id] # o PROVE struct(o) = FreeObject
    BY <1>5
<1>6. ASSUME NEW c \in Clients, \A id \in ids : clientOf[id] # c PROVE conn(c) = FreeClient
    BY <1>6
<1> HIDE DEF struct, conn
<1>7. \A o \in Objects : struct(o) \in InstanceRec /\ struct(o).deleting = FALSE
    <2>1. SUFFICES ASSUME NEW o \in Objects
                   PROVE  struct(o) \in InstanceRec /\ struct(o).deleting = FALSE
        OBVIOUS
    <2>2. CASE \A id \in ids : objectOf[id] # o
        <3>1. struct(o) = FreeObject
            BY <1>5, <2>2
        <3>2. FreeObject.deleting = FALSE
            BY DEF FreeObject
        <3> QED BY <3>1, <3>2, NullTypes
    <2>3. ASSUME NEW id \in ids, objectOf[id] = o
          PROVE  struct(o) \in InstanceRec /\ struct(o).deleting = FALSE
        BY <1>1, <1>3, <2>3, BuiltInstanceType DEF BuiltInstance
    <2> QED BY <2>2, <2>3
<1>8. \A c \in Clients : conn(c) \in ClientRec /\ (conn(c).ws # "off" => conn(c).id \in Ids)
    <2>1. SUFFICES ASSUME NEW c \in Clients
                   PROVE  conn(c) \in ClientRec /\ (conn(c).ws # "off" => conn(c).id \in Ids)
        OBVIOUS
    <2>2. CASE \A id \in ids : clientOf[id] # c
        <3>1. conn(c) = FreeClient
            BY <1>6, <2>2
        <3>2. FreeClient.ws = "off"
            BY DEF FreeClient
        <3> QED BY <3>1, <3>2, NullTypes
    <2>3. ASSUME NEW id \in ids, clientOf[id] = c
          PROVE  conn(c) \in ClientRec /\ conn(c).id \in Ids
        <3>1. device[id] \in AnyDevice /\ cfg[id] \in Configs /\ (id \in up) \in BOOLEAN
            OBVIOUS
        <3>2. conn(c) = NewClient(id, device[id], cfg[id], id \in up)
            BY <1>4, <2>3
        <3>3. NewClient(id, device[id], cfg[id], id \in up) \in ClientRec
              /\ NewClient(id, device[id], cfg[id], id \in up).id = id
            BY <3>1, NewClientType
        <3> QED BY <3>2, <3>3
    <2> QED BY <2>2, <2>3
<1>9. /\ object' \in [Objects -> InstanceRec] /\ client' \in [Clients -> ClientRec]
      /\ instances' \in [Ids -> Objects \cup {NoObject}]
    BY <1>1, <1>2, <1>7, <1>8
<1>10. MapBuilt'
    BY <1>1, <1>2, <1>3 DEF MapBuilt, BuiltInstance
<1>11. ServiceBuilt'
    <2>1. SUFFICES ASSUME NEW o \in Objects, struct(o).id # NoId
                   PROVE  struct(o).service \in Clients
                          /\ conn(struct(o).service).id = struct(o).id
        BY <1>2 DEF ServiceBuilt
    <2>2. PICK id \in ids : objectOf[id] = o
        BY <1>5, <2>1 DEF FreeObject
    <2>3. struct(o) = BuiltInstance(id, clientOf[id], cfg[id])
        BY <1>3, <2>2
    <2>4. struct(o).id = id /\ struct(o).service = clientOf[id]
        BY <2>3 DEF BuiltInstance
    <2>5. conn(clientOf[id]) = NewClient(id, device[id], cfg[id], id \in up)
        BY <1>4
    <2>6. conn(clientOf[id]).id = id
        BY <2>5 DEF NewClient
    <2> QED BY <1>1, <2>4, <2>6
<1> QED BY <1>2, <1>7, <1>8, <1>9, <1>10, <1>11

\* A process that is down keeps nothing in memory and has no request.
Down ==
    phase = "down" =>
        /\ \A c \in Clients : client[c].ws = "off" /\ handler[c].pc = "idle"
        /\ \A c \in Clients : connects[c] = 0
        /\ \A id \in Ids : rebuilds[id] = 0 /\ instances[id] = NoObject
        /\ \A d \in Deletes : del[d].pc = "idle"
        /\ \A l \in Logouts : lo[l].pc = "idle"
        /\ \A p \in Polls : po[p].pc = "idle"

\* What a start of the process leaves alone.
LEMMA StartFrame ==
    ASSUME PInv, Down, phase = "down", phase' = "serving",
           UNCHANGED <<handler, connects, rebuilds, request, rows, registered,
                       linked, paired, announced, loose, spoiled>>,
           stray' \subseteq Devices,
           instances' \in [Ids -> Objects \cup {NoObject}],
           object' \in [Objects -> InstanceRec], client' \in [Clients -> ClientRec],
           MapBuilt', ServiceBuilt',
           \A c \in Clients : client'[c].ws # "off" => client'[c].id \in Ids
    PROVE  PInv'
<1>1. UNCHANGED <<handler, connects, rebuilds, del, lo, po, gone, rows, registered,
                  linked, paired, announced, loose, spoiled>>
    BY DEF request
<1>2. TypeOK'
    BY <1>1 DEF PInv, TypeOK
<1>3. ClientBuilt' /\ EventBuilt'
    BY <1>1 DEF Down, ClientBuilt, EventBuilt
<1>4. DeleteBuilt' /\ LogoutBuilt' /\ PollBuilt'
    BY <1>1 DEF Down, DeleteBuilt, LogoutBuilt, PollBuilt
<1> QED BY <1>2, <1>3, <1>4 DEF PInv, Built

\* Either start: what Provision is given, and what it makes of the memory.
LEMMA StartBuilds ==
    ASSUME PInv, RestoreInstances \/ EnsureSingleInstance
    PROVE  /\ instances' \in [Ids -> Objects \cup {NoObject}]
           /\ object' \in [Objects -> InstanceRec] /\ client' \in [Clients -> ClientRec]
           /\ MapBuilt' /\ ServiceBuilt' /\ stray' \subseteq Devices
           /\ \A c \in Clients : client'[c].ws # "off" => client'[c].id \in Ids
           /\ \A o \in Objects : object'[o].deleting = FALSE
<1>1. CASE RestoreInstances
    <2> DEFINE ids == {id \in Ids : rows[id] # NoRow}
               cfg == [id \in ids |-> rows[id].config]
    <2>1. PICK objectOf \in Injections(ids, Objects), clientOf \in Injections(ids, Clients),
               up \in SUBSET ids, device \in [ids -> AnyDevice] :
            Provision(ids, objectOf, clientOf, device, cfg, up)
        BY <1>1 DEF RestoreInstances
    <2>2. cfg \in [ids -> Configs] /\ ids \in SUBSET Ids
        BY DEF PInv, TypeOK, Row
    <2>3. stray' \subseteq Devices
        BY <1>1 DEF RestoreInstances, PInv, TypeOK
    <2> HIDE DEF ids, cfg
    <2> QED BY <2>1, <2>2, <2>3, ProvisionFrame
<1>2. CASE EnsureSingleInstance
    <2>1. \A named \in AnyDevice : Found(named) \subseteq AnyDevice
        BY DEF Found, AnyDevice
    <2>2. PICK objectOf \in Injections(Ids, Objects), clientOf \in Injections(Ids, Clients),
               named \in AnyDevice, up \in SUBSET Ids, cfg \in [Ids -> Configs] :
            \E device \in [Ids -> Found(named)] :
               Provision(Ids, objectOf, clientOf, device, cfg, up)
        BY <1>2 DEF EnsureSingleInstance, PInv, TypeOK, AnyDevice
    <2>3. [Ids -> Found(named)] \subseteq [Ids -> AnyDevice]
        BY <2>1
    <2>4. stray' \subseteq Devices
        BY <1>2 DEF EnsureSingleInstance, PInv, TypeOK
    <2> QED BY <2>2, <2>3, <2>4, ProvisionFrame
<1> QED BY <1>1, <1>2

LEMMA StartPInv == ASSUME PInv, Down, RestoreInstances \/ EnsureSingleInstance PROVE PInv'
<1>1. /\ phase = "down" /\ phase' = "serving"
      /\ UNCHANGED <<handler, connects, rebuilds, request, rows, registered,
                     linked, paired, announced, loose, spoiled>>
    BY DEF RestoreInstances, EnsureSingleInstance
<1> QED BY <1>1, StartBuilds, StartFrame

LEMMA ShutdownPInv == ASSUME PInv, Shutdown PROVE PInv'
<1> DEFINE mapped == {instances[id] : id \in Ids}
           struct(o) == IF o \in mapped THEN [object[o] EXCEPT !.dedup = FALSE] ELSE object[o]
           served == {object[o].service : o \in mapped \ {NoObject}}
           conn(c) == IF c \in served THEN Disconnect(client, c)[c] ELSE client[c]
<1>1. UNCHANGED <<handler, connects, rebuilds, del, lo, po, gone, rows, registered,
                  linked, paired, announced, stray, spoiled>>
    BY DEF Shutdown, request
<1>2. /\ client' = [c \in Clients |-> conn(c)] /\ object' = [o \in Objects |-> struct(o)]
      /\ instances' = [id \in Ids |-> NoObject] /\ phase' = "stopping"
    BY DEF Shutdown
<1>3. object \in [Objects -> InstanceRec] /\ client \in [Clients -> ClientRec]
    BY DEF PInv, TypeOK
<1>4. \A o \in Objects : struct(o) \in InstanceRec /\ struct(o).id = object[o].id
                         /\ struct(o).service = object[o].service
    BY <1>3 DEF InstanceRec
<1>5. \A c \in Clients : conn(c) \in ClientRec /\ conn(c).id = client[c].id
                         /\ conn(c).ws \in {"off", client[c].ws}
    BY <1>3, DisconnectFrame
<1>10. loose' \subseteq Clients
    <2>1. \A o \in mapped \ {NoObject} : object[o].service \in Clients
        <3>1. SUFFICES ASSUME NEW id \in Ids, instances[id] # NoObject
                       PROVE  object[instances[id]].service \in Clients
            OBVIOUS
        <3>2. instances[id] \in Objects /\ object[instances[id]].id \in Ids
            BY <3>1 DEF PInv, TypeOK, Built, MapBuilt
        <3> QED BY <3>2, Held
    <2> QED BY <2>1 DEF Shutdown, PInv, TypeOK
<1> HIDE DEF mapped, struct, conn
<1>6. TypeOK'
    BY <1>1, <1>2, <1>4, <1>5, <1>10 DEF PInv, TypeOK
<1>7. KeepsIds
    BY <1>2, <1>4, <1>5 DEF KeepsIds
<1>8. MapBuilt'
    BY <1>2 DEF MapBuilt
<1>9. /\ \A o \in Objects : object'[o].id = object[o].id /\ object'[o].service = object[o].service
      /\ \A c \in Clients : client'[c].ws = "off" \/ client'[c].ws = client[c].ws
    BY <1>2, <1>4, <1>5
<1> QED BY <1>1, <1>6, <1>7, <1>8, <1>9, PointerFrame, ServiceFrame, ClientFrame DEF PInv, Built

LEMMA ProcessEndsPInv == ASSUME PInv, ProcessEnds PROVE PInv'
<1>1. UNCHANGED <<rows, registered, linked, paired, stray>>
    BY DEF ProcessEnds
<1>2. TypeOK'
    BY <1>1, NullTypes, SwitchAssumption DEF PInv, TypeOK, ProcessEnds
<1>3. Built'
    BY NullAssumption
       DEF ProcessEnds, Built, MapBuilt, ServiceBuilt, ClientBuilt, EventBuilt, DeleteBuilt,
           LogoutBuilt, PollBuilt, FreeObject, FreeClient, NoEvent, NoDelete, NoLogout, NoPoll
<1> QED BY <1>2, <1>3 DEF PInv

LEMMA StutterPInv == ASSUME PInv, UNCHANGED vars PROVE PInv'
<1>1. UNCHANGED <<phase, instances, object, client, handler, connects, rebuilds, del, lo, po,
                  gone, rows, registered, linked, paired, announced,
                  stray, loose, spoiled>>
    BY DEF vars, memory, request, world, lapses
<1>2. TypeOK'
    BY <1>1 DEF PInv, TypeOK
<1>3. KeepsIds
    BY <1>1 DEF KeepsIds
<1> QED BY <1>1, <1>2, <1>3, PointerFrame, ServiceFrame, ClientFrame DEF PInv, Built

-----------------------------------------------------------------------------
(* Next, split into the starts and ends of the process and the rest. *)

\* The steps of a running process.
Running ==
    \/ Shutdown
    \/ \E id \in Ids : RestartInstance(id) \/ RebuildRuns(id)
    \/ \E id \in Ids, cfg \in Configs :
         CreateInstance(id, cfg) \/ UpdateInstanceConfig(id, cfg)
    \/ \E d \in Deletes : DeleteStep(d) \/ \E id \in Ids : DeleteBegin(d, id)
    \/ \E l \in Logouts : LogoutStep(l) \/ \E id \in Ids : LogoutBegin(l, id)
    \/ \E r \in Deletes \cup Logouts : CallerLeaves(r)
    \/ \E p \in Polls :
         PollStep(p) \/ \E id \in Ids : PollBegin(p, id)
    \/ \E c \in Clients :
         \/ Connect(c) \/ Pair(c) \/ HandlerStep(c) \/ ServerLogout(c)
         \/ ConnectionLost(c) \/ AutoReconnect(c)

LEMMA NextSplits ==
    Next => \/ RestoreInstances \/ EnsureSingleInstance \/ ProcessEnds \/ Running
            \/ \E device \in Devices : PhoneUnlinks(device)
BY DEF Next, Running

LEMMA RunningPInv == ASSUME PInv, Running PROVE PInv'
<1>1. CASE Shutdown
    BY <1>1, ShutdownPInv
<1>2. ASSUME NEW id \in Ids, RestartInstance(id) \/ RebuildRuns(id) PROVE PInv'
    BY <1>2, RestartInstancePInv, RebuildRunsPInv
<1>3. ASSUME NEW id \in Ids, NEW cfg \in Configs,
             CreateInstance(id, cfg) \/ UpdateInstanceConfig(id, cfg)
      PROVE  PInv'
    BY <1>3, CreateInstancePInv, UpdateInstanceConfigPInv
<1>4. ASSUME NEW d \in Deletes, DeleteStep(d) \/ \E id \in Ids : DeleteBegin(d, id)
      PROVE  PInv'
    BY <1>4, DeleteBeginPInv, DeleteCheckPInv, DeleteUnlinkPInv, DeleteReleasePInv,
       DeleteStorePInv, DeleteDropPInv, DeleteClearPInv DEF DeleteStep
<1>5. ASSUME NEW l \in Logouts, LogoutStep(l) \/ \E id \in Ids : LogoutBegin(l, id)
      PROVE  PInv'
    BY <1>5, LogoutBeginPInv, LogoutDevicePInv, LogoutRowPInv, LogoutPublishPInv,
       LogoutRebuildPInv DEF LogoutStep
<1>6. ASSUME NEW r \in Deletes \cup Logouts, CallerLeaves(r) PROVE PInv'
    BY <1>6, CallerLeavesPInv
<1>7. ASSUME NEW p \in Polls,
             PollStep(p) \/ \E id \in Ids : PollBegin(p, id)
      PROVE  PInv'
    BY <1>7, PollBeginPInv, PollCheckPInv, PollDisconnectPInv, PollChannelPInv,
       PollConnectPInv, PollEndPInv DEF PollStep
<1>8. ASSUME NEW c \in Clients,
             \/ Connect(c) \/ Pair(c) \/ HandlerStep(c) \/ ServerLogout(c)
             \/ ConnectionLost(c) \/ AutoReconnect(c)
      PROVE  PInv'
    BY <1>8, ConnectPInv, PairPInv, PairSuccessPInv, LoggedOutRowPInv, LoggedOutPublishPInv,
       ServerLogoutPInv, ConnectionPInv DEF HandlerStep
<1> QED BY <1>1, <1>2, <1>3, <1>4, <1>5, <1>6, <1>7, <1>8 DEF Running

\* A process that is down takes none of them, and none of them ends it.
LEMMA RunningIsUp == ASSUME PInv, Down, Running PROVE phase # "down" /\ phase' # "down"
<1>1. CASE Shutdown
    BY <1>1 DEF Shutdown
<1>2. ASSUME NEW id \in Ids, RestartInstance(id) \/ RebuildRuns(id)
      PROVE  phase # "down" /\ phase' # "down"
    BY <1>2 DEF RestartInstance, RebuildRuns, Down
<1>3. ASSUME NEW id \in Ids, NEW cfg \in Configs,
             CreateInstance(id, cfg) \/ UpdateInstanceConfig(id, cfg)
      PROVE  phase # "down" /\ phase' # "down"
    BY <1>3 DEF CreateInstance, UpdateInstanceConfig
<1>4. ASSUME NEW d \in Deletes, DeleteStep(d) \/ \E id \in Ids : DeleteBegin(d, id)
      PROVE  phase # "down" /\ phase' # "down"
    BY <1>4 DEF DeleteStep, DeleteBegin, DeleteCheck, DeleteUnlink, DeleteRelease, DeleteStore,
                DeleteDrop, DeleteClear, Down
<1>5. ASSUME NEW l \in Logouts, LogoutStep(l) \/ \E id \in Ids : LogoutBegin(l, id)
      PROVE  phase # "down" /\ phase' # "down"
    BY <1>5 DEF LogoutStep, LogoutBegin, LogoutDevice, LogoutRow, LogoutPublish, LogoutRebuild,
                Down
<1>6. ASSUME NEW r \in Deletes \cup Logouts, CallerLeaves(r)
      PROVE  phase # "down" /\ phase' # "down"
    BY <1>6 DEF CallerLeaves, Down
<1>7. ASSUME NEW p \in Polls,
             PollStep(p) \/ \E id \in Ids : PollBegin(p, id)
      PROVE  phase # "down" /\ phase' # "down"
    BY <1>7 DEF PollBegin, PollStep, PollCheck, PollDisconnect, PollChannel, PollConnect, PollEnd,
                Down
<1>8. ASSUME NEW c \in Clients,
             \/ Connect(c) \/ Pair(c) \/ HandlerStep(c) \/ ServerLogout(c)
             \/ ConnectionLost(c) \/ AutoReconnect(c)
      PROVE  phase # "down" /\ phase' # "down"
    BY <1>8 DEF Connect, Pair, HandlerStep, PairSuccess, LoggedOutRow, LoggedOutPublish,
                ServerLogout, IsLoggedIn, ConnectionLost, AutoReconnect, Down
<1> QED BY <1>1, <1>2, <1>3, <1>4, <1>5, <1>6, <1>7, <1>8 DEF Running

LEMMA InitDown == Init => Down
BY DEF Init, Down, FreeClient, NoEvent, NoDelete, NoLogout, NoPoll

LEMMA NextPInv == ASSUME PInv, Down, [Next]_vars PROVE PInv' /\ Down'
<1>1. CASE RestoreInstances \/ EnsureSingleInstance
    BY <1>1, StartPInv
       DEF RestoreInstances, EnsureSingleInstance, Down
<1>2. CASE ProcessEnds
    BY <1>2, ProcessEndsPInv DEF ProcessEnds, Down, FreeClient, NoEvent, NoDelete, NoLogout, NoPoll
<1>3. CASE Running
    BY <1>3, RunningPInv, RunningIsUp DEF Down
<1>4. CASE \E device \in Devices : PhoneUnlinks(device)
    BY <1>4, PhoneUnlinksPInv DEF PhoneUnlinks, memory, request, Down
<1>5. CASE UNCHANGED vars
    BY <1>5, StutterPInv DEF vars, memory, request, Down
<1> QED BY <1>1, <1>2, <1>3, <1>4, <1>5, NextSplits

\* Types, for any number of everything.
THEOREM SpecTypeOK == Spec => []TypeOK
<1>1. Init => PInv /\ Down
    BY InitPInv, InitDown
<1>2. PInv /\ Down /\ [Next]_vars => (PInv /\ Down)'
    BY NextPInv
<1>3. PInv => TypeOK
    BY DEF PInv
<1> QED BY <1>1, <1>2, <1>3, PTL DEF Spec

-----------------------------------------------------------------------------
(* The marker of DeleteInstance. *)

\* What leaves the markers and the deletes that own them as they are.
KeepsMarks ==
    /\ instances' = instances
    /\ \A o \in Objects : object'[o].deleting = object[o].deleting
                          /\ object'[o].id = object[o].id
    /\ \A d \in Deletes : /\ del'[d].pc = "idle" <=> del[d].pc = "idle"
                          /\ del'[d].inst = del[d].inst /\ del'[d].id = del[d].id

LEMMA MarkerFrame == ASSUME PInv, MarkerOwned, KeepsMarks PROVE MarkerOwned'
<1>1. /\ \A d \in Deletes : del[d].inst \in Objects \cup {NoObject}
      /\ \A id \in Ids : instances[id] \in Objects \cup {NoObject}
    BY DEF PInv, TypeOK, DeleteRec
<1>2. \A d \in Deletes : Tearing(d)' <=> Tearing(d)
    BY DEF KeepsMarks, Tearing
<1>3. \A d \in Deletes : Tearing(d) => del[d].inst \in Objects
    BY <1>1 DEF Tearing
<1>4. \A d \in Deletes : Tearing(d)' => object'[del'[d].inst].deleting
                                        /\ object'[del'[d].inst].id = del'[d].id
    BY <1>2, <1>3 DEF MarkerOwned, KeepsMarks
<1>5. \A d, e \in Deletes : Tearing(d)' /\ Tearing(e)' /\ del'[d].inst = del'[e].inst => d = e
    BY <1>2 DEF MarkerOwned, KeepsMarks
<1>6. \A id \in Ids : instances'[id] # NoObject /\ object'[instances'[id]].deleting
                      => \E d \in Deletes : Tearing(d)' /\ del'[d].inst = instances'[id]
    BY <1>1, <1>2 DEF MarkerOwned, KeepsMarks
<1> QED BY <1>4, <1>5, <1>6 DEF MarkerOwned

\* A request, a client or an event handler moves on.
LEMMA OtherStepsKeepMarks ==
    ASSUME PInv, UNCHANGED <<instances, object, del>> PROVE KeepsMarks
BY DEF KeepsMarks

LEMMA DeleteMovesKeepMarks ==
    ASSUME PInv, NEW d \in Deletes,
           DeleteCheck(d) \/ DeleteUnlink(d) \/ DeleteRelease(d) \/ DeleteStore(d)
    PROVE  KeepsMarks
<1>1. /\ del \in [Deletes -> DeleteRec] /\ object \in [Objects -> InstanceRec]
      /\ del[d].pc # "idle"
    BY DEF PInv, TypeOK, DeleteCheck, DeleteUnlink, DeleteRelease, DeleteStore
<1>2. instances' = instances
    BY DEF DeleteCheck, DeleteUnlink, DeleteRelease, DeleteStore, memory
<1>3. \A o \in Objects : object'[o].deleting = object[o].deleting /\ object'[o].id = object[o].id
    <2>1. CASE DeleteRelease(d)
        BY <1>1, <2>1 DEF DeleteRelease, InstanceRec
    <2>2. CASE DeleteCheck(d) \/ DeleteUnlink(d) \/ DeleteStore(d)
        BY <2>2 DEF DeleteCheck, DeleteUnlink, DeleteStore, memory
    <2> QED BY <2>1, <2>2
<1>4. \A e \in Deletes : /\ del'[e].pc = "idle" <=> del[e].pc = "idle"
                         /\ del'[e].inst = del[e].inst /\ del'[e].id = del[e].id
    <2>1. CASE DeleteCheck(d)
        <3>1. PICK j : del' = [del EXCEPT ![d].pc = "unlink", ![d].device = j]
            BY <2>1 DEF DeleteCheck
        <3> QED BY <1>1, <3>1 DEF DeleteRec
    <2>2. CASE DeleteUnlink(d) \/ DeleteRelease(d) \/ DeleteStore(d)
        <3>1. PICK pc \in {"release", "store", "drop", "clear"} : del' = [del EXCEPT ![d].pc = pc]
            BY <2>2 DEF DeleteUnlink, DeleteRelease, DeleteStore
        <3> QED BY <1>1, <3>1 DEF DeleteRec
    <2> QED BY <2>1, <2>2
<1> QED BY <1>2, <1>3, <1>4 DEF KeepsMarks

LEMMA UpdateKeepsMarks ==
    ASSUME PInv, NEW id \in Ids, NEW cfg \in Configs, UpdateInstanceConfig(id, cfg)
    PROVE  KeepsMarks
BY DEF UpdateInstanceConfig, KeepsMarks, request, PInv, TypeOK, InstanceRec

LEMMA RebuildKeepsMarks ==
    ASSUME PInv, NEW id \in Ids, RebuildService(id), UNCHANGED <<instances, del>>
    PROVE  KeepsMarks
BY RebuildFrame DEF KeepsMarks

\* The struct of a delete in progress is one that was built.
LEMMA TornDownIsBuilt ==
    ASSUME PInv, NEW d \in Deletes, Tearing(d)
    PROVE  del[d].inst \in Objects /\ object[del[d].inst].id \in Ids
BY DEF PInv, TypeOK, Built, DeleteBuilt, Tearing, DeleteRec

\* Only a fresh struct, which nobody is deleting, enters the map.
LEMMA CreateMarker ==
    ASSUME PInv, MarkerOwned, NEW id \in Ids, NEW cfg \in Configs, CreateInstance(id, cfg)
    PROVE  MarkerOwned'
<1>1. del' = del /\ instances \in [Ids -> Objects \cup {NoObject}] /\ MapBuilt
    BY DEF CreateInstance, request, PInv, TypeOK, Built
<1>2. PICK o \in NewObjects, c \in NewClients :
        /\ object' = [object EXCEPT ![o] = BuiltInstance(id, c, cfg)]
        /\ instances' = [instances EXCEPT ![id] = o]
    BY DEF CreateInstance
<1>3. o \in Objects /\ object[o].id = NoId
    BY DEF NewObjects
<1>4. object'[o].deleting = FALSE /\ \A q \in Objects : q # o => object'[q] = object[q]
    BY <1>2, <1>3 DEF BuiltInstance, PInv, TypeOK
<1>5. \A d \in Deletes : (Tearing(d)' <=> Tearing(d)) /\ (Tearing(d) => del[d].inst # o)
    BY <1>1, <1>3, TornDownIsBuilt, NullAssumption DEF Tearing
<1>6. \A d \in Deletes : Tearing(d) => del[d].inst \in Objects
    BY TornDownIsBuilt
<1>7. \A i \in Ids : instances[i] # NoObject => instances[i] \in Objects /\ instances[i] # o
    BY <1>1, <1>3, NullAssumption DEF MapBuilt
<1>8. instances'[id] = o /\ \A i \in Ids : i # id => instances'[i] = instances[i]
    BY <1>1, <1>2
<1> QED BY <1>1, <1>4, <1>5, <1>6, <1>7, <1>8 DEF MarkerOwned

LEMMA RestartMarker ==
    ASSUME PInv, MarkerOwned, NEW id \in Ids, RestartInstance(id) PROVE MarkerOwned'
<1> DEFINE s == Lookup(id)
           cfg == object[s].config
<1>1. /\ del' = del /\ instances \in [Ids -> Objects \cup {NoObject}] /\ MapBuilt
      /\ object \in [Objects -> InstanceRec]
    BY DEF RestartInstance, request, PInv, TypeOK, Built
<1>2. PICK o \in NewObjects, c \in NewClients :
        /\ object' = [object EXCEPT ![s].dedup = FALSE, ![o] = BuiltInstance(id, c, cfg)]
        /\ instances' = [instances EXCEPT ![id] = o]
    BY DEF RestartInstance
<1>3. o \in Objects /\ object[o].id = NoId
    BY DEF NewObjects
<1>4. s \in Objects
    BY LookupFinds DEF RestartInstance
<1> HIDE DEF s, cfg
<1>5. /\ object'[o].deleting = FALSE
      /\ \A q \in Objects : q # o => object'[q].deleting = object[q].deleting
                                     /\ object'[q].id = object[q].id
    BY <1>1, <1>2, <1>3, <1>4 DEF BuiltInstance, InstanceRec
<1>6. \A d \in Deletes : (Tearing(d)' <=> Tearing(d)) /\ (Tearing(d) => del[d].inst # o)
    BY <1>1, <1>3, TornDownIsBuilt, NullAssumption DEF Tearing
<1>7. \A d \in Deletes : Tearing(d) => del[d].inst \in Objects
    BY TornDownIsBuilt
<1>8. \A i \in Ids : instances[i] # NoObject => instances[i] \in Objects /\ instances[i] # o
    BY <1>1, <1>3, NullAssumption DEF MapBuilt
<1>9. instances'[id] = o /\ \A i \in Ids : i # id => instances'[i] = instances[i]
    BY <1>1, <1>2
<1> QED BY <1>1, <1>5, <1>6, <1>7, <1>8, <1>9 DEF MarkerOwned

\* The delete that finds no marker sets it, and owns it from then on.
LEMMA DeleteBeginMarker ==
    ASSUME PInv, MarkerOwned, NEW d \in Deletes, NEW id \in Ids, DeleteBegin(d, id)
    PROVE  MarkerOwned'
<1>1. /\ instances' = instances /\ del[d].pc = "idle" /\ MapBuilt
      /\ instances \in [Ids -> Objects \cup {NoObject}]
      /\ object \in [Objects -> InstanceRec] /\ del \in [Deletes -> DeleteRec]
    BY DEF DeleteBegin, PInv, TypeOK, Built
<1>2. CASE /\ object' = object
           /\ del' = [del EXCEPT ![d] = [NoDelete EXCEPT !.pc = "store", !.id = id]]
    <2>1. \A e \in Deletes : e # d => del'[e] = del[e]
        BY <1>1, <1>2
    <2>2. del'[d].inst = NoObject
        BY <1>1, <1>2 DEF NoDelete
    <2>3. \A e \in Deletes : (Tearing(e)' => e # d /\ Tearing(e)) /\ (Tearing(e) => Tearing(e)')
        BY <1>1, <2>1, <2>2 DEF Tearing
    <2> QED BY <1>1, <1>2, <2>1, <2>3 DEF MarkerOwned
<1>3. CASE /\ Lookup(id) # NoObject
           /\ object' = [object EXCEPT ![instances[id]].deleting = TRUE]
           /\ del' = [del EXCEPT ![d] = [NoDelete EXCEPT !.pc = "check", !.id = id,
                                                         !.inst = instances[id]]]
    <2> DEFINE o == instances[id]
    <2>1. o \in Objects /\ object[o].id = id /\ ~object[o].deleting /\ o # NoObject
        BY <1>3, LookupFinds, NullAssumption
    <2>2. \A e \in Deletes : Tearing(e) => del[e].inst # o /\ del[e].inst \in Objects
        BY <2>1, TornDownIsBuilt DEF MarkerOwned
    <2>3. \A e \in Deletes : e # d => del'[e] = del[e]
        BY <1>1, <1>3
    <2>4. del'[d].inst = o /\ del'[d].id = id /\ del'[d].pc = "check"
        BY <1>1, <1>3 DEF NoDelete
    <2>5. Tearing(d)' /\ \A e \in Deletes : e # d => (Tearing(e)' <=> Tearing(e))
        BY <2>1, <2>3, <2>4 DEF Tearing
    <2>6. object'[o].deleting /\ object'[o].id = id /\ \A q \in Objects : q # o => object'[q] = object[q]
        BY <1>1, <1>3, <2>1 DEF InstanceRec
    <2> HIDE DEF o
    <2>7. \A e \in Deletes : Tearing(e)' => object'[del'[e].inst].deleting
                                            /\ object'[del'[e].inst].id = del'[e].id
        BY <2>2, <2>3, <2>4, <2>5, <2>6 DEF MarkerOwned
    <2>8. \A e, f \in Deletes :
            Tearing(e)' /\ Tearing(f)' /\ del'[e].inst = del'[f].inst => e = f
        BY <2>2, <2>3, <2>4, <2>5 DEF MarkerOwned
    <2>9. \A i \in Ids : instances'[i] # NoObject /\ object'[instances'[i]].deleting
                         => \E e \in Deletes : Tearing(e)' /\ del'[e].inst = instances'[i]
        <3>1. SUFFICES ASSUME NEW i \in Ids, instances[i] # NoObject,
                              object'[instances[i]].deleting
                       PROVE  \E e \in Deletes : Tearing(e)' /\ del'[e].inst = instances[i]
            BY <1>1
        <3>2. CASE instances[i] = o
            BY <2>4, <2>5, <3>2
        <3>3. CASE instances[i] # o
            <4>1. object[instances[i]].deleting
                BY <1>1, <2>6, <3>1, <3>3
            <4>2. PICK e \in Deletes : Tearing(e) /\ del[e].inst = instances[i]
                BY <3>1, <4>1 DEF MarkerOwned
            <4>3. e # d
                BY <1>1, <4>2 DEF Tearing
            <4> QED BY <2>3, <2>5, <4>2, <4>3
        <3> QED BY <3>2, <3>3
    <2> QED BY <2>7, <2>8, <2>9 DEF MarkerOwned
<1> QED BY <1>2, <1>3 DEF DeleteBegin

\* The delete that succeeds takes its entry, marked struct and all, away.
LEMMA DeleteDropMarker ==
    ASSUME PInv, MarkerOwned, NEW d \in Deletes, DeleteDrop(d) PROVE MarkerOwned'
<1>1. /\ object' = object /\ MapBuilt
      /\ instances \in [Ids -> Objects \cup {NoObject}] /\ del \in [Deletes -> DeleteRec]
      /\ instances' = [instances EXCEPT ![del[d].id] = NoObject]
      /\ del' = [del EXCEPT ![d] = NoDelete]
    BY DEF DeleteDrop, PInv, TypeOK, Built
<1>2. \A e \in Deletes : e # d => del'[e] = del[e]
    BY <1>1
<1>3. ~Tearing(d)' /\ \A e \in Deletes : e # d => (Tearing(e)' <=> Tearing(e))
    BY <1>1, <1>2 DEF Tearing, NoDelete
<1>4. \A i \in Ids : instances'[i] = IF i = del[d].id THEN NoObject ELSE instances[i]
    BY <1>1
<1>5. ASSUME NEW i \in Ids, instances'[i] # NoObject, object'[instances'[i]].deleting
      PROVE  \E e \in Deletes : Tearing(e)' /\ del'[e].inst = instances'[i]
    <2>1. instances'[i] = instances[i] /\ i # del[d].id /\ object[instances[i]].deleting
        BY <1>1, <1>4, <1>5
    <2>2. PICK e \in Deletes : Tearing(e) /\ del[e].inst = instances[i]
        BY <1>5, <2>1 DEF MarkerOwned
    <2>3. del[e].id = i
        BY <1>1, <1>5, <2>1, <2>2 DEF MarkerOwned, MapBuilt
    <2> QED BY <1>2, <1>3, <2>1, <2>2, <2>3
<1> QED BY <1>1, <1>2, <1>3, <1>5 DEF MarkerOwned

\* The delete that fails clears its marker, and no other.
LEMMA DeleteClearMarker ==
    ASSUME PInv, MarkerOwned, NEW d \in Deletes, DeleteClear(d) PROVE MarkerOwned'
<1> DEFINE o == del[d].inst
<1>1. /\ instances' = instances /\ del[d].pc = "clear"
      /\ instances \in [Ids -> Objects \cup {NoObject}] /\ del \in [Deletes -> DeleteRec]
      /\ object \in [Objects -> InstanceRec]
      /\ del' = [del EXCEPT ![d] = NoDelete]
    BY DEF DeleteClear, PInv, TypeOK
<1>2. \A e \in Deletes : e # d => del'[e] = del[e]
    BY <1>1
<1>3. ~Tearing(d)' /\ \A e \in Deletes : e # d => (Tearing(e)' <=> Tearing(e))
    BY <1>1, <1>2 DEF Tearing, NoDelete
<1>4. CASE o = NoObject
    <2>1. object' = object /\ ~Tearing(d)
        BY <1>4 DEF DeleteClear, Tearing
    <2> QED BY <1>1, <1>2, <1>3, <2>1 DEF MarkerOwned
<1>5. CASE o # NoObject
    <2>1. Tearing(d) /\ o \in Objects
        BY <1>1, <1>5 DEF Tearing, DeleteRec
    <2>2. object' = [object EXCEPT ![o].deleting = FALSE]
        BY <1>5 DEF DeleteClear
    <2> HIDE DEF o
    <2>3. /\ ~object'[o].deleting /\ object'[o].id = object[o].id
          /\ \A q \in Objects : q # o => object'[q] = object[q]
        BY <1>1, <2>1, <2>2 DEF InstanceRec
    <2>4. \A e \in Deletes : Tearing(e) => del[e].inst \in Objects
        BY TornDownIsBuilt
    <2>5. \A e \in Deletes : e # d /\ Tearing(e) => del[e].inst # o
        BY <2>1 DEF MarkerOwned, o
    <2>6. ASSUME NEW i \in Ids, instances'[i] # NoObject, object'[instances'[i]].deleting
          PROVE  \E e \in Deletes : Tearing(e)' /\ del'[e].inst = instances'[i]
        <3>1. instances[i] # o /\ object[instances[i]].deleting
            BY <1>1, <2>3, <2>6
        <3>2. PICK e \in Deletes : Tearing(e) /\ del[e].inst = instances[i]
            BY <1>1, <2>6, <3>1 DEF MarkerOwned
        <3>3. e # d
            BY <3>1, <3>2 DEF o
        <3> QED BY <1>1, <1>2, <1>3, <3>2, <3>3
    <2> QED BY <1>2, <1>3, <2>3, <2>4, <2>5, <2>6 DEF MarkerOwned
<1> QED BY <1>4, <1>5

\* A start finds no delete in progress and marks nothing.
LEMMA StartMarker ==
    ASSUME PInv, Down, RestoreInstances \/ EnsureSingleInstance PROVE MarkerOwned'
<1>1. del' = del /\ \A d \in Deletes : ~Tearing(d)'
    BY DEF RestoreInstances, EnsureSingleInstance, request, Down, Tearing
<1>2. (\A o \in Objects : object'[o].deleting = FALSE)
      /\ instances' \in [Ids -> Objects \cup {NoObject}]
    BY StartBuilds
<1> QED BY <1>1, <1>2 DEF MarkerOwned

\* Shutdown empties the map; the end of the process forgets the deletes.
LEMMA StopMarker ==
    ASSUME PInv, MarkerOwned, Shutdown \/ ProcessEnds PROVE MarkerOwned'
<1>1. \A id \in Ids : instances'[id] = NoObject
    BY DEF Shutdown, ProcessEnds
<1>2. \A d \in Deletes : ~Tearing(d)'
    BY DEF Shutdown, ProcessEnds, request, Tearing, NoDelete
<1> QED BY <1>1, <1>2 DEF MarkerOwned

LEMMA InitMarker == Init => MarkerOwned
BY DEF Init, MarkerOwned, Tearing, NoDelete

LEMMA RunningMarker == ASSUME PInv, MarkerOwned, Running PROVE MarkerOwned'
<1>1. CASE Shutdown
    BY <1>1, StopMarker
<1>2. ASSUME NEW id \in Ids, RestartInstance(id) \/ RebuildRuns(id) PROVE MarkerOwned'
    <2>1. CASE RestartInstance(id)
        BY <2>1, RestartMarker
    <2>2. CASE RebuildRuns(id)
        BY <2>2, RebuildKeepsMarks, MarkerFrame DEF RebuildRuns, request
    <2> QED BY <1>2, <2>1, <2>2
<1>3. ASSUME NEW id \in Ids, NEW cfg \in Configs,
             CreateInstance(id, cfg) \/ UpdateInstanceConfig(id, cfg)
      PROVE  MarkerOwned'
    BY <1>3, CreateMarker, UpdateKeepsMarks, MarkerFrame
<1>4. ASSUME NEW d \in Deletes, DeleteStep(d) \/ \E id \in Ids : DeleteBegin(d, id)
      PROVE  MarkerOwned'
    BY <1>4, DeleteBeginMarker, DeleteMovesKeepMarks, MarkerFrame, DeleteDropMarker,
       DeleteClearMarker DEF DeleteStep
<1>5. ASSUME NEW l \in Logouts, LogoutStep(l) \/ \E id \in Ids : LogoutBegin(l, id)
      PROVE  MarkerOwned'
    <2>1. CASE LogoutRebuild(l)
        <3>1. object[lo[l].inst].id \in Ids
            BY <2>1, LogoutHolds DEF LogoutRebuild
        <3> QED BY <2>1, <3>1, RebuildKeepsMarks, MarkerFrame DEF LogoutRebuild
    <2>2. CASE ~LogoutRebuild(l)
        <3>1. UNCHANGED <<instances, object, del>>
            BY <1>5, <2>2 DEF LogoutStep, LogoutBegin, LogoutDevice, LogoutRow, LogoutPublish, memory
        <3> QED BY <3>1, OtherStepsKeepMarks, MarkerFrame
    <2> QED BY <2>1, <2>2
<1>6. ASSUME NEW r \in Deletes \cup Logouts, CallerLeaves(r) PROVE MarkerOwned'
    BY <1>6, OtherStepsKeepMarks, MarkerFrame DEF CallerLeaves, memory
<1>7. ASSUME NEW p \in Polls,
             PollStep(p) \/ \E id \in Ids : PollBegin(p, id)
      PROVE  MarkerOwned'
    BY <1>7, PollFrame, OtherStepsKeepMarks, MarkerFrame
<1>8. ASSUME NEW c \in Clients,
             \/ Connect(c) \/ Pair(c) \/ HandlerStep(c) \/ ServerLogout(c)
             \/ ConnectionLost(c) \/ AutoReconnect(c)
      PROVE  MarkerOwned'
    <2>1. UNCHANGED <<instances, object, del>>
        BY <1>8 DEF Connect, Pair, HandlerStep, PairSuccess, LoggedOutRow, LoggedOutPublish,
                    ServerLogout, ConnectionLost, AutoReconnect, request
    <2> QED BY <2>1, OtherStepsKeepMarks, MarkerFrame
<1> QED BY <1>1, <1>2, <1>3, <1>4, <1>5, <1>6, <1>7, <1>8 DEF Running

LEMMA NextMarker == ASSUME PInv, Down, MarkerOwned, [Next]_vars PROVE MarkerOwned'
<1>1. CASE RestoreInstances \/ EnsureSingleInstance
    BY <1>1, StartMarker
<1>2. CASE ProcessEnds
    BY <1>2, StopMarker
<1>3. CASE Running
    BY <1>3, RunningMarker
<1>4. CASE \E device \in Devices : PhoneUnlinks(device)
    BY <1>4, OtherStepsKeepMarks, MarkerFrame DEF PhoneUnlinks, memory, request
<1>5. CASE UNCHANGED vars
    BY <1>5, OtherStepsKeepMarks, MarkerFrame DEF vars, memory, request
<1> QED BY <1>1, <1>2, <1>3, <1>4, <1>5, NextSplits

\* However many deletes, restarts and rebuilds run at once, every marked
\* struct has one delete and every delete its marked struct
\* (DeleteInstance's marker, manager.go:219-263).
THEOREM SpecMarkerOwned == Spec => []MarkerOwned
<1>1. Init => PInv /\ Down /\ MarkerOwned
    BY InitPInv, InitDown, InitMarker
<1>2. PInv /\ Down /\ MarkerOwned /\ [Next]_vars => (PInv /\ Down /\ MarkerOwned)'
    BY NextPInv, NextMarker
<1> QED BY <1>1, <1>2, PTL DEF Spec

-----------------------------------------------------------------------------
(* "Store first, map second". *)

\* A delete that is about to drop the entry it owns.
Dropping(d) ==
    del[d].pc = "drop" /\ del[d].inst # NoObject /\ instances[del[d].id] = del[d].inst

\* No delete comes to that point, no entry changes to its struct and no row
\* that is gone comes back.
LEMMA StoreFirstFrame ==
    ASSUME StoreFirst,
           \A d \in Deletes : Dropping(d)' => Dropping(d) /\ del'[d].id = del[d].id,
           \A d \in Deletes : Dropping(d) /\ rows[del[d].id] = NoRow => rows'[del[d].id] = NoRow
    PROVE  StoreFirst'
BY DEF StoreFirst, Dropping

LEMMA OtherStepsStoreFirst ==
    ASSUME PInv, StoreFirst, UNCHANGED <<instances, del>>,
           \A id \in Ids : rows[id] = NoRow => rows'[id] = NoRow
    PROVE  StoreFirst'
<1>1. \A d \in Deletes : Dropping(d) => del[d].id \in Ids
    BY DEF PInv, Built, DeleteBuilt, Dropping
<1>2. \A d \in Deletes : Dropping(d)' <=> Dropping(d)
    BY DEF Dropping
<1> QED BY <1>1, <1>2, StoreFirstFrame

LEMMA CreateStoreFirst ==
    ASSUME PInv, MarkerOwned, StoreFirst, NEW id \in Ids, NEW cfg \in Configs,
           CreateInstance(id, cfg)
    PROVE  StoreFirst'
<1>1. /\ del' = del /\ instances[id] = NoObject /\ rows' = SaveInstance(id, cfg)
      /\ instances \in [Ids -> Objects \cup {NoObject}]
      /\ rows \in [Ids -> Row \cup {NoRow}]
    BY DEF CreateInstance, request, PInv, TypeOK
<1>2. PICK o \in NewObjects : instances' = [instances EXCEPT ![id] = o]
    BY DEF CreateInstance
<1>3. \A d \in Deletes : Dropping(d)' => del[d].inst # o /\ del[d].id \in Ids
    BY <1>1, TornDownIsBuilt, NullAssumption
       DEF NewObjects, Dropping, Tearing, PInv, Built, DeleteBuilt
<1>4. \A d \in Deletes : Dropping(d)' => del[d].id # id
    BY <1>1, <1>2, <1>3 DEF Dropping
<1>5. \A d \in Deletes : Dropping(d)' => Dropping(d)
    BY <1>1, <1>2, <1>3, <1>4 DEF Dropping
<1>6. \A i \in Ids : i # id => rows'[i] = rows[i]
    BY <1>1 DEF SaveInstance
<1>7. \A d \in Deletes : Dropping(d) => del[d].id # id /\ del[d].id \in Ids
    BY <1>1 DEF Dropping, PInv, Built, DeleteBuilt
<1> QED BY <1>1, <1>5, <1>6, <1>7, StoreFirstFrame

LEMMA UpdateStoreFirst ==
    ASSUME PInv, MarkerOwned, StoreFirst, NEW id \in Ids, NEW cfg \in Configs,
           UpdateInstanceConfig(id, cfg)
    PROVE  StoreFirst'
<1>1. /\ UNCHANGED <<instances, del>> /\ rows \in [Ids -> Row \cup {NoRow}]
      /\ rows' = SaveInstance(id, cfg) \/ rows' = rows
    BY DEF UpdateInstanceConfig, request, PInv, TypeOK
<1>2. ASSUME NEW d \in Deletes, Dropping(d) PROVE del[d].id # id /\ del[d].id \in Ids
    <2>1. Tearing(d)
        BY <1>2 DEF Dropping, Tearing
    <2>2. Lookup(id) = instances[id] /\ ~object[Lookup(id)].deleting
        BY LookupFinds DEF UpdateInstanceConfig
    <2> QED BY <1>2, <2>1, <2>2 DEF MarkerOwned, Dropping, PInv, Built, DeleteBuilt
<1>3. \A i \in Ids : i # id => rows'[i] = rows[i]
    BY <1>1 DEF SaveInstance
<1>4. \A d \in Deletes : Dropping(d)' <=> Dropping(d)
    BY <1>1 DEF Dropping
<1> QED BY <1>1, <1>2, <1>3, <1>4, StoreFirstFrame

LEMMA RestartStoreFirst ==
    ASSUME PInv, StoreFirst, NEW id \in Ids, RestartInstance(id) PROVE StoreFirst'
<1>1. /\ UNCHANGED <<del, rows>> /\ instances \in [Ids -> Objects \cup {NoObject}]
    BY DEF RestartInstance, request, PInv, TypeOK
<1>2. PICK o \in NewObjects : instances' = [instances EXCEPT ![id] = o]
    BY DEF RestartInstance
<1>3. \A d \in Deletes : Dropping(d)' => del[d].inst # o /\ del[d].id \in Ids
    BY <1>1, TornDownIsBuilt, NullAssumption
       DEF NewObjects, Dropping, Tearing, PInv, Built, DeleteBuilt
<1>4. \A d \in Deletes : Dropping(d)' => Dropping(d)
    BY <1>1, <1>2, <1>3 DEF Dropping
<1> QED BY <1>1, <1>4, StoreFirstFrame

LEMMA DeleteStoreFirst ==
    ASSUME PInv, StoreFirst, NEW d \in Deletes, DeleteStep(d) \/ \E id \in Ids : DeleteBegin(d, id)
    PROVE  StoreFirst'
<1>1. del \in [Deletes -> DeleteRec] /\ instances \in [Ids -> Objects \cup {NoObject}]
      /\ rows \in [Ids -> Row \cup {NoRow}]
    BY DEF PInv, TypeOK
<1>2. CASE DeleteStore(d)
    <2>1. instances' = instances /\ del[d].id \in Ids
        BY <1>2 DEF DeleteStore, memory, PInv, Built, DeleteBuilt
    <2>2. \A i \in Ids : rows[i] = NoRow => rows'[i] = NoRow
        BY <1>1, <1>2 DEF DeleteStore
    <2>3. \A e \in Deletes : e # d => del'[e] = del[e]
        BY <1>1, <1>2 DEF DeleteStore
    <2>4. del'[d].id = del[d].id /\ (del'[d].pc = "drop" => rows'[del[d].id] = NoRow)
        <3>1. CASE rows' = [rows EXCEPT ![del[d].id] = NoRow] /\ del' = [del EXCEPT ![d].pc = "drop"]
            BY <1>1, <2>1, <3>1 DEF DeleteRec
        <3>2. CASE del' = [del EXCEPT ![d].pc = "clear"]
            BY <1>1, <3>2 DEF DeleteRec
        <3> QED BY <1>2, <3>1, <3>2 DEF DeleteStore
    <2>5. \A e \in Deletes : del[e].pc # "idle" => del[e].id \in Ids
        BY DEF PInv, Built, DeleteBuilt
    <2> QED BY <2>1, <2>2, <2>3, <2>4, <2>5 DEF StoreFirst
<1>3. CASE ~DeleteStore(d)
    <2>1. rows' = rows /\ \A e \in Deletes : e # d => del'[e] = del[e]
        BY <1>1, <1>3 DEF DeleteStep, DeleteBegin, DeleteCheck, DeleteUnlink, DeleteRelease,
                          DeleteDrop, DeleteClear
    <2>2. del'[d].pc # "drop"
        <3>1. CASE DeleteCheck(d)
            <4>1. PICK j : del' = [del EXCEPT ![d].pc = "unlink", ![d].device = j]
                BY <3>1 DEF DeleteCheck
            <4> QED BY <1>1, <4>1 DEF DeleteRec
        <3>2. CASE DeleteUnlink(d) \/ DeleteRelease(d)
            BY <1>1, <3>2 DEF DeleteUnlink, DeleteRelease, DeleteRec
        <3>3. CASE DeleteDrop(d) \/ DeleteClear(d)
            BY <1>1, <3>3 DEF DeleteDrop, DeleteClear, NoDelete
        <3>4. ASSUME NEW id \in Ids, DeleteBegin(d, id) PROVE del'[d].pc # "drop"
            <4> DEFINE r == [NoDelete EXCEPT !.pc = "store", !.id = id]
                       s == [NoDelete EXCEPT !.pc = "check", !.id = id, !.inst = instances[id]]
            <4>1. del' = [del EXCEPT ![d] = r] \/ del' = [del EXCEPT ![d] = s]
                BY <3>4 DEF DeleteBegin
            <4>2. r.pc = "store" /\ s.pc = "check"
                BY DEF NoDelete
            <4> HIDE DEF r, s
            <4> QED BY <1>1, <4>1, <4>2
        <3> QED BY <1>3, <3>1, <3>2, <3>3, <3>4 DEF DeleteStep
    <2>3. \A i \in Ids : instances'[i] = instances[i] \/ instances'[i] = NoObject
        BY <1>1, <1>3 DEF DeleteStep, DeleteBegin, DeleteCheck, DeleteUnlink, DeleteRelease,
                          DeleteDrop, DeleteClear, memory
    <2>4. \A e \in Deletes : del[e].pc # "idle" => del[e].id \in Ids
        BY DEF PInv, Built, DeleteBuilt
    <2>5. \A e \in Deletes : Dropping(e)' => e # d /\ Dropping(e)
        BY <2>1, <2>2, <2>3, <2>4 DEF Dropping
    <2> QED BY <2>1, <2>5, StoreFirstFrame
<1> QED BY <1>2, <1>3

LEMMA RunningStoreFirst ==
    ASSUME PInv, MarkerOwned, StoreFirst, Running PROVE StoreFirst'
<1>1. CASE Shutdown
    BY <1>1 DEF Shutdown, request, StoreFirst
<1>2. ASSUME NEW id \in Ids, RestartInstance(id) \/ RebuildRuns(id) PROVE StoreFirst'
    BY <1>2, RestartStoreFirst, OtherStepsStoreFirst DEF RebuildRuns, request
<1>3. ASSUME NEW id \in Ids, NEW cfg \in Configs,
             CreateInstance(id, cfg) \/ UpdateInstanceConfig(id, cfg)
      PROVE  StoreFirst'
    BY <1>3, CreateStoreFirst, UpdateStoreFirst
<1>4. ASSUME NEW d \in Deletes, DeleteStep(d) \/ \E id \in Ids : DeleteBegin(d, id)
      PROVE  StoreFirst'
    BY <1>4, DeleteStoreFirst
<1>5. ASSUME NEW l \in Logouts, LogoutStep(l) \/ \E id \in Ids : LogoutBegin(l, id)
      PROVE  StoreFirst'
    <2>1. CASE LogoutRow(l)
        <3>1. object[lo[l].inst].id \in Ids /\ NoDevice \in AnyDevice
            BY <2>1, LogoutHolds DEF LogoutRow, AnyDevice
        <3>2. \A id \in Ids : rows[id] = NoRow => rows'[id] = NoRow
            BY <2>1, <3>1, DeviceStateTypes DEF LogoutRow
        <3> QED BY <2>1, <3>2, OtherStepsStoreFirst DEF LogoutRow, memory
    <2>2. CASE ~LogoutRow(l)
        <3>1. UNCHANGED <<instances, del, rows>>
            BY <1>5, <2>2 DEF LogoutStep, LogoutBegin, LogoutDevice, LogoutPublish, LogoutRebuild,
                              memory
        <3> QED BY <3>1, OtherStepsStoreFirst
    <2> QED BY <2>1, <2>2
<1>6. ASSUME NEW r \in Deletes \cup Logouts, CallerLeaves(r) PROVE StoreFirst'
    BY <1>6, OtherStepsStoreFirst DEF CallerLeaves, memory
<1>7. ASSUME NEW p \in Polls,
             PollStep(p) \/ \E id \in Ids : PollBegin(p, id)
      PROVE  StoreFirst'
    BY <1>7, PollFrame, OtherStepsStoreFirst
<1>8. ASSUME NEW c \in Clients,
             \/ Connect(c) \/ Pair(c) \/ HandlerStep(c) \/ ServerLogout(c)
             \/ ConnectionLost(c) \/ AutoReconnect(c)
      PROVE  StoreFirst'
    <2>1. UNCHANGED <<instances, del>>
        BY <1>8 DEF Connect, Pair, HandlerStep, PairSuccess, LoggedOutRow, LoggedOutPublish,
                    ServerLogout, ConnectionLost, AutoReconnect, request
    <2>2. \A id \in Ids : rows[id] = NoRow => rows'[id] = NoRow
        <3>1. CASE PairSuccess(c) \/ LoggedOutRow(c)
            <4>1. client[c].id \in Ids /\ handler[c].device \in AnyDevice /\ NoDevice \in AnyDevice
                BY <3>1 DEF PairSuccess, LoggedOutRow, PInv, TypeOK, Built, ClientBuilt, EventRec,
                            AnyDevice
            <4> QED BY <3>1, <4>1, DeviceStateTypes DEF PairSuccess, LoggedOutRow
        <3>2. CASE ~(PairSuccess(c) \/ LoggedOutRow(c))
            BY <1>8, <3>2 DEF Connect, Pair, HandlerStep, LoggedOutPublish, ServerLogout,
                              ConnectionLost, AutoReconnect
        <3> QED BY <3>1, <3>2
    <2> QED BY <2>1, <2>2, OtherStepsStoreFirst
<1> QED BY <1>1, <1>2, <1>3, <1>4, <1>5, <1>6, <1>7, <1>8 DEF Running

LEMMA NextStoreFirst ==
    ASSUME PInv, Down, MarkerOwned, StoreFirst, [Next]_vars PROVE StoreFirst'
<1>1. CASE RestoreInstances \/ EnsureSingleInstance
    BY <1>1 DEF RestoreInstances, EnsureSingleInstance, request, Down, StoreFirst
<1>2. CASE ProcessEnds
    BY <1>2 DEF ProcessEnds, StoreFirst, NoDelete
<1>3. CASE Running
    BY <1>3, RunningStoreFirst
<1>4. CASE \E device \in Devices : PhoneUnlinks(device)
    BY <1>4, OtherStepsStoreFirst DEF PhoneUnlinks, memory, request
<1>5. CASE UNCHANGED vars
    BY <1>5, OtherStepsStoreFirst DEF vars, memory, request
<1> QED BY <1>1, <1>2, <1>3, <1>4, <1>5, NextSplits

LEMMA InitStoreFirst == Init => StoreFirst
BY DEF Init, StoreFirst, NoDelete

\* When a delete takes its own entry out of the map, the row is gone and
\* no create, update or event of a login has written it again
\* (manager.go:244-263).
THEOREM SpecStoreFirst == Spec => []StoreFirst
<1>1. Init => PInv /\ Down /\ MarkerOwned /\ StoreFirst
    BY InitPInv, InitDown, InitMarker, InitStoreFirst
<1>2. PInv /\ Down /\ MarkerOwned /\ StoreFirst /\ [Next]_vars
      => (PInv /\ Down /\ MarkerOwned /\ StoreFirst)'
    BY NextPInv, NextMarker, NextStoreFirst
<1> QED BY <1>1, <1>2, PTL DEF Spec

-----------------------------------------------------------------------------
(* What InstanceManager promises about devices: their logouts, their       *)
(* connections, the rows that name them.  The pointers (PInv, Down) are    *)
(* those of the first half.                                                *)

-----------------------------------------------------------------------------
(* What a step of the running process leaves as it is. *)

\* A struct in use keeps its id.
LEMMA StructsKeepIds ==
    ASSUME PInv, Running
    PROVE  \A o \in Objects : object[o].id # NoId => object'[o].id = object[o].id
<1>. DEFINE Kept == \A o \in Objects : object[o].id # NoId => object'[o].id = object[o].id
<1>0. object \in [Objects -> InstanceRec]
  BY DEF PInv, TypeOK
<1>1. CASE object' = object
  BY <1>1
<1>2. ASSUME NEW q, NEW f, object' \in {[object EXCEPT ![q].config = f], [object EXCEPT ![q].dedup = f],
                                        [object EXCEPT ![q].deleting = f],
                                        [object EXCEPT ![q].service = f]}
      PROVE  Kept
  BY <1>0, <1>2 DEF InstanceRec
<1>3. CASE Shutdown
  BY <1>0, <1>3 DEF Shutdown, InstanceRec
<1>4. ASSUME NEW id \in Ids, RestartInstance(id) PROVE Kept
  <2>. DEFINE o == Lookup(id)
  <2>1. PICK n, c : n \in NewObjects /\ object' = [object EXCEPT ![o].dedup = FALSE,
                                              ![n] = BuiltInstance(id, c, object[o].config)]
    BY <1>4 DEF RestartInstance
  <2>. HIDE DEF o
  <2>. QED
    BY <1>0, <2>1 DEF NewObjects, InstanceRec
<1>5. ASSUME NEW id \in Ids, RebuildService(id) PROVE Kept
  <2>1. object' = object \/ \E c : object' = [object EXCEPT ![Lookup(id)].service = c]
    BY <1>5 DEF RebuildService
  <2>. QED
    BY <1>1, <1>2, <2>1
<1>6. ASSUME NEW id \in Ids, NEW cfg \in Configs, CreateInstance(id, cfg) PROVE Kept
  BY <1>0, <1>6 DEF CreateInstance, NewObjects
<1>7. ASSUME NEW id \in Ids, NEW cfg \in Configs, UpdateInstanceConfig(id, cfg) PROVE Kept
  BY <1>2, <1>7 DEF UpdateInstanceConfig
<1>8. ASSUME NEW d \in Deletes, DeleteStep(d) \/ \E id \in Ids : DeleteBegin(d, id) PROVE Kept
  <2>1. \/ object' = object
        \/ \E q, f : object' \in {[object EXCEPT ![q].deleting = f], [object EXCEPT ![q].dedup = f]}
    BY <1>8 DEF DeleteStep, DeleteBegin, DeleteCheck, DeleteUnlink, DeleteRelease, DeleteStore,
                DeleteDrop, DeleteClear, memory
  <2>. QED
    BY <1>1, <1>2, <2>1
<1>9. ASSUME NEW l \in Logouts, LogoutStep(l) \/ \E id \in Ids : LogoutBegin(l, id) PROVE Kept
  <2>1. CASE LogoutRebuild(l)
    BY <1>5, <2>1, LogoutHolds DEF LogoutRebuild
  <2>. QED
    BY <1>1, <1>9, <2>1 DEF LogoutStep, LogoutBegin, LogoutDevice, LogoutRow, LogoutPublish, memory
<1>. QED
  BY <1>1, <1>3, <1>4, <1>5, <1>6, <1>7, <1>8, <1>9, PollFrame
     DEF Running, RebuildRuns, CallerLeaves, Connect, Pair,
         HandlerStep, PairSuccess, LoggedOutRow, LoggedOutPublish, ServerLogout, ConnectionLost,
         AutoReconnect, memory

\* No delete is in progress.
NoDeletes == \A d \in Deletes : del[d].pc = "idle"

\* Meanwhile an entry of the map stays until the shutdown.
LEMMA EntriesStay ==
    ASSUME PInv, Running, NoDeletes
    PROVE  Shutdown \/ \A id \in Ids : instances[id] # NoObject => instances'[id] # NoObject
<1>0. instances \in [Ids -> Objects \cup {NoObject}]
  BY DEF PInv, TypeOK
<1>1. ASSUME NEW id \in Ids, NEW o \in NewObjects, instances' = [instances EXCEPT ![id] = o]
      PROVE  \A i \in Ids : instances[i] # NoObject => instances'[i] # NoObject
  BY <1>0, <1>1, NullAssumption DEF NewObjects
<1>2. ASSUME NEW id \in Ids, RestartInstance(id) \/ \E cfg \in Configs : CreateInstance(id, cfg)
      PROVE  \A i \in Ids : instances[i] # NoObject => instances'[i] # NoObject
  <2>1. PICK o \in NewObjects : instances' = [instances EXCEPT ![id] = o]
    BY <1>2 DEF RestartInstance, CreateInstance
  <2>. QED
    BY <1>1, <2>1
<1>3. ASSUME NEW d \in Deletes, DeleteStep(d) \/ \E id \in Ids : DeleteBegin(d, id)
      PROVE  instances' = instances
  BY <1>3 DEF NoDeletes, DeleteBegin, DeleteStep, DeleteCheck, DeleteUnlink, DeleteRelease, DeleteStore,
              DeleteDrop, DeleteClear
<1>. QED
  BY <1>2, <1>3, PollFrame
     DEF Running, RebuildRuns, UpdateInstanceConfig, LogoutStep, LogoutBegin, LogoutDevice, LogoutRow,
         LogoutPublish, LogoutRebuild, CallerLeaves, Connect, Pair,
         HandlerStep, PairSuccess, LoggedOutRow, LoggedOutPublish, ServerLogout, ConnectionLost,
         AutoReconnect, memory

-----------------------------------------------------------------------------
(* Logouts are announced. *)

\* A logout by the API has its instance until it ends, and from
\* LogoutPublish on, or when its caller has gone, its device is announced.
LogoutKept ==
    \A l \in Logouts : lo[l].pc # "idle" =>
        /\ instances[object[lo[l].inst].id] # NoObject
        /\ lo[l].pc = "device" => lo[l].device = NoDevice
        /\ lo[l].pc = "rebuild" \/ (l \in gone /\ lo[l].pc # "device") => lo[l].device \in announced

\* AnnouncementDue without the login that a handler may still be busy with.
LogoutDue(j) ==
    \/ \E l \in Logouts : lo[l].device = j /\ lo[l].pc # "idle"
    \/ \E c \in Clients : handler[c].device = j /\ handler[c].pc \in {"row", "publish"}

Accounted == \A j \in paired \ (linked \cup registered) : LogoutDue(j) \/ j \in announced

\* Handlers that are busy with a logout go on with it.
KeepsLogouts ==
    \A c \in Clients : handler[c].pc \in {"row", "publish"} =>
        handler'[c].device = handler[c].device /\ handler'[c].pc \in {"row", "publish"}

LEMMA LogoutFrame ==
    ASSUME PInv, LogoutKept, Accounted, lo' = lo, gone' \cap Logouts \subseteq gone,
           \A o \in Objects : object[o].id # NoId => object'[o].id = object[o].id,
           \A id \in Ids : instances[id] # NoObject => instances'[id] # NoObject,
           announced \subseteq announced',
           paired' \ (linked' \cup registered') \subseteq paired \ (linked \cup registered),
           KeepsLogouts
    PROVE  LogoutKept' /\ Accounted'
<1>1. \A l \in Logouts : lo[l].pc # "idle" => /\ lo[l].inst \in Objects
                                              /\ object[lo[l].inst].id \in Ids
                                              /\ object'[lo[l].inst].id = object[lo[l].inst].id
  BY LogoutHolds, NullAssumption
<1>2. LogoutKept'
  BY <1>1 DEF LogoutKept
<1>3. \A j : LogoutDue(j) => LogoutDue(j)'
  BY DEF LogoutDue, KeepsLogouts
<1>. QED
  BY <1>2, <1>3 DEF Accounted

\* A step of one logout: what is new for its request, and what it leaves.
LEMMA LogoutMoves ==
    ASSUME PInv, LogoutKept, Accounted, NEW l \in Logouts, NEW r \in LogoutRec,
           lo' = [lo EXCEPT ![l] = r],
           \A m \in Logouts : m # l /\ m \in gone' => m \in gone,
           \A o \in Objects : object[o].id # NoId => object'[o].id = object[o].id,
           instances' = instances, handler' = handler, paired' = paired,
           announced \subseteq announced',
           r.pc # "idle" =>
             /\ r.inst \in Objects /\ object[r.inst].id \in Ids
             /\ instances[object[r.inst].id] # NoObject
             /\ r.pc = "device" => r.device = NoDevice
             /\ r.pc = "rebuild" \/ (l \in gone' /\ r.pc # "device") => r.device \in announced',
           lo[l].pc \in {"row", "publish", "rebuild"} =>
             (r.pc # "idle" /\ r.device = lo[l].device) \/ lo[l].device \in announced',
           \A j \in paired \ (linked' \cup registered') :
             j \in paired \ (linked \cup registered) \/ (r.pc # "idle" /\ r.device = j)
    PROVE  LogoutKept' /\ Accounted'
<1>1. /\ lo'[l] = r /\ \A m \in Logouts : m # l => lo'[m] = lo[m]
      /\ lo \in [Logouts -> LogoutRec]
  BY DEF PInv, TypeOK
<1>2. \A m \in Logouts : lo[m].pc # "idle" => /\ lo[m].inst \in Objects
                                              /\ object[lo[m].inst].id \in Ids
                                              /\ object'[lo[m].inst].id = object[lo[m].inst].id
  BY LogoutHolds, NullAssumption
<1>3. ASSUME NEW m \in Logouts, lo'[m].pc # "idle"
      PROVE  /\ instances'[object'[lo'[m].inst].id] # NoObject
             /\ lo'[m].pc = "device" => lo'[m].device = NoDevice
             /\ lo'[m].pc = "rebuild" \/ (m \in gone' /\ lo'[m].pc # "device")
                  => lo'[m].device \in announced'
  <2>1. CASE m = l
    <3>1. object'[r.inst].id = object[r.inst].id
      BY <1>1, <1>3, <2>1, NullAssumption
    <3>. QED
      BY <1>1, <1>3, <2>1, <3>1
  <2>2. CASE m # l
    BY <1>1, <1>2, <1>3, <2>2 DEF LogoutKept
  <2>. QED
    BY <2>1, <2>2
<1>4. ASSUME NEW j \in paired' \ (linked' \cup registered') PROVE LogoutDue(j)' \/ j \in announced'
  <2>1. CASE r.pc # "idle" /\ r.device = j
    BY <1>1, <2>1 DEF LogoutDue
  <2>2. CASE j \in paired \ (linked \cup registered)
    <3>1. j # NoDevice
      BY <2>2, NullAssumption DEF PInv, TypeOK
    <3>2. CASE j \in announced
      BY <3>2
    <3>3. ASSUME NEW m \in Logouts, lo[m].device = j, lo[m].pc # "idle"
          PROVE  LogoutDue(j)' \/ j \in announced'
      <4>1. CASE m = l
        <5>1. lo[l].pc \in {"row", "publish", "rebuild"}
          BY <1>1, <3>1, <3>3, <4>1 DEF LogoutKept, LogoutRec, LogoutPC
        <5>. QED
          BY <1>1, <3>3, <4>1, <5>1 DEF LogoutDue
      <4>2. CASE m # l
        BY <1>1, <3>3, <4>2 DEF LogoutDue
      <4>. QED
        BY <4>1, <4>2
    <3>4. CASE \E c \in Clients : handler[c].device = j /\ handler[c].pc \in {"row", "publish"}
      BY <3>4 DEF LogoutDue
    <3>. QED
      BY <2>2, <3>2, <3>3, <3>4 DEF Accounted, LogoutDue
  <2>. QED
    BY <2>1, <2>2
<1>. QED
  BY <1>3, <1>4 DEF LogoutKept, Accounted

LEMMA LogoutBeginKept ==
    ASSUME PInv, Running, LogoutKept, Accounted, NEW l \in Logouts, NEW id \in Ids, LogoutBegin(l, id)
    PROVE  LogoutKept' /\ Accounted'
<1>. DEFINE r == [NoLogout EXCEPT !.pc = "device", !.inst = Lookup(id)]
<1>1. /\ lo' = [lo EXCEPT ![l] = r] /\ lo[l].pc = "idle"
      /\ UNCHANGED <<instances, object, handler, paired, linked, registered, announced, gone>>
  BY DEF LogoutBegin, memory, world
<1>2. Lookup(id) \in Objects /\ object[Lookup(id)].id = id /\ instances[id] # NoObject
  BY LookupFinds DEF LogoutBegin, Lookup
<1>3. r \in LogoutRec /\ r.inst = Lookup(id) /\ r.pc = "device" /\ r.device = NoDevice
  BY <1>2, NullTypes DEF LogoutRec, LogoutPC, NoLogout
<1>. HIDE DEF r
<1>. QED
  BY <1>1, <1>2, <1>3, LogoutMoves

LEMMA LogoutDeviceKept ==
    ASSUME PInv, Running, LogoutKept, Accounted, linked \subseteq registered, NEW l \in Logouts, LogoutDevice(l)
    PROVE  LogoutKept' /\ Accounted'
<1>. DEFINE c == object[lo[l].inst].service
            r == [lo[l] EXCEPT !.pc = "row", !.device = client[c].jid]
<1>1. UNCHANGED <<instances, object, handler, paired, announced>> /\ lo[l].pc = "device"
  BY DEF LogoutDevice
<1>2. /\ lo[l] \in LogoutRec /\ lo[l].inst \in Objects /\ object[lo[l].inst].id \in Ids
      /\ instances[object[lo[l].inst].id] # NoObject
  BY <1>1, LogoutHolds DEF LogoutKept
<1>3. CASE Unlink(c) /\ DeviceErased(c) /\ l \notin gone /\ gone' = gone
           /\ lo' = [lo EXCEPT ![l].pc = "row", ![l].device = client[c].jid]
  <2>1. /\ linked' = linked \ {client[c].jid} /\ registered' = registered \ {client[c].jid}
        /\ client[c].jid \in AnyDevice
    BY <1>2, <1>3, Held DEF Unlink, DeviceErased
  <2>2. r \in LogoutRec /\ r.inst = lo[l].inst /\ r.pc = "row" /\ r.device = client[c].jid
    BY <1>2, <2>1 DEF LogoutRec, LogoutPC
  <2>3. lo' = [lo EXCEPT ![l] = r]
    BY <1>3 DEF PInv, TypeOK
  <2>. HIDE DEF r, c
  <2>4. \A j \in paired \ (linked' \cup registered') :
          j \in paired \ (linked \cup registered) \/ (r.pc # "idle" /\ r.device = j)
    BY <2>1, <2>2
  <2>5. /\ UNCHANGED <<instances, object, handler, paired, announced>>
        /\ \A m \in Logouts : m # l /\ m \in gone' => m \in gone
        /\ \A o \in Objects : object[o].id # NoId => object'[o].id = object[o].id
    BY <1>1, <1>3
  <2>6. /\ r.inst \in Objects /\ object[r.inst].id \in Ids
        /\ instances[object[r.inst].id] # NoObject
        /\ r.pc = "row" /\ l \notin gone'
    BY <1>2, <1>3, <2>2
  <2>7. lo[l].pc \notin {"row", "publish", "rebuild"}
    BY <1>1
  <2>. QED
    BY <2>2, <2>3, <2>4, <2>5, <2>6, <2>7, LogoutMoves
<1>4. CASE /\ lo' = [lo EXCEPT ![l] = NoLogout] /\ gone' = gone \ {l}
           /\ (Unlink(c) /\ DeviceKept(c)) \/ UNCHANGED <<registered, linked>>
  <2>1. NoLogout.pc = "idle"
    BY DEF NoLogout
  <2>2. linked' \cup registered' = linked \cup registered
    BY <1>4 DEF Unlink, DeviceKept
  <2>. QED
    BY <1>1, <1>4, <2>1, <2>2, NullTypes, LogoutMoves
<1>. QED
  BY <1>3, <1>4 DEF LogoutDevice

LEMMA LogoutRowKept ==
    ASSUME PInv, Running, LogoutKept, Accounted, NEW l \in Logouts, LogoutRow(l)
    PROVE  LogoutKept' /\ Accounted'
<1>. DEFINE r == [lo[l] EXCEPT !.pc = "publish"]
<1>1. /\ UNCHANGED <<instances, object, handler, paired, announced, gone, linked, registered>>
      /\ lo[l].pc = "row"
  BY DEF LogoutRow, memory, world
<1>2. /\ lo[l] \in LogoutRec /\ lo[l].inst \in Objects /\ object[lo[l].inst].id \in Ids
      /\ instances[object[lo[l].inst].id] # NoObject /\ (l \in gone => lo[l].device \in announced)
  BY <1>1, LogoutHolds DEF LogoutKept
<1>3. r \in LogoutRec /\ r.inst = lo[l].inst /\ r.device = lo[l].device /\ r.pc = "publish"
  BY <1>2 DEF LogoutRec, LogoutPC
<1>4. lo' = [lo EXCEPT ![l] = r]
  BY DEF LogoutRow, PInv, TypeOK
<1>. HIDE DEF r
<1>. QED
  BY <1>1, <1>2, <1>3, <1>4, LogoutMoves

\* Without deletes the instance is there, and a caller that has gone has had
\* the device announced.
LEMMA LogoutPublishKept ==
    ASSUME PInv, MarkerOwned, Running, LogoutKept, Accounted, Deletes = {},
           NEW l \in Logouts, LogoutPublish(l)
    PROVE  LogoutKept' /\ Accounted'
<1>. DEFINE r == [lo[l] EXCEPT !.pc = "rebuild"]
<1>1. /\ UNCHANGED <<instances, object, handler, paired, gone, linked, registered>>
      /\ lo[l].pc = "publish"
  BY DEF LogoutPublish, memory
<1>2. /\ lo[l] \in LogoutRec /\ lo[l].inst \in Objects /\ object[lo[l].inst].id \in Ids
      /\ instances[object[lo[l].inst].id] # NoObject /\ (l \in gone => lo[l].device \in announced)
  BY <1>1, LogoutHolds DEF LogoutKept
<1>3. Lookup(object[lo[l].inst].id) # NoObject
  BY <1>2 DEF Lookup, MarkerOwned
<1>4. announced \subseteq announced' /\ lo[l].device \in announced'
  BY <1>2, <1>3 DEF LogoutPublish
<1>5. r \in LogoutRec /\ r.inst = lo[l].inst /\ r.device = lo[l].device /\ r.pc = "rebuild"
  BY <1>2 DEF LogoutRec, LogoutPC
<1>6. lo' = [lo EXCEPT ![l] = r]
  BY DEF LogoutPublish, PInv, TypeOK
<1>. HIDE DEF r
<1>. QED
  BY <1>1, <1>2, <1>4, <1>5, <1>6, LogoutMoves

LEMMA LogoutRebuildKept ==
    ASSUME PInv, Running, LogoutKept, Accounted, NEW l \in Logouts, LogoutRebuild(l)
    PROVE  LogoutKept' /\ Accounted'
<1>1. /\ UNCHANGED <<instances, handler, paired, announced, linked, registered>>
      /\ lo[l].pc = "rebuild" /\ lo' = [lo EXCEPT ![l] = NoLogout] /\ gone' = gone \ {l}
  BY DEF LogoutRebuild, world
<1>2. \A o \in Objects : object[o].id # NoId => object'[o].id = object[o].id
  BY StructsKeepIds
<1>3. lo[l].device \in announced /\ NoLogout.pc = "idle"
  BY <1>1 DEF LogoutKept, NoLogout
<1>. QED
  BY <1>1, <1>2, <1>3, NullTypes, LogoutMoves

LEMMA CallerLeavesKept ==
    ASSUME PInv, LogoutKept, Accounted, Deletes = {}, NEW q \in Deletes \cup Logouts, CallerLeaves(q)
    PROVE  LogoutKept' /\ Accounted'
<1>1. /\ UNCHANGED <<instances, object, handler, paired, linked, registered, lo>>
      /\ q \in Logouts /\ gone' = gone \cup {q} /\ announced' = announced \cup ({lo[q].device} \ {NoDevice})
  BY DEF CallerLeaves, memory
<1>2. \A l \in Logouts : lo[l].pc \notin {"idle", "device"} => lo[l].device # NoDevice
  BY NullAssumption DEF PInv, Built, LogoutBuilt
<1>3. \A l \in Logouts : lo[l].pc # "idle" /\ l \in gone' /\ lo[l].pc # "device"
                         => lo[l].device \in announced'
  BY <1>1, <1>2 DEF LogoutKept
<1>4. LogoutKept'
  BY <1>1, <1>3 DEF LogoutKept
<1>5. Accounted'
  BY <1>1 DEF Accounted, LogoutDue
<1>. QED
  BY <1>4, <1>5

\* The event of an unlinked device, and its publication.
LEMMA ServerLogoutKept ==
    ASSUME PInv, LogoutKept, Accounted, NEW c \in Clients, ServerLogout(c)
    PROVE  LogoutKept' /\ Accounted'
<1>1. /\ UNCHANGED <<instances, object, lo, gone, paired, linked, announced>>
      /\ handler[c].pc = "idle" /\ registered' \in {registered, registered \ {client[c].jid}}
      /\ handler' = [handler EXCEPT ![c] = [pc |-> "row", device |-> client[c].jid]]
  BY DEF ServerLogout, DeleteDevice, DeviceErased, DeviceKept, request
<1>2. /\ handler'[c].pc = "row" /\ handler'[c].device = client[c].jid
      /\ \A b \in Clients : b # c => handler'[b] = handler[b]
  BY <1>1 DEF PInv, TypeOK
<1>3. LogoutKept'
  BY <1>1 DEF LogoutKept
<1>4. \A j : LogoutDue(j) => LogoutDue(j)'
  BY <1>1, <1>2 DEF LogoutDue
<1>5. \A j : j = client[c].jid => LogoutDue(j)'
  BY <1>2 DEF LogoutDue
<1>6. Accounted'
  BY <1>1, <1>4, <1>5 DEF Accounted
<1>. QED
  BY <1>3, <1>6

LEMMA LoggedOutPublishKept ==
    ASSUME PInv, LogoutKept, Accounted, NEW c \in Clients, LoggedOutPublish(c)
    PROVE  LogoutKept' /\ Accounted'
<1>1. /\ UNCHANGED <<instances, object, lo, gone, paired, linked, registered>>
      /\ announced' = announced \cup {handler[c].device} /\ handler' = [handler EXCEPT ![c] = NoEvent]
  BY DEF LoggedOutPublish, request
<1>2. \A b \in Clients : b # c => handler'[b] = handler[b]
  BY <1>1 DEF PInv, TypeOK
<1>3. LogoutKept'
  BY <1>1 DEF LogoutKept
<1>4. \A j : LogoutDue(j) => LogoutDue(j)' \/ j = handler[c].device
  BY <1>1, <1>2 DEF LogoutDue
<1>. QED
  BY <1>1, <1>3, <1>4 DEF Accounted

\* The other steps of handlers and connections.
LEMMA ConnectionKept ==
    ASSUME PInv, Running, LogoutKept, Accounted, NEW c \in Clients,
           \/ Connect(c) \/ Pair(c) \/ PairSuccess(c) \/ LoggedOutRow(c)
           \/ ConnectionLost(c) \/ AutoReconnect(c)
    PROVE  LogoutKept' /\ Accounted'
<1>0. handler \in [Clients -> EventRec]
  BY DEF PInv, TypeOK
<1>1. KeepsLogouts
  <2>1. CASE Pair(c)
    <3>1. PICK r : handler' = [handler EXCEPT ![c] = r]
      BY <2>1 DEF Pair
    <3>. QED
      BY <1>0, <2>1, <3>1 DEF Pair, KeepsLogouts
  <2>2. CASE PairSuccess(c)
    BY <1>0, <2>2 DEF PairSuccess, KeepsLogouts
  <2>3. CASE LoggedOutRow(c)
    BY <1>0, <2>3 DEF LoggedOutRow, KeepsLogouts, EventRec
  <2>4. CASE Connect(c) \/ ConnectionLost(c) \/ AutoReconnect(c)
    BY <2>4 DEF Connect, ConnectionLost, AutoReconnect, KeepsLogouts
  <2>. QED
    BY <2>1, <2>2, <2>3, <2>4
<1>2. UNCHANGED <<instances, object, lo, gone, announced>>
  BY DEF Connect, Pair, PairSuccess, LoggedOutRow, ConnectionLost, AutoReconnect, request, world
<1>3. paired' \ (linked' \cup registered') \subseteq paired \ (linked \cup registered)
  BY DEF Connect, Pair, PairSuccess, LoggedOutRow, ConnectionLost, AutoReconnect, world
<1>. QED
  BY <1>1, <1>2, <1>3, LogoutFrame

LEMMA RunningKept ==
    ASSUME PInv, MarkerOwned, LogoutKept, Accounted, linked \subseteq registered, Deletes = {}, Running
    PROVE  LogoutKept' /\ Accounted'
<1>0. /\ \A o \in Objects : object[o].id # NoId => object'[o].id = object[o].id
      /\ Shutdown \/ \A id \in Ids : instances[id] # NoObject => instances'[id] # NoObject
  BY StructsKeepIds, EntriesStay DEF NoDeletes
<1>1. CASE Shutdown
  <2>1. UNCHANGED <<handler, lo, registered, linked, paired, announced>>
        /\ \A l \in Logouts : lo[l].pc = "idle"
    BY <1>1 DEF Shutdown, request, world
  <2>. QED
    BY <2>1 DEF LogoutKept, Accounted, LogoutDue
<1>2. ASSUME UNCHANGED <<handler, lo, gone, registered, linked, paired, announced>>, ~Shutdown
      PROVE  LogoutKept' /\ Accounted'
  <2>1. KeepsLogouts
    BY <1>2 DEF KeepsLogouts
  <2>. QED
    BY <1>0, <1>2, <2>1, LogoutFrame
<1>3. ASSUME NEW id \in Ids, RestartInstance(id) \/ RebuildRuns(id), ~Shutdown
      PROVE  LogoutKept' /\ Accounted'
  BY <1>2, <1>3 DEF RestartInstance, RebuildRuns, request, world
<1>4. ASSUME NEW id \in Ids, NEW cfg \in Configs, ~Shutdown,
             CreateInstance(id, cfg) \/ UpdateInstanceConfig(id, cfg)
      PROVE  LogoutKept' /\ Accounted'
  BY <1>2, <1>4 DEF CreateInstance, UpdateInstanceConfig, request, world
<1>5. ASSUME NEW l \in Logouts, LogoutStep(l) \/ \E id \in Ids : LogoutBegin(l, id)
      PROVE  LogoutKept' /\ Accounted'
  BY <1>5, LogoutBeginKept, LogoutDeviceKept, LogoutRowKept, LogoutPublishKept, LogoutRebuildKept
     DEF LogoutStep
<1>6. ASSUME NEW r \in Deletes \cup Logouts, CallerLeaves(r) PROVE LogoutKept' /\ Accounted'
  BY <1>6, CallerLeavesKept
<1>7. ASSUME NEW p \in Polls, PollStep(p) \/ \E id \in Ids : PollBegin(p, id), ~Shutdown
      PROVE  LogoutKept' /\ Accounted'
  BY <1>2, <1>7, PollFrame
<1>8. ASSUME NEW c \in Clients,
             \/ Connect(c) \/ Pair(c) \/ HandlerStep(c) \/ ServerLogout(c)
             \/ ConnectionLost(c) \/ AutoReconnect(c)
      PROVE  LogoutKept' /\ Accounted'
  BY <1>8, ConnectionKept, ServerLogoutKept, LoggedOutPublishKept DEF HandlerStep
<1>. QED
  BY <1>1, <1>3, <1>4, <1>5, <1>6, <1>7, <1>8 DEF Running

\* Without deletes a device that WhatsApp holds to be linked is one that
\* whatsmeow has: only a logout unlinks, and only what is unlinked is erased.
LEMMA NextLinked ==
    ASSUME linked \subseteq registered, Deletes = {}, [Next]_vars PROVE linked' \subseteq registered'
<1>1. ASSUME NEW c, DeviceErased(c) \/ DeviceKept(c), linked' \subseteq linked \ {client[c].jid}
      PROVE  linked' \subseteq registered'
  BY <1>1 DEF DeviceErased, DeviceKept
<1>2. ASSUME NEW l \in Logouts, LogoutDevice(l) PROVE linked' \subseteq registered'
  BY <1>1, <1>2 DEF LogoutDevice, Unlink
<1>3. ASSUME NEW c \in Clients, ServerLogout(c) PROVE linked' \subseteq registered'
  BY <1>1, <1>3 DEF ServerLogout, DeleteDevice
<1>4. ASSUME NEW c \in Clients, Pair(c) PROVE linked' \subseteq registered'
  BY <1>4 DEF Pair
<1>5. ASSUME NEW device \in Devices, PhoneUnlinks(device) PROVE linked' \subseteq registered'
  BY <1>5 DEF PhoneUnlinks
<1>. QED
  BY <1>2, <1>3, <1>4, <1>5, PollFrame
     DEF Next, RestoreInstances, EnsureSingleInstance, Shutdown, ProcessEnds, RestartInstance, RebuildRuns,
         CreateInstance, UpdateInstanceConfig, LogoutStep, LogoutBegin, LogoutRow, LogoutPublish,
         LogoutRebuild, CallerLeaves, Connect, HandlerStep, PairSuccess, LoggedOutRow, LoggedOutPublish,
         ConnectionLost, AutoReconnect, world, vars

LEMMA NextKept ==
    ASSUME PInv, Down, MarkerOwned, LogoutKept, Accounted, linked \subseteq registered, Deletes = {},
           [Next]_vars
    PROVE  LogoutKept' /\ Accounted'
<1>1. CASE RestoreInstances \/ EnsureSingleInstance
  <2>1. UNCHANGED <<handler, lo, registered, linked, paired, announced>>
        /\ \A l \in Logouts : lo[l].pc = "idle"
    BY <1>1 DEF RestoreInstances, EnsureSingleInstance, request, world, Down
  <2>. QED
    BY <2>1 DEF LogoutKept, Accounted, LogoutDue
<1>2. CASE ProcessEnds
  <2>1. /\ UNCHANGED <<registered, linked, paired>> /\ \A l \in Logouts : lo'[l].pc = "idle"
        /\ announced' = announced \cup {j \in Devices : AnnouncementDue(j)}
    BY <1>2 DEF ProcessEnds, NoLogout
  <2>2. \A j : LogoutDue(j) => AnnouncementDue(j)
    BY DEF LogoutDue, AnnouncementDue
  <2>3. paired \subseteq Devices
    BY DEF PInv, TypeOK
  <2>. QED
    BY <2>1, <2>2, <2>3 DEF LogoutKept, Accounted
<1>3. CASE Running
  BY <1>3, RunningKept
<1>4. CASE \E device \in Devices : PhoneUnlinks(device)
  <2>1. UNCHANGED <<instances, object, handler, lo, gone, registered, paired, announced>>
        /\ linked' \cup registered' = linked \cup registered
    BY <1>4 DEF PhoneUnlinks, memory, request
  <2>2. KeepsLogouts
    BY <2>1 DEF KeepsLogouts
  <2>. QED
    BY <2>1, <2>2, LogoutFrame
<1>5. CASE UNCHANGED vars
  BY <1>5 DEF vars, memory, request, world, LogoutKept, Accounted, LogoutDue
<1>. QED
  BY <1>1, <1>2, <1>3, <1>4, <1>5, NextSplits

\* Every logout is announced, whoever began it and whatever else goes on, as
\* long as nobody deletes instances (a delete and an API logout that overlap
\* leave it to each other, see README.md).
THEOREM SpecLogoutAnnounced == ASSUME Deletes = {} PROVE Spec => []LogoutAnnounced
<1>1. Init => PInv /\ Down /\ MarkerOwned /\ LogoutKept /\ Accounted /\ linked \subseteq registered
  <2>1. Init => LogoutKept /\ Accounted /\ linked \subseteq registered
    BY DEF Init, LogoutKept, Accounted, NoLogout
  <2>. QED
    BY <2>1, InitPInv, InitDown, InitMarker
<1>2. PInv /\ Down /\ MarkerOwned /\ LogoutKept /\ Accounted /\ linked \subseteq registered /\ [Next]_vars
      => (PInv /\ Down /\ MarkerOwned /\ LogoutKept /\ Accounted /\ linked \subseteq registered)'
  BY NextPInv, NextMarker, NextKept, NextLinked
<1>3. Accounted => LogoutAnnounced
  BY DEF Accounted, LogoutAnnounced, LogoutDue, AnnouncementDue
<1>. QED
  BY <1>1, <1>2, <1>3, PTL DEF Spec

-----------------------------------------------------------------------------
(* What a step does to clients and devices. *)

\* A client that is not replaced: it keeps its id and, unless its device is
\* deleted, everything but the connection, which comes up only where a
\* connection was under way.
Same(c) ==
    /\ client'[c].id = client[c].id
    /\ \/ /\ client'[c].jid = client[c].jid /\ client'[c].dead = client[c].dead
          /\ client'[c].ws = "on" => client[c].ws = "on" \/ (UnderWay(c) /\ ~client[c].dead)
          /\ client'[c].ws = "lost" => client[c].ws # "off"
       \/ /\ client[c].jid # NoDevice /\ client[c].jid \notin registered'
          /\ client'[c].jid = NoDevice /\ client'[c].dead = TRUE
          /\ client'[c].ws \in {"off", "lost"}
          /\ client'[c].ws = "lost" => client[c].ws = "lost"

\* The steps that make no client and pair none.
Quiet ==
    \/ Shutdown
    \/ \E id \in Ids, cfg \in Configs : UpdateInstanceConfig(id, cfg)
    \/ \E d \in Deletes : DeleteStep(d) \/ \E id \in Ids : DeleteBegin(d, id)
    \/ \E l \in Logouts : LogoutDevice(l) \/ LogoutRow(l) \/ LogoutPublish(l)
                          \/ \E id \in Ids : LogoutBegin(l, id)
    \/ \E r \in Deletes \cup Logouts : CallerLeaves(r)
    \/ \E p \in Polls : PollStep(p) \/ \E id \in Ids : PollBegin(p, id)
    \/ \E c \in Clients : \/ Connect(c) \/ HandlerStep(c) \/ ServerLogout(c)
                          \/ ConnectionLost(c) \/ AutoReconnect(c)

\* The steps that make a client for id.
Builds(id) ==
    \/ RestartInstance(id) \/ RebuildRuns(id) \/ \E cfg \in Configs : CreateInstance(id, cfg)
    \/ \E l \in Logouts : LogoutRebuild(l) /\ object[lo[l].inst].id = id

LEMMA RunningSplits ==
    ASSUME PInv, Running
    PROVE  Quiet \/ (\E id \in Ids : Builds(id)) \/ \E c \in Clients : Pair(c)
<1>1. \A l \in Logouts : LogoutRebuild(l) => object[lo[l].inst].id \in Ids
  BY LogoutHolds DEF LogoutRebuild
<1>. QED
  BY <1>1 DEF Running, Quiet, Builds, LogoutStep

\* A step that leaves the clients alone.
LEMMA ClientsStay == ASSUME client' = client PROVE \A c \in Clients : Same(c)
BY DEF Same

\* Service.Disconnect, as a step.
LEMMA SocketSame ==
    ASSUME PInv, NEW c, NEW ws \in {"off", "lost", "on"}, client' = [client EXCEPT ![c].ws = ws],
           c \in Clients => \/ ws \in {"off", client[c].ws}
                            \/ ws = "lost" /\ client[c].ws = "on"
                            \/ ws = "on" /\ UnderWay(c) /\ ~client[c].dead
    PROVE  \A b \in Clients : Same(b)
<1>1. client \in [Clients -> ClientRec]
  BY DEF PInv, TypeOK
<1>2. \A b \in Clients : /\ b # c => client'[b] = client[b]
                         /\ client'[b].id = client[b].id /\ client'[b].jid = client[b].jid
                         /\ client'[b].dead = client[b].dead
                         /\ b = c => client'[b].ws = ws
  BY <1>1 DEF ClientRec
<1>. QED
  BY <1>1, <1>2 DEF Same

LEMMA DeleteDeviceSame ==
    ASSUME PInv, NEW c, DeviceErased(c) \/ DeviceKept(c)
    PROVE  /\ \A b \in Clients : Same(b)
           /\ registered' \in {registered, registered \ {client[c].jid}}
<1>. DEFINE cl == Disconnect(client, c)
<1>1. client \in [Clients -> ClientRec] /\ cl \in [Clients -> ClientRec]
  BY DisconnectFrame DEF PInv, TypeOK
<1>2. \/ client' = EraseDevice(cl, c) /\ registered' = registered \ {client[c].jid}
      \/ client' = cl /\ registered' = registered
  BY DEF DeviceErased, DeviceKept
<1>3. \A b \in Clients : /\ b # c => cl[b] = client[b]
                         /\ cl[b].id = client[b].id /\ cl[b].jid = client[b].jid
                         /\ cl[b].dead = client[b].dead /\ cl[b].ws \in {"off", client[b].ws}
                         /\ b = c => cl[b].ws # "on"
  BY <1>1 DEF Disconnect, ClientRec
<1>. HIDE DEF cl
<1>4. \A b \in Clients : b # c => client'[b] = client[b]
  BY <1>1, <1>2, <1>3 DEF EraseDevice
<1>5. ASSUME c \in Clients PROVE Same(c)
  <2>1. CASE client' = cl
    BY <1>3, <1>5, <2>1 DEF Same
  <2>2. CASE cl[c].jid = NoDevice
    BY <1>2, <1>3, <1>5, <2>2 DEF EraseDevice, Same
  <2>3. CASE cl[c].jid # NoDevice /\ client' = EraseDevice(cl, c) /\ registered' = registered \ {client[c].jid}
    <3>1. /\ client'[c].id = cl[c].id /\ client'[c].ws = cl[c].ws
          /\ client'[c].jid = NoDevice /\ client'[c].dead
      BY <1>1, <1>5, <2>3 DEF EraseDevice, ClientRec
    <3>2. cl[c].ws \in {"off", "lost"}
      BY <1>1, <1>3, <1>5 DEF ClientRec
    <3>. QED
      BY <1>3, <1>5, <2>3, <3>1, <3>2 DEF Same
  <2>. QED
    BY <1>2, <2>1, <2>2, <2>3
<1>6. \A b \in Clients : b # c => Same(b)
  BY <1>4 DEF Same
<1>. QED
  BY <1>2, <1>5, <1>6

LEMMA QuietSame ==
    ASSUME PInv, Quiet
    PROVE  (\A c \in Clients : Same(c)) /\ registered' \subseteq registered /\ paired' = paired
<1>. DEFINE Goal == (\A c \in Clients : Same(c)) /\ registered' \subseteq registered /\ paired' = paired
<1>0. /\ client \in [Clients -> ClientRec]
      /\ \A c, b \in Clients : Disconnect(client, c)[b].ws \in {"off", client[b].ws}
                               /\ Disconnect(client, c)[b].id = client[b].id
                               /\ Disconnect(client, c)[b].jid = client[b].jid
                               /\ Disconnect(client, c)[b].dead = client[b].dead
  BY DEF PInv, TypeOK, Disconnect, ClientRec
<1>1. ASSUME UNCHANGED <<client, registered, paired>> PROVE Goal
  BY <1>1, ClientsStay
<1>2. ASSUME NEW c, DeviceErased(c) \/ DeviceKept(c), paired' = paired PROVE Goal
  BY <1>2, DeleteDeviceSame
<1>3. CASE Shutdown
  <2>1. /\ registered' = registered /\ paired' = paired
        /\ \A c \in Clients : client'[c] = client[c] \/ client'[c] = Disconnect(client, c)[c]
    BY <1>3 DEF Shutdown
  <2>2. ASSUME NEW c \in Clients PROVE Same(c)
    BY <1>0, <2>1, <2>2 DEF Same
  <2>. QED
    BY <2>1, <2>2
<1>4. ASSUME NEW id \in Ids, NEW cfg \in Configs, UpdateInstanceConfig(id, cfg) PROVE Goal
  BY <1>1, <1>4 DEF UpdateInstanceConfig, world
<1>5. ASSUME NEW d \in Deletes, DeleteStep(d) \/ \E id \in Ids : DeleteBegin(d, id) PROVE Goal
  <2>1. CASE DeleteUnlink(d)
    BY <1>2, <2>1 DEF DeleteUnlink, DeleteDevice
  <2>. QED
    BY <1>1, <1>5, <2>1 DEF DeleteStep, DeleteBegin, DeleteCheck, DeleteRelease, DeleteStore,
                            DeleteDrop, DeleteClear, memory, world
<1>6. ASSUME NEW l \in Logouts, LogoutDevice(l) \/ LogoutRow(l) \/ LogoutPublish(l)
                                \/ \E id \in Ids : LogoutBegin(l, id)
      PROVE  Goal
  <2>1. CASE LogoutDevice(l)
    BY <1>1, <1>2, <2>1 DEF LogoutDevice
  <2>. QED
    BY <1>1, <1>6, <2>1 DEF LogoutRow, LogoutPublish, LogoutBegin, memory, world
<1>7. ASSUME NEW r \in Deletes \cup Logouts, CallerLeaves(r) PROVE Goal
  BY <1>1, <1>7 DEF CallerLeaves, memory
<1>8. ASSUME NEW p \in Polls, PollStep(p) \/ \E id \in Ids : PollBegin(p, id)
      PROVE  Goal
  <2>1. registered' = registered /\ paired' = paired
    BY <1>8, PollFrame
  <2>2. \/ client' = client
        \/ client' = [client EXCEPT ![po[p].client].ws = "off"]
        \/ PollConnect(p)
    BY <1>8 DEF PollStep, PollCheck, PollDisconnect, PollChannel, PollEnd, PollBegin, memory
  <2>3. CASE PollConnect(p)
    <3>1. UnderWay(po[p].client)
      BY <2>3 DEF PollConnect, UnderWay
    <3>2. \/ client' = client
          \/ ~client[po[p].client].dead /\ client' = [client EXCEPT ![po[p].client].ws = "on"]
      BY <2>3 DEF PollConnect, Connected
    <3>. QED
      BY <2>1, <3>1, <3>2, ClientsStay, SocketSame
  <2>. QED
    BY <2>1, <2>2, <2>3, ClientsStay, SocketSame
<1>9. ASSUME NEW c \in Clients, Connect(c) \/ ConnectionLost(c) \/ AutoReconnect(c) PROVE Goal
  <2>1. registered' = registered /\ paired' = paired
    BY <1>9 DEF Connect, ConnectionLost, AutoReconnect, world
  <2>2. \/ client' = client
        \/ \E ws \in {"off", "lost", "on"} :
             /\ client' = [client EXCEPT ![c].ws = ws]
             /\ \/ ws = "off"
                \/ ws = "lost" /\ client[c].ws = "on"
                \/ ws = "on" /\ UnderWay(c) /\ ~client[c].dead
    BY <1>9 DEF Connect, Connected, ConnectionLost, AutoReconnect, UnderWay
  <2>. QED
    BY <2>1, <2>2, ClientsStay, SocketSame
<1>10. ASSUME NEW c \in Clients, HandlerStep(c) \/ ServerLogout(c) PROVE Goal
  BY <1>1, <1>2, <1>10 DEF DeleteDevice, HandlerStep, PairSuccess, LoggedOutRow, LoggedOutPublish, ServerLogout, world
<1>. QED
  BY <1>3, <1>4, <1>5, <1>6, <1>7, <1>8, <1>9, <1>10 DEF Quiet

LEMMA QuietPointers ==
    ASSUME PInv, Quiet
    PROVE  /\ \A o \in Objects : object'[o].id = object[o].id /\ object'[o].service = object[o].service
           /\ \A id \in Ids : instances'[id] \in {instances[id], NoObject}
<1>. DEFINE Kept == \A o \in Objects : object'[o].id = object[o].id /\ object'[o].service = object[o].service
            Map  == \A id \in Ids : instances'[id] \in {instances[id], NoObject}
<1>0. object \in [Objects -> InstanceRec] /\ instances \in [Ids -> Objects \cup {NoObject}]
  BY DEF PInv, TypeOK
<1>1. ASSUME object' = object PROVE Kept
  BY <1>1
<1>2. ASSUME NEW q, NEW f, object' \in {[object EXCEPT ![q].config = f], [object EXCEPT ![q].dedup = f],
                                        [object EXCEPT ![q].deleting = f]}
      PROVE  Kept
  BY <1>0, <1>2 DEF InstanceRec
<1>3. ASSUME Shutdown PROVE Kept
  BY <1>0, <1>3 DEF Shutdown, InstanceRec
<1>4. ASSUME NEW id \in Ids, NEW cfg \in Configs, UpdateInstanceConfig(id, cfg) PROVE Kept /\ Map
  BY <1>2, <1>4 DEF UpdateInstanceConfig
<1>5. ASSUME NEW d \in Deletes, DeleteStep(d) \/ \E id \in Ids : DeleteBegin(d, id) PROVE Kept /\ Map
  <2>1. \/ object' = object
        \/ \E q, f : object' \in {[object EXCEPT ![q].deleting = f], [object EXCEPT ![q].dedup = f]}
    BY <1>5 DEF DeleteStep, DeleteBegin, DeleteCheck, DeleteUnlink, DeleteRelease, DeleteStore,
                DeleteDrop, DeleteClear, memory
  <2>2. instances' = instances \/ instances' = [instances EXCEPT ![del[d].id] = NoObject]
    BY <1>5 DEF DeleteStep, DeleteBegin, DeleteCheck, DeleteUnlink, DeleteRelease, DeleteStore,
                DeleteDrop, DeleteClear, memory
  <2>3. Map
    BY <1>0, <2>2
  <2>. QED
    BY <1>1, <1>2, <2>1, <2>3
<1>6. CASE UNCHANGED <<object, instances>>
  BY <1>1, <1>6
<1>7. CASE \E l \in Logouts : LogoutDevice(l) \/ LogoutRow(l) \/ LogoutPublish(l)
                              \/ \E id \in Ids : LogoutBegin(l, id)
  BY <1>6, <1>7 DEF LogoutDevice, LogoutRow, LogoutPublish, LogoutBegin, memory
<1>8. CASE \E r \in Deletes \cup Logouts : CallerLeaves(r)
  BY <1>6, <1>8 DEF CallerLeaves, memory
<1>9. CASE \E p \in Polls : PollStep(p) \/ \E id \in Ids : PollBegin(p, id)
  BY <1>6, <1>9, PollFrame
<1>10. CASE \E c \in Clients : \/ Connect(c) \/ HandlerStep(c) \/ ServerLogout(c)
                               \/ ConnectionLost(c) \/ AutoReconnect(c)
  BY <1>6, <1>10 DEF Connect, HandlerStep, PairSuccess, LoggedOutRow, LoggedOutPublish, ServerLogout,
                     ConnectionLost, AutoReconnect
<1>11. CASE Shutdown
  <2>1. Map
    BY <1>11 DEF Shutdown
  <2>. QED
    BY <1>3, <1>11, <2>1
<1>. QED
  BY <1>4, <1>5, <1>7, <1>8, <1>9, <1>10, <1>11 DEF Quiet

\* The client c is made for id, and o becomes or stays the struct of id; the
\* client that id had before is disconnected.
Replaced(id, o, c) ==
    /\ instances'[id] = o /\ \A i \in Ids : i # id => instances'[i] = instances[i]
    /\ object'[o].id = id /\ object'[o].service = c
    /\ \A q \in Objects : q # o => object'[q].id = object[q].id
                                   /\ object'[q].service = object[q].service
    /\ client'[c].id = id /\ client'[c].dead = FALSE
    /\ \/ client'[c].jid = NoDevice /\ client'[c].ws = "off"
       \/ /\ MayRestart /\ Multi /\ instances[id] # NoObject /\ client'[c].ws \in {"off", "on"}
          /\ client'[c].jid \in {NoDevice, client[object[instances[id]].service].jid}
    /\ instances[id] # NoObject =>
         LET old == object[instances[id]].service IN
         /\ client'[old].ws # "on"
         /\ \/ old \in loose'
            \/ ~UnderWay(old) /\ (instances'[id] = instances[id] \/ ~ToCome(old))
    /\ (o = instances[id] /\ ~object[o].deleting) \/ object[o].id = NoId
    /\ loose \subseteq loose'
    /\ \A b \in Clients : b # c =>
         /\ client'[b].id = client[b].id /\ client'[b].jid = client[b].jid
         /\ client'[b].dead = client[b].dead /\ client'[b].ws \in {"off", client[b].ws}

\* A client takes the place of another that is disconnected for it.
LEMMA ReplaceSame ==
    ASSUME PInv, NEW old \in Clients, client[old].id # NoId, NEW c \in NewClients,
           NEW r \in ClientRec, client' = [Disconnect(client, old) EXCEPT ![c] = r]
    PROVE  /\ c # old /\ client'[c] = r /\ client'[old].ws # "on"
           /\ \A b \in Clients : b # c =>
                /\ client'[b].id = client[b].id /\ client'[b].jid = client[b].jid
                /\ client'[b].dead = client[b].dead /\ client'[b].ws \in {"off", client[b].ws}
<1>. DEFINE cl == Disconnect(client, old)
<1>1. client \in [Clients -> ClientRec] /\ cl \in [Clients -> ClientRec]
  BY DisconnectFrame DEF PInv, TypeOK
<1>2. c \in Clients /\ c # old
  BY DEF NewClients
<1>3. /\ cl[old].ws # "on"
      /\ \A b \in Clients : /\ cl[b].id = client[b].id /\ cl[b].jid = client[b].jid
                            /\ cl[b].dead = client[b].dead /\ cl[b].ws \in {"off", client[b].ws}
  BY <1>1 DEF Disconnect, ClientRec
<1>4. client' = [cl EXCEPT ![c] = r]
  OBVIOUS
<1>. HIDE DEF cl
<1>5. client'[c] = r /\ \A b \in Clients : b # c => client'[b] = cl[b]
  BY <1>1, <1>2, <1>4
<1>. QED
  BY <1>2, <1>3, <1>5

LEMMA RebuildShape ==
    ASSUME PInv, NEW id \in Ids, RebuildService(id), instances' = instances
    PROVE  \/ Lookup(id) = NoObject /\ UNCHANGED <<object, client, loose>>
           \/ \E o \in Objects, c \in NewClients : Replaced(id, o, c)
<1>1. SUFFICES ASSUME Lookup(id) # NoObject
               PROVE  \E o \in Objects, c \in NewClients : Replaced(id, o, c)
  BY DEF RebuildService
<1>. DEFINE o   == Lookup(id)
            old == object[o].service
            r   == NewClient(id, NoDevice, object[o].config, FALSE)
<1>2. PICK c \in NewClients : /\ client' = [Disconnect(client, old) EXCEPT ![c] = r]
                              /\ object' = [object EXCEPT ![o].service = c]
                              /\ loose' = IF UnderWay(old) THEN loose \cup {old} ELSE loose
  BY <1>1 DEF RebuildService, LetGo
<1>3. o \in Objects /\ object[o].id = id /\ instances[id] = o /\ ~object[o].deleting
  BY <1>1, LookupFinds DEF Lookup
<1>4. /\ object \in [Objects -> InstanceRec] /\ old \in Clients /\ client[old].id # NoId
      /\ registered \subseteq Devices
  BY <1>3, Held, NullAssumption DEF PInv, TypeOK
<1>5. r \in ClientRec /\ r.id = id /\ r.jid = NoDevice /\ r.ws = "off" /\ r.dead = FALSE
  BY <1>3, <1>4 DEF NewClient, InstanceRec, ClientRec, AnyDevice
<1>. HIDE DEF r
<1>6. /\ c # old /\ client'[c] = r /\ client'[old].ws # "on"
      /\ \A b \in Clients : b # c =>
           /\ client'[b].id = client[b].id /\ client'[b].jid = client[b].jid
           /\ client'[b].dead = client[b].dead /\ client'[b].ws \in {"off", client[b].ws}
  BY <1>2, <1>4, <1>5, ReplaceSame
<1>7. /\ object'[o].id = id /\ object'[o].service = c
      /\ \A q \in Objects : q # o => object'[q] = object[q]
  BY <1>2, <1>3, <1>4 DEF InstanceRec
<1>8. instances'[id] = o /\ \A i \in Ids : i # id => instances'[i] = instances[i]
  BY <1>3
<1>9. loose \subseteq loose' /\ (old \in loose' \/ ~UnderWay(old))
  BY <1>2
<1>10. c \in Clients /\ object[instances[id]].service = old
  BY <1>3 DEF NewClients
<1>. HIDE DEF o, old
<1>11. Replaced(id, o, c)
  BY <1>3, <1>5, <1>6, <1>7, <1>8, <1>9, <1>10 DEF Replaced
<1>. QED
  BY <1>3, <1>11

LEMMA RestartShape ==
    ASSUME PInv, NEW id \in Ids, RestartInstance(id)
    PROVE  \E o \in Objects, c \in NewClients : Replaced(id, o, c)
<1>. DEFINE o   == Lookup(id)
            old == object[o].service
            cfg == object[o].config
            found == Found(client[old].jid)
<1>1. PICK n \in NewObjects, c \in NewClients, jid \in found, up \in BOOLEAN :
        /\ client' = [Disconnect(client, old) EXCEPT ![c] = NewClient(id, jid, cfg, up)]
        /\ object' = [object EXCEPT ![o].dedup = FALSE, ![n] = BuiltInstance(id, c, cfg)]
        /\ instances' = [instances EXCEPT ![id] = n]
        /\ loose' = IF ToCome(old) THEN loose \cup {old} ELSE loose
  <2>1. PICK n \in NewObjects, c \in NewClients, jid \in found, up \in BOOLEAN :
          /\ client' = [Disconnect(client, old) EXCEPT ![c] = NewClient(id, jid, cfg, up)]
          /\ object' = [object EXCEPT ![o].dedup = FALSE, ![n] = BuiltInstance(id, c, cfg)]
          /\ instances' = [instances EXCEPT ![id] = n]
          /\ LetGo(old, ToCome(old))
    BY ZenonT(60) DEF RestartInstance
  <2>. HIDE DEF o, old, cfg, found
  <2>. QED
    BY <2>1 DEF LetGo
<1>2. o \in Objects /\ object[o].id = id /\ instances[id] = o /\ n \in Objects /\ n # o
      /\ MayRestart /\ Multi /\ object[n].id = NoId
  <2>1. Lookup(id) # NoObject /\ MayRestart /\ Multi
    BY DEF RestartInstance
  <2>2. o \in Objects /\ object[o].id = id /\ instances[id] = o
    BY <2>1, LookupFinds
  <2>3. n \in Objects /\ object[n].id = NoId
    BY DEF NewObjects
  <2>. HIDE DEF o, found
  <2>. QED
    BY <2>1, <2>2, <2>3, NullAssumption
<1>3. /\ object \in [Objects -> InstanceRec] /\ old \in Clients /\ client[old].id # NoId
      /\ registered \subseteq Devices /\ client[old].jid \in AnyDevice
      /\ instances \in [Ids -> Objects \cup {NoObject}]
  BY <1>2, Held, NullAssumption DEF PInv, TypeOK
<1>. DEFINE r == NewClient(id, jid, cfg, up)
<1>10. jid \in {NoDevice, client[old].jid}
  BY DEF Found
<1>4. /\ r \in ClientRec /\ r.id = id /\ r.jid \in {NoDevice, client[old].jid}
      /\ r.ws \in {"off", "on"} /\ r.dead = FALSE
  BY <1>2, <1>3, <1>10 DEF NewClient, InstanceRec, ClientRec, AnyDevice
<1>5. client' = [Disconnect(client, old) EXCEPT ![c] = r]
  BY <1>1
<1>. HIDE DEF r
<1>6. /\ c # old /\ client'[c] = r /\ client'[old].ws # "on"
      /\ \A b \in Clients : b # c =>
           /\ client'[b].id = client[b].id /\ client'[b].jid = client[b].jid
           /\ client'[b].dead = client[b].dead /\ client'[b].ws \in {"off", client[b].ws}
  BY <1>3, <1>4, <1>5, ReplaceSame
<1>7. /\ object'[n].id = id /\ object'[n].service = c
      /\ \A q \in Objects : q # n => object'[q].id = object[q].id
                                     /\ object'[q].service = object[q].service
  <2>. HIDE DEF o, old, cfg, found
  <2>1. object'[n] = BuiltInstance(id, c, cfg)
    BY <1>1, <1>2, <1>3
  <2>2. ASSUME NEW q \in Objects, q # n
        PROVE  object'[q].id = object[q].id /\ object'[q].service = object[q].service
    BY <1>1, <1>2, <1>3, <2>2 DEF InstanceRec
  <2>. QED
    BY <2>1, <2>2 DEF BuiltInstance
<1>8. instances'[id] = n /\ \A i \in Ids : i # id => instances'[i] = instances[i]
  BY <1>1, <1>3
<1>9. Replaced(id, n, c)
  <2>1. instances[id] # NoObject /\ object[instances[id]].service = old
    BY <1>2, NullAssumption
  <2>2. loose \subseteq loose' /\ (old \in loose' \/ (~ToCome(old) /\ ~UnderWay(old)))
    BY <1>1 DEF ToCome
  <2>. HIDE DEF old, o
  <2>. QED
    BY <1>2, <1>4, <1>6, <1>7, <1>8, <2>1, <2>2 DEF Replaced
<1>. QED
  BY <1>2, <1>9

LEMMA CreateShape ==
    ASSUME PInv, NEW id \in Ids, NEW cfg \in Configs, CreateInstance(id, cfg)
    PROVE  instances[id] = NoObject /\ \E o \in Objects, c \in NewClients : Replaced(id, o, c)
<1>1. PICK o \in NewObjects, c \in NewClients :
        /\ client' = [client EXCEPT ![c] = NewClient(id, NoDevice, cfg, FALSE)]
        /\ object' = [object EXCEPT ![o] = BuiltInstance(id, c, cfg)]
        /\ instances' = [instances EXCEPT ![id] = o]
  BY DEF CreateInstance
<1>2. /\ object \in [Objects -> InstanceRec] /\ client \in [Clients -> ClientRec]
      /\ instances \in [Ids -> Objects \cup {NoObject}] /\ instances[id] = NoObject
      /\ registered \subseteq Devices /\ o \in Objects /\ c \in Clients
      /\ object[o].id = NoId /\ loose' = loose
  BY DEF PInv, TypeOK, CreateInstance, NewObjects, NewClients, world, lapses
<1>3. /\ client'[c] = NewClient(id, NoDevice, cfg, FALSE)
      /\ \A b \in Clients : b # c => client'[b] = client[b]
      /\ object'[o] = BuiltInstance(id, c, cfg)
      /\ \A q \in Objects : q # o => object'[q] = object[q]
      /\ instances'[id] = o /\ \A i \in Ids : i # id => instances'[i] = instances[i]
  BY <1>1, <1>2
<1>4. /\ client'[c].id = id /\ client'[c].jid = NoDevice /\ client'[c].ws = "off"
      /\ client'[c].dead = FALSE /\ object'[o].id = id /\ object'[o].service = c
  BY <1>2, <1>3 DEF NewClient, BuiltInstance
<1>5. Replaced(id, o, c)
  BY <1>2, <1>3, <1>4 DEF Replaced
<1>. QED
  BY <1>2, <1>5

\* What is common to the steps that make a client.
LEMMA BuildsShape ==
    ASSUME PInv, NEW id \in Ids, Builds(id)
    PROVE  /\ UNCHANGED <<phase, handler, connects, po, del, registered, linked, paired>>
           /\ \/ Lookup(id) = NoObject /\ UNCHANGED <<instances, object, client, loose>>
              \/ \E o \in Objects, c \in NewClients : Replaced(id, o, c)
<1>1. CASE RestartInstance(id)
  BY <1>1, RestartShape DEF RestartInstance, request
<1>2. CASE RebuildRuns(id)
  BY <1>2, RebuildShape DEF RebuildRuns, request
<1>3. ASSUME NEW cfg \in Configs, CreateInstance(id, cfg)
      PROVE  /\ UNCHANGED <<phase, handler, connects, po, del, registered, linked, paired>>
             /\ \E o \in Objects, c \in NewClients : Replaced(id, o, c)
  BY <1>3, CreateShape DEF CreateInstance, request, world
<1>4. ASSUME NEW l \in Logouts, LogoutRebuild(l), object[lo[l].inst].id = id
      PROVE  /\ UNCHANGED <<phase, handler, connects, po, del, registered, linked, paired>>
             /\ \/ Lookup(id) = NoObject /\ UNCHANGED <<instances, object, client, loose>>
                \/ \E o \in Objects, c \in NewClients : Replaced(id, o, c)
  BY <1>4, RebuildShape DEF LogoutRebuild
<1>. QED
  BY <1>1, <1>2, <1>3, <1>4 DEF Builds

\* A pairing gives one client a device that never was.
LEMMA PairShape ==
    ASSUME PInv, NEW c \in Clients, Pair(c)
    PROVE  \E device \in Devices \ paired :
             /\ client[c].ws = "on" /\ client[c].jid = NoDevice /\ client[c].id \in Ids
             /\ client'[c].id = client[c].id /\ client'[c].jid = device
             /\ client'[c].dead = client[c].dead /\ client'[c].ws = "on"
             /\ handler[c].pc = "idle" /\ handler'[c] = [pc |-> "paired", device |-> device]
             /\ \A b \in Clients : b # c => client'[b] = client[b] /\ handler'[b] = handler[b]
             /\ registered' = registered \cup {device} /\ paired' = paired \cup {device}
<1>1. client \in [Clients -> ClientRec] /\ handler \in [Clients -> EventRec] /\ client[c].id \in Ids
  BY DEF PInv, TypeOK, Built, ClientBuilt, Pair
<1>2. PICK device \in Devices \ paired :
        /\ client' = [client EXCEPT ![c].jid = device]
        /\ handler' = [handler EXCEPT ![c] = [pc |-> "paired", device |-> device]]
        /\ registered' = registered \cup {device} /\ paired' = paired \cup {device}
  BY DEF Pair
<1>3. /\ client'[c].id = client[c].id /\ client'[c].jid = device
      /\ client'[c].dead = client[c].dead /\ client'[c].ws = client[c].ws
      /\ \A b \in Clients : b # c => client'[b] = client[b]
  BY <1>1, <1>2 DEF ClientRec
<1>4. /\ handler'[c] = [pc |-> "paired", device |-> device]
      /\ \A b \in Clients : b # c => handler'[b] = handler[b]
  BY <1>1, <1>2
<1>. QED
  BY <1>1, <1>2, <1>3, <1>4 DEF Pair

\* After a start each client in use is the service of the entry of its id.
LEMMA ProvisionShape ==
    ASSUME NEW ids \in SUBSET Ids, NEW objectOf \in Injections(ids, Objects),
           NEW clientOf \in Injections(ids, Clients), NEW device, NEW cfg, NEW up,
           Provision(ids, objectOf, clientOf, device, cfg, up)
    PROVE  /\ \A id \in Ids \ ids : instances'[id] = NoObject
           /\ \A id \in ids : instances'[id] \in Objects
           /\ \A o \in Objects :
                object'[o] = FreeObject \/ \E id \in ids : instances'[id] = o /\ object'[o].id = id
           /\ \A c \in Clients :
                \/ client'[c] = FreeClient
                \/ \E id \in ids : /\ client'[c] = NewClient(id, device[id], cfg[id], id \in up)
                                   /\ object'[instances'[id]].service = c
<1>1. /\ objectOf \in [ids -> Objects] /\ \A i, j \in ids : objectOf[i] = objectOf[j] => i = j
      /\ clientOf \in [ids -> Clients] /\ \A i, j \in ids : clientOf[i] = clientOf[j] => i = j
  BY DEF Injections
<1>2. instances' = [id \in Ids |-> IF id \in ids THEN objectOf[id] ELSE NoObject]
  BY DEF Provision
<1>3. ASSUME NEW id \in ids PROVE object'[instances'[id]].service = clientOf[id]
  <2>1. objectOf[id] \in Objects /\ instances'[id] = objectOf[id]
    BY <1>1, <1>2
  <2>2. id = CHOOSE i \in ids : objectOf[i] = objectOf[id]
    BY <1>1
  <2>3. object'[objectOf[id]] = BuiltInstance(id, clientOf[id], cfg[id])
    BY <2>1, <2>2 DEF Provision
  <2>. QED
    BY <2>1, <2>3 DEF BuiltInstance
<1>4. ASSUME NEW c \in Clients, NEW id \in ids, clientOf[id] = c
      PROVE  client'[c] = NewClient(id, device[id], cfg[id], id \in up)
  <2>1. id = CHOOSE i \in ids : clientOf[i] = c
    BY <1>1, <1>4
  <2>. QED
    BY <1>4, <2>1 DEF Provision
<1>5. ASSUME NEW c \in Clients, \A id \in ids : clientOf[id] # c PROVE client'[c] = FreeClient
  BY <1>5 DEF Provision
<1>6. \A c \in Clients :
        \/ client'[c] = FreeClient
        \/ \E id \in ids : /\ client'[c] = NewClient(id, device[id], cfg[id], id \in up)
                           /\ object'[instances'[id]].service = c
  BY <1>3, <1>4, <1>5
<1>7. ASSUME NEW o \in Objects, object'[o] # FreeObject
      PROVE  \E id \in ids : instances'[id] = o /\ object'[o].id = id
  <2>1. PICK id \in ids : objectOf[id] = o
    BY <1>7 DEF Provision
  <2>2. id = CHOOSE i \in ids : objectOf[i] = o
    BY <1>1, <2>1
  <2>3. object'[o] = BuiltInstance(id, clientOf[id], cfg[id])
    BY <2>1, <2>2 DEF Provision
  <2>. QED
    BY <1>2, <2>1, <2>3 DEF BuiltInstance
<1>. QED
  BY <1>1, <1>2, <1>6, <1>7

-----------------------------------------------------------------------------
(* Each device belongs to one instance. *)

\* The row, a client, or the login that a handler is about to write.
NamedBy(i, j) ==
    \/ rows[i] # NoRow /\ rows[i].device = j
    \/ \E c \in Clients : /\ client[c].id = i
                          /\ client[c].jid = j \/ (handler[c].pc = "paired" /\ handler[c].device = j)

Owned ==
    /\ \A j \in Devices : \A i, k \in Ids : NamedBy(i, j) /\ NamedBy(k, j) => i = k
    /\ \A j \in Devices, i \in Ids : NamedBy(i, j) => j \in paired
    /\ \A c \in Clients : client[c].jid # NoDevice => client[c].id \in Ids
    /\ registered \subseteq paired

LEMMA OwnedFrame ==
    ASSUME Owned, paired \subseteq paired', registered' \subseteq paired',
           \A j \in Devices, i \in Ids : NamedBy(i, j)' => NamedBy(i, j),
           \A c \in Clients : client'[c].jid # NoDevice => client'[c].id \in Ids
    PROVE  Owned'
BY DEF Owned

\* What the store writes names no device that the instance did not have.
LEMMA RowsNamed ==
    ASSUME PInv, NEW id \in Ids, NEW device \in AnyDevice, NEW cfg,
           UpdateDeviceState(id, device) \/ rows' = SaveInstance(id, cfg)
    PROVE  \A i \in Ids : rows'[i] # NoRow =>
              \/ rows[i] # NoRow /\ rows'[i].device = rows[i].device
              \/ rows'[i].device = NoDevice
              \/ i = id /\ rows'[i].device = device /\ UpdateDeviceState(id, device)
<1>1. rows \in [Ids -> Row \cup {NoRow}]
  BY DEF PInv, TypeOK
<1>2. CASE rows' = rows
  BY <1>2
<1>3. CASE rows[id] # NoRow /\ rows' = [rows EXCEPT ![id].device = device] /\ UpdateDeviceState(id, device)
  BY <1>1, <1>3 DEF Row
<1>4. CASE rows' = SaveInstance(id, cfg)
  BY <1>1, <1>4 DEF SaveInstance, Row
<1>. QED
  BY <1>2, <1>3, <1>4 DEF UpdateDeviceState

\* No quiet step begins a login.
LEMMA QuietHandlers ==
    ASSUME PInv, Quiet
    PROVE  \A c \in Clients : handler'[c].pc = "paired" => handler'[c] = handler[c]
<1>0. handler \in [Clients -> EventRec]
  BY DEF PInv, TypeOK
<1>1. CASE handler' = handler
  BY <1>1
<1>2. ASSUME NEW c \in Clients, NEW r, r.pc # "paired", handler' = [handler EXCEPT ![c] = r]
      PROVE  \A b \in Clients : handler'[b].pc = "paired" => handler'[b] = handler[b]
  BY <1>0, <1>2
<1>3. CASE \E c \in Clients : HandlerStep(c) \/ ServerLogout(c)
  <2>1. PICK c \in Clients : HandlerStep(c) \/ ServerLogout(c)
    BY <1>3
  <2>2. \E r : r.pc # "paired" /\ handler' = [handler EXCEPT ![c] = r]
    <3>1. CASE PairSuccess(c) \/ LoggedOutPublish(c)
      BY <3>1 DEF PairSuccess, LoggedOutPublish, NoEvent
    <3>2. CASE ServerLogout(c)
      BY <3>2 DEF ServerLogout
    <3>3. CASE LoggedOutRow(c)
      <4>. DEFINE r == [handler[c] EXCEPT !.pc = "publish"]
      <4>1. handler' = [handler EXCEPT ![c] = r] /\ r.pc # "paired"
        BY <1>0, <3>3 DEF LoggedOutRow, EventRec
      <4>. QED
        BY <4>1
    <3>. QED
      BY <2>1, <3>1, <3>2, <3>3 DEF HandlerStep
  <2>. QED
    BY <1>2, <2>2
<1>4. CASE ~ \E c \in Clients : HandlerStep(c) \/ ServerLogout(c)
  <2>1. handler' = handler
    BY <1>4, PollFrame DEF Quiet, Shutdown, UpdateInstanceConfig, DeleteStep, DeleteBegin, DeleteCheck, DeleteUnlink,
       DeleteRelease, DeleteStore, DeleteDrop, DeleteClear, LogoutDevice, LogoutRow, LogoutPublish,
       LogoutBegin, CallerLeaves, Connect, ConnectionLost,
       AutoReconnect, memory
  <2>. QED
    BY <1>1, <2>1
<1>. QED
  BY <1>3, <1>4

\* A row names the device it named, none, or the one just logged in.
LEMMA QuietRows ==
    ASSUME PInv, Quiet
    PROVE  \A i \in Ids : rows'[i] # NoRow =>
              \/ rows[i] # NoRow /\ rows'[i].device = rows[i].device
              \/ rows'[i].device = NoDevice
              \/ \E c \in Clients : /\ PairSuccess(c) /\ client[c].id = i
                                    /\ rows'[i].device = handler[c].device
<1>0. rows \in [Ids -> Row \cup {NoRow}] /\ NoDevice \in AnyDevice
  BY DEF PInv, TypeOK, AnyDevice
<1>1. CASE rows' = rows
  BY <1>1
<1>2. ASSUME NEW id \in Ids, NEW cfg \in Configs, UpdateInstanceConfig(id, cfg)
      PROVE  \A i \in Ids : rows'[i] # NoRow =>
                 \/ rows[i] # NoRow /\ rows'[i].device = rows[i].device
                 \/ rows'[i].device = NoDevice
  <2>1. rows' = rows \/ rows' = SaveInstance(id, cfg)
    BY <1>2 DEF UpdateInstanceConfig
  <2>2. CASE rows' = SaveInstance(id, cfg)
    BY <1>0, <2>2, RowsNamed
  <2>. QED
    BY <2>1, <2>2
<1>3. ASSUME NEW d \in Deletes, DeleteStore(d)
      PROVE  \A i \in Ids : rows'[i] # NoRow => rows[i] # NoRow /\ rows'[i].device = rows[i].device
  <2>1. rows' = rows \/ rows' = [rows EXCEPT ![del[d].id] = NoRow]
    BY <1>3 DEF DeleteStore
  <2>. QED
    BY <1>0, <2>1
<1>4. ASSUME NEW id \in Ids, UpdateDeviceState(id, NoDevice)
      PROVE  \A i \in Ids : rows'[i] # NoRow =>
                 \/ rows[i] # NoRow /\ rows'[i].device = rows[i].device
                 \/ rows'[i].device = NoDevice
  BY <1>0, <1>4, RowsNamed
<1>5. ASSUME NEW l \in Logouts, LogoutRow(l)
      PROVE  \A i \in Ids : rows'[i] # NoRow =>
                 \/ rows[i] # NoRow /\ rows'[i].device = rows[i].device
                 \/ rows'[i].device = NoDevice
  <2>1. object[lo[l].inst].id \in Ids
    BY <1>5, LogoutHolds DEF LogoutRow
  <2>2. rows' = rows \/ UpdateDeviceState(object[lo[l].inst].id, NoDevice)
    BY <1>5 DEF LogoutRow
  <2>3. CASE rows' = rows
    BY <2>3
  <2>. QED
    BY <1>4, <2>1, <2>2, <2>3
<1>6. ASSUME NEW c \in Clients, PairSuccess(c) \/ LoggedOutRow(c)
      PROVE  \A i \in Ids : rows'[i] # NoRow =>
                 \/ rows[i] # NoRow /\ rows'[i].device = rows[i].device
                 \/ rows'[i].device = NoDevice
                 \/ PairSuccess(c) /\ client[c].id = i /\ rows'[i].device = handler[c].device
  <2>1. client[c].id \in Ids /\ handler[c].device \in AnyDevice
    BY <1>6 DEF PInv, TypeOK, Built, ClientBuilt, EventBuilt, PairSuccess, LoggedOutRow, AnyDevice
  <2>2. CASE PairSuccess(c)
    <3>1. UpdateDeviceState(client[c].id, handler[c].device)
      BY <2>2 DEF PairSuccess
    <3>. QED
      BY <2>1, <2>2, <3>1, RowsNamed
  <2>3. CASE LoggedOutRow(c)
    BY <1>4, <2>1, <2>3 DEF LoggedOutRow
  <2>. QED
    BY <1>6, <2>2, <2>3
<1>7. CASE /\ ~ \E id \in Ids, cfg \in Configs : UpdateInstanceConfig(id, cfg)
           /\ ~ \E d \in Deletes : DeleteStore(d)
           /\ ~ \E l \in Logouts : LogoutRow(l)
           /\ ~ \E c \in Clients : PairSuccess(c) \/ LoggedOutRow(c)
  <2>1. rows' = rows
    BY <1>7, PollFrame DEF Quiet, Shutdown, DeleteStep, DeleteBegin, DeleteCheck, DeleteUnlink, DeleteRelease,
       DeleteDrop, DeleteClear, LogoutDevice, LogoutPublish, LogoutBegin, CallerLeaves, Connect, HandlerStep, LoggedOutPublish, ServerLogout, ConnectionLost,
       AutoReconnect
  <2>. QED
    BY <1>1, <2>1
<1>8. CASE \E id \in Ids, cfg \in Configs : UpdateInstanceConfig(id, cfg)
  BY <1>2, <1>8
<1>9. CASE \E d \in Deletes : DeleteStore(d)
  BY <1>3, <1>9
<1>10. CASE \E l \in Logouts : LogoutRow(l)
  BY <1>5, <1>10
<1>11. CASE \E c \in Clients : PairSuccess(c) \/ LoggedOutRow(c)
  BY <1>6, <1>11
<1>. QED
  BY <1>7, <1>8, <1>9, <1>10, <1>11

LEMMA QuietOwned == ASSUME PInv, Owned, Quiet PROVE Owned'
<1>1. /\ \A c \in Clients : Same(c)
      /\ registered' \subseteq registered /\ paired' = paired
  BY QuietSame
<1>2. ASSUME NEW j \in Devices, NEW i \in Ids, NamedBy(i, j)' PROVE NamedBy(i, j)
  <2>0. j # NoDevice
    BY NullAssumption
  <2>1. CASE rows'[i] # NoRow /\ rows'[i].device = j
    <3>1. CASE rows[i] # NoRow /\ rows'[i].device = rows[i].device
      BY <2>1, <3>1 DEF NamedBy
    <3>2. ASSUME NEW c \in Clients, PairSuccess(c), client[c].id = i, rows'[i].device = handler[c].device
          PROVE  NamedBy(i, j)
      BY <2>1, <3>2 DEF NamedBy, PairSuccess
    <3>. QED
      BY <2>0, <2>1, <3>1, <3>2, QuietRows
  <2>2. CASE \E c \in Clients : client'[c].id = i /\ client'[c].jid = j
    BY <1>1, <2>0, <2>2 DEF NamedBy, Same
  <2>3. CASE \E c \in Clients : client'[c].id = i /\ handler'[c].pc = "paired" /\ handler'[c].device = j
    BY <1>1, <2>3, QuietHandlers DEF NamedBy, Same
  <2>. QED
    BY <1>2, <2>1, <2>2, <2>3 DEF NamedBy
<1>3. \A c \in Clients : client'[c].jid # NoDevice => client'[c].id \in Ids
  BY <1>1 DEF Owned, Same
<1>4. registered' \subseteq paired' /\ paired \subseteq paired'
  BY <1>1 DEF Owned
<1>. QED
  BY <1>2, <1>3, <1>4, OwnedFrame

LEMMA BuildsRows ==
    ASSUME PInv, NEW id \in Ids, Builds(id)
    PROVE  \A i \in Ids : rows'[i] # NoRow =>
              \/ rows[i] # NoRow /\ rows'[i].device = rows[i].device
              \/ rows'[i].device = NoDevice
<1>1. rows' = rows \/ \E cfg : rows' = SaveInstance(id, cfg)
  BY DEF Builds, RestartInstance, RebuildRuns, CreateInstance, LogoutRebuild
<1>2. NoDevice \in AnyDevice /\ \A cfg : rows' = SaveInstance(id, cfg) =>
        \A i \in Ids : rows'[i] # NoRow =>
              \/ rows[i] # NoRow /\ rows'[i].device = rows[i].device
              \/ rows'[i].device = NoDevice
  BY RowsNamed DEF AnyDevice
<1>. QED
  BY <1>1, <1>2

\* The client that the entry of id has.
LEMMA EntryHolds ==
    ASSUME PInv, NEW id \in Ids, instances[id] # NoObject
    PROVE  /\ instances[id] \in Objects /\ object[instances[id]].id = id
           /\ object[instances[id]].service \in Clients
           /\ client[object[instances[id]].service].id = id
<1>1. instances[id] \in Objects /\ object[instances[id]].id = id
  BY DEF PInv, TypeOK, Built, MapBuilt
<1>. QED
  BY <1>1, Held

LEMMA BuildsOwned == ASSUME PInv, Owned, NEW id \in Ids, Builds(id) PROVE Owned'
<1>1. UNCHANGED <<handler, registered, paired>>
  BY BuildsShape
<1>2. ASSUME NEW o \in Objects, NEW c \in NewClients, Replaced(id, o, c)
      PROVE  Owned'
  <2>1. /\ client'[c].id = id /\ handler[c].pc = "idle" /\ c \in Clients
        /\ client'[c].jid # NoDevice => /\ instances[id] # NoObject
                                        /\ client'[c].jid = client[object[instances[id]].service].jid
        /\ \A b \in Clients : b # c => client'[b].id = client[b].id /\ client'[b].jid = client[b].jid
    BY <1>2, NullAssumption DEF Replaced, PInv, TypeOK, EventRec, Built, ClientBuilt, NewClients
  <2>2. ASSUME NEW j \in Devices, NEW i \in Ids, NamedBy(i, j)' PROVE NamedBy(i, j)
    <3>0. j # NoDevice
      BY NullAssumption
    <3>1. CASE rows'[i] # NoRow /\ rows'[i].device = j
      BY <3>0, <3>1, BuildsRows DEF NamedBy
    <3>2. CASE client'[c].id = i /\ client'[c].jid = j
      BY <2>1, <3>0, <3>2, EntryHolds DEF NamedBy
    <3>3. ASSUME NEW b \in Clients, client'[b].id = i, b # c,
                 client'[b].jid = j \/ (handler'[b].pc = "paired" /\ handler'[b].device = j)
          PROVE  NamedBy(i, j)
      BY <1>1, <2>1, <3>3 DEF NamedBy
    <3>4. handler'[c].pc # "paired"
      BY <1>1, <2>1
    <3>. QED
      BY <2>2, <3>1, <3>2, <3>3, <3>4 DEF NamedBy
  <2>3. \A b \in Clients : client'[b].jid # NoDevice => client'[b].id \in Ids
    BY <2>1 DEF Owned
  <2>4. registered' \subseteq paired' /\ paired \subseteq paired'
    BY <1>1 DEF Owned
  <2>. QED
    BY <2>2, <2>3, <2>4, OwnedFrame
<1>3. CASE UNCHANGED client
  <2>1. ASSUME NEW j \in Devices, NEW i \in Ids, NamedBy(i, j)' PROVE NamedBy(i, j)
    <3>1. CASE rows'[i] # NoRow /\ rows'[i].device = j
      BY <3>1, NullAssumption, BuildsRows DEF NamedBy
    <3>. QED
      BY <1>1, <1>3, <2>1, <3>1 DEF NamedBy
  <2>2. registered' \subseteq paired' /\ paired \subseteq paired'
    BY <1>1 DEF Owned
  <2>3. \A b \in Clients : client'[b].jid # NoDevice => client'[b].id \in Ids
    BY <1>3 DEF Owned
  <2>. QED
    BY <2>1, <2>2, <2>3, OwnedFrame
<1>. QED
  BY <1>2, <1>3, BuildsShape

LEMMA PairOwned == ASSUME PInv, Owned, NEW c \in Clients, Pair(c) PROVE Owned'
<1>1. PICK device \in Devices \ paired :
        /\ client[c].id \in Ids /\ client'[c].id = client[c].id /\ client'[c].jid = device
        /\ handler'[c] = [pc |-> "paired", device |-> device]
        /\ \A b \in Clients : b # c => client'[b] = client[b] /\ handler'[b] = handler[b]
        /\ registered' = registered \cup {device} /\ paired' = paired \cup {device}
  BY PairShape
<1>2. rows' = rows
  BY DEF Pair
<1>3. ASSUME NEW j \in Devices, j # device, NEW i \in Ids, NamedBy(i, j)' PROVE NamedBy(i, j)
  BY <1>1, <1>2, <1>3 DEF NamedBy
<1>4. ASSUME NEW i \in Ids, NamedBy(i, device)' PROVE i = client[c].id
  <2>1. ~NamedBy(i, device)
    BY DEF Owned
  <2>. QED
    BY <1>1, <1>2, <1>4, <2>1 DEF NamedBy
<1>5. \A j \in Devices : \A i, k \in Ids : NamedBy(i, j)' /\ NamedBy(k, j)' => i = k
  <2>1. ASSUME NEW j \in Devices, NEW i \in Ids, NEW k \in Ids, NamedBy(i, j)', NamedBy(k, j)'
        PROVE  i = k
    <3>1. CASE j = device
      <4>1. NamedBy(i, device)' /\ NamedBy(k, device)'
        BY <2>1, <3>1 DEF NamedBy
      <4>. QED
        BY <1>4, <4>1
    <3>2. CASE j # device
      BY <1>3, <2>1, <3>2 DEF Owned
    <3>. QED
      BY <3>1, <3>2
  <2>. QED
    BY <2>1
<1>6. \A j \in Devices, i \in Ids : NamedBy(i, j)' => j \in paired'
  BY <1>1, <1>3 DEF Owned
<1>7. \A b \in Clients : client'[b].jid # NoDevice => client'[b].id \in Ids
  BY <1>1 DEF Owned
<1>8. registered' \subseteq paired'
  BY <1>1 DEF Owned
<1>. QED
  BY <1>5, <1>6, <1>7, <1>8 DEF Owned

\* A start gives each instance the device of its row, or, to the one
\* instance of single mode, any device there is.
LEMMA StartOwned ==
    ASSUME PInv, Down, Owned, Multi \/ \A i, k \in Ids : i = k,
           RestoreInstances \/ EnsureSingleInstance
    PROVE  Owned'
<1>1. UNCHANGED <<handler, rows, registered, paired>> /\ \A c \in Clients : handler[c].pc = "idle"
  BY DEF RestoreInstances, EnsureSingleInstance, Down
<1>2. ASSUME \A c \in Clients : client'[c].jid # NoDevice =>
               /\ client'[c].id \in Ids /\ client'[c].jid \in registered
               /\ Multi => NamedBy(client'[c].id, client'[c].jid)
      PROVE  Owned'
  <2>1. ASSUME NEW j \in Devices, NEW i \in Ids, NamedBy(i, j)'
        PROVE  j \in paired /\ (Multi => NamedBy(i, j))
    <3>1. CASE rows[i] # NoRow /\ rows[i].device = j
      BY <3>1 DEF Owned, NamedBy
    <3>2. ASSUME NEW c \in Clients, client'[c].id = i, client'[c].jid = j
          PROVE  j \in paired /\ (Multi => NamedBy(i, j))
      BY <1>2, <3>2, NullAssumption DEF Owned
    <3>. QED
      BY <1>1, <2>1, <3>1, <3>2 DEF NamedBy
  <2>. QED
    BY <1>1, <1>2, <2>1 DEF Owned
<1>3. CASE RestoreInstances
  <2>. DEFINE ids == {id \in Ids : rows[id] # NoRow}
              cfg == [id \in ids |-> rows[id].config]
  <2>1. PICK objectOf \in Injections(ids, Objects), clientOf \in Injections(ids, Clients),
             up \in SUBSET ids, device \in [ids -> AnyDevice] :
          /\ \A id \in ids : device[id] \in Found(rows[id].device)
          /\ Provision(ids, objectOf, clientOf, device, cfg, up)
    BY <1>3 DEF RestoreInstances
  <2>2. \A c \in Clients : \/ client'[c] = FreeClient
                           \/ \E id \in ids : client'[c] = NewClient(id, device[id], cfg[id], id \in up)
    <3>1. ids \in SUBSET Ids
      OBVIOUS
    <3>. HIDE DEF ids, cfg
    <3>. QED
      BY <2>1, <3>1, ProvisionShape
  <2>3. ASSUME NEW c \in Clients, client'[c].jid # NoDevice
        PROVE  /\ client'[c].id \in Ids /\ client'[c].jid \in registered
               /\ NamedBy(client'[c].id, client'[c].jid)
    <3>1. PICK id \in ids : client'[c] = NewClient(id, device[id], cfg[id], id \in up)
      BY <2>2, <2>3 DEF FreeClient
    <3>2. /\ client'[c].id = id /\ client'[c].jid = rows[id].device
          /\ rows[id].device \in registered /\ rows[id] # NoRow /\ id \in Ids
      <4>1. id \in Ids /\ rows[id] # NoRow /\ device[id] \in Found(rows[id].device)
        BY <2>1
      <4>2. device[id] # NoDevice => device[id] = rows[id].device /\ rows[id].device \in registered
        BY <4>1 DEF Found
      <4>3. client'[c].id = id /\ client'[c].jid = device[id]
        BY <3>1 DEF NewClient
      <4>. QED
        BY <2>3, <4>1, <4>2, <4>3
    <3>3. NamedBy(id, rows[id].device)
      BY <3>2 DEF NamedBy
    <3>. QED
      BY <3>2, <3>3
  <2>. QED
    BY <1>2, <2>3
<1>4. CASE EnsureSingleInstance
  <2>. DEFINE first == IF registered = {} THEN {NoDevice} ELSE registered
  <2>1. PICK named \in first :
          \E objectOf \in Injections(Ids, Objects), clientOf \in Injections(Ids, Clients),
             up \in SUBSET Ids, cfg \in [Ids -> Configs] :
            \E device \in [Ids -> Found(named)] : Provision(Ids, objectOf, clientOf, device, cfg, up)
    BY <1>4 DEF EnsureSingleInstance
  <2>. HIDE DEF first
  <2>4. PICK objectOf \in Injections(Ids, Objects), clientOf \in Injections(Ids, Clients),
             up \in SUBSET Ids, cfg \in [Ids -> Configs], device \in [Ids -> Found(named)] :
          Provision(Ids, objectOf, clientOf, device, cfg, up)
    BY <2>1
  <2>2. \A c \in Clients : \/ client'[c] = FreeClient
                           \/ \E id \in Ids : client'[c] = NewClient(id, device[id], cfg[id], id \in up)
    BY <2>4, ProvisionShape
  <2>3. ASSUME NEW c \in Clients, client'[c].jid # NoDevice
        PROVE  client'[c].id \in Ids /\ client'[c].jid \in registered
    <3>1. PICK id \in Ids : client'[c] = NewClient(id, device[id], cfg[id], id \in up)
      BY <2>2, <2>3 DEF FreeClient
    <3>2. device[id] \in {NoDevice} \cup registered
      BY DEF Found
    <3>. QED
      BY <2>3, <3>1, <3>2 DEF NewClient
  <2>. QED
    BY <1>2, <1>4, <2>3 DEF EnsureSingleInstance
<1>. QED
  BY <1>3, <1>4

LEMMA NextOwned ==
    ASSUME PInv, Down, Owned, Multi \/ \A i, k \in Ids : i = k, [Next]_vars
    PROVE  Owned'
<1>1. CASE RestoreInstances \/ EnsureSingleInstance
  BY <1>1, StartOwned
<1>2. CASE ProcessEnds
  <2>1. /\ UNCHANGED <<rows, registered, paired>>
        /\ \A c \in Clients : client'[c] = FreeClient /\ handler'[c] = NoEvent
    BY <1>2 DEF ProcessEnds
  <2>2. ASSUME NEW j \in Devices, NEW i \in Ids, NamedBy(i, j)' PROVE NamedBy(i, j)
    BY <2>1, <2>2, NullAssumption DEF NamedBy, FreeClient, NoEvent
  <2>3. \A c \in Clients : client'[c].jid # NoDevice => client'[c].id \in Ids
    BY <2>1 DEF FreeClient
  <2>4. registered' \subseteq paired' /\ paired \subseteq paired'
    BY <2>1 DEF Owned
  <2>. QED
    BY <2>2, <2>3, <2>4, OwnedFrame
<1>3. CASE Running
  BY <1>3, RunningSplits, QuietOwned, BuildsOwned, PairOwned
<1>4. CASE UNCHANGED vars \/ \E device \in Devices : PhoneUnlinks(device)
  <2>1. UNCHANGED <<rows, client, handler, registered, paired>>
    BY <1>4 DEF vars, PhoneUnlinks, memory, world
  <2>. QED
    BY <2>1 DEF Owned, NamedBy
<1>. QED
  BY <1>1, <1>2, <1>3, <1>4, NextSplits

-----------------------------------------------------------------------------
(* What is let go of stays down, and so a device has one connection.        *)

LEMMA BuildsRuns == ASSUME NEW id \in Ids, Builds(id) PROVE Running
BY DEF Builds, Running, LogoutStep

\* The entries of other ids keep their structs and clients.
LEMMA ReplacedLeaves ==
    ASSUME PInv, Running, NEW id \in Ids, NEW o \in Objects, NEW c \in NewClients, Replaced(id, o, c),
           NEW i \in Ids, i # id, instances[i] # NoObject
    PROVE  /\ instances'[i] = instances[i]
           /\ object'[instances'[i]].service = object[instances[i]].service
           /\ object[instances[i]].service \in Clients \ {c}
<1>1. instances'[i] = instances[i]
  BY DEF Replaced
<1>2. /\ instances[i] \in Objects /\ object[instances[i]].id = i
      /\ object[instances[i]].service \in Clients /\ client[object[instances[i]].service].id = i
  BY EntryHolds
<1>3. object'[instances[i]].id = i
  BY <1>2, StructsKeepIds, NullAssumption
<1>4. instances[i] # o /\ client[c].id = NoId
  BY <1>3 DEF Replaced, NewClients
<1>5. object[instances[i]].service # c
  BY <1>2, <1>4, NullAssumption
<1>. QED
  BY <1>1, <1>2, <1>4, <1>5 DEF Replaced

\* No client is the service of two structs.
ServiceOnce ==
    \A o, q \in Objects :
        object[o].id # NoId /\ object[q].id # NoId /\ object[o].service = object[q].service => o = q

\* A client that nobody serves is down, and nobody is about to connect it,
\* unless somebody was when it was let go of.
LetGoInv ==
    /\ ServiceOnce
    /\ \A c \in Clients : Served(c) \/ c \in loose \/ (client[c].ws # "on" /\ ~ToCome(c))

\* A delete that keeps its struct's client from being served.
Releasing(d) == del[d].pc \in {"release", "store", "drop", "clear"}

LEMMA LookupServed ==
    ASSUME PInv, MarkerOwned, NEW id \in Ids, Lookup(id) # NoObject
    PROVE  Served(object[Lookup(id)].service)
<1>1. instances[id] = Lookup(id) /\ ~object[instances[id]].deleting /\ instances[id] # NoObject
  BY LookupFinds DEF Lookup
<1>2. ~ \E d \in Deletes : del[d].inst = instances[id] /\ Releasing(d)
  BY <1>1 DEF MarkerOwned, Tearing, Releasing
<1>. QED
  BY <1>1, <1>2 DEF Served, Releasing

\* What is under way for a client stays so or ends, if nothing begins it.
LEMMA ToComeFrame ==
    ASSUME UNCHANGED <<connects, po>>, NEW b, client'[b].ws = "lost" => client[b].ws = "lost",
           \A p \in Polls : po[p].pc = "check" /\ object'[po[p].inst].service = b
                            => object[po[p].inst].service = b,
           ToCome(b)'
    PROVE  ToCome(b)
<1>1. UnderWay(b)' => UnderWay(b)
  BY DEF UnderWay
<1>. QED
  BY <1>1 DEF ToCome

\* Only polls touch polls, and only one that has hold of a client adds to
\* what is pending for it.
LEMMA QuietPolls ==
    ASSUME PInv, Quiet, NEW p \in Polls, po'[p] # po[p]
    PROVE  PollStep(p) \/ \E id \in Ids : PollBegin(p, id)
<1>1. CASE \E q \in Polls : PollStep(q) \/ \E id \in Ids : PollBegin(q, id)
  <2>1. PICK q \in Polls : PollStep(q) \/ \E id \in Ids : PollBegin(q, id)
    BY <1>1
  <2>2. \A e \in Polls : e # q => po'[e] = po[e]
    BY <2>1 DEF PollStep, PollBegin, PollCheck, PollDisconnect, PollChannel, PollConnect, PollEnd,
                PInv, TypeOK
  <2>. QED
    BY <2>1, <2>2
<1>2. CASE ~ \E q \in Polls : PollStep(q) \/ \E id \in Ids : PollBegin(q, id)
  <2>1. po' = po
    BY <1>2 DEF Quiet, Shutdown, UpdateInstanceConfig, DeleteStep, DeleteBegin, DeleteCheck, DeleteUnlink,
       DeleteRelease, DeleteStore, DeleteDrop, DeleteClear, LogoutDevice, LogoutRow, LogoutPublish,
       LogoutBegin, CallerLeaves, Connect, HandlerStep, PairSuccess, LoggedOutRow, LoggedOutPublish,
       ServerLogout, ConnectionLost, AutoReconnect, request
  <2>. QED
    BY <2>1
<1>. QED
  BY <1>1, <1>2

LEMMA QuietConnects ==
    ASSUME PInv, Quiet, NEW c \in Clients, connects'[c] > 0
    PROVE  UnderWay(c)
<1>0. connects \in [Clients -> 0..MaxConnects] /\ MaxConnects \in Nat
  BY SwitchAssumption DEF PInv, TypeOK
<1>1. ASSUME NEW p \in Polls, PollChannel(p) PROVE UnderWay(c)
  <2>1. connects' = connects \/ connects' = [connects EXCEPT ![po[p].client] = connects[po[p].client] + 1]
    BY <1>1 DEF PollChannel
  <2>2. connects[c] > 0 \/ c = po[p].client
    BY <1>0, <2>1
  <2>. QED
    BY <1>1, <2>2 DEF PollChannel, UnderWay
<1>2. ASSUME NEW b \in Clients, Connect(b) PROVE connects[c] > 0
  <2>1. connects' = [connects EXCEPT ![b] = connects[b] - 1] /\ connects[b] > 0
    BY <1>2 DEF Connect
  <2>. QED
    BY <1>0, <2>1
<1>3. CASE /\ ~ \E p \in Polls : PollChannel(p)
           /\ ~ \E b \in Clients : Connect(b)
  <2>1. connects' = connects
    BY <1>3 DEF Quiet, Shutdown, UpdateInstanceConfig, DeleteStep, DeleteBegin, DeleteCheck, DeleteUnlink,
       DeleteRelease, DeleteStore, DeleteDrop, DeleteClear, LogoutDevice, LogoutRow, LogoutPublish,
       LogoutBegin, CallerLeaves, PollStep, PollBegin, PollCheck, PollDisconnect, PollConnect, PollEnd,
       HandlerStep, PairSuccess, LoggedOutRow, LoggedOutPublish, ServerLogout, ConnectionLost,
       AutoReconnect, memory
  <2>. QED
    BY <2>1 DEF UnderWay
<1>. QED
  BY <1>1, <1>2, <1>3 DEF UnderWay

\* Nothing begins for a client that is down and not served.
LEMMA QuietToCome ==
    ASSUME PInv, MarkerOwned, Quiet, NEW c \in Clients, ToCome(c)', ~ToCome(c), client[c].ws # "on"
    PROVE  Served(c)
<1>0. /\ ~UnderWay(c) /\ po \in [Polls -> PollRec]
      /\ client[c].ws = "off"
      /\ \A p \in Polls : po[p].pc = "check" => object[po[p].inst].service # c
  BY DEF ToCome, UnderWay, PInv, TypeOK, ClientRec
<1>1. client'[c].ws # "lost"
  BY <1>0, QuietSame DEF Same
<1>2. ~(connects'[c] > 0)
  BY <1>0, QuietConnects
<1>3. ASSUME NEW p \in Polls, po'[p].client = c, po'[p].pc \in {"disconnect", "channel", "connect"}
      PROVE  FALSE
  <2>1. po'[p] # po[p]
    BY <1>0, <1>3 DEF UnderWay
  <2>2. PollStep(p) \/ \E id \in Ids : PollBegin(p, id)
    BY <2>1, QuietPolls
  <2>3. CASE PollCheck(p)
    <3>. DEFINE s == object[po[p].inst].service
    <3>1. po'[p] = NoPoll \/ po'[p].client = s
      BY <1>0, <2>3 DEF PollCheck, PollRec
    <3>. QED
      BY <1>0, <1>3, <2>3, <3>1 DEF PollCheck, NoPoll
  <2>4. CASE PollDisconnect(p)
    <3>1. po'[p].client = po[p].client /\ po[p].pc = "disconnect"
      BY <1>0, <2>4 DEF PollDisconnect, PollRec
    <3>. QED
      BY <1>0, <1>3, <3>1 DEF UnderWay
  <2>5. CASE PollChannel(p) \/ PollConnect(p) \/ PollEnd(p)
    <3>1. po'[p].pc \in {"idle", "wait"}
      BY <1>0, <2>5 DEF PollChannel, PollConnect, PollEnd, PollRec, NoPoll
    <3>. QED
      BY <1>3, <3>1
  <2>6. CASE \E id \in Ids : PollBegin(p, id)
    <3>1. po'[p].pc = "check"
      BY <1>0, <2>6 DEF PollBegin, NoPoll
    <3>. QED
      BY <1>3, <3>1
  <2>. QED
    BY <2>2, <2>3, <2>4, <2>5, <2>6 DEF PollStep
<1>4. ASSUME NEW p \in Polls, po'[p].pc = "check", object'[po'[p].inst].service = c
      PROVE  Served(c)
  <2>1. CASE po'[p] = po[p]
    <3>1. po[p].inst \in Objects
      BY <1>4, <2>1 DEF PInv, Built, PollBuilt
    <3>2. object[po[p].inst].service = c
      BY <1>4, <2>1, <3>1, QuietPointers
    <3>. QED
      BY <1>0, <1>4, <2>1, <3>2
  <2>2. CASE po'[p] # po[p]
    <3>1. PollStep(p) \/ \E id \in Ids : PollBegin(p, id)
      BY <2>2, QuietPolls
    <3>2. ~PollStep(p)
      <4>1. PollCheck(p) => po'[p].pc \in {"idle", "disconnect"}
        BY <1>0 DEF PollCheck, PollRec, NoPoll
      <4>2. PollDisconnect(p) => po'[p].pc \in {"connect", "channel"}
        BY <1>0 DEF PollDisconnect, PollRec
      <4>3. PollChannel(p) \/ PollConnect(p) \/ PollEnd(p) => po'[p].pc \in {"idle", "wait"}
        BY <1>0 DEF PollChannel, PollConnect, PollEnd, PollRec, NoPoll
      <4>. QED
        BY <1>4, <4>1, <4>2, <4>3 DEF PollStep
    <3>3. PICK id \in Ids : PollBegin(p, id)
      BY <3>1, <3>2
    <3>4. po'[p].inst = Lookup(id) /\ Lookup(id) # NoObject /\ object' = object
      BY <1>0, <3>3 DEF PollBegin, NoPoll, memory
    <3>. QED
      BY <1>4, <3>4, LookupServed
  <2>. QED
    BY <2>1, <2>2
<1>. QED
  BY <1>1, <1>2, <1>3, <1>4 DEF ToCome, UnderWay

\* A client ceases to be served with its entry or by a delete that releases it.
LEMMA ServedFrame ==
    ASSUME NEW c, Served(c),
           \A id \in Ids : instances[id] # NoObject =>
              /\ instances'[id] = instances[id]
              /\ object'[instances[id]].service = object[instances[id]].service,
           \A d \in Deletes : Releasing(d)' /\ del'[d].inst # NoObject
                              => Releasing(d) /\ del[d].inst = del'[d].inst
    PROVE  Served(c)'
<1>1. PICK id \in Ids : /\ instances[id] # NoObject /\ object[instances[id]].service = c
                        /\ ~ \E d \in Deletes : del[d].inst = instances[id] /\ Releasing(d)
  BY DEF Served, Releasing
<1>2. /\ instances'[id] = instances[id]
      /\ object'[instances'[id]].service = c
  BY <1>1
<1>3. ~ \E d \in Deletes : del'[d].inst = instances'[id] /\ Releasing(d)'
  BY <1>1, <1>2
<1>. QED
  BY <1>1, <1>2, <1>3 DEF Served, Releasing

LEMMA QuietServed ==
    ASSUME PInv, Quiet, NEW c \in Clients, Served(c), ~Served(c)'
    PROVE  Shutdown \/ \E d \in Deletes : DeleteUnlink(d) \/ DeleteDrop(d)
<1>1. SUFFICES ASSUME ~Shutdown, ~ \E d \in Deletes : DeleteUnlink(d) \/ DeleteDrop(d) PROVE FALSE
  OBVIOUS
<1>2. instances' = instances
  BY <1>1, PollFrame
     DEF Quiet, UpdateInstanceConfig, DeleteStep, DeleteBegin, DeleteCheck, DeleteRelease, DeleteStore,
         DeleteClear, LogoutDevice, LogoutRow, LogoutPublish, LogoutBegin, CallerLeaves, Connect,
         HandlerStep, PairSuccess, LoggedOutRow, LoggedOutPublish, ServerLogout, ConnectionLost,
         AutoReconnect, memory
<1>3. del \in [Deletes -> DeleteRec] /\ instances \in [Ids -> Objects \cup {NoObject}]
  BY DEF PInv, TypeOK
<1>4. \A e \in Deletes : Releasing(e)' /\ del'[e].inst # NoObject
                         => Releasing(e) /\ del[e].inst = del'[e].inst
  <2>1. CASE del' = del
    BY <2>1 DEF Releasing
  <2>2. ASSUME NEW d \in Deletes, DeleteStep(d) \/ \E id \in Ids : DeleteBegin(d, id)
        PROVE  \A e \in Deletes : Releasing(e)' /\ del'[e].inst # NoObject
                                  => Releasing(e) /\ del[e].inst = del'[e].inst
    <3>1. \A e \in Deletes : e # d => del'[e] = del[e]
      BY <1>1, <1>3, <2>2 DEF DeleteStep, DeleteBegin, DeleteCheck, DeleteRelease, DeleteStore, DeleteClear
    <3>2. CASE DeleteCheck(d)
      <4>1. del'[d].pc = "unlink"
        BY <1>3, <3>2 DEF DeleteCheck, DeleteRec
      <4>. QED
        BY <3>1, <4>1 DEF Releasing
    <3>3. CASE DeleteRelease(d) \/ DeleteStore(d)
      <4>1. Releasing(d) /\ del'[d].inst = del[d].inst
        BY <1>3, <3>3 DEF DeleteRelease, DeleteStore, DeleteRec, Releasing
      <4>. QED
        BY <3>1, <4>1 DEF Releasing
    <3>4. CASE DeleteClear(d)
      <4>1. del'[d].inst = NoObject
        BY <1>3, <3>4 DEF DeleteClear, NoDelete
      <4>. QED
        BY <3>1, <4>1 DEF Releasing
    <3>5. CASE \E id \in Ids : DeleteBegin(d, id)
      <4>1. NoDelete.inst = NoObject
        BY DEF NoDelete
      <4>2. PICK id \in Ids : \/ del' = [del EXCEPT ![d] = [NoDelete EXCEPT !.pc = "store", !.id = id]]
                              \/ del' = [del EXCEPT ![d] = [NoDelete EXCEPT !.pc = "check", !.id = id,
                                                                           !.inst = instances[id]]]
        BY <3>5 DEF DeleteBegin
      <4>3. del'[d].inst = NoObject \/ del'[d].pc = "check"
        BY <1>3, <4>1, <4>2 DEF NoDelete
      <4>. QED
        BY <3>1, <4>3 DEF Releasing
    <3>. QED
      BY <1>1, <2>2, <3>2, <3>3, <3>4, <3>5 DEF DeleteStep
  <2>3. CASE ~ \E d \in Deletes : DeleteStep(d) \/ \E id \in Ids : DeleteBegin(d, id)
    <3>1. del' = del
      BY <1>1, <2>3, PollFrame
         DEF Quiet, UpdateInstanceConfig, LogoutDevice, LogoutRow, LogoutPublish, LogoutBegin, CallerLeaves,
             Connect, HandlerStep, PairSuccess, LoggedOutRow, LoggedOutPublish, ServerLogout,
             ConnectionLost, AutoReconnect, request
    <3>. QED
      BY <2>1, <3>1
  <2>. QED
    BY <2>2, <2>3
<1>5. \A id \in Ids : instances[id] # NoObject =>
        /\ instances'[id] = instances[id]
        /\ object'[instances[id]].service = object[instances[id]].service
  BY <1>2, <1>3, QuietPointers
<1>. QED
  BY <1>4, <1>5, ServedFrame

\* Service.DeleteDevice leaves the client down, or reconnecting.
LEMMA DeleteDeviceDown ==
    ASSUME PInv, NEW c \in Clients, DeviceErased(c) \/ DeviceKept(c)
    PROVE  client'[c].ws # "on" /\ (client'[c].ws = "lost" => client[c].ws = "lost")
<1>. DEFINE cl == Disconnect(client, c)
<1>1. cl \in [Clients -> ClientRec] /\ cl[c].ws # "on" /\ (cl[c].ws = "lost" => client[c].ws = "lost")
  BY DisconnectFrame DEF PInv, TypeOK, Disconnect, ClientRec
<1>2. client' = EraseDevice(cl, c) \/ client' = cl
  BY DEF DeviceErased, DeviceKept
<1>. HIDE DEF cl
<1>3. client'[c].ws = cl[c].ws
  BY <1>1, <1>2 DEF EraseDevice, ClientRec
<1>. QED
  BY <1>1, <1>3

LEMMA UnlinkLetsGo ==
    ASSUME PInv, NEW d \in Deletes, DeleteUnlink(d), NEW c \in Clients, Served(c), ~Served(c)',
           c \notin loose'
    PROVE  client'[c].ws # "on" /\ ~ToCome(c)'
<1>1. /\ UNCHANGED <<instances, object, connects, po>> /\ del \in [Deletes -> DeleteRec]
      /\ del' = [del EXCEPT ![d].pc = "release"]
  BY DEF DeleteUnlink, PInv, TypeOK
<1>2. /\ \A e \in Deletes : e # d => del'[e] = del[e]
      /\ del'[d].inst = del[d].inst
  BY <1>1 DEF DeleteRec
<1>3. PICK id \in Ids : /\ instances[id] # NoObject /\ object[instances[id]].service = c
                        /\ ~ \E e \in Deletes : del[e].inst = instances[id] /\ Releasing(e)
  BY DEF Served, Releasing
<1>4. \E e \in Deletes : del'[e].inst = instances[id] /\ Releasing(e)'
  BY <1>1, <1>3 DEF Served, Releasing
<1>5. del[d].inst = instances[id]
  BY <1>2, <1>3, <1>4 DEF Releasing
<1>6. (DeviceErased(c) \/ DeviceKept(c)) /\ ~ToCome(c)
  BY <1>3, <1>5 DEF DeleteUnlink, DeleteDevice, LetGo
<1>7. client'[c].ws # "on" /\ (client'[c].ws = "lost" => client[c].ws = "lost")
  BY <1>6, DeleteDeviceDown
<1>. QED
  BY <1>1, <1>6, <1>7, ToComeFrame

\* A client that the map loses to a delete of another struct is named.
LEMMA DropLetsGo ==
    ASSUME PInv, NEW d \in Deletes, DeleteDrop(d), NEW c \in Clients, Served(c), ~Served(c)'
    PROVE  c \in loose'
<1>1. /\ object' = object /\ del \in [Deletes -> DeleteRec] /\ del' = [del EXCEPT ![d] = NoDelete]
      /\ instances' = [instances EXCEPT ![del[d].id] = NoObject]
      /\ instances \in [Ids -> Objects \cup {NoObject}] /\ del[d].pc = "drop"
  BY DEF DeleteDrop, PInv, TypeOK
<1>2. PICK id \in Ids : /\ instances[id] # NoObject /\ object[instances[id]].service = c
                        /\ ~ \E e \in Deletes : del[e].inst = instances[id] /\ Releasing(e)
  BY DEF Served, Releasing
<1>3. \A e \in Deletes : Releasing(e)' => Releasing(e) /\ del'[e] = del[e]
  BY <1>1 DEF Releasing, NoDelete
<1>4. id = del[d].id
  <2>1. SUFFICES ASSUME id # del[d].id PROVE FALSE
    OBVIOUS
  <2>2. instances'[id] = instances[id] /\ object'[instances'[id]].service = c
    BY <1>1, <1>2, <2>1
  <2>3. ~ \E e \in Deletes : del'[e].inst = instances'[id] /\ Releasing(e)'
    BY <1>2, <1>3, <2>2
  <2>. QED
    BY <1>2, <2>2, <2>3 DEF Served, Releasing
<1>5. instances[id] # del[d].inst
  BY <1>1, <1>2 DEF Releasing
<1>. QED
  BY <1>2, <1>4, <1>5 DEF DeleteDrop, LetGo

LEMMA ShutdownLetsGo ==
    ASSUME PInv, Shutdown, NEW c \in Clients, Served(c), c \notin loose'
    PROVE  client'[c].ws # "on" /\ ~ToCome(c)'
<1>. DEFINE mapped == {instances[id] : id \in Ids}
            served == {object[o].service : o \in mapped \ {NoObject}}
<1>1. c \in served
  BY DEF Served
<1>2. /\ client' = [b \in Clients |-> IF b \in served THEN Disconnect(client, b)[b] ELSE client[b]]
      /\ loose' = loose \cup {b \in served : UnderWay(b)}
      /\ connects' = connects /\ po' = po /\ \A p \in Polls : po[p].pc = "idle"
  BY DEF Shutdown, request
<1>. HIDE DEF served
<1>3. client'[c] = Disconnect(client, c)[c] /\ ~UnderWay(c)
  BY <1>1, <1>2
<1>4. client'[c].ws # "on" /\ (client'[c].ws = "lost" => client[c].ws = "lost")
  BY <1>3 DEF Disconnect, PInv, TypeOK, ClientRec
<1>. QED
  BY <1>2, <1>3, <1>4 DEF ToCome, UnderWay

LEMMA QuietLoose == ASSUME Quiet PROVE loose \subseteq loose'
<1>1. \A c, comes : LetGo(c, comes) => loose \subseteq loose'
  BY DEF LetGo
<1>2. \A d \in Deletes : DeleteUnlink(d) \/ DeleteDrop(d) => loose \subseteq loose'
  BY <1>1 DEF DeleteUnlink, DeleteDrop
<1>3. Shutdown => loose \subseteq loose'
  BY DEF Shutdown
<1>. QED
  BY <1>2, <1>3, PollFrame
     DEF Quiet, UpdateInstanceConfig, DeleteStep, DeleteBegin, DeleteCheck, DeleteRelease, DeleteStore,
         DeleteClear, LogoutDevice, LogoutRow, LogoutPublish, LogoutBegin, CallerLeaves, Connect,
         HandlerStep, PairSuccess, LoggedOutRow, LoggedOutPublish, ServerLogout, ConnectionLost,
         AutoReconnect, world, lapses

LEMMA QuietLetGo == ASSUME PInv, MarkerOwned, LetGoInv, Quiet PROVE LetGoInv'
<1>1. ServiceOnce'
  BY QuietPointers DEF LetGoInv, ServiceOnce
<1>2. ASSUME NEW c \in Clients, ~Served(c)', c \notin loose'
      PROVE  client'[c].ws # "on" /\ ~ToCome(c)'
  <2>1. CASE Served(c)
    <3>1. Shutdown \/ \E d \in Deletes : DeleteUnlink(d) \/ DeleteDrop(d)
      BY <1>2, <2>1, QuietServed
    <3>. QED
      BY <1>2, <2>1, <3>1, UnlinkLetsGo, DropLetsGo, ShutdownLetsGo
  <2>2. CASE ~Served(c)
    <3>1. client[c].ws # "on" /\ ~ToCome(c)
      BY <1>2, <2>2, QuietLoose DEF LetGoInv
    <3>2. ~UnderWay(c)
      BY <3>1 DEF ToCome
    <3>3. client'[c].ws # "on"
      BY <3>1, <3>2, QuietSame DEF Same
    <3>. QED
      BY <2>2, <3>1, <3>3, QuietToCome
  <2>. QED
    BY <2>1, <2>2
<1>. QED
  BY <1>1, <1>2 DEF LetGoInv

\* A rebuild, a restart or a creation: the new client is served, the one
\* that it replaces is down or named, and the others are what they were.
LEMMA ReplacedLetGo ==
    ASSUME PInv, MarkerOwned, LetGoInv, Running, NEW id \in Ids, NEW o \in Objects, NEW c \in NewClients,
           Replaced(id, o, c), UNCHANGED <<connects, po, del>>
    PROVE  LetGoInv'
<1>1. c \in Clients /\ client[c].id = NoId
  BY DEF NewClients
<1>2. \A q \in Objects : object[q].id # NoId => object[q].service # c
  BY <1>1 DEF PInv, Built, ServiceBuilt
<1>3. /\ object'[o].id = id /\ object'[o].service = c /\ instances'[id] = o
      /\ \A q \in Objects : q # o => object'[q].id = object[q].id
                                     /\ object'[q].service = object[q].service
  BY DEF Replaced
<1>4. ServiceOnce'
  BY <1>2, <1>3 DEF LetGoInv, ServiceOnce
<1>5. Served(c)'
  <2>1. ~ \E d \in Deletes : del[d].inst = o /\ Releasing(d)
    <3>1. SUFFICES ASSUME NEW d \in Deletes, del[d].inst = o, Releasing(d) PROVE FALSE
      OBVIOUS
    <3>2. Tearing(d)
      BY <3>1, NullAssumption DEF Tearing, Releasing
    <3>3. object[o].deleting /\ object[o].id \in Ids
      BY <3>1, <3>2, TornDownIsBuilt DEF MarkerOwned
    <3>. QED
      BY <3>3, NullAssumption DEF Replaced
  <2>. QED
    BY <1>3, <2>1, NullAssumption DEF Served, Releasing
<1>6. ASSUME NEW b \in Clients, b # c, instances[id] # NoObject => b # object[instances[id]].service
      PROVE  Served(b)' \/ b \in loose' \/ (client'[b].ws # "on" /\ ~ToCome(b)')
  <2>1. CASE Served(b)
    <3>1. PICK i \in Ids : /\ instances[i] # NoObject /\ object[instances[i]].service = b
                           /\ ~ \E d \in Deletes : del[d].inst = instances[i] /\ Releasing(d)
      BY <2>1 DEF Served, Releasing
    <3>2. i # id
      BY <1>6, <3>1
    <3>3. instances'[i] = instances[i] /\ object'[instances'[i]].service = b
      BY <3>1, <3>2, ReplacedLeaves
    <3>. QED
      BY <3>1, <3>3 DEF Served, Releasing
  <2>2. CASE b \in loose
    BY <2>2 DEF Replaced
  <2>3. CASE client[b].ws # "on" /\ ~ToCome(b)
    <3>1. client'[b].ws # "on" /\ (client'[b].ws = "lost" => client[b].ws = "lost")
      BY <1>6, <2>3 DEF Replaced
    <3>2. \A p \in Polls : po[p].pc = "check" /\ object'[po[p].inst].service = b
                           => object[po[p].inst].service = b
      BY <1>3, <1>6 DEF PInv, Built, PollBuilt
    <3>. QED
      BY <2>3, <3>1, <3>2, ToComeFrame
  <2>. QED
    BY <2>1, <2>2, <2>3 DEF LetGoInv
<1>7. ASSUME NEW old \in Clients, instances[id] # NoObject, object[instances[id]].service = old
      PROVE  old \in loose' \/ (client'[old].ws # "on" /\ ~ToCome(old)')
  <2>1. client[old].id = id /\ old # c
    BY <1>1, <1>7, EntryHolds, NullAssumption
  <2>2. /\ client'[old].ws # "on"
        /\ old \in loose' \/ (~UnderWay(old) /\ (instances'[id] = instances[id] \/ ~ToCome(old)))
    BY <1>7 DEF Replaced
  <2>3. client'[old].ws = "lost" => client[old].ws = "lost"
    BY <2>1 DEF Replaced
  <2>4. CASE ~ToCome(old)
    <3>1. \A p \in Polls : po[p].pc = "check" /\ object'[po[p].inst].service = old
                           => object[po[p].inst].service = old
      BY <1>3, <2>1 DEF PInv, Built, PollBuilt
    <3>. QED
      BY <2>2, <2>3, <2>4, <3>1, ToComeFrame
  <2>5. CASE ~UnderWay(old) /\ instances'[id] = instances[id]
    <3>1. o = instances[id] /\ object[o].service = old /\ object[o].id = id
      BY <1>3, <1>7, <2>5, EntryHolds
    <3>2. ASSUME NEW p \in Polls, po[p].pc = "check", object'[po[p].inst].service = old PROVE FALSE
      <4>1. po[p].inst \in Objects /\ object[po[p].inst].id \in Ids
        BY <3>2 DEF PInv, Built, PollBuilt
      <4>2. po[p].inst # o /\ object[po[p].inst].service = old
        BY <1>3, <2>1, <3>2, <4>1
      <4>. QED
        BY <3>1, <4>1, <4>2, NullAssumption DEF LetGoInv, ServiceOnce
    <3>3. ~UnderWay(old)'
      BY <2>3, <2>5 DEF UnderWay
    <3>. QED
      BY <2>2, <3>2, <3>3 DEF ToCome
  <2>. QED
    BY <2>2, <2>4, <2>5
<1>. QED
  BY <1>4, <1>5, <1>6, <1>7 DEF LetGoInv

LEMMA BuildsLetGo == ASSUME PInv, MarkerOwned, LetGoInv, NEW id \in Ids, Builds(id) PROVE LetGoInv'
<1>1. Running /\ UNCHANGED <<connects, po, del>>
  BY BuildsRuns, BuildsShape
<1>2. ASSUME NEW o \in Objects, NEW c \in NewClients, Replaced(id, o, c) PROVE LetGoInv'
  BY <1>1, <1>2, ReplacedLetGo
<1>3. CASE UNCHANGED <<instances, object, client, loose>>
  BY <1>1, <1>3 DEF LetGoInv, ServiceOnce, Served, ToCome, UnderWay
<1>. QED
  BY <1>2, <1>3, BuildsShape

LEMMA PairLetGo == ASSUME PInv, LetGoInv, NEW c \in Clients, Pair(c) PROVE LetGoInv'
<1>1. UNCHANGED <<instances, object, connects, po, del, loose>>
  BY DEF Pair, request, lapses
<1>2. \A b \in Clients : client'[b].ws = client[b].ws
  <2>1. \E device : client' = [client EXCEPT ![c].jid = device]
    BY DEF Pair
  <2>. QED
    BY <2>1 DEF PInv, TypeOK, ClientRec
<1>. QED
  BY <1>1, <1>2 DEF LetGoInv, ServiceOnce, Served, ToCome, UnderWay

\* After a start every client and every struct in use is that of the entry of
\* its id, and a client is blank or has a device that is registered: the one
\* its row names, where there are rows and whatsmeow's table can be read.
Started ==
    /\ \A o \in Objects : object[o].id # NoId =>
          object[o].id \in Ids /\ instances[object[o].id] = o
    /\ \A c \in Clients : client[c] # FreeClient =>
        /\ client[c].id \in Ids /\ c = object[instances[client[c].id]].service
        /\ instances[client[c].id] # NoObject
        /\ client[c].jid \in registered \cup {NoDevice} /\ client[c].dead = FALSE
        /\ client[c].ws \in {"off", "on"}
        /\ Multi => /\ rows[client[c].id] # NoRow
                    /\ client[c].jid \in {rows[client[c].id].device, NoDevice}
                    /\ rows[client[c].id].device \in registered /\ ~StoreMayFail
                         => client[c].jid = rows[client[c].id].device

LEMMA StartShape ==
    ASSUME RestoreInstances \/ EnsureSingleInstance
    PROVE  /\ Started'
           /\ \A id \in Ids : instances'[id] # NoObject <=> (Multi => rows[id] # NoRow)
<1>1. UNCHANGED <<registered, rows>> /\ FreeObject.id = NoId
  BY DEF RestoreInstances, EnsureSingleInstance, FreeObject
<1>2. CASE RestoreInstances
  <2>. DEFINE ids == {id \in Ids : rows[id] # NoRow}
              cfg == [id \in ids |-> rows[id].config]
  <2>1. PICK objectOf \in Injections(ids, Objects), clientOf \in Injections(ids, Clients),
             up \in SUBSET ids, device \in [ids -> AnyDevice] :
          /\ \A id \in ids : device[id] \in Found(rows[id].device)
          /\ Provision(ids, objectOf, clientOf, device, cfg, up)
    BY <1>2 DEF RestoreInstances
  <2>2. /\ \A id \in Ids \ ids : instances'[id] = NoObject
        /\ \A id \in ids : instances'[id] \in Objects
        /\ \A o \in Objects :
             object'[o] = FreeObject \/ \E id \in ids : instances'[id] = o /\ object'[o].id = id
        /\ \A c \in Clients :
             \/ client'[c] = FreeClient
             \/ \E id \in ids : /\ client'[c] = NewClient(id, device[id], cfg[id], id \in up)
                                /\ object'[instances'[id]].service = c
    <3>1. ids \in SUBSET Ids
      OBVIOUS
    <3>. HIDE DEF ids, cfg
    <3>. QED
      BY <2>1, <3>1, ProvisionShape
  <2>3. ASSUME NEW c \in Clients, client'[c] # FreeClient
        PROVE  /\ client'[c].id \in Ids /\ c = object'[instances'[client'[c].id]].service
               /\ instances'[client'[c].id] # NoObject
               /\ client'[c].jid \in registered \cup {NoDevice} /\ client'[c].dead = FALSE
               /\ client'[c].ws \in {"off", "on"}
               /\ rows[client'[c].id] # NoRow
               /\ client'[c].jid \in {rows[client'[c].id].device, NoDevice}
               /\ rows[client'[c].id].device \in registered /\ ~StoreMayFail
                    => client'[c].jid = rows[client'[c].id].device
    <3>1. PICK id \in ids : /\ client'[c] = NewClient(id, device[id], cfg[id], id \in up)
                            /\ object'[instances'[id]].service = c
      BY <2>2, <2>3
    <3>2. id \in Ids /\ rows[id] # NoRow /\ device[id] \in Found(rows[id].device)
      BY <2>1
    <3>3. instances'[id] # NoObject
      BY <2>2, NullAssumption
    <3>. HIDE DEF ids, cfg
    <3>4. /\ client'[c].id = id /\ client'[c].dead = FALSE /\ client'[c].ws \in {"off", "on"}
          /\ client'[c].jid = device[id]
      BY <3>1, <3>2 DEF NewClient
    <3>. QED
      BY <3>1, <3>2, <3>3, <3>4 DEF Found
  <2>6. \A o \in Objects : object'[o].id # NoId =>
          object'[o].id \in Ids /\ instances'[object'[o].id] = o
    BY <1>1, <2>2
  <2>4. Started'
    <3>. HIDE DEF ids, cfg
    <3>1. ASSUME NEW c \in Clients, client'[c] # FreeClient
          PROVE  /\ client'[c].id \in Ids /\ c = object'[instances'[client'[c].id]].service
                 /\ instances'[client'[c].id] # NoObject
                 /\ client'[c].jid \in registered' \cup {NoDevice} /\ client'[c].dead = FALSE
                 /\ client'[c].ws \in {"off", "on"}
                 /\ Multi => /\ rows'[client'[c].id] # NoRow
                             /\ client'[c].jid \in {rows'[client'[c].id].device, NoDevice}
                             /\ rows'[client'[c].id].device \in registered' /\ ~StoreMayFail
                                  => client'[c].jid = rows'[client'[c].id].device
      BY <1>1, <2>3, <3>1
    <3>. QED
      BY <2>6, <3>1 DEF Started, FreeClient
  <2>5. \A id \in Ids : instances'[id] # NoObject <=> rows[id] # NoRow
    BY <2>2, NullAssumption
  <2>. QED
    BY <1>2, <2>4, <2>5 DEF RestoreInstances
<1>3. CASE EnsureSingleInstance
  <2>. DEFINE first == IF registered = {} THEN {NoDevice} ELSE registered
  <2>1. PICK named \in first :
          \E objectOf \in Injections(Ids, Objects), clientOf \in Injections(Ids, Clients),
             up \in SUBSET Ids, cfg \in [Ids -> Configs] :
            \E device \in [Ids -> Found(named)] : Provision(Ids, objectOf, clientOf, device, cfg, up)
    BY <1>3 DEF EnsureSingleInstance
  <2>. HIDE DEF first
  <2>2. PICK objectOf \in Injections(Ids, Objects), clientOf \in Injections(Ids, Clients),
             up \in SUBSET Ids, cfg \in [Ids -> Configs], device \in [Ids -> Found(named)] :
          Provision(Ids, objectOf, clientOf, device, cfg, up)
    BY <2>1
  <2>3. /\ \A id \in Ids : instances'[id] \in Objects
        /\ \A o \in Objects :
             object'[o] = FreeObject \/ \E id \in Ids : instances'[id] = o /\ object'[o].id = id
        /\ \A c \in Clients :
             \/ client'[c] = FreeClient
             \/ \E id \in Ids : /\ client'[c] = NewClient(id, device[id], cfg[id], id \in up)
                                /\ object'[instances'[id]].service = c
    BY <2>2, ProvisionShape
  <2>4. ASSUME NEW c \in Clients, client'[c] # FreeClient
        PROVE  /\ client'[c].id \in Ids /\ c = object'[instances'[client'[c].id]].service
               /\ instances'[client'[c].id] # NoObject
               /\ client'[c].jid \in registered \cup {NoDevice} /\ client'[c].dead = FALSE
               /\ client'[c].ws \in {"off", "on"}
    <3>1. PICK id \in Ids : /\ client'[c] = NewClient(id, device[id], cfg[id], id \in up)
                            /\ object'[instances'[id]].service = c
      BY <2>3, <2>4
    <3>2. /\ client'[c].id = id /\ client'[c].dead = FALSE /\ client'[c].ws \in {"off", "on"}
          /\ client'[c].jid = device[id]
      BY <3>1 DEF NewClient
    <3>3. device[id] \in registered \cup {NoDevice}
      BY DEF Found
    <3>4. instances'[id] # NoObject
      BY <2>3, NullAssumption
    <3>. QED
      BY <3>1, <3>2, <3>3, <3>4
  <2>5. ~Multi
    BY <1>3 DEF EnsureSingleInstance
  <2>6. Started'
    <3>1. \A o \in Objects : object'[o].id # NoId =>
            object'[o].id \in Ids /\ instances'[object'[o].id] = o
      BY <1>1, <2>3
    <3>2. ASSUME NEW c \in Clients, client'[c] # FreeClient
          PROVE  /\ client'[c].id \in Ids /\ c = object'[instances'[client'[c].id]].service
                 /\ instances'[client'[c].id] # NoObject
                 /\ client'[c].jid \in registered' \cup {NoDevice} /\ client'[c].dead = FALSE
                 /\ client'[c].ws \in {"off", "on"}
      BY <1>1, <2>4, <3>2
    <3>. QED
      BY <2>5, <3>1, <3>2 DEF Started, FreeClient
  <2>. QED
    BY <2>3, <2>5, <2>6, NullAssumption
<1>. QED
  BY <1>2, <1>3

LEMMA StartLetGo ==
    ASSUME PInv', Down, RestoreInstances \/ EnsureSingleInstance PROVE LetGoInv'
<1>1. /\ Started' /\ UNCHANGED <<connects, del, po>>
      /\ \A d \in Deletes : del[d].pc = "idle"
      /\ \A p \in Polls : po[p].pc = "idle"
      /\ \A c \in Clients : connects[c] = 0
  BY StartShape DEF RestoreInstances, EnsureSingleInstance, Down, request
<1>2. ServiceOnce'
  <2>1. ASSUME NEW o \in Objects, NEW q \in Objects, object'[o].id # NoId, object'[q].id # NoId,
               object'[o].service = object'[q].service
        PROVE  o = q
    <3>1. object'[o].id = object'[q].id
      BY <2>1 DEF PInv, Built, ServiceBuilt
    <3>. QED
      BY <1>1, <2>1, <3>1 DEF Started
  <2>. QED
    BY <2>1 DEF ServiceOnce
<1>3. ASSUME NEW c \in Clients PROVE Served(c)' \/ (client'[c].ws # "on" /\ ~ToCome(c)')
  <2>1. CASE client'[c] = FreeClient
    <3>1. client'[c].ws = "off"
      BY <2>1 DEF FreeClient
    <3>. QED
      BY <1>1, <3>1 DEF ToCome, UnderWay
  <2>2. CASE client'[c] # FreeClient
    <3>1. /\ client'[c].id \in Ids /\ c = object'[instances'[client'[c].id]].service
          /\ instances'[client'[c].id] # NoObject
      BY <1>1, <2>2 DEF Started
    <3>2. ~ \E d \in Deletes : del'[d].pc \in {"release", "store", "drop", "clear"}
      BY <1>1
    <3>. QED
      BY <3>1, <3>2 DEF Served
  <2>. QED
    BY <2>1, <2>2
<1>. QED
  BY <1>2, <1>3 DEF LetGoInv

LEMMA NextLetGo ==
    ASSUME PInv, Down, MarkerOwned, LetGoInv, PInv', [Next]_vars PROVE LetGoInv'
<1>1. CASE RestoreInstances \/ EnsureSingleInstance
  BY <1>1, StartLetGo
<1>2. CASE ProcessEnds
  <2>1. /\ \A o \in Objects : object'[o] = FreeObject
        /\ \A c \in Clients : client'[c] = FreeClient /\ connects'[c] = 0
        /\ \A p \in Polls : po'[p] = NoPoll
    BY <1>2 DEF ProcessEnds
  <2>. QED
    BY <2>1 DEF LetGoInv, ServiceOnce, ToCome, UnderWay, FreeObject, FreeClient, NoPoll
<1>3. CASE Running
  BY <1>3, RunningSplits, QuietLetGo, BuildsLetGo, PairLetGo
<1>4. CASE UNCHANGED vars \/ \E device \in Devices : PhoneUnlinks(device)
  <2>1. UNCHANGED <<instances, object, client, connects, po, del, loose>>
    BY <1>4 DEF vars, PhoneUnlinks, memory, request, world, lapses
  <2>. QED
    BY <2>1 DEF LetGoInv, ServiceOnce, Served, ToCome, UnderWay
<1>. QED
  BY <1>1, <1>2, <1>3, <1>4, NextSplits

LEMMA InitLetGo == Init => LetGoInv
<1>1. SUFFICES ASSUME Init PROVE LetGoInv
  OBVIOUS
<1>2. /\ \A o \in Objects : object[o] = FreeObject
      /\ \A c \in Clients : client[c] = FreeClient /\ connects[c] = 0
      /\ \A p \in Polls : po[p] = NoPoll
  BY <1>1 DEF Init
<1>. QED
  BY <1>2 DEF LetGoInv, ServiceOnce, ToCome, UnderWay, FreeObject, FreeClient, NoPoll

\* No connection outlives its instance, but one that was under way when the
\* instance let go of its client: whatever deletes, restarts, rebuilds,
\* logouts, polls, lost connections and shutdowns overlap, and whatever fails.
THEOREM SpecLetGoStaysDown == Spec => []LetGoStaysDown
<1>1. Init => PInv /\ Down /\ MarkerOwned /\ LetGoInv
  BY InitPInv, InitDown, InitMarker, InitLetGo
<1>2. PInv /\ Down /\ MarkerOwned /\ LetGoInv /\ [Next]_vars => (PInv /\ Down /\ MarkerOwned /\ LetGoInv)'
  BY NextPInv, NextMarker, NextLetGo
<1>3. LetGoInv => LetGoStaysDown
  BY DEF LetGoInv, LetGoStaysDown
<1>. QED
  BY <1>1, <1>2, <1>3, PTL DEF Spec

LEMMA InitOwned == Init => Owned
BY NullAssumption DEF Init, Owned, NamedBy, FreeClient, NoEvent

\* Two served clients of one device are of one instance, so of one entry.
LEMMA ServedApart ==
    ASSUME PInv, Owned, NEW b \in Clients, NEW c \in Clients, Served(b), Served(c),
           client[b].jid = client[c].jid, client[c].jid # NoDevice
    PROVE  b = c
<1>1. PICK i \in Ids : instances[i] # NoObject /\ object[instances[i]].service = b
  BY DEF Served
<1>2. PICK k \in Ids : instances[k] # NoObject /\ object[instances[k]].service = c
  BY DEF Served
<1>3. client[b].id = i /\ client[c].id = k
  BY <1>1, <1>2, EntryHolds
<1>4. client[c].jid \in Devices
  BY DEF PInv, TypeOK, ClientRec, AnyDevice
<1>5. NamedBy(i, client[c].jid) /\ NamedBy(k, client[c].jid)
  BY <1>3 DEF NamedBy
<1>6. i = k
  BY <1>4, <1>5 DEF Owned
<1>. QED
  BY <1>1, <1>2, <1>6

\* No device has two connections, whatever restarts, rebuilds, pending
\* Connects and lost connections overlap, but where one of the two is of a
\* client that was let go of while something was under way to connect it.
THEOREM SpecOneConnectionPerDevice ==
    ASSUME Multi \/ \A i, k \in Ids : i = k PROVE Spec => []OneConnectionPerDevice
<1>1. Init => PInv /\ Down /\ MarkerOwned /\ LetGoInv /\ Owned
  BY InitPInv, InitDown, InitMarker, InitLetGo, InitOwned
<1>2. PInv /\ Down /\ MarkerOwned /\ LetGoInv /\ Owned /\ [Next]_vars
      => (PInv /\ Down /\ MarkerOwned /\ LetGoInv /\ Owned)'
  BY NextPInv, NextMarker, NextLetGo, NextOwned
<1>3. PInv /\ LetGoInv /\ Owned => OneConnectionPerDevice
  BY ServedApart DEF LetGoInv, OneConnectionPerDevice, IsLoggedIn
<1>. QED
  BY <1>1, <1>2, <1>3, PTL DEF Spec

-----------------------------------------------------------------------------
(* One client per instance: while nobody deletes or restarts instances and  *)
(* whatsmeow does what it is asked, a new client is made only for one whose *)
(* device is gone.                                                          *)

Alive(c)          == client[c].id # NoId /\ ~client[c].dead
Returning(l)      == lo[l].pc \in {"row", "publish", "rebuild"}
LoggingOut(c)     == handler[c].pc \in {"row", "publish"}

\* What stands for instance id: its live client, the logout by the API that
\* took the device away and will rebuild it, the event handler that will, or
\* a rebuild that is pending.
Turn(id, k, v) ==
    \/ k = "client" /\ v \in Clients /\ Alive(v) /\ client[v].id = id
    \/ k = "logout" /\ v \in Logouts /\ Returning(v) /\ object[lo[v].inst].id = id
    \/ k = "event" /\ v \in Clients /\ LoggingOut(v) /\ client[v].id = id
    \/ k = "rebuild" /\ v \in Nat /\ v < rebuilds[id]

\* There is one of them at a time.
OneTurn == \A id \in Ids : \A k, v, m, w : Turn(id, k, v) /\ Turn(id, m, w) => k = m /\ v = w

\* They end with the entry, and a dead client is blank and off.
Life ==
    /\ OneTurn
    /\ phase = "serving" => \A id \in Ids : (\E k, v : Turn(id, k, v)) => instances[id] # NoObject
    /\ \A c \in Clients : client[c].dead => client[c].jid = NoDevice /\ client[c].ws # "on"

LEMMA OneTurnStays ==
    ASSUME OneTurn, \A id \in Ids : \A k, v : Turn(id, k, v)' => Turn(id, k, v)
    PROVE  OneTurn' /\ \A id \in Ids : (\E k, v : Turn(id, k, v))' => \E k, v : Turn(id, k, v)
BY DEF OneTurn

\* The turn of i passes from one to the next, and no other begins.
Passes(i, a, x, b, y) ==
    /\ Turn(i, a, x)
    /\ \A id \in Ids : \A k, v : Turn(id, k, v)' =>
         \/ Turn(id, k, v) /\ ~(id = i /\ k = a /\ v = x)
         \/ id = i /\ k = b /\ v = y

LEMMA OneTurnMoves ==
    ASSUME OneTurn, NEW i \in Ids, NEW a, NEW x, NEW b, NEW y, Passes(i, a, x, b, y)
    PROVE  OneTurn' /\ \A id \in Ids : (\E k, v : Turn(id, k, v))' => \E k, v : Turn(id, k, v)
<1>1. \A k, v : Turn(i, k, v)' => k = b /\ v = y
  BY DEF OneTurn, Passes
<1>2. \A id \in Ids : id # i => \A k, v : Turn(id, k, v)' => Turn(id, k, v)
  BY DEF Passes
<1>3. OneTurn'
  <2>1. ASSUME NEW id \in Ids, NEW k, NEW v, NEW m, NEW w, Turn(id, k, v)', Turn(id, m, w)'
        PROVE  k = m /\ v = w
    <3>1. CASE id = i
      <4>1. Turn(i, k, v)' /\ Turn(i, m, w)'
        BY <2>1, <3>1 DEF Turn
      <4>. QED
        BY <1>1, <4>1
    <3>2. CASE id # i
      BY <1>2, <2>1, <3>2 DEF OneTurn
    <3>. QED
      BY <3>1, <3>2
  <2>. QED
    BY <2>1 DEF OneTurn
<1>4. ASSUME NEW id \in Ids, NEW k, NEW v, Turn(id, k, v)' PROVE \E m, w : Turn(id, m, w)
  <2>1. CASE id = i
    BY <2>1 DEF Passes
  <2>2. CASE id # i
    BY <1>2, <1>4, <2>2
  <2>. QED
    BY <2>1, <2>2
<1>. QED
  BY <1>3, <1>4

LEMMA TurnFrame ==
    ASSUME PInv, NEW id \in Ids, NEW k, NEW v, Turn(id, k, v)',
           \A c \in Clients : Same(c),
           \A o \in Objects : object[o].id # NoId => object'[o].id = object[o].id,
           \A l \in Logouts : k = "logout" /\ v = l /\ Returning(l)'
                              => Returning(l) /\ lo'[l].inst = lo[l].inst,
           \A c \in Clients : k = "event" /\ v = c /\ LoggingOut(c)' => LoggingOut(c),
           k = "rebuild" /\ v < rebuilds'[id] => v < rebuilds[id]
    PROVE  Turn(id, k, v)
<1>1. CASE k = "client"
  BY <1>1 DEF Turn, Alive, Same
<1>2. CASE k = "logout"
  <2>1. v \in Logouts /\ Returning(v)' /\ object'[lo'[v].inst].id = id
    BY <1>2 DEF Turn
  <2>2. Returning(v) /\ lo'[v].inst = lo[v].inst
    BY <1>2, <2>1
  <2>3. lo[v].inst \in Objects /\ object[lo[v].inst].id \in Ids
    BY <2>1, <2>2, LogoutHolds DEF Returning
  <2>4. object[lo[v].inst].id = id
    BY <2>1, <2>2, <2>3, NullAssumption
  <2>. QED
    BY <1>2, <2>1, <2>2, <2>4 DEF Turn
<1>3. CASE k = "event"
  BY <1>3 DEF Turn, Same
<1>4. CASE k = "rebuild"
  BY <1>4 DEF Turn
<1>. QED
  BY <1>1, <1>2, <1>3, <1>4 DEF Turn

\* The quiet steps by which a device goes, and that of the handler which
\* leaves the rest to a rebuild.
Yields == \/ \E l \in Logouts : LogoutDevice(l)
          \/ \E c \in Clients : ServerLogout(c) \/ LoggedOutPublish(c)

LEMMA QuietLogouts ==
    ASSUME PInv, Quiet, ~Yields
    PROVE  /\ \A l \in Logouts : Returning(l)' => Returning(l) /\ lo'[l].inst = lo[l].inst
           /\ \A c \in Clients : LoggingOut(c)' => LoggingOut(c)
           /\ rebuilds' = rebuilds
<1>0. lo \in [Logouts -> LogoutRec] /\ handler \in [Clients -> EventRec]
  BY DEF PInv, TypeOK
<1>1. rebuilds' = rebuilds
  BY PollFrame DEF Quiet, Yields, Shutdown, UpdateInstanceConfig, DeleteStep, DeleteBegin, DeleteCheck, DeleteUnlink,
       DeleteRelease, DeleteStore, DeleteDrop, DeleteClear, LogoutRow, LogoutPublish, LogoutBegin,
       CallerLeaves, Connect, ConnectionLost, AutoReconnect,
       HandlerStep, PairSuccess, LoggedOutRow, memory
<1>2. \A c \in Clients : LoggingOut(c)' => LoggingOut(c)
  <2>1. CASE \E c \in Clients : PairSuccess(c)
    BY <1>0, <2>1 DEF PairSuccess, LoggingOut, NoEvent
  <2>2. CASE \E c \in Clients : LoggedOutRow(c)
    <3>1. PICK c \in Clients : LoggedOutRow(c)
      BY <2>2
    <3>2. handler[c].pc = "row" /\ \A b \in Clients : b # c => handler'[b] = handler[b]
      BY <1>0, <3>1 DEF LoggedOutRow
    <3>. QED
      BY <3>2 DEF LoggingOut
  <2>3. CASE ~ \E c \in Clients : HandlerStep(c) \/ ServerLogout(c)
    <3>1. handler' = handler
      BY <2>3, PollFrame DEF Quiet, Shutdown, UpdateInstanceConfig, DeleteStep, DeleteBegin, DeleteCheck,
         DeleteUnlink, DeleteRelease, DeleteStore, DeleteDrop, DeleteClear, LogoutDevice, LogoutRow,
         LogoutPublish, LogoutBegin, CallerLeaves, Connect,
         ConnectionLost, AutoReconnect, memory
    <3>. QED
      BY <3>1 DEF LoggingOut
  <2>. QED
    BY <2>1, <2>2, <2>3 DEF Yields, HandlerStep
<1>3. \A l \in Logouts : Returning(l)' => Returning(l) /\ lo'[l].inst = lo[l].inst
  <2>1. ASSUME NEW l \in Logouts, LogoutRow(l) \/ LogoutPublish(l)
        PROVE  \A m \in Logouts : Returning(m)' => Returning(m) /\ lo'[m].inst = lo[m].inst
    <3>1. PICK p : lo' = [lo EXCEPT ![l].pc = p]
      BY <2>1 DEF LogoutRow, LogoutPublish
    <3>2. \A m \in Logouts : lo'[m].inst = lo[m].inst /\ (m # l => lo'[m] = lo[m])
      BY <1>0, <3>1 DEF LogoutRec
    <3>3. Returning(l)
      BY <2>1 DEF LogoutRow, LogoutPublish, Returning
    <3>. QED
      BY <3>2, <3>3 DEF Returning
  <2>2. ASSUME NEW l \in Logouts, NEW id \in Ids, LogoutBegin(l, id)
        PROVE  \A m \in Logouts : Returning(m)' => Returning(m) /\ lo'[m].inst = lo[m].inst
    <3>1. lo'[l].pc = "device" /\ \A m \in Logouts : m # l => lo'[m] = lo[m]
      BY <1>0, <2>2 DEF LogoutBegin, NoLogout
    <3>. QED
      BY <3>1 DEF Returning
  <2>3. CASE ~ \E l \in Logouts : LogoutRow(l) \/ LogoutPublish(l) \/ \E id \in Ids : LogoutBegin(l, id)
    <3>1. lo' = lo
      BY <2>3, PollFrame DEF Quiet, Yields, Shutdown, UpdateInstanceConfig, DeleteStep, DeleteBegin, DeleteCheck,
         DeleteUnlink, DeleteRelease, DeleteStore, DeleteDrop, DeleteClear, CallerLeaves, Connect, ConnectionLost, AutoReconnect, HandlerStep, PairSuccess,
         LoggedOutRow, request
    <3>. QED
      BY <3>1 DEF Returning
  <2>. QED
    BY <2>1, <2>2, <2>3
<1>. QED
  BY <1>1, <1>2, <1>3

LEMMA DeviceGone ==
    ASSUME PInv, NEW c \in Clients, client[c].jid # NoDevice, DeviceErased(c)
    PROVE  client'[c].dead /\ client'[c].jid = NoDevice
<1>. DEFINE cl == Disconnect(client, c)
<1>1. cl \in [Clients -> ClientRec] /\ cl[c].jid = client[c].jid
  BY DisconnectFrame DEF PInv, TypeOK
<1>2. client' = EraseDevice(cl, c)
  BY DEF DeviceErased
<1>. HIDE DEF cl
<1>. QED
  BY <1>1, <1>2 DEF EraseDevice, ClientRec

\* The devices that were left behind are remembered.
LEMMA NextStray == PInv /\ [Next]_vars => stray \subseteq stray'
<1>1. \A c : DeleteDevice(c) \/ DeviceErased(c) \/ DeviceKept(c) => stray \subseteq stray'
  BY DEF DeleteDevice, DeviceErased, DeviceKept
<1>2. (\E d \in Deletes : DeleteUnlink(d)) => stray \subseteq stray'
  BY <1>1 DEF DeleteUnlink
<1>3. (\E l \in Logouts : LogoutDevice(l)) => stray \subseteq stray'
  BY <1>1 DEF LogoutDevice
<1>4. (\E c \in Clients : ServerLogout(c)) => stray \subseteq stray'
  BY <1>1 DEF ServerLogout
<1>5. (\E id \in Ids : RestartInstance(id)) => stray \subseteq stray'
  BY DEF RestartInstance
<1>6. Quiet => stray \subseteq stray'
  BY <1>2, <1>3, <1>4, PollFrame
     DEF Quiet, Shutdown, UpdateInstanceConfig, DeleteStep, DeleteBegin, DeleteCheck, DeleteRelease,
         DeleteStore, DeleteDrop, DeleteClear, LogoutRow, LogoutPublish, LogoutBegin, CallerLeaves,
         Connect, HandlerStep, PairSuccess, LoggedOutRow, LoggedOutPublish, ConnectionLost,
         AutoReconnect, world, lapses
<1>7. ASSUME NEW id \in Ids, Builds(id) PROVE stray \subseteq stray'
  BY <1>5, <1>7 DEF Builds, RebuildRuns, LogoutRebuild, CreateInstance, world, lapses
<1>8. ASSUME NEW c \in Clients, Pair(c) PROVE stray \subseteq stray'
  BY <1>8 DEF Pair, lapses
<1>9. RestoreInstances \/ EnsureSingleInstance => stray \subseteq stray'
  BY DEF RestoreInstances, EnsureSingleInstance
<1>10. ProcessEnds => stray \subseteq stray'
  BY DEF ProcessEnds
<1>11. UNCHANGED vars \/ (\E device \in Devices : PhoneUnlinks(device)) => stray \subseteq stray'
  BY DEF vars, PhoneUnlinks, world, lapses
<1>12. PInv /\ Running => stray \subseteq stray'
  BY <1>6, <1>7, <1>8, RunningSplits
<1>13. PInv /\ Next => stray \subseteq stray'
  BY <1>9, <1>10, <1>11, <1>12, NextSplits
<1>. QED
  BY <1>11, <1>13

LEMMA LifeFrame ==
    ASSUME PInv, Running, NoDeletes, Life, OneTurn',
           \A id \in Ids : (\E k, v : Turn(id, k, v))'
                           => (\E k, v : Turn(id, k, v)) \/ instances'[id] # NoObject,
           \A c \in Clients : client'[c].dead => client'[c].jid = NoDevice /\ client'[c].ws # "on"
    PROVE  Life'
<1>1. Shutdown => phase' = "stopping"
  BY DEF Shutdown
<1>2. ~Shutdown => phase' = phase
  BY PollFrame DEF Running, RestartInstance, RebuildRuns, CreateInstance, UpdateInstanceConfig, DeleteStep, DeleteBegin,
       DeleteCheck, DeleteUnlink, DeleteRelease, DeleteStore, DeleteDrop, DeleteClear, LogoutStep,
       LogoutBegin, LogoutDevice, LogoutRow, LogoutPublish, LogoutRebuild, CallerLeaves, Connect, Pair, HandlerStep, PairSuccess, LoggedOutRow, LoggedOutPublish,
       ServerLogout, ConnectionLost, AutoReconnect
<1>3. ASSUME phase' = "serving", NEW id \in Ids, (\E k, v : Turn(id, k, v))' PROVE instances'[id] # NoObject
  <2>1. phase = "serving" /\ ~Shutdown
    BY <1>1, <1>2, <1>3
  <2>2. instances[id] # NoObject => instances'[id] # NoObject
    BY <2>1, EntriesStay
  <2>. QED
    BY <1>3, <2>1, <2>2 DEF Life
<1>. QED
  BY <1>3 DEF Life

LEMMA QuietDead ==
    ASSUME PInv, Life, Quiet
    PROVE  \A c \in Clients : client'[c].dead => client'[c].jid = NoDevice /\ client'[c].ws # "on"
BY QuietSame DEF Life, Same

\* The steps of Yields: the turn passes from a client to the logout or the
\* handler, and from the handler to a rebuild.
LEMMA YieldTurns ==
    ASSUME PInv, Life, Quiet, Yields, stray' = {}
    PROVE  OneTurn' /\ \A id \in Ids : (\E k, v : Turn(id, k, v))' => \E k, v : Turn(id, k, v)
<1>. DEFINE Goal == OneTurn' /\ \A id \in Ids : (\E k, v : Turn(id, k, v))' => \E k, v : Turn(id, k, v)
<1>0. /\ lo \in [Logouts -> LogoutRec] /\ handler \in [Clients -> EventRec]
      /\ rebuilds \in [Ids -> 0..MaxRebuilds] /\ MaxRebuilds \in Nat
      /\ \A c \in Clients : Same(c)
      /\ \A o \in Objects : object'[o].id = object[o].id
      /\ OneTurn
  BY QuietSame, QuietPointers, SwitchAssumption DEF PInv, TypeOK, Life
<1>1. ASSUME NEW l \in Logouts, LogoutDevice(l) PROVE Goal
  <2>. DEFINE c == object[lo[l].inst].service
              i == object[lo[l].inst].id
  <2>1. UNCHANGED <<handler, rebuilds>>
    BY <1>1 DEF LogoutDevice
  <2>2. CASE Unlink(c) /\ DeviceErased(c) /\ lo' = [lo EXCEPT ![l].pc = "row", ![l].device = client[c].jid]
    <3>1. i \in Ids /\ c \in Clients /\ client[c].id = i
      BY <1>1, LogoutHolds, Held DEF LogoutDevice
    <3>2. client[c].jid # NoDevice /\ DeviceErased(c)
      BY <2>2 DEF Unlink, IsLoggedIn
    <3>3. client'[c].dead
      <4>. HIDE DEF c
      <4>. QED
        BY <3>1, <3>2, DeviceGone
    <3>4. \A m \in Logouts : m # l => lo'[m] = lo[m]
      BY <1>0, <2>2
    <3>5. lo'[l].inst = lo[l].inst
      BY <1>0, <2>2 DEF LogoutRec
    <3>6. ~client[c].dead
      BY <3>1, <3>2 DEF Life
    <3>. HIDE DEF c
    <3>7. Turn(i, "client", c)
      BY <3>1, <3>6, NullAssumption DEF Turn, Alive
    <3>8. ASSUME NEW id \in Ids, NEW k, NEW v, Turn(id, k, v)'
          PROVE  \/ Turn(id, k, v) /\ ~(id = i /\ k = "client" /\ v = c)
                 \/ id = i /\ k = "logout" /\ v = l
      <4>1. CASE k = "logout" /\ v = l
        <5>1. object'[lo'[l].inst].id = id
          BY <3>8, <4>1 DEF Turn
        <5>2. lo[l].inst \in Objects
          BY <1>1, LogoutHolds DEF LogoutDevice
        <5>. QED
          BY <1>0, <3>5, <4>1, <5>1, <5>2
      <4>2. CASE ~(k = "logout" /\ v = l)
        <5>1. Turn(id, k, v)
          BY <1>0, <2>1, <3>4, <3>8, <4>2, TurnFrame DEF Returning, LoggingOut
        <5>2. ~(k = "client" /\ v = c)
          BY <3>3, <3>8 DEF Turn, Alive
        <5>. QED
          BY <5>1, <5>2
      <4>. QED
        BY <4>1, <4>2
    <3>9. Passes(i, "client", c, "logout", l)
      BY <3>7, <3>8 DEF Passes
    <3>. QED
      BY <1>0, <3>1, <3>9, OneTurnMoves
  <2>3. CASE lo' = [lo EXCEPT ![l] = NoLogout]
    <3>1. \A m \in Logouts : Returning(m)' => Returning(m) /\ lo'[m].inst = lo[m].inst
      BY <1>0, <2>3 DEF Returning, NoLogout
    <3>2. \A id \in Ids : \A k, v : Turn(id, k, v)' => Turn(id, k, v)
      BY <1>0, <2>1, <3>1, TurnFrame DEF LoggingOut
    <3>. QED
      BY <1>0, <3>2, OneTurnStays
  <2>. QED
    BY <1>1, <2>2, <2>3 DEF LogoutDevice
<1>2. ASSUME NEW c \in Clients, ServerLogout(c) PROVE Goal
  <2>. DEFINE i == client[c].id
  <2>1. UNCHANGED <<lo, rebuilds>> /\ \A b \in Clients : b # c => handler'[b] = handler[b]
    BY <1>0, <1>2 DEF ServerLogout, request
  <2>2. client[c].jid # NoDevice /\ DeviceErased(c) /\ i \in Ids
    BY <1>2 DEF ServerLogout, IsLoggedIn, DeleteDevice, DeviceKept, PInv, Built, ClientBuilt
  <2>3. client'[c].dead
    BY <2>2, DeviceGone
  <2>4. ~client[c].dead /\ client'[c].id = i
    BY <1>0, <2>2 DEF Same, Life
  <2>5. Turn(i, "client", c)
    BY <2>2, <2>4, NullAssumption DEF Turn, Alive
  <2>6. ASSUME NEW id \in Ids, NEW k, NEW v, Turn(id, k, v)'
        PROVE  \/ Turn(id, k, v) /\ ~(id = i /\ k = "client" /\ v = c)
               \/ id = i /\ k = "event" /\ v = c
    <3>1. CASE k = "event" /\ v = c
      BY <2>4, <2>6, <3>1 DEF Turn
    <3>2. CASE ~(k = "event" /\ v = c)
      <4>1. Turn(id, k, v)
        BY <1>0, <2>1, <2>6, <3>2, TurnFrame DEF Returning, LoggingOut
      <4>2. ~(k = "client" /\ v = c)
        BY <2>3, <2>6 DEF Turn, Alive
      <4>. QED
        BY <4>1, <4>2
    <3>. QED
      BY <3>1, <3>2
  <2>. HIDE DEF i
  <2>7. Passes(i, "client", c, "event", c)
    BY <2>5, <2>6 DEF Passes
  <2>. QED
    BY <1>0, <2>2, <2>7, OneTurnMoves
<1>3. ASSUME NEW c \in Clients, LoggedOutPublish(c) PROVE Goal
  <2>. DEFINE i == client[c].id
              n == rebuilds[i]
  <2>1. /\ lo' = lo /\ \A b \in Clients : b # c => handler'[b] = handler[b]
        /\ handler'[c].pc = "idle" /\ rebuilds' = [rebuilds EXCEPT ![i] = n + 1]
    BY <1>0, <1>3 DEF LoggedOutPublish, request, NoEvent
  <2>2. i \in Ids /\ Turn(i, "event", c)
    BY <1>3 DEF LoggedOutPublish, PInv, Built, ClientBuilt, Turn, LoggingOut
  <2>3. n \in Nat /\ rebuilds'[i] = n + 1 /\ \A id \in Ids : id # i => rebuilds'[id] = rebuilds[id]
    BY <1>0, <2>1, <2>2
  <2>. HIDE DEF n
  <2>4. ASSUME NEW id \in Ids, NEW k, NEW v, Turn(id, k, v)'
        PROVE  \/ Turn(id, k, v) /\ ~(id = i /\ k = "event" /\ v = c)
               \/ id = i /\ k = "rebuild" /\ v = n
    <3>1. k = "rebuild" => v \in Nat /\ v < rebuilds'[id]
      BY <2>4 DEF Turn
    <3>2. (k = "rebuild" /\ v < rebuilds'[id] => v < rebuilds[id]) \/ (id = i /\ k = "rebuild" /\ v = n)
      <4>1. CASE id = i /\ k = "rebuild"
        <5>1. v \in Nat /\ v < n + 1 /\ rebuilds[id] = n
          BY <2>3, <3>1, <4>1 DEF n
        <5>2. v = n \/ v < n
          BY <2>3, <5>1
        <5>. QED
          BY <4>1, <5>1, <5>2
      <4>2. CASE id # i
        BY <2>3, <4>2
      <4>. QED
        BY <4>1, <4>2
    <3>3. CASE k = "rebuild" /\ v < rebuilds'[id] => v < rebuilds[id]
      <4>1. Turn(id, k, v)
        BY <1>0, <2>1, <2>4, <3>3, TurnFrame DEF Returning, LoggingOut
      <4>2. ~(k = "event" /\ v = c)
        BY <2>1, <2>4 DEF Turn, LoggingOut
      <4>. QED
        BY <4>1, <4>2
    <3>. QED
      BY <3>2, <3>3
  <2>. HIDE DEF i
  <2>5. Passes(i, "event", c, "rebuild", n)
    BY <2>2, <2>4 DEF Passes
  <2>. QED
    BY <1>0, <2>2, <2>5, OneTurnMoves
<1>. QED
  BY <1>1, <1>2, <1>3 DEF Yields

LEMMA QuietLife == ASSUME PInv, Running, NoDeletes, Life, Quiet, stray' = {} PROVE Life'
<1>1. OneTurn
  BY DEF Life
<1>2. CASE Yields
  BY <1>2, YieldTurns, QuietDead, LifeFrame
<1>3. CASE ~Yields
  <2>1. \A id \in Ids : \A k, v : Turn(id, k, v)' => Turn(id, k, v)
    BY <1>3, QuietSame, QuietPointers, QuietLogouts, TurnFrame
  <2>2. OneTurn' /\ \A id \in Ids : (\E k, v : Turn(id, k, v))' => \E k, v : Turn(id, k, v)
    BY <1>1, <2>1, OneTurnStays
  <2>. QED
    BY <2>2, QuietDead, LifeFrame
<1>. QED
  BY <1>2, <1>3

\* A new client takes a turn; the others are what they were.
LEMMA ReplacedTurns ==
    ASSUME PInv, Running, NEW id \in Ids, NEW o \in Objects, NEW c \in NewClients, Replaced(id, o, c),
           handler' = handler, NEW i \in Ids, NEW k, NEW v, Turn(i, k, v)',
           \A l \in Logouts : k = "logout" /\ v = l /\ Returning(l)'
                              => Returning(l) /\ lo'[l].inst = lo[l].inst,
           k = "rebuild" /\ v < rebuilds'[i] => v < rebuilds[i]
    PROVE  Turn(i, k, v) \/ (i = id /\ k = "client" /\ v = c)
<1>0. c \in Clients /\ client[c].id = NoId /\ handler[c].pc = "idle"
  BY NullAssumption DEF NewClients, PInv, TypeOK, EventRec, Built, ClientBuilt
<1>1. \A b \in Clients : b # c => client'[b].id = client[b].id /\ client'[b].dead = client[b].dead
  BY DEF Replaced
<1>2. CASE k = "client" /\ v # c
  BY <1>1, <1>2 DEF Turn, Alive
<1>3. CASE k = "client" /\ v = c
  BY <1>3 DEF Turn, Replaced
<1>4. CASE k = "logout"
  <2>1. v \in Logouts /\ Returning(v)' /\ object'[lo'[v].inst].id = i
    BY <1>4 DEF Turn
  <2>2. Returning(v) /\ lo'[v].inst = lo[v].inst
    BY <1>4, <2>1
  <2>3. lo[v].inst \in Objects /\ object[lo[v].inst].id \in Ids
    BY <2>1, <2>2, LogoutHolds DEF Returning
  <2>4. object[lo[v].inst].id = i
    BY <2>1, <2>2, <2>3, StructsKeepIds, NullAssumption
  <2>. QED
    BY <1>4, <2>1, <2>2, <2>4 DEF Turn
<1>5. CASE k = "event"
  <2>1. v \in Clients /\ LoggingOut(v)' /\ client'[v].id = i
    BY <1>5 DEF Turn
  <2>2. LoggingOut(v) /\ v # c
    BY <1>0, <2>1 DEF LoggingOut
  <2>. QED
    BY <1>1, <1>5, <2>1, <2>2 DEF Turn
<1>6. CASE k = "rebuild"
  BY <1>6 DEF Turn
<1>. QED
  BY <1>2, <1>3, <1>4, <1>5, <1>6 DEF Turn

LEMMA ReplacedDead ==
    ASSUME Life, NEW id, NEW o, NEW c \in Clients, Replaced(id, o, c)
    PROVE  \A b \in Clients : client'[b].dead => client'[b].jid = NoDevice /\ client'[b].ws # "on"
BY DEF Life, Replaced

LEMMA RebuildRunsLife ==
    ASSUME PInv, Running, NoDeletes, Life, NEW id \in Ids, RebuildRuns(id) PROVE Life'
<1>. DEFINE n == rebuilds[id] - 1
<1>0. /\ lo' = lo /\ handler' = handler /\ instances' = instances /\ RebuildService(id)
      /\ rebuilds \in [Ids -> 0..MaxRebuilds] /\ MaxRebuilds \in Nat /\ OneTurn
      /\ rebuilds[id] > 0 /\ rebuilds' = [rebuilds EXCEPT ![id] = n]
  BY SwitchAssumption DEF RebuildRuns, request, PInv, TypeOK, Life
<1>1. n \in Nat /\ n < rebuilds[id]
  BY <1>0
<1>2. rebuilds'[id] = n /\ \A i \in Ids : i # id => rebuilds'[i] = rebuilds[i]
  BY <1>0
<1>3. rebuilds[id] \in Nat /\ n = rebuilds[id] - 1
  BY <1>0
<1>4. Turn(id, "rebuild", n)
  BY <1>1 DEF Turn
<1>. HIDE DEF n
<1>5. ASSUME NEW i \in Ids, NEW k, NEW v, Turn(i, k, v)'
      PROVE  /\ k = "rebuild" /\ v < rebuilds'[i] => v < rebuilds[i]
             /\ ~(i = id /\ k = "rebuild" /\ v = n)
  <2>1. k = "rebuild" => v \in Nat /\ v < rebuilds'[i]
    BY <1>5 DEF Turn
  <2>2. CASE i # id
    BY <1>2, <2>2
  <2>3. CASE i = id /\ k = "rebuild"
    <3>1. v \in Nat /\ v < n
      BY <1>2, <2>1, <2>3
    <3>2. v < rebuilds[id] /\ v # n
      BY <1>1, <1>3, <3>1
    <3>. QED
      BY <2>3, <3>2
  <2>. QED
    BY <2>2, <2>3
<1>6. CASE UNCHANGED <<object, client>>
  <2>1. \A c \in Clients : Same(c)
    BY <1>6, ClientsStay
  <2>2. \A i \in Ids : \A k, v : Turn(i, k, v)' => Turn(i, k, v)
    BY <1>0, <1>5, <1>6, <2>1, TurnFrame DEF Returning, LoggingOut
  <2>3. OneTurn' /\ \A i \in Ids : (\E k, v : Turn(i, k, v))' => \E k, v : Turn(i, k, v)
    BY <1>0, <2>2, OneTurnStays
  <2>4. \A c \in Clients : client'[c].dead => client'[c].jid = NoDevice /\ client'[c].ws # "on"
    BY <1>6 DEF Life
  <2>. QED
    BY <2>3, <2>4, LifeFrame
<1>7. ASSUME NEW o \in Objects, NEW c \in NewClients, Replaced(id, o, c) PROVE Life'
  <2>1. ASSUME NEW i \in Ids, NEW k, NEW v, Turn(i, k, v)'
        PROVE  \/ Turn(i, k, v) /\ ~(i = id /\ k = "rebuild" /\ v = n)
               \/ i = id /\ k = "client" /\ v = c
    <3>1. Turn(i, k, v) \/ (i = id /\ k = "client" /\ v = c)
      BY <1>0, <1>5, <1>7, <2>1, ReplacedTurns DEF Returning
    <3>. QED
      BY <1>5, <2>1, <3>1
  <2>2. Passes(id, "rebuild", n, "client", c)
    BY <1>4, <2>1 DEF Passes
  <2>3. OneTurn' /\ \A i \in Ids : (\E k, v : Turn(i, k, v))' => \E k, v : Turn(i, k, v)
    BY <1>0, <2>2, OneTurnMoves
  <2>4. c \in Clients
    BY DEF NewClients
  <2>. QED
    BY <1>7, <2>3, <2>4, ReplacedDead, LifeFrame
<1>. QED
  BY <1>0, <1>6, <1>7, RebuildShape

LEMMA LogoutRebuildLife ==
    ASSUME PInv, Running, NoDeletes, Life, NEW l \in Logouts, LogoutRebuild(l) PROVE Life'
<1>. DEFINE id == object[lo[l].inst].id
<1>0. /\ UNCHANGED <<handler, instances, rebuilds>> /\ RebuildService(id) /\ OneTurn
      /\ lo[l].pc = "rebuild" /\ id \in Ids
      /\ lo'[l].pc = "idle" /\ \A m \in Logouts : m # l => lo'[m] = lo[m]
  BY LogoutHolds DEF LogoutRebuild, PInv, TypeOK, Life, NoLogout
<1>1. Turn(id, "logout", l)
  BY <1>0 DEF Turn, Returning
<1>2. /\ ~Returning(l)'
      /\ \A m \in Logouts : Returning(m)' => Returning(m) /\ lo'[m].inst = lo[m].inst
  BY <1>0 DEF Returning
<1>3. ASSUME NEW i, NEW k, NEW v, Turn(i, k, v)' PROVE ~(k = "logout" /\ v = l)
  BY <1>2, <1>3 DEF Turn
<1>. HIDE DEF id
<1>4. CASE UNCHANGED <<object, client>>
  <2>1. \A c \in Clients : Same(c)
    BY <1>4, ClientsStay
  <2>2. \A i \in Ids : \A k, v : Turn(i, k, v)' => Turn(i, k, v)
    BY <1>0, <1>2, <1>4, <2>1, TurnFrame DEF LoggingOut
  <2>3. OneTurn' /\ \A i \in Ids : (\E k, v : Turn(i, k, v))' => \E k, v : Turn(i, k, v)
    BY <1>0, <2>2, OneTurnStays
  <2>4. \A c \in Clients : client'[c].dead => client'[c].jid = NoDevice /\ client'[c].ws # "on"
    BY <1>4 DEF Life
  <2>. QED
    BY <2>3, <2>4, LifeFrame
<1>5. ASSUME NEW o \in Objects, NEW c \in NewClients, Replaced(id, o, c) PROVE Life'
  <2>1. ASSUME NEW i \in Ids, NEW k, NEW v, Turn(i, k, v)'
        PROVE  \/ Turn(i, k, v) /\ ~(i = id /\ k = "logout" /\ v = l)
               \/ i = id /\ k = "client" /\ v = c
    <3>1. Turn(i, k, v) \/ (i = id /\ k = "client" /\ v = c)
      BY <1>0, <1>2, <1>5, <2>1, ReplacedTurns
    <3>. QED
      BY <1>3, <2>1, <3>1
  <2>2. Passes(id, "logout", l, "client", c)
    BY <1>1, <2>1 DEF Passes
  <2>3. OneTurn' /\ \A i \in Ids : (\E k, v : Turn(i, k, v))' => \E k, v : Turn(i, k, v)
    BY <1>0, <2>2, OneTurnMoves
  <2>4. c \in Clients
    BY DEF NewClients
  <2>. QED
    BY <1>5, <2>3, <2>4, ReplacedDead, LifeFrame
<1>. QED
  BY <1>0, <1>4, <1>5, RebuildShape

LEMMA CreateLife ==
    ASSUME PInv, Running, NoDeletes, Life, NEW id \in Ids, NEW cfg \in Configs,
           CreateInstance(id, cfg)
    PROVE  Life'
<1>0. UNCHANGED <<handler, lo, rebuilds>> /\ phase = "serving" /\ OneTurn
  BY DEF CreateInstance, request, Life
<1>1. instances[id] = NoObject /\ \E o \in Objects, c \in NewClients : Replaced(id, o, c)
  BY CreateShape
<1>2. PICK o \in Objects, c \in NewClients : Replaced(id, o, c)
  BY <1>1
<1>3. \A k, v : ~Turn(id, k, v)
  BY <1>0, <1>1 DEF Life
<1>4. instances'[id] # NoObject
  BY <1>2, NullAssumption DEF Replaced
<1>5. \A i \in Ids : \A k, v : Turn(i, k, v)' => Turn(i, k, v) \/ (i = id /\ k = "client" /\ v = c)
  BY <1>0, <1>2, ReplacedTurns DEF Returning
<1>6. OneTurn'
  <2>1. ASSUME NEW i \in Ids, NEW k, NEW v, NEW m, NEW w, Turn(i, k, v)', Turn(i, m, w)'
        PROVE  k = m /\ v = w
    <3>1. CASE i = id
      BY <1>3, <1>5, <2>1, <3>1
    <3>2. CASE i # id
      BY <1>0, <1>5, <2>1, <3>2 DEF OneTurn
    <3>. QED
      BY <3>1, <3>2
  <2>. QED
    BY <2>1 DEF OneTurn
<1>7. \A i \in Ids : (\E k, v : Turn(i, k, v))' => (\E k, v : Turn(i, k, v)) \/ instances'[i] # NoObject
  BY <1>4, <1>5
<1>8. \A b \in Clients : client'[b].dead => client'[b].jid = NoDevice /\ client'[b].ws # "on"
  BY <1>2, ReplacedDead DEF NewClients
<1>. QED
  BY <1>6, <1>7, <1>8, LifeFrame

LEMMA PairLife ==
    ASSUME PInv, Running, NoDeletes, Life, NEW c \in Clients, Pair(c) PROVE Life'
<1>0. UNCHANGED <<object, lo, rebuilds>> /\ OneTurn
  BY DEF Pair, request, Life
<1>1. /\ client[c].ws = "on" /\ handler'[c].pc = "paired"
      /\ client'[c].id = client[c].id /\ client'[c].dead = client[c].dead
      /\ \A b \in Clients : b # c => client'[b] = client[b] /\ handler'[b] = handler[b]
  <2>1. PICK device \in Devices \ paired :
          /\ client[c].ws = "on" /\ handler'[c] = [pc |-> "paired", device |-> device]
          /\ client'[c].id = client[c].id /\ client'[c].dead = client[c].dead
          /\ \A b \in Clients : b # c => client'[b] = client[b] /\ handler'[b] = handler[b]
    BY PairShape
  <2>. QED
    BY <2>1
<1>2. ~client[c].dead
  BY <1>1 DEF Life
<1>3. \A i \in Ids : \A k, v : Turn(i, k, v)' => Turn(i, k, v)
  <2>1. \A b \in Clients : /\ client'[b].id = client[b].id /\ client'[b].dead = client[b].dead
                           /\ LoggingOut(b)' => LoggingOut(b)
    BY <1>1 DEF LoggingOut
  <2>. QED
    BY <1>0, <2>1 DEF Turn, Alive, Returning
<1>4. OneTurn' /\ \A i \in Ids : (\E k, v : Turn(i, k, v))' => \E k, v : Turn(i, k, v)
  BY <1>0, <1>3, OneTurnStays
<1>5. \A b \in Clients : client'[b].dead => client'[b].jid = NoDevice /\ client'[b].ws # "on"
  BY <1>1, <1>2 DEF Life
<1>. QED
  BY <1>4, <1>5, LifeFrame

\* After a start there are only clients, each the service of its entry.
LEMMA StartLife ==
    ASSUME PInv, Down, RestoreInstances \/ EnsureSingleInstance PROVE Life'
<1>0. /\ UNCHANGED <<handler, lo, rebuilds, rows>> /\ \A c \in Clients : handler[c].pc = "idle"
      /\ \A l \in Logouts : lo[l].pc = "idle"
      /\ \A id \in Ids : rebuilds[id] = 0
  BY DEF RestoreInstances, EnsureSingleInstance, Down, request
<1>1. Started' /\ \A id \in Ids : instances'[id] # NoObject <=> (Multi => rows[id] # NoRow)
  BY StartShape
<1>2. ASSUME NEW id \in Ids, NEW k, NEW v, Turn(id, k, v)'
      PROVE  /\ k = "client" /\ v = object'[instances'[id]].service /\ instances'[id] # NoObject
  <2>1. k = "client" /\ v \in Clients /\ client'[v].id = id
    <3>1. ~(k = "logout" \/ k = "event")
      BY <1>0, <1>2 DEF Turn, LoggingOut, Returning
    <3>2. k # "rebuild"
      <4>1. k = "rebuild" => v \in Nat /\ v < rebuilds'[id]
        BY <1>2 DEF Turn
      <4>2. rebuilds'[id] = 0
        BY <1>0, <1>2
      <4>. QED
        BY <4>1, <4>2
    <3>. QED
      BY <1>2, <3>1, <3>2 DEF Turn
  <2>2. client'[v] # FreeClient
    BY <2>1, NullAssumption DEF FreeClient
  <2>. QED
    BY <1>0, <1>1, <2>1, <2>2 DEF Started
<1>3. OneTurn'
  BY <1>2 DEF OneTurn
<1>4. \A c \in Clients : client'[c].dead => client'[c].jid = NoDevice /\ client'[c].ws # "on"
  BY <1>1 DEF Started, FreeClient
<1>. QED
  BY <1>2, <1>3, <1>4 DEF Life

LEMMA NextLife ==
    ASSUME PInv, Down, NoDeletes, Life, ~MayRestart \/ ~Multi, [Next]_vars, stray' = {}
    PROVE  Life'
<1>1. CASE RestoreInstances \/ EnsureSingleInstance
  BY <1>1, StartLife
<1>2. CASE ProcessEnds
  <2>1. /\ phase' = "down" /\ \A c \in Clients : client'[c] = FreeClient /\ handler'[c] = NoEvent
        /\ \A l \in Logouts : lo'[l] = NoLogout
        /\ \A id \in Ids : rebuilds'[id] = 0
    BY <1>2 DEF ProcessEnds
  <2>2. \A id \in Ids : \A k, v : ~Turn(id, k, v)'
    <3>1. ASSUME NEW id \in Ids, NEW k, NEW v, Turn(id, k, v)' PROVE FALSE
      <4>1. k # "rebuild"
        <5>1. k = "rebuild" => v \in Nat /\ v < rebuilds'[id]
          BY <3>1 DEF Turn
        <5>2. rebuilds'[id] = 0
          BY <2>1, <3>1
        <5>. QED
          BY <5>1, <5>2
      <4>2. /\ \A c \in Clients : ~Alive(c)' /\ ~LoggingOut(c)'
            /\ \A l \in Logouts : ~Returning(l)'
        BY <2>1 DEF Alive, Returning, LoggingOut, FreeClient, NoEvent, NoLogout
      <4>. QED
        BY <3>1, <4>1, <4>2 DEF Turn
    <3>. QED
      BY <3>1
  <2>. QED
    BY <2>1, <2>2 DEF Life, OneTurn, FreeClient
<1>3. CASE Running
  <2>1. ASSUME NEW id \in Ids, Builds(id) PROVE Life'
    BY <1>3, <2>1, RebuildRunsLife, LogoutRebuildLife, CreateLife DEF Builds, RestartInstance
  <2>. QED
    BY <1>3, <2>1, RunningSplits, QuietLife, PairLife
<1>4. CASE UNCHANGED vars \/ \E device \in Devices : PhoneUnlinks(device)
  <2>1. UNCHANGED <<phase, instances, object, client, handler, lo, rebuilds>>
    BY <1>4 DEF vars, PhoneUnlinks, memory, request
  <2>2. \A id \in Ids : \A k, v : Turn(id, k, v)' <=> Turn(id, k, v)
    BY <2>1 DEF Turn, Alive, Returning, LoggingOut
  <2>. QED
    BY <2>1, <2>2 DEF Life, OneTurn
<1>. QED
  BY <1>1, <1>2, <1>3, <1>4, NextSplits

LEMMA NextNoDeletes == ASSUME PInv, NoDeletes, ~Multi \/ Deletes = {}, [Next]_vars PROVE NoDeletes'
<1>1. CASE Deletes = {}
  BY <1>1 DEF NoDeletes
<1>2. ASSUME ~Multi PROVE del' = del \/ ProcessEnds
  <2>1. ASSUME NEW d \in Deletes, DeleteStep(d) \/ \E id \in Ids : DeleteBegin(d, id) PROVE FALSE
    BY <1>2, <2>1 DEF NoDeletes, DeleteBegin, DeleteStep, DeleteCheck, DeleteUnlink, DeleteRelease,
                      DeleteStore, DeleteDrop, DeleteClear
  <2>2. CASE Running
    BY <2>1, <2>2, PollFrame DEF Running, RestartInstance, RebuildRuns, CreateInstance, UpdateInstanceConfig, LogoutStep, LogoutBegin,
           LogoutDevice, LogoutRow, LogoutPublish, LogoutRebuild, CallerLeaves, Connect, Pair, HandlerStep, PairSuccess, LoggedOutRow, LoggedOutPublish,
           ServerLogout, ConnectionLost, AutoReconnect, Shutdown, request
  <2>. QED
    BY <2>2, NextSplits DEF RestoreInstances, EnsureSingleInstance, PhoneUnlinks, vars, request
<1>3. CASE ProcessEnds
  BY <1>3 DEF ProcessEnds, NoDeletes, NoDelete
<1>. QED
  BY <1>1, <1>2, <1>3 DEF NoDeletes

\* Only the end of the process and a rebuild that runs take a rebuild away.
LEMMA RebuildsStay ==
    ASSUME PInv, [Next]_vars, NEW id \in Ids, phase' # "down", rebuilds'[id] < rebuilds[id]
    PROVE  RebuildRuns(id)
<1>0. rebuilds \in [Ids -> 0..MaxRebuilds] /\ MaxRebuilds \in Nat
  BY SwitchAssumption DEF PInv, TypeOK
<1>1. rebuilds' # rebuilds
  BY <1>0
<1>2. CASE \E c \in Clients : LoggedOutPublish(c)
  <2>1. PICK c \in Clients : LoggedOutPublish(c)
    BY <1>2
  <2>2. rebuilds' = [rebuilds EXCEPT ![client[c].id] = rebuilds[client[c].id] + 1]
    BY <2>1 DEF LoggedOutPublish
  <2>. QED
    BY <1>0, <2>2
<1>3. CASE \E i \in Ids : RebuildRuns(i)
  <2>1. PICK i \in Ids : RebuildRuns(i)
    BY <1>3
  <2>2. rebuilds' = [rebuilds EXCEPT ![i] = rebuilds[i] - 1]
    BY <2>1 DEF RebuildRuns
  <2>3. i = id
    BY <1>0, <2>2
  <2>. QED
    BY <2>1, <2>3
<1>4. CASE Running
  BY <1>1, <1>2, <1>3, <1>4, PollFrame DEF Running, Shutdown, RestartInstance, CreateInstance, UpdateInstanceConfig, DeleteStep, DeleteBegin,
         DeleteCheck, DeleteUnlink, DeleteRelease, DeleteStore, DeleteDrop, DeleteClear, LogoutStep,
         LogoutBegin, LogoutDevice, LogoutRow, LogoutPublish, LogoutRebuild, CallerLeaves, Connect, Pair, HandlerStep, PairSuccess, LoggedOutRow, ServerLogout,
         ConnectionLost, AutoReconnect, memory
<1>. QED
  BY <1>1, <1>4, NextSplits
     DEF RestoreInstances, EnsureSingleInstance, ProcessEnds, PhoneUnlinks, vars, memory

LEMMA LoginSurvives ==
    ASSUME PInv, Life, [Next]_vars, NEW id \in Ids, rebuilds'[id] < rebuilds[id], phase' # "down",
           Lookup(id) # NoObject
    PROVE  client[object[Lookup(id)].service].jid = NoDevice
<1>. DEFINE c == object[Lookup(id)].service
<1>1. c \in Clients /\ client[c].id = id
  BY LookupFinds, Held
<1>2. rebuilds[id] > 0 /\ rebuilds[id] \in Nat
  <2>1. RebuildRuns(id)
    BY RebuildsStay
  <2>. QED
    BY <2>1, SwitchAssumption DEF RebuildRuns, PInv, TypeOK
<1>. HIDE DEF c
<1>3. Turn(id, "rebuild", 0)
  BY <1>2 DEF Turn
<1>4. ~Turn(id, "client", c)
  <2>1. Turn(id, "client", c) => "client" = "rebuild"
    BY <1>3 DEF Life, OneTurn
  <2>. QED
    BY <2>1
<1>5. client[c].dead
  BY <1>1, <1>4, NullAssumption DEF Turn, Alive
<1>6. client[c].jid = NoDevice
  BY <1>1, <1>5 DEF Life
<1>. QED
  BY <1>6 DEF c

LEMMA InitLife == Init => NoDeletes /\ Life
<1>1. Init => NoDeletes
  BY DEF Init, NoDeletes, NoDelete
<1>2. ASSUME Init PROVE Life
  <2>1. /\ phase = "down" /\ \A c \in Clients : client[c] = FreeClient /\ handler[c] = NoEvent
        /\ \A l \in Logouts : lo[l] = NoLogout
        /\ \A id \in Ids : rebuilds[id] = 0
    BY <1>2 DEF Init
  <2>2. /\ \A c \in Clients : ~Alive(c) /\ ~LoggingOut(c)
        /\ \A l \in Logouts : ~Returning(l)
    BY <2>1 DEF Alive, Returning, LoggingOut, FreeClient, NoEvent, NoLogout
  <2>3. ASSUME NEW id \in Ids, NEW k, NEW v, Turn(id, k, v) PROVE FALSE
    <3>1. k = "rebuild" => v \in Nat /\ v < rebuilds[id]
      BY <2>3 DEF Turn
    <3>2. rebuilds[id] = 0
      BY <2>1
    <3>3. k # "rebuild"
      BY <3>1, <3>2
    <3>. QED
      BY <2>2, <2>3, <3>3 DEF Turn
  <2>4. \A c \in Clients : client[c].dead = FALSE
    BY <2>1 DEF FreeClient
  <2>. QED
    BY <2>1, <2>3, <2>4 DEF Life, OneTurn
<1>. QED
  BY <1>1, <1>2

\* A rebuild that the scheduler delays does not throw away the client of a
\* device paired since, however the logouts of API, phone and server overlap,
\* as long as whatsmeow has deleted every device it was asked to delete.  It
\* needs that nobody deletes or restarts instances: either may leave a second
\* client behind, whose logout has a rebuild too (see README.md).
THEOREM SpecLoginSurvivesRebuild ==
    ASSUME ~Multi \/ (Deletes = {} /\ ~MayRestart) PROVE Spec => LoginSurvivesRebuild
<1>1. Init => PInv /\ Down /\ NoDeletes /\ (stray = {} => Life)
  BY InitPInv, InitDown, InitLife
<1>2. PInv /\ Down /\ NoDeletes /\ (stray = {} => Life) /\ [Next]_vars
      => (PInv /\ Down /\ NoDeletes /\ (stray = {} => Life))'
  <2>1. PInv /\ stray' = {} /\ [Next]_vars => stray = {}
    BY NextStray
  <2>. QED
    BY <2>1, NextPInv, NextNoDeletes, NextLife
<1>3. PInv /\ (stray = {} => Life) /\ [Next]_vars
      => [\A id \in Ids :
            rebuilds'[id] < rebuilds[id] /\ phase' # "down" /\ Lookup(id) # NoObject
            => client[object[Lookup(id)].service].jid = NoDevice \/ stray # {}]_vars
  BY LoginSurvives
<1>. QED
  BY <1>1, <1>2, <1>3, PTL DEF Spec, LoginSurvivesRebuild

-----------------------------------------------------------------------------
(* Single mode has one device, as long as whatsmeow deletes and finds the    *)
(* devices it is asked for.                                                 *)

\* The one device there is belongs to a client of the process.
Single ==
    /\ \A i, j \in registered : i = j
    /\ phase # "down" => \A j \in registered : \E c \in Clients : client[c].jid = j

LEMMA SingleStart ==
    ASSUME PInv, Single, EnsureSingleInstance, stray' = {}, \E i : Ids = {i} PROVE Single'
<1>. DEFINE first == IF registered = {} THEN {NoDevice} ELSE registered
<1>0. PICK objectOf \in Injections(Ids, Objects), clientOf \in Injections(Ids, Clients),
           named \in first, up \in SUBSET Ids, cfg \in [Ids -> Configs] :
        \E device \in [Ids -> Found(named)] :
          /\ Provision(Ids, objectOf, clientOf, device, cfg, up)
          /\ stray' = stray \cup {j \in registered : j = named /\ \E id \in Ids : device[id] # j}
  BY DEF EnsureSingleInstance
<1>1. PICK device \in [Ids -> Found(named)] :
        /\ Provision(Ids, objectOf, clientOf, device, cfg, up)
        /\ stray' = stray \cup {j \in registered : j = named /\ \E id \in Ids : device[id] # j}
  BY <1>0
<1>2. PICK s : Ids = {s}
  OBVIOUS
<1>3. /\ clientOf \in [Ids -> Clients] /\ \A i, j \in Ids : clientOf[i] = clientOf[j] => i = j
      /\ registered' = registered
  BY DEF Injections, EnsureSingleInstance
<1>4. clientOf[s] \in Clients /\ s = CHOOSE i \in Ids : clientOf[i] = clientOf[s]
  BY <1>2, <1>3
<1>5. client'[clientOf[s]] = NewClient(s, device[s], cfg[s], s \in up)
  BY <1>1, <1>2, <1>4 DEF Provision
<1>6. ASSUME NEW j \in registered PROVE client'[clientOf[s]].jid = j
  <2>1. named = j
    BY <1>6 DEF Single
  <2>2. j \notin {k \in registered : k = named /\ \E id \in Ids : device[id] # k}
    BY <1>1
  <2>3. device[s] = j
    BY <1>2, <1>6, <2>1, <2>2
  <2>. QED
    BY <1>5, <2>3 DEF NewClient
<1>. QED
  BY <1>3, <1>4, <1>6 DEF Single

LEMMA SinglePair ==
    ASSUME PInv, Owned, Life, Single, phase # "down", NEW c \in Clients, Pair(c), \E i : Ids = {i}
    PROVE  Single'
<1>1. PICK device \in Devices \ paired :
        /\ client[c].ws = "on" /\ client[c].jid = NoDevice /\ client[c].id \in Ids
        /\ client'[c].jid = device /\ registered' = registered \cup {device}
  BY PairShape
<1>2. PICK s \in Ids : Ids = {s}
  OBVIOUS
<1>3. Turn(s, "client", c)
  BY <1>1, <1>2, NullAssumption DEF Life, Turn, Alive
<1>4. registered = {}
  <2>1. SUFFICES ASSUME NEW j \in registered PROVE FALSE
    OBVIOUS
  <2>2. PICK b \in Clients : client[b].jid = j
    BY DEF Single
  <2>3. j # NoDevice
    BY NullAssumption DEF PInv, TypeOK
  <2>4. Turn(s, "client", b)
    BY <1>2, <2>2, <2>3, NullAssumption DEF Life, Owned, Turn, Alive
  <2>5. b = c
    BY <1>3, <2>4 DEF Life, OneTurn
  <2>. QED
    BY <1>1, <2>2, <2>3, <2>5
<1>. QED
  BY <1>1, <1>4 DEF Single

LEMMA NextSingle ==
    ASSUME PInv, Down, Owned, Life, Single, ~Multi, \E i : Ids = {i}, [Next]_vars, stray' = {}
    PROVE  Single'
<1>0. registered \subseteq Devices /\ NoDevice \notin Devices
  BY NullAssumption DEF PInv, TypeOK
<1>1. CASE RestoreInstances \/ EnsureSingleInstance
  BY <1>1, SingleStart DEF RestoreInstances
<1>2. CASE ProcessEnds
  BY <1>2 DEF ProcessEnds, Single
<1>3. CASE Running
  <2>1. phase # "down"
    BY <1>3, RunningIsUp
  <2>2. ASSUME registered' \subseteq registered,
               \A c \in Clients : client[c].jid \in registered' => client'[c].jid = client[c].jid
        PROVE  Single'
    BY <2>1, <2>2 DEF Single
  <2>3. CASE Quiet
    <3>1. (\A c \in Clients : Same(c)) /\ registered' \subseteq registered
      BY <2>3, QuietSame
    <3>. QED
      BY <2>2, <3>1 DEF Same
  <2>4. ASSUME NEW id \in Ids, Builds(id) PROVE Single'
    <3>1. /\ registered' = registered
          /\ client' = client \/ \E o \in Objects, c \in NewClients : Replaced(id, o, c)
      BY <2>4, BuildsShape
    <3>2. ASSUME NEW o \in Objects, NEW c \in NewClients, Replaced(id, o, c) PROVE Single'
      <4>1. \A b \in Clients : b # c => client'[b].jid = client[b].jid
        BY <3>2 DEF Replaced
      <4>2. client[c].jid \notin registered
        BY <1>0, NullAssumption DEF NewClients, Owned
      <4>. QED
        BY <2>2, <3>1, <4>1, <4>2
    <3>. QED
      BY <2>2, <3>1, <3>2
  <2>5. ASSUME NEW c \in Clients, Pair(c) PROVE Single'
    BY <2>1, <2>5, SinglePair
  <2>. QED
    BY <1>3, <2>3, <2>4, <2>5, RunningSplits
<1>4. CASE UNCHANGED vars \/ \E device \in Devices : PhoneUnlinks(device)
  <2>1. UNCHANGED <<phase, client, registered>>
    BY <1>4 DEF vars, PhoneUnlinks, memory
  <2>. QED
    BY <2>1 DEF Single
<1>. QED
  BY <1>1, <1>2, <1>3, <1>4, NextSplits

\* A single-mode process finds its session by taking the first device there
\* is: there never is more than one, since a code is only shown by a client
\* that has no device, and a second client is only made when the device of
\* the first is gone from the table.  Through crashes and restarts, and
\* failures of any other statement, until whatsmeow fails to delete a device
\* or to load it: both errors are ignored (see README.md).
THEOREM SpecOneDeviceInSingleMode ==
    ASSUME \E i : Ids = {i} PROVE Spec => []OneDeviceInSingleMode
<1>1. CASE Multi
  <2>1. OneDeviceInSingleMode
    BY <1>1 DEF OneDeviceInSingleMode
  <2>. QED
    BY <2>1, PTL
<1>2. CASE ~Multi
  <2>1. Init => PInv /\ Down /\ Owned /\ NoDeletes /\ (stray = {} => Life /\ Single)
    <3>1. Init => Single
      BY DEF Init, Single
    <3>. QED
      BY <3>1, InitPInv, InitDown, InitOwned, InitLife
  <2>2. PInv /\ Down /\ Owned /\ NoDeletes /\ (stray = {} => Life /\ Single) /\ [Next]_vars
        => (PInv /\ Down /\ Owned /\ NoDeletes /\ (stray = {} => Life /\ Single))'
    <3>1. PInv /\ stray' = {} /\ [Next]_vars => stray = {}
      BY NextStray
    <3>. QED
      BY <1>2, <3>1, NextPInv, NextOwned, NextNoDeletes, NextLife, NextSingle
  <2>3. (stray = {} => Life /\ Single) => OneDeviceInSingleMode
    BY DEF Single, OneDeviceInSingleMode
  <2>. QED
    BY <2>1, <2>2, <2>3, PTL DEF Spec
<1>. QED
  BY <1>1, <1>2

-----------------------------------------------------------------------------
(* The rows name the devices there are, as long as a login or a logout that *)
(* WhatsApp tells is always written: no crash, no error of the store, no    *)
(* request that writes the row on its own.                                  *)

\* A device is the one of a client that is about to write it or has; a row
\* whose device is gone belongs to a handler that is about to clear it.
Rows ==
    /\ phase = "down" => registered = {} /\ \A id \in Ids : rows[id] = NoRow
    /\ \A c \in Clients : client[c].id # NoId => rows[client[c].id] # NoRow
    /\ \A c \in Clients : handler[c].pc = "paired"
                          => client[c].jid = handler[c].device /\ client[c].jid \in registered
    /\ \A j \in registered : \E c \in Clients :
         client[c].jid = j /\ (handler[c].pc = "paired" \/ rows[client[c].id].device = j)
    /\ \A id \in Ids : rows[id] # NoRow =>
         \/ rows[id].device \in registered \cup {NoDevice}
         \/ \E c \in Clients : client[c].id = id
                               /\ handler[c] = [pc |-> "row", device |-> rows[id].device]

\* A step that writes no device into a row and takes none out.
KeepsRows ==
    \A id \in Ids :
        /\ rows[id] # NoRow => rows'[id] # NoRow /\ rows'[id].device = rows[id].device
        /\ rows[id] = NoRow /\ rows'[id] # NoRow => rows'[id].device = NoDevice

\* A client in use stays, with its device if that is registered; a new one
\* has a row.
KeepsClients ==
    \A c \in Clients :
        /\ client[c].id \in Ids => /\ client'[c].id = client[c].id
                                   /\ client[c].jid \in registered => client'[c].jid = client[c].jid
        /\ client[c].id = NoId /\ client'[c].id # NoId => /\ client'[c].id \in Ids
                                                          /\ rows'[client'[c].id] # NoRow

LEMMA SaveKeeps ==
    ASSUME PInv, NEW id \in Ids, NEW cfg \in Configs, rows' = SaveInstance(id, cfg)
    PROVE  KeepsRows /\ rows'[id] # NoRow
<1>0. rows \in [Ids -> Row \cup {NoRow}]
  BY DEF PInv, TypeOK
<1>. DEFINE r == [device |-> IF rows[id] = NoRow THEN NoDevice ELSE rows[id].device, config |-> cfg]
<1>1. rows' = [rows EXCEPT ![id] = r]
  BY DEF SaveInstance
<1>2. r.device = IF rows[id] = NoRow THEN NoDevice ELSE rows[id].device
  OBVIOUS
<1>3. r # NoRow
  BY <1>0, NullAssumption DEF Row, AnyDevice
<1>. HIDE DEF r
<1>4. rows'[id] = r /\ \A i \in Ids : i # id => rows'[i] = rows[i]
  BY <1>0, <1>1
<1>. QED
  BY <1>2, <1>3, <1>4 DEF KeepsRows

LEMMA RowsFrame ==
    ASSUME PInv, Owned, Rows, phase # "down", phase' # "down", UNCHANGED <<handler, registered>>,
           KeepsRows, KeepsClients
    PROVE  Rows'
<1>0. /\ \A c \in Clients : client[c].id \in Ids \cup {NoId}
      /\ registered \subseteq Devices /\ NoDevice \notin Devices /\ NoId \notin Ids
  BY NullAssumption DEF PInv, TypeOK, ClientRec
<1>1. ASSUME NEW c \in Clients, client[c].jid \in registered
      PROVE  client[c].id \in Ids /\ client'[c].id = client[c].id /\ client'[c].jid = client[c].jid
  BY <1>0, <1>1 DEF Owned, KeepsClients
<1>2. \A c \in Clients : client'[c].id # NoId => rows'[client'[c].id] # NoRow
  BY <1>0 DEF Rows, KeepsRows, KeepsClients
<1>3. \A c \in Clients : handler'[c].pc = "paired"
                         => client'[c].jid = handler'[c].device /\ client'[c].jid \in registered'
  BY <1>1 DEF Rows
<1>4. ASSUME NEW j \in registered
      PROVE  \E c \in Clients :
               client'[c].jid = j /\ (handler[c].pc = "paired" \/ rows'[client'[c].id].device = j)
  <2>1. PICK c \in Clients :
          client[c].jid = j /\ (handler[c].pc = "paired" \/ rows[client[c].id].device = j)
    BY DEF Rows
  <2>2. client[c].id \in Ids /\ client'[c].id = client[c].id /\ client'[c].jid = client[c].jid
    BY <1>1, <2>1
  <2>3. rows[client[c].id] # NoRow
    BY <1>0, <2>2 DEF Rows
  <2>4. rows'[client'[c].id].device = rows[client[c].id].device
    BY <2>2, <2>3 DEF KeepsRows
  <2>. QED
    BY <2>1, <2>2, <2>4
<1>5. ASSUME NEW id \in Ids, rows'[id] # NoRow
      PROVE  \/ rows'[id].device \in registered \cup {NoDevice}
             \/ \E c \in Clients : client'[c].id = id
                                   /\ handler[c] = [pc |-> "row", device |-> rows'[id].device]
  <2>1. CASE rows[id] = NoRow
    BY <1>5, <2>1 DEF KeepsRows
  <2>2. CASE rows[id] # NoRow
    <3>1. rows'[id].device = rows[id].device
      BY <2>2 DEF KeepsRows
    <3>2. ASSUME NEW c \in Clients, client[c].id = id PROVE client'[c].id = id
      BY <3>2 DEF KeepsClients
    <3>. QED
      BY <2>2, <3>1, <3>2 DEF Rows
  <2>. QED
    BY <2>1, <2>2
<1>. QED
  BY <1>2, <1>3, <1>4, <1>5 DEF Rows

LEMMA BuildsKeep ==
    ASSUME PInv, Rows, NEW id \in Ids, Builds(id), Logouts = {}, ~MayRestart
    PROVE  KeepsRows /\ KeepsClients
<1>0. /\ registered \subseteq Devices /\ NoDevice \notin Devices /\ NoId \notin Ids
  BY NullAssumption DEF PInv, TypeOK
<1>1. KeepsRows /\ ((Lookup(id) = NoObject /\ RebuildRuns(id)) \/ rows'[id] # NoRow)
  <2>1. CASE RebuildRuns(id)
    <3>1. rows' = rows
      BY <2>1 DEF RebuildRuns
    <3>2. ASSUME Lookup(id) # NoObject PROVE rows[id] # NoRow
      <4>1. /\ Lookup(id) \in Objects /\ object[Lookup(id)].id = id
        BY <3>2, LookupFinds
      <4>2. /\ object[Lookup(id)].service \in Clients
            /\ client[object[Lookup(id)].service].id = id
        BY <4>1, Held
      <4>. QED
        BY <1>0, <4>2 DEF Rows
    <3>. QED
      BY <2>1, <3>1, <3>2 DEF KeepsRows
  <2>2. ASSUME NEW cfg \in Configs, CreateInstance(id, cfg) PROVE KeepsRows /\ rows'[id] # NoRow
    BY <2>2, SaveKeeps DEF CreateInstance
  <2>. QED
    BY <2>1, <2>2 DEF Builds, RestartInstance
<1>2. ASSUME client' = client PROVE KeepsClients
  BY <1>2 DEF KeepsClients
<1>3. ASSUME NEW o \in Objects, NEW c \in NewClients, Replaced(id, o, c), rows'[id] # NoRow
      PROVE  KeepsClients
  BY <1>0, <1>3 DEF Replaced, NewClients, KeepsClients
<1>4. RebuildRuns(id) /\ Lookup(id) = NoObject => client' = client
  BY DEF RebuildRuns, RebuildService
<1>. QED
  BY <1>1, <1>2, <1>3, <1>4, BuildsShape

\* The quiet steps that touch no handler.
LEMMA QuietKeep ==
    ASSUME PInv, Rows, Quiet, handler' = handler, Logouts = {}, Deletes = {}, ~MayStop
    PROVE  registered' = registered /\ KeepsRows /\ KeepsClients
<1>1. ~Shutdown
  BY DEF Shutdown
<1>2. ~ \E c \in Clients : HandlerStep(c) \/ ServerLogout(c)
  <2>0. handler \in [Clients -> EventRec]
    BY DEF PInv, TypeOK
  <2>1. ASSUME NEW c \in Clients, HandlerStep(c) \/ ServerLogout(c) PROVE handler'[c].pc # handler[c].pc
    <3>1. CASE PairSuccess(c) \/ LoggedOutPublish(c)
      BY <2>0, <3>1 DEF PairSuccess, LoggedOutPublish, NoEvent
    <3>2. CASE LoggedOutRow(c)
      BY <2>0, <3>2 DEF LoggedOutRow, EventRec
    <3>3. CASE ServerLogout(c)
      BY <2>0, <3>3 DEF ServerLogout
    <3>. QED
      BY <2>1, <3>1, <3>2, <3>3 DEF HandlerStep
  <2>. QED
    BY <2>1
<1>3. \A r \in Deletes \cup Logouts : FALSE
  OBVIOUS
<1>4. \/ \E id \in Ids, cfg \in Configs : UpdateInstanceConfig(id, cfg)
      \/ \E p \in Polls : PollStep(p) \/ \E id \in Ids : PollBegin(p, id)
      \/ \E c \in Clients : Connect(c) \/ ConnectionLost(c) \/ AutoReconnect(c)
  BY <1>1, <1>2, <1>3 DEF Quiet
<1>5. registered' = registered
  BY <1>4, PollFrame DEF UpdateInstanceConfig, Connect, ConnectionLost, AutoReconnect
<1>6. KeepsRows
  <2>1. CASE rows' = rows
    BY <2>1 DEF KeepsRows
  <2>2. ASSUME NEW id \in Ids, NEW cfg \in Configs, UpdateInstanceConfig(id, cfg) PROVE KeepsRows
    BY <2>1, <2>2, SaveKeeps DEF UpdateInstanceConfig
  <2>. QED
    BY <1>4, <2>1, <2>2, PollFrame DEF Connect, ConnectionLost, AutoReconnect
<1>7. KeepsClients
  <2>1. \A c \in Clients : Same(c)
    BY QuietSame
  <2>2. NoId \notin Ids
    BY NullAssumption
  <2>. QED
    BY <1>5, <2>1, <2>2 DEF Same, KeepsClients
<1>. QED
  BY <1>5, <1>6, <1>7

\* A client with a device is the only live one of its instance, and no
\* logout of that instance is under way.
LEMMA LoneClient ==
    ASSUME PInv, Owned, Life, NEW b \in Clients, client[b].jid \in registered, NEW c \in Clients,
           client[c].id = client[b].id
    PROVE  /\ client[b].id \in Ids /\ ~LoggingOut(c)
           /\ client[c].jid \in registered => c = b
<1>0. \A a \in Clients : client[a].jid \in registered => client[a].id \in Ids /\ ~client[a].dead
  BY NullAssumption DEF PInv, TypeOK, Owned, Life
<1>. DEFINE i == client[b].id
<1>1. i \in Ids /\ Turn(i, "client", b)
  BY <1>0, NullAssumption DEF Turn, Alive
<1>2. LoggingOut(c) => Turn(i, "event", c)
  BY DEF Turn
<1>3. client[c].jid \in registered => Turn(i, "client", c)
  BY <1>0, NullAssumption DEF Turn, Alive
<1>. HIDE DEF i
<1>4. \A k, v : Turn(i, k, v) => k = "client" /\ v = b
  BY <1>1 DEF Life, OneTurn
<1>5. ~LoggingOut(c) /\ (client[c].jid \in registered => c = b)
  BY <1>2, <1>3, <1>4
<1>. QED
  BY <1>1, <1>5 DEF i

\* UpdateDeviceState when the store answers.
LEMMA StateWritten ==
    ASSUME PInv, NEW id \in Ids, NEW device \in AnyDevice, UpdateDeviceState(id, device),
           rows[id] # NoRow, Multi, ~StoreMayFail
    PROVE  /\ rows'[id] # NoRow /\ rows'[id].device = device
           /\ \A i \in Ids : i # id => rows'[i] = rows[i]
<1>0. rows \in [Ids -> Row \cup {NoRow}]
  BY DEF PInv, TypeOK
<1>. DEFINE r == [rows[id] EXCEPT !.device = device]
<1>1. rows' = [rows EXCEPT ![id] = r]
  BY DEF UpdateDeviceState
<1>2. r \in Row /\ r.device = device
  BY <1>0 DEF Row
<1>. HIDE DEF r
<1>3. rows'[id] = r /\ \A i \in Ids : i # id => rows'[i] = rows[i]
  BY <1>0, <1>1
<1>. QED
  BY <1>2, <1>3, NullAssumption DEF Row, AnyDevice

\* The row of one client is written, with its device or with none.
LEMMA WriteRows ==
    ASSUME PInv, Owned, Life, Rows, phase # "down", phase' # "down", UNCHANGED <<client, registered>>,
           NEW c \in Clients, client[c].id \in Ids,
           rows'[client[c].id] # NoRow,
           \A i \in Ids : i # client[c].id => rows'[i] = rows[i],
           \A b \in Clients : b # c => handler'[b] = handler[b],
           handler'[c].pc \notin {"paired", "row"},
           \/ /\ handler[c].pc = "paired" /\ client[c].jid \in registered
              /\ rows'[client[c].id].device = client[c].jid
           \/ handler[c].pc = "row" /\ rows'[client[c].id].device = NoDevice
    PROVE  Rows'
<1>. DEFINE id == client[c].id
<1>0. registered \subseteq Devices /\ NoDevice \notin Devices
  BY NullAssumption DEF PInv, TypeOK
<1>1. \A b \in Clients : client'[b].id # NoId => rows'[client'[b].id] # NoRow
  <2>1. \A b \in Clients : client[b].id \in Ids \cup {NoId}
    BY DEF PInv, TypeOK, ClientRec
  <2>. QED
    BY <2>1 DEF Rows
<1>2. \A b \in Clients : handler'[b].pc = "paired"
                         => client'[b].jid = handler'[b].device /\ client'[b].jid \in registered'
  BY DEF Rows
<1>3. ASSUME NEW j \in registered
      PROVE  \E b \in Clients :
               client[b].jid = j /\ (handler'[b].pc = "paired" \/ rows'[client[b].id].device = j)
  <2>1. PICK b \in Clients :
          client[b].jid = j /\ (handler[b].pc = "paired" \/ rows[client[b].id].device = j)
    BY DEF Rows
  <2>2. CASE client[b].id = id
    <3>1. ~LoggingOut(c) /\ (client[c].jid \in registered => c = b)
      BY <2>1, <2>2, LoneClient
    <3>2. c = b /\ rows'[client[b].id].device = j
      BY <2>1, <3>1 DEF LoggingOut
    <3>. QED
      BY <2>1, <3>2
  <2>3. CASE client[b].id # id
    <3>1. b # c /\ client[b].id \in Ids
      BY <1>0, <2>1, <2>3 DEF Owned
    <3>. QED
      BY <2>1, <2>3, <3>1
  <2>. QED
    BY <2>2, <2>3
<1>4. ASSUME NEW i \in Ids, rows'[i] # NoRow
      PROVE  \/ rows'[i].device \in registered \cup {NoDevice}
             \/ \E b \in Clients : client[b].id = i
                                   /\ handler'[b] = [pc |-> "row", device |-> rows'[i].device]
  <2>1. CASE i # id
    BY <1>4, <2>1 DEF Rows
  <2>2. CASE i = id
    BY <2>2
  <2>. QED
    BY <2>1, <2>2
<1>. QED
  BY <1>1, <1>2, <1>3, <1>4 DEF Rows

LEMMA PairSuccessRows ==
    ASSUME PInv, Owned, Life, Rows, phase # "down", Multi, ~StoreMayFail, NEW c \in Clients,
           PairSuccess(c)
    PROVE  Rows'
<1>1. /\ UNCHANGED <<phase, client, registered>> /\ handler[c].pc = "paired"
      /\ UpdateDeviceState(client[c].id, handler[c].device)
      /\ handler' = [handler EXCEPT ![c] = NoEvent] /\ handler \in [Clients -> EventRec]
  BY DEF PairSuccess, PInv, TypeOK
<1>2. /\ client[c].id \in Ids /\ handler[c].device \in AnyDevice
      /\ client[c].jid = handler[c].device /\ client[c].jid \in registered
  BY <1>1 DEF PInv, TypeOK, Built, ClientBuilt, EventBuilt, AnyDevice, Rows
<1>3. rows[client[c].id] # NoRow
  BY <1>2, NullAssumption DEF Rows
<1>4. /\ rows'[client[c].id] # NoRow /\ rows'[client[c].id].device = client[c].jid
      /\ \A i \in Ids : i # client[c].id => rows'[i] = rows[i]
  BY <1>1, <1>2, <1>3, StateWritten
<1>5. /\ \A b \in Clients : b # c => handler'[b] = handler[b]
      /\ handler'[c].pc \notin {"paired", "row"}
  BY <1>1 DEF NoEvent
<1>6. phase' # "down"
  BY <1>1
<1>. QED
  BY <1>1, <1>2, <1>4, <1>5, <1>6, WriteRows

LEMMA LoggedOutRowRows ==
    ASSUME PInv, Owned, Life, Rows, phase # "down", Multi, ~StoreMayFail, NEW c \in Clients,
           LoggedOutRow(c)
    PROVE  Rows'
<1>1. /\ UNCHANGED <<phase, client, registered>> /\ handler[c].pc = "row"
      /\ UpdateDeviceState(client[c].id, NoDevice)
      /\ handler' = [handler EXCEPT ![c].pc = "publish"] /\ handler \in [Clients -> EventRec]
  BY DEF LoggedOutRow, PInv, TypeOK
<1>2. client[c].id \in Ids /\ NoDevice \in AnyDevice
  BY <1>1 DEF PInv, Built, ClientBuilt, AnyDevice
<1>3. rows[client[c].id] # NoRow
  BY <1>2, NullAssumption DEF Rows
<1>4. /\ rows'[client[c].id] # NoRow /\ rows'[client[c].id].device = NoDevice
      /\ \A i \in Ids : i # client[c].id => rows'[i] = rows[i]
  BY <1>1, <1>2, <1>3, StateWritten
<1>5. /\ \A b \in Clients : b # c => handler'[b] = handler[b]
      /\ handler'[c].pc \notin {"paired", "row"}
  BY <1>1 DEF EventRec
<1>6. phase' # "down"
  BY <1>1
<1>. QED
  BY <1>1, <1>2, <1>4, <1>5, <1>6, WriteRows

LEMMA LoggedOutPublishRows ==
    ASSUME PInv, Rows, phase # "down", NEW c \in Clients, LoggedOutPublish(c) PROVE Rows'
<1>1. /\ UNCHANGED <<phase, client, registered, rows>> /\ handler[c].pc = "publish"
      /\ handler' = [handler EXCEPT ![c] = NoEvent] /\ handler \in [Clients -> EventRec]
  BY DEF LoggedOutPublish, PInv, TypeOK
<1>2. \A b \in Clients : (b = c => handler'[b] = NoEvent) /\ (b # c => handler'[b] = handler[b])
  BY <1>1
<1>3. \A b \in Clients : /\ handler'[b].pc = "paired" <=> handler[b].pc = "paired"
                         /\ handler[b].pc \in {"row", "paired"} => handler'[b] = handler[b]
  BY <1>1, <1>2 DEF NoEvent
<1>4. ASSUME NEW id \in Ids, rows[id] # NoRow
      PROVE  \/ rows[id].device \in registered \cup {NoDevice}
             \/ \E b \in Clients : client[b].id = id
                                   /\ handler'[b] = [pc |-> "row", device |-> rows[id].device]
  <2>1. \/ rows[id].device \in registered \cup {NoDevice}
        \/ \E b \in Clients : client[b].id = id
                              /\ handler[b] = [pc |-> "row", device |-> rows[id].device]
    BY <1>4 DEF Rows
  <2>2. ASSUME NEW b \in Clients, handler[b] = [pc |-> "row", device |-> rows[id].device]
        PROVE  handler'[b] = handler[b]
    BY <1>3, <2>2
  <2>. QED
    BY <2>1, <2>2
<1>. QED
  BY <1>1, <1>3, <1>4 DEF Rows

LEMMA OneOwner ==
    ASSUME Owned, NEW b \in Clients, client[b].jid \in Devices
    PROVE  /\ client[b].id \in Ids
           /\ \A c \in Clients : client[c].jid = client[b].jid => client[c].id = client[b].id
           /\ \A i \in Ids : rows[i] # NoRow /\ rows[i].device = client[b].jid => i = client[b].id
<1>. DEFINE j == client[b].jid
<1>1. j # NoDevice
  BY NullAssumption
<1>2. \A c \in Clients : client[c].jid = j => client[c].id \in Ids /\ NamedBy(client[c].id, j)
  BY <1>1 DEF Owned, NamedBy
<1>3. \A i \in Ids : rows[i] # NoRow /\ rows[i].device = j => NamedBy(i, j)
  BY DEF NamedBy
<1>. HIDE DEF j
<1>4. \A i, k \in Ids : NamedBy(i, j) /\ NamedBy(k, j) => i = k
  BY DEF Owned, j
<1>5. client[b].jid = j
  BY DEF j
<1>. QED
  BY <1>2, <1>3, <1>4, <1>5

LEMMA ServerLogoutRows ==
    ASSUME PInv, Owned, Life, Rows, phase # "down", ~StoreMayFail, NEW c \in Clients, ServerLogout(c) PROVE Rows'
<1>. DEFINE j == client[c].jid
            r == [pc |-> "row", device |-> j]
<1>1. /\ UNCHANGED <<phase, rows>> /\ handler[c].pc = "idle" /\ j # NoDevice
      /\ handler' = [handler EXCEPT ![c] = r] /\ DeviceErased(c)
      /\ registered' = registered \ {j} /\ handler \in [Clients -> EventRec]
  BY DEF ServerLogout, IsLoggedIn, DeleteDevice, DeviceErased, PInv, TypeOK
<1>2. handler'[c] = r /\ r.pc = "row" /\ \A b \in Clients : b # c => handler'[b] = handler[b]
  BY <1>1
<1>3. \A b \in Clients : Same(b)
  BY <1>1, DeleteDeviceSame
<1>4. registered \subseteq Devices /\ NoDevice \notin Devices /\ j \in Devices
  BY <1>1, NullAssumption DEF PInv, TypeOK, ClientRec, AnyDevice
<1>5. \A b \in Clients : client'[b].id = client[b].id
                         /\ (client[b].jid \in registered' => client'[b].jid = client[b].jid)
  BY <1>3 DEF Same
<1>6. ASSUME NEW b \in Clients, client[b].jid = j, handler[b].pc = "paired" PROVE FALSE
  <2>1. client[b].jid \in registered
    BY <1>6 DEF Rows
  <2>2. client[c].id = client[b].id
    BY <1>4, <1>6, OneOwner
  <2>3. c = b
    BY <1>6, <2>1, <2>2, LoneClient
  <2>. QED
    BY <1>1, <1>6, <2>3
<1>7. \A i \in Ids : rows[i] # NoRow /\ rows[i].device = j => i = client[c].id
  BY <1>4, OneOwner
<1>. HIDE DEF r
<1>8. \A b \in Clients : client'[b].id # NoId => rows'[client'[b].id] # NoRow
  BY <1>1, <1>5 DEF Rows
<1>9. ASSUME NEW b \in Clients, handler'[b].pc = "paired"
      PROVE  client'[b].jid = handler'[b].device /\ client'[b].jid \in registered'
  <2>1. b # c /\ handler'[b] = handler[b]
    BY <1>2, <1>9
  <2>2. client[b].jid = handler[b].device /\ client[b].jid \in registered /\ client[b].jid # j
    BY <1>6, <1>9, <2>1 DEF Rows
  <2>3. client[b].jid \in registered'
    BY <1>1, <2>2
  <2>. QED
    BY <1>5, <2>1, <2>2, <2>3
<1>10. ASSUME NEW d \in registered'
       PROVE  \E b \in Clients :
                client'[b].jid = d /\ (handler'[b].pc = "paired" \/ rows'[client'[b].id].device = d)
  <2>1. d \in registered /\ d # j
    BY <1>1, <1>10
  <2>2. PICK b \in Clients :
          client[b].jid = d /\ (handler[b].pc = "paired" \/ rows[client[b].id].device = d)
    BY <2>1 DEF Rows
  <2>3. b # c
    BY <2>1, <2>2
  <2>. QED
    BY <1>1, <1>2, <1>5, <1>10, <2>2, <2>3
<1>11. ASSUME NEW id \in Ids, rows[id] # NoRow
       PROVE  \/ rows[id].device \in registered' \cup {NoDevice}
              \/ \E b \in Clients : client'[b].id = id
                                    /\ handler'[b] = [pc |-> "row", device |-> rows[id].device]
  <2>1. CASE rows[id].device = j
    <3>1. client'[c].id = id
      BY <1>5, <1>7, <1>11, <2>1
    <3>2. handler'[c] = [pc |-> "row", device |-> rows[id].device]
      BY <1>2, <2>1 DEF r
    <3>. QED
      BY <3>1, <3>2
  <2>2. CASE rows[id].device # j
    <3>1. ASSUME NEW b \in Clients, client[b].id = id,
                 handler[b] = [pc |-> "row", device |-> rows[id].device]
          PROVE  client'[b].id = id /\ handler'[b] = [pc |-> "row", device |-> rows[id].device]
      BY <1>1, <1>2, <1>5, <3>1
    <3>. QED
      BY <1>1, <1>11, <2>2, <3>1 DEF Rows
  <2>. QED
    BY <2>1, <2>2
<1>. QED
  BY <1>1, <1>8, <1>9, <1>10, <1>11 DEF Rows

LEMMA PairRows ==
    ASSUME PInv, Owned, Rows, phase # "down", NEW c \in Clients, Pair(c) PROVE Rows'
<1>0. /\ UNCHANGED <<phase, rows>>
      /\ registered \subseteq Devices /\ NoDevice \notin Devices /\ NoId \notin Ids
  BY NullAssumption DEF Pair, PInv, TypeOK
<1>1. PICK device \in Devices \ paired :
        /\ client[c].jid = NoDevice /\ client[c].id \in Ids
        /\ client'[c].id = client[c].id /\ client'[c].jid = device
        /\ handler[c].pc = "idle" /\ handler'[c] = [pc |-> "paired", device |-> device]
        /\ \A b \in Clients : b # c => client'[b] = client[b] /\ handler'[b] = handler[b]
        /\ registered' = registered \cup {device}
  BY PairShape
<1>2. \A b \in Clients : client'[b].id # NoId => rows'[client'[b].id] # NoRow
  BY <1>0, <1>1 DEF Rows
<1>3. \A b \in Clients : handler'[b].pc = "paired"
                         => client'[b].jid = handler'[b].device /\ client'[b].jid \in registered'
  BY <1>1 DEF Rows
<1>4. ASSUME NEW d \in registered'
      PROVE  \E b \in Clients :
               client'[b].jid = d /\ (handler'[b].pc = "paired" \/ rows'[client'[b].id].device = d)
  <2>1. CASE d = device
    BY <1>1, <2>1
  <2>2. CASE d \in registered
    <3>1. PICK b \in Clients :
            client[b].jid = d /\ (handler[b].pc = "paired" \/ rows[client[b].id].device = d)
      BY <2>2 DEF Rows
    <3>2. b # c
      BY <1>0, <1>1, <2>2, <3>1
    <3>. QED
      BY <1>0, <1>1, <3>1, <3>2
  <2>. QED
    BY <1>1, <1>4, <2>1, <2>2
<1>5. ASSUME NEW id \in Ids, rows[id] # NoRow
      PROVE  \/ rows[id].device \in registered' \cup {NoDevice}
             \/ \E b \in Clients : client'[b].id = id
                                   /\ handler'[b] = [pc |-> "row", device |-> rows[id].device]
  <2>1. ASSUME NEW b \in Clients, client[b].id = id,
               handler[b] = [pc |-> "row", device |-> rows[id].device]
        PROVE  client'[b].id = id /\ handler'[b] = [pc |-> "row", device |-> rows[id].device]
    BY <1>1, <2>1
  <2>2. \/ rows[id].device \in registered \cup {NoDevice}
        \/ \E b \in Clients : client[b].id = id
                              /\ handler[b] = [pc |-> "row", device |-> rows[id].device]
    BY <1>5 DEF Rows
  <2>. QED
    BY <1>1, <2>1, <2>2
<1>. QED
  BY <1>0, <1>2, <1>3, <1>4, <1>5 DEF Rows

\* What RowsMatchDevices needs of the environment.
Undisturbed == /\ Multi /\ Deletes = {} /\ Logouts = {}
               /\ ~StoreMayFail /\ ~MayRestart /\ ~MayStop

LEMMA NoStray ==
    ASSUME PInv, Owned, Rows, Undisturbed, stray = {}, [Next]_vars PROVE stray' = {}
<1>0. /\ Multi /\ Deletes = {} /\ Logouts = {}
      /\ ~StoreMayFail /\ ~MayRestart /\ ~MayStop
  BY DEF Undisturbed
<1>1. ASSUME NEW c \in Clients, ServerLogout(c) PROVE stray' = {}
  BY <1>0, <1>1 DEF ServerLogout, DeleteDevice, DeviceErased
<1>2. ASSUME RestoreInstances PROVE stray' = {}
  <2>1. registered = {}
    BY <1>2 DEF RestoreInstances, Rows
  <2>. QED
    BY <1>2, <2>1 DEF RestoreInstances
<1>3. CASE Running
  <2>1. CASE Quiet
    BY <1>0, <1>1, <2>1, PollFrame
       DEF Quiet, Shutdown, UpdateInstanceConfig, CallerLeaves, Connect, HandlerStep, PairSuccess,
           LoggedOutRow, LoggedOutPublish, ConnectionLost, AutoReconnect, world, lapses
  <2>2. ASSUME NEW id \in Ids, Builds(id) PROVE stray' = {}
    BY <1>0, <2>2 DEF Builds, RestartInstance, RebuildRuns, CreateInstance, world, lapses
  <2>3. ASSUME NEW c \in Clients, Pair(c) PROVE stray' = {}
    BY <2>3 DEF Pair, lapses
  <2>. QED
    BY <1>3, <2>1, <2>2, <2>3, RunningSplits
<1>4. CASE UNCHANGED vars \/ \E device \in Devices : PhoneUnlinks(device)
  BY <1>4 DEF vars, PhoneUnlinks, world, lapses
<1>. QED
  BY <1>0, <1>2, <1>3, <1>4, NextSplits DEF EnsureSingleInstance, ProcessEnds

LEMMA NextRows ==
    ASSUME PInv, Down, Owned, Life, Rows, Undisturbed, [Next]_vars PROVE Rows'
<1>0. /\ Multi /\ Deletes = {} /\ Logouts = {}
      /\ ~StoreMayFail /\ ~MayRestart /\ ~MayStop
  BY DEF Undisturbed
<1>1. CASE RestoreInstances \/ EnsureSingleInstance
  <2>1. Started' /\ phase = "down" /\ phase' = "serving" /\ UNCHANGED <<handler, rows, registered>>
    BY <1>1, StartShape DEF RestoreInstances, EnsureSingleInstance
  <2>2. registered = {} /\ \A id \in Ids : rows[id] = NoRow
    BY <2>1 DEF Rows
  <2>3. \A c \in Clients : client'[c].id = NoId /\ handler[c].pc = "idle"
    BY <1>0, <2>1, <2>2 DEF Started, FreeClient, Down
  <2>. QED
    BY <2>1, <2>2, <2>3 DEF Rows
<1>2. CASE Running
  <2>1. phase # "down" /\ phase' # "down"
    BY <1>2, RunningIsUp
  <2>2. CASE Quiet /\ handler' = handler
    BY <1>0, <2>1, <2>2, QuietKeep, RowsFrame
  <2>3. CASE Quiet /\ handler' # handler
    <3>1. \E c \in Clients : HandlerStep(c) \/ ServerLogout(c)
      BY <1>0, <2>3, PollFrame DEF Quiet, Shutdown, UpdateInstanceConfig, Connect, ConnectionLost,
             AutoReconnect, CallerLeaves, memory
    <3>. QED
      BY <1>0, <2>1, <3>1, PairSuccessRows, LoggedOutRowRows, LoggedOutPublishRows, ServerLogoutRows
         DEF HandlerStep
  <2>4. ASSUME NEW id \in Ids, Builds(id) PROVE Rows'
    BY <1>0, <2>1, <2>4, BuildsKeep, BuildsShape, RowsFrame
  <2>5. ASSUME NEW c \in Clients, Pair(c) PROVE Rows'
    BY <2>1, <2>5, PairRows
  <2>. QED
    BY <1>2, <2>2, <2>3, <2>4, <2>5, RunningSplits
<1>3. CASE UNCHANGED vars \/ \E device \in Devices : PhoneUnlinks(device)
  <2>1. UNCHANGED <<phase, client, handler, rows, registered>>
    BY <1>3 DEF vars, PhoneUnlinks, memory
  <2>. QED
    BY <2>1 DEF Rows
<1>. QED
  BY <1>0, <1>1, <1>2, <1>3, NextSplits DEF ProcessEnds

\* Logins and logouts of any instances, on the phone, by WhatsApp and across
\* broken connections and delayed rebuilds, leave the rows in agreement with
\* the devices.  A crash, a failing store, a delete, an API logout or a
\* restart may separate them (see README.md).
THEOREM SpecRowsMatchDevices == ASSUME Undisturbed PROVE Spec => []RowsMatchDevices
<1>0. (Multi \/ \A i, k \in Ids : i = k) /\ (~Multi \/ Deletes = {}) /\ (~MayRestart \/ ~Multi)
  BY DEF Undisturbed
<1>1. Init => PInv /\ Down /\ Owned /\ NoDeletes /\ Life /\ Rows /\ stray = {}
  <2>1. Init => Rows
    BY DEF Init, Rows, FreeClient, NoEvent
  <2>. QED
    BY <2>1, InitPInv, InitDown, InitOwned, InitLife DEF Init
<1>2. PInv /\ Down /\ Owned /\ NoDeletes /\ Life /\ Rows /\ stray = {} /\ [Next]_vars
      => (PInv /\ Down /\ Owned /\ NoDeletes /\ Life /\ Rows /\ stray = {})'
  BY <1>0, NextPInv, NextOwned, NextNoDeletes, NextLife, NextRows, NoStray
<1>3. PInv /\ Owned /\ Rows => RowsMatchDevices
  <2>1. SUFFICES ASSUME PInv, Owned, Rows PROVE RowsMatchDevices
    OBVIOUS
  <2>2. ASSUME NEW j \in registered
        PROVE  \/ \E id \in Ids : rows[id] # NoRow /\ rows[id].device = j
               \/ \E c \in Clients : handler[c] = [pc |-> "paired", device |-> j]
    <3>1. PICK c \in Clients :
            client[c].jid = j /\ (handler[c].pc = "paired" \/ rows[client[c].id].device = j)
      BY <2>1 DEF Rows
    <3>2. client[c].id \in Ids /\ handler[c] \in EventRec
      BY <2>1, <3>1, NullAssumption DEF PInv, TypeOK, Owned
    <3>3. rows[client[c].id] # NoRow
      BY <2>1, <3>2, NullAssumption DEF Rows
    <3>4. handler[c].pc = "paired" => handler[c] = [pc |-> "paired", device |-> j]
      <4>1. handler[c].pc = "paired" => handler[c].device = j
        BY <2>1, <3>1 DEF Rows
      <4>. QED
        BY <3>2, <4>1 DEF EventRec
    <3>. QED
      BY <3>1, <3>2, <3>3, <3>4
  <2>. QED
    BY <2>1, <2>2 DEF RowsMatchDevices, Rows
<1>. QED
  BY <1>1, <1>2, <1>3, PTL DEF Spec

=============================================================================
