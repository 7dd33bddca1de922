------------------------------ MODULE QrSession ------------------------------
(***************************************************************************)
(* GET /session/qr on one client that is not paired yet.  Every poll       *)
(* reconnects the client and registers another QR handler with whatsmeow,  *)
(* which is never removed while polls go on; whatsmeow runs the handlers   *)
(* under a read lock of its handler list and some of them send to the      *)
(* poll's channel (session.go:86-102).  A goroutine per poll drains it.    *)
(***************************************************************************)
EXTENDS Naturals, Sequences, FiniteSets

CONSTANTS
    Polls,             \* the calls of GenerateQRImage and GenerateQRCode
    NoPoll,
    Buffer,            \* capacity of the channel of GetQRChannel
    Refs,              \* codes in one QR event
    LifetimeMayEnd     \* qrSessionMaxLifetime may pass

ASSUME QrAssumption ==
    /\ NoPoll \notin Polls
    /\ Buffer \in Nat \ {0} /\ Refs \in Nat \ {0}
    /\ LifetimeMayEnd \in BOOLEAN

VARIABLES
    poll,       \* progress of each poll
    drain,      \* drainQRChannel: "off", "first" (nothing forwarded), "rest"
    first,      \* what the drain has forwarded and the poll not yet taken
    channel,    \* the channel of GetQRChannel
    closed,     \* polls whose channel is closed
    handlers,   \* polls whose QR handler is registered
    removing,   \* pending "go RemoveEventHandler", waiting for the write lock
    codes,      \* items each handler's emitter still has: codes, then the timeout
    connecting, \* pending "go client.Connect()"
    session,    \* the poll whose connection is up, or NoPoll
    asked,      \* the connection has had its QR event
    paired,     \* Store.ID is set
    dispatch    \* dispatchEvent, which holds the read lock while busy

whatsmeow == <<handlers, removing, codes, asked, paired, dispatch>>
vars == <<poll, drain, first, channel, closed, connecting, session, whatsmeow>>

NoDispatch == [event |-> "none", todo |-> {}]

TypeOK ==
    /\ poll \in [Polls -> {"idle", "channel", "wait", "done"}]
    /\ drain \in [Polls -> {"off", "first", "rest"}]
    /\ {first, channel} \subseteq [Polls -> Seq({"code", "end"})]
    /\ \A p \in Polls : Len(first[p]) <= 1 /\ Len(channel[p]) <= Buffer
    /\ closed \subseteq Polls /\ handlers \subseteq Polls /\ removing \subseteq Polls
    /\ codes \in [Polls -> 0..(Refs + 1)]
    /\ connecting \subseteq Polls
    /\ session \in Polls \cup {NoPoll}
    /\ asked \in BOOLEAN /\ paired \in BOOLEAN
    /\ dispatch \in [event: {"none", "qr", "end"}, todo: SUBSET Polls]

Init ==
    /\ poll = [p \in Polls |-> "idle"] /\ drain = [p \in Polls |-> "off"]
    /\ first = [p \in Polls |-> <<>>] /\ channel = [p \in Polls |-> <<>>]
    /\ closed = {} /\ handlers = {} /\ removing = {} /\ connecting = {}
    /\ codes = [p \in Polls |-> 0]
    /\ session = NoPoll /\ asked = FALSE /\ paired = FALSE
    /\ dispatch = NoDispatch

-----------------------------------------------------------------------------
(* A poll. *)

\* Client.Disconnect: expected, so the emitters return and nothing else
\* happens: no event, no closed channel.
Disconnect == session' = NoPoll /\ codes' = [p \in Polls |-> 0]

\* Refused for a paired device; otherwise the connection is dropped.
PollDisconnect(p) ==
    /\ poll[p] = "idle"
    /\ IF paired
       THEN poll' = [poll EXCEPT ![p] = "done"] /\ UNCHANGED <<session, codes>>
       ELSE poll' = [poll EXCEPT ![p] = "channel"] /\ Disconnect
    /\ UNCHANGED <<drain, first, channel, closed, connecting, handlers, removing, asked,
                   paired, dispatch>>

\* GetQRChannel: an error on a client that is connected (another poll was
\* faster) or paired.  It registers a handler, for which it needs the
\* write lock.  Then the drain and the connection are started.
PollChannel(p) ==
    /\ poll[p] = "channel"
    /\ \/ /\ session # NoPoll \/ paired
          /\ poll' = [poll EXCEPT ![p] = "done"]
          /\ UNCHANGED <<drain, handlers, connecting>>
       \/ /\ session = NoPoll /\ ~paired
          /\ dispatch = NoDispatch
          /\ poll' = [poll EXCEPT ![p] = "wait"]
          /\ drain' = [drain EXCEPT ![p] = "first"]
          /\ handlers' = handlers \cup {p}
          /\ connecting' = connecting \cup {p}
    /\ UNCHANGED <<first, channel, closed, session, removing, codes, asked, paired,
                   dispatch>>

\* Mutation: a poll gives up only while it has the connection.
PollTimeoutConnected(p) ==
    /\ poll[p] = "wait" /\ first[p] = <<>> /\ session = p
    /\ poll' = [poll EXCEPT ![p] = "done"]
    /\ Disconnect
    /\ UNCHANGED <<drain, first, channel, closed, connecting, handlers, removing, asked,
                   paired, dispatch>>

\* Nothing came within qrWaitTimeout: the connection is dropped.
PollTimeout(p) ==
    /\ poll[p] = "wait" /\ first[p] = <<>>
    /\ poll' = [poll EXCEPT ![p] = "done"]
    /\ Disconnect
    /\ UNCHANGED <<drain, first, channel, closed, connecting, handlers, removing, asked,
                   paired, dispatch>>

\* The first item is there, or the channel of the drain is closed, or the
\* caller has gone: the connection stays for a code shown before.
PollEnd(p) ==
    /\ poll[p] = "wait"
    /\ poll' = [poll EXCEPT ![p] = "done"]
    /\ first' = [first EXCEPT ![p] = <<>>]
    /\ UNCHANGED <<drain, channel, closed, connecting, session, whatsmeow>>

\* The goroutine with client.Connect, which fails when somebody else has
\* connected.
Connect(p) ==
    /\ p \in connecting
    /\ connecting' = connecting \ {p}
    /\ IF session = NoPoll THEN session' = p /\ asked' = FALSE
                           ELSE UNCHANGED <<session, asked>>
    /\ UNCHANGED <<poll, drain, first, channel, closed, handlers, removing, codes,
                   paired, dispatch>>

-----------------------------------------------------------------------------
(* drainQRChannel. *)

\* Mutation: the drain ends with the first item, as the poll did when it
\* read the channel itself.
DrainOnce(p) ==
    /\ drain[p] # "off" /\ channel[p] # <<>>
    /\ channel' = [channel EXCEPT ![p] = Tail(@)]
    /\ first' = [first EXCEPT ![p] = <<Head(channel[p])>>]
    /\ drain' = [drain EXCEPT ![p] = "off"]
    /\ UNCHANGED <<poll, closed, connecting, session, whatsmeow>>

\* One turn of its loop: the first item is forwarded, the others dropped.
Drain(p) ==
    /\ drain[p] # "off" /\ channel[p] # <<>>
    /\ channel' = [channel EXCEPT ![p] = Tail(@)]
    /\ first' = IF drain[p] = "first" THEN [first EXCEPT ![p] = <<Head(channel[p])>>]
                ELSE first
    /\ drain' = [drain EXCEPT ![p] = "rest"]
    /\ UNCHANGED <<poll, closed, connecting, session, whatsmeow>>

\* Mutation: the closed channel is noticed only by a drain that still looks
\* for its first item.
DrainEndsFirst(p) ==
    /\ drain[p] = "first" /\ channel[p] = <<>> /\ p \in closed
    /\ drain' = [drain EXCEPT ![p] = "off"]
    /\ UNCHANGED <<poll, first, channel, closed, connecting, session, whatsmeow>>

\* The channel is closed and empty.
DrainEnds(p) ==
    /\ drain[p] # "off" /\ channel[p] = <<>> /\ p \in closed
    /\ drain' = [drain EXCEPT ![p] = "off"]
    /\ UNCHANGED <<poll, first, channel, closed, connecting, session, whatsmeow>>

\* qrSessionMaxLifetime after the poll: what came until then is read, its
\* request is long over and its connection, whose codes last minutes, gone.
DrainExpires(p) ==
    /\ LifetimeMayEnd
    /\ drain[p] # "off" /\ channel[p] = <<>> /\ poll[p] = "done"
    /\ codes[p] = 0 /\ p \notin dispatch.todo /\ p \notin connecting /\ session # p
    /\ drain' = [drain EXCEPT ![p] = "off"]
    /\ UNCHANGED <<poll, first, channel, closed, connecting, session, whatsmeow>>

-----------------------------------------------------------------------------
(* whatsmeow. *)

\* An event comes in on the connection: new codes to show, or the end of
\* pairing by a scan.  A writer that waits keeps new readers out.
DispatchEvent ==
    /\ session # NoPoll /\ ~paired
    /\ dispatch = NoDispatch /\ removing = {}
    /\ \/ /\ ~asked /\ asked' = TRUE /\ paired' = paired
          /\ dispatch' = [event |-> "qr", todo |-> handlers]
       \/ /\ asked /\ asked' = asked /\ paired' = TRUE
          /\ dispatch' = [event |-> "end", todo |-> handlers]
    /\ UNCHANGED <<poll, drain, first, channel, closed, connecting, session, handlers,
                   removing, codes>>

\* A QR handler: codes go to its emitter; the end is sent to the channel,
\* which waits while the buffer is full, and retires the handler.
HandleEvent(p) ==
    /\ p \in dispatch.todo
    /\ dispatch' = [dispatch EXCEPT !.todo = @ \ {p}]
    /\ \/ /\ dispatch.event = "qr" /\ p \notin closed
          /\ codes' = [codes EXCEPT ![p] = Refs + 1]
          /\ UNCHANGED <<channel, closed, removing>>
       \/ /\ dispatch.event = "end" /\ p \notin closed
          /\ Len(channel[p]) < Buffer
          /\ channel' = [channel EXCEPT ![p] = Append(@, "end")]
          /\ closed' = closed \cup {p}
          /\ removing' = removing \cup {p}
          /\ codes' = [codes EXCEPT ![p] = 0]
       \/ p \in closed /\ UNCHANGED <<channel, closed, removing, codes>>
    /\ UNCHANGED <<poll, drain, first, connecting, session, handlers, asked, paired>>

DispatchReturns ==
    /\ dispatch # NoDispatch /\ dispatch.todo = {}
    /\ dispatch' = NoDispatch
    /\ UNCHANGED <<poll, drain, first, channel, closed, connecting, session, handlers,
                   removing, codes, asked, paired>>

\* The emitter shows the next code.
EmitCode(p) ==
    /\ codes[p] > 1
    /\ Len(channel[p]) < Buffer
    /\ channel' = [channel EXCEPT ![p] = Append(@, "code")]
    /\ codes' = [codes EXCEPT ![p] = @ - 1]
    /\ UNCHANGED <<poll, drain, first, closed, connecting, session, handlers, removing,
                   asked, paired, dispatch>>

\* The emitter closes its channel and drops the connection: its codes have
\* run out, of which it tells the reader, or a code does not fit.
EmitEnd(p) ==
    /\ \/ /\ codes[p] = 1 /\ Len(channel[p]) < Buffer
          /\ channel' = [channel EXCEPT ![p] = Append(@, "end")]
       \/ /\ codes[p] > 1 /\ Len(channel[p]) = Buffer
          /\ UNCHANGED channel
    /\ closed' = closed \cup {p}
    /\ removing' = removing \cup {p}
    /\ Disconnect
    /\ UNCHANGED <<poll, drain, first, connecting, handlers, asked, paired, dispatch>>

RemoveEventHandler(p) ==
    /\ p \in removing
    /\ dispatch = NoDispatch
    /\ handlers' = handlers \ {p}
    /\ removing' = removing \ {p}
    /\ UNCHANGED <<poll, drain, first, channel, closed, connecting, session, codes, asked,
                   paired, dispatch>>

Poll(p)    == PollDisconnect(p) \/ PollChannel(p) \/ PollTimeout(p) \/ PollEnd(p)
Library(p) == HandleEvent(p) \/ EmitCode(p) \/ EmitEnd(p) \/ RemoveEventHandler(p)

Next ==
    \/ \E p \in Polls : Poll(p) \/ Connect(p) \/ Library(p)
                        \/ Drain(p) \/ DrainEnds(p) \/ DrainExpires(p)
    \/ DispatchEvent \/ DispatchReturns

Spec == Init /\ [][Next]_vars

\* Goroutines are scheduled; a poll that has begun goes on and its timer
\* runs.  Nobody has to poll or to scan.
FairSpec ==
    /\ Spec
    /\ WF_vars(DispatchReturns)
    /\ \A p \in Polls :
         /\ WF_vars(PollChannel(p)) /\ WF_vars(PollTimeout(p))
         /\ WF_vars(first[p] # <<>> /\ PollEnd(p))
         /\ WF_vars(Connect(p)) /\ WF_vars(Drain(p)) /\ WF_vars(DrainEnds(p))
         /\ WF_vars(HandleEvent(p)) /\ WF_vars(EmitCode(p)) /\ WF_vars(EmitEnd(p))
         /\ WF_vars(RemoveEventHandler(p))

-----------------------------------------------------------------------------
(* Properties. *)

\* A sender never blocks, even long after the caller has stopped caring
\* (session_qr_test.go:41-42): dispatchEvent does not face a full channel
\* that nobody drains.
SenderNeverBlocks ==
    /\ TypeOK
    /\ dispatch.event = "end" =>
         \A p \in dispatch.todo \ closed : drain[p] # "off" \/ Len(channel[p]) < Buffer

\* Nobody waits forever: a dispatch that has begun returns, so that the client
\* goes on handling events, and a poll that has begun is answered, whatever
\* other polls do.
PollsAnswered ==
    /\ dispatch # NoDispatch ~> dispatch = NoDispatch
    /\ \A p \in Polls : poll[p] \in {"channel", "wait"} ~> poll[p] = "done"

\* A handler that has got its last event is removed from the client and its
\* drain ends, so that polls leave nothing behind once the device is paired.
PollsLeaveNothing == paired ~> \A p \in Polls : p \notin handlers /\ drain[p] = "off"
=============================================================================
