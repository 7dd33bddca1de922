--------------------------- MODULE QrSessionProofs ---------------------------
(***************************************************************************)
(* Invariants of QrSession for any buffer and any number of codes.         *)
(*                                                                         *)
(* While the drain of a poll runs, it makes room.  One that has run out of *)
(* its lifetime has left an empty channel, and its poll is over (Expired): *)
(* its handler gets codes only from the connection of another poll, and    *)
(* with two polls there is one such connection, which asks once (Spent).   *)
(***************************************************************************)
EXTENDS QrSession, SequenceTheorems, TLAPS

\* Where a drain outlives what its handler gets, two polls are enough to
\* take up all of them, and the codes of one connection fit.
Bounded ==
    LifetimeMayEnd => Refs < Buffer /\ \A p, q, r \in Polls : p = q \/ q = r \/ p = r

\* What whatsmeow has registered, and who is connected.
Registered ==
    /\ removing \subseteq closed
    /\ dispatch.todo \subseteq handlers
    /\ dispatch.event = "none" => dispatch.todo = {}
    /\ \A p \in Polls :
         /\ p \in handlers => poll[p] \in {"wait", "done"}
         /\ p \in connecting \/ session = p => poll[p] \in {"wait", "done"}
         /\ session = p => p \notin connecting
         /\ codes[p] # 0 => p \in handlers \ closed

\* Nobody will get codes again.
Spent ==
    \A q \in Polls : /\ poll[q] \in {"wait", "done"} /\ q \notin connecting
                     /\ session = q => asked

\* A handler without a drain.
Expired(p) ==
    /\ poll[p] = "done" /\ p \notin connecting /\ session # p
    /\ Len(channel[p]) + (IF codes[p] = 0 THEN 0 ELSE codes[p] - 1) <= Refs
    /\ dispatch.event = "qr" /\ p \in dispatch.todo => channel[p] = <<>> /\ codes[p] = 0
    /\ \/ channel[p] # <<>> \/ codes[p] # 0
       \/ dispatch.event = "qr" /\ p \in dispatch.todo
       => Spent

Drained ==
    \A p \in handlers \ closed : drain[p] # "off" \/ (LifetimeMayEnd /\ Expired(p))

-----------------------------------------------------------------------------
(* Types. *)

Items == {"code", "end"}

\* What there is in a channel after an item has come or gone.
LEMMA ChannelType ==
    ASSUME TypeOK, NEW p \in Polls
    PROVE  /\ channel[p] \in Seq(Items) /\ Len(channel[p]) \in Nat /\ Len(channel[p]) <= Buffer
           /\ \A item \in Items :
                /\ Append(channel[p], item) \in Seq(Items)
                /\ Len(Append(channel[p], item)) = Len(channel[p]) + 1
           /\ channel[p] # <<>> =>
                /\ Tail(channel[p]) \in Seq(Items) /\ Len(Tail(channel[p])) = Len(channel[p]) - 1
                /\ Head(channel[p]) \in Items
<1>1. channel[p] \in Seq(Items) /\ Len(channel[p]) <= Buffer
  BY DEF TypeOK, Items
<1>2. Len(channel[p]) \in Nat
  BY <1>1, LenProperties
<1>3. \A item \in Items : /\ Append(channel[p], item) \in Seq(Items)
                          /\ Len(Append(channel[p], item)) = Len(channel[p]) + 1
  BY <1>1, AppendProperties
<1>. QED
  BY <1>1, <1>2, <1>3

LEMMA SentType ==
    ASSUME TypeOK, NEW p \in Polls, NEW item \in Items, Len(channel[p]) < Buffer,
           NEW new, new = [channel EXCEPT ![p] = Append(@, item)]
    PROVE  new \in [Polls -> Seq(Items)] /\ \A q \in Polls : Len(new[q]) <= Buffer
<1>1. /\ Append(channel[p], item) \in Seq(Items)
      /\ Len(Append(channel[p], item)) = Len(channel[p]) + 1 /\ Len(channel[p]) \in Nat
  BY ChannelType
<1>2. channel \in [Polls -> Seq(Items)] /\ \A q \in Polls : Len(channel[q]) <= Buffer
  BY DEF TypeOK, Items
<1>3. Len(channel[p]) + 1 <= Buffer
  BY <1>1, QrAssumption
<1>4. new = [channel EXCEPT ![p] = Append(channel[p], item)]
  BY <1>2
<1>. QED
  BY <1>1, <1>2, <1>3, <1>4

LEMMA InitTypeOK == Init => TypeOK
<1>. SUFFICES ASSUME Init PROVE TypeOK
  OBVIOUS
<1>1. codes \in [Polls -> 0..(Refs + 1)]
  BY QrAssumption DEF Init
<1>2. {first, channel} \subseteq [Polls -> Seq({"code", "end"})]
      /\ \A p \in Polls : Len(first[p]) <= 1 /\ Len(channel[p]) <= Buffer
  BY QrAssumption DEF Init
<1>. QED
  BY <1>1, <1>2 DEF Init, TypeOK, NoDispatch

\* No step of a poll or of the drain's own touches a channel, but for Drain.
LEMMA StepTypeOK == TypeOK /\ [Next]_vars => TypeOK'
<1>. SUFFICES ASSUME TypeOK, [Next]_vars PROVE TypeOK'
  OBVIOUS
<1>. DEFINE Contents(f, c) ==
       /\ {f, c} \subseteq [Polls -> Seq({"code", "end"})]
       /\ \A p \in Polls : Len(f[p]) <= 1 /\ Len(c[p]) <= Buffer
<1>0. Contents(first, channel)
  BY DEF TypeOK
<1>1. CASE UNCHANGED vars
  BY <1>1 DEF vars, whatsmeow, TypeOK
<1>2. Disconnect => session' \in Polls \cup {NoPoll} /\ codes' \in [Polls -> 0..(Refs + 1)]
  BY QrAssumption DEF Disconnect
<1>3. ASSUME NEW p \in Polls, PollDisconnect(p) PROVE TypeOK'
  BY <1>2, <1>3 DEF PollDisconnect, TypeOK
<1>4. ASSUME NEW p \in Polls, PollChannel(p) PROVE TypeOK'
  BY <1>4 DEF PollChannel, TypeOK
<1>5. ASSUME NEW p \in Polls, PollTimeout(p) PROVE TypeOK'
  BY <1>2, <1>5 DEF PollTimeout, TypeOK
<1>6. ASSUME NEW p \in Polls, PollEnd(p) PROVE TypeOK'
  <2>1. Contents(first', channel')
    BY <1>0, <1>6 DEF PollEnd
  <2>. QED
    BY <1>6, <2>1 DEF PollEnd, TypeOK, whatsmeow
<1>7. ASSUME NEW p \in Polls, Connect(p) PROVE TypeOK'
  BY <1>7 DEF Connect, TypeOK
<1>8. ASSUME NEW p \in Polls, Drain(p) PROVE TypeOK'
  <2>. DEFINE rest == Tail(channel[p])  item == <<Head(channel[p])>>
  <2>1. /\ rest \in Seq(Items) /\ Len(rest) <= Buffer
        /\ item \in Seq(Items) /\ Len(item) = 1
    BY <1>8, ChannelType, QrAssumption DEF Drain
  <2>2. channel' = [channel EXCEPT ![p] = rest] /\ first' \in {first, [first EXCEPT ![p] = item]}
    BY <1>8 DEF Drain, TypeOK
  <2>. HIDE DEF rest, item
  <2>3. channel' \in [Polls -> Seq(Items)] /\ \A q \in Polls : Len(channel'[q]) <= Buffer
    BY <1>0, <2>1, <2>2 DEF Items
  <2>4. first \in [Polls -> Seq(Items)] /\ \A q \in Polls : Len(first[q]) <= 1
    BY DEF TypeOK, Items
  <2>5. first' \in [Polls -> Seq(Items)] /\ \A q \in Polls : Len(first'[q]) <= 1
    <3>1. CASE first' = first
      BY <2>4, <3>1
    <3>2. CASE first' = [first EXCEPT ![p] = item]
      <4>1. first' \in [Polls -> Seq(Items)]
        BY <2>1, <2>4, <3>2
      <4>2. \A q \in Polls : first'[q] = IF q = p THEN item ELSE first[q]
        BY <2>4, <3>2
      <4>3. \A q \in Polls : Len(first'[q]) <= 1
        <5>1. Len(item) <= 1
          BY <2>1
        <5>. QED
          BY <2>4, <4>2, <5>1
      <4>. QED
        BY <4>1, <4>3
    <3>. QED
      BY <2>2, <3>1, <3>2
  <2>. QED
    BY <1>8, <2>3, <2>5 DEF Drain, TypeOK, whatsmeow, Items
<1>9. ASSUME NEW p \in Polls, DrainEnds(p) \/ DrainExpires(p) PROVE TypeOK'
  <2>1. Contents(first', channel')
    BY <1>0, <1>9 DEF DrainEnds, DrainExpires
  <2>. QED
    BY <1>9, <2>1 DEF DrainEnds, DrainExpires, TypeOK, whatsmeow
<1>10. CASE DispatchEvent
  <2>1. dispatch' \in [event: {"none", "qr", "end"}, todo: SUBSET Polls]
    BY <1>10 DEF DispatchEvent, TypeOK
  <2>2. Contents(first', channel')
    BY <1>0, <1>10 DEF DispatchEvent
  <2>. QED
    BY <1>10, <2>1, <2>2 DEF DispatchEvent, TypeOK
<1>11. ASSUME NEW p \in Polls, HandleEvent(p) PROVE TypeOK'
  <2>1. codes' \in [Polls -> 0..(Refs + 1)]
    BY <1>11, QrAssumption DEF HandleEvent, TypeOK
  <2>2. channel' = channel
        \/ (Len(channel[p]) < Buffer /\ channel' = [channel EXCEPT ![p] = Append(@, "end")])
    BY <1>11 DEF HandleEvent
  <2>3. Contents(first', channel')
    BY <1>0, <1>11, <2>2, SentType, "end" \in Items DEF HandleEvent, Items
  <2>4. dispatch' \in [event: {"none", "qr", "end"}, todo: SUBSET Polls]
        /\ closed' \subseteq Polls /\ removing' \subseteq Polls
    BY <1>11 DEF HandleEvent, TypeOK
  <2>. QED
    BY <1>11, <2>1, <2>3, <2>4 DEF HandleEvent, TypeOK
<1>12. CASE DispatchReturns
  BY <1>12 DEF DispatchReturns, TypeOK, NoDispatch
<1>13. ASSUME NEW p \in Polls, EmitCode(p) PROVE TypeOK'
  <2>1. codes' \in [Polls -> 0..(Refs + 1)]
    BY <1>13, QrAssumption DEF EmitCode, TypeOK
  <2>2. Contents(first', channel')
    BY <1>0, <1>13, SentType DEF EmitCode, Items
  <2>. QED
    BY <1>13, <2>1, <2>2 DEF EmitCode, TypeOK
<1>14. ASSUME NEW p \in Polls, EmitEnd(p) PROVE TypeOK'
  <2>1. channel' = channel
        \/ (Len(channel[p]) < Buffer /\ channel' = [channel EXCEPT ![p] = Append(@, "end")])
    BY <1>14 DEF EmitEnd
  <2>2. Contents(first', channel')
    BY <1>0, <1>14, <2>1, SentType DEF EmitEnd, Items
  <2>. QED
    BY <1>2, <1>14, <2>2 DEF EmitEnd, TypeOK
<1>15. ASSUME NEW p \in Polls, RemoveEventHandler(p) PROVE TypeOK'
  BY <1>15 DEF RemoveEventHandler, TypeOK
<1>. QED
  BY <1>1, <1>3, <1>4, <1>5, <1>6, <1>7, <1>8, <1>9, <1>10, <1>11, <1>12, <1>13, <1>14, <1>15
     DEF Next, Poll, Library

LEMMA SpecTypeOK == Spec => []TypeOK
BY InitTypeOK, StepTypeOK, PTL DEF Spec

-----------------------------------------------------------------------------
(* Handlers. *)

LEMMA InitRegistered == Init => Registered
BY QrAssumption DEF Init, Registered, NoDispatch

LEMMA StepRegistered == TypeOK /\ Registered /\ [Next]_vars => Registered'
<1>. SUFFICES ASSUME TypeOK, Registered, [Next]_vars PROVE Registered'
  OBVIOUS
<1>1. CASE UNCHANGED vars
  BY <1>1 DEF vars, whatsmeow, Registered
<1>2. Disconnect => \A p \in Polls : session' # p /\ codes'[p] = 0
  BY QrAssumption DEF Disconnect
<1>3. ASSUME NEW p \in Polls, PollDisconnect(p) PROVE Registered'
  BY <1>2, <1>3 DEF PollDisconnect, TypeOK, Registered
<1>4. ASSUME NEW p \in Polls, PollChannel(p) PROVE Registered'
  BY <1>4, QrAssumption DEF PollChannel, TypeOK, Registered, NoDispatch
<1>5. ASSUME NEW p \in Polls, PollTimeout(p) PROVE Registered'
  BY <1>2, <1>5 DEF PollTimeout, TypeOK, Registered
<1>6. ASSUME NEW p \in Polls, PollEnd(p) PROVE Registered'
  BY <1>6 DEF PollEnd, TypeOK, Registered, whatsmeow
<1>7. ASSUME NEW p \in Polls, Connect(p) PROVE Registered'
  BY <1>7 DEF Connect, TypeOK, Registered
<1>8. ASSUME NEW p \in Polls, Drain(p) \/ DrainEnds(p) \/ DrainExpires(p) PROVE Registered'
  BY <1>8 DEF Drain, DrainEnds, DrainExpires, Registered, whatsmeow
<1>9. CASE DispatchEvent
  BY <1>9 DEF DispatchEvent, Registered
<1>10. ASSUME NEW p \in Polls, HandleEvent(p) PROVE Registered'
  BY <1>10 DEF HandleEvent, TypeOK, Registered
<1>11. CASE DispatchReturns
  BY <1>11 DEF DispatchReturns, Registered, NoDispatch
<1>12. ASSUME NEW p \in Polls, EmitCode(p) PROVE Registered'
  BY <1>12 DEF EmitCode, TypeOK, Registered
<1>13. ASSUME NEW p \in Polls, EmitEnd(p) PROVE Registered'
  BY <1>2, <1>13 DEF EmitEnd, TypeOK, Registered
<1>14. ASSUME NEW p \in Polls, RemoveEventHandler(p) PROVE Registered'
  BY <1>14 DEF RemoveEventHandler, TypeOK, Registered, NoDispatch
<1>. QED
  BY <1>1, <1>3, <1>4, <1>5, <1>6, <1>7, <1>8, <1>9, <1>10, <1>11, <1>12, <1>13, <1>14
     DEF Next, Poll, Library

-----------------------------------------------------------------------------
(* Drains. *)

\* Nobody connects again once nobody is left to.
LEMMA StepSpent == TypeOK /\ Registered /\ Spent /\ [Next]_vars => Spent'
<1>. SUFFICES ASSUME TypeOK, Registered, Spent, [Next]_vars PROVE Spent'
  OBVIOUS
<1>1. connecting = {} /\ \A q \in Polls : poll[q] \notin {"idle", "channel"}
  BY DEF Spent, TypeOK
<1>2. ASSUME NEW p \in Polls, PollDisconnect(p) \/ PollChannel(p) \/ Connect(p) PROVE Spent'
  BY <1>1, <1>2 DEF PollDisconnect, PollChannel, Connect
<1>3. ASSUME NEW p \in Polls, PollTimeout(p) \/ PollEnd(p) PROVE Spent'
  BY <1>3, QrAssumption DEF PollTimeout, PollEnd, Disconnect, Spent, TypeOK, whatsmeow
<1>4. ASSUME NEW p \in Polls,
             Drain(p) \/ DrainEnds(p) \/ DrainExpires(p) \/ HandleEvent(p) \/ EmitCode(p)
               \/ RemoveEventHandler(p)
      PROVE  Spent'
  BY <1>4 DEF Drain, DrainEnds, DrainExpires, HandleEvent, EmitCode, RemoveEventHandler, Spent,
              whatsmeow
<1>5. ASSUME NEW p \in Polls, EmitEnd(p) PROVE Spent'
  BY <1>5, QrAssumption DEF EmitEnd, Disconnect, Spent
<1>6. CASE DispatchEvent
  BY <1>6 DEF DispatchEvent, Spent
<1>7. CASE DispatchReturns \/ UNCHANGED vars
  BY <1>7 DEF DispatchReturns, Spent, vars, whatsmeow
<1>. QED
  BY <1>2, <1>3, <1>4, <1>5, <1>6, <1>7 DEF Next, Poll, Library

\* With two polls, an expired one leaves one that may have a connection.
LEMMA OneLeft ==
    ASSUME TypeOK, Registered, Bounded, LifetimeMayEnd,
           NEW p \in Polls, poll[p] = "done", p \notin connecting, session # p,
           NEW q \in Polls, session = q
    PROVE  \A r \in Polls : poll[r] \in {"wait", "done"} /\ r \notin connecting
<1>1. \A r \in Polls : r = p \/ r = q
  BY DEF Bounded
<1>. QED
  BY <1>1 DEF Registered

LEMMA InitDrained == Init => Drained
BY DEF Init, Drained

\* What a handler without a drain has got does not grow too long.
LEMMA StepExpired ==
    ASSUME Bounded, LifetimeMayEnd, TypeOK, Registered, [Next]_vars,
           NEW q \in Polls, q \in handlers, q \notin closed', drain[q] = "off", Expired(q)
    PROVE  Expired(q)'
<1>. DEFINE Left(c) == IF c[q] = 0 THEN 0 ELSE c[q] - 1
<1>1. /\ poll[q] = "done" /\ q \notin connecting /\ session # q
      /\ Len(channel[q]) + Left(codes) <= Refs
      /\ codes[q] \in 0..(Refs + 1) /\ Len(channel[q]) \in Nat
      /\ Len(channel[q]) <= Refs
  <2>1. /\ poll[q] = "done" /\ q \notin connecting /\ session # q
        /\ Len(channel[q]) + Left(codes) <= Refs
    BY DEF Expired
  <2>2. codes[q] \in 0..(Refs + 1) /\ Len(channel[q]) \in Nat
    BY ChannelType DEF TypeOK
  <2>. QED
    BY <2>1, <2>2, QrAssumption
<1>2. Spent => Spent'
  BY StepSpent
<1>3. ASSUME UNCHANGED <<channel, codes, dispatch>>,
             poll'[q] = "done", q \notin connecting', session' # q
      PROVE  Expired(q)'
  BY <1>1, <1>2, <1>3 DEF Expired
<1>4. CASE UNCHANGED vars
  BY <1>1, <1>3, <1>4 DEF vars, whatsmeow
<1>5. Disconnect => session' # q /\ codes'[q] = 0
  BY QrAssumption DEF Disconnect
<1>6. ASSUME UNCHANGED <<channel, dispatch>>, Disconnect, poll'[q] = "done", q \notin connecting'
      PROVE  Expired(q)'
  BY <1>1, <1>2, <1>5, <1>6 DEF Expired
<1>7. ASSUME NEW p \in Polls, PollDisconnect(p) PROVE Expired(q)'
  <2>1. p # q
    BY <1>1, <1>7 DEF PollDisconnect
  <2>. QED
    BY <1>1, <1>3, <1>6, <1>7, <2>1 DEF PollDisconnect, TypeOK
<1>8. ASSUME NEW p \in Polls, PollChannel(p) PROVE Expired(q)'
  <2>1. p # q
    BY <1>1, <1>8 DEF PollChannel
  <2>. QED
    BY <1>1, <1>3, <1>8, <2>1 DEF PollChannel, TypeOK
<1>9. ASSUME NEW p \in Polls, PollTimeout(p) PROVE Expired(q)'
  BY <1>1, <1>6, <1>9 DEF PollTimeout, TypeOK
<1>10. ASSUME NEW p \in Polls, PollEnd(p) PROVE Expired(q)'
  BY <1>1, <1>3, <1>10 DEF PollEnd, TypeOK, whatsmeow
<1>11. ASSUME NEW p \in Polls, Connect(p) PROVE Expired(q)'
  BY <1>1, <1>3, <1>11 DEF Connect
<1>12. ASSUME NEW p \in Polls, Drain(p) PROVE Expired(q)'
  <2>1. p # q
    BY <1>12 DEF Drain
  <2>2. channel'[q] = channel[q]
    BY <1>12, <2>1 DEF Drain, TypeOK
  <2>. QED
    BY <1>1, <1>2, <1>12, <2>2 DEF Drain, Expired, whatsmeow
<1>13. ASSUME NEW p \in Polls, DrainEnds(p) \/ DrainExpires(p) PROVE Expired(q)'
  BY <1>1, <1>3, <1>13 DEF DrainEnds, DrainExpires, whatsmeow
<1>14. CASE DispatchEvent
  <2>1. /\ UNCHANGED <<channel, codes, poll, connecting, session>>
        /\ session \in Polls /\ dispatch'.event \in {"qr", "end"}
        /\ dispatch'.event = "qr" => ~asked /\ asked'
    BY <1>14 DEF DispatchEvent, TypeOK
  <2>2. CASE dispatch'.event = "end"
    <3>1. channel[q] # <<>> \/ codes[q] # 0 => Spent
      BY DEF Expired
    <3>. QED
      BY <1>1, <1>2, <2>1, <2>2, <3>1 DEF Expired
  <2>3. CASE dispatch'.event = "qr"
    <3>1. ~Spent
      BY <2>1, <2>3 DEF Spent
    <3>2. channel[q] = <<>> /\ codes[q] = 0
      BY <3>1 DEF Expired
    <3>3. \A r \in Polls : poll[r] \in {"wait", "done"} /\ r \notin connecting
      BY <1>1, <2>1, OneLeft
    <3>4. Spent'
      BY <2>1, <2>3, <3>3 DEF Spent
    <3>. QED
      BY <1>1, <2>1, <3>2, <3>4 DEF Expired
  <2>. QED
    BY <2>1, <2>2, <2>3
<1>15. ASSUME NEW p \in Polls, HandleEvent(p) PROVE Expired(q)'
  <2>1. /\ UNCHANGED <<poll, connecting, session>>
        /\ dispatch'.event = dispatch.event /\ dispatch'.todo = dispatch.todo \ {p}
    BY <1>15 DEF HandleEvent, TypeOK
  <2>2. CASE p # q
    <3>1. channel'[q] = channel[q] /\ codes'[q] = codes[q]
      BY <1>15, <2>2 DEF HandleEvent, TypeOK
    <3>. QED
      BY <1>1, <1>2, <2>1, <2>2, <3>1 DEF Expired
  <2>3. CASE p = q
    <3>1. q \notin closed
      BY <1>15, <2>3 DEF HandleEvent
    <3>2. dispatch.event = "qr" /\ channel' = channel /\ codes'[q] = Refs + 1
      BY <1>15, <2>3, <3>1 DEF HandleEvent, TypeOK
    <3>3. q \in dispatch.todo
      BY <1>15, <2>3 DEF HandleEvent
    <3>4. channel[q] = <<>> /\ Spent'
      BY <1>2, <3>2, <3>3 DEF Expired
    <3>5. Len(channel'[q]) + Left(codes') <= Refs
      BY <3>2, <3>4, QrAssumption
    <3>. QED
      BY <1>1, <2>1, <2>3, <3>4, <3>5 DEF Expired
  <2>. QED
    BY <2>2, <2>3
<1>16. CASE DispatchReturns
  BY <1>1, <1>2, <1>16 DEF DispatchReturns, NoDispatch, Expired
<1>17. ASSUME NEW p \in Polls, EmitCode(p) PROVE Expired(q)'
  <2>1. UNCHANGED <<poll, connecting, session, dispatch>>
    BY <1>17 DEF EmitCode
  <2>2. CASE p # q
    <3>1. channel'[q] = channel[q] /\ codes'[q] = codes[q]
      BY <1>17, <2>2 DEF EmitCode, TypeOK
    <3>. QED
      BY <1>1, <1>2, <2>1, <3>1 DEF Expired
  <2>3. CASE p = q
    <3>1. /\ codes[q] > 1 /\ codes'[q] = codes[q] - 1
          /\ channel'[q] = Append(channel[q], "code")
      BY <1>17, <2>3 DEF EmitCode, TypeOK
    <3>2. Len(channel'[q]) = Len(channel[q]) + 1
      BY <3>1, ChannelType DEF Items
    <3>3. Len(channel'[q]) + Left(codes') <= Refs
      BY <1>1, <3>1, <3>2, QrAssumption
    <3>4. Spent'
      BY <1>1, <1>2, <3>1 DEF Expired
    <3>5. ~(dispatch.event = "qr" /\ q \in dispatch.todo)
      BY <1>1, <3>1 DEF Expired
    <3>. QED
      BY <1>1, <2>1, <3>3, <3>4, <3>5 DEF Expired
  <2>. QED
    BY <2>2, <2>3
<1>18. ASSUME NEW p \in Polls, EmitEnd(p) PROVE Expired(q)'
  <2>1. p # q
    BY <1>18 DEF EmitEnd
  <2>2. channel'[q] = channel[q] /\ UNCHANGED <<poll, connecting, dispatch>> /\ Disconnect
    BY <1>18, <2>1 DEF EmitEnd, TypeOK
  <2>. QED
    BY <1>1, <1>2, <1>5, <2>2 DEF Expired
<1>19. ASSUME NEW p \in Polls, RemoveEventHandler(p) PROVE Expired(q)'
  BY <1>1, <1>3, <1>19 DEF RemoveEventHandler
<1>. QED
  BY <1>4, <1>7, <1>8, <1>9, <1>10, <1>11, <1>12, <1>13, <1>14, <1>15, <1>16, <1>17, <1>18, <1>19
     DEF Next, Poll, Library

LEMMA StepDrained ==
    ASSUME Bounded, TypeOK, Registered, Drained, [Next]_vars
    PROVE  Drained'
<1>. SUFFICES ASSUME NEW q \in Polls, q \in handlers' \ closed'
              PROVE  drain'[q] # "off" \/ (LifetimeMayEnd /\ Expired(q)')
  BY StepTypeOK DEF Drained, TypeOK
<1>1. closed \subseteq closed'
  BY DEF Next, vars, whatsmeow, Poll, Library, PollDisconnect, PollChannel, PollTimeout, PollEnd,
         Connect, Drain, DrainEnds, DrainExpires, DispatchEvent, DispatchReturns, HandleEvent,
         EmitCode, EmitEnd, RemoveEventHandler
<1>2. q \in handlers \/ (PollChannel(q) /\ drain'[q] = "first")
  BY DEF Next, vars, whatsmeow, Poll, Library, PollDisconnect, PollChannel, PollTimeout, PollEnd,
         Connect, Drain, DrainEnds, DrainExpires, DispatchEvent, DispatchReturns, HandleEvent,
         EmitCode, EmitEnd, RemoveEventHandler, TypeOK
<1>3. ASSUME q \in handlers, drain[q] # "off"
      PROVE  drain'[q] # "off" \/ (LifetimeMayEnd /\ Expired(q)')
  <2>1. drain'[q] # "off" \/ DrainEnds(q) \/ DrainExpires(q)
    BY <1>3 DEF Next, vars, whatsmeow, Poll, Library, PollDisconnect, PollChannel, PollTimeout,
         PollEnd, Connect, Drain, DrainEnds, DrainExpires, DispatchEvent, DispatchReturns,
         HandleEvent, EmitCode, EmitEnd, RemoveEventHandler, TypeOK
  <2>2. ~DrainEnds(q)
    BY <1>1 DEF DrainEnds
  <2>3. ASSUME DrainExpires(q) PROVE LifetimeMayEnd /\ Expired(q)'
    BY <2>3, QrAssumption DEF DrainExpires, Expired, whatsmeow
  <2>. QED
    BY <2>1, <2>2, <2>3
<1>4. ASSUME q \in handlers, drain[q] = "off" PROVE LifetimeMayEnd /\ Expired(q)'
  <2>1. LifetimeMayEnd /\ Expired(q)
    BY <1>1, <1>4 DEF Drained
  <2>. QED
    BY <1>4, <2>1, StepExpired
<1>. QED
  BY <1>2, <1>3, <1>4

LEMMA SpecDrained == ASSUME Bounded PROVE Spec => [](Registered /\ Drained)
<1>1. Init => Registered /\ Drained
  BY InitRegistered, InitDrained
<1>2. TypeOK /\ Registered /\ Drained /\ [Next]_vars => Registered' /\ Drained'
  BY StepRegistered, StepDrained
<1>. QED
  BY <1>1, <1>2, SpecTypeOK, PTL DEF Spec

\* A sender never blocks, with any buffer: polls without end as long as no
\* drain ends before its handler does, and otherwise two of them whose codes
\* fit in the channel.
THEOREM SpecSenderNeverBlocks == ASSUME Bounded PROVE Spec => []SenderNeverBlocks
<1>1. TypeOK /\ Registered /\ Drained => SenderNeverBlocks
  <2>. SUFFICES ASSUME TypeOK, Registered, Drained, dispatch.event = "end",
                       NEW p \in dispatch.todo \ closed, drain[p] = "off"
                PROVE  Len(channel[p]) < Buffer
    BY DEF SenderNeverBlocks
  <2>1. p \in Polls /\ p \in handlers
    BY DEF TypeOK, Registered
  <2>2. LifetimeMayEnd /\ Expired(p)
    BY <2>1 DEF Drained
  <2>3. Len(channel[p]) \in Nat /\ codes[p] \in 0..(Refs + 1)
    BY <2>1, ChannelType DEF TypeOK
  <2>. QED
    BY <2>2, <2>3, QrAssumption DEF Expired, Bounded
<1>. QED
  BY <1>1, SpecTypeOK, SpecDrained, PTL
=============================================================================
