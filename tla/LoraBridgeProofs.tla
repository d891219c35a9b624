-------------------------- MODULE LoraBridgeProofs --------------------------
(***************************************************************************)
(* Proofs about LoraBridge, for any payloads and any number of messages.   *)
(***************************************************************************)
EXTENDS MCLoraBridge, SequenceTheorems, TLAPS

\* Moving the head of t to the end of q leaves q \o t as it is: a push by the
\* MQTT thread does not change what waits.
LEMMA MoveHead ==
  ASSUME NEW S, NEW q \in Seq(S), NEW t \in Seq(S), t # <<>>
  PROVE  /\ Append(q, Head(t)) \in Seq(S)
         /\ Tail(t) \in Seq(S)
         /\ Append(q, Head(t)) \o Tail(t) = q \o t
<1>1. Head(t) \in S /\ Tail(t) \in Seq(S)
  BY HeadTailProperties
<1>2. Append(q, Head(t)) \in Seq(S)
  BY SMTT(30), <1>1, AppendProperties
<1>3. Len(Append(q, Head(t)) \o Tail(t)) = Len(q \o t)
  BY <1>1, <1>2, HeadTailProperties, AppendProperties, ConcatProperties, LenProperties
<1>4. \A i \in 1..Len(q \o t) : (Append(q, Head(t)) \o Tail(t))[i] = (q \o t)[i]
  BY SMTT(30), <1>1, <1>2, HeadTailProperties, AppendProperties, ConcatProperties, LenProperties
<1>5. /\ Append(q, Head(t)) \o Tail(t) \in Seq(S)
      /\ q \o t \in Seq(S)
  BY SMTT(30), <1>1, <1>2, ConcatProperties
<1> QED
  BY SMTT(30), <1>1, <1>2, <1>3, <1>4, <1>5, SeqEqual

\* The head of q \o t is the head of q, its tail the tail of q and then t: a
\* pop by the event-loop thread takes what has waited longest.
LEMMA PopConcat ==
  ASSUME NEW S, NEW q \in Seq(S), NEW t \in Seq(S), q # <<>>
  PROVE  /\ q \o t # <<>>
         /\ Head(q \o t) = Head(q)
         /\ Tail(q \o t) = Tail(q) \o t
<1>1. Tail(q) \in Seq(S) /\ q \o t \in Seq(S) /\ Tail(q) \o t \in Seq(S)
  BY SMTT(30), HeadTailProperties, ConcatProperties
<1>2. Len(q) > 0 /\ Len(q \o t) > 0 /\ q \o t # <<>>
  BY <1>1, ConcatProperties, LenProperties, EmptySeq
<1>3. Head(q \o t) = Head(q)
  BY SMTT(30), <1>2, ConcatProperties
<1>4. Tail(q \o t) \in Seq(S) /\ Len(Tail(q \o t)) = Len(Tail(q) \o t)
  BY <1>1, <1>2, HeadTailProperties, ConcatProperties, LenProperties
<1>5. \A i \in 1..Len(Tail(q \o t)) : Tail(q \o t)[i] = (Tail(q) \o t)[i]
  BY SMTT(30), <1>1, <1>2, <1>4, HeadTailProperties, ConcatProperties, LenProperties
<1> QED
  BY <1>1, <1>2, <1>3, <1>4, <1>5, SeqEqual

\* Nothing is left behind the head exactly when there was one element: the
\* test that ends the loop over the items.
LEMMA TailEmpty ==
  ASSUME NEW S, NEW t \in Seq(S), t # <<>>
  PROVE  Len(t) = 1 <=> Tail(t) = <<>>
<1> DEFINE u == Tail(t)
<1>1. u \in Seq(S) /\ Len(u) = Len(t) - 1 /\ Len(t) \in Nat
  BY HeadTailProperties, LenProperties
<1> HIDE DEF u
<1>2. Len(u) = 0 <=> u = <<>>
  BY Zenon, <1>1, EmptySeq
<1>3. Len(t) = 1 <=> u = <<>>
  BY <1>1, <1>2
<1> QED
  BY <1>3 DEF u

-----------------------------------------------------------------------------
\* LockDiscipline and InOrderExactlyOnce need, to be inductive, the types and
\* that the MQTT thread is inside on_message exactly while it has something
\* left to push.
IInv ==
  /\ TypeOK
  /\ LockDiscipline
  /\ InOrderExactlyOnce
  /\ mqtt = "loop" <=> todo = <<>>

\* The initial states satisfy the inductive invariant.
LEMMA InitInv == Init => IInv
<1> SUFFICES ASSUME Init PROVE IInv
  OBVIOUS
<1>1. <<>> \in Seq(Payloads) /\ <<>> \o (<<>> \o <<>>) = <<>>
  BY SMTT(30), EmptySeq, ConcatEmptySeq
<1> QED
  BY Zenon, <1>1 DEF Init, IInv, TypeOK, LockDiscipline, InOrderExactlyOnce

\* on_message taking in ps keeps the invariant.
LEMMA TakeInv ==
  ASSUME IInv, NEW ps \in Seq(Payloads), InLoop, Take(ps), UNCHANGED refused
  PROVE  IInv'
<1> USE DEF IInv, InLoop, Take
<1>1. todo = <<>>
  BY SMTT(30)
<1>2. /\ received' \in Seq(Payloads)
      /\ todo' \in Seq(Payloads)
  BY ConcatProperties DEF TypeOK
<1>3. TypeOK'
  BY <1>2 DEF TypeOK
<1>4. LockDiscipline'
  BY DEF TypeOK, LockDiscipline
<1>5. InOrderExactlyOnce'
  <2>1. sent \in Seq(Payloads) /\ queue_downlink \in Seq(Payloads)
    BY DEF TypeOK
  <2>2. queue_downlink \o <<>> = queue_downlink
    BY SMTT(30), <2>1, ConcatEmptySeq
  <2>3. received = sent \o queue_downlink
    BY <1>1, <2>2 DEF InOrderExactlyOnce
  <2>4. (sent \o queue_downlink) \o ps = sent \o (queue_downlink \o ps)
    BY SMTT(30), <2>1, ConcatAssociative
  <2> QED
    BY SMTT(30), <2>3, <2>4 DEF InOrderExactlyOnce
<1>6. (mqtt = "loop" <=> todo = <<>>)'
  OBVIOUS
<1> QED
  BY <1>3, <1>4, <1>5, <1>6

\* A push keeps the invariant: received is unchanged and so is what waits.
LEMMA PushInv ==
  ASSUME IInv, Push
  PROVE  IInv'
<1>1. /\ todo # <<>> /\ todo \in Seq(Payloads) /\ queue_downlink \in Seq(Payloads)
      /\ queue_downlink' = Append(queue_downlink, Head(todo)) /\ todo' = Tail(todo)
  BY SMTT(30) DEF IInv, TypeOK, Push
<1>2. /\ queue_downlink' \in Seq(Payloads)
      /\ todo' \in Seq(Payloads)
      /\ queue_downlink' \o todo' = queue_downlink \o todo
  BY <1>1, MoveHead
<1>3. TypeOK'
  BY <1>2 DEF IInv, Push, TypeOK
<1>4. LockDiscipline'
  BY DEF IInv, Push, TypeOK, LockDiscipline
<1>5. InOrderExactlyOnce'
  BY Zenon, <1>2 DEF IInv, Push, InOrderExactlyOnce
<1>6. (mqtt = "loop" <=> todo = <<>>)'
  <2>1. Len(todo) = 1 <=> todo' = <<>>
    BY SMTT(30), <1>1, TailEmpty
  <2> QED
    BY <2>1 DEF Push
<1> QED
  BY SMTT(30), <1>3, <1>4, <1>5, <1>6 DEF IInv

\* A PULL_RESP keeps the invariant: the head of what waits moves to the end of
\* what was sent.
LEMMA PullRespInv ==
  ASSUME IInv, PullResp
  PROVE  IInv'
<1> DEFINE waiting == queue_downlink \o todo
<1>1. /\ queue_downlink # <<>> /\ queue_downlink \in Seq(Payloads)
      /\ sent \in Seq(Payloads) /\ todo \in Seq(Payloads)
      /\ sent' = Append(sent, Head(queue_downlink))
      /\ queue_downlink' = Tail(queue_downlink) /\ todo' = todo
  BY SMTT(30) DEF IInv, TypeOK, PullResp
<1>2. /\ waiting \in Seq(Payloads) /\ waiting # <<>>
      /\ Head(waiting) = Head(queue_downlink) /\ Tail(waiting) = waiting'
  BY SMTT(30), <1>1, PopConcat, ConcatProperties
<1> HIDE DEF waiting
<1>3. sent' \in Seq(Payloads) /\ sent' \o waiting' = sent \o waiting
  <2>1. sent' = Append(sent, Head(waiting)) /\ waiting' = Tail(waiting)
    BY <1>1, <1>2
  <2>2. /\ Append(sent, Head(waiting)) \in Seq(Payloads)
        /\ Append(sent, Head(waiting)) \o Tail(waiting) = sent \o waiting
    BY SMTT(30), <1>1, <1>2, MoveHead
  <2> QED
    BY Zenon, <2>1, <2>2
<1>4. queue_downlink' \in Seq(Payloads) /\ downlink_msg' \in Seq(Payloads)
  BY SMTT(30), <1>1, HeadTailProperties DEF PullResp
<1>5. TypeOK'
  BY SMTT(30), <1>3, <1>4 DEF IInv, PullResp, TypeOK
<1>6. LockDiscipline'
  BY DEF IInv, PullResp, TypeOK, LockDiscipline
<1>7. InOrderExactlyOnce'
  BY SMTT(30), <1>3 DEF IInv, PullResp, InOrderExactlyOnce, waiting
<1>8. (mqtt = "loop" <=> todo = <<>>)'
  BY DEF IInv, PullResp
<1> QED
  BY <1>5, <1>6, <1>7, <1>8 DEF IInv

\* Every step keeps the invariant.
LEMMA NextInv == IInv /\ [Next]_vars => IInv'
<1> SUFFICES ASSUME IInv, [Next]_vars PROVE IInv'
  BY SMTT(30)
<1>1. CASE \E p \in Payloads : OnMessageTxpk(p)
  <2>1. PICK p \in Payloads : OnMessageTxpk(p)
    BY <1>1
  <2>2. <<p>> \in Seq(Payloads)
    OBVIOUS
  <2> QED
    BY Zenon, <2>1, <2>2, TakeInv DEF OnMessageTxpk
<1>2. CASE \E gwid \in GatewayIds, items \in ItemLists : OnMessageItems(gwid, items)
  <2>1. PICK gwid \in GatewayIds, items \in ItemLists : OnMessageItems(gwid, items)
    BY <1>2
  <2>2. CASE gwid # EncodedEui \/ gwid # TestId
    BY Zenon, <2>1, <2>2 DEF OnMessageItems, IInv, TypeOK, LockDiscipline,
                      InOrderExactlyOnce, downlinkVars
  <2>3. CASE ~(gwid # EncodedEui \/ gwid # TestId)
    BY <2>1, <2>3, TakeInv, PayloadAssumption DEF OnMessageItems
  <2> QED
    BY SMTT(30), <2>2, <2>3
<1>3. CASE Push
  BY SMTT(30), <1>3, PushInv
<1>4. CASE PullResp
  BY <1>4, PullRespInv
<1>5. CASE Main \/ SignalCb \/ Exit \/ OnConnect \/ OnSubscribe \/ OnDisconnect \/ OnMessageIdThrows
  BY Zenon, <1>5 DEF Main, SignalCb, Exit, OnConnect, OnSubscribe, OnDisconnect, OnMessageIdThrows, IInv,
              TypeOK, LockDiscipline, InOrderExactlyOnce, downlinkVars
<1>6. CASE PushLock \/ PullData \/ PullLock \/ PullAck
  BY Zenon, <1>6 DEF PushLock, PullData, PullLock, PullAck, IInv, TypeOK,
              LockDiscipline, InOrderExactlyOnce, downlinkVars
<1>7. CASE PullReported \/ PullThrew
  BY Zenon, <1>7, EmptySeq DEF PullReported, PullThrew, IInv, TypeOK, LockDiscipline,
              InOrderExactlyOnce
<1>8. CASE Exited \/ UNCHANGED vars
  BY Zenon, <1>8 DEF Exited, vars, downlinkVars, IInv, TypeOK, LockDiscipline,
              InOrderExactlyOnce
<1> QED
  BY SMTT(30), <1>1, <1>2, <1>3, <1>4, <1>5, <1>6, <1>7, <1>8 DEF Next, MqttNext, UdpNext

\* The variables keep their types.
THEOREM TypeCorrect == Spec => []TypeOK
<1>1. IInv => TypeOK
  BY SMTT(30) DEF IInv
<1> QED
  BY <1>1, InitInv, NextInv, PTL DEF Spec

\* queue_downlink_mutex is held exactly inside the critical sections of the
\* two threads, the exception path of response_pkt_pull_data included.
THEOREM MutexHeldInside == Spec => []LockDiscipline
<1>1. IInv => LockDiscipline
  BY SMTT(30) DEF IInv
<1> QED
  BY <1>1, InitInv, NextInv, PTL DEF Spec

\* Every downlink received is sent at most once and in the order of arrival,
\* and none disappears between on_message and the forwarder.
THEOREM DownlinksInOrder == Spec => []InOrderExactlyOnce
<1>1. IInv => InOrderExactlyOnce
  BY SMTT(30) DEF IInv
<1> QED
  BY <1>1, InitInv, NextInv, PTL DEF Spec

\* The bridge implements the FIFO channel of DownlinkChannel.
THEOREM ImplementsChannel == Spec => ChannelSpec
<1>1. Init => Channel!Init
  <2>1. <<>> \o <<>> = <<>>
    BY EmptySeq, ConcatEmptySeq
  <2> QED
    BY SMTT(30), <2>1 DEF Init, Channel!Init
<1>2. IInv /\ [Next]_vars => [Channel!Next]_<<queue_downlink \o todo, sent>>
  <2> SUFFICES ASSUME IInv, [Next]_vars
               PROVE  [Channel!Next]_<<queue_downlink \o todo, sent>>
    OBVIOUS
  <2>1. queue_downlink \in Seq(Payloads) /\ todo \in Seq(Payloads)
    BY DEF IInv, TypeOK
  <2>2. ASSUME NEW ps \in Seq(Payloads), InLoop, Take(ps)
        PROVE  Channel!Accept
    <3>1. todo = <<>> /\ queue_downlink \o todo = queue_downlink
      BY <2>1, <2>2, ConcatEmptySeq DEF IInv, InLoop
    <3>2. queue_downlink' = queue_downlink /\ todo' = ps /\ sent' = sent
      BY SMTT(30), <2>2 DEF Take
    <3>3. /\ queue_downlink \o ps \in Seq(Payloads)
          /\ Len(queue_downlink \o ps) >= Len(queue_downlink)
          /\ SubSeq(queue_downlink \o ps, 1, Len(queue_downlink)) = queue_downlink
      BY <2>1, ConcatProperties, LenProperties, SubSeqOfConcat1, SubSeqFull
    <3> QED
      BY SMTT(30), <3>1, <3>2, <3>3 DEF Channel!Accept
  <2>3. CASE \E p \in Payloads : OnMessageTxpk(p)
    <3>1. PICK p \in Payloads : OnMessageTxpk(p)
      BY <2>3
    <3>2. <<p>> \in Seq(Payloads)
      OBVIOUS
    <3> QED
      BY Zenon, <2>2, <3>1, <3>2 DEF OnMessageTxpk, Channel!Next
  <2>4. CASE \E gwid \in GatewayIds, items \in ItemLists : OnMessageItems(gwid, items)
    <3>1. PICK gwid \in GatewayIds, items \in ItemLists : OnMessageItems(gwid, items)
      BY <2>4
    <3>2. CASE gwid # EncodedEui \/ gwid # TestId
      BY <3>1, <3>2 DEF OnMessageItems, downlinkVars
    <3>3. CASE ~(gwid # EncodedEui \/ gwid # TestId)
      BY SMTT(30), <2>2, <3>1, <3>3, PayloadAssumption DEF OnMessageItems, Channel!Next
    <3> QED
      BY SMTT(30), <3>2, <3>3
  <2>5. CASE Push
    <3>1. /\ todo # <<>>
          /\ queue_downlink' = Append(queue_downlink, Head(todo))
          /\ todo' = Tail(todo)
      BY <2>5 DEF IInv, Push
    <3>2. queue_downlink' \o todo' = queue_downlink \o todo
      BY SMTT(30), <2>1, <3>1, MoveHead
    <3> QED
      BY Zenon, <2>5, <3>2 DEF Push
  <2>6. CASE PullResp
    <3>1. /\ queue_downlink # <<>> /\ queue_downlink' = Tail(queue_downlink)
          /\ todo' = todo /\ sent' = Append(sent, Head(queue_downlink))
      BY <2>6 DEF PullResp
    <3>2. /\ queue_downlink \o todo # <<>>
          /\ Head(queue_downlink \o todo) = Head(queue_downlink)
          /\ Tail(queue_downlink \o todo) = Tail(queue_downlink) \o todo
      BY SMTT(30), <2>1, <3>1, PopConcat
    <3> QED
      BY SMTT(30), <3>1, <3>2 DEF Channel!Next, Channel!Deliver
  <2>7. CASE \/ Main \/ SignalCb \/ Exit \/ OnConnect \/ OnSubscribe \/ OnDisconnect \/ OnMessageIdThrows
             \/ PushLock \/ PullData \/ PullLock \/ PullAck \/ PullReported
             \/ PullThrew \/ Exited \/ UNCHANGED vars
    BY SMTT(30), <2>7 DEF Main, SignalCb, Exit, OnConnect, OnSubscribe, OnDisconnect, OnMessageIdThrows,
                PushLock, PullData, PullLock, PullAck, PullReported, PullThrew,
                Exited, vars, downlinkVars
  <2> QED
    BY SMTT(30), <2>3, <2>4, <2>5, <2>6, <2>7 DEF Next, MqttNext, UdpNext
<1> QED
  BY <1>1, <1>2, InitInv, NextInv, PTL DEF Spec, ChannelSpec, Channel!Spec

-----------------------------------------------------------------------------
(***************************************************************************)
(* The way up, for any packets and any number of datagrams.  What waits in *)
(* json_pub is the last writer of each field of the datagram at hand, and  *)
(* the events are the packets to be published up to the place of the loop. *)
(***************************************************************************)
Datagram == [body: U!PushBodies, pkts: Seq(Packets)]
Name == Nat \X Nat

UpTypes ==
  /\ pc \in {"dispatch", "parse", "rxpk"} /\ at \in Nat
  /\ log \in Seq(Datagram)
  /\ json_pub \in [U!Fields -> Name]
  /\ events \in Seq(Name \X [U!Fields -> Name])

Looping ==
  /\ pc # "dispatch" => Len(log) > 0
  /\ pc = "parse" => at = 0
  /\ pc = "rxpk" =>
       /\ ~ U!BodyThrows /\ at <= Len(U!rxpk)
       /\ \A j \in 1..at : ~ U!Throws(U!rxpk[j])
       /\ \A f \in U!Fields : json_pub[f] = U!FieldOwner(<<Len(log), at>>, f)

\* The loop has been at the packet i of the datagram d.
Visited(d, i) == d = Len(log) => pc = "dispatch" \/ (pc = "rxpk" /\ i <= at)

Named(k, d, i) == events[k][1] = <<d, i>>

UpInv ==
  /\ UpTypes /\ Looping
  /\ \A k \in 1..Len(events) : \E d \in 1..Len(log) : \E i \in U!ToPublish(d) :
       Named(k, d, i) /\ Visited(d, i)
  /\ \A d \in 1..Len(log) : \A i \in U!ToPublish(d) :
       Visited(d, i) => \E k \in 1..Len(events) : Named(k, d, i)
  /\ \A j, k \in 1..Len(events) : j < k => U!Before(events[j][1], events[k][1])
  /\ U!FieldsOfItsDatagram

\* Where nothing has been read yet, the invariant holds.
LEMMA UpBegins == U!Init => UpInv
<1> SUFFICES ASSUME U!Init PROVE UpInv
  OBVIOUS
<1>1. Len(log) = 0 /\ Len(events) = 0 /\ log \in Seq(Datagram)
      /\ events \in Seq(Name \X [U!Fields -> Name])
  BY DEF U!Init
<1>2. json_pub \in [U!Fields -> Name]
  BY SMTT(30) DEF U!Init, U!Empty, U!Nobody, Name
<1> QED
  BY SMTT(30), <1>1, <1>2 DEF UpInv, UpTypes, Looping, U!Init, U!FieldsOfItsDatagram

\* The last datagram is the one at hand.
LEMMA AtHand ==
  ASSUME UpTypes, Len(log) > 0
  PROVE  /\ log[Len(log)] \in Datagram
         /\ U!body = log[Len(log)].body /\ U!rxpk = log[Len(log)].pkts
         /\ U!rxpk \in Seq(Packets)
<1>1. log[Len(log)] \in Datagram
  BY DEF UpTypes
<1> QED
  BY <1>1 DEF Datagram, U!body, U!rxpk

\* What a datagram still holds decides what is to be published of it and
\* whose value a field holds.
LEMMA SameDatagram ==
  ASSUME NEW d, log'[d] = log[d]
  PROVE  /\ U!ToPublish(d)' = U!ToPublish(d)
         /\ \A i, f : U!FieldOwner(<<d, i>>, f)' = U!FieldOwner(<<d, i>>, f)
<1>1. U!ToPublish(d)' = U!ToPublish(d)
  BY DEF U!ToPublish
<1>2. ASSUME NEW i, NEW f PROVE U!FieldOwner(<<d, i>>, f)' = U!FieldOwner(<<d, i>>, f)
  <2>1. <<d, i>>[1] = d /\ <<d, i>>[2] = i
    OBVIOUS
  <2> QED
    BY <2>1, Zenon DEF U!FieldOwner
<1> QED
  BY SMTT(30), <1>1, <1>2

\* Events that stay keep their fields when their datagrams stay.
LEMMA SameEvents ==
  ASSUME UpInv, events' = events, \A d \in 1..Len(log) : log'[d] = log[d]
  PROVE  U!FieldsOfItsDatagram'
<1> SUFFICES ASSUME NEW k \in DOMAIN events, NEW f \in U!Fields
             PROVE  events[k][2][f] = U!FieldOwner(events[k][1], f)'
  BY DEF U!FieldsOfItsDatagram
<1>1. k \in 1..Len(events)
  BY SMTT(30) DEF UpInv, UpTypes
<1>2. PICK d \in 1..Len(log) : \E i \in U!ToPublish(d) : events[k][1] = <<d, i>>
  BY <1>1, Zenon DEF UpInv, Named
<1>3. PICK i \in U!ToPublish(d) : events[k][1] = <<d, i>>
  BY <1>2
<1>4. U!FieldOwner(<<d, i>>, f)' = U!FieldOwner(<<d, i>>, f)
  BY SameDatagram
<1>5. events[k][2][f] = U!FieldOwner(events[k][1], f)
  BY DEF UpInv, U!FieldsOfItsDatagram
<1> QED
  BY <1>3, <1>4, <1>5

\* read_cb takes the next datagram: it has been visited nowhere.
LEMMA UpPushData ==
  ASSUME UpInv, U!PushData
  PROVE  UpInv'
<1>1. PICK b \in U!PushBodies, n \in 0..MaxRxpk : \E pkts \in [1..n -> Packets] :
        log' = Append(log, [body |-> b, pkts |-> pkts])
  BY Zenon DEF U!PushData
<1>2. PICK pkts \in [1..n -> Packets] : log' = Append(log, [body |-> b, pkts |-> pkts])
  BY <1>1, Zenon
<1>3. [body |-> b, pkts |-> pkts] \in Datagram
  <2>1. pkts \in Seq(Packets)
    BY PacketsAssumption
  <2> QED
    BY <2>1 DEF Datagram
<1>4. /\ pc = "dispatch" /\ pc' = "parse" /\ at' = 0 /\ json_pub' = json_pub /\ events' = events
      /\ log \in Seq(Datagram) /\ Len(log) \in Nat
  BY DEF U!PushData, UpInv, UpTypes
<1>5. /\ log' \in Seq(Datagram) /\ Len(log') = Len(log) + 1
      /\ \A d \in 1..Len(log) : log'[d] = log[d]
  BY SMTT(30), <1>2, <1>3, <1>4, AppendProperties
<1>6. \A d \in 1..Len(log) : U!ToPublish(d)' = U!ToPublish(d)
  BY SMTT(30), <1>5, SameDatagram
<1>7. UpTypes'
  BY <1>4, <1>5 DEF UpInv, UpTypes
<1>8. Looping'
  BY SMTT(30), <1>4, <1>5 DEF Looping
<1>9. ASSUME NEW k \in 1..Len(events)
      PROVE  \E d \in 1..Len(log') : \E i \in U!ToPublish(d)' :
               Named(k, d, i)' /\ Visited(d, i)'
  <2>1. PICK d \in 1..Len(log) : \E i \in U!ToPublish(d) : Named(k, d, i) /\ Visited(d, i)
    BY SMTT(30) DEF UpInv
  <2>2. PICK i \in U!ToPublish(d) : Named(k, d, i)
    BY SMTT(30), <2>1
  <2> QED
    BY <1>4, <1>5, <1>6, <2>2 DEF Named, Visited
<1>10. ASSUME NEW d \in 1..Len(log'), NEW i \in U!ToPublish(d)', Visited(d, i)'
       PROVE  \E k \in 1..Len(events) : Named(k, d, i)'
  <2>1. d \in 1..Len(log)
    BY <1>4, <1>5, <1>10 DEF Visited
  <2>2. i \in U!ToPublish(d) /\ Visited(d, i)
    BY <1>4, <1>6, <2>1 DEF Visited
  <2> QED
    BY <1>4, <2>1, <2>2, Zenon DEF UpInv, Named
<1>11. U!FieldsOfItsDatagram'
  BY SMTT(30), <1>4, <1>5, SameEvents
<1>12. \A j, k \in 1..Len(events) : j < k => U!Before(events[j][1], events[k][1])
  BY SMTT(30) DEF UpInv
<1> QED
  BY SMTT(30), <1>4, <1>7, <1>8, <1>9, <1>10, <1>11, <1>12 DEF UpInv

\* A step that leaves the log and the events, and neither adds to nor takes
\* from what has been visited and is to be published.
LEMMA UpSame ==
  ASSUME UpInv, log' = log, events' = events, UpTypes', Looping',
         \A i \in U!ToPublish(Len(log)) : Visited(Len(log), i)' <=> Visited(Len(log), i)
  PROVE  UpInv'
<1>1. \A d : U!ToPublish(d)' = U!ToPublish(d)
  BY SMTT(30), SameDatagram
<1>2. \A d \in 1..Len(log) : \A i \in U!ToPublish(d) : Visited(d, i)' <=> Visited(d, i)
  BY DEF Visited
<1>3. \A k, d, i : Named(k, d, i)' <=> Named(k, d, i)
  BY SMTT(30) DEF Named
<1>4. U!FieldsOfItsDatagram'
  BY SameEvents
<1>5. \A k \in 1..Len(events) : \E d \in 1..Len(log) : \E i \in U!ToPublish(d) :
        Named(k, d, i) /\ Visited(d, i)
  BY SMTT(30) DEF UpInv
<1>6. \A d \in 1..Len(log) : \A i \in U!ToPublish(d) :
        Visited(d, i) => \E k \in 1..Len(events) : Named(k, d, i)
  BY DEF UpInv
<1>7. \A j, k \in 1..Len(events) : j < k => U!Before(events[j][1], events[k][1])
  BY SMTT(30) DEF UpInv
<1>8. \A k \in 1..Len(events) : \E d \in 1..Len(log) : \E i \in U!ToPublish(d)' :
        Named(k, d, i)' /\ Visited(d, i)'
  BY <1>1, <1>2, <1>3, <1>5
<1>9. \A d \in 1..Len(log) : \A i \in U!ToPublish(d)' :
        Visited(d, i)' => \E k \in 1..Len(events) : Named(k, d, i)'
  BY SMTT(30), <1>1, <1>2, <1>3, <1>6
<1> QED
  BY <1>4, <1>7, <1>8, <1>9 DEF UpInv

\* The body is good: the loop starts with nothing in json_pub.
LEMMA UpParse ==
  ASSUME UpInv, U!ParsePushData
  PROVE  UpInv'
<1>1. /\ pc = "parse" /\ ~ U!BodyThrows /\ json_pub' = U!Empty /\ pc' = "rxpk"
      /\ log' = log /\ at' = at /\ events' = events
  BY SMTT(30) DEF U!ParsePushData
<1>2. at = 0 /\ Len(log) > 0 /\ UpTypes
  BY <1>1 DEF UpInv, Looping
<1>3. UpTypes'
  <2>1. U!Empty \in [U!Fields -> Name]
    BY DEF U!Empty, U!Nobody, Name
  <2> QED
    BY SMTT(30), <1>1, <1>2, <2>1 DEF UpTypes
<1>4. \A f \in U!Fields : U!Empty[f] = U!FieldOwner(<<Len(log), 0>>, f)
  BY SMTT(30) DEF U!Empty, U!FieldOwner
<1>5. Len(U!rxpk) >= 0
  BY <1>2, AtHand
<1>6. ~ U!BodyThrows' /\ U!rxpk' = U!rxpk
  BY SMTT(30), <1>1 DEF U!BodyThrows, U!body, U!rxpk
<1>7. \A f \in U!Fields : U!FieldOwner(<<Len(log), 0>>, f)' = U!FieldOwner(<<Len(log), 0>>, f)
  BY <1>1 DEF U!FieldOwner
<1>8. Looping'
  BY SMTT(30), <1>1, <1>2, <1>4, <1>5, <1>6, <1>7 DEF Looping
<1>9. \A i \in U!ToPublish(Len(log)) : Visited(Len(log), i)' <=> Visited(Len(log), i)
  <2>1. \A i \in U!ToPublish(Len(log)) : i \in Nat /\ i > 0
    BY SMTT(30), <1>2, AtHand DEF U!ToPublish
  <2> QED
    BY SMTT(30), <1>1, <1>2, <2>1 DEF Visited
<1> QED
  BY SMTT(30), <1>1, <1>3, <1>8, <1>9, UpSame

\* The body throws: it has nothing to be published.
LEMMA UpParseThrows ==
  ASSUME UpInv, U!ParseThrows
  PROVE  UpInv'
<1>1. /\ pc = "parse" /\ U!BodyThrows /\ pc' = "dispatch"
      /\ UNCHANGED <<log, at, json_pub, events>>
  BY SMTT(30) DEF U!ParseThrows
<1>2. UpTypes /\ Len(log) > 0
  BY <1>1 DEF UpInv, Looping
<1>3. U!ToPublish(Len(log)) = {}
  BY SMTT(30), <1>1, <1>2, AtHand DEF U!ToPublish, U!BodyThrows
<1>4. UpTypes' /\ Looping'
  BY <1>1, <1>2 DEF UpTypes, Looping
<1> QED
  BY <1>1, <1>3, <1>4, UpSame

\* The loop leaves: behind its place nothing is to be published.
LEMMA UpDone ==
  ASSUME UpInv, U!RxpkDone
  PROVE  UpInv'
<1>1. /\ pc = "rxpk" /\ pc' = "dispatch" /\ (at < Len(U!rxpk) => U!Throws(U!rxpk[at + 1]))
      /\ UNCHANGED <<log, at, json_pub, events>>
  BY DEF U!RxpkDone
<1>2. UpTypes /\ Len(log) > 0 /\ at <= Len(U!rxpk) /\ at \in Nat
  BY SMTT(30), <1>1 DEF UpInv, Looping, UpTypes
<1>3. ASSUME NEW i \in U!ToPublish(Len(log)) PROVE i <= at
  <2>1. /\ i \in 1..Len(U!rxpk) /\ \A j \in 1..i : ~ U!Throws(U!rxpk[j])
    BY SMTT(30), <1>2, <1>3, AtHand DEF U!ToPublish
  <2>2. Len(U!rxpk) \in Nat
    BY <1>2, AtHand
  <2> QED
    BY <1>1, <1>2, <2>1, <2>2
<1>4. UpTypes' /\ Looping'
  BY SMTT(30), <1>1, <1>2 DEF UpTypes, Looping
<1>5. \A i \in U!ToPublish(Len(log)) : Visited(Len(log), i)' <=> Visited(Len(log), i)
  BY <1>1, <1>3 DEF Visited
<1> QED
  BY SMTT(30), <1>1, <1>4, <1>5, UpSame

\* A packet takes over the fields that it has, and leaves the others.
LEMMA FillOwns ==
  ASSUME UpInv, pc = "rxpk", at < Len(U!rxpk), NEW f \in U!Fields
  PROVE  U!Fill(U!rxpk[at + 1])[f] = U!FieldOwner(<<Len(log), at + 1>>, f)
<1> DEFINE d == Len(log)
           W(n) == {i \in 1..n : f \in U!Written(log[d].pkts[i])}
<1>1. UpTypes /\ d > 0 /\ at \in Nat /\ json_pub[f] = U!FieldOwner(<<d, at>>, f)
  BY Zenon DEF UpInv, Looping, UpTypes
<1>2. U!rxpk = log[d].pkts
  BY <1>1, AtHand
<1>3. \A n : U!FieldOwner(<<d, n>>, f) = IF W(n) = {} THEN U!Nobody ELSE <<d, U!Max(W(n))>>
  BY Zenon DEF U!FieldOwner
<1>4. U!Fill(U!rxpk[at + 1])[f] = IF f \in U!Written(U!rxpk[at + 1]) THEN <<d, at + 1>>
                                                                    ELSE json_pub[f]
  BY SMTT(30) DEF U!Fill
<1>5. CASE f \in U!Written(U!rxpk[at + 1])
  <2>1. at + 1 \in W(at + 1) /\ \A y \in W(at + 1) : y \in Nat /\ at + 1 >= y
    BY SMTT(30), <1>1, <1>2, <1>5
  <2> HIDE DEF W
  <2>2. U!Max(W(at + 1)) = at + 1
    BY SMTT(30), <1>1, <2>1 DEF U!Max
  <2> QED
    BY SMTT(30), <1>3, <1>4, <1>5, <2>1, <2>2
<1>6. CASE f \notin U!Written(U!rxpk[at + 1])
  <2>1. W(at + 1) = W(at)
    BY <1>1, <1>2, <1>6
  <2> QED
    BY <1>1, <1>3, <1>4, <1>6, <2>1, Zenon
<1> QED
  BY SMTT(30), <1>5, <1>6

\* One turn of the loop.
LEMMA UpVisit ==
  ASSUME UpInv, U!VisitRxpk
  PROVE  UpInv'
<1> DEFINE d == Len(log)
           p == U!rxpk[at + 1]
<1>1. /\ pc = "rxpk" /\ pc' = "rxpk" /\ at < Len(U!rxpk) /\ at' = at + 1 /\ log' = log
      /\ ~ U!Throws(p) /\ json_pub' = U!Fill(p)
      /\ events' = IF U!Publishable(p) THEN Append(events, <<<<d, at + 1>>, U!Fill(p)>>)
                                       ELSE events
  BY SMTT(30) DEF U!VisitRxpk
<1>2. /\ UpTypes /\ d \in Nat /\ d > 0 /\ at \in Nat /\ Len(U!rxpk) \in Nat
      /\ U!rxpk = log[d].pkts /\ U!rxpk \in Seq(Packets)
      /\ log[d].body \notin {"malformed", "stat_throws"}
      /\ \A j \in 1..at : ~ U!Throws(U!rxpk[j])
  BY <1>1, AtHand DEF UpInv, Looping, UpTypes, U!BodyThrows
<1>3. U!Fill(p) \in [U!Fields -> Name]
  BY SMTT(30), <1>2 DEF U!Fill, UpTypes, Name
<1>4. Looping'
  <2>1. U!rxpk' = U!rxpk /\ U!BodyThrows' = U!BodyThrows
    BY SMTT(30), <1>1 DEF U!rxpk, U!BodyThrows, U!body
  <2>2. \A f \in U!Fields : U!FieldOwner(<<d, at + 1>>, f)' = U!FieldOwner(<<d, at + 1>>, f)'
    OBVIOUS
  <2>3. \A f \in U!Fields : json_pub'[f] = U!FieldOwner(<<d, at + 1>>, f)
    BY SMTT(30), <1>1, FillOwns
  <2>4. \A f \in U!Fields : U!FieldOwner(<<Len(log), at>>, f)' = U!FieldOwner(<<d, at + 1>>, f)
    BY SMTT(30), <1>1 DEF U!FieldOwner
  <2>5. \A j \in 1..(at + 1) : ~ U!Throws(U!rxpk[j])
    BY SMTT(30), <1>1, <1>2
  <2>6. ~ U!BodyThrows
    BY SMTT(30), <1>1 DEF UpInv, Looping
  <2> QED
    BY SMTT(30), <1>1, <1>2, <2>1, <2>3, <2>4, <2>5, <2>6 DEF Looping
<1>5. at + 1 \in U!ToPublish(d) <=> U!Publishable(p)
  BY SMTT(30), <1>1, <1>2 DEF U!ToPublish
<1>6. \A i \in U!ToPublish(d) : i \in Nat
  BY SMTT(30), <1>2 DEF U!ToPublish
<1> HIDE DEF p
<1>7. CASE ~ U!Publishable(p)
  <2>1. UpTypes' /\ events' = events
    BY SMTT(30), <1>1, <1>2, <1>3, <1>7 DEF UpTypes
  <2>2. \A i \in U!ToPublish(Len(log)) : Visited(Len(log), i)' <=> Visited(Len(log), i)
    BY SMTT(30), <1>1, <1>2, <1>5, <1>6, <1>7 DEF Visited
  <2> QED
    BY <1>1, <1>4, <2>1, <2>2, UpSame
<1>8. CASE U!Publishable(p)
  <2> DEFINE e == <<<<d, at + 1>>, U!Fill(p)>>
             last == Len(events) + 1
  <2>1. events \in Seq(Name \X [U!Fields -> Name]) /\ Len(events) \in Nat
    BY SMTT(30), <1>2 DEF UpTypes
  <2>2. e \in Name \X [U!Fields -> Name]
    BY <1>2, <1>3 DEF Name
  <2>3. e[1] = <<d, at + 1>> /\ e[2] = U!Fill(p)
    BY SMTT(30)
  <2>4. events' = Append(events, e)
    BY SMTT(30), <1>1, <1>8
  <2> HIDE DEF e
  <2>5. /\ events' \in Seq(Name \X [U!Fields -> Name]) /\ Len(events') = last
        /\ \A k \in 1..Len(events) : events'[k] = events[k]
        /\ events'[last] = e /\ DOMAIN events' = 1..last
    BY SMTT(30), <2>1, <2>2, <2>4, AppendProperties
  <2>6. UpTypes'
    BY SMTT(30), <1>1, <1>2, <1>3, <2>5 DEF UpTypes
  <2>7. \A x : U!ToPublish(x)' = U!ToPublish(x)
    BY SMTT(30), <1>1, SameDatagram
  <2>8. \A x, i : i \in Nat /\ Visited(x, i) => Visited(x, i)'
    BY <1>1, <1>2 DEF Visited
  <2>9. ASSUME NEW k \in 1..last
        PROVE  \E x \in 1..d : \E i \in U!ToPublish(x) : Named(k, x, i)' /\ Visited(x, i)'
    <3>1. CASE k \in 1..Len(events)
      <4>1. PICK x \in 1..d : \E i \in U!ToPublish(x) : Named(k, x, i) /\ Visited(x, i)
        BY SMTT(30), <3>1 DEF UpInv
      <4>2. PICK i \in U!ToPublish(x) : Named(k, x, i) /\ Visited(x, i)
        BY <4>1
      <4>3. Visited(x, i)'
        BY SMTT(30), <1>1, <1>2, <1>6, <4>2 DEF Visited
      <4> QED
        BY SMTT(30), <2>5, <3>1, <4>2, <4>3 DEF Named
    <3>2. CASE k = last
      <4>1. PICK n \in Nat : n = at + 1
        BY SMTT(30), <1>2
      <4>5. PICK x \in 1..d : x = d
        BY <1>2
      <4>2. n \in U!ToPublish(x)
        BY SMTT(30), <1>5, <1>8, <4>1, <4>5
      <4>3. Named(k, x, n)'
        BY SMTT(30), <2>3, <2>5, <3>2, <4>1, <4>5 DEF Named
      <4>4. Visited(x, n)'
        BY SMTT(30), <1>1, <1>2, <4>1, <4>5 DEF Visited
      <4> QED
        BY SMTT(30), <4>2, <4>3, <4>4
    <3> QED
      BY SMTT(30), <2>1, <3>1, <3>2
  <2>10. ASSUME NEW x \in 1..d, NEW i \in U!ToPublish(x), Visited(x, i)'
         PROVE  \E k \in 1..last : Named(k, x, i)'
    <3>1. CASE Visited(x, i)
      <4>1. PICK k \in 1..Len(events) : Named(k, x, i)
        BY SMTT(30), <3>1 DEF UpInv
      <4>2. k \in 1..last /\ events'[k] = events[k]
        BY <2>1, <2>5
      <4>3. Named(k, x, i)'
        BY SMTT(30), <4>1, <4>2 DEF Named
      <4> HIDE DEF last
      <4> QED
        BY <4>2, <4>3
    <3>2. CASE ~ Visited(x, i)
      <4>1. x = d /\ i = at + 1
        BY SMTT(30), <1>1, <1>2, <1>6, <2>10, <3>2 DEF Visited
      <4> QED
        BY SMTT(30), <2>1, <2>3, <2>5, <4>1 DEF Named
    <3> QED
      BY SMTT(30), <3>1, <3>2
  <2>11. ASSUME NEW j \in 1..last, NEW k \in 1..last, j < k
         PROVE  U!Before(events'[j][1], events'[k][1])
    <3>1. CASE k \in 1..Len(events)
      <4>1. j \in 1..Len(events)
        BY <2>1, <2>11, <3>1
      <4>2. events'[j] = events[j] /\ events'[k] = events[k]
        BY SMTT(30), <2>5, <3>1, <4>1
      <4>3. U!Before(events[j][1], events[k][1])
        BY SMTT(30), <2>11, <3>1, <4>1 DEF UpInv
      <4> QED
        BY SMTT(30), <4>2, <4>3
    <3>2. CASE k = last
      <4>1. j \in 1..Len(events)
        BY <2>1, <2>11, <3>2
      <4>2. PICK x \in 1..d : \E i \in U!ToPublish(x) : Named(j, x, i) /\ Visited(x, i)
        BY SMTT(30), <4>1 DEF UpInv
      <4>3. PICK i \in U!ToPublish(x) : Named(j, x, i) /\ Visited(x, i)
        BY SMTT(30), <4>2
      <4>4. x < d \/ (x = d /\ i < at + 1)
        BY SMTT(30), <1>1, <1>2, <1>6, <4>3 DEF Visited
      <4>5. events'[j][1] = <<x, i>> /\ events'[k][1] = <<d, at + 1>>
        BY SMTT(30), <2>3, <2>5, <3>2, <4>1, <4>3 DEF Named
      <4> QED
        BY SMTT(30), <4>4, <4>5 DEF U!Before
    <3> QED
      BY SMTT(30), <2>1, <3>1, <3>2
  <2>12. ASSUME NEW k \in 1..last, NEW f \in U!Fields
         PROVE  events'[k][2][f] = U!FieldOwner(events'[k][1], f)
    <3>1. CASE k \in 1..Len(events)
      <4>1. events'[k] = events[k] /\ k \in DOMAIN events
        BY SMTT(30), <2>1, <2>5, <3>1
      <4>2. events[k][2][f] = U!FieldOwner(events[k][1], f)
        BY SMTT(30), <4>1 DEF UpInv, U!FieldsOfItsDatagram
      <4> QED
        BY SMTT(30), <4>1, <4>2
    <3>2. CASE k = last
      <4>1. U!Fill(p)[f] = U!FieldOwner(<<d, at + 1>>, f)
        BY <1>1, FillOwns, Zenon DEF p
      <4>2. events'[k][1] = <<d, at + 1>> /\ events'[k][2] = U!Fill(p)
        BY <2>3, <2>5, <3>2
      <4> QED
        BY SMTT(30), <4>1, <4>2
    <3> QED
      BY SMTT(30), <2>1, <3>1, <3>2
  <2>13. U!FieldsOfItsDatagram'
    <3> SUFFICES ASSUME NEW k \in 1..last, NEW f \in U!Fields
                 PROVE  events'[k][2][f] = U!FieldOwner(events[k][1], f)'
      BY SMTT(30), <2>5 DEF U!FieldsOfItsDatagram
    <3>1. PICK n : n = events'[k][1]
      BY SMTT(30)
    <3>2. U!FieldOwner(n, f)' = U!FieldOwner(n, f)
      BY SMTT(30), <1>1 DEF U!FieldOwner
    <3>3. events'[k][2][f] = U!FieldOwner(n, f)
      BY <2>12, <3>1
    <3> QED
      BY SMTT(30), <3>1, <3>2, <3>3
  <2>14. \A x \in 1..d : \A i \in U!ToPublish(x) :
           Visited(x, i)' => \E k \in 1..last : Named(k, x, i)'
    BY SMTT(30), <2>10
  <2>15. \A j, k \in 1..last : j < k => U!Before(events'[j][1], events'[k][1])
    BY <2>11
  <2> QED
    BY <1>1, <1>4, <2>5, <2>6, <2>7, <2>9, <2>13, <2>14, <2>15, Zenon DEF UpInv
<1> QED
  BY <1>7, <1>8

\* Every step of the way up keeps the invariant; the way down does not touch it.
LEMMA UpNext == UpInv /\ [NextOne]_allVars => UpInv'
<1> SUFFICES ASSUME UpInv, [NextOne]_allVars PROVE UpInv'
  OBVIOUS
<1>1. ASSUME UNCHANGED <<pc, log, at, json_pub, events>> PROVE UpInv'
  <2>1. UpTypes' /\ Looping'
    BY <1>1, Zenon DEF UpInv, UpTypes, Looping, U!BodyThrows, U!body, U!rxpk, U!FieldOwner
  <2>2. \A i : Visited(Len(log), i)' <=> Visited(Len(log), i)
    BY <1>1 DEF Visited
  <2> QED
    BY <1>1, <2>1, <2>2, UpSame
<1>2. CASE Down(Next) \/ AllSent \/ UNCHANGED allVars
  BY <1>1, <1>2, Zenon DEF Down, AllSent, allVars
<1>3. CASE Up(U!Next)
  <2>1. U!Next
    BY SMTT(30), <1>3 DEF Up
  <2>2. CASE U!TxAck
    BY <1>1, <2>2 DEF U!TxAck
  <2> QED
    BY <2>1, <2>2, UpPushData, UpParse, UpParseThrows, UpVisit, UpDone DEF U!Next
<1> QED
  BY SMTT(30), <1>2, <1>3 DEF NextOne

LEMMA UpInvariant == SpecOne => []UpInv
<1>1. InitOne => UpInv
  BY SMTT(30), UpBegins DEF InitOne
<1> QED
  BY <1>1, UpNext, PTL DEF SpecOne

\* Every packet of every datagram that can be published is, once and in the
\* order of arrival, for packets of any shape: neither a packet of the wrong
\* form nor an exception costs another packet its event.
THEOREM PacketsPublishedOnce == SpecOne => []EachPacketOnce
<1>1. ASSUME UpInv PROVE EachPacketOnce
  <2> SUFFICES ASSUME pc = "dispatch" PROVE
        /\ {events[k][1] : k \in DOMAIN events} =
             UNION {{<<d, i>> : i \in U!ToPublish(d)} : d \in DOMAIN log}
        /\ \A j, k \in DOMAIN events : j < k => U!Before(events[j][1], events[k][1])
    BY SMTT(30) DEF EachPacketOnce, U!EachPacketOnce
  <2>1. DOMAIN events = 1..Len(events) /\ DOMAIN log = 1..Len(log)
    BY SMTT(30), <1>1 DEF UpInv, UpTypes
  <2>2. \A k \in 1..Len(events) : \E d \in 1..Len(log) : \E i \in U!ToPublish(d) :
          events[k][1] = <<d, i>>
    BY <1>1, Zenon DEF UpInv, Named
  <2>3. \A d \in 1..Len(log) : \A i \in U!ToPublish(d) :
          \E k \in 1..Len(events) : events[k][1] = <<d, i>>
    BY SMTT(30), <1>1 DEF UpInv, Named, Visited
  <2>4. \A j, k \in 1..Len(events) : j < k => U!Before(events[j][1], events[k][1])
    BY <1>1 DEF UpInv
  <2>5. {events[k][1] : k \in DOMAIN events} =
             UNION {{<<d, i>> : i \in U!ToPublish(d)} : d \in DOMAIN log}
    <3>1. ASSUME NEW k \in 1..Len(events)
          PROVE  events[k][1] \in UNION {{<<d, i>> : i \in U!ToPublish(d)} : d \in 1..Len(log)}
      <4>1. PICK d \in 1..Len(log) : \E i \in U!ToPublish(d) : events[k][1] = <<d, i>>
        BY <2>2
      <4>2. events[k][1] \in {<<d, i>> : i \in U!ToPublish(d)}
        BY SMTT(30), <4>1
      <4> QED
        BY SMTT(30), <4>2
    <3>2. ASSUME NEW d \in 1..Len(log), NEW i \in U!ToPublish(d)
          PROVE  <<d, i>> \in {events[k][1] : k \in 1..Len(events)}
      BY <2>3, Zenon
    <3>3. {events[k][1] : k \in 1..Len(events)} \subseteq
            UNION {{<<d, i>> : i \in U!ToPublish(d)} : d \in 1..Len(log)}
      BY <3>1
    <3>4. UNION {{<<d, i>> : i \in U!ToPublish(d)} : d \in 1..Len(log)} \subseteq
            {events[k][1] : k \in 1..Len(events)}
      <4> SUFFICES ASSUME NEW n \in UNION {{<<d, i>> : i \in U!ToPublish(d)} : d \in 1..Len(log)}
                   PROVE  n \in {events[k][1] : k \in 1..Len(events)}
        OBVIOUS
      <4>1. PICK d \in 1..Len(log) : n \in {<<d, i>> : i \in U!ToPublish(d)}
        OBVIOUS
      <4>2. PICK i \in U!ToPublish(d) : n = <<d, i>>
        BY SMTT(30), <4>1
      <4> QED
        BY <3>2, <4>2, Zenon
    <3> QED
      BY <2>1, <3>3, <3>4, Zenon
  <2> QED
    BY SMTT(30), <2>1, <2>4, <2>5
<1> QED
  BY <1>1, UpInvariant, PTL

\* A field of an event is the packet's own, or that of the last packet of the
\* same datagram which had it: json_pub carries nothing from one datagram to
\* the next.
THEOREM FieldsStayInTheDatagram == SpecOne => []FieldsOfItsDatagram
<1>1. UpInv => FieldsOfItsDatagram
  BY DEF UpInv, FieldsOfItsDatagram
<1> QED
  BY <1>1, UpInvariant, PTL

=============================================================================
