--------------------------- MODULE UplinkPublish ---------------------------
(***************************************************************************)
(* lora-gateway-bridge, the way up: the event-loop thread takes a datagram *)
(* of the packet forwarder, acknowledges it and publishes the statistics   *)
(* and every radio packet it carries as events of their own.               *)
(*                                                                         *)
(* A packet is named by its place, <<datagram, index>>.  The event under   *)
(* construction, json_pub, is a function from its fields to the packet     *)
(* that last wrote them (Nobody: not there), because what an event can get *)
(* wrong is whose value a field holds.  A running bridge has its topics    *)
(* (lora_bridge_set_mqtt_topic), so the tests for an empty one are true.   *)
(***************************************************************************)
EXTENDS Naturals, Sequences, FiniteSetsExt

CONSTANTS Optional,      \* fields copied only when the packet has them
          Packets,       \* the packets a forwarder may send, of PacketShapes
          MaxDatagrams,  \* bound on the datagrams of a behaviour
          MaxRxpk        \* bound on the packets of a behaviour

Mandatory == {"payload", "frequency", "modulation", "rxinfo"}
DataRate == {"lora", "fsk"}
Fields == Mandatory \cup DataRate \cup Optional

\* What decides the course of a packet: whether freq is a float, whether datr
\* is an integer ("fsk"), a string that matches ("lora") or one that does not,
\* the optional fields it has, and whether its stat is of a type that throws.
PacketShapes == [float: BOOLEAN, datr: DataRate \cup {"bad"},
                 has: SUBSET Optional, throws: BOOLEAN]

\* A PUSH_DATA is not JSON, or has or lacks statistics, which may throw.
\* A TX_ACK is not JSON, or has or lacks the result of a transmission.
PushBodies == {"malformed", "plain", "stat", "stat_throws"}
AckBodies == {"malformed", "plain", "txpk_ack"}

VARIABLES
  pc,        \* the event-loop thread: "dispatch", "parse" or "rxpk"
  log,       \* history: the PUSH_DATA datagrams; the last is in buffer_up
  at,        \* packets visited of the last datagram
  json_pub,
  events,    \* history: <<packet, json_pub>> for every uplink event published
  acks,      \* history: PUSH_ACKs sent
  stats,     \* history: statistics events published
  txacks     \* history: <<TX_ACKs received, events published for them>>

vars == <<pc, log, at, json_pub, events, acks, stats, txacks>>

Nobody == <<0, 0>>
Empty == [f \in Fields |-> Nobody]

Init ==
  /\ pc = "dispatch" /\ log = <<>> /\ at = 0
  /\ json_pub = Empty /\ events = <<>>
  /\ acks = 0 /\ stats = 0 /\ txacks = <<0, 0>>

MoreDatagrams == Len(log) + txacks[1] < MaxDatagrams

body == log[Len(log)].body
rxpk == log[Len(log)].pkts

Arrived == MapThenSumSet(LAMBDA d : Len(log[d].pkts), DOMAIN log)

\* read_cb with PUSH_DATA: the acknowledgement leaves before anything is parsed.
PushData ==
  /\ pc = "dispatch" /\ MoreDatagrams
  /\ \E b \in PushBodies, n \in 0..MaxRxpk : \E pkts \in [1..n -> Packets] :
       /\ Arrived + n <= MaxRxpk
       /\ log' = Append(log, [body |-> b, pkts |-> pkts])
  /\ acks' = acks + 1
  /\ at' = 0
  /\ pc' = "parse"
  /\ UNCHANGED <<json_pub, events, stats, txacks>>

BodyThrows == body \in {"malformed", "stat_throws"}

\* A bug the properties must catch: json_pub with static storage.
ParsePushDataStatic ==
  /\ pc = "parse" /\ ~BodyThrows
  /\ stats' = IF body = "stat" THEN stats + 1 ELSE stats
  /\ pc' = "rxpk"
  /\ UNCHANGED <<log, at, json_pub, events, acks, txacks>>

\* json::parse, then the statistics, which come before the packets.
ParsePushData ==
  /\ pc = "parse" /\ ~BodyThrows
  /\ stats' = IF body = "stat" THEN stats + 1 ELSE stats
  /\ json_pub' = Empty
  /\ pc' = "rxpk"
  /\ UNCHANGED <<log, at, events, acks, txacks>>

ParseThrows ==
  /\ pc = "parse" /\ BodyThrows
  /\ pc' = "dispatch"
  /\ UNCHANGED <<log, at, json_pub, events, acks, stats, txacks>>

\* The fields a packet writes before the loop goes on with the next packet.
Written(p) ==
  {"payload"} \cup
  IF ~p.float THEN {}
  ELSE {"frequency", "modulation"} \cup
       IF p.datr = "bad" THEN {} ELSE {"rxinfo", p.datr} \cup p.has

Publishable(p) == p.float /\ p.datr # "bad"

\* The exception is thrown behind both continue statements.
Throws(p) == Publishable(p) /\ p.throws

Fill(p) ==
  [f \in Fields |-> IF f \in Written(p) THEN <<Len(log), at + 1>> ELSE json_pub[f]]

\* A bug the properties must catch: a bad packet ends the loop (break for
\* continue).
VisitRxpkBreak ==
  /\ pc = "rxpk" /\ at < Len(rxpk)
  /\ LET p == rxpk[at + 1]
     IN /\ ~Throws(p)
        /\ json_pub' = Fill(p)
        /\ events' = IF Publishable(p)
                     THEN Append(events, <<<<Len(log), at + 1>>, Fill(p)>>)
                     ELSE events
        /\ pc' = IF Publishable(p) THEN pc ELSE "dispatch"
  /\ at' = at + 1
  /\ UNCHANGED <<log, acks, stats, txacks>>

\* One packet: json_pub is declared outside the loop and keeps what the
\* packets before it wrote.
VisitRxpk ==
  /\ pc = "rxpk" /\ at < Len(rxpk)
  /\ LET p == rxpk[at + 1]
     IN /\ ~Throws(p)
        /\ json_pub' = Fill(p)
        /\ events' = IF Publishable(p)
                     THEN Append(events, <<<<Len(log), at + 1>>, Fill(p)>>)
                     ELSE events
  /\ at' = at + 1
  /\ UNCHANGED <<pc, log, acks, stats, txacks>>

\* The loop ends at the last packet, or by an exception.
RxpkDone ==
  /\ pc = "rxpk"
  /\ at < Len(rxpk) => Throws(rxpk[at + 1])
  /\ pc' = "dispatch"
  /\ UNCHANGED <<log, at, json_pub, events, acks, stats, txacks>>

\* TX_ACK: no answer; an event if the body parses and says how it went.
TxAck ==
  /\ pc = "dispatch" /\ MoreDatagrams
  /\ \E b \in AckBodies :
       txacks' = <<txacks[1] + 1,
                   txacks[2] + IF b = "txpk_ack" THEN 1 ELSE 0>>
  /\ UNCHANGED <<pc, log, at, json_pub, events, acks, stats>>

Next ==
  \/ PushData \/ ParsePushData \/ ParseThrows
  \/ VisitRxpk \/ RxpkDone \/ TxAck

Spec == Init /\ [][Next]_vars

-----------------------------------------------------------------------------
PacketNames == {Nobody} \cup {<<d, i>> : d \in 1..Len(log), i \in 1..MaxRxpk}

\* Types of the state.
TypeOK ==
  /\ pc \in {"dispatch", "parse", "rxpk"}
  /\ at \in 0..MaxRxpk
  /\ json_pub \in [Fields -> PacketNames]
  /\ \A k \in DOMAIN events : events[k] \in (PacketNames \X [Fields -> PacketNames])

\* The packets of a datagram to be published: those of the right form, if the
\* body is good, in front of the first that throws.
ToPublish(d) ==
  {i \in DOMAIN log[d].pkts :
     /\ log[d].body \notin {"malformed", "stat_throws"}
     /\ Publishable(log[d].pkts[i])
     /\ \A j \in 1..i : ~Throws(log[d].pkts[j])}

\* The packet a came before the packet b.
Before(a, b) == a[1] < b[1] \/ (a[1] = b[1] /\ a[2] < b[2])

\* Every packet that can be published is, once, in the order of its arrival,
\* and nothing else is; a bad packet in front of it changes nothing, and an
\* exception costs only the rest of its own datagram.
EachPacketOnce ==
  pc = "dispatch" =>
    /\ {events[k][1] : k \in DOMAIN events} =
         UNION {{<<d, i>> : i \in ToPublish(d)} : d \in DOMAIN log}
    /\ \A j, k \in DOMAIN events : j < k => Before(events[j][1], events[k][1])

\* Whose value a field of an event holds: the packet's own if it has the
\* field, and otherwise that of the last packet of the same datagram that had
\* it.  Nothing passes from one datagram to the next.
FieldOwner(name, f) ==
  LET d == name[1]
      writers == {i \in 1..name[2] : f \in Written(log[d].pkts[i])}
  IN IF writers = {} THEN Nobody ELSE <<d, Max(writers)>>

FieldsOfItsDatagram ==
  \A k \in DOMAIN events : \A f \in Fields :
    events[k][2][f] = FieldOwner(events[k][1], f)

\* What the comments say of two fields of an event: modemID is "Concentrator
\* modem ID on which pkt has been received" and FSKDataRate is "FSK datarate":
\* each is in the event of a packet only if that packet has it.
CommentedFields ==
  \A k \in DOMAIN events :
    LET name == events[k][1]
    IN \A f \in {"mid", "fsk"} \cap Fields : events[k][2][f] \in {Nobody, name}

=============================================================================
