---------------------------- MODULE MCLoraBridge ----------------------------
(***************************************************************************)
(* lora-gateway-bridge for TLC: a behaviour is about its downlinks, with   *)
(* two payloads of which one makes its report throw, or about its uplinks, *)
(* with two optional fields and one packet for each course the loop can    *)
(* take.  Uplinks and downlinks share the event-loop thread and no data.   *)
(***************************************************************************)
EXTENDS LoraBridge

CONSTANTS Optional, Packets, MaxDatagrams, MaxRxpk

VARIABLES way, pc, log, at, json_pub, events, acks, stats, txacks

MCItemLists == {<<"p1">>, <<"p2", "p1">>}

Pkt(float, datr, has, throws) ==
  [float |-> float, datr |-> datr, has |-> has, throws |-> throws]

MCPackets == {
  Pkt(TRUE, "lora", {"mid"}, FALSE),
  Pkt(TRUE, "fsk", {}, FALSE),
  Pkt(TRUE, "lora", {"time"}, FALSE),
  Pkt(FALSE, "lora", {"mid", "time"}, TRUE),
  Pkt(TRUE, "bad", {"time"}, FALSE),
  Pkt(TRUE, "lora", {"mid"}, TRUE) }

U == INSTANCE UplinkPublish

ASSUME PacketsAssumption == Packets \subseteq U!PacketShapes /\ MaxRxpk \in Nat

allVars == <<way, vars, pc, log, at, json_pub, events, acks, stats, txacks>>

InitOne == way \in {"down", "up"} /\ Init /\ U!Init

Down(Step) ==
  way = "down" /\ Step /\ UNCHANGED <<way, pc, log, at, json_pub, events, acks, stats, txacks>>
Up(Step) == way = "up" /\ Step /\ UNCHANGED <<way, vars>>

\* The forwarder has sent all its datagrams.
AllSent == way = "up" /\ pc = "dispatch" /\ ~ U!MoreDatagrams /\ UNCHANGED allVars

NextOne == Down(Next) \/ Up(U!Next) \/ AllSent

SpecOne == InitOne /\ [][NextOne]_allVars

\* The fairness of LoraBridge.
FairOne ==
  /\ SpecOne
  /\ WF_allVars(Down(Main))
  /\ SF_allVars(Down(Exit))
  /\ WF_allVars(Down(OnConnect))
  /\ SF_allVars(Down(PushLock))
  /\ WF_allVars(Down(Push))
  /\ WF_allVars(Down(UdpNext))

----------------------------------------------------------------------------
\* Every packet that can be published is, once and in order (UplinkPublish).
EachPacketOnce == U!EachPacketOnce

\* A field of an event comes from the packet's own datagram (UplinkPublish).
FieldsOfItsDatagram == U!FieldsOfItsDatagram

=============================================================================
