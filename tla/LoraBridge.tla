----------------------------- MODULE LoraBridge -----------------------------
(***************************************************************************)
(* lora-gateway-bridge: downlinks arrive from the MQTT broker in the       *)
(* thread that runs mosquitto_loop_forever, wait in queue_downlink under   *)
(* queue_downlink_mutex, and leave in the event-loop thread, one for each  *)
(* PULL_DATA datagram of the packet forwarder.                             *)
(*                                                                         *)
(* A downlink is a payload.  The payloads in Throwing make the event that  *)
(* reports the downlink throw a json exception after it has been sent.     *)
(* Uplinks (PUSH_DATA, TX_ACK) take no lock and touch no state of this     *)
(* module; UplinkPublish has them.                                         *)
(***************************************************************************)
EXTENDS Naturals, Sequences

CONSTANTS Payloads,     \* what a downlink may be
          Throwing,     \* the payloads whose report throws (line 570)
          EncodedEui,   \* base64 of the 16 characters of gateway_eui
          TestId,       \* "0000000000000000"
          OtherId,      \* the identity of another gateway
          ItemLists,    \* the downlinkItems a message may carry
          MaxReceived   \* bound on the downlinks received in a behaviour

ASSUME PayloadAssumption ==
  /\ Throwing \subseteq Payloads
  /\ ItemLists \subseteq Seq(Payloads)

\* base64 turns 16 characters into 24, so no gateway is encoded as TestId.
ASSUME IdAssumption == EncodedEui # TestId

ASSUME BoundAssumption == MaxReceived \in Nat

GatewayIds == {EncodedEui, TestId, OtherId}

VARIABLES
  phase,            \* of the process: "starting", "running", "exited"
  quit,             \* event_base_loopexit was called
  link,             \* the broker connection, as the mosquitto library sees it
  announced,        \* on_disconnect has said that the bridge will exit
  udp,              \* where the event-loop thread is
  mqtt,             \* where the MQTT thread is
  lock,             \* queue_downlink_mutex: its holder or "free"
  queue_downlink,
  downlink_msg,     \* local of response_pkt_pull_data: <<>> or <<payload>>
  todo,             \* what on_message has yet to push
  refused,          \* gateway IDs answered with "Gateway ID  is not correct."
  received,         \* history: downlinks on_message took in, in order
  sent              \* history: downlinks sent to the forwarder, in order

downlinkVars == <<queue_downlink, downlink_msg, todo, received, sent>>
vars == <<phase, quit, link, announced, udp, mqtt, lock, refused, downlinkVars>>

Init ==
  /\ phase = "starting"
  /\ quit = FALSE
  /\ link = "connecting"
  /\ announced = FALSE
  /\ udp = "dispatch"
  /\ mqtt = "loop"
  /\ lock = "free"
  /\ queue_downlink = <<>>
  /\ downlink_msg = <<>>
  /\ todo = <<>>
  /\ refused = {}
  /\ received = <<>>
  /\ sent = <<>>

-----------------------------------------------------------------------------
\* main

\* Every step of the set-up can fail, and then main returns -1.
Main ==
  /\ phase = "starting"
  /\ phase' \in {"running", "exited"}
  /\ UNCHANGED <<quit, link, announced, udp, mqtt, lock, refused, downlinkVars>>

SignalCb ==
  /\ phase = "running" /\ ~quit
  /\ quit' = TRUE
  /\ UNCHANGED <<phase, link, announced, udp, mqtt, lock, refused, downlinkVars>>

\* event_base_dispatch returns between two callbacks; main then destroys the
\* client and returns, whatever the detached MQTT thread is doing.
Exit ==
  /\ phase = "running" /\ quit /\ udp = "dispatch"
  /\ phase' = "exited"
  /\ UNCHANGED <<quit, link, announced, udp, mqtt, lock, refused, downlinkVars>>

-----------------------------------------------------------------------------
\* The MQTT thread: mosquitto_loop_forever and the callbacks it makes

InLoop == phase = "running" /\ mqtt = "loop"

\* A broker that refuses the connection makes the callback disconnect, which
\* ends mosquitto_loop_forever and with it the MQTT thread.
OnConnect ==
  /\ InLoop /\ link = "connecting"
  /\ link' \in {"connected", "stopped"}
  /\ UNCHANGED <<phase, quit, announced, udp, mqtt, lock, refused, downlinkVars>>

OnSubscribe ==
  /\ InLoop /\ link = "connected"
  /\ link' \in {"subscribed", "stopped"}
  /\ UNCHANGED <<phase, quit, announced, udp, mqtt, lock, refused, downlinkVars>>

\* The callback only prints; mosquitto_loop_forever then reconnects.
OnDisconnect ==
  /\ InLoop /\ link \in {"connected", "subscribed"}
  /\ link' = "connecting"
  /\ announced' = TRUE
  /\ UNCHANGED <<phase, quit, udp, mqtt, lock, refused, downlinkVars>>

\* on_message takes in ps, the payloads it is going to push one by one.
Take(ps) ==
  /\ Len(received) + Len(ps) <= MaxReceived
  /\ todo' = ps
  /\ received' = received \o ps
  /\ mqtt' = IF ps = <<>> THEN "loop" ELSE "lock"
  /\ UNCHANGED <<phase, quit, link, announced, udp, lock, queue_downlink,
                 downlink_msg, sent>>

\* A message with "txpk" is pushed as it came.
OnMessageTxpk(p) ==
  /\ InLoop /\ link = "subscribed"
  /\ Take(<<p>>)
  /\ UNCHANGED refused

\* A mutant: the guard is right and the gateway ID is pushed instead of an item.
OnMessageItemsPushId(gwid, items) ==
  /\ InLoop /\ link = "subscribed"
  /\ gwid \in {EncodedEui, TestId}
  /\ Take(<<gwid>>)
  /\ UNCHANGED refused

\* parse_remote_downlink_items_json.  items are the items the loop translates
\* and pushes: those before the first one whose modulation is unknown (return)
\* or whose fields throw (catch).
OnMessageItems(gwid, items) ==
  /\ InLoop /\ link = "subscribed"
  /\ IF gwid # EncodedEui \/ gwid # TestId
     THEN /\ refused' = refused \union {gwid}
          /\ UNCHANGED <<phase, quit, link, announced, udp, mqtt, lock, downlinkVars>>
     ELSE /\ Take(items)
          /\ UNCHANGED refused

\* gatewayID is not a string: the exception is raised outside the try block, no
\* caller catches it, and the process is terminated.
OnMessageIdThrows ==
  /\ InLoop /\ link = "subscribed"
  /\ phase' = "exited"
  /\ UNCHANGED <<quit, link, announced, udp, mqtt, lock, refused, downlinkVars>>

PushLock ==
  /\ phase = "running" /\ mqtt = "lock" /\ lock = "free"
  /\ lock' = "mqtt"
  /\ mqtt' = "push"
  /\ UNCHANGED <<phase, quit, link, announced, udp, refused, downlinkVars>>

\* A mutant: the downlink is put in front.
PushFront ==
  /\ phase = "running" /\ mqtt = "push"
  /\ queue_downlink' = <<Head(todo)>> \o queue_downlink
  /\ todo' = Tail(todo)
  /\ lock' = "free"
  /\ mqtt' = IF Len(todo) = 1 THEN "loop" ELSE "lock"
  /\ UNCHANGED <<phase, quit, link, announced, udp, refused, downlink_msg,
                 received, sent>>

\* queue_downlink.push and the unlock after it.
Push ==
  /\ phase = "running" /\ mqtt = "push"
  /\ queue_downlink' = Append(queue_downlink, Head(todo))
  /\ todo' = Tail(todo)
  /\ lock' = "free"
  /\ mqtt' = IF Len(todo) = 1 THEN "loop" ELSE "lock"
  /\ UNCHANGED <<phase, quit, link, announced, udp, refused, downlink_msg,
                 received, sent>>

-----------------------------------------------------------------------------
\* The event-loop thread: read_cb on a PULL_DATA datagram

PullData ==
  /\ phase = "running" /\ udp = "dispatch"
  /\ udp' = "lock"
  /\ UNCHANGED <<phase, quit, link, announced, mqtt, lock, refused, downlinkVars>>

PullLock ==
  /\ phase = "running" /\ udp = "lock" /\ lock = "free"
  /\ lock' = "udp"
  /\ udp' = "serve"
  /\ UNCHANGED <<phase, quit, link, announced, mqtt, refused, downlinkVars>>

\* A mutant: size() > 1 instead of size() > 0, the last downlink stays.
PullAckLast ==
  /\ phase = "running" /\ udp = "serve" /\ Len(queue_downlink) <= 1
  /\ lock' = "free"
  /\ udp' = "dispatch"
  /\ UNCHANGED <<phase, quit, link, announced, mqtt, refused, downlinkVars>>

\* Nothing to send: PULL_ACK.
PullAck ==
  /\ phase = "running" /\ udp = "serve" /\ queue_downlink = <<>>
  /\ lock' = "free"
  /\ udp' = "dispatch"
  /\ UNCHANGED <<phase, quit, link, announced, mqtt, refused, downlinkVars>>

\* A mutant: front without pop.
PullRespNoPop ==
  /\ phase = "running" /\ udp = "serve" /\ queue_downlink # <<>>
  /\ downlink_msg' = <<Head(queue_downlink)>>
  /\ sent' = Append(sent, Head(queue_downlink))
  /\ udp' = "report"
  /\ UNCHANGED <<phase, quit, link, announced, mqtt, lock, refused, queue_downlink, todo,
                 received>>

\* front, pop, and PULL_RESP to the forwarder.
PullResp ==
  /\ phase = "running" /\ udp = "serve" /\ queue_downlink # <<>>
  /\ downlink_msg' = <<Head(queue_downlink)>>
  /\ queue_downlink' = Tail(queue_downlink)
  /\ sent' = Append(sent, Head(queue_downlink))
  /\ udp' = "report"
  /\ UNCHANGED <<phase, quit, link, announced, mqtt, lock, refused, todo, received>>

\* The report goes to the broker and the handler unlocks at its end.
PullReported ==
  /\ phase = "running" /\ udp = "report" /\ downlink_msg[1] \notin Throwing
  /\ lock' = "free"
  /\ udp' = "dispatch"
  /\ downlink_msg' = <<>>
  /\ UNCHANGED <<phase, quit, link, announced, mqtt, refused, queue_downlink,
                 todo, received, sent>>

\* The report throws and the catch block unlocks.
PullThrew ==
  /\ phase = "running" /\ udp = "report" /\ downlink_msg[1] \in Throwing
  /\ lock' = "free"
  /\ udp' = "dispatch"
  /\ downlink_msg' = <<>>
  /\ UNCHANGED <<phase, quit, link, announced, mqtt, refused, queue_downlink,
                 todo, received, sent>>

-----------------------------------------------------------------------------
\* main has returned: the process takes no further step.
Exited == phase = "exited" /\ UNCHANGED vars

MqttNext ==
  \/ OnConnect
  \/ OnSubscribe
  \/ OnDisconnect
  \/ \E p \in Payloads : OnMessageTxpk(p)
  \/ \E gwid \in GatewayIds, items \in ItemLists : OnMessageItems(gwid, items)
  \/ OnMessageIdThrows
  \/ PushLock
  \/ Push

UdpNext ==
  \/ PullData
  \/ PullLock
  \/ PullAck
  \/ PullResp
  \/ PullReported
  \/ PullThrew

Next == Main \/ SignalCb \/ Exit \/ MqttNext \/ UdpNext \/ Exited

\* Each thread that is inside a handler goes on; main gets past its set-up; the
\* forwarder keeps polling (PULL_DATA is its keep-alive);
\* mosquitto_loop_forever keeps reconnecting.  Strong fairness: a thread that
\* waits for a mutex that is free time and again gets it (the polls that compete
\* with it are seconds apart), and event_base_loopexit ends the loop after the
\* callbacks that are already active, however many datagrams still arrive.
Fairness ==
  /\ WF_vars(Main)
  /\ SF_vars(Exit)
  /\ WF_vars(OnConnect)
  /\ SF_vars(PushLock)
  /\ WF_vars(Push)
  /\ WF_vars(UdpNext)

Spec == Init /\ [][Next]_vars
FairSpec == Spec /\ Fairness

-----------------------------------------------------------------------------
TypeOK ==
  /\ phase \in {"starting", "running", "exited"}
  /\ quit \in BOOLEAN
  /\ link \in {"connecting", "connected", "subscribed", "stopped"}
  /\ announced \in BOOLEAN
  /\ udp \in {"dispatch", "lock", "serve", "report"}
  /\ mqtt \in {"loop", "lock", "push"}
  /\ lock \in {"free", "udp", "mqtt"}
  /\ queue_downlink \in Seq(Payloads)
  /\ downlink_msg \in Seq(Payloads)
  /\ todo \in Seq(Payloads)
  /\ refused \subseteq GatewayIds
  /\ received \in Seq(Payloads)
  /\ sent \in Seq(Payloads)

\* The mutex protects: a thread holds it exactly while it is between its lock
\* and its unlock, on every path out of response_pkt_pull_data, the catch
\* block included.
LockDiscipline ==
  /\ lock = "udp" <=> udp \in {"serve", "report"}
  /\ lock = "mqtt" <=> mqtt = "push"

\* Every downlink taken from the broker reaches the forwarder once and in the
\* order of arrival: what has been received is what was sent, then what is
\* queued, then what on_message still has to push, whichever way the pulls of
\* the one thread fall between the pushes of the other.
InOrderExactlyOnce == received = sent \o (queue_downlink \o todo)

\* The two threads together implement a FIFO channel: pushes are internal, a
\* message received extends what waits, and a PULL_RESP delivers its head.
Channel == INSTANCE DownlinkChannel
             WITH waiting <- queue_downlink \o todo, delivered <- sent

\* The bridge refines the channel of DownlinkChannel: it never delivers what
\* was not received, delivers nothing twice and never out of turn.
ChannelSpec == Channel!Spec

\* Every downlink received is sent in the end, unless the process exits: a
\* forwarder that keeps polling drains the queue, also after a report that
\* threw.
DownlinkServed ==
  \A n \in 1..MaxReceived :
    Len(received) >= n ~> (Len(sent) >= n \/ phase = "exited")

\* A message that names this gateway, or the identity the test program
\* bridge-pub-test publishes with, is not refused for its gateway ID.
OwnGatewayIdAccepted == {EncodedEui, TestId} \cap refused = {}

\* "MQTT broker had lost connection, LoRa gateway bridge will exit...": once
\* on_disconnect has said so, the process exits.
DisconnectExits == announced ~> phase = "exited"
=============================================================================
