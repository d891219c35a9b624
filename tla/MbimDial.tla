------------------------------ MODULE MbimDial ------------------------------
(***************************************************************************)
(* A session of quectel-CM over an MBIM modem: the start-up and the        *)
(* requests of mbim-cm.c, command by command, under the loop of DialLoop.  *)
(* The modem's answers and its indications reach the reader thread over    *)
(* one pipe, wire, in order.  An indication becomes an event for the main  *)
(* thread only if it differs from what the main thread last stored         *)
(* (oldReadyState to oldActivationState); an answer is handed over at once *)
(* but stored later, when the main thread runs.                            *)
(*                                                                         *)
(* A command ends with status 0, with an error status or with ETIMEDOUT:   *)
(* the last two are both more than 0 to the caller.                        *)
(***************************************************************************)
EXTENDS DialLoop

CONSTANTS Addresses,   \* what the network gives out
          LeftOver,    \* the addresses an earlier session may have left
          MaxTimeouts, \* bound: commands whose answer is lost or late
          MaxTroubles  \* bound: what the modem, the network and the user do unasked

VARIABLES
  m,         \* the main thread, see DialLoop
  cmd,       \* the command under way, "none"
  sent,      \* it has been written to the device
  resp,      \* mbim_pResponse: the answer handed over, not yet stored
  old,       \* oldRegisterState, oldPacketServiceState, oldActivationState
  wire,      \* from the modem to the reader
  devq,      \* the events of the reader thread
  chan,      \* the device file: open, closing (the reader was told), closed
  modem,     \* the modem
  swallowed, \* history: the kinds of indication that met an answer not stored yet
  assumed,   \* history: the packet service was taken for attached unasked
  late,      \* history: a call had no address yet or got another one, or the session
             \* began with an address of the one before
  timeouts, troubles

vars == <<m, cmd, sent, resp, old, wire, devq, chan, modem, swallowed, assumed, late,
          timeouts, troubles>>

(* The stored states of an earlier session are left as well. *)
None == [status |-> "none", v |-> "none", a |-> 0]
Init ==
  /\ m \in Begins(LeftOver) /\ cmd \in {"PROXY", "OPEN"} /\ sent = FALSE /\ resp = None
  /\ old \in {[reg |-> "unknown", att |-> "unknown", act |-> "unknown"]}
            \cup {[reg |-> "home", att |-> "attached", act |-> s]
                    : s \in IF m.link = -1 THEN {} ELSE {"activated"}}
  /\ wire = <<>> /\ devq = <<>> /\ chan = "open"
  /\ \E up \in BOOLEAN, auth \in {1, 2} :
       modem = [opened |-> FALSE, reg |-> IF up THEN "home" ELSE "deregistered",
                att |-> IF up THEN "attached" ELSE "detached",
                act |-> IF up THEN "activated" ELSE "deactivated",
                addr |-> IF up THEN CHOOSE a \in Addresses : TRUE ELSE 0,
                auth |-> auth, suspended |-> FALSE, gone |-> FALSE]
  /\ swallowed = {} /\ assumed = FALSE /\ late = (m.ip # 0)
  /\ timeouts = 0 /\ troubles = 0

mainVars == <<m, cmd, sent, resp, old, assumed, timeouts>>
history == <<swallowed, assumed, late>>

----------------------------------------------------------------------------
(* The modem. *)

Answer(status, v, a) ==
  [kind |-> "answer", status |-> status, v |-> v, a |-> a, tid |-> timeouts]
Ind(cid, v) == [kind |-> cid, status |-> "none", v |-> v, a |-> 0, tid |-> 0]

(* What the modem makes of a command: its new state and what it answers.   *)
Obeys(c) ==
  LET refused == {[modem |-> modem, answer |-> Answer("error", "none", 0)]}
      says(v) == {[modem |-> modem, answer |-> Answer("ok", v, 0)]}
  IN
  CASE modem.gone -> refused
    [] c = "OPEN" -> {[modem |-> [modem EXCEPT !.opened = TRUE], answer |-> Answer("ok", "none", 0)]}
    [] c = "PROXY" -> says("none")
    [] ~modem.opened \/ modem.suspended -> refused
    [] c = "CLOSE" ->
         {[modem |-> [modem EXCEPT !.opened = FALSE, !.act = "deactivated", !.addr = 0],
           answer |-> Answer("ok", "none", 0)]}
    [] c = "REGISTER?" -> says(modem.reg)
    [] c = "PACKET?" -> says(modem.att)
    [] c = "CONNECT?" -> says(modem.act)
    [] c = "PACKET=attach" /\ modem.reg = "home" ->
         {[modem |-> [modem EXCEPT !.att = "attached"], answer |-> Answer("ok", s, 0)]
            : s \in {"attached", "attaching"}}
    [] c = "CONNECT=1" /\ modem.att = "attached" /\ m.auth = modem.auth ->
         {[modem |-> [modem EXCEPT !.act = "activated",
                                   !.addr = IF modem.act = "activated" THEN @ ELSE a],
           answer |-> Answer("ok", "activated", 0)] : a \in Addresses \cup {0}}
    [] c = "CONNECT=0" ->
         {[modem |-> [modem EXCEPT !.act = "deactivated", !.addr = 0],
           answer |-> Answer("ok", "deactivated", 0)]}
    [] c = "IPCONF?" /\ modem.act = "activated" -> {[modem |-> modem, answer |-> Answer("ok", "none", modem.addr)]}
    [] c \in {"CAPS", "SERVICES", "VERSION?", "RADIO=on", "SUBSCRIBER?"} -> says("none")
    [] OTHER -> refused

(* A state that a command has changed is indicated as well. *)
Indications(n) ==
  (IF n.att # modem.att THEN <<Ind("att", n.att)>> ELSE <<>>)
    \o (IF n.act # modem.act THEN <<Ind("act", n.act)>> ELSE <<>>)

----------------------------------------------------------------------------
(* The main thread: a command is written, answered, stored. *)

mbim_send_command ==
  /\ cmd # "none" /\ ~sent /\ chan # "closed" /\ sent' = TRUE
  /\ \E o \in Obeys(cmd) :
       /\ modem' = o.modem
       /\ wire' = IF modem.gone THEN wire ELSE wire \o <<o.answer>> \o Indications(o.modem)
       /\ late' = (late \/ (cmd = "CONNECT=1" /\ o.modem.act = "activated" /\ o.modem.addr = 0))
  /\ UNCHANGED <<m, cmd, resp, old, devq, chan, swallowed, assumed, timeouts, troubles>>

requestSetupDataCall == "CONNECT=1"
requestDeactivateDefaultPDP == "CONNECT=0"
mbim_deinit == "CLOSE"

FirstCommand(request) ==
  CASE request = "reg" -> "REGISTER?"
    [] request = "query" -> "CONNECT?"
    [] request = "ip" -> "IPCONF?"
    [] request = "setup" -> requestSetupDataCall
    [] request = "deact" -> requestDeactivateDefaultPDP
    [] request = "close" -> mbim_deinit
    [] OTHER -> "none"

(* qmi_main goes on as n; before it quits it tells the reader to.          *)
Goes(n) ==
  /\ m' = n /\ cmd' = FirstCommand(n.at)
  /\ chan' = IF n.in = "quit.deact" /\ chan = "open" THEN "closing" ELSE chan
Then(next) == cmd' = next /\ UNCHANGED <<m, chan>>

(* What the answer to a command makes of the states stored so far; each of *)
(* these ends in mbim_update_state.                                        *)
mbim_register_state_query(v) == [old EXCEPT !.reg = v]
mbim_packet_service_query(v) == [old EXCEPT !.att = v]
mbim_packet_service_set(v) == [old EXCEPT !.att = v]
mbim_query_connect(v) == [old EXCEPT !.act = v]
mbim_set_connect(v) == [old EXCEPT !.act = v]

mbim_update_state(v) ==
  CASE cmd = "REGISTER?" -> mbim_register_state_query(v)
    [] cmd = "PACKET?" -> mbim_packet_service_query(v)
    [] cmd = "PACKET=attach" -> mbim_packet_service_set(v)
    [] cmd = "CONNECT?" -> mbim_query_connect(v)
    [] cmd \in {"CONNECT=1", "CONNECT=0"} -> mbim_set_connect(v)
    [] OTHER -> old

(* The start-up: qmi_main returns at the first command of mbim_init that   *)
(* fails.  The version is only asked for if the modem lists the command,   *)
(* and neither it nor the state of the card stops anything.                *)
Succeeds(ret, next) ==
  IF ret = "zero" THEN Then(next)
  ELSE m' = [m EXCEPT !.at = "ended"] /\ cmd' = "none" /\ UNCHANGED chan
mbim_proxy_configure(ret) == cmd = "PROXY" /\ Succeeds(ret, "OPEN")
mbim_open_device(ret) == cmd = "OPEN" /\ Succeeds(ret, "CAPS")
mbim_device_caps_query(ret) == cmd = "CAPS" /\ Succeeds(ret, "SERVICES")
mbim_device_services_query(ret) ==
  cmd = "SERVICES" /\ \E next \in {"VERSION?", "RADIO=on"} : Succeeds(ret, next)
mbim_ms_version_query == cmd = "VERSION?" /\ Then("RADIO=on")
mbim_set_radio_state(ret) == cmd = "RADIO=on" /\ Succeeds(ret, "SUBSCRIBER?")
requestGetSIMStatus == cmd = "SUBSCRIBER?" /\ Goes(Ask(m, "reg", "init.reg"))

mbim_init(ret) ==
  \/ mbim_proxy_configure(ret) \/ mbim_open_device(ret) \/ mbim_device_caps_query(ret)
  \/ mbim_device_services_query(ret) \/ mbim_ms_version_query \/ mbim_set_radio_state(ret)
  \/ requestGetSIMStatus

RegistrationOnly(ret, v) ==
  /\ \/ cmd = "REGISTER?" /\ IF ret = "zero" /\ v = "home" THEN Then("PACKET?")
                              ELSE Goes(Returned([m EXCEPT !.ps = FALSE], "zero"))
     \/ cmd = "PACKET?" /\ Goes(Returned([m EXCEPT !.ps = v = "attached"], "zero"))
  /\ UNCHANGED assumed

(* A packet service that cannot be asked for counts as attached.           *)
requestRegistrationState(ret, v) ==
  LET known(b) == Goes(Returned([m EXCEPT !.ps = b], "zero")) IN
  /\ \/ cmd = "REGISTER?" /\ IF ret = "zero" /\ v = "home" THEN Then("PACKET?") ELSE known(FALSE)
     \/ cmd = "PACKET?" /\ IF ret # "zero" \/ v = "attached" THEN known(TRUE) ELSE Then("PACKET=attach")
     \/ cmd = "PACKET=attach" /\ known(FALSE)
  /\ assumed' = (assumed \/ (cmd = "PACKET?" /\ ret # "zero"))

requestQueryDataCall(ret, v) ==
  LET s == IF ret # "zero" THEN "disconnected"
           ELSE CASE v = "activated" -> "connected" [] v = "unknown" -> "unknow"
                  [] OTHER -> "disconnected"
  IN  Goes(Returned([m EXCEPT !.st = s], ret))

AddressKept(ret, a) ==
  Goes(Returned([m EXCEPT !.ip = IF ret = "zero" /\ m.ip = 0 THEN a ELSE @], ret))

(* An answer without an address leaves the old one, and counts as success. *)
mbim_ip_config(ret, a) == IF ret = "zero" /\ a # 0 THEN a ELSE m.ip
requestGetIPAddress(ret, a) == Goes(Returned([m EXCEPT !.ip = mbim_ip_config(ret, a)], ret))

(* The request under way goes on with what its command came to.            *)
Continues(ret, v, a) ==
  /\ CASE m.at = "boot" -> mbim_init(ret) /\ UNCHANGED assumed
       [] m.at = "reg" -> requestRegistrationState(ret, v)
       [] m.at = "query" -> requestQueryDataCall(ret, v) /\ UNCHANGED assumed
       [] m.at = "ip" -> requestGetIPAddress(ret, a) /\ UNCHANGED assumed
       [] OTHER -> Goes(Returned(m, ret)) /\ UNCHANGED assumed
  /\ sent' = FALSE /\ resp' = None
  /\ UNCHANGED <<wire, devq, modem, swallowed, late, troubles>>

Stores ==
  /\ resp # None
  /\ old' = IF resp.status = "ok" THEN mbim_update_state(resp.v) ELSE old
  /\ Continues(IF resp.status = "ok" THEN "zero" ELSE "pos", resp.v, resp.a)
  /\ UNCHANGED timeouts

(* Only the open is tried again, up to ten times.                          *)
TimesOut ==
  /\ sent /\ timeouts < MaxTimeouts /\ timeouts' = timeouts + 1
  /\ UNCHANGED old
  /\ IF cmd # "OPEN" \/ timeouts' = 10 THEN Continues("pos", "none", 0)
     ELSE /\ sent' = FALSE /\ resp' = None
          /\ UNCHANGED <<m, cmd, chan, wire, devq, modem, history, troubles>>

(* The reader has gone: woken without an answer, or nothing can be sent.   *)
Abandoned ==
  /\ chan = "closed" /\ cmd # "none" /\ resp = None
  /\ Continues(IF sent THEN "pos" ELSE "neg", "none", 0) /\ UNCHANGED <<old, timeouts>>

Handle ==
  /\ \/ TakesSignal(m) /\ Goes(HandleSignal(m, devq)) /\ UNCHANGED devq
     \/ TakesEvent(m, devq) /\ Goes(HandleEvent(m, Head(devq))) /\ devq' = Tail(devq)
  /\ UNCHANGED <<sent, resp, old, wire, modem, history, timeouts, troubles>>

Main == mbim_send_command \/ Stores \/ Abandoned \/ Handle

(* Only m changes. *)
Quietly(n) ==
  /\ m' = n
  /\ UNCHANGED <<cmd, sent, resp, old, wire, devq, chan, modem, history, timeouts, troubles>>

(* 15 s without an event; the end of the wait before another dial; the alarm. *)
PollTimesOut == m.at = "poll" /\ m.sig = <<>> /\ devq = <<>> /\ Quietly(Signal(m, "CHECK"))
HoldEnds == m.hold /\ Len(m.sig) <= 1 /\ m.at # "ended" /\ Quietly([m EXCEPT !.hold = FALSE])
AlarmFires ==
  m.alarm /\ ~m.hold /\ m.at # "ended" /\ Quietly(Signal([m EXCEPT !.alarm = FALSE], "START"))

----------------------------------------------------------------------------
(* The reader thread. *)

EventActivated(i) ==
  CASE i.kind = "act" /\ i.v = "activated" /\ i.v # old.act -> <<"datacall">>
    [] i.kind = "reg" /\ i.v # old.reg -> <<"network">>
    [] i.kind = "att" /\ i.v # old.att -> <<"network">>
    [] OTHER -> <<>>

(* An indication that says nothing new is dropped. *)
Event(i) ==
  CASE i.kind = "act" /\ i.v # old.act -> <<"datacall">>
    [] i.kind = "reg" /\ i.v # old.reg -> <<"network">>
    [] i.kind = "att" /\ i.v # old.att -> <<"network">>
    [] OTHER -> <<>>

(* An answer to a command that timed out matches none: each has a number   *)
(* of its own, here that of the time-outs before it.                       *)
mbim_recv_command ==
  LET i == Head(wire)
      ours == i.kind = "answer" /\ sent /\ i.tid = timeouts
  IN
  /\ chan # "closed" /\ wire # <<>> /\ wire' = Tail(wire)
  /\ resp' = IF ours THEN [status |-> i.status, v |-> i.v, a |-> i.a] ELSE resp
  /\ devq' = devq \o Event(i)
  /\ swallowed' = IF i.kind # "answer" /\ Event(i) = <<>> /\ resp # None
                  THEN swallowed \cup {i.kind} ELSE swallowed
  /\ UNCHANGED <<m, cmd, sent, old, chan, modem, assumed, late, timeouts, troubles>>

(* Told to stop it waits until the modem is silent for a second; told to   *)
(* quit it leaves at once, and so it does when the device goes.            *)
mbim_read_thread ==
  /\ \/ chan = "closing" /\ (m.in = "quit.deact" \/ wire = <<>>)
     \/ chan = "open" /\ modem.gone
  /\ chan' = "closed" /\ devq' = Append(devq, "disconnected")
  /\ UNCHANGED <<m, cmd, sent, resp, old, wire, modem, history, timeouts, troubles>>

----------------------------------------------------------------------------
(* The user, the modem and the network. *)

Trouble ==
  /\ m.at \notin {"boot", "ended"} /\ ~modem.gone
  /\ troubles < MaxTroubles /\ troubles' = troubles + 1
Indicated(n, i) ==
  /\ modem' = n /\ wire' = IF modem.suspended \/ ~modem.opened THEN wire ELSE wire \o i
  /\ UNCHANGED <<m, cmd, sent, resp, old, devq, chan, swallowed, assumed, timeouts>>

(* SIGTERM: main is told, and the reader.                                  *)
Terminate ==
  /\ Trouble /\ chan = "open" /\ m' = Signal(m, "STOP") /\ chan' = "closing"
  /\ UNCHANGED <<cmd, sent, resp, old, wire, devq, modem, history, timeouts>>

Registers ==
  /\ ~modem.gone /\ m.at \notin {"boot", "ended"} /\ modem.reg # "home"
  /\ Indicated([modem EXCEPT !.reg = "home"], <<Ind("reg", "home")>>)
  /\ UNCHANGED <<late, troubles>>

(* The address of a call that was up without one.                          *)
Addressed ==
  /\ ~modem.gone /\ modem.act = "activated" /\ modem.addr = 0
  /\ \E a \in Addresses : Indicated([modem EXCEPT !.addr = a], <<>>)
  /\ UNCHANGED <<late, troubles>>

Down(n) == [n EXCEPT !.act = "deactivated", !.addr = 0]
Drops ==
  /\ Trouble /\ modem.act = "activated"
  /\ Indicated(Down(modem), <<Ind("act", "deactivated")>>) /\ UNCHANGED late
Detaches ==
  /\ Trouble /\ modem.att = "attached"
  /\ Indicated([Down(modem) EXCEPT !.att = "detached"],
               <<Ind("att", "detached")>>
                 \o (IF modem.act = "activated" THEN <<Ind("act", "deactivated")>> ELSE <<>>))
  /\ UNCHANGED late
Readdresses ==
  /\ Trouble /\ modem.addr # 0 /\ late' = TRUE
  /\ \E a \in Addresses \ {modem.addr} : Indicated([modem EXCEPT !.addr = a], <<>>)

(* The function is closed behind the program: it answers NOT_OPENED, which *)
(* mbim_status_code only notes.                                            *)
Suspends ==
  Trouble /\ Indicated([modem EXCEPT !.suspended = TRUE], <<>>) /\ UNCHANGED late
Vanishes ==
  Trouble /\ Indicated([modem EXCEPT !.gone = TRUE], <<>>) /\ UNCHANGED late

Ended == m.at = "ended" /\ UNCHANGED vars

Next ==
  \/ Main \/ TimesOut \/ PollTimesOut \/ HoldEnds \/ AlarmFires
  \/ mbim_recv_command \/ mbim_read_thread
  \/ Terminate \/ Registers \/ Addressed \/ Drops \/ Detaches \/ Readdresses
  \/ Suspends \/ Vanishes \/ Ended

Spec == Init /\ [][Next]_vars

(* Both threads run, time passes, the network lets the modem in. *)
FairSpec ==
  /\ Spec
  /\ WF_vars(Main) /\ WF_vars(PollTimesOut) /\ WF_vars(HoldEnds) /\ WF_vars(AlarmFires)
  /\ WF_vars(mbim_recv_command) /\ WF_vars(mbim_read_thread) /\ WF_vars(Registers)
  /\ WF_vars(Addressed)

----------------------------------------------------------------------------
(* With nothing left to handle, a call that is down and held for connected *)
(* is one whose indication met an answer that was not stored yet: it was   *)
(* compared with the state before it and dropped (mbim-cm.c:1627).  Such a *)
(* call is found out by the CHECK of the next 15 s.                        *)
DropReported ==
  m.at = "poll" /\ m.sig = <<>> /\ devq = <<>> /\ wire = <<>> /\ chan = "open"
    /\ m.st = "connected" /\ modem.act # "activated"
    => "act" \in swallowed \/ modem.gone

(* The interface of a call that is held for connected has the address the  *)
(* modem gave for it, unless the call had none when it was set up          *)
(* (requestGetIPAddress returns 0 then), the modem changed it, or the      *)
(* session began with an address that was fetched in the one before it.    *)
InterfaceAddressed ==
  m.at = "poll" /\ m.sig = <<>> /\ m.st = "connected" /\ m.link = 1 /\ modem.act = "activated"
    => late \/ m.nic = modem.addr

(* Once nothing is lost and the network is calm, the session settles with  *)
(* the call up, held for connected, and its interface set up; or it is     *)
(* over, the function is closed, or the packet service is wrongly held for *)
(* attached: it could not be asked for (mbim-cm.c:2641), or the indication *)
(* met an answer that was not stored yet.  Once held for attached it is    *)
(* not asked for again (main.c:536).                                       *)
Settled ==
  \/ m.at = "ended" \/ modem.suspended \/ assumed \/ "att" \in swallowed
  \/ m.st = "connected" /\ modem.act = "activated" /\ m.link = 1
Restored == <>[]Settled

=============================================================================
