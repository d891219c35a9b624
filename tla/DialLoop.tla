------------------------------ MODULE DialLoop ------------------------------
(***************************************************************************)
(* qmi_main of main.c over the request tables that keep one session for    *)
(* both address families: AT commands (atc.c) and MBIM (mbim-cm.c).  There *)
(* IPv6ConnectionStatus follows IPv4ConnectionStatus, so that one status   *)
(* is kept.  Unlike ConnMgr, where a handler is one step, a handler here   *)
(* stops at every request it makes: m.at names the request under way,      *)
(* m.in where the handler goes on, and Returned(m, ret) is the rest of the *)
(* handler up to its next request.  The modules that extend this one run   *)
(* the requests, command by command, against the modem.                    *)
(*                                                                         *)
(* m is what qmi_main and the profile hold:                                *)
(*   st    IPv4ConnectionStatus           ip    ipv4.Address, 0 for none   *)
(*   ps    PSAttachedState = 1            auth  the authentication, 1 or 2 *)
(*   hold  SetupCallAllowTime is ahead    alarm a SIGALRM is pending       *)
(*   sig   the signal pipe                link  s_link: -1, 0 or 1         *)
(*   dhcp  udhcpc_ip                      nic   the interface's address    *)
(*   dev   poll found an event of the reader beside the signal             *)
(***************************************************************************)
EXTENDS Integers, Sequences

CONSTANTS Atc,      \* TRUE: atc_request_ops, FALSE: mbim_request_ops
          HasUser   \* a user name and a password were given

(* The static data of an earlier session may be left: the link is down     *)
(* then, but an address that was never put on the interface is kept.       *)
Begins(addresses) ==
  {[at |-> "boot", in |-> "none", st |-> "unknow", ip |-> f[1], ps |-> FALSE, auth |-> 1,
    hold |-> FALSE, alarm |-> FALSE, sig |-> <<>>, link |-> f[2], dhcp |-> 0, nic |-> 0,
    dev |-> FALSE] : f \in {<<0, -1>>, <<0, 0>>} \cup (addresses \X {0})}

Ask(m, request, in) == [m EXCEPT !.at = request, !.in = in]
Back(m) == [m EXCEPT !.at = "poll", !.in = "none"]
Signal(m, s) == [m EXCEPT !.sig = Append(@, s)]

(* Setting the interface up leaves the address to a DHCP client that runs  *)
(* beside the program, and notes the one it finds; MBIM configures it.     *)
udhcpc_start(m) ==
  IF m.ip = 0 THEN m
  ELSE IF Atc THEN [m EXCEPT !.dhcp = m.nic] ELSE [m EXCEPT !.nic = m.ip]

udhcpc_stop(m) == [m EXCEPT !.dhcp = 0, !.nic = 0]

usbnet_link_change(m, link) ==
  IF m.link = link THEN m
  ELSE IF link = 1 THEN udhcpc_start([m EXCEPT !.link = 1])
  ELSE udhcpc_stop([m EXCEPT !.link = 0, !.ip = 0])

----------------------------------------------------------------------------
(* SIG_EVENT_CHECK, from its last part to its first. *)

CheckWaits(m) ==
  IF m.st = "disconnected" THEN Back(usbnet_link_change(m, 0))
  ELSE IF m.st = "connected" THEN Back(usbnet_link_change(m, 1))
  ELSE Back(m)

CheckEnds(m) ==
  IF m.st = "disconnected" THEN Back(Signal(usbnet_link_change(m, 0), "START"))
  ELSE IF m.st = "connected" THEN Back(usbnet_link_change(m, 1))
  ELSE Back(m)

CheckDown(m) == CheckEnds([m EXCEPT !.st = "disconnected"])

(* check_ipv4_address: only ATC asks again, and only if an address was     *)
(* found on the interface when it was set up.                              *)
CheckAddress(m) ==
  IF m.st = "connected" /\ Atc /\ m.dhcp # 0 THEN Ask(m, "ip", "check.compare")
  ELSE CheckEnds(m)

CheckCall(m) ==
  IF m.st = "disconnected" THEN CheckDown(m) ELSE Ask(m, "query", "check.query")

EventCheck(m) ==
  IF m.ps THEN CheckCall(m) ELSE Ask(m, "reg", "check.reg")

----------------------------------------------------------------------------
(* SIG_EVENT_START and SIG_EVENT_STOP. *)

(* A failed dial waits 5 to 60 s, longer each time. *)
StartEnds(m) ==
  Back(CASE m.st = "disconnected" -> [m EXCEPT !.hold = TRUE, !.alarm = TRUE]
         [] m.st = "connected" -> [m EXCEPT !.hold = FALSE]
         [] OTHER -> m)

EventStart(m) ==
  IF ~m.ps THEN Back(m)
  ELSE IF m.hold THEN Back([m EXCEPT !.alarm = TRUE])
  ELSE IF m.st = "connected" THEN StartEnds(m)
  ELSE Ask(m, "setup", "start.setup")

main_quit(m) == Ask(m, "deact", "quit.deact")

(* Of the two only MBIM has something to close in deinit.                  *)
StopEnds(m) ==
  LET n == usbnet_link_change(m, 0)
  IN  IF Atc THEN main_quit(n) ELSE Ask(n, "close", "stop.close")

EventStop(m) == IF m.st = "connected" THEN Ask(m, "deact", "stop.deact") ELSE StopEnds(m)

(* poll looks at the signal pipe first; an event of the reader that was    *)
(* there as well is handled next, before poll is called again.             *)
TakesSignal(m) == m.at = "poll" /\ ~m.dev /\ m.sig # <<>>
TakesEvent(m, devq) == m.at = "poll" /\ devq # <<>> /\ (m.dev \/ m.sig = <<>>)

(* Every signal read cancels the pending alarm. *)
HandleSignal(m, devq) ==
  LET n == [m EXCEPT !.sig = Tail(@), !.alarm = FALSE, !.dev = devq # <<>>]
  IN  CASE Head(m.sig) = "CHECK" -> EventCheck(n)
        [] Head(m.sig) = "START" -> EventStart(n)
        [] Head(m.sig) = "STOP" -> EventStop(n)

----------------------------------------------------------------------------
(* The events of the reader thread. *)

HandleEvent(m, e) ==
  LET n == [m EXCEPT !.dev = FALSE]
  IN  CASE e = "disconnected" -> main_quit(n)
        [] e = "network" -> Ask(n, "reg", "net.reg")
        [] e = "datacall" -> Signal([n EXCEPT !.hold = @ \/ m.st = "connected"], "CHECK")

(* What is known after the registration is asked for on an event. *)
NetworkKnown(m) ==
  Back(IF ~m.ps THEN [m EXCEPT !.hold = FALSE]
       ELSE IF m.st = "disconnected" THEN Signal(m, "START") ELSE m)

----------------------------------------------------------------------------
(* The start-up, after the profile: a call that an earlier session left    *)
(* behind is hung up (ATC), and the first CHECK is posted.                 *)

BootEnds(m) == Back(Signal(m, "CHECK"))
BootKeeps(m, ret) == BootEnds(m)
BootQueried(m, ret) ==
  IF ret = "zero" /\ m.st = "connected" THEN Ask(m, "deact", "init.deact") ELSE BootEnds(m)

(* A request has returned 0, more or less than 0. *)
Returned(m, ret) ==
  CASE m.in = "init.reg" -> IF Atc THEN Ask(m, "query", "init.query") ELSE BootEnds(m)
    [] m.in = "init.query" -> BootQueried(m, ret)
    [] m.in = "init.deact" -> BootEnds(m)
    [] m.in = "check.reg" -> CheckCall(m)
    [] m.in = "check.query" ->
         IF ret # "zero" THEN CheckDown(m)
         ELSE IF m.st = "connected" /\ m.ip = 0 THEN Ask(m, "ip", "check.fetch")
         ELSE CheckAddress(m)
    [] m.in = "check.fetch" -> IF ret = "zero" THEN CheckAddress(m) ELSE CheckDown(m)
    [] m.in = "check.compare" ->
         IF ret = "zero" /\ m.ip = m.dhcp THEN CheckEnds(m)
         ELSE Ask(m, "deact", "check.deact")
    [] m.in = "check.deact" -> CheckDown(m)
    [] m.in = "start.setup" ->
         IF ret = "zero" THEN Ask(m, "ip", "start.ip")
         ELSE IF ret = "pos" /\ HasUser
         THEN Ask([m EXCEPT !.auth = 3 - @], "setup", "start.again")
         ELSE StartEnds(m)
    [] m.in = "start.again" ->
         IF ret = "zero" THEN Ask(m, "ip", "start.ip")
         ELSE StartEnds([m EXCEPT !.auth = 3 - @])
    [] m.in = "start.ip" ->
         StartEnds(IF ret = "zero" THEN [m EXCEPT !.st = "connected"] ELSE m)
    [] m.in = "stop.deact" -> StopEnds(m)
    [] m.in = "stop.close" -> main_quit(m)
    [] m.in = "quit.deact" -> [usbnet_link_change(m, 0) EXCEPT !.at = "ended"]
    [] m.in = "net.reg" -> NetworkKnown(m)

=============================================================================
