------------------------------ MODULE LteInfo -------------------------------
(***************************************************************************)
(* cgi-cpp, the request for the state of the LTE modem.  A process stops   *)
(* quectel-CM, opens the modem's AT port, sends a few commands and reads   *)
(* the report off what comes back; the destructor of LteSerialPort starts  *)
(* quectel-CM again, in the background.  Nothing keeps two requests apart. *)
(*                                                                         *)
(* An answer is the name of its command and the process it was sent by;    *)
(* it comes whole or in two pieces.  Time is not modelled: select may give *)
(* up whenever nothing has come, which it does at once when the commands   *)
(* before have used up the timeout they share.                             *)
(***************************************************************************)
EXTENDS Naturals, Sequences

CONSTANTS Procs,        \* processes the web server may run at a time
          MaxRequests,  \* bound on the requests of a behaviour
          MaxSplits,    \* bound on the answers that come in two pieces
          MaxTimeouts,  \* bound on the answers that come too late
          MaxKills      \* bound on the processes that end before the destructor

\* The commands in the order of lte_serialport_comunication_handler.
Script == <<"ATE0", "QSIMDET", "CPIN", "QSIMSTAT", "CREG", "GSN", "CSQ">>
At(c) == CHOOSE i \in 1..Len(Script) : Script[i] = c

VARIABLES
  running,     \* quectel-CM runs
  starts,      \* init scripts in the background that will start it
  conf,        \* lte_usb.conf names a port: "none", "right" or "gone"
  out,         \* answers the modem is still to send
  rx,          \* what the port has received: <<process, command>>
  proc,        \* each process
  lateOver,    \* history: a piece came to a process that waits for another answer
  requests, splits, timeouts, kills

vars == <<running, starts, conf, out, rx, proc, lateOver, requests, splits, timeouts, kills>>

Idle == [pc |-> "idle", cmd |-> 1, imei |-> {}]

Init ==
  /\ running = TRUE /\ starts = 0
  /\ conf \in {"none", "right", "gone"}
  /\ out = <<>> /\ rx = <<>>
  /\ proc = [p \in Procs |-> Idle]
  /\ lateOver = FALSE
  /\ requests = 0 /\ splits = 0 /\ timeouts = 0 /\ kills = 0

Bounds == <<requests, splits, timeouts, kills>>
Port == <<out, rx, splits>>

\* The answer to the command that a process has sent.
Own(p) == <<p, Script[proc[p].cmd]>>

\* lte_serialport_run: stop_quectel_process returns when the service has been stopped.
Stop(p) ==
  /\ proc[p].pc = "idle" /\ requests < MaxRequests
  /\ requests' = requests + 1
  /\ running' = FALSE
  /\ proc' = [proc EXCEPT ![p] = [Idle EXCEPT !.pc = "open"]]
  /\ UNCHANGED <<starts, conf, Port, lateOver, timeouts, kills>>

Opened(p, ok) ==
  /\ proc' = [proc EXCEPT ![p].pc = IF ok THEN "send" ELSE "end"]
  /\ UNCHANGED <<running, starts, Port, lateOver, Bounds>>

\* open_lte_dev with the port of lte_usb.conf: the only one that is tried.
OpenConf(p) ==
  /\ proc[p].pc = "open" /\ conf # "none"
  /\ Opened(p, conf = "right")
  /\ UNCHANGED conf

\* open_lte_dev without it: the ports are tried until one answers OK, which is stored.
OpenProbe(p) ==
  /\ proc[p].pc = "open" /\ conf = "none"
  /\ \E found \in BOOLEAN : Opened(p, found) /\ conf' = IF found THEN "right" ELSE conf

\* A bug: what the port has received before the command is kept.
NoFlush(p) ==
  /\ proc[p].pc = "send"
  /\ out' = Append(out, Own(p))
  /\ proc' = [proc EXCEPT ![p].pc = "wait"]
  /\ UNCHANGED <<running, starts, conf, rx, lateOver, Bounds>>

\* send_at_cmd_to_serialport: tcflush, then the command.
Send(p) ==
  /\ proc[p].pc = "send"
  /\ rx' = <<>>
  /\ out' = Append(out, Own(p))
  /\ proc' = [proc EXCEPT ![p].pc = "wait"]
  /\ UNCHANGED <<running, starts, conf, lateOver, Bounds>>

\* The modem's next answer arrives, or the first piece of it.
Arrives ==
  /\ out # <<>>
  /\ rx' = Append(rx, Head(out))
  /\ lateOver' = (lateOver \/ \E p \in Procs : proc[p].pc = "wait" /\ Head(out) # Own(p))
  /\ \/ out' = Tail(out) /\ UNCHANGED splits
     \/ splits < MaxSplits /\ splits' = splits + 1 /\ UNCHANGED out
  /\ UNCHANGED <<running, starts, conf, proc, requests, timeouts, kills>>

Then(r, c) == [r EXCEPT !.pc = "send", !.cmd = At(c)]

\* yes: the text looked for ("READY", ",1") is in the answer.  An answer to CPIN that has
\* only "REA" counts once QSIMSTAT has been answered, too.
send_at_get_sim_stat(r, yes) ==
  CASE Script[r.cmd] = "ATE0" -> Then(r, "QSIMDET")
    [] Script[r.cmd] = "QSIMDET" -> Then(r, "CPIN")
    [] Script[r.cmd] = "CPIN" -> Then(r, IF yes THEN "CREG" ELSE "QSIMSTAT")
    [] Script[r.cmd] = "QSIMSTAT" -> Then(r, IF yes THEN "CREG" ELSE "GSN")

\* The state of the registration goes into the report; the result is not looked at.
send_at_get_qnet_stat(r) == Then(r, "GSN")

\* The first fifteen characters of whatever has come.
send_at_get_imei(r, got) == [Then(r, "CSQ") EXCEPT !.imei = got]

\* Whether "+CSQ: " is found, the request ends.
send_at_get_rssi(r) == [r EXCEPT !.pc = "end"]

\* What the process does when its command has been answered by the pieces in got.
Answered(r, got, yes) ==
  CASE Script[r.cmd] = "CREG" -> send_at_get_qnet_stat(r)
    [] Script[r.cmd] = "GSN" -> send_at_get_imei(r, got)
    [] Script[r.cmd] = "CSQ" -> send_at_get_rssi(r)
    [] OTHER -> send_at_get_sim_stat(r, yes)

\* read returns what there is, after a single select; a wait that ends too soon is not
\* taken up again.
Receive(p) ==
  /\ proc[p].pc = "wait" /\ rx # <<>>
  /\ \E yes \in BOOLEAN : proc' = [proc EXCEPT ![p] = Answered(proc[p], {rx[i] : i \in 1..Len(rx)}, yes)]
  /\ rx' = <<>>
  /\ UNCHANGED <<running, starts, conf, out, lateOver, Bounds>>

\* select gives up.  send_at_get_sim_stat goes on when that happens to CREG; any other
\* command ends the request.
TimesOut(p) ==
  /\ proc[p].pc = "wait" /\ rx = <<>>
  /\ out # <<>> => timeouts < MaxTimeouts
  /\ timeouts' = IF out # <<>> THEN timeouts + 1 ELSE timeouts
  /\ proc' = [proc EXCEPT ![p] = IF Script[@.cmd] = "CREG" THEN send_at_get_qnet_stat(@)
                                                           ELSE [@ EXCEPT !.pc = "end"]]
  /\ UNCHANGED <<running, starts, conf, out, rx, lateOver, requests, splits, kills>>

\* A bug: quectel-CM is started again only after a report.
EndsIfReported(p) ==
  /\ proc[p].pc = "end"
  /\ starts' = starts + (IF Script[proc[p].cmd] = "CSQ" THEN 1 ELSE 0)
  /\ proc' = [proc EXCEPT ![p] = Idle]
  /\ UNCHANGED <<running, conf, Port, lateOver, Bounds>>

\* main_lte_get deletes the object on either path.
Ends(p) ==
  /\ proc[p].pc = "end"
  /\ starts' = starts + 1
  /\ proc' = [proc EXCEPT ![p] = Idle]
  /\ UNCHANGED <<running, conf, Port, lateOver, Bounds>>

Started ==
  /\ starts > 0
  /\ starts' = starts - 1
  /\ running' = TRUE
  /\ UNCHANGED <<conf, Port, proc, lateOver, Bounds>>

\* The process is ended, or dump throws on an imei that is no UTF-8.
Dies(p) ==
  /\ proc[p].pc # "idle" /\ kills < MaxKills
  /\ kills' = kills + 1
  /\ proc' = [proc EXCEPT ![p] = Idle]
  /\ UNCHANGED <<running, starts, conf, Port, lateOver, requests, timeouts>>

Next ==
  \/ \E p \in Procs : \/ Stop(p) \/ OpenConf(p) \/ OpenProbe(p) \/ Send(p) \/ Receive(p)
                      \/ TimesOut(p) \/ Ends(p) \/ Dies(p)
  \/ Arrives \/ Started

Works(p) == OpenConf(p) \/ OpenProbe(p) \/ Send(p) \/ Receive(p) \/ TimesOut(p) \/ Ends(p)

\* The processes and the scripts are scheduled; select has a timeout.  The modem answers.
Fairness ==
  /\ \A p \in Procs : WF_vars(Works(p))
  /\ WF_vars(Arrives) /\ WF_vars(Started)

Spec == Init /\ [][Next]_vars /\ Fairness

-----------------------------------------------------------------------------
\* The imei of a report is the answer to the request's own AT+GSN, although no answer is
\* compared with its command and two requests may use the port at the same time, unless
\* a piece of another answer came after the flush of a command and before its answer.
ImeiOwn ==
  \A p \in Procs : proc[p].imei # {} /\ ~ lateOver => proc[p].imei = {<<p, "GSN">>}

\* However many requests overlap, and whatever fails in them, quectel-CM runs again when
\* they are done, unless a process ended without running the destructor.
QuectelBack == <>[](running \/ kills > 0)

=============================================================================
