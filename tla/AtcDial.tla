------------------------------ MODULE AtcDial ------------------------------
(***************************************************************************)
(* A session of quectel-CM over a modem that speaks AT commands: the       *)
(* start-up and the requests of atc.c, command by command, under the loop  *)
(* of DialLoop.  cmd is the AT command under way.  Between two commands    *)
(* the modem registers, loses the call, gets another address or reports    *)
(* something, the reader thread posts events, the DHCP client beside the   *)
(* program configures the interface, and signals arrive.                   *)
(*                                                                         *)
(* A command ends with "ok", with "error" (a final response that refuses   *)
(* it: the err of at_send_command is 0) or with "fail" (err < 0: no answer *)
(* in time, an answer that cannot be used, or the channel is closed).      *)
(***************************************************************************)
EXTENDS DialLoop

CONSTANTS Kinds,      \* the dialects of AT a modem may speak: "rg", "eg800q", "asr"
          Addresses,  \* what the network gives out
          LeftOver,   \* those an earlier session may have left
          Profiles,   \* the stored profiles the session may find
          Asked,      \* the profile given with -s
          MaxFailed,  \* bound: commands that fail although the modem could obey
          MaxTroubles,\* bound: calls, addresses and registrations lost, cards put in,
                      \* orders to stop
          MaxLeases,  \* bound: answers of the DHCP server
          MaxReports, \* bound: events waiting when the modem reports another
          MaxPolls    \* bound: polls of a dial's result, 15 in the code

VARIABLES
  m,       \* the main thread, see DialLoop
  cmd,     \* the AT command under way
  polls,   \* polls of the dial's result left
  devq,    \* the events of the reader thread
  chan,    \* the channel: open, closing (the reader was told), closed
  asr,     \* asr_style_atc
  vers,    \* style_atc = EG800Q
  reboot,  \* g_reboot_modem
  shm,     \* conn_status in the shared memory, which failover reads
  modem,   \* the modem
  unread,  \* history: a call said to be up had no address to read
  unset,   \* history: the profile could not be read or written
  failed,  \* the commands that have failed
  troubles, leases

vars == <<m, cmd, polls, devq, chan, asr, vers, reboot, shm, modem, unread, unset,
          failed, troubles, leases>>
bootVars == <<asr, vers, unset>>

Blank == [apn |-> "", auth |-> 0]

(* modem.ctx: the PDP context is active; modem.call: who had it bound to   *)
(* the network interface, "none" for nobody; pending: a dial is under way; *)
(* other: another context is bound too, and is the last one listed.        *)
Init ==
  /\ m \in Begins(LeftOver) /\ cmd = "QNETDEVSTATUS=?" /\ polls = 0
  /\ devq = <<>> /\ chan = "open"
  /\ asr = FALSE /\ vers = FALSE /\ reboot = FALSE
  /\ shm = "disconnected" /\ unread = FALSE /\ unset = FALSE
  /\ \E kind \in Kinds, prof \in Profiles, up \in BOOLEAN, nat, other \in BOOLEAN,
        sim \in {"ready", "pin"} :
       modem = [kind |-> kind, prof |-> prof, nat |-> nat, other |-> other,
                sim |-> sim, reg |-> up, ctx |-> up, pending |-> FALSE,
                addr |-> CHOOSE a \in Addresses : TRUE, call |-> IF up THEN "old" ELSE "none", gone |-> FALSE]
       /\ (up => sim = "ready") /\ (other => kind = "asr" /\ up)
  /\ failed = 0 /\ troubles = 0 /\ leases = 0

(* The dialect the program has settled on is the modem's.                  *)
Understood == asr = (modem.kind = "asr") /\ (modem.kind = "eg800q" => vers)

(* How a command may end, natural being what a modem does that hears it.   *)
Ends(natural, r) ==
  IF chan = "closed" \/ modem.gone THEN r = "fail" /\ UNCHANGED failed
  ELSE \/ r = natural /\ UNCHANGED failed
       \/ r \in {"error", "fail"} \ {natural} /\ failed < MaxFailed /\ failed' = failed + 1

(* A command of another dialect may be refused. *)
EndsDialect(natural, r) ==
  Ends(natural, r) \/ (~Understood /\ chan # "closed" /\ ~modem.gone /\ r = "error" /\ UNCHANGED failed)

If(b) == IF b THEN "ok" ELSE "error"

(* A command that no answer came to may have been obeyed all the same.     *)
Obeyed(r) ==
  IF r = "ok" THEN {TRUE}
  ELSE IF r = "error" \/ chan = "closed" \/ modem.gone THEN {FALSE} ELSE BOOLEAN

----------------------------------------------------------------------------
(* Start-up: atc_init to requestSetProfile. *)

Boots(next) ==
  /\ cmd' = next
  /\ UNCHANGED <<m, polls, devq, chan, reboot, shm, unread, troubles, leases>>

FirstRequest ==
  /\ m' = Ask(m, "reg", "init.reg") /\ cmd' = "COPS"
  /\ UNCHANGED <<polls, devq, chan, reboot, shm, unread, troubles, leases>>

(* requestSetProfile writes the profile unless it was found to be there.   *)
ComparesApn(old) == IF old.apn = Asked.apn THEN FirstRequest ELSE Boots("QICSGP=")
CompareProfile(old) == IF old = Asked THEN FirstRequest ELSE Boots("QICSGP=")

(* Any failure of the first command is taken for the other dialect.        *)
atc_init ==
  \/ /\ cmd = "QNETDEVSTATUS=?"
     /\ \E r \in {"ok", "error", "fail"} : Ends(If(modem.kind # "asr"), r) /\ asr' = (r # "ok")
     /\ Boots("NAT?") /\ UNCHANGED <<vers, unset, modem>>
  \/ /\ cmd = "NAT?"
     /\ \E r \in {"ok", "error", "fail"} :
          Ends("ok", r) /\ Boots(IF r = "ok" /\ modem.nat # asr THEN "NAT=" ELSE "CGMR")
     /\ UNCHANGED <<bootVars, modem>>
  \/ /\ cmd = "NAT="
     /\ \E r \in {"ok", "error", "fail"} :
          /\ Ends("ok", r) /\ Boots(IF r = "ok" THEN "CFUN" ELSE "CGMR")
          /\ modem' = [modem EXCEPT !.nat = IF r = "ok" THEN asr ELSE @]
     /\ UNCHANGED bootVars
  \/ /\ cmd = "CFUN"
     /\ \E r \in {"ok", "error", "fail"} : Ends("ok", r) /\ \E o \in Obeyed(r) :
          modem' = [modem EXCEPT !.gone = o]
     /\ Boots("CGMR") /\ UNCHANGED bootVars

requestBaseBandVersion ==
  /\ cmd = "CGMR"
  /\ \E r \in {"ok", "error", "fail"} :
       Ends("ok", r) /\ vers' = (vers \/ (r = "ok" /\ modem.kind = "eg800q"))
  /\ Boots("CPIN?") /\ UNCHANGED <<asr, unset, modem>>

(* The PIN is given once, if the modem said at this moment that it wants it. *)
requestSimPin ==
  \/ /\ cmd = "CPIN?"
     /\ \E r \in {"ok", "error", "fail"} :
          Ends("ok", r) /\ Boots(IF r = "ok" /\ modem.sim = "pin" THEN "CPIN=" ELSE "QICSGP?")
     /\ UNCHANGED <<bootVars, modem>>
  \/ /\ cmd = "CPIN="
     /\ \E r \in {"ok", "error", "fail"} : Ends("ok", r) /\ \E o \in Obeyed(r) :
          modem' = [modem EXCEPT !.sim = IF o THEN "ready" ELSE @]
     /\ Boots("QICSGP?") /\ UNCHANGED bootVars

(* A modem that answers nothing but OK has no such profile: an empty one   *)
(* is written and the question asked again.                                *)
requestGetProfile ==
  \/ /\ cmd = "QICSGP?"
     /\ \/ Ends("ok", "ok") /\ CompareProfile(modem.prof) /\ UNCHANGED unset
        \/ \E r \in {"error", "fail"} :
             Ends("ok", r) /\ Boots("CGDCONT?") /\ unset' = TRUE
        \/ Ends("fail", "error") /\ Boots("QICSGP=blank") /\ UNCHANGED unset
     /\ UNCHANGED <<asr, vers, modem>>
  \/ /\ cmd = "QICSGP=blank"
     /\ \E r \in {"ok", "error", "fail"} : Ends("ok", r) /\ \E o \in Obeyed(r) :
          /\ modem' = [modem EXCEPT !.prof = IF o THEN Blank ELSE @]
          /\ Boots(IF r = "ok" THEN "QICSGP?" ELSE "CGDCONT?")
          /\ unset' = (unset \/ r # "ok")
     /\ UNCHANGED <<asr, vers>>
  \/ /\ cmd = "CGDCONT?"
     /\ \E r \in {"ok", "error", "fail"} :
          /\ Ends("ok", r)
          /\ CompareProfile([Blank EXCEPT !.apn = IF r = "ok" THEN modem.prof.apn ELSE @])
     /\ UNCHANGED <<bootVars, modem>>

requestSetProfile ==
  \/ /\ cmd = "QICSGP="
     /\ \E r \in {"ok", "error", "fail"} : Ends("ok", r) /\ \E o \in Obeyed(r) :
          /\ modem' = [modem EXCEPT !.prof = IF o THEN Asked ELSE @]
          /\ unset' = (unset \/ r # "ok")
          /\ IF r = "ok" THEN FirstRequest ELSE Boots("CGDCONT=")
     /\ UNCHANGED <<asr, vers>>
  \/ /\ cmd = "CGDCONT="
     /\ \E r \in {"ok", "error", "fail"} : Ends("ok", r) /\ \E o \in Obeyed(r) :
          modem' = [modem EXCEPT !.prof.apn = IF o THEN Asked.apn ELSE @]
     /\ FirstRequest /\ UNCHANGED bootVars

Boot ==
  /\ m.at = "boot"
  /\ atc_init \/ requestBaseBandVersion \/ requestSimPin
     \/ requestGetProfile \/ requestSetProfile

----------------------------------------------------------------------------
(* The requests.  Each starts with the command of its dialect. *)

Netdevstatus == IF vers THEN "QNETDEVSTATUS?" ELSE "QNETDEVSTATUS="

FirstCommand(request) ==
  CASE request = "reg" -> "COPS"
    [] request = "query" -> IF asr THEN "QNETDEVCTL?" ELSE Netdevstatus
    [] request = "ip" -> IF asr THEN "CGPADDR" ELSE Netdevstatus
    [] request = "setup" -> IF asr THEN "CGACT?" ELSE "QNETDEVCTL=1"
    [] request = "deact" -> "QNETDEVCTL=0"
    [] OTHER -> "none"

(* qmi_main goes on as n; before it quits it tells the reader to.          *)
Goes(n) ==
  /\ m' = n /\ cmd' = FirstCommand(n.at)
  /\ chan' = IF n.in = "quit.deact" /\ chan = "open" THEN "closing" ELSE chan

(* Another command of the same request. *)
Then(next) == cmd' = next /\ UNCHANGED <<m, chan>>

(* change_connect_status: failover is run with the new status.             *)
change_connect_status(s) == shm' = s

requestRegistrationState ==
  LET known(b) == Goes(Returned([m EXCEPT !.ps = b], "zero")) IN
  /\ m.at = "reg"
  /\ \E r \in {"ok", "error", "fail"} :
       /\ Ends("ok", r)
       /\ IF cmd = "COPS" /\ r = "ok" /\ modem.reg THEN Then("CEREG?")
          ELSE known(cmd = "CEREG?" /\ r = "ok" /\ modem.reg)
  /\ UNCHANGED <<polls, devq, bootVars, reboot, shm, modem, unread, troubles, leases>>

(* at_netdevstatus and +CGPADDR: the address that is read, 0 if none.      *)
AddressRead(r) ==
  IF r # "ok" THEN 0
  ELSE CASE cmd = "CGPADDR" -> IF modem.ctx THEN modem.addr ELSE 0
         [] OTHER -> IF modem.call # "none" THEN modem.addr ELSE 0

(* The query stores "disconnected" first and always returns 0.  In the ASR *)
(* dialect the last line listed decides whether the interface is bound,    *)
(* whatever context it is of.                                              *)
QueryAnswers(tells) ==
  LET known(b) ==
        LET s == IF b THEN "connected" ELSE "disconnected"
        IN  Goes(Returned([m EXCEPT !.st = s], "zero"))
            /\ IF tells THEN change_connect_status(s) ELSE UNCHANGED shm
  IN
  /\ m.at = "query"
  /\ \E r \in {"ok", "error", "fail"} :
       /\ EndsDialect("ok", r)
       /\ CASE cmd = "QNETDEVCTL?" ->
                 IF r = "ok" /\ (modem.call # "none" \/ modem.other)
                 THEN Then("CGACT?") /\ UNCHANGED shm ELSE known(FALSE)
            [] cmd = "CGACT?" -> known(r = "ok" /\ modem.ctx)
            [] cmd = "QNETDEVSTATUS?" ->
                 IF r = "ok" /\ modem.call # "none"
                 THEN Then("CGPADDR") /\ UNCHANGED shm ELSE known(FALSE)
            [] OTHER -> known(AddressRead(r) # 0)
  /\ UNCHANGED <<polls, devq, bootVars, reboot, modem, unread, troubles, leases>>

QueryUntold == QueryAnswers(FALSE)
requestQueryDataCall == QueryAnswers(TRUE)

requestGetIPAddress ==
  LET done(v) ==
        /\ IF v # 0 /\ m.ip # v THEN change_connect_status("connected") ELSE UNCHANGED shm
        /\ unread' = (unread \/ (v = 0 /\ m.in = "check.fetch"))
        /\ Goes(Returned([m EXCEPT !.ip = IF v = 0 THEN @ ELSE v],
                         IF v = 0 THEN "neg" ELSE "zero"))
  IN
  /\ m.at = "ip"
  /\ \E r \in {"ok", "error", "fail"} :
       /\ EndsDialect("ok", r)
       /\ IF cmd = "QNETDEVSTATUS?" /\ r = "ok" /\ modem.call # "none"
          THEN Then("CGPADDR") /\ UNCHANGED <<shm, unread>>
          ELSE done(IF cmd = "QNETDEVSTATUS?" THEN 0 ELSE AddressRead(r))
  /\ UNCHANGED <<polls, devq, bootVars, reboot, modem, troubles, leases>>

(* A command that is refused leaves err at 0, so that the dial counts as   *)
(* done and only the address that is asked for next can tell.              *)
DialReturns(r) == Goes(Returned(m, IF r = "fail" THEN "neg" ELSE "zero"))
DialDone == devq' = Append(devq, "datacall") /\ Goes(Returned(m, "zero"))

(* The modem obeys AT+QNETDEVCTL=1: those that answer before the call is   *)
(* up are polled for it.                                                   *)
Dialled(o) ==
  IF ~o THEN modem
  ELSE CASE modem.kind = "rg" -> [modem EXCEPT !.pending = modem.call = "none"]
         [] modem.kind = "asr" -> [modem EXCEPT !.call = IF modem.call = "none" THEN "ours" ELSE @]
         [] OTHER -> [modem EXCEPT !.ctx = TRUE,
                                   !.call = IF modem.call = "none" THEN "ours" ELSE @]

requestSetupDataCall ==
  /\ m.at = "setup"
  /\ \E r \in {"ok", "error", "fail"} :
       \/ /\ cmd = "CGACT?" /\ EndsDialect("ok", r)
          /\ IF r = "ok" THEN Then(IF modem.ctx THEN "QNETDEVCTL=1" ELSE "CGACT=1")
             ELSE DialReturns(r)
          /\ UNCHANGED <<polls, devq, modem>>
       \/ /\ cmd = "CGACT=1" /\ EndsDialect(If(modem.reg), r)
          /\ IF r = "ok" THEN Then("QNETDEVCTL=1") ELSE DialReturns(r)
          /\ \E o \in Obeyed(r), a \in Addresses :
               modem' = IF o /\ modem.reg THEN [modem EXCEPT !.ctx = TRUE, !.addr = a] ELSE modem
          /\ UNCHANGED <<polls, devq>>
       \/ /\ cmd = "QNETDEVCTL=1"
          /\ EndsDialect(If(IF modem.kind = "asr" THEN modem.ctx ELSE modem.reg), r)
          /\ \E o \in Obeyed(r) :
               modem' = Dialled(o /\ IF modem.kind = "asr" THEN modem.ctx ELSE modem.reg)
          /\ IF r # "ok" THEN DialReturns(r) /\ UNCHANGED <<polls, devq>>
             ELSE IF ~asr /\ ~vers
             THEN Then("poll") /\ polls' = MaxPolls /\ UNCHANGED devq
             ELSE DialDone /\ UNCHANGED polls
       \/ /\ cmd = "poll" /\ EndsDialect(If(modem.call # "none"), r)
          /\ IF r = "fail" THEN DialReturns(r) /\ UNCHANGED <<polls, devq>>
             ELSE IF r = "ok" \/ polls = 1 THEN DialDone /\ polls' = 0
             ELSE Then("poll") /\ polls' = polls - 1 /\ UNCHANGED devq
          /\ UNCHANGED modem
  /\ UNCHANGED <<bootVars, reboot, shm, unread, troubles, leases>>

(* Hanging up always says "disconnected", whatever the modem answers.      *)
requestDeactivateDefaultPDP ==
  /\ m.at = "deact"
  /\ \E r \in {"ok", "error", "fail"} : EndsDialect("ok", r) /\ \E o \in Obeyed(r) :
       modem' = IF ~o THEN modem
                ELSE [modem EXCEPT !.call = "none", !.pending = FALSE,
                                   !.ctx = @ /\ modem.kind = "asr"]
  /\ change_connect_status("disconnected")
  /\ Goes(Returned(m, "zero"))
  /\ UNCHANGED <<polls, devq, bootVars, reboot, unread, troubles, leases>>

Requests ==
  \/ requestRegistrationState \/ requestQueryDataCall \/ requestGetIPAddress
  \/ requestSetupDataCall \/ requestDeactivateDefaultPDP

----------------------------------------------------------------------------
(* The loop: poll, the reboot that a card put in asks for, the handlers.   *)

Pending == TakesSignal(m) \/ TakesEvent(m, devq)

requestRebootModem ==
  /\ Pending /\ reboot /\ Ends("ok", "ok")
  /\ reboot' = FALSE /\ modem' = [modem EXCEPT !.gone = TRUE]
  /\ Goes(main_quit(m))
  /\ UNCHANGED <<polls, devq, bootVars, shm, unread, troubles, leases>>

Handle ==
  /\ IF reboot THEN \E r \in {"error", "fail"} : Ends("ok", r) ELSE UNCHANGED failed
  /\ \/ TakesSignal(m) /\ Goes(HandleSignal(m, devq)) /\ UNCHANGED devq
     \/ TakesEvent(m, devq) /\ Goes(HandleEvent(m, Head(devq))) /\ devq' = Tail(devq)
  /\ UNCHANGED <<polls, bootVars, reboot, shm, modem, unread, troubles, leases>>

Main == Boot \/ Requests \/ requestRebootModem \/ Handle

(* Only m changes. *)
Quietly(n) ==
  /\ m' = n
  /\ UNCHANGED <<cmd, polls, devq, chan, bootVars, reboot, shm, modem, unread, failed, troubles, leases>>

(* 15 s without an event; the end of the wait before another dial; the alarm. *)
PollTimesOut == m.at = "poll" /\ m.sig = <<>> /\ devq = <<>> /\ Quietly(Signal(m, "CHECK"))
HoldEnds == m.hold /\ Len(m.sig) <= 1 /\ m.at # "ended" /\ Quietly([m EXCEPT !.hold = FALSE])
AlarmFires ==
  m.alarm /\ ~m.hold /\ m.at # "ended" /\ Quietly(Signal([m EXCEPT !.alarm = FALSE], "START"))

(* SIGTERM: main is told, and the reader waits a second for it to finish.  *)
Terminate ==
  /\ m.at \notin {"boot", "ended"} /\ chan = "open"
  /\ troubles < MaxTroubles /\ troubles' = troubles + 1
  /\ m' = Signal(m, "STOP") /\ chan' = "closing"
  /\ UNCHANGED <<cmd, polls, devq, bootVars, reboot, shm, modem, unread, failed, leases>>

(* The reader ends: told to, after its second, or because the device went. *)
atc_read_thread ==
  /\ chan = "closing" \/ (chan = "open" /\ modem.gone)
  /\ chan' = "closed" /\ devq' = Append(devq, "disconnected")
  /\ UNCHANGED <<m, cmd, polls, bootVars, reboot, shm, modem, unread, failed, troubles, leases>>

----------------------------------------------------------------------------
(* The modem, the network and the DHCP client. *)

(* The modem reports what has changed, or the report is lost: not all of   *)
(* them send one.                                                          *)
onUnsolicited(e) ==
  /\ Len(devq) < MaxReports
  /\ devq' = IF chan = "closed" THEN devq ELSE Append(devq, e)
  /\ UNCHANGED <<m, cmd, polls, chan, bootVars, reboot, shm, unread, failed>>
Unreported ==
  UNCHANGED <<m, cmd, polls, devq, chan, bootVars, reboot, shm, unread, failed>>

(* The commands of the start-up look at nothing that changes here.         *)
Alive == ~modem.gone /\ m.at \notin {"boot", "ended"}
Trouble == Alive /\ troubles < MaxTroubles /\ troubles' = troubles + 1 /\ UNCHANGED leases

Registers ==
  /\ Alive /\ ~modem.reg /\ modem.sim = "ready" /\ modem' = [modem EXCEPT !.reg = TRUE]
  /\ onUnsolicited("network") \/ Unreported
  /\ UNCHANGED <<troubles, leases>>

Connects ==
  /\ Alive /\ modem.pending /\ modem.reg
  /\ \E a \in Addresses :
       modem' = [modem EXCEPT !.pending = FALSE, !.ctx = TRUE, !.call = "ours", !.addr = a]
  /\ onUnsolicited("datacall") \/ Unreported
  /\ UNCHANGED <<troubles, leases>>

Dropped == [modem EXCEPT !.ctx = FALSE, !.call = "none", !.pending = FALSE]
Drops ==
  /\ Trouble /\ (modem.ctx \/ modem.call # "none") /\ modem' = Dropped
  /\ onUnsolicited("datacall") \/ Unreported
Deregisters ==
  /\ Trouble /\ modem.reg /\ modem' = [Dropped EXCEPT !.reg = FALSE]
  /\ onUnsolicited("network") \/ Unreported
Readdresses ==
  /\ Trouble /\ modem.ctx
  /\ \E a \in Addresses \ {modem.addr} : modem' = [modem EXCEPT !.addr = a]
  /\ onUnsolicited("datacall") \/ Unreported

(* A card is put in: the modem reports it (readline, atchannel.c).         *)
SimInserted ==
  /\ Trouble /\ ~reboot /\ reboot' = TRUE
  /\ UNCHANGED <<m, cmd, polls, devq, chan, bootVars, shm, modem, unread, failed>>

(* The DHCP client beside the program, while the interface is not set down *)
(* by it: behind the modem's NAT the address is a private one, here 9.     *)
Leases ==
  /\ m.at \notin {"boot", "ended"} /\ m.link # 0 /\ modem.call # "none" /\ leases < MaxLeases /\ leases' = leases + 1
  /\ m' = [m EXCEPT !.nic = IF modem.nat THEN 9 ELSE modem.addr] /\ m' # m
  /\ UNCHANGED <<cmd, polls, devq, chan, bootVars, reboot, shm, modem, unread, failed, troubles>>

Environment ==
  \/ Registers \/ Connects \/ Drops \/ Deregisters \/ Readdresses \/ SimInserted \/ Leases

Ended == m.at = "ended" /\ UNCHANGED vars

Next ==
  \/ Main \/ PollTimesOut \/ HoldEnds \/ AlarmFires \/ Terminate \/ atc_read_thread
  \/ Environment \/ Ended

Spec == Init /\ [][Next]_vars

(* The program runs, time passes, the network lets the modem in. *)
FairSpec ==
  /\ Spec
  /\ WF_vars(Main) /\ WF_vars(PollTimesOut) /\ WF_vars(HoldEnds) /\ WF_vars(AlarmFires)
  /\ WF_vars(atc_read_thread) /\ WF_vars(Registers) /\ WF_vars(Connects)

----------------------------------------------------------------------------
(* Between two handlers, the shared memory says that the call is up while  *)
(* the program holds it for down only if a call that was reported up had   *)
(* no address to read (requestQueryDataCall tells failover "connected"     *)
(* before requestGetIPAddress fails, main.c:578): every other way to       *)
(* "disconnected" tells failover.                                          *)
FailoverTold ==
  m.at = "poll" /\ m.st = "disconnected" /\ shm = "connected" => unread

(* When the call is dialled the modem holds the profile of -s, whatever it *)
(* held before, unless AT+QICSGP failed to read or to write it: comparing  *)
(* with old_apn to old_auth never skips a profile that differs.            *)
ProfileInForce == m.at = "setup" => modem.prof = Asked \/ unset

(* A call left behind by an earlier session is not taken over: the program *)
(* holds such a call for connected only if a command failed, or the modem  *)
(* was misunderstood (main.c:408).                                         *)
LeftoverHungUp ==
  m.at = "poll" /\ m.st = "connected" /\ m.sig = <<>> /\ modem.call = "old"
    => failed > 0 \/ ~Understood

(* Once commands no longer fail and the network is calm, the session       *)
(* settles with the call up, reported up, and the interface set up for it; *)
(* or it is over, the modem wants its PIN, speaks another dialect than     *)
(* was found out at the start, or has another context bound (atc.c:881).   *)
Settled ==
  \/ m.at = "ended" \/ modem.gone \/ modem.sim = "pin" \/ ~Understood \/ modem.other
  \/ /\ modem.call # "none" /\ modem.ctx /\ m.st = "connected"
     /\ m.link = 1 /\ shm = "connected"
Restored == <>[]Settled

=============================================================================
