------------------------------ MODULE ConnMgr ------------------------------
(***************************************************************************)
(* The event loop of quectel-CM over a QMI modem (qmi_main in main.c with  *)
(* qmi_request_ops of QMIThread.c): it dials the data calls, checks them   *)
(* every 15 s, retries with a growing delay and keeps the network          *)
(* interface in line with what it knows.  One session is modelled, from    *)
(* the first CHECK to the end of qmi_main.  A handler is one step; every   *)
(* request it makes has one of the results the request can have.           *)
(***************************************************************************)
EXTENDS Integers, Sequences, FiniteSets

CONSTANTS Enabled,    \* the address families asked for: -4 and -6
          HasUser,    \* a user name and a password were given
          s_9x07,     \* the modem is asked for its system info (rawIP modems)
          Addresses,  \* the IPv4 addresses the network gives out
          Budget      \* bound: events of the modem, the network and the user

Families == {"v4", "v6"}
ASSUME ManagerConstants ==
    /\ Enabled \in SUBSET Families /\ Enabled # {}
    /\ HasUser \in BOOLEAN /\ s_9x07 \in BOOLEAN
    /\ Budget \in Nat
    /\ 0 \notin Addresses /\ Addresses # {}

VARIABLES
    k,           \* what is known of the calls, and the calls themselves
    s_link,      \* the families the interface was set up for
    ifAddr,      \* the IPv4 address of the interface, 0 for none
    redialled,   \* IPv4 was dialled while the interface was set up for it
    PSAttached,  \* PSAttachedState = 1
    loopback,    \* loopback_state # 0
    holdOff,     \* SetupCallAllowTime is in the future
    alarm,       \* a SIGALRM is pending
    sigq, devq,  \* the signal pipe and the events of the reader
    ended,       \* no, or why qmi_main returned
    closing,     \* the reader was told to stop, or the device hung up
    healthy,     \* from now on requests succeed and calls stay
    net,         \* the modem is attached to the network
    leased,      \* the address the network gives to the IPv4 call
    budget

vars == <<k, s_link, ifAddr, redialled, PSAttached, loopback, holdOff, alarm,
          sigq, devq, ended, closing, healthy, net, leased, budget>>
envVars == <<healthy, net, leased, budget>>
linkVars == <<s_link, ifAddr, redialled>>

(* k.st: IPv4/6ConnectionStatus; k.h: Wds handle # 0; k.ip: ipv4.Address;  *)
(* k.call: the call is up at the modem.                                    *)
Status == {"unknow", "disconnected", "connected", "other"}
Knowledge ==
    [st : [Families -> Status], h : [Families -> BOOLEAN],
     ip : Addresses \cup {0}, call : [Families -> BOOLEAN]]

Unset == {"unset"}

(* The handles, the address and s_link are static: an earlier session may  *)
(* have left them behind.                                                  *)
Init ==
    /\ \E h \in [Families -> BOOLEAN], ip \in Addresses \cup {0} :
           /\ \A f \in Families \ Enabled : ~h[f]
           /\ k = [st |-> [f \in Families |-> "unknow"], h |-> h, ip |-> ip,
                   call |-> [f \in Families |-> FALSE]]
    /\ s_link \in {Unset, {}} /\ ifAddr = 0 /\ redialled = FALSE
    /\ PSAttached \in BOOLEAN /\ net \in BOOLEAN /\ (PSAttached => net)
    /\ loopback = FALSE /\ holdOff = FALSE /\ alarm = FALSE
    /\ sigq = <<"CHECK">> /\ devq = <<>>
    /\ ended = "no" /\ closing = FALSE /\ healthy = FALSE
    /\ leased \in Addresses /\ budget = Budget

----------------------------------------------------------------------------
(* The requests.  Each gives the set of possible [ret, x]: ret "zero" for  *)
(* 0, "pos" for a QMI error, "neg" for a timeout or a send that failed.    *)
(* An aborted request returns 0 although nothing was answered.             *)

R(ret, x) == [ret |-> ret, x |-> x]
CallMay(x, f, to) == {x, [x EXCEPT !.call[f] = to]}

Fails(S) == IF healthy /\ ~closing THEN {} ELSE {R("neg", x) : x \in S}
Aborts(S) == IF closing THEN {R("zero", x) : x \in S} ELSE {}
Refused(x) == IF healthy /\ net THEN {} ELSE {R("pos", x)}

requestQueryDataCall(x, f) ==
    LET seen == CASE ~x.call[f] -> {"disconnected"}
                  [] x.call[f] /\ healthy -> {"connected"}
                  [] OTHER -> {"connected", "other", "disconnected"}
    IN  Fails({x}) \cup Aborts({x}) \cup
        {R("zero", [x EXCEPT !.st[f] = s,
                             !.h[f] = @ /\ s # "disconnected"]) : s \in seen}

requestSetupDataCall(x, f) ==
    Fails(CallMay(x, f, TRUE)) \cup Aborts(CallMay(x, f, TRUE)) \cup
    Refused(x) \cup
    IF net THEN {R("zero", [x EXCEPT !.call[f] = TRUE, !.h[f] = TRUE])} ELSE {}

requestDeactivateDefaultPDP(x, f) ==
    IF ~x.h[f] THEN {R("zero", x)}
    ELSE Fails(CallMay(x, f, FALSE)) \cup Aborts(CallMay(x, f, FALSE)) \cup
         {R("zero", [x EXCEPT !.call[f] = FALSE, !.h[f] = FALSE])}

requestGetIPAddress(y, f) ==
    LET x == IF f = "v4" THEN [y EXCEPT !.ip = 0] ELSE y
    IN  IF ~x.h[f] THEN {R("zero", x)}
        ELSE Fails({x}) \cup Aborts({x}) \cup
             IF x.call[f]
               THEN {R("zero", IF f = "v4" THEN [x EXCEPT !.ip = leased] ELSE x)}
               ELSE {R("pos", x)}

(* requestRegistrationState2 clears the state before it asks. *)
requestRegistrationState ==
    {net} \cup (IF healthy /\ ~closing THEN {}
                ELSE {~s_9x07 /\ PSAttached})

----------------------------------------------------------------------------
(* SIG_EVENT_START. *)

(* A refused IPv4 call is tried once more with the other authentication.   *)
SetupWithAuth(x, f) ==
    UNION {IF r.ret = "pos" /\ HasUser /\ f = "v4"
             THEN requestSetupDataCall(r.x, f) ELSE {r}
             : r \in requestSetupDataCall(x, f)}

DialErrorIgnored(x, f) ==
    IF f \notin Enabled \/ x.st[f] = "connected" THEN {x}
    ELSE {[r.x EXCEPT !.st[f] = "connected"] : r \in SetupWithAuth(x, f)}
Dial(x, f) ==
    IF f \notin Enabled \/ x.st[f] = "connected" THEN {x}
    ELSE UNION {IF r.ret # "zero" THEN {r.x}
                ELSE {IF g.ret = "zero" THEN [g.x EXCEPT !.st[f] = "connected"]
                                        ELSE g.x
                        : g \in requestGetIPAddress(r.x, f)}
                : r \in SetupWithAuth(x, f)}

Down(x) == \E f \in Enabled : x.st[f] = "disconnected"
Up(x) == \E f \in Families : x.st[f] = "connected"

EventStart ==
    \/ /\ ~PSAttached /\ ~loopback
       /\ alarm' = FALSE
       /\ UNCHANGED <<k, holdOff, redialled>>
    \/ /\ PSAttached \/ loopback
       /\ holdOff
       /\ alarm' = TRUE
       /\ UNCHANGED <<k, holdOff, redialled>>
    \/ /\ PSAttached \/ loopback
       /\ ~holdOff
       /\ \E x \in Dial(k, "v4") : k' \in Dial(x, "v6")
       /\ redialled' = (redialled \/ ("v4" \in s_link /\ k.st["v4"] # "connected"))
       /\ alarm' = Down(k') /\ holdOff' = Down(k')

----------------------------------------------------------------------------
(* SIG_EVENT_CHECK. *)

Lost(x, f) == [x EXCEPT !.st[f] = "disconnected"]

(* The address is read again; another one than before ends the call. *)
check_ipv4_address(x) ==
    UNION {IF r.ret = "zero" /\ r.x.ip = x.ip THEN {r.x}
           ELSE {Lost(d.x, "v4") : d \in requestDeactivateDefaultPDP(r.x, "v4")}
           : r \in requestGetIPAddress(x, "v4")}

CheckIPv4(x) ==
    IF "v4" \notin Enabled \/ x.st["v4"] = "disconnected" THEN {Lost(x, "v4")}
    ELSE LET answered == {r \in requestQueryDataCall(x, "v4") : r.ret = "zero"}
             failed == requestQueryDataCall(x, "v4") \ answered
             fetched == UNION {IF r.x.st["v4"] # "connected" \/ r.x.ip # 0 THEN {r.x}
                               ELSE {IF g.ret = "zero" THEN g.x ELSE Lost(g.x, "v4")
                                       : g \in requestGetIPAddress(r.x, "v4")}
                               : r \in answered}
         IN  {Lost(r.x, "v4") : r \in failed} \cup
             UNION {IF y.st["v4"] = "connected" THEN check_ipv4_address(y) ELSE {y}
                    : y \in fetched}

CheckIPv6(x) ==
    IF "v6" \notin Enabled \/ x.st["v6"] = "disconnected" THEN {Lost(x, "v6")}
    ELSE {r.x : r \in requestQueryDataCall(x, "v6")}

(* usbnet_link_change: the families that left lose their address, and the  *)
(* interface is set up again.  An IPv4 address is only put on it if there  *)
(* is one, and only taken off when the whole link goes down.               *)
LinkChangeNoDhcp(link, x) ==
    /\ s_link' = link /\ redialled' = FALSE
    /\ k' = IF "v4" \in link THEN x ELSE [x EXCEPT !.ip = 0]
    /\ ifAddr' = IF link = {} THEN 0 ELSE ifAddr
LinkChange(link, x) ==
    IF s_link = link THEN k' = x /\ UNCHANGED linkVars
    ELSE /\ s_link' = link /\ redialled' = FALSE
         /\ k' = IF "v4" \in link THEN x ELSE [x EXCEPT !.ip = 0]
         /\ ifAddr' = CASE link = {} -> 0
                        [] link # {} /\ k'.ip # 0 -> k'.ip
                        [] OTHER -> ifAddr

LinkForKeepsUp(x) ==
    IF Up(x) THEN LinkChange({f \in Families : x.st[f] = "connected"}, x)
             ELSE k' = x /\ UNCHANGED linkVars
LinkFor(x) ==
    CASE \A f \in Families : x.st[f] = "disconnected" -> LinkChange({}, x)
      [] Up(x) -> LinkChange({f \in Families : x.st[f] = "connected"}, x)
      [] OTHER -> k' = x /\ UNCHANGED linkVars

StartFromAlarmOnly(q) == q
StartAfterCheck(q) == IF Down(k') THEN Append(q, "START") ELSE q

EventCheck ==
    /\ PSAttached' \in IF PSAttached THEN {TRUE} ELSE requestRegistrationState
    /\ \E y \in CheckIPv4(k) : \E x \in CheckIPv6(y) : LinkFor(x)
    /\ sigq' = StartAfterCheck(Tail(sigq))
    /\ alarm' = FALSE
    /\ UNCHANGED <<loopback, holdOff, devq, ended, closing>>

----------------------------------------------------------------------------
(* SIG_EVENT_STOP, the events of the reader and the end of qmi_main.       *)

(* The requests of __main_quit and usbnet_link_change(0). *)
MainQuit(x, why) ==
    /\ \E d4 \in IF "v4" \in Enabled THEN requestDeactivateDefaultPDP(x, "v4")
                                     ELSE {R("zero", x)} :
       \E d6 \in IF "v6" \in Enabled
                   THEN requestDeactivateDefaultPDP(d4.x, "v6") ELSE {d4} :
           LinkChange({}, d6.x)
    /\ ended' = why

(* deinit gives the client ids back, and the modem ends their calls. *)
NoDeinit(x) == x
Deinit(x) == [x EXCEPT !.call = [f \in Families |-> FALSE]]

EventStop ==
    /\ \E d4 \in IF "v4" \in Enabled /\ k.st["v4"] = "connected"
                   THEN requestDeactivateDefaultPDP(k, "v4") ELSE {R("zero", k)} :
       \E d6 \in IF "v6" \in Enabled /\ k.st["v6"] = "connected"
                   THEN requestDeactivateDefaultPDP(d4.x, "v6") ELSE {d4} :
           MainQuit(Deinit(d6.x), "stop")
    /\ sigq' = Tail(sigq) /\ alarm' = FALSE
    /\ UNCHANGED <<PSAttached, loopback, holdOff, devq, closing>>

Running == ended = "no"

ReadSignal ==
    /\ Running /\ sigq # <<>>
    /\ CASE Head(sigq) = "START" ->
                /\ EventStart
                /\ sigq' = Tail(sigq)
                /\ UNCHANGED <<PSAttached, loopback, devq, ended, closing,
                               s_link, ifAddr>>
         [] Head(sigq) = "CHECK" -> EventCheck
         [] Head(sigq) = "STOP" -> EventStop
    /\ UNCHANGED envVars

NetworkStateChanged ==
    /\ PSAttached' \in requestRegistrationState
    /\ sigq' = IF PSAttached' /\ Down(k) THEN Append(sigq, "START") ELSE sigq
    /\ holdOff' = (PSAttached' /\ holdOff)
    /\ UNCHANGED <<k, s_link, ifAddr, redialled, loopback, ended>>

DataCallListChanged ==
    /\ holdOff' = (Up(k) \/ holdOff)
    /\ sigq' = Append(sigq, "CHECK")
    /\ UNCHANGED <<k, s_link, ifAddr, redialled, loopback, PSAttached, ended>>

LoopbackConfig ==
    /\ loopback' \in BOOLEAN
    /\ sigq' = IF loopback' THEN Append(sigq, "START") ELSE sigq
    /\ UNCHANGED <<k, s_link, ifAddr, redialled, PSAttached, holdOff, ended>>

ReadDevice ==
    /\ Running /\ devq # <<>>
    /\ devq' = Tail(devq)
    /\ CASE Head(devq) = "network" -> NetworkStateChanged
         [] Head(devq) = "datacall" -> DataCallListChanged
         [] Head(devq) = "loopback" -> LoopbackConfig
         [] Head(devq) \in {"reset", "disconnected"} ->
                MainQuit(k, "hangup") /\
                UNCHANGED <<PSAttached, loopback, holdOff, sigq>>
    /\ UNCHANGED <<alarm, closing>> /\ UNCHANGED envVars

(* poll: 15 s without an event. *)
PollTimeout ==
    /\ Running /\ sigq = <<>> /\ devq = <<>>
    /\ sigq' = <<"CHECK">>
    /\ UNCHANGED <<k, s_link, ifAddr, redialled, PSAttached, loopback, holdOff, alarm,
                   devq, ended, closing>> /\ UNCHANGED envVars

----------------------------------------------------------------------------
(* Time, the user, the modem and the network. *)

TimePasses ==
    /\ Running /\ holdOff /\ holdOff' = FALSE
    /\ UNCHANGED <<k, s_link, ifAddr, redialled, PSAttached, loopback, alarm, sigq, devq,
                   ended, closing>> /\ UNCHANGED envVars

AlarmFires ==
    /\ Running /\ alarm /\ alarm' = FALSE
    /\ holdOff' \in {holdOff, FALSE}
    /\ sigq' = Append(sigq, "START")
    /\ UNCHANGED <<k, s_link, ifAddr, redialled, PSAttached, loopback, devq, ended,
                   closing>> /\ UNCHANGED envVars

Spend == Running /\ budget > 0 /\ budget' = budget - 1

SigTerm ==
    /\ Spend
    /\ sigq' = Append(sigq, "STOP") /\ closing' = TRUE
    /\ UNCHANGED <<k, s_link, ifAddr, redialled, PSAttached, loopback, holdOff, alarm,
                   devq, ended, healthy, net, leased>>

(* The reader left: the device hung up, or the modem revoked the clients.  *)
DeviceLost ==
    /\ Spend
    /\ closing' = TRUE
    /\ \E e \in {"reset", "disconnected"} : devq' = Append(devq, e)
    /\ UNCHANGED <<k, s_link, ifAddr, redialled, PSAttached, loopback, holdOff, alarm,
                   sigq, ended, healthy, net, leased>>

CallDrops ==
    /\ Spend
    /\ \E f \in Families : k.call[f] /\ k' = [k EXCEPT !.call[f] = FALSE]
    /\ devq' \in {devq, Append(devq, "datacall")}
    /\ UNCHANGED <<s_link, ifAddr, redialled, PSAttached, loopback, holdOff, alarm, sigq,
                   ended, closing, healthy, net, leased>>

Readdressed ==
    /\ Spend
    /\ leased' \in Addresses \ {leased}
    /\ UNCHANGED <<k, s_link, ifAddr, redialled, PSAttached, loopback, holdOff, alarm,
                   sigq, devq, ended, closing, healthy, net>>

NetworkChanges ==
    /\ Spend
    /\ net' = ~net
    /\ k' = IF net' THEN k ELSE [k EXCEPT !.call = [f \in Families |-> FALSE]]
    /\ devq' \in {devq, Append(devq, "network")}
    /\ UNCHANGED <<s_link, ifAddr, redialled, PSAttached, loopback, holdOff, alarm, sigq,
                   ended, closing, healthy, leased>>

LoopbackIndication ==
    /\ Spend
    /\ devq' = Append(devq, "loopback")
    /\ UNCHANGED <<k, s_link, ifAddr, redialled, PSAttached, loopback, holdOff, alarm,
                   sigq, ended, closing, healthy, net, leased>>

(* From here on nothing goes wrong. *)
Settles ==
    /\ Running /\ ~healthy /\ healthy' = TRUE /\ net' = TRUE /\ budget' = 0
    /\ UNCHANGED <<k, s_link, ifAddr, redialled, PSAttached, loopback, holdOff, alarm,
                   sigq, devq, ended, closing, leased>>

----------------------------------------------------------------------------
Next ==
    \/ ReadSignal \/ ReadDevice \/ PollTimeout \/ TimePasses \/ AlarmFires
    \/ SigTerm \/ DeviceLost \/ CallDrops \/ Readdressed \/ NetworkChanges
    \/ LoopbackIndication \/ Settles

Spec == Init /\ [][Next]_vars

(* The loop runs, its clock runs, and the disturbances end at some time. *)
FairSpec ==
    /\ Spec
    /\ WF_vars(ReadSignal) /\ WF_vars(ReadDevice) /\ WF_vars(PollTimeout)
    /\ WF_vars(TimePasses) /\ WF_vars(AlarmFires) /\ WF_vars(Settles)

----------------------------------------------------------------------------
(* Types; the queues hold the events the loop knows. *)
TypeOK ==
    /\ k \in Knowledge
    /\ s_link \in SUBSET Families \cup {Unset}
    /\ ifAddr \in Addresses \cup {0}
    /\ sigq \in Seq({"START", "CHECK", "STOP"})
    /\ devq \in Seq({"network", "datacall", "loopback", "reset", "disconnected"})
    /\ ended \in {"no", "stop", "hangup"}
    /\ {PSAttached, loopback, holdOff, alarm, closing, healthy, net}
           \subseteq BOOLEAN
    /\ redialled \in BOOLEAN
    /\ leased \in Addresses /\ budget \in 0..Budget
    /\ s_link # Unset => s_link \subseteq Enabled

(* Once every family is known to be disconnected the interface is down:    *)
(* whatever request failed or was aborted, the loop never goes on routing  *)
(* into calls it has given up.                                             *)
NoLinkWithoutCall ==
    (\A f \in Families : k.st[f] = "disconnected") => s_link = {}

(* While the interface is set up for a connected IPv4 call it carries the  *)
(* address that call was given: a new address never meets an old set-up,   *)
(* unless the call was dialled with the interface still up (its status, or *)
(* the other family's, was neither connected nor disconnected) or requests *)
(* are being aborted.                                                      *)
AddressFresh ==
    "v4" \in s_link /\ k.st["v4"] = "connected" /\ k.ip # 0
        => ifAddr = k.ip \/ redialled \/ closing

(* The IPv4 call counts as connected only with the modem's handle for it,  *)
(* so that it can be asked for its address and hung up, unless the session *)
(* is being closed (an aborted request returns 0).  A failed query makes   *)
(* IPv4 disconnected; of IPv6 this does not hold, whose query may fail     *)
(* unnoticed.                                                              *)
ConnectedHasHandle == k.st["v4"] = "connected" => k.h["v4"] \/ closing

(* After SIGTERM neither a call nor a configured interface is left behind, *)
(* even if the request that dialled was aborted and its call came up late. *)
StopHangsUp == ended = "stop" => s_link = {} /\ \A f \in Families : ~k.call[f]

(* When the network and the modem settle, every enabled family gets its    *)
(* call and the interface its set-up, unless the session is over: no       *)
(* alarm(0), hold-off or lost indication stops the redialling for good.    *)
Restored ==
    healthy ~> \/ ended # "no"
               \/ s_link = Enabled /\ \A f \in Enabled : k.call[f]
=============================================================================
