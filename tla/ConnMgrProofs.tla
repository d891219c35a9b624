--------------------------- MODULE ConnMgrProofs ---------------------------
(***************************************************************************)
(* The dial loop, for any address families, addresses and number of        *)
(* disturbances.  First what the requests do to what is known of the       *)
(* calls, then the handlers, which are made of them: dialling only makes   *)
(* families connected, and every handler that may make one disconnected    *)
(* ends with LinkFor or with the whole link taken down.                    *)
(***************************************************************************)
EXTENDS ConnMgr, TLAPS

(* A request that leaves the status of both families as it is.             *)
Held(x, y) == y \in Knowledge /\ y.st = x.st

LEMMA CallSet ==
    ASSUME NEW x \in Knowledge, NEW f \in Families, NEW v \in BOOLEAN
    PROVE  Held(x, [x EXCEPT !.call[f] = v])
BY DEF Held, Knowledge

LEMMA CallsEnded ==
    ASSUME NEW x \in Knowledge
    PROVE  Held(x, [x EXCEPT !.call = [f \in Families |-> FALSE]])
BY Zenon DEF Held, Knowledge

LEMMA HandleSet ==
    ASSUME NEW x \in Knowledge, NEW f \in Families, NEW v \in BOOLEAN, NEW w \in BOOLEAN
    PROVE  Held(x, [x EXCEPT !.call[f] = v, !.h[f] = w])
BY Zenon DEF Held, Knowledge

LEMMA AddressSet ==
    ASSUME NEW x \in Knowledge, NEW a \in Addresses \cup {0}
    PROVE  Held(x, [x EXCEPT !.ip = a])
BY DEF Held, Knowledge

LEMMA StatusSet ==
    ASSUME NEW x \in Knowledge, NEW f \in Families, NEW s \in Status
    PROVE  /\ [x EXCEPT !.st[f] = s] \in Knowledge
           /\ [x EXCEPT !.st[f] = s].st = [x.st EXCEPT ![f] = s]
BY DEF Knowledge

LEMMA QuerySet ==
    ASSUME NEW x \in Knowledge, NEW f \in Families, NEW s \in Status, NEW w \in BOOLEAN
    PROVE  /\ [x EXCEPT !.st[f] = s, !.h[f] = w] \in Knowledge
           /\ [x EXCEPT !.st[f] = s, !.h[f] = w].st = [x.st EXCEPT ![f] = s]
BY Zenon DEF Knowledge

----------------------------------------------------------------------------
(* The requests.                                                           *)

LEMMA SetupHolds ==
    ASSUME NEW x \in Knowledge, NEW f \in Families
    PROVE  \A r \in requestSetupDataCall(x, f) : Held(x, r.x)
<1> DEFINE y == [x EXCEPT !.call[f] = TRUE]
           z == [x EXCEPT !.call[f] = TRUE, !.h[f] = TRUE]
<1>1. Held(x, x) /\ Held(x, y) /\ Held(x, z)
  BY CallSet, HandleSet, Zenon DEF Held
<1> HIDE DEF y, z
<1>2. requestSetupDataCall(x, f) \subseteq
        {R("neg", x), R("neg", y), R("zero", x), R("zero", y), R("pos", x), R("zero", z)}
  BY DEF requestSetupDataCall, Fails, Aborts, Refused, CallMay, y, z
<1> QED
  BY <1>1, <1>2 DEF R

(* It ends a call and starts none.                                         *)
LEMMA DeactivateHolds ==
    ASSUME NEW x \in Knowledge, NEW f \in Families
    PROVE  \A r \in requestDeactivateDefaultPDP(x, f) :
             Held(x, r.x) /\ \A g \in Families : r.x.call[g] => x.call[g]
<1> DEFINE y == [x EXCEPT !.call[f] = FALSE]
           z == [x EXCEPT !.call[f] = FALSE, !.h[f] = FALSE]
<1>1. Held(x, x) /\ Held(x, y) /\ Held(x, z)
  BY CallSet, HandleSet, Zenon DEF Held
<1>2. \A g \in Families : (y.call[g] => x.call[g]) /\ (z.call[g] => x.call[g])
  BY DEF Knowledge
<1> HIDE DEF y, z
<1>3. requestDeactivateDefaultPDP(x, f) \subseteq
        {R("zero", x), R("neg", x), R("neg", y), R("zero", y), R("zero", z)}
  BY DEF requestDeactivateDefaultPDP, Fails, Aborts, CallMay, y, z
<1> QED
  BY <1>1, <1>2, <1>3 DEF R

LEMMA GetIPHolds ==
    ASSUME NEW x \in Knowledge, NEW f \in Families, leased \in Addresses
    PROVE  \A r \in requestGetIPAddress(x, f) : Held(x, r.x)
<1> DEFINE y == IF f = "v4" THEN [x EXCEPT !.ip = 0] ELSE x
           z == IF f = "v4" THEN [y EXCEPT !.ip = leased] ELSE y
<1>1. Held(x, y)
  BY AddressSet DEF Held
<1>2. Held(y, z)
  BY <1>1, AddressSet, Zenon DEF Held
<1>3. Held(x, z)
  BY <1>1, <1>2 DEF Held
<1> HIDE DEF y
<1>4. \A r \in requestGetIPAddress(x, f) : r.x \in {y, z}
  BY DEF requestGetIPAddress, Fails, Aborts, R, y
<1> QED
  BY <1>1, <1>3, <1>4

LEMMA QueryHolds ==
    ASSUME NEW x \in Knowledge, NEW f \in Families
    PROVE  \A r \in requestQueryDataCall(x, f) : r.x \in Knowledge
<1>1. ASSUME NEW s \in {"connected", "other", "disconnected"}
      PROVE  [x EXCEPT !.st[f] = s, !.h[f] = x.h[f] /\ s # "disconnected"] \in Knowledge
  <2>1. s \in Status /\ (x.h[f] /\ s # "disconnected") \in BOOLEAN
    BY DEF Status
  <2> QED
    BY <2>1, QuerySet, Zenon
<1>2. ASSUME NEW r \in requestQueryDataCall(x, f)
      PROVE  \/ r \in {R("neg", x), R("zero", x)}
             \/ \E s \in {"connected", "other", "disconnected"} :
                  r = R("zero", [x EXCEPT !.st[f] = s, !.h[f] = x.h[f] /\ s # "disconnected"])
  BY Zenon DEF requestQueryDataCall, Fails, Aborts
<1> QED
  BY <1>1, <1>2 DEF R

----------------------------------------------------------------------------
(* The handlers.                                                           *)

(* Dialling makes a family connected or leaves what is known of it.        *)
Dialled(x, y) ==
    y \in Knowledge /\ \A g \in Families : y.st[g] \in {x.st[g], "connected"}

LEMMA DialHolds ==
    ASSUME NEW x \in Knowledge, NEW f \in Families, leased \in Addresses
    PROVE  \A y \in Dial(x, f) : Dialled(x, y)
<1>1. \A r \in SetupWithAuth(x, f) : Held(x, r.x)
  <2>1. ASSUME NEW r \in requestSetupDataCall(x, f), NEW t \in requestSetupDataCall(r.x, f)
        PROVE  Held(x, t.x)
    <3>1. Held(x, r.x)
      BY SetupHolds
    <3>2. Held(r.x, t.x)
      BY <3>1, SetupHolds DEF Held
    <3> QED
      BY <3>1, <3>2 DEF Held
  <2> QED
    BY <2>1, SetupHolds DEF SetupWithAuth
<1>2. ASSUME NEW r \in SetupWithAuth(x, f), NEW g \in requestGetIPAddress(r.x, f)
      PROVE  Held(x, g.x)
  <2>1. Held(x, r.x)
    BY <1>1
  <2>2. Held(r.x, g.x)
    BY <2>1, GetIPHolds DEF Held
  <2> QED
    BY <2>1, <2>2 DEF Held
<1>3. ASSUME NEW y, Held(x, y)
      PROVE  Dialled(x, y) /\ Dialled(x, [y EXCEPT !.st[f] = "connected"])
  <2>1. /\ [y EXCEPT !.st[f] = "connected"] \in Knowledge
        /\ [y EXCEPT !.st[f] = "connected"].st = [x.st EXCEPT ![f] = "connected"]
    <3>1. y \in Knowledge /\ y.st = x.st
      BY <1>3 DEF Held
    <3>2. "connected" \in Status
      BY DEF Status
    <3>3. /\ [y EXCEPT !.st[f] = "connected"] \in Knowledge
          /\ [y EXCEPT !.st[f] = "connected"].st = [y.st EXCEPT ![f] = "connected"]
      BY <3>1, <3>2, StatusSet
    <3> QED
      BY <3>1, <3>3, Zenon
  <2>2. x.st \in [Families -> Status]
    BY DEF Knowledge
  <2> QED
    BY <1>3, <2>1, <2>2 DEF Dialled, Held
<1>4. ASSUME NEW y \in Dial(x, f)
      PROVE  \/ y = x
             \/ \E r \in SetupWithAuth(x, f) :
                  \/ y = r.x
                  \/ \E g \in requestGetIPAddress(r.x, f) :
                       y = g.x \/ y = [g.x EXCEPT !.st[f] = "connected"]
  BY DEF Dial
<1>5. Held(x, x)
  BY DEF Held
<1> QED
  BY <1>1, <1>2, <1>3, <1>4, <1>5, Zenon

LEMMA CheckHolds ==
    ASSUME NEW x \in Knowledge, leased \in Addresses
    PROVE  \A y \in CheckIPv4(x) : y \in Knowledge
<1>1. \A y \in Knowledge : Lost(y, "v4") \in Knowledge
  BY StatusSet, Zenon DEF Lost, Families, Status
<1>2. "v4" \in Families
  BY DEF Families
<1>3. \A y \in Knowledge : \A r \in requestGetIPAddress(y, "v4") : r.x \in Knowledge
  BY <1>2, GetIPHolds DEF Held
<1>4. \A y \in Knowledge : \A r \in requestDeactivateDefaultPDP(y, "v4") : r.x \in Knowledge
  BY <1>2, DeactivateHolds DEF Held
<1>5. \A y \in Knowledge : \A z \in check_ipv4_address(y) : z \in Knowledge
  BY <1>1, <1>3, <1>4 DEF check_ipv4_address
<1>6. \A r \in requestQueryDataCall(x, "v4") : r.x \in Knowledge
  BY <1>2, QueryHolds
<1> QED
  BY <1>1, <1>3, <1>5, <1>6 DEF CheckIPv4

LEMMA CheckHolds6 ==
    ASSUME NEW x \in Knowledge
    PROVE  \A y \in CheckIPv6(x) : y \in Knowledge
<1>1. "v6" \in Families /\ Lost(x, "v6") \in Knowledge
  BY StatusSet, Zenon DEF Lost, Families, Status
<1>2. \A r \in requestQueryDataCall(x, "v6") : r.x \in Knowledge
  BY <1>1, QueryHolds
<1> QED
  BY <1>1, <1>2 DEF CheckIPv6

----------------------------------------------------------------------------
(* The link.                                                               *)

Disconnected(x) == \A f \in Families : x.st[f] = "disconnected"

LEMMA LinkChangeHolds ==
    ASSUME NEW x \in Knowledge, NEW link, LinkChange(link, x)
    PROVE  Held(x, k') /\ k'.call = x.call /\ s_link' = link
<1>1. Held(x, [x EXCEPT !.ip = 0]) /\ [x EXCEPT !.ip = 0].call = x.call
  BY AddressSet DEF Knowledge
<1> QED
  BY <1>1, Zenon DEF LinkChange, linkVars, Held

LEMMA LinkForHolds ==
    ASSUME NEW x \in Knowledge, LinkFor(x)
    PROVE  k' \in Knowledge /\ (Disconnected(k') => s_link' = {})
<1>1. CASE Disconnected(x)
  <2>1. LinkChange({}, x)
    BY <1>1 DEF LinkFor, Disconnected, Up, Families
  <2> QED
    BY <2>1, LinkChangeHolds DEF Held
<1>2. CASE ~ Disconnected(x) /\ Up(x)
  <2>1. LinkChange({f \in Families : x.st[f] = "connected"}, x)
    BY <1>2 DEF LinkFor, Disconnected
  <2> QED
    BY <1>2, <2>1, LinkChangeHolds DEF Held, Disconnected
<1>3. CASE ~ Disconnected(x) /\ ~ Up(x)
  BY <1>3 DEF LinkFor, Disconnected
<1> QED
  BY <1>1, <1>2, <1>3

(* Whatever the requests of __main_quit do, the link is down behind them   *)
(* and no call is there that was not there before.                         *)
LEMMA QuitHolds ==
    ASSUME NEW x \in Knowledge, NEW why, MainQuit(x, why)
    PROVE  /\ k' \in Knowledge /\ s_link' = {} /\ ended' = why
           /\ \A g \in Families : k'.call[g] => x.call[g]
<1> DEFINE Less(y) == y \in Knowledge /\ \A g \in Families : y.call[g] => x.call[g]
<1>1. "v4" \in Families /\ "v6" \in Families
  BY DEF Families
<1>2. PICK d4 \in IF "v4" \in Enabled THEN requestDeactivateDefaultPDP(x, "v4")
                                      ELSE {R("zero", x)} :
        \E d6 \in IF "v6" \in Enabled
                    THEN requestDeactivateDefaultPDP(d4.x, "v6") ELSE {d4} :
            LinkChange({}, d6.x)
  BY DEF MainQuit
<1>3. Less(d4.x)
  BY <1>1, <1>2, DeactivateHolds DEF Held, R
<1>4. PICK d6 \in IF "v6" \in Enabled
                    THEN requestDeactivateDefaultPDP(d4.x, "v6") ELSE {d4} :
        LinkChange({}, d6.x)
  BY <1>2
<1>5. Less(d6.x)
  BY <1>1, <1>3, <1>4, DeactivateHolds DEF Held
<1>6. Held(d6.x, k') /\ k'.call = d6.x.call /\ s_link' = {}
  BY <1>4, <1>5, LinkChangeHolds
<1> QED
  BY <1>5, <1>6 DEF MainQuit, Held

----------------------------------------------------------------------------
Signals == {"START", "CHECK", "STOP"}
Reports == {"network", "datacall", "loopback", "reset", "disconnected"}

Types == /\ k \in Knowledge /\ leased \in Addresses
         /\ sigq \in Seq(Signals) /\ devq \in Seq(Reports)

Sound == Types /\ NoLinkWithoutCall /\ StopHangsUp

LEMMA SoundBegins == Init => Sound
<1> SUFFICES ASSUME Init PROVE Sound
  OBVIOUS
<1>1. PICK h \in [Families -> BOOLEAN], ip \in Addresses \cup {0} :
        k = [st |-> [f \in Families |-> "unknow"], h |-> h, ip |-> ip,
             call |-> [f \in Families |-> FALSE]]
  BY Zenon DEF Init
<1>2. k \in Knowledge
  BY <1>1 DEF Knowledge, Status
<1>3. Types
  BY <1>2 DEF Types, Init, Signals, Reports
<1>4. NoLinkWithoutCall
  BY <1>1 DEF NoLinkWithoutCall, Families
<1> QED
  BY <1>3, <1>4 DEF Sound, StopHangsUp, Init

LEMMA Queued ==
    ASSUME Types
    PROVE  /\ \A e \in Signals : Append(sigq, e) \in Seq(Signals)
           /\ \A e \in Reports : Append(devq, e) \in Seq(Reports)
           /\ <<"CHECK">> \in Seq(Signals)
BY DEF Types, Signals

(* The queues and the lease stay what they are.                            *)
Queues == leased' \in Addresses /\ sigq' \in Seq(Signals) /\ devq' \in Seq(Reports)

LEMMA SoundStart ==
    ASSUME Sound, Running, EventStart, Queues, UNCHANGED <<s_link, ended>>
    PROVE  Sound'
<1>1. "v4" \in Families /\ "v6" \in Families
  BY DEF Families
<1>2. CASE UNCHANGED k
  BY <1>2 DEF Sound, Types, Queues, NoLinkWithoutCall, StopHangsUp, Running
<1>3. ASSUME NEW x \in Dial(k, "v4"), k' \in Dial(x, "v6")
      PROVE  Sound'
  <2>1. Dialled(k, x)
    BY <1>1, DialHolds DEF Sound, Types
  <2>2. Dialled(x, k')
    BY <1>1, <1>3, <2>1, DialHolds DEF Sound, Types, Dialled
  <2>3. Disconnected(k') => Disconnected(k)
    BY <2>1, <2>2 DEF Dialled, Disconnected
  <2> QED
    BY <2>2, <2>3 DEF Sound, Types, Queues, NoLinkWithoutCall, StopHangsUp, Running,
                      Dialled, Disconnected
<1> QED
  BY <1>2, <1>3 DEF EventStart

LEMMA SoundCheck == ASSUME Sound, Running, EventCheck, Queues PROVE Sound'
<1>1. PICK y \in CheckIPv4(k) : \E x \in CheckIPv6(y) : LinkFor(x)
  BY DEF EventCheck
<1>2. PICK x \in CheckIPv6(y) : LinkFor(x)
  BY <1>1
<1>3. x \in Knowledge
  BY CheckHolds, CheckHolds6 DEF Sound, Types
<1>4. k' \in Knowledge /\ (Disconnected(k') => s_link' = {})
  BY <1>2, <1>3, LinkForHolds
<1> QED
  BY <1>4 DEF Sound, Types, Queues, NoLinkWithoutCall, StopHangsUp, Running, Disconnected,
              EventCheck

(* SIGTERM: calls that are known are hung up, then deinit, then the rest.  *)
LEMMA StopQuits ==
    ASSUME Sound, EventStop
    PROVE  \E x : Deinit(x) \in Knowledge /\ MainQuit(Deinit(x), "stop")
                  /\ \A f \in Families : ~ Deinit(x).call[f]
<1>1. "v4" \in Families /\ "v6" \in Families
  BY DEF Families
<1>2. PICK d4 \in IF "v4" \in Enabled /\ k.st["v4"] = "connected"
                    THEN requestDeactivateDefaultPDP(k, "v4") ELSE {R("zero", k)} :
        \E d6 \in IF "v6" \in Enabled /\ k.st["v6"] = "connected"
                    THEN requestDeactivateDefaultPDP(d4.x, "v6") ELSE {d4} :
            MainQuit(Deinit(d6.x), "stop")
  BY DEF EventStop
<1>3. d4.x \in Knowledge
  BY <1>1, <1>2, DeactivateHolds DEF Sound, Types, Held, R
<1>4. PICK d6 \in IF "v6" \in Enabled /\ k.st["v6"] = "connected"
                    THEN requestDeactivateDefaultPDP(d4.x, "v6") ELSE {d4} :
        MainQuit(Deinit(d6.x), "stop")
  BY <1>2
<1>5. d6.x \in Knowledge
  BY <1>1, <1>3, <1>4, DeactivateHolds DEF Held
<1>6. Deinit(d6.x) \in Knowledge /\ \A f \in Families : ~ Deinit(d6.x).call[f]
  BY <1>5, Zenon DEF Deinit, Knowledge
<1> QED
  BY <1>4, <1>6, Zenon

LEMMA SoundStop == ASSUME Sound, EventStop, Queues PROVE Sound'
<1>1. PICK x : Deinit(x) \in Knowledge /\ MainQuit(Deinit(x), "stop")
               /\ \A f \in Families : ~ Deinit(x).call[f]
  BY StopQuits
<1>2. /\ k' \in Knowledge /\ s_link' = {}
      /\ \A f \in Families : ~ k'.call[f]
  BY <1>1, QuitHolds
<1> QED
  BY <1>2 DEF Sound, Types, Queues, NoLinkWithoutCall, StopHangsUp

LEMMA SoundHangup == ASSUME Sound, MainQuit(k, "hangup"), Queues PROVE Sound'
<1>1. k' \in Knowledge /\ s_link' = {} /\ ended' = "hangup"
  BY QuitHolds DEF Sound, Types
<1> QED
  BY <1>1 DEF Sound, Types, Queues, NoLinkWithoutCall, StopHangsUp

(* The network ends calls, and touches nothing else that is known.         *)
LEMMA SoundElsewhere ==
    ASSUME Sound, Running, Queues, UNCHANGED <<s_link, ended>>,
           \/ UNCHANGED k
           \/ \E f \in Families : k' = [k EXCEPT !.call[f] = FALSE]
           \/ k' = [k EXCEPT !.call = [f \in Families |-> FALSE]]
    PROVE  Sound'
<1>1. k' \in Knowledge /\ k'.st = k.st
  <2>1. k \in Knowledge
    BY DEF Sound, Types
  <2>2. CASE UNCHANGED k
    BY <2>1, <2>2
  <2>3. ASSUME NEW f \in Families, k' = [k EXCEPT !.call[f] = FALSE]
        PROVE  k' \in Knowledge /\ k'.st = k.st
    <3>1. Held(k, [k EXCEPT !.call[f] = FALSE])
      BY <2>1, CallSet, Zenon
    <3> QED
      BY <2>3, <3>1, Zenon DEF Held
  <2>4. CASE k' = [k EXCEPT !.call = [f \in Families |-> FALSE]]
    <3>1. Held(k, [k EXCEPT !.call = [f \in Families |-> FALSE]])
      BY <2>1, CallsEnded
    <3> QED
      BY <2>4, <3>1, Zenon DEF Held
  <2> QED
    BY <2>2, <2>3, <2>4, Zenon
<1> QED
  BY <1>1 DEF Sound, Types, Queues, NoLinkWithoutCall, StopHangsUp, Running

LEMMA SoundKept == ASSUME Sound, [Next]_vars PROVE Sound'
<1> USE DEF Sound, Types
<1>1. CASE ReadSignal
  <2>1. Head(sigq) \in Signals /\ Tail(sigq) \in Seq(Signals)
    BY <1>1 DEF ReadSignal
  <2>2. CASE Head(sigq) = "START"
    <3>1. EventStart /\ Queues /\ UNCHANGED <<s_link, ended>>
      BY <1>1, <2>1, <2>2, Zenon DEF ReadSignal, Queues, envVars
    <3> QED
      BY <1>1, <3>1, SoundStart DEF ReadSignal
  <2>3. CASE Head(sigq) = "CHECK"
    <3>1. EventCheck /\ leased' = leased
      BY <1>1, <2>3, Zenon DEF ReadSignal, envVars
    <3>2. Queues
      BY <2>1, <3>1 DEF EventCheck, StartAfterCheck, Queues, Signals
    <3> QED
      BY <1>1, <3>1, <3>2, SoundCheck DEF ReadSignal
  <2>4. CASE Head(sigq) = "STOP"
    <3>1. EventStop /\ Queues
      BY <1>1, <2>1, <2>4, Zenon DEF ReadSignal, EventStop, Queues, envVars
    <3> QED
      BY <3>1, SoundStop
  <2> QED
    BY <2>1, <2>2, <2>3, <2>4 DEF Signals
<1>2. CASE ReadDevice
  <2>1. Head(devq) \in Reports /\ devq' \in Seq(Reports) /\ leased' = leased
    BY <1>2 DEF ReadDevice, envVars
  <2>2. CASE Head(devq) \in {"reset", "disconnected"}
    BY <1>2, <2>1, <2>2, SoundHangup, Zenon DEF ReadDevice, Queues
  <2>3. CASE Head(devq) \in {"network", "datacall", "loopback"}
    <3>1. sigq' \in Seq(Signals) /\ UNCHANGED <<k, s_link, ended>>
      <4>1. sigq' \in {sigq, Append(sigq, "START"), Append(sigq, "CHECK")}
        BY <1>2, <2>3, Zenon DEF ReadDevice, NetworkStateChanged, DataCallListChanged, LoopbackConfig
      <4>2. UNCHANGED <<k, s_link, ended>>
        BY <1>2, <2>3, Zenon DEF ReadDevice, NetworkStateChanged, DataCallListChanged, LoopbackConfig
      <4> QED
        BY <4>1, <4>2, Queued, Zenon DEF Signals
    <3> QED
      BY <1>2, <2>1, <3>1, SoundElsewhere DEF ReadDevice, Queues
  <2> QED
    BY <2>1, <2>2, <2>3 DEF Reports
<1>3. CASE PollTimeout \/ TimePasses \/ AlarmFires
  <2>1. Running /\ Queues /\ UNCHANGED <<k, s_link, ended>>
    <3>1. /\ Running /\ UNCHANGED <<k, s_link, ended, devq, leased>>
          /\ sigq' \in {sigq, Append(sigq, "START"), <<"CHECK">>}
      BY <1>3, Zenon DEF PollTimeout, TimePasses, AlarmFires, envVars
    <3> QED
      BY <3>1, Queued, Zenon DEF Queues, Signals
  <2> QED
    BY <2>1, SoundElsewhere
<1>4. CASE SigTerm \/ DeviceLost \/ Readdressed \/ LoopbackIndication \/ Settles
  <2>1. Running /\ Queues /\ UNCHANGED <<k, s_link, ended>>
    <3>1. /\ Running /\ UNCHANGED <<k, s_link, ended>>
          /\ sigq' \in {sigq, Append(sigq, "STOP")}
          /\ \/ devq' = devq
             \/ \E e \in {"reset", "disconnected", "loopback"} : devq' = Append(devq, e)
          /\ leased' \in Addresses
      BY <1>4 DEF SigTerm, DeviceLost, Readdressed, LoopbackIndication, Settles, Spend
    <3> QED
      BY <3>1, Queued, Zenon DEF Queues, Signals, Reports
  <2> QED
    BY <2>1, SoundElsewhere
<1>5. CASE CallDrops
  <2>1. /\ Running /\ Queues /\ UNCHANGED <<s_link, ended>>
        /\ \E f \in Families : k' = [k EXCEPT !.call[f] = FALSE]
    <3>1. /\ Running /\ UNCHANGED <<s_link, ended, sigq, leased>>
          /\ devq' \in {devq, Append(devq, "datacall")}
      BY <1>5 DEF CallDrops, Spend
    <3>2. \E f \in Families : k' = [k EXCEPT !.call[f] = FALSE]
      BY <1>5, Zenon DEF CallDrops
    <3> QED
      BY <3>1, <3>2, Queued, Zenon DEF Queues, Reports
  <2> QED
    BY <2>1, SoundElsewhere, Zenon
<1>6. CASE NetworkChanges
  <2>1. /\ Running /\ Queues /\ UNCHANGED <<s_link, ended>>
        /\ UNCHANGED k \/ k' = [k EXCEPT !.call = [f \in Families |-> FALSE]]
    <3>1. /\ Running /\ UNCHANGED <<s_link, ended, sigq, leased>>
          /\ devq' \in {devq, Append(devq, "network")}
      BY <1>6 DEF NetworkChanges, Spend
    <3>2. UNCHANGED k \/ k' = [k EXCEPT !.call = [f \in Families |-> FALSE]]
      BY <1>6, Zenon DEF NetworkChanges
    <3> QED
      BY <3>1, <3>2, Queued, Zenon DEF Queues, Reports
  <2> QED
    BY <2>1, SoundElsewhere
<1>7. CASE UNCHANGED vars
  BY <1>7 DEF vars, NoLinkWithoutCall, StopHangsUp
<1> QED
  BY <1>1, <1>2, <1>3, <1>4, <1>5, <1>6, <1>7 DEF Next

----------------------------------------------------------------------------
(* Once every family is known to be disconnected the interface is down,    *)
(* whatever failed or was aborted (the handlers of qmi_main).              *)
THEOREM LinkFollowsCalls == Spec => []NoLinkWithoutCall
BY SoundBegins, SoundKept, PTL DEF Spec, Sound

(* After SIGTERM neither a call nor a link is left (__main_quit, deinit).  *)
THEOREM StopLeavesNothing == Spec => []StopHangsUp
BY SoundBegins, SoundKept, PTL DEF Spec, Sound

----------------------------------------------------------------------------
(* The address of the interface.  While requests are not aborted: a live   *)
(* IPv4 call has its handle, so that its address is really read; before    *)
(* the first CHECK nothing is dialled; and the link was set up with the    *)
(* address that is known, or IPv4 was dialled behind its back.             *)

Live == {"connected", "other"}
Fresh ==
    /\ ended # "no" => s_link = {}
    /\ ended = "no" /\ ~ closing =>
         /\ k.st["v4"] \in Live => k.h["v4"]
         /\ k.st["v4"] = "unknow" => sigq # <<>> /\ Head(sigq) = "CHECK" /\ ~ k.call["v4"]
         /\ "v4" \in s_link /\ k.st["v4"] \in Live => (k.ip # 0 /\ ifAddr = k.ip) \/ redialled

LEMMA FreshBegins == Init => Fresh
<1> SUFFICES ASSUME Init PROVE Fresh
  OBVIOUS
<1>1. PICK h \in [Families -> BOOLEAN], ip \in Addresses \cup {0} :
        k = [st |-> [f \in Families |-> "unknow"], h |-> h, ip |-> ip,
             call |-> [f \in Families |-> FALSE]]
  BY Zenon DEF Init
<1>2. k.st["v4"] = "unknow" /\ ~ k.call["v4"]
  BY <1>1 DEF Families
<1> QED
  BY <1>2 DEF Init, Fresh, Live

(* What the assignments of the requests leave alone.                       *)
LEMMA CallOnly ==
    ASSUME NEW x \in Knowledge, NEW f \in Families, NEW v \in BOOLEAN, NEW y,
           y = [x EXCEPT !.call[f] = v]
    PROVE  y.st = x.st /\ y.h = x.h /\ y.ip = x.ip
BY DEF Knowledge

LEMMA AddressOnly ==
    ASSUME NEW x \in Knowledge, NEW a, NEW y, y = [x EXCEPT !.ip = a]
    PROVE  y.st = x.st /\ y.h = x.h /\ y.ip = a /\ y.call = x.call
BY DEF Knowledge

LEMMA StatusOnly ==
    ASSUME NEW x \in Knowledge, NEW f \in Families, NEW s, NEW y, y = [x EXCEPT !.st[f] = s]
    PROVE  y.st = [x.st EXCEPT ![f] = s] /\ y.h = x.h /\ y.ip = x.ip /\ y.call = x.call
BY DEF Knowledge

LEMMA Fields ==
    ASSUME NEW x \in Knowledge
    PROVE  /\ x.st \in [Families -> Status] /\ x.h \in [Families -> BOOLEAN]
           /\ x.call \in [Families -> BOOLEAN] /\ x.ip \in Addresses \cup {0}
BY DEF Knowledge

----------------------------------------------------------------------------
(* The requests once more, when none is aborted.                           *)

LEMMA SetupGives ==
    ASSUME NEW x \in Knowledge, NEW f \in Families, ~ closing,
           NEW r \in requestSetupDataCall(x, f)
    PROVE  /\ r.x \in Knowledge /\ r.x.st = x.st /\ r.x.ip = x.ip
           /\ r.x.h = x.h \/ r.x.h = [x.h EXCEPT ![f] = TRUE]
           /\ r.ret = "zero" => r.x.h[f]
<1> DEFINE y == [x EXCEPT !.call[f] = TRUE]
           z == [x EXCEPT !.call[f] = TRUE, !.h[f] = TRUE]
<1>1. r.x \in Knowledge
  BY SetupHolds DEF Held
<1>2. y.st = x.st /\ y.h = x.h /\ y.ip = x.ip
  BY CallOnly
<1>3. z.st = x.st /\ z.h = [x.h EXCEPT ![f] = TRUE] /\ z.ip = x.ip
  <2>1. PICK t \in BOOLEAN : t = TRUE
    BY Zenon
  <2>2. z = [x EXCEPT !.call[f] = t, !.h[f] = t]
    BY <2>1, Zenon
  <2> HIDE DEF z
  <2>3. z.st = x.st /\ z.h = [x.h EXCEPT ![f] = t] /\ z.ip = x.ip
    BY <2>2, Fields DEF Knowledge
  <2> QED
    BY <2>1, <2>3, Zenon
<1>4. z.h[f]
  BY <1>3, Fields
<1> HIDE DEF y, z
<1>5. r \in {R("neg", x), R("neg", y), R("pos", x), R("zero", z)}
  BY DEF requestSetupDataCall, Fails, Aborts, Refused, CallMay, y, z
<1>6. r.x \in {x, y, z} /\ (r.ret = "zero" => r.x = z)
  BY <1>5 DEF R
<1> QED
  BY <1>1, <1>2, <1>3, <1>4, <1>6, Zenon

(* A call that has its handle is given the leased address.                 *)
LEMMA GetIPGives ==
    ASSUME NEW x \in Knowledge, NEW f \in Families, ~ closing, leased \in Addresses,
           NEW r \in requestGetIPAddress(x, f)
    PROVE  /\ r.x \in Knowledge /\ r.x.st = x.st /\ r.x.h = x.h /\ r.x.call = x.call
           /\ f # "v4" => r.x.ip = x.ip
           /\ f = "v4" /\ r.ret = "zero" /\ x.h["v4"] => r.x.ip = leased
<1>1. r.x \in Knowledge
  BY GetIPHolds DEF Held
<1>2. CASE f = "v4"
  <2> DEFINE y == [x EXCEPT !.ip = 0]
             z == [y EXCEPT !.ip = leased]
  <2>1. y.st = x.st /\ y.h = x.h /\ y.call = x.call /\ y \in Knowledge
    BY AddressOnly, AddressSet DEF Held
  <2>2. z.st = y.st /\ z.h = y.h /\ z.call = y.call /\ z.ip = leased
    BY <2>1, AddressOnly
  <2> HIDE DEF y, z
  <2>3. IF y.h[f] THEN r \in {R("neg", y), R("zero", z), R("pos", y)} ELSE r = R("zero", y)
    BY <1>2 DEF requestGetIPAddress, Fails, Aborts, y, z
  <2> QED
    BY <1>1, <1>2, <2>1, <2>2, <2>3 DEF R
<1>3. CASE f # "v4"
  <2>1. r \in {R("neg", x), R("zero", x), R("pos", x)}
    BY <1>3 DEF requestGetIPAddress, Fails, Aborts
  <2> QED
    BY <1>1, <1>3, <2>1 DEF R
<1> QED
  BY <1>2, <1>3

(* A call that is not there is reported as such.                           *)
LEMMA QueryGives ==
    ASSUME NEW x \in Knowledge, NEW f \in Families, ~ closing,
           NEW r \in requestQueryDataCall(x, f)
    PROVE  /\ r.x \in Knowledge /\ r.x.ip = x.ip /\ r.x.call = x.call
           /\ \A g \in Families \ {f} : r.x.st[g] = x.st[g] /\ r.x.h[g] = x.h[g]
           /\ r.ret = "zero" => \/ r.x.st[f] = "disconnected"
                                \/ r.x.st[f] \in Live /\ r.x.h[f] = x.h[f] /\ x.call[f]
<1>1. r.x \in Knowledge
  BY QueryHolds
<1>2. CASE r = R("neg", x)
  BY SMTT(30), <1>1, <1>2 DEF R
<1>3. CASE r # R("neg", x)
  <2>1. PICK s \in {"connected", "other", "disconnected"} :
          /\ r = R("zero", [x EXCEPT !.st[f] = s, !.h[f] = x.h[f] /\ s # "disconnected"])
          /\ s # "disconnected" => x.call[f]
    BY <1>3, Zenon DEF requestQueryDataCall, Fails, Aborts
  <2>2. r.ret = "zero" /\ r.x = [x EXCEPT !.st[f] = s, !.h[f] = x.h[f] /\ s # "disconnected"]
    BY <2>1 DEF R
  <2>a. PICK w \in BOOLEAN : w = (x.h[f] /\ s # "disconnected")
    BY Zenon
  <2>b. r.x = [x EXCEPT !.st[f] = s, !.h[f] = w]
    BY <2>2, <2>a, Zenon
  <2>3. /\ r.x.st = [x.st EXCEPT ![f] = s]
        /\ r.x.h = [x.h EXCEPT ![f] = w]
        /\ r.x.ip = x.ip /\ r.x.call = x.call
    BY <2>b, Fields DEF Knowledge
  <2>4. s # "disconnected" => r.x.h[f] = x.h[f]
    <3>1. x.h[f] \in BOOLEAN
      BY Fields
    <3>2. s # "disconnected" => w = x.h[f]
      BY <2>a, <3>1, Zenon
    <3>3. r.x.h[f] = w
      BY <2>3, Fields
    <3> QED
      BY <3>2, <3>3, Zenon
  <2> QED
    BY <1>1, <2>1, <2>2, <2>3, <2>4, Fields DEF Live
<1> QED
  BY <1>2, <1>3

----------------------------------------------------------------------------
(* Dialling gives a handle to what it makes connected, and takes none.     *)
LEMMA AuthGives ==
    ASSUME NEW x \in Knowledge, NEW f \in Families, ~ closing, NEW r \in SetupWithAuth(x, f)
    PROVE  /\ r.x \in Knowledge /\ r.x.st = x.st /\ r.x.ip = x.ip
           /\ \A g \in Families : x.h[g] => r.x.h[g]
           /\ r.ret = "zero" => r.x.h[f]
<1>1. ASSUME NEW y \in Knowledge, NEW t \in requestSetupDataCall(y, f)
      PROVE  /\ t.x \in Knowledge /\ t.x.st = y.st /\ t.x.ip = y.ip
             /\ \A g \in Families : y.h[g] => t.x.h[g]
             /\ t.ret = "zero" => t.x.h[f]
  <2>1. /\ t.x \in Knowledge /\ t.x.st = y.st /\ t.x.ip = y.ip
        /\ t.x.h = y.h \/ t.x.h = [y.h EXCEPT ![f] = TRUE]
        /\ t.ret = "zero" => t.x.h[f]
    BY SetupGives
  <2>2. \A g \in Families : y.h[g] => t.x.h[g]
    BY <2>1, Fields, Zenon
  <2> QED
    BY <2>1, <2>2, Zenon
<1>2. \/ r \in requestSetupDataCall(x, f)
      \/ \E q \in requestSetupDataCall(x, f) : r \in requestSetupDataCall(q.x, f)
  BY DEF SetupWithAuth
<1>3. CASE r \in requestSetupDataCall(x, f)
  BY <1>1, <1>3, Zenon
<1>4. ASSUME NEW q \in requestSetupDataCall(x, f), r \in requestSetupDataCall(q.x, f)
      PROVE  /\ r.x \in Knowledge /\ r.x.st = x.st /\ r.x.ip = x.ip
             /\ \A g \in Families : x.h[g] => r.x.h[g]
             /\ r.ret = "zero" => r.x.h[f]
  <2>1. /\ q.x \in Knowledge /\ q.x.st = x.st /\ q.x.ip = x.ip
        /\ \A g \in Families : x.h[g] => q.x.h[g]
    BY <1>1, Zenon
  <2>2. /\ r.x \in Knowledge /\ r.x.st = q.x.st /\ r.x.ip = q.x.ip
        /\ \A g \in Families : q.x.h[g] => r.x.h[g]
        /\ r.ret = "zero" => r.x.h[f]
    BY <1>1, <1>4, <2>1, Zenon
  <2> QED
    BY <2>1, <2>2, Zenon
<1> QED
  BY <1>2, <1>3, <1>4, Zenon

LEMMA DialGives ==
    ASSUME NEW x \in Knowledge, NEW f \in Families, ~ closing, leased \in Addresses,
           NEW y \in Dial(x, f)
    PROVE  /\ y \in Knowledge
           /\ x.st[f] = "connected" => y = x
           /\ \A g \in Families : x.h[g] => y.h[g]
           /\ \A g \in Families \ {f} : y.st[g] = x.st[g]
           /\ y.st[f] = x.st[f] \/ (y.st[f] = "connected" /\ y.h[f])
           /\ f # "v4" => y.ip = x.ip
<1>1. CASE y = x
  BY <1>1
<1>2. CASE y # x
  <2>1. x.st[f] # "connected"
    BY <1>2 DEF Dial
  <2>2. PICK r \in SetupWithAuth(x, f) :
          \/ y = r.x
          \/ r.ret = "zero" /\ \E g \in requestGetIPAddress(r.x, f) :
                                 y = g.x \/ y = [g.x EXCEPT !.st[f] = "connected"]
    BY <1>2 DEF Dial
  <2>3. /\ r.x \in Knowledge /\ r.x.st = x.st /\ r.x.ip = x.ip
        /\ \A g \in Families : x.h[g] => r.x.h[g]
        /\ r.ret = "zero" => r.x.h[f]
    BY AuthGives
  <2>4. CASE y = r.x
    BY <2>1, <2>3, <2>4, Zenon
  <2>5. ASSUME NEW g \in requestGetIPAddress(r.x, f), r.ret = "zero",
               y = g.x \/ y = [g.x EXCEPT !.st[f] = "connected"]
        PROVE  /\ y \in Knowledge
               /\ \A e \in Families : x.h[e] => y.h[e]
               /\ \A e \in Families \ {f} : y.st[e] = x.st[e]
               /\ y.st[f] = x.st[f] \/ (y.st[f] = "connected" /\ y.h[f])
               /\ f # "v4" => y.ip = x.ip
    <3>1. g.x \in Knowledge /\ g.x.st = x.st /\ g.x.h = r.x.h /\ (f # "v4" => g.x.ip = x.ip)
      BY <2>3, GetIPGives
    <3>2. y \in Knowledge
      BY <2>5, <3>1, StatusSet, Zenon DEF Status
    <3>3. y.h = r.x.h /\ y.ip = g.x.ip /\ (y.st = x.st \/ y.st = [x.st EXCEPT ![f] = "connected"])
      BY <2>5, <3>1, StatusOnly
    <3>4. x.st \in [Families -> Status]
      BY Fields
    <3>5. /\ \A e \in Families \ {f} : y.st[e] = x.st[e]
          /\ y.st[f] \in {x.st[f], "connected"}
      BY <3>3, <3>4
    <3> QED
      BY <2>3, <2>5, <3>1, <3>2, <3>3, <3>5, Zenon
  <2> QED
    BY <2>1, <2>2, <2>4, <2>5, Zenon
<1> QED
  BY <1>1, <1>2

(* The IPv4 call is up behind a check only with the handle, and with the   *)
(* address that was known, or one that was read because none was.          *)
LEMMA AddressChecked ==
    ASSUME NEW x \in Knowledge, ~ closing, leased \in Addresses, x.h["v4"],
           x.st["v4"] = "connected", NEW y \in check_ipv4_address(x)
    PROVE  /\ y \in Knowledge
           /\ \/ y.st["v4"] = "disconnected"
              \/ y.st["v4"] = "connected" /\ y.h["v4"] /\ y.ip = x.ip /\ x.ip # 0
<1>1. "v4" \in Families /\ 0 \notin Addresses
  BY ManagerConstants DEF Families
<1>2. PICK r \in requestGetIPAddress(x, "v4") :
        \/ r.ret = "zero" /\ r.x.ip = x.ip /\ y = r.x
        \/ \E d \in requestDeactivateDefaultPDP(r.x, "v4") : y = Lost(d.x, "v4")
  BY DEF check_ipv4_address
<1>3. /\ r.x \in Knowledge /\ r.x.st = x.st /\ r.x.h = x.h
      /\ r.ret = "zero" => r.x.ip = leased
  BY <1>1, GetIPGives
<1>4. CASE r.ret = "zero" /\ r.x.ip = x.ip /\ y = r.x
  BY <1>1, <1>3, <1>4, Zenon
<1>5. ASSUME NEW d \in requestDeactivateDefaultPDP(r.x, "v4"), y = Lost(d.x, "v4")
      PROVE  y \in Knowledge /\ y.st["v4"] = "disconnected"
  <2>1. d.x \in Knowledge
    BY <1>1, <1>3, DeactivateHolds DEF Held
  <2>2. "disconnected" \in Status
    BY DEF Status
  <2>3. y \in Knowledge /\ y.st = [d.x.st EXCEPT !["v4"] = "disconnected"]
    BY <1>1, <1>5, <2>1, <2>2, StatusSet DEF Lost
  <2> QED
    BY <1>1, <2>1, <2>3, Fields
<1> QED
  BY <1>2, <1>4, <1>5, Zenon

LEMMA GivenUp ==
    ASSUME NEW x \in Knowledge
    PROVE  Lost(x, "v4") \in Knowledge /\ Lost(x, "v4").st["v4"] = "disconnected"
<1>1. "v4" \in Families /\ "disconnected" \in Status
  BY DEF Families, Status
<1>2. /\ Lost(x, "v4") \in Knowledge
      /\ Lost(x, "v4").st = [x.st EXCEPT !["v4"] = "disconnected"]
  BY <1>1, StatusSet DEF Lost
<1> QED
  BY <1>1, <1>2, Fields

LEMMA CheckGives ==
    ASSUME NEW x \in Knowledge, ~ closing, leased \in Addresses,
           x.st["v4"] \in Live => x.h["v4"], x.st["v4"] = "unknow" => ~ x.call["v4"],
           NEW y \in CheckIPv4(x)
    PROVE  /\ y \in Knowledge
           /\ \/ y.st["v4"] = "disconnected"
              \/ /\ y.st["v4"] \in Live /\ x.st["v4"] \in Live /\ y.h["v4"]
                 /\ y.st["v4"] = "connected" => y.ip # 0
                 /\ x.ip # 0 => y.ip = x.ip
<1>1. "v4" \in Families
  BY DEF Families
<1>2. CASE "v4" \notin Enabled \/ x.st["v4"] = "disconnected"
  BY <1>2, GivenUp DEF CheckIPv4
<1>3. CASE ~ ("v4" \notin Enabled \/ x.st["v4"] = "disconnected")
  <2>1. PICK r \in requestQueryDataCall(x, "v4") :
          \/ r.ret # "zero" /\ y = Lost(r.x, "v4")
          \/ /\ r.ret = "zero"
             /\ \E z : /\ \/ z = r.x
                          \/ /\ r.x.ip = 0
                             /\ \E g \in requestGetIPAddress(r.x, "v4") :
                                  z = IF g.ret = "zero" THEN g.x ELSE Lost(g.x, "v4")
                       /\ y \in IF z.st["v4"] = "connected" THEN check_ipv4_address(z) ELSE {z}
    <3> DEFINE all == requestQueryDataCall(x, "v4")
               answered == {r \in all : r.ret = "zero"}
               read(r) == {IF g.ret = "zero" THEN g.x ELSE Lost(g.x, "v4")
                             : g \in requestGetIPAddress(r.x, "v4")}
               known(r) == r.x.st["v4"] # "connected" \/ r.x.ip # 0
               fetched == UNION {IF known(r) THEN {r.x} ELSE read(r) : r \in answered}
               rest(z) == IF z.st["v4"] = "connected" THEN check_ipv4_address(z) ELSE {z}
    <3>1. y \in {Lost(r.x, "v4") : r \in all \ answered} \cup UNION {rest(z) : z \in fetched}
      BY <1>3, Zenon DEF CheckIPv4
    <3>2. CASE \E r \in all \ answered : y = Lost(r.x, "v4")
      BY <3>2, Zenon
    <3>3. ASSUME NEW z \in fetched, y \in rest(z)
          PROVE  \E r \in answered :
                   /\ \/ z = r.x
                      \/ r.x.ip = 0 /\ z \in read(r)
                   /\ y \in rest(z)
      <4> HIDE DEF answered, rest, read
      <4> QED
        BY <3>3, Zenon
    <3>4. CASE \E z \in fetched : y \in rest(z)
      <4>1. PICK z \in fetched : y \in rest(z)
        BY <3>4
      <4>2. PICK r \in answered : /\ z = r.x \/ (r.x.ip = 0 /\ z \in read(r))
                                  /\ y \in rest(z)
        BY <3>3, <4>1, Zenon
      <4>3. r \in all /\ r.ret = "zero"
        BY <4>2, Zenon
      <4>4. z \in read(r) => \E g \in requestGetIPAddress(r.x, "v4") :
                               z = IF g.ret = "zero" THEN g.x ELSE Lost(g.x, "v4")
        BY Zenon
      <4> HIDE DEF answered, read
      <4> QED
        BY <4>2, <4>3, <4>4, Zenon
    <3> HIDE DEF all, answered, rest, fetched
    <3> QED
      BY <3>1, <3>2, <3>4, Zenon
  <2>2. /\ r.x \in Knowledge /\ r.x.ip = x.ip
        /\ r.ret = "zero" => \/ r.x.st["v4"] = "disconnected"
                             \/ r.x.st["v4"] \in Live /\ r.x.h["v4"] = x.h["v4"] /\ x.call["v4"]
    BY <1>1, QueryGives
  <2>3. CASE r.ret # "zero"
    BY <2>1, <2>2, <2>3, GivenUp
  <2>4. CASE r.ret = "zero"
    <3>1. PICK z : /\ \/ z = r.x
                      \/ /\ r.x.ip = 0
                         /\ \E g \in requestGetIPAddress(r.x, "v4") :
                              z = IF g.ret = "zero" THEN g.x ELSE Lost(g.x, "v4")
                   /\ y \in IF z.st["v4"] = "connected" THEN check_ipv4_address(z) ELSE {z}
      BY <2>1, <2>4, Zenon
    <3>2. x.st["v4"] \in Status
      BY <1>1, Fields
    <3>3. r.x.st["v4"] = "disconnected" \/ (r.x.st["v4"] \in Live /\ r.x.h["v4"] /\ x.st["v4"] \in Live)
      <4>1. x.call["v4"] => x.st["v4"] \in Live
        BY <1>3, <3>2 DEF Status, Live
      <4> QED
        BY <2>2, <2>4, <4>1, Zenon
    <3>4. /\ z \in Knowledge
          /\ z.st["v4"] = "disconnected" \/ (z.st["v4"] \in Live /\ z.h["v4"] /\ x.st["v4"] \in Live)
          /\ x.ip # 0 => z.ip = x.ip
      <4>1. CASE z = r.x
        BY <2>2, <3>3, <4>1, Zenon
      <4>2. ASSUME NEW g \in requestGetIPAddress(r.x, "v4"), r.x.ip = 0,
                   z = IF g.ret = "zero" THEN g.x ELSE Lost(g.x, "v4")
            PROVE  /\ z \in Knowledge
                   /\ z.st["v4"] = "disconnected"
                        \/ (z.st["v4"] \in Live /\ z.h["v4"] /\ x.st["v4"] \in Live)
                   /\ x.ip # 0 => z.ip = x.ip
        <5>1. g.x \in Knowledge /\ g.x.st = r.x.st /\ g.x.h = r.x.h
          BY <1>1, <2>2, GetIPGives
        <5>2. CASE g.ret = "zero"
          BY <2>2, <3>3, <4>2, <5>1, <5>2, Zenon
        <5>3. CASE g.ret # "zero"
          BY <2>2, <4>2, <5>1, <5>3, GivenUp, Zenon
        <5> QED
          BY <5>2, <5>3
      <4> QED
        BY <3>1, <4>1, <4>2, Zenon
    <3>5. CASE z.st["v4"] = "connected"
      <4>1. z.h["v4"] /\ x.st["v4"] \in Live
        BY <3>4, <3>5
      <4>2. /\ y \in Knowledge
            /\ \/ y.st["v4"] = "disconnected"
               \/ y.st["v4"] = "connected" /\ y.h["v4"] /\ y.ip = z.ip /\ z.ip # 0
        <5>1. y \in check_ipv4_address(z)
          BY <3>1, <3>5, Zenon
        <5> QED
          BY <3>4, <3>5, <4>1, <5>1, AddressChecked, Zenon
      <4>3. "connected" \in Live
        BY DEF Live
      <4> QED
        BY <3>4, <4>1, <4>2, <4>3, Zenon
    <3>6. CASE z.st["v4"] # "connected"
      BY <3>1, <3>4, <3>6, Zenon
    <3> QED
      BY <3>5, <3>6
  <2> QED
    BY <2>3, <2>4
<1> QED
  BY <1>2, <1>3

(* A check of IPv6 is none of IPv4.                                        *)
LEMMA CheckGives6 ==
    ASSUME NEW x \in Knowledge, ~ closing, NEW y \in CheckIPv6(x)
    PROVE  y.st["v4"] = x.st["v4"] /\ y.h["v4"] = x.h["v4"] /\ y.ip = x.ip
<1>1. "v4" \in Families \ {"v6"} /\ "v6" \in Families
  BY DEF Families
<1>2. CASE y = Lost(x, "v6")
  <2>1. y.st = [x.st EXCEPT !["v6"] = "disconnected"] /\ y.h = x.h /\ y.ip = x.ip
    BY <1>1, <1>2, StatusOnly DEF Lost
  <2> QED
    BY <1>1, <2>1, Fields
<1>3. ASSUME NEW r \in requestQueryDataCall(x, "v6"), y = r.x
      PROVE  y.st["v4"] = x.st["v4"] /\ y.h["v4"] = x.h["v4"] /\ y.ip = x.ip
  <2>1. /\ r.x.ip = x.ip
        /\ \A g \in Families \ {"v6"} : r.x.st[g] = x.st[g] /\ r.x.h[g] = x.h[g]
    BY <1>1, QueryGives
  <2> QED
    BY <1>1, <1>3, <2>1, Zenon
<1> QED
  BY <1>2, <1>3, Zenon DEF CheckIPv6

----------------------------------------------------------------------------
(* The handlers keep the address fresh.                                    *)

(* What has become of IPv4 after a check.                                  *)
Checked(x) ==
    \/ x.st["v4"] = "disconnected"
    \/ /\ x.st["v4"] \in Live /\ k.st["v4"] \in Live /\ x.h["v4"]
       /\ x.st["v4"] = "connected" => x.ip # 0
       /\ k.ip # 0 => x.ip = k.ip

LEMMA FreshLink ==
    ASSUME NEW x \in Knowledge, Checked(x), LinkFor(x), Fresh, ended = "no", ~ closing
    PROVE  \/ k'.st["v4"] = "disconnected"
           \/ /\ k'.st["v4"] \in Live /\ k'.h["v4"]
              /\ "v4" \in s_link' => (k'.ip # 0 /\ ifAddr' = k'.ip) \/ redialled'
<1>1. "v4" \in Families
  BY DEF Families
<1> DEFINE link == {f \in Families : x.st[f] = "connected"}
           gone == [x EXCEPT !.ip = 0]
<1>2. gone.st = x.st /\ gone.h = x.h
  BY AddressOnly
<1> HIDE DEF gone
<1>3. CASE x.st["v4"] = "disconnected"
  <2>1. k' = x \/ k' = gone
    BY Zenon DEF LinkFor, LinkChange, gone
  <2> QED
    BY <1>2, <1>3, <2>1, Zenon
<1>4. CASE x.st["v4"] # "disconnected"
  <2>1. /\ x.st["v4"] \in Live /\ k.st["v4"] \in Live /\ x.h["v4"]
        /\ x.st["v4"] = "connected" => x.ip # 0
        /\ k.ip # 0 => x.ip = k.ip
    BY <1>4, Zenon DEF Checked
  <2>2. "v4" \in s_link => (k.ip # 0 /\ ifAddr = k.ip) \/ redialled
    BY <2>1, Zenon DEF Fresh
  <2>3. CASE k' = x /\ UNCHANGED linkVars
    <3>1. k' = x /\ s_link' = s_link /\ ifAddr' = ifAddr /\ redialled' = redialled
      BY <2>3 DEF linkVars
    <3> QED
      BY <2>1, <2>2, <3>1, Zenon
  <2>4. CASE LinkChange(link, x)
    <3>1. CASE s_link = link
      BY <2>3, <2>4, <3>1, Zenon DEF LinkChange
    <3>2. CASE s_link # link /\ "v4" \notin link
      <4>1. s_link' = link /\ k' = gone
        BY <2>4, <3>2, Zenon DEF LinkChange, gone
      <4> QED
        BY <1>2, <2>1, <3>2, <4>1, Zenon
    <3>3. CASE s_link # link /\ "v4" \in link
      <4>1. x.st["v4"] = "connected" /\ x.ip # 0 /\ link # {}
        BY <2>1, <3>3, Zenon
      <4>2. k' = x
        BY <2>4, <3>3, Zenon DEF LinkChange
      <4>3. ifAddr' = x.ip
        <5>1. ifAddr' = CASE link = {} -> 0 [] link # {} /\ k'.ip # 0 -> k'.ip [] OTHER -> ifAddr
          BY <2>4, <3>3, Zenon DEF LinkChange
        <5> HIDE DEF link
        <5> QED
          BY <4>1, <4>2, <5>1
      <4> QED
        BY <2>1, <4>1, <4>2, <4>3, Zenon
    <3> QED
      BY <3>1, <3>2, <3>3, Zenon
  <2>5. ~ \A f \in Families : x.st[f] = "disconnected"
    BY <1>1, <1>4, Zenon
  <2>6. LinkChange(link, x) \/ (k' = x /\ UNCHANGED linkVars)
    BY <2>5 DEF LinkFor
  <2> QED
    BY <2>3, <2>4, <2>6, Zenon
<1> QED
  BY <1>3, <1>4

LEMMA FreshCheck ==
    ASSUME Sound, Fresh, ended = "no", EventCheck
    PROVE  Fresh'
<1>1. closing' = closing /\ ended' = ended
  BY DEF EventCheck
<1>2. CASE closing
  BY <1>1, <1>2, Zenon DEF Fresh
<1>3. CASE ~ closing
  <2>1. PICK y \in CheckIPv4(k) : \E x \in CheckIPv6(y) : LinkFor(x)
    BY Zenon DEF EventCheck
  <2>2. PICK x \in CheckIPv6(y) : LinkFor(x)
    BY <2>1
  <2>3. k \in Knowledge /\ leased \in Addresses
    BY DEF Sound, Types
  <2>4. (k.st["v4"] \in Live => k.h["v4"]) /\ (k.st["v4"] = "unknow" => ~ k.call["v4"])
    BY <1>3, Zenon DEF Fresh
  <2>5. y \in Knowledge /\ Checked(y)
    BY <1>3, <2>3, <2>4, CheckGives, Zenon DEF Checked
  <2>6. x \in Knowledge /\ x.st["v4"] = y.st["v4"] /\ x.h["v4"] = y.h["v4"] /\ x.ip = y.ip
    BY <1>3, <2>5, CheckGives6, CheckHolds6, Zenon
  <2>7. Checked(x)
    BY <2>5, <2>6, Zenon DEF Checked
  <2>8. \/ k'.st["v4"] = "disconnected"
        \/ /\ k'.st["v4"] \in Live /\ k'.h["v4"]
           /\ "v4" \in s_link' => (k'.ip # 0 /\ ifAddr' = k'.ip) \/ redialled'
    BY <1>3, <2>2, <2>6, <2>7, FreshLink, Zenon
  <2>9. "disconnected" \notin Live /\ "unknow" \notin Live /\ "unknow" # "disconnected"
    BY DEF Live
  <2> QED
    BY <1>1, <2>8, <2>9, Zenon DEF Fresh
<1> QED
  BY <1>2, <1>3

LEMMA FreshStart ==
    ASSUME Sound, Fresh, ended = "no", Head(sigq) = "START", EventStart,
           UNCHANGED <<s_link, ifAddr, ended, closing>>
    PROVE  Fresh'
<1>1. CASE closing
  BY <1>1, Zenon DEF Fresh
<1>2. CASE ~ closing
  <2>1. /\ k.st["v4"] \in Live => k.h["v4"]
        /\ k.st["v4"] # "unknow"
        /\ "v4" \in s_link /\ k.st["v4"] \in Live => (k.ip # 0 /\ ifAddr = k.ip) \/ redialled
    <3>1. "START" # "CHECK"
      OBVIOUS
    <3> QED
      BY <1>2, <3>1, Zenon DEF Fresh
  <2>2. CASE UNCHANGED <<k, redialled>>
    <3>1. k' = k /\ redialled' = redialled
      BY <2>2
    <3> QED
      BY <2>1, <3>1, Zenon DEF Fresh
  <2>3. CASE /\ \E x \in Dial(k, "v4") : k' \in Dial(x, "v6")
             /\ redialled' = (redialled \/ ("v4" \in s_link /\ k.st["v4"] # "connected"))
    <3>1. PICK x \in Dial(k, "v4") : k' \in Dial(x, "v6")
      BY <2>3
    <3>2. /\ "v4" \in Families /\ "v6" \in Families /\ "v4" \in Families \ {"v6"}
          /\ "v6" # "v4" /\ "connected" \in Live /\ "unknow" \notin Live
          /\ k \in Knowledge /\ leased \in Addresses
      BY DEF Families, Live, Sound, Types
    <3>3. /\ x \in Knowledge
          /\ k.st["v4"] = "connected" => x = k
          /\ k.h["v4"] => x.h["v4"]
          /\ x.st["v4"] = k.st["v4"] \/ (x.st["v4"] = "connected" /\ x.h["v4"])
      <4>1. \A g \in Families : k.h[g] => x.h[g]
        BY <1>2, <3>2, DialGives
      <4> QED
        BY <1>2, <3>2, <4>1, DialGives
    <3>4. k'.st["v4"] = x.st["v4"] /\ (x.h["v4"] => k'.h["v4"]) /\ k'.ip = x.ip
      <4>1. /\ \A g \in Families : x.h[g] => k'.h[g]
            /\ \A g \in Families \ {"v6"} : k'.st[g] = x.st[g]
            /\ k'.ip = x.ip
        BY <1>2, <3>1, <3>2, <3>3, DialGives
      <4> QED
        BY <3>2, <4>1, Zenon
    <3>5. k'.st["v4"] \in Live => k'.h["v4"]
      BY <2>1, <3>3, <3>4, Zenon
    <3>6. k'.st["v4"] # "unknow"
      BY <2>1, <3>2, <3>3, <3>4, Zenon
    <3>7. "v4" \in s_link /\ k'.st["v4"] \in Live => (k'.ip # 0 /\ ifAddr = k'.ip) \/ redialled'
      <4>1. CASE k.st["v4"] = "connected"
        BY <2>1, <2>3, <3>2, <3>3, <3>4, <4>1, Zenon
      <4>2. CASE k.st["v4"] # "connected"
        BY <2>3, <4>2, Zenon
      <4> QED
        BY <4>1, <4>2
    <3>8. s_link' = s_link /\ ifAddr' = ifAddr /\ ended' = ended /\ closing' = closing
      OBVIOUS
    <3> QED
      BY <3>5, <3>6, <3>7, <3>8, Zenon DEF Fresh
  <2> QED
    BY <2>2, <2>3, Zenon DEF EventStart
<1> QED
  BY <1>1, <1>2

(* Everything else leaves the calls, or ends them at the modem.            *)
LEMMA FreshElsewhere ==
    ASSUME Sound, Fresh, ended = "no", UNCHANGED <<s_link, ifAddr, redialled, ended>>,
           closing => closing',
           sigq # <<>> => sigq' # <<>> /\ Head(sigq') = Head(sigq),
           \/ UNCHANGED k
           \/ \E f \in Families : k' = [k EXCEPT !.call[f] = FALSE]
           \/ k' = [k EXCEPT !.call = [f \in Families |-> FALSE]]
    PROVE  Fresh'
<1>1. k \in Knowledge /\ "v4" \in Families
  BY DEF Sound, Types, Families
<1>2. k'.st = k.st /\ k'.h = k.h /\ k'.ip = k.ip /\ (~ k.call["v4"] => ~ k'.call["v4"])
  <2>1. CASE UNCHANGED k
    BY <2>1
  <2>2. ASSUME NEW f \in Families, k' = [k EXCEPT !.call[f] = FALSE]
        PROVE  k'.st = k.st /\ k'.h = k.h /\ k'.ip = k.ip /\ (~ k.call["v4"] => ~ k'.call["v4"])
    BY <1>1, <2>2 DEF Knowledge
  <2>3. CASE k' = [k EXCEPT !.call = [f \in Families |-> FALSE]]
    BY <1>1, <2>3 DEF Knowledge
  <2> QED
    BY <2>1, <2>2, <2>3, Zenon
<1>3. s_link' = s_link /\ ifAddr' = ifAddr /\ ended' = ended /\ redialled' = redialled
  OBVIOUS
<1>4. CASE closing'
  BY <1>4, <1>3, Zenon DEF Fresh
<1>5. CASE ~ closing'
  <2>1. ~ closing
    BY <1>5, Zenon
  <2>2. k'.st["v4"] \in Live => k'.h["v4"]
    BY <1>2, <2>1, Zenon DEF Fresh
  <2>3. k'.st["v4"] = "unknow" => sigq' # <<>> /\ Head(sigq') = "CHECK" /\ ~ k'.call["v4"]
    <3>1. k.st["v4"] = "unknow" => sigq # <<>> /\ Head(sigq) = "CHECK" /\ ~ k.call["v4"]
      BY <2>1, Zenon DEF Fresh
    <3> QED
      BY <1>2, <3>1, Zenon
  <2>4. "v4" \in s_link' /\ k'.st["v4"] \in Live => (k'.ip # 0 /\ ifAddr' = k'.ip) \/ redialled'
    <3>1. "v4" \in s_link /\ k.st["v4"] \in Live => (k.ip # 0 /\ ifAddr = k.ip) \/ redialled
      BY <2>1, Zenon DEF Fresh
    <3>2. k'.st["v4"] = k.st["v4"] /\ k'.ip = k.ip
      BY <1>2
    <3>3. redialled => redialled'
      BY <1>3
    <3>4. CASE redialled
      BY <3>3, <3>4
    <3>5. CASE ~ redialled
      <4>1. "v4" \in s_link /\ k.st["v4"] \in Live => k.ip # 0 /\ ifAddr = k.ip
        BY <3>1, <3>5, Zenon
      <4> QED
        BY <1>3, <3>2, <4>1
    <3> QED
      BY <3>4, <3>5, Zenon
  <2> QED
    BY <1>3, <2>2, <2>3, <2>4, Zenon DEF Fresh
<1> QED
  BY <1>4, <1>5, Zenon

LEMMA AddedLast ==
    ASSUME Sound, sigq # <<>>, NEW e \in Signals
    PROVE  Append(sigq, e) # <<>> /\ Head(Append(sigq, e)) = Head(sigq)
BY DEF Sound, Types

LEMMA FreshKept == ASSUME Sound, Fresh, [Next]_vars PROVE Fresh'
<1>1. CASE ReadSignal
  <2>1. ended = "no" /\ sigq # <<>> /\ Head(sigq) \in Signals
    BY <1>1 DEF ReadSignal, Running, Sound, Types
  <2>2. CASE Head(sigq) = "START"
    <3>1. EventStart /\ UNCHANGED <<s_link, ifAddr, ended, closing>>
      BY <1>1, <2>2, Zenon DEF ReadSignal
    <3> QED
      BY <2>1, <2>2, <3>1, FreshStart
  <2>3. CASE Head(sigq) = "CHECK"
    <3>1. EventCheck
      BY <1>1, <2>3, Zenon DEF ReadSignal
    <3> QED
      BY <2>1, <3>1, FreshCheck
  <2>4. CASE Head(sigq) = "STOP"
    <3>1. PICK x : MainQuit(Deinit(x), "stop") /\ Deinit(x) \in Knowledge
      <4>1. EventStop
        BY <1>1, <2>4, Zenon DEF ReadSignal
      <4> QED
        BY <4>1, StopQuits
    <3>2. s_link' = {} /\ ended' = "stop"
      BY <3>1, QuitHolds
    <3> QED
      BY <3>2 DEF Fresh
  <2> QED
    BY <2>1, <2>2, <2>3, <2>4 DEF Signals
<1>2. CASE ReadDevice
  <2>1. ended = "no" /\ Head(devq) \in Reports /\ closing' = closing
    BY <1>2 DEF ReadDevice, Running, Sound, Types
  <2>2. CASE Head(devq) \in {"reset", "disconnected"}
    <3>1. MainQuit(k, "hangup") /\ k \in Knowledge
      BY <1>2, <2>2, Zenon DEF ReadDevice, Sound, Types
    <3>2. s_link' = {} /\ ended' = "hangup"
      BY <3>1, QuitHolds
    <3> QED
      BY <3>2 DEF Fresh
  <2>3. CASE Head(devq) \in {"network", "datacall", "loopback"}
    <3>1. UNCHANGED <<k, s_link, ifAddr, redialled, ended>>
      BY <1>2, <2>3, Zenon DEF ReadDevice, NetworkStateChanged, DataCallListChanged, LoopbackConfig
    <3>2. sigq' \in {sigq, Append(sigq, "START"), Append(sigq, "CHECK")}
      BY <1>2, <2>3, Zenon DEF ReadDevice, NetworkStateChanged, DataCallListChanged, LoopbackConfig
    <3>3. sigq # <<>> => sigq' # <<>> /\ Head(sigq') = Head(sigq)
      BY <3>2, AddedLast
    <3> QED
      BY <2>1, <3>1, <3>3, FreshElsewhere, Zenon
  <2> QED
    BY <2>1, <2>2, <2>3 DEF Reports
<1>3. CASE PollTimeout \/ TimePasses \/ AlarmFires
  <2>1. /\ ended = "no" /\ UNCHANGED <<k, s_link, ifAddr, redialled, ended>>
        /\ closing' = closing
        /\ sigq # <<>> => sigq' \in {sigq, Append(sigq, "START")}
    BY <1>3, Zenon DEF PollTimeout, TimePasses, AlarmFires, Running
  <2>2. sigq # <<>> => sigq' # <<>> /\ Head(sigq') = Head(sigq)
    BY <2>1, AddedLast
  <2> QED
    BY <2>1, <2>2, FreshElsewhere, Zenon
<1>4. CASE SigTerm \/ DeviceLost \/ Readdressed \/ LoopbackIndication \/ Settles
  <2>1. /\ ended = "no" /\ UNCHANGED <<k, s_link, ifAddr, redialled, ended>>
        /\ sigq' \in {sigq, Append(sigq, "STOP")}
    BY <1>4 DEF SigTerm, DeviceLost, Readdressed, LoopbackIndication, Settles, Spend, Running
  <2>2. closing => closing'
    BY <1>4, Zenon DEF SigTerm, DeviceLost, Readdressed, LoopbackIndication, Settles
  <2>3. sigq # <<>> => sigq' # <<>> /\ Head(sigq') = Head(sigq)
    BY <2>1, AddedLast
  <2> QED
    BY <2>1, <2>2, <2>3, FreshElsewhere, Zenon
<1>5. CASE CallDrops \/ NetworkChanges
  <2>1. /\ ended = "no" /\ UNCHANGED <<s_link, ifAddr, redialled, ended, sigq>>
        /\ closing' = closing
    BY <1>5 DEF CallDrops, NetworkChanges, Spend, Running
  <2>2. \/ UNCHANGED k
        \/ \E f \in Families : k' = [k EXCEPT !.call[f] = FALSE]
        \/ k' = [k EXCEPT !.call = [f \in Families |-> FALSE]]
    BY <1>5, Zenon DEF CallDrops, NetworkChanges
  <2>3. sigq # <<>> => sigq' # <<>> /\ Head(sigq') = Head(sigq)
    BY SMTT(30), <2>1
  <2> QED
    BY <2>1, <2>2, <2>3, FreshElsewhere, Zenon
<1>6. CASE UNCHANGED vars
  BY <1>6 DEF vars, Fresh
<1> QED
  BY <1>1, <1>2, <1>3, <1>4, <1>5, <1>6 DEF Next

(* While the interface is set up for a connected IPv4 call it carries the  *)
(* address that call was given, whatever failed, dropped or was readdressed*)
(* in between (check_ipv4_address and usbnet_link_change), except after a  *)
(* redial behind its back or while requests are aborted.                   *)
THEOREM AddressKept == Spec => []AddressFresh
<1>1. Init => Sound /\ Fresh
  BY SoundBegins, FreshBegins
<1>2. Sound /\ Fresh /\ [Next]_vars => (Sound /\ Fresh)'
  BY SoundKept, FreshKept
<1>3. Fresh => AddressFresh
  <2>1. "connected" \in Live /\ "v4" \notin {}
    BY DEF Live
  <2> QED
    BY <2>1, Zenon DEF Fresh, AddressFresh
<1> QED
  BY <1>1, <1>2, <1>3, PTL DEF Spec

=============================================================================
