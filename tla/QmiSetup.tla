------------------------------ MODULE QmiSetup ------------------------------
(***************************************************************************)
(* The start of a session of quectel-CM over QMI: qmi_main (main.c) up to  *)
(* its loop, with the requests of QMIThread.c and the client ids of        *)
(* QmiWwanCM.c or GobiNetCM.c, and how sessions and processes follow one   *)
(* another on the same modem.  The loop itself is ConnMgr.                 *)
(*                                                                         *)
(* A request is a step.  It is done; refused; done but its answer is lost; *)
(* or it is not heard at all, as every request after the modem is gone.    *)
(***************************************************************************)
EXTENDS Integers, Sequences

CONSTANTS Calls,        \* how quectel-CM is called, with the modem it meets
          MaxProfiles,  \* profiles the modem has room for
          Tries,        \* attempts a SIM allows for its PIN
          MaxSessions, MaxFailures  \* bounds

\* The APN of a profile: none, the one asked for, another.
Apns == {"", "ours", "theirs"}

\* Every modem has a profile at least.
ASSUME QmiSetupAssumption ==
  /\ Calls \subseteq [via : {"device", "gobi", "libqmi", "proxy"}, qmap : BOOLEAN, v6 : BOOLEAN,
                      rawOnly : BOOLEAN, pin : {"none", "right", "wrong"}, locked : BOOLEAN,
                      pdp : Nat, apn : BOOLEAN, profiles : Seq([pdp : Nat, apn : Apns])]
  /\ \A c \in Calls : c.profiles # <<>>
  /\ MaxProfiles \in Nat /\ Tries \in Nat /\ MaxSessions \in Nat /\ MaxFailures \in Nat

VARIABLES
  cfg,       \* the member of Calls
  pc, at,    \* the request to make, and which of several
  p,         \* variables of the process
  again,     \* g_donot_exit_when_modem_hangup
  failed,    \* requests of this session that failed
  conn,      \* the modem is there, and has been since the session began
  m,         \* the modem
  used,      \* history: the profiles modified and dialled
  sessions, failures

vars == <<cfg, pc, at, p, again, failed, conn, m, used, sessions, failures>>

Services == {"wds", "wds6", "dms", "nas", "uim", "wda"}
NoIds == [s \in Services |-> 0]

\* qmiclientId (1 an id, -1 a descriptor that could not be opened), profile->rawIP, s_9x07,
\* SIMStatus, profile_index, old_apn, PSAttachedState, s_is_cdma.
NewProcess == [id |-> NoIds, rawIP |-> FALSE, s_9x07 |-> TRUE, SIMStatus |-> "absent",
               index |-> 1, old |-> "", attached |-> FALSE, s_is_cdma |-> FALSE]

\* What a modem loses when it is reset: ids given, those of them nobody knows of, the link
\* protocol, the settings of its WDS clients; and the PIN is asked for again.
SwitchedOn(x, c) ==
  [x EXCEPT !.held = NoIds, !.stray = NoIds, !.format = IF c.rawOnly THEN "raw" ELSE "eth",
            !.set = {}, !.sim = IF c.locked /\ @ = "ready" THEN "pin" ELSE @]

Init ==
  /\ cfg \in Calls
  /\ pc = "open" /\ at = 1 /\ p = NewProcess /\ again = FALSE /\ failed = {} /\ conn = TRUE
  /\ m = [held |-> NoIds, stray |-> NoIds, format |-> IF cfg.rawOnly THEN "raw" ELSE "eth",
          set |-> {}, sim |-> IF cfg.locked THEN "pin" ELSE "ready", tries |-> Tries,
          profiles |-> cfg.profiles]
  /\ used = {} /\ sessions = 0 /\ failures = 0

----------------------------------------------------------------------------
\* QmiThreadSendQMI, for the requests of a service and for those of QMI control.
Outcomes == {"done", "refused", "lost", "unheard"}
Heard(o) == o \in {"done", "lost"}

Control(o) ==
  /\ ~ conn => o = "unheard"
  /\ conn /\ o # "done" => failures < MaxFailures
  /\ failures' = IF conn /\ o # "done" THEN failures + 1 ELSE failures

\* An id or a descriptor, but not -1.
HasId(s) == p.id[s] > 0

Request(s, name, o) ==
  /\ ~ HasId(s) => o = "unheard"
  /\ IF HasId(s) THEN Control(o) ELSE UNCHANGED failures
  /\ failed' = IF o = "done" THEN failed ELSE failed \cup {name}

Goto(next, i) == pc' = next /\ at' = i
OnlyRequest == UNCHANGED <<cfg, again, conn, sessions>>

----------------------------------------------------------------------------
\* The modem is opened, which may have been reset since it went.  In QMAP mode the driver
\* of GobiNet, and whoever runs a proxy, have set the data format.
Opens ==
  /\ pc = "open" /\ sessions < MaxSessions
  /\ \E reset \in BOOLEAN :
       LET x == IF reset THEN SwitchedOn(m, cfg) ELSE m IN
       /\ reset => ~ conn
       /\ m' = IF cfg.qmap /\ cfg.via # "device" THEN [x EXCEPT !.format = "raw"] ELSE x
  /\ Goto(CASE cfg.via = "device" -> "sync" [] cfg.via = "libqmi" -> "proxyopen"
            [] OTHER -> "ids", 1)
  /\ conn' = TRUE /\ failed' = {} /\ p' = [p EXCEPT !.SIMStatus = "absent", !.attached = FALSE]
  /\ sessions' = sessions + 1
  /\ UNCHANGED <<cfg, again, used, failures>>

\* A proxy of libqmi is told which modem is meant.
libqmi_proxy_open ==
  /\ pc = "proxyopen"
  /\ \E o \in Outcomes : Control(o) /\ Goto(IF o = "done" THEN "ids" ELSE "over", 1)
  /\ UNCHANGED <<p, failed, m, used>> /\ OnlyRequest

\* A bug: the modem is not told to forget the ids of earlier processes and sessions.
NoSync ==
  /\ pc = "sync"
  /\ Goto("ids", 1)
  /\ UNCHANGED <<p, failed, m, used, failures>> /\ OnlyRequest

\* QMICTL_SYNC_REQ, up to ten times; any answer will do.  The wait also ends without an
\* error if the reader quits.
Sync ==
  /\ pc = "sync"
  /\ \E o \in Outcomes \ {"refused"} :
       /\ Control(o)
       /\ m' = IF Heard(o) THEN [m EXCEPT !.held = NoIds, !.stray = NoIds, !.set = {}] ELSE m
       /\ \/ Goto("ids", 1) /\ (o = "done" \/ ~ conn)
          \/ Goto("over", 1) /\ o # "done"
  /\ UNCHANGED <<p, failed, used>> /\ OnlyRequest

\* The ids asked for, in order.
Asked == <<"wds">> \o (IF cfg.v6 THEN <<"wds6">> ELSE <<>>) \o <<"dms", "nas", "uim">>
           \o (IF cfg.via = "gobi" /\ cfg.qmap THEN <<>> ELSE <<"wda">>)

\* The next id: GET_CLIENT_ID to the modem or to the proxy.
QmiWwanGetClientID ==
  /\ pc = "ids" /\ cfg.via # "gobi" /\ at <= Len(Asked)
  /\ \E o \in Outcomes :
       LET s == Asked[at] IN
       /\ Control(o)
       /\ p' = [p EXCEPT !.id[s] = IF o = "done" THEN 1 ELSE 0]
       /\ m' = [m EXCEPT !.held[s] = IF Heard(o) THEN @ + 1 ELSE @,
                         !.stray[s] = IF o = "lost" THEN @ + 1 ELSE @]
       /\ failed' = IF o = "done" THEN failed ELSE failed \cup {s}
  /\ Goto("ids", at + 1)
  /\ UNCHANGED used /\ OnlyRequest

\* The next descriptor: opening the device and the ioctl may fail.
GobiNetGetClientID ==
  /\ pc = "ids" /\ cfg.via = "gobi" /\ at <= Len(Asked)
  /\ \E o \in {"done", "refused", "unheard"} :
       LET s == Asked[at] IN
       /\ Control(o)
       /\ p' = [p EXCEPT !.id[s] = CASE o = "done" -> 1 [] o = "refused" -> 0 [] OTHER -> 0 - 1]
       /\ m' = IF o = "done" THEN [m EXCEPT !.held[s] = @ + 1] ELSE m
       /\ failed' = IF o = "done" THEN failed ELSE failed \cup {s}
  /\ Goto("ids", at + 1)
  /\ UNCHANGED used /\ OnlyRequest

\* Without a descriptor for WDS the reader of GobiNet gives up, but -1 is taken for one.
IdsAsked ==
  /\ pc = "ids" /\ at > Len(Asked)
  /\ IF cfg.via = "gobi" /\ p.id["wds"] = 0
     THEN /\ Goto("over", 1)
          /\ p' = [p EXCEPT !.id = NoIds] /\ m' = [m EXCEPT !.held = NoIds]
     ELSE Goto("format", 1) /\ UNCHANGED <<p, m>>
  /\ UNCHANGED <<failed, used, failures>> /\ OnlyRequest

----------------------------------------------------------------------------
\* requestSetEthMode: the data format.  Raw IP is asked for in QMAP mode only, but some
\* modems know nothing else; the answer says what it is.
WdaSetDataFormat == IF cfg.qmap THEN "raw" ELSE "eth"
Chosen == IF cfg.rawOnly THEN "raw" ELSE WdaSetDataFormat

\* A bug: what the answer says is left out.
LinkAssumed(x) == [x EXCEPT !.rawIP = cfg.qmap, !.s_9x07 = cfg.qmap]
LinkProtocol(x) == [x EXCEPT !.rawIP = (Chosen = "raw"), !.s_9x07 = (Chosen = "raw")]

SetDataFormat ==
  /\ pc = "format"
  /\ LET skip == cfg.qmap /\ p.id["wda"] = 0
         asked == IF cfg.qmap THEN [p EXCEPT !.rawIP = TRUE, !.s_9x07 = TRUE] ELSE p
     IN  \/ /\ skip /\ Goto("families", 1) /\ p' = asked
           /\ UNCHANGED <<m, failed, failures>>
         \/ /\ ~ skip
           /\ \E o \in Outcomes :
                /\ Request("wda", "format", o)
                /\ m' = IF Heard(o) THEN [m EXCEPT !.format = Chosen] ELSE m
                /\ IF o = "done" THEN Goto("families", 1) /\ p' = LinkProtocol(p)
                   ELSE Goto("sim", 1) /\ p' = asked
  /\ UNCHANGED used /\ OnlyRequest

\* Its other requests: the mux of each WDS client in QMAP mode, its IP family, and no
\* automatic connection.  Some of them end it if they fail.
Preferences ==
  (IF cfg.qmap THEN <<"bind4">> ELSE <<>>) \o <<"pref4">>
    \o (IF cfg.v6 THEN (IF cfg.qmap THEN <<"bind6">> ELSE <<>>) \o <<"pref6">> ELSE <<>>)
    \o <<"auto">>
Checked == {"bind4", "bind6", "pref6"}

SetPreference ==
  /\ pc = "families"
  /\ LET r == Preferences[at] IN
     \E o \in Outcomes :
       /\ Request(IF r \in {"bind6", "pref6"} THEN "wds6" ELSE "wds", r, o)
       /\ m' = IF Heard(o) THEN [m EXCEPT !.set = @ \cup {r}] ELSE m
       /\ IF at = Len(Preferences) \/ (o # "done" /\ r \in Checked) THEN Goto("sim", 1)
          ELSE Goto("families", at + 1)
  /\ UNCHANGED <<p, used>> /\ OnlyRequest

----------------------------------------------------------------------------
AfterSim(status) == IF status = "pin" /\ cfg.pin # "none" THEN "pin" ELSE "list"

\* requestGetSIMStatus, again as long as the modem says it is not up to it.  A modem that
\* is not raw only tells whether the SIM is locked, and is asked for more.
requestGetSIMStatus ==
  /\ pc = "sim"
  /\ \E o \in Outcomes :
       LET status == CASE o # "done" -> p.SIMStatus
                       [] o = "done" /\ ~ p.s_9x07 /\ m.sim # "ready" -> "absent"
                       [] OTHER -> m.sim
       IN  /\ Request(IF p.s_9x07 THEN "uim" ELSE "dms", "sim", o)
           /\ p' = [p EXCEPT !.SIMStatus = status]
           /\ \/ Goto("sim", 1) /\ o = "refused"
              \/ Goto(IF o = "done" /\ status # m.sim THEN "pinstatus" ELSE AfterSim(status), 1)
  /\ UNCHANGED <<m, used>> /\ OnlyRequest

requestGetPINStatus ==
  /\ pc = "pinstatus"
  /\ \E o \in Outcomes :
       /\ Request("dms", "pinstatus", o)
       /\ p' = IF o = "done" THEN [p EXCEPT !.SIMStatus = m.sim] ELSE p
       /\ Goto(AfterSim(p'.SIMStatus), 1)
  /\ UNCHANGED <<m, used>> /\ OnlyRequest

\* The PIN goes to UIM or to DMS.
VerifyPinReq(o) == Request(IF p.s_9x07 THEN "uim" ELSE "dms", "pin", o)

\* The SIM, given a PIN.
Verified(x) ==
  IF x.sim # "pin" THEN x
  ELSE IF cfg.pin = "right" THEN [x EXCEPT !.sim = "ready", !.tries = Tries]
  ELSE [x EXCEPT !.tries = @ - 1, !.sim = IF x.tries = 1 THEN "puk" ELSE "pin"]

\* A bug: an attempt that failed is repeated.
EnterSimPinAgain ==
  /\ pc = "pin"
  /\ \E o \in Outcomes :
       /\ VerifyPinReq(o)
       /\ m' = IF Heard(o) THEN Verified(m) ELSE m
       /\ Goto(IF m'.sim = "pin" /\ conn THEN "pin" ELSE "list", 1)
  /\ UNCHANGED <<p, used>> /\ OnlyRequest

\* requestEnterSimPin: its result is not looked at.
requestEnterSimPin ==
  /\ pc = "pin"
  /\ \E o \in Outcomes :
       /\ VerifyPinReq(o)
       /\ m' = IF Heard(o) THEN Verified(m) ELSE m
  /\ Goto("list", 1)
  /\ UNCHANGED <<p, used>> /\ OnlyRequest

----------------------------------------------------------------------------
\* requestGetProfile asks for the list of profiles, and reads the answer before it looks
\* whether there is one.
GetProfileList ==
  /\ pc = "list"
  /\ \E o \in Outcomes :
       /\ Request("wds", "list", o)
       /\ Goto(CASE o = "done" -> "get" [] o = "refused" -> "set" [] OTHER -> "crash", 1)
  /\ p' = [p EXCEPT !.old = ""]
  /\ UNCHANGED <<m, used>> /\ OnlyRequest

\* A bug: the last profile is taken without a look at its PDP context.
LastProfileTaken ==
  /\ pc = "get"
  /\ \E o \in Outcomes :
       LET q == m.profiles[at] IN
       /\ Request("wds", "get", o)
       /\ IF o = "done" /\ q.pdp # cfg.pdp /\ at < Len(m.profiles)
          THEN Goto("get", at + 1) /\ p' = [p EXCEPT !.index = at]
          ELSE Goto("set", 1) /\ p' = [p EXCEPT !.index = at, !.old = IF o = "done" THEN q.apn
                                                                   ELSE ""]
  /\ UNCHANGED <<m, used>> /\ OnlyRequest

\* The profiles, one after another, until one has the PDP context asked for.
GetProfileSettings ==
  /\ pc = "get"
  /\ \E o \in Outcomes :
       LET q == m.profiles[at]
           found == o = "done" /\ q.pdp = cfg.pdp
       IN  /\ Request("wds", "get", o)
           /\ p' = [p EXCEPT !.index = at, !.old = IF found THEN q.apn ELSE ""]
           /\ CASE found \/ o # "done" -> Goto("set", 1)
                [] ~ found /\ o = "done" /\ at < Len(m.profiles) -> Goto("get", at + 1)
                [] OTHER -> Goto("create", 1)
  /\ UNCHANGED <<m, used>> /\ OnlyRequest

WdsCreateProfile(x) == [x EXCEPT !.profiles = Append(@, [pdp |-> cfg.pdp, apn |-> ""])]

\* None has: one is made, if there is room, and the list is read again.
CreateProfile ==
  /\ pc = "create"
  /\ \/ \E o \in Outcomes :
          /\ Heard(o) => Len(m.profiles) < MaxProfiles
          /\ Request("wds", "create", o)
          /\ m' = IF Heard(o) THEN WdsCreateProfile(m) ELSE m
          /\ Goto(IF o = "done" THEN "list" ELSE "set", 1)
     \/ /\ Len(m.profiles) = MaxProfiles
        /\ failed' = failed \cup {"create"} /\ Goto("set", 1) /\ UNCHANGED <<m, failures>>
  /\ UNCHANGED <<p, used>> /\ OnlyRequest

\* The profile a request names: whether it is the one asked for, and whether a request
\* that had to do with it failed.
Named ==
  LET q == m'.profiles[p.index] IN
  [asked |-> q.pdp = cfg.pdp /\ (cfg.apn => q.apn = "ours"),
   failed |-> failed' \cap {"list", "get", "create", "set"} # {}]

WdsModifyProfileSettings(x) == [x EXCEPT !.profiles[p.index].apn = "ours"]

\* requestSetProfile, if there is something to set that the profile has not.
requestSetProfile ==
  /\ pc = "set" /\ cfg.apn /\ p.old # "ours"
  /\ \E o \in Outcomes :
       /\ Request("wds", "set", o)
       /\ m' = IF Heard(o) THEN WdsModifyProfileSettings(m) ELSE m
  /\ used' = used \cup {Named}
  /\ Goto("register", 1)
  /\ UNCHANGED p /\ OnlyRequest

ProfileLeft ==
  /\ pc = "set" /\ (cfg.apn => p.old = "ours")
  /\ Goto("register", 1)
  /\ UNCHANGED <<p, failed, m, used, failures>> /\ OnlyRequest

----------------------------------------------------------------------------
\* requestRegistrationState, before the loop and in it whenever the network changes (how it
\* reads the answer is SysInfo).  What was known of CDMA stays if it fails.
requestRegistrationState ==
  /\ pc \in {"register", "loop"}
  /\ \E o \in Outcomes, attached, cdma \in BOOLEAN :
       /\ attached => m.sim = "ready"
       /\ Request("nas", "register", o)
       /\ p' = IF o = "done" THEN [p EXCEPT !.attached = attached, !.s_is_cdma = cdma]
               ELSE [p EXCEPT !.attached = FALSE]
  /\ Goto("loop", 1)
  /\ UNCHANGED <<m, used>> /\ OnlyRequest

\* WdsStartNwInterfaceReq: a call names the profile, but not with CDMA.
StartNwInterface ==
  /\ pc = "loop" /\ p.attached
  /\ \E o \in Outcomes :
       /\ Request("wds", "start", o)
       /\ m' = m
       /\ used' = IF p.s_is_cdma \/ ~ HasId("wds") THEN used ELSE used \cup {Named}
  /\ UNCHANGED <<pc, at, p>> /\ OnlyRequest

----------------------------------------------------------------------------
\* The ids of a connection that is closed: the driver of GobiNet and the proxies take them
\* back, the modem does not.
Closed(x) == IF cfg.via = "device" THEN x ELSE [x EXCEPT !.held = NoIds, !.stray = NoIds]

\* QmiWwanDeInit releases every id; the modem may not hear of it.
Released(x, told) ==
  IF cfg.via = "gobi" THEN Closed(x)
  ELSE [x EXCEPT !.held = [s \in Services |-> IF p.id[s] = 1 /\ s \in told THEN @[s] - 1
                                              ELSE @[s]],
                 !.stray = [s \in Services |-> IF p.id[s] = 1 /\ s \notin told THEN @[s] + 1
                                               ELSE @[s]]]

Stop ==
  /\ pc = "loop"
  /\ \E told \in IF conn THEN {Services, {}} ELSE {{}} :
       /\ conn /\ told = {} => failures < MaxFailures
       /\ failures' = IF conn /\ told = {} THEN failures + 1 ELSE failures
       /\ m' = Released(m, told)
  /\ p' = [p EXCEPT !.id = NoIds]
  /\ Goto("exit", 1)
  /\ UNCHANGED <<failed, used>> /\ OnlyRequest

\* The reader sees the modem hang up, unless it has no descriptor to see it on.
HangUp ==
  /\ pc = "loop" /\ ~ conn
  /\ cfg.via = "gobi" => \E s \in Services : p.id[s] = 1
  /\ p' = IF cfg.via = "gobi" THEN [p EXCEPT !.id = NoIds] ELSE p
  /\ m' = Closed(m)
  /\ again' = TRUE
  /\ Goto("over", 1)
  /\ UNCHANGED <<cfg, failed, conn, used, sessions, failures>>

\* A session is over; a hang-up is no reason to end the process, the rest is.
SessionOver ==
  /\ pc = "over"
  /\ Goto(IF again THEN "open" ELSE "exit", 1)
  /\ UNCHANGED <<p, failed, m, used, failures>> /\ OnlyRequest

\* The process is killed, at any point.
Killed ==
  /\ pc \notin {"exit", "crash", "open"}
  /\ failures < MaxFailures /\ failures' = failures + 1
  /\ Goto("exit", 1)
  /\ UNCHANGED <<p, failed, m, used>> /\ OnlyRequest

\* What the process had open is closed, and somebody starts quectel-CM again.
Restarted ==
  /\ pc \in {"exit", "crash"}
  /\ p' = NewProcess /\ again' = FALSE /\ m' = Closed(m)
  /\ Goto("open", 1)
  /\ UNCHANGED <<cfg, failed, conn, used, sessions, failures>>

\* The modem is unplugged or goes down.
Unplugged ==
  /\ conn /\ pc # "open" /\ failures < MaxFailures
  /\ conn' = FALSE /\ failures' = failures + 1
  /\ UNCHANGED <<cfg, pc, at, p, again, failed, m, used, sessions>>

Next ==
  \/ Opens \/ libqmi_proxy_open \/ Sync
  \/ QmiWwanGetClientID \/ GobiNetGetClientID \/ IdsAsked
  \/ SetDataFormat \/ SetPreference
  \/ requestGetSIMStatus \/ requestGetPINStatus \/ requestEnterSimPin
  \/ GetProfileList \/ GetProfileSettings \/ CreateProfile \/ requestSetProfile \/ ProfileLeft
  \/ requestRegistrationState \/ StartNwInterface
  \/ Stop \/ HangUp \/ SessionOver \/ Killed \/ Restarted \/ Unplugged

Spec == Init /\ [][Next]_vars

----------------------------------------------------------------------------
Ids == [s \in Services |-> IF p.id[s] = 1 THEN 1 ELSE 0]

\* From the moment ids are asked for, a modem that is there holds no id that the process
\* does not know of, whatever became of earlier sessions and processes; except for those
\* whose answer was lost since.
IdsKnown ==
  /\ pc = "ids" /\ conn => \A i \in at..Len(Asked) : m.held[Asked[i]] <= m.stray[Asked[i]]
  /\ pc \in {"format", "families", "sim", "list", "loop"} /\ conn =>
       \A s \in Services : m.held[s] <= Ids[s] + m.stray[s]

\* When the loop begins, the interface is set up for the link protocol the modem uses and
\* the modem knows the IP family of every client, in every session, reset or not; unless a
\* request for it failed in this session, which nobody looks at.
LinkPrepared ==
  pc = "loop" /\ conn =>
    /\ failed \cap {"wda", "format"} = {} => p.rawIP = (m.format = "raw")
    /\ failed \cap ({"wds", "wds6", "wda", "format"} \cup Checked \cup {"pref4", "auto"}) = {} =>
         {Preferences[i] : i \in 1..Len(Preferences)} \subseteq m.set

\* A session costs the SIM at most one attempt at its PIN, and only if the PIN is wrong.
PinOnce ==
  /\ Tries - m.tries <= sessions
  /\ cfg.pin # "wrong" => m.tries = Tries

\* The profile that is modified, and that calls are started with, is the one of the PDP
\* context asked for, and has the APN asked for; unless a request that looks for the
\* profile or sets it failed: then it is any.
ProfileOfPdp == \A u \in used : u.asked \/ u.failed

=============================================================================
