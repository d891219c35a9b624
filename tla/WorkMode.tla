------------------------------ MODULE WorkMode ------------------------------
(***************************************************************************)
(* The LoRaWAN work mode of the gateway: cgi-cpp's request that changes it,*)
(* the lorawan_mode script that the request leaves running in background,  *)
(* and the init scripts of the three services that it starts and stops.    *)
(*                                                                         *)
(* Request r and the script it leaves behind are one sequence of steps,    *)
(* job[r]; job[0] is the boot of the system, which starts the services in  *)
(* the order of their START numbers.  A start reads the mode file again,   *)
(* then waits for a network interface.  How long it waits depends on the   *)
(* shell's reading of its counter, so giving up may come at any poll.      *)
(***************************************************************************)
EXTENDS Naturals, Sequences, FiniteSets

CONSTANTS MaxRequests,  \* requests of a behaviour
          Sequential,   \* a request comes only when no other job is at work
          Batches,      \* sets of files that are uploaded together
          MaxFlaps,     \* times the network goes down
          MaxGiveUps,   \* times a start gives up waiting
          MaxReboots

ASSUME WorkModeAssumption ==
  /\ MaxRequests \in Nat /\ Sequential \in BOOLEAN
  /\ MaxFlaps \in Nat /\ MaxGiveUps \in Nat /\ MaxReboots \in Nat

Services == {"packet_forwarder", "basicstation", "lora-gateway-bridge"}

ServicesOf(wm) ==
  CASE wm = "PKFD" -> {"packet_forwarder"}
    [] wm = "BAST" -> {"basicstation"}
    [] wm = "BRDG" -> {"packet_forwarder", "lora-gateway-bridge"}
    [] OTHER -> {}

\* What a request may ask for; the station's own mode counts for BAST only.
Asked ==
  [wm: {"PKFD", "BRDG", "CLOSE", "RESTART"}, station: {"LNS"}, auth: {0}]
    \cup [wm: {"BAST"}, station: {"LNS", "CUPS"}, auth: 0..3]

Unknown == [wm |-> "unknown", station |-> "LNS", auth |-> 0]

VARIABLES
  mode,      \* lorawan_workmode.conf; wm is "cut" while it is open for writing
  uploaded,  \* files under /etc/ssl/gw: <<station mode, kind>>
  etc,       \* the copies in /etc/basicstation: <<station mode, kind>>
  running,   \* services that procd runs
  up,        \* some network interface is up
  job,       \* each request with its script, and the boot
  closed,    \* the last request that was carried out was CLOSE
  flaps, giveups, reboots

vars == <<mode, uploaded, etc, running, up, job, closed, flaps, giveups, reboots>>

Requests == 1..MaxRequests
Jobs == 0..MaxRequests

Fresh == [pc |-> "none", ask |-> Unknown, todo |-> <<>>, answer |-> "none"]

Start(services) == [i \in DOMAIN services |-> <<"start", services[i]>>]

Boot == [Fresh EXCEPT !.pc = "script",
           !.todo = Start(<<"basicstation", "packet_forwarder", "lora-gateway-bridge">>)]

Init ==
  /\ mode = Unknown /\ uploaded = {} /\ etc = {} /\ running = {}
  /\ up \in BOOLEAN
  /\ job = [j \in Jobs |-> IF j = 0 THEN Boot ELSE Fresh]
  /\ closed = FALSE
  /\ flaps = 0 /\ giveups = 0 /\ reboots = 0

Active(j) == job[j].pc \notin {"none", "done"}
Quiet == \A j \in Jobs : ~Active(j)

budgets == <<flaps, giveups, reboots>>
Goes(j, pc) == job' = [job EXCEPT ![j].pc = pc]
Ends(j, a) == job' = [job EXCEPT ![j].pc = "done", ![j].answer = a]

-----------------------------------------------------------------------------
(* main_lorawan_workmode_set *)

\* CLOSE and RESTART without their early returns.
RequestNoReturn(r) ==
  /\ job[r].pc = "none" /\ (r > 1 => job[r - 1].pc # "none")
  /\ Sequential => Quiet
  /\ \E a \in Asked :
       job' = [job EXCEPT ![r].ask = a, ![r].pc = IF a.wm = "BAST" THEN "remove" ELSE "open"]
  /\ UNCHANGED <<mode, uploaded, etc, running, up, closed, budgets>>

\* Requests come in the order of their numbers.
Request(r) ==
  /\ job[r].pc = "none" /\ (r > 1 => job[r - 1].pc # "none")
  /\ Sequential => Quiet
  /\ \E a \in Asked :
       job' = [job EXCEPT ![r].ask = a,
                 ![r].pc = CASE a.wm = "BAST" -> "remove"
                             [] a.wm \in {"CLOSE", "RESTART"} -> "background"
                             [] OTHER -> "open"]
  /\ UNCHANGED <<mode, uploaded, etc, running, up, closed, budgets>>

\* Two kinds of files end up under one name, client key and token.
Needed(auth) ==
  CASE auth = 0 -> {"uri"}
    [] auth = 1 -> {"trust", "uri"}
    [] auth = 2 -> {"trust", "crt", "key", "uri"}
    [] auth = 3 -> {"trust", "token", "uri"}

\* station_auth_mode_pre_handle for the station mode that is asked for only.
RemoveFilesOfMode(r) ==
  /\ job[r].pc = "remove"
  /\ etc' = {f \in etc : f[1] # job[r].ask.station}
  /\ Goes(r, "copy")
  /\ UNCHANGED <<mode, uploaded, running, up, closed, budgets>>

\* station_auth_mode_pre_handle: the files of both station modes.
RemoveFiles(r) ==
  /\ job[r].pc = "remove"
  /\ etc' = {}
  /\ Goes(r, "copy")
  /\ UNCHANGED <<mode, uploaded, running, up, closed, budgets>>

\* station_auth_mode_..._handle: what is there is copied, over a file of the same
\* name, also when something is missing.
CopyFiles(r) ==
  /\ job[r].pc = "copy"
  /\ LET sm == job[r].ask.station
         needed == {sm} \X Needed(job[r].ask.auth)
         copied == needed \cap uploaded
         replaced == {<<sm, k>> : k \in {l \in {"key", "token"} :
                                    copied \cap {<<sm, "key">>, <<sm, "token">>} # {}}}
     IN  /\ etc' = (etc \ replaced) \cup copied
         /\ IF needed \subseteq uploaded THEN Goes(r, "adapt") ELSE Ends(r, "failed")
  /\ UNCHANGED <<mode, uploaded, running, up, closed, budgets>>

\* station_adapt_to_spidev_path and station_create_log_file: either may fail.
AdaptStation(r) ==
  /\ job[r].pc = "adapt"
  /\ Goes(r, "open") \/ Ends(r, "failed")
  /\ UNCHANGED <<mode, uploaded, etc, running, up, closed, budgets>>

OpenModeConf(r) ==
  /\ job[r].pc = "open"
  /\ mode' = [Unknown EXCEPT !.wm = "cut"]
  /\ Goes(r, "write")
  /\ UNCHANGED <<uploaded, etc, running, up, closed, budgets>>

WriteModeConf(r) ==
  /\ job[r].pc = "write"
  /\ mode' = job[r].ask
  /\ Goes(r, "background")
  /\ UNCHANGED <<uploaded, etc, running, up, closed, budgets>>

\* reload_lorawan_service or shut_down_lorawan_service leaves the script running;
\* the request is answered with success.
Background(r) ==
  /\ job[r].pc = "background"
  /\ job' = [job EXCEPT ![r].pc = "load", ![r].answer = "success"]
  /\ closed' = (job[r].ask.wm = "CLOSE")
  /\ UNCHANGED <<mode, uploaded, etc, running, up, budgets>>

-----------------------------------------------------------------------------
(* The lorawan_mode script *)

InOrder(services) ==
  SelectSeq(<<"packet_forwarder", "basicstation", "lora-gateway-bridge">>,
            LAMBDA s : s \in services)

Step(kind, services) ==
  LET order == InOrder(services) IN [i \in DOMAIN order |-> <<kind, order[i]>>]

\* Launching without stopping what runs.
ScriptNoStop(op, wm) ==
  CASE ServicesOf(wm) = {} -> <<>>
    [] op = "CLOSE" -> Step("stop", ServicesOf(wm))
    [] OTHER -> Step("start", ServicesOf(wm))

\* launch_mode checks all services and starts those of the mode, stop stops
\* those of the mode; neither does anything in a mode it does not know.
Script(op, wm) ==
  CASE ServicesOf(wm) = {} -> <<>>
    [] op = "CLOSE" -> Step("stop", ServicesOf(wm))
    [] OTHER -> Step("check", Services) \o Step("start", ServicesOf(wm))

LoadLoraMode(r) ==
  /\ job[r].pc = "load"
  /\ job' = [job EXCEPT ![r].pc = "script", ![r].todo = Script(job[r].ask.wm, mode.wm)]
  /\ UNCHANGED <<mode, uploaded, etc, running, up, closed, budgets>>

At(j, kind) == job[j].pc = "script" /\ job[j].todo # <<>> /\ Head(job[j].todo)[1] = kind
Service(j) == Head(job[j].todo)[2]
Proceeds(j) == job' = [job EXCEPT ![j].todo = Tail(@)]

\* The lines of ps that name the service; the command line of basicstation's
\* init script contains "station" as well.
Lines(s) ==
  Cardinality(running \cap {s})
    + IF s # "basicstation" THEN 0
      ELSE Cardinality({j \in Jobs : At(j, "wait") /\ Service(j) = s})

\* stop_lora_mode stops a service that ps shows exactly once.
CheckService(j) ==
  /\ At(j, "check")
  /\ running' = IF Lines(Service(j)) = 1 THEN running \ {Service(j)} ELSE running
  /\ Proceeds(j)
  /\ UNCHANGED <<mode, uploaded, etc, up, closed, budgets>>

StopService(j) ==
  /\ At(j, "stop")
  /\ running' = running \ {Service(j)}
  /\ Proceeds(j)
  /\ UNCHANGED <<mode, uploaded, etc, up, closed, budgets>>

EndScript(j) ==
  /\ job[j].pc = "script" /\ job[j].todo = <<>>
  /\ Goes(j, "done")
  /\ UNCHANGED <<mode, uploaded, etc, running, up, closed, budgets>>

-----------------------------------------------------------------------------
(* The init scripts *)

\* A start that does not look at the mode file.
StartServiceAnyMode(j) ==
  /\ At(j, "start")
  /\ job' = [job EXCEPT ![j].todo = <<<<"wait", Service(j)>>>> \o Tail(@)]
  /\ UNCHANGED <<mode, uploaded, etc, running, up, closed, budgets>>

\* start_service loads the mode.  When the service is not of the mode no
\* instance is opened, and procd ends one that runs.
StartService(j) ==
  /\ At(j, "start")
  /\ IF Service(j) \in ServicesOf(mode.wm)
     THEN /\ job' = [job EXCEPT ![j].todo = <<<<"wait", Service(j)>>>> \o Tail(@)]
          /\ running' = running
     ELSE Proceeds(j) /\ running' = running \ {Service(j)}
  /\ UNCHANGED <<mode, uploaded, etc, up, closed, budgets>>

\* The bridge's script takes $? of an assignment for the state of wlan0, so it
\* always finds a network.
NetworkReady(service) == up \/ service = "lora-gateway-bridge"

OpenInstance(j) ==
  /\ At(j, "wait") /\ NetworkReady(Service(j))
  /\ running' = running \cup {Service(j)}
  /\ Proceeds(j)
  /\ UNCHANGED <<mode, uploaded, etc, up, closed, budgets>>

\* "Network timeout": the init script exits, its caller goes on.
GiveUp(j) ==
  /\ At(j, "wait") /\ ~NetworkReady(Service(j)) /\ giveups < MaxGiveUps
  /\ giveups' = giveups + 1
  /\ Proceeds(j)
  /\ UNCHANGED <<mode, uploaded, etc, running, up, closed, flaps, reboots>>

-----------------------------------------------------------------------------
(* The surroundings *)

NetworkUp ==
  /\ ~up /\ up' = TRUE
  /\ UNCHANGED <<mode, uploaded, etc, running, job, closed, budgets>>

NetworkDown ==
  /\ up /\ up' = FALSE /\ flaps < MaxFlaps
  /\ flaps' = flaps + 1
  /\ UNCHANGED <<mode, uploaded, etc, running, job, closed, giveups, reboots>>

Upload(b) ==
  /\ ~(b \subseteq uploaded)
  /\ uploaded' = uploaded \cup b
  /\ UNCHANGED <<mode, etc, running, up, job, closed, budgets>>

\* Whatever was at work is gone; the files stay.
Reboot ==
  /\ reboots < MaxReboots /\ reboots' = reboots + 1
  /\ running' = {} /\ closed' = FALSE
  /\ job' = [j \in Jobs |-> IF j = 0 THEN Boot
                             ELSE IF Active(j) THEN [job[j] EXCEPT !.pc = "done", !.todo = <<>>]
                             ELSE job[j]]
  /\ UNCHANGED <<mode, uploaded, etc, up, flaps, giveups>>

RequestStep(r) ==
  \/ RemoveFiles(r) \/ CopyFiles(r) \/ AdaptStation(r) \/ OpenModeConf(r)
  \/ WriteModeConf(r) \/ Background(r) \/ LoadLoraMode(r)

ScriptStep(j) ==
  \/ CheckService(j) \/ StopService(j) \/ StartService(j) \/ OpenInstance(j)
  \/ EndScript(j)

Next ==
  \/ \E r \in Requests : Request(r) \/ RequestStep(r)
  \/ \E j \in Jobs : ScriptStep(j) \/ GiveUp(j)
  \/ NetworkUp \/ NetworkDown \/ Reboot
  \/ \E b \in Batches : Upload(b)

Spec == Init /\ [][Next]_vars

\* The system runs its processes, and the network comes back.
Fairness ==
  /\ \A r \in Requests : WF_vars(RequestStep(r))
  /\ \A j \in Jobs : WF_vars(ScriptStep(j))
  /\ WF_vars(NetworkUp)

LiveSpec == Spec /\ Fairness

-----------------------------------------------------------------------------

Modes == {[wm |-> "cut", station |-> "LNS", auth |-> 0], Unknown}
           \cup {a \in Asked : a.wm \notin {"CLOSE", "RESTART"}}
Kinds == {"uri", "trust", "crt", "key", "token"}

\* The mode file holds a mode, key and token have one name between them, and a
\* script has at most the steps of a launch ahead of it.
TypeOK ==
  /\ mode \in Modes /\ running \subseteq Services /\ up \in BOOLEAN /\ closed \in BOOLEAN
  /\ uploaded \subseteq {"LNS", "CUPS"} \X Kinds /\ etc \subseteq {"LNS", "CUPS"} \X Kinds
  /\ \A sm \in {"LNS", "CUPS"} : ~({<<sm, "key">>, <<sm, "token">>} \subseteq etc)
  /\ flaps \in 0..MaxFlaps /\ giveups \in 0..MaxGiveUps /\ reboots \in 0..MaxReboots
  /\ \A j \in Jobs :
       /\ job[j].pc \in {"none", "remove", "copy", "adapt", "open", "write", "background",
                         "load", "script", "done"}
       /\ job[j].ask \in Asked \cup {Unknown}
       /\ job[j].answer \in {"none", "success", "failed"}
       /\ Len(job[j].todo) <= 5

\* When no job is at work, only services of the mode in the file run: switching
\* (launch_mode), closing and booting leave nothing of another mode behind.
NoStrayService == Quiet => running \subseteq ServicesOf(mode.wm)

LastBast == {r \in Requests : /\ job[r].ask.wm = "BAST"
                             /\ \A q \in Requests : q > r => job[q].ask.wm # "BAST"}

\* After a successful request for BAST, /etc/basicstation holds exactly the files
\* of the station mode and authentication mode in the file, nothing of an earlier
\* one (station_auth_mode_handle).
FilesOfTheMode ==
  Quiet => \A r \in LastBast : job[r].answer = "success" =>
    /\ etc = {job[r].ask.station} \X Needed(job[r].ask.auth)
    /\ mode.wm = "BAST" => mode = job[r].ask

\* Once requests and the network settle, the services of the mode run, and no
\* others, unless the last request was CLOSE, a reboot cut the mode file or a
\* script gave up waiting for the network.
Converges ==
  <>[](closed \/ mode.wm = "cut" \/ giveups > 0 \/ running = ServicesOf(mode.wm))

\* "It can start, switch and restart the gateway's current work mode"
\* (cgicpp-lorawan-mode.cpp:6): switching between modes does not leave two
\* programs on the one concentrator.
OneConcentrator == ~({"packet_forwarder", "basicstation"} \subseteq running)

\* "Network if is down, waiting...." (init.d/lora-gateway-bridge:65): the bridge is
\* not started while no interface is up.
BridgeWaitsForNetwork ==
  [][{"lora-gateway-bridge"} \cap (running' \ running) # {} => up]_vars

=============================================================================
