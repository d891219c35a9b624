------------------------------ MODULE JsonConf ------------------------------
(***************************************************************************)
(* cgi-cpp, the requests on the json files: station.conf, the LoRaWAN      *)
(* filter, the region, the firmware notification and the topics of the     *)
(* bridge.  Each request is a process that parses the file, changes some   *)
(* sections of the document in memory and writes the whole document back.  *)
(* Opening the file for writing truncates it; the document, smaller than   *)
(* the stream's buffer, reaches it in one write from offset 0.  A longer   *)
(* document that another process wrote may leave a tail behind it, which   *)
(* operator>> does not read.  Nothing locks the file.                      *)
(*                                                                         *)
(* The requests on different files share nothing, so that a behaviour is   *)
(* about one of them, conf.  The value of a section is the number of the   *)
(* request that gave it, 0 for the one installed.                          *)
(***************************************************************************)
EXTENDS Naturals

CONSTANTS Procs,        \* processes that may run at a time
          MaxRequests,  \* bound on the requests of a behaviour
          MaxKills      \* bound on the processes ended before they finish

Confs == {"bs", "filter", "region", "notif", "topic"}

\* The sections of a document, those of basicstation in the order of set_local_for_each.
Sections(c) ==
  CASE c = "bs" -> {"radio_common", "radio_0", "radio_1", "station_conf"}
    [] c = "filter" -> {"filter_enable", "white_list"}
    [] c = "region" -> {"lorawan_region"}
    [] c = "notif" -> {"push_enable"}
    [] c = "topic" -> {"gateway_eui", "topics"}

\* Files next to station.conf that hold a server's address or token.
Credentials == {"tc_uri", "tc_key", "cups_uri", "cups_key"}

\* What a SET may name: a section or all of them, an address or token, or the whole file.
Options(c) ==
  CASE c = "bs" -> Sections(c) \cup Credentials \cup {"all"}
    [] OTHER -> {"all"}

\* The content that open() leaves: no document at all.
Truncated == [s \in {} |-> 0]

VARIABLES
  conf,       \* the file this behaviour is about
  file,       \* its content
  cred,       \* the address and token files: the request that wrote each
  global,     \* GLOBAL_CONF_SX1250: the region it was copied from
  cps,        \* cp commands left running in the background: the regions to copy
  used,       \* the topics the bridge has read at its start
  proc,       \* each process
  asked,      \* history: per section, the last SET of it that wrote its document
  version,    \* history: how often the file has been written
  causes,     \* history: what has happened that can undo an accepted request
  requests, kills

vars == <<conf, file, cred, global, cps, used, proc, asked, version, causes, requests, kills>>

Idle == [pc |-> "idle", op |-> "get", id |-> 0, opt |-> "all", body |-> "good",
         on |-> TRUE, local_json |-> Truncated, base |-> 0]

\* The file as installed; the topics may come with the file of another gateway.
Installed(c) == [s \in Sections(c) |-> 0]
Foreign == [gateway_eui |-> MaxRequests + 1, topics |-> 0]

Init ==
  /\ conf \in Confs
  /\ file \in {Installed(conf)} \cup (IF conf = "topic" THEN {Foreign} ELSE {})
  /\ cred = [u \in Credentials |-> 0]
  /\ global = 0 /\ cps = {} /\ used = 0
  /\ proc = [p \in Procs |-> Idle]
  /\ asked = [s \in Sections(conf) \cup Credentials |-> 0]
  /\ version = 0 /\ causes = {}
  /\ requests = 0 /\ kills = 0

(***************************************************************************)
(* The document that a SET makes of the one it has read.                   *)
(***************************************************************************)

\* The callbacks of parse_remote_cb_map: each takes one section from the body.
parse_remote_radio_common_config(r, j) == [j EXCEPT !.radio_common = r.id]
parse_remote_radio_0_config(r, j) == [j EXCEPT !.radio_0 = r.id]
parse_remote_radio_1_config(r, j) == [j EXCEPT !.radio_1 = r.id]
parse_remote_station_config(r, j) == [j EXCEPT !.station_conf = r.id]

\* An address or a token changes no section.
set_local_for_one(r, j) ==
  CASE r.opt = "radio_common" -> parse_remote_radio_common_config(r, j)
    [] r.opt = "radio_0" -> parse_remote_radio_0_config(r, j)
    [] r.opt = "radio_1" -> parse_remote_radio_1_config(r, j)
    [] r.opt = "station_conf" -> parse_remote_station_config(r, j)
    [] OTHER -> j

set_local_for_each(r, j) ==
  parse_remote_station_config(r, parse_remote_radio_1_config(r,
    parse_remote_radio_0_config(r, parse_remote_radio_common_config(r, j))))

Station(r) == IF r.opt = "all" THEN set_local_for_each(r, r.local_json)
                               ELSE set_local_for_one(r, r.local_json)

\* parse_remote_tc_uri_config and the three like it
parse_remote_credential(r) ==
  IF r.opt \in Credentials /\ r.body = "good" THEN [cred EXCEPT ![r.opt] = r.id] ELSE cred

\* A bug: a request that switches the filter off takes its list over, too.
FilterAlways(r) == [filter_enable |-> r.id, white_list |-> r.id]

\* parse_remote_filter_enable, parse_remote_deveui_white_list
Filter(r) ==
  [filter_enable |-> r.id, white_list |-> IF r.on THEN r.id ELSE r.local_json.white_list]

\* set_bridge_mqtt_topic: gateway_eui stays what the file says.
Topics(r) == [r.local_json EXCEPT !.topics = r.id]

\* main_lorawan_region_set, main_notification_push_set
Region(r) == [r.local_json EXCEPT !.lorawan_region = r.id]
Notification(r) == [r.local_json EXCEPT !.push_enable = r.id]

NewJson(r) ==
  CASE conf = "bs" -> Station(r)
    [] conf = "filter" -> Filter(r)
    [] conf = "region" -> Region(r)
    [] conf = "notif" -> Notification(r)
    [] conf = "topic" -> Topics(r)

\* What the user who gets the answer 200 may expect to have set.
Names(r) ==
  CASE r.opt \in Credentials -> IF r.body = "good" THEN {r.opt} ELSE {}
    [] r.opt \notin Credentials \cup {"all"} -> {r.opt}
    [] r.opt = "all" /\ conf = "filter" /\ ~ r.on -> {"filter_enable"}
    [] r.opt = "all" /\ conf = "topic" -> {"topics"}
    [] OTHER -> Sections(conf)

Accepted(r) ==
  IF r.op = "set" THEN [s \in DOMAIN asked |-> IF s \in Names(r) THEN r.id ELSE asked[s]]
                  ELSE asked

\* generate_bridge_mqtt_topic, lora_bridge_set_mqtt_topic: a file that cannot be read,
\* or is of another gateway, is replaced by one with the default topics.
DefaultTopics == [gateway_eui |-> 0, topics |-> 0]
Regenerates == file = Truncated \/ file.gateway_eui # 0

(***************************************************************************)
(* The steps of a process.                                                 *)
(***************************************************************************)
Begin(p, r) ==
  /\ proc[p].pc = "idle" /\ requests < MaxRequests
  /\ requests' = requests + 1
  /\ proc' = [proc EXCEPT ![p] =
                IF r.pc = "idle" THEN Idle
                ELSE [r EXCEPT !.id = requests + 1, !.base = version]]
  /\ UNCHANGED <<conf, file, cred, global, cps, asked, version, kills>>

\* The requests that show a file leave it alone, whatever they find in it.
Get(p) ==
  /\ conf # "topic"
  /\ Begin(p, Idle)
  /\ UNCHANGED <<used, causes>>

\* A process that is to have topics to show or to use: a GET, or the bridge.
NeedsTopics(p, op) ==
  /\ conf = "topic"
  /\ Begin(p, [Idle EXCEPT !.op = op, !.pc = IF Regenerates THEN "open" ELSE "idle",
                           !.local_json = DefaultTopics])
  /\ causes' = IF Regenerates /\ file # Truncated THEN causes \cup {"foreign"} ELSE causes

GetTopics(p) == NeedsTopics(p, "get") /\ UNCHANGED used

BridgeStarts(p) ==
  /\ NeedsTopics(p, "bridge")
  /\ used' = IF Regenerates THEN 0 ELSE file.topics

\* A SET reads the file.  On a truncated one the constructor of a class throws and the
\* process ends without an answer; the others answer 500.
Load(p) ==
  /\ \E opt \in Options(conf), body \in {"good", "refused", "absent"}, on \in BOOLEAN :
       /\ body = "absent" => opt \in Credentials
       /\ ~ on => conf = "filter"
       /\ Begin(p, [Idle EXCEPT !.op = "set", !.opt = opt, !.body = body, !.on = on,
                      !.pc = IF file = Truncated THEN "idle" ELSE "parse",
                      !.local_json = file])
  /\ UNCHANGED <<used, causes>>

\* A bug: the stream is opened before the body has been looked at.
OpensFirst(p) ==
  LET r == proc[p] IN
  /\ r.pc = "parse"
  /\ file' = Truncated
  /\ proc' = [proc EXCEPT ![p] = IF r.body = "refused" THEN Idle
                                  ELSE [r EXCEPT !.pc = "write", !.local_json = NewJson(r)]]
  /\ UNCHANGED <<conf, cred, global, cps, used, asked, version, causes, requests, kills>>

\* A body that is not json, lacks a field or names an unknown region or topics of another
\* form ends the request here; an absent address or token does not.
Parse(p) ==
  LET r == proc[p] IN
  /\ r.pc = "parse"
  /\ proc' = [proc EXCEPT ![p] = IF r.body = "refused" THEN Idle
                                  ELSE [r EXCEPT !.pc = "open", !.local_json = NewJson(r)]]
  /\ cred' = parse_remote_credential(r)
  /\ UNCHANGED <<conf, file, global, cps, used, asked, version, causes, requests, kills>>

\* json_ofstream.open
Open(p) ==
  /\ proc[p].pc = "open"
  /\ file' = Truncated
  /\ proc' = [proc EXCEPT ![p].pc = "write"]
  /\ UNCHANGED <<conf, cred, global, cps, used, asked, version, causes, requests, kills>>

\* The document is written.  Unless a region is to be installed, main_run answers 200.
Write(p) ==
  LET r == proc[p] IN
  /\ r.pc = "write"
  /\ file' = r.local_json
  /\ version' = version + 1
  /\ causes' = IF r.base # version THEN causes \cup {"stale"} ELSE causes
  /\ asked' = Accepted(r)
  /\ proc' = [proc EXCEPT ![p] = IF conf = "region" THEN [r EXCEPT !.pc = "copy"] ELSE Idle]
  /\ UNCHANGED <<conf, cred, global, cps, used, requests, kills>>

\* choose_global_conf_region: cp is started in the background, and the request answered.
Choose(p) ==
  LET r == proc[p] IN
  /\ r.pc = "copy"
  /\ cps' = cps \cup {r.id}
  /\ causes' = IF cps # {} \/ file # r.local_json THEN causes \cup {"copies"} ELSE causes
  /\ proc' = [proc EXCEPT ![p] = Idle]
  /\ UNCHANGED <<conf, file, cred, global, used, asked, version, requests, kills>>

\* A bug: the region that was installed before is copied again.
CpOld ==
  /\ \E region \in cps : cps' = cps \ {region}
  /\ UNCHANGED <<conf, file, cred, global, used, proc, asked, version, causes, requests, kills>>

CpRuns ==
  /\ \E region \in cps : global' = region /\ cps' = cps \ {region}
  /\ UNCHANGED <<conf, file, cred, used, proc, asked, version, causes, requests, kills>>

\* The process is ended: by the web server, by a signal, with the power.
Kill(p) ==
  /\ proc[p].pc # "idle" /\ kills < MaxKills
  /\ proc' = [proc EXCEPT ![p] = Idle]
  /\ kills' = kills + 1
  /\ causes' = causes \cup (IF proc[p].pc = "write" THEN {"torn"} ELSE {"killed"})
  /\ UNCHANGED <<conf, file, cred, global, cps, used, asked, version, requests>>

Next ==
  \/ \E p \in Procs : \/ Get(p) \/ GetTopics(p) \/ BridgeStarts(p) \/ Load(p) \/ Parse(p)
                      \/ Open(p) \/ Write(p) \/ Choose(p) \/ Kill(p)
  \/ CpRuns

Spec == Init /\ [][Next]_vars

-----------------------------------------------------------------------------
Quiet == \A p \in Procs : proc[p].pc = "idle"

\* The content of station.conf, of the filter, ... when no request is under way: every
\* section is that of the last successful request that named it, although each request
\* (set_local_for_one, output_modyfied_json_file) rewrites all of them, and a GET of the
\* topics and the start of the bridge may, too; unless a process wrote a document that
\* it had made before another one was written, was ended before its answer, or replaced
\* the topics of another gateway.
AcceptedStays ==
  Quiet /\ causes \subseteq {"copies"} =>
    /\ file # Truncated
    /\ \A s \in Sections(conf) \ {"gateway_eui"} : file[s] = asked[s]
    /\ \A u \in Credentials : cred[u] = asked[u]

\* A file that cannot be read, which ends the next process in its constructor, is being
\* written at this moment, or the process that was to write it was ended between open
\* and write: no request that is refused leaves it so.
UnreadableExplained ==
  file = Truncated => "torn" \in causes \/ \E p \in Procs : proc[p].pc = "write"

\* The concentrator's configuration is that of the region in the file once the copies in
\* the background are done, unless one was overtaken or a process was ended before it.
RegionInstalled ==
  conf = "region" /\ Quiet /\ cps = {} /\ causes \cap {"copies", "killed", "torn"} = {}
    => global = file.lorawan_region

=============================================================================
