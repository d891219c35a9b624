------------------------------- MODULE MCCgi -------------------------------
(***************************************************************************)
(* The CGI programs of the web interface, for TLC: a behaviour is about    *)
(* the settings of the bridge (BridgeToml), about one of the JSON files    *)
(* (JsonConf) or about the report of the modem (LteInfo).  The modules     *)
(* share the variables they all have; those of the others stay as they     *)
(* are.                                                                    *)
(***************************************************************************)
EXTENDS Naturals

CONSTANTS Procs,                      \* processes of JsonConf and LteInfo
          Levels, Hosts, Certs, Intervals,  \* values that BridgeToml's requests ask for
          TomlRequests, JsonRequests, LteRequests,
          TomlKills, JsonKills, LteKills,
          MaxSplits, MaxTimeouts

VARIABLES which, conf, proc, requests, kills,
          tmp, disk, certs,
          file, cred, global, cps, used, asked, version, causes,
          running, starts, out, rx, lateOver, splits, timeouts

\* A reconnect interval is a number of seconds.
ASSUME IntervalsAssumption == Intervals \subseteq Nat

\* The settings of the bridge are changed by one process at a time, which has a
\* temporary file and may leave another behind.
Files == 1..2
T == INSTANCE BridgeToml WITH Procs <- {"p"}, MaxRequests <- TomlRequests, MaxKills <- TomlKills
J == INSTANCE JsonConf WITH MaxRequests <- JsonRequests, MaxKills <- JsonKills
L == INSTANCE LteInfo WITH MaxRequests <- LteRequests, MaxKills <- LteKills

shared == <<conf, proc, requests, kills>>
tomlVars == <<tmp, disk, certs>>
jsonVars == <<file, cred, global, cps, used, asked, version, causes>>
lteVars == <<running, starts, out, rx, lateOver, splits, timeouts>>
vars == <<which, shared, tomlVars, jsonVars, lteVars>>

NoToml == tmp = 0 /\ disk = <<>> /\ certs = {}
NoJson ==
  /\ file = <<>> /\ cred = <<>> /\ global = 0 /\ cps = <<>> /\ used = 0 /\ asked = <<>>
  /\ version = 0 /\ causes = {}
NoLte ==
  /\ running = TRUE /\ starts = 0 /\ out = <<>> /\ rx = <<>> /\ lateOver = FALSE
  /\ splits = 0 /\ timeouts = 0

Init ==
  \/ which = "toml" /\ T!Init /\ NoJson /\ NoLte
  \/ which = "json" /\ J!Init /\ NoToml /\ NoLte
  \/ which = "lte" /\ L!Init /\ NoToml /\ NoJson

OfToml(Step) == which = "toml" /\ Step /\ UNCHANGED <<which, jsonVars, lteVars>>
OfJson(Step) == which = "json" /\ Step /\ UNCHANGED <<which, tomlVars, lteVars>>
OfLte(Step) == which = "lte" /\ Step /\ UNCHANGED <<which, tomlVars, jsonVars>>

Next == OfToml(T!Next) \/ OfJson(J!Next) \/ OfLte(L!Next)

SpecOne == Init /\ [][Next]_vars

\* The fairness of LteInfo; nothing is assumed of the others.
Spec ==
  /\ SpecOne
  /\ \A p \in Procs : WF_vars(OfLte(L!Works(p)))
  /\ WF_vars(OfLte(L!Arrives)) /\ WF_vars(OfLte(L!Started))

----------------------------------------------------------------------------
\* A SET of the bridge's settings that reports success has stored them, and has left the
\* others alone (BridgeToml).
SetStores == which = "toml" => T!SetStores
OthersKept == which = "toml" => T!OthersKept

\* Accepted sections of a JSON file stay, and a file that cannot be read is so for one of
\* the reasons listed (JsonConf).
AcceptedStays == which = "json" => J!AcceptedStays
UnreadableExplained == which = "json" => J!UnreadableExplained

\* The IMEI of a report is the answer to the request's own question, and quectel-CM runs
\* again after the reports (LteInfo).
ImeiOwn == which = "lte" => L!ImeiOwn
QuectelBack == <>[](which = "lte" => running \/ kills > 0)

=============================================================================
