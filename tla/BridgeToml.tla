----------------------------- MODULE BridgeToml -----------------------------
(***************************************************************************)
(* cgi-cpp, the requests on the bridge's toml file.  Each request is a     *)
(* process that reads lorabridge.toml; one that changes a section writes   *)
(* all sections to /tmp/tmp.toml and copies that over the file, line by    *)
(* line.  Nothing locks either file.                                       *)
(*                                                                         *)
(* A file is a function from the sections it has to their values.  A       *)
(* process writes them in FileOrder, each in one step; they are taken to   *)
(* be equally long, so a section written behind one that another process   *)
(* truncated away leaves a hole.  Of each section the model keeps what its *)
(* parser treats in a way of its own: the log level; the two filter lists; *)
(* the backend type and the Basic Station bind (host and port); the type   *)
(* of mqtt authentication, its reconnect interval and its CA certificate,  *)
(* a file that the request also looks after.                               *)
(***************************************************************************)
EXTENDS Naturals, Sequences

CONSTANTS Procs,        \* processes the web server may run at a time
          Files,        \* files that TMP_FILE_NAME may name, one more than processes
          Levels,       \* log levels a request may ask for
          Hosts,        \* Basic Station hosts a request may ask for
          Certs,        \* CA certificate files that may be uploaded
          Intervals,    \* reconnect intervals a request may ask for, in seconds
          MaxRequests,  \* bound on the requests of a behaviour
          MaxKills      \* bound on the processes ended before they finish

FileOrder == <<"general", "filters", "backend", "integration">>
Sections == {FileOrder[i] : i \in 1..Len(FileOrder)}

\* The factory port of the Basic Station bind, and the one that requests ask for.
Port == 3001

\* A list in a file: its line is commented out, [] or has elements.
Lists == {"blank", "empty", "some"}

\* parse_json_sec_to_string: the units that the string has, and how many of each.
Hour == 3600
SecToString(sec) ==
  LET count == [h |-> sec \div Hour, m |-> (sec % Hour) \div 60, s |-> (sec % Hour) % 60]
  IN  [u \in {"s"} \cup {v \in {"h"} : count.h > 0}
                   \cup {v \in {"m"} : count.m > 0 \/ count.h > 0} |-> count[u]]

\* parse_toml_string_to_sec
StringToSec(string) ==
  LET count(u) == IF u \in DOMAIN string THEN string[u] ELSE 0
  IN  count("h") * 60 * 60 + 60 * count("m") + count("s")

\* lorabridge.toml as installed.
Factory == [
  general |-> "4",
  filters |-> [net_ids |-> "empty", join_euis |-> "empty"],
  backend |-> [type |-> "semtech_udp", host |-> "", port |-> Port],
  integration |-> [type |-> "generic", ca_cert |-> "", interval |-> [m |-> 10, s |-> 0]]]

\* The members of class BridgeToml before anything is parsed.
Members == [
  general |-> "0",
  filters |-> [enable |-> FALSE, net_ids |-> "empty", join_euis |-> "empty"],
  backend |-> [type |-> "", host |-> "", port |-> 0],
  integration |-> [type |-> "", ca_cert |-> "", interval |-> 0]]

VARIABLES
  conf,      \* BRIDGE_CONF_DEFAULT
  tmp,       \* the file that TMP_FILE_NAME names, or 0
  disk,      \* what the files that TMP_FILE_NAME named hold
  certs,     \* the files in BRIDGE_CAFILE_PATH
  proc,      \* each process
  requests, kills

vars == <<conf, tmp, disk, certs, proc, requests, kills>>

Nothing == [s \in {} |-> ""]

Idle == [pc |-> "idle", op |-> "get", secs |-> {}, to |-> Nothing, body |-> "good",
         toml_data |-> Nothing, members |-> Members, outfile |-> 0,
         lines |-> Nothing, next |-> 1, answer |-> "none"]

Init ==
  /\ conf = Factory
  /\ tmp = 0 /\ disk = [f \in Files |-> Nothing]
  /\ certs = {}
  /\ proc = [p \in Procs |-> Idle]
  /\ requests = 0 /\ kills = 0

\* toml::parse fails on a file with a hole; an empty file is an empty table.
Parses(file) ==
  \E n \in 0..Len(FileOrder) : DOMAIN file = {FileOrder[i] : i \in 1..n}

Started(r) ==
  IF Parses(conf) THEN [r EXCEPT !.pc = "stale", !.toml_data = conf]
                  ELSE [r EXCEPT !.answer = "terminated"]

Starts(p) ==
  /\ proc[p].pc = "idle" /\ requests < MaxRequests
  /\ requests' = requests + 1
  /\ UNCHANGED <<conf, tmp, disk, certs, kills>>

Asked == {{s} : s \in Sections} \cup {Sections}

\* A new process; its constructor parses the file, outside any try block.
ConstructGet(p) ==
  /\ Starts(p)
  /\ \E secs \in Asked :
       proc' = [proc EXCEPT ![p] = Started([Idle EXCEPT !.secs = secs])]

\* A list of both filters that a request asks for; a filter it switches off.
Filters == [enable: {TRUE}, net_ids: Lists \ {"blank"}, join_euis: Lists \ {"blank"}]
             \cup {[enable |-> FALSE, net_ids |-> "empty", join_euis |-> "empty"]}

\* The body is well formed, or is not json, or lacks the last field of the
\* last section that is asked for.
ConstructSet(p) ==
  /\ Starts(p)
  /\ \E secs \in Asked, body \in {"good", "not json", "incomplete"},
        g \in Levels, f \in Filters, h \in Hosts \cup {"udp"}, c \in certs \cup {""},
        i \in Intervals :
       LET value == [general |-> g, filters |-> f, backend |-> h,
                     integration |-> [ca_cert |-> c, interval |-> i]]
       IN  proc' = [proc EXCEPT ![p] =
                      Started([Idle EXCEPT !.op = "set", !.secs = secs, !.body = body,
                                           !.to = [s \in secs |-> value[s]]])]

\* The constructor removes a temporary file that was left behind.
RemoveStale(p) ==
  /\ proc[p].pc = "stale"
  /\ tmp' = 0
  /\ proc' = [proc EXCEPT ![p].pc = "built"]
  /\ UNCHANGED <<conf, disk, certs, requests, kills>>

Answer(p, a) == proc' = [proc EXCEPT ![p].pc = "idle", ![p].answer = a]

\* Parsing a section throws when the section or its type line is missing.
ParseThrows(data, s) ==
  \/ s \notin DOMAIN data
  \/ s \in {"backend", "integration"} /\ data[s].type = ""

\* main_parser_get: a single section that cannot be parsed fails the request,
\* among all sections it goes unnoticed.
Get(p) ==
  /\ proc[p].pc = "built" /\ proc[p].op = "get"
  /\ Answer(p, IF proc[p].secs # Sections
                  /\ \E s \in proc[p].secs : ParseThrows(proc[p].toml_data, s)
               THEN "failed" ELSE "success")
  /\ UNCHANGED <<conf, tmp, disk, certs, requests, kills>>

\* parse_toml_filters: a list that is missing throws and switches the filter off.
ParseFilters(f) ==
  LET found(list) == IF list = "blank" THEN "empty" ELSE list
  IN  [enable    |-> "blank" \notin {f.net_ids, f.join_euis},
       net_ids   |-> found(f.net_ids),
       join_euis |-> IF f.net_ids = "blank" THEN "empty" ELSE found(f.join_euis)]

\* parse_toml_backend: a bind that begins with its colon is not taken over.
ParseBackend(b) == IF b.host = "" THEN [b EXCEPT !.port = 0] ELSE b

\* parse_toml_integration
ParseIntegration(i) == [i EXCEPT !.interval = StringToSec(@)]

\* parse_toml_for_each visits the sections in the order of the map's keys and
\* gives up, silently, at the first that throws.
VisitOrder == <<"backend", "filters", "general", "integration">>

ParseForEach(data) ==
  LET visited == {VisitOrder[n] : n \in {m \in 1..Len(VisitOrder) :
                    \A i \in 1..m : ~ParseThrows(data, VisitOrder[i])}}
      parsed(s) == CASE s = "filters" -> ParseFilters(data.filters)
                     [] s = "backend" -> ParseBackend(data.backend)
                     [] s = "integration" -> ParseIntegration(data.integration)
                     [] s = "general" -> data.general
  IN  [s \in Sections |-> IF s \in visited THEN parsed(s) ELSE Members[s]]

\* parse_remote_filters: a filter that is switched off leaves the lists.
ParseRemoteFilters(old, to) == IF to.enable THEN to ELSE [old EXCEPT !.enable = FALSE]

\* parse_remote_backend: one type leaves the fields of the other as they are.
ParseRemoteBackend(old, to) ==
  IF to = "udp" THEN [old EXCEPT !.type = "semtech_udp"]
  ELSE [type |-> "basic_station", host |-> to, port |-> Port]

\* parse_remote_integration; the interval is a number in the request.
ParseRemoteIntegration(to) ==
  [type |-> "generic", ca_cert |-> to.ca_cert, interval |-> to.interval]

ParseRemote(s, old, to) ==
  CASE s = "filters" -> ParseRemoteFilters(old, to)
    [] s = "backend" -> ParseRemoteBackend(old, to)
    [] s = "integration" -> ParseRemoteIntegration(to)
    [] s = "general" -> to

\* A request that takes the members as constructed for what the file holds.
MergeFresh(p) ==
  LET r == proc[p]
  IN  /\ r.pc = "built" /\ r.op = "set"
      /\ certs' = certs
      /\ proc' = [proc EXCEPT ![p].pc = IF r.body = "good" THEN "open" ELSE "idle",
           ![p].answer = IF r.body = "good" THEN @ ELSE "failed",
           ![p].members = [s \in Sections |->
                IF s \in r.secs THEN ParseRemote(s, Members[s], r.to[s]) ELSE Members[s]]]
      /\ UNCHANGED <<conf, tmp, disk, requests, kills>>

\* set_local_for_one and set_local_for_each up to the first output.  A body that
\* is not json throws at once.  The other certificate files are removed as soon
\* as the name of the new one is read, before the fields behind it.
Merge(p) ==
  LET r == proc[p]
      old == ParseForEach(r.toml_data)
  IN  /\ r.pc = "built" /\ r.op = "set"
      /\ certs' = IF r.body # "not json" /\ "integration" \in r.secs
                     /\ r.to["integration"].ca_cert # ""
                  THEN certs \cap {r.to["integration"].ca_cert} ELSE certs
      /\ IF r.body # "good" THEN Answer(p, "failed")
         ELSE proc' = [proc EXCEPT ![p].pc = "open", ![p].members =
                [s \in Sections |-> IF s \in r.secs THEN ParseRemote(s, old[s], r.to[s])
                                                    ELSE old[s]]]
      /\ UNCHANGED <<conf, tmp, disk, requests, kills>>

InUse == {proc[p].outfile : p \in Procs} \cup {tmp}

\* open_output_file: the file that has the name is truncated, else one is made.
OpenOutputFile(p) ==
  /\ proc[p].pc = "open"
  /\ LET f == IF tmp # 0 THEN tmp ELSE CHOOSE g \in Files : g \notin InUse
     IN  /\ tmp' = f
         /\ disk' = [disk EXCEPT ![f] = Nothing]
         /\ proc' = [proc EXCEPT ![p].pc = "assemble", ![p].outfile = f, ![p].next = 1]
  /\ UNCHANGED <<conf, certs, requests, kills>>

\* What a member is written as; a filter that is off has empty lists.
Assembled(s, m) ==
  CASE s = "filters" -> IF m.enable THEN [net_ids |-> m.net_ids, join_euis |-> m.join_euis]
                                    ELSE [net_ids |-> "empty", join_euis |-> "empty"]
    [] s = "integration" -> [m EXCEPT !.interval = SecToString(@)]
    [] OTHER -> m

With(file, s, v) == [t \in DOMAIN file \cup {s} |-> IF t = s THEN v ELSE file[t]]

\* assemble_data_part_1 to _5, one part after the other.
AssembleDataPart(p) ==
  LET r == proc[p]
      s == FileOrder[r.next]
  IN  /\ r.pc = "assemble"
      /\ disk' = [disk EXCEPT ![r.outfile] = With(@, s, Assembled(s, r.members[s]))]
      /\ proc' = [proc EXCEPT ![p].next = r.next + 1,
                              ![p].pc = IF r.next = Len(FileOrder) THEN "in" ELSE @]
      /\ UNCHANGED <<conf, tmp, certs, requests, kills>>

\* output_formatted_toml_file opens the temporary file by its name; when the name
\* is gone there are no lines to read, which is not looked at.
OpenInfile(p) ==
  /\ proc[p].pc = "in"
  /\ proc' = [proc EXCEPT ![p].pc = "truncate",
                          ![p].lines = IF tmp = 0 THEN Nothing ELSE disk[tmp]]
  /\ UNCHANGED <<conf, tmp, disk, certs, requests, kills>>

\* The copy that leaves out the first section.
TruncateConfAhead(p) ==
  /\ proc[p].pc = "truncate"
  /\ conf' = Nothing
  /\ proc' = [proc EXCEPT ![p].pc = "copy", ![p].next = 2]
  /\ UNCHANGED <<tmp, disk, certs, requests, kills>>

\* The file is opened with ios::trunc.
TruncateConf(p) ==
  /\ proc[p].pc = "truncate"
  /\ conf' = Nothing
  /\ proc' = [proc EXCEPT ![p].pc = "copy", ![p].next = 1]
  /\ UNCHANGED <<tmp, disk, certs, requests, kills>>

\* A list without elements becomes a comment.
Formatted(s, v) ==
  IF s # "filters" THEN v
  ELSE [l \in DOMAIN v |-> IF v[l] = "empty" THEN "blank" ELSE v[l]]

\* The copy without the section that was asked for last.
CopyLinesShort(p) ==
  LET r == proc[p]
      s == FileOrder[r.next]
  IN  /\ r.pc = "copy" /\ r.next < Len(FileOrder)
      /\ conf' = IF s \in DOMAIN r.lines THEN With(conf, s, Formatted(s, r.lines[s])) ELSE conf
      /\ proc' = [proc EXCEPT ![p].next = r.next + 1,
                     ![p].pc = IF r.next = Len(FileOrder) - 1 THEN "remove" ELSE @]
      /\ UNCHANGED <<tmp, disk, certs, requests, kills>>

CopyLines(p) ==
  LET r == proc[p]
      s == FileOrder[r.next]
  IN  /\ r.pc = "copy"
      /\ conf' = IF s \in DOMAIN r.lines THEN With(conf, s, Formatted(s, r.lines[s])) ELSE conf
      /\ proc' = [proc EXCEPT ![p].next = r.next + 1,
                              ![p].pc = IF r.next = Len(FileOrder) THEN "remove" ELSE @]
      /\ UNCHANGED <<tmp, disk, certs, requests, kills>>

\* The temporary file is removed and the request answered.
RemoveTmp(p) ==
  /\ proc[p].pc = "remove"
  /\ tmp' = 0
  /\ proc' = [proc EXCEPT ![p].pc = "idle", ![p].answer = "success",
                          ![p].members = Members, ![p].outfile = 0,
                          ![p].lines = Nothing, ![p].next = 1]
  /\ UNCHANGED <<conf, disk, certs, requests, kills>>

\* The web server ends a process that takes too long.
Kill(p) ==
  /\ proc[p].pc # "idle" /\ kills < MaxKills
  /\ kills' = kills + 1
  /\ proc' = [proc EXCEPT ![p] = [Idle EXCEPT !.answer = "killed"]]
  /\ UNCHANGED <<conf, tmp, disk, certs, requests>>

\* The upload page stores a certificate.
Upload(c) ==
  /\ c \notin certs
  /\ certs' = certs \cup {c}
  /\ UNCHANGED <<conf, tmp, disk, proc, requests, kills>>

Next ==
  \/ \E p \in Procs :
       \/ ConstructGet(p) \/ ConstructSet(p) \/ RemoveStale(p) \/ Get(p) \/ Merge(p)
       \/ OpenOutputFile(p) \/ AssembleDataPart(p) \/ OpenInfile(p) \/ TruncateConf(p)
       \/ CopyLines(p) \/ RemoveTmp(p) \/ Kill(p)
  \/ \E c \in Certs : Upload(c)

Spec == Init /\ [][Next]_vars

-----------------------------------------------------------------------------

FilterLists == [net_ids: Lists, join_euis: Lists]
SectionType(s, v) ==
  CASE s = "general" -> v \in Levels \cup {"0", "4"}
    [] s = "filters" -> v \in FilterLists
    [] s = "backend" -> v \in [type: {"", "semtech_udp", "basic_station"},
                              host: Hosts \cup {""}, port: {0, Port}]
    [] s = "integration" -> /\ v.type \in {"", "generic"} /\ v.ca_cert \in Certs \cup {""}
                            /\ {"s"} \subseteq DOMAIN v.interval
                            /\ DOMAIN v.interval \subseteq {"h", "m", "s"}
FileType(file) == DOMAIN file \subseteq Sections /\ \A s \in DOMAIN file : SectionType(s, file[s])

\* Files hold sections of the right form; a temporary file in use has a name or
\* is held by one process; the members' lists are lists, never a comment.
TypeOK ==
  /\ FileType(conf) /\ certs \subseteq Certs
  /\ tmp \in Files \cup {0} /\ \A f \in Files : FileType(disk[f])
  /\ requests \in 0..MaxRequests /\ kills \in 0..MaxKills
  /\ \A p \in Procs :
       /\ proc[p].pc \in {"idle", "stale", "built", "open", "assemble", "in", "truncate",
                          "copy", "remove"}
       /\ proc[p].answer \in {"none", "success", "failed", "killed", "terminated"}
       /\ proc[p].outfile \in Files \cup {0} /\ proc[p].next \in 1..(Len(FileOrder) + 1)
       /\ FileType(proc[p].toml_data) /\ FileType(proc[p].lines)
       /\ proc[p].members.filters \in [enable: BOOLEAN, net_ids: Lists \ {"blank"},
                                       join_euis: Lists \ {"blank"}]

Done(p) == proc[p].pc = "idle" /\ proc[p].op = "set" /\ proc[p].answer = "success"

\* The lists that filter: those with elements.
Filtering(f) == {l \in {"net_ids", "join_euis"} : f[l] = "some"}

\* A set request that is answered with success (main.cpp, set_cb) is in the file:
\* the file has all sections, and those that were asked for are as asked, also
\* when an earlier process was ended half-way.  For requests one at a time.
SetStores ==
  \A p \in Procs : Done(p) =>
    LET to == proc[p].to
    IN  /\ DOMAIN conf = Sections
        /\ "general" \in proc[p].secs => conf.general = to["general"]
        /\ "filters" \in proc[p].secs =>
             Filtering(conf.filters) = (IF to["filters"].enable THEN Filtering(to["filters"]) ELSE {})
        /\ "backend" \in proc[p].secs =>
             IF to["backend"] = "udp" THEN conf.backend.type = "semtech_udp"
             ELSE conf.backend = [type |-> "basic_station", host |-> to["backend"], port |-> Port]
        /\ "integration" \in proc[p].secs =>
             /\ conf.integration.ca_cert = to["integration"].ca_cert
             /\ StringToSec(conf.integration.interval) = to["integration"].interval

\* Everything in the file can be taken over by a set request.
Whole(file) == \A s \in Sections : ~ParseThrows(file, s)

\* "Keep the values that were there" (cgicpp-toml.cpp, set_local_for_one): a
\* set request of one section leaves what the other sections mean as it was.
KeepsBackend(p) ==
  Done(p) /\ Whole(proc[p].toml_data) /\ "backend" \notin proc[p].secs
    => conf.backend = proc[p].toml_data.backend
KeepsFilters(p) ==
  Done(p) /\ Whole(proc[p].toml_data) /\ "filters" \notin proc[p].secs
    => Filtering(conf.filters) = Filtering(proc[p].toml_data.filters)

\* set_local_for_one keeps every section that was not asked for, but for the two
\* forms its parsers drop: a bind without a host, and one filter list of two.
OthersKept ==
  \A p \in Procs : Done(p) /\ Whole(proc[p].toml_data) =>
    LET old == proc[p].toml_data
    IN  /\ \A s \in {"general", "integration"} \ proc[p].secs : conf[s] = old[s]
        /\ old.backend.host # "" => KeepsBackend(p)
        /\ "blank" \notin {old.filters.net_ids, old.filters.join_euis} => KeepsFilters(p)

\* However many processes are ended half-way, the file stays one that the next
\* process can parse: no request ends in the exception of the constructor.
StillReadable == \A p \in Procs : proc[p].answer # "terminated"

\* "Keep the values that were there" (cgicpp-toml.cpp:256), for the bind of the
\* Basic Station backend.
BindKept == \A p \in Procs : KeepsBackend(p)

\* "When left blank, no filtering will be performed on JoinEUIs"
\* (lorabridge.toml:29), and only that: the filter on NetIDs is kept.
FilterKept == \A p \in Procs : KeepsFilters(p)

\* "Successfully update bridge toml file." (main.cpp:43): the file has its
\* sections when a set request is answered so and no other one is being served.
SuccessMeansUpdated ==
  (\A p \in Procs : proc[p].pc = "idle") /\ (\E p \in Procs : Done(p)) => DOMAIN conf = Sections

\* "Failed to update" (cgicpp-parser-base.cpp:50): a request that fails so has
\* not touched the certificate that the file names.
FailedChangesNothing ==
  \A p \in Procs :
    proc[p].op = "set" /\ proc[p].answer = "failed" /\ Whole(conf)
      => conf.integration.ca_cert \in certs \cup {""}

=============================================================================
