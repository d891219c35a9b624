----------------------------- MODULE CgiProofs -----------------------------
(***************************************************************************)
(* The CGI programs, for any number of processes, requests and kills.      *)
(***************************************************************************)
EXTENDS MCCgi, Sequences, TLAPS

----------------------------------------------------------------------------
(* The JSON files.  An accepted request is undone only by a process that   *)
(* is about to write a document older than the file, Doomed; such a        *)
(* process leaves its mark in causes however it ends.  While there is      *)
(* none, the only process between open and write holds the document that   *)
(* its answer will promise.                                                *)

Fields == {"pc", "op", "id", "opt", "body", "on", "local_json", "base"}

Plain == J!Sections(conf) \ {"gateway_eui"}
Right(d) == \A s \in Plain : d[s] = asked[s]
CredsRight == \A u \in J!Credentials : cred[u] = asked[u]

Working(p) == proc[p].pc \in {"open", "write"}
Alone(p) == \A q \in Procs : Working(q) => q = p
Doomed == \E p \in Procs : Working(p) /\ proc[p].base # version
Undone == causes \subseteq {"copies"} /\ ~ Doomed

(* What a request that is past its body promises.                          *)
Promised(r) ==
    /\ \A s \in Plain : r.local_json[s] = J!Accepted(r)[s]
    /\ \A u \in J!Credentials : cred[u] = J!Accepted(r)[u]

(* A request whose document is to be changed is one that Load lets in.     *)
Loaded(r) ==
    /\ r.op = "set" /\ r.opt \in J!Options(conf)
    /\ ~ r.on => conf = "filter"
    /\ r.body \in {"good", "refused", "absent"}

Process(r) ==
    /\ DOMAIN r = Fields
    /\ r.base \in Nat /\ r.base <= version
    /\ r.pc \in {"idle", "parse", "open", "write", "copy"}
    /\ r.pc \in {"parse", "open", "write"} => DOMAIN r.local_json = J!Sections(conf)
    /\ r.pc = "parse" => Loaded(r)

Documents ==
    /\ conf \in J!Confs /\ version \in Nat
    /\ DOMAIN asked = J!Sections(conf) \cup J!Credentials
    /\ cred = [u \in J!Credentials |-> cred[u]]
    /\ file = J!Truncated \/ DOMAIN file = J!Sections(conf)
    /\ proc = [p \in Procs |-> proc[p]]
    /\ \A p \in Procs : Process(proc[p])

FileStays == file # J!Truncated => Right(file)
ReadStays == \A p \in Procs : proc[p].pc = "parse" /\ proc[p].base = version
                                => Right(proc[p].local_json)
WriteStays == \A p \in Procs : Working(p) /\ Alone(p) => Promised(proc[p])
CredStays == (\A p \in Procs : ~ Working(p)) => CredsRight
Stays == Undone => FileStays /\ ReadStays /\ WriteStays /\ CredStays

JInv == Documents /\ J!UnreadableExplained /\ Stays

(* A document is never empty.                                              *)
LEMMA NotTruncated ==
    ASSUME NEW d, conf \in J!Confs, DOMAIN d = J!Sections(conf)
    PROVE  d # J!Truncated
<1>1. DOMAIN J!Truncated = {}
  BY Zenon DEF J!Truncated
<1>2. J!Sections(conf) # {}
  BY Zenon DEF J!Sections, J!Confs
<1> QED
  BY <1>1, <1>2, Zenon

(* A SET changes the sections it names, and no other besides the EUI.      *)
LEMMA NewDocument ==
    ASSUME NEW r, conf \in J!Confs, Loaded(r), DOMAIN r.local_json = J!Sections(conf)
    PROVE  /\ DOMAIN J!NewJson(r) = J!Sections(conf)
           /\ \A s \in Plain :
                J!NewJson(r)[s] = IF s \in J!Names(r) THEN r.id ELSE r.local_json[s]
<1>1. CASE conf = "bs"
  <2> DEFINE j1 == J!parse_remote_radio_common_config(r, r.local_json)
             j2 == J!parse_remote_radio_0_config(r, j1)
             j3 == J!parse_remote_radio_1_config(r, j2)
             j4 == J!parse_remote_station_config(r, j3)
  <2>0. J!Sections(conf) = {"radio_common", "radio_0", "radio_1", "station_conf"}
    BY <1>1, Zenon DEF J!Sections
  <2>1. CASE r.opt = "all"
    <3>1. DOMAIN j4 = J!Sections(conf) /\ \A s \in J!Sections(conf) : j4[s] = r.id
      BY <2>0, Zenon DEF J!parse_remote_radio_common_config, J!parse_remote_radio_0_config,
                  J!parse_remote_radio_1_config, J!parse_remote_station_config
    <3>2. J!NewJson(r) = j4
      BY <1>1, <2>1, Zenon DEF J!NewJson, J!Station, J!set_local_for_each
    <3>3. J!Names(r) = J!Sections(conf)
      BY <1>1, <2>1, Zenon DEF J!Names, J!Credentials
    <3> QED
      BY <3>1, <3>2, <3>3, Zenon DEF Plain
  <2>2. CASE r.opt # "all"
    <3>1. J!NewJson(r) = J!set_local_for_one(r, r.local_json)
      BY <1>1, <2>2, Zenon DEF J!NewJson, J!Station
    <3>2. CASE r.opt \in J!Credentials
      <4>1. J!NewJson(r) = r.local_json
        BY <3>1, <3>2, Zenon DEF J!set_local_for_one, J!Credentials
      <4>2. \A s \in Plain : s \notin J!Names(r)
        BY <2>0, <3>2, Zenon DEF J!Names, J!Credentials, Plain
      <4> QED
        BY <4>1, <4>2, Zenon
    <3>3. CASE r.opt \notin J!Credentials
      <4>1. J!Names(r) = {r.opt}
        BY <1>1, <2>2, <3>3, Zenon DEF J!Names
      <4>2. r.opt \in J!Sections(conf)
        BY <1>1, <2>2, <3>3, Zenon DEF Loaded, J!Options
      <4>3. J!NewJson(r) = [r.local_json EXCEPT ![r.opt] = r.id]
        BY <2>0, <3>1, <4>2, Zenon DEF J!set_local_for_one,
             J!parse_remote_radio_common_config, J!parse_remote_radio_0_config,
             J!parse_remote_radio_1_config, J!parse_remote_station_config
      <4> QED
        BY <4>1, <4>2, <4>3, Zenon DEF Plain
    <3> QED
      BY <3>2, <3>3, Zenon
  <2> QED
    BY <2>1, <2>2, Zenon
<1>2. CASE conf # "bs"
  <2>1. r.opt = "all" /\ "all" \notin J!Credentials
    BY <1>2, Zenon DEF Loaded, J!Options, J!Credentials
  <2>2. CASE conf = "filter"
    <3>1. J!Sections(conf) = {"filter_enable", "white_list"}
      BY <2>2, Zenon DEF J!Sections
    <3>2. J!NewJson(r) = J!Filter(r)
      BY <2>2, Zenon DEF J!NewJson
    <3>3. J!Names(r) = IF r.on THEN J!Sections(conf) ELSE {"filter_enable"}
      BY <2>1, <2>2, Zenon DEF J!Names
    <3> QED
      BY <3>1, <3>2, <3>3 DEF J!Filter, Plain
  <2>3. CASE conf = "topic"
    <3>1. J!Sections(conf) = {"gateway_eui", "topics"}
      BY <2>3, Zenon DEF J!Sections
    <3>2. J!NewJson(r) = J!Topics(r)
      BY <2>3, Zenon DEF J!NewJson
    <3>3. J!Names(r) = {"topics"}
      BY <2>1, <2>3, Zenon DEF J!Names
    <3> QED
      BY <3>1, <3>2, <3>3, Zenon DEF J!Topics, Plain
  <2>4. CASE conf = "region"
    <3>1. J!Sections(conf) = {"lorawan_region"}
      BY <2>4, Zenon DEF J!Sections
    <3>2. J!NewJson(r) = J!Region(r)
      BY <2>4, Zenon DEF J!NewJson
    <3>3. J!Names(r) = J!Sections(conf)
      BY <2>1, <2>4, Zenon DEF J!Names
    <3> QED
      BY <3>1, <3>2, <3>3, Zenon DEF J!Region, Plain
  <2>5. CASE conf = "notif"
    <3>1. J!Sections(conf) = {"push_enable"}
      BY <2>5, Zenon DEF J!Sections
    <3>2. J!NewJson(r) = J!Notification(r)
      BY <2>5, Zenon DEF J!NewJson
    <3>3. J!Names(r) = J!Sections(conf)
      BY <2>1, <2>5, Zenon DEF J!Names
    <3> QED
      BY <3>1, <3>2, <3>3, Zenon DEF J!Notification, Plain
  <2> QED
    BY <1>2, <2>2, <2>3, <2>4, <2>5, Zenon DEF J!Confs
<1> QED
  BY <1>1, <1>2, Zenon

LEMMA CredentialNamed ==
    ASSUME NEW r, conf \in J!Confs, Loaded(r)
    PROVE  \A u \in J!Credentials : u \in J!Names(r) <=> u = r.opt /\ r.body = "good"
<1>1. CASE r.opt \in J!Credentials
  <2>1. J!Names(r) = IF r.body = "good" THEN {r.opt} ELSE {}
    BY <1>1, Zenon DEF J!Names, J!Credentials
  <2> QED
    BY <2>1, Zenon
<1>2. CASE r.opt \notin J!Credentials
  <2>1. J!Names(r) \subseteq J!Sections(conf)
    BY <1>2, Zenon DEF J!Names, Loaded, J!Options, J!Sections, J!Confs
  <2>2. J!Sections(conf) \cap J!Credentials = {}
    BY Zenon DEF J!Sections, J!Confs, J!Credentials
  <2> QED
    BY <1>2, <2>1, <2>2, Zenon
<1> QED
  BY <1>1, <1>2, Zenon

----------------------------------------------------------------------------
LEMMA IdleProcess ==
    ASSUME version \in Nat
    PROVE  Process(J!Idle) /\ DOMAIN J!Idle = Fields /\ J!Idle.pc = "idle" /\ J!Idle.base = 0
<1>1. DOMAIN J!Idle = Fields /\ J!Idle.pc = "idle" /\ J!Idle.base = 0
  BY Zenon DEF J!Idle, Fields
<1>2. 0 <= version
  OBVIOUS
<1> QED
  BY <1>1, <1>2 DEF Process

LEMMA JsonBegins == J!Init => JInv
<1> SUFFICES ASSUME J!Init PROVE JInv
  BY Zenon
<1>1. conf \in J!Confs /\ version = 0 /\ causes = {}
  BY Zenon DEF J!Init
<1>2. \A p \in Procs : proc[p] = J!Idle
  BY Zenon DEF J!Init
<1>3. Process(J!Idle) /\ J!Idle.pc = "idle"
  BY <1>1, IdleProcess, Zenon
<1>4. DOMAIN file = J!Sections(conf) /\ \A s \in Plain : file[s] = 0
  <2>1. CASE file = J!Installed(conf)
    BY <2>1, Zenon DEF J!Installed, Plain
  <2>2. CASE conf = "topic" /\ file = J!Foreign
    BY <2>2 DEF J!Foreign, Plain, J!Sections
  <2> QED
    BY <2>1, <2>2, Zenon DEF J!Init
<1>5. /\ DOMAIN asked = J!Sections(conf) \cup J!Credentials
      /\ \A s \in DOMAIN asked : asked[s] = 0
  BY Zenon DEF J!Init
<1>6. cred = [u \in J!Credentials |-> 0]
  BY Zenon DEF J!Init
<1>7. proc = [p \in Procs |-> J!Idle]
  BY Zenon DEF J!Init
<1>8. Documents
  <2>1. \A p \in Procs : Process(proc[p])
    BY <1>2, <1>3, Zenon
  <2>2. cred = [u \in J!Credentials |-> cred[u]] /\ proc = [p \in Procs |-> proc[p]]
    BY <1>6, <1>7, Zenon
  <2> QED
    BY <1>1, <1>4, <1>5, <2>1, <2>2, Zenon DEF Documents
<1>9. J!UnreadableExplained
  BY <1>1, <1>4, NotTruncated, Zenon DEF J!UnreadableExplained
<1>10. Stays
  <2>1. FileStays
    BY <1>4, <1>5, Zenon DEF FileStays, Right, Plain
  <2>2. ReadStays
    BY <1>2, <1>3, Zenon DEF ReadStays
  <2>3. WriteStays
    BY <1>2, <1>3, Zenon DEF WriteStays, Working
  <2>4. CredStays
    BY <1>5, <1>6, Zenon DEF CredStays, CredsRight
  <2> QED
    BY <2>1, <2>2, <2>3, <2>4, Zenon DEF Stays
<1> QED
  BY <1>8, <1>9, <1>10, Zenon DEF JInv

(* A process that begins, with the record r.                               *)
LEMMA BeginDocuments ==
    ASSUME NEW p \in Procs, NEW r, Documents, J!Begin(p, r), DOMAIN r = Fields,
           r.pc \in {"idle", "parse", "open"},
           r.pc # "idle" => DOMAIN r.local_json = J!Sections(conf),
           r.pc = "parse" => Loaded(r)
    PROVE  /\ Documents'
           /\ proc'[p].pc = r.pc
           /\ r.pc # "idle" => /\ proc'[p].base = version
                               /\ proc'[p].local_json = r.local_json
           /\ \A q \in Procs \ {p} : proc'[q] = proc[q]
<1> DEFINE n == IF r.pc = "idle" THEN J!Idle ELSE [r EXCEPT !.id = requests + 1, !.base = version]
<1>1. proc' = [proc EXCEPT ![p] = n] /\ conf' = conf /\ version' = version /\ asked' = asked
      /\ cred' = cred /\ file' = file
  BY Zenon DEF J!Begin
<1>2. proc'[p] = n /\ (\A q \in Procs \ {p} : proc'[q] = proc[q])
      /\ proc' = [q \in Procs |-> proc'[q]]
  BY <1>1, Zenon DEF Documents
<1>3. DOMAIN n = Fields /\ n.pc = r.pc
  BY Zenon DEF J!Idle, Fields
<1>4. n.base \in Nat /\ n.base <= version
  BY DEF J!Idle, Documents, Fields
<1>5. r.pc # "idle" => /\ n.base = version /\ n.local_json = r.local_json
                       /\ n.op = r.op /\ n.opt = r.opt /\ n.on = r.on /\ n.body = r.body
  BY Zenon DEF Fields
<1> HIDE DEF n
<1>6. Process(proc[p])'
  BY <1>1, <1>2, <1>3, <1>4, <1>5, Zenon DEF Process, Loaded
<1>7. \A q \in Procs \ {p} : Process(proc[q])'
  BY <1>1, <1>2, Zenon DEF Documents, Process, Loaded
<1>8. Documents'
  BY <1>1, <1>2, <1>6, <1>7, Zenon DEF Documents
<1> QED
  BY <1>2, <1>3, <1>5, <1>8, Zenon

LEMMA BeginStays ==
    ASSUME NEW p \in Procs, NEW r, JInv, J!Begin(p, r), DOMAIN r = Fields,
           r.pc \in {"idle", "parse", "open"},
           r.pc # "idle" => DOMAIN r.local_json = J!Sections(conf),
           r.pc = "parse" => Loaded(r) /\ r.local_json = file /\ file # J!Truncated,
           r.pc = "open" => file = J!Truncated \/ "foreign" \in causes',
           causes \subseteq causes'
    PROVE  JInv'
<1> USE DEF JInv
<1>1. /\ Documents' /\ proc'[p].pc = r.pc
      /\ r.pc # "idle" => proc'[p].base = version /\ proc'[p].local_json = r.local_json
      /\ \A q \in Procs \ {p} : proc'[q] = proc[q]
  BY BeginDocuments, Zenon
<1>2. /\ conf' = conf /\ version' = version /\ asked' = asked /\ cred' = cred /\ file' = file
      /\ proc[p].pc = "idle"
  BY Zenon DEF J!Begin
<1>3. J!UnreadableExplained'
  BY <1>1, <1>2, Zenon DEF J!UnreadableExplained
<1>4. ASSUME Undone' PROVE Undone
  <2>1. ASSUME Doomed PROVE FALSE
    BY <1>1, <1>2, <1>4, <2>1, Zenon DEF Doomed, Undone, Working
  <2> QED
    BY <1>4, <2>1, Zenon DEF Undone
<1>5. ASSUME Undone' PROVE FileStays' /\ ReadStays' /\ WriteStays' /\ CredStays'
  <2>1. FileStays /\ ReadStays /\ WriteStays /\ CredStays
    BY <1>4, <1>5, Zenon DEF Stays
  <2>2. FileStays'
    BY <1>2, <2>1, Zenon DEF FileStays, Right, Plain
  <2>3. ASSUME NEW q \in Procs, proc'[q].pc = "parse", proc'[q].base = version'
        PROVE  Right(proc[q].local_json)'
    <3>1. CASE q = p
      BY <1>1, <1>2, <2>1, <2>3, <3>1 DEF FileStays, Right, Plain
    <3>2. CASE q # p
      BY SMTT(30), <1>1, <1>2, <2>1, <2>3, <3>2 DEF ReadStays, Right, Plain
    <3> QED
      BY <3>1, <3>2, Zenon
  <2>4. ReadStays'
    BY <2>3, Zenon DEF ReadStays
  <2>5. CASE r.pc = "open"
    <3>1. file = J!Truncated /\ "torn" \notin causes
      BY <1>4, <1>5, <2>5, Zenon DEF Undone
    <3>2. PICK w \in Procs : proc[w].pc = "write"
      BY <3>1, Zenon DEF J!UnreadableExplained
    <3>3. w # p /\ Working(w)' /\ Working(p)'
      BY <1>1, <1>2, <2>5, <3>2, Zenon DEF Working
    <3> QED
      BY <2>2, <2>4, <3>3, Zenon DEF WriteStays, CredStays, Alone
  <2>6. CASE r.pc # "open"
    <3>1. \A q \in Procs : Working(q)' <=> Working(q)
      BY <1>1, <1>2, <2>6, Zenon DEF Working
    <3>2. CredStays'
      BY <1>2, <2>1, <3>1, Zenon DEF CredStays, CredsRight
    <3>3. ASSUME NEW q \in Procs, Working(q)', Alone(q)' PROVE Promised(proc[q])'
      <4>1. Working(q) /\ Alone(q) /\ q # p
        BY <1>2, <3>1, <3>3, Zenon DEF Alone, Working
      <4>2. Promised(proc[q]) /\ proc'[q] = proc[q]
        BY <1>1, <2>1, <4>1, Zenon DEF WriteStays
      <4> QED
        BY SMTT(30), <1>2, <4>2 DEF Promised, Plain, J!Accepted, J!Names
    <3> QED
      BY <2>2, <2>4, <3>2, <3>3, Zenon DEF WriteStays
  <2> QED
    BY <2>5, <2>6, Zenon
<1> QED
  BY <1>1, <1>3, <1>5, Zenon DEF Stays

(* The requests that begin.                                                *)
LEMMA GetKept == ASSUME NEW p \in Procs, JInv, J!Get(p) PROVE JInv'
<1>1. J!Begin(p, J!Idle) /\ causes' = causes
  BY Zenon DEF J!Get
<1>2. DOMAIN J!Idle = Fields /\ J!Idle.pc = "idle"
  BY IdleProcess, Zenon DEF JInv, Documents
<1> QED
  BY <1>1, <1>2, BeginStays, Zenon

LEMMA TopicsKept ==
    ASSUME NEW p \in Procs, NEW op, JInv, J!NeedsTopics(p, op)
    PROVE  JInv'
<1> DEFINE r == [J!Idle EXCEPT !.op = op, !.pc = IF J!Regenerates THEN "open" ELSE "idle",
                               !.local_json = J!DefaultTopics]
<1>1. J!Begin(p, r) /\ causes \subseteq causes'
  BY Zenon DEF J!NeedsTopics
<1>2. /\ DOMAIN r = Fields /\ r.pc = (IF J!Regenerates THEN "open" ELSE "idle")
      /\ r.local_json = J!DefaultTopics
  BY Zenon DEF J!Idle, Fields
<1>3. DOMAIN J!DefaultTopics = J!Sections(conf)
  BY Zenon DEF J!DefaultTopics, J!Sections, J!NeedsTopics
<1>4. r.pc = "open" => file = J!Truncated \/ "foreign" \in causes'
  BY <1>2 DEF J!NeedsTopics
<1> HIDE DEF r
<1>5. r.pc \in {"idle", "open"}
  BY <1>2, Zenon
<1> QED
  BY <1>1, <1>2, <1>3, <1>4, <1>5, BeginStays, Zenon

LEMMA LoadKept == ASSUME NEW p \in Procs, JInv, J!Load(p) PROVE JInv'
<1>1. PICK opt \in J!Options(conf), body \in {"good", "refused", "absent"}, on \in BOOLEAN :
        /\ ~ on => conf = "filter"
        /\ J!Begin(p, [J!Idle EXCEPT !.op = "set", !.opt = opt, !.body = body, !.on = on,
                         !.pc = IF file = J!Truncated THEN "idle" ELSE "parse",
                         !.local_json = file])
  BY Zenon DEF J!Load
<1> DEFINE r == [J!Idle EXCEPT !.op = "set", !.opt = opt, !.body = body, !.on = on,
                   !.pc = IF file = J!Truncated THEN "idle" ELSE "parse",
                   !.local_json = file]
<1>2. J!Begin(p, r) /\ causes' = causes
  BY <1>1, Zenon DEF J!Load
<1>3. /\ DOMAIN r = Fields /\ r.pc = (IF file = J!Truncated THEN "idle" ELSE "parse")
      /\ r.local_json = file /\ r.op = "set" /\ r.opt = opt /\ r.body = body /\ r.on = on
  BY Zenon DEF J!Idle, Fields
<1> HIDE DEF r
<1>4. Loaded(r)
  BY <1>1, <1>3, Zenon DEF Loaded
<1>5. file # J!Truncated => DOMAIN file = J!Sections(conf)
  BY Zenon DEF JInv, Documents
<1>6. r.pc \in {"idle", "parse"}
  BY <1>3, Zenon
<1> QED
  BY <1>2, <1>3, <1>4, <1>5, <1>6, BeginStays, Zenon

(* A process that goes on, with the record n.                              *)
LEMMA StepDocuments ==
    ASSUME NEW p \in Procs, NEW n, Documents, proc' = [proc EXCEPT ![p] = n],
           conf' = conf, version' \in Nat, version <= version',
           DOMAIN asked' = DOMAIN asked, cred' = [u \in J!Credentials |-> cred'[u]],
           file' = J!Truncated \/ DOMAIN file' = J!Sections(conf),
           DOMAIN n = Fields, n.base \in Nat, n.base <= version,
           n.pc \in {"idle", "open", "write", "copy"},
           n.pc \in {"open", "write"} => DOMAIN n.local_json = J!Sections(conf)
    PROVE  /\ Documents' /\ proc'[p] = n
           /\ \A q \in Procs \ {p} : proc'[q] = proc[q]
<1>1. proc'[p] = n /\ (\A q \in Procs \ {p} : proc'[q] = proc[q])
      /\ proc' = [q \in Procs |-> proc'[q]]
  BY Zenon DEF Documents
<1>2. n.base <= version'
  BY DEF Documents
<1>3. Process(proc[p])'
  BY <1>1, <1>2, Zenon DEF Process
<1>4. ASSUME NEW q \in Procs \ {p} PROVE Process(proc[q])'
  <2>1. Process(proc[q]) /\ proc'[q] = proc[q]
    BY <1>1, Zenon DEF Documents
  <2>2. proc[q].base \in Nat /\ proc[q].base <= version'
    BY <2>1 DEF Process, Documents
  <2> QED
    BY <2>1, <2>2, Zenon DEF Process, Loaded
<1>5. Documents'
  BY <1>1, <1>3, <1>4, Zenon DEF Documents
<1> QED
  BY <1>1, <1>5, Zenon

(* A process that is over leaves the others their promises.                *)
LEMMA ParseKept == ASSUME NEW p \in Procs, JInv, J!Parse(p) PROVE JInv'
<1> DEFINE r == proc[p]
           o == [r EXCEPT !.pc = "open", !.local_json = J!NewJson(r)]
           n == IF r.body = "refused" THEN J!Idle ELSE o
<1>1. /\ r.pc = "parse" /\ proc' = [proc EXCEPT ![p] = n]
      /\ cred' = J!parse_remote_credential(r)
      /\ conf' = conf /\ file' = file /\ asked' = asked /\ version' = version
      /\ causes' = causes
  BY Zenon DEF J!Parse
<1>2. Documents /\ Process(r) /\ version \in Nat /\ J!UnreadableExplained /\ Stays
  BY Zenon DEF JInv, Documents
<1>3. Loaded(r) /\ DOMAIN r.local_json = J!Sections(conf)
  BY <1>1, <1>2, Zenon DEF Process
<1>4. /\ DOMAIN J!NewJson(r) = J!Sections(conf)
      /\ \A s \in Plain :
           J!NewJson(r)[s] = IF s \in J!Names(r) THEN r.id ELSE r.local_json[s]
  BY <1>2, <1>3, NewDocument, Zenon DEF Documents
<1>5. /\ DOMAIN o = Fields /\ o.pc = "open" /\ o.local_json = J!NewJson(r)
      /\ o.base = r.base /\ o.op = r.op /\ o.opt = r.opt /\ o.body = r.body /\ o.on = r.on
      /\ o.id = r.id
  BY <1>2, Zenon DEF Process, Fields
<1>6. DOMAIN J!Idle = Fields /\ J!Idle.pc = "idle" /\ J!Idle.base = 0
  BY <1>2, IdleProcess, Zenon
<1>7. cred' = [u \in J!Credentials |-> cred'[u]]
      /\ \A u \in J!Credentials :
           cred'[u] = IF u = r.opt /\ r.body = "good" THEN r.id ELSE cred[u]
  BY <1>1, <1>2, Zenon DEF J!parse_remote_credential, Documents
<1> HIDE DEF o
<1>8. /\ DOMAIN n = Fields /\ n.base \in Nat /\ n.base <= version /\ n.pc \in {"idle", "open"}
      /\ n.pc = "open" => DOMAIN n.local_json = J!Sections(conf)
  <2>1. CASE r.body = "refused"
    BY SMTT(30), <1>2, <1>6, <2>1
  <2>2. CASE r.body # "refused"
    BY <1>2, <1>4, <1>5, <2>2, Zenon DEF Process
  <2> QED
    BY <2>1, <2>2, Zenon
<1> HIDE DEF n
<1>9. Documents' /\ proc'[p] = n /\ \A q \in Procs \ {p} : proc'[q] = proc[q]
  BY SMTT(30), <1>1, <1>2, <1>7, <1>8, StepDocuments DEF Documents
<1>10. J!UnreadableExplained'
  BY <1>1, <1>2, <1>9, Zenon DEF J!UnreadableExplained
<1>11. ASSUME Undone' PROVE Undone
  <2>1. ASSUME Doomed PROVE FALSE
    BY <1>1, <1>9, <1>11, <2>1, Zenon DEF Doomed, Undone, Working
  <2> QED
    BY <1>1, <1>11, <2>1, Zenon DEF Undone
<1>12. ASSUME Undone' PROVE FileStays' /\ ReadStays' /\ WriteStays' /\ CredStays'
  <2>1. FileStays /\ ReadStays /\ WriteStays /\ CredStays
    BY <1>2, <1>11, <1>12, Zenon DEF Stays
  <2>2. FileStays'
    BY <1>1, <2>1, Zenon DEF FileStays, Right, Plain
  <2>3. ReadStays'
    <3> SUFFICES ASSUME NEW q \in Procs, proc'[q].pc = "parse", proc'[q].base = version'
                 PROVE  Right(proc[q].local_json)'
      BY Zenon DEF ReadStays
    <3>1. q # p
      BY <1>8, <1>9, Zenon
    <3> QED
      BY <1>1, <1>9, <2>1, <3>1 DEF ReadStays, Right, Plain
  <2>4. CASE r.body = "refused"
    <3>1. n.pc = "idle"
      BY <1>6, <2>4, Zenon DEF n
    <3>2. \A q \in Procs : Working(q)' <=> Working(q)
      BY <1>1, <1>9, <3>1, Zenon DEF Working
    <3>3. \A u \in J!Credentials : cred'[u] = cred[u]
      BY <1>7, <2>4, Zenon
    <3>4. CredStays'
      BY <1>1, <2>1, <3>2, <3>3, Zenon DEF CredStays, CredsRight
    <3>5. ASSUME NEW q \in Procs, Working(q)', Alone(q)' PROVE Promised(proc[q])'
      <4>1. Working(q) /\ Alone(q) /\ q # p
        BY <1>1, <3>2, <3>5, Zenon DEF Alone, Working
      <4>2. Promised(proc[q]) /\ proc'[q] = proc[q]
        BY <1>9, <2>1, <4>1, Zenon DEF WriteStays
      <4> QED
        BY SMTT(30), <1>1, <3>3, <4>2 DEF Promised, Plain, J!Accepted, J!Names
    <3> QED
      BY <2>2, <2>3, <3>4, <3>5, Zenon DEF WriteStays
  <2>5. CASE r.body # "refused"
    <3>1. n = o
      BY <2>5, Zenon DEF n
    <3>2. Working(p)'
      BY <1>5, <1>9, <3>1, Zenon DEF Working
    <3>3. r.base = version
      BY <1>1, <1>5, <1>9, <1>12, <3>1, <3>2, Zenon DEF Undone, Doomed
    <3>4. Right(r.local_json)
      BY <1>1, <2>1, <3>3, Zenon DEF ReadStays
    <3>5. ASSUME NEW q \in Procs, Working(q)', Alone(q)' PROVE Promised(proc[q])'
      <4>1. q = p
        BY <3>2, <3>5, Zenon DEF Alone
      <4>2. \A w \in Procs : ~ Working(w)
        BY <1>1, <1>9, <3>5, <4>1, Zenon DEF Alone, Working
      <4>3. CredsRight
        BY <2>1, <4>2, Zenon DEF CredStays
      <4>4. J!Names(proc[p])' = J!Names(r)
        BY SMTT(30), <1>1, <1>5, <1>9, <3>1 DEF J!Names
      <4>5. \A s \in DOMAIN asked :
              J!Accepted(proc[p])'[s] = IF s \in J!Names(r) THEN r.id ELSE asked[s]
        BY <1>1, <1>3, <1>5, <1>9, <3>1, <4>4, Zenon DEF J!Accepted, Loaded
      <4>6. \A u \in J!Credentials : u \in J!Names(r) <=> u = r.opt /\ r.body = "good"
        BY <1>2, <1>3, CredentialNamed, Zenon DEF Documents
      <4>7. \A u \in J!Credentials : cred'[u] = J!Accepted(proc[p])'[u]
        BY <1>2, <1>7, <4>3, <4>5, <4>6, Zenon DEF CredsRight, Documents
      <4>8. \A s \in Plain' : proc'[p].local_json[s] = J!Accepted(proc[p])'[s]
        BY SMTT(30), <1>1, <1>2, <1>4, <1>5, <1>9, <3>1, <3>4, <4>5 DEF Right, Plain, Documents
      <4> QED
        BY <4>1, <4>7, <4>8, Zenon DEF Promised
    <3> QED
      BY <2>2, <2>3, <3>2, <3>5, Zenon DEF WriteStays, CredStays
  <2> QED
    BY <2>4, <2>5, Zenon
<1> QED
  BY <1>9, <1>10, <1>12, Zenon DEF JInv, Stays

LEMMA OpenKept == ASSUME NEW p \in Procs, JInv, J!Open(p) PROVE JInv'
<1> DEFINE r == proc[p]
           n == [r EXCEPT !.pc = "write"]
<1>1. /\ r.pc = "open" /\ proc' = [proc EXCEPT ![p] = n] /\ file' = J!Truncated
      /\ conf' = conf /\ cred' = cred /\ asked' = asked /\ version' = version
      /\ causes' = causes
  BY Zenon DEF J!Open, JInv, Documents
<1>2. Documents /\ Process(r) /\ version \in Nat /\ Stays
  BY Zenon DEF JInv, Documents
<1>3. /\ DOMAIN n = Fields /\ n.pc = "write" /\ n.local_json = r.local_json
      /\ n.base = r.base /\ n.op = r.op /\ n.opt = r.opt /\ n.body = r.body /\ n.on = r.on
      /\ n.id = r.id
  BY <1>2, Zenon DEF Process, Fields
<1> HIDE DEF n
<1>4. DOMAIN n.local_json = J!Sections(conf) /\ n.base \in Nat /\ n.base <= version
  BY <1>1, <1>2, <1>3, Zenon DEF Process
<1>5. Documents' /\ proc'[p] = n /\ \A q \in Procs \ {p} : proc'[q] = proc[q]
  <2>1. cred' = [u \in J!Credentials |-> cred'[u]]
    BY <1>1, <1>2, Zenon DEF Documents
  <2>2. version' \in Nat /\ version <= version'
    BY SMTT(30), <1>1, <1>2
  <2> QED
    BY <1>1, <1>2, <1>3, <1>4, <2>1, <2>2, StepDocuments, Zenon
<1>6. J!UnreadableExplained'
  BY <1>3, <1>5, Zenon DEF J!UnreadableExplained
<1>7. \A q \in Procs : /\ Working(q)' <=> Working(q)
                       /\ proc'[q].base = proc[q].base
  BY <1>1, <1>3, <1>5, Zenon DEF Working
<1>8. Undone' <=> Undone
  BY <1>1, <1>7, Zenon DEF Undone, Doomed
<1>9. ASSUME Undone PROVE FileStays' /\ ReadStays' /\ WriteStays' /\ CredStays'
  <2>1. FileStays /\ ReadStays /\ WriteStays /\ CredStays
    BY <1>2, <1>9, Zenon DEF Stays
  <2>2. FileStays'
    BY <1>1, Zenon DEF FileStays, J!Truncated
  <2>3. ReadStays'
    <3> SUFFICES ASSUME NEW q \in Procs, proc'[q].pc = "parse", proc'[q].base = version'
                 PROVE  Right(proc[q].local_json)'
      BY Zenon DEF ReadStays
    <3>1. q # p
      BY <1>3, <1>5, Zenon
    <3> QED
      BY SMTT(30), <1>1, <1>5, <2>1, <3>1 DEF ReadStays, Right, Plain
  <2>4. CredStays'
    BY <1>1, <1>7, <2>1, Zenon DEF CredStays, CredsRight
  <2>5. ASSUME NEW q \in Procs, Working(q)', Alone(q)' PROVE Promised(proc[q])'
    <3>1. Promised(proc[q])
      BY <1>7, <2>1, <2>5, Zenon DEF Alone, WriteStays
    <3>2. /\ proc'[q].local_json = proc[q].local_json /\ proc'[q].id = proc[q].id
          /\ proc'[q].op = proc[q].op /\ proc'[q].opt = proc[q].opt
          /\ proc'[q].body = proc[q].body /\ proc'[q].on = proc[q].on
      BY <1>3, <1>5, Zenon
    <3>3. J!Names(proc[q])' = J!Names(proc[q])
      BY <1>1, <3>2, Zenon DEF J!Names
    <3>4. J!Accepted(proc[q])' = J!Accepted(proc[q])
      BY <1>1, <3>2, <3>3, Zenon DEF J!Accepted
    <3> QED
      BY <1>1, <3>1, <3>2, <3>4, Zenon DEF Promised, Plain
  <2> QED
    BY <2>2, <2>3, <2>4, <2>5, Zenon DEF WriteStays
<1> QED
  BY <1>5, <1>6, <1>8, <1>9, Zenon DEF JInv, Stays

LEMMA WriteKept == ASSUME NEW p \in Procs, JInv, J!Write(p) PROVE JInv'
<1> DEFINE r == proc[p]
           c == [r EXCEPT !.pc = "copy"]
           n == IF conf = "region" THEN c ELSE J!Idle
<1>1. /\ r.pc = "write" /\ proc' = [proc EXCEPT ![p] = n] /\ file' = r.local_json
      /\ version' = version + 1 /\ asked' = J!Accepted(r)
      /\ causes' = IF r.base # version THEN causes \cup {"stale"} ELSE causes
      /\ conf' = conf /\ cred' = cred
  BY Zenon DEF J!Write
<1>2. Documents /\ Process(r) /\ version \in Nat /\ Stays
  BY Zenon DEF JInv, Documents
<1>3. DOMAIN c = Fields /\ c.pc = "copy" /\ c.base = r.base
  BY <1>2, Zenon DEF Process, Fields
<1>4. DOMAIN J!Idle = Fields /\ J!Idle.pc = "idle" /\ J!Idle.base = 0
  BY <1>2, IdleProcess, Zenon
<1> HIDE DEF c
<1>5. DOMAIN n = Fields /\ n.pc \in {"idle", "copy"} /\ n.base \in Nat /\ n.base <= version
  BY SMTT(30), <1>2, <1>3, <1>4 DEF Process
<1> HIDE DEF n
<1>6. DOMAIN r.local_json = J!Sections(conf)
  BY <1>1, <1>2, Zenon DEF Process
<1>7. DOMAIN asked' = DOMAIN asked
  BY <1>1, Zenon DEF J!Accepted
<1>8. version' \in Nat /\ version <= version'
  BY <1>1, <1>2
<1>9. cred' = [u \in J!Credentials |-> cred'[u]]
  BY <1>1, <1>2, Zenon DEF Documents
<1>10. Documents' /\ proc'[p] = n /\ \A q \in Procs \ {p} : proc'[q] = proc[q]
  BY <1>1, <1>2, <1>5, <1>6, <1>7, <1>8, <1>9, StepDocuments, Zenon
<1>11. J!UnreadableExplained'
  <2>1. file' # J!Truncated
    BY <1>1, <1>2, <1>6, NotTruncated, Zenon DEF Documents
  <2> QED
    BY <2>1, Zenon DEF J!UnreadableExplained, J!Truncated
<1>12. \A q \in Procs : proc[q].base \in Nat /\ proc[q].base < version'
  BY SMTT(30), <1>1, <1>2 DEF Documents, Process
<1>13. ASSUME Undone' PROVE FileStays' /\ ReadStays' /\ WriteStays' /\ CredStays'
  <2>1. r.base = version /\ causes' = causes
    BY <1>1, <1>13, Zenon DEF Undone
  <2>2. ASSUME NEW q \in Procs, q # p, Working(q) PROVE FALSE
    <3>1. Working(q)' /\ proc'[q].base # version'
      BY SMTT(30), <1>8, <1>10, <1>12, <2>2 DEF Working
    <3> QED
      BY <1>13, <3>1, Zenon DEF Undone, Doomed
  <2>3. Working(p) /\ Alone(p)
    BY <1>1, <2>2, Zenon DEF Working, Alone
  <2>4. Undone
    BY <1>13, <2>1, <2>2, Zenon DEF Undone, Doomed
  <2>5. Promised(r)
    BY <1>2, <2>3, <2>4, Zenon DEF Stays, WriteStays
  <2>6. FileStays'
    BY <1>1, <2>5, Zenon DEF Promised, FileStays, Right, Plain
  <2>7. ReadStays'
    BY <1>5, <1>8, <1>10, <1>12 DEF ReadStays
  <2>8. \A q \in Procs : ~ Working(q)'
    BY <1>5, <1>10, <2>2, Zenon DEF Working
  <2>9. CredStays'
    BY <1>1, <2>5, Zenon DEF CredStays, CredsRight, Promised
  <2> QED
    BY <2>6, <2>7, <2>8, <2>9, Zenon DEF WriteStays
<1> QED
  BY <1>10, <1>11, <1>13, Zenon DEF JInv, Stays

LEMMA ChooseKept == ASSUME NEW p \in Procs, JInv, J!Choose(p) PROVE JInv'
<1>1. /\ proc[p].pc = "copy" /\ proc' = [proc EXCEPT ![p] = J!Idle]
      /\ causes \subseteq causes' /\ causes' \subseteq causes \cup {"copies"}
      /\ conf' = conf /\ file' = file /\ cred' = cred /\ asked' = asked /\ version' = version
  BY Zenon DEF J!Choose
<1>2. Documents /\ version \in Nat /\ Stays /\ J!UnreadableExplained
  BY Zenon DEF JInv, Documents
<1>3. DOMAIN J!Idle = Fields /\ J!Idle.pc = "idle" /\ J!Idle.base = 0
  BY <1>2, IdleProcess, Zenon
<1>4. Documents' /\ proc'[p] = J!Idle /\ \A q \in Procs \ {p} : proc'[q] = proc[q]
  <2>1. cred' = [u \in J!Credentials |-> cred'[u]]
        /\ (file' = J!Truncated \/ DOMAIN file' = J!Sections(conf))
    BY <1>1, <1>2, Zenon DEF Documents
  <2>2. /\ version' \in Nat /\ version <= version' /\ J!Idle.base \in Nat
        /\ J!Idle.base <= version /\ DOMAIN asked' = DOMAIN asked
    BY <1>1, <1>2, <1>3
  <2>3. /\ J!Idle.pc \in {"idle", "open", "write", "copy"}
        /\ J!Idle.pc \notin {"open", "write"}
    BY <1>3, Zenon
  <2> QED
    BY <1>1, <1>2, <1>3, <2>1, <2>2, <2>3, StepDocuments, Zenon
<1>5. J!UnreadableExplained'
  BY <1>1, <1>2, <1>4, Zenon DEF J!UnreadableExplained
<1>6. \A q \in Procs : /\ Working(q)' <=> Working(q)
                       /\ Working(q) => proc'[q] = proc[q]
                       /\ proc'[q].pc = "parse" => proc'[q] = proc[q]
  BY <1>1, <1>3, <1>4, Zenon DEF Working
<1>7. Undone' => Undone
  BY <1>1, <1>6, Zenon DEF Undone, Doomed
<1>8. ASSUME Undone PROVE FileStays' /\ ReadStays' /\ WriteStays' /\ CredStays'
  <2>1. FileStays /\ ReadStays /\ WriteStays /\ CredStays
    BY <1>2, <1>8, Zenon DEF Stays
  <2>2. FileStays'
    BY <1>1, <2>1, Zenon DEF FileStays, Right, Plain
  <2>3. ReadStays'
    BY <1>1, <1>6, <2>1 DEF ReadStays, Right, Plain
  <2>4. CredStays'
    BY <1>1, <1>6, <2>1, Zenon DEF CredStays, CredsRight
  <2>5. ASSUME NEW q \in Procs, Working(q)', Alone(q)' PROVE Promised(proc[q])'
    <3>1. Promised(proc[q]) /\ proc'[q] = proc[q]
      BY <1>6, <2>1, <2>5, Zenon DEF Alone, WriteStays
    <3> QED
      BY SMTT(30), <1>1, <3>1 DEF Promised, Plain, J!Accepted, J!Names
  <2> QED
    BY <2>2, <2>3, <2>4, <2>5, Zenon DEF WriteStays
<1> QED
  BY <1>4, <1>5, <1>7, <1>8, Zenon DEF JInv, Stays

LEMMA KillKept == ASSUME NEW p \in Procs, JInv, J!Kill(p) PROVE JInv'
<1>1. /\ proc' = [proc EXCEPT ![p] = J!Idle]
      /\ causes' = causes \cup (IF proc[p].pc = "write" THEN {"torn"} ELSE {"killed"})
      /\ conf' = conf /\ file' = file /\ cred' = cred /\ asked' = asked /\ version' = version
  BY Zenon DEF J!Kill
<1>2. Documents /\ version \in Nat /\ J!UnreadableExplained
  BY Zenon DEF JInv, Documents
<1>3. DOMAIN J!Idle = Fields /\ J!Idle.pc = "idle" /\ J!Idle.base = 0
  BY <1>2, IdleProcess, Zenon
<1>4. Documents' /\ proc'[p] = J!Idle /\ \A q \in Procs \ {p} : proc'[q] = proc[q]
  <2>1. cred' = [u \in J!Credentials |-> cred'[u]]
        /\ (file' = J!Truncated \/ DOMAIN file' = J!Sections(conf))
    BY <1>1, <1>2, Zenon DEF Documents
  <2>2. /\ version' \in Nat /\ version <= version' /\ J!Idle.base \in Nat
        /\ J!Idle.base <= version /\ DOMAIN asked' = DOMAIN asked
    BY <1>1, <1>2, <1>3
  <2>3. /\ J!Idle.pc \in {"idle", "open", "write", "copy"}
        /\ J!Idle.pc \notin {"open", "write"}
    BY <1>3, Zenon
  <2> QED
    BY <1>1, <1>2, <1>3, <2>1, <2>2, <2>3, StepDocuments, Zenon
<1>5. J!UnreadableExplained'
  BY <1>1, <1>2, <1>4, Zenon DEF J!UnreadableExplained
<1>6. ~ Undone'
  BY <1>1, Zenon DEF Undone
<1> QED
  BY <1>4, <1>5, <1>6, Zenon DEF JInv, Stays

(* A copy in the background, and what the other requests do.               *)
LEMMA ElsewhereKept ==
    ASSUME JInv, UNCHANGED <<conf, file, cred, proc, asked, version, causes>>
    PROVE  JInv'
<1>1. Documents'
  BY Zenon DEF JInv, Documents, Process, Loaded
<1>2. J!UnreadableExplained'
  BY Zenon DEF JInv, J!UnreadableExplained
<1>3. Stays'
  BY SMTT(30) DEF JInv, Stays, Undone, Doomed, FileStays, ReadStays, WriteStays, CredStays, Right,
         CredsRight, Promised, Alone, Working, Plain, J!Accepted, J!Names
<1> QED
  BY <1>1, <1>2, <1>3, Zenon DEF JInv

LEMMA JsonKept == ASSUME JInv, J!Next PROVE JInv'
<1>1. ASSUME NEW p \in Procs, J!GetTopics(p) \/ J!BridgeStarts(p) PROVE JInv'
  BY <1>1, TopicsKept, Zenon DEF J!GetTopics, J!BridgeStarts
<1>2. CASE J!CpRuns
  BY <1>2, ElsewhereKept, Zenon DEF J!CpRuns
<1> QED
  BY <1>1, <1>2, GetKept, LoadKept, ParseKept, OpenKept, WriteKept, ChooseKept, KillKept, Zenon
  DEF J!Next

----------------------------------------------------------------------------
(* A step is of one of the three programs.                                 *)
LEMMA OneProgram ==
    ASSUME [Next]_vars
    PROVE  /\ which' = which
           /\ \/ UNCHANGED vars
              \/ which = "toml" /\ T!Next
              \/ which = "json" /\ J!Next
              \/ which = "lte" /\ L!Next
BY Zenon DEF Next, vars, OfToml, OfJson, OfLte

LEMMA JsonInvariant == SpecOne => [](which = "json" => JInv)
<1>1. Init => (which = "json" => JInv)
  BY JsonBegins, Zenon DEF Init
<1>2. (which = "json" => JInv) /\ [Next]_vars => (which = "json" => JInv)'
  <2> SUFFICES ASSUME which = "json" => JInv, [Next]_vars, which' = "json" PROVE JInv'
    BY Zenon
  <2>1. CASE UNCHANGED vars
    BY <2>1, ElsewhereKept, Zenon DEF vars, shared, jsonVars
  <2>2. CASE J!Next
    BY <2>2, OneProgram, JsonKept, Zenon
  <2> QED
    BY <2>1, <2>2, OneProgram, Zenon
<1> QED
  BY <1>1, <1>2, PTL DEF SpecOne

(* Once no request is under way, the JSON file that cgi-cpp rewrites as a  *)
(* whole, and the address and token files, hold what the last accepted     *)
(* request for each of them set; unless a request wrote a document older   *)
(* than the file, or was ended, or another gateway's topics were replaced. *)
THEOREM AcceptedSettingsStay == SpecOne => []AcceptedStays
<1>1. (which = "json" => JInv) => AcceptedStays
  <2> SUFFICES ASSUME which = "json", JInv, J!Quiet, causes \subseteq {"copies"}
               PROVE  /\ file # J!Truncated
                      /\ \A s \in Plain : file[s] = asked[s]
                      /\ CredsRight
    BY Zenon DEF AcceptedStays, J!AcceptedStays, Plain, CredsRight
  <2>1. \A p \in Procs : ~ Working(p) /\ proc[p].pc # "write"
    BY Zenon DEF J!Quiet, Working
  <2>2. Undone
    BY <2>1, Zenon DEF Undone, Doomed
  <2>3. FileStays /\ CredStays
    BY <2>2, Zenon DEF JInv, Stays
  <2>4. file # J!Truncated
    BY <2>1, Zenon DEF JInv, J!UnreadableExplained
  <2> QED
    BY <2>1, <2>3, <2>4, Zenon DEF FileStays, CredStays, Right
<1> QED
  BY <1>1, JsonInvariant, PTL

(* A JSON file without a document is about to be written, or the process   *)
(* that was to write it was ended between open and write: no request that  *)
(* cgi-cpp refuses leaves it so.                                           *)
THEOREM NoRefusalTruncates == SpecOne => []UnreadableExplained
<1>1. (which = "json" => JInv) => UnreadableExplained
  BY Zenon DEF JInv, UnreadableExplained
<1> QED
  BY <1>1, JsonInvariant, PTL

----------------------------------------------------------------------------
(* The report of the modem.  A process that waits has received pieces of   *)
(* the answer to its own command alone: tcflush drops what came before the *)
(* command, and another piece that comes later is in lateOver.             *)

Commands == {L!Script[i] : i \in 1..7}
Pieces == Procs \X Commands
States == [pc: {"idle", "open", "send", "wait", "end"}, cmd: 1..7, imei: SUBSET Pieces]

Exchange ==
    /\ proc \in [Procs -> States] /\ out \in Seq(Pieces) /\ rx \in Seq(Pieces)
    /\ lateOver \in BOOLEAN
Received == \A p \in Procs : proc[p].pc = "wait" => \A i \in 1..Len(rx) : rx[i] = L!Own(p)
LInv == Exchange /\ L!ImeiOwn /\ (~ lateOver => Received)

LEMMA ScriptIs == L!Script \in [1..7 -> Commands] /\ Len(L!Script) = 7
BY DEF L!Script, Commands

LEMMA CommandsAre ==
    \A c \in Commands : L!At(c) \in 1..7 /\ L!Script[L!At(c)] = c
<1> SUFFICES ASSUME NEW c \in Commands PROVE L!At(c) \in 1..7 /\ L!Script[L!At(c)] = c
  BY Zenon
<1>1. \E i \in 1..7 : L!Script[i] = c
  BY Zenon DEF Commands
<1>2. L!At(c) = CHOOSE i \in 1..7 : L!Script[i] = c
  BY ScriptIs, Zenon DEF L!At
<1> QED
  BY <1>1, <1>2, Zenon

LEMMA CommandNames ==
    Commands = {"ATE0", "QSIMDET", "CPIN", "QSIMSTAT", "CREG", "GSN", "CSQ"}
BY SMTT(30) DEF Commands, L!Script

(* The next command keeps what the report has.                             *)
LEMMA ThenIs ==
    ASSUME NEW r \in States, NEW c \in Commands
    PROVE  /\ L!Then(r, c) \in States
           /\ L!Then(r, c).pc = "send" /\ L!Then(r, c).imei = r.imei
BY CommandsAre, Zenon DEF L!Then, States

LEMMA AnsweredIs ==
    ASSUME NEW r \in States, NEW got \in SUBSET Pieces, NEW yes \in BOOLEAN
    PROVE  /\ L!Answered(r, got, yes) \in States
           /\ L!Answered(r, got, yes).pc \in {"send", "end"}
           /\ L!Answered(r, got, yes).imei = IF L!Script[r.cmd] = "GSN" THEN got ELSE r.imei
<1> DEFINE a == L!Answered(r, got, yes)
<1>0. L!Script[r.cmd] \in Commands
  BY ScriptIs, Zenon DEF States
<1>1. CASE L!Script[r.cmd] = "CREG"
  <2>1. a = L!Then(r, "GSN")
    BY <1>1, Zenon DEF L!Answered, L!send_at_get_qnet_stat
  <2> QED
    BY SMTT(30), <1>1, <2>1, ThenIs, CommandNames
<1>2. CASE L!Script[r.cmd] = "GSN"
  <2>1. a = [L!Then(r, "CSQ") EXCEPT !.imei = got]
    BY <1>2, Zenon DEF L!Answered, L!send_at_get_imei
  <2>2. L!Then(r, "CSQ") \in States /\ L!Then(r, "CSQ").pc = "send"
    BY ThenIs, CommandNames, Zenon
  <2> QED
    BY <1>2, <2>1, <2>2, Zenon DEF States
<1>3. CASE L!Script[r.cmd] = "CSQ"
  <2>1. a = [r EXCEPT !.pc = "end"]
    BY <1>3, Zenon DEF L!Answered, L!send_at_get_rssi
  <2> QED
    BY <1>3, <2>1, Zenon DEF States
<1>4. CASE L!Script[r.cmd] \in {"ATE0", "QSIMDET", "CPIN", "QSIMSTAT"}
  <2>1. a = L!send_at_get_sim_stat(r, yes)
    BY <1>4, Zenon DEF L!Answered
  <2>2. \E c \in Commands : a = L!Then(r, c)
    BY <1>4, <2>1, CommandNames, Zenon DEF L!send_at_get_sim_stat
  <2> QED
    BY <1>4, <2>2, ThenIs, Zenon
<1> QED
  BY <1>0, <1>1, <1>2, <1>3, <1>4, CommandNames, Zenon

LEMMA LteBegins == L!Init => LInv
<1> SUFFICES ASSUME L!Init PROVE LInv
  BY Zenon
<1>1. \A p \in Procs : proc[p] = L!Idle
  BY Zenon DEF L!Init
<1>2. L!Idle \in States /\ L!Idle.pc = "idle" /\ L!Idle.imei = {}
  BY DEF L!Idle, States
<1>3. Exchange
  <2>1. proc = [p \in Procs |-> L!Idle] /\ out = <<>> /\ rx = <<>> /\ lateOver = FALSE
    BY Zenon DEF L!Init
  <2>2. proc \in [Procs -> States]
    BY <1>2, <2>1, Zenon
  <2>3. out \in Seq(Pieces) /\ rx \in Seq(Pieces)
    BY SMTT(30), <2>1
  <2> QED
    BY <2>1, <2>2, <2>3, Zenon DEF Exchange
<1> QED
  BY <1>1, <1>2, <1>3, Zenon DEF LInv, L!ImeiOwn, Received

(* A process goes on with the record n, which may be one that waits only   *)
(* if it waited before or nothing has been received.                       *)
LEMMA LteStep ==
    ASSUME NEW p \in Procs, NEW n \in States, LInv, proc' = [proc EXCEPT ![p] = n],
           rx' = rx \/ rx' = <<>>, out' \in Seq(Pieces), lateOver' = lateOver,
           n.pc = "wait" => rx' = <<>>,
           n.imei # {} /\ ~ lateOver => n.imei = {<<p, "GSN">>}
    PROVE  LInv'
<1>1. proc'[p] = n /\ (\A q \in Procs \ {p} : proc'[q] = proc[q])
  BY Zenon DEF LInv, Exchange
<1>2. Exchange'
  <2>1. proc' \in [Procs -> States]
    BY Zenon DEF LInv, Exchange
  <2>2. rx' \in Seq(Pieces)
    <3>1. <<>> \in Seq(Pieces)
      BY SMTT(30)
    <3> QED
      BY <3>1, Zenon DEF LInv, Exchange
  <2> QED
    BY <2>1, <2>2, Zenon DEF LInv, Exchange
<1>3. L!ImeiOwn'
  <2> SUFFICES ASSUME NEW q \in Procs, proc'[q].imei # {}, ~ lateOver
               PROVE  proc'[q].imei = {<<q, "GSN">>}
    BY Zenon DEF L!ImeiOwn
  <2>1. CASE q = p
    BY <1>1, <2>1, Zenon
  <2>2. CASE q # p
    BY <1>1, <2>2, Zenon DEF LInv, L!ImeiOwn
  <2> QED
    BY <2>1, <2>2, Zenon
<1>4. ASSUME ~ lateOver PROVE Received'
  <2>1. CASE rx' = <<>>
    BY SMTT(30), <2>1 DEF Received
  <2>2. CASE rx' = rx /\ n.pc # "wait"
    <3> SUFFICES ASSUME NEW q \in Procs, proc'[q].pc = "wait", NEW i \in 1..Len(rx)
                 PROVE  rx[i] = L!Own(q)'
      BY <2>2, Zenon DEF Received
    <3>1. q # p /\ proc'[q] = proc[q]
      BY <1>1, <2>2, Zenon
    <3>2. L!Own(q)' = L!Own(q)
      BY <3>1, Zenon DEF L!Own, L!Script
    <3> QED
      BY <1>4, <3>1, <3>2, Zenon DEF LInv, Received
  <2> QED
    BY <2>1, <2>2, Zenon
<1> QED
  BY <1>2, <1>3, <1>4, Zenon DEF LInv

LEMMA LteKept == ASSUME LInv, L!Next PROVE LInv'
<1>0. /\ proc \in [Procs -> States] /\ out \in Seq(Pieces) /\ rx \in Seq(Pieces)
      /\ lateOver \in BOOLEAN
  BY Zenon DEF LInv, Exchange
<1>1. L!Idle \in States /\ L!Idle.pc = "idle" /\ L!Idle.imei = {}
  BY DEF L!Idle, States
<1>2. ASSUME NEW p \in Procs
      PROVE  proc[p] \in States /\ (proc[p].imei # {} /\ ~ lateOver => proc[p].imei = {<<p, "GSN">>})
  BY <1>0, <1>2, Zenon DEF LInv, L!ImeiOwn
<1>3. ASSUME NEW p \in Procs, L!Stop(p) PROVE LInv'
  <2> DEFINE n == [L!Idle EXCEPT !.pc = "open"]
  <2>1. n \in States /\ n.pc = "open" /\ n.imei = {}
    BY <1>1, Zenon DEF States
  <2> HIDE DEF n
  <2>2. proc' = [proc EXCEPT ![p] = n] /\ rx' = rx /\ out' = out /\ lateOver' = lateOver
    BY <1>3, Zenon DEF L!Stop, L!Port, n
  <2> QED
    BY <1>0, <2>1, <2>2, LteStep, Zenon
<1>4. ASSUME NEW p \in Procs, NEW ok \in BOOLEAN, L!Opened(p, ok) PROVE LInv'
  <2> DEFINE n == [proc[p] EXCEPT !.pc = IF ok THEN "send" ELSE "end"]
  <2>1. n \in States /\ n.pc \in {"send", "end"} /\ n.imei = proc[p].imei
    BY <1>2, Zenon DEF States
  <2> HIDE DEF n
  <2>2. proc' = [proc EXCEPT ![p] = n] /\ rx' = rx /\ out' = out /\ lateOver' = lateOver
    BY <1>0, <1>4, Zenon DEF L!Opened, L!Port, n
  <2> QED
    BY <1>0, <1>2, <2>1, <2>2, LteStep, Zenon
<1>5. ASSUME NEW p \in Procs, L!Send(p) PROVE LInv'
  <2> DEFINE n == [proc[p] EXCEPT !.pc = "wait"]
  <2>1. n \in States /\ n.pc = "wait" /\ n.imei = proc[p].imei
    BY <1>2, Zenon DEF States
  <2> HIDE DEF n
  <2>2. proc' = [proc EXCEPT ![p] = n] /\ rx' = <<>> /\ lateOver' = lateOver
    BY <1>0, <1>5, Zenon DEF L!Send, n
  <2>3. L!Own(p) \in Pieces
    BY <1>2, ScriptIs, Zenon DEF L!Own, Pieces, States
  <2>4. out' \in Seq(Pieces)
    BY SMTT(30), <1>0, <1>5, <2>3 DEF L!Send
  <2> QED
    BY <1>2, <2>1, <2>2, <2>4, LteStep, Zenon
<1>6. ASSUME NEW p \in Procs, L!Receive(p) PROVE LInv'
  <2> DEFINE got == {rx[i] : i \in 1..Len(rx)}
  <2>1. PICK yes \in BOOLEAN : proc' = [proc EXCEPT ![p] = L!Answered(proc[p], got, yes)]
    BY <1>6, Zenon DEF L!Receive
  <2>2. proc[p].pc = "wait" /\ rx # <<>> /\ rx' = <<>> /\ out' = out /\ lateOver' = lateOver
    BY <1>6, Zenon DEF L!Receive
  <2>3. got = {rx[i] : i \in 1..Len(rx)}
    BY Zenon
  <2> HIDE DEF got
  <2>4. got \in SUBSET Pieces
    BY SMTT(30), <1>0, <2>3
  <2> DEFINE n == L!Answered(proc[p], got, yes)
  <2>5. n \in States /\ n.pc \in {"send", "end"}
        /\ n.imei = IF L!Script[proc[p].cmd] = "GSN" THEN got ELSE proc[p].imei
    BY <1>2, <2>4, AnsweredIs, Zenon
  <2>6. ASSUME ~ lateOver, L!Script[proc[p].cmd] = "GSN" PROVE got = {<<p, "GSN">>}
    <3>1. \A i \in 1..Len(rx) : rx[i] = <<p, "GSN">>
      BY <2>2, <2>6, Zenon DEF LInv, Received, L!Own
    <3>2. Len(rx) \in Nat /\ Len(rx) > 0
      BY <1>0, <2>2
    <3>3. 1 \in 1..Len(rx)
      BY SMTT(30), <3>2
    <3> QED
      BY <2>3, <3>1, <3>3, Zenon
  <2>7. proc' = [proc EXCEPT ![p] = n]
    BY <2>1, Zenon
  <2> HIDE DEF n
  <2>8. n.imei # {} /\ ~ lateOver => n.imei = {<<p, "GSN">>}
    BY <1>2, <2>5, <2>6, Zenon
  <2>9. n.pc # "wait"
    BY <2>5, Zenon
  <2> QED
    BY <1>0, <2>2, <2>5, <2>7, <2>8, <2>9, LteStep, Zenon
<1>7. ASSUME NEW p \in Procs, L!TimesOut(p) PROVE LInv'
  <2> DEFINE e == [proc[p] EXCEPT !.pc = "end"]
             n == IF L!Script[proc[p].cmd] = "CREG" THEN L!Then(proc[p], "GSN") ELSE e
  <2>1. proc' = [proc EXCEPT ![p] = n] /\ rx' = rx /\ out' = out /\ lateOver' = lateOver
    BY <1>0, <1>7, Zenon DEF L!TimesOut, L!send_at_get_qnet_stat
  <2>2. e \in States /\ e.pc = "end" /\ e.imei = proc[p].imei
    BY <1>2, Zenon DEF States
  <2>3. n \in States /\ n.pc \in {"send", "end"} /\ n.imei = proc[p].imei
    BY SMTT(30), <1>2, <2>2, ThenIs, CommandNames
  <2> HIDE DEF n
  <2>4. n.pc # "wait"
    BY <2>3, Zenon
  <2> QED
    BY <1>0, <1>2, <2>1, <2>3, <2>4, LteStep, Zenon
<1>8. ASSUME NEW p \in Procs, L!Ends(p) \/ L!Dies(p) PROVE LInv'
  <2>1. proc' = [proc EXCEPT ![p] = L!Idle] /\ rx' = rx /\ out' = out /\ lateOver' = lateOver
    BY <1>8, Zenon DEF L!Ends, L!Dies, L!Port
  <2> QED
    BY <1>0, <1>1, <2>1, LteStep, Zenon
<1>9. CASE L!Arrives
  <2>1. out # <<>> /\ rx' = Append(rx, Head(out)) /\ proc' = proc
        /\ (out' = Tail(out) \/ out' = out)
    BY <1>9, Zenon DEF L!Arrives
  <2>2. lateOver' = (lateOver \/ \E p \in Procs : proc[p].pc = "wait" /\ Head(out) # L!Own(p))
    BY <1>9, Zenon DEF L!Arrives
  <2>3. Head(out) \in Pieces /\ out' \in Seq(Pieces) /\ rx' \in Seq(Pieces)
    <3>1. Head(out) \in Pieces /\ Tail(out) \in Seq(Pieces)
      BY <1>0, <2>1
    <3>2. Append(rx, Head(out)) \in Seq(Pieces)
      BY SMTT(30), <1>0, <3>1
    <3> QED
      BY <1>0, <2>1, <3>1, <3>2, Zenon
  <2>4. lateOver' \in BOOLEAN /\ (lateOver => lateOver')
    BY <2>2, Zenon
  <2>5. Exchange'
    BY <1>0, <2>1, <2>3, <2>4, Zenon DEF Exchange
  <2>6. L!ImeiOwn'
    BY <2>1, <2>4, Zenon DEF LInv, L!ImeiOwn
  <2>7. ASSUME ~ lateOver' PROVE Received'
    <3> SUFFICES ASSUME NEW p \in Procs, proc[p].pc = "wait", NEW i \in 1..Len(rx')
                 PROVE  rx'[i] = L!Own(p)
      BY <2>1, Zenon DEF Received, L!Own, L!Script
    <3>1. ~ lateOver /\ Head(out) = L!Own(p)
      BY <2>2, <2>7, Zenon
    <3>2. \A j \in 1..Len(rx) : rx[j] = L!Own(p)
      BY <3>1, Zenon DEF LInv, Received
    <3>3. i \in 1..Len(rx) \/ i = Len(rx) + 1
      BY SMTT(30), <1>0, <2>1, <2>3
    <3> QED
      BY <1>0, <2>1, <2>3, <3>1, <3>2, <3>3
  <2> QED
    BY <2>5, <2>6, <2>7, Zenon DEF LInv
<1>10. CASE L!Started
  BY <1>10, Zenon DEF L!Started, L!Port, LInv, Exchange, L!ImeiOwn, Received, L!Own, L!Script
<1>11. ASSUME NEW p \in Procs, L!OpenConf(p) \/ L!OpenProbe(p) PROVE LInv'
  <2>1. \E ok \in BOOLEAN : L!Opened(p, ok)
    BY <1>11, Zenon DEF L!OpenConf, L!OpenProbe
  <2> QED
    BY <1>4, <2>1, Zenon
<1> QED
  BY <1>3, <1>5, <1>6, <1>7, <1>8, <1>9, <1>10, <1>11, Zenon DEF L!Next

LEMMA LteInvariant == SpecOne => [](which = "lte" => LInv)
<1>1. Init => (which = "lte" => LInv)
  BY LteBegins, Zenon DEF Init
<1>2. (which = "lte" => LInv) /\ [Next]_vars => (which = "lte" => LInv)'
  <2> SUFFICES ASSUME which = "lte" => LInv, [Next]_vars, which' = "lte" PROVE LInv'
    BY Zenon
  <2>1. CASE UNCHANGED vars
    BY <2>1, OneProgram, Zenon DEF vars, shared, lteVars, LInv, Exchange, L!ImeiOwn, Received, L!Own,
                            L!Script
  <2>2. CASE L!Next
    BY <2>2, OneProgram, LteKept, Zenon
  <2> QED
    BY <2>1, <2>2, OneProgram, Zenon
<1> QED
  BY <1>1, <1>2, PTL DEF SpecOne

(* The IMEI in the report of cgi-cpp is what the modem answered to the     *)
(* request's own AT+GSN, however many requests overlap, time out or end    *)
(* early; unless a piece of another answer reached a process that waited.  *)
THEOREM ReportsOwnImei == SpecOne => []ImeiOwn
<1>1. (which = "lte" => LInv) => ImeiOwn
  BY Zenon DEF LInv, ImeiOwn
<1> QED
  BY <1>1, LteInvariant, PTL

----------------------------------------------------------------------------
(* The settings of the bridge, for requests one at a time.  A SET copies   *)
(* Image of its members into the file by way of the temporary file, part   *)
(* by part; both files are empty when it begins, so that what a process    *)
(* ended half-way has left does not matter.                                *)

TomlFields == {"pc", "op", "secs", "to", "body", "toml_data", "members", "outfile", "lines",
               "next", "answer"}
req == proc["p"]

Written(m) == [s \in T!Sections |-> T!Assembled(s, m[s])]
Image(m) == [s \in T!Sections |-> T!Formatted(s, T!Assembled(s, m[s]))]
Merged ==
    [s \in T!Sections |-> IF s \in req.secs
                          THEN T!ParseRemote(s, T!ParseForEach(req.toml_data)[s], req.to[s])
                          ELSE T!ParseForEach(req.toml_data)[s]]
Prefix(n) == {T!FileOrder[i] : i \in 1..n}

(* What a file and the members may hold.                                   *)
Spelled == {T!SecToString(n) : n \in Nat}
FileOK(f) ==
    /\ "filters" \in DOMAIN f => f["filters"] \in [net_ids: T!Lists, join_euis: T!Lists]
    /\ "backend" \in DOMAIN f => DOMAIN f["backend"] = {"type", "host", "port"}
    /\ "integration" \in DOMAIN f =>
         /\ DOMAIN f["integration"] = {"type", "ca_cert", "interval"}
         /\ f["integration"].interval \in Spelled
         /\ f["integration"] = [i \in DOMAIN f["integration"] |-> f["integration"][i]]
ListKinds == {"empty", "some"}
MembersOK(m) ==
    /\ m["filters"] \in [enable: BOOLEAN, net_ids: ListKinds, join_euis: ListKinds]
    /\ DOMAIN m["backend"] = {"type", "host", "port"}
    /\ DOMAIN m["integration"] = {"type", "ca_cert", "interval"}
    /\ m["integration"].interval \in Nat
RequestOK ==
    req.op = "set" =>
      /\ "filters" \in req.secs =>
           req.to["filters"] \in [enable: BOOLEAN, net_ids: ListKinds, join_euis: ListKinds]
      /\ "integration" \in req.secs => req.to["integration"].interval \in Nat

LEMMA SectionsAre ==
    /\ T!Sections = {"general", "filters", "backend", "integration"}
    /\ Len(T!FileOrder) = 4
    /\ Prefix(0) = {} /\ Prefix(4) = T!Sections
    /\ \A n \in 1..4 : /\ Prefix(n) = Prefix(n - 1) \cup {T!FileOrder[n]}
                       /\ T!FileOrder[n] \in T!Sections
<1>1. Len(T!FileOrder) = 4 /\ T!FileOrder[1] = "general" /\ T!FileOrder[2] = "filters"
      /\ T!FileOrder[3] = "backend" /\ T!FileOrder[4] = "integration"
  BY Zenon DEF T!FileOrder
<1>2. T!Sections = Prefix(4)
  BY <1>1, Zenon DEF T!Sections, Prefix
<1>3. T!Sections = {"general", "filters", "backend", "integration"}
  BY <1>1, <1>2 DEF Prefix
<1>4. Prefix(0) = {}
  BY SMTT(30) DEF Prefix
<1>5. ASSUME NEW n \in 1..4 PROVE Prefix(n) = Prefix(n - 1) \cup {T!FileOrder[n]}
                                  /\ T!FileOrder[n] \in T!Sections
  <2>1. \A i : i \in 1..n <=> i \in 1..(n - 1) \/ i = n
    BY SMTT(30)
  <2>2. T!FileOrder[n] \in T!Sections
    BY <1>2, Zenon DEF Prefix
  <2> QED
    BY <2>1, <2>2, Zenon DEF Prefix
<1> QED
  BY <1>1, <1>2, <1>3, <1>4, <1>5, Zenon

(* The interval: parse_toml_string_to_sec takes back what                  *)
(* parse_json_sec_to_string writes, for every number of seconds.           *)
LEMMA Division ==
    ASSUME NEW n \in Nat, NEW d \in Nat \ {0}
    PROVE  n \div d \in Nat /\ n % d \in Nat /\ n = d * (n \div d) + (n % d)
BY SMTT(30)

LEMMA IntervalRoundTrip == \A n \in Nat : T!StringToSec(T!SecToString(n)) = n
<1> SUFFICES ASSUME NEW n \in Nat PROVE T!StringToSec(T!SecToString(n)) = n
  OBVIOUS
<1> DEFINE h == n \div T!Hour
           q == n % T!Hour
           m == q \div 60
           s == q % 60
           count == [h |-> h, m |-> m, s |-> s]
           units == {"s"} \cup {v \in {"h"} : count.h > 0}
                          \cup {v \in {"m"} : count.m > 0 \/ count.h > 0}
           x == [u \in units |-> count[u]]
<1>0. T!Hour \in Nat \ {0} /\ T!Hour = 60 * 60
  BY DEF T!Hour
<1>1. h \in Nat /\ q \in Nat /\ n = T!Hour * h + q
  BY <1>0, Division
<1>3. T!SecToString(n) = x
  BY Zenon DEF T!SecToString
<1>4. count.h = h /\ count.m = m /\ count.s = s
  BY Zenon
<1> HIDE DEF count, h, q
<1>2. m \in Nat /\ s \in Nat /\ q = 60 * m + s
  BY <1>1, Division
<1> HIDE DEF m, s
<1>5. /\ (IF "h" \in DOMAIN x THEN x["h"] ELSE 0) = h
      /\ (IF "m" \in DOMAIN x THEN x["m"] ELSE 0) = m
      /\ (IF "s" \in DOMAIN x THEN x["s"] ELSE 0) = s
  BY SMTT(30), <1>1, <1>2, <1>4
<1>6. T!StringToSec(x) = h * 60 * 60 + 60 * m + s
  BY <1>5, Zenon DEF T!StringToSec
<1>7. n = h * 60 * 60 + 60 * m + s
  BY <1>0, <1>1, <1>2
<1> QED
  BY <1>3, <1>6, <1>7, Zenon

(* What the parser of a section makes of it.                               *)
Parsed(f, s) ==
    CASE s = "filters" -> T!ParseFilters(f["filters"])
      [] s = "backend" -> T!ParseBackend(f["backend"])
      [] s = "integration" -> T!ParseIntegration(f["integration"])
      [] s = "general" -> f["general"]

LEMMA ParsedIs ==
    ASSUME NEW f, NEW s \in T!Sections
    PROVE  /\ \/ T!ParseForEach(f)[s] = T!Members[s]
              \/ s \in DOMAIN f /\ T!ParseForEach(f)[s] = Parsed(f, s)
           /\ T!Whole(f) => T!ParseForEach(f)[s] = Parsed(f, s)
<1> DEFINE visited == {T!VisitOrder[n] : n \in {m \in 1..Len(T!VisitOrder) :
                         \A i \in 1..m : ~ T!ParseThrows(f, T!VisitOrder[i])}}
<1>1. T!ParseForEach(f)[s] = IF s \in visited THEN Parsed(f, s) ELSE T!Members[s]
  BY Zenon DEF T!ParseForEach, Parsed
<1>2. Len(T!VisitOrder) = 4 /\ T!VisitOrder[1] = "backend" /\ T!VisitOrder[2] = "filters"
      /\ T!VisitOrder[3] = "general" /\ T!VisitOrder[4] = "integration"
  BY Zenon DEF T!VisitOrder
<1>3. ASSUME s \in visited PROVE s \in DOMAIN f
  <2>1. PICK n \in 1..4 : s = T!VisitOrder[n] /\ ~ T!ParseThrows(f, T!VisitOrder[n])
    BY <1>2, <1>3
  <2> QED
    BY <2>1, Zenon DEF T!ParseThrows
<1>4. ASSUME T!Whole(f) PROVE s \in visited
  <2>1. PICK n \in 1..4 : s = T!VisitOrder[n]
    BY SMTT(30), <1>2, SectionsAre
  <2>2. \A i \in 1..n : T!VisitOrder[i] \in T!Sections
    BY <1>2, SectionsAre
  <2>3. \A i \in 1..n : ~ T!ParseThrows(f, T!VisitOrder[i])
    BY <1>4, <2>2, Zenon DEF T!Whole
  <2> QED
    BY <1>2, <2>1, <2>3, Zenon
<1> HIDE DEF visited
<1> QED
  BY <1>1, <1>3, <1>4, Zenon

(* The members are in form whatever the file misses.                       *)
LEMMA ParsedOK == ASSUME NEW f, FileOK(f) PROVE MembersOK(T!ParseForEach(f))
<1> DEFINE m == T!ParseForEach(f)
<1>1. m["filters"] \in [enable: BOOLEAN, net_ids: ListKinds, join_euis: ListKinds]
  <2>1. CASE m["filters"] = T!Members["filters"]
    BY SMTT(30), <2>1 DEF T!Members, ListKinds
  <2>2. CASE "filters" \in DOMAIN f /\ m["filters"] = Parsed(f, "filters")
    <3>1. f["filters"] \in [net_ids: T!Lists, join_euis: T!Lists]
      BY <2>2, Zenon DEF FileOK
    <3>2. m["filters"] = T!ParseFilters(f["filters"])
      BY <2>2, Zenon DEF Parsed
    <3> QED
      BY <3>1, <3>2 DEF T!ParseFilters, T!Lists, ListKinds
  <2> QED
    BY <2>1, <2>2, ParsedIs, SectionsAre, Zenon
<1>2. DOMAIN m["backend"] = {"type", "host", "port"}
  <2>1. CASE m["backend"] = T!Members["backend"]
    BY <2>1, Zenon DEF T!Members
  <2>2. CASE "backend" \in DOMAIN f /\ m["backend"] = Parsed(f, "backend")
    <3>1. DOMAIN f["backend"] = {"type", "host", "port"}
      BY <2>2, Zenon DEF FileOK
    <3>2. m["backend"] = T!ParseBackend(f["backend"])
      BY <2>2, Zenon DEF Parsed
    <3> QED
      BY <3>1, <3>2, Zenon DEF T!ParseBackend
  <2> QED
    BY <2>1, <2>2, ParsedIs, SectionsAre, Zenon
<1>3. /\ DOMAIN m["integration"] = {"type", "ca_cert", "interval"}
      /\ m["integration"].interval \in Nat
  <2>1. CASE m["integration"] = T!Members["integration"]
    <3>1. T!Members["integration"] = [type |-> "", ca_cert |-> "", interval |-> 0]
      BY Zenon DEF T!Members
    <3>2. DOMAIN T!Members["integration"] = {"type", "ca_cert", "interval"}
      BY <3>1, Zenon
    <3>3. T!Members["integration"].interval = 0
      <4>1. [type |-> "", ca_cert |-> "", interval |-> 0].interval = 0
        BY Zenon
      <4> QED
        BY <3>1, <4>1, Zenon
    <3>4. 0 \in Nat
      BY Zenon
    <3> QED
      BY <2>1, <3>2, <3>3, <3>4, Zenon
  <2>2. CASE "integration" \in DOMAIN f /\ m["integration"] = Parsed(f, "integration")
    <3>1. /\ DOMAIN f["integration"] = {"type", "ca_cert", "interval"}
          /\ f["integration"].interval \in Spelled
      BY <2>2, Zenon DEF FileOK
    <3>2. m["integration"] = T!ParseIntegration(f["integration"])
      BY <2>2, Zenon DEF Parsed
    <3>3. /\ DOMAIN m["integration"] = {"type", "ca_cert", "interval"}
          /\ m["integration"].interval = T!StringToSec(f["integration"].interval)
      BY <3>1, <3>2, Zenon DEF T!ParseIntegration
    <3>4. \A i \in Spelled : T!StringToSec(i) \in Nat
      BY IntervalRoundTrip, Zenon DEF Spelled
    <3> QED
      BY <3>1, <3>3, <3>4, Zenon
  <2> QED
    BY <2>1, <2>2, ParsedIs, SectionsAre, Zenon
<1> QED
  BY <1>1, <1>2, <1>3, Zenon DEF MembersOK

LEMMA MergedOK ==
    ASSUME FileOK(req.toml_data), RequestOK, req.op = "set"
    PROVE  MembersOK(Merged)
<1> DEFINE m == T!ParseForEach(req.toml_data)
<1>0. MembersOK(m)
  BY ParsedOK, Zenon
<1> HIDE DEF m
<1>1. \A s \in T!Sections : Merged[s] = IF s \in req.secs THEN T!ParseRemote(s, m[s], req.to[s])
                                                          ELSE m[s]
  BY Zenon DEF Merged, m
<1>2. Merged["filters"] \in [enable: BOOLEAN, net_ids: ListKinds, join_euis: ListKinds]
  <2>1. Merged["filters"] = IF "filters" \in req.secs
          THEN T!ParseRemoteFilters(m["filters"], req.to["filters"]) ELSE m["filters"]
    BY <1>1, SectionsAre, Zenon DEF T!ParseRemote
  <2> QED
    BY <1>0, <2>1, Zenon DEF T!ParseRemoteFilters, MembersOK, RequestOK
<1>3. DOMAIN Merged["backend"] = {"type", "host", "port"}
  <2>1. Merged["backend"] = IF "backend" \in req.secs
          THEN T!ParseRemoteBackend(m["backend"], req.to["backend"]) ELSE m["backend"]
    BY <1>1, SectionsAre, Zenon DEF T!ParseRemote
  <2> QED
    BY <1>0, <2>1, Zenon DEF T!ParseRemoteBackend, MembersOK
<1>4. /\ DOMAIN Merged["integration"] = {"type", "ca_cert", "interval"}
      /\ Merged["integration"].interval \in Nat
  <2>1. Merged["integration"] = IF "integration" \in req.secs
          THEN T!ParseRemoteIntegration(req.to["integration"]) ELSE m["integration"]
    BY <1>1, SectionsAre, Zenon DEF T!ParseRemote
  <2> QED
    BY <1>0, <2>1 DEF T!ParseRemoteIntegration, MembersOK, RequestOK
<1> QED
  BY <1>2, <1>3, <1>4, Zenon DEF MembersOK

LEMMA ImageOK ==
    ASSUME NEW m, MembersOK(m), NEW f, DOMAIN f \subseteq T!Sections,
           \A s \in DOMAIN f : f[s] = T!Formatted(s, T!Assembled(s, m[s]))
    PROVE  FileOK(f)
<1>1. ASSUME "filters" \in DOMAIN f
      PROVE  f["filters"] \in [net_ids: T!Lists, join_euis: T!Lists]
  <2>1. T!Assembled("filters", m["filters"]) \in [net_ids: T!Lists, join_euis: T!Lists]
    BY Zenon DEF T!Assembled, MembersOK, T!Lists, ListKinds
  <2>2. \A v \in [net_ids: T!Lists, join_euis: T!Lists] :
          T!Formatted("filters", v) \in [net_ids: T!Lists, join_euis: T!Lists]
    BY Zenon DEF T!Formatted, T!Lists
  <2> QED
    BY <1>1, <2>1, <2>2, Zenon
<1>2. ASSUME "backend" \in DOMAIN f PROVE DOMAIN f["backend"] = {"type", "host", "port"}
  BY <1>2, Zenon DEF T!Assembled, T!Formatted, MembersOK
<1>3. ASSUME "integration" \in DOMAIN f
      PROVE  /\ DOMAIN f["integration"] = {"type", "ca_cert", "interval"}
             /\ f["integration"].interval \in Spelled
             /\ f["integration"] = [i \in DOMAIN f["integration"] |-> f["integration"][i]]
  <2>1. f["integration"] = [m["integration"] EXCEPT !.interval = T!SecToString(@)]
    BY <1>3, Zenon DEF T!Assembled, T!Formatted
  <2>2. /\ DOMAIN m["integration"] = {"type", "ca_cert", "interval"}
        /\ m["integration"].interval \in Nat
    BY Zenon DEF MembersOK
  <2>3. f["integration"].interval = T!SecToString(m["integration"].interval)
    BY <2>1, <2>2, Zenon
  <2> QED
    BY <2>1, <2>2, <2>3, Zenon DEF Spelled
<1> QED
  BY <1>1, <1>2, <1>3, Zenon DEF FileOK

----------------------------------------------------------------------------
(* The request that is being served.                                       *)
Served ==
    /\ proc = [p \in {"p"} |-> proc[p]] /\ DOMAIN req = TomlFields
    /\ disk = [f \in Files |-> disk[f]] /\ tmp \in Files \cup {0}
    /\ FileOK(conf) /\ FileOK(req.toml_data) /\ RequestOK
    /\ req.pc \in {"idle", "stale", "built", "open", "assemble", "in", "truncate", "copy",
                   "remove"}
    /\ req.pc \in {"idle", "stale", "built", "open"} => req.outfile = 0

Storing ==
    /\ req.pc \in {"open", "assemble", "in", "truncate", "copy", "remove"} =>
         req.op = "set" /\ req.members = Merged
    /\ req.pc = "assemble" =>
         /\ tmp \in Files /\ req.outfile = tmp /\ req.next \in 1..4
         /\ disk[tmp] = [s \in Prefix(req.next - 1) |-> T!Assembled(s, req.members[s])]
    /\ req.pc = "in" => tmp \in Files /\ disk[tmp] = Written(req.members)
    /\ req.pc \in {"truncate", "copy", "remove"} => req.lines = Written(req.members)
    /\ req.pc = "copy" =>
         /\ req.next \in 1..4
         /\ conf = [s \in Prefix(req.next - 1) |-> T!Formatted(s, req.lines[s])]
    /\ req.pc = "remove" => conf = Image(req.members)
    /\ T!Done("p") => conf = Image(Merged)

TInv == Served /\ Storing

LEMMA SameRequest ==
    ASSUME req'.toml_data = req.toml_data, req'.secs = req.secs, req'.to = req.to,
           req'.op = req.op
    PROVE  /\ Merged' = Merged /\ RequestOK' = RequestOK
           /\ FileOK(req.toml_data)' = FileOK(req.toml_data)
<1>1. Merged' = Merged
  BY Zenon DEF Merged
<1>2. RequestOK' = RequestOK
  BY Zenon DEF RequestOK
<1>3. FileOK(req.toml_data)' = FileOK(req.toml_data)
  BY Zenon
<1> QED
  BY <1>1, <1>2, <1>3, Zenon

(* A new value n of the process.                                           *)
LEMMA NewRequest ==
    ASSUME NEW n, Served, proc' = [proc EXCEPT !["p"] = n]
    PROVE  req' = n /\ proc' = [p \in {"p"} |-> proc'[p]]
BY Zenon DEF Served, req

LEMMA FilesAre == Files = 1..2
BY Zenon DEF Files

LEMMA TomlBegins == T!Init => TInv
<1> SUFFICES ASSUME T!Init PROVE TInv
  BY Zenon
<1>1. req = T!Idle /\ proc = [p \in {"p"} |-> proc[p]]
  BY Zenon DEF T!Init, req
<1>2. /\ DOMAIN T!Idle = TomlFields /\ T!Idle.pc = "idle" /\ T!Idle.op = "get"
      /\ T!Idle.toml_data = T!Nothing /\ T!Idle.outfile = 0
  BY Zenon DEF T!Idle, TomlFields
<1>3. FileOK(T!Nothing)
  BY SMTT(30) DEF FileOK, T!Nothing
<1>4. FileOK(T!Factory)
  <2>1. [m |-> 10, s |-> 0] = T!SecToString(600)
    <3>1. 600 \div T!Hour = 0 /\ (600 % T!Hour) \div 60 = 10 /\ (600 % T!Hour) % 60 = 0
      BY DEF T!Hour
    <3> QED
      BY SMTT(30), <3>1 DEF T!SecToString
  <2>2. [m |-> 10, s |-> 0] \in Spelled
    BY SMTT(30), <2>1 DEF Spelled
  <2> QED
    BY <2>2, Zenon DEF FileOK, T!Factory, T!Lists
<1>5. Served
  BY <1>1, <1>2, <1>3, <1>4, Zenon DEF Served, T!Init, RequestOK
<1>6. Storing
  BY <1>1, <1>2, Zenon DEF Storing, T!Done, req
<1> QED
  BY <1>5, <1>6, Zenon DEF TInv

(* Reading the file.                                                       *)
LEMMA TomlStarted ==
    ASSUME NEW n, TInv, proc' = [proc EXCEPT !["p"] = T!Started(n)],
           UNCHANGED <<conf, tmp, disk>>, DOMAIN n = TomlFields, n.pc = "idle",
           n.outfile = 0, n.answer = "none", n.toml_data = T!Nothing,
           n.op = "set" =>
             /\ "filters" \in n.secs =>
                  n.to["filters"] \in [enable: BOOLEAN, net_ids: ListKinds, join_euis: ListKinds]
             /\ "integration" \in n.secs => n.to["integration"].interval \in Nat
    PROVE  TInv'
<1> DEFINE m == T!Started(n)
<1>1. req' = m /\ proc' = [p \in {"p"} |-> proc'[p]]
  BY NewRequest, Zenon DEF TInv
<1>2. /\ DOMAIN m = TomlFields /\ m.outfile = 0 /\ m.pc \in {"idle", "stale"}
      /\ m.pc = "idle" => m.answer # "success"
      /\ m.toml_data \in {conf, T!Nothing}
      /\ m.op = n.op /\ m.secs = n.secs /\ m.to = n.to
  BY Zenon DEF T!Started, TomlFields
<1> HIDE DEF m
<1>3. FileOK(T!Nothing)
  BY Zenon DEF FileOK, T!Nothing
<1>4. FileOK(conf) /\ FileOK(m.toml_data)
  BY <1>2, <1>3, Zenon DEF TInv, Served
<1>5. RequestOK'
  BY <1>1, <1>2, Zenon DEF RequestOK
<1>6. Served'
  BY <1>1, <1>2, <1>4, <1>5, Zenon DEF TInv, Served, Files
<1>7. Storing'
  BY <1>1, <1>2, Zenon DEF Storing, T!Done, req
<1> QED
  BY <1>6, <1>7, Zenon DEF TInv

(* The value that a SET is constructed with.                               *)
SetRequest(secs, body, g, f, h, c, i) ==
    T!Started([T!Idle EXCEPT !.op = "set", !.secs = secs, !.body = body, !.to =
      [s \in secs |-> [general |-> g, filters |-> f, backend |-> h,
                       integration |-> [ca_cert |-> c, interval |-> i]][s]]])

LEMMA TomlAsks ==
    ASSUME NEW secs, NEW body, NEW g, NEW f, NEW h, NEW c, NEW i \in Nat,
           f \in [enable: BOOLEAN, net_ids: ListKinds, join_euis: ListKinds],
           TInv, UNCHANGED <<conf, tmp, disk>>,
           proc' = [proc EXCEPT !["p"] = SetRequest(secs, body, g, f, h, c, i)]
    PROVE  TInv'
<1> DEFINE value == [general |-> g, filters |-> f, backend |-> h,
                     integration |-> [ca_cert |-> c, interval |-> i]]
           to == [s \in secs |-> value[s]]
           n == [T!Idle EXCEPT !.op = "set", !.secs = secs, !.body = body, !.to = to]
<1>1. value["filters"] = f /\ value["integration"] = [ca_cert |-> c, interval |-> i]
  BY Zenon
<1>2. [ca_cert |-> c, interval |-> i].interval = i
  BY Zenon
<1> HIDE DEF value
<1>3. "filters" \in secs => to["filters"] = f
  BY <1>1, Zenon
<1>4. "integration" \in secs => to["integration"].interval = i
  BY <1>1, <1>2, Zenon
<1>5. proc' = [proc EXCEPT !["p"] = T!Started(n)]
  BY Zenon DEF value, SetRequest
<1> HIDE DEF to
<1>6. /\ DOMAIN n = TomlFields /\ n.pc = "idle" /\ n.outfile = 0 /\ n.answer = "none"
      /\ n.toml_data = T!Nothing /\ n.op = "set" /\ n.secs = secs /\ n.to = to
  BY Zenon DEF T!Idle, TomlFields
<1> HIDE DEF n
<1> QED
  BY <1>3, <1>4, <1>5, <1>6, TomlStarted, Zenon

LEMMA FiltersAsked ==
    \A f \in T!Filters : f \in [enable: BOOLEAN, net_ids: ListKinds, join_euis: ListKinds]
<1>1. T!Lists \ {"blank"} = ListKinds
  BY Zenon DEF T!Lists, ListKinds
<1>2. \A f \in [enable: {TRUE}, net_ids: ListKinds, join_euis: ListKinds] :
        f \in [enable: BOOLEAN, net_ids: ListKinds, join_euis: ListKinds]
  BY Zenon
<1>3. [enable |-> FALSE, net_ids |-> "empty", join_euis |-> "empty"]
        \in [enable: BOOLEAN, net_ids: ListKinds, join_euis: ListKinds]
  BY Zenon DEF ListKinds
<1> QED
  BY <1>1, <1>2, <1>3, Zenon DEF T!Filters

LEMMA TomlConstructs ==
    ASSUME TInv, T!ConstructGet("p") \/ T!ConstructSet("p")
    PROVE  TInv'
<1>1. UNCHANGED <<conf, tmp, disk>>
  <2>1. T!Starts("p")
    BY Zenon DEF T!ConstructGet, T!ConstructSet
  <2> QED
    BY <2>1, Zenon DEF T!Starts
<1>2. CASE T!ConstructGet("p")
  <2>1. PICK secs \in T!Asked :
          proc' = [proc EXCEPT !["p"] = T!Started([T!Idle EXCEPT !.secs = secs])]
    BY <1>2, Zenon DEF T!ConstructGet
  <2> DEFINE n == [T!Idle EXCEPT !.secs = secs]
  <2>2. /\ DOMAIN n = TomlFields /\ n.pc = "idle" /\ n.outfile = 0 /\ n.answer = "none"
        /\ n.toml_data = T!Nothing /\ n.op = "get"
    BY Zenon DEF T!Idle, TomlFields
  <2> HIDE DEF n
  <2>3. n.op # "set"
    BY <2>2, Zenon
  <2> QED
    BY <1>1, <2>1, <2>2, <2>3, TomlStarted, Zenon DEF n
<1>3. CASE T!ConstructSet("p")
  <2>1. PICK secs \in T!Asked, body \in {"good", "not json", "incomplete"},
             g \in Levels, f \in T!Filters, h \in Hosts \cup {"udp"}, c \in certs \cup {""},
             i \in Intervals :
          proc' = [proc EXCEPT !["p"] = SetRequest(secs, body, g, f, h, c, i)]
    BY <1>3, Zenon DEF T!ConstructSet, SetRequest
  <2>2. f \in [enable: BOOLEAN, net_ids: ListKinds, join_euis: ListKinds]
    BY FiltersAsked, Zenon
  <2>3. i \in Nat
    BY IntervalsAssumption, Zenon
  <2> QED
    BY <1>1, <2>1, <2>2, <2>3, TomlAsks, Zenon
<1> QED
  BY <1>2, <1>3, Zenon

(* A step that leaves the request and the files' forms as they are.        *)
LEMMA TomlServed ==
    ASSUME TInv, proc' = [p \in {"p"} |-> proc'[p]], DOMAIN req' = TomlFields,
           req'.toml_data = req.toml_data, req'.secs = req.secs, req'.to = req.to,
           req'.op = req.op, disk' = [f \in Files |-> disk'[f]], tmp' \in Files \cup {0},
           FileOK(conf'),
           req'.pc \in {"idle", "stale", "built", "open", "assemble", "in", "truncate", "copy",
                        "remove"},
           req'.pc \in {"idle", "stale", "built", "open"} => req'.outfile = 0
    PROVE  Served' /\ Merged' = Merged
<1>1. /\ Merged' = Merged /\ RequestOK' = RequestOK
      /\ FileOK(req.toml_data)' = FileOK(req.toml_data)
  BY SameRequest, Zenon
<1> QED
  BY <1>1, Zenon DEF TInv, Served, Files

LEMMA TomlEarly ==
    ASSUME TInv, T!RemoveStale("p") \/ T!Get("p")
    PROVE  TInv'
<1>1. DOMAIN req = TomlFields /\ proc = [p \in {"p"} |-> proc[p]] /\ FileOK(conf)
      /\ disk = [f \in Files |-> disk[f]] /\ tmp \in Files \cup {0}
  BY Zenon DEF TInv, Served
<1>2. CASE T!RemoveStale("p")
  <2>1. /\ req.pc = "stale" /\ tmp' = 0 /\ conf' = conf /\ disk' = disk
        /\ proc' = [proc EXCEPT !["p"] = [req EXCEPT !.pc = "built"]]
    BY <1>1, <1>2, Zenon DEF T!RemoveStale, req
  <2>2. req' = [req EXCEPT !.pc = "built"] /\ proc' = [p \in {"p"} |-> proc'[p]]
    BY <2>1, NewRequest, Zenon DEF TInv
  <2>3. /\ DOMAIN req' = TomlFields /\ req'.pc = "built" /\ req'.outfile = req.outfile
        /\ req'.toml_data = req.toml_data /\ req'.secs = req.secs /\ req'.to = req.to
        /\ req'.op = req.op
    BY <1>1, <2>2, Zenon DEF TomlFields
  <2>4. req.outfile = 0
    BY <2>1 DEF TInv, Served
  <2>5. Served'
    BY <1>1, <2>1, <2>2, <2>3, <2>4, TomlServed, Zenon
  <2>6. Storing'
    BY <2>3, Zenon DEF Storing, T!Done, req
  <2> QED
    BY <2>5, <2>6, Zenon DEF TInv
<1>3. CASE T!Get("p")
  <2>1. PICK a : T!Answer("p", a)
    BY <1>3, Zenon DEF T!Get
  <2>2. /\ req.pc = "built" /\ req.op = "get" /\ tmp' = tmp /\ conf' = conf /\ disk' = disk
    BY <1>3, Zenon DEF T!Get, req
  <2> DEFINE n == [req EXCEPT !.pc = "idle", !.answer = a]
  <2>3. proc' = [proc EXCEPT !["p"] = n]
    BY <1>1, <2>1, Zenon DEF T!Answer, req
  <2>4. req' = n /\ proc' = [p \in {"p"} |-> proc'[p]]
    BY <2>3, NewRequest, Zenon DEF TInv
  <2>5. /\ DOMAIN req' = TomlFields /\ req'.pc = "idle" /\ req'.outfile = req.outfile
        /\ req'.toml_data = req.toml_data /\ req'.secs = req.secs /\ req'.to = req.to
        /\ req'.op = req.op
    BY <1>1, <2>4, Zenon DEF TomlFields
  <2>6. req.outfile = 0
    BY <2>2 DEF TInv, Served
  <2>7. Served'
    BY <1>1, <2>2, <2>4, <2>5, <2>6, TomlServed, Zenon
  <2>8. Storing'
    BY <2>2, <2>5, Zenon DEF Storing, T!Done, req
  <2> QED
    BY <2>7, <2>8, Zenon DEF TInv
<1> QED
  BY <1>2, <1>3, Zenon

LEMMA TomlMerge == ASSUME TInv, T!Merge("p") PROVE TInv'
<1>1. DOMAIN req = TomlFields /\ proc = [p \in {"p"} |-> proc[p]] /\ FileOK(conf)
      /\ disk = [f \in Files |-> disk[f]] /\ tmp \in Files \cup {0}
  BY Zenon DEF TInv, Served
<1>2. req.pc = "built" /\ req.op = "set" /\ tmp' = tmp /\ conf' = conf /\ disk' = disk
  BY Zenon DEF T!Merge, req
<1>3. req.outfile = 0
  BY <1>2, Zenon DEF TInv, Served
<1>4. CASE req.body # "good"
  <2>1. T!Answer("p", "failed")
    BY <1>4, Zenon DEF T!Merge, req
  <2> DEFINE n == [req EXCEPT !.pc = "idle", !.answer = "failed"]
  <2>2. proc' = [proc EXCEPT !["p"] = n]
    BY <1>1, <2>1, Zenon DEF T!Answer, req
  <2>3. req' = n /\ proc' = [p \in {"p"} |-> proc'[p]]
    BY <2>2, NewRequest, Zenon DEF TInv
  <2>4. /\ DOMAIN req' = TomlFields /\ req'.pc = "idle" /\ req'.outfile = req.outfile
        /\ req'.toml_data = req.toml_data /\ req'.secs = req.secs /\ req'.to = req.to
        /\ req'.op = req.op /\ req'.answer = "failed"
    BY <1>1, <2>3 DEF TomlFields
  <2>5. Served'
    BY <1>1, <1>2, <1>3, <2>3, <2>4, TomlServed, Zenon
  <2>6. Storing'
    BY <2>4, Zenon DEF Storing, T!Done, req
  <2> QED
    BY <2>5, <2>6, Zenon DEF TInv
<1>5. CASE req.body = "good"
  <2>1. proc' = [proc EXCEPT !["p"].pc = "open", !["p"].members = Merged]
    BY <1>5, Zenon DEF T!Merge, req, Merged
  <2> DEFINE n == [req EXCEPT !.pc = "open", !.members = Merged]
  <2>2. proc' = [proc EXCEPT !["p"] = n]
    BY <1>1, <2>1, Zenon DEF req
  <2>3. req' = n /\ proc' = [p \in {"p"} |-> proc'[p]]
    BY <2>2, NewRequest, Zenon DEF TInv
  <2>4. /\ DOMAIN req' = TomlFields /\ req'.pc = "open" /\ req'.outfile = req.outfile
        /\ req'.toml_data = req.toml_data /\ req'.secs = req.secs /\ req'.to = req.to
        /\ req'.op = req.op /\ req'.members = Merged
    BY <1>1, <2>3, Zenon DEF TomlFields
  <2>5. Served' /\ Merged' = Merged
    BY <1>1, <1>2, <1>3, <2>3, <2>4, TomlServed
  <2>6. Storing'
    BY <1>2, <2>4, <2>5, Zenon DEF Storing, T!Done, req
  <2> QED
    BY <2>5, <2>6, Zenon DEF TInv
<1> QED
  BY <1>4, <1>5, Zenon

(* The temporary file is emptied, or made, and then written part by part.  *)
LEMMA TomlOpens == ASSUME TInv, T!OpenOutputFile("p") PROVE TInv'
<1> DEFINE f == IF tmp # 0 THEN tmp ELSE CHOOSE g \in Files : g \notin T!InUse
           n == [req EXCEPT !.pc = "assemble", !.outfile = f, !.next = 1]
<1>1. DOMAIN req = TomlFields /\ proc = [p \in {"p"} |-> proc[p]] /\ FileOK(conf)
      /\ disk = [g \in Files |-> disk[g]] /\ tmp \in Files \cup {0}
  BY Zenon DEF TInv, Served
<1>2. req.pc = "open" /\ tmp' = f /\ conf' = conf /\ disk' = [disk EXCEPT ![f] = T!Nothing]
  BY Zenon DEF T!OpenOutputFile, req
<1>3. proc' = [proc EXCEPT !["p"].pc = "assemble", !["p"].outfile = f, !["p"].next = 1]
  BY Zenon DEF T!OpenOutputFile
<1>4. f \in Files
  <2>1. CASE tmp # 0
    BY <1>1, <2>1, Zenon
  <2>2. CASE tmp = 0
    <3>1. req.outfile = 0
      BY <1>2, Zenon DEF TInv, Served
    <3>2. T!InUse = {0}
      BY <2>2, <3>1, Zenon DEF T!InUse, req
    <3>3. 1 \in Files /\ 1 \notin T!InUse
      BY <3>2, FilesAre
    <3> QED
      BY <2>2, <3>3, Zenon
  <2> QED
    BY <2>1, <2>2, Zenon
<1> HIDE DEF f
<1>5. proc' = [proc EXCEPT !["p"] = n]
  BY <1>1, <1>3, Zenon DEF req
<1>6. req' = n /\ proc' = [p \in {"p"} |-> proc'[p]]
  BY <1>5, NewRequest, Zenon DEF TInv
<1>7. /\ DOMAIN req' = TomlFields /\ req'.pc = "assemble" /\ req'.outfile = f /\ req'.next = 1
      /\ req'.toml_data = req.toml_data /\ req'.secs = req.secs /\ req'.to = req.to
      /\ req'.op = req.op /\ req'.members = req.members
  BY <1>1, <1>6, Zenon DEF TomlFields
<1> HIDE DEF n
<1>8. disk' = [g \in Files |-> disk'[g]] /\ disk'[f] = T!Nothing
  BY <1>1, <1>2, <1>4
<1>9. Served' /\ Merged' = Merged
  BY <1>1, <1>2, <1>4, <1>6, <1>7, <1>8, TomlServed, Zenon
<1>10. T!Nothing = [s \in Prefix(1 - 1) |-> T!Assembled(s, req.members[s])]
  <2>1. 1 - 1 = 0
    BY SMTT(30)
  <2> QED
    BY <2>1, SectionsAre, Zenon DEF T!Nothing
<1>11. req.op = "set" /\ req.members = Merged
  BY <1>2, Zenon DEF TInv, Storing
<1>12. Storing'
  BY SMTT(30), <1>2, <1>4, <1>7, <1>8, <1>9, <1>10, <1>11 DEF Storing, T!Done, req, Files
<1> QED
  BY <1>9, <1>12, Zenon DEF TInv

LEMMA TomlAssembles == ASSUME TInv, T!AssembleDataPart("p") PROVE TInv'
<1> DEFINE s == T!FileOrder[req.next]
           pc == IF req.next = Len(T!FileOrder) THEN "in" ELSE req.pc
           n == [req EXCEPT !.next = req.next + 1, !.pc = pc]
<1>1. DOMAIN req = TomlFields /\ proc = [p \in {"p"} |-> proc[p]] /\ FileOK(conf)
      /\ disk = [g \in Files |-> disk[g]]
  BY Zenon DEF TInv, Served
<1>2. /\ req.pc = "assemble" /\ conf' = conf /\ tmp' = tmp
      /\ disk' = [disk EXCEPT ![req.outfile] =
                    T!With(disk[req.outfile], s, T!Assembled(s, req.members[s]))]
  BY Zenon DEF T!AssembleDataPart, req
<1>3. /\ req.op = "set" /\ req.members = Merged /\ tmp \in Files /\ req.outfile = tmp
      /\ req.next \in 1..4
      /\ disk[tmp] = [t \in Prefix(req.next - 1) |-> T!Assembled(t, req.members[t])]
  BY <1>2, Zenon DEF TInv, Storing
<1>4. proc' = [proc EXCEPT !["p"] = n]
  BY <1>1, Zenon DEF T!AssembleDataPart, req, TomlFields
<1> HIDE DEF n
<1>5. req' = n /\ proc' = [p \in {"p"} |-> proc'[p]]
  BY <1>4, NewRequest, Zenon DEF TInv
<1>6. /\ DOMAIN req' = TomlFields /\ req'.next = req.next + 1 /\ req'.outfile = req.outfile
      /\ req'.pc = IF req.next = 4 THEN "in" ELSE "assemble"
      /\ req'.toml_data = req.toml_data /\ req'.secs = req.secs /\ req'.to = req.to
      /\ req'.op = req.op /\ req'.members = req.members
  BY <1>1, <1>2, <1>5, SectionsAre, Zenon DEF TomlFields, n
<1> HIDE DEF pc
<1>7. /\ disk' = [g \in Files |-> disk'[g]]
      /\ disk'[tmp] = T!With(disk[tmp], s, T!Assembled(s, req.members[s]))
  BY <1>1, <1>2, <1>3, Zenon
<1>8. disk'[tmp] = [t \in Prefix(req.next) |-> T!Assembled(t, req.members[t])]
  BY SMTT(30), <1>3, <1>7, SectionsAre DEF T!With
<1>9. Served' /\ Merged' = Merged
  <2>1. req'.pc \in {"assemble", "in"}
    BY <1>6, Zenon
  <2> QED
    BY <1>1, <1>2, <1>3, <1>5, <1>6, <1>7, <2>1, TomlServed, Zenon
<1>10. Storing'
  <2>1. CASE req.next = 4
    <3>1. disk'[tmp] = Written(req.members)
      BY <1>8, <2>1, SectionsAre, Zenon DEF Written
    <3> QED
      BY <1>2, <1>3, <1>6, <1>9, <2>1, <3>1, Zenon DEF Storing, T!Done, req, Files
  <2>2. CASE req.next # 4
    <3>1. req'.next \in 1..4 /\ req'.next - 1 = req.next /\ req'.pc = "assemble"
      BY SMTT(30), <1>3, <1>6, <2>2
    <3> QED
      BY <1>2, <1>3, <1>6, <1>8, <1>9, <3>1, Zenon DEF Storing, T!Done, req, Files
  <2> QED
    BY <2>1, <2>2, Zenon
<1> QED
  BY <1>9, <1>10, Zenon DEF TInv

(* The file is emptied and the lines of the temporary file are copied.     *)
LEMMA TomlTruncates ==
    ASSUME TInv, T!OpenInfile("p") \/ T!TruncateConf("p")
    PROVE  TInv'
<1>1. DOMAIN req = TomlFields /\ proc = [p \in {"p"} |-> proc[p]] /\ FileOK(conf)
      /\ disk = [g \in Files |-> disk[g]] /\ tmp \in Files \cup {0}
  BY Zenon DEF TInv, Served
<1>2. CASE T!OpenInfile("p")
  <2> DEFINE lines == IF tmp = 0 THEN T!Nothing ELSE disk[tmp]
             n == [req EXCEPT !.pc = "truncate", !.lines = lines]
  <2>1. req.pc = "in" /\ conf' = conf /\ tmp' = tmp /\ disk' = disk
    BY <1>2, Zenon DEF T!OpenInfile, req
  <2>2. proc' = [proc EXCEPT !["p"] = n]
    BY <1>1, <1>2, Zenon DEF T!OpenInfile, req
  <2> HIDE DEF n
  <2>3. req.op = "set" /\ req.members = Merged /\ lines = Written(req.members)
    <3>1. /\ req.op = "set" /\ req.members = Merged
          /\ tmp \in Files /\ disk[tmp] = Written(req.members)
      BY <2>1, Zenon DEF TInv, Storing
    <3>2. tmp # 0
      BY <3>1, FilesAre, SMT
    <3> QED
      BY <3>1, <3>2, Zenon
  <2>4. req' = n /\ proc' = [p \in {"p"} |-> proc'[p]]
    BY <2>2, NewRequest, Zenon DEF TInv
  <2>5. /\ DOMAIN req' = TomlFields /\ req'.pc = "truncate" /\ req'.lines = lines
        /\ req'.toml_data = req.toml_data /\ req'.secs = req.secs /\ req'.to = req.to
        /\ req'.op = req.op /\ req'.members = req.members
    BY <1>1, <2>4, Zenon DEF TomlFields, n
  <2> HIDE DEF lines
  <2>6. Served' /\ Merged' = Merged
    BY <1>1, <2>1, <2>4, <2>5, TomlServed
  <2>7. Storing'
    BY <2>3, <2>5, <2>6, Zenon DEF Storing, T!Done, req
  <2> QED
    BY <2>6, <2>7, Zenon DEF TInv
<1>3. CASE T!TruncateConf("p")
  <2> DEFINE n == [req EXCEPT !.pc = "copy", !.next = 1]
  <2>1. req.pc = "truncate" /\ conf' = T!Nothing /\ tmp' = tmp /\ disk' = disk
    BY <1>3, Zenon DEF T!TruncateConf, req
  <2>2. proc' = [proc EXCEPT !["p"] = n]
    BY <1>1, <1>3, Zenon DEF T!TruncateConf, req
  <2>3. req.op = "set" /\ req.members = Merged /\ req.lines = Written(req.members)
    BY <2>1, Zenon DEF TInv, Storing
  <2> HIDE DEF n
  <2>4. req' = n /\ proc' = [p \in {"p"} |-> proc'[p]]
    BY <2>2, NewRequest, Zenon DEF TInv
  <2>5. /\ DOMAIN req' = TomlFields /\ req'.pc = "copy" /\ req'.lines = req.lines /\ req'.next = 1
        /\ req'.toml_data = req.toml_data /\ req'.secs = req.secs /\ req'.to = req.to
        /\ req'.op = req.op /\ req'.members = req.members
    BY <1>1, <2>4, Zenon DEF TomlFields, n
  <2>6. FileOK(conf')
    BY <2>1, Zenon DEF FileOK, T!Nothing
  <2>7. Served' /\ Merged' = Merged
    BY <1>1, <2>1, <2>4, <2>5, <2>6, TomlServed, Zenon
  <2>8. conf' = [s \in Prefix(1 - 1) |-> T!Formatted(s, req.lines[s])]
    <3>1. 1 - 1 = 0
      BY SMTT(30)
    <3> QED
      BY <2>1, <3>1, SectionsAre, Zenon DEF T!Nothing
  <2>9. Storing'
    BY SMTT(30), <2>3, <2>5, <2>7, <2>8 DEF Storing, T!Done, req
  <2> QED
    BY <2>7, <2>9, Zenon DEF TInv
<1> QED
  BY <1>2, <1>3, Zenon

LEMMA TomlCopies == ASSUME TInv, T!CopyLines("p") PROVE TInv'
<1> DEFINE s == T!FileOrder[req.next]
           pc == IF req.next = Len(T!FileOrder) THEN "remove" ELSE req.pc
           n == [req EXCEPT !.next = req.next + 1, !.pc = pc]
<1>1. DOMAIN req = TomlFields /\ proc = [p \in {"p"} |-> proc[p]] /\ FileOK(conf)
      /\ disk = [g \in Files |-> disk[g]] /\ tmp \in Files \cup {0}
      /\ FileOK(req.toml_data) /\ RequestOK
  BY Zenon DEF TInv, Served
<1>2. /\ req.pc = "copy" /\ tmp' = tmp /\ disk' = disk
      /\ conf' = IF s \in DOMAIN req.lines
                 THEN T!With(conf, s, T!Formatted(s, req.lines[s])) ELSE conf
  BY Zenon DEF T!CopyLines, req
<1>3. /\ req.op = "set" /\ req.members = Merged /\ req.lines = Written(req.members)
      /\ req.next \in 1..4
      /\ conf = [t \in Prefix(req.next - 1) |-> T!Formatted(t, req.lines[t])]
  BY <1>2, Zenon DEF TInv, Storing
<1>4. proc' = [proc EXCEPT !["p"] = n]
  BY <1>1, Zenon DEF T!CopyLines, req, TomlFields
<1> HIDE DEF n
<1>5. req' = n /\ proc' = [p \in {"p"} |-> proc'[p]]
  BY <1>4, NewRequest, Zenon DEF TInv
<1>6. /\ DOMAIN req' = TomlFields /\ req'.next = req.next + 1 /\ req'.lines = req.lines
      /\ req'.pc = IF req.next = 4 THEN "remove" ELSE "copy"
      /\ req'.toml_data = req.toml_data /\ req'.secs = req.secs /\ req'.to = req.to
      /\ req'.op = req.op /\ req'.members = req.members
  BY <1>1, <1>2, <1>5, SectionsAre DEF TomlFields, n
<1> HIDE DEF pc
<1>7. conf' = [t \in Prefix(req.next) |-> T!Formatted(t, req.lines[t])]
  <2>1. s \in DOMAIN req.lines
    BY SMTT(30), <1>3, SectionsAre DEF Written
  <2> QED
    BY <1>2, <1>3, <2>1, SectionsAre, Zenon DEF T!With
<1>8. \A t \in T!Sections : req.lines[t] = T!Assembled(t, req.members[t])
  BY <1>3, Zenon DEF Written
<1>9. Prefix(req.next) \subseteq T!Sections
  BY SMTT(30), <1>3, SectionsAre DEF Prefix
<1>10. FileOK(conf')
  <2>1. MembersOK(req.members)
    BY <1>1, <1>3, MergedOK, Zenon
  <2>2. \A t \in DOMAIN conf' : conf'[t] = T!Formatted(t, T!Assembled(t, req.members[t]))
    BY <1>7, <1>8, <1>9, Zenon
  <2>3. DOMAIN conf' \subseteq T!Sections
    BY <1>7, <1>9, Zenon
  <2> QED
    BY <2>1, <2>2, <2>3, ImageOK, Zenon
<1>11. Served' /\ Merged' = Merged
  <2>1. req'.pc \in {"copy", "remove"}
    BY <1>6, Zenon
  <2> QED
    BY <1>1, <1>2, <1>5, <1>6, <1>10, <2>1, TomlServed, Zenon
<1>12. Storing'
  <2>1. CASE req.next = 4
    <3>1. conf' = Image(req.members)
      BY <1>7, <1>8, <2>1, SectionsAre, Zenon DEF Image
    <3>2. req'.pc = "remove"
      BY <1>6, <2>1, Zenon
    <3> QED
      BY <1>3, <1>6, <1>11, <3>1, <3>2, Zenon DEF Storing, T!Done, req
  <2>2. CASE req.next # 4
    <3>1. req'.next \in 1..4 /\ req'.next - 1 = req.next /\ req'.pc = "copy"
      BY SMTT(30), <1>3, <1>6, <2>2
    <3> QED
      BY <1>3, <1>6, <1>7, <1>11, <3>1, Zenon DEF Storing, T!Done, req
  <2> QED
    BY <2>1, <2>2, Zenon
<1> QED
  BY <1>11, <1>12, Zenon DEF TInv

LEMMA TomlEnds ==
    ASSUME TInv, T!RemoveTmp("p") \/ T!Kill("p")
    PROVE  TInv'
<1>1. DOMAIN req = TomlFields /\ proc = [p \in {"p"} |-> proc[p]] /\ FileOK(conf)
      /\ disk = [g \in Files |-> disk[g]] /\ tmp \in Files \cup {0}
  BY Zenon DEF TInv, Served
<1>2. CASE T!RemoveTmp("p")
  <2> DEFINE n == [req EXCEPT !.pc = "idle", !.answer = "success", !.members = T!Members,
                              !.outfile = 0, !.lines = T!Nothing, !.next = 1]
  <2>1. req.pc = "remove" /\ conf' = conf /\ tmp' = 0 /\ disk' = disk
    BY <1>2, Zenon DEF T!RemoveTmp, req
  <2>2. proc' = [proc EXCEPT !["p"] = n]
    BY <1>1, <1>2, Zenon DEF T!RemoveTmp, req
  <2>3. req.op = "set" /\ conf = Image(Merged)
    BY <2>1, Zenon DEF TInv, Storing
  <2> HIDE DEF n
  <2>4. req' = n /\ proc' = [p \in {"p"} |-> proc'[p]]
    BY <2>2, NewRequest, Zenon DEF TInv
  <2>5. /\ DOMAIN req' = TomlFields /\ req'.pc = "idle" /\ req'.outfile = 0
        /\ req'.toml_data = req.toml_data /\ req'.secs = req.secs /\ req'.to = req.to
        /\ req'.op = req.op
    BY <1>1, <2>4, Zenon DEF TomlFields, n
  <2>6. Served' /\ Merged' = Merged
    BY <1>1, <2>1, <2>4, <2>5, TomlServed
  <2>7. Storing'
    BY <2>1, <2>3, <2>5, <2>6, Zenon DEF Storing, T!Done, req
  <2> QED
    BY <2>6, <2>7, Zenon DEF TInv
<1>3. CASE T!Kill("p")
  <2> DEFINE n == [T!Idle EXCEPT !.answer = "killed"]
  <2>1. proc' = [proc EXCEPT !["p"] = n] /\ conf' = conf /\ tmp' = tmp /\ disk' = disk
    BY <1>3, Zenon DEF T!Kill
  <2>2. /\ DOMAIN n = TomlFields /\ n.pc = "idle" /\ n.op = "get" /\ n.outfile = 0
        /\ n.toml_data = T!Nothing
    BY Zenon DEF T!Idle, TomlFields
  <2> HIDE DEF n
  <2>3. req' = n /\ proc' = [p \in {"p"} |-> proc'[p]]
    BY <2>1, NewRequest, Zenon DEF TInv
  <2>4. FileOK(req.toml_data)'
    BY <2>2, <2>3, Zenon DEF FileOK, T!Nothing
  <2>5. Served'
    BY <1>1, <2>1, <2>2, <2>3, <2>4, Zenon DEF Served, RequestOK, Files
  <2>6. Storing'
    BY <2>2, <2>3, Zenon DEF Storing, T!Done, req
  <2> QED
    BY <2>5, <2>6, Zenon DEF TInv
<1> QED
  BY <1>2, <1>3, Zenon

LEMMA TomlElsewhere == ASSUME TInv, UNCHANGED <<conf, tmp, disk, proc>> PROVE TInv'
<1>1. req' = req
  BY Zenon DEF req
<1>2. Merged' = Merged /\ RequestOK' = RequestOK
      /\ FileOK(req.toml_data)' = FileOK(req.toml_data)
  BY <1>1, SameRequest, Zenon
<1>3. Served'
  BY <1>1, <1>2, Zenon DEF TInv, Served, Files
<1>4. Storing'
  BY <1>1, <1>2, Zenon DEF TInv, Storing, T!Done, req, Files
<1> QED
  BY <1>3, <1>4, Zenon DEF TInv

LEMMA TomlKept == ASSUME TInv, T!Next PROVE TInv'
<1>1. ASSUME NEW c \in Certs, T!Upload(c) PROVE TInv'
  BY <1>1, TomlElsewhere, Zenon DEF T!Upload
<1> QED
  BY SMTT(30), <1>1, TomlConstructs, TomlEarly, TomlMerge, TomlOpens, TomlAssembles, TomlTruncates,
     TomlCopies, TomlEnds DEF T!Next

LEMMA TomlInvariant == SpecOne => [](which = "toml" => TInv)
<1>1. Init => (which = "toml" => TInv)
  BY TomlBegins, Zenon DEF Init
<1>2. (which = "toml" => TInv) /\ [Next]_vars => (which = "toml" => TInv)'
  <2> SUFFICES ASSUME which = "toml" => TInv, [Next]_vars, which' = "toml" PROVE TInv'
    BY Zenon
  <2>1. CASE UNCHANGED vars
    BY <2>1, TomlElsewhere, Zenon DEF vars, shared, tomlVars
  <2>2. CASE T!Next
    BY <2>2, OneProgram, TomlKept, Zenon
  <2> QED
    BY <2>1, <2>2, OneProgram, Zenon
<1> QED
  BY <1>1, <1>2, PTL DEF SpecOne

----------------------------------------------------------------------------
(* What the image of a list, and of a filter, filters.                     *)
LEMMA FilterWritten ==
    ASSUME NEW m \in [enable: BOOLEAN, net_ids: ListKinds, join_euis: ListKinds]
    PROVE  LET v == T!Formatted("filters", T!Assembled("filters", m))
           IN  \A l \in {"net_ids", "join_euis"} : v[l] = "some" <=> m.enable /\ m[l] = "some"
<1> DEFINE a == T!Assembled("filters", m)
           v == T!Formatted("filters", a)
<1>1. v = [l \in DOMAIN a |-> IF a[l] = "empty" THEN "blank" ELSE a[l]]
  BY Zenon DEF T!Formatted
<1>2. CASE m.enable
  <2>1. a = [net_ids |-> m.net_ids, join_euis |-> m.join_euis]
    BY <1>2, Zenon DEF T!Assembled
  <2>2. v["net_ids"] = (IF m.net_ids = "empty" THEN "blank" ELSE m.net_ids)
        /\ v["join_euis"] = (IF m.join_euis = "empty" THEN "blank" ELSE m.join_euis)
    BY SMTT(30), <1>1, <2>1
  <2> QED
    BY <1>2, <2>2, Zenon DEF ListKinds
<1>3. CASE ~ m.enable
  <2>1. a = [net_ids |-> "empty", join_euis |-> "empty"]
    BY <1>3, Zenon DEF T!Assembled
  <2>2. v["net_ids"] = "blank" /\ v["join_euis"] = "blank"
    BY SMTT(30), <1>1, <2>1
  <2> QED
    BY <1>3, <2>2, Zenon
<1> QED
  BY <1>2, <1>3, Zenon

LEMMA ImageIs ==
    ASSUME NEW m
    PROVE  /\ DOMAIN Image(m) = T!Sections
           /\ Image(m)["general"] = m["general"] /\ Image(m)["backend"] = m["backend"]
           /\ Image(m)["integration"] = [m["integration"] EXCEPT !.interval = T!SecToString(@)]
           /\ Image(m)["filters"] = T!Formatted("filters", T!Assembled("filters", m["filters"]))
BY SectionsAre, Zenon DEF Image, T!Formatted, T!Assembled

LEMMA MergedIs ==
    ASSUME FileOK(req.toml_data), RequestOK, req.op = "set"
    PROVE  LET m == T!ParseForEach(req.toml_data)
           IN  /\ MembersOK(m) /\ MembersOK(Merged)
               /\ Merged["general"] = IF "general" \in req.secs THEN req.to["general"]
                                      ELSE m["general"]
               /\ Merged["filters"] = IF "filters" \in req.secs
                    THEN T!ParseRemoteFilters(m["filters"], req.to["filters"])
                    ELSE m["filters"]
               /\ Merged["backend"] = IF "backend" \in req.secs
                    THEN T!ParseRemoteBackend(m["backend"], req.to["backend"])
                    ELSE m["backend"]
               /\ Merged["integration"] = IF "integration" \in req.secs
                    THEN T!ParseRemoteIntegration(req.to["integration"])
                    ELSE m["integration"]
<1> DEFINE m == T!ParseForEach(req.toml_data)
<1>1. MembersOK(m) /\ MembersOK(Merged)
  BY ParsedOK, MergedOK, Zenon
<1> HIDE DEF m
<1>2. \A s \in T!Sections : Merged[s] = IF s \in req.secs THEN T!ParseRemote(s, m[s], req.to[s])
                                                          ELSE m[s]
  BY Zenon DEF Merged, m
<1>3. Merged["general"] = IF "general" \in req.secs THEN req.to["general"] ELSE m["general"]
  BY <1>2, SectionsAre, Zenon DEF T!ParseRemote
<1>4. Merged["filters"] = IF "filters" \in req.secs
        THEN T!ParseRemoteFilters(m["filters"], req.to["filters"]) ELSE m["filters"]
  BY <1>2, SectionsAre, Zenon DEF T!ParseRemote
<1>5. Merged["backend"] = IF "backend" \in req.secs
        THEN T!ParseRemoteBackend(m["backend"], req.to["backend"]) ELSE m["backend"]
  BY <1>2, SectionsAre, Zenon DEF T!ParseRemote
<1>6. Merged["integration"] = IF "integration" \in req.secs
        THEN T!ParseRemoteIntegration(req.to["integration"]) ELSE m["integration"]
  BY <1>2, SectionsAre, Zenon DEF T!ParseRemote
<1> QED
  BY SMTT(30), <1>1, <1>3, <1>4, <1>5, <1>6 DEF m

(* A SET of cgi-cpp that is answered with success has stored what it asked *)
(* for in lorabridge.toml, whole: for requests one at a time, whatever     *)
(* earlier ones were asked for and wherever they were ended.               *)
THEOREM SetIsStored == SpecOne => []SetStores
<1>1. ASSUME which = "toml" => TInv PROVE SetStores
  <2> SUFFICES ASSUME TInv, T!Done("p") PROVE
        /\ DOMAIN conf = T!Sections
        /\ "general" \in req.secs => conf["general"] = req.to["general"]
        /\ "filters" \in req.secs =>
             T!Filtering(conf["filters"]) = (IF req.to["filters"].enable
                                             THEN T!Filtering(req.to["filters"]) ELSE {})
        /\ "backend" \in req.secs =>
             IF req.to["backend"] = "udp" THEN conf["backend"].type = "semtech_udp"
             ELSE conf["backend"] = [type |-> "basic_station", host |-> req.to["backend"],
                                     port |-> T!Port]
        /\ "integration" \in req.secs =>
             /\ conf["integration"].ca_cert = req.to["integration"].ca_cert
             /\ T!StringToSec(conf["integration"].interval) = req.to["integration"].interval
    BY <1>1, Zenon DEF SetStores, T!SetStores, req
  <2>1. FileOK(req.toml_data) /\ RequestOK /\ req.op = "set" /\ conf = Image(Merged)
    BY Zenon DEF TInv, Served, Storing, T!Done, req
  <2> DEFINE m == T!ParseForEach(req.toml_data)
  <2>2. /\ MembersOK(m) /\ MembersOK(Merged)
        /\ "general" \in req.secs => Merged["general"] = req.to["general"]
        /\ "filters" \in req.secs =>
             Merged["filters"] = T!ParseRemoteFilters(m["filters"], req.to["filters"])
        /\ "backend" \in req.secs =>
             Merged["backend"] = T!ParseRemoteBackend(m["backend"], req.to["backend"])
        /\ "integration" \in req.secs =>
             Merged["integration"] = T!ParseRemoteIntegration(req.to["integration"])
    BY <2>1, MergedIs, Zenon
  <2> HIDE DEF m
  <2>3. /\ DOMAIN conf = T!Sections
        /\ conf["general"] = Merged["general"] /\ conf["backend"] = Merged["backend"]
        /\ conf["integration"] = [Merged["integration"] EXCEPT !.interval = T!SecToString(@)]
        /\ conf["filters"] = T!Formatted("filters", T!Assembled("filters", Merged["filters"]))
    BY <2>1, ImageIs, Zenon
  <2>4. ASSUME "filters" \in req.secs
        PROVE  T!Filtering(conf["filters"]) = (IF req.to["filters"].enable
                                               THEN T!Filtering(req.to["filters"]) ELSE {})
    <3>1. \A l \in {"net_ids", "join_euis"} : conf["filters"][l] = "some" <=>
            Merged["filters"].enable /\ Merged["filters"][l] = "some"
      BY <2>2, <2>3, FilterWritten DEF MembersOK
    <3>2. m["filters"] \in [enable: BOOLEAN, net_ids: ListKinds, join_euis: ListKinds]
      BY <2>2, Zenon DEF MembersOK
    <3>3. CASE req.to["filters"].enable
      <4>1. Merged["filters"] = req.to["filters"]
        BY <2>2, <2>4, <3>3, Zenon DEF T!ParseRemoteFilters
      <4> QED
        BY <3>1, <3>3, <4>1, Zenon DEF T!Filtering
    <3>4. CASE ~ req.to["filters"].enable
      <4>1. Merged["filters"] = [m["filters"] EXCEPT !.enable = FALSE]
        BY <2>2, <2>4, <3>4, Zenon DEF T!ParseRemoteFilters
      <4>2. ~ Merged["filters"].enable
        BY <3>2, <4>1, Zenon
      <4> QED
        BY <3>1, <3>4, <4>2, Zenon DEF T!Filtering
    <3> QED
      BY <3>3, <3>4, Zenon
  <2>5. ASSUME "backend" \in req.secs
        PROVE  IF req.to["backend"] = "udp" THEN conf["backend"].type = "semtech_udp"
               ELSE conf["backend"] = [type |-> "basic_station", host |-> req.to["backend"],
                                       port |-> T!Port]
    BY <2>2, <2>3, <2>5 DEF T!ParseRemoteBackend, MembersOK
  <2>6. ASSUME "integration" \in req.secs
        PROVE  /\ conf["integration"].ca_cert = req.to["integration"].ca_cert
               /\ T!StringToSec(conf["integration"].interval) = req.to["integration"].interval
    <3>1. /\ DOMAIN Merged["integration"] = {"type", "ca_cert", "interval"}
          /\ Merged["integration"].ca_cert = req.to["integration"].ca_cert
          /\ Merged["integration"].interval = req.to["integration"].interval
      BY SMTT(30), <2>2, <2>6 DEF T!ParseRemoteIntegration
    <3>2. req.to["integration"].interval \in Nat
      BY <2>1, <2>6, Zenon DEF RequestOK
    <3>3. /\ conf["integration"].ca_cert = Merged["integration"].ca_cert
          /\ conf["integration"].interval = T!SecToString(Merged["integration"].interval)
      BY <2>3, <3>1, Zenon
    <3> QED
      BY <3>1, <3>2, <3>3, IntervalRoundTrip, Zenon
  <2> QED
    BY <2>2, <2>3, <2>4, <2>5, <2>6, Zenon
<1> QED
  BY <1>1, TomlInvariant, PTL

(* ... and has left every other section as it was, but for the two forms   *)
(* that the parsers drop: a bind without a host, and one list of the two   *)
(* of the filter.                                                          *)
THEOREM OthersAreKept == SpecOne => []OthersKept
<1>1. ASSUME which = "toml" => TInv PROVE OthersKept
  <2> DEFINE old == req.toml_data
             m == T!ParseForEach(old)
  <2> SUFFICES ASSUME TInv, T!Done("p"), T!Whole(old) PROVE
        /\ \A s \in {"general", "integration"} \ req.secs : conf[s] = old[s]
        /\ old["backend"].host # "" /\ "backend" \notin req.secs =>
             conf["backend"] = old["backend"]
        /\ "blank" \notin {old["filters"].net_ids, old["filters"].join_euis}
             /\ "filters" \notin req.secs =>
             T!Filtering(conf["filters"]) = T!Filtering(old["filters"])
    BY <1>1, Zenon DEF OthersKept, T!OthersKept, T!KeepsBackend, T!KeepsFilters, req
  <2>1. FileOK(old) /\ RequestOK /\ req.op = "set" /\ conf = Image(Merged)
    BY Zenon DEF TInv, Served, Storing, T!Done, req
  <2>2. DOMAIN old \cap T!Sections = T!Sections
    BY Zenon DEF T!Whole, T!ParseThrows
  <2>3. /\ MembersOK(m) /\ MembersOK(Merged)
        /\ "general" \notin req.secs => Merged["general"] = m["general"]
        /\ "filters" \notin req.secs => Merged["filters"] = m["filters"]
        /\ "backend" \notin req.secs => Merged["backend"] = m["backend"]
        /\ "integration" \notin req.secs => Merged["integration"] = m["integration"]
    BY <2>1, MergedIs, Zenon
  <2>4. /\ m["general"] = old["general"]
        /\ m["filters"] = T!ParseFilters(old["filters"])
        /\ m["backend"] = T!ParseBackend(old["backend"])
        /\ m["integration"] = T!ParseIntegration(old["integration"])
    BY ParsedIs, SectionsAre DEF Parsed
  <2> HIDE DEF m
  <2>5. /\ conf["general"] = Merged["general"] /\ conf["backend"] = Merged["backend"]
        /\ conf["integration"] = [Merged["integration"] EXCEPT !.interval = T!SecToString(@)]
        /\ conf["filters"] = T!Formatted("filters", T!Assembled("filters", Merged["filters"]))
    BY <2>1, ImageIs, Zenon
  <2>6. /\ old["filters"] \in [net_ids: T!Lists, join_euis: T!Lists]
        /\ DOMAIN old["integration"] = {"type", "ca_cert", "interval"}
        /\ old["integration"].interval \in Spelled
        /\ old["integration"] = [i \in DOMAIN old["integration"] |-> old["integration"][i]]
    <3> HIDE DEF old
    <3>1. "filters" \in DOMAIN old /\ "integration" \in DOMAIN old
      BY <2>2, SectionsAre, Zenon
    <3> QED
      BY <2>1, <3>1, Zenon DEF FileOK
  <2> HIDE DEF old
  <2>7. ASSUME "integration" \notin req.secs PROVE conf["integration"] = old["integration"]
    <3> DEFINE x == old["integration"]
               y == T!StringToSec(x.interval)
    <3>1. T!SecToString(y) = x.interval
      BY <2>6, IntervalRoundTrip, Zenon DEF Spelled
    <3>2. m["integration"] = [x EXCEPT !.interval = y]
      BY <2>4, <2>6, Zenon DEF T!ParseIntegration
    <3>3. conf["integration"] = [m["integration"] EXCEPT !.interval = T!SecToString(y)]
      BY <2>3, <2>5, <2>6, <2>7, <3>2, Zenon
    <3>4. conf["integration"] = [x EXCEPT !.interval = x.interval]
      BY <2>6, <3>1, <3>2, <3>3, Zenon
    <3> QED
      BY <2>6, <3>4, Zenon
  <2>8. ASSUME old["backend"].host # "", "backend" \notin req.secs
        PROVE  conf["backend"] = old["backend"]
    BY <2>3, <2>4, <2>5, <2>8, Zenon DEF T!ParseBackend
  <2>9. ASSUME old["filters"].net_ids # "blank", old["filters"].join_euis # "blank",
               "filters" \notin req.secs
        PROVE  T!Filtering(conf["filters"]) = T!Filtering(old["filters"])
    <3>1. m["filters"] = [enable |-> TRUE, net_ids |-> old["filters"].net_ids,
                          join_euis |-> old["filters"].join_euis]
      BY <2>4, <2>9, Zenon DEF T!ParseFilters
    <3>2. \A l \in {"net_ids", "join_euis"} : conf["filters"][l] = "some" <=>
            m["filters"].enable /\ m["filters"][l] = "some"
      BY <2>3, <2>5, <2>9, FilterWritten DEF MembersOK
    <3>3. /\ m["filters"].enable
          /\ \A l \in {"net_ids", "join_euis"} : m["filters"][l] = old["filters"][l]
      BY SMTT(30), <3>1
    <3> QED
      BY <3>2, <3>3, Zenon DEF T!Filtering
  <2>10. "general" \notin req.secs => conf["general"] = old["general"]
    BY <2>3, <2>4, <2>5, Zenon
  <2> QED
    BY <2>7, <2>8, <2>9, <2>10, Zenon
<1> QED
  BY <1>1, TomlInvariant, PTL

=============================================================================
