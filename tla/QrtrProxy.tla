------------------------------ MODULE QrtrProxy ------------------------------
(***************************************************************************)
(* quectel-qrtr-proxy: QMI clients on a local socket share a modem that is *)
(* reached over QRTR.  The proxy answers the control requests by itself:   *)
(* a QMI client id is an entry of its own, with a QRTR port that stands    *)
(* for it at the modem.  One thread serves the device and the sockets,     *)
(* main starts it, waits for the modem's services, offers the socket, and  *)
(* begins again when the device is lost.                                   *)
(*                                                                         *)
(* An entry and a request are known by the number of the request that made *)
(* them.  What is written to a client arrives; a write to a socket whose   *)
(* other end is closed ends the process, which does not ignore SIGPIPE.    *)
(***************************************************************************)
EXTENDS QrtrIds, Sequences

CONSTANTS Fds,         \* descriptors of clients
          NumServices, \* QMI services of the modem
          MaxPolled,   \* connections that fit into pollfds, 30
          MaxConnects, MaxGets, MaxData, MaxTroubles  \* bounds

VARIABLES
  phase,             \* main: "closed", "init", "serving" (the socket is there), "dead"
  loop,              \* the thread runs
  qrtr_server_list,  \* service and port, in the order announced
  cons,              \* qrtr_proxy_connection: descriptors in the order accepted
  clients,           \* the entries of all client_qnode
  client_bitmap, port_bitmap,
  link,              \* a client: "none", "backlog", "open", "gone" (has closed its end)
  c2p,               \* the request a client has written, if any
  where,             \* the port of a service at the modem, 0 if it is not there
  atModem,           \* requests the modem has not answered
  fromDev,           \* what the modem has sent
  got,               \* history: answers: whose entry, whose request, whether that had one
  connects, gets, data, troubles

vars == <<phase, loop, qrtr_server_list, cons, clients, client_bitmap, port_bitmap, link, c2p,
          where, atModem, fromDev, got, connects, gets, data, troubles>>
tables == <<clients, client_bitmap, port_bitmap>>
budgets == <<connects, gets, data, troubles>>

Services == 1..NumServices
None == [kind |-> "none", type |-> 0, id |-> 0, n |-> 0]

Init ==
  /\ phase = "closed" /\ loop = FALSE
  /\ qrtr_server_list = <<>> /\ cons = <<>> /\ clients = {}
  /\ client_bitmap = [i \in IdPlaces |-> 0] /\ port_bitmap = [i \in PortPlaces |-> 0]
  /\ link = [fd \in Fds |-> "none"] /\ c2p = [fd \in Fds |-> None]
  /\ where = [s \in Services |-> 1] /\ atModem = {} /\ fromDev = <<>> /\ got = {}
  /\ connects = 0 /\ gets = 0 /\ data = 0 /\ troubles = 0

\* find_qrtr_service: the oldest entry.
Known(s) == {i \in 1..Len(qrtr_server_list) : qrtr_server_list[i].service = s}
find_qrtr_service(s) == qrtr_server_list[First(Known(s))]

Entries(fd) == {e \in clients : e.fd = fd}
Working == {e \in clients : e.id # 0}
Polled(fd) == \E i \in 1..Len(cons) : i <= MaxPolled /\ cons[i] = fd

----------------------------------------------------------------------------
\* The modem.

Announcement(kind, s) == [kind |-> kind, service |-> s, port |-> where[s], n |-> 0]

\* A service goes, or goes and comes back on another port.
ServiceMoves(s) ==
  /\ where[s] # 0 /\ troubles < MaxTroubles
  /\ troubles' = troubles + 1
  /\ \E back \in BOOLEAN :
       LET port == IF back THEN where[s] + 1 ELSE 0 IN
       /\ where' = [where EXCEPT ![s] = port]
       /\ fromDev' = IF ~ loop THEN fromDev
                     ELSE fromDev \o <<Announcement("del", s)>> \o
                          (IF back THEN <<[Announcement("new", s) EXCEPT !.port = port]>>
                           ELSE <<>>)
  /\ UNCHANGED <<phase, loop, qrtr_server_list, cons, tables, link, c2p, atModem, got,
                 connects, gets, data>>

\* A request to a port where the service no longer is has no answer.
Answers ==
  /\ \E q \in atModem :
       /\ atModem' = atModem \ {q}
       /\ fromDev' = IF where[q.type] # q.to THEN fromDev
                     ELSE Append(fromDev, [kind |-> "data", service |-> q.type,
                                           port |-> q.port, n |-> q.n])
  /\ UNCHANGED <<phase, loop, qrtr_server_list, cons, tables, link, c2p, where, got, budgets>>

----------------------------------------------------------------------------
\* The clients.

Connect(fd) ==
  /\ phase = "serving" /\ link[fd] = "none" /\ connects < MaxConnects
  /\ connects' = connects + 1
  /\ link' = [link EXCEPT ![fd] = "backlog"]
  /\ UNCHANGED <<phase, loop, qrtr_server_list, cons, tables, c2p, where, atModem, fromDev,
                 got, gets, data, troubles>>

\* A client asks for ids, and uses and releases those it was given.  Of the other
\* requests, version is answered and sync is not.
Requests(fd) ==
  [kind : {"get"}, type : Services, id : {0}, n : {gets + 1}]
    \cup {[kind |-> k, type |-> e.type, id |-> e.id, n |-> e.n] :
             k \in {"release", "data"}, e \in Entries(fd) \cap Working}
    \cup {[None EXCEPT !.kind = "other"]}

Send(fd) ==
  /\ link[fd] = "open" /\ c2p[fd] = None
  /\ \E r \in Requests(fd) :
       /\ r.kind = "data" => data < MaxData
       /\ r.kind = "get" => gets < MaxGets
       /\ data' = IF r.kind = "data" THEN data + 1 ELSE data
       /\ gets' = IF r.kind = "get" THEN gets + 1 ELSE gets
       /\ c2p' = [c2p EXCEPT ![fd] = r]
  /\ UNCHANGED <<phase, loop, qrtr_server_list, cons, tables, link, where, atModem, fromDev,
                 got, connects, troubles>>

Leaves(fd) ==
  /\ link[fd] = "open"
  /\ link' = [link EXCEPT ![fd] = "gone"]
  /\ UNCHANGED <<phase, loop, qrtr_server_list, cons, tables, c2p, where, atModem, fromDev,
                 got, budgets>>

----------------------------------------------------------------------------
\* The thread.

\* The descriptors in S are closed by the proxy.
Closed(S) == /\ link' = [fd \in Fds |-> IF fd \in S THEN "none" ELSE link[fd]]
             /\ c2p' = [fd \in Fds |-> IF fd \in S THEN None ELSE c2p[fd]]

\* SIGPIPE
Killed ==
  /\ phase' = "dead" /\ loop' = FALSE
  /\ cons' = <<>> /\ clients' = {} /\ Closed(Fds)
  /\ UNCHANGED <<client_bitmap, port_bitmap, qrtr_server_list, where, atModem, fromDev, got,
                 budgets>>

accept_qrtr_connection(fd) ==
  /\ loop /\ phase = "serving" /\ link[fd] = "backlog"
  /\ link' = [link EXCEPT ![fd] = "open"]
  /\ cons' = Append(cons, fd)
  /\ UNCHANGED <<phase, loop, qrtr_server_list, tables, c2p, where, atModem, fromDev, got,
                 budgets>>

\* A bug: the port is not given back.
ReleaseKeepsPort(E) ==
  /\ clients' = clients \ E
  /\ client_bitmap' = FreedAll(client_bitmap, {e.id : e \in E})
  /\ UNCHANGED port_bitmap

\* release_qrtr_client_id for the entries in E; the modem is told, which may have
\* answered before.
release_qrtr_client_id(E) ==
  /\ clients' = clients \ E
  /\ client_bitmap' = FreedAll(client_bitmap, {e.id : e \in E})
  /\ port_bitmap' = FreedAll(port_bitmap, {e.port : e \in E})

\* A bug: only the connection is forgotten.
CleanupKeepsIds(fd) ==
  /\ loop /\ link[fd] = "gone" /\ Polled(fd)
  /\ cons' = SelectSeq(cons, LAMBDA x : x # fd)
  /\ link' = [link EXCEPT ![fd] = "none"]
  /\ c2p' = [c2p EXCEPT ![fd] = None]
  /\ UNCHANGED <<phase, loop, qrtr_server_list, tables, where, atModem, fromDev, got, budgets>>

\* The client has hung up, and its descriptor is among those polled.
cleanup_qrtr_connection(fd) ==
  /\ loop /\ link[fd] = "gone" /\ Polled(fd)
  /\ cons' = SelectSeq(cons, LAMBDA x : x # fd)
  /\ release_qrtr_client_id(Entries(fd))
  /\ Closed({fd})
  /\ UNCHANGED <<phase, loop, qrtr_server_list, where, atModem, fromDev, got, budgets>>

\* The entry is listed also when no id is left, and takes a port.
alloc_qrtr_client_id(fd, r) ==
  /\ clients' = clients \cup {[fd |-> fd, n |-> r.n, type |-> r.type,
                               id |-> Alloc(client_bitmap), port |-> Alloc(port_bitmap)]}
  /\ client_bitmap' = Marked(client_bitmap)
  /\ port_bitmap' = Marked(port_bitmap)

\* QMICTL_GET_CLIENT_ID_REQ, QMICTL_RELEASE_CLIENT_ID_REQ and the others.
Control(fd, r) ==
  CASE r.kind = "get" /\ Known(r.type) # {} -> alloc_qrtr_client_id(fd, r)
    [] r.kind = "release" ->
         release_qrtr_client_id({e \in Entries(fd) : e.type = r.type /\ e.id = r.id})
    [] OTHER -> UNCHANGED tables

\* A request goes to the port that find_qrtr_service has, from the port of the entry.
Forwarded(fd, r) ==
  {[port |-> e.port, type |-> r.type, to |-> find_qrtr_service(r.type).port, n |-> e.n] :
      e \in {x \in Entries(fd) : x.type = r.type /\ x.id = r.id /\ Known(r.type) # {}}}

\* A client may have closed its end after poll returned.
recv_qmi_from_client(fd) ==
  LET r == c2p[fd] IN
  /\ loop /\ Polled(fd) /\ r # None
  /\ \/ /\ link[fd] = "gone" /\ r.kind # "data" /\ Killed
     \/ /\ link[fd] = "open" \/ r.kind \in {"data", "other"}
        /\ c2p' = [c2p EXCEPT ![fd] = None]
        /\ Control(fd, r)
        /\ atModem' = IF r.kind = "data" THEN atModem \cup Forwarded(fd, r) ELSE atModem
        /\ UNCHANGED <<phase, loop, qrtr_server_list, cons, link, where, fromDev, got, budgets>>

\* DEL_SERVER takes out of the list an element that was never in it.
handle_server_change(m) ==
  qrtr_server_list' = IF m.kind = "new"
                      THEN Append(qrtr_server_list, [service |-> m.service, port |-> m.port])
                      ELSE qrtr_server_list

\* Data goes to every entry with the port.
recv_qrtr_from_dev ==
  /\ loop /\ fromDev # <<>>
  /\ LET m == Head(fromDev)
         to == {e \in clients : m.kind = "data" /\ e.port = m.port}
     IN  \/ /\ \E e \in to : link[e.fd] = "gone"
            /\ Killed
         \/ /\ \A e \in to : link[e.fd] # "gone"
            /\ fromDev' = Tail(fromDev)
            /\ handle_server_change(m)
            /\ got' = got \cup {[at |-> e.n, for |-> m.n, live |-> \E f \in clients : f.n = m.n] :
                                  e \in to}
            /\ UNCHANGED <<phase, loop, cons, tables, link, c2p, where, atModem, budgets>>

\* The device hangs up: the thread closes every connection and ends.
DeviceLost ==
  /\ loop /\ troubles < MaxTroubles
  /\ troubles' = troubles + 1
  /\ loop' = FALSE
  /\ release_qrtr_client_id(clients)
  /\ Closed({fd \in Fds : link[fd] # "backlog"})
  /\ cons' = <<>> /\ atModem' = {} /\ fromDev' = <<>>
  /\ UNCHANGED <<phase, qrtr_server_list, where, got, connects, gets, data>>

----------------------------------------------------------------------------
\* main.

\* The modem answers the hello with the services it has.
OpenDevice ==
  /\ phase = "closed"
  /\ phase' = "init" /\ loop' = TRUE
  /\ qrtr_server_list' = <<>> /\ cons' = <<>> /\ atModem' = {}
  /\ \E n \in 0..NumServices : \E order \in [1..n -> Services] :
       /\ {order[i] : i \in 1..n} = {s \in Services : where[s] # 0}
       /\ \A i, j \in 1..n : order[i] = order[j] => i = j
       /\ fromDev' = [i \in 1..n |-> Announcement("new", order[i])]
  /\ UNCHANGED <<tables, link, c2p, where, got, budgets>>

\* qrtr_proxy_init has found a service; qrtr_start_server.
Offered ==
  /\ phase = "init" /\ qrtr_server_list # <<>>
  /\ phase' = "serving"
  /\ UNCHANGED <<loop, qrtr_server_list, cons, tables, link, c2p, where, atModem, fromDev, got,
                 budgets>>

\* Ten seconds without one: the thread is cancelled.
InitFails ==
  /\ phase = "init" /\ qrtr_server_list = <<>>
  /\ fromDev # <<>> => troubles < MaxTroubles
  /\ troubles' = IF fromDev # <<>> THEN troubles + 1 ELSE troubles
  /\ phase' = "closed" /\ loop' = FALSE /\ fromDev' = <<>>
  /\ UNCHANGED <<qrtr_server_list, cons, tables, link, c2p, where, atModem, got,
                 connects, gets, data>>

\* pthread_join returns; qrtr_close_server.
Joined ==
  /\ phase = "serving" /\ ~ loop
  /\ phase' = "closed"
  /\ Closed(Fds)
  /\ UNCHANGED <<loop, qrtr_server_list, cons, tables, where, atModem, fromDev, got, budgets>>

Thread(fd) == accept_qrtr_connection(fd) \/ cleanup_qrtr_connection(fd) \/ recv_qmi_from_client(fd)
Main == OpenDevice \/ Offered \/ InitFails \/ Joined
Next ==
  \/ \E s \in Services : ServiceMoves(s)
  \/ \E fd \in Fds : Connect(fd) \/ Send(fd) \/ Leaves(fd) \/ Thread(fd)
  \/ Answers \/ recv_qrtr_from_dev \/ DeviceLost \/ Main

Spec == Init /\ [][Next]_vars

\* Threads are scheduled, and poll reports every descriptor that is ready.  Reports of the
\* modem are read before the ten seconds are over.
Fairness ==
  /\ WF_vars(Main) /\ WF_vars(recv_qrtr_from_dev)
  /\ \A fd \in Fds : WF_vars(Thread(fd))

FairSpec == Spec /\ Fairness

----------------------------------------------------------------------------
\* Whatever was allocated, refused, released and closed before: no two entries that have
\* an id (alloc_client_id) have the same one, and none shares its port with any other
\* entry, to which recv_qrtr_from_dev would deliver its answers, too; although ports from
\* Width on are handed out twice, and refused clients take ports.
OneOwner ==
  \A e \in Working, f \in clients : e # f => e.id # f.id /\ e.port # f.port

\* An answer goes to the entry that asked and to no other, unless that one was released
\* while it was on its way and its port given to another.
Delivered == \A g \in got : g.live => g.at = g.for

\* The ids of a client that is gone are given back, unless as many other clients as fit
\* into pollfds were accepted before it, or the process has been ended.
Left(fd) == link[fd] = "gone"
IdsBack(fd) == Entries(fd) = {} \/ (Left(fd) /\ ~ Polled(fd))
IdsComeFree == \A fd \in Fds : Left(fd) ~> IdsBack(fd)

\* The socket is there in the end, however often the device is lost, if the modem has a
\* service; unless a client hung up at a moment that ended the process.
Offers == (phase = "serving" /\ loop) \/ phase = "dead" \/ \A s \in Services : where[s] = 0

=============================================================================
