------------------------------ MODULE QmiProxy ------------------------------
(***************************************************************************)
(* quectel-qmi-proxy: several QMI clients share one modem.  The proxy      *)
(* serialises their control (CTL) requests through qmi_proxy_ctl_msg, of   *)
(* which only the head is meant to be at the modem, and keeps for each     *)
(* connection the QMI client ids the modem gave it, to release them when   *)
(* the client goes away.                                                   *)
(*                                                                         *)
(* A client id stands for the pair (QMIType, ClientId).  A connection is   *)
(* known by its file descriptor, which the next accept may reuse.          *)
(***************************************************************************)
EXTENDS Naturals, Sequences

CONSTANTS Fds,        \* descriptors of client connections
          ServerFd,   \* qmi_proxy_server_fd, the owner of the proxy's own requests
          Ids,        \* the client ids the modem can hand out
          NoId,
          MaxTid,     \* bound on the requests of one connection, whose transaction
                      \* ids count from 1 (and wrap after 255 in the clients)
          ProxyTid,   \* 255, the transaction id of the proxy's own requests
          MaxSync,    \* bound on the SYNC requests of one start (60 in the code)
          MaxCtl,     \* bound on qmi_proxy_ctl_msg, see ClientRequest
          MaxWire,    \* bound on what is on its way to and from the modem
          MaxLoss,    \* bound on the requests the modem never answers
          MaxRevoke   \* bound on the times it revokes its ids, per device start

ASSUME ServerFdAssumption == ServerFd \notin Fds

ASSUME NoIdAssumption == NoId \notin Ids

ASSUME BoundAssumption ==
  /\ MaxTid \in Nat /\ MaxSync \in Nat /\ MaxCtl \in Nat
  /\ MaxWire \in Nat /\ MaxLoss \in Nat /\ MaxRevoke \in Nat

Kinds == {"sync", "get", "release", "other"}
AllTids == 1..MaxTid \union {ProxyTid} \union 1..MaxSync

Msg == [fd : Fds \union {ServerFd}, kind : Kinds, tid : AllTids, id : Ids \union {NoId}]

\* A CTL response carries the kind and the transaction id of its request, and
\* ok stands for QMIResult = QMIError = 0, when a get or a release names its id.
\* "revoke" is the indication QMICTL_REVOKE_CLIENT_ID_IND.
Answer ==
  {a \in [kind : Kinds \union {"revoke"}, tid : AllTids, id : Ids \union {NoId},
          ok : BOOLEAN] : a.ok /\ a.kind \in {"get", "release"} => a.id \in Ids}

VARIABLES
  phase,             \* "closed", "sync" (no server socket yet) or "serving"
  syncs,             \* SYNC requests sent since the device was opened
  qmi_sync_done,
  modem_reset_flag,
  conns,             \* the descriptors in qmi_proxy_connection
  owned,             \* client_qnode of each connection
  ctl,               \* qmi_proxy_ctl_msg
  nextTid,           \* the transaction id a client uses next
  held,              \* ids a client has been told of and not asked to release
  wire,              \* CTL requests written to the device, in order
  back,              \* CTL messages the device has yet to deliver, in order
  allocated,         \* the client ids in use at the modem
  losses,            \* history: requests the modem swallowed
  inStep,            \* history: no head was taken from the queue while it was at
                     \* the modem, no SYNC was left unanswered, nothing was lost
  oneEach,           \* history: no client hung up with two requests in the queue
  mismatch,          \* history: the ERROR at line 410 was logged
  revokes,           \* history: how often the modem revoked its ids
  revoked            \* history: a revoke indication was read

proxyVars == <<phase, syncs, qmi_sync_done, modem_reset_flag, conns, owned, ctl>>
history == <<losses, inStep, oneEach, mismatch, revokes, revoked>>
vars == <<proxyVars, nextTid, held, wire, back, allocated, history>>

Init ==
  /\ phase = "closed"
  /\ syncs = 0
  /\ qmi_sync_done = FALSE
  /\ modem_reset_flag = FALSE
  /\ conns = {}
  /\ owned = [fd \in Fds |-> <<>>]
  /\ ctl = <<>>
  /\ nextTid = [fd \in Fds |-> 1]
  /\ held = [fd \in Fds |-> {}]
  /\ wire = <<>>
  /\ back = <<>>
  /\ allocated = {}
  /\ losses = 0
  /\ inStep = TRUE
  /\ oneEach = TRUE
  /\ mismatch = FALSE
  /\ revokes = 0
  /\ revoked = FALSE

-----------------------------------------------------------------------------
\* Start-up, in main's thread

OpenDevice ==
  /\ phase = "closed"
  /\ phase' = "sync"
  /\ syncs' = 0
  /\ qmi_sync_done' = FALSE
  /\ UNCHANGED <<modem_reset_flag, conns, owned, ctl, nextTid, held, wire, back, allocated,
                 history>>

\* qmi_proxy_init repeats the SYNC every second until something is read.
SendSync ==
  /\ phase = "sync" /\ ~qmi_sync_done /\ syncs < MaxSync
  /\ syncs' = syncs + 1
  /\ wire' = Append(wire, [fd |-> ServerFd, kind |-> "sync", tid |-> syncs + 1,
                           id |-> NoId])
  /\ UNCHANGED <<phase, qmi_sync_done, modem_reset_flag, conns, owned, ctl, nextTid, held,
                 back, allocated, history>>

\* create_local_server succeeds.
CreateServer ==
  /\ phase = "sync" /\ qmi_sync_done
  /\ phase' = "serving"
  /\ inStep' = (wire = <<>> /\ back = <<>>)
  /\ UNCHANGED <<syncs, qmi_sync_done, modem_reset_flag, conns, owned, ctl, nextTid, held,
                 wire, back, allocated, losses, oneEach, mismatch, revokes, revoked>>

\* The loop ends: the device hung up, the start failed, or modem_reset_flag was
\* set.  Every connection is closed without a release and main reopens; what
\* is left of qmi_proxy_ctl_msg goes when the next loop initialises the list.
LoopExit ==
  /\ phase # "closed"
  /\ phase' = "closed"
  /\ modem_reset_flag' = FALSE
  /\ conns' = {}
  /\ owned' = [fd \in Fds |-> <<>>]
  /\ ctl' = <<>>
  /\ nextTid' = [fd \in Fds |-> 1]
  /\ held' = [fd \in Fds |-> {}]
  /\ wire' = <<>>
  /\ back' = <<>>
  /\ allocated' = {}
  /\ losses' = 0
  /\ inStep' = TRUE
  /\ oneEach' = TRUE
  /\ mismatch' = FALSE
  /\ revokes' = 0
  /\ revoked' = FALSE
  /\ UNCHANGED <<syncs, qmi_sync_done>>

-----------------------------------------------------------------------------
\* The loop thread: clients

Accept(fd) ==
  /\ phase = "serving" /\ fd \notin conns
  /\ conns' = conns \union {fd}
  /\ UNCHANGED <<phase, syncs, qmi_sync_done, modem_reset_flag, owned, ctl, nextTid, held,
                 wire, back, allocated, history>>

\* A mutant: the request is sent even while another is at the modem.
SentAtOnceAlways(m) == <<m>>

\* A request goes to the modem at once only when no other is pending.
SentAtOnce(m) == IF ctl = <<>> THEN <<m>> ELSE <<>>

\* recv_qmi_from_client: a CTL request other than SYNC.
ClientRequest(fd, kind, id) ==
  /\ phase = "serving" /\ fd \in conns
  /\ Len(ctl) < MaxCtl /\ Len(wire) + Len(back) < MaxWire /\ nextTid[fd] <= MaxTid
  /\ LET m == [fd |-> fd, kind |-> kind, tid |-> nextTid[fd], id |-> id] IN
     /\ ctl' = Append(ctl, m)
     /\ wire' = wire \o SentAtOnce(m)
  /\ nextTid' = [nextTid EXCEPT ![fd] = @ + 1]
  /\ held' = [held EXCEPT ![fd] = @ \ {id}]
  /\ UNCHANGED <<phase, syncs, qmi_sync_done, modem_reset_flag, conns, owned,
                 back, allocated, history>>

\* The releases cleanup_qmi_connection makes for the ids of a connection.
Releases(ids) ==
  [i \in DOMAIN ids |-> [fd |-> ServerFd, kind |-> "release", tid |-> ProxyTid,
                         id |-> ids[i]]]

\* A list without the first of its elements at the places I, if there is one.
First(I) == CHOOSE i \in I : \A j \in I : i <= j
WithoutFirst(q, I) ==
  IF I = {} THEN q ELSE [i \in 1..(Len(q) - 1) |-> IF i < First(I) THEN q[i] ELSE q[i + 1]]

\* The queue without the first message of connection fd.
DropFirst(q, fd) == WithoutFirst(q, {i \in 1..Len(q) : q[i].fd = fd})

\* cleanup_qmi_connection(fd, 1): the client hung up or was killed.  Of its
\* pending requests only the first is dropped, and that one may be the head,
\* which is at the modem already; the next head is not sent.
Disconnect(fd) ==
  /\ phase = "serving" /\ fd \in conns
  /\ LET releases == Releases(owned[fd]) IN
     /\ ctl' = DropFirst(ctl \o releases, fd)
     /\ wire' = IF releases = <<>> THEN wire ELSE wire \o SentAtOnce(Head(releases))
  /\ conns' = conns \ {fd}
  /\ owned' = [owned EXCEPT ![fd] = <<>>]
  /\ nextTid' = [nextTid EXCEPT ![fd] = 1]
  /\ held' = [held EXCEPT ![fd] = {}]
  /\ inStep' = (inStep /\ (ctl = <<>> \/ Head(ctl).fd # fd))
  /\ oneEach' = (oneEach /\ \A i, j \in 1..Len(ctl) :
                               ctl[i].fd = fd /\ ctl[j].fd = fd => i = j)
  /\ UNCHANGED <<phase, syncs, qmi_sync_done, modem_reset_flag, back, allocated,
                 losses, mismatch, revokes, revoked>>

-----------------------------------------------------------------------------
\* The loop thread: messages from the device

\* Before there is a server socket, any message ends the SYNC retries.
RecvInSync ==
  /\ phase = "sync" /\ back # <<>>
  /\ qmi_sync_done' = TRUE
  /\ back' = Tail(back)
  /\ UNCHANGED <<phase, syncs, modem_reset_flag, conns, owned, ctl, nextTid, held, wire,
                 allocated, history>>

Answers(r, m) == r.tid = m.tid /\ r.kind = m.kind

\* Mutants: the result of the response is not looked at; a released id stays in
\* the list.
IdsAfterAnyResult(ids, r) ==
  CASE r.kind = "get" -> Append(ids, r.id)
    [] r.kind = "release" -> WithoutFirst(ids, {i \in 1..Len(ids) : ids[i] = r.id})
    [] OTHER -> ids
IdsAfterKept(ids, r) == IF r.ok /\ r.kind = "get" THEN Append(ids, r.id) ELSE ids

\* get_client_id and release_client_id on the list ids of the connection.
IdsAfter(ids, r) ==
  IF ~r.ok THEN ids
  ELSE CASE r.kind = "get" -> Append(ids, r.id)
         [] r.kind = "release" -> WithoutFirst(ids, {i \in 1..Len(ids) : ids[i] = r.id})
         [] OTHER -> ids

\* A mutant: nothing is sent once a response was handled.
NextSentNever(q) == <<>>

\* The request sent once the head of queue q is retired.
NextSent(q) == IF Len(q) > 1 THEN <<q[2]>> ELSE <<>>

\* A response retires the head of the queue whether it answers it or not, and
\* the next head is sent.
RecvResponse ==
  /\ phase = "serving" /\ back # <<>> /\ ctl # <<>> /\ Head(back).kind # "revoke"
  /\ LET r == Head(back)
         m == Head(ctl)
         forward == Answers(r, m) /\ m.fd \in conns
     IN  /\ mismatch' = (mismatch \/ ~Answers(r, m))
         /\ owned' = IF forward THEN [owned EXCEPT ![m.fd] = IdsAfter(@, r)] ELSE owned
         /\ held' = IF forward /\ r.kind = "get" /\ r.ok
                    THEN [held EXCEPT ![m.fd] = @ \union {r.id}] ELSE held
  /\ ctl' = Tail(ctl)
  /\ wire' = wire \o NextSent(ctl)
  /\ back' = Tail(back)
  /\ UNCHANGED <<phase, syncs, qmi_sync_done, modem_reset_flag, conns, nextTid,
                 allocated, losses, inStep, oneEach, revokes, revoked>>

\* A response that finds the queue empty is dropped.
RecvStray ==
  /\ phase = "serving" /\ back # <<>> /\ ctl = <<>> /\ Head(back).kind # "revoke"
  /\ back' = Tail(back)
  /\ UNCHANGED <<proxyVars, nextTid, held, wire, allocated, history>>

QMUX_TYPE_CTL == 0
QMICTL_CTL_FLAG_IND == 2

\* The indication is looked for with QMIType = QMICTL_CTL_FLAG_IND, inside the
\* branch where QMIType = QMUX_TYPE_CTL.
RecvRevoke ==
  /\ phase = "serving" /\ back # <<>> /\ Head(back).kind = "revoke"
  /\ modem_reset_flag' = (modem_reset_flag \/ QMUX_TYPE_CTL = QMICTL_CTL_FLAG_IND)
  /\ revoked' = TRUE
  /\ back' = Tail(back)
  /\ UNCHANGED <<phase, syncs, qmi_sync_done, conns, owned, ctl, nextTid, held, wire,
                 allocated, losses, inStep, oneEach, mismatch, revokes>>

\* The connections a service message (not CTL) for client id id is written to.
Recipients(id) == {fd \in conns : \E i \in DOMAIN owned[fd] : owned[fd][i] = id}

-----------------------------------------------------------------------------
\* The modem: it answers CTL requests in order, hands out ids that are free,
\* and forgets all ids on SYNC.

Reply(id, ok) ==
  back' = Append(back, [kind |-> Head(wire).kind, tid |-> Head(wire).tid,
                        id |-> id, ok |-> ok])

ModemAnswer ==
  /\ wire # <<>>
  /\ wire' = Tail(wire)
  /\ LET m == Head(wire) IN
     \/ m.kind = "sync" /\ allocated' = {} /\ Reply(NoId, TRUE)
     \/ m.kind = "other" /\ Reply(NoId, TRUE) /\ UNCHANGED allocated
     \/ /\ m.kind = "get"
        /\ \E id \in Ids \ allocated :
             allocated' = allocated \union {id} /\ Reply(id, TRUE)
     \/ m.kind = "get" /\ Reply(NoId, FALSE) /\ UNCHANGED allocated
     \/ /\ m.kind = "release"
        /\ allocated' = allocated \ {m.id}
        /\ Reply(m.id, m.id \in allocated)
  /\ UNCHANGED <<proxyVars, nextTid, held, history>>

\* A request is not written within 5 seconds, or the modem never answers it.
ModemSilent ==
  /\ wire # <<>> /\ losses < MaxLoss
  /\ wire' = Tail(wire)
  /\ losses' = losses + 1
  /\ inStep' = FALSE
  /\ UNCHANGED <<proxyVars, nextTid, held, back, allocated, oneEach, mismatch, revokes,
                 revoked>>

\* The modem restarts its QMI stack: every id is gone and it says so.
ModemRevoke ==
  /\ phase = "serving" /\ Len(wire) + Len(back) < MaxWire
  /\ revokes < MaxRevoke
  /\ revokes' = revokes + 1
  /\ allocated' = {}
  /\ back' = Append(back, [kind |-> "revoke", tid |-> ProxyTid, id |-> NoId,
                           ok |-> TRUE])
  /\ UNCHANGED <<proxyVars, nextTid, held, wire, losses, inStep, oneEach, mismatch, revoked>>

-----------------------------------------------------------------------------
Request(fd) ==
  \/ \E kind \in {"get", "other"} : ClientRequest(fd, kind, NoId)
  \/ \E id \in held[fd] : ClientRequest(fd, "release", id)

Next ==
  \/ OpenDevice
  \/ SendSync
  \/ CreateServer
  \/ LoopExit
  \/ \E fd \in Fds : Accept(fd) \/ Request(fd) \/ Disconnect(fd)
  \/ RecvInSync
  \/ RecvResponse
  \/ RecvStray
  \/ RecvRevoke
  \/ ModemAnswer
  \/ ModemSilent
  \/ ModemRevoke

Spec == Init /\ [][Next]_vars

\* The loop polls the device in every round, and the modem answers.
FairSpec == Spec /\ WF_vars(RecvResponse) /\ WF_vars(RecvRevoke) /\ WF_vars(ModemAnswer)

-----------------------------------------------------------------------------
TypeOK ==
  /\ phase \in {"closed", "sync", "serving"}
  /\ syncs \in 0..MaxSync
  /\ qmi_sync_done \in BOOLEAN
  /\ modem_reset_flag \in BOOLEAN
  /\ conns \subseteq Fds
  /\ owned \in [Fds -> Seq(Ids)]
  /\ ctl \in Seq(Msg)
  /\ nextTid \in [Fds -> 1..MaxTid + 1]
  /\ held \in [Fds -> SUBSET Ids]
  /\ wire \in Seq(Msg)
  /\ back \in Seq(Answer)
  /\ allocated \subseteq Ids
  /\ losses \in 0..MaxLoss
  /\ inStep \in BOOLEAN
  /\ oneEach \in BOOLEAN
  /\ mismatch \in BOOLEAN
  /\ revokes \in 0..MaxRevoke
  /\ revoked \in BOOLEAN

\* A pending request is never left waiting for nothing: while the modem has
\* answered all it was sent, some message is on its way to or from it whenever
\* the queue is not empty, also after a client that hung up took the head.
AnswerOutstanding ==
  ctl # <<>> /\ losses = 0 =>
    wire # <<>> \/ \E i \in DOMAIN back : back[i].kind # "revoke"

\* The modem's answer that id was released has yet to be read.
ReleaseUnread(id) ==
  \E i \in DOMAIN back : back[i].kind = "release" /\ back[i].id = id /\ back[i].ok

\* The proxy's table is the modem's, unless a client hung up with its request
\* at the modem or with two requests in the queue, a SYNC was left unanswered or
\* the modem revoked its ids: an id in the list of a connection is in use at the
\* modem or its release is about to be read, and no service message goes to two
\* connections.  (With two in the queue the client's own release may survive it
\* and, behind the proxy's release of the same id, take it from the next owner.)
TableFaithful ==
  inStep /\ oneEach /\ revokes = 0 =>
    \A id \in Ids :
      /\ Recipients(id) # {} => id \in allocated \/ ReleaseUnread(id)
      /\ \A f, g \in Recipients(id) : f = g

\* The ERROR of line 410 is logged, and a request retired by an answer that is
\* not its own, only after one of these three.
MismatchExplained == mismatch => ~inStep

\* While requests are pending responses keep being handled, whatever clients come
\* and go, unless the modem swallowed a request.
QueueServed ==
  <>[](ctl # <<>> /\ losses = 0) => []<><<RecvResponse>>_vars

\* ReleaseNote.txt: "support QMI_CTL_REVOKE_CLIENT_ID_IND": a revoke indication
\* that was read makes the loop start over (modem_reset_flag).
RevokeHandled == revoked => modem_reset_flag

\* ReleaseNote.txt: "Fix the issue of qmi client id leakage caused by kill 9
\* killing the client": when all is quiet the modem holds no client id that is
\* in no connection's list.
NoLeak ==
  phase = "serving" /\ ctl = <<>> /\ wire = <<>> /\ back = <<>> =>
    \A id \in allocated : Recipients(id) # {}

=============================================================================
