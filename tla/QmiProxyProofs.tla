--------------------------- MODULE QmiProxyProofs ---------------------------
(***************************************************************************)
(* Proofs about QmiProxy: its type, that pending requests always have a    *)
(* message under way, and that responses match the queue's head as long as *)
(* no client hung up with its request at the modem.                        *)
(***************************************************************************)
EXTENDS QmiProxy, WellFoundedInduction, TLAPS

\* A non-empty set of naturals has a least element.
LEMMA LeastElement ==
  ASSUME NEW T \in SUBSET Nat, T # {}
  PROVE  \E x \in T : \A y \in T : x <= y
<1> DEFINE R == {ss \in Nat \X Nat : ss[1] < ss[2]}
<1>1. IsWellFoundedOn(R, Nat)
  BY NatLessThanWellFounded, Zenon DEF OpToRel
<1> HIDE DEF R
<1>2. \E x \in T : \A y \in T : ~(<<y, x>> \in R)
  BY Zenon, <1>1, WFMin
<1>3. \A x, y \in Nat : <<y, x>> \notin R => x <= y
  BY DEF R
<1> QED
  BY Zenon, <1>2, <1>3

\* First finds the least of the places.
LEMMA FirstPlace ==
  ASSUME NEW n \in Nat, NEW I \in SUBSET (1..n), I # {}
  PROVE  First(I) \in I
<1>1. I \in SUBSET Nat
  OBVIOUS
<1>2. \E x \in I : \A y \in I : x <= y
  BY <1>1, LeastElement, Zenon
<1> QED
  BY Zenon, <1>2 DEF First

\* WithoutFirst leaves a list of the same elements, and its head when that is not
\* the element removed.
LEMMA WithoutFirstProperties ==
  ASSUME NEW S, NEW q \in Seq(S), NEW I \in SUBSET (1..Len(q))
  PROVE  /\ WithoutFirst(q, I) \in Seq(S)
         /\ q # <<>> /\ 1 \notin I =>
              WithoutFirst(q, I) # <<>> /\ Head(WithoutFirst(q, I)) = Head(q)
<1>1. CASE I = {}
  BY <1>1, Zenon DEF WithoutFirst
<1>2. CASE I # {}
  <2> DEFINE k == First(I)
             s == [i \in 1..(Len(q) - 1) |-> IF i < k THEN q[i] ELSE q[i + 1]]
  <2>0. Len(q) \in Nat
    OBVIOUS
  <2>1. k \in I /\ k \in 1..Len(q)
    BY Zenon, <1>2, <2>0, FirstPlace
  <2>2. WithoutFirst(q, I) = s
    BY Zenon, <1>2 DEF WithoutFirst
  <2> HIDE DEF k
  <2>3. s \in Seq(S) /\ Len(s) = Len(q) - 1
    BY <2>0, <2>1
  <2>4. ASSUME k # 1 PROVE s # <<>> /\ Head(s) = Head(q)
    <3>1. 1 \in 1..(Len(q) - 1) /\ 1 < k
      BY <2>0, <2>1, <2>4
    <3>2. s[1] = q[1]
      BY <3>1, Zenon
    <3> HIDE DEF s
    <3> QED
      BY <2>0, <2>3, <3>1, <3>2
  <2> QED
    BY <2>1, <2>2, <2>3, <2>4, Zenon
<1> QED
  BY <1>1, <1>2, Zenon

\* DropFirst keeps the head that is not a message of the connection, and makes no
\* queue of nothing.
LEMMA DropFirstProperties ==
  ASSUME NEW q \in Seq(Msg), NEW fd
  PROVE  /\ DropFirst(q, fd) \in Seq(Msg)
         /\ q # <<>> /\ Head(q).fd # fd =>
              DropFirst(q, fd) # <<>> /\ Head(DropFirst(q, fd)) = Head(q)
         /\ DropFirst(q, fd) # <<>> => q # <<>>
<1> DEFINE I == {i \in 1..Len(q) : q[i].fd = fd}
<1>1. I \in SUBSET (1..Len(q)) /\ DropFirst(q, fd) = WithoutFirst(q, I)
  BY Zenon DEF DropFirst
<1>2. q # <<>> /\ Head(q).fd # fd => 1 \notin I
  OBVIOUS
<1>3. q = <<>> => I = {}
  OBVIOUS
<1>4. I = {} => WithoutFirst(q, I) = q
  BY Zenon DEF WithoutFirst
<1> HIDE DEF I
<1> QED
  BY <1>1, <1>2, <1>3, <1>4, WithoutFirstProperties, Zenon

-----------------------------------------------------------------------------
\* Nothing but responses to what was sent and revoke indications is read.
NoResponse == \A i \in DOMAIN back : back[i].kind = "revoke"

\* The queue and what is under way agree: the head alone is at the modem, or its
\* answer alone is to be read.
HeadAlone ==
  /\ ctl = <<>> => wire = <<>> /\ NoResponse
  /\ ctl # <<>> =>
       \/ wire = <<Head(ctl)>> /\ NoResponse
       \/ /\ wire = <<>>
          /\ \E i \in DOMAIN back :
               /\ Answers(back[i], Head(ctl))
               /\ back[i].kind # "revoke"
               /\ \A j \in DOMAIN back : j # i => back[j].kind = "revoke"

\* The inductive invariant.
IInv ==
  /\ TypeOK
  /\ phase # "serving" => ctl = <<>> /\ conns = {} /\ mismatch = FALSE
  /\ AnswerOutstanding
  /\ phase = "serving" /\ inStep => HeadAlone
  /\ MismatchExplained

LEMMA InitInv == Init => IInv
<1> SUFFICES ASSUME Init PROVE IInv
  BY Zenon
<1>1. /\ owned \in [Fds -> Seq(Ids)] /\ held \in [Fds -> SUBSET Ids]
      /\ nextTid \in [Fds -> 1..MaxTid + 1]
  BY BoundAssumption DEF Init
<1>2. 0 \in 0..MaxSync /\ 0 \in 0..MaxLoss /\ 0 \in 0..MaxRevoke
  BY BoundAssumption
<1>3. <<>> \in Seq(Msg) /\ <<>> \in Seq(Answer)
  OBVIOUS
<1>4. TypeOK
  BY <1>1, <1>2, <1>3, Zenon DEF Init, TypeOK
<1> QED
  BY <1>4, Zenon DEF Init, IInv, AnswerOutstanding, HeadAlone, MismatchExplained

\* Start-up and shutdown.
LEMMA StartInv ==
  ASSUME IInv, OpenDevice \/ SendSync \/ CreateServer \/ LoopExit \/ RecvInSync
  PROVE  IInv'
<1> USE DEF IInv, AnswerOutstanding, MismatchExplained, history
<1>1. CASE OpenDevice
  <2>1. TypeOK'
    <3>1. 0 \in 0..MaxSync
      BY BoundAssumption
    <3> QED
      BY <1>1, <3>1, Zenon DEF OpenDevice, TypeOK
  <2> QED
    BY <1>1, <2>1, Zenon DEF OpenDevice
<1>2. CASE SendSync
  <2> DEFINE m == [fd |-> ServerFd, kind |-> "sync", tid |-> syncs + 1, id |-> NoId]
  <2>1. syncs + 1 \in AllTids /\ syncs' \in 0..MaxSync
    BY <1>2, BoundAssumption DEF SendSync, TypeOK, AllTids
  <2>2. m \in Msg
    BY <2>1, Zenon DEF Msg, Kinds
  <2>3. wire' \in Seq(Msg)
    BY <1>2, <2>2 DEF SendSync, TypeOK
  <2> QED
    BY <1>2, <2>1, <2>3, Zenon DEF SendSync, TypeOK
<1>3. CASE CreateServer
  <2>1. TypeOK'
    BY <1>3, Zenon DEF CreateServer, TypeOK
  <2>2. inStep' => HeadAlone'
    <3>1. inStep' => wire = <<>> /\ back = <<>>
      BY <1>3, Zenon DEF CreateServer
    <3>2. ctl' = <<>> /\ wire' = wire /\ back' = back
      BY <1>3, Zenon DEF CreateServer
    <3> QED
      BY <3>1, <3>2 DEF HeadAlone, NoResponse
  <2> QED
    BY <1>3, <2>1, <2>2, Zenon DEF CreateServer
<1>4. CASE LoopExit
  <2>1. /\ owned' \in [Fds -> Seq(Ids)] /\ held' \in [Fds -> SUBSET Ids]
        /\ nextTid' \in [Fds -> 1..MaxTid + 1]
    BY <1>4, BoundAssumption DEF LoopExit
  <2>2. TypeOK'
    <3>1. 0 \in 0..MaxLoss /\ 0 \in 0..MaxRevoke
      BY BoundAssumption
    <3>2. <<>> \in Seq(Msg) /\ <<>> \in Seq(Answer)
      OBVIOUS
    <3> QED
      BY <1>4, <2>1, <3>1, <3>2, Zenon DEF LoopExit, TypeOK
  <2> QED
    BY <1>4, <2>2, Zenon DEF LoopExit
<1>5. CASE RecvInSync
  <2>1. back' \in Seq(Answer)
    BY <1>5 DEF RecvInSync, TypeOK
  <2> QED
    BY <1>5, <2>1, Zenon DEF RecvInSync, TypeOK
<1> QED
  BY Zenon, <1>1, <1>2, <1>3, <1>4, <1>5

LEMMA AcceptInv ==
  ASSUME IInv, NEW fd \in Fds, Accept(fd)
  PROVE  IInv'
BY Zenon DEF IInv, Accept, TypeOK, AnswerOutstanding, HeadAlone, NoResponse, MismatchExplained,
       Answers, history

\* A message is added to the queue, and sent when the queue was empty.
LEMMA ClientRequestInv ==
  ASSUME IInv, NEW fd \in Fds, NEW kind \in Kinds, NEW id \in Ids \union {NoId},
         ClientRequest(fd, kind, id)
  PROVE  IInv'
<1> DEFINE m == [fd |-> fd, kind |-> kind, tid |-> nextTid[fd], id |-> id]
<1>1. nextTid[fd] \in 1..MaxTid /\ nextTid' \in [Fds -> 1..MaxTid + 1]
  BY SMTT(30), BoundAssumption DEF IInv, TypeOK, ClientRequest
<1>2. m \in Msg
  BY <1>1, Zenon DEF Msg, AllTids
<1>3. ctl' = Append(ctl, m) /\ wire' = wire \o SentAtOnce(m)
  BY Zenon DEF ClientRequest
<1> HIDE DEF m
<1>4. ctl \in Seq(Msg) /\ wire \in Seq(Msg)
  BY Zenon DEF IInv, TypeOK
<1>5. SentAtOnce(m) \in Seq(Msg)
  BY <1>2 DEF SentAtOnce
<1>6. ctl' \in Seq(Msg) /\ wire' \in Seq(Msg)
  BY <1>2, <1>3, <1>4, <1>5
<1>7. TypeOK'
  BY <1>1, <1>6, Zenon DEF IInv, TypeOK, ClientRequest, history
<1>8. CASE ctl = <<>>
  <2>1. wire' = Append(wire, m)
    BY <1>2, <1>3, <1>4, <1>8 DEF SentAtOnce
  <2>2. wire' # <<>>
    BY <1>2, <1>4, <2>1
  <2>3. AnswerOutstanding'
    BY <2>2, Zenon DEF AnswerOutstanding
  <2>4. inStep' => HeadAlone'
    <3> SUFFICES ASSUME inStep PROVE HeadAlone'
      BY Zenon DEF ClientRequest, history
    <3>1. wire = <<>> /\ NoResponse
      BY <1>8, Zenon DEF IInv, HeadAlone, ClientRequest
    <3>2. wire' = <<m>> /\ ctl' = <<m>> /\ NoResponse'
      BY <2>1, <3>1, <1>3, <1>8 DEF NoResponse, ClientRequest
    <3> QED
      BY <3>2 DEF HeadAlone
  <2> QED
    BY <1>7, <2>3, <2>4, Zenon DEF IInv, ClientRequest, MismatchExplained, history
<1>9. CASE ctl # <<>>
  <2>1. wire' = wire
    BY <1>3, <1>4, <1>9 DEF SentAtOnce
  <2>2. ctl' # <<>> /\ Head(ctl') = Head(ctl)
    BY SMTT(30), <1>2, <1>3, <1>4, <1>9
  <2>3. AnswerOutstanding'
    BY <2>1, <1>9, Zenon DEF IInv, AnswerOutstanding, ClientRequest, history
  <2>4. inStep' => HeadAlone'
    BY Zenon, <2>1, <2>2, <1>9 DEF IInv, HeadAlone, NoResponse, Answers, ClientRequest, history
  <2> QED
    BY <1>7, <2>3, <2>4, Zenon DEF IInv, ClientRequest, MismatchExplained, history
<1> QED
  BY <1>8, <1>9, Zenon

\* A client leaves: its releases are queued and its first message is dropped.
LEMMA DisconnectInv ==
  ASSUME IInv, NEW fd \in Fds, Disconnect(fd)
  PROVE  IInv'
<1> DEFINE releases == Releases(owned[fd])
           all == ctl \o releases
<1>1. releases \in Seq(Msg) /\ \A i \in DOMAIN releases : releases[i].fd = ServerFd
  <2>1. owned[fd] \in Seq(Ids)
    BY Zenon DEF IInv, TypeOK
  <2>2. \A i \in DOMAIN owned[fd] :
          [fd |-> ServerFd, kind |-> "release", tid |-> ProxyTid, id |-> owned[fd][i]] \in Msg
    BY <2>1 DEF Msg, Kinds, AllTids
  <2>3. DOMAIN owned[fd] = 1..Len(owned[fd]) /\ Len(owned[fd]) \in Nat
    BY <2>1
  <2>4. releases \in [1..Len(owned[fd]) -> Msg]
    BY <2>2, <2>3, Zenon DEF Releases
  <2>5. releases \in Seq(Msg)
    BY <2>3, <2>4
  <2>6. \A i \in DOMAIN releases : releases[i].fd = ServerFd
    BY Zenon DEF Releases
  <2> QED
    BY <2>5, <2>6, Zenon
<1>2. ctl \in Seq(Msg) /\ wire \in Seq(Msg)
  BY Zenon DEF IInv, TypeOK
<1>3. ctl' = DropFirst(all, fd)
  BY Zenon DEF Disconnect
<1>4. wire' = IF releases = <<>> THEN wire ELSE wire \o SentAtOnce(Head(releases))
  BY Zenon DEF Disconnect
<1> HIDE DEF releases
<1>5. all \in Seq(Msg)
  BY <1>1, <1>2
<1>6. ctl' \in Seq(Msg) /\ (ctl' # <<>> => all # <<>>)
  BY Zenon, <1>3, <1>5, DropFirstProperties
<1>7. wire' \in Seq(Msg)
  BY SMTT(30), <1>1, <1>2, <1>4 DEF SentAtOnce
<1>8. TypeOK'
  <2>1. owned' \in [Fds -> Seq(Ids)] /\ held' \in [Fds -> SUBSET Ids]
    BY DEF Disconnect, IInv, TypeOK
  <2>2. nextTid' \in [Fds -> 1..MaxTid + 1]
    BY BoundAssumption DEF Disconnect, IInv, TypeOK
  <2>3. inStep' \in BOOLEAN /\ oneEach' \in BOOLEAN
    BY Zenon DEF Disconnect
  <2> QED
    BY <1>6, <1>7, <2>1, <2>2, <2>3, Zenon DEF IInv, Disconnect, TypeOK
<1>9. AnswerOutstanding'
  <2> SUFFICES ASSUME ctl' # <<>>, losses' = 0
               PROVE  wire' # <<>> \/ \E i \in DOMAIN back' : back'[i].kind # "revoke"
    BY Zenon DEF AnswerOutstanding
  <2>1. CASE ctl = <<>>
    <3>1. releases # <<>>
      BY <1>1, <1>6, <2>1
    <3>2. wire' # <<>>
      BY SMTT(30), <1>1, <1>2, <1>4, <2>1, <3>1 DEF SentAtOnce
    <3> QED
      BY <3>2, Zenon
  <2>2. CASE ctl # <<>>
    <3>1. wire' = wire
      BY <1>1, <1>2, <1>4, <2>2 DEF SentAtOnce
    <3> QED
      BY <3>1, <2>2, Zenon DEF IInv, AnswerOutstanding, Disconnect
  <2> QED
    BY <2>1, <2>2, Zenon
<1>10. inStep' => HeadAlone'
  <2> SUFFICES ASSUME inStep' PROVE HeadAlone'
    BY Zenon
  <2>1. inStep /\ (ctl = <<>> \/ Head(ctl).fd # fd)
    BY Zenon DEF Disconnect
  <2>2. HeadAlone /\ back' = back
    BY <2>1, Zenon DEF IInv, Disconnect
  <2>3. CASE ctl # <<>>
    <3>1. all # <<>> /\ Head(all) = Head(ctl)
      BY SMTT(30), <1>1, <1>2, <2>3
    <3>2. ctl' # <<>> /\ Head(ctl') = Head(ctl)
      BY Zenon, <1>3, <1>5, <2>1, <2>3, <3>1, DropFirstProperties
    <3>3. wire' = wire
      BY <1>1, <1>2, <1>4, <2>3 DEF SentAtOnce
    <3> QED
      BY <2>2, <2>3, <3>2, <3>3, Zenon DEF HeadAlone, NoResponse, Answers
  <2>4. CASE ctl = <<>> /\ releases = <<>>
    <3>1. all = <<>>
      BY <2>4
    <3>2. ctl' = <<>>
      BY <1>6, <3>1, Zenon
    <3> QED
      BY <3>2, <2>2, <2>4, <1>4, Zenon DEF HeadAlone, NoResponse
  <2>5. CASE ctl = <<>> /\ releases # <<>>
    <3>1. all = releases
      BY <1>1, <2>5
    <3>2. Head(releases).fd # fd
      BY <1>1, <2>5, ServerFdAssumption
    <3>3. ctl' # <<>> /\ Head(ctl') = Head(releases)
      BY <1>3, <1>5, <2>5, <3>1, <3>2, DropFirstProperties, Zenon
    <3>4. wire' = <<Head(releases)>>
      BY <1>1, <1>4, <2>2, <2>5 DEF HeadAlone, SentAtOnce
    <3> QED
      BY <2>2, <2>5, <3>3, <3>4, Zenon DEF HeadAlone, NoResponse
  <2> QED
    BY <2>3, <2>4, <2>5, Zenon
<1>11. MismatchExplained' /\ phase' = "serving"
  BY Zenon DEF MismatchExplained, IInv, Disconnect
<1> QED
  BY <1>8, <1>9, <1>10, <1>11, Zenon DEF IInv

\* A response retires the head and the next request is sent.
LEMMA RecvResponseInv ==
  ASSUME IInv, RecvResponse
  PROVE  IInv'
<1> DEFINE r == Head(back)
           m == Head(ctl)
<1>1. /\ ctl \in Seq(Msg) /\ wire \in Seq(Msg) /\ back \in Seq(Answer)
      /\ ctl # <<>> /\ back # <<>> /\ r.kind # "revoke" /\ phase = "serving"
  BY Zenon DEF IInv, TypeOK, RecvResponse
<1>2. r \in Answer /\ m \in Msg
  BY <1>1
<1>3. ctl' = Tail(ctl) /\ back' = Tail(back) /\ wire' = wire \o NextSent(ctl)
  BY Zenon DEF RecvResponse
<1>4. NextSent(ctl) \in Seq(Msg)
  BY <1>1 DEF NextSent
<1>5. ctl' \in Seq(Msg) /\ back' \in Seq(Answer) /\ wire' \in Seq(Msg)
  BY SMTT(30), <1>1, <1>3, <1>4
<1>6. owned' \in [Fds -> Seq(Ids)] /\ held' \in [Fds -> SUBSET Ids]
  <2> DEFINE forward == Answers(r, m) /\ m.fd \in conns
  <2>1. CASE forward
    <3>1. m.fd \in Fds /\ r.kind = m.kind
      BY <2>1, Zenon DEF IInv, TypeOK, Answers
    <3>2. owned[m.fd] \in Seq(Ids) /\ held[m.fd] \in SUBSET Ids
      BY <3>1, Zenon DEF IInv, TypeOK
    <3>3. r.kind \in {"get", "release"} /\ r.ok => r.id \in Ids
      BY <1>2, Zenon DEF Answer
    <3>4. IdsAfter(owned[m.fd], r) \in Seq(Ids)
      BY SMTT(30), <3>2, <3>3, WithoutFirstProperties DEF IdsAfter
    <3> QED
      BY <2>1, <3>1, <3>2, <3>3, <3>4, Zenon DEF IInv, TypeOK, RecvResponse
  <2>2. CASE ~forward
    BY <2>2, Zenon DEF IInv, TypeOK, RecvResponse
  <2> QED
    BY <2>1, <2>2, Zenon
<1>7. TypeOK'
  BY <1>5, <1>6, Zenon DEF IInv, TypeOK, RecvResponse
<1>8. AnswerOutstanding'
  <2> SUFFICES ASSUME ctl' # <<>> PROVE wire' # <<>>
    BY Zenon DEF AnswerOutstanding
  <2>1. Len(ctl) > 1
    BY <1>1, <1>3
  <2>2. wire' = Append(wire, ctl[2])
    BY <1>1, <1>3, <2>1 DEF NextSent
  <2> QED
    BY <1>1, <2>1, <2>2
<1>9. ASSUME inStep
      PROVE  HeadAlone' /\ Answers(r, m)
  <2>1. HeadAlone
    BY <1>1, <1>9, Zenon DEF IInv
  <2>2. 1 \in DOMAIN back /\ back[1] = r
    BY <1>1
  <2>3. ~NoResponse
    BY <1>1, <2>2, Zenon DEF NoResponse
  <2>4. wire = <<>> /\ Answers(r, m) /\ \A j \in DOMAIN back : j # 1 => back[j].kind = "revoke"
    BY <1>1, <2>1, <2>2, <2>3, Zenon DEF HeadAlone
  <2>5. NoResponse'
    BY SMTT(30), <1>1, <1>3, <2>4 DEF NoResponse
  <2>6. CASE Len(ctl) > 1
    <3>1. wire' = <<ctl[2]>>
      BY <1>1, <1>3, <2>4, <2>6 DEF NextSent
    <3>2. ctl' # <<>> /\ Head(ctl') = ctl[2]
      <4>1. ctl' \in Seq(Msg) /\ Len(ctl') = Len(ctl) - 1 /\ ctl'[1] = ctl[2]
        BY <1>1, <1>3, <2>6
      <4> QED
        BY <1>1, <2>6, <4>1
    <3> QED
      BY <2>4, <2>5, <3>1, <3>2, Zenon DEF HeadAlone
  <2>7. CASE ~(Len(ctl) > 1)
    <3>1. wire' = <<>>
      BY <1>1, <1>3, <2>4, <2>7 DEF NextSent
    <3>2. ctl' = <<>>
      BY SMTT(30), <1>1, <1>3, <2>7
    <3> QED
      BY <2>4, <2>5, <3>1, <3>2, Zenon DEF HeadAlone
  <2> QED
    BY <2>6, <2>7, Zenon
<1>10. inStep' = inStep /\ phase' = "serving"
  BY <1>1, Zenon DEF RecvResponse
<1>11. MismatchExplained'
  <2>1. mismatch' => mismatch \/ ~Answers(r, m)
    BY Zenon DEF RecvResponse
  <2> QED
    BY <1>9, <1>10, <2>1, Zenon DEF IInv, MismatchExplained
<1> QED
  BY <1>7, <1>8, <1>9, <1>10, <1>11, Zenon DEF IInv

\* The other messages that are read, and what the modem does.
LEMMA RecvOtherInv ==
  ASSUME IInv, RecvStray \/ RecvRevoke
  PROVE  IInv'
<1>1. /\ ctl \in Seq(Msg) /\ wire \in Seq(Msg) /\ back \in Seq(Answer) /\ back # <<>>
      /\ phase = "serving" /\ back' = Tail(back) /\ wire' = wire /\ ctl' = ctl
      /\ phase' = phase /\ inStep' = inStep /\ losses' = losses /\ mismatch' = mismatch
  BY Zenon DEF IInv, TypeOK, RecvStray, RecvRevoke, proxyVars, history
<1>2. back' \in Seq(Answer)
  BY <1>1
<1>3. TypeOK'
  <2>1. CASE RecvStray
    BY <1>2, <2>1, Zenon DEF RecvStray, IInv, TypeOK, proxyVars, history
  <2>2. CASE RecvRevoke
    <3>1. modem_reset_flag' \in BOOLEAN
      BY <2>2, Zenon DEF RecvRevoke
    <3> QED
      BY <1>2, <2>2, <3>1, Zenon DEF RecvRevoke, IInv, TypeOK
  <2> QED
    BY <2>1, <2>2, Zenon
<1>4. 1 \in DOMAIN back /\ back[1] = Head(back) /\ Len(back') = Len(back) - 1
      /\ (\A i \in DOMAIN back : i # 1 => i - 1 \in DOMAIN back' /\ back'[i - 1] = back[i])
      /\ (\A i \in DOMAIN back' : i + 1 \in DOMAIN back /\ back'[i] = back[i + 1])
  BY SMTT(30), <1>1
<1>5. ctl = <<>> \/ back[1].kind = "revoke"
  BY <1>4, Zenon DEF RecvStray, RecvRevoke
<1>6. AnswerOutstanding'
  BY ZenonT(40), <1>1, <1>4, <1>5 DEF IInv, AnswerOutstanding
<1>7. inStep' => HeadAlone'
  <2> SUFFICES ASSUME inStep PROVE HeadAlone'
    BY <1>1, Zenon
  <2>1. HeadAlone
    BY <1>1, Zenon DEF IInv
  <2>2. NoResponse => NoResponse'
    BY <1>1, <1>4 DEF NoResponse
  <2>3. CASE NoResponse
    BY <1>1, <2>1, <2>2, <2>3, Zenon DEF HeadAlone, NoResponse
  <2>4. CASE ~NoResponse
    <3>1. ctl # <<>> /\ wire = <<>>
      BY <2>1, <2>4, Zenon DEF HeadAlone
    <3>2. PICK i \in DOMAIN back :
               /\ Answers(back[i], Head(ctl)) /\ back[i].kind # "revoke"
               /\ \A j \in DOMAIN back : j # i => back[j].kind = "revoke"
      BY <2>1, <2>4, <3>1, Zenon DEF HeadAlone
    <3>3. i # 1 /\ i \in Nat
      BY <1>1, <1>5, <3>1, <3>2
    <3>4. i - 1 \in DOMAIN back' /\ back'[i - 1] = back[i]
      BY <1>4, <3>3, Zenon
    <3>5. \A j \in DOMAIN back' : j # i - 1 => back'[j].kind = "revoke"
      BY <1>1, <1>4, <3>2, <3>3
    <3> QED
      BY <1>1, <3>1, <3>2, <3>4, <3>5, Zenon DEF HeadAlone, Answers
  <2> QED
    BY <2>3, <2>4, Zenon
<1> QED
  BY <1>1, <1>3, <1>6, <1>7, Zenon DEF IInv, MismatchExplained

LEMMA ModemInv ==
  ASSUME IInv, ModemAnswer \/ ModemSilent \/ ModemRevoke
  PROVE  IInv'
<1>1. /\ ctl \in Seq(Msg) /\ wire \in Seq(Msg) /\ back \in Seq(Answer)
      /\ phase' = phase /\ ctl' = ctl /\ conns' = conns /\ mismatch' = mismatch
  BY ZenonT(40) DEF IInv, TypeOK, ModemAnswer, ModemSilent, ModemRevoke, proxyVars, history
<1>2. CASE ModemAnswer
  <2> DEFINE m == Head(wire)
  <2>1. m \in Msg /\ m.kind \in Kinds /\ m.tid \in AllTids /\ m.id \in Ids \union {NoId}
        /\ wire # <<>> /\ wire' = Tail(wire)
    <3>1. wire # <<>> /\ wire' = Tail(wire)
      BY <1>2, Zenon DEF ModemAnswer
    <3>2. m \in Msg
      BY SMTT(30), <1>1, <3>1
    <3> HIDE DEF m
    <3> QED
      BY <3>1, <3>2, Zenon DEF Msg
  <2>2. PICK a \in Answer :
             back' = Append(back, a) /\ Answers(a, m) /\ allocated' \in SUBSET Ids
    <3>1. ASSUME NEW id \in Ids \union {NoId}, NEW ok \in BOOLEAN,
                 m.kind \in {"get", "release"} /\ ok => id \in Ids
          PROVE  [kind |-> m.kind, tid |-> m.tid, id |-> id, ok |-> ok] \in Answer
      BY <2>1, <3>1, Zenon DEF Answer
    <3> USE <2>1, <3>1 DEF Answers, Reply, IInv, TypeOK
    <3>2. CASE m.kind = "sync" /\ allocated' = {} /\ Reply(NoId, TRUE)
      BY Zenon, <3>2
    <3>3. CASE m.kind = "other" /\ Reply(NoId, TRUE) /\ UNCHANGED allocated
      BY Zenon, <3>3
    <3>4. ASSUME NEW id \in Ids \ allocated, m.kind = "get",
                 allocated' = allocated \union {id}, Reply(id, TRUE)
          PROVE  \E a \in Answer :
                   back' = Append(back, a) /\ Answers(a, m) /\ allocated' \in SUBSET Ids
      BY Zenon, <3>4
    <3>5. CASE m.kind = "get" /\ Reply(NoId, FALSE) /\ UNCHANGED allocated
      BY Zenon, <3>5
    <3>6. CASE m.kind = "release" /\ allocated' = allocated \ {m.id}
               /\ Reply(m.id, m.id \in allocated)
      <4>1. (m.id \in allocated) \in BOOLEAN /\ (m.id \in allocated => m.id \in Ids)
        OBVIOUS
      <4> QED
        BY Zenon, <3>6, <4>1
    <3> QED
      BY ZenonT(40), <1>2, <3>2, <3>3, <3>4, <3>5, <3>6 DEF ModemAnswer
  <2>3. a.kind = m.kind /\ a.kind # "revoke"
    BY <2>1, <2>2, Zenon DEF Answers, Kinds
  <2>4. wire' \in Seq(Msg) /\ back' \in Seq(Answer)
    BY SMTT(30), <1>1, <2>1, <2>2
  <2>5. TypeOK'
    BY ZenonT(40), <1>2, <2>2, <2>4 DEF IInv, TypeOK, ModemAnswer, proxyVars, history
  <2>6. DOMAIN back' = DOMAIN back \union {Len(back) + 1} /\ back'[Len(back) + 1] = a
        /\ (\A i \in DOMAIN back : back'[i] = back[i] /\ i # Len(back) + 1)
    BY SMTT(30), <1>1, <2>2
  <2>7. AnswerOutstanding'
    BY <2>3, <2>6, Zenon DEF AnswerOutstanding
  <2>8. phase' = "serving" /\ inStep' => HeadAlone'
    <3> SUFFICES ASSUME phase = "serving", inStep PROVE HeadAlone'
      BY <1>1, <1>2, Zenon DEF ModemAnswer, history
    <3>1. HeadAlone
      BY Zenon DEF IInv
    <3>2. ctl # <<>> /\ wire = <<Head(ctl)>> /\ NoResponse
      BY <2>1, <3>1, Zenon DEF HeadAlone
    <3>3. m = Head(ctl) /\ wire' = <<>>
      BY SMTT(30), <2>1, <3>2
    <3>4. \A j \in DOMAIN back' : j # Len(back) + 1 => back'[j].kind = "revoke"
      BY <2>6, <3>2, Zenon DEF NoResponse
    <3> QED
      BY <1>1, <2>2, <2>3, <2>6, <3>2, <3>3, <3>4, Zenon DEF HeadAlone
  <2> QED
    BY SMTT(30), <1>1, <1>2, <2>5, <2>7, <2>8 DEF IInv, MismatchExplained, ModemAnswer, history
<1>3. CASE ModemSilent
  <2>1. wire' \in Seq(Msg) /\ losses' \in 0..MaxLoss /\ losses' # 0
    BY <1>1, <1>3, BoundAssumption DEF ModemSilent, IInv, TypeOK
  <2>2. inStep' = FALSE
    BY <1>3, Zenon DEF ModemSilent
  <2>3. TypeOK'
    BY ZenonT(40), <1>3, <2>1, <2>2 DEF IInv, TypeOK, ModemSilent, proxyVars
  <2> QED
    BY <1>1, <2>1, <2>2, <2>3, Zenon DEF IInv, AnswerOutstanding, MismatchExplained
<1>4. CASE ModemRevoke
  <2> DEFINE a == [kind |-> "revoke", tid |-> ProxyTid, id |-> NoId, ok |-> TRUE]
  <2>1. a \in Answer
    BY Zenon DEF Answer, AllTids
  <2>2. back' = Append(back, a) /\ wire' = wire
    BY <1>4, Zenon DEF ModemRevoke
  <2>3. a.kind = "revoke"
    BY Zenon
  <2> HIDE DEF a
  <2>4. back' \in Seq(Answer)
    BY SMTT(30), <1>1, <2>1, <2>2
  <2>5. revokes' \in 0..MaxRevoke
    BY <1>4, BoundAssumption DEF ModemRevoke, IInv, TypeOK
  <2>6. TypeOK'
    BY <1>4, <2>4, <2>5, Zenon DEF IInv, TypeOK, ModemRevoke, proxyVars
  <2>7. DOMAIN back' = DOMAIN back \union {Len(back) + 1} /\ back'[Len(back) + 1] = a
        /\ (\A i \in DOMAIN back : back'[i] = back[i] /\ i # Len(back) + 1)
    BY SMTT(30), <1>1, <2>1, <2>2
  <2>8. AnswerOutstanding'
    BY ZenonT(40), <1>1, <1>4, <2>2, <2>7 DEF IInv, AnswerOutstanding, ModemRevoke
  <2>9. phase' = "serving" /\ inStep' => HeadAlone'
    <3> SUFFICES ASSUME phase = "serving", inStep PROVE HeadAlone'
      BY <1>1, <1>4, Zenon DEF ModemRevoke
    <3>1. HeadAlone
      BY Zenon DEF IInv
    <3>2. NoResponse => NoResponse'
      BY <2>3, <2>7, Zenon DEF NoResponse
    <3>3. CASE NoResponse
      BY <1>1, <2>2, <3>1, <3>2, <3>3, Zenon DEF HeadAlone, NoResponse
    <3>4. CASE ~NoResponse
      <4>1. ctl # <<>> /\ wire = <<>>
        BY <3>1, <3>4, Zenon DEF HeadAlone
      <4>2. PICK i \in DOMAIN back :
                 /\ Answers(back[i], Head(ctl))
                 /\ back[i].kind # "revoke"
                 /\ \A j \in DOMAIN back : j # i => back[j].kind = "revoke"
        BY <3>1, <3>4, Zenon DEF HeadAlone
      <4>3. i \in DOMAIN back' /\ back'[i] = back[i]
        BY <2>7, Zenon
      <4>4. ASSUME NEW j \in DOMAIN back', j # i
            PROVE  back'[j].kind = "revoke"
        BY <2>3, <2>7, <4>2, <4>4, Zenon
      <4>5. ctl' = ctl /\ wire' = wire
        BY <1>1, <2>2, Zenon
      <4> QED
        BY <4>1, <4>2, <4>3, <4>4, <4>5, Zenon DEF HeadAlone, Answers
    <3> QED
      BY <3>3, <3>4, Zenon
  <2> QED
    BY SMTT(30), <1>1, <1>4, <2>6, <2>8, <2>9 DEF IInv, MismatchExplained, ModemRevoke
<1> QED
  BY <1>2, <1>3, <1>4, Zenon

LEMMA NextInv == IInv /\ [Next]_vars => IInv'
<1> SUFFICES ASSUME IInv, [Next]_vars PROVE IInv'
  BY Zenon
<1>1. CASE OpenDevice \/ SendSync \/ CreateServer \/ LoopExit \/ RecvInSync
  BY <1>1, StartInv, Zenon
<1>2. ASSUME NEW fd \in Fds, Accept(fd) PROVE IInv'
  BY <1>2, AcceptInv, Zenon
<1>3. ASSUME NEW fd \in Fds, Request(fd) PROVE IInv'
  <2>1. ASSUME NEW kind \in {"get", "other"}, ClientRequest(fd, kind, NoId) PROVE IInv'
    <3>1. kind \in Kinds
      BY Zenon DEF Kinds
    <3> QED
      BY <2>1, <3>1, ClientRequestInv, Zenon
  <2>2. ASSUME NEW id \in held[fd], ClientRequest(fd, "release", id) PROVE IInv'
    <3>1. id \in Ids /\ "release" \in Kinds
      BY Zenon DEF IInv, TypeOK, Kinds
    <3> QED
      BY <2>2, <3>1, ClientRequestInv, Zenon
  <2> QED
    BY <1>3, <2>1, <2>2, Zenon DEF Request
<1>4. ASSUME NEW fd \in Fds, Disconnect(fd) PROVE IInv'
  BY <1>4, DisconnectInv, Zenon
<1>5. CASE RecvResponse
  BY <1>5, RecvResponseInv, Zenon
<1>6. CASE RecvStray \/ RecvRevoke
  BY <1>6, RecvOtherInv, Zenon
<1>7. CASE ModemAnswer \/ ModemSilent \/ ModemRevoke
  BY <1>7, ModemInv, Zenon
<1>8. CASE UNCHANGED vars
  BY <1>8, Zenon DEF vars, proxyVars, history, IInv, TypeOK, AnswerOutstanding, HeadAlone,
              NoResponse, Answers, MismatchExplained
<1> QED
  BY <1>1, <1>2, <1>3, <1>4, <1>5, <1>6, <1>7, <1>8, Zenon DEF Next

LEMMA Invariance == Spec => []IInv
BY InitInv, NextInv, PTL DEF Spec

\* Every variable of the proxy and the modem keeps its type: in particular the
\* lists of client ids hold ids the modem gave out, never a failed answer's.
THEOREM ProxyTypeCorrect == Spec => []TypeOK
<1>1. IInv => TypeOK
  BY Zenon DEF IInv
<1> QED
  BY <1>1, Invariance, PTL

\* A pending CTL request always has a message under way that will retire it,
\* whichever clients hung up, as long as the modem swallows no request.
THEOREM PendingNeverStuck == Spec => []AnswerOutstanding
<1>1. IInv => AnswerOutstanding
  BY Zenon DEF IInv
<1> QED
  BY <1>1, Invariance, PTL

\* recv_qmi_from_dev retires a request by an answer that is not its own (the
\* ERROR of line 410) only after a client hung up with its request at the modem,
\* a SYNC was left unanswered or a request was swallowed.
THEOREM MismatchOnlyOutOfStep == Spec => []MismatchExplained
<1>1. IInv => MismatchExplained
  BY Zenon DEF IInv
<1> QED
  BY <1>1, Invariance, PTL

-----------------------------------------------------------------------------
(***************************************************************************)
(* The table of client ids.  Beside the queue and the modem it has to be   *)
(* known who may still name an id: its owner, one release in the queue, or *)
(* the answer that is to be read.                                          *)
(***************************************************************************)
Owns(f, id) == \E i \in 1..Len(owned[f]) : owned[f][i] = id

\* The request i of the queue gives back id.
GivesBack(i, id) == ctl[i].kind = "release" /\ ctl[i].id = id

OwnersApart ==
  /\ \A f \in Fds : \A i, j \in 1..Len(owned[f]) : owned[f][i] = owned[f][j] => i = j
  /\ \A f, g \in Fds, id \in Ids : Owns(f, id) /\ Owns(g, id) => f = g
  /\ \A f \in Fds, id \in Ids : Owns(f, id) => id \in allocated \/ ReleaseUnread(id)
  /\ \A f \in Fds : \A id \in held[f] :
       Owns(f, id) /\ \A i \in 1..Len(ctl) : ~ GivesBack(i, id)

QueueApart ==
  /\ \A i \in 1..Len(ctl) : ctl[i].fd \in conns \cup {ServerFd} /\ ctl[i].kind # "sync"
  /\ \A i \in 1..Len(ctl) : \A id : GivesBack(i, id) =>
       /\ id \in Ids
       /\ ctl[i].fd = ServerFd => \A f \in Fds : ~ Owns(f, id)
       /\ ctl[i].fd # ServerFd => Owns(ctl[i].fd, id)
       /\ id \in allocated \/ (i = 1 /\ ReleaseUnread(id))
       /\ \A j \in 1..Len(ctl) : GivesBack(j, id) => i = j

AnswersApart ==
  \A b \in 1..Len(back) :
    /\ back[b].kind = "release" => back[b].ok /\ GivesBack(1, back[b].id)
    /\ back[b].kind = "get" /\ back[b].ok =>
         /\ back[b].id \in allocated
         /\ \A f \in Fds : ~ Owns(f, back[b].id)
         /\ \A i \in 1..Len(ctl) : ~ GivesBack(i, back[b].id)

Table ==
  /\ \A f \in Fds \ conns : owned[f] = <<>> /\ held[f] = {}
  /\ revokes = 0 => \A b \in 1..Len(back) : back[b].kind # "revoke"
  /\ phase = "serving" /\ inStep /\ oneEach /\ revokes = 0 =>
       OwnersApart /\ QueueApart /\ AnswersApart

\* What WithoutFirst leaves, place by place.
LEMMA WithoutFirstIs ==
  ASSUME NEW S, NEW q \in Seq(S), NEW I \in SUBSET (1..Len(q)), I # {}
  PROVE  /\ First(I) \in I /\ First(I) \in 1..Len(q)
         /\ WithoutFirst(q, I) \in Seq(S) /\ Len(WithoutFirst(q, I)) = Len(q) - 1
         /\ \A i \in 1..(Len(q) - 1) :
              WithoutFirst(q, I)[i] = IF i < First(I) THEN q[i] ELSE q[i + 1]
<1> DEFINE k == First(I)
           s == [i \in 1..(Len(q) - 1) |-> IF i < k THEN q[i] ELSE q[i + 1]]
<1>1. Len(q) \in Nat
  OBVIOUS
<1>2. k \in I /\ k \in 1..Len(q)
  BY Zenon, <1>1, FirstPlace
<1>3. WithoutFirst(q, I) = s
  BY Zenon DEF WithoutFirst
<1> HIDE DEF k
<1>4. s \in Seq(S) /\ Len(s) = Len(q) - 1
  BY <1>1, <1>2
<1> QED
  BY <1>2, <1>3, <1>4, Zenon DEF k

\* In a list without repetition, what is left when an element is taken away.
Distinct(q) == \A i, j \in 1..Len(q) : q[i] = q[j] => i = j
Among(x, q) == \E i \in 1..Len(q) : q[i] = x

LEMMA WithoutIdIs ==
  ASSUME NEW q \in Seq(Ids), NEW id \in Ids, Distinct(q)
  PROVE  /\ Distinct(WithoutFirst(q, {i \in 1..Len(q) : q[i] = id}))
         /\ \A x : Among(x, WithoutFirst(q, {i \in 1..Len(q) : q[i] = id})) <=>
                     x # id /\ Among(x, q)
<1>0. \A i, j \in 1..Len(q) : q[i] = q[j] => i = j
  BY Zenon DEF Distinct
<1> DEFINE I == {i \in 1..Len(q) : q[i] = id}
           s == WithoutFirst(q, I)
           k == First(I)
<1>1. ASSUME I = {} PROVE Distinct(s) /\ \A x : Among(x, s) <=> x # id /\ Among(x, q)
  <2>1. s = q /\ \A i \in 1..Len(q) : q[i] # id
    BY <1>1, Zenon DEF WithoutFirst
  <2>2. Distinct(q) /\ \A x : Among(x, q) <=> x # id /\ Among(x, q)
    BY <2>1, Zenon DEF Among
  <2> QED
    BY <2>1, <2>2, Zenon
<1>2. ASSUME I # {} PROVE Distinct(s) /\ \A x : Among(x, s) <=> x # id /\ Among(x, q)
  <2>7. I \in SUBSET (1..Len(q)) /\ \A i \in I : q[i] = id
    BY Zenon
  <2> HIDE DEF I
  <2>1. /\ k \in I /\ k \in 1..Len(q) /\ Len(s) = Len(q) - 1
        /\ \A i \in 1..(Len(q) - 1) : s[i] = IF i < k THEN q[i] ELSE q[i + 1]
    BY <1>2, <2>7, WithoutFirstIs, Zenon
  <2> HIDE DEF s, k
  <2>2. Len(q) \in Nat /\ q[k] = id
    BY <2>1, <2>7
  <2>3. ASSUME NEW i \in 1..Len(s), NEW j \in 1..Len(s), s[i] = s[j] PROVE i = j
    BY <1>0, <2>1, <2>2, <2>3
  <2>4. ASSUME NEW i \in 1..Len(s)
        PROVE  s[i] # id /\ \E n \in 1..Len(q) : q[n] = s[i]
    BY <1>0, <2>1, <2>2
  <2>5. ASSUME NEW n \in 1..Len(q), q[n] # id PROVE \E i \in 1..Len(s) : s[i] = q[n]
    <3>1. CASE n < k
      <4>1. n \in 1..Len(s) /\ s[n] = q[n]
        BY <2>1, <2>2, <3>1
      <4> QED
        BY <4>1, Zenon
    <3>2. CASE ~(n < k)
      <4>1. n # k
        BY <2>2, <2>5, Zenon
      <4>2. n - 1 \in 1..Len(s) /\ s[n - 1] = q[n]
        BY <2>1, <2>2, <3>2, <4>1
      <4> QED
        BY <4>2, Zenon
    <3> QED
      BY <3>1, <3>2, Zenon
  <2>6. \A x : (\E i \in 1..Len(s) : s[i] = x) <=> x # id /\ \E i \in 1..Len(q) : q[i] = x
    BY <2>4, <2>5, Zenon
  <2>8. Distinct(s)
    BY <2>3, Zenon DEF Distinct
  <2>9. \A x : Among(x, s) <=> x # id /\ Among(x, q)
    BY <2>6, Zenon DEF Among
  <2> QED
    BY <2>8, <2>9, Zenon
<1>3. Distinct(s) /\ \A x : Among(x, s) <=> x # id /\ Among(x, q)
  BY <1>1, <1>2, Zenon
<1> QED
  BY <1>3, Zenon

\* In step and with no revoke: what is under way is the head or its answer.
LEMMA UnderWay ==
  ASSUME IInv, Table, phase = "serving", inStep, revokes = 0
  PROVE  /\ back = <<>> \/ (Len(back) = 1 /\ wire = <<>> /\ ctl # <<>> /\ Answers(back[1], ctl[1]))
         /\ wire = <<>> \/ (wire = <<ctl[1]>> /\ ctl # <<>> /\ back = <<>>)
         /\ ctl = <<>> => back = <<>>
<1>1. /\ ctl \in Seq(Msg) /\ wire \in Seq(Msg) /\ back \in Seq(Answer)
      /\ HeadAlone /\ \A b \in 1..Len(back) : back[b].kind # "revoke"
  BY Zenon DEF IInv, TypeOK, Table
<1>2. DOMAIN back = 1..Len(back) /\ Len(back) \in Nat
  BY <1>1
<1>3. NoResponse => back = <<>>
  BY <1>1, <1>2 DEF NoResponse
<1>4. ctl # <<>> => Head(ctl) = ctl[1]
  BY <1>1
<1>5. ASSUME NEW i \in DOMAIN back, \A j \in DOMAIN back : j # i => back[j].kind = "revoke"
      PROVE  i = 1 /\ Len(back) = 1
  <2>1. \A j \in 1..Len(back) : j = i
    BY <1>1, <1>2, <1>5, Zenon
  <2>2. 1 \in 1..Len(back) /\ Len(back) \in 1..Len(back)
    BY <1>2
  <2> QED
    BY <2>1, <2>2, Zenon
<1>6. CASE ctl = <<>>
  BY <1>1, <1>3, <1>6, Zenon DEF HeadAlone
<1>7. CASE ctl # <<>> /\ wire = <<Head(ctl)>> /\ NoResponse
  BY <1>3, <1>4, <1>7, Zenon
<1>8. CASE ctl # <<>> /\ wire = <<>>
           /\ \E i \in DOMAIN back :
               /\ Answers(back[i], Head(ctl))
               /\ back[i].kind # "revoke"
               /\ \A j \in DOMAIN back : j # i => back[j].kind = "revoke"
  <2>1. Len(back) = 1 /\ Answers(back[1], Head(ctl))
    BY <1>5, <1>8, Zenon
  <2> QED
    BY <1>4, <1>8, <2>1, Zenon
<1> QED
  BY <1>1, <1>6, <1>7, <1>8, Zenon DEF HeadAlone

\* Steps that leave the tables, the queue and what is read alone; connections may
\* be added.
LEMMA SameTable ==
  ASSUME owned' = owned, held' = held, ctl' = ctl, back' = back, allocated' = allocated,
         conns \subseteq conns'
  PROVE  /\ OwnersApart => OwnersApart'
         /\ QueueApart => QueueApart'
         /\ AnswersApart => AnswersApart'
<1>1. /\ \A f, x : Owns(f, x)' <=> Owns(f, x)
      /\ \A i, x : GivesBack(i, x)' <=> GivesBack(i, x)
      /\ \A x : ReleaseUnread(x)' <=> ReleaseUnread(x)
  BY Zenon DEF Owns, GivesBack, ReleaseUnread
<1>2. OwnersApart => OwnersApart'
  BY <1>1 DEF OwnersApart
<1>3. QueueApart => QueueApart'
  BY <1>1 DEF QueueApart
<1>4. AnswersApart => AnswersApart'
  BY <1>1 DEF AnswersApart
<1> QED
  BY <1>2, <1>3, <1>4, Zenon

LEMMA TableBegins == Init => Table
BY DEF Init, Table

\* Start-up and shutdown.
LEMMA TableStart ==
  ASSUME IInv, Table, OpenDevice \/ SendSync \/ CreateServer \/ LoopExit \/ RecvInSync
  PROVE  Table'
<1> USE DEF Table
<1>1. CASE OpenDevice \/ SendSync
  BY <1>1, Zenon DEF OpenDevice, SendSync, history
<1>2. CASE LoopExit
  BY <1>2 DEF LoopExit
<1>3. CASE RecvInSync
  <2>1. /\ back' = Tail(back) /\ back \in Seq(Answer) /\ back # <<>>
        /\ phase' = "sync" /\ owned' = owned /\ held' = held /\ conns' = conns
        /\ revokes' = revokes
    BY <1>3, Zenon DEF RecvInSync, IInv, TypeOK, history
  <2>2. Len(back') = Len(back) - 1 /\ \A b \in 1..Len(back') : back'[b] = back[b + 1]
    BY <2>1
  <2>3. revokes = 0 => \A b \in 1..Len(back') : back'[b].kind # "revoke"
    BY <2>1, <2>2
  <2> QED
    BY <2>1, <2>3, Zenon
<1>4. CASE CreateServer
  <2>1. /\ owned' = owned /\ held' = held /\ conns' = conns /\ ctl' = <<>> /\ conns = {}
        /\ back' = back /\ revokes' = revokes /\ (inStep' => back = <<>>)
    BY <1>4, Zenon DEF CreateServer, IInv
  <2>2. \A f \in Fds : owned'[f] = <<>> /\ held'[f] = {}
    BY <2>1, Zenon
  <2>3. OwnersApart' /\ QueueApart'
    BY SMTT(30), <2>1, <2>2 DEF OwnersApart, QueueApart, Owns
  <2>4. inStep' => AnswersApart'
    BY SMTT(30), <2>1 DEF AnswersApart
  <2> QED
    BY <2>1, <2>3, <2>4, Zenon
<1> QED
  BY <1>1, <1>2, <1>3, <1>4, Zenon

\* A message of no table: nothing of the tables, the queue or what is read
\* changes, but perhaps the connections grow.
LEMMA TableAccept ==
  ASSUME IInv, Table, NEW fd \in Fds, Accept(fd)
  PROVE  Table'
<1>1. /\ phase' = phase /\ conns' = conns \cup {fd} /\ owned' = owned /\ held' = held
      /\ ctl' = ctl /\ back' = back /\ allocated' = allocated /\ inStep' = inStep
      /\ oneEach' = oneEach /\ revokes' = revokes
  BY Zenon DEF Accept, history
<1>2. /\ OwnersApart => OwnersApart'
      /\ QueueApart => QueueApart'
      /\ AnswersApart => AnswersApart'
  <2>1. conns \subseteq conns'
    BY <1>1, Zenon
  <2> QED
    BY <1>1, <2>1, SameTable, Zenon
<1> QED
  BY <1>1, <1>2 DEF Table

\* Out of step, or after a revoke, nothing is claimed.
LEMMA TableModem ==
  ASSUME IInv, Table, ModemSilent \/ ModemRevoke \/ RecvStray \/ RecvRevoke
  PROVE  Table'
<1>1. owned' = owned /\ held' = held /\ conns' = conns /\ back \in Seq(Answer)
      /\ revokes \in Nat
  BY BoundAssumption DEF ModemSilent, ModemRevoke, RecvStray, RecvRevoke, proxyVars, history,
                         IInv, TypeOK
<1>2. CASE ModemSilent
  BY <1>1, <1>2, Zenon DEF ModemSilent, proxyVars, Table
<1>3. CASE ModemRevoke
  <2>1. revokes' # 0
    BY <1>1, <1>3 DEF ModemRevoke
  <2> QED
    BY <1>1, <2>1, Zenon DEF Table
<1>4. CASE RecvStray \/ RecvRevoke
  <2>1. /\ back # <<>> /\ back' = Tail(back) /\ phase' = "serving" /\ phase = "serving"
        /\ inStep' = inStep /\ oneEach' = oneEach /\ revokes' = revokes
        /\ (ctl = <<>> \/ Head(back).kind = "revoke")
    BY <1>4, Zenon DEF RecvStray, RecvRevoke, proxyVars, history
  <2>2. Len(back') = Len(back) - 1 /\ \A b \in 1..Len(back') : back'[b] = back[b + 1]
    BY <1>1, <2>1
  <2>3. revokes = 0 => \A b \in 1..Len(back') : back'[b].kind # "revoke"
    BY <1>1, <2>1, <2>2 DEF Table
  <2>4. revokes = 0 => Head(back).kind # "revoke"
    <3>1. 1 \in 1..Len(back) /\ Head(back) = back[1]
      BY <1>1, <2>1
    <3> QED
      BY <3>1, Zenon DEF Table
  <2>5. ~(inStep /\ revokes = 0)
    BY <2>1, <2>4, UnderWay, Zenon
  <2> QED
    BY <1>1, <2>1, <2>3, <2>5, Zenon DEF Table
<1> QED
  BY <1>2, <1>3, <1>4, Zenon

\* A request joins the queue: a client gives back only what it owns and has not
\* given back yet.
LEMMA TableRequest ==
  ASSUME IInv, Table, NEW fd \in Fds, NEW kind \in Kinds, NEW id \in Ids \cup {NoId},
         ClientRequest(fd, kind, id),
         kind # "sync", kind = "release" => id \in held[fd]
  PROVE  Table'
<1> DEFINE m == [fd |-> fd, kind |-> kind, tid |-> nextTid[fd], id |-> id]
           n == Len(ctl)
<1>1. /\ phase = "serving" /\ phase' = phase /\ fd \in conns /\ conns' = conns
      /\ owned' = owned /\ back' = back /\ allocated' = allocated /\ inStep' = inStep
      /\ oneEach' = oneEach /\ revokes' = revokes /\ ctl' = Append(ctl, m)
      /\ held' = [held EXCEPT ![fd] = @ \ {id}]
  BY Zenon DEF ClientRequest, history
<1>2. m.fd = fd /\ m.kind = kind /\ m.id = id
  BY Zenon
<1> HIDE DEF m
<1>3. /\ ctl \in Seq(Msg) /\ n \in Nat /\ held \in [Fds -> SUBSET Ids]
      /\ owned \in [Fds -> Seq(Ids)]
  BY DEF IInv, TypeOK
<1>4. /\ Len(ctl') = n + 1 /\ ctl'[n + 1] = m /\ \A i \in 1..n : ctl'[i] = ctl[i]
  BY <1>1, <1>3
<1> HIDE DEF n
<1>5. \A f \in Fds : held'[f] = IF f = fd THEN held[f] \ {id} ELSE held[f]
  BY <1>1, <1>3, Zenon
<1>6. \A f \in Fds \ conns : held'[f] = {}
  BY <1>5, Zenon DEF Table
<1> SUFFICES ASSUME inStep, oneEach, revokes = 0
             PROVE  OwnersApart' /\ QueueApart' /\ AnswersApart'
  BY <1>1, <1>6, Zenon DEF Table
<1>7. OwnersApart /\ QueueApart /\ AnswersApart
  BY <1>1, Zenon DEF Table
<1>8. \A f, x : Owns(f, x)' <=> Owns(f, x)
  BY <1>1, Zenon DEF Owns
<1>9. \A x : ReleaseUnread(x)' <=> ReleaseUnread(x)
  BY <1>1, Zenon DEF ReleaseUnread
<1>10. \A i \in 1..n : \A x : GivesBack(i, x)' <=> GivesBack(i, x)
  BY <1>4, Zenon DEF GivesBack
<1>11. ASSUME NEW k, k = n + 1, NEW x PROVE GivesBack(k, x)' <=> kind = "release" /\ x = id
  BY <1>2, <1>4, <1>11, Zenon DEF GivesBack
<1>12. ASSUME kind = "release"
       PROVE  id \in Ids /\ Owns(fd, id) /\ \A i \in 1..n : ~ GivesBack(i, id)
  BY <1>3, <1>7, <1>12, Zenon DEF OwnersApart, n
<1>13. ASSUME ReleaseUnread(id) PROVE kind # "release"
  <2>1. PICK b \in DOMAIN back : back[b].kind = "release" /\ back[b].id = id
    BY <1>13, Zenon DEF ReleaseUnread
  <2>2. DOMAIN back = 1..Len(back) /\ back # <<>>
    BY <2>1 DEF IInv, TypeOK
  <2>3. GivesBack(1, id)
    BY <1>7, <2>1, <2>2, Zenon DEF AnswersApart
  <2>4. ctl # <<>>
    BY <1>1, <2>2, UnderWay, Zenon
  <2>5. 1 \in 1..n
    BY <1>3, <2>4 DEF n
  <2> QED
    BY <1>12, <2>3, <2>5, Zenon
<1>14. kind = "release" => id \in allocated
  BY <1>7, <1>12, <1>13, Zenon DEF OwnersApart
<1>15. OwnersApart'
  <2>1. \A f \in Fds : \A i, j \in 1..Len(owned'[f]) : owned'[f][i] = owned'[f][j] => i = j
    BY <1>1, <1>7, Zenon DEF OwnersApart
  <2>2. \A f, g \in Fds, x \in Ids : Owns(f, x)' /\ Owns(g, x)' => f = g
    BY <1>7, <1>8, Zenon DEF OwnersApart
  <2>3. \A f \in Fds, x \in Ids : Owns(f, x)' => x \in allocated' \/ ReleaseUnread(x)'
    BY <1>1, <1>7, <1>8, <1>9, Zenon DEF OwnersApart
  <2>4. ASSUME NEW f \in Fds, NEW x \in held'[f]
        PROVE  Owns(f, x)' /\ \A i \in 1..Len(ctl') : ~ GivesBack(i, x)'
    <3>1. x \in held[f] /\ (f = fd => x # id)
      BY <1>5, Zenon
    <3>2. x \in Ids /\ Owns(f, x) /\ \A i \in 1..n : ~ GivesBack(i, x)
      BY <1>3, <1>7, <3>1, Zenon DEF OwnersApart, n
    <3>3. kind = "release" => x # id
      BY <1>7, <1>12, <3>1, <3>2 DEF OwnersApart
    <3>4. \A i \in 1..Len(ctl') : i \in 1..n \/ i = n + 1
      BY <1>3, <1>4
    <3>5. ASSUME NEW i \in 1..Len(ctl') PROVE ~ GivesBack(i, x)'
      BY <1>10, <1>11, <3>2, <3>3, <3>4, Zenon
    <3> QED
      BY <1>8, <3>2, <3>5, Zenon
  <2> QED
    BY <2>1, <2>2, <2>3, <2>4, Zenon DEF OwnersApart
<1>16. QueueApart'
  <2>1. \A i \in 1..Len(ctl') : ctl'[i].fd \in conns' \cup {ServerFd} /\ ctl'[i].kind # "sync"
    BY SMTT(30), <1>1, <1>2, <1>3, <1>4, <1>7 DEF QueueApart, n
  <2>2. ASSUME NEW i \in 1..Len(ctl'), NEW x, GivesBack(i, x)'
        PROVE  /\ x \in Ids
               /\ ctl'[i].fd = ServerFd => \A f \in Fds : ~ Owns(f, x)'
               /\ ctl'[i].fd # ServerFd => Owns(ctl'[i].fd, x)
               /\ x \in allocated' \/ (i = 1 /\ ReleaseUnread(x)')
               /\ \A j \in 1..Len(ctl') : GivesBack(j, x)' => i = j
    <3>1. CASE i \in 1..n
      <4>1. GivesBack(i, x) /\ ctl'[i] = ctl[i]
        BY <1>4, <1>10, <2>2, <3>1, Zenon
      <4>2. /\ x \in Ids
            /\ ctl[i].fd = ServerFd => \A f \in Fds : ~ Owns(f, x)
            /\ ctl[i].fd # ServerFd => Owns(ctl[i].fd, x)
            /\ x \in allocated \/ (i = 1 /\ ReleaseUnread(x))
            /\ \A j \in 1..n : GivesBack(j, x) => i = j
        BY <1>7, <3>1, <4>1, Zenon DEF QueueApart, n
      <4>3. ASSUME NEW j \in 1..Len(ctl'), GivesBack(j, x)' PROVE i = j
        <5>1. j \in 1..n \/ j = n + 1
          BY <1>3, <1>4 DEF n
        <5>2. j # n + 1
          BY <1>11, <1>12, <3>1, <4>1, <4>3
        <5> QED
          BY <1>10, <4>2, <4>3, <5>1, <5>2, Zenon
      <4> QED
        BY <1>1, <1>8, <1>9, <4>1, <4>2, <4>3, Zenon
    <3>2. CASE i = n + 1
      <4>1. kind = "release" /\ x = id /\ ctl'[i].fd = fd /\ fd # ServerFd
        BY <1>2, <1>4, <1>11, <2>2, <3>2, ServerFdAssumption, Zenon
      <4>2. ASSUME NEW j \in 1..Len(ctl'), GivesBack(j, x)' PROVE i = j
        <5>1. j \in 1..n \/ j = n + 1
          BY <1>3, <1>4 DEF n
        <5>2. j \notin 1..n
          BY <1>10, <1>12, <4>1, <4>2, Zenon
        <5> QED
          BY <3>2, <5>1, <5>2, Zenon
      <4> QED
        BY <1>1, <1>12, <1>14, <4>1, <4>2, Zenon
    <3> QED
      BY <1>3, <1>4, <3>1, <3>2 DEF n
  <2>3. ASSUME NEW i \in 1..Len(ctl'), NEW x, GivesBack(i, x)', ctl'[i].fd # ServerFd
        PROVE  Owns(ctl[i].fd, x)'
    <3>1. Owns(ctl'[i].fd, x)
      BY <2>2, <2>3, Zenon
    <3> QED
      BY <1>1, <3>1, Zenon DEF Owns
  <2> QED
    BY <2>1, <2>2, <2>3, Zenon DEF QueueApart
<1>17. AnswersApart'
  <2> SUFFICES ASSUME NEW b \in 1..Len(back)
               PROVE  /\ back[b].kind = "release" => back[b].ok /\ GivesBack(1, back[b].id)'
                      /\ back[b].kind = "get" /\ back[b].ok =>
                           /\ back[b].id \in allocated
                           /\ \A f \in Fds : ~ Owns(f, back[b].id)
                           /\ \A i \in 1..Len(ctl') : ~ GivesBack(i, back[b].id)'
    BY <1>1, <1>8, Zenon DEF AnswersApart, Owns
  <2>1. 1 \in 1..n
    BY <1>1, <1>3, UnderWay DEF n
  <2>2. back[b].kind = "release" => back[b].ok /\ GivesBack(1, back[b].id)'
    BY SMTT(30), <1>1, <1>7, <1>10, <2>1 DEF AnswersApart, GivesBack
  <2>3. ASSUME back[b].kind = "get", back[b].ok, NEW i \in 1..Len(ctl')
        PROVE  ~ GivesBack(i, back[b].id)'
    <3>1. (\A f \in Fds : ~ Owns(f, back[b].id)) /\ \A j \in 1..n : ~ GivesBack(j, back[b].id)
      BY <1>7, <2>3, Zenon DEF AnswersApart, n
    <3>2. PICK x : x = back[b].id
      BY Zenon
    <3>3. ~ GivesBack(i, x)'
      BY <1>3, <1>4, <1>10, <1>11, <1>12, <3>1, <3>2 DEF n
    <3> QED
      BY <1>1, <3>2, <3>3, Zenon
  <2> QED
    BY <1>7, <2>2, <2>3, Zenon DEF AnswersApart
<1> QED
  BY <1>15, <1>16, <1>17, Zenon

\* The modem answers the head: a get names an id that nobody can name, and a
\* release finds its id in use.
LEMMA TableAnswer ==
  ASSUME IInv, Table, ModemAnswer
  PROVE  Table'
<1> DEFINE m == Head(wire)
<1>1. /\ phase' = phase /\ conns' = conns /\ owned' = owned /\ held' = held /\ ctl' = ctl
      /\ inStep' = inStep /\ oneEach' = oneEach /\ revokes' = revokes /\ wire # <<>>
      /\ back \in Seq(Answer) /\ ctl \in Seq(Msg) /\ wire \in Seq(Msg)
  BY Zenon DEF ModemAnswer, proxyVars, history, IInv, TypeOK
<1>2. PICK id, ok :
        /\ back' = Append(back, [kind |-> m.kind, tid |-> m.tid, id |-> id, ok |-> ok])
        /\ \/ m.kind = "sync"
           \/ m.kind = "other" /\ allocated' = allocated
           \/ m.kind = "get" /\ ok /\ id \in Ids \ allocated /\ allocated' = allocated \cup {id}
           \/ m.kind = "get" /\ ok = FALSE /\ allocated' = allocated
           \/ /\ m.kind = "release" /\ id = m.id /\ ok = (m.id \in allocated)
              /\ allocated' = allocated \ {m.id}
  BY ZenonT(40) DEF ModemAnswer, Reply
<1> DEFINE a == [kind |-> m.kind, tid |-> m.tid, id |-> id, ok |-> ok]
<1>3. a.kind = m.kind /\ a.id = id /\ a.ok = ok
  BY Zenon
<1>4. back' = Append(back, a)
  BY <1>2, Zenon
<1> HIDE DEF a
<1>5. /\ Len(back') = Len(back) + 1 /\ back'[Len(back) + 1] = a
      /\ \A b \in 1..Len(back) : back'[b] = back[b]
  BY <1>1, <1>4
<1>6. m.kind # "revoke"
  <2>1. m \in Msg
    BY <1>1
  <2> QED
    BY <2>1, Zenon DEF Msg, Kinds
<1>7. revokes = 0 => \A b \in 1..Len(back') : back'[b].kind # "revoke"
  BY SMTT(30), <1>1, <1>3, <1>5, <1>6 DEF Table
<1> SUFFICES ASSUME phase = "serving", inStep, oneEach, revokes = 0
             PROVE  OwnersApart' /\ QueueApart' /\ AnswersApart'
  BY <1>1, <1>7, Zenon DEF Table
<1>8. OwnersApart /\ QueueApart /\ AnswersApart
  BY Zenon DEF Table
<1>9. back = <<>> /\ ctl # <<>> /\ wire = <<ctl[1]>>
  BY <1>1, UnderWay, Zenon
<1>10. m = ctl[1] /\ 1 \in 1..Len(ctl)
  BY <1>1, <1>9
<1>11. Len(back') = 1 /\ back'[1] = a /\ DOMAIN back' = 1..1
  BY <1>4, <1>5, <1>9
<1>12. \A x : ~ ReleaseUnread(x)
  BY <1>9 DEF ReleaseUnread
<1>13. \A f, x : Owns(f, x)' <=> Owns(f, x)
  BY <1>1, Zenon DEF Owns
<1>14. \A i, x : GivesBack(i, x)' <=> GivesBack(i, x)
  BY <1>1, Zenon DEF GivesBack
<1>15. \A f \in Fds, x \in Ids : Owns(f, x) => x \in allocated
  BY <1>8, <1>12, Zenon DEF OwnersApart
<1>16. \A i \in 1..Len(ctl) : \A x : GivesBack(i, x) => x \in allocated
  BY <1>8, <1>12, Zenon DEF QueueApart
<1> HIDE DEF m
<1>17. m.kind # "sync"
  BY <1>8, <1>10, Zenon DEF QueueApart
<1>18. /\ a.kind = "release" => a.ok /\ GivesBack(1, id)
       /\ a.kind = "get" /\ a.ok => id \in allocated' /\ id \in Ids /\ id \notin allocated
       /\ \A x \in allocated : x \in allocated' \/ (GivesBack(1, x) /\ a.kind = "release"
                                                    /\ a.id = x /\ a.ok)
  <2>1. CASE m.kind = "release"
    <3>1. GivesBack(1, m.id)
      BY <1>10, <2>1, Zenon DEF GivesBack
    <3>2. m.id \in allocated
      BY <1>10, <1>16, <3>1, Zenon
    <3> QED
      BY <1>2, <1>3, <2>1, <3>1, <3>2, Zenon
  <2>2. CASE m.kind # "release"
    BY <1>2, <1>3, <1>17, <2>2, Zenon
  <2> QED
    BY <2>1, <2>2, Zenon
<1>19. \A x \in allocated : x \in allocated' \/ (GivesBack(1, x) /\ ReleaseUnread(x)')
  BY <1>11, <1>18 DEF ReleaseUnread
<1>20. OwnersApart'
  <2>1. \A f \in Fds : \A i, j \in 1..Len(owned'[f]) : owned'[f][i] = owned'[f][j] => i = j
    BY <1>1, <1>8, Zenon DEF OwnersApart
  <2>2. \A f, g \in Fds, x \in Ids : Owns(f, x)' /\ Owns(g, x)' => f = g
    BY <1>8, <1>13, Zenon DEF OwnersApart
  <2>3. \A f \in Fds, x \in Ids : Owns(f, x)' => x \in allocated' \/ ReleaseUnread(x)'
    BY <1>13, <1>15, <1>19, Zenon
  <2>4. \A f \in Fds : \A x \in held'[f] :
          Owns(f, x)' /\ \A i \in 1..Len(ctl') : ~ GivesBack(i, x)'
    BY <1>1, <1>8, <1>13, <1>14, Zenon DEF OwnersApart
  <2> QED
    BY <2>1, <2>2, <2>3, <2>4, Zenon DEF OwnersApart
<1>21. QueueApart'
  <2>1. \A i \in 1..Len(ctl') : ctl'[i].fd \in conns' \cup {ServerFd} /\ ctl'[i].kind # "sync"
    BY <1>1, <1>8, Zenon DEF QueueApart
  <2>2. ASSUME NEW i \in 1..Len(ctl), NEW x, GivesBack(i, x)
        PROVE  /\ x \in Ids
               /\ ctl[i].fd = ServerFd => \A f \in Fds : ~ Owns(f, x)
               /\ ctl[i].fd # ServerFd => Owns(ctl[i].fd, x)
               /\ x \in allocated' \/ (i = 1 /\ ReleaseUnread(x)')
               /\ \A j \in 1..Len(ctl) : GivesBack(j, x) => i = j
    <3>1. /\ x \in Ids
          /\ ctl[i].fd = ServerFd => \A f \in Fds : ~ Owns(f, x)
          /\ ctl[i].fd # ServerFd => Owns(ctl[i].fd, x)
          /\ \A j \in 1..Len(ctl) : GivesBack(j, x) => i = j
      BY <1>8, <2>2, Zenon DEF QueueApart
    <3>2. x \in allocated' \/ (i = 1 /\ ReleaseUnread(x)')
      BY <1>10, <1>16, <1>19, <2>2, <3>1, Zenon
    <3> QED
      BY <3>1, <3>2, Zenon
  <2>3. \A i, x : Owns(ctl[i].fd, x)' <=> Owns(ctl[i].fd, x)
    BY <1>1, Zenon DEF Owns
  <2> QED
    BY <1>1, <1>13, <1>14, <2>1, <2>2, <2>3, Zenon DEF QueueApart
<1>22. AnswersApart'
  <2>1. a.kind = "get" /\ a.ok =>
          /\ id \in allocated'
          /\ \A f \in Fds : ~ Owns(f, id)
          /\ \A i \in 1..Len(ctl) : ~ GivesBack(i, id)
    BY <1>15, <1>16, <1>18, Zenon
  <2>2. \A f : Owns(f, back[1].id)' <=> Owns(f, id)
    BY <1>1, <1>3, <1>11, Zenon DEF Owns
  <2>3. \A i : GivesBack(i, back[1].id)' <=> GivesBack(i, id)
    BY <1>1, <1>3, <1>11, Zenon DEF GivesBack
  <2> SUFFICES ASSUME NEW b \in 1..Len(back')
               PROVE  /\ back'[b].kind = "release" => back'[b].ok /\ GivesBack(1, back[b].id)'
                      /\ back'[b].kind = "get" /\ back'[b].ok =>
                           /\ back'[b].id \in allocated'
                           /\ \A f \in Fds : ~ Owns(f, back[b].id)'
                           /\ \A i \in 1..Len(ctl') : ~ GivesBack(i, back[b].id)'
    BY Zenon DEF AnswersApart
  <2>4. b = 1
    BY <1>11
  <2> QED
    BY <1>1, <1>3, <1>11, <1>18, <2>1, <2>2, <2>3, <2>4, Zenon
<1> QED
  BY <1>20, <1>21, <1>22, Zenon

\* The answer to the head is read: the id it names joins the list of the client
\* that asked, or leaves the list it was in.
LEMMA TableResponse ==
  ASSUME IInv, Table, RecvResponse
  PROVE  Table'
<1> DEFINE r == Head(back)
           m == Head(ctl)
           got == m.fd \in conns /\ r.kind = "get" /\ r.ok
<1>1. /\ phase = "serving" /\ phase' = phase /\ conns' = conns /\ allocated' = allocated
      /\ inStep' = inStep /\ oneEach' = oneEach /\ revokes' = revokes
      /\ ctl' = Tail(ctl) /\ back' = Tail(back) /\ ctl # <<>> /\ back # <<>>
      /\ back \in Seq(Answer) /\ ctl \in Seq(Msg) /\ wire \in Seq(Msg)
      /\ owned \in [Fds -> Seq(Ids)] /\ held \in [Fds -> SUBSET Ids] /\ conns \subseteq Fds
  BY Zenon DEF RecvResponse, IInv, TypeOK
<1>2. /\ owned' = IF Answers(r, m) /\ m.fd \in conns
                  THEN [owned EXCEPT ![m.fd] = IdsAfter(@, r)] ELSE owned
      /\ held' = IF (Answers(r, m) /\ m.fd \in conns) /\ r.kind = "get" /\ r.ok
                 THEN [held EXCEPT ![m.fd] = @ \union {r.id}] ELSE held
  BY Zenon DEF RecvResponse
<1>3. r = back[1] /\ m = ctl[1] /\ 1 \in 1..Len(ctl) /\ 1 \in 1..Len(back) /\ r \in Answer
  BY <1>1
<1>4. /\ Len(ctl') = Len(ctl) - 1 /\ \A i \in 1..Len(ctl') : ctl'[i] = ctl[i + 1]
      /\ Len(back') = Len(back) - 1 /\ \A b \in 1..Len(back') : back'[b] = back[b + 1]
      /\ Len(ctl) \in Nat /\ Len(back) \in Nat
  BY <1>1
<1>5. ASSUME revokes = 0, NEW b \in 1..Len(back') PROVE back'[b].kind # "revoke"
  <2>1. b + 1 \in 1..Len(back) /\ back'[b] = back[b + 1]
    BY <1>4
  <2> QED
    BY <1>5, <2>1, Zenon DEF Table
<1> HIDE DEF r, m
<1>6. \A f \in Fds \ conns : owned'[f] = <<>> /\ held'[f] = {}
  BY <1>1, <1>2, Zenon DEF Table
<1> SUFFICES ASSUME inStep, oneEach, revokes = 0
             PROVE  OwnersApart' /\ QueueApart' /\ AnswersApart'
  BY <1>1, <1>5, <1>6, Zenon DEF Table
<1>7. OwnersApart /\ QueueApart /\ AnswersApart
  BY <1>1, Zenon DEF Table
<1>8. Len(back) = 1 /\ Answers(r, m)
  BY <1>1, <1>3, UnderWay, Zenon
<1>9. Len(back') = 0 /\ DOMAIN back = 1..1
  BY <1>1, <1>4, <1>8
<1>10. \A x : ReleaseUnread(x) => r.kind = "release" /\ r.id = x
  BY <1>3, <1>9 DEF ReleaseUnread
<1>11. r.kind = "release" => r.ok /\ GivesBack(1, r.id)
  BY <1>3, <1>7, Zenon DEF AnswersApart
<1>12. r.kind = "get" /\ r.ok =>
         /\ r.id \in allocated /\ r.id \in Ids
         /\ \A f \in Fds : ~ Owns(f, r.id)
         /\ \A i \in 1..Len(ctl) : ~ GivesBack(i, r.id)
  <2>1. r.kind = "get" /\ r.ok => r.id \in Ids
    BY <1>3, Zenon DEF Answer
  <2> QED
    BY <1>3, <1>7, <2>1, Zenon DEF AnswersApart
<1>13. r.kind = "release" =>
         /\ r.id \in Ids
         /\ m.fd = ServerFd => \A f \in Fds : ~ Owns(f, r.id)
         /\ m.fd # ServerFd => Owns(m.fd, r.id)
         /\ \A i \in 1..Len(ctl) : GivesBack(i, r.id) => i = 1
  BY <1>3, <1>7, <1>11, Zenon DEF QueueApart
<1>14. m.fd \in conns \/ m.fd = ServerFd
  BY <1>3, <1>7, Zenon DEF QueueApart
<1>15. /\ \A f \in Fds : \A i, j \in 1..Len(owned'[f]) : owned'[f][i] = owned'[f][j] => i = j
       /\ \A f \in Fds, x \in Ids : Owns(f, x)' <=>
            \/ Owns(f, x) /\ ~(r.kind = "release" /\ x = r.id)
            \/ got /\ f = m.fd /\ x = r.id
  <2>1. \A f \in Fds : \A i, j \in 1..Len(owned[f]) : owned[f][i] = owned[f][j] => i = j
    BY <1>7, Zenon DEF OwnersApart
  <2>2. CASE got
    <3>1. /\ m.fd \in Fds /\ owned[m.fd] \in Seq(Ids) /\ r.id \in Ids
          /\ owned' = [owned EXCEPT ![m.fd] = Append(owned[m.fd], r.id)]
      BY <1>1, <1>2, <1>8, <1>12, <2>2, Zenon DEF IdsAfter
    <3> DEFINE q == owned[m.fd]
    <3>2. owned'[m.fd] = Append(q, r.id) /\ \A f \in Fds \ {m.fd} : owned'[f] = owned[f]
      BY <1>1, <3>1, Zenon
    <3>3. \A i \in 1..Len(q) : q[i] # r.id
      BY <1>12, <2>2, <3>1, Zenon DEF Owns
    <3>4. \A i, j \in 1..Len(q) : q[i] = q[j] => i = j
      BY <2>1, <3>1, Zenon
    <3> HIDE DEF q
    <3> DEFINE s == Append(q, r.id)
    <3>5. q \in Seq(Ids) /\ Len(q) \in Nat
      BY <3>1 DEF q
    <3>6. Len(s) = Len(q) + 1 /\ s[Len(q) + 1] = r.id /\ \A i \in 1..Len(q) : s[i] = q[i]
      BY <3>1, <3>5
    <3> HIDE DEF s
    <3>7. \A i, j \in 1..Len(s) : s[i] = s[j] => i = j
      BY <3>3, <3>4, <3>5, <3>6
    <3>8. \A x : (\E i \in 1..Len(s) : s[i] = x) <=> (\E i \in 1..Len(q) : q[i] = x) \/ x = r.id
      <4>1. \A x : (\E i \in 1..Len(q) : q[i] = x) => \E i \in 1..Len(s) : s[i] = x
        BY <3>5, <3>6
      <4>2. \E i \in 1..Len(s) : s[i] = r.id
        BY <3>5, <3>6
      <4>3. \A i \in 1..Len(s) : s[i] = r.id \/ \E j \in 1..Len(q) : q[j] = s[i]
        BY <3>5, <3>6
      <4> QED
        BY <4>1, <4>2, <4>3, Zenon
    <3>9. owned'[m.fd] = s
      BY <3>2, Zenon DEF s
    <3>10. \A f \in Fds : \A i, j \in 1..Len(owned'[f]) : owned'[f][i] = owned'[f][j] => i = j
      BY <2>1, <3>2, <3>7, <3>9
    <3>11. \A x : Owns(m.fd, x) <=> \E i \in 1..Len(q) : q[i] = x
      BY Zenon DEF Owns, q
    <3>12. ASSUME NEW f \in Fds, NEW x \in Ids
           PROVE  Owns(f, x)' <=> Owns(f, x) \/ (f = m.fd /\ x = r.id)
      <4>1. CASE f = m.fd
        BY <3>8, <3>9, <3>11, <4>1, Zenon DEF Owns
      <4>2. CASE f # m.fd
        BY <3>2, <4>2, Zenon DEF Owns
      <4> QED
        BY <4>1, <4>2, Zenon
    <3>13. r.kind # "release"
      BY <2>2, Zenon
    <3> QED
      BY <2>2, <3>10, <3>12, <3>13, Zenon
  <2>3. CASE r.kind = "release" /\ m.fd \in conns
    <3> DEFINE q == owned[m.fd]
               s == WithoutFirst(q, {i \in 1..Len(q) : q[i] = r.id})
    <3>1. /\ m.fd \in Fds /\ q \in Seq(Ids) /\ r.id \in Ids /\ r.ok
          /\ owned' = [owned EXCEPT ![m.fd] = s]
      BY <1>1, <1>2, <1>8, <1>11, <1>13, <2>3, Zenon DEF IdsAfter
    <3>2. owned'[m.fd] = s /\ \A f \in Fds \ {m.fd} : owned'[f] = owned[f]
      BY <1>1, <3>1, Zenon
    <3>3. \A i, j \in 1..Len(q) : q[i] = q[j] => i = j
      BY <2>1, <3>1, Zenon
    <3>5. \A x : Owns(m.fd, x) <=> \E i \in 1..Len(q) : q[i] = x
      BY Zenon DEF Owns
    <3>9. q \in Seq(Ids) /\ r.id \in Ids
      BY <3>1, Zenon
    <3>4. /\ \A i, j \in 1..Len(s) : s[i] = s[j] => i = j
          /\ \A x : (\E i \in 1..Len(s) : s[i] = x) <=>
                      x # r.id /\ \E i \in 1..Len(q) : q[i] = x
      <4> HIDE DEF q, r
      <4>1. Distinct(q)
        BY <3>3, Zenon DEF Distinct
      <4>2. Distinct(s) /\ \A x : Among(x, s) <=> x # r.id /\ Among(x, q)
        BY <3>9, <4>1, WithoutIdIs, Zenon
      <4> HIDE DEF s
      <4> QED
        BY <4>2, Zenon DEF Distinct, Among
    <3> HIDE DEF q, s
    <3>6. \A f \in Fds : \A i, j \in 1..Len(owned'[f]) : owned'[f][i] = owned'[f][j] => i = j
      BY <2>1, <3>2, <3>4
    <3>7. \A f \in Fds : f # m.fd => ~ Owns(f, r.id)
      <4>1. m.fd # ServerFd
        BY <3>1, ServerFdAssumption, Zenon
      <4> QED
        BY <1>7, <1>13, <2>3, <3>1, <4>1, Zenon DEF OwnersApart
    <3>8. ASSUME NEW f \in Fds, NEW x \in Ids PROVE Owns(f, x)' <=> Owns(f, x) /\ x # r.id
      <4>1. CASE f = m.fd
        <5>1. Owns(f, x)' <=> \E i \in 1..Len(s) : s[i] = x
          BY <3>2, <4>1, Zenon DEF Owns
        <5> QED
          BY <3>4, <3>5, <4>1, <5>1, Zenon
      <4>2. CASE f # m.fd
        <5>1. Owns(f, x)' <=> Owns(f, x)
          BY <3>2, <4>2, Zenon DEF Owns
        <5> QED
          BY <3>7, <4>2, <5>1, Zenon
      <4> QED
        BY <4>1, <4>2, Zenon
    <3> QED
      BY <2>3, <3>6, <3>8, Zenon
  <2>4. CASE ~ got /\ ~(r.kind = "release" /\ m.fd \in conns)
    <3>1. owned' = owned
      BY <1>1, <1>2, <2>4, Zenon DEF IdsAfter
    <3>2. \A f, x : Owns(f, x)' <=> Owns(f, x)
      BY <3>1, Zenon DEF Owns
    <3>3. r.kind = "release" => \A f \in Fds : ~ Owns(f, r.id)
      BY <1>13, <1>14, <2>4, Zenon
    <3> QED
      BY <2>1, <2>4, <3>1, <3>2, <3>3, Zenon
  <2> QED
    BY <2>2, <2>3, <2>4, Zenon
<1>16. \A f \in Fds : held'[f] = held[f] \cup (IF got /\ f = m.fd THEN {r.id} ELSE {})
  BY <1>1, <1>2, <1>8, Zenon
<1>17. \A i \in 1..Len(ctl') : i + 1 \in 1..Len(ctl) /\ \A x : GivesBack(i, x)' <=> GivesBack(i + 1, x)
  BY <1>4 DEF GivesBack
<1>18. ASSUME r.kind = "release", NEW i \in 1..Len(ctl'), NEW x, GivesBack(i, x)'
       PROVE  x # r.id
  <2>1. i + 1 \in 1..Len(ctl) /\ GivesBack(i + 1, x) /\ i + 1 # 1
    BY <1>4, <1>17, <1>18
  <2> QED
    BY <1>13, <1>18, <2>1, Zenon
<1> HIDE DEF got
<1>19. got => r.kind = "get" /\ r.ok /\ m.fd \in Fds
  BY <1>1, Zenon DEF got
<1>20. OwnersApart'
  <2>1. \A f, g \in Fds, x \in Ids : Owns(f, x)' /\ Owns(g, x)' => f = g
    BY <1>7, <1>12, <1>15, <1>19 DEF OwnersApart
  <2>2. \A f \in Fds, x \in Ids : Owns(f, x)' => x \in allocated' \/ ReleaseUnread(x)'
    BY <1>1, <1>7, <1>10, <1>12, <1>15, <1>19, Zenon DEF OwnersApart
  <2>3. ASSUME NEW f \in Fds, NEW x \in held'[f]
        PROVE  Owns(f, x)' /\ \A i \in 1..Len(ctl') : ~ GivesBack(i, x)'
    <3>1. CASE x \in held[f]
      <4>1. x \in Ids /\ Owns(f, x) /\ \A i \in 1..Len(ctl) : ~ GivesBack(i, x)
        BY <1>1, <1>7, <3>1, Zenon DEF OwnersApart
      <4>2. ~(r.kind = "release" /\ x = r.id)
        BY <1>3, <1>11, <4>1, Zenon
      <4> QED
        BY <1>15, <1>17, <4>1, <4>2, Zenon
    <3>2. CASE got /\ f = m.fd /\ x = r.id
      BY <1>12, <1>15, <1>17, <1>19, <3>2, Zenon
    <3> QED
      BY <1>16, <3>1, <3>2, Zenon
  <2> QED
    BY <1>15, <2>1, <2>2, <2>3, Zenon DEF OwnersApart
<1>21. QueueApart'
  <2>1. \A i \in 1..Len(ctl') : ctl'[i].fd \in conns' \cup {ServerFd} /\ ctl'[i].kind # "sync"
    BY <1>1, <1>4, <1>7 DEF QueueApart
  <2>2. ASSUME NEW i \in 1..Len(ctl'), NEW x, GivesBack(i, x)'
        PROVE  /\ x \in Ids
               /\ ctl'[i].fd = ServerFd => \A f \in Fds : ~ Owns(f, x)'
               /\ ctl'[i].fd # ServerFd => Owns(ctl[i].fd, x)'
               /\ x \in allocated'
               /\ \A j \in 1..Len(ctl') : GivesBack(j, x)' => i = j
    <3> DEFINE k == i + 1
    <3>1. k \in 1..Len(ctl) /\ GivesBack(k, x) /\ k # 1 /\ ctl'[i] = ctl[k]
      BY <1>4, <1>17, <2>2
    <3> HIDE DEF k
    <3>2. /\ x \in Ids
          /\ ctl[k].fd = ServerFd => \A f \in Fds : ~ Owns(f, x)
          /\ ctl[k].fd # ServerFd => Owns(ctl[k].fd, x)
          /\ x \in allocated
          /\ \A j \in 1..Len(ctl) : GivesBack(j, x) => k = j
      BY <1>7, <3>1, Zenon DEF QueueApart
    <3>3. ~(r.kind = "release" /\ x = r.id) /\ (got => x # r.id)
      BY <1>12, <1>18, <1>19, <2>2, <3>1, Zenon
    <3>4. \A f \in Fds : Owns(f, x)' <=> Owns(f, x)
      BY <1>15, <3>2, <3>3, Zenon
    <3>5. ASSUME ctl'[i].fd # ServerFd PROVE Owns(ctl[i].fd, x)'
      <4>1. PICK f \in Fds : f = ctl'[i].fd
        BY <1>1, <2>1, <3>5, Zenon
      <4>2. Owns(f, x)'
        BY <3>1, <3>2, <3>4, <3>5, <4>1, Zenon
      <4> QED
        BY <4>1, <4>2, Zenon
    <3>6. \A j \in 1..Len(ctl') : GivesBack(j, x)' => i = j
      BY <1>4, <1>17, <3>2 DEF k
    <3> QED
      BY <1>1, <3>1, <3>2, <3>4, <3>5, <3>6, Zenon
  <2> QED
    BY <2>1, <2>2, Zenon DEF QueueApart
<1>22. AnswersApart'
  BY <1>9 DEF AnswersApart
<1> QED
  BY <1>20, <1>21, <1>22, Zenon

\* Where the message at place i of a queue without the first one of connection
\* fd was before.
Place(q, fd, i) ==
  LET I == {k \in 1..Len(q) : q[k].fd = fd}
  IN  IF I = {} THEN i ELSE IF i < First(I) THEN i ELSE i + 1

\* Two lists, one behind the other.
LEMMA Joined ==
  ASSUME NEW S, NEW a \in Seq(S), NEW b \in Seq(S), NEW m, NEW n, m = Len(a), n = Len(b)
  PROVE  /\ a \o b \in Seq(S) /\ Len(a \o b) = m + n
         /\ \A k \in 1..Len(a \o b) : (a \o b)[k] = IF k <= m THEN a[k] ELSE b[k - m]
OBVIOUS

\* DropFirst leaves no message of a connection that had at most one.
LEMMA DropFirstIs ==
  ASSUME NEW q \in Seq(Msg), NEW fd,
         \A i, j \in 1..Len(q) : q[i].fd = fd /\ q[j].fd = fd => i = j
  PROVE  LET s == DropFirst(q, fd)
         IN  /\ s \in Seq(Msg)
             /\ \A i \in 1..Len(s) :
                  /\ Place(q, fd, i) \in 1..Len(q) /\ Place(q, fd, i) >= i
                  /\ s[i] = q[Place(q, fd, i)] /\ s[i].fd # fd
             /\ \A i, j \in 1..Len(s) : Place(q, fd, i) = Place(q, fd, j) => i = j
<1> DEFINE I == {k \in 1..Len(q) : q[k].fd = fd}
           s == WithoutFirst(q, I)
<1>1. DropFirst(q, fd) = s
  BY Zenon DEF DropFirst
<1>2. \A i : Place(q, fd, i) = IF I = {} THEN i ELSE IF i < First(I) THEN i ELSE i + 1
  BY Zenon DEF Place
<1>3. I \in SUBSET (1..Len(q)) /\ \A k \in 1..Len(q) : k \in I <=> q[k].fd = fd
  BY Zenon
<1>4. Len(q) \in Nat
  OBVIOUS
<1> HIDE DEF I
<1>5. CASE I = {}
  <2>1. s = q
    BY <1>5, Zenon DEF WithoutFirst
  <2> QED
    BY <1>1, <1>2, <1>3, <1>4, <1>5, <2>1
<1>6. CASE I # {}
  <2> DEFINE k == First(I)
  <2>1. /\ k \in I /\ k \in 1..Len(q) /\ s \in Seq(Msg) /\ Len(s) = Len(q) - 1
        /\ \A i \in 1..(Len(q) - 1) : s[i] = IF i < k THEN q[i] ELSE q[i + 1]
    BY <1>3, <1>6, WithoutFirstIs, Zenon
  <2>2. \A i : Place(q, fd, i) = IF i < k THEN i ELSE i + 1
    BY <1>2, <1>6, Zenon
  <2> HIDE DEF s, k
  <2>3. \A j \in 1..Len(q) : q[j].fd = fd => j = k
    BY <1>3, <2>1, Zenon
  <2>4. ASSUME NEW i \in 1..Len(s)
        PROVE  /\ Place(q, fd, i) \in 1..Len(q) /\ Place(q, fd, i) >= i
               /\ s[i] = q[Place(q, fd, i)] /\ s[i].fd # fd
    <3>1. CASE i < k
      BY <1>4, <2>1, <2>2, <2>3, <3>1
    <3>2. CASE ~(i < k)
      <4>1. i + 1 \in 1..Len(q) /\ i + 1 # k /\ i + 1 >= i /\ s[i] = q[i + 1]
        BY <1>4, <2>1, <3>2
      <4> QED
        BY <2>2, <2>3, <3>2, <4>1, Zenon
    <3> QED
      BY <3>1, <3>2, Zenon
  <2>5. ASSUME NEW i \in 1..Len(s), NEW j \in 1..Len(s), Place(q, fd, i) = Place(q, fd, j)
        PROVE  i = j
    BY <1>4, <2>1, <2>2, <2>5
  <2> QED
    BY <1>1, <2>1, <2>4, <2>5, Zenon DEF s
<1> QED
  BY <1>5, <1>6, Zenon

\* A client hangs up: for each id it owns there is one release, the proxy's, for
\* its own goes with it.
LEMMA TableDisconnect ==
  ASSUME IInv, Table, NEW fd \in Fds, Disconnect(fd)
  PROVE  Table'
<1> DEFINE o == owned[fd]
           releases == Releases(o)
           all == ctl \o releases
           n == Len(ctl)
<1>1. /\ phase = "serving" /\ phase' = phase /\ fd \in conns /\ conns' = conns \ {fd}
      /\ allocated' = allocated /\ back' = back /\ revokes' = revokes
      /\ ctl' = DropFirst(all, fd)
      /\ owned' = [owned EXCEPT ![fd] = <<>>] /\ held' = [held EXCEPT ![fd] = {}]
      /\ inStep' = (inStep /\ (ctl = <<>> \/ Head(ctl).fd # fd))
      /\ oneEach' = (oneEach /\ \A i, j \in 1..n : ctl[i].fd = fd /\ ctl[j].fd = fd => i = j)
  BY Zenon DEF Disconnect
<1>2. /\ ctl \in Seq(Msg) /\ back \in Seq(Answer) /\ owned \in [Fds -> Seq(Ids)]
      /\ held \in [Fds -> SUBSET Ids] /\ conns \subseteq Fds /\ o \in Seq(Ids)
      /\ n \in Nat /\ Len(o) \in Nat
  BY DEF IInv, TypeOK
<1>3. /\ owned'[fd] = <<>> /\ held'[fd] = {}
      /\ \A f \in Fds \ {fd} : owned'[f] = owned[f] /\ held'[f] = held[f]
  BY <1>1, <1>2, Zenon
<1>4. \A f \in Fds \ conns' : owned'[f] = <<>> /\ held'[f] = {}
  BY <1>1, <1>3, Zenon DEF Table
<1>5. revokes = 0 => \A b \in 1..Len(back') : back'[b].kind # "revoke"
  BY <1>1, Zenon DEF Table
<1> SUFFICES ASSUME inStep', oneEach', revokes = 0
             PROVE  OwnersApart' /\ QueueApart' /\ AnswersApart'
  BY <1>1, <1>4, <1>5, Zenon DEF Table
<1>6. /\ inStep /\ oneEach /\ (ctl = <<>> \/ ctl[1].fd # fd)
      /\ \A i, j \in 1..n : ctl[i].fd = fd /\ ctl[j].fd = fd => i = j
  <2>1. inStep /\ (ctl = <<>> \/ Head(ctl).fd # fd)
    BY <1>1, Zenon
  <2>2. oneEach /\ \A i, j \in 1..n : ctl[i].fd = fd /\ ctl[j].fd = fd => i = j
    BY <1>1, Zenon
  <2>3. ctl # <<>> => Head(ctl) = ctl[1]
    BY <1>2
  <2> QED
    BY <2>1, <2>2, <2>3, Zenon
<1>7. OwnersApart /\ QueueApart /\ AnswersApart
  BY <1>1, <1>6, Zenon DEF Table
<1>8. /\ releases \in Seq(Msg) /\ Len(releases) = Len(o)
      /\ \A i \in 1..Len(o) : /\ releases[i].fd = ServerFd /\ releases[i].kind = "release"
                              /\ releases[i].id = o[i]
  <2>1. \A i \in 1..Len(o) :
          [fd |-> ServerFd, kind |-> "release", tid |-> ProxyTid, id |-> o[i]] \in Msg
    BY <1>2 DEF Msg, Kinds, AllTids
  <2>2. DOMAIN o = 1..Len(o)
    BY <1>2
  <2>3. releases \in [1..Len(o) -> Msg]
    BY <2>1, <2>2, Zenon DEF Releases
  <2>5. \A k \in Nat : \A g \in [1..k -> Msg] : g \in Seq(Msg) /\ Len(g) = k
    OBVIOUS
  <2>4. releases \in Seq(Msg) /\ Len(releases) = Len(o)
    BY <1>2, <2>3, <2>5, Zenon
  <2> QED
    BY <2>2, <2>4, Zenon DEF Releases
<1> HIDE DEF releases
<1>9. /\ all \in Seq(Msg) /\ Len(all) = n + Len(o)
      /\ \A k \in 1..n : all[k] = ctl[k]
      /\ \A k \in (n + 1)..(n + Len(o)) :
           /\ all[k].fd = ServerFd /\ all[k].kind = "release"
           /\ k - n \in 1..Len(o) /\ all[k].id = o[k - n]
  <2>1. /\ all \in Seq(Msg) /\ Len(all) = n + Len(o)
        /\ \A k \in 1..Len(all) : all[k] = IF k <= n THEN ctl[k] ELSE releases[k - n]
    <3>1. /\ ctl \in Seq(Msg) /\ releases \in Seq(Msg)
          /\ Len(ctl) = n /\ Len(releases) = Len(o) /\ all = ctl \o releases
      BY <1>2, <1>8, Zenon
    <3> HIDE DEF all, o, n
    <3> QED
      BY <3>1, Joined
  <2> HIDE DEF all, o, n
  <2>2. \A k \in 1..n : all[k] = ctl[k]
    BY <1>2, <2>1
  <2>3. ASSUME NEW k \in (n + 1)..(n + Len(o))
        PROVE  k - n \in 1..Len(o) /\ all[k] = releases[k - n]
    BY <1>2, <2>1
  <2> QED
    BY <1>8, <2>1, <2>2, <2>3
<1> HIDE DEF all, n
<1>10. \A k \in 1..Len(all) : k \in 1..n \/ k \in (n + 1)..(n + Len(o))
  BY <1>2, <1>9
<1>11. fd # ServerFd
  BY ServerFdAssumption, Zenon
<1>12. \A i, j \in 1..Len(all) : all[i].fd = fd /\ all[j].fd = fd => i = j
  BY <1>6, <1>9, <1>10, <1>11, Zenon
<1>13. /\ \A i \in 1..Len(ctl') :
            /\ Place(all, fd, i) \in 1..Len(all) /\ Place(all, fd, i) >= i
            /\ ctl'[i] = all[Place(all, fd, i)] /\ ctl'[i].fd # fd
       /\ \A i, j \in 1..Len(ctl') : Place(all, fd, i) = Place(all, fd, j) => i = j
       /\ ctl' \in Seq(Msg)
  BY <1>1, <1>9, <1>12, DropFirstIs
<1> DEFINE Gives(k, x) == all[k].kind = "release" /\ all[k].id = x
<1>14. \A x : Owns(fd, x) <=> \E i \in 1..Len(o) : o[i] = x
  BY Zenon DEF Owns
<1>15. /\ \A x : ~ Owns(fd, x)'
       /\ \A f \in Fds \ {fd} : \A x : Owns(f, x)' <=> Owns(f, x)
  BY <1>3 DEF Owns
<1>16. \A x : ReleaseUnread(x)' <=> ReleaseUnread(x)
  BY <1>1, Zenon DEF ReleaseUnread
<1>17. ASSUME NEW x, ReleaseUnread(x) PROVE 1 \in 1..n /\ GivesBack(1, x)
  <2>1. PICK b \in DOMAIN back : back[b].kind = "release" /\ back[b].id = x
    BY <1>17, Zenon DEF ReleaseUnread
  <2>2. b \in 1..Len(back) /\ back # <<>>
    BY <1>2, <2>1
  <2>3. ctl # <<>>
    BY <1>1, <1>6, <2>2, UnderWay, Zenon
  <2> QED
    BY <1>2, <1>7, <2>1, <2>2, <2>3 DEF AnswersApart, n
<1>18. ASSUME NEW x \in Ids, Owns(fd, x) PROVE x \in allocated
  <2> SUFFICES ASSUME ReleaseUnread(x) PROVE FALSE
    BY <1>7, <1>18, Zenon DEF OwnersApart
  <2>1. 1 \in 1..n /\ GivesBack(1, x) /\ ctl[1].fd # fd
    BY <1>2, <1>6, <1>17 DEF n
  <2>2. ctl[1].fd # ServerFd /\ Owns(ctl[1].fd, x) /\ ctl[1].fd \in Fds
    BY <1>2, <1>7, <1>18, <2>1, Zenon DEF QueueApart, n
  <2> QED
    BY <1>7, <1>18, <2>1, <2>2, Zenon DEF OwnersApart
<1>19. ASSUME NEW k \in 1..Len(all), NEW x, Gives(k, x), all[k].fd # fd
       PROVE  /\ x \in Ids
              /\ all[k].fd = ServerFd => \A f \in Fds \ {fd} : ~ Owns(f, x)
              /\ all[k].fd # ServerFd => all[k].fd \in Fds /\ Owns(all[k].fd, x)
              /\ x \in allocated \/ (k = 1 /\ 1 \in 1..n /\ ReleaseUnread(x))
              /\ k \in 1..n => ~ Owns(fd, x)
              /\ k \notin 1..n => Owns(fd, x)
  <2>1. CASE k \in 1..n
    <3>1. GivesBack(k, x) /\ all[k] = ctl[k]
      BY <1>9, <1>19, <2>1, Zenon DEF GivesBack
    <3>2. /\ x \in Ids
          /\ ctl[k].fd = ServerFd => \A f \in Fds : ~ Owns(f, x)
          /\ ctl[k].fd # ServerFd => Owns(ctl[k].fd, x)
          /\ x \in allocated \/ (k = 1 /\ ReleaseUnread(x))
          /\ ctl[k].fd \in conns \cup {ServerFd}
      BY <1>7, <2>1, <3>1, Zenon DEF QueueApart, n
    <3>3. ~ Owns(fd, x)
      BY <1>2, <1>7, <1>19, <3>1, <3>2 DEF OwnersApart
    <3> QED
      BY <1>2, <2>1, <3>1, <3>2, <3>3, Zenon
  <2>2. CASE k \in (n + 1)..(n + Len(o))
    <3>1. all[k].fd = ServerFd /\ k - n \in 1..Len(o) /\ x = o[k - n]
      BY <1>9, <1>19, <2>2, Zenon
    <3>2. x \in Ids /\ Owns(fd, x)
      BY <1>2, <1>14, <3>1
    <3>3. \A f \in Fds \ {fd} : ~ Owns(f, x)
      BY <1>7, <3>2, Zenon DEF OwnersApart
    <3>4. k \notin 1..n
      BY <1>2, <2>2
    <3> QED
      BY <1>18, <3>1, <3>2, <3>3, <3>4, Zenon
  <2> QED
    BY <1>10, <2>1, <2>2, Zenon
<1>20. ASSUME NEW k \in 1..Len(all), NEW j \in 1..Len(all), NEW x, Gives(k, x), Gives(j, x),
              all[k].fd # fd, all[j].fd # fd
       PROVE  k = j
  <2>1. CASE k \in 1..n
    <3>1. j \in 1..n
      BY <1>19, <1>20, <2>1, Zenon
    <3>2. GivesBack(k, x) /\ GivesBack(j, x)
      BY <1>9, <1>20, <2>1, <3>1, Zenon DEF GivesBack
    <3> QED
      BY <1>7, <2>1, <3>1, <3>2, Zenon DEF QueueApart, n
  <2>2. CASE k \notin 1..n
    <3>1. j \notin 1..n
      BY <1>19, <1>20, <2>2, Zenon
    <3>2. k - n \in 1..Len(o) /\ j - n \in 1..Len(o) /\ o[k - n] = x /\ o[j - n] = x
      BY <1>9, <1>10, <1>20, <2>2, <3>1, Zenon
    <3>3. k - n = j - n
      BY <1>7, <3>2, Zenon DEF OwnersApart
    <3> QED
      BY <1>2, <3>3
  <2> QED
    BY <2>1, <2>2, Zenon
<1>21. ASSUME NEW i \in 1..Len(ctl')
       PROVE  \E k \in 1..Len(all) :
                /\ k = Place(all, fd, i) /\ k >= i /\ ctl'[i] = all[k] /\ all[k].fd # fd
                /\ \A x : GivesBack(i, x)' <=> Gives(k, x)
  BY <1>13, Zenon DEF GivesBack
<1> HIDE DEF Gives, o
<1>22. OwnersApart'
  <2>1. \A f \in Fds : \A i, j \in 1..Len(owned'[f]) : owned'[f][i] = owned'[f][j] => i = j
    BY <1>3, <1>7 DEF OwnersApart
  <2>2. \A f, g \in Fds, x \in Ids : Owns(f, x)' /\ Owns(g, x)' => f = g
    BY <1>7, <1>15, Zenon DEF OwnersApart
  <2>3. \A f \in Fds, x \in Ids : Owns(f, x)' => x \in allocated' \/ ReleaseUnread(x)'
    BY <1>1, <1>7, <1>15, <1>16, Zenon DEF OwnersApart
  <2>4. ASSUME NEW f \in Fds, NEW x \in held'[f]
        PROVE  Owns(f, x)' /\ \A i \in 1..Len(ctl') : ~ GivesBack(i, x)'
    <3>1. f # fd /\ x \in held[f]
      BY <1>3, Zenon
    <3>2. x \in Ids /\ Owns(f, x) /\ \A i \in 1..n : ~ GivesBack(i, x)
      BY <1>2, <1>7, <3>1, Zenon DEF OwnersApart, n
    <3>3. ~ Owns(fd, x)
      BY <1>7, <3>1, <3>2, Zenon DEF OwnersApart
    <3>4. ASSUME NEW i \in 1..Len(ctl'), GivesBack(i, x)' PROVE FALSE
      <4>1. PICK k \in 1..Len(all) : ctl'[i] = all[k] /\ all[k].fd # fd /\ Gives(k, x)
        BY <1>21, <3>4, Zenon
      <4>2. k \in 1..n
        BY <1>19, <3>3, <4>1, Zenon
      <4>3. GivesBack(k, x)
        BY <1>9, <4>1, <4>2, Zenon DEF GivesBack, Gives
      <4> QED
        BY <3>2, <4>2, <4>3, Zenon
    <3> QED
      BY <1>15, <3>1, <3>2, <3>4, Zenon
  <2> QED
    BY <2>1, <2>2, <2>3, <2>4, Zenon DEF OwnersApart
<1>23. QueueApart'
  <2>1. ASSUME NEW i \in 1..Len(ctl')
        PROVE  ctl'[i].fd \in conns' \cup {ServerFd} /\ ctl'[i].kind # "sync"
    <3>1. PICK k \in 1..Len(all) : ctl'[i] = all[k] /\ all[k].fd # fd
      BY <1>21, Zenon
    <3>2. CASE k \in 1..n
      BY SMTT(30), <1>1, <1>7, <1>9, <3>1, <3>2 DEF QueueApart, n
    <3>3. CASE k \in (n + 1)..(n + Len(o))
      BY <1>9, <3>1, <3>3, Zenon
    <3> QED
      BY <1>10, <3>2, <3>3, Zenon
  <2>2. ASSUME NEW i \in 1..Len(ctl'), NEW x, GivesBack(i, x)'
        PROVE  /\ x \in Ids
               /\ ctl'[i].fd = ServerFd => \A f \in Fds : ~ Owns(f, x)'
               /\ ctl'[i].fd # ServerFd => Owns(ctl[i].fd, x)'
               /\ x \in allocated' \/ (i = 1 /\ ReleaseUnread(x)')
               /\ \A j \in 1..Len(ctl') : GivesBack(j, x)' => i = j
    <3>1. PICK k \in 1..Len(all) :
                /\ k = Place(all, fd, i) /\ k >= i /\ ctl'[i] = all[k] /\ all[k].fd # fd
                /\ Gives(k, x)
      BY <1>21, <2>2, Zenon
    <3>2. /\ x \in Ids
          /\ all[k].fd = ServerFd => \A f \in Fds \ {fd} : ~ Owns(f, x)
          /\ all[k].fd # ServerFd => all[k].fd \in Fds /\ Owns(all[k].fd, x)
          /\ x \in allocated \/ (k = 1 /\ ReleaseUnread(x))
      BY <1>19, <3>1, Zenon
    <3>3. k = 1 => i = 1
      BY <3>1
    <3>4. ASSUME ctl'[i].fd # ServerFd PROVE Owns(ctl[i].fd, x)'
      <4>1. PICK f \in Fds : f = ctl'[i].fd
        BY <3>1, <3>2, <3>4, Zenon
      <4>2. Owns(f, x)'
        BY <1>15, <3>1, <3>2, <3>4, <4>1, Zenon
      <4> QED
        BY <4>1, <4>2, Zenon
    <3>5. ASSUME NEW j \in 1..Len(ctl'), GivesBack(j, x)' PROVE i = j
      <4>1. PICK l \in 1..Len(all) : l = Place(all, fd, j) /\ all[l].fd # fd /\ Gives(l, x)
        BY <1>21, <3>5, Zenon
      <4>2. k = l
        BY <1>20, <3>1, <4>1, Zenon
      <4> QED
        BY <1>13, <3>1, <4>1, <4>2, Zenon
    <3>6. ctl'[i].fd = ServerFd => \A f \in Fds : ~ Owns(f, x)'
      BY <1>15, <3>1, <3>2, Zenon
    <3>7. x \in allocated' \/ (i = 1 /\ ReleaseUnread(x)')
      BY <1>1, <1>16, <3>2, <3>3, Zenon
    <3> QED
      BY <3>2, <3>4, <3>5, <3>6, <3>7, Zenon
  <2> QED
    BY <2>1, <2>2, Zenon DEF QueueApart
<1>24. AnswersApart'
  <2> SUFFICES ASSUME NEW b \in 1..Len(back)
               PROVE  /\ back[b].kind = "release" => back[b].ok /\ GivesBack(1, back[b].id)'
                      /\ back[b].kind = "get" /\ back[b].ok =>
                           /\ back[b].id \in allocated
                           /\ \A f \in Fds : ~ Owns(f, back[b].id)'
                           /\ \A i \in 1..Len(ctl') : ~ GivesBack(i, back[b].id)'
    BY <1>1, Zenon DEF AnswersApart
  <2>1. PICK x : x = back[b].id
    BY Zenon
  <2>2. ctl # <<>> /\ 1 \in 1..n
    BY <1>1, <1>2, <1>6, UnderWay DEF n
  <2>3. ctl'[1] = ctl[1] /\ 1 \in 1..Len(ctl')
    <3>1. all # <<>> /\ Head(all) = ctl[1] /\ ctl[1].fd # fd
      BY <1>2, <1>6, <1>9, <2>2
    <3>2. ctl' # <<>> /\ Head(ctl') = ctl[1]
      BY <1>1, <1>9, <3>1, DropFirstProperties, Zenon
    <3> QED
      BY <1>13, <3>2
  <2>4. ASSUME back[b].kind = "release" PROVE back[b].ok /\ GivesBack(1, x)'
    BY <1>7, <2>1, <2>3, <2>4, Zenon DEF AnswersApart, GivesBack
  <2>5. ASSUME back[b].kind = "get", back[b].ok
        PROVE  /\ x \in allocated /\ \A f \in Fds : ~ Owns(f, x)'
               /\ \A i \in 1..Len(ctl') : ~ GivesBack(i, x)'
    <3>1. /\ x \in allocated /\ \A f \in Fds : ~ Owns(f, x)
          /\ \A i \in 1..n : ~ GivesBack(i, x)
      BY <1>7, <2>1, <2>5, Zenon DEF AnswersApart, n
    <3>2. ASSUME NEW i \in 1..Len(ctl'), GivesBack(i, x)' PROVE FALSE
      <4>1. PICK k \in 1..Len(all) : ctl'[i] = all[k] /\ all[k].fd # fd /\ Gives(k, x)
        BY <1>21, <3>2, Zenon
      <4>2. k \in 1..n
        BY <1>19, <3>1, <4>1, Zenon
      <4>3. GivesBack(k, x)
        BY <1>9, <4>1, <4>2, Zenon DEF GivesBack, Gives
      <4> QED
        BY <3>1, <4>2, <4>3, Zenon
    <3> QED
      BY <1>15, <3>1, <3>2, Zenon
  <2> QED
    BY <1>1, <2>1, <2>4, <2>5, Zenon
<1> QED
  BY <1>22, <1>23, <1>24, Zenon

LEMMA TableNext == IInv /\ Table /\ [Next]_vars => Table'
<1> SUFFICES ASSUME IInv, Table, [Next]_vars PROVE Table'
  BY Zenon
<1>1. CASE OpenDevice \/ SendSync \/ CreateServer \/ LoopExit \/ RecvInSync
  BY <1>1, TableStart, Zenon
<1>2. ASSUME NEW fd \in Fds, Accept(fd) \/ Disconnect(fd) PROVE Table'
  BY <1>2, TableAccept, TableDisconnect, Zenon
<1>3. ASSUME NEW fd \in Fds, Request(fd) PROVE Table'
  <2>1. ASSUME NEW kind \in {"get", "other"}, ClientRequest(fd, kind, NoId) PROVE Table'
    <3>1. kind \in Kinds /\ kind # "sync" /\ kind # "release"
      BY Zenon DEF Kinds
    <3> QED
      BY <2>1, <3>1, TableRequest, Zenon
  <2>2. ASSUME NEW id \in held[fd], ClientRequest(fd, "release", id) PROVE Table'
    <3>1. id \in Ids /\ "release" \in Kinds
      BY Zenon DEF IInv, TypeOK, Kinds
    <3> QED
      BY <2>2, <3>1, TableRequest, Zenon
  <2> QED
    BY <1>3, <2>1, <2>2, Zenon DEF Request
<1>4. CASE RecvResponse
  BY <1>4, TableResponse, Zenon
<1>5. CASE ModemAnswer
  BY <1>5, TableAnswer, Zenon
<1>6. CASE ModemSilent \/ ModemRevoke \/ RecvStray \/ RecvRevoke
  BY <1>6, TableModem, Zenon
<1>7. CASE UNCHANGED vars
  <2>1. /\ phase' = phase /\ conns' = conns /\ owned' = owned /\ held' = held
        /\ ctl' = ctl /\ back' = back /\ allocated' = allocated /\ inStep' = inStep
        /\ oneEach' = oneEach /\ revokes' = revokes
    BY <1>7, Zenon DEF vars, proxyVars, history
  <2>2. conns \subseteq conns'
    BY <2>1, Zenon
  <2>3. /\ OwnersApart => OwnersApart'
        /\ QueueApart => QueueApart'
        /\ AnswersApart => AnswersApart'
    BY <2>1, <2>2, SameTable, Zenon
  <2> QED
    BY <2>1, <2>3, Zenon DEF Table
<1> QED
  BY <1>1, <1>2, <1>3, <1>4, <1>5, <1>6, <1>7, Zenon DEF Next

\* As long as no client hung up with its request at the modem or with two in
\* the queue, every SYNC was answered and the modem revoked nothing: an id in
\* the list of a connection is in use at the modem or its release is about to
\* be read, and a service message goes to one connection at most.
THEOREM TableOfTheModem == Spec => []TableFaithful
<1>1. ASSUME IInv, Table PROVE TableFaithful
  <2> SUFFICES ASSUME inStep, oneEach, revokes = 0, NEW id \in Ids
               PROVE  /\ Recipients(id) # {} => id \in allocated \/ ReleaseUnread(id)
                      /\ \A f, g \in Recipients(id) : f = g
    BY Zenon DEF TableFaithful
  <2>1. \A fd \in conns : fd \in Fds /\ owned[fd] \in Seq(Ids)
    BY <1>1, Zenon DEF IInv, TypeOK
  <2>2. Recipients(id) = {fd \in conns : Owns(fd, id)}
    BY <2>1 DEF Recipients, Owns
  <2>3. CASE Recipients(id) = {}
    BY <2>3, Zenon
  <2>4. CASE Recipients(id) # {}
    <3>1. PICK fd \in conns : Owns(fd, id)
      BY <2>2, <2>4, Zenon
    <3>2. phase = "serving"
      BY <1>1, <3>1, Zenon DEF IInv
    <3>3. OwnersApart
      BY <1>1, <3>2, Zenon DEF Table
    <3> QED
      BY <2>1, <2>2, <3>1, <3>3, Zenon DEF OwnersApart
  <2> QED
    BY <2>3, <2>4, Zenon
<1> QED
  BY <1>1, InitInv, NextInv, TableBegins, TableNext, PTL DEF Spec

=============================================================================
