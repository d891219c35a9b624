--------------------------- MODULE ProxiesProofs ---------------------------
(***************************************************************************)
(* The proxies, for any number of clients, requests and failures and any   *)
(* size of their tables.                                                   *)
(***************************************************************************)
EXTENDS MCProxies, WellFoundedInduction, TLAPS

----------------------------------------------------------------------------
(* quectel-mbim-proxy keeps its types and never crosses the answers of     *)
(* connected clients.                                                      *)

(* The slot marked in an unanswered request is still its sender's, or the  *)
(* sender is gone; and what waits in a client's socket is its own, or of   *)
(* one that is gone.  The device of a closed session owes nothing.         *)
SlotOfSender == \A q \in atModem : cm_clients[q.slot] = q.by \/ Gone(q.by)
Own(c, m) == m.by \in {c, NoClient} \/ (m.by \in Clients /\ Gone(m.by))
SocketsOwn == \A c \in Clients : \A k \in 1..Len(p2c[c]) : Own(c, p2c[c][k])
GotOwn == \A c \in Clients : Own(c, got[c])
IInv ==
    /\ TypeOK /\ SlotOfSender /\ SocketsOwn /\ GotOwn
    /\ phase = "closed" => atModem = {}

(* The ids of mbim_send_command stay below the limit the proxy needs.      *)
LEMMA TidRange == \A n \in Nat \ {0} : Tid(n) \in 1..(TidLimit - 1)
  <1> TAKE n \in Nat \ {0}
  <1>1. n - 1 \in Nat /\ TidLimit - 1 \in Nat \ {0}
    BY ProxyConstants
  <1>2. (n - 1) % (TidLimit - 1) \in 0..(TidLimit - 2)
    BY <1>1, ProxyConstants
  <1> QED
    BY <1>2, ProxyConstants DEF Tid

LEMMA InitIInv == Init => IInv
  <1> SUFFICES ASSUME Init PROVE IInv
    BY Zenon
  <1>1. NoRsp \in Rsp
    BY ProxyConstants DEF NoRsp, Rsp
  <1>2. TypeOK
    <2>1. [st |-> "new", n |-> 0, pend |-> 0] \in ClientState
      BY ProxyConstants DEF ClientState
    <2>2. cl \in [Clients -> ClientState]
      BY <2>1, Zenon DEF Init
    <2> QED
      BY <1>1, <2>2, ProxyConstants DEF Init, TypeOK, SlotIds
  <1>3. GotOwn
    BY Zenon DEF Init, GotOwn, Own, NoRsp
  <1> QED
    BY <1>2, <1>3 DEF Init, IInv, SlotOfSender, SocketsOwn

----------------------------------------------------------------------------
(* Types. *)

(* An update of one client with a client state keeps the type of all. *)
LEMMA ClientUpdate ==
  ASSUME cl \in [Clients -> ClientState], NEW c \in Clients
  PROVE  /\ \A st \in {"new", "connected", "closed", "gone"} :
              [cl EXCEPT ![c].st = st] \in [Clients -> ClientState]
         /\ [cl EXCEPT ![c].pend = 0] \in [Clients -> ClientState]
         /\ [cl EXCEPT ![c].st = "gone", ![c].pend = 0] \in [Clients -> ClientState]
         /\ \A n \in 0..MaxReq, p \in 0..(TidLimit - 1) :
              [cl EXCEPT ![c].n = n, ![c].pend = p] \in [Clients -> ClientState]
  <1>1. cl[c] \in ClientState /\ 0 \in 0..(TidLimit - 1)
    BY ProxyConstants
  <1>2. ASSUME NEW st \in {"new", "connected", "closed", "gone"}
        PROVE [cl EXCEPT ![c].st = st] \in [Clients -> ClientState]
    <2>1. [cl[c] EXCEPT !.st = st] \in ClientState
      BY <1>1, Zenon DEF ClientState
    <2> QED
      BY <2>1, Zenon
  <1>3. [cl EXCEPT ![c].pend = 0] \in [Clients -> ClientState]
    <2>1. [cl[c] EXCEPT !.pend = 0] \in ClientState
      BY <1>1, Zenon DEF ClientState
    <2> QED
      BY <2>1, Zenon
  <1>4. [cl EXCEPT ![c].st = "gone", ![c].pend = 0] \in [Clients -> ClientState]
    <2>1. [cl[c] EXCEPT !.st = "gone", !.pend = 0] \in ClientState
      BY Zenon, <1>1 DEF ClientState
    <2> QED
      BY <2>1, Zenon
  <1>5. ASSUME NEW n \in 0..MaxReq, NEW t \in 0..(TidLimit - 1)
        PROVE [cl EXCEPT ![c].n = n, ![c].pend = t] \in [Clients -> ClientState]
    <2>1. [cl[c] EXCEPT !.n = n, !.pend = t] \in ClientState
      BY Zenon, <1>1 DEF ClientState
    <2> QED
      BY <2>1, Zenon
  <1> QED
    BY Zenon, <1>2, <1>3, <1>4, <1>5

(* Every step of the clients, the proxy and the modem keeps the types.     *)
LEMMA StepType == TypeOK /\ [Next]_vars => TypeOK'
  <1> SUFFICES ASSUME TypeOK, [Next]_vars PROVE TypeOK'
    BY Zenon
  <1> USE ProxyConstants
  <1>0. cl \in [Clients -> ClientState] /\ 0 \in 0..(TidLimit - 1)
    BY DEF TypeOK
  <1>1. ASSUME NEW c \in Clients, Connect(c) PROVE TypeOK'
    <2>1. cl' \in [Clients -> ClientState]
      BY Zenon, <1>0, <1>1, ClientUpdate DEF Connect
    <2> QED
      BY <1>1, <2>1, Zenon DEF Connect, TypeOK
  <1>2. ASSUME NEW c \in Clients, Send(c) PROVE TypeOK'
    <2> DEFINE n == cl[c].n + 1
               m == [kind |-> IF n = 1 THEN "open" ELSE "cmd", tid |-> Tid(n), n |-> n]
    <2>0. cl[c] \in ClientState
      BY <1>0, Zenon
    <2>1. n \in 0..MaxReq /\ n \in 1..MaxReq /\ n \in Nat \ {0}
      BY SMTT(30), <1>2, <2>0 DEF Send, ClientState
    <2>2. Tid(n) \in 1..(TidLimit - 1) /\ Tid(n) \in 0..(TidLimit - 1)
      BY <2>1, TidRange
    <2>3. m \in Req
      BY <2>1, <2>2, Zenon DEF Req
    <2>4. c2p' = [c2p EXCEPT ![c] = Append(@, m)] /\
          cl' = [cl EXCEPT ![c].n = n, ![c].pend = Tid(n)]
      BY <1>2, Zenon DEF Send
    <2>5. c2p' \in [Clients -> Seq(Req)]
      BY SMTT(30), <2>3, <2>4 DEF TypeOK
    <2>6. cl' \in [Clients -> ClientState]
      BY Zenon, <1>0, <2>1, <2>2, <2>4, ClientUpdate
    <2> QED
      BY Zenon, <1>2, <2>5, <2>6 DEF Send, TypeOK
  <1>3. ASSUME NEW c \in Clients, TimesOut(c) PROVE TypeOK'
    <2>1. cl' \in [Clients -> ClientState]
      BY Zenon, <1>0, <1>3, ClientUpdate DEF TimesOut
    <2>2. timeouts' \in 0..Timeouts
      BY SMTT(30), <1>3 DEF TimesOut, TypeOK
    <2> QED
      BY <1>3, <2>1, <2>2, Zenon DEF TimesOut, TypeOK
  <1>4. ASSUME NEW c \in Clients, Receive(c) PROVE TypeOK'
    <2>1. Head(p2c[c]) \in Rsp /\ Tail(p2c[c]) \in Seq(Rsp)
      BY <1>4 DEF Receive, TypeOK
    <2>2. cl' \in [Clients -> ClientState]
      <3>1. cl' = cl \/ cl' = [cl EXCEPT ![c].pend = 0]
        BY <1>4, Zenon DEF Receive
      <3>2. [cl EXCEPT ![c].pend = 0] \in [Clients -> ClientState]
        BY Zenon, <1>0, ClientUpdate
      <3> QED
        BY <1>0, <3>1, <3>2, Zenon
    <2>3. got' \in [Clients -> Rsp]
      BY ZenonT(40), <1>4, <2>1 DEF Receive, TypeOK
    <2> QED
      BY Zenon, <1>4, <2>1, <2>2, <2>3 DEF Receive, TypeOK
  <1>5. ASSUME NEW c \in Clients, Leaves(c) PROVE TypeOK'
    <2>1. cl' \in [Clients -> ClientState]
      BY Zenon, <1>0, <1>5, ClientUpdate DEF Leaves
    <2> QED
      BY Zenon, <1>5, <2>1 DEF Leaves, TypeOK
  <1>6. ASSUME NEW c \in Clients, Dropped(c) PROVE TypeOK'
    <2>1. cl' \in [Clients -> ClientState]
      BY Zenon, <1>0, <1>6, ClientUpdate DEF Dropped
    <2> QED
      BY <1>6, <2>1, Zenon DEF Dropped, TypeOK
  <1>7. ASSUME NEW c \in Clients, Accept(c) PROVE TypeOK'
    <2>1. cl' \in [Clients -> ClientState]
      <3>1. cl' = cl \/ cl' = [cl EXCEPT ![c].st = "closed"]
        BY <1>7, Zenon DEF Accept
      <3>2. [cl EXCEPT ![c].st = "closed"] \in [Clients -> ClientState]
        BY Zenon, <1>0, ClientUpdate
      <3> QED
        BY <1>0, <3>1, <3>2, Zenon
    <2> QED
      BY Zenon, <1>7, <2>1 DEF Accept, TypeOK
  <1>8. ASSUME NEW c \in Clients, handle_client_disconnect(c) PROVE TypeOK'
    BY <1>8, Zenon DEF handle_client_disconnect, FreeSlot, TypeOK
  <1>9. ASSUME NEW c \in Clients, handle_client_request(c) PROVE TypeOK'
    <2>1. Head(c2p[c]) \in Req /\ c2p' \in [Clients -> Seq(Req)]
      BY <1>9 DEF handle_client_request, TypeOK
    <2> DEFINE m == Head(c2p[c])
               done == [kind |-> "open", tid |-> m.tid, by |-> c, n |-> m.n]
    <2>2. m.tid \in 1..(TidLimit - 1) /\ m.n \in 1..MaxReq
      BY <2>1, Zenon DEF Req
    <2>3. done \in Rsp
      BY <2>2 DEF Rsp
    <2>4. ASSUME NEW i \in SlotsOf(c)
          PROVE [slot |-> Mark(i, m).slot, tid |-> Mark(i, m).tid, by |-> c, n |-> m.n]
                  \in [slot : SlotIds, tid : 1..(TidLimit - 1), by : Clients, n : 1..MaxReq]
      BY <2>2, <2>4, Zenon DEF Mark, SlotsOf
    <2>5. PICK i \in SlotsOf(c) :
             \/ /\ m.kind = "open" /\ WriteTo(c, done)
                /\ UNCHANGED <<atModem, losses>>
             \/ /\ m.kind = "cmd"
                /\ atModem' = atModem \cup
                      {[slot |-> Mark(i, m).slot, tid |-> Mark(i, m).tid,
                        by |-> c, n |-> m.n]}
                /\ UNCHANGED <<p2c, losses>>
             \/ LoseWrite /\ UNCHANGED <<p2c, atModem>>
      BY <1>9, Zenon DEF handle_client_request
    <2>6. p2c' \in [Clients -> Seq(Rsp)]
      <3>1. Append(p2c[c], done) \in Seq(Rsp) /\ p2c \in [Clients -> Seq(Rsp)]
        BY <2>3 DEF TypeOK
      <3>2. p2c' = p2c \/ p2c' = [p2c EXCEPT ![c] = Append(p2c[c], done)]
        BY <2>5, Zenon DEF WriteTo
      <3> QED
        BY Zenon, <3>1, <3>2
    <2>7. atModem' \subseteq [slot : SlotIds, tid : 1..(TidLimit - 1),
                              by : Clients, n : 1..MaxReq]
      BY Zenon, <2>4, <2>5 DEF TypeOK
    <2>8. losses' \in 0..Losses
      BY SMTT(30), <2>5 DEF LoseWrite, TypeOK
    <2> QED
      BY <1>9, <2>1, <2>6, <2>7, <2>8, Zenon DEF handle_client_request, TypeOK
  <1>10. ASSUME Answer PROVE TypeOK'
    <2>1. PICK q \in atModem :
             /\ atModem' = atModem \ {q}
             /\ \/ \E c \in FindSender(q) :
                      /\ WriteTo(c, [kind |-> "cmd", tid |-> q.tid, by |-> q.by, n |-> q.n])
                      /\ UNCHANGED losses
                \/ FindSender(q) = {} /\ UNCHANGED <<p2c, losses>>
                \/ LoseWrite /\ UNCHANGED p2c
      BY <1>10, Zenon DEF Answer
    <2> DEFINE m == [kind |-> "cmd", tid |-> q.tid, by |-> q.by, n |-> q.n]
    <2>2. q \in [slot : SlotIds, tid : 1..(TidLimit - 1), by : Clients, n : 1..MaxReq]
      BY Zenon DEF TypeOK
    <2>3. m \in Rsp
      BY <2>2 DEF Rsp
    <2>4. FindSender(q) \subseteq Clients
      BY DEF FindSender, TypeOK
    <2>5. p2c' \in [Clients -> Seq(Rsp)]
      <3>1. p2c' = p2c \/ \E c \in Clients : p2c' = [p2c EXCEPT ![c] = Append(p2c[c], m)]
        BY <2>1, <2>4, Zenon DEF WriteTo
      <3>2. p2c \in [Clients -> Seq(Rsp)] /\
            \A c \in Clients : Append(p2c[c], m) \in Seq(Rsp)
        BY <2>3 DEF TypeOK
      <3> QED
        BY Zenon, <3>1, <3>2
    <2>6. losses' \in 0..Losses
      BY SMTT(30), <2>1 DEF LoseWrite, TypeOK
    <2>7. atModem' \subseteq [slot : SlotIds, tid : 1..(TidLimit - 1),
                              by : Clients, n : 1..MaxReq]
      BY <2>1, Zenon DEF TypeOK
    <2> QED
      BY <1>10, <2>5, <2>6, <2>7, Zenon DEF Answer, TypeOK
  <1>11. ASSUME Indicate PROVE TypeOK'
    <2>1. NoRsp \in Rsp
      BY DEF NoRsp, Rsp
    <2>2. p2c' \in [Clients -> Seq(Rsp)]
      <3>1. \A c \in Clients : p2c[c] \in Seq(Rsp) /\ Append(p2c[c], NoRsp) \in Seq(Rsp)
        BY <2>1 DEF TypeOK
      <3> QED
        BY <1>11, <3>1, Zenon DEF Indicate
    <2>3. faults' \in 0..Faults
      BY SMTT(30), <1>11 DEF Indicate, Fault, TypeOK
    <2> QED
      BY <1>11, <2>2, <2>3, Zenon DEF Indicate, TypeOK
  <1>12. ASSUME OpenDevice PROVE TypeOK'
    BY <1>12, Zenon DEF OpenDevice, TypeOK
  <1>13. ASSUME OpenDone PROVE TypeOK'
    BY <1>13, Zenon DEF OpenDone, TypeOK
  <1>14. ASSUME DeviceFails PROVE TypeOK'
    <2>1. cl' \in [Clients -> ClientState]
      <3>1. \A c \in Clients : [cl[c] EXCEPT !.st = "closed"] \in ClientState
        BY <1>0, Zenon DEF ClientState
      <3> QED
        BY <1>0, <1>14, <3>1, Zenon DEF DeviceFails, CloseAll
    <2>2. faults' \in 0..Faults
      BY SMTT(30), <1>14 DEF DeviceFails, Fault, TypeOK
    <2> QED
      BY <1>14, <2>1, <2>2, Zenon DEF DeviceFails, TypeOK
  <1>15. CASE UNCHANGED vars
    BY <1>15, Zenon DEF vars, TypeOK
  <1> QED
    BY SMTT(30), <1>1, <1>2, <1>3, <1>4, <1>5, <1>6, <1>7, <1>8, <1>9, <1>10, <1>11, <1>12,
       <1>13, <1>14, <1>15 DEF Next, ClientStep, ProxyStep, DeviceStep

----------------------------------------------------------------------------
(* The invariant. *)

(* A client that is gone stays gone: no connection comes back.             *)
LEMMA GoneStays ==
  ASSUME TypeOK, [Next]_vars, NEW d \in Clients, Gone(d) PROVE Gone(d)'
  <1>1. ASSUME NEW c \in Clients, ClientStep(c) \/ ProxyStep(c) PROVE Gone(d)'
    BY Zenon, <1>1 DEF ClientStep, ProxyStep, Gone, TypeOK, ClientState, Connect, Send,
         TimesOut, Receive, Leaves, Dropped, Accept, handle_client_disconnect,
         handle_client_request
  <1>2. ASSUME DeviceStep PROVE Gone(d)'
    BY Zenon, <1>2 DEF DeviceStep, Gone, TypeOK, Answer, Indicate, OpenDevice, OpenDone,
         DeviceFails, CloseAll
  <1>3. CASE UNCHANGED vars
    BY <1>3, Zenon DEF vars, Gone
  <1> QED
    BY SMTT(30), <1>1, <1>2, <1>3 DEF Next

(* The invariant is kept by every step.                                    *)
LEMMA StepIInv == IInv /\ [Next]_vars => IInv'
  <1> SUFFICES ASSUME IInv, [Next]_vars PROVE IInv'
    BY Zenon
  <1>0. TypeOK /\ TypeOK' /\ \A d \in Clients : Gone(d) => Gone(d)'
    BY StepType, GoneStays, Zenon DEF IInv
  <1> USE ProxyConstants
  <1>1. \A c \in Clients, m \in Rsp : Own(c, m) => Own(c, m)'
    BY <1>0, Zenon DEF Own
  <1>2. \A q \in atModem : q \in [slot : SlotIds, tid : 1..(TidLimit - 1),
                                  by : Clients, n : 1..MaxReq]
    BY Zenon DEF IInv, TypeOK
  (* What is unchanged stays right. *)
  <1>3. atModem' \subseteq atModem /\ UNCHANGED cm_clients => SlotOfSender'
    BY <1>0, <1>2, Zenon DEF IInv, SlotOfSender
  <1>4. UNCHANGED p2c => SocketsOwn'
    BY <1>0, <1>1 DEF IInv, SocketsOwn, TypeOK
  <1>5. UNCHANGED got => GotOwn'
    BY <1>0, <1>1, Zenon DEF IInv, GotOwn, TypeOK
  (* One more message in a socket. *)
  <1>6. ASSUME NEW c \in Clients, NEW m \in Rsp, Own(c, m), WriteTo(c, m)
        PROVE SocketsOwn'
    <2> SUFFICES ASSUME NEW d \in Clients, NEW k \in 1..Len(p2c'[d])
                 PROVE Own(d, p2c[d][k])'
      BY Zenon DEF SocketsOwn
    <2>1. p2c[d] \in Seq(Rsp) /\ p2c \in [Clients -> Seq(Rsp)]
      BY <1>0, Zenon DEF TypeOK
    <2>2. CASE d # c
      BY SMTT(30), <1>1, <1>6, <2>1, <2>2 DEF WriteTo, IInv, SocketsOwn
    <2>3. CASE d = c
      <3>1. p2c'[d] = Append(p2c[d], m)
        BY <1>6, <2>1, <2>3, Zenon DEF WriteTo
      <3>2. (k \in 1..Len(p2c[d]) /\ p2c'[d][k] = p2c[d][k]) \/ p2c'[d][k] = m
        BY <2>1, <3>1
      <3> QED
        BY <1>1, <1>6, <2>1, <2>3, <3>2 DEF IInv, SocketsOwn
    <2> QED
      BY <2>2, <2>3, Zenon
  <1>7. ASSUME NEW c \in Clients, ClientStep(c) PROVE IInv'
    <2>1. UNCHANGED <<phase, cm_clients, atModem>>
      BY <1>7, Zenon DEF ClientStep, Connect, Send, TimesOut, Receive, Leaves, Dropped
    <2>2. CASE Receive(c)
      <3>1. p2c[c] \in Seq(Rsp) /\ p2c[c] # <<>> /\ p2c \in [Clients -> Seq(Rsp)]
        BY <1>0, <2>2, Zenon DEF Receive, TypeOK
      <3>2. SocketsOwn'
        <4> SUFFICES ASSUME NEW d \in Clients, NEW k \in 1..Len(p2c'[d])
                     PROVE Own(d, p2c[d][k])'
          BY Zenon DEF SocketsOwn
        <4>1. p2c[d] \in Seq(Rsp) /\ p2c'[d] = IF d = c THEN Tail(p2c[d]) ELSE p2c[d]
          BY <1>0, <2>2, <3>1, Zenon DEF Receive, TypeOK
        <4>2. \E j \in 1..Len(p2c[d]) : p2c'[d][k] = p2c[d][j]
          BY <3>1, <4>1
        <4> QED
          BY SMTT(30), <1>1, <4>1, <4>2 DEF IInv, SocketsOwn
      <3>3. GotOwn'
        <4>1. Head(p2c[c]) = p2c[c][1] /\ 1 \in 1..Len(p2c[c]) /\ p2c[c][1] \in Rsp
          BY <3>1
        <4>2. \A d \in Clients : got'[d] = got[d] \/ (d = c /\ got'[d] = p2c[c][1])
          BY <1>0, <2>2, <4>1, Zenon DEF Receive, TypeOK
        <4> QED
          BY Zenon, <1>0, <1>1, <4>1, <4>2 DEF IInv, GotOwn, SocketsOwn, TypeOK
      <3> QED
        BY <1>0, <1>3, <2>1, <3>2, <3>3, Zenon DEF IInv
    <2>3. CASE ~Receive(c)
      <3>1. UNCHANGED <<p2c, got>>
        BY <1>7, <2>3, Zenon DEF ClientStep, Connect, Send, TimesOut, Leaves, Dropped
      <3> QED
        BY <1>0, <1>3, <1>4, <1>5, <2>1, <3>1, Zenon DEF IInv
    <2> QED
      BY <2>2, <2>3, Zenon
  <1>8. ASSUME NEW c \in Clients, Accept(c) PROVE IInv'
    <2>1. \A i \in SlotIds : cm_clients[i] # NoClient => cm_clients'[i] = cm_clients[i]
      BY <1>0, <1>8, Zenon DEF Accept, TypeOK
    <2>2. SlotOfSender'
      BY SMTT(30), <1>0, <1>2, <1>8, <2>1 DEF IInv, SlotOfSender, Accept
    <2> QED
      BY <1>0, <1>4, <1>5, <1>8, <2>2, Zenon DEF IInv, Accept
  <1>9. ASSUME NEW c \in Clients, handle_client_disconnect(c) PROVE IInv'
    <2>1. \A i \in SlotIds : cm_clients[i] # c => cm_clients'[i] = cm_clients[i]
      BY <1>0, <1>9, Zenon DEF handle_client_disconnect, FreeSlot, TypeOK
    <2>2. SlotOfSender'
      BY <1>0, <1>2, <1>9, <2>1, Zenon DEF IInv, SlotOfSender, handle_client_disconnect
    <2> QED
      BY <1>0, <1>4, <1>5, <1>9, <2>2, Zenon DEF IInv, handle_client_disconnect
  <1>10. ASSUME NEW c \in Clients, handle_client_request(c) PROVE IInv'
    <2> DEFINE m == Head(c2p[c])
               done == [kind |-> "open", tid |-> m.tid, by |-> c, n |-> m.n]
    <2>1. PICK i \in SlotsOf(c) :
             \/ WriteTo(c, done) /\ UNCHANGED atModem
             \/ /\ atModem' = atModem \cup
                      {[slot |-> Mark(i, m).slot, tid |-> Mark(i, m).tid,
                        by |-> c, n |-> m.n]}
                /\ UNCHANGED p2c
             \/ UNCHANGED <<p2c, atModem>>
      BY <1>10, Zenon DEF handle_client_request
    <2>2. UNCHANGED <<phase, cm_clients, got>> /\ phase = "serving"
      BY <1>10, Zenon DEF handle_client_request
    <2>3. SlotOfSender'
      <3>1. cm_clients[i] = c
        BY Zenon DEF SlotsOf
      <3>2. \A q \in atModem' : q \in atModem \/ (q.slot = i /\ q.by = c)
        BY SMTT(30), <2>1 DEF Mark
      <3> QED
        BY <1>0, <1>2, <2>2, <3>1, <3>2, Zenon DEF IInv, SlotOfSender
    <2>4. SocketsOwn'
      <3>1. Head(c2p[c]) \in Req
        BY SMTT(30), <1>0, <1>10 DEF handle_client_request, TypeOK
      <3>2. done \in Rsp
        BY <3>1 DEF Req, Rsp
      <3>3. Own(c, done)
        BY Zenon DEF Own
      <3> QED
        BY <1>4, <1>6, <2>1, <3>2, <3>3, Zenon
    <2> QED
      BY <1>0, <1>5, <2>2, <2>3, <2>4, Zenon DEF IInv
  <1>11. ASSUME Answer PROVE IInv'
    <2>1. PICK q \in atModem :
             /\ atModem' = atModem \ {q}
             /\ \/ \E c \in FindSender(q) :
                      WriteTo(c, [kind |-> "cmd", tid |-> q.tid, by |-> q.by, n |-> q.n])
                \/ UNCHANGED p2c
      BY <1>11, Zenon DEF Answer
    <2> DEFINE m == [kind |-> "cmd", tid |-> q.tid, by |-> q.by, n |-> q.n]
    <2>2. m \in Rsp /\ m.by \in Clients /\ m.by = q.by
      BY SMTT(30), <1>2 DEF Rsp
    <2>3. \A c \in FindSender(q) : c \in Clients /\ Own(c, m)
      <3>1. \A c \in FindSender(q) : c = cm_clients[q.slot] /\ c \in Clients
        BY SMTT(30), <1>0, <1>2 DEF FindSender, TypeOK
      <3>2. cm_clients[q.slot] = q.by \/ Gone(q.by)
        BY Zenon DEF IInv, SlotOfSender
      <3> QED
        BY <2>2, <3>1, <3>2, Zenon DEF Own
    <2>4. SocketsOwn'
      BY <1>4, <1>6, <2>1, <2>2, <2>3, Zenon
    <2> QED
      BY <1>0, <1>3, <1>5, <1>11, <2>1, <2>4, Zenon DEF IInv, Answer
  <1>12. ASSUME Indicate PROVE IInv'
    <2>1. NoRsp \in Rsp /\ NoRsp.by = NoClient
      BY SMTT(30) DEF NoRsp, Rsp
    <2>2. SocketsOwn'
      <3> SUFFICES ASSUME NEW d \in Clients, NEW k \in 1..Len(p2c'[d])
                   PROVE Own(d, p2c[d][k])'
        BY Zenon DEF SocketsOwn
      <3>1. p2c[d] \in Seq(Rsp) /\ p2c'[d] \in {p2c[d], Append(p2c[d], NoRsp)}
        BY <1>0, <1>12, Zenon DEF Indicate, TypeOK
      <3>2. (k \in 1..Len(p2c[d]) /\ p2c'[d][k] = p2c[d][k]) \/ p2c'[d][k] = NoRsp
        BY SMTT(30), <2>1, <3>1
      <3>3. CASE p2c'[d][k] = NoRsp
        BY <2>1, <3>3, Zenon DEF Own
      <3> QED
        BY SMTT(30), <1>1, <3>1, <3>2, <3>3 DEF IInv, SocketsOwn
    <2> QED
      BY <1>0, <1>3, <1>5, <1>12, <2>2, Zenon DEF IInv, Indicate
  <1>13. ASSUME OpenDevice \/ DeviceFails PROVE IInv'
    BY <1>0, <1>4, <1>5, <1>13, Zenon DEF IInv, SlotOfSender, OpenDevice, DeviceFails
  <1>14. ASSUME OpenDone PROVE IInv'
    BY <1>0, <1>3, <1>4, <1>5, <1>14, Zenon DEF IInv, OpenDone
  <1>15. CASE UNCHANGED vars
    BY <1>0, <1>3, <1>4, <1>5, <1>15, Zenon DEF IInv, vars
  <1> QED
    BY SMTT(30), <1>7, <1>8, <1>9, <1>10, <1>11, <1>12, <1>13, <1>14, <1>15
       DEF Next, ProxyStep, DeviceStep

(* The invariant holds in every state of the proxy.                        *)
LEMMA Invariant == Spec => []IInv
  BY InitIInv, StepIInv, PTL DEF Spec

(* Every variable of the proxy and its clients keeps its type.             *)
THEOREM ProxyTypeCorrect == Spec => []TypeOK
  <1>1. IInv => TypeOK
    BY Zenon DEF IInv
  <1> QED
    BY Invariant, <1>1, PTL

(* No client takes the answer to a request of another that is still        *)
(* connected (handle_client_request marks, handle_device_response finds).  *)
THEOREM AnswersRouted == Spec => []Routed
  <1>1. IInv => Routed
    BY Zenon DEF IInv, GotOwn, Own, Routed
  <1> QED
    BY Invariant, <1>1, PTL

----------------------------------------------------------------------------
(* quectel-qrtr-proxy never gives an id, or the port of a working id, to   *)
(* two entries.  The table of ids is safe by itself.  That of the ports is *)
(* not, since a byte cannot hold Width; what saves it is that the ids run  *)
(* out first: Room, as many free ports below Width as free ids, survives   *)
(* every step, because an id and its port are taken and given back         *)
(* together, and an entry without an id takes a port only when no id is    *)
(* free.                                                                   *)

Small == 1..(Width - 1)
FreeSmall(q) == {p \in Small : q[p] = 0}

(* A place in use holds its number.                                        *)
Tables(b, q) ==
    /\ b \in [Q!IdPlaces -> Nat] /\ \A i \in Q!IdPlaces : b[i] \in {0, i}
    /\ q \in [Q!PortPlaces -> Nat] /\ \A p \in Small : q[p] \in {0, p}

(* What an entry has is in use, and an id comes with a small port.         *)
InUse(C, b, q) ==
    \A e \in C : /\ e.id \in Q!IdPlaces \cup {0} /\ e.port \in Q!PortPlaces \cup {0}
                 /\ e.id # 0 => b[e.id] = e.id /\ e.port \in Small
                 /\ e.port \in Small => q[e.port] = e.port

Apart(C) ==
    \A e, f \in C : e # f => /\ e.id # 0 => e.id # f.id
                             /\ e.port \in Small => e.port # f.port

(* As many free small ports as free ids: an injection from the ids.        *)
Into(m, I, P) == m \in [I -> P] /\ \A i, j \in I : m[i] = m[j] => i = j
Room(b, q) == \E m : Into(m, Q!FreeIn(b), FreeSmall(q))

Good(C, b, q) == Tables(b, q) /\ InUse(C, b, q) /\ Apart(C) /\ Room(b, q)

LEMMA Sizes == /\ NumIds \in Nat /\ NumPorts \in Nat /\ Width \in Nat
               /\ NumIds < Width /\ Width <= NumPorts
               /\ Small \subseteq Q!PortPlaces /\ 0 \notin Small /\ 0 \notin Q!IdPlaces
               /\ Q!IdPlaces \subseteq Small
BY TableAssumption DEF Small, Q!PortPlaces, Q!IdPlaces

(* A byte holds every small number.                                        *)
LEMMA Remainder ==
    ASSUME NEW w \in Nat \ {0}, NEW n \in Nat
    PROVE  n % w \in Nat /\ (n < w => n % w = n)
OBVIOUS

LEMMA Stored == /\ \A n \in Small : n % Width = n
                /\ \A n \in Nat : n % Width \in Nat
<1>1. Width \in Nat \ {0}
  BY TableAssumption
<1> QED
  BY <1>1, Remainder DEF Small

(* The first free place is free, and there is none before it.              *)
LEMMA FirstIsLeast ==
    ASSUME NEW S \in SUBSET Nat, S # {}
    PROVE  Q!First(S) \in S /\ \A j \in S : Q!First(S) <= j
<1>1. PICK x \in S : \A y \in S : ~ (<<y, x>> \in OpToRel(<, Nat))
  BY NatLessThanWellFounded, WFMin, Zenon
<1>2. \A y \in S : ~ (y < x)
  BY <1>1, Zenon DEF OpToRel
<1>3. \A y \in S : x <= y
  BY <1>2
<1> QED
  BY <1>3, Zenon DEF Q!First

LEMMA GoodBegins ==
    Good({}, [i \in Q!IdPlaces |-> 0], [p \in Q!PortPlaces |-> 0])
<1> DEFINE b == [i \in Q!IdPlaces |-> 0]
           q == [p \in Q!PortPlaces |-> 0]
           m == [i \in Q!IdPlaces |-> i]
<1>1. Tables(b, q)
  BY Sizes, Zenon DEF Tables
<1>2. Q!FreeIn(b) = Q!IdPlaces /\ FreeSmall(q) = Small
  BY Sizes, Zenon DEF Q!FreeIn, FreeSmall
<1>3. Into(m, Q!IdPlaces, Small)
  BY Sizes, Zenon DEF Into
<1>4. Room(b, q)
  BY <1>2, <1>3, Zenon DEF Room
<1> QED
  BY <1>1, <1>4, Zenon DEF Good, InUse, Apart

----------------------------------------------------------------------------
(* release_qrtr_client_id.  The ids come back with their ports.            *)
LEMMA GoodReleased ==
    ASSUME NEW C, NEW b, NEW q, Good(C, b, q), NEW E \in SUBSET C
    PROVE  Good(C \ E, Q!FreedAll(b, {e.id : e \in E}), Q!FreedAll(q, {e.port : e \in E}))
<1> DEFINE b2 == Q!FreedAll(b, {e.id : e \in E})
           q2 == Q!FreedAll(q, {e.port : e \in E})
<1>1. /\ DOMAIN b = Q!IdPlaces /\ DOMAIN q = Q!PortPlaces
      /\ Small \subseteq Q!PortPlaces /\ 0 \notin Small /\ 0 \notin Q!IdPlaces
  BY Sizes, Zenon DEF Good, Tables
<1>2. \A i \in Q!IdPlaces : b2[i] = IF \E e \in E : e.id = i /\ b[i] = i THEN 0 ELSE b[i]
  BY <1>1, Zenon DEF Q!FreedAll
<1>3. \A p \in Q!PortPlaces : q2[p] = IF \E e \in E : e.port = p /\ q[p] = p THEN 0 ELSE q[p]
  BY <1>1, Zenon DEF Q!FreedAll
<1>4. Tables(b2, q2)
  <2>1. b2 \in [Q!IdPlaces -> Nat] /\ q2 \in [Q!PortPlaces -> Nat]
    BY <1>1, Zenon DEF Q!FreedAll, Good, Tables
  <2> QED
    BY SMTT(30), <1>1, <1>2, <1>3, <2>1 DEF Good, Tables
<1>5. InUse(C \ E, b2, q2)
  <2> SUFFICES ASSUME NEW e \in C \ E
               PROVE  /\ e.id # 0 => b2[e.id] = e.id
                      /\ e.port \in Small => q2[e.port] = e.port
    BY Zenon DEF InUse, Good
  <2>1. e.id # 0 => \A f \in E : f.id # e.id
    BY Zenon DEF Good, Apart
  <2>2. e.port \in Small => \A f \in E : f.port # e.port
    BY Zenon DEF Good, Apart
  <2> QED
    BY SMTT(30), <1>1, <1>2, <1>3, <2>1, <2>2 DEF Good, InUse
<1>6. Apart(C \ E)
  BY Zenon DEF Good, Apart
<1>7. Room(b2, q2)
  <2>1. PICK m : Into(m, Q!FreeIn(b), FreeSmall(q))
    BY Zenon DEF Good, Room
  <2> DEFINE owner(i) == CHOOSE e \in E : e.id = i
             m2 == [i \in Q!FreeIn(b2) |-> IF i \in Q!FreeIn(b) THEN m[i] ELSE owner(i).port]
  <2>2. \A i \in Q!FreeIn(b2) : i \notin Q!FreeIn(b) =>
          owner(i) \in E /\ owner(i).id = i /\ i # 0
    BY SMTT(30), <1>1, <1>2 DEF Q!FreeIn, Q!FreedAll
  <2>3. \A i \in Q!FreeIn(b2) : i \notin Q!FreeIn(b) =>
          /\ owner(i).port \in Small /\ q[owner(i).port] = owner(i).port
          /\ owner(i).port \in FreeSmall(q2) /\ owner(i).port \notin FreeSmall(q)
    BY SMTT(30), <1>1, <1>3, <2>2 DEF Good, InUse, FreeSmall
  <2>4. FreeSmall(q) \subseteq FreeSmall(q2)
    BY <1>1, <1>3, Zenon DEF FreeSmall
  <2>5. m2 \in [Q!FreeIn(b2) -> FreeSmall(q2)]
    BY <2>1, <2>3, <2>4, Zenon DEF Into
  <2>6. ASSUME NEW i \in Q!FreeIn(b2), NEW j \in Q!FreeIn(b2), m2[i] = m2[j]
        PROVE  i = j
    <3>1. CASE i \in Q!FreeIn(b) /\ j \in Q!FreeIn(b)
      BY <2>1, <2>6, <3>1, Zenon DEF Into
    <3>2. CASE i \in Q!FreeIn(b) /\ j \notin Q!FreeIn(b)
      <4>1. m2[i] \in FreeSmall(q)
        BY <2>1, <3>2, Zenon DEF Into
      <4>2. m2[j] \notin FreeSmall(q)
        BY <2>3, <3>2, Zenon
      <4> QED
        BY <2>6, <4>1, <4>2, Zenon
    <3>3. CASE i \notin Q!FreeIn(b) /\ j \in Q!FreeIn(b)
      <4>1. m2[j] \in FreeSmall(q)
        BY <2>1, <3>3, Zenon DEF Into
      <4>2. m2[i] \notin FreeSmall(q)
        BY <2>3, <3>3, Zenon
      <4> QED
        BY <2>6, <4>1, <4>2, Zenon
    <3>4. CASE i \notin Q!FreeIn(b) /\ j \notin Q!FreeIn(b)
      <4>1. owner(i) \in C /\ owner(j) \in C /\ owner(i).port = owner(j).port
        BY <2>2, <2>6, <3>4, Zenon
      <4>2. owner(i) = owner(j)
        <5> HIDE DEF owner
        <5>1. Apart(C)
          BY Zenon DEF Good
        <5>2. owner(i).port \in Small
          BY <2>3, <3>4, Zenon
        <5> QED
          BY <4>1, <5>1, <5>2, Zenon DEF Apart
      <4> QED
        BY <4>2, <2>2, <3>4, Zenon
    <3> QED
      BY <3>1, <3>2, <3>3, <3>4, Zenon
  <2>7. Into(m2, Q!FreeIn(b2), FreeSmall(q2))
    BY <2>5, <2>6, Zenon DEF Into
  <2> QED
    BY <2>7, Zenon DEF Room
<1> QED
  BY SMTT(30), <1>4, <1>5, <1>6, <1>7 DEF Good

----------------------------------------------------------------------------
(* alloc_qrtr_client_id.  With an id left there is a small port left; with *)
(* none, the port may be any.                                              *)
LEMMA GoodAllocated ==
    ASSUME NEW C, NEW b, NEW q, Good(C, b, q),
           NEW x, x.id = Q!Alloc(b), x.port = Q!Alloc(q)
    PROVE  Good(C \cup {x}, Q!Marked(b), Q!Marked(q))
<1> DEFINE i == Q!Alloc(b)
           p == Q!Alloc(q)
<1>1. /\ b \in [Q!IdPlaces -> Nat] /\ q \in [Q!PortPlaces -> Nat]
      /\ DOMAIN b = Q!IdPlaces /\ DOMAIN q = Q!PortPlaces
      /\ Small \subseteq Q!PortPlaces /\ 0 \notin Small /\ 0 \notin Q!IdPlaces /\ 0 \notin Q!PortPlaces
      /\ Q!IdPlaces \subseteq Nat /\ Q!PortPlaces \subseteq Nat
      /\ Q!FreeIn(b) \subseteq Q!IdPlaces /\ Q!FreeIn(q) \subseteq Q!PortPlaces
      /\ FreeSmall(q) \subseteq Q!FreeIn(q)
  <2>1. b \in [Q!IdPlaces -> Nat] /\ q \in [Q!PortPlaces -> Nat]
    BY Zenon DEF Good, Tables
  <2>2. 0 \notin Q!PortPlaces /\ Q!IdPlaces \subseteq Nat /\ Q!PortPlaces \subseteq Nat
    BY DEF Q!IdPlaces, Q!PortPlaces
  <2> QED
    BY <2>1, <2>2, Sizes, Zenon DEF Q!FreeIn, FreeSmall
<1>2. Q!FreeIn(b) # {} => /\ i \in Q!FreeIn(b) /\ i % Width = i
                        /\ Q!Marked(b) = [b EXCEPT ![i] = i]
  <2> HAVE Q!FreeIn(b) # {}
  <2>1. i \in Q!FreeIn(b)
    BY <1>1, FirstIsLeast, Zenon DEF Q!Alloc
  <2>2. i % Width = i
    BY <1>1, <2>1, Sizes, Stored, Zenon
  <2> QED
    BY <2>1, <2>2, Zenon DEF Q!Marked
<1>3. Q!FreeIn(b) = {} => i = 0 /\ Q!Marked(b) = b
  BY Zenon DEF Q!Alloc, Q!Marked, Q!First
<1>4. Q!FreeIn(q) # {} => /\ p \in Q!FreeIn(q) /\ \A r \in Q!FreeIn(q) : p <= r
                        /\ Q!Marked(q) = [q EXCEPT ![p] = p % Width]
  BY <1>1, FirstIsLeast, Zenon DEF Q!Alloc, Q!Marked
<1>5. Q!FreeIn(q) = {} => p = 0 /\ Q!Marked(q) = q
  BY Zenon DEF Q!Alloc, Q!Marked, Q!First
<1>6. p \in Small => p % Width = p
  BY SMTT(30), Stored
<1>7. Q!FreeIn(b) # {} => p \in FreeSmall(q)
  <2> HAVE Q!FreeIn(b) # {}
  <2>1. PICK r : r \in FreeSmall(q)
    BY Zenon DEF Good, Room, Into
  <2>2. p \in Q!FreeIn(q) /\ p <= r
    BY <1>1, <1>4, <2>1, Zenon
  <2> QED
    BY SMTT(30), <1>1, <2>1, <2>2, Sizes DEF FreeSmall, Q!FreeIn, Small, Q!PortPlaces
<1>8. Tables(Q!Marked(b), Q!Marked(q))
  <2>1. Q!Marked(b) \in [Q!IdPlaces -> Nat] /\ \A k \in Q!IdPlaces : Q!Marked(b)[k] \in {0, k}
    BY <1>1, <1>2, <1>3 DEF Good, Tables
  <2>2. p \in Q!PortPlaces => p % Width \in Nat
    BY <1>1, Stored, Zenon
  <2>3. Q!Marked(q) \in [Q!PortPlaces -> Nat]
    BY <1>1, <1>4, <1>5, <2>2
  <2>4. \A r \in Small : Q!Marked(q)[r] \in {0, r}
    BY <1>1, <1>4, <1>5, <1>6, Zenon DEF Good, Tables
  <2> QED
    BY <2>1, <2>3, <2>4, Zenon DEF Tables
<1>9. /\ \A e \in C : e.id # 0 => e.id # i
      /\ \A e \in C : e.port \in Small => e.port # p
  BY SMTT(30), <1>1, <1>2, <1>3, <1>4, <1>5 DEF Good, InUse, Q!FreeIn
<1>10. InUse(C \cup {x}, Q!Marked(b), Q!Marked(q))
  <2>1. ASSUME NEW e \in C
        PROVE  /\ e.id # 0 => Q!Marked(b)[e.id] = e.id
               /\ e.port \in Small => Q!Marked(q)[e.port] = e.port
    <3>1. e.id # 0 => Q!Marked(b)[e.id] = b[e.id]
      BY <1>1, <1>2, <1>3, <1>9, Zenon DEF Good, InUse
    <3>2. e.port \in Small => Q!Marked(q)[e.port] = q[e.port]
      BY <1>1, <1>4, <1>5, <1>9, Zenon
    <3> QED
      BY <3>1, <3>2, Zenon DEF Good, InUse
  <2>2. i # 0 => Q!Marked(b)[i] = i /\ p \in Small
    BY <1>1, <1>2, <1>3, <1>7, Zenon DEF FreeSmall
  <2>3. p \in Small => Q!Marked(q)[p] = p
    BY SMTT(30), <1>1, <1>4, <1>5, <1>6
  <2>4. i \in Q!IdPlaces \cup {0} /\ p \in Q!PortPlaces \cup {0}
    BY <1>1, <1>2, <1>3, <1>4, <1>5, Zenon
  <2> QED
    BY <2>1, <2>2, <2>3, <2>4, Zenon DEF Good, InUse
<1>11. Apart(C \cup {x})
  BY <1>9, <1>1, <1>2, <1>3, Zenon DEF Good, Apart
<1>12. Room(Q!Marked(b), Q!Marked(q))
  <2>1. CASE Q!FreeIn(b) = {}
    <3>1. Into([k \in {} |-> 0], Q!FreeIn(Q!Marked(b)), FreeSmall(Q!Marked(q)))
      BY <1>3, <2>1, Zenon DEF Into
    <3> QED
      BY <3>1, Zenon DEF Room
  <2>2. CASE Q!FreeIn(b) # {}
    <3>1. PICK m : Into(m, Q!FreeIn(b), FreeSmall(q))
      BY Zenon DEF Good, Room
    <3> DEFINE I == Q!FreeIn(b) \ {i}
               P == FreeSmall(q) \ {p}
               m2 == [k \in I |-> IF m[k] = p THEN m[i] ELSE m[k]]
    <3>2. Q!FreeIn(Q!Marked(b)) = I
      <4>1. i \in Q!IdPlaces /\ i # 0
        BY <1>1, <1>2, <2>2, Zenon
      <4>2. /\ DOMAIN Q!Marked(b) = Q!IdPlaces
            /\ \A k \in Q!IdPlaces : Q!Marked(b)[k] = IF k = i THEN i ELSE b[k]
        BY <1>1, <1>2, <2>2, Zenon
      <4> HIDE DEF i
      <4> QED
        BY <1>1, <4>1, <4>2, Zenon DEF Q!FreeIn
    <3>3. FreeSmall(Q!Marked(q)) = P
      BY <1>1, <1>4, <1>6, <1>7, <2>2, Zenon DEF FreeSmall
    <3>4. m2 \in [I -> P]
      <4>1. i \in Q!FreeIn(b)
        BY <1>2, <2>2, Zenon
      <4>2. /\ \A k \in Q!FreeIn(b) : m[k] \in FreeSmall(q)
            /\ \A j, k \in Q!FreeIn(b) : m[j] = m[k] => j = k
        BY <3>1, Zenon DEF Into
      <4>3. ASSUME NEW k \in I
            PROVE  (IF m[k] = p THEN m[i] ELSE m[k]) \in P
        <5>1. m[k] \in FreeSmall(q) /\ m[i] \in FreeSmall(q) /\ m[k] # m[i]
          BY <4>1, <4>2, Zenon
        <5> QED
          BY <5>1, Zenon
      <4> QED
        BY <4>3, Zenon
    <3>5. \A j, k \in I : m2[j] = m2[k] => j = k
      BY <1>2, <2>2, <3>1, Zenon DEF Into
    <3> HIDE DEF m2
    <3> QED
      BY <3>2, <3>3, <3>4, <3>5, Zenon DEF Room, Into
  <2> QED
    BY <2>1, <2>2, Zenon
<1> QED
  BY SMTT(30), <1>8, <1>10, <1>11, <1>12 DEF Good

----------------------------------------------------------------------------
Safe == Good(clients, client_bitmap, port_bitmap)

LEMMA ServicesAre == Q!Services = {1}
BY DEF Q!Services

LEMMA SafeBegins == Q!Init => Safe
BY GoodBegins, Zenon DEF Q!Init, Safe

LEMMA SafeReleased ==
    ASSUME Safe, NEW E \in SUBSET clients, Q!release_qrtr_client_id(E)
    PROVE  Safe'
BY GoodReleased, Zenon DEF Safe, Q!release_qrtr_client_id

LEMMA SafeAllocated ==
    ASSUME Safe, NEW fd, NEW r, Q!alloc_qrtr_client_id(fd, r)
    PROVE  Safe'
BY GoodAllocated, Zenon DEF Safe, Q!alloc_qrtr_client_id

LEMMA SafeKilled == ASSUME Safe, Q!Killed PROVE Safe'
BY Zenon DEF Safe, Q!Killed, Good, InUse, Apart

LEMMA SafeKept == ASSUME Safe, (Q!Next \/ UNCHANGED <<localVars, qrtrVars>>) PROVE Safe'
<1>1. CASE UNCHANGED Q!tables
  BY <1>1, Zenon DEF Q!tables, Safe
<1>2. ASSUME NEW fd \in Clients, Q!cleanup_qrtr_connection(fd)
      PROVE  Safe'
  BY SMTT(30), <1>2, SafeReleased DEF Q!cleanup_qrtr_connection, Q!Entries
<1>3. ASSUME NEW fd \in Clients, Q!recv_qmi_from_client(fd)
      PROVE  Safe'
  <2>1. CASE Q!Killed
    BY SMTT(30), <2>1, SafeKilled
  <2>2. CASE Q!Control(fd, lc2p[fd])
    BY <1>1, <2>2, SafeReleased, SafeAllocated, Zenon DEF Q!Control, Q!Entries
  <2> QED
    BY <1>3, <2>1, <2>2, Zenon DEF Q!recv_qmi_from_client
<1>4. CASE Q!recv_qrtr_from_dev
  BY <1>1, <1>4, SafeKilled, Zenon DEF Q!recv_qrtr_from_dev
<1>5. CASE Q!DeviceLost
  BY <1>5, SafeReleased, Zenon DEF Q!DeviceLost
<1>6. CASE Q!Main
  BY <1>1, <1>6, Zenon DEF Q!Main, Q!OpenDevice, Q!Offered, Q!InitFails, Q!Joined
<1>7. ASSUME NEW fd \in Clients, Q!Connect(fd) \/ Q!Send(fd) \/ Q!Leaves(fd) \/ Q!accept_qrtr_connection(fd)
      PROVE  Safe'
  BY <1>1, <1>7, Zenon DEF Q!Connect, Q!Send, Q!Leaves, Q!accept_qrtr_connection
<1>8. CASE Q!Answers \/ \E s \in {1} : Q!ServiceMoves(s)
  BY <1>1, <1>8, Zenon DEF Q!Answers, Q!ServiceMoves
<1>9. CASE UNCHANGED <<localVars, qrtrVars>>
  BY <1>1, <1>9, Zenon DEF qrtrVars, Q!tables
<1> QED
  BY SMTT(30), <1>2, <1>3, <1>4, <1>5, <1>6, <1>7, <1>8, <1>9, ServicesAre DEF Q!Next, Q!Thread

Shared == which = "qrtr" => Safe

LEMMA QrtrSteps ==
    ASSUME [NextOne]_allVars
    PROVE  /\ which' = which
           /\ which = "qrtr" => (Q!Next \/ UNCHANGED <<localVars, qrtrVars>>)
BY Zenon DEF NextOne, OfMbim, OfAtc, OfQrtr, allVars

LEMMA SharedKept == ASSUME Shared, [NextOne]_allVars PROVE Shared'
BY QrtrSteps, SafeKept, Zenon DEF Shared

(* No two entries that have an id share it, or the port their answers come *)
(* in at (alloc_client_id, alloc_port_id and their counterparts).          *)
THEOREM IdsAndPortsApart == SpecOne => []OneOwner
<1>1. InitOne => Shared
  BY SafeBegins, Zenon DEF InitOne, Shared
<1>2. Shared /\ [NextOne]_allVars => Shared'
  BY SharedKept, Zenon
<1>3. Shared => OneOwner
  BY Zenon DEF Shared, Safe, Good, InUse, Apart, OneOwner, Q!OneOwner, Q!Working
<1> QED
  BY <1>1, <1>2, <1>3, PTL DEF SpecOne

----------------------------------------------------------------------------
(* quectel-qrtr-proxy: an answer goes to the entry that asked.  It comes   *)
(* to a port, and OneOwner alone does not say that the port is still that  *)
(* of the same entry: the numbers of requests and entries are followed     *)
(* from the client through the modem and back.                             *)

Numbered == [service : {1}, port : Nat]
QReq == [kind : {"none", "get", "release", "data", "other"}, type : {0, 1}, id : Nat, n : Nat]
QMsg == [kind : {"new", "del", "data"}, service : {1}, port : Nat, n : Nat]
Entry == [fd : Clients, n : Nat, type : {1}, id : Nat, port : Nat]
QrtrTypes ==
    /\ where \in [{1} -> Nat]
    /\ qrtr_server_list \in Seq(Numbered)
    /\ lc2p \in [Clients -> QReq]
    /\ fromDev \in Seq(QMsg)
    /\ latModem \subseteq [port : Nat, type : {1}, to : Nat, n : Nat]
    /\ clients \subseteq Entry
    /\ gets \in Nat

(* The answers that the modem owes or has sent: whose, and to which port.  *)
Owed == {[n |-> q.n, port |-> q.port] : q \in latModem} \cup
        {[n |-> fromDev[i].n, port |-> fromDev[i].port] :
            i \in {j \in 1..Len(fromDev) : fromDev[j].kind = "data"}}

(* The number of a request for an id that is still unread.                 *)
Asks(c, n) == lc2p[c].kind = "get" /\ lc2p[c].n = n

(* Numbers are used once: for the request, then for the entry made for it, *)
(* and in answers for that entry, which come to its port.                  *)
QrtrNumbers ==
    /\ \A e \in clients : e.n <= gets
    /\ \A e, f \in clients : e.n = f.n => e = f
    /\ \A o \in Owed : o.n <= gets
    /\ \A o \in Owed, f \in clients : f.n = o.n => f.port = o.port /\ f.id # 0
    /\ \A c \in Clients, n \in Nat : Asks(c, n) => n <= gets
    /\ \A c \in Clients, n \in Nat : Asks(c, n) => /\ \A e \in clients : e.n # n
                                                   /\ \A o \in Owed : o.n # n
    /\ \A c, d \in Clients, n \in Nat : Asks(c, n) /\ Asks(d, n) => c = d
    /\ \A c \in Clients : lc2p[c].kind = "data" => lc2p[c].id # 0

QrtrKept == UNCHANGED <<localVars, qrtrVars>>

LEMMA NoneIs == Q!None \in QReq /\ Q!None.kind = "none"
BY Zenon DEF Q!None, QReq

LEMMA QrtrBegins == ASSUME Q!Init PROVE QrtrTypes /\ QrtrNumbers /\ Q!Delivered
<1>1. QrtrTypes
  <2>1. where = [s \in {1} |-> 1]
    BY ServicesAre, Zenon DEF Q!Init
  <2>2. lc2p = [c \in Clients |-> Q!None]
    BY Zenon DEF Q!Init
  <2>3. qrtr_server_list = <<>> /\ fromDev = <<>> /\ latModem = {} /\ clients = {} /\ gets = 0
    BY Zenon DEF Q!Init
  <2> QED
    BY <2>1, <2>2, <2>3, NoneIs DEF QrtrTypes
<1>2. latModem = {} /\ fromDev = <<>> /\ clients = {} /\ lgot = {}
  BY Zenon DEF Q!Init
<1>3. Owed = {}
  BY <1>2 DEF Owed
<1>4. \A c \in Clients : lc2p[c].kind = "none"
  <2>1. lc2p = [c \in Clients |-> Q!None]
    BY Zenon DEF Q!Init
  <2> QED
    BY <2>1, NoneIs, Zenon
<1>5. \A c \in Clients, n \in Nat : ~ Asks(c, n)
  BY <1>4, Zenon DEF Asks
<1>6. \A c \in Clients : lc2p[c].kind # "data"
  BY <1>4, Zenon
<1>7. QrtrNumbers
  BY <1>2, <1>3, <1>5, <1>6, Zenon DEF QrtrNumbers
<1> QED
  BY <1>1, <1>2, <1>7, Zenon DEF Q!Delivered

(* The steps that use no new number.                                       *)
LEMMA NumbersStay ==
    ASSUME QrtrNumbers, Owed' \subseteq Owed, clients' \subseteq clients, gets' = gets,
           \A c \in Clients : lc2p'[c] \in {lc2p[c], Q!None}
    PROVE  QrtrNumbers'
<1>1. ASSUME NEW c \in Clients, NEW n \in Nat
      PROVE  Asks(c, n)' => Asks(c, n)
  <2>1. CASE lc2p'[c] = lc2p[c]
    BY <2>1, Zenon DEF Asks
  <2>2. CASE lc2p'[c] = Q!None
    <3>1. lc2p'[c].kind # "get"
      BY <2>2, NoneIs
    <3> QED
      BY <3>1, Zenon DEF Asks
  <2> QED
    BY <2>1, <2>2, Zenon
<1>2. ASSUME NEW c \in Clients
      PROVE  lc2p'[c].kind = "data" => lc2p'[c].id # 0
  <2>1. CASE lc2p'[c] = lc2p[c]
    BY <2>1, Zenon DEF QrtrNumbers
  <2>2. CASE lc2p'[c] = Q!None
    BY <2>2, NoneIs, Zenon
  <2> QED
    BY <2>1, <2>2, Zenon
<1> QED
  BY <1>1, <1>2, Zenon DEF QrtrNumbers

LEMMA OwedTyped ==
    ASSUME QrtrTypes
    PROVE  (\A e \in clients : e.n \in Nat) /\ (\A o \in Owed : o.n \in Nat)
<1>1. ASSUME NEW e \in clients PROVE e.n \in Nat
  <2>1. e \in Entry
    BY Zenon DEF QrtrTypes
  <2> QED
    BY <2>1, Zenon DEF Entry
<1>2. ASSUME NEW q \in latModem PROVE q.n \in Nat
  <2>1. q \in [port : Nat, type : {1}, to : Nat, n : Nat]
    BY Zenon DEF QrtrTypes
  <2> QED
    BY <2>1, Zenon
<1>3. ASSUME NEW i \in 1..Len(fromDev) PROVE fromDev[i].n \in Nat
  <2>1. fromDev \in Seq(QMsg)
    BY Zenon DEF QrtrTypes
  <2>2. fromDev[i] \in QMsg
    BY <2>1
  <2> QED
    BY <2>2, Zenon DEF QMsg
<1>4. ASSUME NEW o \in Owed PROVE o.n \in Nat
  <2>1. \/ \E q \in latModem : o = [n |-> q.n, port |-> q.port]
        \/ \E i \in 1..Len(fromDev) : o = [n |-> fromDev[i].n, port |-> fromDev[i].port]
    BY Zenon DEF Owed
  <2>2. ASSUME NEW a, NEW b, a \in Nat, o = [n |-> a, port |-> b] PROVE o.n \in Nat
    BY <2>2, Zenon
  <2> QED
    BY <1>2, <1>3, <2>1, <2>2, Zenon
<1> QED
  BY <1>1, <1>4, Zenon

LEMMA OwedStays ==
    ASSUME latModem' \subseteq latModem,
           \A j \in 1..Len(fromDev') : fromDev'[j].kind = "data" =>
              [n |-> fromDev'[j].n, port |-> fromDev'[j].port] \in Owed
    PROVE  Owed' \subseteq Owed
BY Zenon DEF Owed

LEMMA OwedSame ==
    ASSUME latModem' \subseteq latModem, fromDev' = fromDev
    PROVE  Owed' \subseteq Owed
BY Zenon DEF Owed

LEMMA Reduced ==
    ASSUME QrtrTypes, QrtrNumbers,
           where' = where, qrtr_server_list' = qrtr_server_list, gets' = gets,
           latModem' \subseteq latModem, clients' \subseteq clients,
           fromDev' \in {fromDev, <<>>}, lc2p' = lc2p \/ \E S : Q!Closed(S)
    PROVE  QrtrTypes' /\ QrtrNumbers'
<1>1. /\ lc2p' \in [Clients -> QReq]
      /\ \A c \in Clients : lc2p'[c] \in {lc2p[c], Q!None}
  <2>1. CASE lc2p' = lc2p
    BY <2>1, Zenon DEF QrtrTypes
  <2>2. ASSUME NEW S, Q!Closed(S)
        PROVE  /\ lc2p' \in [Clients -> QReq]
               /\ \A c \in Clients : lc2p'[c] \in {lc2p[c], Q!None}
    <3>1. lc2p' = [c \in Clients |-> IF c \in S THEN Q!None ELSE lc2p[c]]
      BY <2>2, Zenon DEF Q!Closed
    <3> QED
      BY <3>1, NoneIs, Zenon DEF QrtrTypes
  <2> QED
    BY <2>1, <2>2, Zenon
<1>2. fromDev' \in Seq(QMsg)
  <2>1. fromDev \in Seq(QMsg)
    BY Zenon DEF QrtrTypes
  <2>2. <<>> \in Seq(QMsg)
    OBVIOUS
  <2> QED
    BY <2>1, <2>2, Zenon
<1>3. Owed' \subseteq Owed
  <2>1. CASE fromDev' = <<>>
    <3>1. Len(fromDev') = 0
      BY <2>1, Zenon
    <3>2. 1..Len(fromDev') = {}
      BY <3>1
    <3> QED
      BY <3>2, OwedStays, Zenon
  <2> QED
    BY <2>1, OwedSame, Zenon
<1> QED
  BY <1>1, <1>2, <1>3, NumbersStay, Zenon DEF QrtrTypes

LEMMA QrtrCalmKept ==
    ASSUME QrtrTypes, QrtrNumbers, Q!Delivered,
           \/ QrtrKept \/ Q!Offered \/ Q!Joined \/ Q!DeviceLost \/ Q!InitFails \/ Q!Killed
           \/ \E c \in Clients : \/ Q!Connect(c) \/ Q!Leaves(c) \/ Q!accept_qrtr_connection(c)
                                 \/ Q!cleanup_qrtr_connection(c)
    PROVE  QrtrTypes' /\ QrtrNumbers' /\ Q!Delivered'
<1>1. where' = where /\ qrtr_server_list' = qrtr_server_list /\ gets' = gets /\ lgot' = lgot
  BY Zenon DEF QrtrKept, Q!Offered, Q!Joined, Q!DeviceLost, Q!InitFails, Q!Killed, Q!Connect,
        Q!Leaves, Q!accept_qrtr_connection, Q!cleanup_qrtr_connection, Q!budgets, localVars,
        qrtrVars
<1>2. latModem' \in {latModem, {}} /\ fromDev' \in {fromDev, <<>>}
  BY Zenon DEF QrtrKept, Q!Offered, Q!Joined, Q!DeviceLost, Q!InitFails, Q!Killed, Q!Connect,
        Q!Leaves, Q!accept_qrtr_connection, Q!cleanup_qrtr_connection, localVars, qrtrVars
<1>3. clients' \subseteq clients
  BY Zenon DEF QrtrKept, Q!Offered, Q!Joined, Q!DeviceLost, Q!InitFails, Q!Killed, Q!Connect,
        Q!Leaves, Q!accept_qrtr_connection, Q!cleanup_qrtr_connection, Q!tables,
        Q!release_qrtr_client_id, qrtrVars
<1>4. lc2p' = lc2p \/ \E S : Q!Closed(S)
  BY Zenon DEF QrtrKept, Q!Offered, Q!Joined, Q!DeviceLost, Q!InitFails, Q!Killed, Q!Connect,
        Q!Leaves, Q!accept_qrtr_connection, Q!cleanup_qrtr_connection, localVars
<1>5. latModem' \subseteq latModem
  BY <1>2, Zenon
<1>6. QrtrTypes' /\ QrtrNumbers'
  BY <1>1, <1>2, <1>3, <1>4, <1>5, Reduced, Zenon
<1> QED
  BY <1>1, <1>6, Zenon DEF Q!Delivered

LEMMA AnnouncementIs ==
    ASSUME QrtrTypes, NEW s \in {1}, NEW k \in {"new", "del"}
    PROVE  Q!Announcement(k, s) \in QMsg /\ Q!Announcement(k, s).kind # "data"
BY Zenon DEF QrtrTypes, Q!Announcement, QMsg

LEMMA OpenDeviceKept ==
    ASSUME QrtrTypes, QrtrNumbers, Q!Delivered, Q!OpenDevice
    PROVE  QrtrTypes' /\ QrtrNumbers' /\ Q!Delivered'
<1>1. /\ qrtr_server_list' = <<>> /\ latModem' = {} /\ where' = where /\ gets' = gets
      /\ lgot' = lgot /\ clients' = clients /\ lc2p' = lc2p
  BY Zenon DEF Q!OpenDevice, Q!tables, Q!budgets
<1>2. PICK n \in 0..1 : \E order \in [1..n -> {1}] :
         fromDev' = [i \in 1..n |-> Q!Announcement("new", order[i])]
  BY ServicesAre, Zenon DEF Q!OpenDevice
<1>3. PICK order \in [1..n -> {1}] : fromDev' = [i \in 1..n |-> Q!Announcement("new", order[i])]
  BY <1>2, Zenon
<1>4. \A i \in 1..n : Q!Announcement("new", order[i]) \in QMsg
                       /\ Q!Announcement("new", order[i]).kind # "data"
  BY AnnouncementIs, Zenon
<1>5. fromDev' \in [1..n -> QMsg] /\ \A i \in 1..n : fromDev'[i].kind # "data"
  BY <1>3, <1>4, Zenon
<1>6. fromDev' \in Seq(QMsg) /\ Len(fromDev') = n
  BY <1>5
<1>7. Owed' \subseteq Owed
  BY <1>1, <1>5, <1>6, OwedStays, Zenon
<1>8. QrtrTypes'
  BY <1>1, <1>6 DEF QrtrTypes
<1>9. QrtrNumbers'
  BY <1>1, <1>7, NumbersStay, Zenon
<1> QED
  BY <1>1, <1>8, <1>9, Zenon DEF Q!Delivered

LEMMA OneMore ==
    ASSUME NEW S, NEW s \in Seq(S), NEW x \in S
    PROVE  /\ s \o <<x>> \in Seq(S)
           /\ \A k \in 1..Len(s \o <<x>>) :
                 (s \o <<x>>)[k] = x \/ (k \in 1..Len(s) /\ (s \o <<x>>)[k] = s[k])
OBVIOUS

LEMMA ServiceMovesKept ==
    ASSUME QrtrTypes, QrtrNumbers, Q!Delivered, Q!ServiceMoves(1)
    PROVE  QrtrTypes' /\ QrtrNumbers' /\ Q!Delivered'
<1>1. /\ qrtr_server_list' = qrtr_server_list /\ latModem' = latModem /\ gets' = gets
      /\ lgot' = lgot /\ clients' = clients /\ lc2p' = lc2p
  BY Zenon DEF Q!ServiceMoves, Q!tables
<1>2. PICK port \in {0, where[1] + 1} :
         /\ where' = [where EXCEPT ![1] = port]
         /\ fromDev' \in {fromDev, fromDev \o <<Q!Announcement("del", 1)>> \o <<>>,
               fromDev \o <<Q!Announcement("del", 1)>>
                       \o <<[Q!Announcement("new", 1) EXCEPT !.port = port]>>}
  BY Zenon DEF Q!ServiceMoves
<1> DEFINE d == Q!Announcement("del", 1)
           m == [Q!Announcement("new", 1) EXCEPT !.port = port]
<1>3. port \in Nat /\ where' \in [{1} -> Nat]
  BY <1>2 DEF QrtrTypes
<1>4. d \in QMsg /\ d.kind # "data" /\ m \in QMsg /\ m.kind # "data"
  <2>1. Q!Announcement("new", 1) \in QMsg /\ Q!Announcement("new", 1).kind # "data"
    BY AnnouncementIs, Zenon
  <2>2. m \in QMsg /\ m.kind # "data"
    BY <1>3, <2>1, Zenon DEF QMsg
  <2> QED
    BY <2>2, AnnouncementIs, Zenon
<1> HIDE DEF d, m
<1>5. fromDev \in Seq(QMsg)
  BY Zenon DEF QrtrTypes
<1>6. PICK x : x = fromDev \o <<d>>
  BY Zenon
<1>7. PICK y : y = x \o <<m>>
  BY Zenon
<1>12. /\ x \in Seq(QMsg)
       /\ \A k \in 1..Len(x) : x[k] = d \/ (k \in 1..Len(fromDev) /\ x[k] = fromDev[k])
  BY <1>4, <1>5, <1>6, OneMore
<1>11. fromDev' \in {fromDev, x, y}
  <2>1. x \o <<>> = x
    BY <1>12
  <2>2. fromDev' \in {fromDev, x \o <<>>, x \o <<m>>}
    BY <1>2, <1>6, Zenon DEF d, m
  <2> QED
    BY <1>7, <2>1, <2>2, Zenon
<1>13. /\ y \in Seq(QMsg)
       /\ \A k \in 1..Len(y) : y[k] = m \/ (k \in 1..Len(x) /\ y[k] = x[k])
  BY <1>4, <1>7, <1>12, OneMore
<1>14. ASSUME NEW j \in 1..Len(fromDev'), fromDev'[j].kind = "data"
       PROVE  j \in 1..Len(fromDev) /\ fromDev'[j] = fromDev[j]
  BY <1>4, <1>11, <1>12, <1>13, <1>14, Zenon
<1>15. fromDev' \in Seq(QMsg)
  BY <1>5, <1>11, <1>12, <1>13, Zenon
<1>8. Owed' \subseteq Owed
  <2>1. \A j \in 1..Len(fromDev') : fromDev'[j].kind = "data" =>
              [n |-> fromDev'[j].n, port |-> fromDev'[j].port] \in Owed
    BY <1>14, Zenon DEF Owed
  <2> QED
    BY <1>1, <2>1, OwedStays, Zenon
<1>9. QrtrTypes'
  BY <1>1, <1>3, <1>15, Zenon DEF QrtrTypes
<1>10. QrtrNumbers'
  BY <1>1, <1>8, NumbersStay, Zenon
<1> QED
  BY <1>1, <1>9, <1>10, Zenon DEF Q!Delivered

(* The modem answers a request that is there.                              *)
LEMMA AnswersKept ==
    ASSUME QrtrTypes, QrtrNumbers, Q!Delivered, Q!Answers
    PROVE  QrtrTypes' /\ QrtrNumbers' /\ Q!Delivered'
<1>1. /\ where' = where /\ qrtr_server_list' = qrtr_server_list /\ gets' = gets
      /\ lgot' = lgot /\ clients' = clients /\ lc2p' = lc2p
  BY Zenon DEF Q!Answers, Q!tables, Q!budgets
<1>2. PICK q \in latModem :
         /\ latModem' = latModem \ {q}
         /\ fromDev' \in {fromDev, Append(fromDev, [kind |-> "data", service |-> q.type,
                                                    port |-> q.port, n |-> q.n])}
  BY Zenon DEF Q!Answers
<1>3. PICK m : m = [kind |-> "data", service |-> q.type, port |-> q.port, n |-> q.n]
  BY Zenon
<1>4. q \in [port : Nat, type : {1}, to : Nat, n : Nat]
  BY Zenon DEF QrtrTypes
<1>5. m \in QMsg /\ m.n = q.n /\ m.port = q.port
  BY <1>3, <1>4, Zenon DEF QMsg
<1>6. fromDev \in Seq(QMsg) /\ fromDev' \in {fromDev, Append(fromDev, m)}
  BY <1>2, <1>3, Zenon DEF QrtrTypes
<1>7. /\ fromDev' \in Seq(QMsg)
      /\ \A k \in 1..Len(fromDev') :
            fromDev'[k] = m \/ (k \in 1..Len(fromDev) /\ fromDev'[k] = fromDev[k])
  BY <1>5, <1>6
<1>8. [n |-> m.n, port |-> m.port] \in Owed
  BY <1>5, Zenon DEF Owed
<1>9. \A j \in 1..Len(fromDev') : fromDev'[j].kind = "data" =>
              [n |-> fromDev'[j].n, port |-> fromDev'[j].port] \in Owed
  <2> SUFFICES ASSUME NEW j \in 1..Len(fromDev'), fromDev'[j].kind = "data"
               PROVE  [n |-> fromDev'[j].n, port |-> fromDev'[j].port] \in Owed
    BY Zenon
  <2>1. CASE fromDev'[j] = m
    BY <1>8, <2>1, Zenon
  <2>2. CASE j \in 1..Len(fromDev) /\ fromDev'[j] = fromDev[j]
    BY <2>2, Zenon DEF Owed
  <2> QED
    BY <1>7, <2>1, <2>2, Zenon
<1>10. latModem' \subseteq latModem
  BY <1>2, Zenon
<1>11. Owed' \subseteq Owed
  BY <1>9, <1>10, OwedStays, Zenon
<1>12. QrtrTypes'
  BY <1>1, <1>7, <1>10, Zenon DEF QrtrTypes
<1>13. QrtrNumbers'
  BY <1>1, <1>11, NumbersStay, Zenon
<1> QED
  BY <1>1, <1>12, <1>13, Zenon DEF Q!Delivered

(* An answer is read.  It is for one entry if that is still there, since   *)
(* its port is that entry's alone.                                         *)
LEMMA AnswerDelivered ==
    ASSUME QrtrTypes, QrtrNumbers, Safe, fromDev # <<>>, Head(fromDev).kind = "data",
           NEW e \in clients, e.port = Head(fromDev).port,
           NEW f \in clients, f.n = Head(fromDev).n
    PROVE  e.n = Head(fromDev).n
<1>1. fromDev \in Seq(QMsg)
  BY Zenon DEF QrtrTypes
<1>2. 1 \in 1..Len(fromDev) /\ Head(fromDev) = fromDev[1]
  BY <1>1
<1>3. [n |-> Head(fromDev).n, port |-> Head(fromDev).port] \in Owed
  BY <1>2, Zenon DEF Owed
<1>4. \A o \in Owed, x \in clients : x.n = o.n => x.port = o.port /\ x.id # 0
  BY Zenon DEF QrtrNumbers
<1>5. PICK o \in Owed : o = [n |-> Head(fromDev).n, port |-> Head(fromDev).port]
  BY <1>3, Zenon
<1>6. o.n = Head(fromDev).n /\ o.port = Head(fromDev).port
  BY <1>5, Zenon
<1>7. f.port = e.port /\ f.id # 0
  BY <1>4, <1>6, Zenon
<1>8. f # e => f.port # e.port
  BY <1>7, Zenon DEF Safe, Good, InUse, Apart
<1> QED
  BY <1>7, <1>8, Zenon

LEMMA ReceivedKept ==
    ASSUME QrtrTypes, QrtrNumbers, Safe, Q!Delivered, Q!recv_qrtr_from_dev, ~ Q!Killed
    PROVE  QrtrTypes' /\ QrtrNumbers' /\ Q!Delivered'
<1> DEFINE m == Head(fromDev)
           to == {e \in clients : m.kind = "data" /\ e.port = m.port}
<1>1. /\ fromDev # <<>> /\ fromDev' = Tail(fromDev) /\ where' = where /\ gets' = gets
      /\ latModem' = latModem /\ clients' = clients /\ lc2p' = lc2p
  BY Zenon DEF Q!recv_qrtr_from_dev, Q!tables, Q!budgets
<1>2. qrtr_server_list' \in {qrtr_server_list,
         Append(qrtr_server_list, [service |-> m.service, port |-> m.port])}
  BY Zenon DEF Q!recv_qrtr_from_dev, Q!handle_server_change
<1>3. lgot' = lgot \cup {[at |-> e.n, for |-> m.n, live |-> \E f \in clients : f.n = m.n] :
                            e \in to}
  BY Zenon DEF Q!recv_qrtr_from_dev
<1>4. fromDev \in Seq(QMsg)
  BY Zenon DEF QrtrTypes
<1>5. m \in QMsg
  BY <1>1, <1>4
<1>6. qrtr_server_list \in Seq(Numbered) /\ [service |-> m.service, port |-> m.port] \in Numbered
  <2> HIDE DEF m
  <2>1. [service |-> m.service, port |-> m.port] \in Numbered
    BY <1>5, Zenon DEF QMsg, Numbered
  <2> QED
    BY <2>1, Zenon DEF QrtrTypes
<1>7. qrtr_server_list' \in Seq(Numbered)
  <2> HIDE DEF m
  <2> QED
    BY <1>2, <1>6
<1>8. /\ fromDev' \in Seq(QMsg)
      /\ \A j \in 1..Len(fromDev') : j + 1 \in 1..Len(fromDev) /\ fromDev'[j] = fromDev[j + 1]
  BY <1>1, <1>4
<1>9. \A j \in 1..Len(fromDev') : fromDev'[j].kind = "data" =>
              [n |-> fromDev'[j].n, port |-> fromDev'[j].port] \in Owed
  BY <1>8, Zenon DEF Owed
<1>10. Owed' \subseteq Owed
  BY <1>1, <1>9, OwedStays, Zenon
<1>11. QrtrTypes'
  BY <1>1, <1>7, <1>8, Zenon DEF QrtrTypes
<1>12. QrtrNumbers'
  BY <1>1, <1>10, NumbersStay, Zenon
<1>13. ASSUME NEW g \in lgot', g.live
       PROVE  g.at = g.for
  <2>1. CASE g \in lgot
    BY <1>13, <2>1, Zenon DEF Q!Delivered
  <2>2. ASSUME NEW e \in to,
               g = [at |-> e.n, for |-> m.n, live |-> \E f \in clients : f.n = m.n]
        PROVE  g.at = g.for
    <3>1. /\ g.at = e.n /\ g.for = m.n
          /\ g.live = (\E f \in clients : f.n = m.n)
      BY <2>2, Zenon
    <3>2. PICK f \in clients : f.n = m.n
      BY <1>13, <3>1, Zenon
    <3>3. e \in clients /\ m.kind = "data" /\ e.port = m.port
      BY Zenon
    <3>4. e.n = m.n
      BY <1>1, <3>2, <3>3, AnswerDelivered, ZenonT(30)
    <3> QED
      BY <3>1, <3>4, Zenon
  <2> QED
    BY <1>3, <2>1, <2>2, Zenon
<1> QED
  BY <1>11, <1>12, <1>13, Zenon DEF Q!Delivered

(* A client sends.                                                         *)
LEMMA RequestIs ==
    ASSUME QrtrTypes, NEW c \in Clients, NEW r \in Q!Requests(c)
    PROVE  /\ r \in QReq /\ (r.kind = "get" => r.n = gets + 1)
           /\ r.kind = "data" => r.id # 0
<1>1. CASE r \in [kind : {"get"}, type : Q!Services, id : {0}, n : {gets + 1}]
  <2>1. gets \in Nat
    BY Zenon DEF QrtrTypes
  <2> QED
    BY <1>1, <2>1, ServicesAre DEF QReq
<1>2. ASSUME NEW k \in {"release", "data"}, NEW e \in clients, e.id # 0,
             r = [kind |-> k, type |-> e.type, id |-> e.id, n |-> e.n]
      PROVE  /\ r \in QReq /\ (r.kind = "get" => r.n = gets + 1)
             /\ r.kind = "data" => r.id # 0
  <2>1. e \in Entry
    BY Zenon DEF QrtrTypes
  <2> QED
    BY <1>2, <2>1, Zenon DEF QReq, Entry
<1>3. CASE r = [Q!None EXCEPT !.kind = "other"]
  BY <1>3, Zenon DEF Q!None, QReq
<1>4. \/ r \in [kind : {"get"}, type : Q!Services, id : {0}, n : {gets + 1}]
      \/ \E k \in {"release", "data"}, e \in clients :
            e.id # 0 /\ r = [kind |-> k, type |-> e.type, id |-> e.id, n |-> e.n]
      \/ r = [Q!None EXCEPT !.kind = "other"]
  BY DEF Q!Requests, Q!Entries, Q!Working
<1> QED
  BY <1>1, <1>2, <1>3, <1>4, Zenon

LEMMA SendKept ==
    ASSUME QrtrTypes, QrtrNumbers, Q!Delivered, NEW c \in Clients, Q!Send(c)
    PROVE  QrtrTypes' /\ QrtrNumbers' /\ Q!Delivered'
<1>1. /\ where' = where /\ qrtr_server_list' = qrtr_server_list /\ latModem' = latModem
      /\ lgot' = lgot /\ clients' = clients /\ fromDev' = fromDev
  BY Zenon DEF Q!Send, Q!tables
<1>2. PICK r \in Q!Requests(c) : /\ lc2p' = [lc2p EXCEPT ![c] = r]
                                 /\ gets' = IF r.kind = "get" THEN gets + 1 ELSE gets
  BY Zenon DEF Q!Send
<1>3. /\ r \in QReq /\ (r.kind = "get" => r.n = gets + 1)
      /\ r.kind = "data" => r.id # 0
  BY RequestIs, Zenon
<1>4. gets \in Nat /\ lc2p \in [Clients -> QReq]
  BY Zenon DEF QrtrTypes
<1>5. gets' \in Nat /\ \A n \in Nat : n <= gets => n <= gets' /\ n # gets + 1
  BY <1>2, <1>4
<1>6. lc2p' \in [Clients -> QReq]
  BY <1>2, <1>3, <1>4, Zenon
<1>7. QrtrTypes'
  BY <1>1, <1>5, <1>6, Zenon DEF QrtrTypes
<1>8. Owed' = Owed
  BY <1>1, Zenon DEF Owed
<1>9. ASSUME NEW d \in Clients, NEW n \in Nat, Asks(d, n)'
      PROVE  \/ Asks(d, n)
             \/ d = c /\ n = gets + 1 /\ gets' = gets + 1
  <2>1. CASE d = c
    <3>1. r.kind = "get" /\ r.n = n
      BY <1>2, <1>4, <1>9, <2>1, Zenon DEF Asks
    <3> QED
      BY <1>2, <1>3, <2>1, <3>1, Zenon
  <2>2. CASE d # c
    BY <1>2, <1>4, <1>9, <2>2, Zenon DEF Asks
  <2> QED
    BY <2>1, <2>2, Zenon
<1>10. /\ \A e \in clients : e.n \in Nat
       /\ \A o \in Owed : o.n \in Nat
  BY OwedTyped, Zenon
<1>11. /\ \A e \in clients : e.n <= gets' /\ e.n # gets + 1
       /\ \A o \in Owed : o.n <= gets' /\ o.n # gets + 1
  BY <1>5, <1>10, Zenon DEF QrtrNumbers
<1>12. ASSUME NEW d \in Clients, NEW n \in Nat, Asks(d, n)'
       PROVE  n <= gets'
  <2>1. gets + 1 <= gets + 1
    BY <1>4
  <2> QED
    BY <1>5, <1>9, <1>12, <2>1, Zenon DEF QrtrNumbers
<1>13. ASSUME NEW d \in Clients, NEW n \in Nat, Asks(d, n)'
       PROVE  /\ \A e \in clients : e.n # n
              /\ \A o \in Owed : o.n # n
  BY <1>9, <1>11, <1>13, Zenon DEF QrtrNumbers
<1>14. ASSUME NEW d \in Clients, NEW x \in Clients, NEW n \in Nat, Asks(d, n)', Asks(x, n)'
       PROVE  d = x
  <2>1. ASSUME NEW y \in Clients, Asks(y, n)
        PROVE  n # gets + 1
    BY <1>5, <2>1, Zenon DEF QrtrNumbers
  <2> QED
    BY <1>9, <1>14, <2>1, Zenon DEF QrtrNumbers
<1>15. ASSUME NEW d \in Clients, lc2p'[d].kind = "data"
       PROVE  lc2p'[d].id # 0
  BY <1>2, <1>3, <1>4, <1>15, Zenon DEF QrtrNumbers
<1>16. QrtrNumbers'
  BY <1>1, <1>8, <1>11, <1>12, <1>13, <1>14, <1>15, Zenon DEF QrtrNumbers
<1> QED
  BY <1>1, <1>7, <1>16, Zenon DEF Q!Delivered

(* A request is read.                                                      *)
LEMMA AllocIs == ASSUME Safe PROVE Q!Alloc(client_bitmap) \in Nat /\ Q!Alloc(port_bitmap) \in Nat
<1>1. Q!IdPlaces \subseteq Nat /\ Q!PortPlaces \subseteq Nat
  BY Sizes DEF Q!IdPlaces, Q!PortPlaces
<1>2. Q!FreeIn(client_bitmap) \in SUBSET Nat /\ Q!FreeIn(port_bitmap) \in SUBSET Nat
  BY <1>1, Zenon DEF Safe, Good, Tables, Q!FreeIn
<1>3. 0 \in Nat
  BY Zenon
<1> QED
  BY <1>2, <1>3, FirstIsLeast, Zenon DEF Q!Alloc, Q!First

LEMMA AllocKept ==
    ASSUME QrtrTypes, QrtrNumbers, Safe, NEW c \in Clients,
           lc2p[c].kind = "get", Q!Known(lc2p[c].type) # {},
           lc2p' = [lc2p EXCEPT ![c] = Q!None], Q!alloc_qrtr_client_id(c, lc2p[c]),
           latModem' = latModem, fromDev' = fromDev, where' = where, gets' = gets,
           qrtr_server_list' = qrtr_server_list
    PROVE  QrtrTypes' /\ QrtrNumbers'
<1> DEFINE r == lc2p[c]
<1>1. PICK x : /\ x = [fd |-> c, n |-> r.n, type |-> r.type, id |-> Q!Alloc(client_bitmap),
                       port |-> Q!Alloc(port_bitmap)]
               /\ clients' = clients \cup {x}
  BY Zenon DEF Q!alloc_qrtr_client_id
<1>2. lc2p \in [Clients -> QReq] /\ r \in QReq
  BY Zenon DEF QrtrTypes
<1> HIDE DEF r
<1>3. r.type = 1
  <2>1. PICK i \in 1..Len(qrtr_server_list) : qrtr_server_list[i].service = r.type
    BY Zenon DEF Q!Known, r
  <2>2. qrtr_server_list \in Seq(Numbered)
    BY Zenon DEF QrtrTypes
  <2>3. qrtr_server_list[i] \in Numbered
    BY <2>2
  <2> QED
    BY <2>1, <2>3, Zenon DEF Numbered
<1>4. x \in Entry /\ x.n = r.n /\ r.n \in Nat
  BY <1>1, <1>2, <1>3, AllocIs DEF Entry, QReq
<1>5. lc2p' \in [Clients -> QReq]
  BY <1>2, NoneIs, Zenon
<1>6. QrtrTypes'
  BY <1>1, <1>4, <1>5, Zenon DEF QrtrTypes
<1>7. Owed' = Owed
  BY Zenon DEF Owed
<1>8. Asks(c, r.n)
  BY Zenon DEF Asks, r
<1>9. ASSUME NEW d \in Clients, NEW n \in Nat, Asks(d, n)'
      PROVE  Asks(d, n) /\ n # r.n
  <2>1. d # c
    <3>1. lc2p'[c].kind # "get"
      BY <1>2, NoneIs, Zenon
    <3> QED
      BY <1>9, <3>1, Zenon DEF Asks
  <2>2. Asks(d, n)
    BY <1>2, <1>9, <2>1, Zenon DEF Asks
  <2> QED
    BY <1>4, <1>8, <2>1, <2>2, Zenon DEF QrtrNumbers
<1>10. /\ r.n <= gets /\ \A e \in clients : e.n # r.n
       /\ \A o \in Owed : o.n # r.n
  BY <1>4, <1>8, Zenon DEF QrtrNumbers
<1>11. ASSUME NEW d \in Clients, lc2p'[d].kind = "data"
       PROVE  lc2p'[d].id # 0
  <2>1. lc2p'[c].kind # "data"
    BY <1>2, NoneIs, Zenon
  <2> QED
    BY <1>2, <1>11, <2>1, Zenon DEF QrtrNumbers
<1>12. /\ \A e \in clients' : e.n <= gets'
       /\ \A e, f \in clients' : e.n = f.n => e = f
  BY <1>1, <1>4, <1>10, ZenonT(30) DEF QrtrNumbers
<1>13. \A o \in Owed', f \in clients' : f.n = o.n => f.port = o.port /\ f.id # 0
  BY <1>1, <1>4, <1>7, <1>10, ZenonT(30) DEF QrtrNumbers
<1>14. ASSUME NEW d \in Clients, NEW n \in Nat, Asks(d, n)'
       PROVE  \A e \in clients' : e.n # n
  BY <1>1, <1>4, <1>9, <1>14, Zenon DEF QrtrNumbers
<1>15. QrtrNumbers'
  BY <1>7, <1>9, <1>11, <1>12, <1>13, <1>14, Zenon DEF QrtrNumbers
<1> QED
  BY <1>6, <1>15, Zenon

LEMMA ForwardKept ==
    ASSUME QrtrTypes, QrtrNumbers, NEW c \in Clients, lc2p[c].kind = "data",
           lc2p' = [lc2p EXCEPT ![c] = Q!None], clients' = clients,
           latModem' = latModem \cup Q!Forwarded(c, lc2p[c]),
           fromDev' = fromDev, where' = where, gets' = gets,
           qrtr_server_list' = qrtr_server_list
    PROVE  QrtrTypes' /\ QrtrNumbers'
<1> DEFINE r == lc2p[c]
<1>1. lc2p \in [Clients -> QReq] /\ r.id # 0
  BY Zenon DEF QrtrTypes, QrtrNumbers
<1>2. latModem' = latModem \cup Q!Forwarded(c, r)
  OBVIOUS
<1> HIDE DEF r
<1>3. ASSUME NEW q \in Q!Forwarded(c, r)
      PROVE  /\ q \in [port : Nat, type : {1}, to : Nat, n : Nat]
             /\ \E e \in clients : e.id # 0 /\ q.n = e.n /\ q.port = e.port
  <2>1. PICK e \in clients :
           /\ e.type = r.type /\ e.id = r.id /\ Q!Known(r.type) # {}
           /\ q = [port |-> e.port, type |-> r.type,
                   to |-> Q!find_qrtr_service(r.type).port, n |-> e.n]
    BY Zenon DEF Q!Forwarded, Q!Entries
  <2>2. e \in Entry
    BY Zenon DEF QrtrTypes
  <2>3. Q!find_qrtr_service(r.type).port \in Nat
    <3>1. qrtr_server_list \in Seq(Numbered)
      BY Zenon DEF QrtrTypes
    <3>2. 1..Len(qrtr_server_list) \subseteq Nat
      BY <3>1
    <3>3. Q!Known(r.type) \in SUBSET Nat
      BY <3>2, Zenon DEF Q!Known
    <3>4. Q!First(Q!Known(r.type)) \in 1..Len(qrtr_server_list)
      BY <2>1, <3>3, FirstIsLeast, Zenon DEF Q!Known
    <3>5. Q!find_qrtr_service(r.type) \in Numbered
      BY <3>1, <3>4, SMTT(30) DEF Q!find_qrtr_service
    <3> QED
      BY <3>5 DEF Numbered
  <2>4. PICK t : t = Q!find_qrtr_service(r.type).port
    BY Zenon
  <2>5. /\ q \in [port : Nat, type : {1}, to : Nat, n : Nat]
        /\ q.n = e.n /\ q.port = e.port
    BY <2>1, <2>2, <2>3, <2>4 DEF Entry
  <2> QED
    BY <1>1, <2>1, <2>5, Zenon
<1>4. lc2p' \in [Clients -> QReq] /\ \A d \in Clients : lc2p'[d] \in {lc2p[d], Q!None}
  BY <1>1, NoneIs, Zenon
<1>5. latModem' \subseteq [port : Nat, type : {1}, to : Nat, n : Nat]
  BY <1>2, <1>3, Zenon DEF QrtrTypes
<1>6. QrtrTypes'
  BY <1>4, <1>5, Zenon DEF QrtrTypes
<1>7. ASSUME NEW o \in Owed'
      PROVE  \/ o \in Owed
             \/ \E e \in clients : e.id # 0 /\ o = [n |-> e.n, port |-> e.port]
  <2>1. CASE \E q \in latModem' : o = [n |-> q.n, port |-> q.port]
    <3>1. PICK q \in latModem' : o = [n |-> q.n, port |-> q.port]
      BY <2>1, Zenon
    <3>2. CASE q \in latModem
      BY <3>1, <3>2, Zenon DEF Owed
    <3>3. CASE q \in Q!Forwarded(c, r)
      BY <1>3, <3>1, <3>3, Zenon
    <3> QED
      BY <1>2, <3>2, <3>3, Zenon
  <2> QED
    BY <2>1, Zenon DEF Owed
<1>8. ASSUME NEW o \in Owed', NEW f \in clients, f.n = o.n
      PROVE  f.port = o.port /\ f.id # 0
  <2>1. CASE o \in Owed
    BY <1>8, <2>1, Zenon DEF QrtrNumbers
  <2>2. ASSUME NEW e \in clients, e.id # 0, o = [n |-> e.n, port |-> e.port]
        PROVE  f.port = o.port /\ f.id # 0
    <3>1. o.n = e.n /\ o.port = e.port
      BY <2>2, Zenon
    <3>2. f = e
      BY <1>8, <3>1, Zenon DEF QrtrNumbers
    <3> QED
      BY <2>2, <3>1, <3>2, Zenon
  <2> QED
    BY <1>7, <2>1, <2>2, Zenon
<1>9. ASSUME NEW o \in Owed'
      PROVE  o \in Owed \/ \E e \in clients : o.n = e.n
  <2>1. ASSUME NEW e \in clients, o = [n |-> e.n, port |-> e.port] PROVE o.n = e.n
    BY <2>1
  <2> QED
    BY <1>7, <2>1, Zenon
<1>10. ASSUME NEW d \in Clients, NEW n \in Nat, Asks(d, n)'
       PROVE  Asks(d, n)
  <2>1. Q!None.kind # "get"
    BY NoneIs
  <2> QED
    BY <1>4, <1>10, <2>1, Zenon DEF Asks
<1>11. ASSUME NEW d \in Clients, lc2p'[d].kind = "data"
       PROVE  lc2p'[d].id # 0
  <2>1. Q!None.kind # "data"
    BY NoneIs
  <2> QED
    BY <1>4, <1>11, <2>1, Zenon DEF QrtrNumbers
<1>12. /\ \A o \in Owed' : o.n <= gets'
       /\ \A d \in Clients, n \in Nat : Asks(d, n)' => \A o \in Owed' : o.n # n
  BY <1>9, <1>10, ZenonT(30) DEF QrtrNumbers
<1>13. QrtrNumbers'
  BY <1>8, <1>10, <1>11, <1>12, Zenon DEF QrtrNumbers
<1> QED
  BY <1>6, <1>13, Zenon

LEMMA RequestKept ==
    ASSUME QrtrTypes, QrtrNumbers, Safe, Q!Delivered, NEW c \in Clients,
           Q!recv_qmi_from_client(c), ~ Q!Killed
    PROVE  QrtrTypes' /\ QrtrNumbers' /\ Q!Delivered'
<1> DEFINE r == lc2p[c]
<1>1. /\ lc2p' = [lc2p EXCEPT ![c] = Q!None] /\ fromDev' = fromDev /\ where' = where
      /\ gets' = gets /\ qrtr_server_list' = qrtr_server_list /\ lgot' = lgot
      /\ Q!Control(c, r)
      /\ latModem' = IF r.kind = "data" THEN latModem \cup Q!Forwarded(c, r) ELSE latModem
  BY Zenon DEF Q!recv_qmi_from_client, Q!budgets
<1>2. CASE r.kind = "get" /\ Q!Known(r.type) # {}
  <2>1. Q!alloc_qrtr_client_id(c, r) /\ latModem' = latModem
    BY <1>1, <1>2, Zenon DEF Q!Control
  <2> QED
    BY <1>1, <1>2, <2>1, AllocKept, Zenon DEF Q!Delivered
<1>3. CASE r.kind = "data"
  <2>1. clients' = clients
    BY <1>1, <1>3, Zenon DEF Q!Control, Q!tables
  <2> QED
    BY <1>1, <1>3, <2>1, ForwardKept, Zenon DEF Q!Delivered
<1>4. CASE r.kind # "data" /\ ~ (r.kind = "get" /\ Q!Known(r.type) # {})
  <2>1. clients' \subseteq clients
    BY <1>1, <1>4, Zenon DEF Q!Control, Q!tables, Q!release_qrtr_client_id
  <2>2. lc2p' \in [Clients -> QReq] /\ \A d \in Clients : lc2p'[d] \in {lc2p[d], Q!None}
    BY <1>1, NoneIs, Zenon DEF QrtrTypes
  <2>3. latModem' = latModem
    BY <1>1, <1>4, Zenon
  <2>4. Owed' \subseteq Owed
    BY <1>1, <2>3, OwedSame, Zenon
  <2>5. QrtrTypes'
    BY <1>1, <2>1, <2>2, <2>3, Zenon DEF QrtrTypes
  <2>6. QrtrNumbers'
    BY <1>1, <2>1, <2>2, <2>4, NumbersStay, Zenon
  <2> QED
    BY <1>1, <2>5, <2>6, Zenon DEF Q!Delivered
<1> QED
  BY <1>2, <1>3, <1>4, Zenon

LEMMA DeliveredKept ==
    ASSUME QrtrTypes, QrtrNumbers, Safe, Q!Delivered, Q!Next \/ QrtrKept
    PROVE  QrtrTypes' /\ QrtrNumbers' /\ Q!Delivered'
<1>1. CASE \/ QrtrKept \/ Q!Offered \/ Q!Joined \/ Q!DeviceLost \/ Q!InitFails \/ Q!Killed
  BY <1>1, QrtrCalmKept, Zenon
<1>2. ASSUME NEW c \in Clients, \/ Q!Connect(c) \/ Q!Leaves(c) \/ Q!accept_qrtr_connection(c)
                                \/ Q!cleanup_qrtr_connection(c)
      PROVE  QrtrTypes' /\ QrtrNumbers' /\ Q!Delivered'
  BY <1>2, QrtrCalmKept, Zenon
<1>3. ASSUME NEW c \in Clients, Q!recv_qmi_from_client(c)
      PROVE  QrtrTypes' /\ QrtrNumbers' /\ Q!Delivered'
  BY <1>1, <1>3, RequestKept, Zenon
<1>4. CASE Q!recv_qrtr_from_dev
  BY <1>1, <1>4, ReceivedKept, Zenon
<1>5. ASSUME NEW s \in {1}, Q!ServiceMoves(s)
      PROVE  QrtrTypes' /\ QrtrNumbers' /\ Q!Delivered'
  BY <1>5, ServiceMovesKept, Zenon
<1> QED
  BY <1>1, <1>2, <1>3, <1>4, <1>5, ServicesAre, SendKept, AnswersKept, OpenDeviceKept, Zenon
     DEF Q!Next, Q!Thread, Q!Main

----------------------------------------------------------------------------
(* quectel-atc-proxy: a client takes the answer to its own command, or has *)
(* its command still unread.                                               *)

Links == {"none", "backlog", "open", "gone"}
AtcTypes ==
    /\ link \in [Clients -> Links]
    /\ lc2p \in [Clients -> Nat] /\ pend \in [Clients -> Nat]
    /\ latModem \in Seq([n : Nat, fd : Clients])
    /\ cons \in Seq(Clients)
    /\ commands \in Nat /\ ltimeouts \in Nat
    /\ current_client_fd \in Clients \cup {NoClient}

(* A client that waits is connected, and a client that is connected is in  *)
(* the list; while there is no port there is no loop.                      *)
AtcListed ==
    /\ \A c \in Clients : /\ pend[c] # 0 => link[c] = "open"
                          /\ link[c] = "open" => c \in A!Accepted
    /\ lphase = "closed" => loop = "none"

(* Outside a command the modem owes no answer, within one it owes just one.*)
Owes == IF loop = "cmd" THEN Len(latModem) = 1 ELSE latModem = <<>>

(* Whoever waits has its command unread, or it is the one at the modem.    *)
Waits(c) == \/ lc2p[c] = pend[c]
            \/ loop = "cmd" /\ Head(latModem) = [n |-> pend[c], fd |-> c]

InTurn == ltimeouts = 0 /\ ~ strayed
AtcTurns == InTurn => /\ Owes
                      /\ \A c \in Clients : pend[c] # 0 => Waits(c)
                      /\ \A g \in lgot : g.for = g.to \/ g.unread

AtcInv == AtcTypes /\ AtcListed /\ AtcTurns

AtcKept == UNCHANGED <<localVars, atcVars>>

LEMMA AtcBegins == A!Init => AtcInv
<1> SUFFICES ASSUME A!Init PROVE AtcInv
  BY Zenon
<1>1. AtcTypes
  BY DEF A!Init, AtcTypes, Links
<1>2. AtcListed
  BY Zenon DEF A!Init, AtcListed
<1>3. AtcTurns
  BY Zenon DEF A!Init, AtcTurns, Owes
<1> QED
  BY <1>1, <1>2, <1>3, Zenon DEF AtcInv

(* The types.                                                              *)
LEMMA ClosedTypes ==
    ASSUME AtcTypes, NEW S, A!Closed(S)
    PROVE  /\ link' \in [Clients -> Links]
           /\ lc2p' \in [Clients -> Nat] /\ pend' \in [Clients -> Nat]
           /\ \A c \in Clients : /\ link'[c] = IF c \in S THEN "none" ELSE link[c]
                                 /\ pend'[c] = IF c \in S THEN 0 ELSE pend[c]
                                 /\ lc2p'[c] = IF c \in S THEN 0 ELSE lc2p[c]
BY Zenon DEF AtcTypes, A!Closed, Links

LEMMA KilledTypes == ASSUME AtcTypes, A!Killed PROVE AtcTypes'
<1>1. A!Closed(Clients)
  BY Zenon DEF A!Killed
<1>2. /\ latModem' = <<>> /\ cons' = <<>> /\ commands' = commands /\ ltimeouts' = ltimeouts
      /\ current_client_fd' = NoClient
  BY Zenon DEF A!Killed, A!budgets
<1> QED
  BY <1>1, <1>2, ClosedTypes DEF AtcTypes

LEMMA Removed ==
    ASSUME cons \in Seq(Clients), NEW c \in Clients, A!Polled(c)
    PROVE  /\ A!Without(c) \in Seq(Clients)
           /\ \A x \in A!Accepted : x # c =>
                 \E i \in 1..Len(A!Without(c)) : A!Without(c)[i] = x
<1> DEFINE at == CHOOSE i \in 1..Len(cons) : cons[i] = c
           w == [i \in 1..(Len(cons) - 1) |-> IF i < at THEN cons[i] ELSE cons[i + 1]]
<1>1. A!Without(c) = w
  BY Zenon DEF A!Without
<1>2. at \in 1..Len(cons) /\ cons[at] = c
  BY Zenon DEF A!Polled
<1> HIDE DEF at
<1>3. Len(cons) \in Nat /\ \A i \in 1..Len(cons) : cons[i] \in Clients
  OBVIOUS
<1>4. Len(cons) - 1 \in Nat
  BY <1>2, <1>3
<1>5. w \in [1..(Len(cons) - 1) -> Clients]
  BY <1>2, <1>3
<1>6. w \in Seq(Clients) /\ Len(w) = Len(cons) - 1
  BY <1>4, <1>5
<1>7. ASSUME NEW x \in A!Accepted, x # c
      PROVE  \E i \in 1..(Len(cons) - 1) : w[i] = x
  <2>1. PICK j \in 1..Len(cons) : cons[j] = x
    BY Zenon DEF A!Accepted
  <2>2. j # at
    BY <1>2, <1>7, <2>1, Zenon
  <2>3. CASE j < at
    <3>1. j \in 1..(Len(cons) - 1) /\ w[j] = x
      BY <1>2, <1>3, <2>1, <2>3
    <3> QED
      BY <3>1, Zenon
  <2>4. CASE j > at
    <3>1. j - 1 \in 1..(Len(cons) - 1) /\ w[j - 1] = x
      BY <1>2, <1>3, <2>1, <2>4
    <3> QED
      BY <3>1, Zenon
  <2> QED
    BY <1>2, <2>2, <2>3, <2>4
<1> HIDE DEF w
<1> QED
  BY <1>1, <1>6, <1>7, Zenon

LEMMA AcceptedClients == ASSUME AtcTypes PROVE A!Accepted \subseteq Clients
<1>1. cons \in Seq(Clients)
  BY Zenon DEF AtcTypes
<1>2. \A i \in 1..Len(cons) : cons[i] \in Clients
  BY <1>1
<1> QED
  BY <1>2, Zenon DEF A!Accepted

LEMMA AtcTypesKept == ASSUME AtcTypes, A!Next \/ AtcKept PROVE AtcTypes'
<1>1. ASSUME NEW c \in Clients, A!Connect(c) \/ A!Send(c) \/ A!Leaves(c)
      PROVE  AtcTypes'
  <2>1. /\ latModem' = latModem /\ cons' = cons /\ ltimeouts' = ltimeouts
        /\ current_client_fd' = current_client_fd
        /\ commands' \in {commands, commands + 1}
    BY <1>1, Zenon DEF A!Connect, A!Send, A!Leaves, A!budgets
  <2>2. link' \in [Clients -> Links]
    <3>1. link' \in {link, [link EXCEPT ![c] = "backlog"], [link EXCEPT ![c] = "gone"]}
      BY <1>1, Zenon DEF A!Connect, A!Send, A!Leaves
    <3> QED
      BY <3>1, Zenon DEF AtcTypes, Links
  <2>3. lc2p' \in [Clients -> Nat] /\ pend' \in [Clients -> Nat]
    <3>1. /\ lc2p' \in {lc2p, [lc2p EXCEPT ![c] = commands + 1]}
          /\ pend' \in {pend, [pend EXCEPT ![c] = commands + 1], [pend EXCEPT ![c] = 0]}
      BY <1>1, Zenon DEF A!Connect, A!Send, A!Leaves
    <3>2. commands + 1 \in Nat /\ 0 \in Nat
      BY DEF AtcTypes
    <3> QED
      BY <3>1, <3>2, Zenon DEF AtcTypes
  <2> QED
    BY <2>1, <2>2, <2>3 DEF AtcTypes
<1>2. ASSUME NEW c \in Clients, A!accept_atc_connection(c)
      PROVE  AtcTypes'
  BY <1>2 DEF A!accept_atc_connection, A!budgets, AtcTypes, Links
<1>3. ASSUME NEW c \in Clients, A!cleanup_atc_connection(c)
      PROVE  AtcTypes'
  <2>1. A!Closed({c}) /\ A!Polled(c) /\ cons' = A!Without(c)
    BY <1>3, Zenon DEF A!cleanup_atc_connection
  <2>2. /\ latModem' = latModem /\ commands' = commands /\ ltimeouts' = ltimeouts
        /\ current_client_fd' = current_client_fd
    BY <1>3, Zenon DEF A!cleanup_atc_connection, A!budgets
  <2> QED
    BY <2>1, <2>2, Removed, ClosedTypes, Zenon DEF AtcTypes
<1>4. ASSUME NEW c \in Clients, A!TakeCommand(c)
      PROVE  AtcTypes'
  <2>1. /\ lc2p' = [lc2p EXCEPT ![c] = 0] /\ latModem' = Append(latModem, [n |-> lc2p[c], fd |-> c])
        /\ cons' = cons /\ link' = link /\ pend' = pend /\ commands' = commands
        /\ ltimeouts' = ltimeouts /\ current_client_fd' \in A!Accepted \cup {NoClient}
    BY <1>4, Zenon DEF A!TakeCommand, A!budgets, A!Current
  <2>2. current_client_fd' \in Clients \cup {NoClient}
    BY <2>1, AcceptedClients, Zenon
  <2> QED
    BY <2>1, <2>2 DEF AtcTypes
<1>5. CASE A!processLine
  <2>1. CASE A!Killed
    BY <2>1, KilledTypes, Zenon
  <2>2. CASE ~ A!Killed
    <3>1. /\ latModem # <<>> /\ latModem' = Tail(latModem)
          /\ cons' = cons /\ link' = link /\ lc2p' = lc2p
          /\ commands' = commands /\ ltimeouts' = ltimeouts /\ current_client_fd' = NoClient
      BY <1>5, <2>2, Zenon DEF A!processLine, A!budgets
    <3>2. pend' = [c \in Clients |-> IF c \in A!onUnsolicited THEN 0 ELSE pend[c]]
      BY <1>5, <2>2, ZenonT(30) DEF A!processLine
    <3> QED
      BY <3>1, <3>2 DEF AtcTypes
  <2> QED
    BY <2>1, <2>2, Zenon
<1>6. CASE A!TimesOut
  BY <1>6 DEF A!TimesOut, A!clientVars, AtcTypes
<1>7. CASE A!DeviceLost
  <2>1. PICK S : A!Closed(S)
    BY <1>7, Zenon DEF A!DeviceLost
  <2>2. /\ latModem' = <<>> /\ cons' = <<>> /\ commands' = commands /\ ltimeouts' = ltimeouts
        /\ current_client_fd' = NoClient
    BY <1>7, Zenon DEF A!DeviceLost
  <2> QED
    BY <2>1, <2>2, ClosedTypes DEF AtcTypes
<1>8. CASE A!OpenFails
  BY <1>8, KilledTypes, Zenon DEF A!OpenFails
<1>9. CASE A!Joined
  <2>1. /\ A!Closed(Clients) /\ latModem' = latModem /\ cons' = cons
        /\ commands' = commands /\ ltimeouts' = ltimeouts
        /\ current_client_fd' = current_client_fd
    BY <1>9, Zenon DEF A!Joined, A!budgets
  <2> QED
    BY <2>1, ClosedTypes, Zenon DEF AtcTypes
<1>10. CASE A!OpenDevice \/ A!Offered \/ A!atc_proxy_init \/ AtcKept
  <2>1. /\ link' = link /\ lc2p' = lc2p /\ pend' = pend /\ latModem' = latModem
        /\ cons' = cons /\ commands' = commands /\ ltimeouts' = ltimeouts
        /\ current_client_fd' = current_client_fd
    BY <1>10, Zenon DEF A!OpenDevice, A!Offered, A!atc_proxy_init, A!clientVars, A!budgets,
          AtcKept, localVars, atcVars
  <2> QED
    BY <2>1, Zenon DEF AtcTypes
<1> QED
  BY <1>1, <1>2, <1>3, <1>4, <1>5, <1>6, <1>7, <1>8, <1>9, <1>10, Zenon
     DEF A!Next, A!Thread, A!Main

(* The list of connections.                                                *)
LEMMA AtcListedKept ==
    ASSUME AtcTypes, AtcListed, A!Next \/ AtcKept PROVE AtcListed'
<1> USE DEF AtcListed
<1>1. ASSUME NEW c \in Clients, A!Connect(c) \/ A!Send(c) \/ A!Leaves(c)
      PROVE  AtcListed'
  <2>1. lphase' = lphase /\ loop' = loop /\ cons' = cons
    BY <1>1, Zenon DEF A!Connect, A!Send, A!Leaves
  <2>2. A!Accepted' = A!Accepted
    BY <2>1, Zenon DEF A!Accepted
  <2>3. ASSUME NEW x \in Clients
        PROVE  /\ pend'[x] # 0 => link'[x] = "open"
               /\ link'[x] = "open" => x \in A!Accepted
    <3>1. \/ pend' = pend /\ link' = [link EXCEPT ![c] = "backlog"] /\ link[c] = "none"
          \/ pend' = [pend EXCEPT ![c] = commands + 1] /\ link' = link /\ link[c] = "open"
          \/ pend' = [pend EXCEPT ![c] = 0] /\ link' = [link EXCEPT ![c] = "gone"]
      BY <1>1, Zenon DEF A!Connect, A!Send, A!Leaves
    <3> QED
      BY <3>1 DEF AtcTypes
  <2> QED
    BY <2>1, <2>2, <2>3, Zenon
<1>2. ASSUME NEW c \in Clients, A!accept_atc_connection(c)
      PROVE  AtcListed'
  <2>1. /\ lphase' = lphase /\ loop' = loop /\ cons' = Append(cons, c) /\ pend' = pend
        /\ link' = [link EXCEPT ![c] = "open"]
    BY <1>2, Zenon DEF A!accept_atc_connection
  <2>2. A!Accepted \cup {c} \subseteq A!Accepted'
    <3>1. cons \in Seq(Clients)
      BY ZenonT(30) DEF AtcTypes
    <3>2. /\ Len(cons) \in Nat /\ Len(cons') = Len(cons) + 1 /\ cons'[Len(cons) + 1] = c
          /\ \A i \in 1..Len(cons) : cons'[i] = cons[i]
      BY <2>1, <3>1
    <3>3. Len(cons) + 1 \in 1..Len(cons') /\ \A i \in 1..Len(cons) : i \in 1..Len(cons')
      BY <3>2
    <3> QED
      BY <3>2, <3>3, Zenon DEF A!Accepted
  <2> QED
    BY <2>1, <2>2, Zenon DEF AtcTypes
<1>3. ASSUME NEW c \in Clients, A!cleanup_atc_connection(c)
      PROVE  AtcListed'
  <2>1. /\ A!Closed({c}) /\ A!Polled(c) /\ cons' = A!Without(c)
        /\ lphase' = lphase /\ loop' = loop
    BY <1>3, Zenon DEF A!cleanup_atc_connection
  <2>2. \A x \in A!Accepted : x # c => x \in A!Accepted'
    BY <2>1, Removed, Zenon DEF A!Accepted, AtcTypes
  <2> QED
    BY <2>1, <2>2, ClosedTypes, Zenon
<1>4. CASE A!Killed
  BY <1>4, ClosedTypes, Zenon DEF A!Killed
<1>5. CASE A!processLine
  <2>1. CASE ~ A!Killed
    <3>1. cons' = cons /\ link' = link /\ lphase' = lphase /\ loop # "none"
      BY <1>5, <2>1, Zenon DEF A!processLine
    <3>2. pend' = [c \in Clients |-> IF c \in A!onUnsolicited THEN 0 ELSE pend[c]]
      BY <1>5, <2>1, Zenon DEF A!processLine
    <3> QED
      BY <3>1, <3>2, Zenon DEF A!Accepted
  <2> QED
    BY <1>4, <2>1, Zenon
<1>6. CASE A!DeviceLost
  <2> DEFINE S == {c \in Clients : link[c] # "backlog"}
  <2>1. A!Closed(S) /\ loop' = "none"
    BY <1>6, Zenon DEF A!DeviceLost
  <2>2. \A c \in Clients : link[c] = "open" => c \in S
    BY Zenon
  <2>3. \A c \in Clients : link'[c] # "open" /\ pend'[c] = 0
    BY <2>1, <2>2, ClosedTypes, Zenon
  <2> QED
    BY <2>1, <2>3, Zenon
<1>7. CASE A!Joined
  BY <1>7, ClosedTypes, Zenon DEF A!Joined
<1>8. CASE A!TimesOut \/ A!OpenDevice \/ A!Offered \/ A!atc_proxy_init \/ AtcKept
             \/ \E c \in Clients : A!TakeCommand(c)
  <2>1. /\ link' = link /\ pend' = pend /\ cons' = cons
        /\ lphase' = "closed" => lphase = "closed" /\ loop' \in {loop, "poll", "cmd"}
    BY <1>8, Zenon DEF A!TimesOut, A!OpenDevice, A!Offered, A!atc_proxy_init, A!TakeCommand,
          AtcKept, localVars, atcVars, A!clientVars
  <2>2. lphase' = "closed" => loop' = "none"
    BY <1>8, Zenon DEF A!TimesOut, A!OpenDevice, A!Offered, A!atc_proxy_init, A!TakeCommand,
          AtcKept, localVars, atcVars, A!clientVars
  <2> QED
    BY <2>1, <2>2, Zenon DEF A!Accepted
<1> QED
  BY <1>1, <1>2, <1>3, <1>4, <1>5, <1>6, <1>7, <1>8, Zenon
     DEF A!Next, A!Thread, A!Main, A!OpenFails

(* The turns.  Steps that leave the modem and the thread alone.            *)
LEMMA TurnsStay ==
    ASSUME AtcTypes, AtcListed, AtcTurns,
           latModem' = latModem, loop' = loop, lgot' = lgot, InTurn' => InTurn,
           \A c \in Clients : pend'[c] # 0 => lc2p'[c] = pend'[c]
                                \/ (pend'[c] = pend[c] /\ lc2p'[c] = lc2p[c])
    PROVE  AtcTurns'
<1> SUFFICES ASSUME InTurn'
             PROVE  /\ Owes'
                    /\ \A c \in Clients : pend'[c] # 0 => Waits(c)'
                    /\ \A g \in lgot' : g.for = g.to \/ g.unread
  BY Zenon DEF AtcTurns
<1>1. Owes'
  BY Zenon DEF AtcTurns, Owes
<1>2. ASSUME NEW c \in Clients, pend'[c] # 0
      PROVE  Waits(c)'
  BY <1>2, Zenon DEF AtcTurns, Waits
<1> QED
  BY <1>1, <1>2, Zenon DEF AtcTurns

(* Nobody waits, and the modem owes nothing.                               *)
LEMMA TurnsOver ==
    ASSUME AtcTurns, InTurn' => InTurn, lgot' = lgot, loop' # "cmd", latModem' = <<>>,
           \A c \in Clients : pend'[c] = 0
    PROVE  AtcTurns'
BY Zenon DEF AtcTurns, Owes

LEMMA TurnsTaken ==
    ASSUME AtcTypes, AtcTurns, NEW c \in Clients, A!TakeCommand(c)
    PROVE  AtcTurns'
<1> SUFFICES ASSUME InTurn'
             PROVE  /\ Owes'
                    /\ \A x \in Clients : pend'[x] # 0 => Waits(x)'
                    /\ \A g \in lgot' : g.for = g.to \/ g.unread
  BY Zenon DEF AtcTurns
<1> DEFINE m == [n |-> lc2p[c], fd |-> c]
<1>1. /\ loop = "poll" /\ loop' = "cmd" /\ latModem' = Append(latModem, m)
      /\ lc2p' = [lc2p EXCEPT ![c] = 0] /\ pend' = pend /\ lgot' = lgot
      /\ ltimeouts' = ltimeouts /\ strayed' = strayed
  BY Zenon DEF A!TakeCommand, A!budgets
<1>2. InTurn
  BY <1>1, Zenon DEF InTurn
<1>3. latModem = <<>>
  BY <1>1, <1>2, Zenon DEF AtcTurns, Owes
<1>4. Len(latModem') = 1 /\ Head(latModem') = m
  <2> HIDE DEF m
  <2> QED
    BY <1>1, <1>3
<1>5. ASSUME NEW x \in Clients, pend[x] # 0
      PROVE  Waits(x)'
  <2>1. lc2p[x] = pend[x]
    BY <1>1, <1>2, <1>5, Zenon DEF AtcTurns, Waits
  <2>2. CASE x = c
    BY <1>1, <1>4, <2>1, <2>2, Zenon DEF Waits
  <2>3. CASE x # c
    BY <1>1, <2>1, <2>3, Zenon DEF Waits, AtcTypes
  <2> QED
    BY <2>2, <2>3, Zenon
<1> QED
  BY <1>1, <1>2, <1>4, <1>5, Zenon DEF AtcTurns, Owes

LEMMA TurnsAnswered ==
    ASSUME AtcTypes, AtcListed, AtcTurns, A!processLine, ~ A!Killed
    PROVE  AtcTurns'
<1> SUFFICES ASSUME InTurn'
             PROVE  /\ Owes'
                    /\ \A x \in Clients : pend'[x] # 0 => Waits(x)'
                    /\ \A g \in lgot' : g.for = g.to \/ g.unread
  BY Zenon DEF AtcTurns
<1> DEFINE m == Head(latModem)
           to == A!onUnsolicited
<1>1. /\ latModem # <<>> /\ latModem' = Tail(latModem) /\ loop' = "poll" /\ lc2p' = lc2p
      /\ pend' = [x \in Clients |-> IF x \in to THEN 0 ELSE pend[x]]
      /\ strayed' = (strayed \/ (m.fd \in A!Accepted /\ m.fd \notin to))
      /\ ltimeouts' = ltimeouts
  BY Zenon DEF A!processLine, A!budgets
<1>2. lgot' = lgot \cup {[for |-> pend[x], to |-> m.n, unread |-> lc2p[x] # 0] :
                            x \in {y \in to : pend[y] # 0}}
  BY Zenon DEF A!processLine
<1>3. \A x \in to : link[x] = "open"
  BY Zenon DEF A!processLine
<1>4. InTurn /\ ~ (m.fd \in A!Accepted /\ m.fd \notin to)
  BY <1>1, Zenon DEF InTurn
<1>5. loop = "cmd" /\ Len(latModem) = 1
  BY <1>1, <1>4, Zenon DEF AtcTurns, Owes
<1>6. latModem' = <<>>
  <2>1. latModem \in Seq([n : Nat, fd : Clients])
    BY Zenon DEF AtcTypes
  <2> QED
    BY <1>1, <1>5, <2>1
<1>7. to \subseteq Clients
  BY AcceptedClients, Zenon DEF A!onUnsolicited, AtcTypes
<1>8. ASSUME NEW x \in Clients, pend[x] # 0
      PROVE  lc2p[x] = pend[x] \/ (m.n = pend[x] /\ m.fd = x)
  <2>1. lc2p[x] = pend[x] \/ m = [n |-> pend[x], fd |-> x]
    BY <1>4, <1>8, Zenon DEF AtcTurns, Waits
  <2> HIDE DEF m
  <2> QED
    BY <2>1
<1> HIDE DEF m, to
<1>9. ASSUME NEW x \in Clients, pend'[x] # 0
      PROVE  Waits(x)'
  <2>1. x \notin to /\ pend[x] # 0 /\ pend'[x] = pend[x]
    BY <1>1, <1>9, Zenon
  <2>2. x \in A!Accepted
    BY <2>1, Zenon DEF AtcListed
  <2>3. lc2p[x] = pend[x]
    BY <1>4, <1>8, <2>1, <2>2, Zenon
  <2> QED
    BY <1>1, <2>1, <2>3, Zenon DEF Waits
<1>10. ASSUME NEW g \in lgot'
       PROVE  g.for = g.to \/ g.unread
  <2>1. CASE g \in lgot
    BY <1>4, <2>1, Zenon DEF AtcTurns
  <2>2. ASSUME NEW x \in to, pend[x] # 0,
               g = [for |-> pend[x], to |-> m.n, unread |-> lc2p[x] # 0]
        PROVE  g.for = g.to \/ g.unread
    BY <1>7, <1>8, <2>2, Zenon
  <2> QED
    BY <1>2, <2>1, <2>2, Zenon
<1> QED
  BY <1>1, <1>6, <1>9, <1>10, Zenon DEF Owes

LEMMA AtcTurnsKept ==
    ASSUME AtcTypes, AtcListed, AtcTurns, A!Next \/ AtcKept PROVE AtcTurns'
<1>1. CASE A!Killed
  <2>1. /\ A!Closed(Clients) /\ loop' = "none" /\ latModem' = <<>> /\ lgot' = lgot
        /\ strayed' = strayed /\ ltimeouts' = ltimeouts
    BY <1>1, Zenon DEF A!Killed, A!budgets
  <2> QED
    BY <2>1, ClosedTypes, TurnsOver, Zenon DEF InTurn
<1>2. ASSUME NEW c \in Clients, A!Connect(c) \/ A!Send(c) \/ A!Leaves(c) \/ A!accept_atc_connection(c)
      PROVE  AtcTurns'
  <2>1. /\ latModem' = latModem /\ loop' = loop /\ lgot' = lgot
        /\ strayed' = strayed /\ ltimeouts' = ltimeouts
    BY <1>2, Zenon DEF A!Connect, A!Send, A!Leaves, A!accept_atc_connection, A!budgets
  <2>2. \/ pend' = pend /\ lc2p' = lc2p
        \/ \E n \in {commands + 1} : /\ pend' = [pend EXCEPT ![c] = n]
                                     /\ lc2p' = [lc2p EXCEPT ![c] = n]
        \/ pend' = [pend EXCEPT ![c] = 0] /\ lc2p' = lc2p
    BY <1>2, Zenon DEF A!Connect, A!Send, A!Leaves, A!accept_atc_connection
  <2>3. \A x \in Clients : pend'[x] # 0 => lc2p'[x] = pend'[x]
                              \/ (pend'[x] = pend[x] /\ lc2p'[x] = lc2p[x])
    BY <2>2, Zenon DEF AtcTypes
  <2> QED
    BY <2>1, <2>3, TurnsStay, Zenon DEF InTurn
<1>3. ASSUME NEW c \in Clients, A!cleanup_atc_connection(c)
      PROVE  AtcTurns'
  <2>1. /\ A!Closed({c}) /\ latModem' = latModem /\ loop' = loop /\ lgot' = lgot
        /\ strayed' = strayed /\ ltimeouts' = ltimeouts
    BY <1>3, Zenon DEF A!cleanup_atc_connection, A!budgets
  <2> QED
    BY <2>1, ClosedTypes, TurnsStay, Zenon DEF InTurn
<1>4. CASE A!processLine
  BY <1>1, <1>4, TurnsAnswered, Zenon
<1>5. CASE A!DeviceLost
  <2> DEFINE S == {c \in Clients : link[c] # "backlog"}
  <2>1. /\ A!Closed(S) /\ loop' = "none" /\ latModem' = <<>> /\ lgot' = lgot
        /\ strayed' = strayed /\ ltimeouts' = ltimeouts
    BY <1>5, Zenon DEF A!DeviceLost
  <2>2. \A c \in Clients : pend[c] # 0 => c \in S
    BY Zenon DEF AtcListed
  <2>3. \A c \in Clients : pend'[c] = 0
    BY <2>1, <2>2, ClosedTypes, Zenon
  <2> QED
    BY <2>1, <2>3, TurnsOver, Zenon DEF InTurn
<1>6. CASE A!Joined
  <2>1. /\ A!Closed(Clients) /\ loop' = loop /\ latModem' = latModem /\ lgot' = lgot
        /\ strayed' = strayed /\ ltimeouts' = ltimeouts
    BY <1>6, Zenon DEF A!Joined, A!budgets
  <2> QED
    BY <2>1, ClosedTypes, TurnsStay, Zenon DEF InTurn
<1>7. CASE A!TimesOut
  <2>1. ltimeouts' # 0
    BY <1>7 DEF A!TimesOut, AtcTypes
  <2> QED
    BY <2>1, Zenon DEF AtcTurns, InTurn
<1>8. CASE A!OpenDevice
  <2>1. /\ loop' = "poll" /\ loop = "none" /\ latModem' = latModem /\ lgot' = lgot
        /\ strayed' = strayed /\ ltimeouts' = ltimeouts /\ pend' = pend /\ lc2p' = lc2p
    BY <1>8, Zenon DEF A!OpenDevice, A!budgets, A!clientVars, AtcListed
  <2> QED
    BY <2>1, Zenon DEF AtcTurns, Owes, Waits, InTurn
<1>9. CASE A!Offered \/ A!atc_proxy_init \/ AtcKept
  <2>1. /\ loop' = loop /\ latModem' = latModem /\ lgot' = lgot
        /\ strayed' = strayed /\ ltimeouts' = ltimeouts /\ pend' = pend /\ lc2p' = lc2p
    BY <1>9, Zenon DEF A!Offered, A!atc_proxy_init, A!budgets, A!clientVars, AtcKept,
          localVars, atcVars
  <2> QED
    BY <2>1, TurnsStay, Zenon DEF InTurn
<1> QED
  BY <1>1, <1>2, <1>3, <1>4, <1>5, <1>6, <1>7, <1>8, <1>9, TurnsTaken, Zenon
     DEF A!Next, A!Thread, A!Main, A!OpenFails

LEMMA AtcInvKept == ASSUME AtcInv, A!Next \/ AtcKept PROVE AtcInv'
BY AtcTypesKept, AtcListedKept, AtcTurnsKept, Zenon DEF AtcInv

----------------------------------------------------------------------------
Answering ==
    /\ Shared
    /\ which = "qrtr" => QrtrTypes /\ QrtrNumbers /\ Q!Delivered
    /\ which = "atc" => AtcInv

LEMMA AtcSteps ==
    ASSUME [NextOne]_allVars
    PROVE  which = "atc" => (A!Next \/ AtcKept)
BY Zenon DEF NextOne, OfMbim, OfAtc, OfQrtr, allVars, AtcKept

LEMMA AnsweringKept == ASSUME Answering, [NextOne]_allVars PROVE Answering'
<1>1. Shared' /\ which' = which
  BY SharedKept, QrtrSteps, Zenon DEF Answering
<1>2. ASSUME which = "qrtr"
      PROVE  QrtrTypes' /\ QrtrNumbers' /\ Q!Delivered'
  BY <1>2, QrtrSteps, DeliveredKept, Zenon DEF Answering, Shared, QrtrKept
<1>3. ASSUME which = "atc"
      PROVE  AtcInv'
  BY <1>3, AtcSteps, AtcInvKept, Zenon DEF Answering
<1> QED
  BY <1>1, <1>2, <1>3, Zenon DEF Answering

(* An answer that quectel-qrtr-proxy hands to a client is the answer to a  *)
(* request of that client, as long as the one who asked has its id; and an *)
(* answer that a client of quectel-atc-proxy takes is the answer to its    *)
(* own command once the proxy has read that, although it is written to all *)
(* clients, unless a command timed out or current_client_fd went astray    *)
(* (recv_qrtr_from_dev, atc_proxy_loop, onUnsolicited).                    *)
THEOREM AnswersReachTheirClient == SpecOne => []AnswersOwn
<1>1. InitOne => Answering
  BY SafeBegins, QrtrBegins, AtcBegins, Zenon DEF InitOne, Shared, Answering
<1>2. Answering /\ [NextOne]_allVars => Answering'
  BY AnsweringKept, Zenon
<1>3. Answering => AnswersOwn
  BY Zenon DEF Answering, AtcInv, AtcTurns, InTurn, AnswersOwn, A!OwnOnceRead
<1> QED
  BY <1>1, <1>2, <1>3, PTL DEF SpecOne

=============================================================================
