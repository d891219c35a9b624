----------------------------- MODULE MbimProxy -----------------------------
(***************************************************************************)
(* quectel-mbim-proxy between one MBIM modem and several quectel-CM        *)
(* processes.  The proxy marks a request with the slot of its client in    *)
(* the upper byte of the transaction id and finds the client of an answer  *)
(* by that mark.  The clients run mbim_send_command and mbim_read_thread   *)
(* of mbim-cm.c: one command at a time, a timeout, ids from 1 upwards.     *)
(* The proxy is one thread; each descriptor it serves is one step.         *)
(***************************************************************************)
EXTENDS Integers, Sequences, FiniteSets

CONSTANTS Clients,   \* the connections made in a run; none comes back
          Slots,     \* CM_MAX_CLIENT
          TidLimit,  \* 0xFFFFFF + 1: the first id that does not fit
          MaxReq,    \* bound: requests of a client
          Faults,    \* bound: device failures and indications
          Losses,    \* bound: writes that fail, which is only logged
          Timeouts,  \* bound: commands that time out
          NoClient

ASSUME ProxyConstants ==
    /\ Slots \in Nat \ {0} /\ TidLimit \in Nat /\ TidLimit > 1
    /\ MaxReq \in Nat /\ Faults \in Nat /\ Losses \in Nat /\ Timeouts \in Nat
    /\ NoClient \notin Clients

VARIABLES
    phase,       \* the device: closed, opening, or serving its clients
    cm_clients,  \* slot -> client, or NoClient where client_fd <= 0
    cl,          \* client -> connection, requests sent, pending request
    c2p, p2c,    \* the sockets, per client
    atModem,     \* requests the modem has not answered: slot, id, and whose
    got,         \* history: the answer a client took last
    faults, losses, timeouts

vars == <<phase, cm_clients, cl, c2p, p2c, atModem, got, faults, losses, timeouts>>

SlotIds == 1..Slots
Req == [kind : {"open", "cmd"}, tid : 1..(TidLimit - 1), n : 1..MaxReq]
Rsp == [kind : {"open", "cmd", "ind"}, tid : 0..(TidLimit - 1),
        by : Clients \cup {NoClient}, n : 0..MaxReq]
ClientState == [st : {"new", "connected", "closed", "gone"},
                n : 0..MaxReq, pend : 0..(TidLimit - 1)]
NoRsp == [kind |-> "ind", tid |-> 0, by |-> NoClient, n |-> 0]

Init ==
    /\ phase = "closed"
    /\ cm_clients = [i \in SlotIds |-> NoClient]
    /\ cl = [c \in Clients |-> [st |-> "new", n |-> 0, pend |-> 0]]
    /\ c2p = [c \in Clients |-> <<>>] /\ p2c = [c \in Clients |-> <<>>]
    /\ atModem = {} /\ got = [c \in Clients |-> NoRsp]
    /\ faults = Faults /\ losses = Losses /\ timeouts = Timeouts

Gone(c) == cl[c].st = "gone"
SlotsOf(c) == {i \in SlotIds : cm_clients[i] = c}

----------------------------------------------------------------------------
(* The clients. *)

(* cm_open_proxy needs the listening socket. *)
Connect(c) ==
    /\ cl[c].st = "new" /\ phase = "serving"
    /\ cl' = [cl EXCEPT ![c].st = "connected"]
    /\ UNCHANGED <<phase, cm_clients, c2p, p2c, atModem, got, faults, losses, timeouts>>

(* The id of the n-th request: the counter starts over when it reaches     *)
(* what the proxy needs for itself.                                        *)
TidNoLimit(n) == n
Tid(n) == ((n - 1) % (TidLimit - 1)) + 1

(* mbim_init opens the device first. *)
Send(c) ==
    /\ cl[c].st = "connected" /\ cl[c].pend = 0 /\ cl[c].n < MaxReq
    /\ LET n == cl[c].n + 1
           m == [kind |-> IF n = 1 THEN "open" ELSE "cmd", tid |-> Tid(n), n |-> n]
       IN  /\ c2p' = [c2p EXCEPT ![c] = Append(@, m)]
           /\ cl' = [cl EXCEPT ![c].n = n, ![c].pend = m.tid]
    /\ UNCHANGED <<phase, cm_clients, p2c, atModem, got, faults, losses, timeouts>>

TimesOut(c) ==
    /\ cl[c].st = "connected" /\ cl[c].pend # 0 /\ timeouts > 0
    /\ cl' = [cl EXCEPT ![c].pend = 0]
    /\ timeouts' = timeouts - 1
    /\ UNCHANGED <<phase, cm_clients, c2p, p2c, atModem, got, faults, losses>>

(* mbim_recv_command: an answer counts if it has the id of the pending     *)
(* request.                                                                *)
Receive(c) ==
    /\ cl[c].st = "connected" /\ p2c[c] # <<>>
    /\ p2c' = [p2c EXCEPT ![c] = Tail(@)]
    /\ LET m == Head(p2c[c])
       IN  IF cl[c].pend # 0 /\ m.tid = cl[c].pend
             THEN /\ got' = [got EXCEPT ![c] = m]
                  /\ cl' = [cl EXCEPT ![c].pend = 0]
             ELSE UNCHANGED <<got, cl>>
    /\ UNCHANGED <<phase, cm_clients, c2p, atModem, faults, losses, timeouts>>

Leaves(c) ==
    /\ cl[c].st = "connected"
    /\ cl' = [cl EXCEPT ![c].st = "gone", ![c].pend = 0]
    /\ UNCHANGED <<phase, cm_clients, c2p, p2c, atModem, got, faults, losses, timeouts>>

(* The proxy closed the socket: the read thread quits and wakes the        *)
(* pending command.                                                        *)
Dropped(c) ==
    /\ cl[c].st = "closed"
    /\ cl' = [cl EXCEPT ![c].st = "gone", ![c].pend = 0]
    /\ UNCHANGED <<phase, cm_clients, c2p, p2c, atModem, got, faults, losses, timeouts>>

----------------------------------------------------------------------------
(* The proxy. *)

(* handle_client_connect: the first free slot, or the door. *)
Accept(c) ==
    /\ phase = "serving" /\ cl[c].st = "connected" /\ SlotsOf(c) = {}
    /\ IF NoClient \in {cm_clients[i] : i \in SlotIds}
         THEN /\ \E i \in SlotIds :
                    /\ cm_clients[i] = NoClient
                    /\ \A j \in 1..(i - 1) : cm_clients[j] # NoClient
                    /\ cm_clients' = [cm_clients EXCEPT ![i] = c]
              /\ UNCHANGED cl
         ELSE /\ cl' = [cl EXCEPT ![c].st = "closed"]
              /\ UNCHANGED cm_clients
    /\ UNCHANGED <<phase, c2p, p2c, atModem, got, faults, losses, timeouts>>

KeepSlot(c) == cm_clients
FreeSlot(c) == [i \in SlotIds |-> IF cm_clients[i] = c THEN NoClient ELSE cm_clients[i]]

(* POLLHUP on the client's socket; what it still holds is not read. *)
handle_client_disconnect(c) ==
    /\ phase = "serving" /\ Gone(c) /\ SlotsOf(c) # {}
    /\ cm_clients' = FreeSlot(c)
    /\ UNCHANGED <<phase, cl, c2p, p2c, atModem, got, faults, losses, timeouts>>

(* The proxy's only record of the sender is the slot in the id. *)
NoMark(i, m) == [slot |-> 1, tid |-> m.tid]
Mark(i, m) == [slot |-> i, tid |-> m.tid]

LoseWrite == losses > 0 /\ losses' = losses - 1
Fault == faults > 0 /\ faults' = faults - 1
WriteTo(c, m) == p2c' = [p2c EXCEPT ![c] = Append(@, m)]

handle_client_request(c) ==
    /\ phase = "serving" /\ c2p[c] # <<>>
    /\ c2p' = [c2p EXCEPT ![c] = Tail(@)]
    /\ \E i \in SlotsOf(c) :
         LET m == Head(c2p[c])
             q == Mark(i, m)
             done == [kind |-> "open", tid |-> m.tid, by |-> c, n |-> m.n]
         IN  \/ /\ m.kind = "open" /\ WriteTo(c, done)
                /\ UNCHANGED <<atModem, losses>>
             \/ /\ m.kind = "cmd"
                /\ atModem' = atModem \cup
                              {[slot |-> q.slot, tid |-> q.tid, by |-> c, n |-> m.n]}
                /\ UNCHANGED <<p2c, losses>>
             \/ LoseWrite /\ UNCHANGED <<p2c, atModem>>
    /\ UNCHANGED <<phase, cm_clients, cl, got, faults, timeouts>>

FindSender(q) == {cm_clients[i] : i \in {q.slot} \cap SlotIds} \ {NoClient}

(* handle_device_response for the answer to q. *)
Answer ==
    /\ phase = "serving"
    /\ \E q \in atModem :
         /\ atModem' = atModem \ {q}
         /\ \/ \E c \in FindSender(q) :
                  /\ WriteTo(c, [kind |-> "cmd", tid |-> q.tid, by |-> q.by, n |-> q.n])
                  /\ UNCHANGED losses
            \/ FindSender(q) = {} /\ UNCHANGED <<p2c, losses>>
            \/ LoseWrite /\ UNCHANGED p2c
    /\ UNCHANGED <<phase, cm_clients, cl, c2p, got, faults, timeouts>>

(* An indication, id 0, goes to every client. *)
Indicate ==
    /\ phase = "serving" /\ Fault
    /\ p2c' = [c \in Clients |-> IF SlotsOf(c) # {} THEN Append(p2c[c], NoRsp)
                                 ELSE p2c[c]]
    /\ UNCHANGED <<phase, cm_clients, cl, c2p, atModem, got, losses, timeouts>>

(* main opens the device and asks it to open; the proxy listens when that  *)
(* is done.                                                                *)
OpenDevice ==
    /\ phase = "closed" /\ phase' = "opening"
    /\ cm_clients' = [i \in SlotIds |-> NoClient]
    /\ UNCHANGED <<cl, c2p, p2c, atModem, got, faults, losses, timeouts>>

OpenDone ==
    /\ phase = "opening" /\ phase' = "serving"
    /\ UNCHANGED <<cm_clients, cl, c2p, p2c, atModem, got, faults, losses, timeouts>>

ForgetServer == [c \in Clients |-> cl[c]]
CloseAll ==
    [c \in Clients |-> IF cl[c].st = "connected" THEN [cl[c] EXCEPT !.st = "closed"]
                       ELSE cl[c]]

(* The device hangs up, refuses to open or says nothing for 10 s. *)
DeviceFails ==
    /\ phase # "closed" /\ Fault
    /\ phase' = "closed" /\ cl' = CloseAll
    /\ cm_clients' = [i \in SlotIds |-> NoClient]
    /\ atModem' = {}
    /\ UNCHANGED <<c2p, p2c, got, losses, timeouts>>

ClientStep(c) == Connect(c) \/ Send(c) \/ TimesOut(c) \/ Receive(c)
                 \/ Leaves(c) \/ Dropped(c)
ProxyStep(c) == Accept(c) \/ handle_client_disconnect(c) \/ handle_client_request(c)
DeviceStep == Answer \/ Indicate \/ OpenDevice \/ OpenDone \/ DeviceFails

Next == DeviceStep \/ \E c \in Clients : ClientStep(c) \/ ProxyStep(c)

Spec == Init /\ [][Next]_vars

(* The proxy serves every descriptor that is ready, the threads of the     *)
(* clients run and the modem answers.                                      *)
FairSpec ==
    /\ Spec
    /\ WF_vars(Answer) /\ WF_vars(OpenDevice) /\ WF_vars(OpenDone)
    /\ \A c \in Clients : WF_vars(Receive(c)) /\ WF_vars(Dropped(c))
                          /\ WF_vars(ProxyStep(c))

----------------------------------------------------------------------------
TypeOK ==
    /\ phase \in {"closed", "opening", "serving"}
    /\ cm_clients \in [SlotIds -> Clients \cup {NoClient}]
    /\ cl \in [Clients -> ClientState]
    /\ c2p \in [Clients -> Seq(Req)] /\ p2c \in [Clients -> Seq(Rsp)]
    /\ atModem \subseteq [slot : SlotIds, tid : 1..(TidLimit - 1),
                          by : Clients, n : 1..MaxReq]
    /\ got \in [Clients -> Rsp]
    /\ faults \in 0..Faults /\ losses \in 0..Losses /\ timeouts \in 0..Timeouts

(* A client is never handed the answer to a request of another client that *)
(* is still there: the slot in the id tells all connected clients apart    *)
(* (handle_client_request and handle_device_response).                     *)
Routed ==
    \A c \in Clients : got[c].by \notin {c, NoClient} => Gone(got[c].by)

(* The answer a client takes for the answer to its request is one to a     *)
(* request of its own ("try to find the sender").                          *)
OwnAnswer == \A c \in Clients : got[c].by \in {c, NoClient}

(* The slot of a client that is gone comes free: 32 clients can be served  *)
(* however many came and went before (handle_client_disconnect).           *)
SlotsComeFree ==
    \A c \in Clients : [](Gone(c) => <>(SlotsOf(c) = {}))

(* Without counting on the timeout of the command, every command ends:     *)
(* with its answer, or because the proxy or the device went away, unless   *)
(* the proxy could not write a request or an answer and went on.           *)
CommandsEnd ==
    \A c \in Clients : (cl[c].pend # 0) ~> (cl[c].pend = 0 \/ losses < Losses)
=============================================================================
