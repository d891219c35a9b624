----------------------------- MODULE MCProxies -----------------------------
(***************************************************************************)
(* The proxies that let several programs share a modem over MBIM, over an  *)
(* AT port and over QRTR, for TLC: a behaviour is about one of them, and   *)
(* the variables of the others stay as they are.  MbimProxy has variables  *)
(* of its own; the other two share those that both of them have.           *)
(***************************************************************************)
EXTENDS MbimProxy, QrtrIds

CONSTANTS MaxPolled, MaxTries, MaxConnects, MaxCommands, MaxGets, MaxData, MaxTroubles

VARIABLES which, lphase, loop, cons, link, lc2p, latModem, lgot, connects, troubles,
          tries, current_client_fd, pend, strayed, commands, ltimeouts,
          qrtr_server_list, clients, client_bitmap, port_bitmap, where, fromDev, gets, data

A == INSTANCE AtcProxy WITH Fds <- Clients, NoFd <- NoClient, MaxTimeouts <- Timeouts,
       phase <- lphase, c2p <- lc2p, atModem <- latModem, got <- lgot, timeouts <- ltimeouts
Q == INSTANCE QrtrProxy WITH Fds <- Clients, NumServices <- 1,
       phase <- lphase, c2p <- lc2p, atModem <- latModem, got <- lgot

localVars == <<lphase, loop, cons, link, lc2p, latModem, lgot, connects, troubles>>
atcVars == <<tries, current_client_fd, pend, strayed, commands, ltimeouts>>
qrtrVars == <<qrtr_server_list, clients, client_bitmap, port_bitmap, where, fromDev, gets, data>>
allVars == <<which, vars, localVars, atcVars, qrtrVars>>

NoLocal ==
  /\ lphase = "none" /\ loop = FALSE /\ cons = <<>> /\ link = <<>> /\ lc2p = <<>>
  /\ latModem = <<>> /\ lgot = <<>> /\ connects = 0 /\ troubles = 0
NoAtc ==
  /\ tries = 0 /\ current_client_fd = NoClient /\ pend = <<>> /\ strayed = FALSE
  /\ commands = 0 /\ ltimeouts = 0
NoQrtr ==
  /\ qrtr_server_list = <<>> /\ clients = {} /\ client_bitmap = <<>> /\ port_bitmap = <<>>
  /\ where = <<>> /\ fromDev = <<>> /\ gets = 0 /\ data = 0

InitOne ==
  /\ Init
  /\ \/ which = "mbim" /\ NoLocal /\ NoAtc /\ NoQrtr
     \/ which = "atc" /\ A!Init /\ NoQrtr
     \/ which = "qrtr" /\ Q!Init /\ NoAtc

OfMbim(Step) == which = "mbim" /\ Step /\ UNCHANGED <<which, localVars, atcVars, qrtrVars>>
OfAtc(Step) == which = "atc" /\ Step /\ UNCHANGED <<which, vars, qrtrVars>>
OfQrtr(Step) == which = "qrtr" /\ Step /\ UNCHANGED <<which, vars, atcVars>>

NextOne == OfMbim(Next) \/ OfAtc(A!Next) \/ OfQrtr(Q!Next)

SpecOne == InitOne /\ [][NextOne]_allVars

(* The fairness of the three modules.  What is fair of one goes together   *)
(* with what is fair of another: they never meet in a behaviour.           *)
FairOne ==
  /\ SpecOne
  /\ WF_allVars(OfMbim(Answer) \/ OfAtc(A!processLine) \/ OfQrtr(Q!recv_qrtr_from_dev))
  /\ WF_allVars(OfMbim(OpenDevice) \/ OfAtc(A!Main) \/ OfQrtr(Q!Main))
  /\ WF_allVars(OfMbim(OpenDone))
  /\ \A c \in Clients :
       /\ WF_allVars(OfMbim(Receive(c)) \/ OfAtc(A!accept_atc_connection(c))
                     \/ OfQrtr(Q!Thread(c)))
       /\ WF_allVars(OfMbim(Dropped(c)) \/ OfAtc(A!cleanup_atc_connection(c)))
       /\ WF_allVars(OfMbim(ProxyStep(c)))
       /\ SF_allVars(OfAtc(A!TakeCommand(c)))

----------------------------------------------------------------------------
(* A client that has an id has it alone, and its port (QrtrProxy). *)
OneOwner == which = "qrtr" => Q!OneOwner

(* An answer reaches the client that asked, unless that has released its   *)
(* id (QrtrProxy) or shared the port in one of the ways listed (AtcProxy). *)
AnswersOwn ==
  /\ which = "qrtr" => Q!Delivered
  /\ which = "atc" => A!OwnOnceRead

(* What a client that is gone has held comes free: the slots of MbimProxy  *)
(* and the ids of QrtrProxy.                                               *)
Left(c) == CASE which = "mbim" -> Gone(c) [] which = "qrtr" -> Q!Left(c) [] OTHER -> FALSE
AllBack(c) ==
  CASE which = "mbim" -> SlotsOf(c) = {} [] which = "qrtr" -> Q!IdsBack(c) [] OTHER -> TRUE
HeldComesFree == \A c \in Clients : Left(c) ~> AllBack(c)

(* Commands end, over MBIM and over the AT port, with an answer or because *)
(* the proxy went away, or for one of the reasons those modules list.      *)
Pending(c) ==
  CASE which = "mbim" -> cl[c].pend # 0 [] which = "atc" -> pend[c] # 0 [] OTHER -> FALSE
Settled(c) ==
  CASE which = "mbim" -> cl[c].pend = 0 \/ losses < Losses [] which = "atc" -> A!Ended(c)
    [] OTHER -> TRUE
AllCommandsEnd == \A c \in Clients : Pending(c) ~> Settled(c)

(* The socket is offered again after every failure (AtcProxy, QrtrProxy).  *)
OfferedAgain ==
  <>[](CASE which = "atc" -> A!Offers [] which = "qrtr" -> Q!Offers [] OTHER -> TRUE)

=============================================================================
