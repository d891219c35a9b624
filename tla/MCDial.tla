------------------------------- MODULE MCDial -------------------------------
(***************************************************************************)
(* The loop of quectel-CM over AT commands and over MBIM, for TLC: a       *)
(* behaviour is a session of one or of the other, chosen at the start; the *)
(* variables that only the other one has stay as they are.                 *)
(***************************************************************************)
EXTENDS Integers, Sequences, FiniteSets

CONSTANTS MaxFailed, MaxTroubles, MaxLeases, MaxReports, MaxPolls, MaxTimeouts

VARIABLES which, m, cmd, devq, chan, modem, troubles,
          polls, asr, vers, reboot, shm, unread, unset, failed, leases,
          sent, resp, old, wire, swallowed, assumed, late, timeouts

Kinds == {"rg", "eg800q", "asr"}
Addresses == {1, 2}
LeftOver == {2}
Asked == [apn |-> "a", auth |-> 1]
Profiles == {Asked, [apn |-> "a", auth |-> 0]}

A == INSTANCE AtcDial WITH Atc <- TRUE, HasUser <- TRUE
B == INSTANCE MbimDial WITH Atc <- FALSE, HasUser <- TRUE

shared == <<m, cmd, devq, chan, modem, troubles>>
atcVars == <<polls, asr, vers, reboot, shm, unread, unset, failed, leases>>
mbimVars == <<sent, resp, old, wire, swallowed, assumed, late, timeouts>>
vars == <<which, shared, atcVars, mbimVars>>

(* Not every combination of beginnings.  Over AT, another dialect than the *)
(* first, a wrong profile or NAT mode, a locked SIM and a session before   *)
(* this one are met one at a time, the wrong settings without a leftover   *)
(* call.  Over MBIM, the session is the first, through the proxy and with  *)
(* an authentication that must be tried again; or there was one before it; *)
(* or a call is left over.  A session before has left an address.          *)
AtMostOne(P) == Cardinality({k \in DOMAIN P : P[k]}) <= 1
Before == m.link # -1
AtcPlain ==
  /\ AtMostOne(<<modem.kind # "rg", modem.prof # Asked, modem.nat, modem.sim = "pin", Before>>)
  /\ modem.prof # Asked \/ modem.nat => modem.call = "none"
  /\ Before => m.ip # 0
MbimPlain ==
  /\ AtMostOne(<<modem.auth = 2, Before, modem.act = "activated">>)
  /\ (modem.auth = 2) = (cmd = "PROXY")
  /\ modem.auth = 2 \/ Before \/ modem.act = "activated"
  /\ Before => m.ip # 0

Init ==
  \/ /\ which = "atc" /\ A!Init /\ AtcPlain
     /\ sent = FALSE /\ resp = "none" /\ old = "none" /\ wire = <<>>
     /\ swallowed = {} /\ assumed = FALSE /\ late = FALSE /\ timeouts = 0
  \/ /\ which = "mbim" /\ B!Init /\ MbimPlain
     /\ polls = 0 /\ asr = FALSE /\ vers = FALSE /\ reboot = FALSE /\ shm = "none"
     /\ unread = FALSE /\ unset = FALSE /\ failed = 0 /\ leases = 0

OverAtc(Step) == which = "atc" /\ Step /\ UNCHANGED <<which, mbimVars>>
OverMbim(Step) == which = "mbim" /\ Step /\ UNCHANGED <<which, atcVars>>

Next == OverAtc(A!Next) \/ OverMbim(B!Next)

(* The fairness of AtcDial and of MbimDial: a behaviour is one of them, so *)
(* that what is fair of one and what is fair of the other go together.     *)
Either(StepA, StepB) == OverAtc(StepA) \/ OverMbim(StepB)
FairSpec ==
  /\ Init /\ [][Next]_vars
  /\ WF_vars(Either(A!Main, B!Main))
  /\ WF_vars(Either(A!PollTimesOut, B!PollTimesOut))
  /\ WF_vars(Either(A!HoldEnds \/ A!AlarmFires, B!HoldEnds \/ B!AlarmFires))
  /\ WF_vars(Either(A!atc_read_thread, B!mbim_read_thread \/ B!mbim_recv_command))
  /\ WF_vars(Either(A!Registers \/ A!Connects, B!Registers \/ B!Addressed))

----------------------------------------------------------------------------
(* The shared memory that failover reads is not left at "connected" when   *)
(* the program holds the call for down (AtcDial).                          *)
FailoverTold == which = "atc" => A!FailoverTold

(* The call is dialled with the profile of -s in the modem (AtcDial).      *)
ProfileInForce == which = "atc" => A!ProfileInForce

(* A call of an earlier session is hung up, not taken over (AtcDial).      *)
LeftoverHungUp == which = "atc" => A!LeftoverHungUp

(* A call that goes down is reported, unless its indication met an answer  *)
(* that was not stored yet (MbimDial).                                     *)
DropReported == which = "mbim" => B!DropReported

(* The interface has the address of the call (MbimDial).                   *)
InterfaceAddressed == which = "mbim" => B!InterfaceAddressed

(* Over either of them the session settles with the call up and the        *)
(* interface set up for it, or for one of the reasons Settled lists cannot.*)
Restored == <>[](IF which = "atc" THEN A!Settled ELSE B!Settled)

=============================================================================
