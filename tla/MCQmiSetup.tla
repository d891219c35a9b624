----------------------------- MODULE MCQmiSetup -----------------------------
(***************************************************************************)
(* QmiSetup and SysInfo for TLC: a behaviour is of one or of the other.    *)
(* The calls vary the transport and the link first, then the SIM, then the *)
(* profiles, each with the rest fixed.                                     *)
(***************************************************************************)
EXTENDS QmiSetup

VARIABLES which, reg, seen

R == INSTANCE SysInfo

Profiles == {<<[pdp |-> 1, apn |-> a]>> : a \in {"", "ours"}}
              \cup {<<[pdp |-> 1, apn |-> ""], [pdp |-> 2, apn |-> a]>> : a \in {"", "ours"}}
Plain == [via |-> "device", qmap |-> FALSE, v6 |-> FALSE, rawOnly |-> TRUE, pin |-> "none",
          locked |-> FALSE, pdp |-> 1, apn |-> TRUE, profiles |-> <<[pdp |-> 1, apn |-> ""]>>]
MCCalls ==
  {[Plain EXCEPT !.via = v, !.qmap = q, !.v6 = q, !.rawOnly = raw] :
     v \in {"device", "gobi", "libqmi", "proxy"}, q \in BOOLEAN, raw \in BOOLEAN}
  \cup {[Plain EXCEPT !.rawOnly = raw, !.pin = pin, !.locked = TRUE] :
          raw \in BOOLEAN, pin \in {"none", "right", "wrong"}}
  \cup {[Plain EXCEPT !.pdp = pdp, !.apn = apn, !.profiles = f] :
          pdp \in {1, 2}, apn \in BOOLEAN, f \in Profiles}

InitOne ==
  /\ Init /\ R!Init
  /\ which = "setup" \/ (which = "radio" /\ cfg = Plain)

NextOne ==
  \/ which = "setup" /\ Next /\ UNCHANGED <<which, reg, seen>>
  \/ which = "radio" /\ R!Next /\ UNCHANGED <<which, vars>>

SpecOne == InitOne /\ [][NextOne]_<<which, vars, reg, seen>>

----------------------------------------------------------------------------
(* The order of the TLVs of an answer does not matter (SysInfo).           *)
RadioDecoded == R!RadioDecoded

=============================================================================
