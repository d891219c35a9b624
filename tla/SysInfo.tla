------------------------------- MODULE SysInfo -------------------------------
(***************************************************************************)
(* What requestRegistrationState2 (QMIThread.c) makes of the system info   *)
(* of a modem.  The answer is a list of TLVs, one with the service status  *)
(* and one with the system info of each radio technology; the loop takes   *)
(* them in the order they come.  Only TLVs that say something count: the   *)
(* service is there (status 2), the domain is packet-switched (info).      *)
(***************************************************************************)
EXTENDS Integers

Technologies == {"cdma", "hdr", "gsm", "wcdma", "lte", "nr5g", "tdscdma"}
TLVs == [tech : Technologies, kind : {"status", "info"}]
          \cup [tech : {"lte"}, kind : {"endc", "unrestricted"}]

VARIABLES reg,   \* what is known of the network
          seen   \* history: the TLVs taken

vars == <<reg, seen>>

Cdma == {"cdma", "hdr"}

\* *pPSAttachedState, s_is_cdma, is_lte, DeviceClass, DataCapList, and the two flags of
\* dual connectivity.
Nothing == [attached |-> FALSE, s_is_cdma |-> FALSE, is_lte |-> FALSE, class |-> "none",
            caps |-> {}, endc |-> FALSE, unrestricted |-> FALSE]

\* Classes of data; a later technology replaces those of an earlier one, except for 5G.
DataCapList(tech) ==
  CASE tech = "cdma" -> {"1XRTT", "1XEVDO", "1XEVDO_REVA", "1XEVDV", "1XEVDO_REVB"}
    [] tech = "hdr" -> {"3XRTT", "UMB"}
    [] tech = "gsm" -> {"GPRS", "EDGE"}
    [] tech = "wcdma" -> {"UMTS"}
    [] tech = "lte" -> {"LTE"}
    [] tech = "nr5g" -> {"5G_SA"}
    [] OTHER -> {}

ServiceStatus(s, tech) ==
  IF tech = "tdscdma" THEN s
  ELSE [s EXCEPT
          !.caps = IF tech = "nr5g" THEN @ \cup DataCapList(tech) ELSE DataCapList(tech),
          !.class = IF tech \in Cdma THEN "CDMA" ELSE "GSM",
          !.is_lte = @ \/ tech \in {"lte", "nr5g"},
          !.s_is_cdma = IF tech \in Cdma THEN ~ s.is_lte
                        ELSE @ /\ tech \notin {"lte", "nr5g"}]

\* A bug: the system info of CDMA is believed whatever else there is.
InfoLastWins(s, tech) ==
  [s EXCEPT !.attached = TRUE, !.is_lte = @ \/ tech = "lte",
            !.s_is_cdma = IF tech \in Cdma THEN TRUE ELSE @ /\ tech # "lte"]

SystemInfo(s, tech) ==
  [s EXCEPT !.attached = TRUE, !.is_lte = @ \/ tech = "lte",
            !.s_is_cdma = IF tech \in Cdma THEN ~ s.is_lte ELSE @ /\ tech # "lte"]

Parsed(s, tlv) ==
  CASE tlv.kind = "status" -> ServiceStatus(s, tlv.tech)
    [] tlv.kind = "info" -> SystemInfo(s, tlv.tech)
    [] tlv.kind = "endc" -> [s EXCEPT !.endc = TRUE]
    [] tlv.kind = "unrestricted" -> [s EXCEPT !.unrestricted = TRUE]

Init == reg = Nothing /\ seen = {}

\* One pass of the loop.
Take(tlv) ==
  /\ tlv \notin seen
  /\ reg' = Parsed(reg, tlv)
  /\ seen' = seen \cup {tlv}

Next == \E tlv \in TLVs : Take(tlv)

Spec == Init /\ [][Next]_vars

\* s_5g_type
FiveG(s) ==
  CASE s.class = "CDMA" -> "none"
    [] "5G_SA" \in s.caps -> "5G_SA"
    [] "LTE" \in s.caps /\ s.endc /\ s.unrestricted -> "5G_NSA"
    [] OTHER -> "none"

----------------------------------------------------------------------------
\* quectel_convert_cdma_mcc_2_ascii_mcc: a country code of CDMA counts its digits from 1
\* to 10, 10 standing for 0, and subtracts 111.
Rest(buf) == IF buf % 10 = 0 THEN (buf - 10) \div 10 ELSE buf \div 10
Hundreds(buf) == IF buf = 10 THEN 0 ELSE buf
quectel_convert_cdma_mcc_2_ascii_mcc(mcc) ==
  LET buf == mcc + 111
      d3 == buf % 10
      d2 == Rest(buf) % 10
      d1 == Hundreds(Rest(Rest(buf)))
  IN  IF mcc = 1023 THEN 3
      ELSE IF d1 < 10 THEN 100 * d1 + 10 * d2 + d3 ELSE 0

quectel_convert_cdma_mnc_2_ascii_mnc(imsi_11_12) ==
  LET buf == imsi_11_12 + 11
      d1 == Hundreds(Rest(buf))
  IN  IF imsi_11_12 = 127 THEN 7 ELSE IF d1 < 10 THEN 10 * d1 + (buf % 10) ELSE 0

Digit(d) == IF d = 0 THEN 10 ELSE d
CdmaMcc(d1, d2, d3) == 100 * Digit(d1) + 10 * Digit(d2) + Digit(d3) - 111
CdmaMnc(d1, d2) == 10 * Digit(d1) + Digit(d2) - 11

----------------------------------------------------------------------------
On(techs, kinds) == \E tlv \in seen : tlv.tech \in techs /\ tlv.kind \in kinds

\* Whatever the order of the TLVs: the modem counts as attached exactly if some system
\* has a packet-switched domain, and as a CDMA modem, which is dialled without APN and
\* profile, exactly if it has CDMA but neither LTE nor 5G service besides; and 5G is not
\* reported without its service.
RadioDecoded ==
  /\ reg.attached = On(Technologies, {"info"})
  /\ reg.s_is_cdma = (/\ On(Cdma, {"status", "info"})
                      /\ ~ On({"lte"}, {"status", "info"})
                      /\ ~ On({"nr5g"}, {"status"}))
  /\ FiveG(reg) = "5G_SA" => On({"nr5g"}, {"status"})

\* The digits of the home network come out as they were put in.
CodesDecoded ==
  \A d1 \in 0..9, d2 \in 0..9 :
    /\ \A d3 \in 0..9 : quectel_convert_cdma_mcc_2_ascii_mcc(CdmaMcc(d1, d2, d3))
                          = 100 * d1 + 10 * d2 + d3
    /\ quectel_convert_cdma_mnc_2_ascii_mnc(CdmaMnc(d1, d2)) = 10 * d1 + d2

=============================================================================
