--------------------------- MODULE QmiSetupProofs ---------------------------
(***************************************************************************)
(* The start of a session over QMI, for any set of calls, any number of    *)
(* sessions and failures, and any room for profiles.                       *)
(***************************************************************************)
EXTENDS MCQmiSetup, TLAPS

Profile == [pdp : Nat, apn : Apns]
IdValues == {0 - 1, 0, 1}
PTypes ==
  /\ DOMAIN p = {"id", "rawIP", "s_9x07", "SIMStatus", "index", "old", "attached", "s_is_cdma"}
  /\ p.id \in [Services -> IdValues] /\ p.index \in Nat
MTypes ==
  /\ DOMAIN m = {"held", "stray", "format", "set", "sim", "tries", "profiles"}
  /\ m.held \in [Services -> Int] /\ m.stray \in [Services -> Int]
  /\ m.tries \in Int /\ m.profiles \in Seq(Profile)
Types ==
  /\ cfg \in Calls /\ PTypes /\ MTypes
  /\ at \in Nat /\ at >= 1 /\ sessions \in Nat

----------------------------------------------------------------------------
(* Attempts at the PIN.                                                    *)
ToPin == {"proxyopen", "sync", "ids", "format", "families", "sim", "pinstatus", "pin"}
Attempts ==
  /\ Tries - m.tries <= IF pc \in ToPin THEN sessions - 1 ELSE sessions
  /\ pc = "pin" => cfg.pin # "none"
  /\ cfg.pin # "wrong" => m.tries = Tries

(* The ids: what each service has, and what nobody holds between sessions. *)
Known(s) == m.held[s] <= Ids[s] + m.stray[s]
Unasked(s) == \A i \in 1..(at - 1) : Asked[i] # s
Linked == {"format", "families", "sim", "pinstatus", "pin", "list", "get", "create", "set",
           "register", "loop"}
HeldKnown ==
  /\ pc = "ids" /\ conn => \A s \in Services : Known(s) /\ (Unasked(s) => m.held[s] <= m.stray[s])
  /\ pc \in Linked /\ conn => \A s \in Services : Known(s)
  /\ cfg.via # "device" /\ (pc \in {"open", "proxyopen", "over"} \/ (pc = "ids" /\ at = 1)) =>
       m.held = NoIds /\ m.stray = NoIds
  /\ cfg.via = "gobi" => m.stray = NoIds
  /\ (pc = "sync" => cfg.via = "device") /\ (pc = "proxyopen" => cfg.via = "libqmi")

(* The link protocol.                                                      *)
Prepared == Linked \ {"format"}
IdOrFailed ==
  /\ pc = "ids" => \A i \in 1..(at - 1) : i <= Len(Asked) =>
                     p.id[Asked[i]] = 1 \/ Asked[i] \in failed
  /\ pc = "format" => \A i \in 1..Len(Asked) : p.id[Asked[i]] = 1 \/ Asked[i] \in failed
Opened == Linked \cup {"proxyopen", "ids"}
LinkKnown ==
  /\ pc \in Opened /\ cfg.qmap /\ cfg.via # "device" => m.format = "raw"
  /\ pc \in Prepared /\ failed \cap {"wda", "format"} = {} => p.rawIP = (m.format = "raw")

(* The preferences.                                                        *)
Wanted == Checked \cup {"pref4", "auto"}
AllSet == \A i \in 1..Len(Preferences) : Preferences[i] \in m.set
PrefsKnown ==
  /\ pc = "families" =>
       /\ at <= Len(Preferences)
       /\ \A i \in 1..(at - 1) : Preferences[i] \in m.set \cup failed
  /\ pc \in Prepared \ {"families"} => AllSet \/ failed \cap (Wanted \cup {"format"}) # {}

(* The profile.                                                            *)
Looking == {"list", "get", "create"}
ThisOne == m.profiles[p.index].pdp = cfg.pdp
ProfileKnown ==
  /\ p.index \in 1..Len(m.profiles)
  /\ pc = "get" => at <= Len(m.profiles)
  /\ pc = "set" => failed \cap Looking # {} \/ (ThisOne /\ p.old = m.profiles[p.index].apn)
  /\ pc \in {"register", "loop"} =>
       \/ failed \cap (Looking \cup {"set"}) # {}
       \/ ThisOne /\ (cfg.apn => m.profiles[p.index].apn = "ours")
  /\ ProfileOfPdp

IInv == Types /\ Attempts /\ HeldKnown /\ IdOrFailed /\ LinkKnown /\ PrefsKnown /\ ProfileKnown

----------------------------------------------------------------------------
(* What the requests of a session leave alone.                             *)
KeepsIds == p'.id = p.id /\ m'.held = m.held /\ m'.stray = m.stray
KeepsLink == p'.rawIP = p.rawIP /\ m'.format = m.format
KeepsProfile == p'.index = p.index /\ p'.old = p.old /\ m'.profiles = m.profiles

(* The calls, and what follows from them.                                  *)
LEMMA CfgTyped ==
    ASSUME Types
    PROVE  /\ cfg.via \in {"device", "gobi", "libqmi", "proxy"} /\ cfg.qmap \in BOOLEAN
           /\ cfg.v6 \in BOOLEAN /\ cfg.rawOnly \in BOOLEAN
           /\ cfg.pin \in {"none", "right", "wrong"} /\ cfg.pdp \in Nat /\ cfg.apn \in BOOLEAN
           /\ cfg.profiles \in Seq(Profile) /\ Len(cfg.profiles) >= 1 /\ Chosen \in {"raw", "eth"}
<1>1. cfg \in [via : {"device", "gobi", "libqmi", "proxy"}, qmap : BOOLEAN, v6 : BOOLEAN,
               rawOnly : BOOLEAN, pin : {"none", "right", "wrong"}, locked : BOOLEAN,
               pdp : Nat, apn : BOOLEAN, profiles : Seq([pdp : Nat, apn : Apns])]
  BY QmiSetupAssumption, Zenon DEF Types
<1>2. cfg.profiles # <<>> /\ cfg.profiles \in Seq(Profile)
  BY <1>1, QmiSetupAssumption DEF Types, Profile
<1>3. Len(cfg.profiles) >= 1
  BY <1>2
<1> QED
  BY <1>1, <1>2, <1>3 DEF Chosen, WdaSetDataFormat

LEMMA TypesBegin == Init => Types /\ Attempts /\ HeldKnown
<1> SUFFICES ASSUME Init PROVE Types /\ Attempts /\ HeldKnown
  OBVIOUS
<1>1. cfg \in Calls
  BY DEF Init
<1>2. cfg.profiles \in Seq(Profile)
  BY <1>1, QmiSetupAssumption, Zenon DEF Profile
<1>3. NoIds \in [Services -> IdValues] /\ NoIds \in [Services -> Int]
  BY DEF NoIds, IdValues
<1>4. PTypes
  <2>1. p = NewProcess
    BY DEF Init
  <2> QED
    BY <1>3, <2>1, Zenon DEF NewProcess, PTypes
<1>5. MTypes
  BY <1>2, <1>3, QmiSetupAssumption DEF Init, MTypes
<1>6. Types
  BY <1>1, <1>4, <1>5 DEF Types, Init
<1>7. Attempts
  BY QmiSetupAssumption DEF Attempts, Init, ToPin
<1>8. HeldKnown
  BY DEF HeldKnown, Init, Linked
<1> QED
  BY <1>6, <1>7, <1>8

LEMMA Begins == Init => IInv
<1> SUFFICES ASSUME Init PROVE IInv
  OBVIOUS
<1>1. Types /\ Attempts /\ HeldKnown
  BY TypesBegin
<1>2. IdOrFailed /\ LinkKnown /\ PrefsKnown
  BY DEF Init, IdOrFailed, LinkKnown, PrefsKnown, Linked, Opened, Prepared
<1>3. p.index = 1 /\ m.profiles = cfg.profiles
  BY Zenon DEF Init, NewProcess
<1>4. ProfileKnown
  BY <1>1, <1>3, CfgTyped DEF Init, ProfileKnown, ProfileOfPdp
<1> QED
  BY <1>1, <1>2, <1>4 DEF IInv

(* Sequences of services without repetitions.                              *)
Among(x, s) == \E i \in 1..Len(s) : s[i] = x
Once(s) == s \in Seq(Services) /\ \A i, j \in 1..Len(s) : s[i] = s[j] => i = j

LEMMA JoinedOnce ==
    ASSUME NEW a, NEW b, Once(a), Once(b), \A x : ~ (Among(x, a) /\ Among(x, b))
    PROVE  Once(a \o b) /\ \A x : Among(x, a \o b) <=> Among(x, a) \/ Among(x, b)
<1> DEFINE c == a \o b
<1>1. /\ c \in Seq(Services) /\ Len(c) = Len(a) + Len(b) /\ Len(a) \in Nat /\ Len(b) \in Nat
      /\ \A i \in 1..Len(c) : c[i] = IF i <= Len(a) THEN a[i] ELSE b[i - Len(a)]
  BY DEF Once
<1> HIDE DEF c
<1>2. \A i \in 1..Len(c) :
        \/ i \in 1..Len(a) /\ c[i] = a[i]
        \/ i > Len(a) /\ i - Len(a) \in 1..Len(b) /\ c[i] = b[i - Len(a)]
  BY <1>1
<1>3. \A i, j \in 1..Len(c) : c[i] = c[j] => i = j
  <2> SUFFICES ASSUME NEW i \in 1..Len(c), NEW j \in 1..Len(c), c[i] = c[j] PROVE i = j
    OBVIOUS
  <2>1. CASE i \in 1..Len(a) /\ j \in 1..Len(a)
    BY <1>1, <2>1 DEF Once
  <2>2. CASE i > Len(a) /\ j > Len(a)
    <3>1. /\ i - Len(a) \in 1..Len(b) /\ j - Len(a) \in 1..Len(b)
          /\ b[i - Len(a)] = b[j - Len(a)]
      BY <1>1, <1>2, <2>2
    <3>2. i - Len(a) = j - Len(a)
      BY <3>1 DEF Once
    <3> QED
      BY <3>2, <1>1
  <2>3. CASE i \in 1..Len(a) /\ j > Len(a)
    <3>1. Among(c[i], a) /\ Among(c[i], b)
      BY <1>2, <1>1, <2>3 DEF Among
    <3> QED
      BY <3>1
  <2>4. CASE j \in 1..Len(a) /\ i > Len(a)
    <3>1. Among(c[i], a) /\ Among(c[i], b)
      BY <1>2, <1>1, <2>4 DEF Among
    <3> QED
      BY <3>1
  <2> QED
    BY <1>2, <2>1, <2>2, <2>3, <2>4
<1>4. ASSUME NEW x PROVE Among(x, c) <=> Among(x, a) \/ Among(x, b)
  <2>1. Among(x, c) => Among(x, a) \/ Among(x, b)
    BY <1>2 DEF Among
  <2>2. Among(x, a) => Among(x, c)
    BY <1>1 DEF Among
  <2>3. ASSUME NEW i \in 1..Len(b), b[i] = x PROVE Among(x, c)
    <3>1. Len(a) + i \in 1..Len(c) /\ (Len(a) + i) - Len(a) = i /\ ~ (Len(a) + i <= Len(a))
      BY <1>1
    <3> QED
      BY <1>1, <2>3, <3>1 DEF Among
  <2> QED
    BY <2>1, <2>2, <2>3 DEF Among
<1> QED
  BY <1>1, <1>3, <1>4 DEF Once, c

LEMMA OnceEmpty == Once(<<>>) /\ \A x : ~ Among(x, <<>>)
<1>1. <<>> \in Seq(Services) /\ Len(<<>>) = 0
  OBVIOUS
<1>2. 1..0 = {}
  OBVIOUS
<1> QED
  BY <1>1, <1>2 DEF Once, Among

LEMMA OnceSingle ==
    ASSUME NEW x \in Services
    PROVE  Once(<<x>>) /\ \A y : Among(y, <<x>>) <=> y = x
BY DEF Once, Among

LEMMA AskedOnce ==
    ASSUME Types
    PROVE  Once(Asked) /\ (~ (cfg.via = "gobi" /\ cfg.qmap) => Among("wda", Asked))
<1> DEFINE six == IF cfg.v6 THEN <<"wds6">> ELSE <<>>
           wda == IF cfg.via = "gobi" /\ cfg.qmap THEN <<>> ELSE <<"wda">>
           three == <<"dms", "nas", "uim">>
<1>1. Once(<<"wds">>) /\ \A x : Among(x, <<"wds">>) => x = "wds"
  BY OnceSingle DEF Services
<1>2. Once(six) /\ \A x : Among(x, six) => x = "wds6"
  <2>1. CASE cfg.v6
    <3>1. six = <<"wds6">>
      BY <2>1
    <3> HIDE DEF six
    <3> QED
      BY <3>1, OnceSingle DEF Services
  <2>2. CASE ~ cfg.v6
    <3>1. six = <<>>
      BY <2>2
    <3> HIDE DEF six
    <3> QED
      BY <3>1, OnceEmpty
  <2> QED
    BY <2>1, <2>2
<1>3. Once(three) /\ \A x : Among(x, three) => x \in {"dms", "nas", "uim"}
  BY DEF Once, Among, Services
<1>4. Once(wda) /\ \A x : Among(x, wda) => x = "wda"
  <2>1. CASE ~ (cfg.via = "gobi" /\ cfg.qmap)
    <3>1. wda = <<"wda">>
      BY <2>1
    <3> HIDE DEF wda
    <3> QED
      BY <3>1, OnceSingle DEF Services
  <2>2. CASE ~ (~ (cfg.via = "gobi" /\ cfg.qmap))
    <3>1. wda = <<>>
      BY <2>2
    <3> HIDE DEF wda
    <3> QED
      BY <3>1, OnceEmpty
  <2> QED
    BY <2>1, <2>2
<1>5. ~ (cfg.via = "gobi" /\ cfg.qmap) => Among("wda", wda)
  BY DEF Among
<1> HIDE DEF six, wda, three
<1>6. Once(<<"wds">> \o six) /\ \A x : Among(x, <<"wds">> \o six) => x \in {"wds", "wds6"}
  BY <1>1, <1>2, JoinedOnce
<1>7. /\ Once((<<"wds">> \o six) \o three)
      /\ \A x : Among(x, (<<"wds">> \o six) \o three) => x \in {"wds", "wds6", "dms", "nas", "uim"}
  BY <1>3, <1>6, JoinedOnce
<1>8. /\ Once(((<<"wds">> \o six) \o three) \o wda)
      /\ Among("wda", wda) => Among("wda", ((<<"wds">> \o six) \o three) \o wda)
  BY <1>4, <1>7, JoinedOnce
<1>9. Asked = ((<<"wds">> \o six) \o three) \o wda
  BY DEF Asked, six, wda, three
<1> QED
  BY <1>5, <1>8, <1>9

(* A modem that was reset, or whose connection was closed.                 *)
LEMMA ModemTyped ==
    ASSUME MTypes
    PROVE  /\ SwitchedOn(m, cfg).held = NoIds /\ SwitchedOn(m, cfg).stray = NoIds
           /\ SwitchedOn(m, cfg).tries = m.tries /\ SwitchedOn(m, cfg).profiles = m.profiles
           /\ DOMAIN SwitchedOn(m, cfg) = DOMAIN m
           /\ Closed(m).tries = m.tries /\ Closed(m).profiles = m.profiles
           /\ DOMAIN Closed(m) = DOMAIN m
           /\ cfg.via = "device" => Closed(m) = m
           /\ cfg.via # "device" => Closed(m).held = NoIds /\ Closed(m).stray = NoIds
BY DEF MTypes, SwitchedOn, Closed

LEMMA NoIdsTyped ==
  NoIds \in [Services -> IdValues] /\ NoIds \in [Services -> Int]
BY DEF NoIds, IdValues

(* A step that asks for an id: v is what the process has then, h and l     *)
(* whether the modem counts one more, and one more that nobody knows of.   *)
Obtained ==
  /\ pc = "ids" /\ pc' = "ids" /\ at \in 1..Len(Asked) /\ at' = at + 1
  /\ UNCHANGED <<cfg, conn, sessions, used>>
  /\ \E v \in IdValues, h, l \in {0, 1} :
       /\ p'.id = [p.id EXCEPT ![Asked[at]] = v]
       /\ m'.held = [m.held EXCEPT ![Asked[at]] = m.held[Asked[at]] + h]
       /\ m'.stray = [m.stray EXCEPT ![Asked[at]] = m.stray[Asked[at]] + l]
       /\ h = 0 \/ l = 1 \/ v = 1
       /\ cfg.via = "gobi" => l = 0
       /\ v = 1 \/ Asked[at] \in failed'
  /\ failed \subseteq failed'
  /\ UNCHANGED <<p.rawIP, p.index, p.old, DOMAIN p>>
  /\ UNCHANGED <<m.format, m.set, m.tries, m.profiles, DOMAIN m>>

LEMMA Obtains ==
    ASSUME Types, QmiWwanGetClientID \/ GobiNetGetClientID
    PROVE  Obtained
<1> USE DEF Goto, OnlyRequest
<1>1. /\ pc = "ids" /\ pc' = "ids" /\ at \in 1..Len(Asked) /\ at' = at + 1
      /\ UNCHANGED <<cfg, conn, sessions, used>>
  <2>1. Len(Asked) \in Nat /\ at \in Nat /\ at >= 1
    BY AskedOnce DEF Once, Types
  <2>2. /\ pc = "ids" /\ pc' = "ids" /\ at <= Len(Asked) /\ at' = at + 1
        /\ UNCHANGED <<cfg, conn, sessions, used>>
    BY Zenon DEF QmiWwanGetClientID, GobiNetGetClientID
  <2> QED
    BY <2>1, <2>2
<1>2. CASE QmiWwanGetClientID
  <2>1. PICK o \in Outcomes :
          /\ p' = [p EXCEPT !.id[Asked[at]] = IF o = "done" THEN 1 ELSE 0]
          /\ m' = [m EXCEPT !.held[Asked[at]] = IF Heard(o) THEN @ + 1 ELSE @,
                            !.stray[Asked[at]] = IF o = "lost" THEN @ + 1 ELSE @]
          /\ failed' = IF o = "done" THEN failed ELSE failed \cup {Asked[at]}
    BY <1>2, Zenon DEF QmiWwanGetClientID
  <2>2. cfg.via # "gobi"
    BY <1>2, Zenon DEF QmiWwanGetClientID
  <2> DEFINE v == IF o = "done" THEN 1 ELSE 0
             h == IF Heard(o) THEN 1 ELSE 0
             l == IF o = "lost" THEN 1 ELSE 0
  <2>3. /\ p'.id = [p.id EXCEPT ![Asked[at]] = v]
        /\ UNCHANGED <<p.rawIP, p.index, p.old, DOMAIN p>>
    BY <2>1 DEF Types, PTypes
  <2>4. /\ m'.held = [m.held EXCEPT ![Asked[at]] = IF Heard(o) THEN @ + 1 ELSE @]
        /\ m'.stray = [m.stray EXCEPT ![Asked[at]] = IF o = "lost" THEN @ + 1 ELSE @]
        /\ UNCHANGED <<m.format, m.set, m.tries, m.profiles, DOMAIN m>>
    BY <2>1 DEF Types, MTypes
  <2>5. /\ Asked[at] \in Services
        /\ m.held[Asked[at]] \in Int /\ m.stray[Asked[at]] \in Int
    BY <1>1, AskedOnce DEF Once, Types, MTypes
  <2>6. /\ m'.held = [m.held EXCEPT ![Asked[at]] = m.held[Asked[at]] + h]
        /\ m'.stray = [m.stray EXCEPT ![Asked[at]] = m.stray[Asked[at]] + l]
    BY <2>4, <2>5
  <2>7. /\ v \in IdValues /\ h \in {0, 1} /\ l \in {0, 1} /\ (h = 0 \/ l = 1 \/ v = 1)
        /\ v = 1 \/ Asked[at] \in failed'
        /\ failed \subseteq failed'
    BY <2>1 DEF Heard, IdValues
  <2> HIDE DEF v, h, l
  <2> QED
    BY <1>1, <2>2, <2>3, <2>4, <2>6, <2>7 DEF Obtained
<1>3. CASE GobiNetGetClientID
  <2>1. PICK o \in {"done", "refused", "unheard"} :
          /\ p' = [p EXCEPT !.id[Asked[at]] = CASE o = "done" -> 1 [] o = "refused" -> 0
                                                [] OTHER -> 0 - 1]
          /\ m' = IF o = "done" THEN [m EXCEPT !.held[Asked[at]] = @ + 1] ELSE m
          /\ failed' = IF o = "done" THEN failed ELSE failed \cup {Asked[at]}
    BY <1>3, Zenon DEF GobiNetGetClientID
  <2> DEFINE v == CASE o = "done" -> 1 [] o = "refused" -> 0 [] OTHER -> 0 - 1
             h == IF o = "done" THEN 1 ELSE 0
  <2>3. /\ p'.id = [p.id EXCEPT ![Asked[at]] = v]
        /\ UNCHANGED <<p.rawIP, p.index, p.old, DOMAIN p>>
    BY <2>1 DEF Types, PTypes
  <2>4. /\ m'.held = IF o = "done" THEN [m.held EXCEPT ![Asked[at]] = @ + 1] ELSE m.held
        /\ UNCHANGED <<m.stray, m.format, m.set, m.tries, m.profiles, DOMAIN m>>
    BY <2>1 DEF Types, MTypes
  <2>5. /\ Asked[at] \in Services /\ m.held \in [Services -> Int] /\ m.stray \in [Services -> Int]
        /\ m.held[Asked[at]] \in Int /\ m.stray[Asked[at]] \in Int
    BY <1>1, AskedOnce DEF Once, Types, MTypes
  <2>6. /\ m'.held = [m.held EXCEPT ![Asked[at]] = m.held[Asked[at]] + h]
        /\ m'.stray = [m.stray EXCEPT ![Asked[at]] = m.stray[Asked[at]] + 0]
    BY <2>4, <2>5
  <2>7. /\ v \in IdValues /\ h \in {0, 1} /\ (h = 0 \/ v = 1)
        /\ v = 1 \/ Asked[at] \in failed'
        /\ failed \subseteq failed'
    BY <2>1 DEF IdValues
  <2> HIDE DEF v, h
  <2> QED
    BY <1>1, <2>3, <2>4, <2>6, <2>7, Zenon DEF Obtained
<1> QED
  BY <1>2, <1>3

(* What becomes of the profiles.                                           *)
LEMMA Created ==
    ASSUME Types
    PROVE  /\ DOMAIN WdsCreateProfile(m) = DOMAIN m
           /\ WdsCreateProfile(m).profiles \in Seq(Profile)
           /\ Len(WdsCreateProfile(m).profiles) = Len(m.profiles) + 1
           /\ \A f \in DOMAIN m \ {"profiles"} : WdsCreateProfile(m)[f] = m[f]
<1> DEFINE new == [pdp |-> cfg.pdp, apn |-> ""]
<1>1. /\ DOMAIN WdsCreateProfile(m) = DOMAIN m
      /\ WdsCreateProfile(m).profiles = Append(m.profiles, new)
      /\ \A f \in DOMAIN m \ {"profiles"} : WdsCreateProfile(m)[f] = m[f]
  BY Zenon DEF WdsCreateProfile, Types, MTypes
<1>2. new \in Profile
  BY CfgTyped, Zenon DEF Profile, Apns
<1>3. m.profiles \in Seq(Profile)
  BY DEF Types, MTypes
<1> HIDE DEF new
<1>4. /\ Append(m.profiles, new) \in Seq(Profile)
      /\ Len(Append(m.profiles, new)) = Len(m.profiles) + 1
  BY <1>2, <1>3
<1> QED
  BY <1>1, <1>4

LEMMA Modified ==
    ASSUME Types, p.index \in 1..Len(m.profiles)
    PROVE  /\ DOMAIN WdsModifyProfileSettings(m) = DOMAIN m
           /\ WdsModifyProfileSettings(m).profiles \in Seq(Profile)
           /\ Len(WdsModifyProfileSettings(m).profiles) = Len(m.profiles)
           /\ WdsModifyProfileSettings(m).profiles[p.index].apn = "ours"
           /\ WdsModifyProfileSettings(m).profiles[p.index].pdp = m.profiles[p.index].pdp
           /\ \A f \in DOMAIN m \ {"profiles"} : WdsModifyProfileSettings(m)[f] = m[f]
<1> DEFINE new == [m.profiles[p.index] EXCEPT !.apn = "ours"]
<1>1. /\ DOMAIN WdsModifyProfileSettings(m) = DOMAIN m
      /\ WdsModifyProfileSettings(m).profiles = [m.profiles EXCEPT ![p.index] = new]
      /\ \A f \in DOMAIN m \ {"profiles"} : WdsModifyProfileSettings(m)[f] = m[f]
  BY DEF WdsModifyProfileSettings, Types, MTypes
<1>2. m.profiles \in Seq(Profile) /\ m.profiles[p.index] \in Profile
  BY DEF Types, MTypes
<1>3. new \in Profile /\ new.apn = "ours" /\ new.pdp = m.profiles[p.index].pdp
  BY <1>2, Zenon DEF Profile, Apns
<1> HIDE DEF new
<1> QED
  BY <1>1, <1>2, <1>3

LEMMA TypesKept == ASSUME IInv, Next PROVE Types'
<1> USE DEF IInv, Goto, OnlyRequest
<1>1. Types /\ PTypes /\ MTypes /\ at + 1 \in Nat /\ at + 1 >= 1
  BY DEF Types
<1>2. cfg' = cfg /\ cfg \in Calls /\ at' \in Nat /\ at' >= 1 /\ sessions' \in Nat
  <2>1. /\ cfg' = cfg /\ (at' = 1 \/ at' = at \/ at' = at + 1)
        /\ sessions' = sessions \/ sessions' = sessions + 1
    BY Zenon DEF Next, Opens, libqmi_proxy_open, Sync, QmiWwanGetClientID, GobiNetGetClientID,
         IdsAsked, SetDataFormat, SetPreference, requestGetSIMStatus, requestGetPINStatus,
         requestEnterSimPin, GetProfileList, GetProfileSettings, CreateProfile, requestSetProfile,
         ProfileLeft, requestRegistrationState, StartNwInterface, Stop, HangUp, SessionOver, Killed,
         Restarted, Unplugged
  <2> QED
    BY <1>1, <2>1 DEF Types
<1>3. SUFFICES PTypes' /\ MTypes'
  BY <1>2 DEF Types
<1>4. CASE p' = p /\ m' = m
  BY <1>1, <1>4 DEF PTypes, MTypes
<1>5. CASE Opens
  BY <1>1, <1>5, NoIdsTyped, ModemTyped DEF Opens, PTypes, MTypes
<1>6. CASE Sync
  BY <1>1, <1>6, NoIdsTyped DEF Sync, PTypes, MTypes
<1>7. CASE QmiWwanGetClientID \/ GobiNetGetClientID
  <2>1. Obtained
    BY <1>1, <1>7, Obtains
  <2>2. PICK v \in IdValues, h, l \in {0, 1} :
          /\ p'.id = [p.id EXCEPT ![Asked[at]] = v]
          /\ m'.held = [m.held EXCEPT ![Asked[at]] = m.held[Asked[at]] + h]
          /\ m'.stray = [m.stray EXCEPT ![Asked[at]] = m.stray[Asked[at]] + l]
    BY <2>1, Zenon DEF Obtained
  <2>3. Asked[at] \in Services
    BY <1>1, <2>1, AskedOnce DEF Obtained, Once
  <2>4. p'.id \in [Services -> IdValues]
    BY <1>1, <2>2, Zenon DEF PTypes
  <2>5. m.held[Asked[at]] + h \in Int /\ m.stray[Asked[at]] + l \in Int
    BY <1>1, <2>3 DEF MTypes
  <2>6. m'.held \in [Services -> Int] /\ m'.stray \in [Services -> Int]
    BY <1>1, <2>2, <2>5, Zenon DEF MTypes
  <2> QED
    BY <1>1, <2>1, <2>4, <2>6 DEF Obtained, PTypes, MTypes
<1>9. CASE IdsAsked
  BY <1>1, <1>9, NoIdsTyped, Zenon DEF IdsAsked, PTypes, MTypes
<1>10. CASE SetDataFormat
  BY <1>1, <1>10, Zenon DEF SetDataFormat, LinkProtocol, PTypes, MTypes
<1>11. CASE SetPreference
  BY <1>1, <1>11 DEF SetPreference, PTypes, MTypes
<1>12. CASE requestGetSIMStatus \/ requestGetPINStatus
  BY <1>1, <1>12, Zenon DEF requestGetSIMStatus, requestGetPINStatus, PTypes, MTypes
<1>13. CASE requestEnterSimPin
  BY <1>1, <1>13, QmiSetupAssumption DEF requestEnterSimPin, Verified, PTypes, MTypes
<1>14. CASE GetProfileList \/ GetProfileSettings
  BY <1>1, <1>14, Zenon DEF GetProfileList, GetProfileSettings, PTypes, MTypes, Types
<1>15. CASE CreateProfile
  <2>1. p' = p /\ (m' = m \/ m' = WdsCreateProfile(m))
    BY <1>15 DEF CreateProfile
  <2>2. CASE m' = WdsCreateProfile(m)
    BY <1>1, <2>1, <2>2, Created, Zenon DEF PTypes, MTypes
  <2> QED
    BY <1>4, <2>1, <2>2
<1>16. CASE requestSetProfile
  <2>1. p' = p /\ (m' = m \/ m' = WdsModifyProfileSettings(m))
    BY <1>16 DEF requestSetProfile
  <2>2. CASE m' = WdsModifyProfileSettings(m)
    BY <1>1, <2>1, <2>2, Modified, Zenon DEF PTypes, MTypes, ProfileKnown
  <2> QED
    BY <1>4, <2>1, <2>2
<1>17. CASE requestRegistrationState
  BY <1>1, <1>17 DEF requestRegistrationState, PTypes, MTypes
<1>18. CASE Stop
  BY <1>1, <1>18, NoIdsTyped, ModemTyped DEF Stop, Released, PTypes, MTypes
<1>181. CASE HangUp
  BY <1>1, <1>181, NoIdsTyped, ModemTyped DEF HangUp, PTypes, MTypes
<1>19. CASE Restarted
  <2>1. p' = NewProcess /\ m' = Closed(m)
    BY <1>19 DEF Restarted
  <2>2. PTypes'
    BY <2>1, NoIdsTyped, Zenon DEF NewProcess, PTypes
  <2> QED
    BY <1>1, <2>1, <2>2, NoIdsTyped, ModemTyped DEF MTypes
<1>20. CASE \/ libqmi_proxy_open \/ ProfileLeft \/ StartNwInterface \/ SessionOver \/ Killed
            \/ Unplugged
  BY <1>4, <1>20 DEF libqmi_proxy_open, ProfileLeft, StartNwInterface, SessionOver, Killed, Unplugged
<1> QED
  BY <1>5, <1>6, <1>7, <1>9, <1>10, <1>11, <1>12, <1>13, <1>14, <1>15, <1>16, <1>17, <1>18,
     <1>181, <1>19, <1>20 DEF Next

----------------------------------------------------------------------------
(* Attempts at the PIN: a session makes one at most.                       *)
LEMMA AttemptsKept == ASSUME IInv, Next PROVE Attempts'
<1> USE DEF IInv, Goto, OnlyRequest
<1>1. Types /\ PTypes /\ MTypes /\ m.tries \in Int /\ sessions \in Nat /\ Tries \in Nat
  BY QmiSetupAssumption DEF Types, MTypes
<1>2. CASE /\ UNCHANGED <<cfg, sessions, m.tries>>
           /\ pc' \in ToPin => pc \in ToPin
           /\ pc' = "pin" => pc = "pin" \/ cfg.pin # "none"
  BY <1>1, <1>2 DEF Attempts
<1>3. CASE Opens
  <2>1. /\ sessions' = sessions + 1 /\ UNCHANGED <<cfg, m.tries>> /\ pc = "open" /\ pc' # "pin"
    BY <1>1, <1>3, ModemTyped DEF Opens, MTypes
  <2> QED
    BY <1>1, <2>1 DEF Attempts, ToPin
<1>4. CASE requestEnterSimPin
  <2>1. /\ UNCHANGED <<cfg, sessions>> /\ pc = "pin" /\ pc' = "list"
        /\ m'.tries \in {m.tries, m.tries - 1, Tries}
        /\ cfg.pin = "right" => m'.tries \in {m.tries, Tries}
    BY <1>1, <1>4 DEF requestEnterSimPin, Verified, MTypes
  <2>2. cfg.pin \in {"none", "right", "wrong"}
    BY <1>1, CfgTyped
  <2> QED
    BY <1>1, <2>1, <2>2 DEF Attempts, ToPin
<1>5. CASE libqmi_proxy_open
  BY <1>2, <1>5 DEF libqmi_proxy_open, ToPin
<1>6. CASE Sync
  BY <1>1, <1>2, <1>6 DEF Sync, ToPin, MTypes
<1>7. CASE QmiWwanGetClientID \/ GobiNetGetClientID
  BY <1>1, <1>2, <1>7, Obtains DEF Obtained
<1>8. CASE IdsAsked
  BY <1>1, <1>2, <1>8 DEF IdsAsked, ToPin, MTypes
<1>9. CASE SetDataFormat
  BY <1>1, <1>2, <1>9 DEF SetDataFormat, ToPin, MTypes
<1>10. CASE SetPreference
  BY <1>1, <1>2, <1>10 DEF SetPreference, ToPin, MTypes
<1>11. CASE requestGetSIMStatus \/ requestGetPINStatus
  BY <1>2, <1>11 DEF requestGetSIMStatus, requestGetPINStatus, AfterSim, ToPin
<1>12. CASE GetProfileList \/ GetProfileSettings \/ ProfileLeft \/ requestRegistrationState
  BY <1>2, <1>12, Zenon DEF GetProfileList, GetProfileSettings, ProfileLeft, requestRegistrationState, ToPin
<1>13. CASE CreateProfile
  BY <1>1, <1>2, <1>13, Created DEF CreateProfile, MTypes, ToPin
<1>14. CASE requestSetProfile
  BY <1>1, <1>2, <1>14, Modified DEF requestSetProfile, ProfileKnown, MTypes, ToPin
<1>15. CASE StartNwInterface \/ SessionOver \/ Killed \/ Unplugged
  BY <1>2, <1>15 DEF StartNwInterface, SessionOver, Killed, Unplugged, ToPin
<1>16. CASE Stop
  BY <1>1, <1>2, <1>16, ModemTyped DEF Stop, Released, MTypes, ToPin
<1>17. CASE HangUp \/ Restarted
  BY <1>1, <1>2, <1>17, ModemTyped DEF HangUp, Restarted, ToPin
<1> QED
  BY <1>3, <1>4, <1>5, <1>6, <1>7, <1>8, <1>9, <1>10, <1>11, <1>12, <1>13, <1>14, <1>15, <1>16,
     <1>17 DEF Next

----------------------------------------------------------------------------
(* The ids: what the modem holds is known, service by service.             *)
LEMMA IdsTyped ==
    ASSUME PTypes PROVE \A s \in Services : Ids[s] \in {0, 1} /\ (p.id[s] = 1 <=> Ids[s] = 1)
BY DEF Ids, PTypes, IdValues

LEMMA NoneHeld ==
    ASSUME PTypes', m'.held = NoIds, m'.stray = NoIds
    PROVE  \A s \in Services : Known(s)' /\ m'.held[s] <= m'.stray[s]
<1>1. \A s \in Services : Ids'[s] \in {0, 1}
  BY DEF Ids, PTypes, IdValues
<1> QED
  BY <1>1 DEF Known, NoIds

LEMMA ObtainedKnown == ASSUME IInv, Types', Obtained PROVE HeldKnown'
<1>1. /\ at \in 1..Len(Asked) /\ Len(Asked) \in Nat /\ Asked' = Asked
      /\ at \in Nat /\ at' = at + 1 /\ at + 1 # 1
  <2>1. Types /\ Len(Asked) \in Nat
    BY AskedOnce DEF IInv, Once
  <2>2. cfg' = cfg /\ at \in 1..Len(Asked) /\ at' = at + 1
    BY DEF Obtained
  <2>3. Asked' = Asked
    BY <2>2 DEF Asked
  <2> QED
    BY <2>1, <2>2, <2>3
<1>11. PICK s \in Services : s = Asked[at]
  BY <1>1, AskedOnce DEF IInv, Once
<1>12. \A i \in 1..Len(Asked) : i < at => Asked[i] # s
  BY <1>1, <1>11, AskedOnce DEF IInv, Once
<1>2. Types /\ PTypes /\ MTypes /\ PTypes' /\ MTypes'
  BY DEF IInv, Types
<1>3. PICK v \in IdValues, h \in {0, 1}, l \in {0, 1} :
        /\ p'.id = [p.id EXCEPT ![s] = v]
        /\ m'.held = [m.held EXCEPT ![s] = m.held[s] + h]
        /\ m'.stray = [m.stray EXCEPT ![s] = m.stray[s] + l]
        /\ h = 0 \/ l = 1 \/ v = 1
        /\ cfg.via = "gobi" => l = 0
  BY <1>11, Zenon DEF Obtained
<1>4. /\ p'.id[s] = v /\ m'.held[s] = m.held[s] + h /\ m'.stray[s] = m.stray[s] + l
      /\ m.held[s] \in Int /\ m.stray[s] \in Int
      /\ \A x \in Services : x # s => /\ p'.id[x] = p.id[x] /\ m'.held[x] = m.held[x]
                                      /\ m'.stray[x] = m.stray[x]
  BY <1>1, <1>2, <1>3 DEF PTypes, MTypes
<1>5. \A x \in Services : Ids'[x] = IF p'.id[x] = 1 THEN 1 ELSE 0
  BY DEF Ids
<1>6. \A x \in Services : Ids[x] = IF p.id[x] = 1 THEN 1 ELSE 0
  BY DEF Ids
<1>7. ASSUME conn PROVE m.held[s] <= m.stray[s]
  <2>1. Unasked(s)
    BY <1>1, <1>12 DEF Unasked
  <2> QED
    BY <1>7, <2>1 DEF IInv, HeldKnown, Obtained
<1>8. ASSUME conn PROVE Known(s)' /\ ~ Unasked(s)'
  <2>1. Known(s)'
    <3>1. Ids'[s] = IF v = 1 THEN 1 ELSE 0
      BY <1>4, <1>5
    <3>2. m.held[s] + h <= Ids'[s] + (m.stray[s] + l)
      BY <1>3, <1>4, <1>7, <1>8, <3>1
    <3> QED
      BY <1>4, <3>2 DEF Known
  <2>2. at \in 1..(at' - 1) /\ Asked'[at] = s
    BY <1>1, <1>11
  <2> QED
    BY <2>1, <2>2 DEF Unasked
<1>9. ASSUME conn, NEW x \in Services, x # s
      PROVE  Known(x)' /\ (Unasked(x)' => m'.held[x] <= m'.stray[x])
  <2>1. Known(x) /\ (Unasked(x) => m.held[x] <= m.stray[x])
    BY <1>9 DEF IInv, HeldKnown, Obtained
  <2>2. Ids'[x] = Ids[x]
    BY <1>4, <1>5, <1>6, <1>9
  <2>3. Unasked(x)' => Unasked(x)
    BY <1>1 DEF Unasked, Obtained
  <2> QED
    BY <2>1, <2>2, <2>3, <1>4, <1>9 DEF Known
<1>10. cfg.via = "gobi" => m'.stray = NoIds
  <2>1. ASSUME cfg.via = "gobi" PROVE m'.stray = m.stray
    <3>1. m.stray[s] + l = m.stray[s]
      BY <1>3, <1>4, <2>1
    <3> QED
      BY <1>1, <1>2, <1>3, <3>1 DEF MTypes
  <2> QED
    BY <2>1 DEF IInv, HeldKnown
<1>13. UNCHANGED <<pc, cfg, conn>> /\ pc = "ids" /\ at' # 1
  BY <1>1 DEF Obtained
<1>14. ASSUME conn
       PROVE  \A x \in Services : Known(x)' /\ (Unasked(x)' => m'.held[x] <= m'.stray[x])
  BY <1>14, <1>8, <1>9
<1> QED
  BY <1>13, <1>14, <1>10 DEF HeldKnown, Linked

LEMMA HeldKept == ASSUME IInv, Next, Types' PROVE HeldKnown'
<1> USE DEF IInv, Goto, OnlyRequest
<1>1. Types /\ PTypes /\ MTypes /\ PTypes' /\ MTypes'
  BY DEF Types
<1>2. CASE /\ cfg' = cfg /\ KeepsIds /\ (conn' => conn)
           /\ pc' \in Linked => pc \in Linked
           /\ pc' \notin {"ids", "sync", "proxyopen"}
           /\ pc' \in {"open", "over"} => pc \in {"open", "over"}
  BY <1>2 DEF HeldKnown, KeepsIds, Known, Ids
<1>3. CASE /\ cfg' = cfg /\ m'.held = NoIds /\ m'.stray = NoIds
           /\ pc' = "sync" => cfg.via = "device"
           /\ pc' = "proxyopen" => cfg.via = "libqmi"
  BY <1>1, <1>3, NoneHeld DEF HeldKnown
<1>4. CASE Opens
  <2>1. /\ cfg' = cfg /\ pc = "open"
        /\ \/ m'.held = m.held /\ m'.stray = m.stray
           \/ m'.held = NoIds /\ m'.stray = NoIds
        /\ pc' = CASE cfg.via = "device" -> "sync" [] cfg.via = "libqmi" -> "proxyopen"
                   [] OTHER -> "ids"
    BY <1>1, <1>4, ModemTyped DEF Opens, MTypes
  <2>2. CASE cfg.via = "device"
    BY <2>1, <2>2 DEF HeldKnown, Linked
  <2>3. CASE cfg.via # "device"
    BY <1>3, <2>1, <2>3 DEF HeldKnown
  <2> QED
    BY <2>2, <2>3
<1>5. CASE libqmi_proxy_open
  BY <1>3, <1>5 DEF libqmi_proxy_open, HeldKnown
<1>6. CASE Sync
  <2>1. PICK o :
          /\ m' = IF Heard(o) THEN [m EXCEPT !.held = NoIds, !.stray = NoIds, !.set = {}] ELSE m
          /\ \/ pc' = "ids" /\ (o = "done" \/ ~ conn)
             \/ pc' = "over" /\ o # "done"
    BY <1>6, Zenon DEF Sync
  <2>2. UNCHANGED <<cfg, conn>> /\ pc = "sync"
    BY <1>6 DEF Sync
  <2>3. CASE Heard(o)
    BY <1>1, <1>3, <2>1, <2>2, <2>3 DEF MTypes
  <2>4. CASE ~ Heard(o)
    BY <2>1, <2>2, <2>4 DEF Heard, HeldKnown, Linked
  <2> QED
    BY <2>3, <2>4
<1>7. CASE QmiWwanGetClientID \/ GobiNetGetClientID
  BY <1>1, <1>7, Obtains, ObtainedKnown
<1>8. CASE IdsAsked
  <2>1. CASE cfg.via = "gobi" /\ p.id["wds"] = 0
    BY <1>1, <1>3, <1>8, <2>1 DEF IdsAsked, MTypes, HeldKnown
  <2>2. CASE ~ (cfg.via = "gobi" /\ p.id["wds"] = 0)
    <3>1. UNCHANGED <<cfg, conn, p, m>> /\ pc = "ids" /\ pc' = "format"
      BY <1>8, <2>2 DEF IdsAsked
    <3>2. Ids' = Ids
      BY <3>1 DEF Ids
    <3> QED
      BY <3>1, <3>2 DEF HeldKnown, Known, Linked
  <2> QED
    BY <2>1, <2>2
<1>9. CASE SetDataFormat
  BY <1>1, <1>2, <1>9, Zenon DEF SetDataFormat, LinkProtocol, KeepsIds, PTypes, MTypes, Linked
<1>10. CASE SetPreference
  BY <1>1, <1>2, <1>10 DEF SetPreference, KeepsIds, MTypes, Linked
<1>11. CASE requestGetSIMStatus \/ requestGetPINStatus
  BY <1>1, <1>2, <1>11 DEF requestGetSIMStatus, requestGetPINStatus, AfterSim, KeepsIds, PTypes,
                           Linked
<1>12. CASE requestEnterSimPin
  BY <1>1, <1>2, <1>12 DEF requestEnterSimPin, Verified, KeepsIds, MTypes, Linked
<1>13. CASE GetProfileList \/ GetProfileSettings
  BY <1>1, <1>2, <1>13, Zenon DEF GetProfileList, GetProfileSettings, KeepsIds, PTypes, Linked
<1>14. CASE CreateProfile
  BY <1>1, <1>2, <1>14, Created, Zenon DEF CreateProfile, KeepsIds, MTypes, Linked
<1>15. CASE requestSetProfile
  BY <1>1, <1>2, <1>15, Modified, Zenon DEF requestSetProfile, ProfileKnown, KeepsIds, MTypes, Linked
<1>16. CASE requestRegistrationState
  BY <1>1, <1>2, <1>16 DEF requestRegistrationState, KeepsIds, PTypes, Linked
<1>17. CASE ProfileLeft \/ StartNwInterface \/ SessionOver \/ Killed
  BY <1>2, <1>17 DEF ProfileLeft, StartNwInterface, SessionOver, Killed, KeepsIds, Linked
<1>18. CASE Stop
  BY <1>1, <1>18, ModemTyped DEF Stop, Released, MTypes, HeldKnown, Linked
<1>19. CASE HangUp \/ Restarted
  <2>1. cfg' = cfg /\ m' = Closed(m) /\ pc' \in {"over", "open"}
    BY <1>19 DEF HangUp, Restarted
  <2> QED
    BY <1>1, <2>1, ModemTyped DEF HeldKnown, Linked
<1>20. CASE Unplugged
  BY <1>20 DEF Unplugged, HeldKnown
<1> QED
  BY <1>4, <1>5, <1>6, <1>7, <1>8, <1>9, <1>10, <1>11, <1>12, <1>13, <1>14, <1>15, <1>16, <1>17,
     <1>18, <1>19, <1>20 DEF Next

----------------------------------------------------------------------------
(* The link: what the interface is set up for is what the modem uses.      *)
LEMMA IdFailedKept == ASSUME IInv, Next, Types' PROVE IdOrFailed'
<1> USE DEF IInv, Goto, OnlyRequest
<1>1. Types /\ PTypes /\ MTypes /\ Len(Asked) \in Nat
  BY AskedOnce DEF Types, Once
<1>2. CASE pc' \notin {"ids", "format"}
  BY <1>2 DEF IdOrFailed
<1>3. CASE pc' = "ids" /\ at' = 1
  BY <1>3 DEF IdOrFailed
<1>4. CASE QmiWwanGetClientID \/ GobiNetGetClientID
  <2>1. Obtained
    BY <1>1, <1>4, Obtains
  <2>2. Asked' = Asked /\ at \in 1..Len(Asked) /\ at' = at + 1 /\ pc = "ids" /\ pc' = "ids"
    BY <2>1 DEF Obtained, Asked
  <2>3. PICK v \in IdValues :
          p'.id = [p.id EXCEPT ![Asked[at]] = v] /\ (v = 1 \/ Asked[at] \in failed')
    BY <2>1, Zenon DEF Obtained
  <2>4. /\ \A i \in 1..Len(Asked) : Asked[i] \in Services
        /\ \A i \in 1..Len(Asked) : i # at => Asked[i] # Asked[at]
    BY <1>1, <2>2, AskedOnce DEF Once
  <2>5. ASSUME NEW i \in 1..at PROVE p'.id[Asked[i]] = 1 \/ Asked[i] \in failed'
    <3>1. i \in 1..Len(Asked) /\ Asked[i] \in Services
      BY <1>1, <2>2, <2>4
    <3>2. CASE i = at
      BY <1>1, <2>3, <3>1, <3>2 DEF PTypes
    <3>3. CASE i # at
      <4>1. p.id[Asked[i]] = 1 \/ Asked[i] \in failed
        BY <1>1, <2>2, <3>1, <3>3 DEF IdOrFailed
      <4>2. p'.id[Asked[i]] = p.id[Asked[i]] /\ failed \subseteq failed'
        BY <1>1, <2>1, <2>3, <2>4, <3>1, <3>3 DEF PTypes, Obtained
      <4> QED
        BY <4>1, <4>2
    <3> QED
      BY <3>2, <3>3
  <2>6. at' - 1 = at
    BY <1>1, <2>2
  <2> QED
    BY <2>2, <2>5, <2>6 DEF IdOrFailed
<1>5. CASE IdsAsked
  <2>1. CASE pc' = "format"
    <3>1. UNCHANGED <<cfg, p, failed>> /\ pc = "ids" /\ at > Len(Asked)
      BY <1>5, <2>1, Zenon DEF IdsAsked
    <3>2. Asked' = Asked
      BY <3>1 DEF Asked
    <3> QED
      BY <1>1, <2>1, <3>1, <3>2 DEF IdOrFailed, Types
  <2> QED
    BY <1>2, <1>5, <2>1 DEF IdsAsked
<1>6. CASE Unplugged
  <2>1. UNCHANGED <<cfg, pc, at, p, failed>>
    BY <1>6 DEF Unplugged
  <2>2. Asked' = Asked
    BY <2>1 DEF Asked
  <2> QED
    BY <2>1, <2>2 DEF IdOrFailed
<1>7. CASE Opens \/ libqmi_proxy_open \/ Sync
  BY <1>2, <1>3, <1>7 DEF Opens, libqmi_proxy_open, Sync
<1>8. CASE SetDataFormat \/ SetPreference \/ requestGetSIMStatus \/ requestGetPINStatus
  BY <1>2, <1>8 DEF SetDataFormat, SetPreference, requestGetSIMStatus, requestGetPINStatus, AfterSim
<1>9. CASE requestEnterSimPin \/ GetProfileList \/ GetProfileSettings \/ CreateProfile
  BY <1>2, <1>9, Zenon DEF requestEnterSimPin, GetProfileList, GetProfileSettings, CreateProfile
<1>10. CASE requestSetProfile \/ ProfileLeft \/ requestRegistrationState \/ StartNwInterface
  BY <1>2, <1>10, Zenon DEF requestSetProfile, ProfileLeft, requestRegistrationState, StartNwInterface
<1>11. CASE Stop \/ HangUp \/ SessionOver \/ Killed \/ Restarted
  BY <1>2, <1>11 DEF Stop, HangUp, SessionOver, Killed, Restarted
<1> QED
  BY <1>4, <1>5, <1>6, <1>7, <1>8, <1>9, <1>10, <1>11 DEF Next

LEMMA LinkKept == ASSUME IInv, Next PROVE LinkKnown'
<1> USE DEF IInv, Goto, OnlyRequest, Opened
<1>1. Types /\ PTypes /\ MTypes
  BY DEF Types
<1>2. CASE /\ cfg' = cfg /\ KeepsLink /\ failed \subseteq failed'
           /\ pc' \in Opened => pc \in Opened
           /\ pc' \in Prepared => pc \in Prepared
  BY <1>2 DEF LinkKnown, KeepsLink
<1>3. CASE pc' \notin Opened
  BY <1>3 DEF LinkKnown, Prepared
<1>4. CASE Opens
  <2>1. /\ cfg' = cfg /\ pc' \in {"sync", "proxyopen", "ids"}
        /\ cfg.qmap /\ cfg.via # "device" => m'.format = "raw"
    BY <1>1, <1>4, ModemTyped DEF Opens, MTypes
  <2> QED
    BY <2>1 DEF LinkKnown, Prepared, Linked
<1>5. CASE libqmi_proxy_open
  <2>1. /\ cfg' = cfg /\ pc = "proxyopen" /\ pc' \in {"ids", "over"} /\ m' = m
    BY <1>5 DEF libqmi_proxy_open
  <2> QED
    BY <2>1 DEF LinkKnown, Prepared, Linked
<1>6. CASE Sync
  <2>1. cfg' = cfg /\ cfg.via = "device" /\ pc' \in {"ids", "over"}
    BY <1>6 DEF Sync, HeldKnown
  <2> QED
    BY <2>1 DEF LinkKnown, Prepared, Linked
<1>7. CASE QmiWwanGetClientID \/ GobiNetGetClientID
  BY <1>1, <1>2, <1>7, Obtains DEF Obtained, KeepsLink
<1>8. CASE IdsAsked
  <2>1. /\ UNCHANGED <<cfg, failed>> /\ pc = "ids" /\ pc' \in {"format", "over"}
        /\ m'.format = m.format
    BY <1>1, <1>8 DEF IdsAsked, MTypes
  <2> QED
    BY <2>1 DEF LinkKnown, Prepared, Linked
<1>9. CASE SetDataFormat
  <2> DEFINE skip == cfg.qmap /\ p.id["wda"] = 0
  <2>1. cfg' = cfg /\ pc = "format" /\ pc' \in {"families", "sim"}
    BY <1>9 DEF SetDataFormat
  <2>2. cfg.qmap /\ cfg.via # "device" => m'.format = "raw"
    <3>1. m' = m \/ m' = [m EXCEPT !.format = Chosen]
      BY <1>9, Zenon DEF SetDataFormat
    <3>2. cfg.qmap => Chosen = "raw"
      BY DEF Chosen, WdaSetDataFormat
    <3>3. m'.format \in {m.format, Chosen}
      BY <1>1, <3>1 DEF MTypes
    <3> QED
      BY <2>1, <3>2, <3>3 DEF LinkKnown, Linked
  <2>3. ASSUME failed' \cap {"wda", "format"} = {} PROVE p'.rawIP = (m'.format = "raw")
    <3>1. CASE skip
      <4>1. m' = m /\ failed' = failed /\ p' = [p EXCEPT !.rawIP = TRUE, !.s_9x07 = TRUE]
        BY <1>9, <3>1 DEF SetDataFormat
      <4>2. p'.rawIP
        BY <1>1, <4>1 DEF PTypes
      <4>3. cfg.via = "gobi" /\ cfg.qmap
        <5>1. \A i \in 1..Len(Asked) : p.id[Asked[i]] = 1 \/ Asked[i] \in failed
          BY <2>1 DEF IdOrFailed
        <5>2. ~ Among("wda", Asked)
          BY <2>3, <3>1, <4>1, <5>1 DEF Among
        <5> QED
          BY <1>1, <5>2, AskedOnce
      <4>4. m.format = "raw"
        BY <2>1, <4>3 DEF LinkKnown, Linked
      <4> QED
        BY <4>1, <4>2, <4>4, Zenon
    <3>2. CASE ~ skip
      <4>1. PICK o \in Outcomes :
              /\ Request("wda", "format", o)
              /\ m' = IF Heard(o) THEN [m EXCEPT !.format = Chosen] ELSE m
              /\ o = "done" => p' = LinkProtocol(p)
        BY <1>9, <3>2, Zenon DEF SetDataFormat
      <4>2. o = "done"
        BY <2>3, <4>1 DEF Request
      <4>3. m'.format = Chosen
        BY <1>1, <4>1, <4>2 DEF MTypes, Heard
      <4>4. p'.rawIP = (Chosen = "raw")
        BY <1>1, <4>1, <4>2, Zenon DEF PTypes, LinkProtocol
      <4> QED
        BY <4>3, <4>4
    <3> QED
      BY <3>1, <3>2
  <2> QED
    BY <2>1, <2>2, <2>3 DEF LinkKnown
<1>10. CASE SetPreference
  BY <1>1, <1>2, <1>10 DEF SetPreference, Request, KeepsLink, MTypes, Linked, Prepared
<1>11. CASE requestGetSIMStatus \/ requestGetPINStatus
  BY <1>1, <1>2, <1>11 DEF requestGetSIMStatus, requestGetPINStatus, AfterSim, Request, KeepsLink,
                           PTypes, Linked, Prepared
<1>12. CASE requestEnterSimPin
  BY <1>1, <1>2, <1>12 DEF requestEnterSimPin, VerifyPinReq, Request, Verified, KeepsLink, MTypes,
                           Linked, Prepared
<1>13. CASE GetProfileList \/ GetProfileSettings
  BY <1>1, <1>2, <1>13, Zenon DEF GetProfileList, GetProfileSettings, Request, KeepsLink, PTypes, Linked,
                           Prepared
<1>14. CASE CreateProfile
  BY <1>1, <1>2, <1>14, Created DEF CreateProfile, Request, KeepsLink, MTypes, Linked, Prepared
<1>15. CASE requestSetProfile
  BY <1>1, <1>2, <1>15, Modified, Zenon DEF requestSetProfile, ProfileKnown, Request, KeepsLink, MTypes,
                                     Linked, Prepared
<1>16. CASE requestRegistrationState
  BY <1>1, <1>2, <1>16 DEF requestRegistrationState, Request, KeepsLink, PTypes, Linked, Prepared
<1>17. CASE ProfileLeft \/ StartNwInterface
  BY <1>2, <1>17 DEF ProfileLeft, StartNwInterface, Request, KeepsLink, Linked, Prepared
<1>18. CASE Stop \/ HangUp \/ SessionOver \/ Killed \/ Restarted
  BY <1>3, <1>18 DEF Stop, HangUp, SessionOver, Killed, Restarted, Linked
<1>19. CASE Unplugged
  BY <1>2, <1>19 DEF Unplugged, KeepsLink
<1> QED
  BY <1>4, <1>5, <1>6, <1>7, <1>8, <1>9, <1>10, <1>11, <1>12, <1>13, <1>14, <1>15, <1>16, <1>17,
     <1>18, <1>19 DEF Next

----------------------------------------------------------------------------
(* The preferences of the WDS clients.                                     *)
LEMMA PreferencesTyped == Preferences \in Seq(Wanted) /\ Len(Preferences) >= 1
<1> DEFINE bind4 == IF cfg.qmap THEN <<"bind4">> ELSE <<>>
           bind6 == IF cfg.qmap THEN <<"bind6">> ELSE <<>>
           six == IF cfg.v6 THEN bind6 \o <<"pref6">> ELSE <<>>
<1>1. /\ <<>> \in Seq(Wanted) /\ <<"bind4">> \in Seq(Wanted) /\ <<"bind6">> \in Seq(Wanted)
      /\ <<"pref4">> \in Seq(Wanted) /\ <<"pref6">> \in Seq(Wanted)
      /\ <<"auto">> \in Seq(Wanted) /\ Len(<<"auto">>) = 1
  BY DEF Wanted, Checked
<1>2. \A a, b \in Seq(Wanted) : a \o b \in Seq(Wanted) /\ Len(a \o b) = Len(a) + Len(b)
  OBVIOUS
<1>3. bind4 \in Seq(Wanted) /\ bind6 \in Seq(Wanted)
  BY <1>1
<1> HIDE DEF bind4, bind6
<1>4. six \in Seq(Wanted)
  BY <1>1, <1>2, <1>3
<1> HIDE DEF six
<1>5. (bind4 \o <<"pref4">>) \o six \in Seq(Wanted)
  BY <1>1, <1>2, <1>3, <1>4
<1>6. /\ ((bind4 \o <<"pref4">>) \o six) \o <<"auto">> \in Seq(Wanted)
      /\ Len(((bind4 \o <<"pref4">>) \o six) \o <<"auto">>) >= 1
  <2> DEFINE front == (bind4 \o <<"pref4">>) \o six
  <2>1. front \in Seq(Wanted) /\ Len(front) \in Nat
    BY <1>5
  <2> HIDE DEF front
  <2>2. front \o <<"auto">> \in Seq(Wanted) /\ Len(front \o <<"auto">>) = Len(front) + 1
    BY <1>1, <1>2, <2>1
  <2> QED
    BY <2>1, <2>2 DEF front
<1>7. Preferences = ((bind4 \o <<"pref4">>) \o six) \o <<"auto">>
  BY Zenon DEF Preferences, bind4, bind6, six
<1> QED
  BY <1>6, <1>7

LEMMA PrefsKept == ASSUME IInv, Next PROVE PrefsKnown'
<1> USE DEF IInv, Goto, OnlyRequest
<1>1. Types /\ PTypes /\ MTypes /\ Len(Preferences) \in Nat /\ Len(Preferences) >= 1
  BY PreferencesTyped DEF Types
<1>2. cfg' = cfg => Preferences' = Preferences
  BY DEF Preferences
<1>3. CASE /\ cfg' = cfg /\ m'.set = m.set /\ failed \subseteq failed'
           /\ pc \in Prepared \ {"families"} /\ pc' # "families"
  <2>1. AllSet => AllSet'
    BY <1>2, <1>3 DEF AllSet
  <2> QED
    BY <1>3, <2>1 DEF PrefsKnown
<1>4. CASE pc' \notin Prepared
  BY <1>4 DEF PrefsKnown, Prepared, Linked
<1>5. CASE SetDataFormat
  <2>1. cfg' = cfg /\ \/ pc' = "families" /\ at' = 1
                      \/ pc' = "sim" /\ "format" \in failed'
    BY <1>5 DEF SetDataFormat, Request
  <2> QED
    BY <1>1, <1>2, <2>1 DEF PrefsKnown
<1>6. CASE SetPreference
  <2>1. PICK o \in Outcomes :
          /\ failed' = IF o = "done" THEN failed ELSE failed \cup {Preferences[at]}
          /\ m' = IF Heard(o) THEN [m EXCEPT !.set = @ \cup {Preferences[at]}] ELSE m
          /\ IF at = Len(Preferences) \/ (o # "done" /\ Preferences[at] \in Checked)
             THEN pc' = "sim" ELSE pc' = "families" /\ at' = at + 1
    BY <1>6, Zenon DEF SetPreference, Request
  <2>2. /\ cfg' = cfg /\ at \in 1..Len(Preferences) /\ pc = "families"
        /\ \A i \in 1..(at - 1) : Preferences[i] \in m.set \cup failed
    BY <1>1, <1>6 DEF SetPreference, PrefsKnown, Types
  <2>3. m.set \subseteq m'.set /\ failed \subseteq failed' /\ Preferences[at] \in m'.set \cup failed'
    BY <1>1, <2>1 DEF MTypes, Heard
  <2>4. \A i \in 1..at : Preferences'[i] \in m'.set \cup failed'
    BY <1>1, <1>2, <2>2, <2>3
  <2>5. CASE pc' = "families"
    <3>1. at' = at + 1 /\ at # Len(Preferences)
      BY <2>1, <2>5
    <3>2. at' - 1 = at /\ at' <= Len(Preferences)
      BY <1>1, <2>2, <3>1
    <3> QED
      BY <1>2, <2>2, <2>4, <2>5, <3>2 DEF PrefsKnown
  <2>6. CASE pc' = "sim"
    <3>1. CASE at = Len(Preferences)
      <4>1. AllSet' \/ \E i \in 1..Len(Preferences) : Preferences[i] \in failed'
        BY <1>2, <2>2, <2>4, <3>1 DEF AllSet
      <4>2. \A i \in 1..Len(Preferences) : Preferences[i] \in Wanted
        BY PreferencesTyped
      <4> QED
        BY <2>6, <4>1, <4>2 DEF PrefsKnown
    <3>2. CASE at # Len(Preferences)
      BY <2>1, <2>6, <3>2 DEF PrefsKnown, Wanted
    <3> QED
      BY <3>1, <3>2
  <2> QED
    BY <2>1, <2>5, <2>6
<1>7. CASE requestGetSIMStatus \/ requestGetPINStatus
  BY <1>3, <1>7 DEF requestGetSIMStatus, requestGetPINStatus, AfterSim, Request, Linked, Prepared
<1>8. CASE requestEnterSimPin
  BY <1>1, <1>3, <1>8 DEF requestEnterSimPin, VerifyPinReq, Request, Verified, MTypes, Linked, Prepared
<1>9. CASE GetProfileList \/ GetProfileSettings
  BY <1>3, <1>9, Zenon DEF GetProfileList, GetProfileSettings, Request, Linked, Prepared
<1>10. CASE CreateProfile
  BY <1>1, <1>3, <1>10, Created DEF CreateProfile, Request, MTypes, Linked, Prepared
<1>11. CASE requestSetProfile
  BY <1>1, <1>3, <1>11, Modified DEF requestSetProfile, ProfileKnown, Request, MTypes, Linked, Prepared
<1>12. CASE requestRegistrationState \/ ProfileLeft \/ StartNwInterface
  BY <1>3, <1>12, Zenon DEF requestRegistrationState, ProfileLeft, StartNwInterface, Request, Linked, Prepared
<1>13. CASE Opens \/ libqmi_proxy_open \/ Sync
  BY <1>4, <1>13 DEF Opens, libqmi_proxy_open, Sync, Linked, Prepared
<1>14. CASE QmiWwanGetClientID \/ GobiNetGetClientID \/ IdsAsked
  BY <1>4, <1>14, Zenon DEF QmiWwanGetClientID, GobiNetGetClientID, IdsAsked, Linked, Prepared
<1>15. CASE Stop \/ HangUp \/ SessionOver \/ Killed \/ Restarted
  BY <1>4, <1>15 DEF Stop, HangUp, SessionOver, Killed, Restarted, Linked, Prepared
<1>16. CASE Unplugged
  <2>1. UNCHANGED <<cfg, pc, at, m, failed>>
    BY <1>16 DEF Unplugged
  <2> QED
    BY <1>2, <2>1 DEF PrefsKnown, AllSet
<1> QED
  BY <1>5, <1>6, <1>7, <1>8, <1>9, <1>10, <1>11, <1>12, <1>13, <1>14, <1>15, <1>16 DEF Next

----------------------------------------------------------------------------
(* The profile: the one that was looked for, unless looking for it failed. *)
LEMMA ProfileKept == ASSUME IInv, Next, Types' PROVE ProfileKnown'
<1> USE DEF IInv, Goto, OnlyRequest
<1>1. Types /\ PTypes /\ MTypes /\ p.index \in Nat /\ Len(m.profiles) \in Nat
      /\ p.index \in 1..Len(m.profiles)
  BY DEF Types, PTypes, MTypes, ProfileKnown
<1>2. CASE /\ UNCHANGED <<cfg, used>> /\ KeepsProfile /\ failed \subseteq failed'
           /\ pc' \notin {"get", "set"}
           /\ pc' \in {"register", "loop"} => pc \in {"register", "loop"}
  BY <1>2 DEF ProfileKnown, ProfileOfPdp, ThisOne, KeepsProfile
<1>3. CASE /\ UNCHANGED <<cfg, used>> /\ m'.profiles = m.profiles /\ p'.index \in {p.index, 1}
           /\ pc' \notin {"get", "set", "register", "loop"}
  BY <1>1, <1>3 DEF ProfileKnown, ProfileOfPdp
<1>4. CASE GetProfileList
  <2>1. /\ UNCHANGED <<cfg, used, m>> /\ p'.index = p.index /\ pc' \in {"get", "set", "crash"}
        /\ pc' = "get" => at' = 1
        /\ pc' = "set" => "list" \in failed'
    BY <1>1, <1>4, Zenon DEF GetProfileList, Request, PTypes
  <2> QED
    BY <1>1, <2>1 DEF ProfileKnown, ProfileOfPdp, Looking
<1>5. CASE GetProfileSettings
  <2>1. PICK o \in Outcomes :
          LET q == m.profiles[at]
              found == o = "done" /\ q.pdp = cfg.pdp
          IN  /\ failed' = IF o = "done" THEN failed ELSE failed \cup {"get"}
              /\ p' = [p EXCEPT !.index = at, !.old = IF found THEN q.apn ELSE ""]
              /\ CASE found \/ o # "done" -> Goto("set", 1)
                   [] ~ found /\ o = "done" /\ at < Len(m.profiles) -> Goto("get", at + 1)
                   [] OTHER -> Goto("create", 1)
    BY <1>5, Zenon DEF GetProfileSettings, Request
  <2>2. UNCHANGED <<cfg, used, m>> /\ at \in 1..Len(m.profiles)
    BY <1>1, <1>5 DEF GetProfileSettings, ProfileKnown, Types
  <2>3. p'.index = at
    BY <1>1, <2>1 DEF PTypes
  <2>4. CASE pc' = "set"
    <3>1. CASE o = "done"
      <4>1. m.profiles[at].pdp = cfg.pdp
        BY <2>1, <2>4, <3>1
      <4>2. p'.old = m.profiles[at].apn
        BY <1>1, <2>1, <3>1, <4>1 DEF PTypes
      <4> QED
        BY <2>2, <2>3, <2>4, <4>1, <4>2 DEF ProfileKnown, ProfileOfPdp, ThisOne
    <3>2. CASE o # "done"
      BY <2>1, <2>2, <2>3, <2>4, <3>2, Zenon DEF ProfileKnown, ProfileOfPdp, Looking
    <3> QED
      BY <3>1, <3>2
  <2>5. CASE pc' = "get"
    <3>1. at < Len(m.profiles) /\ at' = at + 1
      BY <2>1, <2>5
    <3> QED
      BY <1>1, <2>2, <2>3, <2>5, <3>1 DEF ProfileKnown, ProfileOfPdp
  <2>6. CASE pc' = "create"
    BY <2>2, <2>3, <2>6 DEF ProfileKnown, ProfileOfPdp
  <2> QED
    BY <2>1, <2>4, <2>5, <2>6
<1>6. CASE CreateProfile
  <2>1. /\ UNCHANGED <<cfg, used, p>> /\ (m' = m \/ m' = WdsCreateProfile(m))
        /\ pc' \in {"list", "set"} /\ (pc' = "set" => "create" \in failed')
    BY <1>6 DEF CreateProfile, Request
  <2>2. Len(m'.profiles) >= Len(m.profiles) /\ Len(m'.profiles) \in Nat
    BY <1>1, <2>1, Created
  <2> QED
    BY <1>1, <2>1, <2>2 DEF ProfileKnown, ProfileOfPdp, Looking
<1>7. CASE requestSetProfile
  <2>1. PICK o \in Outcomes :
          /\ failed' = IF o = "done" THEN failed ELSE failed \cup {"set"}
          /\ m' = IF Heard(o) THEN WdsModifyProfileSettings(m) ELSE m
    BY <1>7, Zenon DEF requestSetProfile, Request
  <2>2. UNCHANGED <<cfg, p>> /\ pc = "set" /\ pc' = "register" /\ used' = used \cup {Named}
    BY <1>7 DEF requestSetProfile
  <2>3. Len(m'.profiles) = Len(m.profiles)
    BY <1>1, <2>1, Modified
  <2>4. \/ failed' \cap (Looking \cup {"set"}) # {}
        \/ m'.profiles[p.index].pdp = cfg.pdp /\ m'.profiles[p.index].apn = "ours"
    <3>1. CASE o = "done"
      BY <1>1, <2>1, <2>2, <3>1, Modified DEF Heard, ProfileKnown, ThisOne
    <3>2. CASE o # "done"
      BY <2>1, <3>2
    <3> QED
      BY <3>1, <3>2
  <2>5. Named.asked \/ Named.failed
    BY <2>4, Zenon DEF Named, Looking
  <2>6. ProfileOfPdp'
    BY <2>2, <2>5 DEF ProfileKnown, ProfileOfPdp
  <2> QED
    BY <1>1, <2>2, <2>3, <2>4, <2>6 DEF ProfileKnown, ThisOne
<1>8. CASE ProfileLeft
  <2>1. /\ UNCHANGED <<cfg, p, m, used, failed>> /\ pc = "set" /\ pc' = "register"
        /\ cfg.apn => p.old = "ours"
    BY <1>8 DEF ProfileLeft
  <2> QED
    BY <2>1 DEF ProfileKnown, ProfileOfPdp, ThisOne
<1>9. CASE requestRegistrationState
  BY <1>1, <1>2, <1>9 DEF requestRegistrationState, Request, KeepsProfile, PTypes
<1>10. CASE StartNwInterface
  <2>1. /\ UNCHANGED <<cfg, p, m, pc>> /\ pc = "loop" /\ failed \subseteq failed'
        /\ used' \in {used, used \cup {Named}}
    BY <1>10 DEF StartNwInterface, Request
  <2>2. Named.asked \/ Named.failed
    BY <2>1, Zenon DEF Named, ProfileKnown, ThisOne, Looking
  <2>3. ProfileOfPdp'
    BY <2>1, <2>2 DEF ProfileKnown, ProfileOfPdp
  <2> QED
    BY <2>1, <2>3 DEF ProfileKnown, ThisOne
<1>11. CASE Opens
  BY <1>1, <1>3, <1>11, ModemTyped DEF Opens, PTypes, MTypes
<1>12. CASE libqmi_proxy_open
  BY <1>3, <1>12 DEF libqmi_proxy_open
<1>13. CASE Sync
  BY <1>1, <1>3, <1>13 DEF Sync, MTypes
<1>14. CASE QmiWwanGetClientID \/ GobiNetGetClientID
  BY <1>1, <1>3, <1>14, Obtains DEF Obtained
<1>15. CASE IdsAsked
  BY <1>1, <1>3, <1>15 DEF IdsAsked, PTypes, MTypes
<1>16. CASE SetDataFormat
  BY <1>1, <1>3, <1>16, Zenon DEF SetDataFormat, LinkProtocol, PTypes, MTypes
<1>17. CASE SetPreference
  BY <1>1, <1>3, <1>17 DEF SetPreference, MTypes
<1>18. CASE requestGetSIMStatus \/ requestGetPINStatus
  BY <1>1, <1>3, <1>18 DEF requestGetSIMStatus, requestGetPINStatus, AfterSim, PTypes
<1>19. CASE requestEnterSimPin
  BY <1>1, <1>3, <1>19 DEF requestEnterSimPin, Verified, MTypes
<1>20. CASE Stop
  BY <1>1, <1>3, <1>20, ModemTyped DEF Stop, Released, PTypes, MTypes
<1>21. CASE HangUp
  BY <1>1, <1>3, <1>21, ModemTyped DEF HangUp, PTypes
<1>22. CASE Restarted
  BY <1>1, <1>3, <1>22, ModemTyped, Zenon DEF Restarted, NewProcess
<1>23. CASE SessionOver \/ Killed
  BY <1>3, <1>23 DEF SessionOver, Killed
<1>24. CASE Unplugged
  <2>1. UNCHANGED <<cfg, pc, at, p, m, used, failed>>
    BY <1>24 DEF Unplugged
  <2> QED
    BY <2>1 DEF ProfileKnown, ProfileOfPdp, ThisOne
<1> QED
  BY <1>4, <1>5, <1>6, <1>7, <1>8, <1>9, <1>10, <1>11, <1>12, <1>13, <1>14, <1>15, <1>16, <1>17,
     <1>18, <1>19, <1>20, <1>21, <1>22, <1>23, <1>24 DEF Next

----------------------------------------------------------------------------
LEMMA Kept == ASSUME IInv, [NextOne]_<<which, vars, reg, seen>> PROVE IInv'
<1>1. CASE Next
  BY <1>1, TypesKept, AttemptsKept, HeldKept, IdFailedKept, LinkKept, PrefsKept, ProfileKept DEF IInv
<1>2. CASE UNCHANGED vars
  <2>1. UNCHANGED <<cfg, pc, at, p, failed, conn, m, used, sessions>>
    BY <1>2 DEF vars
  <2>2. Asked' = Asked /\ Preferences' = Preferences /\ Ids' = Ids
    BY <2>1 DEF Asked, Preferences, Ids
  <2>3. Types' /\ Attempts' /\ LinkKnown' /\ ProfileKnown'
    BY <2>1, Zenon DEF IInv, Types, PTypes, MTypes, Attempts, LinkKnown, ProfileKnown, ThisOne,
                       ProfileOfPdp
  <2>4. HeldKnown' /\ IdOrFailed' /\ PrefsKnown'
    BY <2>1, <2>2, Zenon DEF IInv, HeldKnown, Known, Unasked, IdOrFailed, PrefsKnown, AllSet
  <2> QED
    BY <2>3, <2>4 DEF IInv
<1> QED
  BY <1>1, <1>2 DEF NextOne

LEMMA Invariant == SpecOne => []IInv
<1>1. InitOne => IInv
  BY Begins DEF InitOne
<1> QED
  BY <1>1, Kept, PTL DEF SpecOne

(* quectel-CM asks for its ids after the modem has forgotten those of      *)
(* earlier sessions and processes (QMICTL_SYNC_REQ, or the driver and the  *)
(* proxies that take them back), however those ended: a modem that stays   *)
(* holds no id that the process does not know of, but those whose answer   *)
(* was lost.                                                               *)
THEOREM NoForgottenIds == SpecOne => []IdsKnown
<1>1. ASSUME IInv PROVE IdsKnown
  <2>1. ASSUME pc = "ids", conn, NEW i \in at..Len(Asked)
        PROVE  m.held[Asked[i]] <= m.stray[Asked[i]]
    <3>1. /\ at \in Nat /\ at >= 1 /\ Len(Asked) \in Nat /\ i \in 1..Len(Asked)
          /\ Asked[i] \in Services
          /\ \A k \in 1..Len(Asked) : Asked[k] = Asked[i] => k = i
      BY <1>1, <2>1, AskedOnce DEF IInv, Types, Once
    <3>2. Unasked(Asked[i])
      BY <2>1, <3>1 DEF Unasked
    <3> QED
      BY <1>1, <2>1, <3>1, <3>2 DEF IInv, HeldKnown
  <2>2. pc \in {"format", "families", "sim", "list", "loop"} /\ conn =>
          \A s \in Services : m.held[s] <= Ids[s] + m.stray[s]
    BY <1>1 DEF IInv, HeldKnown, Known, Linked
  <2> QED
    BY <2>1, <2>2 DEF IdsKnown
<1> QED
  BY Invariant, <1>1, PTL

(* When the loop begins, and as long as the modem stays, the interface is  *)
(* set up for the link protocol that the modem uses and every WDS client   *)
(* has its preferences, in every session; unless one of the requests that  *)
(* requestSetEthMode makes, or that gets their ids, failed.                *)
THEOREM LinkReady == SpecOne => []LinkPrepared
<1>1. ASSUME IInv PROVE LinkPrepared
  <2>1. ASSUME pc = "loop", failed \cap {"wda", "format"} = {} PROVE p.rawIP = (m.format = "raw")
    BY <1>1, <2>1 DEF IInv, LinkKnown, Prepared, Linked
  <2>2. ASSUME pc = "loop", failed \cap (Wanted \cup {"format"}) = {}
        PROVE  {Preferences[i] : i \in 1..Len(Preferences)} \subseteq m.set
    BY <1>1, <2>2 DEF IInv, PrefsKnown, AllSet, Prepared, Linked
  <2> QED
    BY <2>1, <2>2, Zenon DEF LinkPrepared, Wanted
<1> QED
  BY Invariant, <1>1, PTL

(* However often quectel-CM is started again, a session costs the SIM one  *)
(* attempt at its PIN at most, and none if the PIN is right                *)
(* (requestEnterSimPin).                                                   *)
THEOREM OneAttemptASession == SpecOne => []PinOnce
<1>1. ASSUME IInv PROVE PinOnce
  <2>1. m.tries \in Int /\ sessions \in Nat /\ Tries \in Nat
    BY <1>1, QmiSetupAssumption DEF IInv, Types, MTypes
  <2> QED
    BY <1>1, <2>1 DEF IInv, Attempts, PinOnce
<1> QED
  BY Invariant, <1>1, PTL

(* The profile that requestSetProfile modifies and calls are started with  *)
(* has the PDP context and the APN asked for, unless a request that looks  *)
(* for it or sets it failed (requestGetProfile, requestSetProfile).        *)
THEOREM RightProfile == SpecOne => []ProfileOfPdp
<1>1. IInv => ProfileOfPdp
  BY DEF IInv, ProfileKnown
<1> QED
  BY Invariant, <1>1, PTL

----------------------------------------------------------------------------
(* SysInfo for answers with any number of TLVs in any order, and the codes *)
(* of the home network.                                                    *)

DataClasses == UNION {R!DataCapList(tech) : tech \in R!Technologies}
Registrations ==
  [attached : BOOLEAN, s_is_cdma : BOOLEAN, is_lte : BOOLEAN, class : {"none", "CDMA", "GSM"},
   caps : SUBSET DataClasses, endc : BOOLEAN, unrestricted : BOOLEAN]

RadioTyped == reg \in Registrations /\ seen \subseteq R!TLVs

\* is_lte is what s_is_cdma is decided by, and says whether LTE or 5G was seen.
LteSeen == R!On({"lte"}, {"status", "info"}) \/ R!On({"nr5g"}, {"status"})
LteKnown == reg.is_lte <=> LteSeen
AttachedKnown == reg.attached <=> R!On(R!Technologies, {"info"})
CdmaKnown == reg.s_is_cdma <=> (R!On(R!Cdma, {"status", "info"}) /\ ~ LteSeen)
FiveGKnown == "5G_SA" \in reg.caps => R!On({"nr5g"}, {"status"})

RadioInv == RadioTyped /\ LteKnown /\ AttachedKnown /\ CdmaKnown /\ FiveGKnown

\* What the two kinds of TLV do to the registration.
LEMMA StatusDoes ==
  ASSUME NEW s \in Registrations, NEW t \in R!Technologies \ {"tdscdma"}
  PROVE  LET u == R!ServiceStatus(s, t)
         IN  /\ u \in Registrations
             /\ u.attached = s.attached
             /\ u.is_lte <=> (s.is_lte \/ t \in {"lte", "nr5g"})
             /\ u.s_is_cdma <=> IF t \in R!Cdma THEN ~ s.is_lte
                                ELSE s.s_is_cdma /\ t \notin {"lte", "nr5g"}
             /\ "5G_SA" \in u.caps => ("5G_SA" \in s.caps \/ t = "nr5g")
<1> DEFINE u == R!ServiceStatus(s, t)
<1>1. R!DataCapList(t) \subseteq DataClasses
  BY DEF DataClasses
<1>2. "5G_SA" \in R!DataCapList(t) => t = "nr5g"
  BY DEF R!DataCapList, R!Technologies
<1>3. u \in Registrations
  BY <1>1, Zenon DEF R!ServiceStatus, Registrations
<1>4. u.attached = s.attached /\ (u.is_lte <=> (s.is_lte \/ t \in {"lte", "nr5g"}))
  BY Zenon DEF R!ServiceStatus, Registrations
<1>5. u.s_is_cdma <=> IF t \in R!Cdma THEN ~ s.is_lte ELSE s.s_is_cdma /\ t \notin {"lte", "nr5g"}
  BY Zenon DEF R!ServiceStatus, Registrations
<1>6. "5G_SA" \in u.caps => ("5G_SA" \in s.caps \/ t = "nr5g")
  BY <1>2 DEF R!ServiceStatus, Registrations
<1> QED
  BY <1>3, <1>4, <1>5, <1>6

LEMMA InfoDoes ==
  ASSUME NEW s \in Registrations, NEW t \in R!Technologies
  PROVE  LET u == R!SystemInfo(s, t)
         IN  /\ u \in Registrations
             /\ u.attached
             /\ u.is_lte <=> (s.is_lte \/ t = "lte")
             /\ u.s_is_cdma <=> IF t \in R!Cdma THEN ~ s.is_lte ELSE s.s_is_cdma /\ t # "lte"
             /\ u.caps = s.caps
<1> DEFINE u == R!SystemInfo(s, t)
<1>1. u \in Registrations
  BY Zenon DEF R!SystemInfo, Registrations
<1>2. u.attached /\ u.caps = s.caps /\ (u.is_lte <=> (s.is_lte \/ t = "lte"))
  BY Zenon DEF R!SystemInfo, Registrations
<1>3. u.s_is_cdma <=> IF t \in R!Cdma THEN ~ s.is_lte ELSE s.s_is_cdma /\ t # "lte"
  BY Zenon DEF R!SystemInfo, Registrations
<1> QED
  BY <1>1, <1>2, <1>3

\* What a TLV adds to what was seen.
LEMMA RadioSeen ==
  ASSUME NEW tlv \in R!TLVs, R!Take(tlv), NEW techs, NEW kinds
  PROVE  R!On(techs, kinds)' <=> (R!On(techs, kinds) \/ (tlv.tech \in techs /\ tlv.kind \in kinds))
BY DEF R!On, R!Take

\* The invariant holds before the first TLV.
LEMMA RadioBegins == R!Init => RadioInv
<1> SUFFICES ASSUME R!Init PROVE RadioInv
  OBVIOUS
<1>1. RadioTyped
  BY DEF R!Init, RadioTyped, R!Nothing, Registrations
<1>2. \A techs, kinds : ~ R!On(techs, kinds)
  BY DEF R!Init, R!On
<1> QED
  BY <1>1, <1>2 DEF R!Init, R!Nothing, RadioInv, LteKnown, LteSeen, AttachedKnown, CdmaKnown, FiveGKnown

\* It is kept by every pass of the loop, whatever the TLV.
LEMMA RadioKept == ASSUME RadioInv, R!Next \/ UNCHANGED <<reg, seen>> PROVE RadioInv'
<1>1. CASE UNCHANGED <<reg, seen>>
  <2>1. \A techs, kinds : R!On(techs, kinds)' = R!On(techs, kinds)
    BY <1>1 DEF R!On
  <2> QED
    BY <1>1, <2>1 DEF RadioInv, RadioTyped, LteKnown, LteSeen, AttachedKnown, CdmaKnown, FiveGKnown
<1>2. ASSUME NEW tlv \in R!TLVs, R!Take(tlv) PROVE RadioInv'
  <2> DEFINE t == tlv.tech
             on(techs, kinds) == t \in techs /\ tlv.kind \in kinds
  <2>1. /\ R!On({"lte"}, {"status", "info"})' <=> (R!On({"lte"}, {"status", "info"})
                                               \/ on({"lte"}, {"status", "info"}))
        /\ R!On(R!Technologies, {"info"})' <=> (R!On(R!Technologies, {"info"}) \/ on(R!Technologies, {"info"}))
        /\ R!On(R!Cdma, {"status", "info"})' <=> (R!On(R!Cdma, {"status", "info"})
                                               \/ on(R!Cdma, {"status", "info"}))
        /\ R!On({"nr5g"}, {"status"})' <=> (R!On({"nr5g"}, {"status"}) \/ on({"nr5g"}, {"status"}))
    BY <1>2, RadioSeen
  <2>2. reg \in Registrations /\ reg' = R!Parsed(reg, tlv)
    BY <1>2 DEF R!Take, RadioInv, RadioTyped
  <2>3. (seen \subseteq R!TLVs)'
    BY <1>2 DEF R!Take, RadioInv, RadioTyped
  <2> USE DEF RadioInv, RadioTyped, LteKnown, LteSeen, AttachedKnown, CdmaKnown, FiveGKnown
  <2>4. CASE tlv.kind = "status"
    <3>1. t \in R!Technologies
      BY <2>4 DEF R!TLVs, R!Technologies
    <3>2. reg' = R!ServiceStatus(reg, t)
      BY <2>2, <2>4 DEF R!Parsed
    <3>3. CASE t = "tdscdma"
      <4>1. reg' = reg
        BY <3>2, <3>3 DEF R!ServiceStatus
      <4> QED
        BY <2>1, <2>3, <2>4, <3>3, <4>1 DEF R!Cdma
    <3>4. CASE t # "tdscdma"
      <4>1. /\ reg' \in Registrations
            /\ reg'.attached = reg.attached
            /\ reg'.is_lte <=> (reg.is_lte \/ t \in {"lte", "nr5g"})
            /\ reg'.s_is_cdma <=> IF t \in R!Cdma THEN ~ reg.is_lte
                                  ELSE reg.s_is_cdma /\ t \notin {"lte", "nr5g"}
            /\ "5G_SA" \in reg'.caps => ("5G_SA" \in reg.caps \/ t = "nr5g")
        BY <2>2, <3>1, <3>2, <3>4, StatusDoes
      <4> QED
        BY <2>1, <2>3, <2>4, <4>1 DEF R!Cdma
    <3> QED
      BY <3>3, <3>4
  <2>5. CASE tlv.kind = "info"
    <3>1. t \in R!Technologies
      BY <2>5 DEF R!TLVs, R!Technologies
    <3>2. reg' = R!SystemInfo(reg, t)
      BY <2>2, <2>5 DEF R!Parsed
    <3>3. /\ reg' \in Registrations
          /\ reg'.attached
          /\ reg'.is_lte <=> (reg.is_lte \/ t = "lte")
          /\ reg'.s_is_cdma <=> IF t \in R!Cdma THEN ~ reg.is_lte ELSE reg.s_is_cdma /\ t # "lte"
          /\ reg'.caps = reg.caps
      BY <2>2, <3>1, <3>2, InfoDoes
    <3> QED
      BY <2>1, <2>3, <2>5, <3>1, <3>3 DEF R!Cdma
  <2>6. CASE tlv.kind \in {"endc", "unrestricted"}
    <3>1. /\ reg' \in Registrations
          /\ reg'.attached = reg.attached /\ reg'.is_lte = reg.is_lte
          /\ reg'.s_is_cdma = reg.s_is_cdma /\ reg'.caps = reg.caps
      BY <2>2, <2>6, Zenon DEF R!Parsed, Registrations
    <3> QED
      BY <2>1, <2>3, <2>6, <3>1
  <2> QED
    BY <2>4, <2>5, <2>6 DEF R!TLVs
<1> QED
  BY <1>1, <1>2 DEF R!Next

\* requestRegistrationState2 decides on PS attachment, CDMA and 5G by what TLVs there are,
\* not by their order or number.
THEOREM OrderDoesNotMatter == SpecOne => []RadioDecoded
<1>1. ASSUME RadioInv PROVE RadioDecoded
  <2>1. reg.attached \in BOOLEAN /\ reg.s_is_cdma \in BOOLEAN
    BY <1>1 DEF RadioInv, RadioTyped, Registrations
  <2>2. reg.attached = R!On(R!Technologies, {"info"})
    BY <1>1, <2>1, Zenon DEF RadioInv, AttachedKnown, R!On
  <2>3. reg.s_is_cdma = (/\ R!On(R!Cdma, {"status", "info"})
                         /\ ~ R!On({"lte"}, {"status", "info"})
                         /\ ~ R!On({"nr5g"}, {"status"}))
    BY <1>1, <2>1, Zenon DEF RadioInv, CdmaKnown, LteSeen
  <2>4. R!FiveG(reg) = "5G_SA" => "5G_SA" \in reg.caps
    BY DEF R!FiveG
  <2> QED
    BY <1>1, <2>2, <2>3, <2>4 DEF RadioDecoded, R!RadioDecoded, RadioInv, FiveGKnown
<1> QED
  <2>1. InitOne => RadioInv
    BY RadioBegins DEF InitOne
  <2>2. RadioInv /\ [NextOne]_<<which, vars, reg, seen>> => RadioInv'
    BY RadioKept DEF NextOne
  <2> QED
    BY <2>1, <2>2, <1>1, PTL DEF SpecOne

\* Taking the last digit off a number whose digits count from 1 to 10.
LEMMA LastDigit ==
  ASSUME NEW n \in Nat, NEW d \in 0..9
  PROVE  /\ R!Rest(10 * n + R!Digit(d)) = n /\ (10 * n + R!Digit(d)) % 10 = d
         /\ R!Hundreds(R!Digit(d)) = d /\ R!Digit(d) \in 1..10
<1>1. CASE d = 0
  <2>1. R!Digit(d) = 10
    BY <1>1 DEF R!Digit
  <2>2. (10 * n + 10) % 10 = 0 /\ (10 * n + 10 - 10) \div 10 = n
    OBVIOUS
  <2> QED
    BY <1>1, <2>1, <2>2 DEF R!Rest, R!Hundreds
<1>2. CASE d # 0
  <2>1. R!Digit(d) = d /\ d \in 1..9
    BY <1>2 DEF R!Digit
  <2>2. (10 * n + d) % 10 = d /\ (10 * n + d) \div 10 = n
    BY <2>1
  <2> QED
    BY <2>1, <2>2 DEF R!Rest, R!Hundreds
<1> QED
  BY <1>1, <1>2

\* quectel_convert_cdma_mcc_2_ascii_mcc and its sibling invert the coding of CDMA.
THEOREM CodesRoundTrip == R!CodesDecoded
<1>1. ASSUME NEW d1 \in 0..9, NEW d2 \in 0..9, NEW d3 \in 0..9
      PROVE  R!quectel_convert_cdma_mcc_2_ascii_mcc(R!CdmaMcc(d1, d2, d3)) = 100 * d1 + 10 * d2 + d3
  <2> DEFINE a == R!Digit(d1)
             b == R!Digit(d2)
             c == R!Digit(d3)
             two == 10 * a + b
             mcc == R!CdmaMcc(d1, d2, d3)
  <2>1. a \in 1..10 /\ b \in 1..10 /\ c \in 1..10
    <3>1. 0 \in Nat
      OBVIOUS
    <3> QED
      BY <3>1, LastDigit, Zenon
  <2>2. two \in Nat /\ mcc + 111 = 10 * two + c /\ mcc # 1023
    BY <2>1 DEF R!CdmaMcc
  <2>3. (mcc + 111) % 10 = d3 /\ R!Rest(mcc + 111) = two
    <3>1. two \in Nat
      BY <2>2
    <3>2. R!Rest(10 * two + c) = two /\ (10 * two + c) % 10 = d3
      BY <3>1, LastDigit, Zenon
    <3> HIDE DEF c, two, mcc
    <3> QED
      BY <3>2, <2>2
  <2>4. two % 10 = d2 /\ R!Rest(two) = a
    <3>1. a \in Nat
      BY <2>1
    <3> QED
      BY <3>1, LastDigit, Zenon
  <2>5. R!Hundreds(a) = d1
    <3>1. 0 \in Nat
      OBVIOUS
    <3> QED
      BY <3>1, LastDigit, Zenon
  <2> HIDE DEF a, b, c, two, mcc
  <2> QED
    BY <2>2, <2>3, <2>4, <2>5 DEF R!quectel_convert_cdma_mcc_2_ascii_mcc, mcc
<1>2. ASSUME NEW d1 \in 0..9, NEW d2 \in 0..9
      PROVE  R!quectel_convert_cdma_mnc_2_ascii_mnc(R!CdmaMnc(d1, d2)) = 10 * d1 + d2
  <2> DEFINE a == R!Digit(d1)
             b == R!Digit(d2)
             mnc == R!CdmaMnc(d1, d2)
  <2>1. a \in 1..10 /\ b \in 1..10
    <3>1. 0 \in Nat
      OBVIOUS
    <3> QED
      BY <3>1, LastDigit, Zenon
  <2>2. mnc + 11 = 10 * a + b /\ mnc # 127
    BY <2>1 DEF R!CdmaMnc
  <2>3. (mnc + 11) % 10 = d2 /\ R!Rest(mnc + 11) = a
    <3>1. a \in Nat
      BY <2>1
    <3>2. R!Rest(10 * a + b) = a /\ (10 * a + b) % 10 = d2
      BY <3>1, LastDigit, Zenon
    <3> HIDE DEF a, b, mnc
    <3> QED
      BY <3>2, <2>2
  <2>4. R!Hundreds(a) = d1
    <3>1. 0 \in Nat
      OBVIOUS
    <3> QED
      BY <3>1, LastDigit, Zenon
  <2> HIDE DEF a, b, mnc
  <2> QED
    BY <2>2, <2>3, <2>4 DEF R!quectel_convert_cdma_mnc_2_ascii_mnc, mnc
<1> QED
  BY <1>1, <1>2 DEF R!CodesDecoded

=============================================================================
