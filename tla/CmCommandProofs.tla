-------------------------- MODULE CmCommandProofs --------------------------
(* TLAPS proofs about the exchange of commands (CmCommand), for any number *)
(* of requests, transaction ids and slices, and about the sessions of a    *)
(* process (CmLifecycle).                                                  *)
EXTENDS MCCmCommand, TLAPS

(* Only the last request is parked; the stored response is the last        *)
(* request's, or an answer a whole cycle of transaction ids late.          *)
CloseEnough(n) == n = 0 \/ n = cur \/ cur - n >= Tids
IInv ==
    /\ TypeOK
    /\ s_pRequest \in {0, cur}
    /\ CloseEnough(s_pResponse)
    /\ CloseEnough(result.resp)
    /\ \A n \in atModem \cup inbox : n <= cur
    /\ WaitsOnlyIfSignalLost
    /\ NobodyStranded

(* Two requests with the same transaction id are at least Tids apart.      *)
LEMMA TidDistance ==
    ASSUME NEW n \in Nat, NEW m \in Nat, m < n, Tid(m) = Tid(n)
    PROVE  n - m >= Tids
<1> DEFINE q == n \div Tids
<1> DEFINE p == m \div Tids
<1>1. Tids \in Nat /\ Tids > 0
  BY CommandConstants
<1>2. q \in Int /\ p \in Int
  BY <1>1
<1>3. n = Tids * q + (n % Tids) /\ m = Tids * p + (m % Tids)
  BY <1>1
<1>4. n % Tids = m % Tids /\ n % Tids \in Int
  BY <1>1 DEF Tid
<1> HIDE DEF q, p
<1>5. n - m = Tids * (q - p)
  BY <1>1, <1>2, <1>3, <1>4
<1>6. q - p >= 1
  BY <1>1, <1>2, <1>5
<1>7. Tids * (q - p) >= Tids
  BY <1>1, <1>2, <1>6
<1> QED
  BY <1>5, <1>7

----------------------------------------------------------------------------
(* The initial state satisfies the invariant.                              *)
LEMMA InitIInv == Init => IInv
<1> SUFFICES ASSUME Init PROVE IInv
  OBVIOUS
<1>1. events \in Seq(Indications \cup {"connected", "disconnected"})
  BY DEF Init
<1>a. /\ cur \in 0..MaxReq /\ slice \in 0..Slices
      /\ s_pRequest \in 0..MaxReq /\ s_pResponse \in 0..MaxReq
      /\ result \in Results /\ budget \in 0..MaxInd
  BY CommandConstants DEF Init, Results
<1>2. TypeOK
  BY <1>1, <1>a, Zenon DEF Init, TypeOK
<1> QED
  BY <1>2 DEF Init, IInv, CloseEnough, WaitsOnlyIfSignalLost, NobodyStranded,
              Waiting

(* What a signal leaves of the waiting caller.                             *)
LEMMA SignalWakes ==
    ASSUME TypeOK, Signal
    PROVE  /\ caller' \in {"idle", "blocked", "expired", "woken"}
           /\ lost' \in BOOLEAN
           /\ caller' \in Waiting => caller = "expired" /\ lost'
  BY Zenon DEF Signal, TypeOK, Waiting

(* Every step keeps the types.                                             *)
LEMMA StepType == TypeOK /\ [Next]_vars => TypeOK'
<1> SUFFICES ASSUME TypeOK, [Next]_vars PROVE TypeOK'
  OBVIOUS
<1> USE CommandConstants DEF TypeOK, Results
<1>1. CASE Send
  <2>1. /\ cur' \in 0..MaxReq /\ slice' \in 0..Slices
        /\ s_pRequest' \in 0..MaxReq /\ s_pResponse' \in 0..MaxReq
        /\ result' \in Results /\ atModem' \subseteq 1..MaxReq
    BY SMTT(30), <1>1 DEF Send, Park
  <2> QED
    BY <1>1, <2>1, Zenon DEF Send, readVars
<1>2. CASE SendFails
  <2>1. /\ cur' \in 0..MaxReq
        /\ s_pRequest' \in 0..MaxReq /\ s_pResponse' \in 0..MaxReq
        /\ result' \in Results
    BY <1>2 DEF SendFails, Park
  <2> QED
    BY <1>2, <2>1, Zenon DEF SendFails, readVars, wireVars
<1>3. CASE Expire
  BY <1>3 DEF Expire, readVars, wireVars
<1>4. CASE NextSlice
  BY <1>4 DEF NextSlice, SlicesLeft, readVars, wireVars
<1>5. CASE TimesOut
  BY <1>5 DEF TimesOut, readVars, wireVars
<1>6. CASE SpuriousWake
  BY <1>6 DEF SpuriousWake, readVars
<1>7. CASE Returns
  BY <1>7 DEF Returns, readVars, wireVars
<1>8. CASE SignalStop
  BY <1>8 DEF SignalStop, callVars
<1>9. CASE RequestQuit
  BY <1>9 DEF RequestQuit, callVars, wireVars
<1>10. CASE RecvResponse
  BY <1>10, SignalWakes DEF RecvResponse, readVars
<1>11. CASE RecvIndication
  BY <1>11 DEF RecvIndication, callVars
<1>12. CASE ReadStop
  BY <1>12 DEF ReadStop, callVars, wireVars
<1>13. CASE IdleSecond
  BY <1>13, SignalWakes DEF IdleSecond, RecvNull, readVars, wireVars
<1>14. CASE ReadQuit
  BY <1>14 DEF ReadQuit, Leave, Close, callVars, wireVars
<1>15. CASE DeviceHangsUp
  BY <1>15 DEF DeviceHangsUp, Leave, Close, callVars, wireVars
<1>16. CASE QuitRelease
  BY <1>16, SignalWakes DEF QuitRelease, RecvNull, wireVars
<1>17. CASE ModemAnswers
  BY <1>17 DEF ModemAnswers, callVars, readVars
<1>18. CASE ModemIndicates
  BY <1>18 DEF ModemIndicates, callVars, readVars
<1>19. CASE UNCHANGED vars
  BY SMTT(30), <1>19 DEF vars
<1> QED
  BY SMTT(30), <1>1, <1>2, <1>3, <1>4, <1>5, <1>6, <1>7, <1>8, <1>9, <1>10, <1>11,
     <1>12, <1>13, <1>14, <1>15, <1>16, <1>17, <1>18, <1>19 DEF Next

(* Every step keeps the inductive invariant.                               *)
LEMMA StepIInv == IInv /\ [Next]_vars => IInv'
<1> SUFFICES ASSUME IInv, [Next]_vars PROVE IInv'
  OBVIOUS
<1>0. TypeOK'
  BY StepType DEF IInv
<1> USE <1>0, CommandConstants
    DEF IInv, CloseEnough, WaitsOnlyIfSignalLost, NobodyStranded, Waiting,
        TypeOK, Results
<1>1. CASE Send
  BY SMTT(30), <1>1 DEF Send, Park, readVars
<1>2. CASE SendFails
  BY <1>2 DEF SendFails, Park, readVars, wireVars
<1>3. CASE Expire
  BY <1>3 DEF Expire, readVars, wireVars
<1>4. CASE NextSlice
  BY <1>4 DEF NextSlice, readVars, wireVars
<1>5. CASE TimesOut
  BY <1>5 DEF TimesOut, readVars, wireVars
<1>6. CASE SpuriousWake
  BY <1>6 DEF SpuriousWake, readVars
<1>7. CASE Returns
  <2>1. CASE /\ result' = [ret |-> "ok", resp |-> s_pResponse]
             /\ s_pResponse' = s_pResponse
    <3>1. result'.resp = s_pResponse
      BY <2>1
    <3> QED
      BY <1>7, <2>1, <3>1 DEF Returns, readVars, wireVars
  <2>2. CASE result' = [ret |-> "ok", resp |-> 0] /\ s_pResponse' = 0
    <3>1. result'.resp = 0
      BY <2>2
    <3> QED
      BY <1>7, <2>2, <3>1 DEF Returns, readVars, wireVars
  <2> QED
    BY Zenon, <1>7, <2>1, <2>2 DEF Returns
<1>8. CASE SignalStop
  BY <1>8 DEF SignalStop, callVars
<1>9. CASE RequestQuit
  BY <1>9 DEF RequestQuit, callVars, wireVars
<1>10. CASE RecvResponse
  <2> PICK n \in inbox :
        /\ inbox' = inbox \ {n}
        /\ reader = "run"
        /\ IF is_response(n)
             THEN s_pRequest' = 0 /\ s_pResponse' = n /\ Signal
             ELSE UNCHANGED <<s_pRequest, s_pResponse, caller, lost>>
        /\ UNCHANGED <<cur, slice, result, atModem, inds, budget>>
        /\ UNCHANGED <<reader, wait_for_request_quit, control, events>>
    BY <1>10 DEF RecvResponse, readVars
  <2>1. n \in Nat /\ n <= cur /\ cur \in Nat
    OBVIOUS
  <2>2. CASE is_response(n)
    <3>1. s_pRequest = cur /\ Tid(n) = Tid(cur)
      BY <2>2 DEF is_response
    <3>2. n = cur \/ cur - n >= Tids
      BY <2>1, <3>1, TidDistance
    <3>3. (caller \in {"blocked", "expired"} => lost)'
      BY <2>2, SignalWakes
    <3> QED
      BY <2>1, <2>2, <3>2, <3>3
  <2>3. CASE ~is_response(n)
    BY <2>1, <2>3
  <2> QED
    BY Zenon, <2>2, <2>3
<1>11. CASE RecvIndication
  BY <1>11 DEF RecvIndication, callVars
<1>12. CASE ReadStop
  BY <1>12 DEF ReadStop, callVars, wireVars
<1>13. CASE IdleSecond
  BY Zenon, <1>13, SignalWakes DEF IdleSecond, RecvNull, readVars, wireVars
<1>14. CASE ReadQuit
  BY <1>14 DEF ReadQuit, Leave, Close, callVars, wireVars
<1>15. CASE DeviceHangsUp
  BY <1>15 DEF DeviceHangsUp, Leave, Close, callVars, wireVars
<1>16. CASE QuitRelease
  BY Zenon, <1>16, SignalWakes DEF QuitRelease, RecvNull, wireVars
<1>17. CASE ModemAnswers
  BY <1>17 DEF ModemAnswers, callVars, readVars
<1>18. CASE ModemIndicates
  BY <1>18 DEF ModemIndicates, callVars, readVars
<1>19. CASE UNCHANGED vars
  BY <1>19 DEF vars
<1> QED
  BY Zenon, <1>1, <1>2, <1>3, <1>4, <1>5, <1>6, <1>7, <1>8, <1>9, <1>10, <1>11,
     <1>12, <1>13, <1>14, <1>15, <1>16, <1>17, <1>18, <1>19 DEF Next

(* The invariant holds in every reachable state.                           *)
LEMMA Invariant == Spec => []IInv
  BY InitIInv, StepIInv, PTL DEF Spec

(* The exchange keeps its types: in particular the slices waited for never *)
(* exceed those pthread_cond_timeout_np counts.                            *)
THEOREM CommandTypeCorrect == Spec => []TypeOK
<1>1. IInv => TypeOK
  BY DEF IInv
<1> QED
  BY <1>1, Invariant, PTL

(* QmiThreadSendQMITimeout returns the answer to its own request, or one a *)
(* whole cycle of transaction ids late.                                    *)
THEOREM AnswersAreOwn == Spec => []OwnAnswer
<1>1. IInv => OwnAnswer
  BY DEF IInv, CloseEnough, OwnAnswer
<1> QED
  BY <1>1, Invariant, PTL

(* QmiWwanThread's last QmiThreadRecvQMI(NULL) leaves no caller waiting on *)
(* a parked request.                                                       *)
THEOREM NoCallerStranded == Spec => []NobodyStranded
<1>1. IInv => NobodyStranded
  BY DEF IInv
<1> QED
  BY <1>1, Invariant, PTL

(* Whoever waits for a request already taken lost the signal between two   *)
(* slices.                                                                 *)
THEOREM WaitExplained == Spec => []WaitsOnlyIfSignalLost
<1>1. IInv => WaitsOnlyIfSignalLost
  BY DEF IInv
<1> QED
  BY <1>1, Invariant, PTL

----------------------------------------------------------------------------
(* The sessions of a process (CmLifecycle), for any number of hang-ups,    *)
(* signals and readers left behind.                                        *)

LEMMA SessionSteps ==
    ASSUME [NextOne]_allVars
    PROVE  L!Next \/ UNCHANGED lifeVars
BY Zenon DEF NextOne, Of, OfProcess, allVars

(* A hang-up never ends the process.                                       *)

(* A process that has seen a hang-up runs again unless a signal came.      *)
SeenHangup ==
    /\ stops \in Int /\ stops <= MaxStops
    /\ everHung /\ ~ g_donot => L!stopped
    /\ L!HangupNeverExits

LEMMA SeenHangupBegins == ASSUME MaxStops \in Nat PROVE L!Init => SeenHangup
BY DEF L!Init, SeenHangup, L!HangupNeverExits

LEMMA SeenHangupKept ==
    ASSUME MaxStops \in Nat, SeenHangup, (L!Next \/ UNCHANGED lifeVars)
    PROVE  SeenHangup'
<1> USE DEF SeenHangup, L!HangupNeverExits, L!stopped
<1>1. CASE UNCHANGED lifeVars
  BY <1>1 DEF lifeVars
<1>2. CASE L!SleepOver \/ L!DetectFails
  BY <1>2 DEF L!SleepOver, L!DetectFails, L!EndSession, L!budgets
<1>3. CASE L!DetectSucceeds
  BY <1>3 DEF L!DetectSucceeds, L!budgets
<1>4. CASE L!ReaderReports
  BY <1>4 DEF L!ReaderReports, L!EndSession, L!budgets
<1>5. CASE L!InitSucceeds \/ L!InitFails
  BY <1>5 DEF L!InitSucceeds, L!InitFails, L!EndSession, L!budgets
<1>6. CASE L!Poll \/ L!HandleSignal
  BY <1>6 DEF L!Poll, L!HandleSignal, L!budgets
<1>7. CASE L!HandleDevice
  <2>1. stops' = stops /\ proc' # "exited"
    BY <1>7 DEF L!HandleDevice, L!budgets
  <2>2. everHung' /\ ~ g_donot' => everHung /\ ~ g_donot
    BY <1>7, Zenon DEF L!HandleDevice, L!RunAgain
  <2> QED
    BY <2>1, <2>2
<1>8. CASE L!Join
  BY <1>8 DEF L!Join, L!EndSession, L!budgets
<1>9. CASE L!Reader
  BY <1>9 DEF L!Reader, L!ReaderOpens, L!ReaderReads, L!budgets
<1>10. CASE L!ReaderHangup \/ L!ModemResets
  BY <1>10 DEF L!ReaderHangup, L!ModemResets
<1>11. CASE L!OrphanOpens \/ L!OrphanMoves \/ L!OrphanReads \/ L!OrphanHangup
  BY <1>11 DEF L!OrphanOpens, L!OrphanMoves, L!OrphanReads, L!OrphanHangup, L!budgets
<1>12. CASE L!Signal
  BY <1>12 DEF L!Signal
<1> QED
  BY <1>1, <1>2, <1>3, <1>4, <1>5, <1>6, <1>7, <1>8, <1>9, <1>10, <1>11, <1>12 DEF L!Next, L!Main

(* A modem that hung up or reset never ends the process; only a signal     *)
(* does (g_donot_exit_when_modem_hangup).                                  *)
THEOREM HangupSurvived == ASSUME MaxStops \in Nat PROVE SpecOne => []HangupNeverExits
<1>1. InitOne => SeenHangup
  BY SeenHangupBegins DEF InitOne
<1>2. SeenHangup /\ [NextOne]_allVars => SeenHangup'
  BY SeenHangupKept, SessionSteps
<1>3. SeenHangup => HangupNeverExits
  BY DEF SeenHangup, HangupNeverExits
<1> QED
  BY <1>1, <1>2, <1>3, PTL DEF SpecOne

----------------------------------------------------------------------------
(* One reader at a time.                                                   *)

(* Between sessions there is no reader, and no orphan without a start that *)
(* failed.                                                                 *)
ReaderTypes == lreader \in {"none", "opening", "running", "gone"}
OrphanSet == [opening : Int, old : Int, new : Int, ever : BOOLEAN]
OrphanTypes == orphans \in OrphanSet
NoneBetween == proc \in {"detect", "sleep"} => lreader \in {"none", "gone"}
NoOrphan == orphans.opening = 0 /\ orphans.old = 0 /\ orphans.new = 0
OnlyAfterFailure == orphans.ever \/ NoOrphan

Readers == ReaderTypes /\ OrphanTypes /\ NoneBetween /\ OnlyAfterFailure

LEMMA ReadersBegin == L!Init => Readers
BY DEF L!Init, Readers, ReaderTypes, OrphanTypes, OrphanSet, NoneBetween, OnlyAfterFailure, NoOrphan

(* One orphan advances or ends, or those of the last session grow old.     *)
LEMMA Advanced ==
    ASSUME NEW o \in OrphanSet, NEW x,
           \/ x = [o EXCEPT !.old = o.old + o.new, !.new = 0]
           \/ x = [o EXCEPT !.old = o.old - 1, !.new = o.new + 1]
           \/ x = [o EXCEPT !.opening = o.opening - 1, !.new = o.new + 1]
           \/ x = [o EXCEPT !.opening = o.opening - 1]
           \/ x = [o EXCEPT !.old = o.old - 1]
           \/ x = [o EXCEPT !.new = o.new - 1]
    PROVE  x \in OrphanSet /\ x.ever = o.ever
<1>1. CASE x = [o EXCEPT !.old = o.old + o.new, !.new = 0]
  <2>1. PICK i \in Int, j \in Int : i = o.old + o.new /\ j = 0
    BY DEF OrphanSet
  <2>2. x = [o EXCEPT !.old = i, !.new = j]
    BY <1>1, <2>1
  <2> QED
    BY <2>2, Zenon DEF OrphanSet
<1>2. CASE x = [o EXCEPT !.old = o.old - 1, !.new = o.new + 1]
  <2>1. PICK i \in Int, j \in Int : i = o.old - 1 /\ j = o.new + 1
    BY DEF OrphanSet
  <2>2. x = [o EXCEPT !.old = i, !.new = j]
    BY <1>2, <2>1
  <2> QED
    BY <2>2, Zenon DEF OrphanSet
<1>3. CASE x = [o EXCEPT !.opening = o.opening - 1, !.new = o.new + 1]
  <2>1. PICK i \in Int, j \in Int : i = o.opening - 1 /\ j = o.new + 1
    BY DEF OrphanSet
  <2>2. x = [o EXCEPT !.opening = i, !.new = j]
    BY <1>3, <2>1
  <2> QED
    BY <2>2, Zenon DEF OrphanSet
<1>4. CASE x = [o EXCEPT !.opening = o.opening - 1]
  BY <1>4 DEF OrphanSet
<1>5. CASE x = [o EXCEPT !.old = o.old - 1]
  BY <1>5 DEF OrphanSet
<1>6. CASE x = [o EXCEPT !.new = o.new - 1]
  BY <1>6 DEF OrphanSet
<1> QED
  BY <1>1, <1>2, <1>3, <1>4, <1>5, <1>6

(* One more is left behind.                                                *)
LEMMA Added ==
    ASSUME NEW o \in OrphanSet, NEW i \in Int, NEW x,
           \/ x = [o EXCEPT !.opening = i, !.ever = TRUE]
           \/ x = [o EXCEPT !.old = i, !.ever = TRUE]
    PROVE  x \in OrphanSet /\ x.ever
BY Zenon DEF OrphanSet

LEMMA Counts ==
    ASSUME OrphanTypes
    PROVE  /\ orphans.opening + 1 \in Int /\ orphans.old + 1 \in Int
           /\ orphans.ever \in BOOLEAN
BY DEF OrphanTypes, OrphanSet

(* An early return leaves no reader, or one that counts as left behind.    *)
LEMMA LeftBehind ==
    ASSUME Readers, L!LeaveReader
    PROVE  /\ lreader' \in {"none", "gone"}
           /\ OrphanTypes' /\ OnlyAfterFailure'
<1>1. CASE lreader \in {"none", "gone"}
  BY <1>1, Zenon DEF L!LeaveReader, Readers, OrphanTypes, OnlyAfterFailure, NoOrphan
<1>2. CASE lreader \in {"opening", "running"}
  <2>1. /\ lreader' = "none"
        /\ orphans' \in {[orphans EXCEPT !.opening = orphans.opening + 1, !.ever = TRUE],
                         [orphans EXCEPT !.old = orphans.old + 1, !.ever = TRUE]}
    BY <1>2, Zenon DEF L!LeaveReader
  <2> QED
    BY <2>1, Counts, Added, Zenon DEF Readers, OrphanTypes, OnlyAfterFailure
<1> QED
  BY <1>1, <1>2 DEF Readers, ReaderTypes

LEMMA ReadersKept == ASSUME Readers, (L!Next \/ UNCHANGED lifeVars) PROVE Readers'
<1> USE DEF Readers, ReaderTypes, NoneBetween
<1>1. CASE /\ UNCHANGED <<lreader, orphans>>
           /\ proc' \in {"detect", "sleep"} => proc \in {"detect", "sleep"}
  BY <1>1 DEF OrphanTypes, OnlyAfterFailure, NoOrphan
<1>2. CASE L!DetectSucceeds
  <2>1. /\ lreader' = "opening" /\ proc' = "starting"
        /\ orphans' = [orphans EXCEPT !.old = orphans.old + orphans.new, !.new = 0]
    BY <1>2 DEF L!DetectSucceeds
  <2>2. OrphanTypes' /\ orphans'.ever = orphans.ever
    BY <2>1, Advanced, Zenon DEF OrphanTypes
  <2>3. NoOrphan => NoOrphan'
    BY <2>1, Counts DEF OrphanTypes, OrphanSet, NoOrphan
  <2> QED
    BY <2>1, <2>2, <2>3 DEF OnlyAfterFailure
<1>3. CASE L!ReaderReports
  <2>1. CASE Head(devq) = "connected"
    BY <1>1, <1>3, <2>1 DEF L!ReaderReports
  <2>2. CASE Head(devq) # "connected"
    BY <1>3, <2>2, LeftBehind DEF L!ReaderReports
  <2> QED
    BY <2>1, <2>2
<1>4. CASE L!InitFails
  BY <1>4, LeftBehind DEF L!InitFails
<1>5. CASE L!Join
  BY <1>5 DEF L!Join, L!Joined, OrphanTypes, OnlyAfterFailure, NoOrphan
<1>6. CASE L!Reader \/ L!ReaderHangup
  BY <1>6 DEF L!Reader, L!ReaderOpens, L!ReaderReads, L!ReaderHangup, OrphanTypes, OnlyAfterFailure, NoOrphan
<1>7. CASE L!OrphanOpens \/ L!OrphanMoves \/ L!OrphanReads \/ L!OrphanHangup
  <2>1. orphans' = orphans \/ (OrphanTypes' /\ orphans.ever /\ orphans'.ever)
    <3>1. CASE orphans' = orphans
      BY <3>1
    <3>2. CASE orphans' # orphans
      <4>1. \/ /\ orphans.opening > 0
               /\ \/ orphans' = [orphans EXCEPT !.opening = orphans.opening - 1, !.new = orphans.new + 1]
                  \/ orphans' = [orphans EXCEPT !.opening = orphans.opening - 1]
            \/ /\ orphans.old > 0
               /\ \/ orphans' = [orphans EXCEPT !.old = orphans.old - 1, !.new = orphans.new + 1]
                  \/ orphans' = [orphans EXCEPT !.old = orphans.old - 1]
            \/ /\ orphans.new > 0
               /\ orphans' = [orphans EXCEPT !.new = orphans.new - 1]
        <5>1. CASE L!OrphanOpens
          BY <5>1 DEF L!OrphanOpens
        <5>2. CASE L!OrphanMoves
          BY <5>2 DEF L!OrphanMoves
        <5>3. CASE L!OrphanReads
          BY <3>2, <5>3 DEF L!OrphanReads
        <5>4. CASE L!OrphanHangup
          BY <5>4, Zenon DEF L!OrphanHangup, OrphanTypes, OrphanSet
        <5> QED
          BY <1>7, <5>1, <5>2, <5>3, <5>4
      <4>2. orphans.ever
        BY <4>1 DEF OnlyAfterFailure, NoOrphan
      <4>3. OrphanTypes' /\ orphans'.ever = orphans.ever
        BY <4>1, Advanced, Zenon DEF OrphanTypes
      <4> QED
        BY <4>2, <4>3
    <3> QED
      BY <3>1, <3>2
  <2>2. UNCHANGED <<proc, lreader>>
    BY <1>7 DEF L!OrphanOpens, L!OrphanMoves, L!OrphanReads, L!OrphanHangup
  <2> QED
    BY <2>1, <2>2 DEF OrphanTypes, OnlyAfterFailure, NoOrphan
<1>8. CASE L!SleepOver \/ L!DetectFails \/ L!InitSucceeds \/ L!Poll \/ L!HandleSignal \/ L!HandleDevice
  BY <1>1, <1>8 DEF L!SleepOver, L!DetectFails, L!InitSucceeds, L!Poll, L!HandleSignal, L!HandleDevice, L!EndSession
<1>9. CASE L!ModemResets \/ L!Signal \/ UNCHANGED lifeVars
  BY <1>1, <1>9 DEF L!ModemResets, L!Signal, lifeVars
<1> QED
  BY <1>2, <1>3, <1>4, <1>5, <1>6, <1>7, <1>8, <1>9 DEF L!Next, L!Main

(* As long as no start has failed, a session begins only when the reader   *)
(* of the one before is gone (pthread_join in qmi_main).                   *)
THEOREM OneReaderAtATime == SpecOne => []OneReader
<1>1. InitOne => Readers
  BY ReadersBegin DEF InitOne
<1>2. Readers /\ [NextOne]_allVars => Readers'
  BY ReadersKept, SessionSteps
<1>3. Readers => OneReader
  BY DEF Readers, NoneBetween, OnlyAfterFailure, NoOrphan, OneReader, L!OneReader, L!Orphans
<1> QED
  BY <1>1, <1>2, <1>3, PTL DEF SpecOne

=============================================================================
