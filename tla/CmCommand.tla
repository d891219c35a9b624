----------------------------- MODULE CmCommand -----------------------------
(***************************************************************************)
(* How quectel-CM's main thread asks the modem a question, and how the     *)
(* thread that reads the device answers it (QMIThread.c, util.c,           *)
(* QmiWwanCM.c).  The main thread parks its request in s_pRequest and      *)
(* waits on a condition variable in slices of a quarter of the timeout;    *)
(* the reader stores the response, or aborts the request when it stops.    *)
(* Requests are numbered in the order of their sending; on the wire a      *)
(* request only has its transaction id, which wraps after Tids of them.    *)
(***************************************************************************)
EXTENDS Integers, Sequences, FiniteSets

CONSTANTS Tids,       \* number of transaction ids: 255 for CTL, 65535 else
          MaxReq,     \* bound: requests sent in a behaviour
          Slices,     \* slices of pthread_cond_timeout_np: 4 or 5
          MaxInd      \* bound: indications, spurious wake-ups and SIGTERMs

ASSUME CommandConstants ==
    /\ Tids \in Nat \ {0}
    /\ Slices \in Nat \ {0}
    /\ MaxReq \in Nat
    /\ MaxInd \in Nat

VARIABLES
    caller,       \* idle, blocked in timedwait, expired (out of the wait,
                  \* not yet holding the mutex again) or woken by a signal
    cur,          \* the number of the last request
    slice,        \* the slice being waited for
    s_pRequest, s_pResponse,  \* 0 for NULL
    result,       \* what the last QmiThreadSendQMITimeout returned
    reader,       \* run, closed (descriptor closed) or gone
    wait_for_request_quit,
    control,      \* events on their way from the main thread to the reader
    atModem,      \* requests the modem has not answered
    inbox,        \* responses to read, by the number of their request
    inds,         \* indications to read
    budget,       \* how many of those are still allowed
    events,       \* the reader's events for the main thread
    lost          \* the signal for this request found nobody waiting

vars == <<caller, cur, slice, s_pRequest, s_pResponse, result, reader,
          wait_for_request_quit, control, atModem, inbox, inds, budget,
          events, lost>>

callVars == <<caller, cur, slice, s_pRequest, s_pResponse, result, lost>>
wireVars == <<atModem, inbox, inds, budget>>
readVars == <<reader, wait_for_request_quit, control, events>>

Indications == {"network", "datacall", "reset", "loopback"}
Results == [ret : {"ok", "timeout", "error"}, resp : 0..MaxReq]
Waiting == {"blocked", "expired"}

Tid(n) == n % Tids

Init ==
    /\ caller = "idle" /\ cur = 0 /\ slice = 0
    /\ s_pRequest = 0 /\ s_pResponse = 0
    /\ result = [ret |-> "ok", resp |-> 0]
    /\ reader = "run" /\ wait_for_request_quit = FALSE /\ control = {}
    /\ atModem = {} /\ inbox = {} /\ inds = {} /\ budget = MaxInd
    /\ events = <<"connected">> /\ lost = FALSE

----------------------------------------------------------------------------
(* The main thread. *)

(* What QmiThreadSendQMITimeout parks before it sends. *)
ParkKeepsResponse(n) == s_pRequest' = n /\ UNCHANGED s_pResponse
Park(n) == s_pRequest' = n /\ s_pResponse' = 0

(* The request is written, or the device was not writable for 5 s and      *)
(* poll's 0 is taken for success: either way the caller waits.             *)
Send ==
    /\ caller = "idle" /\ cur < MaxReq /\ reader = "run"
    /\ cur' = cur + 1
    /\ Park(cur + 1)
    /\ \E written \in BOOLEAN :
           atModem' = IF written THEN atModem \cup {cur + 1} ELSE atModem
    /\ caller' = "blocked" /\ slice' = 1 /\ lost' = FALSE
    /\ result' = [result EXCEPT !.resp = 0]
    /\ UNCHANGED <<inbox, inds, budget>> /\ UNCHANGED readVars

(* The descriptor is closed, or the write fails.  s_pRequest stays. *)
SendFails ==
    /\ caller = "idle" /\ cur < MaxReq
    /\ cur' = cur + 1
    /\ Park(cur + 1)
    /\ result' = [ret |-> "error", resp |-> 0]
    /\ lost' = FALSE
    /\ UNCHANGED <<caller, slice>> /\ UNCHANGED wireVars /\ UNCHANGED readVars

(* pthread_cond_timedwait gives up a slice; the mutex is still to be taken. *)
Expire ==
    /\ caller = "blocked"
    /\ caller' = "expired"
    /\ UNCHANGED <<cur, slice, s_pRequest, s_pResponse, result, lost>>
    /\ UNCHANGED wireVars /\ UNCHANGED readVars

(* The loop of pthread_cond_timeout_np goes on. *)
OneSliceMore == slice <= Slices
SlicesLeft == slice < Slices

NextSlice ==
    /\ caller = "expired" /\ SlicesLeft
    /\ caller' = "blocked" /\ slice' = slice + 1
    /\ UNCHANGED <<cur, s_pRequest, s_pResponse, result, lost>>
    /\ UNCHANGED wireVars /\ UNCHANGED readVars

(* The last slice is over: ETIMEDOUT, whatever s_pResponse holds. *)
TimesOut ==
    /\ caller = "expired" /\ ~SlicesLeft
    /\ caller' = "idle"
    /\ result' = [ret |-> "timeout", resp |-> 0]
    /\ UNCHANGED <<cur, slice, s_pRequest, s_pResponse, lost>>
    /\ UNCHANGED wireVars /\ UNCHANGED readVars

SpuriousWake ==
    /\ caller = "blocked" /\ budget > 0
    /\ caller' = "woken" /\ budget' = budget - 1
    /\ UNCHANGED <<cur, slice, s_pRequest, s_pResponse, result, lost>>
    /\ UNCHANGED <<atModem, inbox, inds>> /\ UNCHANGED readVars

(* Woken: return 0 with the response, or with NULL if there is none.  A    *)
(* caller that passed no ppResponse has the response freed.                *)
Returns ==
    /\ caller = "woken"
    /\ caller' = "idle"
    /\ \/ /\ result' = [ret |-> "ok", resp |-> s_pResponse]
          /\ UNCHANGED s_pResponse
       \/ result' = [ret |-> "ok", resp |-> 0] /\ s_pResponse' = 0
    /\ UNCHANGED <<cur, slice, s_pRequest, lost>>
    /\ UNCHANGED wireVars /\ UNCHANGED readVars

(* SIGTERM may come at any time; RIL_REQUEST_QUIT is main's own, sent      *)
(* between two requests.                                                   *)
SignalStop ==
    /\ budget > 0 /\ budget' = budget - 1
    /\ control' = control \cup {"stop"}
    /\ UNCHANGED <<reader, wait_for_request_quit, events>>
    /\ UNCHANGED callVars /\ UNCHANGED <<atModem, inbox, inds>>

RequestQuit ==
    /\ caller = "idle"
    /\ control' = control \cup {"quit"}
    /\ UNCHANGED <<reader, wait_for_request_quit, events>>
    /\ UNCHANGED callVars /\ UNCHANGED wireVars

----------------------------------------------------------------------------
(* The thread that reads the device. *)

(* pthread_cond_signal: wakes the waiter, or is lost on one whose slice    *)
(* has just expired.                                                       *)
NoSignal == UNCHANGED <<caller, lost>>
Signal ==
    /\ caller' = IF caller = "blocked" THEN "woken" ELSE caller
    /\ lost' = (lost \/ caller = "expired")

(* is_response: type, client and transaction id agree. *)
is_response(n) == s_pRequest # 0 /\ Tid(s_pRequest) = Tid(n)

(* QmiThreadRecvQMI with a response. *)
RecvResponse ==
    \E n \in inbox :
        /\ reader = "run"
        /\ inbox' = inbox \ {n}
        /\ IF is_response(n)
             THEN s_pRequest' = 0 /\ s_pResponse' = n /\ Signal
             ELSE UNCHANGED <<s_pRequest, s_pResponse, caller, lost>>
        /\ UNCHANGED <<cur, slice, result, atModem, inds, budget>>
        /\ UNCHANGED readVars

(* QmiThreadRecvQMI with an indication: an event for the main thread. *)
RecvIndication ==
    \E i \in inds :
        /\ reader = "run"
        /\ inds' = inds \ {i}
        /\ events' = Append(events, i)
        /\ UNCHANGED callVars
        /\ UNCHANGED <<atModem, inbox, budget, reader,
                       wait_for_request_quit, control>>

(* QmiThreadRecvQMI(NULL). *)
RecvNull ==
    IF s_pRequest = 0
      THEN UNCHANGED <<s_pRequest, s_pResponse, caller, lost>>
      ELSE s_pRequest' = 0 /\ s_pResponse' = 0 /\ Signal

ReadStop ==
    /\ reader = "run" /\ "stop" \in control
    /\ control' = control \ {"stop"}
    /\ wait_for_request_quit' = TRUE
    /\ UNCHANGED <<reader, events>> /\ UNCHANGED callVars /\ UNCHANGED wireVars

(* A second without anything to read, after a stop. *)
IdleSecond ==
    /\ reader = "run" /\ wait_for_request_quit
    /\ inbox = {} /\ inds = {} /\ control = {}
    /\ RecvNull
    /\ UNCHANGED <<cur, slice, result>>
    /\ UNCHANGED wireVars /\ UNCHANGED readVars

(* RIL_REQUEST_QUIT, or a hang-up of the device: the descriptor is closed  *)
(* before the main thread hears of it ...                                  *)
CloseForgetsCaller == reader' = "gone"
Close == reader' = "closed"
Leave ==
    /\ Close
    /\ events' = Append(events, "disconnected")
    /\ UNCHANGED wait_for_request_quit
    /\ UNCHANGED callVars /\ UNCHANGED wireVars

ReadQuit ==
    /\ reader = "run" /\ "quit" \in control
    /\ control' = control \ {"quit"}
    /\ Leave

DeviceHangsUp ==
    /\ reader = "run"
    /\ UNCHANGED control
    /\ Leave

(* ... and the request that may be pending is aborted last. *)
QuitRelease ==
    /\ reader = "closed"
    /\ reader' = "gone"
    /\ RecvNull
    /\ UNCHANGED <<cur, slice, result, wait_for_request_quit, control, events>>
    /\ UNCHANGED wireVars

----------------------------------------------------------------------------
(* The modem. *)

ModemAnswers ==
    \E n \in atModem :
        /\ atModem' = atModem \ {n} /\ inbox' = inbox \cup {n}
        /\ UNCHANGED <<inds, budget>> /\ UNCHANGED callVars /\ UNCHANGED readVars

ModemIndicates ==
    \E i \in Indications :
        /\ budget > 0 /\ budget' = budget - 1
        /\ inds' = inds \cup {i}
        /\ UNCHANGED <<atModem, inbox>> /\ UNCHANGED callVars /\ UNCHANGED readVars

----------------------------------------------------------------------------
Next ==
    \/ Send \/ SendFails \/ Expire \/ NextSlice \/ TimesOut \/ SpuriousWake
    \/ Returns \/ SignalStop \/ RequestQuit
    \/ RecvResponse \/ RecvIndication \/ ReadStop \/ IdleSecond
    \/ ReadQuit \/ DeviceHangsUp \/ QuitRelease
    \/ ModemAnswers \/ ModemIndicates

Spec == Init /\ [][Next]_vars

(* The reader's thread runs, and so does a caller that was woken.  Nothing *)
(* is assumed of the modem or of the clock.                                *)
FairSpec ==
    /\ Spec
    /\ WF_vars(RecvResponse) /\ WF_vars(RecvIndication) /\ WF_vars(ReadStop)
    /\ WF_vars(IdleSecond) /\ WF_vars(ReadQuit) /\ WF_vars(QuitRelease)
    /\ WF_vars(Returns) /\ WF_vars(NextSlice) /\ WF_vars(TimesOut)

----------------------------------------------------------------------------
(* Types of the thread's variables, and that no more than MaxReq numbers   *)
(* are in use.                                                             *)
TypeOK ==
    /\ caller \in {"idle", "blocked", "expired", "woken"}
    /\ cur \in 0..MaxReq /\ slice \in 0..Slices
    /\ s_pRequest \in 0..MaxReq /\ s_pResponse \in 0..MaxReq
    /\ result \in Results
    /\ reader \in {"run", "closed", "gone"}
    /\ wait_for_request_quit \in BOOLEAN
    /\ control \subseteq {"stop", "quit"}
    /\ atModem \subseteq 1..MaxReq /\ inbox \subseteq 1..MaxReq
    /\ inds \subseteq Indications /\ budget \in 0..MaxInd
    /\ events \in Seq(Indications \cup {"connected", "disconnected"})
    /\ lost \in BOOLEAN

(* QmiThreadSendQMITimeout hands out the answer to the very request it     *)
(* sent, however many earlier ones timed out and are answered late, unless *)
(* that answer is a whole cycle of transaction ids late.                   *)
OwnAnswer ==
    result.resp # 0 => result.resp = cur \/ cur - result.resp >= Tids

(* A caller that keeps waiting although its request was answered or        *)
(* aborted is one whose signal came just when its slice had expired: every *)
(* other path of QmiThreadRecvQMI that takes s_pRequest wakes it.          *)
WaitsOnlyIfSignalLost == caller \in Waiting /\ s_pRequest = 0 => lost

(* "main thread may pending on QmiThreadSendQMI()" (QmiWwanThread): when   *)
(* the reader is gone no request is parked with its caller waiting, since  *)
(* a request sent after the last abort finds the descriptor closed.        *)
NobodyStranded == reader = "gone" => ~(caller \in Waiting /\ s_pRequest # 0)

(* Once SIGTERM has reached the reader, a caller in its wait whose request *)
(* is pending comes out of it without waiting for the modem; the exception *)
(* is the signal that falls between two slices.                            *)
StopReleases ==
    (wait_for_request_quit /\ caller = "blocked" /\ s_pRequest # 0)
        ~> (caller = "idle" \/ lost)
=============================================================================
