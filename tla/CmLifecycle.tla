---------------------------- MODULE CmLifecycle ----------------------------
(***************************************************************************)
(* The sessions of a quectel-CM process (main, quectel_CM and the frame of *)
(* qmi_main in main.c): find the modem, make the pipes, start the reader   *)
(* thread, run the event loop, join the reader, and begin again if the     *)
(* modem hung up.  SIGINT and SIGTERM come at any point.  What the loop    *)
(* does with its other events is in ConnMgr.                               *)
(***************************************************************************)
EXTENDS Integers, Sequences

CONSTANTS MaxHangups,  \* bound: hang-ups and resets of the modem
          MaxStops,    \* bound: SIGINT and SIGTERM
          MaxOrphans   \* bound: readers left behind by a failed start

VARIABLES
    proc,     \* where the main thread is
    ready,    \* the descriptors the last poll reported, not yet served
    g_donot,  \* g_donot_exit_when_modem_hangup > 0
    pipes,    \* the socket pairs of the globals are open
    sigq,     \* signal_control_fd
    devq,     \* qmidevice_control_fd, reader to main
    ctlq,     \* qmidevice_control_fd, main to reader
    reader,   \* the reader thread of this session
    orphans,  \* readers of earlier sessions: still opening the device, on
              \* their old descriptors or on those of the globals;
              \* history: whether there ever was one
    hangups, stops,
    everHung  \* history: the loop has seen the modem go

vars == <<proc, ready, g_donot, pipes, sigq, devq, ctlq, reader, orphans,
          hangups, stops, everHung>>
queues == <<sigq, devq, ctlq>>
budgets == <<hangups, stops>>

Init ==
    /\ proc = "detect" /\ ready = {} /\ g_donot = FALSE /\ pipes = FALSE
    /\ sigq = <<>> /\ devq = <<>> /\ ctlq = <<>>
    /\ reader = "none" /\ orphans = [opening |-> 0, old |-> 0, new |-> 0,
                                     ever |-> FALSE]
    /\ hangups = MaxHangups /\ stops = MaxStops /\ everHung = FALSE

Alive == proc # "exited"
stopped == stops < MaxStops

(* A write to a descriptor that is closed, or not made yet, is lost. *)
Written(q, e) == IF pipes THEN Append(q, e) ELSE q

----------------------------------------------------------------------------
(* The main thread. *)

(* Back in main: another round after 3 s, or the end of the process. *)
EndSession == proc' = IF g_donot THEN "sleep" ELSE "exited"

SleepOver ==
    /\ proc = "sleep"
    /\ proc' = IF g_donot THEN "detect" ELSE "exited"
    /\ UNCHANGED <<ready, g_donot, pipes, queues, reader, orphans, budgets,
                   everHung>>

DetectFails ==
    /\ proc = "detect" /\ EndSession
    /\ UNCHANGED <<ready, g_donot, pipes, queues, reader, orphans, budgets,
                   everHung>>

(* New socket pairs replace the old ones, then the reader is started. *)
DetectSucceeds ==
    /\ proc = "detect" /\ proc' = "starting"
    /\ pipes' = TRUE /\ sigq' = <<>> /\ devq' = <<>> /\ ctlq' = <<>>
    /\ reader' = "opening"
    /\ orphans' = [orphans EXCEPT !.old = @ + orphans.new, !.new = 0]
    /\ UNCHANGED <<ready, g_donot, budgets, everHung>>

(* An early return: nobody tells the reader or waits for it. *)
Orphans == orphans.opening + orphans.old + orphans.new
LeaveReader ==
    CASE reader \in {"none", "gone"} -> UNCHANGED <<reader, orphans>>
      [] reader \in {"opening", "running"} ->
            /\ g_donot => Orphans < MaxOrphans
            /\ reader' = "none"
            /\ orphans' = IF reader = "opening"
                            THEN [orphans EXCEPT !.opening = @ + 1, !.ever = TRUE]
                            ELSE [orphans EXCEPT !.old = @ + 1, !.ever = TRUE]

(* The first event of the reader tells whether it has the device. *)
ReaderReports ==
    /\ proc = "starting" /\ devq # <<>>
    /\ devq' = Tail(devq)
    /\ IF Head(devq) = "connected"
         THEN proc' = "init" /\ UNCHANGED <<reader, orphans>>
         ELSE EndSession /\ LeaveReader
    /\ UNCHANGED <<ready, g_donot, pipes, sigq, ctlq, budgets, everHung>>

InitSucceeds ==
    /\ proc = "init" /\ proc' = "loop"
    /\ UNCHANGED <<ready, g_donot, pipes, queues, reader, orphans, budgets,
                   everHung>>

(* The modem does not answer. *)
InitFails ==
    /\ proc = "init" /\ EndSession /\ LeaveReader
    /\ UNCHANGED <<ready, g_donot, pipes, queues, budgets, everHung>>

Poll ==
    /\ proc = "loop" /\ ready = {}
    /\ ready' = {d \in {"sig", "dev"} : (d = "sig" /\ sigq # <<>>) \/
                                         (d = "dev" /\ devq # <<>>)}
    /\ ready' # {}
    /\ UNCHANGED <<proc, g_donot, pipes, queues, reader, orphans, budgets,
                   everHung>>

NoQuitRequest(q) == q
QuitRequest(q) == Written(q, "quit")

(* SIG_EVENT_STOP; the signal descriptor is served before the other. *)
HandleSignal ==
    /\ proc = "loop" /\ "sig" \in ready
    /\ sigq' = Tail(sigq) /\ ctlq' = QuitRequest(ctlq)
    /\ proc' = "join" /\ ready' = {}
    /\ UNCHANGED <<g_donot, pipes, devq, reader, orphans, budgets, everHung>>

ResetOnce(e) == IF e = "disconnected" THEN TRUE ELSE g_donot
RunAgain(e) == IF e \in {"disconnected", "reset"} THEN TRUE ELSE g_donot

HandleDevice ==
    /\ proc = "loop" /\ "dev" \in ready /\ "sig" \notin ready
    /\ devq' = Tail(devq) /\ ready' = {}
    /\ LET e == Head(devq)
       IN  /\ g_donot' = RunAgain(e)
           /\ proc' = IF e \in {"disconnected", "reset"} THEN "join" ELSE "loop"
           /\ ctlq' = IF e = "reset" THEN QuitRequest(ctlq) ELSE ctlq
           /\ everHung' = (everHung \/ e \in {"disconnected", "reset"})
    /\ UNCHANGED <<pipes, sigq, reader, orphans, budgets>>

NoJoin == TRUE
Joined == reader = "gone"

(* pthread_join and the end of qmi_main. *)
Join ==
    /\ proc = "join" /\ Joined
    /\ pipes' = FALSE /\ sigq' = <<>> /\ devq' = <<>> /\ ctlq' = <<>>
    /\ EndSession
    /\ UNCHANGED <<ready, g_donot, reader, orphans, budgets, everHung>>

----------------------------------------------------------------------------
(* The reader threads. *)

ReaderOpens ==
    /\ Alive /\ reader = "opening"
    /\ \/ reader' = "running" /\ devq' = Written(devq, "connected")
       \/ reader' = "gone" /\ devq' = Written(devq, "disconnected")
    /\ UNCHANGED <<proc, ready, g_donot, pipes, sigq, ctlq, orphans, budgets,
                   everHung>>

ReaderReads ==
    /\ Alive /\ reader = "running" /\ ctlq # <<>>
    /\ ctlq' = Tail(ctlq)
    /\ IF Head(ctlq) = "quit"
         THEN reader' = "gone" /\ devq' = Written(devq, "disconnected")
         ELSE UNCHANGED <<reader, devq>>
    /\ UNCHANGED <<proc, ready, g_donot, pipes, sigq, orphans, budgets, everHung>>

(* The device is gone: every thread that reads it leaves. *)
ReaderHangup ==
    /\ Alive /\ reader = "running" /\ hangups > 0
    /\ hangups' = hangups - 1
    /\ reader' = "gone" /\ devq' = Written(devq, "disconnected")
    /\ UNCHANGED <<proc, ready, g_donot, pipes, sigq, ctlq, orphans, stops,
                   everHung>>

(* The modem revoked the client ids. *)
ModemResets ==
    /\ Alive /\ reader = "running" /\ hangups > 0
    /\ hangups' = hangups - 1
    /\ devq' = Written(devq, "reset")
    /\ UNCHANGED <<proc, ready, g_donot, pipes, sigq, ctlq, reader, orphans, stops,
                   everHung>>

(* After its next wake-up a left-behind reader polls what the globals name *)
(* now, which are the descriptors of the new session.                      *)
OrphanMoves ==
    /\ Alive /\ orphans.old > 0
    /\ orphans' = [orphans EXCEPT !.old = @ - 1, !.new = @ + 1]
    /\ UNCHANGED <<proc, ready, g_donot, pipes, queues, reader, budgets, everHung>>

OrphanOpens ==
    /\ Alive /\ orphans.opening > 0
    /\ \/ /\ orphans' = [orphans EXCEPT !.opening = @ - 1, !.new = @ + 1]
          /\ devq' = Written(devq, "connected")
       \/ /\ orphans' = [orphans EXCEPT !.opening = @ - 1]
          /\ devq' = Written(devq, "disconnected")
    /\ UNCHANGED <<proc, ready, g_donot, pipes, sigq, ctlq, reader, budgets, everHung>>

OrphanReads ==
    /\ Alive /\ orphans.new > 0 /\ ctlq # <<>>
    /\ ctlq' = Tail(ctlq)
    /\ IF Head(ctlq) = "quit"
         THEN /\ orphans' = [orphans EXCEPT !.new = @ - 1]
              /\ devq' = Written(devq, "disconnected")
         ELSE UNCHANGED <<orphans, devq>>
    /\ UNCHANGED <<proc, ready, g_donot, pipes, sigq, reader, budgets, everHung>>

OrphanHangup ==
    /\ Alive /\ hangups > 0 /\ hangups' = hangups - 1
    /\ \E o \in {"old", "new"} :
           orphans[o] > 0 /\ orphans' = [orphans EXCEPT ![o] = @ - 1]
    /\ devq' = Written(devq, "disconnected")
    /\ UNCHANGED <<proc, ready, g_donot, pipes, sigq, ctlq, reader, stops, everHung>>

----------------------------------------------------------------------------
(* ql_sigaction, on top of whatever a thread is doing. *)
Signal ==
    /\ Alive /\ stops > 0 /\ stops' = stops - 1
    /\ g_donot' = FALSE
    /\ sigq' = Written(sigq, "STOP") /\ ctlq' = Written(ctlq, "STOP")
    /\ UNCHANGED <<proc, ready, pipes, devq, reader, orphans, hangups, everHung>>

Main == SleepOver \/ DetectFails \/ DetectSucceeds \/ ReaderReports
        \/ InitSucceeds \/ InitFails \/ Poll \/ HandleSignal \/ HandleDevice
        \/ Join
Reader == ReaderOpens \/ ReaderReads

Next == Main \/ Reader \/ ReaderHangup \/ ModemResets
        \/ OrphanOpens \/ OrphanMoves \/ OrphanReads \/ OrphanHangup \/ Signal

Spec == Init /\ [][Next]_vars

(* The kernel runs both threads.  That a start succeeds, that a modem is   *)
(* there or that it hangs up is nobody's promise.                          *)
FairSpec == Spec /\ WF_vars(Main) /\ WF_vars(Reader)

----------------------------------------------------------------------------
TypeOK ==
    /\ proc \in {"detect", "starting", "init", "loop", "join", "sleep", "exited"}
    /\ ready \in SUBSET {"sig", "dev"}
    /\ g_donot \in BOOLEAN /\ pipes \in BOOLEAN /\ everHung \in BOOLEAN
    /\ sigq \in Seq({"STOP"}) /\ ctlq \in Seq({"STOP", "quit"})
    /\ devq \in Seq({"connected", "disconnected", "reset"})
    /\ reader \in {"none", "opening", "running", "gone"}
    /\ orphans \in [opening : 0..(MaxOrphans + 1), old : 0..(MaxOrphans + 1),
                    new : 0..(MaxOrphans + 1), ever : BOOLEAN]
    /\ hangups \in 0..MaxHangups /\ stops \in 0..MaxStops

(* As long as no start has failed, one reader at a time serves the device: *)
(* a new session begins only when the reader before is gone.  Two of them  *)
(* would share the answers and the orders of one session (QmiWwanThread    *)
(* polls globals).                                                         *)
OneReader ==
    proc \in {"detect", "sleep"} =>
        reader \in {"none", "gone"} /\ (Orphans = 0 \/ orphans.ever)

(* A modem that hung up or reset once never ends the process: only a       *)
(* signal does (g_donot_exit_when_modem_hangup over all the returns of     *)
(* qmi_main and quectel_CM); the one request that ends it otherwise, a     *)
(* list of profiles that is not answered, is in QmiSetup.                  *)
HangupNeverExits == (proc = "exited" /\ everHung) => stopped

(* When the loop decides to end the session, the join comes to an end,     *)
(* unless a reader was left behind that may take the quit request.         *)
SessionEnds == (proc = "join") ~> (proc # "join" \/ orphans.ever)

(* The -k option hangs up a data call by sending SIGINT to its process.    *)
(* A signal is not forgotten: a loop that runs after it has the STOP still *)
(* to read.                                                                *)
StopNotForgotten == (stopped /\ proc = "loop") => sigq # <<>>

(* A STOP that the loop can read leads to the end of the session, with the *)
(* same exception.                                                         *)
StopEndsSession ==
    (proc = "loop" /\ sigq # <<>>) ~> (proc \in {"sleep", "exited"} \/ orphans.ever)

(* "main may be wating qmi response" (main.c:253): a signal gets the       *)
(* process out of its session, whatever went before.                       *)
StopAlwaysEnds ==
    (proc = "loop" /\ sigq # <<>>) ~> (proc \in {"sleep", "exited"})
=============================================================================
