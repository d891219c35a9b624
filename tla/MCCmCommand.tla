---------------------------- MODULE MCCmCommand ----------------------------
(***************************************************************************)
(* The threads of quectel-CM for TLC: a behaviour is about one session's   *)
(* exchange of commands between the main thread and the reader (CmCommand) *)
(* or about the sessions of a process (CmLifecycle).                       *)
(***************************************************************************)
EXTENDS CmCommand

CONSTANTS MaxHangups, MaxStops, MaxOrphans

VARIABLES view, proc, ready, g_donot, pipes, sigq, devq, ctlq, lreader, orphans,
          hangups, stops, everHung

L == INSTANCE CmLifecycle WITH reader <- lreader

lifeVars == <<proc, ready, g_donot, pipes, sigq, devq, ctlq, lreader, orphans,
              hangups, stops, everHung>>
allVars == <<view, vars, lifeVars>>

InitOne == view \in {"command", "process"} /\ Init /\ L!Init

Of(Step) == view = "command" /\ Step /\ UNCHANGED <<view, lifeVars>>
OfProcess(Step) == view = "process" /\ Step /\ UNCHANGED <<view, vars>>

NextOne == Of(Next) \/ OfProcess(L!Next)

SpecOne == InitOne /\ [][NextOne]_allVars

(* The fairness of both modules; what is fair of the one goes together     *)
(* with what is fair of the other, as they never meet in a behaviour.      *)
FairOne ==
    /\ SpecOne
    /\ WF_allVars(Of(RecvResponse) \/ OfProcess(L!Main))
    /\ WF_allVars(Of(RecvIndication) \/ OfProcess(L!Reader))
    /\ WF_allVars(Of(ReadStop)) /\ WF_allVars(Of(IdleSecond))
    /\ WF_allVars(Of(ReadQuit)) /\ WF_allVars(Of(QuitRelease))
    /\ WF_allVars(Of(Returns)) /\ WF_allVars(Of(NextSlice)) /\ WF_allVars(Of(TimesOut))

----------------------------------------------------------------------------
(* A modem that hangs up never ends the process, and one reader at a time  *)
(* serves it (CmLifecycle).                                                *)
HangupNeverExits == L!HangupNeverExits
OneReader == L!OneReader

(* A stop is obeyed: a caller that waits for the modem comes back          *)
(* (CmCommand), and the session ends (CmLifecycle), with the exceptions    *)
(* that those modules list.                                                *)
StopObeyed == StopReleases /\ L!StopEndsSession
=============================================================================
