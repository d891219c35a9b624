--------------------------- MODULE WorkModeProofs ---------------------------
(***************************************************************************)
(* What a request for the work mode of the gateway leaves behind, for any  *)
(* number of requests, uploads and reboots, when a request comes only      *)
(* after the scripts of those before have ended.                           *)
(***************************************************************************)
EXTENDS WorkMode, TLAPS

Fields == {"pc", "ask", "todo", "answer"}
Shape == DOMAIN job = Jobs /\ \A j \in Jobs : DOMAIN job[j] = Fields

(* A request comes when those before are done, and those to come have not  *)
(* asked for anything.                                                     *)
InTurn == \A q, r \in Requests : q < r /\ job[r].pc # "none" => job[q].pc = "done"
NotYet == \A r \in Requests : job[r].pc = "none" => job[r].ask = Unknown /\ job[r].answer = "none"

(* Only a request for BAST touches the station's files.                    *)
OnlyBast ==
  \A r \in Requests : job[r].pc \in {"remove", "copy", "adapt"} =>
    job[r].ask.wm = "BAST" /\ job[r].answer = "none"

(* The last request for BAST, from the time it has removed, copied and     *)
(* noted, until there is another.                                          *)
FilesOf(a) == {a.station} \X Needed(a.auth)
Emptied(r) == job[r].pc = "copy" => etc = {}
Copied(r) ==
  job[r].pc \in {"adapt", "open", "write", "background", "load", "script"}
    \/ job[r].answer = "success" => etc = FilesOf(job[r].ask)
Noted(r) ==
  job[r].pc \in {"background", "load", "script"} \/ job[r].answer = "success" =>
    (mode.wm = "BAST" => mode = job[r].ask)
Early == {"none", "remove", "copy", "adapt", "open", "write", "background"}
SuccessLate == \A r \in Requests : job[r].pc \in Early => job[r].answer = "none"

Kept == \A r \in LastBast : Emptied(r) /\ Copied(r) /\ Noted(r)

IInv == Shape /\ InTurn /\ NotYet /\ OnlyBast /\ SuccessLate /\ Kept

----------------------------------------------------------------------------
LEMMA Begins == Init => IInv
<1> SUFFICES ASSUME Init PROVE IInv
  OBVIOUS
<1>1. Shape
  BY DEF Init, Shape, Fields, Boot, Fresh
<1>2. \A r \in Requests : r \in Jobs /\ r # 0
  BY WorkModeAssumption DEF Requests, Jobs
<1>3. \A r \in Requests : job[r] = Fresh
  BY <1>2 DEF Init
<1>4. \A r \in Requests : job[r].pc = "none" /\ job[r].ask = Unknown /\ job[r].answer = "none"
  BY <1>3 DEF Fresh
<1>5. LastBast = {}
  BY <1>4 DEF LastBast, Unknown
<1> QED
  BY <1>1, <1>4, <1>5 DEF IInv, InTurn, NotYet, OnlyBast, SuccessLate, Kept

(* A step of one job that is at work: whose turn it is does not change,    *)
(* and neither does what anyone asked for.                                 *)
Moves(q) ==
  /\ DOMAIN job' = Jobs /\ DOMAIN job'[q] = Fields
  /\ \A j \in Jobs : j # q => job'[j] = job[j]
  /\ job'[q].ask = job[q].ask /\ job'[q].pc # "none"

LEMMA InJobs == \A r \in Requests : r \in Jobs /\ r # 0 /\ r \in Nat
BY WorkModeAssumption DEF Requests, Jobs

LEMMA Turns ==
    ASSUME IInv, NEW q \in Jobs, Active(q), Moves(q)
    PROVE  /\ Shape' /\ InTurn' /\ NotYet' /\ LastBast' = LastBast
           /\ \A r \in LastBast : r # q =>
                /\ job'[r] = job[r]
                /\ q \in Requests => job[q].ask.wm # "BAST"
<1> USE DEF IInv, Moves, Active
<1>1. Shape'
  BY DEF Shape
<1>2. InTurn'
  BY InJobs DEF InTurn
<1>3. NotYet'
  BY InJobs DEF NotYet
<1>4. \A r \in Requests : job'[r].ask = job[r].ask
  BY InJobs
<1>5. LastBast' = LastBast
  BY <1>4 DEF LastBast
<1>6. ASSUME NEW r \in LastBast, r # q
      PROVE  job'[r] = job[r] /\ (q \in Requests => job[q].ask.wm # "BAST")
  <2>1. r \in Requests /\ job[r].pc # "none"
    BY <1>6 DEF LastBast, NotYet, Unknown
  <2>2. q \in Requests => q > r
    BY <1>6, <2>1, InJobs DEF InTurn
  <2> QED
    BY <1>6, <2>1, <2>2, InJobs DEF LastBast
<1> QED
  BY <1>1, <1>2, <1>3, <1>5, <1>6

(* The steps of a job write its place, its answer or what is to be done.   *)
LEMMA Writes ==
    ASSUME Shape, NEW j \in Jobs, Active(j), NEW pc, NEW a, NEW t, pc # "none",
           \/ job' = [job EXCEPT ![j].pc = pc]
           \/ job' = [job EXCEPT ![j].pc = pc, ![j].answer = a]
           \/ job' = [job EXCEPT ![j].pc = pc, ![j].todo = t]
           \/ job' = [job EXCEPT ![j].todo = t]
    PROVE  /\ Moves(j)
           /\ job'[j].pc \in {pc, job[j].pc} /\ job'[j].answer \in {a, job[j].answer}
<1> USE DEF Shape, Moves, Active, Fields
<1>1. CASE job' = [job EXCEPT ![j].pc = pc]
  BY <1>1
<1>2. CASE job' = [job EXCEPT ![j].pc = pc, ![j].answer = a]
  BY <1>2
<1>3. CASE job' = [job EXCEPT ![j].pc = pc, ![j].todo = t]
  BY <1>3
<1>4. CASE job' = [job EXCEPT ![j].todo = t]
  BY <1>4
<1> QED
  BY <1>1, <1>2, <1>3, <1>4

(* What remains for a step that touches neither the files nor the mode.    *)
Same == UNCHANGED <<etc, mode>>

LEMMA Quietly ==
    ASSUME IInv, NEW j \in Jobs, Active(j), Moves(j), Same,
           job'[j].pc \in {job[j].pc, "done"}, job'[j].answer # "success" \/ job[j].pc = "script",
           job'[j].answer = job[j].answer \/ job'[j].pc = "done"
    PROVE  IInv'
<1>1. /\ Shape' /\ InTurn' /\ NotYet' /\ LastBast' = LastBast
      /\ \A r \in LastBast : r # j => job'[r] = job[r]
  BY Turns
<1>2. OnlyBast' /\ SuccessLate'
  BY InJobs DEF IInv, OnlyBast, SuccessLate, Early, Moves
<1>3. Kept'
  BY <1>1 DEF IInv, Kept, Emptied, Copied, Noted, Same, Moves, FilesOf
<1> QED
  BY <1>1, <1>2, <1>3 DEF IInv

LEMMA RequestKeeps == ASSUME Sequential, IInv, NEW r \in Requests, Request(r) PROVE IInv'
<1>1. PICK a \in Asked :
        job' = [job EXCEPT ![r].ask = a,
                  ![r].pc = CASE a.wm = "BAST" -> "remove"
                              [] a.wm \in {"CLOSE", "RESTART"} -> "background"
                              [] OTHER -> "open"]
  BY Zenon DEF Request
<1>2. /\ job[r].pc = "none" /\ (r > 1 => job[r - 1].pc # "none")
      /\ \A j \in Jobs : job[j].pc \in {"none", "done"}
      /\ UNCHANGED <<mode, etc>> /\ r \in Jobs
  BY InJobs DEF Request, Quiet, Active
<1>3. /\ Shape' /\ job'[r].answer = job[r].answer /\ job'[r].ask = a
      /\ job'[r].pc \in {"remove", "background", "open"}
      /\ job'[r].pc = "remove" <=> a.wm = "BAST"
      /\ \A j \in Jobs : j # r => job'[j] = job[j]
  BY <1>1, <1>2 DEF IInv, Shape, Fields
<1>4. \A q \in Requests : q < r => job[q].pc = "done"
  <2>1. \A q \in Requests : q < r - 1 => job[q].pc = "done"
    <3> SUFFICES ASSUME NEW q \in Requests, q < r - 1 PROVE job[q].pc = "done"
      OBVIOUS
    <3>1. r - 1 \in Requests /\ r > 1
      BY WorkModeAssumption DEF Requests
    <3> QED
      BY <3>1, <1>2 DEF IInv, InTurn
  <2>2. r > 1 => r - 1 \in Requests /\ job[r - 1].pc = "done"
    BY <1>2, InJobs, WorkModeAssumption DEF Requests
  <2> QED
    BY <2>1, <2>2, WorkModeAssumption DEF Requests
<1>5. \A q \in Requests : q > r => job[q].pc = "none"
  BY <1>2 DEF IInv, InTurn
<1>6. InTurn'
  BY <1>3, <1>4, <1>5, InJobs DEF IInv, InTurn
<1>7. NotYet' /\ OnlyBast' /\ SuccessLate'
  BY <1>2, <1>3, InJobs DEF IInv, NotYet, OnlyBast, SuccessLate, Early
<1>8. ASSUME NEW q \in LastBast' PROVE Emptied(q)' /\ Copied(q)' /\ Noted(q)'
  <2>1. CASE q = r
    <3>1. job'[r].pc = "remove" /\ job'[r].answer = "none"
      BY <1>2, <1>3, <1>8, <2>1 DEF LastBast, IInv, NotYet
    <3> QED
      BY <2>1, <3>1 DEF Emptied, Copied, Noted
  <2>2. CASE q # r
    <3>1. q \in Requests /\ job'[q] = job[q] /\ job[q].ask.wm = "BAST"
      BY <1>3, <1>8, <2>2, InJobs DEF LastBast
    <3>2. \A k \in Requests : k > q => job[k].ask.wm # "BAST"
      <4>1. job[r].ask.wm # "BAST"
        BY <1>2 DEF IInv, NotYet, Unknown
      <4> QED
        BY <1>3, <1>8, <4>1, InJobs DEF LastBast
    <3>3. q \in LastBast
      BY <3>1, <3>2 DEF LastBast
    <3> QED
      BY <3>1, <3>3, <1>2 DEF IInv, Kept, Emptied, Copied, Noted, FilesOf
  <2> QED
    BY <2>1, <2>2
<1> QED
  BY <1>3, <1>6, <1>7, <1>8 DEF IInv, Kept

(* The steps of a request.  r is the only one at work, so what the last    *)
(* request for BAST has left is at stake only if r is that one.            *)
LEMMA RequestStepKeeps == ASSUME IInv, NEW r \in Requests, RequestStep(r) PROVE IInv'
<1> DEFINE OtherKept ==
        /\ Shape' /\ InTurn' /\ NotYet' /\ LastBast' = LastBast
        /\ \A q \in LastBast : q # r => job'[q] = job[q] /\ job[r].ask.wm # "BAST"
        /\ \A q \in Requests : q # r => job'[q] = job[q]
<1>1. r \in Jobs /\ Shape
  BY InJobs DEF IInv
<1>2. ASSUME Active(r), Moves(r) PROVE OtherKept
  BY <1>1, <1>2, Turns, InJobs DEF Moves
<1> USE DEF Goes, Ends
<1>3. CASE RemoveFiles(r)
  <2>1. /\ Active(r) /\ Moves(r) /\ job[r].pc = "remove" /\ job'[r].pc = "copy"
        /\ job'[r].answer = job[r].answer /\ etc' = {} /\ mode' = mode
    BY <1>1, <1>3 DEF RemoveFiles, Active, Moves, Shape, Fields
  <2>2. OtherKept
    BY <1>2, <2>1
  <2>3. job[r].ask.wm = "BAST" /\ job[r].answer = "none" /\ job'[r].ask = job[r].ask
    BY <2>1 DEF IInv, OnlyBast, Moves
  <2>4. OnlyBast' /\ SuccessLate'
    BY <2>1, <2>2, <2>3 DEF IInv, OnlyBast, SuccessLate, Early
  <2>5. Kept'
    BY <2>1, <2>2, <2>3 DEF Kept, Emptied, Copied, Noted
  <2> QED
    BY <2>2, <2>4, <2>5 DEF IInv
<1>4. CASE CopyFiles(r)
  <2>1. /\ Active(r) /\ Moves(r) /\ job[r].pc = "copy" /\ mode' = mode
        /\ \/ job'[r].pc = "adapt" /\ job'[r].answer = job[r].answer
              /\ FilesOf(job[r].ask) \subseteq uploaded
           \/ job'[r].pc = "done" /\ job'[r].answer = "failed"
    BY <1>1, <1>4 DEF CopyFiles, Active, Moves, Shape, Fields, FilesOf
  <2>2. OtherKept
    BY <1>2, <2>1
  <2>3. job[r].ask.wm = "BAST" /\ job[r].answer = "none" /\ job'[r].ask = job[r].ask
    BY <2>1 DEF IInv, OnlyBast, Moves
  <2>4. OnlyBast' /\ SuccessLate'
    BY <2>1, <2>2, <2>3 DEF IInv, OnlyBast, SuccessLate, Early
  <2>5. ASSUME r \in LastBast, job'[r].pc = "adapt" PROVE etc' = FilesOf(job[r].ask)
    <3>1. etc = {}
      BY <2>1, <2>5 DEF IInv, Kept, Emptied
    <3>2. PICK replaced : etc' = (etc \ replaced) \cup (FilesOf(job[r].ask) \cap uploaded)
      BY <1>4, Zenon DEF CopyFiles, FilesOf
    <3> QED
      BY <2>1, <2>5, <3>1, <3>2
  <2>6. Kept'
    BY <2>1, <2>2, <2>3, <2>5 DEF Kept, Emptied, Copied, Noted, FilesOf
  <2> QED
    BY <2>2, <2>4, <2>6 DEF IInv
<1>5. CASE AdaptStation(r)
  <2>1. /\ Active(r) /\ Moves(r) /\ job[r].pc = "adapt" /\ mode' = mode /\ etc' = etc
        /\ \/ job'[r].pc = "open" /\ job'[r].answer = job[r].answer
           \/ job'[r].pc = "done" /\ job'[r].answer = "failed"
    BY <1>1, <1>5 DEF AdaptStation, Active, Moves, Shape, Fields
  <2>2. OtherKept
    BY <1>2, <2>1
  <2>3. job[r].ask.wm = "BAST" /\ job[r].answer = "none" /\ job'[r].ask = job[r].ask
    BY <2>1 DEF IInv, OnlyBast, Moves
  <2>4. OnlyBast' /\ SuccessLate'
    BY <2>1, <2>2, <2>3 DEF IInv, OnlyBast, SuccessLate, Early
  <2>5. Kept'
    BY <2>1, <2>2, <2>3 DEF IInv, Kept, Emptied, Copied, Noted, FilesOf
  <2> QED
    BY <2>2, <2>4, <2>5 DEF IInv
<1>6. CASE OpenModeConf(r)
  <2>1. /\ Active(r) /\ Moves(r) /\ job[r].pc = "open" /\ job'[r].pc = "write"
        /\ mode'.wm = "cut" /\ etc' = etc /\ job'[r].answer = job[r].answer
    BY <1>1, <1>6 DEF OpenModeConf, Active, Moves, Shape, Fields, Unknown
  <2>2. OtherKept
    BY <1>2, <2>1
  <2>3. job[r].answer = "none" /\ job'[r].ask = job[r].ask
    BY <2>1 DEF IInv, SuccessLate, Early, Moves
  <2>4. OnlyBast' /\ SuccessLate'
    BY <2>1, <2>2, <2>3 DEF IInv, OnlyBast, SuccessLate, Early
  <2>5. Kept'
    BY <2>1, <2>2, <2>3 DEF IInv, Kept, Emptied, Copied, Noted, FilesOf
  <2> QED
    BY <2>2, <2>4, <2>5 DEF IInv
<1>7. CASE WriteModeConf(r)
  <2>1. /\ Active(r) /\ Moves(r) /\ job[r].pc = "write" /\ job'[r].pc = "background"
        /\ mode' = job[r].ask /\ etc' = etc /\ job'[r].answer = job[r].answer
    BY <1>1, <1>7 DEF WriteModeConf, Active, Moves, Shape, Fields
  <2>2. OtherKept
    BY <1>2, <2>1
  <2>3. job[r].answer = "none" /\ job'[r].ask = job[r].ask
    BY <2>1 DEF IInv, SuccessLate, Early, Moves
  <2>4. OnlyBast' /\ SuccessLate'
    BY <2>1, <2>2, <2>3 DEF IInv, OnlyBast, SuccessLate, Early
  <2>5. Kept'
    BY <2>1, <2>2, <2>3 DEF IInv, Kept, Emptied, Copied, Noted, FilesOf
  <2> QED
    BY <2>2, <2>4, <2>5 DEF IInv
<1>8. CASE Background(r)
  <2>1. /\ Active(r) /\ Moves(r) /\ job[r].pc = "background" /\ job'[r].pc = "load"
        /\ mode' = mode /\ etc' = etc
    BY <1>1, <1>8 DEF Background, Active, Moves, Shape, Fields
  <2>2. OtherKept
    BY <1>2, <2>1
  <2>3. job'[r].ask = job[r].ask
    BY <2>1 DEF Moves
  <2>4. OnlyBast' /\ SuccessLate'
    BY <2>1, <2>2, <2>3 DEF IInv, OnlyBast, SuccessLate, Early
  <2>5. Kept'
    BY <2>1, <2>2, <2>3 DEF IInv, Kept, Emptied, Copied, Noted, FilesOf
  <2> QED
    BY <2>2, <2>4, <2>5 DEF IInv
<1>9. CASE LoadLoraMode(r)
  <2>1. /\ Active(r) /\ Moves(r) /\ job[r].pc = "load" /\ job'[r].pc = "script"
        /\ mode' = mode /\ etc' = etc /\ job'[r].answer = job[r].answer
    <3>1. PICK t : job' = [job EXCEPT ![r].pc = "script", ![r].todo = t]
      BY <1>9, Zenon DEF LoadLoraMode
    <3> QED
      BY <1>1, <1>9, <3>1 DEF LoadLoraMode, Active, Moves, Shape, Fields
  <2>2. OtherKept
    BY <1>2, <2>1
  <2>3. job'[r].ask = job[r].ask
    BY <2>1 DEF Moves
  <2>4. OnlyBast' /\ SuccessLate'
    BY <2>1, <2>2, <2>3 DEF IInv, OnlyBast, SuccessLate, Early
  <2>5. Kept'
    BY <2>1, <2>2, <2>3 DEF IInv, Kept, Emptied, Copied, Noted, FilesOf
  <2> QED
    BY <2>2, <2>4, <2>5 DEF IInv
<1> QED
  BY <1>3, <1>4, <1>5, <1>6, <1>7, <1>8, <1>9 DEF RequestStep

(* The steps of a script leave the files and the mode file alone.          *)
LEMMA ScriptKeeps ==
    ASSUME IInv, NEW j \in Jobs, ScriptStep(j) \/ GiveUp(j)
    PROVE  IInv'
<1>1. job[j].pc = "script" /\ Same
  BY Zenon DEF ScriptStep, CheckService, StopService, StartService, OpenInstance, EndScript, GiveUp,
         At, Same
<1>2. \/ \E t : job' = [job EXCEPT ![j].todo = t]
      \/ job' = [job EXCEPT ![j].pc = "done"]
  BY Zenon DEF ScriptStep, CheckService, StopService, StartService, OpenInstance, EndScript, GiveUp,
         Proceeds, Goes
<1>3. Active(j) /\ Shape
  BY <1>1 DEF Active, IInv
<1>4. CASE \E t : job' = [job EXCEPT ![j].todo = t]
  <2>1. PICK t : job' = [job EXCEPT ![j].todo = t]
    BY <1>4, Zenon
  <2>2. Moves(j) /\ job'[j].pc = job[j].pc /\ job'[j].answer = job[j].answer
    BY <1>1, <1>3, <2>1 DEF Moves, Shape, Fields
  <2> QED
    BY <1>1, <1>3, <2>2, Quietly
<1>5. CASE job' = [job EXCEPT ![j].pc = "done"]
  <2>1. Moves(j) /\ job'[j].pc = "done" /\ job'[j].answer = job[j].answer
    BY <1>1, <1>3, <1>5 DEF Moves, Shape, Fields
  <2> QED
    BY <1>1, <1>3, <2>1, Quietly
<1> QED
  BY <1>2, <1>4, <1>5

LEMMA RebootKeeps == ASSUME IInv, Reboot PROVE IInv'
<1>1. /\ DOMAIN job' = Jobs /\ UNCHANGED <<mode, etc>>
      /\ job'[0] = Boot
      /\ \A j \in Requests :
           /\ Active(j) => job'[j] = [job[j] EXCEPT !.pc = "done", !.todo = <<>>]
           /\ ~ Active(j) => job'[j] = job[j]
  <2>1. 0 \in Jobs
    BY WorkModeAssumption DEF Jobs
  <2>2. \A j \in Requests : j \in Jobs /\ j # 0
    BY InJobs
  <2> HIDE DEF Boot, Active, Jobs, Requests
  <2> QED
    BY <2>1, <2>2, Zenon DEF Reboot
<1>2. ASSUME NEW j \in Requests
      PROVE  /\ DOMAIN job'[j] = Fields /\ job'[j].ask = job[j].ask
             /\ job'[j].answer = job[j].answer
             /\ job'[j].pc = IF Active(j) THEN "done" ELSE job[j].pc
  <2>1. DOMAIN job[j] = Fields
    BY InJobs DEF IInv, Shape
  <2>2. CASE Active(j)
    BY <1>1, <2>1, <2>2, Zenon DEF Fields
  <2>3. CASE ~ Active(j)
    BY <1>1, <2>1, <2>3, Zenon
  <2> QED
    BY <2>2, <2>3
<1>3. Shape'
  <2>1. DOMAIN job'[0] = Fields
    BY <1>1, Zenon DEF Boot, Fresh, Fields
  <2>2. \A j \in Jobs : j = 0 \/ j \in Requests
    BY WorkModeAssumption DEF Jobs, Requests
  <2> QED
    BY <1>1, <1>2, <2>1, <2>2, Zenon DEF Shape
<1>4. InTurn' /\ NotYet' /\ OnlyBast' /\ SuccessLate'
  BY <1>2 DEF IInv, InTurn, NotYet, OnlyBast, SuccessLate, Early, Active
<1>5. LastBast' = LastBast
  BY <1>2 DEF LastBast
<1>6. \A r \in LastBast : r \in Requests
  BY Zenon DEF LastBast
<1>7. Kept'
  BY <1>1, <1>2, <1>5, <1>6, Zenon DEF IInv, Kept, Emptied, Copied, Noted, FilesOf, Active
<1> QED
  BY <1>3, <1>4, <1>7 DEF IInv

LEMMA Keeps == ASSUME Sequential, IInv, [Next]_vars PROVE IInv'
<1>1. CASE UNCHANGED <<mode, etc, job>>
  BY <1>1 DEF IInv, Shape, InTurn, NotYet, OnlyBast, SuccessLate, Kept, LastBast, Emptied,
              Copied, Noted
<1>2. CASE NetworkUp \/ NetworkDown \/ (\E b \in Batches : Upload(b)) \/ UNCHANGED vars
  BY <1>1, <1>2 DEF NetworkUp, NetworkDown, Upload, vars
<1> QED
  BY <1>2, RequestKeeps, RequestStepKeeps, ScriptKeeps, RebootKeeps DEF Next

(* When a request comes only after the scripts of those before have ended, *)
(* then after the last request for BAST that was answered with success,    *)
(* and whatever requests for other modes, uploads and reboots came since,  *)
(* /etc/basicstation holds exactly the files of that request's station and *)
(* authentication mode, and a mode file that says BAST says what it asked. *)
THEOREM StationFilesOfTheMode == ASSUME Sequential PROVE Spec => []FilesOfTheMode
<1>1. IInv => FilesOfTheMode
  BY DEF IInv, FilesOfTheMode, Kept, Copied, Noted, FilesOf
<1>2. IInv /\ [Next]_vars => IInv'
  BY Keeps
<1> QED
  BY Begins, <1>1, <1>2, PTL DEF Spec

=============================================================================
