----------------------------- MODULE AtChannel -----------------------------
(***************************************************************************)
(* AT commands of quectel-CM (atchannel.c, atc.c).  The main thread writes *)
(* one command at a time and waits for its final response; a reader thread *)
(* takes the lines of the modem apart; atc_read_thread opens the channel   *)
(* and closes it.  No line says which command it answers: what a line is   *)
(* depends only on the command that waits when it is read.  Commands are   *)
(* numbered in the order of their writing; "of" is history, the number of  *)
(* the command a line really answers, 0 for a line nobody asked for.       *)
(***************************************************************************)
EXTENDS Integers, Sequences, FiniteSets

CONSTANTS MaxCmd,      \* bound: commands written
          Tries,       \* HANDSHAKE_RETRY_COUNT
          Timeouts,    \* bound: commands that time out
          Strays,      \* bound: final responses nobody asked for
          Urcs,        \* bound: unsolicited result codes
          Quirks,      \* bound: "OK" without the line that was asked for
          Smss,        \* bound: short messages announced
          Hangups, Stops  \* bounds: the modem goes away, the session ends

ASSUME ChannelConstants ==
    /\ {MaxCmd, Tries, Timeouts, Strays, Urcs, Quirks,
        Smss, Hangups, Stops} \subseteq Nat
    /\ Tries > 0

VARIABLES
    pc,              \* main thread: where it is in its commands
    try,             \* attempts of at_handshake
    cmd,             \* the command being waited for: number and s_type
    sp_response,     \* intermediates and final response collected for it
    s_fd,            \* whether the descriptor is open
    s_readerClosed,
    reader, buf,     \* reader thread and its s_ATBuffer
    sms,             \* readerLoop holds the first line of a short message
    closing,         \* at_close has closed the descriptor
    tty,             \* lines the modem has written
    modem,           \* commands the modem has not answered
    hung,            \* the modem is gone
    result,          \* what the last command returned
    told,            \* an event went to the main loop since the last URC
    slips,           \* history: reasons for the answers to have shifted
    callback,        \* history: s_onReaderClosed was called
    swallowed,       \* history: lines taken for the body of a short message
    left             \* what the bounds still allow

mainVars == <<pc, try, cmd, result>>
chanVars == <<s_fd, s_readerClosed, closing, callback>>
readVars == <<reader, buf, sms, told, swallowed>>
wireVars == <<tty, modem, hung>>
vars == <<mainVars, sp_response, chanVars, readVars, wireVars, slips, left>>

Types == {"NO_RESULT", "NUMERIC", "SINGLELINE", "MULTILINE"}
Lines == [kind : {"info", "urc", "ok", "error", "sms", "body"}, of : 0..MaxCmd]
Line(k, n) == [kind |-> k, of |-> n]
NoLine == Line("body", 0)
NoResponse == [p_intermediates |-> <<>>, final |-> NoLine]
Waiting == {"shaking", "waiting"}
NoResult == [err |-> "none", line |-> NoLine, of |-> 0, n |-> 0]
IsFinal(l) == l.kind \in {"ok", "error"}

Init ==
    /\ pc = "start" /\ try = 0 /\ cmd = [n |-> 0, type |-> "NO_RESULT"]
    /\ sp_response = NoResponse
    /\ s_fd = TRUE /\ s_readerClosed = FALSE /\ closing = FALSE
    /\ reader = "top" /\ buf = <<>> /\ sms = FALSE
    /\ tty = <<>> /\ modem = <<>> /\ hung = FALSE
    /\ result = NoResult
    /\ told = TRUE /\ slips = 0 /\ callback = FALSE /\ swallowed = {}
    /\ left = [timeouts |-> Timeouts, strays |-> Strays, urcs |-> Urcs,
               quirks |-> Quirks, smss |-> Smss, hangups |-> Hangups, stops |-> Stops]

(* Everything written to the modem whose final response is not read yet. *)
Outstanding == Len(modem) + Cardinality({i \in DOMAIN (buf \o tty) : IsFinal((buf \o tty)[i])})

----------------------------------------------------------------------------
(* The main thread, which holds cm_command_mutex except while it waits. *)

(* at_send_command_full_nolock up to the wait.  A channel that is closed,  *)
(* or a modem that is gone, makes the write fail.                          *)
Write(type, next) ==
    /\ s_fd /\ ~s_readerClosed /\ cmd.n < MaxCmd
    /\ cmd' = [n |-> cmd.n + 1, type |-> type]
    /\ sp_response' = NoResponse /\ result' = NoResult
    /\ modem' = IF hung THEN modem
                ELSE Append(modem, [n |-> cmd.n + 1, type |-> type, told |-> FALSE])
    /\ slips' = IF Outstanding = 0 THEN 0 ELSE slips
    /\ pc' = next

WriteFails ==
    /\ pc = "idle"
    /\ hung \/ ~s_fd \/ s_readerClosed
    /\ result' = [NoResult EXCEPT !.err =
                      IF s_fd /\ ~s_readerClosed THEN "generic" ELSE "closed"]
    /\ UNCHANGED <<pc, try, cmd, sp_response, slips, left>>
    /\ UNCHANGED chanVars /\ UNCHANGED readVars /\ UNCHANGED wireVars

Send ==
    /\ pc = "idle"
    /\ \E type \in Types : Write(type, "waiting")
    /\ UNCHANGED <<try, tty, hung, left>> /\ UNCHANGED chanVars /\ UNCHANGED readVars

(* at_handshake tries ATE0Q0V1 until one attempt returns 0. *)
Handshake ==
    /\ pc = "start" /\ try < Tries
    /\ try' = try + 1
    /\ Write("NO_RESULT", "shaking")
    /\ UNCHANGED <<tty, hung, left>> /\ UNCHANGED chanVars /\ UNCHANGED readVars

HandshakeFails ==
    /\ pc = "start"
    /\ try = Tries \/ ~s_fd \/ s_readerClosed
    /\ pc' = "failed"
    /\ UNCHANGED <<try, cmd, result, sp_response, slips, left>>
    /\ UNCHANGED chanVars /\ UNCHANGED readVars /\ UNCHANGED wireVars

(* What a command type makes of success without an intermediate response. *)
ErrorOf(final) ==
    IF s_readerClosed THEN "closed"
    ELSE IF /\ final.kind = "ok" /\ sp_response.p_intermediates = <<>>
            /\ cmd.type \in {"SINGLELINE", "NUMERIC"} THEN "invalid"
    ELSE IF final.kind = "ok" THEN "ok" ELSE "error"

FirstOf(lines) == IF lines = <<>> THEN NoLine ELSE lines[1]

(* Woken by handleFinalResponse, or because the channel was closed. *)
Returns ==
    /\ pc \in Waiting
    /\ IsFinal(sp_response.final) \/ s_readerClosed
    /\ result' = [err |-> ErrorOf(sp_response.final), n |-> cmd.n,
                  line |-> FirstOf(sp_response.p_intermediates),
                  of |-> sp_response.final.of]
    /\ sp_response' = NoResponse
    /\ pc' = CASE pc = "waiting" -> "idle"
               [] pc = "shaking" /\ ~s_readerClosed -> "pause"
               [] OTHER -> "start"
    /\ UNCHANGED <<try, cmd, slips, left>>
    /\ UNCHANGED chanVars /\ UNCHANGED readVars /\ UNCHANGED wireVars

(* pthread_cond_timeout_np expires: the response is dropped, even when a   *)
(* final response came at the last moment.                                 *)
TimesOut ==
    /\ pc \in Waiting /\ left.timeouts > 0
    /\ left' = [left EXCEPT !.timeouts = @ - 1]
    /\ result' = [err |-> "timeout", line |-> NoLine, of |-> 0, n |-> cmd.n]
    /\ sp_response' = NoResponse /\ slips' = slips + 1
    /\ pc' = IF pc = "waiting" THEN "idle" ELSE "start"
    /\ UNCHANGED <<try, cmd>>
    /\ UNCHANGED chanVars /\ UNCHANGED readVars /\ UNCHANGED wireVars

(* The second at_handshake sleeps, taken to be enough for the responses of *)
(* its earlier attempts to come in: the channel is quiet.                  *)
NoPause == pc = "pause"
Drained == pc = "pause" /\ (Outstanding = 0 \/ s_readerClosed)

Pause ==
    /\ Drained
    /\ pc' = "idle" /\ slips' = 0 /\ result' = NoResult
    /\ UNCHANGED <<try, cmd, sp_response, left>>
    /\ UNCHANGED chanVars /\ UNCHANGED readVars /\ UNCHANGED wireVars

----------------------------------------------------------------------------
(* The reader thread. *)

(* handleUnsolicited and onUnsolicited: a line with the prefix of a state  *)
(* report becomes an event for the main loop, whoever asked for it.        *)
IsReport(l) == l.kind = "urc" \/ (l.kind = "info" /\ l.of # 0)
Unsolicited(l) == told' = IF IsReport(l) THEN TRUE ELSE told

(* addIntermediate is called for the line. *)
TakesAll(l) == cmd.type # "NO_RESULT" /\ l.kind \in {"info", "urc"}
Takes(l) ==
    CASE cmd.type = "NUMERIC" -> l.kind = "info" /\ sp_response.p_intermediates = <<>>
      [] cmd.type = "SINGLELINE" -> /\ l.kind \in {"info", "urc"}
                                    /\ sp_response.p_intermediates = <<>>
      [] cmd.type = "MULTILINE" -> l.kind \in {"info", "urc"}
      [] OTHER -> FALSE

(* processLine *)
ProcessLine(l) ==
    IF pc \notin Waiting THEN Unsolicited(l) /\ UNCHANGED sp_response
    ELSE IF IsFinal(l)
         THEN sp_response' = [sp_response EXCEPT !.final = l] /\ UNCHANGED told
    ELSE IF Takes(l)
         THEN /\ sp_response' = [sp_response EXCEPT !.p_intermediates = Append(@, l)]
              /\ told' = IF l.kind = "urc" THEN FALSE ELSE told
    ELSE Unsolicited(l) /\ UNCHANGED sp_response

(* readerLoop: one line of the buffer.  After the first line of a short    *)
(* message the next line is its body, whatever it says.                    *)
ReadLine ==
    /\ reader = "top" /\ buf # <<>>
    /\ buf' = Tail(buf)
    /\ LET l == Head(buf) IN
          CASE sms -> /\ sms' = FALSE /\ swallowed' = swallowed \cup {l.kind}
                      /\ UNCHANGED <<sp_response, told>>
            [] ~sms /\ l.kind = "sms" -> sms' = TRUE /\ UNCHANGED <<sp_response, told, swallowed>>
            [] OTHER -> ProcessLine(l) /\ UNCHANGED <<sms, swallowed>>
    /\ UNCHANGED <<reader, slips, left>>
    /\ UNCHANGED mainVars /\ UNCHANGED chanVars /\ UNCHANGED wireVars

(* readline with an empty buffer polls an open descriptor without a limit. *)
Poll ==
    /\ reader = "top" /\ buf = <<>>
    /\ reader' = IF s_fd THEN "poll" ELSE "eof"
    /\ UNCHANGED <<buf, sms, told, swallowed, sp_response, slips, left>>
    /\ UNCHANGED mainVars /\ UNCHANGED chanVars /\ UNCHANGED wireVars

(* Input or a hang-up ends the poll; at_close in another thread does not.  *)
PollEnds ==
    /\ reader = "poll" /\ (tty # <<>> \/ hung)
    /\ \/ /\ s_fd /\ tty # <<>>
          /\ buf' = tty /\ tty' = <<>> /\ reader' = "top"
       \/ /\ ~s_fd \/ hung
          /\ reader' = "eof" /\ UNCHANGED <<buf, tty>>
    /\ UNCHANGED <<sms, told, swallowed, sp_response, slips, left, modem, hung>>
    /\ UNCHANGED mainVars /\ UNCHANGED chanVars

(* onReaderClosed tests s_readerClosed before it takes the mutex. *)
ReaderClosedTest ==
    /\ reader = "eof"
    /\ reader' = IF s_readerClosed THEN "gone" ELSE "closing"
    /\ UNCHANGED <<buf, sms, told, swallowed, sp_response, slips, left>>
    /\ UNCHANGED mainVars /\ UNCHANGED chanVars /\ UNCHANGED wireVars

NoFlag == s_readerClosed
Flag == TRUE

OnReaderClosed ==
    /\ reader = "closing"
    /\ reader' = "gone" /\ s_readerClosed' = Flag /\ callback' = TRUE
    /\ UNCHANGED <<buf, sms, told, swallowed, sp_response, s_fd, closing, slips, left>>
    /\ UNCHANGED mainVars /\ UNCHANGED wireVars

----------------------------------------------------------------------------
(* atc_read_thread: it leaves its poll on a hang-up or a stop of the       *)
(* session and calls at_close, which closes the descriptor first.          *)

AtClose ==
    /\ s_fd
    /\ \/ hung /\ UNCHANGED left
       \/ left.stops > 0 /\ left' = [left EXCEPT !.stops = @ - 1]
    /\ s_fd' = FALSE /\ closing' = TRUE
    /\ UNCHANGED <<s_readerClosed, callback, sp_response, slips>>
    /\ UNCHANGED mainVars /\ UNCHANGED readVars /\ UNCHANGED wireVars

AtCloseFlag ==
    /\ closing
    /\ closing' = FALSE /\ s_readerClosed' = Flag
    /\ UNCHANGED <<s_fd, callback, sp_response, slips, left>>
    /\ UNCHANGED mainVars /\ UNCHANGED readVars /\ UNCHANGED wireVars

----------------------------------------------------------------------------
(* The modem, which answers commands in their order. *)

Emit(lines) == tty' = tty \o lines
ModemFrame ==
    /\ UNCHANGED sp_response /\ UNCHANGED mainVars
    /\ UNCHANGED chanVars /\ UNCHANGED readVars

ModemInfo ==
    /\ ~hung /\ modem # <<>> /\ ~Head(modem).told /\ Head(modem).type # "NO_RESULT"
    /\ Emit(<<Line("info", Head(modem).n)>>)
    /\ modem' = [modem EXCEPT ![1].told = TRUE]
    /\ UNCHANGED <<hung, slips, left>> /\ ModemFrame

ModemFinal ==
    /\ ~hung /\ modem # <<>>
    /\ \/ /\ Head(modem).told \/ Head(modem).type = "NO_RESULT"
          /\ Emit(<<Line("ok", Head(modem).n)>>) /\ UNCHANGED left
       \/ ~Head(modem).told /\ Emit(<<Line("error", Head(modem).n)>>) /\ UNCHANGED left
       \/ /\ ~Head(modem).told /\ Head(modem).type # "NO_RESULT" /\ left.quirks > 0
          /\ Emit(<<Line("ok", Head(modem).n)>>)
          /\ left' = [left EXCEPT !.quirks = @ - 1]
    /\ modem' = Tail(modem)
    /\ UNCHANGED <<hung, slips>> /\ ModemFrame

(* "NO CARRIER and others are sometimes unsolicited". *)
Stray ==
    /\ ~hung /\ left.strays > 0
    /\ Emit(<<Line("error", 0)>>) /\ slips' = slips + 1
    /\ left' = [left EXCEPT !.strays = @ - 1]
    /\ UNCHANGED <<modem, hung>> /\ ModemFrame

Urc ==
    /\ ~hung /\ left.urcs > 0
    /\ Emit(<<Line("urc", 0)>>)
    /\ left' = [left EXCEPT !.urcs = @ - 1]
    /\ UNCHANGED <<modem, hung, slips>> /\ ModemFrame

ShortMessage ==
    /\ ~hung /\ left.smss > 0
    /\ \/ Emit(<<Line("sms", 0), Line("body", 0)>>)
       \/ Emit(<<Line("sms", 0)>>)
    /\ left' = [left EXCEPT !.smss = @ - 1]
    /\ UNCHANGED <<modem, hung, slips>> /\ ModemFrame

Hangup ==
    /\ ~hung /\ left.hangups > 0
    /\ hung' = TRUE /\ modem' = <<>>
    /\ left' = [left EXCEPT !.hangups = @ - 1]
    /\ UNCHANGED <<tty, slips>> /\ ModemFrame

----------------------------------------------------------------------------
Main == Send \/ WriteFails \/ Handshake \/ HandshakeFails \/ Returns \/ TimesOut \/ Pause
Reader == ReadLine \/ Poll \/ PollEnds \/ ReaderClosedTest \/ OnReaderClosed
Modem == ModemInfo \/ ModemFinal \/ Stray \/ Urc \/ ShortMessage \/ Hangup
Next == Main \/ Reader \/ AtClose \/ AtCloseFlag \/ Modem

Spec == Init /\ [][Next]_vars

(* The threads run, a modem that is there answers, a hang-up wakes         *)
(* atc_read_thread; nobody has to send a command or to stop the session.   *)
Fairness ==
    /\ WF_vars(Reader) /\ WF_vars(Returns) /\ WF_vars(Pause)
    /\ WF_vars(ModemFinal) /\ WF_vars(hung /\ AtClose) /\ WF_vars(AtCloseFlag)
FairSpec == Spec /\ Fairness

----------------------------------------------------------------------------
TypeOK ==
    /\ pc \in {"start", "shaking", "pause", "idle", "waiting", "failed"}
    /\ try \in 0..Tries /\ cmd \in [n : 0..MaxCmd, type : Types]
    /\ sp_response \in [p_intermediates : Seq(Lines), final : Lines]
    /\ {s_fd, s_readerClosed, closing, sms, hung, told, callback} \subseteq BOOLEAN
    /\ reader \in {"top", "poll", "eof", "closing", "gone"}
    /\ buf \in Seq(Lines) /\ tty \in Seq(Lines)
    /\ modem \in Seq([n : 1..MaxCmd, type : Types, told : BOOLEAN])
    /\ result \in [err : {"none", "ok", "error", "invalid", "closed", "generic", "timeout"},
                   line : Lines, of : 0..MaxCmd, n : 0..MaxCmd]
    /\ slips \in 0..(Timeouts + Strays)
    /\ sp_response.p_intermediates = <<>> \/ pc \in Waiting

(* The final response a command returns with is at most as many commands   *)
(* old as commands timed out, or final responses came unasked, since the   *)
(* channel was last quiet; so without those it is the command's own        *)
(* (at_send_command_full_nolock forgets the command that timed out, not    *)
(* the response that is still to come).                                    *)
Lag ==
    result.err \in {"ok", "error", "invalid"} =>
        IF result.of = 0 THEN slips > 0 ELSE result.n - result.of \in 0..slips

(* A state report that processLine took for the answer of a single-line    *)
(* query has cost no event: the answer it displaced was passed to          *)
(* onUnsolicited, so the main loop asks again.                             *)
AskedAgain ==
    (/\ pc = "idle" /\ result.n = cmd.n /\ cmd.type = "SINGLELINE"
     /\ result.err = "ok" /\ result.line.kind = "urc" /\ slips = 0
     /\ left.quirks = Quirks /\ swallowed = {}) => told

(* Without a timeout every command still ends: with its answer, or because *)
(* the channel is closed, unless its answer was taken for the body of a    *)
(* short message.  A hang-up is noticed by the reader or by                *)
(* atc_read_thread, and each of them wakes the waiting command.            *)
CommandsEnd == (pc \in Waiting) ~> (pc \notin Waiting \/ ~(swallowed \subseteq {"body"}))

(* "This callback is invoked on the reader thread ... when the input       *)
(* stream closes before you call at_close (not when you call at_close())". *)
CallbackOnHangupOnly == callback => hung

(* "the reader thread should eventually die" after at_close. *)
ReaderDies == ~s_fd ~> (reader = "gone")

(* Only "the first line in (what will be) a two-line SMS unsolicited       *)
(* response" takes the next line with it.                                  *)
TwoLineSms == swallowed \subseteq {"body"}

(* "timeoutMsec == 0 means infinite timeout": commands other than those of *)
(* at_handshake are sent with 0.                                           *)
NoTimeoutFromZero == pc = "idle" => result.err # "timeout"
============================================================================
