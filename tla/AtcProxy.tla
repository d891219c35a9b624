------------------------------ MODULE AtcProxy ------------------------------
(***************************************************************************)
(* quectel-atc-proxy: several programs share the AT port of a modem.  The  *)
(* thread of atc_proxy_loop takes one command at a time from the clients   *)
(* and waits in at_send_command (atchannel.c) for its end; the reader of   *)
(* that channel hands every line to onUnsolicited, which writes it to the  *)
(* client named by current_client_fd, or to all of them.  main starts the  *)
(* thread, sends the commands of atc_proxy_init and offers the socket.     *)
(*                                                                         *)
(* A command is answered by one line, its final result; the lines before   *)
(* go the same way.  A client is a program like quectel-CM, for which any  *)
(* final result ends the command it has pending.  A write to a socket      *)
(* whose other end is closed ends the process (SIGPIPE).                   *)
(***************************************************************************)
EXTENDS Naturals, Sequences

CONSTANTS Fds,           \* descriptors of clients
          NoFd,
          MaxPolled,     \* connections that fit into pollfds, 64
          MaxTries,      \* attempts of atc_proxy_init, 5
          MaxConnects, MaxCommands, MaxTimeouts, MaxTroubles  \* bounds

VARIABLES
  phase,     \* main: "closed", "init", "serving" (the socket is there), "dead"
  loop,      \* the thread: "none", "poll" or "cmd" (in at_send_command)
  tries,     \* failed attempts of atc_proxy_init
  cons,      \* atc_proxy_connection, in the order accepted
  current_client_fd,
  link,      \* a client: "none", "backlog", "open", "gone" (has closed its end)
  c2p,       \* the command a client has written, 0 if none
  pend,      \* the command a client waits for
  atModem,   \* commands the modem has not answered, in order: number and sender
  got,       \* history: the answers taken: for which command, to which, and whether the
             \* proxy had not read that command
  strayed,   \* history: the answer of a command did not go to its sender
  connects, commands, timeouts, troubles

vars == <<phase, loop, tries, cons, current_client_fd, link, c2p, pend, atModem, got, strayed, connects, commands, timeouts, troubles>>
clientVars == <<link, c2p, pend>>
budgets == <<connects, commands, timeouts, troubles>>

Init ==
  /\ phase = "closed" /\ loop = "none" /\ tries = 0
  /\ cons = <<>> /\ current_client_fd = NoFd
  /\ link = [fd \in Fds |-> "none"] /\ c2p = [fd \in Fds |-> 0] /\ pend = [fd \in Fds |-> 0]
  /\ atModem = <<>> /\ got = {} /\ strayed = FALSE
  /\ connects = 0 /\ commands = 0 /\ timeouts = 0 /\ troubles = 0

Accepted == {cons[i] : i \in 1..Len(cons)}
Polled(fd) == \E i \in 1..Len(cons) : i <= MaxPolled /\ cons[i] = fd

----------------------------------------------------------------------------
\* The clients.

Connect(fd) ==
  /\ phase = "serving" /\ link[fd] = "none" /\ connects < MaxConnects
  /\ connects' = connects + 1
  /\ link' = [link EXCEPT ![fd] = "backlog"]
  /\ UNCHANGED <<phase, loop, tries, cons, current_client_fd, c2p, pend, atModem, got, strayed, commands, timeouts, troubles>>

Send(fd) ==
  /\ link[fd] = "open" /\ pend[fd] = 0 /\ c2p[fd] = 0 /\ commands < MaxCommands
  /\ commands' = commands + 1
  /\ c2p' = [c2p EXCEPT ![fd] = commands + 1]
  /\ pend' = [pend EXCEPT ![fd] = commands + 1]
  /\ UNCHANGED <<phase, loop, tries, cons, current_client_fd, link, atModem, got, strayed, connects, timeouts, troubles>>

Leaves(fd) ==
  /\ link[fd] = "open"
  /\ link' = [link EXCEPT ![fd] = "gone"]
  /\ pend' = [pend EXCEPT ![fd] = 0]
  /\ UNCHANGED <<phase, loop, tries, cons, current_client_fd, c2p, atModem, got, strayed, budgets>>

----------------------------------------------------------------------------
\* The thread.

\* The proxy closes the descriptors in S; a client sees the hang-up.
Closed(S) == /\ link' = [fd \in Fds |-> IF fd \in S THEN "none" ELSE link[fd]]
             /\ c2p' = [fd \in Fds |-> IF fd \in S THEN 0 ELSE c2p[fd]]
             /\ pend' = [fd \in Fds |-> IF fd \in S THEN 0 ELSE pend[fd]]

accept_atc_connection(fd) ==
  /\ phase = "serving" /\ loop = "poll" /\ link[fd] = "backlog"
  /\ link' = [link EXCEPT ![fd] = "open"]
  /\ cons' = Append(cons, fd)
  /\ UNCHANGED <<phase, loop, tries, current_client_fd, c2p, pend, atModem, got, strayed,
                 budgets>>

\* qlist_remove
Without(fd) ==
  LET at == CHOOSE i \in 1..Len(cons) : cons[i] = fd
  IN  [i \in 1..(Len(cons) - 1) |-> IF i < at THEN cons[i] ELSE cons[i + 1]]

cleanup_atc_connection(fd) ==
  /\ loop = "poll" /\ link[fd] = "gone" /\ Polled(fd)
  /\ cons' = Without(fd)
  /\ Closed({fd})
  /\ UNCHANGED <<phase, loop, tries, current_client_fd, atModem, got, strayed, budgets>>

\* The connection whose descriptor equals the entry of pollfds behind the last one that
\* was filled in: any or none, as the entry is left from an earlier round or never set.
Current == Accepted \cup {NoFd}

\* A bug: the thread does not wait for the end of the command.
TakeAtOnce(fd) ==
  /\ loop = "poll" /\ c2p[fd] # 0 /\ Polled(fd)
  /\ c2p' = [c2p EXCEPT ![fd] = 0]
  /\ atModem' = Append(atModem, [n |-> c2p[fd], fd |-> fd])
  /\ UNCHANGED <<phase, loop, tries, cons, current_client_fd, link, pend, got, strayed, budgets>>

\* A command is read and written to the modem.
TakeCommand(fd) ==
  /\ loop = "poll" /\ c2p[fd] # 0 /\ Polled(fd)
  /\ loop' = "cmd"
  /\ c2p' = [c2p EXCEPT ![fd] = 0]
  /\ atModem' = Append(atModem, [n |-> c2p[fd], fd |-> fd])
  /\ current_client_fd' \in Current
  /\ UNCHANGED <<phase, tries, cons, link, pend, got, strayed, budgets>>

\* at_send_command gives up; onTimeout only logs, and the client is told nothing.
TimesOut ==
  /\ loop = "cmd" /\ timeouts < MaxTimeouts
  /\ timeouts' = timeouts + 1
  /\ loop' = "poll" /\ current_client_fd' = NoFd
  /\ UNCHANGED <<phase, tries, cons, clientVars, atModem, got, strayed, connects,
                 commands, troubles>>

\* SIGPIPE, or a port that is there and cannot be opened.
Killed ==
  /\ phase' = "dead" /\ loop' = "none"
  /\ cons' = <<>> /\ current_client_fd' = NoFd /\ atModem' = <<>> /\ Closed(Fds)
  /\ UNCHANGED <<tries, got, strayed, budgets>>

\* A bug: a final result ends the command, and only lines before it are handed on.
OnlyLines == {}

\* The connections a line is written to; s_atc_proxy has the final result among them.
onUnsolicited == IF current_client_fd # NoFd THEN {current_client_fd} ELSE Accepted

\* The modem's next final result: the reader writes it to the clients, and ends the
\* command that at_send_command waits with, whichever was meant.
processLine ==
  /\ atModem # <<>> /\ loop # "none"
  /\ LET m == Head(atModem)
         to == onUnsolicited
     IN  \/ /\ \E fd \in to : link[fd] = "gone"
            /\ Killed
         \/ /\ \A fd \in to : link[fd] = "open"
            /\ atModem' = Tail(atModem)
            /\ got' = got \cup {[for |-> pend[fd], to |-> m.n, unread |-> c2p[fd] # 0] :
                                  fd \in {x \in to : pend[x] # 0}}
            /\ pend' = [fd \in Fds |-> IF fd \in to THEN 0 ELSE pend[fd]]
            /\ strayed' = (strayed \/ (m.fd \in Accepted /\ m.fd \notin to))
            /\ loop' = "poll" /\ current_client_fd' = NoFd
            /\ UNCHANGED <<phase, tries, cons, link, c2p, budgets>>

\* The port hangs up.  A command under way fails, and the next poll ends the loop.
DeviceLost ==
  /\ loop # "none" /\ troubles < MaxTroubles
  /\ troubles' = troubles + 1
  /\ loop' = "none" /\ current_client_fd' = NoFd
  /\ cons' = <<>> /\ atModem' = <<>>
  /\ Closed({fd \in Fds : link[fd] # "backlog"})
  /\ UNCHANGED <<phase, tries, got, strayed, connects, commands, timeouts>>

----------------------------------------------------------------------------
\* main.

OpenDevice ==
  /\ phase = "closed"
  /\ phase' = "init" /\ loop' = "poll" /\ tries' = 0
  /\ UNCHANGED <<cons, current_client_fd, clientVars, atModem, got, strayed, budgets>>

\* access finds the port, open does not.
OpenFails ==
  /\ phase = "closed" /\ troubles < MaxTroubles
  /\ Killed

\* A bug: after a failed attempt main waits, and offers nothing.
OffersAtFirst ==
  /\ phase = "init" /\ tries = 0
  /\ phase' = "serving"
  /\ UNCHANGED <<loop, tries, cons, current_client_fd, clientVars, atModem, got, strayed,
                 budgets>>

\* atc_proxy_init succeeds, has failed too often or the port is gone; atc_start_server.
Offered ==
  /\ phase = "init"
  /\ phase' = "serving"
  /\ UNCHANGED <<loop, tries, cons, current_client_fd, clientVars, atModem, got, strayed,
                 budgets>>

atc_proxy_init ==
  /\ phase = "init" /\ tries < MaxTries
  /\ tries' = tries + 1
  /\ UNCHANGED <<phase, loop, cons, current_client_fd, clientVars, atModem, got, strayed,
                 budgets>>

\* pthread_join returns; atc_close_server.
Joined ==
  /\ phase = "serving" /\ loop = "none"
  /\ phase' = "closed"
  /\ Closed(Fds)
  /\ UNCHANGED <<loop, tries, cons, current_client_fd, atModem, got, strayed, budgets>>

Thread(fd) == accept_atc_connection(fd) \/ cleanup_atc_connection(fd) \/ TakeCommand(fd)
Main == OpenDevice \/ Offered \/ Joined
Next ==
  \/ \E fd \in Fds : Connect(fd) \/ Send(fd) \/ Leaves(fd) \/ Thread(fd)
  \/ TimesOut \/ processLine \/ DeviceLost \/ OpenFails \/ atc_proxy_init \/ Main

Spec == Init /\ [][Next]_vars

\* The threads are scheduled, poll reports what is ready, the modem answers.
Fairness ==
  /\ WF_vars(Main) /\ WF_vars(processLine)
  /\ \A fd \in Fds : WF_vars(accept_atc_connection(fd)) /\ WF_vars(cleanup_atc_connection(fd))
                     /\ SF_vars(TakeCommand(fd))

FairSpec == Spec /\ Fairness

----------------------------------------------------------------------------
\* Once the proxy has read a command, the first final result that its client sees is the
\* one to that command, although all clients are written to: atc_proxy_loop waits for the
\* end of one command before it reads the next.  A client whose command is still unread
\* takes the end of another one for its own.  After a command has timed out in the
\* proxy, or an answer has gone to a client that current_client_fd named by accident,
\* nothing is certain.
OwnOnceRead == timeouts = 0 /\ ~ strayed => \A g \in got : g.for = g.to \/ g.unread

\* Without counting on its timeout, the command of a client ends: with an answer, or
\* because the proxy went away; unless an answer went to a client that
\* current_client_fd named by accident, a command timed out in the proxy, or the client
\* is not polled because too many were accepted before it.
Ended(fd) == pend[fd] = 0 \/ strayed \/ timeouts > 0 \/ ~ Polled(fd)
CommandsEnd == \A fd \in Fds : (pend[fd] # 0) ~> Ended(fd)

\* The socket is there in the end, also when atc_proxy_init has failed or the port was
\* lost, unless the process was ended.
Offers == (phase = "serving" /\ loop # "none") \/ phase = "dead"

=============================================================================
