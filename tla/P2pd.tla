-------------------------------- MODULE P2pd --------------------------------
(***************************************************************************)
(* The P2P daemon of src/p2pd.c and src/p2pd_interface.c: it forks         *)
(* wpa_supplicant, waits for its control socket, configures it, and then   *)
(* serves a signalfd and the socket from one epoll loop until a signal,    *)
(* the end of the child or an error makes it kill the child and exit.      *)
(*                                                                         *)
(* All signals are blocked and read from the signalfd, except while ppoll  *)
(* waits: there they run the empty handler sig_dummy and interrupt the     *)
(* wait.  A request on the control socket is one wait with three outcomes; *)
(* what happens inside of it is the subject of WpaCtrl.                    *)
(***************************************************************************)
EXTENDS Naturals, Sequences

CONSTANTS
  ROUNDS,       \* the polls that fit wait_for_wpa's timeout (100)
  SETUP         \* the requests of wpa_setup (5)

ASSUME P2pdAssumption == ROUNDS \in Nat \ {0} /\ SETUP \in Nat \ {0}

Signal == {"TERM", "CHLD", "PIPE"}     \* TERM stands for INT, QUIT and HUP too

VARIABLES
  pc,           \* where the daemon is
  cmd,          \* the request that it waits for
  left,         \* polls or requests that are left to do
  evs,          \* descriptors reported by epoll_wait, still to be handled
  pid,          \* iface->pid is set
  wpa_open,     \* owfd_wpa_ctrl_is_open
  file,         \* the control socket is in the file system
  child,        \* "none", "run", "up" (it answers), "zombie" or "reaped"
  pending,      \* the signals that are pending
  told,         \* history: the child was asked to terminate
  stopped,      \* history: the child was stopped or continued
  stray,        \* history: a signal went to a pid that was already reaped
  started,      \* history: the setup was completed
  swallowed     \* history: signals that ran sig_dummy

daemon == <<pc, cmd, left, evs, pid, wpa_open>>
history == <<told, stopped, stray, started, swallowed>>
vars == <<daemon, file, child, pending, history>>

-----------------------------------------------------------------------------
Goto(l) == pc' = l /\ UNCHANGED <<cmd, left, evs, pid, wpa_open>>

\* is_child_alive; it reaps the child if it is not.
is_child_alive == child \in {"run", "up"}

Reap == child' = IF child = "zombie" THEN "reaped" ELSE child

\* A ppoll that is interrupted: every signal but SIGPIPE is let through.
Interrupt ==
  /\ pending \ {"PIPE"} # {}
  /\ pending' = pending \cap {"PIPE"}
  /\ swallowed' = swallowed \cup (pending \ {"PIPE"})

\* owfd_p2pd_setup fails before there is a child, or fork does.
setup_fails ==
  /\ pc = "setup"
  /\ Goto("kill")
  /\ UNCHANGED <<file, child, pending, history>>

fork_wpa ==
  /\ pc = "setup"
  /\ child' = "run"
  /\ pid' = TRUE
  /\ left' = ROUNDS
  /\ pc' = "wait_file"
  /\ UNCHANGED <<cmd, evs, wpa_open, file, pending, history>>

\* wait_for_wpa finds that the child is gone.
ChildGone ==
  /\ ~is_child_alive
  /\ Reap
  /\ Goto("kill")
  /\ UNCHANGED <<file, pending, history>>

\* wait_for_wpa before and in its first loop: until the socket's file is there.
wait_file ==
  /\ pc = "wait_file"
  /\ \/ ChildGone
     \/ /\ is_child_alive
        /\ Goto(IF file THEN "open" ELSE IF left = 0 THEN "kill" ELSE "poll_file")
        /\ UNCHANGED <<file, child, pending, history>>

\* Open the control socket: owfd_wpa_ctrl_open sends ATTACH.
try_open ==
  /\ pc \in {"open", "reopen"}
  /\ \/ ChildGone
     \/ /\ is_child_alive
        /\ pc' = "request"
        /\ cmd' = IF pc = "open" THEN "ATTACH" ELSE "REATTACH"
        /\ UNCHANGED <<left, evs, pid, wpa_open, file, child, pending, history>>

\* A second attempt failed: poll again unless the time is up.
wait_open ==
  /\ pc = "wait_open"
  /\ Goto(IF left = 0 THEN "kill" ELSE "poll_open")
  /\ UNCHANGED <<file, child, pending, history>>

\* The poll of either loop returns after 100ms or an inotify event.
poll ==
  /\ pc \in {"poll_file", "poll_open"}
  /\ pc' = IF pc = "poll_file" THEN "wait_file" ELSE "reopen"
  /\ left' = IF left = 0 THEN 0 ELSE left - 1
  /\ UNCHANGED <<cmd, evs, pid, wpa_open, file, child, pending, history>>

\* A signal or an error ends the poll of either loop.
poll_fails ==
  /\ pc \in {"poll_file", "poll_open"}
  /\ Goto("kill")
  /\ Interrupt \/ UNCHANGED <<pending, swallowed>>
  /\ UNCHANGED <<file, child, told, stopped, stray, started>>

\* What is left of owfd_p2pd_interface_new, owfd_p2pd_dummy_new: r is whether
\* they succeed.
setup_done(r) ==
  /\ pc = "started"
  /\ pc' = IF r THEN "idle" ELSE "kill"
  /\ started' = r
  /\ UNCHANGED <<cmd, left, evs, pid, wpa_open, file, child, pending, told, stopped, stray, swallowed>>

-----------------------------------------------------------------------------
\* Mutant: a ping that fails is left to the next one.
RequestFails_PingIgnored ==
  /\ pc' = CASE cmd = "ATTACH"             -> "poll_open"
             [] cmd = "REATTACH"           -> "wait_open"
             [] cmd = "SETUP"              -> "kill"
             [] cmd \in {"CONNECT", "PING"} -> "serve"
             [] cmd = "TERMINATE"          -> "terminate_failed"
  /\ UNCHANGED <<left, evs, wpa_open>>

\* The request ends with an error: where its caller goes on.
RequestFails ==
  /\ pc' = CASE cmd = "ATTACH"             -> "poll_open"
             [] cmd = "REATTACH"           -> "wait_open"
             [] cmd \in {"SETUP", "PING"}  -> "kill"
             [] cmd = "CONNECT"            -> "serve"
             [] cmd = "TERMINATE"          -> "terminate_failed"
  /\ UNCHANGED <<left, evs, wpa_open>>

\* The request ends well.
RequestDone ==
  CASE cmd \in {"ATTACH", "REATTACH"} ->
         /\ pc' = "request" /\ cmd' = "SETUP" /\ left' = SETUP
         /\ wpa_open' = TRUE
         /\ UNCHANGED <<evs, told>>
    [] cmd = "SETUP" ->
         /\ pc' = IF left > 1 THEN "request" ELSE "started"
         /\ left' = left - 1
         /\ UNCHANGED <<cmd, evs, wpa_open, told>>
    [] cmd \in {"CONNECT", "PING"} ->
         /\ pc' = "serve"
         /\ UNCHANGED <<cmd, left, evs, wpa_open, told>>
    [] cmd = "TERMINATE" ->
         /\ pc' = "exited" /\ wpa_open' = FALSE
         /\ told' = TRUE
         /\ UNCHANGED <<cmd, left, evs>>

\* The supplicant answers as hoped for.
request_ok ==
  /\ pc = "request"
  /\ child = "up"
  /\ RequestDone
  /\ UNCHANGED <<pid, file, child, pending, stopped, stray, started, swallowed>>

\* It answers otherwise, or not in time, or there is nobody to answer.
request_fails ==
  /\ pc = "request"
  /\ RequestFails
  /\ UNCHANGED <<cmd, pid, file, child, pending, history>>

\* A signal interrupts the wait for the answer.
request_interrupted ==
  /\ pc = "request"
  /\ Interrupt
  /\ RequestFails
  /\ UNCHANGED <<cmd, pid, file, child, told, stopped, stray, started>>

-----------------------------------------------------------------------------
\* The main loop.  What owfd_wpa_ctrl_get_fd returns holds the sockets and the
\* timer of WpaCtrl and may be readable at any time.  epoll_wait reports all
\* that is ready, in any order.
epoll_wait ==
  /\ pc = "idle"
  /\ evs' \in IF pending = {} THEN {<<"wpa">>}
              ELSE {<<"sfd">>, <<"sfd", "wpa">>, <<"wpa", "sfd">>}
  /\ pc' = "dispatch"
  /\ UNCHANGED <<cmd, left, pid, wpa_open, file, child, pending, history>>

dispatch_done ==
  /\ pc = "dispatch"
  /\ evs = <<>>
  /\ Goto("idle")
  /\ UNCHANGED <<file, child, pending, history>>

\* owfd_p2pd_interface_dispatch_chld: close the socket, forget the pid, quit.
dispatch_chld ==
  IF pid
    THEN wpa_open' = FALSE /\ pid' = FALSE /\ pc' = "kill"
    ELSE pc' = "dispatch" /\ UNCHANGED <<wpa_open, pid>>

\* Mutant: every signal but SIGCHLD is handled by ignoring it.
Quit_Handled(s) ==
  /\ pc' = "dispatch"
  /\ UNCHANGED <<wpa_open, pid>>

\* The default case of owfd_p2pd_dispatch_sfd, and SIGPIPE.
Quit(s) ==
  /\ pc' = IF s = "PIPE" THEN "dispatch" ELSE "kill"
  /\ UNCHANGED <<wpa_open, pid>>

\* owfd_p2pd_dispatch_sfd takes the signal s.
dispatch_sfd(s) ==
  /\ pc = "dispatch"
  /\ evs # <<>> /\ Head(evs) = "sfd"
  /\ evs' = Tail(evs)
  /\ s \in pending /\ pending' = pending \ {s}
  /\ IF s = "CHLD" THEN dispatch_chld ELSE Quit(s)
  /\ UNCHANGED <<cmd, left, file, child, history>>

\* The signal was swallowed by a request in between: read fails with EAGAIN.
sfd_empty ==
  /\ pc = "dispatch"
  /\ evs # <<>> /\ Head(evs) = "sfd"
  /\ pending = {}
  /\ Goto("kill")
  /\ UNCHANGED <<file, child, pending, history>>

\* owfd_p2pd_interface_dispatch calls owfd_wpa_ctrl_dispatch, ...
wpa_dispatch ==
  /\ pc = "dispatch"
  /\ evs # <<>> /\ Head(evs) = "wpa"
  /\ evs' = Tail(evs) /\ pc' = "serve"
  /\ UNCHANGED <<cmd, left, pid, wpa_open, file, child, pending, history>>

Serve(c) ==
  /\ pc = "serve"
  /\ pc' = "request" /\ cmd' = c
  /\ UNCHANGED <<left, evs, pid, wpa_open, file, child, pending, history>>

\* ... which reads the events there are: dummy_event_fn connects on SHOW-PIN, ...
wpa_event == Serve("CONNECT")

\* ... and pings when the timer has expired.
wpa_ping == Serve("PING")

wpa_done ==
  /\ pc = "serve"
  /\ Goto("dispatch")
  /\ UNCHANGED <<file, child, pending, history>>

\* It returns an error of a socket.
wpa_error ==
  /\ pc = "serve"
  /\ Goto("kill")
  /\ UNCHANGED <<file, child, pending, history>>

-----------------------------------------------------------------------------
\* Mutant: a channel that is not open is taken for a child that is gone.
kill_wpa_NotOpen ==
  /\ pc = "kill"
  /\ IF pid /\ wpa_open
       THEN pc' = "request" /\ cmd' = "TERMINATE" /\ UNCHANGED <<told, stray>>
       ELSE pc' = "exited" /\ UNCHANGED <<cmd, told, stray>>
  /\ UNCHANGED <<left, evs, pid, wpa_open, file, child, pending, stopped, started, swallowed>>

\* kill(iface->pid, SIGTERM)
Kill ==
  /\ told' = TRUE
  /\ stray' = (stray \/ child = "reaped")

\* Mutant: the child is signalled without a look at whether it is there.
terminate_failed_Kill ==
  /\ pc = "terminate_failed"
  /\ Reap
  /\ told' = TRUE
  /\ stray' = (stray \/ ~is_child_alive)
  /\ pc' = "exited" /\ wpa_open' = FALSE
  /\ UNCHANGED <<cmd, left, evs, pid, file, pending, stopped, started, swallowed>>

\* kill_wpa, called by owfd_p2pd_interface_free and by the error path of
\* owfd_p2pd_interface_new; what follows closes everything and exits.
kill_wpa ==
  /\ pc = "kill"
  /\ IF pid /\ wpa_open
       THEN /\ pc' = "request" /\ cmd' = "TERMINATE"
            /\ UNCHANGED <<told, stray>>
       ELSE /\ pc' = "exited"
            /\ IF pid THEN Kill ELSE UNCHANGED <<told, stray>>
            /\ UNCHANGED cmd
  /\ UNCHANGED <<left, evs, pid, wpa_open, file, child, pending, stopped, started, swallowed>>

terminate_failed ==
  /\ pc = "terminate_failed"
  /\ Reap
  /\ IF is_child_alive THEN Kill ELSE UNCHANGED <<told, stray>>
  /\ pc' = "exited" /\ wpa_open' = FALSE
  /\ UNCHANGED <<cmd, left, evs, pid, file, pending, stopped, started, swallowed>>

-----------------------------------------------------------------------------
\* The child binds its socket and answers from then on.
ChildUp ==
  /\ child = "run"
  /\ child' = "up" /\ file' = TRUE
  /\ UNCHANGED <<daemon, pending, history>>

\* It ends, by itself or because it was told to.
ChildExits ==
  /\ child \in {"run", "up"}
  /\ child' = "zombie"
  /\ file' \in {file, FALSE}
  /\ pending' = pending \cup {"CHLD"}
  /\ UNCHANGED <<daemon, history>>

\* It is stopped or continued by job control, which its parent is told as well.
ChildStops ==
  /\ child \in {"run", "up"}
  /\ pending' = pending \cup {"CHLD"}
  /\ stopped' = TRUE
  /\ UNCHANGED <<daemon, file, child, told, stray, started, swallowed>>

SendSignal ==
  /\ pc # "exited"
  /\ \E s \in {"TERM", "PIPE"} : pending' = pending \cup {s}
  /\ UNCHANGED <<daemon, file, child, history>>

\* main; an earlier supplicant may have left its socket behind.
Init ==
  /\ pc = "setup" /\ cmd = "none" /\ left = 0 /\ evs = <<>>
  /\ pid = FALSE /\ wpa_open = FALSE
  /\ file \in BOOLEAN
  /\ child = "none"
  /\ pending = {}
  /\ told = FALSE /\ stopped = FALSE /\ stray = FALSE /\ started = FALSE /\ swallowed = {}

Startup ==
  \/ setup_fails \/ fork_wpa
  \/ wait_file \/ try_open \/ wait_open \/ poll \/ poll_fails
  \/ \E r \in BOOLEAN : setup_done(r)

Request == request_ok \/ request_fails \/ request_interrupted

Dispatch ==
  \/ epoll_wait \/ dispatch_done \/ sfd_empty
  \/ \E s \in Signal : dispatch_sfd(s)
  \/ wpa_dispatch \/ wpa_event \/ wpa_ping \/ wpa_done \/ wpa_error

Teardown == kill_wpa \/ terminate_failed

Next ==
  \/ Startup \/ Request \/ Dispatch \/ Teardown
  \/ ChildUp \/ ChildExits \/ ChildStops \/ SendSignal

Spec == Init /\ [][Next]_vars

\* The daemon does not stop between two of its steps and a request ends; the
\* events run out, the timer of the control socket expires again and again, and
\* no signal is held back for ever by SIGPIPEs that someone keeps sending.
Fairness ==
  /\ WF_vars(Startup) /\ WF_vars(request_fails) /\ WF_vars(Dispatch) /\ WF_vars(Teardown)
  /\ SF_vars(epoll_wait /\ evs' # <<"sfd">>) /\ SF_vars(wpa_done) /\ SF_vars(wpa_ping)
  /\ \A s \in Signal : SF_vars(dispatch_sfd(s))

FairSpec == Spec /\ Fairness

-----------------------------------------------------------------------------
\* Every variable has its type, and the main loop, which dispatches the
\* control socket, runs only while the socket is open and the child is known.
TypeOK ==
  /\ pc \in {"setup", "wait_file", "poll_file", "open", "reopen", "poll_open", "wait_open",
             "request", "started", "idle", "dispatch", "serve", "kill", "terminate_failed", "exited"}
  /\ cmd \in {"none", "ATTACH", "REATTACH", "SETUP", "CONNECT", "PING", "TERMINATE"}
  /\ left \in 0 .. ROUNDS + SETUP
  /\ evs \in Seq({"sfd", "wpa"})
  /\ pc \in {"idle", "dispatch", "serve"} => pid /\ wpa_open
  /\ {pid, wpa_open, file, told, stopped, stray, started} \subseteq BOOLEAN
  /\ child \in {"none", "run", "up", "zombie", "reaped"}
  /\ pending \subseteq Signal /\ swallowed \subseteq Signal

\* "you _must_ call kill_wpa() to stop the wpa_supplicant process later"
\* (fork_wpa): whatever path led to the daemon's end, the child has ended too or
\* has been asked to.  The exception is job control: a SIGCHLD for a child that was
\* stopped is taken for its end.
NoOrphan == TypeOK /\ (pc = "exited" => ~is_child_alive \/ told \/ stopped)

\* Once the startup is over no signal goes to a pid that was reaped and may be
\* another process by now: the child is signalled only as long as it is ours.
KillsOwnChild == started => ~stray

\* The end of the child ends the daemon, even if its SIGCHLD was swallowed by a
\* request: then the next ping fails.
ChildDeathNoticed == (child = "zombie") ~> (pc = "exited")

\* A fatal signal that is not swallowed ends the daemon.
TermEnds == ("TERM" \in pending) ~> (pc = "exited" \/ "TERM" \in swallowed)

=============================================================================
