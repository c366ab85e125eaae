----------------------------- MODULE P2pdProofs -----------------------------
(***************************************************************************)
(* Proofs about P2pd, for any number of polls and of setup requests: the   *)
(* daemon leaves no supplicant behind, and it signals no pid that it has   *)
(* reaped once it serves.  Both rest on what the daemon knows of its child *)
(* at each place in its code.                                              *)
(***************************************************************************)
EXTENDS P2pd, TLAPS

\* Where the startup is before the control socket is open, and where the daemon is
\* with an open one.
Before == {"wait_file", "poll_file", "open", "reopen", "poll_open", "wait_open"}

Attaching == pc = "request" /\ cmd \in {"ATTACH", "REATTACH"}

Serving == pc \in {"idle", "dispatch", "serve"} \/ (pc = "request" /\ cmd \in {"CONNECT", "PING"})

\* The daemon knows its child and has an open channel to it, or not yet.
KnowsChild ==
  /\ pc = "setup" => child = "none" /\ ~pid /\ ~wpa_open
  /\ pc \in Before \/ Attaching => pid /\ ~wpa_open
  /\ pc = "started" \/ (pc = "request" /\ cmd = "SETUP") => pid /\ wpa_open
  /\ Serving => pid /\ wpa_open
  /\ pc = "request" => cmd # "none"
  /\ (pc = "request" /\ cmd = "TERMINATE") \/ pc = "terminate_failed" => pid /\ wpa_open

\* What is left to do fits its bound.
LeftFits ==
  /\ pc \in Before \/ Attaching => left <= ROUNDS
  /\ pc = "request" /\ cmd = "SETUP" => left \in 1 .. SETUP

\* The startup is over only where the main loop is, or after it.
StartedInv ==
  started =>
    /\ Serving \/ pc \in {"kill", "terminate_failed", "exited"} \/ (pc = "request" /\ cmd = "TERMINATE")
    /\ pc # "exited" /\ pid => wpa_open

\* A child that the daemon does not know of has ended, or was stopped; the same
\* holds when it hears of a SIGCHLD.
ChildInv ==
  /\ ~pid => ~is_child_alive \/ stopped
  /\ "CHLD" \in pending => ~is_child_alive \/ stopped
  /\ child = "none" => "CHLD" \notin pending

\* The child is reaped on the way out only.
ReapedInv ==
  child = "reaped" => pc = "exited" \/ (pc = "kill" /\ ~wpa_open /\ ~started)

\* A pid that was reaped is signalled on the way out only.
StrayInv == stray => pc = "exited" /\ ~started

IInv ==
  /\ NoOrphan /\ KillsOwnChild
  /\ KnowsChild /\ LeftFits /\ StartedInv /\ ChildInv /\ ReapedInv /\ StrayInv

-----------------------------------------------------------------------------
USE P2pdAssumption DEF Before, Attaching, Serving, is_child_alive, Signal

\* The daemon starts with no child, nothing pending and nothing to be told.
LEMMA InitOK == Init => IInv
<1> SUFFICES ASSUME Init PROVE IInv
  OBVIOUS
<1>1. TypeOK
  <2>1. evs \in Seq({"sfd", "wpa"}) /\ left \in 0 .. ROUNDS + SETUP
    BY DEF Init
  <2>2. {pid, wpa_open, file, told, stopped, stray, started} \subseteq BOOLEAN
    BY DEF Init
  <2>3. QED
    BY <2>1, <2>2 DEF Init, TypeOK
<1>2. KnowsChild /\ LeftFits
  BY DEF Init, KnowsChild, LeftFits
<1>3. StartedInv /\ ChildInv /\ ReapedInv /\ StrayInv
  BY DEF Init, StartedInv, ChildInv, ReapedInv, StrayInv
<1>4. QED
  BY <1>1, <1>2, <1>3 DEF Init, IInv, NoOrphan, KillsOwnChild

\* Every step of the daemon, of its child and of whoever sends signals keeps the
\* invariant.
LEMMA StepOK == IInv /\ [Next]_vars => IInv'
<1> SUFFICES ASSUME IInv, [Next]_vars PROVE IInv'
  OBVIOUS
<1> USE DEF IInv, NoOrphan, TypeOK, KillsOwnChild, KnowsChild, LeftFits, StartedInv,
            ChildInv, ReapedInv, StrayInv
<1>1. ASSUME setup_fails PROVE IInv'
  BY <1>1 DEF setup_fails, Goto, history
<1>2. ASSUME fork_wpa PROVE IInv'
  BY <1>2 DEF fork_wpa, history
<1>3. ASSUME wait_file PROVE IInv'
  <2>1. CASE ChildGone
    BY <1>3, <2>1 DEF wait_file, ChildGone, Goto, Reap, history
  <2>2. CASE is_child_alive
    <3>1. /\ pc' \in {"open", "kill", "poll_file"}
          /\ UNCHANGED <<cmd, left, evs, pid, wpa_open, file, child, pending, history>>
      BY <1>3, <2>2 DEF wait_file, ChildGone, Goto, Reap, history
    <3>2. QED
      BY <1>3, <2>2, <3>1 DEF wait_file, ChildGone, Goto, Reap, history
  <2>3. QED
    BY <1>3, <2>1, <2>2 DEF wait_file, ChildGone, Goto, Reap, history
<1>4. ASSUME try_open PROVE IInv'
  <2>1. CASE ChildGone
    BY <1>4, <2>1 DEF try_open, ChildGone, Goto, Reap, history
  <2>2. CASE is_child_alive
    <3>1. /\ pc' = "request" /\ cmd' \in {"ATTACH", "REATTACH"}
          /\ UNCHANGED <<left, evs, pid, wpa_open, file, child, pending, history>>
      BY <1>4, <2>2 DEF try_open, ChildGone, Goto, Reap, history
    <3>2. QED
      BY <1>4, <2>2, <3>1 DEF try_open, ChildGone, Goto, Reap, history
  <2>3. QED
    BY <1>4, <2>1, <2>2 DEF try_open, ChildGone, Goto, Reap, history
<1>5. ASSUME wait_open PROVE IInv'
  BY <1>5 DEF wait_open, Goto, history
<1>6. ASSUME poll PROVE IInv'
  BY <1>6 DEF poll, history
<1>7. ASSUME poll_fails PROVE IInv'
  BY <1>7 DEF poll_fails, Goto, Interrupt
<1>8. ASSUME NEW r \in BOOLEAN, setup_done(r) PROVE IInv'
  BY <1>8 DEF setup_done
<1>9. ASSUME request_ok PROVE IInv'
  <2>1. CASE cmd \in {"ATTACH", "REATTACH"}
    <3>1. /\ pc' = "request" /\ cmd' = "SETUP" /\ left' = SETUP /\ wpa_open' = TRUE
          /\ UNCHANGED <<evs, told, pid, file, child, pending, stopped, stray, started, swallowed>>
      BY <1>9, <2>1 DEF request_ok, RequestDone
    <3>2. pid /\ ~wpa_open /\ child = "up" /\ ~started /\ ~stray
      BY <1>9, <2>1 DEF request_ok, RequestDone
    <3>3. TypeOK' /\ LeftFits' /\ KnowsChild'
      BY <3>1, <3>2
    <3>4. StartedInv' /\ ChildInv'
      BY <3>1, <3>2
    <3>5. ReapedInv' /\ StrayInv' /\ KillsOwnChild'
      BY <3>1, <3>2 DEF ReapedInv, StrayInv, KillsOwnChild
    <3>6. QED
      BY <3>1, <3>3, <3>4, <3>5
  <2>2. CASE cmd = "SETUP"
    BY <1>9, <2>2 DEF request_ok, RequestDone
  <2>3. CASE cmd \in {"CONNECT", "PING"}
    BY <1>9, <2>3 DEF request_ok, RequestDone
  <2>4. CASE cmd = "TERMINATE"
    BY <1>9, <2>4 DEF request_ok, RequestDone
  <2>5. QED
    BY <1>9, <2>1, <2>2, <2>3, <2>4 DEF request_ok, RequestDone
<1>10. ASSUME request_fails PROVE IInv'
  BY <1>10 DEF request_fails, RequestFails, history
<1>11. ASSUME request_interrupted PROVE IInv'
  BY <1>11 DEF request_interrupted, RequestFails, Interrupt
<1>12. ASSUME epoll_wait PROVE IInv'
  <2>1. evs' \in Seq({"sfd", "wpa"})
    <3>1. /\ <<"wpa">> \in Seq({"sfd", "wpa"}) /\ <<"sfd">> \in Seq({"sfd", "wpa"})
          /\ <<"sfd", "wpa">> \in Seq({"sfd", "wpa"}) /\ <<"wpa", "sfd">> \in Seq({"sfd", "wpa"})
      OBVIOUS
    <3>2. QED
      BY <1>12, <3>1 DEF epoll_wait, history
  <2>2. QED
    BY <1>12, <2>1 DEF epoll_wait, history
<1>13. ASSUME dispatch_done PROVE IInv'
  BY <1>13 DEF dispatch_done, Goto, history
<1>14. ASSUME sfd_empty PROVE IInv'
  BY <1>14 DEF sfd_empty, Goto, history
<1>15. ASSUME NEW s \in Signal, dispatch_sfd(s) PROVE IInv'
  <2>1. evs' \in Seq({"sfd", "wpa"})
    BY <1>15 DEF dispatch_sfd, dispatch_chld, Quit, history
  <2>2. CASE s = "CHLD"
    BY <1>15, <2>1, <2>2 DEF dispatch_sfd, dispatch_chld, Quit, history
  <2>3. CASE s = "PIPE"
    BY <1>15, <2>1, <2>3 DEF dispatch_sfd, dispatch_chld, Quit, history
  <2>4. CASE s = "TERM"
    BY <1>15, <2>1, <2>4 DEF dispatch_sfd, dispatch_chld, Quit, history
  <2>5. QED
    BY <2>2, <2>3, <2>4
<1>16. ASSUME wpa_dispatch PROVE IInv'
  BY <1>16 DEF wpa_dispatch, history
<1>17. ASSUME wpa_event PROVE IInv'
  BY <1>17 DEF wpa_event, Serve, history
<1>18. ASSUME wpa_ping PROVE IInv'
  BY <1>18 DEF wpa_ping, Serve, history
<1>19. ASSUME wpa_done PROVE IInv'
  BY <1>19 DEF wpa_done, Goto, history
<1>20. ASSUME wpa_error PROVE IInv'
  BY <1>20 DEF wpa_error, Goto, history
<1>21. ASSUME kill_wpa PROVE IInv'
  BY <1>21 DEF kill_wpa, Kill
<1>22. ASSUME terminate_failed PROVE IInv'
  BY <1>22 DEF terminate_failed, Kill, Reap
<1>23. ASSUME ChildUp PROVE IInv'
  BY <1>23 DEF ChildUp, daemon, history
<1>24. ASSUME ChildExits PROVE IInv'
  <2>1. TypeOK' /\ KnowsChild' /\ LeftFits'
    BY <1>24 DEF ChildExits, daemon, history
  <2>2. StartedInv' /\ ChildInv' /\ ReapedInv' /\ StrayInv'
    BY <1>24 DEF ChildExits, daemon, history
  <2>3. QED
    BY <1>24, <2>1, <2>2 DEF ChildExits, daemon, history
<1>25. ASSUME ChildStops PROVE IInv'
  BY <1>25 DEF ChildStops, daemon
<1>26. ASSUME SendSignal PROVE IInv'
  BY <1>26 DEF SendSignal, daemon, history
<1>27. CASE UNCHANGED vars
  BY <1>27 DEF vars, daemon, history
<1> QED
  BY <1>1, <1>2, <1>3, <1>4, <1>5, <1>6, <1>7, <1>8, <1>9, <1>10, <1>11, <1>12, <1>13,
     <1>14, <1>15, <1>16, <1>17, <1>18, <1>19, <1>20, <1>21, <1>22, <1>23, <1>24, <1>25,
     <1>26, <1>27 DEF Next, Startup, Request, Dispatch, Teardown

\* So it holds throughout.
LEMMA Invariance == Spec => []IInv
<1>1. QED
  BY InitOK, StepOK, PTL DEF Spec

\* Whatever path leads to the daemon's end (fork_wpa to kill_wpa, with the child
\* ending, stopping and answering at any time and signals coming in at any time),
\* the child has ended, was told to, or was stopped by job control.
THEOREM NoOrphanHolds == Spec => []NoOrphan
<1>1. IInv => NoOrphan
  BY DEF IInv
<1>2. QED
  BY <1>1, Invariance, PTL

\* Once the startup is over, kill_wpa signals no pid that was reaped.
THEOREM KillsOwnChildHolds == Spec => []KillsOwnChild
<1>1. IInv => KillsOwnChild
  BY DEF IInv
<1>2. QED
  BY <1>1, Invariance, PTL

=============================================================================
