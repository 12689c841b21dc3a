-------------------------- MODULE ProviderRuntime --------------------------
(* spawn_and_wait on Unix: one external process is started in a process     *)
(* group of its own, polled until it exits or its deadline passes,          *)
(* terminated in two stages, reaped and drained, each wait bounded.         *)
(* The only caller never sets the cancel flag, so cancellation is left out. *)
EXTENDS Naturals

VARIABLES
    phase,      \* what spawn_and_wait is doing
    child,      \* the process it started
    kin,        \* does a descendant live on and hold the output pipes?
    verdict     \* the outcome it is going to return

runtimeVars == <<phase, child, kin, verdict>>

Phase == {"off", "waiting", "terminating", "reaping", "capturing", "ended"}
Exited == {"exit_zero", "exit_other"}
Child == {"none", "running"} \cup Exited
Verdict == {"none", "exited", "timed_out", "unavailable", "error"}

RuntimeTypeOK ==
    /\ phase \in Phase
    /\ child \in Child
    /\ kin \in BOOLEAN
    /\ verdict \in Verdict

RuntimeInit == phase = "off" /\ child = "none" /\ kin = FALSE /\ verdict = "none"

(* command.spawn() fails: the outcome is Unavailable and nothing runs.      *)
LaunchFails ==
    /\ phase = "off"
    /\ phase' = "ended"
    /\ verdict' = "unavailable"
    /\ UNCHANGED <<child, kin>>

Launch ==
    /\ phase = "off"
    /\ phase' = "waiting"
    /\ child' = "running"
    /\ kin' \in BOOLEAN
    /\ UNCHANGED verdict

PollExited ==
    /\ phase = "waiting"
    /\ child \in Exited
    /\ phase' = "reaping"
    /\ verdict' = "exited"
    /\ UNCHANGED <<child, kin>>

(* try_wait said "still running" (or failed), so the tree gets SIGTERM.     *)
(* The child may have exited since.                                         *)
StopWaiting ==
    /\ phase = "waiting"
    /\ phase' = "terminating"
    /\ verdict' \in {"timed_out", "error"}
    /\ UNCHANGED <<child, kin>>

(* The child is gone within the grace period: terminate_tree returns at     *)
(* once and whatever else is in the group is left alone.                    *)
LeaveInGrace ==
    /\ phase = "terminating"
    /\ child \in Exited
    /\ phase' = "reaping"
    /\ UNCHANGED <<child, kin, verdict>>

(* SIGKILL to the group.  A child in an uninterruptible call stays.         *)
HardKill ==
    /\ phase = "terminating"
    /\ child = "running"
    /\ phase' = "reaping"
    /\ child' \in {"running", "exit_other"}
    /\ kin' = FALSE
    /\ UNCHANGED verdict

(* Mutant: the child is waited for without a limit.                         *)
MutReap ==
    /\ phase = "reaping"
    /\ child \in Exited
    /\ phase' = "capturing"
    /\ UNCHANGED <<child, kin, verdict>>

Reap ==
    /\ phase = "reaping"
    /\ phase' = "capturing"
    /\ verdict' = IF child \in Exited THEN verdict ELSE "error"
    /\ UNCHANGED <<child, kin>>

(* The pipes are drained, or given up after CAPTURE_TIMEOUT because a       *)
(* descendant still holds them.                                             *)
Capture ==
    /\ phase = "capturing"
    /\ phase' = "ended"
    /\ UNCHANGED <<child, kin, verdict>>

RuntimeStep ==
    \/ PollExited
    \/ StopWaiting
    \/ LeaveInGrace
    \/ HardKill
    \/ Reap
    \/ Capture

(* What the processes do on their own, signals they honour included.        *)
ChildExits ==
    /\ child = "running"
    /\ child' \in Exited
    /\ UNCHANGED <<phase, kin, verdict>>

KinExits ==
    /\ kin
    /\ kin' = FALSE
    /\ UNCHANGED <<phase, child, verdict>>

Forget == phase' = "off" /\ child' = "none" /\ kin' = FALSE /\ verdict' = "none"
=============================================================================
