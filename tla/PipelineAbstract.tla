-------------------------- MODULE PipelineAbstract --------------------------
(***************************************************************************)
(* What execute_sign_send_pipeline promises its caller (spec sections 4.5  *)
(* and 7), with the processes, pipes and workers hidden: after the setup   *)
(* the contract is transmitted at most once, whole or truncated; the call  *)
(* returns once, with a failure code (-1, or -2 for a spawn failure) or    *)
(* with success, and success only when the whole contract was sent;        *)
(* nothing happens after the return.                                       *)
(***************************************************************************)
EXTENDS Integers

VARIABLES
    phase,      \* "setup", "running" or "returned"
    result,     \* the return value, NoResult before the return
    sent        \* what reached the peer channel

avars == <<phase, result, sent>>

NoResult == 1000

\* The values the call may return after sending s.
Results(s) == {-2, -1} \cup (IF s = "complete" THEN {1} ELSE {})

Init ==
    /\ phase = "setup"
    /\ result = NoResult
    /\ sent = "none"

\* The setup succeeded: the stages are running.
Begin ==
    /\ phase = "setup"
    /\ phase' = "running"
    /\ UNCHANGED <<result, sent>>

\* The send stage transmits the contract, once.
Transmit ==
    /\ phase = "running"
    /\ sent = "none"
    /\ sent' \in {"complete", "partial"}
    /\ UNCHANGED <<phase, result>>

\* The call returns.
Return ==
    /\ phase \in {"setup", "running"}
    /\ phase' = "returned"
    /\ result' \in Results(sent)
    /\ UNCHANGED sent

Next == Begin \/ Transmit \/ Return

Spec == Init /\ [][Next]_avars

\* The call returns: spec section 4.5 asks every level to wait for its
\* child, so the caller is never left blocked.
FairSpec == Spec /\ WF_avars(Return)

=============================================================================
