---------------------------- MODULE MCDispatcherInv ----------------------------
(***************************************************************************)
(* The dispatcher instantiated over the module of its proofs: TLC checks  *)
(* the properties that DispatcherProofs proves on four variables and      *)
(* three measurement types.                                                *)
(***************************************************************************)
EXTENDS DispatcherProofs

CONSTANTS v1, v2, v3, v4, Kern, Blob, Plain, P0, PT, Other

MCVars == {v1, v2, v3, v4}
MCTypes == {Kern, Blob, Plain}
MCAttesters == {"@_0", "@_t", "@_x"}
MCResources == {"app-list"}
MCPlaces == {P0, PT}
MCPlaceInfo == [a \in {"@_0", "@_t"} |-> IF a = "@_0" THEN P0 ELSE PT]
MCVarAddr ==
    [v \in MCVars |->
        CASE v = v1 -> [attester |-> "@_t", resource |-> "app-list"]
          [] v = v2 -> [attester |-> "@_0", resource |-> "app-list"]
          [] v = v3 -> [attester |-> "@_x", resource |-> "app-list"]
          [] v = v4 -> Other]
MCRegistry == {"kernel_msmt_asp", "send_execute_tcp_asp", "userspace_asp"}

\* The generic select_asp: send_execute_tcp_asp measures blobs, a userspace
\* ASP the other non-kernel types.
MCCapable(v, t) ==
    IF t = Blob THEN {"send_execute_tcp_asp"} ELSE {"userspace_asp"}

MCRequests ==
    {<<v1, Blob>>, <<v2, Blob>>, <<v3, Blob>>, <<v4, Blob>>,
     <<v4, Kern>>, <<v2, Plain>>}
=============================================================================
