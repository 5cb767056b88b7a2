--------------------------- MODULE MCOrchestrator ---------------------------
(***************************************************************************)
(* apb_execute with every argument list of up to three pairs over the keys *)
(* "@_0", "@_t", "@_x" and three place ids, one of which does not resolve. *)
(***************************************************************************)
EXTENDS Orchestrator

CONSTANTS idA, idB, idBad, PA, PB

MCKeys == {"@_0", "@_t", "@_x"}
MCIds == {idA, idB, idBad}
MCPlaces == {PA, PB}
MCDirectory == [x \in MCIds |-> CASE x = idA -> PA
                                  [] x = idB -> PB
                                  [] x = idBad -> NoPlace]
=============================================================================
