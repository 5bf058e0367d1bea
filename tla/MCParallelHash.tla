--------------------------- MODULE MCParallelHash ---------------------------
(* ParallelHash on every input that the generator writes over a few keys. *)
EXTENDS ParallelHash

CONSTANTS MANDATORY_PUTS, max_unique, totalops

ASSUME GenAssumption == MANDATORY_PUTS \in Nat /\ max_unique \in Nat /\ totalops \in Nat

Gen == INSTANCE InputGen

GeneratedInputs == Gen!Generated
=============================================================================
