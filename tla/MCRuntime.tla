------------------------------ MODULE MCRuntime ------------------------------
(* Instances of Runtime for TLC.                                            *)
EXTENDS Runtime

MCTurns == 1 .. MaxTurns
MCRequestOf == [n \in 1 .. MaxFacts |-> "request " \o ToString(n)]
MCRequests == {MCRequestOf[n] : n \in 1 .. MaxFacts}
=============================================================================
