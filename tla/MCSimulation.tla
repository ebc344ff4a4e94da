---------------------------- MODULE MCSimulation ----------------------------
(* An instance of Simulation for TLC: goroutines are interchangeable, and the *)
(* models are Llama-3-8B and Llama-3-70B.                                      *)
EXTENDS Simulation, TLC

Symmetry == Permutations(Client)

TwoModels == <<[layers |-> 32, heads |-> 32], [layers |-> 80, heads |-> 64]>>
AllKinds == {"library", "comparison", "rag"}
=============================================================================
